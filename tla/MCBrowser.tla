----------------------------- MODULE MCBrowser -----------------------------
(***************************************************************************)
(* What is kept in the tabs of a browser, for TLC: AuthSession and         *)
(* CmsEditor.  They share no state, so each behaviour is one of one of     *)
(* them.  The tabs of AuthSession are interchangeable.                     *)
(***************************************************************************)
EXTENDS AuthSession, Sequences, TLC

CONSTANTS
  Contents, Default, None, Limit, MaxRequests, MaxVersion, MaxEdits

VARIABLES
  part,         \* the module whose behaviour this is
  form, draft, stored, known, req, block, shown, mixed, cut, edits

Editor == INSTANCE CmsEditor

ASSUME EditorBounds == Editor!EditorAssumption

editorVars == <<form, draft, stored, known, req, block, shown, mixed, cut, edits>>

BrowserInit ==
  /\ part \in {"sessions", "editor"}
  /\ Init /\ Editor!Init
  \* The editor has one initial state when it is not looked at.
  /\ part = "editor" \/ block.version = 0

BrowserNext ==
  \/ part = "sessions" /\ Next /\ UNCHANGED <<part, editorVars>>
  \/ part = "editor" /\ Editor!Next /\ UNCHANGED <<part, vars>>

BrowserSpec == BrowserInit /\ [][BrowserNext]_<<part, vars, editorVars>>

Symmetry == Permutations(Tabs)

-----------------------------------------------------------------------------
\* The types of CmsEditor.
EditorTypeOK == Editor!TypeOK

\* The properties of CmsEditor, where they are explained.
AutosaveKeepsUp       == Editor!AutosaveKeepsUp
NothingUnseenReplaced == Editor!NothingUnseenReplaced
=============================================================================
