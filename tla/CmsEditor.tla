----------------------------- MODULE CmsEditor -----------------------------
(***************************************************************************)
(* An administrator edits the home page of the shop in one tab             *)
(* (pages/admin/admin.component.ts) while another one may save it too.     *)
(*                                                                         *)
(* The form is observed by a draft manager, which keeps a history for undo *)
(* and redo and writes what was typed to the local storage, from where it  *)
(* can be restored; pages and blog posts have managers of the same class.  *)
(* The content block has a version: a save carries the one the page knows, *)
(* and the server refuses it when the block has another.                   *)
(*                                                                         *)
(* A content is a value that survives being sent and loaded; what that     *)
(* does to spaces and surplus items is left out, and so are a storage that *)
(* refuses to be written, other tabs of the administrator, which share its *)
(* key, and the branch for a 404, which this server never answers a save.  *)
(* A slip is a plausible mistake in the definition after it.               *)
(***************************************************************************)
EXTENDS Naturals, Sequences

CONSTANTS
  Contents,     \* what the form may hold
  Default,      \* ... after a load that failed
  None,         \* no content
  Limit,        \* opts.limit, of the history
  MaxRequests,  \* bound on the requests under way at the same time
  MaxVersion,   \* bound on the versions of the block
  MaxEdits      \* bound on edits, saves, visits, failures and saves of the other one

\* What is assumed of the constants.  A history of length 0 could not undo.
EditorAssumption ==
  /\ Default \in Contents /\ None \notin Contents
  /\ Limit \in Nat \ {0}
  /\ MaxRequests \in Nat /\ MaxVersion \in Nat \ {0} /\ MaxEdits \in Nat

VARIABLES
  form,         \* homeBlocks
  draft,        \* the draft manager, cmsHomeDraft
  stored,       \* its item in the local storage
  known,        \* contentVersions['home.sections'], 0 is none
  req,          \* the requests under way
  block,        \* the content block of the server
  shown,        \* the versions the page has shown or saved (history)
  mixed,        \* another save came between two steps of one (history)
  cut,          \* a page since left has cleared the storage (history)
  edits

editorVars == <<form, draft, stored, known, shown, cut>>
vars == <<editorVars, req, block, mixed, edits>>

Requests == 1..MaxRequests
Versions == 0..MaxVersion
Content0 == Contents \union {None}

\* The timer of the manager runs, and autosavePending is set, while there is a pending.
Draft == [ready : BOOLEAN, past : Seq(Contents), future : Seq(Contents),
          present : Content0, server : Content0, pending : Content0,
          dirty : BOOLEAN, candidate : Content0]
NoDraft == [ready |-> FALSE, past |-> <<>>, future |-> <<>>, present |-> None,
            server |-> None, pending |-> None, dirty |-> FALSE, candidate |-> None]

\* by: the page, a page since left, or nobody.  base: the version a save has read.
Request == [kind : {"load", "save"}, by : {"page", "left", "nobody"},
            at : {"none", "sent", "read", "written", "done", "refused", "failed"},
            content : Content0, version : Versions, base : Versions]
Free == [kind |-> "load", by |-> "nobody", at |-> "none",
         content |-> None, version |-> 0, base |-> 0]

TypeOK ==
  /\ form \in Contents
  /\ draft \in Draft
  \* Redo and restore do not trim, but only one autosave is restored to a history.
  /\ Len(draft.past) + Len(draft.future) <= Limit + 1
  /\ draft.ready <=> draft.present # None
  /\ draft.pending # None => draft.ready
  /\ stored \in Content0 /\ known \in Versions
  /\ req \in [Requests -> Request]
  /\ block \in [version : Versions, content : Content0]
  /\ shown \subseteq Versions /\ mixed \in BOOLEAN /\ cut \in BOOLEAN
  /\ edits \in 0..MaxEdits

Edit == edits < MaxEdits /\ edits' = edits + 1

-----------------------------------------------------------------------------
(* CmsDraftManager, as functions of the manager and the storage.            *)

\* d with the storage beside it
With(d, s) == [manager |-> d, stored |-> s]

\* trimPast(): all that is over the limit is cut off, the oldest first.
Trim(past) == IF Len(past) <= Limit THEN past ELSE SubSeq(past, Len(past) - Limit + 1, Len(past))

\* What commitNow() and commitPending() do with a new content: it becomes the present,
\* what was undone is gone, and it is written to the storage.
Keep(d, c) ==
  With([d EXCEPT !.past = Trim(Append(@, d.present)), !.present = c, !.future = <<>>], c)

\* initFromServer() and readAutosaveCandidate()
InitFromServer(s, c) ==
  With([NoDraft EXCEPT !.ready = TRUE, !.present = c, !.server = c,
                       !.candidate = IF s = c THEN None ELSE s],
       IF s = c THEN None ELSE s)

CommitNow(d, s, c) ==
  LET e == [d EXCEPT !.pending = None, !.dirty = (c # d.server)]
  IN  IF c = d.present THEN With(e, s) ELSE Keep(e, c)

CommitPending(d, s) ==
  LET e == [d EXCEPT !.pending = None]
  IN  IF d.pending = d.present THEN With(e, s)
      ELSE Keep([e EXCEPT !.dirty = (d.pending # d.server)], d.pending)

\* observe().  A content that is back at the present leaves the pending one to its timer.
Observe(d, c) ==
  [d EXCEPT !.dirty = (c # d.server), !.pending = IF c = d.present THEN @ ELSE c]

\* What undo() does once the form is committed.
StepBack(d) ==
  [d EXCEPT !.past = SubSeq(@, 1, Len(@) - 1), !.future = Append(@, d.present),
            !.present = d.past[Len(d.past)], !.dirty = (d.past[Len(d.past)] # d.server)]

StepForward(d) ==
  [d EXCEPT !.future = SubSeq(@, 1, Len(@) - 1), !.past = Append(@, d.present),
            !.present = d.future[Len(d.future)], !.dirty = (d.future[Len(d.future)] # d.server)]

\* markServerSaved(), which takes the form for what was saved
MarkServerSaved(d, s, c) ==
  IF ~d.ready THEN With(d, s)
  ELSE With([CommitNow(d, s, c).manager EXCEPT !.server = c, !.dirty = FALSE], None)

Becomes(r) == draft' = r.manager /\ stored' = r.stored

-----------------------------------------------------------------------------
(* The page.                                                                *)

\* The lowest free requests are used.
Lowest(S) == S # {} /\ \A i \in S, j \in Requests : req[j] = Free /\ j \notin S => \A k \in S : k < j
SendAll(S, r) ==
  /\ \A i \in S : req[i] = Free
  /\ Lowest(S)
  /\ req' = [i \in Requests |-> IF i \in S THEN r ELSE req[i]]

LoadRequest == [Free EXCEPT !.by = "page", !.at = "sent"]

\* The requests of a page when the next one is opened.  A load nobody hears is nothing.
Orphan(r, by) ==
  IF by = "nobody" /\ r.kind = "load" THEN Free ELSE [r EXCEPT !.by = by]

\* The page is opened while nothing of it is under way, or was.
Init ==
  /\ form = Default /\ draft = NoDraft
  /\ stored = None
  /\ known = 0
  /\ req = [i \in Requests |-> IF i \in {1, 2} THEN LoadRequest ELSE Free]
  /\ block \in [version : {0}, content : {None}] \union [version : {1}, content : Contents]
  /\ shown = {} /\ mixed = FALSE /\ cut = FALSE
  /\ edits = 0

\* The administrator changes something.
Type(c) ==
  /\ Edit
  /\ c # form
  /\ form' = c
  /\ UNCHANGED <<draft, stored, known, shown, cut, req, block, mixed>>

\* Slip: the form is observed before anything is loaded.
PollUnready ==
  /\ draft' = Observe(draft, form)
  /\ UNCHANGED <<form, stored, known, shown, cut, req, block, mixed, edits>>

\* observeCmsDrafts(), every 1.2 s while the tab is visible
Poll ==
  /\ draft.ready
  /\ draft' = Observe(draft, form)
  /\ UNCHANGED <<form, stored, known, shown, cut, req, block, mixed, edits>>

\* ... and what it finds is committed 650 ms later.
CommitTimer ==
  /\ draft.pending # None
  /\ Becomes(CommitPending(draft, stored))
  /\ UNCHANGED <<form, known, shown, cut, req, block, mixed, edits>>

\* Slip: what is undone is not written to the storage.
UndoUnwritten ==
  /\ draft.ready /\ (draft.past # <<>> \/ form # draft.present)
  /\ LET r == CommitNow(draft, stored, form)
     IN  /\ draft' = StepBack(r.manager) /\ stored' = r.stored
         /\ form' = StepBack(r.manager).present
  /\ UNCHANGED <<known, shown, cut, req, block, mixed, edits>>

\* undoHomeDraft(), offered by canUndo()
Undo ==
  /\ draft.ready /\ (draft.past # <<>> \/ form # draft.present)
  /\ LET d == StepBack(CommitNow(draft, stored, form).manager)
     IN  draft' = d /\ stored' = d.present /\ form' = d.present
  /\ UNCHANGED <<known, shown, cut, req, block, mixed, edits>>

\* redoHomeDraft(), offered by canRedo()
Redo ==
  /\ draft.ready /\ form = draft.present /\ draft.future # <<>>
  /\ LET d == StepForward(CommitNow(draft, stored, form).manager)
     IN  draft' = d /\ stored' = d.present /\ form' = d.present
  /\ UNCHANGED <<known, shown, cut, req, block, mixed, edits>>

\* homeDraftHasRestore()
Offered == draft.candidate # None /\ ~draft.dirty

\* restoreAutosave().  The future is kept.
Restore ==
  /\ Offered
  /\ LET c == draft.candidate
         r == CommitNow([draft EXCEPT !.candidate = None], stored, form)
         e == r.manager
     IN  IF c = e.present THEN Becomes(r) /\ UNCHANGED form
         ELSE /\ draft' = [e EXCEPT !.past = Trim(Append(@, e.present)), !.present = c,
                                    !.dirty = (c # e.server)]
              /\ stored' = c /\ form' = c
  /\ UNCHANGED <<known, shown, cut, req, block, mixed, edits>>

\* discardAutosave()
Dismiss ==
  /\ Offered
  /\ draft' = [draft EXCEPT !.candidate = None] /\ stored' = None
  /\ UNCHANGED <<form, known, shown, cut, req, block, mixed, edits>>

\* saveSections(), asked for at any time, again or before anything is loaded
Save ==
  /\ Edit
  /\ \E i \in Requests :
       SendAll({i}, [LoadRequest EXCEPT !.kind = "save", !.content = form, !.version = known])
  /\ UNCHANGED <<editorVars, block, mixed>>

\* ngOnDestroy() and a new page.  ngOnInit() loads twice: itself, and when it
\* subscribes to the route.  The answers to the page that is left still come.
Visit(by, s) ==
  /\ Edit
  /\ draft' = NoDraft /\ stored' = s /\ form' = Default /\ known' = 0 /\ cut' = FALSE
  /\ LET left == [i \in Requests |-> IF req[i].by = "nobody" THEN req[i] ELSE Orphan(req[i], by)]
         free == {i \in Requests : left[i] = Free}
     IN  \E i, j \in free :
           /\ i < j /\ \A k \in free : k >= i /\ (k > i => k >= j)
           /\ req' = [left EXCEPT ![i] = LoadRequest, ![j] = LoadRequest]
  /\ UNCHANGED <<shown, block, mixed>>

\* The guard asks before changes it knows of are discarded, with their autosave.
LeaveAndReturn == Visit("left", IF draft.ready /\ draft.dirty THEN None ELSE stored)

\* The browser loads the application anew.
Reload == Visit("nobody", stored)

-----------------------------------------------------------------------------
(* The server.                                                              *)

Answer(i, r) == req' = [req EXCEPT ![i] = r]

\* An answer that carries no content
Ends(i, how) == Answer(i, [req[i] EXCEPT !.at = how, !.content = None, !.version = 0, !.base = 0])

\* admin_get_content; a block that is missing is an error.
AnswerLoad(i) ==
  /\ req[i].kind = "load" /\ req[i].at = "sent"
  /\ IF block.version = 0 THEN Ends(i, "failed")
     ELSE Answer(i, [req[i] EXCEPT !.at = "done", !.content = block.content,
                                   !.version = block.version])
  /\ UNCHANGED <<editorVars, block, mixed, edits>>

\* Slip: the version that is expected is not compared.
ReadBlindly(i) ==
  /\ req[i].kind = "save" /\ req[i].at = "sent"
  /\ Answer(i, [req[i] EXCEPT !.at = "read", !.base = block.version])
  /\ UNCHANGED <<editorVars, block, mixed, edits>>

\* upsert_block: the block is read, without a lock, and its version compared when one
\* is expected of a block that exists.
ReadBlock(i) ==
  /\ req[i].kind = "save" /\ req[i].at = "sent"
  /\ IF req[i].version \in {0, block.version} \/ block.version = 0
     THEN Answer(i, [req[i] EXCEPT !.at = "read", !.base = block.version])
     ELSE Ends(i, "refused")
  /\ UNCHANGED <<editorVars, block, mixed, edits>>

Busy(S) == \E j \in S : req[j].kind = "save" /\ req[j].at \in {"read", "written"}

\* ... written, with the version after the one read.  The block that two create at
\* once is created by one of them.
WriteBlock(i) ==
  /\ req[i].at = "read" /\ req[i].base < MaxVersion
  /\ IF req[i].base = 0 /\ block.version # 0
     THEN Ends(i, "failed") /\ UNCHANGED <<block, mixed>>
     ELSE /\ block' = [version |-> req[i].base + 1, content |-> req[i].content]
          /\ Ends(i, "written")
          /\ mixed' = (mixed \/ Busy(Requests \ {i}))
  /\ UNCHANGED <<editorVars, edits>>

\* ... and read again, for the answer.
AnswerSave(i) ==
  /\ req[i].at = "written"
  /\ Answer(i, [req[i] EXCEPT !.at = "done", !.version = block.version])
  /\ UNCHANGED <<editorVars, block, mixed, edits>>

\* The server or the connection fails, before or after the block is written.
Fail(i) ==
  /\ Edit
  /\ req[i].at \in {"sent", "read", "written", "done", "refused"}
  /\ Ends(i, "failed")
  /\ UNCHANGED <<editorVars, block, mixed>>

\* The save of another administrator, who has seen the present version.
OtherSaves(c) ==
  /\ Edit
  /\ block.version < MaxVersion
  /\ block' = [version |-> block.version + 1, content |-> c]
  /\ mixed' = (mixed \/ Busy(Requests))
  /\ UNCHANGED <<editorVars, req>>

-----------------------------------------------------------------------------
(* The answers.                                                             *)

Done(i) == req' = [req EXCEPT ![i] = Free]

Show(c) == form' = c /\ Becomes(InitFromServer(stored, c))

\* loadSections(), whatever was typed meanwhile
Loaded(i) ==
  /\ req[i].kind = "load" /\ req[i].by = "page" /\ req[i].at = "done"
  /\ known' = req[i].version /\ shown' = shown \union {req[i].version}
  /\ Show(req[i].content)
  /\ Done(i)
  /\ UNCHANGED <<cut, block, mixed, edits>>

NotLoaded(i) ==
  /\ req[i].kind = "load" /\ req[i].by = "page" /\ req[i].at = "failed"
  /\ known' = 0
  /\ Show(Default)
  /\ Done(i)
  /\ UNCHANGED <<shown, cut, block, mixed, edits>>

\* rememberContentVersion()
Saved(i) ==
  /\ req[i].kind = "save" /\ req[i].by = "page" /\ req[i].at = "done"
  /\ known' = req[i].version /\ shown' = shown \union {req[i].version}
  /\ Becomes(MarkServerSaved(draft, stored, form))
  /\ Done(i)
  /\ UNCHANGED <<form, cut, block, mixed, edits>>

\* handleContentConflict()
Conflict(i) ==
  /\ req[i].kind = "save" /\ req[i].by = "page" /\ req[i].at = "refused"
  /\ known' = 0
  /\ req' = [req EXCEPT ![i] = LoadRequest]
  /\ UNCHANGED <<form, draft, stored, shown, cut, block, mixed, edits>>

NotSaved(i) ==
  /\ req[i].kind = "save" /\ req[i].by = "page" /\ req[i].at = "failed"
  /\ Done(i)
  /\ UNCHANGED <<editorVars, block, mixed, edits>>

\* The same to a page since left: its form is gone, but it has the storage in common
\* with the page of now.  A save clears it, unless nothing was loaded before.
LeftAnswered(i) ==
  LET r == req[i] IN
  /\ r.by = "left" /\ r.at \in {"done", "refused", "failed"}
  /\ IF r.kind = "save" /\ r.at = "refused"
     THEN req' = [req EXCEPT ![i] = [LoadRequest EXCEPT !.by = "left"]]
     ELSE Done(i)
  /\ \/ /\ IF r.kind = "save" THEN r.at = "done"
           ELSE stored = (IF r.at = "done" THEN r.content ELSE Default)
        /\ stored' = None /\ cut' = TRUE
     \/ /\ r.kind = "load" => stored # (IF r.at = "done" THEN r.content ELSE Default)
        /\ UNCHANGED <<stored, cut>>
  /\ UNCHANGED <<form, draft, known, shown, block, mixed, edits>>

Unheard(i) ==
  /\ req[i].by = "nobody" /\ req[i].at \in {"done", "refused", "failed"}
  /\ Done(i)
  /\ UNCHANGED <<editorVars, block, mixed, edits>>

-----------------------------------------------------------------------------
Next ==
  \/ \E c \in Contents : Type(c) \/ OtherSaves(c)
  \/ Poll \/ CommitTimer \/ Undo \/ Redo \/ Restore \/ Dismiss \/ Save
  \/ LeaveAndReturn \/ Reload
  \/ \E i \in Requests :
       \/ AnswerLoad(i) \/ ReadBlock(i) \/ WriteBlock(i) \/ AnswerSave(i) \/ Fail(i)
       \/ Loaded(i) \/ NotLoaded(i) \/ Saved(i) \/ Conflict(i) \/ NotSaved(i)
       \/ LeftAnswered(i) \/ Unheard(i)

Spec == Init /\ [][Next]_vars

-----------------------------------------------------------------------------
(* Properties.                                                              *)

\* What the page calls unsaved is in the storage once its timer has fired, however
\* edits, undo, redo, restored and dismissed autosaves, saves and reloads follow one
\* another.  It is gone only where a page since left has cleared the storage and nothing
\* was committed since.
AutosaveKeepsUp ==
  draft.ready /\ draft.dirty /\ draft.pending = None =>
    stored = draft.present \/ (cut /\ stored = None)

\* A save that carries a version replaces only a version the page has shown or saved
\* itself, although the versions of loads and saves are answered in any order; saves
\* that overlap are the exception.
NothingUnseenReplaced ==
  [][\A i \in Requests :
       req[i].at = "read" /\ req[i].version # 0 /\ block'.version # block.version /\ ~mixed'
         => block.version \in shown]_vars

=============================================================================
