--------------------------- MODULE CmsEditorProofs ---------------------------
(***************************************************************************)
(* Proofs about CmsEditor for any contents, any length of the history and  *)
(* any number of requests and edits.  DraftOK relates the draft manager to *)
(* the storage, RequestOK the versions in a request to the block and to    *)
(* what the page has shown.                                                *)
(***************************************************************************)
EXTENDS CmsEditor, SequenceTheorems, TLAPS

\* How long the history may be: only a restored autosave is not trimmed.
Room(d) == IF d.candidate = None THEN Limit + 1 ELSE Limit

HistoryFits(d, m) == Len(d.past) + Len(d.future) <= m

\* The manager d and the storage s, when a page since left has cleared it or not (k).
DraftTyped(d) ==
  /\ d \in Draft
  /\ d.ready <=> d.present # None
  /\ d.pending # None => d.ready
  /\ d.candidate # None => d.ready
  /\ HistoryFits(d, Room(d))

DraftOK(d, s, k) ==
  /\ DraftTyped(d)
  /\ s \in Content0
  /\ d.ready =>
       /\ d.pending = None => (d.dirty <=> d.present # d.server)
       /\ d.pending # None => d.pending # d.present
       \* A dismissed autosave leaves the storage empty, before the timer fires.
       /\ \/ k /\ s = None
          \/ s = d.present \/ d.present = d.server
          \/ d.candidate = None /\ d.pending # None

-----------------------------------------------------------------------------
(* The draft manager.                                                       *)

\* The elements and lengths of the sequences a history is made of.
LEMMA HistoryFacts ==
  ASSUME NEW S, NEW q \in Seq(S), NEW e \in S
  PROVE  /\ Len(q) \in Nat /\ <<>> \in Seq(S) /\ Len(<<>>) = 0
         /\ Append(q, e) \in Seq(S) /\ Len(Append(q, e)) = Len(q) + 1
         /\ Append(q, e) # <<>>
         /\ q # <<>> => /\ Len(q) > 0
                        /\ q[Len(q)] \in S
                        /\ Tail(q) \in Seq(S) /\ Len(Tail(q)) = Len(q) - 1
                        /\ SubSeq(q, 1, Len(q) - 1) \in Seq(S)
                        /\ Len(SubSeq(q, 1, Len(q) - 1)) = Len(q) - 1
<1>1. Len(q) \in Nat /\ q \in [1..Len(q) -> S]
  OBVIOUS
<1>2. /\ Append(q, e) \in Seq(S) /\ Len(Append(q, e)) = Len(q) + 1
      /\ Append(q, e) # <<>>
  BY <1>1, AppendProperties
<1>3. ASSUME q # <<>>
      PROVE  /\ Len(q) > 0 /\ q[Len(q)] \in S
             /\ Tail(q) \in Seq(S) /\ Len(Tail(q)) = Len(q) - 1
  BY <1>1, <1>3
<1>4. ASSUME q # <<>>
      PROVE  /\ SubSeq(q, 1, Len(q) - 1) \in Seq(S)
             /\ Len(SubSeq(q, 1, Len(q) - 1)) = Len(q) - 1
  BY <1>1, <1>3, <1>4
<1> QED
  BY <1>1, <1>2, <1>3, <1>4, EmptySeq

\* Trim() of a history that has grown by one
LEMMA Trimmed ==
  ASSUME EditorAssumption, NEW q \in Seq(Contents), NEW e \in Contents
  PROVE  /\ Trim(Append(q, e)) \in Seq(Contents)
         /\ Trim(Append(q, e)) # <<>>
         /\ Len(Trim(Append(q, e))) <= Len(q) + 1
         /\ Len(q) >= Limit => Len(Trim(Append(q, e))) = Limit
<1> DEFINE a == Append(q, e)
           n == Len(a) - Limit + 1
<1>1. a \in Seq(Contents) /\ Len(a) = Len(q) + 1 /\ a # <<>> /\ Len(q) \in Nat
  BY HistoryFacts
<1>2. Limit \in Nat /\ Limit > 0 /\ n \in Int /\ Len(a) \in Int
  BY <1>1 DEF EditorAssumption
<1>3. ASSUME Len(a) > Limit
      PROVE  /\ SubSeq(a, n, Len(a)) \in Seq(Contents)
             /\ Len(SubSeq(a, n, Len(a))) = Limit
  <2>1. \A i \in n .. Len(a) : a[i] \in Contents
    BY <1>1, <1>2, <1>3, ElementOfSeq
  <2>2. n <= Len(a) /\ Len(a) - n + 1 = Limit
    BY <1>1, <1>2
  <2> HIDE DEF a, n
  <2> QED
    BY <1>2, <2>1, <2>2, SubSeqProperties
<1>4. CASE Len(a) <= Limit
  BY <1>1, <1>2, <1>4 DEF Trim
<1>5. CASE Len(a) > Limit
  <2>1. Trim(a) = SubSeq(a, n, Len(a))
    BY <1>1, <1>2, <1>5 DEF Trim
  <2>2. Trim(a) \in Seq(Contents) /\ Len(Trim(a)) = Limit
    BY <1>3, <1>5, <2>1
  <2> HIDE DEF a
  <2> QED
    BY <1>1, <1>2, <1>5, <2>2 DEF a
<1> QED
  BY <1>1, <1>2, <1>4, <1>5

\* What that does to the length of a history with the past p and the future f, which
\* is lost: q is what the past becomes.
LEMMA TrimmedFits ==
  ASSUME EditorAssumption,
         NEW p \in Seq(Contents), NEW f \in Seq(Contents), NEW q \in Seq(Contents),
         NEW m, m = Limit \/ m = Limit + 1,
         Len(p) + Len(f) <= m, Len(q) <= Len(p) + 1, Len(p) >= Limit => Len(q) = Limit
  PROVE  Len(q) + 0 <= m
BY DEF EditorAssumption

\* One content is moved from one side, p, to the other, f.
LEMMA Moved ==
  ASSUME NEW p \in Seq(Contents), NEW f \in Seq(Contents)
  PROVE  /\ (Len(p) - 1) + (Len(f) + 1) = Len(p) + Len(f)
         /\ (Len(f) + 1) + (Len(p) - 1) = Len(f) + Len(p)
OBVIOUS

\* A history that fits, fits with one more.
LEMMA FitsLonger ==
  ASSUME EditorAssumption, NEW p \in Seq(Contents), NEW f \in Seq(Contents),
         Len(p) + Len(f) <= Limit
  PROVE  Len(p) + Len(f) <= Limit + 1
BY DEF EditorAssumption

\* A history whose past grows by one fits with one more.
LEMMA GrownFits ==
  ASSUME EditorAssumption,
         NEW p \in Seq(Contents), NEW f \in Seq(Contents), NEW q \in Seq(Contents),
         Len(p) + Len(f) <= Limit, Len(q) <= Len(p) + 1
  PROVE  Len(q) + Len(f) <= Limit + 1
BY DEF EditorAssumption

\* commitNow(): the form becomes the present.
LEMMA CommitNowFacts ==
  ASSUME EditorAssumption, NEW d, DraftTyped(d), d.ready,
         NEW s \in Content0, NEW c \in Contents
  PROVE  LET r == CommitNow(d, s, c)
             e == r.manager
         IN  /\ DraftTyped(e) /\ e.ready /\ e.present = c /\ e.pending = None
             /\ e.dirty = (c # d.server) /\ e.server = d.server
             /\ e.candidate = d.candidate
             /\ HistoryFits(d, Limit) => HistoryFits(e, Limit)
             /\ d.past # <<>> \/ c # d.present => e.past # <<>>
             /\ c = d.present => e.future = d.future
             /\ r.stored = IF c = d.present THEN s ELSE c
<1> DEFINE g == [d EXCEPT !.pending = None, !.dirty = (c # d.server)]
           t == Trim(Append(d.past, d.present))
           h == [g EXCEPT !.past = t, !.present = c, !.future = <<>>]
<1>1. d \in Draft /\ d.present \in Contents /\ c # None
  BY DEF DraftTyped, Draft, Content0, EditorAssumption
<1>2. g \in Draft /\ g.present = d.present /\ g.past = d.past /\ g.future = d.future
      /\ g.ready /\ g.pending = None /\ g.dirty = (c # d.server)
      /\ g.server = d.server /\ g.candidate = d.candidate
  BY <1>1 DEF Draft, Content0
<1>3. CASE c = d.present
  <2>1. CommitNow(d, s, c).manager = g /\ CommitNow(d, s, c).stored = s
    BY <1>3 DEF CommitNow, With
  <2> HIDE DEF g
  <2>2. DraftTyped(g) /\ (HistoryFits(d, Limit) => HistoryFits(g, Limit))
    BY <1>1, <1>2, <1>3 DEF DraftTyped, Room, HistoryFits
  <2> QED
    BY <1>2, <1>3, <2>1, <2>2
<1>4. CASE c # d.present
  <2>1. CommitNow(d, s, c) = With(h, c)
    BY <1>2, <1>4 DEF CommitNow, Keep
  <2>2. /\ t \in Seq(Contents) /\ t # <<>> /\ Len(t) \in Nat /\ Len(t) <= Len(d.past) + 1
        /\ Len(d.past) >= Limit => Len(t) = Limit
        /\ Len(d.past) \in Nat /\ Len(d.future) \in Nat
        /\ <<>> \in Seq(Contents) /\ Len(<<>>) = 0
    BY <1>1, Trimmed, HistoryFacts DEF Draft
  <2> HIDE DEF t
  <2>3. /\ h \in Draft /\ h.past = t /\ h.future = <<>>
        /\ h.present = c /\ h.ready /\ h.pending = None /\ h.dirty = (c # d.server)
        /\ h.server = d.server /\ h.candidate = d.candidate
    BY <1>1, <1>2, <2>2 DEF Draft, Content0
  <2> HIDE DEF h
  <2>4. ASSUME NEW m, m = Limit \/ m = Limit + 1, HistoryFits(d, m)
        PROVE  HistoryFits(h, m)
    <3>1. d.past \in Seq(Contents) /\ d.future \in Seq(Contents)
      BY <1>1 DEF Draft
    <3>2. Len(d.past) + Len(d.future) <= m
      BY <2>4 DEF HistoryFits
    <3>3. Len(t) + 0 <= m
      BY <2>2, <2>4, <3>1, <3>2, TrimmedFits, Zenon
    <3> QED
      BY <2>2, <2>3, <3>3, Zenon DEF HistoryFits
  <2>5. DraftTyped(h)
    <3>1. (Room(d) = Limit \/ Room(d) = Limit + 1) /\ Room(h) = Room(d)
      BY <2>3 DEF Room
    <3>2. HistoryFits(h, Room(h))
      BY <2>4, <3>1 DEF DraftTyped
    <3> QED
      BY <1>1, <2>3, <3>2 DEF DraftTyped
  <2>6. CommitNow(d, s, c).manager = h /\ CommitNow(d, s, c).stored = c
    BY <2>1 DEF With
  <2> QED
    BY <1>4, <2>2, <2>3, <2>4, <2>5, <2>6
<1> QED
  BY <1>3, <1>4

\* observe()
LEMMA ObserveKeeps ==
  ASSUME EditorAssumption, NEW d, NEW s, NEW k, DraftOK(d, s, k), d.ready, NEW c \in Contents
  PROVE  DraftOK(Observe(d, c), s, k)
<1> DEFINE e == Observe(d, c)
<1>1. /\ e \in Draft /\ e.past = d.past /\ e.future = d.future /\ e.ready = d.ready
      /\ e.present = d.present /\ e.server = d.server /\ e.candidate = d.candidate
      /\ e.dirty = (c # d.server) /\ e.pending = IF c = d.present THEN d.pending ELSE c
  BY DEF DraftOK, DraftTyped, Draft, Content0, Observe
<1> QED
  BY <1>1 DEF DraftOK, DraftTyped, Room, HistoryFits, EditorAssumption

\* The timer fires: commitPending().
LEMMA TimerKeeps ==
  ASSUME EditorAssumption, NEW d, NEW s, NEW k, DraftOK(d, s, k), d.pending # None
  PROVE  LET r == CommitPending(d, s) IN DraftOK(r.manager, r.stored, k)
<1> DEFINE c == d.pending
           g == [d EXCEPT !.pending = None, !.dirty = (d.pending # d.server)]
           t == Trim(Append(d.past, d.present))
           h == [g EXCEPT !.past = t, !.present = c, !.future = <<>>]
<1>1. d \in Draft /\ d.ready /\ d.present \in Contents /\ c \in Contents /\ c # d.present
  BY DEF DraftOK, DraftTyped, Draft, Content0
<1>2. CommitPending(d, s) = With(h, c)
  <2>1. [[d EXCEPT !.pending = None] EXCEPT !.dirty = (d.pending # d.server)] = g
    BY <1>1 DEF Draft
  <2> QED
    BY <1>1, <2>1 DEF CommitPending, Keep, Draft
<1>3. /\ t \in Seq(Contents) /\ Len(t) \in Nat /\ Len(t) <= Len(d.past) + 1
      /\ Len(d.past) >= Limit => Len(t) = Limit
      /\ Len(d.past) \in Nat /\ Len(d.future) \in Nat
      /\ <<>> \in Seq(Contents) /\ Len(<<>>) = 0
  BY <1>1, Trimmed, HistoryFacts DEF Draft
<1> HIDE DEF t
<1>4. /\ h \in Draft /\ h.past = t /\ h.future = <<>>
      /\ h.present = c /\ h.ready /\ h.pending = None /\ h.dirty = (c # d.server)
      /\ h.server = d.server /\ h.candidate = d.candidate
  BY <1>1, <1>3 DEF Draft, Content0
<1>5. CommitPending(d, s).manager = h /\ CommitPending(d, s).stored = c
  BY <1>2 DEF With
<1> HIDE DEF h
<1>6. HistoryFits(h, Room(h))
  <2>1. d.past \in Seq(Contents) /\ d.future \in Seq(Contents)
    BY <1>1 DEF Draft
  <2>2. /\ Len(d.past) + Len(d.future) <= Room(d) /\ Room(h) = Room(d)
        /\ Room(d) = Limit \/ Room(d) = Limit + 1
    BY <1>4 DEF DraftOK, DraftTyped, Room, HistoryFits
  <2>3. Len(t) + 0 <= Room(d)
    BY <1>3, <2>1, <2>2, TrimmedFits, Zenon
  <2> QED
    BY <1>3, <1>4, <2>2, <2>3, Zenon DEF HistoryFits
<1>7. DraftTyped(h)
  BY <1>1, <1>4, <1>6 DEF DraftTyped, EditorAssumption
<1> QED
  BY <1>1, <1>4, <1>5, <1>7 DEF DraftOK, Content0

\* initFromServer()
LEMMA InitFromServerKeeps ==
  ASSUME EditorAssumption, NEW s \in Content0, NEW c \in Contents, NEW k
  PROVE  LET r == InitFromServer(s, c) IN DraftOK(r.manager, r.stored, k)
<1> DEFINE e == InitFromServer(s, c).manager
<1>0. <<>> \in Seq(Contents) /\ Len(<<>>) = 0
  BY HistoryFacts
<1>1. /\ e \in Draft /\ e.past = <<>> /\ e.future = <<>> /\ e.ready /\ e.present = c
      /\ e.server = c /\ e.pending = None /\ e.dirty = FALSE
  BY <1>0 DEF InitFromServer, With, NoDraft, Draft, Content0
<1>2. InitFromServer(s, c).stored \in Content0
  BY DEF InitFromServer, With, Content0
<1> HIDE DEF e
<1>3. DraftTyped(e)
  BY <1>0, <1>1 DEF DraftTyped, Room, HistoryFits, EditorAssumption
<1> QED
  BY <1>1, <1>2, <1>3 DEF DraftOK, e

\* markServerSaved()
LEMMA MarkServerSavedKeeps ==
  ASSUME EditorAssumption, NEW d, NEW s, NEW k, DraftOK(d, s, k), NEW c \in Contents
  PROVE  LET r == MarkServerSaved(d, s, c) IN DraftOK(r.manager, r.stored, k)
<1>1. CASE ~d.ready
  BY <1>1 DEF MarkServerSaved, With
<1>2. CASE d.ready
  <2> DEFINE e == CommitNow(d, s, c).manager
             g == [e EXCEPT !.server = c, !.dirty = FALSE]
  <2>1. DraftTyped(e) /\ e.ready /\ e.present = c /\ e.pending = None
    BY <1>2, CommitNowFacts DEF DraftOK
  <2>2. /\ g \in Draft /\ g.past = e.past /\ g.future = e.future /\ g.ready
        /\ g.present = c /\ g.server = c /\ g.pending = None /\ g.dirty = FALSE
        /\ g.candidate = e.candidate
    BY <2>1 DEF DraftTyped, Draft, Content0
  <2>3. MarkServerSaved(d, s, c) = With(g, None)
    BY <1>2 DEF MarkServerSaved
  <2>4. DraftTyped(g)
    <3> HIDE DEF g, e
    <3> QED
      BY <2>1, <2>2 DEF DraftTyped, Room, HistoryFits, EditorAssumption
  <2>5. MarkServerSaved(d, s, c).manager = g /\ MarkServerSaved(d, s, c).stored = None
    BY <2>3 DEF With
  <2> HIDE DEF g
  <2> QED
    BY <2>2, <2>4, <2>5 DEF DraftOK, Content0
<1> QED
  BY <1>1, <1>2

\* undo(): what becomes the present is written.
LEMMA UndoKeeps ==
  ASSUME EditorAssumption, NEW d, NEW s, NEW k, DraftOK(d, s, k), d.ready,
         NEW c \in Contents, d.past # <<>> \/ c # d.present
  PROVE  LET e == StepBack(CommitNow(d, s, c).manager)
         IN  DraftOK(e, e.present, k) /\ e.present \in Contents
<1> DEFINE g == CommitNow(d, s, c).manager
           e == StepBack(g)
           n == Len(g.past)
<1>1. /\ DraftTyped(g) /\ g.ready /\ g.present = c /\ g.pending = None
      /\ g.server = d.server /\ g.past # <<>>
  BY CommitNowFacts DEF DraftOK
<1>2. /\ n \in Nat /\ n > 0 /\ g.past[n] \in Contents
      /\ SubSeq(g.past, 1, n - 1) \in Seq(Contents) /\ Len(SubSeq(g.past, 1, n - 1)) = n - 1
      /\ Append(g.future, c) \in Seq(Contents)
      /\ Len(Append(g.future, c)) = Len(g.future) + 1 /\ Len(g.future) \in Nat
  BY <1>1, HistoryFacts DEF DraftTyped, Draft
<1>3. /\ e \in Draft /\ e.past = SubSeq(g.past, 1, n - 1) /\ e.future = Append(g.future, c)
      /\ e.present = g.past[n] /\ e.dirty = (g.past[n] # g.server) /\ e.ready
      /\ e.server = g.server /\ e.pending = None /\ e.candidate = g.candidate
  BY <1>1, <1>2 DEF StepBack, DraftTyped, Draft, Content0
<1>4. Len(e.past) + Len(e.future) = Len(g.past) + Len(g.future)
  <2>1. /\ g.past \in Seq(Contents) /\ g.future \in Seq(Contents)
        /\ e.past \in Seq(Contents) /\ e.future \in Seq(Contents)
    BY <1>1, <1>3 DEF DraftTyped, Draft
  <2> HIDE DEF e, g
  <2>2. Len(e.past) = n - 1 /\ Len(e.future) = Len(g.future) + 1
    BY <1>2, <1>3, Zenon
  <2> QED
    BY <2>1, <2>2, Moved, Zenon DEF n
<1>5. DraftTyped(e)
  <2> HIDE DEF e, g
  <2> QED
    BY <1>1, <1>2, <1>3, <1>4 DEF DraftTyped, Room, HistoryFits, EditorAssumption
<1> QED
  BY <1>2, <1>3, <1>5 DEF DraftOK, Content0

\* redo()
LEMMA RedoKeeps ==
  ASSUME EditorAssumption, NEW d, NEW s, NEW k, DraftOK(d, s, k), d.ready,
         NEW c \in Contents, c = d.present, d.future # <<>>
  PROVE  LET e == StepForward(CommitNow(d, s, c).manager)
         IN  DraftOK(e, e.present, k) /\ e.present \in Contents
<1> DEFINE g == CommitNow(d, s, c).manager
           e == StepForward(g)
           n == Len(g.future)
<1>1. /\ DraftTyped(g) /\ g.ready /\ g.present = c /\ g.pending = None
      /\ g.server = d.server /\ g.future # <<>>
  BY CommitNowFacts DEF DraftOK
<1>2. /\ n \in Nat /\ n > 0 /\ g.future[n] \in Contents
      /\ SubSeq(g.future, 1, n - 1) \in Seq(Contents) /\ Len(SubSeq(g.future, 1, n - 1)) = n - 1
      /\ Append(g.past, c) \in Seq(Contents)
      /\ Len(Append(g.past, c)) = Len(g.past) + 1 /\ Len(g.past) \in Nat
  BY <1>1, HistoryFacts DEF DraftTyped, Draft
<1>3. /\ e \in Draft /\ e.future = SubSeq(g.future, 1, n - 1) /\ e.past = Append(g.past, c)
      /\ e.present = g.future[n] /\ e.dirty = (g.future[n] # g.server) /\ e.ready
      /\ e.server = g.server /\ e.pending = None /\ e.candidate = g.candidate
  BY <1>1, <1>2 DEF StepForward, DraftTyped, Draft, Content0
<1>4. Len(e.past) + Len(e.future) = Len(g.past) + Len(g.future)
  <2>1. /\ g.past \in Seq(Contents) /\ g.future \in Seq(Contents)
        /\ e.past \in Seq(Contents) /\ e.future \in Seq(Contents)
    BY <1>1, <1>3 DEF DraftTyped, Draft
  <2> HIDE DEF e, g
  <2>2. Len(e.future) = n - 1 /\ Len(e.past) = Len(g.past) + 1
    BY <1>2, <1>3, Zenon
  <2> QED
    BY <2>1, <2>2, Moved, Zenon DEF n
<1>5. DraftTyped(e)
  <2> HIDE DEF e, g
  <2> QED
    BY <1>1, <1>2, <1>3, <1>4 DEF DraftTyped, Room, HistoryFits, EditorAssumption
<1> QED
  BY <1>2, <1>3, <1>5 DEF DraftOK, Content0

-----------------------------------------------------------------------------
(* The form, the draft and the storage.                                     *)

EditorOK ==
  /\ form \in Contents
  /\ cut \in BOOLEAN
  /\ DraftOK(draft, stored, cut)

\* An opened page has no draft, and an empty history fits.
LEMMA NoDraftOK ==
  ASSUME EditorAssumption, NEW s \in Content0, NEW k
  PROVE  DraftOK(NoDraft, s, k)
<1>1. /\ <<>> \in Seq(Contents) /\ NoDraft.past = <<>> /\ NoDraft.future = <<>>
      /\ NoDraft.present = None /\ NoDraft.pending = None /\ NoDraft.candidate = None
      /\ ~NoDraft.ready
  BY HistoryFacts DEF NoDraft, EditorAssumption
<1>2. NoDraft \in Draft
  BY <1>1 DEF NoDraft, Draft, Content0
<1>3. Len(<<>>) + Len(<<>>) <= Limit + 1
  BY DEF EditorAssumption
<1>4. HistoryFits(NoDraft, Room(NoDraft))
  BY <1>1, <1>3, Zenon DEF Room, HistoryFits
<1> HIDE DEF NoDraft
<1> QED
  BY <1>1, <1>2, <1>4 DEF DraftOK, DraftTyped

\* restoreAutosave(): an autosave is restored once, so that the history, whose future is
\* kept, grows by one over its limit at most.
LEMMA RestoreStep ==
  ASSUME EditorAssumption, EditorOK, Restore
  PROVE  EditorOK'
<1> DEFINE c == draft.candidate
           d0 == [draft EXCEPT !.candidate = None]
           e == CommitNow(d0, stored, form).manager
           t == Trim(Append(e.past, e.present))
           h == [e EXCEPT !.past = t, !.present = c, !.dirty = (c # e.server)]
<1>1. DraftOK(draft, stored, cut) /\ DraftTyped(draft) /\ draft \in Draft
      /\ form \in Contents /\ stored \in Content0 /\ c # None /\ c \in Contents
      /\ draft.ready
  BY DEF EditorOK, DraftOK, DraftTyped, Draft, Content0, Restore, Offered
<1>2. /\ d0 \in Draft /\ d0.past = draft.past /\ d0.future = draft.future
      /\ d0.present = draft.present /\ d0.ready = draft.ready /\ d0.pending = draft.pending
      /\ d0.server = draft.server /\ d0.candidate = None /\ d0.dirty = draft.dirty
  BY <1>1 DEF Draft, Content0
<1>3. DraftTyped(d0) /\ d0.ready /\ HistoryFits(d0, Limit)
  <2>1. HistoryFits(draft, Limit) /\ draft.ready
    BY <1>1 DEF DraftTyped, Room
  <2>2. d0.past \in Seq(Contents) /\ d0.future \in Seq(Contents)
    BY <1>2 DEF Draft
  <2>3. HistoryFits(d0, Limit) /\ HistoryFits(d0, Limit + 1)
    BY <1>2, <2>1, <2>2, FitsLonger, Zenon DEF HistoryFits
  <2> HIDE DEF d0
  <2> QED
    BY <1>1, <1>2, <2>1, <2>3 DEF DraftTyped, Room
<1> HIDE DEF d0
<1>4. /\ DraftTyped(e) /\ e.ready /\ e.present = form /\ e.pending = None
      /\ e.dirty = (form # draft.server) /\ e.server = draft.server
      /\ e.candidate = None /\ HistoryFits(e, Limit)
      /\ CommitNow(d0, stored, form).stored = IF form = draft.present THEN stored ELSE form
  BY <1>1, <1>2, <1>3, CommitNowFacts
<1>5. CASE c = e.present
  <2>1. draft' = e /\ stored' = CommitNow(d0, stored, form).stored /\ form' = form /\ cut' = cut
    BY <1>5 DEF Restore, Becomes, d0
  <2> HIDE DEF e
  <2>2. DraftOK(e, stored', cut)
    <3>1. stored' \in Content0
      BY <1>1, <1>4, <2>1 DEF Content0
    <3>2. (cut /\ stored' = None) \/ stored' = form \/ form = draft.server
      BY <1>1, <1>4, <2>1 DEF DraftOK
    <3> QED
      BY <1>4, <3>1, <3>2 DEF DraftOK
  <2> QED
    BY <2>1, <2>2 DEF EditorOK
<1>6. CASE c # e.present
  <2>1. /\ draft' = h /\ stored' = c /\ form' = c /\ cut' = cut
    BY <1>6 DEF Restore, d0
  <2> HIDE DEF e
  <2>2. /\ e \in Draft /\ e.past \in Seq(Contents) /\ e.future \in Seq(Contents)
        /\ Len(e.past) + Len(e.future) <= Limit
    BY <1>4 DEF DraftTyped, Draft, HistoryFits
  <2>3. t \in Seq(Contents) /\ Len(t) <= Len(e.past) + 1
    BY <1>1, <1>4, <2>2, Trimmed, Zenon
  <2> HIDE DEF t
  <2>4. /\ h \in Draft /\ h.past = t /\ h.future = e.future /\ h.present = c /\ h.ready
        /\ h.pending = None /\ h.dirty = (c # e.server) /\ h.server = e.server
        /\ h.candidate = None
    BY <1>1, <1>4, <2>2, <2>3 DEF Draft, Content0
  <2>5. HistoryFits(h, Room(h))
    <3>1. Len(t) + Len(e.future) <= Limit + 1
      BY <2>2, <2>3, GrownFits, Zenon
    <3> QED
      BY <2>4, <3>1, Zenon DEF HistoryFits, Room
  <2> HIDE DEF h
  <2>6. DraftOK(h, c, cut)
    BY <1>1, <2>4, <2>5 DEF DraftOK, DraftTyped, Content0
  <2> QED
    BY <1>1, <2>1, <2>6 DEF EditorOK
<1> QED
  BY <1>5, <1>6

-----------------------------------------------------------------------------
(* The requests.                                                            *)

\* A request q, when the block has version v and the page has shown sh.
RequestOK(q, v, sh, mx) ==
  /\ q \in Request
  /\ q.at \in {"read", "written"} => q.kind = "save"
  /\ q.at \in {"written", "done"} => v # 0
  /\ q.kind = "save" /\ q.at \in {"sent", "read"} =>
       q.content \in Contents /\ (q.version # 0 => q.version \in sh)
  /\ q.kind = "load" /\ q.at = "done" => q.content \in Contents
  \* What the save has read is still there, unless another one came between.
  /\ q.at = "read" /\ ~mx => q.base = v /\ (q.version # 0 => q.version = v)

RequestsOK ==
  /\ req \in [Requests -> Request]
  /\ \A i \in Requests : RequestOK(req[i], block.version, shown, mixed)

BlockOK ==
  /\ block \in [version : Versions, content : Content0]
  /\ block.version # 0 => block.content \in Contents
  /\ known \in Versions /\ shown \subseteq Versions
  /\ mixed \in BOOLEAN /\ edits \in 0..MaxEdits
  /\ known # 0 => known \in shown
  /\ shown # {} => block.version # 0

\* A request stays right when more is shown and the block is not rewritten under it.
LEMMA Unmoved ==
  ASSUME NEW q, NEW v, NEW w, NEW sh, NEW th, NEW mx, NEW nx,
         RequestOK(q, v, sh, mx), sh \subseteq th, v # 0 => w # 0,
         (w = v /\ nx = mx) \/ nx \/ q.at # "read"
  PROVE  RequestOK(q, w, th, nx)
BY DEF RequestOK

\* One request moves.
LEMMA OneMoves ==
  ASSUME RequestsOK, NEW i \in Requests, NEW q, req' = [req EXCEPT ![i] = q],
         RequestOK(q, block'.version, shown', mixed'),
         shown \subseteq shown', block.version # 0 => block'.version # 0,
         \A j \in Requests \ {i} :
           \/ block'.version = block.version /\ mixed' = mixed
           \/ mixed' \/ req[j].at # "read"
  PROVE  RequestsOK'
<1>1. q \in Request
  BY DEF RequestOK
<1>2. req' \in [Requests -> Request] /\ req'[i] = q /\ \A j \in Requests \ {i} : req'[j] = req[j]
  BY <1>1 DEF RequestsOK
<1>3. ASSUME NEW j \in Requests
      PROVE  RequestOK(req'[j], block'.version, shown', mixed')
  <2>1. CASE j = i
    BY <1>2, <2>1
  <2>2. CASE j # i
    <3>1. RequestOK(req[j], block'.version, shown', mixed')
      BY <2>2, Unmoved DEF RequestsOK
    <3> QED
      BY <1>2, <2>2, <3>1
  <2> QED
    BY <2>1, <2>2
<1> QED
  BY <1>2, <1>3 DEF RequestsOK

\* Requests that are free, just sent, or answered without a content are right.
LEMMA PlainRequests ==
  ASSUME EditorAssumption, NEW v, NEW sh, NEW mx
  PROVE  /\ RequestOK(Free, v, sh, mx)
         /\ RequestOK(LoadRequest, v, sh, mx)
         /\ RequestOK([LoadRequest EXCEPT !.by = "left"], v, sh, mx)
<1>1. 0 \in Versions /\ None \in Content0
  BY DEF EditorAssumption, Versions, Content0
<1>2. Free \in Request /\ Free.kind = "load" /\ Free.at = "none"
  BY <1>1 DEF Free, Request
<1>3. /\ LoadRequest \in Request
      /\ LoadRequest.kind = "load" /\ LoadRequest.at = "sent"
  BY <1>1, <1>2 DEF LoadRequest, Free, Request
<1>4. /\ [LoadRequest EXCEPT !.by = "left"] \in Request
      /\ [LoadRequest EXCEPT !.by = "left"].kind = "load"
      /\ [LoadRequest EXCEPT !.by = "left"].at = "sent"
  BY <1>3 DEF Request
<1> QED
  BY <1>2, <1>3, <1>4 DEF RequestOK

\* An answer without a content.
LEMMA EndedRequest ==
  ASSUME EditorAssumption, NEW q \in Request, NEW v, NEW sh, NEW mx,
         NEW how \in {"failed", "refused", "written"},
         how = "written" => q.kind = "save" /\ v # 0
  PROVE  RequestOK([q EXCEPT !.at = how, !.content = None, !.version = 0, !.base = 0], v, sh, mx)
<1> DEFINE e == [q EXCEPT !.at = how, !.content = None, !.version = 0, !.base = 0]
<1>1. 0 \in Versions /\ None \in Content0
  BY DEF EditorAssumption, Versions, Content0
<1>2. e \in Request /\ e.at = how /\ e.kind = q.kind
  BY <1>1 DEF Request
<1>3. RequestOK(e, v, sh, mx)
  <2> HIDE DEF e
  <2> QED
    BY <1>2 DEF RequestOK
<1> QED
  BY <1>3

\* The request of a page that is left, or gone
LEMMA OrphanOK ==
  ASSUME EditorAssumption, NEW q, NEW v, NEW sh, NEW mx, NEW by \in {"left", "nobody"},
         RequestOK(q, v, sh, mx)
  PROVE  RequestOK(Orphan(q, by), v, sh, mx)
<1> DEFINE e == [q EXCEPT !.by = by]
<1>1. /\ e \in Request /\ e.at = q.at /\ e.kind = q.kind /\ e.content = q.content
      /\ e.version = q.version /\ e.base = q.base
  BY DEF RequestOK, Request
<1>2. RequestOK(e, v, sh, mx)
  <2> HIDE DEF e
  <2> QED
    BY <1>1 DEF RequestOK
<1> QED
  BY <1>2, PlainRequests DEF Orphan

-----------------------------------------------------------------------------
(* Steps.                                                                   *)

\* What is typed, and what the page calls unsaved, is kept by every step.
LEMMA EditorStep ==
  ASSUME EditorAssumption, EditorOK, RequestsOK, Next
  PROVE  EditorOK'
<1>0. /\ DraftOK(draft, stored, cut) /\ DraftTyped(draft) /\ draft \in Draft
      /\ form \in Contents /\ stored \in Content0 /\ cut \in BOOLEAN
      /\ None \in Content0 /\ Default \in Contents
  BY DEF EditorOK, DraftOK, DraftTyped, Content0, EditorAssumption
<1>1. ASSUME NEW c \in Contents, Type(c) \/ OtherSaves(c)
      PROVE  EditorOK'
  BY <1>0, <1>1 DEF Type, OtherSaves, EditorOK, editorVars
<1>2. CASE Poll
  <2>1. /\ draft.ready /\ draft' = Observe(draft, form)
        /\ form' = form /\ stored' = stored /\ cut' = cut
    BY <1>2 DEF Poll
  <2>2. DraftOK(Observe(draft, form), stored, cut)
    BY <1>0, <2>1, ObserveKeeps
  <2> QED
    BY <1>0, <2>1, <2>2 DEF EditorOK
<1>3. CASE CommitTimer
  <2> DEFINE r == CommitPending(draft, stored)
  <2>1. /\ draft.pending # None /\ draft' = r.manager /\ stored' = r.stored
        /\ form' = form /\ cut' = cut
    BY <1>3 DEF CommitTimer, Becomes
  <2>2. DraftOK(r.manager, r.stored, cut)
    BY <1>0, <2>1, TimerKeeps
  <2> HIDE DEF r
  <2> QED
    BY <1>0, <2>1, <2>2 DEF EditorOK
<1>4. CASE Undo
  <2> DEFINE e == StepBack(CommitNow(draft, stored, form).manager)
  <2>1. /\ draft.ready /\ (draft.past # <<>> \/ form # draft.present)
        /\ draft' = e /\ stored' = e.present /\ form' = e.present /\ cut' = cut
    BY <1>4 DEF Undo
  <2>2. DraftOK(e, e.present, cut) /\ e.present \in Contents
    BY <1>0, <2>1, UndoKeeps
  <2> HIDE DEF e
  <2> QED
    BY <1>0, <2>1, <2>2 DEF EditorOK
<1>5. CASE Redo
  <2> DEFINE e == StepForward(CommitNow(draft, stored, form).manager)
  <2>1. /\ draft.ready /\ form = draft.present /\ draft.future # <<>>
        /\ draft' = e /\ stored' = e.present /\ form' = e.present /\ cut' = cut
    BY <1>5 DEF Redo
  <2>2. DraftOK(e, e.present, cut) /\ e.present \in Contents
    BY <1>0, <2>1, RedoKeeps
  <2> HIDE DEF e
  <2> QED
    BY <1>0, <2>1, <2>2 DEF EditorOK
<1>6. CASE Dismiss
  <2> DEFINE e == [draft EXCEPT !.candidate = None]
  <2>1. /\ draft.candidate # None /\ ~draft.dirty /\ draft.ready
        /\ draft' = e /\ stored' = None /\ form' = form /\ cut' = cut
    BY <1>0, <1>6 DEF Dismiss, Offered, DraftTyped
  <2>2. /\ e \in Draft /\ e.past = draft.past /\ e.future = draft.future
        /\ e.present = draft.present /\ e.server = draft.server /\ e.dirty = draft.dirty
        /\ e.pending = draft.pending /\ e.ready = draft.ready /\ e.candidate = None
    BY <1>0 DEF Draft, Content0
  <2> HIDE DEF e
  <2>3. HistoryFits(e, Room(e))
    <3>1. Len(draft.past) + Len(draft.future) <= Limit
      BY <1>0, <2>1 DEF DraftTyped, Room, HistoryFits
    <3>2. draft.past \in Seq(Contents) /\ draft.future \in Seq(Contents)
      BY <1>0 DEF Draft
    <3>3. Len(draft.past) + Len(draft.future) <= Limit + 1
      BY <3>1, <3>2, FitsLonger, Zenon
    <3> QED
      BY <2>2, <3>3, Zenon DEF HistoryFits, Room
  <2>4. DraftOK(e, None, cut)
    BY <1>0, <2>1, <2>2, <2>3 DEF DraftOK, DraftTyped
  <2> QED
    BY <1>0, <2>1, <2>4 DEF EditorOK
<1>7. CASE Save
  BY <1>0, <1>7 DEF Save, EditorOK, editorVars
<1>8. CASE LeaveAndReturn \/ Reload
  <2>1. PICK s \in {None, stored} :
          draft' = NoDraft /\ stored' = s /\ form' = Default /\ cut' = FALSE
    BY <1>8 DEF LeaveAndReturn, Reload, Visit
  <2>2. DraftOK(NoDraft, s, FALSE)
    BY <1>0, NoDraftOK
  <2> QED
    BY <1>0, <2>1, <2>2 DEF EditorOK
<1>9. ASSUME NEW i \in Requests,
             \/ AnswerLoad(i) \/ ReadBlock(i) \/ WriteBlock(i) \/ AnswerSave(i) \/ Fail(i)
             \/ Conflict(i) \/ NotSaved(i) \/ Unheard(i)
      PROVE  EditorOK'
  <2>1. form' = form /\ draft' = draft /\ stored' = stored /\ cut' = cut
    BY <1>9 DEF AnswerLoad, ReadBlock, WriteBlock, AnswerSave, Fail, Conflict, NotSaved,
                Unheard, editorVars
  <2> QED
    BY <1>0, <2>1 DEF EditorOK
<1>10. ASSUME NEW i \in Requests, Loaded(i) \/ NotLoaded(i)
       PROVE  EditorOK'
  <2>1. PICK c \in Contents : Show(c) /\ cut' = cut
    <3>1. Loaded(i) => req[i].content \in Contents
      BY DEF Loaded, RequestsOK, RequestOK
    <3> QED
      BY <1>0, <1>10, <3>1 DEF Loaded, NotLoaded
  <2> DEFINE r == InitFromServer(stored, c)
  <2>2. draft' = r.manager /\ stored' = r.stored /\ form' = c /\ cut' = cut
    BY <2>1 DEF Show, Becomes
  <2>3. DraftOK(r.manager, r.stored, cut)
    BY <1>0, InitFromServerKeeps
  <2> HIDE DEF r
  <2> QED
    BY <1>0, <2>2, <2>3 DEF EditorOK
<1>11. ASSUME NEW i \in Requests, Saved(i)
       PROVE  EditorOK'
  <2> DEFINE r == MarkServerSaved(draft, stored, form)
  <2>1. draft' = r.manager /\ stored' = r.stored /\ form' = form /\ cut' = cut
    BY <1>11 DEF Saved, Becomes
  <2>2. DraftOK(r.manager, r.stored, cut)
    BY <1>0, MarkServerSavedKeeps
  <2> HIDE DEF r
  <2> QED
    BY <1>0, <2>1, <2>2 DEF EditorOK
<1>12. ASSUME NEW i \in Requests, LeftAnswered(i)
       PROVE  EditorOK'
  <2>1. /\ form' = form /\ draft' = draft
        /\ \/ stored' = None /\ cut' = TRUE
           \/ stored' = stored /\ cut' = cut
    BY <1>12 DEF LeftAnswered
  <2>2. DraftOK(draft, stored', cut')
    BY <1>0, <2>1 DEF DraftOK
  <2> QED
    BY <1>0, <2>1, <2>2 DEF EditorOK
<1> QED
  BY <1>1, <1>2, <1>3, <1>4, <1>5, RestoreStep, <1>6, <1>7, <1>8, <1>9, <1>10, <1>11, <1>12
     DEF Next

\* The block, what the page knows of it, and the counters.
LEMMA BlockStep ==
  ASSUME EditorAssumption, BlockOK, RequestsOK, Next
  PROVE  BlockOK'
<1>0. /\ block \in [version : Versions, content : Content0] /\ MaxVersion \in Nat
      /\ block.version \in Versions /\ 0 \in Versions
      /\ \A i \in Requests : req[i] \in Request /\ RequestOK(req[i], block.version, shown, mixed)
  BY DEF BlockOK, RequestsOK, Versions, EditorAssumption
<1>1. edits' \in 0..MaxEdits
  <2>1. edits' = edits \/ Edit
    BY DEF Next, Type, OtherSaves, Poll, CommitTimer, Undo, Redo, Restore, Dismiss, Save,
           LeaveAndReturn, Reload, Visit, AnswerLoad, ReadBlock, WriteBlock, AnswerSave, Fail,
           Loaded, NotLoaded, Saved, Conflict, NotSaved, LeftAnswered, Unheard
  <2> QED
    BY <2>1 DEF Edit, BlockOK, EditorAssumption
<1>2. ASSUME NEW c \in Contents, Type(c)
      PROVE  BlockOK'
  BY <1>1, <1>2 DEF Type, BlockOK
<1>3. ASSUME NEW c \in Contents, OtherSaves(c)
      PROVE  BlockOK'
  <2>1. block' = [version |-> block.version + 1, content |-> c] /\ block.version < MaxVersion
        /\ known' = known /\ shown' = shown /\ mixed' \in BOOLEAN
    BY <1>3 DEF OtherSaves, editorVars, BlockOK
  <2>2. block.version + 1 \in Versions /\ block.version + 1 # 0
    BY <1>0, <2>1 DEF Versions
  <2> QED
    BY <1>1, <2>1, <2>2 DEF BlockOK, Content0
<1>4. CASE \/ Poll \/ CommitTimer \/ Undo \/ Redo \/ Restore \/ Dismiss \/ Save
           \/ LeaveAndReturn \/ Reload
  <2>1. block' = block /\ shown' = shown /\ mixed' = mixed /\ known' \in {known, 0}
    BY <1>4 DEF Poll, CommitTimer, Undo, Redo, Restore, Dismiss, Save, LeaveAndReturn, Reload,
                Visit, editorVars
  <2> QED
    BY <1>0, <1>1, <2>1 DEF BlockOK
<1>5. ASSUME NEW i \in Requests,
             \/ AnswerLoad(i) \/ ReadBlock(i) \/ AnswerSave(i) \/ Fail(i) \/ NotLoaded(i)
             \/ Conflict(i) \/ NotSaved(i) \/ LeftAnswered(i) \/ Unheard(i)
      PROVE  BlockOK'
  <2>1. block' = block /\ shown' = shown /\ mixed' = mixed /\ known' \in {known, 0}
    BY <1>5 DEF AnswerLoad, ReadBlock, AnswerSave, Fail, NotLoaded, Conflict, NotSaved,
                LeftAnswered, Unheard, editorVars
  <2> QED
    BY <1>0, <1>1, <2>1 DEF BlockOK
<1>6. ASSUME NEW i \in Requests, Loaded(i) \/ Saved(i)
      PROVE  BlockOK'
  <2>1. /\ block' = block /\ mixed' = mixed /\ req[i].at = "done"
        /\ known' = req[i].version /\ shown' = shown \union {req[i].version}
    BY <1>6 DEF Loaded, Saved
  <2>2. req[i].version \in Versions
    BY <1>0 DEF Request
  <2>3. block.version # 0
    BY <1>0, <2>1 DEF RequestOK
  <2> QED
    BY <1>1, <2>1, <2>2, <2>3 DEF BlockOK
<1>7. ASSUME NEW i \in Requests, WriteBlock(i)
      PROVE  BlockOK'
  <2>1. known' = known /\ shown' = shown /\ mixed' \in BOOLEAN
        /\ req[i].at = "read" /\ req[i].base < MaxVersion
        /\ \/ block' = block
           \/ block' = [version |-> req[i].base + 1, content |-> req[i].content]
    BY <1>7 DEF WriteBlock, editorVars, BlockOK
  <2>2. req[i].base + 1 \in Versions /\ req[i].base + 1 # 0
    BY <1>0, <2>1 DEF Request, Versions
  <2>3. req[i].content \in Contents
    BY <1>0, <2>1 DEF RequestOK
  <2> QED
    BY <1>1, <2>1, <2>2, <2>3 DEF BlockOK, Content0
<1> QED
  BY <1>2, <1>3, <1>4, <1>5, <1>6, <1>7 DEF Next

\* The requests.
LEMMA RequestsStep ==
  ASSUME EditorAssumption, EditorOK, BlockOK, RequestsOK, Next
  PROVE  RequestsOK'
<1>0. /\ req \in [Requests -> Request] /\ block.version \in Versions
      /\ block.version # 0 => block.content \in Contents
      /\ mixed \in BOOLEAN /\ form \in Contents /\ known \in Versions
      /\ \A i \in Requests : req[i] \in Request /\ RequestOK(req[i], block.version, shown, mixed)
  BY DEF BlockOK, RequestsOK, EditorOK
<1>1. ASSUME NEW c \in Contents, Type(c)
      PROVE  RequestsOK'
  BY <1>1 DEF Type, RequestsOK
<1>2. CASE Poll \/ CommitTimer \/ Undo \/ Redo \/ Restore \/ Dismiss
  BY <1>2 DEF Poll, CommitTimer, Undo, Redo, Restore, Dismiss, RequestsOK
<1>3. ASSUME NEW c \in Contents, OtherSaves(c)
      PROVE  RequestsOK'
  <2>1. req' = req /\ shown' = shown /\ block' = [version |-> block.version + 1, content |-> c]
        /\ mixed' = (mixed \/ Busy(Requests))
    BY <1>3 DEF OtherSaves, editorVars
  <2>2. block'.version # 0
    BY <1>0, <2>1 DEF Versions
  <2>3. ASSUME NEW i \in Requests
        PROVE  RequestOK(req[i], block'.version, shown', mixed')
    <3>1. req[i].at = "read" => mixed'
      BY <1>0, <2>1 DEF Busy, RequestOK
    <3> QED
      BY <1>0, <2>1, <2>2, <3>1, Unmoved
  <2> QED
    BY <1>0, <2>1, <2>3 DEF RequestsOK
<1>4. CASE Save
  <2> DEFINE q == [LoadRequest EXCEPT !.kind = "save", !.content = form, !.version = known]
  <2>1. PICK i \in Requests : SendAll({i}, q)
    BY <1>4 DEF Save
  <2>2. req' = [req EXCEPT ![i] = q]
    BY <1>0, <2>1 DEF SendAll
  <2>3. q \in Request /\ q.at = "sent" /\ q.kind = "save" /\ q.content = form /\ q.version = known
    <3>1. 0 \in Versions /\ None \in Content0 /\ form \in Content0
      BY <1>0 DEF EditorAssumption, Versions, Content0
    <3> QED
      BY <1>0, <3>1 DEF LoadRequest, Free, Request
  <2> HIDE DEF q
  <2>4. block' = block /\ shown' = shown /\ mixed' = mixed
    BY <1>4 DEF Save, editorVars
  <2>5. RequestOK(q, block'.version, shown', mixed')
    BY <1>0, <2>3, <2>4 DEF RequestOK, BlockOK
  <2> QED
    BY <2>2, <2>4, <2>5, OneMoves
<1>5. CASE LeaveAndReturn \/ Reload
  <2>1. PICK by \in {"left", "nobody"} : \E s : Visit(by, s)
    BY <1>5 DEF LeaveAndReturn, Reload
  <2> DEFINE left == [i \in Requests |-> IF req[i].by = "nobody" THEN req[i] ELSE Orphan(req[i], by)]
  <2>2. PICK i, j \in Requests : req' = [left EXCEPT ![i] = LoadRequest, ![j] = LoadRequest]
    BY <2>1 DEF Visit
  <2>3. block' = block /\ shown' = shown /\ mixed' = mixed
    BY <2>1 DEF Visit
  <2>4. ASSUME NEW k \in Requests
        PROVE  RequestOK(left[k], block.version, shown, mixed)
    BY <1>0, OrphanOK
  <2>5. /\ DOMAIN left = Requests /\ left = [k \in Requests |-> left[k]]
    OBVIOUS
  <2> HIDE DEF left
  <2>6. ASSUME NEW k \in Requests
        PROVE  req'[k] \in {left[k], LoadRequest}
    BY <2>2, <2>5
  <2>7. ASSUME NEW k \in Requests
        PROVE  RequestOK(req'[k], block.version, shown, mixed)
    BY <2>4, <2>6, PlainRequests
  <2>8. req' \in [Requests -> Request]
    <3>1. \A k \in Requests : req'[k] \in Request
      BY <2>7 DEF RequestOK
    <3> QED
      BY <2>2, <2>5, <3>1
  <2> QED
    BY <2>3, <2>7, <2>8 DEF RequestsOK
<1>6. ASSUME NEW i \in Requests, NEW q, req' = [req EXCEPT ![i] = q],
             block' = block, mixed' = mixed, shown \subseteq shown',
             RequestOK(q, block.version, shown', mixed)
      PROVE  RequestsOK'
  BY <1>6, OneMoves
<1>7. ASSUME NEW i \in Requests, NEW how \in {"failed", "refused"}, Ends(i, how),
             block' = block, mixed' = mixed, shown \subseteq shown'
      PROVE  RequestsOK'
  BY <1>0, <1>6, <1>7, EndedRequest DEF Ends, Answer
<1>8. ASSUME NEW i \in Requests, Done(i), block' = block, mixed' = mixed, shown \subseteq shown'
      PROVE  RequestsOK'
  BY <1>6, <1>8, PlainRequests DEF Done
<1>9. ASSUME NEW i \in Requests, AnswerLoad(i)
      PROVE  RequestsOK'
  <2> DEFINE q == [req[i] EXCEPT !.at = "done", !.content = block.content, !.version = block.version]
  <2>1. req[i].kind = "load" /\ block' = block /\ mixed' = mixed /\ shown' = shown
        /\ \/ Ends(i, "failed")
           \/ block.version # 0 /\ req' = [req EXCEPT ![i] = q]
    BY <1>9 DEF AnswerLoad, editorVars, Answer
  <2>2. ASSUME block.version # 0
        PROVE  RequestOK(q, block.version, shown, mixed)
    <3>1. q \in Request /\ q.kind = "load" /\ q.at = "done" /\ q.content = block.content
      BY <1>0, <2>1, <2>2 DEF Request, Content0
    <3> HIDE DEF q
    <3> QED
      BY <1>0, <2>2, <3>1 DEF RequestOK
  <2> HIDE DEF q
  <2> QED
    BY <1>6, <1>7, <2>1, <2>2
<1>10. ASSUME NEW i \in Requests, ReadBlock(i)
       PROVE  RequestsOK'
  <2> DEFINE q == [req[i] EXCEPT !.at = "read", !.base = block.version]
  <2>1. /\ req[i].kind = "save" /\ req[i].at = "sent"
        /\ block' = block /\ mixed' = mixed /\ shown' = shown
        /\ \/ Ends(i, "refused")
           \/ /\ req[i].version \in {0, block.version} \/ block.version = 0
              /\ req' = [req EXCEPT ![i] = q]
    BY <1>10 DEF ReadBlock, editorVars, Answer
  <2>2. ASSUME req[i].version \in {0, block.version} \/ block.version = 0
        PROVE  RequestOK(q, block.version, shown, mixed)
    <3>1. /\ q \in Request /\ q.kind = "save" /\ q.at = "read" /\ q.base = block.version
          /\ q.content = req[i].content /\ q.version = req[i].version
      BY <1>0, <2>1 DEF Request
    <3>2. req[i].content \in Contents /\ (req[i].version # 0 => req[i].version \in shown)
      BY <1>0, <2>1 DEF RequestOK
    \* What the page has shown exists.
    <3>3. req[i].version # 0 => block.version # 0
      BY <3>2 DEF BlockOK
    <3> HIDE DEF q
    <3> QED
      BY <2>2, <3>1, <3>2, <3>3 DEF RequestOK
  <2> HIDE DEF q
  <2> QED
    BY <1>6, <1>7, <2>1, <2>2
<1>11. ASSUME NEW i \in Requests, WriteBlock(i)
       PROVE  RequestsOK'
  <2>1. CASE Ends(i, "failed") /\ UNCHANGED <<block, mixed>>
    BY <1>7, <1>11, <2>1 DEF WriteBlock, editorVars
  <2>2. CASE /\ block' = [version |-> req[i].base + 1, content |-> req[i].content]
             /\ Ends(i, "written")
             /\ mixed' = (mixed \/ Busy(Requests \ {i}))
    <3>1. req[i].at = "read" /\ shown' = shown
      BY <1>11 DEF WriteBlock, editorVars
    <3>2. req[i].kind = "save" /\ block'.version # 0
      BY <1>0, <2>2, <3>1 DEF RequestOK, Request, Versions
    <3> DEFINE q == [req[i] EXCEPT !.at = "written", !.content = None, !.version = 0, !.base = 0]
    <3>3. req' = [req EXCEPT ![i] = q]
      BY <2>2 DEF Ends, Answer
    <3>4. RequestOK(q, block'.version, shown', mixed')
      BY <1>0, <3>2, EndedRequest
    <3> HIDE DEF q
    <3>5. ASSUME NEW j \in Requests \ {i}
          PROVE  mixed' \/ req[j].at # "read"
      BY <1>0, <2>2 DEF Busy, RequestOK
    <3> QED
      BY <3>1, <3>2, <3>3, <3>4, <3>5, OneMoves
  <2> QED
    BY <1>11, <2>1, <2>2 DEF WriteBlock
<1>12. ASSUME NEW i \in Requests, AnswerSave(i)
       PROVE  RequestsOK'
  <2> DEFINE q == [req[i] EXCEPT !.at = "done", !.version = block.version]
  <2>1. /\ req[i].at = "written" /\ block' = block /\ mixed' = mixed /\ shown' = shown
        /\ req' = [req EXCEPT ![i] = q]
    BY <1>12 DEF AnswerSave, editorVars, Answer
  <2>2. req[i].kind = "save" /\ block.version # 0
    BY <1>0, <2>1 DEF RequestOK
  <2>3. q \in Request /\ q.kind = "save" /\ q.at = "done"
    BY <1>0, <2>2 DEF Request
  <2> HIDE DEF q
  <2>4. RequestOK(q, block.version, shown, mixed)
    BY <2>2, <2>3 DEF RequestOK
  <2> QED
    BY <1>6, <2>1, <2>4
<1>13. ASSUME NEW i \in Requests, Fail(i)
       PROVE  RequestsOK'
  BY <1>7, <1>13 DEF Fail, editorVars
<1>14. ASSUME NEW i \in Requests, Conflict(i)
       PROVE  RequestsOK'
  BY <1>6, <1>14, PlainRequests DEF Conflict
<1>15. ASSUME NEW i \in Requests,
              Loaded(i) \/ NotLoaded(i) \/ Saved(i) \/ NotSaved(i) \/ Unheard(i)
       PROVE  RequestsOK'
  <2>1. Done(i) /\ block' = block /\ mixed' = mixed /\ shown \subseteq shown'
    BY <1>15 DEF Loaded, NotLoaded, Saved, NotSaved, Unheard, editorVars
  <2> QED
    BY <1>8, <2>1
<1>16. ASSUME NEW i \in Requests, LeftAnswered(i)
       PROVE  RequestsOK'
  <2>1. /\ Done(i) \/ req' = [req EXCEPT ![i] = [LoadRequest EXCEPT !.by = "left"]]
        /\ block' = block /\ mixed' = mixed /\ shown' = shown
    BY <1>16 DEF LeftAnswered
  <2> QED
    BY <1>6, <1>8, <2>1, PlainRequests
<1> QED
  BY <1>1, <1>2, <1>3, <1>4, <1>5, <1>9, <1>10, <1>11, <1>12, <1>13, <1>14, <1>15, <1>16
     DEF Next

-----------------------------------------------------------------------------
(* The invariant and what follows from it.                                  *)

IInv == EditorOK /\ BlockOK /\ RequestsOK

\* The page as it is opened.
LEMMA InitIInv ==
  ASSUME EditorAssumption, Init
  PROVE  IInv
<1>1. None \in Content0 /\ Default \in Contents /\ 0 \in Versions
  BY DEF EditorAssumption, Content0, Versions
<1>2. EditorOK
  BY <1>1, NoDraftOK DEF Init, EditorOK
<1>3. BlockOK
  <2>1. block \in [version : Versions, content : Content0]
        /\ (block.version # 0 => block.content \in Contents)
    <3>1. CASE block \in [version : {0}, content : {None}]
      BY <1>1, <3>1
    <3>2. CASE block \in [version : {1}, content : Contents]
      BY <3>2 DEF EditorAssumption, Versions, Content0
    <3> QED
      BY <3>1, <3>2 DEF Init
  <2>2. known \in Versions /\ shown \subseteq Versions /\ mixed \in BOOLEAN
        /\ known = 0 /\ shown = {}
    BY <1>1 DEF Init
  <2>3. edits \in 0..MaxEdits
    BY DEF Init, EditorAssumption
  <2> QED
    BY <2>1, <2>2, <2>3 DEF BlockOK
<1>4. RequestsOK
  <2>1. Free \in Request /\ LoadRequest \in Request
    BY PlainRequests DEF RequestOK
  <2>2. ASSUME NEW i \in Requests
        PROVE  RequestOK(req[i], block.version, shown, mixed)
    BY PlainRequests DEF Init
  <2> QED
    BY <2>1, <2>2 DEF Init, RequestsOK
<1> QED
  BY <1>2, <1>3, <1>4 DEF IInv

\* The page, the server and the answers keep it.
LEMMA NextIInv ==
  ASSUME EditorAssumption, IInv, [Next]_vars
  PROVE  IInv'
<1>1. CASE Next
  BY <1>1, EditorStep, BlockStep, RequestsStep DEF IInv
<1>2. CASE UNCHANGED vars
  BY <1>2 DEF vars, editorVars, IInv, EditorOK, BlockOK, RequestsOK
<1> QED
  BY <1>1, <1>2

\* The inductive invariant holds however edits, saves, visits and answers follow one
\* another.
THEOREM Invariance ==
  ASSUME EditorAssumption
  PROVE  Spec => []IInv
<1>1. Init => IInv
  BY InitIInv
<1>2. IInv /\ [Next]_vars => IInv'
  BY NextIInv
<1> QED
  BY <1>1, <1>2, PTL DEF Spec

\* TypeOK: undo and redo never grow the history over its limit by more than the one
\* autosave that may be restored.
THEOREM TypeCorrect ==
  ASSUME EditorAssumption
  PROVE  Spec => []TypeOK
<1>1. IInv => TypeOK
  <2> SUFFICES ASSUME IInv PROVE TypeOK
    OBVIOUS
  <2>1. draft \in Draft /\ (draft.ready <=> draft.present # None)
        /\ (draft.pending # None => draft.ready) /\ HistoryFits(draft, Room(draft))
    BY DEF IInv, EditorOK, DraftOK, DraftTyped
  <2>2. Len(draft.past) + Len(draft.future) <= Limit + 1
    <3>1. draft.past \in Seq(Contents) /\ draft.future \in Seq(Contents)
      BY <2>1 DEF Draft
    <3>2. \/ Len(draft.past) + Len(draft.future) <= Limit + 1
          \/ Len(draft.past) + Len(draft.future) <= Limit
      BY <2>1 DEF HistoryFits, Room
    <3> QED
      BY <3>1, <3>2, FitsLonger, Zenon
  <2> QED
    BY <2>1, <2>2 DEF IInv, EditorOK, DraftOK, BlockOK, RequestsOK, TypeOK
<1> QED
  BY <1>1, Invariance, PTL

\* AutosaveKeepsUp: what the page calls unsaved is in the storage once its timer has
\* fired.
THEOREM UnsavedIsStored ==
  ASSUME EditorAssumption
  PROVE  Spec => []AutosaveKeepsUp
<1>1. IInv => AutosaveKeepsUp
  BY DEF IInv, EditorOK, DraftOK, AutosaveKeepsUp
<1> QED
  BY <1>1, Invariance, PTL

\* NothingUnseenReplaced: a save that carries a version replaces only what the page has
\* shown or saved, unless saves overlap.
THEOREM OnlySeenIsReplaced ==
  ASSUME EditorAssumption
  PROVE  Spec => NothingUnseenReplaced
<1> DEFINE A == \A i \in Requests :
                  req[i].at = "read" /\ req[i].version # 0 /\ block'.version # block.version /\ ~mixed'
                    => block.version \in shown
<1>1. IInv /\ [Next]_vars => [A]_vars
  <2> SUFFICES ASSUME IInv, Next, NEW i \in Requests,
                      req[i].at = "read", req[i].version # 0,
                      block'.version # block.version, ~mixed'
               PROVE  block.version \in shown
    OBVIOUS
  <2>1. ~mixed
    <3>1. mixed' = mixed \/ mixed' = TRUE \/ \E S : mixed' = (mixed \/ Busy(S))
      BY DEF Next, Type, OtherSaves, Poll, CommitTimer, Undo, Redo, Restore, Dismiss, Save,
             LeaveAndReturn, Reload, Visit, AnswerLoad, ReadBlock, WriteBlock, AnswerSave, Fail,
             Loaded, NotLoaded, Saved, Conflict, NotSaved, LeftAnswered, Unheard
    <3> QED
      BY <3>1
  <2>2. RequestOK(req[i], block.version, shown, mixed)
    BY DEF IInv, RequestsOK
  <2> QED
    BY <2>1, <2>2 DEF RequestOK
<1> QED
  BY <1>1, Invariance, PTL DEF Spec, NothingUnseenReplaced

=============================================================================
