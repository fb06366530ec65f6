--------------------------- MODULE MediaJobsProofs ---------------------------
(***************************************************************************)
(* Proofs about MediaJobs for any number of sessions, attempts, retries    *)
(* and failures.  Only two things are added to TypeOK and NotStranded to   *)
(* make them inductive: no session has seen a job that is being processed, *)
(* and a sweep has loaded a job that had failed.                           *)
(***************************************************************************)
EXTENDS MediaJobs, TLAPS

SeenOK == \A x \in Actors :
            /\ act[x].row.status # "processing"
            /\ At(x, {"sweep"}) => act[x].row.status = "failed"

IInv == TypeOK /\ SeenOK /\ NotStranded

-----------------------------------------------------------------------------
(* The row.                                                                 *)

\* Each column of an updated row is the one written or the one that was there.
LEMMA UpdatedRow ==
  ASSUME NEW r \in Row, NEW s \in Row, NEW n \in Row
  PROVE  /\ Updated(r, s, n) \in Row
         /\ Updated(r, s, n).status = IF n.status = s.status THEN r.status ELSE n.status
         /\ Updated(r, s, n).attempt = IF n.attempt = s.attempt THEN r.attempt ELSE n.attempt
         /\ Updated(r, s, n).retry = IF n.retry = s.retry THEN r.retry ELSE n.retry
<1> DEFINE u == Updated(r, s, n)
<1>1. DOMAIN r = {"status", "attempt", "retry"}
  BY DEF Row
<1>2. u = [status  |-> IF n.status = s.status THEN r.status ELSE n.status,
           attempt |-> IF n.attempt = s.attempt THEN r.attempt ELSE n.attempt,
           retry   |-> IF n.retry = s.retry THEN r.retry ELSE n.retry]
  BY <1>1 DEF Updated
<1>3. /\ r.status \in Statuses /\ n.status \in Statuses
      /\ r.attempt \in Nat /\ n.attempt \in Nat
      /\ r.retry \in BOOLEAN /\ n.retry \in BOOLEAN
  BY DEF Row
<1> QED
  BY <1>2, <1>3 DEF Row

-----------------------------------------------------------------------------
(* The steps.                                                               *)

\* What a step does to one session, for the actions that leave the others alone.
LEMMA OneSession ==
  ASSUME TypeOK, SeenOK, NEW x \in Actors, NEW a \in Act, Do(x, a),
         a.row.status # "processing", a.at = "sweep" => a.row.status = "failed"
  PROVE  /\ act' \in [Actors -> Act] /\ SeenOK'
         /\ act'[x] = a /\ \A y \in Actors \ {x} : act'[y] = act[y]
  BY DEF TypeOK, SeenOK, Do, At

\* The row at the end of a run: what the first UPDATE writes is written over by the second.
LEMMA Finished ==
  ASSUME TypeOK, SeenOK, NEW x \in Actors,
         NEW status \in {"completed", "failed", "dead"}, NEW retry \in BOOLEAN,
         Finish(x, status, retry)
  PROVE  /\ job' \in Row
         /\ job'.status = status /\ job'.attempt = act[x].row.attempt + 1
         /\ retry => job'.retry
<1> DEFINE s == act[x].row
           p == Run(s, "processing", FALSE)
           end == Run(s, status, retry)
           u == Updated(job, s, p)
<1>1. /\ s \in Row /\ job \in Row /\ s.attempt \in Nat /\ s.status # "processing"
  BY DEF TypeOK, SeenOK, Act, Row
<1>2. /\ p \in Row /\ p.status = "processing" /\ p.attempt = s.attempt + 1 /\ ~p.retry
      /\ end \in Row /\ end.status = status /\ end.attempt = p.attempt /\ end.retry = retry
  BY <1>1 DEF Run, Row, Statuses
<1>3. /\ u \in Row /\ u.attempt = p.attempt
  <2> HIDE DEF p
  <2>1. u \in Row /\ u.attempt = IF p.attempt = s.attempt THEN job.attempt ELSE p.attempt
    BY <1>1, <1>2, UpdatedRow
  <2> HIDE DEF u
  <2> QED
    BY <1>1, <1>2, <2>1
<1>4. job' = Updated(u, p, end)
  BY DEF Finish
<1>5. /\ job' \in Row
      /\ job'.status = IF end.status = p.status THEN u.status ELSE end.status
      /\ job'.attempt = IF end.attempt = p.attempt THEN u.attempt ELSE end.attempt
      /\ job'.retry = IF end.retry = p.retry THEN u.retry ELSE end.retry
  <2> HIDE DEF u, p, end
  <2> QED
    BY <1>2, <1>3, <1>4, UpdatedRow
<1> QED
  BY <1>2, <1>3, <1>5

\* After a run the session is idle, whatever became of the row.
LEMMA RunEnds ==
  ASSUME TypeOK, SeenOK, NEW x \in Actors, Do(x, Idle)
  PROVE  act' \in [Actors -> Act] /\ SeenOK'
<1>1. Idle \in Act /\ Idle.row.status # "processing" /\ Idle.at # "sweep"
  BY DEF Idle, NoRow, Act, Row, Statuses
<1> QED
  BY <1>1, OneSession

\* A run succeeds: the job is at its end.
LEMMA SucceedKeeps ==
  ASSUME IInv, NEW x \in Actors, Succeed(x)
  PROVE  IInv'
<1>1. job' \in Row /\ job'.status = "completed"
  BY Finished DEF IInv, Succeed
<1>2. act' \in [Actors -> Act] /\ SeenOK'
  BY RunEnds DEF IInv, Succeed
<1> QED
  BY <1>1, <1>2 DEF IInv, TypeOK, NotStranded, Succeed, settings, history, bounds

\* A run fails: there is another attempt, or the job is dead.
LEMMA FailKeeps ==
  ASSUME IInv, NEW x \in Actors, Fail(x)
  PROVE  IInv'
<1> DEFINE again == enabled /\ act[x].row.attempt + 1 < MaxAttempts
           end == IF again THEN "failed" ELSE "dead"
<1>1. /\ again \in BOOLEAN /\ end \in {"completed", "failed", "dead"}
      /\ end = "failed" <=> again
  OBVIOUS
<1>2. Finish(x, end, again)
  BY DEF Fail
<1>3. /\ job' \in Row /\ job'.status = end /\ job'.attempt = act[x].row.attempt + 1
      /\ again => job'.retry
  <2> HIDE DEF again, end
  <2> QED
    BY <1>1, <1>2, Finished DEF IInv
<1>4. act' \in [Actors -> Act] /\ SeenOK'
  BY RunEnds DEF IInv, Fail
<1>5. UNCHANGED <<settings, ids, history, bounds>>
  BY DEF Fail
<1>6. NotStranded'
  BY <1>1, <1>3, <1>5 DEF NotStranded, settings, history
<1> QED
  BY <1>1, <1>3, <1>4, <1>5, <1>6 DEF IInv, TypeOK, settings, history, bounds

\* The job is queued again: the session has yet to push its id.
LEMMA RequeueKeeps ==
  ASSUME IInv, NEW x \in Actors, Requeue(x)
  PROVE  IInv'
<1> DEFINE s == act[x].row
           n == [s EXCEPT !.status = "queued", !.retry = FALSE]
<1>1. s \in Row /\ job \in Row /\ s.status # "processing" /\ job.status # "processing"
  BY DEF IInv, TypeOK, SeenOK, Act
<1>2. n \in Row /\ n.status = "queued" /\ n.attempt = s.attempt /\ ~n.retry
  BY <1>1 DEF Row, Statuses
<1>3. /\ job' \in Row
      /\ job'.status = IF n.status = s.status THEN job.status ELSE n.status
      /\ job'.attempt = job.attempt
      /\ job'.retry = IF n.retry = s.retry THEN job.retry ELSE n.retry
  <2>1. job' = Updated(job, s, n)
    BY DEF Requeue
  <2> HIDE DEF n
  <2> QED
    BY <1>1, <1>2, <2>1, UpdatedRow
<1>4. /\ act' \in [Actors -> Act] /\ SeenOK' /\ act'[x].at = "push"
  <2> DEFINE a == Doing("push", NoRow, "idle")
  <2>1. a \in Act /\ a.at = "push" /\ a.row.status # "processing"
    BY DEF Doing, NoRow, Act, Row, Statuses
  <2>2. Do(x, a)
    BY DEF Requeue
  <2> HIDE DEF a
  <2> QED
    BY <2>1, <2>2, OneSession DEF IInv
<1>5. job'.status \in {"queued", job.status}
  BY <1>2, <1>3
<1>6. job'.status = "failed" =>
        enabled /\ job'.attempt < MaxAttempts /\ (job'.retry \/ overwrote')
  <2> SUFFICES ASSUME job'.status = "failed" PROVE enabled /\ job'.attempt < MaxAttempts
                                                     /\ (job'.retry \/ overwrote')
    OBVIOUS
  <2>1. s.status = "queued" /\ job.status = "failed" /\ job # s
    BY <1>2, <1>3
  <2>2. At(x, {"retry"})
    BY <2>1 DEF IInv, SeenOK, Requeue, At
  <2>3. overwrote'
    BY <2>1, <2>2 DEF Requeue
  <2> QED
    BY <1>3, <2>1, <2>3 DEF IInv, NotStranded
<1> QED
  <2>1. TypeOK'
    BY <1>1, <1>3, <1>4, <1>5 DEF IInv, TypeOK, Requeue, settings, bounds
  <2>2. \E y \in Actors : At(y, {"push", "loaded", "running"})'
    BY <1>4 DEF At
  <2>3. NotStranded'
    BY <1>6, <2>2 DEF NotStranded, Requeue, settings
  <2> QED
    BY <1>4, <2>1, <2>3 DEF IInv

\* An id is taken from the list, or pushed to it; a job is created or loaded.
LEMMA OthersKeep ==
  ASSUME IInv, MediaAssumption, NEW x \in Actors,
         \/ Create(x) \/ Push(x) \/ LoadAgain(x) \/ Pop(x) \/ Select(x) \/ Start(x)
         \/ LoadDue(x) \/ LoadRetry(x) \/ Stop(x)
  PROVE  IInv'
<1> USE DEF IInv, settings, history, bounds
<1>0. act[x] \in Act /\ act[x].row \in Row /\ act[x].row.status # "processing"
  BY DEF TypeOK, SeenOK, Act
<1>1. CASE Create(x)
  <2>1. Queued \in Row /\ Queued.status = "queued"
    BY DEF Queued, Row, Statuses
  <2>2. PICK a \in Act : /\ Do(x, a) /\ a.row = Queued /\ a.at \in {"push", "loaded"}
    BY <1>1, <2>1 DEF Create, Doing, Act
  <2>3. act' \in [Actors -> Act] /\ SeenOK' /\ act'[x] = a
    BY <2>1, <2>2, OneSession
  <2> QED
    BY <1>1, <2>1, <2>2, <2>3 DEF Create, TypeOK, NotStranded, At
<1>2. CASE Push(x)
  <2>1. PICK a \in Act : Do(x, a) /\ a.row.status # "processing" /\ a.at # "sweep"
    <3>1. CASE act[x].next = "idle"
      <4>1. Idle \in Act /\ Idle.row.status # "processing" /\ Idle.at # "sweep"
        BY DEF Idle, NoRow, Act, Row, Statuses
      <4> QED
        BY <1>2, <3>1, <4>1 DEF Push
    <3>2. CASE act[x].next # "idle"
      <4> DEFINE a == Doing(act[x].next, act[x].row, "idle")
      <4>1. a \in Act /\ a.row = act[x].row /\ a.at # "sweep"
        BY <1>0, <3>2 DEF Doing, Act
      <4>2. Do(x, a)
        BY <1>2, <3>2 DEF Push
      <4> HIDE DEF a
      <4> QED
        BY <1>0, <4>1, <4>2
    <3> QED
      BY <3>1, <3>2
  <2>2. act' \in [Actors -> Act] /\ SeenOK'
    BY <2>1, OneSession
  <2>3. ids' \in 0..MaxIds /\ (redis => ids' > 0) /\ (~redis => ids' = 0)
    BY <1>2 DEF Push, TypeOK, MediaAssumption
  <2> QED
    BY <1>2, <2>2, <2>3 DEF Push, TypeOK, NotStranded
<1>3. CASE LoadAgain(x) \/ Pop(x) \/ Select(x)
  <2>1. Doing("loaded", job, "idle") \in Act
    BY DEF Doing, Act, TypeOK
  <2>2. Do(x, Doing("loaded", job, "idle"))
    BY <1>3 DEF LoadAgain, Pop, Select
  <2>3. act' \in [Actors -> Act] /\ SeenOK' /\ act'[x].at = "loaded"
    BY <2>1, <2>2, OneSession DEF Doing, TypeOK
  <2>4. ids' \in 0..MaxIds /\ (~redis => ids' = 0)
    BY <1>3 DEF LoadAgain, Pop, Select, TypeOK, MediaAssumption
  <2> QED
    BY <1>3, <2>3, <2>4 DEF LoadAgain, Pop, Select, TypeOK, NotStranded, At
<1>4. CASE Start(x)
  <2>1. PICK a \in Act : Do(x, a) /\ a.row = act[x].row /\ a.at = "running"
    BY <1>0, <1>4 DEF Start, Act
  <2>2. act' \in [Actors -> Act] /\ SeenOK' /\ act'[x] = a
    BY <1>0, <2>1, OneSession
  <2> QED
    BY <1>4, <2>1, <2>2 DEF Start, TypeOK, NotStranded, At
<1>5. CASE LoadDue(x) \/ LoadRetry(x)
  <2>1. PICK at \in {"sweep", "retry"} : /\ Do(x, Doing(at, job, "idle"))
                                         /\ at = "sweep" => job.status = "failed"
    BY <1>5 DEF LoadDue, LoadRetry
  <2>2. Doing(at, job, "idle") \in Act
    BY DEF Doing, Act, TypeOK
  <2>3. /\ act' \in [Actors -> Act] /\ SeenOK'
        /\ \A y \in Actors \ {x} : act'[y] = act[y]
    BY <2>1, <2>2, OneSession DEF Doing, TypeOK
  <2>4. act[x].at = "idle"
    BY <1>5 DEF LoadDue, LoadRetry, At
  <2>5. UNCHANGED <<settings, job, ids, history, stops>> /\ retries' \in 0..MaxRetries
    BY <1>5 DEF LoadDue, LoadRetry, TypeOK, MediaAssumption
  <2> QED
    BY <2>3, <2>4, <2>5 DEF TypeOK, NotStranded, At
<1>6. CASE Stop(x)
  <2>1. /\ act' \in [Actors -> Act] /\ SeenOK'
        /\ \A y \in Actors \ {x} : act'[y] = act[y]
    BY <1>6, OneSession DEF Stop, Idle, NoRow, Act, Row, Statuses
  <2>2. UNCHANGED <<settings, job, ids, overwrote, retries>> /\ stops' \in 0..MaxStops
    BY <1>6 DEF Stop, TypeOK, MediaAssumption
  <2>3. dropped' \in BOOLEAN /\ (dropped => dropped')
    BY <1>6 DEF Stop, TypeOK
  <2>4. job'.status = "queued" /\ redis' =>
          \/ ids' > 0 \/ dropped'
          \/ \E y \in Actors : At(y, {"push", "loaded", "running"})'
    <3>1. At(x, {"push", "loaded", "running"}) /\ redis => dropped'
      BY <1>6 DEF Stop
    <3>2. \A y \in Actors \ {x} : At(y, {"push", "loaded", "running"}) =>
                                  At(y, {"push", "loaded", "running"})'
      BY <2>1 DEF At
    <3> QED
      BY <2>2, <2>3, <3>1, <3>2 DEF NotStranded
  <2> QED
    BY <2>1, <2>2, <2>3, <2>4 DEF TypeOK, NotStranded
<1> QED
  BY <1>1, <1>2, <1>3, <1>4, <1>5, <1>6

-----------------------------------------------------------------------------
\* The inductive invariant holds of every state.
THEOREM Invariance ==
  ASSUME MediaAssumption
  PROVE  Spec => []IInv
<1>1. Init => IInv
  <2> SUFFICES ASSUME Init PROVE IInv
    OBVIOUS
  <2>1. Idle \in Act /\ Idle.at = "idle" /\ Idle.row.status = "none" /\ NoRow \in Row
        /\ NoRow.status = "none"
    BY DEF Idle, NoRow, Act, Row, Statuses
  <2>2. \A x \in Actors : act[x] = Idle
    BY DEF Init
  <2>3. TypeOK
    <3>1. job \in Row /\ job.status # "processing" /\ act \in [Actors -> Act]
      BY <2>1 DEF Init
    <3>2. 0 \in 0..MaxIds /\ 0 \in 0..MaxRetries /\ 0 \in 0..MaxStops
      BY DEF MediaAssumption
    <3> QED
      BY <3>1, <3>2 DEF Init, TypeOK
  <2>4. SeenOK
    BY <2>1, <2>2 DEF SeenOK, At
  <2>5. NotStranded
    BY <2>1 DEF Init, NotStranded
  <2> QED
    BY <2>3, <2>4, <2>5 DEF IInv
<1>2. IInv /\ [Next]_vars => IInv'
  <2> SUFFICES ASSUME IInv, [Next]_vars PROVE IInv'
    OBVIOUS
  <2>1. CASE Next
    <3>1. PICK x \in Actors : Create(x) \/ Work(x) \/ Take(x) \/ LoadRetry(x) \/ Stop(x)
      BY <2>1 DEF Next
    <3> QED
      BY <3>1, SucceedKeeps, FailKeeps, RequeueKeeps, OthersKeep DEF Work, Take
  <2>2. CASE UNCHANGED vars
    BY <2>2 DEF vars, settings, history, bounds, IInv, TypeOK, SeenOK, NotStranded, At
  <2> QED
    BY <2>1, <2>2
<1> QED
  BY <1>1, <1>2, PTL DEF Spec

\* TypeOK: among the types, that no commit shows a job that is being processed, so a
\* worker that dies leaves none that nobody would look for.
THEOREM TypeCorrect ==
  ASSUME MediaAssumption
  PROVE  Spec => []TypeOK
<1>1. IInv => TypeOK
  BY DEF IInv
<1> QED
  BY <1>1, Invariance, PTL

\* NotStranded: a job that is not at its end has its id in the list, a session that
\* works on it, or a due retry, unless a session died with it or a retry was written
\* over another write.
THEOREM JobsNotStranded ==
  ASSUME MediaAssumption
  PROVE  Spec => []NotStranded
<1>1. IInv => NotStranded
  BY DEF IInv
<1> QED
  BY <1>1, Invariance, PTL

=============================================================================
