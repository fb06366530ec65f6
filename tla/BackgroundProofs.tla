-------------------------- MODULE BackgroundProofs --------------------------
(***************************************************************************)
(* Proofs about LeaderLock for any number of processes and schedulers, and *)
(* any bound on the disruptions.  That a leader has the lock is not        *)
(* inductive: giving back the connection forgets that it was dead, so one  *)
(* must know that the task giving it back is the only one that uses it     *)
(* (OneConnection) and that a dead session has no lock (NoDeadLock).       *)
(*                                                                         *)
(* At the end the theorems of MediaJobsProofs are taken over to            *)
(* MCBackground, where TLC checks both components.                         *)
(***************************************************************************)
EXTENDS MCBackground, TLAPS

\* A task that asks, sleeps or leads has the connection of its process.
OneConnection ==
  \A w \in Workers, j \in Jobs : Using(w, j) => conn[w] = j

\* PostgreSQL has freed what a session that ended had locked.
NoDeadLock == \A w \in Workers, j \in Jobs : lock[j] = w => w \notin dead

IInv ==
  /\ TypeOK
  /\ OneConnection
  /\ NoDeadLock
  /\ LeadersHoldTheLock
  /\ LocksGivenBack

\* Before any process starts there is no lock, no connection and no leader.
LEMMA InitIInv == Init => IInv
<1> SUFFICES ASSUME Init PROVE IInv
  OBVIOUS
<1>1. TypeOK
  BY LeaderAssumption DEF Init, TypeOK, Steps
<1>2. OneConnection /\ LeadersHoldTheLock
  BY DEF Init, OneConnection, LeadersHoldTheLock, Using, Leads
<1>3. NoDeadLock /\ LocksGivenBack
  BY LeaderAssumption DEF Init, NoDeadLock, LocksGivenBack
<1> QED
  BY <1>1, <1>2, <1>3 DEF IInv

\* A task moves between steps in which it has no connection, and nothing else
\* changes.
LEMMA Outside ==
  ASSUME IInv, NEW w \in Workers, NEW j \in Jobs, NEW step \in {"connect", "backoff", "done"},
         pc[w][j] \notin {"ask", "sleep", "lead"}, GoTo(w, j, step),
         stop' \in [Workers -> SUBSET Jobs], disruptions' \in 0..MaxDisruptions,
         UNCHANGED <<up, conn, dead, lock>>
  PROVE  IInv'
<1>1. /\ pc' \in [Workers -> [Jobs -> Steps]]
      /\ pc'[w][j] = step
      /\ \A v \in Workers, i \in Jobs : v # w \/ i # j => pc'[v][i] = pc[v][i]
  BY DEF GoTo, IInv, TypeOK, Steps
<1>2. \A v \in Workers, i \in Jobs : (Using(v, i)' <=> Using(v, i)) /\ (Leads(v, i)' <=> Leads(v, i))
  BY <1>1 DEF Using, Leads
<1>3. TypeOK'
  BY <1>1, <1>2, LeaderAssumption DEF IInv, TypeOK
<1> QED
  BY <1>2, <1>3 DEF IInv, OneConnection, NoDeadLock, LeadersHoldTheLock, LocksGivenBack

\* The task that has the connection gives it back: it asked or slept, or it led
\* and unlocked (Leave).
LEMMA GivesBack ==
  ASSUME IInv, NEW w \in Workers, NEW j \in Jobs, NEW step \in {"connect", "backoff", "done"},
         Using(w, j), GoTo(w, j, step), GiveBack(w),
         (lock' = lock /\ ~Leads(w, j)) \/ Leave(w, j),
         disruptions' \in 0..MaxDisruptions,
         UNCHANGED <<up, stop>>
  PROVE  IInv'
<1>1. /\ pc' \in [Workers -> [Jobs -> Steps]]
      /\ pc'[w][j] = step
      /\ \A v \in Workers, i \in Jobs : v # w \/ i # j => pc'[v][i] = pc[v][i]
  BY DEF GoTo, IInv, TypeOK, Steps
<1>2. conn[w] = j /\ \A i \in Jobs : i # j => ~Using(w, i)
  BY DEF IInv, OneConnection
<1>3. /\ conn' \in [Workers -> Jobs \cup {None}]
      /\ conn'[w] = None
      /\ \A v \in Workers : v # w => conn'[v] = conn[v]
      /\ dead' = dead \ {w}
  BY LeaderAssumption DEF GiveBack, IInv, TypeOK
<1>4. /\ \A v \in Workers, i \in Jobs : v # w =>
           (Using(v, i)' <=> Using(v, i)) /\ (Leads(v, i)' <=> Leads(v, i))
      /\ \A i \in Jobs : ~Using(w, i)' /\ ~Leads(w, i)'
  BY <1>1, <1>2 DEF Using, Leads
<1>5. /\ lock' \in [Jobs -> Workers \cup {None}]
      /\ \A i \in Jobs : lock'[i] # w
      /\ \A i \in Jobs, v \in Workers : v # w => (lock'[i] = v <=> lock[i] = v)
  <2>1. \A i \in Jobs : lock[i] = w => i = j /\ Leads(w, j) /\ w \notin dead
    BY <1>2 DEF IInv, LocksGivenBack, NoDeadLock, Leads, Using
  <2>2. CASE lock' = lock /\ ~Leads(w, j)
    BY <2>1, <2>2 DEF IInv, TypeOK
  <2>3. CASE Leave(w, j)
    BY <2>1, <2>3, LeaderAssumption DEF Leave, IInv, TypeOK
  <2> QED
    BY <2>2, <2>3
<1>6. TypeOK'
  <2>1. \A v \in Workers : (conn[v] # None => Using(v, conn[v]))'
    BY <1>3, <1>4 DEF IInv, TypeOK, Using
  <2> QED
    BY <1>1, <1>3, <1>5, <2>1 DEF IInv, TypeOK
<1>7. OneConnection' /\ LeadersHoldTheLock' /\ LocksGivenBack' /\ NoDeadLock'
  BY <1>3, <1>4, <1>5 DEF IInv, OneConnection, LeadersHoldTheLock, LocksGivenBack, NoDeadLock
<1> QED
  BY <1>6, <1>7 DEF IInv

\* A session ends, with its process or unnoticed.
LEMMA SessionEnds ==
  ASSUME IInv, NEW w \in Workers, EndSession(w),
         disruptions' \in 0..MaxDisruptions,
         UNCHANGED <<stop, pc>>,
         \/ /\ up' = up \ {w}
            /\ \/ GiveBack(w)
               \/ (\A j \in Jobs : ~Using(w, j)) /\ UNCHANGED <<conn, dead>>
         \/ dead' = dead \cup {w} /\ UNCHANGED <<up, conn>>
  PROVE  IInv'
<1>1. /\ lock' \in [Jobs -> Workers \cup {None}]
      /\ \A i \in Jobs : lock'[i] # w
      /\ \A i \in Jobs, v \in Workers : v # w => (lock'[i] = v <=> lock[i] = v)
  BY LeaderAssumption DEF EndSession, IInv, TypeOK
<1>2. /\ conn' \in [Workers -> Jobs \cup {None}]
      /\ \A v \in Workers : v # w => conn'[v] = conn[v] /\ (v \in dead' <=> v \in dead)
                                                       /\ (v \in up' <=> v \in up)
      /\ dead' \in SUBSET Workers /\ up' \in SUBSET Workers
  BY DEF GiveBack, IInv, TypeOK
<1>3. \A v \in Workers, i \in Jobs : v # w =>
        (Using(v, i)' <=> Using(v, i)) /\ (Leads(v, i)' <=> Leads(v, i))
  BY <1>2 DEF Using, Leads
<1>4. /\ (conn[w] # None => Using(w, conn[w]))'
      /\ \A i \in Jobs : Using(w, i)' => conn'[w] = i
      /\ \A i \in Jobs : Leads(w, i)' => w \in dead'
  <2>1. CASE up' = up \ {w} /\ GiveBack(w)
    BY <2>1 DEF GiveBack, Using, Leads, IInv, TypeOK
  <2>2. CASE up' = up \ {w} /\ (\A j \in Jobs : ~Using(w, j)) /\ UNCHANGED <<conn, dead>>
    BY <2>2 DEF Using, Leads, IInv, TypeOK
  <2>3. CASE dead' = dead \cup {w} /\ UNCHANGED <<up, conn>>
    BY <2>3 DEF Using, Leads, IInv, TypeOK, OneConnection
  <2> QED
    BY <2>1, <2>2, <2>3
<1>5. TypeOK'
  <2>1. \A v \in Workers : (conn[v] # None => Using(v, conn[v]))'
    BY <1>2, <1>3, <1>4 DEF IInv, TypeOK, Using
  <2> QED
    BY <1>1, <1>2, <2>1 DEF IInv, TypeOK
<1>6. OneConnection' /\ LeadersHoldTheLock' /\ LocksGivenBack' /\ NoDeadLock'
  BY <1>1, <1>2, <1>3, <1>4
     DEF IInv, OneConnection, LeadersHoldTheLock, LocksGivenBack, NoDeadLock
<1> QED
  BY <1>5, <1>6 DEF IInv

\* A task that was handed the connection, or got its answer.
LEMMA Connected ==
  ASSUME IInv, NEW w \in Workers, NEW j \in Jobs, Connect(w, j) \/ TryLock(w, j)
  PROVE  IInv'
<1>1. PICK step \in {"ask", "sleep", "lead"} : GoTo(w, j, step)
  BY DEF Connect, TryLock
<1>2. /\ pc' \in [Workers -> [Jobs -> Steps]]
      /\ pc'[w][j] = step
      /\ \A v \in Workers, i \in Jobs : v # w \/ i # j => pc'[v][i] = pc[v][i]
  BY <1>1 DEF GoTo, IInv, TypeOK, Steps
<1>3. /\ w \in up /\ UNCHANGED <<up, stop, dead, disruptions>>
      /\ \A v \in Workers, i \in Jobs : v # w \/ i # j =>
           (Using(v, i)' <=> Using(v, i)) /\ (Leads(v, i)' <=> Leads(v, i))
      /\ Using(w, j)'
  BY <1>2 DEF Connect, TryLock, At, Using, Leads
<1>4. /\ conn' \in [Workers -> Jobs \cup {None}]
      /\ conn'[w] = j
      /\ \A i \in Jobs : i # j => ~Using(w, i)
      /\ \A v \in Workers : v # w => conn'[v] = conn[v]
  <2>1. CASE Connect(w, j)
    BY <2>1, LeaderAssumption DEF Connect, IInv, TypeOK, OneConnection
  <2>2. CASE TryLock(w, j)
    <3>1. Using(w, j)
      BY <2>2 DEF TryLock, At, Using
    <3> QED
      BY <2>2, <3>1 DEF TryLock, IInv, TypeOK, OneConnection
  <2> QED
    BY <2>1, <2>2
<1>5. TypeOK' /\ OneConnection'
  <2>1. \A v \in Workers : (conn[v] # None => Using(v, conn[v]))'
    BY <1>3, <1>4 DEF IInv, TypeOK, Using
  <2>2. lock' \in [Jobs -> Workers \cup {None}]
    BY DEF Connect, TryLock, IInv, TypeOK
  <2> QED
    BY <1>2, <1>3, <1>4, <2>1, <2>2 DEF IInv, TypeOK, OneConnection
<1>6. CASE Connect(w, j)
  <2>1. ~Leads(w, j) /\ ~Leads(w, j)' /\ lock' = lock
    BY <1>2, <1>6 DEF Connect, At, GoTo, Leads, IInv, TypeOK
  <2> QED
    BY <1>3, <1>5, <2>1 DEF IInv, NoDeadLock, LeadersHoldTheLock, LocksGivenBack
<1>7. CASE TryLock(w, j) /\ lock[j] \in {None, w}
  <2>1. /\ lock'[j] = w /\ w \notin dead
        /\ \A i \in Jobs : i # j => lock'[i] = lock[i]
    BY <1>7 DEF TryLock, IInv, TypeOK
  <2>2. Leads(w, j)'
    BY <1>3, <1>7 DEF TryLock, GoTo, Leads, IInv, TypeOK
  <2>3. \A v \in Workers : v # w => lock[j] # v
    BY <1>7, LeaderAssumption
  <2> QED
    BY <1>3, <1>5, <2>1, <2>2, <2>3
       DEF IInv, NoDeadLock, LeadersHoldTheLock, LocksGivenBack
<1>8. CASE TryLock(w, j) /\ lock[j] \notin {None, w}
  <2>1. ~Leads(w, j) /\ ~Leads(w, j)' /\ lock' = lock
    BY <1>8 DEF TryLock, At, GoTo, Leads, IInv, TypeOK
  <2> QED
    BY <1>3, <1>5, <2>1 DEF IInv, NoDeadLock, LeadersHoldTheLock, LocksGivenBack
<1> QED
  BY <1>6, <1>7, <1>8

\* Every step of the processes, their tasks and the database keeps IInv.
THEOREM LeaderNextIInv == IInv /\ [Next]_vars => IInv'
<1> SUFFICES ASSUME IInv, [Next]_vars PROVE IInv'
  OBVIOUS
<1> USE DEF Disrupt, At
<1>0. /\ disruptions \in 0..MaxDisruptions
      /\ disruptions < MaxDisruptions => disruptions + 1 \in 0..MaxDisruptions
      /\ stop \in [Workers -> SUBSET Jobs]
  BY LeaderAssumption DEF IInv, TypeOK
<1>1. ASSUME NEW w \in Workers, Start(w)
      PROVE  IInv'
  <2>1. /\ conn[w] = None /\ \A j \in Jobs : lock[j] # w
    BY <1>1 DEF Start, IInv, TypeOK, Using, LocksGivenBack, Leads
  <2>2. /\ pc' \in [Workers -> [Jobs -> Steps]]
        /\ \A j \in Jobs : pc'[w][j] = "connect"
        /\ \A v \in Workers : v # w => pc'[v] = pc[v] /\ (v \in up' <=> v \in up)
    BY <1>1 DEF Start, IInv, TypeOK, Steps
  <2>3. /\ \A v \in Workers, i \in Jobs : v # w =>
             (Using(v, i)' <=> Using(v, i)) /\ (Leads(v, i)' <=> Leads(v, i))
        /\ \A i \in Jobs : ~Using(w, i)' /\ ~Leads(w, i)'
    BY <2>2 DEF Using, Leads
  <2>4. UNCHANGED <<conn, dead, lock, disruptions>>
    BY <1>1 DEF Start
  <2>5. TypeOK'
    <3>1. \A v \in Workers : (conn[v] # None => Using(v, conn[v]))'
      BY <2>1, <2>3, <2>4 DEF IInv, TypeOK, Using
    <3> QED
      BY <1>1, <2>2, <3>1 DEF Start, IInv, TypeOK
  <2>6. OneConnection' /\ NoDeadLock' /\ LeadersHoldTheLock' /\ LocksGivenBack'
    BY <2>1, <2>3, <2>4 DEF IInv, OneConnection, NoDeadLock, LeadersHoldTheLock, LocksGivenBack
  <2> QED
    BY <2>5, <2>6 DEF IInv
<1>2. ASSUME NEW w \in Workers, Exit(w) \/ Crash(w) \/ LoseSession(w)
      PROVE  IInv'
  BY <1>0, <1>2, SessionEnds DEF Exit, Crash, LoseSession, Using
<1>3. ASSUME NEW w \in Workers, NEW j \in Jobs, StopTask(w, j)
      PROVE  IInv'
  <2>1. /\ stop' \in [Workers -> SUBSET Jobs] /\ disruptions' \in 0..MaxDisruptions
        /\ UNCHANGED <<up, pc, conn, dead, lock>>
    BY <1>0, <1>3 DEF StopTask
  <2> QED
    BY <2>1 DEF IInv, TypeOK, OneConnection, NoDeadLock, LeadersHoldTheLock, LocksGivenBack,
                Using, Leads
<1>4. ASSUME NEW w \in Workers, NEW j \in Jobs, Connect(w, j) \/ TryLock(w, j)
      PROVE  IInv'
  BY <1>4, Connected
<1>5. ASSUME NEW w \in Workers, NEW j \in Jobs,
             PoolTimeout(w, j) \/ ConnectFails(w, j) \/ Retry(w, j)
      PROVE  IInv'
  BY <1>0, <1>5, Outside DEF PoolTimeout, ConnectFails, Retry
<1>6. ASSUME NEW w \in Workers, NEW j \in Jobs, AskFails(w, j) \/ Wake(w, j)
      PROVE  IInv'
  BY <1>0, <1>6, GivesBack DEF AskFails, Wake, Using, Leads
<1>7. ASSUME NEW w \in Workers, NEW j \in Jobs, WorkStops(w, j) \/ WorkFails(w, j)
      PROVE  IInv'
  <2>1. Leave(w, j) /\ GiveBack(w) /\ Using(w, j) /\ UNCHANGED <<up, stop>>
    BY <1>7 DEF WorkStops, WorkFails, Leave, Using
  <2>2. disruptions' \in 0..MaxDisruptions
    BY <1>0, <1>7 DEF WorkStops, WorkFails
  <2>3. GoTo(w, j, "done") \/ GoTo(w, j, "backoff")
    BY <1>7 DEF WorkStops, WorkFails
  <2> QED
    BY <2>1, <2>2, <2>3, GivesBack
<1>8. ASSUME NEW w \in Workers, NEW j \in Jobs, Cancelled(w, j)
      PROVE  IInv'
  <2>1. CASE Using(w, j)
    <3>1. conn[w] = j /\ ~Leads(w, j)
      BY <1>8, <2>1 DEF IInv, OneConnection, Cancelled, Leads
    <3> QED
      BY <1>0, <1>8, <2>1, <3>1, GivesBack DEF Cancelled
  <2>2. CASE ~Using(w, j)
    <3>1. conn[w] # j /\ pc[w][j] \notin {"ask", "sleep", "lead"}
      BY <1>8, <2>2, LeaderAssumption DEF IInv, TypeOK, Cancelled, Using
    <3> QED
      BY <1>0, <1>8, <3>1, Outside DEF Cancelled
  <2> QED
    BY <2>1, <2>2
<1>9. CASE UNCHANGED vars
  BY <1>9 DEF vars, IInv, TypeOK, OneConnection, NoDeadLock, LeadersHoldTheLock,
              LocksGivenBack, Using, Leads
<1> QED
  BY <1>1, <1>2, <1>3, <1>4, <1>5, <1>6, <1>7, <1>8, <1>9 DEF Next, Task, Advance

\* IInv holds in every reachable state.
LEMMA LeaderIInv == Spec => []IInv
  BY InitIInv, LeaderNextIInv, PTL DEF Spec

\* Every reachable state has the types TypeOK states; no process keeps its
\* connection for a task that does not use it.
THEOREM LeaderTypeCorrect == Spec => []TypeOK
  BY LeaderIInv, PTL DEF IInv

\* Any number of processes and schedulers: who runs a scheduler's loop over a
\* live connection has its lock.
THEOREM LeadersElected == Spec => []LeadersHoldTheLock
  BY LeaderIInv, PTL DEF IInv

\* No lock is ever left behind by a task that does not run the loop.
THEOREM NoLockLeftBehind == Spec => []LocksGivenBack
  BY LeaderIInv, PTL DEF IInv

\* Two processes run the same scheduler only while the connection of one of
\* them is dead: the docstring's "only one worker/replica", and what it takes.
THEOREM OneLeader ==
  Spec => [](\A v, w \in Workers, j \in Jobs :
               Leads(v, j) /\ Leads(w, j) /\ v \notin dead /\ w \notin dead => v = w)
<1>1. IInv => \A v, w \in Workers, j \in Jobs :
                Leads(v, j) /\ Leads(w, j) /\ v \notin dead /\ w \notin dead => v = w
  BY DEF IInv, LeadersHoldTheLock
<1> QED
  BY <1>1, LeaderIInv, PTL

-----------------------------------------------------------------------------
(* Both parts together: MCBackground, the specification that TLC checks.    *)

Job == INSTANCE MediaJobsProofs

\* The two instances of MediaJobs are the same formulas.
LEMMA SameMedia ==
  /\ Media!Init <=> Job!Init
  /\ Media!Next <=> Job!Next
  /\ Media!vars = Job!vars
  /\ Media!vars' = Job!vars'
  /\ Media!TypeOK <=> Job!TypeOK
  /\ Media!NotStranded <=> Job!NotStranded
  /\ Media!MediaAssumption <=> Job!MediaAssumption
<1>1. /\ Media!NotStranded <=> Job!NotStranded
      /\ Media!MediaAssumption <=> Job!MediaAssumption
      /\ Media!vars = Job!vars
      /\ Media!vars' = Job!vars'
  BY DEF Media!NotStranded, Job!NotStranded, Media!At, Job!At, Media!MediaAssumption,
         Job!MediaAssumption, Media!vars, Job!vars, Media!settings, Job!settings,
         Media!history, Job!history, Media!bounds, Job!bounds
<1>2. /\ Media!NoRow = Job!NoRow /\ Media!Idle = Job!Idle /\ Media!Act = Job!Act
      /\ Media!Row = Job!Row /\ Media!Queued = Job!Queued
  BY DEF Media!NoRow, Job!NoRow, Media!Idle, Job!Idle, Media!Act, Job!Act, Media!Row,
         Job!Row, Media!Statuses, Job!Statuses, Media!Queued, Job!Queued
<1>3. (Media!Init <=> Job!Init) /\ (Media!TypeOK <=> Job!TypeOK)
  BY <1>2 DEF Media!Init, Job!Init, Media!TypeOK, Job!TypeOK
<1>4. ASSUME NEW x \in Actors
      PROVE  /\ Media!Create(x) <=> Job!Create(x)
             /\ Media!Work(x) <=> Job!Work(x)
             /\ Media!Take(x) <=> Job!Take(x)
             /\ Media!LoadRetry(x) <=> Job!LoadRetry(x)
             /\ Media!Stop(x) <=> Job!Stop(x)
  BY <1>2 DEF Media!Create, Job!Create, Media!Push, Job!Push, Media!LoadAgain, Job!LoadAgain,
         Media!Pop, Job!Pop, Media!Select, Job!Select, Media!Start, Job!Start,
         Media!Succeed, Job!Succeed, Media!Fail, Job!Fail, Media!Finish, Job!Finish,
         Media!Run, Job!Run, Media!Updated, Job!Updated, Media!LoadDue, Job!LoadDue,
         Media!LoadRetry, Job!LoadRetry, Media!Requeue, Job!Requeue, Media!Stop,
         Job!Stop, Media!Work, Job!Work, Media!Take, Job!Take, Media!At, Job!At,
         Media!Do, Job!Do, Media!Doing, Job!Doing, Media!Unlocked, Job!Unlocked,
         Media!settings, Job!settings, Media!history, Job!history, Media!bounds,
         Job!bounds
<1> QED
  BY <1>1, <1>3, <1>4 DEF Media!Next, Job!Next

\* A behaviour of MCBackground is one of LeaderLock and one of MediaJobs.
THEOREM PartsAreSpecs == MCSpec => Spec /\ Job!Spec
<1>1. MCInit => Init /\ Job!Init
  BY SameMedia DEF MCInit
<1>2. UNCHANGED mediaVars <=> UNCHANGED Media!vars
  BY DEF mediaVars, Media!vars, Media!settings, Media!history, Media!bounds
<1>3. [MCNext]_allVars => [Next]_vars /\ [Media!Next]_(Media!vars)
  BY <1>2 DEF MCNext, allVars, OnlyElection, OnlyMedia
<1>4. [Media!Next]_(Media!vars) => [Job!Next]_(Job!vars)
  BY SameMedia
<1> QED
  BY <1>1, <1>3, <1>4, PTL DEF MCSpec, Spec, Job!Spec

\* The types of MediaJobs, of the run: among them, that no commit shows a job that is
\* being processed.
THEOREM MediaTypeCorrect == MCSpec => []MediaTypeOK
<1>1. Job!Spec => []Job!TypeOK
  BY Job!TypeCorrect, MediaBounds, SameMedia
<1>2. Job!TypeOK => MediaTypeOK
  BY SameMedia DEF MediaTypeOK
<1> QED
  BY <1>1, <1>2, PartsAreSpecs, PTL

\* NotStranded of the run: a job that is not at its end is going to be run again.
THEOREM MediaNotStranded == MCSpec => []NotStranded
<1>1. Job!Spec => []Job!NotStranded
  BY Job!JobsNotStranded, MediaBounds, SameMedia
<1>2. Job!NotStranded => NotStranded
  BY SameMedia DEF NotStranded
<1> QED
  BY <1>1, <1>2, PartsAreSpecs, PTL

=============================================================================
