----------------------------- MODULE LeaderLock -----------------------------
(***************************************************************************)
(* services/leader_lock.py: which process runs the background schedulers.  *)
(*                                                                         *)
(* Every API process starts one task per scheduler (main.py, lifespan).    *)
(* The task takes the connection of the process's leader engine, whose     *)
(* pool holds just one, asks PostgreSQL for the scheduler's advisory lock  *)
(* and, with the lock, runs the scheduler's loop until it is told to stop. *)
(* The connection stays checked out as long as the loop runs.  The lock    *)
(* belongs to the database session behind the connection; the loop works   *)
(* through other connections and never looks at this one.                  *)
(*                                                                         *)
(* On other databases (sqlite) there is no election; that is not modelled. *)
(* A definition introduced as a slip is a plausible mistake in the one     *)
(* that follows it, not the model.                                         *)
(***************************************************************************)
EXTENDS Naturals

CONSTANTS
  Workers,        \* the API processes
  Jobs,           \* the schedulers, by name
  None,           \* nobody
  MaxDisruptions  \* bound on crashes, shutdowns, lost connections and errors

ASSUME LeaderAssumption ==
  /\ None \notin Workers /\ None \notin Jobs
  /\ MaxDisruptions \in Nat

VARIABLES
  up,           \* the processes that run
  stop,         \* stop[w]: the tasks whose stop event is set, and cancelled
  pc,           \* pc[w][j]: where the task of j in w stands
  conn,         \* conn[w]: the task that has w's leader connection
  dead,         \* the processes whose connection has lost its session unnoticed
  lock,         \* lock[j]: the process whose session has the advisory lock
  disruptions   \* how many there have been

vars == <<up, stop, pc, conn, dead, lock, disruptions>>

\* connect: wants the connection; ask: has it; sleep: the lock was taken, it
\* waits retry_seconds; lead: runs the loop; backoff: waits after an error.
Steps == {"connect", "ask", "sleep", "lead", "backoff", "done"}

Leads(w, j) == w \in up /\ pc[w][j] = "lead"
Using(w, j) == w \in up /\ pc[w][j] \in {"ask", "sleep", "lead"}

TypeOK ==
  /\ up \in SUBSET Workers
  /\ stop \in [Workers -> SUBSET Jobs]
  /\ pc \in [Workers -> [Jobs -> Steps]]
  /\ conn \in [Workers -> Jobs \cup {None}]
  /\ \A w \in Workers : conn[w] # None => Using(w, conn[w])
  /\ dead \in SUBSET Workers
  /\ lock \in [Jobs -> Workers \cup {None}]
  /\ disruptions \in 0..MaxDisruptions

Init ==
  /\ up = {}
  /\ stop = [w \in Workers |-> {}]
  /\ pc = [w \in Workers |-> [j \in Jobs |-> "connect"]]
  /\ conn = [w \in Workers |-> None]
  /\ dead = {}
  /\ lock = [j \in Jobs |-> None]
  /\ disruptions = 0

Disrupt ==
  /\ disruptions < MaxDisruptions
  /\ disruptions' = disruptions + 1

At(w, j, step)   == w \in up /\ pc[w][j] = step
GoTo(w, j, step) == pc' = [pc EXCEPT ![w][j] = step]

\* The connection goes back to the pool, which discards a broken one.
GiveBack(w) ==
  /\ conn' = [conn EXCEPT ![w] = None]
  /\ dead' = dead \ {w}

\* The session ends, and PostgreSQL frees what it had locked.
EndSession(w) ==
  lock' = [j \in Jobs |-> IF lock[j] = w THEN None ELSE lock[j]]

-----------------------------------------------------------------------------
(* The life of a process.                                                   *)

\* lifespan: one task per scheduler.
Start(w) ==
  /\ w \notin up
  /\ up' = up \cup {w}
  /\ stop' = [stop EXCEPT ![w] = {}]
  /\ pc' = [pc EXCEPT ![w] = [j \in Jobs |-> "connect"]]
  /\ UNCHANGED <<conn, dead, lock, disruptions>>

\* The shutdown of the process sets the stop event of each task in turn and
\* cancels the task.  It counts as one disruption, with its first task.
StopTask(w, j) ==
  /\ w \in up /\ j \notin stop[w]
  /\ IF stop[w] = {} THEN Disrupt ELSE UNCHANGED disruptions
  /\ stop' = [stop EXCEPT ![w] = @ \cup {j}]
  /\ UNCHANGED <<up, pc, conn, dead, lock>>

Exit(w) ==
  /\ w \in up
  /\ \A j \in Jobs : pc[w][j] = "done"
  /\ up' = up \ {w}
  /\ EndSession(w)
  /\ UNCHANGED <<stop, pc, conn, dead, disruptions>>

Crash(w) ==
  /\ w \in up
  /\ Disrupt
  /\ up' = up \ {w}
  /\ GiveBack(w)
  /\ EndSession(w)
  /\ UNCHANGED <<stop, pc>>

\* The database restarts, or the network drops the connection in use.  Nobody
\* tells the task.
LoseSession(w) ==
  /\ conn[w] # None /\ w \notin dead
  /\ Disrupt
  /\ dead' = dead \cup {w}
  /\ EndSession(w)
  /\ UNCHANGED <<up, stop, pc, conn>>

-----------------------------------------------------------------------------
(* run_as_leader, one task.  A task told to stop takes no further step of   *)
(* its loop: Cancelled ends it.                                             *)

\* pool_pre_ping: the connection handed out is alive.
Connect(w, j) ==
  /\ At(w, j, "connect") /\ j \notin stop[w]
  /\ conn[w] = None
  /\ conn' = [conn EXCEPT ![w] = j]
  /\ GoTo(w, j, "ask")
  /\ UNCHANGED <<up, stop, dead, lock, disruptions>>

\* The pool has no connection to give for its whole timeout, 30 s.  A loser of
\* the election keeps it for 15 s only, so a timeout takes a leader, or a second
\* task in the queue.
PoolTimeout(w, j) ==
  /\ At(w, j, "connect") /\ j \notin stop[w]
  /\ conn[w] # None
  /\ Leads(w, conn[w]) \/ \E i \in Jobs \ {j} : At(w, i, "connect")
  /\ GoTo(w, j, "backoff")
  /\ UNCHANGED <<up, stop, conn, dead, lock, disruptions>>

\* Slip: an error ends the task.
GiveUp(w, j) ==
  /\ At(w, j, "connect") /\ j \notin stop[w]
  /\ Disrupt
  /\ GoTo(w, j, "done")
  /\ UNCHANGED <<up, stop, conn, dead, lock>>

\* The database cannot be reached.
ConnectFails(w, j) ==
  /\ At(w, j, "connect") /\ j \notin stop[w]
  /\ Disrupt
  /\ GoTo(w, j, "backoff")
  /\ UNCHANGED <<up, stop, conn, dead, lock>>

\* Slip: the answer of pg_try_advisory_lock is not looked at.
LeadAnyway(w, j) ==
  /\ At(w, j, "ask") /\ j \notin stop[w] /\ w \notin dead
  /\ lock' = [lock EXCEPT ![j] = IF @ = None THEN w ELSE @]
  /\ GoTo(w, j, "lead")
  /\ UNCHANGED <<up, stop, conn, dead, disruptions>>

\* SELECT pg_try_advisory_lock: a session may take a lock it has once more.
TryLock(w, j) ==
  /\ At(w, j, "ask") /\ j \notin stop[w] /\ w \notin dead
  /\ IF lock[j] \in {None, w}
     THEN lock' = [lock EXCEPT ![j] = w] /\ GoTo(w, j, "lead")
     ELSE GoTo(w, j, "sleep") /\ UNCHANGED lock
  /\ UNCHANGED <<up, stop, conn, dead, disruptions>>

AskFails(w, j) ==
  /\ At(w, j, "ask") /\ j \notin stop[w] /\ w \in dead
  /\ GiveBack(w)
  /\ GoTo(w, j, "backoff")
  /\ UNCHANGED <<up, stop, lock, disruptions>>

\* Slip: the next try starts before the connection is given back.
WakeConnected(w, j) ==
  /\ At(w, j, "sleep") /\ j \notin stop[w]
  /\ GoTo(w, j, "connect")
  /\ UNCHANGED <<up, stop, conn, dead, lock, disruptions>>

\* The wait is inside "async with", so the connection was kept all along; the
\* continue gives it back.
Wake(w, j) ==
  /\ At(w, j, "sleep") /\ j \notin stop[w]
  /\ GiveBack(w)
  /\ GoTo(w, j, "connect")
  /\ UNCHANGED <<up, stop, lock, disruptions>>

Retry(w, j) ==
  /\ At(w, j, "backoff") /\ j \notin stop[w]
  /\ GoTo(w, j, "connect")
  /\ UNCHANGED <<up, stop, conn, dead, lock, disruptions>>

\* Slip: the lock is not released when the loop is left.
LeaveLocked(w, j) ==
  /\ GiveBack(w)
  /\ UNCHANGED lock

\* The finally of the loop: SELECT pg_advisory_unlock, and whatever that
\* raises is suppressed; then the connection is given back.
Leave(w, j) ==
  /\ lock' = IF w \notin dead /\ lock[j] = w THEN [lock EXCEPT ![j] = None] ELSE lock
  /\ GiveBack(w)

\* The loop ends because it was told to stop.
WorkStops(w, j) ==
  /\ At(w, j, "lead") /\ j \in stop[w]
  /\ Leave(w, j)
  /\ GoTo(w, j, "done")
  /\ UNCHANGED <<up, stop, disruptions>>

\* The loop raises.
WorkFails(w, j) ==
  /\ At(w, j, "lead")
  /\ Disrupt
  /\ Leave(w, j)
  /\ GoTo(w, j, "backoff")
  /\ UNCHANGED <<up, stop>>

\* CancelledError, or the stop event found set: break.
Cancelled(w, j) ==
  /\ w \in up /\ j \in stop[w]
  /\ pc[w][j] \in {"connect", "ask", "sleep", "backoff"}
  /\ IF conn[w] = j THEN GiveBack(w) ELSE UNCHANGED <<conn, dead>>
  /\ GoTo(w, j, "done")
  /\ UNCHANGED <<up, stop, lock, disruptions>>

-----------------------------------------------------------------------------
Advance(w, j) ==
  \/ TryLock(w, j) \/ AskFails(w, j) \/ Wake(w, j) \/ Retry(w, j)
  \/ WorkStops(w, j) \/ Cancelled(w, j) \/ PoolTimeout(w, j)

Task(w, j) ==
  \/ Connect(w, j) \/ Advance(w, j)
  \/ ConnectFails(w, j) \/ WorkFails(w, j)
  \/ StopTask(w, j)

Next ==
  \E w \in Workers :
    \/ Start(w) \/ Exit(w) \/ Crash(w) \/ LoseSession(w)
    \/ \E j \in Jobs : Task(w, j)

Spec == Init /\ [][Next]_vars

\* The event loop runs a task that can run, and a shutdown that has begun goes
\* through all tasks.  The pool serves its waiters in turn, so a task that keeps
\* waiting while the connection is freed again and again gets it.
FairSpec ==
  /\ Spec
  /\ \A w \in Workers, j \in Jobs :
       /\ WF_vars(Advance(w, j))
       /\ WF_vars(stop[w] # {} /\ StopTask(w, j))
       /\ SF_vars(Connect(w, j))

-----------------------------------------------------------------------------
(* Properties.                                                              *)

Led(j)     == \E w \in Workers : Leads(w, j)
Able(w, j) == w \in up /\ j \notin stop[w]

\* "Only one worker/replica performs the work", as long as the connection it
\* was elected on lives: a process that runs a scheduler's loop then has the
\* scheduler's lock.
LeadersHoldTheLock ==
  \A w \in Workers, j \in Jobs : Leads(w, j) /\ w \notin dead => lock[j] = w

\* No way out of the loop, by stop, error, crash or lost connection, leaves
\* the lock behind where nobody could be elected.
LocksGivenBack ==
  \A w \in Workers, j \in Jobs : lock[j] = w => Leads(w, j)

\* A scheduler that nobody runs is only kept waiting by the leaders of other
\* schedulers: a process whose one connection no leader keeps gets to run it.
OnlyLeadersKeepOthersWaiting ==
  \A j \in Jobs :
    []<>(Led(j) \/ \A w \in Workers : Able(w, j) => \E i \in Jobs : Leads(w, i))

\* "Add a leader-locked scheduler to auto-cancel expired pending_payment
\* orders": while some process is there to run it, a scheduler is run.
EverySchedulerRuns ==
  \A j \in Jobs : []<>(Led(j) \/ \A w \in Workers : ~Able(w, j))

=============================================================================
