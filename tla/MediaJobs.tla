----------------------------- MODULE MediaJobs -----------------------------
(***************************************************************************)
(* One background job of the media library (services/media_dam.py), from   *)
(* the request that creates it, through the worker                         *)
(* (workers/media_worker.py) that runs it, to its end: completed, or dead  *)
(* after its attempts are used up.                                         *)
(*                                                                         *)
(* The job is a row; with Redis its id is also pushed to a list the        *)
(* workers pop from, without Redis they look for rows that are queued.     *)
(* Nobody claims a job: sessions that have loaded the same row write it    *)
(* one after the other.  The ORM updates only the columns a session has    *)
(* changed since it loaded them, so the row may become a mixture of what   *)
(* two sessions wrote.                                                     *)
(*                                                                         *)
(* Left out: what a job does to its asset, the clock (a retry may be due   *)
(* at any time), a Redis that loses its list, triage and the log of        *)
(* events.  A slip is a plausible mistake in the definition after it.      *)
(***************************************************************************)
EXTENDS Naturals

CONSTANTS
  Actors,       \* the database sessions at work: workers, sweeps and requests
  MaxAttempts,  \* max_attempts of the job
  MaxIds,       \* bound on the ids of the job in Redis
  MaxRetries,   \* bound on the retries administrators ask for
  MaxStops      \* bound on the sessions that fail or die

\* What is assumed of the constants.
MediaAssumption ==
  /\ MaxAttempts \in Nat \ {0}
  /\ MaxIds \in Nat /\ MaxRetries \in Nat /\ MaxStops \in Nat

VARIABLES
  redis,        \* Redis is configured
  enabled,      \* the retry policy of the job
  job,          \* the row, as committed
  ids,          \* how often the id of the job is in the list of Redis
  act,          \* what each session is at
  dropped,      \* a session died that had taken an id or was to push one (history)
  overwrote,    \* a retry was written over a row that had changed (history)
  retries,
  stops

settings == <<redis, enabled>>
history  == <<dropped, overwrote>>
bounds   == <<retries, stops>>
vars == <<settings, job, ids, act, history, bounds>>

Statuses == {"none", "queued", "processing", "completed", "failed", "dead"}

\* retry: next_retry_at is set.
Row == [status : Statuses, attempt : Nat, retry : BOOLEAN]
NoRow == [status |-> "none", attempt |-> 0, retry |-> FALSE]

\* loaded: goes to run the job.  running: has its row locked.  push: has committed, and
\* goes to push the id and then to do what is next.  sweep, retry: go to queue it again.
Act == [at : {"idle", "push", "load", "loaded", "running", "sweep", "retry"},
        row : Row,      \* as it was loaded
        next : {"idle", "load", "loaded"}]
Idle == [at |-> "idle", row |-> NoRow, next |-> "idle"]

TypeOK ==
  /\ redis \in BOOLEAN /\ enabled \in BOOLEAN
  \* Nobody ever sees a job that is being processed: there is no commit in between.
  /\ job \in Row /\ job.status # "processing"
  /\ ids \in 0..MaxIds /\ (~redis => ids = 0)
  /\ act \in [Actors -> Act]
  /\ dropped \in BOOLEAN /\ overwrote \in BOOLEAN
  /\ retries \in 0..MaxRetries /\ stops \in 0..MaxStops

Init ==
  /\ redis \in BOOLEAN /\ enabled \in BOOLEAN
  /\ job = NoRow
  /\ ids = 0
  /\ act = [x \in Actors |-> Idle]
  /\ dropped = FALSE /\ overwrote = FALSE
  /\ retries = 0 /\ stops = 0

At(x, places) == act[x].at \in places
Do(x, a) == act' = [act EXCEPT ![x] = a]
Doing(at, row, next) == [at |-> at, row |-> row, next |-> next]

Unlocked == \A x \in Actors : act[x].at # "running"

\* What an UPDATE makes of row r, by a session that has loaded it as s and changed it to n.
Updated(r, s, n) == [c \in DOMAIN r |-> IF n[c] = s[c] THEN r[c] ELSE n[c]]

-----------------------------------------------------------------------------
(* A job is created.                                                        *)

Queued == [status |-> "queued", attempt |-> 0, retry |-> FALSE]

\* enqueue_job and the commit after it.  An upload pushes the id and then runs the job
\* itself, from the row it has; other requests push it, and without Redis may have it run
\* in the background; renditions and edits are run at once and not pushed.
Create(x) ==
  /\ job.status = "none" /\ At(x, {"idle"})
  /\ job' = Queued
  /\ \/ \E next \in {"loaded", "idle"} : Do(x, Doing("push", Queued, next))
     \/ ~redis /\ Do(x, Doing("push", Queued, "load"))
     \/ Do(x, Doing("loaded", Queued, "idle"))
  /\ UNCHANGED <<settings, ids, history, bounds>>

\* queue_job, which does nothing without Redis
Push(x) ==
  /\ At(x, {"push"})
  /\ IF redis THEN ids < MaxIds /\ ids' = ids + 1 ELSE UNCHANGED ids
  /\ Do(x, IF act[x].next = "idle" THEN Idle ELSE Doing(act[x].next, act[x].row, "idle"))
  /\ UNCHANGED <<settings, job, history, bounds>>

-----------------------------------------------------------------------------
(* The job is run: process_job_inline.                                      *)

\* _run_media_job_in_background, whatever has become of the job
LoadAgain(x) ==
  /\ At(x, {"load"})
  /\ Do(x, Doing("loaded", job, "idle"))
  /\ UNCHANGED <<settings, job, ids, history, bounds>>

\* The worker takes an id from the list and loads its job, whatever its status.
Pop(x) ==
  /\ redis /\ At(x, {"idle"}) /\ ids > 0
  /\ ids' = ids - 1
  /\ Do(x, Doing("loaded", job, "idle"))
  /\ UNCHANGED <<settings, job, history, bounds>>

\* ... or loads a job that is queued.
Select(x) ==
  /\ ~redis /\ At(x, {"idle"}) /\ job.status = "queued"
  /\ Do(x, Doing("loaded", job, "idle"))
  /\ UNCHANGED <<settings, job, ids, history, bounds>>

\* Slip: the start is committed, for everyone to see.
StartSeen(x) ==
  /\ At(x, {"loaded"}) /\ Unlocked
  /\ job' = Updated(job, act[x].row, [act[x].row EXCEPT !.status = "processing"])
  /\ Do(x, [act[x] EXCEPT !.at = "running"])
  /\ UNCHANGED <<settings, ids, history, bounds>>

\* The first UPDATE waits for the lock of the row, and keeps it until the commit.
Start(x) ==
  /\ At(x, {"loaded"}) /\ Unlocked
  /\ Do(x, [act[x] EXCEPT !.at = "running"])
  /\ UNCHANGED <<settings, job, ids, history, bounds>>

Run(s, status, retry) == [status |-> status, attempt |-> s.attempt + 1, retry |-> retry]

\* Both UPDATEs of the transaction: to the job that is processed, and from that to its end.
Finish(x, status, retry) ==
  LET s == act[x].row
      p == Run(s, "processing", FALSE)
  IN  job' = Updated(Updated(job, s, p), p, Run(s, status, retry))

Succeed(x) ==
  /\ At(x, {"running"})
  /\ Finish(x, "completed", FALSE)
  /\ Do(x, Idle)
  /\ UNCHANGED <<settings, ids, history, bounds>>

\* Slip: the last attempt is retried too, which the sweep does not look for.
FailOffByOne(x) ==
  /\ At(x, {"running"})
  /\ LET again == enabled /\ act[x].row.attempt + 1 <= MaxAttempts
     IN  Finish(x, IF again THEN "failed" ELSE "dead", again)
  /\ Do(x, Idle)
  /\ UNCHANGED <<settings, ids, history, bounds>>

\* _retry_delay_seconds decides whether there is another attempt.
Fail(x) ==
  /\ At(x, {"running"})
  /\ LET again == enabled /\ act[x].row.attempt + 1 < MaxAttempts
     IN  Finish(x, IF again THEN "failed" ELSE "dead", again)
  /\ Do(x, Idle)
  /\ UNCHANGED <<settings, ids, history, bounds>>

-----------------------------------------------------------------------------
(* It is queued again.                                                      *)

\* enqueue_due_retries
LoadDue(x) ==
  /\ At(x, {"idle"})
  /\ job.status = "failed" /\ job.retry /\ job.attempt < MaxAttempts
  /\ Do(x, Doing("sweep", job, "idle"))
  /\ UNCHANGED <<settings, job, ids, history, bounds>>

\* manual_retry_job takes a job of any status, bulk_retry_jobs of some.
LoadRetry(x) ==
  /\ At(x, {"idle"}) /\ job.status # "none"
  /\ retries < MaxRetries /\ retries' = retries + 1
  /\ Do(x, Doing("retry", job, "idle"))
  /\ UNCHANGED <<settings, job, ids, history, stops>>

\* Slip: the id is not pushed again.
RequeueSilently(x) ==
  /\ At(x, {"sweep", "retry"}) /\ Unlocked
  /\ job' = Updated(job, act[x].row, [act[x].row EXCEPT !.status = "queued", !.retry = FALSE])
  /\ overwrote' = (overwrote \/ job # act[x].row)
  /\ Do(x, Idle)
  /\ UNCHANGED <<settings, ids, dropped, bounds>>

\* Both write the same, commit, and push.
Requeue(x) ==
  /\ At(x, {"sweep", "retry"}) /\ Unlocked
  /\ job' = Updated(job, act[x].row, [act[x].row EXCEPT !.status = "queued", !.retry = FALSE])
  /\ overwrote' = (overwrote \/ (At(x, {"retry"}) /\ job # act[x].row))
  /\ Do(x, Doing("push", NoRow, "idle"))
  /\ UNCHANGED <<settings, ids, dropped, bounds>>

-----------------------------------------------------------------------------
\* The session fails or its process dies: what it has not committed is undone, and an
\* id it has taken or was to push is gone.
Stop(x) ==
  /\ stops < MaxStops /\ stops' = stops + 1
  /\ ~At(x, {"idle"})
  /\ Do(x, Idle)
  /\ dropped' = (dropped \/ (redis /\ At(x, {"push", "loaded", "running"})))
  /\ UNCHANGED <<settings, job, ids, overwrote, retries>>

Work(x) == Push(x) \/ LoadAgain(x) \/ Start(x) \/ Succeed(x) \/ Fail(x) \/ Requeue(x)
Take(x) == Pop(x) \/ Select(x) \/ LoadDue(x)

Next == \E x \in Actors : Create(x) \/ Work(x) \/ Take(x) \/ LoadRetry(x) \/ Stop(x)

\* A session goes on, and the row lock is given in turn; a worker looks for jobs and
\* for retries that are due.
Fairness ==
  /\ \A x \in Actors : SF_vars(Work(x))
  /\ WF_vars(\E x \in Actors : Take(x))

Spec == Init /\ [][Next]_vars

FairSpec == Spec /\ Fairness

-----------------------------------------------------------------------------
(* Properties.                                                              *)

\* A job that is not at its end is going to be run again: a queued one is in the list
\* of Redis, or with a session, unless one died with it; a failed one will be found by
\* the sweep, unless an administrator's retry was written over another write.
NotStranded ==
  /\ job.status = "queued" /\ redis =>
       \/ ids > 0 \/ dropped
       \/ \E x \in Actors : At(x, {"push", "loaded", "running"})
  /\ job.status = "failed" =>
       enabled /\ job.attempt < MaxAttempts /\ (job.retry \/ overwrote)

\* "retries with exponential backoff and dead-letter": every job ends for good, although
\* it may be swept, retried and run by several sessions at once, some with an old row.
EveryJobEnds ==
  job.status # "none" ~>
    dropped \/ overwrote \/ [](job.status \in {"completed", "dead"})

=============================================================================
