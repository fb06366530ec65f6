---------------------------- MODULE MCBackground ----------------------------
(***************************************************************************)
(* The work in the background for TLC: LeaderLock, which process runs the  *)
(* schedulers, and MediaJobs, the jobs of the media library.  They share   *)
(* no state, so each behaviour is one of one of them.                      *)
(***************************************************************************)
EXTENDS LeaderLock

CONSTANTS Actors, MaxAttempts, MaxIds, MaxRetries, MaxStops

VARIABLES
  part,         \* the module whose behaviour this is
  redis, enabled, job, ids, act, dropped, overwrote, retries, stops

Media == INSTANCE MediaJobs

ASSUME MediaBounds == Media!MediaAssumption

mediaVars == <<redis, enabled, job, ids, act, dropped, overwrote, retries, stops>>
allVars == <<part, vars, mediaVars>>

In(p) == part = p /\ UNCHANGED part
OnlyElection == In("election") /\ UNCHANGED mediaVars
OnlyMedia    == In("media") /\ UNCHANGED vars

MCInit ==
  /\ part \in {"election", "media"}
  /\ Init /\ Media!Init
  \* A part that is not looked at has one initial state.
  /\ part = "media" \/ (redis /\ enabled)

MCNext ==
  \/ OnlyElection /\ Next
  \/ OnlyMedia /\ Media!Next

\* The fairness of LeaderLock and of MediaJobs.
MCFairness ==
  /\ \A w \in Workers, j \in Jobs :
       /\ WF_allVars(OnlyElection /\ Advance(w, j))
       /\ WF_allVars(OnlyElection /\ stop[w] # {} /\ StopTask(w, j))
       /\ SF_allVars(OnlyElection /\ Connect(w, j))
  /\ \A x \in Actors : SF_allVars(OnlyMedia /\ Media!Work(x))
  /\ WF_allVars(OnlyMedia /\ \E x \in Actors : Media!Take(x))

MCSpec == MCInit /\ [][MCNext]_allVars /\ MCFairness

-----------------------------------------------------------------------------
\* The types of MediaJobs, and that no commit shows a job that is being processed.
MediaTypeOK == Media!TypeOK

\* The properties of MediaJobs, where they are explained.
NotStranded  == Media!NotStranded
EveryJobEnds == Media!EveryJobEnds
=============================================================================
