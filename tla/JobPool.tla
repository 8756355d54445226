------------------------------- MODULE JobPool -------------------------------
(***************************************************************************)
(* What a job_thread (include/ppeureka/sync_list.h) promises its callers,  *)
(* without threads, queue or locks: every job that is submitted is either  *)
(* refused or accepted, an accepted job is run exactly once or discarded   *)
(* by a stop that does not wait, and nothing runs while the pool is        *)
(* stopped.  JobThread implements this specification.                      *)
(***************************************************************************)
CONSTANT Jobs

VARIABLES
  phase,  \* "stopped", "open" (it takes jobs) or "closing" (in stop)
  fate    \* what has become of each job

poolVars == <<phase, fate>>

PoolTypeOK ==
  /\ phase \in {"stopped", "open", "closing"}
  /\ fate \in [Jobs -> {"new", "queued", "refused", "running", "done", "cleared"}]

PoolInit ==
  /\ phase = "stopped"
  /\ fate = [j \in Jobs |-> "new"]

Become(j, from, to) ==
  /\ fate[j] = from
  /\ fate' = [fate EXCEPT ![j] = to]
  /\ UNCHANGED phase

\* A submission may still be accepted while the pool is closing or stopped: it
\* raced with stop and stays queued until the next start.
Accept(j) == Become(j, "new", "queued")
Refuse(j) == phase # "open" /\ Become(j, "new", "refused")
Begin(j)  == phase # "stopped" /\ Become(j, "queued", "running")
Finish(j) == phase # "stopped" /\ Become(j, "running", "done")

Open  == phase = "stopped" /\ phase' = "open" /\ UNCHANGED fate
Close == phase # "closing" /\ phase' = "closing" /\ UNCHANGED fate

Discard ==
  /\ phase = "closing"
  /\ fate' = [j \in Jobs |-> IF fate[j] = "queued" THEN "cleared" ELSE fate[j]]
  /\ UNCHANGED phase

Stopped ==
  /\ phase = "closing"
  /\ \A j \in Jobs : fate[j] # "running"
  /\ phase' = "stopped"
  /\ UNCHANGED fate

PoolNext ==
  \/ Open \/ Close \/ Discard \/ Stopped
  \/ \E j \in Jobs : Accept(j) \/ Refuse(j) \/ Begin(j) \/ Finish(j)

PoolSpec == PoolInit /\ [][PoolNext]_poolVars
=============================================================================
