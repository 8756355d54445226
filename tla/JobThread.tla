------------------------------ MODULE JobThread ------------------------------
(***************************************************************************)
(* job_thread and the sync_list it runs on (include/ppeureka/sync_list.h). *)
(*                                                                         *)
(* One owner thread calls start, add_thread and stop ("ensure              *)
(* start/add_thread/stop in one thread call"); any thread may emplace a    *)
(* job; the workers run the loop of job_thread::run.  Every read or write  *)
(* of an atomic flag and every critical section of m_lock is one step.     *)
(*                                                                         *)
(* m_wait has no variable: pop_back always waits, with wait_for and no     *)
(* predicate, so a worker may wake up at any time (notified, timed out or  *)
(* spuriously) and finds out by looking at the queue.                      *)
(***************************************************************************)
EXTENDS Naturals, Sequences, FiniteSets

CONSTANTS
  Jobs,      \* job objects; each is emplaced at most once
  Workers,   \* the threads start and add_thread may create
  NoJob,     \* the empty job_object
  MaxStarts  \* bound: how often the owner calls start

ASSUME JobThreadAssumption == NoJob \notin Jobs /\ MaxStarts \in Nat

VARIABLES
  m_stop_flag,       \* "NO_STOP", "STOP_WAIT" or "STOP_NO_WAIT"
  m_enable_emplace,
  m_enable_pop,
  m_data,            \* the queue, front first
  status,            \* progress of each job, from its emplace call to its end
  wpc, job,          \* each worker's place in run() and its local job
  opc, starts        \* the owner's place in start/stop; how often it started

vars == <<m_stop_flag, m_enable_emplace, m_enable_pop, m_data, status, wpc, job,
          opc, starts>>

flagVars == <<m_stop_flag, m_enable_emplace, m_enable_pop>>

\* "none" is a thread that does not exist: not yet created, or already joined.
WorkerPC == {"none", "top", "wait", "run", "ran", "failed", "exit"}
OwnerPC == {"idle", "running", "flagged", "closed", "nowait", "nopop", "join"}
Status == {"new", "checked", "queued", "refused", "running", "done", "cleared"}

TypeOK ==
  /\ m_stop_flag \in {"NO_STOP", "STOP_WAIT", "STOP_NO_WAIT"}
  /\ m_enable_emplace \in BOOLEAN
  /\ m_enable_pop \in BOOLEAN
  /\ m_data \in Seq(Jobs)
  /\ status \in [Jobs -> Status]
  /\ wpc \in [Workers -> WorkerPC]
  /\ job \in [Workers -> Jobs \cup {NoJob}]
  /\ opc \in OwnerPC
  /\ starts \in Nat

Init ==
  /\ m_stop_flag = "NO_STOP"
  /\ m_enable_emplace = TRUE
  /\ m_enable_pop = TRUE
  /\ m_data = <<>>
  /\ status = [j \in Jobs |-> "new"]
  /\ wpc = [w \in Workers |-> "none"]
  /\ job = [w \in Workers |-> NoJob]
  /\ opc = "idle"
  /\ starts = 0

-----------------------------------------------------------------------------
\* emplace_front and emplace_back.  m_enable_emplace is read before the lock is
\* taken, so the insertion may come after stop has closed the queue.

EmplaceCheck(j) ==
  /\ status[j] = "new"
  /\ status' = [status EXCEPT ![j] = IF m_enable_emplace THEN "checked" ELSE "refused"]
  /\ UNCHANGED <<flagVars, m_data, wpc, job, opc, starts>>

\* Mutated form: what is inserted is the object the job was moved from.
EmplaceInsertMoved(j) ==
  /\ status[j] = "checked"
  /\ m_data' = Append(m_data, NoJob)
  /\ status' = [status EXCEPT ![j] = "queued"]
  /\ UNCHANGED <<flagVars, wpc, job, opc, starts>>

EmplaceInsert(j) ==
  /\ status[j] = "checked"
  /\ \/ m_data' = <<j>> \o m_data     \* emplace_front
     \/ m_data' = Append(m_data, j)   \* emplace_back
  /\ status' = [status EXCEPT ![j] = "queued"]
  /\ UNCHANGED <<flagVars, wpc, job, opc, starts>>

-----------------------------------------------------------------------------
\* run() and pop_back, by worker w.

Step(w, from, to) == wpc[w] = from /\ wpc' = [wpc EXCEPT ![w] = to]

\* The first check of m_enable_pop, without the lock.
PopEnter(w) ==
  /\ Step(w, "top", IF m_enable_pop THEN "wait" ELSE "failed")
  /\ UNCHANGED <<flagVars, m_data, status, job, opc, starts>>

\* Mutated form: the popped job stays in the queue.
PopJobKept(w) ==
  /\ Step(w, "wait", "run")
  /\ m_enable_pop
  /\ m_data # <<>>
  /\ job' = [job EXCEPT ![w] = m_data[Len(m_data)]]
  /\ status' = [status EXCEPT ![m_data[Len(m_data)]] = "running"]
  /\ UNCHANGED <<flagVars, m_data, opc, starts>>

\* wait_for has returned and the worker holds the lock again.
PopJob(w) ==
  /\ Step(w, "wait", "run")
  /\ m_enable_pop
  /\ m_data # <<>>
  /\ job' = [job EXCEPT ![w] = m_data[Len(m_data)]]
  /\ status' = [status EXCEPT ![m_data[Len(m_data)]] = "running"]
  /\ m_data' = SubSeq(m_data, 1, Len(m_data) - 1)
  /\ UNCHANGED <<flagVars, opc, starts>>

PopNothing(w) ==
  /\ Step(w, "wait", "failed")
  /\ ~m_enable_pop \/ m_data = <<>>
  /\ UNCHANGED <<flagVars, m_data, status, job, opc, starts>>

\* job() returns and its object is destroyed.
JobReturns(w) ==
  /\ Step(w, "run", "ran")
  /\ status' = [status EXCEPT ![job[w]] = "done"]
  /\ job' = [job EXCEPT ![w] = NoJob]
  /\ UNCHANGED <<flagVars, m_data, opc, starts>>

AfterJob(w) ==
  /\ Step(w, "ran", IF m_stop_flag = "STOP_NO_WAIT" THEN "exit" ELSE "top")
  /\ UNCHANGED <<flagVars, m_data, status, job, opc, starts>>

\* Mutated form: the loop ends on an empty queue whether or not stop was called.
AfterFailedPopExits(w) ==
  /\ Step(w, "failed", "exit")
  /\ UNCHANGED <<flagVars, m_data, status, job, opc, starts>>

\* Mutated form: only a stop that does not wait ends the loop.
AfterFailedPopGoesOn(w) ==
  /\ Step(w, "failed", IF m_stop_flag = "STOP_NO_WAIT" THEN "exit" ELSE "top")
  /\ UNCHANGED <<flagVars, m_data, status, job, opc, starts>>

AfterFailedPop(w) ==
  /\ Step(w, "failed", IF m_stop_flag # "NO_STOP" THEN "exit" ELSE "top")
  /\ UNCHANGED <<flagVars, m_data, status, job, opc, starts>>

-----------------------------------------------------------------------------
\* start, add_thread and stop, by the owner.

\* start: the flags, then the first thread of add_thread.
Start(w) ==
  /\ opc = "idle"
  /\ starts < MaxStarts
  /\ opc' = "running"
  /\ starts' = starts + 1
  /\ m_stop_flag' = "NO_STOP"
  /\ m_enable_emplace' = TRUE
  /\ m_enable_pop' = TRUE
  /\ Step(w, "none", "top")
  /\ UNCHANGED <<m_data, status, job>>

\* One more turn of the loop in add_thread, called by start or on its own.
AddThread(w) ==
  /\ opc = "running"
  /\ Step(w, "none", "top")
  /\ UNCHANGED <<flagVars, m_data, status, job, opc, starts>>

\* stop: the stores in program order, each visible to the others at once.  It may
\* also be called on a pool that is not running.
StopFlag ==
  /\ opc \in {"idle", "running"}
  /\ opc' = "flagged"
  /\ m_stop_flag' = "STOP_WAIT"
  /\ UNCHANGED <<m_enable_emplace, m_enable_pop, m_data, status, wpc, job, starts>>

StopCloses ==
  /\ opc = "flagged"
  /\ opc' = "closed"
  /\ m_enable_emplace' = FALSE
  /\ UNCHANGED <<m_stop_flag, m_enable_pop, m_data, status, wpc, job, starts>>

\* wait_all_job: straight to the joins.
StopWaits ==
  /\ opc = "closed"
  /\ opc' = "join"
  /\ UNCHANGED <<flagVars, m_data, status, wpc, job, starts>>

StopNoWait ==
  /\ opc = "closed"
  /\ opc' = "nowait"
  /\ m_stop_flag' = "STOP_NO_WAIT"
  /\ UNCHANGED <<m_enable_emplace, m_enable_pop, m_data, status, wpc, job, starts>>

\* Mutated form: stop(false) forgets to disable popping.
StopDisablesPopNot ==
  /\ opc = "nowait"
  /\ opc' = "nopop"
  /\ UNCHANGED <<flagVars, m_data, status, wpc, job, starts>>

StopDisablesPop ==
  /\ opc = "nowait"
  /\ opc' = "nopop"
  /\ m_enable_pop' = FALSE
  /\ UNCHANGED <<m_stop_flag, m_enable_emplace, m_data, status, wpc, job, starts>>

StopClears ==
  /\ opc = "nopop"
  /\ opc' = "join"
  /\ m_data' = <<>>
  /\ status' = [j \in Jobs |-> IF status[j] = "queued" THEN "cleared" ELSE status[j]]
  /\ UNCHANGED <<flagVars, wpc, job, starts>>

\* Mutated form: stop returns without joining the threads.
StopDetaches ==
  /\ opc = "join"
  /\ opc' = "idle"
  /\ UNCHANGED <<flagVars, m_data, status, wpc, job, starts>>

\* Every thread of m_threads is joined, m_threads is cleared, stop returns.
StopJoined ==
  /\ opc = "join"
  /\ \A w \in Workers : wpc[w] \in {"none", "exit"}
  /\ opc' = "idle"
  /\ wpc' = [w \in Workers |-> "none"]
  /\ UNCHANGED <<flagVars, m_data, status, job, starts>>

-----------------------------------------------------------------------------
Emplace(j) == EmplaceCheck(j) \/ EmplaceInsert(j)

Worker(w) ==
  \/ PopEnter(w) \/ PopJob(w) \/ PopNothing(w)
  \/ JobReturns(w) \/ AfterJob(w) \/ AfterFailedPop(w)

Stopping ==
  \/ StopCloses \/ StopWaits \/ StopNoWait \/ StopDisablesPop \/ StopClears
  \/ StopJoined

Next ==
  \/ \E j \in Jobs : Emplace(j)
  \/ \E w \in Workers : Worker(w) \/ Start(w) \/ AddThread(w)
  \/ StopFlag
  \/ Stopping

Spec == Init /\ [][Next]_vars

\* Threads are scheduled, every wait_for has a time-out, every job returns and a
\* stop that has begun goes on.  Nobody is obliged to start, stop or emplace.
FairSpec ==
  /\ Spec
  /\ \A w \in Workers : WF_vars(Worker(w))
  /\ \A j \in Jobs : WF_vars(EmplaceInsert(j))
  /\ WF_vars(Stopping)

-----------------------------------------------------------------------------
\* Each job is in one place at a time: a queued job is in m_data exactly once and
\* a running job belongs to exactly one worker, whatever pushes, pops, clears and
\* restarts interleave (sync_list.h:78-126, 177-190).
Queued(j) == \E i \in DOMAIN m_data : m_data[i] = j

OneWorker(j) ==
  \E w \in Workers : job[w] = j /\ \A v \in Workers \ {w} : job[v] # j

JobsInOnePlace ==
  /\ \A i, k \in DOMAIN m_data : m_data[i] = m_data[k] => i = k
  /\ \A j \in Jobs : status[j] = "queued" <=> Queued(j)
  /\ \A j \in Jobs : IF status[j] = "running" THEN OneWorker(j)
                                              ELSE \A w \in Workers : job[w] # j

\* When stop has returned no thread of the pool is left, so no job is running
\* (the joins of sync_list.h:186-189).
StoppedIsQuiet ==
  opc = "idle" => /\ \A w \in Workers : wpc[w] = "none"
                  /\ \A j \in Jobs : status[j] # "running"

\* Once stop(false) has cleared the queue no job begins until the next start,
\* although an emplace that passed its check earlier may still add one
\* (sync_list.h:180-184).
NoJobAfterClear ==
  [][m_stop_flag = "STOP_NO_WAIT" /\ opc \in {"join", "idle"}
       => \A j \in Jobs : status'[j] = "running" => status[j] = "running"]_vars

\* stop returns (sync_list.h:177-190): the workers drain or abandon the queue
\* and exit, whatever they were doing when the flags changed.
StopReturns == opc = "flagged" ~> opc = "idle"

\* A job that is in the queue while the pool is running does run, unless stop is
\* called first; the wake-up it was notified with may have gone to nobody
\* (sync_list.h:94, 103, 118).  Each job is emplaced once here: jobs that go on coming
\* in can keep an old one waiting for ever, since the last is popped first (line 124;
\* see KeepsUp in RegHeart).
AcceptedJobRuns ==
  \A j \in Jobs : status[j] = "queued" ~> status[j] = "done" \/ opc # "running"

-----------------------------------------------------------------------------
\* The refinement mapping to JobPool.
poolPhase ==
  CASE opc = "idle" -> "stopped"
    [] opc = "running" \/ (opc = "flagged" /\ m_enable_emplace) -> "open"
    [] OTHER -> "closing"

jobFate == [j \in Jobs |-> IF status[j] = "checked" THEN "new" ELSE status[j]]

Pool == INSTANCE JobPool WITH phase <- poolPhase, fate <- jobFate

\* Every behaviour of the threads and the queue is one the abstract pool allows.
ImplementsPool == Pool!PoolSpec
=============================================================================
