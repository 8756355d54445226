--------------------------- MODULE PoolGlobalTimer ---------------------------
(***************************************************************************)
(* PoolGlobalTimerThread (curl/http_client_pool.cpp), the one object all   *)
(* pools share: incStart registers a pool and starts the timer thread with *)
(* the first one, decStop unregisters a pool and ends the thread with the  *)
(* last one, the thread visits the registered pools.  The critical         *)
(* sections of m_lock and the operations on the atomics are single steps.  *)
(***************************************************************************)
EXTENDS Naturals, FiniteSets

CONSTANTS
  Pools   \* the pools; each has a thread of its own that starts and stops it

ASSUME TimerAssumption == IsFiniteSet(Pools)

VARIABLES
  m_stop_flag,
  m_count,
  m_runPools,
  flag,       \* per pool: the check flag of its entry
  thread,     \* m_timer_thread: "none", "created" (joinable) or "ended" (joinable)
  pc,         \* per pool: its owner's place in incStart and decStop
  tpc,        \* the timer thread's place
  curChecks,  \* the pools it has still to visit
  broken,     \* a std::thread was assigned to while joinable, or joined without being so
  raced       \* the stop of a last pool has overlapped with a start

vars == <<m_stop_flag, m_count, m_runPools, flag, thread, pc, tpc, curChecks, broken, raced>>
timerVars == <<tpc, curChecks>>

PoolPC == {"new", "inserted", "first", "spawn", "running", "erased", "unflagged",
           "last", "join", "destroyed"}

TypeOK ==
  /\ m_stop_flag \in BOOLEAN
  /\ m_count \in 0 .. Cardinality(Pools)
  /\ m_runPools \subseteq Pools
  /\ flag \in [Pools -> BOOLEAN]
  /\ thread \in {"none", "created", "ended"}
  /\ pc \in [Pools -> PoolPC]
  /\ tpc \in {"sleep", "visit"}
  /\ curChecks \subseteq Pools
  /\ broken \in BOOLEAN /\ raced \in BOOLEAN

Init ==
  /\ m_stop_flag = FALSE /\ m_count = 0 /\ m_runPools = {}
  /\ flag = [p \in Pools |-> FALSE]
  /\ thread = "none"
  /\ pc = [p \in Pools |-> "new"]
  /\ tpc = "sleep" /\ curChecks = {}
  /\ broken = FALSE /\ raced = FALSE

Go(p, from, to) ==
  /\ pc[p] = from
  /\ pc' = [pc EXCEPT ![p] = to]
  /\ raced' = (raced \/ \E q \in Pools : /\ pc'[q] \in {"last", "join"}
                                       /\ \E r \in Pools : pc'[r] \in {"inserted", "first", "spawn"})

-----------------------------------------------------------------------------
\* incStart

Insert(p) ==
  /\ Go(p, "new", "inserted")
  /\ m_runPools' = m_runPools \cup {p}
  /\ flag' = [flag EXCEPT ![p] = FALSE]
  /\ UNCHANGED <<m_stop_flag, m_count, thread, timerVars, broken>>

\* Mutated forms: the count goes up twice; every pool starts a thread.
CountUpTwice(p) ==
  /\ Go(p, "inserted", IF m_count = 0 THEN "first" ELSE "running")
  /\ m_count' = m_count + 2
  /\ UNCHANGED <<m_stop_flag, m_runPools, flag, thread, timerVars, broken>>

CountUpEach(p) ==
  /\ Go(p, "inserted", "first")
  /\ m_count' = m_count + 1
  /\ UNCHANGED <<m_stop_flag, m_runPools, flag, thread, timerVars, broken>>

\* if (++m_count == 1)
CountUp(p) ==
  /\ Go(p, "inserted", IF m_count = 0 THEN "first" ELSE "running")
  /\ m_count' = m_count + 1
  /\ UNCHANGED <<m_stop_flag, m_runPools, flag, thread, timerVars, broken>>

ClearStop(p) ==
  /\ Go(p, "first", "spawn")
  /\ m_stop_flag' = FALSE
  /\ UNCHANGED <<m_count, m_runPools, flag, thread, timerVars, broken>>

\* Assigning to a joinable std::thread ends the program.
Spawn(p) ==
  /\ Go(p, "spawn", "running")
  /\ thread' = "created"
  /\ broken' = (broken \/ thread # "none")
  /\ UNCHANGED <<m_stop_flag, m_count, m_runPools, flag, timerVars>>

-----------------------------------------------------------------------------
\* decStop

EraseEntry(p) ==
  /\ Go(p, "running", "erased")
  /\ m_runPools' = m_runPools \ {p}
  /\ UNCHANGED <<m_stop_flag, m_count, flag, thread, timerVars, broken>>

\* Mutated form: decStop does not wait for the visit to end.
WaitFlagNot(p) ==
  /\ Go(p, "erased", "unflagged")
  /\ UNCHANGED <<m_stop_flag, m_count, m_runPools, flag, thread, timerVars, broken>>

WaitFlag(p) ==
  /\ ~flag[p]
  /\ Go(p, "erased", "unflagged")
  /\ UNCHANGED <<m_stop_flag, m_count, m_runPools, flag, thread, timerVars, broken>>

\* if (--m_count == 0)
CountDown(p) ==
  /\ Go(p, "unflagged", IF m_count = 1 THEN "last" ELSE "destroyed")
  /\ m_count' = m_count - 1
  /\ UNCHANGED <<m_stop_flag, m_runPools, flag, thread, timerVars, broken>>

\* Mutated form: the thread is not told to stop.
SetStopNot(p) ==
  /\ Go(p, "last", "join")
  /\ UNCHANGED <<m_stop_flag, m_count, m_runPools, flag, thread, timerVars, broken>>

SetStop(p) ==
  /\ Go(p, "last", "join")
  /\ m_stop_flag' = TRUE
  /\ UNCHANGED <<m_count, m_runPools, flag, thread, timerVars, broken>>

\* join waits for the thread to end; without a thread it throws.
Join(p) ==
  /\ thread \in {"none", "ended"}
  /\ Go(p, "join", "destroyed")
  /\ thread' = "none"
  /\ broken' = (broken \/ thread = "none")
  /\ UNCHANGED <<m_stop_flag, m_count, m_runPools, flag, timerVars>>

-----------------------------------------------------------------------------
\* doTimer and checkReleaseClient

TimerEnds ==
  /\ thread = "created" /\ tpc = "sleep"
  /\ m_stop_flag
  /\ thread' = "ended"
  /\ UNCHANGED <<m_stop_flag, m_count, m_runPools, flag, pc, timerVars, broken, raced>>

\* Thirty seconds have passed: the entries are copied and flagged.
TimerCollects ==
  /\ thread = "created" /\ tpc = "sleep"
  /\ ~m_stop_flag
  /\ m_runPools # {}
  /\ tpc' = "visit"
  /\ curChecks' = m_runPools
  /\ flag' = [p \in Pools |-> flag[p] \/ p \in m_runPools]
  /\ UNCHANGED <<m_stop_flag, m_count, m_runPools, thread, pc, broken, raced>>

\* One pool's checkReleaseClient, then its flag.
TimerVisits ==
  /\ tpc = "visit"
  /\ \E p \in curChecks :
       /\ curChecks' = curChecks \ {p}
       /\ flag' = [flag EXCEPT ![p] = FALSE]
       /\ tpc' = IF curChecks = {p} THEN "sleep" ELSE "visit"
  /\ UNCHANGED <<m_stop_flag, m_count, m_runPools, thread, pc, broken, raced>>

-----------------------------------------------------------------------------
Starting(p) == CountUp(p) \/ ClearStop(p) \/ Spawn(p)
Stopping(p) == WaitFlag(p) \/ CountDown(p) \/ SetStop(p) \/ Join(p)

Next ==
  \/ \E p \in Pools : Insert(p) \/ Starting(p) \/ EraseEntry(p) \/ Stopping(p)
  \/ TimerEnds \/ TimerCollects \/ TimerVisits

Spec == Init /\ [][Next]_vars

FairSpec ==
  /\ Spec
  /\ \A p \in Pools : WF_vars(Starting(p) \/ Stopping(p))
  /\ WF_vars(TimerEnds) /\ WF_vars(TimerVisits)

-----------------------------------------------------------------------------
\* A pool the timer thread is going to visit still exists: decStop returns, and the
\* pool is destroyed, only after its flag is down (http_client_pool.cpp:75-79,
\* 106-133), also when the pool is erased while the visits are under way.
VisitsLivePools == \A p \in curChecks : pc[p] # "destroyed"

\* Unless a pool starts while the last one stops, the timer thread is started when
\* there is none and is there to be joined, the assertion at line 82 holds, and a
\* running pool has a thread or one that is being started
\* (http_client_pool.cpp:46-52, 80-85).
ThreadInOrder ==
  raced \/ /\ ~broken
           /\ \A p \in Pools : pc[p] = "last" => m_runPools = {}
           /\ \A p \in Pools : pc[p] = "running" =>
                thread = "created" \/ \E q \in Pools : pc[q] \in {"first", "spawn"}

\* Unless a pool starts while the last one stops, decStop returns
\* (http_client_pool.cpp:75-85): the check flag comes down and the thread ends.
DecStopReturns == \A p \in Pools : pc[p] = "erased" ~> pc[p] = "destroyed" \/ raced
=============================================================================
