------------------------ MODULE PoolGlobalTimerProofs ------------------------
(***************************************************************************)
(* For any number of pools that come and go in any order: no pool is       *)
(* destroyed while the common timer thread is going to visit it, m_count   *)
(* counts them, and unless a pool starts while the last one stops there is *)
(* a thread when one is needed and none when one is started.               *)
(***************************************************************************)
EXTENDS PoolGlobalTimer, FiniteSetTheorems, TLAPS

-----------------------------------------------------------------------------
\* The inductive invariant

\* Only the types the argument needs; the count plays no part in it.
Types ==
  /\ m_runPools \subseteq Pools /\ curChecks \subseteq Pools
  /\ flag \in [Pools -> BOOLEAN]
  /\ pc \in [Pools -> PoolPC]

\* Between incStart's insertion and decStop's erasure, and at no other place, a pool
\* is registered.
Registered ==
  \A p \in Pools : p \in m_runPools <=> pc[p] \in {"inserted", "first", "spawn", "running"}

\* A pool that is to be visited has its flag up and is at most erased.
Flagged ==
  \A p \in curChecks :
    flag[p] /\ pc[p] \in {"inserted", "first", "spawn", "running", "erased"}

\* Asleep, the thread has nothing left to visit.
Asleep == tpc = "sleep" => curChecks = {}

IInv == Types /\ Registered /\ Flagged /\ Asleep

-----------------------------------------------------------------------------
\* Before any pool has started nothing is registered or to be visited.
LEMMA IInvInit == Init => IInv
BY DEF Init, IInv, Types, Registered, Flagged, Asleep, PoolPC

\* Every step of incStart, decStop and the timer thread keeps the invariant: decStop
\* passes WaitFlag only for a pool that is not to be visited any more.
LEMMA IInvStep == IInv /\ [Next]_vars => IInv'
<1> SUFFICES ASSUME IInv, [Next]_vars PROVE IInv'
  OBVIOUS
<1> USE DEF IInv, Types, Registered, Flagged, Asleep, PoolPC
<1>1. ASSUME NEW p \in Pools, Insert(p) PROVE IInv'
  BY <1>1 DEF Insert, Go, timerVars
<1>2. ASSUME NEW p \in Pools, CountUp(p) PROVE IInv'
  BY <1>2 DEF CountUp, Go, timerVars
<1>3. ASSUME NEW p \in Pools, ClearStop(p) PROVE IInv'
  BY <1>3 DEF ClearStop, Go, timerVars
<1>4. ASSUME NEW p \in Pools, Spawn(p) PROVE IInv'
  BY <1>4 DEF Spawn, Go, timerVars
<1>5. ASSUME NEW p \in Pools, EraseEntry(p) PROVE IInv'
  BY <1>5 DEF EraseEntry, Go, timerVars
<1>6. ASSUME NEW p \in Pools, WaitFlag(p) PROVE IInv'
  <2>1. p \notin curChecks
    BY <1>6 DEF WaitFlag
  <2> QED
    BY <1>6, <2>1 DEF WaitFlag, Go, timerVars
<1>7. ASSUME NEW p \in Pools, CountDown(p) PROVE IInv'
  BY <1>7 DEF CountDown, Go, timerVars
<1>8. ASSUME NEW p \in Pools, SetStop(p) PROVE IInv'
  BY <1>8 DEF SetStop, Go, timerVars
<1>9. ASSUME NEW p \in Pools, Join(p) PROVE IInv'
  BY <1>9 DEF Join, Go, timerVars
<1>10. CASE TimerEnds
  BY <1>10 DEF TimerEnds, timerVars
<1>11. CASE TimerCollects
  BY <1>11 DEF TimerCollects
<1>12. CASE TimerVisits
  BY <1>12 DEF TimerVisits
<1>13. CASE UNCHANGED vars
  BY <1>13 DEF vars
<1> QED
  BY <1>1, <1>2, <1>3, <1>4, <1>5, <1>6, <1>7, <1>8, <1>9, <1>10, <1>11, <1>12, <1>13
     DEF Next, Starting, Stopping

\* The invariant holds in every reachable state.
THEOREM IInvHolds == Spec => []IInv
BY IInvInit, IInvStep, PTL DEF Spec

-----------------------------------------------------------------------------
\* No pool is destroyed while the timer thread holds a pointer to it that it is going
\* to use: decStop returns only once the pool's check flag is down, whatever other
\* pools start and stop meanwhile (http_client_pool.cpp:75-79, 106-133).
THEOREM VisitsLive == Spec => []VisitsLivePools
<1>1. IInv => VisitsLivePools
  BY DEF IInv, Flagged, VisitsLivePools
<1> QED
  BY <1>1, IInvHolds, PTL

-----------------------------------------------------------------------------
\* The count

\* m_count counts the pools between ++m_count and --m_count.
Counted == {p \in Pools : pc[p] \in {"first", "spawn", "running", "erased", "unflagged"}}

CountKept == Types /\ m_count = Cardinality(Counted)

\* What the two comparisons of m_count find out.
LEMMA CountTells ==
  ASSUME CountKept
  PROVE  /\ IsFiniteSet(Counted) /\ m_count \in 0 .. Cardinality(Pools)
         /\ m_count = 0 => Counted = {}
         /\ \A p \in Counted : m_count = 1 => Counted = {p}
<1>1. Counted \subseteq Pools
  BY DEF Counted
<1>2. /\ IsFiniteSet(Counted) /\ Cardinality(Counted) \in Nat /\ Cardinality(Pools) \in Nat
      /\ Cardinality(Counted) <= Cardinality(Pools)
  BY <1>1, TimerAssumption, FS_Subset, FS_CardinalityType
<1>3. m_count = 0 => Counted = {}
  BY <1>2, FS_EmptySet DEF CountKept
<1>4. ASSUME NEW p \in Counted, m_count = 1 PROVE Counted = {p}
  <2>1. IsFiniteSet(Counted \ {p}) /\ Cardinality(Counted \ {p}) = Cardinality(Counted) - 1
    BY <1>2, FS_RemoveElement
  <2>2. Counted \ {p} = {}
    BY <1>4, <2>1, FS_EmptySet DEF CountKept
  <2> QED
    BY <2>2
<1> QED
  BY <1>2, <1>3, <1>4 DEF CountKept

\* At the start no pool is counted.
LEMMA CountInit == Init => CountKept
<1> SUFFICES ASSUME Init PROVE CountKept
  OBVIOUS
<1>1. Counted = {} /\ Types
  BY DEF Init, Counted, Types, PoolPC
<1> QED
  BY <1>1, FS_EmptySet DEF Init, CountKept

\* A step that moves a pool into the counted places or out of them counts it.
LEMMA CountStep == IInv /\ CountKept /\ [Next]_vars => CountKept'
<1> SUFFICES ASSUME IInv, CountKept, [Next]_vars PROVE CountKept'
  OBVIOUS
<1>0. Types /\ Types' /\ IsFiniteSet(Counted) /\ m_count = Cardinality(Counted)
  BY IInvStep, CountTells DEF IInv, CountKept
<1>1. ASSUME Counted' = Counted, m_count' = m_count PROVE CountKept'
  BY <1>0, <1>1 DEF CountKept
<1>2. ASSUME NEW p \in Pools, CountUp(p) PROVE CountKept'
  <2>1. p \notin Counted /\ Counted' = Counted \cup {p} /\ m_count' = m_count + 1
    BY <1>0, <1>2 DEF CountUp, Go, Counted, Types
  <2>2. Cardinality(Counted \cup {p}) = Cardinality(Counted) + 1
    BY <1>0, <2>1, FS_AddElement
  <2> QED
    BY <1>0, <2>1, <2>2 DEF CountKept
<1>3. ASSUME NEW p \in Pools, CountDown(p) PROVE CountKept'
  <2>1. p \in Counted /\ Counted' = Counted \ {p} /\ m_count' = m_count - 1
    BY <1>0, <1>3 DEF CountDown, Go, Counted, Types
  <2>2. Cardinality(Counted \ {p}) = Cardinality(Counted) - 1
    BY <1>0, <2>1, FS_RemoveElement
  <2> QED
    BY <1>0, <2>1, <2>2 DEF CountKept
<1>4. ASSUME NEW p \in Pools,
             \/ Insert(p) \/ ClearStop(p) \/ Spawn(p) \/ EraseEntry(p) \/ WaitFlag(p)
             \/ SetStop(p) \/ Join(p)
      PROVE  CountKept'
  <2>1. m_count' = m_count
    BY <1>4 DEF Insert, ClearStop, Spawn, EraseEntry, WaitFlag, SetStop, Join
  <2>2. /\ \A q \in Pools \ {p} : pc'[q] = pc[q]
        /\ p \in Counted <=> p \in Counted'
    BY <1>0, <1>4 DEF Insert, ClearStop, Spawn, EraseEntry, WaitFlag, SetStop, Join, Go,
       Types, Counted
  <2> QED
    BY <1>1, <2>1, <2>2 DEF Counted
<1>5. CASE UNCHANGED vars \/ TimerEnds \/ TimerCollects \/ TimerVisits
  BY <1>1, <1>5 DEF vars, TimerEnds, TimerCollects, TimerVisits, Counted
<1> QED
  BY <1>2, <1>3, <1>4, <1>5 DEF Next, Starting, Stopping

\* m_count is the number of counted pools in every reachable state.
LEMMA CountHolds == Spec => []CountKept
BY CountInit, CountStep, IInvHolds, PTL DEF Spec

\* The rest of the types.
PlaceTypes ==
  /\ m_stop_flag \in BOOLEAN
  /\ thread \in {"none", "created", "ended"}
  /\ tpc \in {"sleep", "visit"}
  /\ broken \in BOOLEAN /\ raced \in BOOLEAN

\* Every reachable state has its type; m_count never falls below zero or rises above the
\* number of the pools, whatever starts and stops overlap.
THEOREM PoolGlobalTimerTypeCorrect == Spec => []TypeOK
<1>1. Init => PlaceTypes
  BY DEF Init, PlaceTypes
<1>2. PlaceTypes /\ [Next]_vars => PlaceTypes'
  BY DEF PlaceTypes, vars, Next, Starting, Stopping, Insert, CountUp, ClearStop, Spawn,
     EraseEntry, WaitFlag, CountDown, SetStop, Join, TimerEnds, TimerCollects, TimerVisits,
     Go, timerVars
<1>3. CountKept /\ PlaceTypes => TypeOK
  BY CountTells DEF CountKept, PlaceTypes, TypeOK, Types
<1> QED
  BY <1>1, <1>2, <1>3, CountHolds, PTL DEF Spec

-----------------------------------------------------------------------------
\* The thread

Launching(p) == pc[p] \in {"first", "spawn"}
Ending(p) == pc[p] \in {"last", "join"}

\* While no start has overlapped with the stop of a last pool: one pool at most starts
\* the thread, one that ends it is alone, and in between there is a thread that has not
\* been told to stop.
ThreadKept ==
  raced \/
    /\ ~broken
    /\ \A p, q \in Pools : Ending(p) /\ q # p => pc[q] \in {"new", "destroyed"}
    /\ \A p, q \in Pools : Launching(p) /\ Launching(q) => p = q
    /\ \A p \in Pools : Launching(p) => thread = "none"
    /\ \A p \in Pools : pc[p] = "spawn" => ~m_stop_flag
    /\ \A p \in Pools :
         pc[p] \in {"running", "erased", "unflagged", "last"} /\ (\A q \in Pools : ~Launching(q))
           => thread = "created" /\ ~m_stop_flag
    /\ \A p \in Pools : pc[p] = "join" => thread \in {"created", "ended"}
    /\ (\A p \in Pools : p \notin Counted /\ ~Ending(p)) => thread = "none"

\* A step of incStart or decStop that goes on unraced leaves a start and the stop of a last
\* pool apart.
LEMMA GoApart ==
  ASSUME Types, NEW p \in Pools, NEW from, NEW to, Go(p, from, to), ~raced'
  PROVE  /\ ~raced /\ pc[p] = from /\ pc'[p] = to /\ \A q \in Pools \ {p} : pc'[q] = pc[q]
         /\ \A q, r \in Pools : pc'[q] \in {"last", "join"} => pc'[r] \notin {"inserted", "first", "spawn"}
BY DEF Go, Types

\* The thread stays in order.
LEMMA ThreadStep ==
  ASSUME CountKept, ThreadKept, [Next]_vars
  PROVE  ThreadKept'
<1> SUFFICES ASSUME ~raced' PROVE ThreadKept'
  BY DEF ThreadKept
<1>0. Types
  BY DEF CountKept
<1> USE DEF Launching, Ending, Counted
<1>1. ASSUME NEW p \in Pools, Insert(p) PROVE ThreadKept'
  <2>1. /\ ~raced /\ pc[p] = "new" /\ pc'[p] = "inserted" /\ \A q \in Pools \ {p} : pc'[q] = pc[q]
        /\ \A q \in Pools : pc'[q] \notin {"last", "join"}
    BY <1>0, <1>1, GoApart DEF Insert
  <2>2. UNCHANGED <<broken, thread, m_stop_flag>>
    BY <1>1 DEF Insert
  <2> QED
    BY <2>1, <2>2 DEF ThreadKept
<1>2. ASSUME NEW p \in Pools, CountUp(p) PROVE ThreadKept'
  <2>1. UNCHANGED <<broken, thread, m_stop_flag>>
    BY <1>2 DEF CountUp
  <2>2. CASE m_count = 0
    <3>1. /\ ~raced /\ pc[p] = "inserted" /\ pc'[p] = "first" /\ \A q \in Pools \ {p} : pc'[q] = pc[q]
          /\ \A q \in Pools : pc'[q] \notin {"last", "join"}
      BY <1>0, <1>2, <2>2, GoApart DEF CountUp
    <3>2. Counted = {}
      BY <2>2, CountTells
    <3>3. \A q \in Pools : ~Ending(q)
      BY <3>1
    <3> QED
      BY <2>1, <3>1, <3>2, <3>3 DEF ThreadKept
  <2>3. CASE m_count # 0
    <3>1. /\ ~raced /\ pc[p] = "inserted" /\ pc'[p] = "running" /\ \A q \in Pools \ {p} : pc'[q] = pc[q]
      BY <1>0, <1>2, <2>3, GoApart DEF CountUp
    <3>2. PICK q \in Pools : q \in Counted
      BY <2>3, FS_EmptySet DEF CountKept
    <3> QED
      BY <2>1, <3>1, <3>2 DEF ThreadKept
  <2> QED
    BY <2>2, <2>3
<1>3. ASSUME NEW p \in Pools, ClearStop(p) PROVE ThreadKept'
  <2>1. /\ ~raced /\ pc[p] = "first" /\ pc'[p] = "spawn" /\ \A q \in Pools \ {p} : pc'[q] = pc[q]
    BY <1>0, <1>3, GoApart DEF ClearStop
  <2>2. UNCHANGED <<broken, thread>> /\ m_stop_flag' = FALSE
    BY <1>3 DEF ClearStop
  <2> QED
    BY <2>1, <2>2 DEF ThreadKept
<1>4. ASSUME NEW p \in Pools, Spawn(p) PROVE ThreadKept'
  <2>1. /\ ~raced /\ pc[p] = "spawn" /\ pc'[p] = "running" /\ \A q \in Pools \ {p} : pc'[q] = pc[q]
    BY <1>0, <1>4, GoApart DEF Spawn
  <2>2. thread = "none" /\ ~m_stop_flag /\ ~broken
    BY <2>1 DEF ThreadKept
  <2>3. thread' = "created" /\ ~broken' /\ m_stop_flag' = m_stop_flag
    BY <1>4, <2>2 DEF Spawn
  <2> QED
    BY <2>1, <2>2, <2>3 DEF ThreadKept
<1>5. ASSUME NEW p \in Pools, EraseEntry(p) \/ WaitFlag(p) PROVE ThreadKept'
  <2>1. /\ ~raced /\ pc[p] \in {"running", "erased"} /\ pc'[p] \in {"erased", "unflagged"}
        /\ \A q \in Pools \ {p} : pc'[q] = pc[q]
    BY <1>0, <1>5, GoApart DEF EraseEntry, WaitFlag
  <2>2. UNCHANGED <<broken, thread, m_stop_flag>>
    BY <1>5 DEF EraseEntry, WaitFlag
  <2> QED
    BY <2>1, <2>2 DEF ThreadKept
<1>6. ASSUME NEW p \in Pools, CountDown(p) PROVE ThreadKept'
  <2>1. UNCHANGED <<broken, thread, m_stop_flag>>
    BY <1>6 DEF CountDown
  <2>2. CASE m_count = 1
    <3>1. /\ ~raced /\ pc[p] = "unflagged" /\ pc'[p] = "last" /\ \A q \in Pools \ {p} : pc'[q] = pc[q]
          /\ \A q \in Pools : pc'[q] \notin {"inserted", "first", "spawn"}
      BY <1>0, <1>6, <2>2, GoApart DEF CountDown
    <3>2. Counted = {p}
      BY <2>2, <3>1, CountTells
    <3>3. \A q \in Pools \ {p} : pc[q] \in {"new", "destroyed"}
      BY <1>0, <3>1, <3>2 DEF ThreadKept, Types, PoolPC
    <3> QED
      BY <2>1, <3>1, <3>3 DEF ThreadKept
  <2>3. CASE m_count # 1
    <3>1. /\ ~raced /\ pc[p] = "unflagged" /\ pc'[p] = "destroyed" /\ \A q \in Pools \ {p} : pc'[q] = pc[q]
      BY <1>0, <1>6, <2>3, GoApart DEF CountDown
    <3>2. \E q \in Counted : q # p
      <4>1. ASSUME Counted = {p} PROVE FALSE
        BY <2>3, <4>1, FS_Singleton DEF CountKept
      <4> QED
        BY <3>1, <4>1
    <3> QED
      BY <2>1, <3>1, <3>2 DEF ThreadKept
  <2> QED
    BY <2>2, <2>3
<1>7. ASSUME NEW p \in Pools, SetStop(p) PROVE ThreadKept'
  <2>1. /\ ~raced /\ pc[p] = "last" /\ pc'[p] = "join" /\ \A q \in Pools \ {p} : pc'[q] = pc[q]
    BY <1>0, <1>7, GoApart DEF SetStop
  <2>2. UNCHANGED <<broken, thread>> /\ m_stop_flag' = TRUE
    BY <1>7 DEF SetStop
  <2>3. \A q \in Pools \ {p} : pc[q] \in {"new", "destroyed"}
    BY <2>1 DEF ThreadKept
  <2> QED
    BY <2>1, <2>2, <2>3 DEF ThreadKept
<1>8. ASSUME NEW p \in Pools, Join(p) PROVE ThreadKept'
  <2>1. /\ ~raced /\ pc[p] = "join" /\ pc'[p] = "destroyed" /\ \A q \in Pools \ {p} : pc'[q] = pc[q]
    BY <1>0, <1>8, GoApart DEF Join
  <2>2. thread # "none" /\ ~broken /\ \A q \in Pools \ {p} : pc[q] \in {"new", "destroyed"}
    BY <2>1 DEF ThreadKept
  <2>3. thread' = "none" /\ ~broken'
    BY <1>8, <2>2 DEF Join
  <2> QED
    BY <2>1, <2>2, <2>3 DEF ThreadKept
<1>9. CASE TimerEnds
  <2>1. UNCHANGED <<broken, raced, pc, m_stop_flag>> /\ thread = "created" /\ m_stop_flag
        /\ thread' = "ended"
    BY <1>9 DEF TimerEnds
  <2> QED
    BY <2>1 DEF ThreadKept
<1>10. CASE UNCHANGED vars \/ TimerCollects \/ TimerVisits
  <2>1. UNCHANGED <<broken, raced, pc, m_stop_flag, thread>>
    BY <1>10 DEF vars, TimerCollects, TimerVisits
  <2> QED
    BY <2>1 DEF ThreadKept
<1> QED
  BY <1>1, <1>2, <1>3, <1>4, <1>5, <1>6, <1>7, <1>8, <1>9, <1>10 DEF Next, Starting, Stopping

\* Unless a pool has started while the last one stopped: the thread is started when there
\* is none and joined when there is one, the assertion on m_runPools holds, and a running
\* pool has a thread or one that is being started (http_client_pool.cpp:46-52, 80-85).
THEOREM ThreadIsInOrder == Spec => []ThreadInOrder
<1>1. Init => ThreadKept
  BY DEF Init, ThreadKept, Launching, Ending, Counted
<1>2. CountKept /\ ThreadKept /\ [Next]_vars => ThreadKept'
  BY ThreadStep
<1>3. IInv /\ ThreadKept => ThreadInOrder
  <2> SUFFICES ASSUME IInv, ThreadKept, ~raced PROVE ThreadInOrder
    BY DEF ThreadInOrder
  <2>1. \A p \in Pools : pc[p] = "last" => m_runPools = {}
    BY DEF IInv, Types, Registered, ThreadKept, Ending
  <2> QED
    BY <2>1 DEF ThreadInOrder, ThreadKept, Launching
<1> QED
  BY <1>1, <1>2, <1>3, IInvHolds, CountHolds, PTL DEF Spec
=============================================================================
