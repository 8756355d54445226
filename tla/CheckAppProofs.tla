---------------------------- MODULE CheckAppProofs ----------------------------
(***************************************************************************)
(* Proofs about CheckApp, for any number of instances, endpoints, callers, *)
(* changes of the registry and refreshes that overlap: the list of         *)
(* instances and their pools fit each other, instances that stay           *)
(* registered stay listed, and a refresh is what InstanceList says.        *)
(*                                                                         *)
(* A stale answer may be applied at any time; what makes the argument is   *)
(* that the object of an instance is never listed again once it has been   *)
(* dropped, so that what a refresh still has to stop cannot come back.     *)
(***************************************************************************)
EXTENDS CheckApp, FiniteSetTheorems, TLAPS

-----------------------------------------------------------------------------
\* The inductive invariant

Applying(t) == pc[t] \in {"rebuild", "erase"}

\* The lock is held from Merge to Erase, and by nobody else.
LockIsHeld == \A t \in Threads : Applying(t) <=> lock = t

\* Objects are numbered in the order they are made.
NumbersGrow == \A i \in InsIds : inses[i] <= made[i]

\* What a refresh has to erase and to stop: objects that were made before, of instances
\* that were not registered at some time.
EraseInses ==
  \A t \in Threads :
    /\ erase[t] # {} => Applying(t) \/ pc[t] = "stop"
    /\ \A o \in erase[t] : o[2] <= made[o[1]] /\ o[1] \notin Steady

\* insIds has each listed instance, once, unless it is about to be shuffled anew.
TurnsKept ==
  /\ IsInjective(insIds)
  /\ (\A t \in Threads : pc[t] # "rebuild") => \A i \in InsIds : Listed(i) => i \in ToSet(insIds)

\* Steady instances are registered and in every answer that is still to be applied.
SteadyKnown ==
  /\ SteadyIn(registry)
  /\ \A t \in Threads : pc[t] = "apply" => SteadyIn(snap[t])

\* A listed instance has an endpoint.
HasEndpoint == \A i \in InsIds : Listed(i) => ep[Object(i)] \in Endpoints

IInv == TypeOK /\ LockIsHeld /\ NumbersGrow /\ EraseInses /\ ListedIsRunning /\ TurnsKept
          /\ SteadyKnown /\ HasEndpoint

-----------------------------------------------------------------------------
\* A shuffle of finitely many ids has each of them, once.
LEMMA ShuffleHasAll ==
  ASSUME NEW S \in SUBSET InsIds, NEW s \in SetToSeqs(S)
  PROVE  s \in Seq(InsIds) /\ IsInjective(s) /\ ToSet(s) = S
<1> DEFINE D == 1 .. Cardinality(S)
<1>1. IsFiniteSet(S) /\ Cardinality(S) \in Nat
  BY CheckAppAssumption, FS_Subset, FS_CardinalityType
<1>2. s \in [D -> S] /\ \A i, j \in D : i # j => s[i] # s[j]
  BY DEF SetToSeqs
<1>3. IsInjective(s) /\ s \in Injection(D, S)
  BY <1>2 DEF IsInjective, Injection
<1>4. Cardinality(D) = Cardinality(S)
  BY <1>1, FS_Interval
<1>5. s \in Surjection(D, S)
  BY <1>1, <1>3, <1>4, FS_Injection
<1>6. ToSet(s) = S
  BY <1>2, <1>5 DEF Surjection, ToSet
<1>7. s \in Seq(InsIds)
  BY <1>1, <1>2
<1> QED
  BY <1>3, <1>6, <1>7

\* At the start nothing is listed and no refresh is under way.
LEMMA IInvInit == Init => IInv
<1> SUFFICES ASSUME Init PROVE IInv
  OBVIOUS
<1>0. NoInstance \in Registry
  BY DEF NoInstance, Registry
<1>1. TypeOK
  <2>1. insIds \in Seq(InsIds) /\ next \in Nat
    BY DEF Init
  <2>2. /\ snap \in [Threads -> Registry] /\ erase \in [Threads -> SUBSET Objects]
        /\ pc \in [Threads -> PC]
    BY <1>0 DEF Init, PC
  <2>3. /\ ep \in [Objects -> Endpoints \cup {None}]
        /\ pool \in [Objects -> {"none", "running", "stopped"}]
        /\ want \in [Callers -> InsIds \cup {None}] /\ again \in [Callers -> BOOLEAN]
    BY DEF Init
  <2>4. /\ inses \in [InsIds -> 0 .. MaxGen] /\ made \in [InsIds -> 0 .. MaxGen]
        /\ changes \in 0 .. MaxChanges
    BY CheckAppAssumption DEF Init
  <2>5. /\ registry \in Registry /\ known \in BOOLEAN /\ doing \in BOOLEAN
        /\ lock \in Threads \cup {None}
    BY DEF Init
  <2> QED
    BY <2>1, <2>2, <2>3, <2>4, <2>5 DEF TypeOK
<1>2. \A t \in Threads : pc[t] = "idle" /\ erase[t] = {} /\ lock # t
  BY NoneAssumption DEF Init
<1>3. \A i \in InsIds : ~Listed(i)
  BY DEF Init, Listed
<1>4. LockIsHeld /\ NumbersGrow /\ EraseInses /\ SteadyKnown
  BY <1>2, <1>3
  DEF Init, LockIsHeld, Applying, NumbersGrow, EraseInses, SteadyKnown
<1>5. ListedIsRunning /\ HasEndpoint /\ TurnsKept
  BY <1>3 DEF Init, ListedIsRunning, HasEndpoint, TurnsKept, IsInjective
<1> QED
  BY <1>1, <1>4, <1>5 DEF IInv

-----------------------------------------------------------------------------
\* Types

\* The locals of a call keep their types when it ends.
LEMMA ForgetsType ==
  ASSUME TypeOK, NEW t \in Threads, ForgetsIfEnded(t)
  PROVE  want' \in [Callers -> InsIds \cup {None}] /\ again' \in [Callers -> BOOLEAN]
BY DEF TypeOK, ForgetsIfEnded

\* The steps of a call, of the server and of the timer keep the types.
LEMMA CallTypes ==
  ASSUME TypeOK,
         \/ RegistryChange \/ TimerSees
         \/ \E c \in Callers : Call(c) \/ Caller(c) \/ SetChoose(c)
  PROVE  TypeOK'
<1>1. CASE RegistryChange
  BY <1>1, CheckAppAssumption DEF RegistryChange, TypeOK, appVars, callVars, Registry
<1>2. CASE TimerSees
  BY <1>2 DEF TimerSees, Go, TypeOK, serverVars, appVars, callVars, PC
<1>3. ASSUME NEW c \in Callers, Call(c) \/ SetChoose(c) PROVE TypeOK'
  BY <1>3 DEF Call, SetChoose, Go, TypeOK, serverVars, appVars, callVars, PC
<1>4. ASSUME NEW c \in Callers, FindApp(c) PROVE TypeOK'
  BY <1>4 DEF FindApp, Use, Go, TypeOK, serverVars, appVars, PC
<1>5. ASSUME NEW c \in Callers, GetMissing(c) PROVE TypeOK'
  BY <1>5 DEF GetMissing, Go, TypeOK, serverVars, appVars, PC
<1>6. ASSUME NEW c \in Callers, Get(c) \/ ChooseIns(c) \/ ChooseThrows(c) \/ AssertThrows(c)
      PROVE  TypeOK'
  <2>1. want' \in [Callers -> InsIds \cup {None}] /\ again' \in [Callers -> BOOLEAN]
    BY <1>6, ForgetsType DEF Get, ChooseIns, ChooseThrows, AssertThrows, Threads
  <2>2. pc' \in [Threads -> PC]
    BY <1>6 DEF Get, ChooseIns, ChooseThrows, AssertThrows, Go, TypeOK, PC
  <2>3. UNCHANGED <<serverVars, known, doing, lock, appVars, pool, snap, erase>>
    BY <1>6 DEF Get, ChooseIns, ChooseThrows, AssertThrows
  <2> QED
    BY <2>1, <2>2, <2>3 DEF TypeOK, serverVars, appVars
<1> QED
  BY <1>1, <1>2, <1>3, <1>4, <1>5, <1>6 DEF Caller

\* So do those of a refresh.
LEMMA RefreshTypes ==
  ASSUME TypeOK, NEW t \in Threads, Refresh(t) \/ QueryFails(t)
  PROVE  TypeOK'
<1>1. CASE Mark(t) \/ QueryOk(t)
  BY <1>1 DEF Mark, QueryOk, Go, TypeOK, serverVars, appVars, callVars, PC
<1>2. CASE QueryFails(t)
  <2>1. want' \in [Callers -> InsIds \cup {None}] /\ again' \in [Callers -> BOOLEAN]
    BY <1>2, ForgetsType DEF QueryFails
  <2> QED
    BY <1>2, <2>1 DEF QueryFails, Go, TypeOK, serverVars, appVars, PC
<1>3. CASE Merge(t)
  <2>1. made' \in [InsIds -> 0 .. MaxGen] /\ inses' \in [InsIds -> 0 .. MaxGen]
    BY <1>3, CheckAppAssumption DEF Merge, TypeOK
  <2>2. ep' \in [Objects -> Endpoints \cup {None}]
    <3>1. \A o \in Objects : snap[t][o[1]] \in Endpoints \cup {None}
      BY DEF TypeOK, Registry, Objects
    <3> QED
      BY <1>3, <3>1 DEF Merge, TypeOK
  <2>3. pool' \in [Objects -> {"none", "running", "stopped"}]
    BY <1>3 DEF Merge, TypeOK
  <2>4. \A i \in Gone(t) : Object(i) \in Objects
    BY DEF Gone, Object, Objects, Listed, TypeOK
  <2>5. erase' \in [Threads -> SUBSET Objects]
    BY <1>3, <2>4 DEF Merge, TypeOK
  <2>6. snap' \in [Threads -> Registry]
    BY <1>3 DEF Merge, TypeOK, NoInstance, Registry
  <2>7. pc' \in [Threads -> PC] /\ lock' = t
    BY <1>3 DEF Merge, Go, TypeOK, PC
  <2> QED
    BY <1>3, <2>1, <2>2, <2>3, <2>5, <2>6, <2>7 DEF Merge, TypeOK, serverVars, callVars
<1>4. CASE Rebuild(t)
  <2>1. insIds' \in Seq(InsIds)
    BY <1>4, ShuffleHasAll DEF Rebuild
  <2>2. next' \in Nat
    BY <1>4, <2>1 DEF Rebuild, TypeOK
  <2> QED
    BY <1>4, <2>1, <2>2 DEF Rebuild, Go, TypeOK, serverVars, callVars, PC
<1>5. CASE Erase(t)
  <2>1. inses' \in [InsIds -> 0 .. MaxGen]
    BY <1>5, CheckAppAssumption DEF Erase, TypeOK
  <2> QED
    BY <1>5, <2>1 DEF Erase, Go, TypeOK, serverVars, callVars, PC
<1>6. CASE StopPool(t)
  BY <1>6 DEF StopPool, TypeOK, serverVars, appVars, callVars
<1>7. CASE Return(t)
  BY <1>7 DEF Return, Use, Go, TypeOK, serverVars, appVars, callVars, PC
<1> QED
  BY <1>1, <1>2, <1>3, <1>4, <1>5, <1>6, <1>7 DEF Refresh

-----------------------------------------------------------------------------
\* The steps

\* Steps that leave the list, the pools and the answers alone, of threads that have
\* nothing to apply and nothing to stop.
LEMMA QuietStep ==
  ASSUME IInv, TypeOK', SteadyIn(registry'),
         UNCHANGED <<lock, appVars, pool, snap, erase>>,
         \A t \in Threads :
           \/ pc'[t] = pc[t]
           \/ /\ pc[t] \notin {"apply", "rebuild", "erase"} /\ erase[t] = {}
              /\ pc'[t] \notin {"apply", "rebuild", "erase"}
  PROVE  IInv'
<1> USE DEF IInv, appVars
<1>1. \A i \in InsIds : Listed(i)' = Listed(i) /\ Object(i)' = Object(i)
  BY DEF Listed, Object
<1>2. LockIsHeld' /\ NumbersGrow' /\ EraseInses'
  BY DEF LockIsHeld, Applying, NumbersGrow, EraseInses
<1>3. ListedIsRunning' /\ HasEndpoint'
  BY <1>1 DEF ListedIsRunning, HasEndpoint
<1>4. TurnsKept'
  BY <1>1 DEF TurnsKept
<1>5. SteadyKnown'
  BY DEF SteadyKnown, SteadyIn
<1> QED
  BY <1>2, <1>3, <1>4, <1>5

\* Calls, the server and the timer make such steps, and so do refreshes but when they
\* apply an answer.
LEMMA QuietSteps ==
  ASSUME IInv,
         \/ RegistryChange \/ TimerSees
         \/ \E c \in Callers : Call(c) \/ Caller(c) \/ SetChoose(c)
         \/ \E t \in Threads : Mark(t) \/ QueryFails(t) \/ Return(t)
  PROVE  IInv'
<1>1. TypeOK'
  BY CallTypes, RefreshTypes DEF IInv, Refresh
<1>2. SteadyIn(registry) /\ \A t \in Threads : pc[t] \notin {"rebuild", "erase", "stop"} => erase[t] = {}
  BY DEF IInv, SteadyKnown, EraseInses, Applying
<1>3. CASE RegistryChange
  BY <1>1, <1>3, QuietStep DEF RegistryChange
<1>4. CASE TimerSees
  <2>1. pc[Timer] = "idle" /\ pc' = [pc EXCEPT ![Timer] = "mark"]
    BY <1>4 DEF TimerSees, Go
  <2>2. UNCHANGED <<registry, lock, appVars, pool, snap, erase>>
    BY <1>4 DEF TimerSees, serverVars
  <2> QED
    BY <1>1, <1>2, <2>1, <2>2, QuietStep DEF IInv, TypeOK
<1>5. ASSUME NEW c \in Callers, SetChoose(c) PROVE IInv'
  BY <1>1, <1>2, <1>5, QuietStep DEF SetChoose, serverVars
<1>6. ASSUME NEW c \in Callers, Call(c) \/ Caller(c) PROVE IInv'
  <2>1. /\ pc[c] \in {"idle", "find", "get", "choose", "assert"}
        /\ \E to \in {"find", "choose", "get", "mark", "idle", "assert"} :
             pc' = [pc EXCEPT ![c] = to]
    BY <1>6 DEF Call, Caller, FindApp, Get, GetMissing, ChooseIns, ChooseThrows,
                AssertThrows, Use, Go
  <2>2. UNCHANGED <<registry, lock, appVars, pool, snap, erase>>
    BY <1>6 DEF Call, Caller, FindApp, Get, GetMissing, ChooseIns, ChooseThrows,
                AssertThrows, serverVars
  <2> QED
    BY <1>1, <1>2, <2>1, <2>2, QuietStep DEF IInv, TypeOK, Threads
<1>7. ASSUME NEW t \in Threads, Mark(t) \/ QueryFails(t) \/ Return(t) PROVE IInv'
  <2>1. /\ pc[t] \in {"mark", "query", "stop"} /\ erase[t] = {}
        /\ \E to \in {"query", "idle", "choose", "get"} : pc' = [pc EXCEPT ![t] = to]
    BY <1>2, <1>7 DEF Mark, QueryFails, Return, Use, Go
  <2>2. UNCHANGED <<registry, lock, appVars, pool, snap, erase>>
    BY <1>7 DEF Mark, QueryFails, Return, serverVars
  <2> QED
    BY <1>1, <1>2, <2>1, <2>2, QuietStep DEF IInv, TypeOK
<1> QED
  BY <1>3, <1>4, <1>5, <1>6, <1>7

\* The answer of the server has the steady instances.
LEMMA QueryStep ==
  ASSUME IInv, NEW t \in Threads, QueryOk(t)
  PROVE  IInv'
<1> USE DEF IInv, QueryOk, Go, serverVars, appVars
<1>1. TypeOK'
  BY RefreshTypes DEF Refresh
<1>2. \A i \in InsIds : Listed(i)' = Listed(i) /\ Object(i)' = Object(i)
  BY DEF Listed, Object
<1>3. pc[t] = "query" /\ pc' = [pc EXCEPT ![t] = "apply"] /\ pc \in [Threads -> PC]
  BY DEF TypeOK
<1>4. LockIsHeld' /\ NumbersGrow' /\ EraseInses'
  BY <1>3 DEF LockIsHeld, Applying, NumbersGrow, EraseInses
<1>5. ListedIsRunning' /\ HasEndpoint'
  BY <1>2 DEF ListedIsRunning, HasEndpoint
<1>6. TurnsKept'
  BY <1>2, <1>3 DEF TurnsKept
<1>7. SteadyKnown'
  BY DEF SteadyKnown, SteadyIn, TypeOK
<1> QED
  BY <1>1, <1>4, <1>5, <1>6, <1>7

\* Merge gives the new instances objects that nobody has to stop, and leaves what is gone
\* to the thread itself.
LEMMA MergeStep ==
  ASSUME IInv, NEW t \in Threads, Merge(t)
  PROVE  IInv'
<1>0. /\ TypeOK /\ LockIsHeld /\ NumbersGrow /\ EraseInses /\ ListedIsRunning /\ TurnsKept
      /\ SteadyKnown /\ HasEndpoint
  BY DEF IInv
<1>1. TypeOK'
  BY <1>0, RefreshTypes DEF Refresh
<1>2. /\ lock = None /\ lock' = t /\ pc[t] = "apply" /\ \A u \in Threads : ~Applying(u)
      /\ pc' = [pc EXCEPT ![t] = IF Added(t) \cup Gone(t) # {} THEN "rebuild" ELSE "erase"]
  BY <1>0, NoneAssumption DEF Merge, Go, LockIsHeld
<1>3. /\ made' = [i \in InsIds |-> IF i \in Added(t) THEN made[i] + 1 ELSE made[i]]
      /\ inses' = [i \in InsIds |-> IF i \in Added(t) THEN made[i] + 1 ELSE inses[i]]
      /\ erase' = [erase EXCEPT ![t] = {Object(i) : i \in Gone(t)}]
  BY DEF Merge, Added
<1>4. /\ \A i \in InsIds : made[i] \in Nat /\ inses[i] \in Nat /\ inses[i] <= made[i]
      /\ erase \in [Threads -> SUBSET Objects]
  BY <1>0 DEF TypeOK, NumbersGrow
<1>5. LockIsHeld'
  BY <1>0, <1>2 DEF LockIsHeld, Applying, TypeOK
<1>6. NumbersGrow'
  BY <1>3, <1>4 DEF NumbersGrow
<1>7. EraseInses'
  <2>1. \A i \in Gone(t) : i \in InsIds /\ i \notin Steady /\ Object(i) = <<i, inses[i]>>
    BY <1>0, <1>2, CheckAppAssumption DEF Gone, SteadyKnown, SteadyIn, Object
  <2>2. \A o \in erase'[t] : o[1] \in InsIds /\ o[2] <= made[o[1]] /\ o[1] \notin Steady
    BY <1>3, <1>4, <2>1
  <2>3. \A u \in Threads \ {t} : erase'[u] = erase[u] /\ pc'[u] = pc[u]
    BY <1>0, <1>2, <1>3 DEF TypeOK
  <2>4. \A u \in Threads : \A o \in erase'[u] :
          o[1] \in InsIds /\ o[2] <= made[o[1]] /\ o[1] \notin Steady
    BY <1>0, <1>4, <2>2, <2>3 DEF EraseInses, Objects
  <2>5. \A u \in Threads : \A o \in erase'[u] : o[2] <= made'[o[1]]
    BY <1>1, <1>3, <1>4, <2>4 DEF TypeOK, Objects
  <2>6. pc'[t] \in {"rebuild", "erase"}
    BY <1>0, <1>2 DEF TypeOK
  <2> QED
    BY <1>0, <2>3, <2>4, <2>5, <2>6 DEF EraseInses, Applying
<1>8. ListedIsRunning'
  <2> SUFFICES ASSUME NEW i \in InsIds, Listed(i)'
               PROVE  /\ pool'[Object(i)'] = "running"
                      /\ \A u \in Threads : Object(i)' \in erase'[u] => lock' = u
    BY DEF ListedIsRunning
  <2>1. Object(i)' = <<i, inses'[i]>> /\ Object(i)' \in Objects
    BY <1>1 DEF Object, Objects, Listed, TypeOK
  <2>2. CASE i \in Added(t)
    <3>1. Object(i)' = <<i, made[i] + 1>> /\ made'[i] = made[i] + 1
      BY <1>3, <2>1, <2>2
    <3>2. pool'[Object(i)'] = "running"
      BY <2>1, <2>2, <3>1 DEF Merge
    <3>3. \A u \in Threads \ {t} : Object(i)' \notin erase'[u]
      BY <1>0, <1>3, <1>4, <3>1 DEF EraseInses
    <3> QED
      BY <1>2, <3>2, <3>3
  <2>3. CASE i \notin Added(t)
    <3>1. Listed(i) /\ Object(i)' = Object(i)
      BY <1>3, <2>1, <2>3 DEF Listed, Object
    <3>2. pool'[Object(i)'] = pool[Object(i)]
      BY <2>1, <2>3, <3>1 DEF Merge, Object
    <3>3. \A u \in Threads \ {t} : Object(i)' \notin erase'[u]
      BY <1>0, <1>2, <1>3, <1>4, <3>1, NoneAssumption DEF ListedIsRunning
    <3> QED
      BY <1>0, <1>2, <3>1, <3>2, <3>3 DEF ListedIsRunning
  <2> QED
    BY <2>2, <2>3
<1>9. TurnsKept'
  <2>1. insIds' = insIds
    BY DEF Merge
  <2>2. CASE Added(t) \cup Gone(t) # {}
    BY <1>0, <1>2, <2>1, <2>2 DEF TurnsKept, TypeOK
  <2>3. CASE Added(t) \cup Gone(t) = {}
    <3>1. \A i \in InsIds : inses'[i] = inses[i]
      BY <1>3, <2>3
    <3>2. \A u \in Threads : pc[u] # "rebuild"
      BY <1>2 DEF Applying
    <3> QED
      BY <1>0, <2>1, <3>1, <3>2 DEF TurnsKept, Listed
  <2> QED
    BY <2>2, <2>3
<1>10. SteadyKnown'
  BY <1>0, <1>2 DEF SteadyKnown, SteadyIn, Merge, serverVars, TypeOK
<1>11. HasEndpoint'
  <2> SUFFICES ASSUME NEW i \in InsIds, Listed(i)' PROVE ep'[Object(i)'] \in Endpoints
    BY DEF HasEndpoint
  <2>1. Object(i)' = <<i, inses'[i]>> /\ Object(i)' \in Objects
    BY <1>1 DEF Object, Objects, Listed, TypeOK
  <2>2. snap[t][i] \in Endpoints \cup {None}
    BY <1>0 DEF TypeOK, Registry
  <2>3. CASE snap[t][i] # None
    <3>1. ep'[Object(i)'] = snap[t][i]
      BY <2>1, <2>3 DEF Merge
    <3> QED
      BY <2>2, <2>3, <3>1
  <2>4. CASE snap[t][i] = None
    <3>1. i \notin Added(t) /\ Object(i)' = Object(i) /\ Listed(i)
      BY <1>3, <2>1, <2>4 DEF Added, Listed, Object
    <3>2. ep'[Object(i)'] = ep[Object(i)]
      BY <2>1, <2>4, <3>1 DEF Merge
    <3> QED
      BY <1>0, <3>1, <3>2 DEF HasEndpoint
  <2> QED
    BY <2>3, <2>4
<1> QED
  BY <1>1, <1>5, <1>6, <1>7, <1>8, <1>9, <1>10, <1>11 DEF IInv

\* After Rebuild every listed instance has its turn.
LEMMA RebuildStep ==
  ASSUME IInv, NEW t \in Threads, Rebuild(t)
  PROVE  IInv'
<1> USE DEF IInv
<1>1. TypeOK'
  BY RefreshTypes DEF Refresh
<1>2. /\ pc[t] = "rebuild" /\ pc' = [pc EXCEPT ![t] = "erase"]
      /\ UNCHANGED <<registry, lock, inses, made, ep, pool, snap, erase>>
  BY DEF Rebuild, Go, serverVars
<1>3. \A i \in InsIds : Listed(i)' = Listed(i) /\ Object(i)' = Object(i)
  BY <1>2 DEF Listed, Object
<1>4. LockIsHeld' /\ NumbersGrow' /\ EraseInses'
  BY <1>2 DEF LockIsHeld, Applying, NumbersGrow, EraseInses, TypeOK
<1>5. ListedIsRunning' /\ HasEndpoint'
  BY <1>2, <1>3 DEF ListedIsRunning, HasEndpoint
<1>6. TurnsKept'
  <2>1. insIds' \in SetToSeqs({i \in InsIds : Listed(i)})
    BY DEF Rebuild
  <2>2. IsInjective(insIds') /\ ToSet(insIds') = {i \in InsIds : Listed(i)}
    BY <2>1, ShuffleHasAll
  <2> QED
    BY <1>3, <2>2 DEF TurnsKept
<1>7. SteadyKnown'
  BY <1>2 DEF SteadyKnown, SteadyIn, TypeOK
<1> QED
  BY <1>1, <1>4, <1>5, <1>6, <1>7

\* Erase takes from the list what this thread alone is going to stop.
LEMMA EraseStep ==
  ASSUME IInv, NEW t \in Threads, Erase(t)
  PROVE  IInv'
<1> USE DEF IInv
<1>1. TypeOK'
  BY RefreshTypes DEF Refresh
<1>2. /\ pc[t] = "erase" /\ pc' = [pc EXCEPT ![t] = "stop"] /\ lock' = None
      /\ UNCHANGED <<registry, insIds, made, ep, pool, snap, erase>>
      /\ inses' = [i \in InsIds |-> IF Object(i) \in erase[t] THEN 0 ELSE inses[i]]
  BY DEF Erase, Go, serverVars
<1>3. lock = t /\ \A u \in Threads \ {t} : ~Applying(u)
  BY <1>2 DEF LockIsHeld, Applying
<1>4. \A i \in InsIds : Listed(i)' => Listed(i) /\ Object(i)' = Object(i) /\ Object(i) \notin erase[t]
  BY <1>2 DEF Listed, Object
<1>5. LockIsHeld'
  BY <1>2, <1>3, NoneAssumption DEF LockIsHeld, Applying, TypeOK
<1>6. NumbersGrow'
  <2>1. \A i \in InsIds : made[i] \in Nat
    BY DEF TypeOK
  <2> QED
    BY <1>2, <2>1 DEF NumbersGrow
<1>7. EraseInses'
  BY <1>2 DEF EraseInses, Applying, TypeOK
<1>8. ListedIsRunning' /\ HasEndpoint'
  BY <1>2, <1>3, <1>4 DEF ListedIsRunning, HasEndpoint
<1>9. TurnsKept'
  BY <1>2, <1>3, <1>4 DEF TurnsKept, Applying
<1>10. SteadyKnown'
  BY <1>2 DEF SteadyKnown, SteadyIn, TypeOK
<1> QED
  BY <1>1, <1>5, <1>6, <1>7, <1>8, <1>9, <1>10

\* A pool that is stopped is not that of a listed instance.
LEMMA StopPoolStep ==
  ASSUME IInv, NEW t \in Threads, StopPool(t)
  PROVE  IInv'
<1> USE DEF IInv, StopPool, serverVars, appVars
<1>1. TypeOK'
  BY RefreshTypes DEF Refresh
<1>2. PICK o \in erase[t] : /\ pool' = [pool EXCEPT ![o] = "stopped"]
                            /\ erase' = [erase EXCEPT ![t] = @ \ {o}]
  OBVIOUS
<1>3. \A i \in InsIds : Listed(i)' = Listed(i) /\ Object(i)' = Object(i)
  BY DEF Listed, Object
<1>4. lock # t /\ \A u \in Threads : erase'[u] \subseteq erase[u]
  BY <1>2 DEF LockIsHeld, Applying, TypeOK
<1>5. LockIsHeld' /\ NumbersGrow' /\ EraseInses'
  BY <1>4 DEF LockIsHeld, Applying, NumbersGrow, EraseInses
<1>6. ListedIsRunning'
  <2>1. \A i \in InsIds : Listed(i) => Object(i) # o /\ Object(i) \in Objects
    BY <1>2, <1>4 DEF ListedIsRunning, Listed, Object, Objects, TypeOK
  <2> QED
    BY <1>2, <1>3, <1>4, <2>1 DEF ListedIsRunning, TypeOK
<1>7. TurnsKept' /\ SteadyKnown' /\ HasEndpoint'
  BY <1>3 DEF TurnsKept, SteadyKnown, SteadyIn, HasEndpoint
<1> QED
  BY <1>1, <1>5, <1>6, <1>7

\* Whatever the server, callers and refreshes do next keeps the invariant.
LEMMA IInvStep == IInv /\ [Next]_vars => IInv'
<1> SUFFICES ASSUME IInv, [Next]_vars PROVE IInv'
  OBVIOUS
<1>1. CASE UNCHANGED vars
  BY <1>1 DEF vars, serverVars, appVars, callVars, IInv, TypeOK, LockIsHeld, Applying,
     NumbersGrow, EraseInses, ListedIsRunning, TurnsKept, SteadyKnown, SteadyIn,
     HasEndpoint, Listed, Object
<1>2. CASE Next
  BY <1>2, QuietSteps, QueryStep, MergeStep, RebuildStep, EraseStep, StopPoolStep
  DEF Next, Refresh
<1> QED
  BY <1>1, <1>2

\* The invariant holds in every reachable state.
THEOREM IInvHolds == Spec => []IInv
BY IInvInit, IInvStep, PTL DEF Spec

-----------------------------------------------------------------------------
\* Every reachable state has its type, whatever the order of calls, refreshes and answers.
THEOREM CheckAppTypeCorrect == Spec => []TypeOK
<1>1. IInv => TypeOK
  BY DEF IInv
<1> QED
  BY <1>1, IInvHolds, PTL

\* However refreshes overlap, a listed instance has a running pool that none of them is
\* going to stop (eureka_agent.cpp:603-616).
THEOREM ListedRuns == Spec => []ListedIsRunning
<1>1. IInv => ListedIsRunning
  BY DEF IInv
<1> QED
  BY <1>1, IInvHolds, PTL

\* Whenever no answer is being applied every listed instance is in insIds, once
\* (eureka_agent.cpp:581-601).
THEOREM ListedTakesTurns == Spec => []ListedHasTurn
<1>1. ASSUME IInv, lock = None
      PROVE  (\A i \in InsIds : Listed(i) => i \in ToSet(insIds)) /\ IsInjective(insIds)
  <2>1. \A t \in Threads : pc[t] # "rebuild"
    BY <1>1, NoneAssumption DEF IInv, LockIsHeld, Applying
  <2> QED
    BY <1>1, <2>1 DEF IInv, TurnsKept
<1>2. IInv => ListedHasTurn
  BY <1>1 DEF ListedHasTurn
<1> QED
  BY <1>2, IInvHolds, PTL

\* An instance that stays registered keeps its CheckInsData: no answer, however stale,
\* leaves it out, and no refresh has it in eraseInses (eureka_agent.cpp:524-609).
THEOREM SteadyKept == Spec => SteadyStays
<1> DEFINE Stays == \A i \in Steady : Listed(i) => inses'[i] = inses[i]
<1>1. ASSUME IInv, Next PROVE Stays
  <2>1. CASE UNCHANGED inses
    BY <2>1
  <2>2. ASSUME NEW t \in Threads, Merge(t) PROVE Stays
    BY <2>2, CheckAppAssumption DEF Merge, Added
  <2>3. ASSUME NEW t \in Threads, Erase(t) PROVE Stays
    <3>1. \A i \in Steady : Object(i) \notin erase[t]
      BY <1>1 DEF IInv, EraseInses, Object
    <3> QED
      BY <2>3, <3>1, CheckAppAssumption DEF Erase
  <2>4. Next => \/ \E t \in Threads : Merge(t) \/ Erase(t)
                \/ UNCHANGED inses
    BY DEF Next, RegistryChange, TimerSees, Call, Caller, FindApp, Get, GetMissing,
       ChooseIns, ChooseThrows, AssertThrows, SetChoose, Refresh, Mark, QueryOk, Rebuild,
       StopPool, Return, QueryFails, appVars
  <2> QED
    BY <1>1, <2>1, <2>2, <2>3, <2>4
<1>2. IInv /\ [Next]_vars => [Stays]_vars
  BY <1>1
<1> QED
  BY <1>2, IInvHolds, PTL DEF Spec, SteadyStays

-----------------------------------------------------------------------------
\* The refinement of InstanceList

\* What the mapping makes of the answers and of the list.
toApply == [t \in Threads |-> IF pc[t] = "apply" THEN snap[t] ELSE None]
entry(i) ==
  IF ~Listed(i) \/ \E t \in Threads : lock = t /\ Object(i) \in erase[t]
    THEN None ELSE [ep |-> ep[Object(i)], number |-> inses[i]]
entries == [i \in InsIds |-> entry(i)]
numbers == [i \in InsIds |-> 1 .. made[i]]

MappedStep == [List!ListNext]_<<registry, toApply, entries, numbers>>

\* Steps that change neither an answer nor the list.
LEMMA SilentStep ==
  ASSUME UNCHANGED <<registry, appVars>>, \A t \in Threads : snap'[t] = snap[t],
         \A t \in Threads : pc[t] = "apply" <=> pc'[t] = "apply",
         \A t \in Threads, i \in InsIds :
           (lock' = t /\ Object(i) \in erase'[t]) <=> (lock = t /\ Object(i) \in erase[t])
  PROVE  UNCHANGED <<registry, toApply, entries, numbers>>
<1>1. \A i \in InsIds : Listed(i)' = Listed(i) /\ Object(i)' = Object(i)
  BY DEF Listed, Object, appVars
<1>2. \A i \in InsIds : entry(i)' = entry(i)
  <2> TAKE i \in InsIds
  <2>1. (\E t \in Threads : lock' = t /\ Object(i)' \in erase'[t])
          <=> \E t \in Threads : lock = t /\ Object(i) \in erase[t]
    BY <1>1
  <2> QED
    BY <1>1, <2>1 DEF entry, appVars
<1>3. toApply' = toApply /\ numbers' = numbers
  BY DEF toApply, numbers, appVars
<1> QED
  BY <1>2, <1>3 DEF entries

\* An answer that is given or thrown away is the server's.
LEMMA AnswerStep ==
  ASSUME IInv, NEW t \in Threads, QueryOk(t)
  PROVE  MappedStep
<1>1. /\ pc[t] = "query" /\ pc' = [pc EXCEPT ![t] = "apply"] /\ snap' = [snap EXCEPT ![t] = registry]
      /\ UNCHANGED <<registry, lock, appVars, erase>>
  BY DEF QueryOk, Go, serverVars
<1>2. pc \in [Threads -> PC] /\ snap \in [Threads -> Registry]
  BY DEF IInv, TypeOK
<1>3. toApply[t] = None /\ toApply' = [toApply EXCEPT ![t] = registry]
  BY <1>1, <1>2 DEF toApply
<1>4. \A i \in InsIds : entry(i)' = entry(i)
  BY <1>1 DEF entry, Listed, Object, appVars
<1>5. entries' = entries /\ numbers' = numbers
  BY <1>1, <1>4 DEF entries, numbers, appVars
<1>6. List!Answer(t)
  BY <1>1, <1>3, <1>5 DEF List!Answer, toApply, entries, entry, numbers
<1> QED
  BY <1>6 DEF MappedStep, List!ListNext

\* Merge applies the whole answer: what it names is listed with its endpoint, what was
\* listed keeps its object, and what it does not name is on the list no more.
LEMMA ApplyStep ==
  ASSUME IInv, NEW t \in Threads, Merge(t)
  PROVE  MappedStep
<1>0. /\ TypeOK /\ LockIsHeld /\ NumbersGrow /\ EraseInses /\ ListedIsRunning /\ HasEndpoint
      /\ TypeOK' /\ HasEndpoint'
  BY IInvStep DEF IInv, Next, Refresh
<1>1. /\ lock = None /\ lock' = t /\ pc[t] = "apply" /\ UNCHANGED registry
      /\ \E to \in {"rebuild", "erase"} : pc' = [pc EXCEPT ![t] = to]
      /\ snap' = [snap EXCEPT ![t] = NoInstance]
  BY DEF Merge, Go, serverVars
<1>2. /\ made' = [i \in InsIds |-> IF i \in Added(t) THEN made[i] + 1 ELSE made[i]]
      /\ inses' = [i \in InsIds |-> IF i \in Added(t) THEN made[i] + 1 ELSE inses[i]]
      /\ erase' = [erase EXCEPT ![t] = {Object(i) : i \in Gone(t)}]
  BY DEF Merge, Added
<1>3. \A i \in InsIds : /\ made[i] \in Nat /\ inses[i] \in 0 .. made[i] /\ made'[i] \in 0 .. MaxGen
                        /\ snap[t][i] \in Endpoints \cup {None}
  BY <1>0 DEF TypeOK, NumbersGrow, Registry
<1>4. toApply[t] = snap[t] /\ snap[t] # None /\ toApply' = [toApply EXCEPT ![t] = None]
  <2>1. pc \in [Threads -> PC] /\ snap \in [Threads -> Registry]
    BY <1>0 DEF TypeOK
  <2>2. snap[t] \in Registry
    BY <2>1
  <2>3. snap[t] # None
    BY <2>2, NoneAssumption, Zenon
  <2>4. \A u \in Threads : toApply'[u] = IF u = t THEN None ELSE toApply[u]
    BY <1>1, <2>1 DEF toApply
  <2>5. toApply' = [toApply EXCEPT ![t] = None]
    BY <2>4 DEF toApply
  <2> QED
    BY <1>1, <2>3, <2>5 DEF toApply
<1>5. \A i \in InsIds : entry(i) = IF Listed(i) THEN [ep |-> ep[Object(i)], number |-> inses[i]] ELSE None
  BY <1>1, NoneAssumption DEF entry
<1>6. \A i \in InsIds : Object(i)' \in erase'[t] <=> i \in Gone(t)
  <2> TAKE i \in InsIds
  <2>1. i \in Gone(t) => i \notin Added(t)
    BY DEF Gone, Added
  <2>2. i \in Gone(t) => Object(i)' = Object(i)
    BY <1>2, <2>1 DEF Object
  <2>3. ASSUME NEW j \in Gone(t), Object(i)' = Object(j) PROVE i = j
    BY <2>3 DEF Object
  <2> QED
    BY <1>0, <1>2, <2>2, <2>3 DEF TypeOK
<1>7. \A i \in InsIds : entry(i)' = IF Listed(i)' /\ i \notin Gone(t)
                                      THEN [ep |-> ep'[Object(i)'], number |-> inses'[i]] ELSE None
  BY <1>1, <1>6 DEF entry
<1>8. \A i \in InsIds : Listed(i)' => Object(i)' = <<i, inses'[i]>> /\ Object(i)' \in Objects
                                      /\ inses'[i] \in 1 .. MaxGen /\ ep'[Object(i)'] \in Endpoints
  BY <1>0 DEF Listed, Object, Objects, HasEndpoint, TypeOK
<1>9. \A i \in InsIds : Listed(i)' /\ snap[t][i] # None => ep'[Object(i)'] = snap[t][i]
  <2> TAKE i \in InsIds
  <2> HAVE Listed(i)' /\ snap[t][i] # None
  <2> DEFINE o == <<i, inses'[i]>>
  <2>1. Object(i)' = o /\ o \in Objects /\ o[1] = i /\ o[2] = inses'[i]
    BY <1>8
  <2>2. \A x \in Objects : x[2] = inses'[x[1]] /\ snap[t][x[1]] # None
                           => ep'[x] = snap[t][x[1]]
    BY DEF Merge
  <2> HIDE DEF o
  <2> QED
    BY <2>1, <2>2
<1>10. ASSUME NEW i \in InsIds
       PROVE  /\ List!Entry(i, snap[t][i], entry(i)')
              /\ numbers'[i] = numbers[i] \cup (IF entry(i)' = None THEN {} ELSE {entry(i)'.number})
              /\ entry(i)' \in {None} \cup [ep : Endpoints, number : 1 .. MaxGen]
  <2>0. /\ entries[i] = entry(i) /\ numbers[i] = 1 .. made[i] /\ numbers'[i] = 1 .. made'[i]
        /\ Listed(i)' <=> inses'[i] # 0
        /\ Listed(i) <=> inses[i] # 0
    BY DEF entries, numbers, Listed
  <2>1. CASE snap[t][i] = None
    <3>1. i \notin Added(t) /\ entry(i)' = None /\ made'[i] = made[i]
      BY <1>2, <1>7, <2>0, <2>1 DEF Added, Gone
    <3>2. List!Entry(i, snap[t][i], entry(i)')
      BY <2>1, <3>1 DEF List!Entry
    <3>3. numbers'[i] = numbers[i]
      BY <2>0, <3>1, Zenon
    <3> QED
      BY <3>1, <3>2, <3>3
  <2>2. CASE snap[t][i] # None /\ Listed(i)
    <3>1. i \notin Added(t) /\ i \notin Gone(t) /\ Listed(i)'
      BY <1>2, <2>0, <2>2 DEF Added, Gone
    <3>2. entry(i)' = [ep |-> snap[t][i], number |-> inses[i]] /\ made'[i] = made[i]
      BY <1>2, <1>7, <1>9, <2>2, <3>1
    <3>3. /\ entry(i) = [ep |-> ep[Object(i)], number |-> inses[i]] /\ entry(i) # None
          /\ entry(i)' \in [ep : Endpoints, number : 1 .. MaxGen] /\ entry(i)' # None
      <4>1. inses[i] \in 1 .. MaxGen /\ ep[Object(i)] \in Endpoints /\ snap[t][i] \in Endpoints
        BY <1>0, <1>3, <2>0, <2>2 DEF HasEndpoint, TypeOK
      <4> QED
        BY <1>5, <2>2, <3>2, <4>1, NoneAssumption
    <3>4. inses[i] \in 1 .. made[i]
      BY <1>3, <2>0, <2>2
    <3>5. List!Entry(i, snap[t][i], entry(i)')
      BY <2>0, <2>2, <3>2, <3>3 DEF List!Entry, entries, entry
    <3> QED
      BY <2>0, <3>2, <3>3, <3>4, <3>5
  <2>3. CASE snap[t][i] # None /\ ~Listed(i)
    <3>1. i \in Added(t) /\ i \notin Gone(t) /\ inses'[i] = made[i] + 1 /\ made'[i] = made[i] + 1
      BY <1>2, <2>3 DEF Added, Gone
    <3>2. Listed(i)' /\ entry(i)' = [ep |-> snap[t][i], number |-> made[i] + 1]
      BY <1>3, <1>7, <1>9, <2>0, <2>3, <3>1
    <3>3. made[i] + 1 \in (1 .. MaxGen) \ (1 .. made[i]) /\ snap[t][i] \in Endpoints
      BY <1>3, <2>3, <3>1
    <3>4. entry(i)' \in [ep : Endpoints, number : 1 .. MaxGen] /\ entry(i)' # None
      BY <3>2, <3>3, NoneAssumption
    <3>5. entries[i] = None
      BY <1>5, <2>0, <2>3
    <3>6. List!Entry(i, snap[t][i], entry(i)')
      BY <2>0, <2>3, <3>2, <3>3, <3>5 DEF List!Entry, entries, entry, numbers
    <3>7. 1 .. (made[i] + 1) = (1 .. made[i]) \cup {made[i] + 1}
      BY <1>3
    <3> QED
      BY <2>0, <3>1, <3>2, <3>4, <3>6, <3>7
  <2> QED
    BY <2>1, <2>2, <2>3
<1>11. /\ entries' \in [InsIds -> {None} \cup [ep : Endpoints, number : 1 .. MaxGen]]
       /\ \A i \in InsIds : List!Entry(i, toApply[t][i], entries'[i])
       /\ numbers' = [i \in InsIds |-> numbers[i] \cup (IF entries'[i] = None THEN {} ELSE {entries'[i].number})]
  BY <1>4, <1>10 DEF entries, numbers
<1>12. List!Apply(t)
  BY <1>1, <1>4, <1>11 DEF List!Apply, toApply, entries, entry, numbers
<1> QED
  BY <1>12 DEF MappedStep, List!ListNext

\* What Erase takes from inses was on the abstract list no more.
LEMMA EraseIsSilent ==
  ASSUME IInv, NEW t \in Threads, Erase(t)
  PROVE  UNCHANGED <<registry, toApply, entries, numbers>>
<1>1. /\ pc[t] = "erase" /\ pc' = [pc EXCEPT ![t] = "stop"] /\ lock' = None
      /\ UNCHANGED <<registry, made, ep, snap, erase>>
      /\ inses' = [i \in InsIds |-> IF Object(i) \in erase[t] THEN 0 ELSE inses[i]]
  BY DEF Erase, Go, serverVars
<1>2. lock = t /\ pc \in [Threads -> PC]
  BY <1>1 DEF IInv, LockIsHeld, Applying, TypeOK
<1>3. ASSUME NEW i \in InsIds PROVE entry(i)' = entry(i)
  <2>1. entry(i)' = IF Listed(i)' THEN [ep |-> ep[Object(i)'], number |-> inses'[i]] ELSE None
    BY <1>1, NoneAssumption DEF entry
  <2>2. entry(i) = IF Listed(i) /\ Object(i) \notin erase[t]
                     THEN [ep |-> ep[Object(i)], number |-> inses[i]] ELSE None
    BY <1>2 DEF entry
  <2> QED
    BY <1>1, <2>1, <2>2 DEF Listed, Object
<1>4. toApply' = toApply /\ numbers' = numbers
  BY <1>1, <1>2 DEF toApply, numbers
<1> QED
  BY <1>1, <1>3, <1>4 DEF entries

\* Every step is one of InstanceList or changes nothing there.
LEMMA ListStep ==
  ASSUME IInv, [Next]_vars
  PROVE  MappedStep
<1>0. TypeOK /\ LockIsHeld /\ EraseInses /\ TypeOK'
  BY IInvStep DEF IInv
<1>1. ASSUME UNCHANGED <<registry, toApply, entries, numbers>> PROVE MappedStep
  BY <1>1 DEF MappedStep
<1>2. CASE UNCHANGED vars
  BY <1>1, <1>2, SilentStep DEF vars, serverVars
<1>3. CASE RegistryChange
  <2>1. UNCHANGED <<toApply, entries, numbers>>
    BY <1>3 DEF RegistryChange, appVars, toApply, entries, entry, numbers, Listed, Object
  <2>2. registry' \in Registry
    BY <1>0 DEF TypeOK
  <2>3. List!Change
    BY <2>1, <2>2 DEF List!Change, List!Registry, Registry, toApply, entries, entry, numbers
  <2> QED
    BY <2>3 DEF MappedStep, List!ListNext
<1>4. ASSUME \/ TimerSees
             \/ \E c \in Callers : Call(c) \/ Caller(c) \/ SetChoose(c)
             \/ \E t \in Threads : Mark(t) \/ QueryFails(t) \/ Return(t) \/ Rebuild(t)
      PROVE  MappedStep
  <2>1. UNCHANGED <<registry, lock, inses, made, ep, snap, erase>>
    BY <1>4 DEF TimerSees, Call, Caller, FindApp, Get, GetMissing, ChooseIns, ChooseThrows,
       AssertThrows, SetChoose, Mark, QueryFails, Return, Rebuild, serverVars, appVars
  <2>2. \/ UNCHANGED pc
        \/ \E t \in Threads :
             /\ pc[t] # "apply"
             /\ \E to \in PC \ {"apply"} : pc' = [pc EXCEPT ![t] = to]
    BY <1>4 DEF TimerSees, Call, Caller, FindApp, Get, GetMissing, ChooseIns, ChooseThrows,
       AssertThrows, SetChoose, Mark, QueryFails, Return, Rebuild, Use, Go, PC, Threads
  <2>3. \A t \in Threads : pc[t] = "apply" <=> pc'[t] = "apply"
    BY <1>0, <2>2 DEF TypeOK
  <2>4. toApply' = toApply
    BY <2>1, <2>3 DEF toApply
  <2>5. UNCHANGED <<entries, numbers>>
    BY <2>1 DEF entries, entry, numbers, Listed, Object
  <2> QED
    BY <1>1, <2>1, <2>4, <2>5
<1>5. ASSUME NEW t \in Threads, StopPool(t) PROVE MappedStep
  <2>1. lock # t /\ \A u \in Threads \ {t} : erase'[u] = erase[u]
    BY <1>0, <1>5 DEF StopPool, LockIsHeld, Applying, TypeOK
  <2> QED
    BY <1>1, <1>5, <2>1, SilentStep DEF StopPool, serverVars
<1> QED
  BY <1>1, <1>2, <1>3, <1>4, <1>5, AnswerStep, ApplyStep, EraseIsSilent DEF Next, Refresh

\* Whatever overlaps, is lost or comes late: the list changes only by the application of a
\* whole answer of the server, at most once, an instance that is listed before and after
\* keeps its CheckInsData, and none that was dropped is listed again
\* (eureka_agent.cpp:504-619).
THEOREM CheckAppImplementsList == Spec => ImplementsList
<1>1. Init => List!ListInit
  <2> SUFFICES ASSUME Init PROVE List!ListInit
    OBVIOUS
  <2>1. toApply = [t \in Threads |-> None]
    BY DEF Init, toApply
  <2>2. entries = [i \in InsIds |-> None]
    BY DEF Init, entries, entry, Listed
  <2>3. numbers = [i \in InsIds |-> {}]
    BY DEF Init, numbers
  <2>4. registry \in List!Registry
    BY DEF Init, Registry, List!Registry
  <2> QED
    BY <2>1, <2>2, <2>3, <2>4 DEF List!ListInit, toApply, entries, entry, numbers
<1>2. IInv /\ [Next]_vars => [List!ListNext]_(List!listVars)
  BY ListStep DEF MappedStep, List!listVars, toApply, entries, entry, numbers
<1> QED
  BY <1>1, <1>2, IInvHolds, PTL DEF Spec, ImplementsList, List!ListSpec
=============================================================================
