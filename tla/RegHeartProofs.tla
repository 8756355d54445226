---------------------------- MODULE RegHeartProofs ----------------------------
(***************************************************************************)
(* Proofs about RegHeart, for any number of instances, callers, threads,   *)
(* calls and restarts: `doing` is taken back, an entry has no more heart   *)
(* jobs at once than it was registered times, what the agent sends hearts  *)
(* for agrees with the server unless a call failed or overlapped with      *)
(* another on the same instance, and there are no more entries and heart   *)
(* jobs than calls brought.                                                *)
(***************************************************************************)
EXTENDS RegHeart, FiniteSetTheorems, SequenceTheorems, TLAPS

-----------------------------------------------------------------------------
\* The inductive invariant

\* How many jobs and objects there are does not matter here, so nothing is bounded.
Types ==
  /\ m_regs \in [InsIds -> Nat] /\ \A i \in InsIds : m_regs[i] <= made
  /\ doing \in [Objects -> BOOLEAN]
  /\ queue \in Seq(Nat)
  /\ beating \in [Objects -> Nat]
  /\ phase \in Phases
  /\ pc \in [Callers -> PCs] /\ ins \in [Callers -> InsIds]
  /\ reg \in [Callers -> Nat]
  /\ registrations \in [Objects -> Nat]
  /\ made \in Nat

\* m_do_thread takes jobs for as long as there is a timer thread, and longer.
OpenForTimer == phase \in {"running", "flagged", "timerStopped"} => m_enable_emplace

\* What is known of instance i while its last call, by c, is under way: from its answer
\* on the server has the instance or not, and from Insert on there is an entry.
CallKnows(c, i) ==
  /\ pc[c] = "insert" => i \in server
  /\ pc[c] \in {"check", "emplace"} => i \in server /\ m_regs[i] # 0
  /\ pc[c] = "erase" => i \notin server

\* Only overlapping calls on an instance are contended.
AloneOn(i) == \A c, d \in Callers : InCallOn(c, i) /\ InCallOn(d, i) => c = d

CallsKnow ==
  \A i \in InsIds \ contended :
    /\ AloneOn(i)
    /\ i \notin unsure => \A c \in Callers : InCallOn(c, i) => CallKnows(c, i)

\* A registration of entry o is a caller that has marked the entry and not emplaced its
\* job, a job in the queue, a job that runs, or is left to the timer: that is what
\* `doing` being down stands for, for one registration at most.
Emplacing(c, o) == reg[c] = o /\ pc[c] \in {"check", "emplace"}
Emplacers(o) == {c \in Callers : Emplacing(c, o)}
Places(q, o) == {k \in DOMAIN q : q[k] = o}
Spare(o) == IF registrations[o] > 0 /\ ~doing[o] THEN 1 ELSE 0

Counted(o) ==
  /\ IsFiniteSet(Emplacers(o))
  /\ Cardinality(Places(queue, o)) + beating[o] + Cardinality(Emplacers(o)) + Spare(o)
       <= registrations[o]

HeartsCounted ==
  /\ \A i \in InsIds : m_regs[i] \in Objects => registrations[m_regs[i]] > 0
  /\ \A o \in Objects : Counted(o)

IInv == Types /\ OpenForTimer /\ DoingHasJob /\ HeartsCounted /\ CallsKnow /\ AgreesWithServer

-----------------------------------------------------------------------------
\* What has the elements of a finite set in some order has each of them.
LEMMA OrderHasAll ==
  ASSUME NEW T, NEW S \in SUBSET T, IsFiniteSet(S), NEW s \in SetToSeqs(S)
  PROVE  s \in Seq(T) /\ ToSet(s) = S /\ Len(s) = Cardinality(S)
<1> DEFINE D == 1 .. Cardinality(S)
<1>1. Cardinality(S) \in Nat
  BY FS_CardinalityType
<1>2. s \in [D -> S] /\ \A i, j \in D : i # j => s[i] # s[j]
  BY DEF SetToSeqs
<1>3. s \in Injection(D, S)
  BY <1>2 DEF IsInjective, Injection
<1>4. Cardinality(D) = Cardinality(S)
  BY <1>1, FS_Interval
<1>5. s \in Surjection(D, S)
  BY <1>1, <1>3, <1>4, FS_Injection
<1>6. ToSet(s) = S
  BY <1>2, <1>5 DEF Surjection, ToSet
<1>7. s \in Seq(T) /\ Len(s) = Cardinality(S)
  BY <1>1, <1>2
<1> QED
  BY <1>6, <1>7

\* The entries of m_regs are finitely many.
LEMMA RegisteredFinite ==
  ASSUME Types, NEW due \in SUBSET Registered
  PROVE  due \subseteq Nat /\ IsFiniteSet(due)
<1>1. due \subseteq 0 .. made /\ made \in Nat
  BY DEF Types, Registered
<1>2. IsFiniteSet(0 .. made)
  BY <1>1, FS_Interval
<1>3. IsFiniteSet(due)
  BY <1>1, <1>2, FS_Subset
<1> QED
  BY <1>1, <1>3

\* Jobs that are added at the back of the queue leave the others there.
LEMMA QueueGrows ==
  ASSUME NEW T, NEW q \in Seq(T), NEW s \in Seq(T)
  PROVE  q \o s \in Seq(T) /\ ToSet(q \o s) = ToSet(q) \cup ToSet(s)
<1>1. q \o s \in Seq(T) /\ Len(q \o s) = Len(q) + Len(s) /\ Len(q) \in Nat /\ Len(s) \in Nat
  BY ConcatProperties, LenProperties
<1>2. \A k \in 1 .. Len(q) + Len(s) : (q \o s)[k] = IF k <= Len(q) THEN q[k] ELSE s[k - Len(q)]
  BY ConcatProperties
<1>3. /\ DOMAIN q = 1 .. Len(q) /\ DOMAIN s = 1 .. Len(s)
      /\ DOMAIN (q \o s) = 1 .. Len(q) + Len(s)
  BY <1>1, LenProperties
<1>4. ToSet(q \o s) \subseteq ToSet(q) \cup ToSet(s)
  <2> SUFFICES ASSUME NEW k \in 1 .. Len(q) + Len(s)
               PROVE  (q \o s)[k] \in ToSet(q) \cup ToSet(s)
    BY <1>3 DEF ToSet
  <2>1. CASE k <= Len(q)
    <3>1. k \in 1 .. Len(q) /\ (q \o s)[k] = q[k]
      BY <1>1, <1>2, <2>1
    <3> QED
      BY <1>3, <3>1 DEF ToSet
  <2>2. CASE ~(k <= Len(q))
    <3>1. k - Len(q) \in 1 .. Len(s) /\ (q \o s)[k] = s[k - Len(q)]
      BY <1>1, <1>2, <2>2
    <3> QED
      BY <1>3, <3>1 DEF ToSet
  <2> QED
    BY <2>1, <2>2
<1>5. ToSet(q) \subseteq ToSet(q \o s)
  <2> SUFFICES ASSUME NEW k \in 1 .. Len(q) PROVE q[k] \in ToSet(q \o s)
    BY <1>3 DEF ToSet
  <2>1. k \in 1 .. Len(q) + Len(s) /\ (q \o s)[k] = q[k]
    BY <1>1, <1>2
  <2> QED
    BY <1>3, <2>1 DEF ToSet
<1>6. ToSet(s) \subseteq ToSet(q \o s)
  <2> SUFFICES ASSUME NEW k \in 1 .. Len(s) PROVE s[k] \in ToSet(q \o s)
    BY <1>3 DEF ToSet
  <2>1. /\ Len(q) + k \in 1 .. Len(q) + Len(s) /\ ~(Len(q) + k <= Len(q))
        /\ (Len(q) + k) - Len(q) = k
    BY <1>1
  <2>2. (q \o s)[Len(q) + k] = s[k]
    BY <1>2, <2>1
  <2> QED
    BY <1>3, <2>1, <2>2 DEF ToSet
<1> QED
  BY <1>1, <1>4, <1>5, <1>6

\* A job that is emplaced is in the queue.
LEMMA QueueAppends ==
  ASSUME NEW T, NEW q \in Seq(T), NEW o \in T
  PROVE  Append(q, o) \in Seq(T) /\ ToSet(Append(q, o)) = ToSet(q) \cup {o}
<1>1. /\ Append(q, o) \in Seq(T) /\ Len(Append(q, o)) = Len(q) + 1 /\ Len(q) \in Nat
      /\ \A k \in 1 .. Len(q) : Append(q, o)[k] = q[k]
      /\ Append(q, o)[Len(q) + 1] = o
  BY AppendProperties, LenProperties
<1>2. DOMAIN q = 1 .. Len(q) /\ DOMAIN Append(q, o) = 1 .. Len(q) + 1
  BY <1>1, LenProperties
<1>3. 1 .. Len(q) + 1 = (1 .. Len(q)) \cup {Len(q) + 1}
  BY <1>1
<1> QED
  BY <1>1, <1>2, <1>3 DEF ToSet

\* A job that was queued is still there or is the one that was taken.
LEMMA QueueShrinks ==
  ASSUME NEW T, NEW q \in Seq(T), q # <<>>
  PROVE  /\ Front(q) \in Seq(T) /\ Len(Front(q)) = Len(q) - 1
         /\ ToSet(q) = ToSet(Front(q)) \cup {Last(q)} /\ Last(q) \in T
<1>1. Len(q) \in Nat \ {0} /\ DOMAIN q = 1 .. Len(q) /\ Last(q) = q[Len(q)]
  BY LenProperties, EmptySeq DEF Last
<1>2. /\ Front(q) \in Seq(T) /\ DOMAIN Front(q) = 1 .. Len(q) - 1
      /\ Len(Front(q)) = Len(q) - 1
      /\ \A k \in 1 .. Len(q) - 1 : Front(q)[k] = q[k]
  <2>1. 1 \in Int /\ Len(q) - 1 \in Int /\ \A k \in 1 .. Len(q) - 1 : q[k] \in T
    BY <1>1, LenProperties
  <2>2. /\ SubSeq(q, 1, Len(q) - 1) \in Seq(T)
        /\ Len(SubSeq(q, 1, Len(q) - 1)) = IF 1 <= Len(q) - 1 THEN (Len(q) - 1) - 1 + 1 ELSE 0
        /\ \A k \in 1 .. (Len(q) - 1) - 1 + 1 : SubSeq(q, 1, Len(q) - 1)[k] = q[1 + k - 1]
    BY <2>1, SubSeqProperties
  <2>3. DOMAIN SubSeq(q, 1, Len(q) - 1) = 1 .. Len(SubSeq(q, 1, Len(q) - 1))
    BY <2>2, LenProperties
  <2> QED
    BY <1>1, <2>2, <2>3 DEF Front
<1>3. 1 .. Len(q) = (1 .. Len(q) - 1) \cup {Len(q)}
  BY <1>1
<1>4. Last(q) \in T
  BY <1>1, ElementOfSeq
<1> QED
  BY <1>1, <1>2, <1>3, <1>4 DEF ToSet

\* A new agent has no entries, no jobs and no calls.
LEMMA IInvInit == Init => IInv
<1> SUFFICES ASSUME Init PROVE IInv
  OBVIOUS
<1>1. AnyIns \in InsIds
  BY RegAssumption DEF AnyIns
<1>2. Types /\ OpenForTimer /\ DoingHasJob
  BY <1>1 DEF Init, Types, OpenForTimer, DoingHasJob, Objects, Phases, PCs
<1>3. HeartsCounted
  <2> SUFFICES ASSUME NEW o \in Objects PROVE Counted(o)
    BY DEF Init, HeartsCounted, Objects
  <2>1. Emplacers(o) = {} /\ Places(queue, o) = {} /\ Spare(o) = 0
    BY DEF Init, Emplacers, Emplacing, Places, Spare
  <2>2. IsFiniteSet({}) /\ Cardinality({}) = 0
    BY FS_EmptySet
  <2>3. beating[o] = 0 /\ registrations[o] = 0
    BY DEF Init
  <2> QED
    BY <2>1, <2>2, <2>3 DEF Counted
<1>4. CallsKnow /\ AgreesWithServer
  BY DEF Init, CallsKnow, AloneOn, InCallOn, AgreesWithServer
<1> QED
  BY <1>2, <1>3, <1>4 DEF IInv

-----------------------------------------------------------------------------
\* The parts of the invariant, step by step

\* Steps of a call that take no job and change no entry.
CallStep(c) ==
  \/ RegisterOnServer(c) \/ UnregisterOnServer(c) \/ CheckEmplace(c)

\* The state stays one of objects, jobs and calls.
LEMMA TypesStep == Types /\ [Next]_vars => Types'
<1> SUFFICES ASSUME Types, [Next]_vars PROVE Types'
  OBVIOUS
<1> USE DEF Types, Phases, PCs, poolVars, agentVars, callVars, serverVars
<1>0. AnyIns \in InsIds
  BY RegAssumption DEF AnyIns
<1>1. CASE UNCHANGED vars
  BY <1>1 DEF vars
<1>2. ASSUME NEW c \in Callers, NEW i \in InsIds, Call(c, i) PROVE Types'
  BY <1>2 DEF Call, Go
<1>3. ASSUME NEW c \in Callers, CallStep(c) PROVE Types'
  BY <1>0, <1>3 DEF CallStep, RegisterOnServer, UnregisterOnServer, OnServer, CheckEmplace,
     Return, Go
<1>4. ASSUME NEW c \in Callers, Insert(c) PROVE Types'
  <2> DEFINE known == m_regs[ins[c]] # 0
             o == IF known THEN m_regs[ins[c]] ELSE made + 1
  <2>1. /\ ins[c] \in InsIds /\ made \in Nat /\ made' = (IF known THEN made ELSE made + 1)
        /\ m_regs' = [m_regs EXCEPT ![ins[c]] = o] /\ doing' = [doing EXCEPT ![o] = TRUE]
        /\ reg' = [reg EXCEPT ![c] = o]
        /\ registrations' = [registrations EXCEPT ![o] = registrations[o] + 1]
    BY <1>4 DEF Insert
  <2>2. o \in Nat /\ o <= made' /\ made' \in Nat /\ made <= made'
    BY <2>1
  <2> HIDE DEF known, o
  <2>3. m_regs' \in [InsIds -> Nat] /\ \A i \in InsIds : m_regs'[i] <= made'
    BY <2>1, <2>2
  <2>4. doing' \in [Objects -> BOOLEAN] /\ reg' \in [Callers -> Nat]
    BY <2>1, <2>2
  <2>5. registrations' \in [Objects -> Nat]
    <3>1. \A p \in Objects : registrations[p] + 1 \in Nat
      OBVIOUS
    <3> QED
      BY <2>1, <3>1
  <2> QED
    BY <1>4, <2>2, <2>3, <2>4, <2>5 DEF Insert, Go
<1>5. ASSUME NEW c \in Callers, EmplaceRefused(c) \/ Erase(c) PROVE Types'
  <2>1. CASE EmplaceRefused(c)
    BY <1>0, <2>1 DEF EmplaceRefused, Return, Go
  <2>2. CASE Erase(c)
    BY <1>0, <2>2 DEF Erase, Return, Go
  <2> QED
    BY <1>5, <2>1, <2>2
<1>6. ASSUME NEW c \in Callers, Emplace(c) PROVE Types'
  <2>1. queue' \in Seq(Nat)
    <3>1. queue \in Seq(Nat) /\ reg[c] \in Nat /\ queue' = Append(queue, reg[c])
      BY <1>6 DEF Emplace
    <3> QED
      BY <3>1, QueueAppends
  <2> QED
    BY <1>0, <1>6, <2>1 DEF Emplace, Return, Go
<1>7. ASSUME NEW due \in SUBSET Registered, TimerRegHeart(due) PROVE Types'
  <2> DEFINE idle == {o \in due : ~doing[o]}
  <2>1. idle \subseteq Nat /\ IsFiniteSet(idle)
    BY RegisteredFinite
  <2>2. queue' \in Seq(Nat)
    <3>1. queue \in Seq(Nat) /\ (queue' = queue \/ \E s \in SetToSeqs(idle) : queue' = queue \o s)
      BY <1>7 DEF TimerRegHeart
    <3>2. \A s \in SetToSeqs(idle) : s \in Seq(Nat)
      BY <2>1, OrderHasAll
    <3> QED
      BY <3>1, <3>2, QueueGrows
  <2> QED
    BY <1>7, <2>2 DEF TimerRegHeart
<1>8. CASE HeartBegin
  <2>1. queue' \in Seq(Nat) /\ Last(queue) \in Nat
    <3>1. queue \in Seq(Nat) /\ queue # <<>> /\ queue' = Front(queue)
      BY <1>8 DEF HeartBegin
    <3> QED
      BY <3>1, QueueShrinks
  <2>2. beating' \in [Objects -> Nat]
    <3>1. beating \in [Objects -> Nat] /\ beating' = [beating EXCEPT ![Last(queue)] = @ + 1]
      BY <1>8 DEF HeartBegin
    <3>2. /\ beating' = [o \in Objects |-> IF o = Last(queue) THEN beating[Last(queue)] + 1 ELSE beating[o]]
      BY <3>1, Zenon
    <3>3. \A o \in Objects : beating'[o] \in Nat
      <4> TAKE o \in Objects
      <4>1. beating'[o] = IF o = Last(queue) THEN beating[o] + 1 ELSE beating[o]
        BY <3>2, Zenon
      <4>2. beating[o] \in Nat
        BY <3>1
      <4> QED
        BY <4>1, <4>2
    <3> QED
      BY <3>2, <3>3
  <2> QED
    BY <1>8, <2>1, <2>2 DEF HeartBegin
<1>9. ASSUME NEW o \in Objects, HeartEnd(o) PROVE Types'
  BY <1>9 DEF HeartEnd
<1>10. CASE StartFlag \/ StartThreads \/ StopFlag \/ Stopping
  BY <1>10 DEF StartFlag, StartThreads, StopFlag, Stopping, StopTimer, StopCloses, StopDrains,
     StopJoins, OwnerStep
<1> QED
  BY <1>1, <1>2, <1>3, <1>4, <1>5, <1>6, <1>7, <1>8, <1>9, <1>10 DEF Next, InCall, CallStep

\* The queue is closed only after the timer thread has been joined.
LEMMA OpenForTimerStep == OpenForTimer /\ [Next]_vars => OpenForTimer'
<1> SUFFICES ASSUME OpenForTimer, [Next]_vars PROVE OpenForTimer'
  OBVIOUS
<1> USE DEF OpenForTimer, poolVars, agentVars, callVars, serverVars
<1>1. CASE UNCHANGED <<phase, m_enable_emplace>>
  BY <1>1
<1>2. CASE StartFlag \/ StartThreads \/ StopFlag \/ Stopping
  BY <1>2 DEF StartFlag, StartThreads, StopFlag, Stopping, StopTimer, StopCloses, StopDrains,
     StopJoins, OwnerStep
<1>3. ASSUME NEW c \in Callers, InCall(c) \/ \E i \in InsIds : Call(c, i)
      PROVE  UNCHANGED <<phase, m_enable_emplace>>
  BY <1>3 DEF InCall, Call, RegisterOnServer, UnregisterOnServer, OnServer, Insert,
     CheckEmplace, EmplaceRefused, Emplace, Erase
<1> QED
  BY <1>1, <1>2, <1>3 DEF vars, Next, TimerRegHeart, HeartBegin, HeartEnd

-----------------------------------------------------------------------------
\* The hearts of one entry

\* A count that gains an element at most.
LEMMA CountOneMore ==
  ASSUME NEW S, IsFiniteSet(S), NEW x, NEW T \in SUBSET (S \cup {x})
  PROVE  /\ IsFiniteSet(T) /\ Cardinality(T) \in Nat /\ Cardinality(S) \in Nat
         /\ Cardinality(T) <= Cardinality(S) + 1
<1>1. IsFiniteSet(S \cup {x}) /\ Cardinality(S \cup {x}) <= Cardinality(S) + 1
  <2>1. /\ IsFiniteSet(S \cup {x})
        /\ Cardinality(S \cup {x}) = IF x \in S THEN Cardinality(S) ELSE Cardinality(S) + 1
    BY FS_AddElement
  <2>2. Cardinality(S) \in Nat
    BY FS_CardinalityType
  <2> QED
    BY <2>1, <2>2
<1>2. IsFiniteSet(T) /\ Cardinality(T) <= Cardinality(S \cup {x})
  BY <1>1, FS_Subset
<1>3. Cardinality(T) \in Nat /\ Cardinality(S) \in Nat /\ Cardinality(S \cup {x}) \in Nat
  BY <1>1, <1>2, FS_CardinalityType
<1> QED
  BY <1>1, <1>2, <1>3

\* A count that loses an element at least.
LEMMA CountOneLess ==
  ASSUME NEW S, IsFiniteSet(S), NEW x \in S, NEW T \in SUBSET (S \ {x})
  PROVE  /\ IsFiniteSet(T) /\ Cardinality(T) \in Nat /\ Cardinality(S) \in Nat
         /\ Cardinality(T) + 1 <= Cardinality(S)
<1>1. IsFiniteSet(S \ {x}) /\ Cardinality(S \ {x}) = Cardinality(S) - 1
  BY FS_RemoveElement
<1>2. IsFiniteSet(T) /\ Cardinality(T) <= Cardinality(S \ {x})
  BY <1>1, FS_Subset
<1>3. Cardinality(T) \in Nat /\ Cardinality(S) \in Nat /\ Cardinality(S \ {x}) \in Nat
  BY <1>1, <1>2, FS_CardinalityType
<1> QED
  BY <1>1, <1>2, <1>3

\* A count that gains none.
LEMMA CountLess ==
  ASSUME NEW S, IsFiniteSet(S), NEW T \in SUBSET S
  PROVE  /\ IsFiniteSet(T) /\ Cardinality(T) \in Nat /\ Cardinality(S) \in Nat
         /\ Cardinality(T) <= Cardinality(S)
BY FS_Subset, FS_CardinalityType

\* The places of o in a queue that grows at the back by another job, ...
LEMMA PlacesAppend ==
  ASSUME NEW T, NEW q \in Seq(T), NEW p \in T, NEW o
  PROVE  /\ Places(Append(q, p), o) \in SUBSET (Places(q, o) \cup {Len(q) + 1})
         /\ p # o => Places(Append(q, p), o) \in SUBSET Places(q, o)
<1>1. /\ Append(q, p) \in Seq(T) /\ Len(Append(q, p)) = Len(q) + 1 /\ Len(q) \in Nat
      /\ \A k \in 1 .. Len(q) : Append(q, p)[k] = q[k]
      /\ Append(q, p)[Len(q) + 1] = p
  BY AppendProperties, LenProperties
<1>2. DOMAIN q = 1 .. Len(q) /\ DOMAIN Append(q, p) = 1 .. Len(q) + 1
  BY <1>1, LenProperties
<1>3. \A k \in 1 .. Len(q) + 1 : k \in 1 .. Len(q) \/ k = Len(q) + 1
  BY <1>1
<1> QED
  BY <1>1, <1>2, <1>3 DEF Places

\* ... by a job for each of a set, ...
LEMMA PlacesConcat ==
  ASSUME NEW T, NEW q \in Seq(T), NEW S \in SUBSET T, IsFiniteSet(S),
         NEW s \in SetToSeqs(S), NEW o
  PROVE  /\ \E x : Places(q \o s, o) \in SUBSET (Places(q, o) \cup {x})
         /\ o \notin S => Places(q \o s, o) \in SUBSET Places(q, o)
<1>1. s \in Seq(T) /\ ToSet(s) = S
  BY OrderHasAll
<1>2. \A i, j \in DOMAIN s : i # j => s[i] # s[j]
  <2>1. /\ s \in [1 .. Cardinality(S) -> S]
        /\ \A i, j \in 1 .. Cardinality(S) : i # j => s[i] # s[j]
    BY DEF SetToSeqs
  <2> QED
    BY <2>1
<1>3. /\ Len(q \o s) = Len(q) + Len(s) /\ Len(q) \in Nat /\ Len(s) \in Nat
      /\ q \o s \in Seq(T)
  BY <1>1, ConcatProperties, LenProperties
<1>4. \A k \in 1 .. Len(q) + Len(s) : (q \o s)[k] = IF k <= Len(q) THEN q[k] ELSE s[k - Len(q)]
  BY <1>1, ConcatProperties
<1>5. /\ DOMAIN q = 1 .. Len(q) /\ DOMAIN s = 1 .. Len(s)
      /\ DOMAIN (q \o s) = 1 .. Len(q) + Len(s)
  BY <1>1, <1>3, LenProperties
<1>6. ASSUME NEW k \in Places(q \o s, o)
      PROVE  k \in Places(q, o) \/ (k \in Nat /\ k - Len(q) \in DOMAIN s /\ s[k - Len(q)] = o)
  <2>1. k \in 1 .. Len(q) + Len(s) /\ (q \o s)[k] = o
    BY <1>5 DEF Places
  <2>2. CASE k <= Len(q)
    <3>1. k \in 1 .. Len(q) /\ q[k] = o
      BY <1>3, <1>4, <2>1, <2>2
    <3> QED
      BY <1>5, <3>1 DEF Places
  <2>3. CASE ~(k <= Len(q))
    <3>1. k \in Nat /\ k - Len(q) \in 1 .. Len(s) /\ s[k - Len(q)] = o
      BY <1>3, <1>4, <2>1, <2>3
    <3> QED
      BY <1>5, <3>1
  <2> QED
    BY <2>2, <2>3
<1>7. CASE o \notin S
  <2>1. \A i \in DOMAIN s : s[i] # o
    BY <1>1, <1>7 DEF ToSet
  <2>2. Places(q \o s, o) \in SUBSET Places(q, o)
    BY <1>6, <2>1
  <2> QED
    BY <2>2
<1>8. CASE o \in S
  <2>1. PICK i \in DOMAIN s : s[i] = o
    BY <1>1, <1>8 DEF ToSet
  <2>2. ASSUME NEW k \in Places(q \o s, o) PROVE k \in Places(q, o) \/ k = Len(q) + i
    <3>1. CASE k \in Nat /\ k - Len(q) \in DOMAIN s /\ s[k - Len(q)] = o
      <4>1. k - Len(q) = i
        BY <1>2, <2>1, <3>1
      <4> QED
        BY <1>3, <1>5, <2>1, <3>1, <4>1
    <3> QED
      BY <1>6, <3>1
  <2>3. Places(q \o s, o) \in SUBSET (Places(q, o) \cup {Len(q) + i})
    BY <2>2
  <2> QED
    BY <1>8, <2>3
<1> QED
  BY <1>7, <1>8

\* ... or shrinks from the back.
LEMMA PlacesFront ==
  ASSUME NEW T, NEW q \in Seq(T), q # <<>>, NEW o
  PROVE  /\ Places(Front(q), o) \in SUBSET (Places(q, o) \ {Len(q)})
         /\ o = Last(q) => Len(q) \in Places(q, o)
<1>1. Len(q) \in Nat \ {0} /\ DOMAIN q = 1 .. Len(q) /\ Last(q) = q[Len(q)]
  BY LenProperties, EmptySeq DEF Last
<1>2. 1 \in Int /\ Len(q) - 1 \in Int /\ \A k \in 1 .. Len(q) - 1 : q[k] \in T
  BY <1>1, LenProperties
<1>3. /\ SubSeq(q, 1, Len(q) - 1) \in Seq(T)
      /\ Len(SubSeq(q, 1, Len(q) - 1)) = IF 1 <= Len(q) - 1 THEN (Len(q) - 1) - 1 + 1 ELSE 0
      /\ \A k \in 1 .. (Len(q) - 1) - 1 + 1 : SubSeq(q, 1, Len(q) - 1)[k] = q[1 + k - 1]
  BY <1>2, SubSeqProperties
<1>4. DOMAIN Front(q) = 1 .. Len(q) - 1 /\ \A k \in 1 .. Len(q) - 1 : Front(q)[k] = q[k]
  <2>1. DOMAIN SubSeq(q, 1, Len(q) - 1) = 1 .. Len(SubSeq(q, 1, Len(q) - 1))
    BY <1>3, LenProperties
  <2> QED
    BY <1>1, <1>3, <2>1 DEF Front
<1> QED
  BY <1>1, <1>4 DEF Places

\* What is counted is finite.
CountsNat(o) ==
  /\ IsFiniteSet(Places(queue, o)) /\ Cardinality(Places(queue, o)) \in Nat
  /\ IsFiniteSet(Emplacers(o)) /\ Cardinality(Emplacers(o)) \in Nat
  /\ beating[o] \in Nat /\ registrations[o] \in Nat /\ Spare(o) \in {0, 1}

LEMMA CountedIsNat ==
  ASSUME Types, NEW o \in Objects, Counted(o)
  PROVE  CountsNat(o)
<1>1. IsFiniteSet(DOMAIN queue)
  <2>1. DOMAIN queue = 1 .. Len(queue) /\ Len(queue) \in Nat
    BY LenProperties DEF Types
  <2> QED
    BY <2>1, FS_Interval
<1>2. IsFiniteSet(Places(queue, o)) /\ Cardinality(Places(queue, o)) \in Nat
  <2>1. Places(queue, o) \subseteq DOMAIN queue
    BY DEF Places
  <2> QED
    BY <1>1, <2>1, FS_Subset, FS_CardinalityType
<1>3. IsFiniteSet(Emplacers(o)) /\ Cardinality(Emplacers(o)) \in Nat
  BY FS_CardinalityType DEF Counted
<1>4. beating[o] \in Nat /\ registrations[o] \in Nat
  BY DEF Types
<1>5. Spare(o) \in {0, 1}
  BY DEF Spare
<1> QED
  BY <1>2, <1>3, <1>4, <1>5 DEF CountsNat

\* A step that brings entry o nothing.
LEMMA CountedLess ==
  ASSUME Types, Types', NEW o \in Objects, Counted(o),
         Places(queue', o) \in SUBSET Places(queue, o), beating'[o] <= beating[o],
         Emplacers(o)' \in SUBSET Emplacers(o),
         registrations'[o] = registrations[o], doing[o] => doing'[o]
  PROVE  Counted(o)'
<1>1. CountsNat(o)
  BY CountedIsNat
<1>2. /\ Cardinality(Places(queue', o)) \in Nat
      /\ Cardinality(Places(queue', o)) <= Cardinality(Places(queue, o))
  BY <1>1, CountLess DEF CountsNat
<1>3. /\ IsFiniteSet(Emplacers(o)') /\ Cardinality(Emplacers(o)') \in Nat
      /\ Cardinality(Emplacers(o)') <= Cardinality(Emplacers(o))
  BY <1>1, CountLess DEF CountsNat
<1>4. Spare(o)' \in {0, 1} /\ Spare(o)' <= Spare(o)
  BY DEF Spare
<1>5. beating'[o] \in Nat
  BY DEF Types
<1> QED
  BY <1>1, <1>2, <1>3, <1>4, <1>5 DEF Counted, CountsNat

\* Every registration becomes one job after the other: that of the caller, and those the
\* timer adds once `doing` is down, which the end of a job has brought about.
LEMMA HeartsCountedStep ==
  ASSUME Types, HeartsCounted, [Next]_vars
  PROVE  HeartsCounted'
<1> USE DEF poolVars, agentVars, callVars, serverVars
<1>0. Types'
  BY TypesStep
<1>1. ASSUME UNCHANGED <<m_regs, registrations>>, \A o \in Objects : Counted(o)'
      PROVE  HeartsCounted'
  BY <1>1 DEF HeartsCounted
<1>2. ASSUME UNCHANGED <<queue, beating, registrations, doing>>,
             \A c \in Callers, o \in Objects : Emplacing(c, o)' => Emplacing(c, o),
             \A i \in InsIds : m_regs'[i] = m_regs[i] \/ m_regs'[i] = 0
      PROVE  HeartsCounted'
  <2>1. ASSUME NEW o \in Objects PROVE Counted(o)'
    <3>1. Emplacers(o)' \in SUBSET Emplacers(o)
      BY <1>2 DEF Emplacers
    <3>2. beating'[o] <= beating[o] /\ Places(queue', o) \in SUBSET Places(queue, o)
      BY <1>2 DEF Types
    <3> QED
      BY <1>0, <1>2, <3>1, <3>2, CountedLess DEF HeartsCounted
  <2>2. \A i \in InsIds : m_regs'[i] \in Objects => registrations'[m_regs'[i]] > 0
    BY <1>2 DEF HeartsCounted, Objects
  <2> QED
    BY <2>1, <2>2 DEF HeartsCounted
<1>3. CASE UNCHANGED vars
  BY <1>2, <1>3 DEF vars, Emplacing
<1>4. ASSUME NEW c \in Callers, NEW i \in InsIds, Call(c, i) PROVE HeartsCounted'
  BY <1>2, <1>4 DEF Call, Go, Emplacing, Types
<1>5. ASSUME NEW c \in Callers, CallStep(c) \/ Erase(c) \/ EmplaceRefused(c)
      PROVE  HeartsCounted'
  <2>1. /\ UNCHANGED <<queue, beating, registrations, doing>>
        /\ \A d \in Callers \ {c} : pc'[d] = pc[d] /\ reg'[d] = reg[d]
        /\ pc'[c] \in {"check", "emplace"} => pc[c] = "check" /\ reg'[c] = reg[c]
    BY <1>5 DEF CallStep, RegisterOnServer, UnregisterOnServer, OnServer, CheckEmplace, Erase,
       EmplaceRefused, Return, Go, Types
  <2>2. \A i \in InsIds : m_regs'[i] = m_regs[i] \/ m_regs'[i] = 0
    BY <1>5 DEF CallStep, RegisterOnServer, UnregisterOnServer, OnServer, CheckEmplace, Erase,
       EmplaceRefused, Types
  <2> QED
    BY <1>2, <2>1, <2>2 DEF Emplacing
<1>6. ASSUME NEW c \in Callers, Insert(c) PROVE HeartsCounted'
  <2>0. PICK p \in Nat : p = IF m_regs[ins[c]] # 0 THEN m_regs[ins[c]] ELSE made + 1
    <3>1. m_regs[ins[c]] \in Nat /\ made + 1 \in Nat
      BY DEF Types
    <3> QED
      BY <3>1, Zenon
  <2>1. /\ doing' = [doing EXCEPT ![p] = TRUE] /\ reg' = [reg EXCEPT ![c] = p]
        /\ pc[c] = "insert" /\ pc' = [pc EXCEPT ![c] = "check"]
        /\ registrations' = [registrations EXCEPT ![p] = @ + 1]
        /\ m_regs' = [m_regs EXCEPT ![ins[c]] = p]
        /\ UNCHANGED <<queue, beating>>
    BY <1>6, <2>0 DEF Insert, Go
  <2>2. \A i \in InsIds : m_regs'[i] \in Objects => registrations'[m_regs'[i]] > 0
    <3> TAKE i \in InsIds
    <3>1. CASE m_regs'[i] = p
      BY <2>1, <3>1 DEF Types
    <3>2. CASE m_regs'[i] # p
      BY <2>1, <3>2 DEF Types, HeartsCounted
    <3> QED
      BY <3>1, <3>2
  <2>3. ASSUME NEW o \in Objects, o # p PROVE Counted(o)'
    <3>1. Emplacers(o)' \in SUBSET Emplacers(o)
      BY <2>1, <2>3 DEF Emplacers, Emplacing, Types
    <3>2. /\ beating'[o] <= beating[o] /\ Places(queue', o) \in SUBSET Places(queue, o)
          /\ registrations'[o] = registrations[o] /\ doing'[o] = doing[o]
      BY <2>1, <2>3 DEF Types
    <3> QED
      BY <1>0, <3>1, <3>2, CountedLess DEF HeartsCounted
  <2>4. ASSUME p \in Objects PROVE Counted(p)'
    <3>1. Counted(p) /\ CountsNat(p)
      BY <2>4, CountedIsNat DEF HeartsCounted
    <3>2. Emplacers(p)' \in SUBSET (Emplacers(p) \cup {c})
      BY <2>1 DEF Emplacers, Emplacing, Types
    <3>3. /\ IsFiniteSet(Emplacers(p)') /\ Cardinality(Emplacers(p)') \in Nat
          /\ Cardinality(Emplacers(p)') <= Cardinality(Emplacers(p)) + 1
      BY <3>1, <3>2, CountOneMore DEF CountsNat
    <3>4. /\ registrations'[p] = registrations[p] + 1 /\ doing'[p]
          /\ beating'[p] = beating[p] /\ Places(queue', p) = Places(queue, p)
      BY <2>1, <2>4 DEF Types
    <3>5. Spare(p)' = 0
      BY <3>4 DEF Spare
    <3> QED
      BY <3>1, <3>3, <3>4, <3>5 DEF Counted, CountsNat
  <2> QED
    BY <2>2, <2>3, <2>4 DEF HeartsCounted
<1>7. ASSUME NEW c \in Callers, Emplace(c) PROVE HeartsCounted'
  <2>1. /\ UNCHANGED <<beating, doing, registrations, m_regs>> /\ pc[c] = "emplace"
        /\ queue' = Append(queue, reg[c]) /\ queue \in Seq(Nat) /\ reg[c] \in Nat
        /\ pc'[c] = "out" /\ \A d \in Callers \ {c} : pc'[d] = pc[d] /\ reg'[d] = reg[d]
    BY <1>7 DEF Emplace, Return, Go, Types
  <2>2. ASSUME NEW o \in Objects PROVE Emplacers(o)' \in SUBSET (Emplacers(o) \ {c})
    BY <2>1 DEF Emplacers, Emplacing
  <2>3. ASSUME NEW o \in Objects, o # reg[c] PROVE Counted(o)'
    <3>1. Places(queue', o) \in SUBSET Places(queue, o)
      BY <2>1, <2>3, PlacesAppend
    <3>2. beating'[o] <= beating[o] /\ Emplacers(o)' \in SUBSET Emplacers(o)
      BY <2>1, <2>2 DEF Types
    <3> QED
      BY <1>0, <2>1, <3>1, <3>2, CountedLess DEF HeartsCounted
  <2>4. ASSUME NEW o \in Objects, o = reg[c] PROVE Counted(o)'
    <3>1. Counted(o) /\ CountsNat(o)
      BY CountedIsNat DEF HeartsCounted
    <3>2. Places(queue', o) \in SUBSET (Places(queue, o) \cup {Len(queue) + 1})
      BY <2>1, PlacesAppend
    <3>3. /\ Cardinality(Places(queue', o)) \in Nat
          /\ Cardinality(Places(queue', o)) <= Cardinality(Places(queue, o)) + 1
      BY <3>1, <3>2, CountOneMore DEF CountsNat
    <3>4. c \in Emplacers(o)
      BY <2>1, <2>4 DEF Emplacers, Emplacing
    <3>5. /\ IsFiniteSet(Emplacers(o)') /\ Cardinality(Emplacers(o)') \in Nat
          /\ Cardinality(Emplacers(o)') + 1 <= Cardinality(Emplacers(o))
      BY <2>2, <3>1, <3>4, CountOneLess DEF CountsNat
    <3>6. /\ Spare(o)' = Spare(o)
          /\ beating'[o] = beating[o] /\ registrations'[o] = registrations[o]
      BY <2>1 DEF Spare
    <3> QED
      BY <3>1, <3>3, <3>5, <3>6 DEF Counted, CountsNat
  <2> QED
    BY <1>1, <2>1, <2>3, <2>4
<1>8. ASSUME NEW due \in SUBSET Registered, TimerRegHeart(due) PROVE HeartsCounted'
  <2> DEFINE idle == {o \in due : ~doing[o]}
  <2>1. idle \in SUBSET Nat /\ IsFiniteSet(idle)
    <3>1. due \subseteq Nat /\ IsFiniteSet(due)
      BY RegisteredFinite
    <3> QED
      BY <3>1, FS_Subset
  <2>2. /\ UNCHANGED <<beating, registrations, m_regs, pc, reg>> /\ queue \in Seq(Nat)
        /\ doing' = [o \in Objects |-> doing[o] \/ o \in idle]
        /\ queue' = queue \/ \E s \in SetToSeqs(idle) : queue' = queue \o s
    BY <1>8 DEF TimerRegHeart, Types
  <2>3. ASSUME NEW o \in Objects, o \in idle PROVE ~doing[o] /\ registrations[o] > 0
    BY <2>3 DEF Registered, HeartsCounted
  <2>4. ASSUME NEW o \in Objects PROVE Emplacers(o)' = Emplacers(o)
    BY <2>2 DEF Emplacers, Emplacing
  <2> HIDE DEF idle
  <2>5. ASSUME NEW o \in Objects, o \notin idle PROVE Counted(o)'
    <3>1. Places(queue', o) \in SUBSET Places(queue, o)
      BY <2>1, <2>2, <2>5, PlacesConcat
    <3>2. beating'[o] <= beating[o] /\ doing'[o] = doing[o]
      BY <2>2, <2>5 DEF Types
    <3> QED
      BY <1>0, <2>2, <2>4, <3>1, <3>2, CountedLess DEF HeartsCounted
  <2>6. ASSUME NEW o \in Objects, o \in idle PROVE Counted(o)'
    <3>1. Counted(o) /\ CountsNat(o)
      BY CountedIsNat DEF HeartsCounted
    <3>2. PICK x : Places(queue', o) \in SUBSET (Places(queue, o) \cup {x})
      <4>1. CASE queue' = queue
        BY <4>1
      <4>2. CASE \E s \in SetToSeqs(idle) : queue' = queue \o s
        BY <2>1, <2>2, <4>2, PlacesConcat
      <4> QED
        BY <2>2, <4>1, <4>2
    <3>3. /\ Cardinality(Places(queue', o)) \in Nat
          /\ Cardinality(Places(queue', o)) <= Cardinality(Places(queue, o)) + 1
      BY <3>1, <3>2, CountOneMore DEF CountsNat
    <3>4. Spare(o) = 1 /\ Spare(o)' = 0
      <4>1. ~doing[o] /\ registrations[o] > 0 /\ doing'[o]
        BY <2>2, <2>3, <2>6
      <4> QED
        BY <4>1 DEF Spare
    <3>5. /\ beating'[o] = beating[o] /\ registrations'[o] = registrations[o]
          /\ Emplacers(o)' = Emplacers(o)
      BY <2>2, <2>4
    <3> QED
      BY <3>1, <3>3, <3>4, <3>5 DEF Counted, CountsNat
  <2> QED
    BY <1>1, <2>2, <2>5, <2>6
<1>9. CASE HeartBegin
  <2> DEFINE p == Last(queue)
  <2>1. /\ UNCHANGED <<doing, registrations, m_regs, pc, reg>> /\ queue \in Seq(Nat)
        /\ queue # <<>> /\ queue' = Front(queue)
        /\ beating' = [beating EXCEPT ![p] = @ + 1]
    BY <1>9 DEF HeartBegin, Types
  <2>2. ASSUME NEW o \in Objects PROVE Emplacers(o)' = Emplacers(o) /\ Spare(o)' = Spare(o)
    BY <2>1 DEF Emplacers, Emplacing, Spare
  <2> HIDE DEF p
  <2>3. ASSUME NEW o \in Objects, o # p PROVE Counted(o)'
    <3>1. Places(queue', o) \in SUBSET Places(queue, o)
      BY <2>1, PlacesFront
    <3>2. beating'[o] <= beating[o]
      BY <2>1, <2>3 DEF Types
    <3> QED
      BY <1>0, <2>1, <2>2, <3>1, <3>2, CountedLess DEF HeartsCounted
  <2>4. ASSUME NEW o \in Objects, o = p PROVE Counted(o)'
    <3>1. Counted(o) /\ CountsNat(o)
      BY CountedIsNat DEF HeartsCounted
    <3>2. Places(queue', o) \in SUBSET (Places(queue, o) \ {Len(queue)}) /\ Len(queue) \in Places(queue, o)
      BY <2>1, <2>4, PlacesFront DEF p
    <3>3. /\ Cardinality(Places(queue', o)) \in Nat
          /\ Cardinality(Places(queue', o)) + 1 <= Cardinality(Places(queue, o))
      BY <3>1, <3>2, CountOneLess DEF CountsNat
    <3>4. beating'[o] = beating[o] + 1
      BY <2>1, <2>4 DEF Types
    <3> QED
      BY <2>1, <2>2, <3>1, <3>3, <3>4 DEF Counted, CountsNat
  <2> QED
    BY <1>1, <2>1, <2>3, <2>4
<1>10. ASSUME NEW p \in Objects, HeartEnd(p) PROVE HeartsCounted'
  <2>1. /\ UNCHANGED <<queue, registrations, m_regs, pc, reg>> /\ beating[p] > 0
        /\ doing' = [doing EXCEPT ![p] = FALSE] /\ beating' = [beating EXCEPT ![p] = @ - 1]
    BY <1>10 DEF HeartEnd
  <2>2. ASSUME NEW o \in Objects PROVE Emplacers(o)' = Emplacers(o)
    BY <2>1 DEF Emplacers, Emplacing
  <2>3. ASSUME NEW o \in Objects, o # p PROVE Counted(o)'
    <3>1. beating'[o] <= beating[o] /\ doing'[o] = doing[o]
      BY <2>1, <2>3 DEF Types
    <3> QED
      BY <1>0, <2>1, <2>2, <3>1, CountedLess DEF HeartsCounted
  <2>4. Counted(p)'
    <3>1. Counted(p) /\ CountsNat(p)
      BY CountedIsNat DEF HeartsCounted
    <3>2. beating'[p] = beating[p] - 1 /\ Spare(p)' \in {0, 1} /\ Emplacers(p)' = Emplacers(p)
      BY <2>1, <2>2 DEF Types, Spare
    <3> QED
      BY <2>1, <3>1, <3>2 DEF Counted, CountsNat
  <2> QED
    BY <1>1, <2>1, <2>3, <2>4
<1>11. CASE StartFlag \/ StartThreads \/ StopFlag \/ Stopping
  <2>1. UNCHANGED <<queue, beating, registrations, m_regs, doing, pc, reg>>
    BY <1>11 DEF StartFlag, StartThreads, StopFlag, Stopping, StopTimer, StopCloses,
       StopDrains, StopJoins, OwnerStep
  <2> QED
    BY <1>2, <2>1 DEF Emplacing
<1> QED
  BY <1>3, <1>4, <1>5, <1>6, <1>7, <1>8, <1>9, <1>10, <1>11 DEF Next, InCall, CallStep

-----------------------------------------------------------------------------
\* `doing` and the calls

\* Where the job of an entry is, or that it was refused.
Covered(o) == HasJob(o) \/ (\E c \in Callers : Emplacing(c, o)) \/ o \in orphans

\* What is up stays covered unless it is taken back: a job is emplaced, queued, running.
LEMMA DoingStep ==
  ASSUME Types, OpenForTimer, DoingHasJob, [Next]_vars
  PROVE  DoingHasJob'
<1> USE DEF poolVars, agentVars, callVars, serverVars
<1>0. /\ \A o \in Objects : doing[o] => Covered(o)
      /\ (\A o \in Objects : doing'[o] => Covered(o)') => DoingHasJob'
  BY DEF DoingHasJob, Covered, Emplacing
<1>1. ASSUME \A o \in Objects : doing'[o] => doing[o] \/ Covered(o)',
             \A o \in Objects : Covered(o) => Covered(o)' \/ ~doing'[o]
      PROVE  DoingHasJob'
  BY <1>0, <1>1
<1>2. ASSUME UNCHANGED <<queue, beating, orphans, doing>>,
             \A c \in Callers, o \in Objects : Emplacing(c, o) => Emplacing(c, o)'
      PROVE  DoingHasJob'
  BY <1>1, <1>2 DEF Covered, HasJob
<1>3. CASE UNCHANGED vars
  BY <1>2, <1>3 DEF vars, Emplacing
<1>4. ASSUME NEW c \in Callers, NEW i \in InsIds, Call(c, i) PROVE DoingHasJob'
  BY <1>2, <1>4 DEF Call, Go, Emplacing, Types
<1>5. ASSUME NEW c \in Callers, CallStep(c) \/ Erase(c) PROVE DoingHasJob'
  <2>1. UNCHANGED <<queue, beating, orphans, doing, reg>>
    BY <1>5 DEF CallStep, RegisterOnServer, UnregisterOnServer, OnServer, CheckEmplace, Erase
  <2>2. /\ \A d \in Callers \ {c} : pc'[d] = pc[d]
        /\ pc[c] \in {"check", "emplace"} => pc'[c] \in {"check", "emplace"}
    BY <1>5 DEF CallStep, RegisterOnServer, UnregisterOnServer, OnServer, CheckEmplace, Erase,
       Return, Go, Types
  <2> QED
    BY <1>2, <2>1, <2>2 DEF Emplacing
<1>6. ASSUME NEW c \in Callers, Insert(c) PROVE DoingHasJob'
  <2>0. PICK p \in Nat : p = IF m_regs[ins[c]] # 0 THEN m_regs[ins[c]] ELSE made + 1
    <3>1. m_regs[ins[c]] \in Nat /\ made + 1 \in Nat
      BY DEF Types
    <3> QED
      BY <3>1, Zenon
  <2>1. /\ doing' = [doing EXCEPT ![p] = TRUE] /\ reg' = [reg EXCEPT ![c] = p]
        /\ pc[c] = "insert" /\ pc' = [pc EXCEPT ![c] = "check"]
        /\ UNCHANGED <<queue, beating, orphans>>
    BY <1>6, <2>0 DEF Insert, Go
  <2>2. Emplacing(c, p)'
    BY <2>1 DEF Emplacing, Types
  <2>3. \A d \in Callers, o \in Objects : Emplacing(d, o) => Emplacing(d, o)'
    BY <2>1 DEF Emplacing, Types
  <2>4. \A o \in Objects : doing'[o] => doing[o] \/ o = p
    BY <2>1 DEF Types
  <2> QED
    BY <1>1, <2>1, <2>2, <2>3, <2>4 DEF Covered, HasJob
<1>7. ASSUME NEW c \in Callers, EmplaceRefused(c) PROVE DoingHasJob'
  <2>1. /\ UNCHANGED <<queue, beating, doing>> /\ orphans' = orphans \cup {reg[c]}
        /\ \A d \in Callers \ {c} : pc'[d] = pc[d] /\ reg'[d] = reg[d]
    BY <1>7 DEF EmplaceRefused, Return, Go, Types
  <2>2. \A d \in Callers, o \in Objects : Emplacing(d, o) => Emplacing(d, o)' \/ o \in orphans'
    BY <2>1 DEF Emplacing
  <2> QED
    BY <1>1, <2>1, <2>2 DEF Covered, HasJob
<1>8. ASSUME NEW c \in Callers, Emplace(c) PROVE DoingHasJob'
  <2>1. /\ UNCHANGED <<beating, doing>> /\ orphans' = orphans \ {reg[c]}
        /\ queue' = Append(queue, reg[c]) /\ queue \in Seq(Nat) /\ reg[c] \in Nat
        /\ \A d \in Callers \ {c} : pc'[d] = pc[d] /\ reg'[d] = reg[d]
    BY <1>8 DEF Emplace, Return, Go, Types
  <2>2. ToSet(queue') = ToSet(queue) \cup {reg[c]}
    BY <2>1, QueueAppends
  <2>3. \A d \in Callers, o \in Objects : Emplacing(d, o) => Emplacing(d, o)' \/ o = reg[c]
    BY <2>1 DEF Emplacing
  <2> QED
    BY <1>1, <2>1, <2>2, <2>3 DEF Covered, HasJob
<1>9. ASSUME NEW due \in SUBSET Registered, TimerRegHeart(due) PROVE DoingHasJob'
  <2> DEFINE idle == {o \in due : ~doing[o]}
  <2>1. idle \subseteq Nat /\ IsFiniteSet(idle)
    BY RegisteredFinite
  <2>2. /\ UNCHANGED <<beating, orphans, pc, reg>> /\ queue \in Seq(Nat)
        /\ doing' = [o \in Objects |-> doing[o] \/ o \in idle]
        /\ \E s \in SetToSeqs(idle) : queue' = queue \o s
    BY <1>9 DEF TimerRegHeart, OpenForTimer, Types
  <2>3. \A s \in SetToSeqs(idle) : s \in Seq(Nat) /\ ToSet(s) = idle
    BY <2>1, OrderHasAll
  <2>4. ToSet(queue') = ToSet(queue) \cup idle
    BY <2>2, <2>3, QueueGrows
  <2> QED
    BY <1>1, <2>2, <2>4 DEF Covered, HasJob, Emplacing
<1>10. CASE HeartBegin
  <2>1. /\ UNCHANGED <<orphans, doing, pc, reg>> /\ queue \in Seq(Nat) /\ queue # <<>>
        /\ queue' = Front(queue) /\ beating \in [Objects -> Nat]
        /\ beating' = [beating EXCEPT ![Last(queue)] = @ + 1]
    BY <1>10 DEF HeartBegin, Types
  <2>2. ToSet(queue) = ToSet(queue') \cup {Last(queue)}
    BY <2>1, QueueShrinks
  <2>3. beating' = [o \in Objects |-> IF o = Last(queue) THEN beating[Last(queue)] + 1 ELSE beating[o]]
    BY <2>1, Zenon
  <2>4. \A o \in Objects : beating[o] > 0 \/ o = Last(queue) => beating'[o] > 0
    <3> TAKE o \in Objects
    <3>1. beating'[o] = (IF o = Last(queue) THEN beating[o] + 1 ELSE beating[o]) /\ beating[o] \in Nat
      BY <2>1, <2>3
    <3> QED
      BY <3>1
  <2> QED
    BY <1>1, <2>1, <2>2, <2>4 DEF Covered, HasJob, Emplacing
<1>11. ASSUME NEW o \in Objects, HeartEnd(o) PROVE DoingHasJob'
  <2>1. /\ UNCHANGED <<orphans, queue, pc, reg>> /\ doing' = [doing EXCEPT ![o] = FALSE]
        /\ beating' = [beating EXCEPT ![o] = @ - 1]
    BY <1>11 DEF HeartEnd
  <2>2. /\ ~doing'[o]
        /\ \A p \in Objects \ {o} : doing'[p] = doing[p] /\ beating'[p] = beating[p]
    BY <2>1 DEF Types
  <2> QED
    BY <1>1, <2>1, <2>2 DEF Covered, HasJob, Emplacing
<1>12. CASE StartFlag \/ StartThreads \/ StopFlag \/ Stopping
  <2>1. UNCHANGED <<queue, beating, orphans, doing, pc, reg>>
    BY <1>12 DEF StartFlag, StartThreads, StopFlag, Stopping, StopTimer, StopCloses,
       StopDrains, StopJoins, OwnerStep
  <2> QED
    BY <1>2, <2>1 DEF Emplacing
<1> QED
  BY <1>3, <1>4, <1>5, <1>6, <1>7, <1>8, <1>9, <1>10, <1>11, <1>12
  DEF Next, InCall, CallStep

-----------------------------------------------------------------------------
\* Calls and the server

\* Steps of nobody's call change neither entries nor what the server holds.
LEMMA OthersQuiet ==
  ASSUME CallsKnow, AgreesWithServer,
         UNCHANGED <<m_regs, server, unsure, contended, pc, ins>>
  PROVE  CallsKnow' /\ AgreesWithServer'
BY DEF CallsKnow, AgreesWithServer, AloneOn, CallKnows, InCallOn

\* A call that nobody contends is alone on its instance; one that is contended, or fails,
\* is not asked what it knows.
LEMMA CallsStep ==
  ASSUME Types, CallsKnow, AgreesWithServer, NEW c \in Callers,
         InCall(c) \/ \E i \in InsIds : Call(c, i)
  PROVE  CallsKnow' /\ AgreesWithServer'
<1> USE DEF poolVars, agentVars, callVars, serverVars
<1> DEFINE Kept(i) ==
             i \notin contended' =>
               /\ AloneOn(i)'
               /\ i \notin unsure' =>
                    /\ \A d \in Callers : InCallOn(d, i)' => CallKnows(d, i)'
                    /\ (\A d \in Callers : ~InCallOn(d, i)') => (m_regs'[i] # 0 <=> i \in server')
<1>1. (\A i \in InsIds : Kept(i)) => CallsKnow' /\ AgreesWithServer'
  BY DEF CallsKnow, AgreesWithServer
<1>2. \A d \in Callers \ {c} : pc'[d] = pc[d] /\ ins'[d] = ins[d]
  BY DEF InCall, Call, RegisterOnServer, UnregisterOnServer, OnServer, Insert, CheckEmplace,
     EmplaceRefused, Emplace, Erase, Return, Go, Types
<1>3. ASSUME NEW i \in InsIds, Call(c, i), NEW j \in InsIds PROVE Kept(j)
  <2>1. /\ pc[c] = "out" /\ pc'[c] \in {"register", "unregister"} /\ ins'[c] = i
        /\ UNCHANGED <<m_regs, server, unsure>>
        /\ contended' = IF \E d \in Callers : InCallOn(d, i)
                          THEN contended \cup {i} ELSE contended \ {i}
    BY <1>3 DEF Call, Go, Types
  <2>2. CASE j = i
    BY <1>2, <2>1, <2>2 DEF AloneOn, CallKnows, InCallOn
  <2>3. CASE j # i
    BY <1>2, <2>1, <2>3 DEF AloneOn, CallKnows, InCallOn, CallsKnow, AgreesWithServer
  <2> QED
    BY <2>2, <2>3
<1>4. ASSUME InCall(c), NEW j \in InsIds PROVE Kept(j)
  <2>0. pc[c] # "out" /\ contended' = contended /\ (pc'[c] = "out" \/ ins'[c] = ins[c])
    BY <1>4 DEF InCall, RegisterOnServer, UnregisterOnServer, OnServer, Insert, CheckEmplace,
       EmplaceRefused, Emplace, Erase, Return, Go, Types
  <2>1. /\ \A d \in Callers : InCallOn(d, j)' => InCallOn(d, j)
        /\ AloneOn(j) => AloneOn(j)'
    BY <1>2, <2>0 DEF InCallOn, AloneOn
  <2>2. ASSUME j # ins[c] PROVE Kept(j)
    <3>1. /\ m_regs'[j] = m_regs[j] /\ (j \in server' <=> j \in server)
          /\ (j \in unsure' <=> j \in unsure)
      BY <1>4, <2>2 DEF InCall, RegisterOnServer, UnregisterOnServer, OnServer, Insert,
         CheckEmplace, EmplaceRefused, Emplace, Erase, Types
    <3>2. \A d \in Callers : InCallOn(d, j) => d # c /\ InCallOn(d, j)'
      BY <1>2, <2>2 DEF InCallOn
    <3> QED
      BY <1>2, <2>0, <2>1, <3>1, <3>2 DEF CallsKnow, AgreesWithServer, CallKnows
  <2>3. ASSUME j = ins[c], j \notin contended, j \notin unsure' PROVE Kept(j)
    <3>1. AloneOn(j) /\ InCallOn(c, j) /\ \A d \in Callers : InCallOn(d, j)' => d = c
      BY <2>0, <2>1, <2>3 DEF CallsKnow, InCallOn, AloneOn
    <3>2. ASSUME RegisterOnServer(c) \/ UnregisterOnServer(c) PROVE Kept(j)
      <4>1. /\ pc'[c] \in {"insert", "erase"}
            /\ (pc'[c] = "insert" => j \in server') /\ (pc'[c] = "erase" => j \notin server')
            /\ ins'[c] = j
        BY <2>3, <3>2 DEF RegisterOnServer, UnregisterOnServer, OnServer, Return, Go, Types
      <4> QED
        BY <2>1, <3>1, <4>1 DEF CallKnows, InCallOn
    <3>3. ASSUME ~(RegisterOnServer(c) \/ UnregisterOnServer(c)) PROVE Kept(j)
      <4>1. server' = server /\ unsure' = unsure /\ CallKnows(c, j)
        BY <1>4, <2>3, <3>1, <3>3 DEF InCall, Insert, CheckEmplace, EmplaceRefused, Emplace,
           Erase, CallsKnow
      <4>2. CASE Insert(c)
        <5>1. m_regs'[j] # 0 /\ pc[c] = "insert" /\ pc'[c] = "check" /\ ins'[c] = j
          BY <2>3, <4>2 DEF Insert, Go, Types
        <5> QED
          BY <2>1, <3>1, <4>1, <5>1 DEF CallKnows, InCallOn
      <4>3. CASE CheckEmplace(c)
        <5>1. m_regs' = m_regs /\ pc[c] = "check" /\ pc'[c] = "emplace" /\ ins'[c] = j
          BY <2>3, <4>3 DEF CheckEmplace, Go, Types
        <5> QED
          BY <2>1, <3>1, <4>1, <5>1 DEF CallKnows, InCallOn
      <4>4. CASE EmplaceRefused(c) \/ Emplace(c)
        <5>1. m_regs' = m_regs /\ pc[c] \in {"check", "emplace"} /\ pc'[c] = "out"
          BY <4>4 DEF EmplaceRefused, Emplace, Return, Go, Types
        <5> QED
          BY <2>1, <3>1, <4>1, <5>1 DEF CallKnows, InCallOn
      <4>5. CASE Erase(c)
        <5>1. m_regs'[j] = 0 /\ pc[c] = "erase" /\ pc'[c] = "out"
          BY <2>3, <4>5 DEF Erase, Return, Go, Types
        <5> QED
          BY <2>1, <3>1, <4>1, <5>1 DEF CallKnows, InCallOn
      <4> QED
        BY <1>4, <3>3, <4>2, <4>3, <4>4, <4>5 DEF InCall
    <3> QED
      BY <3>2, <3>3
  <2>4. ASSUME j \in contended \/ j \in unsure' PROVE Kept(j)
    BY <2>0, <2>1, <2>4 DEF CallsKnow
  <2> QED
    BY <2>2, <2>3, <2>4
<1> QED
  BY <1>1, <1>3, <1>4

\* The invariant is inductive.
LEMMA IInvStep == IInv /\ [Next]_vars => IInv'
<1> SUFFICES ASSUME IInv, [Next]_vars PROVE IInv'
  OBVIOUS
<1>1. Types' /\ OpenForTimer' /\ DoingHasJob' /\ HeartsCounted'
  BY TypesStep, OpenForTimerStep, DoingStep, HeartsCountedStep DEF IInv
<1>2. CallsKnow' /\ AgreesWithServer'
  <2>1. ASSUME NEW c \in Callers, InCall(c) \/ \E i \in InsIds : Call(c, i)
        PROVE  CallsKnow' /\ AgreesWithServer'
    BY <2>1, CallsStep DEF IInv
  <2>2. CASE \/ UNCHANGED vars \/ HeartBegin
             \/ \E due \in SUBSET Registered : TimerRegHeart(due)
             \/ \E o \in Objects : HeartEnd(o)
             \/ StartFlag \/ StartThreads \/ StopFlag \/ Stopping
    BY <2>2, OthersQuiet DEF IInv, vars, HeartBegin, TimerRegHeart, HeartEnd, StartFlag,
       StartThreads, StopFlag, Stopping, StopTimer, StopCloses, StopDrains, StopJoins,
       OwnerStep, callVars, serverVars
  <2> QED
    BY <2>1, <2>2 DEF Next
<1> QED
  BY <1>1, <1>2 DEF IInv

\* The invariant holds in every reachable state.
THEOREM IInvHolds == Spec => []IInv
BY IInvInit, IInvStep, PTL DEF Spec

-----------------------------------------------------------------------------
\* While `doing` of an entry is up a heart job of it is queued, running or about to be
\* emplaced, however calls, hearts and stops overlap; only entries whose first heart was
\* refused are excepted (eureka_agent.cpp:142-146, 419-422, 479-481).
THEOREM DoingIsTakenBack == Spec => []DoingHasJob
<1>1. IInv => DoingHasJob
  BY DEF IInv
<1> QED
  BY <1>1, IInvHolds, PTL

\* Of an entry no more heart jobs are queued or running than it was registered times,
\* however calls, hearts and stops overlap: the timer brings no second job of an entry
\* that was registered once (eureka_agent.cpp:143-146, 412-422, 479-481).
THEOREM HeartsAreBounded == Spec => []HeartsBounded
<1>1. ASSUME IInv PROVE HeartsBounded
  <2> SUFFICES ASSUME NEW o \in Objects PROVE JobsOf(o) <= registrations[o]
    BY DEF HeartsBounded
  <2>1. CountsNat(o) /\ Counted(o)
    BY <1>1, CountedIsNat DEF IInv, HeartsCounted
  <2> QED
    BY <2>1 DEF CountsNat, Counted, Places, JobsOf
<1> QED
  BY <1>1, IInvHolds, PTL

\* Whatever calls failed or overlapped before: once the last call on an instance was
\* alone and has not failed, there is an entry for the instance exactly if the server
\* holds it (eureka_agent.cpp:132-147, 159-168).
THEOREM AgentAgrees == Spec => []AgreesWithServer
<1>1. IInv => AgreesWithServer
  BY DEF IInv
<1> QED
  BY <1>1, IInvHolds, PTL

-----------------------------------------------------------------------------
\* The bounds

\* Callers that are going to make an entry, and callers that are going to emplace a job.
ToInsert == {c \in Callers : pc[c] \in {"register", "insert"}}
ToEmplace == {c \in Callers : pc[c] \in {"register", "insert", "check", "emplace"}}

\* Entries that the timer may give a job.
Idle == {o \in 1 .. made : ~doing[o]}

\* Each call brings one entry at most, and one job, which the timer may bring again once
\* it has ended and taken back `doing`.
JobsCounted ==
  /\ IsFiniteSet(ToEmplace)
  /\ made + Cardinality(ToInsert) <= calls
  /\ Len(queue) + Cardinality(jobsRunning) + Cardinality(ToEmplace) + Cardinality(Idle) <= calls

RegistrationsCounted ==
  \A o \in Objects : registrations[o] + Cardinality(ToInsert) <= calls

BoundTypes ==
  /\ calls \in 0 .. MaxCalls
  /\ m_regs \in [InsIds -> 0 .. made]
  /\ queue \in Seq(Objects)
  /\ beating \in [Objects -> 0 .. DO_THREAD_COUNT]
  /\ reg \in [Callers -> 0 .. made]
  /\ \A c \in Callers : pc[c] \in {"check", "emplace"} => reg[c] # 0
  /\ orphans \subseteq 1 .. made

\* The variables that no bound rests on.
FlagTypes ==
  /\ m_stop_flag \in BOOLEAN /\ m_enable_emplace \in BOOLEAN
  /\ lockReg \in Callers \cup {Nobody}
  /\ server \subseteq InsIds /\ unsure \subseteq InsIds /\ contended \subseteq InsIds
  /\ stops \in 0 .. MaxStops

Bounds == Types /\ FlagTypes /\ BoundTypes /\ JobsCounted /\ RegistrationsCounted

\* What is counted is finite.
LEMMA CountsAreNat ==
  ASSUME Bounds
  PROVE  /\ IsFiniteSet(ToInsert) /\ Cardinality(ToInsert) \in Nat
         /\ IsFiniteSet(ToEmplace) /\ Cardinality(ToEmplace) \in Nat
         /\ IsFiniteSet(Idle) /\ Cardinality(Idle) \in Nat
         /\ IsFiniteSet(jobsRunning) /\ Cardinality(jobsRunning) \in Nat
         /\ Len(queue) \in Nat /\ made \in Nat /\ calls \in Nat /\ calls <= MaxCalls
         /\ made <= MaxCalls
<1>1. /\ Len(queue) \in Nat /\ made \in Nat /\ calls \in Nat /\ calls <= MaxCalls
      /\ IsFiniteSet(ToEmplace) /\ made + Cardinality(ToInsert) <= calls
  BY LenProperties, RegAssumption DEF Bounds, Types, BoundTypes, JobsCounted
<1>2. IsFiniteSet(ToInsert)
  <2>1. ToInsert \subseteq ToEmplace
    BY DEF ToInsert, ToEmplace
  <2> QED
    BY <1>1, <2>1, FS_Subset
<1>3. IsFiniteSet(Idle)
  <2>1. Idle \subseteq 1 .. made /\ IsFiniteSet(1 .. made)
    BY <1>1, FS_Interval DEF Idle
  <2> QED
    BY <2>1, FS_Subset
<1>4. IsFiniteSet(jobsRunning)
  <2>1. IsFiniteSet(Objects) /\ IsFiniteSet(1 .. DO_THREAD_COUNT)
    BY RegAssumption, FS_Interval DEF Objects
  <2>2. IsFiniteSet(Objects \X (1 .. DO_THREAD_COUNT))
    BY <2>1, FS_Product
  <2>3. jobsRunning \subseteq Objects \X (1 .. DO_THREAD_COUNT)
    BY DEF jobsRunning
  <2> QED
    BY <2>2, <2>3, FS_Subset
<1>5. /\ Cardinality(ToInsert) \in Nat /\ Cardinality(ToEmplace) \in Nat
      /\ Cardinality(Idle) \in Nat /\ Cardinality(jobsRunning) \in Nat
  BY <1>1, <1>2, <1>3, <1>4, FS_CardinalityType
<1> QED
  BY <1>1, <1>2, <1>3, <1>4, <1>5, RegAssumption

\* If a thread is free no entry has all of them.
LEMMA ThreadIsFree ==
  ASSUME Bounds, Cardinality(jobsRunning) < DO_THREAD_COUNT, NEW o \in Objects
  PROVE  beating[o] < DO_THREAD_COUNT
<1> SUFFICES ASSUME beating[o] = DO_THREAD_COUNT PROVE FALSE
  BY RegAssumption DEF Bounds, BoundTypes
<1> DEFINE all == {o} \X (1 .. DO_THREAD_COUNT)
<1>1. all \subseteq jobsRunning
  BY DEF jobsRunning
<1>2. IsFiniteSet(jobsRunning) /\ Cardinality(jobsRunning) \in Nat
  BY CountsAreNat
<1>3. Cardinality(all) <= Cardinality(jobsRunning)
  BY <1>1, <1>2, FS_Subset
<1>4. IsFiniteSet({o}) /\ Cardinality({o}) = 1
  BY FS_Singleton, Zenon
<1>5. IsFiniteSet(1 .. DO_THREAD_COUNT) /\ Cardinality(1 .. DO_THREAD_COUNT) = DO_THREAD_COUNT
  <2>1. 1 \in Int /\ DO_THREAD_COUNT \in Int /\ ~(1 > DO_THREAD_COUNT)
        /\ DO_THREAD_COUNT - 1 + 1 = DO_THREAD_COUNT
    BY RegAssumption
  <2> QED
    BY <2>1, FS_Interval
<1>6. Cardinality(all) = 1 * DO_THREAD_COUNT
  BY <1>4, <1>5, FS_Product
<1> QED
  BY <1>2, <1>3, <1>6, RegAssumption

\* A new agent has no jobs and no entries.
LEMMA BoundsInit == Init => Bounds
<1> SUFFICES ASSUME Init PROVE Bounds
  OBVIOUS
<1>1. Types
  BY IInvInit DEF IInv
<1>2. BoundTypes
  BY RegAssumption DEF Init, BoundTypes, Objects
<1>3. ToInsert = {} /\ ToEmplace = {} /\ Idle = {}
  BY DEF Init, ToInsert, ToEmplace, Idle
<1>4. jobsRunning = {}
  BY DEF Init, jobsRunning
<1>5. IsFiniteSet({}) /\ Cardinality({}) = 0
  BY FS_EmptySet
<1>6. JobsCounted
  BY <1>3, <1>4, <1>5 DEF Init, JobsCounted
<1>7. FlagTypes
  <2>1. stops \in 0 .. MaxStops
    BY RegAssumption DEF Init
  <2> QED
    BY <2>1 DEF Init, FlagTypes
<1>8. RegistrationsCounted
  BY <1>3, <1>5 DEF Init, RegistrationsCounted
<1> QED
  BY <1>1, <1>2, <1>6, <1>7, <1>8 DEF Bounds

\* Entries are numbered as they are made, and jobs are jobs of entries.
LEMMA BoundTypesStep ==
  ASSUME Bounds, [Next]_vars
  PROVE  BoundTypes'
<1> USE RegAssumption DEF Objects, PCs, poolVars, agentVars, callVars, serverVars
<1>0. Types /\ BoundTypes /\ made \in 0 .. MaxCalls
  BY CountsAreNat DEF Bounds
<1>1. CASE UNCHANGED vars
  BY <1>0, <1>1 DEF vars, BoundTypes
<1>2. ASSUME NEW c \in Callers, NEW i \in InsIds, Call(c, i) PROVE BoundTypes'
  BY <1>0, <1>2 DEF Call, Go, Types, BoundTypes
<1>3. ASSUME NEW c \in Callers, CallStep(c) PROVE BoundTypes'
  BY <1>0, <1>3 DEF CallStep, RegisterOnServer, UnregisterOnServer, OnServer, CheckEmplace,
     Return, Go, Types, BoundTypes
<1>4. ASSUME NEW c \in Callers, Insert(c) PROVE BoundTypes'
  <2> DEFINE known == m_regs[ins[c]] # 0
             o == IF known THEN m_regs[ins[c]] ELSE made + 1
  <2>1. /\ ins[c] \in InsIds /\ made \in Nat /\ made' = (IF known THEN made ELSE made + 1)
        /\ m_regs' = [m_regs EXCEPT ![ins[c]] = o]
        /\ reg' = [reg EXCEPT ![c] = o] /\ pc' = [pc EXCEPT ![c] = "check"]
        /\ UNCHANGED <<calls, queue, beating, orphans>>
    BY <1>0, <1>4 DEF Insert, Go, Types
  <2>2. o \in 1 .. made' /\ made' \in Nat /\ made <= made'
    BY <1>0, <2>1 DEF BoundTypes
  <2> HIDE DEF known, o
  <2>3. m_regs' \in [InsIds -> 0 .. made']
    BY <1>0, <2>1, <2>2 DEF BoundTypes
  <2>4. reg' \in [Callers -> 0 .. made']
    BY <1>0, <2>1, <2>2 DEF BoundTypes
  <2>5. \A d \in Callers : pc'[d] \in {"check", "emplace"} => reg'[d] # 0
    BY <1>0, <2>1, <2>2 DEF Types, BoundTypes
  <2>6. orphans' \subseteq 1 .. made'
    BY <1>0, <2>1, <2>2 DEF BoundTypes
  <2> QED
    BY <1>0, <2>1, <2>3, <2>4, <2>5, <2>6 DEF BoundTypes
<1>5. ASSUME NEW c \in Callers, reg' = [reg EXCEPT ![c] = 0], UNCHANGED made,
              pc' = [pc EXCEPT ![c] = "out"]
       PROVE  /\ reg' \in [Callers -> 0 .. made']
              /\ \A d \in Callers : pc'[d] \in {"check", "emplace"} => reg'[d] # 0
  <2>1. reg' \in [Callers -> 0 .. made']
    BY <1>0, <1>5 DEF BoundTypes
  <2>2. ASSUME NEW d \in Callers, pc'[d] \in {"check", "emplace"} PROVE reg'[d] # 0
    BY <1>0, <1>5, <2>2 DEF Types, BoundTypes
  <2> QED
    BY <2>1, <2>2
<1>6. ASSUME NEW c \in Callers, EmplaceRefused(c) \/ Erase(c) PROVE BoundTypes'
  <2>1. CASE EmplaceRefused(c)
    <3>1. /\ pc[c] = "check" /\ pc' = [pc EXCEPT ![c] = "out"]
          /\ reg' = [reg EXCEPT ![c] = 0] /\ orphans' = orphans \cup {reg[c]}
          /\ UNCHANGED <<calls, m_regs, made, queue, beating>>
      BY <2>1 DEF EmplaceRefused, Return, Go
    <3>2. reg[c] \in 1 .. made
      BY <1>0, <3>1 DEF BoundTypes
    <3>3. /\ reg' \in [Callers -> 0 .. made']
          /\ \A d \in Callers : pc'[d] \in {"check", "emplace"} => reg'[d] # 0
      BY <1>5, <3>1
    <3>4. orphans' \subseteq 1 .. made'
      BY <1>0, <3>1, <3>2 DEF BoundTypes
    <3> QED
      BY <1>0, <3>1, <3>3, <3>4 DEF BoundTypes
  <2>2. CASE Erase(c)
    <3>1. /\ pc' = [pc EXCEPT ![c] = "out"] /\ m_regs' = [m_regs EXCEPT ![ins[c]] = 0]
          /\ UNCHANGED <<calls, made, queue, beating, reg, orphans>>
      BY <2>2 DEF Erase, Return, Go
    <3>2. m_regs' \in [InsIds -> 0 .. made']
      <4>1. 0 \in 0 .. made /\ m_regs \in [InsIds -> 0 .. made]
        BY <1>0 DEF BoundTypes
      <4> QED
        BY <3>1, <4>1
    <3>3. \A d \in Callers : pc'[d] \in {"check", "emplace"} => reg'[d] # 0
      BY <1>0, <3>1 DEF Types, BoundTypes
    <3> QED
      BY <1>0, <3>1, <3>2, <3>3 DEF BoundTypes
  <2> QED
    BY <1>6, <2>1, <2>2
<1>7. ASSUME NEW c \in Callers, Emplace(c) PROVE BoundTypes'
  <2>1. /\ pc[c] = "emplace" /\ pc' = [pc EXCEPT ![c] = "out"]
        /\ reg' = [reg EXCEPT ![c] = 0] /\ orphans' = orphans \ {reg[c]}
        /\ queue' = Append(queue, reg[c])
        /\ UNCHANGED <<calls, m_regs, made, beating>>
    BY <1>7 DEF Emplace, Return, Go
  <2>2. reg[c] \in Objects /\ queue \in Seq(Objects)
    BY <1>0, <2>1 DEF BoundTypes
  <2>3. queue' \in Seq(Objects)
    BY <2>1, <2>2, QueueAppends
  <2> QED
    BY <1>0, <1>5, <2>1, <2>3 DEF BoundTypes
<1>8. ASSUME NEW due \in SUBSET Registered, TimerRegHeart(due) PROVE BoundTypes'
  <2> DEFINE idle == {o \in due : ~doing[o]}
  <2>1. idle \subseteq Objects /\ IsFiniteSet(idle)
    <3>1. IsFiniteSet(due)
      BY <1>0, RegisteredFinite
    <3> QED
      BY <1>0, <3>1, FS_Subset DEF BoundTypes, Registered
  <2>2. queue' \in Seq(Objects)
    <3>1. queue \in Seq(Objects) /\ (queue' = queue \/ \E s \in SetToSeqs(idle) : queue' = queue \o s)
      BY <1>0, <1>8 DEF TimerRegHeart, BoundTypes
    <3>2. \A s \in SetToSeqs(idle) : s \in Seq(Objects)
      BY <2>1, OrderHasAll
    <3> QED
      BY <3>1, <3>2, QueueGrows
  <2> QED
    BY <1>0, <1>8, <2>2 DEF TimerRegHeart, BoundTypes
<1>9. CASE HeartBegin
  <2>1. queue' \in Seq(Objects) /\ Last(queue) \in Objects
    <3>1. queue \in Seq(Objects) /\ queue # <<>> /\ queue' = Front(queue)
      BY <1>0, <1>9 DEF HeartBegin, BoundTypes
    <3> QED
      BY <3>1, QueueShrinks
  <2>2. beating[Last(queue)] < DO_THREAD_COUNT
    BY <1>9, <2>1, ThreadIsFree DEF HeartBegin
  <2>3. beating' \in [Objects -> 0 .. DO_THREAD_COUNT]
    <3> DEFINE o == Last(queue)
    <3>1. beating' = [beating EXCEPT ![o] = beating[o] + 1]
      BY <1>9 DEF HeartBegin
    <3>2. beating[o] + 1 \in 0 .. DO_THREAD_COUNT
      BY <1>0, <2>1, <2>2 DEF BoundTypes
    <3> HIDE DEF o
    <3> QED
      BY <1>0, <3>1, <3>2 DEF BoundTypes
  <2> QED
    BY <1>0, <1>9, <2>1, <2>3 DEF HeartBegin, BoundTypes
<1>10. ASSUME NEW o \in Objects, HeartEnd(o) PROVE BoundTypes'
  <2>1. beating[o] - 1 \in 0 .. DO_THREAD_COUNT
    BY <1>0, <1>10 DEF HeartEnd, BoundTypes
  <2>2. beating' \in [Objects -> 0 .. DO_THREAD_COUNT]
    BY <1>0, <1>10, <2>1 DEF HeartEnd, BoundTypes
  <2> QED
    BY <1>0, <1>10, <2>2 DEF HeartEnd, BoundTypes
<1>11. CASE StartFlag \/ StartThreads \/ StopFlag \/ Stopping
  BY <1>0, <1>11 DEF StartFlag, StartThreads, StopFlag, Stopping, StopTimer, StopCloses,
     StopDrains, StopJoins, OwnerStep, BoundTypes
<1> QED
  BY <1>1, <1>2, <1>3, <1>4, <1>6, <1>7, <1>8, <1>9, <1>10, <1>11 DEF Next, InCall, CallStep

\* The flags, the lock and the sets of instances.
LEMMA FlagTypesStep ==
  ASSUME Bounds, [Next]_vars
  PROVE  FlagTypes'
<1> USE RegAssumption DEF FlagTypes, agentVars, callVars, poolVars, serverVars
<1>0. FlagTypes /\ \A c \in Callers : ins[c] \in InsIds
  BY DEF Bounds, Types
<1>1. CASE UNCHANGED vars
  BY <1>0, <1>1 DEF vars
<1>2. ASSUME NEW c \in Callers, NEW i \in InsIds, Call(c, i) PROVE FlagTypes'
  BY <1>0, <1>2 DEF Call
<1>3. ASSUME NEW c \in Callers, RegisterOnServer(c) \/ UnregisterOnServer(c) PROVE FlagTypes'
  BY <1>0, <1>3 DEF RegisterOnServer, UnregisterOnServer, OnServer
<1>4. ASSUME NEW c \in Callers, InCall(c), ~(RegisterOnServer(c) \/ UnregisterOnServer(c))
      PROVE  FlagTypes'
  BY <1>0, <1>4 DEF InCall, Insert, CheckEmplace, EmplaceRefused, Emplace, Erase
<1>5. ASSUME NEW due \in SUBSET Registered, TimerRegHeart(due) PROVE FlagTypes'
  BY <1>0, <1>5 DEF TimerRegHeart
<1>6. ASSUME NEW o \in Objects, HeartEnd(o) PROVE FlagTypes'
  BY <1>0, <1>6 DEF HeartEnd
<1>7. CASE HeartBegin
  BY <1>0, <1>7 DEF HeartBegin
<1>8. CASE StartFlag \/ StartThreads \/ StopFlag \/ Stopping
  <2>1. /\ m_stop_flag' \in BOOLEAN /\ m_enable_emplace' \in BOOLEAN
        /\ UNCHANGED <<lockReg, server, unsure, contended>>
    BY <1>0, <1>8, Zenon DEF StartFlag, StartThreads, StopFlag, Stopping, StopTimer,
       StopCloses, StopDrains, StopJoins, OwnerStep
  <2>2. stops' = stops \/ (stops < MaxStops /\ stops' = stops + 1)
    BY <1>8, Zenon DEF StartFlag, StartThreads, StopFlag, Stopping, StopTimer, StopCloses,
       StopDrains, StopJoins
  <2>3. stops' \in 0 .. MaxStops
    BY <1>0, <2>2
  <2> QED
    BY <1>0, <2>1, <2>3
<1> QED
  BY <1>1, <1>2, <1>3, <1>4, <1>5, <1>6, <1>7, <1>8 DEF Next

\* Steps that bring no entry and no job.
LEMMA CountsFall ==
  ASSUME Bounds, calls' \in Nat, calls <= calls', UNCHANGED <<made, doing, queue, beating>>,
         ToInsert' \subseteq ToInsert, ToEmplace' \subseteq ToEmplace
  PROVE  JobsCounted'
<1>1. Idle' = Idle /\ jobsRunning' = jobsRunning
  BY DEF Idle, jobsRunning
<1>2. /\ Cardinality(ToInsert') \in Nat /\ Cardinality(ToInsert') <= Cardinality(ToInsert)
      /\ IsFiniteSet(ToEmplace') /\ Cardinality(ToEmplace') \in Nat
      /\ Cardinality(ToEmplace') <= Cardinality(ToEmplace)
  BY CountsAreNat, CountLess
<1> QED
  BY <1>1, <1>2, CountsAreNat DEF JobsCounted, Bounds

\* A job is counted from the call or the timer that brings it to its end; while it is
\* under way, or another for the entry is, the timer brings none.
LEMMA JobsCountedStep ==
  ASSUME Bounds, [Next]_vars
  PROVE  JobsCounted'
<1> USE DEF poolVars, agentVars, callVars, serverVars
<1>0. Types /\ BoundTypes /\ JobsCounted
  BY DEF Bounds
<1>1. CASE UNCHANGED <<made, doing, queue, beating, calls, pc>>
  <2>1. ToInsert' = ToInsert /\ ToEmplace' = ToEmplace
    BY <1>1 DEF ToInsert, ToEmplace
  <2> QED
    BY <1>1, <2>1, CountsAreNat, CountsFall
<1>2. ASSUME NEW c \in Callers, NEW i \in InsIds, Call(c, i) PROVE JobsCounted'
  <2>1. /\ calls' = calls + 1 /\ UNCHANGED <<made, doing, queue, beating>>
        /\ \E to \in {"register", "unregister"} : pc' = [pc EXCEPT ![c] = to]
    BY <1>2 DEF Call, Go
  <2>2. /\ ToInsert' \in SUBSET (ToInsert \cup {c})
        /\ ToEmplace' \in SUBSET (ToEmplace \cup {c})
    BY <1>0, <2>1 DEF Types, ToInsert, ToEmplace
  <2>3. /\ Cardinality(ToInsert') \in Nat /\ Cardinality(ToInsert') <= Cardinality(ToInsert) + 1
        /\ IsFiniteSet(ToEmplace') /\ Cardinality(ToEmplace') \in Nat
        /\ Cardinality(ToEmplace') <= Cardinality(ToEmplace) + 1
    BY <2>2, CountsAreNat, CountOneMore
  <2>4. Idle' = Idle /\ jobsRunning' = jobsRunning
    BY <2>1 DEF Idle, jobsRunning
  <2>5. /\ made' = made /\ calls' = calls + 1
        /\ Len(queue') = Len(queue) /\ Cardinality(jobsRunning') = Cardinality(jobsRunning)
        /\ Cardinality(Idle') = Cardinality(Idle)
    BY <2>1, <2>4
  <2>6. made' + Cardinality(ToInsert') <= calls'
    BY <1>0, <2>3, <2>5, CountsAreNat DEF JobsCounted
  <2>7. Len(queue') + Cardinality(jobsRunning') + Cardinality(ToEmplace') + Cardinality(Idle')
          <= calls'
    BY <1>0, <2>3, <2>5, CountsAreNat DEF JobsCounted
  <2> QED
    BY <2>3, <2>6, <2>7 DEF JobsCounted
<1>3. ASSUME NEW c \in Callers, CallStep(c) \/ EmplaceRefused(c) \/ Erase(c)
      PROVE  JobsCounted'
  <2>1. /\ UNCHANGED <<made, doing, queue, beating, calls>>
        /\ \/ pc[c] = "register" /\ pc' = [pc EXCEPT ![c] = "insert"]
           \/ pc[c] = "unregister" /\ pc' = [pc EXCEPT ![c] = "erase"]
           \/ pc[c] = "check" /\ pc' = [pc EXCEPT ![c] = "emplace"]
           \/ pc' = [pc EXCEPT ![c] = "out"]
    BY <1>3 DEF CallStep, RegisterOnServer, UnregisterOnServer, OnServer, CheckEmplace,
       EmplaceRefused, Erase, Return, Go
  <2>2. ToInsert' \subseteq ToInsert /\ ToEmplace' \subseteq ToEmplace
    BY <1>0, <2>1 DEF Types, ToInsert, ToEmplace
  <2> QED
    BY <2>1, <2>2, CountsAreNat, CountsFall
<1>4. ASSUME NEW c \in Callers, Insert(c) PROVE JobsCounted'
  <2> DEFINE o == IF m_regs[ins[c]] # 0 THEN m_regs[ins[c]] ELSE made + 1
  <2>1. /\ pc[c] = "insert" /\ pc' = [pc EXCEPT ![c] = "check"]
        /\ doing' = [doing EXCEPT ![o] = TRUE]
        /\ made' = (IF m_regs[ins[c]] # 0 THEN made ELSE made + 1)
        /\ UNCHANGED <<queue, beating, calls>>
    BY <1>4 DEF Insert, Go
  <2>2. /\ c \in ToInsert /\ ToInsert' \in SUBSET (ToInsert \ {c})
        /\ ToEmplace' \in SUBSET ToEmplace
    BY <1>0, <2>1 DEF Types, ToInsert, ToEmplace
  <2>3. /\ Cardinality(ToInsert') \in Nat /\ Cardinality(ToInsert') + 1 <= Cardinality(ToInsert)
        /\ IsFiniteSet(ToEmplace') /\ Cardinality(ToEmplace') \in Nat
        /\ Cardinality(ToEmplace') <= Cardinality(ToEmplace)
    BY <2>2, CountsAreNat, CountOneLess, CountLess
  <2>4. Idle' \in SUBSET Idle
    <3>1. made + 1 \in Objects /\ made \in Nat
      BY <1>0, <2>3, CountsAreNat, RegAssumption DEF JobsCounted, Objects
    <3>2. CASE m_regs[ins[c]] # 0
      BY <1>0, <2>1, <3>1, <3>2 DEF Types, Idle
    <3>3. CASE m_regs[ins[c]] = 0
      <4>1. doing' = [doing EXCEPT ![made + 1] = TRUE] /\ made' = made + 1
        BY <2>1, <3>3
      <4> QED
        BY <1>0, <3>1, <4>1 DEF Types, Idle
    <3> QED
      BY <3>2, <3>3
  <2>5. Cardinality(Idle') \in Nat /\ Cardinality(Idle') <= Cardinality(Idle)
    BY <2>4, CountsAreNat, CountLess
  <2>6. jobsRunning' = jobsRunning /\ made' \in Nat /\ made' <= made + 1
    BY <2>1, CountsAreNat DEF jobsRunning
  <2> HIDE DEF o
  <2>7. /\ Len(queue') = Len(queue) /\ Cardinality(jobsRunning') = Cardinality(jobsRunning)
        /\ calls' = calls
    BY <2>1, <2>6
  <2>8. made' + Cardinality(ToInsert') <= calls'
    BY <1>0, <2>3, <2>6, <2>7, CountsAreNat DEF JobsCounted
  <2>9. Len(queue') + Cardinality(jobsRunning') + Cardinality(ToEmplace') + Cardinality(Idle')
          <= calls'
    BY <1>0, <2>3, <2>5, <2>7, CountsAreNat DEF JobsCounted
  <2> QED
    BY <2>3, <2>8, <2>9 DEF JobsCounted
<1>5. ASSUME NEW c \in Callers, Emplace(c) PROVE JobsCounted'
  <2>1. /\ pc[c] = "emplace" /\ pc' = [pc EXCEPT ![c] = "out"]
        /\ queue' = Append(queue, reg[c]) /\ UNCHANGED <<made, doing, beating, calls>>
    BY <1>5 DEF Emplace, Return, Go
  <2>2. /\ c \in ToEmplace /\ ToEmplace' \in SUBSET (ToEmplace \ {c})
        /\ ToInsert' \in SUBSET ToInsert
    BY <1>0, <2>1 DEF Types, ToInsert, ToEmplace
  <2>3. /\ Cardinality(ToInsert') \in Nat /\ Cardinality(ToInsert') <= Cardinality(ToInsert)
        /\ IsFiniteSet(ToEmplace') /\ Cardinality(ToEmplace') \in Nat
        /\ Cardinality(ToEmplace') + 1 <= Cardinality(ToEmplace)
    BY <2>2, CountsAreNat, CountOneLess, CountLess
  <2>4. Len(queue') = Len(queue) + 1
    <3>1. queue \in Seq(Nat) /\ reg[c] \in Nat
      BY <1>0 DEF Types
    <3> QED
      BY <2>1, <3>1, AppendProperties
  <2>5. Idle' = Idle /\ jobsRunning' = jobsRunning
    BY <2>1 DEF Idle, jobsRunning
  <2> QED
    BY <1>0, <2>1, <2>3, <2>4, <2>5, CountsAreNat DEF JobsCounted
<1>6. ASSUME NEW due \in SUBSET Registered, TimerRegHeart(due) PROVE JobsCounted'
  <2> DEFINE idle == {o \in due : ~doing[o]}
  <2>1. /\ idle \subseteq Idle /\ idle \subseteq Objects /\ IsFiniteSet(idle)
    <3>1. IsFiniteSet(due) /\ due \subseteq 1 .. made /\ made <= MaxCalls
      BY <1>0, RegisteredFinite, CountsAreNat DEF BoundTypes, Registered
    <3>2. 1 .. made \subseteq Objects
      BY <3>1, CountsAreNat, RegAssumption DEF Objects
    <3> QED
      BY <3>1, <3>2, FS_Subset DEF Idle
  <2>2. /\ doing' = [o \in Objects |-> doing[o] \/ o \in idle]
        /\ queue' = queue \/ \E s \in SetToSeqs(idle) : queue' = queue \o s
        /\ UNCHANGED <<made, beating, calls, pc>>
    BY <1>6 DEF TimerRegHeart
  <2>3. Idle' = Idle \ idle
    <3>1. \A o \in 1 .. made : o \in Objects
      BY CountsAreNat, RegAssumption DEF Objects
    <3> HIDE DEF idle
    <3> QED
      BY <2>2, <3>1 DEF Idle
  <2> HIDE DEF idle
  <2>4. /\ Cardinality(Idle') = Cardinality(Idle) - Cardinality(idle)
        /\ Cardinality(idle) \in Nat
    <3>1. Idle \cap idle = idle
      BY <2>1
    <3>2. Cardinality(Idle \ idle) = Cardinality(Idle) - Cardinality(Idle \cap idle)
      BY CountsAreNat, FS_Difference
    <3>3. Cardinality(idle) \in Nat
      BY <2>1, FS_CardinalityType
    <3> QED
      BY <2>3, <3>1, <3>2, <3>3
  <2>5. Len(queue') \in Nat /\ Len(queue') <= Len(queue) + Cardinality(idle)
    <3>1. CASE queue' = queue
      BY <2>4, <3>1, CountsAreNat
    <3>2. ASSUME NEW s \in SetToSeqs(idle), queue' = queue \o s
          PROVE  Len(queue') \in Nat /\ Len(queue') <= Len(queue) + Cardinality(idle)
      <4>1. s \in Seq(Objects) /\ Len(s) = Cardinality(idle) /\ queue \in Seq(Objects)
        BY <1>0, <2>1, OrderHasAll DEF BoundTypes
      <4>2. Len(queue \o s) = Len(queue) + Len(s)
        BY <4>1, ConcatProperties
      <4> QED
        BY <2>4, <3>2, <4>1, <4>2, CountsAreNat
    <3> QED
      BY <2>2, <3>1, <3>2
  <2>6. ToInsert' = ToInsert /\ ToEmplace' = ToEmplace /\ jobsRunning' = jobsRunning
    BY <2>2 DEF ToInsert, ToEmplace, jobsRunning
  <2> QED
    BY <1>0, <2>2, <2>4, <2>5, <2>6, CountsAreNat DEF JobsCounted
<1>7. CASE HeartBegin
  <2> DEFINE o == Last(queue)
             job == <<o, beating[o] + 1>>
  <2>1. /\ queue # <<>> /\ queue' = Front(queue) /\ queue \in Seq(Objects)
        /\ beating' = [beating EXCEPT ![o] = beating[o] + 1]
        /\ UNCHANGED <<made, doing, calls, pc>>
    BY <1>0, <1>7 DEF HeartBegin, BoundTypes
  <2>2. Len(queue') = Len(queue) - 1
    <3>1. Len(Front(queue)) = Len(queue) - 1
      BY <2>1, QueueShrinks
    <3> QED
      BY <2>1, <3>1
  <2>3. o \in Objects
    BY <2>1, QueueShrinks
  <2> HIDE DEF o
  <2>4. jobsRunning' \in SUBSET (jobsRunning \cup {job})
    <3> SUFFICES ASSUME NEW p \in Objects, NEW k \in 1 .. DO_THREAD_COUNT, k <= beating'[p]
                 PROVE  <<p, k>> \in jobsRunning \/ <<p, k>> = job
      BY DEF jobsRunning
    <3>1. beating[o] \in Nat
      BY <1>0, <2>3 DEF Types
    <3>2. CASE p = o
      <4>1. k <= beating[o] + 1
        BY <1>0, <2>1, <2>3, <3>2 DEF Types
      <4> QED
        BY <3>1, <3>2, <4>1 DEF jobsRunning
    <3>3. CASE p # o
      <4>1. beating'[p] = beating[p]
        BY <1>0, <2>1, <3>3 DEF Types
      <4> QED
        BY <4>1 DEF jobsRunning
    <3> QED
      BY <3>2, <3>3
  <2> HIDE DEF job
  <2>5. /\ Cardinality(jobsRunning') \in Nat
        /\ Cardinality(jobsRunning') <= Cardinality(jobsRunning) + 1
    BY <2>4, CountsAreNat, CountOneMore
  <2>6. ToInsert' = ToInsert /\ ToEmplace' = ToEmplace /\ Idle' = Idle
    BY <2>1 DEF ToInsert, ToEmplace, Idle
  <2> QED
    BY <1>0, <2>1, <2>2, <2>5, <2>6, CountsAreNat DEF JobsCounted
<1>8. ASSUME NEW o \in Objects, HeartEnd(o) PROVE JobsCounted'
  <2>1. /\ beating[o] > 0 /\ beating[o] \in 0 .. DO_THREAD_COUNT
        /\ beating' = [beating EXCEPT ![o] = beating[o] - 1]
        /\ doing' = [doing EXCEPT ![o] = FALSE]
        /\ UNCHANGED <<made, queue, calls, pc>>
    BY <1>0, <1>8 DEF HeartEnd, BoundTypes
  <2>2. <<o, beating[o]>> \in jobsRunning
    BY <2>1, RegAssumption DEF jobsRunning
  <2>3. jobsRunning' \in SUBSET (jobsRunning \ {<<o, beating[o]>>})
    <3> SUFFICES ASSUME NEW p \in Objects, NEW k \in 1 .. DO_THREAD_COUNT, k <= beating'[p]
                 PROVE  <<p, k>> \in jobsRunning /\ <<p, k>> # <<o, beating[o]>>
      BY DEF jobsRunning
    <3>1. CASE p = o
      <4>1. k <= beating[o] - 1
        BY <1>0, <2>1, <3>1 DEF Types
      <4> QED
        BY <2>1, <3>1, <4>1 DEF jobsRunning
    <3>2. CASE p # o
      <4>1. beating'[p] = beating[p]
        BY <1>0, <2>1, <3>2 DEF Types
      <4> QED
        BY <3>2, <4>1 DEF jobsRunning
    <3> QED
      BY <3>1, <3>2
  <2>4. /\ Cardinality(jobsRunning') \in Nat
        /\ Cardinality(jobsRunning') + 1 <= Cardinality(jobsRunning)
    BY <2>2, <2>3, CountsAreNat, CountOneLess
  <2>5. Idle' \in SUBSET (Idle \cup {o})
    <3>1. \A p \in 1 .. made : p # o => doing'[p] = doing[p]
      BY <1>0, <2>1, CountsAreNat, RegAssumption DEF Types, Objects
    <3> QED
      BY <2>1, <3>1 DEF Idle
  <2>6. Cardinality(Idle') \in Nat /\ Cardinality(Idle') <= Cardinality(Idle) + 1
    BY <2>5, CountsAreNat, CountOneMore
  <2>7. ToInsert' = ToInsert /\ ToEmplace' = ToEmplace
    BY <2>1 DEF ToInsert, ToEmplace
  <2> QED
    BY <1>0, <2>1, <2>4, <2>6, <2>7, CountsAreNat DEF JobsCounted
<1>9. CASE StartFlag \/ StartThreads \/ StopFlag \/ Stopping
  <2>1. UNCHANGED <<made, doing, queue, beating, calls, pc>>
    BY <1>9 DEF StartFlag, StartThreads, StopFlag, Stopping, StopTimer, StopCloses,
       StopDrains, StopJoins, OwnerStep
  <2> QED
    BY <1>1, <2>1
<1> QED
  BY <1>1, <1>2, <1>3, <1>4, <1>5, <1>6, <1>7, <1>8, <1>9 DEF vars, Next, InCall, CallStep

\* An entry is registered by calls, each of them once.
LEMMA RegistrationsCountedStep ==
  ASSUME Bounds, [Next]_vars
  PROVE  RegistrationsCounted'
<1> USE DEF poolVars, agentVars, callVars, serverVars
<1>0. Types /\ RegistrationsCounted
  BY DEF Bounds
<1>1. \A o \in Objects : registrations[o] \in Nat
  BY <1>0 DEF Types
<1>2. ASSUME UNCHANGED <<registrations, calls>>, ToInsert' \in SUBSET ToInsert
      PROVE  RegistrationsCounted'
  <2>1. /\ Cardinality(ToInsert') \in Nat /\ Cardinality(ToInsert) \in Nat
        /\ Cardinality(ToInsert') <= Cardinality(ToInsert) /\ calls \in Nat
    BY <1>2, CountsAreNat, CountLess
  <2> QED
    BY <1>0, <1>1, <1>2, <2>1 DEF RegistrationsCounted
<1>3. ASSUME UNCHANGED <<registrations, calls, pc>> PROVE RegistrationsCounted'
  BY <1>2, <1>3 DEF ToInsert
<1>4. CASE UNCHANGED vars
  BY <1>3, <1>4 DEF vars
<1>5. ASSUME NEW c \in Callers, NEW i \in InsIds, Call(c, i) PROVE RegistrationsCounted'
  <2>1. /\ calls' = calls + 1 /\ UNCHANGED registrations
        /\ \E to \in {"register", "unregister"} : pc' = [pc EXCEPT ![c] = to]
    BY <1>5 DEF Call, Go
  <2>2. ToInsert' \in SUBSET (ToInsert \cup {c})
    BY <1>0, <2>1 DEF Types, ToInsert
  <2>3. /\ Cardinality(ToInsert') \in Nat /\ Cardinality(ToInsert) \in Nat
        /\ Cardinality(ToInsert') <= Cardinality(ToInsert) + 1 /\ calls \in Nat
    BY <2>2, CountsAreNat, CountOneMore
  <2> QED
    BY <1>0, <1>1, <2>1, <2>3 DEF RegistrationsCounted
<1>6. ASSUME NEW c \in Callers, CallStep(c) \/ EmplaceRefused(c) \/ Erase(c) \/ Emplace(c)
      PROVE  RegistrationsCounted'
  <2>1. /\ UNCHANGED <<registrations, calls>>
        /\ \/ pc[c] = "register" /\ pc' = [pc EXCEPT ![c] = "insert"]
           \/ \E to \in {"erase", "emplace", "out"} : pc' = [pc EXCEPT ![c] = to]
    BY <1>6 DEF CallStep, RegisterOnServer, UnregisterOnServer, OnServer, CheckEmplace,
       EmplaceRefused, Emplace, Erase, Return, Go
  <2>2. ToInsert' \in SUBSET ToInsert
    BY <1>0, <2>1 DEF Types, ToInsert
  <2> QED
    BY <1>2, <2>1, <2>2
<1>7. ASSUME NEW c \in Callers, Insert(c) PROVE RegistrationsCounted'
  <2>0. PICK p : p = IF m_regs[ins[c]] # 0 THEN m_regs[ins[c]] ELSE made + 1
    OBVIOUS
  <2>1. /\ pc[c] = "insert" /\ pc' = [pc EXCEPT ![c] = "check"] /\ calls' = calls
        /\ registrations' = [registrations EXCEPT ![p] = registrations[p] + 1]
    BY <1>7, <2>0 DEF Insert, Go
  <2>2. c \in ToInsert /\ ToInsert' \in SUBSET (ToInsert \ {c})
    BY <1>0, <2>1 DEF Types, ToInsert
  <2>3. /\ Cardinality(ToInsert') \in Nat /\ Cardinality(ToInsert) \in Nat
        /\ Cardinality(ToInsert') + 1 <= Cardinality(ToInsert) /\ calls \in Nat
    BY <2>2, CountsAreNat, CountOneLess
  <2>4. \A o \in Objects :
          registrations'[o] = registrations[o] \/ registrations'[o] = registrations[o] + 1
    BY <1>0, <2>1 DEF Types
  <2> QED
    BY <1>0, <1>1, <2>1, <2>3, <2>4 DEF RegistrationsCounted
<1>8. ASSUME NEW due \in SUBSET Registered, TimerRegHeart(due) PROVE RegistrationsCounted'
  BY <1>3, <1>8 DEF TimerRegHeart
<1>9. ASSUME NEW o \in Objects, HeartEnd(o) PROVE RegistrationsCounted'
  BY <1>3, <1>9 DEF HeartEnd
<1>10. CASE HeartBegin
  BY <1>3, <1>10 DEF HeartBegin
<1>11. CASE StartFlag \/ StartThreads \/ StopFlag \/ Stopping
  BY <1>3, <1>11 DEF StartFlag, StartThreads, StopFlag, Stopping, StopTimer, StopCloses,
     StopDrains, StopJoins, OwnerStep
<1> QED
  BY <1>4, <1>5, <1>6, <1>7, <1>8, <1>9, <1>10, <1>11 DEF Next, InCall, CallStep

\* The types are kept, the numbers of entries and jobs because each is counted once
\* for the call that brought it (TypeOK of RegHeart; eureka_agent.cpp:134-147, 409-426).
THEOREM RegHeartTypeCorrect == Spec => []TypeOK
<1>1. Bounds /\ [Next]_vars => Bounds'
  BY TypesStep, BoundTypesStep, FlagTypesStep, JobsCountedStep, RegistrationsCountedStep
     DEF Bounds
<1>2. Bounds => TypeOK
  <2> SUFFICES ASSUME Bounds PROVE TypeOK
    OBVIOUS
  <2>1. made \in 0 .. MaxCalls /\ Len(queue) <= MaxQueue
    BY CountsAreNat, RegAssumption DEF Bounds, JobsCounted, MaxQueue
  <2>2. reg \in [Callers -> {0} \cup Objects]
    BY <2>1, RegAssumption DEF Bounds, BoundTypes, Objects
  <2>3. registrations \in [Objects -> 0 .. MaxCalls]
    <3>1. \A o \in Objects : registrations[o] \in 0 .. MaxCalls
      BY CountsAreNat, RegAssumption DEF Bounds, Types, RegistrationsCounted
    <3> QED
      BY <3>1 DEF Bounds, Types
  <2> QED
    BY <2>1, <2>2, <2>3 DEF Bounds, Types, FlagTypes, BoundTypes, TypeOK
<1> QED
  BY <1>1, <1>2, BoundsInit, PTL DEF Spec
=============================================================================
