------------------------ MODULE HttpClientPoolProofs -------------------------
(***************************************************************************)
(* For any number of threads, clients, requests and changes of endpoint:   *)
(* nothing touches the clients once stop has seen no request under way,    *)
(* and no client is given to two requests, or created beyond the limit.    *)
(***************************************************************************)
EXTENDS HttpClientPool, FiniteSetTheorems, TLAPS

-----------------------------------------------------------------------------
\* The inductive invariant

Types ==
  /\ m_stopped \in BOOLEAN
  /\ m_pool \in Seq(Clients) /\ m_using \subseteq Clients
  /\ m_lastCheckMaxUsingCount \in Nat
  /\ pc \in [Requesters -> ReqPC] /\ client \in [Requesters -> Clients \cup {NoClient}]
  /\ timer \in TimerPC /\ stopping \in StopPC

Holds(r) == pc[r] \in {"wire", "free"}

\* A request holds a client from getClient to freeClient and at no other place, and a
\* client in use is held by a request.
Held ==
  /\ \A r \in Requesters : client[r] # NoClient <=> Holds(r)
  /\ \A c \in m_using : \E r \in Requesters : Holds(r) /\ client[r] = c

\* The flag goes up first; then the timer thread is out; then the requests are.
StopOrder ==
  /\ stopping # "no" => m_stopped
  /\ stopping \in {"wait", "clear", "stopped"} => timer = "idle"
  /\ stopping \in {"clear", "stopped"} => \A r \in Requesters : pc[r] \in {"out", "in"}
  /\ stopping = "stopped" => m_pool = <<>>

IInv == Types /\ Held /\ StopOrder /\ ClientsApart

-----------------------------------------------------------------------------
\* What the sequence operators do to the free clients.

\* Taking the first free client leaves the others, once each.
LEMMA TailFree ==
  ASSUME NEW s \in Seq(Clients), s # <<>>, IsInjective(s)
  PROVE  /\ Tail(s) \in Seq(Clients) /\ Len(Tail(s)) = Len(s) - 1
         /\ Head(s) \in ToSet(s)
         /\ IsInjective(Tail(s))
         /\ ToSet(Tail(s)) = ToSet(s) \ {Head(s)}
<1>1. /\ Tail(s) \in Seq(Clients) /\ Len(Tail(s)) = Len(s) - 1 /\ Len(s) \in Nat \ {0}
      /\ DOMAIN s = 1 .. Len(s) /\ DOMAIN Tail(s) = 1 .. (Len(s) - 1)
      /\ Head(s) = s[1]
      /\ \A i \in 1 .. (Len(s) - 1) : Tail(s)[i] = s[i + 1]
  OBVIOUS
<1>2. IsInjective(Tail(s))
  BY <1>1 DEF IsInjective
<1>3. ToSet(Tail(s)) \subseteq ToSet(s) \ {Head(s)}
  BY <1>1 DEF IsInjective, ToSet
<1>4. ASSUME NEW c \in ToSet(s), c # Head(s) PROVE c \in ToSet(Tail(s))
  <2>1. PICK i \in 1 .. Len(s) : s[i] = c
    BY <1>1 DEF ToSet
  <2>2. i - 1 \in 1 .. (Len(s) - 1) /\ Tail(s)[i - 1] = c
    BY <2>1, <1>1, <1>4
  <2> QED
    BY <2>2, <1>1 DEF ToSet
<1>5. Head(s) \in ToSet(s)
  BY <1>1 DEF ToSet
<1> QED
  BY <1>1, <1>2, <1>3, <1>4, <1>5

\* A client that is not free is pushed to the front.
LEMMA PushFree ==
  ASSUME NEW s \in Seq(Clients), NEW c \in Clients, c \notin ToSet(s), IsInjective(s)
  PROVE  /\ <<c>> \o s \in Seq(Clients) /\ Len(<<c>> \o s) = Len(s) + 1
         /\ IsInjective(<<c>> \o s)
         /\ ToSet(<<c>> \o s) = ToSet(s) \cup {c}
<1> DEFINE t == <<c>> \o s
<1>1. /\ t \in Seq(Clients) /\ Len(t) = Len(s) + 1 /\ Len(s) \in Nat
      /\ DOMAIN s = 1 .. Len(s) /\ DOMAIN t = 1 .. (Len(s) + 1)
      /\ t[1] = c
      /\ \A i \in 2 .. (Len(s) + 1) : t[i] = s[i - 1]
  OBVIOUS
<1>2. \A i \in 1 .. Len(s) : s[i] # c
  BY <1>1 DEF ToSet
<1> HIDE DEF t
<1>3. IsInjective(t)
  <2> SUFFICES ASSUME NEW i \in 1 .. (Len(s) + 1), NEW j \in 1 .. (Len(s) + 1), t[i] = t[j]
               PROVE  i = j
    BY <1>1 DEF IsInjective
  <2>1. CASE i = 1 \/ j = 1
    BY <2>1, <1>1, <1>2
  <2>2. CASE i # 1 /\ j # 1
    <3>1. /\ i - 1 \in 1 .. Len(s) /\ j - 1 \in 1 .. Len(s)
          /\ s[i - 1] = s[j - 1]
      BY <2>2, <1>1
    <3> QED
      BY <3>1, <1>1 DEF IsInjective
  <2> QED
    BY <2>1, <2>2
<1>4. ToSet(t) \subseteq ToSet(s) \cup {c}
  BY <1>1 DEF ToSet
<1>5. c \in ToSet(t)
  BY <1>1 DEF ToSet
<1>6. ASSUME NEW d \in ToSet(s) PROVE d \in ToSet(t)
  <2>1. PICK i \in 1 .. Len(s) : s[i] = d
    BY <1>1 DEF ToSet
  <2>2. i + 1 \in 1 .. (Len(s) + 1) /\ t[i + 1] = d
    BY <2>1, <1>1
  <2> QED
    BY <2>2, <1>1 DEF ToSet
<1> QED
  BY <1>1, <1>3, <1>4, <1>5, <1>6 DEF t

\* Cutting the tail off keeps some of the clients, once each.
LEMMA CutFree ==
  ASSUME NEW s \in Seq(Clients), NEW k \in Nat, k < Len(s), IsInjective(s)
  PROVE  /\ SubSeq(s, 1, k) \in Seq(Clients) /\ Len(SubSeq(s, 1, k)) = k
         /\ IsInjective(SubSeq(s, 1, k))
         /\ ToSet(SubSeq(s, 1, k)) \subseteq ToSet(s)
<1> DEFINE t == SubSeq(s, 1, k)
<1>1. /\ t \in Seq(Clients) /\ Len(t) = k
      /\ DOMAIN s = 1 .. Len(s) /\ DOMAIN t = 1 .. k
      /\ \A i \in 1 .. k : t[i] = s[i]
      /\ Len(s) \in Nat
  OBVIOUS
<1> HIDE DEF t
<1>2. IsInjective(t)
  BY <1>1 DEF IsInjective
<1>3. ToSet(t) \subseteq ToSet(s)
  BY <1>1 DEF ToSet
<1> QED
  BY <1>1, <1>2, <1>3 DEF t

\* How many clients checkReleaseClient keeps is a natural number.
LEMMA KeepCountNat ==
  ASSUME PoolAssumption, m_lastCheckMaxUsingCount \in Nat
  PROVE  keepCount \in Nat
BY DEF keepCount, PoolAssumption

-----------------------------------------------------------------------------
\* Before the first request no client exists.
LEMMA IInvInit == Init => IInv
<1> SUFFICES ASSUME Init PROVE IInv
  OBVIOUS
<1>1. m_pool = <<>> /\ m_using = {} /\ Free = {}
  BY DEF Init, Free, ToSet
<1>2. ClientsApart
  <2>1. Cardinality(m_using) = 0
    BY <1>1, FS_EmptySet
  <2> QED
    BY <1>1, <2>1, PoolAssumption DEF Init, ClientsApart, IsInjective, PoolAssumption
<1>3. Types
  <2>1. <<>> \in Seq(Clients)
    OBVIOUS
  <2>2. pc \in [Requesters -> ReqPC] /\ client \in [Requesters -> Clients \cup {NoClient}]
    BY DEF Init, ReqPC
  <2> QED
    BY <2>1, <2>2 DEF Init, Types, TimerPC, StopPC
<1>4. Held
  BY DEF Init, Held, Holds
<1>5. StopOrder
  BY DEF Init, StopOrder
<1> QED
  BY <1>2, <1>3, <1>4, <1>5 DEF IInv

\* A request that takes a client that is neither free any more nor in use is the only
\* one to hold it.
LEMMA TakeKeepsApart ==
  ASSUME IInv, NEW r \in Requesters, NEW c \in Clients, Take(r, c), c \notin m_using,
         m_pool' \in Seq(Clients), IsInjective(m_pool'),
         Free' \cap (m_using \cup {c}) = {},
         Len(m_pool') + Cardinality(m_using) + 1 <= m_maxConnCount,
         stopping = "stopped" => m_pool' = <<>>
  PROVE  IInv'
<1> USE DEF Take, Go
<1>1. /\ IsFiniteSet(m_using) /\ Cardinality(m_using) \in Nat
      /\ IsFiniteSet(m_using') /\ Cardinality(m_using') = Cardinality(m_using) + 1
  <2>1. IsFiniteSet(m_using)
    BY PoolAssumption, FS_Subset DEF PoolAssumption, IInv, Types
  <2> QED
    BY <2>1, FS_CardinalityType, FS_AddElement
<1>2. Types'
  BY <1>1 DEF IInv, Types, ReqPC
<1>3. Held'
  BY PoolAssumption DEF PoolAssumption, IInv, Types, Held, Holds, ReqPC
<1>4. StopOrder'
  BY DEF IInv, Types, StopOrder, ReqPC
<1>5. ClientsApart'
  <2>1. \A q \in Requesters \ {r} : client[q] # c
    BY PoolAssumption DEF PoolAssumption, IInv, Types, Held, Holds, ClientsApart
  <2>2. \A q \in Requesters : pc'[q] \in {"wire", "free"} =>
           /\ client'[q] \in m_using'
           /\ \A o \in Requesters \ {q} : client'[o] # client'[q]
    BY <2>1 DEF IInv, Types, ClientsApart
  <2>3. Len(m_pool') + Cardinality(m_using') <= m_maxConnCount
    BY <1>1, PoolAssumption DEF PoolAssumption
  <2> QED
    BY <2>2, <2>3 DEF ClientsApart
<1> QED
  BY <1>2, <1>3, <1>4, <1>5 DEF IInv

\* The first free client: it leaves the free ones as it comes into use.
LEMMA GetFreeKeeps == ASSUME IInv, NEW r \in Requesters, GetFree(r) PROVE IInv'
<1>1. /\ m_pool \in Seq(Clients) /\ IsInjective(m_pool) /\ m_pool # <<>>
      /\ m_pool' = Tail(m_pool)
      /\ Free \cap m_using = {}
      /\ Len(m_pool) + Cardinality(m_using) <= m_maxConnCount
  BY DEF GetFree, IInv, Types, ClientsApart
<1>2. /\ m_pool' \in Seq(Clients) /\ Len(m_pool') = Len(m_pool) - 1
      /\ IsInjective(m_pool') /\ Free' = Free \ {Head(m_pool)}
      /\ Head(m_pool) \in Free
  BY <1>1, TailFree DEF Free
<1>3. Head(m_pool) \in Clients
  BY <1>1
<1>4. Head(m_pool) \notin m_using /\ Free' \cap (m_using \cup {Head(m_pool)}) = {}
  BY <1>1, <1>2
<1>5. Len(m_pool') + Cardinality(m_using) + 1 <= m_maxConnCount
  <2>1. Cardinality(m_using) \in Nat
    BY PoolAssumption, FS_Subset, FS_CardinalityType DEF PoolAssumption, IInv, Types
  <2> QED
    BY <1>1, <1>2, <2>1, PoolAssumption DEF PoolAssumption
<1>6. Take(r, Head(m_pool)) /\ stopping # "stopped"
  BY DEF GetFree, Take, Go, IInv, StopOrder
<1> QED
  BY <1>2, <1>3, <1>4, <1>5, <1>6, TakeKeepsApart

\* A new client, when none is free and fewer than m_maxConnCount are in use.
LEMMA GetNewKeeps == ASSUME IInv, NEW r \in Requesters, GetNew(r) PROVE IInv'
<1>1. PICK c \in Clients \ m_using : Take(r, c)
  BY DEF GetNew
<1>2. m_pool = <<>> /\ m_pool' = m_pool /\ Free' = {}
  BY DEF GetNew, Free, ToSet
<1>3. m_pool' \in Seq(Clients) /\ IsInjective(m_pool')
  BY <1>2 DEF IsInjective
<1>4. Len(m_pool') + Cardinality(m_using) + 1 <= m_maxConnCount
  <2>1. Cardinality(m_using) \in Nat
    BY PoolAssumption, FS_Subset, FS_CardinalityType DEF PoolAssumption, IInv, Types
  <2> QED
    BY <1>2, <2>1, PoolAssumption DEF GetNew, PoolAssumption
<1> QED
  BY <1>1, <1>2, <1>3, <1>4, TakeKeepsApart

\* freeClient: the client goes from the clients in use to the front of the free ones.
LEMMA FreeClientKeeps == ASSUME IInv, NEW r \in Requesters, FreeClient(r) PROVE IInv'
<1> DEFINE c == client[r]
<1>1. /\ c \in m_using /\ c \in Clients /\ c \notin ToSet(m_pool)
      /\ m_pool \in Seq(Clients) /\ IsInjective(m_pool)
      /\ m_pool' = <<c>> \o m_pool /\ m_using' = m_using \ {c}
  BY DEF FreeClient, IInv, Types, ClientsApart, Free
<1>2. /\ m_pool' \in Seq(Clients) /\ Len(m_pool') = Len(m_pool) + 1
      /\ IsInjective(m_pool') /\ Free' = Free \cup {c}
  BY <1>1, PushFree DEF Free
<1>3. Types'
  BY <1>1, <1>2 DEF FreeClient, Go, IInv, Types, ReqPC
<1>4. Held'
  <2>1. \A q \in Requesters \ {r} : client[q] # c
    BY DEF FreeClient, Go, IInv, ClientsApart
  <2> QED
    BY <1>1, <2>1 DEF FreeClient, Go, IInv, Types, Held, Holds, ReqPC
<1>5. StopOrder'
  BY DEF FreeClient, Go, IInv, Types, StopOrder, ReqPC
<1>6. ClientsApart'
  <2>1. Free' \cap m_using' = {}
    BY <1>1, <1>2 DEF IInv, ClientsApart
  <2>2. Len(m_pool') + Cardinality(m_using') <= m_maxConnCount
    <3>1. IsFiniteSet(m_using)
      BY PoolAssumption, FS_Subset DEF PoolAssumption, IInv, Types
    <3>2. Cardinality(m_using) \in Nat /\ Cardinality(m_using') = Cardinality(m_using) - 1
      BY <1>1, <3>1, FS_CardinalityType, FS_RemoveElement
    <3> QED
      BY <1>1, <1>2, <3>2, PoolAssumption DEF PoolAssumption, IInv, ClientsApart
  <2>3. \A q \in Requesters : pc'[q] \in {"wire", "free"} =>
           /\ client'[q] \in m_using'
           /\ \A o \in Requesters \ {q} : client'[o] # client'[q]
    BY <1>1, PoolAssumption DEF PoolAssumption, FreeClient, Go, IInv, Types, ClientsApart
  <2> QED
    BY <1>2, <2>1, <2>2, <2>3 DEF ClientsApart
<1> QED
  BY <1>3, <1>4, <1>5, <1>6 DEF IInv

\* checkReleaseClient gives up the last of the free clients and none in use.
LEMMA TimerTrimsKeeps == ASSUME IInv, TimerTrims PROVE IInv'
<1>1. /\ m_pool' \in Seq(Clients) /\ Len(m_pool') <= Len(m_pool)
      /\ IsInjective(m_pool') /\ Free' \subseteq Free
  <2>1. m_pool \in Seq(Clients) /\ IsInjective(m_pool) /\ keepCount \in Nat
    BY KeepCountNat, PoolAssumption DEF IInv, Types, ClientsApart
  <2>2. CASE Len(m_pool) > keepCount
    <3>1. m_pool' = SubSeq(m_pool, 1, keepCount)
      BY <2>2 DEF TimerTrims
    <3> QED
      BY <2>1, <2>2, <3>1, CutFree DEF Free
  <2>3. CASE ~(Len(m_pool) > keepCount)
    BY <2>1, <2>3 DEF TimerTrims, Free
  <2> QED
    BY <2>2, <2>3
<1>2. Types' /\ Held' /\ StopOrder'
  BY <1>1 DEF TimerTrims, reqVars, clientVars, IInv, Types, Held, Holds, StopOrder, TimerPC
<1>3. ClientsApart'
  <2>1. Cardinality(m_using) \in Nat /\ m_using' = m_using
    BY PoolAssumption, FS_Subset, FS_CardinalityType
       DEF PoolAssumption, IInv, Types, TimerTrims
  <2>2. Len(m_pool') + Cardinality(m_using') <= m_maxConnCount
    BY <1>1, <2>1, PoolAssumption DEF PoolAssumption, IInv, Types, ClientsApart
  <2> QED
    BY <1>1, <2>1, <2>2 DEF IInv, ClientsApart, TimerTrims, reqVars
<1> QED
  BY <1>2, <1>3 DEF IInv

-----------------------------------------------------------------------------
\* A step that leaves the clients where they are keeps the invariant if its flags and
\* places are in order.
LEMMA SameClients ==
  ASSUME IInv, UNCHANGED <<m_pool, m_using, client>>,
         Types', StopOrder', \A r \in Requesters : Holds(r) <=> Holds(r)'
  PROVE  IInv'
<1>1. Held'
  BY DEF IInv, Held
<1>2. ClientsApart'
  BY DEF IInv, ClientsApart, Free, Holds
<1> QED
  BY <1>1, <1>2 DEF IInv

\* Every step of the owner, the requests and the timer thread keeps the invariant.
LEMMA IInvStep == IInv /\ [Next]_vars => IInv'
<1> SUFFICES ASSUME IInv, [Next]_vars PROVE IInv'
  OBVIOUS
<1> USE DEF poolVars, clientVars, reqVars
<1>1. CASE SetEndpoint
  BY <1>1, SameClients DEF SetEndpoint, IInv, Types, Holds, StopOrder
<1>2. ASSUME NEW r \in Requesters, Enter(r) PROVE IInv'
  BY <1>2, SameClients DEF Enter, Go, IInv, Types, Holds, StopOrder, ReqPC
<1>3. ASSUME NEW r \in Requesters, Look(r) PROVE IInv'
  BY <1>3, SameClients DEF Look, Go, IInv, Types, Holds, StopOrder, ReqPC
<1>4. ASSUME NEW r \in Requesters, GetFree(r) PROVE IInv'
  BY <1>4, GetFreeKeeps
<1>5. ASSUME NEW r \in Requesters, GetNew(r) PROVE IInv'
  BY <1>5, GetNewKeeps
<1>6. ASSUME NEW r \in Requesters, GetNone(r) PROVE IInv'
  BY <1>6, SameClients DEF GetNone, Go, IInv, Types, Holds, StopOrder, ReqPC
<1>7. ASSUME NEW r \in Requesters, Perform(r) PROVE IInv'
  BY <1>7, SameClients DEF Perform, Go, IInv, Types, Holds, StopOrder, ReqPC
<1>8. ASSUME NEW r \in Requesters, FreeClient(r) PROVE IInv'
  BY <1>8, FreeClientKeeps
<1>9. CASE TimerBegin
  BY <1>9, SameClients DEF TimerBegin, IInv, Types, Holds, StopOrder, TimerPC
<1>10. CASE TimerLooks
  BY <1>10, SameClients DEF TimerLooks, IInv, Types, Holds, StopOrder, TimerPC
<1>11. CASE TimerTrims
  BY <1>11, TimerTrimsKeeps
<1>12. CASE StopFlag
  BY <1>12, SameClients DEF StopFlag, StopStep, IInv, Types, Holds, StopOrder, StopPC
<1>13. CASE StopClients
  BY <1>13, SameClients DEF StopClients, StopStep, IInv, Types, Holds, StopOrder, StopPC
<1>14. CASE StopUnregisters
  BY <1>14, SameClients DEF StopUnregisters, StopStep, IInv, Types, Holds, StopOrder, StopPC
<1>15. CASE StopTimer
  BY <1>15, SameClients DEF StopTimer, StopStep, IInv, Types, Holds, StopOrder, StopPC
<1>16. CASE StopWaited
  BY <1>16, SameClients DEF StopWaited, StopStep, IInv, Types, Holds, StopOrder, StopPC
<1>17. CASE StopClears
  <2>1. \A r \in Requesters : pc[r] \in {"out", "in"} /\ client[r] = NoClient
    BY <1>17 DEF StopClears, StopStep, IInv, StopOrder, Held, Holds
  <2>2. <<>> \in Seq(Clients)
    OBVIOUS
  <2>3. Types' /\ StopOrder'
    BY <1>17, <2>1, <2>2 DEF StopClears, StopStep, IInv, Types, StopOrder, StopPC
  <2>4. Held'
    BY <1>17, <2>1 DEF StopClears, Held, Holds
  <2>5. ClientsApart'
    <3>1. m_pool' = <<>> /\ m_using' = {} /\ Free' = {} /\ Cardinality(m_using') = 0
      BY <1>17, FS_EmptySet DEF StopClears, Free, ToSet
    <3>2. IsInjective(m_pool')
      BY <3>1 DEF IsInjective
    <3> QED
      BY <1>17, <2>1, <3>1, <3>2, PoolAssumption
         DEF PoolAssumption, StopClears, ClientsApart
  <2> QED
    BY <2>3, <2>4, <2>5 DEF IInv
<1>18. CASE UNCHANGED vars
  BY <1>18, SameClients DEF vars, IInv, Types, Holds, StopOrder
<1> QED
  BY <1>1, <1>2, <1>3, <1>4, <1>5, <1>6, <1>7, <1>8, <1>9, <1>10, <1>11, <1>12, <1>13,
     <1>14, <1>15, <1>16, <1>17, <1>18 DEF Next, Request, Timer, Stop

\* The inductive invariant of the pool of clients holds in every reachable state.
THEOREM IInvHolds == Spec => []IInv
BY IInvInit, IInvStep, PTL DEF Spec

-----------------------------------------------------------------------------
\* No client is free and in use, or used by two requests, and there are never more than
\* m_maxConnCount of them (getClient, freeClient and checkReleaseClient,
\* http_client_pool.cpp:239-290).
THEOREM ClientsStayApart == Spec => []ClientsApart
<1>1. IInv => ClientsApart
  BY DEF IInv
<1> QED
  BY <1>1, IInvHolds, PTL

\* Once stop has seen no request under way nothing touches the clients any more: what
\* came in during the stop finds the flag up, and the timer thread is out.
THEOREM StopLeavesUnused == Spec => []StoppedIsUnused
<1>1. IInv => StoppedIsUnused
  <2> SUFFICES ASSUME IInv, stopping \in {"clear", "stopped"}
               PROVE  m_using = {}
    BY DEF IInv, StopOrder, StoppedIsUnused
  <2>1. \A r \in Requesters : ~Holds(r)
    BY DEF IInv, StopOrder, Holds
  <2> QED
    BY <2>1 DEF IInv, Held
<1> QED
  BY <1>1, IInvHolds, PTL

-----------------------------------------------------------------------------
\* The types the arguments above do not need.
RestTypes ==
  /\ m_endpoint \in 0 .. MaxEndpoint
  /\ ep \in [Clients -> 0 .. MaxEndpoint] /\ flagged \in [Clients -> BOOLEAN]
  /\ since \in [Requesters -> 0 .. MaxEndpoint]
  /\ requests \in 0 .. MaxRequests

\* Endpoints are numbered within their bound wherever they are kept.
LEMMA RestTypesStep == RestTypes /\ [Next]_vars => RestTypes'
<1> SUFFICES ASSUME RestTypes, [Next]_vars PROVE RestTypes'
  OBVIOUS
<1> USE PoolAssumption DEF PoolAssumption, RestTypes, poolVars, clientVars, reqVars
<1>1. CASE SetEndpoint
  BY <1>1 DEF SetEndpoint
<1>2. ASSUME NEW r \in Requesters, Enter(r) PROVE RestTypes'
  BY <1>2 DEF Enter
<1>3. ASSUME NEW r \in Requesters, GetNew(r) PROVE RestTypes'
  BY <1>3 DEF GetNew, Take
<1>4. CASE StopClients
  BY <1>4 DEF StopClients
<1>5. ASSUME UNCHANGED <<m_endpoint, ep, flagged, since, requests>> PROVE RestTypes'
  BY <1>5
<1> QED
  BY <1>1, <1>2, <1>3, <1>4, <1>5
     DEF Next, Request, Timer, Stop, vars, Look, GetFree, GetNone, Take, Perform, FreeClient,
         TimerBegin, TimerLooks, TimerTrims, StopFlag, StopUnregisters, StopTimer, StopWaited,
         StopClears

\* Every reachable state has its type; in particular what freeClient pushes to the front
\* is a client (http_client_pool.cpp:261-271).
THEOREM HttpClientPoolTypeCorrect == Spec => []TypeOK
<1>1. Init => RestTypes
  BY PoolAssumption DEF PoolAssumption, Init, RestTypes
<1>2. IInv /\ RestTypes => TypeOK
  BY DEF IInv, Types, RestTypes, TypeOK
<1> QED
  BY <1>1, <1>2, RestTypesStep, IInvHolds, PTL DEF Spec
=============================================================================
