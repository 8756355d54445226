---------------------------- MODULE HttpClientPool ----------------------------
(***************************************************************************)
(* HttpClientPool (curl/http_client_pool.cpp) from its start to its stop:  *)
(* threads make requests, each on a client of its own; the owner moves the *)
(* pool to other endpoints and finally stops it; the common timer thread   *)
(* releases clients that are not needed.  Each critical section of m_lock  *)
(* is one step, and atomics are sequentially consistent.  Of a client      *)
(* (curl/http_client.cpp) its endpoint and its stop flag are kept; what a  *)
(* request returns is left open.                                           *)
(***************************************************************************)
EXTENDS Integers, Sequences, FiniteSets, SequencesExt

CONSTANTS
  Requesters,    \* threads that call request
  Clients,       \* client objects that may exist at a time
  NoClient,
  m_defaultConnCount,
  m_maxConnCount,
  MaxEndpoint,   \* bound: how often setEndpoint is called
  MaxRequests    \* bound: how many requests are made

ASSUME PoolAssumption ==
  /\ NoClient \notin Clients
  /\ IsFiniteSet(Clients)
  /\ m_defaultConnCount \in Nat /\ m_maxConnCount \in Nat
  /\ Cardinality(Clients) >= m_maxConnCount
  /\ MaxEndpoint \in Nat /\ MaxRequests \in Nat

VARIABLES
  m_stopped,
  m_endpoint,    \* the endpoints the pool is given are numbered from 0
  m_pool,        \* the free clients, front first
  m_using,       \* the clients requests are using
  m_lastCheckMaxUsingCount,
  ep, flagged,   \* per client: m_endpoint and m_stopped
  pc, client,    \* per requester: place in request, its client
  since,         \* per requester: m_endpoint when it called request
  requests,      \* how many requests have been made
  timer,         \* the timer thread's place in checkReleaseClient
  stopping       \* the owner's place in stop

poolVars == <<m_pool, m_using, m_lastCheckMaxUsingCount>>
clientVars == <<ep, flagged>>
reqVars == <<pc, client, since, requests>>
vars == <<m_stopped, m_endpoint, poolVars, clientVars, reqVars, timer, stopping>>

\* m_requesting_count is the number of requesters that are not "out".
ReqPC == {"out", "in", "get", "wire", "free"}
TimerPC == {"idle", "look", "trim"}
StopPC == {"no", "flag", "unregister", "timer", "wait", "clear", "stopped"}

TypeOK ==
  /\ m_stopped \in BOOLEAN
  /\ m_endpoint \in 0 .. MaxEndpoint
  /\ m_pool \in Seq(Clients) /\ m_using \subseteq Clients
  /\ m_lastCheckMaxUsingCount \in Nat
  /\ ep \in [Clients -> 0 .. MaxEndpoint] /\ flagged \in [Clients -> BOOLEAN]
  /\ pc \in [Requesters -> ReqPC] /\ client \in [Requesters -> Clients \cup {NoClient}]
  /\ since \in [Requesters -> 0 .. MaxEndpoint]
  /\ requests \in 0 .. MaxRequests
  /\ timer \in TimerPC /\ stopping \in StopPC

\* After start: no client yet, the timer thread knows the pool.
Init ==
  /\ m_stopped = FALSE /\ m_endpoint = 0
  /\ m_pool = <<>> /\ m_using = {} /\ m_lastCheckMaxUsingCount = 0
  /\ ep = [c \in Clients |-> 0] /\ flagged = [c \in Clients |-> FALSE]
  /\ pc = [r \in Requesters |-> "out"] /\ client = [r \in Requesters |-> NoClient]
  /\ since = [r \in Requesters |-> 0]
  /\ requests = 0
  /\ timer = "idle" /\ stopping = "no"

Go(r, from, to) == pc[r] = from /\ pc' = [pc EXCEPT ![r] = to]
Free == ToSet(m_pool)

-----------------------------------------------------------------------------
\* setEndpoint reaches the free clients only.
SetEndpoint ==
  /\ stopping = "no"
  /\ m_endpoint < MaxEndpoint
  /\ m_endpoint' = m_endpoint + 1
  /\ ep' = [c \in Clients |-> IF c \in Free THEN m_endpoint' ELSE ep[c]]
  /\ UNCHANGED <<m_stopped, poolVars, flagged, reqVars, timer, stopping>>

-----------------------------------------------------------------------------
\* request

\* ++m_requesting_count
Enter(r) ==
  /\ requests < MaxRequests
  /\ requests' = requests + 1
  /\ Go(r, "out", "in")
  /\ since' = [since EXCEPT ![r] = m_endpoint]
  /\ UNCHANGED <<m_stopped, m_endpoint, poolVars, clientVars, client, timer, stopping>>

\* isStopped: go on, or throw
Look(r) ==
  /\ Go(r, "in", IF m_stopped THEN "out" ELSE "get")
  /\ UNCHANGED <<m_stopped, m_endpoint, poolVars, clientVars, client, since,
                 requests, timer, stopping>>

\* getClient: the first free client, or a new one
Take(r, c) ==
  /\ Go(r, "get", "wire")
  /\ client' = [client EXCEPT ![r] = c]
  /\ m_using' = m_using \cup {c}
  /\ m_lastCheckMaxUsingCount' =
       IF m_lastCheckMaxUsingCount < Cardinality(m_using')
         THEN Cardinality(m_using') ELSE m_lastCheckMaxUsingCount
  /\ UNCHANGED <<m_stopped, m_endpoint, since, requests, timer, stopping>>

\* Mutated form: the client stays in m_pool.
GetFreeKept(r) ==
  /\ m_pool # <<>>
  /\ Take(r, Head(m_pool))
  /\ UNCHANGED <<m_pool, clientVars>>

GetFree(r) ==
  /\ m_pool # <<>>
  /\ Take(r, Head(m_pool))
  /\ m_pool' = Tail(m_pool)
  /\ UNCHANGED clientVars

GetNew(r) ==
  /\ m_pool = <<>>
  /\ Cardinality(m_using) < m_maxConnCount
  /\ \E c \in Clients \ m_using :
       /\ Take(r, c)
       /\ ep' = [ep EXCEPT ![c] = m_endpoint]
       /\ flagged' = [flagged EXCEPT ![c] = FALSE]
  /\ UNCHANGED m_pool

\* getClient throws: "limit to max conn count", or curl gives no handle.
GetNone(r) ==
  /\ m_pool = <<>>
  /\ Go(r, "get", "out")
  /\ UNCHANGED <<m_stopped, m_endpoint, poolVars, clientVars, client, since,
                 requests, timer, stopping>>

\* HttpClient::request with the client's endpoint, which stays while it is in use.
\* An answer, an error, or OperationAborted if the client's stop flag is up.
Perform(r) ==
  /\ Go(r, "wire", "free")
  /\ UNCHANGED <<m_stopped, m_endpoint, poolVars, clientVars, client, since,
                 requests, timer, stopping>>

\* Mutated form: freeClient pushes the moved-from pointer.
FreeClientMoved(r) ==
  /\ Go(r, "free", "out")
  /\ m_using' = m_using \ {client[r]}
  /\ m_pool' = <<NoClient>> \o m_pool
  /\ client' = [client EXCEPT ![r] = NoClient]
  /\ UNCHANGED <<m_stopped, m_endpoint, m_lastCheckMaxUsingCount, clientVars, since,
                 requests, timer, stopping>>

\* freeClient, which asserts that the client is in m_using, then --m_requesting_count
FreeClient(r) ==
  /\ client[r] \in m_using
  /\ Go(r, "free", "out")
  /\ m_using' = m_using \ {client[r]}
  /\ m_pool' = <<client[r]>> \o m_pool
  /\ client' = [client EXCEPT ![r] = NoClient]
  /\ UNCHANGED <<m_stopped, m_endpoint, m_lastCheckMaxUsingCount, clientVars, since,
                 requests, timer, stopping>>

-----------------------------------------------------------------------------
\* checkReleaseClient, by the timer thread, which has set the check flag of the
\* pool while timer is not "idle"

TimerBegin ==
  /\ stopping \in {"no", "flag", "unregister"}
  /\ timer = "idle" /\ timer' = "look"
  /\ UNCHANGED <<m_stopped, m_endpoint, poolVars, clientVars, reqVars, stopping>>

\* Mutated form: the check flag stays up when the pool is stopped.
TimerLooksStays ==
  /\ timer = "look" /\ timer' = IF m_stopped THEN "look" ELSE "trim"
  /\ UNCHANGED <<m_stopped, m_endpoint, poolVars, clientVars, reqVars, stopping>>

TimerLooks ==
  /\ timer = "look" /\ timer' = IF m_stopped THEN "idle" ELSE "trim"
  /\ UNCHANGED <<m_stopped, m_endpoint, poolVars, clientVars, reqVars, stopping>>

keepCount ==
  LET most == m_lastCheckMaxUsingCount + m_lastCheckMaxUsingCount \div 2 + 1
  IN  IF most > m_defaultConnCount THEN most ELSE m_defaultConnCount

TimerTrims ==
  /\ timer = "trim" /\ timer' = "idle"
  /\ m_lastCheckMaxUsingCount' = 0
  /\ m_pool' = IF Len(m_pool) > keepCount THEN SubSeq(m_pool, 1, keepCount) ELSE m_pool
  /\ UNCHANGED <<m_stopped, m_endpoint, m_using, clientVars, reqVars, stopping>>

-----------------------------------------------------------------------------
\* stop

StopStep(from, to) == stopping = from /\ stopping' = to

StopFlag ==
  /\ StopStep("no", "flag")
  /\ m_stopped' = TRUE
  /\ UNCHANGED <<m_endpoint, poolVars, clientVars, reqVars, timer>>

StopClients ==
  /\ StopStep("flag", "unregister")
  /\ flagged' = [c \in Clients |-> flagged[c] \/ c \in Free \cup m_using]
  /\ UNCHANGED <<m_stopped, m_endpoint, poolVars, ep, reqVars, timer>>

\* decStop: the pool is taken from m_runPools, then its check flag must be down.
StopUnregisters ==
  /\ StopStep("unregister", "timer")
  /\ UNCHANGED <<m_stopped, m_endpoint, poolVars, clientVars, reqVars, timer>>

StopTimer ==
  /\ StopStep("timer", "wait")
  /\ timer = "idle"
  /\ UNCHANGED <<m_stopped, m_endpoint, poolVars, clientVars, reqVars, timer>>

\* Mutated form: only requests that have a client are waited for.
StopWaitedUsing ==
  /\ StopStep("wait", "clear")
  /\ m_using = {}
  /\ UNCHANGED <<m_stopped, m_endpoint, poolVars, clientVars, reqVars, timer>>

StopWaited ==
  /\ StopStep("wait", "clear")
  /\ \A r \in Requesters : pc[r] = "out"
  /\ UNCHANGED <<m_stopped, m_endpoint, poolVars, clientVars, reqVars, timer>>

StopClears ==
  /\ StopStep("clear", "stopped")
  /\ m_pool' = <<>>
  /\ m_using' = {}
  /\ UNCHANGED <<m_stopped, m_endpoint, m_lastCheckMaxUsingCount, clientVars, reqVars, timer>>

-----------------------------------------------------------------------------
Request(r) ==
  \/ Look(r) \/ GetFree(r) \/ GetNew(r) \/ GetNone(r)
  \/ Perform(r) \/ FreeClient(r)

Timer == TimerLooks \/ TimerTrims

Stop == StopClients \/ StopUnregisters \/ StopTimer \/ StopWaited \/ StopClears

Next ==
  \/ SetEndpoint
  \/ \E r \in Requesters : Enter(r) \/ Request(r)
  \/ TimerBegin \/ Timer
  \/ StopFlag \/ Stop

Spec == Init /\ [][Next]_vars

\* Threads are scheduled, every transfer ends, a stop that has begun goes on.
FairSpec ==
  /\ Spec
  /\ \A r \in Requesters : WF_vars(Request(r))
  /\ WF_vars(Timer)
  /\ WF_vars(Stop)

-----------------------------------------------------------------------------
\* "concurrent requests will use different client" (http_client.h:58), and no more
\* clients exist than m_maxConnCount: a client is free or used by one request.
ClientsApart ==
  /\ IsInjective(m_pool)
  /\ Free \cap m_using = {}
  /\ Len(m_pool) + Cardinality(m_using) <= m_maxConnCount
  /\ \A r \in Requesters : pc[r] \in {"wire", "free"} =>
       /\ client[r] \in m_using
       /\ \A q \in Requesters \ {r} : client[q] # client[r]

\* "set stop flag, and wait all request end" (eureka_connect.h:53): once stop has seen
\* no request under way nothing touches the clients any more, neither a request, also
\* of those that came in during the stop, nor the timer thread
\* (http_client_pool.cpp:189-197, 210-237).  The owner may destroy the pool.
StoppedIsUnused ==
  /\ stopping \in {"clear", "stopped"} =>
       /\ \A r \in Requesters : pc[r] \in {"out", "in"}
       /\ m_using = {} /\ timer = "idle"
  /\ stopping = "stopped" => m_pool = <<>>

\* stop returns if transfers end, although a request that passed isStopped before
\* may still start on a new client (http_client_pool.cpp:196-199, 228-232).
StopReturns == stopping = "flag" ~> stopping = "stopped"

\* "if a pool, all request later will use the newer endpoint" (http_client.h:54).
UsesNewest == \A r \in Requesters : pc[r] = "wire" => ep[client[r]] >= since[r]
=============================================================================
