---------------------------- MODULE EurekaConnect ----------------------------
(***************************************************************************)
(* EurekaConnect::request and the default retry function                   *)
(* (eureka_connect.cpp): concurrent calls, each a loop of tries on the     *)
(* endpoint its client has, that moves the connection to the next endpoint *)
(* when a try ends in a NetError; threads of the program call              *)
(* switchEndpoint as well.  m_endpointsIndex is atomic, so its loads and   *)
(* stores and the pool's freeClient and setEndpoint are steps of their     *)
(* own.  Of the pool (module HttpClientPool) the endpoints of the free     *)
(* clients and of the clients in use are kept; with no more than           *)
(* m_defaultConnCount callers the timer thread releases none.              *)
(***************************************************************************)
EXTENDS Integers, Sequences, FiniteSets, SequencesExt

CONSTANTS
  Callers,       \* threads that call request and switchEndpoint
  NumEndpoints,  \* m_endpoints.size()
  MaxCalls,      \* bound: calls made by all threads
  MaxSwitches    \* bound: calls of switchEndpoint by the program

ASSUME ConnectAssumption ==
  /\ IsFiniteSet(Callers)
  /\ NumEndpoints \in Nat \ {0} /\ MaxCalls \in Nat /\ MaxSwitches \in Nat

VARIABLES
  m_endpointsIndex,
  m_endpoint,   \* the pool's
  idle,         \* endpoints of the pool's free clients, front first
  pc, tryCount, n,
  at,           \* per caller: the endpoint of the try under way
  tries,        \* per caller: the endpoints a call that is netOnly has tried
  netOnly,      \* per caller: all tries of its call ended in a NetError, and no call of
                \* another thread, be it of switchEndpoint, overlapped with it
  inStep,       \* per caller: whether InStep held when its call began, alone
  calls, switches

poolVars == <<m_endpoint, idle>>
tryVars == <<tryCount, at, tries>>
callVars == <<tryVars, netOnly, inStep, calls>>
vars == <<m_endpointsIndex, poolVars, pc, n, callVars, switches>>

Indices == 0 .. NumEndpoints - 1
Elsewhere == NumEndpoints            \* where a redirection leads
Targets == Indices \cup {Elsewhere}
PCs == {"out", "try", "wire", "redirect", "load", "store", "current", "set"}

TypeOK ==
  /\ m_endpointsIndex \in Indices
  /\ m_endpoint \in Targets
  /\ idle \in Seq(Targets) /\ Len(idle) <= Cardinality(Callers)
  /\ pc \in [Callers -> PCs]
  /\ tryCount \in [Callers -> 0 .. 2 * NumEndpoints + 1]
  /\ n \in [Callers -> Indices]
  /\ at \in [Callers -> Targets] /\ tries \in [Callers -> Seq(Targets)]
  /\ netOnly \in [Callers -> BOOLEAN] /\ inStep \in [Callers -> BOOLEAN]
  /\ calls \in 0 .. MaxCalls /\ switches \in 0 .. MaxSwitches

\* After start: the pool has the first endpoint and no client.
Init ==
  /\ m_endpointsIndex = 0 /\ m_endpoint = 0 /\ idle = <<>>
  /\ pc = [c \in Callers |-> "out"]
  /\ tryCount = [c \in Callers |-> 0] /\ n = [c \in Callers |-> 0]
  /\ at = [c \in Callers |-> 0] /\ tries = [c \in Callers |-> <<>>]
  /\ netOnly = [c \in Callers |-> FALSE] /\ inStep = [c \in Callers |-> FALSE]
  /\ calls = 0 /\ switches = 0

Go(c, from, to) == pc[c] = from /\ pc' = [pc EXCEPT ![c] = to]

setEndpoint(e) ==
  /\ m_endpoint' = e
  /\ idle' = [i \in DOMAIN idle |-> e]

\* The pool and its free clients have the endpoint of the index, or were redirected.
InStep == {m_endpoint} \cup ToSet(idle) \subseteq {m_endpointsIndex, Elsewhere}

-----------------------------------------------------------------------------
\* request: the loop of tries

Call(c) ==
  /\ calls < MaxCalls
  /\ Go(c, "out", "try")
  /\ calls' = calls + 1
  /\ LET alone == \A d \in Callers \ {c} : pc[d] = "out"
     IN  /\ netOnly' = [d \in Callers |-> d = c /\ alone]
         /\ inStep' = [d \in Callers |-> d = c /\ alone /\ InStep]
  /\ tries' = [d \in Callers |-> <<>>]
  /\ UNCHANGED <<m_endpointsIndex, poolVars, n, tryCount, at, switches>>

\* Mutated form: ++tryCount is missing.
TryUncounted(c) ==
  LET e == IF idle = <<>> THEN m_endpoint ELSE Head(idle)
  IN  /\ Go(c, "try", "wire")
      /\ idle' = IF idle = <<>> THEN idle ELSE Tail(idle)
      /\ at' = [at EXCEPT ![c] = e]
      /\ tries' = [tries EXCEPT ![c] = IF netOnly[c] THEN Append(@, e) ELSE <<>>]
      /\ UNCHANGED <<m_endpointsIndex, m_endpoint, n, tryCount, netOnly, inStep, calls,
                     switches>>

\* ++tryCount, then the pool's first free client or a new one makes the request.
Try(c) ==
  LET e == IF idle = <<>> THEN m_endpoint ELSE Head(idle)
  IN  /\ Go(c, "try", "wire")
      /\ tryCount' = [tryCount EXCEPT ![c] = @ + 1]
      /\ idle' = IF idle = <<>> THEN idle ELSE Tail(idle)
      /\ at' = [at EXCEPT ![c] = e]
      /\ tries' = [tries EXCEPT ![c] = IF netOnly[c] THEN Append(@, e) ELSE <<>>]
      /\ UNCHANGED <<m_endpointsIndex, m_endpoint, n, netOnly, inStep, calls, switches>>

\* A try has ended: its client is the first free one again.
Answered(c) ==
  /\ idle' = <<at[c]>> \o idle
  /\ at' = [at EXCEPT ![c] = 0]
  /\ UNCHANGED <<m_endpointsIndex, m_endpoint, n, calls, switches>>

\* The call goes on ...
Continue(c, to) ==
  /\ Go(c, "wire", to)
  /\ Answered(c)
  /\ UNCHANGED <<tryCount, tries, inStep>>

\* ... or ends, and its locals with it.
End(c) ==
  /\ Go(c, "wire", "out")
  /\ Answered(c)
  /\ tryCount' = [tryCount EXCEPT ![c] = 0]
  /\ tries' = [tries EXCEPT ![c] = <<>>]
  /\ netOnly' = [netOnly EXCEPT ![c] = FALSE] /\ inStep' = [inStep EXCEPT ![c] = FALSE]

\* 2xx, a status of 4xx, an Error that is no NetError, or any status after the last try.
AnswerFinal(c) == End(c)

\* Mutated forms: one try too many; as many tries as there are endpoints.
retryLeftOneMore(c) == tryCount[c] <= 2 * NumEndpoints + 1
retryLeftOnce(c) == tryCount[c] < NumEndpoints

retryLeft(c) == tryCount[c] <= 2 * NumEndpoints

\* Other statuses: once more on the same endpoint.
AnswerStatus(c) ==
  /\ retryLeft(c)
  /\ Continue(c, "try")
  /\ netOnly' = [netOnly EXCEPT ![c] = FALSE]

\* 307 with a location: its client is free, and another call may take it, before ...
AnswerRedirect(c) ==
  /\ retryLeft(c)
  /\ Continue(c, "redirect")
  /\ netOnly' = [netOnly EXCEPT ![c] = FALSE]

\* ... the pool goes to the location; the index stays.
Redirect(c) ==
  /\ Go(c, "redirect", "try")
  /\ setEndpoint(Elsewhere)
  /\ UNCHANGED <<m_endpointsIndex, n, callVars, switches>>

AnswerNetError(c) ==
  \/ retryLeft(c) /\ Continue(c, "load") /\ UNCHANGED netOnly
  \/ ~retryLeft(c) /\ End(c)

-----------------------------------------------------------------------------
\* defaultRetry after a NetError: the next endpoint

\* std::size_t n = m_endpointsIndex
Load(c) ==
  /\ Go(c, "load", "store")
  /\ n' = [n EXCEPT ![c] = m_endpointsIndex]
  /\ UNCHANGED <<m_endpointsIndex, poolVars, callVars, switches>>

\* Mutated form: the index is not advanced.
StoreSame(c) ==
  /\ Go(c, "store", "current")
  /\ m_endpointsIndex' = n[c] % NumEndpoints
  /\ n' = [n EXCEPT ![c] = 0]
  /\ UNCHANGED <<poolVars, callVars, switches>>

\* switchEndpoint(++n)
Store(c) ==
  /\ Go(c, "store", "current")
  /\ m_endpointsIndex' = (n[c] + 1) % NumEndpoints
  /\ n' = [n EXCEPT ![c] = 0]
  /\ UNCHANGED <<poolVars, callVars, switches>>

\* The rest of switchEndpoint, of the retry as of the program: currentEndPoint(), ...
Current(c) ==
  /\ Go(c, "current", "set")
  /\ n' = [n EXCEPT ![c] = m_endpointsIndex]
  /\ UNCHANGED <<m_endpointsIndex, poolVars, callVars, switches>>

\* ... then setEndpoint, and back to the loop of tries or to the program, which calls it
\* outside of any try.
Set(c) ==
  /\ Go(c, "set", IF tryCount[c] > 0 THEN "try" ELSE "out")
  /\ setEndpoint(n[c])
  /\ n' = [n EXCEPT ![c] = 0]
  /\ UNCHANGED <<m_endpointsIndex, callVars, switches>>

-----------------------------------------------------------------------------
\* switchEndpoint, called by the program: it stores the index; the rest is Current and Set.
SwitchEndpoint(c) ==
  /\ switches < MaxSwitches
  /\ Go(c, "out", "current")
  /\ switches' = switches + 1
  /\ m_endpointsIndex' \in Indices
  /\ netOnly' = [d \in Callers |-> FALSE] /\ inStep' = [d \in Callers |-> FALSE]
  /\ tries' = [d \in Callers |-> <<>>]
  /\ UNCHANGED <<poolVars, n, tryCount, at, calls>>

-----------------------------------------------------------------------------
Request(c) ==
  \/ Try(c)
  \/ AnswerFinal(c) \/ AnswerStatus(c) \/ AnswerRedirect(c) \/ AnswerNetError(c)
  \/ Redirect(c)
  \/ Load(c) \/ Store(c) \/ Current(c) \/ Set(c)

Next ==
  \E c \in Callers : Call(c) \/ SwitchEndpoint(c) \/ Request(c)

Spec == Init /\ [][Next]_vars

\* Callers' threads are scheduled and every transfer ends.
FairSpec == Spec /\ \A c \in Callers : WF_vars(Request(c))

-----------------------------------------------------------------------------
\* "when NetError, Connect will choose next endpoint to request"
\* (eureka_connect.h:25, 88): of a call with nothing but NetErrors the try after one is
\* made on another endpoint, if the call began with index and clients in step and nothing
\* overlaps with it.
MovesOn ==
  [][\A c \in Callers :
       Try(c) /\ tries[c] # <<>> /\ inStep[c] /\ netOnly[c] /\ NumEndpoints > 1
         => at'[c] # Last(tries[c])]_vars

\* A call that gives up after nothing but NetErrors has tried every endpoint
\* (eureka_connect.cpp:269-305: 2 * size + 1 tries, each on the next endpoint), wherever
\* earlier calls, overlapping ones too, and redirections left the index and the pool.
TriesAll ==
  [][\A c \in Callers :
       AnswerNetError(c) /\ netOnly[c] /\ pc'[c] = "out" => Indices \subseteq ToSet(tries[c])]_vars

\* Every call ends, whatever the servers answer and whatever other calls do to the
\* endpoint meanwhile (eureka_connect.cpp:271, 307-345).
CallEnds == \A c \in Callers : pc[c] = "try" ~> pc[c] = "out"
=============================================================================
