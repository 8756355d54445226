------------------------- MODULE EurekaConnectProofs -------------------------
(***************************************************************************)
(* Proofs about EurekaConnect, for any number of callers, endpoints, calls *)
(* and calls of switchEndpoint: the types, which say that no call makes    *)
(* more than 2 * size + 1 tries, and that a call that meets nothing but    *)
(* NetErrors, undisturbed, goes through the endpoints one after the other. *)
(***************************************************************************)
EXTENDS EurekaConnect, FiniteSetTheorems, TLAPS

-----------------------------------------------------------------------------
\* The endpoints as a circle

\* The endpoint after i, and the one x places after the first, for x up to three rounds.
succ(i) == (i + 1) % NumEndpoints
wrap(x) ==
  IF x < NumEndpoints THEN x
  ELSE IF x < NumEndpoints + NumEndpoints THEN x - NumEndpoints
  ELSE x - NumEndpoints - NumEndpoints

Rounds == 0 .. NumEndpoints + NumEndpoints + NumEndpoints - 1

\* What the remainder of the code comes to.
LEMMA SuccIs ==
  ASSUME NEW i \in Indices
  PROVE  succ(i) = IF i = NumEndpoints - 1 THEN 0 ELSE i + 1
<1>1. NumEndpoints \in Nat \ {0} /\ i \in Nat /\ i + 1 <= NumEndpoints
  BY ConnectAssumption DEF Indices
<1>2. CASE i = NumEndpoints - 1
  <2>1. NumEndpoints % NumEndpoints = 0
    BY <1>1
  <2> QED
    BY <1>1, <1>2, <2>1 DEF succ
<1>3. CASE i # NumEndpoints - 1
  <2>1. i + 1 \in Nat /\ i + 1 < NumEndpoints
    BY <1>1, <1>3
  <2>2. (i + 1) % NumEndpoints = i + 1
    BY <1>1, <2>1
  <2> QED
    BY <1>3, <2>2 DEF succ
<1> QED
  BY <1>2, <1>3

\* The endpoint after another is one of them, and another one if there are several.
LEMMA SuccOther ==
  ASSUME NEW i \in Indices
  PROVE  succ(i) \in Indices /\ (NumEndpoints > 1 => succ(i) # i)
BY SuccIs, ConnectAssumption DEF Indices

\* Going round step by step.
LEMMA WrapIs ==
  ASSUME NEW x \in Rounds
  PROVE  /\ wrap(x) \in Indices
         /\ x + 1 \in Rounds => wrap(x + 1) = succ(wrap(x))
<1>1. wrap(x) \in Indices
  BY ConnectAssumption DEF Rounds, wrap, Indices
<1>2. ASSUME x + 1 \in Rounds PROVE wrap(x + 1) = succ(wrap(x))
  <2>1. succ(wrap(x)) = IF wrap(x) = NumEndpoints - 1 THEN 0 ELSE wrap(x) + 1
    BY <1>1, SuccIs
  <2> QED
    BY <1>2, <2>1, ConnectAssumption DEF Rounds, wrap
<1> QED
  BY <1>1, <1>2

\* One round, begun anywhere, comes to every endpoint.
LEMMA RoundHasAll ==
  ASSUME NEW s \in Indices, NEW i \in Indices
  PROVE  \E x \in 0 .. NumEndpoints - 1 : wrap(s + x) = i
<1>1. CASE i >= s
  <2>1. i - s \in 0 .. NumEndpoints - 1 /\ wrap(s + (i - s)) = i
    BY <1>1, ConnectAssumption DEF Indices, wrap
  <2> QED
    BY <2>1
<1>2. CASE i < s
  <2>1. i - s + NumEndpoints \in 0 .. NumEndpoints - 1 /\ wrap(s + (i - s + NumEndpoints)) = i
    BY <1>2, ConnectAssumption DEF Indices, wrap
  <2> QED
    BY <2>1
<1> QED
  BY <1>1, <1>2, ConnectAssumption DEF Indices

-----------------------------------------------------------------------------
\* The inductive invariant

Types ==
  /\ m_endpointsIndex \in Indices
  /\ m_endpoint \in Targets
  /\ idle \in Seq(Targets)
  /\ pc \in [Callers -> PCs]
  /\ n \in [Callers -> Indices]
  /\ at \in [Callers -> Targets] /\ tries \in [Callers -> Seq(Targets)]
  /\ netOnly \in [Callers -> BOOLEAN] /\ inStep \in [Callers -> BOOLEAN]
  /\ calls \in 0 .. MaxCalls /\ switches \in 0 .. MaxSwitches

\* The clients of the pool, free and in use, are no more than the callers.
Using == {c \in Callers : pc[c] = "wire"}
ClientsFew == Len(idle) + Cardinality(Using) <= Cardinality(Callers)

\* A call is only made if some are left, and the last one ends it.
CountKept ==
  /\ tryCount \in [Callers -> Nat]
  /\ \A c \in Callers :
       /\ pc[c] = "out" => tryCount[c] = 0
       /\ pc[c] = "wire" => tryCount[c] <= NumEndpoints + NumEndpoints + 1
       /\ pc[c] # "wire" => tryCount[c] <= NumEndpoints + NumEndpoints

\* A call that is netOnly is the only one, and was not redirected.
Alone ==
  \A c \in Callers :
    netOnly[c] => /\ pc[c] # "out" /\ pc[c] # "redirect"
                  /\ \A d \in Callers \ {c} : pc[d] = "out"
                  /\ tryCount[c] = Len(tries[c])

\* The tries of c from the second one on go round from endpoint s, and the next one
\* is (or is about to be) prepared to go on.  Where the first one goes is left to what
\* earlier calls have left, unless the call began in step.
GoesRoundFrom(c, s) ==
  LET count == Len(tries[c])
      next  == wrap(s + count - 1)
  IN  /\ \A k \in 2 .. count : tries[c][k] = wrap(s + k - 2)
      /\ pc[c] = "try" /\ count = 0 => succ(m_endpointsIndex) = s
      /\ pc[c] = "try" /\ count > 0 =>
           /\ m_endpointsIndex = next /\ m_endpoint = next
           /\ \A i \in DOMAIN idle : idle[i] = next
      /\ pc[c] # "try" => count > 0
      /\ pc[c] \in {"wire", "load"} => succ(m_endpointsIndex) = next
      /\ pc[c] = "store" => succ(n[c]) = next
      /\ pc[c] = "current" => m_endpointsIndex = next
      /\ pc[c] = "set" => m_endpointsIndex = next /\ n[c] = next
      /\ inStep[c] /\ count = 0 => InStep
      /\ inStep[c] /\ count > 0 /\ NumEndpoints > 1 => tries[c][1] # s

GoesRound == \A c \in Callers : netOnly[c] => \E s \in Indices : GoesRoundFrom(c, s)

IInv == Types /\ ClientsFew /\ CountKept /\ Alone /\ GoesRound

\* A sequence set to one endpoint.
LEMMA AllSet ==
  ASSUME NEW e \in Targets, NEW len \in Nat
  PROVE  /\ [i \in 1 .. len |-> e] \in Seq(Targets)
         /\ Len([i \in 1 .. len |-> e]) = len
         /\ \A i \in 1 .. len : [j \in 1 .. len |-> e][i] = e
<1>1. [i \in 1 .. len |-> e] \in Seq(Targets)
  OBVIOUS
<1> QED
  BY <1>1

\* The steps of a call of request, for the proofs by cases.
LEMMA Steps ==
  ASSUME Next
  PROVE  \E c \in Callers :
           \/ Call(c) \/ SwitchEndpoint(c) \/ Try(c)
           \/ AnswerFinal(c) \/ AnswerStatus(c) \/ AnswerRedirect(c) \/ AnswerNetError(c)
           \/ Redirect(c) \/ Load(c) \/ Store(c) \/ Current(c) \/ Set(c)
BY DEF Next, Request

\* After start.
LEMMA IInvInit ==
  ASSUME Init
  PROVE  IInv
<1>1. Types
  BY ConnectAssumption DEF Init, Types, Indices, Targets, Elsewhere, PCs
<1>2. ClientsFew
  <2>1. Using = {}
    BY DEF Init, Using
  <2> QED
    BY <2>1, FS_EmptySet, FS_CardinalityType, ConnectAssumption DEF Init, ClientsFew
<1>3. CountKept
  BY ConnectAssumption DEF Init, CountKept
<1>4. Alone /\ GoesRound
  BY DEF Init, Alone, GoesRound
<1> QED
  BY <1>1, <1>2, <1>3, <1>4 DEF IInv

\* Every step keeps the types.
LEMMA TypesStep ==
  ASSUME Types, Next
  PROVE  Types'
<1> USE ConnectAssumption DEF Types
<1>0. /\ Indices \subseteq Targets /\ Elsewhere \in Targets /\ 0 \in Indices
      /\ Len(idle) \in Nat /\ DOMAIN idle = 1 .. Len(idle)
  BY DEF Indices, Targets
<1>1. ASSUME NEW c \in Callers, SwitchEndpoint(c) PROVE Types'
  <2>1. pc' \in [Callers -> PCs]
    BY <1>1 DEF SwitchEndpoint, Go, PCs
  <2> QED
    BY <1>1, <2>1 DEF SwitchEndpoint, poolVars
<1>2. ASSUME NEW c \in Callers, Call(c) PROVE Types'
  <2>1. netOnly' \in [Callers -> BOOLEAN] /\ inStep' \in [Callers -> BOOLEAN]
    BY <1>2, Zenon DEF Call
  <2>2. pc' \in [Callers -> PCs]
    BY <1>2 DEF Call, Go, PCs
  <2>3. tries' \in [Callers -> Seq(Targets)]
    BY <1>2 DEF Call
  <2> QED
    BY <1>2, <2>1, <2>2, <2>3 DEF Call, poolVars
<1>3. ASSUME NEW c \in Callers, Try(c) PROVE Types'
  <2> DEFINE e == IF idle = <<>> THEN m_endpoint ELSE Head(idle)
  <2>1. e \in Targets
    BY <1>0
  <2>2. idle' \in Seq(Targets)
    BY <1>3 DEF Try
  <2>3. at' \in [Callers -> Targets]
    BY <1>3, <2>1 DEF Try
  <2>4. tries' \in [Callers -> Seq(Targets)]
    <3>1. tries' = [tries EXCEPT ![c] = IF netOnly[c] THEN Append(@, e) ELSE <<>>]
      BY <1>3 DEF Try
    <3>2. Append(tries[c], e) \in Seq(Targets) /\ <<>> \in Seq(Targets)
      BY <2>1
    <3> HIDE DEF e
    <3> QED
      BY <3>1, <3>2
  <2>5. pc' \in [Callers -> PCs]
    BY <1>3 DEF Try, Go, PCs
  <2> QED
    BY <1>3, <2>2, <2>3, <2>4, <2>5 DEF Try
<1>4. ASSUME NEW c \in Callers, Answered(c) PROVE idle' \in Seq(Targets) /\ at' \in [Callers -> Targets]
  <2>1. <<at[c]>> \in Seq(Targets)
    OBVIOUS
  <2> QED
    BY <1>0, <1>4, <2>1 DEF Answered
<1>5. ASSUME NEW c \in Callers, End(c) PROVE Types'
  <2>1. pc' \in [Callers -> PCs] /\ tries' \in [Callers -> Seq(Targets)]
    BY <1>5 DEF End, Go, PCs
  <2> QED
    BY <1>4, <1>5, <2>1 DEF End, Answered
<1>6. ASSUME NEW c \in Callers, AnswerFinal(c) PROVE Types'
  BY <1>5, <1>6 DEF AnswerFinal
<1>7. ASSUME NEW c \in Callers, AnswerStatus(c) PROVE Types'
  <2>1. pc' \in [Callers -> PCs]
    BY <1>7 DEF AnswerStatus, Continue, Go, PCs
  <2> QED
    BY <1>4, <1>7, <2>1 DEF AnswerStatus, Continue, Answered
<1>8. ASSUME NEW c \in Callers, AnswerRedirect(c) PROVE Types'
  <2>1. pc' \in [Callers -> PCs]
    BY <1>8 DEF AnswerRedirect, Continue, Go, PCs
  <2> QED
    BY <1>4, <1>8, <2>1 DEF AnswerRedirect, Continue, Answered
<1>14. ASSUME NEW c \in Callers, Redirect(c) PROVE Types'
  <2>1. pc' \in [Callers -> PCs]
    BY <1>14 DEF Redirect, Go, PCs
  <2>2. idle' \in Seq(Targets) /\ m_endpoint' \in Targets
    BY <1>0, <1>14, AllSet DEF Redirect, setEndpoint
  <2> QED
    BY <1>14, <2>1, <2>2 DEF Redirect, callVars, tryVars
<1>9. ASSUME NEW c \in Callers, AnswerNetError(c) PROVE Types'
  <2>1. CASE retryLeft(c) /\ Continue(c, "load") /\ UNCHANGED netOnly
    <3>1. pc' \in [Callers -> PCs]
      BY <2>1 DEF Continue, Go, PCs
    <3> QED
      BY <1>4, <2>1, <3>1 DEF Continue, Answered
  <2> QED
    BY <1>5, <1>9, <2>1 DEF AnswerNetError
<1>10. ASSUME NEW c \in Callers, Load(c) PROVE Types'
  <2>1. pc' \in [Callers -> PCs]
    BY <1>10 DEF Load, Go, PCs
  <2> QED
    BY <1>10, <2>1 DEF Load, poolVars, callVars, tryVars
<1>11. ASSUME NEW c \in Callers, Store(c) PROVE Types'
  <2>1. pc' \in [Callers -> PCs]
    BY <1>11 DEF Store, Go, PCs
  <2>2. m_endpointsIndex' \in Indices
    BY <1>11, SuccOther DEF Store, succ
  <2> QED
    BY <1>0, <1>11, <2>1, <2>2 DEF Store, poolVars, callVars, tryVars
<1>12. ASSUME NEW c \in Callers, Current(c) PROVE Types'
  <2>1. pc' \in [Callers -> PCs]
    BY <1>12 DEF Current, Go, PCs
  <2> QED
    BY <1>12, <2>1 DEF Current, poolVars, callVars, tryVars
<1>13. ASSUME NEW c \in Callers, Set(c) PROVE Types'
  <2>1. pc' \in [Callers -> PCs]
    BY <1>13 DEF Set, Go, PCs
  <2>2. idle' \in Seq(Targets) /\ m_endpoint' \in Targets
    BY <1>0, <1>13, AllSet DEF Set, setEndpoint
  <2> QED
    BY <1>0, <1>13, <2>1, <2>2 DEF Set, callVars, tryVars
<1> QED
  BY <1>1, <1>2, <1>3, <1>6, <1>7, <1>8, <1>9, <1>10, <1>11, <1>12, <1>13, <1>14, Steps

\* Tries are counted one by one and limited by retryLeft, so by 2 * size + 1.
LEMMA CountStep ==
  ASSUME Types, CountKept, Next
  PROVE  CountKept'
<1> USE ConnectAssumption
<1>1. ASSUME NEW c \in Callers, SwitchEndpoint(c) PROVE CountKept'
  <2>1. pc[c] = "out" /\ pc' = [pc EXCEPT ![c] = "current"] /\ tryCount' = tryCount
    BY <1>1 DEF SwitchEndpoint, Go
  <2> QED
    BY <2>1 DEF Types, CountKept
<1>2. ASSUME NEW c \in Callers, Call(c) \/ Try(c) PROVE CountKept'
  <2>1. CASE Call(c)
    <3>1. pc[c] = "out" /\ pc' = [pc EXCEPT ![c] = "try"] /\ tryCount' = tryCount
      BY <2>1 DEF Call, Go
    <3> QED
      BY <3>1 DEF Types, CountKept
  <2>2. CASE Try(c)
    <3>1. /\ pc[c] = "try" /\ pc' = [pc EXCEPT ![c] = "wire"]
          /\ tryCount' = [tryCount EXCEPT ![c] = @ + 1]
      BY <2>2 DEF Try, Go
    <3> QED
      BY <3>1 DEF Types, CountKept
  <2> QED
    BY <1>2, <2>1, <2>2
<1>3. ASSUME NEW c \in Callers, AnswerStatus(c) \/ AnswerRedirect(c) PROVE CountKept'
  BY <1>3 DEF AnswerStatus, AnswerRedirect, Continue, retryLeft, Go, Types, CountKept
<1>4. ASSUME NEW c \in Callers, End(c) PROVE CountKept'
  BY <1>4 DEF End, Go, Types, CountKept
<1>5. ASSUME NEW c \in Callers, AnswerFinal(c) \/ AnswerNetError(c) PROVE CountKept'
  <2>1. CASE retryLeft(c) /\ Continue(c, "load")
    BY <2>1 DEF Continue, retryLeft, Go, Types, CountKept
  <2> QED
    BY <1>4, <1>5, <2>1 DEF AnswerFinal, AnswerNetError
<1>6. ASSUME NEW c \in Callers, Redirect(c) \/ Load(c) \/ Store(c) \/ Current(c)
      PROVE  CountKept'
  BY <1>6 DEF Redirect, Load, Store, Current, callVars, tryVars, Go, Types, CountKept
<1>7. ASSUME NEW c \in Callers, Set(c) PROVE CountKept'
  <2>1. /\ pc[c] = "set" /\ pc' = [pc EXCEPT ![c] = IF tryCount[c] > 0 THEN "try" ELSE "out"]
        /\ tryCount' = tryCount
    BY <1>7 DEF Set, callVars, tryVars, Go
  <2> QED
    BY <2>1 DEF Types, CountKept
<1> QED
  BY <1>1, <1>2, <1>3, <1>5, <1>6, <1>7, Steps

\* A client is taken from the front or made, and goes back to the front.
LEMMA ClientsStep ==
  ASSUME Types, ClientsFew, Next
  PROVE  ClientsFew'
<1> USE DEF Types
<1>1. /\ IsFiniteSet(Callers) /\ Cardinality(Callers) \in Nat
      /\ IsFiniteSet(Using) /\ Cardinality(Using) \in Nat /\ Len(idle) \in Nat
  BY ConnectAssumption, FS_Subset, FS_CardinalityType DEF Using
<1>2. ASSUME Len(idle') = Len(idle), \A c \in Callers : pc'[c] = "wire" <=> pc[c] = "wire"
      PROVE  ClientsFew'
  <2>1. Using' = Using
    BY <1>2 DEF Using
  <2> QED
    BY <1>2, <2>1 DEF ClientsFew
<1>4. ASSUME NEW c \in Callers, Try(c) PROVE ClientsFew'
  <2>1. Using' = Using \cup {c} /\ c \notin Using
    BY <1>4 DEF Try, Go, Using
  <2>2. IsFiniteSet(Using') /\ Cardinality(Using') = Cardinality(Using) + 1
    BY <1>1, <2>1, FS_AddElement
  <2>3. Cardinality(Using') <= Cardinality(Callers)
    <3>1. Using' \subseteq Callers
      BY DEF Using
    <3> QED
      BY <1>1, <3>1, FS_Subset
  <2>4. CASE idle = <<>>
    <3>1. idle' = <<>>
      BY <1>4, <2>4 DEF Try
    <3> QED
      BY <1>1, <2>2, <2>3, <3>1 DEF ClientsFew
  <2>5. CASE idle # <<>>
    <3>1. Len(idle') = Len(idle) - 1
      BY <1>4, <2>5 DEF Try
    <3> QED
      BY <1>1, <2>2, <3>1 DEF ClientsFew
  <2> QED
    BY <2>4, <2>5
<1>5. ASSUME NEW c \in Callers, pc[c] = "wire", NEW to \in PCs \ {"wire"},
             pc' = [pc EXCEPT ![c] = to], Len(idle') = Len(idle) + 1
      PROVE  ClientsFew'
  <2>1. Using' = Using \ {c} /\ c \in Using
    BY <1>5 DEF Using
  <2>2. IsFiniteSet(Using') /\ Cardinality(Using') = Cardinality(Using) - 1
    BY <1>1, <2>1, FS_RemoveElement
  <2> QED
    BY <1>1, <1>5, <2>2 DEF ClientsFew
<1>6. ASSUME NEW c \in Callers, Answered(c) PROVE Len(idle') = Len(idle) + 1
  BY <1>1, <1>6 DEF Answered
<1>7. ASSUME NEW c \in Callers,
             AnswerFinal(c) \/ AnswerStatus(c) \/ AnswerRedirect(c) \/ AnswerNetError(c)
      PROVE  ClientsFew'
  <2>1. Answered(c) /\ \E to \in {"out", "try", "redirect", "load"} : Go(c, "wire", to)
    BY <1>7 DEF AnswerFinal, AnswerStatus, AnswerRedirect, AnswerNetError, Continue, End
  <2> QED
    BY <1>5, <1>6, <2>1 DEF Go, PCs
<1>9. ASSUME NEW c \in Callers,
             Call(c) \/ SwitchEndpoint(c) \/ Load(c) \/ Store(c) \/ Current(c)
      PROVE  ClientsFew'
  <2>1. UNCHANGED idle /\ pc' = [pc EXCEPT ![c] = pc'[c]] /\ pc[c] # "wire" /\ pc'[c] # "wire"
    BY <1>9 DEF Call, SwitchEndpoint, Load, Store, Current, Go, poolVars
  <2> QED
    BY <1>2, <2>1
<1>10. ASSUME NEW c \in Callers, Set(c) \/ Redirect(c) PROVE ClientsFew'
  <2>1. PICK e \in Targets : setEndpoint(e)
    BY <1>10 DEF Set, Redirect, Targets
  <2>2. Len(idle') = Len(idle) /\ DOMAIN idle = 1 .. Len(idle)
    BY <1>1, <2>1, AllSet DEF setEndpoint
  <2>3. pc' = [pc EXCEPT ![c] = pc'[c]] /\ pc[c] # "wire" /\ pc'[c] # "wire"
    BY <1>10 DEF Set, Redirect, Go
  <2> QED
    BY <1>2, <2>2, <2>3
<1> QED
  BY <1>4, <1>7, <1>9, <1>10, Steps

\* A call that begins sees to it that no other is netOnly, and is it only alone.
LEMMA AloneStep ==
  ASSUME Types, CountKept, Alone, GoesRound, Next
  PROVE  Alone'
<1> USE DEF Types
<1>1. ASSUME NEW c \in Callers, SwitchEndpoint(c) PROVE Alone'
  BY <1>1 DEF SwitchEndpoint, Alone
<1>2. ASSUME NEW c \in Callers, Call(c) PROVE Alone'
  <2>1. /\ pc[c] = "out" /\ pc' = [pc EXCEPT ![c] = "try"]
        /\ tryCount' = tryCount /\ tries' = [d \in Callers |-> <<>>]
    BY <1>2 DEF Call, Go
  <2>2. ASSUME NEW d \in Callers, netOnly'[d]
        PROVE  d = c /\ \A e \in Callers \ {c} : pc[e] = "out"
    BY <1>2, <2>2, Zenon DEF Call
  <2>3. tryCount[c] = 0
    BY <2>1 DEF CountKept
  <2> QED
    BY <2>1, <2>2, <2>3 DEF Alone
<1>3. ASSUME NEW c \in Callers, Request(c), NEW d \in Callers, netOnly[d] PROVE d = c
  <2>1. pc[c] # "out"
    BY <1>3 DEF Request, Try, AnswerFinal, AnswerStatus, AnswerRedirect, AnswerNetError,
                Continue, End, Redirect, Load, Store, Current, Set, Go
  <2> QED
    BY <1>3, <2>1 DEF Alone
<1>4. ASSUME NEW c \in Callers, Request(c) PROVE Alone'
  <2>1. \A d \in Callers : netOnly'[d] => netOnly[d] /\ d = c
    BY <1>3, <1>4 DEF Request, Try, AnswerFinal, AnswerStatus, AnswerRedirect, AnswerNetError,
                Continue, End, Redirect, Load, Store, Current, Set, callVars
  <2> SUFFICES ASSUME netOnly'[c]
               PROVE  /\ pc'[c] # "out" /\ pc'[c] # "redirect"
                      /\ \A d \in Callers \ {c} : pc'[d] = "out"
                      /\ tryCount'[c] = Len(tries'[c])
    BY <2>1 DEF Alone
  <2>2. netOnly[c] /\ \A d \in Callers \ {c} : pc[d] = "out"
    BY <2>1 DEF Alone
  <2>3. tryCount[c] = Len(tries[c])
    BY <2>2 DEF Alone
  <2>4. CASE Try(c)
    <3> DEFINE e == IF idle = <<>> THEN m_endpoint ELSE Head(idle)
    <3>1. /\ tryCount'[c] = tryCount[c] + 1 /\ pc' = [pc EXCEPT ![c] = "wire"]
          /\ tries'[c] = Append(tries[c], e)
      BY <2>2, <2>4 DEF Try, Go, CountKept
    <3> HIDE DEF e
    <3>2. Len(tries'[c]) = Len(tries[c]) + 1
      BY <3>1
    <3> QED
      BY <2>2, <2>3, <3>1, <3>2
  <2>5. CASE AnswerNetError(c)
    <3>1. Continue(c, "load")
      BY <2>5 DEF AnswerNetError, End
    <3> QED
      BY <2>2, <2>3, <3>1 DEF Continue, Go
  <2>6. CASE Redirect(c) \/ Load(c) \/ Store(c) \/ Current(c) \/ Set(c)
    <3>1. pc[c] = "set" => tryCount[c] > 0
      <4>1. PICK s \in Indices : GoesRoundFrom(c, s)
        BY <2>2 DEF GoesRound
      <4> QED
        BY <2>3, <4>1 DEF GoesRoundFrom
    <3> QED
      BY <2>2, <2>3, <2>6, <3>1
      DEF Redirect, Load, Store, Current, Set, callVars, tryVars, Go
  <2>7. CASE AnswerFinal(c) \/ AnswerStatus(c) \/ AnswerRedirect(c)
    BY <2>7 DEF AnswerFinal, AnswerStatus, AnswerRedirect, End
  <2> QED
    BY <1>4, <2>4, <2>5, <2>6, <2>7 DEF Request
<1> QED
  BY <1>1, <1>2, <1>4 DEF Next

\* The steps of a round: a try begins it or goes on with it, a NetError is followed by
\* the store of the next index and its way to the pool and its free clients.
LEMMA GoesRoundStep ==
  ASSUME IInv, Next
  PROVE  GoesRound'
<1> USE ConnectAssumption DEF Types, IInv
<1>1. ASSUME NEW c \in Callers, SwitchEndpoint(c) PROVE GoesRound'
  BY <1>1 DEF SwitchEndpoint, GoesRound
<1>2. ASSUME NEW c \in Callers, Call(c) PROVE GoesRound'
  <2>1. /\ pc' = [pc EXCEPT ![c] = "try"] /\ tries' = [d \in Callers |-> <<>>]
        /\ UNCHANGED <<m_endpointsIndex, m_endpoint, idle>>
    BY <1>2 DEF Call, Go, poolVars
  <2>2. \A d \in Callers : (netOnly'[d] => d = c) /\ (inStep'[d] => InStep)
    BY <1>2, Zenon DEF Call
  <2>3. InStep' = InStep
    BY <2>1 DEF InStep
  <2>4. succ(m_endpointsIndex) \in Indices /\ GoesRoundFrom(c, succ(m_endpointsIndex))'
    BY <2>1, <2>2, <2>3, SuccOther DEF GoesRoundFrom
  <2> QED
    BY <2>1, <2>2, <2>4 DEF GoesRound
<1>3. ASSUME NEW c \in Callers, Request(c) PROVE GoesRound'
  <2>1. \A d \in Callers : netOnly'[d] => netOnly[d] /\ d = c
    <3>1. pc[c] # "out" /\ \A d \in Callers : netOnly'[d] => netOnly[d]
      BY <1>3 DEF Request, Try, AnswerFinal, AnswerStatus, AnswerRedirect, AnswerNetError,
                  Continue, End, Redirect, Load, Store, Current, Set, callVars, Go
    <3> QED
      BY <3>1 DEF Alone
  <2> SUFFICES ASSUME netOnly'[c] PROVE \E s \in Indices : GoesRoundFrom(c, s)'
    BY <2>1 DEF GoesRound
  <2>2. netOnly[c] /\ tryCount[c] = Len(tries[c])
    BY <2>1 DEF Alone
  <2>3. PICK s \in Indices : GoesRoundFrom(c, s)
    BY <2>2 DEF GoesRound
  <2> DEFINE count == Len(tries[c])
             next == wrap(s + count - 1)
  <2>4. /\ count \in Nat /\ count <= NumEndpoints + NumEndpoints + 1
        /\ pc[c] = "try" => count <= NumEndpoints + NumEndpoints
    BY <2>2 DEF CountKept
  <2>5. s \in Nat /\ s < NumEndpoints
    BY DEF Indices
  <2>6. count > 0 => s + count - 1 \in Rounds /\ next \in Indices
    BY <2>4, <2>5, WrapIs DEF Rounds
  <2>7. CASE Try(c)
    <3> DEFINE e == IF idle = <<>> THEN m_endpoint ELSE Head(idle)
    <3>1. /\ pc[c] = "try" /\ pc' = [pc EXCEPT ![c] = "wire"]
          /\ tries'[c] = Append(tries[c], e)
          /\ UNCHANGED <<m_endpointsIndex, inStep>>
      BY <2>2, <2>7 DEF Try, Go
    <3>2. e \in Targets /\ tries[c] \in Seq(Targets) /\ (idle # <<>> => Head(idle) = idle[1] /\ 1 \in DOMAIN idle)
      OBVIOUS
    <3>3. count > 0 => e = next /\ m_endpointsIndex = next
      BY <2>3, <3>1, <3>2 DEF GoesRoundFrom
    <3>4. count = 0 /\ inStep[c] => e \in {m_endpointsIndex, Elsewhere}
      <4>1. count = 0 /\ inStep[c] => InStep
        BY <2>3 DEF GoesRoundFrom
      <4>2. idle # <<>> => idle[1] \in ToSet(idle)
        BY <3>2 DEF ToSet
      <4> QED
        BY <3>2, <4>1, <4>2 DEF InStep
    <3>5. count = 0 => succ(m_endpointsIndex) = s
      BY <2>3, <3>1 DEF GoesRoundFrom
    <3> HIDE DEF e
    <3>6. /\ Len(tries'[c]) = count + 1 /\ tries'[c][count + 1] = e
          /\ \A k \in 1 .. count : tries'[c][k] = tries[c][k]
      BY <3>1, <3>2
    <3>7. succ(m_endpointsIndex) = wrap(s + (count + 1) - 1)
      <4>1. CASE count = 0
        <5>1. wrap(s) = s
          BY <2>5 DEF wrap
        <5> QED
          BY <2>5, <3>5, <4>1, <5>1
      <4>2. CASE count > 0
        <5>1. s + count - 1 \in Rounds /\ (s + count - 1) + 1 \in Rounds
          BY <2>4, <2>5, <3>1, <4>2 DEF Rounds
        <5>2. wrap((s + count - 1) + 1) = succ(wrap(s + count - 1))
          BY <5>1, WrapIs
        <5>3. (s + count - 1) + 1 = s + (count + 1) - 1
          BY <2>4, <2>5
        <5> QED
          BY <3>3, <4>2, <5>2, <5>3
      <4> QED
        BY <2>4, <4>1, <4>2
    <3>8. \A k \in 2 .. count + 1 : tries'[c][k] = wrap(s + k - 2)
      <4> SUFFICES ASSUME NEW k \in 2 .. count + 1 PROVE tries'[c][k] = wrap(s + k - 2)
        OBVIOUS
      <4>1. CASE k = count + 1
        <5>1. count > 0 /\ s + k - 2 = s + count - 1
          BY <2>4, <2>5, <4>1
        <5> QED
          BY <3>3, <3>6, <4>1, <5>1
      <4>2. CASE k # count + 1
        <5>1. k \in 2 .. count
          BY <2>4, <4>2
        <5>2. tries[c][k] = wrap(s + k - 2)
          BY <2>3, <5>1 DEF GoesRoundFrom
        <5> QED
          BY <3>6, <5>1, <5>2
      <4> QED
        BY <4>1, <4>2
    <3>9. inStep'[c] /\ NumEndpoints > 1 => tries'[c][1] # s
      <4>1. CASE count = 0
        <5>1. m_endpointsIndex # s \/ ~(NumEndpoints > 1)
          BY <3>5, <4>1, SuccOther
        <5>2. Elsewhere # s
          BY <2>5 DEF Elsewhere
        <5> QED
          BY <3>1, <3>4, <3>6, <4>1, <5>1, <5>2
      <4>2. CASE count > 0
        <5>1. inStep[c] /\ NumEndpoints > 1 => tries[c][1] # s
          BY <2>3, <4>2 DEF GoesRoundFrom
        <5>2. tries'[c][1] = tries[c][1]
          BY <2>4, <3>6, <4>2
        <5> QED
          BY <3>1, <5>1, <5>2
      <4> QED
        BY <2>4, <4>1, <4>2
    <3>10. pc'[c] = "wire" /\ Len(tries'[c]) > 0
      BY <2>4, <3>1, <3>6
    <3>11. GoesRoundFrom(c, s)'
      BY <3>1, <3>6, <3>7, <3>8, <3>9, <3>10 DEF GoesRoundFrom
    <3> QED
      BY <3>11
  <2>8. CASE AnswerNetError(c)
    <3>1. Continue(c, "load")
      BY <2>8 DEF AnswerNetError, End
    <3>2. /\ pc[c] = "wire" /\ pc'[c] = "load"
          /\ UNCHANGED <<m_endpointsIndex, tries, inStep>>
      BY <3>1 DEF Continue, Answered, Go
    <3>3. GoesRoundFrom(c, s)'
      BY <2>3, <3>2 DEF GoesRoundFrom
    <3> QED
      BY <3>3
  <2>9. CASE Load(c)
    <3>1. /\ pc[c] = "load" /\ pc'[c] = "store" /\ n'[c] = m_endpointsIndex
          /\ UNCHANGED <<m_endpointsIndex, tries, inStep>>
      BY <2>9 DEF Load, Go, callVars, tryVars
    <3>2. /\ count > 0 /\ succ(n'[c]) = next
          /\ \A k \in 2 .. count : tries[c][k] = wrap(s + k - 2)
          /\ inStep[c] /\ NumEndpoints > 1 => tries[c][1] # s
      BY <2>3, <3>1 DEF GoesRoundFrom
    <3> HIDE DEF Types, IInv, next
    <3>3. GoesRoundFrom(c, s)'
      BY <2>4, <3>1, <3>2 DEF GoesRoundFrom, next
    <3> QED
      BY <3>3
  <2>10. CASE Store(c)
    <3>1. /\ pc[c] = "store" /\ pc'[c] = "current" /\ m_endpointsIndex' = succ(n[c])
          /\ UNCHANGED <<tries, inStep>>
      BY <2>10 DEF Store, Go, callVars, tryVars, succ
    <3>2. GoesRoundFrom(c, s)'
      BY <2>3, <3>1 DEF GoesRoundFrom
    <3> QED
      BY <3>2
  <2>11. CASE Current(c)
    <3>1. /\ pc[c] = "current" /\ pc'[c] = "set" /\ n'[c] = m_endpointsIndex
          /\ UNCHANGED <<m_endpointsIndex, tries, inStep>>
      BY <2>11 DEF Current, Go, callVars, tryVars
    <3>2. GoesRoundFrom(c, s)'
      BY <2>3, <3>1 DEF GoesRoundFrom
    <3> QED
      BY <3>2
  <2>12. CASE Set(c)
    <3>0. pc[c] = "set" /\ tryCount[c] > 0
      BY <2>2, <2>3, <2>12 DEF Set, Go, GoesRoundFrom
    <3>1. /\ pc[c] = "set" /\ pc'[c] = "try" /\ setEndpoint(n[c])
          /\ UNCHANGED <<m_endpointsIndex, tries, inStep>>
      BY <2>12, <3>0 DEF Set, Go, callVars, tryVars
    <3>2. m_endpoint' = n[c] /\ \A i \in DOMAIN idle' : idle'[i] = n[c]
      BY <3>1 DEF setEndpoint
    <3>3. /\ count > 0 /\ m_endpointsIndex = next /\ n[c] = next
          /\ \A k \in 2 .. count : tries[c][k] = wrap(s + k - 2)
          /\ inStep[c] /\ NumEndpoints > 1 => tries[c][1] # s
      BY <2>3, <3>0, <3>1 DEF GoesRoundFrom
    <3> HIDE DEF Types, IInv, next
    <3>4. GoesRoundFrom(c, s)'
      BY <2>4, <3>1, <3>2, <3>3 DEF GoesRoundFrom, next
    <3> QED
      BY <3>4
  <2>13. CASE Redirect(c)
    <3>1. pc[c] = "redirect" /\ netOnly[c]
      BY <2>2, <2>13 DEF Redirect, Go
    <3> QED
      BY <3>1 DEF Alone
  <2>14. CASE AnswerFinal(c) \/ AnswerStatus(c) \/ AnswerRedirect(c)
    BY <2>14 DEF AnswerFinal, AnswerStatus, AnswerRedirect, End
  <2> QED
    BY <1>3, <2>7, <2>8, <2>9, <2>10, <2>11, <2>12, <2>13, <2>14 DEF Request
<1> QED
  BY <1>1, <1>2, <1>3 DEF Next

\* Every step keeps the invariant.
LEMMA IInvStep ==
  ASSUME IInv, [Next]_vars
  PROVE  IInv'
<1>1. CASE Next
  BY <1>1, TypesStep, CountStep, ClientsStep, AloneStep, GoesRoundStep DEF IInv
<1>2. CASE UNCHANGED vars
  <2>1. /\ UNCHANGED <<m_endpointsIndex, m_endpoint, idle, pc, n, tryCount, at, tries>>
        /\ UNCHANGED <<netOnly, inStep, calls, switches>>
    BY <1>2 DEF vars, poolVars, callVars, tryVars
  <2>2. UNCHANGED <<Types, ClientsFew, CountKept, Alone, InStep>>
    BY <2>1 DEF Types, ClientsFew, Using, CountKept, Alone, InStep
  <2>3. UNCHANGED GoesRound
    BY <2>1, <2>2 DEF GoesRound, GoesRoundFrom
  <2> QED
    BY <2>2, <2>3 DEF IInv
<1> QED
  BY <1>1, <1>2

-----------------------------------------------------------------------------
\* The theorems

\* The invariant of the connection: types, tries, clients, and the round of a call that
\* meets nothing but NetErrors (eureka_connect.cpp:269-305).
THEOREM IInvHolds == Spec => []IInv
<1>1. Init => IInv
  BY IInvInit
<1>2. IInv /\ [Next]_vars => IInv'
  BY IInvStep
<1> QED
  BY <1>1, <1>2, PTL DEF Spec

\* Every reachable state has its type: no call makes more than 2 * size + 1 tries
\* (eureka_connect.cpp:271, 307-345), and there are no more clients than callers.
THEOREM EurekaConnectTypeCorrect == Spec => []TypeOK
<1>1. IInv => TypeOK
  <2> SUFFICES ASSUME IInv PROVE TypeOK
    OBVIOUS
  <2>1. tryCount \in [Callers -> 0 .. 2 * NumEndpoints + 1]
    <3>1. \A c \in Callers : tryCount[c] \in 0 .. 2 * NumEndpoints + 1
      BY ConnectAssumption DEF IInv, CountKept
    <3> QED
      BY <3>1 DEF IInv, CountKept
  <2>2. Len(idle) <= Cardinality(Callers)
    <3>1. Cardinality(Callers) \in Nat /\ Cardinality(Using) \in Nat
      BY ConnectAssumption, FS_Subset, FS_CardinalityType DEF Using
    <3> QED
      BY <3>1 DEF IInv, Types, ClientsFew
  <2> QED
    BY <2>1, <2>2 DEF IInv, Types, TypeOK
<1> QED
  BY <1>1, IInvHolds, PTL

\* "when NetError, Connect will choose next endpoint to request" (eureka_connect.h:25,
\* 88): for any number of endpoints and callers, wherever the call began in the list.
THEOREM FailoverMovesOn == Spec => MovesOn
<1>1. ASSUME IInv, NEW c \in Callers,
             Try(c), tries[c] # <<>>, inStep[c], netOnly[c], NumEndpoints > 1
      PROVE  at'[c] # Last(tries[c])
  <2> USE DEF IInv, Types
  <2> DEFINE count == Len(tries[c])
  <2>1. PICK s \in Indices : GoesRoundFrom(c, s)
    BY <1>1 DEF GoesRound
  <2>2. /\ tries[c] \in Seq(Targets) /\ count \in Nat /\ count > 0
        /\ Last(tries[c]) = tries[c][count]
    BY <1>1 DEF Last
  <2>3. /\ m_endpoint = wrap(s + count - 1)
        /\ \A i \in DOMAIN idle : idle[i] = wrap(s + count - 1)
    BY <1>1, <2>1, <2>2 DEF GoesRoundFrom, Try, Go
  <2>4. at'[c] = wrap(s + count - 1)
    <3>1. idle # <<>> => Head(idle) = idle[1] /\ 1 \in DOMAIN idle
      OBVIOUS
    <3> QED
      BY <1>1, <2>3, <3>1 DEF Try
  <2>5. s \in Nat /\ s < NumEndpoints /\ count <= NumEndpoints + NumEndpoints
    BY <1>1, ConnectAssumption DEF Indices, Alone, CountKept, Try, Go
  <2>6. CASE count = 1
    <3>1. wrap(s + count - 1) = s
      BY <2>5, <2>6, ConnectAssumption DEF wrap
    <3>2. tries[c][1] # s
      BY <1>1, <2>1, <2>2 DEF GoesRoundFrom
    <3> QED
      BY <2>2, <2>4, <2>6, <3>1, <3>2
  <2>7. CASE count > 1
    <3>1. s + count - 2 \in Rounds /\ s + count - 2 + 1 \in Rounds
      BY <2>2, <2>5, <2>7, ConnectAssumption DEF Rounds
    <3>2. /\ wrap(s + count - 2) \in Indices
          /\ wrap(s + count - 2 + 1) = succ(wrap(s + count - 2))
      BY <3>1, WrapIs
    <3>3. wrap(s + count - 2 + 1) # wrap(s + count - 2)
      BY <1>1, <3>2, SuccOther
    <3>4. tries[c][count] = wrap(s + count - 2)
      BY <2>1, <2>2, <2>7 DEF GoesRoundFrom
    <3>5. s + count - 2 + 1 = s + count - 1
      BY <2>2, <2>5
    <3> QED
      BY <2>2, <2>4, <3>3, <3>4, <3>5
  <2> HIDE DEF count, Types, IInv
  <2>8. count = 1 \/ count > 1
    BY <2>2
  <2> QED
    BY <2>6, <2>7, <2>8
<1>2. IInv => \A c \in Callers :
                Try(c) /\ tries[c] # <<>> /\ inStep[c] /\ netOnly[c] /\ NumEndpoints > 1
                  => at'[c] # Last(tries[c])
  BY <1>1
<1> QED
  BY <1>2, IInvHolds, PTL DEF MovesOn

\* A call that gives up after nothing but NetErrors has tried every endpoint, for any
\* number of endpoints: of its 2 * size + 1 tries all but the first go round
\* (eureka_connect.cpp:269-305).
THEOREM FailoverTriesAll == Spec => TriesAll
<1>1. ASSUME IInv, NEW c \in Callers, AnswerNetError(c), netOnly[c], pc'[c] = "out"
      PROVE  Indices \subseteq ToSet(tries[c])
  <2> USE ConnectAssumption DEF IInv, Types
  <2> DEFINE count == Len(tries[c])
  <2>1. PICK s \in Indices : GoesRoundFrom(c, s)
    BY <1>1 DEF GoesRound
  <2>2. ~retryLeft(c)
    BY <1>1 DEF AnswerNetError, Continue, Go
  <2>3. count \in Nat /\ count > NumEndpoints + NumEndpoints /\ DOMAIN tries[c] = 1 .. count
    BY <1>1, <2>2 DEF retryLeft, Alone, CountKept
  <2> SUFFICES ASSUME NEW i \in Indices PROVE i \in ToSet(tries[c])
    OBVIOUS
  <2>4. PICK x \in 0 .. NumEndpoints - 1 : wrap(s + x) = i
    BY RoundHasAll
  <2>5. x + 2 \in 2 .. count /\ x + 2 \in 1 .. count
    BY <2>3, <2>4
  <2>6. tries[c][x + 2] = wrap(s + (x + 2) - 2)
    BY <2>1, <2>5 DEF GoesRoundFrom
  <2>7. s + (x + 2) - 2 = s + x
    BY DEF Indices
  <2> QED
    BY <2>3, <2>4, <2>5, <2>6, <2>7 DEF ToSet
<1>2. IInv => \A c \in Callers :
                AnswerNetError(c) /\ netOnly[c] /\ pc'[c] = "out"
                  => Indices \subseteq ToSet(tries[c])
  BY <1>1
<1> QED
  BY <1>2, IInvHolds, PTL DEF TriesAll
=============================================================================
