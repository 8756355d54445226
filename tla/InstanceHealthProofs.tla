------------------------- MODULE InstanceHealthProofs -------------------------
(***************************************************************************)
(* Proofs about InstanceHealth, for any number of handles and any length   *)
(* of the refreshes: the state has its type, the error state of an         *)
(* instance ends in time, and a check that finds errors and is not late    *)
(* does not lower the step.                                                *)
(*                                                                         *)
(* The age of the first error is bounded in two ways: it and the time      *)
(* until the next check have a bounded sum, which RecoversInTime needs,    *)
(* and it is no older than the sleep before this pass and the refresh of   *)
(* this pass, whatever the earlier ones took, which StillErrorKeepsStep    *)
(* needs.                                                                  *)
(***************************************************************************)
EXTENDS InstanceHealth, TLAPS

\* The next check comes at most so many seconds from now.
untilCheck ==
  IF timer = "refresh" THEN MaxRefresh - sincePass
  ELSE MaxRefresh + (IF sincePass < CHECK_APP_PERIOD_SECONDS
                       THEN CHECK_APP_PERIOD_SECONDS - sincePass ELSE 0)

\* The latest time of the check that takes an instance out of a step.
Latest(errStep) ==
  CASE errStep = 1 -> 119 + 4 * MaxGap [] errStep = 2 -> 119 + 3 * MaxGap
    [] errStep = 3 -> 119 + 2 * MaxGap [] OTHER -> 119 + MaxGap

InRefresh == timer = "refresh" => sincePass <= MaxRefresh
ErrorIsNew == errState.errorCount > 0 => errState.age + untilCheck <= MaxGap
ErrorOfPass ==
  errState.errorCount > 0
    => errState.age <= IF timer = "refresh" THEN CHECK_APP_PERIOD_SECONDS + sincePass
                       ELSE IF sincePass < CHECK_APP_PERIOD_SECONDS THEN sincePass
                            ELSE CHECK_APP_PERIOD_SECONDS
StepIsDue == errState.errStep > 0 => errState.age + untilCheck <= Latest(errState.errStep)

IInv == TypeOK /\ InRefresh /\ ErrorIsNew /\ ErrorOfPass /\ StepIsDue

-----------------------------------------------------------------------------
\* The time until the next check, and how far it is after a check.
LEMMA UntilCheck ==
  ASSUME TypeOK, InRefresh
  PROVE  untilCheck \in 0 .. MaxGap /\ MaxGap \in Nat
BY HealthAssumption DEF TypeOK, InRefresh, untilCheck, MaxGap, CHECK_APP_PERIOD_SECONDS

\* Before the first pass nothing has gone wrong: NoErr.
LEMMA IInvInit == Init => IInv
<1> SUFFICES ASSUME Init PROVE IInv
  OBVIOUS
<1>1. TypeOK
  BY HealthAssumption, MaxAgeAssumption
  DEF Init, TypeOK, NoErr, ErrState, MaxGap, CHECK_APP_PERIOD_SECONDS, ERR_STEP_COUNT
<1>2. InRefresh /\ ErrorIsNew /\ ErrorOfPass /\ StepIsDue
  BY DEF Init, InRefresh, ErrorIsNew, ErrorOfPass, StepIsDue, NoErr
<1>3. QED
  BY <1>1, <1>2 DEF IInv

\* Steps that leave the times and the error step alone, whatever becomes of the count of
\* handles and of good requests.
LEMMA Untimed ==
  ASSUME IInv, UNCHANGED timerVars,
         errState' \in ErrState,
         errState'.age = errState.age, errState'.errStep = errState.errStep,
         errState'.errorCount = errState.errorCount,
         place' \in [Handles -> {"none", "chosen", "counting", "held"}], seen' \in [Handles -> Int]
  PROVE  IInv'
<1>1. TypeOK' /\ InRefresh'
  BY DEF IInv, TypeOK, InRefresh, timerVars
<1>2. untilCheck' = untilCheck
  BY DEF untilCheck, timerVars
<1>3. ErrorIsNew' /\ ErrorOfPass' /\ StepIsDue'
  BY <1>2 DEF IInv, ErrorIsNew, ErrorOfPass, StepIsDue, timerVars
<1>4. QED
  BY <1>1, <1>3 DEF IInv

\* The count of handles is one of the fields no bound is about.
LEMMA CountedStep ==
  ASSUME IInv, NEW h \in Handles, NEW count \in Int, Counted(h, count),
         place' \in [Handles -> {"none", "chosen", "counting", "held"}]
  PROVE  IInv'
<1>1. /\ errState' \in ErrState
      /\ errState'.age = errState.age /\ errState'.errStep = errState.errStep
      /\ errState'.errorCount = errState.errorCount
  BY DEF IInv, TypeOK, ErrState, Counted
<1>2. seen' \in [Handles -> Int] /\ UNCHANGED timerVars
  BY DEF IInv, TypeOK, Counted
<1>3. QED
  BY <1>1, <1>2, Untimed

\* The steps of handles.
LEMMA HandleStep ==
  ASSUME IInv, NEW h \in Handles,
         \/ Choose(h) \/ ReadCount(h) \/ Count(h) \/ Get(h) \/ Drop(h) \/ RequestOk(h)
         \/ \E g \in Handles : CountLost(h, g)
  PROVE  IInv'
<1> USE DEF IInv, TypeOK
<1>0. errState.inChoosingCount \in Int /\ seen[h] \in Int
  BY DEF ErrState
<1>1. CASE Choose(h)
  <2>1. /\ place' \in [Handles -> {"none", "chosen", "counting", "held"}]
        /\ seen' \in [Handles -> Int] /\ errState' = errState /\ UNCHANGED timerVars
    BY <1>1 DEF Choose, Go
  <2>2. QED
    BY <2>1, Untimed
<1>2. CASE ReadCount(h)
  <2>1. /\ place' \in [Handles -> {"none", "chosen", "counting", "held"}]
        /\ seen' \in [Handles -> Int] /\ errState' = errState /\ UNCHANGED timerVars
    BY <1>2, <1>0 DEF ReadCount, Go
  <2>2. QED
    BY <2>1, Untimed
<1>3. CASE Count(h)
  BY <1>3, <1>0, CountedStep DEF Count, Go
<1>4. CASE Get(h)
  BY <1>4, <1>0, CountedStep DEF Get, Go
<1>5. CASE Drop(h)
  BY <1>5, <1>0, CountedStep DEF Drop, Go
<1>6. CASE RequestOk(h)
  <2>1. /\ errState' \in ErrState
        /\ errState'.age = errState.age /\ errState'.errStep = errState.errStep
        /\ errState'.errorCount = errState.errorCount
    BY <1>6 DEF RequestOk, sucRequest, ErrState
  <2>2. QED
    BY <1>6, <2>1, Untimed DEF RequestOk, handleVars
<1>7. CASE \E g \in Handles : CountLost(h, g)
  <2>1. PICK g \in Handles : CountLost(h, g)
    BY <1>7
  <2>2. place' \in [Handles -> {"none", "chosen", "counting", "held"}]
    BY <2>1 DEF CountLost
  <2>3. QED
    BY <2>1, <2>2, <1>0, CountedStep DEF CountLost
<1>8. QED
  BY <1>1, <1>3, <1>4, <1>5, <1>6, <1>7, <1>2

\* An error is new: it is followed by a check within MaxGap.
LEMMA ErrStep ==
  ASSUME IInv, NEW h \in Handles, RequestErr(h)
  PROVE  IInv'
<1>1. /\ errState' \in ErrState
      /\ errState'.errStep = errState.errStep
      /\ \/ errState'.age = 0 /\ errState.errorCount = 0
         \/ errState'.age = errState.age /\ errState.errorCount = 1
  <2>1. errState \in ErrState /\ errState' = occurErr(errState) /\ errState.errorCount \in {0, 1}
    BY DEF IInv, TypeOK, RequestErr, ErrState
  <2>2. CASE errState.errorCount = 0
    <3>1. errState' = [errState EXCEPT !.errorCount = 1, !.age = 0]
      BY <2>1, <2>2 DEF occurErr
    <3>2. 0 \in 0 .. MaxAge
      BY MaxAgeAssumption
    <3>3. QED
      BY <2>1, <2>2, <3>1, <3>2 DEF ErrState
  <2>3. CASE errState.errorCount = 1
    <3>1. errState' = [errState EXCEPT !.errorCount = 1, !.age = errState.age]
      BY <2>1, <2>3 DEF occurErr
    <3>2. QED
      BY <2>1, <2>3, <3>1 DEF ErrState
  <2>4. QED
    BY <2>1, <2>2, <2>3
<1>2. TypeOK' /\ InRefresh' /\ untilCheck' = untilCheck
  BY <1>1 DEF IInv, TypeOK, InRefresh, untilCheck, RequestErr, handleVars, timerVars
<1>3. untilCheck \in 0 .. MaxGap /\ MaxGap \in Nat
  BY UntilCheck DEF IInv
<1>4. errState'.age + untilCheck' <= MaxGap
  BY <1>1, <1>2, <1>3 DEF IInv, ErrorIsNew
<1>5. errState.errStep \in 0 .. 4 /\ errState'.age \in Nat
  BY <1>1 DEF IInv, TypeOK, ErrState, ERR_STEP_COUNT
<1>6. StepIsDue'
  BY <1>1, <1>2, <1>3, <1>4, <1>5 DEF StepIsDue, Latest
<1>7. ErrorOfPass'
  <2>1. UNCHANGED timerVars /\ sincePass \in Nat
    BY HealthAssumption
    DEF RequestErr, IInv, TypeOK, MaxGap, CHECK_APP_PERIOD_SECONDS
  <2>2. QED
    BY <1>1, <2>1 DEF IInv, ErrorOfPass, timerVars, CHECK_APP_PERIOD_SECONDS
<1>8. QED
  BY <1>2, <1>4, <1>6, <1>7 DEF IInv, ErrorIsNew

\* A check lowers the step or finds the error younger than its time-out.
LEMMA CheckStep ==
  ASSUME IInv, Check
  PROVE  IInv'
<1> DEFINE s == errState.errStep
<1>1. /\ errState' \in ErrState /\ errState'.age = errState.age
      /\ errState'.errorCount = 0 /\ errState'.errStep = nextErrStep(errState)
  <2>1. /\ errState \in ErrState /\ errState' = nextCheck(errState)
        /\ errState.errStep \in 0 .. 4 /\ errState.errorCount \in {0, 1}
    BY DEF IInv, TypeOK, Check, ErrState, ERR_STEP_COUNT
  <2>2. nextErrStep(errState) \in 0 .. 4
    BY <2>1 DEF nextErrStep, ERR_STEP_COUNT
  <2>3. QED
    BY <2>1, <2>2 DEF nextCheck, ErrState, ERR_STEP_COUNT
<1>2. /\ s \in 0 .. 4 /\ errState.age \in Nat /\ errState.errorCount \in {0, 1}
      /\ sincePass \in Nat /\ sincePass <= MaxRefresh /\ MaxRefresh \in Nat
  BY HealthAssumption
  DEF IInv, TypeOK, InRefresh, Check, ErrState, ERR_STEP_COUNT, MaxGap,
      CHECK_APP_PERIOD_SECONDS
<1>3. untilCheck = MaxRefresh - sincePass
  BY DEF Check, untilCheck
<1>4. untilCheck' \in 0 .. MaxGap /\ MaxGap \in Nat
  BY <1>2 DEF Check, untilCheck, MaxGap, CHECK_APP_PERIOD_SECONDS
<1>5. TypeOK' /\ InRefresh' /\ ErrorIsNew' /\ ErrorOfPass'
  BY <1>1 DEF IInv, TypeOK, InRefresh, ErrorIsNew, ErrorOfPass, Check, handleVars
<1>6. StepIsDue'
  <2>1. CASE s = 0
    <3>1. errState'.errStep = errState.errorCount
      BY <1>1, <2>1 DEF nextErrStep
    <3>2. errState.errorCount > 0 => errState.age <= MaxGap
      BY <1>2, <1>3, <1>4 DEF IInv, ErrorIsNew
    <3>3. QED
      BY <1>1, <1>2, <1>4, <3>1, <3>2 DEF StepIsDue, Latest
  <2>2. CASE s > 0 /\ (becomeGood(errState) \/ timedOut(errState))
    <3>1. errState'.errStep = s - 1
      BY <1>1, <2>2 DEF nextErrStep
    <3>2. errState.age <= Latest(s)
      BY <1>2, <1>3, <1>4, <2>2 DEF IInv, StepIsDue, Latest
    <3>3. QED
      BY <1>1, <1>2, <1>4, <3>1, <3>2 DEF StepIsDue, Latest
  <2>3. CASE s > 0 /\ ~becomeGood(errState) /\ ~timedOut(errState)
    <3>1. errState.age <= 119
      BY <1>2, <2>3 DEF timedOut, GetTimeoutToErrStepDecrease
    <3>2. errState'.errStep \in 1 .. 4
      BY <1>1, <1>2, <2>3 DEF nextErrStep, ERR_STEP_COUNT
    <3>3. QED
      BY <1>1, <1>2, <1>4, <3>1, <3>2 DEF StepIsDue, Latest
  <2>4. QED
    BY <1>2, <2>1, <2>2, <2>3
<1>7. QED
  BY <1>5, <1>6 DEF IInv

\* As a second passes the age grows and the next check comes nearer.
LEMMA TickStep ==
  ASSUME IInv, Tick
  PROVE  IInv'
<1>1. /\ errState' \in ErrState
      /\ errState'.age <= errState.age + 1
      /\ errState'.errStep = errState.errStep
      /\ errState'.errorCount = errState.errorCount
  BY MaxAgeAssumption DEF IInv, TypeOK, Tick, ErrState
<1>2. /\ sincePass \in Nat /\ sincePass' = sincePass + 1 /\ timer' = timer
      /\ MaxRefresh \in Nat /\ timer \in {"sleep", "refresh"}
      /\ sincePass < IF timer = "sleep" THEN 3 ELSE MaxRefresh
  BY HealthAssumption DEF IInv, TypeOK, Tick, MaxGap, handleVars, CHECK_APP_PERIOD_SECONDS
<1>3. TypeOK' /\ InRefresh'
  BY <1>1, <1>2
  DEF IInv, TypeOK, InRefresh, Tick, handleVars, MaxGap, CHECK_APP_PERIOD_SECONDS
<1>4. untilCheck' = untilCheck - 1 /\ untilCheck \in Int
  BY <1>2 DEF untilCheck, CHECK_APP_PERIOD_SECONDS
<1>5. errState.age \in Nat /\ errState'.age \in Nat
  BY <1>1 DEF IInv, TypeOK, ErrState
<1>6. MaxGap \in Nat /\ Latest(errState.errStep) \in Nat
  BY HealthAssumption DEF MaxGap, Latest, CHECK_APP_PERIOD_SECONDS
<1>7. ErrorIsNew' /\ StepIsDue'
  BY <1>1, <1>4, <1>5, <1>6 DEF IInv, ErrorIsNew, StepIsDue
<1>8. ErrorOfPass'
  <2>1. ErrorOfPass
    BY DEF IInv
  <2>2. CASE timer = "sleep"
    BY <1>1, <1>2, <1>5, <2>1, <2>2 DEF ErrorOfPass, CHECK_APP_PERIOD_SECONDS
  <2>3. CASE timer = "refresh"
    BY <1>1, <1>2, <1>5, <2>1, <2>3 DEF ErrorOfPass, CHECK_APP_PERIOD_SECONDS
  <2>4. QED
    BY <1>2, <2>2, <2>3
<1>9. QED
  BY <1>3, <1>7, <1>8 DEF IInv

\* Whatever handles, requests, checks and the clock do next keeps the invariant.
LEMMA IInvStep == IInv /\ [Next]_vars => IInv'
<1> SUFFICES ASSUME IInv, [Next]_vars PROVE IInv'
  OBVIOUS
<1>1. CASE \E h \in Handles : \/ Choose(h) \/ ReadCount(h) \/ Count(h)
                            \/ Get(h) \/ Drop(h) \/ RequestOk(h)
  BY <1>1, HandleStep
<1>2. CASE \E h, g \in Handles : CountLost(h, g)
  BY <1>2, HandleStep
<1>3. CASE AnyErr
  BY <1>3, ErrStep DEF AnyErr
<1>4. CASE EndpointUpdate
  <2>1. errState' = NoErr /\ NoErr \in ErrState
    BY <1>4, MaxAgeAssumption DEF EndpointUpdate, reset, NoErr, ErrState, ERR_STEP_COUNT
  <2>2. QED
    BY <1>4, <2>1
    DEF IInv, TypeOK, InRefresh, ErrorIsNew, ErrorOfPass, StepIsDue, EndpointUpdate,
        handleVars, timerVars, NoErr
<1>5. CASE BeginPass
  <2>1. /\ untilCheck' = MaxRefresh /\ untilCheck = MaxRefresh /\ errState' = errState
    BY <1>5, HealthAssumption
    DEF BeginPass, untilCheck, IInv, TypeOK, MaxGap, CHECK_APP_PERIOD_SECONDS
  <2>2. TypeOK' /\ InRefresh'
    BY <1>5, HealthAssumption
    DEF BeginPass, IInv, TypeOK, InRefresh, handleVars, MaxGap, CHECK_APP_PERIOD_SECONDS
  <2>3. ErrorOfPass'
    <3>1. sincePass \in Nat /\ errState.age \in Nat
      BY HealthAssumption
      DEF IInv, TypeOK, ErrState, MaxGap, CHECK_APP_PERIOD_SECONDS
    <3>2. QED
      BY <1>5, <2>1, <3>1 DEF BeginPass, IInv, ErrorOfPass, CHECK_APP_PERIOD_SECONDS
  <2>4. QED
    BY <2>1, <2>2, <2>3 DEF IInv, ErrorIsNew, StepIsDue
<1>6. CASE Check
  BY <1>6, CheckStep
<1>7. CASE Tick
  BY <1>7, TickStep
<1>8. CASE UNCHANGED vars
  BY <1>8 DEF IInv, TypeOK, InRefresh, ErrorIsNew, ErrorOfPass, StepIsDue, untilCheck, vars,
              handleVars, timerVars
<1>9. QED
  BY <1>1, <1>2, <1>3, <1>4, <1>5, <1>6, <1>7, <1>8 DEF Next

\* The invariant: the age of the first error and the time until the next check together
\* stay below the time-outs (eureka_agent.cpp:379-402, 675-705).
THEOREM IInvHolds == Spec => []IInv
BY IInvInit, IInvStep, PTL DEF Spec

-----------------------------------------------------------------------------
\* TypeOK holds for any number of handles: the error step stays between none and the
\* last, whatever requests, checks and changes of endpoint do to it.
THEOREM HealthTypeCorrect == Spec => []TypeOK
<1>1. IInv => TypeOK
  BY DEF IInv
<1>2. QED
  BY <1>1, IInvHolds, PTL

\* RecoversInTime holds however long the refreshes take: the checks may be late, and the
\* bound grows with MaxGap (eureka_agent.cpp:379-402, 675-705).
THEOREM InTime == Spec => []RecoversInTime
<1>1. ASSUME IInv PROVE RecoversInTime
  <2>1. untilCheck \in 0 .. MaxGap /\ MaxGap \in Nat
    BY <1>1, UntilCheck DEF IInv
  <2>2. errState.errStep \in 0 .. 4 /\ errState.age \in Nat
    BY <1>1 DEF IInv, TypeOK, ErrState, ERR_STEP_COUNT
  <2>3. QED
    BY <1>1, <2>1, <2>2 DEF IInv, StepIsDue, Latest, RecoversInTime, ERR_STEP_COUNT
<1>2. QED
  BY <1>1, IInvHolds, PTL

\* StillErrorKeepsStep holds however long refreshes take: a check that finds errors
\* raises the step unless it is the last, if this check is not so late that its own pass
\* fills the time-out of the step; how late earlier checks were does not matter
\* (eureka_agent.cpp:379-402, 686-697).
THEOREM ErrorKeepsStep == Spec => StillErrorKeepsStep
<1> DEFINE InTimeForStep ==
      \/ errState.errStep = 0
      \/ CHECK_APP_PERIOD_SECONDS + sincePass < GetTimeoutToErrStepDecrease(errState.errStep)
<1> DEFINE Raised ==
      \/ errState'.errStep = errState.errStep + 1
      \/ errState.errStep = ERR_STEP_COUNT /\ errState'.errStep = ERR_STEP_COUNT
<1>1. ASSUME IInv, Check, errState.errorCount > 0, InTimeForStep
      PROVE  Raised
  <2>1. /\ errState.errStep \in 0 .. 4 /\ errState.age \in Nat /\ errState.errorCount = 1
        /\ errState'.errStep = nextErrStep(errState)
    BY <1>1 DEF IInv, TypeOK, ErrState, ERR_STEP_COUNT, Check, nextCheck
  <2>2. sincePass \in Nat /\ errState.age <= CHECK_APP_PERIOD_SECONDS + sincePass
    BY <1>1, HealthAssumption
    DEF IInv, TypeOK, ErrorOfPass, Check, MaxGap, CHECK_APP_PERIOD_SECONDS
  <2>3. errState.errStep > 0 => ~timedOut(errState)
    BY <1>1, <2>1, <2>2
    DEF timedOut, GetTimeoutToErrStepDecrease, CHECK_APP_PERIOD_SECONDS
  <2>4. ~becomeGood(errState)
    BY <2>1 DEF becomeGood
  <2>5. QED
    BY <2>1, <2>3, <2>4 DEF nextErrStep, ERR_STEP_COUNT
<1>2. IInv /\ [Next]_vars
        => [Check /\ errState.errorCount > 0 /\ InTimeForStep => Raised]_vars
  BY <1>1
<1>3. QED
  BY <1>2, IInvHolds, PTL DEF Spec, StillErrorKeepsStep
=============================================================================
