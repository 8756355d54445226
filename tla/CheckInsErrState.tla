-------------------------- MODULE CheckInsErrState --------------------------
(***************************************************************************)
(* EurekaAgent::CheckInsErrState (eureka_agent.h, eureka_agent.cpp): what  *)
(* the agent remembers about the errors of one instance, and when that     *)
(* lets the instance be chosen.                                            *)
(*                                                                         *)
(* Of the clock only age = now - errTime is kept, in whole seconds up to   *)
(* MaxAge.  goodCount, errorCount and errorCountPrev are compared with 0   *)
(* and nothing else, so 1 stands for every positive count.                 *)
(***************************************************************************)
EXTENDS Integers

CONSTANT MaxAge  \* bound: ages from here on are not told apart

ASSUME MaxAgeAssumption == MaxAge \in Nat /\ MaxAge > 120

ERR_STEP_COUNT == 4

ErrState == [errStep : 0 .. ERR_STEP_COUNT, age : 0 .. MaxAge, inChoosingCount : Int,
             goodCount : {0, 1}, errorCount : {0, 1}, errorCountPrev : {0, 1}]

\* CheckInsErrState{}: errTime is the epoch of the clock, long ago.
NoErr == [errStep |-> 0, age |-> MaxAge, inChoosingCount |-> 0,
          goodCount |-> 0, errorCount |-> 0, errorCountPrev |-> 0]

GetColdDown(errStep) ==
  CASE errStep = 0 -> 0 [] errStep = 1 -> 1 [] errStep = 2 -> 5
    [] errStep = 3 -> 10 [] OTHER -> 30

GetTimeoutToErrStepDecrease(errStep) ==
  CASE errStep = 0 -> 0 [] errStep = 1 -> 10 [] errStep = 2 -> 30
    [] errStep = 3 -> 60 [] OTHER -> 120

isInColdDown(e) == e.errStep > 0 /\ e.age <= GetColdDown(e.errStep)

tryChoose(e) ==
  \/ e.errStep = 0 /\ e.errorCount = 0
  \/ /\ ~isInColdDown(e)
     /\ e.inChoosingCount = 0 \/ e.errorCountPrev = 0

\* Mutated form: the time of the error is not recorded.
occurErrUntimed(e) == [e EXCEPT !.errorCount = 1]

occurErr(e) ==
  [e EXCEPT !.errorCount = 1, !.age = IF e.errorCount = 0 THEN 0 ELSE @]

sucRequest(e) == [e EXCEPT !.goodCount = 1]

becomeGood(e) == e.errorCount = 0 /\ e.goodCount > 0
timedOut(e) == e.age >= GetTimeoutToErrStepDecrease(e.errStep)

\* Mutated form: only a good period lowers the step.
nextErrStepNoTimeout(e) ==
  CASE e.errStep = 0 -> e.errorCount
    [] e.errStep > 0 /\ becomeGood(e) -> e.errStep - 1
    [] OTHER -> IF e.errorCount > 0 /\ e.errStep < ERR_STEP_COUNT
                  THEN e.errStep + 1 ELSE e.errStep

\* Mutated form: the last step is not the last.
nextErrStepUnlimited(e) ==
  CASE e.errStep = 0 -> e.errorCount
    [] e.errStep > 0 /\ (becomeGood(e) \/ timedOut(e)) -> e.errStep - 1
    [] OTHER -> IF e.errorCount > 0 THEN e.errStep + 1 ELSE e.errStep

nextErrStep(e) ==
  CASE e.errStep = 0 -> e.errorCount
    [] e.errStep > 0 /\ (becomeGood(e) \/ timedOut(e)) -> e.errStep - 1
    [] OTHER -> IF e.errorCount > 0 /\ e.errStep < ERR_STEP_COUNT
                  THEN e.errStep + 1 ELSE e.errStep

\* Mutated form: the count of the period that ends is carried into the next.
nextCheckKeepsErrors(e) ==
  [e EXCEPT !.errorCountPrev = e.errorCount, !.errStep = nextErrStep(e),
            !.goodCount = 0]

nextCheck(e) ==
  [e EXCEPT !.errorCountPrev = e.errorCount, !.errStep = nextErrStep(e),
            !.errorCount = 0, !.goodCount = 0]

reset(e) == NoErr
=============================================================================
