--------------------------- MODULE InstanceHealth ---------------------------
(***************************************************************************)
(* One instance of an application as the agent judges it: handles          *)
(* (InsHttpClient) are taken on it, report how their requests ended and    *)
(* are dropped, the refresh may find that its endpoint has changed, and    *)
(* the timer thread checks it.  Time goes in whole seconds.  Each pass of  *)
(* doTimerCheckApp begins CHECK_APP_PERIOD_SECONDS after the one before,   *)
(* or as soon as that one is over, and checks the instance once its        *)
(* refresh queries, which block the timer thread, have been answered.      *)
(*                                                                         *)
(* inChoosingCount is changed under the lock of the application by         *)
(* getHttpClient(appId, insId) and by the destructor of a handle, but      *)
(* without it by getHttpClient(appId), whose increment is therefore a read *)
(* and a later write.  What is done under the lock is one step.            *)
(***************************************************************************)
EXTENDS CheckInsErrState, FiniteSets

CONSTANTS
  Handles,     \* InsHttpClient objects
  MaxRefresh,  \* bound: seconds the refresh queries of one pass may take
  MaxDrift     \* bound: inChoosingCount is not taken below -MaxDrift (nor above the
               \* number of handles)

CHECK_APP_PERIOD_SECONDS == 3

\* Checks are at most this far apart.
MaxGap == CHECK_APP_PERIOD_SECONDS + MaxRefresh

ASSUME HealthAssumption ==
  /\ MaxRefresh \in Nat /\ MaxDrift \in Nat
  /\ MaxAge > 120 + 4 * MaxGap

VARIABLES
  errState,  \* CheckInsData::errState
  place,     \* per handle: it does not exist, is made for the chosen instance without
             \* the lock, counts itself, exists
  seen,      \* per handle that counts itself: inChoosingCount as it has read it
  timer,     \* doTimer is between two passes or in the refresh of one
  sincePass  \* seconds since tpPrevCheckApp

handleVars == <<place, seen>>
timerVars == <<timer, sincePass>>
vars == <<errState, handleVars, timerVars>>

TypeOK ==
  /\ errState \in ErrState
  /\ place \in [Handles -> {"none", "chosen", "counting", "held"}]
  /\ seen \in [Handles -> Int]
  /\ timer \in {"sleep", "refresh"}
  /\ sincePass \in 0 .. MaxGap

Init ==
  /\ errState = NoErr
  /\ place = [h \in Handles |-> "none"] /\ seen = [h \in Handles |-> 0]
  /\ timer = "sleep" /\ sincePass = 0

-----------------------------------------------------------------------------
Go(h, from, to) == place[h] = from /\ place' = [place EXCEPT ![h] = to]

\* getHttpClient(appId): defaultChooseHttpClient comes to this instance and takes it.
Choose(h) ==
  /\ tryChoose(errState)
  /\ Go(h, "none", "chosen")
  /\ UNCHANGED <<errState, seen, timerVars>>

\* The handle made for it counts itself (onInsHttpClientConstruct): it reads the count ...
ReadCount(h) ==
  /\ errState.inChoosingCount < Cardinality(Handles)
  /\ Go(h, "chosen", "counting")
  /\ seen' = [seen EXCEPT ![h] = errState.inChoosingCount]
  /\ UNCHANGED <<errState, timerVars>>

Counted(h, count) ==
  /\ errState' = [errState EXCEPT !.inChoosingCount = count]
  /\ seen' = [seen EXCEPT ![h] = 0]
  /\ UNCHANGED timerVars

\* ... and writes it.
Count(h) ==
  /\ Go(h, "counting", "held")
  /\ Counted(h, seen[h] + 1)

\* getHttpClient(appId, insId): whatever the state of the instance, under the lock.
Get(h) ==
  /\ errState.inChoosingCount < Cardinality(Handles)
  /\ Go(h, "none", "held")
  /\ Counted(h, errState.inChoosingCount + 1)

\* onInsHttpClientDestroy, under the lock
Drop(h) ==
  /\ errState.inChoosingCount > -MaxDrift
  /\ Go(h, "held", "none")
  /\ Counted(h, errState.inChoosingCount - 1)

\* The write of handle h comes between the read and the write of an increment or
\* decrement that handle g makes under the lock, and is lost.
CountLost(h, g) ==
  /\ place[h] = "counting"
  /\ \/ /\ place[g] = "none" /\ errState.inChoosingCount < Cardinality(Handles)
        /\ place' = [place EXCEPT ![h] = "held", ![g] = "held"]
        /\ Counted(h, errState.inChoosingCount + 1)
     \/ /\ place[g] = "held" /\ errState.inChoosingCount > -MaxDrift
        /\ place' = [place EXCEPT ![h] = "held", ![g] = "none"]
        /\ Counted(h, errState.inChoosingCount - 1)

\* onInsHttpClientRequestDone
RequestOk(h) ==
  /\ place[h] = "held"
  /\ errState' = sucRequest(errState)
  /\ UNCHANGED <<handleVars, timerVars>>

RequestErr(h) ==
  /\ place[h] = "held"
  /\ errState' = occurErr(errState)
  /\ UNCHANGED <<handleVars, timerVars>>

\* doTimer sees that the period has elapsed.
BeginPass ==
  /\ timer = "sleep"
  /\ sincePass >= CHECK_APP_PERIOD_SECONDS
  /\ timer' = "refresh"
  /\ sincePass' = 0
  /\ UNCHANGED <<errState, handleVars>>

\* The refreshes of doTimerCheckApp are done and its second half gets to the
\* instance.
Check ==
  /\ timer = "refresh"
  /\ timer' = "sleep"
  /\ errState' = nextCheck(errState)
  /\ UNCHANGED <<handleVars, sincePass>>

\* refreshCheckApp finds another endpoint.
EndpointUpdate ==
  /\ errState' = reset(errState)
  /\ UNCHANGED <<handleVars, timerVars>>

\* A second passes; a pass that is due begins before that.
Tick ==
  /\ sincePass < IF timer = "sleep" THEN CHECK_APP_PERIOD_SECONDS ELSE MaxRefresh
  /\ sincePass' = sincePass + 1
  /\ errState' = [errState EXCEPT !.age = IF @ < MaxAge THEN @ + 1 ELSE @]
  /\ UNCHANGED <<handleVars, timer>>

AnyErr == \E h \in Handles : RequestErr(h)

Next ==
  \/ \E h \in Handles : \/ Choose(h) \/ ReadCount(h) \/ Count(h)
                       \/ Get(h) \/ Drop(h) \/ RequestOk(h)
  \/ \E h, g \in Handles : CountLost(h, g)
  \/ AnyErr
  \/ EndpointUpdate
  \/ BeginPass
  \/ Check
  \/ Tick

Spec == Init /\ [][Next]_vars

\* Time passes, the queries are answered and the timer thread goes on.
FairSpec == Spec /\ WF_vars(Tick) /\ WF_vars(BeginPass) /\ WF_vars(Check)

-----------------------------------------------------------------------------
\* An instance without new errors is out of the error state in bounded time: 120
\* seconds and one late check for each step (eureka_agent.cpp:379-402, 675-705).
\* The time-outs of the four steps all run from the one errTime.
RecoversInTime ==
  errState.errStep > 0
    => errState.age <= 120 + (ERR_STEP_COUNT + 1 - errState.errStep) * MaxGap

\* "if still error, the cold down period increase" (eureka_agent.h:189), which the code
\* keeps only while its checks are not late: a check that finds errors raises the step,
\* unless it is the last, provided that the period and the refresh queries of this pass
\* together are shorter than the time-out of the step.  The first error is then younger
\* than the time-out (eureka_agent.cpp:379-402, 686-697).  Later than that the check may
\* take the time-out for quiet and lower the step of an instance that still fails.
StillErrorKeepsStep ==
  [][Check /\ errState.errorCount > 0
           /\ \/ errState.errStep = 0
              \/ CHECK_APP_PERIOD_SECONDS + sincePass
                   < GetTimeoutToErrStepDecrease(errState.errStep)
       => \/ errState'.errStep = errState.errStep + 1
          \/ errState.errStep = ERR_STEP_COUNT /\ errState'.errStep = ERR_STEP_COUNT]_vars

\* If errors stop for good, the instance leaves the error state for good and can
\* be chosen from then on, whoever still holds handles on it and whatever has become of
\* inChoosingCount, of which unlocked increments lose updates (eureka_agent.cpp:243,
\* 357-366, 659-705).
ChosenAgain ==
  (<>[][~AnyErr]_vars) => <>[](errState.errStep = 0 /\ tryChoose(errState))

\* "when CD gone, can be choose sequent if first" (eureka_agent.h:185): once the
\* cold down is over, an instance on which nobody holds a handle can be chosen.
FirstMayChoose ==
  (\A h \in Handles : place[h] = "none") /\ ~isInColdDown(errState) => tryChoose(errState)
=============================================================================
