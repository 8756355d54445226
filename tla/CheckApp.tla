------------------------------- MODULE CheckApp -------------------------------
(***************************************************************************)
(* How the agent (eureka_agent.cpp) follows the instances of one           *)
(* application: refreshCheckApp queries the server and applies the answer, *)
(* on behalf of a caller of getHttpClient or of the timer thread, and      *)
(* callers are given handles on the instances it has found.                *)
(*                                                                         *)
(* What is done under m_lockApp or under the lock of the application is    *)
(* one step, except that applying an answer takes three: getHttpClient     *)
(* chooses an instance without the lock and so may look in between.        *)
(* Whether an instance lets itself be chosen and what becomes of a handle  *)
(* (both in InstanceHealth), and whether three seconds have passed, are    *)
(* left open.                                                              *)
(***************************************************************************)
EXTENDS Integers, Sequences, FiniteSets, SequencesExt

CONSTANTS
  InsIds,      \* instance ids
  Steady,      \* those of them that are registered all the time
  Endpoints,   \* endpoints instances may have
  None,        \* no endpoint: the instance is not registered; nobody, nothing
  Callers,     \* threads that call getHttpClient
  Timer,       \* the timer thread
  MaxChanges,  \* bound: how often the registry of the server changes
  MaxGen       \* bound: how many CheckInsData one instance id may get

Threads == Callers \cup {Timer}
Registry == [InsIds -> Endpoints \cup {None}]

ASSUME CheckAppAssumption ==
  /\ IsFiniteSet(InsIds) /\ Steady \subseteq InsIds
  /\ Timer \notin Callers
  /\ MaxChanges \in Nat /\ MaxGen \in Nat

\* None is none of the values it stands for the lack of.
ASSUME NoneAssumption ==
  None \notin Endpoints \cup InsIds \cup Threads \cup Registry
             \cup [ep : Endpoints, number : 1 .. MaxGen]

SteadyIn(r) == \A i \in Steady : r[i] # None

\* A CheckInsData is known by its instance id and its number among those of the id.
Objects == InsIds \X (1 .. MaxGen)

VARIABLES
  registry, changes,  \* what the server knows; how often it has changed
  known,              \* m_apps has an entry for the application
  doing,              \* InnerCheckAppData::doing
  lock,               \* holder of InnerCheckAppData::lock while applying, or None
  inses,              \* app.inses: for each id the number of its object, 0 if none
  insIds, next,       \* app.insIds, app.nextChooseInsIdIndex
  made,               \* how many objects each id has had
  ep, pool,           \* per object: endpoint, client pool
  pc, want, again,    \* per thread: place, instance asked for, may it still refresh
  snap, erase         \* per thread: answer of the query, eraseInses

serverVars == <<registry, changes>>
appVars == <<inses, insIds, next, made, ep>>
callVars == <<want, again>>
vars == <<serverVars, known, doing, lock, appVars, pool, pc, callVars, snap, erase>>

\* "assert" is where the assertion of defaultChooseHttpClient has failed.
PC == {"idle", "find", "seen", "mark", "query", "apply", "rebuild", "erase", "stop",
       "choose", "get", "assert"}

TypeOK ==
  /\ registry \in Registry /\ changes \in 0 .. MaxChanges
  /\ known \in BOOLEAN /\ doing \in BOOLEAN
  /\ lock \in Threads \cup {None}
  /\ inses \in [InsIds -> 0 .. MaxGen]
  /\ insIds \in Seq(InsIds) /\ next \in Nat
  /\ made \in [InsIds -> 0 .. MaxGen]
  /\ ep \in [Objects -> Endpoints \cup {None}]
  /\ pool \in [Objects -> {"none", "running", "stopped"}]
  /\ pc \in [Threads -> PC]
  /\ want \in [Callers -> InsIds \cup {None}] /\ again \in [Callers -> BOOLEAN]
  /\ snap \in [Threads -> Registry]
  /\ erase \in [Threads -> SUBSET Objects]

NoInstance == [i \in InsIds |-> None]

Init ==
  /\ registry \in Registry /\ SteadyIn(registry) /\ changes = 0
  /\ known = FALSE /\ doing = FALSE /\ lock = None
  /\ inses = [i \in InsIds |-> 0] /\ insIds = <<>> /\ next = 0
  /\ made = [i \in InsIds |-> 0]
  /\ ep = [o \in Objects |-> None]
  /\ pool = [o \in Objects |-> "none"]
  /\ pc = [t \in Threads |-> "idle"]
  /\ want = [c \in Callers |-> None] /\ again = [c \in Callers |-> FALSE]
  /\ snap = [t \in Threads |-> NoInstance] /\ erase = [t \in Threads |-> {}]

-----------------------------------------------------------------------------
Go(t, from, to) == pc[t] = from /\ pc' = [pc EXCEPT ![t] = to]

Listed(i) == inses[i] # 0
Object(i) == <<i, inses[i]>>

\* The server: an instance registers, moves or goes.
RegistryChange ==
  /\ changes < MaxChanges
  /\ changes' = changes + 1
  /\ \E i \in InsIds, e \in Endpoints \cup {None} :
       registry[i] # e /\ registry' = [registry EXCEPT ![i] = e]
  /\ SteadyIn(registry')
  /\ UNCHANGED <<known, doing, lock, appVars, pool, pc, callVars, snap, erase>>

-----------------------------------------------------------------------------
\* getHttpClient(appId), where want is None, and getHttpClient(appId, insId).

Call(c) ==
  /\ Go(c, "idle", "find")
  /\ \E i \in InsIds \cup {None} : want' = [want EXCEPT ![c] = i]
  /\ UNCHANGED <<serverVars, known, doing, lock, appVars, pool, again, snap,
                 erase>>

\* The locals of a call end with it.
ForgetsIfEnded(t) ==
  /\ want' = [c \in Callers |-> IF c = t /\ pc'[c] = "idle" THEN None ELSE want[c]]
  /\ again' = [c \in Callers |-> IF c = t /\ pc'[c] = "idle" THEN FALSE ELSE again[c]]

\* Where a call goes on once it has the entry of the application.
Use(c) == IF want[c] = None THEN "choose" ELSE "get"

FindApp(c) ==
  /\ Go(c, "find", IF known THEN Use(c) ELSE "mark")
  /\ again' = [again EXCEPT ![c] = known]
  /\ UNCHANGED <<serverVars, known, doing, lock, appVars, pool, want, snap,
                 erase>>

Get(c) ==
  /\ lock = None
  /\ Go(c, "get", "idle")
  /\ Listed(want[c])
  /\ ForgetsIfEnded(c)
  /\ UNCHANGED <<serverVars, known, doing, lock, appVars, pool, snap, erase>>

\* Not listed: refresh, at most once a call, if lastRefreshTime is long enough ago,
\* or throw.
GetMissing(c) ==
  /\ lock = None
  /\ \/ again[c] /\ Go(c, "get", "mark")
     \/ Go(c, "get", "idle")
  /\ ~Listed(want[c])
  /\ again' = [again EXCEPT ![c] = FALSE]
  /\ want' = [want EXCEPT ![c] = IF pc'[c] = "idle" THEN None ELSE @]
  /\ UNCHANGED <<serverVars, known, doing, lock, appVars, pool, snap, erase>>

\* defaultChooseHttpClient, without the lock.  Instances that do not let themselves
\* be chosen are passed over, so any of insIds may be the one the loop stops at, but
\* only if all those before it are listed.
Turn(k) == insIds[((next + k) % Len(insIds)) + 1]

ChooseIns(c) ==
  /\ insIds # <<>>
  /\ \E k \in 0 .. Len(insIds) - 1 :
       /\ \A m \in 0 .. k - 1 : Listed(Turn(m))
       /\ Go(c, "choose", IF Listed(Turn(k)) THEN "idle" ELSE "assert")
  /\ ForgetsIfEnded(c)
  /\ UNCHANGED <<serverVars, known, doing, lock, appVars, pool, snap, erase>>

\* Without NDEBUG the program ends at the assertion, otherwise the call throws.
AssertThrows(c) ==
  /\ Go(c, "assert", "idle")
  /\ ForgetsIfEnded(c)
  /\ UNCHANGED <<serverVars, known, doing, lock, appVars, pool, snap, erase>>

\* "empty instances" or "none instance match"
ChooseThrows(c) ==
  /\ \A k \in DOMAIN insIds : Listed(insIds[k])
  /\ Go(c, "choose", "idle")
  /\ ForgetsIfEnded(c)
  /\ UNCHANGED <<serverVars, known, doing, lock, appVars, pool, snap, erase>>

\* setChooseHttpClient enters an unknown application, without instances.
SetChoose(c) ==
  /\ pc[c] = "idle"
  /\ ~known
  /\ known' = TRUE
  /\ UNCHANGED <<serverVars, doing, lock, appVars, pool, pc, callVars, snap, erase>>

-----------------------------------------------------------------------------
\* doTimerCheckApp leaves out an application whose refresh is under way.
TimerSees ==
  /\ known /\ ~doing
  /\ Go(Timer, "idle", "mark")
  /\ UNCHANGED <<serverVars, known, doing, lock, appVars, pool, callVars, snap,
                 erase>>

-----------------------------------------------------------------------------
\* refreshCheckApp, by thread t.

Mark(t) ==
  /\ Go(t, "mark", "query")
  /\ known' = TRUE
  /\ doing' = TRUE
  /\ UNCHANGED <<serverVars, lock, appVars, pool, callVars, snap, erase>>

\* The server answers with what it knows now; an application it does not know
\* (NotFoundError) has no instances.
QueryOk(t) ==
  /\ Go(t, "query", "apply")
  /\ snap' = [snap EXCEPT ![t] = registry]
  /\ UNCHANGED <<serverVars, known, doing, lock, appVars, pool, callVars, erase>>

\* Mutated form: a failed query counts as an answer without instances.
QueryFailsEmpty(t) ==
  /\ Go(t, "query", "apply")
  /\ snap' = [snap EXCEPT ![t] = NoInstance]
  /\ UNCHANGED <<serverVars, known, doing, lock, appVars, pool, callVars, erase>>

\* Mutated form: doing stays up when the query fails.
QueryFailsDoing(t) ==
  /\ Go(t, "query", "idle")
  /\ ForgetsIfEnded(t)
  /\ UNCHANGED <<serverVars, known, doing, lock, appVars, pool, snap, erase>>

\* Any other error leaves refreshCheckApp, and the call, with an exception.
QueryFails(t) ==
  /\ Go(t, "query", "idle")
  /\ doing' = FALSE
  /\ ForgetsIfEnded(t)
  /\ UNCHANGED <<serverVars, known, lock, appVars, pool, snap, erase>>

\* The loop over insesInQuery: new instances get an object with a running pool, the
\* endpoints of the others are updated (clearing their errState, see InstanceHealth);
\* what the answer does not name is left in eraseInses.
Added(t) == {i \in InsIds : snap[t][i] # None /\ ~Listed(i)}
Gone(t) == {i \in InsIds : snap[t][i] = None /\ Listed(i)}

Merge(t) ==
  /\ lock = None
  /\ \A i \in Added(t) : made[i] < MaxGen
  /\ lock' = t
  /\ Go(t, "apply", IF Added(t) \cup Gone(t) # {} THEN "rebuild" ELSE "erase")
  /\ erase' = [erase EXCEPT ![t] = {Object(i) : i \in Gone(t)}]
  /\ made' = [i \in InsIds |-> IF i \in Added(t) THEN made[i] + 1 ELSE made[i]]
  /\ inses' = [i \in InsIds |-> IF i \in Added(t) THEN made'[i] ELSE inses[i]]
  /\ LET moved(o) == o[2] = inses'[o[1]] /\ snap[t][o[1]] # None
     IN  ep' = [o \in Objects |-> IF moved(o) THEN snap[t][o[1]] ELSE ep[o]]
  /\ pool' = [o \in Objects |-> IF o[1] \in Added(t) /\ o[2] = made'[o[1]]
                                  THEN "running" ELSE pool[o]]
  /\ snap' = [snap EXCEPT ![t] = NoInstance]
  /\ UNCHANGED <<serverVars, known, doing, insIds, next, callVars>>

\* Mutated forms: next ends up one short; insIds is not cleared first.
RebuildShort(t) ==
  /\ Go(t, "rebuild", "erase")
  /\ insIds' \in SetToSeqs({i \in InsIds : Listed(i)})
  /\ IF insIds # <<>> /\ Turn(0) \in ToSet(insIds')
       THEN \E k \in DOMAIN insIds' : insIds'[k] = Turn(0) /\ next' = k - 2
       ELSE UNCHANGED next
  /\ UNCHANGED <<serverVars, known, doing, lock, inses, made, ep, pool, callVars,
                 snap, erase>>

RebuildAppends(t) ==
  /\ Go(t, "rebuild", "erase")
  /\ insIds' \in {insIds \o s : s \in SetToSeqs({i \in InsIds : Listed(i)})}
  /\ UNCHANGED <<serverVars, known, doing, lock, inses, next, made, ep, pool,
                 callVars, snap, erase>>

\* Mutated form: the lock is released before the instances that are gone are erased.
RebuildUnlocks(t) ==
  /\ Go(t, "rebuild", "erase")
  /\ lock' = None
  /\ insIds' \in SetToSeqs({i \in InsIds : Listed(i)})
  /\ IF insIds # <<>> /\ Turn(0) \in ToSet(insIds')
       THEN \E k \in DOMAIN insIds' : insIds'[k] = Turn(0) /\ next' = k - 1
       ELSE UNCHANGED next
  /\ UNCHANGED <<serverVars, known, doing, inses, made, ep, pool, callVars, snap, erase>>

\* An instance has come or is going: insIds is shuffled anew, and next follows the
\* id it stood at, if that is still there.
Rebuild(t) ==
  /\ Go(t, "rebuild", "erase")
  /\ insIds' \in SetToSeqs({i \in InsIds : Listed(i)})
  /\ IF insIds # <<>> /\ Turn(0) \in ToSet(insIds')
       THEN \E k \in DOMAIN insIds' : insIds'[k] = Turn(0) /\ next' = k - 1
       ELSE UNCHANGED next
  /\ UNCHANGED <<serverVars, known, doing, lock, inses, made, ep, pool, callVars,
                 snap, erase>>

\* The instances that are gone leave inses, the lock is released.
Erase(t) ==
  /\ Go(t, "erase", "stop")
  /\ lock' = None
  /\ inses' = [i \in InsIds |-> IF Object(i) \in erase[t] THEN 0 ELSE inses[i]]
  /\ UNCHANGED <<serverVars, known, doing, insIds, next, made, ep, pool,
                 callVars, snap, erase>>

\* Mutated form: the pool to stop is looked up by the instance id.
StopPoolById(t) ==
  /\ pc[t] = "stop"
  /\ \E o \in erase[t] :
       /\ pool' = [pool EXCEPT ![IF Listed(o[1]) THEN Object(o[1]) ELSE o] = "stopped"]
       /\ erase' = [erase EXCEPT ![t] = @ \ {o}]
  /\ UNCHANGED <<serverVars, known, doing, lock, appVars, pc, callVars, snap>>

\* The pools of the erased instances are stopped one after the other.
StopPool(t) ==
  /\ pc[t] = "stop"
  /\ \E o \in erase[t] :
       /\ pool' = [pool EXCEPT ![o] = "stopped"]
       /\ erase' = [erase EXCEPT ![t] = @ \ {o}]
  /\ UNCHANGED <<serverVars, known, doing, lock, appVars, pc, callVars, snap>>

\* doing is cleared; a caller goes on with the entry it was given.
Return(t) ==
  /\ erase[t] = {}
  /\ Go(t, "stop", IF t = Timer THEN "idle" ELSE Use(t))
  /\ doing' = FALSE
  /\ UNCHANGED <<serverVars, known, lock, appVars, pool, callVars, snap, erase>>

-----------------------------------------------------------------------------
Caller(c) ==
  \/ FindApp(c) \/ Get(c) \/ GetMissing(c) \/ ChooseIns(c) \/ ChooseThrows(c)
  \/ AssertThrows(c)

Refresh(t) ==
  \/ Mark(t) \/ QueryOk(t) \/ Merge(t) \/ Rebuild(t) \/ Erase(t) \/ StopPool(t)
  \/ Return(t)

Next ==
  \/ RegistryChange
  \/ TimerSees
  \/ \E c \in Callers : Call(c) \/ Caller(c) \/ SetChoose(c)
  \/ \E t \in Threads : Refresh(t) \/ QueryFails(t)

Spec == Init /\ [][Next]_vars

\* Threads are scheduled and the timer comes round.  The server may fail to answer,
\* but not every time.
FairSpec ==
  /\ Spec
  /\ WF_vars(TimerSees)
  /\ \A c \in Callers : WF_vars(Caller(c))
  /\ \A t \in Threads : WF_vars(Refresh(t)) /\ SF_vars(QueryOk(t))

-----------------------------------------------------------------------------
\* A listed instance has a running pool that no refresh is going to stop: pools are
\* stopped after the lock is released, when another refresh may have brought the
\* same instance back (eureka_agent.cpp:603-616).
ListedIsRunning ==
  \A i \in InsIds : Listed(i) =>
    /\ pool[Object(i)] = "running"
    /\ \A t \in Threads : Object(i) \in erase[t] => lock = t

\* Whenever no answer is being applied, every listed instance has its turn in
\* insIds, once (eureka_agent.cpp:581-601).
ListedHasTurn ==
  lock = None => /\ \A i \in InsIds : Listed(i) => i \in ToSet(insIds)
                 /\ IsInjective(insIds)

\* An instance that stays registered keeps its CheckInsData, whatever queries fail,
\* overtake each other or are answered late (eureka_agent.cpp:524-609).
SteadyStays == [][\A i \in Steady : Listed(i) => inses'[i] = inses[i]]_vars

\* An application that is known ends up as the server has it, once its instances no
\* longer change: stale answers are corrected, and nobody's doing flag keeps the
\* timer away for ever (eureka_agent.cpp:428-455, 504-619).
Matches ==
  \A i \in InsIds : IF Listed(i) THEN registry[i] = ep[Object(i)] ELSE registry[i] = None

FollowsServer == (<>known) => <>[]Matches

\* The pools of erased instances are stopped in the end, also when their ids have been
\* given new ones since: when the server has come to rest only pools of listed instances
\* run (eureka_agent.cpp:611-616).
ErasedIsStopped ==
  <>[](\A o \in Objects : pool[o] = "running" => inses[o[1]] = o[2])

\* Whatever overlaps, a refresh is what InstanceList says (eureka_agent.cpp:524-609): a
\* whole answer of the server, applied at once as far as anybody under the lock can see.
\* The change takes effect at Merge; what is being erased is no longer on the list.
List == INSTANCE InstanceList WITH
  Numbers <- 1 .. MaxGen,
  answer <- [t \in Threads |-> IF pc[t] = "apply" THEN snap[t] ELSE None],
  list <- [i \in InsIds |->
             IF ~Listed(i) \/ \E t \in Threads : lock = t /\ Object(i) \in erase[t]
               THEN None ELSE [ep |-> ep[Object(i)], number |-> inses[i]]],
  used <- [i \in InsIds |-> 1 .. made[i]]

ImplementsList == List!ListSpec

\* assert(0) in defaultChooseHttpClient (eureka_agent.cpp:306): the loop never comes
\* to an id that is not in inses.
NoLogicError == \A c \in Callers : pc[c] # "assert"
=============================================================================
