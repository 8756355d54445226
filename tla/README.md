# Formal models of ppeureka

ppeureka is a C++ client of a Eureka registry: it registers instances and keeps
them alive with heartbeats, follows the instances of applications, and makes HTTP
requests to them through pools of libcurl clients. The code is small and has no
tests; nearly everything that can go wrong in it is a matter of threads. This
directory holds TLA+ models of its parts, TLC configurations that check them and
TLAPS proofs of what matters most.

Paths below are relative to the root of the repository.

## The system

| Component | State | Operations | Module |
|---|---|---|---|
| `job_thread`, `sync_list` (`include/ppeureka/sync_list.h`) | stop flag, two enable flags, queue, threads | emplace, start, add_thread, stop, the workers' loop | `JobThread`, promised: `JobPool` |
| error state of an instance (`CheckInsErrState` in `src/eureka_agent.cpp`) | error step, time of the first error, four counts | occurErr, sucRequest, tryChoose, nextCheck, reset | `CheckInsErrState`, `InstanceHealth` |
| instances of an application (`refreshCheckApp`, `getHttpClient`) | `inses`, `insIds`, next index, `doing`, a client pool per instance | choose, get, refresh, erase | `CheckApp`, promised: `InstanceList` |
| registration and heartbeats (`registerIns`, `unregisterIns`, `doTimerRegHeart`, `doRegHeart`, start, stop) | `m_regs`, `doing` per entry, stop flag | as named | `RegHeart` |
| `EurekaConnect` (`src/eureka_connect.cpp`) | endpoint index, pool | request with retries, switchEndpoint | `EurekaConnect` |
| `HttpClientPool` (`src/curl/http_client_pool.cpp`) | free clients, used clients, endpoint, stop flag, request count | request, setEndpoint, checkReleaseClient, stop | `HttpClientPool` |
| `PoolGlobalTimerThread` (same file) | registered pools with check flags, count, stop flag, thread | incStart, decStop, the timer loop | `PoolGlobalTimer` |
| `HttpClient` (`src/curl/http_client.cpp`) | endpoint, stop flag, curl handle with its options | request, setEndpoint, stop | `HttpClient`; its endpoint in `HttpClientPool` |
| JSON and data types (`src/s11n.h`, `src/s11n_types.h`, `include/ppeureka/types.h`) | none | to and from JSON | `InstanceJson` |
| URLs, base64 | none | conversions | not modelled |

How they interact:

* The agent owns two `job_thread`s: one runs `doTimer` for ever, the other runs
  heart jobs. The timer thread starts heart jobs every three seconds, refreshes the
  applications the program has asked for and lowers or raises the error steps.
* The agent talks to the server through one `EurekaConnect`, which has one
  `HttpClientPool`; every instance it has found has a pool of its own.
* All pools share one timer thread that trims them.
* The program's threads call the agent at any time. Handles (`InsHttpClient`) report
  to the agent how requests ended, under the lock of their application.

What is hard: everything above runs concurrently; some state is read without the
lock it is written under; flags are tested in one place and set in another; the
server fails, answers late and is asked by several threads at once; stop and
restart overlap with calls under way. `PROJECT.json` lists the hazards by line.

What makes each component correct:

* `job_thread`: a job runs once or is discarded, a stopped pool is quiet, stop
  returns, an accepted job runs.
* error state: ends in bounded time without new errors, grows with new ones, and
  keeps an instance in cold down from being chosen.
* instances: the list and the sequence agree, a listed instance has a running pool,
  the list follows the server, erased pools are stopped.
* heartbeats: hearts go on while registered and end after; the agent and the server
  agree on what is registered.
* requests: bounded tries, all endpoints are tried, a failed endpoint is left.
* client and JSON: a transfer is what its request asked for, whatever requests used the
  handle before; an instance comes back from the server as it was registered; stop
  ends requests.
* pools: one request per client, at most `m_maxConnCount` clients, nothing is used
  after stop; the shared timer thread never visits a destroyed pool.

## Modules

Each atomic access to a flag and each critical section is one action; what a thread
does between two of them touches only its own state. A program counter per thread
(`pc`, `wpc`, `tpc`) names the next step. Operators named `...Not`, `...Kept`,
`...ById` and the like, each preceded by "Mutated form", are versions of an action
with a plausible bug. They are not used by the specifications; `PROJECT.json` says
which property each of them breaks.

* **JobPool** – what a `job_thread` promises: phases stopped, open, closing, and a
  fate for each job.
* **JobThread** – the flags, the queue and the threads. `m_wait` needs no variable:
  `pop_back` always waits with `wait_for` and no predicate, so a worker may wake at
  any time. `emplace` is a check of the flag and, later, an insertion.
  `ImplementsPool` maps it to `JobPool`: `opc` gives the phase, and a job that has
  only passed the check is still new.
* **JobThreadProofs**, **InstanceHealthProofs**, **CheckAppProofs**, **RegHeartProofs**,
  **EurekaConnectProofs**, **HttpClientPoolProofs**, **PoolGlobalTimerProofs**,
  **HttpClientProofs** – the theorems below.
* **CheckInsErrState** – the functions of the struct as operators on a record. Of the
  clock only the age of the first error is kept; counts that the code compares with
  0 are 0 or 1.
* **InstanceHealth** – one instance, its handles, the timer thread's passes and the
  seconds between them. A pass begins three seconds after the last one began, or
  when that is over, and reaches the check after its refresh queries, at most
  `MaxRefresh` seconds later. A handle that `getHttpClient(appId)` makes counts itself
  without the lock and after it was chosen (`Choose`), as a read (`ReadCount`) and a
  write (`Count`) that others may come between or overwrite (`CountLost`).
* **CheckApp** – one application. `refreshCheckApp` is `Mark`, a query that is
  answered with the registry of that moment (`QueryOk`) or fails, then under the lock
  `Merge`, `Rebuild`, `Erase`, then `StopPool` for each erased instance and `Return`.
  The three steps under the lock are separate since `getHttpClient(appId)` chooses
  without it. Each new `CheckInsData` of an id has a number of its own, so that a
  pool that is to be stopped is not confused with its successor. The registry of the
  server is an external actor. `ImplementsList` maps it to
* **InstanceList** – what following an application promises: the list changes only by
  an answer applied as a whole, each answer at most once, and an instance that stays
  keeps its `CheckInsData`. An answer takes effect at `Merge`; what
  `Erase` has yet to remove counts as gone, for nobody under the lock can see it.
* **RegHeart** – calls are a look at the stop flag, the call to the server (which may
  take effect and still throw) and the change of `m_regs`. Hearts are jobs of an
  `InnerRegInsData`; the do-pool is what `JobPool` promises, with the queue in the order
  the code has: in at the back and out at the back. The history variable
  `registrations` counts the calls that came to an entry. Queries do not delay the
  timer here.
* **EurekaConnect** – calls as loops of tries. `switchEndpoint` is store, load and
  `setEndpoint`, each a step of its own, for the retry (`Store`, `Current`, `Set`) as for
  a thread of the program that calls it (`SwitchEndpoint`, `Current`, `Set`). A redirected
  try frees its client (`AnswerRedirect`) before it moves the pool (`Redirect`). Of the pool the endpoints of free and used clients are kept,
  including the stale ones `HttpClientPool` allows. The history variables `netOnly`,
  `inStep` and `tries` follow a call that nothing overlaps with.
* **HttpClientPool** – one pool from start to stop. `m_requesting_count` is the number
  of requesters inside `request`. Atomics are sequentially consistent, as they are on
  x86 here; the relaxed load in `isStopped` is listed among the hazards.
* **InstanceJson** – the conversions as operators: casts to `int` and `double` and the
  epsilon of `jtoll`, null pointers, the empty `actionType` that is sent as null, numbers
  and booleans that come back as strings. The widths of the numbers are given by limits,
  powers of two (`IntLimit` is 2^31 in the program, `DoubleLimit` 2^53, `LongLimit` 2^63),
  small ones in the run.
* **HttpClient** – one client shared by threads without a pool. The options that stay in
  the handle are fields of `handle`; `of` says whose URL, `WRITEDATA` and `HEADERDATA`
  it has, `read` whose `READDATA`. `Verb`, `Uploads` and `Stalls` are what libcurl makes
  of them. `PostClearsUpload` is the version of libcurl. The server keeps the
  instance of the last POST and answers in either form of JSON, with an error, or not.
* **PoolGlobalTimer** – the registrations of several pools, each started and stopped
  once by a thread of its own. The history variable `raced` notes that a pool has
  started while the last one was stopping.

Each `MC...` module extends one of these for TLC.

## Runs

| Run | Configuration | Shows |
|---|---|---|
| job_thread | 3 jobs, 2 workers, 2 starts | `JobsInOnePlace`, `StoppedIsQuiet`, `NoJobAfterClear`, `StopReturns`, `AcceptedJobRuns`, `ImplementsPool` |
| health | 2 handles, lost increments, refresh up to 8 s, ages to 165 s | `RecoversInTime`, `StillErrorKeepsStep`, `ChosenAgain` |
| check_app | 1 caller and timer, 2 ids, 2 endpoints, 2 changes | `ListedIsRunning`, `ListedHasTurn`, `SteadyStays`, `FollowsServer`, `ErasedIsStopped`, `ImplementsList` |
| pool | 3 requesters, 2 clients, 3 requests, 1 move | `ClientsApart`, `StoppedIsUnused`, `StopReturns` |
| pool_timer | 3 pools in any order | `VisitsLivePools`, `ThreadInOrder`, `DecStopReturns` |
| connect | 2 callers, 2 endpoints, 3 calls, 1 switch | `TriesAll`, `MovesOn`, `CallEnds` |
| reg_heart | 2 callers, 3 ids, 2 threads, 3 calls, 1 restart | `DoingHasJob`, `HeartsBounded`, `AgreesWithServer`, `HeartsGoOn`, `HeartsEnd` |
| exchange | 2 threads, 3 instances, 7 kinds of request, no bound on requests | `OwnTransfer`, `QueriedIsRegistered`, `StopEndsRequests` |

Every run checks the type invariant of its module too.

Why the bounds suffice for the cases that matter: two workers and three jobs leave
one job queued while two run; `MaxAge` is beyond the longest time-out plus four late
checks, and refreshes of up to eight seconds make checks come after the ten seconds of
the first time-out; three entries on two threads leave a job waiting while others run
again; two changes let an instance leave and come back while an answer is under way
and `MaxGen` is never reached before they are used up; three requesters on two
clients reach the limit; three pools have a first, a middle and a last one; three
calls by two callers let a call run alone on what two overlapping ones have left
behind, and give an entry two heart jobs at once; two threads suffice for one to use
the handle while another waits, and what one request leaves to the next does not
depend on the number of threads; `MaxDrift` keeps the count of `health` from going below
zero, since `ChosenAgain` is about what lost increments and resets leave above it, and
lets that of `health_first` go to -1; the limits of `InstanceJson` are small but in the order
of the real ones, and leave values beyond every limit. Deadlock is not checked where the
system comes to rest (all calls made, pool stopped); `InstanceHealth` and `CheckApp` never
rest.

### Disagreements between the code and what it says of itself

These runs end in a violation; `findings` in `PROJECT.json` quotes the lines. Two further
disagreements, with `eureka_agent.h`:189 and 154, are conditions of properties below.

| Run | Property | What happens |
|---|---|---|
| health_first | `FirstMayChoose` | `reset` forgets the handles; `inChoosingCount` becomes -1 |
| check_app_assert | `NoLogicError` | `assert(0)` in `defaultChooseHttpClient` |
| pool_endpoint | `UsesNewest` | a client in use keeps its old endpoint |
| exchange_old | `OwnTransfer` | a POST after a PUT goes out as a PUT if libcurl is older than 7.86 |

Other properties had to be stated with an exception, because the code does not keep
them without it, two of them (`StillErrorKeepsStep` and `HeartsGoOn`) against a comment.
The exceptions, each a history variable or a condition in the property:

* `MovesOn` and `TriesAll` speak of calls that nothing overlaps with: two calls that
  fail together may go back to the failed endpoint (`src/eureka_connect.cpp`:301-303).
  `MovesOn` leaves out besides the calls that begin out of step (`inStep`): where earlier
  calls have left the index, the pool's endpoint and the free clients' apart, as stale
  clients and overlapping switches do, the try after a NetError may go to the endpoint
  that has just failed. `TriesAll` holds for them too.
* `AgreesWithServer` leaves out instances whose last calls overlapped (`contended`) or
  failed (`unsure`): the server and `m_regs` may see a `registerIns` and an
  `unregisterIns` in different orders.
* `DoingHasJob` and `HeartsGoOn` leave out entries whose first heart was refused by a
  closed queue (`orphans`): they keep `doing` and get no heart after the next start.
* `ThreadInOrder` and `DecStopReturns` leave out runs in which a pool starts while the
  last one stops (`raced`): the assertion on `m_runPools` fails, the thread object is
  assigned to while joinable, or the stop flag is overwritten and join waits for ever.
* `StillErrorKeepsStep` speaks of checks whose pass has taken less, with the period
  before it, than the time-out of the step. `include/ppeureka/eureka_agent.h`:189, "if
  still error, the cold down period increase", has no such condition and the code does
  not keep it: with refresh queries of seven seconds or more, which nothing in the code
  prevents, the check finds the first error older than ten seconds, takes the time-out
  for quiet and lowers the step of an instance that still fails. Without the condition
  TLC refutes the property in the run `health`.
* A stop that waits may leave a job in the queue whose `emplace` had passed its check
  (`include/ppeureka/sync_list.h`:89-92); `JobPool` allows that.
* `HeartsGoOn` and `HeartsEnd` have the condition `KeepsUp`: again and again no job
  waits. `include/ppeureka/eureka_agent.h`:154, "send heart period until stop", has no
  such condition and the code does not keep it: the job queued last is the first to run
  (`include/ppeureka/sync_list.h`:124), so that an entry gets no heart at all while the
  others', slower than their period, are queued again and again in front of it; three
  entries on one thread, or six on the four there are, suffice. Without the condition
  TLC refutes `HeartsGoOn` in the run `reg_heart`; there, with three entries on two
  threads, the timer must also be faster than the thread that is free.
* `OwnTransfer` leaves out the size that a PUT without data announces
  (`src/curl/http_client.cpp`:264-275), and `QueriedIsRegistered` speaks of numbers that
  are not negative and have no more digits than a double (`Survives`).
* The cold down of an error begins with the next check; no property says that an
  instance is not chosen in between, because it is.

## Fairness

Weak fairness for each thread's steps: threads are scheduled, `wait_for` and sleeps
end. Every transfer is assumed to end; libcurl is given no time-out, so this is an
assumption on the servers. A stop that has begun goes on. Nobody is obliged to start,
stop, register or make a request. In addition:

* `CheckApp`: strong fairness of `QueryOk` – the server may fail to answer, but not
  for ever. `TimerSees` is fair because the timer thread comes round every three
  seconds. Without it nothing would correct a stale answer.
* `InstanceHealth`: time passes (`Tick`), and the timer thread begins and ends passes.
* `RegHeart`: the timer finds an entry due that has no job, because its period is a
  finite number of seconds. A free thread takes the last job of the queue (`HeartBegin`,
  weakly fair like the rest), which is no promise for any other job: that is what
  `KeepsUp` is for.
* `HttpClient`: strong fairness of `Lock` – a mutex that is released again and again is
  got in the end – and weak fairness of `Abort`, since libcurl calls the progress
  callback at least once a second. The server need not answer.

## Proofs

TLC checks every property on the instance of its run; the theorems here hold for every
value of the constants that the named assumptions allow. In each proof module `IInv` is
the inductive invariant, `IInvHolds` states that it holds, from lemmas about the initial
states and the steps, and the properties follow. TLC has checked each `IInv`, and `Bounds`
and `QueriesKnow`, on the instance of the run first.

| Property | Theorem |
|---|---|
| `JobThread`: `TypeOK`, `JobsInOnePlace`, `StoppedIsQuiet`, `NoJobAfterClear`, `ImplementsPool` | `TypeCorrect`, `OnePlaceCorrect`, `StopIsQuiet`, `ClearedJobsStayCleared`, `JobThreadImplementsPool` |
| `InstanceHealth`: `TypeOK`, `RecoversInTime`, `StillErrorKeepsStep` | `HealthTypeCorrect`, `InTime`, `ErrorKeepsStep` |
| `CheckApp`: `TypeOK`, `ListedIsRunning`, `ListedHasTurn`, `SteadyStays`, `ImplementsList` | `CheckAppTypeCorrect`, `ListedRuns`, `ListedTakesTurns`, `SteadyKept`, `CheckAppImplementsList` |
| `RegHeart`: `TypeOK`, `DoingHasJob`, `HeartsBounded`, `AgreesWithServer` | `RegHeartTypeCorrect`, `DoingIsTakenBack`, `HeartsAreBounded`, `AgentAgrees` |
| `EurekaConnect`: `TypeOK`, `MovesOn`, `TriesAll` | `EurekaConnectTypeCorrect`, `FailoverMovesOn`, `FailoverTriesAll` |
| `HttpClientPool`: `TypeOK`, `ClientsApart`, `StoppedIsUnused` | `HttpClientPoolTypeCorrect`, `ClientsStayApart`, `StopLeavesUnused` |
| `PoolGlobalTimer`: `TypeOK`, `VisitsLivePools`, `ThreadInOrder` | `PoolGlobalTimerTypeCorrect`, `VisitsLive`, `ThreadIsInOrder` |
| `HttpClient`: `TypeOK`, `OwnTransfer`, `QueriedIsRegistered` | `HttpClientTypeCorrect`, `TransfersAreOwn`, `QueriesReturnRegistered` |

`JobThreadProofs` proves for any sets of jobs and workers and any number of restarts:

* `TypeCorrect`, `OnePlaceCorrect`, `StopIsQuiet`: the invariants of the run
  `job_thread`;
* `ClearedJobsStayCleared`: the action property `NoJobAfterClear`;
* `JobThreadImplementsPool`: the refinement of `JobPool`.

The argument. `JobsInOnePlace` is not inductive: a worker that pops must own no job,
and a job that is running must be known to be in no queue. The inductive invariant
`IInv` adds which places of the loop hold a job, which values the flags have at each
place of the owner, and that no thread exists while the owner is idle. `IInvInit` and
`IInvStep` (one step per action) give `IInvHolds`; the properties follow from it. A
few lemmas say what an append, a prepend and the removal of the last element do to
the elements of a sequence without repetitions. The refinement proof maps every
action to one of the pool or to a stutter. The only assumption is
`JobThreadAssumption`.

`HttpClientPoolProofs` proves `ClientsStayApart` (`ClientsApart`) and
`StopLeavesUnused` (`StoppedIsUnused`) for any number of threads, clients, requests
and changes of endpoint. The invariant adds to `ClientsApart` that a request holds a
client exactly from `getClient` to `freeClient`, that every client in use is held
(otherwise the end of all requests would not empty `m_using`), and the order of the
stop: the flag is up before the timer thread is out, and that before the requests are,
so that whatever comes in later is turned away. `TailFree`, `PushFree` and `CutFree`
say what `pop_front`, `emplace_front` and the trimming do to the set of free clients;
the count of the clients in use comes from the library's facts on finite sets.
`HttpClientPoolTypeCorrect` adds the types those arguments do not need. The assumption is
`PoolAssumption`.

`PoolGlobalTimerProofs` proves `VisitsLive` (`VisitsLivePools`) for any number of
pools. The invariant says at which places of its start and stop a pool is registered,
that a pool to be visited has its check flag up and is at most erased from the list,
and that the sleeping thread has nothing left to visit. This needs no assumption, and
nothing about the count of pools: a visit is safe also where starting and joining the
thread goes wrong. `CountKept` adds that `m_count` is the number of pools between
`++m_count` and `--m_count`, for which the pools must be finitely many
(`TimerAssumption`); it gives `PoolGlobalTimerTypeCorrect`, in all overlaps.
`ThreadIsInOrder` needs the count, since the comparisons of `m_count` decide who starts
the thread and who ends it: `ThreadKept` says that, unless `raced`, at most one pool
starts it, one that ends it is alone, and in between it runs and is not told to stop.

`CheckAppProofs` proves, for any number of instances, endpoints, callers and changes of
the registry, all safety properties of `CheckApp` and its refinement of `InstanceList`.
`ListedIsRunning` is not inductive: a refresh stops pools after it has given up the
lock, when others may have listed the same id again. What saves it is that an object
once dropped is never listed again: objects are numbered as they are made
(`NumbersGrow`), what a refresh has in `eraseInses` are objects made before
(`EraseInses`), and while it still lists them it has the lock (`LockIsHeld`). `TurnsKept`
says that `insIds` has every listed instance once but between `Merge` and `Rebuild`, and
`SteadyKnown` that every answer under way has the steady instances. In the refinement
`QueryOk` is the server's answer, `Merge` its application, and every other step changes
neither (`SilentStep`, `EraseIsSilent`). The attempt showed that two cases of the
abstract list, an instance that the answer leaves out and one that is listed, overlapped
in `InstanceList`; they are exclusive now, as are the answers of the server in
`HttpClient`. The assumptions are `CheckAppAssumption` and `NoneAssumption`.

`RegHeartProofs` proves for any number of instances, callers, threads, calls and
restarts `DoingHasJob`, `HeartsBounded` and `AgreesWithServer`. `OpenForTimer` says that
`m_do_thread` takes jobs as long as there is a timer thread, so that a flag that the
timer sets is never left without a job. `HeartsBounded` is not inductive: the timer adds
a job whenever `doing` is down, and any job that ends takes it down, also while others of
the entry go on. `HeartsCounted` counts for each entry the registrations that are on
their way to the queue (`Emplacers`), the jobs, and one more if the entry is registered
and `doing` is down (`Spare`): that is what the timer may add. Only `Insert` raises the
sum, and with it `registrations`. `PlacesAppend`, `PlacesConcat` and `PlacesFront` say
what the queue's changes do to the places of an entry in it. `CallsKnow` says of an instance that nobody
contends that its last call is alone on it and what the call knows: from the answer on
the server has the instance or has it not, and from `Insert` on there is an entry.
A call that begins while another on the instance goes on makes it contended, and it stays
so until one begins alone; without that a second call could undo what the first knows.

`RegHeartTypeCorrect` has an invariant of its own, `Bounds`. That the queue never holds
more than `MaxQueue` jobs, and that there are no more entries than calls, does not follow
from what the calls are doing alone: the timer brings jobs too, period after period.
`JobsCounted` counts what a call has brought, wherever it is by now: the calls that are
still going to emplace, the jobs in the queue and on threads, and the entries whose
`doing` is down (`Idle`), which the timer may give one job each. A call adds one to that
sum and no other step adds to it: the timer turns an idle entry into a job, `HeartEnd` a
job into at most one idle entry. `RegistrationsCounted` bounds the registrations of one entry
in the same way. `OrderHasAll` gives the length of what the timer appends,
`CountOneMore`, `CountOneLess` and `CountLess` what a step does to a count, and
`ThreadIsFree` why an entry has at most `DO_THREAD_COUNT` jobs running. The running jobs
are counted as a set, `jobsRunning`, for which no sum over the entries is needed. The
assumption is `RegAssumption`.

`EurekaConnectProofs` proves `EurekaConnectTypeCorrect`, `FailoverMovesOn` and
`FailoverTriesAll` for any number of endpoints, callers, calls and switches. `CountKept`
limits the tries of a call at each place of its loop, `ClientsFew` the clients, free and
in use, by the callers. `GoesRound` is the argument of the failover: for a call that is
netOnly (and, by `Alone`, the only one) there is an endpoint `s` such that its second
try goes to `s`, the third to the one after, and so on round the list, and at each place
of the loop the index, the pool's endpoint, the free clients' and the loaded `n` are
what the next try needs. Where the first try goes is left to what earlier calls and
redirections have left, which is why `2 * size + 1` tries are needed for less than two
rounds; only a call that began in step knows that it was not `s`. `wrap` counts the
places of up to three rounds without a remainder; `SuccIs`, `WrapIs` and `RoundHasAll`
relate it to the `%` of the code. The assumption is `ConnectAssumption`.

`HttpClientProofs` proves `HttpClientTypeCorrect` and, for a libcurl whose `CURLOPT_POST`
takes `CURLOPT_UPLOAD` back (`PostClearsUpload`; the run `exchange_old` refutes it for
others), `TransfersAreOwn`, for any threads, instances and sequences of requests.
`SetoptSets` says what the options of a handle are once an operation has set its own,
whatever they were; `LockKept` that they are still those when the transfer begins.

`QueriesReturnRegistered` (`QueriedIsRegistered`) needs no particular libcurl, since a
query sets everything it rests on. It has two halves. `QueriesKnow` follows the answer:
while a query is on the wire the handle points to its own thread, what comes back says
what the server held at that moment (`QueryIsAnswered`), and it stays so in the response,
for the lock keeps every other thread from the handle and the answer (`QueriesStep`).
`SaidIsQueried` is about the conversions: `NumbersBack`, `BoolsBack`, `StringsBack`,
`PortBack` and `LeaseBack` take one field each and `InstanceBack` the instance, in both
forms; `FlattenOne` and `QueriesBack` take it out of the answers about an application and
about all. The casts do nothing to numbers below the limits (`IntsStay`, `DoublesStay`);
beyond them the theorem, like the property, says nothing. The assumptions are
`ClientAssumption` and, for the order of the limits, `LimitsAssumption`; that the limits
are powers of two is not used.

`InstanceHealthProofs` proves for any number of handles and any `MaxRefresh`
`HealthTypeCorrect` (`TypeOK`), `InTime` (`RecoversInTime`) and `ErrorKeepsStep`
(`StillErrorKeepsStep`). The age alone is no use as an
invariant, since nothing forces a check until its time has come: `IInv` bounds the age
plus `untilCheck`, the longest the next check may take, which a second moves from one to
the other. After an error that sum is at most `MaxGap`; a check either finds the age
below the time-out, and the next one comes at most `MaxGap` later, or lowers the step,
whose bound is one `MaxGap` further. `ErrorOfPass` says that the first of the errors a
check finds was made after the pass before, so that it is no older than the period and
the queries of this pass, whatever earlier passes took. The assumptions are `HealthAssumption` (ages are
told apart up to the bound) and `MaxAgeAssumption`.

Model-checked only:

* liveness (`StopReturns`, `AcceptedJobRuns`, `ChosenAgain`, `FollowsServer`,
  `ErasedIsStopped`, `DecStopReturns`, `CallEnds`, `HeartsGoOn`, `HeartsEnd`,
  `StopEndsRequests`): fairness and `ENABLED` are beyond the provers used.

Every invariant and every action property that a passing run checks, and both
refinements, are theorems.

## Not modelled

* URL and base64 conversions, TLS options, error texts and response headers but for
  `Location`: pure data that no control depends on.
* Bodies that are no JSON or hold strings where numbers belong: `FormatError`, and the
  exceptions of `std::stoi` that nothing catches (see the hazards).
* The statistics (`CheckInsStatistics`; `requestCountAll` is never changed by the code)
  and `getSnap`: reported only; data races on them are undefined behaviour.
* Retry and choose functions of the program.
* More than one application at a time: applications share only the timer thread, whose
  delay is `MaxRefresh`, and `m_lockApp`.
* Destruction of the agent; a server that forgets its registrations.

## Plan

1. Done: the models above with their abstract specifications `JobPool` and
   `InstanceList`, and the proofs of all their safety properties.
2. Worth a model later: a connection that fails over, as an abstract specification of
   `EurekaConnect` (a call sees a sequence of endpoints); the statistics' windows.
