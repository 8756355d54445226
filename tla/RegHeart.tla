------------------------------- MODULE RegHeart -------------------------------
(***************************************************************************)
(* Registration and heartbeats of EurekaAgent (eureka_agent.cpp): calls of *)
(* registerIns and unregisterIns by the program's threads, the timer       *)
(* thread's doTimerRegHeart, the heart jobs on m_do_thread, and the start  *)
(* and stop of the agent around them.                                      *)
(*                                                                         *)
(* m_do_thread is what module JobPool promises, with the two ways a stop   *)
(* that waits treats a late job: refused, or left in the queue.  A job is  *)
(* known by its InnerRegInsData; jobs are queued at the back and taken     *)
(* from the back, so the last is the first to run.  The server holds a set *)
(* of instances; a call that fails may still have reached it.              *)
(***************************************************************************)
EXTENDS Naturals, Sequences, FiniteSets, SequencesExt

CONSTANTS
  InsIds,          \* instance ids
  Callers,         \* threads that call registerIns and unregisterIns
  Nobody,          \* no caller
  DO_THREAD_COUNT,
  MaxCalls,        \* bound: calls made by all threads
  MaxStops         \* bound: how often the agent is stopped and started again

ASSUME RegAssumption ==
  /\ InsIds # {} /\ Nobody \notin Callers
  /\ DO_THREAD_COUNT \in Nat \ {0} /\ MaxCalls \in Nat /\ MaxStops \in Nat

VARIABLES
  m_stop_flag,
  m_regs,          \* per instance id its InnerRegInsData, numbered from 1, or 0
  doing,           \* per InnerRegInsData
  queue,           \* jobs in the queue
  beating,         \* per InnerRegInsData: its jobs running
  m_enable_emplace,\* of m_do_thread
  phase,           \* the owner's place in start and stop
  lockReg,         \* the caller that holds m_lockReg, or Nobody
  pc, ins, reg,    \* per caller: place in its call, instance id, InnerRegInsData
  server,          \* the instances the server holds
  unsure,          \* instances whose last call on the server failed
  orphans,         \* InnerRegInsData whose first heart was refused
  contended,       \* instances whose last calls overlapped with others
  registrations,   \* per InnerRegInsData: the calls of registerIns that came to it
  made, calls, stops

poolVars == <<queue, beating, m_enable_emplace>>
agentVars == <<m_stop_flag, phase, stops>>
callVars == <<ins, reg, calls, contended>>
serverVars == <<server, unsure>>
vars == <<agentVars, m_regs, doing, poolVars, lockReg, pc, callVars, serverVars,
          orphans, registrations, made>>

Objects == 1 .. MaxCalls   \* a call makes at most one InnerRegInsData
MaxQueue == MaxCalls   \* bound of the queue: a job for each call, again by the timer once it ended
Phases == {"new", "starting", "running", "flagged", "timerStopped", "closed",
           "drained", "stopped"}
PCs == {"out", "register", "insert", "check", "emplace", "unregister", "erase"}

TypeOK ==
  /\ m_stop_flag \in BOOLEAN /\ m_enable_emplace \in BOOLEAN
  /\ m_regs \in [InsIds -> 0 .. made]
  /\ doing \in [Objects -> BOOLEAN]
  /\ queue \in Seq(Objects) /\ Len(queue) <= MaxQueue
  /\ beating \in [Objects -> 0 .. DO_THREAD_COUNT]
  /\ phase \in Phases
  /\ lockReg \in Callers \cup {Nobody}
  /\ pc \in [Callers -> PCs] /\ ins \in [Callers -> InsIds]
  /\ reg \in [Callers -> {0} \cup Objects]
  /\ server \subseteq InsIds /\ unsure \subseteq InsIds /\ contended \subseteq InsIds
  /\ orphans \subseteq 1 .. made
  /\ registrations \in [Objects -> 0 .. MaxCalls]
  /\ made \in 0 .. MaxCalls /\ calls \in 0 .. MaxCalls /\ stops \in 0 .. MaxStops

\* The instance id of a caller that is in no call.
AnyIns == CHOOSE i \in InsIds : TRUE

\* The agent is constructed: its job_thread takes jobs before it is started.
Init ==
  /\ m_stop_flag = FALSE /\ m_enable_emplace = TRUE
  /\ m_regs = [i \in InsIds |-> 0]
  /\ doing = [o \in Objects |-> FALSE]
  /\ queue = <<>> /\ beating = [o \in Objects |-> 0]
  /\ phase = "new" /\ lockReg = Nobody
  /\ pc = [c \in Callers |-> "out"]
  /\ ins = [c \in Callers |-> AnyIns]
  /\ reg = [c \in Callers |-> 0]
  /\ server = {} /\ unsure = {} /\ orphans = {} /\ contended = {}
  /\ registrations = [o \in Objects |-> 0]
  /\ made = 0 /\ calls = 0 /\ stops = 0

Go(c, from, to) == pc[c] = from /\ pc' = [pc EXCEPT ![c] = to]
Return(c, from) == Go(c, from, "out") /\ ins' = [ins EXCEPT ![c] = AnyIns]
InCallOn(c, i) == pc[c] # "out" /\ ins[c] = i

-----------------------------------------------------------------------------
\* registerIns and unregisterIns

\* The stop flag is looked at first; a call that finds it up throws.
Call(c, i) ==
  /\ calls < MaxCalls
  /\ ~m_stop_flag
  /\ \E to \in {"register", "unregister"} : Go(c, "out", to)
  /\ ins' = [ins EXCEPT ![c] = i]
  /\ calls' = calls + 1
  /\ contended' = IF \E d \in Callers : InCallOn(d, i)
                    THEN contended \cup {i} ELSE contended \ {i}
  /\ UNCHANGED <<agentVars, m_regs, doing, poolVars, lockReg, reg, serverVars, orphans,
                 registrations, made>>

\* The call of m_conn: `after` is what the server holds if it has taken effect.  It
\* returns, or throws although it may have taken effect.
OnServer(c, from, to, after) ==
  /\ \/ /\ Go(c, from, to)
        /\ server' = after
        /\ unsure' = unsure \ {ins[c]}
        /\ UNCHANGED ins
     \/ /\ Return(c, from)
        /\ server' \in {server, after}
        /\ unsure' = unsure \cup {ins[c]}
  /\ UNCHANGED <<agentVars, m_regs, doing, poolVars, lockReg, reg, calls, contended,
                 orphans, registrations, made>>

RegisterOnServer(c) == OnServer(c, "register", "insert", server \cup {ins[c]})
UnregisterOnServer(c) == OnServer(c, "unregister", "erase", server \ {ins[c]})

\* Mutated form: the entry is not marked.
InsertUnmarked(c) ==
  LET known == m_regs[ins[c]] # 0
      o == IF known THEN m_regs[ins[c]] ELSE made + 1
  IN  /\ lockReg = Nobody
      /\ Go(c, "insert", "check")
      /\ lockReg' = c
      /\ reg' = [reg EXCEPT ![c] = o]
      /\ m_regs' = [m_regs EXCEPT ![ins[c]] = o]
      /\ registrations' = [registrations EXCEPT ![o] = @ + 1]
      /\ made' = IF known THEN made ELSE made + 1
      /\ UNCHANGED <<agentVars, doing, poolVars, ins, calls, contended, serverVars,
                     orphans>>

\* Under m_lockReg: the entry, made if there is none, is marked ...
Insert(c) ==
  LET known == m_regs[ins[c]] # 0
      o == IF known THEN m_regs[ins[c]] ELSE made + 1
  IN  /\ lockReg = Nobody
      /\ Go(c, "insert", "check")
      /\ lockReg' = c
      /\ reg' = [reg EXCEPT ![c] = o]
      /\ m_regs' = [m_regs EXCEPT ![ins[c]] = o]
      /\ doing' = [doing EXCEPT ![o] = TRUE]
      /\ registrations' = [registrations EXCEPT ![o] = @ + 1]
      /\ made' = IF known THEN made ELSE made + 1
      /\ UNCHANGED <<agentVars, poolVars, ins, calls, contended, serverVars, orphans>>

\* ... and its first heart is emplaced, unless the queue is closed, which nobody notices.
CheckEmplace(c) ==
  /\ m_enable_emplace
  /\ Go(c, "check", "emplace")
  /\ UNCHANGED <<agentVars, m_regs, doing, poolVars, lockReg, callVars, serverVars,
                 orphans, registrations, made>>

EmplaceRefused(c) ==
  /\ ~m_enable_emplace
  /\ Return(c, "check")
  /\ lockReg' = Nobody
  /\ orphans' = orphans \cup {reg[c]}
  /\ reg' = [reg EXCEPT ![c] = 0]
  /\ UNCHANGED <<agentVars, m_regs, doing, poolVars, calls, contended, serverVars,
                 registrations, made>>

Emplace(c) ==
  /\ Return(c, "emplace")
  /\ lockReg' = Nobody
  /\ queue' = Append(queue, reg[c])
  /\ orphans' = orphans \ {reg[c]}
  /\ reg' = [reg EXCEPT ![c] = 0]
  /\ UNCHANGED <<agentVars, m_regs, doing, beating, m_enable_emplace, calls, contended,
                 serverVars, registrations, made>>

\* Mutated form: the entry stays.
EraseNot(c) ==
  /\ lockReg = Nobody
  /\ Return(c, "erase")
  /\ UNCHANGED <<agentVars, m_regs, doing, poolVars, lockReg, reg, calls, contended,
                 serverVars, orphans, registrations, made>>

Erase(c) ==
  /\ lockReg = Nobody
  /\ Return(c, "erase")
  /\ m_regs' = [m_regs EXCEPT ![ins[c]] = 0]
  /\ UNCHANGED <<agentVars, doing, poolVars, lockReg, reg, calls, contended,
                 serverVars, orphans, registrations, made>>

-----------------------------------------------------------------------------
\* Mutated form: entries that have a heart job are not left out.
TimerRegHeartAgain(due) ==
  /\ phase \in {"running", "flagged"}
  /\ lockReg = Nobody
  /\ due # {}
  /\ doing' = [o \in Objects |-> doing[o] \/ o \in due]
  /\ \E s \in SetToSeqs(due) : queue' = queue \o s
  /\ UNCHANGED <<agentVars, m_regs, beating, m_enable_emplace, lockReg, pc, callVars,
                 serverVars, orphans, registrations, made>>

\* doTimerRegHeart, under m_lockReg: a job for each entry in `due`, those whose
\* period has elapsed, in the order of their ids, which is any here; the timer thread
\* exists from start until stop has joined it.
TimerRegHeart(due) ==
  LET idle == {o \in due : ~doing[o]}
  IN  /\ phase \in {"running", "flagged"}
      /\ lockReg = Nobody
      /\ idle # {}
      /\ doing' = [o \in Objects |-> doing[o] \/ o \in idle]
      /\ IF m_enable_emplace
           THEN \E s \in SetToSeqs(idle) : queue' = queue \o s
           ELSE UNCHANGED queue
      /\ UNCHANGED <<agentVars, m_regs, beating, m_enable_emplace, lockReg, pc, callVars,
                     serverVars, orphans, registrations, made>>

Registered == {m_regs[i] : i \in InsIds} \ {0}

-----------------------------------------------------------------------------
\* doRegHeart, on a thread of m_do_thread

\* Jobs that run, numbered for each entry: each has one of the DO_THREAD_COUNT threads.
jobsRunning == {job \in Objects \X (1 .. DO_THREAD_COUNT) : job[2] <= beating[job[1]]}

HeartBegin ==
  /\ queue # <<>>
  /\ phase \in {"running", "flagged", "timerStopped", "closed"}
  /\ Cardinality(jobsRunning) < DO_THREAD_COUNT
  /\ queue' = Front(queue)
  /\ beating' = [beating EXCEPT ![Last(queue)] = @ + 1]
  /\ UNCHANGED <<agentVars, m_regs, doing, m_enable_emplace, lockReg, pc, callVars,
                 serverVars, orphans, registrations, made>>

\* Mutated form: doing is not cleared when sendHeart throws.
HeartEndKeepsDoing(o) ==
  /\ beating[o] > 0
  /\ beating' = [beating EXCEPT ![o] = @ - 1]
  /\ \/ doing' = [doing EXCEPT ![o] = FALSE]
     \/ UNCHANGED doing
  /\ UNCHANGED <<agentVars, m_regs, queue, m_enable_emplace, lockReg, pc, callVars,
                 serverVars, orphans, registrations, made>>

\* Mutated form: a heart that failed is tried again by a new job.
HeartEndRepeats(o) ==
  /\ beating[o] > 0
  /\ beating' = [beating EXCEPT ![o] = @ - 1]
  /\ queue' = Append(queue, o)
  /\ UNCHANGED <<agentVars, m_regs, doing, m_enable_emplace, lockReg, pc, callVars,
                 serverVars, orphans, registrations, made>>

\* sendHeart has returned or thrown; dr1 clears doing.
HeartEnd(o) ==
  /\ beating[o] > 0
  /\ beating' = [beating EXCEPT ![o] = @ - 1]
  /\ doing' = [doing EXCEPT ![o] = FALSE]
  /\ UNCHANGED <<agentVars, m_regs, queue, m_enable_emplace, lockReg, pc, callVars,
                 serverVars, orphans, registrations, made>>

-----------------------------------------------------------------------------
\* start and stop of the agent, by its owner

OwnerStep(from, to) ==
  /\ phase \in from /\ phase' = to
  /\ UNCHANGED <<m_regs, doing, queue, beating, lockReg, pc, callVars, serverVars,
                 orphans, registrations, made>>

StartFlag ==
  /\ OwnerStep({"new", "stopped"}, "starting")
  /\ m_stop_flag' = FALSE
  /\ UNCHANGED <<m_enable_emplace, stops>>

StartThreads ==
  /\ OwnerStep({"starting"}, "running")
  /\ m_enable_emplace' = TRUE
  /\ UNCHANGED <<m_stop_flag, stops>>

\* Mutated form: m_do_thread is stopped before m_timer_thread.
StopFlagCloses ==
  /\ stops < MaxStops
  /\ OwnerStep({"running"}, "flagged")
  /\ m_stop_flag' = TRUE
  /\ m_enable_emplace' = FALSE
  /\ stops' = stops + 1

StopFlag ==
  /\ stops < MaxStops
  /\ OwnerStep({"running"}, "flagged")
  /\ m_stop_flag' = TRUE
  /\ stops' = stops + 1
  /\ UNCHANGED m_enable_emplace

\* m_timer_thread.stop: doTimer has seen the flag and its thread is joined.
StopTimer ==
  /\ OwnerStep({"flagged"}, "timerStopped")
  /\ UNCHANGED <<m_stop_flag, m_enable_emplace, stops>>

\* m_do_thread.stop: the queue is closed ...
StopCloses ==
  /\ OwnerStep({"timerStopped"}, "closed")
  /\ m_enable_emplace' = FALSE
  /\ UNCHANGED <<m_stop_flag, stops>>

\* ... the threads end once they find it empty ...
StopDrains ==
  /\ queue = <<>> /\ \A o \in Objects : beating[o] = 0
  /\ OwnerStep({"closed"}, "drained")
  /\ UNCHANGED <<m_stop_flag, m_enable_emplace, stops>>

\* ... and are joined.
StopJoins ==
  /\ OwnerStep({"drained"}, "stopped")
  /\ UNCHANGED <<m_stop_flag, m_enable_emplace, stops>>

-----------------------------------------------------------------------------
InCall(c) ==
  \/ RegisterOnServer(c) \/ UnregisterOnServer(c)
  \/ Insert(c) \/ CheckEmplace(c) \/ EmplaceRefused(c) \/ Emplace(c) \/ Erase(c)

Stopping == StopTimer \/ StopCloses \/ StopDrains \/ StopJoins

Next ==
  \/ \E c \in Callers : InCall(c) \/ \E i \in InsIds : Call(c, i)
  \/ \E due \in SUBSET Registered : TimerRegHeart(due)
  \/ HeartBegin
  \/ \E o \in Objects : HeartEnd(o)
  \/ StartFlag \/ StartThreads \/ StopFlag \/ Stopping

Spec == Init /\ [][Next]_vars

\* Threads are scheduled, every exchange with the server ends, and the period of an
\* entry that is not being sent a heart elapses, so that the timer thread, which looks
\* every REG_HEART_PERIOD_SECONDS, finds it due.
FairSpec ==
  /\ Spec
  /\ \A c \in Callers : WF_vars(InCall(c))
  /\ \A o \in Objects :
       /\ WF_vars(\E due \in SUBSET Registered : o \in due /\ TimerRegHeart(due))
       /\ WF_vars(HeartEnd(o))
  /\ WF_vars(HeartBegin)
  /\ WF_vars(StartThreads \/ Stopping)

-----------------------------------------------------------------------------
HasJob(o) == o \in ToSet(queue) \/ beating[o] > 0

\* `doing`, which keeps the timer from an entry, is taken back: while it is up a heart
\* job of the entry is queued, running or about to be emplaced, whatever registrations,
\* hearts and stops overlap (eureka_agent.cpp:142-146, 419-422, 479-481; the order of
\* the two stops in 108-109).  The exception are the entries whose first heart
\* m_do_thread refused.
DoingHasJob ==
  \A o \in Objects :
    doing[o] => \/ HasJob(o)
                \/ \E c \in Callers : reg[c] = o /\ pc[c] \in {"check", "emplace"}
                \/ o \in orphans

\* Every call of registerIns adds a heart job, whether the entry has one or not, and the
\* end of any of them lets the timer add the next; yet the timer adds to them no more
\* than have ended: of an entry no more jobs are queued or running than it was
\* registered times, so of one that was registered once never two
\* (eureka_agent.cpp:143-146, 412-422, 479-481).
JobsOf(o) == Cardinality({k \in DOMAIN queue : queue[k] = o}) + beating[o]

HeartsBounded == \A o \in Objects : JobsOf(o) <= registrations[o]

\* The threads keep up with the hearts: again and again no job waits.  Nothing in the
\* code sees to that: the job queued last is the first to run, so with two entries more
\* than threads and answers slower than the period the hearts of the others can keep the
\* job of one in the queue for ever (sync_list.h:124).
KeepsUp == []<>(queue = <<>>)

\* "register instantce and send heart period until stop" (eureka_agent.h:154), which the
\* code keeps only if the threads keep up: then, while the agent runs, an entry whose
\* first heart was not refused is sent one heart after the other until it is erased
\* (eureka_agent.cpp:134-147, 404-426, 477-487).
HeartsGoOn ==
  KeepsUp =>
    \A o \in Objects :
      phase = "running" /\ o \in Registered /\ beating[o] = 0 /\ o \notin orphans
        ~> phase # "running" \/ o \notin Registered \/ beating[o] > 0

\* "unregister instance and stop the instance's heart period" (eureka_agent.h:159): of
\* an entry that has been erased the jobs run out if the threads keep up
\* (eureka_agent.cpp:166-167).
HeartsEnd ==
  KeepsUp =>
    \A o \in Objects :
      o <= made /\ o \notin Registered /\ phase = "running"
        ~> ~HasJob(o) \/ phase # "running"

\* When no call on an instance is under way, and the last one did not overlap with
\* another and did not fail, the agent sends hearts for the instance exactly if the
\* server holds it, whatever calls failed or overlapped before and however the agent
\* was stopped and started (eureka_agent.h:154, 159; eureka_agent.cpp:132-147, 159-168).
AgreesWithServer ==
  \A i \in InsIds \ (unsure \cup contended) :
    (\A c \in Callers : ~InCallOn(c, i)) => (m_regs[i] # 0 <=> i \in server)
=============================================================================
