--------------------------- MODULE JobThreadProofs ---------------------------
(***************************************************************************)
(* Theorems about JobThread for every set of jobs, every set of workers    *)
(* and any number of restarts.  IInv is the inductive invariant they       *)
(* share.                                                                  *)
(***************************************************************************)
EXTENDS JobThread, SequenceTheorems, TLAPS

-----------------------------------------------------------------------------
\* What makes the safety properties inductive: a worker has a job exactly while
\* it runs it, the joins leave no thread behind, ...
WorkingHasJob == \A w \in Workers : wpc[w] = "run" <=> job[w] # NoJob
IdleHasNoThread == opc = "idle" => \A w \in Workers : wpc[w] = "none"

\* ... a running pool takes jobs, and the flags agree with the place in stop.
RunningTakesJobs == opc = "running" => m_enable_emplace
FlagOfStop == opc \in {"flagged", "closed"} => m_stop_flag = "STOP_WAIT"
ClearedIsShut ==
  m_stop_flag = "STOP_NO_WAIT" /\ opc \in {"nopop", "join", "idle"} => ~m_enable_pop

FlagsAgree == RunningTakesJobs /\ FlagOfStop /\ ClearedIsShut

IInv ==
  /\ TypeOK
  /\ JobsInOnePlace
  /\ WorkingHasJob
  /\ IdleHasNoThread
  /\ FlagsAgree

-----------------------------------------------------------------------------
\* emplace_front: the new element is first and the others move up by one.
LEMMA PushFront ==
  ASSUME NEW S, NEW s \in Seq(S), NEW e \in S
  PROVE  /\ <<e>> \o s \in Seq(S)
         /\ DOMAIN (<<e>> \o s) = 1 .. Len(s) + 1
         /\ \A i \in 1 .. Len(s) + 1 :
              (<<e>> \o s)[i] = IF i = 1 THEN e ELSE s[i - 1]
<1>1. <<e>> \in Seq(S) /\ Len(<<e>>) = 1 /\ <<e>>[1] = e
  OBVIOUS
<1>2. /\ <<e>> \o s \in Seq(S)
      /\ Len(<<e>> \o s) = 1 + Len(s)
      /\ \A i \in 1 .. 1 + Len(s) :
           (<<e>> \o s)[i] = IF i <= 1 THEN <<e>>[i] ELSE s[i - 1]
  BY <1>1, ConcatProperties
<1>3. Len(s) \in Nat /\ DOMAIN (<<e>> \o s) = 1 .. Len(<<e>> \o s)
  BY <1>2, LenProperties
<1> QED
  BY <1>1, <1>2, <1>3

\* pop_back: every element but the last stays where it is.
LEMMA PopBack ==
  ASSUME NEW S, NEW s \in Seq(S), s # <<>>
  PROVE  /\ SubSeq(s, 1, Len(s) - 1) \in Seq(S)
         /\ DOMAIN SubSeq(s, 1, Len(s) - 1) = 1 .. Len(s) - 1
         /\ \A i \in 1 .. Len(s) - 1 : SubSeq(s, 1, Len(s) - 1)[i] = s[i]
         /\ Len(s) \in DOMAIN s
         /\ s[Len(s)] \in S
<1>1. Len(s) \in Nat \ {0} /\ DOMAIN s = 1 .. Len(s) /\ s \in [1 .. Len(s) -> S]
  BY EmptySeq, LenProperties
<1>2. \A i \in 1 .. Len(s) - 1 : s[i] \in S
  BY <1>1
<1>3. /\ SubSeq(s, 1, Len(s) - 1) \in Seq(S)
      /\ Len(SubSeq(s, 1, Len(s) - 1))
           = IF 1 <= Len(s) - 1 THEN (Len(s) - 1) - 1 + 1 ELSE 0
      /\ \A i \in 1 .. (Len(s) - 1) - 1 + 1 :
           SubSeq(s, 1, Len(s) - 1)[i] = s[1 + i - 1]
  <2> HIDE <1>2
  <2>1. 1 \in Int /\ Len(s) - 1 \in Int
    BY <1>1
  <2> QED
    BY <1>2, <2>1, SubSeqProperties
<1>4. DOMAIN SubSeq(s, 1, Len(s) - 1) = 1 .. Len(SubSeq(s, 1, Len(s) - 1))
  BY <1>3, LenProperties
<1> QED
  BY <1>1, <1>3, <1>4

-----------------------------------------------------------------------------
LEMMA InitIInv == Init => IInv
BY JobThreadAssumption
   DEF Init, IInv, TypeOK, WorkerPC, OwnerPC, Status, JobsInOnePlace, Queued,
       WorkingHasJob, IdleHasNoThread, FlagsAgree, RunningTakesJobs, FlagOfStop,
       ClearedIsShut

\* Every step of Next by name; the proofs about Next split on these.
LEMMA NextCases ==
  ASSUME Next
  PROVE  \/ \E j \in Jobs : EmplaceCheck(j) \/ EmplaceInsert(j)
         \/ \E w \in Workers : \/ PopEnter(w) \/ PopJob(w) \/ PopNothing(w)
                               \/ JobReturns(w) \/ AfterJob(w) \/ AfterFailedPop(w)
                               \/ Start(w) \/ AddThread(w)
         \/ StopFlag \/ StopCloses \/ StopWaits \/ StopNoWait \/ StopDisablesPop
         \/ StopClears \/ StopJoined
BY DEF Next, Emplace, Worker, Stopping

LEMMA TypeStep ==
  ASSUME TypeOK, WorkingHasJob, [Next]_vars
  PROVE  TypeOK'
<1> USE JobThreadAssumption DEF TypeOK, WorkerPC, OwnerPC, Status
<1>1. CASE UNCHANGED vars
  BY <1>1 DEF vars
<1>2. CASE Next
  <2>1. ASSUME NEW j \in Jobs, EmplaceCheck(j) PROVE TypeOK'
    BY <2>1 DEF EmplaceCheck, flagVars
  <2>2. ASSUME NEW j \in Jobs, EmplaceInsert(j) PROVE TypeOK'
    <3>1. <<j>> \o m_data \in Seq(Jobs) /\ Append(m_data, j) \in Seq(Jobs)
      BY PushFront
    <3> QED
      BY <2>2, <3>1 DEF EmplaceInsert, flagVars
  <2>3. ASSUME NEW w \in Workers, PopEnter(w) PROVE TypeOK'
    BY <2>3 DEF PopEnter, Step, flagVars
  <2>4. ASSUME NEW w \in Workers, PopJob(w) PROVE TypeOK'
    <3>1. SubSeq(m_data, 1, Len(m_data) - 1) \in Seq(Jobs) /\ m_data[Len(m_data)] \in Jobs
      BY <2>4, PopBack DEF PopJob
    <3> QED
      BY <2>4, <3>1 DEF PopJob, Step, flagVars
  <2>5. ASSUME NEW w \in Workers, PopNothing(w) PROVE TypeOK'
    BY <2>5 DEF PopNothing, Step, flagVars
  <2>6. ASSUME NEW w \in Workers, JobReturns(w) PROVE TypeOK'
    BY <2>6 DEF JobReturns, Step, flagVars
  <2>7. ASSUME NEW w \in Workers, AfterJob(w) \/ AfterFailedPop(w) PROVE TypeOK'
    <3>1. CASE AfterJob(w)
      BY <3>1 DEF AfterJob, Step, flagVars
    <3>2. CASE AfterFailedPop(w)
      BY <3>2 DEF AfterFailedPop, Step, flagVars
    <3> QED
      BY <2>7, <3>1, <3>2
  <2>8. ASSUME NEW w \in Workers, Start(w) \/ AddThread(w) PROVE TypeOK'
    <3>1. CASE Start(w)
      BY <3>1 DEF Start, Step
    <3>2. CASE AddThread(w)
      BY <3>2 DEF AddThread, Step, flagVars
    <3> QED
      BY <2>8, <3>1, <3>2
  <2>9. ASSUME StopFlag \/ StopCloses \/ StopWaits \/ StopNoWait \/ StopDisablesPop
        PROVE  TypeOK'
    BY <2>9 DEF StopFlag, StopCloses, StopWaits, StopNoWait, StopDisablesPop, flagVars
  <2>10. ASSUME StopClears PROVE TypeOK'
    <3>1. status' \in [Jobs -> Status]
      BY <2>10 DEF StopClears
    <3>2. m_data' \in Seq(Jobs)
      BY <2>10, EmptySeq DEF StopClears
    <3> QED
      BY <2>10, <3>1, <3>2 DEF StopClears, flagVars
  <2>11. ASSUME StopJoined PROVE TypeOK'
    BY <2>11 DEF StopJoined, flagVars
  <2> QED
    BY <1>2, <2>1, <2>2, <2>3, <2>4, <2>5, <2>6, <2>7, <2>8, <2>9, <2>10, <2>11, NextCases
<1> QED
  BY <1>1, <1>2

-----------------------------------------------------------------------------
\* A job moves between "nowhere", the queue and one worker as a whole.
LEMMA PlaceStep ==
  ASSUME IInv, [Next]_vars
  PROVE  JobsInOnePlace'
<1> USE JobThreadAssumption
<1>1. TypeOK /\ TypeOK' /\ JobsInOnePlace /\ WorkingHasJob
  BY TypeStep DEF IInv
<1>2. ASSUME UNCHANGED <<m_data, status, job>> PROVE JobsInOnePlace'
  BY <1>1, <1>2 DEF JobsInOnePlace, Queued, OneWorker
<1>3. ASSUME NEW j \in Jobs, EmplaceCheck(j) PROVE JobsInOnePlace'
  BY <1>1, <1>3 DEF EmplaceCheck, JobsInOnePlace, Queued, OneWorker, TypeOK
<1>4. ASSUME NEW j \in Jobs, EmplaceInsert(j) PROVE JobsInOnePlace'
  <2>1. /\ status[j] = "checked" /\ ~Queued(j)
        /\ \A i \in Jobs \ {j} : status'[i] = status[i]
        /\ status'[j] = "queued" /\ UNCHANGED job
        /\ \A w \in Workers : job[w] # j
    BY <1>1, <1>4 DEF EmplaceInsert, JobsInOnePlace, TypeOK
  <2>2. Len(m_data) \in Nat /\ DOMAIN m_data = 1 .. Len(m_data)
    BY <1>1, LenProperties DEF TypeOK
  <2>3. /\ \A i, k \in DOMAIN m_data' : m_data'[i] = m_data'[k] => i = k
        /\ \A i \in Jobs : Queued(i)' <=> i = j \/ Queued(i)
    <3>1. CASE m_data' = <<j>> \o m_data
      <4>1. /\ DOMAIN m_data' = 1 .. Len(m_data) + 1
            /\ \A i \in 1 .. Len(m_data) + 1 :
                  m_data'[i] = IF i = 1 THEN j ELSE m_data[i - 1]
        BY <1>1, <3>1, PushFront DEF TypeOK
      <4>2. \A i \in 1 .. Len(m_data) : m_data[i] # j
        BY <2>1, <2>2 DEF Queued
      <4>3. \A i, k \in DOMAIN m_data' : m_data'[i] = m_data'[k] => i = k
        BY <1>1, <2>2, <4>1, <4>2 DEF JobsInOnePlace
      <4>4. ASSUME NEW i \in Jobs PROVE Queued(i)' <=> i = j \/ Queued(i)
        <5>1. ASSUME Queued(i) PROVE Queued(i)'
          <6>1. PICK k \in 1 .. Len(m_data) : m_data[k] = i
            BY <2>2, <5>1 DEF Queued
          <6>2. k + 1 \in DOMAIN m_data' /\ m_data'[k + 1] = i
            BY <2>2, <4>1, <6>1
          <6> QED
            BY <6>2 DEF Queued
        <5>2. ASSUME i = j PROVE Queued(i)'
          <6>1. 1 \in DOMAIN m_data' /\ m_data'[1] = i
            BY <2>2, <4>1, <5>2
          <6> QED
            BY <6>1 DEF Queued
        <5>3. ASSUME Queued(i)', i # j PROVE Queued(i)
          <6>1. PICK k \in 1 .. Len(m_data) + 1 : m_data'[k] = i
            BY <4>1, <5>3 DEF Queued
          <6>2. k - 1 \in DOMAIN m_data /\ m_data[k - 1] = i
            BY <2>2, <4>1, <5>3, <6>1
          <6> QED
            BY <6>2 DEF Queued
        <5> QED
          BY <5>1, <5>2, <5>3
      <4> QED
        BY <4>3, <4>4
    <3>2. CASE m_data' = Append(m_data, j)
      <4>1. /\ DOMAIN m_data' = 1 .. Len(m_data) + 1
            /\ \A i \in 1 .. Len(m_data) : m_data'[i] = m_data[i]
            /\ m_data'[Len(m_data) + 1] = j
        BY <1>1, <2>2, <3>2 DEF TypeOK
      <4> QED
        BY <1>1, <2>1, <2>2, <4>1 DEF JobsInOnePlace, Queued
    <3> QED
      BY <1>4, <3>1, <3>2 DEF EmplaceInsert
  <2> QED
    BY <1>1, <2>1, <2>3 DEF JobsInOnePlace, OneWorker
<1>5. ASSUME NEW w \in Workers, PopJob(w) PROVE JobsInOnePlace'
  <2> DEFINE last == m_data[Len(m_data)]
  <2>1. m_data # <<>> /\ job[w] = NoJob
    BY <1>1, <1>5 DEF PopJob, Step, WorkingHasJob, TypeOK
  <2>2. /\ Len(m_data) \in Nat /\ DOMAIN m_data = 1 .. Len(m_data)
        /\ Len(m_data) \in DOMAIN m_data /\ last \in Jobs
        /\ DOMAIN m_data' = 1 .. Len(m_data) - 1
        /\ \A i \in 1 .. Len(m_data) - 1 : m_data'[i] = m_data[i]
    BY <1>1, <1>5, <2>1, LenProperties, PopBack DEF PopJob, TypeOK
  <2>3. /\ status' = [status EXCEPT ![last] = "running"]
        /\ job' = [job EXCEPT ![w] = last]
    BY <1>5 DEF PopJob
  <2>4. status[last] = "queued" /\ \A v \in Workers : job[v] # last
    BY <1>1, <2>2 DEF JobsInOnePlace, Queued
  <2>5. \A j \in Jobs : Queued(j)' <=> Queued(j) /\ j # last
    <3>1. \A i \in 1 .. Len(m_data) - 1 : m_data[i] # last
      BY <1>1, <2>2 DEF JobsInOnePlace
    <3> QED
      BY <2>2, <3>1 DEF Queued
  <2>6. \A i, k \in DOMAIN m_data' : m_data'[i] = m_data'[k] => i = k
    BY <1>1, <2>2 DEF JobsInOnePlace
  <2>7. \A j \in Jobs : status'[j] = "queued" <=> Queued(j)'
    BY <1>1, <2>2, <2>3, <2>5 DEF JobsInOnePlace, TypeOK
  <2>8. ASSUME NEW j \in Jobs
        PROVE  IF status'[j] = "running" THEN OneWorker(j)'
                                         ELSE \A v \in Workers : job'[v] # j
    BY <1>1, <2>1, <2>2, <2>3, <2>4 DEF JobsInOnePlace, OneWorker, TypeOK
  <2> HIDE DEF last
  <2> QED
    BY <2>6, <2>7, <2>8 DEF JobsInOnePlace
<1>6. ASSUME NEW w \in Workers, JobReturns(w) PROVE JobsInOnePlace'
  <2>1. job[w] \in Jobs /\ status[job[w]] = "running"
    BY <1>1, <1>6 DEF JobReturns, Step, WorkingHasJob, JobsInOnePlace, TypeOK
  <2>2. \A v \in Workers \ {w} : job[v] # job[w]
    BY <1>1, <2>1 DEF JobsInOnePlace, OneWorker
  <2>3. /\ status' = [status EXCEPT ![job[w]] = "done"]
        /\ job' = [job EXCEPT ![w] = NoJob]
        /\ UNCHANGED m_data
    BY <1>6 DEF JobReturns
  <2>4. \A j \in Jobs : status'[j] = "queued" <=> Queued(j)'
    BY <1>1, <2>1, <2>3 DEF JobsInOnePlace, Queued, TypeOK
  <2>5. ASSUME NEW j \in Jobs
        PROVE  IF status'[j] = "running" THEN OneWorker(j)'
                                         ELSE \A v \in Workers : job'[v] # j
    BY <1>1, <2>1, <2>2, <2>3 DEF JobsInOnePlace, OneWorker, TypeOK
  <2> QED
    BY <1>1, <2>3, <2>4, <2>5 DEF JobsInOnePlace
<1>7. ASSUME StopClears PROVE JobsInOnePlace'
  <2>1. m_data' = <<>> /\ UNCHANGED job
    BY <1>7 DEF StopClears
  <2>2. \A j \in Jobs : status'[j] # "queued" /\ (status'[j] = "running" <=> status[j] = "running")
    BY <1>1, <1>7 DEF StopClears, TypeOK
  <2>3. DOMAIN m_data' = {}
    BY <2>1
  <2> QED
    BY <1>1, <2>1, <2>2, <2>3 DEF JobsInOnePlace, Queued, OneWorker
<1>8. CASE UNCHANGED vars
  BY <1>2, <1>8 DEF vars
<1>9. ASSUME NEW w \in Workers,
             \/ PopEnter(w) \/ PopNothing(w) \/ AfterJob(w)
             \/ AfterFailedPop(w) \/ Start(w) \/ AddThread(w)
      PROVE  JobsInOnePlace'
  BY <1>2, <1>9 DEF PopEnter, PopNothing, AfterJob, AfterFailedPop, Start, AddThread
<1>10. ASSUME \/ StopFlag \/ StopCloses \/ StopWaits \/ StopNoWait
              \/ StopDisablesPop \/ StopJoined
       PROVE  JobsInOnePlace'
  BY <1>2, <1>10
     DEF StopFlag, StopCloses, StopWaits, StopNoWait, StopDisablesPop, StopJoined
<1> QED
  BY <1>3, <1>4, <1>5, <1>6, <1>7, <1>8, <1>9, <1>10, NextCases

-----------------------------------------------------------------------------
LEMMA WorkingHasJobStep ==
  ASSUME IInv, [Next]_vars
  PROVE  WorkingHasJob'
<1> USE JobThreadAssumption DEF WorkingHasJob, Step
<1>1. TypeOK /\ WorkingHasJob
  BY DEF IInv
<1>2. ASSUME UNCHANGED <<wpc, job>> PROVE WorkingHasJob'
  BY <1>1, <1>2
<1>3. ASSUME NEW w \in Workers, PopJob(w) PROVE WorkingHasJob'
  <2>1. m_data[Len(m_data)] \in Jobs
    BY <1>1, <1>3, PopBack DEF PopJob, TypeOK
  <2> QED
    BY <1>1, <1>3, <2>1 DEF PopJob, TypeOK
<1>4. ASSUME NEW w \in Workers, JobReturns(w) PROVE WorkingHasJob'
  BY <1>1, <1>4 DEF JobReturns, TypeOK
<1>5. ASSUME NEW w \in Workers, PopEnter(w) \/ PopNothing(w) PROVE WorkingHasJob'
  BY <1>1, <1>5 DEF PopEnter, PopNothing, TypeOK
<1>6. ASSUME NEW w \in Workers, AfterJob(w) \/ AfterFailedPop(w) PROVE WorkingHasJob'
  BY <1>1, <1>6 DEF AfterJob, AfterFailedPop, TypeOK
<1>7. ASSUME NEW w \in Workers, Start(w) \/ AddThread(w) PROVE WorkingHasJob'
  BY <1>1, <1>7 DEF Start, AddThread, TypeOK
<1>8. ASSUME StopJoined PROVE WorkingHasJob'
  BY <1>1, <1>8 DEF StopJoined, TypeOK
<1>9. CASE UNCHANGED vars
  BY <1>2, <1>9 DEF vars
<1>10. ASSUME NEW j \in Jobs, EmplaceCheck(j) \/ EmplaceInsert(j) PROVE WorkingHasJob'
  BY <1>2, <1>10 DEF EmplaceCheck, EmplaceInsert
<1>11. ASSUME \/ StopFlag \/ StopCloses \/ StopWaits \/ StopNoWait
              \/ StopDisablesPop \/ StopClears
       PROVE  WorkingHasJob'
  BY <1>2, <1>11
     DEF StopFlag, StopCloses, StopWaits, StopNoWait, StopDisablesPop, StopClears
<1> QED
  BY <1>3, <1>4, <1>5, <1>6, <1>7, <1>8, <1>9, <1>10, <1>11, NextCases

LEMMA IdleStep ==
  ASSUME IInv, [Next]_vars
  PROVE  IdleHasNoThread'
<1> USE DEF IdleHasNoThread, Step
<1>1. TypeOK /\ IdleHasNoThread
  BY DEF IInv
<1>2. ASSUME UNCHANGED <<opc, wpc>> PROVE IdleHasNoThread'
  BY <1>1, <1>2
<1>3. CASE UNCHANGED vars
  BY <1>2, <1>3 DEF vars
<1>4. ASSUME NEW j \in Jobs, EmplaceCheck(j) \/ EmplaceInsert(j) PROVE IdleHasNoThread'
  BY <1>2, <1>4 DEF EmplaceCheck, EmplaceInsert
<1>5. ASSUME NEW w \in Workers,
             \/ PopEnter(w) \/ PopJob(w) \/ PopNothing(w)
             \/ JobReturns(w) \/ AfterJob(w) \/ AfterFailedPop(w)
      PROVE  IdleHasNoThread'
  <2>1. wpc[w] # "none" /\ UNCHANGED opc
    BY <1>5 DEF PopEnter, PopJob, PopNothing, JobReturns, AfterJob, AfterFailedPop
  <2> QED
    BY <1>1, <2>1
<1>6. ASSUME NEW w \in Workers, Start(w) \/ AddThread(w) PROVE IdleHasNoThread'
  BY <1>6 DEF Start, AddThread
<1>7. ASSUME StopJoined PROVE IdleHasNoThread'
  BY <1>7 DEF StopJoined
<1>8. ASSUME \/ StopFlag \/ StopCloses \/ StopWaits \/ StopNoWait
             \/ StopDisablesPop \/ StopClears
      PROVE  IdleHasNoThread'
  BY <1>8
     DEF StopFlag, StopCloses, StopWaits, StopNoWait, StopDisablesPop, StopClears
<1> QED
  BY <1>3, <1>4, <1>5, <1>6, <1>7, <1>8, NextCases

LEMMA FlagsStep ==
  ASSUME IInv, [Next]_vars
  PROVE  FlagsAgree'
<1> USE DEF FlagsAgree, RunningTakesJobs, FlagOfStop, ClearedIsShut
<1>1. TypeOK /\ FlagsAgree
  BY DEF IInv
<1>2. ASSUME UNCHANGED <<flagVars, opc>> PROVE FlagsAgree'
  BY <1>1, <1>2 DEF flagVars
<1>3. CASE UNCHANGED vars
  BY <1>2, <1>3 DEF vars, flagVars
<1>4. ASSUME NEW j \in Jobs, EmplaceCheck(j) \/ EmplaceInsert(j) PROVE FlagsAgree'
  BY <1>2, <1>4 DEF EmplaceCheck, EmplaceInsert
<1>5. ASSUME NEW w \in Workers,
             \/ PopEnter(w) \/ PopJob(w) \/ PopNothing(w) \/ JobReturns(w)
             \/ AfterJob(w) \/ AfterFailedPop(w) \/ AddThread(w)
      PROVE  FlagsAgree'
  BY <1>2, <1>5 DEF PopEnter, PopJob, PopNothing, JobReturns, AfterJob,
                    AfterFailedPop, AddThread
<1>6. ASSUME NEW w \in Workers, Start(w) PROVE FlagsAgree'
  BY <1>6 DEF Start
<1>7. ASSUME StopFlag \/ StopCloses \/ StopWaits \/ StopNoWait PROVE FlagsAgree'
  BY <1>1, <1>7 DEF StopFlag, StopCloses, StopWaits, StopNoWait, flagVars
<1>8. ASSUME StopDisablesPop \/ StopClears \/ StopJoined PROVE FlagsAgree'
  BY <1>1, <1>8 DEF StopDisablesPop, StopClears, StopJoined, flagVars
<1> QED
  BY <1>3, <1>4, <1>5, <1>6, <1>7, <1>8, NextCases

LEMMA IInvStep == IInv /\ [Next]_vars => IInv'
BY TypeStep, PlaceStep, WorkingHasJobStep, IdleStep, FlagsStep DEF IInv

\* The inductive invariant holds in every reachable state.
THEOREM IInvHolds == Spec => []IInv
<1>1. Init => IInv
  BY InitIInv
<1>2. IInv /\ [Next]_vars => IInv'
  BY IInvStep
<1> QED
  BY <1>1, <1>2, PTL DEF Spec

-----------------------------------------------------------------------------
\* Every flag, queue, job status, thread and counter keeps its type.
THEOREM TypeCorrect == Spec => []TypeOK
<1>1. IInv => TypeOK
  BY DEF IInv
<1> QED
  BY <1>1, IInvHolds, PTL

\* No job is queued twice, run twice, or both queued and running
\* (sync_list.h:78-126, 177-190).
THEOREM OnePlaceCorrect == Spec => []JobsInOnePlace
<1>1. IInv => JobsInOnePlace
  BY DEF IInv
<1> QED
  BY <1>1, IInvHolds, PTL

\* After stop has returned there is no thread and no running job
\* (sync_list.h:186-189).
LEMMA QuietFromIInv == IInv => StoppedIsQuiet
<1> SUFFICES ASSUME IInv, opc = "idle"
             PROVE  /\ \A w \in Workers : wpc[w] = "none"
                    /\ \A j \in Jobs : status[j] # "running"
  BY DEF StoppedIsQuiet
<1>1. \A w \in Workers : wpc[w] = "none"
  BY DEF IInv, IdleHasNoThread
<1>2. \A w \in Workers : job[w] = NoJob
  BY <1>1 DEF IInv, WorkingHasJob
<1>3. ASSUME NEW j \in Jobs, status[j] = "running" PROVE FALSE
  <2>1. \E w \in Workers : job[w] = j
    BY <1>3 DEF IInv, JobsInOnePlace, OneWorker
  <2> QED
    BY <1>2, <2>1, JobThreadAssumption
<1> QED
  BY <1>1, <1>3

THEOREM StopIsQuiet == Spec => []StoppedIsQuiet
BY QuietFromIInv, IInvHolds, PTL

\* No job begins between the clear of stop(false) and the next start
\* (sync_list.h:180-184): what made it true is that popping is disabled first.
LEMMA NoBeginWhenShut ==
  ASSUME IInv, [Next]_vars,
         m_stop_flag = "STOP_NO_WAIT", opc \in {"join", "idle"},
         NEW j \in Jobs, status'[j] = "running"
  PROVE  status[j] = "running"
<1>1. TypeOK /\ ~m_enable_pop
  BY DEF IInv, FlagsAgree, ClearedIsShut
<1>2. CASE UNCHANGED status
  BY <1>2
<1>3. ASSUME NEW i \in Jobs, EmplaceCheck(i) \/ EmplaceInsert(i)
      PROVE  status[j] = "running"
  BY <1>1, <1>3 DEF EmplaceCheck, EmplaceInsert, TypeOK
<1>4. ASSUME NEW w \in Workers, JobReturns(w) PROVE status[j] = "running"
  BY <1>1, <1>4 DEF JobReturns, TypeOK
<1>5. ASSUME NEW w \in Workers, PopJob(w) PROVE FALSE
  BY <1>1, <1>5 DEF PopJob
<1>6. ASSUME NEW w \in Workers,
             \/ PopEnter(w) \/ PopNothing(w) \/ AfterJob(w)
             \/ AfterFailedPop(w) \/ Start(w) \/ AddThread(w)
      PROVE  UNCHANGED status
  BY <1>6 DEF PopEnter, PopNothing, AfterJob, AfterFailedPop, Start, AddThread
<1>7. ASSUME StopClears PROVE FALSE
  BY <1>7 DEF StopClears
<1>8. ASSUME \/ StopFlag \/ StopCloses \/ StopWaits \/ StopNoWait
             \/ StopDisablesPop \/ StopJoined
      PROVE  UNCHANGED status
  BY <1>8 DEF StopFlag, StopCloses, StopWaits, StopNoWait, StopDisablesPop, StopJoined
<1> QED
  BY <1>2, <1>3, <1>4, <1>5, <1>6, <1>7, <1>8, NextCases DEF vars

THEOREM ClearedJobsStayCleared == Spec => NoJobAfterClear
<1>1. IInv /\ [Next]_vars
        => [m_stop_flag = "STOP_NO_WAIT" /\ opc \in {"join", "idle"}
              => \A j \in Jobs : status'[j] = "running" => status[j] = "running"]_vars
  BY NoBeginWhenShut
<1> QED
  BY <1>1, IInvHolds, PTL DEF Spec, NoJobAfterClear

-----------------------------------------------------------------------------
\* The threads, the queue and the flags implement the abstract pool: the initial
\* state maps to its initial state and every step to one of its steps or to none.
MappedStep == Pool!PoolNext \/ UNCHANGED <<poolPhase, jobFate>>

LEMMA PoolStep ==
  ASSUME IInv, [Next]_vars
  PROVE  MappedStep
<1>1. TypeOK /\ JobsInOnePlace /\ WorkingHasJob /\ IdleHasNoThread /\ FlagsAgree
      /\ StoppedIsQuiet
  BY QuietFromIInv DEF IInv
<1>2. ASSUME UNCHANGED <<opc, m_enable_emplace, status>> PROVE MappedStep
  BY <1>2 DEF MappedStep, poolPhase, jobFate
<1>3. ASSUME NEW j \in Jobs, EmplaceCheck(j) PROVE MappedStep
  <2>1. UNCHANGED poolPhase
    BY <1>3 DEF EmplaceCheck, flagVars, poolPhase
  <2>2. CASE m_enable_emplace
    BY <1>1, <1>3, <2>1, <2>2 DEF MappedStep, EmplaceCheck, jobFate, TypeOK
  <2>3. CASE ~m_enable_emplace
    <3>1. poolPhase # "open"
      BY <1>1, <2>3 DEF poolPhase, FlagsAgree, RunningTakesJobs
    <3>2. jobFate[j] = "new" /\ jobFate' = [jobFate EXCEPT ![j] = "refused"]
      BY <1>1, <1>3, <2>3 DEF EmplaceCheck, jobFate, TypeOK
    <3> QED
      BY <2>1, <3>1, <3>2 DEF MappedStep, Pool!PoolNext, Pool!Refuse, Pool!Become
  <2> QED
    BY <2>2, <2>3
<1>4. ASSUME NEW j \in Jobs, EmplaceInsert(j) PROVE MappedStep
  <2>1. UNCHANGED poolPhase
    BY <1>4 DEF EmplaceInsert, flagVars, poolPhase
  <2>2. jobFate[j] = "new" /\ jobFate' = [jobFate EXCEPT ![j] = "queued"]
    BY <1>1, <1>4 DEF EmplaceInsert, jobFate, TypeOK
  <2> QED
    BY <2>1, <2>2 DEF MappedStep, Pool!PoolNext, Pool!Accept, Pool!Become
<1>5. ASSUME NEW w \in Workers, wpc[w] # "none", UNCHANGED <<opc, m_enable_emplace>>
      PROVE  poolPhase # "stopped" /\ UNCHANGED poolPhase
  BY <1>1, <1>5 DEF poolPhase, IdleHasNoThread
<1>6. ASSUME NEW w \in Workers, PopJob(w) PROVE MappedStep
  <2> DEFINE last == m_data[Len(m_data)]
  <2>1. Len(m_data) \in DOMAIN m_data /\ last \in Jobs
    BY <1>1, <1>6, PopBack DEF PopJob, TypeOK
  <2>2. status[last] = "queued"
    BY <1>1, <2>1 DEF JobsInOnePlace, Queued
  <2>3. poolPhase # "stopped" /\ UNCHANGED poolPhase
    BY <1>5, <1>6 DEF PopJob, Step, flagVars
  <2>4. jobFate[last] = "queued" /\ jobFate' = [jobFate EXCEPT ![last] = "running"]
    BY <1>1, <1>6, <2>1, <2>2 DEF PopJob, jobFate, TypeOK
  <2> QED
    BY <2>1, <2>3, <2>4 DEF MappedStep, Pool!PoolNext, Pool!Begin, Pool!Become
<1>7. ASSUME NEW w \in Workers, JobReturns(w) PROVE MappedStep
  <2>1. job[w] \in Jobs /\ status[job[w]] = "running"
    BY <1>1, <1>7 DEF JobReturns, Step, WorkingHasJob, JobsInOnePlace, TypeOK
  <2>2. poolPhase # "stopped" /\ UNCHANGED poolPhase
    BY <1>5, <1>7 DEF JobReturns, Step, flagVars
  <2>3. jobFate[job[w]] = "running" /\ jobFate' = [jobFate EXCEPT ![job[w]] = "done"]
    BY <1>1, <1>7, <2>1 DEF JobReturns, jobFate, TypeOK
  <2> QED
    BY <2>1, <2>2, <2>3 DEF MappedStep, Pool!PoolNext, Pool!Finish, Pool!Become
<1>8. ASSUME NEW w \in Workers, Start(w) PROVE MappedStep
  <2>1. poolPhase = "stopped" /\ poolPhase' = "open" /\ UNCHANGED jobFate
    BY <1>8 DEF Start, poolPhase, jobFate
  <2> QED
    BY <2>1 DEF MappedStep, Pool!PoolNext, Pool!Open
<1>9. ASSUME StopFlag PROVE MappedStep
  <2>1. UNCHANGED jobFate
    BY <1>9 DEF StopFlag, jobFate
  <2>2. CASE opc = "running"
    <3>1. UNCHANGED poolPhase
      BY <1>1, <1>9, <2>2 DEF StopFlag, poolPhase, FlagsAgree, RunningTakesJobs
    <3> QED
      BY <2>1, <3>1 DEF MappedStep
  <2>3. CASE opc = "idle"
    <3>1. poolPhase = "stopped" /\ poolPhase' \in {"open", "closing"}
      BY <1>9, <2>3 DEF StopFlag, poolPhase
    <3> QED
      BY <2>1, <3>1 DEF MappedStep, Pool!PoolNext, Pool!Open, Pool!Close
  <2> QED
    BY <1>9, <2>2, <2>3 DEF StopFlag
<1>10. ASSUME StopCloses PROVE MappedStep
  <2>1. /\ poolPhase \in {"open", "closing"} /\ poolPhase' = "closing"
        /\ UNCHANGED jobFate
    BY <1>10 DEF StopCloses, poolPhase, jobFate
  <2> QED
    BY <2>1 DEF MappedStep, Pool!PoolNext, Pool!Close
<1>11. ASSUME StopWaits \/ StopNoWait \/ StopDisablesPop PROVE MappedStep
  <2>1. UNCHANGED <<poolPhase, jobFate>>
    BY <1>11 DEF StopWaits, StopNoWait, StopDisablesPop, poolPhase, jobFate, flagVars
  <2> QED
    BY <2>1 DEF MappedStep
<1>12. ASSUME StopClears PROVE MappedStep
  <2>1. poolPhase = "closing" /\ UNCHANGED poolPhase
    BY <1>12 DEF StopClears, flagVars, poolPhase
  <2>2. jobFate' = [j \in Jobs |-> IF jobFate[j] = "queued" THEN "cleared" ELSE jobFate[j]]
    BY <1>1, <1>12 DEF StopClears, jobFate, TypeOK
  <2> QED
    BY <2>1, <2>2 DEF MappedStep, Pool!PoolNext, Pool!Discard
<1>13. ASSUME StopJoined PROVE MappedStep
  <2>1. poolPhase = "closing" /\ poolPhase' = "stopped" /\ UNCHANGED jobFate
    BY <1>13 DEF StopJoined, poolPhase, jobFate
  <2>2. \A w \in Workers : job[w] = NoJob
    BY <1>1, <1>13 DEF StopJoined, WorkingHasJob
  <2>3. \A j \in Jobs : jobFate[j] # "running"
    BY <1>1, <2>2, JobThreadAssumption DEF JobsInOnePlace, OneWorker, jobFate
  <2> QED
    BY <2>1, <2>3 DEF MappedStep, Pool!PoolNext, Pool!Stopped
<1>14. ASSUME NEW w \in Workers,
              \/ PopEnter(w) \/ PopNothing(w) \/ AfterJob(w)
              \/ AfterFailedPop(w) \/ AddThread(w)
       PROVE  MappedStep
  BY <1>2, <1>14
     DEF PopEnter, PopNothing, AfterJob, AfterFailedPop, AddThread, flagVars
<1>15. CASE UNCHANGED vars
  BY <1>2, <1>15 DEF vars
<1> QED
  BY <1>3, <1>4, <1>6, <1>7, <1>8, <1>9, <1>10, <1>11, <1>12, <1>13, <1>14, <1>15,
     NextCases

THEOREM JobThreadImplementsPool == Spec => ImplementsPool
<1>1. Init => Pool!PoolInit
  BY DEF Init, Pool!PoolInit, poolPhase, jobFate
<1>2. IInv /\ [Next]_vars => [Pool!PoolNext]_(Pool!poolVars)
  BY PoolStep DEF Pool!poolVars, MappedStep
<1> QED
  BY <1>1, <1>2, IInvHolds, PTL DEF Spec, ImplementsPool, Pool!PoolSpec
=============================================================================
