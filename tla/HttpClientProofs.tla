--------------------------- MODULE HttpClientProofs ---------------------------
(***************************************************************************)
(* Proofs about HttpClient, for any number of threads, any instances and   *)
(* any requests one after the other: one transfer at a time, with the      *)
(* options of its own request, provided that libcurl's CURLOPT_POST takes  *)
(* CURLOPT_UPLOAD back; and a query returns what the server holds, for any *)
(* limits of the numbers.                                                  *)
(***************************************************************************)
EXTENDS HttpClient, TLAPS

-----------------------------------------------------------------------------
\* The inductive invariant

Types ==
  /\ m_stopped \in BOOLEAN
  /\ m_lock_request \in Threads \cup {None}
  /\ handle \in Options
  /\ pc \in [Threads -> PCs] /\ call \in [Threads -> Operations]
  /\ data \in [Threads -> Held] /\ truth \in [Threads -> Held]
  /\ server \in Held

StatusTypes ==
  /\ DOMAIN response = Threads
  /\ reply.status \in Statuses /\ \A t \in Threads : response[t].status \in Statuses

\* A thread has the lock from the options it sets to the end of its transfer.
LockKept == \A t \in Threads : pc[t] \in {"perform", "receive"} => m_lock_request = t

\* A handle that sends data has been told whose.
ReadsFromSomebody ==
  handle.upload \/ handle.method \in {"POST", "PUT"} => handle.read \in Threads

IInv == Types /\ StatusTypes /\ LockKept /\ ReadsFromSomebody

-----------------------------------------------------------------------------
\* What the handle h of an operation is after its options have been set.
Asked(h, op) ==
  /\ Method(op) = "GET" => h.method = "GET" /\ h.custom = "" /\ h.upload = FALSE
  /\ Method(op) = "DELETE" => h.method = "GET" /\ h.custom = "DELETE" /\ h.upload = FALSE
  /\ Method(op) = "POST" => /\ h.method = "POST" /\ h.custom = ""
                            /\ h.upload = (handle.upload /\ ~PostClearsUpload)
                            /\ h.postSize = HasData(op)
  /\ Method(op) = "PUT" => /\ h.method = "PUT" /\ h.custom = "" /\ h.upload = TRUE
                           /\ HasData(op) => h.fileSize

\* Whatever was set before, only the upload flag of a POST and the sizes come from it.
LEMMA SetoptSets ==
  ASSUME Types, NEW t \in Threads
  PROVE  /\ Setopt(t) \in Options /\ Setopt(t).of = t /\ Asked(Setopt(t), call[t])
         /\ Method(call[t]) \in {"POST", "PUT"} => Setopt(t).read = t
<1> USE DEF Asked
<1> DEFINE op == call[t]
<1>1. handle \in Options /\ Method(op) \in {"GET", "DELETE", "POST", "PUT"} /\ HasData(op) \in BOOLEAN
  BY DEF Types, Method, HasData
<1>2. SetoptAll(t) \in Options /\ SetoptAll(t).of = t /\ SetoptAll(t).custom = ""
      /\ SetoptAll(t).upload = handle.upload
  BY <1>1 DEF SetoptAll, Options
<1>3. CASE Method(op) = "GET"
  BY <1>1, <1>2, <1>3 DEF Setopt, Options
<1>4. CASE Method(op) = "DELETE"
  BY <1>1, <1>2, <1>4 DEF Setopt, Options
<1>5. CASE Method(op) = "POST"
  BY <1>1, <1>2, <1>5, ClientAssumption DEF Setopt, Options
<1>6. CASE Method(op) = "PUT"
  BY <1>1, <1>2, <1>6 DEF Setopt, Options
<1> QED
  BY <1>1, <1>3, <1>4, <1>5, <1>6

\* The server's answers have one of the statuses, and it holds one instance or none.
LEMMA ServerAnswers ==
  ASSUME Types, ReadsFromSomebody
  PROVE  (\A r \in Replies(server) : r.status \in Statuses) /\ HeldAfter(server) \in Held
<1>1. \A r \in Replies(server) : r.status \in Statuses
  <2>1. \A s \in Statuses : \A b : Answer(s, b).status \in Statuses
    BY DEF Answer
  <2>2. {200, 204, 404, 405} \subseteq Statuses
    BY DEF Statuses
  <2> QED
    BY <2>1, <2>2 DEF Replies
<1>2. Verb = "POST" => handle.method = "POST"
  BY DEF Verb, Types, Options
<1>3. <<>> \in Held
  BY DEF Held, Ptr
<1> QED
  BY <1>1, <1>2, <1>3 DEF HeldAfter, ReadsFromSomebody, Types

\* At the start nothing is set and nobody requests.
LEMMA IInvInit == Init => IInv
<1> SUFFICES ASSUME Init PROVE IInv
  OBVIOUS
<1>1. <<>> \in Held /\ 0 \in Statuses /\ NoCall \in Operations
  BY DEF Held, Ptr, Statuses, NoCall, Operations
<1>2. Types
  BY <1>1 DEF Init, Types, Options, PCs
<1>3. StatusTypes
  BY <1>1 DEF Init, StatusTypes, NoAnswer, Answer
<1> QED
  BY <1>2, <1>3 DEF Init, IInv, LockKept, ReadsFromSomebody

-----------------------------------------------------------------------------
\* Calls, instances and options stay what they are.
LEMMA TypesStep == IInv /\ [Next]_vars => Types'
<1> SUFFICES ASSUME IInv, [Next]_vars PROVE Types'
  OBVIOUS
<1>0. Types /\ <<>> \in Held /\ NoCall \in Operations
  BY DEF IInv, Held, Ptr, NoCall, Operations
<1>1. CASE UNCHANGED vars \/ stop
  BY <1>0, <1>1 DEF vars, stop, Types
<1>2. ASSUME NEW t \in Threads, NEW op \in Operations, Request(t, op) PROVE Types'
  <2>1. \A i \in Instances : <<i>> \in Held
    BY DEF Held, Ptr
  <2> QED
    BY <1>0, <1>2, <2>1 DEF Request, Go, Types, PCs
<1>3. ASSUME NEW t \in Threads, Lock(t) PROVE Types'
  <2>1. handle' \in Options
    BY <1>0, <1>3, SetoptSets DEF Lock
  <2> QED
    BY <1>0, <1>3, <2>1 DEF Lock, Go, Types, PCs
<1>4. ASSUME NEW t \in Threads, Serve(t) PROVE Types'
  <2>1. server' \in Held
    BY <1>0, <1>4, ServerAnswers DEF Serve, IInv, Types
  <2> QED
    BY <1>0, <1>4, <2>1 DEF Serve, Go, Types, PCs
<1>5. ASSUME NEW t \in Threads, Receive(t) \/ Return(t) PROVE Types'
  BY <1>0, <1>5 DEF Receive, Return, Go, Types, PCs
<1>6. ASSUME NEW t \in Threads, Throw(t) PROVE Types'
  BY <1>0, <1>6 DEF Throw, Types, PCs
<1> QED
  BY <1>1, <1>2, <1>3, <1>4, <1>5, <1>6 DEF Next, Fail, Abort

\* A response has a status of the server's, or none yet.
LEMMA StatusStep == IInv /\ [Next]_vars => StatusTypes'
<1> SUFFICES ASSUME IInv, [Next]_vars PROVE StatusTypes'
  OBVIOUS
<1>0. /\ StatusTypes /\ NoAnswer.status \in Statuses /\ Answer(500, <<>>).status \in Statuses
      /\ \A r \in Replies(server) : r.status \in Statuses
  BY ServerAnswers DEF IInv, NoAnswer, Answer, Statuses
<1>1. ASSUME UNCHANGED <<reply, response>> PROVE StatusTypes'
  BY <1>0, <1>1 DEF StatusTypes
<1>2. ASSUME NEW t \in Threads, Serve(t) PROVE StatusTypes'
  BY <1>0, <1>2 DEF Serve, StatusTypes
<1>3. ASSUME NEW t \in Threads, Receive(t) PROVE StatusTypes'
  BY <1>0, <1>3 DEF Receive, StatusTypes
<1>4. ASSUME NEW t \in Threads, Throw(t) \/ Return(t) PROVE StatusTypes'
  BY <1>0, <1>4 DEF Throw, Return, StatusTypes
<1> QED
  BY <1>1, <1>2, <1>3, <1>4 DEF Next, Fail, Abort, vars, stop, Request, Lock

\* The lock is taken when nobody has it and given back when the transfer is over.
LEMMA LockStep == IInv /\ [Next]_vars => LockKept'
<1> SUFFICES ASSUME IInv, [Next]_vars PROVE LockKept'
  OBVIOUS
<1> USE ClientAssumption DEF IInv, Types, LockKept
<1>1. CASE UNCHANGED vars \/ stop
  BY <1>1 DEF vars, stop
<1>2. ASSUME NEW t \in Threads, NEW op \in Operations, Request(t, op) PROVE LockKept'
  BY <1>2 DEF Request, Go
<1>3. ASSUME NEW t \in Threads, Lock(t) \/ Serve(t) PROVE LockKept'
  BY <1>3 DEF Lock, Serve, Go
<1>4. ASSUME NEW t \in Threads, Receive(t) \/ Return(t) PROVE LockKept'
  BY <1>4 DEF Receive, Return, Go
<1>5. ASSUME NEW t \in Threads, Throw(t) PROVE LockKept'
  BY <1>5 DEF Throw
<1> QED
  BY <1>1, <1>2, <1>3, <1>4, <1>5 DEF Next, Fail, Abort

\* Options that make a handle send data come with their READDATA.
LEMMA ReadsStep == IInv /\ [Next]_vars => ReadsFromSomebody'
<1> SUFFICES ASSUME IInv, [Next]_vars PROVE ReadsFromSomebody'
  OBVIOUS
<1>1. ASSUME NEW t \in Threads, Lock(t) PROVE ReadsFromSomebody'
  <2>1. Method(call[t]) \in {"GET", "DELETE", "POST", "PUT"}
    BY DEF Method
  <2> QED
    BY <1>1, <2>1, SetoptSets DEF IInv, Lock, ReadsFromSomebody, Asked
<1>2. ASSUME UNCHANGED handle PROVE ReadsFromSomebody'
  BY <1>2 DEF IInv, ReadsFromSomebody
<1> QED
  BY <1>1, <1>2 DEF Next, Fail, Abort, Throw, vars, stop, Request, Serve, Receive, Return

\* The invariant holds in every reachable state.
THEOREM IInvHolds == Spec => []IInv
<1>1. IInv /\ [Next]_vars => IInv'
  BY TypesStep, StatusStep, LockStep, ReadsStep DEF IInv
<1> QED
  BY <1>1, IInvInit, PTL DEF Spec

\* Every reachable state has its type, and one request at a time is on the wire: whoever
\* is has m_lock_request (http_client.cpp:234-289).
THEOREM HttpClientTypeCorrect == Spec => []TypeOK
<1>1. IInv => TypeOK
  BY DEF IInv, Types, StatusTypes, LockKept, TypeOK
<1> QED
  BY <1>1, IInvHolds, PTL

-----------------------------------------------------------------------------
\* A transfer is what its request asked for, whatever requests the handle has made
\* before and whoever waits for it, provided that CURLOPT_POST takes CURLOPT_UPLOAD back,
\* as libcurl does from 7.86 on (http_client.cpp:234-289).
THEOREM TransfersAreOwn ==
  ASSUME PostClearsUpload
  PROVE  Spec => []OwnTransfer
<1>1. Init => OwnTransfer
  BY DEF Init, OwnTransfer
<1>2. IInv /\ OwnTransfer /\ [Next]_vars => OwnTransfer'
  <2> SUFFICES ASSUME IInv, OwnTransfer, [Next]_vars PROVE OwnTransfer'
    OBVIOUS
  <2>1. ASSUME NEW t \in Threads, Lock(t) PROVE OwnTransfer'
    <3> DEFINE op == call[t]
    <3>1. /\ handle' = Setopt(t) /\ call' = call /\ pc' = [pc EXCEPT ![t] = "perform"]
          /\ \A u \in Threads : pc[u] # "perform"
      BY <2>1, ClientAssumption DEF IInv, LockKept, Lock, Go
    <3>2. \A u \in Threads : pc'[u] = "perform" => u = t
      BY <3>1 DEF IInv, Types
    <3>3. Method(op) \in {"GET", "DELETE", "POST", "PUT"} /\ handle'.of = t
      BY <3>1, SetoptSets DEF IInv, Method
    <3>4. /\ Asked(handle', op) /\ (Method(op) \in {"POST", "PUT"} => handle'.read = t)
          /\ op = "register" => Method(op) = "POST" /\ HasData(op)
          /\ op = "put" => Method(op) = "PUT" /\ HasData(op)
      BY <3>1, SetoptSets DEF IInv, Method, HasData
    <3>5. /\ Verb' = Method(op) /\ (Uploads' <=> Method(op) \in {"POST", "PUT"})
          /\ (op = "register" => handle'.postSize) /\ (op = "put" => handle'.fileSize)
      BY <3>3, <3>4 DEF Asked, Verb, Uploads
    <3> QED
      BY <3>1, <3>2, <3>3, <3>4, <3>5 DEF OwnTransfer
  <2>2. ASSUME UNCHANGED handle,
               \A t \in Threads : pc'[t] = "perform" => pc[t] = "perform" /\ call'[t] = call[t]
        PROVE  OwnTransfer'
    <3>1. Verb' = Verb /\ Uploads' = Uploads
      BY <2>2 DEF Verb, Uploads
    <3> QED
      BY <2>2, <3>1 DEF OwnTransfer
  <2>3. CASE UNCHANGED vars \/ stop
    BY <2>2, <2>3 DEF vars, stop
  <2>4. ASSUME NEW t \in Threads, NEW op \in Operations, Request(t, op) PROVE OwnTransfer'
    BY <2>2, <2>4 DEF Request, Go, IInv, Types
  <2>5. ASSUME NEW t \in Threads, Serve(t) \/ Receive(t) \/ Return(t) PROVE OwnTransfer'
    BY <2>2, <2>5 DEF Serve, Receive, Return, Go, IInv, Types
  <2>6. ASSUME NEW t \in Threads, Throw(t) PROVE OwnTransfer'
    BY <2>2, <2>6 DEF Throw, IInv, Types
  <2> QED
    BY <2>1, <2>3, <2>4, <2>5, <2>6 DEF Next, Fail, Abort
<1> QED
  BY <1>1, <1>2, IInvHolds, PTL DEF Spec

-----------------------------------------------------------------------------
\* The conversions

\* An int fits an int.
LEMMA IntsStay ==
  ASSUME NEW n \in 0 .. IntLimit - 1
  PROVE  asInt(n) = n
<1> DEFINE m == 2 * IntLimit
           k == n + IntLimit
<1>1. IntLimit \in Nat \ {0}
  BY LimitsAssumption DEF Limits
<1>2. m \in Nat \ {0} /\ k \in 0 .. m - 1
  BY <1>1
<1>3. k % m = k
  <2> HIDE DEF m, k
  <2> QED
    BY <1>2
<1> QED
  BY <1>1, <1>3 DEF asInt

\* A number that a double has exactly is not rounded.
LEMMA DoublesStay ==
  ASSUME NEW n \in 0 .. DoubleLimit
  PROVE  asDouble(n) = n /\ n \in Int
<1>1. DoubleLimit \in Nat \ {0}
  BY LimitsAssumption DEF Limits
<1> QED
  BY <1>1 DEF asDouble

\* A number comes back as it was, also as the string of its digits, by jtoll if it is not
\* negative.
LEMMA NumbersBack ==
  ASSUME NEW n \in Int
  PROVE  /\ jtoi(number(n)) = n /\ jtoi(ScalarAsString(number(n))) = n
         /\ n >= 0 => jtoll(number(n)) = n /\ jtoll(ScalarAsString(number(n))) = n
BY DEF jtoi, jtoll, number, digits, ScalarAsString, kind

\* So does a boolean.
LEMMA BoolsBack ==
  ASSUME NEW b \in BOOLEAN
  PROVE  jtob(bool(b)) = b /\ jtob(ScalarAsString(bool(b))) = b
<1>1. jtob(bool(b)) = b
  BY DEF jtob, bool, kind
<1>2. jtob(ScalarAsString(bool(b))) = b
  BY DEF jtob, bool, string, kind, ScalarAsString
<1> QED
  BY <1>1, <1>2

\* So does a string, and the empty one also if it is sent as null.
LEMMA StringsBack ==
  ASSUME NEW s \in STRING
  PROVE  LET j == IF s = "" THEN null ELSE string(s)
         IN  /\ string_value(string(s)) = s /\ string_value(FieldsAsStrings(string(s))) = s
             /\ string_value(j) = s /\ string_value(FieldsAsStrings(j)) = s
BY DEF string_value, string, null, kind, FieldsAsStrings, ScalarAsString

\* A pointer to a port, or to none.
LEMMA PortBack ==
  ASSUME NEW p \in Ptr(Port)
  PROVE  LET j == ptr_to_json(p, port_to_json(p[1]))
         IN  /\ load_ptr(j, load_port(j[2])) = p
             /\ load_ptr(FieldsAsStrings(j), load_port(FieldsAsStrings(j)[2])) = p
<1> DEFINE j == ptr_to_json(p, port_to_json(p[1]))
<1>1. CASE p = <<>>
  BY <1>1 DEF ptr_to_json, load_ptr, null, FieldsAsStrings, ScalarAsString, kind
<1>2. ASSUME NEW x \in Port, p = <<x>>
      PROVE  /\ load_ptr(j, load_port(j[2])) = p
             /\ load_ptr(FieldsAsStrings(j), load_port(FieldsAsStrings(j)[2])) = p
  <2>1. /\ j = object(port_to_json(x)) /\ j # null /\ j[2] = port_to_json(x)
        /\ kind(j) = "object"
    BY <1>2 DEF ptr_to_json, object, null, kind
  <2>2. load_port(port_to_json(x)) = x
    BY NumbersBack, BoolsBack DEF load_port, port_to_json, Port, Signed
  <2>3. /\ FieldsAsStrings(j) = object([f \in DOMAIN j[2] |-> ScalarAsString(j[2][f])])
        /\ FieldsAsStrings(j) # null
    BY <2>1 DEF FieldsAsStrings, object, null
  <2>4. load_port([f \in DOMAIN port_to_json(x) |-> ScalarAsString(port_to_json(x)[f])]) = x
    BY NumbersBack, BoolsBack DEF load_port, port_to_json, Port, Signed
  <2> QED
    BY <1>2, <2>1, <2>2, <2>3, <2>4 DEF load_ptr, object
<1> QED
  BY <1>1, <1>2 DEF Ptr
\* A pointer to a lease whose period is an int, or to none.
LEMMA LeaseBack ==
  ASSUME NEW l \in Ptr(LeaseInfo),
         l # <<>> => l[1].renewalIntervalInSecs \in 0 .. IntLimit - 1
  PROVE  LET j == ptr_to_json(l, lease_to_json(l[1]))
         IN  /\ load_ptr(j, load_lease(j[2])) = l
             /\ load_ptr(FieldsAsStrings(j), load_lease(FieldsAsStrings(j)[2])) = l
<1> DEFINE j == ptr_to_json(l, lease_to_json(l[1]))
<1>1. CASE l = <<>>
  BY <1>1 DEF ptr_to_json, load_ptr, null, FieldsAsStrings, ScalarAsString, kind
<1>2. ASSUME NEW x \in LeaseInfo, l = <<x>>
      PROVE  /\ load_ptr(j, load_lease(j[2])) = l
             /\ load_ptr(FieldsAsStrings(j), load_lease(FieldsAsStrings(j)[2])) = l
  <2> DEFINE n == x.renewalIntervalInSecs
  <2>1. /\ j = object(lease_to_json(x)) /\ j # null /\ j[2] = lease_to_json(x)
        /\ kind(j) = "object"
    BY <1>2 DEF ptr_to_json, object, null, kind
  <2>2. n \in 0 .. IntLimit - 1 /\ n \in Int /\ n >= 0 /\ asInt(n) = n
    BY <1>2, IntsStay, LimitsAssumption DEF Limits
  <2>3. jtoll(number(n)) = n /\ jtoll(ScalarAsString(number(n))) = n
    BY <2>2, NumbersBack
  <2>4. lease_to_json(x) = [renewalIntervalInSecs |-> number(n)]
    BY <2>2 DEF lease_to_json
  <2>5. load_lease(lease_to_json(x)) = x
    BY <2>3, <2>4 DEF load_lease, LeaseInfo
  <2>6. /\ FieldsAsStrings(j) = object([f \in DOMAIN j[2] |-> ScalarAsString(j[2][f])])
        /\ FieldsAsStrings(j) # null
    BY <2>1 DEF FieldsAsStrings, object, null
  <2>7. load_lease([f \in DOMAIN lease_to_json(x) |-> ScalarAsString(lease_to_json(x)[f])]) = x
    BY <2>3, <2>4 DEF load_lease, LeaseInfo
  <2> QED
    BY <1>2, <2>1, <2>5, <2>6, <2>7 DEF load_ptr, object
<1> QED
  BY <1>1, <1>2 DEF Ptr

\* An instance whose numbers survive comes back from its JSON, in either form, field by
\* field: load is the inverse of to_json (s11n_types.h:14-159).
THEOREM InstanceBack ==
  ASSUME NEW i \in InstanceInfo, Survives(i), NEW j \in {to_json(i), AsStrings(to_json(i))}
  PROVE  toInstances(j) = <<i>>
<1> DEFINE o == to_json(i)[2]
           n == i.lastUpdatedTimestamp
           strings == [f \in DOMAIN o |-> FieldsAsStrings(o[f])]
<1>1. /\ o.port = ptr_to_json(i.port, port_to_json(i.port[1]))
      /\ o.leaseInfo = ptr_to_json(i.leaseInfo, lease_to_json(i.leaseInfo[1]))
      /\ o.lastUpdatedTimestamp = number(asDouble(n))
      /\ o.status = string(i.status)
      /\ o.actionType = IF i.actionType = "" THEN null ELSE string(i.actionType)
      /\ DOMAIN o = {"port", "leaseInfo", "lastUpdatedTimestamp", "status", "actionType"}
      /\ to_json(i) = object(o)
  BY DEF to_json, object
<1>2. /\ i.port \in Ptr(Port) /\ i.leaseInfo \in Ptr(LeaseInfo)
      /\ i.status \in STRING /\ i.actionType \in STRING
      /\ i = [port |-> i.port, leaseInfo |-> i.leaseInfo, lastUpdatedTimestamp |-> n,
              status |-> i.status, actionType |-> i.actionType]
  BY DEF InstanceInfo
<1>3. n \in Int /\ n >= 0 /\ asDouble(n) = n
  BY DoublesStay, LimitsAssumption DEF Survives, Limits
<1> HIDE DEF o
<1>4. \A g \in {o.port, FieldsAsStrings(o.port)} : load_ptr(g, load_port(g[2])) = i.port
  BY <1>1, <1>2, PortBack
<1>5. \A g \in {o.leaseInfo, FieldsAsStrings(o.leaseInfo)} :
        load_ptr(g, load_lease(g[2])) = i.leaseInfo
  BY <1>1, <1>2, LeaseBack DEF Survives
<1>6. \A g \in {o.lastUpdatedTimestamp, FieldsAsStrings(o.lastUpdatedTimestamp)} : jtoll(g) = n
  <2>1. FieldsAsStrings(number(n)) = ScalarAsString(number(n))
    BY DEF FieldsAsStrings, number, kind
  <2>2. o.lastUpdatedTimestamp = number(n)
    BY <1>1, <1>3
  <2>3. jtoll(number(n)) = n /\ jtoll(ScalarAsString(number(n))) = n
    BY <1>3, NumbersBack
  <2> QED
    BY <2>1, <2>2, <2>3
<1>7. \A g \in {o.status, FieldsAsStrings(o.status)} : string_value(g) = i.status
  BY <1>1, <1>2, StringsBack
<1>8. \A g \in {o.actionType, FieldsAsStrings(o.actionType)} : string_value(g) = i.actionType
  BY <1>1, <1>2, StringsBack
<1>9. load_instance(o) = i
  BY <1>2, <1>4, <1>5, <1>6, <1>7, <1>8 DEF load_instance
<1>10. load_instance(strings) = i
  <2>1. /\ strings.port = FieldsAsStrings(o.port)
        /\ strings.leaseInfo = FieldsAsStrings(o.leaseInfo)
        /\ strings.lastUpdatedTimestamp = FieldsAsStrings(o.lastUpdatedTimestamp)
        /\ strings.status = FieldsAsStrings(o.status)
        /\ strings.actionType = FieldsAsStrings(o.actionType)
    BY <1>1
  <2> HIDE DEF strings
  <2> QED
    BY <1>2, <1>4, <1>5, <1>6, <1>7, <1>8, <2>1 DEF load_instance
<1>11. j \in {object(o), object(strings)}
  <2>1. object(o)[2] = o
    BY DEF object
  <2>2. AsStrings(object(o)) = object(strings)
    BY <2>1 DEF AsStrings
  <2> QED
    BY <1>1, <2>2
<1> HIDE DEF strings
<1>12. j # null /\ load_instance(j[2]) = i
  BY <1>9, <1>10, <1>11 DEF object, null
<1> QED
  BY <1>12 DEF toInstances, load_ptr

\* Of one sequence.
LEMMA FlattenOne ==
  ASSUME NEW T, NEW s \in Seq(T)
  PROVE  FlattenSeq(<<s>>) = s
<1> DEFINE f == [k \in 1 .. 1 |-> s]
<1>1. Len(<<s>>) = 1 /\ <<s>>[1] = s
  OBVIOUS
<1>2. f = [k \in 1 .. 1 |-> IF k = 1 THEN <<s>>[k] ELSE f[k - 1] \o <<s>>[k]]
  BY <1>1
<1> DEFINE flatten == CHOOSE g : g = [k \in 1 .. Len(<<s>>) |->
                          IF k = 1 THEN <<s>>[k] ELSE g[k - 1] \o <<s>>[k]]
<1>3. flatten = [k \in 1 .. 1 |-> IF k = 1 THEN <<s>>[k] ELSE flatten[k - 1] \o <<s>>[k]]
  BY <1>1, <1>2, Zenon
<1>4. flatten[1] = s
  <2> HIDE DEF flatten
  <2> QED
    BY <1>1, <1>3
<1> QED
  BY <1>1, <1>4 DEF FlattenSeq

\* Of none.
LEMMA FlattenNone == FlattenSeq(<<>>) = <<>>
BY DEF FlattenSeq

\* And comes back from the answers about an application and about all of them.
LEMMA QueriesBack ==
  ASSUME NEW i \in InstanceInfo, Survives(i), NEW j \in {to_json(i), AsStrings(to_json(i))}
  PROVE  /\ toAppInstances(<<j>>) = <<i>>
         /\ toAppsInstances(<<<<j>>>>) = <<i>>
<1>1. toInstances(j) = <<i>> /\ <<i>> \in Seq(InstanceInfo)
  BY InstanceBack
<1>2. toAppInstances(<<j>>) = <<i>>
  <2>1. [k \in DOMAIN <<j>> |-> toInstances(<<j>>[k])] = <<<<i>>>>
    BY <1>1
  <2> QED
    BY <1>1, <2>1, FlattenOne DEF toAppInstances
<1>3. [k \in DOMAIN <<<<j>>>> |-> toAppInstances(<<<<j>>>>[k])] = <<<<i>>>>
  BY <1>2
<1> QED
  BY <1>1, <1>2, <1>3, FlattenOne DEF toAppsInstances

-----------------------------------------------------------------------------
\* Queries

\* r is what a server said of truth[t] to a query of t.
Said(t, r) ==
  r.status = 200 =>
    /\ truth[t] # <<>> \/ Path(call[t]) = "apps"
    /\ \E js \in Forms(truth[t]) : r.body = Bodies(Path(call[t]), js)

\* The answer to a query, first on its way and then in the response of its own thread.
QueryKnows(t) ==
  /\ pc[t] \in {"perform", "receive"} => handle.of = t
  /\ Method(call[t]) = "GET" =>
       /\ pc[t] = "perform" => Verb = "GET"
       /\ pc[t] = "receive" => Said(t, reply)
       /\ pc[t] = "returned" => Said(t, response[t])

QueriesKnow == \A t \in Threads : QueryKnows(t)

\* The answers to a query that say anything are about what the server holds.
LEMMA QueryIsAnswered ==
  ASSUME NEW t \in Threads, call[t] \in Operations, handle.of = t,
         Method(call[t]) = "GET", Verb = "GET", NEW r \in Replies(server), r.status = 200
  PROVE  /\ server # <<>> \/ Path(call[t]) = "apps"
         /\ \E js \in Forms(server) : r.body = Bodies(Path(call[t]), js)
<1> DEFINE path == Path(call[t])
<1>1. path \in {"instance", "app", "apps"}
  BY DEF Path, Method, Operations
<1>2. path = Path(call[handle.of])
  OBVIOUS
<1> HIDE DEF path
<1>3. CASE server = <<>> /\ path # "apps"
  <2>1. r = Answer(404, <<>>)
    BY <1>1, <1>2, <1>3 DEF Replies
  <2> QED
    BY <2>1 DEF Answer
<1>4. CASE server # <<>> \/ path = "apps"
  <2>1. PICK js \in Forms(server) : r = Answer(200, Bodies(path, js))
    BY <1>1, <1>2, <1>4 DEF Replies
  <2> QED
    BY <1>4, <2>1 DEF Answer, path
<1> QED
  BY <1>3, <1>4

\* A thread that is not concerned knows what it knew.
LEMMA OthersKnow ==
  ASSUME NEW u \in Threads, QueryKnows(u), pc'[u] = pc[u], call'[u] = call[u],
         truth'[u] = truth[u], response'[u] = response[u],
         pc[u] \in {"perform", "receive"} => UNCHANGED <<handle, reply>>
  PROVE  QueryKnows(u)'
<1>1. CASE pc[u] = "perform"
  <2>1. Verb' = Verb /\ handle' = handle
    BY <1>1 DEF Verb
  <2> QED
    BY <1>1, <2>1 DEF QueryKnows
<1>2. CASE pc[u] = "receive"
  BY <1>2 DEF QueryKnows, Said
<1>3. CASE pc[u] \notin {"perform", "receive"}
  BY <1>3 DEF QueryKnows, Said
<1> QED
  BY <1>1, <1>2, <1>3

\* The lock keeps the handle and the answer for the thread that asked.
LEMMA QueriesStep == IInv /\ QueriesKnow /\ [Next]_vars => QueriesKnow'
<1> SUFFICES ASSUME IInv, QueriesKnow, [Next]_vars, NEW u \in Threads
             PROVE  QueryKnows(u)'
  BY DEF QueriesKnow
<1>0. /\ Types /\ DOMAIN response = Threads /\ QueryKnows(u) /\ LockKept
      /\ call[u] \in Operations
  BY DEF IInv, Types, StatusTypes, QueriesKnow
<1>1. CASE UNCHANGED vars \/ stop
  BY <1>0, <1>1, OthersKnow DEF vars, stop
<1>2. ASSUME NEW t \in Threads, t # u, m_lock_request \in {t, None},
             pc' = [pc EXCEPT ![t] = pc'[t]], call'[u] = call[u], truth'[u] = truth[u],
             response'[u] = response[u]
      PROVE  QueryKnows(u)'
  <2>1. pc[u] \notin {"perform", "receive"}
    BY <1>0, <1>2, ClientAssumption DEF LockKept
  <2>2. pc'[u] = pc[u]
    BY <1>0, <1>2 DEF Types
  <2> QED
    BY <1>0, <1>2, <2>1, <2>2, OthersKnow
<1>3. ASSUME NEW t \in Threads, pc' = [pc EXCEPT ![t] = pc'[t]], t = u,
             pc'[t] \notin {"perform", "receive", "returned"}
      PROVE  QueryKnows(u)'
  BY <1>3 DEF QueryKnows
<1>4. ASSUME NEW t \in Threads, NEW op \in Operations, Request(t, op) PROVE QueryKnows(u)'
  <2>1. CASE t = u
    BY <1>0, <1>4, <2>1 DEF Request, Go, Types, QueryKnows
  <2>2. CASE t # u
    <3>1. /\ pc'[u] = pc[u] /\ call'[u] = call[u]
          /\ UNCHANGED <<truth, response, handle, reply>>
      BY <1>0, <1>4, <2>2 DEF Request, Go, Types
    <3> QED
      BY <1>0, <3>1, OthersKnow
  <2> QED
    BY <2>1, <2>2
<1>5. ASSUME NEW t \in Threads, Lock(t) PROVE QueryKnows(u)'
  <2>1. /\ m_lock_request = None /\ pc' = [pc EXCEPT ![t] = "perform"]
        /\ handle' = Setopt(t) /\ UNCHANGED <<call, truth, response>>
    BY <1>5 DEF Lock, Go
  <2>2. CASE t = u
    <3>1. pc'[u] = "perform" /\ handle'.of = u /\ Asked(handle', call[u])
      BY <1>0, <2>1, <2>2, SetoptSets DEF Types
    <3>2. Method(call[u]) = "GET" => Verb' = "GET"
      BY <3>1 DEF Asked, Verb
    <3> QED
      BY <2>1, <3>1, <3>2 DEF QueryKnows
  <2>3. CASE t # u
    <3>1. pc'[t] = "perform"
      BY <1>0, <2>1 DEF Types
    <3> QED
      BY <1>2, <2>1, <2>3, <3>1
  <2> QED
    BY <2>2, <2>3
<1>6. ASSUME NEW t \in Threads, Serve(t) PROVE QueryKnows(u)'
  <2>1. /\ pc[t] = "perform" /\ pc' = [pc EXCEPT ![t] = "receive"]
        /\ truth' = [truth EXCEPT ![t] = IF Method(call[t]) = "GET" THEN server ELSE @]
        /\ UNCHANGED <<handle, call, response>>
        /\ reply' = Answer(500, <<>>) \/ reply' \in Replies(server)
    BY <1>6 DEF Serve, Go
  <2>2. CASE t = u
    <3>1. pc'[u] = "receive" /\ handle'.of = u
      BY <1>0, <2>1, <2>2 DEF Types, QueryKnows
    <3>2. ASSUME Method(call[u]) = "GET" PROVE Said(u, reply)'
      <4>1. truth'[u] = server /\ handle.of = u /\ Verb = "GET"
        BY <1>0, <2>1, <2>2, <3>2 DEF Types, QueryKnows
      <4>2. CASE reply' = Answer(500, <<>>)
        BY <4>2 DEF Answer, Said
      <4>3. CASE reply' \in Replies(server)
        <5> SUFFICES ASSUME reply'.status = 200
                     PROVE  /\ server # <<>> \/ Path(call[u]) = "apps"
                            /\ \E js \in Forms(server) : reply'.body = Bodies(Path(call[u]), js)
          BY <2>1, <4>1 DEF Said
        <5> QED
          BY <1>0, <3>2, <4>1, <4>3, QueryIsAnswered
      <4> QED
        BY <2>1, <4>2, <4>3
    <3> QED
      BY <2>1, <3>1, <3>2 DEF QueryKnows
  <2>3. CASE t # u
    <3>1. m_lock_request = t /\ pc'[t] = "receive" /\ truth'[u] = truth[u]
      BY <1>0, <2>1, <2>3 DEF Types, LockKept
    <3> QED
      BY <1>2, <2>1, <2>3, <3>1
  <2> QED
    BY <2>2, <2>3
<1>7. ASSUME NEW t \in Threads, Receive(t) PROVE QueryKnows(u)'
  <2>1. /\ pc[t] = "receive" /\ pc' = [pc EXCEPT ![t] = "returned"]
        /\ response' = [response EXCEPT ![t] = reply] /\ UNCHANGED <<call, truth>>
        /\ m_lock_request = t
    BY <1>0, <1>7 DEF Receive, Go, QueriesKnow, QueryKnows, LockKept
  <2>2. CASE t = u
    <3>1. pc'[u] = "returned" /\ response'[u] = reply
      BY <1>0, <2>1, <2>2 DEF Types
    <3> QED
      BY <1>0, <2>1, <2>2, <3>1 DEF QueryKnows, Said
  <2>3. CASE t # u
    <3>1. pc'[t] = "returned" /\ response'[u] = response[u]
      BY <1>0, <2>1, <2>3 DEF Types
    <3> QED
      BY <1>2, <2>1, <2>3, <3>1
  <2> QED
    BY <2>2, <2>3
<1>8. ASSUME NEW t \in Threads, Throw(t) PROVE QueryKnows(u)'
  <2>1. /\ m_lock_request = t /\ pc' = [pc EXCEPT ![t] = "idle"]
        /\ call' = [call EXCEPT ![t] = NoCall] /\ truth' = [truth EXCEPT ![t] = <<>>]
        /\ response' = [response EXCEPT ![t] = NoAnswer]
    BY <1>0, <1>8 DEF Throw, LockKept
  <2>2. pc'[t] = "idle"
    BY <1>0, <2>1 DEF Types
  <2>3. CASE t # u
    <3>1. call'[u] = call[u] /\ truth'[u] = truth[u] /\ response'[u] = response[u]
      BY <1>0, <2>1, <2>3 DEF Types
    <3> QED
      BY <1>2, <2>1, <2>2, <2>3, <3>1
  <2> QED
    BY <1>3, <2>1, <2>2, <2>3
<1>9. ASSUME NEW t \in Threads, Return(t) PROVE QueryKnows(u)'
  <2>1. /\ pc' = [pc EXCEPT ![t] = "idle"] /\ UNCHANGED <<handle, reply>>
        /\ call' = [call EXCEPT ![t] = NoCall] /\ truth' = [truth EXCEPT ![t] = <<>>]
        /\ response' = [response EXCEPT ![t] = NoAnswer]
    BY <1>9 DEF Return, Go
  <2>2. CASE t = u
    BY <1>0, <2>1, <2>2 DEF Types, QueryKnows
  <2>3. CASE t # u
    <3>1. /\ pc'[u] = pc[u] /\ call'[u] = call[u] /\ truth'[u] = truth[u]
          /\ response'[u] = response[u]
      BY <1>0, <2>1, <2>3 DEF Types
    <3> QED
      BY <1>0, <2>1, <3>1, OthersKnow
  <2> QED
    BY <2>2, <2>3
<1> QED
  BY <1>1, <1>4, <1>5, <1>6, <1>7, <1>8, <1>9 DEF Next, Fail, Abort

\* What a query makes of an answer is what the answer says.
LEMMA SaidIsQueried ==
  ASSUME NEW t \in Threads, IInv, Method(call[t]) = "GET", response[t].status = 200,
         Said(t, response[t]), \A k \in DOMAIN truth[t] : Survives(truth[t][k])
  PROVE  Queried(t) = truth[t]
<1> DEFINE op == call[t]
<1>1. op \in {"query", "queryApp", "queryAll"} /\ truth[t] \in Held
  BY DEF IInv, Types, Method, Operations
<1>2. PICK js \in Forms(truth[t]) : response[t].body = Bodies(Path(op), js)
  BY DEF Said
<1>3. truth[t] # <<>> \/ op = "queryAll"
  BY <1>1 DEF Said, Path
<1>4. CASE truth[t] = <<>>
  <2>1. op = "queryAll" /\ js = <<>>
    BY <1>3, <1>4 DEF Forms
  <2>2. response[t].body = <<"apps", <<>>>> /\ Path(op) = "apps"
    BY <1>2, <2>1 DEF Path, Bodies
  <2>3. toAppsInstances(<<>>) = <<>>
    <3>1. [k \in DOMAIN <<>> |-> toAppInstances(<<>>[k])] = <<>>
      OBVIOUS
    <3> QED
      BY <3>1, FlattenNone DEF toAppsInstances
  <2> QED
    BY <1>4, <2>1, <2>2, <2>3 DEF Queried
<1>5. ASSUME NEW i \in Instances, truth[t] = <<i>> PROVE Queried(t) = truth[t]
  <2>1. i \in InstanceInfo /\ Survives(i)
    BY <1>5, ClientAssumption
  <2>2. PICK j \in {to_json(i), AsStrings(to_json(i))} : js = <<j>>
    BY <1>5 DEF Forms
  <2>3. /\ toInstances(j) = <<i>> /\ toAppInstances(<<j>>) = <<i>>
        /\ toAppsInstances(<<<<j>>>>) = <<i>>
    BY <2>1, <2>2, InstanceBack, QueriesBack
  <2>4. CASE op = "query"
    <3>1. response[t].body = <<"instance", j>> /\ Path(op) = "instance"
      BY <1>2, <2>2, <2>4 DEF Path, Bodies
    <3> QED
      BY <1>5, <2>3, <2>4, <3>1 DEF Queried
  <2>5. CASE op = "queryApp"
    <3>1. response[t].body = <<"app", <<j>>>> /\ Path(op) = "app"
      BY <1>2, <2>2, <2>5 DEF Path, Bodies
    <3> QED
      BY <1>5, <2>3, <2>5, <3>1 DEF Queried
  <2>6. CASE op = "queryAll"
    <3>1. response[t].body = <<"apps", <<<<j>>>>>> /\ Path(op) = "apps"
      BY <1>2, <2>2, <2>6 DEF Path, Bodies
    <3> QED
      BY <1>5, <2>3, <2>6, <3>1 DEF Queried
  <2> QED
    BY <1>1, <2>4, <2>5, <2>6
<1> QED
  BY <1>1, <1>4, <1>5 DEF Held, Ptr

\* A query that is answered returns the instance the server held as it was registered,
\* with either libcurl, if its numbers survive a double: the answer comes over the handle
\* to the thread that asked, and each conversion is taken back by the one that reads it
\* (s11n.h:36-78, s11n_types.h:14-159, eureka_connect.cpp:19-76, 205-217).
THEOREM QueriesReturnRegistered == Spec => []QueriedIsRegistered
<1>1. Init => QueriesKnow
  BY DEF Init, QueriesKnow, QueryKnows
<1>2. IInv /\ QueriesKnow => QueriedIsRegistered
  BY SaidIsQueried DEF QueriesKnow, QueryKnows, QueriedIsRegistered
<1> QED
  BY <1>1, <1>2, QueriesStep, IInvHolds, PTL DEF Spec
=============================================================================
