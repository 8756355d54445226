------------------------------ MODULE HttpClient ------------------------------
(***************************************************************************)
(* One HttpClient used by several threads (http_client.cpp; a client made  *)
(* by create_client, "if not pool, concurrent requests will sequential",   *)
(* http_client.h:56), with the requests EurekaConnect and a program make:  *)
(* registerIns, unregisterIns, sendHeart, the queries, and a PUT with      *)
(* data.  The options of the curl handle stay from request to request; a   *)
(* transfer uses whatever they are.  The Eureka server holds at most one   *)
(* instance; it may not answer, and answers may get lost.  setEndpoint is  *)
(* in module HttpClientPool.                                               *)
(***************************************************************************)
EXTENDS InstanceJson, FiniteSets

CONSTANTS
  Threads,
  None,
  Instances,        \* InstanceInfos that are registered
  PostClearsUpload  \* whether CURLOPT_POST takes CURLOPT_UPLOAD back (libcurl 7.86)

ASSUME ClientAssumption ==
  Instances \subseteq InstanceInfo /\ PostClearsUpload \in BOOLEAN /\ None \notin Threads

VARIABLES
  m_stopped,
  m_lock_request,  \* the thread that holds it, or None
  handle,          \* the options of the curl handle
  pc,
  call,            \* per thread: its operation
  data,            \* per thread: the instance it registers
  reply,           \* the server's answer to the transfer under way
  response,        \* per thread: what its GetResponse holds
  server,          \* the instance it holds, the last that was posted
  truth            \* per thread: what the server held when it answered its query

vars == <<m_stopped, m_lock_request, handle, pc, call, data, reply, response,
          server, truth>>

Operations == {"register", "unregister", "heart", "query", "queryApp", "queryAll", "put"}
Method(op) ==
  CASE op = "register" -> "POST"
    [] op = "unregister" -> "DELETE"
    [] op \in {"heart", "put"} -> "PUT"
    [] OTHER -> "GET"
Path(op) ==
  CASE op \in {"register", "queryApp"} -> "app"
    [] op \in {"unregister", "heart", "query"} -> "instance"
    [] op = "queryAll" -> "apps"
    [] OTHER -> "own"
HasData(op) == op \in {"register", "put"}

Held == Ptr(Instances)
NoCall == "heart"   \* of a thread that makes none
\* A body is the path whose GET it answers, and what it says, if there is one.
Answer(status, body) == [status |-> status, body |-> body]
NoAnswer == Answer(0, <<>>)
Forms(h) ==
  {[k \in DOMAIN h |-> to_json(h[k])], [k \in DOMAIN h |-> AsStrings(to_json(h[k]))]}
Bodies(path, js) ==
  CASE path = "instance" -> <<path, js[1]>>
    [] path = "app" -> <<path, js>>
    [] path = "apps" -> <<path, IF js = <<>> THEN <<>> ELSE <<js>>>>
Options ==
  [of : Threads \cup {None},     \* whose URL, WRITEDATA and HEADERDATA are set
   read : Threads \cup {None},   \* whose READDATA
   method : {"GET", "POST", "PUT"}, custom : {"", "DELETE"}, upload : BOOLEAN,
   postSize : BOOLEAN, fileSize : BOOLEAN]   \* whether the size of data is set
PCs == {"idle", "url", "perform", "receive", "returned"}
Statuses == {0, 200, 204, 404, 405, 500}

TypeOK ==
  /\ m_stopped \in BOOLEAN
  /\ m_lock_request \in Threads \cup {None}
  /\ handle \in Options
  /\ pc \in [Threads -> PCs] /\ call \in [Threads -> Operations]
  /\ data \in [Threads -> Held] /\ truth \in [Threads -> Held]
  /\ server \in Held
  /\ reply.status \in Statuses /\ \A t \in Threads : response[t].status \in Statuses
  /\ \A t \in Threads : pc[t] \in {"perform", "receive"} => m_lock_request = t

\* After start.
Init ==
  /\ m_stopped = FALSE /\ m_lock_request = None
  /\ handle = [of |-> None, read |-> None,
               method |-> "GET", custom |-> "", upload |-> FALSE,
               postSize |-> FALSE, fileSize |-> FALSE]
  /\ pc = [t \in Threads |-> "idle"] /\ call = [t \in Threads |-> NoCall]
  /\ data = [t \in Threads |-> <<>>] /\ truth = [t \in Threads |-> <<>>]
  /\ reply = NoAnswer /\ response = [t \in Threads |-> NoAnswer]
  /\ server = <<>>

Go(t, from, to) == pc[t] = from /\ pc' = [pc EXCEPT ![t] = to]

-----------------------------------------------------------------------------
\* An operation converts its instance and builds the URL, under m_lock_param.
Request(t, op) ==
  /\ Go(t, "idle", "url")
  /\ call' = [call EXCEPT ![t] = op]
  /\ IF op = "register"
       THEN \E i \in Instances : data' = [data EXCEPT ![t] = <<i>>]
       ELSE UNCHANGED data
  /\ UNCHANGED <<m_stopped, m_lock_request, handle, reply, response, server, truth>>

\* Mutated form: a method of its own that the request before has set is not taken back.
SetoptAllKeeps(t) == [handle EXCEPT !.of = t]

\* The options every request sets, and those that depend on the method; the others stay.
SetoptAll(t) == [handle EXCEPT !.of = t, !.custom = ""]

Setopt(t) ==
  LET op == call[t]
      all == SetoptAll(t)
      get == [all EXCEPT !.method = "GET", !.upload = FALSE]
  IN  CASE Method(op) = "GET" -> get
        [] Method(op) = "DELETE" -> [get EXCEPT !.custom = "DELETE"]
        [] Method(op) = "POST" ->
             [all EXCEPT !.method = "POST", !.upload = @ /\ ~PostClearsUpload,
                         !.postSize = HasData(op), !.read = t]
        [] Method(op) = "PUT" ->
             [all EXCEPT !.method = "PUT", !.upload = TRUE, !.fileSize = @ \/ HasData(op),
                         !.postSize = @ /\ HasData(op), !.read = t]

\* Mutated form: m_lock_request is not waited for.
LockAlways(t) ==
  /\ Go(t, "url", "perform")
  /\ m_lock_request' = t
  /\ handle' = Setopt(t)
  /\ UNCHANGED <<m_stopped, call, data, reply, response, server, truth>>

\* Under m_lock_request, which is held to the end of the transfer.
Lock(t) ==
  /\ m_lock_request = None
  /\ Go(t, "url", "perform")
  /\ m_lock_request' = t
  /\ handle' = Setopt(t)
  /\ UNCHANGED <<m_stopped, call, data, reply, response, server, truth>>

\* What is on the wire.
Uploads == handle.upload \/ handle.method = "POST"
Verb ==
  IF handle.custom # "" THEN handle.custom
  ELSE IF handle.upload THEN "PUT" ELSE handle.method
\* More is announced than the read callback has.
Stalls == handle.upload /\ handle.fileSize /\ ~HasData(call[handle.read])

\* The answers of a server that holds `held` to the transfer ...
Replies(held) ==
  LET path == Path(call[handle.of])
  IN  CASE path = "instance" /\ held = <<>> -> {Answer(404, <<>>)}
        [] path = "app" /\ Verb = "GET" /\ held = <<>> -> {Answer(404, <<>>)}
        [] path = "app" /\ Verb = "PUT" -> {Answer(405, <<>>)}
        [] path = "app" /\ Verb = "POST" -> {Answer(204, <<>>)}
        [] path # "own" /\ Verb = "GET" /\ (held # <<>> \/ path = "apps") ->
             {Answer(200, Bodies(path, js)) : js \in Forms(held)}
        [] OTHER -> {Answer(200, <<>>)}

\* ... and what it holds then.
HeldAfter(held) ==
  CASE Verb = "POST" -> data[handle.read] [] Verb = "DELETE" -> <<>> [] OTHER -> held

\* The server answers the transfer, or with 500 before it does anything.
Serve(t) ==
  /\ ~Stalls
  /\ Go(t, "perform", "receive")
  /\ truth' = [truth EXCEPT ![t] = IF Method(call[t]) = "GET" THEN server ELSE @]
  /\ \/ /\ reply' = Answer(500, <<>>)
        /\ UNCHANGED server
     \/ /\ reply' \in Replies(server)
        /\ server' = HeldAfter(server)
  /\ UNCHANGED <<m_stopped, m_lock_request, handle, call, data, response>>

\* The callbacks write where the options point to; request returns.
Receive(t) ==
  /\ Go(t, "receive", "returned")
  /\ response' = [response EXCEPT ![handle.of] = reply]
  /\ reply' = NoAnswer
  /\ m_lock_request' = None
  /\ data' = [data EXCEPT ![t] = <<>>]
  /\ UNCHANGED <<m_stopped, handle, call, server, truth>>

\* request throws.
Throw(t) ==
  /\ pc[t] \in {"perform", "receive"}
  /\ pc' = [pc EXCEPT ![t] = "idle"]
  /\ call' = [call EXCEPT ![t] = NoCall] /\ data' = [data EXCEPT ![t] = <<>>]
  /\ response' = [response EXCEPT ![t] = NoAnswer]
  /\ truth' = [truth EXCEPT ![t] = <<>>]
  /\ reply' = NoAnswer
  /\ m_lock_request' = None
  /\ UNCHANGED <<m_stopped, handle, server>>

\* The connection fails.
Fail(t) == Throw(t)

\* Mutated form: the progress callback is not installed.
AbortNever(t) == FALSE /\ Throw(t)

\* progressCallback sees the stop flag: OperationAborted.
Abort(t) == m_stopped /\ Throw(t)

\* The operation returns what it makes of the response.
Return(t) ==
  /\ Go(t, "returned", "idle")
  /\ call' = [call EXCEPT ![t] = NoCall]
  /\ response' = [response EXCEPT ![t] = NoAnswer]
  /\ truth' = [truth EXCEPT ![t] = <<>>]
  /\ UNCHANGED <<m_stopped, m_lock_request, handle, data, reply, server>>

stop ==
  /\ m_stopped' = TRUE
  /\ UNCHANGED <<m_lock_request, handle, pc, call, data, reply, response, server, truth>>

Next ==
  \/ \E t \in Threads :
       \/ \E op \in Operations : Request(t, op)
       \/ Lock(t) \/ Serve(t) \/ Receive(t) \/ Fail(t) \/ Abort(t) \/ Return(t)
  \/ stop

Spec == Init /\ [][Next]_vars

\* Threads are scheduled, a mutex that is released again and again is got in the end, and
\* libcurl calls progressCallback at least every second.  Servers need not answer.
FairSpec ==
  /\ Spec
  /\ \A t \in Threads : SF_vars(Lock(t)) /\ WF_vars(Abort(t)) /\ WF_vars(Return(t))

-----------------------------------------------------------------------------
\* What a query returns for the response.
Queried(t) ==
  LET body == response[t].body
      op == call[t]
  IN  IF body = <<>> \/ body[1] # Path(op) THEN <<>>
      ELSE CASE op = "query" -> toInstances(body[2])
             [] op = "queryApp" -> toAppInstances(body[2])
             [] op = "queryAll" -> toAppsInstances(body[2])

\* A transfer is what its request asked for, whatever the requests before it have left in
\* the handle and whoever waits for it: its verb, its URL, its data and where the answer
\* goes (http_client.cpp:227-286, "concurrent requests will sequential",
\* http_client.h:56).  Left out is the size a PUT without data announces.
OwnTransfer ==
  \A t \in Threads : pc[t] = "perform" =>
    LET op == call[t]
    IN  /\ Verb = Method(op) /\ handle.of = t
        /\ Uploads <=> Method(op) \in {"POST", "PUT"}
        /\ Uploads => handle.read = t
        /\ op = "register" => handle.postSize
        /\ op = "put" => handle.fileSize

\* A query that is answered returns the instance the server held, as it was registered,
\* although it has been JSON twice and its numbers and booleans may come back as
\* strings, provided the numbers survive a double (s11n.h:36-78, s11n_types.h:14-159,
\* eureka_connect.cpp:19-76, 205-217).
QueriedIsRegistered ==
  \A t \in Threads :
    ( /\ pc[t] = "returned" /\ Method(call[t]) = "GET"
      /\ response[t].status = 200
      /\ \A k \in DOMAIN truth[t] : Survives(truth[t][k]) ) => Queried(t) = truth[t]

\* stop "only set stop flag" (http_client.h:64), and every request that is under way or
\* waits for another then ends, although the server never answers and libcurl has no
\* time-out (http_client.cpp:145-149, 199-203).
StopEndsRequests ==
  \A t \in Threads :
    m_stopped /\ pc[t] \in {"url", "perform", "receive"} ~> pc[t] \in {"idle", "returned"}
=============================================================================
