------------------------------ MODULE Deployment ------------------------------
(***************************************************************************)
(* A TPC-C deployment (executor.cpp): the oracle, a memory server with its *)
(* index handler threads, clients and the thread that reads the oracle's   *)
(* vector for them.  The transactions of a client, the subject of          *)
(* NewOrderTrx and PaymentTrx, are here one index request and the WRITE    *)
(* that publishes the commit in the oracle's vector.                       *)
(*                                                                         *)
(* A process's queue pairs share one send and one receive completion queue *)
(* (context 0).  program.handlers stands for SERVER_THREADS_CNT,           *)
(* program.period for the 100 of OracleReader, and program.readers is 1    *)
(* when SNAPSHOT_CLUSTER_MODE is set, else 0.                              *)
(***************************************************************************)
EXTENDS Session

Oracle == <<"oracle", 1>>
Reader == <<"reader", 1>>
Handler(h) == <<"handler", h>>

TPCCClients == {Client(j) : j \in 1 .. program.clients}
Readers == IF program.readers = 1 THEN {Reader} ELSE {}
Handlers == {Handler(h) : h \in 1 .. program.handlers}

Vector(k) == <<"lastCommittedVector", k>>
LocalVector(k) == <<"localTimestampVector", k>>
CommitTimestamp == <<"commitTimestamp", 0>>
liveClientCnt == <<"liveClientCnt", 0>>
Active(h) == <<"threadsActiveStateFlag", h[2]>>

NextClientID == <<"clientID", 0>>
MemoryKeysMessage(c) == <<"memoryKeysMessage", c>>

Entries == 0 .. program.clients - 1

-----------------------------------------------------------------------------
(* The oracle.  It reads the type of a connection before it builds the     *)
(* context, and numbers the clients as it accepts them.                    *)

read_type(c) == <<[op |-> "read_type", ctx |-> c]>>
send_client_id(c) == <<[op |-> "send_client_id", ctx |-> c]>>

Workers == program.clients + program.readers

OracleProgram ==
  ForEach(Workers, LAMBDA c : accept \o read_type(c) \o create_queuepair(c) \o connect_qp(c))
    \o ForEach(Workers, send_client_id)
    \o ForEach(Workers, FinishContext)

-----------------------------------------------------------------------------
(* The clients and the reader.                                             *)

\* Mutant: the type is written after the queue pairs are connected.
OracleContextTypeLast(type) ==
  establish_tcp_connection(Oracle) \o create_queuepair(1)
    \o post_RECEIVE(1) \o connect_qp(1) \o sock_write(1, type) \o poll_completion(0, RecvCQ, "keys")

OracleContext(type) ==
  establish_tcp_connection(Oracle) \o create_queuepair(1) \o sock_write(1, type)
    \o post_RECEIVE(1) \o connect_qp(1) \o poll_completion(0, RecvCQ, "keys")

ServerContext(i) ==
  establish_tcp_connection(Server(1)) \o create_queuepair(i) \o post_RECEIVE(i)
    \o connect_qp(i) \o poll_completion(0, RecvCQ, "keys")

\* The receive for the response is posted before the request is sent.
IndexRequest(i) ==
  post_RECEIVE(i) \o post_SEND(i, "LOOKUP", TRUE)
    \o poll_completion(0, SendCQ, "none") \o poll_completion(0, RecvCQ, "response")

publish_commit == <<[op |-> "publish_commit"]>>

TerminateServer(i) ==
  post_SEND(i, "TERMINATE", TRUE) \o poll_completion(0, SendCQ, "none") \o FinishContext(i)

informAboutFinishing == <<[op |-> "informAboutFinishing"]>>

\* Waiting for threads that have at most `left' calls to make.
join(threads, left) == <<[op |-> "join", threads |-> threads, left |-> left]>>

\* The oracle's context is deleted when the whole group has been joined.
LeaveGroup == join(TPCCClients \cup Readers, 2) \o destroy_context(1)

TPCCClient_start ==
  OracleContext("c") \o ServerContext(2)
    \o ForEach(program.rounds, LAMBDA t : IndexRequest(2) \o publish_commit)
    \o TerminateServer(2) \o informAboutFinishing \o sock_sync(1) \o LeaveGroup

read_vector(counter) == <<[op |-> "read_vector", counter |-> counter]>>

OracleReader_start == OracleContext("i") \o read_vector(0) \o sock_sync(1) \o LeaveGroup

-----------------------------------------------------------------------------
(* The memory server.  The receive for a client's first request is posted  *)
(* before the client gets the keys.                                        *)

start_threads == <<[op |-> "start_threads"]>>
while_live == <<[op |-> "while_live"]>>
poll_request == <<[op |-> "poll_request", ctx |-> 0, kinds |-> RecvCQ]>>
handle_request(i) == <<[op |-> "handle_request", ctx |-> i]>>

TPCCServer_start ==
  ForEach(program.clients, AcceptQueuePair)
    \o ForEach(program.clients, LAMBDA c :
         post_RECEIVE(c) \o post_SEND(c, Keys(0), TRUE) \o poll_completion(0, SendCQ, "none"))
    \o start_threads \o join(Handlers, 0)
    \o ForEach(program.clients, FinishContext)

\* The next receive is posted before the response is sent.
AnswerRequest(i) ==
  post_RECEIVE(i) \o post_SEND(i, "response", TRUE) \o poll_completion(0, SendCQ, "none") \o while_live

InitDeployment ==
  LET procs == {Oracle, Server(1)} \cup TPCCClients \cup Readers \cup Handlers
      message == {MemoryKeysMessage(c) : c \in 1 .. Workers} IN
    InitSession(
      [p \in procs |->
         CASE p = Oracle -> OracleProgram
           [] p = Server(1) -> TPCCServer_start
           [] p \in TPCCClients -> TPCCClient_start
           [] p \in Readers -> OracleReader_start
           [] p \in Handlers -> <<>>],
      [p \in procs |->
         CASE p = Oracle -> [a \in {Vector(k) : k \in Entries} \cup {NextClientID} \cup message |-> 0]
           [] p = Server(1) -> (liveClientCnt :> program.clients)
                                 @@ [a \in {Active(h) : h \in Handlers} |-> FALSE]
           [] p \in TPCCClients -> (CommitTimestamp :> p[2])
           [] p \in Readers -> (liveClientCnt :> program.clients)
                                 @@ [a \in {LocalVector(k) : k \in Entries} |-> 0]
           [] p \in Handlers -> <<>>])

-----------------------------------------------------------------------------
\* The first character of a connection: 'c' for a client, 'i' for a reader.
ReadType(p) ==
  /\ At(p, "read_type") /\ ~Blocks(Ctx(p))
  /\ LET c == Head(todo[p]).ctx IN
       mem' = IF sock[Ctx(p)] # <<>> /\ Head(sock[Ctx(p)]) = "c"
              THEN [mem EXCEPT ![p][MemoryKeysMessage(c)] = mem[p][NextClientID], ![p][NextClientID] = @ + 1]
              ELSE mem
  /\ sock' = Read(Ctx(p))
  /\ TEST_NZ(p, sock[Ctx(p)] # <<>>, qp)
  /\ UNCHANGED <<program, conn, backlog>>

SendClientID(p) ==
  /\ At(p, "send_client_id")
  /\ LET c == Head(todo[p]).ctx IN
       Goto(p, post_SEND(c, Keys(mem[p][MemoryKeysMessage(c)]), TRUE) \o poll_completion(0, SendCQ, "none")
                 \o Tail(todo[p]))
  /\ UNCHANGED <<program, conn, backlog, sock, mem>>

clientID(p) == qp[End(p, 1)].recv[2]

\* A client publishes at the entry of the vector that its number names.
PublishCommit(p) ==
  /\ At(p, "publish_commit")
  /\ Goto(p, post_RDMA_READ_WRT("WRITE", 1, <<<<Vector(clientID(p)), CommitTimestamp>>>>, TRUE)
               \o poll_completion(0, SendCQ, "none") \o Tail(todo[p]))
  /\ UNCHANGED <<program, conn, backlog, sock, mem>>

InformAboutFinishing(p) ==
  /\ At(p, "informAboutFinishing")
  /\ mem' = IF program.readers = 1 THEN [mem EXCEPT ![Reader][liveClientCnt] = @ - 1] ELSE mem
  /\ Return(p)
  /\ UNCHANGED <<program, conn, backlog, sock>>

\* counter is only looked at modulo the period.
ReadVector(p) ==
  /\ At(p, "read_vector")
  /\ LET counter == Head(todo[p]).counter
         signaled == counter = 0
         words == [k \in 1 .. program.clients |-> <<Vector(k - 1), LocalVector(k - 1)>>] IN
       Goto(p, IF mem[p][liveClientCnt] > 0
               THEN post_RDMA_READ_WRT("READ", 1, words, signaled)
                      \o (IF signaled THEN poll_completion(0, SendCQ, "none") ELSE <<>>)
                      \o read_vector((counter + 1) % program.period) \o Tail(todo[p])
               ELSE Tail(todo[p]))
  /\ UNCHANGED <<program, conn, backlog, sock, mem>>

Join(p) ==
  /\ At(p, "join")
  /\ \A q \in Head(todo[p]).threads : Len(todo[q]) <= Head(todo[p]).left
  /\ Return(p)
  /\ UNCHANGED <<program, conn, backlog, sock, mem>>

-----------------------------------------------------------------------------
(* handleIndexRequests, the loop of a handler thread.                      *)

StartThreads(p) ==
  /\ At(p, "start_threads")
  /\ mem' = [mem EXCEPT ![p] = [a \in {Active(h) : h \in Handlers} |-> TRUE] @@ @]
  /\ todo' = [q \in DOMAIN todo |-> CASE q = p -> Tail(todo[p])
                                      [] q \in Handlers -> while_live
                                      [] OTHER -> todo[q]]
  /\ UNCHANGED <<program, conn, backlog, sock, qp, failed>>

IsActive(p) == mem[Owner(p)][Active(p)]

WhileLive(p) ==
  /\ At(p, "while_live")
  /\ Goto(p, IF mem[Owner(p)][liveClientCnt] > 0 /\ IsActive(p) THEN poll_request ELSE <<>>)
  /\ UNCHANGED <<program, conn, backlog, sock, mem>>

clientIndex(e) == CHOOSE c \in DOMAIN conn[e[1]] : conn[e[1]][c] = e[2]

\* A thread whose flag is cleared stops polling when it finds the queue empty.
PollRequest(p) ==
  /\ At(p, "poll_request")
  /\ \/ \E e \in Polled(p) :
          /\ Ready(p, e) # {}
          /\ Continue(p, handle_request(clientIndex(e)), [qp EXCEPT ![e] = Taken(@, First(Ready(p, e)))])
     \/ /\ ~IsActive(p) /\ \A e \in Polled(p) : Ready(p, e) = {}
        /\ Goto(p, <<>>)
  /\ UNCHANGED <<program, conn, backlog, sock, mem>>

\* Mutant: every TERMINATE stops the other threads.
TerminatedEach(m) ==
  [a \in DOMAIN m |-> IF a = liveClientCnt THEN m[a] - 1 ELSE FALSE]

\* The last TERMINATE stops the other threads.
Terminated(m) ==
  LET live == m[liveClientCnt] - 1 IN
    [a \in DOMAIN m |-> CASE a = liveClientCnt -> live
                          [] a # liveClientCnt /\ live = 0 -> FALSE
                          [] OTHER -> m[a]]

\* The request is what the client's message region holds by now.
HandleRequest(p) ==
  /\ At(p, "handle_request")
  /\ LET s == Owner(p)  req == qp[Ctx(p)].recv IN
       IF req = "TERMINATE"
       THEN /\ mem' = [mem EXCEPT ![s] = Terminated(@)]
            /\ Goto(p, IF mem'[s][liveClientCnt] = 0 THEN <<>> ELSE while_live)
       ELSE /\ Goto(p, AnswerRequest(Head(todo[p]).ctx))
            /\ UNCHANGED mem
  /\ UNCHANGED <<program, conn, backlog, sock>>

DeploymentStep(p) ==
  \/ ReadType(p) \/ SendClientID(p) \/ PublishCommit(p) \/ InformAboutFinishing(p)
  \/ ReadVector(p) \/ Join(p)
  \/ StartThreads(p) \/ WhileLive(p) \/ PollRequest(p) \/ HandleRequest(p)

-----------------------------------------------------------------------------
IsDeployment == program.name = "TPCC"

\* A handler thread leaves its loop only when every client has sent its
\* TERMINATE: the flags are cleared by the last one, whichever thread gets it.
HandlersOutliveClients ==
  IsDeployment /\ At(Server(1), "join") /\ (\E h \in Handlers : todo[h] = <<>>) =>
      \A p \in TPCCClients : \A k \in DOMAIN todo[p] : todo[p][k].op # "post_SEND"
=============================================================================
