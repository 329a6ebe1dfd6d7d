-------------------------------- MODULE Verbs --------------------------------
(***************************************************************************)
(* The calls every program of the repository is made of: TCP sockets       *)
(* (util/utils.cpp) and reliable-connection queue pairs                    *)
(* (rdma-region/RDMACommon.cpp).                                           *)
(*                                                                         *)
(* A program's threads are straight-line apart from a few branches, so the *)
(* control state of a thread p is todo[p], the calls it has still to make. *)
(* Programs are written as sequences of calls (the lower-case operators    *)
(* named after the C++ functions); every call is then one atomic action    *)
(* below, and a blocking call (accept, sock_read, poll_completion) is an   *)
(* action whose guard waits.  A call wrapped in TEST_NZ that returns an    *)
(* error ends the thread: p enters `failed'.  The adapter works on its own:*)
(* Deliver, Acknowledge, Transfer and Atomic are its steps.                *)
(***************************************************************************)
EXTENDS Naturals, Sequences, FiniteSets, SequencesExt, TLC

CONSTANT RDMA_MAX_WR     \* send work requests a queue pair holds

ASSUME MaxWrAssumption == RDMA_MAX_WR \in Nat \ {0}

VARIABLES
  program,   \* the program that is run, with its sizes
  todo,      \* todo[p]: the calls thread p has still to make
  conn,      \* conn[p]: the peers of p's contexts ctx[1], ctx[2], ...
  backlog,   \* backlog[p]: connections p's listening socket holds
  sock,      \* sock[<<p, q>>]: what p has still to read from q
  qp,        \* qp[<<p, q>>]: p's queue pair to q
  mem,       \* mem[p]: p's memory, a function of addresses
  failed     \* threads that ended on an error

vars == <<program, todo, conn, backlog, sock, qp, mem, failed>>

Process == DOMAIN todo

First(S) == CHOOSE k \in S : \A j \in S : k <= j

\* The handler threads of a memory server use the server's contexts.
Owner(p) == IF p[1] = "handler" THEN <<"server", 1>> ELSE p

Peer(e) == <<e[2], e[1]>>
End(p, i) == <<Owner(p), conn[Owner(p)][i]>>
EndsOf(p) == {e \in DOMAIN qp : e[1] = Owner(p)}

-----------------------------------------------------------------------------
(* The calls.  In sock_read and poll_completion, msg is what the code that *)
(* follows takes the message for: the code itself never looks.             *)

establish_tcp_connection(s) == <<[op |-> "connect", to |-> s]>>
accept == <<[op |-> "accept"]>>
sock_write(i, m) == <<[op |-> "sock_write", ctx |-> i, msg |-> m]>>
sock_read(i, m) == <<[op |-> "sock_read", ctx |-> i, msg |-> m]>>
\* Mutant: both sides read before they write.
sock_sync_dataReadFirst(i, m) == sock_read(i, m) \o sock_write(i, m)

sock_sync_data(i, m) == sock_write(i, m) \o sock_read(i, m)
sock_sync(i) == sock_sync_data(i, "W")
create_queuepair(i) == <<[op |-> "create_queuepair", ctx |-> i]>>
modify_qp(i) == <<[op |-> "modify_qp", ctx |-> i]>>

connect_qp(i) ==
  sock_sync_data(i, "qp_num") \o modify_qp(i) \o sock_sync_data(i, "Q")

post_RECEIVE(i) == <<[op |-> "post_RECEIVE", ctx |-> i]>>
post_SEND(i, m, signaled) ==
  <<[op |-> "post_SEND", ctx |-> i, wr |-> [opcode |-> "SEND", msg |-> m, signaled |-> signaled]]>>
post_RDMA_READ_WRT(opcode, i, words, signaled) ==
  <<[op |-> "post_SEND", ctx |-> i, wr |-> [opcode |-> opcode, words |-> words, signaled |-> signaled]]>>

\* Atomics are always signaled; the old value lands at the local address.
post_RDMA_FETCH_ADD(i, remote, local, add) ==
  <<[op |-> "post_SEND", ctx |-> i,
     wr |-> [opcode |-> "FA", words |-> <<<<remote, local>>>>, add |-> add, signaled |-> TRUE]]>>
post_RDMA_CMP_SWAP(i, remote, local, expected, new) ==
  <<[op |-> "post_SEND", ctx |-> i,
     wr |-> [opcode |-> "CAS", words |-> <<<<remote, local>>>>,
             expected |-> expected, new |-> new, signaled |-> TRUE]]>>

\* kinds says which completions reach the polled queue: one kind, or both
\* when the context has a single completion queue.  Context 0 stands for a
\* queue that all of the process's queue pairs share.
poll_completion(i, kinds, m) ==
  <<[op |-> "poll_completion", ctx |-> i, kinds |-> kinds, msg |-> m]>>

\* Polling the queues of several contexts in turn is waiting for all of them.
poll_each(S) == <<[op |-> "poll_each", ctxs |-> S]>>

destroy_context(i) == <<[op |-> "destroy_context", ctx |-> i]>>

-----------------------------------------------------------------------------
(* Taking a call.                                                          *)

At(p, op) == todo[p] # <<>> /\ Head(todo[p]).op = op
Ctx(p) == End(p, Head(todo[p]).ctx)

\* All five posting functions end in ibv_post_send.  What a thread posts right
\* after a call is part of that call's step: only the adapter sees it, and the
\* adapter may start on a request at any time after it was posted.
Posted(q, post) == [q EXCEPT ![post.end].sq = Append(@, post.wr), ![post.end].used = @ + 1]

Leading(calls) ==
  CHOOSE n \in 0 .. Len(calls) :
    /\ n = Len(calls) \/ calls[n + 1].op # "post_SEND"
    /\ \A k \in 1 .. n : calls[k].op = "post_SEND"

\* Thread p goes on with these calls; q are the queue pairs it left.
Continue(p, calls, q) ==
  LET n == Leading(calls)
      posts == [k \in 1 .. n |-> [end |-> End(p, calls[k].ctx), wr |-> calls[k].wr]]
      posted == FoldLeft(Posted, q, posts)
      ok == \A k \in 1 .. n : /\ q[posts[k].end].state = "RTS"
                              /\ posted[posts[k].end].used <= RDMA_MAX_WR IN
    /\ qp' = IF ok THEN posted ELSE q
    /\ todo' = [todo EXCEPT ![p] = IF ok THEN SubSeq(calls, n + 1, Len(calls)) ELSE <<>>]
    /\ failed' = IF ok THEN failed ELSE failed \cup {p}

Goto(p, calls) == Continue(p, calls, qp)
Return(p) == Goto(p, Tail(todo[p]))

\* TEST_NZ: go on when the call succeeded, else the thread ends.
TEST_NZ(p, ok, q) ==
  IF ok THEN Continue(p, Tail(todo[p]), q)
  ELSE /\ todo' = [todo EXCEPT ![p] = <<>>]
       /\ failed' = failed \cup {p}
       /\ qp' = q

Connect(p) ==
  /\ At(p, "connect")
  /\ LET s == Head(todo[p]).to IN
       /\ conn' = [conn EXCEPT ![p] = Append(@, s)]
       /\ backlog' = [backlog EXCEPT ![s] = Append(@, p)]
       /\ sock' = (<<p, s>> :> <<>>) @@ (<<s, p>> :> <<>>) @@ sock
  /\ Return(p)
  /\ UNCHANGED <<program, mem>>

Accept(p) ==
  /\ At(p, "accept") /\ backlog[p] # <<>>
  /\ conn' = [conn EXCEPT ![p] = Append(@, Head(backlog[p]))]
  /\ backlog' = [backlog EXCEPT ![p] = Tail(@)]
  /\ Return(p)
  /\ UNCHANGED <<program, sock, mem>>

\* Writing to a socket the peer has closed fails.
SockWrite(p) ==
  /\ At(p, "sock_write")
  /\ LET q == Peer(Ctx(p)) IN
       /\ sock' = IF q \in DOMAIN sock THEN [sock EXCEPT ![q] = Append(@, Head(todo[p]).msg)] ELSE sock
       /\ TEST_NZ(p, q \in DOMAIN sock, qp)
  /\ UNCHANGED <<program, conn, backlog, mem>>

\* Reading blocks on an open connection and fails on one the peer has closed.
\* (sock_sync_data would go round its loop instead: the thread is lost too.)
Blocks(e) == sock[e] = <<>> /\ Peer(e) \in DOMAIN sock
Read(e) == [sock EXCEPT ![e] = IF @ = <<>> THEN @ ELSE Tail(@)]

SockRead(p) ==
  /\ At(p, "sock_read") /\ ~Blocks(Ctx(p))
  /\ sock' = Read(Ctx(p))
  /\ TEST_NZ(p, sock[Ctx(p)] # <<>>, qp)
  /\ UNCHANGED <<program, conn, backlog, mem>>

\* rq: receives posted; sq: requests the adapter has not carried out;
\* unacked: SENDs delivered and not acknowledged; used: send-queue slots taken;
\* idle: completed unsignaled requests whose slots no completion has freed;
\* recv: what the last SEND left in the receive buffer.
NewQueuePair == [state |-> "RESET", rq |-> 0, sq |-> <<>>, unacked |-> <<>>,
                 cq |-> <<>>, used |-> 0, idle |-> 0, recv |-> "none"]

CreateQueuePair(p) ==
  /\ At(p, "create_queuepair")
  /\ TEST_NZ(p, TRUE, (Ctx(p) :> NewQueuePair) @@ qp)
  /\ UNCHANGED <<program, conn, backlog, sock, mem>>

modify_qp_to_init(state) == IF state = "RESET" THEN "INIT" ELSE "ERR"
modify_qp_to_rtr(state) == IF state = "INIT" THEN "RTR" ELSE "ERR"
modify_qp_to_rts(state) == IF state = "RTR" THEN "RTS" ELSE "ERR"

\* The three transitions of connect_qp: no other call comes between them.
ModifyQp(p) ==
  /\ At(p, "modify_qp")
  /\ LET state == modify_qp_to_rts(modify_qp_to_rtr(modify_qp_to_init(qp[Ctx(p)].state))) IN
       TEST_NZ(p, state = "RTS", [qp EXCEPT ![Ctx(p)].state = state])
  /\ UNCHANGED <<program, conn, backlog, sock, mem>>

PostReceive(p) ==
  /\ At(p, "post_RECEIVE")
  /\ TEST_NZ(p, qp[Ctx(p)].rq < 2 * RDMA_MAX_WR, [qp EXCEPT ![Ctx(p)].rq = @ + 1])
  /\ UNCHANGED <<program, conn, backlog, sock, mem>>

\* The queue pairs whose completions the call at the head of todo[p] polls,
\* and the position of the first one of a polled kind.
Polled(p) == IF Head(todo[p]).ctx = 0 THEN EndsOf(p) ELSE {Ctx(p)}
Ready(p, e) == {k \in DOMAIN qp[e].cq : qp[e].cq[k].kind \in Head(todo[p]).kinds}
Without(s, k) == SubSeq(s, 1, k - 1) \o SubSeq(s, k + 1, Len(s))

\* Mutant: a completion frees the whole send queue.
TakenFreesAll(r, k) == [r EXCEPT !.cq = Without(@, k), !.used = 0]

\* Taking a completion frees the slots of every request up to it.
Taken(r, k) ==
  [r EXCEPT !.cq = Without(@, k), !.used = @ - r.cq[k].frees]

PollCompletion(p) ==
  /\ At(p, "poll_completion")
  /\ \E e \in Polled(p) :
       /\ Ready(p, e) # {}
       /\ LET k == First(Ready(p, e)) IN
            TEST_NZ(p, qp[e].cq[k].ok, [qp EXCEPT ![e] = Taken(@, k)])
  /\ UNCHANGED <<program, conn, backlog, sock, mem>>

PollEach(p) ==
  /\ At(p, "poll_each")
  /\ LET ends == {End(p, i) : i \in Head(todo[p]).ctxs} IN
       /\ \A e \in ends : qp[e].cq # <<>>
       /\ TEST_NZ(p, \A e \in ends : Head(qp[e].cq).ok,
                  [e \in DOMAIN qp |-> IF e \in ends THEN Taken(qp[e], 1) ELSE qp[e]])
  /\ UNCHANGED <<program, conn, backlog, sock, mem>>

\* A context's queue pair and socket go together.
DestroyContext(p) ==
  /\ At(p, "destroy_context")
  /\ sock' = [e \in DOMAIN sock \ {Ctx(p)} |-> sock[e]]
  /\ TEST_NZ(p, TRUE, [e \in DOMAIN qp \ {Ctx(p)} |-> qp[e]])
  /\ UNCHANGED <<program, conn, backlog, mem>>

CallStep(p) ==
  \/ Connect(p) \/ Accept(p) \/ SockWrite(p) \/ SockRead(p)
  \/ CreateQueuePair(p) \/ ModifyQp(p) \/ PostReceive(p)
  \/ PollCompletion(p) \/ PollEach(p) \/ DestroyContext(p)

-----------------------------------------------------------------------------
(* The adapter.  A queue pair carries its requests out in order.           *)

Completion(kind, m, frees, ok) == [kind |-> kind, msg |-> m, frees |-> frees, ok |-> ok]

\* A request is complete: a signaled one leaves a completion.
Complete(r, signaled) ==
  IF signaled
  THEN [r EXCEPT !.cq = Append(@, Completion("SEND", "none", r.idle + 1, TRUE)), !.idle = 0]
  ELSE [r EXCEPT !.idle = @ + 1]

\* An error completion is always raised, and the rest of the queue is flushed.
Broken(r) ==
  [r EXCEPT !.state = "ERR", !.sq = <<>>, !.cq = Append(@, Completion("SEND", "none", 0, FALSE))]

Listening(e) == e \in DOMAIN qp /\ qp[e].state \in {"RTR", "RTS"}
Pending(e, opcodes) == qp[e].sq # <<>> /\ Head(qp[e].sq).opcode \in opcodes

\* A SEND takes a posted receive of the peer.  rnr_retry is 0, so without one
\* the request fails at once.
Deliver(e) ==
  /\ Pending(e, {"SEND"})
  /\ LET wr == Head(qp[e].sq)  q == Peer(e) IN
       qp' = IF Listening(q) /\ qp[q].rq > 0
             THEN [qp EXCEPT
                    ![e].sq = Tail(@), ![e].unacked = Append(@, wr.signaled),
                    ![q].rq = @ - 1, ![q].recv = wr.msg,
                    ![q].cq = Append(@, Completion("RECV", wr.msg, 0, TRUE))]
             ELSE [qp EXCEPT ![e] = Broken(@)]
  /\ UNCHANGED <<program, todo, conn, backlog, sock, mem, failed>>

\* The acknowledgement may reach the sender after the receiver's answer.
Acknowledge(e) ==
  /\ qp[e].unacked # <<>>
  /\ qp' = [qp EXCEPT ![e] = [Complete(@, Head(qp[e].unacked)) EXCEPT !.unacked = Tail(@)]]
  /\ UNCHANGED <<program, todo, conn, backlog, sock, mem, failed>>

\* READ and WRITE are not atomic: they move program.chunk words at a time.
Moved(e, wr, n) ==
  LET Local(a) == \E k \in 1 .. n : wr.words[k][2] = a
      Remote(a) == \E k \in 1 .. n : wr.words[k][1] = a
      LocalOf(a) == (CHOOSE k \in 1 .. n : wr.words[k][1] = a)
      RemoteOf(a) == (CHOOSE k \in 1 .. n : wr.words[k][2] = a) IN
  IF wr.opcode = "READ"
  THEN [mem EXCEPT ![e[1]] = [a \in DOMAIN @ |-> IF Local(a) THEN mem[e[2]][wr.words[RemoteOf(a)][1]] ELSE @[a]]]
  ELSE [mem EXCEPT ![e[2]] = [a \in DOMAIN @ |-> IF Remote(a) THEN mem[e[1]][wr.words[LocalOf(a)][2]] ELSE @[a]]]

Transfer(e) ==
  /\ Pending(e, {"READ", "WRITE"}) /\ qp[e].unacked = <<>>
  /\ LET wr == Head(qp[e].sq)
         n == IF Len(wr.words) < program.chunk THEN Len(wr.words) ELSE program.chunk IN
       /\ mem' = IF Listening(Peer(e)) THEN Moved(e, wr, n) ELSE mem
       /\ qp' = [qp EXCEPT ![e] =
                  CASE ~Listening(Peer(e)) -> Broken(@)
                    [] Listening(Peer(e)) /\ n = Len(wr.words) ->
                         [Complete(@, wr.signaled) EXCEPT !.sq = Tail(@)]
                    [] OTHER -> [@ EXCEPT !.sq[1].words = SubSeq(@, n + 1, Len(@))]]
  /\ UNCHANGED <<program, todo, conn, backlog, sock, failed>>

Swapped(wr, old) ==
  CASE wr.opcode = "FA" -> old + wr.add
    [] wr.opcode = "CAS" /\ old = wr.expected -> wr.new
    [] OTHER -> old

Atomic(e) ==
  /\ Pending(e, {"CAS", "FA"}) /\ qp[e].unacked = <<>>
  /\ LET wr == Head(qp[e].sq)  word == wr.words[1]  old == mem[e[2]][word[1]] IN
       /\ mem' = IF Listening(Peer(e))
                 THEN [mem EXCEPT ![e[2]][word[1]] = Swapped(wr, old), ![e[1]][word[2]] = old]
                 ELSE mem
       /\ qp' = [qp EXCEPT ![e] =
                  IF Listening(Peer(e)) THEN [Complete(@, TRUE) EXCEPT !.sq = Tail(@)] ELSE Broken(@)]
  /\ UNCHANGED <<program, todo, conn, backlog, sock, failed>>

AdapterStep(e) == Deliver(e) \/ Acknowledge(e) \/ Transfer(e) \/ Atomic(e)
=============================================================================
