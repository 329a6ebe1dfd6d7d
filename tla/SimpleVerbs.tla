----------------------------- MODULE SimpleVerbs -----------------------------
(***************************************************************************)
(* micro-benchmarks/simple-verbs: every client repeats one verb on words   *)
(* of the server's buffer, the same for all clients (SHARED) or a region   *)
(* of its own (DEDICATED), found by the number the server gave it.         *)
(*                                                                         *)
(* program.verb and program.access are the arguments of BenchmarkExecutor; *)
(* program.words stands for BUFFER_WORDS.                                  *)
(***************************************************************************)
EXTENDS Session

Word(k) == <<"local_buffer", k>>
SendWord(k) == <<"send_data_msg", k>>
RecvWord(k) == <<"recv_data_msg", k>>

perform_operation == <<[op |-> "perform_operation", ctx |-> 1]>>

Benchmark_start_client ==
  ConnectQueuePair(Server(1), 1, RecvCQ)
    \o ForEach(program.rounds, LAMBDA t : perform_operation)
    \o FinishContext(1)

Benchmark_start_server ==
  ForEach(program.clients, AcceptQueuePair)
    \o ForEach(program.clients, LAMBDA i : SendKeys(i, SendCQ, i - 1))
    \o ForEach(program.clients, FinishContext)

\* A client writes its own name, so that a word shows whose it is.
ClientBuffers(j) ==
  [a \in {SendWord(k) : k \in 0 .. program.words - 1} |-> j]
    @@ [a \in {RecvWord(k) : k \in 0 .. program.words - 1} |-> 0]

ServerBuffer == [a \in {Word(k) : k \in 0 .. program.clients * program.words - 1} |-> 0]

InitSimpleVerbs ==
  LET procs == {Server(1)} \cup {Client(j) : j \in 1 .. program.clients} IN
    InitSession(
      [p \in procs |-> IF p = Server(1) THEN Benchmark_start_server ELSE Benchmark_start_client],
      [p \in procs |-> IF p = Server(1) THEN ServerBuffer ELSE ClientBuffers(p[2])])

-----------------------------------------------------------------------------
client_num(p) == qp[End(p, 1)].recv[2]

\* Mutant: the client's number is taken for an offset.
LookupAddressUnscaled(p) == IF program.access = "SHARED" THEN 0 ELSE client_num(p)

LookupAddress(p) == IF program.access = "SHARED" THEN 0 ELSE client_num(p) * program.words

VerbOn(base) ==
  LET All(Local(_)) == [k \in 1 .. program.words |-> <<Word(base + k - 1), Local(k - 1)>>] IN
  CASE program.verb = "READ"  -> post_RDMA_READ_WRT("READ", 1, All(RecvWord), TRUE)
    [] program.verb = "WRITE" -> post_RDMA_READ_WRT("WRITE", 1, All(SendWord), TRUE)
    [] program.verb = "CAS"   -> post_RDMA_CMP_SWAP(1, Word(base), SendWord(0), 0, 0)
    [] program.verb = "FA"    -> post_RDMA_FETCH_ADD(1, Word(base), SendWord(0), 1)

PerformOperation(p) ==
  /\ At(p, "perform_operation")
  /\ Goto(p, VerbOn(LookupAddress(p)) \o poll_completion(1, SendCQ, "none") \o Tail(todo[p]))
  /\ UNCHANGED <<program, conn, backlog, sock, mem>>
=============================================================================
