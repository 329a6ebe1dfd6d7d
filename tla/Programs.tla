------------------------------- MODULE Programs -------------------------------
(***************************************************************************)
(* The repository's programs over the verbs of module Verbs: the snapshot- *)
(* isolation clients and servers of the vision paper, the micro-benchmarks *)
(* and the processes of a TPC-C deployment.  A behaviour runs one of       *)
(* ProgramSet, threads and adapters interleaving freely.                   *)
(***************************************************************************)
EXTENDS RSI, TwoPhaseCommit, SimpleVerbs, CacheEffect, Deployment

CONSTANT ProgramSet      \* the programs, each a record with its sizes

Init ==
  /\ program \in ProgramSet
  /\ CASE program.name = "RSI" -> InitRSI
       [] program.name \in {"2PC", "IP2PC"} -> InitTwoPhaseCommit
       [] program.name = "verbs" -> InitSimpleVerbs
       [] program.name \in {"cache", "sequential", "local_cpu"} -> InitCacheEffect
       [] program.name = "TPCC" -> InitDeployment

ThreadStep(p) ==
  CallStep(p) \/ RSIStep(p) \/ PerformOperation(p) \/ Scan(p) \/ DeploymentStep(p)

Next ==
  \/ \E p \in Process : ThreadStep(p)
  \/ \E e \in DOMAIN qp : AdapterStep(e)

Spec == Init /\ [][Next]_vars

-----------------------------------------------------------------------------
IsReader(p) == p[1] = "reader"

\* Contexts, sockets and queue pairs are those of the program's processes; no
\* queue holds more than it was created for.
TypeOK ==
  /\ program \in ProgramSet
  /\ DOMAIN conn = Process /\ DOMAIN backlog = Process /\ DOMAIN mem = Process
  /\ failed \subseteq Process
  /\ \A p \in Process : Range(conn[p]) \cup Range(backlog[p]) \subseteq Process
  /\ DOMAIN sock \cup DOMAIN qp \subseteq Process \X Process
  /\ \A e \in DOMAIN qp :
       /\ qp[e].state \in {"RESET", "RTS", "ERR"}
       /\ qp[e].rq \in 0 .. 2 * RDMA_MAX_WR
       /\ qp[e].used \in Len(qp[e].sq) + Len(qp[e].unacked) .. RDMA_MAX_WR

\* No call of any program fails: sockets are written before they are closed,
\* requests are posted to queue pairs that are connected and have room (the
\* unsignaled ones between two signaled ones included), and a SEND always
\* finds a receive.
NoFailure == failed = {}

\* Programs take messages by counting: what a thread reads from a socket, or
\* from a completion queue that holds receives only, is the message that the
\* code after the call takes it for.
Fits(m, expected) == m = expected \/ (expected = "keys" /\ m[1] = "keys")

MessagesInStep ==
  \A p \in Process :
    /\ At(p, "sock_read") /\ sock[Ctx(p)] # <<>> => Head(sock[Ctx(p)]) = Head(todo[p]).msg
    /\ At(p, "poll_completion") /\ Head(todo[p]).kinds = RecvCQ =>
         \A e \in Polled(p) : Ready(p, e) # {} => Fits(qp[e].cq[First(Ready(p, e))].msg, Head(todo[p]).msg)

\* Nobody destroys a context while its peer has requests under way, although
\* the two sides agree by one byte over the socket only.  The oracle's reader
\* and the cache benchmark leave READs behind that nobody waits for.
ContextsOutliveRequests ==
  program.name # "cache" =>
    \A e \in DOMAIN qp : qp[e].sq # <<>> /\ ~IsReader(e[1]) => Peer(e) \in DOMAIN qp

\* A word that belongs to one client (its region of the benchmark's buffer,
\* its entry of the oracle's vector) is never written by another: the numbers
\* that tell clients where to write are handed out in the order of accept.
WrittenOnce(p, a) == mem[p][a] # 0 => mem'[p][a] = mem[p][a]

RegionsStayPrivate ==
  [][/\ program.name = "verbs" /\ program.access = "DEDICATED" /\ program.verb = "WRITE" =>
          \A a \in DOMAIN mem[Server(1)] : WrittenOnce(Server(1), a)
     /\ IsDeployment => \A k \in Entries : WrittenOnce(Oracle, Vector(k))]_mem

\* The calls that wait, and what they wait for.
Waits(p) ==
  \/ At(p, "accept") /\ backlog[p] = <<>>
  \/ todo[p] # <<>> /\ Head(todo[p]).op \in {"sock_read", "read_type"} /\ Blocks(Ctx(p))
  \/ At(p, "poll_completion") /\ \A e \in Polled(p) : Ready(p, e) = {}
  \/ At(p, "poll_request") /\ IsActive(p) /\ \A e \in Polled(p) : Ready(p, e) = {}
  \/ At(p, "poll_each") /\ \E i \in Head(todo[p]).ctxs : qp[End(p, i)].cq = <<>>
  \/ At(p, "join") /\ \E q \in Head(todo[p]).threads : Len(todo[q]) > Head(todo[p]).left

\* The reader has its keys and goes round its loop until the clients are done.
ReaderLoops ==
  IsDeployment /\ \E r \in Readers :
    /\ mem[r][liveClientCnt] > 0
    /\ \A k \in DOMAIN todo[r] : todo[r][k].op = "poll_completion" => todo[r][k].kinds # RecvCQ

\* The threads wait for each other over backlogs, sockets, completion queues
\* and joins: until all have ended, one of them or an adapter can go on, and
\* not only the reader in its loop.
NobodyIsStuck ==
  (\E p \in Process : todo[p] # <<>>) =>
    \/ \E p \in Process : todo[p] # <<>> /\ ~Waits(p) /\ (IsReader(p) => ~ReaderLoops)
    \/ \E e \in DOMAIN qp : (qp[e].sq # <<>> \/ qp[e].unacked # <<>>) /\ (IsReader(e[1]) => ~ReaderLoops)
=============================================================================
