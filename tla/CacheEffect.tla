----------------------------- MODULE CacheEffect -----------------------------
(***************************************************************************)
(* micro-benchmarks/cache-effect: a linked list laid out in an array,      *)
(* walked by the server's processor while clients READ the whole array,    *)
(* and the two programs that only walk (Server2.cpp and server-2.cpp share *)
(* their text; local_cpu.cpp adds up the array).                           *)
(*                                                                         *)
(* Some of the programs close the list and count ARRAY_SIZE steps, others  *)
(* end it with NULL and look for that: a list of one kind under a walk of  *)
(* the other kind never ends, or ends in NULL.                             *)
(*                                                                         *)
(* program.order is the shuffled sequence, program.period the 1000 of      *)
(* "iteration % 1000 == 0".                                                *)
(***************************************************************************)
EXTENDS Session

ArraySize == Len(program.order) + 1
NULL == ArraySize
Nodes == 0 .. ArraySize - 1
Node(k) == <<"node", k>>
Copy(k) == <<"local", k>>
Current == <<"current", 0>>
Added == <<"added", 0>>   \* the pads added to sum, in their order
Step == <<"i", 0>>

-----------------------------------------------------------------------------
(* The lists; a node is its link and its pad.                              *)

make_sequential_linked_list ==
  [k \in Nodes |-> [n |-> IF k < ArraySize - 1 THEN k + 1 ELSE NULL, pad |-> k]]

\* Mutant: the first node is linked past the second.
make_random_linked_list_skip(last) ==
  LET seq == <<0>> \o program.order \o <<last>> IN
    [k \in Nodes |-> [n |-> IF k = 0 THEN seq[3] ELSE seq[1 + (CHOOSE i \in 1 .. ArraySize : seq[i] = k)],
                      pad |-> k]]

\* 0 comes first, then the shuffled elements, then whatever ends the list.
make_random_linked_list(last) ==
  LET seq == <<0>> \o program.order \o <<last>> IN
    [k \in Nodes |-> [n |-> seq[1 + (CHOOSE i \in 1 .. ArraySize : seq[i] = k)], pad |-> k]]

\* fill_cache adds 0.001 to a long int, which truncates back to the value;
\* local_cpu.cpp adds 1 (its 20000 rounds are one here).
fill_cache(list) == [k \in Nodes |-> [list[k] EXCEPT !.pad = (1000 * @ + 1) \div 1000]]
fill_cache_local(list) == [k \in Nodes |-> [list[k] EXCEPT !.pad = @ + 1]]

Closed == program.name = "cache"
Array ==
  CASE program.name = "cache"      -> fill_cache(make_random_linked_list(0))
    [] program.name = "sequential" -> make_sequential_linked_list
    [] program.name = "local_cpu"  -> fill_cache_local(make_random_linked_list(NULL))

-----------------------------------------------------------------------------
scan == <<[op |-> "scan"]>>

Cache_start_benchmark(t) ==
  LET signaled == (t - 1) % program.period = 0
      words == [k \in 1 .. ArraySize |-> <<Node(k - 1), Copy(k - 1)>>] IN
    post_RDMA_READ_WRT("READ", 1, words, signaled)
      \o (IF signaled THEN poll_completion(1, JointCQ, "none") ELSE <<>>)

Cache_start_client ==
  ConnectQueuePair(Server(1), 1, JointCQ)
    \o ForEach(program.rounds, Cache_start_benchmark) \o FinishContext(1)

Cache_start_server ==
  ForEach(program.clients, AcceptQueuePair)
    \o ForEach(program.clients, LAMBDA i : SendKeys(i, JointCQ, 0))
    \o scan
    \o ForEach(program.clients, FinishContext)

InitCacheEffect ==
  LET list == Array
      clients == IF program.name = "cache" THEN {Client(j) : j \in 1 .. program.clients} ELSE {}
      procs == {Server(1)} \cup clients IN
  InitSession(
    [p \in procs |-> CASE p # Server(1) -> Cache_start_client
                       [] p = Server(1) /\ program.name = "cache" -> Cache_start_server
                       [] OTHER -> scan],
    [p \in procs |-> IF p = Server(1)
                      THEN (Current :> 0) @@ (Added :> <<>>) @@ (Step :> 0)
                             @@ [a \in {Node(k) : k \in Nodes} |-> list[a[2]]]
                      ELSE [a \in {Copy(k) : k \in Nodes} |-> [n |-> 0, pad |-> 0]]])

-----------------------------------------------------------------------------
(* The walks, a node a step.                                               *)

\* for (i = 0; i < ARRAY_SIZE; i++) { sum += current->pad[0]; current = current->n; }
CountedWalk(m) ==
  [m EXCEPT ![Added] = Append(@, m[Node(m[Current])].pad), ![Current] = m[Node(m[Current])].n, ![Step] = @ + 1]

\* while ((current = current->n) != NULL) sum += current->pad[0];
NullWalk(m) ==
  LET next == m[Node(m[Current])].n IN
    [m EXCEPT ![Current] = next, ![Added] = IF next = NULL THEN @ ELSE Append(@, m[Node(next)].pad)]

\* for (i = 0; i < ARRAY_SIZE; i++) sum += myS[i].pad[0];
ArrayWalk(m) == [m EXCEPT ![Added] = Append(@, m[Node(m[Step])].pad), ![Step] = @ + 1]

Walk(m) ==
  CASE program.name = "cache"      -> CountedWalk(m)
    [] program.name = "sequential" -> NullWalk(m)
    [] program.name = "local_cpu"  -> ArrayWalk(m)

Walked(m) == IF program.name = "sequential" THEN m[Current] = NULL ELSE m[Step] = ArraySize

Scan(p) ==
  /\ At(p, "scan")
  /\ mem' = [mem EXCEPT ![p] = Walk(@)]
  /\ Goto(p, IF Walked(Walk(mem[p])) THEN Tail(todo[p]) ELSE todo[p])
  /\ UNCHANGED <<program, conn, backlog, sock>>

\* What a finished walk has added up.  The counted walk: the first node and then
\* the others as they were shuffled, back at the first node in the end.  The walk
\* until NULL goes on before it adds: every node but the first (whose pad is 0,
\* so that the printed sum does not tell).  local_cpu follows no link: the array
\* by index, every pad incremented.
WalkAddsInOrder ==
  LET m == mem[Server(1)] IN
    program.name \in {"cache", "sequential", "local_cpu"} /\ Walked(m) =>
      CASE program.name = "cache"      -> m[Added] = <<0>> \o program.order /\ m[Current] = 0
        [] program.name = "sequential" -> m[Added] = [k \in 1 .. ArraySize - 1 |-> k]
        [] program.name = "local_cpu"  -> m[Added] = [k \in 1 .. ArraySize |-> k]
=============================================================================
