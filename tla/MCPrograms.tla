------------------------------ MODULE MCPrograms ------------------------------
(***************************************************************************)
(* Every program on a small instance.                                      *)
(***************************************************************************)
EXTENDS Programs

MCCohorts == {<<"client", 1>>, <<"client", 2>>}

RSIPrograms ==
  {[name |-> "RSI", servers |-> 2, clients |-> 2, rounds |-> 1, items |-> 1, chunk |-> 2],
   [name |-> "RSI", servers |-> 1, clients |-> 2, rounds |-> 1, items |-> 1, chunk |-> 1]}

TwoPhasePrograms ==
  [name : {"2PC", "IP2PC"}, clients : {2}, rounds : {3}, chunk : {1}, period : {2}]

VerbPrograms ==
  [name : {"verbs"}, verb : {"READ", "WRITE", "CAS", "FA"}, access : {"SHARED", "DEDICATED"},
   words : {2}, clients : {2}, rounds : {2}, chunk : {1}]

Shuffles == {s \in [1 .. 3 -> 1 .. 3] : \A i, j \in 1 .. 3 : s[i] = s[j] => i = j}

CachePrograms ==
  [name : {"cache", "sequential", "local_cpu"}, order : Shuffles, clients : {1}, rounds : {3}, chunk : {1}, period : {2}]

Deployments ==
  {[name |-> "TPCC", clients |-> 2, readers |-> 0, handlers |-> 2, rounds |-> 1, period |-> 2, chunk |-> 1],
   [name |-> "TPCC", clients |-> 1, readers |-> 1, handlers |-> 1, rounds |-> 1, period |-> 2, chunk |-> 1]}

AllPrograms == RSIPrograms \cup TwoPhasePrograms \cup VerbPrograms \cup CachePrograms \cup Deployments

-----------------------------------------------------------------------------
\* A client that takes leave posts no more requests: nothing reads its memory
\* again, and only its own queue pairs write there.
TakesLeave(p) ==
  /\ p[1] = "client"
  /\ \A k \in DOMAIN todo[p] : todo[p][k].op \in {"sock_write", "sock_read", "destroy_context"}
  /\ \A e \in EndsOf(p) : qp[e].sq = <<>>

LivePrograms ==
  <<program, todo, conn, backlog, sock, qp, failed,
    [p \in DOMAIN mem |-> IF TakesLeave(p) THEN <<>> ELSE mem[p]]>>
=============================================================================
