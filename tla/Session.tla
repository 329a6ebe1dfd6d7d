------------------------------- MODULE Session -------------------------------
(***************************************************************************)
(* The two halves of a connection as the repository's programs write them: *)
(* a server that accepts its clients, sends each of them the keys of its   *)
(* memory, waits and destroys; and a client that connects to its servers   *)
(* one after the other.                                                    *)
(***************************************************************************)
EXTENDS Verbs

Server(i) == <<"server", i>>
Client(j) == <<"client", j>>

\* for (i = 1; i <= n; i++) the calls of Body(i)
ForEach(n, Body(_)) == FlattenSeq([i \in 1 .. n |-> Body(i)])

\* A context with one completion queue, or with one for each kind.
JointCQ == {"SEND", "RECV"}
SendCQ == {"SEND"}
RecvCQ == {"RECV"}

Keys(n) == <<"keys", n>>

-----------------------------------------------------------------------------
AcceptQueuePair(i) == accept \o create_queuepair(i) \o connect_qp(i)

SendKeys(i, cq, n) == post_SEND(i, Keys(n), TRUE) \o poll_completion(i, cq, "none")

\* The receive for the keys is posted before the queue pairs are connected.
ConnectQueuePair(s, i, cq) ==
  establish_tcp_connection(s) \o create_queuepair(i) \o post_RECEIVE(i)
    \o connect_qp(i) \o poll_completion(i, cq, "keys")

\* Mutant: a context is destroyed without waiting for its peer.
FinishAtOnce(i) == destroy_context(i)

FinishContext(i) == sock_sync_data(i, "W") \o destroy_context(i)

-----------------------------------------------------------------------------
\* Nothing has happened yet; servers listen before clients are started.
InitSession(calls, memory) ==
  /\ todo = calls
  /\ conn = [p \in DOMAIN calls |-> <<>>]
  /\ backlog = [p \in DOMAIN calls |-> <<>>]
  /\ sock = <<>>
  /\ qp = <<>>
  /\ mem = memory
  /\ failed = {}
=============================================================================
