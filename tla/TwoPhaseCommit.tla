---------------------------- MODULE TwoPhaseCommit ----------------------------
(***************************************************************************)
(* The two-phase-commit benchmarks of micro-benchmarks/2PC: a coordinator  *)
(* and its cohorts over SEND and RECEIVE (Send-Recv) or over sockets       *)
(* (IPoIB).  Neither side ever looks at a message: READY, YES, COMMIT and  *)
(* DONE are told apart by counting alone, and over Send-Recv the           *)
(* completions of a context's own SENDs arrive in the same queue.          *)
(*                                                                         *)
(* program.period stands for the 500 of "iteration % 500 == 0".            *)
(***************************************************************************)
EXTENDS Session

CONSTANT TwoPhaseCohorts    \* the cohorts, of every two-phase-commit program

Coordinator == <<"server", 1>>
Signaled(t) == (t - 1) % program.period = 0

-----------------------------------------------------------------------------
(* Send-Recv.                                                              *)

AskEach(m, signaled) ==
  ForEach(program.clients, LAMBDA i : post_RECEIVE(i) \o post_SEND(i, m, signaled))
HearEach(m) == ForEach(program.clients, LAMBDA i : poll_completion(i, JointCQ, m))

\* Mutant: COMMIT is sent without waiting for the votes.
CoordinatorRoundImpatient(t) ==
  AskEach("READY", FALSE) \o AskEach("COMMIT", Signaled(t))
    \o HearEach("YES") \o (IF Signaled(t) THEN HearEach("none") ELSE <<>>) \o HearEach("DONE")

CoordinatorRound(t) ==
  AskEach("READY", FALSE) \o HearEach("YES")
    \o AskEach("COMMIT", Signaled(t))
    \o (IF Signaled(t) THEN HearEach("none") ELSE <<>>)
    \o HearEach("DONE")

\* Mutant: the vote is sent before the receive for COMMIT is posted.
CohortRoundLateReceive(t) ==
  poll_completion(1, JointCQ, "READY") \o post_SEND(1, "YES", FALSE) \o post_RECEIVE(1)
    \o poll_completion(1, JointCQ, "COMMIT") \o post_RECEIVE(1) \o post_SEND(1, "DONE", Signaled(t))
    \o (IF Signaled(t) THEN poll_completion(1, JointCQ, "none") ELSE <<>>)

CohortRound(t) ==
  poll_completion(1, JointCQ, "READY") \o post_RECEIVE(1) \o post_SEND(1, "YES", FALSE)
    \o poll_completion(1, JointCQ, "COMMIT") \o post_RECEIVE(1) \o post_SEND(1, "DONE", Signaled(t))
    \o (IF Signaled(t) THEN poll_completion(1, JointCQ, "none") ELSE <<>>)

SyncEach == ForEach(program.clients, LAMBDA i : sock_sync_data(i, "W"))

Coordinator_start ==
  ForEach(program.clients, AcceptQueuePair)
    \o SyncEach \o ForEach(program.rounds, CoordinatorRound)
    \o ForEach(program.clients, FinishContext)

Cohort_start_server ==
  establish_tcp_connection(Coordinator) \o create_queuepair(1) \o connect_qp(1)
    \o post_RECEIVE(1) \o sock_sync_data(1, "W") \o ForEach(program.rounds, CohortRound)
    \o FinishContext(1)

-----------------------------------------------------------------------------
(* IPoIB.                                                                  *)

WriteEach(m) == ForEach(program.clients, LAMBDA i : sock_write(i, m))
ReadEach(m) == ForEach(program.clients, LAMBDA i : sock_read(i, m))

IPCoordinatorRound(t) ==
  WriteEach("READY") \o ReadEach("YES") \o WriteEach("COMMIT") \o ReadEach("DONE")

IPCohortRound(t) ==
  sock_read(1, "READY") \o sock_write(1, "YES") \o sock_read(1, "COMMIT") \o sock_write(1, "DONE")

IPCoordinator_start ==
  ForEach(program.clients, LAMBDA i : accept)
    \o SyncEach \o ForEach(program.rounds, IPCoordinatorRound)
    \o ForEach(program.clients, FinishContext)

IPCohort_start_server ==
  establish_tcp_connection(Coordinator) \o sock_sync_data(1, "W")
    \o ForEach(program.rounds, IPCohortRound) \o FinishContext(1)

InitTwoPhaseCommit ==
  LET procs == {Coordinator} \cup TwoPhaseCohorts IN
    InitSession(
      [p \in procs |-> CASE p = Coordinator /\ program.name = "2PC"   -> Coordinator_start
                         [] p = Coordinator /\ program.name = "IP2PC" -> IPCoordinator_start
                         [] p # Coordinator /\ program.name = "2PC"   -> Cohort_start_server
                         [] OTHER -> IPCohort_start_server],
      [p \in procs |-> <<>>])

-----------------------------------------------------------------------------
(* What a thread has done is what is gone from its calls.                  *)

IsTwoPhase == program.name \in {"2PC", "IP2PC"}

Says(call, m) ==
  \/ call.op = "sock_write" /\ call.msg = m
  \/ call.op = "post_SEND" /\ call.wr.opcode = "SEND" /\ call.wr.msg = m
Hears(call, m) == call.op \in {"sock_read", "poll_completion"} /\ call.msg = m

Gone(p, Is(_)) == IF IsTwoPhase THEN program.rounds - Len(SelectSeq(todo[p], Is)) ELSE 0

Voted == [c \in TwoPhaseCohorts |-> Gone(c, LAMBDA call : Says(call, "YES"))]
Committed == [c \in TwoPhaseCohorts |-> Gone(c, LAMBDA call : Hears(call, "COMMIT"))]

\* A round is decided with the first COMMIT that is sent.
Decided ==
  IF IsTwoPhase
  THEN LET left == Len(SelectSeq(todo[Coordinator], LAMBDA call : Says(call, "COMMIT"))) IN
         program.rounds - (left \div program.clients)
  ELSE 0

\* Both transports implement atomic commitment, whatever order requests,
\* answers, acknowledgements and completions come in.
AC == INSTANCE AtomicCommit
        WITH Cohorts <- TwoPhaseCohorts, voted <- Voted, decided <- Decided, committed <- Committed

ImplementsAtomicCommit == AC!ACSpec
=============================================================================
