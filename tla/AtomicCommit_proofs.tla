------------------------- MODULE AtomicCommit_proofs -------------------------
(***************************************************************************)
(* Atomic commitment keeps its rounds together, for any set of cohorts.    *)
(* Module TwoPhaseCommit shows by TLC that the coordinator and cohorts of  *)
(* the repository implement ACSpec.                                        *)
(***************************************************************************)
EXTENDS AtomicCommit, TLAPS

ACInv == RoundCounts /\ AtomicRounds

LEMMA InitRounds == ACInit => ACInv
  BY DEF ACInit, ACInv, RoundCounts, AtomicRounds

\* Whoever votes has seen everybody commit, so nothing is undecided.
LEMMA VoteKeepsRounds ==
  ASSUME ACInv, NEW c \in Cohorts, Vote(c)
  PROVE  ACInv'
  BY DEF ACInv, RoundCounts, AtomicRounds, Vote

LEMMA DecideKeepsRounds ==
  ASSUME ACInv, Decide
  PROVE  ACInv'
  BY DEF ACInv, RoundCounts, AtomicRounds, Decide

LEMMA CommitKeepsRounds ==
  ASSUME ACInv, NEW c \in Cohorts, CommitRound(c)
  PROVE  ACInv'
  BY DEF ACInv, RoundCounts, AtomicRounds, CommitRound

\* The rounds of two-phase commit (Coordinator::start, Cohort::start_server
\* and their IPoIB versions): no cohort commits what another has not voted
\* for, and no two cohorts are ever more than one round apart.
THEOREM RoundsAreAtomic == ACSpec => []AtomicRounds
<1>1. ACInv /\ [ACNext]_acVars => ACInv'
  <2> SUFFICES ASSUME ACInv, [ACNext]_acVars PROVE ACInv'
    OBVIOUS
  <2>1. CASE Decide
    BY <2>1, DecideKeepsRounds
  <2>2. ASSUME NEW c \in Cohorts, Vote(c) PROVE ACInv'
    BY <2>2, VoteKeepsRounds
  <2>3. ASSUME NEW c \in Cohorts, CommitRound(c) PROVE ACInv'
    BY <2>3, CommitKeepsRounds
  <2>4. CASE UNCHANGED acVars
    BY <2>4 DEF acVars, ACInv, RoundCounts, AtomicRounds
  <2> QED
    BY <2>1, <2>2, <2>3, <2>4 DEF ACNext
<1>2. ACInv => AtomicRounds
  BY DEF ACInv
<1> QED
  BY InitRounds, <1>1, <1>2, PTL DEF ACSpec
=============================================================================
