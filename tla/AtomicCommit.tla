----------------------------- MODULE AtomicCommit -----------------------------
(***************************************************************************)
(* What two-phase commit promises, round by round, without its messages:   *)
(* the coordinator decides a round when every cohort has voted for it, no  *)
(* cohort commits an undecided round, and nobody votes for the next round  *)
(* before every cohort has committed this one.                             *)
(***************************************************************************)
EXTENDS Naturals

CONSTANT Cohorts

VARIABLES
  voted,      \* voted[c]: rounds cohort c has answered YES to
  decided,    \* rounds the coordinator has decided
  committed   \* committed[c]: rounds cohort c has committed

acVars == <<voted, decided, committed>>

ACInit ==
  /\ voted = [c \in Cohorts |-> 0]
  /\ decided = 0
  /\ committed = [c \in Cohorts |-> 0]

Vote(c) ==
  /\ \A d \in Cohorts : committed[d] = voted[c]
  /\ voted' = [voted EXCEPT ![c] = @ + 1]
  /\ UNCHANGED <<decided, committed>>

Decide ==
  /\ \A c \in Cohorts : voted[c] = decided + 1
  /\ decided' = decided + 1
  /\ UNCHANGED <<voted, committed>>

CommitRound(c) ==
  /\ committed[c] < decided
  /\ committed' = [committed EXCEPT ![c] = @ + 1]
  /\ UNCHANGED <<voted, decided>>

ACNext == Decide \/ \E c \in Cohorts : Vote(c) \/ CommitRound(c)

ACSpec == ACInit /\ [][ACNext]_acVars

-----------------------------------------------------------------------------
RoundCounts ==
  /\ voted \in [Cohorts -> Nat]
  /\ decided \in Nat
  /\ committed \in [Cohorts -> Nat]

\* All cohorts commit a round or none can: what one cohort has committed every
\* other one has voted for, and nobody votes a second time before all of them
\* have committed.  (Coordinator::start and Cohort::start_server wait for one
\* message of every peer between their phases.)
AtomicRounds ==
  \A c, d \in Cohorts :
    /\ committed[c] <= decided
    /\ decided <= voted[d]
    /\ voted[d] <= committed[c] + 1
=============================================================================
