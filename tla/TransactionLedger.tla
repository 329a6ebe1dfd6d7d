-------------------------- MODULE TransactionLedger --------------------------
(***************************************************************************)
(* What the update transactions promise of the rows they write, without    *)
(* reads, locks, versions and installs: a transaction takes effect on all  *)
(* its rows in one step, has received what they held just before, and      *)
(* shares no row with a transaction that is not announced yet.             *)
(***************************************************************************)
EXTENDS Naturals

CONSTANTS
    Clients,
    Rows,
    Footprints,   \* the sets of rows a transaction may write
    Timestamps

VARIABLES
    ledger,      \* ledger[r]: the commit timestamps of the transactions in row r
    pending,     \* pending[c]: the transaction c has committed and not announced
    announced    \* announced[c]: the last commit timestamp c announced

ledgerVars == <<ledger, pending, announced>>

Nothing == [ts |-> 0, rows |-> {}, received |-> <<>>]

LedgerInit ==
    /\ ledger = [r \in Rows |-> {}]
    /\ pending = [c \in Clients |-> Nothing]
    /\ announced = [c \in Clients |-> 0]

Commit(c, R, t) ==
    /\ pending[c] = Nothing
    /\ announced[c] < t
    /\ pending' = [pending EXCEPT ![c] =
                      [ts |-> t, rows |-> R, received |-> [r \in R |-> ledger[r]]]]
    /\ \A r \in Rows : t \notin ledger[r]
    /\ \A d \in Clients : pending[d].rows \cap R = {}
    /\ ledger' = [r \in Rows |-> IF r \in R THEN ledger[r] \cup {t} ELSE ledger[r]]
    /\ UNCHANGED announced

Announce(c) ==
    /\ pending[c] # Nothing
    /\ announced' = [announced EXCEPT ![c] = pending[c].ts]
    /\ pending' = [pending EXCEPT ![c] = Nothing]
    /\ UNCHANGED ledger

LedgerNext ==
    \E c \in Clients :
        \/ Announce(c)
        \/ \E R \in Footprints, t \in Timestamps : Commit(c, R, t)

LedgerSpec == LedgerInit /\ [][LedgerNext]_ledgerVars

\* Until a transaction is announced its rows are its own: they hold what it
\* received, and itself.
PendingIsExclusive ==
    \A c \in Clients :
        /\ \A r \in pending[c].rows : ledger[r] = pending[c].received[r] \cup {pending[c].ts}
        /\ \A d \in Clients \ {c} : pending[c].rows \cap pending[d].rows = {}
=============================================================================
