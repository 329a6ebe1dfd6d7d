---------------------------- MODULE MCNewOrderTrx ----------------------------
(***************************************************************************)
(* New-Order on a small instance: the clients' carts overlap, and a client *)
(* runs several transactions, so that versions and order slots are reused. *)
(***************************************************************************)
EXTENDS NewOrderTrx, TLC

StockSymmetry == Permutations(Stocks)

\* Client 0 runs twice against one transaction of each other client.
Epochs == [c \in Clients |-> IF c = 0 THEN 2 ELSE 1]

\* Each client draws one commit timestamp.
OneEpoch == [c \in Clients |-> 1]

\* A client's buffers are dead between transactions, and before the reads of a
\* transaction fill them: states that differ only there are explored once.  (The
\* rows are kept until SubmitResult because the stock ledger shows them.)
LiveBuffer(c, r) ==
    CASE pc[c] = "idle" -> <<>>
      [] pc[c] = "execute" /\ stage[c][r] = 1 -> heads[c][r].ts
      [] pc[c] = "execute" /\ stage[c][r] = 2 -> heads[c][r]
      [] pc[c] = "execute" /\ stage[c][r] = 3 -> <<heads[c][r], lists[c][r]>>
      [] pc[c] \in {"recheck", "lock", "install"} /\ r \in ReadSet(c) ->
            <<heads[c][r], lists[c][r]>>
      [] pc[c] = "revert" /\ r \in won[c] -> heads[c][r]
      [] pc[c] = "submit" /\ r \in items[c] -> heads[c][r].ytd
      [] OTHER -> <<>>

LiveTransaction(c) ==
    IF pc[c] = "idle" THEN <<"idle">>
    ELSE <<pc[c], items[c], localVector[c], copied[c], stage[c], won[c], cts[c],
           assignedOID[c], inserted[c]>>

LiveState ==
    <<serverVars, orderVars, oracleVars, journal, nextEpoch, orderRID,
      [c \in Clients |-> LiveTransaction(c)],
      [c \in Clients |-> [r \in Records |-> LiveBuffer(c, r)]]>>
=============================================================================
