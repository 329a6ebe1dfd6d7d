----------------------------- MODULE MCPaymentTrx -----------------------------
(***************************************************************************)
(* Payment and New-Order on small instances.                               *)
(***************************************************************************)
EXTENDS PaymentTrx

CONSTANTS near, far   \* two memory servers

OneServer == [r \in Records |-> near]

\* Each client draws one commit timestamp.
OneEpoch == [c \in Clients |-> 1]

\* The buffers of a client that runs nothing and has nothing pending are dead,
\* but for the pointer lists: Payment never reads the customer's.
Quiet(c) == payPc[c] = "idle" /\ \A s \in Servers : queue[c][s] = <<>>

LiveOrder(c) ==
    IF pc[c] = "idle" THEN <<>>
    ELSE <<pc[c], items[c], localVector[c], copied[c], stage[c], won[c], cts[c],
           assignedOID[c], inserted[c],
           [r \in Records |->
               IF pc[c] = "snapshot" \/ (pc[c] = "execute" /\ stage[c][r] = 0) THEN <<>>
               ELSE IF pc[c] = "submit" THEN IF r \in items[c] THEN heads[c][r].ytd ELSE {}
               ELSE IF pc[c] = "execute" /\ stage[c][r] = 1 THEN heads[c][r].ts
               ELSE IF pc[c] = "execute" /\ stage[c][r] = 2 THEN heads[c][r]
               ELSE IF pc[c] \in {"lock", "revert", "install"} /\ r \in Refs THEN heads[c][r].ytd
               ELSE <<heads[c][r], lists[c][r]>>]>>

LivePayment(c) ==
    IF Quiet(c) THEN <<>>
    ELSE <<payPc[c], IF payPc[c] = "idle" THEN <<>> ELSE <<localVector[c], copied[c], cts[c], tried[c]>>,
           IF payPc[c] \in {"read", "update"} THEN payStage[c] ELSE 0,
           payNextOID[c],
           [r \in Refs |->
               IF payPc[c] = "snapshot" /\ queue[c][ServerOf[r]] = <<>> THEN <<>>
               ELSE IF payPc[c] = "read" /\ payStage[c] <= 3 * (Place(r) - 1) THEN <<>>
               ELSE IF payPc[c] = "read" /\ payStage[c] = 3 * (Place(r) - 1) + 1 THEN payHeads[c][r].ts
               ELSE payHeads[c][r]]>>

LiveState ==
    <<serverVars, orderVars, oracleVars, journal, nextEpoch, orderRID,
      [c \in Clients |-> LiveOrder(c)], [c \in Clients |-> LivePayment(c)],
      [c \in Clients |-> payLists[c][Customer]],
      [c \in Clients |-> IF Quiet(c) THEN <<>> ELSE payLists[c]],
      payWon, queue, historyServer>>
=============================================================================
