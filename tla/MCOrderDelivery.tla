---------------------------- MODULE MCOrderDelivery ----------------------------
(***************************************************************************)
(* Clients that order, deliver or do both.                                 *)
(***************************************************************************)
EXTENDS OrderDelivery, TLC

CONSTANTS c1, c2, c3, u1

\* Clients with the same roles are interchangeable.
ClientSymmetry ==
    Permutations(Orderers \cap Deliverers) \cup Permutations(Deliverers \ Orderers)
        \cup Permutations(Orderers \ Deliverers)

\* What a client remembers of its last transaction is not read again.
Remembered(c) ==
    <<IF pc[c] \in {"idle", "oldest"} THEN None ELSE order[c],
      IF pc[c] \in {"address", "compare", "put", "push", "lines", "submit"} THEN customer[c] ELSE None,
      IF pc[c] \in {"oldest", "locate", "readOrder", "readNewOrder"} THEN snapshot[c] ELSE {},
      IF pc[c] \in DeliverySteps \ {"oldest", "locate", "readOrder"} THEN deliveriesRead[c] ELSE 0>>

LiveState ==
    <<nextOID, indexVars, announced, rowVars, pc, [c \in Clients |-> Remembered(c)]>>
=============================================================================
