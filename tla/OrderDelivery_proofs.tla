-------------------------- MODULE OrderDelivery_proofs --------------------------
(***************************************************************************)
(* Proofs about orders and their deliveries, for any number of clients and *)
(* orders: no order is delivered twice, whatever the queue offers again,   *)
(* and registerDelivery never pops an empty queue.                         *)
(*                                                                         *)
(* The argument.  A delivery installs only while it holds the lock of the  *)
(* order's NEW-ORDER row, which had to be free when it was taken.  The     *)
(* client that ordered may write a deleted row over a lock that another    *)
(* client holds, but that does not free it: there is still one holder, and *)
(* only the holder reverts the lock.  So the lock of a delivered order is  *)
(* never free again: the install leaves it, or deletes the row, and only a *)
(* delivery that did not install reverts it.                               *)
(***************************************************************************)
EXTENDS OrderDelivery, TLAPS, WellFoundedInduction, FiniteSetTheorems

\* A client past the lookup knows its order.
OrderKnown ==
    \A c \in Clients : pc[c] \notin {"idle", "oldest"} => order[c] \in OrderIDs

\* A client that took the NEW-ORDER lock of its order, and has not delivered it.
HoldsNewOrder(c) == pc[c] \in {"lockCustomer", "revertBoth", "revertNewOrder", "install"}

\* The lock is not free meanwhile, whether its owner's or deleted, and nobody
\* else took it.
NewOrderLockInv ==
    \A c \in Clients :
        HoldsNewOrder(c) =>
            /\ newOrderRow[order[c]].lock # None
            /\ orderRow[order[c]].deliveries = 0
            /\ \A d \in Clients \ {c} : HoldsNewOrder(d) => order[d] # order[c]

\* A client that holds the ORDER lock of its order holds the row it read.
HoldsOrder(c) ==
    pc[c] \in {"lockNewOrder", "lockCustomer", "revertOrder", "revertBoth", "install"}

OrderLockInv ==
    \A c \in Clients :
        HoldsOrder(c) =>
            /\ orderRow[order[c]].lock = c
            /\ orderRow[order[c]].deliveries = deliveriesRead[c]

\* An order whose NEW-ORDER lock is free was not delivered.
FreeOrdersUndelivered ==
    \A o \in OrderIDs : newOrderRow[o].lock = None => orderRow[o].deliveries = 0

DeliveryInv ==
    /\ TypeOK
    /\ OrderKnown
    /\ NewOrderLockInv
    /\ OrderLockInv
    /\ FreeOrdersUndelivered
    /\ DeliveredAtMostOnce

-----------------------------------------------------------------------------
\* The least element of a set of orders is in the set.
LEMMA MinIsMember ==
    ASSUME NEW S \in SUBSET OrderIDs, S # {}
    PROVE  Min(S) \in S
<1>1. S \subseteq Nat
    BY DEF OrderIDs
<1>2. \E x \in S : \A y \in S : ~(<<y, x>> \in OpToRel(<, Nat))
    BY <1>1, NatLessThanWellFounded, WFMin
<1>3. PICK x \in S : \A y \in S : ~(<<y, x>> \in OpToRel(<, Nat))
    BY <1>2
<1>4. \A y \in S : ~(y < x)
    BY <1>1, <1>3 DEF OpToRel
<1>5. \A y \in S : x <= y
    BY <1>1, <1>4
<1> QED
    BY <1>5 DEF Min

\* The invariant holds initially: nothing was ordered, locked or delivered.
LEMMA InitInv == Init => DeliveryInv
<1> SUFFICES ASSUME Init PROVE DeliveryInv
    OBVIOUS
<1>1. TypeOK
    BY MaxOrdersAssumption DEF Init, TypeOK, OrderIDs
<1>2. OrderKnown /\ NewOrderLockInv /\ OrderLockInv
    BY DEF Init, OrderKnown, NewOrderLockInv, OrderLockInv, HoldsNewOrder, HoldsOrder
<1>3. FreeOrdersUndelivered /\ DeliveredAtMostOnce
    BY DEF Init, FreeOrdersUndelivered, DeliveredAtMostOnce
<1> QED
    BY <1>1, <1>2, <1>3 DEF DeliveryInv
-----------------------------------------------------------------------------
\* A step of c that touches no row and after which c holds no lock.
Elsewhere ==
    {"idle", "address", "compare", "put", "push", "lines", "submit", "oldest", "locate",
     "readOrder", "readNewOrder", "lockOrder", "lockNewOrderOnly", "register", "submitDelivery"}

RowsUntouched(c) ==
    /\ UNCHANGED <<orderRow, newOrderRow>>
    /\ \E to \in Elsewhere : pc' = [pc EXCEPT ![c] = to]
    /\ \A d \in Clients \ {c} : order'[d] = order[d] /\ deliveriesRead'[d] = deliveriesRead[d]

\* Such a step keeps the facts about locks.
LEMMA UntouchedStep ==
    ASSUME TypeOK, NewOrderLockInv, OrderLockInv, FreeOrdersUndelivered, DeliveredAtMostOnce,
           NEW c \in Clients, RowsUntouched(c)
    PROVE  NewOrderLockInv' /\ OrderLockInv' /\ FreeOrdersUndelivered' /\ DeliveredAtMostOnce'
<1>1. PICK to \in Elsewhere : pc' = [pc EXCEPT ![c] = to]
    BY DEF RowsUntouched
<1>2. pc'[c] \in Elsewhere /\ \A d \in Clients \ {c} : pc'[d] = pc[d]
    BY <1>1 DEF TypeOK
<1>3. ~HoldsNewOrder(c)' /\ ~HoldsOrder(c)'
    BY <1>2 DEF HoldsNewOrder, HoldsOrder, Elsewhere
<1>4. NewOrderLockInv'
    <2>1. \A d \in Clients : HoldsNewOrder(d)' => d # c /\ HoldsNewOrder(d) /\ order'[d] = order[d]
        BY <1>2, <1>3 DEF HoldsNewOrder, RowsUntouched
    <2>2. UNCHANGED <<orderRow, newOrderRow>>
        BY DEF RowsUntouched
    <2> QED
        BY <2>1, <2>2 DEF NewOrderLockInv
<1>5. OrderLockInv'
    BY <1>2, <1>3 DEF OrderLockInv, HoldsOrder, RowsUntouched
<1>6. FreeOrdersUndelivered' /\ DeliveredAtMostOnce'
    BY DEF FreeOrdersUndelivered, DeliveredAtMostOnce, RowsUntouched
<1> QED
    BY <1>4, <1>5, <1>6

-----------------------------------------------------------------------------
\* Registering an order keeps the types, and touches no row.
LEMMA OrderStep ==
    ASSUME TypeOK, OrderKnown, NEW c \in Orderers, PlaceOrder(c) \/ Order(c)
    PROVE  TypeOK' /\ OrderKnown' /\ RowsUntouched(c)
<1> c \in Clients
    BY DEF Clients
<1>1. CASE PlaceOrder(c)
    <2>1. nextOID \in OrderIDs /\ nextOID + 1 \in 0 .. MaxOrders
        BY <1>1, MaxOrdersAssumption DEF TypeOK, OrderIDs, PlaceOrder
    <2>2. pc'[c] = "address" /\ (\A d \in Clients \ {c} : pc'[d] = pc[d])
        BY <1>1 DEF TypeOK, PlaceOrder, Goto
    <2>3. TypeOK'
        BY <1>1, <2>1 DEF TypeOK, PlaceOrder, Goto, indexVars, rowVars, DeliverySteps
    <2>4. OrderKnown'
        BY <1>1, <2>1, <2>2 DEF TypeOK, OrderKnown, PlaceOrder
    <2>5. RowsUntouched(c)
        BY <1>1 DEF TypeOK, RowsUntouched, Elsewhere, PlaceOrder, Goto, rowVars
    <2> QED
        BY <2>3, <2>4, <2>5
<1>2. CASE PutOrderAddress(c)
    BY <1>2 DEF TypeOK, OrderKnown, RowsUntouched, Elsewhere, PutOrderAddress, Goto, rowVars,
        clientVars, DeliverySteps
<1>3. CASE CompareLargest(c)
    BY <1>3 DEF TypeOK, OrderKnown, RowsUntouched, Elsewhere, CompareLargest, Goto, indexVars, rowVars,
        clientVars, DeliverySteps
<1>4. CASE PutLargest(c)
    BY <1>4 DEF TypeOK, OrderKnown, RowsUntouched, Elsewhere, PutLargest, Goto, rowVars,
        clientVars, DeliverySteps
<1>5. CASE PushNewOrder(c)
    BY <1>5 DEF TypeOK, OrderKnown, RowsUntouched, Elsewhere, PushNewOrder, Goto, rowVars,
        clientVars, DeliverySteps
<1>6. CASE PutLineAddress(c)
    BY <1>6 DEF TypeOK, OrderKnown, RowsUntouched, Elsewhere, PutLineAddress, Goto, rowVars,
        clientVars, DeliverySteps
<1>7. CASE SubmitOrder(c)
    BY <1>7 DEF TypeOK, OrderKnown, RowsUntouched, Elsewhere, SubmitOrder, Goto, indexVars, rowVars,
        clientVars, DeliverySteps
<1> QED
    BY <1>1, <1>2, <1>3, <1>4, <1>5, <1>6, <1>7 DEF Order

\* So do the steps of a delivery that touch no row.
Quiet(c) ==
    \/ StartDelivery(c)
    \/ GetOldestNewOrder(c)
    \/ NoUndeliveredOrder(c)
    \/ LocateRows(c)
    \/ ReadOrder(c)
    \/ OrderInconsistentAbort(c)
    \/ ReadNewOrder(c)
    \/ InconsistentAbort(c)
    \/ RegisterDelivery(c)
    \/ SubmitDelivery(c)

LEMMA QuietStep ==
    ASSUME TypeOK, OrderKnown, NEW c \in Deliverers, Quiet(c)
    PROVE  TypeOK' /\ OrderKnown' /\ RowsUntouched(c)
<1> c \in Clients
    BY DEF Clients
<1>1. CASE StartDelivery(c)
    BY <1>1 DEF TypeOK, OrderKnown, RowsUntouched, Elsewhere, StartDelivery, Goto, indexVars, rowVars,
        DeliverySteps
<1>2. CASE GetOldestNewOrder(c)
    <2>1. Min(newOrderQueue) \in OrderIDs
        BY <1>2, MinIsMember DEF GetOldestNewOrder, TypeOK
    <2> QED
        BY <1>2, <2>1 DEF TypeOK, OrderKnown, RowsUntouched, Elsewhere, GetOldestNewOrder, Goto,
            indexVars, rowVars, DeliverySteps
<1>3. CASE NoUndeliveredOrder(c)
    BY <1>3 DEF TypeOK, OrderKnown, RowsUntouched, Elsewhere, NoUndeliveredOrder, Goto, indexVars,
        rowVars, clientVars, DeliverySteps
<1>4. CASE LocateRows(c)
    BY <1>4 DEF TypeOK, OrderKnown, RowsUntouched, Elsewhere, LocateRows, Goto, indexVars, rowVars,
        clientVars, DeliverySteps
<1>5. CASE ReadOrder(c)
    <2>1. orderRow[order[c]].deliveries \in Nat
        BY <1>5 DEF ReadOrder, Goto, OrderKnown, TypeOK
    <2> QED
        BY <1>5, <2>1 DEF TypeOK, OrderKnown, RowsUntouched, Elsewhere, ReadOrder, Goto, indexVars,
            rowVars, DeliverySteps
<1>6. CASE OrderInconsistentAbort(c)
    BY <1>6 DEF TypeOK, OrderKnown, RowsUntouched, Elsewhere, OrderInconsistentAbort, Goto, indexVars,
        rowVars, clientVars, DeliverySteps
<1>7. CASE ReadNewOrder(c)
    BY <1>7 DEF TypeOK, OrderKnown, RowsUntouched, Elsewhere, ReadNewOrder, Goto, indexVars, rowVars,
        clientVars, DeliverySteps
<1>8. CASE InconsistentAbort(c)
    BY <1>8 DEF TypeOK, OrderKnown, RowsUntouched, Elsewhere, InconsistentAbort, Goto, indexVars,
        rowVars, clientVars, DeliverySteps
<1>9. CASE RegisterDelivery(c)
    BY <1>9 DEF TypeOK, OrderKnown, RowsUntouched, Elsewhere, RegisterDelivery, Goto, rowVars,
        clientVars, DeliverySteps
<1>10. CASE SubmitDelivery(c)
    <2>1. order[c] \in OrderIDs /\ deliveriesRead[c] + 1 \in Nat
        BY <1>10 DEF SubmitDelivery, Goto, OrderKnown, TypeOK
    <2> QED
        BY <1>10, <2>1 DEF TypeOK, OrderKnown, RowsUntouched, Elsewhere, SubmitDelivery, Goto,
            indexVars, rowVars, clientVars, DeliverySteps
<1> QED
    BY <1>1, <1>2, <1>3, <1>4, <1>5, <1>6, <1>7, <1>8, <1>9, <1>10 DEF Quiet

-----------------------------------------------------------------------------
\* The deleted row that a delivery writes to slot 0 frees no lock.
LEMMA DeletedRowIsNotFree ==
    ASSUME TypeOK, NEW c \in Clients, NEW id \in OrderIDs
    PROVE  /\ WriteDeletedRow(c, id) \in [OrderIDs -> [lock : Deliverers \cup {None, Deleted}, id : OrderIDs]]
           /\ \A o \in OrderIDs : WriteDeletedRow(c, id)[o].lock = None => newOrderRow[o].lock = None
    BY DeletedAssumption DEF WriteDeletedRow, TypeOK

\* So a delivery in another district keeps the invariant.
LEMMA ElsewhereStep ==
    ASSUME DeliveryInv, NEW c \in Deliverers, InstallElsewhere(c)
    PROVE  DeliveryInv'
<1> USE DEF DeliveryInv
<1>1. PICK id \in OrderIDs : newOrderRow' = WriteDeletedRow(c, id)
    BY DEF InstallElsewhere
<1>2. /\ UNCHANGED <<nextOID, orderAddress, lineAddress, largestOrder, newOrderQueue, announced,
                     orderRow, firstOrder, pc, order, customer, snapshot, deliveriesRead>>
      /\ newOrderRow' \in [OrderIDs -> [lock : Deliverers \cup {None, Deleted}, id : OrderIDs]]
      /\ \A o \in OrderIDs : newOrderRow'[o].lock = None => newOrderRow[o].lock = None
    BY <1>1, DeletedRowIsNotFree DEF InstallElsewhere, indexVars, clientVars, Clients
<1>3. TypeOK' /\ OrderKnown'
    BY <1>2 DEF TypeOK, OrderKnown
<1>4. \A d \in Clients : HoldsNewOrder(d) => order[d] \in OrderIDs
    BY DEF OrderKnown, HoldsNewOrder
<1>5. NewOrderLockInv' /\ OrderLockInv'
    BY <1>2, <1>4 DEF NewOrderLockInv, OrderLockInv, HoldsNewOrder, HoldsOrder
<1>6. FreeOrdersUndelivered' /\ DeliveredAtMostOnce'
    BY <1>2 DEF FreeOrdersUndelivered, DeliveredAtMostOnce
<1> QED
    BY <1>3, <1>5, <1>6

-----------------------------------------------------------------------------
\* The steps that take, give back or use a lock keep the types.
Locks(c) ==
    \/ LockOrder(c)
    \/ LockNewOrder(c)
    \/ LockNewOrderOnly(c)
    \/ LockCustomer(c)
    \/ CustomerLockRefused(c)
    \/ RevertOrderLock(c)
    \/ RevertNewOrderLock(c)
    \/ Install(c)

\* What every step of Locks(c) leaves alone, and where it happens.
LEMMA LocksFrame ==
    ASSUME TypeOK, OrderKnown, NEW c \in Deliverers, Locks(c)
    PROVE  /\ c \in Clients /\ order[c] \in OrderIDs /\ deliveriesRead[c] \in Nat
           /\ UNCHANGED <<order, deliveriesRead>>
           /\ \A d \in Clients \ {c} : pc'[d] = pc[d]
           /\ c # None
<1> c \in Clients
    BY DEF Clients
<1>1. pc[c] \notin {"idle", "oldest"}
    BY DEF Locks, LockOrder, LockNewOrder, LockNewOrderOnly, LockCustomer, CustomerLockRefused,
        RevertOrderLock, RevertNewOrderLock, Install, Goto
<1>2. order[c] \in OrderIDs /\ deliveriesRead[c] \in Nat
    BY <1>1 DEF OrderKnown, TypeOK
<1>3. UNCHANGED clientVars
    BY DEF Locks, LockOrder, LockNewOrder, LockNewOrderOnly, LockCustomer, CustomerLockRefused,
        RevertOrderLock, RevertNewOrderLock, Install
<1>4. \A d \in Clients \ {c} : pc'[d] = pc[d]
    BY DEF Locks, LockOrder, LockNewOrder, LockNewOrderOnly, LockCustomer, CustomerLockRefused,
        RevertOrderLock, RevertNewOrderLock, Install, Goto, TypeOK
<1>5. c # None
    BY NoneAssumption
<1> QED
    BY <1>2, <1>3, <1>4, <1>5 DEF clientVars

LEMMA LocksType ==
    ASSUME TypeOK, OrderKnown, NEW c \in Deliverers, Locks(c)
    PROVE  TypeOK' /\ OrderKnown'
<1>1. c \in Clients /\ order[c] \in OrderIDs /\ deliveriesRead[c] \in Nat
    BY LocksFrame
<1>2. CASE LockOrder(c)
    BY <1>1, <1>2 DEF TypeOK, OrderKnown, LockOrder, Goto, indexVars, clientVars, DeliverySteps
<1>3. CASE LockNewOrder(c)
    BY <1>1, <1>3 DEF TypeOK, OrderKnown, LockNewOrder, LockedNewOrder, Goto, indexVars, clientVars,
        DeliverySteps
<1>4. CASE LockNewOrderOnly(c)
    BY <1>1, <1>4 DEF TypeOK, OrderKnown, LockNewOrderOnly, LockedNewOrder, Goto, indexVars,
        clientVars, DeliverySteps
<1>5. CASE LockCustomer(c) \/ CustomerLockRefused(c)
    BY <1>1, <1>5 DEF TypeOK, OrderKnown, LockCustomer, CustomerLockRefused, Goto, indexVars, rowVars,
        clientVars, DeliverySteps
<1>6. CASE RevertOrderLock(c)
    <2>1. /\ pc[c] \in {"revertOrder", "revertBoth"}
          /\ pc' = [pc EXCEPT ![c] = "idle"] \/ pc' = [pc EXCEPT ![c] = "revertNewOrder"]
          /\ orderRow' = [orderRow EXCEPT ![order[c]].lock = None]
          /\ UNCHANGED <<nextOID, orderAddress, lineAddress, largestOrder, newOrderQueue, announced,
                         newOrderRow, firstOrder, order, customer, snapshot, deliveriesRead>>
        BY <1>6 DEF RevertOrderLock, Goto, indexVars, clientVars
    <2>2. orderRow' \in [OrderIDs -> [lock : Deliverers \cup {None}, deliveries : Nat]]
        BY <1>1, <2>1 DEF TypeOK
    <2>3. TypeOK'
        BY <1>1, <2>1, <2>2 DEF TypeOK, DeliverySteps
    <2>4. OrderKnown'
        BY <1>1, <2>1 DEF TypeOK, OrderKnown
    <2> QED
        BY <2>3, <2>4
<1>7. CASE RevertNewOrderLock(c)
    BY <1>1, <1>7 DEF TypeOK, OrderKnown, RevertNewOrderLock, Goto, indexVars, clientVars,
        DeliverySteps
<1>8. CASE Install(c)
    BY <1>1, <1>8, DeletedRowIsNotFree DEF TypeOK, OrderKnown, Install, Goto, indexVars, clientVars,
        DeliverySteps
<1> QED
    BY <1>2, <1>3, <1>4, <1>5, <1>6, <1>7, <1>8 DEF Locks

\* They keep the facts about locks: c changes the lock of its order only when it
\* is free or its own, so what the others hold stays.
LEMMA LocksStep ==
    ASSUME DeliveryInv, NEW c \in Deliverers, Locks(c)
    PROVE  NewOrderLockInv' /\ OrderLockInv' /\ FreeOrdersUndelivered' /\ DeliveredAtMostOnce'
<1> USE DEF DeliveryInv
<1>1. /\ c \in Clients /\ order[c] \in OrderIDs /\ deliveriesRead[c] \in Nat
      /\ UNCHANGED <<order, deliveriesRead>>
      /\ \A d \in Clients \ {c} : pc'[d] = pc[d]
      /\ c # None
    BY LocksFrame
<1>2. \A d \in Clients : (HoldsNewOrder(d) \/ HoldsOrder(d)) => order[d] \in OrderIDs
    BY DEF OrderKnown, HoldsNewOrder, HoldsOrder
<1>3. \A d \in Clients : d # None
    BY NoneAssumption DEF Clients
<1>4. CASE LockOrder(c)
    <2>1. pc'[c] \in {"lockNewOrder", "lockNewOrderOnly"} /\ ~HoldsNewOrder(c)'
        BY <1>1, <1>4 DEF LockOrder, Goto, TypeOK, HoldsNewOrder
    <2>2. \A o \in OrderIDs : orderRow'[o].deliveries = orderRow[o].deliveries
        BY <1>1, <1>4 DEF LockOrder, OrderUnchanged, TypeOK
    <2>3. UNCHANGED newOrderRow
        BY <1>4 DEF LockOrder
    <2>4. NewOrderLockInv'
        BY <1>1, <1>2, <2>1, <2>2, <2>3 DEF NewOrderLockInv, HoldsNewOrder
    <2>5. \A d \in Clients \ {c} : HoldsOrder(d) => orderRow'[order[d]] = orderRow[order[d]]
        BY <1>1, <1>2, <1>3, <1>4 DEF LockOrder, OrderUnchanged, OrderLockInv, TypeOK
    <2>6. HoldsOrder(c)' => orderRow'[order[c]] = [lock |-> c, deliveries |-> deliveriesRead[c]]
        BY <1>1, <1>4 DEF LockOrder, Goto, TypeOK, HoldsOrder
    <2>7. OrderLockInv'
        BY <1>1, <2>5, <2>6 DEF OrderLockInv, HoldsOrder
    <2> QED
        BY <2>2, <2>3, <2>4, <2>7 DEF FreeOrdersUndelivered, DeliveredAtMostOnce
<1>5. CASE LockNewOrder(c) \/ LockNewOrderOnly(c)
    <2>1. UNCHANGED orderRow
        BY <1>5 DEF LockNewOrder, LockNewOrderOnly
    <2>2. newOrderRow' = LockedNewOrder(c)
        BY <1>5 DEF LockNewOrder, LockNewOrderOnly
    <2>3. HoldsNewOrder(c)' => NewOrderUnchanged(c)
        BY <1>1, <1>5 DEF LockNewOrder, LockNewOrderOnly, Goto, TypeOK, HoldsNewOrder
    <2>4. HoldsNewOrder(c)' =>
              /\ newOrderRow'[order[c]].lock # None /\ orderRow[order[c]].deliveries = 0
              /\ \A d \in Clients : HoldsNewOrder(d) => order[d] # order[c]
        BY <1>1, <2>2, <2>3 DEF LockedNewOrder, NewOrderUnchanged, FreeOrdersUndelivered,
            NewOrderLockInv, TypeOK
    <2>5. \A o \in OrderIDs : newOrderRow'[o].lock = None => newOrderRow[o].lock = None
        BY <1>1, <2>2 DEF LockedNewOrder, TypeOK
    <2>6. NewOrderLockInv'
        <3>1. \A d \in Clients \ {c} : HoldsNewOrder(d)' <=> HoldsNewOrder(d)
            BY <1>1 DEF HoldsNewOrder
        <3> QED
            BY <1>1, <1>2, <2>1, <2>4, <2>5, <3>1 DEF NewOrderLockInv
    <2>7. HoldsOrder(c)' => HoldsOrder(c)
        BY <1>1, <1>5 DEF LockNewOrder, LockNewOrderOnly, Goto, TypeOK, HoldsOrder
    <2>8. OrderLockInv'
        BY <1>1, <2>1, <2>7 DEF OrderLockInv, HoldsOrder
    <2> QED
        BY <2>1, <2>5, <2>6, <2>8 DEF FreeOrdersUndelivered, DeliveredAtMostOnce
<1>6. CASE LockCustomer(c) \/ CustomerLockRefused(c)
    <2>1. UNCHANGED <<orderRow, newOrderRow>>
        BY <1>6 DEF LockCustomer, CustomerLockRefused, rowVars
    <2>2. HoldsNewOrder(c) /\ HoldsOrder(c)
        BY <1>6 DEF LockCustomer, CustomerLockRefused, Goto, HoldsNewOrder, HoldsOrder
    <2>3. \A d \in Clients :
              (HoldsNewOrder(d)' => HoldsNewOrder(d)) /\ (HoldsOrder(d)' => HoldsOrder(d))
        BY <1>1, <2>2 DEF HoldsNewOrder, HoldsOrder
    <2>4. NewOrderLockInv' /\ OrderLockInv'
        BY <1>1, <2>1, <2>3 DEF NewOrderLockInv, OrderLockInv
    <2> QED
        BY <2>1, <2>4 DEF FreeOrdersUndelivered, DeliveredAtMostOnce
<1>7. CASE RevertOrderLock(c)
    <2>1. HoldsOrder(c) /\ ~HoldsOrder(c)' /\ (HoldsNewOrder(c)' => HoldsNewOrder(c))
        BY <1>1, <1>7 DEF RevertOrderLock, Goto, TypeOK, HoldsOrder, HoldsNewOrder
    <2>2. UNCHANGED newOrderRow /\ orderRow' = [orderRow EXCEPT ![order[c]].lock = None]
        BY <1>7 DEF RevertOrderLock
    <2>3. \A o \in OrderIDs : orderRow'[o].deliveries = orderRow[o].deliveries
        BY <1>1, <2>2 DEF TypeOK
    <2>4. NewOrderLockInv'
        BY <1>1, <1>2, <2>1, <2>2, <2>3 DEF NewOrderLockInv, HoldsNewOrder
    <2>5. \A d \in Clients \ {c} : HoldsOrder(d) => order[d] # order[c]
        BY <1>1, <2>1 DEF OrderLockInv
    <2>6. OrderLockInv'
        BY <1>1, <1>2, <2>1, <2>2, <2>5 DEF OrderLockInv, HoldsOrder, TypeOK
    <2> QED
        BY <2>2, <2>3, <2>4, <2>6 DEF FreeOrdersUndelivered, DeliveredAtMostOnce
<1>8. CASE RevertNewOrderLock(c)
    <2>1. HoldsNewOrder(c) /\ ~HoldsNewOrder(c)' /\ ~HoldsOrder(c)'
        BY <1>1, <1>8 DEF RevertNewOrderLock, Goto, TypeOK, HoldsNewOrder, HoldsOrder
    <2>2. UNCHANGED orderRow /\ newOrderRow' = [newOrderRow EXCEPT ![order[c]].lock = None]
        BY <1>8 DEF RevertNewOrderLock
    <2>3. \A d \in Clients \ {c} : HoldsNewOrder(d) => order[d] # order[c]
        BY <1>1, <2>1 DEF NewOrderLockInv
    <2>4. NewOrderLockInv'
        BY <1>1, <1>2, <2>1, <2>2, <2>3 DEF NewOrderLockInv, HoldsNewOrder, TypeOK
    <2>5. OrderLockInv'
        BY <1>1, <2>1, <2>2 DEF OrderLockInv, HoldsOrder
    <2>6. FreeOrdersUndelivered'
        BY <1>1, <2>1, <2>2 DEF FreeOrdersUndelivered, NewOrderLockInv, TypeOK
    <2> QED
        BY <2>2, <2>4, <2>5, <2>6 DEF DeliveredAtMostOnce
<1>9. CASE Install(c)
    <2>1. HoldsNewOrder(c) /\ HoldsOrder(c) /\ ~HoldsNewOrder(c)' /\ ~HoldsOrder(c)'
        BY <1>1, <1>9 DEF Install, Goto, TypeOK, HoldsNewOrder, HoldsOrder
    <2>2. newOrderRow[order[c]].lock # None /\ orderRow[order[c]].deliveries = 0 /\ deliveriesRead[c] = 0
        BY <1>1, <2>1 DEF NewOrderLockInv, OrderLockInv
    <2>3. /\ newOrderRow' = WriteDeletedRow(c, order[c])
          /\ orderRow' = [orderRow EXCEPT ![order[c]] = [lock |-> None, deliveries |-> 1]]
          /\ \A o \in OrderIDs : newOrderRow'[o].lock = None => newOrderRow[o].lock = None
        BY <1>1, <1>9, <2>2, DeletedRowIsNotFree DEF Install
    <2>4. \A d \in Clients \ {c} : (HoldsNewOrder(d) \/ HoldsOrder(d)) => order[d] # order[c]
        BY <1>1, <2>1 DEF NewOrderLockInv, OrderLockInv
    <2>5. NewOrderLockInv'
        BY <1>1, <1>2, <2>1, <2>3, <2>4 DEF NewOrderLockInv, HoldsNewOrder, TypeOK
    <2>6. OrderLockInv'
        BY <1>1, <1>2, <2>1, <2>3, <2>4 DEF OrderLockInv, HoldsOrder, TypeOK
    <2>7. FreeOrdersUndelivered'
        BY <1>1, <2>2, <2>3 DEF FreeOrdersUndelivered, TypeOK
    <2>8. DeliveredAtMostOnce'
        BY <1>1, <2>3 DEF DeliveredAtMostOnce, TypeOK
    <2> QED
        BY <2>5, <2>6, <2>7, <2>8
<1> QED
    BY <1>4, <1>5, <1>6, <1>7, <1>8, <1>9 DEF Locks

-----------------------------------------------------------------------------
\* The inductive step.
LEMMA NextInv == DeliveryInv /\ [Next]_vars => DeliveryInv'
<1> SUFFICES ASSUME DeliveryInv, [Next]_vars PROVE DeliveryInv'
    OBVIOUS
<1>1. CASE UNCHANGED vars
    BY <1>1 DEF DeliveryInv, TypeOK, OrderKnown, NewOrderLockInv, HoldsNewOrder, OrderLockInv,
        HoldsOrder, FreeOrdersUndelivered, DeliveredAtMostOnce, vars, indexVars, rowVars, clientVars
<1>2. ASSUME NEW c \in Orderers, PlaceOrder(c) \/ Order(c) PROVE DeliveryInv'
    <2>1. c \in Clients
        BY DEF Clients
    <2>2. TypeOK' /\ OrderKnown' /\ RowsUntouched(c)
        BY <1>2, OrderStep DEF DeliveryInv
    <2> QED
        BY <2>1, <2>2, UntouchedStep DEF DeliveryInv
<1>3. ASSUME NEW c \in Deliverers, Quiet(c) PROVE DeliveryInv'
    <2>1. c \in Clients
        BY DEF Clients
    <2>2. TypeOK' /\ OrderKnown' /\ RowsUntouched(c)
        BY <1>3, QuietStep DEF DeliveryInv
    <2> QED
        BY <2>1, <2>2, UntouchedStep DEF DeliveryInv
<1>4. ASSUME NEW c \in Deliverers, Locks(c) PROVE DeliveryInv'
    <2>1. TypeOK' /\ OrderKnown'
        BY <1>4, LocksType DEF DeliveryInv
    <2>2. NewOrderLockInv' /\ OrderLockInv' /\ FreeOrdersUndelivered' /\ DeliveredAtMostOnce'
        BY <1>4, LocksStep
    <2> QED
        BY <2>1, <2>2 DEF DeliveryInv
<1>5. ASSUME NEW c \in Deliverers, StartDelivery(c) \/ Deliver(c) PROVE Quiet(c) \/ Locks(c)
    BY <1>5 DEF Deliver, Quiet, Locks
<1> QED
    BY <1>1, <1>2, <1>3, <1>4, <1>5, ElsewhereStep DEF Next

\* DeliveryInv holds of every behaviour of registration and delivery.
THEOREM DeliveryInvariance == Spec => []DeliveryInv
    BY InitInv, NextInv, PTL DEF Spec

\* Every variable keeps its type: what the lookup hands out and Delivery keeps
\* are always order ids, and only delivering clients lock rows.
THEOREM TypeCorrectness == Spec => []TypeOK
<1>1. DeliveryInv => TypeOK
    BY DEF DeliveryInv
<1> QED
    BY <1>1, DeliveryInvariance, PTL

\* No order is delivered twice, whichever clients pick it from the index and
\* however their lock attempts on its rows interleave.
THEOREM AtMostOnce == Spec => []DeliveredAtMostOnce
<1>1. DeliveryInv => DeliveredAtMostOnce
    BY DEF DeliveryInv
<1> QED
    BY <1>1, DeliveryInvariance, PTL

-----------------------------------------------------------------------------
(***************************************************************************)
(* registerDelivery never pops an empty priority queue, although the order *)
(* it pops need not be the one that was delivered.                         *)
(*                                                                         *)
(* The argument.  Every registered order was pushed once, and every pop    *)
(* belongs to one order that was delivered: at all times, what is in the   *)
(* queue and the orders whose delivery was registered are together as many *)
(* as the orders that were pushed.  A client about to pop has delivered an *)
(* order that was pushed and whose delivery was not registered, so there   *)
(* is at least one more.                                                   *)
(***************************************************************************)

\* A client that has taken an id and has not pushed it.
Unpushed(c) == pc[c] \in {"address", "compare", "put", "push"}

\* A client that has an order to deliver.
Delivering(c) == pc[c] \in DeliverySteps \ {"oldest"}

Pushed ==
    {o \in OrderIDs : o < nextOID /\ \A c \in Orderers : Unpushed(c) => order[c] # o}

Delivered == {o \in OrderIDs : orderRow[o].deliveries = 1}

\* The delivered orders whose delivery was registered.
Settled ==
    {o \in Delivered : \A c \in Deliverers : pc[c] = "register" => order[c] # o}

UnpushedInv ==
    \A c \in Orderers :
        Unpushed(c) =>
            /\ order[c] \in OrderIDs /\ order[c] < nextOID
            /\ \A d \in Orderers \ {c} : Unpushed(d) => order[d] # order[c]

PushedInv ==
    /\ newOrderQueue \subseteq Pushed
    /\ \A c \in Deliverers : Delivering(c) => order[c] \in Pushed
    /\ Delivered \subseteq Pushed

\* Who comes to register has delivered its order, and no other client has.
RegisterInv ==
    \A c \in Deliverers :
        pc[c] = "register" =>
            /\ orderRow[order[c]].deliveries = 1
            /\ \A d \in Deliverers \ {c} : pc[d] = "register" => order[d] # order[c]

CountInv ==
    Cardinality(newOrderQueue) + Cardinality(Settled) = Cardinality(Pushed)

QueueInv ==
    /\ DeliveryInv
    /\ UnpushedInv
    /\ PushedInv
    /\ RegisterInv
    /\ CountInv

-----------------------------------------------------------------------------
\* Sets of orders are finite.
LEMMA OrdersFinite ==
    ASSUME NEW S \in SUBSET OrderIDs
    PROVE  IsFiniteSet(S) /\ Cardinality(S) \in Nat
<1>1. IsFiniteSet(OrderIDs)
    BY MaxOrdersAssumption, FS_Interval DEF OrderIDs
<1> QED
    BY <1>1, FS_Subset, FS_CardinalityType

LEMMA QueueInit == Init => QueueInv
<1> SUFFICES ASSUME Init PROVE QueueInv
    OBVIOUS
<1>1. DeliveryInv
    BY InitInv
<1>2. UnpushedInv /\ RegisterInv
    BY DEF Init, UnpushedInv, Unpushed, RegisterInv, Clients
<1>3. Pushed = {} /\ Delivered = {} /\ Settled = {}
    BY DEF Init, Pushed, Delivered, Settled, OrderIDs
<1>4. PushedInv
    BY <1>3 DEF Init, PushedInv, Delivering, DeliverySteps, Clients
<1>5. CountInv
    BY <1>3, FS_EmptySet DEF Init, CountInv
<1> QED
    BY <1>1, <1>2, <1>4, <1>5 DEF QueueInv

\* A client that comes to register finds an order in the queue.
LEMMA SomethingToPop ==
    ASSUME QueueInv
    PROVE  QueueIsNotEmptyAtPop
<1> SUFFICES ASSUME NEW c \in Deliverers, pc[c] = "register" PROVE newOrderQueue # {}
    BY DEF QueueIsNotEmptyAtPop
<1>1. order[c] \in Pushed /\ order[c] \notin Settled
    BY DEF QueueInv, PushedInv, Delivering, DeliverySteps, Settled
<1>2. Settled \subseteq Pushed /\ Pushed \subseteq OrderIDs
    BY DEF QueueInv, PushedInv, Settled, Pushed
<1>3. Cardinality(Settled) # Cardinality(Pushed)
    BY <1>1, <1>2, OrdersFinite, FS_Subset
<1> QED
    BY <1>2, <1>3, OrdersFinite, FS_EmptySet DEF QueueInv, CountInv

-----------------------------------------------------------------------------
\* Steps of c that push and pop nothing and settle no delivery.
Uncounted(c) ==
    /\ \A d \in Orderers : (Unpushed(d) <=> Unpushed(d)') /\ (Unpushed(d) => order'[d] = order[d])
    /\ \A d \in Deliverers : pc[d] = "register" <=> pc'[d] = "register"
    /\ \A d \in Deliverers \ {c} : order'[d] = order[d] /\ pc'[d] = pc[d]
    /\ c \in Deliverers /\ Delivering(c)' => order'[c] \in Pushed
    /\ \A o \in OrderIDs : orderRow'[o].deliveries = orderRow[o].deliveries
    /\ \A d \in Deliverers : pc[d] = "register" => order'[d] = order[d]
    /\ UNCHANGED <<nextOID, newOrderQueue>>

LEMMA UncountedStep ==
    ASSUME QueueInv, NEW c \in Clients, Uncounted(c), DeliveryInv'
    PROVE  QueueInv'
<1>1. UnpushedInv'
    BY DEF QueueInv, UnpushedInv, Uncounted
<1>2. Pushed' = Pushed
    BY DEF Pushed, Uncounted
<1>3. Delivered' = Delivered
    BY DEF Delivered, Uncounted
<1>4. \A d \in Deliverers : pc[d] = "register" => order'[d] = order[d]
    BY DEF Uncounted
<1>5. Settled' = Settled
    BY <1>3, <1>4 DEF Settled, Uncounted
<1>6. PushedInv'
    BY <1>2, <1>3 DEF QueueInv, PushedInv, Delivering, Uncounted
<1>7. RegisterInv'
    <2>1. \A d \in Deliverers :
              pc'[d] = "register" => pc[d] = "register" /\ order'[d] = order[d] /\ order[d] \in OrderIDs
        BY DEF Uncounted, Clients, QueueInv, DeliveryInv, OrderKnown
    <2> QED
        BY <2>1 DEF QueueInv, RegisterInv, Uncounted
<1>8. CountInv'
    BY <1>2, <1>5 DEF QueueInv, CountInv, Uncounted
<1> QED
    BY <1>1, <1>6, <1>7, <1>8 DEF QueueInv

-----------------------------------------------------------------------------
\* Registration: only PlaceOrder and PushNewOrder matter to the count.
LEMMA OrdererUncounted ==
    ASSUME QueueInv, NEW c \in Orderers,
           \/ PutOrderAddress(c) \/ CompareLargest(c) \/ PutLargest(c)
           \/ PutLineAddress(c) \/ SubmitOrder(c)
    PROVE  Uncounted(c)
<1>1. c \in Clients
    BY DEF Clients
<1>2. UNCHANGED <<nextOID, newOrderQueue, orderRow, order>>
    BY DEF PutOrderAddress, CompareLargest, PutLargest, PutLineAddress, SubmitOrder,
        indexVars, rowVars, clientVars
<1>3. \A d \in Clients \ {c} : pc'[d] = pc[d]
    BY DEF PutOrderAddress, CompareLargest, PutLargest, PutLineAddress, SubmitOrder, Goto,
        QueueInv, DeliveryInv, TypeOK
<1>4. /\ Unpushed(c) <=> Unpushed(c)'
      /\ pc[c] # "register" /\ pc'[c] # "register" /\ ~Delivering(c)'
    BY <1>1 DEF PutOrderAddress, CompareLargest, PutLargest, PutLineAddress, SubmitOrder, Goto,
        Unpushed, Delivering, DeliverySteps, QueueInv, DeliveryInv, TypeOK
<1> QED
    BY <1>1, <1>2, <1>3, <1>4 DEF Uncounted, Unpushed, Clients

\* A new id is not pushed, and no other orderer has it.
LEMMA PlaceOrderCounted ==
    ASSUME QueueInv, NEW c \in Orderers, PlaceOrder(c), DeliveryInv'
    PROVE  QueueInv'
<1>1. c \in Clients
    BY DEF Clients
<1>2. /\ nextOID \in OrderIDs /\ nextOID' = nextOID + 1
      /\ UNCHANGED <<newOrderQueue, orderRow>>
    BY MaxOrdersAssumption DEF PlaceOrder, indexVars, QueueInv, DeliveryInv, TypeOK, OrderIDs
<1>3. /\ \A d \in Clients \ {c} : pc'[d] = pc[d] /\ order'[d] = order[d]
      /\ ~Unpushed(c) /\ Unpushed(c)' /\ order'[c] = nextOID
      /\ pc[c] # "register" /\ pc'[c] # "register" /\ ~Delivering(c)'
    BY <1>1 DEF PlaceOrder, Goto, Unpushed, Delivering, DeliverySteps, QueueInv, DeliveryInv, TypeOK
<1>4. \A d \in Orderers \ {c} : (Unpushed(d)' <=> Unpushed(d)) /\ order'[d] = order[d]
    BY <1>3 DEF Unpushed, Clients
<1>5. \A o \in OrderIDs : o \in Nat
    BY DEF OrderIDs
<1>6. UnpushedInv'
    BY <1>2, <1>3, <1>4, <1>5 DEF QueueInv, UnpushedInv
<1>7. Pushed' = Pushed
    BY <1>2, <1>3, <1>4, <1>5 DEF Pushed
<1>8. \A d \in Deliverers :
          /\ pc'[d] = "register" <=> pc[d] = "register"
          /\ Delivering(d)' => Delivering(d)
          /\ Delivering(d)' \/ pc[d] = "register" => order'[d] = order[d]
    BY <1>1, <1>3 DEF Clients, Delivering
<1>9. Delivered' = Delivered /\ Settled' = Settled
    BY <1>2, <1>8 DEF Delivered, Settled
<1>10. PushedInv' /\ RegisterInv' /\ CountInv'
    BY <1>2, <1>7, <1>8, <1>9 DEF QueueInv, PushedInv, RegisterInv, CountInv
<1> QED
    BY <1>6, <1>10 DEF QueueInv

\* A push adds one order to what was pushed and to the queue.
LEMMA PushCounted ==
    ASSUME QueueInv, NEW c \in Orderers, PushNewOrder(c), DeliveryInv'
    PROVE  QueueInv'
<1>1. c \in Clients
    BY DEF Clients
<1>2. /\ newOrderQueue' = newOrderQueue \cup {order[c]}
      /\ UNCHANGED <<nextOID, orderRow, order>>
    BY DEF PushNewOrder, rowVars, clientVars
<1>3. /\ \A d \in Clients \ {c} : pc'[d] = pc[d]
      /\ Unpushed(c) /\ ~Unpushed(c)'
      /\ pc[c] # "register" /\ pc'[c] # "register" /\ ~Delivering(c)'
    BY <1>1 DEF PushNewOrder, Goto, Unpushed, Delivering, DeliverySteps, QueueInv, DeliveryInv, TypeOK
<1>4. \A d \in Orderers \ {c} : Unpushed(d)' <=> Unpushed(d)
    BY <1>3 DEF Unpushed, Clients
<1>5. \A d \in Deliverers :
          (pc'[d] = "register" <=> pc[d] = "register") /\ (Delivering(d)' => Delivering(d))
    BY <1>1, <1>3 DEF Clients, Delivering
<1>6. /\ order[c] \in OrderIDs /\ order[c] < nextOID
      /\ \A d \in Orderers \ {c} : Unpushed(d) => order[d] # order[c]
    BY <1>3 DEF QueueInv, UnpushedInv
<1>7. order[c] \notin Pushed /\ Pushed' = Pushed \cup {order[c]}
    BY <1>2, <1>3, <1>4, <1>6 DEF Pushed
<1>8. Delivered' = Delivered /\ Settled' = Settled
    BY <1>2, <1>5 DEF Delivered, Settled
<1>9. UnpushedInv'
    BY <1>2, <1>3, <1>4 DEF QueueInv, UnpushedInv
<1>10. PushedInv' /\ RegisterInv'
    BY <1>2, <1>5, <1>7, <1>8 DEF QueueInv, PushedInv, RegisterInv
<1>11. order[c] \notin newOrderQueue
    BY <1>7 DEF QueueInv, PushedInv
<1>12. /\ newOrderQueue \in SUBSET OrderIDs /\ Pushed \in SUBSET OrderIDs
       /\ Settled \in SUBSET OrderIDs
    BY DEF QueueInv, DeliveryInv, TypeOK, Pushed, Settled, Delivered
<1>13. /\ Cardinality(newOrderQueue') = Cardinality(newOrderQueue) + 1
       /\ Cardinality(Pushed') = Cardinality(Pushed) + 1
    BY <1>2, <1>7, <1>11, <1>12, OrdersFinite, FS_AddElement
<1>14. CountInv'
    BY <1>8, <1>12, <1>13, OrdersFinite DEF QueueInv, CountInv
<1> QED
    BY <1>9, <1>10, <1>14 DEF QueueInv

-----------------------------------------------------------------------------
\* Delivery: only Install and RegisterDelivery matter to the count.
LEMMA QuietUncounted ==
    ASSUME QueueInv, NEW c \in Deliverers, Quiet(c), ~RegisterDelivery(c)
    PROVE  Uncounted(c)
<1>1. c \in Clients
    BY DEF Clients
<1>2. UNCHANGED <<nextOID, newOrderQueue, orderRow>>
    BY DEF Quiet, StartDelivery, GetOldestNewOrder, NoUndeliveredOrder, LocateRows, ReadOrder,
        OrderInconsistentAbort, ReadNewOrder, InconsistentAbort, SubmitDelivery, indexVars, rowVars
<1>3. \A d \in Clients \ {c} : pc'[d] = pc[d]
    BY DEF Quiet, StartDelivery, GetOldestNewOrder, NoUndeliveredOrder, LocateRows, ReadOrder,
        OrderInconsistentAbort, ReadNewOrder, InconsistentAbort, SubmitDelivery, Goto,
        QueueInv, DeliveryInv, TypeOK
<1>4. pc[c] # "register" /\ pc'[c] # "register" /\ ~Unpushed(c) /\ ~Unpushed(c)'
    BY <1>1 DEF Quiet, StartDelivery, GetOldestNewOrder, NoUndeliveredOrder, LocateRows, ReadOrder,
        OrderInconsistentAbort, ReadNewOrder, InconsistentAbort, SubmitDelivery, Goto, Unpushed,
        QueueInv, DeliveryInv, TypeOK
<1>5. \A d \in Clients \ {c} : order'[d] = order[d]
    BY DEF Quiet, StartDelivery, GetOldestNewOrder, NoUndeliveredOrder, LocateRows, ReadOrder,
        OrderInconsistentAbort, ReadNewOrder, InconsistentAbort, SubmitDelivery, clientVars,
        QueueInv, DeliveryInv, TypeOK
<1>6. Delivering(c)' => order'[c] \in Pushed
    <2>1. CASE GetOldestNewOrder(c)
        <3>1. Min(newOrderQueue) \in newOrderQueue
            BY <2>1, MinIsMember DEF GetOldestNewOrder, QueueInv, DeliveryInv, TypeOK
        <3>2. order'[c] = Min(newOrderQueue)
            BY <1>1, <2>1 DEF GetOldestNewOrder, QueueInv, DeliveryInv, TypeOK
        <3> QED
            BY <3>1, <3>2 DEF QueueInv, PushedInv
    <2>2. CASE LocateRows(c) \/ ReadOrder(c) \/ ReadNewOrder(c)
        <3>1. order'[c] = order[c] /\ Delivering(c)
            BY <2>2 DEF LocateRows, ReadOrder, ReadNewOrder, Goto, clientVars, Delivering, DeliverySteps
        <3> QED
            BY <3>1 DEF QueueInv, PushedInv
    <2>3. CASE \/ StartDelivery(c) \/ NoUndeliveredOrder(c) \/ OrderInconsistentAbort(c)
               \/ InconsistentAbort(c) \/ SubmitDelivery(c)
        BY <1>1, <2>3 DEF StartDelivery, NoUndeliveredOrder, OrderInconsistentAbort,
            InconsistentAbort, SubmitDelivery, Goto, Delivering, DeliverySteps, QueueInv, DeliveryInv,
            TypeOK
    <2> QED
        BY <2>1, <2>2, <2>3 DEF Quiet
<1> QED
    BY <1>1, <1>2, <1>3, <1>4, <1>5, <1>6 DEF Uncounted, Unpushed, Clients

\* Taking and giving back locks leaves the clients that registered alone.
LEMMA LocksUncounted ==
    ASSUME QueueInv, NEW c \in Deliverers, Locks(c), ~Install(c)
    PROVE  Uncounted(c)
<1>1. /\ c \in Clients /\ order[c] \in OrderIDs
      /\ UNCHANGED order
      /\ \A d \in Clients \ {c} : pc'[d] = pc[d]
    BY LocksFrame DEF QueueInv, DeliveryInv
<1>2. ~Unpushed(c) /\ ~Unpushed(c)'
    BY <1>1 DEF Locks, LockOrder, LockNewOrder, LockNewOrderOnly, LockCustomer, CustomerLockRefused,
        RevertOrderLock, RevertNewOrderLock, Goto, Unpushed, QueueInv, DeliveryInv, TypeOK
<1>3. UNCHANGED <<nextOID, newOrderQueue>>
    BY DEF Locks, LockOrder, LockNewOrder, LockNewOrderOnly, LockCustomer, CustomerLockRefused,
        RevertOrderLock, RevertNewOrderLock, indexVars
<1>4. pc[c] # "register" /\ pc'[c] # "register" /\ Delivering(c)
    BY <1>1 DEF Locks, LockOrder, LockNewOrder, LockNewOrderOnly, LockCustomer, CustomerLockRefused,
        RevertOrderLock, RevertNewOrderLock, Goto, Delivering, DeliverySteps, QueueInv, DeliveryInv, TypeOK
<1>5. order'[c] \in Pushed
    BY <1>1, <1>4 DEF QueueInv, PushedInv
<1>6. \A o \in OrderIDs : orderRow'[o].deliveries = orderRow[o].deliveries
    <2>1. CASE LockOrder(c)
        BY <1>1, <2>1 DEF LockOrder, OrderUnchanged, QueueInv, DeliveryInv, TypeOK
    <2>2. CASE RevertOrderLock(c)
        BY <1>1, <2>2 DEF RevertOrderLock, QueueInv, DeliveryInv, TypeOK
    <2> QED
        BY <2>1, <2>2 DEF Locks, LockNewOrder, LockNewOrderOnly, LockCustomer, CustomerLockRefused,
            RevertNewOrderLock, rowVars
<1> QED
    BY <1>1, <1>2, <1>3, <1>4, <1>5, <1>6 DEF Uncounted, Unpushed, Clients

\* An install delivers an order that was not, and settles nothing.
LEMMA InstallCounted ==
    ASSUME QueueInv, NEW c \in Deliverers, Install(c), DeliveryInv'
    PROVE  QueueInv'
<1>1. /\ c \in Clients /\ order[c] \in OrderIDs
      /\ UNCHANGED order
      /\ \A d \in Clients \ {c} : pc'[d] = pc[d]
    BY LocksFrame DEF QueueInv, DeliveryInv, Locks
<1>2. ~Unpushed(c) /\ ~Unpushed(c)'
    BY <1>1 DEF Install, Goto, Unpushed, QueueInv, DeliveryInv, TypeOK
<1>3. pc[c] = "install" /\ pc'[c] = "register"
    BY <1>1 DEF Install, Goto, QueueInv, DeliveryInv, TypeOK
<1>4. orderRow[order[c]].deliveries = 0 /\ deliveriesRead[c] = 0
    BY <1>1, <1>3 DEF QueueInv, DeliveryInv, NewOrderLockInv, OrderLockInv, HoldsNewOrder, HoldsOrder
<1>5. /\ UNCHANGED <<nextOID, newOrderQueue>>
      /\ orderRow' = [orderRow EXCEPT ![order[c]] = [lock |-> None, deliveries |-> 1]]
    BY <1>4 DEF Install, indexVars
<1>6. Delivered' = Delivered \cup {order[c]} /\ order[c] \notin Delivered
    BY <1>1, <1>4, <1>5 DEF Delivered, QueueInv, DeliveryInv, TypeOK
<1>7. UnpushedInv' /\ Pushed' = Pushed
    BY <1>1, <1>2, <1>5 DEF QueueInv, UnpushedInv, Unpushed, Pushed, Clients
<1>8. order[c] \in Pushed
    BY <1>3 DEF QueueInv, PushedInv, Delivering, DeliverySteps
<1>9. PushedInv'
    BY <1>1, <1>5, <1>6, <1>7, <1>8 DEF QueueInv, PushedInv, Delivering, Clients
<1>10. Settled' = Settled
    BY <1>1, <1>3, <1>6 DEF Settled, Clients
<1>11. RegisterInv'
    BY <1>1, <1>3, <1>4, <1>5 DEF QueueInv, RegisterInv, DeliveryInv, TypeOK, OrderKnown, Clients
<1>12. CountInv'
    BY <1>5, <1>7, <1>10 DEF QueueInv, CountInv
<1> QED
    BY <1>7, <1>9, <1>11, <1>12 DEF QueueInv

\* A registered delivery settles its order and takes one order off the queue.
LEMMA RegisterCounted ==
    ASSUME QueueInv, NEW c \in Deliverers, RegisterDelivery(c), DeliveryInv'
    PROVE  QueueInv'
<1>1. c \in Clients
    BY DEF Clients
<1>2. /\ UNCHANGED <<nextOID, orderRow, order>>
      /\ newOrderQueue' = newOrderQueue \ {Min(newOrderQueue)}
      /\ pc[c] = "register"
    BY DEF RegisterDelivery, Goto, rowVars, clientVars
<1>3. pc'[c] = "submitDelivery" /\ \A d \in Clients \ {c} : pc'[d] = pc[d]
    BY <1>1 DEF RegisterDelivery, Goto, QueueInv, DeliveryInv, TypeOK
<1>4. newOrderQueue # {}
    BY <1>2, SomethingToPop DEF QueueIsNotEmptyAtPop
<1>5. Min(newOrderQueue) \in newOrderQueue
    BY <1>4, MinIsMember DEF QueueInv, DeliveryInv, TypeOK
<1>6. Delivered' = Delivered /\ UnpushedInv' /\ Pushed' = Pushed
    BY <1>1, <1>2, <1>3 DEF Delivered, QueueInv, UnpushedInv, Unpushed, Pushed, Clients
<1>7. order[c] \in Delivered /\ order[c] \notin Settled
    BY <1>1, <1>2 DEF Delivered, Settled, QueueInv, RegisterInv, DeliveryInv, OrderKnown
<1>8. \A d \in Deliverers \ {c} : pc[d] = "register" => order[d] # order[c]
    BY <1>2 DEF QueueInv, RegisterInv
<1>9. Settled' = Settled \cup {order[c]}
    BY <1>2, <1>3, <1>6, <1>7, <1>8 DEF Settled, Clients
<1>10. PushedInv' /\ RegisterInv'
    BY <1>2, <1>3, <1>6 DEF QueueInv, PushedInv, RegisterInv, Delivering, DeliverySteps, Clients
<1>11. newOrderQueue \in SUBSET OrderIDs /\ Settled \in SUBSET OrderIDs /\ Pushed \in SUBSET OrderIDs
    BY DEF QueueInv, DeliveryInv, TypeOK, Pushed, Settled, Delivered
<1>12. /\ Cardinality(newOrderQueue') = Cardinality(newOrderQueue) - 1
       /\ Cardinality(Settled') = Cardinality(Settled) + 1
    BY <1>2, <1>5, <1>7, <1>9, <1>11, OrdersFinite, FS_AddElement, FS_RemoveElement
<1>13. CountInv'
    BY <1>6, <1>11, <1>12, OrdersFinite DEF QueueInv, CountInv
<1> QED
    BY <1>6, <1>10, <1>13 DEF QueueInv

-----------------------------------------------------------------------------
\* The inductive step.
LEMMA QueueNext == QueueInv /\ [Next]_vars => QueueInv'
<1> SUFFICES ASSUME QueueInv, [Next]_vars PROVE QueueInv'
    OBVIOUS
<1>1. DeliveryInv'
    BY NextInv DEF QueueInv
<1>2. CASE UNCHANGED vars
    BY <1>1, <1>2 DEF QueueInv, UnpushedInv, Unpushed, PushedInv, RegisterInv, CountInv, Pushed,
        Settled, Delivered, Delivering, vars, indexVars, rowVars, clientVars
<1>3. ASSUME NEW c \in Orderers, PlaceOrder(c) \/ Order(c) PROVE QueueInv'
    <2>1. c \in Clients
        BY DEF Clients
    <2> QED
        BY <1>1, <1>3, <2>1, PlaceOrderCounted, PushCounted, OrdererUncounted, UncountedStep DEF Order
<1>4. ASSUME NEW c \in Deliverers, StartDelivery(c) \/ Deliver(c) PROVE QueueInv'
    <2>1. c \in Clients
        BY DEF Clients
    <2>2. Quiet(c) \/ Locks(c)
        BY <1>4 DEF Deliver, Quiet, Locks
    <2> QED
        BY <1>1, <2>1, <2>2, RegisterCounted, InstallCounted, QuietUncounted, LocksUncounted,
            UncountedStep
<1>5. ASSUME NEW c \in Deliverers, InstallElsewhere(c) PROVE QueueInv'
    <2>1. c \in Clients /\ UNCHANGED <<nextOID, newOrderQueue, orderRow, pc, order>>
        BY <1>5 DEF Clients, InstallElsewhere, indexVars, clientVars
    <2>2. pc[c] = "idle"
        BY <1>5 DEF InstallElsewhere
    <2>3. Uncounted(c)
        BY <2>1, <2>2 DEF Uncounted, Unpushed, Delivering, DeliverySteps
    <2> QED
        BY <1>1, <2>1, <2>3, UncountedStep
<1> QED
    BY <1>2, <1>3, <1>4, <1>5 DEF Next

\* registerDelivery never pops an empty std::priority_queue (which would be
\* undefined), whichever orders other deliveries have popped before.
THEOREM PopsFindAnOrder == Spec => []QueueIsNotEmptyAtPop
<1>1. QueueInv => QueueIsNotEmptyAtPop
    BY SomethingToPop
<1> QED
    BY <1>1, QueueInit, QueueNext, PTL DEF Spec

-----------------------------------------------------------------------------
(***************************************************************************)
(* What the index offers can be located.  An order is offered by those     *)
(* that registered its address, and only found by deliveries afterwards.   *)
(***************************************************************************)

\* Clients whose order has an address, and those for whose order the address
\* of the lines is there too.
HasAddress(c) == pc[c] \notin {"idle", "oldest", "address"}
HasLines(c) == HasAddress(c) /\ pc[c] \notin {"compare", "put", "push", "lines", "locate"}

\* What the property says of the maps and the announcements; what it says of the
\* deliveries follows from the clients' addresses.
OfferedInv ==
    /\ newOrderQueue \subseteq orderAddress
    /\ \A u \in Customers : largestOrder[u] # None => largestOrder[u] \in orderAddress
    /\ \A v \in announced : v[1] \in orderAddress \cap lineAddress

AddressInv ==
    /\ DeliveryInv
    /\ OfferedInv
    /\ \A c \in Clients : HasAddress(c) => order[c] \in orderAddress
    /\ \A c \in Clients : HasLines(c) => order[c] \in lineAddress

LEMMA AddressInit == Init => AddressInv
    BY InitInv DEF Init, AddressInv, OfferedInv, HasAddress, HasLines, Clients

\* Steps that change no address and offer nothing new.
Unoffered(c) ==
    /\ newOrderQueue' \subseteq newOrderQueue
    /\ UNCHANGED <<orderAddress, lineAddress, largestOrder>>
    /\ \A v \in announced' : v \in announced \/ (v[1] = order[c] /\ HasLines(c))
    /\ \A d \in Clients \ {c} : order'[d] = order[d] /\ pc'[d] = pc[d]
    /\ HasAddress(c)' => order'[c] \in orderAddress
    /\ HasLines(c)' => order'[c] \in lineAddress

LEMMA UnofferedStep ==
    ASSUME AddressInv, NEW c \in Clients, Unoffered(c), DeliveryInv'
    PROVE  AddressInv'
<1>1. HasLines(c) => HasAddress(c)
    BY DEF HasLines
<1>2. OfferedInv'
    BY <1>1 DEF AddressInv, OfferedInv, Unoffered
<1>3. \A d \in Clients : HasAddress(d)' => order'[d] \in orderAddress'
    BY DEF AddressInv, Unoffered, HasAddress
<1>4. \A d \in Clients : HasLines(d)' => order'[d] \in lineAddress'
    BY DEF AddressInv, Unoffered, HasAddress, HasLines
<1> QED
    BY <1>2, <1>3, <1>4 DEF AddressInv

LEMMA OrdererAddress ==
    ASSUME AddressInv, NEW c \in Orderers, PlaceOrder(c) \/ Order(c), DeliveryInv'
    PROVE  AddressInv'
<1> c \in Clients
    BY DEF Clients
<1>1. CASE PlaceOrder(c)
    <2>1. Unoffered(c)
        BY <1>1 DEF PlaceOrder, Goto, Unoffered, HasAddress, HasLines, indexVars, AddressInv,
            DeliveryInv, TypeOK
    <2> QED
        BY <2>1, UnofferedStep
<1>2. CASE PutOrderAddress(c)
    <2>1. /\ orderAddress' = orderAddress \cup {order[c]}
          /\ UNCHANGED <<lineAddress, largestOrder, newOrderQueue, announced, order>>
        BY <1>2 DEF PutOrderAddress, clientVars
    <2>2. pc'[c] = "compare" /\ \A d \in Clients \ {c} : pc'[d] = pc[d]
        BY <1>2 DEF PutOrderAddress, Goto, AddressInv, DeliveryInv, TypeOK
    <2> QED
        BY <2>1, <2>2 DEF AddressInv, OfferedInv, HasAddress, HasLines
<1>3. CASE CompareLargest(c)
    <2>1. /\ UNCHANGED <<orderAddress, lineAddress, largestOrder, newOrderQueue, announced, order>>
          /\ HasAddress(c)
        BY <1>3 DEF CompareLargest, Goto, HasAddress, indexVars, clientVars
    <2>2. pc'[c] \in {"put", "push"} /\ \A d \in Clients \ {c} : pc'[d] = pc[d]
        BY <1>3 DEF CompareLargest, Goto, AddressInv, DeliveryInv, TypeOK
    <2>3. Unoffered(c)
        BY <2>1, <2>2 DEF Unoffered, HasLines, AddressInv
    <2> QED
        BY <2>3, UnofferedStep
<1>4. CASE PutLargest(c)
    <2>1. /\ UNCHANGED <<orderAddress, lineAddress, newOrderQueue, announced, order>>
          /\ largestOrder' = [largestOrder EXCEPT ![customer[c]] = order[c]]
          /\ HasAddress(c)
        BY <1>4 DEF PutLargest, Goto, HasAddress, clientVars
    <2>2. pc'[c] = "push" /\ \A d \in Clients \ {c} : pc'[d] = pc[d]
        BY <1>4 DEF PutLargest, Goto, AddressInv, DeliveryInv, TypeOK
    <2>3. \A u \in Customers : largestOrder'[u] \in {largestOrder[u], order[c]}
        BY <2>1 DEF AddressInv, DeliveryInv, TypeOK
    <2> QED
        BY <2>1, <2>2, <2>3 DEF AddressInv, OfferedInv, HasAddress, HasLines
<1>5. CASE PushNewOrder(c)
    <2>1. /\ UNCHANGED <<orderAddress, lineAddress, largestOrder, announced, order>>
          /\ newOrderQueue' = newOrderQueue \cup {order[c]}
          /\ HasAddress(c)
        BY <1>5 DEF PushNewOrder, Goto, HasAddress, clientVars
    <2>2. pc'[c] = "lines" /\ \A d \in Clients \ {c} : pc'[d] = pc[d]
        BY <1>5 DEF PushNewOrder, Goto, AddressInv, DeliveryInv, TypeOK
    <2> QED
        BY <2>1, <2>2 DEF AddressInv, OfferedInv, HasAddress, HasLines
<1>6. CASE PutLineAddress(c)
    <2>1. /\ lineAddress' = lineAddress \cup {order[c]}
          /\ UNCHANGED <<orderAddress, largestOrder, newOrderQueue, announced, order>>
          /\ HasAddress(c)
        BY <1>6 DEF PutLineAddress, Goto, HasAddress, clientVars
    <2>2. pc'[c] = "submit" /\ \A d \in Clients \ {c} : pc'[d] = pc[d]
        BY <1>6 DEF PutLineAddress, Goto, AddressInv, DeliveryInv, TypeOK
    <2> QED
        BY <2>1, <2>2 DEF AddressInv, OfferedInv, HasAddress, HasLines
<1>7. CASE SubmitOrder(c)
    <2>1. /\ UNCHANGED <<orderAddress, lineAddress, largestOrder, newOrderQueue, order>>
          /\ announced' = announced \cup {<<order[c], 0>>}
          /\ HasLines(c)
        BY <1>7 DEF SubmitOrder, Goto, HasAddress, HasLines, indexVars, clientVars
    <2>2. pc'[c] = "idle" /\ \A d \in Clients \ {c} : pc'[d] = pc[d]
        BY <1>7 DEF SubmitOrder, Goto, AddressInv, DeliveryInv, TypeOK
    <2>3. Unoffered(c)
        BY <2>1, <2>2 DEF Unoffered, HasAddress, HasLines
    <2> QED
        BY <2>3, UnofferedStep
<1> QED
    BY <1>1, <1>2, <1>3, <1>4, <1>5, <1>6, <1>7 DEF Order

LEMMA DelivererAddress ==
    ASSUME AddressInv, NEW c \in Deliverers, Quiet(c) \/ Locks(c), DeliveryInv'
    PROVE  Unoffered(c)
<1> c \in Clients
    BY DEF Clients
<1>1. CASE Locks(c)
    <2>1. UNCHANGED order /\ \A d \in Clients \ {c} : pc'[d] = pc[d]
        BY <1>1, LocksFrame DEF AddressInv, DeliveryInv
    <2>2. UNCHANGED <<orderAddress, lineAddress, largestOrder, newOrderQueue, announced>>
        BY <1>1 DEF Locks, LockOrder, LockNewOrder, LockNewOrderOnly, LockCustomer,
            CustomerLockRefused, RevertOrderLock, RevertNewOrderLock, Install, indexVars
    <2>3. HasLines(c) /\ HasAddress(c)
        BY <1>1 DEF Locks, LockOrder, LockNewOrder, LockNewOrderOnly, LockCustomer,
            CustomerLockRefused, RevertOrderLock, RevertNewOrderLock, Install, Goto,
            HasLines, HasAddress
    <2> QED
        BY <2>1, <2>2, <2>3 DEF Unoffered, AddressInv
<1>2. CASE StartDelivery(c) \/ NoUndeliveredOrder(c) \/ OrderInconsistentAbort(c) \/ InconsistentAbort(c)
    <2>1. UNCHANGED <<orderAddress, lineAddress, largestOrder, newOrderQueue, announced, order>>
        BY <1>2 DEF StartDelivery, NoUndeliveredOrder, OrderInconsistentAbort, InconsistentAbort,
            indexVars, clientVars
    <2>2. pc'[c] \in {"idle", "oldest"} /\ \A d \in Clients \ {c} : pc'[d] = pc[d]
        BY <1>2 DEF StartDelivery, NoUndeliveredOrder, OrderInconsistentAbort, InconsistentAbort,
            Goto, AddressInv, DeliveryInv, TypeOK
    <2> QED
        BY <2>1, <2>2 DEF Unoffered, HasAddress, HasLines
<1>3. CASE GetOldestNewOrder(c)
    <2>1. /\ UNCHANGED <<orderAddress, lineAddress, largestOrder, newOrderQueue, announced>>
          /\ order'[c] = Min(newOrderQueue) /\ newOrderQueue # {}
          /\ \A d \in Clients \ {c} : order'[d] = order[d] /\ pc'[d] = pc[d]
          /\ pc'[c] = "locate"
        BY <1>3 DEF GetOldestNewOrder, Goto, indexVars, AddressInv, DeliveryInv, TypeOK
    <2>2. Min(newOrderQueue) \in orderAddress
        BY <2>1, MinIsMember DEF AddressInv, OfferedInv, DeliveryInv, TypeOK
    <2> QED
        BY <2>1, <2>2 DEF Unoffered, HasLines
<1>4. CASE LocateRows(c)
    <2>1. UNCHANGED <<orderAddress, lineAddress, largestOrder, newOrderQueue, announced, order>>
        BY <1>4 DEF LocateRows, indexVars, clientVars
    <2>2. /\ \A d \in Clients \ {c} : pc'[d] = pc[d]
          /\ pc'[c] = "idle" \/ (order[c] \in orderAddress /\ order[c] \in lineAddress)
        BY <1>4 DEF LocateRows, Goto, AddressInv, DeliveryInv, TypeOK
    <2> QED
        BY <2>1, <2>2 DEF Unoffered, HasAddress, HasLines
<1>5. CASE ReadOrder(c) \/ ReadNewOrder(c) \/ RegisterDelivery(c) \/ SubmitDelivery(c)
    <2>1. /\ UNCHANGED <<orderAddress, lineAddress, largestOrder, order>>
          /\ newOrderQueue' \subseteq newOrderQueue
          /\ \A v \in announced' : v \in announced \/ v[1] = order[c]
        BY <1>5 DEF ReadOrder, ReadNewOrder, RegisterDelivery, SubmitDelivery, indexVars, clientVars
    <2>2. HasLines(c) /\ HasAddress(c) /\ \A d \in Clients \ {c} : pc'[d] = pc[d]
        BY <1>5 DEF ReadOrder, ReadNewOrder, RegisterDelivery, SubmitDelivery, Goto, HasLines,
            HasAddress, AddressInv, DeliveryInv, TypeOK
    <2> QED
        BY <2>1, <2>2 DEF Unoffered, AddressInv
<1> QED
    BY <1>1, <1>2, <1>3, <1>4, <1>5 DEF Quiet

\* An order the index offers, as the oldest of the district or the largest of
\* a customer, has an address, and what was announced, or is being delivered,
\* has all its addresses: the maps have locks of their own, and only the order
\* of the accesses in registerOrder and the check of the lookup make this hold.
THEOREM OfferedOrdersAreLocated == Spec => []OfferedOrdersHaveAddresses
<1>1. AddressInv /\ [Next]_vars => AddressInv'
    <2> SUFFICES ASSUME AddressInv, [Next]_vars PROVE AddressInv'
        OBVIOUS
    <2>1. DeliveryInv'
        BY NextInv DEF AddressInv
    <2>2. CASE UNCHANGED vars
        BY <2>1, <2>2 DEF AddressInv, OfferedInv, HasAddress, HasLines, vars,
            indexVars, rowVars, clientVars
    <2>3. ASSUME NEW c \in Orderers, PlaceOrder(c) \/ Order(c) PROVE AddressInv'
        BY <2>1, <2>3, OrdererAddress
    <2>4. ASSUME NEW c \in Deliverers, StartDelivery(c) \/ Deliver(c) PROVE AddressInv'
        <3>1. c \in Clients /\ (Quiet(c) \/ Locks(c))
            BY <2>4 DEF Clients, Deliver, Quiet, Locks
        <3> QED
            BY <2>1, <3>1, DelivererAddress, UnofferedStep
    <2>5. ASSUME NEW c \in Deliverers, InstallElsewhere(c) PROVE AddressInv'
        <3>1. UNCHANGED <<indexVars, announced, pc, order>>
            BY <2>5 DEF InstallElsewhere, clientVars
        <3> QED
            BY <2>1, <3>1 DEF AddressInv, OfferedInv, HasAddress, HasLines, indexVars
    <2> QED
        BY <2>2, <2>3, <2>4, <2>5 DEF Next
<1>2. AddressInv => OfferedOrdersHaveAddresses
    BY DEF AddressInv, OfferedInv, OfferedOrdersHaveAddresses, HasAddress, HasLines, DeliverySteps,
        Clients
<1> QED
    BY <1>1, <1>2, AddressInit, PTL DEF Spec
=============================================================================
