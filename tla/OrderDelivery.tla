---------------------------- MODULE OrderDelivery ----------------------------
(***************************************************************************)
(* The life of an order after its rows were written: New-Order registers   *)
(* it in the index of the memory server, Delivery asks the index for the   *)
(* oldest undelivered order, updates its rows and takes it off the queue.  *)
(*                                                                         *)
(* Server threads serve the requests of different clients at the same      *)
(* time.  Each map of the index is protected by a lock of its own, so each *)
(* access to one is a step and a handler is several.  The rows are read,   *)
(* locked and written by the delivering client with one-sided operations,  *)
(* all on the queue pair of its home server, hence in order.               *)
(*                                                                         *)
(* One district, in which the clients place their first orders; a client   *)
(* may order, deliver or do both.  The ORDER-LINE rows are locked and      *)
(* written with their ORDER row and are left out; the customer row is      *)
(* shared with Payment.  Whether those can be used, and their locks had,   *)
(* is any outcome.                                                         *)
(***************************************************************************)
EXTENDS Naturals, FiniteSets, FiniteSetsExt

CONSTANTS
    Orderers,     \* clients that run New-Order
    Deliverers,   \* clients that run Delivery
    Customers,    \* customers of the district
    MaxOrders,    \* bound: orders placed
    None,         \* no order, client or customer
    Deleted       \* the lock byte of a deleted row

ASSUME MaxOrdersAssumption == MaxOrders \in Nat
ASSUME NoneAssumption == None \notin Nat \cup Customers \cup Orderers \cup Deliverers
ASSUME DeletedAssumption == Deleted \notin Deliverers \cup {None}

OrderIDs == 0 .. MaxOrders - 1

VARIABLES
    nextOID,         \* D_NEXT_O_ID
    orderAddress,    \* orderToMemoryAddress_Index_: the orders it has
    lineAddress,     \* orderLineToMemoryAddress_Index_: the orders it has
    largestOrder,    \* largestOrderForCustomer_Index_
    newOrderQueue,   \* oldestNewOrderInDistrict_Index_: a priority queue
    announced,       \* <<o, n>>: version n of order o's rows was announced
    orderRow,        \* the ORDER rows: who locked them, and how often delivered
    newOrderRow,     \* where the NEW-ORDER rows were put: lock byte and NO_O_ID
    firstOrder,      \* the order whose NEW-ORDER row is in slot 0 of a client's region
    pc,              \* each client's step
    order,           \* the order a client registers or delivers
    customer,        \* the customer of that order
    snapshot,        \* the announcements a delivery's snapshot has
    deliveriesRead   \* version of the ORDER row a delivery read

indexVars == <<orderAddress, lineAddress, largestOrder, newOrderQueue>>
rowVars == <<orderRow, newOrderRow, firstOrder>>
clientVars == <<order, customer, snapshot, deliveriesRead>>
vars == <<nextOID, indexVars, announced, rowVars, pc, clientVars>>

Clients == Orderers \cup Deliverers

Init ==
    /\ nextOID = 0
    /\ orderAddress = {} /\ lineAddress = {} /\ newOrderQueue = {}
    /\ largestOrder = [u \in Customers |-> None]
    /\ announced = {}
    /\ orderRow = [o \in OrderIDs |-> [lock |-> None, deliveries |-> 0]]
    /\ newOrderRow = [o \in OrderIDs |-> [lock |-> None, id |-> o]]
    /\ firstOrder = [c \in Clients |-> None]
    /\ pc = [c \in Clients |-> "idle"]
    /\ order = [c \in Clients |-> None]
    /\ customer = [c \in Clients |-> None]
    /\ snapshot = [c \in Clients |-> {}]
    /\ deliveriesRead = [c \in Clients |-> 0]

Goto(c, from, to) == pc[c] = from /\ pc' = [pc EXCEPT ![c] = to]

-----------------------------------------------------------------------------
(***************************************************************************)
(* Registering an order.                                                   *)
(***************************************************************************)

\* Mutant: the incremented id is used instead of the fetched one.
PlaceOrderIncremented(c) ==
    /\ Goto(c, "idle", "address")
    /\ nextOID < MaxOrders
    /\ nextOID' = nextOID + 1
    /\ order' = [order EXCEPT ![c] = nextOID + 1]
    /\ \E u \in Customers : customer' = [customer EXCEPT ![c] = u]
    /\ firstOrder' = [firstOrder EXCEPT ![c] = IF @ = None THEN nextOID ELSE @]
    /\ UNCHANGED <<indexVars, announced, orderRow, newOrderRow, snapshot, deliveriesRead>>

\* New-Order took an order id and wrote the rows, from slot 0 of its region on;
\* its request arrives.
PlaceOrder(c) ==
    /\ Goto(c, "idle", "address")
    /\ nextOID < MaxOrders
    /\ nextOID' = nextOID + 1
    /\ order' = [order EXCEPT ![c] = nextOID]
    /\ \E u \in Customers : customer' = [customer EXCEPT ![c] = u]
    /\ firstOrder' = [firstOrder EXCEPT ![c] = IF @ = None THEN nextOID ELSE @]
    /\ UNCHANGED <<indexVars, announced, orderRow, newOrderRow, snapshot, deliveriesRead>>

PutOrderAddress(c) ==
    /\ Goto(c, "address", "compare")
    /\ orderAddress' = orderAddress \cup {order[c]}
    /\ UNCHANGED <<nextOID, lineAddress, largestOrder, newOrderQueue, announced, rowVars, clientVars>>

\* hasKey and get of the customer's largest order so far.
IsLargest(c) ==
    largestOrder[customer[c]] = None \/ largestOrder[customer[c]] < order[c]

CompareLargest(c) ==
    /\ Goto(c, "compare", IF IsLargest(c) THEN "put" ELSE "push")
    /\ UNCHANGED <<nextOID, indexVars, announced, rowVars, clientVars>>

PutLargest(c) ==
    /\ Goto(c, "put", "push")
    /\ largestOrder' = [largestOrder EXCEPT ![customer[c]] = order[c]]
    /\ UNCHANGED <<nextOID, orderAddress, lineAddress, newOrderQueue, announced, rowVars, clientVars>>

PushNewOrder(c) ==
    /\ Goto(c, "push", "lines")
    /\ newOrderQueue' = newOrderQueue \cup {order[c]}
    /\ UNCHANGED <<nextOID, orderAddress, lineAddress, largestOrder, announced, rowVars, clientVars>>

\* The last map, and the response.
PutLineAddress(c) ==
    /\ Goto(c, "lines", "submit")
    /\ lineAddress' = lineAddress \cup {order[c]}
    /\ UNCHANGED <<nextOID, orderAddress, largestOrder, newOrderQueue, announced, rowVars, clientVars>>

\* submitResult of the New-Order transaction.
SubmitOrder(c) ==
    /\ Goto(c, "submit", "idle")
    /\ announced' = announced \cup {<<order[c], 0>>}
    /\ UNCHANGED <<nextOID, indexVars, rowVars, clientVars>>

-----------------------------------------------------------------------------
(***************************************************************************)
(* Delivering an order.                                                    *)
(***************************************************************************)
StartDelivery(c) ==
    /\ Goto(c, "idle", "oldest")
    /\ snapshot' = [snapshot EXCEPT ![c] = announced]
    /\ UNCHANGED <<nextOID, indexVars, announced, rowVars, order, customer, deliveriesRead>>

\* getOldestNewOrder reads the top of the queue and leaves it there.
GetOldestNewOrder(c) ==
    /\ newOrderQueue # {}
    /\ Goto(c, "oldest", "locate")
    /\ order' = [order EXCEPT ![c] = Min(newOrderQueue)]
    /\ UNCHANGED <<nextOID, indexVars, announced, rowVars, customer, snapshot, deliveriesRead>>

NoUndeliveredOrder(c) ==
    /\ newOrderQueue = {}
    /\ Goto(c, "oldest", "idle")
    /\ UNCHANGED <<nextOID, indexVars, announced, rowVars, clientVars>>

\* Mutant: the answer does not say whether the lines were found.
LocateRowsLinesUnchecked(c) ==
    /\ Goto(c, "locate", IF order[c] \in orderAddress THEN "readOrder" ELSE "idle")
    /\ UNCHANGED <<nextOID, indexVars, announced, rowVars, clientVars>>

\* The addresses: an order is pushed before its lines are registered, and then
\* the server answers that there is no undelivered order.
LocateRows(c) ==
    /\ Goto(c, "locate",
            IF order[c] \in orderAddress /\ order[c] \in lineAddress THEN "readOrder" ELSE "idle")
    /\ UNCHANGED <<nextOID, indexVars, announced, rowVars, clientVars>>

\* isRecordAccessible: unlocked, and announced in the snapshot.  (A client's own
\* versions are usable anyway: it announced them before it started again.)
OrderAccessible(c) ==
    /\ orderRow[order[c]].lock = None
    /\ <<order[c], orderRow[order[c]].deliveries>> \in snapshot[c]

\* NO_O_ID is compared too: the row may have been written over.
NewOrderAccessible(c) ==
    /\ newOrderRow[order[c]] = [lock |-> None, id |-> order[c]]
    /\ <<order[c], 0>> \in snapshot[c]

ReadOrder(c) ==
    /\ Goto(c, "readOrder", "readNewOrder")
    /\ OrderAccessible(c)
    /\ deliveriesRead' = [deliveriesRead EXCEPT ![c] = orderRow[order[c]].deliveries]
    /\ UNCHANGED <<nextOID, indexVars, announced, rowVars, order, customer, snapshot>>

ReadNewOrder(c) ==
    /\ Goto(c, "readNewOrder", "lockOrder")
    /\ NewOrderAccessible(c)
    /\ UNCHANGED <<nextOID, indexVars, announced, rowVars, clientVars>>

\* The ORDER row cannot be used.  Also when snapshot[c] has it: the reader's copy
\* of the oracle's vector lags, and a snapshot may have less than was announced.
OrderInconsistentAbort(c) ==
    /\ Goto(c, "readOrder", "idle")
    /\ UNCHANGED <<nextOID, indexVars, announced, rowVars, clientVars>>

\* The NEW-ORDER row cannot be used, or an order line, or the customer.
InconsistentAbort(c) ==
    /\ Goto(c, "readNewOrder", "idle")
    /\ UNCHANGED <<nextOID, indexVars, announced, rowVars, clientVars>>

(***************************************************************************)
(* Compare-and-swap on each row.  pc remembers which locks were had: after *)
(* "revertOrder" only the ORDER row's, after "revertBoth" both, after      *)
(* "revertNewOrder" only the NEW-ORDER row's.                              *)
(***************************************************************************)
OrderUnchanged(c) ==
    orderRow[order[c]] = [lock |-> None, deliveries |-> deliveriesRead[c]]

LockOrder(c) ==
    /\ Goto(c, "lockOrder", IF OrderUnchanged(c) THEN "lockNewOrder" ELSE "lockNewOrderOnly")
    /\ orderRow' = IF OrderUnchanged(c)
                   THEN [orderRow EXCEPT ![order[c]] = [lock |-> c, deliveries |-> deliveriesRead[c]]]
                   ELSE orderRow
    /\ UNCHANGED <<nextOID, indexVars, announced, newOrderRow, firstOrder, clientVars>>

NewOrderUnchanged(c) == newOrderRow[order[c]].lock = None

LockedNewOrder(c) ==
    IF NewOrderUnchanged(c) THEN [newOrderRow EXCEPT ![order[c]].lock = c] ELSE newOrderRow

LockNewOrder(c) ==
    /\ Goto(c, "lockNewOrder", IF NewOrderUnchanged(c) THEN "lockCustomer" ELSE "revertOrder")
    /\ newOrderRow' = LockedNewOrder(c)
    /\ UNCHANGED <<nextOID, indexVars, announced, orderRow, firstOrder, clientVars>>

\* The ORDER row's lock was refused; the NEW-ORDER row's was posted with it.
LockNewOrderOnly(c) ==
    /\ Goto(c, "lockNewOrderOnly", IF NewOrderUnchanged(c) THEN "revertNewOrder" ELSE "idle")
    /\ newOrderRow' = LockedNewOrder(c)
    /\ UNCHANGED <<nextOID, indexVars, announced, orderRow, firstOrder, clientVars>>

LockCustomer(c) ==
    /\ Goto(c, "lockCustomer", "install")
    /\ UNCHANGED <<nextOID, indexVars, announced, rowVars, clientVars>>

CustomerLockRefused(c) ==
    /\ Goto(c, "lockCustomer", "revertBoth")
    /\ UNCHANGED <<nextOID, indexVars, announced, rowVars, clientVars>>

RevertOrderLock(c) ==
    /\ \/ Goto(c, "revertOrder", "idle")
       \/ Goto(c, "revertBoth", "revertNewOrder")
    /\ orderRow' = [orderRow EXCEPT ![order[c]].lock = None]
    /\ UNCHANGED <<nextOID, indexVars, announced, newOrderRow, firstOrder, clientVars>>

\* Only the timestamp word is written back.
RevertNewOrderLock(c) ==
    /\ Goto(c, "revertNewOrder", "idle")
    /\ newOrderRow' = [newOrderRow EXCEPT ![order[c]].lock = None]
    /\ UNCHANGED <<nextOID, indexVars, announced, orderRow, firstOrder, clientVars>>

\* insertIntoNewOrder of a deleted row, at getNewOrderRID() of the deliverer's
\* own region: slot 0, as a DeliveryTransaction never increments its counter.
\* A client that also orders has the NEW-ORDER row of its first order there.
WriteDeletedRow(c, id) ==
    IF firstOrder[c] = None THEN newOrderRow
    ELSE [newOrderRow EXCEPT ![firstOrder[c]] = [lock |-> Deleted, id |-> id]]

\* Mutant: the NEW-ORDER row is written back where it was read, and not deleted.
InstallUndeleted(c) ==
    /\ Goto(c, "install", "register")
    /\ orderRow' = [orderRow EXCEPT ![order[c]] =
                       [lock |-> None, deliveries |-> deliveriesRead[c] + 1]]
    /\ newOrderRow' = [newOrderRow EXCEPT ![order[c]].lock = None]
    /\ UNCHANGED <<nextOID, indexVars, announced, firstOrder, clientVars>>

\* insertIntoOrder replaces and unlocks the ORDER row.  The NEW-ORDER row that
\* is locked is left as it is, unless it is in the slot that is written.
Install(c) ==
    /\ Goto(c, "install", "register")
    /\ orderRow' = [orderRow EXCEPT ![order[c]] =
                       [lock |-> None, deliveries |-> deliveriesRead[c] + 1]]
    /\ newOrderRow' = WriteDeletedRow(c, order[c])
    /\ UNCHANGED <<nextOID, indexVars, announced, firstOrder, clientVars>>

\* The same of an order of another district, whose ids are counted apart.
InstallElsewhere(c) ==
    /\ pc[c] = "idle"
    /\ \E id \in OrderIDs : newOrderRow' = WriteDeletedRow(c, id)
    /\ UNCHANGED <<nextOID, indexVars, announced, orderRow, firstOrder, pc, clientVars>>

\* Mutant: every order up to the delivered one is taken off.
RegisterDeliveryDrains(c) ==
    /\ Goto(c, "register", "submitDelivery")
    /\ newOrderQueue' = {o \in newOrderQueue : o > order[c]}
    /\ UNCHANGED <<nextOID, orderAddress, lineAddress, largestOrder, announced, rowVars, clientVars>>

\* registerDelivery pops the queue without looking at the order it was given.
RegisterDelivery(c) ==
    /\ Goto(c, "register", "submitDelivery")
    /\ newOrderQueue' = newOrderQueue \ {Min(newOrderQueue)}
    /\ UNCHANGED <<nextOID, orderAddress, lineAddress, largestOrder, announced, rowVars, clientVars>>

SubmitDelivery(c) ==
    /\ Goto(c, "submitDelivery", "idle")
    /\ announced' = announced \cup {<<order[c], deliveriesRead[c] + 1>>}
    /\ UNCHANGED <<nextOID, indexVars, rowVars, clientVars>>

-----------------------------------------------------------------------------
Order(c) ==
    \/ PutOrderAddress(c)
    \/ CompareLargest(c)
    \/ PutLargest(c)
    \/ PushNewOrder(c)
    \/ PutLineAddress(c)
    \/ SubmitOrder(c)

Deliver(c) ==
    \/ GetOldestNewOrder(c)
    \/ NoUndeliveredOrder(c)
    \/ LocateRows(c)
    \/ ReadOrder(c)
    \/ OrderInconsistentAbort(c)
    \/ ReadNewOrder(c)
    \/ InconsistentAbort(c)
    \/ LockOrder(c)
    \/ LockNewOrder(c)
    \/ LockNewOrderOnly(c)
    \/ LockCustomer(c)
    \/ CustomerLockRefused(c)
    \/ RevertOrderLock(c)
    \/ RevertNewOrderLock(c)
    \/ Install(c)
    \/ RegisterDelivery(c)
    \/ SubmitDelivery(c)

Next ==
    \/ \E c \in Orderers : PlaceOrder(c) \/ Order(c)
    \/ \E c \in Deliverers : StartDelivery(c) \/ Deliver(c) \/ InstallElsewhere(c)

Spec == Init /\ [][Next]_vars

-----------------------------------------------------------------------------
(***************************************************************************)
(* Properties.                                                             *)
(***************************************************************************)
DeliverySteps ==
    {"oldest", "locate", "readOrder", "readNewOrder", "lockOrder", "lockNewOrder", "lockNewOrderOnly", "lockCustomer",
     "revertOrder", "revertNewOrder", "revertBoth", "install", "register", "submitDelivery"}

\* Every variable has its type.
TypeOK ==
    /\ nextOID \in 0 .. MaxOrders
    /\ orderAddress \subseteq OrderIDs
    /\ lineAddress \subseteq OrderIDs
    /\ newOrderQueue \subseteq OrderIDs
    /\ largestOrder \in [Customers -> OrderIDs \cup {None}]
    /\ announced \subseteq OrderIDs \X Nat
    /\ orderRow \in [OrderIDs -> [lock : Deliverers \cup {None}, deliveries : Nat]]
    /\ newOrderRow \in [OrderIDs -> [lock : Deliverers \cup {None, Deleted}, id : OrderIDs]]
    /\ firstOrder \in [Clients -> OrderIDs \cup {None}]
    /\ pc \in [Clients -> {"idle", "address", "compare", "put", "push", "lines", "submit"}
                              \cup DeliverySteps]
    /\ order \in [Clients -> OrderIDs \cup {None}]
    /\ customer \in [Clients -> Customers \cup {None}]
    /\ snapshot \in [Clients -> SUBSET (OrderIDs \X Nat)]
    /\ deliveriesRead \in [Clients -> Nat]

\* No order is delivered twice, even if two clients pick the same oldest order
\* or the queue offers a delivered one again.
DeliveredAtMostOnce ==
    \A o \in OrderIDs : orderRow[o].deliveries <= 1

\* A delivery that comes to register finds something to pop: the queue is a
\* std::priority_queue, whose pop on an empty queue is undefined.
QueueIsNotEmptyAtPop ==
    \A c \in Deliverers : pc[c] = "register" => newOrderQueue # {}

\* What the index offers can be located: an order that is a customer's largest
\* or in the queue has an address, and an announced one, or one whose rows a
\* delivery goes on to read, has all its addresses, though an order is queued
\* before its lines are registered.
OfferedOrdersHaveAddresses ==
    /\ newOrderQueue \subseteq orderAddress
    /\ \A u \in Customers : largestOrder[u] # None => largestOrder[u] \in orderAddress
    /\ \A v \in announced : v[1] \in orderAddress \cap lineAddress
    /\ \A c \in Deliverers :
          pc[c] \in DeliverySteps \ {"oldest", "locate"} => order[c] \in orderAddress \cap lineAddress

\* An order that was announced and not delivered is in the queue, where "the
\* oldest undelivered order of that district" is looked for.
UndeliveredOrdersAreQueued ==
    \A v \in announced : orderRow[v[1]].deliveries = 0 => v[1] \in newOrderQueue

\* "update the customer's biggest order, if necessary": it is no smaller than
\* any order of the customer whose registration is finished.
LargestOrderIsLargest ==
    \A c \in Orderers :
        pc[c] \in {"push", "lines", "submit"} => largestOrder[customer[c]] >= order[c]

\* "successfully installed and unlocked all records": a delivery that comes to
\* register holds no lock on the rows of its order.
InstalledRowsAreUnlocked ==
    \A c \in Deliverers :
        pc[c] = "register" =>
            orderRow[order[c]].lock # c /\ newOrderRow[order[c]].lock # c
=============================================================================
