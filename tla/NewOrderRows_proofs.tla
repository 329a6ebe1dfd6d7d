-------------------------- MODULE NewOrderRows_proofs --------------------------
(***************************************************************************)
(* Proofs about the orders of New-Order, for any number of clients, stocks *)
(* and order slots: ids are unique, the index names rows that are there,   *)
(* an announced order is installed on all its stocks, and the pointer      *)
(* lists name the older versions of the stocks.                            *)
(*                                                                         *)
(* The argument.  An id is taken by fetch-and-add and is below D_NEXT_O_ID *)
(* from then on, so no later one equals it and a slot that is used again   *)
(* holds a later order.  A row belongs to the install its client is in, or *)
(* its timestamp is in the totals of all its stocks, where it stays.  The  *)
(* row of a running install has a timestamp the oracle does not have yet.  *)
(***************************************************************************)
EXTENDS NewOrderTrx_proofs

\* A client that has taken an id and not registered it.
Unregistered(c) == pc[c] = "install" /\ assignedOID[c] # -1

\* Ids that were taken are below the next one, and no two are equal.
TakenInv ==
    /\ \A e \in orderIndex : e.oID < nextOID
    /\ \A c \in Clients :
          Unregistered(c) =>
              /\ assignedOID[c] < nextOID
              /\ \A e \in orderIndex :
                    e.oID # assignedOID[c] /\ (e.client = c => e.oID < assignedOID[c])
              /\ \A d \in Clients \ {c} : Unregistered(d) => assignedOID[d] # assignedOID[c]

\* A row is that of the running install, or in the totals of all its stocks.
Running(c, row) ==
    /\ Unregistered(c)
    /\ row.ts.timestamp = cts[c]
    /\ row.oID = assignedOID[c]
    /\ row.items = items[c]

Installed(row) == \A s \in row.items : row.ts.timestamp \in headVersions[s].ytd

RowInv ==
    \A c \in Clients, i \in Slots :
        ~orderTable[c][i].ts.deleted =>
            /\ orderTable[c][i].ts.clientID = c
            /\ Running(c, orderTable[c][i]) \/ Installed(orderTable[c][i])

\* An install has written its row, and the stocks it is done with.
ProgressInv ==
    \A c \in Clients :
        pc[c] = "install" =>
            /\ inserted[c] =>
                  /\ ~orderTable[c][orderRID[c]].ts.deleted
                  /\ orderTable[c][orderRID[c]].oID = assignedOID[c]
            /\ \A s \in items[c] : stage[c][s] = 4 => cts[c] \in headVersions[s].ytd

\* The slot an index entry names holds that order or a later one.
EntryInv ==
    \A e \in orderIndex :
        /\ ~orderTable[e.client][e.slot].ts.deleted
        /\ orderTable[e.client][e.slot].oID >= e.oID

\* What does not depend on the ids.
RowsInv == IInv /\ RowInv /\ ProgressInv

OrderInv == RowsInv /\ TakenInv /\ UniqueOrderIDs /\ EntryInv

-----------------------------------------------------------------------------
LEMMA RowsInit == Init => RowsInv
<1> SUFFICES ASSUME Init PROVE RowsInv
    OBVIOUS
<1>1. EmptyRow.ts.deleted
    BY DEF EmptyRow, EmptyTimestamp, Timestamp
<1>2. RowInv
    BY <1>1 DEF Init, RowInv
<1>3. ProgressInv
    BY DEF Init, ProgressInv
<1> QED
    BY <1>2, <1>3, IInvInit DEF RowsInv

LEMMA OrderInit == Init => OrderInv
    BY RowsInit DEF Init, OrderInv, TakenInv, UniqueOrderIDs, EntryInv, Unregistered

\* Steps that take, write and register no order and finish no stock.
Elsewhere ==
    /\ UNCHANGED <<nextOID, orderIndex, orderTable>>
    /\ \A d \in Clients :
          /\ pc[d] = "install" <=> pc'[d] = "install"
          /\ pc[d] = "install" =>
                /\ assignedOID'[d] = assignedOID[d] /\ inserted'[d] = inserted[d]
                /\ orderRID'[d] = orderRID[d] /\ items'[d] = items[d] /\ cts'[d] = cts[d]
                /\ \A s \in items[d] : stage'[d][s] = 4 => stage[d][s] = 4

\* What the rows and items of a client name are stocks.
LEMMA RowItems ==
    ASSUME TypeOK
    PROVE  /\ \A c \in Clients : items[c] \subseteq Stocks
           /\ \A c \in Clients, i \in Slots : orderTable[c][i].items \subseteq Stocks
BY DEF TypeOK, RowType

\* A row that is in the totals of its stocks stays there.
LEMMA InstalledStays ==
    ASSUME RowsInv, Grows, NEW c \in Clients, NEW i \in Slots, Installed(orderTable[c][i])
    PROVE  \A s \in orderTable[c][i].items : orderTable[c][i].ts.timestamp \in headVersions'[s].ytd
BY RowItems DEF RowsInv, IInv, TypeInv, Grows, Installed

LEMMA ElsewhereRows ==
    ASSUME RowsInv, Grows, Elsewhere, IInv'
    PROVE  RowsInv'
<1>1. TypeOK
    BY DEF RowsInv, IInv, TypeInv
<1>2. \A d \in Clients : (Unregistered(d)' <=> Unregistered(d))
                         /\ (Unregistered(d) => assignedOID'[d] = assignedOID[d])
    BY DEF Elsewhere, Unregistered
<1>3. RowInv'
    <2> SUFFICES ASSUME NEW c \in Clients, NEW i \in Slots, ~orderTable[c][i].ts.deleted
                 PROVE  /\ orderTable[c][i].ts.clientID = c
                        /\ \/ Running(c, orderTable[c][i])'
                           \/ Installed(orderTable[c][i])'
        BY DEF RowInv, Elsewhere
    <2>1. CASE Running(c, orderTable[c][i])
        BY <1>2, <2>1 DEF RowsInv, RowInv, Running, Unregistered, Elsewhere
    <2>2. CASE Installed(orderTable[c][i])
        BY <2>2, InstalledStays DEF RowsInv, RowInv, Installed, Elsewhere
    <2> QED
        BY <2>1, <2>2 DEF RowsInv, RowInv
<1>4. ProgressInv'
    BY <1>1, RowItems DEF RowsInv, ProgressInv, Elsewhere, Grows
<1> QED
    BY <1>3, <1>4 DEF RowsInv

LEMMA ElsewhereStep ==
    ASSUME OrderInv, Grows, Elsewhere, IInv'
    PROVE  OrderInv'
<1>1. \A d \in Clients : (Unregistered(d)' <=> Unregistered(d))
                         /\ (Unregistered(d) => assignedOID'[d] = assignedOID[d])
    BY DEF Elsewhere, Unregistered
<1>2. TakenInv' /\ UniqueOrderIDs' /\ EntryInv'
    BY <1>1 DEF OrderInv, Elsewhere, TakenInv, UniqueOrderIDs, EntryInv
<1> QED
    BY <1>2, ElsewhereRows DEF OrderInv

-----------------------------------------------------------------------------
\* An install begins: no id is taken yet, nothing is written.
LEMMA LocksAcquiredRows ==
    ASSUME RowsInv, Grows, IInv', NEW c \in Clients, LocksAcquired(c)
    PROVE  RowsInv'
<1>1. TypeOK
    BY DEF RowsInv, IInv, TypeInv
<1>2. /\ UNCHANGED <<nextOID, orderIndex, orderTable, items, cts, orderRID>>
      /\ pc[c] = "lock" /\ pc'[c] = "install"
      /\ assignedOID'[c] = -1 /\ ~inserted'[c]
      /\ \A r \in Records : stage'[c][r] = 0
      /\ \A d \in Clients \ {c} : /\ pc'[d] = pc[d] /\ assignedOID'[d] = assignedOID[d]
                                  /\ inserted'[d] = inserted[d] /\ stage'[d] = stage[d]
    BY <1>1 DEF LocksAcquired, TypeOK, orderVars
<1>3. /\ ~Unregistered(c)'
      /\ \A d \in Clients : (Unregistered(d)' <=> Unregistered(d))
                            /\ (Unregistered(d) => assignedOID'[d] = assignedOID[d])
    BY <1>2 DEF Unregistered
<1>4. RowInv'
    <2> SUFFICES ASSUME NEW d \in Clients, NEW i \in Slots, ~orderTable[d][i].ts.deleted
                 PROVE  /\ orderTable[d][i].ts.clientID = d
                        /\ \/ Running(d, orderTable[d][i])'
                           \/ Installed(orderTable[d][i])'
        BY <1>2 DEF RowInv
    <2>1. CASE Running(d, orderTable[d][i])
        BY <1>2, <1>3, <2>1 DEF RowsInv, RowInv, Running
    <2>2. CASE Installed(orderTable[d][i])
        BY <1>2, <2>2, InstalledStays DEF RowsInv, RowInv, Installed
    <2> QED
        BY <2>1, <2>2 DEF RowsInv, RowInv
<1>5. ProgressInv'
    BY <1>1, <1>2, RowItems, RecordsParts DEF RowsInv, ProgressInv, Grows
<1> QED
    BY <1>4, <1>5 DEF RowsInv

LEMMA LocksAcquiredStep ==
    ASSUME OrderInv, Grows, IInv', NEW c \in Clients, LocksAcquired(c)
    PROVE  OrderInv'
<1>1. TypeOK
    BY DEF OrderInv, RowsInv, IInv, TypeInv
<1>2. /\ UNCHANGED <<nextOID, orderIndex, orderTable>>
      /\ pc[c] = "lock" /\ assignedOID'[c] = -1
      /\ \A d \in Clients \ {c} : pc'[d] = pc[d] /\ assignedOID'[d] = assignedOID[d]
    BY <1>1 DEF LocksAcquired, TypeOK, orderVars
<1>3. /\ ~Unregistered(c)'
      /\ \A d \in Clients : (Unregistered(d)' <=> Unregistered(d))
                            /\ (Unregistered(d) => assignedOID'[d] = assignedOID[d])
    BY <1>2 DEF Unregistered
<1>4. TakenInv' /\ UniqueOrderIDs' /\ EntryInv'
    BY <1>2, <1>3 DEF OrderInv, TakenInv, UniqueOrderIDs, EntryInv
<1> QED
    BY <1>4, LocksAcquiredRows DEF OrderInv

\* The id that is taken is above all others.
LEMMA TakeRows ==
    ASSUME RowsInv, IInv', NEW c \in Clients, RetrieveAndIncrementDistrictNextOID(c)
    PROVE  RowsInv'
<1>1. TypeOK
    BY DEF RowsInv, IInv, TypeInv
<1>2. /\ UNCHANGED <<orderIndex, orderTable, items, cts, orderRID, inserted, pc, stage, headVersions>>
      /\ pc[c] = "install" /\ assignedOID[c] = -1 /\ ~inserted[c]
      /\ assignedOID'[c] = nextOID /\ nextOID' = nextOID + 1 /\ nextOID \in Nat
      /\ \A d \in Clients \ {c} : assignedOID'[d] = assignedOID[d]
    BY <1>1 DEF RetrieveAndIncrementDistrictNextOID, TypeOK, serverVars, orderVars, trxVars
<1>3. ~Unregistered(c) /\ \A d \in Clients \ {c} : Unregistered(d)' <=> Unregistered(d)
    BY <1>2 DEF Unregistered
<1>4. RowInv'
    <2> SUFFICES ASSUME NEW d \in Clients, NEW i \in Slots, ~orderTable[d][i].ts.deleted
                 PROVE  /\ orderTable[d][i].ts.clientID = d
                        /\ \/ Running(d, orderTable[d][i])'
                           \/ Installed(orderTable[d][i])'
        BY <1>2 DEF RowInv
    <2>1. CASE Running(d, orderTable[d][i])
        BY <1>2, <1>3, <2>1 DEF RowsInv, RowInv, Running
    <2>2. CASE Installed(orderTable[d][i])
        BY <1>2, <2>2 DEF RowsInv, RowInv, Installed
    <2> QED
        BY <2>1, <2>2 DEF RowsInv, RowInv
<1>5. ProgressInv'
    BY <1>2 DEF RowsInv, ProgressInv
<1> QED
    BY <1>4, <1>5 DEF RowsInv

LEMMA TakeStep ==
    ASSUME OrderInv, IInv', NEW c \in Clients, RetrieveAndIncrementDistrictNextOID(c)
    PROVE  OrderInv'
<1>1. TypeOK
    BY DEF OrderInv, RowsInv, IInv, TypeInv
<1>2. /\ UNCHANGED <<orderIndex, orderTable, items, cts, orderRID, inserted, pc, stage, headVersions>>
      /\ pc[c] = "install" /\ assignedOID[c] = -1 /\ ~inserted[c]
      /\ assignedOID'[c] = nextOID /\ nextOID' = nextOID + 1 /\ nextOID \in Nat
      /\ \A d \in Clients \ {c} : assignedOID'[d] = assignedOID[d]
    BY <1>1 DEF RetrieveAndIncrementDistrictNextOID, TypeOK, serverVars, orderVars, trxVars
<1>3. ~Unregistered(c) /\ \A d \in Clients \ {c} : Unregistered(d)' <=> Unregistered(d)
    BY <1>2 DEF Unregistered
<1>4. /\ \A e \in orderIndex : e.oID \in Nat
      /\ \A d \in Clients : Unregistered(d) => assignedOID[d] \in Nat
    BY <1>1 DEF TypeOK, Unregistered
<1>5. TakenInv'
    BY <1>2, <1>3, <1>4 DEF OrderInv, TakenInv
<1>6. UniqueOrderIDs' /\ EntryInv'
    BY <1>2 DEF OrderInv, UniqueOrderIDs, EntryInv
<1> QED
    BY <1>5, <1>6, TakeRows DEF OrderInv

\* The row goes to a slot whose earlier orders were announced with smaller ids.
LEMMA InsertRows ==
    ASSUME RowsInv, IInv', NEW c \in Clients, InsertOrder(c)
    PROVE  RowsInv'
<1> DEFINE row == [ts |-> Timestamp(FALSE, FALSE, 0, c, cts[c]),
                   oID |-> assignedOID[c], items |-> items[c]]
<1>1. TypeOK
    BY DEF RowsInv, IInv, TypeInv
<1>2. /\ UNCHANGED <<nextOID, orderIndex, items, cts, orderRID, assignedOID, pc, stage, headVersions>>
      /\ Unregistered(c)
      /\ \A d \in Clients \ {c} : inserted'[d] = inserted[d]
    BY <1>1 DEF InsertOrder, TypeOK, Unregistered, serverVars, trxVars
<1>3. /\ orderTable'[c][orderRID[c]] = row /\ orderRID[c] \in Slots
      /\ \A d \in Clients, i \in Slots :
            (d # c \/ i # orderRID[c]) => orderTable'[d][i] = orderTable[d][i]
    BY <1>1 DEF InsertOrder, TypeOK
<1>4. ~row.ts.deleted /\ row.ts.clientID = c /\ row.ts.timestamp = cts[c]
    BY DEF Timestamp
<1>5. row.oID = assignedOID[c] /\ row.items = items[c] /\ assignedOID[c] \in Nat
    BY <1>1, <1>2 DEF Unregistered, TypeOK
<1>6. Running(c, row)
    BY <1>2, <1>4, <1>5 DEF Running
<1> HIDE DEF row
<1>7. \A d \in Clients : Unregistered(d)' <=> Unregistered(d)
    BY <1>2 DEF Unregistered
<1>8. RowInv'
    <2> SUFFICES ASSUME NEW d \in Clients, NEW i \in Slots, ~orderTable'[d][i].ts.deleted
                 PROVE  /\ orderTable'[d][i].ts.clientID = d
                        /\ \/ Running(d, orderTable[d][i])'
                           \/ Installed(orderTable[d][i])'
        BY DEF RowInv
    <2>1. CASE d = c /\ i = orderRID[c]
        BY <1>2, <1>3, <1>4, <1>6, <1>7, <2>1 DEF Running
    <2>2. CASE d # c \/ i # orderRID[c]
        BY <1>2, <1>3, <1>7, <2>2 DEF RowsInv, RowInv, Running, Installed
    <2> QED
        BY <2>1, <2>2
<1>9. ProgressInv'
    <2>1. /\ ~orderTable'[c][orderRID[c]].ts.deleted
          /\ orderTable'[c][orderRID[c]].oID = assignedOID[c]
        BY <1>3, <1>4, <1>5
    <2>2. \A d \in Clients \ {c} : orderTable'[d][orderRID[d]] = orderTable[d][orderRID[d]]
        BY <1>1, <1>3 DEF TypeOK
    <2> QED
        BY <1>2, <2>1, <2>2 DEF RowsInv, ProgressInv
<1> QED
    BY <1>8, <1>9 DEF RowsInv

LEMMA InsertStep ==
    ASSUME OrderInv, IInv', NEW c \in Clients, InsertOrder(c)
    PROVE  OrderInv'
<1> DEFINE row == [ts |-> Timestamp(FALSE, FALSE, 0, c, cts[c]),
                   oID |-> assignedOID[c], items |-> items[c]]
<1>1. TypeOK
    BY DEF OrderInv, RowsInv, IInv, TypeInv
<1>2. UNCHANGED <<nextOID, orderIndex, assignedOID, pc>> /\ Unregistered(c)
    BY DEF InsertOrder, Unregistered
<1>3. /\ orderTable'[c][orderRID[c]] = row /\ orderRID[c] \in Slots
      /\ \A d \in Clients, i \in Slots :
            (d # c \/ i # orderRID[c]) => orderTable'[d][i] = orderTable[d][i]
    BY <1>1 DEF InsertOrder, TypeOK
<1>4. ~row.ts.deleted
    BY DEF Timestamp
<1>5. row.oID = assignedOID[c] /\ assignedOID[c] \in Nat
    BY <1>1, <1>2 DEF Unregistered, TypeOK
<1> HIDE DEF row
<1>6. \A d \in Clients : Unregistered(d)' <=> Unregistered(d)
    BY <1>2 DEF Unregistered
<1>7. TakenInv' /\ UniqueOrderIDs'
    BY <1>2, <1>6 DEF OrderInv, TakenInv, UniqueOrderIDs
<1>8. EntryInv'
    <2> SUFFICES ASSUME NEW e \in orderIndex
                 PROVE  /\ ~orderTable'[e.client][e.slot].ts.deleted
                        /\ orderTable'[e.client][e.slot].oID >= e.oID
        BY <1>2 DEF EntryInv
    <2>1. e.client \in Clients /\ e.slot \in Slots /\ e.oID \in Nat
        BY <1>1 DEF TypeOK
    <2>2. CASE e.client = c /\ e.slot = orderRID[c]
        <3>1. e.oID < assignedOID[c]
            BY <1>2, <2>2 DEF OrderInv, TakenInv
        <3> QED
            BY <1>3, <1>4, <1>5, <2>1, <2>2, <3>1
    <2>3. CASE e.client # c \/ e.slot # orderRID[c]
        BY <1>3, <2>1, <2>3 DEF OrderInv, EntryInv
    <2> QED
        BY <2>2, <2>3
<1> QED
    BY <1>7, <1>8, InsertRows DEF OrderInv

\* A stock that is done has the commit timestamp in its totals.
LEMMA UpdateStockRows ==
    ASSUME RowsInv, Grows, IInv', NEW c \in Clients, NEW s \in Stocks, UpdateStock(c, s)
    PROVE  RowsInv'
<1>1. TypeOK
    BY DEF RowsInv, IInv, TypeInv
<1>2. UNCHANGED <<nextOID, orderIndex, orderTable, items, cts, orderRID, assignedOID, inserted, pc>>
    BY DEF UpdateStock, orderVars, trxVars, rowVars
<1>3. /\ cts[c] \in headVersions'[s].ytd
      /\ \A d \in Clients, t \in Stocks : (d # c \/ t # s) => stage'[d][t] = stage[d][t]
    BY <1>1, UpdateStockEffect
<1>4. \A d \in Clients : Unregistered(d)' <=> Unregistered(d)
    BY <1>2 DEF Unregistered
<1>5. RowInv'
    <2> SUFFICES ASSUME NEW d \in Clients, NEW i \in Slots, ~orderTable[d][i].ts.deleted
                 PROVE  /\ orderTable[d][i].ts.clientID = d
                        /\ \/ Running(d, orderTable[d][i])'
                           \/ Installed(orderTable[d][i])'
        BY <1>2 DEF RowInv
    <2>1. CASE Running(d, orderTable[d][i])
        BY <1>2, <1>4, <2>1 DEF RowsInv, RowInv, Running
    <2>2. CASE Installed(orderTable[d][i])
        BY <1>2, <2>2, InstalledStays DEF RowsInv, RowInv, Installed
    <2> QED
        BY <2>1, <2>2 DEF RowsInv, RowInv
<1>6. ProgressInv'
    <2> SUFFICES ASSUME NEW d \in Clients, pc[d] = "install"
                 PROVE  \A t \in items[d] : stage'[d][t] = 4 => cts[d] \in headVersions'[t].ytd
        BY <1>2 DEF RowsInv, ProgressInv
    <2>1. ASSUME NEW t \in items[d], stage'[d][t] = 4 PROVE cts[d] \in headVersions'[t].ytd
        <3>1. t \in Stocks
            BY <1>1, RowItems
        <3>2. CASE d = c /\ t = s
            BY <1>3, <3>2
        <3>3. CASE d # c \/ t # s
            BY <1>3, <2>1, <3>1, <3>3 DEF RowsInv, ProgressInv, Grows
        <3> QED
            BY <3>2, <3>3
    <2> QED
        BY <2>1
<1> QED
    BY <1>5, <1>6 DEF RowsInv

LEMMA UpdateStockStep ==
    ASSUME OrderInv, Grows, IInv', NEW c \in Clients, NEW s \in Stocks, UpdateStock(c, s)
    PROVE  OrderInv'
<1>1. UNCHANGED <<nextOID, orderIndex, orderTable, assignedOID, pc>>
    BY DEF UpdateStock, orderVars, rowVars
<1>2. \A d \in Clients : Unregistered(d)' <=> Unregistered(d)
    BY <1>1 DEF Unregistered
<1>3. TakenInv' /\ UniqueOrderIDs' /\ EntryInv'
    BY <1>1, <1>2 DEF OrderInv, TakenInv, UniqueOrderIDs, EntryInv
<1> QED
    BY <1>3, UpdateStockRows DEF OrderInv

\* What is registered is written and installed.
LEMMA RegisterRows ==
    ASSUME RowsInv, IInv', NEW c \in Clients, RegisterOrder(c)
    PROVE  RowsInv'
<1>1. TypeOK
    BY DEF RowsInv, IInv, TypeInv
<1>2. /\ UNCHANGED <<nextOID, orderTable, items, cts, orderRID, assignedOID, inserted, stage, headVersions>>
      /\ pc[c] = "install" /\ inserted[c] /\ pc'[c] = "submit"
      /\ \A d \in Clients \ {c} : pc'[d] = pc[d]
    BY <1>1 DEF RegisterOrder, TypeOK, serverVars, trxVars, rowVars
<1>3. \A d \in Clients \ {c} : Unregistered(d)' <=> Unregistered(d)
    BY <1>2 DEF Unregistered
<1>4. ProgressInv'
    BY <1>2 DEF RowsInv, ProgressInv
<1>5. \A s \in items[c] : cts[c] \in headVersions[s].ytd
    BY <1>2 DEF RegisterOrder, Reached, RowsInv, ProgressInv
<1>6. RowInv'
    <2> SUFFICES ASSUME NEW d \in Clients, NEW i \in Slots, ~orderTable[d][i].ts.deleted
                 PROVE  /\ orderTable[d][i].ts.clientID = d
                        /\ \/ Running(d, orderTable[d][i])'
                           \/ Installed(orderTable[d][i])'
        BY <1>2 DEF RowInv
    <2>1. CASE Running(d, orderTable[d][i]) /\ d = c
        BY <1>2, <1>5, <2>1 DEF RowsInv, RowInv, Running, Installed
    <2>2. CASE Running(d, orderTable[d][i]) /\ d # c
        BY <1>2, <1>3, <2>2 DEF RowsInv, RowInv, Running
    <2>3. CASE Installed(orderTable[d][i])
        BY <1>2, <2>3 DEF RowsInv, RowInv, Installed
    <2> QED
        BY <2>1, <2>2, <2>3 DEF RowsInv, RowInv
<1> QED
    BY <1>4, <1>6 DEF RowsInv

LEMMA RegisterStep ==
    ASSUME OrderInv, IInv', NEW c \in Clients, RegisterOrder(c)
    PROVE  OrderInv'
<1> DEFINE entry == [oID |-> assignedOID[c], client |-> c, slot |-> orderRID[c]]
<1>1. TypeOK
    BY DEF OrderInv, RowsInv, IInv, TypeInv
<1>2. /\ UNCHANGED <<nextOID, orderTable, orderRID, assignedOID, inserted>>
      /\ orderIndex' = orderIndex \cup {entry}
      /\ pc[c] = "install" /\ inserted[c] /\ pc'[c] = "submit"
      /\ \A d \in Clients \ {c} : pc'[d] = pc[d]
    BY <1>1 DEF RegisterOrder, TypeOK, serverVars, trxVars, rowVars
<1>3. Unregistered(c) /\ ~Unregistered(c)' /\ assignedOID[c] \in Nat
    BY <1>1, <1>2 DEF TypeOK, Unregistered
<1>4. \A d \in Clients \ {c} : Unregistered(d)' <=> Unregistered(d)
    BY <1>2 DEF Unregistered
<1>5. entry.oID = assignedOID[c] /\ entry.client = c /\ entry.slot = orderRID[c]
    OBVIOUS
<1> HIDE DEF entry
<1>6. TakenInv'
    BY <1>2, <1>3, <1>4, <1>5 DEF OrderInv, TakenInv
<1>7. UniqueOrderIDs'
    BY <1>2, <1>3, <1>5 DEF OrderInv, TakenInv, UniqueOrderIDs
<1>8. EntryInv'
    BY <1>2, <1>3, <1>5 DEF OrderInv, RowsInv, EntryInv, ProgressInv
<1> QED
    BY <1>6, <1>7, <1>8, RegisterRows DEF OrderInv

-----------------------------------------------------------------------------
\* The other steps.
LEMMA OtherSteps ==
    ASSUME TypeOK, [Next]_vars
    PROVE  \/ Elsewhere
           \/ \E c \in Clients :
                 \/ LocksAcquired(c) \/ RetrieveAndIncrementDistrictNextOID(c)
                 \/ InsertOrder(c) \/ RegisterOrder(c)
                 \/ \E s \in Stocks : UpdateStock(c, s)
<1> USE DEF serverVars, orderVars, oracleVars, trxVars, rowVars
<1>1. ASSUME NEW c \in Clients, Start(c) PROVE Elsewhere
    BY <1>1, RowItems, RecordsParts DEF TypeOK, Elsewhere, Start
<1>2. ASSUME NEW c \in Clients, NEW e \in Clients, getReadTimestamp(c, e) PROVE Elsewhere
    BY <1>2, RowItems, RecordsParts DEF TypeOK, Elsewhere, getReadTimestamp
<1>3. ASSUME NEW c \in Clients, NEW r \in Records, RetrieveTimestamp(c, r) PROVE Elsewhere
    BY <1>3, RowItems, RecordsParts DEF TypeOK, Elsewhere, RetrieveTimestamp
<1>4. ASSUME NEW c \in Clients, NEW r \in Records, RetrieveRow(c, r) PROVE Elsewhere
    BY <1>4, RowItems, RecordsParts DEF TypeOK, Elsewhere, RetrieveRow
<1>5. ASSUME NEW c \in Clients, NEW r \in Records, RetrievePointerList(c, r) PROVE Elsewhere
    BY <1>5, RowItems, RecordsParts DEF TypeOK, Elsewhere, RetrievePointerList
<1>6. ASSUME NEW c \in Clients, CheckVersionsAbort(c) PROVE Elsewhere
    BY <1>6, RowItems, RecordsParts DEF TypeOK, Elsewhere, CheckVersionsAbort
<1>7. ASSUME NEW c \in Clients, CheckVersions(c) PROVE Elsewhere
    BY <1>7, RowItems, RecordsParts DEF TypeOK, Elsewhere, CheckVersions
<1>8. ASSUME NEW c \in Clients, NEW r \in Refs, RetrieveOlderVersion(c, r) PROVE Elsewhere
    BY <1>8, RowItems, RecordsParts DEF TypeOK, Elsewhere, RetrieveOlderVersion
<1>9. ASSUME NEW c \in Clients, NEW r \in Refs, RecheckAbort(c, r) PROVE Elsewhere
    BY <1>9, RowItems, RecordsParts DEF TypeOK, Elsewhere, RecheckAbort
<1>10. ASSUME NEW c \in Clients, AcquireCommitTimestamp(c) PROVE Elsewhere
    BY <1>10, RowItems, RecordsParts DEF TypeOK, Elsewhere, AcquireCommitTimestamp, getNewCommitTimestamp
<1>11. ASSUME NEW c \in Clients, NEW s \in Stocks, LockStock(c, s) PROVE Elsewhere
    BY <1>11, RowItems, RecordsParts DEF TypeOK, Elsewhere, LockStock
<1>12. ASSUME NEW c \in Clients, LocksRefused(c) PROVE Elsewhere
    BY <1>12, RowItems, RecordsParts DEF TypeOK, Elsewhere, LocksRefused
<1>13. ASSUME NEW c \in Clients, NEW s \in Stocks, RevertStockLock(c, s) PROVE Elsewhere
    BY <1>13, RowItems, RecordsParts DEF TypeOK, Elsewhere, RevertStockLock
<1>14. ASSUME NEW c \in Clients, LockAbort(c) PROVE Elsewhere
    BY <1>14, RowItems, RecordsParts DEF TypeOK, Elsewhere, LockAbort
<1>15. ASSUME NEW c \in Clients, NEW s \in Stocks, UpdateStockPointers(c, s) PROVE Elsewhere
    BY <1>15, RowItems, RecordsParts DEF TypeOK, Elsewhere, UpdateStockPointers
<1>16. ASSUME NEW c \in Clients, NEW s \in Stocks, UpdateStockOlderVersions(c, s) PROVE Elsewhere
    BY <1>16, RowItems, RecordsParts DEF TypeOK, Elsewhere, UpdateStockOlderVersions
<1>17. ASSUME NEW c \in Clients, NEW s \in Stocks, UpdateStockTimestamp(c, s) PROVE Elsewhere
    BY <1>17, RowItems, RecordsParts DEF TypeOK, Elsewhere, UpdateStockTimestamp
<1>18. ASSUME NEW c \in Clients, SubmitResult(c) PROVE Elsewhere
    BY <1>18, RowItems, RecordsParts DEF TypeOK, Elsewhere, SubmitResult
<1>19. ASSUME NEW e \in Clients, ReaderRefresh(e) PROVE Elsewhere
    BY <1>19, RowItems, RecordsParts DEF TypeOK, Elsewhere, ReaderRefresh
<1>20. CASE UNCHANGED vars
    BY <1>20 DEF Elsewhere, vars
<1> QED
    BY <1>1, <1>2, <1>3, <1>4, <1>5, <1>6, <1>7, <1>8, <1>9, <1>10, <1>11, <1>12, <1>13, <1>14,
       <1>15, <1>16, <1>17, <1>18, <1>19, <1>20
    DEF Next, Step

\* The inductive step, for the rows and then with the ids.
LEMMA RowsStep == RowsInv /\ [Next]_vars => RowsInv'
<1> SUFFICES ASSUME RowsInv, [Next]_vars PROVE RowsInv'
    OBVIOUS
<1>1. IInv' /\ Grows /\ TypeOK
    BY IInvStep, TotalsGrow DEF RowsInv, IInv, TypeInv
<1> QED
    BY <1>1, OtherSteps, ElsewhereRows, LocksAcquiredRows, TakeRows, InsertRows, UpdateStockRows,
       RegisterRows

LEMMA OrderInvStep == OrderInv /\ [Next]_vars => OrderInv'
<1> SUFFICES ASSUME OrderInv, [Next]_vars PROVE OrderInv'
    OBVIOUS
<1>1. IInv' /\ Grows /\ TypeOK
    BY IInvStep, TotalsGrow DEF OrderInv, RowsInv, IInv, TypeInv
<1> QED
    BY <1>1, OtherSteps, ElsewhereStep, LocksAcquiredStep, TakeStep, InsertStep, UpdateStockStep,
       RegisterStep

\* OrderInv holds throughout every run of New-Order.
THEOREM OrderInvariance == Spec => []OrderInv
    BY OrderInit, OrderInvStep, PTL DEF Spec

\* The fetch-and-add on D_NEXT_O_ID gives no two orders of the index one id.
THEOREM OrderIDsAreUnique == Spec => []UniqueOrderIDs
<1>1. OrderInv => UniqueOrderIDs
    BY DEF OrderInv
<1> QED
    BY <1>1, OrderInvariance, PTL

\* A row the oracle's vector announces is not that of a running install.
LEMMA AnnouncedIsInstalled == RowsInv => AnnouncedOrdersInstalled
<1> SUFFICES ASSUME RowsInv, NEW row \in AnnouncedRows, NEW s \in row.items
             PROVE  row.ts.timestamp \in headVersions[s].ytd
    BY DEF AnnouncedOrdersInstalled
<1>1. PICK c \in Clients, i \in Slots : row = orderTable[c][i]
    BY DEF AnnouncedRows
<1>2. row.ts.clientID = c /\ row.ts.timestamp <= lastCommittedVector[c]
    BY <1>1 DEF AnnouncedRows, RowsInv, RowInv
<1>3. ~Running(c, row)
    <2>1. lastCommittedVector[c] \in Nat /\ cts[c] \in Nat
        BY DEF RowsInv, IInv, TypeInv, TypeOK
    <2> QED
        BY <1>2, <2>1 DEF RowsInv, IInv, VectorInv, Running, Unregistered
<1> QED
    BY <1>1, <1>3 DEF AnnouncedRows, RowsInv, RowInv, Installed

\* What submitResult announces in the oracle's vector is installed: a snapshot
\* that may see an order sees it on every stock.
THEOREM AnnouncementsAreInstalled == Spec => []AnnouncedOrdersInstalled
    BY RowsInit, RowsStep, AnnouncedIsInstalled, PTL DEF Spec

\* What registerOrder tells the index of an order is already there, also when
\* the client's region has wrapped around since.
THEOREM EntriesNameInstalledRows == Spec => []IndexNamesInstalledRows
<1>1. OrderInv => IndexNamesInstalledRows
    <2> SUFFICES ASSUME OrderInv, NEW e \in orderIndex,
                        orderTable[e.client][e.slot].oID = e.oID
                 PROVE  Installed(orderTable[e.client][e.slot])
        BY DEF IndexNamesInstalledRows, OrderInv, EntryInv, Installed
    <2>1. e.client \in Clients /\ e.slot \in Slots
        BY DEF OrderInv, RowsInv, IInv, TypeInv, TypeOK
    <2>2. ~Running(e.client, orderTable[e.client][e.slot])
        BY <2>1 DEF OrderInv, TakenInv, Running
    <2> QED
        BY <2>1, <2>2 DEF OrderInv, RowsInv, EntryInv, RowInv
<1> QED
    BY <1>1, OrderInvariance, PTL

-----------------------------------------------------------------------------
(***************************************************************************)
(* The older versions of a stock.  A head with version offset o was put    *)
(* over the one with offset o - 1, and so on around the ring: position i   *)
(* of the pointer list belongs to slot RingSlot(o, i).  A client shifts    *)
(* and writes back a list that it read before it had the lock; that it is  *)
(* the list on the server follows as for the row: when a list changes, the *)
(* word it was read with is never again in the head, and the lock fails.   *)
(***************************************************************************)

\* The slot of the version that is i places behind the one a head with offset o
\* replaced.
RingSlot(o, i) == IF i < o THEN o - 1 - i ELSE o - 1 - i + VersionNum

\* The entry at position i is empty, or it names the slot that holds its version.
NamesSlot(entry, ring, slot) ==
    ~entry.deleted => entry.versionOffset = slot /\ ring[slot].ts = entry

Named(list, ring, o) ==
    \A i \in VersionOffsets : NamesSlot(list[i], ring, RingSlot(o, i))

\* The head's word is in front of the list and its version not yet in the ring.
Renaming(list, ring, ts) ==
    /\ list[0] = ts
    /\ \A i \in VersionOffsets \ {0} :
          NamesSlot(list[i], ring, RingSlot(NextVersionOffset(ts.versionOffset), i))

\* Client c has read the pointer list of s and not yet locked all its stocks.
ListRead(c, s) ==
    /\ s \in items[c]
    /\ \/ pc[c] = "execute" /\ stage[c][s] >= 3
       \/ pc[c] \in {"recheck", "lock"}

\* A usable word that is in the head, or that its holder may put back, came
\* with the pointer list the server holds.
ListIdentityAt(c, s) ==
    (ListRead(c, s) /\ Accessible(c, s)) =>
        /\ headVersions[s].ts = heads[c][s].ts => tsList[s] = lists[c][s]
        /\ \A d \in Clients :
              (/\ s \in won[d]
               /\ pc[d] \in {"lock", "revert"}
               /\ heads[d][s].ts = heads[c][s].ts) => tsList[s] = lists[c][s]

ListIdentityInv == \A c \in Clients, s \in Stocks : ListIdentityAt(c, s)

\* Client c installs s, which it holds, and has come to stage n.
Installing(c, s, n) == pc[c] = "install" /\ s \in won[c] /\ stage[c][s] = n

RingAt(s) ==
    /\ \A c \in Clients :
          /\ Installing(c, s, 0) => tsList[s] = lists[c][s]
          /\ Installing(c, s, 1) => Renaming(tsList[s], olderVersions[s], heads[c][s].ts)
          /\ Installing(c, s, 2) =>
                Named(tsList[s], olderVersions[s],
                      NextVersionOffset(heads[c][s].ts.versionOffset))
    /\ (\A c \in Clients : ~Installing(c, s, 1) /\ ~Installing(c, s, 2)) =>
          Named(tsList[s], olderVersions[s], headVersions[s].ts.versionOffset)

RingInv == \A s \in Stocks : RingAt(s)

ListInv == IInv /\ ListIdentityInv /\ RingInv

\* The next offset, without the remainder.
LEMMA NextOffset ==
    ASSUME NEW o \in VersionOffsets
    PROVE  NextVersionOffset(o) = IF o + 1 = VersionNum THEN 0 ELSE o + 1
BY VersionNumAssumption DEF VersionOffsets, NextVersionOffset

\* Advancing the offset moves every version one place back in the list, and
\* gives the first place the slot of the old head, which no other place has.
LEMMA RingSlots ==
    ASSUME NEW o \in VersionOffsets
    PROVE  /\ \A i \in VersionOffsets : RingSlot(o, i) \in VersionOffsets
           /\ RingSlot(NextVersionOffset(o), 0) = o
           /\ \A i \in VersionOffsets \ {0} :
                 /\ i - 1 \in VersionOffsets
                 /\ RingSlot(NextVersionOffset(o), i) = RingSlot(o, i - 1)
                 /\ RingSlot(NextVersionOffset(o), i) # o
<1>1. CASE o + 1 = VersionNum
    BY <1>1, NextOffset, VersionNumAssumption DEF VersionOffsets, RingSlot
<1>2. CASE o + 1 # VersionNum
    BY <1>2, NextOffset, VersionNumAssumption DEF VersionOffsets, RingSlot
<1> QED
    BY <1>1, <1>2

\* Putting the head's word in front of the list, and then its version in the
\* slot its offset names, keeps the list in step with the ring.
LEMMA ShiftRenames ==
    ASSUME NEW list, NEW ring, NEW ts, ts.versionOffset \in VersionOffsets,
           Named(list, ring, ts.versionOffset)
    PROVE  Renaming(ShiftPointers(list, ts), ring, ts)
<1> DEFINE new == ShiftPointers(list, ts)
<1>1. new[0] = ts /\ \A i \in VersionOffsets \ {0} : new[i] = list[i - 1]
    BY ZeroOffset DEF ShiftPointers
<1>2. ASSUME NEW i \in VersionOffsets \ {0}
      PROVE  NamesSlot(new[i], ring, RingSlot(NextVersionOffset(ts.versionOffset), i))
    <2>1. NamesSlot(list[i - 1], ring, RingSlot(ts.versionOffset, i - 1))
        BY RingSlots DEF Named
    <2> QED
        BY <1>1, <2>1, RingSlots
<1> QED
    BY <1>1, <1>2 DEF Renaming

LEMMA PutNames ==
    ASSUME NEW list, NEW ring \in [VersionOffsets -> VersionType], NEW head,
           head.ts.versionOffset \in VersionOffsets,
           Renaming(list, ring, head.ts)
    PROVE  Named(list, [ring EXCEPT ![head.ts.versionOffset] = head],
                 NextVersionOffset(head.ts.versionOffset))
<1> DEFINE o == head.ts.versionOffset
           new == [ring EXCEPT ![o] = head]
<1>1. new[o] = head /\ \A i \in VersionOffsets : i # o => new[i] = ring[i]
    OBVIOUS
<1>2. list[0] = head.ts /\ RingSlot(NextVersionOffset(o), 0) = o
    BY RingSlots DEF Renaming
<1>3. NamesSlot(list[0], new, RingSlot(NextVersionOffset(o), 0))
    BY <1>1, <1>2 DEF NamesSlot
<1>4. ASSUME NEW i \in VersionOffsets \ {0}
      PROVE  NamesSlot(list[i], new, RingSlot(NextVersionOffset(o), i))
    <2>1. NamesSlot(list[i], ring, RingSlot(NextVersionOffset(o), i))
        BY DEF Renaming
    <2>2. new[RingSlot(NextVersionOffset(o), i)] = ring[RingSlot(NextVersionOffset(o), i)]
        BY <1>1, RingSlots
    <2> QED
        BY <2>1, <2>2 DEF NamesSlot
<1> QED
    BY <1>3, <1>4 DEF Named

\* What a client that goes on elsewhere leaves as it is.
ClientKeeps(e, t) ==
    /\ ListRead(e, t)' /\ Accessible(e, t)' =>
          /\ ListRead(e, t) /\ Accessible(e, t)
          /\ heads'[e][t].ts = heads[e][t].ts /\ lists'[e][t] = lists[e][t]
    /\ t \in won'[e] /\ pc'[e] \in {"lock", "revert"} =>
          /\ t \in won[e] /\ pc[e] \in {"lock", "revert"}
          /\ heads'[e][t].ts = heads[e][t].ts
    /\ \A n \in 0 .. 2 :
          /\ Installing(e, t, n)' <=> Installing(e, t, n)
          /\ Installing(e, t, n) => heads'[e][t].ts = heads[e][t].ts /\ lists'[e][t] = lists[e][t]

StockKept(t) == headVersions'[t].ts = headVersions[t].ts /\ tsList'[t] = tsList[t]
                /\ olderVersions'[t] = olderVersions[t]

LEMMA KeptLists ==
    ASSUME NEW t \in Stocks, StockKept(t), \A e \in Clients : ClientKeeps(e, t),
           RingAt(t), \A e \in Clients : ListIdentityAt(e, t)
    PROVE  RingAt(t)' /\ \A e \in Clients : ListIdentityAt(e, t)'
<1>1. ASSUME NEW e \in Clients PROVE ListIdentityAt(e, t)'
    BY DEF ListIdentityAt, StockKept, ClientKeeps
<1>2. RingAt(t)'
    <2>1. ASSUME NEW e \in Clients
          PROVE  /\ Installing(e, t, 0)' => tsList'[t] = lists'[e][t]
                 /\ Installing(e, t, 1)' => Renaming(tsList'[t], olderVersions'[t], heads'[e][t].ts)
                 /\ Installing(e, t, 2)' =>
                       Named(tsList'[t], olderVersions'[t],
                             NextVersionOffset(heads'[e][t].ts.versionOffset))
        <3>1. \A n \in 0 .. 2 :
                 Installing(e, t, n)' => /\ Installing(e, t, n)
                                         /\ heads'[e][t].ts = heads[e][t].ts
                                         /\ lists'[e][t] = lists[e][t]
            BY DEF ClientKeeps
        <3>2. \A n \in {0, 1, 2} : n \in 0 .. 2
            OBVIOUS
        <3> QED
            BY <3>1, <3>2 DEF RingAt, StockKept
    <2>2. ASSUME \A c \in Clients : ~Installing(c, t, 1)' /\ ~Installing(c, t, 2)'
          PROVE  Named(tsList'[t], olderVersions'[t], headVersions'[t].ts.versionOffset)
        <3>1. \A c \in Clients : ~Installing(c, t, 1) /\ ~Installing(c, t, 2)
            BY <2>2 DEF ClientKeeps
        <3> QED
            BY <3>1 DEF RingAt, StockKept
    <2> QED
        BY <2>1, <2>2 DEF RingAt
<1> QED
    BY <1>1, <1>2

\* A client that leaves t and its own place in it alone.
LEMMA Untouched ==
    ASSUME NEW e \in Clients, NEW t \in Stocks,
           pc'[e] = pc[e], stage'[e][t] = stage[e][t], items'[e] = items[e],
           t \in won'[e] <=> t \in won[e], localVector'[e] = localVector[e],
           heads'[e][t].ts = heads[e][t].ts, lists'[e][t] = lists[e][t]
    PROVE  ClientKeeps(e, t)
BY DEF ClientKeeps, ListRead, Accessible, Installing

\* The steps that keep t: all but those that read or write its list, lock or
\* unlock it, or begin to install it.
Quiet(t) == StockKept(t) /\ \A e \in Clients : ClientKeeps(e, t)

Disturbs(t) ==
    \E c \in Clients :
        \/ RetrievePointerList(c, t) \/ LockStock(c, t) \/ RevertStockLock(c, t)
        \/ LocksAcquired(c)
        \/ UpdateStockPointers(c, t) \/ UpdateStockOlderVersions(c, t) \/ UpdateStockTimestamp(c, t)

LEMMA KeepingSteps ==
    ASSUME TypeOK, CheckedInv, LockInv, [Next]_vars, NEW t \in Stocks
    PROVE  Quiet(t) \/ Disturbs(t)
<1> USE DEF serverVars, orderVars, oracleVars, trxVars, rowVars
<1>a. t \in Records /\ t \notin Refs
    BY RecordsAssumption, RecordsParts
<1> USE DEF ClientKeeps, ListRead, Accessible, Installing, StockKept
<1>1. ASSUME NEW c \in Clients, Start(c) PROVE Quiet(t)
    BY <1>1, <1>a DEF TypeOK, Quiet, Start
<1>2. ASSUME NEW c \in Clients, NEW e \in Clients, getReadTimestamp(c, e) PROVE Quiet(t)
    <2>1. stage[c][t] = 0 /\ pc'[c] \in {"snapshot", "execute"} /\ pc[c] = "snapshot"
        BY <1>2 DEF TypeOK, CheckedInv, CheckedAt, getReadTimestamp
    <2>2. \A d \in Clients \ {c} : pc'[d] = pc[d] /\ localVector'[d] = localVector[d]
        BY <1>2 DEF TypeOK, getReadTimestamp
    <2>3. UNCHANGED <<headVersions, tsList, olderVersions, items, stage, heads, lists, won>>
        BY <1>2 DEF getReadTimestamp
    <2>4. ClientKeeps(c, t)
        BY <2>1, <2>3
    <2> QED
        BY <2>2, <2>3, <2>4, Untouched DEF Quiet
<1>3. ASSUME NEW c \in Clients, NEW r \in Records, RetrieveTimestamp(c, r) PROVE Quiet(t)
    <2>1. UNCHANGED <<headVersions, tsList, olderVersions, items, pc, lists, won, localVector>>
        BY <1>3 DEF RetrieveTimestamp
    <2>2. ~(t \in won[c]) /\ pc[c] = "execute"
        BY <1>3, RetrieveTimestampEffect DEF LockInv, LockedAt
    <2>3. \A d \in Clients : (d # c \/ t # r) => heads'[d][t] = heads[d][t] /\ stage'[d][t] = stage[d][t]
        BY <1>3, RetrieveTimestampEffect
    <2>4. t = r => stage'[c][t] = 1
        BY <1>3, RetrieveTimestampEffect
    <2>5. t = r => ClientKeeps(c, t)
        BY <2>1, <2>2, <2>4
    <2> QED
        BY <2>1, <2>3, <2>5, Untouched DEF Quiet
<1>4. ASSUME NEW c \in Clients, NEW r \in Records, RetrieveRow(c, r) PROVE Quiet(t)
    <2>1. UNCHANGED <<headVersions, tsList, olderVersions, items, pc, lists, won, localVector>>
        BY <1>4 DEF RetrieveRow
    <2>2. ~(t \in won[c]) /\ pc[c] = "execute"
        BY <1>4, RetrieveRowEffect DEF LockInv, LockedAt
    <2>3. \A d \in Clients : (d # c \/ t # r) => heads'[d][t] = heads[d][t] /\ stage'[d][t] = stage[d][t]
        BY <1>4, RetrieveRowEffect
    <2>4. t = r => stage'[c][t] = 2
        BY <1>4, RetrieveRowEffect
    <2>5. t = r => ClientKeeps(c, t)
        BY <2>1, <2>2, <2>4
    <2> QED
        BY <2>1, <2>3, <2>5, Untouched DEF Quiet
<1>5. ASSUME NEW c \in Clients, NEW r \in Records, RetrievePointerList(c, r) PROVE Quiet(t) \/ Disturbs(t)
    BY <1>5, <1>a DEF TypeOK, Quiet, Disturbs, RetrievePointerList
<1>6. ASSUME NEW c \in Clients, CheckVersionsAbort(c) PROVE Quiet(t)
    BY <1>6, <1>a DEF TypeOK, Quiet, CheckVersionsAbort, LockInv, LockedAt
<1>7. ASSUME NEW c \in Clients, CheckVersions(c) PROVE Quiet(t)
    BY <1>7, <1>a DEF TypeOK, Quiet, CheckVersions, Reached, ReadSet
<1>8. ASSUME NEW c \in Clients, NEW r \in Refs, RetrieveOlderVersion(c, r) PROVE Quiet(t)
    <2>1. UNCHANGED <<headVersions, tsList, olderVersions, items, pc, lists, won, localVector>>
        BY <1>8 DEF RetrieveOlderVersion
    <2> QED
        BY <1>8, <2>1, RetrieveOlderVersionEffect, Untouched DEF Quiet
<1>9. ASSUME NEW c \in Clients, NEW r \in Refs, RecheckAbort(c, r) PROVE Quiet(t)
    BY <1>9, <1>a DEF TypeOK, Quiet, RecheckAbort
<1>10. ASSUME NEW c \in Clients, AcquireCommitTimestamp(c) PROVE Quiet(t)
    <2>1. t \notin won[c]
        BY <1>10 DEF AcquireCommitTimestamp, LockInv, LockedAt
    <2> QED
        BY <1>10, <1>a, <2>1 DEF TypeOK, Quiet, AcquireCommitTimestamp
<1>11. ASSUME NEW c \in Clients, NEW s \in Stocks, LockStock(c, s) PROVE Quiet(t) \/ Disturbs(t)
    <2>1. CASE s = t
        BY <1>11, <2>1 DEF Disturbs
    <2>2. CASE s # t
        <3>1. UNCHANGED <<tsList, olderVersions, lists>>
            BY <1>11 DEF LockStock
        <3>2. \A e \in Clients : t \in won'[e] <=> t \in won[e]
            BY <1>11, <2>2, LockStockEffect
        <3> QED
            BY <1>11, <2>2, <3>1, <3>2, LockStockEffect, Untouched DEF Quiet
    <2> QED
        BY <2>1, <2>2
<1>12. ASSUME NEW c \in Clients, LocksRefused(c) PROVE Quiet(t)
    BY <1>12, <1>a DEF TypeOK, Quiet, LocksRefused
<1>13. ASSUME NEW c \in Clients, NEW s \in Stocks, RevertStockLock(c, s) PROVE Quiet(t) \/ Disturbs(t)
    <2>1. CASE s = t
        BY <1>13, <2>1 DEF Disturbs
    <2>2. CASE s # t
        <3>1. UNCHANGED <<tsList, olderVersions, lists>>
            BY <1>13 DEF RevertStockLock
        <3>2. \A e \in Clients : t \in won'[e] <=> t \in won[e]
            BY <1>13, <2>2, RevertStockLockEffect
        <3> QED
            BY <1>13, <2>2, <3>1, <3>2, RevertStockLockEffect, Untouched DEF Quiet
    <2> QED
        BY <2>1, <2>2
<1>14. ASSUME NEW c \in Clients, LockAbort(c) PROVE Quiet(t)
    BY <1>14, <1>a DEF TypeOK, Quiet, LockAbort
<1>15. ASSUME NEW c \in Clients, LocksAcquired(c) PROVE Disturbs(t)
    BY <1>15 DEF Disturbs
<1>16. ASSUME NEW c \in Clients, NEW s \in Stocks, UpdateStockPointers(c, s) PROVE Quiet(t) \/ Disturbs(t)
    <2>1. CASE s = t
        BY <1>16, <2>1 DEF Disturbs
    <2>2. CASE s # t
        <3>1. olderVersions' = olderVersions /\ tsList'[t] = tsList[t]
            BY <1>16, <1>a, <2>2 DEF UpdateStockPointers, TypeOK
        <3>2. \A e \in Clients : lists'[e][t] = lists[e][t]
            BY <1>16, <1>a, <2>2 DEF UpdateStockPointers, TypeOK
        <3> QED
            BY <1>16, <2>2, <3>1, <3>2, UpdateStockPointersEffect, Untouched DEF Quiet
    <2> QED
        BY <2>1, <2>2
<1>17. ASSUME NEW c \in Clients, NEW s \in Stocks, UpdateStockOlderVersions(c, s) PROVE Quiet(t) \/ Disturbs(t)
    <2>1. CASE s = t
        BY <1>17, <2>1 DEF Disturbs
    <2>2. CASE s # t
        <3>1. tsList' = tsList /\ lists' = lists /\ olderVersions'[t] = olderVersions[t]
            BY <1>17, <1>a, <2>2 DEF UpdateStockOlderVersions, TypeOK
        <3> QED
            BY <1>17, <2>2, <3>1, UpdateStockOlderVersionsEffect, Untouched DEF Quiet
    <2> QED
        BY <2>1, <2>2
<1>18. ASSUME NEW c \in Clients, NEW s \in Stocks, UpdateStockTimestamp(c, s) PROVE Quiet(t) \/ Disturbs(t)
    <2>1. CASE s = t
        BY <1>18, <2>1 DEF Disturbs
    <2>2. CASE s # t
        <3>1. UNCHANGED <<tsList, olderVersions, lists>>
            BY <1>18 DEF UpdateStockTimestamp
        <3>2. \A e \in Clients : t \in won'[e] <=> t \in won[e]
            BY <1>18, <2>2, UpdateStockTimestampEffect
        <3> QED
            BY <1>18, <2>2, <3>1, <3>2, UpdateStockTimestampEffect, Untouched DEF Quiet
    <2> QED
        BY <2>1, <2>2
<1>19. ASSUME NEW c \in Clients, NEW s \in Stocks, UpdateStock(c, s) PROVE Quiet(t)
    <2>1. UNCHANGED <<tsList, olderVersions, lists>>
        BY <1>19 DEF UpdateStock
    <2>2. \A e \in Clients : (e # c \/ t # s) => ClientKeeps(e, t)
        BY <1>19, <2>1, UpdateStockEffect, Untouched
    <2>3. t = s => ClientKeeps(c, t)
        BY <1>19, <2>1, UpdateStockEffect
    <2>4. StockKept(t)
        BY <1>19, <2>1, UpdateStockEffect
    <2> QED
        BY <2>2, <2>3, <2>4 DEF Quiet
<1>20. ASSUME NEW c \in Clients, RegisterOrder(c) PROVE Quiet(t)
    <2>1. t \notin won[c]
        <3>1. t \in won[c] => stage[c][t] = 4 /\ stage[c][t] <= 2
            BY <1>20 DEF LockInv, LockedAt, RegisterOrder, Reached
        <3> QED
            BY <3>1
    <2> QED
        BY <1>20, <1>a, <2>1 DEF TypeOK, Quiet, RegisterOrder
<1>21. ASSUME NEW c \in Clients, SubmitResult(c) PROVE Quiet(t)
    BY <1>21, <1>a DEF TypeOK, Quiet, SubmitResult
<1>22. ASSUME NEW e \in Clients, ReaderRefresh(e) PROVE Quiet(t)
    BY <1>22 DEF Quiet, ReaderRefresh
<1>23. ASSUME NEW c \in Clients, RetrieveAndIncrementDistrictNextOID(c) PROVE Quiet(t)
    BY <1>23 DEF Quiet, RetrieveAndIncrementDistrictNextOID
<1>24. ASSUME NEW c \in Clients, InsertOrder(c) PROVE Quiet(t)
    BY <1>24 DEF Quiet, InsertOrder
<1>25. CASE UNCHANGED vars
    BY <1>25 DEF Quiet, vars
<1> HIDE DEF ClientKeeps, StockKept
<1> QED
    BY <1>1, <1>2, <1>3, <1>4, <1>5, <1>6, <1>7, <1>8, <1>9, <1>10, <1>11, <1>12, <1>13, <1>14,
       <1>15, <1>16, <1>17, <1>18, <1>19, <1>20, <1>21, <1>22, <1>23, <1>24, <1>25
    DEF Next, Step

\* The list, ring and head of t agree with what the clients know of them.
ListedAt(t) == RingAt(t) /\ \A e \in Clients : ListIdentityAt(e, t)

LEMMA ReadListStep ==
    ASSUME TypeOK, LockInv, NEW t \in Stocks, ListedAt(t), NEW c \in Clients, RetrievePointerList(c, t)
    PROVE  ListedAt(t)'
<1>1. /\ UNCHANGED <<headVersions, tsList, olderVersions, pc, heads, won, items, localVector>>
      /\ pc[c] = "execute" /\ lists'[c][t] = tsList[t]
      /\ \A e \in Clients \ {c} : lists'[e][t] = lists[e][t] /\ stage'[e][t] = stage[e][t]
    BY RecordsParts DEF TypeOK, RetrievePointerList, serverVars, trxVars
<1>2. \A e \in Clients \ {c} : ClientKeeps(e, t)
    BY <1>1, Untouched
<1>3. \A n \in 0 .. 2 : ~Installing(c, t, n) /\ ~Installing(c, t, n)'
    BY <1>1 DEF Installing
<1>4. RingAt(t)'
    <2>1. \A e \in Clients, n \in {0, 1, 2} :
             /\ Installing(e, t, n)' <=> Installing(e, t, n)
             /\ Installing(e, t, n) => lists'[e][t] = lists[e][t]
        BY <1>2, <1>3 DEF ClientKeeps
    <2> QED
        BY <1>1, <2>1 DEF ListedAt, RingAt
<1>5. ListIdentityAt(c, t)'
    BY <1>1 DEF ListIdentityAt
<1>6. ASSUME NEW e \in Clients \ {c} PROVE ListIdentityAt(e, t)'
    <2>1. ListRead(e, t)' /\ Accessible(e, t)' =>
              ListRead(e, t) /\ Accessible(e, t) /\ lists'[e][t] = lists[e][t]
        BY <1>2 DEF ClientKeeps
    <2>2. ListIdentityAt(e, t)
        BY DEF ListedAt
    <2> QED
        BY <1>1, <2>1, <2>2 DEF ListIdentityAt
<1> QED
    BY <1>4, <1>5, <1>6 DEF ListedAt

\* The lock keeps the head's offset, and its holder has the word that was there.
LEMMA LockListStep ==
    ASSUME TypeOK, CheckedInv, LockInv, NEW t \in Stocks, ListedAt(t),
           NEW c \in Clients, LockStock(c, t)
    PROVE  ListedAt(t)'
<1>1. /\ UNCHANGED <<tsList, olderVersions, lists, pc, items, localVector, heads>>
      /\ pc[c] = "lock"
      /\ \A e \in Clients \ {c} : won'[e] = won[e] /\ stage'[e][t] = stage[e][t]
    <2>1. UNCHANGED <<tsList, olderVersions, lists>>
        BY DEF LockStock
    <2> QED
        BY <2>1, LockStockEffect
<1>2. \A e \in Clients : /\ ListRead(e, t)' <=> ListRead(e, t)
                         /\ Accessible(e, t)' <=> Accessible(e, t)
                         /\ \A n \in 0 .. 2 : Installing(e, t, n)' <=> Installing(e, t, n)
    BY <1>1 DEF ListRead, Accessible, Installing
<1>3. CASE headVersions'[t] = headVersions[t] /\ won'[c] = won[c]
    <2>1. \A e \in Clients : ClientKeeps(e, t)
        BY <1>1, <1>2, <1>3 DEF ClientKeeps
    <2> QED
        BY <1>1, <1>3, <2>1, KeptLists DEF ListedAt, StockKept
<1>4. CASE /\ headVersions[t].ts = heads[c][t].ts
           /\ headVersions'[t].ts = LockTimestamp(c, t)
           /\ won'[c] = won[c] \cup {t}
    <2>1. headVersions'[t].ts.locked /\ headVersions'[t].ts.versionOffset = headVersions[t].ts.versionOffset
        BY <1>4 DEF LockTimestamp, Timestamp
    <2>2. RingAt(t)'
        <3>1. \A e \in Clients, n \in {0, 1, 2} : Installing(e, t, n)' <=> Installing(e, t, n)
            BY <1>2
        <3> QED
            BY <1>1, <2>1, <3>1 DEF ListedAt, RingAt
    <2>3. ASSUME NEW e \in Clients PROVE ListIdentityAt(e, t)'
        <3> SUFFICES ASSUME ListRead(e, t), Accessible(e, t), NEW d \in Clients, t \in won'[d],
                            pc[d] \in {"lock", "revert"}, heads[d][t].ts = heads[e][t].ts
                     PROVE  tsList[t] = lists[e][t]
            <4>1. (ListRead(e, t) /\ Accessible(e, t)) => headVersions'[t].ts # heads[e][t].ts
                BY <2>1 DEF Accessible, isRecordAccessible
            <4> QED
                BY <1>1, <1>2, <4>1 DEF ListIdentityAt
        <3>1. CASE d = c
            BY <1>4, <3>1 DEF ListedAt, ListIdentityAt
        <3>2. CASE d # c
            BY <1>1, <3>2 DEF ListedAt, ListIdentityAt
        <3> QED
            BY <3>1, <3>2
    <2> QED
        BY <2>2, <2>3 DEF ListedAt
<1> QED
    BY <1>3, <1>4, LockStockEffect

\* The word that is put back is one whose list the server still holds.
LEMMA RevertListStep ==
    ASSUME TypeOK, LockInv, NEW t \in Stocks, ListedAt(t), NEW c \in Clients, RevertStockLock(c, t)
    PROVE  ListedAt(t)'
<1>1. /\ UNCHANGED <<tsList, olderVersions, lists, pc, items, localVector, heads, stage>>
      /\ pc[c] = "revert" /\ t \in won[c] /\ won'[c] = won[c] \ {t}
      /\ headVersions'[t].ts = heads[c][t].ts
      /\ \A e \in Clients \ {c} : won'[e] = won[e]
    BY RevertStockLockEffect DEF RevertStockLock
<1>2. \A e \in Clients : /\ ListRead(e, t)' <=> ListRead(e, t)
                         /\ Accessible(e, t)' <=> Accessible(e, t)
                         /\ \A n \in {0, 1, 2} : Installing(e, t, n)' <=> Installing(e, t, n)
    BY <1>1 DEF ListRead, Accessible, Installing
<1>3. headVersions'[t].ts.versionOffset = headVersions[t].ts.versionOffset
    <2>1. headVersions[t].ts = LockTimestamp(c, t)
        BY <1>1 DEF LockInv, LockedAt
    <2> QED
        BY <1>1, <2>1 DEF LockTimestamp, Timestamp
<1>4. RingAt(t)'
    BY <1>1, <1>2, <1>3 DEF ListedAt, RingAt
<1>5. ASSUME NEW e \in Clients PROVE ListIdentityAt(e, t)'
    <2>1. ListIdentityAt(e, t)
        BY DEF ListedAt
    <2>2. \A d \in Clients : t \in won'[d] => t \in won[d]
        BY <1>1
    <2> QED
        BY <1>1, <1>2, <2>1, <2>2 DEF ListIdentityAt
<1> QED
    BY <1>4, <1>5 DEF ListedAt

\* When it has its locks a client has the lists of the stocks it will install.
LEMMA AcquireListStep ==
    ASSUME TypeOK, CheckedInv, LockInv, NEW t \in Stocks, ListedAt(t),
           NEW c \in Clients, LocksAcquired(c)
    PROVE  ListedAt(t)'
<1>1. /\ UNCHANGED <<headVersions, tsList, olderVersions, lists, items, heads, won>>
      /\ pc[c] = "lock" /\ pc'[c] = "install" /\ stage'[c][t] = 0
      /\ \A e \in Clients \ {c} :
            pc'[e] = pc[e] /\ stage'[e] = stage[e] /\ localVector'[e] = localVector[e]
    BY RecordsParts DEF TypeOK, LocksAcquired, writeCommandToLog, serverVars
<1>2. \A e \in Clients \ {c} : ClientKeeps(e, t)
    BY <1>1, Untouched
<1>3. t \in won[c] => tsList[t] = lists[c][t]
    <2> SUFFICES ASSUME t \in won[c] PROVE tsList[t] = lists[c][t]
        OBVIOUS
    <2>1. ListRead(c, t) /\ Accessible(c, t)
        BY <1>1 DEF LockInv, LockedAt, CheckedInv, CheckedAt, ListRead
    <2> QED
        BY <1>1, <2>1 DEF ListedAt, ListIdentityAt
<1>4. RingAt(t)'
    <2>1. ~Installing(c, t, 1) /\ ~Installing(c, t, 2) /\ ~Installing(c, t, 1)' /\ ~Installing(c, t, 2)'
        BY <1>1 DEF Installing
    <2>2. \A e \in Clients \ {c} : \A n \in {0, 1, 2} : Installing(e, t, n)' <=> Installing(e, t, n)
        BY <1>2 DEF ClientKeeps
    <2>3. Installing(c, t, 0)' => tsList'[t] = lists'[c][t]
        BY <1>1, <1>3 DEF Installing
    <2> QED
        BY <1>1, <2>1, <2>2, <2>3 DEF ListedAt, RingAt
<1>5. ASSUME NEW e \in Clients PROVE ListIdentityAt(e, t)'
    <2>1. CASE e = c
        BY <1>1, <2>1 DEF ListIdentityAt, ListRead
    <2>2. CASE e # c
        <3>1. ListRead(e, t)' /\ Accessible(e, t)' => ListRead(e, t) /\ Accessible(e, t)
            BY <1>2, <2>2 DEF ClientKeeps
        <3>2. \A d \in Clients : pc'[d] \in {"lock", "revert"} => pc[d] \in {"lock", "revert"}
            BY <1>1
        <3>3. ListIdentityAt(e, t)
            BY DEF ListedAt
        <3> QED
            BY <1>1, <3>1, <3>2, <3>3 DEF ListIdentityAt
    <2> QED
        BY <2>1, <2>2
<1> QED
    BY <1>4, <1>5 DEF ListedAt

\* While a client installs a stock nobody else holds it or has its word.
LEMMA InstallExcludes ==
    ASSUME TypeOK, LockInv, NEW t \in Stocks, NEW c \in Clients,
           pc[c] = "install", t \in items[c], stage[c][t] <= 2
    PROVE  /\ t \in won[c] /\ headVersions[t].ts.locked
           /\ headVersions[t].ts.versionOffset = heads[c][t].ts.versionOffset
           /\ heads[c][t].ts.versionOffset \in VersionOffsets
           /\ \A d \in Clients : t \in won[d] => d = c
           /\ \A e \in Clients : Accessible(e, t) => headVersions[t].ts # heads[e][t].ts
<1>1. t \in won[c]
    BY DEF LockInv, LockedAt
<1>2. headVersions[t].ts = LockTimestamp(c, t)
    BY <1>1 DEF LockInv, LockedAt
<1>3. headVersions[t].ts.locked /\ headVersions[t].ts.versionOffset = heads[c][t].ts.versionOffset
    BY <1>2 DEF LockTimestamp, Timestamp
<1>4. heads[c][t].ts.versionOffset \in VersionOffsets
    BY RecordsParts DEF TypeOK, VersionType, TimestampType
<1>5. \A d \in Clients : t \in won[d] => d = c
    BY <1>1, LocksExclude
<1> QED
    BY <1>1, <1>3, <1>4, <1>5 DEF Accessible, isRecordAccessible

LEMMA PointersListStep ==
    ASSUME TypeOK, LockInv, NEW t \in Stocks, ListedAt(t), NEW c \in Clients, UpdateStockPointers(c, t)
    PROVE  ListedAt(t)'
<1>1. /\ UNCHANGED <<headVersions, pc, items, localVector, heads, won>>
      /\ pc[c] = "install" /\ t \in items[c] /\ stage[c][t] = 0 /\ stage'[c][t] = 1
    BY UpdateStockPointersEffect
<1>2. olderVersions' = olderVersions /\ tsList'[t] = ShiftPointers(lists[c][t], heads[c][t].ts)
    BY RecordsParts DEF TypeOK, UpdateStockPointers
<1>3. /\ t \in won[c] /\ \A d \in Clients : t \in won[d] => d = c
      /\ \A e \in Clients : Accessible(e, t) => headVersions[t].ts # heads[e][t].ts
      /\ headVersions[t].ts.versionOffset = heads[c][t].ts.versionOffset
      /\ heads[c][t].ts.versionOffset \in VersionOffsets
    BY <1>1, InstallExcludes
<1>4. tsList[t] = lists[c][t] /\ Named(lists[c][t], olderVersions[t], heads[c][t].ts.versionOffset)
    <2>1. Installing(c, t, 0) /\ \A d \in Clients : ~Installing(d, t, 1) /\ ~Installing(d, t, 2)
        BY <1>1, <1>3 DEF Installing
    <2> QED
        BY <1>3, <2>1 DEF ListedAt, RingAt
<1>5. Renaming(tsList'[t], olderVersions'[t], heads'[c][t].ts)
    BY <1>1, <1>2, <1>3, <1>4, ShiftRenames
<1>6. RingAt(t)'
    <2>1. Installing(c, t, 1)' /\ ~Installing(c, t, 0)' /\ ~Installing(c, t, 2)'
        BY <1>1, <1>3 DEF Installing
    <2>2. \A d \in Clients \ {c}, n \in {0, 1, 2} : ~Installing(d, t, n)'
        BY <1>1, <1>3 DEF Installing
    <2> QED
        BY <1>5, <2>1, <2>2 DEF RingAt
<1>7. ASSUME NEW e \in Clients PROVE ListIdentityAt(e, t)'
    <2>1. Accessible(e, t)' => headVersions'[t].ts # heads'[e][t].ts
        BY <1>1, <1>3 DEF Accessible
    <2>2. \A d \in Clients : t \in won'[d] => pc'[d] \notin {"lock", "revert"}
        BY <1>1, <1>3
    <2> QED
        BY <2>1, <2>2 DEF ListIdentityAt
<1> QED
    BY <1>6, <1>7 DEF ListedAt

LEMMA OlderListStep ==
    ASSUME TypeOK, LockInv, NEW t \in Stocks, ListedAt(t), NEW c \in Clients, UpdateStockOlderVersions(c, t)
    PROVE  ListedAt(t)'
<1>1. /\ UNCHANGED <<headVersions, pc, items, localVector, heads, won>>
      /\ pc[c] = "install" /\ t \in items[c] /\ stage[c][t] = 1 /\ stage'[c][t] = 2
    BY UpdateStockOlderVersionsEffect
<1>2. /\ tsList' = tsList
      /\ olderVersions'[t] = [olderVersions[t] EXCEPT ![heads[c][t].ts.versionOffset] = heads[c][t]]
      /\ olderVersions[t] \in [VersionOffsets -> VersionType]
    BY RecordsParts DEF TypeOK, UpdateStockOlderVersions
<1>3. /\ t \in won[c] /\ \A d \in Clients : t \in won[d] => d = c
      /\ \A e \in Clients : Accessible(e, t) => headVersions[t].ts # heads[e][t].ts
      /\ heads[c][t].ts.versionOffset \in VersionOffsets
    BY <1>1, InstallExcludes
<1>4. Renaming(tsList[t], olderVersions[t], heads[c][t].ts)
    <2>1. Installing(c, t, 1)
        BY <1>1, <1>3 DEF Installing
    <2> QED
        BY <2>1 DEF ListedAt, RingAt
<1>5. Named(tsList'[t], olderVersions'[t], NextVersionOffset(heads'[c][t].ts.versionOffset))
    <2> DEFINE o == heads[c][t].ts.versionOffset
    <2>1. Named(tsList[t], [olderVersions[t] EXCEPT ![o] = heads[c][t]], NextVersionOffset(o))
        BY <1>2, <1>3, <1>4, PutNames, Zenon
    <2>2. NextVersionOffset(heads'[c][t].ts.versionOffset) = NextVersionOffset(o)
        BY <1>1
    <2>3. tsList'[t] = tsList[t]
        BY <1>2
    <2> QED
        BY <1>2, <2>1, <2>2, <2>3
<1>6. RingAt(t)'
    <2>1. Installing(c, t, 2)' /\ ~Installing(c, t, 0)' /\ ~Installing(c, t, 1)'
        BY <1>1, <1>3 DEF Installing
    <2>2. \A d \in Clients \ {c}, n \in {0, 1, 2} : ~Installing(d, t, n)'
        BY <1>1, <1>3 DEF Installing
    <2> QED
        BY <1>5, <2>1, <2>2 DEF RingAt
<1>7. ASSUME NEW e \in Clients PROVE ListIdentityAt(e, t)'
    <2>1. Accessible(e, t)' => headVersions'[t].ts # heads'[e][t].ts
        BY <1>1, <1>3 DEF Accessible
    <2>2. \A d \in Clients : t \in won'[d] => pc'[d] \notin {"lock", "revert"}
        BY <1>1, <1>3
    <2> QED
        BY <2>1, <2>2 DEF ListIdentityAt
<1> QED
    BY <1>6, <1>7 DEF ListedAt

\* The new word is one that nobody has read.
LEMMA NewWordListStep ==
    ASSUME TypeOK, FreshInv, LockInv, NEW t \in Stocks, ListedAt(t),
           NEW c \in Clients, UpdateStockTimestamp(c, t)
    PROVE  ListedAt(t)'
<1>1. /\ UNCHANGED <<pc, items, localVector, heads, cts>>
      /\ pc[c] = "install" /\ t \in items[c] /\ stage[c][t] = 2
      /\ headVersions'[t].ts = NewStockVersion(c, t).ts
      /\ won'[c] = won[c] \ {t} /\ \A d \in Clients \ {c} : won'[d] = won[d]
    BY UpdateStockTimestampEffect
<1>2. UNCHANGED <<tsList, olderVersions>>
    BY DEF UpdateStockTimestamp
<1>3. t \in won[c] /\ \A d \in Clients : t \in won[d] => d = c
    BY <1>1, InstallExcludes
<1>4. \A d \in Clients : t \notin won'[d]
    BY <1>1, <1>3
<1>5. RingAt(t)'
    <2>1. Installing(c, t, 2)
        BY <1>1, <1>3 DEF Installing
    <2>2. Named(tsList[t], olderVersions[t], NextVersionOffset(heads[c][t].ts.versionOffset))
        BY <2>1 DEF ListedAt, RingAt
    <2>3. headVersions'[t].ts.versionOffset = NextVersionOffset(heads[c][t].ts.versionOffset)
        BY <1>1 DEF NewStockVersion, Timestamp
    <2>4. \A d \in Clients, n \in {0, 1, 2} : ~Installing(d, t, n)'
        BY <1>4 DEF Installing
    <2> QED
        BY <1>2, <2>2, <2>3, <2>4 DEF RingAt
<1>6. ASSUME NEW e \in Clients PROVE ListIdentityAt(e, t)'
    <2>1. Accessible(e, t)' => headVersions'[t].ts # heads'[e][t].ts
        <3> SUFFICES ASSUME Accessible(e, t) PROVE headVersions'[t].ts # heads[e][t].ts
            BY <1>1 DEF Accessible
        <3>1. ~heads[e][t].ts.locked /\ Uninstalled(c, t)
            BY <1>1 DEF Accessible, isRecordAccessible, Uninstalled
        <3>2. heads[e][t].ts.clientID = c => heads[e][t].ts.timestamp < cts[c]
            BY <3>1 DEF FreshInv, InstalledBy
        <3>3. headVersions'[t].ts.clientID = c /\ headVersions'[t].ts.timestamp = cts[c] /\ cts[c] \in Nat
            BY <1>1, WordsWritten DEF TypeOK
        <3> QED
            BY <3>2, <3>3
    <2> QED
        BY <1>4, <2>1 DEF ListIdentityAt
<1> QED
    BY <1>5, <1>6 DEF ListedAt

-----------------------------------------------------------------------------
LEMMA ListInit == Init => ListInv
<1> SUFFICES ASSUME Init PROVE ListInv
    OBVIOUS
<1>1. ListIdentityInv
    BY DEF Init, ListIdentityInv, ListIdentityAt, ListRead
<1>2. ASSUME NEW s \in Stocks PROVE RingAt(s)
    <2>1. \A i \in VersionOffsets : tsList[s][i].deleted
        BY RecordsParts DEF Init, EmptyTimestamp, Timestamp
    <2>2. \A c \in Clients, n \in {0, 1, 2} : ~Installing(c, s, n)
        BY DEF Init, Installing
    <2> QED
        BY <2>1, <2>2 DEF RingAt, Named, NamesSlot
<1> QED
    BY <1>1, <1>2, IInvInit DEF ListInv, RingInv

LEMMA ListStep == ListInv /\ [Next]_vars => ListInv'
<1> SUFFICES ASSUME ListInv, [Next]_vars PROVE ListInv'
    OBVIOUS
<1>1. IInv' /\ TypeOK /\ CheckedInv /\ LockInv /\ FreshInv
    BY IInvStep DEF ListInv, IInv, TypeInv
<1>2. ASSUME NEW t \in Stocks PROVE ListedAt(t)'
    <2>1. ListedAt(t)
        BY DEF ListInv, ListIdentityInv, RingInv, ListedAt
    <2>2. CASE Quiet(t)
        BY <2>1, <2>2, KeptLists DEF Quiet, ListedAt
    <2>3. CASE Disturbs(t)
        BY <1>1, <2>1, <2>3, ReadListStep, LockListStep, RevertListStep, AcquireListStep,
           PointersListStep, OlderListStep, NewWordListStep DEF Disturbs
    <2> QED
        BY <1>1, <2>2, <2>3, KeepingSteps
<1> QED
    BY <1>1, <1>2 DEF ListInv, ListIdentityInv, RingInv, ListedAt

\* What the invariant says of an unlocked stock.
LEMMA ListsNamed == ListInv => PointerListNamesRing
<1> SUFFICES ASSUME ListInv, NEW s \in Stocks, NEW i \in VersionOffsets,
                    ~headVersions[s].ts.locked, ~tsList[s][i].deleted
             PROVE  olderVersions[s][tsList[s][i].versionOffset].ts = tsList[s][i]
    BY DEF PointerListNamesRing
<1>1. \A c \in Clients : s \in won[c] => headVersions[s].ts.locked
    BY WordsWritten DEF ListInv, IInv, LockInv, LockedAt
<1>2. \A c \in Clients : ~Installing(c, s, 1) /\ ~Installing(c, s, 2)
    BY <1>1 DEF Installing
<1>3. Named(tsList[s], olderVersions[s], headVersions[s].ts.versionOffset)
    BY <1>2 DEF ListInv, RingInv, RingAt
<1> QED
    BY <1>3 DEF Named, NamesSlot

\* The pointer list of an unlocked stock names slots that hold the versions it
\* says, however often the offset of updateStockOlderVersions went around the
\* ring, and although a client writes back a list that it read before its lock.
THEOREM ListsNameTheRing == Spec => []PointerListNamesRing
    BY ListsNamed, ListInit, ListStep, PTL DEF Spec
=============================================================================
