------------------------- MODULE TransactionMix_proofs -------------------------
(***************************************************************************)
(* Proofs about New-Order and Payment together, for any number of clients, *)
(* rows and transactions.                                                  *)
(*                                                                         *)
(* Payment writes none of the rows and buffers of a New-Order that runs,   *)
(* but shares a client's vector, commit timestamps and epochs with the     *)
(* orders the client places later.  So it keeps LedgerInv, and New-Order   *)
(* its properties beside payments.                                         *)
(*                                                                         *)
(* With one queue pair for a payment, both together implement              *)
(* TransactionLedger.  That needs CrossInv besides the invariants of each: *)
(* the transactions of one kind are in no row of the other, so that a new  *)
(* transaction is in no row at all.                                        *)
(***************************************************************************)
EXTENDS PaymentTrx_proofs, NewOrderSnapshot_proofs

\* What a step of Payment leaves to New-Order.
Spares ==
    /\ UNCHANGED <<pc, items, stage, won, heads, lists, readerVector,
                   orderTable, orderIndex, assignedOID, inserted, orderRID>>
    /\ \A s \in Stocks : /\ headVersions'[s] = headVersions[s]
                         /\ tsList'[s] = tsList[s] /\ olderVersions'[s] = olderVersions[s]
    /\ \A d \in Clients :
          /\ pc[d] # "idle" => localVector'[d] = localVector[d] /\ cts'[d] = cts[d] /\ journal'[d] = journal[d]
          /\ cts[d] <= cts'[d] /\ nextEpoch[d] <= nextEpoch'[d]
          /\ cts'[d] = cts[d] \/ cts'[d] = CommitTimestamp(nextEpoch[d], d)

\* The variables that only New-Order writes.
LEMMA PayUntouched ==
    ASSUME NEW c \in Clients, PayAct(c)
    PROVE  UNCHANGED <<pc, items, stage, won, heads, lists, readerVector,
                       orderTable, orderIndex, assignedOID, inserted, orderRID>>
<1> DEFINE Same == UNCHANGED <<pc, items, stage, won, heads, lists, readerVector,
                               orderTable, orderIndex, assignedOID, inserted, orderRID>>
<1> USE DEF oracleVars, orderVars, trxVars, rowVars, vars
<1>1. CASE PayStart(c)
    BY <1>1 DEF PayStart
<1>2. CASE PayStep(c)
    BY <1>2 DEF PayStep, PayReadTimestamp, PayRetrieveTimestamp, PayRetrieveRow, PayRetrievePointerList,
       Reading, LookupFails, PayCheckVersionsAbort, PayAcquireCommitTimestamp, PayLock, Locking,
       PayRevertLock, PayLocksRefused, PayLockAbort, PayLocksAcquired, AppendOldVersions,
       SetNewTimestamp, PostUpdate, Updating, InsertIntoHistory, PaySubmitResult, Submitting
<1>3. ASSUME NEW s \in Servers, ExecuteRequest(c, s) PROVE Same
    BY <1>3 DEF ExecuteRequest, Execute, ExecutePointers, ExecuteOlder, ExecuteHead, ExecuteHeadRow,
       ExecuteHistory
<1> QED
    BY <1>1, <1>2, <1>3 DEF PayAct

\* Payment writes the heads of its own rows.
LEMMA PayHeadsElsewhere ==
    ASSUME PayTypeOK, NEW c \in Clients, PayAct(c), NEW s \in Stocks
    PROVE  /\ headVersions'[s] = headVersions[s]
           /\ tsList'[s] = tsList[s] /\ olderVersions'[s] = olderVersions[s]
<1> DEFINE Same == headVersions'[s] = headVersions[s] /\ tsList'[s] = tsList[s]
                   /\ olderVersions'[s] = olderVersions[s]
<1>t. /\ headVersions \in [Records -> VersionType]
      /\ tsList \in [Records -> [VersionOffsets -> TimestampType]]
      /\ olderVersions \in [Records -> [VersionOffsets -> VersionType]]
      /\ \A r \in Refs : r \in Records /\ s # r /\ s \in Records
    BY PayRows, RecordsParts DEF PayTypeOK, TypeOK
<1>0. CASE UNCHANGED serverVars
    BY <1>0 DEF serverVars
<1>1. CASE PayStart(c)
    BY <1>0, <1>1 DEF PayStart
<1>2. ASSUME NEW r \in Refs, PayLock(c, r) PROVE Same
    <2>1. UNCHANGED <<tsList, olderVersions>>
        BY <1>2 DEF PayLock, Locking
    <2>2. CASE headVersions' = headVersions
        BY <2>1, <2>2
    <2>3. CASE headVersions' = [headVersions EXCEPT ![r] = WithTimestamp(@, PayLockTimestamp(c, r))]
        BY <1>t, <2>1, <2>3
    <2> QED
        BY <1>2, <2>2, <2>3 DEF PayLock, Locking
<1>3. ASSUME NEW r \in Refs, PayRevertLock(c, r) PROVE Same
    BY <1>t, <1>3 DEF PayRevertLock
<1>4. ASSUME PayStep(c), ~\E r \in Refs : PayLock(c, r) \/ PayRevertLock(c, r) PROVE Same
    BY <1>0, <1>4 DEF vars, PayStep, PayReadTimestamp, PayRetrieveTimestamp, PayRetrieveRow, PayRetrievePointerList,
       Reading, LookupFails, PayCheckVersionsAbort, PayAcquireCommitTimestamp,
       PayLocksRefused, PayLockAbort, PayLocksAcquired, AppendOldVersions,
       SetNewTimestamp, PostUpdate, Updating, InsertIntoHistory, PaySubmitResult, Submitting
<1>5. ASSUME NEW i \in Servers, ExecuteRequest(c, i) PROVE Same
    <2> DEFINE r == Head(queue[c][i]).row
    <2>1. r \in Refs
        <3>1. queue[c][i] # <<>> /\ queue[c][i] \in Seq(RequestType)
            <4>1. queue \in [Clients -> [Servers -> Seq(RequestType)]]
                BY DEF PayTypeOK
            <4>2. queue[c][i] # <<>>
                BY <1>5 DEF ExecuteRequest, Execute, ExecutePointers, ExecuteOlder, ExecuteHead,
                   ExecuteHeadRow, ExecuteHistory
            <4> QED
                BY <4>1, <4>2
        <3> QED
            BY <3>1, OldestFirst DEF RequestType
    <2>2. s # r
        BY <1>t, <2>1
    <2>3. CASE ExecutePointers(c, i)
        BY <1>t, <2>2, <2>3 DEF ExecutePointers
    <2>4. CASE ExecuteOlder(c, i)
        BY <1>t, <2>2, <2>4 DEF ExecuteOlder
    <2>5. CASE ExecuteHead(c, i)
        BY <1>t, <2>2, <2>5 DEF ExecuteHead
    <2>6. CASE ExecuteHeadRow(c, i)
        BY <1>t, <2>2, <2>6 DEF ExecuteHeadRow
    <2>7. CASE ExecuteHistory(c, i)
        BY <1>0, <2>7 DEF ExecuteHistory
    <2> QED
        BY <1>5, <2>3, <2>4, <2>5, <2>6, <2>7 DEF ExecuteRequest
<1> QED
    BY <1>1, <1>2, <1>3, <1>4, <1>5 DEF PayAct

\* Payment draws and copies for the client that pays only.
LEMMA PaySpares ==
    ASSUME PayInv, NEW c \in Clients, PayAct(c)
    PROVE  Spares
<1>t. PayTypeOK /\ QueueInv /\ EpochInv /\ PayEpochInv
    BY DEF PayInv
<1>n. \A d \in Clients : cts[d] \in Nat /\ nextEpoch[d] \in Nat
    BY <1>t DEF PayTypeOK, TypeOK
<1>a. \A d \in Clients \ {c} : SameClient(d)
    BY <1>t, PayActsAlone DEF ActsAlone, SamePayment
<1>g. \A d \in Clients : nextEpoch[d] <= nextEpoch'[d]
    BY PayProgress DEF Progress
<1>1. cts[c] <= cts'[c] /\ (cts'[c] = cts[c] \/ cts'[c] = CommitTimestamp(nextEpoch[c], c))
    <2>1. CASE cts'[c] = cts[c]
        BY <1>n, <2>1
    <2>2. CASE PayAcquireCommitTimestamp(c)
        BY <1>t, <1>n, <2>2, PayDrawIsLarger, PayAcquireCommitTimestampEffect
    <2>3. ASSUME NEW e \in Clients, PayReadTimestamp(c, e) PROVE cts'[c] = cts[c]
        BY <1>t, <2>3, PayReadTimestampEffect
    <2>4. PayLocksAcquired(c) \/ PaySubmitResult(c) => cts'[c] = cts[c]
        BY <1>t, PayLocksAcquiredEffect, PaySubmitResultEffect
    <2> QED
        BY <1>t, <2>1, <2>2, <2>3, <2>4, UnnumberedSteps DEF Unnumbered, SameClient
<1>2. pc[c] # "idle" => SameClient(c)
    <2> SUFFICES ASSUME pc[c] # "idle" PROVE SameClient(c)
        OBVIOUS
    <2>1. payPc[c] = "idle"
        BY <1>t DEF PayTypeOK
    <2>2. ~PayStart(c)
        BY DEF PayStart
    <2>3. ~PayStep(c)
        BY <2>1 DEF PayStep, PayReadTimestamp, PayRetrieveTimestamp, PayRetrieveRow, PayRetrievePointerList,
           Reading, LookupFails, PayCheckVersionsAbort, PayAcquireCommitTimestamp, PayLock, Locking,
           PayRevertLock, PayLocksRefused, PayLockAbort, PayLocksAcquired, AppendOldVersions,
           SetNewTimestamp, PostUpdate, Updating, InsertIntoHistory, PaySubmitResult, Submitting
    <2>4. PICK i \in Servers : ExecuteRequest(c, i)
        BY <2>2, <2>3 DEF PayAct
    <2> QED
        BY <1>t, <2>4, ExecuteEffect
        DEF ExecuteRequest, ExecutePointers, ExecuteOlder, ExecuteHead, ExecuteHeadRow, ExecuteHistory
<1>3. ASSUME NEW d \in Clients
      PROVE  /\ pc[d] # "idle" => localVector'[d] = localVector[d] /\ cts'[d] = cts[d] /\ journal'[d] = journal[d]
             /\ cts[d] <= cts'[d]
             /\ cts'[d] = cts[d] \/ cts'[d] = CommitTimestamp(nextEpoch[d], d)
    BY <1>n, <1>a, <1>1, <1>2 DEF SameClient
<1> QED
    BY <1>t, <1>g, <1>3, PayUntouched, PayHeadsElsewhere DEF Spares

-----------------------------------------------------------------------------
(***************************************************************************)
(* New-Order's invariants beside payments.                                 *)
(***************************************************************************)

LEMMA SparedLocks ==
    ASSUME PayInv, PayInv', IInv, Spares
    PROVE  IInv'
<1>t. /\ \A s \in Stocks : headVersions'[s] = headVersions[s] /\ \A d \in Clients : heads'[d][s] = heads[d][s]
      /\ \A d \in Clients :
            /\ pc'[d] = pc[d] /\ items'[d] = items[d] /\ won'[d] = won[d] /\ stage'[d] = stage[d]
            /\ pc[d] # "idle" => localVector'[d] = localVector[d] /\ cts'[d] = cts[d]
            /\ cts[d] <= cts'[d] /\ cts[d] \in Nat /\ cts'[d] \in Nat
    BY DEF Spares, PayInv, PayTypeOK, TypeOK
<1>h. \A s \in Stocks : /\ headVersions[s].ts.timestamp \in Nat
                        /\ \A d \in Clients : heads[d][s].ts.timestamp \in Nat
    <2>1. ASSUME NEW v \in VersionType PROVE v.ts.timestamp \in Nat
        BY DEF VersionType, TimestampType
    <2>2. \A s \in Stocks : headVersions[s] \in VersionType /\ \A d \in Clients : heads[d][s] \in VersionType
        BY RecordsParts DEF PayInv, PayTypeOK, TypeOK
    <2> QED
        BY <2>1, <2>2
<1>l. \A d \in Clients, s \in Stocks :
          pc[d] # "idle" => /\ LockTimestamp(d, s)' = LockTimestamp(d, s)
                            /\ NewStockVersion(d, s)' = NewStockVersion(d, s)
                            /\ Accessible(d, s)' <=> Accessible(d, s)
    BY <1>t DEF LockTimestamp, NewStockVersion, Accessible
<1>1. TypeInv' /\ EpochInv' /\ VectorInv'
    BY DEF PayInv, PayTypeOK, TypeInv
<1>2. FreshInv'
    <2>1. ASSUME NEW c \in Clients, NEW s \in Stocks, NEW ts, ts.timestamp \in Nat, InstalledBy(c, s, ts)
          PROVE  InstalledBy(c, s, ts)'
        <3>1. Uninstalled(c, s)' => Uninstalled(c, s) /\ cts'[c] = cts[c]
            BY <1>t DEF Uninstalled
        <3> QED
            BY <1>t, <2>1, <3>1 DEF InstalledBy
    <2>2. ASSUME NEW c \in Clients, NEW s \in Stocks
          PROVE  /\ InstalledBy(c, s, headVersions[s].ts)'
                 /\ \A d \in Clients : InstalledBy(c, s, heads[d][s].ts)'
        <3>1. InstalledBy(c, s, headVersions[s].ts) /\ \A d \in Clients : InstalledBy(c, s, heads[d][s].ts)
            BY DEF IInv, FreshInv
        <3> QED
            BY <1>t, <1>h, <2>1, <3>1 DEF InstalledBy, Uninstalled
    <2> QED
        BY <2>2 DEF FreshInv
<1>3. CheckedInv'
    BY <1>t, <1>l DEF IInv, CheckedInv, CheckedAt
<1>4. LockInv'
    BY <1>t, <1>l DEF IInv, LockInv, LockedAt
<1>5. OwnedInv'
    BY <1>t DEF IInv, OwnedInv
<1>6. InstallInv'
    BY <1>t, <1>l DEF IInv, InstallInv, InstallAt
<1>7. IdentityInv'
    <2>1. \A c \in Clients, s \in Stocks :
             (ReadDone(c, s) /\ Accessible(c, s))' => ReadDone(c, s) /\ Accessible(c, s)
        BY <1>t, <1>l DEF ReadDone
    <2> QED
        BY <1>t, <2>1 DEF IInv, IdentityInv, IdentityAt
<1> QED
    BY <1>1, <1>2, <1>3, <1>4, <1>5, <1>6, <1>7 DEF IInv

LEMMA SparedRows ==
    ASSUME PayInv, PayInv', RowsInv, Spares
    PROVE  RowsInv'
<1>t. /\ \A s \in Stocks : headVersions'[s] = headVersions[s]
      /\ orderTable' = orderTable
      /\ \A d \in Clients :
            /\ pc'[d] = pc[d] /\ items'[d] = items[d] /\ stage'[d] = stage[d]
            /\ assignedOID'[d] = assignedOID[d] /\ inserted'[d] = inserted[d] /\ orderRID'[d] = orderRID[d]
            /\ pc[d] # "idle" => cts'[d] = cts[d]
    BY DEF Spares
<1>i. /\ \A c \in Clients : items[c] \subseteq Stocks
      /\ \A c \in Clients, i \in Slots : orderTable[c][i].items \subseteq Stocks
    BY RowItems DEF PayInv, PayTypeOK
<1>1. IInv'
    BY SparedLocks DEF RowsInv
<1>2. RowInv'
    <2>1. ASSUME NEW c \in Clients, NEW i \in Slots
          PROVE  /\ Running(c, orderTable[c][i]) => Running(c, orderTable[c][i])'
                 /\ Installed(orderTable[c][i]) => Installed(orderTable[c][i])'
        <3>1. Running(c, orderTable[c][i]) => Running(c, orderTable[c][i])'
            BY <1>t DEF Running, Unregistered
        <3>2. Installed(orderTable[c][i]) => Installed(orderTable[c][i])'
            BY <1>t, <1>i DEF Installed
        <3> QED
            BY <3>1, <3>2
    <2> QED
        BY <1>t, <2>1 DEF RowsInv, RowInv
<1>3. ProgressInv'
    BY <1>t, <1>i DEF RowsInv, ProgressInv
<1> QED
    BY <1>1, <1>2, <1>3 DEF RowsInv

LEMMA SparedLedger ==
    ASSUME PayInv, PayInv', LedgerInv, Spares
    PROVE  LedgerInv'
<1>t. /\ \A s \in Stocks : headVersions'[s] = headVersions[s] /\ \A d \in Clients : heads'[d][s] = heads[d][s]
      /\ orderTable' = orderTable
      /\ \A d \in Clients :
            /\ pc'[d] = pc[d] /\ items'[d] = items[d] /\ won'[d] = won[d] /\ stage'[d] = stage[d]
            /\ pc[d] # "idle" => localVector'[d] = localVector[d] /\ cts'[d] = cts[d]
            /\ nextEpoch[d] <= nextEpoch'[d] /\ nextEpoch[d] \in Nat /\ nextEpoch'[d] \in Nat
    BY DEF Spares, PayInv, PayTypeOK, TypeOK
<1>i. /\ \A c \in Clients : items[c] \subseteq Stocks
      /\ \A c \in Clients, i \in Slots : orderTable[c][i].items \subseteq Stocks
    BY RowItems DEF PayInv, PayTypeOK
<1>b. \A d \in Clients : (Busy(d)' <=> Busy(d)) /\ (Busy(d) => cts'[d] = cts[d])
    BY <1>t DEF Busy
<1>w. \A p : WasDrawn(p) => WasDrawn(p)'
    BY <1>t, DrawnStays
<1>1. RowsInv'
    BY SparedRows DEF LedgerInv, SnapshotInv
<1>2. DrawnInv'
    <2>1. ASSUME NEW c \in Clients, Busy(c) PROVE \E k \in Nat : k < nextEpoch'[c] /\ cts'[c] = Drawn(k, c)
        <3>1. PICK k \in Nat : k < nextEpoch[c] /\ cts[c] = Drawn(k, c)
            BY <2>1 DEF LedgerInv, SnapshotInv, DrawnInv
        <3>2. k < nextEpoch'[c]
            BY <1>t, <3>1
        <3> QED
            BY <1>b, <2>1, <3>1, <3>2
    <2> QED
        BY <1>t, <1>b, <1>w, <2>1 DEF LedgerInv, SnapshotInv, DrawnInv
<1>3. TopInv'
    BY <1>t, <1>b DEF LedgerInv, SnapshotInv, TopInv, OnTop
<1>4. UnseenInv'
    BY <1>t, <1>b DEF LedgerInv, SnapshotInv, UnseenInv, Taken
<1>5. AnnouncedInv'
    <2>1. \A c \in Clients, s \in Stocks : HasRead(c, s)' => HasRead(c, s) /\ localVector'[c] = localVector[c]
        BY <1>t DEF HasRead
    <2>2. ASSUME NEW c \in Clients, NEW d \in Clients \ {c}, NEW i \in Slots
          PROVE  SeesAnnounced(c, d, orderTable[d][i])'
        <3>1. SeesAnnounced(c, d, orderTable[d][i])
            BY DEF LedgerInv, SnapshotInv, AnnouncedInv
        <3> QED
            BY <1>t, <1>i, <2>1, <3>1 DEF SeesAnnounced
    <2> QED
        BY <2>2 DEF AnnouncedInv
<1>6. AtomicInv'
    <2>1. ASSUME NEW c \in Clients, NEW d \in Clients \ {c}, NEW i \in Slots, AllOrNone(c, orderTable[d][i])
          PROVE  AllOrNone(c, orderTable[d][i])'
        BY <1>t, <1>i, <2>1 DEF AllOrNone
    <2> QED
        BY <1>t, <2>1 DEF LedgerInv, SnapshotInv, AtomicInv
<1>7. EmptyInv'
    BY <1>t DEF LedgerInv, SnapshotInv, EmptyInv
<1>8. DoneInv'
    BY <1>t, <1>i DEF LedgerInv, DoneInv
<1>9. CartInv'
    <2> SUFFICES ASSUME NEW d \in Clients
                 PROVE  cts'[d] \in 0 .. TimestampRange - 1 /\ (pc'[d] # "idle" => items'[d] # {})
        BY DEF CartInv
    <2>1. CommitTimestamp(nextEpoch[d], d) \in 0 .. TimestampRange - 1
        <3>1. nextEpoch[d] * ClientCnt + d \in Nat
            BY <1>t, ClientCntAssumption DEF Clients
        <3> QED
            BY <3>1, TimestampRangeAssumption DEF CommitTimestamp
    <2> QED
        BY <1>t, <2>1 DEF LedgerInv, CartInv, Spares
<1> QED
    BY <1>1, <1>2, <1>3, <1>4, <1>5, <1>6, <1>7, <1>8, <1>9 DEF LedgerInv, SnapshotInv

\* The lists and rings of the stocks are New-Order's alone.
LEMMA SparedLists ==
    ASSUME PayInv, PayInv', ListInv, Spares
    PROVE  ListInv'
<1>t. /\ \A d \in Clients, s \in Stocks : heads'[d][s] = heads[d][s] /\ lists'[d][s] = lists[d][s]
      /\ \A d \in Clients :
            /\ pc'[d] = pc[d] /\ items'[d] = items[d] /\ won'[d] = won[d] /\ stage'[d] = stage[d]
            /\ pc[d] # "idle" => localVector'[d] = localVector[d]
    BY DEF Spares
<1>1. IInv'
    BY SparedLocks DEF ListInv
<1>2. ASSUME NEW t \in Stocks PROVE RingAt(t)' /\ \A e \in Clients : ListIdentityAt(e, t)'
    <2>1. StockKept(t)
        BY DEF StockKept, Spares
    <2>2. ASSUME NEW e \in Clients PROVE ClientKeeps(e, t)
        <3>1. ListRead(e, t)' /\ Accessible(e, t)' => ListRead(e, t) /\ Accessible(e, t)
            BY <1>t DEF ListRead, Accessible
        <3>2. \A n \in 0 .. 2 : Installing(e, t, n)' <=> Installing(e, t, n)
            BY <1>t DEF Installing
        <3> QED
            BY <1>t, <3>1, <3>2 DEF ClientKeeps
    <2> QED
        BY <2>1, <2>2, KeptLists DEF ListInv, RingInv, ListIdentityInv
<1> QED
    BY <1>1, <1>2 DEF ListInv, RingInv, ListIdentityInv

\* The log entries of New-Order stay ahead of the stocks when a payment of the
\* same client overwrites them.
LEMMA SparedLog ==
    ASSUME ClientCnt <= CommandSize, PayInv, PayLogInv, PayLogInv', LogInv, NEW c \in Clients, PayAct(c)
    PROVE  LogInv'
<1>t. PayTypeOK /\ QueueInv /\ TypeOK /\ Spares
    BY PaySpares DEF PayInv, PayTypeOK
<1>n. \A d \in Clients : LoggedTimestamp(d) \in Nat /\ cts[d] \in Nat
    BY <1>t, LoggedTyped
<1>1. ASSUME NEW d \in Clients PROVE LoggedTimestamp(d)' \in Nat /\ LoggedTimestamp(d) <= LoggedTimestamp(d)'
    <2>1. CASE journal'[d] = journal[d]
        BY <1>n, <2>1 DEF LoggedTimestamp
    <2>2. CASE d = c /\ PayLocksAcquired(c)
        <3>1. localVector'[c][c] = cts[c] /\ journal'[c] = LogEntry(journal[c], localVector'[c])
            BY <1>t, <2>2, PayLocksAcquiredEffect
        <3>2. c < CommandSize
            BY ClientCntAssumption, CommandSizeAssumption DEF Clients
        <3>3. LoggedTimestamp(c)' = cts[c]
            BY <3>1, <3>2 DEF LoggedTimestamp, LogEntry
        <3> QED
            BY <1>n, <2>2, <3>3 DEF PayLogInv
    <2>3. d = c \/ journal'[d] = journal[d]
        BY <1>t, PayActsAlone DEF ActsAlone, SamePayment, SameClient
    <2>4. PayAcquireCommitTimestamp(c) => journal'[d] = journal[d]
        BY <1>t, PayAcquireCommitTimestampEffect
    <2> QED
        BY <1>t, <2>1, <2>2, <2>3, <2>4, UnloggedSteps DEF Unlogged
<1>2. ASSUME NEW ts \in TimestampType, Logged(ts) PROVE ~ts.locked => ts.timestamp <= LoggedTimestamp(ts.clientID)'
    BY <1>1, <1>n, <1>2 DEF Logged, TimestampType
<1>3. ASSUME NEW s \in Stocks
      PROVE  Logged(headVersions[s].ts)' /\ \A d \in Clients : Logged(heads[d][s].ts)'
    <2>1. /\ headVersions'[s] = headVersions[s] /\ headVersions[s].ts \in TimestampType
          /\ \A d \in Clients : heads'[d][s] = heads[d][s] /\ heads[d][s].ts \in TimestampType
        BY <1>t, RecordsParts DEF Spares, TypeOK, VersionType
    <2> QED
        BY <1>2, <2>1 DEF LogInv, Logged
<1>4. ASSUME NEW d \in Clients
      PROVE  LoggedTimestamp(d)' <= cts'[d] /\ (pc'[d] = "install" => LoggedTimestamp(d)' = cts'[d])
    BY <1>t DEF PayLogInv, Spares, LogInv, LoggedTimestamp
<1> QED
    BY <1>3, <1>4 DEF LogInv

-----------------------------------------------------------------------------
\* The invariants of both transactions, wherever the rows are.
BothInv == PayInv /\ LedgerInv /\ ListInv

LEMMA BothInit == PayInit => BothInv
    BY PayInvInit, LedgerInvInit, ListInit DEF PayInit, BothInv

LEMMA BothStep ==
    ASSUME BothInv, [PayNext]_mixVars
    PROVE  BothInv' /\ Grows
<1>1. PayInv'
    BY PayInvStep DEF BothInv
<1>2. CASE OrderPart
    <2>1. [Next]_vars
        BY <1>2, OrderFramed DEF BothInv, PayInv
    <2>2. LedgerInv' /\ ListInv'
        BY <2>1, LedgerInvStep, ListStep DEF BothInv
    <2>3. Grows
        BY <2>1, TotalsGrow DEF BothInv, ListInv
    <2> QED
        BY <1>1, <2>2, <2>3 DEF BothInv
<1>3. ASSUME NEW c \in Clients, PayAct(c) PROVE BothInv' /\ Grows
    <2>1. Spares
        BY <1>3, PaySpares DEF BothInv
    <2>2. LedgerInv' /\ ListInv'
        BY <1>1, <2>1, SparedLedger, SparedLists DEF BothInv
    <2>3. Grows
        BY <2>1 DEF Spares, Grows
    <2> QED
        BY <1>1, <2>2, <2>3 DEF BothInv
<1> QED
    BY <1>2, <1>3, PayNextParts

\* New-Order keeps its properties beside payments, although Payment shares the
\* client's vector, commit timestamps and queue pairs: locks are owned, reads
\* are validated, atomic and complete, what is announced is installed, and the
\* pointer lists name the older versions.
THEOREM OrdersBesidePayments ==
    PaySpec => [](/\ LockOwnership /\ LockedVersionIsRead
                  /\ ReadsAreAtomic /\ SnapshotIsRead
                  /\ AnnouncedOrdersInstalled /\ PointerListNamesRing)
<1>1. BothInv => /\ LockOwnership /\ LockedVersionIsRead
                 /\ ReadsAreAtomic /\ SnapshotIsRead
                 /\ AnnouncedOrdersInstalled /\ PointerListNamesRing
    BY OwnedLocks, ValidatedReads, AtomicReads, ReadSnapshots, AnnouncedIsInstalled, ListsNamed
    DEF BothInv, LedgerInv, SnapshotInv, RowsInv
<1>2. BothInv /\ [PayNext]_mixVars => BothInv'
    BY BothStep
<1> QED
    BY <1>1, <1>2, BothInit, PTL DEF PaySpec

\* No step of a payment takes an order out of a stock's totals either.
THEOREM OrdersAreNeverLost == PaySpec => OrdersNeverLost
<1>1. BothInv /\ [PayNext]_mixVars => BothInv'
    BY BothStep
<1>2. BothInv /\ [PayNext]_mixVars => [Grows]_vars
    BY BothStep
<1> QED
    BY <1>1, <1>2, BothInit, PTL DEF PaySpec, OrdersNeverLost, Grows

\* New-Order's log comes before its installs although payments of the same
\* client overwrite its one log entry.
THEOREM OrdersAreLogged ==
    ASSUME ClientCnt <= CommandSize
    PROVE  PaySpec => []LogBeforeInstall
<1>1. PayInit => PayInv /\ PayLogInv /\ LogInv
    BY PayInvInit, PayLogInit, LogInit DEF PayInit
<1>2. PayInv /\ PayLogInv /\ LogInv /\ [PayNext]_mixVars => (PayInv /\ PayLogInv /\ LogInv)'
    <2> SUFFICES ASSUME PayInv, PayLogInv, LogInv, [PayNext]_mixVars
                 PROVE  (PayInv /\ PayLogInv /\ LogInv)'
        OBVIOUS
    <2>1. PayInv' /\ PayLogInv'
        BY PayInvStep, PayLogStep, OrderLogStep, PayNextParts
    <2>2. CASE OrderPart
        BY <2>1, <2>2, OrderFramed, LogStep DEF PayInv, PayTypeOK
    <2>3. ASSUME NEW c \in Clients, PayAct(c) PROVE LogInv'
        BY <2>1, <2>3, SparedLog
    <2> QED
        BY <2>1, <2>2, <2>3, PayNextParts
<1>3. PayInv /\ LogInv => LogBeforeInstall
    BY InstallsLogged DEF PayInv, PayTypeOK
<1> QED
    BY <1>1, <1>2, <1>3, PTL DEF PaySpec

-----------------------------------------------------------------------------
(***************************************************************************)
(* Both transactions together implement TransactionLedger when a payment   *)
(* has one queue pair.  The Commit steps are LocksAcquired and             *)
(* PayLocksAcquired, the Announce steps SubmitResult and PaySubmitResult.  *)
(* A payment that has its three locks is alone in flight: another one      *)
(* would own a lock, or its unannounced word would be on top of the rows.  *)
(***************************************************************************)

\* The transactions of one kind are in no row of the other.
CrossInv ==
    \A c \in Clients :
        /\ Paying(c) => \A s \in Stocks : cts[c] \notin headVersions[s].ytd
        /\ Busy(c) => \A r \in Refs : cts[c] \notin headVersions[r].ytd

MixInv == BalanceInv /\ LedgerInv /\ CrossInv

\* Transactions of different clients have different commit timestamps.
LEMMA UnannouncedDiffer ==
    ASSUME MixInv, NEW c \in Clients, NEW d \in Clients, c # d, Paying(c) \/ Busy(c), Paying(d) \/ Busy(d)
    PROVE  cts[c] # cts[d]
<1>1. \A e \in Clients : Paying(e) \/ Busy(e) => \E k \in Nat : cts[e] = Drawn(k, e)
    BY DEF MixInv, BalanceInv, PayDrawnInv, LedgerInv, SnapshotInv, DrawnInv
<1>2. PICK k \in Nat, n \in Nat : cts[c] = Drawn(k, c) /\ cts[d] = Drawn(n, d)
    BY <1>1
<1> QED
    BY <1>2, DrawnDiffer

\* A client runs one transaction at a time.
LEMMA OneAtATime ==
    ASSUME MixInv, NEW c \in Clients
    PROVE  /\ payPc[c] # "idle" => pc[c] = "idle"
           /\ Paying(c) => ~Busy(c)
           /\ PayInFlight(c) => Paying(c) /\ ~InFlight(c)
           /\ InFlight(c) => Busy(c)
    BY DEF MixInv, BalanceInv, PayInv, PayTypeOK, Paying, Busy, PayInFlight, InFlight

\* A commit timestamp that is drawn now was not drawn before.
LEMMA NewlyDrawn ==
    ASSUME PayInv, NEW c \in Clients, NEW p, WasDrawn(p)
    PROVE  p # Drawn(nextEpoch[c], c)
<1>1. PICK e \in Clients, k \in Nat : k < nextEpoch[e] /\ p = Drawn(k, e)
    BY DEF WasDrawn
<1>2. nextEpoch[c] \in Nat
    BY DEF PayInv, PayTypeOK, TypeOK
<1>3. ASSUME Drawn(k, e) = Drawn(nextEpoch[c], c) PROVE FALSE
    <2>1. e = c /\ k = nextEpoch[c]
        BY <1>2, <1>3, DrawnDiffer
    <2> QED
        BY <1>1, <1>2, <2>1
<1> QED
    BY <1>1, <1>3

\* What a stock gains is an order.
LEMMA GainedOrder ==
    ASSUME LedgerInv, [Next]_vars, NEW s \in Stocks, NEW p \in headVersions'[s].ytd,
           p \notin headVersions[s].ytd
    PROVE  \E d \in Clients : Busy(d) /\ p = cts[d]
<1>1. TypeOK /\ InstallInv
    BY DEF LedgerInv, SnapshotInv, RowsInv, IInv, TypeInv
<1>2. ASSUME NEW c \in Clients, LocksAcquired(c) \/ SubmitResult(c) PROVE FALSE
    BY <1>2 DEF LocksAcquired, SubmitResult, serverVars
<1>3. ~LedgerKept
    BY DEF LedgerKept
<1>4. PICK c \in Clients, t \in Stocks : UpdateStock(c, t)
    BY <1>1, <1>2, <1>3, KeptSteps
<1>5. /\ pc[c] = "install"
      /\ headVersions'[t].ytd = headVersions[t].ytd \cup {cts[c]}
      /\ \A q \in Stocks \ {t} : headVersions'[q] = headVersions[q]
    BY <1>1, <1>4, UpdateStockEffect DEF InstallInv, InstallAt
<1> QED
    BY <1>5 DEF Busy

\* New-Order draws as Payment does, and keeps what it has drawn.
LEMMA BusySteps ==
    ASSUME PayInv, [Next]_vars, NEW c \in Clients, Busy(c)'
    PROVE  \/ Busy(c) /\ cts'[c] = cts[c]
           \/ cts'[c] = Drawn(nextEpoch[c], c)
<1>t. TypeOK /\ EpochInv /\ nextEpoch[c] \in Nat
    BY DEF PayInv, PayTypeOK, TypeOK
<1> DEFINE Goal == \/ Busy(c) /\ cts'[c] = cts[c]
                   \/ cts'[c] = Drawn(nextEpoch[c], c)
<1> USE DEF trxVars
<1>1. ASSUME NEW d \in Clients, AcquireCommitTimestamp(d) PROVE Goal
    <2>1. CASE d = c
        <3>1. pc[c] = "recheck" /\ cts'[c] = CommitTimestamp(nextEpoch[c], c)
            BY <1>1, <1>t, <2>1 DEF AcquireCommitTimestamp, getNewCommitTimestamp, TypeOK
        <3> QED
            BY <1>t, <3>1, DrawnGrows DEF EpochInv
    <2>2. CASE d # c
        BY <1>1, <1>t, <2>2 DEF AcquireCommitTimestamp, getNewCommitTimestamp, TypeOK, Busy
    <2> QED
        BY <2>1, <2>2
<1>2. ASSUME cts' = cts, pc'[c] = pc[c] PROVE Goal
    BY <1>2 DEF Busy
<1>3. ASSUME NEW d \in Clients, Start(d) PROVE Goal
    BY <1>t, <1>3 DEF Start, TypeOK, Busy
<1>4. ASSUME NEW d \in Clients, NEW e \in Clients, getReadTimestamp(d, e) PROVE Goal
    BY <1>t, <1>4 DEF getReadTimestamp, TypeOK, Busy
<1>5. ASSUME NEW d \in Clients,
             \/ CheckVersionsAbort(d) \/ CheckVersions(d) \/ LocksRefused(d) \/ LockAbort(d)
             \/ LocksAcquired(d) \/ RegisterOrder(d) \/ SubmitResult(d) \/ \E r \in Refs : RecheckAbort(d, r)
      PROVE  Goal
    BY <1>t, <1>5 DEF CheckVersionsAbort, CheckVersions, LocksRefused, LockAbort, LocksAcquired,
       RegisterOrder, SubmitResult, RecheckAbort, TypeOK, Busy
<1>6. ASSUME NEW d \in Clients, NEW r \in Records,
             RetrieveTimestamp(d, r) \/ RetrieveRow(d, r) \/ RetrievePointerList(d, r)
      PROVE  Goal
    BY <1>2, <1>6 DEF RetrieveTimestamp, RetrieveRow, RetrievePointerList
<1>7. ASSUME NEW d \in Clients, NEW s \in Stocks,
             \/ LockStock(d, s) \/ RevertStockLock(d, s)
             \/ UpdateStockPointers(d, s) \/ UpdateStockOlderVersions(d, s)
             \/ UpdateStockTimestamp(d, s) \/ UpdateStock(d, s)
      PROVE  Goal
    BY <1>2, <1>7 DEF LockStock, RevertStockLock, UpdateStockPointers, UpdateStockOlderVersions,
       UpdateStockTimestamp, UpdateStock
<1>8. ASSUME NEW d \in Clients, RetrieveAndIncrementDistrictNextOID(d) \/ InsertOrder(d) PROVE Goal
    BY <1>2, <1>8 DEF RetrieveAndIncrementDistrictNextOID, InsertOrder
<1>9. ASSUME NEW d \in Clients, NEW r \in Refs, RetrieveOlderVersion(d, r) PROVE Goal
    BY <1>2, <1>9 DEF RetrieveOlderVersion
<1>10. ASSUME NEW e \in Clients, ReaderRefresh(e) PROVE Goal
    BY <1>2, <1>10 DEF ReaderRefresh
<1>11. CASE UNCHANGED vars
    BY <1>2, <1>11 DEF vars
<1>12. ASSUME NEW d \in Clients, Step(d) PROVE Goal
    BY <1>1, <1>4, <1>5, <1>6, <1>7, <1>8, <1>9, <1>12 DEF Step
<1>13. CASE Next
    <2>1. \/ \E e \in Clients : ReaderRefresh(e)
          \/ \E d \in Clients : Start(d)
          \/ \E d \in Clients : Step(d)
        BY <1>13 DEF Next
    <2> QED
        BY <1>3, <1>10, <1>12, <2>1
<1> QED
    BY <1>11, <1>13

LEMMA CrossStep ==
    ASSUME SharedQueuePair, MixInv, PayInv', [PayNext]_mixVars
    PROVE  CrossInv'
<1>t. /\ PayInv /\ PayTypeOK /\ QueueInv /\ BufferInv /\ VectorInv /\ EpochInv /\ PayEpochInv
      /\ LedgerInv /\ PayDrawnInv /\ DrawnInv
    BY DEF MixInv, BalanceInv, PayInv, LedgerInv, SnapshotInv
<1>1. CASE OrderPart
    <2>1. OrderFrame /\ [Next]_vars
        BY <1>t, <1>1, OrderFramed
    <2>2. ASSUME NEW c \in Clients, Paying(c)', NEW s \in Stocks PROVE cts'[c] \notin headVersions'[s].ytd
        <3>1. Paying(c) /\ cts'[c] = cts[c]
            BY <1>t, <2>1, <2>2, OrderProgress
        <3>2. cts[c] \notin headVersions[s].ytd
            BY <3>1 DEF MixInv, CrossInv
        <3>3. ASSUME cts[c] \in headVersions'[s].ytd PROVE FALSE
            <4>1. PICK d \in Clients : Busy(d) /\ cts[c] = cts[d]
                BY <1>t, <2>1, <3>2, <3>3, GainedOrder
            <4> QED
                BY <3>1, <4>1, UnannouncedDiffer, OneAtATime
        <3> QED
            BY <3>1, <3>3
    <2>3. ASSUME NEW c \in Clients, Busy(c)', NEW r \in Refs PROVE cts'[c] \notin headVersions'[r].ytd
        <3>1. headVersions'[r] = headVersions[r]
            BY <2>1 DEF OrderFrame, RowsKept
        <3>2. CASE Busy(c) /\ cts'[c] = cts[c]
            BY <3>1, <3>2 DEF MixInv, CrossInv
        <3>3. CASE cts'[c] = Drawn(nextEpoch[c], c)
            BY <1>t, <3>1, <3>3, NewlyDrawn DEF PayDrawnInv
        <3> QED
            BY <1>t, <2>1, <2>3, <3>2, <3>3, BusySteps
    <2> QED
        BY <2>2, <2>3 DEF CrossInv
<1>2. ASSUME NEW c \in Clients, PayAct(c) PROVE CrossInv'
    <2>1. Spares /\ Progress(c)
        BY <1>t, <1>2, PaySpares, PayProgress
    <2>2. ASSUME NEW d \in Clients, Paying(d)', NEW s \in Stocks PROVE cts'[d] \notin headVersions'[s].ytd
        <3>1. headVersions'[s] = headVersions[s]
            BY <2>1 DEF Spares
        <3>2. CASE Paying(d) /\ cts'[d] = cts[d]
            BY <3>1, <3>2 DEF MixInv, CrossInv
        <3>3. CASE d = c /\ PayAcquireCommitTimestamp(c)
            <4>1. cts'[c] = Drawn(nextEpoch[c], c)
                BY <1>t, <3>3, PayDrawIsLarger
            <4> QED
                BY <1>t, <3>1, <3>3, <4>1, NewlyDrawn DEF DrawnInv
        <3> QED
            BY <2>1, <2>2, <3>2, <3>3 DEF Progress
    <2>3. ASSUME NEW d \in Clients, Busy(d)', NEW r \in Refs PROVE cts'[d] \notin headVersions'[r].ytd
        <3>1. Busy(d) /\ cts'[d] = cts[d]
            BY <2>1, <2>3 DEF Spares, Busy
        <3>2. cts[d] \notin headVersions[r].ytd
            BY <3>1 DEF MixInv, CrossInv
        <3>3. ASSUME cts[d] \in headVersions'[r].ytd PROVE FALSE
            <4>1. Torn(c, r) /\ cts[d] = cts[c]
                BY <1>t, <1>2, <3>2, <3>3, GainedPayment
            <4>2. Paying(c)
                BY <1>t, <4>1, TornWord DEF Paying
            <4> QED
                BY <3>1, <4>1, <4>2, UnannouncedDiffer, OneAtATime
        <3> QED
            BY <3>1, <3>3
    <2> QED
        BY <2>2, <2>3 DEF CrossInv
<1> QED
    BY <1>1, <1>2, PayNextParts

LEMMA MixInit ==
    ASSUME SharedQueuePair, PayInit
    PROVE  MixInv
<1>1. CrossInv
    BY DEF PayInit, Init, CrossInv, Paying, Busy
<1> QED
    BY <1>1, BalanceInit, LedgerInvInit DEF PayInit, MixInv

LEMMA MixStep ==
    ASSUME SharedQueuePair, MixInv, [PayNext]_mixVars
    PROVE  MixInv'
<1>1. BalanceInv'
    BY BalanceStep DEF MixInv
<1>2. PayInv /\ PayInv'
    BY <1>1 DEF MixInv, BalanceInv
<1>3. LedgerInv'
    <2>1. CASE OrderPart
        BY <1>2, <2>1, OrderFramed, LedgerInvStep DEF MixInv, PayInv
    <2>2. ASSUME NEW c \in Clients, PayAct(c) PROVE LedgerInv'
        BY <1>2, <2>2, PaySpares, SparedLedger DEF MixInv
    <2> QED
        BY <2>1, <2>2, PayNextParts
<1> QED
    BY <1>1, <1>2, <1>3, CrossStep DEF MixInv

\* The payments that took effect and are not announced.
OpenPayments == {cts[c] : c \in {d \in Clients : PayInFlight(d)}}

LEMMA TotalsParts ==
    /\ DOMAIN RowTotals = Records /\ DOMAIN RowTotals' = Records
    /\ \A s \in Stocks : RowTotals[s] = StockTotals[s] /\ RowTotals'[s] = StockTotals'[s]
    /\ \A r \in Refs : /\ RowTotals[r] = headVersions[r].ytd \cup OpenPayments
                       /\ RowTotals'[r] = headVersions'[r].ytd \cup OpenPayments'
<1>1. (\A s \in Stocks : s \in Records) /\ (\A r \in Refs : r \in Records /\ r \notin Stocks)
    BY PayRows, RecordsParts
<1> QED
    BY <1>1 DEF RowTotals, OpenPayments

\* All rows are stocks or Payment's.
LEMMA TotalsAgree ==
    ASSUME StockTotals' = StockTotals, \A r \in Refs : RowTotals'[r] = RowTotals[r]
    PROVE  RowTotals' = RowTotals
<1>1. ASSUME NEW r \in Records PROVE RowTotals'[r] = RowTotals[r]
    BY TotalsParts DEF Records
<1> QED
    BY <1>1 DEF RowTotals

\* What the ledger shows of New-Order is as it was after a step of Payment.
LEMMA SparedOrders ==
    ASSUME Spares
    PROVE  StockTotals' = StockTotals /\ CommittedOrders' = CommittedOrders
<1>0. /\ UNCHANGED <<pc, items, heads>>
      /\ \A s \in Stocks : headVersions'[s] = headVersions[s]
      /\ \A d \in Clients : InFlight(d)' <=> InFlight(d)
      /\ \A d \in Clients : InFlight(d) => cts'[d] = cts[d]
    BY DEF Spares, InFlight
<1>1. ASSUME NEW s \in Stocks PROVE StockTotals'[s] = StockTotals[s]
    <2>1. {cts'[c] : c \in {d \in Clients : InFlight(d)' /\ s \in items'[d]}}
            = {cts[c] : c \in {d \in Clients : InFlight(d) /\ s \in items[d]}}
        BY <1>0
    <2> QED
        BY <1>0, <2>1 DEF StockTotals
<1>2. ASSUME NEW c \in Clients PROVE CommittedOrders'[c] = CommittedOrders[c]
    <2>1. CASE InFlight(c)
        BY <1>0, <2>1 DEF CommittedOrders
    <2>2. CASE ~InFlight(c)
        BY <1>0, <2>2 DEF CommittedOrders
    <2> QED
        BY <2>1, <2>2
<1>3. StockTotals' = StockTotals
    BY <1>1 DEF StockTotals
<1>4. CommittedOrders' = CommittedOrders
    BY <1>2 DEF CommittedOrders
<1> QED
    BY <1>3, <1>4

-----------------------------------------------------------------------------
\* What a payment read, but for itself.
Received(c, r) == payHeads[c][r].ytd \ {cts[c]}

\* Steps of Payment that the ledger does not see.
PayLedgerKept ==
    /\ lastCommittedVector' = lastCommittedVector
    /\ \A d \in Clients :
          /\ PayInFlight(d)' <=> PayInFlight(d)
          /\ PayInFlight(d) => cts'[d] = cts[d] /\ \A r \in Refs : Received(d, r)' = Received(d, r)

\* All steps but two kinds are such.
LEMMA PayKeptSteps ==
    ASSUME PayInv, PayInv', NEW c \in Clients, PayAct(c)
    PROVE  PayLedgerKept \/ PayLocksAcquired(c) \/ PaySubmitResult(c)
<1>t. /\ PayTypeOK /\ QueueInv /\ ActsAlone(c)
      /\ lastCommittedVector \in [Clients -> Nat] /\ lastCommittedVector' \in [Clients -> Nat]
    BY PayActsAlone DEF PayInv, PayTypeOK, TypeOK
<1>1. ASSUME lastCommittedVector'[c] = lastCommittedVector[c], PayInFlight(c)' <=> PayInFlight(c),
             PayInFlight(c) => cts'[c] = cts[c] /\ \A r \in Refs : Received(c, r)' = Received(c, r)
      PROVE  PayLedgerKept
    <2>1. \A d \in Clients \ {c} : SamePayment(d) /\ lastCommittedVector'[d] = lastCommittedVector[d]
        BY <1>t DEF ActsAlone, SamePayment, SameClient
    <2>2. lastCommittedVector' = lastCommittedVector
        BY <1>t, <1>1, <2>1
    <2>3. ASSUME NEW d \in Clients \ {c}
          PROVE  /\ PayInFlight(d)' <=> PayInFlight(d)
                 /\ cts'[d] = cts[d] /\ \A r \in Refs : Received(d, r)' = Received(d, r)
        BY <2>1, <2>3 DEF SamePayment, SameClient, PayInFlight, Received
    <2> QED
        BY <1>1, <2>2, <2>3 DEF PayLedgerKept
<1>2. ASSUME SameClient(c), payPc'[c] = payPc[c], payHeads'[c] = payHeads[c] PROVE PayLedgerKept
    BY <1>1, <1>2 DEF SameClient, PayInFlight, Received
<1>3. ASSUME lastCommittedVector'[c] = lastCommittedVector[c], ~PayInFlight(c), ~PayInFlight(c)'
      PROVE  PayLedgerKept
    BY <1>1, <1>3
<1> USE DEF PayInFlight
<1>4. CASE \/ PayStart(c) \/ LookupFails(c) \/ PayCheckVersionsAbort(c) \/ PayLocksRefused(c)
           \/ PayLockAbort(c) \/ \E r \in Refs : PayRetrievePointerList(c, r)
    BY <1>t, <1>3, <1>4, PhaseEffect DEF MovesPhase, SameClient
<1>5. ASSUME NEW e \in Clients, PayReadTimestamp(c, e) PROVE PayLedgerKept
    BY <1>t, <1>3, <1>5, PayReadTimestampEffect
<1>6. ASSUME NEW r \in Refs, PayRetrieveTimestamp(c, r) \/ PayRetrieveRow(c, r) PROVE PayLedgerKept
    BY <1>t, <1>3, <1>6, PayRetrieveEffect DEF SameClient
<1>7. CASE PayAcquireCommitTimestamp(c)
    BY <1>t, <1>3, <1>7, PayAcquireCommitTimestampEffect
<1>8. ASSUME NEW r \in Refs, PayLock(c, r) \/ PayRevertLock(c, r) PROVE PayLedgerKept
    BY <1>t, <1>3, <1>8, PayLockEffect, PayRevertLockEffect DEF SameClient
<1>9. CASE AppendOldVersions(c) \/ InsertIntoHistory(c)
    BY <1>t, <1>1, <1>9, AppendOldVersionsEffect, InsertIntoHistoryEffect DEF SameClient, Received
<1>10. ASSUME NEW r \in Refs, SetNewTimestamp(c, r) \/ PostUpdate(c, r) PROVE PayLedgerKept
    <2>1. /\ SameClient(c) /\ payPc[c] = "update" /\ payPc'[c] = "update"
          /\ payHeads'[c][r].ytd = payHeads[c][r].ytd \/ payHeads'[c][r].ytd = payHeads[c][r].ytd \cup {cts[c]}
          /\ \A q \in Refs \ {r} : payHeads'[c][q] = payHeads[c][q]
        <3>1. CASE SetNewTimestamp(c, r)
            BY <1>t, <3>1, SetNewTimestampEffect
        <3>2. CASE PostUpdate(c, r)
            BY <1>t, <3>2, PostUpdateEffect
        <3> QED
            BY <1>10, <3>1, <3>2
    <2>2. cts'[c] = cts[c]
        BY <2>1 DEF SameClient
    <2>3. Received(c, r)' = Received(c, r)
        BY <2>1, <2>2 DEF Received
    <2>4. \A q \in Refs : Received(c, q)' = Received(c, q)
        BY <2>1, <2>2, <2>3 DEF Received
    <2> QED
        BY <1>1, <2>1, <2>4 DEF SameClient
<1>11. ASSUME NEW s \in Servers, ExecuteRequest(c, s) PROVE PayLedgerKept
    <2>1. CASE ExecutePointers(c, s) \/ ExecuteOlder(c, s) \/ ExecuteHistory(c, s)
        BY <1>t, <1>2, <2>1, ExecuteOtherEffect
    <2>2. CASE ExecuteHead(c, s)
        BY <1>t, <1>2, <2>2, ExecuteHeadEffect
    <2>3. CASE ExecuteHeadRow(c, s)
        BY <1>t, <1>2, <2>3, ExecuteHeadRowEffect
    <2> QED
        BY <1>11, <2>1, <2>2, <2>3 DEF ExecuteRequest
<1> QED
    BY <1>4, <1>5, <1>6, <1>7, <1>8, <1>9, <1>10, <1>11 DEF PayAct, PayStep

MixSame ==
    RowTotals' = RowTotals /\ CommittedTransactions' = CommittedTransactions
    /\ lastCommittedVector' = lastCommittedVector

\* The payments that are not announced yet, after such a step.
LEMMA OpenStays ==
    ASSUME \A d \in Clients : /\ PayInFlight(d)' <=> PayInFlight(d)
                              /\ PayInFlight(d) => cts'[d] = cts[d]
    PROVE  OpenPayments' = OpenPayments
<1>1. OpenPayments' \subseteq OpenPayments
    BY DEF OpenPayments
<1>2. OpenPayments \subseteq OpenPayments'
    BY DEF OpenPayments
<1> QED
    BY <1>1, <1>2

\* What a client that pays, or does not, shows to the ledger.
LEMMA CommittedParts ==
    ASSUME NEW c \in Clients
    PROVE  /\ PayInFlight(c) => CommittedTransactions[c] =
                 [ts |-> cts[c], rows |-> Refs, received |-> [r \in Refs |-> Received(c, r)]]
           /\ ~PayInFlight(c) => CommittedTransactions[c] = CommittedOrders[c]
           /\ PayInFlight(c)' => CommittedTransactions'[c] =
                 [ts |-> cts'[c], rows |-> Refs, received |-> [r \in Refs |-> Received(c, r)']]
           /\ ~PayInFlight(c)' => CommittedTransactions'[c] = CommittedOrders'[c]
    BY DEF CommittedTransactions, Received

\* The transactions of a client, after a step that leaves them.
LEMMA CommittedStays ==
    ASSUME NEW c \in Clients, CommittedOrders'[c] = CommittedOrders[c], PayInFlight(c)' <=> PayInFlight(c),
           PayInFlight(c) => cts'[c] = cts[c] /\ \A r \in Refs : Received(c, r)' = Received(c, r)
    PROVE  CommittedTransactions'[c] = CommittedTransactions[c]
<1>1. CASE PayInFlight(c)
    <2> DEFINE old == [r \in Refs |-> Received(c, r)]
               new == [r \in Refs |-> Received(c, r)']
    <2>1. new = old
        BY <1>1
    <2>2. CommittedTransactions[c] = [ts |-> cts[c], rows |-> Refs, received |-> old]
        BY <1>1, CommittedParts
    <2>3. CommittedTransactions'[c] = [ts |-> cts'[c], rows |-> Refs, received |-> new]
        BY <1>1, CommittedParts
    <2>4. cts'[c] = cts[c]
        BY <1>1
    <2> HIDE DEF old, new
    <2> QED
        BY <2>1, <2>2, <2>3, <2>4
<1>2. CASE ~PayInFlight(c)
    BY <1>2, CommittedParts
<1> QED
    BY <1>1, <1>2

\* Writing the rows of a payment adds one that already counted.
LEMMA PayKeptIsSame ==
    ASSUME SharedQueuePair, MixInv, NEW c \in Clients, PayAct(c), PayLedgerKept
    PROVE  MixSame
<1>t. PayInv /\ BufferInv /\ Spares
    BY PaySpares DEF MixInv, BalanceInv
<1>1. StockTotals' = StockTotals /\ CommittedOrders' = CommittedOrders
    BY <1>t, SparedOrders
<1>2. OpenPayments' = OpenPayments
    BY OpenStays DEF PayLedgerKept
<1>3. ASSUME NEW r \in Refs PROVE RowTotals'[r] = RowTotals[r]
    <2>1. headVersions[r].ytd \subseteq headVersions'[r].ytd
        BY <1>t, BalancesGrow
    <2>2. ASSUME NEW p \in headVersions'[r].ytd, p \notin headVersions[r].ytd PROVE p \in OpenPayments
        <3>1. Torn(c, r) /\ p = cts[c]
            BY <1>t, <2>2, GainedPayment
        <3>2. PayInFlight(c)
            BY <1>t, <3>1, TornWord DEF PayInFlight
        <3> QED
            BY <3>1, <3>2 DEF OpenPayments
    <2>3. /\ RowTotals[r] = headVersions[r].ytd \cup OpenPayments
          /\ RowTotals'[r] = headVersions'[r].ytd \cup OpenPayments
        BY <1>2, TotalsParts
    <2> QED
        BY <2>1, <2>2, <2>3
<1>4. RowTotals' = RowTotals
    BY <1>1, <1>3, TotalsAgree
<1>5. ASSUME NEW d \in Clients PROVE CommittedTransactions'[d] = CommittedTransactions[d]
    BY <1>1, CommittedStays DEF PayLedgerKept
<1>6. CommittedTransactions' = CommittedTransactions
    BY <1>5 DEF CommittedTransactions
<1> QED
    BY <1>4, <1>6 DEF MixSame, PayLedgerKept

\* A payment that has its locks is alone: another one in flight owns a row, or
\* has its word on top of the rows.
LEMMA AloneInFlight ==
    ASSUME SharedQueuePair, MixInv, NEW c \in Clients, payPc[c] = "lock", payWon[c] = Refs,
           NEW d \in Clients, PayInFlight(d)
    PROVE  FALSE
<1>t. PayInv /\ BufferInv /\ PayTopInv /\ OwnerInv /\ Warehouse \in Refs
    BY PayRows DEF MixInv, BalanceInv, PayInv
<1>0. d # c /\ Paying(d)
    BY DEF PayInFlight, Paying
<1>1. Warehouse \notin payWon[d] /\ headVersions[Warehouse].ts.locked
    BY <1>t, <1>0, OneOwner DEF OwnerInv, OwnerAt, WonAt
<1>2. payPc[d] # "append"
    BY <1>t, <1>1 DEF OwnerInv, OwnerAt, OwnsAt
<1>3. ~Torn(d, Warehouse)
    BY <1>t, <1>1, TornWord DEF OwnWord
<1>4. cts[d] \in headVersions[Warehouse].ytd
    BY <1>t, <1>1, <1>2, <1>3 DEF BufferInv, BufferAt, PayInFlight
<1>5. OwnWord(d, headVersions[Warehouse].ts)
    BY <1>t, <1>0, <1>4 DEF PayTopInv
<1> QED
    BY <1>1, <1>5 DEF OwnWord

\* The rows of transactions of the two kinds.
LEMMA CommittedRows ==
    ASSUME MixInv, NEW c \in Clients
    PROVE  /\ PayInFlight(c) => CommittedTransactions[c].rows = Refs
           /\ ~PayInFlight(c) => CommittedTransactions[c].rows \subseteq Stocks
<1>1. items[c] \subseteq Stocks
    BY Phased DEF MixInv, LedgerInv
<1>2. ASSUME PayInFlight(c) PROVE CommittedTransactions[c].rows = Refs
    <2> DEFINE rs == [r \in Refs |-> Received(c, r)]
    <2>1. CommittedTransactions[c] = [ts |-> cts[c], rows |-> Refs, received |-> rs]
        BY <1>2, CommittedParts
    <2> HIDE DEF rs
    <2> QED
        BY <2>1
<1>3. CommittedOrders[c].rows \subseteq Stocks
    BY <1>1 DEF CommittedOrders
<1> QED
    BY <1>2, <1>3, CommittedParts

\* A transaction that is not in flight is in no row, nor counted in one.
LEMMA NotCounted ==
    ASSUME MixInv, NEW c \in Clients, Paying(c) \/ Busy(c), ~PayInFlight(c), ~InFlight(c),
           NEW r \in Records
    PROVE  cts[c] \notin RowTotals[r]
<1>t. BalanceInv /\ PayTopInv /\ CrossInv /\ TopInv
    BY DEF MixInv, BalanceInv, LedgerInv, SnapshotInv, RowsInv
<1>1. ASSUME NEW d \in Clients, InFlight(d) \/ PayInFlight(d) PROVE cts[d] # cts[c]
    BY <1>1, UnannouncedDiffer, OneAtATime
<1>2. CASE r \in Stocks
    <2>1. cts[c] \notin headVersions[r].ytd
        <3>1. CASE Paying(c)
            BY <1>t, <1>2, <3>1 DEF CrossInv
        <3>2. CASE Busy(c)
            BY <1>t, <1>2, <3>2 DEF TopInv, OnTop, Busy, InFlight
        <3> QED
            BY <3>1, <3>2
    <2> QED
        BY <1>1, <1>2, <2>1, TotalsParts DEF StockTotals
<1>3. CASE r \in Refs
    <2>1. cts[c] \notin headVersions[r].ytd
        <3>1. CASE Paying(c)
            BY <1>t, <1>3, <3>1 DEF PayTopInv, PayInFlight
        <3>2. CASE Busy(c)
            BY <1>t, <1>3, <3>2 DEF CrossInv
        <3> QED
            BY <3>1, <3>2
    <2> QED
        BY <1>1, <1>3, <2>1, TotalsParts DEF OpenPayments
<1> QED
    BY <1>2, <1>3 DEF Records

\* When it has its locks, a payment takes effect on its three rows at once.
LEMMA PayAcquiredCommits ==
    ASSUME SharedQueuePair, MixInv, NEW c \in Clients, PayLocksAcquired(c)
    PROVE  MixLedger!Commit(c, Refs, cts[c])
<1>t. PayInv /\ PayTypeOK /\ QueueInv /\ BufferInv /\ PayVectorInv /\ PayAct(c)
    BY DEF MixInv, BalanceInv, PayInv, PayAct, PayStep
<1>1. /\ ActsAlone(c) /\ RowsKept
      /\ payPc[c] = "lock" /\ payPc'[c] = "append" /\ payWon[c] = Refs
      /\ payHeads'[c] = payHeads[c] /\ cts' = cts /\ lastCommittedVector' = lastCommittedVector
    BY <1>t, PayLocksAcquiredEffect
<1>2. /\ StockTotals' = StockTotals /\ CommittedOrders' = CommittedOrders
    BY <1>t, PaySpares, SparedOrders
<1>3. \A d \in Clients : ~PayInFlight(d)
    BY <1>1, AloneInFlight
<1>4. PayInFlight(c)' /\ \A d \in Clients \ {c} : ~PayInFlight(d)'
    BY <1>1, <1>3 DEF ActsAlone, SamePayment, PayInFlight
<1>5. OpenPayments = {} /\ OpenPayments' = {cts[c]}
    <2>1. OpenPayments = {}
        BY <1>3 DEF OpenPayments
    <2>2. OpenPayments' \subseteq {cts[c]}
        BY <1>1, <1>4 DEF OpenPayments
    <2>3. cts[c] \in OpenPayments'
        BY <1>1, <1>4 DEF OpenPayments
    <2> QED
        BY <2>1, <2>2, <2>3
<1>6. Paying(c) /\ ~InFlight(c) /\ lastCommittedVector[c] < cts[c]
    BY <1>t, <1>1, OneAtATime DEF Paying, InFlight, PayVectorInv
<1>7. \A r \in Records : cts[c] \notin RowTotals[r]
    BY <1>3, <1>6, NotCounted
<1>8. CommittedTransactions[c] = MixLedger!Nothing
    BY <1>3, <1>6, CommittedParts DEF CommittedOrders, MixLedger!Nothing
<1>9. \A d \in Clients : CommittedTransactions[d].rows \cap Refs = {}
    BY <1>3, CommittedRows, RecordsAssumption
<1>10. \A r \in Refs : RowTotals[r] = headVersions[r].ytd /\ RowTotals'[r] = RowTotals[r] \cup {cts[c]}
    BY <1>1, <1>5, TotalsParts DEF RowsKept
<1>11. RowTotals' = [r \in Records |-> IF r \in Refs THEN RowTotals[r] \cup {cts[c]} ELSE RowTotals[r]]
    <2>1. ASSUME NEW r \in Records, r \notin Refs PROVE RowTotals'[r] = RowTotals[r]
        BY <1>2, <2>1, TotalsParts DEF Records
    <2> QED
        BY <1>10, <2>1 DEF RowTotals
<1>12. ASSUME NEW r \in Refs PROVE Received(c, r)' = RowTotals[r]
    <2>1. payHeads[c][r].ytd = headVersions[r].ytd
        BY <1>t, <1>1, RestingRead DEF Resting
    <2>2. cts[c] \notin headVersions[r].ytd
        BY <1>7, <1>10, PayRows
    <2> QED
        BY <1>1, <1>10, <2>1, <2>2 DEF Received
<1>13. CommittedTransactions' =
         [CommittedTransactions EXCEPT ![c] =
             [ts |-> cts[c], rows |-> Refs, received |-> [r \in Refs |-> RowTotals[r]]]]
    <2> DEFINE new == [ts |-> cts[c], rows |-> Refs, received |-> [r \in Refs |-> RowTotals[r]]]
    <2>1. CommittedTransactions'[c] = new
        <3>1. [r \in Refs |-> Received(c, r)'] = [r \in Refs |-> RowTotals[r]]
            BY <1>12
        <3> QED
            BY <1>1, <1>4, <3>1, CommittedParts
    <2>2. ASSUME NEW d \in Clients \ {c} PROVE CommittedTransactions'[d] = CommittedTransactions[d]
        BY <1>2, <1>3, <1>4, CommittedParts
    <2> HIDE DEF new
    <2>3. CommittedTransactions' = [CommittedTransactions EXCEPT ![c] = new]
        BY <2>1, <2>2 DEF CommittedTransactions
    <2> QED
        BY <2>3 DEF new
<1> QED
    BY <1>1, <1>6, <1>7, <1>8, <1>9, <1>11, <1>13 DEF MixLedger!Commit

\* A payment that is announced is in all its rows.
LEMMA SubmittedIsInstalled ==
    ASSUME SharedQueuePair, MixInv, NEW c \in Clients, PaySubmitResult(c), NEW r \in Refs
    PROVE  cts[c] \in headVersions[r].ytd
<1>t. PayInv /\ PayTypeOK /\ PairInv /\ BufferInv /\ OwnerInv /\ PayAct(c)
    BY DEF MixInv, BalanceInv, PayInv, PayAct, PayStep
<1>1. payPc[c] = "submit" /\ payPc'[c] = "idle" /\ queue'[c] = queue[c]
    BY <1>t, PaySubmitResultEffect
<1>2. Pair(c) = <<>>
    BY <1>t, <1>1, PairStep DEF PairInv, PairAt, Pair
<1>3. ~UnlockPending(c, r) /\ ~Torn(c, r) /\ BufferAt(c, r) /\ WonAt(c, r)
    BY <1>t, <1>2, OnePair DEF BufferInv, OwnerInv, OwnerAt
<1>4. r \notin payWon[c]
    BY <1>1, <1>3 DEF WonAt, WillUnlock, ToPost
<1> QED
    BY <1>1, <1>3, <1>4 DEF BufferAt

LEMMA PaySubmitAnnounces ==
    ASSUME SharedQueuePair, MixInv, NEW c \in Clients, PaySubmitResult(c)
    PROVE  MixLedger!Announce(c)
<1>t. /\ PayInv /\ PayTypeOK /\ QueueInv /\ PayVectorInv /\ PayAct(c)
      /\ lastCommittedVector[c] \in Nat /\ cts[c] \in Nat
    BY DEF MixInv, BalanceInv, PayInv, PayAct, PayStep, PayTypeOK, TypeOK
<1>1. /\ ActsAlone(c) /\ RowsKept
      /\ payPc[c] = "submit" /\ payPc'[c] = "idle" /\ cts' = cts
    BY <1>t, PaySubmitResultEffect
<1>2. /\ StockTotals' = StockTotals /\ CommittedOrders' = CommittedOrders
    BY <1>t, PaySpares, SparedOrders
<1>3. /\ PayInFlight(c) /\ ~PayInFlight(c)' /\ ~InFlight(c)
      /\ \A d \in Clients \ {c} : PayInFlight(d)' <=> PayInFlight(d)
    BY <1>1, OneAtATime DEF ActsAlone, SamePayment, PayInFlight
<1>4. localVector[c][c] = cts[c] /\ cts[c] # 0
    BY <1>t, <1>1 DEF PayVectorInv, Paying
<1>5. CommittedTransactions[c].ts = cts[c]
    <2> DEFINE rs == [r \in Refs |-> Received(c, r)]
    <2>1. CommittedTransactions[c] = [ts |-> cts[c], rows |-> Refs, received |-> rs]
        BY <1>3, CommittedParts
    <2> HIDE DEF rs
    <2> QED
        BY <2>1
<1>6. CommittedTransactions[c] # MixLedger!Nothing
    BY <1>4, <1>5 DEF MixLedger!Nothing
<1>7. lastCommittedVector' = [lastCommittedVector EXCEPT ![c] = CommittedTransactions[c].ts]
    BY <1>4, <1>5 DEF PaySubmitResult, Submitting
<1>8. CommittedTransactions' = [CommittedTransactions EXCEPT ![c] = MixLedger!Nothing]
    <2>1. CommittedTransactions'[c] = MixLedger!Nothing
        BY <1>2, <1>3, CommittedParts DEF CommittedOrders, MixLedger!Nothing
    <2>2. ASSUME NEW d \in Clients \ {c} PROVE CommittedTransactions'[d] = CommittedTransactions[d]
        <3>1. cts'[d] = cts[d] /\ \A r \in Refs : Received(d, r)' = Received(d, r)
            BY <1>1, <2>2 DEF ActsAlone, SamePayment, SameClient, Received
        <3> QED
            BY <1>2, <1>3, <3>1, CommittedStays
    <2> HIDE DEF MixLedger!Nothing
    <2> QED
        BY <2>1, <2>2 DEF CommittedTransactions
<1>9. ASSUME NEW r \in Refs PROVE RowTotals'[r] = RowTotals[r]
    <2>1. cts[c] \in headVersions[r].ytd
        BY SubmittedIsInstalled
    <2>2. OpenPayments' \subseteq OpenPayments
        BY <1>1, <1>3 DEF OpenPayments
    <2>3. OpenPayments \subseteq OpenPayments' \cup {cts[c]}
        BY <1>1, <1>3 DEF OpenPayments
    <2>4. RowTotals[r] = headVersions[r].ytd \cup OpenPayments /\ RowTotals'[r] = headVersions[r].ytd \cup OpenPayments'
        BY <1>1, TotalsParts DEF RowsKept
    <2> QED
        BY <2>1, <2>2, <2>3, <2>4
<1>10. RowTotals' = RowTotals
    BY <1>2, <1>9, TotalsAgree
<1> QED
    BY <1>6, <1>7, <1>8, <1>10 DEF MixLedger!Announce

-----------------------------------------------------------------------------
\* A step of New-Order shows the ledger no more than a step of New-Order's own.
LEMMA OrderShows ==
    ASSUME MixInv, OrderFrame
    PROVE  /\ \A r \in Refs : RowTotals'[r] = RowTotals[r]
           /\ \A d \in Clients :
                 IF PayInFlight(d) THEN CommittedTransactions'[d] = CommittedTransactions[d]
                 ELSE /\ CommittedTransactions[d] = CommittedOrders[d]
                      /\ CommittedTransactions'[d] = CommittedOrders'[d]
<1>1. /\ \A d \in Clients : PayInFlight(d)' <=> PayInFlight(d)
      /\ \A d \in Clients : PayInFlight(d) => cts'[d] = cts[d]
      /\ payHeads' = payHeads /\ RowsKept
    BY DEF OrderFrame, payVars, bufferVars, PayInFlight, SameClient
<1>2. OpenPayments' = OpenPayments
    BY <1>1, OpenStays
<1>3. ASSUME NEW r \in Refs PROVE RowTotals'[r] = RowTotals[r]
    BY <1>1, <1>2, TotalsParts DEF RowsKept
<1>4. ASSUME NEW d \in Clients, PayInFlight(d) PROVE CommittedTransactions'[d] = CommittedTransactions[d]
    <2>1. PayInFlight(d)' /\ cts'[d] = cts[d]
        BY <1>1, <1>4
    <2>2. [r \in Refs |-> Received(d, r)'] = [r \in Refs |-> Received(d, r)]
        BY <1>1, <2>1 DEF Received
    <2> QED
        BY <1>4, <2>1, <2>2, CommittedParts
<1>5. ASSUME NEW d \in Clients, ~PayInFlight(d)
      PROVE  /\ CommittedTransactions[d] = CommittedOrders[d]
             /\ CommittedTransactions'[d] = CommittedOrders'[d]
    BY <1>1, <1>5, CommittedParts
<1> QED
    BY <1>3, <1>4, <1>5

LEMMA OrderKeptIsSame ==
    ASSUME MixInv, OrderFrame, LedgerSame
    PROVE  MixSame
<1>1. RowTotals' = RowTotals
    BY OrderShows, TotalsAgree DEF LedgerSame
<1>2. ASSUME NEW d \in Clients PROVE CommittedTransactions'[d] = CommittedTransactions[d]
    BY OrderShows DEF LedgerSame
<1>3. CommittedTransactions' = CommittedTransactions
    BY <1>2 DEF CommittedTransactions
<1> QED
    BY <1>1, <1>3 DEF MixSame, LedgerSame

LEMMA OrderCommits ==
    ASSUME MixInv, OrderFrame, NEW c \in Clients, LocksAcquired(c)
    PROVE  MixLedger!Commit(c, items[c], cts[c])
<1>t. LedgerInv /\ items[c] \subseteq Stocks /\ pc[c] = "lock"
    BY Phased DEF MixInv, LedgerInv, LocksAcquired
<1>0. /\ CommittedOrders[c] = Ledger!Nothing
      /\ lastCommittedVector[c] < cts[c] /\ lastCommittedVector' = lastCommittedVector
      /\ CommittedOrders' =
           [CommittedOrders EXCEPT ![c] =
               [ts |-> cts[c], rows |-> items[c], received |-> [s \in items[c] |-> StockTotals[s]]]]
      /\ \A d \in Clients : CommittedOrders[d].rows \cap items[c] = {}
      /\ StockTotals' =
           [s \in Stocks |-> IF s \in items[c] THEN StockTotals[s] \cup {cts[c]} ELSE StockTotals[s]]
    BY <1>t, AcquiredCommits DEF Ledger!Commit
<1>1. ~PayInFlight(c) /\ ~InFlight(c) /\ Busy(c)
    BY <1>t, OneAtATime DEF PayInFlight, InFlight, Busy
<1>2. CommittedTransactions[c] = MixLedger!Nothing
    BY <1>0, <1>1, CommittedParts DEF Ledger!Nothing, MixLedger!Nothing
<1>3. \A r \in Records : cts[c] \notin RowTotals[r]
    BY <1>1, NotCounted
<1>4. ASSUME NEW d \in Clients PROVE CommittedTransactions[d].rows \cap items[c] = {}
    <2>1. CASE PayInFlight(d)
        BY <1>t, <2>1, CommittedRows, RecordsAssumption
    <2>2. CASE ~PayInFlight(d)
        BY <1>0, <2>2, OrderShows
    <2> QED
        BY <2>1, <2>2
<1>5. RowTotals' = [r \in Records |-> IF r \in items[c] THEN RowTotals[r] \cup {cts[c]} ELSE RowTotals[r]]
    <2>1. ASSUME NEW r \in Records
          PROVE  RowTotals'[r] = IF r \in items[c] THEN RowTotals[r] \cup {cts[c]} ELSE RowTotals[r]
        <3>1. CASE r \in Stocks
            BY <1>0, <3>1, TotalsParts
        <3>2. CASE r \in Refs
            BY <1>t, <3>2, OrderShows, RecordsAssumption
        <3> QED
            BY <3>1, <3>2 DEF Records
    <2> QED
        BY <2>1 DEF RowTotals
<1>6. CommittedTransactions' =
        [CommittedTransactions EXCEPT ![c] =
            [ts |-> cts[c], rows |-> items[c], received |-> [r \in items[c] |-> RowTotals[r]]]]
    <2> DEFINE new == [ts |-> cts[c], rows |-> items[c], received |-> [r \in items[c] |-> RowTotals[r]]]
    <2>1. [s \in items[c] |-> StockTotals[s]] = [r \in items[c] |-> RowTotals[r]]
        BY <1>t, TotalsParts
    <2>2. CommittedOrders' = [CommittedOrders EXCEPT ![c] = new]
        BY <1>0, <2>1
    <2> HIDE DEF new
    <2>3. CommittedOrders'[c] = new /\ \A d \in Clients \ {c} : CommittedOrders'[d] = CommittedOrders[d]
        BY <2>2 DEF CommittedOrders
    <2>4. CommittedTransactions'[c] = new
        BY <1>1, <2>3, OrderShows
    <2>5. ASSUME NEW d \in Clients \ {c} PROVE CommittedTransactions'[d] = CommittedTransactions[d]
        BY <2>3, OrderShows
    <2>6. CommittedTransactions' = [CommittedTransactions EXCEPT ![c] = new]
        BY <2>4, <2>5 DEF CommittedTransactions
    <2> QED
        BY <2>6 DEF new
<1> QED
    BY <1>0, <1>2, <1>3, <1>4, <1>5, <1>6 DEF MixLedger!Commit

LEMMA OrderAnnounces ==
    ASSUME MixInv, OrderFrame, NEW c \in Clients, SubmitResult(c)
    PROVE  MixLedger!Announce(c)
<1>t. LedgerInv /\ pc[c] = "submit"
    BY DEF MixInv, SubmitResult
<1>0. /\ CommittedOrders[c] # Ledger!Nothing
      /\ lastCommittedVector' = [lastCommittedVector EXCEPT ![c] = CommittedOrders[c].ts]
      /\ CommittedOrders' = [CommittedOrders EXCEPT ![c] = Ledger!Nothing]
      /\ StockTotals' = StockTotals
    BY <1>t, SubmitAnnounces DEF Ledger!Announce
<1>1. ~PayInFlight(c)
    BY <1>t, OneAtATime DEF PayInFlight
<1>2. /\ CommittedTransactions[c] = CommittedOrders[c]
      /\ CommittedTransactions[c] # MixLedger!Nothing
    BY <1>0, <1>1, OrderShows DEF Ledger!Nothing, MixLedger!Nothing
<1>3. RowTotals' = RowTotals
    BY <1>0, OrderShows, TotalsAgree
<1>4. CommittedTransactions' = [CommittedTransactions EXCEPT ![c] = MixLedger!Nothing]
    <2>1. CommittedOrders'[c] = Ledger!Nothing /\ \A d \in Clients \ {c} : CommittedOrders'[d] = CommittedOrders[d]
        BY <1>0 DEF CommittedOrders
    <2>2. CommittedTransactions'[c] = MixLedger!Nothing
        BY <1>1, <2>1, OrderShows DEF Ledger!Nothing, MixLedger!Nothing
    <2>3. ASSUME NEW d \in Clients \ {c} PROVE CommittedTransactions'[d] = CommittedTransactions[d]
        BY <2>1, OrderShows
    <2> QED
        BY <2>2, <2>3 DEF CommittedTransactions
<1> QED
    BY <1>0, <1>2, <1>3, <1>4 DEF MixLedger!Announce

LEMMA MixLedgerStep ==
    ASSUME SharedQueuePair, MixInv, PayInv', [PayNext]_mixVars
    PROVE  [MixLedger!LedgerNext]_(MixLedger!ledgerVars)
<1> SUFFICES MixLedger!LedgerNext \/ MixSame
    BY DEF MixSame, MixLedger!ledgerVars
<1>t. PayInv /\ PayTypeOK /\ VectorInv /\ LedgerInv /\ TypeOK
    BY Phased DEF MixInv, BalanceInv, PayInv, PayTypeOK
<1>c. \A c \in Clients : cts[c] \in 0 .. TimestampRange - 1
    BY <1>t DEF LedgerInv, CartInv
<1>1. CASE OrderPart
    <2>1. OrderFrame /\ [Next]_vars
        BY <1>t, <1>1, OrderFramed
    <2>2. CASE LedgerKept
        BY <2>1, <2>2, KeptIsSame, OrderKeptIsSame
    <2>3. ASSUME NEW c \in Clients, NEW s \in Stocks, UpdateStock(c, s) PROVE MixSame
        BY <1>t, <2>1, <2>3, InstallIsSame, OrderKeptIsSame
    <2>4. ASSUME NEW c \in Clients, SubmitResult(c) PROVE MixLedger!LedgerNext
        BY <2>1, <2>4, OrderAnnounces DEF MixLedger!LedgerNext
    <2>5. ASSUME NEW c \in Clients, LocksAcquired(c) PROVE MixLedger!LedgerNext
        <3>1. items[c] \in (SUBSET Stocks) \ {{}}
            BY <1>t, <2>5, Phased DEF LedgerInv, CartInv, LocksAcquired
        <3>2. MixLedger!Commit(c, items[c], cts[c])
            BY <2>1, <2>5, OrderCommits
        <3> QED
            BY <1>c, <3>1, <3>2 DEF MixLedger!LedgerNext
    <2> QED
        BY <1>t, <2>1, <2>2, <2>3, <2>4, <2>5, KeptSteps
<1>2. ASSUME NEW c \in Clients, PayAct(c) PROVE MixLedger!LedgerNext \/ MixSame
    <2>1. CASE PayLedgerKept
        BY <1>2, <2>1, PayKeptIsSame
    <2>2. CASE PayLocksAcquired(c)
        <3>1. MixLedger!Commit(c, Refs, cts[c])
            BY <2>2, PayAcquiredCommits
        <3> QED
            BY <1>c, <3>1 DEF MixLedger!LedgerNext
    <2>3. CASE PaySubmitResult(c)
        BY <2>3, PaySubmitAnnounces DEF MixLedger!LedgerNext
    <2> QED
        BY <1>t, <1>2, <2>1, <2>2, <2>3, PayKeptSteps
<1> QED
    BY <1>1, <1>2, PayNextParts

\* With one queue pair, New-Order and Payment together implement the ledger of
\* all rows: a payment's compare-and-swaps and its unsignaled writes are one
\* atomic update of warehouse, district and customer, an order's one of its
\* stocks, from what the rows held just before, and nobody builds on either
\* before its client announces it.
THEOREM TransactionsAreAtomic ==
    ASSUME SharedQueuePair
    PROVE  PaySpec => ImplementsTransactionLedger
<1>1. PayInit => MixLedger!LedgerInit
    <2> SUFFICES ASSUME PayInit PROVE MixLedger!LedgerInit
        OBVIOUS
    <2>1. \A c \in Clients : ~InFlight(c) /\ ~PayInFlight(c)
        BY DEF PayInit, Init, InFlight, PayInFlight
    <2>2. StockTotals = [s \in Stocks |-> {}] /\ \A r \in Records : headVersions[r].ytd = {}
        BY <2>1, RecordsParts DEF PayInit, Init, StockTotals, InitialVersion
    <2>3. OpenPayments = {}
        BY <2>1 DEF OpenPayments
    <2>4. ASSUME NEW r \in Records PROVE RowTotals[r] = {}
        BY <2>2, <2>3, TotalsParts DEF Records
    <2>5. RowTotals = [r \in Records |-> {}]
        BY <2>4 DEF RowTotals
    <2>6. CommittedTransactions = [c \in Clients |-> MixLedger!Nothing]
        BY <2>1 DEF CommittedTransactions, CommittedOrders, MixLedger!Nothing
    <2> QED
        BY <2>5, <2>6 DEF PayInit, Init, MixLedger!LedgerInit
<1>2. MixInv /\ [PayNext]_mixVars => MixInv' /\ [MixLedger!LedgerNext]_(MixLedger!ledgerVars)
    <2> SUFFICES ASSUME MixInv, [PayNext]_mixVars
                 PROVE  MixInv' /\ [MixLedger!LedgerNext]_(MixLedger!ledgerVars)
        OBVIOUS
    <2>1. MixInv'
        BY MixStep
    <2>2. PayInv'
        BY <2>1 DEF MixInv, BalanceInv
    <2> QED
        BY <2>1, <2>2, MixLedgerStep
<1>3. PayInit => MixInv
    BY MixInit
<1> QED
    BY <1>1, <1>2, <1>3, PTL DEF PaySpec, ImplementsTransactionLedger, MixLedger!LedgerSpec

-----------------------------------------------------------------------------
\* The ledger's transactions are on rows of the ledger, and exclusive there.
ExclusiveInv ==
    /\ MixLedger!PendingIsExclusive
    /\ \A c \in Clients : CommittedTransactions[c].rows \subseteq Records

LEMMA ExclusiveInit == MixLedger!LedgerInit => ExclusiveInv
    BY DEF MixLedger!LedgerInit, MixLedger!Nothing, ExclusiveInv, MixLedger!PendingIsExclusive

LEMMA ExclusiveStep ==
    ASSUME ExclusiveInv, [MixLedger!LedgerNext]_(MixLedger!ledgerVars)
    PROVE  ExclusiveInv'
<1>d. DOMAIN CommittedTransactions = Clients
    BY DEF CommittedTransactions
<1>1. ASSUME NEW c \in Clients, NEW R \in {Refs} \cup ((SUBSET Stocks) \ {{}}), NEW t,
             MixLedger!Commit(c, R, t)
      PROVE  ExclusiveInv'
    <2> DEFINE received == [r \in R |-> RowTotals[r]]
               new == [ts |-> t, rows |-> R, received |-> received]
    <2>0. R \subseteq Records
        BY RecordsParts, PayRows
    <2>1. /\ CommittedTransactions' = [CommittedTransactions EXCEPT ![c] = new]
          /\ \A d \in Clients : CommittedTransactions[d].rows \cap R = {}
          /\ RowTotals' = [r \in Records |-> IF r \in R THEN RowTotals[r] \cup {t} ELSE RowTotals[r]]
        BY <1>1 DEF MixLedger!Commit
    <2>2. new.ts = t /\ new.rows = R /\ \A r \in R : new.received[r] = RowTotals[r]
        OBVIOUS
    <2> HIDE DEF new
    <2>3. CommittedTransactions'[c] = new /\ \A d \in Clients \ {c} : CommittedTransactions'[d] = CommittedTransactions[d]
        BY <1>d, <2>1
    <2>4. \A r \in R : RowTotals'[r] = RowTotals[r] \cup {t}
        BY <2>0, <2>1
    <2>5. ASSUME NEW d \in Clients \ {c}, NEW r \in CommittedTransactions[d].rows
          PROVE  RowTotals'[r] = RowTotals[r]
        BY <2>1 DEF ExclusiveInv
    <2>6. \A d \in Clients : \A r \in CommittedTransactions'[d].rows :
             RowTotals'[r] = CommittedTransactions'[d].received[r] \cup {CommittedTransactions'[d].ts}
        BY <2>2, <2>3, <2>4, <2>5 DEF ExclusiveInv, MixLedger!PendingIsExclusive
    <2>7. \A d \in Clients : \A e \in Clients \ {d} :
             CommittedTransactions'[d].rows \cap CommittedTransactions'[e].rows = {}
        BY <2>1, <2>2, <2>3 DEF ExclusiveInv, MixLedger!PendingIsExclusive
    <2>8. \A d \in Clients : CommittedTransactions'[d].rows \subseteq Records
        BY <2>0, <2>2, <2>3 DEF ExclusiveInv
    <2> QED
        BY <2>6, <2>7, <2>8 DEF ExclusiveInv, MixLedger!PendingIsExclusive
<1>2. ASSUME NEW c \in Clients, MixLedger!Announce(c) PROVE ExclusiveInv'
    <2>1. /\ CommittedTransactions' = [CommittedTransactions EXCEPT ![c] = MixLedger!Nothing]
          /\ RowTotals' = RowTotals
        BY <1>2 DEF MixLedger!Announce
    <2>2. MixLedger!Nothing.rows = {}
        BY DEF MixLedger!Nothing
    <2>3. /\ CommittedTransactions'[c].rows = {}
          /\ \A d \in Clients \ {c} : CommittedTransactions'[d] = CommittedTransactions[d]
        BY <1>d, <2>1, <2>2
    <2> QED
        BY <2>1, <2>3 DEF ExclusiveInv, MixLedger!PendingIsExclusive
<1>3. CASE UNCHANGED MixLedger!ledgerVars
    BY <1>3 DEF MixLedger!ledgerVars, ExclusiveInv, MixLedger!PendingIsExclusive
<1> QED
    BY <1>1, <1>2, <1>3 DEF MixLedger!LedgerNext

\* With one queue pair, between its last lock and its announcement a payment
\* or an order is alone on its rows, and they hold what it read and itself:
\* updates are never lost, nor built on, although no client waits for another.
THEOREM FirstCommitterWins ==
    ASSUME SharedQueuePair
    PROVE  PaySpec => []UnannouncedIsExclusive
<1>1. ExclusiveInv => UnannouncedIsExclusive
    BY DEF ExclusiveInv, UnannouncedIsExclusive
<1>2. ExclusiveInv /\ [MixLedger!LedgerNext]_(MixLedger!ledgerVars) => ExclusiveInv'
    BY ExclusiveStep
<1> QED
    BY <1>1, <1>2, ExclusiveInit, TransactionsAreAtomic, PTL
    DEF ImplementsTransactionLedger, MixLedger!LedgerSpec
=============================================================================
