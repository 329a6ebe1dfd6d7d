------------------------ MODULE NewOrderSnapshot_proofs ------------------------
(***************************************************************************)
(* Proof that the reads of a committing New-Order are atomic and complete, *)
(* for any number of clients, stocks and transactions: it has seen each    *)
(* other order on all the stocks they share or on none, and all that its   *)
(* snapshot announced, although the vector is copied entry by entry and    *)
(* every head is read on its own.                                          *)
(*                                                                         *)
(* The argument.  The totals of a stock hold an unannounced order only as  *)
(* long as that order's word is on top (TopInv), and such a word passes no *)
(* other client's check.  So what a client has locked holds announced      *)
(* orders only (UnseenInv), and those are in all their stocks.  When all   *)
(* locks are had the heads are what was read, so an order that is          *)
(* installed was read on all of them and one that is not was on none.      *)
(*                                                                         *)
(* From this it follows that New-Order implements TransactionLedger.       *)
(***************************************************************************)
EXTENDS NewOrderRows_proofs

\* A client that has drawn a commit timestamp it did not announce.
Busy(c) == pc[c] \in {"lock", "revert", "install", "submit"}

DrawnInv ==
    /\ \A s \in Stocks : \A t \in headVersions[s].ytd : WasDrawn(t)
    /\ \A c \in Clients, s \in Stocks : \A t \in heads[c][s].ytd : WasDrawn(t)
    /\ \A c \in Clients : Busy(c) => \E k \in Nat : k < nextEpoch[c] /\ cts[c] = Drawn(k, c)

\* An unannounced order is in the totals of a stock only under its own word.
OnTop(d, s) ==
    /\ pc[d] \in {"install", "submit"}
    /\ s \in items[d]
    /\ stage[d][s] = 4
    /\ ~headVersions[s].ts.locked
    /\ headVersions[s].ts.clientID = d
    /\ headVersions[s].ts.timestamp = cts[d]

TopInv ==
    \A d \in Clients, s \in Stocks :
        (Busy(d) /\ cts[d] \in headVersions[s].ytd) => OnTop(d, s)

\* What a client has locked, or goes on to install, holds no other client's
\* unannounced order.
Taken(c, s) == s \in won[c] \/ (pc[c] = "install" /\ s \in items[c])

UnseenInv ==
    \A c \in Clients, s \in Stocks :
        Taken(c, s) =>
            \A d \in Clients \ {c} : Busy(d) => cts[d] \notin heads[c][s].ytd

\* A client that has read s has read what its snapshot announced.
HasRead(c, s) ==
    /\ s \in items[c]
    /\ \/ pc[c] = "execute" /\ stage[c][s] >= 2
       \/ pc[c] \in {"recheck", "lock", "revert", "install"}

SeesAnnounced(c, d, row) ==
    (~row.ts.deleted /\ row.ts.timestamp <= localVector[c][d]) =>
        \A s \in row.items : HasRead(c, s) => row.ts.timestamp \in heads[c][s].ytd

AnnouncedInv ==
    \A c \in Clients : \A d \in Clients \ {c} : \A i \in Slots : SeesAnnounced(c, d, orderTable[d][i])

\* A committing client has read an order on all its stocks or on none.
AllOrNone(c, row) ==
    \/ \A s \in row.items \cap items[c] : row.ts.timestamp \in heads[c][s].ytd
    \/ \A s \in row.items \cap items[c] : row.ts.timestamp \notin heads[c][s].ytd

AtomicInv ==
    \A c \in Clients :
        pc[c] = "install" =>
            \A d \in Clients \ {c} : \A i \in Slots : AllOrNone(c, orderTable[d][i])

\* A slot that was never written names no stocks.
EmptyInv ==
    \A c \in Clients, i \in Slots : orderTable[c][i].ts.deleted => orderTable[c][i].items = {}

SnapshotInv ==
    /\ RowsInv
    /\ DrawnInv
    /\ TopInv
    /\ UnseenInv
    /\ AnnouncedInv
    /\ AtomicInv
    /\ EmptyInv

-----------------------------------------------------------------------------
\* Two busy clients have different commit timestamps.
LEMMA BusyDiffer ==
    ASSUME DrawnInv, NEW c \in Clients, NEW d \in Clients, c # d, Busy(c), Busy(d)
    PROVE  cts[c] # cts[d]
<1>1. PICK k \in Nat : cts[c] = Drawn(k, c)
    BY DEF DrawnInv
<1>2. PICK n \in Nat : cts[d] = Drawn(n, d)
    BY DEF DrawnInv
<1> QED
    BY <1>1, <1>2, DrawnDiffer

LEMMA SnapshotInit == Init => SnapshotInv
<1> SUFFICES ASSUME Init PROVE SnapshotInv
    OBVIOUS
<1>1. RowsInv
    BY RowsInit
<1>2. DrawnInv /\ TopInv
    BY RecordsParts DEF Init, DrawnInv, TopInv, Busy, InitialVersion, EmptyVersion
<1>3. UnseenInv /\ AtomicInv
    BY DEF Init, UnseenInv, AtomicInv, Taken
<1>4. AnnouncedInv /\ EmptyInv
    BY DEF Init, AnnouncedInv, SeesAnnounced, EmptyInv, EmptyRow, EmptyTimestamp, Timestamp
<1> QED
    BY <1>1, <1>2, <1>3, <1>4 DEF SnapshotInv

-----------------------------------------------------------------------------
\* Steps that read no row, draw nothing, lock nothing and write no row: words
\* are only replaced where the stock was locked.
Calm ==
    /\ UNCHANGED <<orderTable, nextEpoch>>
    /\ \A s \in Stocks :
          /\ headVersions'[s].ytd = headVersions[s].ytd
          /\ headVersions'[s].ts = headVersions[s].ts \/ headVersions[s].ts.locked
          /\ \A c \in Clients : heads'[c][s].ytd = heads[c][s].ytd
    /\ \A d \in Clients :
          /\ Busy(d)' =>
                /\ Busy(d) /\ cts'[d] = cts[d] /\ items'[d] = items[d]
                /\ pc[d] \in {"install", "submit"} => pc'[d] \in {"install", "submit"}
                /\ \A s \in Stocks : stage[d][s] = 4 => stage'[d][s] = 4
          /\ pc'[d] = "install" => pc[d] = "install"
          /\ \A s \in Stocks : HasRead(d, s)' => HasRead(d, s) /\ localVector'[d] = localVector[d]
          /\ won'[d] \subseteq won[d] /\ (won'[d] = {} \/ Busy(d)')

LEMMA CalmStep ==
    ASSUME SnapshotInv, Calm, RowsInv'
    PROVE  SnapshotInv'
<1>1. TypeOK /\ TypeOK'
    BY DEF SnapshotInv, RowsInv, IInv, TypeInv
<1>2. DrawnInv'
    BY DEF SnapshotInv, DrawnInv, Calm, WasDrawn
<1>3. TopInv'
    BY DEF SnapshotInv, TopInv, OnTop, Calm
<1>4. UnseenInv'
    <2> SUFFICES ASSUME NEW c \in Clients, NEW s \in Stocks, Taken(c, s)',
                        NEW d \in Clients \ {c}, Busy(d)'
                 PROVE  cts'[d] \notin heads'[c][s].ytd
        BY DEF UnseenInv
    <2>1. Taken(c, s)
        BY DEF Taken, Calm, Busy
    <2> QED
        BY <2>1 DEF SnapshotInv, UnseenInv, Calm
<1>5. AnnouncedInv'
    <2> SUFFICES ASSUME NEW c \in Clients, NEW d \in Clients \ {c}, NEW i \in Slots,
                        NEW s \in orderTable[d][i].items, HasRead(c, s)',
                        ~orderTable[d][i].ts.deleted, orderTable[d][i].ts.timestamp <= localVector'[c][d]
                 PROVE  orderTable[d][i].ts.timestamp \in heads'[c][s].ytd
        BY DEF AnnouncedInv, SeesAnnounced, Calm
    <2>1. s \in Stocks
        BY <1>1, RowItems
    <2>2. HasRead(c, s) /\ localVector'[c] = localVector[c] /\ heads'[c][s].ytd = heads[c][s].ytd
        BY <2>1 DEF Calm
    <2> QED
        BY <2>2 DEF SnapshotInv, AnnouncedInv, SeesAnnounced
<1>6. AtomicInv'
    <2> SUFFICES ASSUME NEW c \in Clients, pc'[c] = "install", NEW d \in Clients \ {c}, NEW i \in Slots
                 PROVE  AllOrNone(c, orderTable[d][i])'
        BY DEF AtomicInv
    <2>1. pc[c] = "install" /\ items'[c] = items[c] /\ items[c] \subseteq Stocks
        BY <1>1, RowItems DEF Calm, Busy
    <2> QED
        BY <2>1 DEF SnapshotInv, AtomicInv, AllOrNone, Calm
<1>7. EmptyInv'
    BY DEF SnapshotInv, EmptyInv, Calm
<1> QED
    BY <1>2, <1>3, <1>4, <1>5, <1>6, <1>7 DEF SnapshotInv

\* The phases in which a client may hold locks, and the stages its phase starts with.
LEMMA Phased ==
    ASSUME SnapshotInv
    PROVE  /\ TypeOK /\ \A c \in Clients : items[c] \subseteq Stocks
           /\ \A c \in Clients : won[c] \subseteq Stocks
           /\ \A c \in Clients : won[c] = {} \/ pc[c] \in {"lock", "revert", "install"}
           /\ \A c \in Clients, s \in Stocks : pc[c] = "snapshot" => stage[c][s] = 0
BY RowItems DEF SnapshotInv, RowsInv, IInv, TypeInv, LockInv, LockedAt, CheckedInv, CheckedAt, TypeOK

\* The steps that change no head and no buffer of a head.
LEMMA QuietSteps ==
    ASSUME SnapshotInv
    PROVE  /\ \A e \in Clients : ReaderRefresh(e) => Calm
           /\ \A c \in Clients :
                 /\ Start(c) => Calm
                 /\ \A e \in Clients : getReadTimestamp(c, e) => Calm
                 /\ \A r \in Records : RetrievePointerList(c, r) => Calm
                 /\ CheckVersionsAbort(c) => Calm
                 /\ CheckVersions(c) => Calm
                 /\ \A r \in Refs : RecheckAbort(c, r) => Calm
                 /\ LocksRefused(c) => Calm
                 /\ LockAbort(c) => Calm
                 /\ RetrieveAndIncrementDistrictNextOID(c) => Calm
                 /\ RegisterOrder(c) => Calm
                 /\ SubmitResult(c) => Calm
<1> USE Phased, RecordsParts
    DEF serverVars, orderVars, oracleVars, trxVars, rowVars, Busy, HasRead
<1>1. ASSUME NEW c \in Clients, Start(c) PROVE Calm
    BY <1>1 DEF TypeOK, Calm, Start
<1>2. ASSUME NEW c \in Clients, NEW e \in Clients, getReadTimestamp(c, e) PROVE Calm
    BY <1>2 DEF TypeOK, Calm, getReadTimestamp
<1>3. ASSUME NEW c \in Clients, NEW r \in Records, RetrievePointerList(c, r) PROVE Calm
    BY <1>3 DEF TypeOK, Calm, RetrievePointerList
<1>4. ASSUME NEW c \in Clients, CheckVersionsAbort(c) PROVE Calm
    BY <1>4 DEF TypeOK, Calm, CheckVersionsAbort
<1>5. ASSUME NEW c \in Clients, CheckVersions(c) PROVE Calm
    BY <1>5 DEF TypeOK, Calm, CheckVersions, Reached, ReadSet
<1>6. ASSUME NEW c \in Clients, NEW r \in Refs, RecheckAbort(c, r) PROVE Calm
    BY <1>6 DEF TypeOK, Calm, RecheckAbort
<1>7. ASSUME NEW c \in Clients, LocksRefused(c) PROVE Calm
    BY <1>7 DEF TypeOK, Calm, LocksRefused
<1>8. ASSUME NEW c \in Clients, LockAbort(c) PROVE Calm
    BY <1>8 DEF TypeOK, Calm, LockAbort
<1>9. ASSUME NEW c \in Clients, RetrieveAndIncrementDistrictNextOID(c) PROVE Calm
    BY <1>9 DEF TypeOK, Calm, RetrieveAndIncrementDistrictNextOID
<1>10. ASSUME NEW c \in Clients, RegisterOrder(c) PROVE Calm
    BY <1>10 DEF TypeOK, Calm, RegisterOrder
<1>11. ASSUME NEW c \in Clients, SubmitResult(c) PROVE Calm
    BY <1>11 DEF TypeOK, Calm, SubmitResult
<1>12. ASSUME NEW e \in Clients, ReaderRefresh(e) PROVE Calm
    BY <1>12 DEF TypeOK, Calm, ReaderRefresh
<1> QED
    BY <1>1, <1>2, <1>3, <1>4, <1>5, <1>6, <1>7, <1>8, <1>9, <1>10, <1>11, <1>12

\* Reading a word, or a row of Refs again, changes no row of a stock that was
\* read; words are replaced by the holder of the lock.
LEMMA WordSteps ==
    ASSUME SnapshotInv, NEW c \in Clients
    PROVE  /\ \A r \in Records : RetrieveTimestamp(c, r) => Calm
           /\ \A r \in Refs : RetrieveOlderVersion(c, r) => Calm
           /\ \A s \in Stocks :
                 /\ RevertStockLock(c, s) => Calm
                 /\ UpdateStockPointers(c, s) => Calm
                 /\ UpdateStockOlderVersions(c, s) => Calm
                 /\ UpdateStockTimestamp(c, s) => Calm
<1> USE Phased DEF Busy, HasRead
<1>1. ASSUME NEW r \in Records, RetrieveTimestamp(c, r) PROVE Calm
    <2>1. UNCHANGED <<orderTable, nextEpoch>>
        BY <1>1 DEF RetrieveTimestamp, orderVars, trxVars
    <2> QED
        BY <1>1, <2>1, RetrieveTimestampEffect DEF Calm
<1>2. ASSUME NEW r \in Refs, RetrieveOlderVersion(c, r) PROVE Calm
    <2>1. UNCHANGED <<orderTable, nextEpoch>>
        BY <1>2 DEF RetrieveOlderVersion, orderVars, trxVars
    <2> QED
        BY <1>2, <2>1, RetrieveOlderVersionEffect DEF Calm
<1>3. ASSUME NEW s \in Stocks, RevertStockLock(c, s) PROVE Calm
    <2>1. UNCHANGED <<orderTable, nextEpoch>>
        BY <1>3 DEF RevertStockLock, orderVars, trxVars
    <2>2. headVersions[s].ts.locked
        BY <1>3, RevertStockLockEffect, WordsWritten DEF SnapshotInv, RowsInv, IInv, LockInv, LockedAt
    <2> QED
        BY <1>3, <2>1, <2>2, RevertStockLockEffect DEF Calm
<1>4. ASSUME NEW s \in Stocks, UpdateStockPointers(c, s) PROVE Calm
    <2>1. UNCHANGED <<orderTable, nextEpoch>>
        BY <1>4 DEF UpdateStockPointers, orderVars, trxVars
    <2> QED
        BY <1>4, <2>1, UpdateStockPointersEffect DEF Calm
<1>5. ASSUME NEW s \in Stocks, UpdateStockOlderVersions(c, s) PROVE Calm
    <2>1. UNCHANGED <<orderTable, nextEpoch>>
        BY <1>5 DEF UpdateStockOlderVersions, orderVars, trxVars
    <2> QED
        BY <1>5, <2>1, UpdateStockOlderVersionsEffect DEF Calm
<1>6. ASSUME NEW s \in Stocks, UpdateStockTimestamp(c, s) PROVE Calm
    <2>1. UNCHANGED <<orderTable, nextEpoch>>
        BY <1>6 DEF UpdateStockTimestamp, orderVars, trxVars
    <2>2. headVersions[s].ts.locked
        BY <1>6, UpdateStockTimestampEffect, WordsWritten DEF SnapshotInv, RowsInv, IInv, LockInv, LockedAt
    <2> QED
        BY <1>6, <2>1, <2>2, UpdateStockTimestampEffect DEF Calm
<1> QED
    BY <1>1, <1>2, <1>3, <1>4, <1>5, <1>6

-----------------------------------------------------------------------------
\* An order that a snapshot announced is in the totals of its stocks.
LEMMA AnnouncedThere ==
    ASSUME SnapshotInv, NEW c \in Clients, NEW d \in Clients \ {c}, NEW i \in Slots,
           ~orderTable[d][i].ts.deleted, orderTable[d][i].ts.timestamp <= localVector[c][d]
    PROVE  Installed(orderTable[d][i])
<1>1. localVector[c][d] \in Nat /\ lastCommittedVector[d] \in Nat /\ cts[d] \in Nat
    BY Phased DEF TypeOK
<1>2. localVector[c][d] <= lastCommittedVector[d]
    BY DEF SnapshotInv, RowsInv, IInv, VectorInv
<1>3. ~Running(d, orderTable[d][i])
    BY <1>1, <1>2 DEF SnapshotInv, RowsInv, IInv, VectorInv, Running, Unregistered
<1> QED
    BY <1>3 DEF SnapshotInv, RowsInv, RowInv

\* The row that is read holds what the snapshot announced.
LEMMA RetrieveRowStep ==
    ASSUME SnapshotInv, RowsInv', NEW c \in Clients, NEW r \in Records, RetrieveRow(c, r)
    PROVE  SnapshotInv'
<1>1. /\ UNCHANGED <<orderTable, nextEpoch, pc, items, localVector, headVersions, cts, won>>
      /\ pc[c] = "execute" /\ stage[c][r] = 1
      /\ heads'[c][r].ytd = headVersions[r].ytd
      /\ \A d \in Clients, t \in Stocks : (d # c \/ t # r) => heads'[d][t] = heads[d][t] /\ stage'[d][t] = stage[d][t]
    <2>1. UNCHANGED <<orderTable, nextEpoch>>
        BY DEF RetrieveRow, orderVars, trxVars
    <2> QED
        BY <2>1, Phased, RetrieveRowEffect
<1>2. DrawnInv'
    BY <1>1 DEF SnapshotInv, DrawnInv, WasDrawn, Busy
<1>3. TopInv'
    BY <1>1 DEF SnapshotInv, TopInv, OnTop, Busy
<1>4. UnseenInv' /\ AtomicInv'
    <2>1. won[c] = {}
        BY <1>1, Phased
    <2>2. UnseenInv'
        BY <1>1, <2>1 DEF SnapshotInv, UnseenInv, Taken, Busy
    <2>3. AtomicInv'
        BY <1>1, Phased DEF SnapshotInv, AtomicInv, AllOrNone
    <2> QED
        BY <2>2, <2>3
<1>5. AnnouncedInv'
    <2> SUFFICES ASSUME NEW a \in Clients, NEW d \in Clients \ {a}, NEW i \in Slots,
                        NEW s \in orderTable[d][i].items, HasRead(a, s)',
                        ~orderTable[d][i].ts.deleted, orderTable[d][i].ts.timestamp <= localVector[a][d]
                 PROVE  orderTable[d][i].ts.timestamp \in heads'[a][s].ytd
        BY <1>1 DEF AnnouncedInv, SeesAnnounced
    <2>1. s \in Stocks
        BY Phased, RowItems
    <2>2. CASE a = c /\ s = r
        BY <1>1, <2>2, AnnouncedThere DEF Installed
    <2>3. CASE a # c \/ s # r
        BY <1>1, <2>1, <2>3 DEF SnapshotInv, AnnouncedInv, SeesAnnounced, HasRead
    <2> QED
        BY <2>2, <2>3
<1>6. EmptyInv'
    BY <1>1 DEF SnapshotInv, EmptyInv
<1> QED
    BY <1>2, <1>3, <1>4, <1>5, <1>6 DEF SnapshotInv

\* The commit timestamp a client draws is in nobody's totals.
LEMMA AcquireStep ==
    ASSUME SnapshotInv, RowsInv', NEW c \in Clients, AcquireCommitTimestamp(c)
    PROVE  SnapshotInv'
<1> USE Phased
<1>1. /\ UNCHANGED <<orderTable, items, localVector, headVersions, heads, won>>
      /\ pc[c] = "recheck" /\ pc'[c] = "lock" /\ nextEpoch[c] \in Nat
      /\ cts'[c] = CommitTimestamp(nextEpoch[c], c) /\ nextEpoch'[c] = nextEpoch[c] + 1
      /\ \A d \in Clients \ {c} : /\ pc'[d] = pc[d] /\ cts'[d] = cts[d] /\ stage'[d] = stage[d]
                                  /\ nextEpoch'[d] = nextEpoch[d]
    BY DEF TypeOK, AcquireCommitTimestamp, getNewCommitTimestamp, serverVars, orderVars
<1>2. cts'[c] = Drawn(nextEpoch[c], c)
    BY <1>1, DrawnGrows DEF SnapshotInv, RowsInv, IInv, EpochInv
<1>3. \A d \in Clients : nextEpoch[d] \in Nat /\ nextEpoch'[d] \in Nat /\ nextEpoch[d] <= nextEpoch'[d]
    <2> SUFFICES ASSUME NEW d \in Clients
                 PROVE  nextEpoch[d] \in Nat /\ nextEpoch'[d] \in Nat /\ nextEpoch[d] <= nextEpoch'[d]
        OBVIOUS
    <2>1. nextEpoch[d] \in Nat
        BY DEF TypeOK
    <2> QED
        BY <1>1, <2>1
<1>4. \A t : WasDrawn(t) => WasDrawn(t)' /\ t # cts'[c]
    <2> SUFFICES ASSUME NEW t, WasDrawn(t) PROVE WasDrawn(t)' /\ t # cts'[c]
        OBVIOUS
    <2>1. PICK e \in Clients : \E k \in Nat : k < nextEpoch[e] /\ t = Drawn(k, e)
        BY DEF WasDrawn
    <2>2. PICK k \in Nat : k < nextEpoch[e] /\ t = Drawn(k, e)
        BY <2>1
    <2>3. k < nextEpoch'[e]
        BY <1>3, <2>2
    <2>4. WasDrawn(t)'
        BY <2>2, <2>3 DEF WasDrawn
    <2>5. ASSUME t = cts'[c] PROVE FALSE
        <3>1. Drawn(k, e) = Drawn(nextEpoch[c], c)
            BY <1>2, <2>2, <2>5
        <3>2. e = c /\ k = nextEpoch[c]
            BY <1>3, <3>1, DrawnDiffer
        <3> QED
            BY <1>3, <2>2, <3>2
    <2> QED
        BY <2>4, <2>5
<1>5. DrawnInv'
    <2>1. \A s \in Stocks : \A t \in headVersions'[s].ytd : WasDrawn(t)'
        BY <1>1, <1>4 DEF SnapshotInv, DrawnInv
    <2>2. \A a \in Clients, s \in Stocks : \A t \in heads'[a][s].ytd : WasDrawn(t)'
        BY <1>1, <1>4 DEF SnapshotInv, DrawnInv
    <2>3. \E k \in Nat : k < nextEpoch'[c] /\ cts'[c] = Drawn(k, c)
        BY <1>1, <1>2
    <2>4. \A d \in Clients \ {c} : Busy(d)' => \E k \in Nat : k < nextEpoch'[d] /\ cts'[d] = Drawn(k, d)
        BY <1>1 DEF SnapshotInv, DrawnInv, Busy
    <2> QED
        BY <2>1, <2>2, <2>3, <2>4 DEF DrawnInv
<1>6. /\ \A s \in Stocks : cts'[c] \notin headVersions[s].ytd
      /\ \A a \in Clients, s \in Stocks : cts'[c] \notin heads[a][s].ytd
    BY <1>4 DEF SnapshotInv, DrawnInv
<1>7. TopInv'
    BY <1>1, <1>6 DEF SnapshotInv, TopInv, OnTop, Busy
<1>8. UnseenInv'
    BY <1>1, <1>6 DEF SnapshotInv, UnseenInv, Taken, Busy
<1>9. AnnouncedInv' /\ AtomicInv' /\ EmptyInv'
    BY <1>1 DEF SnapshotInv, AnnouncedInv, SeesAnnounced, HasRead, AtomicInv, AllOrNone, EmptyInv
<1> QED
    BY <1>5, <1>7, <1>8, <1>9 DEF SnapshotInv

\* A lock is had only on a head that holds announced orders.
LEMMA LockStockStep ==
    ASSUME SnapshotInv, RowsInv', NEW c \in Clients, NEW s \in Stocks, LockStock(c, s)
    PROVE  SnapshotInv'
<1>1. /\ UNCHANGED <<orderTable, nextEpoch, pc, items, localVector, heads, cts>>
      /\ pc[c] = "lock" /\ s \in items[c]
      /\ \A d \in Clients \ {c} : won'[d] = won[d]
      /\ \A t \in Stocks \ {s} : headVersions'[t] = headVersions[t]
      /\ headVersions'[s].ytd = headVersions[s].ytd
      /\ \A d \in Clients, t \in Stocks : (d # c \/ t # s) => stage'[d][t] = stage[d][t]
      /\ \/ headVersions[s].ts = heads[c][s].ts /\ won'[c] = won[c] \cup {s}
         \/ headVersions'[s] = headVersions[s] /\ won'[c] = won[c]
    <2>1. UNCHANGED <<orderTable, nextEpoch>>
        BY DEF LockStock, orderVars, trxVars
    <2> QED
        BY <2>1, Phased, LockStockEffect
<1>2. ASSUME headVersions[s].ts = heads[c][s].ts, NEW d \in Clients, Busy(d)
      PROVE  cts[d] \notin headVersions[s].ytd
    <2>1. Accessible(c, s)
        BY <1>1 DEF SnapshotInv, RowsInv, IInv, CheckedInv, CheckedAt
    <2>2. ASSUME OnTop(d, s) PROVE FALSE
        <3>1. d # c
            BY <1>1, <2>2 DEF OnTop
        <3> QED
            BY <1>2, <2>1, <2>2, <3>1, Phased, UnannouncedUnusable
            DEF OnTop, SnapshotInv, RowsInv, IInv
    <2> QED
        BY <1>2, <2>2 DEF SnapshotInv, TopInv
<1>3. DrawnInv'
    BY <1>1 DEF SnapshotInv, DrawnInv, WasDrawn, Busy
<1>4. TopInv'
    <2> SUFFICES ASSUME NEW d \in Clients, NEW t \in Stocks, Busy(d), cts[d] \in headVersions[t].ytd
                 PROVE  OnTop(d, t)'
        BY <1>1 DEF TopInv, Busy
    <2>1. OnTop(d, t)
        BY DEF SnapshotInv, TopInv
    <2>2. headVersions'[t].ts = headVersions[t].ts
        BY <1>1, <1>2
    <2> QED
        BY <1>1, <2>1, <2>2 DEF OnTop
<1>5. UnseenInv'
    <2> SUFFICES ASSUME NEW a \in Clients, NEW t \in Stocks, Taken(a, t)',
                        NEW d \in Clients \ {a}, Busy(d)
                 PROVE  cts[d] \notin heads[a][t].ytd
        BY <1>1 DEF UnseenInv, Busy
    <2>1. CASE Taken(a, t)
        BY <2>1 DEF SnapshotInv, UnseenInv
    <2>2. CASE ~Taken(a, t)
        <3>1. a = c /\ t = s /\ headVersions[s].ts = heads[c][s].ts
            BY <1>1, <2>2 DEF Taken
        <3>2. Accessible(c, s) /\ ReadDone(c, s)
            BY <1>1 DEF SnapshotInv, RowsInv, IInv, CheckedInv, CheckedAt, ReadDone
        <3>3. headVersions[s].ytd = heads[c][s].ytd
            BY <3>1, <3>2 DEF SnapshotInv, RowsInv, IInv, IdentityInv, IdentityAt
        <3> QED
            BY <1>2, <3>1, <3>3
    <2> QED
        BY <2>1, <2>2
<1>6. AnnouncedInv' /\ AtomicInv' /\ EmptyInv'
    <2>1. AnnouncedInv'
        <3>1. \A a \in Clients, t \in Stocks : HasRead(a, t)' => HasRead(a, t)
            BY <1>1 DEF HasRead
        <3> QED
            BY <1>1, <3>1, Phased, RowItems DEF SnapshotInv, AnnouncedInv, SeesAnnounced
    <2>2. AtomicInv' /\ EmptyInv'
        BY <1>1 DEF SnapshotInv, AtomicInv, AllOrNone, EmptyInv
    <2> QED
        BY <2>1, <2>2
<1> QED
    BY <1>3, <1>4, <1>5, <1>6 DEF SnapshotInv

\* A client that has all its locks has read what is in the heads: an order that
\* is installed on all its stocks, and one that is not on none.
LEMMA AcquiredStep ==
    ASSUME SnapshotInv, RowsInv', NEW c \in Clients, LocksAcquired(c)
    PROVE  SnapshotInv'
<1> USE Phased
<1>1. /\ UNCHANGED <<orderTable, nextEpoch, items, headVersions, heads, won, cts>>
      /\ pc[c] = "lock" /\ pc'[c] = "install" /\ won[c] = items[c]
      /\ \A d \in Clients \ {c} : /\ pc'[d] = pc[d] /\ stage'[d] = stage[d]
                                  /\ localVector'[d] = localVector[d] /\ localVector'[c][d] = localVector[c][d]
    BY DEF TypeOK, LocksAcquired, writeCommandToLog, serverVars, orderVars
<1>2. \A s \in Stocks : cts[c] \notin headVersions[s].ytd
    BY <1>1 DEF SnapshotInv, TopInv, OnTop, Busy
<1>3. DrawnInv'
    BY <1>1 DEF SnapshotInv, DrawnInv, WasDrawn, Busy
<1>4. TopInv'
    BY <1>1, <1>2 DEF SnapshotInv, TopInv, OnTop, Busy
<1>5. UnseenInv'
    <2>1. \A a \in Clients : Busy(a)' <=> Busy(a)
        BY <1>1 DEF Busy
    <2>2. \A a \in Clients, s \in Stocks : Taken(a, s)' => Taken(a, s)
        BY <1>1 DEF Taken
    <2> QED
        BY <1>1, <2>1, <2>2 DEF SnapshotInv, UnseenInv
<1>6. AnnouncedInv'
    <2>1. \A a \in Clients, s \in Stocks : HasRead(a, s)' => HasRead(a, s)
        BY <1>1 DEF HasRead
    <2> QED
        BY <1>1, <2>1, RowItems DEF SnapshotInv, AnnouncedInv, SeesAnnounced
<1>7. AtomicInv'
    <2> SUFFICES ASSUME NEW a \in Clients, pc'[a] = "install", NEW d \in Clients \ {a}, NEW i \in Slots
                 PROVE  AllOrNone(a, orderTable[d][i])
        BY <1>1 DEF AtomicInv, AllOrNone
    <2> DEFINE row == orderTable[d][i]
    <2>1. CASE a # c
        BY <1>1, <2>1 DEF SnapshotInv, AtomicInv
    <2>2. CASE a = c /\ row.ts.deleted
        BY <2>2 DEF SnapshotInv, EmptyInv, AllOrNone
    <2>3. CASE a = c /\ Running(d, row)
        <3>1. Busy(d) /\ row.ts.timestamp = cts[d]
            BY <2>3 DEF Running, Unregistered, Busy
        <3>2. \A s \in items[c] : Taken(c, s)
            BY <1>1 DEF Taken
        <3>3. \A s \in items[c] : cts[d] \notin heads[c][s].ytd
            BY <2>3, <3>1, <3>2 DEF SnapshotInv, UnseenInv
        <3> QED
            BY <2>3, <3>1, <3>3 DEF AllOrNone
    <2>4. CASE a = c /\ Installed(row)
        <3>1. \A s \in items[c] : headVersions[s].ytd = heads[c][s].ytd
            BY <1>1 DEF SnapshotInv, RowsInv, IInv, LockInv, LockedAt
        <3> QED
            BY <2>4, <3>1 DEF AllOrNone, Installed
    <2> QED
        BY <2>1, <2>2, <2>3, <2>4 DEF SnapshotInv, RowsInv, RowInv
<1>8. EmptyInv'
    BY <1>1 DEF SnapshotInv, EmptyInv
<1> QED
    BY <1>3, <1>4, <1>5, <1>6, <1>7, <1>8 DEF SnapshotInv

\* The row a client inserts is newer than every snapshot, and no committing
\* client has read it.
LEMMA InsertOrderStep ==
    ASSUME SnapshotInv, RowsInv', NEW c \in Clients, InsertOrder(c)
    PROVE  SnapshotInv'
<1> USE Phased
<1>1. /\ UNCHANGED <<nextEpoch, items, headVersions, heads, won, cts, pc, stage, localVector>>
      /\ pc[c] = "install" /\ orderRID[c] \in Slots
    BY DEF TypeOK, InsertOrder, serverVars, trxVars
<1>2. /\ orderTable'[c][orderRID[c]].ts.timestamp = cts[c]
      /\ orderTable'[c][orderRID[c]].items = items[c]
      /\ ~orderTable'[c][orderRID[c]].ts.deleted
      /\ \A d \in Clients, i \in Slots :
            (d # c \/ i # orderRID[c]) => orderTable'[d][i] = orderTable[d][i]
    BY DEF TypeOK, InsertOrder, Timestamp
<1>3. DrawnInv' /\ TopInv' /\ UnseenInv'
    BY <1>1 DEF SnapshotInv, DrawnInv, WasDrawn, Busy, TopInv, OnTop, UnseenInv, Taken
<1>4. AnnouncedInv'
    <2> SUFFICES ASSUME NEW a \in Clients, NEW d \in Clients \ {a}, NEW i \in Slots
                 PROVE  SeesAnnounced(a, d, orderTable[d][i])'
        BY DEF AnnouncedInv
    <2>1. CASE d = c /\ i = orderRID[c]
        <3>1. localVector[a][c] <= lastCommittedVector[c] /\ lastCommittedVector[c] < cts[c]
            BY <1>1, <2>1 DEF SnapshotInv, RowsInv, IInv, VectorInv
        <3>2. localVector[a][c] \in Nat /\ lastCommittedVector[c] \in Nat /\ cts[c] \in Nat
            BY DEF TypeOK
        <3>3. ~(cts[c] <= localVector[a][c])
            BY <3>1, <3>2
        <3> QED
            BY <1>1, <1>2, <2>1, <3>3 DEF SeesAnnounced
    <2>2. CASE d # c \/ i # orderRID[c]
        BY <1>1, <1>2, <2>2 DEF SnapshotInv, AnnouncedInv, SeesAnnounced, HasRead
    <2> QED
        BY <2>1, <2>2
<1>5. AtomicInv'
    <2> SUFFICES ASSUME NEW a \in Clients, pc[a] = "install", NEW d \in Clients \ {a}, NEW i \in Slots
                 PROVE  AllOrNone(a, orderTable[d][i])'
        BY <1>1 DEF AtomicInv
    <2>1. CASE d = c /\ i = orderRID[c]
        <3>1. \A s \in items[a] : cts[c] \notin heads[a][s].ytd
            BY <1>1, <2>1 DEF SnapshotInv, UnseenInv, Taken, Busy
        <3> QED
            BY <1>1, <1>2, <2>1, <3>1 DEF AllOrNone
    <2>2. CASE d # c \/ i # orderRID[c]
        BY <1>1, <1>2, <2>2 DEF SnapshotInv, AtomicInv, AllOrNone
    <2> QED
        BY <2>1, <2>2
<1>6. EmptyInv'
    BY <1>2 DEF SnapshotInv, EmptyInv
<1> QED
    BY <1>3, <1>4, <1>5, <1>6 DEF SnapshotInv

\* The row of a new head goes under the word its client has put on top.
LEMMA UpdateRowStep ==
    ASSUME SnapshotInv, RowsInv', NEW c \in Clients, NEW s \in Stocks, UpdateStock(c, s)
    PROVE  SnapshotInv'
<1> USE Phased
<1>1. /\ UNCHANGED <<orderTable, nextEpoch, items, heads, won, cts, pc, localVector>>
      /\ pc[c] = "install" /\ s \in items[c] /\ stage[c][s] = 3 /\ stage'[c][s] = 4
      /\ headVersions'[s].ts = headVersions[s].ts
      /\ headVersions'[s].ytd = heads[c][s].ytd \cup {cts[c]}
      /\ \A t \in Stocks \ {s} : headVersions'[t] = headVersions[t]
      /\ \A d \in Clients, t \in Stocks : (d # c \/ t # s) => stage'[d][t] = stage[d][t]
    <2>1. UNCHANGED <<orderTable, nextEpoch>>
        BY DEF UpdateStock, orderVars, trxVars
    <2> QED
        BY <2>1, UpdateStockEffect
<1>2. headVersions[s].ts = NewStockVersion(c, s).ts
    BY <1>1 DEF SnapshotInv, RowsInv, IInv, InstallInv, InstallAt
<1>3. \A d \in Clients \ {c} : Busy(d) => cts[d] \notin headVersions'[s].ytd
    <2> SUFFICES ASSUME NEW d \in Clients \ {c}, Busy(d), cts[d] \in headVersions'[s].ytd PROVE FALSE
        OBVIOUS
    <2>1. cts[d] # cts[c]
        BY <1>1, BusyDiffer DEF SnapshotInv, Busy
    <2>2. cts[d] \notin heads[c][s].ytd
        BY <1>1 DEF SnapshotInv, UnseenInv, Taken
    <2> QED
        BY <1>1, <2>1, <2>2
<1>4. DrawnInv'
    <2>1. \A t \in headVersions'[s].ytd : WasDrawn(t)
        <3>1. WasDrawn(cts[c])
            BY <1>1 DEF SnapshotInv, DrawnInv, Busy, WasDrawn
        <3> QED
            BY <1>1, <3>1 DEF SnapshotInv, DrawnInv
    <2> QED
        BY <1>1, <2>1 DEF SnapshotInv, DrawnInv, WasDrawn, Busy
<1>5. TopInv'
    <2> SUFFICES ASSUME NEW d \in Clients, NEW t \in Stocks, Busy(d), cts[d] \in headVersions'[t].ytd
                 PROVE  OnTop(d, t)'
        BY <1>1 DEF TopInv, Busy
    <2>1. CASE t = s
        <3>1. d = c
            BY <1>3, <2>1
        <3> QED
            BY <1>1, <1>2, <2>1, <3>1, WordsWritten DEF OnTop
    <2>2. CASE t # s
        BY <1>1, <2>2 DEF SnapshotInv, TopInv, OnTop
    <2> QED
        BY <2>1, <2>2
<1>6. UnseenInv' /\ AtomicInv' /\ EmptyInv'
    BY <1>1 DEF SnapshotInv, UnseenInv, Taken, Busy, AtomicInv, AllOrNone, EmptyInv
<1>7. AnnouncedInv'
    <2>1. \A a \in Clients, t \in Stocks : HasRead(a, t)' => HasRead(a, t)
        BY <1>1 DEF HasRead
    <2> QED
        BY <1>1, <2>1, RowItems DEF SnapshotInv, AnnouncedInv, SeesAnnounced
<1> QED
    BY <1>4, <1>5, <1>6, <1>7 DEF SnapshotInv

-----------------------------------------------------------------------------
\* The inductive step.
LEMMA SnapshotStep == SnapshotInv /\ [Next]_vars => SnapshotInv'
<1> SUFFICES ASSUME SnapshotInv, [Next]_vars PROVE SnapshotInv'
    OBVIOUS
<1>1. RowsInv'
    BY RowsStep DEF SnapshotInv
<1>2. CASE UNCHANGED vars
    BY <1>1, <1>2, CalmStep, Phased
    DEF vars, serverVars, orderVars, oracleVars, trxVars, rowVars, Calm, Busy, HasRead
<1>3. ASSUME NEW e \in Clients, ReaderRefresh(e) PROVE SnapshotInv'
    BY <1>1, <1>3, QuietSteps, CalmStep
<1>4. ASSUME NEW c \in Clients, Start(c) \/ Step(c) PROVE SnapshotInv'
    BY <1>1, <1>4, QuietSteps, WordSteps, CalmStep, RetrieveRowStep, AcquireStep, LockStockStep,
       AcquiredStep, InsertOrderStep, UpdateRowStep
    DEF Step
<1> QED
    BY <1>2, <1>3, <1>4 DEF Next

\* SnapshotInv holds throughout every run of New-Order.
THEOREM SnapshotInvariance == Spec => []SnapshotInv
    BY SnapshotInit, SnapshotStep, PTL DEF Spec

\* What the invariant says of the reads.
LEMMA AtomicReads == SnapshotInv => ReadsAreAtomic
    BY DEF SnapshotInv, AtomicInv, AllOrNone, ReadsAreAtomic

LEMMA ReadSnapshots == SnapshotInv => SnapshotIsRead
    BY DEF SnapshotInv, AnnouncedInv, SeesAnnounced, HasRead, SnapshotIsRead

\* A New-Order that installs has seen each other order on all the stocks they
\* share or on none: the checks in checkVersions and the compare-and-swaps of
\* lockStock make the reads of the heads one atomic read.
THEOREM ReadsAtomic == Spec => []ReadsAreAtomic
    BY AtomicReads, SnapshotInvariance, PTL

\* It has read every order announced in the vector getReadTimestamp copied,
\* although the oracle reader overwrites that vector during the copy.
THEOREM SnapshotsAreRead == Spec => []SnapshotIsRead
    BY ReadSnapshots, SnapshotInvariance, PTL
-----------------------------------------------------------------------------
(***************************************************************************)
(* New-Order implements TransactionLedger.  LocksAcquired is the Commit    *)
(* step: a client that has its locks has read what the stocks hold, and no *)
(* order in flight is on one of them, because such an order holds the lock *)
(* or its unannounced word is on top.  SubmitResult is the Announce step;  *)
(* all other steps, the installs too, change nothing in the ledger.        *)
(***************************************************************************)

\* An order that is registered is in all its stocks.
DoneInv ==
    \A c \in Clients : pc[c] = "submit" => \A s \in items[c] : cts[c] \in headVersions[s].ytd

\* Commit timestamps have 32 bits, and carts are not empty.
CartInv ==
    \A c \in Clients :
        /\ cts[c] \in 0 .. TimestampRange - 1
        /\ pc[c] # "idle" => items[c] # {}

LedgerInv == SnapshotInv /\ DoneInv /\ CartInv

\* What every step does to a client's transaction.
GoesOn(d) ==
    /\ cts'[d] = cts[d] \/ cts'[d] = CommitTimestamp(nextEpoch[d], d)
    /\ pc'[d] # "idle" => (pc[d] # "idle" /\ items'[d] = items[d]) \/ items'[d] # {}
    /\ pc'[d] = "submit" =>
          /\ items'[d] = items[d] /\ cts'[d] = cts[d]
          /\ pc[d] = "submit" \/ (pc[d] = "install" /\ Reached(d, items[d], 4))

LEMMA EveryoneGoesOn == TypeOK /\ [Next]_vars => \A d \in Clients : GoesOn(d)
<1> SUFFICES ASSUME TypeOK, [Next]_vars, NEW d \in Clients PROVE GoesOn(d)
    OBVIOUS
<1> USE DEF serverVars, orderVars, oracleVars, trxVars, rowVars, GoesOn
<1>0. CASE UNCHANGED <<pc, items, cts>>
    BY <1>0
<1>1. ASSUME NEW c \in Clients, Start(c) PROVE GoesOn(d)
    <2>1. cts' = cts /\ pc'[c] = "snapshot" /\ items'[c] # {}
        BY <1>1 DEF TypeOK, Start
    <2>2. d # c => pc'[d] = pc[d] /\ items'[d] = items[d]
        BY <1>1 DEF TypeOK, Start
    <2> QED
        BY <2>1, <2>2
<1>2. ASSUME NEW c \in Clients, NEW e \in Clients, getReadTimestamp(c, e) PROVE GoesOn(d)
    <2>1. UNCHANGED <<cts, items>> /\ pc[c] = "snapshot" /\ pc'[c] \in {"snapshot", "execute"}
        BY <1>2 DEF TypeOK, getReadTimestamp
    <2>2. d # c => pc'[d] = pc[d]
        BY <1>2 DEF TypeOK, getReadTimestamp
    <2> QED
        BY <2>1, <2>2
<1>3. ASSUME NEW c \in Clients, CheckVersionsAbort(c) PROVE GoesOn(d)
    BY <1>3 DEF TypeOK, CheckVersionsAbort
<1>4. ASSUME NEW c \in Clients, CheckVersions(c) PROVE GoesOn(d)
    BY <1>4 DEF TypeOK, CheckVersions
<1>5. ASSUME NEW c \in Clients, NEW r \in Refs, RecheckAbort(c, r) PROVE GoesOn(d)
    BY <1>5 DEF TypeOK, RecheckAbort
<1>6. ASSUME NEW c \in Clients, AcquireCommitTimestamp(c) PROVE GoesOn(d)
    BY <1>6 DEF TypeOK, AcquireCommitTimestamp, getNewCommitTimestamp
<1>7. ASSUME NEW c \in Clients, LocksRefused(c) PROVE GoesOn(d)
    BY <1>7 DEF TypeOK, LocksRefused
<1>8. ASSUME NEW c \in Clients, LockAbort(c) PROVE GoesOn(d)
    BY <1>8 DEF TypeOK, LockAbort
<1>9. ASSUME NEW c \in Clients, LocksAcquired(c) PROVE GoesOn(d)
    BY <1>9 DEF TypeOK, LocksAcquired
<1>10. ASSUME NEW c \in Clients, RegisterOrder(c) PROVE GoesOn(d)
    BY <1>10 DEF TypeOK, RegisterOrder
<1>11. ASSUME NEW c \in Clients, SubmitResult(c) PROVE GoesOn(d)
    BY <1>11 DEF TypeOK, SubmitResult
<1>12. ASSUME NEW e \in Clients, ReaderRefresh(e) PROVE GoesOn(d)
    BY <1>0, <1>12 DEF ReaderRefresh
<1>13. ASSUME NEW c \in Clients, NEW r \in Records,
              RetrieveTimestamp(c, r) \/ RetrieveRow(c, r) \/ RetrievePointerList(c, r)
       PROVE  GoesOn(d)
    BY <1>0, <1>13 DEF RetrieveTimestamp, RetrieveRow, RetrievePointerList
<1>14. ASSUME NEW c \in Clients, NEW r \in Refs, RetrieveOlderVersion(c, r) PROVE GoesOn(d)
    BY <1>0, <1>14 DEF RetrieveOlderVersion
<1>15. ASSUME NEW c \in Clients, NEW s \in Stocks, LockStock(c, s) \/ RevertStockLock(c, s)
       PROVE  GoesOn(d)
    BY <1>0, <1>15 DEF LockStock, RevertStockLock
<1>16. ASSUME NEW c \in Clients, NEW s \in Stocks,
              \/ UpdateStockPointers(c, s) \/ UpdateStockOlderVersions(c, s)
              \/ UpdateStockTimestamp(c, s) \/ UpdateStock(c, s)
       PROVE  GoesOn(d)
    BY <1>0, <1>16
    DEF UpdateStockPointers, UpdateStockOlderVersions, UpdateStockTimestamp, UpdateStock
<1>17. ASSUME NEW c \in Clients, RetrieveAndIncrementDistrictNextOID(c) \/ InsertOrder(c)
       PROVE  GoesOn(d)
    BY <1>0, <1>17 DEF RetrieveAndIncrementDistrictNextOID, InsertOrder
<1>18. CASE UNCHANGED vars
    BY <1>0, <1>18 DEF vars
<1> HIDE DEF GoesOn
<1> QED
    BY <1>1, <1>2, <1>3, <1>4, <1>5, <1>6, <1>7, <1>8, <1>9, <1>10, <1>11, <1>12, <1>13, <1>14,
       <1>15, <1>16, <1>17, <1>18
    DEF Next, Step

LEMMA LedgerInvInit == Init => LedgerInv
<1> SUFFICES ASSUME Init PROVE LedgerInv
    OBVIOUS
<1>1. DoneInv
    BY DEF Init, DoneInv
<1>2. CartInv
    BY TimestampRangeAssumption DEF Init, CartInv
<1> QED
    BY <1>1, <1>2, SnapshotInit DEF LedgerInv

LEMMA LedgerInvStep == LedgerInv /\ [Next]_vars => LedgerInv'
<1> SUFFICES ASSUME LedgerInv, [Next]_vars PROVE LedgerInv'
    OBVIOUS
<1>1. SnapshotInv' /\ TypeOK /\ IInv /\ RowsInv
    BY SnapshotStep DEF LedgerInv, SnapshotInv, RowsInv, IInv, TypeInv
<1>2. Grows /\ \A d \in Clients : GoesOn(d)
    BY <1>1, TotalsGrow, EveryoneGoesOn
<1>3. DoneInv'
    <2> SUFFICES ASSUME NEW d \in Clients, pc'[d] = "submit", NEW s \in items'[d]
                 PROVE  cts'[d] \in headVersions'[s].ytd
        BY DEF DoneInv
    <2>1. /\ items'[d] = items[d] /\ cts'[d] = cts[d]
          /\ pc[d] = "submit" \/ (pc[d] = "install" /\ stage[d][s] = 4)
        BY <1>2 DEF GoesOn, Reached
    <2>2. s \in items[d] /\ s \in Stocks
        BY <1>1, <2>1, RowItems
    <2>3. cts[d] \in headVersions[s].ytd
        BY <1>1, <2>1, <2>2 DEF LedgerInv, DoneInv, RowsInv, ProgressInv
    <2> QED
        BY <1>2, <2>1, <2>2, <2>3 DEF Grows
<1>4. CartInv'
    <2> SUFFICES ASSUME NEW d \in Clients
                 PROVE  cts'[d] \in 0 .. TimestampRange - 1 /\ (pc'[d] # "idle" => items'[d] # {})
        BY DEF CartInv
    <2>1. CommitTimestamp(nextEpoch[d], d) \in 0 .. TimestampRange - 1
        <3>1. nextEpoch[d] \in Nat
            BY <1>1 DEF TypeOK
        <3>2. nextEpoch[d] * ClientCnt + d \in Nat
            BY <3>1, ClientCntAssumption DEF Clients
        <3> QED
            BY <3>2, TimestampRangeAssumption DEF CommitTimestamp
    <2> QED
        BY <1>2, <2>1 DEF LedgerInv, CartInv, GoesOn
<1> QED
    BY <1>1, <1>3, <1>4 DEF LedgerInv

-----------------------------------------------------------------------------
\* Steps that the ledger does not see.
LedgerKept ==
    /\ lastCommittedVector' = lastCommittedVector
    /\ \A s \in Stocks : headVersions'[s].ytd = headVersions[s].ytd
    /\ \A d \in Clients :
          /\ InFlight(d)' <=> InFlight(d)
          /\ InFlight(d) =>
                /\ cts'[d] = cts[d] /\ items'[d] = items[d]
                /\ \A s \in items[d] : heads'[d][s].ytd = heads[d][s].ytd

LedgerSame ==
    StockTotals' = StockTotals /\ CommittedOrders' = CommittedOrders
    /\ lastCommittedVector' = lastCommittedVector

LEMMA KeptIsSame == LedgerKept => LedgerSame
<1> SUFFICES ASSUME LedgerKept PROVE LedgerSame
    OBVIOUS
<1>1. ASSUME NEW s \in Stocks PROVE StockTotals'[s] = StockTotals[s]
    <2>1. {cts'[c] : c \in {d \in Clients : InFlight(d)' /\ s \in items'[d]}}
            = {cts[c] : c \in {d \in Clients : InFlight(d) /\ s \in items[d]}}
        BY DEF LedgerKept
    <2> QED
        BY <2>1 DEF LedgerKept, StockTotals
<1>2. ASSUME NEW c \in Clients PROVE CommittedOrders'[c] = CommittedOrders[c]
    <2>1. CASE InFlight(c)
        <3>1. [s \in items'[c] |-> heads'[c][s].ytd] = [s \in items[c] |-> heads[c][s].ytd]
            BY <2>1 DEF LedgerKept
        <3> QED
            BY <2>1, <3>1 DEF LedgerKept, CommittedOrders
    <2>2. CASE ~InFlight(c)
        BY <2>2 DEF LedgerKept, CommittedOrders
    <2> QED
        BY <2>1, <2>2
<1>3. StockTotals' = StockTotals
    BY <1>1 DEF StockTotals
<1>4. CommittedOrders' = CommittedOrders
    BY <1>2 DEF CommittedOrders
<1> QED
    BY <1>3, <1>4 DEF LedgerSame, LedgerKept

\* All steps but three kinds are such.
LEMMA KeptSteps ==
    ASSUME TypeOK, [Next]_vars
    PROVE  \/ LedgerKept
           \/ \E c \in Clients : LocksAcquired(c) \/ SubmitResult(c) \/ \E s \in Stocks : UpdateStock(c, s)
<1> USE RowItems DEF InFlight
<1>1. ASSUME UNCHANGED <<lastCommittedVector, headVersions, items, cts, heads, pc>> PROVE LedgerKept
    BY <1>1 DEF LedgerKept
<1>2. ASSUME NEW c \in Clients, UNCHANGED <<lastCommittedVector, headVersions, heads>>,
             ~InFlight(c), ~InFlight(c)',
             \A d \in Clients \ {c} : pc'[d] = pc[d] /\ cts'[d] = cts[d] /\ items'[d] = items[d]
      PROVE  LedgerKept
    BY <1>2 DEF LedgerKept
<1>3. ASSUME NEW c \in Clients, NEW r \in Records, RetrieveTimestamp(c, r) \/ RetrieveRow(c, r)
      PROVE  LedgerKept
    <2>1. lastCommittedVector' = lastCommittedVector
        BY <1>3 DEF RetrieveTimestamp, RetrieveRow, oracleVars
    <2>2. CASE RetrieveTimestamp(c, r)
        BY <2>1, <2>2, RetrieveTimestampEffect DEF LedgerKept
    <2>3. CASE RetrieveRow(c, r)
        BY <2>1, <2>3, RetrieveRowEffect DEF LedgerKept
    <2> QED
        BY <1>3, <2>2, <2>3
<1>4. ASSUME NEW c \in Clients, NEW r \in Refs, RetrieveOlderVersion(c, r) PROVE LedgerKept
    <2>1. lastCommittedVector' = lastCommittedVector
        BY <1>4 DEF RetrieveOlderVersion, oracleVars
    <2> QED
        BY <1>4, <2>1, RetrieveOlderVersionEffect DEF LedgerKept
<1>5. ASSUME NEW c \in Clients, NEW s \in Stocks, LockStock(c, s) PROVE LedgerKept
    <2>1. lastCommittedVector' = lastCommittedVector
        BY <1>5 DEF LockStock, oracleVars
    <2> QED
        BY <1>5, <2>1, LockStockEffect DEF LedgerKept
<1>6. ASSUME NEW c \in Clients, NEW s \in Stocks, RevertStockLock(c, s) PROVE LedgerKept
    <2>1. lastCommittedVector' = lastCommittedVector
        BY <1>6 DEF RevertStockLock, oracleVars
    <2> QED
        BY <1>6, <2>1, RevertStockLockEffect DEF LedgerKept
<1>7. ASSUME NEW c \in Clients, NEW s \in Stocks, UpdateStockTimestamp(c, s) PROVE LedgerKept
    <2>1. lastCommittedVector' = lastCommittedVector
        BY <1>7 DEF UpdateStockTimestamp, oracleVars
    <2> QED
        BY <1>7, <2>1, UpdateStockTimestampEffect DEF LedgerKept
<1>8. ASSUME NEW c \in Clients, RegisterOrder(c) PROVE LedgerKept
    <2>1. /\ UNCHANGED <<lastCommittedVector, headVersions, items, cts, heads>>
          /\ pc[c] = "install" /\ pc'[c] = "submit"
          /\ \A d \in Clients \ {c} : pc'[d] = pc[d]
        BY <1>8 DEF TypeOK, RegisterOrder, oracleVars, serverVars, trxVars
    <2> QED
        BY <2>1 DEF LedgerKept
<1> USE DEF serverVars, orderVars, oracleVars, trxVars, rowVars
<1>9. ASSUME NEW c \in Clients,
             \/ Start(c) \/ \E e \in Clients : getReadTimestamp(c, e)
             \/ CheckVersionsAbort(c) \/ CheckVersions(c) \/ \E r \in Refs : RecheckAbort(c, r)
             \/ LocksRefused(c) \/ LockAbort(c) \/ AcquireCommitTimestamp(c)
      PROVE  LedgerKept
    <2>1. CASE Start(c)
        BY <1>2, <2>1 DEF TypeOK, Start
    <2>2. ASSUME NEW e \in Clients, getReadTimestamp(c, e) PROVE LedgerKept
        BY <1>2, <2>2 DEF TypeOK, getReadTimestamp
    <2>3. CASE CheckVersionsAbort(c)
        BY <1>2, <2>3 DEF TypeOK, CheckVersionsAbort
    <2>4. CASE CheckVersions(c)
        BY <1>2, <2>4 DEF TypeOK, CheckVersions
    <2>5. ASSUME NEW r \in Refs, RecheckAbort(c, r) PROVE LedgerKept
        BY <1>2, <2>5 DEF TypeOK, RecheckAbort
    <2>6. CASE LocksRefused(c)
        BY <1>2, <2>6 DEF TypeOK, LocksRefused
    <2>7. CASE LockAbort(c)
        BY <1>2, <2>7 DEF TypeOK, LockAbort
    <2>8. CASE AcquireCommitTimestamp(c)
        BY <1>2, <2>8 DEF TypeOK, AcquireCommitTimestamp, getNewCommitTimestamp
    <2> QED
        BY <1>9, <2>1, <2>2, <2>3, <2>4, <2>5, <2>6, <2>7, <2>8
<1>10. ASSUME NEW e \in Clients, ReaderRefresh(e) PROVE LedgerKept
    BY <1>1, <1>10 DEF ReaderRefresh
<1>11. ASSUME NEW c \in Clients, NEW r \in Records, RetrievePointerList(c, r) PROVE LedgerKept
    BY <1>1, <1>11 DEF RetrievePointerList
<1>12. ASSUME NEW c \in Clients, NEW s \in Stocks,
              UpdateStockPointers(c, s) \/ UpdateStockOlderVersions(c, s)
       PROVE  LedgerKept
    BY <1>1, <1>12 DEF UpdateStockPointers, UpdateStockOlderVersions
<1>13. ASSUME NEW c \in Clients, RetrieveAndIncrementDistrictNextOID(c) \/ InsertOrder(c)
       PROVE  LedgerKept
    BY <1>1, <1>13 DEF RetrieveAndIncrementDistrictNextOID, InsertOrder
<1>14. CASE UNCHANGED vars
    BY <1>1, <1>14 DEF vars
<1> QED
    BY <1>3, <1>4, <1>5, <1>6, <1>7, <1>8, <1>9, <1>10, <1>11, <1>12, <1>13, <1>14 DEF Next, Step

\* Writing the row of a stock adds an order that already counted.
LEMMA InstallIsSame ==
    ASSUME LedgerInv, NEW c \in Clients, NEW s \in Stocks, UpdateStock(c, s)
    PROVE  LedgerSame
<1>1. TypeOK /\ InstallInv
    BY DEF LedgerInv, SnapshotInv, RowsInv, IInv, TypeInv
<1>2. /\ UNCHANGED <<pc, items, heads, cts, lastCommittedVector>>
      /\ pc[c] = "install" /\ s \in items[c]
      /\ headVersions'[s].ytd = headVersions[s].ytd \cup {cts[c]}
      /\ \A t \in Stocks \ {s} : headVersions'[t] = headVersions[t]
    <2>1. lastCommittedVector' = lastCommittedVector
        BY DEF UpdateStock, oracleVars
    <2> QED
        BY <1>1, <2>1, UpdateStockEffect DEF InstallInv, InstallAt
<1>3. ASSUME NEW t \in Stocks PROVE StockTotals'[t] = StockTotals[t]
    <2> DEFINE Open == {cts[b] : b \in {d \in Clients : InFlight(d) /\ t \in items[d]}}
    <2>1. StockTotals[t] = headVersions[t].ytd \cup Open /\ StockTotals'[t] = headVersions'[t].ytd \cup Open
        BY <1>2 DEF StockTotals, InFlight
    <2>2. t = s => cts[c] \in Open
        BY <1>2 DEF InFlight
    <2> QED
        BY <1>2, <2>1, <2>2
<1>4. StockTotals' = StockTotals
    BY <1>3 DEF StockTotals
<1>5. CommittedOrders' = CommittedOrders
    BY <1>2 DEF CommittedOrders, InFlight
<1> QED
    BY <1>2, <1>4, <1>5 DEF LedgerSame

\* No order in flight is on a stock that another client has locked.
LEMMA FlightExcludes ==
    ASSUME LedgerInv, NEW c \in Clients, NEW d \in Clients \ {c}, NEW s \in Stocks,
           s \in won[c], InFlight(d)
    PROVE  s \notin items[d]
<1> SUFFICES ASSUME s \in items[d] PROVE FALSE
    OBVIOUS
<1>1. /\ TypeOK /\ LockInv /\ InstallInv /\ ProgressInv /\ TopInv
      /\ stage[d][s] \in 0 .. 4
    BY RecordsParts DEF LedgerInv, SnapshotInv, RowsInv, IInv, TypeInv, TypeOK
<1>2. headVersions[s].ts.locked
    BY <1>1, WordsWritten DEF LockInv, LockedAt
<1>3. CASE pc[d] = "install" /\ stage[d][s] <= 2
    BY <1>1, <1>3, LocksExclude DEF LockInv, LockedAt
<1>4. CASE pc[d] = "install" /\ stage[d][s] = 3
    BY <1>1, <1>2, <1>4, WordsWritten DEF InstallInv, InstallAt
<1>5. CASE cts[d] \in headVersions[s].ytd
    BY <1>1, <1>2, <1>5 DEF TopInv, OnTop, Busy, InFlight
<1>6. CASE pc[d] = "install" /\ stage[d][s] = 4
    BY <1>1, <1>5, <1>6 DEF ProgressInv
<1>7. CASE pc[d] = "submit"
    BY <1>5, <1>7 DEF LedgerInv, DoneInv
<1> QED
    BY <1>1, <1>3, <1>4, <1>6, <1>7 DEF InFlight

\* When it has its locks, an order takes effect on all its stocks at once.
LEMMA AcquiredCommits ==
    ASSUME LedgerInv, NEW c \in Clients, LocksAcquired(c)
    PROVE  Ledger!Commit(c, items[c], cts[c])
<1>1. TypeOK /\ LockInv /\ VectorInv /\ TopInv /\ DrawnInv /\ items[c] \subseteq Stocks
    BY Phased DEF LedgerInv, SnapshotInv, RowsInv, IInv
<1>2. /\ UNCHANGED <<items, headVersions, heads, cts, lastCommittedVector>>
      /\ pc[c] = "lock" /\ pc'[c] = "install" /\ won[c] = items[c]
      /\ \A d \in Clients \ {c} : pc'[d] = pc[d]
    BY <1>1 DEF TypeOK, LocksAcquired, serverVars, oracleVars
<1>3. ~InFlight(c) /\ InFlight(c)' /\ \A d \in Clients \ {c} : InFlight(d)' <=> InFlight(d)
    BY <1>2 DEF InFlight
<1>4. ASSUME NEW d \in Clients, InFlight(d) PROVE items[d] \cap items[c] = {} /\ cts[d] # cts[c]
    <2>1. d # c /\ Busy(d) /\ Busy(c)
        BY <1>2, <1>4, <1>3 DEF InFlight, Busy
    <2>2. cts[d] # cts[c]
        BY <1>1, <2>1, BusyDiffer
    <2>3. ASSUME NEW s \in items[c] PROVE s \notin items[d]
        BY <1>1, <1>2, <1>4, <2>1, FlightExcludes
    <2> QED
        BY <2>2, <2>3
<1>5. CommittedOrders[c] = Ledger!Nothing /\ lastCommittedVector[c] < cts[c]
    BY <1>1, <1>2, <1>3 DEF CommittedOrders, Ledger!Nothing, VectorInv
<1>6. \A s \in Stocks : cts[c] \notin StockTotals[s]
    <2> SUFFICES ASSUME NEW s \in Stocks PROVE cts[c] \notin StockTotals[s]
        OBVIOUS
    <2>1. cts[c] \notin headVersions[s].ytd
        BY <1>1, <1>2 DEF TopInv, OnTop, Busy
    <2> QED
        BY <1>4, <2>1 DEF StockTotals
<1>7. \A d \in Clients : CommittedOrders[d].rows \cap items[c] = {}
    BY <1>4 DEF CommittedOrders
<1>8. [s \in items[c] |-> heads[c][s].ytd] = [s \in items[c] |-> StockTotals[s]]
    <2> SUFFICES ASSUME NEW s \in items[c] PROVE heads[c][s].ytd = StockTotals[s]
        OBVIOUS
    <2>1. {cts[b] : b \in {d \in Clients : InFlight(d) /\ s \in items[d]}} = {}
        BY <1>4
    <2>2. StockTotals[s] = headVersions[s].ytd
        BY <1>1, <2>1 DEF StockTotals
    <2> QED
        BY <1>1, <1>2, <2>2 DEF LockInv, LockedAt
<1>9. CommittedOrders' =
        [CommittedOrders EXCEPT ![c] =
            [ts |-> cts[c], rows |-> items[c], received |-> [s \in items[c] |-> StockTotals[s]]]]
    BY <1>2, <1>3, <1>8 DEF CommittedOrders
<1>10. StockTotals' =
         [s \in Stocks |-> IF s \in items[c] THEN StockTotals[s] \cup {cts[c]} ELSE StockTotals[s]]
    <2>1. ASSUME NEW s \in Stocks
          PROVE  StockTotals'[s] = IF s \in items[c] THEN StockTotals[s] \cup {cts[c]} ELSE StockTotals[s]
        <3> DEFINE Open == {d \in Clients : InFlight(d) /\ s \in items[d]}
                   OpenNow == {d \in Clients : InFlight(d)' /\ s \in items[d]}
        <3>1. OpenNow = IF s \in items[c] THEN Open \cup {c} ELSE Open
            BY <1>3
        <3>2. StockTotals[s] = headVersions[s].ytd \cup {cts[b] : b \in Open}
            BY DEF StockTotals
        <3>3. StockTotals'[s] = headVersions[s].ytd \cup {cts[b] : b \in OpenNow}
            BY <1>2 DEF StockTotals
        <3> HIDE DEF Open, OpenNow
        <3> QED
            BY <3>1, <3>2, <3>3
    <2> QED
        BY <2>1 DEF StockTotals
<1> QED
    BY <1>2, <1>5, <1>6, <1>7, <1>9, <1>10 DEF Ledger!Commit

\* Announcing an order changes no total: it is in all its stocks.
LEMMA SubmitAnnounces ==
    ASSUME LedgerInv, NEW c \in Clients, SubmitResult(c)
    PROVE  Ledger!Announce(c)
<1>1. TypeOK /\ VectorInv /\ items[c] \subseteq Stocks
    BY Phased DEF LedgerInv, SnapshotInv, RowsInv, IInv
<1>2. /\ UNCHANGED <<items, headVersions, heads, cts>>
      /\ pc[c] = "submit" /\ pc'[c] = "idle"
      /\ \A d \in Clients \ {c} : pc'[d] = pc[d]
      /\ lastCommittedVector' = [lastCommittedVector EXCEPT ![c] = localVector[c][c]]
    BY <1>1 DEF TypeOK, SubmitResult, serverVars, trxVars
<1>3. InFlight(c) /\ ~InFlight(c)' /\ \A d \in Clients \ {c} : InFlight(d)' <=> InFlight(d)
    BY <1>2 DEF InFlight
<1>4. /\ localVector[c][c] = cts[c]
      /\ lastCommittedVector[c] \in Nat /\ cts[c] \in Nat /\ lastCommittedVector[c] < cts[c]
    BY <1>1, <1>2 DEF TypeOK, VectorInv
<1>5. CommittedOrders[c].ts = cts[c] /\ cts[c] # 0
    BY <1>3, <1>4 DEF CommittedOrders
<1>6. CommittedOrders[c] # Ledger!Nothing
    BY <1>5 DEF Ledger!Nothing
<1>7. CommittedOrders' = [CommittedOrders EXCEPT ![c] = Ledger!Nothing]
    BY <1>2, <1>3 DEF CommittedOrders, Ledger!Nothing
<1>8. StockTotals' = StockTotals
    <2>1. ASSUME NEW s \in Stocks PROVE StockTotals'[s] = StockTotals[s]
        <3> DEFINE Open == {d \in Clients : InFlight(d) /\ s \in items[d]}
                   OpenNow == {d \in Clients : InFlight(d)' /\ s \in items[d]}
        <3>1. Open = IF s \in items[c] THEN OpenNow \cup {c} ELSE OpenNow
            BY <1>3
        <3>2. StockTotals[s] = headVersions[s].ytd \cup {cts[b] : b \in Open}
            BY DEF StockTotals
        <3>3. StockTotals'[s] = headVersions[s].ytd \cup {cts[b] : b \in OpenNow}
            BY <1>2 DEF StockTotals
        <3>4. s \in items[c] => cts[c] \in headVersions[s].ytd
            BY <1>2 DEF LedgerInv, DoneInv
        <3> HIDE DEF Open, OpenNow
        <3> QED
            BY <3>1, <3>2, <3>3, <3>4
    <2> QED
        BY <2>1 DEF StockTotals
<1> QED
    BY <1>2, <1>4, <1>5, <1>6, <1>7, <1>8 DEF Ledger!Announce

LEMMA LedgerStep == LedgerInv /\ [Next]_vars => [Ledger!LedgerNext]_(Ledger!ledgerVars)
<1> SUFFICES ASSUME LedgerInv, [Next]_vars PROVE Ledger!LedgerNext \/ LedgerSame
    BY DEF LedgerSame, Ledger!ledgerVars
<1>1. TypeOK
    BY Phased DEF LedgerInv
<1>2. CASE LedgerKept
    BY <1>2, KeptIsSame
<1>3. ASSUME NEW c \in Clients, NEW s \in Stocks, UpdateStock(c, s) PROVE LedgerSame
    BY <1>3, InstallIsSame
<1>4. ASSUME NEW c \in Clients, SubmitResult(c) PROVE Ledger!LedgerNext
    BY <1>4, SubmitAnnounces DEF Ledger!LedgerNext
<1>5. ASSUME NEW c \in Clients, LocksAcquired(c) PROVE Ledger!LedgerNext
    <2>1. items[c] \in (SUBSET Stocks) \ {{}} /\ cts[c] \in 0 .. TimestampRange - 1
        BY <1>5, Phased DEF LedgerInv, CartInv, LocksAcquired
    <2>2. Ledger!Commit(c, items[c], cts[c])
        BY <1>5, AcquiredCommits
    <2> QED
        BY <2>1, <2>2 DEF Ledger!LedgerNext
<1> QED
    BY <1>1, <1>2, <1>3, <1>4, <1>5, KeptSteps

\* New-Order implements the ledger of the stocks: the reads, the compare-and-swaps of
\* lockStock and the writes of updateStock in doOne are together one atomic
\* update of all the stocks of the cart, from what they held just before, that
\* nobody builds on until submitResult announces it.
THEOREM NewOrderIsAtomic == Spec => ImplementsStockLedger
<1>1. Init => Ledger!LedgerInit
    <2> SUFFICES ASSUME Init PROVE Ledger!LedgerInit
        OBVIOUS
    <2>1. \A c \in Clients : ~InFlight(c)
        BY DEF Init, InFlight
    <2>2. StockTotals = [s \in Stocks |-> {}]
        BY <2>1, RecordsParts DEF Init, StockTotals, InitialVersion
    <2>3. CommittedOrders = [c \in Clients |-> Ledger!Nothing]
        BY <2>1 DEF CommittedOrders, Ledger!Nothing
    <2> QED
        BY <2>2, <2>3 DEF Init, Ledger!LedgerInit
<1> QED
    BY <1>1, LedgerInvInit, LedgerInvStep, LedgerStep, PTL
    DEF Spec, ImplementsStockLedger, Ledger!LedgerSpec
=============================================================================
