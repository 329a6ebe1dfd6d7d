-------------------------- MODULE NewOrderTrx_proofs --------------------------
(***************************************************************************)
(* Proofs about New-Order, for any number of clients, stocks, versions and *)
(* transactions: its locks are never leaked, a locked stock is the one the *)
(* holder read, and no update of a stock is lost.                          *)
(*                                                                         *)
(* The argument.  A version is identified by its timestamp: the word a     *)
(* client installs is fresh, because its commit timestamps grow and nobody *)
(* can have read the one it still holds back.  So an equal, usable word    *)
(* means an equal row, although the row was read after the word, and the   *)
(* compare-and-swap on the word validates the whole version.  A word that  *)
(* is visible before its row is there is newer than every snapshot.        *)
(***************************************************************************)
EXTENDS NewOrderTrx, TLAPS, WellFoundedInduction

\* The commit timestamp of an epoch while it does not wrap.
Drawn(e, c) == e * ClientCnt + c

\* Commit timestamps come from a client's epochs.
WasDrawn(t) == \E e \in Clients : \E k \in Nat : k < nextEpoch[e] /\ t = Drawn(k, e)

\* Commit timestamps are drawn within the bound, and grow.
EpochInv ==
    \A c \in Clients :
        /\ pc[c] \in {"snapshot", "execute", "recheck"} => nextEpoch[c] <= MaxEpoch[c]
        /\ cts[c] < Drawn(nextEpoch[c], c)

\* No vector is ahead of the oracle's, and the oracle's is behind every running
\* commit.
VectorInv ==
    \A c \in Clients :
        /\ lastCommittedVector[c] <= cts[c]
        /\ readerVector[c] <= lastCommittedVector[c]
        /\ pc[c] \in {"lock", "revert", "install", "submit"} => lastCommittedVector[c] < cts[c]
        /\ pc[c] \in {"install", "submit"} => localVector[c][c] = cts[c]
        /\ \A d \in Clients \ {c} : localVector[d][c] <= lastCommittedVector[c]

\* Client c has not yet put its current commit timestamp in the head of s.
Uninstalled(c, s) ==
    \/ pc[c] \in {"lock", "revert"}
    \/ pc[c] = "install" /\ stage[c][s] <= 2

\* An unlocked word of client c on stock s is one it has installed.
InstalledBy(c, s, ts) ==
    (~ts.locked /\ ts.clientID = c) =>
        /\ ts.timestamp <= cts[c]
        /\ Uninstalled(c, s) => ts.timestamp < cts[c]

FreshInv ==
    \A c \in Clients, s \in Stocks :
        /\ InstalledBy(c, s, headVersions[s].ts)
        /\ \A d \in Clients : InstalledBy(c, s, heads[d][s].ts)

\* What a transaction goes on with was usable.
CheckedAt(c, s) ==
    /\ pc[c] = "snapshot" => stage[c][s] = 0
    /\ (pc[c] \in {"recheck", "lock", "revert", "install"} /\ s \in items[c]) => Accessible(c, s)

CheckedInv == \A c \in Clients, s \in Stocks : CheckedAt(c, s)

\* A held lock protects the version its holder read.
LockedAt(c, s) ==
    /\ s \in won[c] =>
          /\ s \in items[c]
          /\ pc[c] \in {"lock", "revert", "install"}
          /\ pc[c] = "lock" => stage[c][s] = 1
          /\ pc[c] = "install" => stage[c][s] <= 2
          /\ headVersions[s].ts = LockTimestamp(c, s)
          /\ headVersions[s].ytd = heads[c][s].ytd
    /\ (pc[c] = "install" /\ s \in items[c] /\ stage[c][s] <= 2) => s \in won[c]

LockInv == \A c \in Clients, s \in Stocks : LockedAt(c, s)

\* A locked stock has a holder.
OwnedInv ==
    \A s \in Stocks : headVersions[s].ts.locked => \E c \in Clients : s \in won[c]

\* Between the word and the row of a new head version nobody takes the stock.
InstallAt(c, s) ==
    (pc[c] = "install" /\ s \in items[c] /\ stage[c][s] = 3) =>
        /\ headVersions[s].ts = NewStockVersion(c, s).ts
        /\ headVersions[s].ytd = heads[c][s].ytd

InstallInv == \A c \in Clients, s \in Stocks : InstallAt(c, s)

\* Client c has read the whole head of s and not yet locked all its stocks.
ReadDone(c, s) ==
    /\ s \in items[c]
    /\ \/ pc[c] = "execute" /\ stage[c][s] >= 2
       \/ pc[c] \in {"recheck", "lock"}

\* The word identifies the row: a usable word that is in the head, or that its
\* holder may put back, came with the row the head holds.
IdentityAt(c, s) ==
    (ReadDone(c, s) /\ Accessible(c, s)) =>
        /\ headVersions[s].ts = heads[c][s].ts => headVersions[s].ytd = heads[c][s].ytd
        /\ \A d \in Clients :
              (s \in won[d] /\ heads[d][s].ts = heads[c][s].ts) =>
                  heads[d][s].ytd = heads[c][s].ytd

IdentityInv == \A c \in Clients, s \in Stocks : IdentityAt(c, s)

\* A client that falls back has a slot of the ring to read.
FallbackInRange ==
    \A c \in Clients, r \in Refs :
        (pc[c] = "recheck" /\ stage[c][r] = 3) => ValidIndex(c, r) \in VersionOffsets

TypeInv == TypeOK /\ FallbackInRange

IInv ==
    /\ TypeInv
    /\ EpochInv
    /\ VectorInv
    /\ FreshInv
    /\ CheckedInv
    /\ LockInv
    /\ OwnedInv
    /\ InstallInv
    /\ IdentityInv

-----------------------------------------------------------------------------
(***************************************************************************)
(* Type correctness.                                                       *)
(***************************************************************************)

\* Version offsets advance within the ring of older versions.
LEMMA NextVersionOffsetType ==
    \A o \in VersionOffsets : NextVersionOffset(o) \in VersionOffsets
BY VersionNumAssumption DEF VersionOffsets, NextVersionOffset

\* The first slot of the ring exists.
LEMMA ZeroOffset == 0 \in VersionOffsets
BY VersionNumAssumption DEF VersionOffsets

\* Commit timestamps are naturals below TimestampRange.
LEMMA CommitTimestampType ==
    \A e \in Nat, c \in Clients : CommitTimestamp(e, c) \in Nat
<1> SUFFICES ASSUME NEW e \in Nat, NEW c \in Clients PROVE CommitTimestamp(e, c) \in Nat
    OBVIOUS
<1>1. e * ClientCnt + c \in Nat
    BY ClientCntAssumption DEF Clients
<1> QED
    BY <1>1, TimestampRangeAssumption DEF CommitTimestamp

\* The order regions are circular.
LEMMA SlotsWrap == 0 \in Slots /\ \A i \in Slots : (i + 1) % OrderBuffer \in Slots
BY OrderBufferAssumption DEF Slots

\* Stocks and the rows New-Order only reads are records.
LEMMA RecordsParts == Stocks \subseteq Records /\ Refs \subseteq Records
BY DEF Records

\* The initial versions and rows have their types.
LEMMA InitialTypes ==
    /\ EmptyTimestamp \in TimestampType
    /\ InitialVersion \in VersionType
    /\ EmptyVersion \in VersionType
    /\ EmptyRow \in RowType
<1>1. 0 \in Clients
    BY ClientCntAssumption DEF Clients
<1>2. EmptyTimestamp \in TimestampType /\ InitialTimestamp \in TimestampType
    BY <1>1, ZeroOffset DEF EmptyTimestamp, InitialTimestamp, Timestamp, TimestampType
<1> QED
    BY <1>2 DEF InitialVersion, EmptyVersion, EmptyRow, VersionType, RowType

\* findValidVersion returns -1 or the position of a usable version, the first.
LEMMA findValidVersionFinds ==
    ASSUME NEW list, NEW c, NEW vector
    PROVE  LET i == findValidVersion(list, c, vector)
           IN  \/ i = -1 /\ \A j \in VersionOffsets : ~isRecordAccessible(list[j], c, vector)
               \/ /\ i \in VersionOffsets
                  /\ isRecordAccessible(list[i], c, vector)
                  /\ \A j \in VersionOffsets : isRecordAccessible(list[j], c, vector) => i <= j
<1> DEFINE valid == {j \in VersionOffsets : isRecordAccessible(list[j], c, vector)}
<1>1. CASE valid = {}
    BY <1>1 DEF findValidVersion
<1>2. CASE valid # {}
    <2>1. valid \subseteq Nat
        BY DEF VersionOffsets
    <2>2. \E x \in valid : \A y \in valid : ~(<<y, x>> \in OpToRel(<, Nat))
        BY <1>2, <2>1, NatLessThanWellFounded, WFMin
    <2>3. PICK x \in valid : \A y \in valid : ~(<<y, x>> \in OpToRel(<, Nat))
        BY <2>2
    <2>4. \A y \in valid : ~(y < x)
        BY <2>1, <2>3 DEF OpToRel
    <2>5. \A y \in valid : x <= y
        BY <2>1, <2>4
    <2>6. \E k \in valid : \A y \in valid : k <= y
        BY <2>5
    <2> DEFINE m == CHOOSE k \in valid : \A y \in valid : k <= y
    <2>7. m \in valid /\ \A y \in valid : m <= y
        BY <2>6
    <2>8. findValidVersion(list, c, vector) = m
        BY <1>2 DEF findValidVersion
    <2> QED
        BY <2>7, <2>8
<1> QED
    BY <1>1, <1>2

\* Every initial state is well typed.
LEMMA TypeInit == Init => TypeInv
<1> SUFFICES ASSUME Init PROVE TypeInv
    OBVIOUS
<1>0. EmptyLogEntry \in LogEntryType
    BY DEF EmptyLogEntry, LogEntryType
<1>1. TypeOK
    BY <1>0, InitialTypes, SlotsWrap DEF Init, TypeOK, Phases
<1>2. FallbackInRange
    BY DEF Init, FallbackInRange
<1> QED
    BY <1>1, <1>2 DEF TypeInv

\* Every step of the oracle reader or of a client keeps the types.
LEMMA TypeStep == TypeInv /\ [Next]_vars => TypeOK'
<1> USE DEF serverVars, orderVars, oracleVars, trxVars, rowVars
<1> SUFFICES ASSUME TypeOK, FallbackInRange, [Next]_vars PROVE TypeOK'
    BY DEF TypeInv
<1>0. CASE UNCHANGED vars
    BY <1>0 DEF TypeOK, vars
<1>1. ASSUME NEW e \in Clients, ReaderRefresh(e) PROVE TypeOK'
    BY <1>1 DEF TypeOK, ReaderRefresh
<1>2. ASSUME NEW c \in Clients, Start(c) PROVE TypeOK'
    BY <1>2 DEF TypeOK, Start, Phases
<1>3. ASSUME NEW c \in Clients, NEW e \in Clients, getReadTimestamp(c, e) PROVE TypeOK'
    BY <1>3 DEF TypeOK, getReadTimestamp, Phases
<1>4. ASSUME NEW c \in Clients, NEW r \in Records, RetrieveTimestamp(c, r) PROVE TypeOK'
    <2>1. WithTimestamp(heads[c][r], headVersions[r].ts) \in VersionType
        BY DEF TypeOK, WithTimestamp, VersionType
    <2> QED
        BY <1>4, <2>1 DEF TypeOK, RetrieveTimestamp
<1>5. ASSUME NEW c \in Clients, NEW r \in Records, RetrieveRow(c, r) PROVE TypeOK'
    <2>1. WithRow(heads[c][r], headVersions[r].ytd) \in VersionType
        BY DEF TypeOK, WithRow, VersionType
    <2> QED
        BY <1>5, <2>1 DEF TypeOK, RetrieveRow
<1>6. ASSUME NEW c \in Clients, NEW r \in Records, RetrievePointerList(c, r) PROVE TypeOK'
    BY <1>6 DEF TypeOK, RetrievePointerList
<1>7. ASSUME NEW c \in Clients, CheckVersionsAbort(c) PROVE TypeOK'
    BY <1>7 DEF TypeOK, CheckVersionsAbort, Phases
<1>8. ASSUME NEW c \in Clients, CheckVersions(c) PROVE TypeOK'
    BY <1>8 DEF TypeOK, CheckVersions, Phases
<1>9. ASSUME NEW c \in Clients, NEW r \in Refs, RetrieveOlderVersion(c, r) PROVE TypeOK'
    <2>1. ValidIndex(c, r) \in VersionOffsets
        BY <1>9 DEF FallbackInRange, RetrieveOlderVersion
    <2>2. olderVersions[r][ValidIndex(c, r)] \in VersionType
        BY <2>1, RecordsParts DEF TypeOK
    <2> QED
        BY <1>9, <2>2, RecordsParts DEF TypeOK, RetrieveOlderVersion
<1>10. ASSUME NEW c \in Clients, NEW r \in Refs, RecheckAbort(c, r) PROVE TypeOK'
    BY <1>10 DEF TypeOK, RecheckAbort, Phases
<1>11. ASSUME NEW c \in Clients, AcquireCommitTimestamp(c) PROVE TypeOK'
    BY <1>11, CommitTimestampType DEF TypeOK, AcquireCommitTimestamp, getNewCommitTimestamp, Phases
<1>12. ASSUME NEW c \in Clients, NEW s \in Stocks, LockStock(c, s) PROVE TypeOK'
    <2>1. LockTimestamp(c, s) \in TimestampType
        BY RecordsParts DEF TypeOK, LockTimestamp, Timestamp, TimestampType, VersionType
    <2>2. WithTimestamp(headVersions[s], LockTimestamp(c, s)) \in VersionType
        BY <2>1, RecordsParts DEF TypeOK, WithTimestamp, VersionType
    <2>3. CASE headVersions[s].ts = heads[c][s].ts
        <3>0. /\ headVersions' = [headVersions EXCEPT ![s] = WithTimestamp(@, LockTimestamp(c, s))]
              /\ won' = [won EXCEPT ![c] = @ \cup {s}]
            BY <1>12, <2>3 DEF LockStock
        <3>1. headVersions' \in [Records -> VersionType]
            BY <2>2, <3>0, RecordsParts DEF TypeOK
        <3>2. won' \in [Clients -> SUBSET Stocks]
            BY <3>0 DEF TypeOK
        <3>3. stage' \in [Clients -> [Records -> 0 .. 4]]
            BY <1>12, RecordsParts DEF TypeOK, LockStock
        <3> QED
            BY <1>12, <3>1, <3>2, <3>3 DEF TypeOK, LockStock
    <2>4. CASE headVersions[s].ts # heads[c][s].ts
        BY <1>12, <2>4, RecordsParts DEF TypeOK, LockStock
    <2> QED
        BY <2>3, <2>4
<1>13. ASSUME NEW c \in Clients, LocksRefused(c) PROVE TypeOK'
    BY <1>13 DEF TypeOK, LocksRefused, Phases
<1>14. ASSUME NEW c \in Clients, NEW s \in Stocks, RevertStockLock(c, s) PROVE TypeOK'
    <2>1. WithTimestamp(headVersions[s], heads[c][s].ts) \in VersionType
        BY RecordsParts DEF TypeOK, WithTimestamp, VersionType
    <2> QED
        BY <1>14, <2>1, RecordsParts DEF TypeOK, RevertStockLock
<1>15. ASSUME NEW c \in Clients, LockAbort(c) PROVE TypeOK'
    BY <1>15 DEF TypeOK, LockAbort, Phases
<1>16. ASSUME NEW c \in Clients, LocksAcquired(c) PROVE TypeOK'
    <2>1. localVector' \in [Clients -> [Clients -> Nat]]
        BY <1>16 DEF TypeOK, LocksAcquired, writeCommandToLog
    <2> DEFINE logged == [d \in Clients |-> IF d < CommandSize THEN localVector'[c][d]
                                           ELSE journal[c].vector[d]]
               part == IF CommandSize > ClientCnt THEN CommandSize - ClientCnt ELSE 0
    <2>a. logged \in [Clients -> Nat]
        BY <2>1 DEF TypeOK, LogEntryType
    <2>b. part \in Nat
        BY ClientCntAssumption, CommandSizeAssumption
    <2>c. LogEntry(journal[c], localVector'[c]) = [vector |-> logged, command |-> part]
        BY DEF LogEntry
    <2>2. LogEntry(journal[c], localVector'[c]) \in LogEntryType
        <3> HIDE DEF logged, part
        <3> QED
            BY <2>a, <2>b, <2>c DEF LogEntryType
    <2>3. journal' \in [Clients -> LogEntryType]
        BY <1>16, <2>2 DEF TypeOK, LocksAcquired, writeCommandToLog
    <2> QED
        BY <1>16, <2>1, <2>3 DEF TypeOK, LocksAcquired, writeCommandToLog, Phases
<1>17. ASSUME NEW c \in Clients, NEW s \in Stocks, UpdateStockPointers(c, s) PROVE TypeOK'
    <2>0. /\ lists[c][s] \in [VersionOffsets -> TimestampType]
          /\ heads[c][s].ts \in TimestampType
        BY RecordsParts DEF TypeOK, VersionType
    <2>1. ShiftPointers(lists[c][s], heads[c][s].ts) \in [VersionOffsets -> TimestampType]
        <3>1. \A i \in VersionOffsets : i # 0 => i - 1 \in VersionOffsets
            BY VersionNumAssumption DEF VersionOffsets
        <3> QED
            BY <2>0, <3>1 DEF ShiftPointers
    <2>2. lists'[c][s] = ShiftPointers(lists[c][s], heads[c][s].ts)
        BY <1>17, RecordsParts DEF TypeOK, UpdateStockPointers
    <2>3. lists' \in [Clients -> [Records -> [VersionOffsets -> TimestampType]]]
        BY <1>17, <2>1, RecordsParts DEF TypeOK, UpdateStockPointers
    <2>5. tsList' = [tsList EXCEPT ![s] = ShiftPointers(lists[c][s], heads[c][s].ts)]
        BY <1>17, <2>2 DEF UpdateStockPointers
    <2>6. tsList' \in [Records -> [VersionOffsets -> TimestampType]]
        BY <2>1, <2>5, RecordsParts DEF TypeOK
    <2>4. stage' \in [Clients -> [Records -> 0 .. 4]]
        BY <1>17, RecordsParts DEF TypeOK, UpdateStockPointers
    <2> QED
        BY <1>17, <2>3, <2>4, <2>6 DEF TypeOK, UpdateStockPointers
<1>18. ASSUME NEW c \in Clients, NEW s \in Stocks, UpdateStockOlderVersions(c, s) PROVE TypeOK'
    <2>1. heads[c][s] \in VersionType /\ heads[c][s].ts.versionOffset \in VersionOffsets
        BY RecordsParts DEF TypeOK, VersionType, TimestampType
    <2> QED
        BY <1>18, <2>1, RecordsParts DEF TypeOK, UpdateStockOlderVersions
<1>19. ASSUME NEW c \in Clients, RetrieveAndIncrementDistrictNextOID(c) PROVE TypeOK'
    BY <1>19 DEF TypeOK, RetrieveAndIncrementDistrictNextOID
<1>20. ASSUME NEW c \in Clients, InsertOrder(c) PROVE TypeOK'
    BY <1>20, ZeroOffset DEF TypeOK, InsertOrder, RowType, Timestamp, TimestampType
<1>21. ASSUME NEW c \in Clients, NEW s \in Stocks, UpdateStockTimestamp(c, s) PROVE TypeOK'
    <2>1. NewStockVersion(c, s).ts \in TimestampType
        BY NextVersionOffsetType, RecordsParts
        DEF TypeOK, NewStockVersion, Timestamp, TimestampType, VersionType
    <2>2. WithTimestamp(headVersions[s], NewStockVersion(c, s).ts) \in VersionType
        BY <2>1, RecordsParts DEF TypeOK, WithTimestamp, VersionType
    <2> QED
        BY <1>21, <2>2, RecordsParts DEF TypeOK, UpdateStockTimestamp
<1>22. ASSUME NEW c \in Clients, NEW s \in Stocks, UpdateStock(c, s) PROVE TypeOK'
    <2>1. NewStockVersion(c, s).ytd \in SUBSET Nat
        BY RecordsParts DEF TypeOK, NewStockVersion, VersionType
    <2>2. WithRow(headVersions[s], NewStockVersion(c, s).ytd) \in VersionType
        BY <2>1, RecordsParts DEF TypeOK, WithRow, VersionType
    <2> QED
        BY <1>22, <2>2, RecordsParts DEF TypeOK, UpdateStock
<1>23. ASSUME NEW c \in Clients, RegisterOrder(c) PROVE TypeOK'
    BY <1>23 DEF TypeOK, RegisterOrder, Phases
<1>24. ASSUME NEW c \in Clients, SubmitResult(c) PROVE TypeOK'
    BY <1>24, SlotsWrap DEF TypeOK, SubmitResult, Phases
<1> QED
    BY <1>0, <1>1, <1>2, <1>3, <1>4, <1>5, <1>6, <1>7, <1>8, <1>9, <1>10, <1>11, <1>12,
       <1>13, <1>14, <1>15, <1>16, <1>17, <1>18, <1>19, <1>20, <1>21, <1>22, <1>23, <1>24
    DEF Next, Step

-----------------------------------------------------------------------------
(***************************************************************************)
(* What the steps on one stock do, record by record.                       *)
(***************************************************************************)

\* The compare-and-swap replaces the word of one head, or nothing.
LEMMA LockStockEffect ==
    ASSUME TypeOK, NEW c \in Clients, NEW s \in Stocks, LockStock(c, s)
    PROVE  /\ pc[c] = "lock" /\ s \in items[c] /\ stage[c][s] = 0
           /\ \/ /\ headVersions[s].ts = heads[c][s].ts
                 /\ headVersions'[s].ts = LockTimestamp(c, s)
                 /\ headVersions'[s].ytd = headVersions[s].ytd
                 /\ won'[c] = won[c] \cup {s}
              \/ headVersions'[s] = headVersions[s] /\ won'[c] = won[c]
           /\ \A t \in Stocks \ {s} : headVersions'[t] = headVersions[t]
           /\ \A d \in Clients \ {c} : won'[d] = won[d]
           /\ stage'[c][s] = 1
           /\ \A d \in Clients, t \in Stocks : (d # c \/ t # s) => stage'[d][t] = stage[d][t]
           /\ UNCHANGED <<pc, items, localVector, heads, cts>>
<1> USE RecordsParts DEF serverVars, orderVars, oracleVars, trxVars, rowVars
<1>1. CASE headVersions[s].ts = heads[c][s].ts
    <2>1. /\ headVersions' = [headVersions EXCEPT ![s] = WithTimestamp(@, LockTimestamp(c, s))]
          /\ won' = [won EXCEPT ![c] = @ \cup {s}]
        BY <1>1 DEF LockStock
    <2>2. /\ headVersions'[s] = WithTimestamp(headVersions[s], LockTimestamp(c, s))
          /\ won'[c] = won[c] \cup {s}
          /\ \A t \in Stocks \ {s} : headVersions'[t] = headVersions[t]
          /\ \A d \in Clients \ {c} : won'[d] = won[d]
        BY <2>1 DEF TypeOK
    <2> QED
        BY <1>1, <2>2 DEF TypeOK, LockStock, WithTimestamp
<1>2. CASE headVersions[s].ts # heads[c][s].ts
    BY <1>2 DEF TypeOK, LockStock
<1> QED
    BY <1>1, <1>2

\* Reverting a lock puts the word back that the client read.
LEMMA RevertStockLockEffect ==
    ASSUME TypeOK, NEW c \in Clients, NEW s \in Stocks, RevertStockLock(c, s)
    PROVE  /\ pc[c] = "revert" /\ s \in won[c]
           /\ headVersions'[s].ts = heads[c][s].ts
           /\ headVersions'[s].ytd = headVersions[s].ytd
           /\ won'[c] = won[c] \ {s}
           /\ \A t \in Stocks \ {s} : headVersions'[t] = headVersions[t]
           /\ \A d \in Clients \ {c} : won'[d] = won[d]
           /\ UNCHANGED <<pc, items, localVector, heads, cts, stage>>
BY RecordsParts DEF TypeOK, RevertStockLock, WithTimestamp, serverVars, orderVars, oracleVars, trxVars, rowVars

\* The first word of an install unlocks the stock with a new version.
LEMMA UpdateStockTimestampEffect ==
    ASSUME TypeOK, NEW c \in Clients, NEW s \in Stocks, UpdateStockTimestamp(c, s)
    PROVE  /\ pc[c] = "install" /\ s \in items[c] /\ stage[c][s] = 2
           /\ headVersions'[s].ts = NewStockVersion(c, s).ts
           /\ headVersions'[s].ytd = headVersions[s].ytd
           /\ won'[c] = won[c] \ {s}
           /\ \A t \in Stocks \ {s} : headVersions'[t] = headVersions[t]
           /\ \A d \in Clients \ {c} : won'[d] = won[d]
           /\ stage'[c][s] = 3
           /\ \A d \in Clients, t \in Stocks : (d # c \/ t # s) => stage'[d][t] = stage[d][t]
           /\ UNCHANGED <<pc, items, localVector, heads, cts>>
BY RecordsParts DEF TypeOK, UpdateStockTimestamp, WithTimestamp, serverVars, orderVars, oracleVars, trxVars, rowVars

\* The rest of an install replaces the row.
LEMMA UpdateStockEffect ==
    ASSUME TypeOK, NEW c \in Clients, NEW s \in Stocks, UpdateStock(c, s)
    PROVE  /\ pc[c] = "install" /\ s \in items[c] /\ stage[c][s] = 3
           /\ headVersions'[s].ts = headVersions[s].ts
           /\ headVersions'[s].ytd = heads[c][s].ytd \cup {cts[c]}
           /\ \A t \in Stocks \ {s} : headVersions'[t] = headVersions[t]
           /\ stage'[c][s] = 4
           /\ \A d \in Clients, t \in Stocks : (d # c \/ t # s) => stage'[d][t] = stage[d][t]
           /\ UNCHANGED <<pc, items, localVector, heads, cts, won>>
BY RecordsParts DEF TypeOK, UpdateStock, WithRow, NewStockVersion, serverVars, orderVars, oracleVars, trxVars, rowVars

\* The first word of a read.
LEMMA RetrieveTimestampEffect ==
    ASSUME TypeOK, NEW c \in Clients, NEW r \in Records, RetrieveTimestamp(c, r)
    PROVE  /\ pc[c] = "execute" /\ stage[c][r] = 0
           /\ heads'[c][r].ts = headVersions[r].ts
           /\ heads'[c][r].ytd = heads[c][r].ytd
           /\ \A d \in Clients, t \in Stocks : (d # c \/ t # r) => heads'[d][t] = heads[d][t]
           /\ stage'[c][r] = 1
           /\ \A d \in Clients, t \in Stocks : (d # c \/ t # r) => stage'[d][t] = stage[d][t]
           /\ UNCHANGED <<pc, items, localVector, headVersions, cts, won>>
BY RecordsParts DEF TypeOK, RetrieveTimestamp, WithTimestamp, serverVars, orderVars, oracleVars, trxVars, rowVars

\* The rest of a read.
LEMMA RetrieveRowEffect ==
    ASSUME TypeOK, NEW c \in Clients, NEW r \in Records, RetrieveRow(c, r)
    PROVE  /\ pc[c] = "execute" /\ stage[c][r] = 1
           /\ heads'[c][r].ts = heads[c][r].ts
           /\ heads'[c][r].ytd = headVersions[r].ytd
           /\ \A d \in Clients, t \in Stocks : (d # c \/ t # r) => heads'[d][t] = heads[d][t]
           /\ stage'[c][r] = 2
           /\ \A d \in Clients, t \in Stocks : (d # c \/ t # r) => stage'[d][t] = stage[d][t]
           /\ UNCHANGED <<pc, items, localVector, headVersions, cts, won>>
BY RecordsParts DEF TypeOK, RetrieveRow, WithRow, serverVars, orderVars, oracleVars, trxVars, rowVars

\* Falling back replaces no buffer of a stock.
LEMMA RetrieveOlderVersionEffect ==
    ASSUME TypeOK, NEW c \in Clients, NEW r \in Refs, RetrieveOlderVersion(c, r)
    PROVE  /\ pc[c] = "recheck"
           /\ \A d \in Clients, t \in Stocks : heads'[d][t] = heads[d][t] /\ stage'[d][t] = stage[d][t]
           /\ UNCHANGED <<pc, items, localVector, headVersions, cts, won>>
BY RecordsAssumption, RecordsParts
DEF TypeOK, RetrieveOlderVersion, serverVars, orderVars, oracleVars, trxVars, rowVars

\* Installing the pointer list touches no head.
LEMMA UpdateStockPointersEffect ==
    ASSUME TypeOK, NEW c \in Clients, NEW s \in Stocks, UpdateStockPointers(c, s)
    PROVE  /\ pc[c] = "install" /\ s \in items[c] /\ stage[c][s] = 0
           /\ stage'[c][s] = 1
           /\ \A d \in Clients, t \in Stocks : (d # c \/ t # s) => stage'[d][t] = stage[d][t]
           /\ UNCHANGED <<pc, items, localVector, headVersions, heads, cts, won>>
BY RecordsParts DEF TypeOK, UpdateStockPointers, serverVars, orderVars, oracleVars, trxVars, rowVars

\* Nor does installing the old version.
LEMMA UpdateStockOlderVersionsEffect ==
    ASSUME TypeOK, NEW c \in Clients, NEW s \in Stocks, UpdateStockOlderVersions(c, s)
    PROVE  /\ pc[c] = "install" /\ s \in items[c] /\ stage[c][s] = 1
           /\ stage'[c][s] = 2
           /\ \A d \in Clients, t \in Stocks : (d # c \/ t # s) => stage'[d][t] = stage[d][t]
           /\ UNCHANGED <<pc, items, localVector, headVersions, heads, cts, won>>
BY RecordsParts DEF TypeOK, UpdateStockOlderVersions, serverVars, orderVars, oracleVars, trxVars, rowVars

\* The words a client writes: its lock, and its new version.
LEMMA WordsWritten ==
    ASSUME NEW c \in Clients, NEW s \in Stocks
    PROVE  /\ LockTimestamp(c, s).locked /\ LockTimestamp(c, s).clientID = c
           /\ ~NewStockVersion(c, s).ts.locked
           /\ NewStockVersion(c, s).ts.clientID = c
           /\ NewStockVersion(c, s).ts.timestamp = cts[c]
BY DEF LockTimestamp, NewStockVersion, Timestamp

\* Two clients never hold the lock of one stock.
LEMMA LocksExclude ==
    ASSUME LockInv, NEW c \in Clients, NEW d \in Clients, NEW s \in Stocks,
           s \in won[c], s \in won[d]
    PROVE  c = d
<1>1. headVersions[s].ts = LockTimestamp(c, s) /\ headVersions[s].ts = LockTimestamp(d, s)
    BY DEF LockInv, LockedAt
<1>2. LockTimestamp(c, s).clientID = c /\ LockTimestamp(d, s).clientID = d
    BY WordsWritten
<1> QED
    BY <1>1, <1>2

\* A client falls back only to a version findValidVersion found.
LEMMA FallbackStep == TypeOK /\ FallbackInRange /\ [Next]_vars => FallbackInRange'
<1> USE DEF serverVars, orderVars, oracleVars, trxVars, rowVars
<1> SUFFICES ASSUME TypeOK, FallbackInRange, [Next]_vars PROVE FallbackInRange'
    OBVIOUS
<1>0. CASE UNCHANGED <<pc, stage, lists, localVector>>
    BY <1>0 DEF FallbackInRange, ValidIndex
<1>1. ASSUME NEW c \in Clients, Start(c) PROVE FallbackInRange'
    BY <1>1 DEF TypeOK, FallbackInRange, ValidIndex, Start
<1>2. ASSUME NEW c \in Clients, NEW e \in Clients, getReadTimestamp(c, e) PROVE FallbackInRange'
    BY <1>2 DEF TypeOK, FallbackInRange, ValidIndex, getReadTimestamp
<1>3. ASSUME NEW c \in Clients, NEW r \in Records, RetrieveTimestamp(c, r) PROVE FallbackInRange'
    BY <1>3, RecordsParts DEF TypeOK, FallbackInRange, ValidIndex, RetrieveTimestamp
<1>4. ASSUME NEW c \in Clients, NEW r \in Records, RetrieveRow(c, r) PROVE FallbackInRange'
    BY <1>4, RecordsParts DEF TypeOK, FallbackInRange, ValidIndex, RetrieveRow
<1>5. ASSUME NEW c \in Clients, NEW r \in Records, RetrievePointerList(c, r) PROVE FallbackInRange'
    BY <1>5, RecordsParts DEF TypeOK, FallbackInRange, ValidIndex, RetrievePointerList
<1>6. ASSUME NEW c \in Clients, CheckVersionsAbort(c) PROVE FallbackInRange'
    BY <1>6 DEF TypeOK, FallbackInRange, ValidIndex, CheckVersionsAbort
<1>7. ASSUME NEW c \in Clients, CheckVersions(c) PROVE FallbackInRange'
    <2> SUFFICES ASSUME NEW d \in Clients, NEW r \in Refs, pc'[d] = "recheck", stage'[d][r] = 3
                 PROVE  ValidIndex(d, r)' \in VersionOffsets
        BY DEF FallbackInRange
    <2>1. ValidIndex(d, r)' = ValidIndex(d, r)
        BY <1>7 DEF CheckVersions, ValidIndex
    <2>2. CASE d = c
        <3>1. ~Accessible(c, r)
            BY <1>7, <2>2, RecordsParts DEF CheckVersions, TypeOK
        <3>2. ~(ValidIndex(c, r) < 0)
            BY <1>7, <3>1 DEF CheckVersions, MustAbort
        <3>3. ValidIndex(c, r) = -1 \/ ValidIndex(c, r) \in VersionOffsets
            BY findValidVersionFinds DEF ValidIndex
        <3> QED
            BY <2>1, <2>2, <3>2, <3>3
    <2>3. CASE d # c
        BY <1>7, <2>1, <2>3, RecordsParts DEF CheckVersions, TypeOK, FallbackInRange
    <2> QED
        BY <2>2, <2>3
<1>8. ASSUME NEW c \in Clients, NEW r \in Refs, RetrieveOlderVersion(c, r) PROVE FallbackInRange'
    BY <1>8, RecordsParts DEF TypeOK, FallbackInRange, ValidIndex, RetrieveOlderVersion
<1>9. ASSUME NEW c \in Clients, NEW r \in Refs, RecheckAbort(c, r) PROVE FallbackInRange'
    BY <1>9 DEF TypeOK, FallbackInRange, ValidIndex, RecheckAbort
<1>10. ASSUME NEW c \in Clients, AcquireCommitTimestamp(c) PROVE FallbackInRange'
    BY <1>10 DEF TypeOK, FallbackInRange, ValidIndex, AcquireCommitTimestamp, getNewCommitTimestamp
<1>11. ASSUME NEW c \in Clients, NEW s \in Stocks, LockStock(c, s) PROVE FallbackInRange'
    BY <1>11, RecordsParts DEF TypeOK, FallbackInRange, ValidIndex, LockStock
<1>12. ASSUME NEW c \in Clients, LocksRefused(c) PROVE FallbackInRange'
    BY <1>12 DEF TypeOK, FallbackInRange, ValidIndex, LocksRefused
<1>13. ASSUME NEW c \in Clients, LockAbort(c) PROVE FallbackInRange'
    BY <1>13 DEF TypeOK, FallbackInRange, ValidIndex, LockAbort
<1>14. ASSUME NEW c \in Clients, LocksAcquired(c) PROVE FallbackInRange'
    BY <1>14 DEF TypeOK, FallbackInRange, ValidIndex, LocksAcquired, writeCommandToLog
<1>15. ASSUME NEW c \in Clients, NEW s \in Stocks, UpdateStockPointers(c, s) PROVE FallbackInRange'
    BY <1>15, RecordsParts DEF TypeOK, FallbackInRange, ValidIndex, UpdateStockPointers
<1>16. ASSUME NEW c \in Clients, NEW s \in Stocks, UpdateStockOlderVersions(c, s) PROVE FallbackInRange'
    BY <1>16, RecordsParts DEF TypeOK, FallbackInRange, ValidIndex, UpdateStockOlderVersions
<1>17. ASSUME NEW c \in Clients, NEW s \in Stocks, UpdateStockTimestamp(c, s) PROVE FallbackInRange'
    BY <1>17, RecordsParts DEF TypeOK, FallbackInRange, ValidIndex, UpdateStockTimestamp
<1>18. ASSUME NEW c \in Clients, NEW s \in Stocks, UpdateStock(c, s) PROVE FallbackInRange'
    BY <1>18, RecordsParts DEF TypeOK, FallbackInRange, ValidIndex, UpdateStock
<1>19. ASSUME NEW c \in Clients, RegisterOrder(c) PROVE FallbackInRange'
    BY <1>19 DEF TypeOK, FallbackInRange, ValidIndex, RegisterOrder
<1>20. ASSUME NEW c \in Clients, SubmitResult(c) PROVE FallbackInRange'
    BY <1>20 DEF TypeOK, FallbackInRange, ValidIndex, SubmitResult
<1>21. ASSUME NEW e \in Clients, ReaderRefresh(e) PROVE FallbackInRange'
    BY <1>0, <1>21 DEF ReaderRefresh
<1>22. ASSUME NEW c \in Clients, NEW s \in Stocks, RevertStockLock(c, s) PROVE FallbackInRange'
    BY <1>0, <1>22 DEF RevertStockLock
<1>23. ASSUME NEW c \in Clients, RetrieveAndIncrementDistrictNextOID(c) PROVE FallbackInRange'
    BY <1>0, <1>23 DEF RetrieveAndIncrementDistrictNextOID
<1>24. ASSUME NEW c \in Clients, InsertOrder(c) PROVE FallbackInRange'
    BY <1>0, <1>24 DEF InsertOrder
<1> QED
BY <1>0, <1>1, <1>2, <1>3, <1>4, <1>5, <1>6, <1>7, <1>8, <1>9, <1>10, <1>11, <1>12, <1>13,
       <1>14, <1>15, <1>16, <1>17, <1>18, <1>19, <1>20, <1>21, <1>22, <1>23, <1>24
    DEF Next, Step, vars

\* Commit timestamps of an epoch within the bound do not wrap, and grow.
LEMMA DrawnGrows ==
    ASSUME NEW c \in Clients, NEW e \in Nat
    PROVE  /\ Drawn(e, c) \in Nat
           /\ Drawn(e, c) < Drawn(e + 1, c)
           /\ e <= MaxEpoch[c] => CommitTimestamp(e, c) = Drawn(e, c)
<1>1. ClientCnt \in Nat /\ ClientCnt >= 1 /\ c \in Nat /\ c < ClientCnt
    BY ClientCntAssumption DEF Clients
<1>2. e * ClientCnt \in Nat /\ (e + 1) * ClientCnt = e * ClientCnt + ClientCnt
    BY <1>1
<1>3. ASSUME e <= MaxEpoch[c] PROVE CommitTimestamp(e, c) = Drawn(e, c)
    <2> DEFINE m == MaxEpoch[c]
    <2>1. m \in Nat /\ (m + 1) * ClientCnt < TimestampRange /\ e + 1 <= m + 1
        BY <1>3, MaxEpochAssumption, NoWrapAssumption
    <2>2. (e + 1) * ClientCnt <= (m + 1) * ClientCnt
        BY <1>1, <2>1
    <2>3. e * ClientCnt + c \in 0 .. TimestampRange - 1
        BY <1>1, <1>2, <2>1, <2>2, TimestampRangeAssumption
    <2> HIDE DEF m
    <2> QED
        BY <2>3, TimestampRangeAssumption DEF CommitTimestamp, Drawn
<1> QED
    BY <1>1, <1>2, <1>3 DEF Drawn

\* No two clients draw one commit timestamp, and no client draws one twice.
LEMMA DrawnDiffer ==
    ASSUME NEW c \in Clients, NEW d \in Clients, NEW k \in Nat, NEW n \in Nat,
           Drawn(k, c) = Drawn(n, d)
    PROVE  c = d /\ k = n
<1>1. ClientCnt \in Nat /\ ClientCnt >= 1 /\ c \in Nat /\ c < ClientCnt /\ d \in Nat /\ d < ClientCnt
    BY ClientCntAssumption DEF Clients
<1>2. k * ClientCnt \in Nat /\ n * ClientCnt \in Nat
    BY <1>1
<1>3. k * ClientCnt + c = n * ClientCnt + d
    BY DEF Drawn
<1>4. ASSUME k < n PROVE FALSE
    <2>1. k + 1 <= n /\ (k + 1) * ClientCnt = k * ClientCnt + ClientCnt
        BY <1>1, <1>4
    <2>2. (k + 1) * ClientCnt <= n * ClientCnt
        BY <1>1, <2>1
    <2> QED
        BY <1>1, <1>2, <1>3, <2>1, <2>2
<1>5. ASSUME n < k PROVE FALSE
    <2>1. n + 1 <= k /\ (n + 1) * ClientCnt = n * ClientCnt + ClientCnt
        BY <1>1, <1>5
    <2>2. (n + 1) * ClientCnt <= k * ClientCnt
        BY <1>1, <2>1
    <2> QED
        BY <1>1, <1>2, <1>3, <2>1, <2>2
<1>6. k = n
    BY <1>4, <1>5
<1> QED
    BY <1>1, <1>2, <1>3, <1>6

\* A client draws within the bound, and each commit timestamp is larger.
LEMMA EpochStep == TypeOK /\ EpochInv /\ [Next]_vars => EpochInv'
<1> USE DEF serverVars, orderVars, oracleVars, trxVars, rowVars
<1> SUFFICES ASSUME TypeOK, EpochInv, [Next]_vars PROVE EpochInv'
    OBVIOUS
<1>0. CASE UNCHANGED <<pc, nextEpoch, cts>>
    BY <1>0 DEF EpochInv
<1>1. ASSUME NEW c \in Clients, Start(c) PROVE EpochInv'
    BY <1>1 DEF TypeOK, EpochInv, Start
<1>2. ASSUME NEW c \in Clients, NEW e \in Clients, getReadTimestamp(c, e) PROVE EpochInv'
    BY <1>2 DEF TypeOK, EpochInv, getReadTimestamp
<1>3. ASSUME NEW c \in Clients, CheckVersionsAbort(c) PROVE EpochInv'
    BY <1>3 DEF TypeOK, EpochInv, CheckVersionsAbort
<1>4. ASSUME NEW c \in Clients, CheckVersions(c) PROVE EpochInv'
    BY <1>4 DEF TypeOK, EpochInv, CheckVersions
<1>5. ASSUME NEW c \in Clients, NEW r \in Refs, RecheckAbort(c, r) PROVE EpochInv'
    BY <1>5 DEF TypeOK, EpochInv, RecheckAbort
<1>6. ASSUME NEW c \in Clients, AcquireCommitTimestamp(c) PROVE EpochInv'
    <2>1. nextEpoch[c] \in Nat /\ nextEpoch[c] <= MaxEpoch[c]
        BY <1>6 DEF TypeOK, EpochInv, AcquireCommitTimestamp
    <2>2. cts'[c] = Drawn(nextEpoch[c], c) /\ nextEpoch'[c] = nextEpoch[c] + 1
        BY <1>6, <2>1, DrawnGrows DEF TypeOK, AcquireCommitTimestamp, getNewCommitTimestamp
    <2>3. cts'[c] < Drawn(nextEpoch'[c], c)
        BY <2>1, <2>2, DrawnGrows
    <2> QED
        BY <1>6, <2>3 DEF TypeOK, EpochInv, AcquireCommitTimestamp, getNewCommitTimestamp
<1>7. ASSUME NEW c \in Clients, LocksRefused(c) PROVE EpochInv'
    BY <1>7 DEF TypeOK, EpochInv, LocksRefused
<1>8. ASSUME NEW c \in Clients, LockAbort(c) PROVE EpochInv'
    BY <1>8 DEF TypeOK, EpochInv, LockAbort
<1>9. ASSUME NEW c \in Clients, LocksAcquired(c) PROVE EpochInv'
    BY <1>9 DEF TypeOK, EpochInv, LocksAcquired, writeCommandToLog
<1>10. ASSUME NEW c \in Clients, RegisterOrder(c) PROVE EpochInv'
    BY <1>10 DEF TypeOK, EpochInv, RegisterOrder
<1>11. ASSUME NEW c \in Clients, SubmitResult(c) PROVE EpochInv'
    BY <1>11 DEF TypeOK, EpochInv, SubmitResult
<1>12. ASSUME NEW e \in Clients, ReaderRefresh(e) PROVE EpochInv'
    BY <1>0, <1>12 DEF ReaderRefresh
<1>13. ASSUME NEW c \in Clients, NEW r \in Records, RetrieveTimestamp(c, r) PROVE EpochInv'
    BY <1>0, <1>13 DEF RetrieveTimestamp
<1>14. ASSUME NEW c \in Clients, NEW r \in Records, RetrieveRow(c, r) PROVE EpochInv'
    BY <1>0, <1>14 DEF RetrieveRow
<1>15. ASSUME NEW c \in Clients, NEW r \in Records, RetrievePointerList(c, r) PROVE EpochInv'
    BY <1>0, <1>15 DEF RetrievePointerList
<1>16. ASSUME NEW c \in Clients, NEW r \in Refs, RetrieveOlderVersion(c, r) PROVE EpochInv'
    BY <1>0, <1>16 DEF RetrieveOlderVersion
<1>17. ASSUME NEW c \in Clients, NEW s \in Stocks, LockStock(c, s) PROVE EpochInv'
    BY <1>0, <1>17 DEF LockStock
<1>18. ASSUME NEW c \in Clients, NEW s \in Stocks, RevertStockLock(c, s) PROVE EpochInv'
    BY <1>0, <1>18 DEF RevertStockLock
<1>19. ASSUME NEW c \in Clients, NEW s \in Stocks, UpdateStockPointers(c, s) PROVE EpochInv'
    BY <1>0, <1>19 DEF UpdateStockPointers
<1>20. ASSUME NEW c \in Clients, NEW s \in Stocks, UpdateStockOlderVersions(c, s) PROVE EpochInv'
    BY <1>0, <1>20 DEF UpdateStockOlderVersions
<1>21. ASSUME NEW c \in Clients, RetrieveAndIncrementDistrictNextOID(c) PROVE EpochInv'
    BY <1>0, <1>21 DEF RetrieveAndIncrementDistrictNextOID
<1>22. ASSUME NEW c \in Clients, InsertOrder(c) PROVE EpochInv'
    BY <1>0, <1>22 DEF InsertOrder
<1>23. ASSUME NEW c \in Clients, NEW s \in Stocks, UpdateStockTimestamp(c, s) PROVE EpochInv'
    BY <1>0, <1>23 DEF UpdateStockTimestamp
<1>24. ASSUME NEW c \in Clients, NEW s \in Stocks, UpdateStock(c, s) PROVE EpochInv'
    BY <1>0, <1>24 DEF UpdateStock
<1> QED
BY <1>0, <1>1, <1>2, <1>3, <1>4, <1>5, <1>6, <1>7, <1>8, <1>9, <1>10, <1>11, <1>12, <1>13,
       <1>14, <1>15, <1>16, <1>17, <1>18, <1>19, <1>20, <1>21, <1>22, <1>23, <1>24
    DEF Next, Step, vars

\* The commit timestamp a client draws is larger than its last one.
LEMMA DrawIsLarger ==
    ASSUME TypeOK, EpochInv, NEW c \in Clients, AcquireCommitTimestamp(c)
    PROVE  cts'[c] \in Nat /\ cts[c] < cts'[c]
<1>1. nextEpoch[c] \in Nat /\ nextEpoch[c] <= MaxEpoch[c] /\ cts[c] < Drawn(nextEpoch[c], c)
    BY DEF TypeOK, EpochInv, AcquireCommitTimestamp
<1>2. cts'[c] = CommitTimestamp(nextEpoch[c], c)
    BY DEF TypeOK, AcquireCommitTimestamp, getNewCommitTimestamp
<1> QED
    BY <1>1, <1>2, DrawnGrows

\* Announced timestamps only trail the commits they announce.
LEMMA VectorStep == TypeOK /\ EpochInv /\ VectorInv /\ [Next]_vars => VectorInv'
<1> USE DEF serverVars, orderVars, oracleVars, trxVars, rowVars
<1> SUFFICES ASSUME TypeOK, EpochInv, VectorInv, [Next]_vars PROVE VectorInv'
    OBVIOUS
<1>0. CASE UNCHANGED <<lastCommittedVector, readerVector, pc, cts, localVector>>
    BY <1>0 DEF VectorInv
<1>1. ASSUME NEW e \in Clients, ReaderRefresh(e) PROVE VectorInv'
    BY <1>1 DEF TypeOK, VectorInv, ReaderRefresh
<1>2. ASSUME NEW c \in Clients, Start(c) PROVE VectorInv'
    BY <1>2 DEF TypeOK, VectorInv, Start
<1>3. ASSUME NEW c \in Clients, NEW e \in Clients, getReadTimestamp(c, e) PROVE VectorInv'
    BY <1>3 DEF TypeOK, VectorInv, getReadTimestamp
<1>4. ASSUME NEW c \in Clients, CheckVersionsAbort(c) PROVE VectorInv'
    BY <1>4 DEF TypeOK, VectorInv, CheckVersionsAbort
<1>5. ASSUME NEW c \in Clients, CheckVersions(c) PROVE VectorInv'
    BY <1>5 DEF TypeOK, VectorInv, CheckVersions
<1>6. ASSUME NEW c \in Clients, NEW r \in Refs, RecheckAbort(c, r) PROVE VectorInv'
    BY <1>6 DEF TypeOK, VectorInv, RecheckAbort
<1>7. ASSUME NEW c \in Clients, AcquireCommitTimestamp(c) PROVE VectorInv'
    <2>1. cts[c] < cts'[c] /\ cts'[c] \in Nat /\ \A d \in Clients \ {c} : cts'[d] = cts[d]
        BY <1>7, DrawIsLarger DEF TypeOK, AcquireCommitTimestamp, getNewCommitTimestamp
    <2>2. pc'[c] = "lock" /\ \A d \in Clients \ {c} : pc'[d] = pc[d]
        BY <1>7 DEF TypeOK, AcquireCommitTimestamp
    <2> QED
        BY <1>7, <2>1, <2>2 DEF TypeOK, VectorInv, AcquireCommitTimestamp
<1>8. ASSUME NEW c \in Clients, LocksRefused(c) PROVE VectorInv'
    BY <1>8 DEF TypeOK, VectorInv, LocksRefused
<1>9. ASSUME NEW c \in Clients, LockAbort(c) PROVE VectorInv'
    BY <1>9 DEF TypeOK, VectorInv, LockAbort
<1>10. ASSUME NEW c \in Clients, LocksAcquired(c) PROVE VectorInv'
    BY <1>10 DEF TypeOK, VectorInv, LocksAcquired, writeCommandToLog
<1>11. ASSUME NEW c \in Clients, RegisterOrder(c) PROVE VectorInv'
    BY <1>11 DEF TypeOK, VectorInv, RegisterOrder
<1>12. ASSUME NEW c \in Clients, SubmitResult(c) PROVE VectorInv'
    BY <1>12 DEF TypeOK, VectorInv, SubmitResult
<1>13. ASSUME NEW c \in Clients, NEW r \in Records, RetrieveTimestamp(c, r) PROVE VectorInv'
    BY <1>0, <1>13 DEF RetrieveTimestamp
<1>14. ASSUME NEW c \in Clients, NEW r \in Records, RetrieveRow(c, r) PROVE VectorInv'
    BY <1>0, <1>14 DEF RetrieveRow
<1>15. ASSUME NEW c \in Clients, NEW r \in Records, RetrievePointerList(c, r) PROVE VectorInv'
    BY <1>0, <1>15 DEF RetrievePointerList
<1>16. ASSUME NEW c \in Clients, NEW r \in Refs, RetrieveOlderVersion(c, r) PROVE VectorInv'
    BY <1>0, <1>16 DEF RetrieveOlderVersion
<1>17. ASSUME NEW c \in Clients, NEW s \in Stocks, LockStock(c, s) PROVE VectorInv'
    BY <1>0, <1>17 DEF LockStock
<1>18. ASSUME NEW c \in Clients, NEW s \in Stocks, RevertStockLock(c, s) PROVE VectorInv'
    BY <1>0, <1>18 DEF RevertStockLock
<1>19. ASSUME NEW c \in Clients, NEW s \in Stocks, UpdateStockPointers(c, s) PROVE VectorInv'
    BY <1>0, <1>19 DEF UpdateStockPointers
<1>20. ASSUME NEW c \in Clients, NEW s \in Stocks, UpdateStockOlderVersions(c, s) PROVE VectorInv'
    BY <1>0, <1>20 DEF UpdateStockOlderVersions
<1>21. ASSUME NEW c \in Clients, RetrieveAndIncrementDistrictNextOID(c) PROVE VectorInv'
    BY <1>0, <1>21 DEF RetrieveAndIncrementDistrictNextOID
<1>22. ASSUME NEW c \in Clients, InsertOrder(c) PROVE VectorInv'
    BY <1>0, <1>22 DEF InsertOrder
<1>23. ASSUME NEW c \in Clients, NEW s \in Stocks, UpdateStockTimestamp(c, s) PROVE VectorInv'
    BY <1>0, <1>23 DEF UpdateStockTimestamp
<1>24. ASSUME NEW c \in Clients, NEW s \in Stocks, UpdateStock(c, s) PROVE VectorInv'
    BY <1>0, <1>24 DEF UpdateStock
<1> QED
BY <1>0, <1>1, <1>2, <1>3, <1>4, <1>5, <1>6, <1>7, <1>8, <1>9, <1>10, <1>11, <1>12, <1>13,
       <1>14, <1>15, <1>16, <1>17, <1>18, <1>19, <1>20, <1>21, <1>22, <1>23, <1>24
    DEF Next, Step, vars

\* The word a client is about to install is in no head and no buffer.
LEMMA FreshStep == TypeOK /\ EpochInv /\ FreshInv /\ [Next]_vars => FreshInv'
<1> USE DEF serverVars, orderVars, oracleVars, trxVars, rowVars
<1> SUFFICES ASSUME TypeOK, EpochInv, FreshInv, [Next]_vars PROVE FreshInv'
    OBVIOUS
<1>0. CASE UNCHANGED <<headVersions, heads, cts, pc, stage>>
    BY <1>0 DEF FreshInv, InstalledBy, Uninstalled
<1>1. ASSUME NEW c \in Clients, Start(c) PROVE FreshInv'
    BY <1>1, RecordsParts DEF TypeOK, FreshInv, InstalledBy, Uninstalled, Start
<1>2. ASSUME NEW c \in Clients, NEW e \in Clients, getReadTimestamp(c, e) PROVE FreshInv'
    BY <1>2, RecordsParts DEF TypeOK, FreshInv, InstalledBy, Uninstalled, getReadTimestamp
<1>3. ASSUME NEW c \in Clients, NEW r \in Records, RetrieveTimestamp(c, r) PROVE FreshInv'
    BY <1>3, RetrieveTimestampEffect DEF FreshInv, InstalledBy, Uninstalled
<1>4. ASSUME NEW c \in Clients, NEW r \in Records, RetrieveRow(c, r) PROVE FreshInv'
    BY <1>4, RetrieveRowEffect DEF FreshInv, InstalledBy, Uninstalled
<1>5. ASSUME NEW c \in Clients, NEW r \in Records, RetrievePointerList(c, r) PROVE FreshInv'
    BY <1>5, RecordsParts DEF TypeOK, FreshInv, InstalledBy, Uninstalled, RetrievePointerList
<1>6. ASSUME NEW c \in Clients, CheckVersionsAbort(c) PROVE FreshInv'
    BY <1>6, RecordsParts DEF TypeOK, FreshInv, InstalledBy, Uninstalled, CheckVersionsAbort
<1>7. ASSUME NEW c \in Clients, CheckVersions(c) PROVE FreshInv'
    BY <1>7, RecordsParts DEF TypeOK, FreshInv, InstalledBy, Uninstalled, CheckVersions
<1>8. ASSUME NEW c \in Clients, NEW r \in Refs, RetrieveOlderVersion(c, r) PROVE FreshInv'
    BY <1>8, RetrieveOlderVersionEffect DEF FreshInv, InstalledBy, Uninstalled
<1>9. ASSUME NEW c \in Clients, NEW r \in Refs, RecheckAbort(c, r) PROVE FreshInv'
    BY <1>9, RecordsParts DEF TypeOK, FreshInv, InstalledBy, Uninstalled, RecheckAbort
<1>10. ASSUME NEW c \in Clients, AcquireCommitTimestamp(c) PROVE FreshInv'
    <2>1. cts[c] < cts'[c] /\ cts'[c] \in Nat /\ \A d \in Clients \ {c} : cts'[d] = cts[d]
        BY <1>10, DrawIsLarger DEF TypeOK, AcquireCommitTimestamp, getNewCommitTimestamp
    <2>2. pc'[c] = "lock" /\ \A d \in Clients \ {c} : pc'[d] = pc[d] /\ stage'[d] = stage[d]
        BY <1>10 DEF TypeOK, AcquireCommitTimestamp
    <2>3. UNCHANGED <<headVersions, heads>>
        BY <1>10 DEF AcquireCommitTimestamp
    <2>4. ASSUME NEW d \in Clients, NEW s \in Stocks, NEW ts, ts.timestamp \in Nat, InstalledBy(d, s, ts)
          PROVE  InstalledBy(d, s, ts)'
        <3>1. CASE d = c
            <4>1. cts[c] \in Nat
                BY DEF TypeOK
            <4> QED
                BY <2>1, <2>4, <3>1, <4>1 DEF InstalledBy
        <3>2. CASE d # c
            BY <2>1, <2>2, <2>4, <3>2 DEF InstalledBy, Uninstalled
        <3> QED
            BY <3>1, <3>2
    <2>5. \A s \in Stocks : /\ headVersions[s].ts.timestamp \in Nat
                            /\ \A d \in Clients : heads[d][s].ts.timestamp \in Nat
        BY RecordsParts DEF TypeOK, VersionType, TimestampType
    <2> QED
        BY <2>3, <2>4, <2>5 DEF FreshInv
<1>11. ASSUME NEW c \in Clients, NEW s \in Stocks, LockStock(c, s) PROVE FreshInv'
    <2>1. LockTimestamp(c, s).locked
        BY DEF LockTimestamp, Timestamp
    <2>2. \A d \in Clients, t \in Stocks : Uninstalled(d, t)' <=> Uninstalled(d, t)
        BY <1>11, LockStockEffect DEF Uninstalled
    <2>3. \A t \in Stocks : headVersions'[t].ts = headVersions[t].ts \/ headVersions'[t].ts.locked
        BY <1>11, <2>1, LockStockEffect
    <2>4. heads' = heads /\ cts' = cts
        BY <1>11, LockStockEffect
    <2> QED
        BY <2>2, <2>3, <2>4 DEF FreshInv, InstalledBy
<1>12. ASSUME NEW c \in Clients, LocksRefused(c) PROVE FreshInv'
    BY <1>12, RecordsParts DEF TypeOK, FreshInv, InstalledBy, Uninstalled, LocksRefused
<1>13. ASSUME NEW c \in Clients, NEW s \in Stocks, RevertStockLock(c, s) PROVE FreshInv'
    BY <1>13, RevertStockLockEffect DEF FreshInv, InstalledBy, Uninstalled
<1>14. ASSUME NEW c \in Clients, LockAbort(c) PROVE FreshInv'
    BY <1>14, RecordsParts DEF TypeOK, FreshInv, InstalledBy, Uninstalled, LockAbort
<1>15. ASSUME NEW c \in Clients, LocksAcquired(c) PROVE FreshInv'
    BY <1>15, RecordsParts DEF TypeOK, FreshInv, InstalledBy, Uninstalled, LocksAcquired, writeCommandToLog
<1>16. ASSUME NEW c \in Clients, NEW s \in Stocks, UpdateStockPointers(c, s) PROVE FreshInv'
    BY <1>16, RecordsParts DEF TypeOK, FreshInv, InstalledBy, Uninstalled, UpdateStockPointers
<1>17. ASSUME NEW c \in Clients, NEW s \in Stocks, UpdateStockOlderVersions(c, s) PROVE FreshInv'
    BY <1>17, RecordsParts DEF TypeOK, FreshInv, InstalledBy, Uninstalled, UpdateStockOlderVersions
<1>18. ASSUME NEW c \in Clients, NEW s \in Stocks, UpdateStockTimestamp(c, s) PROVE FreshInv'
    <2>1. NewStockVersion(c, s).ts.clientID = c /\ NewStockVersion(c, s).ts.timestamp = cts[c]
        BY DEF NewStockVersion, Timestamp
    <2>2. \A d \in Clients, t \in Stocks : Uninstalled(d, t)' => Uninstalled(d, t)
        BY <1>18, UpdateStockTimestampEffect DEF Uninstalled
    <2>3. ~Uninstalled(c, s)'
        BY <1>18, UpdateStockTimestampEffect DEF Uninstalled
    <2>4. heads' = heads /\ cts' = cts /\ cts[c] \in Nat
        BY <1>18, UpdateStockTimestampEffect DEF TypeOK
    <2>5. \A t \in Stocks \ {s} : headVersions'[t] = headVersions[t]
        BY <1>18, UpdateStockTimestampEffect
    <2>6. \A d \in Clients : InstalledBy(d, s, headVersions[s].ts)'
        BY <1>18, <2>1, <2>3, <2>4, UpdateStockTimestampEffect DEF InstalledBy
    <2> QED
        BY <2>2, <2>4, <2>5, <2>6 DEF FreshInv, InstalledBy
<1>19. ASSUME NEW c \in Clients, NEW s \in Stocks, UpdateStock(c, s) PROVE FreshInv'
    BY <1>19, UpdateStockEffect DEF FreshInv, InstalledBy, Uninstalled
<1>20. ASSUME NEW c \in Clients, RegisterOrder(c) PROVE FreshInv'
    BY <1>20, RecordsParts DEF TypeOK, FreshInv, InstalledBy, Uninstalled, RegisterOrder
<1>21. ASSUME NEW c \in Clients, SubmitResult(c) PROVE FreshInv'
    BY <1>21, RecordsParts DEF TypeOK, FreshInv, InstalledBy, Uninstalled, SubmitResult
<1>22. ASSUME NEW e \in Clients, ReaderRefresh(e) PROVE FreshInv'
    BY <1>0, <1>22 DEF ReaderRefresh
<1>23. ASSUME NEW c \in Clients, RetrieveAndIncrementDistrictNextOID(c) PROVE FreshInv'
    BY <1>0, <1>23 DEF RetrieveAndIncrementDistrictNextOID
<1>24. ASSUME NEW c \in Clients, InsertOrder(c) PROVE FreshInv'
    BY <1>0, <1>24 DEF InsertOrder
<1> QED
BY <1>0, <1>1, <1>2, <1>3, <1>4, <1>5, <1>6, <1>7, <1>8, <1>9, <1>10, <1>11, <1>12, <1>13,
       <1>14, <1>15, <1>16, <1>17, <1>18, <1>19, <1>20, <1>21, <1>22, <1>23, <1>24
    DEF Next, Step, vars

\* A client goes on only with versions its snapshot may use.
LEMMA CheckedStep == TypeOK /\ CheckedInv /\ [Next]_vars => CheckedInv'
<1> USE DEF serverVars, orderVars, oracleVars, trxVars, rowVars
<1> SUFFICES ASSUME TypeOK, CheckedInv, [Next]_vars,
                    NEW d \in Clients, NEW t \in Stocks
             PROVE  CheckedAt(d, t)'
    BY DEF CheckedInv
<1> USE DEF CheckedAt
<1>a. CheckedAt(d, t) /\ t \in Records
    BY RecordsParts DEF CheckedInv
<1>0. CASE UNCHANGED <<pc, stage, items, heads, localVector>>
    BY <1>0, <1>a DEF Accessible
<1>1. ASSUME NEW c \in Clients, Start(c) PROVE CheckedAt(d, t)'
    BY <1>1, <1>a, RecordsParts DEF TypeOK, Accessible, Start
<1>2. ASSUME NEW c \in Clients, NEW e \in Clients, getReadTimestamp(c, e) PROVE CheckedAt(d, t)'
    BY <1>2, <1>a, RecordsParts DEF TypeOK, Accessible, getReadTimestamp
<1>3. ASSUME NEW c \in Clients, NEW r \in Records, RetrieveTimestamp(c, r) PROVE CheckedAt(d, t)'
    BY <1>3, <1>a, RetrieveTimestampEffect DEF Accessible
<1>4. ASSUME NEW c \in Clients, NEW r \in Records, RetrieveRow(c, r) PROVE CheckedAt(d, t)'
    BY <1>4, <1>a, RetrieveRowEffect DEF Accessible
<1>5. ASSUME NEW c \in Clients, NEW r \in Records, RetrievePointerList(c, r) PROVE CheckedAt(d, t)'
    BY <1>5, <1>a, RecordsParts DEF TypeOK, Accessible, RetrievePointerList
<1>6. ASSUME NEW c \in Clients, CheckVersionsAbort(c) PROVE CheckedAt(d, t)'
    BY <1>6, <1>a, RecordsParts DEF TypeOK, Accessible, CheckVersionsAbort
<1>7. ASSUME NEW c \in Clients, CheckVersions(c) PROVE CheckedAt(d, t)'
    BY <1>7, <1>a, RecordsParts DEF TypeOK, Accessible, CheckVersions, MustAbort
<1>8. ASSUME NEW c \in Clients, NEW r \in Refs, RetrieveOlderVersion(c, r) PROVE CheckedAt(d, t)'
    BY <1>8, <1>a, RetrieveOlderVersionEffect DEF Accessible
<1>9. ASSUME NEW c \in Clients, NEW r \in Refs, RecheckAbort(c, r) PROVE CheckedAt(d, t)'
    BY <1>9, <1>a, RecordsParts DEF TypeOK, Accessible, RecheckAbort
<1>10. ASSUME NEW c \in Clients, AcquireCommitTimestamp(c) PROVE CheckedAt(d, t)'
    BY <1>10, <1>a, RecordsParts DEF TypeOK, Accessible, AcquireCommitTimestamp, getNewCommitTimestamp
<1>11. ASSUME NEW c \in Clients, NEW s \in Stocks, LockStock(c, s) PROVE CheckedAt(d, t)'
    BY <1>11, <1>a, LockStockEffect DEF Accessible
<1>12. ASSUME NEW c \in Clients, LocksRefused(c) PROVE CheckedAt(d, t)'
    BY <1>12, <1>a, RecordsParts DEF TypeOK, Accessible, LocksRefused
<1>13. ASSUME NEW c \in Clients, NEW s \in Stocks, RevertStockLock(c, s) PROVE CheckedAt(d, t)'
    BY <1>13, <1>a, RevertStockLockEffect DEF Accessible
<1>14. ASSUME NEW c \in Clients, LockAbort(c) PROVE CheckedAt(d, t)'
    BY <1>14, <1>a, RecordsParts DEF TypeOK, Accessible, LockAbort
<1>15. ASSUME NEW c \in Clients, LocksAcquired(c) PROVE CheckedAt(d, t)'
    BY <1>15, <1>a, RecordsParts DEF TypeOK, Accessible, LocksAcquired, writeCommandToLog, isRecordAccessible
<1>16. ASSUME NEW c \in Clients, NEW s \in Stocks, UpdateStockPointers(c, s) PROVE CheckedAt(d, t)'
    BY <1>16, <1>a, UpdateStockPointersEffect DEF Accessible
<1>17. ASSUME NEW c \in Clients, NEW s \in Stocks, UpdateStockOlderVersions(c, s) PROVE CheckedAt(d, t)'
    BY <1>17, <1>a, UpdateStockOlderVersionsEffect DEF Accessible
<1>18. ASSUME NEW c \in Clients, NEW s \in Stocks, UpdateStockTimestamp(c, s) PROVE CheckedAt(d, t)'
    BY <1>18, <1>a, UpdateStockTimestampEffect DEF Accessible
<1>19. ASSUME NEW c \in Clients, NEW s \in Stocks, UpdateStock(c, s) PROVE CheckedAt(d, t)'
    BY <1>19, <1>a, UpdateStockEffect DEF Accessible
<1>20. ASSUME NEW c \in Clients, RegisterOrder(c) PROVE CheckedAt(d, t)'
    BY <1>20, <1>a, RecordsParts DEF TypeOK, Accessible, RegisterOrder
<1>21. ASSUME NEW c \in Clients, SubmitResult(c) PROVE CheckedAt(d, t)'
    BY <1>21, <1>a, RecordsParts DEF TypeOK, Accessible, SubmitResult
<1>22. ASSUME NEW e \in Clients, ReaderRefresh(e) PROVE CheckedAt(d, t)'
    BY <1>0, <1>22 DEF ReaderRefresh
<1>23. ASSUME NEW c \in Clients, RetrieveAndIncrementDistrictNextOID(c) PROVE CheckedAt(d, t)'
    BY <1>0, <1>23 DEF RetrieveAndIncrementDistrictNextOID
<1>24. ASSUME NEW c \in Clients, InsertOrder(c) PROVE CheckedAt(d, t)'
    BY <1>0, <1>24 DEF InsertOrder
<1> QED
BY <1>0, <1>1, <1>2, <1>3, <1>4, <1>5, <1>6, <1>7, <1>8, <1>9, <1>10, <1>11, <1>12, <1>13,
       <1>14, <1>15, <1>16, <1>17, <1>18, <1>19, <1>20, <1>21, <1>22, <1>23, <1>24
    DEF Next, Step, vars

\* A lock is held on the version its holder read until the holder lets go.
LEMMA LockStep == TypeOK /\ CheckedInv /\ LockInv /\ InstallInv /\ IdentityInv /\ [Next]_vars => LockInv'
<1> USE DEF serverVars, orderVars, oracleVars, trxVars, rowVars
<1> SUFFICES ASSUME TypeOK, CheckedInv, LockInv, InstallInv, IdentityInv, [Next]_vars,
                    NEW d \in Clients, NEW t \in Stocks
             PROVE  LockedAt(d, t)'
    BY DEF LockInv
<1> USE DEF LockedAt
<1>a. LockedAt(d, t) /\ t \in Records
    BY RecordsParts DEF LockInv
<1>0. CASE UNCHANGED <<won, items, pc, stage, headVersions, heads, cts>>
    BY <1>0, <1>a DEF LockTimestamp
<1>1. ASSUME NEW c \in Clients, Start(c) PROVE LockedAt(d, t)'
    BY <1>1, <1>a, RecordsParts DEF TypeOK, LockTimestamp, Start
<1>2. ASSUME NEW c \in Clients, NEW e \in Clients, getReadTimestamp(c, e) PROVE LockedAt(d, t)'
    BY <1>2, <1>a, RecordsParts DEF TypeOK, LockTimestamp, getReadTimestamp
<1>3. ASSUME NEW c \in Clients, NEW r \in Records, RetrieveTimestamp(c, r) PROVE LockedAt(d, t)'
    <2>1. pc[c] = "execute" /\ UNCHANGED <<pc, items, headVersions, cts, won>>
        BY <1>3, RetrieveTimestampEffect
    <2>2. d # c => heads'[d][t] = heads[d][t] /\ stage'[d][t] = stage[d][t]
        BY <1>3, RetrieveTimestampEffect
    <2> QED
        BY <1>a, <2>1, <2>2 DEF LockTimestamp
<1>4. ASSUME NEW c \in Clients, NEW r \in Records, RetrieveRow(c, r) PROVE LockedAt(d, t)'
    <2>1. pc[c] = "execute" /\ UNCHANGED <<pc, items, headVersions, cts, won>>
        BY <1>4, RetrieveRowEffect
    <2>2. d # c => heads'[d][t] = heads[d][t] /\ stage'[d][t] = stage[d][t]
        BY <1>4, RetrieveRowEffect
    <2> QED
        BY <1>a, <2>1, <2>2 DEF LockTimestamp
<1>5. ASSUME NEW c \in Clients, NEW r \in Records, RetrievePointerList(c, r) PROVE LockedAt(d, t)'
    BY <1>5, <1>a, RecordsParts DEF TypeOK, LockTimestamp, RetrievePointerList
<1>6. ASSUME NEW c \in Clients, CheckVersionsAbort(c) PROVE LockedAt(d, t)'
    BY <1>6, <1>a, RecordsParts DEF TypeOK, LockTimestamp, CheckVersionsAbort
<1>7. ASSUME NEW c \in Clients, CheckVersions(c) PROVE LockedAt(d, t)'
    BY <1>7, <1>a, RecordsParts DEF TypeOK, LockTimestamp, CheckVersions
<1>8. ASSUME NEW c \in Clients, NEW r \in Refs, RetrieveOlderVersion(c, r) PROVE LockedAt(d, t)'
    BY <1>8, <1>a, RetrieveOlderVersionEffect DEF LockTimestamp
<1>9. ASSUME NEW c \in Clients, NEW r \in Refs, RecheckAbort(c, r) PROVE LockedAt(d, t)'
    BY <1>9, <1>a, RecordsParts DEF TypeOK, LockTimestamp, RecheckAbort
<1>10. ASSUME NEW c \in Clients, AcquireCommitTimestamp(c) PROVE LockedAt(d, t)'
    BY <1>10, <1>a, RecordsParts DEF TypeOK, LockTimestamp, AcquireCommitTimestamp, getNewCommitTimestamp
<1>11. ASSUME NEW c \in Clients, NEW s \in Stocks, LockStock(c, s) PROVE LockedAt(d, t)'
    <2>1. Accessible(c, s) /\ ~heads[c][s].ts.locked
        BY <1>11, LockStockEffect DEF CheckedInv, CheckedAt, Accessible, isRecordAccessible
    <2>2. headVersions[s].ts = heads[c][s].ts => headVersions[s].ytd = heads[c][s].ytd
        BY <1>11, <2>1, LockStockEffect DEF IdentityInv, IdentityAt, ReadDone
    <2>0. s \in won[d] => headVersions[s].ts = LockTimestamp(d, s)
        BY DEF LockInv
    <2>3. headVersions[s].ts = heads[c][s].ts => s \notin won[d]
        BY <2>0, <2>1, WordsWritten
    <2>4. LockTimestamp(d, t)' = LockTimestamp(d, t)
        BY <1>11, LockStockEffect DEF LockTimestamp
    <2>5. CASE d = c /\ t = s
        BY <1>11, <1>a, <2>2, <2>3, <2>4, <2>5, LockStockEffect
    <2>6. CASE d = c /\ t # s
        BY <1>11, <1>a, <2>4, <2>6, LockStockEffect
    <2>7. CASE d # c
        BY <1>11, <1>a, <2>3, <2>4, <2>7, LockStockEffect
    <2> QED
        BY <2>5, <2>6, <2>7
<1>12. ASSUME NEW c \in Clients, LocksRefused(c) PROVE LockedAt(d, t)'
    BY <1>12, <1>a, RecordsParts DEF TypeOK, LockTimestamp, LocksRefused
<1>13. ASSUME NEW c \in Clients, NEW s \in Stocks, RevertStockLock(c, s) PROVE LockedAt(d, t)'
    <2>1. t = s /\ d # c => t \notin won[d]
        BY <1>13, RevertStockLockEffect, LocksExclude DEF LockInv
    <2>2. LockTimestamp(d, t)' = LockTimestamp(d, t)
        BY <1>13, RevertStockLockEffect DEF LockTimestamp
    <2> QED
        BY <1>13, <1>a, <2>1, <2>2, RevertStockLockEffect
<1>14. ASSUME NEW c \in Clients, LockAbort(c) PROVE LockedAt(d, t)'
    BY <1>14, <1>a, RecordsParts DEF TypeOK, LockTimestamp, LockAbort
<1>15. ASSUME NEW c \in Clients, LocksAcquired(c) PROVE LockedAt(d, t)'
    <2>1. /\ won[c] = items[c] /\ pc[c] = "lock" /\ stage'[c][t] = 0 /\ pc'[c] = "install"
          /\ d # c => pc'[d] = pc[d] /\ stage'[d] = stage[d]
        BY <1>15, <1>a DEF TypeOK, LocksAcquired
    <2>2. UNCHANGED <<won, items, headVersions, heads, cts>>
        BY <1>15 DEF LocksAcquired
    <2>3. LockTimestamp(d, t)' = LockTimestamp(d, t)
        BY <2>2 DEF LockTimestamp
    <2>4. CASE d = c
        BY <1>a, <2>1, <2>2, <2>3, <2>4
    <2>5. CASE d # c
        BY <1>a, <2>1, <2>2, <2>3, <2>5
    <2> QED
        BY <2>4, <2>5
<1>16. ASSUME NEW c \in Clients, NEW s \in Stocks, UpdateStockPointers(c, s) PROVE LockedAt(d, t)'
    <2>1. LockTimestamp(d, t)' = LockTimestamp(d, t)
        BY <1>16, UpdateStockPointersEffect DEF LockTimestamp
    <2>2. CASE d = c /\ t = s
        BY <1>16, <1>a, <2>1, <2>2, UpdateStockPointersEffect
    <2>3. CASE ~(d = c /\ t = s)
        BY <1>16, <1>a, <2>1, <2>3, UpdateStockPointersEffect
    <2> QED
        BY <2>2, <2>3
<1>17. ASSUME NEW c \in Clients, NEW s \in Stocks, UpdateStockOlderVersions(c, s) PROVE LockedAt(d, t)'
    <2>1. LockTimestamp(d, t)' = LockTimestamp(d, t)
        BY <1>17, UpdateStockOlderVersionsEffect DEF LockTimestamp
    <2>2. CASE d = c /\ t = s
        BY <1>17, <1>a, <2>1, <2>2, UpdateStockOlderVersionsEffect
    <2>3. CASE ~(d = c /\ t = s)
        BY <1>17, <1>a, <2>1, <2>3, UpdateStockOlderVersionsEffect
    <2> QED
        BY <2>2, <2>3
<1>18. ASSUME NEW c \in Clients, NEW s \in Stocks, UpdateStockTimestamp(c, s) PROVE LockedAt(d, t)'
    <2>0. s \in won[c]
        BY <1>18, UpdateStockTimestampEffect DEF LockInv
    <2>1. t = s /\ d # c => t \notin won[d]
        BY <2>0, LocksExclude DEF LockInv
    <2>2. LockTimestamp(d, t)' = LockTimestamp(d, t)
        BY <1>18, UpdateStockTimestampEffect DEF LockTimestamp
    <2> QED
        BY <1>18, <1>a, <2>1, <2>2, UpdateStockTimestampEffect
<1>19. ASSUME NEW c \in Clients, NEW s \in Stocks, UpdateStock(c, s) PROVE LockedAt(d, t)'
    <2>0. headVersions[s].ts = NewStockVersion(c, s).ts
        BY <1>19, UpdateStockEffect DEF InstallInv, InstallAt
    <2>1. t = s => t \notin won[d]
        BY <1>a, <2>0, WordsWritten
    <2>2. LockTimestamp(d, t)' = LockTimestamp(d, t)
        BY <1>19, UpdateStockEffect DEF LockTimestamp
    <2> QED
        BY <1>19, <1>a, <2>1, <2>2, UpdateStockEffect
<1>20. ASSUME NEW c \in Clients, RegisterOrder(c) PROVE LockedAt(d, t)'
    <2>1. t \in won[c] => stage[c][t] = 4 /\ stage[c][t] <= 2
        BY <1>20 DEF LockInv, RegisterOrder, Reached
    <2>2. t \notin won[c]
        BY <2>1
    <2> QED
        BY <1>20, <1>a, <2>2 DEF TypeOK, LockTimestamp, RegisterOrder
<1>21. ASSUME NEW c \in Clients, SubmitResult(c) PROVE LockedAt(d, t)'
    BY <1>21, <1>a, RecordsParts DEF TypeOK, LockTimestamp, SubmitResult
<1>22. ASSUME NEW e \in Clients, ReaderRefresh(e) PROVE LockedAt(d, t)'
    BY <1>0, <1>22 DEF ReaderRefresh
<1>23. ASSUME NEW c \in Clients, RetrieveAndIncrementDistrictNextOID(c) PROVE LockedAt(d, t)'
    BY <1>0, <1>23 DEF RetrieveAndIncrementDistrictNextOID
<1>24. ASSUME NEW c \in Clients, InsertOrder(c) PROVE LockedAt(d, t)'
    BY <1>0, <1>24 DEF InsertOrder
<1> QED
BY <1>0, <1>1, <1>2, <1>3, <1>4, <1>5, <1>6, <1>7, <1>8, <1>9, <1>10, <1>11, <1>12, <1>13,
       <1>14, <1>15, <1>16, <1>17, <1>18, <1>19, <1>20, <1>21, <1>22, <1>23, <1>24
    DEF Next, Step, vars

\* A word is locked only while a client holds the stock.
LEMMA OwnedStep == TypeOK /\ CheckedInv /\ LockInv /\ OwnedInv /\ [Next]_vars => OwnedInv'
<1> USE DEF serverVars, orderVars, oracleVars, trxVars, rowVars
<1> SUFFICES ASSUME TypeOK, CheckedInv, LockInv, OwnedInv, [Next]_vars PROVE OwnedInv'
    OBVIOUS
<1>0. CASE UNCHANGED <<headVersions, won>>
    BY <1>0 DEF OwnedInv
<1>1. ASSUME NEW c \in Clients, NEW s \in Stocks, LockStock(c, s) PROVE OwnedInv'
    BY <1>1, LockStockEffect DEF OwnedInv
<1>2. ASSUME NEW c \in Clients, NEW s \in Stocks, RevertStockLock(c, s) PROVE OwnedInv'
    <2>1. ~headVersions'[s].ts.locked
        BY <1>2, RevertStockLockEffect
        DEF LockInv, LockedAt, CheckedInv, CheckedAt, Accessible, isRecordAccessible
    <2> QED
        BY <1>2, <2>1, RevertStockLockEffect DEF OwnedInv
<1>3. ASSUME NEW c \in Clients, NEW s \in Stocks, UpdateStockTimestamp(c, s) PROVE OwnedInv'
    <2>1. ~headVersions'[s].ts.locked
        BY <1>3, UpdateStockTimestampEffect, WordsWritten
    <2> QED
        BY <1>3, <2>1, UpdateStockTimestampEffect DEF OwnedInv
<1>4. ASSUME NEW c \in Clients, NEW s \in Stocks, UpdateStock(c, s) PROVE OwnedInv'
    <2>1. \A u \in Stocks : headVersions'[u].ts = headVersions[u].ts
        BY <1>4, UpdateStockEffect
    <2>2. won' = won
        BY <1>4, UpdateStockEffect
    <2> QED
        BY <2>1, <2>2 DEF OwnedInv
<1>5. ASSUME NEW e \in Clients, ReaderRefresh(e) PROVE OwnedInv'
    BY <1>0, <1>5 DEF ReaderRefresh
<1>6. ASSUME NEW c \in Clients, Start(c) PROVE OwnedInv'
    BY <1>0, <1>6 DEF Start
<1>7. ASSUME NEW c \in Clients, NEW e \in Clients, getReadTimestamp(c, e) PROVE OwnedInv'
    BY <1>0, <1>7 DEF getReadTimestamp
<1>8. ASSUME NEW c \in Clients, NEW r \in Records, RetrieveTimestamp(c, r) PROVE OwnedInv'
    BY <1>0, <1>8 DEF RetrieveTimestamp
<1>9. ASSUME NEW c \in Clients, NEW r \in Records, RetrieveRow(c, r) PROVE OwnedInv'
    BY <1>0, <1>9 DEF RetrieveRow
<1>10. ASSUME NEW c \in Clients, NEW r \in Records, RetrievePointerList(c, r) PROVE OwnedInv'
    BY <1>0, <1>10 DEF RetrievePointerList
<1>11. ASSUME NEW c \in Clients, CheckVersionsAbort(c) PROVE OwnedInv'
    BY <1>0, <1>11 DEF CheckVersionsAbort
<1>12. ASSUME NEW c \in Clients, CheckVersions(c) PROVE OwnedInv'
    BY <1>0, <1>12 DEF CheckVersions
<1>13. ASSUME NEW c \in Clients, NEW r \in Refs, RetrieveOlderVersion(c, r) PROVE OwnedInv'
    BY <1>0, <1>13 DEF RetrieveOlderVersion
<1>14. ASSUME NEW c \in Clients, NEW r \in Refs, RecheckAbort(c, r) PROVE OwnedInv'
    BY <1>0, <1>14 DEF RecheckAbort
<1>15. ASSUME NEW c \in Clients, AcquireCommitTimestamp(c) PROVE OwnedInv'
    BY <1>0, <1>15 DEF AcquireCommitTimestamp
<1>16. ASSUME NEW c \in Clients, LocksRefused(c) PROVE OwnedInv'
    BY <1>0, <1>16 DEF LocksRefused
<1>17. ASSUME NEW c \in Clients, LockAbort(c) PROVE OwnedInv'
    BY <1>0, <1>17 DEF LockAbort
<1>18. ASSUME NEW c \in Clients, LocksAcquired(c) PROVE OwnedInv'
    BY <1>0, <1>18 DEF LocksAcquired
<1>19. ASSUME NEW c \in Clients, NEW s \in Stocks, UpdateStockPointers(c, s) PROVE OwnedInv'
    BY <1>0, <1>19 DEF UpdateStockPointers
<1>20. ASSUME NEW c \in Clients, NEW s \in Stocks, UpdateStockOlderVersions(c, s) PROVE OwnedInv'
    BY <1>0, <1>20 DEF UpdateStockOlderVersions
<1>21. ASSUME NEW c \in Clients, RetrieveAndIncrementDistrictNextOID(c) PROVE OwnedInv'
    BY <1>0, <1>21 DEF RetrieveAndIncrementDistrictNextOID
<1>22. ASSUME NEW c \in Clients, InsertOrder(c) PROVE OwnedInv'
    BY <1>0, <1>22 DEF InsertOrder
<1>23. ASSUME NEW c \in Clients, RegisterOrder(c) PROVE OwnedInv'
    BY <1>0, <1>23 DEF RegisterOrder
<1>24. ASSUME NEW c \in Clients, SubmitResult(c) PROVE OwnedInv'
    BY <1>0, <1>24 DEF SubmitResult
<1> QED
BY <1>0, <1>1, <1>2, <1>3, <1>4, <1>5, <1>6, <1>7, <1>8, <1>9, <1>10, <1>11, <1>12, <1>13,
       <1>14, <1>15, <1>16, <1>17, <1>18, <1>19, <1>20, <1>21, <1>22, <1>23, <1>24
    DEF Next, Step, vars

\* A version that is not announced is usable to nobody but its own client.
LEMMA UnannouncedUnusable ==
    ASSUME VectorInv, TypeOK, NEW c \in Clients, NEW d \in Clients, c # d,
           pc[d] \in {"lock", "revert", "install", "submit"}, NEW s \in Stocks,
           heads[c][s].ts.clientID = d, heads[c][s].ts.timestamp = cts[d]
    PROVE  ~Accessible(c, s)
<1>1. localVector[c][d] <= lastCommittedVector[d] /\ lastCommittedVector[d] < cts[d]
    BY DEF VectorInv
<1>2. localVector[c][d] \in Nat /\ lastCommittedVector[d] \in Nat /\ cts[d] \in Nat
    BY DEF TypeOK
<1>3. ~(cts[d] <= localVector[c][d])
    BY <1>1, <1>2
<1> QED
    BY <1>3 DEF Accessible, isRecordAccessible

\* Nobody takes a stock whose new row is still on its way.
LEMMA InstallStep == TypeOK /\ VectorInv /\ CheckedInv /\ LockInv /\ InstallInv /\ [Next]_vars => InstallInv'
<1> USE DEF serverVars, orderVars, oracleVars, trxVars, rowVars
<1> SUFFICES ASSUME TypeOK, VectorInv, CheckedInv, LockInv, InstallInv, [Next]_vars,
                    NEW d \in Clients, NEW t \in Stocks
             PROVE  InstallAt(d, t)'
    BY DEF InstallInv
<1> USE DEF InstallAt
<1>a. InstallAt(d, t) /\ t \in Records
    BY RecordsParts DEF InstallInv
<1>0. CASE UNCHANGED <<items, pc, stage, headVersions, heads, cts>>
    BY <1>0, <1>a DEF NewStockVersion
<1>1. ASSUME NEW c \in Clients, Start(c) PROVE InstallAt(d, t)'
    BY <1>1, <1>a, RecordsParts DEF TypeOK, NewStockVersion, Start
<1>2. ASSUME NEW c \in Clients, NEW e \in Clients, getReadTimestamp(c, e) PROVE InstallAt(d, t)'
    BY <1>2, <1>a, RecordsParts DEF TypeOK, NewStockVersion, getReadTimestamp
<1>3. ASSUME NEW c \in Clients, NEW r \in Records, RetrieveTimestamp(c, r) PROVE InstallAt(d, t)'
    <2>1. pc[c] = "execute" /\ UNCHANGED <<pc, items, headVersions, cts>>
        BY <1>3, RetrieveTimestampEffect
    <2>2. d # c => heads'[d][t] = heads[d][t] /\ stage'[d][t] = stage[d][t]
        BY <1>3, RetrieveTimestampEffect
    <2> QED
        BY <1>a, <2>1, <2>2 DEF NewStockVersion
<1>4. ASSUME NEW c \in Clients, NEW r \in Records, RetrieveRow(c, r) PROVE InstallAt(d, t)'
    <2>1. pc[c] = "execute" /\ UNCHANGED <<pc, items, headVersions, cts>>
        BY <1>4, RetrieveRowEffect
    <2>2. d # c => heads'[d][t] = heads[d][t] /\ stage'[d][t] = stage[d][t]
        BY <1>4, RetrieveRowEffect
    <2> QED
        BY <1>a, <2>1, <2>2 DEF NewStockVersion
<1>5. ASSUME NEW c \in Clients, NEW r \in Records, RetrievePointerList(c, r) PROVE InstallAt(d, t)'
    BY <1>5, <1>a, RecordsParts DEF TypeOK, NewStockVersion, RetrievePointerList
<1>6. ASSUME NEW c \in Clients, CheckVersionsAbort(c) PROVE InstallAt(d, t)'
    BY <1>6, <1>a, RecordsParts DEF TypeOK, NewStockVersion, CheckVersionsAbort
<1>7. ASSUME NEW c \in Clients, CheckVersions(c) PROVE InstallAt(d, t)'
    BY <1>7, <1>a, RecordsParts DEF TypeOK, NewStockVersion, CheckVersions
<1>8. ASSUME NEW c \in Clients, NEW r \in Refs, RetrieveOlderVersion(c, r) PROVE InstallAt(d, t)'
    BY <1>8, <1>a, RetrieveOlderVersionEffect DEF NewStockVersion
<1>9. ASSUME NEW c \in Clients, NEW r \in Refs, RecheckAbort(c, r) PROVE InstallAt(d, t)'
    BY <1>9, <1>a, RecordsParts DEF TypeOK, NewStockVersion, RecheckAbort
<1>10. ASSUME NEW c \in Clients, AcquireCommitTimestamp(c) PROVE InstallAt(d, t)'
    BY <1>10, <1>a, RecordsParts DEF TypeOK, NewStockVersion, AcquireCommitTimestamp, getNewCommitTimestamp
<1>11. ASSUME NEW c \in Clients, NEW s \in Stocks, LockStock(c, s) PROVE InstallAt(d, t)'
    <2>0. NewStockVersion(d, t)' = NewStockVersion(d, t)
        BY <1>11, LockStockEffect DEF NewStockVersion
    <2>1. CASE t = s /\ pc[d] = "install" /\ t \in items[d] /\ stage[d][t] = 3
        <3>1. c # d /\ Accessible(c, s)
            BY <1>11, <2>1, LockStockEffect DEF CheckedInv, CheckedAt
        <3>2. headVersions[s].ts.clientID = d /\ headVersions[s].ts.timestamp = cts[d]
            BY <1>a, <2>1, WordsWritten
        <3>3. headVersions[s].ts # heads[c][s].ts
            BY <2>1, <3>1, <3>2, UnannouncedUnusable
        <3>4. headVersions'[s] = headVersions[s]
            BY <1>11, <3>3, LockStockEffect
        <3> QED
            BY <1>11, <1>a, <2>0, <2>1, <3>4, LockStockEffect
    <2>2. CASE ~(t = s /\ pc[d] = "install" /\ t \in items[d] /\ stage[d][t] = 3)
        BY <1>11, <1>a, <2>0, <2>2, LockStockEffect
    <2> QED
        BY <2>1, <2>2
<1>12. ASSUME NEW c \in Clients, LocksRefused(c) PROVE InstallAt(d, t)'
    BY <1>12, <1>a, RecordsParts DEF TypeOK, NewStockVersion, LocksRefused
<1>13. ASSUME NEW c \in Clients, NEW s \in Stocks, RevertStockLock(c, s) PROVE InstallAt(d, t)'
    <2>0. NewStockVersion(d, t)' = NewStockVersion(d, t)
        BY <1>13, RevertStockLockEffect DEF NewStockVersion
    <2>1. headVersions[s].ts.locked
        BY <1>13, RevertStockLockEffect, WordsWritten DEF LockInv, LockedAt
    <2>2. t = s => ~(pc[d] = "install" /\ t \in items[d] /\ stage[d][t] = 3)
        BY <1>a, <2>1, WordsWritten
    <2> QED
        BY <1>13, <1>a, <2>0, <2>2, RevertStockLockEffect
<1>14. ASSUME NEW c \in Clients, LockAbort(c) PROVE InstallAt(d, t)'
    BY <1>14, <1>a, RecordsParts DEF TypeOK, NewStockVersion, LockAbort
<1>15. ASSUME NEW c \in Clients, LocksAcquired(c) PROVE InstallAt(d, t)'
    <2>1. /\ stage'[c][t] = 0 /\ UNCHANGED <<items, headVersions, heads, cts>>
          /\ d # c => pc'[d] = pc[d] /\ stage'[d] = stage[d]
        BY <1>15, <1>a DEF TypeOK, LocksAcquired
    <2>2. NewStockVersion(d, t)' = NewStockVersion(d, t)
        BY <2>1 DEF NewStockVersion
    <2> QED
        BY <1>a, <2>1, <2>2
<1>16. ASSUME NEW c \in Clients, NEW s \in Stocks, UpdateStockPointers(c, s) PROVE InstallAt(d, t)'
    <2>0. NewStockVersion(d, t)' = NewStockVersion(d, t)
        BY <1>16, UpdateStockPointersEffect DEF NewStockVersion
    <2> QED
        BY <1>16, <1>a, <2>0, UpdateStockPointersEffect
<1>17. ASSUME NEW c \in Clients, NEW s \in Stocks, UpdateStockOlderVersions(c, s) PROVE InstallAt(d, t)'
    <2>0. NewStockVersion(d, t)' = NewStockVersion(d, t)
        BY <1>17, UpdateStockOlderVersionsEffect DEF NewStockVersion
    <2> QED
        BY <1>17, <1>a, <2>0, UpdateStockOlderVersionsEffect
<1>18. ASSUME NEW c \in Clients, NEW s \in Stocks, UpdateStockTimestamp(c, s) PROVE InstallAt(d, t)'
    <2>0. NewStockVersion(d, t)' = NewStockVersion(d, t)
        BY <1>18, UpdateStockTimestampEffect DEF NewStockVersion
    <2>1. s \in won[c] /\ headVersions[s].ts.locked /\ headVersions[s].ytd = heads[c][s].ytd
        BY <1>18, UpdateStockTimestampEffect, WordsWritten DEF LockInv, LockedAt
    <2>2. t = s => ~(pc[d] = "install" /\ t \in items[d] /\ stage[d][t] = 3)
        BY <1>a, <2>1, WordsWritten
    <2>3. CASE d = c /\ t = s
        BY <1>18, <2>0, <2>1, <2>3, UpdateStockTimestampEffect
    <2>4. CASE ~(d = c /\ t = s)
        BY <1>18, <1>a, <2>0, <2>2, <2>4, UpdateStockTimestampEffect
    <2> QED
        BY <2>3, <2>4
<1>19. ASSUME NEW c \in Clients, NEW s \in Stocks, UpdateStock(c, s) PROVE InstallAt(d, t)'
    <2>0. NewStockVersion(d, t)' = NewStockVersion(d, t)
        BY <1>19, UpdateStockEffect DEF NewStockVersion
    <2>1. headVersions[s].ts.clientID = c
        BY <1>19, UpdateStockEffect, WordsWritten DEF InstallInv
    <2>2. (t = s /\ d # c) => ~(pc[d] = "install" /\ t \in items[d] /\ stage[d][t] = 3)
        BY <1>a, <2>1, WordsWritten
    <2>3. CASE d = c /\ t = s
        BY <1>19, <2>3, UpdateStockEffect
    <2>4. CASE ~(d = c /\ t = s)
        BY <1>19, <1>a, <2>0, <2>2, <2>4, UpdateStockEffect
    <2> QED
        BY <2>3, <2>4
<1>20. ASSUME NEW c \in Clients, RegisterOrder(c) PROVE InstallAt(d, t)'
    BY <1>20, <1>a, RecordsParts DEF TypeOK, NewStockVersion, RegisterOrder
<1>21. ASSUME NEW c \in Clients, SubmitResult(c) PROVE InstallAt(d, t)'
    BY <1>21, <1>a, RecordsParts DEF TypeOK, NewStockVersion, SubmitResult
<1>22. ASSUME NEW e \in Clients, ReaderRefresh(e) PROVE InstallAt(d, t)'
    BY <1>0, <1>22 DEF ReaderRefresh
<1>23. ASSUME NEW c \in Clients, RetrieveAndIncrementDistrictNextOID(c) PROVE InstallAt(d, t)'
    BY <1>0, <1>23 DEF RetrieveAndIncrementDistrictNextOID
<1>24. ASSUME NEW c \in Clients, InsertOrder(c) PROVE InstallAt(d, t)'
    BY <1>0, <1>24 DEF InsertOrder
<1> QED
BY <1>0, <1>1, <1>2, <1>3, <1>4, <1>5, <1>6, <1>7, <1>8, <1>9, <1>10, <1>11, <1>12, <1>13,
       <1>14, <1>15, <1>16, <1>17, <1>18, <1>19, <1>20, <1>21, <1>22, <1>23, <1>24
    DEF Next, Step, vars

\* A word that came with another row is never put in a head again.
LEMMA IdentityStep == TypeOK /\ VectorInv /\ FreshInv /\ CheckedInv /\ LockInv /\ InstallInv /\ IdentityInv /\ [Next]_vars => IdentityInv'
<1> USE DEF serverVars, orderVars, oracleVars, trxVars, rowVars
<1> SUFFICES ASSUME TypeOK, VectorInv, FreshInv, CheckedInv, LockInv, InstallInv, IdentityInv, [Next]_vars,
                    NEW d \in Clients, NEW t \in Stocks
             PROVE  IdentityAt(d, t)'
    BY DEF IdentityInv
<1> USE DEF IdentityAt
<1>a. IdentityAt(d, t) /\ t \in Records
    BY RecordsParts DEF IdentityInv
<1>0. CASE UNCHANGED <<items, pc, stage, headVersions, heads, won, localVector>>
    BY <1>0, <1>a DEF ReadDone, Accessible
<1>1. ASSUME NEW c \in Clients, Start(c) PROVE IdentityAt(d, t)'
    BY <1>1, <1>a, RecordsParts DEF TypeOK, ReadDone, Accessible, Start
<1>2. ASSUME NEW c \in Clients, NEW e \in Clients, getReadTimestamp(c, e) PROVE IdentityAt(d, t)'
    <2>1. stage[c][t] = 0 /\ UNCHANGED <<items, stage, heads, headVersions, won>>
        BY <1>2 DEF CheckedInv, CheckedAt, getReadTimestamp
    <2>2. pc'[c] \in {"snapshot", "execute"}
        BY <1>2 DEF TypeOK, getReadTimestamp
    <2>3. d # c => pc'[d] = pc[d] /\ localVector'[d] = localVector[d]
        BY <1>2 DEF TypeOK, getReadTimestamp
    <2> QED
        BY <1>a, <2>1, <2>2, <2>3 DEF ReadDone, Accessible
<1>3. ASSUME NEW c \in Clients, NEW r \in Records, RetrieveTimestamp(c, r) PROVE IdentityAt(d, t)'
    <2>1. \A e \in Clients : t \in won[e] => heads'[e][t] = heads[e][t]
        BY <1>3, RetrieveTimestampEffect DEF LockInv, LockedAt
    <2>2. CASE d = c /\ t = r
        BY <1>3, <2>2, RetrieveTimestampEffect DEF ReadDone
    <2>3. CASE ~(d = c /\ t = r)
        <3>1. (ReadDone(d, t)' <=> ReadDone(d, t)) /\ (Accessible(d, t)' <=> Accessible(d, t))
            BY <1>3, <2>3, RetrieveTimestampEffect DEF ReadDone, Accessible
        <3> QED
            BY <1>3, <1>a, <2>1, <2>3, <3>1, RetrieveTimestampEffect
    <2> QED
        BY <2>2, <2>3
<1>4. ASSUME NEW c \in Clients, NEW r \in Records, RetrieveRow(c, r) PROVE IdentityAt(d, t)'
    <2>1. \A e \in Clients : t \in won[e] => heads'[e][t] = heads[e][t]
        BY <1>4, RetrieveRowEffect DEF LockInv, LockedAt
    <2>2. CASE d = c /\ t = r
        <3>1. \A e \in Clients : t \in won[e] => heads[e][t].ytd = headVersions[t].ytd
            BY DEF LockInv, LockedAt
        <3> QED
            BY <1>4, <2>1, <2>2, <3>1, RetrieveRowEffect
    <2>3. CASE ~(d = c /\ t = r)
        <3>1. (ReadDone(d, t)' <=> ReadDone(d, t)) /\ (Accessible(d, t)' <=> Accessible(d, t))
            BY <1>4, <2>3, RetrieveRowEffect DEF ReadDone, Accessible
        <3> QED
            BY <1>4, <1>a, <2>1, <2>3, <3>1, RetrieveRowEffect
    <2> QED
        BY <2>2, <2>3
<1>5. ASSUME NEW c \in Clients, NEW r \in Records, RetrievePointerList(c, r) PROVE IdentityAt(d, t)'
    BY <1>5, <1>a, RecordsParts DEF TypeOK, ReadDone, Accessible, RetrievePointerList
<1>6. ASSUME NEW c \in Clients, CheckVersionsAbort(c) PROVE IdentityAt(d, t)'
    BY <1>6, <1>a, RecordsParts DEF TypeOK, ReadDone, Accessible, CheckVersionsAbort
<1>7. ASSUME NEW c \in Clients, CheckVersions(c) PROVE IdentityAt(d, t)'
    BY <1>7, <1>a, RecordsParts DEF TypeOK, ReadDone, Accessible, CheckVersions, Reached, ReadSet
<1>8. ASSUME NEW c \in Clients, NEW r \in Refs, RetrieveOlderVersion(c, r) PROVE IdentityAt(d, t)'
    <2>1. ReadDone(d, t)' => ReadDone(d, t)
        BY <1>8, RetrieveOlderVersionEffect DEF ReadDone
    <2>2. Accessible(d, t)' <=> Accessible(d, t)
        BY <1>8, RetrieveOlderVersionEffect DEF Accessible
    <2> QED
        BY <1>8, <1>a, <2>1, <2>2, RetrieveOlderVersionEffect
<1>9. ASSUME NEW c \in Clients, NEW r \in Refs, RecheckAbort(c, r) PROVE IdentityAt(d, t)'
    BY <1>9, <1>a, RecordsParts DEF TypeOK, ReadDone, Accessible, RecheckAbort
<1>10. ASSUME NEW c \in Clients, AcquireCommitTimestamp(c) PROVE IdentityAt(d, t)'
    BY <1>10, <1>a, RecordsParts DEF TypeOK, ReadDone, Accessible, AcquireCommitTimestamp, getNewCommitTimestamp
<1>11. ASSUME NEW c \in Clients, NEW s \in Stocks, LockStock(c, s) PROVE IdentityAt(d, t)'
    <2>0. (ReadDone(d, t)' <=> ReadDone(d, t)) /\ (Accessible(d, t)' <=> Accessible(d, t))
        BY <1>11, LockStockEffect DEF ReadDone, Accessible
    <2> SUFFICES ASSUME ReadDone(d, t), Accessible(d, t)
                 PROVE  /\ headVersions'[t].ts = heads[d][t].ts => headVersions'[t].ytd = heads[d][t].ytd
                        /\ \A e \in Clients :
                              (t \in won'[e] /\ heads[e][t].ts = heads[d][t].ts) =>
                                  heads[e][t].ytd = heads[d][t].ytd
        BY <1>11, <2>0, LockStockEffect
    <2>1. CASE t # s
        BY <1>11, <1>a, <2>1, LockStockEffect
    <2>2. CASE t = s /\ headVersions'[s] = headVersions[s] /\ won'[c] = won[c]
        BY <1>11, <1>a, <2>2, LockStockEffect
    <2>3. CASE t = s /\ headVersions[s].ts = heads[c][s].ts /\ headVersions'[s].ts = LockTimestamp(c, s)
               /\ headVersions'[s].ytd = headVersions[s].ytd /\ won'[c] = won[c] \cup {s}
        <3>1. Accessible(c, s) /\ ReadDone(c, s)
            BY <1>11, LockStockEffect DEF CheckedInv, CheckedAt, ReadDone
        <3>2. headVersions[s].ytd = heads[c][s].ytd
            BY <2>3, <3>1 DEF IdentityInv
        <3>3. headVersions[t].ts = heads[d][t].ts => headVersions[t].ytd = heads[d][t].ytd
            BY <1>a
        <3>4. heads[c][t].ts = heads[d][t].ts => heads[c][t].ytd = heads[d][t].ytd
            BY <2>3, <3>2, <3>3
        <3>5. ~heads[d][t].ts.locked /\ headVersions'[t].ts.locked
            BY <2>3, WordsWritten DEF Accessible, isRecordAccessible
        <3>6. \A e \in Clients \ {c} : won'[e] = won[e]
            BY <1>11, LockStockEffect
        <3> QED
            BY <1>a, <3>4, <3>5, <3>6
    <2> QED
        BY <1>11, <2>1, <2>2, <2>3, LockStockEffect
<1>12. ASSUME NEW c \in Clients, LocksRefused(c) PROVE IdentityAt(d, t)'
    BY <1>12, <1>a, RecordsParts DEF TypeOK, ReadDone, Accessible, LocksRefused
<1>13. ASSUME NEW c \in Clients, NEW s \in Stocks, RevertStockLock(c, s) PROVE IdentityAt(d, t)'
    <2>0. (ReadDone(d, t)' <=> ReadDone(d, t)) /\ (Accessible(d, t)' <=> Accessible(d, t))
        BY <1>13, RevertStockLockEffect DEF ReadDone, Accessible
    <2> SUFFICES ASSUME ReadDone(d, t), Accessible(d, t)
                 PROVE  /\ headVersions'[t].ts = heads[d][t].ts => headVersions'[t].ytd = heads[d][t].ytd
                        /\ \A e \in Clients :
                              (t \in won'[e] /\ heads[e][t].ts = heads[d][t].ts) =>
                                  heads[e][t].ytd = heads[d][t].ytd
        BY <1>13, <2>0, RevertStockLockEffect
    <2>1. CASE t # s
        BY <1>13, <1>a, <2>1, RevertStockLockEffect
    <2>2. CASE t = s
        <3>1. headVersions[s].ytd = heads[c][s].ytd
            BY <1>13, RevertStockLockEffect DEF LockInv, LockedAt
        <3>2. heads[c][s].ts = heads[d][s].ts => heads[c][s].ytd = heads[d][s].ytd
            BY <1>13, <1>a, <2>2, RevertStockLockEffect
        <3> QED
            BY <1>13, <1>a, <2>2, <3>1, <3>2, RevertStockLockEffect
    <2> QED
        BY <2>1, <2>2
<1>14. ASSUME NEW c \in Clients, LockAbort(c) PROVE IdentityAt(d, t)'
    BY <1>14, <1>a, RecordsParts DEF TypeOK, ReadDone, Accessible, LockAbort
<1>15. ASSUME NEW c \in Clients, LocksAcquired(c) PROVE IdentityAt(d, t)'
    BY <1>15, <1>a, RecordsParts DEF TypeOK, ReadDone, Accessible, LocksAcquired, writeCommandToLog
<1>16. ASSUME NEW c \in Clients, NEW s \in Stocks, UpdateStockPointers(c, s) PROVE IdentityAt(d, t)'
    <2>1. ReadDone(d, t)' => ReadDone(d, t)
        BY <1>16, UpdateStockPointersEffect DEF ReadDone
    <2>2. Accessible(d, t)' <=> Accessible(d, t)
        BY <1>16, UpdateStockPointersEffect DEF Accessible
    <2> QED
        BY <1>16, <1>a, <2>1, <2>2, UpdateStockPointersEffect
<1>17. ASSUME NEW c \in Clients, NEW s \in Stocks, UpdateStockOlderVersions(c, s) PROVE IdentityAt(d, t)'
    <2>1. ReadDone(d, t)' => ReadDone(d, t)
        BY <1>17, UpdateStockOlderVersionsEffect DEF ReadDone
    <2>2. Accessible(d, t)' <=> Accessible(d, t)
        BY <1>17, UpdateStockOlderVersionsEffect DEF Accessible
    <2> QED
        BY <1>17, <1>a, <2>1, <2>2, UpdateStockOlderVersionsEffect
<1>18. ASSUME NEW c \in Clients, NEW s \in Stocks, UpdateStockTimestamp(c, s) PROVE IdentityAt(d, t)'
    <2>0. (ReadDone(d, t)' <=> ReadDone(d, t)) /\ (Accessible(d, t)' <=> Accessible(d, t))
        BY <1>18, UpdateStockTimestampEffect DEF ReadDone, Accessible
    <2> SUFFICES ASSUME ReadDone(d, t), Accessible(d, t)
                 PROVE  /\ headVersions'[t].ts = heads[d][t].ts => headVersions'[t].ytd = heads[d][t].ytd
                        /\ \A e \in Clients :
                              (t \in won'[e] /\ heads[e][t].ts = heads[d][t].ts) =>
                                  heads[e][t].ytd = heads[d][t].ytd
        BY <1>18, <2>0, UpdateStockTimestampEffect
    <2>1. CASE t # s
        BY <1>18, <1>a, <2>1, UpdateStockTimestampEffect
    <2>2. CASE t = s
        <3>1. Uninstalled(c, s)
            BY <1>18, UpdateStockTimestampEffect DEF Uninstalled
        <3>2. ~heads[d][s].ts.locked
            BY <2>2 DEF Accessible, isRecordAccessible
        <3>3. heads[d][s].ts.clientID = c => heads[d][s].ts.timestamp < cts[c]
            BY <3>1, <3>2 DEF FreshInv, InstalledBy
        <3>4. headVersions'[s].ts.clientID = c /\ headVersions'[s].ts.timestamp = cts[c]
            BY <1>18, UpdateStockTimestampEffect, WordsWritten
        <3>5. cts[c] \in Nat
            BY DEF TypeOK
        <3>6. headVersions'[s].ts # heads[d][s].ts
            BY <3>3, <3>4, <3>5
        <3> QED
            BY <1>18, <1>a, <2>2, <3>6, UpdateStockTimestampEffect
    <2> QED
        BY <2>1, <2>2
<1>19. ASSUME NEW c \in Clients, NEW s \in Stocks, UpdateStock(c, s) PROVE IdentityAt(d, t)'
    <2>0. (ReadDone(d, t)' <=> ReadDone(d, t)) /\ (Accessible(d, t)' <=> Accessible(d, t))
        BY <1>19, UpdateStockEffect DEF ReadDone, Accessible
    <2> SUFFICES ASSUME ReadDone(d, t), Accessible(d, t)
                 PROVE  /\ headVersions'[t].ts = heads[d][t].ts => headVersions'[t].ytd = heads[d][t].ytd
                        /\ \A e \in Clients :
                              (t \in won'[e] /\ heads[e][t].ts = heads[d][t].ts) =>
                                  heads[e][t].ytd = heads[d][t].ytd
        BY <1>19, <2>0, UpdateStockEffect
    <2>1. CASE t # s
        BY <1>19, <1>a, <2>1, UpdateStockEffect
    <2>2. CASE t = s
        <3>1. headVersions[s].ts = NewStockVersion(c, s).ts
            BY <1>19, UpdateStockEffect DEF InstallInv, InstallAt
        <3>2. d # c
            BY <1>19, UpdateStockEffect DEF ReadDone
        <3>3. headVersions[s].ts # heads[d][s].ts
            BY <1>19, <2>2, <3>1, <3>2, UpdateStockEffect, WordsWritten, UnannouncedUnusable
        <3> QED
            BY <1>19, <1>a, <2>2, <3>3, UpdateStockEffect
    <2> QED
        BY <2>1, <2>2
<1>20. ASSUME NEW c \in Clients, RegisterOrder(c) PROVE IdentityAt(d, t)'
    BY <1>20, <1>a, RecordsParts DEF TypeOK, ReadDone, Accessible, RegisterOrder
<1>21. ASSUME NEW c \in Clients, SubmitResult(c) PROVE IdentityAt(d, t)'
    BY <1>21, <1>a, RecordsParts DEF TypeOK, ReadDone, Accessible, SubmitResult
<1>22. ASSUME NEW e \in Clients, ReaderRefresh(e) PROVE IdentityAt(d, t)'
    BY <1>0, <1>22 DEF ReaderRefresh
<1>23. ASSUME NEW c \in Clients, RetrieveAndIncrementDistrictNextOID(c) PROVE IdentityAt(d, t)'
    BY <1>0, <1>23 DEF RetrieveAndIncrementDistrictNextOID
<1>24. ASSUME NEW c \in Clients, InsertOrder(c) PROVE IdentityAt(d, t)'
    BY <1>0, <1>24 DEF InsertOrder
<1> QED
BY <1>0, <1>1, <1>2, <1>3, <1>4, <1>5, <1>6, <1>7, <1>8, <1>9, <1>10, <1>11, <1>12, <1>13,
       <1>14, <1>15, <1>16, <1>17, <1>18, <1>19, <1>20, <1>21, <1>22, <1>23, <1>24
    DEF Next, Step, vars

-----------------------------------------------------------------------------
(***************************************************************************)
(* The theorems.                                                           *)
(***************************************************************************)

\* The inductive invariant holds initially.
LEMMA IInvInit == Init => IInv
<1> SUFFICES ASSUME Init PROVE IInv
    OBVIOUS
<1>1. TypeInv
    BY TypeInit
<1>2. EpochInv
    <2>1. \A c \in Clients : 0 < Drawn(1, c)
        BY ClientCntAssumption DEF Drawn, Clients
    <2> QED
        BY <2>1 DEF Init, EpochInv
<1>3. VectorInv
    BY DEF Init, VectorInv
<1>4. FreshInv
    BY RecordsParts DEF Init, FreshInv, InstalledBy, Uninstalled, InitialVersion, EmptyVersion,
       InitialTimestamp, EmptyTimestamp, Timestamp
<1>5. CheckedInv /\ LockInv /\ InstallInv
    BY RecordsParts DEF Init, CheckedInv, CheckedAt, LockInv, LockedAt, InstallInv, InstallAt
<1>6. OwnedInv
    BY RecordsParts DEF Init, OwnedInv, InitialVersion, InitialTimestamp, Timestamp
<1>7. IdentityInv
    BY DEF Init, IdentityInv, IdentityAt, ReadDone
<1> QED
    BY <1>1, <1>2, <1>3, <1>4, <1>5, <1>6, <1>7 DEF IInv

\* Every step preserves the inductive invariant.
LEMMA IInvStep == IInv /\ [Next]_vars => IInv'
BY TypeStep, FallbackStep, EpochStep, VectorStep, FreshStep, CheckedStep, LockStep, OwnedStep,
   InstallStep, IdentityStep
DEF IInv, TypeInv

\* The inductive invariant holds throughout every run of New-Order.
THEOREM Invariance == Spec => []IInv
<1>1. Init => IInv
    BY IInvInit
<1>2. IInv /\ [Next]_vars => IInv'
    BY IInvStep
<1> QED
    BY <1>1, <1>2, PTL DEF Spec

\* Every variable keeps its type, whatever the number of clients and stocks.
THEOREM TypeCorrectness == Spec => []TypeOK
<1>1. IInv => TypeOK
    BY DEF IInv, TypeInv
<1> QED
    BY <1>1, Invariance, PTL

\* What the invariant says of the locks.
LEMMA OwnedLocks == IInv => LockOwnership
<1> SUFFICES ASSUME IInv, NEW s \in Stocks, headVersions[s].ts.locked
             PROVE  \E c \in Clients : Holds(c, s) /\ headVersions[s].ts = LockTimestamp(c, s)
    BY DEF LockOwnership
<1>1. PICK c \in Clients : s \in won[c]
    BY DEF IInv, OwnedInv
<1> QED
    BY <1>1 DEF IInv, LockInv, LockedAt, Holds

LEMMA ValidatedReads == IInv => LockedVersionIsRead
    BY DEF IInv, LockInv, LockedAt, LockedVersionIsRead, Holds

\* No abort, commit or refused compare-and-swap of New-Order leaves a stock
\* locked: the transaction a locked word names still runs and holds it.
THEOREM LocksAreOwned == Spec => []LockOwnership
    BY OwnedLocks, Invariance, PTL

\* The compare-and-swap of one word validates the whole version, although the
\* row was read after the word and installs write the word before the row.
THEOREM LocksValidateReads == Spec => []LockedVersionIsRead
    BY ValidatedReads, Invariance, PTL

\* Each step leaves the orders in a stock's totals that are there.
Grows == \A s \in Stocks : headVersions[s].ytd \subseteq headVersions'[s].ytd

LEMMA TotalsGrow == IInv /\ [Next]_vars => Grows
<1> USE DEF serverVars, orderVars, oracleVars, trxVars, rowVars
<1> SUFFICES ASSUME IInv, [Next]_vars PROVE Grows
    OBVIOUS
<1>t. TypeOK
    BY DEF IInv, TypeInv
<1>0. CASE UNCHANGED headVersions
    BY <1>0 DEF Grows
<1>1. ASSUME NEW c \in Clients, NEW s \in Stocks, LockStock(c, s) PROVE Grows
    BY <1>1, <1>t, LockStockEffect DEF Grows
<1>2. ASSUME NEW c \in Clients, NEW s \in Stocks, RevertStockLock(c, s) PROVE Grows
    BY <1>2, <1>t, RevertStockLockEffect DEF Grows
<1>3. ASSUME NEW c \in Clients, NEW s \in Stocks, UpdateStockTimestamp(c, s) PROVE Grows
    BY <1>3, <1>t, UpdateStockTimestampEffect DEF Grows
<1>4. ASSUME NEW c \in Clients, NEW s \in Stocks, UpdateStock(c, s) PROVE Grows
    <2>1. headVersions[s].ytd = heads[c][s].ytd
        BY <1>4, <1>t, UpdateStockEffect DEF IInv, InstallInv, InstallAt
    <2> QED
        BY <1>4, <1>t, <2>1, UpdateStockEffect DEF Grows
<1>5. ASSUME NEW e \in Clients, ReaderRefresh(e) PROVE Grows
    BY <1>0, <1>5 DEF ReaderRefresh
<1>6. ASSUME NEW c \in Clients, Start(c) PROVE Grows
    BY <1>0, <1>6 DEF Start
<1>7. ASSUME NEW c \in Clients, NEW e \in Clients, getReadTimestamp(c, e) PROVE Grows
    BY <1>0, <1>7 DEF getReadTimestamp
<1>8. ASSUME NEW c \in Clients, NEW r \in Records, RetrieveTimestamp(c, r) PROVE Grows
    BY <1>0, <1>8 DEF RetrieveTimestamp
<1>9. ASSUME NEW c \in Clients, NEW r \in Records, RetrieveRow(c, r) PROVE Grows
    BY <1>0, <1>9 DEF RetrieveRow
<1>10. ASSUME NEW c \in Clients, NEW r \in Records, RetrievePointerList(c, r) PROVE Grows
    BY <1>0, <1>10 DEF RetrievePointerList
<1>11. ASSUME NEW c \in Clients, CheckVersionsAbort(c) PROVE Grows
    BY <1>0, <1>11 DEF CheckVersionsAbort
<1>12. ASSUME NEW c \in Clients, CheckVersions(c) PROVE Grows
    BY <1>0, <1>12 DEF CheckVersions
<1>13. ASSUME NEW c \in Clients, NEW r \in Refs, RetrieveOlderVersion(c, r) PROVE Grows
    BY <1>0, <1>13 DEF RetrieveOlderVersion
<1>14. ASSUME NEW c \in Clients, NEW r \in Refs, RecheckAbort(c, r) PROVE Grows
    BY <1>0, <1>14 DEF RecheckAbort
<1>15. ASSUME NEW c \in Clients, AcquireCommitTimestamp(c) PROVE Grows
    BY <1>0, <1>15 DEF AcquireCommitTimestamp
<1>16. ASSUME NEW c \in Clients, LocksRefused(c) PROVE Grows
    BY <1>0, <1>16 DEF LocksRefused
<1>17. ASSUME NEW c \in Clients, LockAbort(c) PROVE Grows
    BY <1>0, <1>17 DEF LockAbort
<1>18. ASSUME NEW c \in Clients, LocksAcquired(c) PROVE Grows
    BY <1>0, <1>18 DEF LocksAcquired
<1>19. ASSUME NEW c \in Clients, NEW s \in Stocks, UpdateStockPointers(c, s) PROVE Grows
    BY <1>0, <1>19 DEF UpdateStockPointers
<1>20. ASSUME NEW c \in Clients, NEW s \in Stocks, UpdateStockOlderVersions(c, s) PROVE Grows
    BY <1>0, <1>20 DEF UpdateStockOlderVersions
<1>21. ASSUME NEW c \in Clients, RetrieveAndIncrementDistrictNextOID(c) PROVE Grows
    BY <1>0, <1>21 DEF RetrieveAndIncrementDistrictNextOID
<1>22. ASSUME NEW c \in Clients, InsertOrder(c) PROVE Grows
    BY <1>0, <1>22 DEF InsertOrder
<1>23. ASSUME NEW c \in Clients, RegisterOrder(c) PROVE Grows
    BY <1>0, <1>23 DEF RegisterOrder
<1>24. ASSUME NEW c \in Clients, SubmitResult(c) PROVE Grows
    BY <1>0, <1>24 DEF SubmitResult
<1> QED
    BY <1>0, <1>1, <1>2, <1>3, <1>4, <1>5, <1>6, <1>7, <1>8, <1>9, <1>10, <1>11, <1>12, <1>13, <1>14,
       <1>15, <1>16, <1>17, <1>18, <1>19, <1>20, <1>21, <1>22, <1>23, <1>24
    DEF Next, Step, vars

\* No update of a stock is ever lost, however clients interleave.
THEOREM NoLostUpdate == Spec => OrdersNeverLost
<1>1. IInv /\ [Next]_vars => [\A s \in Stocks : headVersions[s].ytd \subseteq headVersions'[s].ytd]_vars
    BY TotalsGrow DEF Grows
<1> QED
    BY <1>1, Invariance, PTL DEF Spec, OrdersNeverLost

=============================================================================
