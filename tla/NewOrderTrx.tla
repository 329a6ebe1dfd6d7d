----------------------------- MODULE NewOrderTrx -----------------------------
(***************************************************************************)
(* New-Order, the transaction of the benchmark that writes the most: every *)
(* client is a thread that runs it against the memory servers with one-    *)
(* sided RDMA operations only.  A transaction                              *)
(*                                                                         *)
(*   - copies the vector of last committed timestamps (its snapshot);      *)
(*   - reads the head version and the pointer list of its records;         *)
(*   - aborts when a stock is locked or newer than the snapshot, and falls *)
(*     back to an older version for the rows it only reads;                *)
(*   - draws a commit timestamp, locks its stocks by compare-and-swap on   *)
(*     their head timestamp, and gives the locks back if one was refused;  *)
(*   - logs, installs the old head among the older versions and the new    *)
(*     one as the head, takes an order id with fetch-and-add, inserts the  *)
(*     order, registers it with the server's index;                        *)
(*   - announces its commit timestamp in its entry of the oracle's vector. *)
(*                                                                         *)
(* Each RDMA operation is a step, and so is each eight-byte word of it     *)
(* that may be torn: the READ and the WRITE of a head version move the     *)
(* timestamp, its first word, and then the row.  New-Order waits for the   *)
(* completions of a phase before the next (synchronizeSendEvents), and a   *)
(* record may be on any server, so the operations of a phase run in any    *)
(* order except those on one record, which share a queue pair.             *)
(***************************************************************************)
EXTENDS RecordTimestamp, FiniteSets

CONSTANTS
    Stocks,        \* the stock records, which New-Order writes
    Refs,          \* the warehouse, district and customer rows it only reads
    OrderBuffer,   \* ORDER_BUFFER_PER_CLIENT: order slots of each client
    CommandSize,   \* length of a logged command, in serialized timestamps
    MaxEpoch       \* bound: the commit timestamps each client may draw

ASSUME RecordsAssumption == Stocks \cap Refs = {}
ASSUME OrderBufferAssumption == OrderBuffer \in Nat \ {0}
ASSUME CommandSizeAssumption == CommandSize \in Nat \ {0}
ASSUME MaxEpochAssumption == MaxEpoch \in [Clients -> Nat]
\* No commit timestamp drawn within the bound wraps around.
ASSUME NoWrapAssumption ==
    \A c \in Clients : (MaxEpoch[c] + 1) * ClientCnt < TimestampRange

Records == Stocks \cup Refs

VARIABLES
    headVersions,         \* memory servers: head version of every record
    tsList,               \* memory servers: pointer list of every record
    olderVersions,        \* memory servers: circular buffer of older versions
    nextOID,              \* memory server: D_NEXT_O_ID of the district
    orderTable,           \* memory server: each client's region of order rows
    orderIndex,           \* memory server: the orders registered in the index
    journal,              \* log servers: each client's log entry
    lastCommittedVector,  \* oracle: last announced timestamp of each client
    readerVector,         \* OracleReader: the local copy clients take snapshots of
    pc,                   \* each client's phase
    items,                \* the stocks of its cart
    localVector,          \* localTimestampVector_
    copied,               \* the entries of localVector copied so far
    heads,                \* local buffers of head versions
    lists,                \* local buffers of pointer lists
    stage,                \* how far the phase got on each record
    won,                  \* stocks whose lock the client holds or must revert
    cts,                  \* last commit timestamp drawn
    nextEpoch,            \* SessionState's epoch counter
    assignedOID,          \* order id taken by the running transaction, or -1
    inserted,             \* whether its order rows were written
    orderRID              \* next slot of the client's order region

serverVars == <<headVersions, tsList, olderVersions>>
orderVars  == <<nextOID, orderTable, orderIndex>>
oracleVars == <<lastCommittedVector, readerVector>>
trxVars    == <<items, localVector, copied, cts, nextEpoch>>
rowVars    == <<assignedOID, inserted, orderRID>>
vars == <<serverVars, orderVars, oracleVars, trxVars, rowVars,
          journal, pc, heads, lists, stage, won>>

Phases == {"idle", "snapshot", "execute", "recheck", "lock", "revert", "install", "submit"}

(***************************************************************************)
(* A stock's quantities are abstracted to the orders they add up: ytd is   *)
(* the set of commit timestamps of the transactions applied to the record. *)
(***************************************************************************)
VersionType == [ts : TimestampType, ytd : SUBSET Nat]

InitialVersion == [ts |-> InitialTimestamp, ytd |-> {}]
EmptyVersion   == [ts |-> EmptyTimestamp, ytd |-> {}]

\* A version with another timestamp word, or with another row.
WithTimestamp(version, ts) == [ts |-> ts, ytd |-> version.ytd]
WithRow(version, ytd)      == [ts |-> version.ts, ytd |-> ytd]

LogEntryType == [vector : [Clients -> Nat], command : Nat]
EmptyLogEntry == [vector |-> [c \in Clients |-> 0], command |-> 0]

RowType == [ts : TimestampType, oID : Nat, items : SUBSET Stocks]
EmptyRow == [ts |-> EmptyTimestamp, oID |-> 0, items |-> {}]

Slots == 0 .. OrderBuffer - 1

Init ==
    /\ headVersions = [r \in Records |-> InitialVersion]
    /\ tsList = [r \in Records |-> [i \in VersionOffsets |-> EmptyTimestamp]]
    /\ olderVersions = [r \in Records |-> [i \in VersionOffsets |-> EmptyVersion]]
    /\ nextOID = 0
    /\ orderTable = [c \in Clients |-> [i \in Slots |-> EmptyRow]]
    /\ orderIndex = {}
    /\ journal = [c \in Clients |-> EmptyLogEntry]
    /\ lastCommittedVector = [c \in Clients |-> 0]
    /\ readerVector = [c \in Clients |-> 0]
    /\ pc = [c \in Clients |-> "idle"]
    /\ items = [c \in Clients |-> {}]
    /\ localVector = [c \in Clients |-> [d \in Clients |-> 0]]
    /\ copied = [c \in Clients |-> {}]
    /\ heads = [c \in Clients |-> [r \in Records |-> EmptyVersion]]
    /\ lists = [c \in Clients |-> [r \in Records |-> [i \in VersionOffsets |-> EmptyTimestamp]]]
    /\ stage = [c \in Clients |-> [r \in Records |-> 0]]
    /\ won = [c \in Clients |-> {}]
    /\ cts = [c \in Clients |-> 0]
    /\ nextEpoch = [c \in Clients |-> 1]
    /\ assignedOID = [c \in Clients |-> -1]
    /\ inserted = [c \in Clients |-> FALSE]
    /\ orderRID = [c \in Clients |-> 0]

ReadSet(c) == items[c] \cup Refs

\* Every record of S went through stage n of the client's phase.
Reached(c, S, n) == \A r \in S : stage[c][r] = n

Accessible(c, r) == isRecordAccessible(heads[c][r].ts, c, localVector[c])

ValidIndex(c, r) == findValidVersion(lists[c][r], c, localVector[c])

-----------------------------------------------------------------------------
(***************************************************************************)
(* The oracle reader polls the oracle's vector with an RDMA READ that      *)
(* lands in its local copy while clients copy from it.  Entries arrive and *)
(* are copied one by one, so a snapshot may mix several states of it.      *)
(***************************************************************************)
ReaderRefresh(e) ==
    /\ readerVector' = [readerVector EXCEPT ![e] = lastCommittedVector[e]]
    /\ UNCHANGED <<lastCommittedVector, serverVars, orderVars, trxVars, rowVars,
                   journal, pc, heads, lists, stage, won>>

\* buildCart: the items of a cart are distinct.
Start(c) ==
    /\ pc[c] = "idle"
    /\ nextEpoch[c] <= MaxEpoch[c]
    /\ \E its \in (SUBSET Stocks) \ {{}} : items' = [items EXCEPT ![c] = its]
    /\ copied' = [copied EXCEPT ![c] = {}]
    /\ pc' = [pc EXCEPT ![c] = "snapshot"]
    /\ stage' = [stage EXCEPT ![c] = [r \in Records |-> 0]]
    /\ UNCHANGED <<serverVars, orderVars, oracleVars, rowVars, localVector, cts, nextEpoch,
                   journal, heads, lists, won>>

\* In cluster mode getReadTimestamp is a memcpy of the reader's copy.
getReadTimestamp(c, e) ==
    /\ pc[c] = "snapshot"
    /\ e \notin copied[c]
    /\ localVector' = [localVector EXCEPT ![c][e] = readerVector[e]]
    /\ copied' = [copied EXCEPT ![c] = @ \cup {e}]
    /\ pc' = [pc EXCEPT ![c] = IF copied'[c] = Clients THEN "execute" ELSE @]
    /\ UNCHANGED <<serverVars, orderVars, oracleVars, rowVars, items, cts, nextEpoch,
                   journal, heads, lists, stage, won>>

\* The first word of the RDMA READ of a head version.
RetrieveTimestamp(c, r) ==
    /\ pc[c] = "execute"
    /\ r \in ReadSet(c)
    /\ stage[c][r] = 0
    /\ heads' = [heads EXCEPT ![c][r] = WithTimestamp(@, headVersions[r].ts)]
    /\ stage' = [stage EXCEPT ![c][r] = 1]
    /\ UNCHANGED <<serverVars, orderVars, oracleVars, trxVars, rowVars,
                   journal, pc, lists, won>>

\* The rest of it.
RetrieveRow(c, r) ==
    /\ pc[c] = "execute"
    /\ r \in ReadSet(c)
    /\ stage[c][r] = 1
    /\ heads' = [heads EXCEPT ![c][r] = WithRow(@, headVersions[r].ytd)]
    /\ stage' = [stage EXCEPT ![c][r] = 2]
    /\ UNCHANGED <<serverVars, orderVars, oracleVars, trxVars, rowVars,
                   journal, pc, lists, won>>

RetrievePointerList(c, r) ==
    /\ pc[c] = "execute"
    /\ r \in ReadSet(c)
    /\ stage[c][r] = 2
    /\ lists' = [lists EXCEPT ![c][r] = tsList[r]]
    /\ stage' = [stage EXCEPT ![c][r] = 3]
    /\ UNCHANGED <<serverVars, orderVars, oracleVars, trxVars, rowVars,
                   journal, pc, heads, won>>

\* A stock the snapshot may not see, or a row with no usable version at all.
MustAbort(c) ==
    \/ \E s \in items[c] : ~Accessible(c, s)
    \/ \E r \in Refs : ~Accessible(c, r) /\ ValidIndex(c, r) < 0

CheckVersionsAbort(c) ==
    /\ pc[c] = "execute"
    /\ Reached(c, ReadSet(c), 3)
    /\ MustAbort(c)
    /\ pc' = [pc EXCEPT ![c] = "idle"]
    /\ UNCHANGED <<serverVars, orderVars, oracleVars, trxVars, rowVars,
                   journal, heads, lists, stage, won>>

\* Only the rows whose head cannot be used are fetched again.
CheckVersions(c) ==
    /\ pc[c] = "execute"
    /\ Reached(c, ReadSet(c), 3)
    /\ ~MustAbort(c)
    /\ pc' = [pc EXCEPT ![c] = "recheck"]
    /\ stage' = [stage EXCEPT ![c] =
                    [r \in Records |-> IF r \in Refs /\ ~Accessible(c, r) THEN 3 ELSE 4]]
    /\ UNCHANGED <<serverVars, orderVars, oracleVars, trxVars, rowVars,
                   journal, heads, lists, won>>

\* The position in the pointer list is used as a slot of the circular buffer.
RetrieveOlderVersion(c, r) ==
    /\ pc[c] = "recheck"
    /\ r \in Refs
    /\ stage[c][r] = 3
    /\ heads' = [heads EXCEPT ![c][r] = olderVersions[r][ValidIndex(c, r)]]
    /\ stage' = [stage EXCEPT ![c][r] = 4]
    /\ UNCHANGED <<serverVars, orderVars, oracleVars, trxVars, rowVars,
                   journal, pc, lists, won>>

\* What was fetched for row r cannot be used either.
RecheckAbort(c, r) ==
    /\ pc[c] = "recheck"
    /\ Reached(c, Refs, 4)
    /\ ~Accessible(c, r)
    /\ pc' = [pc EXCEPT ![c] = "idle"]
    /\ UNCHANGED <<serverVars, orderVars, oracleVars, trxVars, rowVars,
                   journal, heads, lists, stage, won>>

getNewCommitTimestamp(c) ==
    /\ cts' = [cts EXCEPT ![c] = CommitTimestamp(nextEpoch[c], c)]
    /\ nextEpoch' = [nextEpoch EXCEPT ![c] = @ + 1]

AcquireCommitTimestamp(c) ==
    /\ pc[c] = "recheck"
    /\ Reached(c, Refs, 4)
    /\ \A r \in Refs : Accessible(c, r)
    /\ getNewCommitTimestamp(c)
    /\ pc' = [pc EXCEPT ![c] = "lock"]
    /\ stage' = [stage EXCEPT ![c] = [r \in Records |-> 0]]
    /\ UNCHANGED <<serverVars, orderVars, oracleVars, rowVars, items, localVector, copied,
                   journal, heads, lists, won>>

LockTimestamp(c, s) ==
    Timestamp(FALSE, TRUE, heads[c][s].ts.versionOffset, c, cts[c])

\* Mutant: the lock bit is compared instead of the whole timestamp.
LockStockUnversioned(c, s) ==
    /\ pc[c] = "lock"
    /\ s \in items[c]
    /\ stage[c][s] = 0
    /\ IF ~headVersions[s].ts.locked
       THEN /\ headVersions' = [headVersions EXCEPT ![s] = WithTimestamp(@, LockTimestamp(c, s))]
            /\ won' = [won EXCEPT ![c] = @ \cup {s}]
       ELSE UNCHANGED <<headVersions, won>>
    /\ stage' = [stage EXCEPT ![c][s] = 1]
    /\ UNCHANGED <<tsList, olderVersions, orderVars, oracleVars, trxVars, rowVars,
                   journal, pc, heads, lists>>

\* RDMA compare-and-swap on the head timestamp, and the comparison of the value
\* it returned with the expected one.
LockStock(c, s) ==
    /\ pc[c] = "lock"
    /\ s \in items[c]
    /\ stage[c][s] = 0
    /\ IF headVersions[s].ts = heads[c][s].ts
       THEN /\ headVersions' = [headVersions EXCEPT ![s] = WithTimestamp(@, LockTimestamp(c, s))]
            /\ won' = [won EXCEPT ![c] = @ \cup {s}]
       ELSE UNCHANGED <<headVersions, won>>
    /\ stage' = [stage EXCEPT ![c][s] = 1]
    /\ UNCHANGED <<tsList, olderVersions, orderVars, oracleVars, trxVars, rowVars,
                   journal, pc, heads, lists>>

\* Mutant: a client keeps the locks it has and tries the others again.
LocksRefusedRetry(c) ==
    /\ pc[c] = "lock"
    /\ Reached(c, items[c], 1)
    /\ won[c] # items[c]
    /\ stage' = [stage EXCEPT ![c] = [r \in Records |-> IF r \in won[c] THEN 1 ELSE 0]]
    /\ UNCHANGED <<serverVars, orderVars, oracleVars, trxVars, rowVars,
                   journal, pc, heads, lists, won>>

LocksRefused(c) ==
    /\ pc[c] = "lock"
    /\ Reached(c, items[c], 1)
    /\ won[c] # items[c]
    /\ pc' = [pc EXCEPT ![c] = "revert"]
    /\ UNCHANGED <<serverVars, orderVars, oracleVars, trxVars, rowVars,
                   journal, heads, lists, stage, won>>

RevertStockLock(c, s) ==
    /\ pc[c] = "revert"
    /\ s \in won[c]
    /\ headVersions' = [headVersions EXCEPT ![s] = WithTimestamp(@, heads[c][s].ts)]
    /\ won' = [won EXCEPT ![c] = @ \ {s}]
    /\ UNCHANGED <<tsList, olderVersions, orderVars, oracleVars, trxVars, rowVars,
                   journal, pc, heads, lists, stage>>

\* Mutant: the transaction ends before all its locks are given back.
LockAbortEarly(c) ==
    /\ pc[c] = "revert"
    /\ pc' = [pc EXCEPT ![c] = "idle"]
    /\ UNCHANGED <<serverVars, orderVars, oracleVars, trxVars, rowVars,
                   journal, heads, lists, stage, won>>

LockAbort(c) ==
    /\ pc[c] = "revert"
    /\ won[c] = {}
    /\ pc' = [pc EXCEPT ![c] = "idle"]
    /\ UNCHANGED <<serverVars, orderVars, oracleVars, trxVars, rowVars,
                   journal, heads, lists, stage, won>>

(***************************************************************************)
(* A log entry is the serialized vector followed by the command.  The      *)
(* client composes it in full, and writes as many bytes of it, from its    *)
(* start, as the command has: LogEntry(old, v) is what the entry holds     *)
(* then.  The entry index only moves in writeResultToLog, which nothing    *)
(* calls, so each entry overwrites the last.                               *)
(***************************************************************************)
LogEntry(old, v) ==
    [vector  |-> [d \in Clients |-> IF d < CommandSize THEN v[d] ELSE old.vector[d]],
     command |-> IF CommandSize > ClientCnt THEN CommandSize - ClientCnt ELSE 0]

\* Mutant: the vector is logged before the commit timestamp enters it.
writeCommandToLogStale(c) ==
    /\ localVector' = [localVector EXCEPT ![c][c] = cts[c]]
    /\ journal' = [journal EXCEPT ![c] = LogEntry(@, localVector[c])]

\* The commit timestamp enters the client's own vector, and the entry goes to
\* the log servers, whose completions the client waits for.
writeCommandToLog(c) ==
    /\ localVector' = [localVector EXCEPT ![c][c] = cts[c]]
    /\ journal' = [journal EXCEPT ![c] = LogEntry(@, localVector'[c])]

LocksAcquired(c) ==
    /\ pc[c] = "lock"
    /\ Reached(c, items[c], 1)
    /\ won[c] = items[c]
    /\ writeCommandToLog(c)
    /\ pc' = [pc EXCEPT ![c] = "install"]
    /\ stage' = [stage EXCEPT ![c] = [r \in Records |-> 0]]
    /\ assignedOID' = [assignedOID EXCEPT ![c] = -1]
    /\ inserted' = [inserted EXCEPT ![c] = FALSE]
    /\ UNCHANGED <<serverVars, orderVars, oracleVars, items, copied, cts, nextEpoch, orderRID,
                   heads, lists, won>>

UpdateStockPointers(c, s) ==
    /\ pc[c] = "install"
    /\ s \in items[c]
    /\ stage[c][s] = 0
    /\ lists' = [lists EXCEPT ![c][s] = ShiftPointers(@, heads[c][s].ts)]
    /\ tsList' = [tsList EXCEPT ![s] = lists'[c][s]]
    /\ stage' = [stage EXCEPT ![c][s] = 1]
    /\ UNCHANGED <<headVersions, olderVersions, orderVars, oracleVars, trxVars, rowVars,
                   journal, pc, heads, won>>

\* The old head goes to the slot its own version offset names.
UpdateStockOlderVersions(c, s) ==
    /\ pc[c] = "install"
    /\ s \in items[c]
    /\ stage[c][s] = 1
    /\ olderVersions' =
         [olderVersions EXCEPT ![s][heads[c][s].ts.versionOffset] = heads[c][s]]
    /\ stage' = [stage EXCEPT ![c][s] = 2]
    /\ UNCHANGED <<headVersions, tsList, orderVars, oracleVars, trxVars, rowVars,
                   journal, pc, heads, lists, won>>

\* Mutant: the order id is read and not advanced.
RetrieveDistrictNextOID(c) ==
    /\ pc[c] = "install"
    /\ assignedOID[c] = -1
    /\ assignedOID' = [assignedOID EXCEPT ![c] = nextOID]
    /\ UNCHANGED <<serverVars, orderVars, oracleVars, trxVars, inserted, orderRID,
                   journal, pc, heads, lists, stage, won>>

\* Fetch-and-add on D_NEXT_O_ID: a commutative update that takes no lock.
RetrieveAndIncrementDistrictNextOID(c) ==
    /\ pc[c] = "install"
    /\ assignedOID[c] = -1
    /\ assignedOID' = [assignedOID EXCEPT ![c] = nextOID]
    /\ nextOID' = nextOID + 1
    /\ UNCHANGED <<serverVars, orderTable, orderIndex, oracleVars, trxVars, inserted, orderRID,
                   journal, pc, heads, lists, stage, won>>

\* The rows of ORDER, NEW-ORDER and ORDER-LINE in the client's own region.  No
\* other client learns their address before they are registered.
InsertOrder(c) ==
    /\ pc[c] = "install"
    /\ assignedOID[c] # -1
    /\ ~inserted[c]
    /\ orderTable' =
         [orderTable EXCEPT ![c][orderRID[c]] =
             [ts |-> Timestamp(FALSE, FALSE, 0, c, cts[c]),
              oID |-> assignedOID[c], items |-> items[c]]]
    /\ inserted' = [inserted EXCEPT ![c] = TRUE]
    /\ UNCHANGED <<serverVars, nextOID, orderIndex, oracleVars, trxVars, assignedOID, orderRID,
                   journal, pc, heads, lists, stage, won>>

NewStockVersion(c, s) ==
    [ts |-> Timestamp(FALSE, FALSE, NextVersionOffset(heads[c][s].ts.versionOffset), c, cts[c]),
     ytd |-> heads[c][s].ytd \cup {cts[c]}]

\* One RDMA WRITE replaces the head: its first word unlocks the record.
UpdateStockTimestamp(c, s) ==
    /\ pc[c] = "install"
    /\ s \in items[c]
    /\ stage[c][s] = 2
    /\ assignedOID[c] # -1
    /\ headVersions' = [headVersions EXCEPT ![s] = WithTimestamp(@, NewStockVersion(c, s).ts)]
    /\ stage' = [stage EXCEPT ![c][s] = 3]
    /\ won' = [won EXCEPT ![c] = @ \ {s}]
    /\ UNCHANGED <<tsList, olderVersions, orderVars, oracleVars, trxVars, rowVars,
                   journal, pc, heads, lists>>

\* The rest of it.
UpdateStock(c, s) ==
    /\ pc[c] = "install"
    /\ s \in items[c]
    /\ stage[c][s] = 3
    /\ headVersions' = [headVersions EXCEPT ![s] = WithRow(@, NewStockVersion(c, s).ytd)]
    /\ stage' = [stage EXCEPT ![c][s] = 4]
    /\ UNCHANGED <<tsList, olderVersions, orderVars, oracleVars, trxVars, rowVars,
                   journal, pc, heads, lists, won>>

\* Mutants: the order is registered, and then announced, before its stocks are
\* installed; or before its rows are inserted.
RegisterOrderUninstalled(c) ==
    /\ pc[c] = "install"
    /\ inserted[c]
    /\ orderIndex' = orderIndex \cup {[oID |-> assignedOID[c], client |-> c, slot |-> orderRID[c]]}
    /\ lastCommittedVector' = [lastCommittedVector EXCEPT ![c] = localVector[c][c]]
    /\ UNCHANGED <<serverVars, nextOID, orderTable, readerVector, trxVars, rowVars,
                   journal, pc, heads, lists, stage, won>>
RegisterOrderUninserted(c) ==
    /\ pc[c] = "install"
    /\ Reached(c, items[c], 4)
    /\ orderIndex' = orderIndex \cup {[oID |-> assignedOID[c], client |-> c, slot |-> orderRID[c]]}
    /\ pc' = [pc EXCEPT ![c] = "submit"]
    /\ UNCHANGED <<serverVars, nextOID, orderTable, oracleVars, trxVars, rowVars,
                   journal, heads, lists, stage, won>>

\* The index request, the server's handler and its response.
RegisterOrder(c) ==
    /\ pc[c] = "install"
    /\ Reached(c, items[c], 4)
    /\ inserted[c]
    /\ orderIndex' = orderIndex \cup {[oID |-> assignedOID[c], client |-> c, slot |-> orderRID[c]]}
    /\ pc' = [pc EXCEPT ![c] = "submit"]
    /\ UNCHANGED <<serverVars, nextOID, orderTable, oracleVars, trxVars, rowVars,
                   journal, heads, lists, stage, won>>

SubmitResult(c) ==
    /\ pc[c] = "submit"
    /\ lastCommittedVector' = [lastCommittedVector EXCEPT ![c] = localVector[c][c]]
    /\ orderRID' = [orderRID EXCEPT ![c] = (@ + 1) % OrderBuffer]
    /\ pc' = [pc EXCEPT ![c] = "idle"]
    /\ UNCHANGED <<serverVars, orderVars, readerVector, trxVars, assignedOID, inserted,
                   journal, heads, lists, stage, won>>

-----------------------------------------------------------------------------
\* The steps of a running transaction: all but the one that starts it.
Step(c) ==
    \/ \E e \in Clients : getReadTimestamp(c, e)
    \/ \E r \in Records : \/ RetrieveTimestamp(c, r)
                          \/ RetrieveRow(c, r)
                          \/ RetrievePointerList(c, r)
    \/ CheckVersionsAbort(c)
    \/ CheckVersions(c)
    \/ \E r \in Refs : RetrieveOlderVersion(c, r) \/ RecheckAbort(c, r)
    \/ AcquireCommitTimestamp(c)
    \/ \E s \in Stocks : LockStock(c, s)
    \/ LocksRefused(c)
    \/ \E s \in Stocks : RevertStockLock(c, s)
    \/ LockAbort(c)
    \/ LocksAcquired(c)
    \/ \E s \in Stocks : UpdateStockPointers(c, s) \/ UpdateStockOlderVersions(c, s)
    \/ RetrieveAndIncrementDistrictNextOID(c)
    \/ InsertOrder(c)
    \/ \E s \in Stocks : UpdateStockTimestamp(c, s) \/ UpdateStock(c, s)
    \/ RegisterOrder(c)
    \/ SubmitResult(c)

Next ==
    \/ \E e \in Clients : ReaderRefresh(e)
    \/ \E c \in Clients : Start(c) \/ Step(c)

Spec == Init /\ [][Next]_vars

\* Queue pairs are reliable and a client thread never waits for another client:
\* an RDMA operation that was posted completes, and the thread goes on.
FairSpec == Spec /\ \A c \in Clients : WF_vars(Step(c))

-----------------------------------------------------------------------------
(***************************************************************************)
(* Properties.                                                             *)
(***************************************************************************)

\* Every variable has its type.
TypeOK ==
    /\ headVersions \in [Records -> VersionType]
    /\ tsList \in [Records -> [VersionOffsets -> TimestampType]]
    /\ olderVersions \in [Records -> [VersionOffsets -> VersionType]]
    /\ nextOID \in Nat
    /\ orderTable \in [Clients -> [Slots -> RowType]]
    /\ orderIndex \in SUBSET [oID : Nat, client : Clients, slot : Slots]
    /\ journal \in [Clients -> LogEntryType]
    /\ lastCommittedVector \in [Clients -> Nat]
    /\ readerVector \in [Clients -> Nat]
    /\ pc \in [Clients -> Phases]
    /\ items \in [Clients -> SUBSET Stocks]
    /\ localVector \in [Clients -> [Clients -> Nat]]
    /\ copied \in [Clients -> SUBSET Clients]
    /\ heads \in [Clients -> [Records -> VersionType]]
    /\ lists \in [Clients -> [Records -> [VersionOffsets -> TimestampType]]]
    /\ stage \in [Clients -> [Records -> 0 .. 4]]
    /\ won \in [Clients -> SUBSET Stocks]
    /\ cts \in [Clients -> Nat]
    /\ nextEpoch \in [Clients -> Nat]
    /\ assignedOID \in [Clients -> Nat \cup {-1}]
    /\ inserted \in [Clients -> BOOLEAN]
    /\ orderRID \in [Clients -> Slots]
    /\ \A c \in Clients : inserted[c] => assignedOID[c] \in Nat

\* The client holds the lock it took on stock s.
Holds(c, s) ==
    /\ pc[c] \in {"lock", "revert", "install"}
    /\ s \in won[c]

\* A locked head is locked by the transaction its timestamp names, which still
\* runs and will revert or replace it: no commit, abort or refused
\* compare-and-swap leaves a lock behind.
LockOwnership ==
    \A s \in Stocks :
        headVersions[s].ts.locked =>
            \E c \in Clients : Holds(c, s) /\ headVersions[s].ts = LockTimestamp(c, s)

\* A stock whose compare-and-swap succeeded holds the row the client read, even
\* if the read was torn by another client's install, and stays as it is until
\* the client itself replaces or reverts it: no update is lost.
LockedVersionIsRead ==
    \A c \in Clients, s \in Stocks :
        Holds(c, s) =>
            /\ headVersions[s].ts = LockTimestamp(c, s)
            /\ headVersions[s].ytd = heads[c][s].ytd

\* The rows in the order regions that their client announced to the oracle.
AnnouncedRows ==
    {row \in UNION {{orderTable[c][i] : i \in Slots} : c \in Clients} :
        /\ ~row.ts.deleted
        /\ row.ts.timestamp <= lastCommittedVector[row.ts.clientID]}

\* The oracle's vector promises only installed versions: an order whose
\* timestamp was announced shows in the head of every stock it ordered.
AnnouncedOrdersInstalled ==
    \A row \in AnnouncedRows : \A s \in row.items :
        row.ts.timestamp \in headVersions[s].ytd

\* A committing transaction has seen every other order on all the stocks they
\* share or on none, however its reads interleaved with that order's installs.
ReadsAreAtomic ==
    \A c \in Clients :
        pc[c] = "install" =>
            \A d \in Clients \ {c}, i \in Slots :
                LET row == orderTable[d][i]
                    shared == row.items \cap items[c]
                    seen == {s \in shared : row.ts.timestamp \in heads[c][s].ytd}
                IN  seen = {} \/ seen = shared

\* A committing transaction has read every order its snapshot announced.
SnapshotIsRead ==
    \A c \in Clients :
        pc[c] = "install" =>
            \A d \in Clients \ {c}, i \in Slots :
                LET row == orderTable[d][i]
                IN  (~row.ts.deleted /\ row.ts.timestamp <= localVector[c][d]) =>
                        \A s \in row.items \cap items[c] : row.ts.timestamp \in heads[c][s].ytd

\* The pointer list of an unlocked stock tells where its older versions are:
\* the slot an entry names still holds the version with that timestamp.
PointerListNamesRing ==
    \A s \in Stocks, i \in VersionOffsets :
        (~headVersions[s].ts.locked /\ ~tsList[s][i].deleted) =>
            olderVersions[s][tsList[s][i].versionOffset].ts = tsList[s][i]

\* What the index tells of an order is already there: the slot holds that order
\* or a later one of the same client, and its lines' stocks are installed.
IndexNamesInstalledRows ==
    \A e \in orderIndex :
        LET row == orderTable[e.client][e.slot]
        IN  /\ ~row.ts.deleted
            /\ row.oID >= e.oID
            /\ row.oID = e.oID =>
                  \A s \in row.items : row.ts.timestamp \in headVersions[s].ytd

\* No two orders take the same id, whichever clients race on the district.
UniqueOrderIDs ==
    \A e, f \in orderIndex : e.oID = f.oID => e = f

\* The log comes before the install: while an update of a transaction is in a
\* head version, the client's log entry covers its commit timestamp.  (For
\* clients whose entry of the vector fits in what is written of it.)
LogBeforeInstall ==
    \A s \in Stocks :
        LET ts == headVersions[s].ts
        IN  (~ts.locked /\ ts.timestamp > 0) => journal[ts.clientID].vector[ts.clientID] >= ts.timestamp

\* "Command written to log journal": a transaction that installs has its whole
\* command in the log.
CommandIsLogged ==
    \A c \in Clients : pc[c] = "install" => journal[c].command = CommandSize

\* No step takes an order out of a stock's totals.
OrdersNeverLost ==
    [][\A s \in Stocks : headVersions[s].ytd \subseteq headVersions'[s].ytd]_vars

\* New-Order takes effect when the last lock is had: from then on it cannot fail,
\* and what it did not write yet counts as written.
InFlight(c) == pc[c] \in {"install", "submit"}

StockTotals ==
    [s \in Stocks |->
        headVersions[s].ytd \cup {cts[c] : c \in {d \in Clients : InFlight(d) /\ s \in items[d]}}]

CommittedOrders ==
    [c \in Clients |->
        IF InFlight(c)
        THEN [ts |-> cts[c], rows |-> items[c], received |-> [s \in items[c] |-> heads[c][s].ytd]]
        ELSE [ts |-> 0, rows |-> {}, received |-> <<>>]]

Ledger == INSTANCE TransactionLedger
    WITH Rows       <- Stocks,
         Footprints <- (SUBSET Stocks) \ {{}},
         Timestamps <- 0 .. TimestampRange - 1,
         ledger     <- StockTotals,
         pending    <- CommittedOrders,
         announced  <- lastCommittedVector

\* New-Order implements the ledger of the stocks: although stocks are read, locked, logged and
\* written one by one, an order takes effect on all its stocks at once, on just
\* what it read, and nobody builds on it before SubmitResult announces it.
ImplementsStockLedger == Ledger!LedgerSpec

\* Every transaction ends: clients never wait for each other's locks.
TransactionsFinish ==
    \A c \in Clients : pc[c] # "idle" ~> pc[c] = "idle"
=============================================================================
