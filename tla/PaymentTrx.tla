------------------------------ MODULE PaymentTrx ------------------------------
(***************************************************************************)
(* Payment, run by the same clients beside New-Order.  It writes the three *)
(* rows New-Order only reads: warehouse, district and customer.            *)
(*                                                                         *)
(* Payment posts its installs unsignaled: three pointer lists and three    *)
(* older versions, three heads, and the history row, whose completion is   *)
(* the only one it waits for.  A queue pair executes its work requests in  *)
(* order, but there is one per memory server, and the network card gathers *)
(* a request's data from the local buffer when it executes it, not when it *)
(* was posted.  So the queues are state, a client may announce its commit, *)
(* and start another transaction, with requests pending, and a buffer may  *)
(* change under a pending request.                                         *)
(*                                                                         *)
(* History rows live in a region only their own client writes and nobody   *)
(* reads: only the completion of the request is modelled.                  *)
(***************************************************************************)
EXTENDS NewOrderTrx, Sequences

CONSTANTS
    Warehouse, District, Customer,   \* the rows Payment writes
    Servers,                         \* the memory servers
    ServerOf,                        \* the server each record is on
    HistoryServers,                  \* the servers the unassigned H_W_ID may name
    MayPay, MayOrder                 \* bounds: the clients that run each transaction

ASSUME PaymentRecordsAssumption ==
    /\ Refs = {Warehouse, District, Customer}
    /\ Warehouse # District /\ District # Customer /\ Customer # Warehouse
ASSUME ServerAssumption ==
    /\ ServerOf \in [Records -> Servers]
    /\ HistoryServers \in (SUBSET Servers) \ {{}}
    /\ ServerOf[Warehouse] = ServerOf[District]   \* both belong to the home warehouse
\* New-Order takes its customer from the home warehouse, Payment from any.
ASSUME RolesAssumption ==
    /\ MayPay \subseteq Clients /\ MayOrder \subseteq Clients
    /\ MayOrder # {} => ServerOf[Customer] = ServerOf[Warehouse]

VARIABLES
    payPc,          \* each client's phase in Payment
    payStage,       \* how far the phase got
    payHeads,       \* Payment's local buffers of head versions
    payLists,       \* Payment's local buffers of pointer lists
    payNextOID,     \* D_NEXT_O_ID in the buffer of the district's head
    tried,          \* rows whose compare-and-swap completed
    payWon,         \* rows the client locked and has not unlocked yet
    queue,          \* work requests pending on each queue pair of a client
    historyServer   \* where a client's history rows go

bufferVars == <<payHeads, payLists, payNextOID>>
payVars == <<payPc, payStage, bufferVars, tried, payWon, queue, historyServer>>
mixVars == <<vars, payVars>>

PayPhases == {"idle", "snapshot", "read", "lock", "revert", "append", "update", "submit"}

\* The rows in the order Payment touches them, and one's position there.
PayOrder == <<Warehouse, District, Customer>>
Place(r) == CHOOSE i \in 1 .. 3 : PayOrder[i] = r

\* A work request: what it writes, of which row, and in which older-version slot.
Request(op, r, slot) == [op |-> op, row |-> r, slot |-> slot]
RequestType ==
    [op : {"pointers", "older", "head", "headRow", "history"}, row : Refs, slot : VersionOffsets]

(***************************************************************************)
(* H_W_ID, which selects the server of the history row, is never assigned: *)
(* the buffer keeps whatever warehouse its memory happened to name.        *)
(***************************************************************************)
PayInit ==
    /\ Init
    /\ payPc = [c \in Clients |-> "idle"]
    /\ payStage = [c \in Clients |-> 0]
    /\ payHeads = [c \in Clients |-> [r \in Refs |-> EmptyVersion]]
    /\ payLists = [c \in Clients |-> [r \in Refs |-> [i \in VersionOffsets |-> EmptyTimestamp]]]
    /\ payNextOID = [c \in Clients |-> 0]
    /\ tried = [c \in Clients |-> {}]
    /\ payWon = [c \in Clients |-> {}]
    /\ queue = [c \in Clients |-> [s \in Servers |-> <<>>]]
    /\ historyServer \in [Clients -> HistoryServers]

PayAccessible(c, r) == isRecordAccessible(payHeads[c][r].ts, c, localVector[c])

\* The read or atomic operation on row r that a client posts now completes
\* after what it posted on the same queue pair before.
Drained(c, r) == queue[c][ServerOf[r]] = <<>>

-----------------------------------------------------------------------------
PayStart(c) ==
    /\ payPc[c] = "idle" /\ pc[c] = "idle"
    /\ nextEpoch[c] <= MaxEpoch[c]
    /\ payPc' = [payPc EXCEPT ![c] = "snapshot"]
    /\ copied' = [copied EXCEPT ![c] = {}]
    /\ UNCHANGED <<serverVars, orderVars, oracleVars, rowVars, items, localVector, cts, nextEpoch,
                   journal, pc, heads, lists, stage, won,
                   payStage, bufferVars, tried, payWon, queue, historyServer>>

PayReadTimestamp(c, e) ==
    /\ payPc[c] = "snapshot"
    /\ e \notin copied[c]
    /\ localVector' = [localVector EXCEPT ![c][e] = readerVector[e]]
    /\ copied' = [copied EXCEPT ![c] = @ \cup {e}]
    /\ IF copied'[c] = Clients
       THEN /\ payPc' = [payPc EXCEPT ![c] = "read"]
            /\ payStage' = [payStage EXCEPT ![c] = 0]
       ELSE UNCHANGED <<payPc, payStage>>
    /\ UNCHANGED <<serverVars, orderVars, oracleVars, rowVars, items, cts, nextEpoch,
                   journal, pc, heads, lists, stage, won,
                   bufferVars, tried, payWon, queue, historyServer>>

(***************************************************************************)
(* The reads complete in order: timestamp, row and pointer list of each    *)
(* row.  The customer's pointer list is read into the district's buffer.   *)
(***************************************************************************)
ListBuffer(r) == IF r = Customer THEN District ELSE r

Reading(c, r, part) ==
    /\ payPc[c] = "read"
    /\ payStage[c] = 3 * (Place(r) - 1) + part
    /\ Drained(c, r)
    /\ payStage' = [payStage EXCEPT ![c] = @ + 1]
    /\ UNCHANGED <<vars, payPc, tried, payWon, queue, historyServer>>

PayRetrieveTimestamp(c, r) ==
    /\ Reading(c, r, 0)
    /\ payHeads' = [payHeads EXCEPT ![c][r] = WithTimestamp(@, headVersions[r].ts)]
    /\ UNCHANGED <<payLists, payNextOID>>

PayRetrieveRow(c, r) ==
    /\ Reading(c, r, 1)
    /\ payHeads' = [payHeads EXCEPT ![c][r] = WithRow(@, headVersions[r].ytd)]
    /\ payNextOID' = [payNextOID EXCEPT ![c] = IF r = District THEN nextOID ELSE @]
    /\ UNCHANGED payLists

PayRetrievePointerList(c, r) ==
    /\ Reading(c, r, 2)
    /\ payLists' = [payLists EXCEPT ![c][ListBuffer(r)] = tsList[r]]
    /\ UNCHANGED <<payHeads, payNextOID>>

\* lookupCustomerByLastName found nobody: the transaction commits nothing.
LookupFails(c) ==
    /\ payPc[c] = "read"
    /\ payStage[c] = 3 * (Place(Customer) - 1)
    /\ payPc' = [payPc EXCEPT ![c] = "idle"]
    /\ UNCHANGED <<vars, payStage, bufferVars, tried, payWon, queue, historyServer>>

PayCheckVersionsAbort(c) ==
    /\ payPc[c] = "read"
    /\ payStage[c] = 9
    /\ \E r \in Refs : ~PayAccessible(c, r)
    /\ payPc' = [payPc EXCEPT ![c] = "idle"]
    /\ UNCHANGED <<vars, payStage, bufferVars, tried, payWon, queue, historyServer>>

PayAcquireCommitTimestamp(c) ==
    /\ payPc[c] = "read"
    /\ payStage[c] = 9
    /\ \A r \in Refs : PayAccessible(c, r)
    /\ getNewCommitTimestamp(c)
    /\ payPc' = [payPc EXCEPT ![c] = "lock"]
    /\ tried' = [tried EXCEPT ![c] = {}]
    /\ UNCHANGED <<serverVars, orderVars, oracleVars, rowVars, items, localVector, copied,
                   journal, pc, heads, lists, stage, won,
                   payStage, bufferVars, payWon, queue, historyServer>>

-----------------------------------------------------------------------------
PayLockTimestamp(c, r) ==
    Timestamp(FALSE, TRUE, payHeads[c][r].ts.versionOffset, c, cts[c])

\* The rows on r's server whose request was posted before r's: stocks come last.
Earlier(r) ==
    {q \in Refs : ServerOf[q] = ServerOf[r] /\ (r \in Refs => Place(q) < Place(r))}

Locking(c, r, succeeds) ==
    /\ payPc[c] = "lock"
    /\ r \notin tried[c]
    /\ Earlier(r) \subseteq tried[c]
    /\ IF succeeds
       THEN /\ headVersions' =
                 [headVersions EXCEPT ![r] = WithTimestamp(@, PayLockTimestamp(c, r))]
            /\ payWon' = [payWon EXCEPT ![c] = @ \cup {r}]
       ELSE UNCHANGED <<headVersions, payWon>>
    /\ tried' = [tried EXCEPT ![c] = @ \cup {r}]
    /\ UNCHANGED <<tsList, olderVersions, orderVars, oracleVars, trxVars, rowVars,
                   journal, pc, heads, lists, stage, won,
                   payPc, payStage, bufferVars, queue, historyServer>>

\* Mutant: the lock bit is compared instead of the whole timestamp.
PayLockUnversioned(c, r) == Locking(c, r, ~headVersions[r].ts.locked)

\* RDMA compare-and-swap on the head timestamp.
PayLock(c, r) == Locking(c, r, headVersions[r].ts = payHeads[c][r].ts)

PayLocksRefused(c) ==
    /\ payPc[c] = "lock"
    /\ tried[c] = Refs
    /\ payWon[c] # Refs
    /\ payPc' = [payPc EXCEPT ![c] = "revert"]
    /\ UNCHANGED <<vars, payStage, bufferVars, tried, payWon, queue, historyServer>>

PayRevertLock(c, r) ==
    /\ payPc[c] = "revert"
    /\ r \in payWon[c]
    /\ Earlier(r) \cap payWon[c] = {}
    /\ headVersions' = [headVersions EXCEPT ![r] = WithTimestamp(@, payHeads[c][r].ts)]
    /\ payWon' = [payWon EXCEPT ![c] = @ \ {r}]
    /\ UNCHANGED <<tsList, olderVersions, orderVars, oracleVars, trxVars, rowVars,
                   journal, pc, heads, lists, stage, won,
                   payPc, payStage, bufferVars, tried, queue, historyServer>>

\* Mutant: the transaction ends before all its locks are given back.
PayLockAbortEarly(c) ==
    /\ payPc[c] = "revert"
    /\ payPc' = [payPc EXCEPT ![c] = "idle"]
    /\ UNCHANGED <<vars, payStage, bufferVars, tried, payWon, queue, historyServer>>

PayLockAbort(c) ==
    /\ payPc[c] = "revert"
    /\ payWon[c] = {}
    /\ payPc' = [payPc EXCEPT ![c] = "idle"]
    /\ UNCHANGED <<vars, payStage, bufferVars, tried, payWon, queue, historyServer>>

PayLocksAcquired(c) ==
    /\ payPc[c] = "lock"
    /\ tried[c] = Refs
    /\ payWon[c] = Refs
    /\ writeCommandToLog(c)
    /\ payPc' = [payPc EXCEPT ![c] = "append"]
    /\ UNCHANGED <<serverVars, orderVars, oracleVars, items, copied, cts, nextEpoch, rowVars,
                   pc, heads, lists, stage, won,
                   payStage, bufferVars, tried, payWon, queue, historyServer>>

-----------------------------------------------------------------------------
\* The queues of a client with requests on row r added at the end of its one.
Posted(pending, r, requests) == [pending EXCEPT ![ServerOf[r]] = @ \o requests]

\* Mutant: the circular buffer is filled from its end, off by one.
OlderSlotBackwards(c, r) == VersionNum - payHeads[c][r].ts.versionOffset

\* The slot an old head goes to: its own version offset names it.
OlderSlot(c, r) == payHeads[c][r].ts.versionOffset

\* The slot is fixed when the request is posted; the data is what the buffer
\* holds later.
OldVersion(c, r) == <<Request("pointers", r, 0), Request("older", r, OlderSlot(c, r))>>

AppendOldVersions(c) ==
    /\ payPc[c] = "append"
    /\ payLists' = [payLists EXCEPT ![c] =
                       [r \in Refs |-> ShiftPointers(@[r], payHeads[c][r].ts)]]
    /\ queue' = [queue EXCEPT ![c] =
                    Posted(Posted(Posted(@, Warehouse, OldVersion(c, Warehouse)),
                                  District, OldVersion(c, District)),
                           Customer, OldVersion(c, Customer))]
    /\ payPc' = [payPc EXCEPT ![c] = "update"]
    /\ payStage' = [payStage EXCEPT ![c] = 0]
    /\ UNCHANGED <<vars, payHeads, payNextOID, tried, payWon, historyServer>>

Updating(c, r, part) ==
    /\ payPc[c] = "update"
    /\ payStage[c] = 2 * (Place(r) - 1) + part
    /\ payStage' = [payStage EXCEPT ![c] = @ + 1]
    /\ UNCHANGED <<vars, payPc, payLists, payNextOID, tried, payWon, historyServer>>

\* setAll on the head buffer.
SetNewTimestamp(c, r) ==
    /\ Updating(c, r, 0)
    /\ LET offset == NextVersionOffset(payHeads[c][r].ts.versionOffset)
       IN  payHeads' = [payHeads EXCEPT ![c][r] =
                           WithTimestamp(@, Timestamp(FALSE, FALSE, offset, c, cts[c]))]
    /\ UNCHANGED queue

\* W_YTD, D_YTD or C_BALANCE in the head buffer, and the request that writes it.
PostUpdate(c, r) ==
    /\ Updating(c, r, 1)
    /\ payHeads' = [payHeads EXCEPT ![c][r] = WithRow(@, @.ytd \cup {cts[c]})]
    /\ queue' = [queue EXCEPT ![c] = Posted(@, r, <<Request("head", r, 0)>>)]

\* The one signaled request.
InsertIntoHistory(c) ==
    /\ payPc[c] = "update"
    /\ payStage[c] = 6
    /\ queue' = [queue EXCEPT ![c][historyServer[c]] =
                    Append(@, Request("history", Warehouse, 0))]
    /\ payPc' = [payPc EXCEPT ![c] = "submit"]
    /\ UNCHANGED <<vars, payStage, bufferVars, tried, payWon, historyServer>>

\* The network card executes the oldest request of a queue pair.
Execute(c, s, op) ==
    /\ queue[c][s] # <<>>
    /\ Head(queue[c][s]).op = op
    /\ queue' = [queue EXCEPT ![c][s] =
                    IF op = "head" THEN <<[Head(@) EXCEPT !.op = "headRow"]>> \o Tail(@) ELSE Tail(@)]
    /\ UNCHANGED <<orderTable, orderIndex, oracleVars, trxVars, rowVars,
                   journal, pc, heads, lists, stage, won,
                   payPc, payStage, bufferVars, tried, historyServer>>

ExecutePointers(c, s) ==
    /\ Execute(c, s, "pointers")
    /\ LET r == Head(queue[c][s]).row
       IN  tsList' = [tsList EXCEPT ![r] = payLists[c][r]]
    /\ UNCHANGED <<headVersions, olderVersions, nextOID, payWon>>

ExecuteOlder(c, s) ==
    /\ Execute(c, s, "older")
    /\ LET q == Head(queue[c][s])
       IN  olderVersions' = [olderVersions EXCEPT ![q.row][q.slot] = payHeads[c][q.row]]
    /\ UNCHANGED <<headVersions, tsList, nextOID, payWon>>

\* The first word of the new head unlocks the row ...
ExecuteHead(c, s) ==
    /\ Execute(c, s, "head")
    /\ LET r == Head(queue[c][s]).row
       IN  /\ headVersions' = [headVersions EXCEPT ![r] = WithTimestamp(@, payHeads[c][r].ts)]
           /\ payWon' = [payWon EXCEPT ![c] = @ \ {r}]
    /\ UNCHANGED <<tsList, olderVersions, nextOID>>

\* ... and the rest of it: the district's holds the D_NEXT_O_ID that was read.
ExecuteHeadRow(c, s) ==
    /\ Execute(c, s, "headRow")
    /\ LET r == Head(queue[c][s]).row
       IN  /\ headVersions' = [headVersions EXCEPT ![r] = WithRow(@, payHeads[c][r].ytd)]
           /\ nextOID' = IF r = District THEN payNextOID[c] ELSE nextOID
    /\ UNCHANGED <<tsList, olderVersions, payWon>>

ExecuteHistory(c, s) ==
    /\ Execute(c, s, "history")
    /\ UNCHANGED <<serverVars, nextOID, payWon>>

Submitting(c) ==
    /\ payPc[c] = "submit"
    /\ lastCommittedVector' = [lastCommittedVector EXCEPT ![c] = localVector[c][c]]
    /\ payPc' = [payPc EXCEPT ![c] = "idle"]
    /\ UNCHANGED <<serverVars, orderVars, readerVector, trxVars, rowVars,
                   journal, pc, heads, lists, stage, won,
                   payStage, bufferVars, tried, payWon, queue, historyServer>>

\* Mutant: the result is submitted without waiting for any completion.
PaySubmitResultAtOnce(c) == Submitting(c)

\* synchronizeSendEvents saw the history row's completion.
PaySubmitResult(c) ==
    /\ \A s \in Servers : \A i \in 1 .. Len(queue[c][s]) : queue[c][s][i].op # "history"
    /\ Submitting(c)

-----------------------------------------------------------------------------
\* The reads New-Order may not complete yet: they wait for what the client
\* posted before on the same queue pair, pending requests and earlier reads.
HeldBack(c) ==
    IF pc[c] = "execute"
    THEN {r \in Records : stage[c][r] < 3 /\ (~Drained(c, r) \/ ~Reached(c, Earlier(r), 3))}
    ELSE {}

OrderStep(c) ==
    /\ Step(c)
    /\ {r \in HeldBack(c) : stage'[c][r] # stage[c][r]} = {}
    /\ UNCHANGED payVars

OrderStart(c) ==
    /\ payPc[c] = "idle"
    /\ Start(c)
    /\ UNCHANGED payVars

RefreshReader(e) == ReaderRefresh(e) /\ UNCHANGED payVars

PayStep(c) ==
    \/ \E e \in Clients : PayReadTimestamp(c, e)
    \/ \E r \in Refs : \/ PayRetrieveTimestamp(c, r)
                       \/ PayRetrieveRow(c, r)
                       \/ PayRetrievePointerList(c, r)
    \/ LookupFails(c)
    \/ PayCheckVersionsAbort(c)
    \/ PayAcquireCommitTimestamp(c)
    \/ \E r \in Refs : PayLock(c, r) \/ PayRevertLock(c, r)
    \/ PayLocksRefused(c)
    \/ PayLockAbort(c)
    \/ PayLocksAcquired(c)
    \/ AppendOldVersions(c)
    \/ \E r \in Refs : SetNewTimestamp(c, r) \/ PostUpdate(c, r)
    \/ InsertIntoHistory(c)
    \/ PaySubmitResult(c)

ExecuteRequest(c, s) ==
    \/ ExecutePointers(c, s)
    \/ ExecuteOlder(c, s)
    \/ ExecuteHead(c, s)
    \/ ExecuteHeadRow(c, s)
    \/ ExecuteHistory(c, s)

PayNext ==
    \/ \E e \in Clients : RefreshReader(e)
    \/ \E c \in MayOrder : OrderStart(c) \/ OrderStep(c)
    \/ \E c \in MayPay : PayStart(c) \/ PayStep(c) \/ \E s \in Servers : ExecuteRequest(c, s)

PaySpec == PayInit /\ [][PayNext]_mixVars

-----------------------------------------------------------------------------
(***************************************************************************)
(* Properties.                                                             *)
(***************************************************************************)

\* Every variable has its type.
PayTypeOK ==
    /\ TypeOK
    /\ payPc \in [Clients -> PayPhases]
    /\ payStage \in [Clients -> 0 .. 9]
    /\ payHeads \in [Clients -> [Refs -> VersionType]]
    /\ payLists \in [Clients -> [Refs -> [VersionOffsets -> TimestampType]]]
    /\ payNextOID \in [Clients -> Nat]
    /\ tried \in [Clients -> SUBSET Refs]
    /\ payWon \in [Clients -> SUBSET Refs]
    /\ queue \in [Clients -> [Servers -> Seq(RequestType)]]
    /\ historyServer \in [Clients -> Servers]
    /\ \A c \in Clients : payPc[c] # "idle" => pc[c] = "idle"

\* Some pending request of a queue pair does op on row r.
Awaits(pending, op, r) ==
    \E i \in 1 .. Len(pending) : pending[i].op = op /\ pending[i].row = r

\* A request that unlocks row r is still pending.
UnlockPending(c, r) == Awaits(queue[c][ServerOf[r]], "head", r)

\* A locked row is locked by a client that still runs the payment and will
\* revert or replace it, or that announced its commit and went on, but whose
\* request to write the new head is on its way: no lock is left behind.
PaymentLockOwnership ==
    \A r \in Refs :
        headVersions[r].ts.locked =>
            \E c \in Clients :
                /\ headVersions[r].ts.clientID = c
                /\ r \in payWon[c]
                /\ payPc[c] \in {"lock", "revert", "append", "update"} \/ UnlockPending(c, r)

\* Once its locks confirm what it read, a payment has read the same payments on
\* all three rows, and only announced ones: its reads were neither torn, nor
\* dirty, nor taken from different states.  (The program logs "All received
\* versions are consistent with READ snapshot, and all are unlocked".)
ReceivedVersionsAreConsistent ==
    \A c \in Clients :
        payPc[c] = "append" =>
            \A r \in Refs :
                /\ payHeads[c][r].ytd = payHeads[c][Warehouse].ytd
                /\ \A p \in payHeads[c][r].ytd : p <= lastCommittedVector[p % ClientCnt]

\* The payments the oracle's vector announces are installed on all their rows:
\* a head that shows one leaves no other row of it without.
AnnouncedPaymentsInstalled ==
    \A r, q \in Refs : \A p \in headVersions[r].ytd :
        p <= lastCommittedVector[p % ClientCnt] => p \in headVersions[q].ytd

\* No step takes a payment out of a row's balance.
PaymentsNeverLost ==
    [][\A r \in Refs : headVersions[r].ytd \subseteq headVersions'[r].ytd]_mixVars

\* The log comes before the install: whatever else the client did since, its
\* log entry covers every payment of its that is in a head version.
PaymentLogBeforeInstall ==
    \A r \in Refs :
        LET ts == headVersions[r].ts
        IN  (~ts.locked /\ ts.timestamp > 0) => journal[ts.clientID].vector[ts.clientID] >= ts.timestamp

\* Payment too takes effect when the last lock is had.  Its head buffers hold
\* what it received, and later itself.
PayInFlight(c) == payPc[c] \in {"append", "update", "submit"}

RowTotals ==
    [r \in Records |->
        IF r \in Stocks THEN StockTotals[r]
        ELSE headVersions[r].ytd \cup {cts[c] : c \in {d \in Clients : PayInFlight(d)}}]

CommittedTransactions ==
    [c \in Clients |->
        IF PayInFlight(c)
        THEN [ts |-> cts[c], rows |-> Refs,
              received |-> [r \in Refs |-> payHeads[c][r].ytd \ {cts[c]}]]
        ELSE CommittedOrders[c]]

MixLedger == INSTANCE TransactionLedger
    WITH Rows       <- Records,
         Footprints <- {Refs} \cup ((SUBSET Stocks) \ {{}}),
         Timestamps <- 0 .. TimestampRange - 1,
         ledger     <- RowTotals,
         pending    <- CommittedTransactions,
         announced  <- lastCommittedVector

\* Payments and orders together implement the ledger of all rows: a payment
\* takes effect on its three rows at once, on just what it read, and nobody
\* builds on it before it is announced, although its installs are only posted.
ImplementsTransactionLedger == MixLedger!LedgerSpec

\* First committer wins, by clients that never wait: between the last lock of a
\* payment or an order and its announcement, its rows are as it read them but
\* for itself, whoever locks, reverts or installs meanwhile.
UnannouncedIsExclusive == MixLedger!PendingIsExclusive

\* D_NEXT_O_ID is "the next available order number": no order has taken it.
NextOrderNumberIsAvailable ==
    \A e \in orderIndex : e.oID < nextOID
=============================================================================
