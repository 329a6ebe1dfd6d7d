# A TLA+ model of RDMA snapshot isolation

The repository is a distributed in-memory database with snapshot isolation. Memory servers
only own memory regions; clients run the transactions of TPC-C themselves, with one-sided RDMA
reads, writes and atomic operations, and a timestamp *vector* (one entry per client) decides
what a transaction may see. This project models the transactions as the network sees them, one
step per RDMA operation, and the programs around them (servers, clients, the oracle, the
micro-benchmarks and the earlier protocol of the vision paper) call by call; it checks them with
TLC, and proves the most important facts about the transactions with TLAPS.

Paths below are relative to `src/src/`; `C/` stands for
`benchmarks/TPC-C/one-sided-architecture/client/` and `T/` for `benchmarks/TPC-C/tables/`; the
vision paper's programs are in `src/SUBMISSIONS/vision_paper_VLDB_2016/visionpaper-RSI`.

## 1. Inventory

| Component | State it keeps | Operations | Where |
|---|---|---|---|
| Record timestamp | a 64-bit word: deleted, locked, version offset, client id, 32-bit timestamp | equality, visibility (`isRecordAccessible`), search in a pointer list (`findValidVersion`), commit timestamps `epoch * clientCnt + clientID` | `basic-types/timestamp.*`, `C/queries/BaseTransaction.cpp` |
| Memory server, tables | per record: head version, pointer list, ring of older versions; per client: regions of ORDER, NEW-ORDER, ORDER-LINE, HISTORY rows | passive: read, written, compare-and-swapped by clients | `T/*` |
| Memory server, index | maps order -> address, customer -> largest order, district -> priority queue of undelivered orders, lines -> address; a lock per map | `registerOrder`, `oldestUndeliveredOrder`, `registerDelivery`, `largestOrder`, `last20Orders`, `customerByLastName`, each served by the thread of its client | `T/TPCCDB.cpp`, `T/OrderTable.hpp`, `T/NewOrderTable.hpp`, `T/OrderLineTable.hpp`, `index/` |
| Oracle | `lastCommittedVector` | passive: clients write their entry when they commit | `oracle/vector-snapshot-oracle/Oracle.cpp` |
| Oracle reader | local copy of the vector, one per machine | polls the oracle with RDMA READ | `C/OracleReader.cpp` |
| Command log | one entry per client on each log server | `writeCommandToLog` (`writeResultToLog` has no caller) | `recovery/` |
| Client, sessions | epoch counter, next slots of its regions, local buffers, queue pairs | the loop that picks transactions | `C/TPCCClient.cpp`, `C/SessionState.hpp` |
| New-Order, Payment, Delivery | local buffers of the running transaction | snapshot, read, check, lock, revert, log, install, register, announce | `C/queries/*`, `C/DBExecutor.cpp` |
| Order-Status, Stock-Level | the same, read-only | snapshot, index lookup, read | `C/queries/*` |
| Server life cycle | number of live clients, stop flags of handler threads | accept, serve index requests, count TERMINATE messages | `benchmarks/TPC-C/one-sided-architecture/server/TPCCServer.cpp` |
| Verbs layer | TCP sockets; queue pairs with send queue, posted receives, completion queue; registered memory | connect, accept, exchange of keys, post (signaled or not), poll, destroy | `rdma-region/RDMACommon.cpp`, `util/utils.cpp`, the `*Context` classes |
| RSI | per item: write timestamp, stock, lock word; a commit-timestamp counter | read items, draw a timestamp by fetch-and-add, lock by CAS, revert or write and release | the vision paper's `RDMAClient.cpp`, `RDMAServer.cpp` |
| Two-phase commit | iteration counters | READY, YES, COMMIT, DONE over SEND/RECEIVE or sockets | `micro-benchmarks/2PC` |
| Verb and cache benchmarks | one buffer per server; linked lists | the four verbs in a loop; walks of a list while clients READ it | `micro-benchmarks/simple-verbs`, `micro-benchmarks/cache-effect` |
| TPC-W variants | - | two-sided transaction manager, an earlier copy of RSI | `benchmarks/TPC-W` |
| Loading, random generation, hash indexes | tables, containers | ends before any client connects; one lock per container | `T`, `random`, `index` |

**How they interact.** There is no shared memory between clients; they meet in the servers'
regions. A transaction copies the reader's vector, reads records with RDMA READ (several words,
possibly torn by a concurrent WRITE), and validates what it will write by a compare-and-swap of
the head's timestamp word that also locks it. It installs by RDMA WRITE, whose first word
unlocks. Orders become known to others only through index messages. The write of its own vector
entry makes a commit visible. Processes find each other over TCP, exchange queue-pair numbers and
memory keys, and from then on agree on where they are by counting: no program looks at what kind
of message or completion it has received, except the server's index handlers.

**What is hard.** Reads and writes are torn; a snapshot is copied while it changes; locks are
had in part and given back; several unsignaled requests are covered by one awaited completion;
the network card gathers data from buffers that the client has gone on to change; index handlers
take several locks one after the other; a client's memory is a ring that is reused; log, install,
registration and announcement must come in this order; handler threads share a completion queue
and the count of live clients; unsignaled requests fill a send queue that is only drained by
polling a later one; every process waits for its peers in program order, from the first accept to
the last byte before the contexts are destroyed. None of it is reached by a unit test.
`PROJECT.json` lists each of these places as a hazard, at its line.

**What makes each part correct.**
- timestamps: a word identifies a version of a record, and is never used again;
- New-Order and Payment: no update lost, snapshots atomic, no lock left behind, announced
  commits fully installed, log before install, every transaction ends;
- order ids: unique; D_NEXT_O_ID is always an id nobody has;
- index: names only rows that are there; an undelivered order is offered; the largest order is;
- Delivery: no order twice, no pop of an empty queue, rows unlocked afterwards;
- log: the whole command is in it before its effects are;
- life cycle: servers stop once every client has terminated, and not before;
- verbs layer and every program on it: no call fails, nobody waits for ever, a message is what its
  reader takes it for, memory outlives the requests on it;
- RSI: no lock left behind, a free lock names the item's version, versions only grow, no
  decrement lost that the CAS can see;
- two-phase commit: atomic rounds.

## 2. Modules

| Module | Models |
|---|---|
| `RecordTimestamp` | the timestamp word, visibility, version search, commit timestamps, the shift of a pointer list |
| `NewOrderTrx` | New-Order with the oracle, its reader, the log and the index as far as New-Order uses them |
| `TransactionLedger` | what an update transaction promises of the rows it writes, without reads, locks and versions; `NewOrderTrx` implements it on the stocks, `PaymentTrx` on all rows |
| `PaymentTrx` | EXTENDS `NewOrderTrx`: the same clients also run Payment; queue pairs are state |
| `OrderDelivery` | registration and delivery of orders, one step per access to an index map |
| `Verbs` | sockets and reliable-connection queue pairs: the calls of a thread, the steps of the adapter |
| `Session` | EXTENDS `Verbs`: connecting, exchanging keys and taking leave, as all programs do it |
| `RSI`, `TwoPhaseCommit`, `SimpleVerbs`, `CacheEffect`, `Deployment` | EXTEND `Session`: one program (or one family) each |
| `AtomicCommit` | what two-phase commit promises, without messages; `TwoPhaseCommit` implements it |
| `Programs` | composes the five: a behaviour runs one program of `ProgramSet` |
| `NewOrderTrx_proofs`, `NewOrderRows_proofs`, `NewOrderLog_proofs`, `NewOrderSnapshot_proofs`, `PaymentTrx_proofs`, `TransactionMix_proofs`, `OrderDelivery_proofs`, `AtomicCommit_proofs` | theorems |
| `MCNewOrderTrx`, `MCPaymentTrx`, `MCOrderDelivery`, `MCPrograms` | instances for TLC |

### RecordTimestamp
A timestamp is a record of the fields of `Timestamp`; the lock/deletion byte is two booleans.
The commit timestamp keeps its cast to 32 bits as `% TimestampRange`.

### NewOrderTrx
State of the servers: `headVersions`, `tsList`, `olderVersions`, `nextOID` (D_NEXT_O_ID),
`orderTable` (each client's ring of order rows), `orderIndex`, `journal` (log). Oracle:
`lastCommittedVector`, `readerVector`. The rest is the client's: its phase `pc`, and for each
record `stage`, how far the phase got on it. Phases and code (`NewOrderTransaction::doOne`):

| phase | actions | lines |
|---|---|---|
| snapshot | `getReadTimestamp`, one vector entry per step (memcpy of the reader's copy) | 90-101 |
| execute | `RetrieveTimestamp`, `RetrieveRow`, `RetrievePointerList`; then `CheckVersions` or `CheckVersionsAbort` | 101-250 |
| recheck | `RetrieveOlderVersion` (the list position is used as the ring slot, as in the code), `RecheckAbort`, `AcquireCommitTimestamp` | 203-276 |
| lock | `LockStock` per stock; `LocksRefused` or `LocksAcquired` (with the log write) | 297-390 |
| revert | `RevertStockLock`, `LockAbort` | 352-372 |
| install | `UpdateStockPointers`, `UpdateStockOlderVersions`, `RetrieveAndIncrementDistrictNextOID`, `InsertOrder`, `UpdateStockTimestamp`, `UpdateStock`, `RegisterOrder` | 391-539 |
| submit | `SubmitResult` | 557-572 |

Granularity: head versions move in two parts, the timestamp word and the row, so that reads and
writes tear; pointer lists and older versions move at once. The vector is refreshed and copied
entry by entry. Operations of a phase on different records run in any order, as they may be on
different servers; those on one record run in the order they were posted.

Data: quantities are abstracted to `ytd`, the set of the commit timestamps applied to a row, from
which a lost or a half-seen update can be read off. Items never change and are left out, as are
prices and text. A log entry is the vector followed by the command, and a write of `CommandSize`
units from its start reaches the log (`LogEntry`).

**TransactionLedger** is the abstract specification: a `ledger` of transactions per row, and for each
client the transaction it has committed and not announced (`pending`). `Commit` enters a transaction in
all rows of one of the `Footprints` in one step, records what they held just before, and may happen
only if no unannounced transaction is on one of them; `Announce` publishes it. `NewOrderTrx` implements
it with the carts as footprints (`ImplementsStockLedger`). The refinement mapping counts an order as
entered from `LocksAcquired` on, when nothing can stop it any more: `StockTotals` adds to each head the
orders that are still being installed, and `CommittedOrders` shows the rows these clients read.

### PaymentTrx
Payment posts ten requests and waits for the last, so each client has a FIFO `queue` per server.
`Execute...` takes the oldest request and gathers its data from the client's buffers *then*, as
the network card does. Reads and atomic operations on a queue pair come after what was posted
before (`Drained`, `Earlier`; for New-Order's reads `HeldBack`). Kept from the code: the customer's
pointer list is read into the district's buffer (`ListBuffer`); the district row is written back
whole (`payNextOID`); the history row goes to the server of a field that is never assigned
(`historyServer`, any member of `HistoryServers`).

Orders and payments together implement `TransactionLedger` on all rows, the footprints being the carts
and the three rows of a payment (`ImplementsTransactionLedger`). A payment counts from `PayLocksAcquired`
on, and until `PaySubmitResult` it is pending (`PayInFlight`); `RowTotals` and `CommittedTransactions`
extend New-Order's mapping. `UnannouncedIsExclusive` is the ledger's `PendingIsExclusive` seen through it.

### OrderDelivery
One district. Registration is five locked accesses (`PutOrderAddress` .. `PutLineAddress`), the
comparison and the put of the largest order being separate. Delivery looks the order up in two
accesses, reads and locks the ORDER and NEW-ORDER rows, installs, registers, announces. A client may
order, deliver or do both, as the mix of `DBExecutor` has it. Order
lines and the customer row are any outcome of check and lock. The queue is a set whose minimum
is its top. A row is named by its order; that a client's ring of slots is reused is not modelled
here. `OrderInconsistentAbort` has no guard because a snapshot may lag behind `announced`.

Where the deleted NEW-ORDER row goes is kept from the code (`WriteDeletedRow`): not to the row that is
locked, but to slot 0 of the deliverer's own region, because a `DeliveryTransaction` never increments
its counter. `firstOrder` is the order whose row a client that also orders has there. `newOrderRow`
holds of each row what Delivery looks at, the lock byte (free, a client, `Deleted`) and `NO_O_ID`; a
revert writes only the first. A delivery in any of the other districts writes to the same slot
(`InstallElsewhere`). So a lock can vanish under its holder, the holder may bring the old word back over
another order's row, and an order deleted before it was delivered is refused for ever and stays on top of the
queue. None of this delivers an order twice, which is checked and proved.

### Verbs and Session
State: `todo[p]`, the calls thread `p` has still to make; `conn`, the contexts of a process in the
order they were connected; `backlog`, `sock` (TCP); `qp`, for each end of a connection its state,
send queue, posted receives, unacknowledged requests, slots in use and completion queue; `mem`,
the memory of a process as a function of addresses; `failed`, the threads whose call returned an
error (the programs end there, `TEST_NZ`). The programs are straight-line but for a few branches,
so a program is written as a sequence of calls named after the C++ functions, and **every call is
one action** (`CallStep`); a blocking call is an action whose guard waits. The adapter has steps of
its own, marked external: `Deliver` (a SEND meets a posted receive, or the queue pair goes to
error), `Transfer` (a READ or WRITE moves `program.chunk` words, so it tears), `Atomic`,
`Acknowledge` (completions, in order; a signaled one frees the slots of the unsignaled ones before
it once it is polled). Posting a request to a queue pair that is not connected, or is full, fails.

`poll_each` stands for a loop that polls one completion of each of several contexts. A branch
(did all the CAS succeed? is this message TERMINATE?) is a call whose action puts the chosen calls
in front of `todo[p]`.

### The programs
- `RSI`: `fill_shopping_cart` chooses an item per server, `acquire_item_locks` builds the expected
  and the new lock from the version that was read, `check_locks` compares what the CAS returned and
  goes on with reverting the locks that were had or with writing and releasing. The stock of an item
  is the set of commit timestamps whose decrement it holds. The read timestamp is fetched and, as in
  the code, never used, so that READ moves no word.
- `TwoPhaseCommit`: the loops of `Coordinator`, `Cohort`, `IPCoordinator` and `IPCohort`. Their
  rounds are read off the calls that are left (`Voted`, `Decided`, `Committed`), which is the
  refinement mapping to `AtomicCommit`.
- `SimpleVerbs`: READ, WRITE, CAS and FETCH-ADD, on memory shared by the clients or dedicated to
  each; `CacheEffect`: building the three lists, walking them, the clients' READs meanwhile. Of
  the sum a walk computes it keeps the pads added, in their order.
- `Deployment`: `executor.cpp`'s oracle, memory server, clients and reader. Accepting and numbering,
  keys, the handler threads on one completion queue (`poll_request`), the TERMINATE count and stop
  flags, the reader's loop and the message that ends it, join and destroy. A transaction is an index
  request and the WRITE of a vector entry: what happens in between is `NewOrderTrx`'s subject.

## 3. Runs

| Run | Instance | Shows |
|---|---|---|
| `new_order` | 2 clients, 2 stocks, client 0 commits twice, ring of 2 versions and 2 order slots; 318k states, about 2 min | `TypeOK`; `LockOwnership`: a locked stock has an owner that will unlock it; `LockedVersionIsRead`: a successful compare-and-swap validates a torn read; `OrdersNeverLost`; `ReadsAreAtomic` and `SnapshotIsRead`: a committing transaction saw another order on all shared stocks or none, and all that its snapshot announced; `AnnouncedOrdersInstalled`; `PointerListNamesRing`; `IndexNamesInstalledRows`; `UniqueOrderIDs`; `LogBeforeInstall`; `ImplementsStockLedger` |
| `new_order_liveness` | one commit timestamp each | `TransactionsFinish` under fairness |
| `payments` | 2 paying clients, one server; 398k states | `PaymentLockOwnership`, `ReceivedVersionsAreConsistent`, `AnnouncedPaymentsInstalled`, `PaymentsNeverLost`; `UnannouncedIsExclusive`: the rows of an unannounced payment hold what it read, itself and nothing else; `ImplementsTransactionLedger` |
| `payment_mix` | one pays, one orders; 430k states | `PayTypeOK`, `PaymentLogBeforeInstall`, `ImplementsTransactionLedger`, with New-Order's fall-back to older versions happening |
| `order_delivery` | one client orders, one delivers, one does both, 3 orders; 702k states | `DeliveredAtMostOnce`, `QueueIsNotEmptyAtPop`, `OfferedOrdersHaveAddresses`, `TypeOK` |
| `programs` | each program below; 588k states, about 2 min | `TypeOK`, `NoFailure`, `NobodyIsStuck`, `MessagesInStep`, `ContextsOutliveRequests` for all; `FreeLockNamesVersion`, `HeldLocksHaveOwners`, `VersionsIncrease`, `UntornReadsLoseNothing` for RSI; `ImplementsAtomicCommit`; `RegionsStayPrivate` for the verb benchmark and the oracle's vector; `WalkAddsInOrder`; `HandlersOutliveClients` |
| `payment_announce` | history on another server | **violated**: a half-installed payment is announced, and read |
| `payment_order_ids` | one pays, one orders | **violated**: D_NEXT_O_ID goes back to an id that was taken |
| `delivery_queue` | as `order_delivery` | **violated**: an undelivered order is popped instead of the delivered one |
| `largest_order` | as `order_delivery` | **violated**: the smaller of two racing orders stays as the largest |
| `delivered_rows` | as `order_delivery` | **violated**: the delivered NEW-ORDER row stays locked |
| `command_log` | as `new_order` | **violated**: the end of the command is not in the log |

The six violations disagree with a comment or a message of the program; each is a finding in
`PROJECT.json` with the quotation. `payments` and `payment_announce` belong together: they show
that waiting for the last completion only is right exactly when the requests share a queue pair.
`DeliveredAtMostOnce` and `delivered_rows` do too: the lock that is never released is what keeps
an order from being delivered again, and unlocking the row without marking it deleted would
break it (that is the mutant `InstallUndeleted`).

`WalkAddsInOrder` says which elements each cache benchmark's walk adds, and in which order, not only
their sum: the counted walk of the closed list all of them, the walk until NULL all but the first, which
it steps over (its pad is 0, so the sum printed is the same), `local_cpu` the array by index.

`programs` has one question, whether the repository's programs get through their protocol, and asks
it of all of them: RSI with 2 servers and 2 clients (items read whole) and with 1 server and 2
clients (items torn word by word); both two-phase commits with 2 cohorts and 3 rounds; the four
verbs on shared and dedicated memory of 2 words, 2 clients, 2 rounds; the three cache benchmarks on
every shuffle of 3 nodes; TPC-C with 2 clients and 2 handler threads, and with 1 client, the reader
and 1 handler.

`UntornReadsLoseNothing` is as strong as RSI allows. The CAS compares the write timestamp, which is
the first word of the item. A READ that gets the new timestamp and the old stock from a WRITE under
way passes the CAS once the writer has released its lock, and a decrement is lost: dropping
`untorn` from the property lets TLC show this with `chunk = 1`. New-Order, on the same
idea, is safe because an unannounced version passes nobody's check (`IdentityInv` below); RSI checks
nothing of the kind.

**Bounds.** Two clients are enough for each race the hazards name (reader against writer, writer
against writer, deliverer against registrar). Two stocks let carts overlap in part, lock in
opposite order, and show half an order. A client that commits twice makes words,
ring slots and order slots of the second transaction meet those of the first. `VersionNum = 2`
makes the version offset wrap. Three orders let a late registration come below, and above, a
delivered one. `MaxEpoch`, `MaxOrders`, `MayPay` and `MayOrder` bound the runs only; the proofs
are for every value. `CommandSize = 3` with two clients is the smallest case in which the vector
is written whole and the command is not. `TimestampRange` is above all timestamps
drawn (`NoWrapAssumption`); in `new_order`, `payments` and `payment_mix` it is only just so,
because `TransactionLedger` chooses a commit timestamp from that range in every step. Runs stop when the bounds are used up, hence
`CHECK_DEADLOCK FALSE`; that transactions do not get stuck before is `TransactionsFinish`.
In `programs`, `RDMA_MAX_WR = 4` and `period = 2` stand for the send queue and the number of
unsignaled requests between two signaled ones (100, 500 and 1000 in the code, with a queue that
holds more), so a queue that is one too short fails; three rounds pass a signaled iteration twice.
Two handlers and two clients are the smallest case in which one thread takes the other's completion
and the last TERMINATE is taken by either.

**Reductions.** `StockSymmetry` and `ClientSymmetry` permute model values that no definition
tells apart (no `CHOOSE` over them), and are not used with liveness. The `VIEW`s `LiveState` drop
local buffers that will be overwritten before they are read again; every property of those runs
reads only what it keeps. In `programs` a thread's local work is part of the call before it, and the
`VIEW` `LivePrograms` drops the memory of a client that only takes leave.

**Fairness.** `FairSpec` is weak fairness of each client's `Step`: queue pairs are reliable
connections, so a posted operation completes, and a client never waits for another client, so
its thread always has a next step. Starting a transaction and refreshing the reader's copy are
not assumed to happen. `Programs` assumes no fairness. That a program comes to its end is covered by
`NobodyIsStuck`: in every reachable state with a thread that has not ended, some thread or
adapter other than the reader's loop can go on. Apart from that loop every step uses up a call, a
request or a completion, so under fair scheduling every program ends. Stated as a liveness property
the question is out of TLC's reach on this instance.

## 4. Theorems

`NewOrderTrx_proofs`, for any number of clients, stocks, read-only rows, versions and epochs:

- `TypeCorrectness`: `Spec => []TypeOK`
- `LocksAreOwned`: `Spec => []LockOwnership`
- `LocksValidateReads`: `Spec => []LockedVersionIsRead`
- `NoLostUpdate`: `Spec => OrdersNeverLost`
- `Invariance`: `Spec => []IInv`, from which they follow.

None of these is inductive. The heart is that a **timestamp word identifies its row**
(`IdentityInv`): a client that has the same word in its buffer as the head of a stock has the same
row, although word and row were read at different moments. This needs that commit timestamps of a
client only grow (`EpochInv`), that the vector never runs ahead of the announcements
(`VectorInv`), and that the word of a commit under way is nowhere but in the
stocks it installs (`FreshInv`) and, not being announced, passes no other client's check
(`CheckedInv`): so whoever holds a usable word read a finished install. `LockInv` and `OwnedInv`
say who holds which lock and what the head holds meanwhile; `InstallInv` describes the
half-written heads. `IInv` is the conjunction with `TypeInv`.

Assumptions: at least one client, version and slot; stocks and read-only rows are different
records; the bounds are naturals; and `NoWrapAssumption`, that no commit timestamp drawn reaches
the 32-bit limit. With wrap-around the theorems are false: an old word may come back.

`NewOrderRows_proofs`, the first three from `OrderInv` (`Spec => []OrderInv`), which is `RowsInv`, what
payments keep too, with the part about order ids and the index:

- `OrderIDsAreUnique`: `Spec => []UniqueOrderIDs`
- `AnnouncementsAreInstalled`: `Spec => []AnnouncedOrdersInstalled`
- `EntriesNameInstalledRows`: `Spec => []IndexNamesInstalledRows`
- `ListsNameTheRing`: `Spec => []PointerListNamesRing`

An id that was taken is below `nextOID` and differs from all registered and running ones
(`TakenInv`); a client's own ids grow, so a slot that is used again holds a later order
(`EntryInv`). A row belongs to its client's running install or its timestamp is in the totals
of all its stocks (`RowInv`), where it stays by `NoLostUpdate`'s lemma; the running install's
timestamp is above the oracle's entry (`VectorInv`), so what was announced is installed.

For the last, `ListInv` says more than the property: position `i` of the list belongs to one slot of
the ring, `RingSlot(o, i)`, counted back from the head's offset `o` (`Named`). Without the slots it
could not be shown that the version an install overwrites is the one whose pointer it has dropped.
A client writes back a list that it read before it had the lock; that the server still holds this
list (`ListIdentityInv`) is argued as for the row. `RingAt` follows an install through its two
writes, list first and version second, between which the list names a slot not yet filled.

`NewOrderSnapshot_proofs`, from `SnapshotInv`:

- `ReadsAtomic`: `Spec => []ReadsAreAtomic`
- `SnapshotsAreRead`: `Spec => []SnapshotIsRead`

A stock's totals hold an unannounced order only while that order's word is on top (`TopInv`), and
such a word passes no other client's check: what a client has locked holds announced orders
only (`UnseenInv`). When it has all its locks the heads are what it read, so an installed order was
read on all shared stocks, and a running one on none (`AtomicInv`). That commit timestamps of
different clients differ (`DrawnInv`, `DrawnDiffer`) tells the orders apart. `AnnouncedInv` says
that each head, once read, holds what the snapshot announced.

- `NewOrderIsAtomic`: `Spec => ImplementsStockLedger`, from `LedgerInv`

`LedgerInv` adds that a registered order is in all its stocks (`DoneInv`) and that carts are not empty.
`LocksAcquired` is a `Commit`: no order in flight is on a stock that another client has locked
(`FlightExcludes`), for it holds that lock itself, or its unannounced word is on top, unlocked; so
the heads hold all there is, and they are what the client read. `SubmitResult` is an `Announce`.
The write of a row (`UpdateStock`) adds an order that was counted already (`InstallIsSame`),
and no other step shows in the ledger (`KeptSteps`).

`NewOrderLog_proofs`: `LogPrecedesInstall`, `Spec => []LogBeforeInstall` assuming
`ClientCnt <= CommandSize`, that is, that what is written of a log entry covers the vector. (What the
finding `command_log` shows, that the command itself is cut off, is independent of this.)

`PaymentTrx_proofs`, for any number of clients that pay and order, any placement of the rows and any
interleaving of the pending requests:

- `PaymentTypeCorrectness`: `PaySpec => []PayTypeOK`
- `PaymentLocksAreOwned`: `PaySpec => []PaymentLockOwnership`
- `PayInvariance`: `PaySpec => []PayInv`, from which they follow
- `PaymentLogPrecedesInstall`: `PaySpec => []PaymentLogBeforeInstall`, assuming
  `ClientCnt <= CommandSize` as above

and, assuming `SharedQueuePair`, that the three rows and the history row are on one server:

- `PaymentsAreNeverLost`: `PaySpec => PaymentsNeverLost`
- `AnnouncedPaymentsAreInstalled`: `PaySpec => []AnnouncedPaymentsInstalled`
- `ReceivedVersionsConsistent`: `PaySpec => []ReceivedVersionsAreConsistent`

A payment does not wait for its installs, so a client may be anywhere when a row it locked is
unlocked. `PayInv` says what ties it to the row until then: the request that writes the new head is
still to be posted, or is in the client's queue once (`WillUnlock`, `QueueInv`), and the buffer it
will be gathered from holds an unlocked word (`UnlocksAt`), because the reads of the next
payment come behind the pending requests of the queue pair (`DrainedAt`). `PayLogInv` adds that every word in a
head or a buffer is covered by its client's log entry.

`BalanceInv` is for one queue pair. The awaited completion is then the last one (`PairInv`), so a
client that announces has nothing pending. `BufferInv` says what a row and its buffer hold at each
point, with a head of which only the word is written among them. The rest is New-Order's argument: a
usable word identifies its row (`PayIdentityInv`), because a payment that is not announced is in a
row only under its own word (`PayTopInv`), which nobody else may use; all others are
announced and on all three rows (`EverywhereInv`). `SharedQueuePair` holds for every deployment with
one memory server. It cannot be dropped: `payment_announce` is the counterexample.

While proving this it showed that `ReceivedVersionsAreConsistent` may not say that the payments
read are in the reader's own copy of the vector. The copy is made entry by entry, so with three clients it
may hold a payment and not an earlier one of another client that this payment read and built on; the check of the
head's word alone lets it pass. What holds, and is proved, is that all of them were announced.

`TransactionMix_proofs`, for any number of clients that pay and order:

- `OrdersBesidePayments`: `PaySpec => []` of New-Order's `LockOwnership`, `LockedVersionIsRead`,
  `ReadsAreAtomic`, `SnapshotIsRead`, `AnnouncedOrdersInstalled` and `PointerListNamesRing`
- `OrdersAreNeverLost`: `PaySpec => OrdersNeverLost`
- `OrdersAreLogged`: `PaySpec => []LogBeforeInstall`, assuming `ClientCnt <= CommandSize`

and, assuming `SharedQueuePair`:

- `TransactionsAreAtomic`: `PaySpec => ImplementsTransactionLedger`
- `FirstCommitterWins`: `PaySpec => []UnannouncedIsExclusive`

The first three need no queue pair in common. A payment's step leaves New-Order's rows and the
buffers of a running order alone, and of the vector, the commit timestamps and the epochs, which the
two share, it only lets an idle client's grow (`Spares`, `PaySpares`). That is enough to keep each part of
`LedgerInv` (`SparedLocks` .. `SparedLog`); a step of New-Order keeps `PayInv`, so both hold together
(`BothInv`). `UniqueOrderIDs` and `IndexNamesInstalledRows` are not in the list, because a payment writes
the district row back with the D_NEXT_O_ID it read: the finding `payment_order_ids`.

For the refinement the invariants of each kind are not enough. `CrossInv` says that a running
order is in no payment row and a running payment in no stock, so that a commit timestamp that is new
in its own rows is new in all (`MixInv` is the conjunction; `NotCounted`). `LocksAcquired` and `PayLocksAcquired` are a `Commit`, `SubmitResult` and `PaySubmitResult` an
`Announce`, all others stutter (`MixLedgerStep`). That a payment commits alone on its rows is
`AloneInFlight`: the model's payments have their three rows in common, and the lock of another one in
flight, or its unannounced word on top of the warehouse's row, would have refused it.
That its rows then hold what it received is `RestingRead`, from `PayIdentityInv`; that what it announces is installed needs
the shared queue pair (`SubmittedIsInstalled`). `FirstCommitterWins` is an invariant of `TransactionLedger`
(`ExclusiveInv`, its inductive form), carried over by the refinement.

`OrderDelivery_proofs`, for any number of clients and orders:

- `AtMostOnce`: `Spec => []DeliveredAtMostOnce`
- `TypeCorrectness`: `Spec => []TypeOK`
- `PopsFindAnOrder`: `Spec => []QueueIsNotEmptyAtPop`
- `OfferedOrdersAreLocated`: `Spec => []OfferedOrdersHaveAddresses`

A delivery installs only while it holds the lock of the NEW-ORDER row, which it took when it was
free. The client whose slot 0 it is may delete the row meanwhile, so it is not enough to know whose word
is in it: `NewOrderLockInv` says that the row is not free as long as somebody holds it and that no other client
holds it too, which a deleted row keeps (`DeletedRowIsNotFree`). Only a holder that did not install frees it, so once an order was
delivered its lock is never free again (`FreeOrdersUndelivered`), whatever the queue offers.
`DeliveryInv` adds who holds the ORDER row (`OrderLockInv`) and that a client past the lookup has an order.
A pop may take an order other than the one that was delivered (the finding `delivery_queue`), so no
element of the queue can be named to show that it is not empty; the proof counts. Each delivery
pops once, and no order is delivered twice, so the queue and the deliveries that have popped add up
to the orders that were pushed.

`AtomicCommit_proofs`, for any set of cohorts: `RoundsAreAtomic`, `ACSpec => []AtomicRounds`. With
`ImplementsAtomicCommit`, which TLC checks, the coordinators and cohorts have it too: no cohort
commits what another has not voted for, and no two are more than a round apart.

**Only model-checked:** `TransactionsFinish` (liveness is outside what the prover does); the
refinement of `AtomicCommit` and everything else in `Programs`. There a program is a sequence of calls that the
modules compute for any number of servers and clients, and an invariant would have to say what is
left of that sequence at each point: an induction over data, which the prover does not do. The state
of a transaction in the other modules is a phase and a stage, which is why they can be proved about.

## 5. Not modelled

- Stock-Level, Order-Status and the lookups they make (customer by name, last twenty orders): they
  change nothing that another transaction sees. Their hazards are listed without a property.
- Crashes: nothing recovers in this code. The log is write-only; what is checked is that it is
  written first. A process whose call fails ends; `NoFailure` shows that none does.
- The wrap-around of 32-bit timestamps: in the model, excluded by assumption.
- Opening the device and the attributes of a queue pair (`build_connection`, `modify_qp_to_*`): one
  step. Event-based polling has no caller.
- Loading, random generation, hash tables, statistics, clocks, hardware counters, money columns, text.
- TPC-W's two-sided transaction manager, which the makefile does not build. TPC-W's RSI is an
  earlier copy of the vision paper's programs, which are modelled.
- The ring of order slots composed with the index: a slot reused before its order is delivered.

## 6. What could come next

1. `StockLevelTrx` and `OrderStatusTrx`: the readers of older versions and of the index. Hazards:
   list position used as ring slot; the first stock's list used for every stock; what is fetched
   is not checked again; the scan of the last twenty orders meets unregistered ids.
2. The ring of order slots composed with `OrderDelivery`.
3. `TimestampBits`: the packing of a timestamp into 64 bits and its masks.
