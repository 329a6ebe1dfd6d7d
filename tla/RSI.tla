--------------------------------- MODULE RSI ---------------------------------
(***************************************************************************)
(* The snapshot-isolation protocol of the vision paper (SUBMISSIONS/       *)
(* vision_paper_VLDB_2016/visionpaper-RSI): clients buy one item of every  *)
(* server in a transaction that reads the items, draws a commit timestamp, *)
(* locks each item by a CAS that also checks its version, and writes.      *)
(*                                                                         *)
(* An item's stock is the set of commit timestamps whose decrement it      *)
(* holds.  Its version is two words of memory: the write timestamp at the  *)
(* front and the stock, more than a hundred bytes behind it.  A lock is    *)
(* <<status, version>>.                                                    *)
(***************************************************************************)
EXTENDS Session

Ts(x) == <<"ts", x>>
Stock(x) == <<"stock", x>>
LockWord(x) == <<"lock", x>>
Timestamp == <<"timestamp", 0>>

\* The client's registered regions, one per server, and its locals.
ItemTs(i) == <<"items_region.ts", i>>
ItemStock(i) == <<"items_region.stock", i>>
LockRegion(i) == <<"lock_items_region", i>>
ExpectedLock(i) == <<"expected_lock", i>>
CommitTs == <<"commit_ts_region", 0>>

commit_timestamp(p) == mem[p][CommitTs] + 1
ItemWords(x, i) == <<<<Ts(x), ItemTs(i)>>, <<Stock(x), ItemStock(i)>>>>

-----------------------------------------------------------------------------
fill_shopping_cart == <<[op |-> "fill_shopping_cart"]>>
\* The read timestamp is fetched and never used: the READ moves no word here.
read_timestamp == post_RDMA_READ_WRT("READ", 1, <<>>, TRUE)
get_item_info(i, x) == post_RDMA_READ_WRT("READ", i, ItemWords(x, i), TRUE)
acquire_commit_timestamp ==
  post_RDMA_FETCH_ADD(1, Timestamp, CommitTs, 1) \o poll_completion(1, JointCQ, "none")
acquire_item_locks(cart) == <<[op |-> "acquire_item_locks", cart |-> cart]>>
check_locks(cart) == <<[op |-> "check_locks", cart |-> cart]>>

revert_lock(i, x) == post_RDMA_READ_WRT("WRITE", i, <<<<LockWord(x), LockRegion(i)>>>>, TRUE)
decrement_item_stock(i, x) == post_RDMA_READ_WRT("WRITE", i, ItemWords(x, i), FALSE)
release_lock(i, x) == post_RDMA_READ_WRT("WRITE", i, <<<<LockWord(x), LockRegion(i)>>>>, TRUE)

\* Mutant: the commit timestamp is drawn before the items are read.
TryToLockTimestampFirst(cart) ==
  LET n == Len(cart) IN
    read_timestamp \o poll_completion(1, JointCQ, "none")
    \o acquire_commit_timestamp
    \o ForEach(n, LAMBDA i : get_item_info(i, cart[i])) \o poll_each(DOMAIN cart)
    \o acquire_item_locks(cart) \o poll_each(DOMAIN cart)
    \o check_locks(cart)

\* From the cart to the point where all locks have been tried.
TryToLock(cart) ==
  LET n == Len(cart) IN
    read_timestamp \o poll_completion(1, JointCQ, "none")
    \o ForEach(n, LAMBDA i : get_item_info(i, cart[i])) \o poll_each(DOMAIN cart)
    \o acquire_commit_timestamp
    \o acquire_item_locks(cart) \o poll_each(DOMAIN cart)
    \o check_locks(cart)

\* Mutant: the locks are released before the items are written.
CommitReleaseFirst(cart) ==
  LET n == Len(cart) IN
    ForEach(n, LAMBDA i : release_lock(i, cart[i]))
    \o ForEach(n, LAMBDA i : decrement_item_stock(i, cart[i])) \o poll_each(DOMAIN cart)

\* The regions are set for every server before the first request is posted:
\* each region belongs to one request only.
Commit(cart) ==
  LET n == Len(cart) IN
    ForEach(n, LAMBDA i : decrement_item_stock(i, cart[i]))
    \o ForEach(n, LAMBDA i : release_lock(i, cart[i])) \o poll_each(DOMAIN cart)

\* Mutant: the locks that were had are kept.
AbortKeepLocks(cart, locked) == <<>>

Abort(cart, locked) ==
  ForEach(Len(cart), LAMBDA i : IF i \in locked THEN revert_lock(i, cart[i]) ELSE <<>>)
    \o (IF locked = {} THEN <<>> ELSE poll_each(locked))

start_transaction == ForEach(program.rounds, LAMBDA t : fill_shopping_cart)

RSI_start_client ==
  ForEach(program.servers, LAMBDA i : ConnectQueuePair(Server(i), i, JointCQ))
    \o start_transaction
    \o ForEach(program.servers, FinishContext)

RSI_start_server ==
  ForEach(program.clients, AcceptQueuePair)
    \o ForEach(program.clients, LAMBDA i : SendKeys(i, JointCQ, 0))
    \o ForEach(program.clients, FinishContext)

-----------------------------------------------------------------------------
Items == 1 .. program.items

initialize_data_structures ==
  (Timestamp :> 0) @@ [a \in {Ts(x) : x \in Items} |-> 0] @@ [a \in {Stock(x) : x \in Items} |-> {}]
    @@ [a \in {LockWord(x) : x \in Items} |-> <<0, 0>>]

ClientRegions ==
  LET S == 1 .. program.servers IN
    (CommitTs :> 0) @@ [a \in {ItemTs(i) : i \in S} |-> 0]
      @@ [a \in {ItemStock(i) : i \in S} |-> {}]
      @@ [a \in {LockRegion(i) : i \in S} \cup {ExpectedLock(i) : i \in S} |-> <<0, 0>>]

InitRSI ==
  LET procs == {Server(i) : i \in 1 .. program.servers} \cup {Client(j) : j \in 1 .. program.clients} IN
    InitSession(
      [p \in procs |-> IF p[1] = "server" THEN RSI_start_server ELSE RSI_start_client],
      [p \in procs |-> IF p[1] = "server" THEN initialize_data_structures ELSE ClientRegions])

-----------------------------------------------------------------------------
FillShoppingCart(p) ==
  /\ At(p, "fill_shopping_cart")
  /\ \E cart \in [1 .. program.servers -> Items] : Goto(p, TryToLock(cart) \o Tail(todo[p]))
  /\ UNCHANGED <<program, conn, backlog, sock, mem>>

\* The lock is expected to be free and to carry the version that was read.
Expected(p, i) == <<0, mem[p][ItemTs(i)]>>

acquire_item_lock(p, i, x) ==
  post_RDMA_CMP_SWAP(i, LockWord(x), LockRegion(i), Expected(p, i), <<1, commit_timestamp(p)>>)

AcquireItemLocks(p) ==
  /\ At(p, "acquire_item_locks")
  /\ LET cart == Head(todo[p]).cart IN
       /\ mem' = [mem EXCEPT ![p] = [a \in DOMAIN @ |-> CASE a[1] = "expected_lock" -> Expected(p, a[2])
                                                          [] a[1] = "lock_items_region" -> <<0, 0>>
                                                          [] OTHER -> @[a]]]
       /\ Goto(p, ForEach(Len(cart), LAMBDA i : acquire_item_lock(p, i, cart[i])) \o Tail(todo[p]))
  /\ UNCHANGED <<program, conn, backlog, sock>>

\* What the regions hold when the locks are reverted, or the items written
\* and the locks released.
Reverted(p, locked) ==
  [a \in DOMAIN mem[p] |-> IF a[1] = "lock_items_region" /\ a[2] \in locked
                           THEN mem[p][ExpectedLock(a[2])] ELSE mem[p][a]]

\* Mutant: the lock is released with the version it had.
DecrementedOldVersion(p) ==
  [a \in DOMAIN mem[p] |->
     CASE a[1] = "items_region.ts"    -> commit_timestamp(p)
       [] a[1] = "items_region.stock" -> mem[p][a] \cup {commit_timestamp(p)}
       [] a[1] = "lock_items_region"  -> mem[p][ExpectedLock(a[2])]
       [] OTHER -> mem[p][a]]

Decremented(p) ==
  [a \in DOMAIN mem[p] |->
     CASE a[1] = "items_region.ts"    -> commit_timestamp(p)
       [] a[1] = "items_region.stock" -> mem[p][a] \cup {commit_timestamp(p)}
       [] a[1] = "lock_items_region"  -> <<0, commit_timestamp(p)>>
       [] OTHER -> mem[p][a]]

CheckLocks(p) ==
  /\ At(p, "check_locks")
  /\ LET cart == Head(todo[p]).cart
         locked == {i \in DOMAIN cart : mem[p][LockRegion(i)] = mem[p][ExpectedLock(i)]}
         abort_flag == locked # DOMAIN cart IN
       /\ Goto(p, (IF abort_flag THEN Abort(cart, locked) ELSE Commit(cart)) \o Tail(todo[p]))
       /\ mem' = [mem EXCEPT ![p] = IF abort_flag THEN Reverted(p, locked) ELSE Decremented(p)]
  /\ UNCHANGED <<program, conn, backlog, sock>>

RSIStep(p) == FillShoppingCart(p) \/ AcquireItemLocks(p) \/ CheckLocks(p)

-----------------------------------------------------------------------------
(* What the locks and the versions are for.                                *)

IsRSI == program.name = "RSI"
RSIServers == IF IsRSI THEN {Server(i) : i \in 1 .. program.servers} ELSE {}
RSIClients == IF IsRSI THEN {Client(j) : j \in 1 .. program.clients} ELSE {}

\* release_lock follows decrement_item_stock on the same queue pair without
\* waiting for it: whoever finds an item unlocked still finds the version
\* that the lock names.
FreeLockNamesVersion ==
  \A s \in RSIServers : \A x \in Items :
    mem[s][LockWord(x)][1] = 0 => mem[s][LockWord(x)][2] = mem[s][Ts(x)]

\* p has a CAS, a WRITE or the decision about item x of s still to make.
WillUnlock(p, s, x) ==
  LET Unlocks(wr) == \E k \in DOMAIN wr.words : wr.words[k][1] = LockWord(x) IN
    \/ \E k \in DOMAIN todo[p] :
         LET call == todo[p][k] IN
           \/ call.op = "check_locks" /\ \E i \in DOMAIN call.cart : conn[p][i] = s /\ call.cart[i] = x
           \/ call.op = "post_SEND" /\ conn[p][call.ctx] = s /\ Unlocks(call.wr)
    \/ \E k \in DOMAIN qp[<<p, s>>].sq : Unlocks(qp[<<p, s>>].sq[k])

\* A held lock names the commit timestamp of a client that is going to
\* release or revert it, also when the transaction lost another of its locks.
HeldLocksHaveOwners ==
  \A s \in RSIServers : \A x \in Items :
    mem[s][LockWord(x)][1] = 1 =>
      \E p \in RSIClients : commit_timestamp(p) = mem[s][LockWord(x)][2] /\ WillUnlock(p, s, x)

\* An item's write timestamp never goes back: the commit timestamp is drawn
\* after the items were read, and the CAS fails when a later one got in.
VersionsIncrease ==
  [][\A s \in RSIServers : \A x \in Items : mem[s][Ts(x)] <= mem'[s][Ts(x)]]_mem

\* A client that holds all its locks, and read an item whose two words belong
\* together, read the stock that the server still has: the CAS on the version
\* makes up for reading without a lock.
UntornReadsLoseNothing ==
  \A p \in RSIClients : At(p, "check_locks") =>
    LET cart == Head(todo[p]).cart IN
      \A i \in DOMAIN cart :
        LET read == mem[p][ItemStock(i)]
            untorn == mem[p][ItemTs(i)] = (IF read = {} THEN 0 ELSE Max(read)) IN
          untorn /\ mem[p][LockRegion(i)] = mem[p][ExpectedLock(i)]
            => read = mem[Server(i)][Stock(cart[i])]
=============================================================================
