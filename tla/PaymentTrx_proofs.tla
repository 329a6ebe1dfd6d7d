-------------------------- MODULE PaymentTrx_proofs --------------------------
(***************************************************************************)
(* Proofs about Payment beside New-Order, for any number of clients and    *)
(* transactions.                                                           *)
(*                                                                         *)
(* A payment does not wait for its installs, so a client may have gone on  *)
(* when a row it locked is unlocked.  PayInv says who owns a row then: a   *)
(* row in payWon[c] is locked by c, and the word that unlocks it is still  *)
(* to be posted or is in c's queue (WillUnlock), with an unlocked word in  *)
(* the buffer the request is gathered from.  Types, the log and the locks  *)
(* need no more than that, wherever the rows are.                          *)
(*                                                                         *)
(* The balances need SharedQueuePair, one queue pair for the three rows    *)
(* and the history row: then the completion that is awaited is the last    *)
(* one (PairInv), and a client that starts anew has nothing pending.       *)
(* BalanceInv describes the rows and buffers while requests are pending    *)
(* (BufferInv, a half-written head included), and argues as New-Order      *)
(* does: a usable word identifies its row (PayIdentityInv), since a        *)
(* payment that is not announced is in a row only under its own word       *)
(* (PayTopInv), which passes nobody else's check.  All other payments are  *)
(* announced and on all three rows (EverywhereInv).                        *)
(***************************************************************************)
EXTENDS PaymentTrx, NewOrderLog_proofs, SequenceTheorems

\* The phases in which a payment has drawn a commit timestamp it did not
\* announce.
Paying(c) == payPc[c] \in {"lock", "revert", "append", "update", "submit"}

PayEpochInv ==
    \A c \in Clients : payPc[c] \in {"snapshot", "read"} => nextEpoch[c] <= MaxEpoch[c]

\* The oracle's vector is behind every running payment.
PayVectorInv ==
    \A c \in Clients :
        /\ Paying(c) => lastCommittedVector[c] < cts[c]
        /\ payPc[c] \in {"append", "update", "submit"} => localVector[c][c] = cts[c]

\* The payment's request for the new head of r is still to be posted.
ToPost(c, r) == payPc[c] = "update" /\ payStage[c] <= 2 * (Place(r) - 1) + 1

\* The client will still unlock r.
WillUnlock(c, r) ==
    payPc[c] \in {"lock", "revert", "append"} \/ ToPost(c, r) \/ UnlockPending(c, r)

\* Requests are on the queue pair of their row's server, a row's head is in it
\* once, and only the oldest request may be half executed.
WellQueued(pending, s) ==
    /\ \A i \in 1 .. Len(pending) :
          /\ pending[i].op # "history" => ServerOf[pending[i].row] = s
          /\ i # 1 => pending[i].op # "headRow"
    /\ \A i, j \in 1 .. Len(pending) :
          (pending[i].op = "head" /\ pending[j].op = "head" /\ pending[i].row = pending[j].row) => i = j

QueueInv == \A c \in Clients, s \in Servers : WellQueued(queue[c][s], s)

\* What a payment reads, locks or appends waited for its earlier requests.
DrainedAt(c, r) ==
    (\/ payPc[c] \in {"lock", "revert", "append"}
     \/ payPc[c] = "read" /\ payStage[c] > 3 * (Place(r) - 1)) => Drained(c, r)

\* A payment goes on with usable heads only.
CheckedPayment(c, r) == payPc[c] \in {"lock", "revert", "append"} => PayAccessible(c, r)

\* The word a client will unlock r with is unlocked.
UnlocksAt(c, r) ==
    (payPc[c] \in {"lock", "revert", "append", "update"} \/ UnlockPending(c, r)) =>
        ~payHeads[c][r].ts.locked

\* A row a client has won names it, and waits for the client to unlock it.
WonAt(c, r) ==
    r \in payWon[c] =>
        /\ headVersions[r].ts.locked
        /\ headVersions[r].ts.clientID = c
        /\ payPc[c] = "lock" => r \in tried[c]
        /\ WillUnlock(c, r)

\* And what a client unlocks it has won.
OwnsAt(c, r) ==
    /\ (UnlockPending(c, r) \/ ToPost(c, r) \/ payPc[c] = "append") => r \in payWon[c]
    /\ ToPost(c, r) => ~UnlockPending(c, r)

OwnerAt(c, r) ==
    /\ DrainedAt(c, r)
    /\ CheckedPayment(c, r)
    /\ UnlocksAt(c, r)
    /\ WonAt(c, r)
    /\ OwnsAt(c, r)

OwnerInv == \A c \in Clients, r \in Refs : OwnerAt(c, r)

\* A locked row has an owner.
PayOwnedInv == \A r \in Refs : headVersions[r].ts.locked => \E c \in Clients : r \in payWon[c]

PayInv ==
    /\ PayTypeOK
    /\ FallbackInRange
    /\ EpochInv
    /\ VectorInv
    /\ PayEpochInv
    /\ PayVectorInv
    /\ QueueInv
    /\ OwnerInv
    /\ PayOwnedInv

\* Payment logs what it installs.
PayLogInv ==
    /\ \A c \in Clients :
          /\ LoggedTimestamp(c) <= cts[c]
          /\ payPc[c] \in {"append", "update"} => LoggedTimestamp(c) = cts[c]
    /\ \A r \in Refs :
          /\ Logged(headVersions[r].ts)
          /\ \A d \in Clients : Logged(payHeads[d][r].ts)

\* The rows of a payment, and its history row, are on one server.
SharedQueuePair == \A r \in Refs, h \in HistoryServers : ServerOf[r] = h

\* The queue pair to that server.
Pair(c) == queue[c][ServerOf[Warehouse]]

\* Only the word of the new head of r was written.
Torn(c, r) == Awaits(Pair(c), "headRow", r)

\* The buffer of r holds the new word, and the new row.
NewWord(c, r) == payPc[c] = "submit" \/ (payPc[c] = "update" /\ payStage[c] >= 2 * (Place(r) - 1) + 1)
NewRow(c, r)  == payPc[c] = "submit" \/ (payPc[c] = "update" /\ payStage[c] >= 2 * Place(r))

\* The completion of the history row is the last.
HistoryLast(pending) == pending = <<>> \/ pending[Len(pending)].op = "history"

PairAt(c) ==
    /\ historyServer[c] = ServerOf[Warehouse]
    /\ payPc[c] \in {"idle", "snapshot", "read", "lock", "revert", "append"} => Pair(c) = <<>>
    /\ payPc[c] = "submit" => HistoryLast(Pair(c))

PairInv == \A c \in Clients : PairAt(c)

\* A word of c's that it did not announce yet.
OwnWord(c, ts) == ~ts.locked /\ ts.clientID = c /\ ts.timestamp = cts[c]

BufferAt(c, r) ==
    /\ NewWord(c, r) => OwnWord(c, payHeads[c][r].ts)
    /\ UnlockPending(c, r) \/ Torn(c, r) => NewRow(c, r)
    /\ r \in payWon[c] =>
          payHeads[c][r].ytd =
              headVersions[r].ytd \cup (IF NewRow(c, r) THEN {cts[c]} ELSE {})
    /\ Torn(c, r) =>
          /\ r \notin payWon[c]
          /\ headVersions[r].ts = payHeads[c][r].ts
          /\ payHeads[c][r].ytd = headVersions[r].ytd \cup {cts[c]}
    /\ (payPc[c] \in {"update", "submit"} /\ r \notin payWon[c] /\ ~Torn(c, r)) =>
          cts[c] \in headVersions[r].ytd

BufferInv == \A c \in Clients, r \in Refs : BufferAt(c, r)

\* The client has read the whole head of r and not yet tried all its locks.
PayReadDone(c, r) ==
    \/ payPc[c] = "read" /\ payStage[c] >= 3 * (Place(r) - 1) + 2
    \/ payPc[c] = "lock"

\* The word identifies the row.
PayIdentityAt(c, r) ==
    (PayReadDone(c, r) /\ PayAccessible(c, r)) =>
        /\ headVersions[r].ts = payHeads[c][r].ts => headVersions[r].ytd = payHeads[c][r].ytd
        /\ \A d \in Clients :
              (/\ r \in payWon[d]
               /\ payPc[d] \in {"lock", "revert"}
               /\ payHeads[d][r].ts = payHeads[c][r].ts) =>
                  payHeads[d][r].ytd = payHeads[c][r].ytd

PayIdentityInv == \A c \in Clients, r \in Refs : PayIdentityAt(c, r)

\* Payments have drawn their commit timestamps.
PayDrawnInv ==
    /\ \A r \in Refs : \A p \in headVersions[r].ytd : WasDrawn(p)
    /\ \A c \in Clients, r \in Refs : \A p \in payHeads[c][r].ytd : WasDrawn(p)
    /\ \A c \in Clients : Paying(c) => \E k \in Nat : k < nextEpoch[c] /\ cts[c] = Drawn(k, c)

\* A payment that is not announced is in a row only under its own word.
PayTopInv ==
    \A d \in Clients, r \in Refs :
        (Paying(d) /\ cts[d] \in headVersions[r].ytd) =>
            /\ payPc[d] \in {"update", "submit"}
            /\ r \notin payWon[d]
            /\ OwnWord(d, headVersions[r].ts)

\* All others are announced, and on all rows.
EverywhereInv ==
    \A r \in Refs : \A p \in headVersions[r].ytd :
        \/ \E d \in Clients : Paying(d) /\ p = cts[d]
        \/ /\ p <= lastCommittedVector[p % ClientCnt]
           /\ \A q \in Refs : p \in headVersions[q].ytd

BalanceInv ==
    /\ PayInv
    /\ PairInv
    /\ BufferInv
    /\ PayIdentityInv
    /\ PayDrawnInv
    /\ PayTopInv
    /\ EverywhereInv

-----------------------------------------------------------------------------
(***************************************************************************)
(* Rows and queues.                                                        *)
(***************************************************************************)

\* The rows have their places in the order Payment touches them.
LEMMA Places ==
    /\ Place(Warehouse) = 1 /\ Place(District) = 2 /\ Place(Customer) = 3
    /\ \A r \in Refs : Place(r) \in 1 .. 3
    /\ \A q, r \in Refs : Place(q) = Place(r) => q = r
<1>1. Place(Warehouse) = 1
    <2>1. \A i \in 1 .. 3 : PayOrder[i] = Warehouse <=> i = 1
        BY PaymentRecordsAssumption DEF PayOrder
    <2> QED
        BY <2>1 DEF Place
<1>2. Place(District) = 2
    <2>1. \A i \in 1 .. 3 : PayOrder[i] = District <=> i = 2
        BY PaymentRecordsAssumption DEF PayOrder
    <2> QED
        BY <2>1 DEF Place
<1>3. Place(Customer) = 3
    <2>1. \A i \in 1 .. 3 : PayOrder[i] = Customer <=> i = 3
        BY PaymentRecordsAssumption DEF PayOrder
    <2> QED
        BY <2>1 DEF Place
<1> QED
    BY <1>1, <1>2, <1>3, PaymentRecordsAssumption

\* Payment's rows are records of New-Order, and have a server.
LEMMA PayRows ==
    /\ Warehouse \in Refs /\ District \in Refs /\ Customer \in Refs
    /\ \A r \in Refs : r \in Records /\ r \notin Stocks /\ ServerOf[r] \in Servers
BY PaymentRecordsAssumption, ServerAssumption, RecordsAssumption, RecordsParts

\* Requests as they are posted.
LEMMA RequestTyped ==
    ASSUME NEW op \in {"pointers", "older", "head", "headRow", "history"}, NEW r \in Refs,
           NEW o \in VersionOffsets
    PROVE  /\ Request(op, r, o) \in RequestType
           /\ Request(op, r, o).op = op /\ Request(op, r, o).row = r
BY DEF Request, RequestType

\* What an empty queue, one request, and two queues in a row await.
LEMMA AwaitsParts ==
    ASSUME NEW op, NEW r
    PROVE  /\ ~Awaits(<<>>, op, r)
           /\ \A x \in RequestType : Awaits(<<x>>, op, r) <=> (x.op = op /\ x.row = r)
           /\ \A p, q \in Seq(RequestType) :
                 Awaits(p \o q, op, r) <=> (Awaits(p, op, r) \/ Awaits(q, op, r))
<1>1. ~Awaits(<<>>, op, r)
    BY DEF Awaits
<1>2. \A x \in RequestType : Awaits(<<x>>, op, r) <=> (x.op = op /\ x.row = r)
    BY DEF Awaits
<1>3. ASSUME NEW p \in Seq(RequestType), NEW q \in Seq(RequestType)
      PROVE  Awaits(p \o q, op, r) <=> (Awaits(p, op, r) \/ Awaits(q, op, r))
    <2>0. /\ Len(p) \in Nat /\ Len(q) \in Nat /\ Len(p \o q) = Len(p) + Len(q)
          /\ \A i \in 1 .. Len(p) : (p \o q)[i] = p[i]
          /\ \A i \in 1 .. Len(q) : (p \o q)[Len(p) + i] = q[i]
        OBVIOUS
    <2>1. ASSUME NEW i \in 1 .. Len(p \o q), (p \o q)[i].op = op, (p \o q)[i].row = r
          PROVE  Awaits(p, op, r) \/ Awaits(q, op, r)
        <3>1. CASE i <= Len(p)
            BY <2>0, <2>1, <3>1 DEF Awaits
        <3>2. CASE i > Len(p)
            <4>1. i - Len(p) \in 1 .. Len(q) /\ (p \o q)[i] = q[i - Len(p)]
                BY <2>0, <3>2
            <4> QED
                BY <2>1, <4>1 DEF Awaits
        <3> QED
            BY <2>0, <3>1, <3>2
    <2>2. ASSUME NEW i \in 1 .. Len(p), p[i].op = op, p[i].row = r PROVE Awaits(p \o q, op, r)
        BY <2>0, <2>2 DEF Awaits
    <2>3. ASSUME NEW i \in 1 .. Len(q), q[i].op = op, q[i].row = r PROVE Awaits(p \o q, op, r)
        <3>1. Len(p) + i \in 1 .. Len(p \o q) /\ (p \o q)[Len(p) + i] = q[i]
            BY <2>0
        <3> QED
            BY <2>3, <3>1 DEF Awaits
    <2> QED
        BY <2>1, <2>2, <2>3 DEF Awaits
<1> QED
    BY <1>1, <1>2, <1>3

LEMMA AwaitsPost ==
    ASSUME NEW p \in Seq(RequestType), NEW x \in RequestType, NEW op, NEW r
    PROVE  Awaits(p \o <<x>>, op, r) <=> (Awaits(p, op, r) \/ (x.op = op /\ x.row = r))
<1>1. <<x>> \in Seq(RequestType)
    OBVIOUS
<1>2. Awaits(p \o <<x>>, op, r) <=> (Awaits(p, op, r) \/ Awaits(<<x>>, op, r))
    BY <1>1, AwaitsParts
<1> QED
    BY <1>2, AwaitsParts

\* A queue that is not empty is its oldest request and the others.
LEMMA OldestFirst ==
    ASSUME NEW p \in Seq(RequestType), p # <<>>
    PROVE  /\ Head(p) \in RequestType /\ Tail(p) \in Seq(RequestType)
           /\ Len(p) \in Nat /\ Len(p) >= 1 /\ Len(Tail(p)) = Len(p) - 1
           /\ Head(p) = p[1]
           /\ \A i \in 1 .. Len(p) - 1 : Tail(p)[i] = p[i + 1]
OBVIOUS

\* Executing the oldest request leaves those after it.
LEMMA AwaitsTail ==
    ASSUME NEW p \in Seq(RequestType), p # <<>>, NEW op, NEW r
    PROVE  Awaits(p, op, r) <=> ((Head(p).op = op /\ Head(p).row = r) \/ Awaits(Tail(p), op, r))
<1>1. ASSUME NEW i \in 1 .. Len(p), p[i].op = op, p[i].row = r, i # 1
      PROVE  Awaits(Tail(p), op, r)
    <2>1. i - 1 \in 1 .. Len(Tail(p)) /\ Tail(p)[i - 1] = p[i]
        BY <1>1, OldestFirst
    <2> QED
        BY <1>1, <2>1 DEF Awaits
<1>2. ASSUME NEW i \in 1 .. Len(Tail(p)), Tail(p)[i].op = op, Tail(p)[i].row = r
      PROVE  Awaits(p, op, r)
    <2>1. i + 1 \in 1 .. Len(p) /\ Tail(p)[i] = p[i + 1]
        BY OldestFirst
    <2> QED
        BY <1>2, <2>1 DEF Awaits
<1>3. (Head(p).op = op /\ Head(p).row = r) => Awaits(p, op, r)
    <2>1. 1 \in 1 .. Len(p) /\ p[1] = Head(p)
        BY OldestFirst
    <2> QED
        BY <2>1 DEF Awaits
<1> QED
    BY <1>1, <1>2, <1>3, OldestFirst DEF Awaits

\* Executing the oldest request whole, half, or posting a new one keeps queues
\* in order.
LEMMA WellTail ==
    ASSUME NEW p \in Seq(RequestType), NEW s, p # <<>>, WellQueued(p, s)
    PROVE  /\ WellQueued(Tail(p), s)
           /\ \A r : ~Awaits(Tail(p), "headRow", r)
           /\ Head(p).op = "head" => ~Awaits(Tail(p), "head", Head(p).row)
<1>1. /\ Len(p) \in Nat /\ Len(p) >= 1 /\ Len(Tail(p)) = Len(p) - 1 /\ Head(p) = p[1]
      /\ \A i \in 1 .. Len(Tail(p)) : i + 1 \in 1 .. Len(p) /\ i + 1 # 1 /\ Tail(p)[i] = p[i + 1]
    BY OldestFirst
<1>2. WellQueued(Tail(p), s)
    BY <1>1 DEF WellQueued
<1>3. \A r : ~Awaits(Tail(p), "headRow", r)
    BY <1>1 DEF WellQueued, Awaits
<1>4. Head(p).op = "head" => ~Awaits(Tail(p), "head", Head(p).row)
    <2> SUFFICES ASSUME p[1].op = "head", NEW i \in 1 .. Len(Tail(p)), Tail(p)[i].op = "head",
                        Tail(p)[i].row = p[1].row
                 PROVE  FALSE
        BY <1>1 DEF Awaits
    <2>1. i + 1 \in 1 .. Len(p) /\ 1 \in 1 .. Len(p) /\ p[i + 1].op = "head" /\ p[i + 1].row = p[1].row
        BY <1>1
    <2>2. i + 1 = 1
        BY <2>1 DEF WellQueued
    <2> QED
        BY <1>1, <2>2
<1> QED
    BY <1>2, <1>3, <1>4

\* The oldest request once its first word was written.
HalfDone(p) == <<[Head(p) EXCEPT !.op = "headRow"]>> \o Tail(p)

LEMMA HalfDoneParts ==
    ASSUME NEW p \in Seq(RequestType), p # <<>>
    PROVE  /\ HalfDone(p) \in Seq(RequestType)
           /\ Len(HalfDone(p)) = Len(p)
           /\ HalfDone(p)[1] = [Head(p) EXCEPT !.op = "headRow"]
           /\ \A i \in 2 .. Len(p) : HalfDone(p)[i] = p[i]
           /\ \A op, r : Awaits(HalfDone(p), op, r) <=>
                 ((op = "headRow" /\ Head(p).row = r) \/ Awaits(Tail(p), op, r))
<1> DEFINE x == [Head(p) EXCEPT !.op = "headRow"]
<1>0. Head(p) \in RequestType /\ Tail(p) \in Seq(RequestType)
    BY OldestFirst
<1>1. x \in RequestType /\ x.op = "headRow" /\ x.row = Head(p).row
    BY <1>0 DEF RequestType
<1>2. HalfDone(p) = <<x>> \o Tail(p)
    BY DEF HalfDone
<1> HIDE DEF x
<1>3. <<x>> \in Seq(RequestType) /\ Len(<<x>>) = 1 /\ <<x>>[1] = x
    BY <1>1
<1>4. /\ Len(p) \in Nat /\ Len(p) >= 1 /\ Len(Tail(p)) = Len(p) - 1
      /\ \A i \in 1 .. Len(p) - 1 : Tail(p)[i] = p[i + 1]
    BY OldestFirst
<1>5. /\ HalfDone(p) \in Seq(RequestType) /\ Len(HalfDone(p)) = 1 + Len(Tail(p))
      /\ HalfDone(p)[1] = x
      /\ \A i \in 1 .. Len(Tail(p)) : HalfDone(p)[1 + i] = Tail(p)[i]
    BY <1>0, <1>1, <1>2, <1>3
<1>6. ASSUME NEW i \in 2 .. Len(p) PROVE HalfDone(p)[i] = p[i]
    <2>1. i - 1 \in 1 .. Len(p) - 1 /\ 1 + (i - 1) = i /\ (i - 1) + 1 = i
        BY <1>4
    <2> QED
        BY <1>4, <1>5, <2>1
<1>7. ASSUME NEW op, NEW r
      PROVE  Awaits(HalfDone(p), op, r) <=> ((op = "headRow" /\ Head(p).row = r) \/ Awaits(Tail(p), op, r))
    <2>1. Awaits(<<x>> \o Tail(p), op, r) <=> (Awaits(<<x>>, op, r) \/ Awaits(Tail(p), op, r))
        BY <1>0, <1>3, AwaitsParts
    <2>2. Awaits(<<x>>, op, r) <=> (x.op = op /\ x.row = r)
        BY <1>1, AwaitsParts
    <2> QED
        BY <1>1, <1>2, <2>1, <2>2
<1> QED
    BY <1>4, <1>5, <1>6, <1>7 DEF x

LEMMA WellHalfDone ==
    ASSUME NEW p \in Seq(RequestType), NEW s, p # <<>>, WellQueued(p, s), Head(p).op = "head"
    PROVE  WellQueued(HalfDone(p), s)
<1>1. /\ Len(HalfDone(p)) = Len(p) /\ Len(p) \in Nat /\ Len(p) >= 1
      /\ HalfDone(p)[1].op = "headRow" /\ HalfDone(p)[1].row = p[1].row
      /\ \A i \in 1 .. Len(p) : i # 1 => HalfDone(p)[i] = p[i]
    <2>1. Head(p) \in RequestType /\ Head(p) = p[1] /\ Len(p) \in Nat /\ Len(p) >= 1
        BY OldestFirst
    <2>2. [Head(p) EXCEPT !.op = "headRow"].op = "headRow" /\ [Head(p) EXCEPT !.op = "headRow"].row = Head(p).row
        BY <2>1 DEF RequestType
    <2>3. /\ Len(HalfDone(p)) = Len(p) /\ HalfDone(p)[1] = [Head(p) EXCEPT !.op = "headRow"]
          /\ \A i \in 2 .. Len(p) : HalfDone(p)[i] = p[i]
        BY HalfDoneParts
    <2> QED
        BY <2>1, <2>2, <2>3
<1>2. p[1].op = "head"
    BY OldestFirst
<1> QED
    BY <1>1, <1>2 DEF WellQueued

LEMMA WellPost ==
    ASSUME NEW p \in Seq(RequestType), NEW s, NEW x \in RequestType, WellQueued(p, s),
           x.op # "headRow", x.op # "history" => ServerOf[x.row] = s,
           x.op = "head" => ~Awaits(p, "head", x.row)
    PROVE  WellQueued(p \o <<x>>, s)
<1>1. /\ Len(p) \in Nat /\ Len(p \o <<x>>) = Len(p) + 1
      /\ \A i \in 1 .. Len(p) : (p \o <<x>>)[i] = p[i]
      /\ (p \o <<x>>)[Len(p) + 1] = x
    OBVIOUS
<1>2. \A i \in 1 .. Len(p \o <<x>>) : i \in 1 .. Len(p) \/ i = Len(p) + 1
    BY <1>1
<1> DEFINE px == p \o <<x>>
<1> HIDE DEF px
<1>3. \A i \in 1 .. Len(px) :
         /\ px[i].op # "history" => ServerOf[px[i].row] = s
         /\ i # 1 => px[i].op # "headRow"
    BY <1>1, <1>2 DEF px, WellQueued
<1>4. ASSUME NEW i \in 1 .. Len(px), NEW j \in 1 .. Len(px), px[i].op = "head", px[j].op = "head",
             px[i].row = px[j].row
      PROVE  i = j
    <2>1. CASE i \in 1 .. Len(p) /\ j \in 1 .. Len(p)
        BY <1>1, <1>4, <2>1 DEF px, WellQueued
    <2>2. CASE i \in 1 .. Len(p) /\ j = Len(p) + 1
        BY <1>1, <1>4, <2>2 DEF px, Awaits
    <2>3. CASE i = Len(p) + 1 /\ j \in 1 .. Len(p)
        BY <1>1, <1>4, <2>3 DEF px, Awaits
    <2> QED
        BY <1>2, <2>1, <2>2, <2>3 DEF px
<1> QED
    BY <1>3, <1>4 DEF WellQueued, px

\* The requests for the old version of a row are two, and unlock nothing.
LEMMA OldVersionPosted ==
    ASSUME NEW p \in Seq(RequestType), NEW c, NEW r \in Refs, OlderSlot(c, r) \in VersionOffsets
    PROVE  /\ OldVersion(c, r) \in Seq(RequestType)
           /\ p \o OldVersion(c, r) \in Seq(RequestType)
           /\ \A q \in Refs : \A op \in {"head", "headRow"} :
                 Awaits(p \o OldVersion(c, r), op, q) <=> Awaits(p, op, q)
           /\ WellQueued(p, ServerOf[r]) => WellQueued(p \o OldVersion(c, r), ServerOf[r])
<1> DEFINE x == Request("pointers", r, 0)
           y == Request("older", r, OlderSlot(c, r))
<1>1. /\ x \in RequestType /\ x.op = "pointers" /\ x.row = r
      /\ y \in RequestType /\ y.op = "older" /\ y.row = r
    BY RequestTyped, ZeroOffset
<1>2. OldVersion(c, r) = <<x, y>>
    BY DEF OldVersion
<1> HIDE DEF x, y
<1>3. /\ <<x>> \in Seq(RequestType) /\ <<y>> \in Seq(RequestType) /\ <<x, y>> \in Seq(RequestType)
      /\ p \o <<x, y>> = (p \o <<x>>) \o <<y>>
      /\ p \o <<x>> \in Seq(RequestType) /\ (p \o <<x>>) \o <<y>> \in Seq(RequestType)
    <2>1. <<x>> \in Seq(RequestType) /\ <<y>> \in Seq(RequestType) /\ <<x, y>> \in Seq(RequestType)
        BY <1>1
    <2>2. <<x, y>> = <<x>> \o <<y>>
        <3>1. /\ <<x>> \o <<y>> \in Seq(RequestType)
              /\ Len(<<x>> \o <<y>>) = 2 /\ (<<x>> \o <<y>>)[1] = x /\ (<<x>> \o <<y>>)[2] = y
            BY <2>1
        <3> DEFINE xy == <<x, y>>
                   cat == <<x>> \o <<y>>
        <3>2. Len(xy) = 2 /\ xy[1] = x /\ xy[2] = y
            OBVIOUS
        <3>3. xy \in Seq(RequestType) /\ cat \in Seq(RequestType) /\ Len(cat) = 2 /\ cat[1] = x /\ cat[2] = y
            BY <2>1, <3>1
        <3> HIDE DEF xy, cat
        <3>4. Len(xy) = Len(cat) /\ \A i \in 1 .. Len(xy) : xy[i] = cat[i]
            BY <3>2, <3>3
        <3>5. xy = cat
            BY <3>3, <3>4, SeqEqual
        <3> QED
            BY <3>5 DEF xy, cat
    <2>3. p \o (<<x>> \o <<y>>) = (p \o <<x>>) \o <<y>>
        BY <2>1, ConcatAssociative
    <2>4. p \o <<x>> \in Seq(RequestType)
        BY <2>1, ConcatProperties
    <2>5. (p \o <<x>>) \o <<y>> \in Seq(RequestType)
        BY <2>1, <2>4, ConcatProperties
    <2> QED
        BY <2>1, <2>2, <2>3, <2>4, <2>5
<1>4. \A q, op : Awaits((p \o <<x>>) \o <<y>>, op, q) <=>
                    (Awaits(p, op, q) \/ Awaits(<<x>>, op, q) \/ Awaits(<<y>>, op, q))
    BY <1>3, AwaitsParts
<1>5. \A q, op : (Awaits(<<x>>, op, q) => op = "pointers") /\ (Awaits(<<y>>, op, q) => op = "older")
    BY <1>1, AwaitsParts
<1>6. ASSUME WellQueued(p, ServerOf[r]) PROVE WellQueued((p \o <<x>>) \o <<y>>, ServerOf[r])
    <2>1. WellQueued(p \o <<x>>, ServerOf[r])
        BY <1>1, <1>6, WellPost
    <2> QED
        BY <1>1, <1>3, <2>1, WellPost
<1> QED
    BY <1>2, <1>3, <1>4, <1>5, <1>6

\* Posting on one queue pair leaves the others.
LEMMA PostOld ==
    ASSUME NEW pending \in [Servers -> Seq(RequestType)], NEW c, NEW r \in Refs,
           OlderSlot(c, r) \in VersionOffsets
    PROVE  LET new == Posted(pending, r, OldVersion(c, r))
           IN  /\ new \in [Servers -> Seq(RequestType)]
               /\ \A s \in Servers, q \in Refs : \A op \in {"head", "headRow"} :
                     Awaits(new[s], op, q) <=> Awaits(pending[s], op, q)
               /\ \A s \in Servers : WellQueued(pending[s], s) => WellQueued(new[s], s)
<1> DEFINE new == Posted(pending, r, OldVersion(c, r))
           t == ServerOf[r]
<1>1. t \in Servers /\ pending[t] \in Seq(RequestType)
    BY PayRows
<1>2. new = [pending EXCEPT ![t] = pending[t] \o OldVersion(c, r)]
    BY DEF Posted
<1>3. /\ pending[t] \o OldVersion(c, r) \in Seq(RequestType)
      /\ \A q \in Refs : \A op \in {"head", "headRow"} :
            Awaits(pending[t] \o OldVersion(c, r), op, q) <=> Awaits(pending[t], op, q)
      /\ WellQueued(pending[t], t) => WellQueued(pending[t] \o OldVersion(c, r), t)
    BY <1>1, OldVersionPosted
<1> HIDE DEF new, t
<1>4. new[t] = pending[t] \o OldVersion(c, r) /\ \A s \in Servers \ {t} : new[s] = pending[s]
    BY <1>1, <1>2
<1>5. new \in [Servers -> Seq(RequestType)]
    BY <1>1, <1>2, <1>3
<1>6. \A s \in Servers, q \in Refs : \A op \in {"head", "headRow"} :
         Awaits(new[s], op, q) <=> Awaits(pending[s], op, q)
    BY <1>3, <1>4
<1>7. \A s \in Servers : WellQueued(pending[s], s) => WellQueued(new[s], s)
    BY <1>3, <1>4
<1> QED
    BY <1>5, <1>6, <1>7 DEF new

\* The queues after AppendOldVersions.
WithOldVersions(c) ==
    Posted(Posted(Posted(queue[c], Warehouse, OldVersion(c, Warehouse)),
                  District, OldVersion(c, District)),
           Customer, OldVersion(c, Customer))

LEMMA OldVersionsPosted ==
    ASSUME PayTypeOK, NEW c \in Clients
    PROVE  /\ WithOldVersions(c) \in [Servers -> Seq(RequestType)]
           /\ \A s \in Servers, q \in Refs : \A op \in {"head", "headRow"} :
                 Awaits(WithOldVersions(c)[s], op, q) <=> Awaits(queue[c][s], op, q)
           /\ \A s \in Servers : WellQueued(queue[c][s], s) => WellQueued(WithOldVersions(c)[s], s)
<1>1. \A r \in Refs : OlderSlot(c, r) \in VersionOffsets
    BY DEF PayTypeOK, OlderSlot, VersionType, TimestampType
<1>2. queue[c] \in [Servers -> Seq(RequestType)]
    BY DEF PayTypeOK
<1> DEFINE one == Posted(queue[c], Warehouse, OldVersion(c, Warehouse))
           two == Posted(one, District, OldVersion(c, District))
           three == Posted(two, Customer, OldVersion(c, Customer))
<1>3. /\ one \in [Servers -> Seq(RequestType)]
      /\ \A s \in Servers, q \in Refs : \A op \in {"head", "headRow"} :
            Awaits(one[s], op, q) <=> Awaits(queue[c][s], op, q)
      /\ \A s \in Servers : WellQueued(queue[c][s], s) => WellQueued(one[s], s)
    BY <1>1, <1>2, PayRows, PostOld
<1> HIDE DEF one
<1>4. /\ two \in [Servers -> Seq(RequestType)]
      /\ \A s \in Servers, q \in Refs : \A op \in {"head", "headRow"} :
            Awaits(two[s], op, q) <=> Awaits(one[s], op, q)
      /\ \A s \in Servers : WellQueued(one[s], s) => WellQueued(two[s], s)
    BY <1>1, <1>3, PayRows, PostOld
<1> HIDE DEF two
<1>5. /\ three \in [Servers -> Seq(RequestType)]
      /\ \A s \in Servers, q \in Refs : \A op \in {"head", "headRow"} :
            Awaits(three[s], op, q) <=> Awaits(two[s], op, q)
      /\ \A s \in Servers : WellQueued(two[s], s) => WellQueued(three[s], s)
    BY <1>1, <1>4, PayRows, PostOld
<1> HIDE DEF three
<1>6. WithOldVersions(c) = three
    BY DEF one, two, three, WithOldVersions
<1> QED
    BY <1>3, <1>4, <1>5, <1>6

-----------------------------------------------------------------------------
(***************************************************************************)
(* What New-Order's steps leave alone.                                     *)
(***************************************************************************)

\* The state of client d that New-Order and Payment share.
SameClient(d) ==
    /\ localVector'[d] = localVector[d]
    /\ cts'[d] = cts[d]
    /\ nextEpoch'[d] = nextEpoch[d]
    /\ journal'[d] = journal[d]
    /\ pc'[d] = pc[d]
    /\ lastCommittedVector'[d] = lastCommittedVector[d]

RowsKept == \A r \in Refs : headVersions'[r] = headVersions[r]

\* A step of New-Order by client c.
OrderOf(c) ==
    /\ RowsKept
    /\ \A d \in Clients \ {c} : SameClient(d)
    /\ lastCommittedVector[c] <= lastCommittedVector'[c]
    /\ nextEpoch[c] <= nextEpoch'[c]

\* New-Order writes no warehouse, district or customer, and no other client's state.
LEMMA StepIsOrder ==
    ASSUME TypeOK, VectorInv, NEW c \in Clients, Start(c) \/ Step(c)
    PROVE  OrderOf(c)
<1> USE DEF serverVars, orderVars, oracleVars, trxVars, rowVars
<1>1. ASSUME UNCHANGED <<headVersions, lastCommittedVector, cts, nextEpoch, journal>>,
             \A d \in Clients \ {c} : localVector'[d] = localVector[d] /\ pc'[d] = pc[d]
      PROVE  OrderOf(c)
    BY <1>1 DEF TypeOK, OrderOf, RowsKept, SameClient
<1>2. CASE Start(c)
    BY <1>1, <1>2 DEF TypeOK, Start
<1>3. ASSUME NEW e \in Clients, getReadTimestamp(c, e) PROVE OrderOf(c)
    BY <1>1, <1>3 DEF TypeOK, getReadTimestamp
<1>4. ASSUME NEW r \in Records, RetrieveTimestamp(c, r) PROVE OrderOf(c)
    BY <1>1, <1>4 DEF RetrieveTimestamp
<1>5. ASSUME NEW r \in Records, RetrieveRow(c, r) PROVE OrderOf(c)
    BY <1>1, <1>5 DEF RetrieveRow
<1>6. ASSUME NEW r \in Records, RetrievePointerList(c, r) PROVE OrderOf(c)
    BY <1>1, <1>6 DEF RetrievePointerList
<1>7. CASE CheckVersionsAbort(c)
    BY <1>1, <1>7 DEF TypeOK, CheckVersionsAbort
<1>8. CASE CheckVersions(c)
    BY <1>1, <1>8 DEF TypeOK, CheckVersions
<1>9. ASSUME NEW r \in Refs, RetrieveOlderVersion(c, r) PROVE OrderOf(c)
    BY <1>1, <1>9 DEF RetrieveOlderVersion
<1>10. ASSUME NEW r \in Refs, RecheckAbort(c, r) PROVE OrderOf(c)
    BY <1>1, <1>10 DEF TypeOK, RecheckAbort
<1>11. CASE AcquireCommitTimestamp(c)
    BY <1>11 DEF TypeOK, OrderOf, RowsKept, SameClient, AcquireCommitTimestamp, getNewCommitTimestamp
<1>12. ASSUME NEW s \in Stocks, LockStock(c, s) PROVE OrderOf(c)
    BY <1>12, PayRows, LockStockEffect
    DEF TypeOK, OrderOf, RowsKept, SameClient, LockStock
<1>13. CASE LocksRefused(c)
    BY <1>1, <1>13 DEF TypeOK, LocksRefused
<1>14. ASSUME NEW s \in Stocks, RevertStockLock(c, s) PROVE OrderOf(c)
    BY <1>14, PayRows DEF TypeOK, OrderOf, RowsKept, SameClient, RevertStockLock
<1>15. CASE LockAbort(c)
    BY <1>1, <1>15 DEF TypeOK, LockAbort
<1>16. CASE LocksAcquired(c)
    BY <1>16 DEF TypeOK, OrderOf, RowsKept, SameClient, LocksAcquired, writeCommandToLog
<1>17. ASSUME NEW s \in Stocks, UpdateStockPointers(c, s) PROVE OrderOf(c)
    BY <1>1, <1>17 DEF UpdateStockPointers
<1>18. ASSUME NEW s \in Stocks, UpdateStockOlderVersions(c, s) PROVE OrderOf(c)
    BY <1>1, <1>18 DEF UpdateStockOlderVersions
<1>19. CASE RetrieveAndIncrementDistrictNextOID(c)
    BY <1>1, <1>19 DEF RetrieveAndIncrementDistrictNextOID
<1>20. CASE InsertOrder(c)
    BY <1>1, <1>20 DEF InsertOrder
<1>21. ASSUME NEW s \in Stocks, UpdateStockTimestamp(c, s) PROVE OrderOf(c)
    BY <1>21, PayRows DEF TypeOK, OrderOf, RowsKept, SameClient, UpdateStockTimestamp
<1>22. ASSUME NEW s \in Stocks, UpdateStock(c, s) PROVE OrderOf(c)
    BY <1>22, PayRows DEF TypeOK, OrderOf, RowsKept, SameClient, UpdateStock
<1>23. CASE RegisterOrder(c)
    BY <1>1, <1>23 DEF TypeOK, RegisterOrder
<1>24. CASE SubmitResult(c)
    <2>1. lastCommittedVector[c] < localVector[c][c]
        BY <1>24 DEF SubmitResult, VectorInv
    <2> QED
        BY <1>24, <2>1 DEF TypeOK, OrderOf, RowsKept, SameClient, SubmitResult
<1> QED
    BY <1>2, <1>3, <1>4, <1>5, <1>6, <1>7, <1>8, <1>9, <1>10, <1>11, <1>12, <1>13, <1>14,
       <1>15, <1>16, <1>17, <1>18, <1>19, <1>20, <1>21, <1>22, <1>23, <1>24
    DEF Step

\* An idle client takes no step of a New-Order.
LEMMA StepIsRunning ==
    ASSUME NEW c \in Clients, Step(c)
    PROVE  pc[c] # "idle"
BY DEF Step, getReadTimestamp, RetrieveTimestamp, RetrieveRow, RetrievePointerList,
   CheckVersionsAbort, CheckVersions, RetrieveOlderVersion, RecheckAbort, AcquireCommitTimestamp,
   LockStock, LocksRefused, RevertStockLock, LockAbort, LocksAcquired, UpdateStockPointers,
   UpdateStockOlderVersions, RetrieveAndIncrementDistrictNextOID, InsertOrder,
   UpdateStockTimestamp, UpdateStock, RegisterOrder, SubmitResult

\* The steps that are not Payment's.
OrderPart ==
    \/ \E e \in Clients : RefreshReader(e)
    \/ \E c \in MayOrder : OrderStart(c) \/ OrderStep(c)
    \/ UNCHANGED mixVars

\* They leave Payment's state, and all of a client that runs a payment.
OrderFrame ==
    /\ UNCHANGED payVars
    /\ RowsKept
    /\ \A d \in Clients :
          /\ payPc[d] # "idle" => SameClient(d)
          /\ lastCommittedVector[d] <= lastCommittedVector'[d]
          /\ nextEpoch[d] <= nextEpoch'[d]

LEMMA OrderFramed ==
    ASSUME PayTypeOK, VectorInv, OrderPart
    PROVE  OrderFrame /\ [Next]_vars
<1>t. TypeOK /\ \A c \in Clients : payPc[c] # "idle" => pc[c] = "idle"
    BY DEF PayTypeOK
<1>1. ASSUME NEW e \in Clients, RefreshReader(e) PROVE OrderFrame /\ Next
    <2>1. ReaderRefresh(e) /\ UNCHANGED payVars
        BY <1>1 DEF RefreshReader
    <2>2. UNCHANGED <<headVersions, localVector, cts, nextEpoch, journal, pc, lastCommittedVector>>
        BY <2>1 DEF ReaderRefresh, serverVars, trxVars
    <2> QED
        BY <2>1, <2>2, <1>t DEF TypeOK, OrderFrame, RowsKept, SameClient, Next
<1>2. ASSUME NEW c \in MayOrder, OrderStart(c) \/ OrderStep(c) PROVE OrderFrame /\ Next
    <2>0. c \in Clients
        BY RolesAssumption
    <2>1. (Start(c) \/ Step(c)) /\ UNCHANGED payVars
        BY <1>2 DEF OrderStart, OrderStep
    <2>2. OrderOf(c)
        BY <1>t, <2>0, <2>1, StepIsOrder
    <2>3. payPc[c] = "idle"
        BY <1>2, <1>t, <2>0, StepIsRunning DEF OrderStart, OrderStep
    <2>4. \A d \in Clients : lastCommittedVector[d] \in Nat /\ nextEpoch[d] \in Nat
        BY <1>t DEF TypeOK
    <2>5. OrderFrame
        BY <2>1, <2>2, <2>3, <2>4 DEF OrderFrame, OrderOf, SameClient
    <2> QED
        BY <2>0, <2>1, <2>5 DEF Next
<1>3. CASE UNCHANGED mixVars
    <2>1. UNCHANGED payVars /\ UNCHANGED vars
        BY <1>3 DEF mixVars
    <2>2. UNCHANGED <<headVersions, localVector, cts, nextEpoch, journal, pc, lastCommittedVector>>
        BY <2>1 DEF vars, serverVars, trxVars, oracleVars
    <2> QED
        BY <1>t, <2>1, <2>2 DEF TypeOK, OrderFrame, RowsKept, SameClient
<1> QED
    BY <1>1, <1>2, <1>3 DEF OrderPart

-----------------------------------------------------------------------------
(***************************************************************************)
(* Type correctness.                                                       *)
(***************************************************************************)

LEMMA PayTypeInit == PayInit => PayTypeOK /\ FallbackInRange
<1> SUFFICES ASSUME PayInit PROVE PayTypeOK /\ FallbackInRange
    OBVIOUS
<1>1. TypeOK /\ FallbackInRange /\ pc = [c \in Clients |-> "idle"]
    BY TypeInit DEF PayInit, TypeInv, Init
<1>2. <<>> \in Seq(RequestType)
    OBVIOUS
<1>3. historyServer \in [Clients -> Servers]
    BY ServerAssumption DEF PayInit
<1> QED
    BY <1>1, <1>2, <1>3, InitialTypes DEF PayInit, PayTypeOK, PayPhases

\* What the commit of a command leaves in the log is an entry.
LEMMA LogEntryTyped ==
    ASSUME TypeOK, NEW c \in Clients, NEW v \in [Clients -> Nat]
    PROVE  LogEntry(journal[c], v) \in LogEntryType
<1> DEFINE logged == [d \in Clients |-> IF d < CommandSize THEN v[d] ELSE journal[c].vector[d]]
           part == IF CommandSize > ClientCnt THEN CommandSize - ClientCnt ELSE 0
<1>1. logged \in [Clients -> Nat]
    BY DEF TypeOK, LogEntryType
<1>2. part \in Nat
    BY ClientCntAssumption, CommandSizeAssumption
<1>3. LogEntry(journal[c], v) = [vector |-> logged, command |-> part]
    BY DEF LogEntry
<1> HIDE DEF logged, part
<1> QED
    BY <1>1, <1>2, <1>3 DEF LogEntryType

\* Versions with another word or row are versions.
LEMMA VersionParts ==
    ASSUME NEW v \in VersionType, NEW ts \in TimestampType, NEW ytd \in SUBSET Nat
    PROVE  /\ WithTimestamp(v, ts) \in VersionType
           /\ WithTimestamp(v, ts).ts = ts /\ WithTimestamp(v, ts).ytd = v.ytd
           /\ WithRow(v, ytd) \in VersionType
           /\ WithRow(v, ytd).ts = v.ts /\ WithRow(v, ytd).ytd = ytd
           /\ v.ts \in TimestampType /\ v.ytd \in SUBSET Nat
BY DEF VersionType, WithTimestamp, WithRow

\* A shifted pointer list is one.
LEMMA ShiftTyped ==
    ASSUME NEW list \in [VersionOffsets -> TimestampType], NEW ts \in TimestampType
    PROVE  ShiftPointers(list, ts) \in [VersionOffsets -> TimestampType]
<1>1. \A i \in VersionOffsets : i # 0 => i - 1 \in VersionOffsets
    BY VersionNumAssumption DEF VersionOffsets
<1> QED
    BY <1>1 DEF ShiftPointers

\* The buffers of a well-typed payment.
LEMMA BuffersTyped ==
    ASSUME PayTypeOK, NEW c \in Clients, NEW r \in Refs
    PROVE  /\ payHeads[c][r] \in VersionType
           /\ payHeads[c][r].ts \in TimestampType
           /\ payHeads[c][r].ytd \in SUBSET Nat
           /\ payHeads[c][r].ts.versionOffset \in VersionOffsets
           /\ payLists[c][r] \in [VersionOffsets -> TimestampType]
           /\ headVersions[r] \in VersionType
           /\ headVersions[r].ts \in TimestampType
           /\ headVersions[r].ytd \in SUBSET Nat
           /\ queue[c][ServerOf[r]] \in Seq(RequestType)
           /\ cts[c] \in Nat
<1>1. /\ payHeads[c][r] \in VersionType /\ headVersions[r] \in VersionType
      /\ payLists[c][r] \in [VersionOffsets -> TimestampType]
      /\ cts[c] \in Nat
    BY PayRows DEF PayTypeOK, TypeOK
<1>2. queue[c][ServerOf[r]] \in Seq(RequestType)
    BY PayRows DEF PayTypeOK
<1> QED
    BY <1>1, <1>2 DEF VersionType, TimestampType

\* Payment's steps that change nothing of New-Order's state.
LEMMA PayTypeKept ==
    ASSUME PayTypeOK, UNCHANGED vars,
           payPc' \in [Clients -> PayPhases],
           payStage' \in [Clients -> 0 .. 9],
           payHeads' \in [Clients -> [Refs -> VersionType]],
           payLists' \in [Clients -> [Refs -> [VersionOffsets -> TimestampType]]],
           payNextOID' \in [Clients -> Nat],
           tried' \in [Clients -> SUBSET Refs],
           payWon' \in [Clients -> SUBSET Refs],
           queue' \in [Clients -> [Servers -> Seq(RequestType)]],
           UNCHANGED historyServer,
           \A c \in Clients : payPc'[c] # "idle" => payPc[c] # "idle"
    PROVE  PayTypeOK'
<1>1. TypeOK' /\ pc' = pc
    BY DEF PayTypeOK, TypeOK, vars, serverVars, orderVars, oracleVars, trxVars, rowVars
<1> QED
    BY <1>1 DEF PayTypeOK

\* Payment's steps that write the servers' rows or the vector.
LEMMA ServerTypeKept ==
    ASSUME PayTypeOK,
           headVersions' \in [Records -> VersionType],
           tsList' \in [Records -> [VersionOffsets -> TimestampType]],
           olderVersions' \in [Records -> [VersionOffsets -> VersionType]],
           nextOID' \in Nat,
           lastCommittedVector' \in [Clients -> Nat],
           UNCHANGED <<orderTable, orderIndex, readerVector, trxVars, rowVars, journal, pc,
                       heads, lists, stage, won>>
    PROVE  TypeOK'
BY DEF PayTypeOK, TypeOK, trxVars, rowVars

\* What the network card leaves alone.
LEMMA ExecuteKeeps ==
    ASSUME PayTypeOK, NEW c \in Clients, NEW s \in Servers, NEW op, Execute(c, s, op)
    PROVE  /\ UNCHANGED <<orderTable, orderIndex, readerVector, trxVars, rowVars, journal, pc,
                          heads, lists, stage, won>>
           /\ lastCommittedVector' \in [Clients -> Nat]
<1>1. UNCHANGED <<orderTable, orderIndex, readerVector, trxVars, rowVars, journal, pc,
                  heads, lists, stage, won, lastCommittedVector>>
    BY DEF Execute, oracleVars
<1>2. lastCommittedVector \in [Clients -> Nat]
    BY DEF PayTypeOK, TypeOK
<1> QED
    BY <1>1, <1>2

\* The servers' rows and the vector have their types.
LEMMA ServerTyped ==
    ASSUME PayTypeOK
    PROVE  /\ headVersions \in [Records -> VersionType]
           /\ tsList \in [Records -> [VersionOffsets -> TimestampType]]
           /\ olderVersions \in [Records -> [VersionOffsets -> VersionType]]
           /\ nextOID \in Nat
           /\ lastCommittedVector \in [Clients -> Nat]
           /\ localVector \in [Clients -> [Clients -> Nat]]
BY DEF PayTypeOK, TypeOK

\* Every step of Payment keeps the types.
LEMMA PayTypeStep ==
    ASSUME PayTypeOK, NEW c \in Clients,
           PayStart(c) \/ PayStep(c) \/ \E s \in Servers : ExecuteRequest(c, s)
    PROVE  PayTypeOK'
<1> USE DEF serverVars, orderVars, oracleVars, trxVars, rowVars, bufferVars
<1>t. payPc \in [Clients -> PayPhases] /\ payStage \in [Clients -> 0 .. 9] /\ 0 \in 0 .. 9
    BY DEF PayTypeOK
<1>1. CASE PayStart(c)
    BY <1>1 DEF PayTypeOK, TypeOK, PayPhases, PayStart
<1>2. ASSUME NEW e \in Clients, PayReadTimestamp(c, e) PROVE PayTypeOK'
    <2>1. TypeOK'
        BY <1>2 DEF PayTypeOK, TypeOK, PayReadTimestamp
    <2>2. payPc' \in [Clients -> PayPhases] /\ payStage' \in [Clients -> 0 .. 9]
        <3>1. CASE copied'[c] = Clients
            <4>1. payPc' = [payPc EXCEPT ![c] = "read"] /\ payStage' = [payStage EXCEPT ![c] = 0]
                BY <1>2, <3>1 DEF PayReadTimestamp
            <4> QED
                BY <1>t, <4>1 DEF PayPhases
        <3>2. CASE copied'[c] # Clients
            BY <1>2, <3>2 DEF PayTypeOK, PayPhases, PayReadTimestamp
        <3> QED
            BY <3>1, <3>2
    <2>3. \A d \in Clients : payPc'[d] # "idle" => pc'[d] = "idle"
        BY <1>2 DEF PayTypeOK, PayReadTimestamp
    <2> QED
        BY <1>2, <2>1, <2>2, <2>3 DEF PayTypeOK, PayReadTimestamp
<1>3. ASSUME NEW r \in Refs, NEW part \in 0 .. 2, Reading(c, r, part)
      PROVE  payStage' \in [Clients -> 0 .. 9]
    <2>1. 3 * (Place(r) - 1) + part + 1 \in 0 .. 9
        BY Places
    <2> QED
        BY <1>3, <2>1 DEF PayTypeOK, Reading
<1>4. ASSUME NEW r \in Refs, PayRetrieveTimestamp(c, r) PROVE PayTypeOK'
    <2>1. Reading(c, r, 0)
        BY <1>4 DEF PayRetrieveTimestamp
    <2>2. WithTimestamp(payHeads[c][r], headVersions[r].ts) \in VersionType
        BY BuffersTyped, VersionParts
    <2>3. payHeads' \in [Clients -> [Refs -> VersionType]]
        BY <1>4, <2>2 DEF PayTypeOK, PayRetrieveTimestamp
    <2>4. payStage' \in [Clients -> 0 .. 9]
        BY <1>3, <2>1
    <2> QED
        BY <1>4, <2>1, <2>3, <2>4, PayTypeKept DEF PayTypeOK, PayRetrieveTimestamp, Reading
<1>5. ASSUME NEW r \in Refs, PayRetrieveRow(c, r) PROVE PayTypeOK'
    <2>1. Reading(c, r, 1)
        BY <1>5 DEF PayRetrieveRow
    <2>2. WithRow(payHeads[c][r], headVersions[r].ytd) \in VersionType
        BY BuffersTyped, VersionParts
    <2>3. payHeads' \in [Clients -> [Refs -> VersionType]] /\ payNextOID' \in [Clients -> Nat]
        BY <1>5, <2>2 DEF PayTypeOK, TypeOK, PayRetrieveRow
    <2>4. payStage' \in [Clients -> 0 .. 9]
        BY <1>3, <2>1
    <2> QED
        BY <1>5, <2>1, <2>3, <2>4, PayTypeKept DEF PayTypeOK, PayRetrieveRow, Reading
<1>6. ASSUME NEW r \in Refs, PayRetrievePointerList(c, r) PROVE PayTypeOK'
    <2>1. Reading(c, r, 2)
        BY <1>6 DEF PayRetrievePointerList
    <2>2. ListBuffer(r) \in Refs /\ tsList[r] \in [VersionOffsets -> TimestampType]
        BY PayRows DEF ListBuffer, PayTypeOK, TypeOK
    <2>3. payLists' \in [Clients -> [Refs -> [VersionOffsets -> TimestampType]]]
        BY <1>6, <2>2 DEF PayTypeOK, PayRetrievePointerList
    <2>4. payStage' \in [Clients -> 0 .. 9]
        BY <1>3, <2>1
    <2> QED
        BY <1>6, <2>1, <2>3, <2>4, PayTypeKept DEF PayTypeOK, PayRetrievePointerList, Reading
<1>7. CASE LookupFails(c)
    BY <1>7, PayTypeKept DEF PayTypeOK, PayPhases, LookupFails
<1>8. CASE PayCheckVersionsAbort(c)
    BY <1>8, PayTypeKept DEF PayTypeOK, PayPhases, PayCheckVersionsAbort
<1>9. CASE PayAcquireCommitTimestamp(c)
    <2>1. cts' \in [Clients -> Nat] /\ nextEpoch' \in [Clients -> Nat]
        <3>1. /\ cts' = [cts EXCEPT ![c] = CommitTimestamp(nextEpoch[c], c)]
              /\ nextEpoch' = [nextEpoch EXCEPT ![c] = nextEpoch[c] + 1]
            BY <1>9 DEF PayAcquireCommitTimestamp, getNewCommitTimestamp
        <3>2. cts \in [Clients -> Nat] /\ nextEpoch \in [Clients -> Nat]
            BY DEF PayTypeOK, TypeOK
        <3> QED
            BY <3>1, <3>2, CommitTimestampType
    <2>2. TypeOK'
        BY <1>9, <2>1 DEF PayTypeOK, TypeOK, PayAcquireCommitTimestamp
    <2>3. payPc' \in [Clients -> PayPhases] /\ tried' \in [Clients -> SUBSET Refs]
        BY <1>9 DEF PayTypeOK, PayPhases, PayAcquireCommitTimestamp
    <2> QED
        BY <1>9, <2>2, <2>3 DEF PayTypeOK, PayAcquireCommitTimestamp
<1>10. ASSUME NEW r \in Refs, PayLock(c, r) PROVE PayTypeOK'
    <2>1. PayLockTimestamp(c, r) \in TimestampType
        BY BuffersTyped DEF PayLockTimestamp, Timestamp, TimestampType
    <2>2. WithTimestamp(headVersions[r], PayLockTimestamp(c, r)) \in VersionType
        BY <2>1, BuffersTyped, VersionParts
    <2>3. headVersions' \in [Records -> VersionType] /\ payWon' \in [Clients -> SUBSET Refs]
        <3>1. CASE headVersions[r].ts = payHeads[c][r].ts
            <4>1. /\ headVersions' = [headVersions EXCEPT ![r] = WithTimestamp(@, PayLockTimestamp(c, r))]
                  /\ payWon' = [payWon EXCEPT ![c] = @ \cup {r}]
                BY <1>10, <3>1 DEF PayLock, Locking
            <4> QED
                BY <2>2, <4>1, PayRows DEF PayTypeOK, TypeOK
        <3>2. CASE headVersions[r].ts # payHeads[c][r].ts
            BY <1>10, <3>2 DEF PayTypeOK, TypeOK, PayLock, Locking
        <3> QED
            BY <3>1, <3>2
    <2>4. TypeOK'
        BY <1>10, <2>3 DEF PayTypeOK, TypeOK, PayLock, Locking
    <2> QED
        BY <1>10, <2>3, <2>4 DEF PayTypeOK, PayLock, Locking
<1>11. ASSUME NEW r \in Refs, PayRevertLock(c, r) PROVE PayTypeOK'
    <2>1. WithTimestamp(headVersions[r], payHeads[c][r].ts) \in VersionType
        BY BuffersTyped, VersionParts
    <2>2. headVersions' \in [Records -> VersionType] /\ payWon' \in [Clients -> SUBSET Refs]
        BY <1>11, <2>1, PayRows DEF PayTypeOK, TypeOK, PayRevertLock
    <2>3. TypeOK'
        BY <1>11, <2>2 DEF PayTypeOK, TypeOK, PayRevertLock
    <2> QED
        BY <1>11, <2>2, <2>3 DEF PayTypeOK, PayRevertLock
<1>12. CASE PayLocksRefused(c)
    BY <1>12, PayTypeKept DEF PayTypeOK, PayPhases, PayLocksRefused
<1>13. CASE PayLockAbort(c)
    BY <1>13, PayTypeKept DEF PayTypeOK, PayPhases, PayLockAbort
<1>14. CASE PayLocksAcquired(c)
    <2>1. localVector' \in [Clients -> [Clients -> Nat]] /\ localVector'[c] \in [Clients -> Nat]
        BY <1>14 DEF PayTypeOK, TypeOK, PayLocksAcquired, writeCommandToLog
    <2>2. LogEntry(journal[c], localVector'[c]) \in LogEntryType
        BY <2>1, LogEntryTyped DEF PayTypeOK
    <2>3. journal' \in [Clients -> LogEntryType]
        BY <1>14, <2>2 DEF PayTypeOK, TypeOK, PayLocksAcquired, writeCommandToLog
    <2>4. TypeOK'
        BY <1>14, <2>1, <2>3 DEF PayTypeOK, TypeOK, PayLocksAcquired
    <2> QED
        BY <1>14, <2>4 DEF PayTypeOK, PayPhases, PayLocksAcquired
<1>15. CASE AppendOldVersions(c)
    <2>1. \A r \in Refs : ShiftPointers(payLists[c][r], payHeads[c][r].ts) \in [VersionOffsets -> TimestampType]
        BY BuffersTyped, ShiftTyped
    <2>2. payLists' \in [Clients -> [Refs -> [VersionOffsets -> TimestampType]]]
        BY <1>15, <2>1 DEF PayTypeOK, AppendOldVersions
    <2>3. queue' = [queue EXCEPT ![c] = WithOldVersions(c)]
        BY <1>15 DEF AppendOldVersions, WithOldVersions
    <2>4. queue' \in [Clients -> [Servers -> Seq(RequestType)]]
        BY <2>3, OldVersionsPosted DEF PayTypeOK
    <2> QED
        <3>1. payPc' = [payPc EXCEPT ![c] = "update"] /\ payStage' = [payStage EXCEPT ![c] = 0]
            BY <1>15 DEF AppendOldVersions
        <3>2. payPc' \in [Clients -> PayPhases] /\ payStage' \in [Clients -> 0 .. 9]
            BY <1>t, <3>1 DEF PayPhases
        <3>3. \A d \in Clients : payPc'[d] # "idle" => payPc[d] # "idle"
            BY <1>15, <3>1 DEF PayTypeOK, AppendOldVersions
        <3>4. UNCHANGED <<vars, payHeads, payNextOID, tried, payWon, historyServer>>
            BY <1>15 DEF AppendOldVersions
        <3> HIDE DEF serverVars, orderVars, oracleVars, trxVars, rowVars, bufferVars
        <3>5. /\ payHeads' \in [Clients -> [Refs -> VersionType]] /\ payNextOID' \in [Clients -> Nat]
              /\ tried' \in [Clients -> SUBSET Refs] /\ payWon' \in [Clients -> SUBSET Refs]
              /\ UNCHANGED vars /\ UNCHANGED historyServer
            BY <3>4 DEF PayTypeOK
        <3> QED
            BY <2>2, <2>4, <3>2, <3>3, <3>5, PayTypeKept
<1>16. ASSUME NEW r \in Refs, NEW part \in 0 .. 1, Updating(c, r, part)
       PROVE  payStage' \in [Clients -> 0 .. 9]
    <2>1. 2 * (Place(r) - 1) + part + 1 \in 0 .. 9
        BY Places
    <2> QED
        BY <1>16, <2>1 DEF PayTypeOK, Updating
<1>17. ASSUME NEW r \in Refs, SetNewTimestamp(c, r) PROVE PayTypeOK'
    <2> DEFINE offset == NextVersionOffset(payHeads[c][r].ts.versionOffset)
               ts == Timestamp(FALSE, FALSE, offset, c, cts[c])
    <2>1. ts \in TimestampType
        BY BuffersTyped, NextVersionOffsetType DEF Timestamp, TimestampType
    <2>2. /\ Updating(c, r, 0)
          /\ payHeads' = [payHeads EXCEPT ![c][r] = WithTimestamp(@, ts)]
          /\ UNCHANGED queue
        BY <1>17 DEF SetNewTimestamp
    <2> HIDE DEF ts
    <2>3. WithTimestamp(payHeads[c][r], ts) \in VersionType
        BY <2>1, BuffersTyped, VersionParts
    <2>4. payHeads' \in [Clients -> [Refs -> VersionType]]
        BY <2>2, <2>3 DEF PayTypeOK
    <2>5. payStage' \in [Clients -> 0 .. 9]
        BY <1>16, <2>2
    <2> QED
        BY <2>2, <2>4, <2>5, PayTypeKept DEF PayTypeOK, Updating
<1>18. ASSUME NEW r \in Refs, PostUpdate(c, r) PROVE PayTypeOK'
    <2>1. WithRow(payHeads[c][r], payHeads[c][r].ytd \cup {cts[c]}) \in VersionType
        BY BuffersTyped, VersionParts
    <2>2. payHeads' \in [Clients -> [Refs -> VersionType]]
        BY <1>18, <2>1 DEF PayTypeOK, PostUpdate
    <2>3. <<Request("head", r, 0)>> \in Seq(RequestType)
        BY RequestTyped, ZeroOffset
    <2>4. queue[c][ServerOf[r]] \o <<Request("head", r, 0)>> \in Seq(RequestType)
        BY <2>3, BuffersTyped, ConcatProperties
    <2>5. queue' \in [Clients -> [Servers -> Seq(RequestType)]]
        BY <1>18, <2>4, PayRows DEF PayTypeOK, PostUpdate, Posted
    <2>6. Updating(c, r, 1)
        BY <1>18 DEF PostUpdate
    <2>7. payStage' \in [Clients -> 0 .. 9]
        BY <1>16, <2>6
    <2> QED
        BY <2>2, <2>5, <2>6, <2>7, PayTypeKept DEF PayTypeOK, Updating
<1>19. CASE InsertIntoHistory(c)
    <2>1. Request("history", Warehouse, 0) \in RequestType
        BY RequestTyped, ZeroOffset, PayRows
    <2>2. historyServer[c] \in Servers /\ queue[c][historyServer[c]] \in Seq(RequestType)
        BY DEF PayTypeOK
    <2>3. Append(queue[c][historyServer[c]], Request("history", Warehouse, 0)) \in Seq(RequestType)
        BY <2>1, <2>2, AppendProperties
    <2>4. queue' \in [Clients -> [Servers -> Seq(RequestType)]]
        BY <1>19, <2>2, <2>3 DEF PayTypeOK, InsertIntoHistory
    <2> QED
        BY <1>19, <2>4, PayTypeKept DEF PayTypeOK, PayPhases, InsertIntoHistory
<1>20. CASE PaySubmitResult(c)
    <2>1. Submitting(c)
        BY <1>20 DEF PaySubmitResult
    <2>2. TypeOK'
        <3>1. UNCHANGED <<serverVars, orderVars, readerVector, trxVars, rowVars, journal, pc,
                          heads, lists, stage, won>>
            BY <2>1 DEF Submitting
        <3>2. lastCommittedVector' \in [Clients -> Nat]
            BY <2>1, ServerTyped DEF Submitting
        <3> QED
            BY <3>1, <3>2, ServerTyped, ServerTypeKept DEF serverVars, orderVars
    <2> QED
        BY <2>1, <2>2 DEF PayTypeOK, PayPhases, Submitting
<1>21. ASSUME NEW s \in Servers, NEW op, Execute(c, s, op)
       PROVE  /\ queue' \in [Clients -> [Servers -> Seq(RequestType)]]
              /\ Head(queue[c][s]) \in RequestType
    <2>1. queue[c][s] \in Seq(RequestType) /\ queue[c][s] # <<>>
        BY <1>21 DEF PayTypeOK, Execute
    <2>2. Tail(queue[c][s]) \in Seq(RequestType) /\ HalfDone(queue[c][s]) \in Seq(RequestType)
        BY <2>1, OldestFirst, HalfDoneParts
    <2>3. queue' = [queue EXCEPT ![c][s] = IF op = "head" THEN HalfDone(queue[c][s]) ELSE Tail(queue[c][s])]
        BY <1>21 DEF Execute, HalfDone
    <2> QED
        BY <2>1, <2>2, <2>3, OldestFirst DEF PayTypeOK
<1>22. ASSUME NEW s \in Servers, ExecutePointers(c, s) PROVE PayTypeOK'
    <2> DEFINE r == Head(queue[c][s]).row
    <2>1. Execute(c, s, "pointers")
        BY <1>22 DEF ExecutePointers
    <2>2. queue' \in [Clients -> [Servers -> Seq(RequestType)]] /\ r \in Refs
        BY <1>21, <2>1 DEF RequestType
    <2>3. tsList' = [tsList EXCEPT ![r] = payLists[c][r]]
        BY <1>22 DEF ExecutePointers
    <2> HIDE DEF r
    <2>4. payLists[c][r] \in [VersionOffsets -> TimestampType]
        BY <2>2, BuffersTyped
    <2>5. tsList' \in [Records -> [VersionOffsets -> TimestampType]]
        BY <2>2, <2>3, <2>4, PayRows DEF PayTypeOK, TypeOK
    <2>6. TypeOK'
        <3>1. UNCHANGED <<headVersions, olderVersions, nextOID>>
            BY <1>22 DEF ExecutePointers
        <3> QED
            BY <2>1, <2>5, <3>1, ExecuteKeeps, ServerTyped, ServerTypeKept
    <2> QED
        BY <1>22, <2>1, <2>2, <2>6 DEF PayTypeOK, ExecutePointers, Execute
<1>23. ASSUME NEW s \in Servers, ExecuteOlder(c, s) PROVE PayTypeOK'
    <2> DEFINE q == Head(queue[c][s])
    <2>1. Execute(c, s, "older")
        BY <1>23 DEF ExecuteOlder
    <2>2. /\ queue' \in [Clients -> [Servers -> Seq(RequestType)]]
          /\ q.row \in Refs /\ q.slot \in VersionOffsets
        BY <1>21, <2>1 DEF RequestType
    <2>3. olderVersions' = [olderVersions EXCEPT ![q.row][q.slot] = payHeads[c][q.row]]
        BY <1>23 DEF ExecuteOlder
    <2> HIDE DEF q
    <2>4. payHeads[c][q.row] \in VersionType
        BY <2>2, BuffersTyped
    <2>5. olderVersions' \in [Records -> [VersionOffsets -> VersionType]]
        BY <2>2, <2>3, <2>4, PayRows DEF PayTypeOK, TypeOK
    <2>6. TypeOK'
        <3>1. UNCHANGED <<headVersions, tsList, nextOID>>
            BY <1>23 DEF ExecuteOlder
        <3> QED
            BY <2>1, <2>5, <3>1, ExecuteKeeps, ServerTyped, ServerTypeKept
    <2> QED
        BY <1>23, <2>1, <2>2, <2>6 DEF PayTypeOK, ExecuteOlder, Execute
<1>24. ASSUME NEW s \in Servers, ExecuteHead(c, s) PROVE PayTypeOK'
    <2> DEFINE r == Head(queue[c][s]).row
    <2>1. Execute(c, s, "head")
        BY <1>24 DEF ExecuteHead
    <2>2. queue' \in [Clients -> [Servers -> Seq(RequestType)]] /\ r \in Refs
        BY <1>21, <2>1 DEF RequestType
    <2>3. /\ headVersions' = [headVersions EXCEPT ![r] = WithTimestamp(@, payHeads[c][r].ts)]
          /\ payWon' = [payWon EXCEPT ![c] = @ \ {r}]
        BY <1>24 DEF ExecuteHead
    <2> HIDE DEF r
    <2>4. WithTimestamp(headVersions[r], payHeads[c][r].ts) \in VersionType
        BY <2>2, BuffersTyped, VersionParts
    <2>5. headVersions' \in [Records -> VersionType] /\ payWon' \in [Clients -> SUBSET Refs]
        BY <2>2, <2>3, <2>4, PayRows DEF PayTypeOK, TypeOK
    <2>6. TypeOK'
        <3>1. UNCHANGED <<tsList, olderVersions, nextOID>>
            BY <1>24 DEF ExecuteHead
        <3> QED
            BY <2>1, <2>5, <3>1, ExecuteKeeps, ServerTyped, ServerTypeKept
    <2> QED
        BY <1>24, <2>1, <2>2, <2>5, <2>6 DEF PayTypeOK, ExecuteHead, Execute
<1>25. ASSUME NEW s \in Servers, ExecuteHeadRow(c, s) PROVE PayTypeOK'
    <2> DEFINE r == Head(queue[c][s]).row
    <2>1. Execute(c, s, "headRow")
        BY <1>25 DEF ExecuteHeadRow
    <2>2. queue' \in [Clients -> [Servers -> Seq(RequestType)]] /\ r \in Refs
        BY <1>21, <2>1 DEF RequestType
    <2>3. /\ headVersions' = [headVersions EXCEPT ![r] = WithRow(@, payHeads[c][r].ytd)]
          /\ nextOID' = IF r = District THEN payNextOID[c] ELSE nextOID
        BY <1>25 DEF ExecuteHeadRow
    <2> HIDE DEF r
    <2>4. WithRow(headVersions[r], payHeads[c][r].ytd) \in VersionType
        BY <2>2, BuffersTyped, VersionParts
    <2>5. headVersions' \in [Records -> VersionType] /\ nextOID' \in Nat
        BY <2>2, <2>3, <2>4, PayRows DEF PayTypeOK, TypeOK
    <2>6. TypeOK'
        <3>1. UNCHANGED <<tsList, olderVersions>>
            BY <1>25 DEF ExecuteHeadRow
        <3> QED
            BY <2>1, <2>5, <3>1, ExecuteKeeps, ServerTyped, ServerTypeKept
    <2> QED
        BY <1>25, <2>1, <2>2, <2>6 DEF PayTypeOK, ExecuteHeadRow, Execute
<1>26. ASSUME NEW s \in Servers, ExecuteHistory(c, s) PROVE PayTypeOK'
    <2>1. Execute(c, s, "history")
        BY <1>26 DEF ExecuteHistory
    <2>2. queue' \in [Clients -> [Servers -> Seq(RequestType)]]
        BY <1>21, <2>1
    <2>3. TypeOK'
        <3>1. UNCHANGED <<headVersions, tsList, olderVersions, nextOID>>
            BY <1>26 DEF ExecuteHistory, serverVars
        <3> QED
            BY <2>1, <3>1, ExecuteKeeps, ServerTyped, ServerTypeKept
    <2> QED
        BY <1>26, <2>1, <2>2, <2>3 DEF PayTypeOK, ExecuteHistory, Execute
<1> QED
    BY <1>1, <1>2, <1>4, <1>5, <1>6, <1>7, <1>8, <1>9, <1>10, <1>11, <1>12, <1>13, <1>14, <1>15,
       <1>17, <1>18, <1>19, <1>20, <1>22, <1>23, <1>24, <1>25, <1>26
    DEF PayStep, ExecuteRequest

-----------------------------------------------------------------------------
(***************************************************************************)
(* What the steps of Payment do, client by client and row by row.          *)
(***************************************************************************)

\* The state of client d is as it was.
SamePayment(d) ==
    /\ SameClient(d)
    /\ payPc'[d] = payPc[d]
    /\ payStage'[d] = payStage[d]
    /\ payHeads'[d] = payHeads[d]
    /\ tried'[d] = tried[d]
    /\ payWon'[d] = payWon[d]
    /\ queue'[d] = queue[d]

\* A step by client c.
ActsAlone(c) == historyServer' = historyServer /\ \A d \in Clients \ {c} : SamePayment(d)

\* A step that only moves client c's phase.
MovesPhase(c) ==
    /\ RowsKept
    /\ SameClient(c)
    /\ payHeads'[c] = payHeads[c]
    /\ tried'[c] = tried[c]
    /\ payWon'[c] = payWon[c]
    /\ queue'[c] = queue[c]

LEMMA PhaseEffect ==
    ASSUME PayTypeOK, NEW c \in Clients
    PROVE  /\ PayStart(c) =>
                  /\ ActsAlone(c) /\ MovesPhase(c)
                  /\ payPc[c] = "idle" /\ payPc'[c] = "snapshot" /\ nextEpoch[c] <= MaxEpoch[c]
           /\ LookupFails(c) =>
                  ActsAlone(c) /\ MovesPhase(c) /\ payPc[c] = "read" /\ payPc'[c] = "idle"
           /\ PayCheckVersionsAbort(c) =>
                  ActsAlone(c) /\ MovesPhase(c) /\ payPc[c] = "read" /\ payPc'[c] = "idle"
           /\ PayLocksRefused(c) =>
                  ActsAlone(c) /\ MovesPhase(c) /\ payPc[c] = "lock" /\ payPc'[c] = "revert"
           /\ PayLockAbort(c) =>
                  /\ ActsAlone(c) /\ MovesPhase(c)
                  /\ payPc[c] = "revert" /\ payPc'[c] = "idle" /\ payWon[c] = {}
           /\ \A r \in Refs : PayRetrievePointerList(c, r) =>
                  /\ ActsAlone(c) /\ MovesPhase(c)
                  /\ payPc[c] = "read" /\ payPc'[c] = "read"
                  /\ payStage[c] = 3 * (Place(r) - 1) + 2 /\ payStage'[c] = payStage[c] + 1
                  /\ Drained(c, r)
<1> USE DEF serverVars, orderVars, oracleVars, trxVars, rowVars, bufferVars, vars,
            ActsAlone, SamePayment, MovesPhase, SameClient, RowsKept
<1>t. payPc \in [Clients -> PayPhases] /\ payStage \in [Clients -> 0 .. 9]
    BY DEF PayTypeOK
<1>1. ASSUME PayStart(c)
      PROVE  /\ ActsAlone(c) /\ MovesPhase(c)
             /\ payPc[c] = "idle" /\ payPc'[c] = "snapshot" /\ nextEpoch[c] <= MaxEpoch[c]
    BY <1>1, <1>t DEF PayStart
<1>2. ASSUME LookupFails(c)
      PROVE  ActsAlone(c) /\ MovesPhase(c) /\ payPc[c] = "read" /\ payPc'[c] = "idle"
    BY <1>2, <1>t DEF LookupFails
<1>3. ASSUME PayCheckVersionsAbort(c)
      PROVE  ActsAlone(c) /\ MovesPhase(c) /\ payPc[c] = "read" /\ payPc'[c] = "idle"
    BY <1>3, <1>t DEF PayCheckVersionsAbort
<1>4. ASSUME PayLocksRefused(c)
      PROVE  ActsAlone(c) /\ MovesPhase(c) /\ payPc[c] = "lock" /\ payPc'[c] = "revert"
    BY <1>4, <1>t DEF PayLocksRefused
<1>5. ASSUME PayLockAbort(c)
      PROVE  /\ ActsAlone(c) /\ MovesPhase(c)
             /\ payPc[c] = "revert" /\ payPc'[c] = "idle" /\ payWon[c] = {}
    BY <1>5, <1>t DEF PayLockAbort
<1>6. ASSUME NEW r \in Refs, PayRetrievePointerList(c, r)
      PROVE  /\ ActsAlone(c) /\ MovesPhase(c)
             /\ payPc[c] = "read" /\ payPc'[c] = "read"
             /\ payStage[c] = 3 * (Place(r) - 1) + 2 /\ payStage'[c] = payStage[c] + 1
             /\ Drained(c, r)
    BY <1>6, <1>t DEF PayRetrievePointerList, Reading
<1> QED
    BY <1>1, <1>2, <1>3, <1>4, <1>5, <1>6

LEMMA PayReadTimestampEffect ==
    ASSUME PayTypeOK, NEW c \in Clients, NEW e \in Clients, PayReadTimestamp(c, e)
    PROVE  /\ ActsAlone(c) /\ RowsKept
           /\ payPc[c] = "snapshot"
           /\ payPc'[c] = "snapshot" \/ (payPc'[c] = "read" /\ payStage'[c] = 0)
           /\ localVector'[c][e] = readerVector[e]
           /\ \A d \in Clients \ {e} : localVector'[c][d] = localVector[c][d]
           /\ payHeads'[c] = payHeads[c] /\ payWon'[c] = payWon[c] /\ queue'[c] = queue[c]
           /\ UNCHANGED <<cts, nextEpoch, journal, lastCommittedVector, readerVector, pc>>
<1> USE DEF serverVars, orderVars, oracleVars, trxVars, rowVars, bufferVars, vars,
            ActsAlone, SamePayment, SameClient, RowsKept
<1>t. /\ payPc \in [Clients -> PayPhases] /\ payStage \in [Clients -> 0 .. 9]
      /\ localVector \in [Clients -> [Clients -> Nat]]
    BY DEF PayTypeOK, TypeOK
<1>1. CASE copied'[c] = Clients
    <2>1. /\ payPc' = [payPc EXCEPT ![c] = "read"] /\ payStage' = [payStage EXCEPT ![c] = 0]
          /\ localVector' = [localVector EXCEPT ![c][e] = readerVector[e]]
        BY <1>1 DEF PayReadTimestamp
    <2> QED
        BY <1>t, <2>1 DEF PayReadTimestamp
<1>2. CASE copied'[c] # Clients
    BY <1>t, <1>2 DEF PayReadTimestamp
<1> QED
    BY <1>1, <1>2

\* The reads of a row into its buffer.
LEMMA PayRetrieveEffect ==
    ASSUME PayTypeOK, NEW c \in Clients, NEW r \in Refs
    PROVE  /\ PayRetrieveTimestamp(c, r) =>
                  /\ ActsAlone(c) /\ RowsKept /\ SameClient(c)
                  /\ payPc[c] = "read" /\ payPc'[c] = "read" /\ Drained(c, r)
                  /\ payStage[c] = 3 * (Place(r) - 1) /\ payStage'[c] = payStage[c] + 1
                  /\ payHeads'[c][r].ts = headVersions[r].ts
                  /\ payHeads'[c][r].ytd = payHeads[c][r].ytd
                  /\ \A q \in Refs \ {r} : payHeads'[c][q] = payHeads[c][q]
                  /\ payWon'[c] = payWon[c] /\ queue'[c] = queue[c]
           /\ PayRetrieveRow(c, r) =>
                  /\ ActsAlone(c) /\ RowsKept /\ SameClient(c)
                  /\ payPc[c] = "read" /\ payPc'[c] = "read" /\ Drained(c, r)
                  /\ payStage[c] = 3 * (Place(r) - 1) + 1 /\ payStage'[c] = payStage[c] + 1
                  /\ payHeads'[c][r].ts = payHeads[c][r].ts
                  /\ payHeads'[c][r].ytd = headVersions[r].ytd
                  /\ \A q \in Refs \ {r} : payHeads'[c][q] = payHeads[c][q]
                  /\ payWon'[c] = payWon[c] /\ queue'[c] = queue[c]
<1> USE DEF serverVars, orderVars, oracleVars, trxVars, rowVars, bufferVars, vars,
            ActsAlone, SamePayment, SameClient, RowsKept
<1>s. 3 * (Place(r) - 1) + 0 = 3 * (Place(r) - 1)
    BY Places
<1>t. payStage \in [Clients -> 0 .. 9] /\ payHeads \in [Clients -> [Refs -> VersionType]]
    BY DEF PayTypeOK
<1>1. ASSUME PayRetrieveTimestamp(c, r)
      PROVE  /\ ActsAlone(c) /\ RowsKept /\ SameClient(c)
             /\ payPc[c] = "read" /\ payPc'[c] = "read" /\ Drained(c, r)
             /\ payStage[c] = 3 * (Place(r) - 1) /\ payStage'[c] = payStage[c] + 1
             /\ payHeads'[c][r].ts = headVersions[r].ts
             /\ payHeads'[c][r].ytd = payHeads[c][r].ytd
             /\ \A q \in Refs \ {r} : payHeads'[c][q] = payHeads[c][q]
             /\ payWon'[c] = payWon[c] /\ queue'[c] = queue[c]
    BY <1>1, <1>s, <1>t DEF PayRetrieveTimestamp, Reading, WithTimestamp
<1>2. ASSUME PayRetrieveRow(c, r)
      PROVE  /\ ActsAlone(c) /\ RowsKept /\ SameClient(c)
             /\ payPc[c] = "read" /\ payPc'[c] = "read" /\ Drained(c, r)
             /\ payStage[c] = 3 * (Place(r) - 1) + 1 /\ payStage'[c] = payStage[c] + 1
             /\ payHeads'[c][r].ts = payHeads[c][r].ts
             /\ payHeads'[c][r].ytd = headVersions[r].ytd
             /\ \A q \in Refs \ {r} : payHeads'[c][q] = payHeads[c][q]
             /\ payWon'[c] = payWon[c] /\ queue'[c] = queue[c]
    BY <1>2, <1>t DEF PayRetrieveRow, Reading, WithRow
<1> QED
    BY <1>1, <1>2

LEMMA PayAcquireCommitTimestampEffect ==
    ASSUME PayTypeOK, NEW c \in Clients, PayAcquireCommitTimestamp(c)
    PROVE  /\ ActsAlone(c) /\ RowsKept
           /\ payPc[c] = "read" /\ payPc'[c] = "lock" /\ payStage[c] = 9
           /\ \A r \in Refs : PayAccessible(c, r)
           /\ cts'[c] = CommitTimestamp(nextEpoch[c], c) /\ nextEpoch'[c] = nextEpoch[c] + 1
           /\ \A d \in Clients \ {c} : cts'[d] = cts[d] /\ nextEpoch'[d] = nextEpoch[d]
           /\ tried'[c] = {}
           /\ payHeads'[c] = payHeads[c] /\ payWon'[c] = payWon[c] /\ queue'[c] = queue[c]
           /\ UNCHANGED <<localVector, journal, lastCommittedVector, readerVector, pc>>
<1>t. /\ payPc \in [Clients -> PayPhases] /\ tried \in [Clients -> SUBSET Refs]
      /\ cts \in [Clients -> Nat] /\ nextEpoch \in [Clients -> Nat]
    BY DEF PayTypeOK, TypeOK
<1> QED
    BY <1>t DEF serverVars, orderVars, oracleVars, rowVars, bufferVars, ActsAlone, SamePayment,
       SameClient, RowsKept, PayAcquireCommitTimestamp, getNewCommitTimestamp

LEMMA PayLocksAcquiredEffect ==
    ASSUME PayTypeOK, NEW c \in Clients, PayLocksAcquired(c)
    PROVE  /\ ActsAlone(c) /\ RowsKept
           /\ payPc[c] = "lock" /\ payPc'[c] = "append" /\ payWon[c] = Refs
           /\ localVector'[c][c] = cts[c]
           /\ \A d \in Clients \ {c} : localVector'[c][d] = localVector[c][d]
           /\ journal'[c] = LogEntry(journal[c], localVector'[c])
           /\ payHeads'[c] = payHeads[c] /\ tried'[c] = tried[c]
           /\ payWon'[c] = payWon[c] /\ queue'[c] = queue[c]
           /\ UNCHANGED <<cts, nextEpoch, lastCommittedVector, readerVector, pc>>
<1>t. /\ payPc \in [Clients -> PayPhases] /\ journal \in [Clients -> LogEntryType]
      /\ localVector \in [Clients -> [Clients -> Nat]]
    BY DEF PayTypeOK, TypeOK
<1> QED
    BY <1>t DEF serverVars, orderVars, oracleVars, rowVars, bufferVars, ActsAlone, SamePayment,
       SameClient, RowsKept, PayLocksAcquired, writeCommandToLog

\* The compare-and-swap replaces the word of one row, or nothing.
LEMMA PayLockEffect ==
    ASSUME PayTypeOK, NEW c \in Clients, NEW r \in Refs, PayLock(c, r)
    PROVE  /\ ActsAlone(c) /\ SameClient(c)
           /\ payPc[c] = "lock" /\ payPc'[c] = "lock"
           /\ tried'[c] = tried[c] \cup {r}
           /\ payHeads'[c] = payHeads[c] /\ queue'[c] = queue[c]
           /\ \A q \in Refs \ {r} : headVersions'[q] = headVersions[q]
           /\ \/ /\ headVersions[r].ts = payHeads[c][r].ts
                 /\ headVersions'[r].ts = PayLockTimestamp(c, r)
                 /\ headVersions'[r].ytd = headVersions[r].ytd
                 /\ payWon'[c] = payWon[c] \cup {r}
              \/ headVersions'[r] = headVersions[r] /\ payWon'[c] = payWon[c]
<1> USE DEF oracleVars, trxVars, bufferVars
<1>t. /\ tried \in [Clients -> SUBSET Refs] /\ payWon \in [Clients -> SUBSET Refs]
      /\ headVersions \in [Records -> VersionType]
      /\ \A q \in Refs : q \in Records
    BY PayRows DEF PayTypeOK, TypeOK
<1>1. /\ payPc[c] = "lock" /\ tried' = [tried EXCEPT ![c] = @ \cup {r}]
      /\ UNCHANGED <<localVector, cts, nextEpoch, journal, pc, lastCommittedVector,
                     payPc, payStage, payHeads, queue, historyServer>>
    BY DEF PayLock, Locking
<1>2. CASE headVersions[r].ts = payHeads[c][r].ts
    <2>1. /\ headVersions' = [headVersions EXCEPT ![r] = WithTimestamp(@, PayLockTimestamp(c, r))]
          /\ payWon' = [payWon EXCEPT ![c] = @ \cup {r}]
        BY <1>2 DEF PayLock, Locking
    <2>2. /\ headVersions'[r].ts = PayLockTimestamp(c, r)
          /\ headVersions'[r].ytd = headVersions[r].ytd
          /\ \A q \in Refs \ {r} : headVersions'[q] = headVersions[q]
        BY <1>t, <2>1 DEF WithTimestamp
    <2>3. payWon'[c] = payWon[c] \cup {r} /\ \A d \in Clients \ {c} : payWon'[d] = payWon[d]
        BY <1>t, <2>1
    <2> QED
        BY <1>t, <1>1, <1>2, <2>2, <2>3 DEF ActsAlone, SamePayment, SameClient
<1>3. CASE headVersions[r].ts # payHeads[c][r].ts
    <2>1. UNCHANGED <<headVersions, payWon>>
        BY <1>3 DEF PayLock, Locking
    <2> QED
        BY <1>t, <1>1, <2>1 DEF ActsAlone, SamePayment, SameClient
<1> QED
    BY <1>2, <1>3

\* Reverting a lock puts the word back that the client read.
LEMMA PayRevertLockEffect ==
    ASSUME PayTypeOK, NEW c \in Clients, NEW r \in Refs, PayRevertLock(c, r)
    PROVE  /\ ActsAlone(c) /\ SameClient(c)
           /\ payPc[c] = "revert" /\ payPc'[c] = "revert"
           /\ r \in payWon[c] /\ payWon'[c] = payWon[c] \ {r}
           /\ tried'[c] = tried[c] /\ payHeads'[c] = payHeads[c] /\ queue'[c] = queue[c]
           /\ headVersions'[r].ts = payHeads[c][r].ts
           /\ headVersions'[r].ytd = headVersions[r].ytd
           /\ \A q \in Refs \ {r} : headVersions'[q] = headVersions[q]
<1>t. /\ payWon \in [Clients -> SUBSET Refs]
      /\ headVersions \in [Records -> VersionType]
      /\ \A q \in Refs : q \in Records
    BY PayRows DEF PayTypeOK, TypeOK
<1>1. /\ payPc[c] = "revert" /\ r \in payWon[c]
      /\ headVersions' = [headVersions EXCEPT ![r] = WithTimestamp(@, payHeads[c][r].ts)]
      /\ payWon' = [payWon EXCEPT ![c] = @ \ {r}]
      /\ UNCHANGED <<localVector, cts, nextEpoch, journal, pc, lastCommittedVector,
                     payPc, payStage, payHeads, tried, queue, historyServer>>
    BY DEF PayRevertLock, oracleVars, trxVars, bufferVars
<1> QED
    BY <1>t, <1>1 DEF ActsAlone, SamePayment, SameClient, WithTimestamp

\* The old versions are posted; nothing that unlocks is.
LEMMA AppendOldVersionsEffect ==
    ASSUME PayTypeOK, NEW c \in Clients, AppendOldVersions(c)
    PROVE  /\ ActsAlone(c) /\ SameClient(c) /\ RowsKept
           /\ payPc[c] = "append" /\ payPc'[c] = "update" /\ payStage'[c] = 0
           /\ payHeads'[c] = payHeads[c] /\ tried'[c] = tried[c] /\ payWon'[c] = payWon[c]
           /\ queue'[c] = WithOldVersions(c)
<1>t. /\ payPc \in [Clients -> PayPhases] /\ payStage \in [Clients -> 0 .. 9]
      /\ payLists \in [Clients -> [Refs -> [VersionOffsets -> TimestampType]]]
      /\ queue \in [Clients -> [Servers -> Seq(RequestType)]]
    BY DEF PayTypeOK
<1>1. /\ payPc[c] = "append" /\ payPc' = [payPc EXCEPT ![c] = "update"]
      /\ payStage' = [payStage EXCEPT ![c] = 0]
      /\ queue' = [queue EXCEPT ![c] = WithOldVersions(c)]
      /\ UNCHANGED <<headVersions, localVector, cts, nextEpoch, journal, pc, lastCommittedVector,
                     payHeads, tried, payWon, historyServer>>
    BY DEF AppendOldVersions, WithOldVersions, vars, serverVars, oracleVars, trxVars
<1> QED
    BY <1>t, <1>1 DEF ActsAlone, SamePayment, SameClient, RowsKept

\* The new word and the new row enter the buffer, and the request is posted.
LEMMA SetNewTimestampEffect ==
    ASSUME PayTypeOK, NEW c \in Clients, NEW r \in Refs, SetNewTimestamp(c, r)
    PROVE  /\ ActsAlone(c) /\ SameClient(c) /\ RowsKept
           /\ payPc[c] = "update" /\ payPc'[c] = "update"
           /\ payStage[c] = 2 * (Place(r) - 1) /\ payStage'[c] = payStage[c] + 1
           /\ ~payHeads'[c][r].ts.locked
           /\ payHeads'[c][r].ts.clientID = c /\ payHeads'[c][r].ts.timestamp = cts[c]
           /\ payHeads'[c][r].ytd = payHeads[c][r].ytd
           /\ \A q \in Refs \ {r} : payHeads'[c][q] = payHeads[c][q]
           /\ tried'[c] = tried[c] /\ payWon'[c] = payWon[c] /\ queue'[c] = queue[c]
<1>s. 2 * (Place(r) - 1) + 0 = 2 * (Place(r) - 1)
    BY Places
<1>t. payStage \in [Clients -> 0 .. 9] /\ payHeads \in [Clients -> [Refs -> VersionType]]
    BY DEF PayTypeOK
<1> DEFINE ts == Timestamp(FALSE, FALSE, NextVersionOffset(payHeads[c][r].ts.versionOffset), c, cts[c])
<1>1. /\ payPc[c] = "update" /\ payStage[c] = 2 * (Place(r) - 1)
      /\ payStage' = [payStage EXCEPT ![c] = @ + 1]
      /\ payHeads' = [payHeads EXCEPT ![c][r] = WithTimestamp(@, ts)]
      /\ UNCHANGED <<headVersions, localVector, cts, nextEpoch, journal, pc, lastCommittedVector,
                     payPc, tried, payWon, queue, historyServer>>
    BY <1>s DEF SetNewTimestamp, Updating, vars, serverVars, oracleVars, trxVars
<1>2. ~ts.locked /\ ts.clientID = c /\ ts.timestamp = cts[c]
    BY DEF Timestamp
<1> HIDE DEF ts
<1> QED
    BY <1>t, <1>1, <1>2 DEF ActsAlone, SamePayment, SameClient, RowsKept, WithTimestamp

LEMMA PostUpdateQueue ==
    ASSUME PayTypeOK, NEW c \in Clients, NEW r \in Refs, PostUpdate(c, r)
    PROVE  /\ queue'[c][ServerOf[r]] = queue[c][ServerOf[r]] \o <<Request("head", r, 0)>>
           /\ \A s \in Servers \ {ServerOf[r]} : queue'[c][s] = queue[c][s]
           /\ \A d \in Clients \ {c} : queue'[d] = queue[d]
<1>1. queue \in [Clients -> [Servers -> Seq(RequestType)]] /\ ServerOf[r] \in Servers
    BY PayRows DEF PayTypeOK
<1>2. queue' = [queue EXCEPT ![c] = Posted(@, r, <<Request("head", r, 0)>>)]
    BY DEF PostUpdate
<1> QED
    BY <1>1, <1>2 DEF Posted

LEMMA PostUpdateEffect ==
    ASSUME PayTypeOK, NEW c \in Clients, NEW r \in Refs, PostUpdate(c, r)
    PROVE  /\ ActsAlone(c) /\ SameClient(c) /\ RowsKept
           /\ payPc[c] = "update" /\ payPc'[c] = "update"
           /\ payStage[c] = 2 * (Place(r) - 1) + 1 /\ payStage'[c] = payStage[c] + 1
           /\ payHeads'[c][r].ts = payHeads[c][r].ts
           /\ payHeads'[c][r].ytd = payHeads[c][r].ytd \cup {cts[c]}
           /\ \A q \in Refs \ {r} : payHeads'[c][q] = payHeads[c][q]
           /\ tried'[c] = tried[c] /\ payWon'[c] = payWon[c]
<1>t. payStage \in [Clients -> 0 .. 9] /\ payHeads \in [Clients -> [Refs -> VersionType]]
    BY DEF PayTypeOK
<1>1. /\ payPc[c] = "update" /\ payStage[c] = 2 * (Place(r) - 1) + 1
      /\ payStage' = [payStage EXCEPT ![c] = @ + 1]
      /\ payHeads' = [payHeads EXCEPT ![c][r] = WithRow(@, @.ytd \cup {cts[c]})]
      /\ UNCHANGED <<headVersions, localVector, cts, nextEpoch, journal, pc, lastCommittedVector,
                     payPc, tried, payWon, historyServer>>
    BY DEF PostUpdate, Updating, vars, serverVars, oracleVars, trxVars
<1>2. \A d \in Clients \ {c} : queue'[d] = queue[d]
    BY PostUpdateQueue
<1>3. /\ payHeads'[c][r].ts = payHeads[c][r].ts
      /\ payHeads'[c][r].ytd = payHeads[c][r].ytd \cup {cts[c]}
      /\ \A q \in Refs \ {r} : payHeads'[c][q] = payHeads[c][q]
      /\ \A d \in Clients \ {c} : payHeads'[d] = payHeads[d]
    BY <1>t, <1>1 DEF WithRow
<1> QED
    BY <1>t, <1>1, <1>2, <1>3 DEF ActsAlone, SamePayment, SameClient, RowsKept

LEMMA InsertIntoHistoryEffect ==
    ASSUME PayTypeOK, NEW c \in Clients, InsertIntoHistory(c)
    PROVE  /\ ActsAlone(c) /\ SameClient(c) /\ RowsKept
           /\ payPc[c] = "update" /\ payPc'[c] = "submit" /\ payStage[c] = 6
           /\ payHeads'[c] = payHeads[c] /\ tried'[c] = tried[c] /\ payWon'[c] = payWon[c]
           /\ LET h == historyServer[c]
              IN  /\ queue'[c][h] = queue[c][h] \o <<Request("history", Warehouse, 0)>>
                  /\ \A s \in Servers \ {h} : queue'[c][s] = queue[c][s]
<1> DEFINE h == historyServer[c]
           x == Request("history", Warehouse, 0)
<1>t. /\ payPc \in [Clients -> PayPhases] /\ queue \in [Clients -> [Servers -> Seq(RequestType)]]
      /\ h \in Servers
    BY DEF PayTypeOK
<1>1. /\ payPc[c] = "update" /\ payStage[c] = 6
      /\ payPc' = [payPc EXCEPT ![c] = "submit"]
      /\ queue' = [queue EXCEPT ![c][h] = Append(@, x)]
      /\ UNCHANGED <<headVersions, localVector, cts, nextEpoch, journal, pc, lastCommittedVector,
                     payStage, payHeads, tried, payWon, historyServer>>
    BY DEF InsertIntoHistory, vars, serverVars, oracleVars, trxVars, bufferVars
<1>2. x \in RequestType
    BY RequestTyped, ZeroOffset, PayRows
<1> HIDE DEF x, h
<1>3. Append(queue[c][h], x) = queue[c][h] \o <<x>>
    BY <1>t, <1>2, AppendIsConcat
<1>4. /\ queue'[c][h] = queue[c][h] \o <<x>>
      /\ \A s \in Servers \ {h} : queue'[c][s] = queue[c][s]
      /\ \A d \in Clients \ {c} : queue'[d] = queue[d]
    BY <1>t, <1>1, <1>3
<1>5. ActsAlone(c) /\ SameClient(c) /\ RowsKept /\ payPc'[c] = "submit"
    BY <1>t, <1>1, <1>4 DEF ActsAlone, SamePayment, SameClient, RowsKept
<1> QED
    BY <1>1, <1>4, <1>5 DEF x, h

LEMMA PaySubmitResultEffect ==
    ASSUME PayTypeOK, NEW c \in Clients, PaySubmitResult(c)
    PROVE  /\ ActsAlone(c) /\ RowsKept
           /\ payPc[c] = "submit" /\ payPc'[c] = "idle"
           /\ lastCommittedVector'[c] = localVector[c][c]
           /\ \A s \in Servers : \A i \in 1 .. Len(queue[c][s]) : queue[c][s][i].op # "history"
           /\ payHeads'[c] = payHeads[c] /\ payWon'[c] = payWon[c] /\ queue'[c] = queue[c]
           /\ UNCHANGED <<localVector, cts, nextEpoch, journal, pc, readerVector>>
<1>t. payPc \in [Clients -> PayPhases] /\ lastCommittedVector \in [Clients -> Nat]
    BY DEF PayTypeOK, TypeOK
<1>1. /\ \A s \in Servers : \A i \in 1 .. Len(queue[c][s]) : queue[c][s][i].op # "history"
      /\ payPc[c] = "submit" /\ payPc' = [payPc EXCEPT ![c] = "idle"]
      /\ lastCommittedVector' = [lastCommittedVector EXCEPT ![c] = localVector[c][c]]
      /\ UNCHANGED <<headVersions, localVector, cts, nextEpoch, journal, pc, readerVector,
                     payStage, payHeads, tried, payWon, queue, historyServer>>
    BY DEF PaySubmitResult, Submitting, serverVars, trxVars, bufferVars
<1> QED
    BY <1>t, <1>1 DEF ActsAlone, SamePayment, SameClient, RowsKept

\* The network card takes nothing of the client's state but a request.
LEMMA ExecuteEffect ==
    ASSUME PayTypeOK, QueueInv, NEW c \in Clients, NEW s \in Servers, NEW op, Execute(c, s, op)
    PROVE  /\ SameClient(c) /\ historyServer' = historyServer
           /\ \A d \in Clients \ {c} : SameClient(d) /\ queue'[d] = queue[d]
           /\ UNCHANGED <<payPc, payStage, payHeads, tried>>
           /\ queue[c][s] \in Seq(RequestType) /\ queue[c][s] # <<>> /\ WellQueued(queue[c][s], s)
           /\ Head(queue[c][s]) \in RequestType /\ Head(queue[c][s]).op = op
           /\ op # "history" => ServerOf[Head(queue[c][s]).row] = s
           /\ queue'[c][s] = IF op = "head" THEN HalfDone(queue[c][s]) ELSE Tail(queue[c][s])
           /\ \A t \in Servers \ {s} : queue'[c][t] = queue[c][t]
<1>t. queue \in [Clients -> [Servers -> Seq(RequestType)]]
    BY DEF PayTypeOK
<1>1. /\ queue[c][s] # <<>> /\ Head(queue[c][s]).op = op
      /\ queue' = [queue EXCEPT ![c][s] = IF op = "head" THEN HalfDone(@) ELSE Tail(@)]
      /\ UNCHANGED <<localVector, cts, nextEpoch, journal, pc, lastCommittedVector,
                     payPc, payStage, payHeads, tried, historyServer>>
    BY DEF Execute, HalfDone, oracleVars, trxVars, bufferVars
<1>2. queue[c][s] \in Seq(RequestType) /\ WellQueued(queue[c][s], s)
    BY <1>t DEF QueueInv
<1>3. Head(queue[c][s]) \in RequestType /\ Head(queue[c][s]) = queue[c][s][1] /\ 1 \in 1 .. Len(queue[c][s])
    BY <1>1, <1>2, OldestFirst
<1>4. op # "history" => ServerOf[Head(queue[c][s]).row] = s
    BY <1>1, <1>2, <1>3 DEF WellQueued
<1> QED
    BY <1>t, <1>1, <1>2, <1>3, <1>4 DEF SameClient

\* Requests that neither unlock nor write a row of a head.
LEMMA ExecuteOtherEffect ==
    ASSUME PayTypeOK, QueueInv, NEW c \in Clients, NEW s \in Servers,
           ExecutePointers(c, s) \/ ExecuteOlder(c, s) \/ ExecuteHistory(c, s)
    PROVE  /\ ActsAlone(c)
           /\ RowsKept /\ SameClient(c)
           /\ payPc'[c] = payPc[c] /\ payStage'[c] = payStage[c] /\ payHeads'[c] = payHeads[c]
           /\ tried'[c] = tried[c] /\ payWon'[c] = payWon[c]
           /\ queue'[c][s] = Tail(queue[c][s]) /\ queue[c][s] # <<>>
           /\ \A t \in Servers \ {s} : queue'[c][t] = queue[c][t]
           /\ \A t \in Servers, q \in Refs : \A op \in {"head", "headRow"} :
                 Awaits(queue'[c][t], op, q) <=> Awaits(queue[c][t], op, q)
<1>1. ASSUME NEW op \in {"pointers", "older", "history"}, Execute(c, s, op)
      PROVE  \A t \in Servers, q \in Refs : \A o \in {"head", "headRow"} :
                 Awaits(queue'[c][t], o, q) <=> Awaits(queue[c][t], o, q)
    <2>1. /\ queue[c][s] \in Seq(RequestType) /\ queue[c][s] # <<>>
          /\ Head(queue[c][s]).op = op /\ queue'[c][s] = Tail(queue[c][s])
          /\ \A t \in Servers \ {s} : queue'[c][t] = queue[c][t]
        BY <1>1, ExecuteEffect
    <2>2. \A q \in Refs : \A o \in {"head", "headRow"} :
             Awaits(queue[c][s], o, q) <=> Awaits(Tail(queue[c][s]), o, q)
        BY <2>1, AwaitsTail
    <2> QED
        BY <2>1, <2>2
<1>2. ASSUME NEW op \in {"pointers", "older", "history"}, Execute(c, s, op), UNCHANGED <<headVersions, payWon>>
      PROVE  /\ ActsAlone(c) /\ RowsKept /\ SameClient(c)
             /\ payPc'[c] = payPc[c] /\ payStage'[c] = payStage[c] /\ payHeads'[c] = payHeads[c]
             /\ tried'[c] = tried[c] /\ payWon'[c] = payWon[c]
             /\ queue'[c][s] = Tail(queue[c][s]) /\ queue[c][s] # <<>>
             /\ \A t \in Servers \ {s} : queue'[c][t] = queue[c][t]
    <2>1. /\ SameClient(c) /\ historyServer' = historyServer
          /\ \A d \in Clients \ {c} : SameClient(d) /\ queue'[d] = queue[d]
          /\ UNCHANGED <<payPc, payStage, payHeads, tried>>
          /\ queue'[c][s] = Tail(queue[c][s]) /\ queue[c][s] # <<>>
          /\ \A t \in Servers \ {s} : queue'[c][t] = queue[c][t]
        BY <1>2, ExecuteEffect
    <2> QED
        BY <1>2, <2>1 DEF ActsAlone, SamePayment, RowsKept
<1>3. CASE ExecutePointers(c, s)
    <2>1. Execute(c, s, "pointers") /\ UNCHANGED <<headVersions, payWon>>
        BY <1>3 DEF ExecutePointers
    <2> QED
        BY <1>1, <1>2, <2>1
<1>4. CASE ExecuteOlder(c, s)
    <2>1. Execute(c, s, "older") /\ UNCHANGED <<headVersions, payWon>>
        BY <1>4 DEF ExecuteOlder
    <2> QED
        BY <1>1, <1>2, <2>1
<1>5. CASE ExecuteHistory(c, s)
    <2>1. Execute(c, s, "history") /\ UNCHANGED <<headVersions, payWon>>
        BY <1>5 DEF ExecuteHistory, serverVars
    <2> QED
        BY <1>1, <1>2, <2>1
<1> QED
    BY <1>3, <1>4, <1>5

\* The first word of a new head: the row is unlocked, and half written.
LEMMA ExecuteHeadEffect ==
    ASSUME PayTypeOK, QueueInv, NEW c \in Clients, NEW s \in Servers, ExecuteHead(c, s)
    PROVE  \E r \in Refs :
              /\ ActsAlone(c) /\ SameClient(c) /\ ServerOf[r] = s /\ UnlockPending(c, r)
              /\ headVersions'[r].ts = payHeads[c][r].ts
              /\ headVersions'[r].ytd = headVersions[r].ytd
              /\ \A q \in Refs \ {r} : headVersions'[q] = headVersions[q]
              /\ payPc'[c] = payPc[c] /\ payStage'[c] = payStage[c] /\ payHeads'[c] = payHeads[c]
              /\ tried'[c] = tried[c] /\ payWon'[c] = payWon[c] \ {r}
              /\ queue[c][s] # <<>> /\ Head(queue[c][s]).op = "head"
              /\ queue'[c][s] = HalfDone(queue[c][s])
              /\ \A t \in Servers \ {s} : queue'[c][t] = queue[c][t]
              /\ \A q \in Refs : Awaits(queue'[c][s], "head", q) <=> (q # r /\ Awaits(queue[c][s], "head", q))
              /\ \A q \in Refs : Awaits(queue'[c][s], "headRow", q) <=> q = r
              /\ \A q \in Refs : ~Awaits(queue[c][s], "headRow", q)
<1> DEFINE p == queue[c][s]
           r == Head(p).row
<1>1. Execute(c, s, "head")
    BY DEF ExecuteHead
<1>2. /\ SameClient(c) /\ historyServer' = historyServer
      /\ \A d \in Clients \ {c} : SameClient(d) /\ queue'[d] = queue[d]
      /\ UNCHANGED <<payPc, payStage, payHeads, tried>>
      /\ p \in Seq(RequestType) /\ p # <<>> /\ WellQueued(p, s)
      /\ Head(p) \in RequestType /\ Head(p).op = "head" /\ ServerOf[r] = s
      /\ queue'[c][s] = HalfDone(p)
      /\ \A t \in Servers \ {s} : queue'[c][t] = queue[c][t]
    BY <1>1, ExecuteEffect
<1>3. /\ headVersions' = [headVersions EXCEPT ![r] = WithTimestamp(@, payHeads[c][r].ts)]
      /\ payWon' = [payWon EXCEPT ![c] = @ \ {r}]
    BY DEF ExecuteHead
<1>4. r \in Refs
    BY <1>2 DEF RequestType
<1>5. /\ \A op, q : Awaits(HalfDone(p), op, q) <=> ((op = "headRow" /\ r = q) \/ Awaits(Tail(p), op, q))
      /\ \A op, q : Awaits(p, op, q) <=> ((Head(p).op = op /\ r = q) \/ Awaits(Tail(p), op, q))
      /\ \A q : ~Awaits(Tail(p), "headRow", q)
      /\ ~Awaits(Tail(p), "head", r)
    BY <1>2, HalfDoneParts, AwaitsTail, WellTail
<1>u. UnlockPending(c, r)
    BY <1>2, <1>5 DEF UnlockPending
<1> HIDE DEF p, r
<1>t. /\ payWon \in [Clients -> SUBSET Refs] /\ headVersions \in [Records -> VersionType]
      /\ \A q \in Refs : q \in Records
    BY PayRows DEF PayTypeOK, TypeOK
<1>6. /\ headVersions'[r].ts = payHeads[c][r].ts
      /\ headVersions'[r].ytd = headVersions[r].ytd
      /\ \A q \in Refs \ {r} : headVersions'[q] = headVersions[q]
    BY <1>t, <1>3, <1>4 DEF WithTimestamp
<1>7. payWon'[c] = payWon[c] \ {r} /\ \A d \in Clients \ {c} : payWon'[d] = payWon[d]
    BY <1>t, <1>3
<1>8. ActsAlone(c)
    BY <1>2, <1>7 DEF ActsAlone, SamePayment
<1>9. /\ \A q \in Refs : Awaits(queue'[c][s], "head", q) <=> (q # r /\ Awaits(p, "head", q))
      /\ \A q \in Refs : Awaits(queue'[c][s], "headRow", q) <=> q = r
      /\ \A q \in Refs : ~Awaits(p, "headRow", q)
    BY <1>2, <1>5
<1> WITNESS r \in Refs
<1> QED
    BY <1>2, <1>u, <1>6, <1>7, <1>8, <1>9 DEF p

\* The rest of a new head.
LEMMA ExecuteHeadRowEffect ==
    ASSUME PayTypeOK, QueueInv, NEW c \in Clients, NEW s \in Servers, ExecuteHeadRow(c, s)
    PROVE  \E r \in Refs :
              /\ ActsAlone(c) /\ SameClient(c) /\ ServerOf[r] = s /\ Awaits(queue[c][s], "headRow", r)
              /\ headVersions'[r].ts = headVersions[r].ts
              /\ headVersions'[r].ytd = payHeads[c][r].ytd
              /\ \A q \in Refs \ {r} : headVersions'[q] = headVersions[q]
              /\ payPc'[c] = payPc[c] /\ payStage'[c] = payStage[c] /\ payHeads'[c] = payHeads[c]
              /\ tried'[c] = tried[c] /\ payWon'[c] = payWon[c]
              /\ queue[c][s] # <<>> /\ queue'[c][s] = Tail(queue[c][s])
              /\ \A t \in Servers \ {s} : queue'[c][t] = queue[c][t]
              /\ \A q \in Refs : Awaits(queue'[c][s], "head", q) <=> Awaits(queue[c][s], "head", q)
              /\ \A q \in Refs : ~Awaits(queue'[c][s], "headRow", q)
              /\ \A q \in Refs : Awaits(queue[c][s], "headRow", q) <=> q = r
<1> DEFINE p == queue[c][s]
           r == Head(p).row
<1>1. Execute(c, s, "headRow")
    BY DEF ExecuteHeadRow
<1>2. /\ SameClient(c) /\ historyServer' = historyServer
      /\ \A d \in Clients \ {c} : SameClient(d) /\ queue'[d] = queue[d]
      /\ UNCHANGED <<payPc, payStage, payHeads, tried>>
      /\ p \in Seq(RequestType) /\ p # <<>> /\ WellQueued(p, s)
      /\ Head(p) \in RequestType /\ Head(p).op = "headRow" /\ ServerOf[r] = s
      /\ queue'[c][s] = Tail(p)
      /\ \A t \in Servers \ {s} : queue'[c][t] = queue[c][t]
    BY <1>1, ExecuteEffect
<1>3. /\ headVersions' = [headVersions EXCEPT ![r] = WithRow(@, payHeads[c][r].ytd)]
      /\ UNCHANGED payWon
    BY DEF ExecuteHeadRow
<1>4. r \in Refs
    BY <1>2 DEF RequestType
<1>5. /\ \A op, q : Awaits(p, op, q) <=> ((Head(p).op = op /\ r = q) \/ Awaits(Tail(p), op, q))
      /\ \A q : ~Awaits(Tail(p), "headRow", q)
    BY <1>2, AwaitsTail, WellTail
<1> HIDE DEF p, r
<1>t. headVersions \in [Records -> VersionType] /\ \A q \in Refs : q \in Records
    BY PayRows DEF PayTypeOK, TypeOK
<1>6. /\ headVersions'[r].ts = headVersions[r].ts
      /\ headVersions'[r].ytd = payHeads[c][r].ytd
      /\ \A q \in Refs \ {r} : headVersions'[q] = headVersions[q]
    BY <1>t, <1>3, <1>4 DEF WithRow
<1>8. ActsAlone(c)
    BY <1>2, <1>3 DEF ActsAlone, SamePayment
<1>9. /\ Awaits(p, "headRow", r)
      /\ \A q \in Refs : Awaits(queue'[c][s], "head", q) <=> Awaits(p, "head", q)
      /\ \A q \in Refs : ~Awaits(queue'[c][s], "headRow", q)
      /\ \A q \in Refs : Awaits(p, "headRow", q) <=> q = r
    BY <1>2, <1>5
<1> WITNESS r \in Refs
<1> QED
    BY <1>2, <1>3, <1>6, <1>8, <1>9 DEF p

-----------------------------------------------------------------------------
(***************************************************************************)
(* Commit timestamps and vectors.                                          *)
(***************************************************************************)

\* A step of Payment by client c, or of its network card.
PayAct(c) == PayStart(c) \/ PayStep(c) \/ \E s \in Servers : ExecuteRequest(c, s)

Numbers ==
    /\ FallbackInRange
    /\ EpochInv
    /\ VectorInv
    /\ PayEpochInv
    /\ PayVectorInv

\* Payment leaves the reader's copy and New-Order's own state alone.
LEMMA PayFrame ==
    ASSUME NEW c \in Clients, PayAct(c)
    PROVE  UNCHANGED <<readerVector, pc, stage, lists>>
<1> USE DEF oracleVars, vars
<1>1. CASE PayStart(c)
    BY <1>1 DEF PayStart
<1>2. CASE PayStep(c)
    BY <1>2 DEF PayStep, PayReadTimestamp, PayRetrieveTimestamp, PayRetrieveRow, PayRetrievePointerList,
       Reading, LookupFails, PayCheckVersionsAbort, PayAcquireCommitTimestamp, PayLock, Locking,
       PayRevertLock, PayLocksRefused, PayLockAbort, PayLocksAcquired, AppendOldVersions,
       SetNewTimestamp, PostUpdate, Updating, InsertIntoHistory, PaySubmitResult, Submitting
<1>3. ASSUME NEW s \in Servers, ExecuteRequest(c, s) PROVE UNCHANGED <<readerVector, pc, stage, lists>>
    BY <1>3 DEF ExecuteRequest, Execute, ExecutePointers, ExecuteOlder, ExecuteHead, ExecuteHeadRow,
       ExecuteHistory
<1> QED
    BY <1>1, <1>2, <1>3 DEF PayAct

\* Steps that neither draw, nor copy, nor announce.
Unnumbered ==
    \A d \in Clients :
        /\ SameClient(d)
        /\ payPc'[d] \in {"snapshot", "read"} =>
              payPc[d] \in {"snapshot", "read"} \/ nextEpoch[d] <= MaxEpoch[d]
        /\ Paying(d)' => Paying(d)
        /\ payPc'[d] \in {"append", "update", "submit"} => payPc[d] \in {"append", "update", "submit"}

LEMMA UnnumberedStep ==
    ASSUME Numbers, UNCHANGED <<readerVector, pc, stage, lists>>, Unnumbered
    PROVE  Numbers'
<1>1. FallbackInRange'
    BY DEF Numbers, FallbackInRange, Unnumbered, SameClient, ValidIndex
<1>2. EpochInv' /\ VectorInv'
    BY DEF Numbers, EpochInv, VectorInv, Unnumbered, SameClient
<1>3. PayEpochInv' /\ PayVectorInv'
    BY DEF Numbers, PayEpochInv, PayVectorInv, Unnumbered, SameClient
<1> QED
    BY <1>1, <1>2, <1>3 DEF Numbers

\* The steps of Payment that are such.
LEMMA UnnumberedSteps ==
    ASSUME PayTypeOK, QueueInv, NEW c \in Clients, PayAct(c)
    PROVE  \/ Unnumbered
           \/ \E e \in Clients : PayReadTimestamp(c, e)
           \/ PayAcquireCommitTimestamp(c) \/ PayLocksAcquired(c) \/ PaySubmitResult(c)
<1>1. ASSUME ActsAlone(c), SameClient(c),
             payPc'[c] = "snapshot" => nextEpoch[c] <= MaxEpoch[c],
             payPc'[c] = "read" => payPc[c] = "read",
             Paying(c)' => Paying(c),
             payPc'[c] \in {"append", "update", "submit"} => payPc[c] \in {"append", "update", "submit"}
      PROVE  Unnumbered
    BY <1>1 DEF Unnumbered, ActsAlone, SamePayment, Paying
<1>2. ASSUME ActsAlone(c), SameClient(c), payPc'[c] = payPc[c] PROVE Unnumbered
    BY <1>2 DEF Unnumbered, ActsAlone, SamePayment, Paying
<1> USE DEF Paying
<1>3. CASE PayStart(c)
    BY <1>1, <1>3, PhaseEffect DEF MovesPhase
<1>4. CASE LookupFails(c) \/ PayCheckVersionsAbort(c) \/ PayLocksRefused(c) \/ PayLockAbort(c)
    BY <1>1, <1>4, PhaseEffect DEF MovesPhase
<1>5. ASSUME NEW r \in Refs, PayRetrievePointerList(c, r) PROVE Unnumbered
    BY <1>2, <1>5, PhaseEffect DEF MovesPhase
<1>6. ASSUME NEW r \in Refs, PayRetrieveTimestamp(c, r) \/ PayRetrieveRow(c, r) PROVE Unnumbered
    BY <1>2, <1>6, PayRetrieveEffect
<1>7. ASSUME NEW r \in Refs, PayLock(c, r) PROVE Unnumbered
    BY <1>2, <1>7, PayLockEffect
<1>8. ASSUME NEW r \in Refs, PayRevertLock(c, r) PROVE Unnumbered
    BY <1>2, <1>8, PayRevertLockEffect
<1>9. CASE AppendOldVersions(c)
    BY <1>1, <1>9, AppendOldVersionsEffect
<1>10. ASSUME NEW r \in Refs, SetNewTimestamp(c, r) PROVE Unnumbered
    BY <1>2, <1>10, SetNewTimestampEffect
<1>11. ASSUME NEW r \in Refs, PostUpdate(c, r) PROVE Unnumbered
    BY <1>2, <1>11, PostUpdateEffect
<1>12. CASE InsertIntoHistory(c)
    BY <1>1, <1>12, InsertIntoHistoryEffect
<1>13. ASSUME NEW s \in Servers, ExecuteRequest(c, s) PROVE Unnumbered
    <2>1. CASE ExecutePointers(c, s) \/ ExecuteOlder(c, s) \/ ExecuteHistory(c, s)
        BY <1>2, <2>1, ExecuteOtherEffect
    <2>2. CASE ExecuteHead(c, s)
        BY <1>2, <2>2, ExecuteHeadEffect
    <2>3. CASE ExecuteHeadRow(c, s)
        BY <1>2, <2>3, ExecuteHeadRowEffect
    <2> QED
        BY <1>13, <2>1, <2>2, <2>3 DEF ExecuteRequest
<1> QED
    BY <1>3, <1>4, <1>5, <1>6, <1>7, <1>8, <1>9, <1>10, <1>11, <1>12, <1>13 DEF PayAct, PayStep

\* Payment draws as New-Order does.
LEMMA PayDrawIsLarger ==
    ASSUME PayTypeOK, EpochInv, PayEpochInv, NEW c \in Clients, PayAcquireCommitTimestamp(c)
    PROVE  /\ cts'[c] = Drawn(nextEpoch[c], c) /\ nextEpoch'[c] = nextEpoch[c] + 1
           /\ cts'[c] \in Nat /\ cts[c] < cts'[c] /\ cts'[c] < Drawn(nextEpoch'[c], c)
<1>1. nextEpoch[c] \in Nat /\ cts[c] < Drawn(nextEpoch[c], c)
    BY DEF PayTypeOK, TypeOK, EpochInv
<1>2. cts'[c] = CommitTimestamp(nextEpoch[c], c) /\ nextEpoch'[c] = nextEpoch[c] + 1 /\ payPc[c] = "read"
    BY PayAcquireCommitTimestampEffect
<1>3. nextEpoch[c] <= MaxEpoch[c]
    BY <1>2 DEF PayEpochInv
<1> QED
    BY <1>1, <1>2, <1>3, DrawnGrows

LEMMA PayNumbersStep ==
    ASSUME PayTypeOK, QueueInv, Numbers, NEW c \in Clients, PayAct(c)
    PROVE  Numbers'
<1>f. UNCHANGED <<readerVector, pc, stage, lists>>
    BY PayFrame
<1>t. /\ cts \in [Clients -> Nat] /\ lastCommittedVector \in [Clients -> Nat]
      /\ localVector \in [Clients -> [Clients -> Nat]] /\ readerVector \in [Clients -> Nat]
      /\ \A d \in Clients : payPc[d] # "idle" => pc[d] = "idle"
    BY DEF PayTypeOK, TypeOK
<1>1. CASE Unnumbered
    BY <1>f, <1>1, UnnumberedStep
<1>2. ASSUME payPc[c] # "idle", \A d \in Clients \ {c} : localVector'[d] = localVector[d]
      PROVE  FallbackInRange'
    <2>1. \A d \in Clients : pc[d] = "recheck" => localVector'[d] = localVector[d]
        BY <1>t, <1>2
    <2> QED
        BY <1>f, <2>1 DEF Numbers, FallbackInRange, ValidIndex
<1>3. ASSUME NEW e \in Clients, PayReadTimestamp(c, e) PROVE Numbers'
    <2>1. /\ ActsAlone(c) /\ payPc[c] = "snapshot" /\ payPc'[c] \in {"snapshot", "read"}
          /\ localVector'[c][e] = readerVector[e]
          /\ \A d \in Clients \ {e} : localVector'[c][d] = localVector[c][d]
          /\ UNCHANGED <<cts, nextEpoch, lastCommittedVector>>
        BY <1>3, PayReadTimestampEffect
    <2>2. \A d \in Clients \ {c} : localVector'[d] = localVector[d] /\ payPc'[d] = payPc[d]
        BY <2>1 DEF ActsAlone, SamePayment, SameClient
    <2>3. EpochInv'
        BY <1>f, <2>1 DEF Numbers, EpochInv
    <2>4. VectorInv'
        BY <1>f, <1>t, <2>1, <2>2 DEF Numbers, VectorInv
    <2>5. PayEpochInv' /\ PayVectorInv'
        BY <2>1, <2>2 DEF Numbers, PayEpochInv, PayVectorInv, Paying
    <2> QED
        BY <1>2, <2>1, <2>2, <2>3, <2>4, <2>5 DEF Numbers
<1>4. CASE PayAcquireCommitTimestamp(c)
    <2>1. /\ ActsAlone(c) /\ payPc[c] = "read" /\ payPc'[c] = "lock"
          /\ \A d \in Clients \ {c} : cts'[d] = cts[d] /\ nextEpoch'[d] = nextEpoch[d]
          /\ UNCHANGED <<localVector, lastCommittedVector>>
        BY <1>4, PayAcquireCommitTimestampEffect
    <2>2. cts'[c] \in Nat /\ cts[c] < cts'[c] /\ cts'[c] < Drawn(nextEpoch'[c], c)
        BY <1>4, PayDrawIsLarger DEF Numbers
    <2>3. \A d \in Clients \ {c} : payPc'[d] = payPc[d]
        BY <2>1 DEF ActsAlone, SamePayment
    <2>4. pc[c] = "idle"
        BY <1>t, <2>1
    <2>5. EpochInv'
        BY <1>f, <2>1, <2>2, <2>4 DEF Numbers, EpochInv
    <2>6. VectorInv'
        BY <1>f, <1>t, <2>1, <2>2, <2>4 DEF Numbers, VectorInv
    <2>7. PayEpochInv'
        BY <2>1, <2>3 DEF Numbers, PayEpochInv
    <2>8. lastCommittedVector'[c] < cts'[c]
        BY <1>t, <2>1, <2>2 DEF Numbers, VectorInv
    <2>9. PayVectorInv'
        BY <2>1, <2>3, <2>8 DEF Numbers, PayVectorInv, Paying
    <2> QED
        BY <1>2, <2>1, <2>5, <2>6, <2>7, <2>9 DEF Numbers
<1>5. CASE PayLocksAcquired(c)
    <2>1. /\ ActsAlone(c) /\ payPc[c] = "lock" /\ payPc'[c] = "append"
          /\ localVector'[c][c] = cts[c]
          /\ \A d \in Clients \ {c} : localVector'[c][d] = localVector[c][d]
          /\ UNCHANGED <<cts, nextEpoch, lastCommittedVector>>
        BY <1>5, PayLocksAcquiredEffect
    <2>2. \A d \in Clients \ {c} : localVector'[d] = localVector[d] /\ payPc'[d] = payPc[d]
        BY <2>1 DEF ActsAlone, SamePayment, SameClient
    <2>3. EpochInv'
        BY <1>f, <2>1 DEF Numbers, EpochInv
    <2>4. VectorInv'
        BY <1>f, <1>t, <2>1, <2>2 DEF Numbers, VectorInv
    <2>5. PayEpochInv' /\ PayVectorInv'
        BY <2>1, <2>2 DEF Numbers, PayEpochInv, PayVectorInv, Paying
    <2> QED
        BY <1>2, <2>1, <2>2, <2>3, <2>4, <2>5 DEF Numbers
<1>6. CASE PaySubmitResult(c)
    <2>1. /\ ActsAlone(c) /\ payPc[c] = "submit" /\ payPc'[c] = "idle"
          /\ lastCommittedVector'[c] = localVector[c][c]
          /\ UNCHANGED <<localVector, cts, nextEpoch>>
        BY <1>6, PaySubmitResultEffect
    <2>2. \A d \in Clients \ {c} : lastCommittedVector'[d] = lastCommittedVector[d] /\ payPc'[d] = payPc[d]
        BY <2>1 DEF ActsAlone, SamePayment, SameClient
    <2>3. localVector[c][c] = cts[c] /\ lastCommittedVector[c] < cts[c] /\ pc[c] = "idle"
        BY <1>t, <2>1 DEF Numbers, PayVectorInv, Paying
    <2>4. EpochInv'
        BY <1>f, <2>1 DEF Numbers, EpochInv
    <2>5. VectorInv'
        BY <1>f, <1>t, <2>1, <2>2, <2>3 DEF Numbers, VectorInv
    <2>6. PayEpochInv' /\ PayVectorInv'
        BY <2>1, <2>2 DEF Numbers, PayEpochInv, PayVectorInv, Paying
    <2> QED
        BY <1>2, <2>1, <2>4, <2>5, <2>6 DEF Numbers
<1> QED
    BY <1>1, <1>3, <1>4, <1>5, <1>6, UnnumberedSteps

\* Steps of New-Order and of the reader.
LEMMA OrderNumbersStep ==
    ASSUME PayTypeOK, Numbers, OrderPart
    PROVE  PayTypeOK' /\ Numbers'
<1>1. OrderFrame /\ [Next]_vars
    BY OrderFramed DEF Numbers
<1>2. TypeOK /\ TypeInv /\ EpochInv /\ VectorInv /\ FallbackInRange
    BY DEF PayTypeOK, TypeInv, Numbers
<1>3. TypeOK' /\ EpochInv' /\ VectorInv' /\ FallbackInRange'
    BY <1>1, <1>2, TypeStep, EpochStep, VectorStep, FallbackStep
<1>4. UNCHANGED payVars
    BY <1>1 DEF OrderFrame
<1>5. PayEpochInv' /\ PayVectorInv'
    BY <1>1, <1>4 DEF Numbers, PayEpochInv, PayVectorInv, Paying, OrderFrame, SameClient, payVars
<1>6. \A d \in Clients : payPc'[d] # "idle" => pc'[d] = "idle"
    BY <1>1, <1>4 DEF PayTypeOK, OrderFrame, SameClient, payVars
<1>7. PayTypeOK'
    BY <1>3, <1>4, <1>6 DEF PayTypeOK, payVars, bufferVars
<1> QED
    BY <1>3, <1>5, <1>7 DEF Numbers

-----------------------------------------------------------------------------
(***************************************************************************)
(* Queues, locks and their owners.                                         *)
(***************************************************************************)

Owners == QueueInv /\ OwnerInv /\ PayOwnedInv

\* Two clients never own one row.
LEMMA OneOwner ==
    ASSUME OwnerInv, NEW c \in Clients, NEW d \in Clients, NEW r \in Refs,
           r \in payWon[c], r \in payWon[d]
    PROVE  c = d
BY DEF OwnerInv, OwnerAt, WonAt

\* A drained queue pair holds no request.
LEMMA DrainedQueue ==
    ASSUME NEW c \in Clients, NEW r \in Refs, Drained(c, r)
    PROVE  ~UnlockPending(c, r)
BY AwaitsParts DEF Drained, UnlockPending

\* The locks of a client whose state, and whose rows, are as they were.
LEMMA OwnerStays ==
    ASSUME NEW d \in Clients, NEW r \in Refs, OwnerAt(d, r),
           payPc'[d] = payPc[d], payStage'[d] = payStage[d], payHeads'[d] = payHeads[d],
           tried'[d] = tried[d], payWon'[d] = payWon[d], queue'[d] = queue[d],
           payPc[d] # "idle" => localVector'[d] = localVector[d],
           r \in payWon[d] => headVersions'[r].ts = headVersions[r].ts
    PROVE  OwnerAt(d, r)'
<1>1. /\ UnlockPending(d, r)' <=> UnlockPending(d, r)
      /\ Drained(d, r)' <=> Drained(d, r)
      /\ ToPost(d, r)' <=> ToPost(d, r)
    BY DEF UnlockPending, Drained, ToPost
<1>2. payPc[d] \in {"lock", "revert", "append"} => (PayAccessible(d, r)' <=> PayAccessible(d, r))
    BY DEF PayAccessible
<1>3. DrainedAt(d, r)' /\ CheckedPayment(d, r)' /\ UnlocksAt(d, r)'
    BY <1>1, <1>2 DEF OwnerAt, DrainedAt, CheckedPayment, UnlocksAt
<1>4. WonAt(d, r)' /\ OwnsAt(d, r)'
    BY <1>1 DEF OwnerAt, WonAt, OwnsAt, WillUnlock
<1> QED
    BY <1>3, <1>4 DEF OwnerAt

\* It is enough to look at the client that acts.
LEMMA OwnersAlone ==
    ASSUME Owners, NEW c \in Clients, ActsAlone(c),
           \A s \in Servers : WellQueued(queue'[c][s], s),
           \A r \in Refs : OwnerAt(c, r)',
           \A d \in Clients \ {c}, r \in Refs :
               r \in payWon[d] => headVersions'[r].ts = headVersions[r].ts
    PROVE  QueueInv' /\ OwnerInv'
<1>1. QueueInv'
    BY DEF Owners, QueueInv, ActsAlone, SamePayment
<1>2. ASSUME NEW d \in Clients \ {c}, NEW r \in Refs PROVE OwnerAt(d, r)'
    <2>1. OwnerAt(d, r)
        BY DEF Owners, OwnerInv
    <2> QED
        BY <2>1, OwnerStays DEF ActsAlone, SamePayment, SameClient
<1> QED
    BY <1>1, <1>2 DEF OwnerInv

LEMMA OwnersKept ==
    ASSUME Owners, NEW c \in Clients, ActsAlone(c),
           \A s \in Servers : WellQueued(queue'[c][s], s),
           \A r \in Refs : OwnerAt(c, r)' /\ headVersions'[r].ts = headVersions[r].ts,
           payWon'[c] = payWon[c]
    PROVE  Owners'
<1>1. QueueInv' /\ OwnerInv'
    BY OwnersAlone
<1>2. \A d \in Clients : payWon'[d] = payWon[d]
    BY DEF ActsAlone, SamePayment
<1>3. PayOwnedInv'
    BY <1>2 DEF Owners, PayOwnedInv
<1> QED
    BY <1>1, <1>3 DEF Owners

\* Steps that post nothing.
LEMMA OwnersUnposted ==
    ASSUME Owners, NEW c \in Clients, ActsAlone(c), queue'[c] = queue[c],
           \A r \in Refs : OwnerAt(c, r)' /\ headVersions'[r].ts = headVersions[r].ts,
           payWon'[c] = payWon[c]
    PROVE  Owners'
BY OwnersKept DEF Owners, QueueInv

\* What the steps that post nothing keep of client c.
LEMMA QueueSame ==
    ASSUME NEW c \in Clients, queue'[c] = queue[c]
    PROVE  \A r \in Refs : /\ UnlockPending(c, r)' <=> UnlockPending(c, r)
                           /\ Drained(c, r)' <=> Drained(c, r)
BY DEF UnlockPending, Drained

\* The steps that only move a client's phase, or read.
LEMMA PhaseOwners ==
    ASSUME PayTypeOK, Owners, NEW c \in Clients,
           \/ PayStart(c) \/ LookupFails(c) \/ PayCheckVersionsAbort(c) \/ PayLocksRefused(c)
           \/ PayLockAbort(c) \/ \E r \in Refs : PayRetrievePointerList(c, r)
    PROVE  Owners'
<1>t. payStage[c] \in 0 .. 9
    BY DEF PayTypeOK
<1>1. /\ ActsAlone(c) /\ MovesPhase(c)
      /\ \/ payPc[c] = "idle" /\ payPc'[c] = "snapshot"
         \/ payPc[c] = "read" /\ payPc'[c] = "idle"
         \/ payPc[c] = "lock" /\ payPc'[c] = "revert"
         \/ payPc[c] = "revert" /\ payPc'[c] = "idle" /\ payWon[c] = {}
         \/ /\ payPc[c] = "read" /\ payPc'[c] = "read"
            /\ \E r \in Refs : payStage[c] = 3 * (Place(r) - 1) + 2 /\ payStage'[c] = payStage[c] + 1
    BY PhaseEffect
<1>2. /\ SameClient(c) /\ payHeads'[c] = payHeads[c] /\ tried'[c] = tried[c]
      /\ payWon'[c] = payWon[c] /\ queue'[c] = queue[c]
      /\ \A r \in Refs : headVersions'[r].ts = headVersions[r].ts
    BY <1>1 DEF MovesPhase, RowsKept
<1>3. ASSUME NEW r \in Refs PROVE OwnerAt(c, r)'
    <2>1. OwnerAt(c, r)
        BY DEF Owners, OwnerInv
    <2>2. /\ UnlockPending(c, r)' <=> UnlockPending(c, r)
          /\ Drained(c, r)' <=> Drained(c, r)
          /\ PayAccessible(c, r)' <=> PayAccessible(c, r)
        BY <1>2, QueueSame DEF PayAccessible, SameClient
    <2>3. ~ToPost(c, r) /\ ~ToPost(c, r)'
        BY <1>1 DEF ToPost
    <2>4. DrainedAt(c, r)'
        <3>1. CASE payPc'[c] # "read"
            BY <1>1, <2>1, <2>2, <3>1 DEF OwnerAt, DrainedAt
        <3>2. CASE payPc'[c] = "read"
            <4>1. PICK q \in Refs : payStage[c] = 3 * (Place(q) - 1) + 2 /\ payStage'[c] = payStage[c] + 1
                BY <1>1, <3>2
            <4>2. payPc[c] = "read"
                BY <1>1, <3>2
            <4>3. payStage'[c] > 3 * (Place(r) - 1) => payStage[c] > 3 * (Place(r) - 1)
                BY <1>t, <4>1, Places
            <4> QED
                BY <2>1, <2>2, <3>2, <4>2, <4>3 DEF OwnerAt, DrainedAt
        <3> QED
            BY <3>1, <3>2
    <2>5. CheckedPayment(c, r)' /\ UnlocksAt(c, r)'
        BY <1>1, <1>2, <2>1, <2>2 DEF OwnerAt, CheckedPayment, UnlocksAt
    <2>6. WonAt(c, r)' /\ OwnsAt(c, r)'
        BY <1>1, <1>2, <2>1, <2>2, <2>3 DEF OwnerAt, WonAt, OwnsAt, WillUnlock
    <2> QED
        BY <2>4, <2>5, <2>6 DEF OwnerAt
<1> QED
    BY <1>1, <1>2, <1>3, OwnersUnposted

LEMMA ReadTimestampOwners ==
    ASSUME PayTypeOK, Owners, NEW c \in Clients, NEW e \in Clients, PayReadTimestamp(c, e)
    PROVE  Owners'
<1>1. /\ ActsAlone(c) /\ payPc[c] = "snapshot"
      /\ payPc'[c] = "snapshot" \/ (payPc'[c] = "read" /\ payStage'[c] = 0)
      /\ payHeads'[c] = payHeads[c] /\ payWon'[c] = payWon[c] /\ queue'[c] = queue[c]
      /\ \A r \in Refs : headVersions'[r].ts = headVersions[r].ts
    BY PayReadTimestampEffect DEF RowsKept
<1>3. ASSUME NEW r \in Refs PROVE OwnerAt(c, r)'
    <2>1. OwnerAt(c, r) /\ ~(0 > 3 * (Place(r) - 1))
        BY Places DEF Owners, OwnerInv
    <2>2. UnlockPending(c, r)' <=> UnlockPending(c, r)
        BY <1>1, QueueSame
    <2>3. ~ToPost(c, r) /\ ~ToPost(c, r)'
        BY <1>1 DEF ToPost
    <2> QED
        BY <1>1, <2>1, <2>2, <2>3
        DEF OwnerAt, DrainedAt, CheckedPayment, UnlocksAt, WonAt, OwnsAt, WillUnlock
<1> QED
    BY <1>1, <1>3, OwnersUnposted

LEMMA RetrieveOwners ==
    ASSUME PayTypeOK, Owners, NEW c \in Clients, NEW r \in Refs,
           PayRetrieveTimestamp(c, r) \/ PayRetrieveRow(c, r)
    PROVE  Owners'
<1>t. payStage[c] \in 0 .. 9
    BY DEF PayTypeOK
<1>1. /\ ActsAlone(c) /\ payPc[c] = "read" /\ payPc'[c] = "read" /\ Drained(c, r)
      /\ payStage[c] = 3 * (Place(r) - 1) \/ payStage[c] = 3 * (Place(r) - 1) + 1
      /\ payStage'[c] = payStage[c] + 1
      /\ \A q \in Refs \ {r} : payHeads'[c][q] = payHeads[c][q]
      /\ payWon'[c] = payWon[c] /\ queue'[c] = queue[c]
      /\ \A q \in Refs : headVersions'[q].ts = headVersions[q].ts
    BY PayRetrieveEffect DEF RowsKept
<1>3. ASSUME NEW q \in Refs PROVE OwnerAt(c, q)'
    <2>1. OwnerAt(c, q)
        BY DEF Owners, OwnerInv
    <2>2. /\ UnlockPending(c, q)' <=> UnlockPending(c, q)
          /\ Drained(c, q)' <=> Drained(c, q)
        BY <1>1, QueueSame
    <2>3. ~ToPost(c, q) /\ ~ToPost(c, q)'
        BY <1>1 DEF ToPost
    <2>4. DrainedAt(c, q)'
        <3>1. CASE q = r
            BY <1>1, <2>2, <3>1 DEF DrainedAt
        <3>2. CASE q # r
            <4>1. payStage'[c] > 3 * (Place(q) - 1) => payStage[c] > 3 * (Place(q) - 1)
                BY <1>t, <1>1, <3>2, Places
            <4> QED
                BY <1>1, <2>1, <2>2, <4>1 DEF OwnerAt, DrainedAt
        <3> QED
            BY <3>1, <3>2
    <2>5. UnlocksAt(c, q)'
        <3>1. CASE q = r
            BY <1>1, <2>2, <3>1, DrainedQueue DEF UnlocksAt
        <3>2. CASE q # r
            BY <1>1, <2>1, <2>2, <3>2 DEF OwnerAt, UnlocksAt
        <3> QED
            BY <3>1, <3>2
    <2> QED
        BY <1>1, <2>1, <2>2, <2>3, <2>4, <2>5
        DEF OwnerAt, CheckedPayment, WonAt, OwnsAt, WillUnlock
<1> QED
    BY <1>1, <1>3, OwnersUnposted

\* A payment that draws has read everything, and owns nothing.
LEMMA AcquireOwners ==
    ASSUME PayTypeOK, Owners, NEW c \in Clients, PayAcquireCommitTimestamp(c)
    PROVE  Owners'
<1>1. /\ ActsAlone(c) /\ payPc[c] = "read" /\ payPc'[c] = "lock" /\ payStage[c] = 9
      /\ \A r \in Refs : PayAccessible(c, r)
      /\ payHeads'[c] = payHeads[c] /\ payWon'[c] = payWon[c] /\ queue'[c] = queue[c]
      /\ UNCHANGED localVector
      /\ \A r \in Refs : headVersions'[r].ts = headVersions[r].ts
    BY PayAcquireCommitTimestampEffect DEF RowsKept
<1>3. ASSUME NEW r \in Refs PROVE OwnerAt(c, r)'
    <2>1. OwnerAt(c, r) /\ 9 > 3 * (Place(r) - 1)
        BY Places DEF Owners, OwnerInv
    <2>2. /\ UnlockPending(c, r)' <=> UnlockPending(c, r)
          /\ Drained(c, r)' <=> Drained(c, r)
          /\ PayAccessible(c, r)'
        BY <1>1, QueueSame DEF PayAccessible
    <2>3. ~ToPost(c, r) /\ ~ToPost(c, r)'
        BY <1>1 DEF ToPost
    <2>4. Drained(c, r)
        BY <1>1, <2>1 DEF OwnerAt, DrainedAt
    <2>5. ~UnlockPending(c, r)
        BY <2>4, DrainedQueue
    <2>6. r \notin payWon[c]
        BY <1>1, <2>1, <2>3, <2>5 DEF OwnerAt, WonAt, WillUnlock
    <2>7. ~payHeads[c][r].ts.locked
        BY <1>1 DEF PayAccessible, isRecordAccessible
    <2> QED
        BY <1>1, <2>2, <2>3, <2>4, <2>5, <2>6, <2>7
        DEF OwnerAt, DrainedAt, CheckedPayment, UnlocksAt, WonAt, OwnsAt
<1> QED
    BY <1>1, <1>3, OwnersUnposted

\* A lock succeeds on an unlocked row only, which nobody owns.
LEMMA LockOwners ==
    ASSUME PayTypeOK, Owners, NEW c \in Clients, NEW r \in Refs, PayLock(c, r)
    PROVE  Owners'
<1>1. /\ ActsAlone(c) /\ SameClient(c)
      /\ payPc[c] = "lock" /\ payPc'[c] = "lock"
      /\ tried'[c] = tried[c] \cup {r}
      /\ payHeads'[c] = payHeads[c] /\ queue'[c] = queue[c]
      /\ \A q \in Refs \ {r} : headVersions'[q] = headVersions[q]
      /\ \/ /\ headVersions[r].ts = payHeads[c][r].ts
            /\ headVersions'[r].ts = PayLockTimestamp(c, r)
            /\ payWon'[c] = payWon[c] \cup {r}
         \/ headVersions'[r] = headVersions[r] /\ payWon'[c] = payWon[c]
    BY PayLockEffect
<1>2. PayLockTimestamp(c, r).locked /\ PayLockTimestamp(c, r).clientID = c
    BY DEF PayLockTimestamp, Timestamp
<1>3. ASSUME NEW q \in Refs PROVE OwnerAt(c, q)'
    <2>1. OwnerAt(c, q)
        BY DEF Owners, OwnerInv
    <2>2. /\ UnlockPending(c, q)' <=> UnlockPending(c, q)
          /\ Drained(c, q)' <=> Drained(c, q)
          /\ PayAccessible(c, q)' <=> PayAccessible(c, q)
        BY <1>1, QueueSame DEF PayAccessible, SameClient
    <2>3. ~ToPost(c, q) /\ ~ToPost(c, q)'
        BY <1>1 DEF ToPost
    <2>4. DrainedAt(c, q)' /\ CheckedPayment(c, q)' /\ UnlocksAt(c, q)'
        BY <1>1, <2>1, <2>2 DEF OwnerAt, DrainedAt, CheckedPayment, UnlocksAt
    <2>5. WonAt(c, q)'
        BY <1>1, <1>2, <2>1 DEF OwnerAt, WonAt, WillUnlock
    <2>6. OwnsAt(c, q)'
        BY <1>1, <2>1, <2>2, <2>3 DEF OwnerAt, OwnsAt
    <2> QED
        BY <2>4, <2>5, <2>6 DEF OwnerAt
<1>4. ASSUME NEW d \in Clients \ {c}, NEW q \in Refs, q \in payWon[d]
      PROVE  headVersions'[q].ts = headVersions[q].ts
    <2>1. ~payHeads[c][q].ts.locked
        BY <1>1 DEF Owners, OwnerInv, OwnerAt, UnlocksAt
    <2>2. headVersions[q].ts.locked
        BY <1>4 DEF Owners, OwnerInv, OwnerAt, WonAt
    <2> QED
        BY <1>1, <2>1, <2>2
<1>5. QueueInv' /\ OwnerInv'
    BY <1>1, <1>3, <1>4, OwnersAlone DEF Owners, QueueInv
<1>6. \A d \in Clients : payWon[d] \subseteq payWon'[d]
    BY <1>1 DEF ActsAlone, SamePayment
<1>7. PayOwnedInv'
    BY <1>1, <1>6 DEF Owners, PayOwnedInv
<1> QED
    BY <1>5, <1>7 DEF Owners

LEMMA RevertOwners ==
    ASSUME PayTypeOK, Owners, NEW c \in Clients, NEW r \in Refs, PayRevertLock(c, r)
    PROVE  Owners'
<1>1. /\ ActsAlone(c) /\ SameClient(c)
      /\ payPc[c] = "revert" /\ payPc'[c] = "revert"
      /\ r \in payWon[c] /\ payWon'[c] = payWon[c] \ {r}
      /\ tried'[c] = tried[c] /\ payHeads'[c] = payHeads[c] /\ queue'[c] = queue[c]
      /\ headVersions'[r].ts = payHeads[c][r].ts
      /\ \A q \in Refs \ {r} : headVersions'[q] = headVersions[q]
    BY PayRevertLockEffect
<1>2. ~payHeads[c][r].ts.locked
    BY <1>1 DEF Owners, OwnerInv, OwnerAt, UnlocksAt
<1>3. ASSUME NEW q \in Refs PROVE OwnerAt(c, q)'
    <2>1. OwnerAt(c, q)
        BY DEF Owners, OwnerInv
    <2>2. /\ UnlockPending(c, q)' <=> UnlockPending(c, q)
          /\ Drained(c, q)' <=> Drained(c, q)
          /\ PayAccessible(c, q)' <=> PayAccessible(c, q)
        BY <1>1, QueueSame DEF PayAccessible, SameClient
    <2>3. ~ToPost(c, q) /\ ~ToPost(c, q)'
        BY <1>1 DEF ToPost
    <2>4. DrainedAt(c, q)' /\ CheckedPayment(c, q)' /\ UnlocksAt(c, q)'
        BY <1>1, <2>1, <2>2 DEF OwnerAt, DrainedAt, CheckedPayment, UnlocksAt
    <2>5. WonAt(c, q)'
        BY <1>1, <2>1 DEF OwnerAt, WonAt, WillUnlock
    <2>6. ~UnlockPending(c, q)
        BY <1>1, <2>1, DrainedQueue DEF OwnerAt, DrainedAt
    <2>7. OwnsAt(c, q)'
        BY <1>1, <2>2, <2>3, <2>6 DEF OwnsAt
    <2> QED
        BY <2>4, <2>5, <2>7 DEF OwnerAt
<1>4. ASSUME NEW d \in Clients \ {c}, NEW q \in Refs, q \in payWon[d]
      PROVE  headVersions'[q].ts = headVersions[q].ts
    <2>1. q # r
        BY <1>1, <1>4, OneOwner DEF Owners
    <2> QED
        BY <1>1, <2>1
<1>5. QueueInv' /\ OwnerInv'
    BY <1>1, <1>3, <1>4, OwnersAlone DEF Owners, QueueInv
<1>6. \A d \in Clients : payWon'[d] = payWon[d] \/ payWon'[d] = payWon[d] \ {r}
    BY <1>1 DEF ActsAlone, SamePayment
<1>7. PayOwnedInv'
    BY <1>1, <1>2, <1>6 DEF Owners, PayOwnedInv
<1> QED
    BY <1>5, <1>7 DEF Owners

LEMMA LocksAcquiredOwners ==
    ASSUME PayTypeOK, Owners, NEW c \in Clients, PayLocksAcquired(c)
    PROVE  Owners'
<1>1. /\ ActsAlone(c) /\ payPc[c] = "lock" /\ payPc'[c] = "append" /\ payWon[c] = Refs
      /\ \A d \in Clients \ {c} : localVector'[c][d] = localVector[c][d]
      /\ payHeads'[c] = payHeads[c] /\ tried'[c] = tried[c]
      /\ payWon'[c] = payWon[c] /\ queue'[c] = queue[c]
      /\ \A r \in Refs : headVersions'[r].ts = headVersions[r].ts
    BY PayLocksAcquiredEffect DEF RowsKept
<1>3. ASSUME NEW r \in Refs PROVE OwnerAt(c, r)'
    <2>1. OwnerAt(c, r)
        BY DEF Owners, OwnerInv
    <2>2. /\ UnlockPending(c, r)' <=> UnlockPending(c, r)
          /\ Drained(c, r)' <=> Drained(c, r)
        BY <1>1, QueueSame
    <2>3. ~ToPost(c, r)'
        BY <1>1 DEF ToPost
    <2>4. PayAccessible(c, r)'
        <3>1. PayAccessible(c, r)
            BY <1>1, <2>1 DEF OwnerAt, CheckedPayment
        <3>2. payHeads[c][r].ts.clientID \in Clients
            BY BuffersTyped DEF TimestampType
        <3> QED
            BY <1>1, <3>1, <3>2 DEF PayAccessible, isRecordAccessible
    <2> QED
        BY <1>1, <2>1, <2>2, <2>3, <2>4
        DEF OwnerAt, DrainedAt, CheckedPayment, UnlocksAt, WonAt, OwnsAt, WillUnlock
<1> QED
    BY <1>1, <1>3, OwnersUnposted

\* The stages of the updates.
LEMMA UpdateStages ==
    ASSUME NEW c \in Clients, NEW r \in Refs, payPc[c] = "update", payPc'[c] = "update",
           payStage'[c] = payStage[c] + 1
    PROVE  /\ payStage[c] = 2 * (Place(r) - 1) =>
                 \A q \in Refs : ToPost(c, q)' <=> ToPost(c, q)
           /\ payStage[c] = 2 * (Place(r) - 1) + 1 =>
                 /\ ToPost(c, r) /\ ~ToPost(c, r)'
                 /\ \A q \in Refs \ {r} : ToPost(c, q)' <=> ToPost(c, q)
<1>1. ASSUME payStage[c] = 2 * (Place(r) - 1), NEW q \in Refs PROVE ToPost(c, q)' <=> ToPost(c, q)
    <2>1. payStage'[c] <= 2 * (Place(q) - 1) + 1 <=> payStage[c] <= 2 * (Place(q) - 1) + 1
        BY <1>1, Places
    <2> QED
        BY <2>1 DEF ToPost
<1>2. ASSUME payStage[c] = 2 * (Place(r) - 1) + 1 PROVE ToPost(c, r) /\ ~ToPost(c, r)'
    <2>1. payStage[c] <= 2 * (Place(r) - 1) + 1 /\ ~(payStage'[c] <= 2 * (Place(r) - 1) + 1)
        BY <1>2, Places
    <2> QED
        BY <2>1 DEF ToPost
<1>3. ASSUME payStage[c] = 2 * (Place(r) - 1) + 1, NEW q \in Refs \ {r}
      PROVE  ToPost(c, q)' <=> ToPost(c, q)
    <2>1. Place(q) # Place(r)
        BY Places
    <2>2. payStage'[c] <= 2 * (Place(q) - 1) + 1 <=> payStage[c] <= 2 * (Place(q) - 1) + 1
        BY <1>3, <2>1, Places
    <2> QED
        BY <2>2 DEF ToPost
<1> QED
    BY <1>1, <1>2, <1>3

LEMMA AppendOwners ==
    ASSUME PayTypeOK, Owners, NEW c \in Clients, AppendOldVersions(c)
    PROVE  Owners'
<1>1. /\ ActsAlone(c) /\ SameClient(c)
      /\ payPc[c] = "append" /\ payPc'[c] = "update" /\ payStage'[c] = 0
      /\ payHeads'[c] = payHeads[c] /\ payWon'[c] = payWon[c]
      /\ queue'[c] = WithOldVersions(c)
      /\ \A r \in Refs : headVersions'[r].ts = headVersions[r].ts
    BY AppendOldVersionsEffect DEF RowsKept
<1>2. \A s \in Servers : WellQueued(queue'[c][s], s)
    BY <1>1, OldVersionsPosted DEF Owners, QueueInv
<1>3. ASSUME NEW r \in Refs PROVE OwnerAt(c, r)'
    <2>1. OwnerAt(c, r) /\ 0 <= 2 * (Place(r) - 1) + 1
        BY Places DEF Owners, OwnerInv
    <2>2. UnlockPending(c, r)' <=> UnlockPending(c, r)
        BY <1>1, OldVersionsPosted, PayRows DEF UnlockPending
    <2>3. ~UnlockPending(c, r)
        BY <1>1, <2>1, DrainedQueue DEF OwnerAt, DrainedAt
    <2>4. ToPost(c, r)'
        BY <1>1, <2>1 DEF ToPost
    <2> QED
        BY <1>1, <2>1, <2>2, <2>3, <2>4
        DEF OwnerAt, DrainedAt, CheckedPayment, UnlocksAt, WonAt, OwnsAt, WillUnlock
<1> QED
    BY <1>1, <1>2, <1>3, OwnersKept

LEMMA SetNewTimestampOwners ==
    ASSUME PayTypeOK, Owners, NEW c \in Clients, NEW r \in Refs, SetNewTimestamp(c, r)
    PROVE  Owners'
<1>1. /\ ActsAlone(c) /\ payPc[c] = "update" /\ payPc'[c] = "update"
      /\ payStage[c] = 2 * (Place(r) - 1) /\ payStage'[c] = payStage[c] + 1
      /\ ~payHeads'[c][r].ts.locked
      /\ \A q \in Refs \ {r} : payHeads'[c][q] = payHeads[c][q]
      /\ tried'[c] = tried[c] /\ payWon'[c] = payWon[c] /\ queue'[c] = queue[c]
      /\ \A q \in Refs : headVersions'[q].ts = headVersions[q].ts
    BY SetNewTimestampEffect DEF RowsKept
<1>3. ASSUME NEW q \in Refs PROVE OwnerAt(c, q)'
    <2>1. OwnerAt(c, q)
        BY DEF Owners, OwnerInv
    <2>2. UnlockPending(c, q)' <=> UnlockPending(c, q)
        BY <1>1, QueueSame
    <2>3. ToPost(c, q)' <=> ToPost(c, q)
        BY <1>1, UpdateStages
    <2> QED
        BY <1>1, <2>1, <2>2, <2>3
        DEF OwnerAt, DrainedAt, CheckedPayment, UnlocksAt, WonAt, OwnsAt, WillUnlock
<1> QED
    BY <1>1, <1>3, OwnersUnposted

LEMMA PostUpdateOwners ==
    ASSUME PayTypeOK, Owners, NEW c \in Clients, NEW r \in Refs, PostUpdate(c, r)
    PROVE  Owners'
<1> DEFINE x == Request("head", r, 0)
           t == ServerOf[r]
<1>1. /\ ActsAlone(c) /\ payPc[c] = "update" /\ payPc'[c] = "update"
      /\ payStage[c] = 2 * (Place(r) - 1) + 1 /\ payStage'[c] = payStage[c] + 1
      /\ payHeads'[c][r].ts = payHeads[c][r].ts
      /\ \A q \in Refs \ {r} : payHeads'[c][q] = payHeads[c][q]
      /\ payWon'[c] = payWon[c]
      /\ \A q \in Refs : headVersions'[q].ts = headVersions[q].ts
    BY PostUpdateEffect DEF RowsKept
<1>q. /\ queue'[c][t] = queue[c][t] \o <<x>>
      /\ \A s \in Servers \ {t} : queue'[c][s] = queue[c][s]
    BY PostUpdateQueue
<1>2. /\ x \in RequestType /\ x.op = "head" /\ x.row = r
      /\ t \in Servers /\ queue[c][t] \in Seq(RequestType) /\ <<x>> \in Seq(RequestType)
    <2>1. x \in RequestType /\ x.op = "head" /\ x.row = r
        BY RequestTyped, ZeroOffset
    <2>2. t \in Servers
        BY PayRows
    <2>3. queue[c][t] \in Seq(RequestType)
        BY BuffersTyped
    <2> HIDE DEF x, t
    <2> QED
        BY <2>1, <2>2, <2>3
<1>3. ToPost(c, r)
    BY <1>1, UpdateStages
<1>4. ~UnlockPending(c, r) /\ r \in payWon[c]
    BY <1>3 DEF Owners, OwnerInv, OwnerAt, OwnsAt
<1>5. ~Awaits(queue[c][t], "head", r)
    BY <1>4 DEF UnlockPending
<1> HIDE DEF x
<1>6. WellQueued(queue[c][t] \o <<x>>, t)
    BY <1>2, <1>5, WellPost DEF Owners, QueueInv
<1>7. \A s \in Servers : WellQueued(queue'[c][s], s)
    BY <1>q, <1>6 DEF Owners, QueueInv
<1>8. ASSUME NEW q \in Refs PROVE UnlockPending(c, q)' <=> (q = r \/ UnlockPending(c, q))
    <2>1. Awaits(queue[c][t] \o <<x>>, "head", q) <=> (q = r \/ Awaits(queue[c][t], "head", q))
        BY <1>2, AwaitsPost
    <2>2. ServerOf[q] \in Servers
        BY PayRows
    <2>3. CASE ServerOf[q] = t
        BY <1>q, <2>1, <2>3 DEF UnlockPending
    <2>4. CASE ServerOf[q] # t
        <3>1. queue'[c][ServerOf[q]] = queue[c][ServerOf[q]] /\ q # r
            BY <1>q, <2>2, <2>4
        <3> QED
            BY <3>1 DEF UnlockPending
    <2> QED
        BY <2>3, <2>4
<1>9. ASSUME NEW q \in Refs PROVE OwnerAt(c, q)'
    <2>1. OwnerAt(c, q)
        BY DEF Owners, OwnerInv
    <2>2. /\ q = r => ~ToPost(c, q)'
          /\ q # r => (ToPost(c, q)' <=> ToPost(c, q))
        BY <1>1, UpdateStages
    <2>3. payHeads'[c][q].ts = payHeads[c][q].ts
        BY <1>1
    <2> QED
        BY <1>1, <1>4, <1>8, <2>1, <2>2, <2>3
        DEF OwnerAt, DrainedAt, CheckedPayment, UnlocksAt, WonAt, OwnsAt, WillUnlock
<1> QED
    BY <1>1, <1>7, <1>9, OwnersKept

LEMMA InsertIntoHistoryOwners ==
    ASSUME PayTypeOK, Owners, NEW c \in Clients, InsertIntoHistory(c)
    PROVE  Owners'
<1> DEFINE x == Request("history", Warehouse, 0)
           h == historyServer[c]
<1>1. /\ ActsAlone(c) /\ payPc[c] = "update" /\ payPc'[c] = "submit" /\ payStage[c] = 6
      /\ payHeads'[c] = payHeads[c] /\ payWon'[c] = payWon[c]
      /\ queue'[c][h] = queue[c][h] \o <<x>>
      /\ \A s \in Servers \ {h} : queue'[c][s] = queue[c][s]
      /\ \A q \in Refs : headVersions'[q].ts = headVersions[q].ts
    BY InsertIntoHistoryEffect DEF RowsKept
<1>2. /\ x \in RequestType /\ x.op = "history" /\ <<x>> \in Seq(RequestType)
      /\ h \in Servers /\ queue[c][h] \in Seq(RequestType)
    BY RequestTyped, ZeroOffset, PayRows DEF PayTypeOK
<1> HIDE DEF x, h
<1>3. WellQueued(queue[c][h] \o <<x>>, h)
    BY <1>2, WellPost DEF Owners, QueueInv
<1>4. \A s \in Servers : WellQueued(queue'[c][s], s)
    BY <1>1, <1>3 DEF Owners, QueueInv
<1>5. \A q \in Refs : UnlockPending(c, q)' <=> UnlockPending(c, q)
    <2>1. \A q \in Refs : Awaits(queue[c][h] \o <<x>>, "head", q) <=> Awaits(queue[c][h], "head", q)
        BY <1>2, AwaitsPost
    <2>2. \A q \in Refs : ServerOf[q] \in Servers
        BY PayRows
    <2> QED
        BY <1>1, <2>1, <2>2 DEF UnlockPending
<1>6. ASSUME NEW q \in Refs PROVE OwnerAt(c, q)'
    <2>1. OwnerAt(c, q) /\ ~(6 <= 2 * (Place(q) - 1) + 1)
        BY Places DEF Owners, OwnerInv
    <2>2. ~ToPost(c, q) /\ ~ToPost(c, q)'
        BY <1>1, <2>1 DEF ToPost
    <2> QED
        BY <1>1, <1>5, <2>1, <2>2
        DEF OwnerAt, DrainedAt, CheckedPayment, UnlocksAt, WonAt, OwnsAt, WillUnlock
<1> QED
    BY <1>1, <1>4, <1>6, OwnersKept

LEMMA SubmitOwners ==
    ASSUME PayTypeOK, Owners, NEW c \in Clients, PaySubmitResult(c)
    PROVE  Owners'
<1>1. /\ ActsAlone(c) /\ payPc[c] = "submit" /\ payPc'[c] = "idle"
      /\ payHeads'[c] = payHeads[c] /\ payWon'[c] = payWon[c] /\ queue'[c] = queue[c]
      /\ \A r \in Refs : headVersions'[r].ts = headVersions[r].ts
    BY PaySubmitResultEffect DEF RowsKept
<1>3. ASSUME NEW r \in Refs PROVE OwnerAt(c, r)'
    <2>1. OwnerAt(c, r)
        BY DEF Owners, OwnerInv
    <2>2. UnlockPending(c, r)' <=> UnlockPending(c, r)
        BY <1>1, QueueSame
    <2>3. ~ToPost(c, r) /\ ~ToPost(c, r)'
        BY <1>1 DEF ToPost
    <2> QED
        BY <1>1, <2>1, <2>2, <2>3
        DEF OwnerAt, DrainedAt, CheckedPayment, UnlocksAt, WonAt, OwnsAt, WillUnlock
<1> QED
    BY <1>1, <1>3, OwnersUnposted

\* A client whose network card executes a request is drained where it was.
LEMMA DrainedStays ==
    ASSUME NEW c \in Clients, NEW s \in Servers, NEW r \in Refs, DrainedAt(c, r),
           payPc'[c] = payPc[c], payStage'[c] = payStage[c], queue[c][s] # <<>>,
           \A t \in Servers \ {s} : queue'[c][t] = queue[c][t]
    PROVE  DrainedAt(c, r)'
BY PayRows DEF DrainedAt, Drained

LEMMA ExecuteOtherOwners ==
    ASSUME PayTypeOK, Owners, NEW c \in Clients, NEW s \in Servers,
           ExecutePointers(c, s) \/ ExecuteOlder(c, s) \/ ExecuteHistory(c, s)
    PROVE  Owners'
<1>1. /\ ActsAlone(c) /\ SameClient(c)
      /\ payPc'[c] = payPc[c] /\ payStage'[c] = payStage[c] /\ payHeads'[c] = payHeads[c]
      /\ tried'[c] = tried[c] /\ payWon'[c] = payWon[c]
      /\ queue'[c][s] = Tail(queue[c][s]) /\ queue[c][s] # <<>>
      /\ \A t \in Servers \ {s} : queue'[c][t] = queue[c][t]
      /\ \A t \in Servers, q \in Refs : Awaits(queue'[c][t], "head", q) <=> Awaits(queue[c][t], "head", q)
      /\ \A q \in Refs : headVersions'[q].ts = headVersions[q].ts
    BY ExecuteOtherEffect DEF RowsKept, Owners
<1>2. queue[c][s] \in Seq(RequestType) /\ \A t \in Servers : WellQueued(queue[c][t], t)
    BY DEF PayTypeOK, Owners, QueueInv
<1>3. WellQueued(Tail(queue[c][s]), s)
    BY <1>1, <1>2, WellTail
<1>4. ASSUME NEW q \in Refs PROVE OwnerAt(c, q)'
    <2>1. OwnerAt(c, q)
        BY DEF Owners, OwnerInv
    <2>2. UnlockPending(c, q)' <=> UnlockPending(c, q)
        BY <1>1, PayRows DEF UnlockPending
    <2>3. /\ ToPost(c, q)' <=> ToPost(c, q)
          /\ PayAccessible(c, q)' <=> PayAccessible(c, q)
        BY <1>1 DEF ToPost, PayAccessible, SameClient
    <2>4. DrainedAt(c, q)'
        BY <1>1, <2>1, DrainedStays DEF OwnerAt
    <2> QED
        BY <1>1, <2>1, <2>2, <2>3, <2>4
        DEF OwnerAt, CheckedPayment, UnlocksAt, WonAt, OwnsAt, WillUnlock
<1> QED
    BY <1>1, <1>2, <1>3, <1>4, OwnersKept

LEMMA ExecuteHeadRowOwners ==
    ASSUME PayTypeOK, Owners, NEW c \in Clients, NEW s \in Servers, ExecuteHeadRow(c, s)
    PROVE  Owners'
<1>1. /\ ActsAlone(c) /\ SameClient(c)
      /\ payPc'[c] = payPc[c] /\ payStage'[c] = payStage[c] /\ payHeads'[c] = payHeads[c]
      /\ tried'[c] = tried[c] /\ payWon'[c] = payWon[c]
      /\ queue'[c][s] = Tail(queue[c][s]) /\ queue[c][s] # <<>>
      /\ \A t \in Servers \ {s} : queue'[c][t] = queue[c][t]
      /\ \A q \in Refs : Awaits(queue'[c][s], "head", q) <=> Awaits(queue[c][s], "head", q)
      /\ \A q \in Refs : headVersions'[q].ts = headVersions[q].ts
    BY ExecuteHeadRowEffect DEF Owners
<1>2. queue[c][s] \in Seq(RequestType) /\ \A t \in Servers : WellQueued(queue[c][t], t)
    BY DEF PayTypeOK, Owners, QueueInv
<1>3. WellQueued(Tail(queue[c][s]), s)
    BY <1>1, <1>2, WellTail
<1>4. ASSUME NEW q \in Refs PROVE OwnerAt(c, q)'
    <2>1. OwnerAt(c, q)
        BY DEF Owners, OwnerInv
    <2>2. UnlockPending(c, q)' <=> UnlockPending(c, q)
        BY <1>1, PayRows DEF UnlockPending
    <2>3. /\ ToPost(c, q)' <=> ToPost(c, q)
          /\ PayAccessible(c, q)' <=> PayAccessible(c, q)
        BY <1>1 DEF ToPost, PayAccessible, SameClient
    <2>4. DrainedAt(c, q)'
        BY <1>1, <2>1, DrainedStays DEF OwnerAt
    <2> QED
        BY <1>1, <2>1, <2>2, <2>3, <2>4
        DEF OwnerAt, CheckedPayment, UnlocksAt, WonAt, OwnsAt, WillUnlock
<1> QED
    BY <1>1, <1>2, <1>3, <1>4, OwnersKept

\* Only the owner of a row has a request that unlocks it.
LEMMA ExecuteHeadOwners ==
    ASSUME PayTypeOK, Owners, NEW c \in Clients, NEW s \in Servers, ExecuteHead(c, s)
    PROVE  Owners'
<1>1. PICK r \in Refs :
         /\ ActsAlone(c) /\ SameClient(c) /\ ServerOf[r] = s /\ UnlockPending(c, r)
         /\ headVersions'[r].ts = payHeads[c][r].ts
         /\ \A q \in Refs \ {r} : headVersions'[q] = headVersions[q]
         /\ payPc'[c] = payPc[c] /\ payStage'[c] = payStage[c] /\ payHeads'[c] = payHeads[c]
         /\ tried'[c] = tried[c] /\ payWon'[c] = payWon[c] \ {r}
         /\ queue[c][s] # <<>> /\ Head(queue[c][s]).op = "head"
         /\ queue'[c][s] = HalfDone(queue[c][s])
         /\ \A t \in Servers \ {s} : queue'[c][t] = queue[c][t]
         /\ \A q \in Refs : Awaits(queue'[c][s], "head", q) <=> (q # r /\ Awaits(queue[c][s], "head", q))
    BY ExecuteHeadEffect DEF Owners
<1>2. queue[c][s] \in Seq(RequestType) /\ \A t \in Servers : WellQueued(queue[c][t], t)
    BY DEF PayTypeOK, Owners, QueueInv
<1>3. WellQueued(HalfDone(queue[c][s]), s)
    BY <1>1, <1>2, WellHalfDone
<1>4. /\ r \in payWon[c] /\ ~ToPost(c, r) /\ ~payHeads[c][r].ts.locked /\ ~Drained(c, r)
      /\ payPc[c] # "append"
    <2>1. OwnerAt(c, r)
        BY DEF Owners, OwnerInv
    <2>2. ~Drained(c, r)
        BY <1>1, DrainedQueue
    <2> QED
        BY <1>1, <2>1, <2>2 DEF OwnerAt, OwnsAt, UnlocksAt, DrainedAt
<1>5. ASSUME NEW q \in Refs PROVE OwnerAt(c, q)'
    <2>1. OwnerAt(c, q)
        BY DEF Owners, OwnerInv
    <2>2. UnlockPending(c, q)' <=> (q # r /\ UnlockPending(c, q))
        BY <1>1, PayRows DEF UnlockPending
    <2>3. /\ ToPost(c, q)' <=> ToPost(c, q)
          /\ PayAccessible(c, q)' <=> PayAccessible(c, q)
        BY <1>1 DEF ToPost, PayAccessible, SameClient
    <2>4. DrainedAt(c, q)'
        BY <1>1, <2>1, DrainedStays DEF OwnerAt
    <2>5. WonAt(c, q)'
        BY <1>1, <2>1, <2>2, <2>3 DEF OwnerAt, WonAt, WillUnlock
    <2>6. OwnsAt(c, q)'
        BY <1>1, <1>4, <2>1, <2>2, <2>3 DEF OwnerAt, OwnsAt
    <2> QED
        BY <1>1, <2>1, <2>2, <2>3, <2>4, <2>5, <2>6 DEF OwnerAt, CheckedPayment, UnlocksAt
<1>6. ASSUME NEW d \in Clients \ {c}, NEW q \in Refs, q \in payWon[d]
      PROVE  headVersions'[q].ts = headVersions[q].ts
    <2>1. q # r
        BY <1>4, <1>6, OneOwner DEF Owners
    <2> QED
        BY <1>1, <2>1
<1>7. QueueInv' /\ OwnerInv'
    BY <1>1, <1>2, <1>3, <1>5, <1>6, OwnersAlone
<1>8. \A d \in Clients : payWon'[d] = payWon[d] \/ payWon'[d] = payWon[d] \ {r}
    BY <1>1 DEF ActsAlone, SamePayment
<1>9. PayOwnedInv'
    BY <1>1, <1>4, <1>8 DEF Owners, PayOwnedInv
<1> QED
    BY <1>7, <1>9 DEF Owners

-----------------------------------------------------------------------------
LEMMA PayOwnersStep ==
    ASSUME PayTypeOK, Owners, NEW c \in Clients, PayAct(c)
    PROVE  Owners'
BY PhaseOwners, ReadTimestampOwners, RetrieveOwners, AcquireOwners, LockOwners, RevertOwners,
   LocksAcquiredOwners, AppendOwners, SetNewTimestampOwners, PostUpdateOwners,
   InsertIntoHistoryOwners, SubmitOwners, ExecuteOtherOwners, ExecuteHeadRowOwners, ExecuteHeadOwners
DEF PayAct, PayStep, ExecuteRequest

LEMMA OrderOwnersStep ==
    ASSUME PayTypeOK, VectorInv, Owners, OrderPart
    PROVE  Owners'
<1>1. OrderFrame
    BY OrderFramed
<1>2. /\ UNCHANGED <<payPc, payStage, payHeads, tried, payWon, queue>>
      /\ \A r \in Refs : headVersions'[r] = headVersions[r]
      /\ \A d \in Clients : payPc[d] # "idle" => localVector'[d] = localVector[d]
    BY <1>1 DEF OrderFrame, payVars, bufferVars, RowsKept, SameClient
<1>3. QueueInv' /\ PayOwnedInv'
    BY <1>2 DEF Owners, QueueInv, PayOwnedInv
<1>4. OwnerInv'
    BY <1>2, OwnerStays DEF Owners, OwnerInv
<1> QED
    BY <1>3, <1>4 DEF Owners

LEMMA PayInvParts == PayInv <=> (PayTypeOK /\ Numbers /\ Owners)
BY DEF PayInv, Numbers, Owners

\* Every step is one of Payment's or leaves Payment alone.
LEMMA PayNextParts ==
    ASSUME [PayNext]_mixVars
    PROVE  OrderPart \/ \E c \in Clients : PayAct(c)
BY RolesAssumption DEF PayNext, OrderPart, PayAct

LEMMA PayInvInit == PayInit => PayInv
<1> SUFFICES ASSUME PayInit PROVE PayInv
    OBVIOUS
<1>1. PayTypeOK /\ FallbackInRange
    BY PayTypeInit
<1>2. EpochInv /\ VectorInv
    BY IInvInit DEF PayInit, IInv
<1>3. PayEpochInv /\ PayVectorInv
    BY DEF PayInit, PayEpochInv, PayVectorInv, Paying
<1>4. \A c \in Clients, r \in Refs : queue[c][ServerOf[r]] = <<>> /\ ~UnlockPending(c, r)
    BY PayRows, AwaitsParts DEF PayInit, UnlockPending
<1>5. QueueInv
    BY DEF PayInit, QueueInv, WellQueued
<1>6. ASSUME NEW c \in Clients, NEW r \in Refs PROVE OwnerAt(c, r)
    BY <1>4 DEF PayInit, OwnerAt, DrainedAt, CheckedPayment, UnlocksAt, WonAt, OwnsAt, WillUnlock,
       ToPost
<1>7. \A r \in Refs : ~headVersions[r].ts.locked
    BY PayRows DEF PayInit, Init, InitialVersion, InitialTimestamp, Timestamp
<1> QED
    BY <1>1, <1>2, <1>3, <1>5, <1>6, <1>7 DEF PayInv, OwnerInv, PayOwnedInv

LEMMA PayInvStep ==
    ASSUME PayInv, [PayNext]_mixVars
    PROVE  PayInv'
<1>1. PayTypeOK /\ Numbers /\ Owners /\ QueueInv /\ VectorInv
    BY PayInvParts DEF PayInv
<1>2. ASSUME NEW c \in Clients, PayAct(c) PROVE PayTypeOK' /\ Numbers' /\ Owners'
    <2>1. PayTypeOK'
        BY <1>1, <1>2, PayTypeStep DEF PayAct
    <2> QED
        BY <1>1, <1>2, <2>1, PayNumbersStep, PayOwnersStep
<1>3. ASSUME OrderPart PROVE PayTypeOK' /\ Numbers' /\ Owners'
    BY <1>1, <1>3, OrderNumbersStep, OrderOwnersStep
<1>4. PayTypeOK' /\ Numbers' /\ Owners'
    BY <1>2, <1>3, PayNextParts
<1> QED
    BY <1>4 DEF PayInv, Numbers, Owners

\* The inductive invariant holds: clients own the rows they locked until the
\* word that unlocks them is written, also when they went on to other work.
THEOREM PayInvariance == PaySpec => []PayInv
<1>1. PayInv /\ [PayNext]_mixVars => PayInv'
    BY PayInvStep
<1> QED
    BY <1>1, PayInvInit, PTL DEF PaySpec

\* Payment beside New-Order keeps every variable in its type.
THEOREM PaymentTypeCorrectness == PaySpec => []PayTypeOK
<1>1. PayInv => PayTypeOK
    BY DEF PayInv
<1> QED
    BY <1>1, PayInvariance, PTL

\* No payment leaves a lock behind: a locked row has an owner that still runs,
\* or whose unsignaled write of the new head is on its way.
THEOREM PaymentLocksAreOwned == PaySpec => []PaymentLockOwnership
<1>1. PayInv => PaymentLockOwnership
    <2> SUFFICES ASSUME PayInv, NEW r \in Refs, headVersions[r].ts.locked
                 PROVE  \E c \in Clients :
                            /\ headVersions[r].ts.clientID = c
                            /\ r \in payWon[c]
                            /\ payPc[c] \in {"lock", "revert", "append", "update"} \/ UnlockPending(c, r)
        BY DEF PaymentLockOwnership
    <2>1. PICK c \in Clients : r \in payWon[c]
        BY DEF PayInv, PayOwnedInv
    <2>2. WonAt(c, r)
        BY DEF PayInv, OwnerInv, OwnerAt
    <2> QED
        BY <2>1, <2>2 DEF WonAt, WillUnlock, ToPost
<1> QED
    BY <1>1, PayInvariance, PTL

-----------------------------------------------------------------------------
(***************************************************************************)
(* Logging comes before installing.                                        *)
(***************************************************************************)

\* Words of rows and buffers move among them, but for those that are logged.
PayWordsMoved ==
    \A r \in Refs :
        /\ \/ headVersions'[r].ts = headVersions[r].ts
           \/ headVersions'[r].ts.locked
           \/ \E c \in Clients : headVersions'[r].ts = payHeads[c][r].ts
        /\ \A d \in Clients :
              \/ payHeads'[d][r].ts = payHeads[d][r].ts
              \/ payHeads'[d][r].ts = headVersions[r].ts
              \/ /\ payHeads'[d][r].ts.clientID = d
                 /\ payHeads'[d][r].ts.timestamp = LoggedTimestamp(d)

LogGrows ==
    \A d \in Clients : LoggedTimestamp(d)' \in Nat /\ LoggedTimestamp(d) <= LoggedTimestamp(d)'

LEMMA LoggedTyped ==
    ASSUME TypeOK
    PROVE  \A d \in Clients : LoggedTimestamp(d) \in Nat /\ cts[d] \in Nat
BY DEF TypeOK, LogEntryType, LoggedTimestamp

LEMMA MovedWordsLogged ==
    ASSUME PayTypeOK, PayLogInv, PayWordsMoved, LogGrows
    PROVE  \A r \in Refs : Logged(headVersions[r].ts)' /\ \A d \in Clients : Logged(payHeads[d][r].ts)'
<1>1. \A d \in Clients : LoggedTimestamp(d) \in Nat
    BY LoggedTyped DEF PayTypeOK
<1>2. \A ts \in TimestampType : Logged(ts) => (~ts.locked => ts.timestamp <= LoggedTimestamp(ts.clientID)')
    BY <1>1 DEF Logged, LogGrows, TimestampType
<1>3. \A r \in Refs : /\ headVersions[r].ts \in TimestampType
                      /\ \A d \in Clients : payHeads[d][r].ts \in TimestampType
    BY PayRows DEF PayTypeOK, TypeOK, VersionType
<1>4. ASSUME NEW r \in Refs PROVE Logged(headVersions[r].ts)'
    <2>1. \/ headVersions'[r].ts = headVersions[r].ts
          \/ headVersions'[r].ts.locked
          \/ \E d \in Clients : headVersions'[r].ts = payHeads[d][r].ts
        BY DEF PayWordsMoved
    <2> QED
        BY <1>2, <1>3, <2>1 DEF PayLogInv, Logged, LoggedTimestamp
<1>5. ASSUME NEW r \in Refs, NEW d \in Clients PROVE Logged(payHeads[d][r].ts)'
    <2>1. CASE payHeads'[d][r].ts = payHeads[d][r].ts \/ payHeads'[d][r].ts = headVersions[r].ts
        BY <1>2, <1>3, <2>1 DEF PayLogInv, Logged, LoggedTimestamp
    <2>2. CASE payHeads'[d][r].ts.clientID = d /\ payHeads'[d][r].ts.timestamp = LoggedTimestamp(d)
        BY <2>2 DEF Logged, LogGrows, LoggedTimestamp
    <2> QED
        BY <2>1, <2>2 DEF PayWordsMoved
<1> QED
    BY <1>4, <1>5

\* The steps of Payment that draw no timestamp and write no log entry.
Unlogged ==
    /\ \A d \in Clients : journal'[d] = journal[d] /\ cts'[d] = cts[d]
    /\ \A d \in Clients : payPc'[d] \in {"append", "update"} => payPc[d] \in {"append", "update"}
    /\ PayWordsMoved

LEMMA UnloggedSteps ==
    ASSUME PayTypeOK, QueueInv, PayLogInv, NEW c \in Clients, PayAct(c)
    PROVE  Unlogged \/ PayAcquireCommitTimestamp(c) \/ PayLocksAcquired(c)
<1>1. ASSUME ActsAlone(c), RowsKept, journal'[c] = journal[c], cts'[c] = cts[c], payHeads'[c] = payHeads[c],
             payPc'[c] \in {"append", "update"} => payPc[c] \in {"append", "update"}
      PROVE  Unlogged
    BY <1>1 DEF Unlogged, ActsAlone, SamePayment, SameClient, RowsKept, PayWordsMoved
<1>2. ASSUME NEW r \in Refs, ActsAlone(c), SameClient(c), payPc'[c] = payPc[c],
             \A q \in Refs \ {r} : headVersions'[q] = headVersions[q] /\ payHeads'[c][q] = payHeads[c][q],
             \/ headVersions'[r].ts = headVersions[r].ts
             \/ headVersions'[r].ts.locked
             \/ headVersions'[r].ts = payHeads[c][r].ts,
             \/ payHeads'[c][r].ts = payHeads[c][r].ts
             \/ payHeads'[c][r].ts = headVersions[r].ts
             \/ payHeads'[c][r].ts.clientID = c /\ payHeads'[c][r].ts.timestamp = LoggedTimestamp(c)
      PROVE  Unlogged
    <2>1. /\ \A d \in Clients : journal'[d] = journal[d] /\ cts'[d] = cts[d] /\ payPc'[d] = payPc[d]
          /\ \A d \in Clients \ {c} : payHeads'[d] = payHeads[d]
        BY <1>2 DEF ActsAlone, SamePayment, SameClient
    <2>2. PayWordsMoved
        BY <1>2, <2>1 DEF PayWordsMoved
    <2> QED
        BY <2>1, <2>2 DEF Unlogged
<1>3. CASE PayStart(c) \/ LookupFails(c) \/ PayCheckVersionsAbort(c) \/ PayLocksRefused(c) \/ PayLockAbort(c)
    BY <1>1, <1>3, PhaseEffect DEF MovesPhase, SameClient
<1>4. ASSUME NEW r \in Refs, PayRetrievePointerList(c, r) PROVE Unlogged
    BY <1>1, <1>4, PhaseEffect DEF MovesPhase, SameClient
<1>5. ASSUME NEW e \in Clients, PayReadTimestamp(c, e) PROVE Unlogged
    <2>1. /\ ActsAlone(c) /\ RowsKept /\ payHeads'[c] = payHeads[c] /\ payPc'[c] \in {"snapshot", "read"}
          /\ UNCHANGED <<journal, cts>>
        BY <1>5, PayReadTimestampEffect
    <2> QED
        BY <1>1, <2>1
<1>6. ASSUME NEW r \in Refs, PayRetrieveTimestamp(c, r) \/ PayRetrieveRow(c, r) PROVE Unlogged
    BY <1>2, <1>6, PayRetrieveEffect DEF RowsKept
<1>7. ASSUME NEW r \in Refs, PayLock(c, r) PROVE Unlogged
    <2>1. PayLockTimestamp(c, r).locked
        BY DEF PayLockTimestamp, Timestamp
    <2> QED
        BY <1>2, <1>7, <2>1, PayLockEffect
<1>8. ASSUME NEW r \in Refs, PayRevertLock(c, r) PROVE Unlogged
    BY <1>2, <1>8, PayRevertLockEffect
<1>9. CASE AppendOldVersions(c)
    BY <1>1, <1>9, AppendOldVersionsEffect DEF SameClient
<1>10. ASSUME NEW r \in Refs, SetNewTimestamp(c, r) PROVE Unlogged
    <2>1. payPc[c] = "update" /\ payHeads'[c][r].ts.clientID = c /\ payHeads'[c][r].ts.timestamp = cts[c]
        BY <1>10, SetNewTimestampEffect
    <2>2. cts[c] = LoggedTimestamp(c)
        BY <2>1 DEF PayLogInv
    <2> QED
        BY <1>2, <1>10, <2>1, <2>2, SetNewTimestampEffect DEF RowsKept
<1>11. ASSUME NEW r \in Refs, PostUpdate(c, r) PROVE Unlogged
    <2>1. /\ ActsAlone(c) /\ SameClient(c) /\ RowsKept
          /\ payPc'[c] = payPc[c] /\ payHeads'[c][r].ts = payHeads[c][r].ts
          /\ \A q \in Refs \ {r} : payHeads'[c][q] = payHeads[c][q]
        BY <1>11, PostUpdateEffect
    <2> QED
        BY <1>2, <2>1 DEF RowsKept
<1>12. CASE InsertIntoHistory(c)
    BY <1>1, <1>12, InsertIntoHistoryEffect DEF SameClient
<1>13. CASE PaySubmitResult(c)
    BY <1>1, <1>13, PaySubmitResultEffect
<1>14. ASSUME NEW s \in Servers, ExecuteRequest(c, s) PROVE Unlogged
    <2>1. CASE ExecutePointers(c, s) \/ ExecuteOlder(c, s) \/ ExecuteHistory(c, s)
        BY <1>1, <2>1, ExecuteOtherEffect DEF SameClient
    <2>2. CASE ExecuteHead(c, s)
        BY <1>2, <2>2, ExecuteHeadEffect
    <2>3. CASE ExecuteHeadRow(c, s)
        BY <1>2, <2>3, ExecuteHeadRowEffect
    <2> QED
        BY <1>14, <2>1, <2>2, <2>3 DEF ExecuteRequest
<1> QED
    BY <1>3, <1>4, <1>5, <1>6, <1>7, <1>8, <1>9, <1>10, <1>11, <1>12, <1>13, <1>14 DEF PayAct, PayStep

LEMMA PayLogStep ==
    ASSUME ClientCnt <= CommandSize, PayInv, PayLogInv, NEW c \in Clients, PayAct(c)
    PROVE  PayLogInv'
<1>t. PayTypeOK /\ QueueInv /\ EpochInv /\ PayEpochInv
    BY DEF PayInv
<1>n. \A d \in Clients : LoggedTimestamp(d) \in Nat /\ cts[d] \in Nat
    BY <1>t, LoggedTyped DEF PayTypeOK
<1>0. ASSUME ActsAlone(c), RowsKept, payHeads'[c] = payHeads[c] PROVE PayWordsMoved
    BY <1>0 DEF PayWordsMoved, ActsAlone, SamePayment, RowsKept
<1>1. CASE Unlogged
    <2>1. /\ \A d \in Clients : LoggedTimestamp(d)' = LoggedTimestamp(d) /\ cts'[d] = cts[d]
          /\ \A d \in Clients : payPc'[d] \in {"append", "update"} => payPc[d] \in {"append", "update"}
        BY <1>1 DEF Unlogged, LoggedTimestamp
    <2>2. LogGrows
        BY <1>n, <2>1 DEF LogGrows
    <2>3. \A d \in Clients :
             /\ LoggedTimestamp(d)' <= cts'[d]
             /\ payPc'[d] \in {"append", "update"} => LoggedTimestamp(d)' = cts'[d]
        BY <2>1 DEF PayLogInv
    <2> QED
        BY <1>1, <1>t, <2>2, <2>3, MovedWordsLogged DEF Unlogged, PayLogInv
<1>2. CASE PayAcquireCommitTimestamp(c)
    <2>1. /\ ActsAlone(c) /\ RowsKept /\ payHeads'[c] = payHeads[c] /\ payPc'[c] = "lock" /\ UNCHANGED journal
          /\ \A d \in Clients \ {c} : cts'[d] = cts[d]
        BY <1>t, <1>2, PayAcquireCommitTimestampEffect
    <2>2. cts'[c] \in Nat /\ cts[c] < cts'[c]
        BY <1>t, <1>2, PayDrawIsLarger
    <2>3. \A d \in Clients : LoggedTimestamp(d)' = LoggedTimestamp(d)
        BY <2>1 DEF LoggedTimestamp
    <2>4. LogGrows
        BY <1>n, <2>3 DEF LogGrows
    <2>5. \A d \in Clients \ {c} : payPc'[d] = payPc[d]
        BY <2>1 DEF ActsAlone, SamePayment
    <2>6. \A d \in Clients :
             /\ LoggedTimestamp(d)' <= cts'[d]
             /\ payPc'[d] \in {"append", "update"} => LoggedTimestamp(d)' = cts'[d]
        BY <1>n, <2>1, <2>2, <2>3, <2>5 DEF PayLogInv
    <2> QED
        BY <1>0, <1>t, <2>1, <2>4, <2>6, MovedWordsLogged DEF PayLogInv
<1>3. CASE PayLocksAcquired(c)
    <2>1. /\ ActsAlone(c) /\ RowsKept /\ payHeads'[c] = payHeads[c] /\ UNCHANGED cts
          /\ localVector'[c][c] = cts[c] /\ journal'[c] = LogEntry(journal[c], localVector'[c])
        BY <1>t, <1>3, PayLocksAcquiredEffect
    <2>2. c < CommandSize
        BY ClientCntAssumption, CommandSizeAssumption DEF Clients
    <2>3. LogEntry(journal[c], localVector'[c]).vector[c] = localVector'[c][c]
        BY <2>2 DEF LogEntry
    <2>4. \A d \in Clients \ {c} : payPc'[d] = payPc[d] /\ LoggedTimestamp(d)' = LoggedTimestamp(d)
        BY <2>1 DEF ActsAlone, SamePayment, SameClient, LoggedTimestamp
    <2>5. LoggedTimestamp(c)' = cts[c]
        BY <2>1, <2>3 DEF LoggedTimestamp
    <2>6. LogGrows
        BY <1>n, <2>4, <2>5 DEF LogGrows, PayLogInv
    <2>7. \A d \in Clients :
             /\ LoggedTimestamp(d)' <= cts'[d]
             /\ payPc'[d] \in {"append", "update"} => LoggedTimestamp(d)' = cts'[d]
        BY <1>n, <2>1, <2>4, <2>5 DEF PayLogInv
    <2> QED
        BY <1>0, <1>t, <2>1, <2>6, <2>7, MovedWordsLogged DEF PayLogInv
<1> QED
    BY <1>t, <1>1, <1>2, <1>3, UnloggedSteps

\* New-Order's entries of the log grow as well.
LEMMA OrderLogGrows ==
    ASSUME ClientCnt <= CommandSize, TypeOK, EpochInv, [Next]_vars,
           \A c \in Clients : LoggedTimestamp(c) <= cts[c]
    PROVE  LogGrows /\ \A d \in Clients : LoggedTimestamp(d)' <= cts'[d]
<1>n. \A d \in Clients : LoggedTimestamp(d) \in Nat /\ cts[d] \in Nat
    BY LoggedTyped
<1>1. ASSUME UNCHANGED journal, \A d \in Clients : cts'[d] \in Nat /\ cts[d] <= cts'[d]
      PROVE  LogGrows /\ \A d \in Clients : LoggedTimestamp(d)' <= cts'[d]
    <2>1. \A d \in Clients : LoggedTimestamp(d)' = LoggedTimestamp(d)
        BY <1>1 DEF LoggedTimestamp
    <2> QED
        BY <1>n, <1>1, <2>1 DEF LogGrows
<1>2. CASE WordsCopied
    BY <1>n, <1>1, <1>2 DEF WordsCopied
<1>3. ASSUME NEW c \in Clients, AcquireCommitTimestamp(c)
      PROVE  LogGrows /\ \A d \in Clients : LoggedTimestamp(d)' <= cts'[d]
    <2>1. cts[c] < cts'[c] /\ cts'[c] \in Nat
        BY <1>3, DrawIsLarger
    <2>2. UNCHANGED journal /\ \A d \in Clients \ {c} : cts'[d] = cts[d]
        BY <1>3 DEF TypeOK, AcquireCommitTimestamp, getNewCommitTimestamp
    <2> QED
        BY <1>n, <1>1, <2>1, <2>2
<1>4. ASSUME NEW c \in Clients, LocksAcquired(c)
      PROVE  LogGrows /\ \A d \in Clients : LoggedTimestamp(d)' <= cts'[d]
    <2>1. /\ UNCHANGED cts /\ localVector'[c][c] = cts[c]
          /\ journal' = [journal EXCEPT ![c] = LogEntry(@, localVector'[c])]
        BY <1>4 DEF LocksAcquired, writeCommandToLog, TypeOK
    <2>2. c < CommandSize
        BY ClientCntAssumption, CommandSizeAssumption DEF Clients
    <2>3. LogEntry(journal[c], localVector'[c]).vector[c] = localVector'[c][c]
        BY <2>2 DEF LogEntry
    <2>4. LoggedTimestamp(c)' = cts[c] /\ \A d \in Clients \ {c} : LoggedTimestamp(d)' = LoggedTimestamp(d)
        BY <2>1, <2>3 DEF LoggedTimestamp, TypeOK
    <2> QED
        BY <1>n, <2>1, <2>4 DEF LogGrows
<1>5. ASSUME NEW c \in Clients, NEW s \in Stocks, UpdateStockTimestamp(c, s)
      PROVE  LogGrows /\ \A d \in Clients : LoggedTimestamp(d)' <= cts'[d]
    BY <1>n, <1>1, <1>5 DEF UpdateStockTimestamp, trxVars
<1> QED
    BY <1>2, <1>3, <1>4, <1>5, CopySteps

LEMMA OrderLogStep ==
    ASSUME ClientCnt <= CommandSize, PayInv, PayLogInv, OrderPart
    PROVE  PayLogInv'
<1>t. PayTypeOK /\ TypeOK /\ EpochInv /\ VectorInv
    BY DEF PayInv, PayTypeOK
<1>1. OrderFrame /\ [Next]_vars
    BY <1>t, OrderFramed
<1>2. LogGrows /\ \A d \in Clients : LoggedTimestamp(d)' <= cts'[d]
    BY <1>t, <1>1, OrderLogGrows DEF PayLogInv
<1>3. PayWordsMoved
    BY <1>1 DEF PayWordsMoved, OrderFrame, RowsKept, payVars, bufferVars
<1>4. ASSUME NEW d \in Clients, payPc'[d] \in {"append", "update"} PROVE LoggedTimestamp(d)' = cts'[d]
    <2>1. payPc[d] \in {"append", "update"} /\ payPc[d] # "idle"
        BY <1>1, <1>4 DEF OrderFrame, payVars
    <2> QED
        BY <1>1, <2>1 DEF OrderFrame, SameClient, PayLogInv, LoggedTimestamp
<1> QED
    BY <1>t, <1>2, <1>3, <1>4, MovedWordsLogged DEF PayLogInv

LEMMA PayLogInit == PayInit => PayLogInv
<1> SUFFICES ASSUME PayInit PROVE PayLogInv
    OBVIOUS
<1>1. 0 \in Clients
    BY ClientCntAssumption DEF Clients
<1>2. \A c \in Clients : LoggedTimestamp(c) = 0 /\ cts[c] = 0
    BY DEF PayInit, Init, LoggedTimestamp, EmptyLogEntry
<1>3. \A r \in Refs : Logged(headVersions[r].ts)
    BY <1>1, <1>2, PayRows DEF PayInit, Init, Logged, InitialVersion, InitialTimestamp, Timestamp
<1>4. \A c \in Clients, r \in Refs : Logged(payHeads[c][r].ts)
    BY <1>1, <1>2 DEF PayInit, Logged, EmptyVersion, EmptyTimestamp, Timestamp
<1> QED
    BY <1>2, <1>3, <1>4 DEF PayInit, PayLogInv

\* Whatever Payment installs was logged first, although its installs are not
\* waited for, and the client's entry of the log is overwritten by payments and
\* orders that follow, whose words are on their way to other rows.
THEOREM PaymentLogPrecedesInstall ==
    ASSUME ClientCnt <= CommandSize
    PROVE  PaySpec => []PaymentLogBeforeInstall
<1>1. PayInv /\ PayLogInv /\ [PayNext]_mixVars => PayLogInv'
    BY PayLogStep, OrderLogStep, PayNextParts
<1>2. PayInv /\ PayLogInv => PaymentLogBeforeInstall
    <2> SUFFICES ASSUME PayInv, PayLogInv, NEW r \in Refs, ~headVersions[r].ts.locked
                 PROVE  journal[headVersions[r].ts.clientID].vector[headVersions[r].ts.clientID]
                            >= headVersions[r].ts.timestamp
        BY DEF PaymentLogBeforeInstall
    <2>1. headVersions[r].ts \in TimestampType /\ \A c \in Clients : LoggedTimestamp(c) \in Nat
        BY PayRows, LoggedTyped DEF PayInv, PayTypeOK, TypeOK, VersionType
    <2> QED
        BY <2>1 DEF PayLogInv, Logged, LoggedTimestamp, TimestampType
<1> QED
    BY <1>1, <1>2, PayLogInit, PayInvariance, PTL DEF PaySpec

-----------------------------------------------------------------------------
(***************************************************************************)
(* When all of a payment's requests share a queue pair.                    *)
(***************************************************************************)

\* The phases in which a client has nothing pending.
Resting(c) == payPc[c] \in {"idle", "snapshot", "read", "lock", "revert", "append"}

LEMMA OnePair ==
    ASSUME SharedQueuePair, NEW c \in Clients
    PROVE  /\ ServerOf[Warehouse] \in Servers
           /\ \A r \in Refs :
                 /\ ServerOf[r] = ServerOf[Warehouse]
                 /\ UnlockPending(c, r) <=> Awaits(Pair(c), "head", r)
                 /\ Drained(c, r) <=> Pair(c) = <<>>
           /\ Pair(c) = <<>> => \A r \in Refs : ~UnlockPending(c, r) /\ ~Torn(c, r)
<1>1. ServerOf[Warehouse] \in Servers /\ \A r \in Refs : ServerOf[r] = ServerOf[Warehouse]
    BY PayRows, ServerAssumption DEF SharedQueuePair
<1>2. \A r \in Refs : /\ UnlockPending(c, r) <=> Awaits(Pair(c), "head", r)
                      /\ Drained(c, r) <=> Pair(c) = <<>>
    BY <1>1 DEF UnlockPending, Drained, Pair
<1>3. Pair(c) = <<>> => \A r \in Refs : ~UnlockPending(c, r) /\ ~Torn(c, r)
    BY <1>2, AwaitsParts DEF Torn
<1> QED
    BY <1>1, <1>2, <1>3

LEMMA OnePairAfter ==
    ASSUME SharedQueuePair, NEW c \in Clients
    PROVE  /\ \A r \in Refs : UnlockPending(c, r)' <=> Awaits(Pair(c)', "head", r)
           /\ \A r \in Refs : Torn(c, r)' <=> Awaits(Pair(c)', "headRow", r)
           /\ Pair(c)' = <<>> => \A r \in Refs : ~UnlockPending(c, r)' /\ ~Torn(c, r)'
<1>1. \A r \in Refs : ServerOf[r] = ServerOf[Warehouse]
    BY OnePair
<1>2. \A r \in Refs : /\ UnlockPending(c, r)' <=> Awaits(Pair(c)', "head", r)
                      /\ Torn(c, r)' <=> Awaits(Pair(c)', "headRow", r)
    BY <1>1 DEF UnlockPending, Pair, Torn, Awaits
<1>3. \A r \in Refs, op \in {"head", "headRow"} : ~Awaits(<<>>, op, r)
    BY AwaitsParts
<1> QED
    BY <1>2, <1>3

\* A client that rests owns rows only while it locks, reverts or appends.
LEMMA RestingOwns ==
    ASSUME SharedQueuePair, PayInv, PairInv, NEW c \in Clients, Resting(c)
    PROVE  /\ Pair(c) = <<>>
           /\ \A r \in Refs : /\ ~UnlockPending(c, r) /\ ~Torn(c, r)
                              /\ r \in payWon[c] => payPc[c] \in {"lock", "revert", "append"}
<1>1. Pair(c) = <<>>
    BY DEF PairInv, PairAt, Resting
<1>2. \A r \in Refs : ~UnlockPending(c, r) /\ ~Torn(c, r)
    BY <1>1, OnePair
<1>3. \A r \in Refs : WonAt(c, r)
    BY DEF PayInv, OwnerInv, OwnerAt
<1> QED
    BY <1>1, <1>2, <1>3 DEF WonAt, WillUnlock, ToPost, Resting

\* The history row is last after it was posted, and until it is executed.
LEMMA HistoryStays ==
    ASSUME NEW p \in Seq(RequestType), p # <<>>
    PROVE  /\ HistoryLast(p) => HistoryLast(Tail(p))
           /\ (HistoryLast(p) /\ Head(p).op = "head") => HistoryLast(HalfDone(p))
           /\ HistoryLast(p) => \E i \in 1 .. Len(p) : p[i].op = "history"
<1>1. /\ Len(p) \in Nat /\ Len(p) >= 1 /\ Head(p) = p[1]
      /\ Tail(p) \in Seq(RequestType) /\ Len(Tail(p)) = Len(p) - 1
      /\ \A i \in 1 .. Len(p) - 1 : Tail(p)[i] = p[i + 1]
    BY OldestFirst
<1>2. ASSUME HistoryLast(p) PROVE p[Len(p)].op = "history"
    BY <1>2 DEF HistoryLast
<1>3. ASSUME HistoryLast(p) PROVE HistoryLast(Tail(p))
    <2>1. CASE Len(p) = 1
        <3>1. Len(Tail(p)) = 0
            BY <1>1, <2>1
        <3>2. Tail(p) = <<>>
            BY <1>1, <3>1, EmptySeq
        <3> QED
            BY <3>2 DEF HistoryLast
    <2>2. CASE Len(p) # 1
        <3>1. Len(p) - 1 \in 1 .. Len(p) - 1 /\ Len(p) - 1 + 1 = Len(p)
            BY <1>1, <2>2
        <3>2. Tail(p)[Len(Tail(p))] = p[Len(p)]
            BY <1>1, <3>1
        <3> QED
            BY <1>2, <1>3, <3>2 DEF HistoryLast
    <2> QED
        BY <2>1, <2>2
<1>4. ASSUME HistoryLast(p), Head(p).op = "head" PROVE HistoryLast(HalfDone(p))
    <2>1. Len(p) # 1
        BY <1>1, <1>2, <1>4
    <2>2. Len(HalfDone(p)) = Len(p) /\ \A i \in 2 .. Len(p) : HalfDone(p)[i] = p[i]
        BY HalfDoneParts
    <2>3. HalfDone(p)[Len(HalfDone(p))] = p[Len(p)]
        BY <1>1, <2>1, <2>2
    <2> QED
        BY <1>2, <1>4, <2>3 DEF HistoryLast
<1>5. Len(p) \in 1 .. Len(p)
    BY <1>1
<1> QED
    BY <1>2, <1>3, <1>4, <1>5

\* Every step of Payment is its client's own.
LEMMA PayActsAlone ==
    ASSUME PayTypeOK, QueueInv, NEW c \in Clients, PayAct(c)
    PROVE  ActsAlone(c)
<1>1. CASE \/ PayStart(c) \/ LookupFails(c) \/ PayCheckVersionsAbort(c) \/ PayLocksRefused(c)
           \/ PayLockAbort(c) \/ \E r \in Refs : PayRetrievePointerList(c, r)
    BY <1>1, PhaseEffect
<1>2. ASSUME NEW e \in Clients, PayReadTimestamp(c, e) PROVE ActsAlone(c)
    BY <1>2, PayReadTimestampEffect
<1>3. ASSUME NEW r \in Refs,
             \/ PayRetrieveTimestamp(c, r) \/ PayRetrieveRow(c, r)
             \/ PayLock(c, r) \/ PayRevertLock(c, r)
             \/ SetNewTimestamp(c, r) \/ PostUpdate(c, r)
      PROVE  ActsAlone(c)
    BY <1>3, PayRetrieveEffect, PayLockEffect, PayRevertLockEffect, SetNewTimestampEffect,
       PostUpdateEffect
<1>4. CASE \/ PayAcquireCommitTimestamp(c) \/ PayLocksAcquired(c) \/ AppendOldVersions(c)
           \/ InsertIntoHistory(c) \/ PaySubmitResult(c)
    BY <1>4, PayAcquireCommitTimestampEffect, PayLocksAcquiredEffect, AppendOldVersionsEffect,
       InsertIntoHistoryEffect, PaySubmitResultEffect
<1>5. ASSUME NEW s \in Servers, ExecuteRequest(c, s) PROVE ActsAlone(c)
    BY <1>5, ExecuteOtherEffect, ExecuteHeadEffect, ExecuteHeadRowEffect DEF ExecuteRequest
<1> QED
    BY <1>1, <1>2, <1>3, <1>4, <1>5 DEF PayAct, PayStep

LEMMA PairStep ==
    ASSUME SharedQueuePair, PayInv, PairInv, NEW c \in Clients, PayAct(c)
    PROVE  PairInv'
<1>t. PayTypeOK /\ QueueInv
    BY DEF PayInv
<1>a. ActsAlone(c)
    BY <1>t, PayActsAlone
<1>p. PairAt(c) /\ Pair(c) \in Seq(RequestType) /\ ServerOf[Warehouse] \in Servers
    BY <1>t, OnePair, PayRows DEF PairInv, Pair, PayTypeOK
<1>1. ASSUME payPc'[c] # "submit", Resting(c)' => Pair(c)' = <<>> PROVE PairInv'
    BY <1>1, <1>a DEF PairInv, PairAt, Pair, ActsAlone, SamePayment, Resting
<1>2. ASSUME queue'[c] = queue[c], Resting(c), Resting(c)' PROVE PairInv'
    BY <1>1, <1>2, <1>p DEF PairAt, Pair, Resting
<1>3. ASSUME payPc'[c] = payPc[c],
             Pair(c) = <<>> => Pair(c)' = <<>>,
             HistoryLast(Pair(c)) => HistoryLast(Pair(c)')
      PROVE  PairInv'
    <2>1. PairAt(c)'
        BY <1>3, <1>a, <1>p DEF PairAt, ActsAlone
    <2>2. \A d \in Clients \ {c} : PairAt(d)'
        BY <1>a DEF PairInv, PairAt, Pair, ActsAlone, SamePayment
    <2> QED
        BY <2>1, <2>2 DEF PairInv
<1>4. CASE \/ PayStart(c) \/ LookupFails(c) \/ PayCheckVersionsAbort(c) \/ PayLocksRefused(c)
           \/ PayLockAbort(c) \/ \E r \in Refs : PayRetrievePointerList(c, r)
    BY <1>t, <1>2, <1>4, PhaseEffect DEF MovesPhase, Resting
<1>5. ASSUME NEW e \in Clients, PayReadTimestamp(c, e) PROVE PairInv'
    BY <1>t, <1>2, <1>5, PayReadTimestampEffect DEF Resting
<1>6. ASSUME NEW r \in Refs, PayRetrieveTimestamp(c, r) \/ PayRetrieveRow(c, r) PROVE PairInv'
    BY <1>t, <1>2, <1>6, PayRetrieveEffect DEF Resting
<1>7. CASE PayAcquireCommitTimestamp(c)
    BY <1>t, <1>2, <1>7, PayAcquireCommitTimestampEffect DEF Resting
<1>8. ASSUME NEW r \in Refs, PayLock(c, r) \/ PayRevertLock(c, r) PROVE PairInv'
    BY <1>t, <1>2, <1>8, PayLockEffect, PayRevertLockEffect DEF Resting
<1>9. CASE PayLocksAcquired(c)
    BY <1>t, <1>2, <1>9, PayLocksAcquiredEffect DEF Resting
<1>10. CASE AppendOldVersions(c)
    BY <1>t, <1>1, <1>10, AppendOldVersionsEffect DEF Resting
<1>11. ASSUME NEW r \in Refs, SetNewTimestamp(c, r) \/ PostUpdate(c, r) PROVE PairInv'
    BY <1>t, <1>1, <1>11, SetNewTimestampEffect, PostUpdateEffect DEF Resting
<1>12. CASE InsertIntoHistory(c)
    <2> DEFINE x == Request("history", Warehouse, 0)
    <2>1. payPc'[c] = "submit" /\ queue'[c][historyServer[c]] = queue[c][historyServer[c]] \o <<x>>
        BY <1>t, <1>12, InsertIntoHistoryEffect
    <2>2. x \in RequestType /\ x.op = "history"
        BY RequestTyped, ZeroOffset, PayRows
    <2>3. Pair(c)' = Pair(c) \o <<x>> /\ historyServer'[c] = ServerOf[Warehouse]
        BY <1>a, <1>p, <2>1 DEF PairAt, Pair, ActsAlone
    <2> HIDE DEF x
    <2>4. HistoryLast(Pair(c) \o <<x>>)
        BY <1>p, <2>2 DEF HistoryLast
    <2>5. PairAt(c)'
        BY <2>1, <2>3, <2>4 DEF PairAt
    <2>6. \A d \in Clients \ {c} : PairAt(d)'
        BY <1>a DEF PairInv, PairAt, Pair, ActsAlone, SamePayment
    <2> QED
        BY <2>5, <2>6 DEF PairInv
<1>13. CASE PaySubmitResult(c)
    <2>1. /\ payPc[c] = "submit" /\ payPc'[c] = "idle" /\ queue'[c] = queue[c]
          /\ \A i \in 1 .. Len(Pair(c)) : Pair(c)[i].op # "history"
        BY <1>t, <1>p, <1>13, PaySubmitResultEffect DEF Pair
    <2>2. Pair(c) = <<>>
        BY <1>p, <2>1, HistoryStays DEF PairAt
    <2> QED
        BY <1>1, <2>1, <2>2 DEF Pair
<1>14. ASSUME NEW s \in Servers, ExecuteRequest(c, s) PROVE PairInv'
    <2>1. /\ payPc'[c] = payPc[c] /\ queue[c][s] # <<>>
          /\ \/ queue'[c][s] = Tail(queue[c][s])
             \/ queue'[c][s] = HalfDone(queue[c][s]) /\ Head(queue[c][s]).op = "head"
          /\ \A t \in Servers \ {s} : queue'[c][t] = queue[c][t]
        BY <1>t, <1>14, ExecuteOtherEffect, ExecuteHeadEffect, ExecuteHeadRowEffect DEF ExecuteRequest
    <2>2. CASE s = ServerOf[Warehouse]
        <3>1. Pair(c) = queue[c][s] /\ Pair(c)' = queue'[c][s]
            BY <2>2 DEF Pair
        <3> QED
            BY <1>p, <1>3, <2>1, <3>1, HistoryStays
    <2>3. CASE s # ServerOf[Warehouse]
        <3>1. Pair(c)' = Pair(c)
            BY <1>p, <2>1, <2>3 DEF Pair
        <3> QED
            BY <1>3, <2>1, <3>1
    <2> QED
        BY <2>2, <2>3
<1> QED
    BY <1>4, <1>5, <1>6, <1>7, <1>8, <1>9, <1>10, <1>11, <1>12, <1>13, <1>14 DEF PayAct, PayStep

-----------------------------------------------------------------------------
(***************************************************************************)
(* Buffers and the rows they replace.                                      *)
(***************************************************************************)

\* A word its client did not announce is usable to nobody that reads.
LEMMA PayUnannouncedUnusable ==
    ASSUME PayInv, NEW c \in Clients, NEW d \in Clients, NEW r \in Refs,
           PayReadDone(c, r), PayAccessible(c, r),
           payPc[d] \in {"update", "submit"}, OwnWord(d, payHeads[c][r].ts)
    PROVE  FALSE
<1>1. c # d
    BY DEF PayReadDone
<1>2. cts[d] <= localVector[c][d]
    BY <1>1 DEF PayAccessible, isRecordAccessible, OwnWord
<1>3. localVector[c][d] <= lastCommittedVector[d]
    BY <1>1 DEF PayInv, VectorInv
<1>4. lastCommittedVector[d] < cts[d]
    BY DEF PayInv, PayVectorInv, Paying
<1>5. cts[d] \in Nat /\ lastCommittedVector[d] \in Nat /\ localVector[c][d] \in Nat
    BY DEF PayInv, PayTypeOK, TypeOK
<1> QED
    BY <1>2, <1>3, <1>4, <1>5

\* A client that is not in its updates has no new word and no new row.
LEMMA RestingIsOld ==
    ASSUME NEW c \in Clients
    PROVE  /\ Resting(c) => \A r \in Refs : ~NewWord(c, r) /\ ~NewRow(c, r)
           /\ Resting(c)' => \A r \in Refs : ~NewWord(c, r)' /\ ~NewRow(c, r)'
           /\ \A r \in Refs : NewRow(c, r) => payPc[c] \in {"update", "submit"}
           /\ \A r \in Refs : NewWord(c, r) => payPc[c] \in {"update", "submit"}
BY DEF Resting, NewWord, NewRow

LEMMA BufferStays ==
    ASSUME NEW d \in Clients, NEW r \in Refs, BufferAt(d, r), SamePayment(d),
           (r \in payWon[d] \/ Torn(d, r)) => headVersions'[r] = headVersions[r],
           headVersions[r].ytd \subseteq headVersions'[r].ytd
    PROVE  BufferAt(d, r)'
<1>1. /\ payPc'[d] = payPc[d] /\ payStage'[d] = payStage[d] /\ payHeads'[d] = payHeads[d]
      /\ payWon'[d] = payWon[d] /\ queue'[d] = queue[d] /\ cts'[d] = cts[d]
    BY DEF SamePayment, SameClient
<1>2. /\ NewWord(d, r)' <=> NewWord(d, r)
      /\ NewRow(d, r)' <=> NewRow(d, r)
      /\ UnlockPending(d, r)' <=> UnlockPending(d, r)
      /\ Torn(d, r)' <=> Torn(d, r)
      /\ OwnWord(d, payHeads[d][r].ts)' <=> OwnWord(d, payHeads[d][r].ts)
    BY <1>1 DEF NewWord, NewRow, UnlockPending, Torn, Pair, OwnWord
<1>3. r \in payWon[d] => payHeads[d][r].ytd = headVersions[r].ytd \cup (IF NewRow(d, r) THEN {cts[d]} ELSE {})
    BY DEF BufferAt
<1>4. r \in payWon'[d] =>
          payHeads'[d][r].ytd = headVersions'[r].ytd \cup (IF NewRow(d, r)' THEN {cts'[d]} ELSE {})
    <2>1. CASE NewRow(d, r)
        BY <1>1, <1>2, <1>3, <2>1
    <2>2. CASE ~NewRow(d, r)
        BY <1>1, <1>2, <1>3, <2>2
    <2> QED
        BY <2>1, <2>2
<1> QED
    BY <1>1, <1>2, <1>4 DEF BufferAt

LEMMA BufferAlone ==
    ASSUME BufferInv, NEW c \in Clients, ActsAlone(c), RowsKept, \A r \in Refs : BufferAt(c, r)'
    PROVE  BufferInv'
BY BufferStays DEF BufferInv, ActsAlone, RowsKept

LEMMA RestingBuffer ==
    ASSUME SharedQueuePair, NEW c \in Clients, Resting(c)', Pair(c)' = <<>>, NEW r \in Refs,
           r \in payWon'[c] => payHeads'[c][r].ytd = headVersions'[r].ytd
    PROVE  BufferAt(c, r)'
<1>1. /\ ~NewWord(c, r)' /\ ~NewRow(c, r)' /\ ~UnlockPending(c, r)' /\ ~Torn(c, r)'
      /\ ~(payPc'[c] \in {"update", "submit"})
    BY RestingIsOld, OnePairAfter DEF Resting
<1>2. (IF NewRow(c, r)' THEN {cts'[c]} ELSE {}) = {}
    BY <1>1
<1> QED
    BY <1>1, <1>2 DEF BufferAt

\* While a client rests, a row it owns is as it read it.
LEMMA RestingRead ==
    ASSUME BufferInv, NEW c \in Clients, Resting(c), NEW r \in Refs, r \in payWon[c]
    PROVE  payHeads[c][r].ytd = headVersions[r].ytd
<1>1. ~NewRow(c, r)
    BY RestingIsOld
<1>2. payHeads[c][r].ytd = headVersions[r].ytd \cup (IF NewRow(c, r) THEN {cts[c]} ELSE {})
    BY DEF BufferInv, BufferAt
<1>3. (IF NewRow(c, r) THEN {cts[c]} ELSE {}) = {}
    BY <1>1
<1> QED
    BY <1>2, <1>3

\* The steps of a client before it updates and after it announced.
LEMMA RestingSteps ==
    ASSUME SharedQueuePair, PayInv, PairInv, PairInv', BufferInv, NEW c \in Clients,
           \/ PayStart(c) \/ LookupFails(c) \/ PayCheckVersionsAbort(c) \/ PayLocksRefused(c)
           \/ PayLockAbort(c) \/ \E r \in Refs : PayRetrievePointerList(c, r)
           \/ \E e \in Clients : PayReadTimestamp(c, e)
           \/ \E r \in Refs : PayRetrieveTimestamp(c, r) \/ PayRetrieveRow(c, r)
           \/ PayAcquireCommitTimestamp(c) \/ PayLocksAcquired(c) \/ PaySubmitResult(c)
    PROVE  BufferInv'
<1>t. PayTypeOK /\ QueueInv
    BY DEF PayInv
<1>1. ASSUME ActsAlone(c), RowsKept, Resting(c)', Resting(c), payWon'[c] = payWon[c],
             payHeads'[c] = payHeads[c] \/ payPc[c] = "read"
      PROVE  BufferInv'
    <2>1. Pair(c)' = <<>>
        BY <1>1 DEF PairInv, PairAt, Resting
    <2>2. ASSUME NEW r \in Refs, r \in payWon'[c] PROVE payHeads'[c][r].ytd = headVersions'[r].ytd
        <3>1. payHeads[c][r].ytd = headVersions[r].ytd
            BY <1>1, <2>2, RestingRead
        <3>2. payPc[c] # "read"
            BY <1>1, <2>2, RestingOwns
        <3> QED
            BY <1>1, <3>1, <3>2 DEF RowsKept
    <2> QED
        BY <1>1, <2>1, <2>2, RestingBuffer, BufferAlone
<1>2. CASE \/ PayStart(c) \/ LookupFails(c) \/ PayCheckVersionsAbort(c) \/ PayLocksRefused(c)
           \/ PayLockAbort(c) \/ \E r \in Refs : PayRetrievePointerList(c, r)
    BY <1>t, <1>1, <1>2, PhaseEffect DEF MovesPhase, Resting
<1>3. ASSUME NEW e \in Clients, PayReadTimestamp(c, e) PROVE BufferInv'
    BY <1>t, <1>1, <1>3, PayReadTimestampEffect DEF Resting
<1>4. ASSUME NEW r \in Refs, PayRetrieveTimestamp(c, r) \/ PayRetrieveRow(c, r) PROVE BufferInv'
    BY <1>t, <1>1, <1>4, PayRetrieveEffect DEF Resting
<1>5. CASE PayAcquireCommitTimestamp(c)
    BY <1>t, <1>1, <1>5, PayAcquireCommitTimestampEffect DEF Resting
<1>6. CASE PayLocksAcquired(c)
    BY <1>t, <1>1, <1>6, PayLocksAcquiredEffect DEF Resting
<1>7. CASE PaySubmitResult(c)
    <2>1. /\ ActsAlone(c) /\ RowsKept /\ Resting(c)' /\ payPc[c] = "submit" /\ payPc'[c] = "idle"
          /\ payWon'[c] = payWon[c] /\ queue'[c] = queue[c]
        BY <1>t, <1>7, PaySubmitResultEffect DEF Resting
    <2>2. Pair(c)' = <<>>
        BY <2>1 DEF PairInv, PairAt
    <2>3. Pair(c) = <<>>
        BY <2>1, <2>2 DEF Pair
    <2>4. \A r \in Refs : r \notin payWon[c]
        <3>1. \A r \in Refs : ~UnlockPending(c, r) /\ WonAt(c, r)
            BY <2>3, OnePair DEF PayInv, OwnerInv, OwnerAt
        <3> QED
            BY <2>1, <3>1 DEF WonAt, WillUnlock, ToPost
    <2> QED
        BY <2>1, <2>2, <2>4, RestingBuffer, BufferAlone
<1> QED
    BY <1>2, <1>3, <1>4, <1>5, <1>6, <1>7

\* Appending changes no row, and no buffer of one.
LEMMA AppendBuffer ==
    ASSUME SharedQueuePair, PayInv, PairInv, BufferInv, NEW c \in Clients, AppendOldVersions(c)
    PROVE  BufferInv'
<1>t. PayTypeOK /\ QueueInv
    BY DEF PayInv
<1>1. /\ ActsAlone(c) /\ SameClient(c) /\ RowsKept
      /\ payPc[c] = "append" /\ payPc'[c] = "update" /\ payStage'[c] = 0
      /\ payHeads'[c] = payHeads[c] /\ payWon'[c] = payWon[c]
      /\ queue'[c] = WithOldVersions(c)
    BY <1>t, AppendOldVersionsEffect
<1>2. Resting(c)
    BY <1>1 DEF Resting
<1>3. ASSUME NEW r \in Refs PROVE BufferAt(c, r)'
    <2>1. ~UnlockPending(c, r)' /\ ~Torn(c, r)'
        <3>1. \A op \in {"head", "headRow"} : Awaits(WithOldVersions(c)[ServerOf[Warehouse]], op, r) <=> Awaits(Pair(c), op, r)
            BY <1>t, OnePair, OldVersionsPosted DEF Pair
        <3>2. Pair(c)' = WithOldVersions(c)[ServerOf[Warehouse]]
            BY <1>1 DEF Pair
        <3>3. \A op \in {"head", "headRow"} : ~Awaits(Pair(c), op, r)
            BY <1>2, RestingOwns, AwaitsParts
        <3> QED
            BY <3>1, <3>2, <3>3, OnePairAfter
    <2>2. ~(0 >= 2 * (Place(r) - 1) + 1) /\ ~(0 >= 2 * Place(r))
        BY Places
    <2>3. ~NewWord(c, r)' /\ ~NewRow(c, r)'
        BY <1>1, <2>2 DEF NewWord, NewRow
    <2>4. r \in payWon[c]
        BY <1>1 DEF PayInv, OwnerInv, OwnerAt, OwnsAt
    <2>5. payHeads'[c][r].ytd = headVersions'[r].ytd
        BY <1>1, <1>2, <2>4, RestingRead DEF RowsKept
    <2>6. (IF NewRow(c, r)' THEN {cts'[c]} ELSE {}) = {}
        BY <2>3
    <2> QED
        BY <1>1, <2>1, <2>3, <2>4, <2>5, <2>6 DEF BufferAt
<1> QED
    BY <1>1, <1>3, BufferAlone

\* The stages of the new words and rows.
LEMMA NewStages ==
    ASSUME NEW c \in Clients, NEW r \in Refs, payPc[c] = "update", payPc'[c] = "update",
           payStage'[c] = payStage[c] + 1
    PROVE  /\ payStage[c] = 2 * (Place(r) - 1) =>
                 /\ ~NewRow(c, r) /\ ~NewRow(c, r)'
                 /\ \A q \in Refs \ {r} : /\ NewWord(c, q)' <=> NewWord(c, q)
                                          /\ NewRow(c, q)' <=> NewRow(c, q)
           /\ payStage[c] = 2 * (Place(r) - 1) + 1 =>
                 /\ NewWord(c, r) /\ ~NewRow(c, r) /\ NewRow(c, r)'
                 /\ \A q \in Refs \ {r} : /\ NewWord(c, q)' <=> NewWord(c, q)
                                          /\ NewRow(c, q)' <=> NewRow(c, q)
<1>1. ASSUME payStage[c] = 2 * (Place(r) - 1) PROVE ~NewRow(c, r) /\ ~NewRow(c, r)'
    <2>1. ~(payStage[c] >= 2 * Place(r)) /\ ~(payStage'[c] >= 2 * Place(r))
        BY <1>1, Places
    <2> QED
        BY <2>1 DEF NewRow
<1>2. ASSUME payStage[c] = 2 * (Place(r) - 1) + 1 PROVE NewWord(c, r) /\ ~NewRow(c, r) /\ NewRow(c, r)'
    <2>1. /\ payStage[c] >= 2 * (Place(r) - 1) + 1
          /\ ~(payStage[c] >= 2 * Place(r)) /\ payStage'[c] >= 2 * Place(r)
        BY <1>2, Places
    <2> QED
        BY <2>1 DEF NewRow, NewWord
<1>3. ASSUME payStage[c] = 2 * (Place(r) - 1) \/ payStage[c] = 2 * (Place(r) - 1) + 1, NEW q \in Refs \ {r}
      PROVE  (NewWord(c, q)' <=> NewWord(c, q)) /\ (NewRow(c, q)' <=> NewRow(c, q))
    <2>1. Place(q) # Place(r)
        BY Places
    <2>2. /\ payStage'[c] >= 2 * (Place(q) - 1) + 1 <=> payStage[c] >= 2 * (Place(q) - 1) + 1
          /\ payStage'[c] >= 2 * Place(q) <=> payStage[c] >= 2 * Place(q)
        BY <1>3, <2>1, Places
    <2> QED
        BY <2>2 DEF NewWord, NewRow
<1> QED
    BY <1>1, <1>2, <1>3

LEMMA SetNewTimestampBuffer ==
    ASSUME SharedQueuePair, PayInv, BufferInv, NEW c \in Clients, NEW r \in Refs, SetNewTimestamp(c, r)
    PROVE  BufferInv'
<1>t. PayTypeOK /\ QueueInv
    BY DEF PayInv
<1>1. /\ ActsAlone(c) /\ SameClient(c) /\ RowsKept
      /\ payPc[c] = "update" /\ payPc'[c] = "update"
      /\ payStage[c] = 2 * (Place(r) - 1) /\ payStage'[c] = payStage[c] + 1
      /\ ~payHeads'[c][r].ts.locked
      /\ payHeads'[c][r].ts.clientID = c /\ payHeads'[c][r].ts.timestamp = cts[c]
      /\ payHeads'[c][r].ytd = payHeads[c][r].ytd
      /\ \A q \in Refs \ {r} : payHeads'[c][q] = payHeads[c][q]
      /\ payWon'[c] = payWon[c] /\ queue'[c] = queue[c]
    BY <1>t, SetNewTimestampEffect
<1>2. cts'[c] = cts[c] /\ \A q \in Refs : headVersions'[q] = headVersions[q]
    BY <1>1 DEF SameClient, RowsKept
<1>3. ASSUME NEW q \in Refs PROVE BufferAt(c, q)'
    <2>0. BufferAt(c, q)
        BY DEF BufferInv
    <2>1. /\ NewRow(c, q)' <=> NewRow(c, q)
          /\ q = r => ~NewRow(c, q)
          /\ q # r => (NewWord(c, q)' <=> NewWord(c, q))
        BY <1>1, NewStages
    <2>2. /\ UnlockPending(c, q)' <=> UnlockPending(c, q)
          /\ Torn(c, q)' <=> Torn(c, q)
        BY <1>1 DEF UnlockPending, Torn, Pair
    <2>3. NewWord(c, q)' => OwnWord(c, payHeads[c][q].ts)'
        <3>1. CASE q = r
            BY <1>1, <1>2, <3>1 DEF OwnWord
        <3>2. CASE q # r
            BY <1>1, <1>2, <2>0, <2>1, <3>2 DEF OwnWord, BufferAt
        <3> QED
            BY <3>1, <3>2
    <2>4. q \in payWon'[c] =>
              payHeads'[c][q].ytd = headVersions'[q].ytd \cup (IF NewRow(c, q)' THEN {cts'[c]} ELSE {})
        <3>1. payHeads'[c][q].ytd = payHeads[c][q].ytd
            BY <1>1
        <3>2. CASE NewRow(c, q)
            BY <1>1, <1>2, <2>0, <2>1, <3>1, <3>2 DEF BufferAt
        <3>3. CASE ~NewRow(c, q)
            BY <1>1, <1>2, <2>0, <2>1, <3>1, <3>3 DEF BufferAt
        <3> QED
            BY <3>2, <3>3
    <2>5. Torn(c, q) => q # r
        BY <2>0, <2>1 DEF BufferAt
    <2>6. (UnlockPending(c, q) \/ Torn(c, q)) => NewRow(c, q)
        BY <2>0 DEF BufferAt
    <2>7. Torn(c, q) => /\ q \notin payWon[c]
                        /\ headVersions[q].ts = payHeads[c][q].ts
                        /\ payHeads[c][q].ytd = headVersions[q].ytd \cup {cts[c]}
        BY <2>0 DEF BufferAt
    <2>8. (q \notin payWon[c] /\ ~Torn(c, q)) => cts[c] \in headVersions[q].ytd
        BY <1>1, <2>0 DEF BufferAt
    <2> QED
        BY <1>1, <1>2, <2>1, <2>2, <2>3, <2>4, <2>5, <2>6, <2>7, <2>8 DEF BufferAt
<1> QED
    BY <1>1, <1>3, BufferAlone

\* A client that acts keeps what it has of a row it does not touch.
LEMMA BufferHeld ==
    ASSUME NEW c \in Clients, NEW q \in Refs, BufferAt(c, q),
           payPc'[c] = payPc[c] \/ (payPc[c] = "update" /\ payPc'[c] = "submit"),
           payHeads'[c][q] = payHeads[c][q], cts'[c] = cts[c],
           headVersions'[q] = headVersions[q], q \in payWon'[c] <=> q \in payWon[c],
           NewWord(c, q)' <=> NewWord(c, q), NewRow(c, q)' <=> NewRow(c, q),
           UnlockPending(c, q)' <=> UnlockPending(c, q), Torn(c, q)' <=> Torn(c, q)
    PROVE  BufferAt(c, q)'
<1>1. OwnWord(c, payHeads[c][q].ts)' <=> OwnWord(c, payHeads[c][q].ts)
    BY DEF OwnWord
<1>2. q \in payWon[c] => payHeads[c][q].ytd = headVersions[q].ytd \cup (IF NewRow(c, q) THEN {cts[c]} ELSE {})
    BY DEF BufferAt
<1>3. (IF NewRow(c, q) THEN {cts[c]} ELSE {}) = (IF NewRow(c, q)' THEN {cts'[c]} ELSE {})
    OBVIOUS
<1>4. q \in payWon'[c] =>
          payHeads'[c][q].ytd = headVersions'[q].ytd \cup (IF NewRow(c, q)' THEN {cts'[c]} ELSE {})
    BY <1>2, <1>3
<1>5. payPc'[c] \in {"update", "submit"} => payPc[c] \in {"update", "submit"}
    OBVIOUS
<1> QED
    BY <1>1, <1>4, <1>5 DEF BufferAt

\* Posting the new head of r.
LEMMA PostUpdateBuffer ==
    ASSUME SharedQueuePair, PayInv, BufferInv, NEW c \in Clients, NEW r \in Refs, PostUpdate(c, r)
    PROVE  BufferInv'
<1>t. PayTypeOK /\ QueueInv
    BY DEF PayInv
<1>1. /\ ActsAlone(c) /\ SameClient(c) /\ RowsKept
      /\ payPc[c] = "update" /\ payPc'[c] = "update"
      /\ payStage[c] = 2 * (Place(r) - 1) + 1 /\ payStage'[c] = payStage[c] + 1
      /\ payHeads'[c][r].ts = payHeads[c][r].ts
      /\ payHeads'[c][r].ytd = payHeads[c][r].ytd \cup {cts[c]}
      /\ \A q \in Refs \ {r} : payHeads'[c][q] = payHeads[c][q]
      /\ payWon'[c] = payWon[c]
    BY <1>t, PostUpdateEffect
<1>q. queue'[c][ServerOf[r]] = queue[c][ServerOf[r]] \o <<Request("head", r, 0)>>
    BY <1>t, PostUpdateQueue
<1>2. cts'[c] = cts[c] /\ \A q \in Refs : headVersions'[q] = headVersions[q]
    BY <1>1 DEF SameClient, RowsKept
<1>3. \A q \in Refs : /\ UnlockPending(c, q)' <=> (UnlockPending(c, q) \/ q = r)
                      /\ Torn(c, q)' <=> Torn(c, q)
    <2> DEFINE x == Request("head", r, 0)
    <2>1. x \in RequestType /\ x.op = "head" /\ x.row = r
        BY RequestTyped, ZeroOffset
    <2>2. Pair(c)' = Pair(c) \o <<x>> /\ Pair(c) \in Seq(RequestType)
        BY <1>q, <1>t, OnePair, BuffersTyped DEF Pair
    <2> HIDE DEF x
    <2>3. \A q \in Refs : /\ Awaits(Pair(c) \o <<x>>, "head", q) <=> (Awaits(Pair(c), "head", q) \/ q = r)
                          /\ Awaits(Pair(c) \o <<x>>, "headRow", q) <=> Awaits(Pair(c), "headRow", q)
        BY <2>1, <2>2, AwaitsPost
    <2> QED
        BY <2>2, <2>3, OnePair, OnePairAfter DEF Torn
<1>4. ASSUME NEW q \in Refs PROVE BufferAt(c, q)'
    <2>0. BufferAt(c, q)
        BY DEF BufferInv
    <2>1. CASE q # r
        BY <1>1, <1>2, <1>3, <2>0, <2>1, NewStages, BufferHeld
    <2>2. CASE q = r
        <3>1. NewWord(c, r) /\ ~NewRow(c, r) /\ NewRow(c, r)'
            BY <1>1, NewStages
        <3>2. r \in payWon[c]
            <4>1. ToPost(c, r)
                BY <1>1, UpdateStages
            <4> QED
                BY <4>1 DEF PayInv, OwnerInv, OwnerAt, OwnsAt
        <3>3. ~Torn(c, r)
            BY <2>0, <2>2, <3>2 DEF BufferAt
        <3>4. OwnWord(c, payHeads[c][r].ts)'
            BY <1>1, <1>2, <2>0, <2>2, <3>1 DEF BufferAt, OwnWord
        <3>5. payHeads[c][r].ytd = headVersions[r].ytd \cup (IF NewRow(c, r) THEN {cts[c]} ELSE {})
            BY <2>0, <2>2, <3>2 DEF BufferAt
        <3>6. (IF NewRow(c, r) THEN {cts[c]} ELSE {}) = {} /\ (IF NewRow(c, r)' THEN {cts'[c]} ELSE {}) = {cts[c]}
            BY <1>2, <3>1
        <3>7. payHeads'[c][r].ytd = headVersions'[r].ytd \cup (IF NewRow(c, r)' THEN {cts'[c]} ELSE {})
            BY <1>1, <1>2, <3>5, <3>6
        <3> QED
            BY <1>1, <1>3, <2>2, <3>1, <3>2, <3>3, <3>4, <3>7 DEF BufferAt
    <2> QED
        BY <2>1, <2>2
<1> QED
    BY <1>1, <1>4, BufferAlone

\* The history row changes nothing of the three others.
LEMMA InsertIntoHistoryBuffer ==
    ASSUME SharedQueuePair, PayInv, PairInv, BufferInv, NEW c \in Clients, InsertIntoHistory(c)
    PROVE  BufferInv'
<1>t. PayTypeOK /\ QueueInv
    BY DEF PayInv
<1>1. /\ ActsAlone(c) /\ SameClient(c) /\ RowsKept
      /\ payPc[c] = "update" /\ payPc'[c] = "submit" /\ payStage[c] = 6
      /\ payHeads'[c] = payHeads[c] /\ payWon'[c] = payWon[c]
      /\ queue'[c][historyServer[c]] = queue[c][historyServer[c]] \o <<Request("history", Warehouse, 0)>>
    BY <1>t, InsertIntoHistoryEffect
<1>2. cts'[c] = cts[c] /\ \A q \in Refs : headVersions'[q] = headVersions[q]
    BY <1>1 DEF SameClient, RowsKept
<1>3. \A q \in Refs : /\ UnlockPending(c, q)' <=> UnlockPending(c, q)
                      /\ Torn(c, q)' <=> Torn(c, q)
    <2> DEFINE x == Request("history", Warehouse, 0)
    <2>1. x \in RequestType /\ x.op = "history"
        BY RequestTyped, ZeroOffset, PayRows
    <2>2. Pair(c)' = Pair(c) \o <<x>> /\ Pair(c) \in Seq(RequestType)
        BY <1>1, <1>t, PayRows, BuffersTyped DEF Pair, PairInv, PairAt
    <2> HIDE DEF x
    <2>3. \A q \in Refs : \A op \in {"head", "headRow"} :
              Awaits(Pair(c) \o <<x>>, op, q) <=> Awaits(Pair(c), op, q)
        BY <2>1, <2>2, AwaitsPost
    <2> QED
        BY <2>2, <2>3, OnePair, OnePairAfter DEF Torn
<1>4. ASSUME NEW q \in Refs PROVE NewWord(c, q) /\ NewRow(c, q) /\ NewWord(c, q)' /\ NewRow(c, q)'
    <2>1. 6 >= 2 * (Place(q) - 1) + 1 /\ 6 >= 2 * Place(q)
        BY Places
    <2> QED
        BY <1>1, <2>1 DEF NewWord, NewRow
<1>5. ASSUME NEW q \in Refs PROVE BufferAt(c, q)'
    <2>1. BufferAt(c, q)
        BY DEF BufferInv
    <2> QED
        BY <1>1, <1>2, <1>3, <1>4, <2>1, BufferHeld
<1> QED
    BY <1>1, <1>5, BufferAlone

\* Neither do the older versions and the completion.
LEMMA ExecuteOtherBuffer ==
    ASSUME SharedQueuePair, PayInv, BufferInv, NEW c \in Clients, NEW s \in Servers,
           ExecutePointers(c, s) \/ ExecuteOlder(c, s) \/ ExecuteHistory(c, s)
    PROVE  BufferInv'
<1>t. PayTypeOK /\ QueueInv
    BY DEF PayInv
<1>1. /\ ActsAlone(c) /\ RowsKept /\ SameClient(c)
      /\ payPc'[c] = payPc[c] /\ payStage'[c] = payStage[c] /\ payHeads'[c] = payHeads[c]
      /\ payWon'[c] = payWon[c]
      /\ \A t \in Servers, q \in Refs : \A op \in {"head", "headRow"} :
            Awaits(queue'[c][t], op, q) <=> Awaits(queue[c][t], op, q)
    BY <1>t, ExecuteOtherEffect
<1>2. cts'[c] = cts[c] /\ \A q \in Refs : headVersions'[q] = headVersions[q]
    BY <1>1 DEF SameClient, RowsKept
<1>3. \A q \in Refs : /\ UnlockPending(c, q)' <=> UnlockPending(c, q)
                      /\ Torn(c, q)' <=> Torn(c, q)
    BY <1>1, OnePair, OnePairAfter DEF Torn, Pair
<1>4. \A q \in Refs : (NewWord(c, q)' <=> NewWord(c, q)) /\ (NewRow(c, q)' <=> NewRow(c, q))
    BY <1>1 DEF NewWord, NewRow
<1>5. ASSUME NEW q \in Refs PROVE BufferAt(c, q)'
    <2>1. BufferAt(c, q)
        BY DEF BufferInv
    <2> QED
        BY <1>1, <1>2, <1>3, <1>4, <2>1, BufferHeld
<1> QED
    BY <1>1, <1>5, BufferAlone

-----------------------------------------------------------------------------
(***************************************************************************)
(* The steps that change a head version.                                   *)
(***************************************************************************)

\* What they have in common.
Touches(c, r) ==
    /\ ActsAlone(c) /\ SameClient(c)
    /\ payPc'[c] = payPc[c] /\ payStage'[c] = payStage[c] /\ payHeads'[c] = payHeads[c]
    /\ \A q \in Refs \ {r} : headVersions'[q] = headVersions[q] /\ (q \in payWon'[c] <=> q \in payWon[c])

\* Its compare-and-swap succeeds ...
Takes(c, r) ==
    /\ Touches(c, r)
    /\ payPc[c] = "lock" /\ queue'[c] = queue[c]
    /\ headVersions[r].ts = payHeads[c][r].ts
    /\ headVersions'[r].ts = PayLockTimestamp(c, r)
    /\ headVersions'[r].ytd = headVersions[r].ytd

\* ... or it reverts the lock ...
GivesBack(c, r) ==
    /\ Touches(c, r)
    /\ payPc[c] = "revert" /\ queue'[c] = queue[c]
    /\ r \in payWon[c] /\ r \notin payWon'[c]
    /\ headVersions'[r].ts = payHeads[c][r].ts
    /\ headVersions'[r].ytd = headVersions[r].ytd

\* ... or the new word is written ...
Unlocks(c, r) ==
    /\ Touches(c, r)
    /\ UnlockPending(c, r) /\ r \notin payWon'[c]
    /\ headVersions'[r].ts = payHeads[c][r].ts
    /\ headVersions'[r].ytd = headVersions[r].ytd
    /\ \A q \in Refs : /\ UnlockPending(c, q)' <=> (q # r /\ UnlockPending(c, q))
                       /\ Torn(c, q)' <=> q = r
                       /\ ~Torn(c, q)

\* ... or the new row.
Installs(c, r) ==
    /\ Touches(c, r)
    /\ r \in payWon'[c] <=> r \in payWon[c]
    /\ headVersions'[r].ts = headVersions[r].ts
    /\ headVersions'[r].ytd = payHeads[c][r].ytd
    /\ \A q \in Refs : /\ UnlockPending(c, q)' <=> UnlockPending(c, q)
                       /\ ~Torn(c, q)'
                       /\ Torn(c, q) <=> q = r

Changes(c, r) == Takes(c, r) \/ GivesBack(c, r) \/ Unlocks(c, r) \/ Installs(c, r)

\* The steps that do not.
LeavesRows(c) ==
    /\ RowsKept
    /\ \A r \in Refs : r \in payWon'[c] => r \in payWon[c]

LEMMA LockChanges ==
    ASSUME PayTypeOK, NEW c \in Clients, NEW r \in Refs
    PROVE  /\ PayLock(c, r) => Takes(c, r) \/ (LeavesRows(c) /\ payPc'[c] = "lock" /\ payPc[c] = "lock"
                                               /\ ActsAlone(c) /\ SameClient(c) /\ payHeads'[c] = payHeads[c]
                                               /\ payWon'[c] = payWon[c] /\ queue'[c] = queue[c]
                                               /\ payStage'[c] = payStage[c])
           /\ PayRevertLock(c, r) => GivesBack(c, r)
<1>1. ASSUME PayLock(c, r) PROVE payStage' = payStage
    BY <1>1 DEF PayLock, Locking
<1>2. ASSUME PayRevertLock(c, r) PROVE payStage' = payStage
    BY <1>2 DEF PayRevertLock
<1>3. ASSUME PayLock(c, r)
      PROVE  Takes(c, r) \/ (LeavesRows(c) /\ payPc'[c] = "lock" /\ payPc[c] = "lock"
                             /\ ActsAlone(c) /\ SameClient(c) /\ payHeads'[c] = payHeads[c]
                             /\ payWon'[c] = payWon[c] /\ queue'[c] = queue[c]
                             /\ payStage'[c] = payStage[c])
    <2>1. /\ ActsAlone(c) /\ SameClient(c)
          /\ payPc[c] = "lock" /\ payPc'[c] = "lock"
          /\ payHeads'[c] = payHeads[c] /\ queue'[c] = queue[c]
          /\ \A q \in Refs \ {r} : headVersions'[q] = headVersions[q]
        BY <1>3, PayLockEffect
    <2>2. CASE /\ headVersions[r].ts = payHeads[c][r].ts
               /\ headVersions'[r].ts = PayLockTimestamp(c, r)
               /\ headVersions'[r].ytd = headVersions[r].ytd
               /\ payWon'[c] = payWon[c] \cup {r}
        BY <1>1, <1>3, <2>1, <2>2 DEF Takes, Touches
    <2>3. CASE headVersions'[r] = headVersions[r] /\ payWon'[c] = payWon[c]
        BY <1>1, <1>3, <2>1, <2>3 DEF LeavesRows, RowsKept
    <2> QED
        BY <1>3, <2>2, <2>3, PayLockEffect
<1>4. ASSUME PayRevertLock(c, r) PROVE GivesBack(c, r)
    BY <1>2, <1>4, PayRevertLockEffect DEF GivesBack, Touches
<1> QED
    BY <1>3, <1>4

LEMMA ExecuteChanges ==
    ASSUME SharedQueuePair, PayTypeOK, QueueInv, NEW c \in Clients, NEW s \in Servers
    PROVE  /\ ExecuteHead(c, s) => \E r \in Refs : Unlocks(c, r)
           /\ ExecuteHeadRow(c, s) => \E r \in Refs : Installs(c, r)
<1>1. ASSUME ExecuteHead(c, s) PROVE \E r \in Refs : Unlocks(c, r)
    <2>1. PICK r \in Refs :
              /\ ActsAlone(c) /\ SameClient(c) /\ ServerOf[r] = s /\ UnlockPending(c, r)
              /\ headVersions'[r].ts = payHeads[c][r].ts
              /\ headVersions'[r].ytd = headVersions[r].ytd
              /\ \A q \in Refs \ {r} : headVersions'[q] = headVersions[q]
              /\ payPc'[c] = payPc[c] /\ payStage'[c] = payStage[c] /\ payHeads'[c] = payHeads[c]
              /\ payWon'[c] = payWon[c] \ {r}
              /\ \A q \in Refs : Awaits(queue'[c][s], "head", q) <=> (q # r /\ Awaits(queue[c][s], "head", q))
              /\ \A q \in Refs : Awaits(queue'[c][s], "headRow", q) <=> q = r
              /\ \A q \in Refs : ~Awaits(queue[c][s], "headRow", q)
        BY <1>1, ExecuteHeadEffect
    <2>2. Pair(c) = queue[c][s] /\ Pair(c)' = queue'[c][s]
        BY <2>1, OnePair DEF Pair
    <2>3. \A q \in Refs : /\ UnlockPending(c, q)' <=> (q # r /\ UnlockPending(c, q))
                          /\ Torn(c, q)' <=> q = r
                          /\ ~Torn(c, q)
        BY <2>1, <2>2, OnePair, OnePairAfter DEF Torn
    <2> QED
        BY <2>1, <2>3 DEF Unlocks, Touches
<1>2. ASSUME ExecuteHeadRow(c, s) PROVE \E r \in Refs : Installs(c, r)
    <2>1. PICK r \in Refs :
              /\ ActsAlone(c) /\ SameClient(c) /\ ServerOf[r] = s /\ Awaits(queue[c][s], "headRow", r)
              /\ headVersions'[r].ts = headVersions[r].ts
              /\ headVersions'[r].ytd = payHeads[c][r].ytd
              /\ \A q \in Refs \ {r} : headVersions'[q] = headVersions[q]
              /\ payPc'[c] = payPc[c] /\ payStage'[c] = payStage[c] /\ payHeads'[c] = payHeads[c]
              /\ payWon'[c] = payWon[c]
              /\ \A q \in Refs : Awaits(queue'[c][s], "head", q) <=> Awaits(queue[c][s], "head", q)
              /\ \A q \in Refs : ~Awaits(queue'[c][s], "headRow", q)
              /\ \A q \in Refs : Awaits(queue[c][s], "headRow", q) <=> q = r
        BY <1>2, ExecuteHeadRowEffect
    <2>2. Pair(c) = queue[c][s] /\ Pair(c)' = queue'[c][s]
        BY <2>1, OnePair DEF Pair
    <2>3. \A q \in Refs : /\ UnlockPending(c, q)' <=> UnlockPending(c, q)
                          /\ ~Torn(c, q)'
                          /\ Torn(c, q) <=> q = r
        BY <2>1, <2>2, OnePair, OnePairAfter DEF Torn
    <2> QED
        BY <2>1, <2>3 DEF Installs, Touches
<1> QED
    BY <1>1, <1>2

\* Every other step leaves the head versions alone.
LEMMA RowSteps ==
    ASSUME SharedQueuePair, PayTypeOK, QueueInv, NEW c \in Clients, PayAct(c)
    PROVE  LeavesRows(c) \/ \E r \in Refs : Changes(c, r)
<1>1. CASE \/ PayStart(c) \/ LookupFails(c) \/ PayCheckVersionsAbort(c) \/ PayLocksRefused(c)
           \/ PayLockAbort(c) \/ \E r \in Refs : PayRetrievePointerList(c, r)
    BY <1>1, PhaseEffect DEF MovesPhase, LeavesRows
<1>2. ASSUME NEW e \in Clients, PayReadTimestamp(c, e) PROVE LeavesRows(c)
    BY <1>2, PayReadTimestampEffect DEF LeavesRows
<1>3. ASSUME NEW r \in Refs,
             \/ PayRetrieveTimestamp(c, r) \/ PayRetrieveRow(c, r)
             \/ SetNewTimestamp(c, r) \/ PostUpdate(c, r)
      PROVE  LeavesRows(c)
    BY <1>3, PayRetrieveEffect, SetNewTimestampEffect, PostUpdateEffect DEF LeavesRows
<1>4. ASSUME NEW r \in Refs, PayLock(c, r) \/ PayRevertLock(c, r)
      PROVE  LeavesRows(c) \/ Changes(c, r)
    BY <1>4, LockChanges DEF Changes
<1>5. CASE \/ PayAcquireCommitTimestamp(c) \/ PayLocksAcquired(c) \/ AppendOldVersions(c)
           \/ InsertIntoHistory(c) \/ PaySubmitResult(c)
    BY <1>5, PayAcquireCommitTimestampEffect, PayLocksAcquiredEffect, AppendOldVersionsEffect,
       InsertIntoHistoryEffect, PaySubmitResultEffect DEF LeavesRows
<1>6. ASSUME NEW s \in Servers, ExecuteRequest(c, s)
      PROVE  LeavesRows(c) \/ \E r \in Refs : Changes(c, r)
    <2>1. CASE ExecutePointers(c, s) \/ ExecuteOlder(c, s) \/ ExecuteHistory(c, s)
        BY <2>1, ExecuteOtherEffect DEF LeavesRows
    <2>2. CASE ExecuteHead(c, s) \/ ExecuteHeadRow(c, s)
        BY <2>2, ExecuteChanges DEF Changes
    <2> QED
        BY <1>6, <2>1, <2>2 DEF ExecuteRequest
<1> QED
    BY <1>1, <1>2, <1>3, <1>4, <1>5, <1>6 DEF PayAct, PayStep

LEMMA StageTyped ==
    ASSUME PayInv, NEW c \in Clients
    PROVE  payStage[c] \in Nat
<1>1. payStage \in [Clients -> 0 .. 9]
    BY DEF PayInv, PayTypeOK
<1>2. payStage[c] \in 0 .. 9
    BY <1>1
<1> QED
    BY <1>2

\* A half written head is under its writer's word.
LEMMA TornWord ==
    ASSUME PayInv, BufferInv, NEW d \in Clients, NEW r \in Refs, Torn(d, r)
    PROVE  /\ payPc[d] \in {"update", "submit"}
           /\ r \notin payWon[d]
           /\ OwnWord(d, headVersions[r].ts)
           /\ payHeads[d][r].ytd = headVersions[r].ytd \cup {cts[d]}
<1>0. BufferAt(d, r)
    BY DEF BufferInv
<1>1. NewRow(d, r) /\ r \notin payWon[d] /\ headVersions[r].ts = payHeads[d][r].ts
      /\ payHeads[d][r].ytd = headVersions[r].ytd \cup {cts[d]}
    BY <1>0 DEF BufferAt
<1>2. payStage[d] >= 2 * Place(r) => payStage[d] >= 2 * (Place(r) - 1) + 1
    BY StageTyped, Places
<1>3. NewWord(d, r)
    BY <1>1, <1>2 DEF NewWord, NewRow
<1>4. payPc[d] \in {"update", "submit"}
    BY <1>1 DEF NewRow
<1> QED
    BY <1>0, <1>1, <1>3, <1>4 DEF BufferAt

\* What a client's pending request installs is its own word, and new.
LEMMA PendingWord ==
    ASSUME PayInv, BufferInv, NEW c \in Clients, NEW r \in Refs, UnlockPending(c, r)
    PROVE  /\ payPc[c] \in {"update", "submit"} /\ NewRow(c, r)
           /\ r \in payWon[c]
           /\ OwnWord(c, payHeads[c][r].ts)
           /\ payHeads[c][r].ytd = headVersions[r].ytd \cup {cts[c]}
<1>0. BufferAt(c, r) /\ OwnerAt(c, r)
    BY DEF BufferInv, PayInv, OwnerInv
<1>1. NewRow(c, r) /\ r \in payWon[c]
    BY <1>0 DEF BufferAt, OwnerAt, OwnsAt
<1>2. payPc[c] \in {"update", "submit"}
    BY <1>1 DEF NewRow
<1>3. NewWord(c, r)
    <2>1. payStage[c] >= 2 * Place(r) => payStage[c] >= 2 * (Place(r) - 1) + 1
        BY StageTyped, Places
    <2> QED
        BY <1>1, <2>1 DEF NewRow, NewWord
<1>4. payHeads[c][r].ytd = headVersions[r].ytd \cup (IF NewRow(c, r) THEN {cts[c]} ELSE {})
    BY <1>0, <1>1 DEF BufferAt
<1>5. (IF NewRow(c, r) THEN {cts[c]} ELSE {}) = {cts[c]}
    BY <1>1
<1> QED
    BY <1>0, <1>1, <1>2, <1>3, <1>4, <1>5 DEF BufferAt

-----------------------------------------------------------------------------
(***************************************************************************)
(* They disturb nobody.                                                    *)
(***************************************************************************)

\* Nobody else owns the row, or has half written it, and no payment is lost.
LEMMA ChangesSpareOthers ==
    ASSUME PayInv, BufferInv, NEW c \in Clients, NEW r \in Refs, Changes(c, r)
    PROVE  /\ \A d \in Clients \ {c} : r \notin payWon[d] /\ ~Torn(d, r)
           /\ headVersions[r].ytd \subseteq headVersions'[r].ytd
<1>t. PayTypeOK /\ OwnerInv /\ \A d \in Clients : OwnerAt(d, r)
    BY DEF PayInv, OwnerInv
<1>w. \A d \in Clients : r \in payWon[d] => headVersions[r].ts.locked /\ headVersions[r].ts.clientID = d
    BY <1>t DEF OwnerAt, WonAt
<1>1. CASE Takes(c, r)
    <2>1. payPc[c] = "lock" /\ headVersions[r].ts = payHeads[c][r].ts
          /\ headVersions'[r].ytd = headVersions[r].ytd
        BY <1>1 DEF Takes
    <2>2. PayAccessible(c, r) /\ PayReadDone(c, r)
        BY <1>t, <2>1 DEF OwnerAt, CheckedPayment, PayReadDone
    <2>3. ~headVersions[r].ts.locked
        BY <2>1, <2>2 DEF PayAccessible, isRecordAccessible
    <2>4. ASSUME NEW d \in Clients \ {c}, Torn(d, r) PROVE FALSE
        <3>1. payPc[d] \in {"update", "submit"} /\ OwnWord(d, payHeads[c][r].ts)
            BY <2>1, <2>4, TornWord
        <3> QED
            BY <2>2, <3>1, PayUnannouncedUnusable
    <2> QED
        BY <1>w, <2>1, <2>3, <2>4
<1>2. CASE GivesBack(c, r) \/ Unlocks(c, r)
    <2>1. r \in payWon[c] /\ headVersions'[r].ytd = headVersions[r].ytd
        BY <1>t, <1>2 DEF GivesBack, Unlocks, OwnerAt, OwnsAt
    <2>2. ASSUME NEW d \in Clients \ {c}, Torn(d, r) PROVE FALSE
        BY <1>w, <2>1, <2>2, TornWord DEF OwnWord
    <2> QED
        BY <1>w, <2>1, <2>2
<1>3. CASE Installs(c, r)
    <2>1. Torn(c, r) /\ headVersions'[r].ytd = payHeads[c][r].ytd
        BY <1>3 DEF Installs
    <2>2. /\ ~headVersions[r].ts.locked /\ headVersions[r].ts.clientID = c
          /\ payHeads[c][r].ytd = headVersions[r].ytd \cup {cts[c]}
        BY <2>1, TornWord DEF OwnWord
    <2>3. ASSUME NEW d \in Clients \ {c}, Torn(d, r) PROVE FALSE
        BY <2>2, <2>3, TornWord DEF OwnWord
    <2> QED
        BY <1>w, <2>1, <2>2, <2>3
<1> QED
    BY <1>1, <1>2, <1>3 DEF Changes

\* No step of a payment takes a payment out of a row.
LEMMA BalancesGrow ==
    ASSUME SharedQueuePair, PayInv, BufferInv, NEW c \in Clients, PayAct(c)
    PROVE  \A r \in Refs : headVersions[r].ytd \subseteq headVersions'[r].ytd
<1>1. CASE LeavesRows(c)
    BY <1>1 DEF LeavesRows, RowsKept
<1>2. ASSUME NEW q \in Refs, Changes(c, q) PROVE \A r \in Refs : headVersions[r].ytd \subseteq headVersions'[r].ytd
    <2>1. \A r \in Refs \ {q} : headVersions'[r] = headVersions[r]
        BY <1>2 DEF Changes, Takes, GivesBack, Unlocks, Installs, Touches
    <2> QED
        BY <1>2, <2>1, ChangesSpareOthers
<1> QED
    BY <1>1, <1>2, RowSteps DEF PayInv

LEMMA ChangesBuffer ==
    ASSUME SharedQueuePair, PayInv, PairInv, BufferInv, PayIdentityInv,
           NEW c \in Clients, NEW r \in Refs, Changes(c, r)
    PROVE  BufferInv'
<1>1. /\ ActsAlone(c) /\ SameClient(c)
      /\ payPc'[c] = payPc[c] /\ payStage'[c] = payStage[c] /\ payHeads'[c] = payHeads[c]
      /\ \A q \in Refs \ {r} : headVersions'[q] = headVersions[q] /\ (q \in payWon'[c] <=> q \in payWon[c])
    BY DEF Changes, Takes, GivesBack, Unlocks, Installs, Touches
<1>2. cts'[c] = cts[c]
    BY <1>1 DEF SameClient
<1>3. ASSUME NEW d \in Clients \ {c}, NEW q \in Refs PROVE BufferAt(d, q)'
    <2>1. BufferAt(d, q) /\ SamePayment(d)
        BY <1>1 DEF BufferInv, ActsAlone
    <2>2. CASE q = r
        BY <2>1, <2>2, ChangesSpareOthers, BufferStays
    <2>3. CASE q # r
        BY <1>1, <2>1, <2>3, BufferStays
    <2> QED
        BY <2>2, <2>3
<1>4. \A q \in Refs : (NewWord(c, q)' <=> NewWord(c, q)) /\ (NewRow(c, q)' <=> NewRow(c, q))
    BY <1>1 DEF NewWord, NewRow
<1>5. ASSUME NEW q \in Refs \ {r} PROVE BufferAt(c, q)'
    <2>1. BufferAt(c, q)
        BY DEF BufferInv
    <2>2. /\ UnlockPending(c, q)' <=> UnlockPending(c, q)
          /\ Torn(c, q)' <=> Torn(c, q)
        <3>1. CASE Takes(c, r) \/ GivesBack(c, r)
            BY <3>1 DEF Takes, GivesBack, UnlockPending, Torn, Pair
        <3>2. CASE Unlocks(c, r) \/ Installs(c, r)
            BY <3>2 DEF Unlocks, Installs
        <3> QED
            BY <3>1, <3>2 DEF Changes
    <2> QED
        BY <1>1, <1>2, <1>4, <2>1, <2>2, BufferHeld
<1>6. BufferAt(c, r)'
    <2>0. BufferAt(c, r) /\ OwnerAt(c, r)
        BY DEF BufferInv, PayInv, OwnerInv
    <2>1. CASE Takes(c, r) \/ GivesBack(c, r)
        <3>1. Resting(c) /\ Resting(c)' /\ Pair(c)' = Pair(c)
            BY <1>1, <2>1 DEF Takes, GivesBack, Resting, Pair
        <3>2. Pair(c)' = <<>>
            BY <3>1, RestingOwns
        <3>3. CASE Takes(c, r)
            <4>1. payPc[c] = "lock" /\ headVersions[r].ts = payHeads[c][r].ts
                  /\ headVersions'[r].ytd = headVersions[r].ytd
                BY <3>3 DEF Takes
            <4>2. PayReadDone(c, r) /\ PayAccessible(c, r)
                BY <2>0, <4>1 DEF PayReadDone, OwnerAt, CheckedPayment
            <4>3. headVersions[r].ytd = payHeads[c][r].ytd
                BY <4>1, <4>2 DEF PayIdentityInv, PayIdentityAt
            <4> QED
                BY <1>1, <3>1, <3>2, <4>1, <4>3, RestingBuffer
        <3>4. CASE GivesBack(c, r)
            BY <3>1, <3>2, <3>4, RestingBuffer DEF GivesBack
        <3> QED
            BY <2>1, <3>3, <3>4
    <2>2. CASE Unlocks(c, r)
        <3>1. /\ UnlockPending(c, r) /\ r \notin payWon'[c]
              /\ headVersions'[r].ts = payHeads[c][r].ts
              /\ headVersions'[r].ytd = headVersions[r].ytd
              /\ ~UnlockPending(c, r)' /\ Torn(c, r)'
            BY <2>2 DEF Unlocks
        <3>2. NewRow(c, r) /\ OwnWord(c, payHeads[c][r].ts)
              /\ payHeads[c][r].ytd = headVersions[r].ytd \cup {cts[c]}
            BY <3>1, PendingWord
        <3>3. OwnWord(c, payHeads[c][r].ts)'
            BY <1>1, <1>2, <3>2 DEF OwnWord
        <3> QED
            BY <1>1, <1>2, <1>4, <3>1, <3>2, <3>3 DEF BufferAt
    <2>3. CASE Installs(c, r)
        <3>1. /\ Torn(c, r) /\ ~Torn(c, r)'
              /\ UnlockPending(c, r)' <=> UnlockPending(c, r)
              /\ r \in payWon'[c] <=> r \in payWon[c]
              /\ headVersions'[r].ts = headVersions[r].ts
              /\ headVersions'[r].ytd = payHeads[c][r].ytd
            BY <2>3 DEF Installs
        <3>2. r \notin payWon[c] /\ cts[c] \in payHeads[c][r].ytd
            BY <3>1, TornWord
        <3>3. NewWord(c, r)' => OwnWord(c, payHeads[c][r].ts)'
            BY <1>1, <1>2, <1>4, <2>0 DEF OwnWord, BufferAt
        <3>4. UnlockPending(c, r)' => NewRow(c, r)'
            BY <1>4, <2>0, <3>1 DEF BufferAt
        <3> QED
            BY <1>1, <1>2, <3>1, <3>2, <3>3, <3>4 DEF BufferAt
    <2> QED
        BY <2>1, <2>2, <2>3 DEF Changes
<1> QED
    BY <1>3, <1>5, <1>6 DEF BufferInv

LEMMA BufferStep ==
    ASSUME SharedQueuePair, PayInv, PairInv, BufferInv, PayIdentityInv, NEW c \in Clients, PayAct(c)
    PROVE  BufferInv'
<1>t. PayTypeOK /\ QueueInv /\ PairInv'
    BY PairStep DEF PayInv
<1>1. CASE \/ PayStart(c) \/ LookupFails(c) \/ PayCheckVersionsAbort(c) \/ PayLocksRefused(c)
           \/ PayLockAbort(c) \/ \E r \in Refs : PayRetrievePointerList(c, r)
           \/ \E e \in Clients : PayReadTimestamp(c, e)
           \/ \E r \in Refs : PayRetrieveTimestamp(c, r) \/ PayRetrieveRow(c, r)
           \/ PayAcquireCommitTimestamp(c) \/ PayLocksAcquired(c) \/ PaySubmitResult(c)
    BY <1>t, <1>1, RestingSteps
<1>2. ASSUME NEW r \in Refs, SetNewTimestamp(c, r) \/ PostUpdate(c, r) PROVE BufferInv'
    BY <1>2, SetNewTimestampBuffer, PostUpdateBuffer
<1>3. CASE AppendOldVersions(c) \/ InsertIntoHistory(c)
    BY <1>3, AppendBuffer, InsertIntoHistoryBuffer
<1>4. ASSUME NEW r \in Refs, PayLock(c, r) \/ PayRevertLock(c, r) PROVE BufferInv'
    <2>1. CASE Takes(c, r) \/ GivesBack(c, r)
        BY <2>1, ChangesBuffer DEF Changes
    <2>2. CASE /\ LeavesRows(c) /\ payPc'[c] = "lock" /\ payPc[c] = "lock"
               /\ ActsAlone(c) /\ SameClient(c) /\ payHeads'[c] = payHeads[c]
               /\ payWon'[c] = payWon[c] /\ queue'[c] = queue[c]
        <3>1. Resting(c) /\ Resting(c)' /\ Pair(c)' = <<>> /\ RowsKept
            BY <1>t, <2>2 DEF Resting, PairInv, PairAt, LeavesRows
        <3>2. \A q \in Refs : q \in payWon'[c] => payHeads'[c][q].ytd = headVersions'[q].ytd
            BY <2>2, <3>1, RestingRead DEF RowsKept
        <3> QED
            BY <2>2, <3>1, <3>2, RestingBuffer, BufferAlone
    <2> QED
        BY <1>t, <1>4, <2>1, <2>2, LockChanges
<1>5. ASSUME NEW s \in Servers, ExecuteRequest(c, s) PROVE BufferInv'
    <2>1. CASE ExecutePointers(c, s) \/ ExecuteOlder(c, s) \/ ExecuteHistory(c, s)
        BY <2>1, ExecuteOtherBuffer
    <2>2. CASE ExecuteHead(c, s) \/ ExecuteHeadRow(c, s)
        BY <1>t, <2>2, ExecuteChanges, ChangesBuffer DEF Changes
    <2> QED
        BY <1>5, <2>1, <2>2 DEF ExecuteRequest
<1> QED
    BY <1>1, <1>2, <1>3, <1>4, <1>5 DEF PayAct, PayStep

\* A step of New-Order leaves the payments as they are.
LEMMA OrderBufferStep ==
    ASSUME SharedQueuePair, PayInv, PairInv, BufferInv, OrderFrame
    PROVE  PairInv' /\ BufferInv'
<1>1. /\ UNCHANGED <<payPc, payStage, payHeads, payWon, queue, historyServer>>
      /\ \A r \in Refs : headVersions'[r] = headVersions[r]
      /\ \A d \in Clients : payPc[d] # "idle" => cts'[d] = cts[d]
    BY DEF OrderFrame, payVars, bufferVars, RowsKept, SameClient
<1>2. PairInv'
    BY <1>1 DEF PairInv, PairAt, Pair
<1>3. ASSUME NEW d \in Clients, NEW r \in Refs PROVE BufferAt(d, r)'
    <2>1. CASE payPc[d] = "idle"
        <3>1. Resting(d) /\ Resting(d)' /\ Pair(d)' = <<>>
            BY <1>1, <1>2, <2>1 DEF Resting, PairInv, PairAt
        <3>2. r \notin payWon'[d]
            BY <1>1, <2>1, <3>1, RestingOwns
        <3> QED
            BY <3>1, <3>2, RestingBuffer
    <2>2. CASE payPc[d] # "idle"
        <3>1. /\ UnlockPending(d, r)' <=> UnlockPending(d, r)
              /\ Torn(d, r)' <=> Torn(d, r)
              /\ NewWord(d, r)' <=> NewWord(d, r)
              /\ NewRow(d, r)' <=> NewRow(d, r)
            BY <1>1 DEF UnlockPending, Torn, Pair, NewWord, NewRow
        <3>2. BufferAt(d, r)
            BY DEF BufferInv
        <3> QED
            BY <1>1, <2>2, <3>1, <3>2, BufferHeld
    <2> QED
        BY <2>1, <2>2
<1> QED
    BY <1>2, <1>3 DEF BufferInv

-----------------------------------------------------------------------------
(***************************************************************************)
(* What a payment has read.                                                *)
(***************************************************************************)

\* The order of the reads: a row is read before the rows after it.
LEMMA ReadStages ==
    ASSUME NEW q \in Refs, NEW r \in Refs, NEW n \in Nat
    PROVE  /\ n = 3 * (Place(q) - 1) /\ n + 1 >= 3 * (Place(r) - 1) + 2 =>
                 n >= 3 * (Place(r) - 1) + 2 /\ q # r
           /\ n = 3 * (Place(q) - 1) + 1 /\ n + 1 >= 3 * (Place(r) - 1) + 2 =>
                 q = r \/ n >= 3 * (Place(r) - 1) + 2
           /\ n = 3 * (Place(q) - 1) + 2 /\ n + 1 >= 3 * (Place(r) - 1) + 2 =>
                 n >= 3 * (Place(r) - 1) + 2
           /\ n = 9 => n >= 3 * (Place(r) - 1) + 2
           /\ ~(0 >= 3 * (Place(r) - 1) + 2)
<1>1. Place(q) \in 1 .. 3 /\ Place(r) \in 1 .. 3 /\ (Place(q) = Place(r) => q = r)
    BY Places
<1> QED
    BY <1>1

\* A head is read by the read of its row, and kept.
LEMMA ReadBefore ==
    ASSUME PayInv, NEW c \in Clients, PayAct(c), NEW r \in Refs, PayReadDone(c, r)'
    PROVE  \/ PayRetrieveRow(c, r)
           \/ /\ PayReadDone(c, r)
              /\ payHeads'[c][r] = payHeads[c][r]
              /\ localVector'[c] = localVector[c]
<1> DEFINE Kept == /\ PayReadDone(c, r)
                   /\ payHeads'[c][r] = payHeads[c][r]
                   /\ localVector'[c] = localVector[c]
<1>t. PayTypeOK /\ QueueInv /\ payStage[c] \in Nat
    BY StageTyped DEF PayInv
<1>d. /\ payPc'[c] = "lock" \/ (payPc'[c] = "read" /\ payStage'[c] >= 3 * (Place(r) - 1) + 2)
      /\ (payPc[c] = "lock" \/ (payPc[c] = "read" /\ payStage[c] >= 3 * (Place(r) - 1) + 2)) => PayReadDone(c, r)
    BY DEF PayReadDone
<1>1. CASE PayStart(c) \/ LookupFails(c) \/ PayCheckVersionsAbort(c) \/ PayLocksRefused(c) \/ PayLockAbort(c)
    BY <1>t, <1>d, <1>1, PhaseEffect
<1>2. ASSUME NEW q \in Refs, PayRetrievePointerList(c, q) PROVE Kept
    <2>1. /\ payPc[c] = "read" /\ payPc'[c] = "read" /\ payHeads'[c] = payHeads[c] /\ localVector'[c] = localVector[c]
          /\ payStage[c] = 3 * (Place(q) - 1) + 2 /\ payStage'[c] = payStage[c] + 1
        BY <1>t, <1>2, PhaseEffect DEF MovesPhase, SameClient
    <2> QED
        BY <1>t, <1>d, <2>1, ReadStages
<1>3. ASSUME NEW e \in Clients, PayReadTimestamp(c, e) PROVE FALSE
    <2>1. payPc'[c] = "snapshot" \/ (payPc'[c] = "read" /\ payStage'[c] = 0)
        BY <1>t, <1>3, PayReadTimestampEffect
    <2>2. ~(0 >= 3 * (Place(r) - 1) + 2)
        BY ReadStages
    <2> QED
        BY <1>d, <2>1, <2>2
<1>4. ASSUME NEW q \in Refs, PayRetrieveTimestamp(c, q) PROVE Kept
    <2>1. /\ payPc[c] = "read" /\ payPc'[c] = "read" /\ localVector'[c] = localVector[c]
          /\ payStage[c] = 3 * (Place(q) - 1) /\ payStage'[c] = payStage[c] + 1
          /\ \A x \in Refs \ {q} : payHeads'[c][x] = payHeads[c][x]
        BY <1>t, <1>4, PayRetrieveEffect DEF SameClient
    <2> QED
        BY <1>t, <1>d, <2>1, ReadStages
<1>5. ASSUME NEW q \in Refs, PayRetrieveRow(c, q), q # r PROVE Kept
    <2>1. /\ payPc[c] = "read" /\ payPc'[c] = "read" /\ localVector'[c] = localVector[c]
          /\ payStage[c] = 3 * (Place(q) - 1) + 1 /\ payStage'[c] = payStage[c] + 1
          /\ \A x \in Refs \ {q} : payHeads'[c][x] = payHeads[c][x]
        BY <1>t, <1>5, PayRetrieveEffect DEF SameClient
    <2> QED
        BY <1>t, <1>d, <1>5, <2>1, ReadStages
<1>6. CASE PayAcquireCommitTimestamp(c)
    <2>1. payPc[c] = "read" /\ payStage[c] = 9 /\ payHeads'[c] = payHeads[c] /\ localVector'[c] = localVector[c]
        BY <1>t, <1>6, PayAcquireCommitTimestampEffect
    <2> QED
        BY <1>t, <1>d, <2>1, ReadStages
<1>7. ASSUME NEW q \in Refs, PayLock(c, q) PROVE Kept
    BY <1>t, <1>d, <1>7, PayLockEffect DEF SameClient
<1>8. ASSUME NEW q \in Refs, PayRevertLock(c, q) \/ SetNewTimestamp(c, q) \/ PostUpdate(c, q) PROVE FALSE
    BY <1>t, <1>d, <1>8, PayRevertLockEffect, SetNewTimestampEffect, PostUpdateEffect
<1>9. ASSUME \/ PayLocksAcquired(c) \/ AppendOldVersions(c) \/ InsertIntoHistory(c) \/ PaySubmitResult(c)
      PROVE  FALSE
    BY <1>t, <1>d, <1>9, PayLocksAcquiredEffect, AppendOldVersionsEffect, InsertIntoHistoryEffect,
       PaySubmitResultEffect
<1>10. ASSUME NEW s \in Servers, ExecuteRequest(c, s) PROVE Kept
    <2>1. /\ payPc'[c] = payPc[c] /\ payStage'[c] = payStage[c] /\ payHeads'[c] = payHeads[c]
          /\ SameClient(c)
        BY <1>t, <1>10, ExecuteOtherEffect, ExecuteHeadEffect, ExecuteHeadRowEffect DEF ExecuteRequest
    <2> QED
        BY <1>d, <2>1 DEF SameClient
<1> QED
    BY <1>1, <1>2, <1>3, <1>4, <1>5, <1>6, <1>7, <1>8, <1>9, <1>10 DEF PayAct, PayStep

\* A client keeps the head of a row it has locked until it updates it.
LEMMA LockedBefore ==
    ASSUME SharedQueuePair, PayInv, PairInv, NEW c \in Clients, PayAct(c), NEW r \in Refs,
           r \in payWon'[c], payPc'[c] \in {"lock", "revert"}
    PROVE  /\ payHeads'[c][r] = payHeads[c][r]
           /\ payPc[c] \in {"lock", "revert"}
           /\ r \in payWon[c] \/ Takes(c, r)
<1>t. PayTypeOK /\ QueueInv
    BY DEF PayInv
<1>1. CASE PayStart(c) \/ LookupFails(c) \/ PayCheckVersionsAbort(c) \/ PayLocksRefused(c) \/ PayLockAbort(c)
           \/ \E q \in Refs : PayRetrievePointerList(c, q)
    BY <1>t, <1>1, PhaseEffect DEF MovesPhase
<1>2. ASSUME NEW e \in Clients, PayReadTimestamp(c, e) PROVE FALSE
    BY <1>t, <1>2, PayReadTimestampEffect
<1>3. ASSUME NEW q \in Refs,
             PayRetrieveTimestamp(c, q) \/ PayRetrieveRow(c, q) \/ SetNewTimestamp(c, q) \/ PostUpdate(c, q)
      PROVE  FALSE
    BY <1>t, <1>3, PayRetrieveEffect, SetNewTimestampEffect, PostUpdateEffect
<1>4. ASSUME PayAcquireCommitTimestamp(c) PROVE FALSE
    <2>1. payPc[c] = "read" /\ r \in payWon[c]
        BY <1>t, <1>4, PayAcquireCommitTimestampEffect
    <2> QED
        BY <2>1, RestingOwns DEF Resting
<1>5. ASSUME NEW q \in Refs, PayLock(c, q)
      PROVE  payHeads'[c] = payHeads[c] /\ payPc[c] = "lock" /\ (r \in payWon[c] \/ Takes(c, r))
    <2>1. payHeads'[c] = payHeads[c] /\ payPc[c] = "lock"
        BY <1>t, <1>5, PayLockEffect
    <2>2. CASE LeavesRows(c)
        BY <2>1, <2>2 DEF LeavesRows
    <2>3. CASE Takes(c, q)
        BY <2>1, <2>3 DEF Takes, Touches
    <2> QED
        BY <1>t, <1>5, <2>2, <2>3, LockChanges
<1>6. ASSUME NEW q \in Refs, PayRevertLock(c, q)
      PROVE  payHeads'[c] = payHeads[c] /\ payPc[c] = "revert" /\ r \in payWon[c]
    BY <1>t, <1>6, PayRevertLockEffect
<1>7. ASSUME \/ PayLocksAcquired(c) \/ AppendOldVersions(c) \/ InsertIntoHistory(c) \/ PaySubmitResult(c)
      PROVE  FALSE
    BY <1>t, <1>7, PayLocksAcquiredEffect, AppendOldVersionsEffect, InsertIntoHistoryEffect,
       PaySubmitResultEffect
<1>8. ASSUME NEW s \in Servers, ExecuteRequest(c, s)
      PROVE  payHeads'[c] = payHeads[c] /\ payPc'[c] = payPc[c] /\ r \in payWon[c]
    BY <1>t, <1>8, ExecuteOtherEffect, ExecuteHeadEffect, ExecuteHeadRowEffect DEF ExecuteRequest
<1> QED
    BY <1>1, <1>2, <1>3, <1>4, <1>5, <1>6, <1>7, <1>8 DEF PayAct, PayStep

LEMMA PayIdentityStep ==
    ASSUME SharedQueuePair, PayInv, PairInv, BufferInv, PayIdentityInv, NEW c \in Clients, PayAct(c)
    PROVE  PayIdentityInv'
<1>t. PayTypeOK /\ QueueInv /\ OwnerInv
    BY DEF PayInv
<1>a. \A d \in Clients \ {c} : SamePayment(d)
    BY <1>t, PayActsAlone DEF ActsAlone
<1>w. \A d \in Clients, r \in Refs : r \in payWon[d] => headVersions[r].ts.locked
    BY <1>t DEF OwnerInv, OwnerAt, WonAt
<1>r. ASSUME NEW r \in Refs PROVE headVersions'[r] = headVersions[r] \/ Changes(c, r)
    <2>1. CASE LeavesRows(c)
        BY <2>1 DEF LeavesRows, RowsKept
    <2>2. ASSUME NEW q \in Refs, Changes(c, q) PROVE headVersions'[r] = headVersions[r] \/ Changes(c, r)
        BY <2>2 DEF Changes, Takes, GivesBack, Unlocks, Installs, Touches
    <2> QED
        BY <1>t, <2>1, <2>2, RowSteps
<1>1. ASSUME NEW a \in Clients \ {c}, NEW r \in Refs, PayReadDone(a, r)', PayAccessible(a, r)'
      PROVE  /\ headVersions'[r].ts = payHeads'[a][r].ts => headVersions'[r].ytd = payHeads'[a][r].ytd
             /\ \A d \in Clients :
                   (r \in payWon'[d] /\ payPc'[d] \in {"lock", "revert"} /\ payHeads'[d][r].ts = payHeads'[a][r].ts) =>
                       payHeads'[d][r].ytd = payHeads'[a][r].ytd
    <2>1. payHeads'[a] = payHeads[a] /\ PayReadDone(a, r) /\ PayAccessible(a, r)
        BY <1>a, <1>1 DEF SamePayment, SameClient, PayReadDone, PayAccessible
    <2>2. /\ headVersions[r].ts = payHeads[a][r].ts => headVersions[r].ytd = payHeads[a][r].ytd
          /\ \A d \in Clients :
                (r \in payWon[d] /\ payPc[d] \in {"lock", "revert"} /\ payHeads[d][r].ts = payHeads[a][r].ts) =>
                    payHeads[d][r].ytd = payHeads[a][r].ytd
        BY <2>1 DEF PayIdentityInv, PayIdentityAt
    <2>u. ~payHeads[a][r].ts.locked
        BY <2>1 DEF PayAccessible, isRecordAccessible
    <2>3. ASSUME headVersions'[r].ts = payHeads[a][r].ts PROVE headVersions'[r].ytd = payHeads[a][r].ytd
        <3>1. CASE headVersions'[r] = headVersions[r]
            BY <2>2, <2>3, <3>1
        <3>2. CASE Takes(c, r)
            BY <2>u, <2>3, <3>2 DEF Takes, PayLockTimestamp, Timestamp
        <3>3. CASE GivesBack(c, r)
            <4>1. /\ payPc[c] = "revert" /\ r \in payWon[c] /\ headVersions'[r].ts = payHeads[c][r].ts
                  /\ headVersions'[r].ytd = headVersions[r].ytd
                BY <3>3 DEF GivesBack
            <4>2. payHeads[c][r].ytd = headVersions[r].ytd
                BY <4>1, RestingRead DEF Resting
            <4>3. payHeads[c][r].ytd = payHeads[a][r].ytd
                BY <2>2, <2>3, <4>1
            <4> QED
                BY <4>1, <4>2, <4>3
        <3>4. CASE Unlocks(c, r)
            <4>1. UnlockPending(c, r) /\ payHeads[c][r].ts = payHeads[a][r].ts
                BY <2>3, <3>4 DEF Unlocks
            <4>2. payPc[c] \in {"update", "submit"} /\ OwnWord(c, payHeads[a][r].ts)
                BY <4>1, PendingWord
            <4> QED
                BY <2>1, <4>2, PayUnannouncedUnusable
        <3>5. CASE Installs(c, r)
            <4>1. Torn(c, r) /\ headVersions[r].ts = payHeads[a][r].ts
                BY <2>3, <3>5 DEF Installs
            <4>2. payPc[c] \in {"update", "submit"} /\ OwnWord(c, payHeads[a][r].ts)
                BY <4>1, TornWord
            <4> QED
                BY <2>1, <4>2, PayUnannouncedUnusable
        <3> QED
            BY <1>r, <3>1, <3>2, <3>3, <3>4, <3>5 DEF Changes
    <2>4. ASSUME NEW d \in Clients, r \in payWon'[d], payPc'[d] \in {"lock", "revert"},
                 payHeads'[d][r].ts = payHeads[a][r].ts
          PROVE  payHeads'[d][r].ytd = payHeads[a][r].ytd
        <3>1. CASE d # c
            BY <1>a, <2>2, <2>4, <3>1 DEF SamePayment
        <3>2. CASE d = c
            <4>1. /\ payHeads'[c][r] = payHeads[c][r] /\ payPc[c] \in {"lock", "revert"}
                  /\ r \in payWon[c] \/ Takes(c, r)
                BY <2>4, <3>2, LockedBefore
            <4>2. CASE r \in payWon[c]
                BY <2>2, <2>4, <3>2, <4>1, <4>2
            <4>3. CASE Takes(c, r)
                <5>1. payPc[c] = "lock" /\ headVersions[r].ts = payHeads[c][r].ts
                    BY <4>3 DEF Takes
                <5>2. PayReadDone(c, r) /\ PayAccessible(c, r)
                    BY <1>t, <5>1 DEF PayReadDone, OwnerInv, OwnerAt, CheckedPayment
                <5>3. headVersions[r].ytd = payHeads[c][r].ytd
                    BY <5>1, <5>2 DEF PayIdentityInv, PayIdentityAt
                <5>4. headVersions[r].ytd = payHeads[a][r].ytd
                    BY <2>2, <2>4, <3>2, <4>1, <5>1
                <5> QED
                    BY <3>2, <4>1, <5>3, <5>4
            <4> QED
                BY <4>1, <4>2, <4>3
        <3> QED
            BY <3>1, <3>2
    <2> QED
        BY <2>1, <2>3, <2>4
<1>2. ASSUME NEW r \in Refs, PayReadDone(c, r)', PayAccessible(c, r)'
      PROVE  /\ headVersions'[r].ts = payHeads'[c][r].ts => headVersions'[r].ytd = payHeads'[c][r].ytd
             /\ \A d \in Clients :
                   (r \in payWon'[d] /\ payPc'[d] \in {"lock", "revert"} /\ payHeads'[d][r].ts = payHeads'[c][r].ts) =>
                       payHeads'[d][r].ytd = payHeads'[c][r].ytd
    <2>1. CASE PayRetrieveRow(c, r)
        <3>1. RowsKept /\ payHeads'[c][r].ytd = headVersions[r].ytd
            BY <1>t, <2>1, PayRetrieveEffect
        <3>2. ASSUME NEW d \in Clients \ {c}, r \in payWon'[d], payPc'[d] \in {"lock", "revert"}
              PROVE  payHeads'[d][r].ytd = headVersions[r].ytd
            <4>1. r \in payWon[d] /\ payHeads'[d] = payHeads[d] /\ Resting(d)
                BY <1>a, <3>2 DEF SamePayment, Resting
            <4> QED
                BY <4>1, RestingRead
        <3> QED
            BY <3>1, <3>2 DEF RowsKept
    <2>2. ASSUME PayReadDone(c, r), payHeads'[c][r] = payHeads[c][r], localVector'[c] = localVector[c]
          PROVE  /\ headVersions'[r].ts = payHeads'[c][r].ts => headVersions'[r].ytd = payHeads'[c][r].ytd
                 /\ \A d \in Clients :
                       (r \in payWon'[d] /\ payPc'[d] \in {"lock", "revert"} /\ payHeads'[d][r].ts = payHeads'[c][r].ts) =>
                           payHeads'[d][r].ytd = payHeads'[c][r].ytd
        <3>1. PayAccessible(c, r)
            BY <1>2, <2>2 DEF PayAccessible
        <3>2. /\ headVersions[r].ts = payHeads[c][r].ts => headVersions[r].ytd = payHeads[c][r].ytd
              /\ \A d \in Clients :
                    (r \in payWon[d] /\ payPc[d] \in {"lock", "revert"} /\ payHeads[d][r].ts = payHeads[c][r].ts) =>
                        payHeads[d][r].ytd = payHeads[c][r].ytd
            BY <2>2, <3>1 DEF PayIdentityInv, PayIdentityAt
        <3>3. payPc[c] \in {"read", "lock"} /\ Resting(c)
            BY <2>2 DEF PayReadDone, Resting
        <3>4. ~UnlockPending(c, r) /\ ~Torn(c, r)
            BY <3>3, RestingOwns
        <3>5. headVersions'[r] = headVersions[r] \/ Takes(c, r)
            BY <1>r, <3>3, <3>4 DEF Changes, GivesBack, Unlocks, Installs
        <3>6. ~payHeads[c][r].ts.locked
            BY <3>1 DEF PayAccessible, isRecordAccessible
        <3>7. Takes(c, r) => headVersions'[r].ts.locked
            BY DEF Takes, PayLockTimestamp, Timestamp
        <3>8. headVersions'[r].ts = payHeads'[c][r].ts => headVersions'[r].ytd = payHeads'[c][r].ytd
            BY <2>2, <3>2, <3>5, <3>6, <3>7
        <3>9. \A d \in Clients \ {c} :
                  (r \in payWon'[d] /\ payPc'[d] \in {"lock", "revert"} /\ payHeads'[d][r].ts = payHeads'[c][r].ts) =>
                      payHeads'[d][r].ytd = payHeads'[c][r].ytd
            BY <1>a, <2>2, <3>2 DEF SamePayment
        <3> QED
            BY <3>8, <3>9
    <2> QED
        BY <1>2, <2>1, <2>2, ReadBefore
<1>3. ASSUME NEW a \in Clients, NEW r \in Refs PROVE PayIdentityAt(a, r)'
    BY <1>1, <1>2 DEF PayIdentityAt
<1> QED
    BY <1>3 DEF PayIdentityInv

LEMMA OrderIdentityStep ==
    ASSUME PayIdentityInv, OrderFrame
    PROVE  PayIdentityInv'
<1>1. /\ UNCHANGED <<payPc, payStage, payHeads, payWon>>
      /\ \A r \in Refs : headVersions'[r] = headVersions[r]
      /\ \A d \in Clients : payPc[d] # "idle" => localVector'[d] = localVector[d]
    BY DEF OrderFrame, payVars, bufferVars, RowsKept, SameClient
<1>2. ASSUME NEW c \in Clients, NEW r \in Refs PROVE PayIdentityAt(c, r)'
    <2>1. PayIdentityAt(c, r)
        BY DEF PayIdentityInv
    <2>2. (PayReadDone(c, r) /\ PayAccessible(c, r))' => PayReadDone(c, r) /\ PayAccessible(c, r)
        BY <1>1 DEF PayReadDone, PayAccessible
    <2> QED
        BY <1>1, <2>1, <2>2 DEF PayIdentityAt
<1> QED
    BY <1>2 DEF PayIdentityInv

-----------------------------------------------------------------------------
(***************************************************************************)
(* Which payments a row shows.                                             *)
(***************************************************************************)

\* Vector and epochs grow; a client draws a commit timestamp when it starts
\* to lock, and keeps it until it aborts or announces it.
Progress(c) ==
    /\ \A d \in Clients : /\ lastCommittedVector[d] <= lastCommittedVector'[d]
                          /\ nextEpoch[d] <= nextEpoch'[d]
    /\ \A d \in Clients : Paying(d)' =>
          (Paying(d) /\ cts'[d] = cts[d]) \/ (d = c /\ PayAcquireCommitTimestamp(c))
    /\ \A d \in Clients : Paying(d) =>
          \/ Paying(d)' /\ cts'[d] = cts[d]
          \/ d = c /\ (PayLockAbort(c) \/ PaySubmitResult(c))
    /\ \A d \in Clients :
          (payPc[d] \in {"update", "submit"} /\ Paying(d)') => payPc'[d] \in {"update", "submit"}

LEMMA PayProgress ==
    ASSUME PayInv, NEW c \in Clients, PayAct(c)
    PROVE  Progress(c)
<1>t. PayTypeOK /\ QueueInv /\ EpochInv /\ PayEpochInv /\ PayVectorInv
    BY DEF PayInv
<1>n. \A d \in Clients : cts[d] \in Nat /\ lastCommittedVector[d] \in Nat /\ nextEpoch[d] \in Nat
    BY <1>t DEF PayTypeOK, TypeOK
<1>a. \A d \in Clients \ {c} :
          /\ payPc'[d] = payPc[d] /\ cts'[d] = cts[d] /\ nextEpoch'[d] = nextEpoch[d]
          /\ lastCommittedVector'[d] = lastCommittedVector[d]
    BY <1>t, PayActsAlone DEF ActsAlone, SamePayment, SameClient
<1>b. \A d \in Clients \ {c} : Paying(d)' <=> Paying(d)
    BY <1>a DEF Paying
<1>1. ASSUME SameClient(c),
             Paying(c)' => Paying(c),
             Paying(c) => Paying(c)' \/ PayLockAbort(c) \/ PaySubmitResult(c),
             (payPc[c] \in {"update", "submit"} /\ Paying(c)') => payPc'[c] \in {"update", "submit"}
      PROVE  Progress(c)
    <2>1. cts'[c] = cts[c] /\ nextEpoch'[c] = nextEpoch[c] /\ lastCommittedVector'[c] = lastCommittedVector[c]
        BY <1>1 DEF SameClient
    <2>2. \A d \in Clients : /\ lastCommittedVector[d] <= lastCommittedVector'[d]
                             /\ nextEpoch[d] <= nextEpoch'[d]
        BY <1>n, <1>a, <2>1
    <2> QED
        BY <1>1, <1>a, <1>b, <2>1, <2>2 DEF Progress
<1>2. CASE \/ PayStart(c) \/ LookupFails(c) \/ PayCheckVersionsAbort(c) \/ PayLocksRefused(c)
           \/ PayLockAbort(c) \/ \E r \in Refs : PayRetrievePointerList(c, r)
    BY <1>t, <1>1, <1>2, PhaseEffect DEF MovesPhase, Paying
<1>3. ASSUME NEW e \in Clients, PayReadTimestamp(c, e) PROVE Progress(c)
    <2>1. /\ payPc[c] = "snapshot" /\ payPc'[c] \in {"snapshot", "read"}
          /\ UNCHANGED <<cts, nextEpoch, lastCommittedVector>>
        BY <1>t, <1>3, PayReadTimestampEffect
    <2>2. \A d \in Clients : lastCommittedVector[d] <= lastCommittedVector'[d] /\ nextEpoch[d] <= nextEpoch'[d]
        BY <1>n, <2>1
    <2> QED
        BY <1>a, <1>b, <2>1, <2>2 DEF Progress, Paying
<1>4. ASSUME NEW r \in Refs, PayRetrieveTimestamp(c, r) \/ PayRetrieveRow(c, r) PROVE Progress(c)
    BY <1>t, <1>1, <1>4, PayRetrieveEffect DEF Paying
<1>5. CASE PayAcquireCommitTimestamp(c)
    <2>1. payPc[c] = "read" /\ payPc'[c] = "lock" /\ UNCHANGED lastCommittedVector
        BY <1>t, <1>5, PayAcquireCommitTimestampEffect
    <2>2. nextEpoch'[c] = nextEpoch[c] + 1
        BY <1>t, <1>5, PayDrawIsLarger
    <2>3. \A d \in Clients : lastCommittedVector[d] <= lastCommittedVector'[d] /\ nextEpoch[d] <= nextEpoch'[d]
        BY <1>n, <1>a, <2>1, <2>2
    <2> QED
        BY <1>5, <1>a, <1>b, <2>1, <2>3 DEF Progress, Paying
<1>6. ASSUME NEW r \in Refs,
             PayLock(c, r) \/ PayRevertLock(c, r) \/ SetNewTimestamp(c, r) \/ PostUpdate(c, r)
      PROVE  Progress(c)
    BY <1>t, <1>1, <1>6, PayLockEffect, PayRevertLockEffect, SetNewTimestampEffect, PostUpdateEffect DEF Paying
<1>7. CASE PayLocksAcquired(c)
    <2>1. /\ payPc[c] = "lock" /\ payPc'[c] = "append"
          /\ UNCHANGED <<cts, nextEpoch, lastCommittedVector>>
        BY <1>t, <1>7, PayLocksAcquiredEffect
    <2>2. \A d \in Clients : lastCommittedVector[d] <= lastCommittedVector'[d] /\ nextEpoch[d] <= nextEpoch'[d]
        BY <1>n, <2>1
    <2> QED
        BY <1>a, <1>b, <2>1, <2>2 DEF Progress, Paying
<1>8. CASE AppendOldVersions(c) \/ InsertIntoHistory(c)
    BY <1>t, <1>1, <1>8, AppendOldVersionsEffect, InsertIntoHistoryEffect DEF Paying
<1>9. CASE PaySubmitResult(c)
    <2>1. /\ payPc[c] = "submit" /\ payPc'[c] = "idle" /\ lastCommittedVector'[c] = localVector[c][c]
          /\ UNCHANGED <<cts, nextEpoch>>
        BY <1>t, <1>9, PaySubmitResultEffect
    <2>2. lastCommittedVector'[c] = cts[c] /\ lastCommittedVector[c] < cts[c]
        BY <1>t, <2>1 DEF PayVectorInv, Paying
    <2>3. \A d \in Clients : lastCommittedVector[d] <= lastCommittedVector'[d] /\ nextEpoch[d] <= nextEpoch'[d]
        BY <1>n, <1>a, <2>1, <2>2
    <2> QED
        BY <1>9, <1>a, <1>b, <2>1, <2>3 DEF Progress, Paying
<1>10. ASSUME NEW s \in Servers, ExecuteRequest(c, s) PROVE Progress(c)
    <2>1. payPc'[c] = payPc[c] /\ SameClient(c)
        BY <1>t, <1>10, ExecuteOtherEffect, ExecuteHeadEffect, ExecuteHeadRowEffect DEF ExecuteRequest
    <2> QED
        BY <1>1, <2>1 DEF Paying
<1> QED
    BY <1>2, <1>3, <1>4, <1>5, <1>6, <1>7, <1>8, <1>9, <1>10 DEF PayAct, PayStep

\* A step of New-Order is no step of any payment.
LEMMA OrderProgress ==
    ASSUME PayInv, OrderFrame
    PROVE  /\ \A d \in Clients : /\ lastCommittedVector[d] <= lastCommittedVector'[d]
                                 /\ nextEpoch[d] <= nextEpoch'[d]
                                 /\ Paying(d)' <=> Paying(d)
                                 /\ Paying(d) => cts'[d] = cts[d]
           /\ UNCHANGED <<payPc, payHeads, payWon>>
           /\ \A r \in Refs : headVersions'[r] = headVersions[r]
<1>1. /\ UNCHANGED <<payPc, payHeads, payWon>>
      /\ \A r \in Refs : headVersions'[r] = headVersions[r]
      /\ \A d \in Clients : /\ lastCommittedVector[d] <= lastCommittedVector'[d]
                            /\ nextEpoch[d] <= nextEpoch'[d]
                            /\ payPc[d] # "idle" => cts'[d] = cts[d]
    BY DEF OrderFrame, payVars, bufferVars, RowsKept, SameClient
<1> QED
    BY <1>1 DEF Paying

\* Where the payments in the buffers come from.
LEMMA BuffersRead ==
    ASSUME PayInv, NEW c \in Clients, PayAct(c)
    PROVE  \A d \in Clients, r \in Refs :
              \/ payHeads'[d][r].ytd = payHeads[d][r].ytd
              \/ payHeads'[d][r].ytd = headVersions[r].ytd
              \/ d = c /\ Paying(c) /\ payHeads'[d][r].ytd = payHeads[d][r].ytd \cup {cts[c]}
<1> DEFINE Read(r) ==
        \/ payHeads'[c][r].ytd = payHeads[c][r].ytd
        \/ payHeads'[c][r].ytd = headVersions[r].ytd
        \/ Paying(c) /\ payHeads'[c][r].ytd = payHeads[c][r].ytd \cup {cts[c]}
<1>t. PayTypeOK /\ QueueInv
    BY DEF PayInv
<1>a. \A d \in Clients \ {c} : payHeads'[d] = payHeads[d]
    BY <1>t, PayActsAlone DEF ActsAlone, SamePayment
<1>1. ASSUME payHeads'[c] = payHeads[c] PROVE \A r \in Refs : Read(r)
    BY <1>1
<1>2. CASE \/ PayStart(c) \/ LookupFails(c) \/ PayCheckVersionsAbort(c) \/ PayLocksRefused(c)
           \/ PayLockAbort(c) \/ \E r \in Refs : PayRetrievePointerList(c, r)
    BY <1>t, <1>a, <1>1, <1>2, PhaseEffect DEF MovesPhase
<1>3. ASSUME NEW e \in Clients, PayReadTimestamp(c, e) PROVE \A r \in Refs : Read(r)
    BY <1>t, <1>1, <1>3, PayReadTimestampEffect
<1>4. ASSUME NEW q \in Refs, PayRetrieveTimestamp(c, q) \/ PayRetrieveRow(c, q) \/ SetNewTimestamp(c, q)
      PROVE \A r \in Refs : Read(r)
    <2>1. /\ payHeads'[c][q].ytd = payHeads[c][q].ytd \/ payHeads'[c][q].ytd = headVersions[q].ytd
          /\ \A r \in Refs \ {q} : payHeads'[c][r] = payHeads[c][r]
        BY <1>t, <1>4, PayRetrieveEffect, SetNewTimestampEffect
    <2> QED
        BY <2>1
<1>5. ASSUME NEW q \in Refs, PostUpdate(c, q) PROVE \A r \in Refs : Read(r)
    <2>1. /\ payHeads'[c][q].ytd = payHeads[c][q].ytd \cup {cts[c]} /\ Paying(c)
          /\ \A r \in Refs \ {q} : payHeads'[c][r] = payHeads[c][r]
        BY <1>t, <1>5, PostUpdateEffect DEF Paying
    <2> QED
        BY <2>1
<1>6. ASSUME NEW q \in Refs, PayLock(c, q) \/ PayRevertLock(c, q) PROVE \A r \in Refs : Read(r)
    BY <1>t, <1>1, <1>6, PayLockEffect, PayRevertLockEffect
<1>7. CASE \/ PayAcquireCommitTimestamp(c) \/ PayLocksAcquired(c) \/ AppendOldVersions(c)
           \/ InsertIntoHistory(c) \/ PaySubmitResult(c)
    BY <1>t, <1>a, <1>1, <1>7, PayAcquireCommitTimestampEffect, PayLocksAcquiredEffect, AppendOldVersionsEffect,
       InsertIntoHistoryEffect, PaySubmitResultEffect
<1>8. ASSUME NEW s \in Servers, ExecuteRequest(c, s) PROVE \A r \in Refs : Read(r)
    BY <1>t, <1>1, <1>8, ExecuteOtherEffect, ExecuteHeadEffect, ExecuteHeadRowEffect DEF ExecuteRequest
<1>9. ASSUME \A r \in Refs : Read(r)
      PROVE  \A d \in Clients, r \in Refs :
                \/ payHeads'[d][r].ytd = payHeads[d][r].ytd
                \/ payHeads'[d][r].ytd = headVersions[r].ytd
                \/ d = c /\ Paying(c) /\ payHeads'[d][r].ytd = payHeads[d][r].ytd \cup {cts[c]}
    BY <1>9, <1>a
<1> HIDE DEF Read
<1> QED
    BY <1>2, <1>3, <1>4, <1>5, <1>6, <1>7, <1>8, <1>9 DEF PayAct, PayStep

LEMMA DrawnStays ==
    ASSUME PayInv, PayInv', \A d \in Clients : nextEpoch[d] <= nextEpoch'[d], NEW p, WasDrawn(p)
    PROVE  WasDrawn(p)'
<1>1. PICK e \in Clients, k \in Nat : k < nextEpoch[e] /\ p = Drawn(k, e)
    BY DEF WasDrawn
<1>2. nextEpoch[e] \in Nat /\ nextEpoch'[e] \in Nat /\ nextEpoch[e] <= nextEpoch'[e]
    BY DEF PayInv, PayTypeOK, TypeOK
<1>3. k < nextEpoch'[e] /\ p = Drawn(k, e)
    BY <1>1, <1>2
<1> QED
    BY <1>3 DEF WasDrawn, Drawn

LEMMA PayDrawnStep ==
    ASSUME SharedQueuePair, PayInv, PayInv', BufferInv, PayDrawnInv, NEW c \in Clients, PayAct(c)
    PROVE  PayDrawnInv'
<1>t. PayTypeOK /\ QueueInv /\ EpochInv /\ PayEpochInv
    BY DEF PayInv
<1>p. Progress(c)
    BY PayProgress
<1>s. \A p : WasDrawn(p) => WasDrawn(p)'
    BY <1>p, DrawnStays DEF Progress
<1>0. /\ \A r \in Refs : \A p \in headVersions[r].ytd : WasDrawn(p)
      /\ \A d \in Clients, r \in Refs : \A p \in payHeads[d][r].ytd : WasDrawn(p)
      /\ \A d \in Clients : Paying(d) => \E k \in Nat : k < nextEpoch[d] /\ cts[d] = Drawn(k, d)
    BY DEF PayDrawnInv
<1>c. \A d \in Clients : Paying(d) => WasDrawn(cts[d])
    BY <1>0 DEF WasDrawn
<1>1. ASSUME NEW r \in Refs, NEW p \in headVersions'[r].ytd PROVE WasDrawn(p)'
    <2>1. headVersions'[r].ytd = headVersions[r].ytd \/ headVersions'[r].ytd = payHeads[c][r].ytd
        <3>1. CASE LeavesRows(c)
            BY <3>1 DEF LeavesRows, RowsKept
        <3>2. ASSUME NEW q \in Refs, Changes(c, q)
              PROVE  headVersions'[r].ytd = headVersions[r].ytd \/ headVersions'[r].ytd = payHeads[c][r].ytd
            BY <3>2 DEF Changes, Takes, GivesBack, Unlocks, Installs, Touches
        <3> QED
            BY <1>t, <3>1, <3>2, RowSteps
    <2> QED
        BY <1>0, <1>1, <1>s, <2>1
<1>2. ASSUME NEW d \in Clients, NEW r \in Refs, NEW p \in payHeads'[d][r].ytd PROVE WasDrawn(p)'
    <2>1. \/ payHeads'[d][r].ytd = payHeads[d][r].ytd
          \/ payHeads'[d][r].ytd = headVersions[r].ytd
          \/ d = c /\ Paying(c) /\ payHeads'[d][r].ytd = payHeads[d][r].ytd \cup {cts[c]}
        BY BuffersRead
    <2> QED
        BY <1>0, <1>2, <1>c, <1>s, <2>1
<1>3. ASSUME NEW d \in Clients, Paying(d)' PROVE \E k \in Nat : k < nextEpoch'[d] /\ cts'[d] = Drawn(k, d)
    <2>0. nextEpoch[d] \in Nat /\ nextEpoch'[d] \in Nat /\ nextEpoch[d] <= nextEpoch'[d]
        BY <1>p DEF PayInv, PayTypeOK, TypeOK, Progress
    <2>1. CASE Paying(d) /\ cts'[d] = cts[d]
        <3>1. PICK k \in Nat : k < nextEpoch[d] /\ cts[d] = Drawn(k, d)
            BY <1>0, <2>1
        <3>2. k < nextEpoch'[d]
            BY <2>0, <3>1
        <3> QED
            BY <2>1, <3>1, <3>2
    <2>2. CASE d = c /\ PayAcquireCommitTimestamp(c)
        <3>1. cts'[c] = Drawn(nextEpoch[c], c) /\ nextEpoch'[c] = nextEpoch[c] + 1
            BY <1>t, <2>2, PayDrawIsLarger
        <3>2. nextEpoch[c] < nextEpoch'[c]
            BY <2>0, <2>2, <3>1
        <3> QED
            BY <2>0, <2>2, <3>1, <3>2
    <2> QED
        BY <1>3, <1>p, <2>1, <2>2 DEF Progress
<1>4. \A d \in Clients : Paying(d)' => \E k \in Nat : k < nextEpoch'[d] /\ cts'[d] = Drawn(k, d)'
    BY <1>3 DEF Drawn
<1> QED
    BY <1>1, <1>2, <1>4 DEF PayDrawnInv

\* Commit timestamps of payments that run are different.
LEMMA PayDrawsDiffer ==
    ASSUME PayDrawnInv, NEW c \in Clients, NEW d \in Clients, Paying(c), Paying(d), cts[c] = cts[d]
    PROVE  c = d
<1>1. PICK k \in Nat : cts[c] = Drawn(k, c)
    BY DEF PayDrawnInv
<1>2. PICK n \in Nat : cts[d] = Drawn(n, d)
    BY DEF PayDrawnInv
<1> QED
    BY <1>1, <1>2, DrawnDiffer

\* What a row gains is what is installed.
LEMMA GainedPayment ==
    ASSUME SharedQueuePair, PayInv, BufferInv, NEW c \in Clients, PayAct(c), NEW r \in Refs,
           NEW p \in headVersions'[r].ytd, p \notin headVersions[r].ytd
    PROVE  Installs(c, r) /\ Torn(c, r) /\ p = cts[c]
<1>t. PayTypeOK /\ QueueInv
    BY DEF PayInv
<1>1. Installs(c, r)
    <2>1. CASE LeavesRows(c)
        BY <2>1 DEF LeavesRows, RowsKept
    <2>2. ASSUME NEW q \in Refs, Changes(c, q) PROVE Installs(c, r)
        BY <2>2 DEF Changes, Takes, GivesBack, Unlocks, Installs, Touches
    <2> QED
        BY <1>t, <2>1, <2>2, RowSteps
<1>2. Torn(c, r) /\ headVersions'[r].ytd = payHeads[c][r].ytd
    BY <1>1 DEF Installs
<1>3. payHeads[c][r].ytd = headVersions[r].ytd \cup {cts[c]}
    BY <1>2, TornWord
<1> QED
    BY <1>1, <1>2, <1>3

\* A word of a payment that is not announced stays.
LEMMA OwnWordStays ==
    ASSUME SharedQueuePair, PayInv, BufferInv, NEW c \in Clients, PayAct(c),
           NEW d \in Clients, NEW r \in Refs, payPc[d] \in {"update", "submit"},
           r \notin payWon[d], OwnWord(d, headVersions[r].ts)
    PROVE  headVersions'[r].ts = headVersions[r].ts
<1>t. PayTypeOK /\ QueueInv /\ \A e \in Clients, q \in Refs : OwnerAt(e, q)
    BY DEF PayInv, OwnerInv
<1>u. ~headVersions[r].ts.locked
    BY DEF OwnWord
<1>1. CASE LeavesRows(c)
    BY <1>1 DEF LeavesRows, RowsKept
<1>2. ASSUME NEW q \in Refs \ {r}, Changes(c, q) PROVE headVersions'[r] = headVersions[r]
    BY <1>2 DEF Changes, Takes, GivesBack, Unlocks, Installs, Touches
<1>3. ASSUME Takes(c, r) PROVE FALSE
    <2>1. payPc[c] = "lock" /\ headVersions[r].ts = payHeads[c][r].ts
        BY <1>3 DEF Takes
    <2>2. PayReadDone(c, r) /\ PayAccessible(c, r)
        BY <1>t, <2>1 DEF PayReadDone, OwnerAt, CheckedPayment
    <2> QED
        BY <2>1, <2>2, PayUnannouncedUnusable
<1>4. ASSUME GivesBack(c, r) \/ Unlocks(c, r) PROVE FALSE
    <2>1. r \in payWon[c]
        BY <1>t, <1>4 DEF GivesBack, Unlocks, OwnerAt, OwnsAt
    <2> QED
        BY <1>t, <1>u, <2>1 DEF OwnerAt, WonAt
<1>5. ASSUME Installs(c, r) PROVE headVersions'[r].ts = headVersions[r].ts
    BY <1>5 DEF Installs
<1>6. ASSUME Changes(c, r) PROVE headVersions'[r].ts = headVersions[r].ts
    BY <1>3, <1>4, <1>5, <1>6 DEF Changes
<1> QED
    BY <1>t, <1>1, <1>2, <1>6, RowSteps

LEMMA PayTopStep ==
    ASSUME SharedQueuePair, PayInv, PairInv, BufferInv, PayDrawnInv, PayTopInv, NEW c \in Clients, PayAct(c)
    PROVE  PayTopInv'
<1>t. PayTypeOK /\ QueueInv /\ EpochInv /\ PayEpochInv
    BY DEF PayInv
<1>p. Progress(c)
    BY PayProgress
<1>a. \A d \in Clients \ {c} : SamePayment(d)
    BY <1>t, PayActsAlone DEF ActsAlone
<1>1. ASSUME NEW d \in Clients, NEW r \in Refs, Paying(d)', cts'[d] \in headVersions'[r].ytd
      PROVE  /\ payPc'[d] \in {"update", "submit"}
             /\ r \notin payWon'[d]
             /\ OwnWord(d, headVersions[r].ts)'
    <2>1. CASE d = c /\ PayAcquireCommitTimestamp(c)
        <3>1. RowsKept /\ cts'[c] = Drawn(nextEpoch[c], c)
            BY <1>t, <2>1, PayAcquireCommitTimestampEffect, PayDrawIsLarger
        <3>2. WasDrawn(cts'[c])
            BY <1>1, <2>1, <3>1 DEF RowsKept, PayDrawnInv
        <3>3. PICK e \in Clients, k \in Nat : k < nextEpoch[e] /\ cts'[c] = Drawn(k, e)
            BY <3>2 DEF WasDrawn
        <3>4. nextEpoch[c] \in Nat /\ nextEpoch[e] \in Nat
            BY <1>t DEF PayTypeOK, TypeOK
        <3>5. c = e /\ nextEpoch[c] = k
            BY <3>1, <3>3, <3>4, DrawnDiffer
        <3> QED
            BY <3>3, <3>4, <3>5
    <2>2. CASE Paying(d) /\ cts'[d] = cts[d]
        <3>1. /\ payPc[d] \in {"update", "submit"} /\ r \notin payWon[d]
              /\ OwnWord(d, headVersions[r].ts)
            <4>1. CASE cts[d] \in headVersions[r].ytd
                BY <2>2, <4>1 DEF PayTopInv
            <4>2. CASE cts[d] \notin headVersions[r].ytd
                <5>1. Torn(c, r) /\ cts[d] = cts[c]
                    BY <1>1, <2>2, <4>2, GainedPayment
                <5>2. /\ payPc[c] \in {"update", "submit"} /\ r \notin payWon[c]
                      /\ OwnWord(c, headVersions[r].ts)
                    BY <5>1, TornWord
                <5>3. c = d
                    BY <2>2, <5>1, <5>2, PayDrawsDiffer DEF Paying
                <5> QED
                    BY <5>2, <5>3
            <4> QED
                BY <4>1, <4>2
        <3>2. payPc'[d] \in {"update", "submit"}
            BY <1>1, <1>p, <3>1 DEF Progress
        <3>3. headVersions'[r].ts = headVersions[r].ts
            BY <3>1, OwnWordStays
        <3>4. r \notin payWon'[d]
            <4>1. CASE d # c
                BY <1>a, <3>1, <4>1 DEF SamePayment
            <4>2. CASE d = c
                <5>1. CASE LeavesRows(c)
                    BY <3>1, <4>2, <5>1 DEF LeavesRows
                <5>2. ASSUME NEW q \in Refs, Changes(c, q) PROVE r \notin payWon'[c]
                    <6>1. ~Takes(c, q)
                        BY <3>1, <4>2 DEF Takes
                    <6> QED
                        BY <3>1, <4>2, <5>2, <6>1 DEF Changes, GivesBack, Unlocks, Installs, Touches
                <5> QED
                    BY <1>t, <4>2, <5>1, <5>2, RowSteps
            <4> QED
                BY <4>1, <4>2
        <3> QED
            BY <2>2, <3>1, <3>2, <3>3, <3>4 DEF OwnWord
    <2> QED
        BY <1>1, <1>p, <2>1, <2>2 DEF Progress
<1> QED
    BY <1>1 DEF PayTopInv

\* A client's commit timestamps name it.
LEMMA DrawnNamesClient ==
    ASSUME NEW c \in Clients, NEW k \in Nat
    PROVE  Drawn(k, c) \in Nat /\ Drawn(k, c) % ClientCnt = c
<1>1. ClientCnt \in Nat /\ ClientCnt >= 1 /\ c \in Nat /\ c < ClientCnt
    BY ClientCntAssumption DEF Clients
<1>2. k * ClientCnt \in Nat
    BY <1>1
<1>3. (k * ClientCnt + c) % ClientCnt = c
    BY <1>1, <1>2, SMTT(20)
<1> QED
    BY <1>1, <1>2, <1>3 DEF Drawn

LEMMA PaymentNumberTyped ==
    ASSUME PayInv, NEW r \in Refs, NEW p \in headVersions[r].ytd
    PROVE  p \in Nat /\ p % ClientCnt \in Clients
<1>1. headVersions[r] \in VersionType
    BY PayRows DEF PayInv, PayTypeOK, TypeOK
<1>2. p \in Nat
    BY <1>1 DEF VersionType
<1>3. ClientCnt \in Nat /\ ClientCnt >= 1
    BY ClientCntAssumption
<1>4. p % ClientCnt \in 0 .. ClientCnt - 1
    BY <1>2, <1>3
<1> QED
    BY <1>2, <1>4 DEF Clients

LEMMA EverywhereStep ==
    ASSUME SharedQueuePair, PayInv, PayInv', PairInv, BufferInv, PayDrawnInv, PayTopInv, EverywhereInv,
           NEW c \in Clients, PayAct(c)
    PROVE  EverywhereInv'
<1>t. PayTypeOK /\ QueueInv /\ PairInv'
    BY PairStep DEF PayInv
<1>p. Progress(c)
    BY PayProgress
<1>g. \A r \in Refs : headVersions[r].ytd \subseteq headVersions'[r].ytd
    BY BalancesGrow
<1>v. \A d \in Clients : lastCommittedVector[d] \in Nat /\ lastCommittedVector'[d] \in Nat
    BY DEF PayInv, PayTypeOK, TypeOK
<1>1. ASSUME NEW r \in Refs, NEW p \in headVersions'[r].ytd
      PROVE  \/ \E d \in Clients : Paying(d)' /\ p = cts'[d]
             \/ /\ p <= lastCommittedVector'[p % ClientCnt]
                /\ \A q \in Refs : p \in headVersions'[q].ytd
    <2>1. CASE p \notin headVersions[r].ytd
        <3>1. Torn(c, r) /\ p = cts[c] /\ Installs(c, r)
            BY <1>1, <2>1, GainedPayment
        <3>2. payPc[c] \in {"update", "submit"} /\ payPc'[c] = payPc[c] /\ cts'[c] = cts[c]
            BY <3>1, TornWord DEF Installs, Touches, SameClient
        <3> QED
            BY <3>1, <3>2 DEF Paying
    <2>2. ASSUME p \in headVersions[r].ytd, NEW d \in Clients, Paying(d), p = cts[d]
          PROVE  \/ \E e \in Clients : Paying(e)' /\ p = cts'[e]
                 \/ /\ p <= lastCommittedVector'[p % ClientCnt]
                    /\ \A q \in Refs : p \in headVersions'[q].ytd
        <3>1. CASE Paying(d)' /\ cts'[d] = cts[d]
            BY <2>2, <3>1
        <3>2. ASSUME d = c, PayLockAbort(c) PROVE FALSE
            <4>1. payPc[c] = "revert"
                BY <1>t, <3>2, PhaseEffect
            <4> QED
                BY <2>2, <3>2, <4>1 DEF PayTopInv
        <3>3. CASE d = c /\ PaySubmitResult(c)
            <4>1. /\ payPc[c] = "submit" /\ payPc'[c] = "idle" /\ queue'[c] = queue[c]
                  /\ lastCommittedVector'[c] = localVector[c][c]
                BY <1>t, <3>3, PaySubmitResultEffect
            <4>2. lastCommittedVector'[c] = cts[c] /\ cts[c] \in Nat
                BY <4>1 DEF PayInv, PayVectorInv, PayTypeOK, TypeOK
            <4>3. p % ClientCnt = c
                BY <2>2, <3>3, DrawnNamesClient DEF PayDrawnInv
            <4>4. Pair(c) = <<>>
                BY <1>t, <4>1 DEF PairInv, PairAt, Pair
            <4>5. ASSUME NEW q \in Refs PROVE p \in headVersions[q].ytd
                <5>1. ~UnlockPending(c, q) /\ ~Torn(c, q) /\ BufferAt(c, q) /\ WonAt(c, q)
                    BY <4>4, OnePair DEF BufferInv, PayInv, OwnerInv, OwnerAt
                <5>2. q \notin payWon[c]
                    BY <4>1, <5>1 DEF WonAt, WillUnlock, ToPost
                <5> QED
                    BY <2>2, <3>3, <4>1, <5>1, <5>2 DEF BufferAt
            <4>6. p <= lastCommittedVector'[p % ClientCnt]
                BY <2>2, <3>3, <4>2, <4>3
            <4> QED
                BY <1>g, <4>5, <4>6
        <3> QED
            BY <1>p, <2>2, <3>1, <3>2, <3>3 DEF Progress
    <2>3. ASSUME p \in headVersions[r].ytd, p <= lastCommittedVector[p % ClientCnt],
                 \A q \in Refs : p \in headVersions[q].ytd
          PROVE  p <= lastCommittedVector'[p % ClientCnt] /\ \A q \in Refs : p \in headVersions'[q].ytd
        <3>1. p \in Nat /\ p % ClientCnt \in Clients
            BY <2>3, PaymentNumberTyped
        <3>2. lastCommittedVector[p % ClientCnt] <= lastCommittedVector'[p % ClientCnt]
            BY <1>p, <3>1 DEF Progress
        <3>3. /\ lastCommittedVector[p % ClientCnt] \in Nat
              /\ lastCommittedVector'[p % ClientCnt] \in Nat
            BY <1>v, <3>1
        <3>4. \A x, y, z \in Nat : x <= y /\ y <= z => x <= z
            OBVIOUS
        <3> QED
            BY <1>g, <2>3, <3>1, <3>2, <3>3, <3>4
    <2> QED
        BY <1>1, <2>1, <2>2, <2>3 DEF EverywhereInv
<1> QED
    BY <1>1 DEF EverywhereInv

LEMMA OrderBalanceStep ==
    ASSUME PayInv, PayInv', PayDrawnInv, PayTopInv, EverywhereInv, OrderFrame
    PROVE  PayDrawnInv' /\ PayTopInv' /\ EverywhereInv'
<1>0. /\ \A d \in Clients : /\ lastCommittedVector[d] <= lastCommittedVector'[d]
                            /\ nextEpoch[d] <= nextEpoch'[d]
                            /\ Paying(d)' <=> Paying(d)
                            /\ Paying(d) => cts'[d] = cts[d]
      /\ UNCHANGED <<payPc, payHeads, payWon>>
      /\ \A r \in Refs : headVersions'[r] = headVersions[r]
    BY OrderProgress
<1>s. \A p : WasDrawn(p) => WasDrawn(p)'
    BY <1>0, DrawnStays
<1>1. PayDrawnInv'
    <2>1. /\ \A r \in Refs : \A p \in headVersions'[r].ytd : WasDrawn(p)'
          /\ \A c \in Clients, r \in Refs : \A p \in payHeads'[c][r].ytd : WasDrawn(p)'
        BY <1>0, <1>s DEF PayDrawnInv
    <2>2. ASSUME NEW d \in Clients, Paying(d)' PROVE \E k \in Nat : k < nextEpoch'[d] /\ cts'[d] = Drawn(k, d)
        <3>1. PICK k \in Nat : k < nextEpoch[d] /\ cts[d] = Drawn(k, d)
            BY <1>0, <2>2 DEF PayDrawnInv
        <3>2. nextEpoch[d] \in Nat /\ nextEpoch'[d] \in Nat /\ nextEpoch[d] <= nextEpoch'[d]
            BY <1>0 DEF PayInv, PayTypeOK, TypeOK
        <3>3. k < nextEpoch'[d] /\ cts'[d] = cts[d]
            BY <1>0, <2>2, <3>1, <3>2
        <3> QED
            BY <3>1, <3>3
    <2>3. \A d \in Clients : Paying(d)' => \E k \in Nat : k < nextEpoch'[d] /\ cts'[d] = Drawn(k, d)'
        BY <2>2 DEF Drawn
    <2> QED
        BY <2>1, <2>3 DEF PayDrawnInv
<1>2. PayTopInv'
    BY <1>0 DEF PayTopInv, OwnWord
<1>3. EverywhereInv'
    <2>1. ASSUME NEW r \in Refs, NEW p \in headVersions'[r].ytd
          PROVE  \/ \E d \in Clients : Paying(d)' /\ p = cts'[d]
                 \/ /\ p <= lastCommittedVector'[p % ClientCnt]
                    /\ \A q \in Refs : p \in headVersions'[q].ytd
        <3>0. p \in headVersions[r].ytd
            BY <1>0, <2>1
        <3>1. CASE \E d \in Clients : Paying(d) /\ p = cts[d]
            BY <1>0, <3>1
        <3>2. CASE p <= lastCommittedVector[p % ClientCnt] /\ \A q \in Refs : p \in headVersions[q].ytd
            <4>1. p \in Nat /\ p % ClientCnt \in Clients
                BY <3>0, PaymentNumberTyped
            <4>2. /\ lastCommittedVector[p % ClientCnt] \in Nat
                  /\ lastCommittedVector'[p % ClientCnt] \in Nat
                  /\ lastCommittedVector[p % ClientCnt] <= lastCommittedVector'[p % ClientCnt]
                BY <1>0, <4>1 DEF PayInv, PayTypeOK, TypeOK
            <4>3. \A x, y, z \in Nat : x <= y /\ y <= z => x <= z
                OBVIOUS
            <4> QED
                BY <1>0, <3>2, <4>1, <4>2, <4>3
        <3> QED
            BY <3>0, <3>1, <3>2 DEF EverywhereInv
    <2> QED
        BY <2>1 DEF EverywhereInv
<1> QED
    BY <1>1, <1>2, <1>3

LEMMA BalanceInit ==
    ASSUME SharedQueuePair, PayInit
    PROVE  BalanceInv
<1>1. PayInv
    BY PayInvInit
<1>2. /\ \A c \in Clients : /\ payPc[c] = "idle" /\ payWon[c] = {}
                            /\ queue[c] = [s \in Servers |-> <<>>]
                            /\ historyServer[c] \in HistoryServers
      /\ \A r \in Refs : headVersions[r].ytd = {}
      /\ \A c \in Clients, r \in Refs : payHeads[c][r].ytd = {}
    BY PayRows DEF PayInit, Init, InitialVersion, EmptyVersion
<1>3. \A c \in Clients : Pair(c) = <<>> /\ Resting(c) /\ ~Paying(c)
    BY <1>2, OnePair DEF Pair, Resting, Paying
<1>4. PairInv
    BY <1>2, <1>3, PayRows DEF PairInv, PairAt, SharedQueuePair
<1>5. BufferInv
    <2>1. ASSUME NEW c \in Clients, NEW r \in Refs PROVE BufferAt(c, r)
        BY <1>2, <1>3, OnePair, RestingIsOld DEF BufferAt
    <2> QED
        BY <2>1 DEF BufferInv
<1>6. PayIdentityInv
    BY <1>2 DEF PayIdentityInv, PayIdentityAt, PayReadDone
<1>7. PayDrawnInv /\ PayTopInv /\ EverywhereInv
    BY <1>2, <1>3 DEF PayDrawnInv, PayTopInv, EverywhereInv
<1> QED
    BY <1>1, <1>4, <1>5, <1>6, <1>7 DEF BalanceInv

LEMMA BalanceStep ==
    ASSUME SharedQueuePair, BalanceInv, [PayNext]_mixVars
    PROVE  BalanceInv' /\ \A r \in Refs : headVersions[r].ytd \subseteq headVersions'[r].ytd
<1>0. /\ PayInv /\ PairInv /\ BufferInv /\ PayIdentityInv /\ PayDrawnInv /\ PayTopInv
      /\ EverywhereInv /\ PayInv'
    BY PayInvStep DEF BalanceInv
<1>1. ASSUME NEW c \in Clients, PayAct(c)
      PROVE  BalanceInv' /\ \A r \in Refs : headVersions[r].ytd \subseteq headVersions'[r].ytd
    <2>1. PairInv' /\ BufferInv' /\ PayIdentityInv'
        BY <1>0, <1>1, PairStep, BufferStep, PayIdentityStep
    <2>2. PayDrawnInv' /\ PayTopInv' /\ EverywhereInv'
        BY <1>0, <1>1, PayDrawnStep, PayTopStep, EverywhereStep
    <2> QED
        BY <1>0, <1>1, <2>1, <2>2, BalancesGrow DEF BalanceInv
<1>2. CASE OrderPart
    <2>1. OrderFrame
        BY <1>0, <1>2, OrderFramed DEF PayInv
    <2>2. PairInv' /\ BufferInv' /\ PayIdentityInv'
        BY <1>0, <2>1, OrderBufferStep, OrderIdentityStep
    <2>3. PayDrawnInv' /\ PayTopInv' /\ EverywhereInv'
        BY <1>0, <2>1, OrderBalanceStep
    <2> QED
        BY <1>0, <2>1, <2>2, <2>3 DEF BalanceInv, OrderFrame, RowsKept
<1> QED
    BY <1>1, <1>2, PayNextParts

\* With one queue pair, no step of any transaction takes a payment out of a
\* balance: neither a stale buffer nor a head written late overwrites one.
THEOREM PaymentsAreNeverLost ==
    ASSUME SharedQueuePair
    PROVE  PaySpec => PaymentsNeverLost
<1>1. PayInit => BalanceInv
    BY BalanceInit
<1>2. BalanceInv /\ [PayNext]_mixVars => BalanceInv'
    BY BalanceStep
<1>3. BalanceInv /\ [PayNext]_mixVars => [\A r \in Refs : headVersions[r].ytd \subseteq headVersions'[r].ytd]_mixVars
    BY BalanceStep
<1> QED
    BY <1>1, <1>2, <1>3, PTL DEF PaySpec, PaymentsNeverLost

\* With one queue pair, a payment is announced only after all its rows are
\* installed: the completion of the history row vouches for the other requests.
THEOREM AnnouncedPaymentsAreInstalled ==
    ASSUME SharedQueuePair
    PROVE  PaySpec => []AnnouncedPaymentsInstalled
<1>1. PayInit => BalanceInv
    BY BalanceInit
<1>2. BalanceInv /\ [PayNext]_mixVars => BalanceInv'
    BY BalanceStep
<1>3. ASSUME BalanceInv PROVE AnnouncedPaymentsInstalled
    <2>0. PayInv /\ PayDrawnInv /\ EverywhereInv
        BY <1>3 DEF BalanceInv
    <2>1. ASSUME NEW r \in Refs, NEW q \in Refs, NEW p \in headVersions[r].ytd,
                 p <= lastCommittedVector[p % ClientCnt]
          PROVE  p \in headVersions[q].ytd
        <3>1. ASSUME NEW d \in Clients, Paying(d), p = cts[d] PROVE FALSE
            <4>1. p % ClientCnt = d
                BY <2>0, <3>1, DrawnNamesClient DEF PayDrawnInv
            <4>2. lastCommittedVector[d] < cts[d] /\ lastCommittedVector[d] \in Nat /\ cts[d] \in Nat
                BY <2>0, <3>1 DEF PayInv, PayVectorInv, PayTypeOK, TypeOK
            <4> QED
                BY <2>1, <3>1, <4>1, <4>2
        <3> QED
            BY <2>0, <2>1, <3>1 DEF EverywhereInv
    <2> QED
        BY <2>1 DEF AnnouncedPaymentsInstalled
<1> QED
    BY <1>1, <1>2, <1>3, PTL DEF PaySpec

\* With one queue pair, a payment that holds its three locks has read one state
\* of the three rows, made of announced payments only.
THEOREM ReceivedVersionsConsistent ==
    ASSUME SharedQueuePair
    PROVE  PaySpec => []ReceivedVersionsAreConsistent
<1>1. PayInit => BalanceInv
    BY BalanceInit
<1>2. BalanceInv /\ [PayNext]_mixVars => BalanceInv'
    BY BalanceStep
<1>3. ASSUME BalanceInv PROVE ReceivedVersionsAreConsistent
    <2>0. PayInv /\ BufferInv /\ PayTopInv /\ EverywhereInv
        BY <1>3 DEF BalanceInv
    <2>1. ASSUME NEW c \in Clients, payPc[c] = "append"
          PROVE  \A r \in Refs :
                    /\ payHeads[c][r].ytd = payHeads[c][Warehouse].ytd
                    /\ \A p \in payHeads[c][r].ytd : p <= lastCommittedVector[p % ClientCnt]
        <3>1. ASSUME NEW r \in Refs
              PROVE  r \in payWon[c] /\ headVersions[r].ts.locked
            BY <2>0, <2>1 DEF PayInv, OwnerInv, OwnerAt, OwnsAt, WonAt
        <3>2. \A r \in Refs : payHeads[c][r].ytd = headVersions[r].ytd
            BY <2>0, <2>1, <3>1, RestingRead DEF Resting
        <3>3. ASSUME NEW r \in Refs, NEW p \in headVersions[r].ytd
              PROVE  /\ p <= lastCommittedVector[p % ClientCnt]
                     /\ \A q \in Refs : p \in headVersions[q].ytd
            <4>1. ~\E d \in Clients : Paying(d) /\ p = cts[d]
                BY <2>0, <3>1, <3>3 DEF PayTopInv, OwnWord
            <4> QED
                BY <2>0, <3>3, <4>1 DEF EverywhereInv
        <3>4. ASSUME NEW r \in Refs PROVE headVersions[r].ytd = headVersions[Warehouse].ytd
            <4>1. headVersions[r].ytd \subseteq headVersions[Warehouse].ytd
                BY <3>3, PayRows
            <4>2. headVersions[Warehouse].ytd \subseteq headVersions[r].ytd
                BY <3>3, PayRows
            <4>3. \A A, B : A \subseteq B /\ B \subseteq A => A = B
                OBVIOUS
            <4> QED
                BY <4>1, <4>2, <4>3
        <3> QED
            BY <3>2, <3>3, <3>4, PayRows
    <2> QED
        BY <2>1 DEF ReceivedVersionsAreConsistent
<1> QED
    BY <1>1, <1>2, <1>3, PTL DEF PaySpec
=============================================================================
