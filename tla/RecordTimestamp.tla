--------------------------- MODULE RecordTimestamp ---------------------------
(***************************************************************************)
(* The write timestamp every record version carries, and the functions of  *)
(* the client library that read it.                                        *)
(*                                                                         *)
(* A timestamp is eight bytes: a 32-bit commit timestamp, the 16-bit id of *)
(* the committing client, a lock/deletion byte and an 8-bit version        *)
(* offset.  The byte is abstracted to the two booleans it encodes.         *)
(***************************************************************************)
EXTENDS Integers

CONSTANTS
    ClientCnt,        \* number of clients, ids are 0 .. ClientCnt - 1
    VersionNum,       \* VERSION_NUM: older versions kept beside the head version
    TimestampRange    \* 2^32 in the program: commit timestamps are uint32_t

ASSUME ClientCntAssumption == ClientCnt \in Nat \ {0}
ASSUME VersionNumAssumption == VersionNum \in Nat \ {0}
ASSUME TimestampRangeAssumption == TimestampRange \in Nat \ {0}

Clients == 0 .. ClientCnt - 1

VersionOffsets == 0 .. VersionNum - 1

TimestampType ==
    [deleted : BOOLEAN, locked : BOOLEAN, versionOffset : VersionOffsets,
     clientID : Clients, timestamp : Nat]

\* Timestamp's five-argument constructor, and setAll.
Timestamp(deleted, locked, versionOffset, clientID, timestamp) ==
    [deleted |-> deleted, locked |-> locked, versionOffset |-> versionOffset,
     clientID |-> clientID, timestamp |-> timestamp]

\* The default constructor: what a slot of a pointer list or of the older
\* versions holds before anything was written to it.
EmptyTimestamp == Timestamp(TRUE, FALSE, 0, 0, 0)

\* The timestamp the loader gives every record.
InitialTimestamp == Timestamp(FALSE, FALSE, 0, 0, 0)

\* Mutant: the snapshot is not consulted.
isRecordAccessibleAnySnapshot(ts, c, vector) == ~ts.locked /\ ~ts.deleted

\* A version may be used by client c with snapshot vector: it is neither locked
\* nor deleted, and it is c's own or its committer had announced it.
isRecordAccessible(ts, c, vector) ==
    /\ ~ts.locked
    /\ ~ts.deleted
    /\ \/ ts.clientID = c
       \/ ts.timestamp <= vector[ts.clientID]

\* The position in a pointer list of the first usable version, or -1.
findValidVersion(list, c, vector) ==
    LET valid == {i \in VersionOffsets : isRecordAccessible(list[i], c, vector)}
    IN  IF valid = {} THEN -1
        ELSE CHOOSE i \in valid : \A j \in valid : i <= j

\* The commit timestamp client c draws in an epoch of its own counter; the
\* cast to primitive::timestamp_t drops the high bits.
CommitTimestamp(epoch, c) == (epoch * ClientCnt + c) % TimestampRange

\* Mutants: the offset does not wrap around; the offset does not move.
NextVersionOffsetUnbounded(o) == o + 1
NextVersionOffsetStuck(o) == o

\* The slot of the circular buffer of older versions after slot o.
NextVersionOffset(o) == (o + 1) % VersionNum

\* The pointer list after the old head was put in front and the last dropped.
ShiftPointers(list, oldHead) ==
    [i \in VersionOffsets |-> IF i = 0 THEN oldHead ELSE list[i - 1]]
=============================================================================
