-------------------------- MODULE NewOrderLog_proofs --------------------------
(***************************************************************************)
(* Proof that New-Order logs before it installs, for any number of clients *)
(* and stocks, when the part of a log entry that is written is as long as  *)
(* the vector at its start.                                                *)
(*                                                                         *)
(* The argument.  The log entry of a client is overwritten by each of its  *)
(* transactions, with a larger commit timestamp.  So it is enough that the *)
(* word of an install is logged first: words only move between heads and   *)
(* buffers afterwards, or are put back when a lock is reverted.            *)
(***************************************************************************)
EXTENDS NewOrderTrx_proofs

\* What the log entry of c says of its own commits.
LoggedTimestamp(c) == journal[c].vector[c]

Logged(ts) == ~ts.locked => ts.timestamp <= LoggedTimestamp(ts.clientID)

LogInv ==
    /\ \A c \in Clients :
          /\ LoggedTimestamp(c) <= cts[c]
          /\ pc[c] = "install" => LoggedTimestamp(c) = cts[c]
    /\ \A s \in Stocks :
          /\ Logged(headVersions[s].ts)
          /\ \A d \in Clients : Logged(heads[d][s].ts)

LEMMA LogInit == Init => LogInv
<1> SUFFICES ASSUME Init PROVE LogInv
    OBVIOUS
<1>1. 0 \in Clients
    BY ClientCntAssumption DEF Clients
<1>2. \A c \in Clients : LoggedTimestamp(c) = 0
    BY DEF Init, LoggedTimestamp, EmptyLogEntry
<1> QED
    BY <1>1, <1>2, RecordsParts DEF Init, LogInv, Logged, InitialVersion, EmptyVersion,
       InitialTimestamp, EmptyTimestamp, Timestamp

-----------------------------------------------------------------------------
\* Steps that only move words between heads and buffers, or lock.
WordsCopied ==
    /\ UNCHANGED <<journal, cts>>
    /\ \A c \in Clients : pc'[c] = "install" => pc[c] = "install"
    /\ \A s \in Stocks :
          /\ \/ headVersions'[s].ts = headVersions[s].ts
             \/ headVersions'[s].ts.locked
             \/ \E c \in Clients : headVersions'[s].ts = heads[c][s].ts
          /\ \A d \in Clients :
                heads'[d][s].ts = heads[d][s].ts \/ heads'[d][s].ts = headVersions[s].ts

LEMMA WordsCopiedStep ==
    ASSUME LogInv, WordsCopied
    PROVE  LogInv'
BY DEF LogInv, WordsCopied, Logged, LoggedTimestamp

LEMMA CopySteps ==
    ASSUME TypeOK, [Next]_vars
    PROVE  \/ WordsCopied
           \/ \E c \in Clients :
                 \/ AcquireCommitTimestamp(c) \/ LocksAcquired(c)
                 \/ \E s \in Stocks : UpdateStockTimestamp(c, s)
<1> USE DEF serverVars, orderVars, oracleVars, trxVars, rowVars
<1>1. ASSUME NEW c \in Clients, Start(c) PROVE WordsCopied
    BY <1>1 DEF TypeOK, WordsCopied, Start
<1>2. ASSUME NEW c \in Clients, NEW e \in Clients, getReadTimestamp(c, e) PROVE WordsCopied
    BY <1>2 DEF TypeOK, WordsCopied, getReadTimestamp
<1>3. ASSUME NEW c \in Clients, NEW r \in Records, RetrievePointerList(c, r) PROVE WordsCopied
    BY <1>3 DEF TypeOK, WordsCopied, RetrievePointerList
<1>4. ASSUME NEW c \in Clients, CheckVersionsAbort(c) PROVE WordsCopied
    BY <1>4 DEF TypeOK, WordsCopied, CheckVersionsAbort
<1>5. ASSUME NEW c \in Clients, CheckVersions(c) PROVE WordsCopied
    BY <1>5 DEF TypeOK, WordsCopied, CheckVersions
<1>6. ASSUME NEW c \in Clients, NEW r \in Refs, RecheckAbort(c, r) PROVE WordsCopied
    BY <1>6 DEF TypeOK, WordsCopied, RecheckAbort
<1>7. ASSUME NEW c \in Clients, LocksRefused(c) PROVE WordsCopied
    BY <1>7 DEF TypeOK, WordsCopied, LocksRefused
<1>8. ASSUME NEW c \in Clients, LockAbort(c) PROVE WordsCopied
    BY <1>8 DEF TypeOK, WordsCopied, LockAbort
<1>9. ASSUME NEW c \in Clients, NEW s \in Stocks, UpdateStockPointers(c, s) PROVE WordsCopied
    BY <1>9 DEF TypeOK, WordsCopied, UpdateStockPointers
<1>10. ASSUME NEW c \in Clients, NEW s \in Stocks, UpdateStockOlderVersions(c, s) PROVE WordsCopied
    BY <1>10 DEF TypeOK, WordsCopied, UpdateStockOlderVersions
<1>11. ASSUME NEW c \in Clients, RetrieveAndIncrementDistrictNextOID(c) PROVE WordsCopied
    BY <1>11 DEF TypeOK, WordsCopied, RetrieveAndIncrementDistrictNextOID
<1>12. ASSUME NEW c \in Clients, InsertOrder(c) PROVE WordsCopied
    BY <1>12 DEF TypeOK, WordsCopied, InsertOrder
<1>13. ASSUME NEW c \in Clients, RegisterOrder(c) PROVE WordsCopied
    BY <1>13 DEF TypeOK, WordsCopied, RegisterOrder
<1>14. ASSUME NEW c \in Clients, SubmitResult(c) PROVE WordsCopied
    BY <1>14 DEF TypeOK, WordsCopied, SubmitResult
<1>15. ASSUME NEW e \in Clients, ReaderRefresh(e) PROVE WordsCopied
    BY <1>15 DEF TypeOK, WordsCopied, ReaderRefresh
<1>16. ASSUME NEW c \in Clients, NEW r \in Records, RetrieveTimestamp(c, r) PROVE WordsCopied
    <2>1. UNCHANGED journal
        BY <1>16 DEF RetrieveTimestamp
    <2> QED
        BY <1>16, <2>1, RetrieveTimestampEffect DEF WordsCopied
<1>17. ASSUME NEW c \in Clients, NEW r \in Records, RetrieveRow(c, r) PROVE WordsCopied
    <2>1. UNCHANGED journal
        BY <1>17 DEF RetrieveRow
    <2> QED
        BY <1>17, <2>1, RetrieveRowEffect DEF WordsCopied
<1>18. ASSUME NEW c \in Clients, NEW r \in Refs, RetrieveOlderVersion(c, r) PROVE WordsCopied
    <2>1. UNCHANGED journal
        BY <1>18 DEF RetrieveOlderVersion
    <2> QED
        BY <1>18, <2>1, RetrieveOlderVersionEffect DEF WordsCopied
<1>19. ASSUME NEW c \in Clients, NEW s \in Stocks, RevertStockLock(c, s) PROVE WordsCopied
    <2>1. UNCHANGED <<journal, cts, pc, heads>>
        BY <1>19, RevertStockLockEffect DEF RevertStockLock
    <2>2. /\ headVersions'[s].ts = heads[c][s].ts
          /\ \A t \in Stocks \ {s} : headVersions'[t] = headVersions[t]
        BY <1>19, RevertStockLockEffect
    <2> QED
        BY <2>1, <2>2 DEF WordsCopied
<1>20. ASSUME NEW c \in Clients, NEW s \in Stocks, UpdateStock(c, s) PROVE WordsCopied
    <2>1. UNCHANGED journal
        BY <1>20 DEF UpdateStock
    <2> QED
        BY <1>20, <2>1, UpdateStockEffect DEF WordsCopied
<1>21. ASSUME NEW c \in Clients, NEW s \in Stocks, LockStock(c, s) PROVE WordsCopied
    <2>1. UNCHANGED journal
        BY <1>21 DEF LockStock
    <2> QED
        BY <1>21, <2>1, LockStockEffect, WordsWritten DEF WordsCopied
<1>22. CASE UNCHANGED vars
    BY <1>22 DEF WordsCopied, vars
<1> QED
    BY <1>1, <1>2, <1>3, <1>4, <1>5, <1>6, <1>7, <1>8, <1>9, <1>10, <1>11, <1>12, <1>13, <1>14,
       <1>15, <1>16, <1>17, <1>18, <1>19, <1>20, <1>21, <1>22
    DEF Next, Step

-----------------------------------------------------------------------------
\* A new commit timestamp is larger than what is logged.
LEMMA DrawKeepsLog ==
    ASSUME TypeOK, EpochInv, LogInv, NEW c \in Clients, AcquireCommitTimestamp(c)
    PROVE  LogInv'
<1>1. cts[c] < cts'[c] /\ cts[c] \in Nat /\ cts'[c] \in Nat /\ \A d \in Clients \ {c} : cts'[d] = cts[d]
    BY DrawIsLarger DEF TypeOK, AcquireCommitTimestamp, getNewCommitTimestamp
<1>2. /\ pc'[c] = "lock" /\ \A d \in Clients \ {c} : pc'[d] = pc[d]
      /\ UNCHANGED <<journal, headVersions, heads>>
    BY DEF TypeOK, AcquireCommitTimestamp, serverVars
<1>3. \A d \in Clients : LoggedTimestamp(d)' = LoggedTimestamp(d) /\ LoggedTimestamp(d) \in Nat
    BY <1>2 DEF LoggedTimestamp, TypeOK, LogEntryType
<1>4. \A d \in Clients :
         /\ LoggedTimestamp(d)' <= cts'[d]
         /\ pc'[d] = "install" => LoggedTimestamp(d)' = cts'[d]
    BY <1>1, <1>2, <1>3 DEF LogInv
<1> QED
    BY <1>2, <1>4 DEF LogInv, Logged, LoggedTimestamp

\* The entry that is written covers the commit timestamp, and all before it.
LEMMA WriteKeepsLog ==
    ASSUME TypeOK, LogInv, ClientCnt <= CommandSize, NEW c \in Clients, LocksAcquired(c)
    PROVE  LogInv'
<1>1. /\ UNCHANGED <<cts, headVersions, heads>>
      /\ localVector'[c][c] = cts[c]
      /\ journal' = [journal EXCEPT ![c] = LogEntry(@, localVector'[c])]
      /\ \A d \in Clients \ {c} : pc'[d] = pc[d]
    BY DEF LocksAcquired, writeCommandToLog, TypeOK, serverVars
<1>2. c < CommandSize
    BY ClientCntAssumption, CommandSizeAssumption DEF Clients
<1>3. LogEntry(journal[c], localVector'[c]).vector[c] = localVector'[c][c]
    BY <1>2 DEF LogEntry
<1>4. LoggedTimestamp(c)' = cts[c] /\ \A d \in Clients \ {c} : LoggedTimestamp(d)' = LoggedTimestamp(d)
    BY <1>1, <1>3 DEF LoggedTimestamp, TypeOK
<1>5. \A d \in Clients : LoggedTimestamp(d) \in Nat /\ cts[d] \in Nat
    BY DEF LoggedTimestamp, TypeOK, LogEntryType
<1>6. \A ts \in TimestampType : Logged(ts) => Logged(ts)'
    BY <1>4, <1>5 DEF Logged, LogInv, TimestampType
<1>7. \A s \in Stocks : /\ headVersions[s].ts \in TimestampType
                        /\ \A d \in Clients : heads[d][s].ts \in TimestampType
    BY RecordsParts DEF TypeOK, VersionType
<1>8. \A s \in Stocks : Logged(headVersions[s].ts)' /\ \A d \in Clients : Logged(heads[d][s].ts)'
    BY <1>1, <1>6, <1>7 DEF LogInv, Logged
<1> QED
    BY <1>1, <1>4, <1>5, <1>8 DEF LogInv

\* The word that is installed was logged.
LEMMA InstallKeepsLog ==
    ASSUME TypeOK, LogInv, NEW c \in Clients, NEW s \in Stocks, UpdateStockTimestamp(c, s)
    PROVE  LogInv'
<1>1. /\ pc[c] = "install"
      /\ headVersions'[s].ts = NewStockVersion(c, s).ts
      /\ \A t \in Stocks \ {s} : headVersions'[t] = headVersions[t]
      /\ UNCHANGED <<pc, heads, cts, journal>>
    BY UpdateStockTimestampEffect DEF UpdateStockTimestamp
<1>2. NewStockVersion(c, s).ts.clientID = c /\ NewStockVersion(c, s).ts.timestamp = cts[c]
    BY WordsWritten
<1>3. LoggedTimestamp(c) = cts[c] /\ cts[c] \in Nat
    BY <1>1 DEF LogInv, TypeOK
<1>4. \A d \in Clients : LoggedTimestamp(d)' = LoggedTimestamp(d)
    BY <1>1 DEF LoggedTimestamp
<1>5. Logged(headVersions[s].ts)'
    BY <1>1, <1>2, <1>3, <1>4 DEF Logged
<1>6. \A t \in Stocks : /\ t # s => Logged(headVersions[t].ts)'
                       /\ \A d \in Clients : Logged(heads[d][t].ts)'
    BY <1>1 DEF LogInv, Logged, LoggedTimestamp
<1> QED
    BY <1>1, <1>4, <1>5, <1>6 DEF LogInv

LEMMA LogStep ==
    ASSUME ClientCnt <= CommandSize, TypeOK, EpochInv, LogInv, [Next]_vars
    PROVE  LogInv'
    BY CopySteps, WordsCopiedStep, DrawKeepsLog, WriteKeepsLog, InstallKeepsLog

\* What the invariant says of the heads.
LEMMA InstallsLogged ==
    ASSUME TypeOK, LogInv
    PROVE  LogBeforeInstall
<1> SUFFICES ASSUME NEW s \in Stocks, ~headVersions[s].ts.locked
             PROVE  journal[headVersions[s].ts.clientID].vector[headVersions[s].ts.clientID]
                        >= headVersions[s].ts.timestamp
    BY DEF LogBeforeInstall
<1>1. headVersions[s].ts \in TimestampType /\ \A c \in Clients : LoggedTimestamp(c) \in Nat
    BY RecordsParts DEF TypeOK, VersionType, LogEntryType, LoggedTimestamp
<1> QED
    BY <1>1 DEF LogInv, Logged, LoggedTimestamp, TimestampType

\* Whatever New-Order installs is in its log before (writeCommandToLog waits
\* for the log servers), also when locks are reverted and entries overwritten.
THEOREM LogPrecedesInstall ==
    ASSUME ClientCnt <= CommandSize
    PROVE  Spec => []LogBeforeInstall
<1>1. IInv /\ LogInv /\ [Next]_vars => LogInv'
    BY LogStep DEF IInv, TypeInv
<1>2. IInv /\ LogInv => LogBeforeInstall
    BY InstallsLogged DEF IInv, TypeInv
<1> QED
    BY <1>1, <1>2, LogInit, Invariance, PTL DEF Spec
=============================================================================
