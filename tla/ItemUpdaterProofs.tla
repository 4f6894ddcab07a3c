------------------------- MODULE ItemUpdaterProofs -------------------------
(***************************************************************************)
(* What TLAPS proves of ItemUpdater, for every vault, table, number of     *)
(* workers and command line: what is backed up, that the final answer      *)
(* decides nothing, and of the runs themselves, that the backup of a row   *)
(* precedes its UPDATE, a dry run writes nothing, what is installed is     *)
(* whole and was backed up though players are connected, which rows a run  *)
(* has updated when it gets to its prompt, and that an applied run has     *)
(* updated the whole vault.                                                *)
(***************************************************************************)
EXTENDS ItemUpdater, TLAPS

USE DEF history

-----------------------------------------------------------------------------
(* Type correctness.  The types of the two phases need what a worker and the
   loop over the rows hold at each stage: HandsFull and SqlClaims. *)

TypeInv ==
    /\ TypeOK /\ HandsFull /\ SqlClaims
    /\ pc = "off" => cursor = 0

\* What a process leaves in memory when it ends is well typed.
LEMMA RestTyped ==
    ASSUME NEW how \in Exits, TypeInv, Ends(how),
           vault' \in [Chars -> Path], backup' \in [Chars -> Path],
           staged' \in [Chars -> Path], db' \in Table,
           sqlBackup' \in [Rows -> Items \union {NoItem, HalfWritten}],
           tempUsed' \in BOOLEAN, pre' \in [Chars -> Path],
           touched' \in SUBSET Chars
    PROVE  TypeInv'
<1>1. VaultTypeOK'
  BY DEF Ends, PoolAtRest, InstallAtRest, VaultTypeOK, Stages
<1>2. SqlTypeOK'
  BY SqlConstants DEF Ends, SqlAtRest, SqlTypeOK, PoolSize
<1>3. HandsFull' /\ SqlClaims'
  BY DEF Ends, PoolAtRest, SqlAtRest, HandsFull, Holds, SqlClaims
<1>4. pc' \in Phases /\ opt' \in Options /\ exit' \in Exits
  BY DEF Ends, TypeInv, TypeOK, Phases
<1> QED BY <1>1, <1>2, <1>3, <1>4 DEF TypeInv, TypeOK, Ends, SqlAtRest

LEMMA InitTyped == Init => TypeInv
<1> SUFFICES ASSUME Init PROVE TypeInv OBVIOUS
<1>1. VaultTypeOK
  BY DEF Init, VaultInit, VaultTypeOK, Stages, Path
<1>2. SqlTypeOK
  BY SqlConstants DEF Init, SqlInit, SqlTypeOK, PoolSize, Nothing, Table
<1>3. HandsFull /\ SqlClaims
  BY DEF Init, VaultInit, SqlInit, HandsFull, Holds, SqlClaims
<1>4. pre \in [Chars -> Path]
  BY DEF Init, VaultInit, Path
<1> QED BY <1>1, <1>2, <1>3, <1>4 DEF Init, SqlInit, TypeInv, TypeOK, Phases,
                                      Exits

\* The foreach.
LEMMA PoolStepTyped ==
    ASSUME TypeInv, NEW w \in Workers, NEW dry, PoolStep(w, dry)
    PROVE  VaultTypeOK' /\ HandsFull'
<1> USE DEF TypeInv, TypeOK, VaultTypeOK, HandsFull, Holds, Stages
<1>1. CASE TakeBatch(w)
  BY <1>1 DEF TakeBatch, disk, install
<1>2. CASE \E c \in batch[w] : ReadChar(w, c)
  <2>1. PICK c \in batch[w] : ReadChar(w, c) BY <1>2
  <2>2. c \in Chars OBVIOUS
  <2>3. Update[vault[c]] \in Content \union {NoMatch}
    BY <2>1, VaultConstants DEF ReadChar, Readable
  <2>4. CASE Update[vault[c]] = NoMatch
    BY <2>1, <2>4 DEF ReadChar, disk, install
  <2>5. CASE Update[vault[c]] # NoMatch
    BY <2>1, <2>2, <2>3, <2>5, VaultConstants DEF ReadChar, disk, install
  <2> QED BY <2>4, <2>5
<1>3. CASE BackupBegin(w)
  BY <1>3 DEF BackupBegin, install, Path, File
<1>4. CASE BackupEnd(w, dry)
  BY <1>4 DEF BackupEnd, PutDown, install, Path, File
<1>5. CASE StageBegin(w)
  BY <1>5 DEF StageBegin, install, Path, File
<1>6. CASE StageEnd(w)
  BY <1>6 DEF StageEnd, PutDown, install, Path, File
<1>7. CASE UnitThrows(w)
  BY <1>7 DEF UnitThrows, disk, install
<1> QED BY <1>1, <1>2, <1>3, <1>4, <1>5, <1>6, <1>7 DEF PoolStep

\* Copying into the vault.
LEMMA InstallTyped ==
    ASSUME TypeInv, CopyEnd \/ \E c \in toCopy : CopyBegin(c)
    PROVE  VaultTypeOK' /\ HandsFull'
<1> USE DEF TypeInv, TypeOK, VaultTypeOK, HandsFull, Holds
<1>1. CASE CopyEnd
  BY <1>1 DEF CopyEnd, disk, pool
<1>2. CASE \E c \in toCopy : CopyBegin(c)
  BY <1>2 DEF CopyBegin, disk, pool, Path, File
<1> QED BY <1>1, <1>2

\* The pool: lockConnection picks one of its connections, or adds one.
LEMMA FreeConnection ==
    ASSUME SqlTypeOK
    PROVE  /\ FirstFree \in 1..(Len(conns) + 1)
           /\ FirstFree \notin Locked
           /\ FirstFree \in 1..PoolSize
           /\ \A j \in 1..(FirstFree - 1) : j \in Locked
<1> DEFINE n == Len(conns)
           Free(i) == i \notin Locked /\ \A j \in 1..(i - 1) : j \in Locked
<1>1. n \in Nat /\ n <= 2 /\ cursor \in 0..n
  BY DEF SqlTypeOK, PoolSize
<1>2. CASE \E i \in 1..n : i \notin Locked
  <2>1. \E i \in 1..n : Free(i)
    <3>1. CASE 1 \notin Locked
      <4>1. 1 \in 1..n /\ Free(1) BY <1>1, <1>2, <3>1
      <4> QED BY <4>1
    <3>2. CASE 1 \in Locked
      <4>1. Locked = {1} /\ 2 \in 1..n
        BY <1>1, <1>2, <3>2 DEF Locked
      <4>2. Free(2) BY <4>1
      <4> QED BY <4>1, <4>2
    <3> QED BY <3>1, <3>2
  <2>2. FirstFree = CHOOSE i \in 1..n : Free(i)
    BY <1>2 DEF FirstFree
  <2>3. FirstFree \in 1..n /\ Free(FirstFree)
    <3> HIDE DEF n, Free
    <3> QED BY <2>1, <2>2
  <2> QED BY <1>1, <2>3 DEF PoolSize
<1>3. CASE ~ \E i \in 1..n : i \notin Locked
  <2>1. FirstFree = n + 1
    BY <1>3 DEF FirstFree
  <2>2. n <= 1
    BY <1>1, <1>3 DEF Locked
  <2>3. FirstFree \notin Locked
    BY <1>1, <2>1 DEF Locked
  <2> QED BY <1>1, <1>3, <2>1, <2>2, <2>3 DEF PoolSize
<1> QED BY <1>2, <1>3

LEMMA PoolTyped ==
    ASSUME SqlTypeOK
    PROVE  /\ Pool \in Seq(Connection)
           /\ Len(Pool) <= PoolSize /\ Len(conns) <= Len(Pool)
           /\ FirstFree \in 1..Len(Pool)
           /\ \A i \in 1..Len(conns) : Pool[i] = conns[i]
           /\ FirstFree \notin 1..Len(conns) => Pool[FirstFree] = FreshConnection
           /\ Len(Pool) \in {Len(conns), FirstFree}
<1>1. /\ FirstFree \in 1..(Len(conns) + 1)
      /\ FirstFree \in 1..PoolSize
  BY FreeConnection
<1>2. conns \in Seq(Connection) /\ Len(conns) <= PoolSize /\ Len(conns) \in Nat
  BY DEF SqlTypeOK
<1>3. FreshConnection \in Connection
  BY DEF FreshConnection, Connection, Table, Nothing
<1> HIDE DEF FirstFree, Connection, FreshConnection
<1>4. CASE FirstFree \in 1..Len(conns)
  BY <1>1, <1>2, <1>4 DEF Pool
<1>5. CASE FirstFree \notin 1..Len(conns)
  <2>1. Pool = Append(conns, FreshConnection) BY <1>5 DEF Pool
  <2>2. FirstFree = Len(conns) + 1 BY <1>1, <1>2, <1>5
  <2> QED BY <1>1, <1>2, <1>3, <2>1, <2>2
<1> QED BY <1>4, <1>5

LEMMA OverTyped ==
    ASSUME NEW f \in Table, NEW g \in Table
    PROVE  Over(f, g) \in Table
BY DEF Over, Table

LEMMA UpdateTyped ==
    ASSUME TypeInv, rowStage = "update"
    PROVE  /\ DbAfterUpdate \in Table
           /\ ConnsAfterUpdate \in Seq(Connection)
           /\ Len(ConnsAfterUpdate) = Len(Pool)
<1> DEFINE conn == Pool[FirstFree]
<1>1. /\ Pool \in Seq(Connection) /\ FirstFree \in 1..Len(Pool)
      /\ conn \in Connection /\ conn.pending \in Table
  <2>1. Pool \in Seq(Connection) /\ FirstFree \in 1..Len(Pool)
    BY PoolTyped DEF TypeInv, TypeOK
  <2>2. conn \in Connection BY <2>1
  <2> QED BY <2>1, <2>2 DEF Connection
<1>2. Written \in Table
  BY DEF Written, Updated, TypeInv, SqlClaims, Table
<1>3. DbAfterUpdate \in Table
  BY <1>1, <1>2, OverTyped DEF DbAfterUpdate, TypeInv, TypeOK, SqlTypeOK
<1>4. Over(Written, conn.pending) \in Table
  BY <1>1, <1>2, OverTyped
<1> DEFINE new == [autocommit |-> FALSE, pending |-> Over(Written, conn.pending)]
<1>5. new \in Connection
  BY <1>4 DEF Connection
<1>6. /\ ConnsAfterUpdate \in Seq(Connection)
      /\ Len(ConnsAfterUpdate) = Len(Pool)
  <2>1. CASE Pool[FirstFree].autocommit
    BY <1>1, <2>1 DEF ConnsAfterUpdate
  <2>2. CASE ~Pool[FirstFree].autocommit
    <3>1. ConnsAfterUpdate = [Pool EXCEPT ![FirstFree] = new]
      BY <2>2 DEF ConnsAfterUpdate
    <3> HIDE DEF new, conn, FirstFree, Pool
    <3> QED BY <1>1, <1>5, <3>1
  <2> QED BY <2>1, <2>2
<1> QED BY <1>3, <1>6

LEMMA SqlStepTyped ==
    ASSUME TypeInv, NEW dry, SqlStep(dry)
    PROVE  SqlTypeOK' /\ SqlClaims'
<1> USE DEF TypeInv, TypeOK
<1>a. /\ Pool \in Seq(Connection) /\ FirstFree \in 1..Len(Pool)
      /\ Len(Pool) <= PoolSize /\ Len(conns) <= Len(Pool)
      /\ Len(conns) \in Nat /\ Len(Pool) \in Nat
  BY PoolTyped DEF SqlTypeOK
<1>b. Targets \in Nat BY SqlConstants
<1>1. CASE SetAutocommitOff
  <2> DEFINE new == [autocommit |-> FALSE, pending |-> Pool[FirstFree].pending]
  <2>1. new \in Connection
    <3>1. Pool[FirstFree] \in Connection BY <1>a
    <3> QED BY <3>1 DEF Connection
  <2>2. conns' \in Seq(Connection) /\ Len(conns') = Len(Pool)
    <3>1. conns' = [Pool EXCEPT ![FirstFree] = new]
      BY <1>1 DEF SetAutocommitOff
    <3> HIDE DEF new
    <3> QED BY <1>a, <2>1, <3>1
  <2>3. SqlTypeOK'
    BY <1>1, <1>a, <1>b, <2>2 DEF SetAutocommitOff, SqlTypeOK
  <2> QED BY <1>1, <2>3 DEF SetAutocommitOff, SqlTypeOK, SqlClaims
<1>2. CASE SelectRows
  <2>1. snapshot' \in Table /\ unread' \in SUBSET Rows
    BY <1>2 DEF SelectRows, SqlTypeOK
  <2>2. /\ conns' = Pool /\ cursor' = FirstFree /\ cursor' \in 1..Len(conns')
        /\ cursor' # 0
    BY <1>2, <1>a DEF SelectRows
  <2>3. SqlTypeOK'
    BY <1>2, <1>a, <1>b, <2>1, <2>2 DEF SelectRows, SqlTypeOK
  <2>4. snapshot' # NoItem /\ \A r \in unread' : snapshot'[r] # NoItem
    BY <1>2, SqlConstants DEF SelectRows, SqlTypeOK, Table
  <2> QED BY <1>2, <2>2, <2>3, <2>4 DEF SelectRows, SqlClaims
<1>3. CASE \E r \in unread : SkipRow(r, dry) \/ BackupRow(r, dry)
  <2>1. PICK r \in unread : SkipRow(r, dry) \/ BackupRow(r, dry) BY <1>3
  <2>2. r \in Rows /\ snapshot[r] # NoItem BY DEF SqlTypeOK, SqlClaims
  <2>3. CASE SkipRow(r, dry)
    BY <2>2, <2>3 DEF SkipRow, SqlTypeOK, SqlClaims
  <2>4. CASE BackupRow(r, dry)
    <3>1. SqlTypeOK'
      BY <2>2, <2>4 DEF BackupRow, SqlTypeOK
    <3>2. SqlClaims'
      BY <2>2, <2>4, SqlConstants DEF BackupRow, SqlClaims
    <3> QED BY <3>1, <3>2
  <2> QED BY <2>1, <2>3, <2>4
<1>4. CASE BackupRowEnd
  BY <1>4, SqlConstants DEF BackupRowEnd, SqlTypeOK, SqlClaims, Table
<1>5. CASE UpdateRow
  <2>1. /\ db' \in Table /\ conns' \in Seq(Connection)
        /\ Len(conns') = Len(Pool)
    BY <1>5, UpdateTyped DEF UpdateRow
  <2>2. SqlTypeOK'
    BY <1>5, <1>a, <2>1 DEF UpdateRow, SqlTypeOK
  <2> QED BY <1>5, <2>2 DEF UpdateRow, SqlClaims
<1>6. CASE EndTarget
  <2>1. target' \in 0..Targets + 1
    BY <1>6, <1>b DEF EndTarget, SqlClaims, SqlTypeOK
  <2> QED BY <1>6, <2>1 DEF EndTarget, SqlTypeOK, SqlClaims
<1> QED BY <1>1, <1>2, <1>3, <1>4, <1>5, <1>6 DEF SqlStep

\* The temp directory's files only go away, or change within their types.
LEMMA WipeTyped ==
    ASSUME TypeInv, WipeFile
    PROVE  TypeInv'
BY DEF WipeFile, TypeInv, TypeOK, VaultTypeOK, SqlTypeOK, HandsFull, Holds,
       SqlClaims, pool, install, sqlMemory, control, Present, Path

LEMMA EnterTyped ==
    ASSUME TypeInv, NEW o \in Options, Enter(o)
    PROVE  /\ pc' \in Phases
           /\ queue' \in SUBSET Chars
           /\ batch' \in [Workers -> SUBSET Chars]
           /\ hand' \in [Workers -> Chars \union {Idle}]
           /\ stage' \in [Workers -> Stages]
           /\ buffer' \in [Workers -> Content \union {NoFile}]
           /\ failed' \in BOOLEAN
           /\ HandsFull'
BY DEF Enter, PoolAtRest, Present, pool, Stages, TypeInv, TypeOK, VaultTypeOK,
       HandsFull, Holds, Phases

LEMMA StartTyped ==
    ASSUME TypeInv, NEW o \in Options, Start(o)
    PROVE  TypeInv'
<1>1. /\ conns' \in Seq(Connection) /\ Len(conns') <= PoolSize
      /\ Len(conns') \in Nat /\ cursor' \in 0..Len(conns')
  <2>1. CASE o.sql
    <3>1. FreshConnection \in Connection
      BY DEF FreshConnection, Connection, Table, Nothing
    <3>2. conns' = <<FreshConnection>> BY <2>1 DEF Start, OpenPool
    <3>3. cursor' = 0 BY DEF Start, TypeInv
    <3> QED BY <3>1, <3>2, <3>3 DEF PoolSize
  <2>2. CASE ~o.sql
    BY <2>2 DEF Start, TypeInv, TypeOK, SqlTypeOK
  <2> QED BY <2>1, <2>2
<1>2. SqlTypeOK' /\ SqlClaims'
  BY <1>1 DEF Start, TypeInv, TypeOK, SqlTypeOK, SqlClaims
<1>3. pc' \in Phases /\ VaultTypeOK' /\ HandsFull'
  <2>1. CASE o.dry
    BY <2>1, EnterTyped DEF Start, disk, install, TypeInv, TypeOK, VaultTypeOK
  <2>2. CASE ~o.dry
    BY <2>2 DEF Start, disk, pool, install, TypeInv, TypeOK, VaultTypeOK,
                HandsFull, Holds, Phases
  <2> QED BY <2>1, <2>2
<1>4. pc' # "off"
  BY DEF Start, Enter
<1> QED BY <1>2, <1>3, <1>4 DEF Start, TypeInv, TypeOK, Exits

\* Every step of Next.
LEMMA StepTyped == TypeInv /\ [Next]_vars => TypeInv'
<1> SUFFICES ASSUME TypeInv, [Next]_vars PROVE TypeInv'
  OBVIOUS
<1>1. ASSUME NEW o \in Options, Start(o) PROVE TypeInv'
  BY <1>1, StartTyped
<1>2. CASE KeepTemp
  BY <1>2, RestTyped DEF KeepTemp, disk, Exits, TypeInv, TypeOK, VaultTypeOK,
                         SqlTypeOK
<1>3. CASE DeleteTemp
  BY <1>3 DEF DeleteTemp, disk, pool, install, sqlVars, sqlMemory, TypeInv,
              TypeOK, VaultTypeOK, SqlTypeOK, HandsFull, Holds, SqlClaims,
              Phases
<1>4. CASE WipeFile
  BY <1>4, WipeTyped
<1>5. CASE MakeTemp
  <2>1. opt \in Options BY DEF TypeInv, TypeOK
  <2>2. SqlTypeOK' /\ SqlClaims'
    BY <1>5 DEF MakeTemp, sqlVars, sqlMemory, SqlTypeOK, SqlClaims, TypeInv,
                TypeOK
  <2>3. VaultTypeOK' /\ HandsFull' /\ pc' \in Phases
    BY <1>5, <2>1, EnterTyped
       DEF MakeTemp, disk, install, TypeInv, TypeOK, VaultTypeOK
  <2>4. pc' # "off" BY <1>5 DEF MakeTemp, Enter
  <2> QED BY <1>5, <2>2, <2>3, <2>4 DEF MakeTemp, TypeInv, TypeOK
<1>6. CASE VaultStep
  <2>1. PICK w \in Workers : PoolStep(w, opt.dry)
    BY <1>6 DEF VaultStep
  <2>2. VaultTypeOK' /\ HandsFull' BY <2>1, PoolStepTyped
  <2>3. tempUsed' \in BOOLEAN BY <1>6 DEF VaultStep, TypeInv, TypeOK
  <2> QED BY <1>6, <2>2, <2>3
          DEF VaultStep, sqlVars, sqlMemory, control, TypeInv, TypeOK,
              SqlTypeOK, SqlClaims
<1>7. CASE VaultDone
  BY <1>7 DEF VaultDone, disk, pool, install, sqlVars, sqlMemory, TypeInv,
              TypeOK, VaultTypeOK, SqlTypeOK, HandsFull, Holds, SqlClaims,
              Phases
<1>8. CASE VaultFails
  BY <1>8, RestTyped DEF VaultFails, disk, Exits, TypeInv, TypeOK, VaultTypeOK,
                         SqlTypeOK
<1>9. CASE SqlPhaseStep
  <2>1. SqlTypeOK' /\ SqlClaims' BY <1>9, SqlStepTyped DEF SqlPhaseStep
  <2>2. tempUsed' \in BOOLEAN BY <1>9 DEF SqlPhaseStep, TypeInv, TypeOK
  <2> QED BY <1>9, <2>1, <2>2
          DEF SqlPhaseStep, disk, pool, install, control, TypeInv, TypeOK,
              VaultTypeOK, HandsFull, Holds
<1>10. CASE SqlDone
  BY <1>10 DEF SqlDone, disk, pool, install, sqlVars, sqlMemory, TypeInv,
               TypeOK, VaultTypeOK, SqlTypeOK, HandsFull, Holds, SqlClaims,
               Phases
<1>11. CASE SqlFails
  <2>1. db' \in Table
    BY <1>11, UpdateTyped DEF SqlFails, UpdateRowThrows, TypeInv, TypeOK,
                              SqlTypeOK
  <2>2. sqlBackup' = sqlBackup
    BY <1>11 DEF SqlFails, UpdateRowThrows
  <2> QED BY <1>11, <2>1, <2>2, RestTyped
          DEF SqlFails, disk, Exits, TypeInv, TypeOK, VaultTypeOK, SqlTypeOK
<1>12. CASE AnswerYes
  BY <1>12 DEF AnswerYes, InstallStart, Present, disk, pool, install, sqlVars,
               sqlMemory, TypeInv, TypeOK, VaultTypeOK, SqlTypeOK, HandsFull,
               Holds, SqlClaims, Phases
<1>13. CASE AnswerYesThrows
  BY <1>13, RestTyped DEF AnswerYesThrows, disk, Exits, TypeInv, TypeOK,
                          VaultTypeOK, SqlTypeOK
<1>14. CASE AnswerNo
  <2>1. CASE opt.sql
    BY <1>14, <2>1
       DEF AnswerNo, disk, pool, install, sqlMemory, TypeInv, TypeOK,
           VaultTypeOK, SqlTypeOK, HandsFull, Holds, SqlClaims, Phases
  <2>2. CASE ~opt.sql
    BY <1>14, <2>2, RestTyped DEF AnswerNo, disk, Exits, TypeInv, TypeOK,
                                  VaultTypeOK, SqlTypeOK
  <2> QED BY <2>1, <2>2
<1>15. CASE AnswerDry
  BY <1>15, RestTyped DEF AnswerDry, disk, Exits, TypeInv, TypeOK, VaultTypeOK,
                          SqlTypeOK
<1>16. CASE InstallStep
  <2>1. VaultTypeOK' /\ HandsFull'
    BY <1>16, InstallTyped DEF InstallStep
  <2> QED BY <1>16, <2>1
          DEF InstallStep, sqlVars, sqlMemory, control, TypeInv, TypeOK,
              SqlTypeOK, SqlClaims
<1>17. CASE InstallDoneStep
  <2>1. CASE opt.sql
    BY <1>17, <2>1
       DEF InstallDoneStep, disk, pool, install, sqlMemory, TypeInv, TypeOK,
           VaultTypeOK, SqlTypeOK, HandsFull, Holds, SqlClaims, Phases
  <2>2. CASE ~opt.sql
    BY <1>17, <2>2, RestTyped
       DEF InstallDoneStep, disk, Exits, TypeInv, TypeOK, VaultTypeOK, SqlTypeOK
  <2> QED BY <2>1, <2>2
<1>18. CASE InstallThrows
  BY <1>18, RestTyped DEF InstallThrows, disk, Exits, TypeInv, TypeOK,
                          VaultTypeOK, SqlTypeOK
<1>19. CASE Commit
  <2>1. db' \in Table
    <3>1. Pool[FirstFree].pending \in Table
      <4>1. Pool \in Seq(Connection) /\ FirstFree \in 1..Len(Pool)
        BY PoolTyped DEF TypeInv, TypeOK
      <4>2. Pool[FirstFree] \in Connection BY <4>1
      <4> QED BY <4>2 DEF Connection
    <3> QED BY <1>19, <3>1, OverTyped
            DEF Commit, ExecCommit, TypeInv, TypeOK, SqlTypeOK
  <2> QED BY <1>19, <2>1, RestTyped
          DEF Commit, disk, Exits, TypeInv, TypeOK, VaultTypeOK, SqlTypeOK
<1>20. CASE Rollback
  BY <1>20, RestTyped DEF Rollback, ExecRollback, disk, Exits, TypeInv, TypeOK,
                          VaultTypeOK, SqlTypeOK
<1>21. CASE Killed
  BY <1>21, RestTyped DEF Killed, disk, Exits, TypeInv, TypeOK, VaultTypeOK,
                          SqlTypeOK
<1>22. CASE Server
  <2>1. ASSUME NEW c \in Chars, NEW f \in Path,
               ServerSavesChar(c, f)
        PROVE  TypeInv'
    BY <2>1 DEF ServerSavesChar, disk, pool, install, sqlVars, sqlMemory,
                control, TypeInv, TypeOK, VaultTypeOK, SqlTypeOK, HandsFull,
                Holds, SqlClaims, Path, File
  <2>2. ASSUME NEW r \in Rows, NEW i \in Items \union {NoItem},
               ServerWritesRow(r, i)
        PROVE  TypeInv'
    BY <2>2 DEF ServerWritesRow, disk, pool, install, sqlMemory, control,
                TypeInv, TypeOK, VaultTypeOK, SqlTypeOK, HandsFull, Holds,
                SqlClaims, Table
  <2> QED BY <1>22, <2>1, <2>2 DEF Server
<1>23. CASE UNCHANGED vars
  BY <1>23 DEF vars, disk, pool, install, sqlVars, sqlMemory, control, TypeInv,
               TypeOK, VaultTypeOK, SqlTypeOK, HandsFull, Holds, SqlClaims
<1> QED BY <1>1, <1>2, <1>3, <1>4, <1>5, <1>6, <1>7, <1>8, <1>9, <1>10, <1>11,
           <1>12, <1>13, <1>14, <1>15, <1>16, <1>17, <1>18, <1>19, <1>20,
           <1>21, <1>22, <1>23 DEF Next, Tool

\* The tool, the pool of connections and the game server keep every variable in
\* its type, whatever throws and whenever the process is killed.
THEOREM TypeCorrect == Spec => []TypeOK
<1>1. TypeInv => TypeOK BY DEF TypeInv
<1> QED BY <1>1, InitTyped, StepTyped, PTL DEF Spec

-----------------------------------------------------------------------------
(* Recoverability: RecoverableInv is inductive when no run is a dry run. *)

RealRuns == \A o \in Options : ~o.dry

\* A step that leaves the files alone and goes to a phase which asks nothing new.
LEMMA EndsRecoverable ==
    ASSUME RecoverableInv, NEW how, Ends(how),
           UNCHANGED <<vault, backup, history>>
    PROVE  RecoverableInv'
BY DEF RecoverableInv, Recoverable, Ends

\* What a worker stages has its backup.
BackupsFirst ==
    \A w \in Workers :
        stage[w] \in {"backed", "staging"} /\ hand[w] \notin touched =>
            backup[hand[w]] = pre[hand[w]]

\* One worker's step keeps the characters apart and their backups first.
LEMMA PoolStepClaims ==
    ASSUME TypeInv, RecoverableInv, pc = "vault", ~opt.dry,
           NEW w \in Workers, PoolStep(w, opt.dry), UNCHANGED history
    PROVE  /\ Claims' /\ BackupsFirst'
           /\ vault' = pre'
           /\ \A c \in Present(staged)' \ touched' : backup'[c] = pre'[c]
<1>a. /\ Claims /\ BackupsFirst /\ vault = pre
      /\ \A c \in Present(staged) \ touched : backup[c] = pre[c]
  BY DEF RecoverableInv, BackupsFirst
<1> USE DEF TypeInv, TypeOK, VaultTypeOK, HandsFull, Holds, BackupsFirst
<1>1. CASE TakeBatch(w)
  BY <1>1, <1>a DEF TakeBatch, disk, install, Claims, Present
<1>2. CASE \E c \in batch[w] : ReadChar(w, c)
  <2>1. PICK c \in batch[w] : ReadChar(w, c) BY <1>2
  <2>2. CASE Update[vault[c]] = NoMatch
    BY <2>1, <2>2, <1>a DEF ReadChar, disk, install, Claims, Present
  <2>3. CASE Update[vault[c]] # NoMatch
    BY <2>1, <2>3, <1>a DEF ReadChar, disk, install, Claims, Present
  <2> QED BY <2>2, <2>3
<1>3. CASE BackupBegin(w)
  BY <1>3, <1>a DEF BackupBegin, install, Claims, Present
<1>4. CASE BackupEnd(w, opt.dry)
  BY <1>4, <1>a DEF BackupEnd, install, Claims, Present
<1>5. CASE StageBegin(w)
  <2>1. hand[w] \in Chars /\ (hand[w] \notin touched => backup[hand[w]] = vault[hand[w]])
    BY <1>5, <1>a DEF StageBegin
  <2> QED BY <1>5, <1>a, <2>1 DEF StageBegin, install, Claims, Present
<1>6. CASE StageEnd(w)
  BY <1>6, <1>a, VaultConstants DEF StageEnd, PutDown, install, Claims, Present
<1>7. CASE UnitThrows(w)
  BY <1>7, <1>a DEF UnitThrows, disk, install, Claims, Present
<1> QED BY <1>1, <1>2, <1>3, <1>4, <1>5, <1>6, <1>7 DEF PoolStep

LEMMA StepRecoverable ==
    ASSUME RealRuns, TypeInv, RecoverableInv, [Next]_vars
    PROVE  RecoverableInv'
<1>a. opt \in Options /\ ~opt.dry
  BY DEF RealRuns, TypeInv, TypeOK
<1>b. vault \in [Chars -> Path] /\ pre \in [Chars -> Path]
  BY DEF TypeInv, TypeOK, VaultTypeOK
<1>1. ASSUME NEW o \in Options, Start(o) PROVE RecoverableInv'
  BY <1>1 DEF Start, RealRuns, disk, RecoverableInv, Recoverable
<1>2. CASE KeepTemp
  BY <1>2, EndsRecoverable DEF KeepTemp, disk
<1>3. CASE DeleteTemp
  BY <1>3 DEF DeleteTemp, disk, RecoverableInv, Recoverable
<1>4. CASE WipeFile
  BY <1>4 DEF WipeFile, control, RecoverableInv, Recoverable
<1>5. CASE MakeTemp
  <2>1. vault' = pre' /\ pc' \in {"vault", "sql"} /\ staged' = staged
    BY <1>5 DEF MakeTemp, Enter, disk, RecoverableInv
  <2>2. \A c \in Chars : staged[c] = NoFile
    BY <1>5 DEF MakeTemp, Present
  <2>3. pc' = "vault" => Claims' /\ BackupsFirst'
    BY <1>5, <2>1, <2>2, VaultConstants
       DEF MakeTemp, Enter, PoolAtRest, Claims, BackupsFirst, Present, Holds
  <2> QED BY <2>1, <2>2, <2>3 DEF RecoverableInv, Recoverable, BackupsFirst, Present
<1>6. CASE VaultStep
  <2>1. PICK w \in Workers : PoolStep(w, opt.dry)
    BY <1>6 DEF VaultStep
  <2>2. /\ Claims' /\ BackupsFirst' /\ vault' = pre'
        /\ \A c \in Present(staged)' \ touched' : backup'[c] = pre'[c]
    BY <1>6, <1>a, <2>1, PoolStepClaims DEF VaultStep
  <2>3. pc' = "vault" BY <1>6 DEF VaultStep, control
  <2> QED BY <2>2, <2>3 DEF RecoverableInv, Recoverable, BackupsFirst
<1>7. CASE VaultDone
  BY <1>7 DEF VaultDone, disk, RecoverableInv, Recoverable, Present
<1>8. CASE VaultFails
  BY <1>8, EndsRecoverable DEF VaultFails, disk
<1>9. CASE SqlPhaseStep
  BY <1>9 DEF SqlPhaseStep, disk, control, RecoverableInv, Recoverable, Present
<1>10. CASE SqlDone
  BY <1>10 DEF SqlDone, disk, RecoverableInv, Recoverable, Present
<1>11. CASE SqlFails
  BY <1>11, EndsRecoverable DEF SqlFails, disk
<1>12. CASE AnswerYes
  <2>1. UNCHANGED <<vault, staged, backup, pre, touched>>
    BY <1>12 DEF AnswerYes, disk
  <2>2. vault = pre /\ \A c \in Present(staged) \ touched : backup[c] = pre[c]
    BY <1>12 DEF AnswerYes, RecoverableInv
  <2>3. CASE opt.vault
    <3>1. pc' = "install" /\ toCopy' = Present(staged) /\ copying' = Idle
      BY <1>12, <2>3 DEF AnswerYes, InstallStart
    <3> QED BY <2>1, <2>2, <3>1 DEF RecoverableInv, Recoverable, Present
  <2>4. CASE ~opt.vault
    BY <1>12, <2>1, <2>2, <2>4 DEF AnswerYes, RecoverableInv, Recoverable
  <2> QED BY <2>3, <2>4
<1>13. CASE AnswerYesThrows
  BY <1>13, EndsRecoverable DEF AnswerYesThrows, disk
<1>14. CASE AnswerNo
  BY <1>14, EndsRecoverable DEF AnswerNo, disk, RecoverableInv, Recoverable
<1>15. CASE AnswerDry
  BY <1>15, <1>a DEF AnswerDry
<1>16. CASE InstallStep
  <2>1. /\ \A c \in Present(staged) \ touched : backup[c] = pre[c]
        /\ toCopy \subseteq Present(staged)
        /\ copying # Idle => copying \in Present(staged)
        /\ \A c \in Chars : vault[c] # pre[c] => c \in Present(staged)
    BY <1>16 DEF InstallStep, RecoverableInv
  <2>2. UNCHANGED <<staged, backup, pre, touched>> /\ pc' = "install"
    BY <1>16 DEF InstallStep, CopyEnd, CopyBegin, disk, control
  <2>3. /\ toCopy' \subseteq Present(staged)
        /\ copying' # Idle => copying' \in Present(staged)
        /\ \A c \in Chars : vault'[c] # pre[c] => c \in Present(staged)
    BY <1>16, <1>b, <2>1 DEF InstallStep, CopyEnd, CopyBegin
  <2> QED BY <2>1, <2>2, <2>3 DEF RecoverableInv, Recoverable, Present
<1>17. CASE InstallDoneStep
  BY <1>17, EndsRecoverable DEF InstallDoneStep, disk, RecoverableInv,
                                Recoverable
<1>18. CASE InstallThrows
  BY <1>18, EndsRecoverable DEF InstallThrows, disk
<1>19. CASE Commit
  BY <1>19, EndsRecoverable DEF Commit, disk
<1>20. CASE Rollback
  BY <1>20, EndsRecoverable DEF Rollback, disk
<1>21. CASE Killed
  BY <1>21, EndsRecoverable DEF Killed, disk
<1>22. CASE Server
  <2>1. ASSUME NEW c \in Chars, NEW f \in Path, ServerSavesChar(c, f)
        PROVE  RecoverableInv'
    <3>1. UNCHANGED <<disk, pool, install, pc>> BY <2>1 DEF ServerSavesChar, control
    <3>2. /\ touched \subseteq touched' /\ (pc # "off" => c \in touched')
          /\ \A d \in Chars \ {c} : vault'[d] = vault[d] /\ pre'[d] = pre[d]
          /\ vault'[c] = pre'[c]
          /\ vault = pre => vault' = pre'
      BY <2>1, <1>b DEF ServerSavesChar
    <3>3. Claims => Claims' BY <3>1 DEF Claims, disk, pool
    <3> HIDE DEF history
    <3>4. pc = "vault" /\ BackupsFirst => BackupsFirst'
      BY <3>1, <3>2 DEF BackupsFirst, disk, pool, TypeInv, HandsFull, Holds, TypeOK,
                        VaultTypeOK
    <3> QED
      BY <3>1, <3>2, <3>3, <3>4
         DEF disk, install, RecoverableInv, Recoverable, BackupsFirst, Present
  <2>2. ASSUME NEW r \in Rows, NEW i \in Items \union {NoItem}, ServerWritesRow(r, i)
        PROVE  RecoverableInv'
    BY <2>2 DEF ServerWritesRow, disk, pool, install, control, RecoverableInv,
                Recoverable, Claims, Present
  <2> QED BY <1>22, <2>1, <2>2 DEF Server
<1>23. CASE UNCHANGED vars
  BY <1>23 DEF vars, disk, pool, install, control, RecoverableInv, Recoverable,
               Claims, Present, Holds
<1> QED BY <1>1, <1>2, <1>3, <1>4, <1>5, <1>6, <1>7, <1>8, <1>9, <1>10, <1>11,
           <1>12, <1>13, <1>14, <1>15, <1>16, <1>17, <1>18, <1>19, <1>20,
           <1>21, <1>22, <1>23 DEF Next, Tool

\* Whatever throws, wherever a run is killed and whatever the server saves, a
\* character that it left alone and the tool changed has its previous content under
\* backup_vault: the backup is complete before anything is staged for the character,
\* and only staged ones are installed.
THEOREM BackupsSuffice == RealRuns => (Spec => []Recoverable)
<1> SUFFICES ASSUME RealRuns PROVE Spec => []Recoverable
  OBVIOUS
<1>1. Init => RecoverableInv
  BY DEF Init, RecoverableInv, Recoverable
<1>2. RecoverableInv => Recoverable
  BY DEF RecoverableInv
<1>3. TypeInv /\ RecoverableInv /\ [Next]_vars => RecoverableInv'
  BY StepRecoverable
<1> QED BY <1>1, <1>2, <1>3, InitTyped, StepTyped, PTL DEF Spec

-----------------------------------------------------------------------------
(* The pool: the loop's connection is always the first one, and the updates'
   connection always one that was opened with autocommit on. *)

UpdatesAutocommit ==
    /\ NothingPending
    /\ cursor \in {0, 1}
    /\ \A i \in 1..Len(conns) : i # 1 => conns[i].autocommit

LEMMA FreeIsFirst ==
    ASSUME SqlTypeOK, cursor \in {0, 1}
    PROVE  FirstFree = IF cursor = 0 THEN 1 ELSE 2
<1>1. /\ FirstFree \in 1..PoolSize /\ FirstFree \notin Locked
      /\ \A j \in 1..(FirstFree - 1) : j \in Locked
  BY FreeConnection
<1>2. CASE cursor = 0
  <2>1. Locked = {} BY <1>2 DEF Locked
  <2>2. FirstFree # 2
    <3>1. SUFFICES ASSUME FirstFree = 2 PROVE FALSE OBVIOUS
    <3>2. 1 \in 1..(FirstFree - 1) BY <3>1
    <3> QED BY <1>1, <2>1, <3>2
  <2> QED BY <1>1, <1>2, <2>2 DEF PoolSize
<1>3. CASE cursor = 1
  BY <1>1, <1>3 DEF Locked, PoolSize
<1> QED BY <1>2, <1>3

LEMMA PoolUpdatesAutocommit ==
    ASSUME SqlTypeOK, UpdatesAutocommit
    PROVE  \A i \in 1..Len(Pool) :
              /\ Pool[i].pending = Nothing
              /\ i # 1 => Pool[i].autocommit
<1>1. /\ \A i \in 1..Len(conns) : Pool[i] = conns[i]
      /\ FirstFree \notin 1..Len(conns) => Pool[FirstFree] = FreshConnection
      /\ Len(Pool) \in {Len(conns), FirstFree}
      /\ FirstFree \in 1..(Len(conns) + 1)
      /\ Len(conns) \in Nat
  BY PoolTyped, FreeConnection DEF SqlTypeOK
<1>2. FreshConnection.pending = Nothing /\ FreshConnection.autocommit
  BY DEF FreshConnection
<1> SUFFICES ASSUME NEW i \in 1..Len(Pool)
             PROVE  Pool[i].pending = Nothing /\ (i # 1 => Pool[i].autocommit)
  OBVIOUS
<1>3. CASE i \in 1..Len(conns)
  BY <1>1, <1>3 DEF UpdatesAutocommit, NothingPending
<1>4. CASE i \notin 1..Len(conns)
  <2>1. i = FirstFree /\ FirstFree \notin 1..Len(conns)
    BY <1>1, <1>4
  <2> QED BY <1>1, <1>2, <2>1
<1> QED BY <1>3, <1>4

LEMMA SqlStepUpdatesAutocommit ==
    ASSUME TypeInv, UpdatesAutocommit, NEW dry, SqlStep(dry)
    PROVE  UpdatesAutocommit'
<1>a. SqlTypeOK BY DEF TypeInv, TypeOK
<1>b. /\ Pool \in Seq(Connection) /\ FirstFree \in 1..Len(Pool)
      /\ \A i \in 1..Len(Pool) :
            Pool[i].pending = Nothing /\ (i # 1 => Pool[i].autocommit)
      /\ FirstFree = IF cursor = 0 THEN 1 ELSE 2
      /\ cursor \in {0, 1}
  BY <1>a, PoolTyped, PoolUpdatesAutocommit, FreeIsFirst DEF UpdatesAutocommit
<1>1. CASE SetAutocommitOff
  <2>1. cursor = 0
    BY <1>1, <1>a, SqlConstants
       DEF SetAutocommitOff, TypeInv, SqlClaims, SqlTypeOK
  <2>2. FirstFree = 1 BY <1>b, <2>1
  <2> DEFINE new == [autocommit |-> FALSE, pending |-> Pool[1].pending]
  <2>3. conns' = [Pool EXCEPT ![1] = new] /\ cursor' = cursor
    BY <1>1, <2>2 DEF SetAutocommitOff
  <2>4. new.pending = Nothing BY <1>b, <2>2
  <2> HIDE DEF new
  <2>5. Len(conns') = Len(Pool) /\ conns'[1] = new
        /\ \A i \in 1..Len(Pool) : i # 1 => conns'[i] = Pool[i]
    BY <1>b, <2>2, <2>3
  <2> QED BY <1>b, <2>3, <2>4, <2>5 DEF UpdatesAutocommit, NothingPending
<1>2. CASE SelectRows
  BY <1>2, <1>b DEF SelectRows, UpdatesAutocommit, NothingPending
<1>3. CASE \E r \in unread : SkipRow(r, dry) \/ BackupRow(r, dry)
  BY <1>3 DEF SkipRow, BackupRow, UpdatesAutocommit, NothingPending
<1>4. CASE BackupRowEnd
  BY <1>4 DEF BackupRowEnd, UpdatesAutocommit, NothingPending
<1>5. CASE UpdateRow
  <2>1. cursor = 1
    BY <1>5, <1>b DEF UpdateRow, TypeInv, SqlClaims
  <2>2. conns' = Pool
    BY <1>5, <1>b, <2>1 DEF UpdateRow, ConnsAfterUpdate
  <2> QED BY <1>5, <1>b, <2>2 DEF UpdateRow, UpdatesAutocommit, NothingPending
<1>6. CASE EndTarget
  BY <1>6 DEF EndTarget, UpdatesAutocommit, NothingPending
<1> QED BY <1>1, <1>2, <1>3, <1>4, <1>5, <1>6 DEF SqlStep

LEMMA StepUpdatesAutocommit ==
    TypeInv /\ UpdatesAutocommit /\ [Next]_vars => UpdatesAutocommit'
<1> SUFFICES ASSUME TypeInv, UpdatesAutocommit, [Next]_vars
             PROVE  UpdatesAutocommit'
  OBVIOUS
<1>1. ASSUME NEW o \in Options, Start(o) PROVE UpdatesAutocommit'
  <2>1. CASE o.sql
    <3>1. conns' = <<FreshConnection>> /\ cursor' = cursor
      BY <1>1, <2>1 DEF Start, OpenPool
    <3>2. FreshConnection.pending = Nothing BY DEF FreshConnection
    <3> HIDE DEF FreshConnection
    <3> QED BY <3>1, <3>2 DEF UpdatesAutocommit, NothingPending
  <2>2. CASE ~o.sql
    BY <1>1, <2>2 DEF Start, UpdatesAutocommit, NothingPending
  <2> QED BY <2>1, <2>2
<1>2. CASE SqlPhaseStep
  BY <1>2, SqlStepUpdatesAutocommit DEF SqlPhaseStep
<1>3. ASSUME NEW how, Ends(how) PROVE UpdatesAutocommit'
  BY <1>3 DEF Ends, SqlAtRest, UpdatesAutocommit, NothingPending
<1>4. ASSUME UNCHANGED sqlMemory PROVE UpdatesAutocommit'
  BY <1>4 DEF sqlMemory, UpdatesAutocommit, NothingPending
<1>5. CASE KeepTemp \/ VaultFails \/ SqlFails \/ AnswerYesThrows \/ AnswerDry
           \/ InstallThrows \/ Commit \/ Rollback \/ Killed
  BY <1>3, <1>5 DEF KeepTemp, VaultFails, SqlFails, AnswerYesThrows, AnswerDry,
                    InstallThrows, Commit, Rollback, Killed
<1>6. CASE DeleteTemp \/ WipeFile \/ MakeTemp \/ VaultStep \/ VaultDone
           \/ SqlDone \/ AnswerYes \/ InstallStep \/ Server \/ UNCHANGED vars
  BY <1>4, <1>6 DEF DeleteTemp, WipeFile, MakeTemp, VaultStep, VaultDone,
                    SqlDone, AnswerYes, InstallStep, Server, ServerSavesChar,
                    ServerWritesRow, vars, sqlVars
<1>7. CASE AnswerNo \/ InstallDoneStep
  BY <1>3, <1>4, <1>7 DEF AnswerNo, InstallDoneStep
<1> QED BY <1>1, <1>2, <1>5, <1>6, <1>7 DEF Next, Tool

\* For every set of targets, rows and items the final COMMIT and ROLLBACK have
\* nothing to decide: the updates went to a connection with autocommit on.
THEOREM AnswerDecidesNothing == Spec => []NothingPending
<1>1. Init => UpdatesAutocommit
  BY DEF Init, SqlInit, UpdatesAutocommit, NothingPending
<1>2. UpdatesAutocommit => NothingPending
  BY DEF UpdatesAutocommit
<1> QED BY <1>1, <1>2, InitTyped, StepTyped, StepUpdatesAutocommit, PTL DEF Spec

-----------------------------------------------------------------------------
(* Rows and dry runs *)

\* A row is only in hand in the loop over the rows, and never in a dry run, which does
\* not get past the prompt either.
RowInHand ==
    /\ rowStage # "fetch" => pc = "sql" /\ ~opt.dry
    /\ opt.dry => pc \notin {"clean", "wipe", "install", "commit", "rollback"}

RowInv == RowInHand /\ RowBackedUp

LEMMA EndsRow == ASSUME NEW how, Ends(how) PROVE RowInv'
BY DEF Ends, SqlAtRest, RowInv, RowInHand, RowBackedUp

\* Where the loop over the rows stands is not for the other phases to change.
LEMMA PhaseRow ==
    ASSUME RowInv, UNCHANGED <<sqlBackup, sqlMemory>>, rowStage = "fetch",
           opt'.dry => pc' \notin {"clean", "wipe", "install", "commit", "rollback"}
    PROVE  RowInv'
BY DEF RowInv, RowInHand, RowBackedUp, sqlMemory

LEMMA SqlStepRow ==
    ASSUME TypeInv, RowInv, pc = "sql", SqlStep(opt.dry), UNCHANGED control
    PROVE  RowInv'
<1> USE DEF RowInv, RowInHand, RowBackedUp, control, TypeInv, TypeOK, SqlTypeOK, SqlClaims
<1>1. CASE SetAutocommitOff
  BY <1>1 DEF SetAutocommitOff
<1>2. CASE SelectRows
  BY <1>2 DEF SelectRows
<1>3. CASE \E r \in unread : SkipRow(r, opt.dry) \/ BackupRow(r, opt.dry)
  BY <1>3 DEF SkipRow, BackupRow
<1>4. CASE BackupRowEnd
  BY <1>4 DEF BackupRowEnd
<1>5. CASE UpdateRow
  BY <1>5 DEF UpdateRow
<1>6. CASE EndTarget
  BY <1>6 DEF EndTarget
<1> QED BY <1>1, <1>2, <1>3, <1>4, <1>5, <1>6 DEF SqlStep

LEMMA StepRow == ASSUME TypeInv, RowInv, [Next]_vars PROVE RowInv'
<1>a. pc # "sql" => rowStage = "fetch" BY DEF RowInv, RowInHand
<1>1. ASSUME NEW o \in Options, Start(o) PROVE RowInv'
  <2>1. rowStage' = "fetch" /\ opt' = o BY <1>a, <1>1 DEF Start
  <2>2. o.dry => pc' \in {"vault", "sql"} BY <1>1 DEF Start, Enter
  <2> QED BY <2>1, <2>2 DEF RowInv, RowInHand, RowBackedUp
<1>2. CASE KeepTemp \/ VaultFails \/ SqlFails \/ AnswerYesThrows \/ AnswerDry
           \/ InstallThrows \/ Commit \/ Rollback \/ Killed
  BY <1>2, EndsRow DEF KeepTemp, VaultFails, SqlFails, AnswerYesThrows, AnswerDry,
                       InstallThrows, Commit, Rollback, Killed
<1>3. CASE DeleteTemp \/ VaultStep \/ VaultDone \/ AnswerYes \/ InstallStep
  <2>1. UNCHANGED <<sqlBackup, sqlMemory, opt>> /\ rowStage = "fetch"
    BY <1>a, <1>3 DEF DeleteTemp, VaultStep, VaultDone, AnswerYes, InstallStep, sqlVars,
                      control
  <2>2. opt.dry => pc' \notin {"clean", "wipe", "install", "commit", "rollback"}
    BY <1>3 DEF DeleteTemp, VaultStep, VaultDone, AnswerYes, InstallStep, control, RowInv,
                RowInHand
  <2> QED BY <2>1, <2>2, PhaseRow
<1>4. CASE WipeFile
  BY <1>a, <1>4 DEF WipeFile, control, sqlMemory, RowInv, RowInHand, RowBackedUp
<1>5. CASE MakeTemp
  <2>1. UNCHANGED <<sqlBackup, sqlMemory, opt>> /\ rowStage = "fetch"
    BY <1>a, <1>5 DEF MakeTemp, sqlVars
  <2>2. pc' \in {"vault", "sql"} BY <1>5 DEF MakeTemp, Enter
  <2> QED BY <2>1, <2>2, PhaseRow
<1>6. CASE SqlPhaseStep
  BY <1>6, SqlStepRow DEF SqlPhaseStep
<1>7. CASE SqlDone
  <2>1. rowStage = "fetch"
    BY <1>7, SqlConstants DEF SqlDone, TargetsDone, TypeInv, SqlClaims
  <2> QED BY <1>7, <2>1, PhaseRow DEF SqlDone, sqlVars
<1>8. CASE AnswerNo \/ InstallDoneStep
  <2>1. CASE \E how : Ends(how) BY <2>1, EndsRow
  <2>2. CASE ~\E how : Ends(how)
    <3>1. UNCHANGED <<sqlBackup, sqlMemory, opt>> /\ ~opt.dry /\ rowStage = "fetch"
      BY <1>a, <1>8, <2>2 DEF AnswerNo, InstallDoneStep, RowInv, RowInHand
    <3> QED BY <3>1, PhaseRow
  <2> QED BY <2>1, <2>2
<1>9. CASE Server \/ UNCHANGED vars
  BY <1>9 DEF Server, ServerSavesChar, ServerWritesRow, vars, sqlVars, sqlMemory, control,
              RowInv, RowInHand, RowBackedUp
<1> QED BY <1>1, <1>2, <1>3, <1>4, <1>5, <1>6, <1>7, <1>8, <1>9 DEF Next, Tool

LEMMA AlwaysRow == Spec => [](TypeInv /\ RowInv)
<1>1. Init => RowInv BY DEF Init, SqlInit, RowInv, RowInHand, RowBackedUp
<1> QED BY <1>1, InitTyped, StepTyped, StepRow, PTL DEF Spec

\* The original of a row is on disk, whole, before its UPDATE is sent: for every table,
\* whatever players write meanwhile and whichever runs were killed before
\* (app.d:382-408).
THEOREM OriginalsAreKept == Spec => []RowBackedUp
<1>1. RowInv => RowBackedUp BY DEF RowInv
<1> QED BY <1>1, AlwaysRow, PTL

\* A dry run changes no character and no row, whatever it finds, is answered or throws
\* (app.d:212, 309, 379, 447).
THEOREM DryRunsWriteNothing == Spec => DryRunKeepsPlayerData
<1> DEFINE Kept == pc # "off" /\ opt.dry => UNCHANGED <<vault, db>> \/ Server
<1>1. ASSUME TypeInv, RowInv, [Next]_vars PROVE [Kept]_vars
  <2> SUFFICES ASSUME Next, pc # "off", opt.dry, ~Server PROVE UNCHANGED <<vault, db>>
    BY <1>1
  <2>1. rowStage = "fetch" /\ pc \notin {"clean", "wipe", "install", "commit", "rollback"}
    BY <1>1 DEF RowInv, RowInHand
  <2>2. CASE VaultStep
    <3>1. UNCHANGED vault
      BY <2>2 DEF VaultStep, PoolStep, TakeBatch, ReadChar, BackupBegin, BackupEnd,
                  StageBegin, StageEnd, UnitThrows
    <3> QED BY <2>2, <3>1 DEF VaultStep, sqlVars
  <2>3. CASE SqlPhaseStep
    BY <2>1, <2>3 DEF SqlPhaseStep, SqlStep, SetAutocommitOff, SelectRows, SkipRow, BackupRow,
                      BackupRowEnd, UpdateRow, EndTarget
  <2>4. CASE VaultDone \/ VaultFails \/ SqlDone \/ SqlFails \/ AnswerYes \/ AnswerYesThrows
             \/ AnswerNo \/ AnswerDry \/ Killed
    BY <2>1, <2>4 DEF VaultDone, VaultFails, SqlDone, SqlFails, AnswerYes, AnswerYesThrows,
                      AnswerNo, AnswerDry, Killed, sqlVars, UpdateRowThrows
  <2> QED
    BY <2>1, <2>2, <2>3, <2>4
       DEF Next, Tool, Start, KeepTemp, DeleteTemp, WipeFile, MakeTemp, InstallStep,
           InstallDoneStep, InstallThrows, Commit, Rollback
<1> QED BY <1>1, AlwaysRow, PTL DEF Spec, DryRunKeepsPlayerData

-----------------------------------------------------------------------------
(* What is installed is whole *)

Whole(c) ==
    /\ staged[c] \in Content /\ backup[c] # NoFile
    /\ c \notin touched => backup[c] = pre[c] /\ staged[c] = Update[pre[c]]

\* In a real run, players connected or not: a character is in one place only, nothing is
\* staged for it before a worker that has backed it up stages it, and unless a player
\* saves it, what the worker holds is the update of what it backs up.
OneEach ==
    /\ \A w \in Workers :
        /\ stage[w] = "dead" => failed
        /\ batch[w] \intersect queue = {}
        /\ hand[w] \notin queue
        /\ hand[w] # Idle => hand[w] \notin batch[w]
        /\ \A c \in batch[w] : staged[c] = NoFile
        /\ stage[w] \in {"matched", "backing", "backed"} => staged[hand[w]] = NoFile
        /\ stage[w] \in {"backed", "staging"} => backup[hand[w]] # NoFile
        /\ Holds(w) /\ hand[w] \notin touched => buffer[w] = Update[pre[hand[w]]]
    /\ \A w, v \in Workers :
        w # v => /\ batch[w] \intersect batch[v] = {}
                 /\ hand[w] \notin batch[v]
                 /\ hand[w] # Idle => hand[w] # hand[v]
    /\ \A c \in queue : staged[c] = NoFile

Staging ==
    \A c \in Present(staged) :
        \/ Whole(c)
        \/ \E w \in Workers : hand[w] = c /\ stage[w] \in {"staging", "dead"}

StagedInv ==
    ~opt.dry =>
        /\ pc \in {"wipe", "vault"} => vault = pre
        /\ pc = "vault" => OneEach /\ BackupsFirst /\ Staging
        /\ pc \in {"sql", "prompt", "install"} => \A c \in Present(staged) : Whole(c)

\* One step of a worker, with the server writing characters in between.
LEMMA PoolStepStages ==
    ASSUME TypeInv, vault = pre, OneEach, BackupsFirst, Staging, NEW w \in Workers,
           PoolStep(w, FALSE), UNCHANGED history
    PROVE  OneEach' /\ BackupsFirst' /\ Staging'
<1> USE DEF TypeInv, TypeOK, VaultTypeOK, HandsFull, Holds, Present, Whole
<1>0. BackupsFirst'
  <2>1. CASE TakeBatch(w) \/ UnitThrows(w) \/ \E c \in batch[w] : ReadChar(w, c)
    BY <2>1 DEF TakeBatch, ReadChar, UnitThrows, disk, BackupsFirst
  <2>2. CASE BackupBegin(w)
    BY <2>2 DEF BackupBegin, BackupsFirst, OneEach
  <2>3. CASE BackupEnd(w, FALSE)
    BY <2>3 DEF BackupEnd, BackupsFirst, OneEach
  <2>4. CASE StageBegin(w) \/ StageEnd(w)
    BY <2>4 DEF StageBegin, StageEnd, PutDown, BackupsFirst
  <2> QED BY <2>1, <2>2, <2>3, <2>4 DEF PoolStep
<1>1. CASE TakeBatch(w)
  BY <1>0, <1>1 DEF TakeBatch, disk, install, OneEach, Staging
<1>2. CASE \E c \in batch[w] : ReadChar(w, c)
  <2>1. PICK c \in batch[w] : ReadChar(w, c) BY <1>2
  <2>2. CASE Update[vault[c]] = NoMatch
    BY <1>0, <2>1, <2>2 DEF ReadChar, disk, install, OneEach, Staging
  <2>3. CASE Update[vault[c]] # NoMatch
    <3>1. OneEach'
      BY <2>1, <2>3 DEF ReadChar, disk, install, OneEach
    <3>2. Staging'
      BY <2>1, <2>3 DEF ReadChar, disk, install, Staging
    <3> QED BY <1>0, <3>1, <3>2
  <2> QED BY <2>2, <2>3
<1>3. CASE BackupBegin(w)
  <2>1. OneEach' BY <1>3 DEF BackupBegin, install, OneEach
  <2>2. Staging' BY <1>3 DEF BackupBegin, install, OneEach, Staging
  <2> QED BY <1>0, <2>1, <2>2
<1>4. CASE BackupEnd(w, FALSE)
  <2>1. OneEach' BY <1>4 DEF BackupEnd, install, OneEach
  <2>2. Staging' BY <1>4 DEF BackupEnd, install, OneEach, Staging
  <2> QED BY <1>0, <2>1, <2>2
<1>5. CASE StageBegin(w)
  <2>1. OneEach' BY <1>5 DEF StageBegin, install, OneEach
  <2>2. Staging' BY <1>5 DEF StageBegin, install, OneEach, Staging
  <2> QED BY <1>0, <2>1, <2>2
<1>6. CASE StageEnd(w)
  <2>1. OneEach' BY <1>6, VaultConstants DEF StageEnd, PutDown, install, OneEach
  <2>2. Staging'
    BY <1>6, VaultConstants
       DEF StageEnd, PutDown, install, OneEach, BackupsFirst, Staging
  <2> QED BY <1>0, <2>1, <2>2
<1>7. CASE UnitThrows(w)
  <2>1. OneEach' BY <1>7 DEF UnitThrows, disk, install, OneEach
  <2>2. Staging' BY <1>7 DEF UnitThrows, disk, install, Staging
  <2> QED BY <1>0, <2>1, <2>2
<1> QED BY <1>0, <1>1, <1>2, <1>3, <1>4, <1>5, <1>6, <1>7 DEF PoolStep

LEMMA StepStages ==
    ASSUME TypeInv, RowInv, StagedInv, [Next]_vars PROVE StagedInv'
<1>1. ASSUME NEW o \in Options, Start(o) PROVE StagedInv'
  BY <1>1 DEF Start, StagedInv
<1>2. CASE \E how : Ends(how)
  BY <1>2 DEF Ends, StagedInv
<1>3. CASE KeepTemp \/ VaultFails \/ SqlFails \/ AnswerYesThrows \/ AnswerDry
           \/ InstallThrows \/ Commit \/ Rollback \/ Killed
  BY <1>2, <1>3 DEF KeepTemp, VaultFails, SqlFails, AnswerYesThrows, AnswerDry,
                    InstallThrows, Commit, Rollback, Killed
<1>4. CASE DeleteTemp \/ WipeFile
  BY <1>4 DEF DeleteTemp, WipeFile, control, StagedInv
<1>5. CASE MakeTemp
  <2>1. Present(staged)' = {} /\ pc' \in {"vault", "sql"}
    BY <1>5 DEF MakeTemp, Enter, disk, Present
  <2>2. pc' = "vault" => OneEach' /\ BackupsFirst'
    BY <1>5, <2>1, VaultConstants
       DEF MakeTemp, Enter, PoolAtRest, OneEach, BackupsFirst, Present, Holds
  <2>3. UNCHANGED <<vault, pre, opt>> /\ pc = "wipe" BY <1>5 DEF MakeTemp
  <2> QED BY <2>1, <2>2, <2>3 DEF StagedInv, Staging
<1>6. CASE VaultStep
  <2>1. PICK w \in Workers : PoolStep(w, opt.dry) BY <1>6 DEF VaultStep
  <2>2. CASE ~opt.dry
    <3>1. PoolStep(w, FALSE)
      <4>1. opt.dry = FALSE BY <2>2, UpdaterConstants DEF TypeInv, TypeOK
      <4> QED BY <2>1, <4>1
    <3>2. OneEach' /\ BackupsFirst' /\ Staging'
      BY <1>6, <2>2, <3>1, PoolStepStages DEF VaultStep, StagedInv
    <3>3. vault' = vault
      BY <3>1 DEF PoolStep, TakeBatch, ReadChar, BackupBegin, BackupEnd, StageBegin,
                  StageEnd, UnitThrows
    <3> QED BY <1>6, <3>2, <3>3 DEF VaultStep, control, StagedInv
  <2>3. CASE opt.dry BY <1>6, <2>3 DEF VaultStep, control, StagedInv
  <2> QED BY <2>2, <2>3
<1>7. CASE VaultDone
  <2>1. SUFFICES ASSUME ~opt.dry PROVE \A c \in Present(staged) : Whole(c)
    BY <1>7 DEF VaultDone, StagedInv, disk, Present, Whole
  <2>2. OneEach /\ Staging BY <1>7, <2>1 DEF VaultDone, StagedInv
  <2>3. \A w \in Workers : stage[w] # "dead" /\ hand[w] = Idle
    BY <1>7, <2>2 DEF VaultDone, PoolReturns, PoolIdle, Busy, OneEach
  <2> QED BY <2>2, <2>3, VaultConstants DEF Staging, Present
<1>8. CASE SqlPhaseStep \/ SqlDone \/ AnswerYes
  BY <1>8 DEF SqlPhaseStep, SqlDone, AnswerYes, control, disk, StagedInv, Present, Whole
<1>9. CASE AnswerNo \/ InstallDoneStep
  BY <1>2, <1>9 DEF AnswerNo, InstallDoneStep, StagedInv
<1>10. CASE InstallStep
  BY <1>10 DEF InstallStep, CopyBegin, CopyEnd, control, disk, StagedInv, Present, Whole
<1>11. ASSUME NEW c \in Chars, NEW f \in Path, ServerSavesChar(c, f) PROVE StagedInv'
  <2>1. UNCHANGED <<disk, pool, install, pc, opt>> BY <1>11 DEF ServerSavesChar, control
  <2>2. /\ touched \subseteq touched' /\ (pc # "off" => c \in touched')
        /\ \A d \in Chars \ {c} : pre'[d] = pre[d]
        /\ vault = pre => vault' = pre'
    BY <1>11 DEF ServerSavesChar, TypeInv, TypeOK, VaultTypeOK
  <2> HIDE DEF history
  <2>3. pc = "vault" /\ BackupsFirst => BackupsFirst'
    BY <2>1, <2>2 DEF BackupsFirst, disk, pool, TypeInv, HandsFull, Holds, TypeOK,
                      VaultTypeOK
  <2>4. pc = "vault" /\ OneEach => OneEach'
    BY <2>1, <2>2 DEF OneEach, disk, pool, TypeInv, HandsFull, Holds, TypeOK, VaultTypeOK
  <2>5. pc # "off" => \A d \in Chars : Whole(d) => Whole(d)'
    BY <2>1, <2>2 DEF Whole, disk
  <2>6. pc # "off" /\ Staging => Staging'
    BY <2>1, <2>5 DEF Staging, Present, disk, pool
  <2> QED BY <2>1, <2>2, <2>3, <2>4, <2>5, <2>6 DEF StagedInv, Present, disk
<1>12. CASE (\E r \in Rows, i \in Items \union {NoItem} : ServerWritesRow(r, i))
            \/ UNCHANGED vars
  BY <1>12 DEF ServerWritesRow, vars, control, disk, pool, StagedInv, Present, Whole,
               OneEach, Holds, BackupsFirst, Staging
<1> QED BY <1>1, <1>3, <1>4, <1>5, <1>6, <1>7, <1>8, <1>9, <1>10, <1>11, <1>12
        DEF Next, Tool, Server

\* While files are installed, every one that is going to be written over a character is
\* whole and its character has a backup, for any number of workers and whatever the server
\* is saving under the tool; and it is the update of that very backup, unless the server
\* saved that character meanwhile (app.d:210-329, 447-472).
THEOREM InstallsWholeFiles == Spec => []StagedHasBackup
<1>1. Init => StagedInv BY DEF Init, StagedInv
<1>2. RowInv /\ StagedInv => StagedHasBackup
  BY DEF RowInv, RowInHand, StagedInv, StagedHasBackup, Whole
<1> QED BY <1>1, <1>2, AlwaysRow, StepStages, PTL DEF Spec

-----------------------------------------------------------------------------
(* An applied run has updated the vault *)

\* What Update makes of a character that holds a targeted item.
Targeted(c) == pre[c] \in Content /\ Update[pre[c]] \in Content

\* What has become of a character the foreach is done with.
Settled(c) ==
    \/ Targeted(c) /\ staged[c] = Update[pre[c]]
    \/ pre[c] \in Content /\ Update[pre[c]] = NoMatch /\ staged[c] = NoFile

\* The foreach has lost sight of no character that the server left alone, unless it fails.
Accounted ==
    /\ \A w \in Workers : stage[w] = "dead" => failed
    /\ \A w \in Workers : Holds(w) /\ hand[w] \notin touched =>
          Targeted(hand[w]) /\ buffer[w] = Update[pre[hand[w]]]
    /\ \A c \in Present(staged) \ touched : Targeted(c)
    /\ failed \/ \A c \in Present(pre) \ touched :
          \/ c \in queue \/ Settled(c)
          \/ \E w \in Workers : c \in batch[w] \/ (Holds(w) /\ hand[w] = c)

\* A run that is going to be applied, step by step.
AppliedInv ==
    ~opt.dry =>
        /\ pc \in {"wipe", "vault", "sql", "prompt"} => vault = pre
        /\ pc = "vault" => Accounted
        /\ pc \in {"sql", "prompt", "install"} /\ opt.vault =>
              /\ \A c \in Present(pre) \ touched : Settled(c)
              /\ \A c \in Present(staged) \ touched : Targeted(c)
        /\ pc = "install" =>
              /\ opt.vault
              /\ toCopy \subseteq Present(staged) /\ (copying # Idle => copying \in toCopy)
              /\ \A c \in Chars \ (toCopy \union touched) : vault[c] = Wanted(pre[c])
        /\ pc = "commit" /\ opt.vault =>
              /\ \A c \in Present(pre) \ touched : Settled(c)
              /\ \A c \in Chars \ touched : vault[c] = Wanted(pre[c])

LEMMA PoolStepAccounts ==
    ASSUME TypeInv, vault = pre, Accounted, NEW w \in Workers, PoolStep(w, FALSE),
           UNCHANGED history
    PROVE  Accounted' /\ vault' = pre'
<1> USE DEF TypeInv, TypeOK, VaultTypeOK, HandsFull, Holds, Present, Targeted, Settled
<1>0. vault' = vault
  BY DEF PoolStep, TakeBatch, ReadChar, BackupBegin, BackupEnd, StageBegin, StageEnd,
         UnitThrows
<1>1. CASE TakeBatch(w)
  BY <1>1 DEF TakeBatch, Busy, disk, install, Accounted
<1>2. CASE \E c \in batch[w] : ReadChar(w, c)
  <2>1. PICK c \in batch[w] : ReadChar(w, c) BY <1>2
  <2>2. c \in Chars /\ pre[c] \in Content /\ Update[pre[c]] \in Content \union {NoMatch}
    BY <2>1, VaultConstants DEF ReadChar, Readable
  <2>3. CASE Update[vault[c]] = NoMatch
    <3>1. c \notin touched => staged[c] = NoFile
      BY <2>2, <2>3, VaultConstants DEF Accounted
    <3>2. c \notin touched => Settled(c) BY <2>2, <2>3, <3>1
    <3> QED BY <2>1, <2>3, <3>2 DEF ReadChar, disk, install, Accounted
  <2>4. CASE Update[vault[c]] # NoMatch
    <3>1. Targeted(c) BY <2>2, <2>4
    <3> QED BY <2>1, <2>2, <2>4, <3>1 DEF ReadChar, disk, install, Accounted
  <2> QED BY <2>3, <2>4
<1>3. CASE BackupBegin(w)
  BY <1>3 DEF BackupBegin, install, Accounted
<1>4. CASE BackupEnd(w, FALSE)
  BY <1>4 DEF BackupEnd, install, Accounted
<1>5. CASE StageBegin(w)
  BY <1>5 DEF StageBegin, install, Accounted
<1>6. CASE StageEnd(w)
  <2>1. hand[w] \notin touched => Targeted(hand[w]) /\ buffer[w] = Update[pre[hand[w]]]
    BY <1>6 DEF StageEnd, Accounted
  <2>2. hand[w] \in Chars BY <1>6 DEF StageEnd
  <2> QED BY <1>6, <2>1, <2>2 DEF StageEnd, PutDown, install, Accounted
<1>7. CASE UnitThrows(w)
  BY <1>7 DEF UnitThrows, disk, install, Accounted
<1> QED BY <1>0, <1>1, <1>2, <1>3, <1>4, <1>5, <1>6, <1>7 DEF PoolStep

\* When the foreach returns, every character is settled.
LEMMA ReturnsSettled ==
    ASSUME TypeInv, Accounted, PoolReturns
    PROVE  \A c \in Present(pre) \ touched : Settled(c)
<1>1. \A w \in Workers : stage[w] # "dead" /\ batch[w] = {} /\ ~Holds(w)
  BY DEF PoolReturns, PoolIdle, Busy, Accounted, TypeInv, HandsFull, Holds
<1> QED BY <1>1 DEF PoolReturns, Accounted

\* A settled character that is staged, or is left alone, becomes what is wanted.
LEMMA SettledIsWanted ==
    ASSUME TypeInv, NEW c \in Chars \ touched, \A d \in Present(pre) \ touched : Settled(d),
           \A d \in Present(staged) \ touched : Targeted(d)
    PROVE  /\ staged[c] # NoFile => staged[c] = Wanted(pre[c])
           /\ staged[c] = NoFile => pre[c] = Wanted(pre[c])
<1>1. CASE pre[c] = NoFile
  BY <1>1, VaultConstants DEF Present, Targeted, Wanted
<1>2. CASE pre[c] # NoFile
  <2>1. Settled(c) BY <1>2 DEF Present
  <2> QED BY <2>1, VaultConstants DEF Settled, Targeted, Wanted
<1> QED BY <1>1, <1>2

LEMMA StepApplies ==
    ASSUME TypeInv, RowInv, AppliedInv, [Next]_vars PROVE AppliedInv'
<1>a. opt.dry \in BOOLEAN /\ opt.vault \in BOOLEAN /\ opt.sql \in BOOLEAN
      /\ (opt.vault \/ opt.sql)
  BY UpdaterConstants DEF TypeInv, TypeOK
<1>b. vault \in [Chars -> Path] /\ pre \in [Chars -> Path] /\ staged \in [Chars -> Path]
  BY DEF TypeInv, TypeOK, VaultTypeOK
<1>1. ASSUME NEW o \in Options, Start(o) PROVE AppliedInv'
  BY <1>1 DEF Start, AppliedInv
<1>2. CASE \E how : Ends(how)
  BY <1>2 DEF Ends, AppliedInv
<1>3. CASE KeepTemp \/ VaultFails \/ SqlFails \/ AnswerYesThrows \/ AnswerDry
           \/ InstallThrows \/ Commit \/ Rollback \/ Killed
  BY <1>2, <1>3 DEF KeepTemp, VaultFails, SqlFails, AnswerYesThrows, AnswerDry,
                    InstallThrows, Commit, Rollback, Killed
<1>4. CASE DeleteTemp \/ WipeFile
  BY <1>4 DEF DeleteTemp, WipeFile, control, AppliedInv
<1>5. CASE MakeTemp
  <2> SUFFICES ASSUME ~opt.dry PROVE AppliedInv'
    BY <1>5 DEF MakeTemp, AppliedInv
  <2>1. /\ vault' = pre' /\ UNCHANGED <<history, opt>> /\ pc' \in {"vault", "sql"}
        /\ pc' = "sql" => ~opt.vault
        /\ \A c \in Chars : staged'[c] = NoFile
    BY <1>5 DEF MakeTemp, Enter, disk, Present, AppliedInv
  <2>2. pc' = "vault" => Accounted'
    BY <1>5, <2>1, VaultConstants
       DEF MakeTemp, Enter, PoolAtRest, Accounted, Present, Holds, AppliedInv
  <2> QED BY <2>1, <2>2 DEF AppliedInv
<1>6. CASE VaultStep
  <2> SUFFICES ASSUME ~opt.dry PROVE AppliedInv'
    BY <1>6 DEF VaultStep, control, AppliedInv
  <2>1. PICK w \in Workers : PoolStep(w, opt.dry) BY <1>6 DEF VaultStep
  <2>2. opt.dry = FALSE BY <1>a
  <2>3. Accounted' /\ vault' = pre'
    <3>1. PoolStep(w, FALSE) BY <2>1, <2>2
    <3>2. vault = pre /\ Accounted /\ UNCHANGED history BY <1>6 DEF VaultStep, AppliedInv
    <3> QED BY <3>1, <3>2, PoolStepAccounts
  <2> QED BY <1>6, <2>3 DEF VaultStep, control, AppliedInv
<1>7. CASE VaultDone
  <2> SUFFICES ASSUME ~opt.dry PROVE AppliedInv'
    BY <1>7 DEF VaultDone, AppliedInv
  <2>1. /\ \A c \in Present(pre) \ touched : Settled(c)
        /\ \A c \in Present(staged) \ touched : Targeted(c)
    BY <1>7, ReturnsSettled DEF VaultDone, AppliedInv, Accounted
  <2> QED BY <1>7, <2>1 DEF VaultDone, AppliedInv, disk, Present, Settled, Targeted
<1>8. CASE SqlPhaseStep \/ SqlDone
  BY <1>8 DEF SqlPhaseStep, SqlDone, control, disk, AppliedInv, Present, Settled, Targeted
<1>9. CASE AnswerYes
  <2>1. /\ UNCHANGED <<vault, staged, history, opt>> /\ ~opt.dry /\ vault = pre
        /\ opt.vault => /\ \A c \in Present(pre) \ touched : Settled(c)
                        /\ \A c \in Present(staged) \ touched : Targeted(c)
    BY <1>9 DEF AnswerYes, disk, AppliedInv
  <2>2. CASE opt.vault
    <3>1. pc' = "install" /\ toCopy' = Present(staged) /\ copying' = Idle
      BY <1>9, <2>2 DEF AnswerYes, InstallStart
    <3>2. \A c \in Chars \ (toCopy' \union touched) : vault[c] = Wanted(pre[c])
      BY <2>1, <2>2, <3>1, SettledIsWanted DEF Present
    <3> QED BY <2>1, <2>2, <3>1, <3>2 DEF AppliedInv, Present, Settled, Targeted
  <2>3. CASE ~opt.vault
    BY <1>9, <2>1, <2>3 DEF AnswerYes, AppliedInv
  <2> QED BY <2>2, <2>3
<1>10. CASE AnswerNo
  <2>1. CASE ~\E how : Ends(how)
    BY <1>10, <2>1 DEF AnswerNo, AppliedInv
  <2> QED BY <1>2, <2>1
<1>11. CASE InstallStep
  <2>1. /\ UNCHANGED <<staged, history, opt, pc>> /\ ~opt.dry /\ opt.vault /\ pc = "install"
    BY <1>11 DEF InstallStep, CopyBegin, CopyEnd, disk, control, AppliedInv, RowInv, RowInHand
  <2>2. /\ \A c \in Present(pre) \ touched : Settled(c)
        /\ \A c \in Present(staged) \ touched : Targeted(c)
        /\ toCopy \subseteq Present(staged) /\ (copying # Idle => copying \in toCopy)
        /\ \A c \in Chars \ (toCopy \union touched) : vault[c] = Wanted(pre[c])
    BY <2>1 DEF AppliedInv
  <2>3. CASE CopyEnd
    <3>1. /\ copying \in toCopy /\ copying \in Chars
          /\ copying \notin touched => staged[copying] = Wanted(pre[copying])
      BY <2>2, <2>3, SettledIsWanted DEF CopyEnd, Present
    <3>2. /\ toCopy' \subseteq Present(staged) /\ copying' = Idle
          /\ \A c \in Chars \ (toCopy' \union touched) : vault'[c] = Wanted(pre[c])
      BY <1>b, <2>2, <2>3, <3>1 DEF CopyEnd
    <3> QED BY <2>1, <2>2, <3>2 DEF AppliedInv, Present, Settled, Targeted
  <2>4. ASSUME NEW c \in toCopy, CopyBegin(c) PROVE AppliedInv'
    <3>1. toCopy' = toCopy /\ copying' = c /\ \A d \in Chars \ toCopy' : vault'[d] = vault[d]
      BY <1>b, <2>4 DEF CopyBegin
    <3> QED BY <2>1, <2>2, <3>1 DEF AppliedInv, Present, Settled, Targeted
  <2> QED BY <1>11, <2>3, <2>4 DEF InstallStep
<1>12. CASE InstallDoneStep
  <2>1. CASE ~\E how : Ends(how)
    <3>1. /\ UNCHANGED <<vault, staged, history, opt>> /\ pc' = "commit" /\ pc = "install"
          /\ toCopy = {}
      BY <1>12, <2>1 DEF InstallDoneStep, InstallDone, disk
    <3> QED BY <3>1 DEF AppliedInv, Present, Settled, Targeted
  <2> QED BY <1>2, <2>1
<1>13. CASE Server
  <2>1. CASE \E c \in Chars, f \in Path : ServerSavesChar(c, f)
    <3>1. PICK c \in Chars, f \in Path : ServerSavesChar(c, f) BY <2>1
    <3>2. CASE pc = "off"
      BY <3>1, <3>2 DEF ServerSavesChar, control, AppliedInv
    <3>3. CASE pc # "off"
      <4>1. /\ UNCHANGED <<disk, pool, install, control>> /\ touched' = touched \union {c}
            /\ \A d \in Chars \ touched' : pre'[d] = pre[d] /\ vault'[d] = vault[d]
            /\ vault = pre => vault' = pre'
        BY <1>b, <3>1, <3>3 DEF ServerSavesChar
      <4>2. \A d \in Chars \ touched' :
              /\ (Targeted(d) <=> Targeted(d)') /\ (Settled(d) <=> Settled(d)')
              /\ Wanted(pre[d])' = Wanted(pre[d])
        BY <4>1 DEF disk, Targeted, Settled, Wanted
      <4>3. Accounted => Accounted'
        <5> SUFFICES ASSUME Accounted PROVE Accounted' OBVIOUS
        <5>1. UNCHANGED <<staged, queue, batch, hand, stage, buffer, failed>>
          BY <4>1 DEF disk, pool
        <5>2. ASSUME NEW w \in Workers, Holds(w), hand[w] \notin touched'
              PROVE  Targeted(hand[w])' /\ buffer[w] = Update[pre'[hand[w]]]
          <6>1. hand[w] \in Chars \ touched'
            BY <5>2 DEF TypeInv, TypeOK, VaultTypeOK, HandsFull, Holds
          <6> QED BY <4>1, <4>2, <5>1, <5>2, <6>1 DEF Accounted, Targeted
        <5>3. \A d \in Present(staged) \ touched' : Targeted(d)'
          BY <4>1, <4>2 DEF Accounted, Present
        <5>4. failed \/ \A d \in Present(pre)' \ touched' :
                \/ d \in queue \/ Settled(d)'
                \/ \E w \in Workers : d \in batch[w] \/ (Holds(w) /\ hand[w] = d)
          BY <4>1, <4>2 DEF Accounted, Present
        <5> QED BY <5>1, <5>2, <5>3, <5>4 DEF Accounted, Present, Holds, Targeted, Settled
      <4> QED BY <4>1, <4>2, <4>3 DEF disk, install, control, AppliedInv, Present
    <3> QED BY <3>2, <3>3
  <2>2. CASE \E r \in Rows, i \in Items \union {NoItem} : ServerWritesRow(r, i)
    BY <2>2 DEF ServerWritesRow, disk, pool, install, control, AppliedInv, Accounted, Present,
                Settled, Targeted, Holds
  <2> QED BY <1>13, <2>1, <2>2 DEF Server
<1>14. CASE UNCHANGED vars
  BY <1>14 DEF vars, control, disk, pool, install, AppliedInv, Accounted, Present, Settled,
               Targeted, Holds
<1> QED BY <1>1, <1>3, <1>4, <1>5, <1>6, <1>7, <1>8, <1>9, <1>10, <1>11, <1>12, <1>13, <1>14
        DEF Next, Tool

\* A run that ends applied has updated the whole vault but for what the server saved under
\* it: every character was readable and each that holds a targeted item is as
\* updateInventory makes it, however many workers shared them, and no other one changed
\* (app.d:210-329, 447-472).
THEOREM AppliedUpdatesVault == Spec => AppliedMeansUpdated
<1> DEFINE Updates ==
        exit # "applied" /\ exit' = "applied" /\ opt.vault =>
            \A c \in Chars \ touched :
                /\ pre[c] # NoFile => pre[c] \in Content /\ Update[pre[c]] # Fail
                /\ vault'[c] = Wanted(pre[c])
<1>1. Init => AppliedInv BY DEF Init, AppliedInv
<1>2. ASSUME TypeInv, RowInv, AppliedInv, [Next]_vars PROVE [Updates]_vars
  <2> SUFFICES ASSUME Next, exit # "applied", exit' = "applied", opt.vault
               PROVE  \A c \in Chars \ touched :
                        /\ pre[c] # NoFile => pre[c] \in Content /\ Update[pre[c]] # Fail
                        /\ vault'[c] = Wanted(pre[c])
    BY <1>2
  <2>1. InstallDoneStep \/ Commit
    BY DEF Next, Tool, Start, KeepTemp, DeleteTemp, WipeFile, MakeTemp, VaultStep, VaultDone,
           VaultFails, SqlPhaseStep, SqlDone, SqlFails, AnswerYes, AnswerYesThrows, AnswerNo,
           AnswerDry, InstallStep, InstallThrows, Rollback, Killed, Server, ServerSavesChar,
           ServerWritesRow, Ends, control
  <2>2. vault' = vault /\ ~opt.dry
    BY <1>2, <2>1 DEF InstallDoneStep, Commit, RowInv, RowInHand
  <2>3. /\ \A c \in Present(pre) \ touched : Settled(c)
        /\ \A c \in Chars \ touched : vault[c] = Wanted(pre[c])
    BY <1>2, <2>1, <2>2 DEF InstallDoneStep, InstallDone, Commit, AppliedInv
  <2> QED BY <2>2, <2>3, VaultConstants DEF Present, Settled, Targeted
<1>3. TypeInv /\ RowInv /\ AppliedInv /\ [Next]_vars => AppliedInv' BY StepApplies
<1> QED BY <1>1, <1>2, <1>3, AlwaysRow, PTL DEF Spec, AppliedMeansUpdated

-----------------------------------------------------------------------------
(* What a run has updated when it asks *)

\* What the UPDATE of row r needs to have gone through, had there been one.
Passed(r) ==
    \/ snapshot[r] = NoItem
    \/ UpdateItem[snapshot[r]] \in {NoUpdate, snapshot[r]}
    \/ \E k \in CoercedKeys : TableOf[k] = TableOf[r]

InHand(r) == rowStage # "fetch" /\ r = row

\* The rows the loops have dealt with.
Behind(r) ==
    \/ TableOf[r] < target
    \/ TableOf[r] = target /\ cursor # 0 /\ r \notin unread /\ ~InHand(r)

\* The connection of the loops, and the snapshot the first target reads on it for all the
\* targets: that connection is never in autocommit.
OneSnapshot ==
    /\ pc \in {"off", "clean", "wipe", "vault"} => target = 0
    /\ target = 0 => cursor = 0
    /\ target = 0 \/ (target = 1 /\ cursor = 0) => snapshot = NoItem
    /\ target > 0 => Len(conns) > 0 /\ ~conns[1].autocommit
    /\ target > 1 => snapshot # NoItem

HitInv ==
    /\ OneSnapshot
    /\ \A r \in unread : TableOf[r] = target
    /\ rowStage # "fetch" => TableOf[row] = target
    /\ pc \in {"sql", "prompt"} /\ ~opt.dry => \A r \in Rows : Behind(r) => Passed(r)
    /\ pc = "prompt" /\ opt.sql => target = Targets + 1

LEMMA EndsHit == ASSUME NEW how, Ends(how) PROVE HitInv'
<1>1. target' = 0 /\ cursor' = 0 /\ snapshot' = NoItem /\ unread' = {} /\ rowStage' = "fetch"
      /\ pc' = "off"
  BY DEF Ends, SqlAtRest
<1> QED BY <1>1 DEF HitInv, OneSnapshot

LEMMA SqlStepHit ==
    ASSUME TypeInv, UpdatesAutocommit, HitInv, pc = "sql", SqlStep(opt.dry), UNCHANGED control
    PROVE  HitInv'
<1>a. SqlTypeOK /\ SqlClaims BY DEF TypeInv, TypeOK
<1>b. /\ FirstFree = IF cursor = 0 THEN 1 ELSE 2
      /\ FirstFree \in 1..Len(Pool) /\ Pool \in Seq(Connection)
      /\ Len(conns) > 0 => Pool[1] = conns[1]
      /\ \A i \in 1..Len(Pool) : i # 1 => Pool[i].autocommit
      /\ cursor \in {0, 1} /\ Len(conns) \in Nat /\ Len(Pool) \in Nat
  BY <1>a, FreeIsFirst, PoolTyped, PoolUpdatesAutocommit DEF UpdatesAutocommit, SqlTypeOK
<1>c. target \in Int /\ \A r \in Rows : TableOf[r] \in 1..Targets
  BY <1>a, SqlConstants DEF SqlTypeOK
<1>d. pc' = pc /\ opt' = opt BY DEF control
<1> HIDE DEF FirstFree, Pool
<1>1. CASE SetAutocommitOff
  <2>1. target = 0 /\ target' = 1 /\ cursor = 0 /\ UNCHANGED <<cursor, snapshot, unread, rowStage>>
    BY <1>1 DEF SetAutocommitOff, HitInv, OneSnapshot
  <2>2. Len(conns') > 0 /\ ~conns'[1].autocommit
    BY <1>1, <1>b, <2>1 DEF SetAutocommitOff
  <2>3. unread = {} /\ rowStage = "fetch" BY <1>a, <2>1 DEF SqlClaims
  <2> QED BY <1>c, <1>d, <2>1, <2>2, <2>3 DEF HitInv, OneSnapshot, Behind
<1>2. CASE SelectRows
  <2>1. /\ cursor = 0 /\ cursor' = 1 /\ target > 0 /\ rowStage = "fetch"
        /\ UNCHANGED <<target, row, rowStage>> /\ conns' = Pool
    BY <1>2, <1>a, <1>b DEF SelectRows, SqlClaims
  <2>2. /\ Len(conns') > 0 /\ ~conns'[1].autocommit
        /\ snapshot # NoItem => snapshot' = snapshot
        /\ snapshot = NoItem => snapshot' = db
        /\ unread' = {r \in Rows : TableOf[r] = target /\ snapshot'[r] # NoItem}
    BY <1>2, <1>b, <2>1 DEF SelectRows, HitInv, OneSnapshot
  <2>3. snapshot' # NoItem BY <1>a, <2>2, SqlConstants DEF SqlTypeOK, Table
  <2>4. ASSUME NEW r \in Rows, Behind(r)', ~opt.dry PROVE Passed(r)'
    <3>1. CASE TableOf[r] < target
      BY <1>c, <2>1, <2>2, <3>1, <2>4 DEF HitInv, OneSnapshot, Behind, Passed
    <3>2. CASE TableOf[r] = target
      BY <1>c, <2>1, <2>2, <3>2, <2>4 DEF Behind, Passed
    <3> QED BY <2>1, <2>4, <3>1, <3>2 DEF Behind
  <2> QED BY <1>d, <2>1, <2>2, <2>3, <2>4 DEF HitInv, OneSnapshot
<1>3. CASE \E r \in unread : SkipRow(r, opt.dry) \/ BackupRow(r, opt.dry)
  <2> PICK r \in unread : SkipRow(r, opt.dry) \/ BackupRow(r, opt.dry) BY <1>3
  <2>1. UNCHANGED <<conns, cursor, snapshot, target>> /\ unread' = unread \ {r}
        /\ rowStage = "fetch"
    BY DEF SkipRow, BackupRow
  <2>2. ASSUME NEW q \in Rows, Behind(q)', ~opt.dry PROVE Passed(q)
    <3>1. CASE q # r BY <2>1, <2>2, <3>1, <1>d DEF HitInv, Behind, InHand
    <3>2. CASE q = r
      <4>1. CASE BackupRow(r, opt.dry)
        BY <1>c, <2>1, <2>2, <3>2, <4>1 DEF HitInv, Behind, InHand, BackupRow
      <4>2. CASE SkipRow(r, opt.dry) BY <2>2, <3>2, <4>2 DEF SkipRow, Passed
      <4> QED BY <4>1, <4>2
    <3> QED BY <3>1, <3>2
  <2>3. TableOf[r] = target /\ rowStage' # "fetch" => row' = r
    BY <2>1 DEF SkipRow, BackupRow, HitInv
  <2> QED BY <1>d, <2>1, <2>2, <2>3 DEF HitInv, OneSnapshot, Passed
<1>4. CASE BackupRowEnd
  BY <1>4, <1>d DEF BackupRowEnd, HitInv, OneSnapshot, Behind, InHand, Passed
<1>5. CASE UpdateRow
  <2>1. PICK k \in Rows : Hit = {k} BY <1>5 DEF UpdateRow
  <2>2. k \in CoercedKeys /\ TableOf[k] = target BY <2>1 DEF Hit
  <2>3. rowStage # "fetch" /\ row \in Rows /\ TableOf[row] = target /\ cursor = 1
    BY <1>5, <1>a, <1>b DEF UpdateRow, SqlClaims, SqlTypeOK, HitInv
  <2>4. Passed(row) BY <2>2, <2>3 DEF Passed
  <2>5. conns' = Pool /\ UNCHANGED <<cursor, snapshot, target, unread>> /\ rowStage' = "fetch"
    BY <1>5, <1>b, <2>3 DEF UpdateRow, ConnsAfterUpdate
  <2>6. ASSUME NEW q \in Rows, Behind(q)', ~opt.dry PROVE Passed(q)
    BY <1>d, <2>4, <2>5, <2>6 DEF HitInv, Behind, InHand
  <2> QED BY <1>b, <1>d, <2>5, <2>6 DEF HitInv, OneSnapshot, Passed
<1>6. CASE EndTarget
  <2>1. /\ cursor # 0 /\ unread = {} /\ rowStage = "fetch" /\ cursor' = 0 /\ target' = target + 1
        /\ UNCHANGED <<conns, snapshot, unread, row, rowStage>>
    BY <1>6 DEF EndTarget
  <2>2. target > 0 /\ snapshot # NoItem BY <1>a, <2>1 DEF SqlClaims
  <2>3. ASSUME NEW q \in Rows, Behind(q)', ~opt.dry PROVE Passed(q)
    BY <1>c, <1>d, <2>1, <2>3 DEF HitInv, Behind, InHand
  <2> QED BY <1>c, <1>d, <2>1, <2>2, <2>3 DEF HitInv, OneSnapshot, Passed
<1> QED BY <1>1, <1>2, <1>3, <1>4, <1>5, <1>6 DEF SqlStep

LEMMA StepHit == ASSUME TypeInv, UpdatesAutocommit, HitInv, [Next]_vars PROVE HitInv'
<1>a. /\ target = 0 => cursor = 0 /\ unread = {} /\ rowStage = "fetch"
      /\ \A r \in Rows : TableOf[r] \in 1..Targets
  BY SqlConstants DEF HitInv, OneSnapshot, TypeInv, SqlClaims
<1>1. ASSUME NEW o \in Options, Start(o) PROVE HitInv'
  <2>1. target = 0 /\ UNCHANGED <<cursor, snapshot, target, unread, row, rowStage>>
        /\ pc' # "prompt"
    BY <1>1 DEF Start, Enter, HitInv, OneSnapshot
  <2> QED BY <1>a, <2>1 DEF HitInv, OneSnapshot, Behind
<1>2. CASE KeepTemp \/ VaultFails \/ SqlFails \/ AnswerYesThrows \/ AnswerDry
           \/ InstallThrows \/ Commit \/ Rollback \/ Killed
  BY <1>2, EndsHit DEF KeepTemp, VaultFails, SqlFails, AnswerYesThrows, AnswerDry,
                       InstallThrows, Commit, Rollback, Killed
<1>3. ASSUME UNCHANGED sqlMemory, pc \in {"clean", "wipe", "vault"}, ~opt.sql \/ pc' # "prompt",
             opt' = opt
      PROVE  HitInv'
  <2>1. target = 0 /\ UNCHANGED <<conns, cursor, snapshot, target, unread, row, rowStage>>
    BY <1>3 DEF HitInv, OneSnapshot, sqlMemory
  <2> QED BY <1>a, <1>3, <2>1 DEF HitInv, OneSnapshot, Behind
<1>4. CASE DeleteTemp \/ WipeFile \/ MakeTemp \/ VaultStep \/ VaultDone
  BY <1>3, <1>4 DEF DeleteTemp, WipeFile, MakeTemp, Enter, VaultStep, VaultDone, sqlVars,
                    control
<1>5. CASE SqlPhaseStep BY <1>5, SqlStepHit DEF SqlPhaseStep
<1>6. CASE SqlDone
  BY <1>6 DEF SqlDone, TargetsDone, sqlVars, sqlMemory, HitInv, OneSnapshot, Behind, InHand,
              Passed
<1>7. ASSUME UNCHANGED <<sqlMemory, opt>>,
             pc' = pc \/ (pc' \in {"install", "commit", "rollback"})
      PROVE  HitInv'
  BY <1>7 DEF sqlMemory, HitInv, OneSnapshot, Behind, InHand, Passed
<1>8. CASE AnswerYes \/ InstallStep \/ Server \/ UNCHANGED vars
  BY <1>7, <1>8 DEF AnswerYes, InstallStep, Server, ServerSavesChar, ServerWritesRow, vars,
                    sqlVars, control
<1>9. CASE AnswerNo \/ InstallDoneStep
  BY <1>7, <1>9, EndsHit DEF AnswerNo, InstallDoneStep
<1> QED BY <1>1, <1>2, <1>4, <1>5, <1>6, <1>8, <1>9 DEF Next, Tool

\* A real run that gets to its prompt went through every row it had to update, so in each
\* of those tables the server found a key equal to an item: for the others the run ended
\* in enforce(affectedRows == 1) (app.d:401-408).
THEOREM PromptNeedsCoercedKeys == Spec => []PromptMeansAllHit
<1>1. Init => HitInv BY DEF Init, SqlInit, HitInv, OneSnapshot, Behind
<1>2. Init => UpdatesAutocommit BY DEF Init, SqlInit, UpdatesAutocommit, NothingPending
<1>3. HitInv => PromptMeansAllHit
  BY SqlConstants DEF HitInv, Behind, Passed, PromptMeansAllHit
<1>4. TypeInv /\ UpdatesAutocommit /\ HitInv /\ [Next]_vars => HitInv' BY StepHit
<1> QED BY <1>1, <1>2, <1>3, <1>4, InitTyped, StepTyped, StepUpdatesAutocommit, PTL DEF Spec

\* Why backups suffice: at every step of a real run, players connected or not, the vault is
\* as the server left it, or every staged character that the server left alone has its
\* backup and only staged ones are overwritten.
THEOREM BackupsPrecede == RealRuns => (Spec => []RecoverableInv)
<1> SUFFICES ASSUME RealRuns PROVE Spec => []RecoverableInv OBVIOUS
<1>1. Init => RecoverableInv BY DEF Init, RecoverableInv, Recoverable
<1>2. TypeInv /\ RecoverableInv /\ [Next]_vars => RecoverableInv' BY StepRecoverable
<1> QED BY <1>1, <1>2, InitTyped, StepTyped, PTL DEF Spec

=============================================================================
