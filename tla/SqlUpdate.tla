----------------------------- MODULE SqlUpdate -----------------------------
(***************************************************************************)
(* The MySQL half of nwn2-itemupdater (itemupdater/source/app.d:333-420    *)
(* and the COMMIT / ROLLBACK at 474-489), on the connection pool and the   *)
(* transactions it uses.                                                   *)
(*                                                                         *)
(* The pool (mysql-native's MySQLPool) and the server (InnoDB) are         *)
(* external: lockConnection returns the first connection nobody holds and  *)
(* opens a new one, with autocommit on, when there is none; a SELECT reads *)
(* the snapshot its connection's transaction opened.                       *)
(*                                                                         *)
(* A row is one primary key of one target table; its column holds a value  *)
(* of Items.                                                               *)
(***************************************************************************)
EXTENDS Integers, Sequences

CONSTANTS
    Rows,           \* primary keys, over all the targets
    Targets,        \* how many --sql-table there are
    TableOf,        \* the target each row belongs to
    Items,          \* what the column can hold
    UpdateItem,     \* what updateItem makes of an item
    NoUpdate,       \* its answer for an item no --update names
    Throws,         \* its answer when new Gff or updateItem throws
    NoItem,         \* nothing there
    HalfWritten,    \* a partly written backup file
    NoRow,          \* no row being updated
    CoercedKeys     \* keys MySQL finds equal to a serialized item: a numeric
                    \* key 0, as a blob that starts with no digit compares as 0

ASSUME SqlConstants ==
    /\ Targets \in Nat
    /\ TableOf \in [Rows -> 1..Targets]
    /\ UpdateItem \in [Items -> Items \union {NoUpdate, Throws}]
    /\ NoUpdate \notin Items /\ Throws \notin Items /\ NoUpdate # Throws
    /\ NoItem \notin Items /\ HalfWritten \notin Items /\ NoItem # HalfWritten
    /\ NoItem \notin [Rows -> Items \union {NoItem}]    \* no snapshot
    /\ NoRow \notin Rows
    /\ CoercedKeys \subseteq Rows

VARIABLES
    db,         \* the committed rows
    sqlBackup,  \* $TEMP/sql
    conns,      \* the pool's connections, oldest first
    cursor,     \* the connection the target's loop holds, 0 for none
    snapshot,   \* what the cursor's transaction sees, once it has read
    target,     \* number of the target being updated
    unread,     \* rows of the result set the loop has still to fetch
    row,        \* the row being updated
    rowStage    \* how far the loop body got with it

sqlMemory == <<conns, cursor, snapshot, target, unread, row, rowStage>>
sqlVars == <<db, sqlBackup, sqlMemory>>

Table == [Rows -> Items \union {NoItem}]
Nothing == [r \in Rows |-> NoItem]
Connection == [autocommit : BOOLEAN, pending : Table]

\* At most two connections ever exist: the cursor's and the updates'.
PoolSize == 2

SqlTypeOK ==
    /\ db \in Table
    /\ sqlBackup \in [Rows -> Items \union {NoItem, HalfWritten}]
    /\ conns \in Seq(Connection) /\ Len(conns) <= PoolSize
    /\ cursor \in 0..Len(conns)
    /\ snapshot \in Table \union {NoItem}
    /\ target \in 0..Targets + 1
    /\ unread \in SUBSET Rows
    /\ row \in Rows \union {NoRow}
    /\ rowStage \in {"fetch", "backing", "update"}

SqlAtRest ==
    /\ conns' = <<>> /\ cursor' = 0 /\ snapshot' = NoItem
    /\ target' = 0 /\ unread' = {} /\ row' = NoRow /\ rowStage' = "fetch"

SqlInit ==
    /\ db \in [Rows -> Items]
    /\ sqlBackup = Nothing
    /\ conns = <<>> /\ cursor = 0 /\ snapshot = NoItem
    /\ target = 0 /\ unread = {} /\ row = NoRow /\ rowStage = "fetch"

-----------------------------------------------------------------------------
(* MySQLPool *)

FreshConnection == [autocommit |-> TRUE, pending |-> Nothing]

\* Mutant: the cursor's connection is used for the updates too.
Locked_none == {}

Locked == IF cursor = 0 THEN {} ELSE {cursor}

\* lockConnection: the pool afterwards, and the index of the connection.
\* Connections locked for one statement are released at its end; only the
\* cursor's stays locked.
FirstFree ==
    IF \E i \in 1..Len(conns) : i \notin Locked
    THEN CHOOSE i \in 1..Len(conns) :
            i \notin Locked /\ \A j \in 1..(i - 1) : j \in Locked
    ELSE Len(conns) + 1
Pool == IF FirstFree \in 1..Len(conns) THEN conns
                                       ELSE Append(conns, FreshConnection)

Over(new, old) == [r \in Rows |-> IF new[r] # NoItem THEN new[r] ELSE old[r]]

\* main opens a connection to fail early if it cannot.
OpenPool == conns' = <<FreshConnection>>

-----------------------------------------------------------------------------
(* The loop over the targets *)

SetAutocommitOff ==
    /\ target = 0
    /\ conns' = [Pool EXCEPT ![FirstFree] =
                    [autocommit |-> FALSE, pending |-> @.pending]]
    /\ target' = 1
    /\ UNCHANGED <<db, sqlBackup, cursor, snapshot, unread, row, rowStage>>

\* Lock a connection for the target's loop and send its SELECT.
SelectRows ==
    /\ target \in 1..Targets /\ cursor = 0
    /\ conns' = Pool
    /\ cursor' = FirstFree
    /\ LET seen == IF snapshot = NoItem \/ Pool[FirstFree].autocommit
                   THEN db ELSE snapshot
       IN /\ snapshot' = seen
          /\ unread' = {r \in Rows : TableOf[r] = target /\ seen[r] # NoItem}
    /\ UNCHANGED <<db, sqlBackup, target, row, rowStage>>

\* Nothing to write for this row: no --update names it, or the update changes
\* nothing, or this is a dry run.
SkipRow(r, dry) ==
    /\ cursor # 0 /\ rowStage = "fetch" /\ r \in unread
    /\ \/ UpdateItem[snapshot[r]] \in {NoUpdate, snapshot[r]}
       \/ dry /\ UpdateItem[snapshot[r]] # Throws
    /\ unread' = unread \ {r}
    /\ UNCHANGED <<db, sqlBackup, conns, cursor, snapshot, target, row, rowStage>>

\* Mutant: the file is not waited for.
BackupRow_unfinished(r, dry) ==
    /\ cursor # 0 /\ rowStage = "fetch" /\ r \in unread /\ ~dry
    /\ UpdateItem[snapshot[r]] \in Items \ {snapshot[r]}
    /\ unread' = unread \ {r}
    /\ row' = r
    /\ rowStage' = "update"
    /\ sqlBackup' = [sqlBackup EXCEPT ![r] = HalfWritten]
    /\ UNCHANGED <<db, conns, cursor, snapshot, target>>

BackupRow(r, dry) ==
    /\ cursor # 0 /\ rowStage = "fetch" /\ r \in unread /\ ~dry
    /\ UpdateItem[snapshot[r]] \in Items \ {snapshot[r]}
    /\ unread' = unread \ {r}
    /\ row' = r
    /\ rowStage' = "backing"
    /\ sqlBackup' = [sqlBackup EXCEPT ![r] = HalfWritten]
    /\ UNCHANGED <<db, conns, cursor, snapshot, target>>

BackupRowEnd ==
    /\ rowStage = "backing"
    /\ sqlBackup' = [sqlBackup EXCEPT ![row] = snapshot[row]]
    /\ rowStage' = "update"
    /\ UNCHANGED <<db, conns, cursor, snapshot, target, unread, row>>

\* UPDATE ... SET col = data WHERE key = data: the loop over the keys binds
\* updatedData where the key belongs, so what the statement changes is the rows
\* of this table whose key the server finds equal to that blob.
Updated == UpdateItem[snapshot[row]]
Hit == LET seen == Over(Pool[FirstFree].pending, db)
       IN {r \in CoercedKeys : /\ TableOf[r] = target
                               /\ seen[r] \notin {NoItem, Updated}}

Written == [r \in Rows |-> IF r \in Hit THEN Updated ELSE NoItem]

\* The statement runs on a connection of its own, as the cursor holds the one
\* that has autocommit off.
DbAfterUpdate ==
    IF Pool[FirstFree].autocommit THEN Over(Written, db) ELSE db
ConnsAfterUpdate ==
    IF Pool[FirstFree].autocommit
    THEN Pool
    ELSE [Pool EXCEPT ![FirstFree] =
            [autocommit |-> FALSE, pending |-> Over(Written, @.pending)]]

\* Mutant: the number of affected rows is not enforced.
UpdateRow_unchecked ==
    /\ rowStage = "update"
    /\ db' = DbAfterUpdate
    /\ conns' = ConnsAfterUpdate
    /\ row' = NoRow
    /\ rowStage' = "fetch"
    /\ UNCHANGED <<sqlBackup, cursor, snapshot, target, unread>>

\* enforce(affectedRows == 1)
UpdateRow ==
    /\ rowStage = "update"
    /\ \E r \in Rows : Hit = {r}
    /\ db' = DbAfterUpdate
    /\ conns' = ConnsAfterUpdate
    /\ row' = NoRow
    /\ rowStage' = "fetch"
    /\ UNCHANGED <<sqlBackup, cursor, snapshot, target, unread>>

\* The statement has had its effect when enforce throws; the exception ends
\* main and with it the pool.
UpdateRowThrows ==
    /\ rowStage = "update"
    /\ \A r \in Rows : Hit # {r}
    /\ db' = DbAfterUpdate
    /\ UNCHANGED sqlBackup

\* new Gff or updateItem throws.
RowThrows ==
    /\ cursor # 0 /\ rowStage = "fetch"
    /\ \E r \in unread : UpdateItem[snapshot[r]] = Throws

EndTarget ==
    /\ cursor # 0 /\ unread = {} /\ rowStage = "fetch"
    /\ cursor' = 0
    /\ target' = target + 1
    /\ UNCHANGED <<db, sqlBackup, conns, snapshot, unread, row, rowStage>>

TargetsDone == target = Targets + 1

\* Between two targets nothing is being read; within one, every row still to
\* fetch and the one in hand came out of the snapshot.
SqlClaims ==
    /\ cursor = 0 => unread = {} /\ rowStage = "fetch"
    /\ cursor # 0 => snapshot # NoItem /\ target \in 1..Targets
    /\ \A r \in unread : snapshot[r] # NoItem
    /\ rowStage # "fetch" =>
        /\ row # NoRow /\ snapshot[row] # NoItem
        /\ UpdateItem[snapshot[row]] \in Items

SqlStep(dry) ==
    \/ SetAutocommitOff
    \/ SelectRows
    \/ \E r \in unread : SkipRow(r, dry) \/ BackupRow(r, dry)
    \/ BackupRowEnd
    \/ UpdateRow
    \/ EndTarget

-----------------------------------------------------------------------------
(* The answer *)

\* COMMIT and ROLLBACK go to the first free connection of the pool; the process
\* ends right after.
ExecCommit == db' = Over(Pool[FirstFree].pending, db)
ExecRollback == db' = db
=============================================================================
