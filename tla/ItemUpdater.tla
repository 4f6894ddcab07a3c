---------------------------- MODULE ItemUpdater ----------------------------
(***************************************************************************)
(* main() of nwn2-itemupdater (itemupdater/source/app.d:30-493): check the *)
(* temp directory, stage the updated characters, update the SQL rows, ask, *)
(* then install and commit.  One process runs at a time, again and again,  *)
(* against the same vault, temp directory and database; it may be killed   *)
(* at any step.  Between runs (and, if Online, during them) the game       *)
(* server writes the same files and rows.                                  *)
(***************************************************************************)
EXTENDS VaultUpdate, SqlUpdate

CONSTANTS
    Options,    \* command lines: [dry, yes, vault, sql : BOOLEAN]
    Online      \* may players be connected while the tool runs?

ASSUME UpdaterConstants ==
    /\ Options \subseteq [dry : BOOLEAN, yes : BOOLEAN,
                          vault : BOOLEAN, sql : BOOLEAN]
    /\ \A o \in Options : o.vault \/ o.sql
    /\ Online \in BOOLEAN

VARIABLES
    pc,         \* where main is; "off" when no process runs
    opt,        \* its command line
    exit,       \* how the last process ended
    tempUsed,   \* the temp directory has an entry
    pre,        \* history: each character when the temp directory was last
                \* given up, or as the server left it since
    touched     \* history: the characters the server has written under a
                \* process since then

control == <<pc, opt, exit>>
history == <<pre, touched>>
vars == <<vault, disk, pool, install, sqlVars, control, tempUsed, history>>

Phases == {"off", "clean", "wipe", "vault", "sql", "prompt", "install",
           "commit", "rollback"}
Exits == {"none", "refused", "error", "left", "applied", "killed"}

TypeOK ==
    /\ VaultTypeOK
    /\ SqlTypeOK
    /\ pc \in Phases
    /\ opt \in Options
    /\ exit \in Exits
    /\ tempUsed \in BOOLEAN
    /\ pre \in [Chars -> Path]
    /\ touched \in SUBSET Chars

Init ==
    /\ VaultInit
    /\ SqlInit
    /\ pc = "off" /\ opt \in Options /\ exit = "none"
    /\ tempUsed = FALSE
    /\ pre = vault /\ touched = {}

\* What outlives the process, and what does not.
Ends(how) ==
    /\ pc' = "off" /\ exit' = how /\ UNCHANGED opt
    /\ PoolAtRest({}) /\ InstallAtRest /\ SqlAtRest

-----------------------------------------------------------------------------
(* Start, and the temp directory *)

\* Where main goes with the temp directory settled.
Enter(o) ==
    IF o.vault THEN pc' = "vault" /\ PoolAtRest(Present(vault))
               ELSE pc' = "sql" /\ UNCHANGED pool

Start(o) ==
    /\ pc = "off"
    /\ opt' = o /\ exit' = "none"
    /\ IF o.dry THEN Enter(o) ELSE pc' = "clean" /\ UNCHANGED pool
    /\ IF o.sql THEN OpenPool ELSE UNCHANGED conns
    /\ UNCHANGED <<vault, disk, install, db, sqlBackup, cursor, snapshot,
                   target, unread, row, rowStage, tempUsed, history>>

AsksToDelete == tempUsed /\ ~opt.yes

\* Any answer but 'd'.
KeepTemp ==
    /\ pc = "clean" /\ AsksToDelete
    /\ Ends("refused")
    /\ UNCHANGED <<vault, disk, db, sqlBackup, tempUsed, history>>

\* 'd', or no question asked: the backups of earlier runs are given up.
DeleteTemp ==
    /\ pc = "clean"
    /\ pc' = "wipe"
    /\ pre' = vault /\ touched' = {}
    /\ UNCHANGED <<vault, disk, pool, install, sqlVars, opt, exit, tempUsed>>

\* rmdirRecurse, one file at a time.
WipeFile ==
    /\ pc = "wipe"
    /\ \/ \E c \in Present(backup) :
            /\ backup' = [backup EXCEPT ![c] = NoFile]
            /\ UNCHANGED <<staged, sqlBackup>>
       \/ \E c \in Present(staged) :
            /\ staged' = [staged EXCEPT ![c] = NoFile]
            /\ UNCHANGED <<backup, sqlBackup>>
       \/ \E r \in Rows :
            /\ sqlBackup[r] # NoItem
            /\ sqlBackup' = [sqlBackup EXCEPT ![r] = NoItem]
            /\ UNCHANGED <<backup, staged>>
    /\ UNCHANGED <<vault, pool, install, db, sqlMemory, control, tempUsed, history>>

MakeTemp ==
    /\ pc = "wipe"
    /\ Present(backup) = {} /\ Present(staged) = {} /\ sqlBackup = Nothing
    /\ tempUsed' = FALSE
    /\ Enter(opt)
    /\ UNCHANGED <<vault, disk, install, sqlVars, opt, exit, history>>

-----------------------------------------------------------------------------
(* The two update phases *)

\* The first backup of the run makes backup_vault.
VaultStep ==
    /\ pc = "vault"
    /\ \E w \in Workers : PoolStep(w, opt.dry)
    /\ tempUsed' = (tempUsed \/ Present(backup') # {})
    /\ UNCHANGED <<sqlVars, control, history>>

VaultDone ==
    /\ pc = "vault" /\ PoolReturns
    /\ pc' = IF opt.sql THEN "sql" ELSE "prompt"
    /\ UNCHANGED <<vault, disk, pool, install, sqlVars, opt, exit, tempUsed,
                   history>>

VaultFails ==
    /\ pc = "vault" /\ PoolRethrows
    /\ Ends("error")
    /\ UNCHANGED <<vault, disk, db, sqlBackup, tempUsed, history>>

\* Every target makes its directory under temp/sql, in a dry run too.
SqlPhaseStep ==
    /\ pc = "sql"
    /\ SqlStep(opt.dry)
    /\ tempUsed' = (tempUsed \/ cursor' # 0)
    /\ UNCHANGED <<vault, disk, pool, install, control, history>>

SqlDone ==
    /\ pc = "sql" /\ TargetsDone
    /\ pc' = "prompt"
    /\ UNCHANGED <<vault, disk, pool, install, sqlVars, opt, exit, tempUsed,
                   history>>

SqlFails ==
    /\ pc = "sql"
    /\ \/ UpdateRowThrows
       \/ RowThrows /\ UNCHANGED <<db, sqlBackup>>
    /\ Ends("error")
    /\ UNCHANGED <<vault, disk, tempUsed, history>>

-----------------------------------------------------------------------------
(* The answer *)

\* Mutant: the answer of a dry run counts.
AnswerYes_dry ==
    /\ pc = "prompt"
    /\ IF opt.vault
       THEN CanInstall /\ pc' = "install" /\ InstallStart
       ELSE pc' = "commit" /\ UNCHANGED install
    /\ UNCHANGED <<vault, disk, pool, sqlVars, opt, exit, tempUsed, history>>

\* 'y', typed or implied by --yes.
AnswerYes ==
    /\ pc = "prompt" /\ ~opt.dry
    /\ IF opt.vault
       THEN CanInstall /\ pc' = "install" /\ InstallStart
       ELSE pc' = "commit" /\ UNCHANGED install
    /\ UNCHANGED <<vault, disk, pool, sqlVars, opt, exit, tempUsed, history>>

\* 'y' when no character was staged: isDir(temp/updated_vault) throws.
AnswerYesThrows ==
    /\ pc = "prompt" /\ ~opt.dry
    /\ opt.vault /\ ~CanInstall
    /\ Ends("error")
    /\ UNCHANGED <<vault, disk, db, sqlBackup, tempUsed, history>>

\* 'n', which --yes never gives.
AnswerNo ==
    /\ pc = "prompt" /\ ~opt.dry /\ ~opt.yes
    /\ IF opt.sql
       THEN pc' = "rollback" /\ UNCHANGED <<opt, exit, pool, install, sqlMemory>>
       ELSE Ends("left")
    /\ UNCHANGED <<vault, disk, db, sqlBackup, tempUsed, history>>

\* A dry run ends the same way whatever the answer.
AnswerDry ==
    /\ pc = "prompt" /\ opt.dry
    /\ Ends("left")
    /\ UNCHANGED <<vault, disk, db, sqlBackup, tempUsed, history>>

InstallStep ==
    /\ pc = "install"
    /\ CopyEnd \/ \E c \in toCopy : CopyBegin(c)
    /\ UNCHANGED <<sqlVars, control, tempUsed, history>>

InstallDoneStep ==
    /\ pc = "install" /\ InstallDone
    /\ IF opt.sql
       THEN pc' = "commit" /\ UNCHANGED <<opt, exit, pool, install, sqlMemory>>
       ELSE Ends("applied")
    /\ UNCHANGED <<vault, disk, db, sqlBackup, tempUsed, history>>

\* A copy into the vault throws.
InstallThrows ==
    /\ pc = "install" /\ ~InstallDone
    /\ Ends("error")
    /\ UNCHANGED <<vault, disk, db, sqlBackup, tempUsed, history>>

Commit ==
    /\ pc = "commit"
    /\ IF opt.sql THEN ExecCommit ELSE UNCHANGED db
    /\ Ends("applied")
    /\ UNCHANGED <<vault, disk, sqlBackup, tempUsed, history>>

Rollback ==
    /\ pc = "rollback"
    /\ ExecRollback
    /\ Ends("left")
    /\ UNCHANGED <<vault, disk, sqlBackup, tempUsed, history>>

\* The process is killed, or the machine stops.  The server drops what no
\* connection committed.
Killed ==
    /\ pc # "off"
    /\ Ends("killed")
    /\ UNCHANGED <<vault, disk, db, sqlBackup, tempUsed, history>>

-----------------------------------------------------------------------------
(* The game server: saves, creates or deletes a character, writes a row.  A
   save is not atomic: it leaves the file Torn half way, and its end is another
   step.  What it and an installation of the same file leave together is a file
   the server has half written after it. *)

ServerUp == pc = "off" \/ Online

ServerSavesChar(c, f) ==
    /\ ServerUp
    /\ vault' = [vault EXCEPT ![c] = f]
    /\ pre' = [pre EXCEPT ![c] = f]
    /\ touched' = IF pc = "off" THEN touched ELSE touched \union {c}
    /\ UNCHANGED <<disk, pool, install, sqlVars, control, tempUsed>>

ServerWritesRow(r, i) ==
    /\ ServerUp
    /\ db' = [db EXCEPT ![r] = i]
    /\ UNCHANGED <<vault, disk, pool, install, sqlBackup, sqlMemory, control,
                   tempUsed, history>>

Server ==
    \/ \E c \in Chars, f \in Path : ServerSavesChar(c, f)
    \/ \E r \in Rows, i \in Items \union {NoItem} : ServerWritesRow(r, i)

-----------------------------------------------------------------------------
Tool ==
    \/ KeepTemp \/ DeleteTemp \/ WipeFile \/ MakeTemp
    \/ VaultStep \/ VaultDone \/ VaultFails
    \/ SqlPhaseStep \/ SqlDone \/ SqlFails
    \/ AnswerYes \/ AnswerYesThrows \/ AnswerNo \/ AnswerDry
    \/ InstallStep \/ InstallDoneStep \/ InstallThrows
    \/ Commit \/ Rollback

Next ==
    \/ \E o \in Options : Start(o)
    \/ Tool
    \/ Killed
    \/ Server

\* A started process runs, and its user answers; nobody need start one.
Fairness == WF_vars(Tool)
Spec == Init /\ [][Next]_vars /\ Fairness

-----------------------------------------------------------------------------
(* Properties *)

\* A character the tool changed since the temp directory was last given up has
\* its previous content, whole, under backup_vault: whatever killed or failed
\* the run, in the foreach, in the middle of the installation or before it
\* (README.md:9, app.d:301-306 before 447-472).  Not after a dry run, nor for a
\* character the server saved while the tool was running.
Recoverable ==
    \A c \in Chars \ touched : vault[c] # pre[c] => backup[c] = pre[c]

\* Why: until the installation the vault is as it was when the temp directory
\* was given up, whatever is staged has its backup, and only staged characters
\* are installed.
RecoverableInv ==
    /\ pc \in {"wipe", "vault", "sql", "prompt", "rollback"} => vault = pre
    /\ pc = "vault" =>
        /\ Claims
        /\ \A w \in Workers :
            stage[w] \in {"backed", "staging"} /\ hand[w] \notin touched =>
                backup[hand[w]] = pre[hand[w]]
    /\ pc \in {"vault", "sql", "prompt", "install"} =>
        \A c \in Present(staged) \ touched : backup[c] = pre[c]
    /\ pc = "install" =>
        /\ toCopy \subseteq Present(staged)
        /\ copying # Idle => copying \in Present(staged)
        /\ \A c \in Chars : vault[c] # pre[c] => c \in Present(staged)
    /\ Recoverable

\* The vault a run means to leave behind.
Wanted(f) ==
    IF f \in Content /\ Update[f] \in Content THEN Update[f] ELSE f

\* A run that ends applied has updated the whole vault, but for what the server
\* saved under it: every character was readable, every targeted one holds its
\* update and no other one changed.
AppliedMeansUpdated ==
    [][ (exit # "applied" /\ exit' = "applied" /\ opt.vault) =>
        \A c \in Chars \ touched :
            /\ pre[c] # NoFile => pre[c] \in Content /\ Update[pre[c]] # Fail
            /\ vault'[c] = Wanted(pre[c]) ]_vars

\* While files are installed, players connected or not, each one that is going
\* to be overwritten gets a whole file and has a backup; and unless the server
\* saved that character under the tool, the backup is what the update was made
\* from.  The file is read once for the update (app.d:298) and again for the
\* backup (app.d:306), by workers that run side by side.
StagedHasBackup ==
    pc = "install" =>
        \A c \in Present(staged) :
            /\ staged[c] \in Content /\ backup[c] # NoFile
            /\ c \notin touched =>
                backup[c] = pre[c] /\ staged[c] = Update[pre[c]]

\* A dry run writes no character and no row: only the game server does.
DryRunKeepsPlayerData ==
    [][ pc # "off" /\ opt.dry => UNCHANGED <<vault, db>> \/ Server ]_vars

\* No connection of the pool ever has a write to commit: the updates go to a
\* connection with autocommit on, so the final COMMIT and ROLLBACK decide
\* nothing (app.d:336, 354, 406, 476, 489).
NothingPending ==
    \A i \in 1..Len(conns) : conns[i].pending = Nothing

\* The original of a row is on disk, whole, before its UPDATE is sent.
RowBackedUp == rowStage = "update" => sqlBackup[row] = snapshot[row]

\* A real run gets to the prompt past a row that had something to update only if
\* the server finds some key of that table equal to an item: otherwise the
\* UPDATE hits nothing and enforce(affectedRows == 1) ends the run
\* (app.d:401-408).
PromptMeansAllHit ==
    (pc = "prompt" /\ opt.sql /\ ~opt.dry) =>
        \A r \in Rows :
            \/ snapshot[r] = NoItem
            \/ UpdateItem[snapshot[r]] \in {NoUpdate, snapshot[r]}
            \/ \E k \in CoercedKeys : TableOf[k] = TableOf[r]

\* README.md:8: "Nothing is effective until you confirm".  The UPDATEs run on a
\* connection of their own, with autocommit on.
NothingEffectiveUntilConfirm ==
    [][ pc \notin {"off", "install", "commit"} => UNCHANGED <<vault, db>> ]_vars

\* Whatever throws, a run ends: every worker drains, and the exception is
\* rethrown.
RunEnds == pc # "off" ~> pc = "off"
=============================================================================
