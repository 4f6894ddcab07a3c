---------------------------- MODULE VaultUpdate ----------------------------
(***************************************************************************)
(* The servervault half of nwn2-itemupdater: the parallel foreach over the *)
(* character files (itemupdater/source/app.d:210-329) and the copy of the  *)
(* updated files into the vault once the user said 'y' (app.d:447-472).    *)
(*                                                                         *)
(* A character file is one value of Content.  What updateInventory does to *)
(* it is the constant function Update; the algorithm itself is modelled in *)
(* a module of its own.  A file that is being written, or that a crash or  *)
(* an I/O error left half written, holds Torn.                             *)
(*                                                                         *)
(* The actions below are those of the phase alone; ItemUpdater says when   *)
(* they may be taken.                                                      *)
(***************************************************************************)
EXTENDS Integers, FiniteSets

CONSTANTS
    Chars,      \* paths of .bic files, relative to the vault
    Content,    \* what a readable character file can hold
    Update,     \* what updateInventory makes of a content
    NoMatch,    \* Update's answer when no item of the character is targeted
    Fail,       \* Update's answer when updateItem throws
    Torn,       \* a partly written file
    NoFile,     \* no file at that path (also: no value in a worker's buffer)
    Workers,    \* the TaskPool's threads and the main thread
    BatchSize,  \* work unit size of TaskPool.parallel
    Idle        \* no character in hand

ASSUME VaultConstants ==
    /\ Update \in [Content -> Content \union {NoMatch, Fail}]
    /\ NoMatch \notin Content /\ Fail \notin Content /\ NoMatch # Fail
    /\ Torn \notin Content /\ NoFile \notin Content /\ Torn # NoFile
    /\ Idle \notin Chars
    /\ BatchSize \in Nat \ {0}

VARIABLES
    vault,      \* the servervault directory
    backup,     \* $TEMP/backup_vault
    staged,     \* $TEMP/updated_vault
    queue,      \* characters the parallel foreach has not handed out yet
    batch,      \* rest of the work unit each worker took
    hand,       \* the character each worker is processing
    stage,      \* how far it got with it
    buffer,     \* its updated content, in memory
    failed,     \* some unit threw: no new unit is handed out
    toCopy,     \* staged files copyRecurse has still to copy
    copying     \* the one it is copying

disk == <<backup, staged>>
pool == <<queue, batch, hand, stage, buffer, failed>>
install == <<toCopy, copying>>

File == Content \union {Torn}
Path == File \union {NoFile}

\* "read": nothing in hand, the next character of the batch is read next.
Stages == {"read", "matched", "backing", "backed", "staging", "dead"}

VaultTypeOK ==
    /\ vault \in [Chars -> Path]
    /\ backup \in [Chars -> Path]
    /\ staged \in [Chars -> Path]
    /\ queue \in SUBSET Chars
    /\ batch \in [Workers -> SUBSET Chars]
    /\ hand \in [Workers -> Chars \union {Idle}]
    /\ stage \in [Workers -> Stages]
    /\ buffer \in [Workers -> Content \union {NoFile}]
    /\ failed \in BOOLEAN
    /\ toCopy \in SUBSET Chars
    /\ copying \in Chars \union {Idle}

Present(dir) == {c \in Chars : dir[c] # NoFile}

\* The memory of a process that is not in the foreach nor in copyRecurse.
PoolAtRest(q) ==
    /\ queue' = q
    /\ batch' = [w \in Workers |-> {}]
    /\ hand' = [w \in Workers |-> Idle]
    /\ stage' = [w \in Workers |-> "read"]
    /\ buffer' = [w \in Workers |-> NoFile]
    /\ failed' = FALSE

InstallAtRest == toCopy' = {} /\ copying' = Idle

VaultInit ==
    /\ vault \in [Chars -> File]
    /\ backup = [c \in Chars |-> NoFile]
    /\ staged = [c \in Chars |-> NoFile]
    /\ queue = {}
    /\ batch = [w \in Workers |-> {}]
    /\ hand = [w \in Workers |-> Idle]
    /\ stage = [w \in Workers |-> "read"]
    /\ buffer = [w \in Workers |-> NoFile]
    /\ failed = FALSE
    /\ toCopy = {}
    /\ copying = Idle

-----------------------------------------------------------------------------
(* The parallel foreach *)

Busy(w) == stage[w] # "dead" /\ (batch[w] # {} \/ hand[w] # Idle)

\* Mutant: the range is not advanced, two workers get the same characters.
TakeBatch_again(w) ==
    /\ ~failed /\ ~Busy(w)
    /\ queue # {}
    /\ \E b \in SUBSET queue :
        /\ b # {} /\ Cardinality(b) <= BatchSize
        /\ batch' = [batch EXCEPT ![w] = b]
    /\ UNCHANGED <<vault, disk, queue, hand, stage, buffer, failed, install>>

\* A worker takes the next work unit off the range, unless a unit threw.
TakeBatch(w) ==
    /\ ~failed /\ ~Busy(w)
    /\ queue # {}
    /\ \E b \in SUBSET queue :
        /\ b # {} /\ Cardinality(b) <= BatchSize
        /\ Cardinality(b) = BatchSize \/ b = queue
        /\ batch' = [batch EXCEPT ![w] = b]
        /\ queue' = queue \ b
    /\ UNCHANGED <<vault, disk, hand, stage, buffer, failed, install>>

Readable(c) == vault[c] \in Content /\ Update[vault[c]] # Fail

\* Mutants: charUpdated not tested; the backup forgotten.
ReadChar_always(w, c) ==
    /\ stage[w] = "read" /\ c \in batch[w] /\ Readable(c)
    /\ batch' = [batch EXCEPT ![w] = @ \ {c}]
    /\ hand' = [hand EXCEPT ![w] = c]
    /\ stage' = [stage EXCEPT ![w] = "matched"]
    /\ buffer' = [buffer EXCEPT ![w] = Update[vault[c]]]
    /\ UNCHANGED <<vault, disk, queue, failed, install>>
ReadChar_noBackup(w, c) ==
    /\ stage[w] = "read" /\ c \in batch[w] /\ Readable(c)
    /\ Update[vault[c]] # NoMatch
    /\ batch' = [batch EXCEPT ![w] = @ \ {c}]
    /\ hand' = [hand EXCEPT ![w] = c]
    /\ stage' = [stage EXCEPT ![w] = "backed"]
    /\ buffer' = [buffer EXCEPT ![w] = Update[vault[c]]]
    /\ UNCHANGED <<vault, disk, queue, failed, install>>

\* new Gff(charFile.read) and updateInventory: charUpdated decides whether
\* the character stays in hand.
ReadChar(w, c) ==
    /\ stage[w] = "read" /\ c \in batch[w] /\ Readable(c)
    /\ batch' = [batch EXCEPT ![w] = @ \ {c}]
    /\ IF Update[vault[c]] = NoMatch
       THEN UNCHANGED <<hand, stage, buffer>>
       ELSE /\ hand' = [hand EXCEPT ![w] = c]
            /\ stage' = [stage EXCEPT ![w] = "matched"]
            /\ buffer' = [buffer EXCEPT ![w] = Update[vault[c]]]
    /\ UNCHANGED <<vault, disk, queue, failed, install>>

\* charFile.copy(backupFile), whatever dryRun says: the character is opened,
\* the old backup truncated ...
BackupBegin(w) ==
    /\ stage[w] = "matched" /\ vault[hand[w]] # NoFile
    /\ stage' = [stage EXCEPT ![w] = "backing"]
    /\ backup' = [backup EXCEPT ![hand[w]] = Torn]
    /\ UNCHANGED <<vault, staged, queue, batch, hand, buffer, failed, install>>

PutDown(w) ==
    /\ hand' = [hand EXCEPT ![w] = Idle]
    /\ stage' = [stage EXCEPT ![w] = "read"]
    /\ buffer' = [buffer EXCEPT ![w] = NoFile]

\* Mutant: the backup is written from the updated character.
BackupEnd_updated(w, dry) ==
    /\ stage[w] = "backing" /\ vault[hand[w]] # NoFile
    /\ backup' = [backup EXCEPT ![hand[w]] = buffer[w]]
    /\ stage' = [stage EXCEPT ![w] = "backed"]
    /\ UNCHANGED <<vault, staged, queue, batch, hand, buffer, failed, install>>

\* ... and it then holds the bytes the vault holds now, which need be neither
\* what was read nor whole.  A copy that a save of the server overlaps has some
\* of either: it is a copy made while that save is half done.
BackupEnd(w, dry) ==
    /\ stage[w] = "backing" /\ vault[hand[w]] # NoFile
    /\ backup' = [backup EXCEPT ![hand[w]] = vault[hand[w]]]
    /\ IF dry
       THEN PutDown(w)
       ELSE /\ stage' = [stage EXCEPT ![w] = "backed"]
            /\ UNCHANGED <<hand, buffer>>
    /\ UNCHANGED <<vault, staged, queue, batch, failed, install>>

StageBegin(w) ==
    /\ stage[w] = "backed"
    /\ stage' = [stage EXCEPT ![w] = "staging"]
    /\ staged' = [staged EXCEPT ![hand[w]] = Torn]
    /\ UNCHANGED <<vault, backup, queue, batch, hand, buffer, failed, install>>

StageEnd(w) ==
    /\ stage[w] = "staging"
    /\ staged' = [staged EXCEPT ![hand[w]] = buffer[w]]
    /\ PutDown(w)
    /\ UNCHANGED <<vault, backup, queue, batch, failed, install>>

\* The body throws: a file that does not parse, a blueprint updateItem refuses,
\* any I/O error.  The rest of the work unit is dropped and the other workers
\* stop after theirs.
UnitThrows(w) ==
    /\ Busy(w)
    /\ batch' = [batch EXCEPT ![w] = {}]
    /\ stage' = [stage EXCEPT ![w] = "dead"]
    /\ failed' = TRUE
    /\ UNCHANGED <<vault, disk, queue, hand, buffer, install>>

PoolStep(w, dry) ==
    \/ TakeBatch(w)
    \/ \E c \in batch[w] : ReadChar(w, c)
    \/ BackupBegin(w)
    \/ BackupEnd(w, dry)
    \/ StageBegin(w)
    \/ StageEnd(w)
    \/ UnitThrows(w)

\* Mutants: what a unit threw is lost; a worker that threw is waited for.
PoolReturns_anyway == (\A w \in Workers : ~Busy(w)) /\ (failed \/ queue = {})
PoolIdle_waits == \A w \in Workers : stage[w] = "read" /\ ~Busy(w)

\* The foreach returns, or rethrows what a unit threw.
PoolIdle == \A w \in Workers : ~Busy(w)
PoolReturns == PoolIdle /\ ~failed /\ queue = {}
PoolRethrows == PoolIdle /\ failed

\* A worker with a matched character in hand.
Holds(w) == stage[w] \in {"matched", "backing", "backed", "staging"}

HandsFull == \A w \in Workers : Holds(w) => hand[w] # Idle /\ buffer[w] # NoFile

\* What the workers hold, and what they have done with it: each character is in
\* one place only, and nothing is staged for it before a worker stages it.
Claims ==
    /\ \A w \in Workers :
        /\ batch[w] \intersect queue = {}
        /\ hand[w] \notin queue
        /\ hand[w] # Idle => hand[w] \notin batch[w]
        /\ \A c \in batch[w] : staged[c] = NoFile
        /\ stage[w] \in {"matched", "backing", "backed"} =>
            staged[hand[w]] = NoFile
    /\ \A w, v \in Workers :
        w # v => /\ batch[w] \intersect batch[v] = {}
                 /\ hand[w] \notin batch[v]
                 /\ hand[w] # Idle => hand[w] # hand[v]
    /\ \A c \in queue : staged[c] = NoFile

-----------------------------------------------------------------------------
(* copyRecurse(temp/updated_vault, vault) *)

\* updated_vault exists only if some character was staged; isDir throws
\* otherwise.
CanInstall == Present(staged) # {}

InstallStart ==
    /\ toCopy' = Present(staged)
    /\ copying' = Idle

CopyBegin(c) ==
    /\ copying = Idle /\ c \in toCopy
    /\ vault' = [vault EXCEPT ![c] = Torn]
    /\ copying' = c
    /\ UNCHANGED <<disk, pool, toCopy>>

CopyEnd ==
    /\ copying # Idle
    /\ vault' = [vault EXCEPT ![copying] = staged[copying]]
    /\ toCopy' = toCopy \ {copying}
    /\ copying' = Idle
    /\ UNCHANGED <<disk, pool>>

InstallDone == toCopy = {} /\ copying = Idle
=============================================================================
