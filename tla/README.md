# nwn2-tools in TLA+

nwn2-tools is a set of command line programs for Neverwinter Nights 2 server
administrators. Each program is a process that runs once over shared data (a
directory of character files, a MySQL database, a game directory, a web
directory) which other programs own too, and which another run of the same
program finds in whatever state the last one left it. The interesting behaviour
is therefore not inside one run only: it is in what a run leaves behind when it
fails or is killed, in the order in which several files change, in what its
threads do to each other, and in what the next run believes.

## The system's parts

| part | state it keeps | operations | what is hard |
|---|---|---|---|
| **itemupdater**, servervault (`itemupdater/source/app.d`) | the vault, the temp directory (`backup_vault`, `updated_vault`), the process | clear temp, parallel update, prompt, install | kills, partial failure, threads, stale backups |
| **itemupdater**, SQL | rows, `temp/sql`, the connection pool and its transactions | select, back up, update, commit / rollback | which connection carries the transaction; statements that fail half way |
| **itemupdater**, `updateItem` / `updateInventory` | the items of a character | merge blueprint and instance, unequip | variable and property policies, limit of 128 items |
| **moduleinstaller** | installed directories, version file, git clone | full install, incremental install | crash between the files and the version file; order and case of paths |
| **stagingtool** | XML resource list, `.lzma` files | hash, compress, list | incremental dates, threads on equal names, crash |
| **LZMA SDK** in stagingtool (`stagingtool/lzma`) | the window, the match tables and two rings of blocks; the range coder | compress one resource, `lzma_main`, in three threads; the decoder the client is built from | the threads' hand over, a window that moves under them, carries, input cut anywhere |
| **camtosql** migration | SQL tables | read FoxPro databases, emit SQL | identity of players, encoding of names |
| **camtosql** campaign library (NWScript) | the same tables | Set / Get / Delete / Store / Retrieve / Pack / Destroy | one table for all campaigns, agreement with the migration |
| **camtosql** script upgrade | scripts on disk | insert an include, rename calls | threads, where the include goes |
| adjust-item-prices, bictoutc, update-module-arealist | one file at a time | convert | little |

The programs do not call each other. They meet in data: the game server writes
the vault and the rows that itemupdater updates; the migration writes the tables
the campaign library reads; git writes the clone moduleinstaller copies from.

What makes each part correct:

- itemupdater: what it changed can be restored; a run that says it is done has
  updated everything; before the confirmation nothing is effective.
- moduleinstaller: after a run the installed files are those of the commit the
  version file names.
- stagingtool: every listed resource has the hash and the `.lzma` of the file on
  disk, in an incremental run too.
- LZMA SDK: whatever the threads' order, the compressor is offered the matches that
  are there and ends; what it writes decodes to what it read.
- camtosql: a variable set under the old database is read back by the library
  for the same player and campaign, and by no other.

## Modules

| module | models |
|---|---|
| `VaultUpdate` | the parallel foreach over the character files and the copy of the staged files into the vault (`app.d:210-329`, `447-472`) |
| `SqlUpdate` | the loop over the SQL targets (`app.d:333-420`), on MySQL's transactions and mysql-native's connection pool |
| `ItemUpdater` | `main` (`app.d:30-493`): extends both, adds the command line, the temp directory, the prompt, kills, and the game server |
| `ItemUpdaterProofs` | the theorems about `ItemUpdater`: what is backed up; what a run has done when it asks and when it ends |
| `ItemBlueprint` | `updateItem` and `updateInventory` (`app.d:226-296`, `497-606`) as operators, on the items of one character |
| `ItemBlueprintProofs` | the theorems about `ItemBlueprint`, and what its two loops compute |
| `InstalledCopy` | what moduleinstaller promises: an abstract copy that is whole and untouched while it is named by a commit |
| `ModuleInstaller` | moduleinstaller (`moduleinstaller/source/app.d`), which implements `InstalledCopy` |
| `ModuleInstallerProofs` | the theorems about `ModuleInstaller` |
| `StagingTool` | stagingtool (`stagingtool/source/app.d`): one run, its threads, what the next run believes |
| `StagingToolProofs` | the theorems about `StagingTool` |
| `MtSync` | the two rings of blocks between the threads of the compressor: semaphores, locks, start, stop and end of a thread (`LzFindMt.c:83-278`) |
| `MatchFinderMt` | the hash thread and the binary tree thread over the window (`LzFindMt.c:440-786`, `LzFind.c`); extends `MtSync` |
| `LzmaEncMt` | the encoder's thread, from the creation of the others to their end, with the short matches it finds itself; extends `MatchFinderMt` |
| `MatchFinderProofs` | the theorems about `LzmaEncMt`: where the threads are, who has which block of a ring, what they keep of the window, the tables and the blocks |
| `MatchDataProofs` | the theorems about `LzmaEncMt`: what goes through the rings, from the bytes of the file to the matches offered |
| `LzmaCoding` | what encoder and decoder define alike: widths, probabilities, tree sizes |
| `LzmaEncoder` | `LzmaEnc_CodeOneBlock` and the range encoder |
| `LzmaDecoder` | `LzmaDec.c` under the loop of `LzmaUtil.c` |
| `LzmaFile` | a `.lzma` file: `LzmaEncoder`, then `LzmaDecoder` on what was written |
| `LzmaFileProofs` | the theorems about `LzmaFile`: the widths of the registers, and how far the decoder reads |
| `CampaignVars` | what a campaign database is to a script: a map, abstractly |
| `CampaignDb` | the script library (`library_tpl.nss`) and the migration (`camtosql/source/app.d`) on the same MySQL tables; implements `CampaignVars` |
| `CampaignDbProofs` | the theorems about `CampaignDb` |
| `MC...` | the constants of the instances TLC checks |

### From the code to VaultUpdate

- `vault`, `backup`, `staged` are the directories: a function from path to
  content, `NoFile` where there is none, `Torn` where a write has begun and not
  ended. A copy is two actions, `...Begin` (the target is truncated) and
  `...End`, so that a kill or an error between them leaves the torn file there.
- `TaskPool.parallel` over the lazy directory listing hands work units of
  `BatchSize` files (512 in the library) to `parallelJobs` threads. A body that
  throws drops the rest of its own unit, lets the other units end, and is
  rethrown (`UnitThrows`, `PoolRethrows`). This is the library's behaviour, and
  is marked external in the map.
- What a character becomes is the constant function `Update`: an update, `NoMatch`
  when nothing in its inventory is targeted, `Fail` when `updateItem` throws.
- The backup is a second read of the vault (`charFile.copy`), not the bytes that
  were parsed: `BackupEnd` copies what the vault holds at that moment, a half-saved
  character included.

### From the code to SqlUpdate

- A connection is its autocommit flag and the writes it has pending.
  `lockConnection` is `FirstFree`: the first connection nobody holds, or a new
  one. Connections locked for one statement are free again after it; only
  `conn` (`app.d:354`) is held, through the loop body, as `cursor`.
- `snapshot` is what the cursor's transaction sees. With autocommit off it is
  opened by the first SELECT and kept for the next target.
- `Hit` is what the UPDATE's WHERE selects. The code binds the new item where the
  key belongs (`app.d:403-404`), so it selects the rows whose key the server
  finds equal to those bytes: the constant `CoercedKeys` (MySQL compares a number
  with such a string as 0), usually empty.

### From the code to ItemUpdater

- `pc` is where `main` is. `Ends(how)` is the end of the process, by a return, an
  exception or a kill: what is in memory goes, connections included, and with
  them what was not committed; files and committed rows stay.
- Errors in the command line or the blueprints (`app.d:48-182`) end the process
  before it changed anything and are left out. `opt` keeps the four options that
  decide control: dry run, yes, vault, sql.
- `tempUsed` says whether the temp directory has an entry, which decides the
  question at `app.d:194`. An empty and a missing directory behave alike.
- `pre` is a history variable: the content of each character when the temp
  directory was last given up (the user typed `d`, passed `-y`, or there was
  nothing in it), or what the game server wrote since. `touched` is another: the
  characters the server wrote while a run was under way, since then.
- `Server` is the game server. `Online` says whether it may write while the tool
  runs; README.md:12 of itemupdater asks that players be disconnected. Its save is
  not atomic either: it may leave the file `Torn` and complete it later, and the
  tool may read, back up or overwrite the file in between.

### From the code to ItemBlueprint

- A character is `inventory` (ItemList) and `worn` (Equip_ItemList), both
  sequences: the order decides who is unequipped when the inventory fills up.
- An item keeps what `updateItem` tells apart: the id of its struct, by which
  `updateInventory` removes it (`obj` stands for all that is kept of the instance),
  its properties, its variables in order, its contents. Properties are a function
  from a few names to values; `Fixed` stands for what is set whatever the
  blueprint says (Cost, the fields of PropertiesList).
- The loop over the VarTable is a recursive function over its positions in
  `MergedVars`; its step, `MergeVar`, looks names up in the list it is building, as the
  code does. The two loops over Equip_ItemList are recursive functions too.
- What the game can have saved (`Characters`) has at most `MaxItems` items in the
  inventory, one item in a slot (the code removes worn items by the id of the slot's
  struct, `app.d:287`) and each thing in one place.
- `UpdateCharacter` is one action: the file is in memory meanwhile. Its result and
  its refusal are what `VaultUpdate` calls `Update` and `Fail`. What the game does
  between two updates (wear, take off, put in a bag, set a variable) is external.

### From the code to ModuleInstaller

- `installed` is what is at each destination, `dirs` the output directories that
  exist, `version` the version file: absent, empty, or a commit.
- The full installation lists the clone's directory without its subdirectories, and
  asks `fileDestination` where a subdirectory goes (`app.d:161-168`). What it strips
  (a name that begins with a dot or ends in an extension it strips) is left out in
  silence: `Hidden`, the files under it. Another one makes the copy throw: `Nested` has
  both kinds, and a run ends there if one of the others is present (`NoSubdirectory`).
  `Fits` says that installed files are those of a tree, with or without the hidden ones.
- `rmdirRecurse`, each copy, and the write of the version file take several
  actions, and the process may die between any two (`Dies`, also an exception).
- `Dest` is `fileDestination`. Destinations are lower case names without their
  directory, so two paths may share one; `DistinctDestinations` says they do not.
- `Diffs` is empty when git does not know the installed commit: its error message
  has no line that looks like a diff, and the run goes on.
- `trust` is a history variable: true from a full installation of a commit's own
  files, until a run is killed at work, takes files that were edited, or cannot
  diff.

### From the code to StagingTool

- A content stands for its hash. `lzma` maps the name of a compressed file to the
  content it decompresses to, `Torn` while the compressor writes it.
- A file of the parallel foreach goes through `HashFile`, then `Keep` or
  `CompressBegin` and `CompressEnd`, then `List`; or it is skipped (`Skip`) as too
  old. At most `Threads` are under way. The resource is read twice, to be hashed
  (`app.d:286`) and to be compressed, and a write may come in between.
- `WriteBegin` takes the date (`stamp`, `app.d:249`) and truncates the XML, `WriteEnd`
  completes it. A torn XML stops every later run until someone deletes it.
- Time is a clock of `MaxTime` seconds at most, since gen-date is in seconds; a
  modification sets `mtime` to it.
- The foreach runs in the pool's threads and in the one that called it: `-j N`
  (`app.d:193`) makes `Threads` N + 1.
- History: `seen` is the set of files nobody modified since the last run started,
  `done` says that this run ended well, `trust` that no run was killed since there
  was no list.

### From the code to MtSync, MatchFinderMt and LzmaEncMt

stagingtool's makefile passes `-D_7ZIP_ST`, but this version of the SDK reads `Z7_ST`,
and the compatibility `#ifdef` (`7zTypes.h:591`) is within a comment: what is built is
the encoder with threads. Each call of `lzma_main` makes two, so that a compression is
three, `lz` (the encoder), `bt` and `hash`, joined by two rings.

- `pc[t]` is where a thread is. A semaphore is its count, an event a Boolean, a
  critical section who holds it; `csWasEntered` is the flag of `LOCK_BUFFER`, and
  `aborted` the `exit(1)` of its assertions, which are compiled in.
- An action ends where another thread can see what was done: at each wait, lock,
  release and set. Work between two of them (filling a block, a chunk of matches) is
  one action, since what it touches is the thread's own; `NoRace` checks that it is.
- `base` is how many bytes the window has dropped; the three threads' pointers are
  `mf.buffer`, `bt.buffer` and `lz.buffer`, within the window. `MoveBlock` corrects all.
- Positions wrap at `MaxVal` (the source's `kMtMaxValForNormalize`), and each thread
  renumbers its own: `HashSub`, `BtNormalSub`, `LzNormalize`.
- The tree of `GetMatchesSpecN_2` is taken for its head: a record has the nearest
  place with the same four bytes and how far they match, not the longer ones behind.
- The 3 and 2 byte hashes of the encoder do collide (`H2` is a sum).
- A read may fail at any block, a write at any time, and each thread may be refused.

### From the code to LzmaCoding, LzmaEncoder, LzmaDecoder and LzmaFile

- Every width is a constant: a byte has 3 bits in the checked instance, a register four
  of them, a probability 4. Carries, long runs of held back bytes, every class of
  length and distance (slot alone, slot and tree, direct bits and align) then come up
  in texts of a few bytes.
- A bit is coded with a context, a triple that names the `CLzmaProb`. The encoder and
  the decoder compute contexts each in its own file's way (the reverse trees and the
  matched literals differ most), and share none of it but `LitBase`.
- `Packets` is what GetOptimum may choose: a literal, a match within the dictionary, a
  last distance that still matches. How it chooses is by price and left open, so that
  all ways to encode a text are checked.
- The decoder's actions are the rounds of the loops of `Decode2`, `DecodeToBuf` and
  `DecodeToDic`; a symbol is decoded in one. `Pieces` are the buffers' sizes,
  `RequiredInputMax` the bytes that surely hold a symbol.
- How many these are follows from the sizes of the trees: `RequiredInputCovers` works the
  worst case out bit by bit, as the comment at `LzmaDec.h:48` does by logarithms. For the
  sizes of the C code it comes to 7 bytes for a literal, 12 for a last distance, 18 and 20
  for a match with a near and a far distance, so that `LZMA_REQUIRED_INPUT_MAX`, 20, is
  exact; for those of the checked instance to 12.
- `OneNormalization` is why the code normalizes with `if` and not `while`: no probability
  leaves less of the range than a byte brings back.
- The header has the dictionary's size rounded up to a multiple of 2^20, which is what
  `LzmaEnc.c:3049-3065` does with one that large (`HeaderDict`, `HeaderUnit`; LzmaUtil asks
  for 16 MB), and the decoder takes its buffer from that.
- `input.size` is what the header says: the size the resource had when it was opened
  (`LzmaUtil.c:286`). `lost` bytes at the end of the file never arrive.
- Decode is linked into stagingtool and not called there; it stands for the game's
  client, which downloads the file. An end marker is not modelled: LzmaUtil asks for
  none, and the branches for it (`LzmaDec.c:523`, `1003`) are not reached.

### From the code to CampaignVars and CampaignDb

- `layout` is the choice of `--sql-single-table`. `rows` has all tables; a row is of a
  table, a campaign (in a single table), an owner, a name, a type.
- `madeBy` says which tool made a table: the library's primary key has the type
  (`library_tpl.nss:83`), the migration's has not (`app.d:207`, `241`), and
  `Duplicates` is what ON DUPLICATE KEY meets.
- `inited` are the local variables of the module that say a table was made; a restart
  of the game forgets them.
- `Lower` and `Kept` are the two encodings of a campaign's name: the library lowers
  it, the migration drops upper case letters. The prefix and the single table's name
  are taken to be lower case.
- `StartMigration` reads the vault (`knownIDs`), `MigrateRow` is one row of the
  `.dbf`, and `MigrationFails` is an exception at any of them.
- `CampaignVars` is a map from campaign, owner, name and type to a value or nothing.
  Its steps allow what a table of the migration does: to set a variable of one type
  takes the place of another of the same name.

## What is checked

| run | question | bounds |
|---|---|---|
| `itemupdater_vault` | real runs one after the other, each killed or failing anywhere, while the server saves characters, half or whole | 3 characters, 2 workers, work units of 2, 2 contents, one to update and its update; a torn one is refused |
| `itemupdater_sql` | vault and SQL together, real and dry runs, the server writing all the while; termination | 1 character of one content, 1 worker, 2 targets of one row, 3 items, one coerced key |
| `itemupdater_confirm` | is nothing effective before the confirmation? An UPDATE is | as above, SQL only |
| `item_blueprint` | items updated, moved about and scripted in any order | 5 items, an inventory of 2, 2 slots; a blueprint for a resref, a tag, a bag, one that refuses |
| `module_installer` | full and incremental installations in any order, killed anywhere | 3 commits of 5 files, one stripped, one in a subdirectory, one in a stripped one; one file may be edited |
| `module_installer_case_rename` | is a changed file installed? A renamed one is removed | 2 commits, Foo and foo |
| `staging_tool` | full and incremental runs, killed anywhere, files and `.lzma` changed between them | 2 files with names of their own, 2 threads, 2 contents, 2 times |
| `staging_tool_missed_edit` | does an incremental run notice every modification? It misses one | 1 file, modified while the tool runs |
| `match_finder` | one compression: every order of the three threads, errors of reading and writing, refused threads; termination | a text of 71 symbols, a dictionary of 2, two blocks in each ring |
| `campaign_db` | scripts, restarts of the game and migrations that fail, on the same tables, in both layouts | 3 names of campaigns, 2 characters with one identifier, 6 rows to migrate, 2 migrations, 2 operations of scripts |
| `campaign_store_answer` | is TRUE the answer of a store that stored? Not if it replaces a row | 2 operations of scripts, no migration |
| `lzma_file` | every way to encode a text, decoded from pieces, whole, cut or with another size in the header; termination | texts of up to 50 bytes of 3 bits, 3 sizes of buffers |

The bounds are enough because the actors interact through one character, or one
row, at a time: two workers and three characters give a worker with a rest of a
unit beside one that throws; a second unit of a different size; two rows give an
update that hits another row than its own, and two targets a snapshot kept
across them. The number of runs is not bounded: exploration ends because the
files repeat.

Properties:

- `Recoverable`: a character the tool changed has its previous content, whole,
  in the backup. `RecoverableInv` is the inductive form: the vault is untouched
  until the installation, each character is claimed by at most one worker, what
  is staged is backed up, only staged files are installed.
- `StagedHasBackup`: what is promised with players online: a file about to be
  installed is whole and its character has a backup; and if the server left that
  character alone, the backup is its content and the file the update of it. A
  character saved meanwhile may have a backup that is older, newer or half written:
  that is what README.md:12 is about.
- `AppliedMeansUpdated`: a run that ends applied updated every targeted
  character, changed no other one, and met none it could not read; characters the
  server saved during the run excepted.
- `DryRunKeepsPlayerData`: a dry run writes no character and no row.
- `NothingPending`: no connection ever holds a write to commit, so that the
  answer to the prompt decides nothing for SQL.
- `RowBackedUp`, `PromptMeansAllHit`: the backup of a row precedes its UPDATE; the
  prompt is reached past a row to update only if some key is coerced.
- `RunEnds`: a run that starts ends, whatever throws.

- `NothingLost`, `RoomRespected`, `UpdatedIsUnequipped`: unequipping appends a copy
  and removes the original in another pass, and stops when the inventory is full;
  no item is lost or doubled.
- `VarsByPolicy` is a definition of the merged variables without a loop;
  `UpdateIsStable` says that updateItem is idempotent, so that runs can be repeated.
- `Faithful`: between runs the files are those of the commit the version file
  names, if `trust`, but for hidden ones, which may be missing. `NoFalseAlarm`: the error
  "Previous installation may have gone wrong" is only printed when it has, or about a
  hidden file.
- `CopyPromise`: the installer implements `InstalledCopy`.

- `UpToDate`: after a run the list has the hash each file had when the run started,
  skipped files included, and lists nothing else.
- `Published`: what a player downloads is what its listed hashes say, if no run was
  killed (a partial `.lzma` is kept when the hash is the previous one).
- `SweepSparesPresent`: the removal of old `.lzma` files spares that of every resource
  which is there and was left alone since the run started, whatever else is modified
  meanwhile. So a run killed after its sweep, before its list, has not taken a file
  that the old list rightly offers. The run modifies files between runs, the theorem
  about it (`SweepIsSafe`) also during them.

- `RecordsMatch`: the encoder gets one record for each position of the file, its own,
  with the match that is there, across moves of the window and renumberings. `NoRace`,
  `WindowHolds`: no block is written while it is read, the window does not move under a
  reader, and still has what each thread looks back at. `OffersAreMatches`: what is
  offered to the coder is a match of the file, within the dictionary.
- `OkMeansAll`, `ThreadsGone`: a compression that says it worked has coded the file to
  its end, without an error that another thread met; no thread survives it.
  `EncodeEnds`: it ends.
- `RoundTrip`: what is decoded is the text, and a whole file with the right size in its
  header gives all of it and no error, and between two calls the code is below the
  range, which only what an encoder wrote gives. `NoInternalError`: trying a symbol dry takes the
  bytes that decoding it takes, so the decoder's "unexpected error" is not met.
  `DecodeEnds`: it never calls for ever without progress.
- `SetIsGot`: what a script sets it gets back, whichever tool made the table and with
  either primary key. `EmulatesCampaign`: the library implements `CampaignVars`.
  `MigratedIsRead`: what was migrated is what the library reads.

In `item_blueprint` four kinds of items make every branch of the merge and of the
unequipping reachable, and an inventory of two fills up after one of two worn
items was moved. In `module_installer` the three commits add, change and remove
files in two directories; a kill can leave every mixture of them. In `staging_tool` two times
are what the comparison of a file's date with gen-date tells apart: the same second,
or an earlier one. In `match_finder` the window, the rings and the positions are scaled down
together so that the window moves and every thread renumbers more than once within the
text; the hash thread can then be a whole ring ahead, wait for the other two, or hold the
locks while both want them. In `lzma_file` the three long texts make a match run over the end of the
dictionary, a match that needs two calls, every length tree, and distances of every
class; pieces of one byte cut every symbol. In `campaign_db` two operations and two
migrations give a table made by either tool and then used by both, and a migration run
again after a failure between two writes of a script.

Fairness. In `match_finder`: `WF_vars(ThreadStep)`, that some thread runs while one can; the
operating system promises as much, and no thread is promised its turn before another.
In `lzma_file`: `Running`, the weak fairness of one sequential process. `match_finder` and
`campaign_db` do not check for deadlock, since a compression ends, and so do the
operations their bounds allow; that nobody waits for ever is `EncodeEnds`. In
`itemupdater_sql`: `WF_vars(Tool)`. A started process is scheduled, its threads included,
and its user sooner or later answers the prompt (the loop at `app.d:435` repeats
until he does). Nobody has to start a run, the server need not write, and a
process may always be killed.

### What the checks found

- The UPDATEs are not part of the transaction that is committed at the end:
  `SET autocommit=0` is executed on the connection the loop then keeps locked.
- An incremental installation removes a file whose name changed from lower to upper
  case (`moduleinstaller/source/app.d:203`, `209`).
- gen-date is taken at the end of a run (`stagingtool/source/app.d:249`). A file modified
  after it was hashed and before that is skipped by the incremental runs that follow.
- StoreCampaignObjectSQL is documented to answer TRUE if the object has been stored
  (`library_tpl.nss:336`), and answers FALSE when it replaced another (`362-367`).

Read in the code, and not stated as a property of a run:

- Of two variables of an item with one name and different types, one is lost
  (`itemupdater/source/app.d:557`), where README.md:6 says that variables are kept by default.
- A dry run, which is said not to write any file (`itemupdater/source/app.d:96`),
  overwrites the backups of the last real run (`app.d:302-306`).
- A full installation leaves out the files in a directory whose name it strips, such as
  `.ci`; an incremental run copies those that are added, and of those that are modified or
  removed it says that the previous installation may have gone wrong
  (`moduleinstaller/source/app.d:161-165`, `193`, `203`). The theorems say so: `Hidden`.
- The UPDATE's WHERE is bound to the new item instead of the key (`app.d:403-404`). It
  selects nothing, and `enforce` ends the run; or, where MySQL takes the item for the key
  of another row, that row is overwritten without a backup.
- `--force` of stagingtool reaches the constructor of `Resource` (`app.d:274`), where
  nothing reads it; `-j N` compresses N + 1 files at once.
- The macro that stagingtool's makefile sets to build a single threaded compressor has no
  effect on this version of the SDK.
- The header of a `.lzma` has the size the resource had before it was encoded, and the
  result of closing the output is ignored (`LzmaUtil.c:286`, `297`).
- The library's comments call campaign names case sensitive, and its encoding lowers them;
  a campaign with an upper case letter is migrated to where the library does not read, for
  the migration drops such letters.
- The migration's primary key has no type: of two rows of one name and different types the
  later wins, also when it is a deleted one.
- RetrieveCampaignObjectSQL does not test the campaign (`library_tpl.nss:379-397`), so that in
  a single table it may return the object of another one.

## What is proved

`ItemUpdaterProofs` proves, for every value of the constants that satisfies the
named assumptions of the modules:

- `TypeCorrect`: `TypeOK` is invariant. It is inductive together with `HandsFull`
  (a worker past the match has a character and its update in hand), `SqlClaims`
  (a row being processed came out of the snapshot) and the fact that no cursor
  outlives its process. The pool needs a lemma of its own (`FreeConnection`):
  with one connection locked at most, two suffice.
- `BackupsSuffice`: `Recoverable` is invariant if no run is a dry run (`RealRuns`; the
  dry run described above shows that this is needed), of every character the server did not
  save under a run. `RecoverableInv` is what
  makes it inductive: the heart is `PoolStepClaims`, that a worker's step leaves
  every character claimed by one worker, with its backup complete before
  anything is staged for it.
- `AnswerDecidesNothing`: `NothingPending` is invariant, because the cursor is
  always the first connection of the pool and every other one has autocommit on.

It goes on from `TypeInv`, the inductive invariant of `TypeCorrect`, to what a run has
done when it asks and when it ends:

- `OriginalsAreKept` (`RowBackedUp`) and `DryRunsWriteNothing` (`DryRunKeepsPlayerData`)
  hold whatever the options, answers and errors: `RowInHand` says that a row is in hand
  during the loop of a real run only, and that the phases that write files are real ones.
- `BackupsPrecede`: `RecoverableInv` itself, under `RealRuns`.
- `InstallsWholeFiles`: `StagedHasBackup`, whatever the server saves and in how many steps.
  `StagedInv` says that a character is in one place of the pool, that a worker which
  stages it has ended its backup, and that both are of what it read, unless `touched`.
- `AppliedUpdatesVault`: `AppliedMeansUpdated`. It excepts the characters saved during the run
  (one may be overwritten with an update of its older state).
  `AppliedInv` needs `Accounted`, that the foreach has lost sight of none of the others unless it
  fails: each is queued, in a worker's batch or hand, or settled.
- `PromptNeedsCoercedKeys`: `PromptMeansAllHit`. `HitInv` needs that all of a run's SELECTs
  read one snapshot (`OneSnapshot`), and that each row passed was not one to update or had
  an update that hit.

`ItemBlueprintProofs`, for any character, blueprints, policies, and length of tables and
inventories:

- `RoomIsRespected`: `RoomRespected`, inductive with `Typing` (every item is one the types
  of the module allow, bags hold no bags).
- `PolicyDecides`: `VarsByPolicy`, and `UpdatesAreStable`: `UpdateIsStable`. Both are about
  what the loop over a VarTable computes. `MergeLoop` gives the tables it goes through;
  `MergeExtends` says that a pass only appends to the blueprint's table or replaces
  variables that are kept; `MergeSet` says which variables are there after n passes. For
  the second update of the same item, `RedoneStep` shows that its k-th pass leaves the
  table as it is, because the variable it would write there is there already.
- `ItemsAreKept`: `NothingLost`. An item worn is appended to the inventory and removed from
  the equipment in a second loop, by the id of its struct; it is neither lost nor doubled
  only because no two worn items have one id (`WornApart`, inductive: the game puts on an
  item where nothing is). `UnequipsCounts` and `SweepsCounts` say how often a thing occurs
  after each pass of the two loops, `UpdateMoves` and `MovedAndStaying` that what the first
  appends is what the second leaves out. The moves of the game are counted too, by
  bijections between the positions before and after.
- `UpdatedComesOff`: `UpdatedIsUnequipped`, which needs moreover that each thing is in one
  place (`OnePlace`, from `ItemsAreKept`'s lemmas).

What a loop computes needs induction over its passes. The library's induction theorems
take an operator, which no installed prover instantiates; `Induct` states induction for a
set of naturals instead, from the theorem that a well founded relation has minimal
elements, and `LoopEnds` gets from it the sequence of states of any loop.

`ModuleInstallerProofs` proves, for every repository, history and sequence of runs:

- `TypeCorrect`: `TypeOK`, inductive with `CopyingOne` (one file at a time, from the
  list, in a phase that copies).
- `InstalledIsFaithful` and `AlarmsAreTrue`: `Faithful` and `NoFalseAlarm`, if
  `DistinctDestinations` (the case rename finding shows that it is needed).
  `FaithfulInv` says what each phase has done: wiped directories are empty, files off
  the list are installed or hidden, diffs on it are not applied. Its heart is that no file of
  the list shares its destination with one that is done.
- `InstallerImplementsCopy`: the refinement. Every step gives the abstract copy up
  or completes it; `NamedUntouched` is the lemma it rests on.

`StagingToolProofs`, for any files, dates and sequence of runs, kills and deletions:

- `TypeCorrect`, `SweepIsSafe`: `TypeOK` and `SweepSparesPresent`, without hypotheses.
  `OnItsWay` follows a resource nobody modified through the run: it is queued, in a
  thread, or listed, so that all of them are listed when the sweep looks for what is not.
- `ListIsUpToDate` and `DownloadsAreAsListed`: `UpToDate` and `Published`, if names are
  distinct (`DistinctNames`; two files of one name race for one `.lzma`, `app.d:198`) and
  files are modified between runs only (`Undisturbed`; the missed edit finding shows that
  it is needed). `RightInv` adds that no date is in the future, that an entry of a list is
  right about a file older than the list, and that what a run has hashed and listed so far
  is what the files have. `Downloads` follows one `.lzma` through a run: as it was listed,
  written again, as it is going to be listed.

`CampaignDbProofs`, for any campaigns, characters, encodings of names and migrated rows:

- `TypeCorrect`: `TypeOK`, of which the primary keys are the point; inductive with
  `OwnTables` (a table for a campaign has no other's rows) and `VaultRead`.
- `SetIsRead`: `SetIsGot`; by the primary key what is found for a variable is one row
  (`OneIsFound`), whichever tool made the table.
- `MigrationIsRead`: `MigratedIsRead`. `MigratedInv` says where each variable migrated so
  far went, unless a later one collides with it.
- `LibraryEmulatesGame`: the refinement of `CampaignVars`, by one lemma for each operation;
  the abstract map is a function of the rows (`DbIsOfRows`).

`MatchFinderProofs`, for every file, dictionary, size and number of
blocks that satisfy `FinderParams` and `RingsHaveRoom`, and for every failure:

- `TypeCorrect`: `TypeOK`, so no position passes `MaxVal` between two renumberings and no
  chunk of records is longer than the block it is written to.
- `ThreadsAreGone`: `ThreadsGone`. `NoRaces`: `NoRace`, that is: no block is written while
  it is read, the window does not move under a reader, and the assertions of `LOCK_BUFFER`
  hold.

The inductive invariant is `SyncInv /\ FinderInv`. `SyncInv` says where the threads may be
together (`Control`: thread lives, who waits for whom, who has which lock), that the
blocks of each ring add up (`Rings`: free, filled, held and written ones are all there
are, in turn), and how full the tree thread's block is (`Room`). `FinderInv` says of each
thread's part what the others rely on: the window (`WindowKept`), the tables
(`HashesKept`), the filled blocks (`HeadsKept`), the tree thread's position in them
(`TreeKept`) and the encoder's (`CoderKept`). They need each other: that a block has one
user keeps its content, and its content bounds what its reader asks for next. That a chunk
of records fits takes counting how many words they have (`WordsFit`); it uses
induction once, as `LeastNat`: a set of naturals has a least element.

`MatchDataProofs`, under the same assumptions:

- `RecordsAreRight`: `RecordsMatch`. Each record the encoder takes is that of its position,
  with the nearest place that has the same four bytes and how far it matches.
- `OffersAreRight`: `OffersAreMatches`, of the short matches the encoder finds itself and
  mixes with the record's.
- `WindowSuffices`: `WindowHolds`. `KeepBefore` counts all the blocks of both rings, and so
  much the other threads can be behind.
- `OkIsWholeFile`: `OkMeansAll`.

They need `DataInv`, inductive together with `SyncInv /\ FinderInv`. Its heart is `Chains`:
for each ring there is a function from the blocks in use to the positions where they
start, each block starts where the one before ends, and what it holds is right for those
positions (`HashBlockRight`: heads are nearest places; `BtBlockRight`: records are
`Expected`); the last block ends where its writer is, the first one is where its reader is
(`Tied`, `LzTied`). `HighRight` says what the hash table has: for each four bytes the last
place they were seen at, unless that is out of the dictionary or, since a renumbering,
forgotten. The proofs are by a lemma for each part and, within it, for each thread:
`BlockDone` and `BlockRead` say what filling and taking a block do to a chain, `ChunkStep`
what a chunk of records adds to the open one, and `Later` that bytes are only ever added to
what has been read and that nobody learns of the end of the file before it is there.
`Lags` bounds how far the threads are apart by the sizes of the rings, for a writer has
a block before it goes on, and `Behind` is what the move of the window gets from it.

`LzmaFileProofs`, for all widths of a byte, a probability and a tree, every text, header
and loss, and all sizes of buffers:

- `WidthsAreKept`: `TypeOK`. On the encoder's side `EncInv` says that low has room for the
  range, in 33 bits, and that bytes are held back as long as a carry may still reach them
  (`Carries`); `Shifts` proves it of RangeEnc_ShiftLow, by what the bytes written and held
  back are worth as a number. `ProbsMove` and `RangeSplit` say that no probability, and so
  no part of a range, becomes too small. On the decoder's side `DecInv` says where each
  loop is in the dictionary and in its input.
- `DecoderIsInStep`: `NoInternalError`. Two facts about a symbol carry it, each proved of
  every tree and branch of `Symbol`. One is what it costs: from one normalization to the
  next a symbol reads `RequiredInputMax` bytes at most (`SymbolFits`; `Costs` compares each
  bit with the worst case of `RequiredInputCovers`). The other is that decoders whose
  buffers begin with the same bytes do the same as far as they read no others
  (`SymbolTells`, `LastAgrees`): a symbol that was found incomplete goes past the kept
  bytes also when more are there, so tempBuf never has more than the symbol takes. The
  proof uses nothing of what the file holds, only that it consists of bytes.

Assumptions: the theorems rest on the named assumptions of the modules (`VaultConstants`,
`SqlConstants`, `UpdaterConstants`, `BlueprintConstants`, `NoBagIsNone`, `TargetsTyped`,
`CharactersTyped`, `InstallerConstants`, `StagingConstants`, `CampaignParams`,
`FinderParams`, `RingsHaveRoom`, `CodingParams`, `SlotsReach`, `OneNormalization`,
`InputsTyped`, `DecoderParams`, `RequiredInputCovers`, `FileParams`), which TLC evaluates in each run, and on
the hypotheses named above, each of which is met by the instance of the run that checks the
property.

TLC checks `RecoverableInv` as an invariant of a run; the other inductive invariants
(`FaithfulInv`, `SqlClaims`, `HitInv`, `RightInv`, `MigratedInv`, `SyncInv`, `FinderInv`,
`DataInv`, `EncInv`, `DecInv` and so on) are stated beside their proofs.

By TLC only:

- `RoundTrip` of `LzmaFile`. It relates the decoder's place in the file to the encoder's at
  every bit of the whole text, with the bytes the encoder still holds back: for that the
  numbers that `EncInv` reasons about would have to be followed from the end of the file
  back to each bit, and the decoder's copies compared with the text;
- liveness (`RunEnds`, `EncodeEnds`, `DecodeEnds`), which is out of the prover's reach.

## Plan

1. done: `VaultUpdate`, `SqlUpdate`, `ItemUpdater`, their runs and proofs.
2. done: `ItemBlueprint`, checked and proved about.
3. done: `ModuleInstaller`, `InstalledCopy`, and their proofs.
4. done: `StagingTool`, checked and proved about.
5. done: `MtSync`, `MatchFinderMt`, `LzmaEncMt`, checked and proved about.
6. done: `LzmaEncoder`, `LzmaDecoder`, `LzmaFile`, checked and, but for the round trip,
   proved about.
7. done: `CampaignVars`, `CampaignDb`, checked and proved about.
8. the small tools, as operators: script upgrade, prices, area list.

Theorem to come: `RoundTrip`.

## Not modelled

- moduleinstaller: paths that git quotes (not ASCII), files git ignores, a clone that
  moves during a run.
- stagingtool: two files of one name in two directories (the checked instances have
  distinct names: with two equal ones and a third the states are too many), files that
  come with an older modification time (`cp -p`), `--since`, `--list`, `--ignore`, XML
  written to the standard output, local time when clocks go back.
- camtosql: the text of values, `--register-pc`, the reject file, SQL constraints, the
  script upgrade (two threads on one script given twice), migrate.sh.
- LZMA SDK: by which prices GetOptimum chooses (`LzmaEnc.c:965-1210`, `1443-1960`), memory
  and its exhaustion, the finders lzma_main does not use, big files' splits of the hash
  buffer, and what nothing here calls: the 7z, Xz, Lzma2, Ppmd and Bcj code, SHA and AES,
  the 7z archive reader. These are most of the C lines in the directory: of about 36,600
  lines of C, about 5,500 are compiled into stagingtool and can run, and the map covers
  some 3,300 of those. In `LzmaDecoder` the branch for a distance before the text
  (`LzmaDec.c:537`) needs a file this encoder does not write.
- The GFF, FoxPro and XML formats, getopt and the printing of help, bictoutc (a straight
  conversion), adjust-item-prices and update-module-arealist (one file at a time; a
  counter that several threads add to is only printed), the build files.
