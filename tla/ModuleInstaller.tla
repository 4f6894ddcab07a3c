-------------------------- MODULE ModuleInstaller --------------------------
(***************************************************************************)
(* nwn2-moduleinstaller (moduleinstaller/source/app.d): installs the files *)
(* of a module from a git clone into the game's directories, either all of *)
(* them after wiping what was there, or the ones git says have changed     *)
(* since the commit named by the version file.                             *)
(*                                                                         *)
(* Between two runs upstream moves on, and the clone may be edited, or     *)
(* cloned anew from a rewritten history.  A run may be killed, or end in   *)
(* an exception, anywhere.  Git itself is external and takes one step.     *)
(***************************************************************************)
EXTENDS Integers

CONSTANTS
    Commits,
    Paths,      \* of files in the repository
    Content,
    Tree,       \* the files of each commit
    Nested,     \* the paths that are in a subdirectory of the repository
    Hidden,     \* those of them in one that fileDestination strips (.github, x.dat)
    Dest,       \* fileDestination: where a file goes, by its name in lower case
    Strip,      \* its answer for files that are not installed
    DirOf,      \* the output directory of a destination
    Rank,       \* the order in which git diff lists paths
    NoFile, Torn,
    Edited,     \* bound: the paths whose working file a user may change
    NoVersion,  \* there is no version file
    Blank       \* it is empty

\* outModuleDir, outOverrideDir, outUnknownDir, in the order they are wiped.
Dirs == 1..3

Dests == {Dest[p] : p \in Paths} \ {Strip}

ASSUME InstallerConstants ==
    /\ Hidden \subseteq Nested /\ Nested \subseteq Paths /\ Edited \subseteq Paths
    /\ DOMAIN Dest = Paths
    /\ Tree \in [Commits -> [Paths -> Content \union {NoFile}]]
    /\ DirOf \in [Dests -> Dirs]
    /\ Rank \in [Paths -> Nat] /\ \A p, q \in Paths : Rank[p] = Rank[q] => p = q
    /\ NoFile \notin Content /\ Torn \notin Content /\ NoFile # Torn
    /\ NoVersion \notin Commits /\ Blank \notin Commits /\ NoVersion # Blank

VARIABLES
    \* git
    origin,     \* the commit the upstream branch is at
    head,       \* the commit the clone is at
    work,       \* its working tree
    objects,    \* the commits it has
    \* the game's directories
    dirs,       \* which of the output directories exist
    installed,  \* the files in them
    version,    \* the version file
    \* the process
    pc, force,
    wiping,     \* the directory being wiped
    todo,       \* files to copy, or diffs to apply
    copying,    \* the one being copied
    reported,   \* about which "Previous installation may have gone wrong" was printed
    \* history
    trust       \* no run was killed or worked from other files than head's,
                \* since the last full installation

git == <<origin, head, work, objects>>
disk == <<dirs, installed, version>>
main == <<pc, force, wiping, todo, copying, reported>>
vars == <<git, disk, main, trust>>

TypeOK ==
    /\ origin \in Commits /\ head \in objects /\ objects \subseteq Commits
    /\ work \in [Paths -> Content \union {NoFile}]
    /\ dirs \subseteq Dirs
    /\ installed \in [Dests -> Content \union {NoFile, Torn}]
    /\ version \in Commits \union {NoVersion, Blank}
    /\ pc \in {"idle", "git", "choose", "wipe", "copy", "apply", "write"}
    /\ force \in BOOLEAN /\ reported \subseteq Paths /\ trust \in BOOLEAN
    /\ wiping \in 1..4
    /\ todo \subseteq Paths
    /\ copying \subseteq todo

\* The files of a tree, where the game looks for them.
Image(tree) ==
    [d \in Dests |->
        IF \E p \in Paths : Dest[p] = d /\ tree[p] # NoFile
        THEN tree[CHOOSE p \in Paths : Dest[p] = d /\ tree[p] # NoFile]
        ELSE NoFile]

Init ==
    /\ origin \in Commits /\ head \in Commits
    /\ work = Tree[head]
    /\ objects = {head}
    /\ dirs = {}
    /\ installed = [d \in Dests |-> NoFile]
    /\ version = NoVersion
    /\ pc = "idle" /\ force = FALSE
    /\ wiping = 1 /\ todo = {} /\ copying = {}
    /\ reported = {} /\ trust = FALSE

-----------------------------------------------------------------------------
(* Upstream and the user, between two runs: external *)

\* (A push during a run is as one before or after its only fetch.)
Push ==
    /\ pc = "idle"
    /\ origin' \in Commits
    /\ UNCHANGED <<head, work, objects, disk, main, trust>>

\* History was rewritten, and the module cloned anew.
Forget ==
    /\ pc = "idle"
    /\ objects' = {head}
    /\ UNCHANGED <<origin, head, work, disk, main, trust>>

\* The user updates the clone, for --nogitupdate.
Pull ==
    /\ pc = "idle"
    /\ head' = origin /\ work' = Tree[origin]
    /\ objects' = objects \union {origin}
    /\ UNCHANGED <<origin, disk, main, trust>>

Edit ==
    /\ pc = "idle"
    /\ \E p \in Edited, f \in Content \union {NoFile} : work' = [work EXCEPT ![p] = f]
    /\ UNCHANGED <<origin, head, objects, disk, main, trust>>

-----------------------------------------------------------------------------
(* Before the files *)

AtRest ==
    /\ pc' = "idle" /\ force' = FALSE
    /\ wiping' = 1 /\ todo' = {} /\ copying' = {} /\ reported' = {}

Start ==
    /\ pc = "idle"
    /\ \E f, nogitupdate \in BOOLEAN :
        /\ force' = f
        /\ pc' = IF nogitupdate THEN "choose" ELSE "git"
    /\ UNCHANGED <<git, disk, wiping, todo, copying, reported, trust>>

\* fetch, clear, and a checkout whose success is not looked at.
GitUpdate ==
    /\ pc = "git"
    /\ \E c \in {origin, head} : head' = c /\ work' = Tree[c]
    /\ objects' = objects \union {origin}
    /\ pc' = "choose"
    /\ UNCHANGED <<origin, disk, force, wiping, todo, copying, reported, trust>>

FetchFails ==
    /\ pc = "git"
    /\ AtRest
    /\ UNCHANGED <<git, disk, trust>>

NothingInstalled == version \in {NoVersion, Blank}

ChooseFull ==
    /\ pc = "choose"
    /\ force \/ NothingInstalled
    /\ pc' = "wipe" /\ force' = TRUE
    /\ trust' = (work = Tree[head])
    /\ UNCHANGED <<git, disk, wiping, todo, copying, reported>>

\* getDiffs.  If git does not know the commit it prints an error, no line of
\* which looks like a diff.
Diffs ==
    IF version \in objects
    THEN {p \in Paths : Tree[version][p] # Tree[head][p]}
    ELSE {}

\* Mutant: only the added files are seen in git's output.
ChooseIncremental_added ==
    /\ pc = "choose"
    /\ ~(force \/ NothingInstalled)
    /\ pc' = "apply"
    /\ todo' = {p \in Diffs : Tree[version][p] = NoFile}
    /\ trust' = (trust /\ work = Tree[head] /\ version \in objects)
    /\ UNCHANGED <<git, disk, force, wiping, copying, reported>>

ChooseIncremental ==
    /\ pc = "choose"
    /\ ~(force \/ NothingInstalled)
    /\ pc' = "apply"
    /\ todo' = Diffs
    /\ trust' = (trust /\ work = Tree[head] /\ version \in objects)
    /\ UNCHANGED <<git, disk, force, wiping, copying, reported>>

-----------------------------------------------------------------------------
(* The full installation *)

InDir(k) == {d \in Dests : DirOf[d] = k /\ installed[d] # NoFile}

\* rmdirRecurse: the files one by one, then the directory.
WipeFile ==
    /\ pc = "wipe" /\ wiping \in dirs
    /\ \E d \in InDir(wiping) : installed' = [installed EXCEPT ![d] = NoFile]
    /\ UNCHANGED <<git, dirs, version, main, trust>>

RemoveDir ==
    /\ pc = "wipe" /\ wiping \in dirs
    /\ InDir(wiping) = {}
    /\ dirs' = dirs \ {wiping}
    /\ UNCHANGED <<git, installed, version, main, trust>>

MakeDir ==
    /\ pc = "wipe" /\ wiping \in Dirs \ dirs
    /\ dirs' = dirs \union {wiping}
    /\ wiping' = wiping + 1
    /\ UNCHANGED <<git, installed, version, pc, force, todo, copying, reported, trust>>

\* What the loop over the directory copies.  It asks fileDestination where a
\* subdirectory itself goes: the Hidden files are stripped with theirs, without a look
\* at their own names; of another one NoSubdirectory speaks.
ToInstall == {p \in Paths \ Nested : work[p] # NoFile /\ Dest[p] # Strip}

RemoveVersion ==
    /\ pc = "wipe" /\ wiping = 4
    /\ version' = NoVersion
    /\ pc' = "copy" /\ todo' = ToInstall
    /\ UNCHANGED <<git, dirs, installed, force, wiping, copying, reported, trust>>

\* Mutant: the file is struck off the list before it is copied.
CopyFile_early ==
    /\ pc = "copy" /\ copying = {}
    /\ \E p \in todo :
        /\ DirOf[Dest[p]] \in dirs
        /\ installed' = [installed EXCEPT ![Dest[p]] = Torn]
        /\ copying' = {p} /\ todo' = todo \ {p}
    /\ UNCHANGED <<git, dirs, version, pc, force, wiping, reported, trust>>

CopyFile ==
    /\ pc = "copy" /\ copying = {}
    /\ \E p \in todo :
        /\ DirOf[Dest[p]] \in dirs
        /\ installed' = [installed EXCEPT ![Dest[p]] = Torn]
        /\ copying' = {p}
    /\ UNCHANGED <<git, dirs, version, pc, force, wiping, todo, reported, trust>>

-----------------------------------------------------------------------------
(* The incremental installation *)

NextDiff(p) == p \in todo /\ \A q \in todo : Rank[p] <= Rank[q]

Type(p) ==
    IF Tree[version][p] = NoFile THEN "A" ELSE IF Tree[head][p] = NoFile THEN "D" ELSE "M"

Exists(p) == installed[Dest[p]] # NoFile

StripDiff ==
    /\ pc = "apply" /\ copying = {}
    /\ \E p \in todo : NextDiff(p) /\ Dest[p] = Strip /\ todo' = todo \ {p}
    /\ UNCHANGED <<git, disk, pc, force, wiping, copying, reported, trust>>

\* A file to copy that is not there, or a missing directory, is an exception.
CopyDiff ==
    /\ pc = "apply" /\ copying = {}
    /\ \E p \in todo :
        /\ NextDiff(p) /\ Dest[p] # Strip
        /\ \/ Type(p) = "M" /\ Exists(p)
           \/ Type(p) = "A" /\ ~Exists(p)
        /\ work[p] # NoFile /\ DirOf[Dest[p]] \in dirs
        /\ installed' = [installed EXCEPT ![Dest[p]] = Torn]
        /\ copying' = {p}
    /\ UNCHANGED <<git, dirs, version, pc, force, wiping, todo, reported, trust>>

RemoveDiff ==
    /\ pc = "apply" /\ copying = {}
    /\ \E p \in todo :
        /\ NextDiff(p) /\ Dest[p] # Strip
        /\ Type(p) = "D" /\ Exists(p)
        /\ installed' = [installed EXCEPT ![Dest[p]] = NoFile]
        /\ todo' = todo \ {p}
    /\ UNCHANGED <<git, dirs, version, pc, force, wiping, copying, reported, trust>>

\* Mutant: only an added file is expected not to be there.
ReportDiff_added ==
    /\ pc = "apply" /\ copying = {}
    /\ \E p \in todo :
        /\ NextDiff(p) /\ Dest[p] # Strip
        /\ IF Type(p) = "M" THEN Exists(p) ELSE ~Exists(p)
        /\ todo' = todo \ {p} /\ reported' = reported \union {p}
    /\ UNCHANGED <<git, disk, pc, force, wiping, copying, trust>>

ReportDiff ==
    /\ pc = "apply" /\ copying = {}
    /\ \E p \in todo :
        /\ NextDiff(p) /\ Dest[p] # Strip
        /\ IF Type(p) = "A" THEN Exists(p) ELSE ~Exists(p)
        /\ todo' = todo \ {p} /\ reported' = reported \union {p}
    /\ UNCHANGED <<git, disk, pc, force, wiping, copying, trust>>

-----------------------------------------------------------------------------
(* Both *)

CopyEnds ==
    /\ \E p \in copying :
        /\ installed' = [installed EXCEPT ![Dest[p]] = work[p]]
        /\ todo' = todo \ {p}
    /\ copying' = {}
    /\ UNCHANGED <<git, dirs, version, pc, force, wiping, reported, trust>>

\* A subdirectory that is not stripped cannot be copied: the full installation
\* throws when it comes to it.
NoSubdirectory == \A p \in Nested \ Hidden : work[p] = NoFile

\* Mutant: the version file is written while files are still to be copied.
TruncateVersion_early ==
    /\ pc \in {"copy", "apply"} /\ copying = {}
    /\ version' = Blank
    /\ pc' = "write"
    /\ UNCHANGED <<git, dirs, installed, force, wiping, todo, copying, reported, trust>>

TruncateVersion ==
    /\ pc \in {"copy", "apply"} /\ todo = {}
    /\ pc = "copy" => NoSubdirectory
    /\ version' = Blank
    /\ pc' = "write"
    /\ UNCHANGED <<git, dirs, installed, force, wiping, todo, copying, reported, trust>>

WriteVersion ==
    /\ pc = "write"
    /\ version' = head
    /\ AtRest
    /\ UNCHANGED <<git, dirs, installed, trust>>

\* Killed, or an exception, of the input and output or of the code itself.
Dies ==
    /\ pc # "idle"
    /\ AtRest
    /\ trust' = (trust /\ pc \in {"git", "choose"})
    /\ UNCHANGED <<git, disk>>

-----------------------------------------------------------------------------
Full == WipeFile \/ RemoveDir \/ MakeDir \/ RemoveVersion \/ CopyFile
Incremental == StripDiff \/ CopyDiff \/ RemoveDiff \/ ReportDiff
Run ==
    \/ Start \/ GitUpdate \/ FetchFails \/ ChooseFull \/ ChooseIncremental
    \/ Full \/ Incremental \/ CopyEnds \/ TruncateVersion \/ WriteVersion
User == Push \/ Forget \/ Pull \/ Edit
Next == User \/ Run \/ Dies

Spec == Init /\ [][Next]_vars

-----------------------------------------------------------------------------
(* Properties *)

\* No two files of the repository's history have one destination.
DistinctDestinations ==
    \A p, q \in Paths : Dest[p] = Dest[q] /\ Dest[p] # Strip => p = q

\* The files installed are those of a tree.  Hidden ones may be missing: the full
\* installation does not see them (app.d:161-165), an incremental one copies them when
\* they are added (206).
Fits(files, tree) ==
    \A d \in Dests :
        \/ files[d] = Image(tree)[d]
        \/ files[d] = NoFile /\ \E p \in Hidden : Dest[p] = d

\* README.md:6-7: between runs, the installed files are those of the commit the
\* version file names but for Hidden ones, unless a run was killed or the clone was
\* edited since the last full installation, or git no longer knew the installed commit.
Faithful ==
    pc = "idle" /\ version \in Commits /\ trust => Fits(installed, Tree[version])

\* The inductive form of it.  What a run in the middle of its work has done, and
\* that the files of each step are as the step before left them: a copy writes
\* only what is on the list, the list has only what is not done yet.
CopyingOne ==
    /\ copying # {} => pc \in {"copy", "apply"}
    /\ \A p \in copying : Dest[p] # Strip
    /\ pc = "copy" => \A p \in todo : Dest[p] # Strip
    /\ \A p, q \in copying : p = q
Missing(p) == p \in Hidden /\ installed[Dest[p]] = NoFile
FullDone ==
    \A p \in Paths \ todo :
        Dest[p] # Strip /\ (p \in Nested \ Hidden => work[p] = NoFile)
            => installed[Dest[p]] = work[p] \/ Missing(p)
DiffsApplied ==
    \A p \in Paths : Dest[p] # Strip =>
        IF p \in todo
        THEN p \notin copying => installed[Dest[p]] = Tree[version][p] \/ Missing(p)
        ELSE installed[Dest[p]] = Tree[head][p] \/ Missing(p)
FilesInDirs ==
    /\ \A d \in Dests : installed[d] # NoFile => DirOf[d] \in dirs
    /\ \A p \in copying : DirOf[Dest[p]] \in dirs
FaithfulInv ==
    /\ CopyingOne /\ FilesInDirs
    /\ pc \in {"idle", "git", "choose"} => wiping = 1
    /\ reported # {} => pc \in {"apply", "write"}
    /\ trust => reported \subseteq Hidden
    /\ pc \in {"idle", "git", "choose"} /\ version \in Commits /\ trust
            => Fits(installed, Tree[version])
    /\ pc \in {"wipe", "copy", "apply", "write"} /\ trust => work = Tree[head]
    /\ pc = "wipe" => \A d \in Dests : DirOf[d] < wiping => installed[d] = NoFile
    /\ pc = "copy" => version = NoVersion /\ FullDone
    /\ pc = "apply" => version \in Commits /\ (trust => DiffsApplied)
    /\ pc = "write" => version = Blank /\ (trust => Fits(installed, Tree[head]))

\* "Previous installation may have gone wrong" (app.d:193, 203, 212) is printed
\* only if it has, or about a Hidden file, which the full installation left out.
NoFalseAlarm == trust => reported \subseteq Hidden

\* The copy said to be that of a commit is never touched, and holds its files.
Copy == INSTANCE InstalledCopy WITH
            Files <- [Dests -> Content \union {NoFile, Torn}],
            CopiesOf <- [c \in Commits |->
                {f \in [Dests -> Content \union {NoFile, Torn}] : Fits(f, Tree[c])}],
            None <- NoVersion,
            files <- installed,
            copy <- IF trust /\ version \in Commits /\ pc \in {"idle", "git", "choose"}
                    THEN version ELSE NoVersion
CopyPromise == Copy!Spec

\* README.md:6: "Copy/remove changed files to the installed module copy": a file
\* of the installed commit is there.
NoFileMissing ==
    pc = "idle" /\ version \in Commits /\ trust =>
        \A p \in Paths : Dest[p] # Strip /\ Tree[version][p] # NoFile => Exists(p)

=============================================================================
