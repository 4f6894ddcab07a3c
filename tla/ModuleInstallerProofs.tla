----------------------- MODULE ModuleInstallerProofs -----------------------
(***************************************************************************)
(* What TLAPS proves of ModuleInstaller, for every repository in which no  *)
(* two files have one destination, every history of it, and every sequence *)
(* of runs, killed or not.                                                 *)
(***************************************************************************)
EXTENDS ModuleInstaller, TLAPS

-----------------------------------------------------------------------------
(* What Image gives, when destinations are distinct. *)

LEMMA DestTyped ==
    ASSUME NEW p \in Paths, Dest[p] # Strip
    PROVE  Dest[p] \in Dests /\ DirOf[Dest[p]] \in Dirs
BY InstallerConstants DEF Dests

LEMMA TreeTyped ==
    ASSUME NEW c \in Commits
    PROVE  Tree[c] \in [Paths -> Content \union {NoFile}]
BY InstallerConstants

LEMMA ImageAt ==
    ASSUME DistinctDestinations, NEW tree, NEW p \in Paths, Dest[p] # Strip
    PROVE  Image(tree)[Dest[p]] = tree[p]
<1>1. \A q \in Paths : Dest[q] = Dest[p] => q = p
  BY DEF DistinctDestinations
<1>2. CASE tree[p] = NoFile
  BY <1>1, <1>2, DestTyped DEF Image
<1>3. CASE tree[p] # NoFile
  <2>1. (CHOOSE q \in Paths : Dest[q] = Dest[p] /\ tree[q] # NoFile) = p
    BY <1>1, <1>3
  <2> QED BY <2>1, <1>3, DestTyped DEF Image
<1> QED BY <1>2, <1>3

\* Files fit a tree when, path by path, they are the tree's or missing ones.
LEMMA FitsIs ==
    ASSUME DistinctDestinations, NEW tree, NEW files,
           \A p \in Paths : Dest[p] # Strip =>
              files[Dest[p]] = tree[p] \/ (p \in Hidden /\ files[Dest[p]] = NoFile)
    PROVE  Fits(files, tree)
<1> SUFFICES ASSUME NEW d \in Dests
             PROVE  \/ files[d] = Image(tree)[d]
                    \/ files[d] = NoFile /\ \E p \in Hidden : Dest[p] = d
  BY DEF Fits
<1>1. PICK p \in Paths : Dest[p] = d /\ d # Strip BY DEF Dests
<1> QED BY <1>1, ImageAt

LEMMA FitsAt ==
    ASSUME DistinctDestinations, NEW tree, NEW files, Fits(files, tree),
           NEW p \in Paths, Dest[p] # Strip
    PROVE  files[Dest[p]] = tree[p] \/ (p \in Hidden /\ files[Dest[p]] = NoFile)
<1>1. Dest[p] \in Dests BY DestTyped
<1>2. \A q \in Hidden : Dest[q] = Dest[p] => q = p
  BY InstallerConstants DEF DistinctDestinations
<1>3. Image(tree)[Dest[p]] = tree[p] BY ImageAt
<1> QED BY <1>1, <1>2, <1>3 DEF Fits

-----------------------------------------------------------------------------
(* Types, with what is being copied: the list may lose no file under copy. *)

TypeInv == TypeOK /\ CopyingOne

LEMMA InitTyped == Init => TypeInv
<1> SUFFICES ASSUME Init PROVE TypeInv OBVIOUS
<1>1. force \in BOOLEAN /\ reported = {} /\ trust \in BOOLEAN
  BY Zenon DEF Init
<1> QED BY <1>1, TreeTyped, InstallerConstants DEF Init, TypeInv, TypeOK, CopyingOne

\* What a process leaves in memory when it ends is well typed.
LEMMA RestTyped ==
    ASSUME AtRest
    PROVE  /\ pc' = "idle" /\ wiping' \in 1..4 /\ todo' = {} /\ copying' = {}
           /\ force' \in BOOLEAN /\ reported' = {}
<1>1. force' \in BOOLEAN /\ reported' = {}
  BY Zenon DEF AtRest
<1> QED BY <1>1 DEF AtRest

LEMMA UserTyped == ASSUME TypeInv, User PROVE TypeInv'
<1> USE DEF TypeInv, TypeOK, CopyingOne, disk, main
<1>1. CASE Push BY <1>1 DEF Push
<1>2. CASE Forget BY <1>2 DEF Forget
<1>3. CASE Pull BY <1>3, TreeTyped DEF Pull
<1>4. CASE Edit BY <1>4 DEF Edit
<1> QED BY <1>1, <1>2, <1>3, <1>4 DEF User

LEMMA BeforeTyped ==
    ASSUME TypeInv,
           Start \/ GitUpdate \/ FetchFails \/ ChooseFull \/ ChooseIncremental
    PROVE  TypeInv'
<1> USE DEF TypeInv, TypeOK, CopyingOne, git, disk
<1>1. CASE Start BY <1>1 DEF Start
<1>2. CASE GitUpdate BY <1>2, TreeTyped DEF GitUpdate
<1>3. CASE FetchFails BY <1>3, RestTyped DEF FetchFails
<1>4. CASE ChooseFull BY <1>4 DEF ChooseFull
<1>5. CASE ChooseIncremental BY <1>5 DEF ChooseIncremental, Diffs
<1> QED BY <1>1, <1>2, <1>3, <1>4, <1>5

LEMMA FullTyped == ASSUME TypeInv, Full PROVE TypeInv'
<1> USE DEF TypeInv, TypeOK, CopyingOne, git, main, Dirs
<1>1. CASE WipeFile BY <1>1 DEF WipeFile, InDir
<1>2. CASE RemoveDir BY <1>2 DEF RemoveDir
<1>3. CASE MakeDir BY <1>3 DEF MakeDir
<1>4. CASE RemoveVersion BY <1>4 DEF RemoveVersion, ToInstall
<1>5. CASE CopyFile
  <2>1. PICK p \in todo : /\ installed' = [installed EXCEPT ![Dest[p]] = Torn]
                          /\ copying' = {p}
    BY <1>5 DEF CopyFile
  <2>2. Dest[p] # Strip
    BY <1>5 DEF CopyFile
  <2> QED BY <1>5, <2>1, <2>2 DEF CopyFile
<1> QED BY <1>1, <1>2, <1>3, <1>4, <1>5 DEF Full

LEMMA IncrementalTyped == ASSUME TypeInv, Incremental PROVE TypeInv'
<1> USE DEF TypeInv, TypeOK, CopyingOne, git, disk
<1>1. CASE StripDiff BY <1>1 DEF StripDiff
<1>2. CASE CopyDiff BY <1>2 DEF CopyDiff, NextDiff
<1>3. CASE RemoveDiff BY <1>3 DEF RemoveDiff
<1>4. CASE ReportDiff BY <1>4 DEF ReportDiff
<1> QED BY <1>1, <1>2, <1>3, <1>4 DEF Incremental

LEMMA EndTyped ==
    ASSUME TypeInv, CopyEnds \/ TruncateVersion \/ WriteVersion \/ Dies
    PROVE  TypeInv'
<1> USE DEF TypeInv, TypeOK, CopyingOne, git, disk
<1>1. CASE CopyEnds BY <1>1 DEF CopyEnds
<1>2. CASE TruncateVersion BY <1>2 DEF TruncateVersion
<1>3. CASE WriteVersion BY <1>3, RestTyped DEF WriteVersion
<1>4. CASE Dies BY <1>4, RestTyped DEF Dies
<1> QED BY <1>1, <1>2, <1>3, <1>4

LEMMA StepTyped == ASSUME TypeInv, [Next]_vars PROVE TypeInv'
<1>1. CASE UNCHANGED vars
  BY <1>1 DEF vars, git, disk, main, TypeInv, TypeOK, CopyingOne
<1> QED BY <1>1, UserTyped, BeforeTyped, FullTyped, IncrementalTyped, EndTyped
        DEF Next, Run

\* Every variable keeps its type; a file is being copied only while it is on the
\* list, one at a time, and only in a phase that copies.
THEOREM TypeCorrect == Spec => []TypeOK
<1>1. TypeInv => TypeOK BY DEF TypeInv
<1> QED BY <1>1, InitTyped, StepTyped, PTL DEF Spec

-----------------------------------------------------------------------------
(* Fidelity, when destinations are distinct: FaithfulInv is inductive. *)

LEMMA InitFaithful == Init => FaithfulInv
BY InstallerConstants DEF Init, FaithfulInv, CopyingOne, FilesInDirs

LEMMA UserFaithful == ASSUME TypeInv, FaithfulInv, User PROVE FaithfulInv'
BY DEF TypeInv, FaithfulInv, CopyingOne, FilesInDirs, User, Push, Forget, Pull, Edit,
       disk, main

LEMMA StartFaithful ==
    ASSUME TypeInv, FaithfulInv, Start \/ GitUpdate \/ FetchFails
    PROVE  FaithfulInv'
BY DEF TypeInv, FaithfulInv, CopyingOne, FilesInDirs, Start, GitUpdate, FetchFails,
       AtRest, git, disk

\* Nothing is wiped yet.
LEMMA ChooseFullFaithful ==
    ASSUME TypeInv, FaithfulInv, ChooseFull
    PROVE  FaithfulInv'
<1>1. trust' => work = Tree[head]
  BY Zenon DEF ChooseFull
<1>2. reported' = {} /\ wiping' = 1
  BY DEF FaithfulInv, ChooseFull
<1>3. \A d \in Dests : ~(DirOf[d] < 1)
  BY InstallerConstants DEF Dirs
<1> QED BY <1>1, <1>2, <1>3
        DEF TypeInv, FaithfulInv, CopyingOne, FilesInDirs, ChooseFull, git, disk

\* A copy that can be trusted is that of the old commit.
LEMMA ChooseIncrementalFaithful ==
    ASSUME DistinctDestinations, TypeInv, FaithfulInv, ChooseIncremental
    PROVE  FaithfulInv'
<1>1. trust' => trust /\ work = Tree[head] /\ version \in objects
  BY Zenon DEF ChooseIncremental
<1>2. version \in Commits
  BY DEF ChooseIncremental, NothingInstalled, TypeInv, TypeOK
<1>3. ASSUME trust' PROVE DiffsApplied'
  <2>1. Fits(installed, Tree[version])
    BY <1>1, <1>2, <1>3 DEF FaithfulInv, ChooseIncremental
  <2>2. \A p \in Paths : Dest[p] # Strip => installed[Dest[p]] = Tree[version][p] \/ Missing(p)
    BY <2>1, FitsAt DEF Missing
  <2> QED BY <1>1, <1>3, <2>2 DEF DiffsApplied, Missing, ChooseIncremental, Diffs, git, disk
<1> QED BY <1>1, <1>2, <1>3
        DEF TypeInv, FaithfulInv, CopyingOne, FilesInDirs, ChooseIncremental, git, disk

\* What was wiped stays empty: a directory that does not exist holds no file.
LEMMA WipeFaithful ==
    ASSUME TypeInv, FaithfulInv, WipeFile \/ RemoveDir \/ MakeDir
    PROVE  FaithfulInv'
<1> USE DEF TypeInv, TypeOK, FaithfulInv, CopyingOne, FilesInDirs, git, main
<1>a. \A d \in Dests : DirOf[d] \in 1..3
  BY InstallerConstants DEF Dirs
<1>1. CASE WipeFile
  <2>1. PICK d \in Dests : installed' = [installed EXCEPT ![d] = NoFile]
    BY <1>1 DEF WipeFile, InDir
  <2> QED BY <1>1, <2>1 DEF WipeFile
<1>2. CASE RemoveDir
  <2>1. \A d \in Dests : installed[d] # NoFile => DirOf[d] # wiping
    BY <1>2 DEF RemoveDir, InDir
  <2>2. copying = {}
    BY <1>2 DEF RemoveDir
  <2> QED BY <1>2, <2>1, <2>2 DEF RemoveDir
<1>3. CASE MakeDir
  <2>1. \A d \in Dests : DirOf[d] < wiping' => DirOf[d] < wiping \/ DirOf[d] = wiping
    BY <1>3, <1>a DEF MakeDir
  <2>2. \A d \in Dests : DirOf[d] = wiping => installed[d] = NoFile
    BY <1>3 DEF MakeDir
  <2>3. \A d \in Dests : DirOf[d] < wiping' => installed'[d] = NoFile
    BY <1>3, <2>1, <2>2 DEF MakeDir
  <2> QED BY <1>3, <2>3 DEF MakeDir
<1> QED BY <1>1, <1>2, <1>3

LEMMA RemoveVersionFaithful ==
    ASSUME TypeInv, FaithfulInv, RemoveVersion
    PROVE  FaithfulInv'
<1>1. \A d \in Dests : installed[d] = NoFile
  BY InstallerConstants DEF RemoveVersion, FaithfulInv, Dirs
<1>2. FullDone'
  <2> SUFFICES ASSUME NEW p \in Paths, p \notin ToInstall, Dest[p] # Strip,
                      p \in Nested \ Hidden => work[p] = NoFile
               PROVE  installed[Dest[p]] = work[p] \/ Missing(p)
    BY DEF RemoveVersion, FullDone, Missing, git
  <2>1. work[p] = NoFile \/ p \in Hidden
    BY DEF ToInstall
  <2> QED BY <1>1, <2>1, DestTyped DEF Missing
<1>3. \A p \in todo' : Dest[p] # Strip
  BY DEF RemoveVersion, ToInstall
<1> QED BY <1>2, <1>3
        DEF RemoveVersion, TypeInv, FaithfulInv, CopyingOne, FilesInDirs, git

\* A copy begins: nothing that is done has the destination of what is not.
LEMMA CopyFileFaithful ==
    ASSUME DistinctDestinations, TypeInv, FaithfulInv, CopyFile
    PROVE  FaithfulInv'
<1>1. PICK p \in todo : /\ DirOf[Dest[p]] \in dirs
                        /\ installed' = [installed EXCEPT ![Dest[p]] = Torn]
                        /\ copying' = {p}
  BY DEF CopyFile
<1>2. p \in Paths /\ Dest[p] # Strip /\ Dest[p] \in Dests
  BY DestTyped DEF CopyFile, TypeInv, TypeOK, CopyingOne
<1>3. \A q \in Paths \ todo : Dest[q] # Dest[p]
  BY <1>2 DEF DistinctDestinations
<1>4. FullDone'
  BY <1>1, <1>2, <1>3, DestTyped DEF FullDone, Missing, FaithfulInv, CopyFile, TypeInv, TypeOK, git
<1>5. FilesInDirs' /\ CopyingOne'
  BY <1>1, <1>2 DEF FilesInDirs, CopyingOne, FaithfulInv, CopyFile, TypeInv, TypeOK
<1> QED BY <1>4, <1>5 DEF CopyFile, FaithfulInv, git

LEMMA StripDiffFaithful ==
    ASSUME TypeInv, FaithfulInv, StripDiff
    PROVE  FaithfulInv'
<1>1. PICK p \in todo : Dest[p] = Strip /\ todo' = todo \ {p}
  BY DEF StripDiff
<1>2. DiffsApplied => DiffsApplied'
  BY <1>1 DEF DiffsApplied, Missing, StripDiff, git, disk
<1> QED BY <1>1, <1>2
        DEF StripDiff, TypeInv, FaithfulInv, CopyingOne, FilesInDirs, git, disk

LEMMA CopyDiffFaithful ==
    ASSUME DistinctDestinations, TypeInv, FaithfulInv, CopyDiff
    PROVE  FaithfulInv'
<1>1. PICK p \in todo : /\ DirOf[Dest[p]] \in dirs /\ Dest[p] # Strip
                        /\ installed' = [installed EXCEPT ![Dest[p]] = Torn]
                        /\ copying' = {p}
  BY DEF CopyDiff
<1>2. p \in Paths /\ Dest[p] \in Dests
  BY <1>1, DestTyped DEF TypeInv, TypeOK
<1>3. \A q \in Paths : q # p => Dest[q] # Dest[p]
  BY <1>1, <1>2 DEF DistinctDestinations
<1>4. DiffsApplied => DiffsApplied'
  BY <1>1, <1>2, <1>3, DestTyped DEF DiffsApplied, Missing, CopyDiff, TypeInv, TypeOK, git
<1>5. FilesInDirs' /\ CopyingOne'
  BY <1>1, <1>2 DEF FilesInDirs, CopyingOne, FaithfulInv, CopyDiff, TypeInv, TypeOK
<1> QED BY <1>4, <1>5 DEF CopyDiff, FaithfulInv, git

LEMMA RemoveDiffFaithful ==
    ASSUME DistinctDestinations, TypeInv, FaithfulInv, RemoveDiff
    PROVE  FaithfulInv'
<1>1. PICK p \in todo : /\ Type(p) = "D" /\ Dest[p] # Strip
                        /\ installed' = [installed EXCEPT ![Dest[p]] = NoFile]
                        /\ todo' = todo \ {p}
  BY DEF RemoveDiff
<1>2. p \in Paths /\ Dest[p] \in Dests
  BY <1>1, DestTyped DEF TypeInv, TypeOK
<1>3. \A q \in Paths : q # p => Dest[q] # Dest[p]
  BY <1>1, <1>2 DEF DistinctDestinations
<1>4. Tree[head][p] = NoFile
  BY <1>1 DEF Type
<1>5. DiffsApplied => DiffsApplied'
  BY <1>1, <1>2, <1>3, <1>4, DestTyped
     DEF DiffsApplied, Missing, RemoveDiff, TypeInv, TypeOK, git
<1>6. FilesInDirs' /\ CopyingOne'
  BY <1>1, <1>2 DEF FilesInDirs, CopyingOne, FaithfulInv, RemoveDiff, TypeInv, TypeOK
<1> QED BY <1>5, <1>6 DEF RemoveDiff, FaithfulInv, git

\* The message is printed about a copy that cannot be trusted, or a Hidden file.
LEMMA ReportDiffFaithful ==
    ASSUME TypeInv, FaithfulInv, ReportDiff
    PROVE  FaithfulInv'
<1>1. PICK p \in todo : /\ Dest[p] # Strip /\ p \in Paths
                        /\ IF Type(p) = "A" THEN Exists(p) ELSE ~Exists(p)
                        /\ todo' = todo \ {p} /\ reported' = reported \union {p}
  BY DEF ReportDiff, TypeInv, TypeOK
<1>2. pc = "apply" /\ pc' = pc /\ copying = {} BY DEF ReportDiff
<1>3. installed[Dest[p]] # Tree[version][p]
  BY <1>1 DEF Type, Exists
<1>4. ASSUME trust PROVE Missing(p) /\ DiffsApplied'
  <2>1. DiffsApplied BY <1>2, <1>4 DEF FaithfulInv
  <2>2. Missing(p) BY <1>1, <1>2, <1>3, <2>1 DEF DiffsApplied
  <2> QED BY <1>1, <2>1, <2>2 DEF DiffsApplied, Missing, ReportDiff, git, disk
<1> QED BY <1>1, <1>2, <1>4
        DEF ReportDiff, TypeInv, FaithfulInv, CopyingOne, FilesInDirs, Missing, git, disk

LEMMA CopyEndsFaithful ==
    ASSUME DistinctDestinations, TypeInv, FaithfulInv, CopyEnds
    PROVE  FaithfulInv'
<1>1. PICK p \in copying : /\ installed' = [installed EXCEPT ![Dest[p]] = work[p]]
                           /\ todo' = todo \ {p}
  BY DEF CopyEnds
<1>2. p \in Paths /\ p \in todo /\ Dest[p] # Strip /\ Dest[p] \in Dests
  BY <1>1, DestTyped DEF TypeInv, TypeOK, CopyingOne
<1>3. \A q \in Paths : q # p => Dest[q] # Dest[p] /\ q \notin copying
  BY <1>1, <1>2 DEF DistinctDestinations, TypeInv, CopyingOne
<1>4. FullDone => FullDone'
  BY <1>1, <1>2, <1>3, DestTyped DEF FullDone, Missing, CopyEnds, TypeInv, TypeOK, git
<1>5. ASSUME work = Tree[head], DiffsApplied PROVE DiffsApplied'
  BY <1>1, <1>2, <1>3, <1>5, DestTyped
     DEF DiffsApplied, Missing, CopyEnds, TypeInv, TypeOK, git
<1>6. FilesInDirs' /\ CopyingOne'
  BY <1>1, <1>2 DEF FilesInDirs, CopyingOne, FaithfulInv, CopyEnds, TypeInv, TypeOK
<1>7. pc \in {"copy", "apply"}
  BY DEF CopyEnds, FaithfulInv, CopyingOne
<1> QED BY <1>4, <1>5, <1>6, <1>7 DEF CopyEnds, FaithfulInv, git

\* Nothing is left to do.
LEMMA TruncateVersionFaithful ==
    ASSUME DistinctDestinations, TypeInv, FaithfulInv, TruncateVersion
    PROVE  FaithfulInv'
<1>1. ASSUME trust PROVE Fits(installed, Tree[head])
  <2>1. \A p \in Paths : Dest[p] # Strip => installed[Dest[p]] = Tree[head][p] \/ Missing(p)
    BY <1>1 DEF TruncateVersion, NoSubdirectory, FaithfulInv, FullDone, DiffsApplied
  <2> QED BY <2>1, FitsIs DEF Missing
<1> QED BY <1>1
        DEF TruncateVersion, TypeInv, TypeOK, FaithfulInv, CopyingOne, FilesInDirs, git

LEMMA EndFaithful ==
    ASSUME TypeInv, FaithfulInv, WriteVersion \/ Dies
    PROVE  FaithfulInv'
<1> USE DEF TypeInv, TypeOK, FaithfulInv, CopyingOne, FilesInDirs, AtRest, git, disk
<1>1. CASE WriteVersion BY <1>1 DEF WriteVersion
<1>2. CASE Dies
  <2>1. trust' => trust /\ pc \in {"git", "choose"} BY <1>2, Zenon DEF Dies
  <2> QED BY <1>2, <2>1 DEF Dies
<1> QED BY <1>1, <1>2

LEMMA StepFaithful ==
    ASSUME DistinctDestinations, TypeInv, FaithfulInv, [Next]_vars
    PROVE  FaithfulInv'
<1>1. CASE UNCHANGED vars
  BY <1>1 DEF vars, git, disk, main, FaithfulInv, CopyingOne, FilesInDirs, FullDone,
              DiffsApplied, Missing
<1> QED BY <1>1, UserFaithful, StartFaithful, ChooseFullFaithful,
           ChooseIncrementalFaithful, WipeFaithful, RemoveVersionFaithful,
           CopyFileFaithful, StripDiffFaithful, CopyDiffFaithful, RemoveDiffFaithful,
           ReportDiffFaithful, CopyEndsFaithful, TruncateVersionFaithful, EndFaithful
        DEF Next, Run, Full, Incremental

\* Between runs the installed files are those of the commit the version file
\* names, whatever was killed before the last full installation; only files in a
\* stripped subdirectory may be missing, where the repository has any.
THEOREM InstalledIsFaithful == DistinctDestinations => (Spec => []Faithful)
<1> SUFFICES ASSUME DistinctDestinations PROVE Spec => []Faithful OBVIOUS
<1>1. FaithfulInv => Faithful BY DEF FaithfulInv, Faithful
<1>2. TypeInv /\ FaithfulInv /\ [Next]_vars => FaithfulInv' BY StepFaithful
<1> QED BY <1>1, <1>2, InitTyped, StepTyped, InitFaithful, PTL DEF Spec

\* The message "Previous installation may have gone wrong" is printed only about
\* a copy some run was killed in, or that was not made of a commit's files, or
\* about a file in a stripped subdirectory.
THEOREM AlarmsAreTrue == DistinctDestinations => (Spec => []NoFalseAlarm)
<1> SUFFICES ASSUME DistinctDestinations PROVE Spec => []NoFalseAlarm OBVIOUS
<1>1. FaithfulInv => NoFalseAlarm BY DEF FaithfulInv, NoFalseAlarm
<1>2. TypeInv /\ FaithfulInv /\ [Next]_vars => FaithfulInv' BY StepFaithful
<1> QED BY <1>1, <1>2, InitTyped, StepTyped, InitFaithful, PTL DEF Spec

-----------------------------------------------------------------------------
(* ModuleInstaller implements InstalledCopy. *)

Copied == IF trust /\ version \in Commits /\ pc \in {"idle", "git", "choose"}
          THEN version ELSE NoVersion

\* Files change only while a run works on them, and the copy is named only
\* between.
LEMMA NamedUntouched ==
    ASSUME FaithfulInv, [Next]_vars, pc' \in {"idle", "git", "choose"}
    PROVE  installed' = installed
<1>1. CASE User
  BY <1>1 DEF User, Push, Forget, Pull, Edit, disk
<1>2. CASE Start \/ GitUpdate \/ FetchFails \/ WriteVersion \/ Dies
  BY <1>2 DEF Start, GitUpdate, FetchFails, WriteVersion, Dies, disk
<1>3. CASE ChooseFull \/ ChooseIncremental \/ TruncateVersion
  BY <1>3 DEF ChooseFull, ChooseIncremental, TruncateVersion, disk
<1>4. CASE Full
  BY <1>4 DEF Full, WipeFile, RemoveDir, MakeDir, RemoveVersion, CopyFile, main
<1>5. CASE Incremental
  BY <1>5 DEF Incremental, StripDiff, CopyDiff, RemoveDiff, ReportDiff
<1>6. CASE CopyEnds
  BY <1>6 DEF CopyEnds, FaithfulInv, CopyingOne
<1>7. CASE UNCHANGED vars
  BY <1>7 DEF vars, disk
<1> QED BY <1>1, <1>2, <1>3, <1>4, <1>5, <1>6, <1>7 DEF Next, Run

LEMMA InitImplements == Init => Copy!Init
BY InstallerConstants DEF Init, Copy!Init

\* Every step gives the abstract copy up, or completes one.
LEMMA StepImplements ==
    ASSUME TypeInv', FaithfulInv, FaithfulInv', [Next]_vars
    PROVE  Copy!Next
<1>1. installed' \in [Dests -> Content \union {NoFile, Torn}]
  BY DEF TypeInv, TypeOK
<1>2. CASE Copied' = NoVersion
  BY <1>1, <1>2 DEF Copied, Copy!Next, Copy!Work
<1>3. CASE Copied' # NoVersion
  <2>1. /\ trust' /\ version' \in Commits /\ Copied' = version'
        /\ pc' \in {"idle", "git", "choose"}
    BY <1>3 DEF Copied
  <2>2. installed' = installed
    BY <2>1, NamedUntouched
  <2> DEFINE copies == {f \in [Dests -> Content \union {NoFile, Torn}] : Fits(f, Tree[version'])}
  <2>3. installed \in copies
    BY <1>1, <2>1, <2>2 DEF FaithfulInv
  <2>4. Copy!Finish(version')
    BY <2>1, <2>2, <2>3 DEF Copied, Copy!Finish
  <2> QED BY <2>1, <2>4 DEF Copy!Next
<1> QED BY <1>2, <1>3

\* The installer implements InstalledCopy: while the version file names a commit
\* and no run is working, the files are a copy of its files and nothing touches them.
THEOREM InstallerImplementsCopy == DistinctDestinations => (Spec => CopyPromise)
<1> SUFFICES ASSUME DistinctDestinations PROVE Spec => CopyPromise OBVIOUS
<1>1. TypeInv /\ FaithfulInv /\ [Next]_vars => FaithfulInv' BY StepFaithful
<1>2. TypeInv' /\ FaithfulInv /\ FaithfulInv' /\ [Next]_vars => Copy!Next
  BY StepImplements
<1> QED BY <1>1, <1>2, InitTyped, StepTyped, InitFaithful, InitImplements, PTL
        DEF Spec, CopyPromise, Copy!Spec
=============================================================================
