--------------------------- MODULE InstalledCopy ---------------------------
(***************************************************************************)
(* What nwn2-moduleinstaller promises (moduleinstaller/README.md:3-10): a  *)
(* copy of a module that, while it is said to be that of a commit, is a    *)
(* copy of that commit's files, and is not touched.                        *)
(***************************************************************************)
CONSTANTS
    Commits,
    CopiesOf,   \* the copies there may be of a commit's files
    Files,      \* all that can be on disk there
    None        \* the copy is not said to be that of any commit

VARIABLES copy, files

Init == copy = None /\ files \in Files

\* A run begins, works, or is killed: nothing is promised.
Work == copy' = None /\ files' \in Files

\* A run ends.
Finish(c) ==
    /\ files \in CopiesOf[c]
    /\ copy' = c
    /\ UNCHANGED files

Next == Work \/ \E c \in Commits : Finish(c)

Spec == Init /\ [][Next]_<<copy, files>>

=============================================================================
