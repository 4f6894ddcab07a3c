------------------------- MODULE MCModuleInstaller -------------------------
(***************************************************************************)
(* Small repositories for ModuleInstaller.  In the first every file has a  *)
(* destination of its own, one is stripped, one is in a subdirectory and   *)
(* one in a subdirectory that is stripped.  In the second a file is        *)
(* renamed, Foo to foo and back.  The third has a file of the second kind  *)
(* of subdirectory, modified by the second commit.                         *)
(***************************************************************************)
EXTENDS ModuleInstaller

Files(ps) == [p \in Paths |-> IF p \in DOMAIN ps THEN ps[p] ELSE NoFile]

MCDest ==
    [p \in {"area.ifo", "chest.utp", "script.nss", "sub/key.uti", ".ci/door.utd"} |->
        CASE p = "area.ifo" -> "area" [] p = "chest.utp" -> "chest"
          [] p = "script.nss" -> Strip [] p = "sub/key.uti" -> "key"
          [] p = ".ci/door.utd" -> "door"]
MCDirOf == [d \in {"area", "chest", "key", "door"} |-> IF d = "area" THEN 1 ELSE 2]
MCRank ==
    [p \in DOMAIN MCDest |->
        CASE p = ".ci/door.utd" -> 1 [] p = "area.ifo" -> 2 [] p = "chest.utp" -> 3
          [] p = "script.nss" -> 4 [] p = "sub/key.uti" -> 5]
MCTree ==
    [c \in {1, 2, 3} |->
        CASE c = 1 -> Files([p \in {"area.ifo", "script.nss", ".ci/door.utd"} |-> "old"])
          [] c = 2 -> Files([p \in {"area.ifo", "chest.utp", ".ci/door.utd"} |-> "new"])
          [] c = 3 -> Files([p \in {"chest.utp", "sub/key.uti"} |-> "old"])]

RenameDest == [p \in {"Foo.utc", "foo.utc"} |-> "foo"]
RenameDirOf == [d \in {"foo"} |-> 2]
RenameRank == [p \in {"Foo.utc", "foo.utc"} |-> IF p = "Foo.utc" THEN 1 ELSE 2]
RenameTree ==
    [c \in {1, 2} |-> Files([p \in {IF c = 1 THEN "foo.utc" ELSE "Foo.utc"} |-> "old"])]

=============================================================================
