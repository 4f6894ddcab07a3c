--------------------------- MODULE MCStagingTool ---------------------------
(***************************************************************************)
(* Two resource files with names of their own, for StagingTool.            *)
(***************************************************************************)
EXTENDS StagingTool

MCNameOf == [f \in {"hak/A.hak", "tlk/b.tlk"} |-> IF f = "hak/A.hak" THEN "a.hak" ELSE "b.tlk"]
OneName == [f \in {"hak/A.hak"} |-> "a.hak"]

=============================================================================
