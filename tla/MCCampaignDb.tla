---------------------------- MODULE MCCampaignDb ----------------------------
(***************************************************************************)
(* Three names of campaigns: two that are the same in lower case, of which *)
(* one loses its only character in the migration.  Two characters whose    *)
(* identifiers agree.  The rows to migrate have a variable of each owner,  *)
(* one deleted, one of an owner no longer in the vault, and one name with  *)
(* two types.                                                              *)
(***************************************************************************)
EXTENDS CampaignDb, TLC

MCLower == [c \in {"a", "A", "b"} |-> IF c = "A" THEN "a" ELSE c]
MCKept == [c \in {"a", "A", "b"} |-> IF c = "A" THEN "" ELSE c]
MCPcId == [ch \in Chars |-> "pc"]

FoxPro(c, id, t, v) == [cam |-> c, pcid |-> id, type |-> t, name |-> "n", value |-> v]

MCVariables ==
    <<FoxPro("a", "pc", "int", 2), FoxPro("A", "gone", "int", 1), FoxPro("b", "", "int", Null),
      FoxPro("b", "", "object", 2), FoxPro("A", "", "int", 1), FoxPro("b", "pc", "int", 1)>>

Symmetry == Permutations(Chars)

=============================================================================
