--------------------------- MODULE MCItemUpdater ---------------------------
(***************************************************************************)
(* Small instances of ItemUpdater for TLC.                                 *)
(***************************************************************************)
EXTENDS ItemUpdater, TLC

CONSTANTS
    old, new,   \* contents of a character
    itemOld, itemNew, itemBad,  \* contents of a row's column
    c1, c2, c3, r0, r1, w1, w2

\* A torn character is refused like one that holds an item updateItem refuses.  An update
\* that keeps the resref is applied again by every run.
MCUpdateFew == old :> new @@ new :> NoMatch
MCUpdateAgain == new :> new

MCUpdateItem ==
    itemOld :> itemNew @@ itemNew :> itemNew @@ itemBad :> Throws

\* One row per target: the second one is read from the first one's snapshot.
MCTableOf == r0 :> 1 @@ r1 :> 2
NoFunction == <<>>

Cmd(dry, yes, useVault, sql) ==
    [dry |-> dry, yes |-> yes, vault |-> useVault, sql |-> sql]

OneVaultRun == {Cmd(FALSE, TRUE, TRUE, FALSE)}
SqlOptions ==
    {Cmd(FALSE, FALSE, FALSE, TRUE), Cmd(FALSE, FALSE, TRUE, TRUE),
     Cmd(TRUE, FALSE, TRUE, TRUE)}
SqlOnly == {Cmd(FALSE, FALSE, FALSE, TRUE)}

Symmetric == Permutations(Chars) \union Permutations(Workers)
=============================================================================
