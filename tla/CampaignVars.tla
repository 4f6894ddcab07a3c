---------------------------- MODULE CampaignVars ----------------------------
(***************************************************************************)
(* What a campaign database is to a script: a value, or nothing, for each  *)
(* campaign, owner, variable name and type.  The functions of the library  *)
(* promise to "emulate" the ones of the game that keep this map            *)
(* (library_tpl.nss:140-222); CampaignDb is shown to.                      *)
(***************************************************************************)
CONSTANTS Campaigns, Owners, Names, Types, Values, Nothing

VARIABLES db, importing

Keys == Campaigns \X Owners \X Names \X Types
SameName(k, l) == k[1] = l[1] /\ k[2] = l[2] /\ k[3] = l[3]

Init == db \in [Keys -> Values \union {Nothing}] /\ importing = FALSE

\* A table the migration made has one row for a name: writing a variable may take the
\* place of those of another type.
Write(k) ==
    \A l \in Keys \ {k} : db'[l] = db[l] \/ (SameName(k, l) /\ db'[l] = Nothing)

Set == \E k \in Keys : db'[k] \in Values /\ Write(k)

Delete ==
    \E k \in Keys : db' = [l \in Keys |-> IF SameName(k, l) THEN Nothing ELSE db[l]]

Destroy ==
    \E c \in Campaigns : db' = [l \in Keys |-> IF l[1] = c THEN Nothing ELSE db[l]]

ByScript == ~importing /\ UNCHANGED importing /\ (Set \/ Delete \/ Destroy)

\* A migrated row may be one deleted in the game.
Import ==
    /\ importing /\ UNCHANGED importing
    /\ \E k \in Keys : db'[k] \in Values \union {Nothing} /\ Write(k)

Switch == importing' = ~importing /\ UNCHANGED db

Spec == Init /\ [][ByScript \/ Import \/ Switch]_<<db, importing>>

=============================================================================
