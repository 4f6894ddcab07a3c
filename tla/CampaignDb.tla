----------------------------- MODULE CampaignDb -----------------------------
(***************************************************************************)
(* Campaign variables in MySQL: the migration of a FoxPro database         *)
(* (camtosql/source/app.d) and the script library that takes the place of  *)
(* the game's functions (res/library_tpl.nss, as upgrade_scripts.d         *)
(* generates it for one table per campaign or for a single table).         *)
(*                                                                         *)
(* The two make their tables with different primary keys: the library's    *)
(* has the type in it, the migration's has not.  They also encode the name *)
(* of a campaign differently.                                              *)
(*                                                                         *)
(* A name is abstracted to the characters the encodings tell apart.  MySQL *)
(* runs each statement as a transaction of its own; statements of the      *)
(* library do not fail, one of the migration may and ends it.              *)
(***************************************************************************)
EXTENDS Naturals, Sequences, FiniteSets

CONSTANTS
    Campaigns,                  \* names scripts and .dbf files use
    Lower, Kept,                \* a name in lower case; a name without its upper case
    Chars, PcId,                \* the characters of the vault, and the id of each
    Variables,                  \* the FoxPro rows, in order: [cam, pcid, type, name, value]
    Names, TextTypes, Values,
    Nobody, Null,               \* no owner: the module; the NULL value
    MaxOps, MaxMigrations

Types == TextTypes \union {"object"}
Owners == Chars \union {Nobody}

ASSUME CampaignParams ==
    /\ Lower \in [Campaigns -> STRING] /\ Kept \in [Campaigns -> STRING]
    /\ PcId \in [Chars -> STRING]
    /\ Nobody \notin Chars /\ Null \notin Values /\ "object" \notin TextTypes
    /\ Variables \in Seq([cam : Campaigns, pcid : STRING, type : Types, name : Names,
                          value : Values \union {Null}])
    /\ MaxOps \in Nat /\ MaxMigrations \in Nat

VARIABLES
    layout,                     \* "single" (--sql-table-name) or "tables" (--sql-table-prefix)
    madeBy,                     \* who made each table that exists: its primary key
    rows,                       \* all of them, with the table each is in
    inited,                     \* __cam_db_init of the running game module
    step,                       \* the next row of the migration, or 0: none runs
    migrations,
    knownIDs,
    fresh,                      \* a migration has just ended
    last,                       \* the Set or Store the last step was: [key, value, answer]
    ops

None == [key |-> <<>>]

dbVars == <<layout, madeBy, rows, inited>>
toolVars == <<step, migrations, knownIDs, fresh>>
vars == <<dbVars, toolVars, last, ops>>

-----------------------------------------------------------------------------
(* Names of tables and campaigns *)

Single == layout = "single"

\* The library: _CampaignDB_EncodeTableName; the column is the encoded name too.
LibName(c) == Lower[c]
LibTable(c) == IF Single THEN "all" ELSE LibName(c)

\* The migration: encodeDBTableName drops upper case; the column is the file's name.
MigTable(c) == IF Single THEN "all" ELSE Kept[c]
MigName(c) == IF Single THEN c ELSE Kept[c]

Tables == {"all"} \union {Lower[c] : c \in Campaigns} \union {Kept[c] : c \in Campaigns}
Columns == Campaigns \union Tables

Row(table, column, owner, name, type, value) ==
    [table |-> table, cam |-> column, owner |-> owner, name |-> name, type |-> type,
     value |-> value]

\* The rows an INSERT would collide with, by the primary key of the table.
Duplicates(r) ==
    {s \in rows : /\ s.table = r.table /\ s.cam = r.cam
                  /\ s.owner = r.owner /\ s.name = r.name
                  /\ madeBy'[r.table] = "library" => s.type = r.type}

\* Mutant: the type is left as it was.
Upsert_keepsType(r) ==
    LET old == Duplicates(r)
    IN  rows' = (rows \ old) \union
                (IF old = {} THEN {r} ELSE {[s EXCEPT !.value = r.value] : s \in old})

\* INSERT ... ON DUPLICATE KEY UPDATE type, value, value_obj; its table is there (TypeOK).
Upsert(r) == rows' = (rows \ Duplicates(r)) \union {r}

\* How many rows MySQL says an Upsert affected.
Affected(r) ==
    IF r \in rows THEN 0 ELSE IF Duplicates(r) # {} THEN 2 ELSE 1

-----------------------------------------------------------------------------
(* The script library, in the running game *)

\* Mutant: the table is only made by the first campaign that needs one.
MakeTable_once(t) ==
    /\ madeBy' = IF inited = {} /\ madeBy[t] = "nobody" THEN [madeBy EXCEPT ![t] = "library"]
                 ELSE madeBy
    /\ inited' = inited \union {t}

\* TABLE_INIT_VAR and CREATE TABLE IF NOT EXISTS
MakeTable(t) ==
    /\ madeBy' = IF t \notin inited /\ madeBy[t] = "nobody"
                 THEN [madeBy EXCEPT ![t] = "library"] ELSE madeBy
    /\ inited' = inited \union {t}

InGame == step = 0 /\ ops < MaxOps /\ ops' = ops + 1 /\ fresh' = FALSE

SetCampaign(c, o, n, t, v) ==
    LET table == LibTable(c)
        r == Row(table, LibName(c), o, n, t, v)
    IN  /\ t \in TextTypes
        /\ MakeTable(table)
        /\ Upsert(r)
        /\ last' = [key |-> <<c, o, n, t>>, value |-> v, answer |-> TRUE]
        /\ UNCHANGED layout

\* _CampaignDB_Select: the row of the type, or nothing.
Select(c, o, n, t) ==
    {r \in rows : /\ r.table = LibTable(c) /\ r.cam = LibName(c)
                  /\ r.owner = o /\ r.name = n /\ r.type = t}

\* RetrieveCampaignObjectSQL does not look at the campaign.
Retrieve(c, o, n) ==
    {r \in rows : /\ r.table = LibTable(c)
                  /\ r.owner = o /\ r.name = n /\ r.type = "object"}

StoreCampaignObject(c, o, n, v) ==
    LET table == LibTable(c)
        r == Row(table, LibName(c), o, n, "object", v)
    IN  /\ MakeTable(table)
        /\ Upsert(r)
        /\ last' = [key |-> <<c, o, n, "object">>, value |-> v,
                         answer |-> Affected(r) = 1]
        /\ UNCHANGED layout

\* Mutant: the other campaigns of the table too.
DeleteCampaignVariable_all(c, o, n) ==
    /\ rows' = {IF r.table = LibTable(c) /\ r.owner = o /\ r.name = n
                THEN [r EXCEPT !.value = Null] ELSE r : r \in rows}
    /\ last' = None
    /\ UNCHANGED <<layout, madeBy, inited>>

DeleteCampaignVariable(c, o, n) ==
    /\ rows' = {IF r.table = LibTable(c) /\ r.cam = LibName(c) /\ r.owner = o /\ r.name = n
                THEN [r EXCEPT !.value = Null] ELSE r : r \in rows}
    /\ last' = None
    /\ UNCHANGED <<layout, madeBy, inited>>

DestroyCampaignDatabase(c) ==
    /\ rows' = {r \in rows : ~(r.table = LibTable(c) /\ r.cam = LibName(c))}
    /\ IF Single THEN UNCHANGED <<madeBy, inited>>
       ELSE /\ madeBy' = [madeBy EXCEPT ![LibTable(c)] = "nobody"]
            /\ inited' = inited \ {LibTable(c)}
    /\ last' = None
    /\ UNCHANGED layout

PackCampaignDatabase(c) ==
    /\ rows' = {r \in rows : ~(r.table = LibTable(c) /\ r.cam = LibName(c) /\ r.value = Null)}
    /\ last' = None
    /\ UNCHANGED <<layout, madeBy, inited>>

\* The game server restarts: local variables of the module are gone.
Restart ==
    /\ inited' = {}
    /\ last' = None
    /\ UNCHANGED <<layout, madeBy, rows>>

Library ==
    /\ InGame /\ UNCHANGED <<step, migrations, knownIDs>>
    /\ \/ \E c \in Campaigns, o \in Owners, n \in Names :
             \/ \E t \in TextTypes, v \in Values : SetCampaign(c, o, n, t, v)
             \/ \E v \in Values : StoreCampaignObject(c, o, n, v)
             \/ DeleteCampaignVariable(c, o, n)
       \/ \E c \in Campaigns : DestroyCampaignDatabase(c) \/ PackCampaignDatabase(c)
       \/ Restart

-----------------------------------------------------------------------------
(* The migration *)

\* The vault is read in whatever order the directory has: of the characters with the
\* same id, the last one owns the variables.
StartMigration ==
    /\ step = 0 /\ migrations < MaxMigrations
    /\ migrations' = migrations + 1
    /\ knownIDs' \in {f \in [{PcId[ch] : ch \in Chars} -> Chars] :
                        \A id \in DOMAIN f : PcId[f[id]] = id}
    /\ step' = 1 /\ fresh' = FALSE
    /\ madeBy' = IF Single /\ madeBy["all"] = "nobody"
                 THEN [madeBy EXCEPT !["all"] = "migration"] ELSE madeBy
    /\ last' = None
    /\ UNCHANGED <<layout, rows, inited, ops>>

Known(id) == id = "" \/ id \in DOMAIN knownIDs
OwnerOf(id) == IF id = "" THEN Nobody ELSE knownIDs[id]

\* The tables of a database are made when the first of its rows is migrated; a row of
\* an unknown owner is rejected.
MigrateRow ==
    /\ step \in DOMAIN Variables
    /\ LET var == Variables[step]
           table == MigTable(var.cam)
       IN  /\ madeBy' = IF madeBy[table] = "nobody"
                        THEN [madeBy EXCEPT ![table] = "migration"] ELSE madeBy
           /\ IF Known(var.pcid)
              THEN Upsert(Row(table, MigName(var.cam), OwnerOf(var.pcid), var.name,
                              var.type, var.value))
              ELSE UNCHANGED rows
    /\ step' = step + 1
    /\ last' = None
    /\ UNCHANGED <<layout, inited, migrations, knownIDs, fresh, ops>>

\* Mutant: the last row is left.
MigrationEnds_early ==
    /\ step = Len(Variables)
    /\ step' = 0 /\ fresh' = TRUE
    /\ last' = None
    /\ UNCHANGED <<dbVars, migrations, knownIDs, ops>>

MigrationEnds ==
    /\ step = Len(Variables) + 1
    /\ step' = 0 /\ fresh' = TRUE
    /\ last' = None
    /\ UNCHANGED <<dbVars, migrations, knownIDs, ops>>

\* A statement fails: the exception ends the tool.
MigrationFails ==
    /\ step > 0
    /\ step' = 0
    /\ last' = None
    /\ UNCHANGED <<dbVars, migrations, knownIDs, fresh, ops>>

Migration == StartMigration \/ MigrateRow \/ MigrationEnds \/ MigrationFails

-----------------------------------------------------------------------------
Init ==
    /\ layout \in {"single", "tables"}
    /\ madeBy = [t \in Tables |-> "nobody"] /\ rows = {} /\ inited = {}
    /\ step = 0 /\ migrations = 0 /\ fresh = FALSE
    /\ knownIDs = [id \in {} |-> Nobody]
    /\ last = None /\ ops = 0

Next == Library \/ Migration

Spec == Init /\ [][Next]_vars

-----------------------------------------------------------------------------
(* Properties *)

\* The value a script gets, or Null: of a text type by _CampaignDB_Select, of an object
\* by RetrieveCampaignObjectSQL, which takes any of the rows it finds.
Found(c, o, n, t) == IF t = "object" THEN Retrieve(c, o, n) ELSE Select(c, o, n, t)
Got(c, o, n, t) ==
    IF Found(c, o, n, t) = {} THEN Null ELSE (CHOOSE r \in Found(c, o, n, t) : TRUE).value

\* A table that a script takes for made exists; no two rows have one primary key,
\* whichever of the two keys the table has.
TypeOK ==
    /\ madeBy \in [Tables -> {"nobody", "library", "migration"}]
    /\ rows \subseteq [table : Tables, cam : Columns, owner : Owners, name : Names,
                       type : Types, value : Values \union {Null}]
    /\ inited \subseteq {t \in Tables : madeBy[t] # "nobody"}
    /\ step \in 0 .. Len(Variables) + 1 /\ migrations \in 0 .. MaxMigrations /\ ops \in 0 .. MaxOps
    /\ \A r, s \in rows :
          (/\ r.table = s.table /\ r.cam = s.cam /\ r.owner = s.owner /\ r.name = s.name
           /\ madeBy[r.table] = "library" => r.type = s.type) => r = s

\* What a script has just set it gets back, of the type it set, whoever made the table
\* and whichever script set it before: the two tools and a restart of the game agree
\* on tables, keys and columns (library_tpl.nss:90-116, 120-142, 337-368).  An object
\* is among the ones RetrieveCampaignObjectSQL may take.
SetIsGot ==
    last # None =>
        LET k == last.key
        IN  /\ \E r \in Found(k[1], k[2], k[3], k[4]) : r.value = last.value
            /\ k[4] # "object" \/ layout = "tables" =>
                 Cardinality(Found(k[1], k[2], k[3], k[4])) = 1

\* Migration of one row is undone by a later one of the same key.
Superseded(i) ==
    \E j \in i + 1 .. Len(Variables) :
        LET a == Variables[i]
            b == Variables[j]
        IN  /\ MigTable(a.cam) = MigTable(b.cam) /\ MigName(a.cam) = MigName(b.cam)
            /\ a.pcid = b.pcid /\ a.name = b.name

SameEncoding(c) == LibTable(c) = MigTable(c) /\ LibName(c) = MigName(c)

\* After a migration that ended, run once or again after a failure, over tables that
\* scripts or an earlier migration made, every variable of a known owner (or of the
\* module) that no later row has overwritten is what the library reads for that owner,
\* if the two tools encode the name of its campaign alike (app.d:249-336, 364-374).
MigratedIsRead ==
    fresh => \A i \in DOMAIN Variables :
        LET v == Variables[i]
        IN  Known(v.pcid) /\ SameEncoding(v.cam) /\ ~Superseded(i) /\ v.value # Null =>
                \E r \in Found(v.cam, OwnerOf(v.pcid), v.name, v.type) : r.value = v.value

\* The library keeps the map of variables the game's functions keep: a Set changes its
\* own variable (and, in a table of the migration, others of its name), a Delete those
\* of a name, Destroy those of a campaign, and the rest is as it was
\* (library_tpl.nss:150-320).  Campaigns are the names as they are encoded.  Objects
\* in a table of all campaigns are left out: Retrieve does not tell whose they are.
CampaignOf(name) == CHOOSE c \in Campaigns : LibName(c) = name

Vars ==
    INSTANCE CampaignVars WITH
        Campaigns <- {LibName(c) : c \in Campaigns}, Nothing <- Null,
        importing <- step > 0,
        db <- [k \in {LibName(c) : c \in Campaigns} \X Owners \X Names \X Types |->
                  IF Single /\ k[4] = "object" THEN Null
                  ELSE Got(CampaignOf(k[1]), k[2], k[3], k[4])]

EmulatesCampaign == Vars!Spec

-----------------------------------------------------------------------------
(* What the documents promise beyond that *)

\* "Return: TRUE if the object has been stored, FALSE otherwise" (library_tpl.nss:336).
\* The answer is that one row was affected, and MySQL counts two for one that takes the
\* place of another, and none when it was there already (362-367).
StoredMeansTrue ==
    last # None /\ last.key[4] = "object" =>
        LET k == last.key
            stored == \E r \in Retrieve(k[1], k[2], k[3]) :
                          r.cam = LibName(k[1]) /\ r.value = last.value
        IN  last.answer <=> stored

=============================================================================
