-------------------------- MODULE CampaignDbProofs --------------------------
(***************************************************************************)
(* What TLAPS proves of CampaignDb, for any campaigns and any way the two  *)
(* tools encode their names, any vault, database to migrate and number of  *)
(* migrations, calls of scripts and restarts of the game.                  *)
(***************************************************************************)
EXTENDS CampaignDb, FiniteSetTheorems, TLAPS

-----------------------------------------------------------------------------
(* Types and primary keys *)

\* Two rows a table with the primary key of its maker does not hold both.
SameKey(r, s) ==
    /\ r.table = s.table /\ r.cam = s.cam /\ r.owner = s.owner /\ r.name = s.name
    /\ madeBy[r.table] = "library" => r.type = s.type

\* One table for a campaign has the rows of no other.
OwnTables == ~Single => \A r \in rows : r.table = r.cam

\* A character that was read has the identifier it was found by.
VaultRead == \A id \in DOMAIN knownIDs : knownIDs[id] \in Chars /\ PcId[knownIDs[id]] = id

TypeInv == TypeOK /\ IsFiniteSet(rows) /\ OwnTables /\ VaultRead

RowType == [table : Tables, cam : Columns, owner : Owners, name : Names, type : Types,
            value : Values \union {Null}]

\* TypeOK, with the operators above.
LEMMA TypeOKIs ==
    TypeOK <=>
        /\ madeBy \in [Tables -> {"nobody", "library", "migration"}]
        /\ rows \subseteq RowType
        /\ inited \subseteq {t \in Tables : madeBy[t] # "nobody"}
        /\ step \in 0 .. Len(Variables) + 1 /\ migrations \in 0 .. MaxMigrations
        /\ ops \in 0 .. MaxOps
        /\ \A r, s \in rows : SameKey(r, s) => r = s
BY DEF TypeOK, RowType, SameKey

\* The tables and columns of the library and of the migration are tables and columns.
LEMMA Encodings ==
    ASSUME NEW c \in Campaigns
    PROVE  /\ LibTable(c) \in Tables /\ MigTable(c) \in Tables
           /\ LibName(c) \in Columns /\ MigName(c) \in Columns
           /\ ~Single => LibTable(c) = LibName(c) /\ MigTable(c) = MigName(c)
<1>1. Lower[c] \in Tables /\ Kept[c] \in Tables /\ "all" \in Tables
  BY DEF Tables
<1>2. LibName(c) \in Columns /\ MigName(c) \in Columns
  BY <1>1 DEF LibName, MigName, Columns
<1> QED BY <1>1, <1>2 DEF LibTable, MigTable, LibName, MigName

LEMMA VariableTyped ==
    ASSUME NEW i \in DOMAIN Variables
    PROVE  /\ Variables[i].cam \in Campaigns /\ Variables[i].type \in Types
           /\ Variables[i].name \in Names /\ Variables[i].value \in Values \union {Null}
           /\ Variables[i].pcid \in STRING
           /\ i \in 1 .. Len(Variables)
<1> DEFINE Vs == [cam : Campaigns, pcid : STRING, type : Types, name : Names,
                  value : Values \union {Null}]
<1>1. Variables \in Seq(Vs) BY CampaignParams
<1>2. i \in 1 .. Len(Variables) /\ Variables[i] \in Vs
  <2> HIDE DEF Vs
  <2> QED BY <1>1
<1> QED BY <1>2

LEMMA RowTyped ==
    ASSUME NEW t \in Tables, NEW c \in Columns, NEW o \in Owners, NEW n \in Names,
           NEW y \in Types, NEW v \in Values \union {Null}
    PROVE  Row(t, c, o, n, y, v) \in RowType
BY DEF Row, RowType

\* An INSERT ... ON DUPLICATE KEY UPDATE keeps the primary keys of the table it is made
\* in, when the table has just been made too, whoever made it.
LEMMA UpsertKeepsKeys ==
    ASSUME TypeInv, NEW r \in RowType, Upsert(r), UNCHANGED layout,
           madeBy' \in [Tables -> {"nobody", "library", "migration"}],
           \A t \in Tables : madeBy[t] # "nobody" => madeBy'[t] = madeBy[t],
           ~Single => r.table = r.cam
    PROVE  /\ rows' \subseteq RowType /\ IsFiniteSet(rows') /\ OwnTables'
           /\ \A s, q \in rows' : SameKey(s, q)' => s = q
<1>1. rows' = (rows \ Duplicates(r)) \union {r} BY DEF Upsert
<1>2. rows' \subseteq RowType BY <1>1, TypeOKIs DEF TypeInv
<1>3. IsFiniteSet(rows')
  <2>1. IsFiniteSet(rows \ Duplicates(r)) BY FS_Subset DEF TypeInv
  <2> QED BY <1>1, <2>1, FS_AddElement
<1>4. OwnTables' BY <1>1 DEF OwnTables, TypeInv, Single
<1>5. \A s \in rows \ Duplicates(r) : ~SameKey(s, r)' /\ ~SameKey(r, s)'
  BY DEF Duplicates, SameKey
<1>6. \A s, q \in rows : SameKey(s, q)' => s = q
  BY TypeOKIs DEF SameKey, TypeInv, RowType
<1> QED BY <1>1, <1>2, <1>3, <1>4, <1>5, <1>6

LEMMA InitTyped == Init => TypeInv
<1> SUFFICES ASSUME Init PROVE TypeInv OBVIOUS
<1>1. TypeOK BY CampaignParams DEF Init, TypeOK
<1>2. IsFiniteSet(rows) BY FS_EmptySet DEF Init
<1> QED BY <1>1, <1>2 DEF Init, TypeInv, OwnTables, VaultRead

\* CREATE TABLE IF NOT EXISTS changes the maker of no table there is.
LEMMA MakeTableTyped ==
    ASSUME TypeInv, NEW t \in Tables, MakeTable(t)
    PROVE  /\ madeBy' \in [Tables -> {"nobody", "library", "migration"}]
           /\ \A u \in Tables : madeBy[u] # "nobody" => madeBy'[u] = madeBy[u]
           /\ inited' \subseteq {u \in Tables : madeBy'[u] # "nobody"}
           /\ madeBy'[t] # "nobody"
BY DEF MakeTable, TypeInv, TypeOK

\* What the functions of the library leave alone.
LEMMA InGameTyped ==
    ASSUME TypeInv, InGame, UNCHANGED <<step, migrations, knownIDs>>
    PROVE  /\ step' \in 0 .. Len(Variables) + 1 /\ migrations' \in 0 .. MaxMigrations
           /\ ops' \in 0 .. MaxOps /\ VaultRead'
BY CampaignParams DEF TypeInv, TypeOK, InGame, VaultRead

LEMMA UpsertsTyped ==
    ASSUME TypeInv, InGame, UNCHANGED <<step, migrations, knownIDs>>,
           NEW c \in Campaigns, NEW o \in Owners, NEW n \in Names, NEW y \in Types,
           NEW v \in Values, UNCHANGED layout, MakeTable(LibTable(c)),
           Upsert(Row(LibTable(c), LibName(c), o, n, y, v))
    PROVE  TypeInv'
<1> DEFINE r == Row(LibTable(c), LibName(c), o, n, y, v)
<1>1. r \in RowType /\ (~Single => r.table = r.cam)
  BY RowTyped, Encodings DEF Row
<1>2. LibTable(c) \in Tables BY Encodings
<1> HIDE DEF r
<1>3. /\ rows' \subseteq RowType /\ IsFiniteSet(rows') /\ OwnTables'
      /\ \A s, q \in rows' : SameKey(s, q)' => s = q
  BY <1>1, <1>2, UpsertKeepsKeys, MakeTableTyped DEF r
<1> QED BY <1>2, <1>3, MakeTableTyped, InGameTyped, TypeOKIs DEF TypeInv, TypeOK, RowType, SameKey

\* Rows that are updated in place keep their keys.
LEMMA DeleteTyped ==
    ASSUME TypeInv, InGame, UNCHANGED <<step, migrations, knownIDs>>,
           NEW c \in Campaigns, NEW o \in Owners, NEW n \in Names,
           DeleteCampaignVariable(c, o, n)
    PROVE  TypeInv'
<1> DEFINE Nulled(r) ==
        IF r.table = LibTable(c) /\ r.cam = LibName(c) /\ r.owner = o /\ r.name = n
        THEN [r EXCEPT !.value = Null] ELSE r
<1>1. rows' = {Nulled(r) : r \in rows} /\ UNCHANGED <<layout, madeBy, inited>>
  BY DEF DeleteCampaignVariable
<1>2. \A r \in rows : /\ Nulled(r) \in RowType
                      /\ Nulled(r).table = r.table /\ Nulled(r).cam = r.cam
                      /\ Nulled(r).owner = r.owner /\ Nulled(r).name = r.name
                      /\ Nulled(r).type = r.type
  BY TypeOKIs DEF TypeInv, RowType
<1>3. IsFiniteSet(rows')
  <2> DEFINE g == [r \in rows |-> Nulled(r)]
  <2>1. g \in Surjection(rows, rows') BY <1>1 DEF Surjection
  <2> HIDE DEF g
  <2> QED BY <2>1, FS_Surjection DEF TypeInv
<1> HIDE DEF Nulled
<1>4. \A s, q \in rows' : SameKey(s, q)' => s = q
  <2> SUFFICES ASSUME NEW s \in rows', NEW q \in rows', SameKey(s, q)' PROVE s = q
    OBVIOUS
  <2>1. PICK a \in rows : s = Nulled(a) BY <1>1
  <2>2. PICK b \in rows : q = Nulled(b) BY <1>1
  <2>3. SameKey(a, b) BY <1>1, <1>2, <2>1, <2>2 DEF SameKey
  <2> QED BY <2>1, <2>2, <2>3, TypeOKIs DEF TypeInv
<1>5. rows' \subseteq RowType /\ OwnTables'
  BY <1>1, <1>2 DEF OwnTables, TypeInv, Single
<1> QED
  BY <1>1, <1>3, <1>4, <1>5, InGameTyped DEF TypeInv, TypeOK, RowType, SameKey

\* A table that is dropped takes its rows along; the next one of its name may have the
\* other key.
LEMMA DestroyTyped ==
    ASSUME TypeInv, InGame, UNCHANGED <<step, migrations, knownIDs>>,
           NEW c \in Campaigns, DestroyCampaignDatabase(c)
    PROVE  TypeInv'
<1>1. rows' = {r \in rows : ~(r.table = LibTable(c) /\ r.cam = LibName(c))} /\ layout' = layout
  BY DEF DestroyCampaignDatabase
<1>2. IsFiniteSet(rows') BY <1>1, FS_Subset DEF TypeInv
<1>3. OwnTables' BY <1>1 DEF OwnTables, TypeInv, Single
<1>4. CASE Single
  BY <1>1, <1>2, <1>3, <1>4, InGameTyped DEF DestroyCampaignDatabase, TypeInv, TypeOK
<1>5. CASE ~Single
  <2>1. \A r \in rows' : r.table # LibTable(c) BY <1>1, <1>5, Encodings DEF TypeInv, OwnTables
  <2>2. /\ madeBy' = [madeBy EXCEPT ![LibTable(c)] = "nobody"]
        /\ inited' = inited \ {LibTable(c)}
    BY <1>5 DEF DestroyCampaignDatabase
  <2>3. \A r \in rows' : r \in rows /\ madeBy'[r.table] = madeBy[r.table]
    BY <1>1, <2>1, <2>2 DEF TypeInv, TypeOK
  <2> QED BY <1>1, <1>2, <1>3, <2>2, <2>3, InGameTyped DEF TypeInv, TypeOK
<1> QED BY <1>4, <1>5

LEMMA LibraryTyped == ASSUME TypeInv, Library PROVE TypeInv'
<1> USE DEF Library
<1>1. CASE \E c \in Campaigns, o \in Owners, n \in Names, t \in TextTypes, v \in Values :
               SetCampaign(c, o, n, t, v)
  BY <1>1, UpsertsTyped DEF SetCampaign, Types
<1>2. CASE \E c \in Campaigns, o \in Owners, n \in Names, v \in Values :
               StoreCampaignObject(c, o, n, v)
  BY <1>2, UpsertsTyped DEF StoreCampaignObject, Types
<1>3. CASE \E c \in Campaigns, o \in Owners, n \in Names : DeleteCampaignVariable(c, o, n)
  BY <1>3, DeleteTyped
<1>4. CASE \E c \in Campaigns : DestroyCampaignDatabase(c)
  BY <1>4, DestroyTyped
<1>5. CASE \E c \in Campaigns : PackCampaignDatabase(c)
  <2>1. rows' \subseteq rows /\ UNCHANGED <<layout, madeBy, inited>>
    BY <1>5 DEF PackCampaignDatabase
  <2>2. IsFiniteSet(rows') BY <2>1, FS_Subset DEF TypeInv
  <2> QED BY <2>1, <2>2, InGameTyped DEF TypeInv, TypeOK, OwnTables, Single
<1>6. CASE Restart
  BY <1>6, InGameTyped DEF Restart, TypeInv, TypeOK, OwnTables, Single
<1> QED BY <1>1, <1>2, <1>3, <1>4, <1>5, <1>6

LEMMA StartMigrationTyped == ASSUME TypeInv, StartMigration PROVE TypeInv'
<1> USE DEF TypeInv
<1>1. PICK f \in [{PcId[ch] : ch \in Chars} -> Chars] :
          knownIDs' = f /\ \A id \in DOMAIN f : PcId[f[id]] = id
  BY DEF StartMigration
<1>2. VaultRead' BY <1>1 DEF VaultRead
<1>3. step' \in 0 .. Len(Variables) + 1
  BY CampaignParams DEF StartMigration
<1>4. migrations' \in 0 .. MaxMigrations
  BY CampaignParams DEF StartMigration, TypeOK
<1>5. UNCHANGED <<layout, rows, inited, ops>> BY DEF StartMigration
<1>6. /\ madeBy' \in [Tables -> {"nobody", "library", "migration"}]
      /\ \A t \in Tables : madeBy[t] # "nobody" => madeBy'[t] = madeBy[t]
      /\ \A t \in Tables : madeBy'[t] # madeBy[t] => madeBy'[t] = "migration"
  BY DEF StartMigration, TypeOK, Tables
<1> QED BY <1>2, <1>3, <1>4, <1>5, <1>6 DEF TypeOK, OwnTables, Single

\* The rows of one variable go to one owner, and those of an owner have one identifier.
LEMMA OwnerTyped ==
    ASSUME VaultRead, NEW id, Known(id)
    PROVE  /\ OwnerOf(id) \in Owners
           /\ id # "" => OwnerOf(id) # Nobody /\ PcId[OwnerOf(id)] = id
BY CampaignParams DEF VaultRead, Known, OwnerOf, Owners

LEMMA MigrateRowTyped == ASSUME TypeInv, MigrateRow PROVE TypeInv'
<1> DEFINE var == Variables[step]
           table == MigTable(var.cam)
           r == Row(table, MigName(var.cam), OwnerOf(var.pcid), var.name, var.type,
                    var.value)
<1>1. /\ var.cam \in Campaigns /\ var.type \in Types /\ var.name \in Names
      /\ var.value \in Values \union {Null} /\ step \in 1 .. Len(Variables)
  BY VariableTyped DEF MigrateRow
<1>2. table \in Tables BY <1>1, Encodings
<1>3. /\ madeBy' = IF madeBy[table] = "nobody"
                   THEN [madeBy EXCEPT ![table] = "migration"] ELSE madeBy
      /\ IF Known(var.pcid) THEN Upsert(r) ELSE UNCHANGED rows
      /\ step' = step + 1
      /\ UNCHANGED <<layout, inited, migrations, knownIDs, ops>>
  BY DEF MigrateRow
<1>4. Known(var.pcid) => r \in RowType /\ (~Single => r.table = r.cam)
  BY <1>1, Encodings, OwnerTyped, RowTyped DEF Row, TypeInv
<1> HIDE DEF r, table
<1>5. /\ madeBy' \in [Tables -> {"nobody", "library", "migration"}]
      /\ \A t \in Tables : madeBy[t] # "nobody" => madeBy'[t] = madeBy[t]
      /\ \A t \in Tables : madeBy'[t] # madeBy[t] => madeBy'[t] = "migration"
  BY <1>2, <1>3 DEF TypeInv, TypeOK
<1>6. /\ rows' \subseteq RowType /\ IsFiniteSet(rows') /\ OwnTables'
      /\ \A s, q \in rows' : SameKey(s, q)' => s = q
  <2>1. CASE Known(var.pcid)
    BY <1>3, <1>4, <1>5, <2>1, UpsertKeepsKeys
  <2>2. CASE ~Known(var.pcid)
    BY <1>3, <1>5, <2>2, TypeOKIs DEF TypeInv, OwnTables, Single, SameKey, RowType
  <2> QED BY <2>1, <2>2
<1>7. step' \in 0 .. Len(Variables) + 1 /\ VaultRead'
  BY <1>1, <1>3, CampaignParams DEF TypeInv, VaultRead
<1>8. inited' \subseteq {t \in Tables : madeBy'[t] # "nobody"}
  BY <1>3, <1>5 DEF TypeInv, TypeOK
<1> QED
  BY <1>3, <1>5, <1>6, <1>7, <1>8 DEF TypeInv, TypeOK, RowType, SameKey

LEMMA MigrationTyped == ASSUME TypeInv, Migration PROVE TypeInv'
<1>1. CASE MigrationEnds \/ MigrationFails
  BY <1>1, CampaignParams
     DEF MigrationEnds, MigrationFails, TypeInv, TypeOK, OwnTables, VaultRead, Single, dbVars
<1> QED BY <1>1, StartMigrationTyped, MigrateRowTyped DEF Migration

LEMMA StepTyped == ASSUME TypeInv, [Next]_vars PROVE TypeInv'
<1>1. CASE UNCHANGED vars
  BY <1>1 DEF vars, dbVars, toolVars, TypeInv, TypeOK, OwnTables, VaultRead, Single
<1> QED BY <1>1, LibraryTyped, MigrationTyped DEF Next

LEMMA AlwaysTyped == Spec => []TypeInv
BY InitTyped, StepTyped, PTL DEF Spec

\* A table a script takes for made is there, and no table has two rows with the primary
\* key its maker gave it, through every drop of a table by the one tool and creation of
\* it by the other (app.d:249-336, library_tpl.nss:90-116, 310-368).
THEOREM TypeCorrect == Spec => []TypeOK
<1>1. TypeInv => TypeOK BY DEF TypeInv
<1> QED BY <1>1, AlwaysTyped, PTL

-----------------------------------------------------------------------------
(* A script gets back what it set *)

\* The rows the library finds: at most one, objects of a table of all campaigns aside.
FoundOnce ==
    \A c \in Campaigns, o \in Owners, n \in Names, t \in Types :
        ~(Single /\ t = "object") =>
            \A r, s \in Found(c, o, n, t) : r = s

\* Primary keys see to that, and the tables of one campaign.
LEMMA OneIsFound == TypeInv => FoundOnce
<1> SUFFICES ASSUME TypeInv, NEW c \in Campaigns, NEW o \in Owners, NEW n \in Names,
                    NEW t \in Types, ~(Single /\ t = "object"),
                    NEW r \in Found(c, o, n, t), NEW s \in Found(c, o, n, t)
             PROVE  r = s
  BY DEF FoundOnce
<1>1. r \in rows /\ s \in rows BY DEF Found, Retrieve, Select
<1>2. /\ r.table = s.table /\ r.owner = s.owner /\ r.name = s.name /\ r.type = s.type
      /\ r.cam = s.cam
  BY <1>1, Encodings DEF Found, Retrieve, Select, TypeInv, OwnTables
<1> QED BY <1>1, <1>2, TypeOKIs DEF TypeInv, SameKey

\* Of what Set and Store write, the row is found under the name it was written.
LEMMA WrittenIsFound ==
    ASSUME TypeInv, TypeInv', NEW c \in Campaigns, NEW o \in Owners, NEW n \in Names,
           NEW t \in Types, NEW v \in Values, UNCHANGED layout,
           Upsert(Row(LibTable(c), LibName(c), o, n, t, v)),
           last'.key = <<c, o, n, t>>, last'.value = v
    PROVE  SetIsGot'
<1> DEFINE r == Row(LibTable(c), LibName(c), o, n, t, v)
<1>1. r \in rows' BY DEF Upsert
<1>2. LibTable(c)' = LibTable(c) /\ LibName(c)' = LibName(c) /\ Single' = Single
  BY DEF LibTable, LibName, Single
<1>3. r \in Found(c, o, n, t)' /\ r.value = v
  BY <1>1, <1>2 DEF Row, Found, Retrieve, Select
<1> HIDE DEF r
<1>4. ASSUME t = "object" => layout' = "tables"
      PROVE  Cardinality(Found(c, o, n, t)') = 1
  <2>1. ~(Single' /\ t = "object") BY <1>4 DEF Single
  <2>2. \A a, b \in Found(c, o, n, t)' : a = b
    <3>1. FoundOnce' BY OneIsFound, PTL
    <3> QED BY <2>1, <3>1 DEF FoundOnce
  <2>3. Found(c, o, n, t)' = {r} BY <1>3, <2>2
  <2> QED BY <2>3, FS_Singleton
<1> QED BY <1>3, <1>4 DEF SetIsGot

LEMMA StepIsGot == ASSUME TypeInv, SetIsGot, [Next]_vars PROVE SetIsGot'
<1>1. TypeInv' BY StepTyped
<1>2. CASE last' = None BY <1>2 DEF SetIsGot
<1>3. CASE UNCHANGED vars
  BY <1>3 DEF vars, dbVars, SetIsGot, Found, Retrieve, Select, LibTable, LibName, Single
<1>4. CASE \E c \in Campaigns, o \in Owners, n \in Names, t \in TextTypes, v \in Values :
               SetCampaign(c, o, n, t, v)
  BY <1>1, <1>4, WrittenIsFound DEF SetCampaign, Types
<1>5. CASE \E c \in Campaigns, o \in Owners, n \in Names, v \in Values :
               StoreCampaignObject(c, o, n, v)
  BY <1>1, <1>5, WrittenIsFound DEF StoreCampaignObject, Types
<1> QED
  BY <1>2, <1>3, <1>4, <1>5
     DEF Next, Library, Migration, StartMigration, MigrateRow, MigrationEnds, MigrationFails,
         DeleteCampaignVariable, DestroyCampaignDatabase, PackCampaignDatabase, Restart

\* What a script has just set it gets back, of the type it set, and of a text type as
\* the only row it finds, whoever made the table and whatever was migrated, dropped or
\* restarted before (library_tpl.nss:90-116, 120-142, 337-368).
THEOREM SetIsRead == Spec => []SetIsGot
<1>1. Init => SetIsGot BY Zenon DEF Init, SetIsGot
<1> QED BY <1>1, AlwaysTyped, StepIsGot, PTL DEF Spec

-----------------------------------------------------------------------------
(* What was migrated is read *)

\* Another variable of the database goes to the same row as variable i.
Collides(i, j) ==
    LET a == Variables[i]
        b == Variables[j]
    IN  /\ MigTable(a.cam) = MigTable(b.cam) /\ MigName(a.cam) = MigName(b.cam)
        /\ a.pcid = b.pcid /\ a.name = b.name

MigratedRow(i) ==
    LET v == Variables[i]
    IN  Row(MigTable(v.cam), MigName(v.cam), OwnerOf(v.pcid), v.name, v.type, v.value)

\* The rows of the first variables are there, but for those a later one has replaced:
\* no script runs in the meantime.
MigratedTo(i) ==
    \A k \in 1 .. i :
        Known(Variables[k].pcid) /\ (\A j \in k + 1 .. i : ~Collides(k, j))
            => MigratedRow(k) \in rows

MigratedInv ==
    /\ step > 0 => ~fresh /\ MigratedTo(step - 1)
    /\ fresh => MigratedTo(Len(Variables))

\* In this order the migration goes through the variables.
LEMMA MigrateRowMigrates ==
    ASSUME TypeInv, TypeInv', MigratedInv, MigrateRow
    PROVE  MigratedInv'
<1>1. step \in 1 .. Len(Variables) /\ Len(Variables) \in Nat
  BY VariableTyped, CampaignParams DEF MigrateRow
<1>2. /\ step' = step + 1 /\ UNCHANGED <<layout, knownIDs, fresh>>
      /\ IF Known(Variables[step].pcid) THEN Upsert(MigratedRow(step)) ELSE UNCHANGED rows
  BY DEF MigrateRow, MigratedRow
<1>3. ~fresh /\ MigratedTo(step - 1) BY <1>1 DEF MigratedInv
<1> SUFFICES ASSUME NEW k \in 1 .. step, Known(Variables[k].pcid),
                    \A j \in k + 1 .. step : ~Collides(k, j)
             PROVE  MigratedRow(k) \in rows'
  <2>1. \A id : Known(id)' <=> Known(id) BY <1>2 DEF Known
  <2>2. \A k \in 1 .. step : /\ MigratedRow(k)' = MigratedRow(k)
                             /\ \A j \in 1 .. step : Collides(k, j)' <=> Collides(k, j)
    BY <1>2 DEF MigratedRow, Collides, MigTable, MigName, OwnerOf, Single
  <2>3. \A k \in 1 .. step : \A j \in k + 1 .. step : j \in 1 .. step BY <1>1
  <2>4. step' - 1 = step /\ ~fresh' BY <1>1, <1>2, <1>3
  <2> QED BY <2>1, <2>2, <2>3, <2>4 DEF MigratedInv, MigratedTo
<1>4. CASE k = step
  BY <1>2, <1>4 DEF Upsert
<1>5. CASE k \in 1 .. step - 1
  <2>1. MigratedRow(k) \in rows BY <1>1, <1>3, <1>5 DEF MigratedTo
  <2>2. ~Collides(k, step) BY <1>1, <1>5
  <2>3. CASE ~Known(Variables[step].pcid)
    BY <1>2, <2>1, <2>3
  <2>4. CASE Known(Variables[step].pcid)
    <3>1. OwnerOf(Variables[k].pcid) = OwnerOf(Variables[step].pcid)
              => Variables[k].pcid = Variables[step].pcid
      BY <2>4, OwnerTyped DEF TypeInv, OwnerOf
    <3>2. MigratedRow(k) \notin Duplicates(MigratedRow(step))
      BY <2>2, <3>1 DEF Duplicates, MigratedRow, Row, Collides
    <3> QED BY <1>2, <2>1, <2>4, <3>2 DEF Upsert
  <2> QED BY <2>3, <2>4
<1> QED BY <1>1, <1>4, <1>5

LEMMA StepMigrates == ASSUME TypeInv, MigratedInv, [Next]_vars PROVE MigratedInv'
<1>1. CASE UNCHANGED vars
  BY <1>1 DEF vars, dbVars, toolVars, MigratedInv, MigratedTo, MigratedRow, Collides, Known,
              OwnerOf, MigTable, MigName, Single
<1>2. CASE Library
  BY <1>2 DEF Library, InGame, MigratedInv
<1>3. CASE StartMigration
  BY <1>3 DEF StartMigration, MigratedInv, MigratedTo
<1>4. CASE MigrateRow
  BY <1>4, StepTyped, MigrateRowMigrates DEF Next, Migration
<1>5. CASE MigrationEnds \/ MigrationFails
  <2>1. Len(Variables) \in Nat BY CampaignParams
  <2>2. UNCHANGED <<layout, rows, knownIDs>> /\ step' = 0
    BY <1>5 DEF MigrationEnds, MigrationFails, dbVars
  <2>3. fresh' => MigratedTo(Len(Variables))
    <3>1. CASE MigrationEnds
      <4>1. step > 0 /\ step - 1 = Len(Variables) BY <2>1, <3>1 DEF MigrationEnds
      <4> QED BY <4>1 DEF MigratedInv
    <3>2. CASE MigrationFails
      <4>1. step > 0 /\ fresh' = fresh BY <3>2 DEF MigrationFails
      <4> QED BY <4>1 DEF MigratedInv
    <3> QED BY <1>5, <3>1, <3>2
  <2>4. MigratedTo(Len(Variables))' <=> MigratedTo(Len(Variables))
    BY <2>2 DEF MigratedTo, MigratedRow, Collides, Known, OwnerOf, MigTable, MigName, Single
  <2> QED BY <2>2, <2>3, <2>4 DEF MigratedInv
<1> QED BY <1>1, <1>2, <1>3, <1>4, <1>5 DEF Next, Migration

\* After a migration that ended, over tables of either maker and whatever rows were in
\* them, the library reads for its owner every variable of a known owner that no later
\* one has replaced and whose campaign both tools encode alike
\* (app.d:249-336, 364-374, library_tpl.nss:330-368).
THEOREM MigrationIsRead == Spec => []MigratedIsRead
<1>1. Init => MigratedInv
  <2>1. Init => ~(step > 0) BY DEF Init
  <2> QED BY <2>1, Zenon DEF Init, MigratedInv
<1>2. TypeInv /\ MigratedInv => MigratedIsRead
  <2> SUFFICES ASSUME MigratedInv, fresh, NEW i \in DOMAIN Variables,
                      Known(Variables[i].pcid), SameEncoding(Variables[i].cam),
                      ~Superseded(i)
               PROVE  LET v == Variables[i]
                      IN  \E r \in Found(v.cam, OwnerOf(v.pcid), v.name, v.type) :
                              r.value = v.value
    BY Zenon DEF MigratedIsRead
  <2>1. i \in 1 .. Len(Variables) BY VariableTyped
  <2>2. MigratedRow(i) \in rows
    BY <2>1 DEF MigratedInv, MigratedTo, Superseded, Collides
  <2>3. MigratedRow(i) \in Found(Variables[i].cam, OwnerOf(Variables[i].pcid),
                                 Variables[i].name, Variables[i].type)
    BY <2>2 DEF MigratedRow, Row, Found, Retrieve, Select, SameEncoding
  <2> QED BY <2>3 DEF MigratedRow, Row
<1> QED BY <1>1, <1>2, AlwaysTyped, StepMigrates, PTL DEF Spec

-----------------------------------------------------------------------------
(* The library emulates the functions of the game *)

LibNames == {LibName(c) : c \in Campaigns}
Keys == LibNames \X Owners \X Names \X Types
KeyOf(r) == <<r.cam, r.owner, r.name, r.type>>

\* The map of variables, as EmulatesCampaign has it.
Db ==
    [k \in LibNames \X Owners \X Names \X Types |->
        IF Single /\ k[4] = "object" THEN Null
        ELSE Got(CampaignOf(k[1]), k[2], k[3], k[4])]

Shown(k) == ~(Single /\ k[4] = "object")

\* The rows of a variable: one, or none.
At(k) ==
    {r \in rows : r.table = (IF Single THEN "all" ELSE k[1]) /\ KeyOf(r) = k}

\* The map has the values the rows have.
DbIsRows ==
    /\ \A k \in Keys : Db[k] \in Values \union {Null}
    /\ \A k \in Keys : ~Shown(k) \/ At(k) = {} => Db[k] = Null
    /\ \A k \in Keys : Shown(k) => \A r \in At(k) : Db[k] = r.value

LEMMA CampaignOfName ==
    ASSUME NEW name \in LibNames
    PROVE  CampaignOf(name) \in Campaigns /\ LibName(CampaignOf(name)) = name
BY DEF LibNames, CampaignOf

LEMMA KeyTyped ==
    ASSUME NEW k \in Keys
    PROVE  /\ k[1] \in LibNames /\ k[2] \in Owners /\ k[3] \in Names /\ k[4] \in Types
           /\ k = <<k[1], k[2], k[3], k[4]>>
BY DEF Keys

\* What is found for a variable is its rows.
LEMMA FoundIsAt ==
    ASSUME TypeInv, NEW k \in Keys, Shown(k)
    PROVE  Found(CampaignOf(k[1]), k[2], k[3], k[4]) = At(k)
<1> DEFINE c == CampaignOf(k[1])
<1>1. c \in Campaigns /\ LibName(c) = k[1] BY KeyTyped, CampaignOfName
<1>2. LibTable(c) = IF Single THEN "all" ELSE k[1] BY <1>1 DEF LibTable
<1>3. \A r : KeyOf(r) = k <=>
          r.cam = k[1] /\ r.owner = k[2] /\ r.name = k[3] /\ r.type = k[4]
  BY KeyTyped DEF KeyOf
<1> HIDE DEF c
<1>4. CASE k[4] = "object"
  <2>1. ~Single BY <1>4 DEF Shown
  <2>2. \A r \in rows : r.table = k[1] <=> r.cam = k[1]
    BY <2>1 DEF TypeInv, OwnTables
  <2>3. Retrieve(c, k[2], k[3]) = At(k)
    BY <1>2, <1>3, <1>4, <2>1, <2>2 DEF Retrieve, At
  <2> QED BY <1>4, <2>3 DEF Found, c
<1>5. CASE k[4] # "object"
  <2>1. Select(c, k[2], k[3], k[4]) = At(k)
    BY <1>1, <1>2, <1>3 DEF Select, At
  <2> QED BY <1>5, <2>1 DEF Found, c
<1> QED BY <1>4, <1>5

LEMMA DbIsOfRows == TypeInv => DbIsRows
<1> SUFFICES ASSUME TypeInv PROVE DbIsRows OBVIOUS
<1>1. ASSUME NEW k \in Keys
      PROVE  /\ Db[k] \in Values \union {Null}
             /\ ~Shown(k) \/ At(k) = {} => Db[k] = Null
             /\ Shown(k) => \A r \in At(k) : Db[k] = r.value
  <2> DEFINE F == Found(CampaignOf(k[1]), k[2], k[3], k[4])
  <2>1. Db[k] = IF Single /\ k[4] = "object" THEN Null
                ELSE Got(CampaignOf(k[1]), k[2], k[3], k[4])
    BY <1>1 DEF Db, Keys
  <2>2. CASE ~Shown(k) BY <2>1, <2>2 DEF Shown
  <2>3. CASE Shown(k)
    <3>1. F = At(k) BY <2>3, FoundIsAt
    <3>2. Db[k] = IF F = {} THEN Null ELSE (CHOOSE r \in F : TRUE).value
      BY <2>1, <2>3 DEF Shown, Got
    <3>3. \A r \in F : r.value \in Values \union {Null}
      BY <3>1, TypeOKIs DEF At, TypeInv, RowType
    <3>4. \A r, s \in F : r = s
      <4>1. CampaignOf(k[1]) \in Campaigns BY KeyTyped, CampaignOfName
      <4> QED BY <2>3, <4>1, KeyTyped, OneIsFound DEF FoundOnce, Shown
    <3> HIDE DEF F
    <3> QED BY <2>3, <3>1, <3>2, <3>3, <3>4
  <2> QED BY <2>2, <2>3
<1> QED BY <1>1 DEF DbIsRows

LEMMA DbIsMap == Db = [k \in Keys |-> Db[k]]
BY DEF Db, Keys

\* The same rows are the same variables.
LEMMA SameRows ==
    ASSUME UNCHANGED <<layout, rows>> PROVE Db' = Db
BY DEF Db, Single, Got, Found, Select, Retrieve, LibTable, LibName, CampaignOf, LibNames

NameIs(r, k) == r.cam = k[1] /\ r.owner = k[2] /\ r.name = k[3]

Table(k) == IF Single THEN "all" ELSE k[1]

\* What writing a row does to the variables: it may only take the place of those of its
\* own name, and only of its own type in a table of the library.
LEMMA UpsertMaps ==
    ASSUME TypeInv, TypeInv', NEW r \in RowType, Upsert(r), UNCHANGED layout,
           NEW k \in Keys
    PROVE  /\ \/ Db'[k] = Db[k]
              \/ KeyOf(r) = k
              \/ NameIs(r, k) /\ Db'[k] = Null /\ madeBy'[r.table] # "library"
           /\ KeyOf(r) = k /\ Shown(k) /\ r.table = Table(k) => Db'[k] = r.value
           /\ NameIs(r, k) /\ KeyOf(r) # k /\ r.table = Table(k)
                 /\ madeBy'[r.table] # "library" => Db'[k] = Null
<1>1. DbIsRows /\ DbIsRows' BY DbIsOfRows, PTL
<1>2. Shown(k)' = Shown(k) /\ Table(k)' = Table(k) BY DEF Shown, Single, Table
<1>3. /\ At(k) = {q \in rows : q.table = Table(k) /\ KeyOf(q) = k}
      /\ At(k)' = {q \in rows' : q.table = Table(k) /\ KeyOf(q) = k}
  BY <1>2 DEF At, Table, KeyOf
<1>4. rows' = (rows \ Duplicates(r)) \union {r} BY DEF Upsert
<1>5. CASE ~Shown(k)
  BY <1>1, <1>2, <1>5 DEF DbIsRows
<1>6. CASE Shown(k)
  <2>1. KeyOf(r) = k /\ r.table = Table(k) => Db'[k] = r.value
    BY <1>1, <1>2, <1>3, <1>4, <1>6 DEF DbIsRows
  <2>2. CASE KeyOf(r) # k
    <3>1. At(k)' = At(k) \ Duplicates(r) BY <1>3, <1>4, <2>2
    <3>2. \A q \in At(k) : q.cam = k[1] /\ q.owner = k[2] /\ q.name = k[3] /\ q.type = k[4]
      BY <1>3, KeyTyped DEF KeyOf
    <3>3. \A q, s \in At(k) : q = s
      BY <1>3, <3>2, TypeOKIs DEF TypeInv, SameKey
    <3>4. CASE At(k) \intersect Duplicates(r) = {}
      <4>1. At(k)' = At(k) BY <3>1, <3>4
      <4>2. Db'[k] = Db[k] BY <1>1, <1>2, <1>6, <4>1 DEF DbIsRows
      <4>3. NameIs(r, k) /\ r.table = Table(k) /\ madeBy'[r.table] # "library" => At(k) = {}
        BY <1>3, <3>2, <3>4 DEF NameIs, Duplicates
      <4>4. At(k) = {} => Db'[k] = Null BY <1>1, <1>2, <1>6, <4>1 DEF DbIsRows
      <4> QED BY <2>2, <4>2, <4>3, <4>4
    <3>5. CASE At(k) \intersect Duplicates(r) # {}
      <4>1. PICK s \in At(k) : s \in Duplicates(r) BY <3>5
      <4>2. At(k)' = {} BY <3>1, <3>3, <4>1
      <4>3. Db'[k] = Null BY <1>1, <1>2, <1>6, <4>2 DEF DbIsRows
      <4>4. NameIs(r, k) /\ (madeBy'[r.table] = "library" => r.type = k[4])
        BY <3>2, <4>1 DEF NameIs, Duplicates
      <4>5. madeBy'[r.table] # "library" BY <2>2, <4>4, KeyTyped DEF NameIs, KeyOf
      <4> QED BY <2>2, <4>3, <4>4, <4>5
    <3> QED BY <3>4, <3>5
  <2> QED BY <1>6, <2>1, <2>2
<1> QED BY <1>5, <1>6

\* To the abstract map a step of the library is a step of one of the game's functions,
\* or of none.
MapSet == \E k \in Keys : Db'[k] \in Values /\ Vars!Write(k)
MapDelete ==
    \E k \in Keys : Db' = [l \in Keys |-> IF Vars!SameName(k, l) THEN Null ELSE Db[l]]
MapDestroy ==
    \E name \in LibNames : Db' = [l \in Keys |-> IF l[1] = name THEN Null ELSE Db[l]]

LEMMA WriteIs ==
    ASSUME NEW k \in Keys,
           \A l \in Keys : l # k => Db'[l] = Db[l]
                                    \/ (k[1] = l[1] /\ k[2] = l[2] /\ k[3] = l[3] /\ Db'[l] = Null)
    PROVE  Vars!Write(k)
BY DEF Vars!Write, Vars!SameName, Vars!Keys, Keys, LibNames, Db

LEMMA UpsertEmulates ==
    ASSUME TypeInv, TypeInv', NEW c \in Campaigns, NEW o \in Owners, NEW n \in Names,
           NEW t \in Types, NEW v \in Values, UNCHANGED layout,
           Upsert(Row(LibTable(c), LibName(c), o, n, t, v))
    PROVE  MapSet \/ MapDelete \/ Db' = Db
<1> DEFINE r == Row(LibTable(c), LibName(c), o, n, t, v)
           k == <<LibName(c), o, n, t>>
<1>1. r \in RowType BY RowTyped, Encodings
<1>2. KeyOf(r) = k /\ r.value = v /\ r.table = Table(k) /\ r.type = t
  BY DEF KeyOf, Row, Table, LibTable
<1>3. k \in Keys BY DEF Keys, LibNames
<1>4. \A l \in Keys : NameIs(r, l) <=> k[1] = l[1] /\ k[2] = l[2] /\ k[3] = l[3]
  BY <1>2 DEF NameIs, Row
<1>5. \A l \in Keys : NameIs(r, l) => Table(l) = Table(k)
  BY <1>4 DEF Table
<1> HIDE DEF r, k
<1>6. DbIsRows /\ DbIsRows' BY DbIsOfRows, PTL
<1>7. CASE Shown(k)
  <2>1. Db'[k] \in Values BY <1>1, <1>2, <1>3, <1>7, UpsertMaps DEF r
  <2>2. Vars!Write(k) BY <1>1, <1>2, <1>3, <1>4, UpsertMaps, WriteIs DEF r
  <2> QED BY <1>3, <2>1, <2>2 DEF MapSet
<1>8. CASE ~Shown(k) /\ madeBy'[r.table] = "library"
  <2>1. Db'[k] = Db[k] BY <1>3, <1>6, <1>8 DEF DbIsRows, Shown, Single
  <2>2. \A l \in Keys : Db'[l] = Db[l] BY <1>1, <1>2, <1>8, <2>1, UpsertMaps DEF r
  <2> QED BY <2>2 DEF Db, Keys
<1>9. CASE ~Shown(k) /\ madeBy'[r.table] # "library"
  <2>1. Db'[k] = Null BY <1>3, <1>6, <1>9 DEF DbIsRows, Shown, Single
  <2>2. \A l \in Keys : Db'[l] = IF Vars!SameName(k, l) THEN Null ELSE Db[l]
    BY <1>1, <1>2, <1>4, <1>5, <1>9, <2>1, UpsertMaps DEF r, Vars!SameName
  <2>3. Db' = [l \in Keys |-> IF Vars!SameName(k, l) THEN Null ELSE Db[l]]
    <3>1. Db' = [l \in Keys |-> Db'[l]] BY DEF Db, Keys, LibNames, LibName
    <3> QED BY <2>2, <3>1
  <2> QED BY <1>3, <2>3 DEF MapDelete
<1> QED BY <1>7, <1>8, <1>9

LEMMA DbNextIsMap == Db' = [k \in Keys |-> Db'[k]]
BY DEF Db, Keys, LibNames, LibName

\* UPDATE ... SET value = NULL.
LEMMA DeleteEmulates ==
    ASSUME TypeInv, TypeInv', NEW c \in Campaigns, NEW o \in Owners, NEW n \in Names,
           DeleteCampaignVariable(c, o, n)
    PROVE  MapDelete
<1> DEFINE Named(r) ==
        r.table = LibTable(c) /\ r.cam = LibName(c) /\ r.owner = o /\ r.name = n
           k == <<LibName(c), o, n, "object">>
<1>1. /\ rows' = {IF Named(r) THEN [r EXCEPT !.value = Null] ELSE r : r \in rows}
      /\ layout' = layout
  BY DEF DeleteCampaignVariable
<1>2. k \in Keys BY DEF Keys, LibNames, Types
<1>3. DbIsRows /\ DbIsRows' BY DbIsOfRows, PTL
<1>4. ASSUME NEW l \in Keys PROVE Db'[l] = IF Vars!SameName(k, l) THEN Null ELSE Db[l]
  <2>1. Shown(l)' = Shown(l) /\ Table(l)' = Table(l) BY <1>1 DEF Shown, Single, Table
  <2>2. /\ At(l) = {q \in rows : q.table = Table(l) /\ KeyOf(q) = l}
        /\ At(l)' = {q \in rows' : q.table = Table(l) /\ KeyOf(q) = l}
    BY <2>1 DEF At, Table, KeyOf
  <2>3. \A q \in rows : /\ [q EXCEPT !.value = Null].value = Null
                        /\ [q EXCEPT !.value = Null].table = q.table
                        /\ KeyOf([q EXCEPT !.value = Null]) = KeyOf(q)
    BY TypeOKIs DEF TypeInv, RowType, KeyOf
  <2>4. Vars!SameName(k, l) => Table(l) = LibTable(c)
    BY DEF Vars!SameName, Table, LibTable
  <2>5. \A q \in At(l) : Named(q) <=> Vars!SameName(k, l)
    <3>1. \A q \in At(l) : q.cam = l[1] /\ q.owner = l[2] /\ q.name = l[3]
                           /\ q.table = Table(l)
      BY <2>2, KeyTyped DEF KeyOf
    <3> QED BY <2>4, <3>1 DEF Vars!SameName
  <2>6. CASE ~Shown(l)
    BY <1>3, <2>1, <2>6 DEF DbIsRows
  <2>7. CASE Shown(l) /\ At(l) = {}
    <3>1. ASSUME NEW q \in At(l)' PROVE FALSE
      <4>1. PICK p \in rows : q = IF Named(p) THEN [p EXCEPT !.value = Null] ELSE p
        BY <1>1, <2>2
      <4>2. q.table = p.table /\ KeyOf(q) = KeyOf(p) BY <2>3, <4>1
      <4>3. p \in At(l) BY <2>2, <4>2
      <4> QED BY <2>7, <4>3
    <3> QED BY <1>3, <2>1, <2>7, <3>1 DEF DbIsRows
  <2>8. CASE Shown(l) /\ At(l) # {}
    <3>1. PICK q \in At(l) : TRUE BY <2>8
    <3>2. CASE Vars!SameName(k, l)
      <4>1. [q EXCEPT !.value = Null] \in At(l)' BY <1>1, <2>2, <2>3, <2>5, <3>1, <3>2
      <4> QED BY <1>3, <2>1, <2>3, <2>8, <3>1, <3>2, <4>1, <2>2 DEF DbIsRows
    <3>3. CASE ~Vars!SameName(k, l)
      <4>1. q \in At(l)' BY <1>1, <2>2, <2>5, <3>1, <3>3
      <4> QED BY <1>3, <2>1, <2>8, <3>1, <3>3, <4>1 DEF DbIsRows
    <3> QED BY <3>2, <3>3
  <2> QED BY <2>6, <2>7, <2>8
<1> HIDE DEF k
<1>5. Db' = [l \in Keys |-> IF Vars!SameName(k, l) THEN Null ELSE Db[l]]
  BY <1>4, DbNextIsMap
<1> QED BY <1>2, <1>5 DEF MapDelete

\* DELETE, or DROP of the table of the campaign.
LEMMA DestroyEmulates ==
    ASSUME TypeInv, TypeInv', NEW c \in Campaigns, DestroyCampaignDatabase(c)
    PROVE  MapDestroy
<1>1. /\ rows' = {r \in rows : ~(r.table = LibTable(c) /\ r.cam = LibName(c))}
      /\ layout' = layout
  BY DEF DestroyCampaignDatabase
<1>2. DbIsRows /\ DbIsRows' BY DbIsOfRows, PTL
<1>3. ASSUME NEW l \in Keys PROVE Db'[l] = IF l[1] = LibName(c) THEN Null ELSE Db[l]
  <2>1. Shown(l)' = Shown(l) /\ Table(l)' = Table(l) BY <1>1 DEF Shown, Single, Table
  <2>2. /\ At(l) = {q \in rows : q.table = Table(l) /\ KeyOf(q) = l}
        /\ At(l)' = {q \in rows' : q.table = Table(l) /\ KeyOf(q) = l}
    BY <2>1 DEF At, Table, KeyOf
  <2>3. \A q \in rows : KeyOf(q) = l => q.cam = l[1] BY KeyTyped DEF KeyOf
  <2>4. At(l)' = IF l[1] = LibName(c) THEN {} ELSE At(l)
    BY <1>1, <2>2, <2>3 DEF Table, LibTable
  <2>5. CASE ~Shown(l) \/ l[1] = LibName(c) \/ At(l) = {}
    BY <1>2, <2>1, <2>4, <2>5 DEF DbIsRows
  <2>6. CASE Shown(l) /\ l[1] # LibName(c) /\ At(l) # {}
    <3>1. PICK q \in At(l) : q \in At(l)' BY <2>4, <2>6
    <3> QED BY <1>2, <2>1, <2>6, <3>1 DEF DbIsRows
  <2> QED BY <2>5, <2>6
<1>4. Db' = [l \in Keys |-> IF l[1] = LibName(c) THEN Null ELSE Db[l]]
  BY <1>3, DbNextIsMap
<1> QED BY <1>4 DEF MapDestroy, LibNames

\* Only rows that read as nothing are packed away.
LEMMA PackEmulates ==
    ASSUME TypeInv, TypeInv', NEW c \in Campaigns, PackCampaignDatabase(c)
    PROVE  Db' = Db
<1>1. /\ rows' \subseteq rows /\ \A r \in rows \ rows' : r.value = Null
      /\ layout' = layout
  BY DEF PackCampaignDatabase
<1>2. DbIsRows /\ DbIsRows' BY DbIsOfRows, PTL
<1>3. ASSUME NEW l \in Keys PROVE Db'[l] = Db[l]
  <2>1. Shown(l)' = Shown(l) /\ Table(l)' = Table(l) BY <1>1 DEF Shown, Single, Table
  <2>2. /\ At(l) = {q \in rows : q.table = Table(l) /\ KeyOf(q) = l}
        /\ At(l)' = {q \in rows' : q.table = Table(l) /\ KeyOf(q) = l}
    BY <2>1 DEF At, Table, KeyOf
  <2>3. CASE ~Shown(l) BY <1>2, <2>1, <2>3 DEF DbIsRows
  <2>4. CASE Shown(l) /\ At(l)' # {}
    <3>1. PICK q \in At(l)' : q \in At(l) BY <1>1, <2>2, <2>4
    <3> QED BY <1>2, <2>1, <2>4, <3>1 DEF DbIsRows
  <2>5. CASE Shown(l) /\ At(l)' = {}
    <3>1. \A q \in At(l) : q.value = Null BY <1>1, <2>2, <2>5
    <3> QED BY <1>2, <2>1, <2>5, <3>1 DEF DbIsRows
  <2> QED BY <2>3, <2>4, <2>5
<1>4. [l \in Keys |-> Db'[l]] = [l \in Keys |-> Db[l]] BY <1>3
<1> QED BY <1>4, DbIsMap, DbNextIsMap

\* A migrated row is a variable of a campaign as the library encodes it, or of none.
LEMMA MigrateRowEmulates ==
    ASSUME TypeInv, TypeInv', MigrateRow
    PROVE  \/ Db' = Db
           \/ \E k \in Keys : Db'[k] \in Values \union {Null} /\ Vars!Write(k)
<1> DEFINE var == Variables[step]
           r == Row(MigTable(var.cam), MigName(var.cam), OwnerOf(var.pcid), var.name,
                    var.type, var.value)
<1>1. layout' = layout BY DEF MigrateRow
<1>2. CASE ~Known(var.pcid)
  <2>1. rows' = rows BY <1>2 DEF MigrateRow
  <2> QED BY <1>1, <2>1, SameRows
<1>3. CASE Known(var.pcid)
  <2>1. Upsert(r) BY <1>3 DEF MigrateRow
  <2>2. r \in RowType
    BY <1>3, VariableTyped, Encodings, OwnerTyped, RowTyped DEF MigrateRow, TypeInv
  <2> HIDE DEF r
  <2>3. DbIsRows' BY DbIsOfRows, PTL
  <2>4. CASE r.cam \in LibNames
    <3>1. PICK k \in Keys : k = KeyOf(r) BY <2>2, <2>4 DEF RowType, KeyOf, Keys
    <3>2. \A l \in Keys : NameIs(r, l) <=> k[1] = l[1] /\ k[2] = l[2] /\ k[3] = l[3]
      BY <3>1 DEF NameIs, KeyOf
    <3>3. \A l \in Keys : l # k => Db'[l] = Db[l]
              \/ (k[1] = l[1] /\ k[2] = l[2] /\ k[3] = l[3] /\ Db'[l] = Null)
      BY <1>1, <2>1, <2>2, <3>1, <3>2, UpsertMaps
    <3>4. Vars!Write(k) BY <3>1, <3>3, WriteIs
    <3>5. Db'[k] \in Values \union {Null}
      BY <2>3, <3>1 DEF DbIsRows, Keys, LibNames, LibName
    <3> QED BY <3>1, <3>4, <3>5
  <2>5. CASE r.cam \notin LibNames
    <3>1. \A l \in Keys : ~NameIs(r, l) /\ KeyOf(r) # l
      BY <2>5, KeyTyped DEF NameIs, KeyOf
    <3>2. \A l \in Keys : Db'[l] = Db[l] BY <1>1, <2>1, <2>2, <3>1, UpsertMaps
    <3>3. [l \in Keys |-> Db'[l]] = [l \in Keys |-> Db[l]] BY <3>2
    <3> QED BY <3>3, DbIsMap, DbNextIsMap
  <2> QED BY <2>4, <2>5
<1> QED BY <1>2, <1>3

LEMMA LibraryEmulates ==
    ASSUME TypeInv, TypeInv', Library
    PROVE  Db' = Db \/ MapSet \/ MapDelete \/ MapDestroy
<1> USE DEF Library
<1>1. CASE \E c \in Campaigns, o \in Owners, n \in Names, t \in TextTypes, v \in Values :
               SetCampaign(c, o, n, t, v)
  BY <1>1, UpsertEmulates DEF SetCampaign, Types
<1>2. CASE \E c \in Campaigns, o \in Owners, n \in Names, v \in Values :
               StoreCampaignObject(c, o, n, v)
  BY <1>2, UpsertEmulates DEF StoreCampaignObject, Types
<1>3. CASE \E c \in Campaigns, o \in Owners, n \in Names : DeleteCampaignVariable(c, o, n)
  BY <1>3, DeleteEmulates
<1>4. CASE \E c \in Campaigns : DestroyCampaignDatabase(c)
  BY <1>4, DestroyEmulates
<1>5. CASE \E c \in Campaigns : PackCampaignDatabase(c)
  BY <1>5, PackEmulates
<1>6. CASE Restart
  BY <1>6, SameRows DEF Restart
<1> QED BY <1>1, <1>2, <1>3, <1>4, <1>5, <1>6

\* Whatever tables there are and whoever made them, a script sees one value, or none, for
\* each campaign, owner, name and type, and each function of the library changes of them
\* what the game's function does, between migrations that write one variable after the
\* other (library_tpl.nss:140-320, app.d:249-374).
THEOREM LibraryEmulatesGame == Spec => EmulatesCampaign
<1> USE DEF Vars!Keys, Vars!Write, Vars!SameName
<1>1. Init => Vars!Init
  <2> SUFFICES ASSUME Init PROVE Vars!Init OBVIOUS
  <2>1. DbIsRows BY InitTyped, DbIsOfRows
  <2>2. Db \in [Keys -> Values \union {Null}] BY <2>1, DbIsMap DEF DbIsRows
  <2>3. step = 0 BY DEF Init
  <2> QED BY <2>2, <2>3 DEF Vars!Init, Db, Keys, LibNames
<1>2. ASSUME TypeInv, [Next]_vars
      PROVE  [Vars!ByScript \/ Vars!Import \/ Vars!Switch]_<<Db, step > 0>>
  <2>1. TypeInv' BY <1>2, StepTyped
  <2>2. CASE UNCHANGED vars
    BY <2>2, SameRows DEF vars, dbVars, toolVars
  <2>3. CASE Library
    <3>1. step = 0 /\ step' = 0 BY <2>3 DEF Library, InGame
    <3>2. Db' = Db \/ MapSet \/ MapDelete \/ MapDestroy
      BY <1>2, <2>1, <2>3, LibraryEmulates
    <3>3. MapSet => Vars!Set BY DEF MapSet, Vars!Set, Db, Keys, LibNames
    <3>4. MapDelete => Vars!Delete BY DEF MapDelete, Vars!Delete, Db, Keys, LibNames
    <3>5. MapDestroy => Vars!Destroy BY DEF MapDestroy, Vars!Destroy, Db, Keys, LibNames
    <3>6. Db' = Db \/ Vars!Set \/ Vars!Delete \/ Vars!Destroy
      BY <3>2, <3>3, <3>4, <3>5
    <3> QED BY <3>1, <3>6 DEF Vars!ByScript
  <2>4. CASE StartMigration \/ MigrationEnds \/ MigrationFails
    <3>1. UNCHANGED <<layout, rows>>
      BY <2>4 DEF StartMigration, MigrationEnds, MigrationFails, dbVars
    <3>2. (step' > 0) = ~(step > 0)
      BY <2>4, CampaignParams DEF StartMigration, MigrationEnds, MigrationFails
    <3> QED BY <3>1, <3>2, SameRows DEF Vars!Switch, Db, Keys, LibNames
  <2>5. CASE MigrateRow
    <3>1. step > 0 /\ step' > 0 BY <2>5, VariableTyped DEF MigrateRow
    <3>2. \/ Db' = Db
          \/ \E k \in Keys : Db'[k] \in Values \union {Null} /\ Vars!Write(k)
      BY <1>2, <2>1, <2>5, MigrateRowEmulates
    <3> QED BY <3>1, <3>2 DEF Vars!Import, Db, Keys, LibNames
  <2> QED BY <1>2, <2>2, <2>3, <2>4, <2>5 DEF Next, Migration
<1> QED BY <1>1, <1>2, AlwaysTyped, PTL DEF Spec, EmulatesCampaign, Vars!Spec, Db, LibNames

=============================================================================
