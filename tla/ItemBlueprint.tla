--------------------------- MODULE ItemBlueprint ---------------------------
(***************************************************************************)
(* What nwn2-itemupdater does to the items of one character: updateItem    *)
(* (itemupdater/source/app.d:497-606), which merges an item with the       *)
(* current version of its blueprint, and updateInventory (app.d:243-296),  *)
(* which walks through what the character carries and wears and unequips   *)
(* what it updated.                                                        *)
(*                                                                         *)
(* Both are operators.  The state machine around them is one character     *)
(* file: the tool updates it, again and again, and between two runs the    *)
(* player moves his items about and scripts set local variables on them.   *)
(***************************************************************************)
EXTENDS Integers, Sequences, FiniteSets, SequencesExt

CONSTANTS
    Props,          \* GFF properties of an item; "resref" and "tag" among them
    Values,         \* what a property may be
    Absent,         \* no such property
    BlueprintOnly,  \* properties an instance does not have (Comment...)
    Fixed,          \* properties updateItem sets whatever the blueprint says
    Empty,          \* an empty localized string
    ByResref,       \* --update: a target for some resrefs
    ByTag,          \* --update-tag: a target for some tags
    NoBag,          \* the contents of an item that is not a container
    MaxItems,       \* 128: the size of an inventory
    Variables,      \* what a VarTable may hold: [name, type, value]
    Things,         \* instances, to tell one item from another of its kind
    Slots,          \* equipment slots, the ids of the structs of Equip_ItemList
    Characters,     \* what the game can have saved: [inventory, worn]
    Locals          \* local variables that scripts set on items

ASSUME BlueprintConstants ==
    /\ {"resref", "tag", "LastName"} \subseteq Props
    /\ BlueprintOnly \subseteq Props /\ DOMAIN Fixed \subseteq Props
    /\ \A p \in DOMAIN Fixed : Fixed[p] \in Values
    /\ {Absent, Empty} \subseteq Values /\ Absent # Empty
    /\ MaxItems \in Nat /\ Slots \subseteq Nat \ {0}
    /\ Locals \subseteq Variables

VARIABLES
    inventory,  \* ItemList
    worn        \* Equip_ItemList

vars == <<inventory, worn>>

(***************************************************************************)
(* An item is [id, obj, props, vars, contents]: the id of its struct, what *)
(* tells the instance from others of its kind (ObjectId, position, stack   *)
(* size...: all of it is kept), its properties, its VarTable, its ItemList.*)
(* A blueprint is [props, vars, container], a target is [blueprint, var,   *)
(* prop] with the policies for variables and properties.                   *)
(***************************************************************************)
Items(inside) ==
    [id : Nat, obj : Things, props : [Props -> Values], vars : Seq(Variables), contents : inside]
Single == Items({NoBag})
Carried == Items({NoBag} \union Seq(Single))
Blueprints == [props : [Props -> Values], vars : Seq(Variables), container : BOOLEAN]

ASSUME NoBagIsNone == NoBag \notin Seq(Single)

ASSUME TargetsTyped ==
    \A target \in {ByResref[r] : r \in DOMAIN ByResref} \union {ByTag[t] : t \in DOMAIN ByTag} :
        target.blueprint \in Blueprints /\ DOMAIN target.prop \subseteq Props

Contents(item) == IF item.contents = NoBag THEN <<>> ELSE item.contents

\* In how many places a thing is.
Occurs(items, o) == Cardinality({i \in DOMAIN items : items[i].obj = o})
Bagged(items, o) ==
    UNION {{i} \X {j \in DOMAIN Contents(items[i]) : Contents(items[i])[j].obj = o} :
              i \in DOMAIN items}
Copies(carried, equipped, o) ==
    Occurs(carried, o) + Cardinality(Bagged(carried, o)) + Occurs(equipped, o)

\* The game keeps to MaxItems itself; a slot holds one item; a thing is in one place.
ASSUME CharactersTyped ==
    \A c \in Characters :
        /\ c.inventory \in Seq(Carried) /\ Len(c.inventory) <= MaxItems
        /\ c.worn \in Seq(Single)
        /\ \A j, k \in DOMAIN c.worn : c.worn[j].id = c.worn[k].id => j = k
        /\ \A o \in Things : Copies(c.inventory, c.worn, o) <= 1

\* Every item of the character.
AllItems ==
    ToSet(inventory) \union ToSet(worn)
      \union UNION {ToSet(Contents(inventory[i])) : i \in DOMAIN inventory}

Init == \E c \in Characters : inventory = c.inventory /\ worn = c.worn

-----------------------------------------------------------------------------
(* updateItem *)

VarPolicy(target, name) ==
    IF name \in DOMAIN target.var THEN target.var[name] ELSE "Keep"

\* varsInUpdatedItem: the position of a name, the last if there are several.
Indexed(table, name) ==
    {i \in DOMAIN table : /\ table[i].name = name
                          /\ \A j \in DOMAIN table : table[j].name = name => j <= i}

\* Mutant: the value in the blueprint wins over the one in the item.
MergeVar_override(target, table, v) ==
    IF VarPolicy(target, v.name) # "Keep" \/ Indexed(table, v.name) # {}
    THEN table
    ELSE Append(table, v)

MergeVar(target, table, v) ==
    IF VarPolicy(target, v.name) # "Keep" THEN table
    ELSE IF Indexed(table, v.name) = {} THEN Append(table, v)
    ELSE [i \in DOMAIN table |-> IF i \in Indexed(table, v.name) THEN v ELSE table[i]]

MergedVars(item, target) ==
    LET merged[n \in 0..Len(item.vars)] ==
            IF n = 0 THEN target.blueprint.vars
            ELSE MergeVar(target, merged[n - 1], item.vars[n])
    IN  merged[Len(item.vars)]

\* The properties before the policies are applied.
BlueprintProps(item, target) ==
    [p \in Props |->
        CASE p \in DOMAIN Fixed -> Fixed[p]
          [] p \in BlueprintOnly -> Absent
          [] /\ p = "LastName" /\ item.props[p] # Absent
             /\ target.blueprint.props[p] = Absent -> Empty
          [] OTHER -> target.blueprint.props[p]]

MergedProps(item, target) ==
    [p \in Props |-> IF p \in DOMAIN target.prop /\ target.prop[p] = "Keep"
                     THEN item.props[p]
                     ELSE BlueprintProps(item, target)[p]]

\* The two enforce() of updateItem.
Refused(item, target) ==
    \/ item.contents # NoBag /\ ~target.blueprint.container
    \/ \E p \in DOMAIN target.prop :
        Absent \in {item.props[p], BlueprintProps(item, target)[p]}

\* Mutant: "updatedItem["ItemList"] = oldItem["ItemList"]" is forgotten.
UpdateItem_noContents(item, target) ==
    [id |-> item.id, obj |-> item.obj,
     props |-> MergedProps(item, target), vars |-> MergedVars(item, target),
     contents |-> IF item.contents = NoBag THEN NoBag ELSE <<>>]

\* Mutant: the variables of the item are appended, whatever the blueprint has.
UpdateItem_append(item, target) ==
    [id |-> item.id, obj |-> item.obj,
     props |-> MergedProps(item, target),
     vars |-> target.blueprint.vars \o item.vars,
     contents |-> item.contents]

UpdateItem(item, target) ==
    [id |-> item.id, obj |-> item.obj,
     props |-> MergedProps(item, target), vars |-> MergedVars(item, target),
     contents |-> item.contents]

-----------------------------------------------------------------------------
(* updateInventory *)

Targeted(item) ==
    item.props["resref"] \in DOMAIN ByResref \/ item.props["tag"] \in DOMAIN ByTag

TargetOf(item) ==
    IF item.props["resref"] \in DOMAIN ByResref
    THEN ByResref[item.props["resref"]]
    ELSE ByTag[item.props["tag"]]

Renewed(item) == IF Targeted(item) THEN UpdateItem(item, TargetOf(item)) ELSE item

\* An item of an ItemList, and what it holds.  (A bag holds no bag.)
RenewedWithContents(item) ==
    IF item.contents = NoBag THEN Renewed(item)
    ELSE [Renewed(item) EXCEPT !.contents = [i \in DOMAIN @ |-> Renewed(@[i])]]

\* Mutant: the inventory may get one item too many.
UnequipOne_off(acc, item) ==
    IF Targeted(item) /\ Len(acc.items) <= MaxItems
    THEN [items |-> Append(acc.items, Renewed(item)),
          removed |-> acc.removed \union {Renewed(item).id}]
    ELSE acc

\* Mutant: what is updated stays where it is.
UnequipOne_never(acc, item) == acc

\* The body of the loop over Equip_ItemList.
UnequipOne(acc, item) ==
    IF Targeted(item) /\ Len(acc.items) < MaxItems
    THEN [items |-> Append(acc.items, Renewed(item)),
          removed |-> acc.removed \union {Renewed(item).id}]
    ELSE acc

Unequipping ==
    LET done[n \in 0..Len(worn)] ==
            IF n = 0
            THEN [items |-> [i \in DOMAIN inventory |-> RenewedWithContents(inventory[i])],
                  removed |-> {}]
            ELSE UnequipOne(done[n - 1], worn[n])
    IN  done[Len(worn)]

\* The loop that takes them out of Equip_ItemList, by their ids.
StillWorn ==
    LET left[n \in 0..Len(worn)] ==
            IF n = 0 THEN <<>>
            ELSE IF Renewed(worn[n]).id \in Unequipping.removed THEN left[n - 1]
            ELSE Append(left[n - 1], Renewed(worn[n]))
    IN  left[Len(worn)]

\* charUpdated, and an exception out of updateItem.
CharUpdated == {item \in AllItems : Targeted(item)} # {}
CharRefused == \E item \in AllItems : Targeted(item) /\ Refused(item, TargetOf(item))

\* The tool rewrites the character.
UpdateCharacter ==
    /\ CharUpdated /\ ~CharRefused
    /\ inventory' = Unequipping.items
    /\ worn' = StillWorn

-----------------------------------------------------------------------------
(* The game: external *)

Equip(i, slot) ==
    /\ \A k \in DOMAIN worn : worn[k].id # slot
    /\ inventory[i].contents = NoBag
    /\ worn' = Append(worn, [inventory[i] EXCEPT !.id = slot])
    /\ inventory' = RemoveAt(inventory, i)

TakeOff(k) ==
    /\ Len(inventory) < MaxItems
    /\ inventory' = Append(inventory, [worn[k] EXCEPT !.id = 0])
    /\ worn' = RemoveAt(worn, k)

PutInBag(i, b) ==
    /\ inventory[i].contents = NoBag /\ inventory[b].contents # NoBag
    /\ inventory' = RemoveAt([inventory EXCEPT ![b].contents = Append(@, inventory[i])], i)
    /\ UNCHANGED worn

TakeOutOfBag(b) ==
    /\ Contents(inventory[b]) # <<>>
    /\ Len(inventory) < MaxItems
    /\ inventory' = Append([inventory EXCEPT ![b].contents = Tail(@)],
                           Head(inventory[b].contents))
    /\ UNCHANGED worn

\* SetLocalInt, SetLocalString: a variable is known by its name and type.
SetLocal(table, v) ==
    IF \E i \in DOMAIN table : table[i].name = v.name /\ table[i].type = v.type
    THEN [i \in DOMAIN table |->
            IF table[i].name = v.name /\ table[i].type = v.type THEN v ELSE table[i]]
    ELSE Append(table, v)

Script(i, v) ==
    /\ inventory' = [inventory EXCEPT ![i].vars = SetLocal(@, v)]
    /\ UNCHANGED worn

Game ==
    \/ \E i \in DOMAIN inventory, slot \in Slots : Equip(i, slot)
    \/ \E k \in DOMAIN worn : TakeOff(k)
    \/ \E i, b \in DOMAIN inventory : PutInBag(i, b)
    \/ \E b \in DOMAIN inventory : TakeOutOfBag(b)
    \/ \E i \in DOMAIN inventory, v \in Locals : Script(i, v)

Next == UpdateCharacter \/ Game

Spec == Init /\ [][Next]_vars

-----------------------------------------------------------------------------
(* Properties *)

Distinct(table) == \A i, j \in DOMAIN table : table[i].name = table[j].name => i = j

Count(o) == Copies(inventory, worn, o)

\* No item is lost or doubled, in a bag, worn, or moved to a full inventory:
\* the update appends a copy (app.d:276) and removes the original later (287).
NothingLost == [][\A o \in Things : Count(o)' = Count(o)]_vars

\* Unequipping never makes an inventory larger than the game accepts.
RoomRespected == Len(inventory) <= MaxItems

\* README.md:13: what was updated is not worn any more, unless the inventory is
\* full.
UpdatedIsUnequipped ==
    [][UpdateCharacter =>
        \A k \in DOMAIN worn : Targeted(worn[k]) =>
            \/ \A l \in DOMAIN worn' : worn'[l].obj # worn[k].obj
            \/ Len(inventory') = MaxItems]_vars

Updatable == {item \in AllItems : Targeted(item) /\ ~Refused(item, TargetOf(item))}

\* What the loop over the two VarTables computes, said without a loop: kept
\* variables come from the item, the others from the blueprint, and every name
\* occurs once.
AsPolicySays(item, target) ==
    LET kept == {v \in ToSet(item.vars) : VarPolicy(target, v.name) = "Keep"}
        new == UpdateItem(item, target).vars IN
    Distinct(item.vars) /\ Distinct(target.blueprint.vars) =>
        /\ ToSet(new) = kept \union {v \in ToSet(target.blueprint.vars) :
                                        \A k \in kept : k.name # v.name}
        /\ Distinct(new)
VarsByPolicy == \A item \in Updatable : AsPolicySays(item, TargetOf(item))

\* An item that is at its latest version is left as it is (the warning at
\* app.d:389): updateItem is idempotent, and does not refuse its own result.
Stable(item, target) ==
    LET new == UpdateItem(item, target) IN
    ~Refused(new, target) /\ UpdateItem(new, target) = new
UpdateIsStable == \A item \in Updatable : Stable(item, TargetOf(item))

=============================================================================
