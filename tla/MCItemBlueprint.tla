-------------------------- MODULE MCItemBlueprint --------------------------
(***************************************************************************)
(* Small characters for ItemBlueprint: an inventory of two, two slots, a   *)
(* sword and a pouch updated by resref, a ring updated by tag, a box whose *)
(* new blueprint is no container, and a stone that is not updated.         *)
(***************************************************************************)
EXTENDS ItemBlueprint

MCProps == {"resref", "tag", "LastName", "Cursed", "Cost", "Comment"}
MCFixed == [p \in {"Cost"} |-> "zero"]

Properties(resref, tag, lastName, cursed, comment) ==
    [p \in MCProps |-> CASE p = "resref" -> resref [] p = "tag" -> tag
                         [] p = "LastName" -> lastName [] p = "Cursed" -> cursed
                         [] p = "Comment" -> comment [] p = "Cost" -> "some"]

MCValues == {"sword", "t1", "ring", "ring2", "magic", "pouch", "t3", "stone", "t4", "box", "t5",
             "absent", "empty", "some", "yes", "no", "new", "zero"}

Var(name, type, value) == [name |-> name, type |-> type, value |-> value]

MCVariables ==
    {Var(name, type, value) : name \in {"a", "b", "c", "d"}, type \in {"int", "string"},
                              value \in 1..3}

Item(id, obj, props, table, contents) ==
    [id |-> id, obj |-> obj, props |-> props, vars |-> table, contents |-> contents]

Sword(id) == Item(id, "o1", Properties("sword", "t1", "absent", "yes", "absent"),
                  <<Var("a", "int", 1), Var("b", "int", 1)>>, NoBag)
Ring(id) == Item(id, "o2", Properties("ring", "magic", "some", "no", "absent"),
                 <<Var("a", "int", 1)>>, NoBag)
Pouch(inside) == Item(0, "o3", Properties("pouch", "t3", "absent", "no", "absent"),
                      <<>>, inside)
Stone == Item(0, "o4", Properties("stone", "t4", "absent", "no", "absent"), <<>>, NoBag)
Box == Item(0, "o5", Properties("box", "t5", "absent", "no", "absent"), <<>>, <<Stone>>)

Target(props, table, container, var, prop) ==
    [blueprint |-> [props |-> props, vars |-> table, container |-> container],
     var |-> var, prop |-> prop]

NoPolicy == [p \in {} |-> "Keep"]

SwordTarget ==
    Target(Properties("sword", "t1", "absent", "no", "new"),
           <<Var("b", "int", 2), Var("c", "int", 2)>>, FALSE,
           [n \in {"b", "d"} |-> "Override"], [p \in {"Cursed"} |-> "Keep"])
RingTarget ==
    Target(Properties("ring2", "magic", "absent", "yes", "new"),
           <<Var("a", "int", 3)>>, FALSE, NoPolicy, [p \in {"tag"} |-> "Override"])
PouchTarget ==
    Target(Properties("pouch", "t3", "absent", "no", "absent"), <<>>, TRUE,
           NoPolicy, NoPolicy)
BoxTarget ==
    Target(Properties("box", "t5", "absent", "no", "absent"), <<>>, FALSE,
           NoPolicy, NoPolicy)

MCByResref ==
    [r \in {"sword", "pouch", "box"} |->
        CASE r = "sword" -> SwordTarget [] r = "pouch" -> PouchTarget
          [] r = "box" -> BoxTarget]
MCByTag == [t \in {"magic"} |-> RingTarget]

MCCharacters ==
    {[inventory |-> <<Pouch(<<Stone>>)>>, worn |-> <<Sword(1), Ring(2)>>],
     [inventory |-> <<Box>>, worn |-> <<Sword(1)>>]}

MCLocals == {Var("d", "int", 1)}

=============================================================================
