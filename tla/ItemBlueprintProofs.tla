------------------------ MODULE ItemBlueprintProofs ------------------------
(***************************************************************************)
(* What TLAPS proves of ItemBlueprint, for every character, blueprint and  *)
(* policy: what the loop over the variables computes, that an update of an *)
(* updated item changes nothing, and what unequipping keeps.               *)
(***************************************************************************)
EXTENDS ItemBlueprint, FiniteSetTheorems, SequenceTheorems, WellFoundedInduction, TLAPS

-----------------------------------------------------------------------------
(* Loops.  The induction is over sets of naturals. *)

LEMMA Induct ==
    ASSUME NEW P \in SUBSET Nat, 0 \in P, \A k \in P : k + 1 \in P
    PROVE  P = Nat
<1> SUFFICES ASSUME P # Nat PROVE FALSE OBVIOUS
<1> DEFINE R == OpToRel(<, Nat)
           S == Nat \ P
<1>1. IsWellFoundedOn(R, Nat) BY NatLessThanWellFounded
<1>2. \A x, y \in Nat : x < y => <<x, y>> \in R BY DEF OpToRel
<1>3. S \in SUBSET Nat /\ S # {} OBVIOUS
<1> HIDE DEF R
<1>4. PICK n \in S : \A m \in S : ~(<<m, n>> \in R) BY <1>1, <1>3, WFMin
<1>5. n \in Nat \ {0} OBVIOUS
<1>6. n - 1 \in Nat /\ n - 1 < n /\ (n - 1) + 1 = n BY <1>5
<1>7. n - 1 \in S BY <1>6
<1> QED BY <1>2, <1>4, <1>5, <1>6, <1>7

\* A loop of n steps over states in S, and the states it goes through.
Loop(n, S, start, step) == n \in Nat /\ start \in S /\ step \in [1..n -> [S -> S]]
Runs(f, n, S, start, step) ==
    /\ f \in [0..n -> S] /\ f[0] = start
    /\ \A k \in 1..n : f[k] = step[k][f[k - 1]]

LEMMA LoopEnds ==
    ASSUME NEW n, NEW S, NEW start, NEW step, Loop(n, S, start, step)
    PROVE  \E f : Runs(f, n, S, start, step)
<1> USE DEF Loop
<1>0. n \in Nat OBVIOUS
<1> DEFINE Upto(m, f) == f[0] = start /\ \A k \in 1..m : f[k] = step[k][f[k - 1]]
           P == {m \in Nat : m <= n => \E f \in [0..m -> S] : Upto(m, f)}
<1>1. 0 \in P
  <2> DEFINE f == [k \in 0..0 |-> start]
  <2>1. f \in [0..0 -> S] /\ f[0] = start OBVIOUS
  <2>2. Upto(0, f) BY <2>1
  <2> QED BY <2>1, <2>2
<1>2. ASSUME NEW m \in P PROVE m + 1 \in P
  <2>0. m \in Nat /\ m + 1 \in Nat OBVIOUS
  <2> SUFFICES ASSUME m + 1 <= n PROVE \E g \in [0..(m + 1) -> S] : Upto(m + 1, g)
    BY <2>0
  <2>1. m \in Nat /\ m <= n /\ m + 1 \in 1..n BY <1>0, <2>0
  <2>2. PICK f \in [0..m -> S] : Upto(m, f) BY <2>1
  <2> DEFINE g == [k \in 0..(m + 1) |-> IF k <= m THEN f[k] ELSE step[m + 1][f[m]]]
  <2>3. step[m + 1][f[m]] \in S BY <2>1
  <2>4. g \in [0..(m + 1) -> S] BY <2>1, <2>3
  <2>5. /\ \A k \in 0..m : g[k] = f[k]
        /\ g[m + 1] = step[m + 1][f[m]]
    BY <2>1
  <2> HIDE DEF g
  <2>6. ASSUME NEW k \in 1..(m + 1) PROVE g[k] = step[k][g[k - 1]]
    <3>1. CASE k = m + 1
      <4>1. k - 1 = m /\ m \in 0..m BY <2>1, <3>1
      <4> QED BY <2>5, <3>1, <4>1
    <3>2. CASE k # m + 1
      <4>1. k \in 1..m /\ k \in 0..m /\ k - 1 \in 0..m BY <2>1, <3>2
      <4> QED BY <2>2, <2>5, <4>1
    <3> QED BY <3>1, <3>2
  <2>7. g[0] = start BY <2>1, <2>2, <2>5
  <2> QED BY <2>4, <2>6, <2>7
<1>3. n \in P
  <2>1. P \in SUBSET Nat OBVIOUS
  <2> HIDE DEF P
  <2> QED BY <1>1, <1>2, <2>1, Induct
<1> QED BY <1>3 DEF Runs

LEMMA LastOf ==
    ASSUME NEW n \in Nat, NEW S \in SUBSET (1..n), S # {}
    PROVE  \E i \in S : \A j \in S : j <= i
<1> DEFINE P == {m \in Nat : (\A j \in S : j <= m) => \E i \in S : \A j \in S : j <= i}
<1>1. 0 \in P
  <2>1. \A j \in S : ~(j <= 0) OBVIOUS
  <2> QED BY <2>1
<1>2. ASSUME NEW m \in P PROVE m + 1 \in P
  <2>1. CASE m + 1 \in S BY <2>1
  <2>2. CASE m + 1 \notin S
    <3>1. \A j \in S : j <= m + 1 => j <= m BY <2>2
    <3> QED BY <3>1
  <2> QED BY <2>1, <2>2
<1>3. P \in SUBSET Nat OBVIOUS
<1>4. n \in P
  <2> HIDE DEF P
  <2> QED BY <1>1, <1>2, <1>3, Induct
<1>5. \A j \in S : j <= n OBVIOUS
<1> QED BY <1>4, <1>5

-----------------------------------------------------------------------------
(* Tables of variables *)

LEMMA TableIs ==
    ASSUME NEW table \in Seq(Variables)
    PROVE  /\ Len(table) \in Nat /\ DOMAIN table = 1..Len(table)
           /\ \A i \in 1..Len(table) : table[i] \in Variables
OBVIOUS

LEMMA ReplacedIs ==
    ASSUME NEW table \in Seq(Variables), NEW i \in 1..Len(table), NEW v \in Variables
    PROVE  LET new == [table EXCEPT ![i] = v] IN
           /\ Len(new) = Len(table)
           /\ \A j \in 1..Len(table) : new[j] = IF j = i THEN v ELSE table[j]
OBVIOUS

\* Where a name is found: nowhere, or at its last place.
LEMMA IndexedIsLast ==
    ASSUME NEW table \in Seq(Variables), NEW name
    PROVE  \/ /\ Indexed(table, name) = {}
              /\ \A i \in 1..Len(table) : table[i].name # name
           \/ \E i \in 1..Len(table) :
                /\ Indexed(table, name) = {i} /\ table[i].name = name
                /\ \A j \in 1..Len(table) : table[j].name = name => j <= i
<1> DEFINE S == {i \in 1..Len(table) : table[i].name = name}
<1>1. Len(table) \in Nat /\ DOMAIN table = 1..Len(table) BY TableIs
<1>2. CASE S = {}
  <2>1. \A i \in 1..Len(table) : table[i].name # name BY <1>2
  <2> QED BY <1>1, <2>1 DEF Indexed
<1>3. CASE S # {}
  <2>1. S \in SUBSET (1..Len(table)) OBVIOUS
  <2>2. PICK i \in S : \A j \in S : j <= i BY <1>1, <1>3, <2>1, LastOf
  <2>3. i \in 1..Len(table) /\ table[i].name = name OBVIOUS
  <2>4. \A j \in 1..Len(table) : table[j].name = name => j <= i BY <2>2
  <2>5. \A k \in Indexed(table, name) : k \in 1..Len(table) /\ i <= k /\ k <= i
    BY <1>1, <2>3, <2>4 DEF Indexed
  <2>6. i \in Indexed(table, name) BY <1>1, <2>3, <2>4 DEF Indexed
  <2>7. \A k \in Indexed(table, name) : k = i BY <1>1, <2>3, <2>5
  <2> QED BY <2>3, <2>4, <2>6, <2>7
<1> QED BY <1>2, <1>3

\* What one variable does to the table.
LEMMA MergeIs ==
    ASSUME NEW table \in Seq(Variables), NEW v \in Variables, NEW target
    PROVE  LET new == MergeVar(target, table, v)
               Kept == VarPolicy(target, v.name) = "Keep" IN
           /\ new \in Seq(Variables)
           /\ \/ ~Kept /\ new = table
              \/ /\ Kept /\ new = Append(table, v)
                 /\ \A i \in 1..Len(table) : table[i].name # v.name
              \/ /\ Kept
                 /\ \E i \in 1..Len(table) :
                       /\ table[i].name = v.name /\ new = [table EXCEPT ![i] = v]
                       /\ \A j \in 1..Len(table) : table[j].name = v.name => j <= i
<1> DEFINE new == MergeVar(target, table, v)
           Kept == VarPolicy(target, v.name) = "Keep"
<1>1. CASE ~Kept BY <1>1 DEF MergeVar
<1>2. CASE Kept /\ Indexed(table, v.name) = {}
  <2>1. new = Append(table, v) BY <1>2 DEF MergeVar
  <2>2. \A i \in 1..Len(table) : table[i].name # v.name BY <1>2, IndexedIsLast
  <2>3. Append(table, v) \in Seq(Variables) OBVIOUS
  <2> QED BY <1>2, <2>1, <2>2, <2>3
<1>3. CASE Kept /\ Indexed(table, v.name) # {}
  <2>1. PICK i \in 1..Len(table) :
          /\ Indexed(table, v.name) = {i} /\ table[i].name = v.name
          /\ \A j \in 1..Len(table) : table[j].name = v.name => j <= i
    BY <1>3, IndexedIsLast
  <2>2. new = [j \in DOMAIN table |-> IF j \in {i} THEN v ELSE table[j]]
    BY <1>3, <2>1 DEF MergeVar
  <2>3. new = [table EXCEPT ![i] = v] BY <2>2, TableIs
  <2>4. [table EXCEPT ![i] = v] \in Seq(Variables) BY <2>1
  <2> QED BY <1>3, <2>1, <2>3, <2>4
<1> QED BY <1>1, <1>2, <1>3

\* The tables the loop goes through.
Merging(f, table, target) ==
    /\ f[0] = target.blueprint.vars
    /\ \A k \in 0..Len(table) : f[k] \in Seq(Variables)
    /\ \A k \in 1..Len(table) : f[k] = MergeVar(target, f[k - 1], table[k])

LEMMA MergeLoop ==
    ASSUME NEW item, NEW target,
           item.vars \in Seq(Variables), target.blueprint.vars \in Seq(Variables)
    PROVE  \E f : Merging(f, item.vars, target) /\ MergedVars(item, target) = f[Len(item.vars)]
<1> DEFINE n == Len(item.vars)
           S == Seq(Variables)
           start == target.blueprint.vars
           Body(f) == [k \in 0..n |-> IF k = 0 THEN start
                                      ELSE MergeVar(target, f[k - 1], item.vars[k])]
           f == CHOOSE g : g = Body(g)
           step == [k \in 1..n |-> [t \in S |-> MergeVar(target, t, item.vars[k])]]
<1>1. n \in Nat /\ \A k \in 1..n : item.vars[k] \in Variables BY TableIs
<1>2. \A k \in 1..n, t \in S : MergeVar(target, t, item.vars[k]) \in S BY <1>1, MergeIs
<1>3. Loop(n, S, start, step) BY <1>1, <1>2 DEF Loop
<1>4. \A k \in 1..n, t \in S : step[k][t] = MergeVar(target, t, item.vars[k]) OBVIOUS
<1> HIDE DEF step, S, start, n, f, Body
<1>5. PICK g : Runs(g, n, S, start, step) BY <1>3, LoopEnds
<1>6. g = Body(g)
  <2> USE DEF Body
  <2>1. ASSUME NEW k \in 0..n
        PROVE  g[k] = IF k = 0 THEN start ELSE MergeVar(target, g[k - 1], item.vars[k])
    <3>1. CASE k = 0 BY <1>5, <3>1 DEF Runs
    <3>2. CASE k # 0
      <4>1. k \in 1..n /\ k - 1 \in 0..n BY <1>1, <3>2
      <4>2. g[k] = step[k][g[k - 1]] /\ g[k - 1] \in S BY <1>5, <4>1 DEF Runs
      <4> QED BY <1>4, <3>2, <4>1, <4>2
    <3> QED BY <3>1, <3>2
  <2> QED BY <1>5, <2>1 DEF Runs
<1> USE DEF f, Body
<1>7. f = Body(f) BY <1>6
<1>8. MergedVars(item, target) = f[n] BY DEF MergedVars, n, start
<1> HIDE DEF f
<1>9. f[0] = start /\ \A k \in 1..n : f[k] = MergeVar(target, f[k - 1], item.vars[k])
  BY <1>1, <1>7
<1>10. \A k \in 0..n : f[k] \in S
  <2> DEFINE P == {k \in Nat : k <= n => f[k] \in S}
  <2>1. 0 \in P BY <1>3, <1>9 DEF Loop
  <2>2. ASSUME NEW k \in P PROVE k + 1 \in P
    <3> SUFFICES ASSUME k + 1 <= n PROVE f[k + 1] \in S OBVIOUS
    <3>1. k + 1 \in 1..n /\ (k + 1) - 1 = k /\ f[k] \in S BY <1>1
    <3>2. f[k + 1] = MergeVar(target, f[k], item.vars[k + 1]) BY <1>9, <3>1
    <3> QED BY <1>2, <3>1, <3>2
  <2>3. P \in SUBSET Nat OBVIOUS
  <2> HIDE DEF P
  <2>4. P = Nat BY <2>1, <2>2, <2>3, Induct
  <2> QED BY <1>1, <2>4 DEF P
<1> QED BY <1>8, <1>9, <1>10 DEF Merging, S, start, n

-----------------------------------------------------------------------------
(* The merged table keeps the names of the blueprint's in their places *)

\* The i-th variable of the blueprint is the last of its name, and a kept one.
Replaceable(target, i) ==
    LET table == target.blueprint.vars IN
    /\ VarPolicy(target, table[i].name) = "Keep"
    /\ \A j \in 1..Len(table) : table[j].name = table[i].name => j <= i

\* The blueprint's variables, some with other values, then names it does not have.
Extends(table, target) ==
    LET old == target.blueprint.vars IN
    /\ table \in Seq(Variables) /\ Len(old) <= Len(table)
    /\ \A i \in 1..Len(old) : /\ table[i].name = old[i].name
                              /\ table[i] = old[i] \/ Replaceable(target, i)
    /\ \A i \in (Len(old) + 1)..Len(table) :
          /\ VarPolicy(target, table[i].name) = "Keep"
          /\ \A j \in 1..(i - 1) : table[j].name # table[i].name

LEMMA MergeExtends ==
    ASSUME NEW target, target.blueprint.vars \in Seq(Variables),
           NEW table, Extends(table, target), NEW v \in Variables
    PROVE  Extends(MergeVar(target, table, v), target)
<1> DEFINE old == target.blueprint.vars
           new == MergeVar(target, table, v)
<1>1. /\ table \in Seq(Variables) /\ Len(old) <= Len(table)
      /\ \A i \in 1..Len(old) : /\ table[i].name = old[i].name
                                /\ table[i] = old[i] \/ Replaceable(target, i)
      /\ \A i \in (Len(old) + 1)..Len(table) :
            /\ VarPolicy(target, table[i].name) = "Keep"
            /\ \A j \in 1..(i - 1) : table[j].name # table[i].name
  BY DEF Extends
<1>2. Len(table) \in Nat /\ Len(old) \in Nat BY <1>1, TableIs
<1>3. new \in Seq(Variables) BY <1>1, MergeIs
<1>4. CASE new = table BY <1>4
<1>5. CASE /\ VarPolicy(target, v.name) = "Keep" /\ new = Append(table, v)
           /\ \A i \in 1..Len(table) : table[i].name # v.name
  <2>1. Len(new) = Len(table) + 1 /\ new[Len(table) + 1] = v
        /\ \A i \in 1..Len(table) : new[i] = table[i]
    BY <1>1, <1>5
  <2> HIDE DEF new, old
  <2>2. \A i \in 1..Len(old) : i \in 1..Len(table) BY <1>1, <1>2
  <2>3. \A i \in 1..Len(old) : /\ new[i].name = old[i].name
                               /\ new[i] = old[i] \/ Replaceable(target, i)
    BY <1>1, <2>1, <2>2
  <2>4. ASSUME NEW i \in (Len(old) + 1)..Len(new)
        PROVE  /\ VarPolicy(target, new[i].name) = "Keep"
               /\ \A j \in 1..(i - 1) : new[j].name # new[i].name
    <3>1. CASE i = Len(table) + 1 BY <1>2, <1>5, <2>1, <3>1
    <3>2. CASE i # Len(table) + 1
      <4>1. /\ i \in (Len(old) + 1)..Len(table) /\ i \in 1..Len(table)
            /\ \A j \in 1..(i - 1) : j \in 1..Len(table)
        BY <1>1, <1>2, <2>1, <3>2
      <4> QED BY <1>1, <2>1, <4>1
    <3> QED BY <3>1, <3>2
  <2>5. Len(old) <= Len(new) BY <1>1, <1>2, <2>1
  <2> QED BY <1>3, <2>3, <2>4, <2>5 DEF Extends, old, new
<1>6. CASE /\ VarPolicy(target, v.name) = "Keep"
           /\ \E i \in 1..Len(table) :
                 /\ table[i].name = v.name /\ new = [table EXCEPT ![i] = v]
                 /\ \A j \in 1..Len(table) : table[j].name = v.name => j <= i
  <2>1. PICK i \in 1..Len(table) :
               /\ table[i].name = v.name /\ new = [table EXCEPT ![i] = v]
               /\ \A j \in 1..Len(table) : table[j].name = v.name => j <= i
    BY <1>6
  <2>2. Len(new) = Len(table) /\ \A j \in 1..Len(table) : new[j] = IF j = i THEN v ELSE table[j]
    BY <1>1, <2>1
  <2> HIDE DEF new, old
  <2>3. \A j \in 1..Len(table) : new[j].name = table[j].name BY <2>1, <2>2
  <2>4. ASSUME NEW j \in 1..Len(old)
        PROVE  new[j].name = old[j].name /\ (new[j] = old[j] \/ Replaceable(target, j))
    <3>1. j \in 1..Len(table) BY <1>1, <1>2
    <3>2. CASE j # i BY <1>1, <2>2, <2>3, <3>1, <3>2
    <3>3. CASE j = i
      <4>1. \A k \in 1..Len(old) : k \in 1..Len(table) /\ table[k].name = old[k].name
        BY <1>1, <1>2
      <4>2. old[i].name = v.name BY <2>1, <3>3, <4>1
      <4>3. Replaceable(target, i) BY <1>6, <2>1, <4>1, <4>2 DEF Replaceable, old
      <4> QED BY <1>1, <2>3, <3>1, <3>3, <4>3
    <3> QED BY <3>2, <3>3
  <2>5. ASSUME NEW j \in (Len(old) + 1)..Len(new)
        PROVE  /\ VarPolicy(target, new[j].name) = "Keep"
               /\ \A k \in 1..(j - 1) : new[k].name # new[j].name
    <3>1. j \in 1..Len(table) /\ \A k \in 1..(j - 1) : k \in 1..Len(table)
      BY <1>2, <2>2
    <3> QED BY <1>1, <2>2, <2>3, <3>1
  <2> QED BY <1>1, <1>3, <2>2, <2>4, <2>5 DEF Extends, old, new
<1> QED BY <1>1, <1>4, <1>5, <1>6, MergeIs

LEMMA MergedExtends ==
    ASSUME NEW item, NEW target,
           item.vars \in Seq(Variables), target.blueprint.vars \in Seq(Variables)
    PROVE  Extends(MergedVars(item, target), target)
<1> DEFINE n == Len(item.vars)
<1>1. PICK f : Merging(f, item.vars, target) /\ MergedVars(item, target) = f[n] BY MergeLoop
<1>2. n \in Nat /\ \A k \in 1..n : item.vars[k] \in Variables BY TableIs
<1> DEFINE P == {k \in Nat : k <= n => Extends(f[k], target)}
<1>3. 0 \in P
  <2>1. f[0] = target.blueprint.vars /\ Len(target.blueprint.vars) \in Nat
    BY <1>1, TableIs DEF Merging
  <2>2. Extends(f[0], target) BY <2>1 DEF Extends
  <2> QED BY <2>2
<1>4. ASSUME NEW k \in P PROVE k + 1 \in P
  <2> SUFFICES ASSUME k + 1 <= n PROVE Extends(f[k + 1], target) OBVIOUS
  <2>1. k \in Nat /\ k <= n BY <1>2
  <2>2. k + 1 \in 1..n /\ (k + 1) - 1 = k BY <1>2, <2>1
  <2>3. f[k + 1] = MergeVar(target, f[k], item.vars[k + 1]) BY <1>1, <2>2 DEF Merging
  <2>4. Extends(f[k], target) BY <2>1
  <2> QED BY <1>2, <2>2, <2>3, <2>4, MergeExtends
<1>5. P \in SUBSET Nat OBVIOUS
<1>6. P = Nat
  <2> HIDE DEF P
  <2> QED BY <1>3, <1>4, <1>5, Induct
<1>7. Extends(f[n], target) BY <1>2, <1>6
<1> QED BY <1>1, <1>7

-----------------------------------------------------------------------------
(* An update of an updated item *)

\* The second loop, after k variables: what it has yet to write again is Replaceable.
Redone(t, k, table, target) ==
    LET old == target.blueprint.vars IN
    /\ t \in Seq(Variables)
    /\ Len(t) = IF k < Len(old) THEN Len(old) ELSE k
    /\ \A i \in 1..Len(t) :
          /\ t[i].name = table[i].name
          /\ i <= k \/ ~Replaceable(target, i) => t[i] = table[i]

LEMMA RedoneStep ==
    ASSUME NEW target, target.blueprint.vars \in Seq(Variables),
           NEW table, Extends(table, target),
           NEW k \in Nat, k + 1 <= Len(table),
           NEW t, Redone(t, k, table, target)
    PROVE  Redone(MergeVar(target, t, table[k + 1]), k + 1, table, target)
<1> DEFINE old == target.blueprint.vars
           v == table[k + 1]
           new == MergeVar(target, t, v)
           Kept == VarPolicy(target, v.name) = "Keep"
<1>1. /\ table \in Seq(Variables) /\ Len(old) <= Len(table)
      /\ \A i \in 1..Len(old) : table[i].name = old[i].name
      /\ \A i \in (Len(old) + 1)..Len(table) :
            /\ VarPolicy(target, table[i].name) = "Keep"
            /\ \A j \in 1..(i - 1) : table[j].name # table[i].name
  BY DEF Extends
<1>2. /\ t \in Seq(Variables)
      /\ Len(t) = IF k < Len(old) THEN Len(old) ELSE k
      /\ \A i \in 1..Len(t) :
            /\ t[i].name = table[i].name
            /\ i <= k \/ ~Replaceable(target, i) => t[i] = table[i]
  BY DEF Redone
<1>3. Len(table) \in Nat /\ Len(old) \in Nat /\ Len(t) \in Nat /\ k \in Int
  BY <1>1, <1>2, TableIs
<1>4. k + 1 \in 1..Len(table) /\ v \in Variables BY <1>1, <1>3
<1>5. new \in Seq(Variables) BY <1>2, <1>4, MergeIs
<1> HIDE DEF old, new, v
<1>6. CASE k + 1 > Len(old)
  <2>1. Len(t) = k /\ k + 1 \in (Len(old) + 1)..Len(table) BY <1>2, <1>3, <1>4, <1>6
  <2>2. Kept /\ \A i \in 1..Len(t) : table[i].name # v.name
    <3>1. (k + 1) - 1 = k BY <1>3
    <3> QED BY <1>1, <2>1, <3>1 DEF v
  <2>3. \A i \in 1..Len(t) : t[i].name # v.name BY <1>2, <2>2
  <2>4. ~(\E i \in 1..Len(t) : t[i].name = v.name) BY <2>3
  <2>5. new = Append(t, v) BY <1>2, <1>4, <2>2, <2>4, MergeIs DEF new
  <2>6. Len(new) = k + 1 /\ new[k + 1] = v /\ \A i \in 1..k : new[i] = t[i] /\ t[i] = table[i]
    BY <1>2, <2>1, <2>5
  <2>7. \A i \in 1..(k + 1) : i = k + 1 \/ i \in 1..k BY <1>3
  <2>8. \A i \in 1..(k + 1) : new[i] = table[i] BY <2>6, <2>7 DEF v
  <2>9. Len(new) = IF k + 1 < Len(old) THEN Len(old) ELSE k + 1 BY <1>3, <1>6, <2>6
  <2> QED BY <1>5, <2>6, <2>8, <2>9 DEF Redone, new, old, v
<1>7. CASE k + 1 <= Len(old)
  <2>1. Len(t) = Len(old) /\ k + 1 \in 1..Len(t) BY <1>2, <1>3, <1>7
  <2>2. \A i \in 1..Len(t) : t[i].name = table[i].name /\ old[i].name = table[i].name
    BY <1>1, <1>2, <2>1
  <2>3. Replaceable(target, k + 1) <=>
          Kept /\ \A j \in 1..Len(t) : t[j].name = v.name => j <= k + 1
    BY <2>1, <2>2 DEF Replaceable, old, v
  <2>4. /\ Len(new) = Len(t)
        /\ \A i \in 1..Len(t) :
              \/ new[i] = t[i] /\ (i = k + 1 => ~Replaceable(target, i))
              \/ /\ Replaceable(target, i) /\ i >= k + 1 /\ new[i] = v /\ i # k + 1
                 /\ v.name = t[i].name
              \/ i = k + 1 /\ new[i] = v
    <3>1. CASE ~Kept
      <4>1. new = t BY <1>2, <1>4, <3>1, MergeIs DEF new
      <4> QED BY <2>3, <3>1, <4>1
    <3>2. CASE Kept
      <4>1. t[k + 1].name = v.name BY <2>1, <2>2 DEF v
      <4>2. PICK i \in 1..Len(t) :
              /\ t[i].name = v.name /\ new = [t EXCEPT ![i] = v]
              /\ \A j \in 1..Len(t) : t[j].name = v.name => j <= i
        <5>1. ~(\A i \in 1..Len(t) : t[i].name # v.name) BY <2>1, <4>1
        <5>2. /\ t \in Seq(Variables) /\ v \in Variables
              /\ VarPolicy(target, v.name) = "Keep"
          BY <1>2, <1>4, <3>2
        <5> QED BY <5>1, <5>2, MergeIs DEF new
      <4>3. Len(new) = Len(t) /\ \A j \in 1..Len(t) : new[j] = IF j = i THEN v ELSE t[j]
        BY <1>2, <1>4, <4>2, ReplacedIs
      <4>4. i >= k + 1
        <5>1. k + 1 <= i BY <2>1, <4>1, <4>2
        <5>2. i \in Int /\ k + 1 \in Int BY <1>3
        <5> QED BY <5>1, <5>2
      <4>5. Replaceable(target, i) BY <2>1, <2>2, <3>2, <4>2 DEF Replaceable, old
      <4>6. i # k + 1 => ~Replaceable(target, k + 1)
        <5>1. i # k + 1 => ~(i <= k + 1) BY <1>3, <4>4
        <5> QED BY <2>3, <4>2, <5>1
      <4> QED BY <4>2, <4>3, <4>4, <4>5, <4>6
    <3> QED BY <3>1, <3>2
  <2>5. ASSUME NEW i \in 1..Len(new)
        PROVE  /\ new[i].name = table[i].name
               /\ i <= k + 1 \/ ~Replaceable(target, i) => new[i] = table[i]
    <3>1. i \in 1..Len(t) BY <2>4
    <3>2. i <= k + 1 => i = k + 1 \/ i <= k BY <1>3, <3>1
    <3>3. i >= k + 1 /\ i # k + 1 => ~(i <= k + 1) BY <1>3, <3>1
    <3>4. CASE i = k + 1 /\ new[i] = v BY <3>4 DEF v
    <3>5. CASE /\ Replaceable(target, i) /\ i >= k + 1 /\ new[i] = v /\ i # k + 1
               /\ v.name = t[i].name
      BY <1>2, <3>1, <3>3, <3>5
    <3>6. CASE new[i] = t[i] /\ (i = k + 1 => ~Replaceable(target, i))
      BY <1>2, <3>1, <3>2, <3>6
    <3> QED BY <2>4, <3>1, <3>4, <3>5, <3>6
  <2>6. Len(new) = IF k + 1 < Len(old) THEN Len(old) ELSE k + 1 BY <1>3, <1>7, <2>1, <2>4
  <2> QED BY <1>5, <2>5, <2>6 DEF Redone, new, old, v
<1> QED BY <1>3, <1>6, <1>7

LEMMA MergedAgain ==
    ASSUME NEW item, NEW new, NEW target,
           item.vars \in Seq(Variables), target.blueprint.vars \in Seq(Variables),
           new.vars = MergedVars(item, target)
    PROVE  MergedVars(new, target) = new.vars
<1> DEFINE table == new.vars
           n == Len(table)
<1>1. Extends(table, target) BY MergedExtends
<1>2. table \in Seq(Variables) /\ Len(target.blueprint.vars) <= n BY <1>1 DEF Extends
<1>3. n \in Nat /\ Len(target.blueprint.vars) \in Nat BY <1>2, TableIs
<1>4. PICK g : Merging(g, table, target) /\ MergedVars(new, target) = g[n]
  BY <1>2, MergeLoop
<1> DEFINE P == {k \in Nat : k <= n => Redone(g[k], k, table, target)}
<1> HIDE DEF table, n
<1>5. 0 \in P
  <2>1. g[0] = target.blueprint.vars BY <1>4 DEF Merging
  <2>2. Redone(g[0], 0, table, target)
    <3>1. \A i \in 1..Len(target.blueprint.vars) : ~(i <= 0) BY <1>3
    <3> QED BY <1>1, <1>3, <2>1, <3>1 DEF Redone, Extends
  <2> QED BY <2>2
<1>6. ASSUME NEW k \in P PROVE k + 1 \in P
  <2>0. k \in Nat /\ k + 1 \in Nat OBVIOUS
  <2> SUFFICES ASSUME k + 1 <= n PROVE Redone(g[k + 1], k + 1, table, target) BY <2>0
  <2>1. k <= n /\ k + 1 \in 1..n /\ (k + 1) - 1 = k BY <1>3, <2>0
  <2>2. Redone(g[k], k, table, target) BY <2>1
  <2>3. g[k + 1] = MergeVar(target, g[k], table[k + 1])
    BY <1>4, <2>1 DEF Merging, n
  <2> HIDE DEF P
  <2> QED BY <1>1, <2>0, <2>2, <2>3, RedoneStep DEF n
<1>7. P \in SUBSET Nat OBVIOUS
<1>8. P = Nat
  <2> HIDE DEF P
  <2> QED BY <1>5, <1>6, <1>7, Induct
<1>9. Redone(g[n], n, table, target) BY <1>3, <1>8
<1>10. /\ g[n] \in Seq(Variables) /\ Len(g[n]) = n
       /\ \A i \in 1..n : g[n][i] = table[i]
  BY <1>2, <1>3, <1>9 DEF Redone
<1>11. g[n] = table BY <1>2, <1>10 DEF n
<1> QED BY <1>4, <1>11 DEF table

LEMMA PropsAgain ==
    ASSUME NEW item, NEW new, NEW target, new.props = MergedProps(item, target)
    PROVE  /\ BlueprintProps(new, target) = BlueprintProps(item, target)
           /\ MergedProps(new, target) = new.props
           /\ \A p \in Props : /\ item.props[p] # Absent
                               /\ BlueprintProps(item, target)[p] # Absent
                               => new.props[p] # Absent
<1> DEFINE set == BlueprintProps(item, target)
           again == BlueprintProps(new, target)
<1>1. "LastName" \in Props /\ Empty # Absent BY BlueprintConstants
<1>2. \A p \in Props : new.props[p] = IF p \in DOMAIN target.prop /\ target.prop[p] = "Keep"
                                      THEN item.props[p] ELSE set[p]
  BY DEF MergedProps
<1>3. ASSUME NEW p \in Props PROVE again[p] = set[p]
  <2>1. CASE p \in DOMAIN Fixed \/ p \in BlueprintOnly \/ p # "LastName"
    BY <2>1 DEF BlueprintProps
  <2>2. CASE /\ p \notin DOMAIN Fixed /\ p \notin BlueprintOnly /\ p = "LastName"
    <3>1. set[p] = IF item.props[p] # Absent /\ target.blueprint.props[p] = Absent
                   THEN Empty ELSE target.blueprint.props[p]
      BY <2>2 DEF BlueprintProps
    <3>2. again[p] = IF new.props[p] # Absent /\ target.blueprint.props[p] = Absent
                     THEN Empty ELSE target.blueprint.props[p]
      BY <2>2 DEF BlueprintProps
    <3> QED BY <1>1, <1>2, <3>1, <3>2
  <2> QED BY <2>1, <2>2
<1>4. again = set
  <2> HIDE DEF set, again
  <2>1. set = [p \in Props |-> set[p]] /\ again = [p \in Props |-> again[p]]
    BY DEF BlueprintProps, set, again
  <2> QED BY <1>3, <2>1
<1>5. MergedProps(new, target) = new.props
  <2>1. \A p \in Props : MergedProps(new, target)[p] =
            IF p \in DOMAIN target.prop /\ target.prop[p] = "Keep"
            THEN new.props[p] ELSE set[p]
    BY <1>4 DEF MergedProps
  <2>2. \A p \in Props : MergedProps(new, target)[p] = new.props[p] BY <1>2, <2>1
  <2>3. /\ MergedProps(new, target) = [p \in Props |-> MergedProps(new, target)[p]]
        /\ new.props = [p \in Props |-> new.props[p]]
    BY DEF MergedProps
  <2> QED BY <2>2, <2>3
<1> QED BY <1>2, <1>4, <1>5

Typed(item, target) ==
    /\ item.vars \in Seq(Variables) /\ target.blueprint.vars \in Seq(Variables)
    /\ DOMAIN target.prop \subseteq Props

LEMMA UpdateAgain ==
    ASSUME NEW item, NEW target, Typed(item, target), ~Refused(item, target)
    PROVE  Stable(item, target)
<1> DEFINE new == UpdateItem(item, target)
<1>1. /\ new.props = MergedProps(item, target) /\ new.vars = MergedVars(item, target)
      /\ new.contents = item.contents
      /\ new = [id |-> new.id, obj |-> new.obj, props |-> new.props, vars |-> new.vars,
                contents |-> new.contents]
  BY DEF UpdateItem
<1> HIDE DEF new
<1>2. MergedVars(new, target) = new.vars BY <1>1, MergedAgain DEF Typed
<1>3. /\ BlueprintProps(new, target) = BlueprintProps(item, target)
      /\ MergedProps(new, target) = new.props
      /\ \A p \in Props : /\ item.props[p] # Absent
                          /\ BlueprintProps(item, target)[p] # Absent
                          => new.props[p] # Absent
  BY <1>1, PropsAgain
<1>4. ~Refused(new, target) BY <1>1, <1>3 DEF Refused, Typed
<1>5. UpdateItem(new, target) = new BY <1>1, <1>2, <1>3 DEF UpdateItem
<1> QED BY <1>4, <1>5 DEF Stable, new

-----------------------------------------------------------------------------
(* What the loop over the variables computes *)

LEMMA MergeSet ==
    ASSUME NEW target, NEW table \in Seq(Variables), Distinct(table), NEW v \in Variables,
           VarPolicy(target, v.name) = "Keep"
    PROVE  /\ Distinct(MergeVar(target, table, v))
           /\ ToSet(MergeVar(target, table, v)) =
                {v} \union {x \in ToSet(table) : x.name # v.name}
<1> DEFINE new == MergeVar(target, table, v)
<1>1. /\ Len(table) \in Nat /\ DOMAIN table = 1..Len(table)
      /\ \A i, j \in 1..Len(table) : table[i].name = table[j].name => i = j
      /\ ToSet(table) = {table[i] : i \in 1..Len(table)}
  BY TableIs DEF Distinct, ToSet
<1>2. /\ new \in Seq(Variables) /\ Len(new) \in Nat /\ DOMAIN new = 1..Len(new)
      /\ ToSet(new) = {new[i] : i \in 1..Len(new)}
  <2>1. new \in Seq(Variables) BY MergeIs
  <2> HIDE DEF new
  <2> QED BY <2>1, TableIs DEF ToSet
<1>3. CASE new = Append(table, v) /\ \A i \in 1..Len(table) : table[i].name # v.name
  <2>1. Len(new) = Len(table) + 1 /\ new[Len(table) + 1] = v
        /\ \A i \in 1..Len(table) : new[i] = table[i]
    BY <1>3
  <2>2. /\ 1..Len(new) = 1..Len(table) \union {Len(table) + 1}
        /\ Len(table) + 1 \notin 1..Len(table)
    BY <1>1, <2>1
  <2> HIDE DEF new
  <2>3. ToSet(new) = {v} \union {x \in ToSet(table) : x.name # v.name}
    BY <1>1, <1>2, <1>3, <2>1, <2>2
  <2>4. \A i, j \in 1..Len(new) : new[i].name = new[j].name => i = j
    BY <1>1, <1>3, <2>1, <2>2
  <2>5. Distinct(new) BY <1>2, <2>4 DEF Distinct
  <2> QED BY <2>3, <2>5 DEF new
<1>4. CASE \E i \in 1..Len(table) : table[i].name = v.name /\ new = [table EXCEPT ![i] = v]
  <2>1. PICK i \in 1..Len(table) : table[i].name = v.name /\ new = [table EXCEPT ![i] = v]
    BY <1>4
  <2>2. Len(new) = Len(table) /\ \A j \in 1..Len(table) : new[j] = IF j = i THEN v ELSE table[j]
    BY <2>1, ReplacedIs
  <2> HIDE DEF new
  <2>3. \A j \in 1..Len(table) : j # i => table[j].name # v.name BY <1>1, <2>1
  <2>4. ToSet(new) = {v} \union {x \in ToSet(table) : x.name # v.name}
    BY <1>1, <1>2, <2>1, <2>2, <2>3
  <2>5. \A j, k \in 1..Len(new) : new[j].name = new[k].name => j = k
    BY <1>1, <2>1, <2>2
  <2>6. Distinct(new) BY <1>2, <2>5 DEF Distinct
  <2> QED BY <2>4, <2>6 DEF new
<1> QED BY <1>3, <1>4, MergeIs

LEMMA MergedByPolicy ==
    ASSUME NEW item, NEW target, Typed(item, target)
    PROVE  AsPolicySays(item, target)
<1> DEFINE n == Len(item.vars)
           old == target.blueprint.vars
           Keep(v) == VarPolicy(target, v.name) = "Keep"
           KeptOf(k) == {v \in {item.vars[i] : i \in 1..k} : Keep(v)}
           Result(K) == K \union {v \in ToSet(old) : \A u \in K : u.name # v.name}
<1> SUFFICES ASSUME Distinct(item.vars), Distinct(old)
             PROVE  /\ ToSet(MergedVars(item, target)) = Result(KeptOf(n))
                    /\ Distinct(MergedVars(item, target))
  <2>1. UpdateItem(item, target).vars = MergedVars(item, target) BY DEF UpdateItem
  <2>2. ToSet(item.vars) = {item.vars[i] : i \in 1..n} BY TableIs DEF Typed, ToSet
  <2> QED BY <2>1, <2>2 DEF AsPolicySays
<1>1. PICK f : Merging(f, item.vars, target) /\ MergedVars(item, target) = f[n]
  BY MergeLoop DEF Typed
<1>2. /\ n \in Nat /\ \A k \in 1..n : item.vars[k] \in Variables
      /\ \A i, j \in 1..n : item.vars[i].name = item.vars[j].name => i = j
  BY TableIs DEF Typed, Distinct
<1> DEFINE P == {k \in Nat : k <= n => ToSet(f[k]) = Result(KeptOf(k)) /\ Distinct(f[k])}
<1>3. 0 \in P
  <2>1. f[0] = old BY <1>1 DEF Merging
  <2>2. KeptOf(0) = {} OBVIOUS
  <2>3. Result({}) = ToSet(old) OBVIOUS
  <2> QED BY <2>1, <2>2, <2>3
<1>4. ASSUME NEW k \in P PROVE k + 1 \in P
  <2>0. k \in Nat /\ k + 1 \in Nat OBVIOUS
  <2> SUFFICES ASSUME k + 1 <= n
               PROVE  ToSet(f[k + 1]) = Result(KeptOf(k + 1)) /\ Distinct(f[k + 1])
    BY <2>0
  <2> DEFINE v == item.vars[k + 1]
  <2>1. /\ k <= n /\ k \in 0..n /\ k + 1 \in 1..n /\ (k + 1) - 1 = k
        /\ 1..(k + 1) = 1..k \union {k + 1}
        /\ \A i \in 1..k : i \in 1..n /\ i # k + 1
    BY <1>2, <2>0
  <2>2. /\ f[k + 1] = MergeVar(target, f[k], v)
        /\ f[k] \in Seq(Variables)
    BY <1>1, <2>1 DEF Merging
  <2>3. ToSet(f[k]) = Result(KeptOf(k)) /\ Distinct(f[k]) BY <2>1
  <2>4. v \in Variables BY <1>2, <2>1
  <2>5. CASE ~Keep(v)
    <3>1. KeptOf(k + 1) = KeptOf(k) BY <2>1, <2>5
    <3>2. f[k + 1] = f[k] BY <2>2, <2>5 DEF MergeVar
    <3> HIDE DEF KeptOf, Result
    <3> QED BY <2>3, <3>1, <3>2
  <2>6. CASE Keep(v)
    <3>1. KeptOf(k + 1) = KeptOf(k) \union {v} BY <2>1, <2>6
    <3>2. \A u \in KeptOf(k) : u.name # v.name BY <1>2, <2>1
    <3>3. /\ Distinct(f[k + 1])
          /\ ToSet(f[k + 1]) = {v} \union {x \in ToSet(f[k]) : x.name # v.name}
      BY <2>2, <2>3, <2>4, <2>6, MergeSet
    <3> HIDE DEF KeptOf, v
    <3>4. Result(KeptOf(k) \union {v}) = {v} \union {x \in Result(KeptOf(k)) : x.name # v.name}
      BY <3>2
    <3> HIDE DEF Result
    <3> QED BY <2>3, <3>1, <3>3, <3>4
  <2> QED BY <2>5, <2>6
<1>5. P \in SUBSET Nat OBVIOUS
<1>6. P = Nat
  <2> HIDE DEF P
  <2> QED BY <1>3, <1>4, <1>5, Induct
<1>7. n \in P BY <1>2, <1>6
<1>8. ToSet(f[n]) = Result(KeptOf(n)) /\ Distinct(f[n])
  <2> HIDE DEF KeptOf, Result, n
  <2> QED BY <1>2, <1>7
<1> QED BY <1>1, <1>8

-----------------------------------------------------------------------------
(* Sequences of items *)

LEMMA SequenceIs ==
    ASSUME NEW X, NEW s \in Seq(X)
    PROVE  /\ Len(s) \in Nat /\ DOMAIN s = 1..Len(s) /\ \A i \in 1..Len(s) : s[i] \in X
           /\ s = [i \in 1..Len(s) |-> s[i]]
OBVIOUS

LEMMA AppendIs ==
    ASSUME NEW X, NEW s \in Seq(X), NEW x \in X
    PROVE  LET new == Append(s, x) IN
           /\ new \in Seq(X) /\ Len(new) = Len(s) + 1 /\ new[Len(s) + 1] = x
           /\ \A i \in 1..Len(s) : new[i] = s[i]
OBVIOUS

LEMMA MapIs ==
    ASSUME NEW X, NEW n \in Nat, NEW s, s = [i \in 1..n |-> s[i]],
           \A i \in 1..n : s[i] \in X
    PROVE  s \in Seq(X) /\ Len(s) = n
OBVIOUS

\* Where the elements of a sequence without its i-th are in that sequence.
After(k, i) == IF k < i THEN k ELSE k + 1

LEMMA RemoveAtIs ==
    ASSUME NEW X, NEW s \in Seq(X), NEW i \in 1..Len(s)
    PROVE  LET new == RemoveAt(s, i) IN
           /\ new \in Seq(X) /\ Len(new) = Len(s) - 1 /\ Len(new) \in Nat
           /\ \A k \in 1..Len(new) : new[k] = s[After(k, i)]
<1> DEFINE left == SubSeq(s, 1, i - 1)
           right == SubSeq(s, i + 1, Len(s))
<1>1. Len(s) \in Nat /\ i \in Nat /\ i >= 1 /\ i <= Len(s) OBVIOUS
<1>2. /\ left \in Seq(X) /\ Len(left) = i - 1
      /\ \A k \in 1..(i - 1) : left[k] = s[k]
  BY <1>1
<1>3. /\ right \in Seq(X) /\ Len(right) = Len(s) - i
      /\ \A k \in 1..(Len(s) - i) : right[k] = s[i + k]
  BY <1>1
<1> HIDE DEF left, right
<1>4. /\ left \o right \in Seq(X) /\ Len(left \o right) = Len(left) + Len(right)
      /\ \A k \in 1..(Len(left) + Len(right)) :
            (left \o right)[k] = IF k <= Len(left) THEN left[k] ELSE right[k - Len(left)]
  BY <1>2, <1>3, ConcatProperties
<1>5. Len(left) + Len(right) = Len(s) - 1 BY <1>1, <1>2, <1>3
<1>6. ASSUME NEW k \in 1..(Len(s) - 1) PROVE (left \o right)[k] = s[After(k, i)]
  <2>1. CASE k < i
    <3>1. k \in 1..(i - 1) /\ k <= Len(left) BY <1>1, <1>2, <2>1
    <3> QED BY <1>2, <1>4, <1>5, <2>1, <3>1 DEF After
  <2>2. CASE ~(k < i)
    <3>1. /\ ~(k <= Len(left)) /\ k - Len(left) \in 1..(Len(s) - i)
          /\ i + (k - Len(left)) = k + 1
      BY <1>1, <1>2, <2>2
    <3> QED BY <1>3, <1>4, <1>5, <2>2, <3>1 DEF After
  <2> QED BY <2>1, <2>2
<1>7. RemoveAt(s, i) = left \o right BY DEF RemoveAt, left, right
<1> QED BY <1>1, <1>4, <1>5, <1>6, <1>7

-----------------------------------------------------------------------------
(* Updated items are items *)

LEMMA TargetTyped ==
    ASSUME NEW item, Targeted(item)
    PROVE  TargetOf(item).blueprint \in Blueprints /\ DOMAIN TargetOf(item).prop \subseteq Props
BY TargetsTyped DEF Targeted, TargetOf

LEMMA RenewedIs ==
    ASSUME NEW inside, NEW item \in Items(inside)
    PROVE  /\ Renewed(item) \in Items(inside)
           /\ Renewed(item).id = item.id /\ Renewed(item).obj = item.obj
           /\ Renewed(item).contents = item.contents
<1>1. CASE ~Targeted(item) BY <1>1 DEF Renewed
<1>2. CASE Targeted(item)
  <2> DEFINE target == TargetOf(item)
             blueprint == target.blueprint
             new == UpdateItem(item, target)
  <2>1. /\ item.id \in Nat /\ item.obj \in Things /\ item.props \in [Props -> Values]
        /\ item.vars \in Seq(Variables) /\ item.contents \in inside
    BY DEF Items
  <2>2. blueprint.props \in [Props -> Values] /\ blueprint.vars \in Seq(Variables)
    BY <1>2, TargetTyped DEF Blueprints
  <2> HIDE DEF target
  <2>3. MergedVars(item, target) \in Seq(Variables) BY <2>1, <2>2, MergedExtends DEF Extends
  <2>4. ASSUME NEW p \in Props PROVE BlueprintProps(item, target)[p] \in Values
    <3>1. BlueprintProps(item, target)[p] \in
            {Absent, Empty, blueprint.props[p]}
              \union {Fixed[q] : q \in {p} \intersect DOMAIN Fixed}
      BY DEF BlueprintProps
    <3> QED BY <2>2, <3>1, BlueprintConstants
  <2>5. MergedProps(item, target) \in [Props -> Values] BY <2>1, <2>4 DEF MergedProps
  <2>6. /\ new.id = item.id /\ new.obj = item.obj /\ new.contents = item.contents
        /\ new \in Items(inside)
    BY <2>1, <2>3, <2>5 DEF UpdateItem, Items
  <2>7. Renewed(item) = new BY <1>2 DEF Renewed, target
  <2> QED BY <2>6, <2>7
<1> QED BY <1>1, <1>2

LEMMA SingleIsCarried == Single \subseteq Carried BY DEF Single, Carried, Items

LEMMA InsideIs ==
    ASSUME NEW item \in Carried
    PROVE  /\ item.contents = NoBag => item \in Single
           /\ item.contents # NoBag => item.contents \in Seq(Single)
           /\ Contents(item) \in Seq(Single)
<1>1. item.contents \in {NoBag} \union Seq(Single) BY DEF Carried, Items
<1>2. item.contents = NoBag => item \in Single BY DEF Carried, Single, Items
<1> QED BY <1>1, <1>2 DEF Contents

LEMMA RenewedWithContentsIs ==
    ASSUME NEW item \in Carried
    PROVE  LET new == RenewedWithContents(item) IN
           /\ new \in Carried /\ new.obj = item.obj
           /\ (new.contents = NoBag) <=> (item.contents = NoBag)
           /\ Len(Contents(new)) = Len(Contents(item))
           /\ \A i \in 1..Len(Contents(item)) : Contents(new)[i].obj = Contents(item)[i].obj
<1>1. CASE item.contents = NoBag
  <2>1. RenewedWithContents(item) = Renewed(item) BY <1>1 DEF RenewedWithContents
  <2>2. /\ Renewed(item) \in Carried /\ Renewed(item).obj = item.obj
        /\ Renewed(item).contents = NoBag
    BY <1>1, RenewedIs DEF Carried
  <2>3. Contents(Renewed(item)) = Contents(item) BY <1>1, <2>2 DEF Contents
  <2>4. Len(Contents(item)) = 0 BY <1>1 DEF Contents
  <2> QED BY <1>1, <2>1, <2>2, <2>3, <2>4
<1>2. CASE item.contents # NoBag
  <2> DEFINE held == item.contents
             updated == [i \in DOMAIN held |-> Renewed(held[i])]
             new == [Renewed(item) EXCEPT !.contents = updated]
  <2>1. held \in Seq(Single) BY <1>2, InsideIs
  <2>2. /\ Len(held) \in Nat /\ DOMAIN held = 1..Len(held)
        /\ \A i \in 1..Len(held) : held[i] \in Single
    BY <2>1, SequenceIs
  <2>3. \A i \in 1..Len(held) : Renewed(held[i]) \in Single /\ Renewed(held[i]).obj = held[i].obj
    BY <2>2, RenewedIs DEF Single
  <2>4. updated \in Seq(Single) /\ Len(updated) = Len(held)
    <3>1. updated = [i \in 1..Len(held) |-> updated[i]]
          /\ \A i \in 1..Len(held) : updated[i] \in Single
      BY <2>2, <2>3
    <3> HIDE DEF updated
    <3> QED BY <2>2, <3>1, MapIs
  <2>5. \A i \in 1..Len(held) : updated[i].obj = held[i].obj BY <2>2, <2>3
  <2>6. /\ Renewed(item) \in Carried /\ Renewed(item).contents = held
        /\ Renewed(item).obj = item.obj
    BY RenewedIs DEF Carried
  <2>7. RenewedWithContents(item) = new BY <1>2, <2>6 DEF RenewedWithContents
  <2> HIDE DEF updated
  <2>8. new \in Carried /\ new.obj = item.obj /\ new.contents = updated
    BY <2>4, <2>6 DEF Carried, Items
  <2>9. updated # NoBag BY <2>4, NoBagIsNone
  <2> QED BY <1>2, <2>4, <2>5, <2>7, <2>8, <2>9 DEF Contents
<1> QED BY <1>1, <1>2

-----------------------------------------------------------------------------
(* The two loops over what is worn *)

Typing == inventory \in Seq(Carried) /\ worn \in Seq(Single)

BlueprintInv == Typing /\ RoomRespected

\* What the first loop carries along.
Accs == {a \in [items : Seq(Carried), removed : SUBSET Nat] : Len(a.items) <= MaxItems}

Unpacked == [items |-> [i \in DOMAIN inventory |-> RenewedWithContents(inventory[i])],
             removed |-> {}]

\* The states the first loop goes through, and the second.
Unequips(f) ==
    /\ f[0] = Unpacked
    /\ \A k \in 0..Len(worn) : f[k] \in Accs
    /\ \A k \in 1..Len(worn) : f[k] = UnequipOne(f[k - 1], worn[k])

Left(removed, left, item) == IF Renewed(item).id \in removed THEN left
                             ELSE Append(left, Renewed(item))

Sweeps(f) ==
    /\ f[0] = <<>>
    /\ \A k \in 0..Len(worn) : f[k] \in Seq(Single)
    /\ \A k \in 1..Len(worn) : f[k] = Left(Unequipping.removed, f[k - 1], worn[k])

LEMMA UnpackedIs ==
    ASSUME BlueprintInv
    PROVE  /\ Unpacked \in Accs /\ Len(Unpacked.items) = Len(inventory)
           /\ \A i \in 1..Len(inventory) :
                Unpacked.items[i] = RenewedWithContents(inventory[i])
<1> DEFINE new == [i \in DOMAIN inventory |-> RenewedWithContents(inventory[i])]
<1>1. /\ Len(inventory) \in Nat /\ DOMAIN inventory = 1..Len(inventory)
      /\ \A i \in 1..Len(inventory) : inventory[i] \in Carried
  BY SequenceIs DEF BlueprintInv, Typing
<1>2. \A i \in 1..Len(inventory) : new[i] = RenewedWithContents(inventory[i]) BY <1>1
<1>3. /\ new = [i \in 1..Len(inventory) |-> new[i]]
      /\ \A i \in 1..Len(inventory) : new[i] \in Carried
  BY <1>1, RenewedWithContentsIs
<1> HIDE DEF new
<1>4. new \in Seq(Carried) /\ Len(new) = Len(inventory) BY <1>1, <1>3, MapIs
<1>5. Unpacked = [items |-> new, removed |-> {}] BY DEF Unpacked, new
<1>6. Unpacked.items = new /\ Unpacked \in [items : Seq(Carried), removed : SUBSET Nat]
  BY <1>4, <1>5
<1>7. Len(new) <= MaxItems BY <1>4 DEF BlueprintInv, RoomRespected
<1> QED BY <1>2, <1>4, <1>6, <1>7 DEF Accs

LEMMA UnequipOneIs ==
    ASSUME NEW a \in Accs, NEW item \in Single
    PROVE  UnequipOne(a, item) \in Accs
<1>1. /\ a.items \in Seq(Carried) /\ a.removed \in SUBSET Nat /\ Len(a.items) <= MaxItems
      /\ a \in [items : Seq(Carried), removed : SUBSET Nat]
  BY DEF Accs
<1>2. CASE Targeted(item) /\ Len(a.items) < MaxItems
  <2> DEFINE new == Append(a.items, Renewed(item))
             ids == a.removed \union {Renewed(item).id}
  <2>1. Renewed(item) \in Single /\ Renewed(item).id \in Nat
    BY RenewedIs DEF Single, Items
  <2>2. Renewed(item) \in Carried BY <2>1, SingleIsCarried
  <2>3. new \in Seq(Carried) /\ Len(new) = Len(a.items) + 1 BY <1>1, <2>2, AppendIs
  <2>4. Len(a.items) \in Nat /\ MaxItems \in Nat BY <1>1, BlueprintConstants
  <2>5. Len(new) <= MaxItems BY <1>2, <2>3, <2>4
  <2>6. ids \in SUBSET Nat BY <1>1, <2>1
  <2>7. UnequipOne(a, item) = [items |-> new, removed |-> ids] BY <1>2 DEF UnequipOne
  <2> HIDE DEF new, ids
  <2> QED BY <2>3, <2>5, <2>6, <2>7 DEF Accs
<1>3. CASE ~(Targeted(item) /\ Len(a.items) < MaxItems) BY <1>3 DEF UnequipOne
<1> QED BY <1>2, <1>3

LEMMA UnequippingLoop ==
    ASSUME BlueprintInv
    PROVE  \E f : Unequips(f) /\ Unequipping = f[Len(worn)]
<1> DEFINE n == Len(worn)
           Body(f) == [k \in 0..n |-> IF k = 0 THEN Unpacked
                                      ELSE UnequipOne(f[k - 1], worn[k])]
           f == CHOOSE g : g = Body(g)
           step == [k \in 1..n |-> [a \in Accs |-> UnequipOne(a, worn[k])]]
<1>1. n \in Nat /\ \A k \in 1..n : worn[k] \in Single
  BY SequenceIs DEF BlueprintInv, Typing
<1>2. Unpacked \in Accs BY UnpackedIs
<1>3. \A k \in 1..n, a \in Accs : UnequipOne(a, worn[k]) \in Accs BY <1>1, UnequipOneIs
<1>4. Loop(n, Accs, Unpacked, step) BY <1>1, <1>2, <1>3 DEF Loop
<1>5. \A k \in 1..n, a \in Accs : step[k][a] = UnequipOne(a, worn[k]) OBVIOUS
<1> HIDE DEF step, n, f, Body
<1>6. PICK g : Runs(g, n, Accs, Unpacked, step) BY <1>4, LoopEnds
<1>7. g = Body(g)
  <2> USE DEF Body
  <2>1. ASSUME NEW k \in 0..n
        PROVE  g[k] = IF k = 0 THEN Unpacked ELSE UnequipOne(g[k - 1], worn[k])
    <3>1. CASE k = 0 BY <1>6, <3>1 DEF Runs
    <3>2. CASE k # 0
      <4>1. k \in 1..n /\ k - 1 \in 0..n BY <1>1, <3>2
      <4>2. g[k] = step[k][g[k - 1]] /\ g[k - 1] \in Accs BY <1>6, <4>1 DEF Runs
      <4> QED BY <1>5, <3>2, <4>1, <4>2
    <3> QED BY <3>1, <3>2
  <2> QED BY <1>6, <2>1 DEF Runs
<1> USE DEF f, Body
<1>8. f = Body(f) BY <1>7
<1>9. Unequipping = f[n] BY DEF Unequipping, n, Unpacked
<1> HIDE DEF f
<1>10. f[0] = Unpacked /\ \A k \in 1..n : f[k] = UnequipOne(f[k - 1], worn[k])
  BY <1>1, <1>8
<1>11. \A k \in 0..n : f[k] \in Accs
  <2> DEFINE P == {k \in Nat : k <= n => f[k] \in Accs}
  <2>1. 0 \in P BY <1>2, <1>10
  <2>2. ASSUME NEW k \in P PROVE k + 1 \in P
    <3>0. k \in Nat /\ k + 1 \in Nat OBVIOUS
    <3> SUFFICES ASSUME k + 1 <= n PROVE f[k + 1] \in Accs BY <3>0
    <3>1. k + 1 \in 1..n /\ (k + 1) - 1 = k /\ f[k] \in Accs BY <1>1
    <3>2. f[k + 1] = UnequipOne(f[k], worn[k + 1]) BY <1>10, <3>1
    <3> QED BY <1>3, <3>1, <3>2
  <2>3. P \in SUBSET Nat OBVIOUS
  <2> HIDE DEF P
  <2>4. P = Nat BY <2>1, <2>2, <2>3, Induct
  <2> QED BY <1>1, <2>4 DEF P
<1> QED BY <1>9, <1>10, <1>11 DEF Unequips, n

LEMMA SweepingLoop ==
    ASSUME BlueprintInv
    PROVE  \E f : Sweeps(f) /\ StillWorn = f[Len(worn)]
<1> DEFINE n == Len(worn)
           S == Seq(Single)
           gone == Unequipping.removed
           Body(f) == [k \in 0..n |-> IF k = 0 THEN <<>> ELSE Left(gone, f[k - 1], worn[k])]
           f == CHOOSE g : g = Body(g)
           step == [k \in 1..n |-> [left \in S |-> Left(gone, left, worn[k])]]
<1>1. n \in Nat /\ \A k \in 1..n : worn[k] \in Single
  BY SequenceIs DEF BlueprintInv, Typing
<1>2. ASSUME NEW k \in 1..n, NEW left \in S PROVE Left(gone, left, worn[k]) \in S
  <2>1. Renewed(worn[k]) \in Single BY <1>1, RenewedIs DEF Single
  <2> QED BY <2>1, AppendIs DEF Left
<1>3. <<>> \in S OBVIOUS
<1>4. Loop(n, S, <<>>, step) BY <1>1, <1>2, <1>3 DEF Loop
<1>5. \A k \in 1..n, left \in S : step[k][left] = Left(gone, left, worn[k]) OBVIOUS
<1> HIDE DEF step, n, f, Body, S, gone
<1>6. PICK g : Runs(g, n, S, <<>>, step) BY <1>4, LoopEnds
<1>7. g = Body(g)
  <2> USE DEF Body
  <2>1. ASSUME NEW k \in 0..n
        PROVE  g[k] = IF k = 0 THEN <<>> ELSE Left(gone, g[k - 1], worn[k])
    <3>1. CASE k = 0 BY <1>6, <3>1 DEF Runs
    <3>2. CASE k # 0
      <4>1. k \in 1..n /\ k - 1 \in 0..n BY <1>1, <3>2
      <4>2. g[k] = step[k][g[k - 1]] /\ g[k - 1] \in S BY <1>6, <4>1 DEF Runs
      <4> QED BY <1>5, <3>2, <4>1, <4>2
    <3> QED BY <3>1, <3>2
  <2> QED BY <1>6, <2>1 DEF Runs
<1> USE DEF f, Body
<1>8. f = Body(f) BY <1>7
<1>9. StillWorn = f[n] BY DEF StillWorn, Left, n, gone
<1> HIDE DEF f
<1>10. f[0] = <<>> /\ \A k \in 1..n : f[k] = Left(gone, f[k - 1], worn[k]) BY <1>1, <1>8
<1>11. \A k \in 0..n : f[k] \in S
  <2> DEFINE P == {k \in Nat : k <= n => f[k] \in S}
  <2>1. 0 \in P BY <1>3, <1>10
  <2>2. ASSUME NEW k \in P PROVE k + 1 \in P
    <3>0. k \in Nat /\ k + 1 \in Nat OBVIOUS
    <3> SUFFICES ASSUME k + 1 <= n PROVE f[k + 1] \in S BY <3>0
    <3>1. k + 1 \in 1..n /\ (k + 1) - 1 = k /\ f[k] \in S BY <1>1
    <3>2. f[k + 1] = Left(gone, f[k], worn[k + 1]) BY <1>10, <3>1
    <3> QED BY <1>2, <3>1, <3>2
  <2>3. P \in SUBSET Nat OBVIOUS
  <2> HIDE DEF P
  <2>4. P = Nat BY <2>1, <2>2, <2>3, Induct
  <2> QED BY <1>1, <2>4 DEF P
<1> QED BY <1>9, <1>10, <1>11 DEF Sweeps, S, n, gone

-----------------------------------------------------------------------------
(* Every step keeps the types and the room *)

LEMMA UpdateTyped ==
    ASSUME BlueprintInv, UpdateCharacter
    PROVE  BlueprintInv'
<1>1. Len(worn) \in Nat /\ Len(worn) \in 0..Len(worn)
  BY SequenceIs DEF BlueprintInv, Typing
<1>2. Unequipping \in Accs BY <1>1, UnequippingLoop DEF Unequips
<1>3. StillWorn \in Seq(Single) BY <1>1, SweepingLoop DEF Sweeps
<1>4. inventory' \in Seq(Carried) /\ Len(inventory') <= MaxItems
  BY <1>2 DEF UpdateCharacter, Accs
<1>5. worn' \in Seq(Single) BY <1>3 DEF UpdateCharacter
<1> QED BY <1>4, <1>5 DEF BlueprintInv, Typing, RoomRespected

LEMMA Renumbered ==
    ASSUME NEW inside, NEW item \in Items(inside), NEW id \in Nat
    PROVE  LET new == [item EXCEPT !.id = id] IN
           /\ new \in Items(inside) /\ new.id = id /\ new.obj = item.obj
           /\ new.contents = item.contents
BY DEF Items

LEMMA SetLocalTyped ==
    ASSUME NEW table \in Seq(Variables), NEW v \in Locals
    PROVE  SetLocal(table, v) \in Seq(Variables)
<1>1. v \in Variables BY BlueprintConstants
<1>2. CASE \E i \in DOMAIN table : table[i].name = v.name /\ table[i].type = v.type
  <2> DEFINE new == [i \in DOMAIN table |->
                        IF table[i].name = v.name /\ table[i].type = v.type
                        THEN v ELSE table[i]]
  <2>1. SetLocal(table, v) = new BY <1>2 DEF SetLocal
  <2>2. Len(table) \in Nat /\ new = [i \in 1..Len(table) |-> new[i]] BY TableIs
  <2>3. \A i \in 1..Len(table) : new[i] \in Variables BY <1>1, TableIs
  <2> HIDE DEF new
  <2> QED BY <2>1, <2>2, <2>3, MapIs
<1>3. CASE ~(\E i \in DOMAIN table : table[i].name = v.name /\ table[i].type = v.type)
  BY <1>1, <1>3, AppendIs DEF SetLocal
<1> QED BY <1>2, <1>3

LEMMA GameTyped ==
    ASSUME BlueprintInv, Game
    PROVE  BlueprintInv'
<1>1. /\ inventory \in Seq(Carried) /\ worn \in Seq(Single)
      /\ Len(inventory) \in Nat /\ Len(worn) \in Nat /\ Len(inventory) <= MaxItems
      /\ MaxItems \in Nat
  BY BlueprintConstants, SequenceIs DEF BlueprintInv, Typing, RoomRespected
<1>2. /\ DOMAIN inventory = 1..Len(inventory) /\ DOMAIN worn = 1..Len(worn)
      /\ \A i \in DOMAIN inventory : inventory[i] \in Carried
      /\ \A k \in DOMAIN worn : worn[k] \in Single
  BY <1>1, SequenceIs
<1> SUFFICES /\ inventory' \in Seq(Carried) /\ Len(inventory') <= MaxItems
             /\ worn' \in Seq(Single)
  BY DEF BlueprintInv, Typing, RoomRespected
<1>3. ASSUME NEW i \in DOMAIN inventory
      PROVE  /\ RemoveAt(inventory, i) \in Seq(Carried)
             /\ Len(RemoveAt(inventory, i)) <= MaxItems
  <2>1. /\ RemoveAt(inventory, i) \in Seq(Carried)
        /\ Len(RemoveAt(inventory, i)) = Len(inventory) - 1
    BY <1>1, <1>2, RemoveAtIs
  <2> QED BY <1>1, <2>1
<1>4. ASSUME NEW i \in DOMAIN inventory, NEW slot \in Slots, Equip(i, slot)
      PROVE  /\ inventory' \in Seq(Carried) /\ Len(inventory') <= MaxItems
             /\ worn' \in Seq(Single)
  <2>1. slot \in Nat BY BlueprintConstants
  <2>2. inventory[i] \in Single BY <1>2, <1>4, InsideIs DEF Equip
  <2>3. [inventory[i] EXCEPT !.id = slot] \in Single BY <2>1, <2>2, Renumbered DEF Single
  <2>4. worn' \in Seq(Single) BY <1>1, <1>4, <2>3, AppendIs DEF Equip
  <2> QED BY <1>3, <1>4, <2>4 DEF Equip
<1>5. ASSUME NEW k \in DOMAIN worn, TakeOff(k)
      PROVE  /\ inventory' \in Seq(Carried) /\ Len(inventory') <= MaxItems
             /\ worn' \in Seq(Single)
  <2>1. [worn[k] EXCEPT !.id = 0] \in Carried
    BY <1>2, Renumbered, SingleIsCarried DEF Single
  <2>2. inventory' \in Seq(Carried) /\ Len(inventory') = Len(inventory) + 1
    BY <1>1, <1>5, <2>1, AppendIs DEF TakeOff
  <2>3. worn' \in Seq(Single) BY <1>1, <1>2, <1>5, RemoveAtIs DEF TakeOff
  <2> QED BY <1>1, <1>5, <2>2, <2>3 DEF TakeOff
<1>6. ASSUME NEW i \in DOMAIN inventory, NEW b \in DOMAIN inventory, PutInBag(i, b)
      PROVE  /\ inventory' \in Seq(Carried) /\ Len(inventory') <= MaxItems
             /\ worn' \in Seq(Single)
  <2> DEFINE held == Append(inventory[b].contents, inventory[i])
             put == [inventory EXCEPT ![b].contents = held]
  <2>1. held \in Seq(Single) BY <1>2, <1>6, InsideIs, AppendIs DEF PutInBag
  <2> HIDE DEF held
  <2>2. [inventory[b] EXCEPT !.contents = held] \in Carried
    BY <1>2, <2>1 DEF Carried, Items
  <2>3. put \in Seq(Carried) /\ Len(put) = Len(inventory) BY <1>1, <1>2, <2>2
  <2>4. inventory' = RemoveAt(put, i) /\ worn' = worn BY <1>6 DEF PutInBag, held
  <2> HIDE DEF put
  <2>5. inventory' \in Seq(Carried) /\ Len(inventory') = Len(inventory) - 1
    BY <1>2, <2>3, <2>4, RemoveAtIs
  <2> QED BY <1>1, <2>4, <2>5
<1>7. ASSUME NEW b \in DOMAIN inventory, TakeOutOfBag(b)
      PROVE  /\ inventory' \in Seq(Carried) /\ Len(inventory') <= MaxItems
             /\ worn' \in Seq(Single)
  <2> DEFINE held == inventory[b].contents
             took == [inventory EXCEPT ![b].contents = Tail(held)]
  <2>1. held \in Seq(Single) /\ held # <<>>
    BY <1>2, <1>7, InsideIs DEF TakeOutOfBag, Contents
  <2>2. Tail(held) \in Seq(Single) /\ Head(held) \in Single BY <2>1
  <2>3. Head(held) \in Carried BY <2>2, SingleIsCarried
  <2>4. [inventory[b] EXCEPT !.contents = Tail(held)] \in Carried
    BY <1>2, <2>2 DEF Carried, Items
  <2>5. took \in Seq(Carried) /\ Len(took) = Len(inventory) BY <1>1, <1>2, <2>4
  <2>6. inventory' = Append(took, Head(held)) /\ worn' = worn BY <1>7 DEF TakeOutOfBag
  <2> HIDE DEF held, took
  <2>7. inventory' \in Seq(Carried) /\ Len(inventory') = Len(inventory) + 1
    BY <2>3, <2>5, <2>6, AppendIs
  <2> QED BY <1>1, <1>7, <2>6, <2>7 DEF TakeOutOfBag
<1>8. ASSUME NEW i \in DOMAIN inventory, NEW v \in Locals, Script(i, v)
      PROVE  /\ inventory' \in Seq(Carried) /\ Len(inventory') <= MaxItems
             /\ worn' \in Seq(Single)
  <2> DEFINE table == SetLocal(inventory[i].vars, v)
  <2>1. table \in Seq(Variables) BY <1>2, SetLocalTyped DEF Carried, Items
  <2>2. inventory' = [inventory EXCEPT ![i].vars = table] /\ worn' = worn
    BY <1>8 DEF Script
  <2> HIDE DEF table
  <2>3. [inventory[i] EXCEPT !.vars = table] \in Carried BY <1>2, <2>1 DEF Carried, Items
  <2>4. inventory' \in Seq(Carried) /\ Len(inventory') = Len(inventory)
    BY <1>1, <1>2, <2>2, <2>3
  <2> QED BY <1>1, <2>2, <2>4
<1> QED BY <1>4, <1>5, <1>6, <1>7, <1>8 DEF Game

LEMMA BlueprintInvariant == Spec => []BlueprintInv
<1>1. Init => BlueprintInv
  BY CharactersTyped DEF Init, BlueprintInv, Typing, RoomRespected
<1>2. BlueprintInv /\ [Next]_vars => BlueprintInv'
  <2>1. BlueprintInv /\ UNCHANGED vars => BlueprintInv'
    BY DEF vars, BlueprintInv, Typing, RoomRespected
  <2> QED BY <2>1, UpdateTyped, GameTyped DEF Next
<1> QED BY <1>1, <1>2, PTL DEF Spec

-----------------------------------------------------------------------------
(* Theorems *)

\* Unequipping never makes the inventory of a character larger than the game
\* accepts, whatever is updated and however full the inventory is (the test at
\* app.d:274).
THEOREM RoomIsRespected == Spec => []RoomRespected
BY BlueprintInvariant, PTL DEF BlueprintInv

LEMMA UpdatablesTyped ==
    ASSUME BlueprintInv, NEW item \in Updatable
    PROVE  Typed(item, TargetOf(item)) /\ ~Refused(item, TargetOf(item))
<1>1. item \in AllItems /\ Targeted(item) /\ ~Refused(item, TargetOf(item)) BY DEF Updatable
<1>2. /\ \A i \in DOMAIN inventory :
            /\ inventory[i] \in Carried
            /\ \A j \in DOMAIN Contents(inventory[i]) : Contents(inventory[i])[j] \in Single
      /\ \A k \in DOMAIN worn : worn[k] \in Single
  <2>1. \A i \in DOMAIN inventory : inventory[i] \in Carried
    BY SequenceIs DEF BlueprintInv, Typing
  <2>2. \A i \in DOMAIN inventory : Contents(inventory[i]) \in Seq(Single) BY <2>1, InsideIs
  <2>3. \A k \in DOMAIN worn : worn[k] \in Single BY SequenceIs DEF BlueprintInv, Typing
  <2> QED BY <2>1, <2>2, <2>3, SequenceIs
<1>3. item \in Carried \union Single BY <1>1, <1>2 DEF AllItems, ToSet
<1>4. item.vars \in Seq(Variables) BY <1>3 DEF Carried, Single, Items
<1>5. TargetOf(item).blueprint.vars \in Seq(Variables) BY <1>1, TargetTyped DEF Blueprints
<1> QED BY <1>1, <1>4, <1>5, TargetTyped DEF Typed

\* What the loop over the two VarTables leaves in an item (app.d:558-590) is what
\* the policies say, for every item and blueprint whose variables have distinct
\* names, whatever their number and order.
THEOREM PolicyDecides == Spec => []VarsByPolicy
<1>1. BlueprintInv => VarsByPolicy BY UpdatablesTyped, MergedByPolicy DEF VarsByPolicy
<1> QED BY <1>1, BlueprintInvariant, PTL

\* Updating an item a second time changes nothing and is not refused, with any
\* policies and also when names occur several times in a VarTable.
THEOREM UpdatesAreStable == Spec => []UpdateIsStable
<1>1. BlueprintInv => UpdateIsStable BY UpdatablesTyped, UpdateAgain DEF UpdateIsStable
<1> QED BY <1>1, BlueprintInvariant, PTL

-----------------------------------------------------------------------------
(* Counting *)

LEMMA SameSize ==
    ASSUME NEW S, NEW T, NEW f \in [S -> T], IsFiniteSet(S),
           \A x, y \in S : f[x] = f[y] => x = y, \A y \in T : \E x \in S : f[x] = y
    PROVE  IsFiniteSet(T) /\ Cardinality(T) = Cardinality(S)
<1>1. f \in Bijection(S, T) BY DEF Bijection, Injection, IsInjective, Surjection
<1>2. ExistsBijection(S, T) BY <1>1 DEF ExistsBijection
<1> QED BY <1>2, FS_Bijection

Is(item, o) == IF item.obj = o THEN 1 ELSE 0

Of(items, o) == {i \in DOMAIN items : items[i].obj = o}

LEMMA OfIs ==
    ASSUME NEW X, NEW s \in Seq(X), NEW o
    PROVE  /\ Of(s, o) = {i \in 1..Len(s) : s[i].obj = o}
           /\ IsFiniteSet(Of(s, o)) /\ Occurs(s, o) = Cardinality(Of(s, o))
           /\ Occurs(s, o) \in Nat
<1>1. Len(s) \in Nat /\ DOMAIN s = 1..Len(s) BY SequenceIs
<1>2. IsFiniteSet(1..Len(s)) BY <1>1, FS_Interval
<1>3. Of(s, o) \in SUBSET (1..Len(s)) BY <1>1 DEF Of
<1>4. IsFiniteSet(Of(s, o)) BY <1>2, <1>3, FS_Subset
<1>5. Occurs(s, o) = Cardinality(Of(s, o)) BY DEF Occurs, Of
<1>6. Cardinality(Of(s, o)) \in Nat BY <1>4, FS_CardinalityType
<1> QED BY <1>1, <1>4, <1>5, <1>6 DEF Of

LEMMA OccursAppend ==
    ASSUME NEW X, NEW s \in Seq(X), NEW x \in X, NEW o
    PROVE  Occurs(Append(s, x), o) = Occurs(s, o) + Is(x, o)
<1> DEFINE new == Append(s, x)
<1>1. /\ new \in Seq(X) /\ Len(new) = Len(s) + 1 /\ new[Len(s) + 1] = x
      /\ \A i \in 1..Len(s) : new[i] = s[i]
  BY AppendIs
<1>2. /\ Len(s) \in Nat /\ 1..(Len(s) + 1) = 1..Len(s) \union {Len(s) + 1}
      /\ Len(s) + 1 \notin 1..Len(s)
  BY SequenceIs
<1>3. /\ Of(s, o) = {i \in 1..Len(s) : s[i].obj = o}
      /\ IsFiniteSet(Of(s, o)) /\ Occurs(s, o) = Cardinality(Of(s, o))
      /\ Occurs(s, o) \in Nat
  BY OfIs
<1> HIDE DEF new
<1>4. /\ Of(new, o) = {i \in 1..Len(new) : new[i].obj = o}
      /\ Occurs(new, o) = Cardinality(Of(new, o))
  BY <1>1, OfIs
<1>5. CASE x.obj = o
  <2>1. Of(new, o) = Of(s, o) \union {Len(s) + 1} BY <1>1, <1>2, <1>3, <1>4, <1>5
  <2>2. Len(s) + 1 \notin Of(s, o) BY <1>2, <1>3
  <2>3. Cardinality(Of(s, o) \union {Len(s) + 1}) = Cardinality(Of(s, o)) + 1
    BY <1>3, <2>2, FS_AddElement
  <2> QED BY <1>3, <1>4, <1>5, <2>1, <2>3 DEF Is, new
<1>6. CASE x.obj # o
  <2>1. Of(new, o) = Of(s, o) BY <1>1, <1>2, <1>3, <1>4, <1>6
  <2>2. Is(x, o) = 0 BY <1>6 DEF Is
  <2>3. Occurs(s, o) + 0 = Occurs(s, o) BY <1>3
  <2> QED BY <1>3, <1>4, <2>1, <2>2, <2>3 DEF new
<1> QED BY <1>5, <1>6

LEMMA AfterIs ==
    ASSUME NEW n \in Nat, NEW i \in 1..n
    PROVE  /\ \A k \in 1..(n - 1) : After(k, i) \in 1..n /\ After(k, i) # i
           /\ \A k, l \in 1..(n - 1) : After(k, i) = After(l, i) => k = l
           /\ \A k \in 1..n : k # i => \E l \in 1..(n - 1) : After(l, i) = k
<1>1. \A k \in 1..(n - 1) : After(k, i) \in 1..n /\ After(k, i) # i BY DEF After
<1>2. \A k, l \in 1..(n - 1) : After(k, i) = After(l, i) => k = l BY DEF After
<1>3. ASSUME NEW k \in 1..n, k # i PROVE \E l \in 1..(n - 1) : After(l, i) = k
  <2>1. CASE k < i
    <3>1. k \in 1..(n - 1) /\ After(k, i) = k BY <2>1 DEF After
    <3> QED BY <3>1
  <2>2. CASE k > i
    <3>1. k - 1 \in 1..(n - 1) /\ After(k - 1, i) = k BY <2>2 DEF After
    <3> QED BY <3>1
  <2> QED BY <1>3, <2>1, <2>2
<1> QED BY <1>1, <1>2, <1>3

LEMMA OccursRemove ==
    ASSUME NEW X, NEW s \in Seq(X), NEW i \in 1..Len(s), NEW o
    PROVE  Occurs(s, o) = Occurs(RemoveAt(s, i), o) + Is(s[i], o)
<1> DEFINE new == RemoveAt(s, i)
<1>1. /\ new \in Seq(X) /\ Len(new) = Len(s) - 1
      /\ \A k \in 1..Len(new) : new[k] = s[After(k, i)]
  BY RemoveAtIs
<1>2. Len(s) \in Nat /\ Len(new) \in Nat /\ i \in Nat BY <1>1, SequenceIs
<1>3. /\ Of(s, o) = {k \in 1..Len(s) : s[k].obj = o}
      /\ IsFiniteSet(Of(s, o)) /\ Occurs(s, o) = Cardinality(Of(s, o))
      /\ Occurs(s, o) \in Nat
  BY OfIs
<1> HIDE DEF new
<1>4. /\ Of(new, o) = {k \in 1..Len(new) : new[k].obj = o}
      /\ IsFiniteSet(Of(new, o)) /\ Occurs(new, o) = Cardinality(Of(new, o))
      /\ Occurs(new, o) \in Nat
  BY <1>1, OfIs
<1>5. /\ \A k \in 1..Len(new) : After(k, i) \in 1..Len(s) /\ After(k, i) # i
      /\ \A k, l \in 1..Len(new) : After(k, i) = After(l, i) => k = l
      /\ \A k \in 1..Len(s) : k # i => \E l \in 1..Len(new) : After(l, i) = k
  <2>1. /\ \A k \in 1..(Len(s) - 1) : After(k, i) \in 1..Len(s) /\ After(k, i) # i
        /\ \A k, l \in 1..(Len(s) - 1) : After(k, i) = After(l, i) => k = l
        /\ \A k \in 1..Len(s) : k # i => \E l \in 1..(Len(s) - 1) : After(l, i) = k
    BY <1>2, AfterIs
  <2> QED BY <1>1, <2>1
<1> DEFINE f == [k \in Of(new, o) |-> After(k, i)]
           others == Of(s, o) \ {i}
<1>6. f \in [Of(new, o) -> others]
  <2> SUFFICES ASSUME NEW k \in Of(new, o) PROVE After(k, i) \in others OBVIOUS
  <2> QED BY <1>1, <1>3, <1>4, <1>5
<1>7. /\ \A k, l \in Of(new, o) : f[k] = f[l] => k = l
      /\ \A k \in others : \E l \in Of(new, o) : f[l] = k
  <2>1. \A k, l \in Of(new, o) : f[k] = f[l] => k = l BY <1>4, <1>5
  <2>2. ASSUME NEW k \in others PROVE \E l \in Of(new, o) : f[l] = k
    <3>1. k \in 1..Len(s) /\ k # i /\ s[k].obj = o BY <1>3
    <3>2. PICK l \in 1..Len(new) : After(l, i) = k BY <1>5, <3>1
    <3>3. l \in Of(new, o) BY <1>1, <1>4, <3>1, <3>2
    <3> QED BY <3>2, <3>3
  <2> QED BY <2>1, <2>2
<1>8. Cardinality(others) = Cardinality(Of(new, o))
  <2>1. IsFiniteSet(Of(new, o)) BY <1>4
  <2>2. /\ \A k, l \in Of(new, o) : f[k] = f[l] => k = l
        /\ \A k \in others : \E l \in Of(new, o) : f[l] = k
    BY <1>7
  <2>3. f \in [Of(new, o) -> others] BY <1>6
  <2> HIDE DEF f, others
  <2> QED BY ONLY <2>1, <2>2, <2>3, SameSize
<1>9. Cardinality(others) = IF i \in Of(s, o) THEN Cardinality(Of(s, o)) - 1
                            ELSE Cardinality(Of(s, o))
  BY <1>3, FS_RemoveElement
<1> HIDE DEF others
<1>10. Occurs(s, o) = Occurs(new, o) + (IF i \in Of(s, o) THEN 1 ELSE 0)
  BY <1>3, <1>4, <1>8, <1>9
<1>11. i \in Of(s, o) <=> s[i].obj = o BY <1>3
<1> QED BY <1>10, <1>11 DEF Is, new

LEMMA OccursSame ==
    ASSUME NEW X, NEW Y, NEW s \in Seq(X), NEW t \in Seq(Y), Len(s) = Len(t),
           \A i \in 1..Len(s) : s[i].obj = t[i].obj, NEW o
    PROVE  Occurs(s, o) = Occurs(t, o)
<1>1. /\ Of(s, o) = {i \in 1..Len(s) : s[i].obj = o}
      /\ Of(t, o) = {i \in 1..Len(s) : t[i].obj = o}
      /\ Occurs(s, o) = Cardinality(Of(s, o)) /\ Occurs(t, o) = Cardinality(Of(t, o))
  BY OfIs
<1>2. Of(s, o) = Of(t, o) BY <1>1
<1> QED BY <1>1, <1>2

LEMMA BaggedIs ==
    ASSUME NEW s \in Seq(Carried), NEW o
    PROVE  /\ \A x : x \in Bagged(s, o) <=>
                \E i \in 1..Len(s) : \E j \in 1..Len(Contents(s[i])) :
                    x = <<i, j>> /\ Contents(s[i])[j].obj = o
           /\ IsFiniteSet(Bagged(s, o)) /\ Cardinality(Bagged(s, o)) \in Nat
<1> DEFINE In(i) == {j \in DOMAIN Contents(s[i]) : Contents(s[i])[j].obj = o}
           Row(i) == {i} \X In(i)
           rows == {Row(i) : i \in 1..Len(s)}
<1>1. Len(s) \in Nat /\ DOMAIN s = 1..Len(s) /\ \A i \in 1..Len(s) : s[i] \in Carried
  BY SequenceIs
<1>2. \A i \in 1..Len(s) : Contents(s[i]) \in Seq(Single) BY <1>1, InsideIs
<1>3. \A i \in 1..Len(s) : /\ Len(Contents(s[i])) \in Nat
                           /\ DOMAIN Contents(s[i]) = 1..Len(Contents(s[i]))
  BY <1>2, SequenceIs
<1>4. Bagged(s, o) = UNION rows BY <1>1 DEF Bagged
<1>5. \A x : x \in Bagged(s, o) <=>
          \E i \in 1..Len(s) : \E j \in 1..Len(Contents(s[i])) :
              x = <<i, j>> /\ Contents(s[i])[j].obj = o
  BY <1>3, <1>4
<1>6. ASSUME NEW i \in 1..Len(s) PROVE IsFiniteSet(Row(i))
  <2>1. IsFiniteSet(1..Len(Contents(s[i]))) BY <1>3, FS_Interval
  <2>2. In(i) \in SUBSET (1..Len(Contents(s[i]))) BY <1>3
  <2> HIDE DEF In
  <2>3. IsFiniteSet(In(i)) BY <2>1, <2>2, FS_Subset
  <2>4. IsFiniteSet({i}) BY FS_Singleton
  <2> QED BY <2>3, <2>4, FS_Product
<1>7. IsFiniteSet(rows)
  <2> DEFINE f == [i \in 1..Len(s) |-> Row(i)]
  <2>1. f \in Surjection(1..Len(s), rows) BY DEF Surjection
  <2>2. IsFiniteSet(1..Len(s)) BY <1>1, FS_Interval
  <2> HIDE DEF f, rows
  <2> QED BY <2>1, <2>2, FS_Surjection
<1>8. IsFiniteSet(Bagged(s, o))
  <2>1. \A row \in rows : IsFiniteSet(row) BY <1>6
  <2> HIDE DEF rows
  <2> QED BY <1>4, <1>7, <2>1, FS_UNION
<1> QED BY <1>5, <1>8, FS_CardinalityType

\* An item that is no bag, at the end.
LEMMA BaggedAppend ==
    ASSUME NEW s \in Seq(Carried), NEW x \in Single, NEW o
    PROVE  Cardinality(Bagged(Append(s, x), o)) = Cardinality(Bagged(s, o))
<1> DEFINE new == Append(s, x)
<1>1. x \in Carried /\ Len(Contents(x)) = 0
  BY SingleIsCarried DEF Single, Items, Contents
<1>2. /\ new \in Seq(Carried) /\ Len(new) = Len(s) + 1 /\ new[Len(s) + 1] = x
      /\ \A i \in 1..Len(s) : new[i] = s[i]
  BY <1>1, AppendIs
<1>3. Len(s) \in Nat /\ 1..(Len(s) + 1) = 1..Len(s) \union {Len(s) + 1} BY SequenceIs
<1> HIDE DEF new
<1>4. \A j : ~(j \in 1..Len(Contents(new[Len(s) + 1]))) BY <1>1, <1>2
<1>5. \A y : y \in Bagged(new, o) <=>
          \E i \in 1..Len(new) : \E j \in 1..Len(Contents(new[i])) :
              y = <<i, j>> /\ Contents(new[i])[j].obj = o
  BY <1>2, BaggedIs
<1>6. \A y : y \in Bagged(s, o) <=>
          \E i \in 1..Len(s) : \E j \in 1..Len(Contents(s[i])) :
              y = <<i, j>> /\ Contents(s[i])[j].obj = o
  BY BaggedIs
<1>7. \A y : y \in Bagged(new, o) <=> y \in Bagged(s, o)
  <2> SUFFICES ASSUME NEW y PROVE y \in Bagged(new, o) <=> y \in Bagged(s, o) OBVIOUS
  <2>1. ASSUME y \in Bagged(new, o) PROVE y \in Bagged(s, o)
    <3>1. PICK i \in 1..Len(new) : \E j \in 1..Len(Contents(new[i])) :
              y = <<i, j>> /\ Contents(new[i])[j].obj = o
      BY <1>5, <2>1
    <3>2. i \in 1..Len(s) BY <1>2, <1>3, <1>4, <3>1
    <3>3. new[i] = s[i] BY <1>2, <3>2
    <3> QED BY <1>6, <3>1, <3>2, <3>3
  <2>2. ASSUME y \in Bagged(s, o) PROVE y \in Bagged(new, o)
    <3>1. PICK i \in 1..Len(s) : \E j \in 1..Len(Contents(s[i])) :
              y = <<i, j>> /\ Contents(s[i])[j].obj = o
      BY <1>6, <2>2
    <3>2. i \in 1..Len(new) /\ new[i] = s[i] BY <1>2, <1>3, <3>1
    <3> QED BY <1>5, <3>1, <3>2
  <2> QED BY <2>1, <2>2
<1>8. Bagged(new, o) = Bagged(s, o) BY <1>7
<1> QED BY <1>8 DEF new

\* What is at a place in a bag.
InBag(s, o, i, j) ==
    i \in 1..Len(s) /\ j \in 1..Len(Contents(s[i])) /\ Contents(s[i])[j].obj = o

LEMMA BaggedPairs ==
    ASSUME NEW s \in Seq(Carried), NEW o
    PROVE  /\ \A i, j : <<i, j>> \in Bagged(s, o) <=> InBag(s, o, i, j)
           /\ \A x \in Bagged(s, o) : \E i, j : x = <<i, j>> /\ InBag(s, o, i, j)
<1>1. \A x : x \in Bagged(s, o) <=>
          \E i \in 1..Len(s) : \E j \in 1..Len(Contents(s[i])) :
              x = <<i, j>> /\ Contents(s[i])[j].obj = o
  BY BaggedIs
<1> QED BY <1>1 DEF InBag

\* The same things in the same bags.
LEMMA BaggedSame ==
    ASSUME NEW s \in Seq(Carried), NEW t \in Seq(Carried), Len(s) = Len(t),
           \A i \in 1..Len(s) :
              /\ Len(Contents(s[i])) = Len(Contents(t[i]))
              /\ \A j \in 1..Len(Contents(s[i])) : Contents(s[i])[j].obj = Contents(t[i])[j].obj,
           NEW o
    PROVE  Cardinality(Bagged(s, o)) = Cardinality(Bagged(t, o))
<1>1. \A i, j : InBag(s, o, i, j) <=> InBag(t, o, i, j) BY DEF InBag
<1>2. /\ \A i, j : <<i, j>> \in Bagged(t, o) <=> InBag(t, o, i, j)
      /\ \A x \in Bagged(t, o) : \E i, j : x = <<i, j>> /\ InBag(t, o, i, j)
      /\ \A i, j : <<i, j>> \in Bagged(s, o) <=> InBag(s, o, i, j)
      /\ \A x \in Bagged(s, o) : \E i, j : x = <<i, j>> /\ InBag(s, o, i, j)
  BY BaggedPairs
<1>3. ASSUME NEW x \in Bagged(s, o) PROVE x \in Bagged(t, o)
  <2>1. PICK i, j : x = <<i, j>> /\ InBag(s, o, i, j) BY <1>2
  <2> QED BY <1>1, <1>2, <2>1
<1>4. ASSUME NEW x \in Bagged(t, o) PROVE x \in Bagged(s, o)
  <2>1. PICK i, j : x = <<i, j>> /\ InBag(t, o, i, j) BY <1>2
  <2> QED BY <1>1, <1>2, <2>1
<1>5. Bagged(s, o) = Bagged(t, o) BY <1>3, <1>4
<1> QED BY <1>5

\* An item that is no bag taken out.
LEMMA BaggedRemove ==
    ASSUME NEW s \in Seq(Carried), NEW i \in 1..Len(s), s[i].contents = NoBag, NEW o
    PROVE  Cardinality(Bagged(RemoveAt(s, i), o)) = Cardinality(Bagged(s, o))
<1> DEFINE new == RemoveAt(s, i)
<1>1. /\ new \in Seq(Carried) /\ Len(new) = Len(s) - 1
      /\ \A k \in 1..Len(new) : new[k] = s[After(k, i)]
  BY RemoveAtIs
<1>2. Len(s) \in Nat /\ Len(new) \in Nat BY <1>1, SequenceIs
<1> HIDE DEF new
<1>3. /\ \A k \in 1..Len(new) : After(k, i) \in 1..Len(s)
      /\ \A k, l \in 1..Len(new) : After(k, i) = After(l, i) => k = l
      /\ \A k \in 1..Len(s) : k # i => \E l \in 1..Len(new) : After(l, i) = k
  <2>1. /\ \A k \in 1..(Len(s) - 1) : After(k, i) \in 1..Len(s) /\ After(k, i) # i
        /\ \A k, l \in 1..(Len(s) - 1) : After(k, i) = After(l, i) => k = l
        /\ \A k \in 1..Len(s) : k # i => \E l \in 1..(Len(s) - 1) : After(l, i) = k
    BY <1>2, AfterIs
  <2> QED BY <1>1, <2>1
<1>4. /\ \A k, j : <<k, j>> \in Bagged(new, o) <=> InBag(new, o, k, j)
      /\ \A x \in Bagged(new, o) : \E k, j : x = <<k, j>> /\ InBag(new, o, k, j)
      /\ \A k, j : <<k, j>> \in Bagged(s, o) <=> InBag(s, o, k, j)
      /\ \A x \in Bagged(s, o) : \E k, j : x = <<k, j>> /\ InBag(s, o, k, j)
  BY <1>1, BaggedPairs
<1>5. \A k, j : InBag(new, o, k, j) => InBag(s, o, After(k, i), j) BY <1>1, <1>3 DEF InBag
<1>6. ASSUME NEW k, NEW j, InBag(s, o, k, j)
      PROVE  \E l : After(l, i) = k /\ InBag(new, o, l, j)
  <2>1. k # i
    <3>1. Len(Contents(s[i])) = 0 BY DEF Contents
    <3> QED BY <1>6, <3>1 DEF InBag
  <2>2. PICK l \in 1..Len(new) : After(l, i) = k BY <1>3, <1>6, <2>1 DEF InBag
  <2> QED BY <1>1, <1>6, <2>2 DEF InBag
<1> DEFINE f == [x \in Bagged(new, o) |-> <<After(x[1], i), x[2]>>]
<1>7. f \in [Bagged(new, o) -> Bagged(s, o)]
  <2>1. ASSUME NEW x \in Bagged(new, o) PROVE <<After(x[1], i), x[2]>> \in Bagged(s, o)
    <3>1. PICK k, j : x = <<k, j>> /\ InBag(new, o, k, j) BY <1>4
    <3>2. x[1] = k /\ x[2] = j BY <3>1
    <3> QED BY <1>4, <1>5, <3>1, <3>2
  <2> QED BY <2>1
<1>8. ASSUME NEW x \in Bagged(new, o), NEW y \in Bagged(new, o), f[x] = f[y]
      PROVE  x = y
  <2>1. PICK k, j : x = <<k, j>> /\ InBag(new, o, k, j) BY <1>4
  <2>2. PICK l, m : y = <<l, m>> /\ InBag(new, o, l, m) BY <1>4
  <2>3. x[1] = k /\ x[2] = j /\ y[1] = l /\ y[2] = m BY <2>1, <2>2
  <2>4. <<After(k, i), j>> = <<After(l, i), m>> BY <1>8, <2>3
  <2>5. After(k, i) = After(l, i) /\ j = m BY <2>4
  <2> QED BY <1>3, <2>1, <2>2, <2>5 DEF InBag
<1>9. ASSUME NEW y \in Bagged(s, o) PROVE \E x \in Bagged(new, o) : f[x] = y
  <2>1. PICK k, j : y = <<k, j>> /\ InBag(s, o, k, j) BY <1>4
  <2>2. PICK l : After(l, i) = k /\ InBag(new, o, l, j) BY <1>6, <2>1
  <2>3. <<l, j>> \in Bagged(new, o) BY <1>4, <2>2
  <2>4. f[<<l, j>>] = <<After(l, i), j>> BY <2>3
  <2> QED BY <2>1, <2>2, <2>3, <2>4
<1>10. IsFiniteSet(Bagged(new, o)) BY <1>1, BaggedIs
<1> HIDE DEF f
<1>11. Cardinality(Bagged(s, o)) = Cardinality(Bagged(new, o))
  BY <1>7, <1>8, <1>9, <1>10, SameSize
<1> QED BY <1>11 DEF new

\* One item more at the end of a bag.
PutIn(s, t, b, item) ==
    /\ Len(s) = Len(t) /\ b \in 1..Len(s)
    /\ \A k \in 1..Len(s) : k # b => t[k] = s[k]
    /\ Contents(t[b]) = Append(Contents(s[b]), item)

LEMMA BaggedPut ==
    ASSUME NEW s \in Seq(Carried), NEW t \in Seq(Carried), NEW item \in Single, NEW b,
           PutIn(s, t, b, item), NEW o
    PROVE  Cardinality(Bagged(t, o)) = Cardinality(Bagged(s, o)) + Is(item, o)
<1> DEFINE n == Len(Contents(s[b]))
<1>0. /\ Len(s) = Len(t) /\ b \in 1..Len(s)
      /\ \A k \in 1..Len(s) : k # b => t[k] = s[k]
      /\ Contents(t[b]) = Append(Contents(s[b]), item)
  BY DEF PutIn
<1>1. s[b] \in Carried BY <1>0, SequenceIs
<1>2. Contents(s[b]) \in Seq(Single) /\ n \in Nat
  <2>1. Contents(s[b]) \in Seq(Single) BY <1>1, InsideIs
  <2> QED BY <2>1, SequenceIs
<1>3. /\ Len(Contents(t[b])) = n + 1 /\ Contents(t[b])[n + 1] = item
      /\ \A j \in 1..n : Contents(t[b])[j] = Contents(s[b])[j]
  BY <1>0, <1>2, AppendIs
<1>4. 1..(n + 1) = 1..n \union {n + 1} /\ n + 1 \notin 1..n BY <1>2
<1>5. /\ \A k, j : <<k, j>> \in Bagged(t, o) <=> InBag(t, o, k, j)
      /\ \A x \in Bagged(t, o) : \E k, j : x = <<k, j>> /\ InBag(t, o, k, j)
      /\ \A k, j : <<k, j>> \in Bagged(s, o) <=> InBag(s, o, k, j)
      /\ \A x \in Bagged(s, o) : \E k, j : x = <<k, j>> /\ InBag(s, o, k, j)
  BY BaggedPairs
<1> HIDE DEF n
<1>6. \A k, j : InBag(t, o, k, j) <=>
          InBag(s, o, k, j) \/ (k = b /\ j = n + 1 /\ item.obj = o)
  <2>1. \A k, j : k # b => (InBag(t, o, k, j) <=> InBag(s, o, k, j)) BY <1>0 DEF InBag
  <2>2. \A j : InBag(t, o, b, j) <=> InBag(s, o, b, j) \/ (j = n + 1 /\ item.obj = o)
    BY <1>0, <1>3, <1>4 DEF InBag, n
  <2> QED BY <2>1, <2>2
<1>7. ~InBag(s, o, b, n + 1) BY <1>4 DEF InBag, n
<1>8. IsFiniteSet(Bagged(s, o)) /\ Cardinality(Bagged(s, o)) \in Nat BY BaggedIs
<1>9. CASE item.obj = o
  <2>1. Bagged(t, o) = Bagged(s, o) \union {<<b, n + 1>>}
    <3>1. ASSUME NEW x \in Bagged(t, o) PROVE x \in Bagged(s, o) \union {<<b, n + 1>>}
      <4>1. PICK k, j : x = <<k, j>> /\ InBag(t, o, k, j) BY <1>5
      <4> QED BY <1>5, <1>6, <4>1
    <3>2. ASSUME NEW x \in Bagged(s, o) PROVE x \in Bagged(t, o)
      <4>1. PICK k, j : x = <<k, j>> /\ InBag(s, o, k, j) BY <1>5
      <4> QED BY <1>5, <1>6, <4>1
    <3>3. <<b, n + 1>> \in Bagged(t, o) BY <1>5, <1>6, <1>9
    <3> QED BY <3>1, <3>2, <3>3
  <2>2. <<b, n + 1>> \notin Bagged(s, o) BY <1>5, <1>7
  <2>3. Cardinality(Bagged(t, o)) = Cardinality(Bagged(s, o)) + 1
    BY <1>8, <2>1, <2>2, FS_AddElement
  <2> QED BY <1>9, <2>3 DEF Is
<1>10. CASE item.obj # o
  <2>1. \A x : x \in Bagged(t, o) <=> x \in Bagged(s, o)
    <3>1. ASSUME NEW x \in Bagged(t, o) PROVE x \in Bagged(s, o)
      <4>1. PICK k, j : x = <<k, j>> /\ InBag(t, o, k, j) BY <1>5
      <4> QED BY <1>5, <1>6, <1>10, <4>1
    <3>2. ASSUME NEW x \in Bagged(s, o) PROVE x \in Bagged(t, o)
      <4>1. PICK k, j : x = <<k, j>> /\ InBag(s, o, k, j) BY <1>5
      <4> QED BY <1>5, <1>6, <4>1
    <3> QED BY <3>1, <3>2
  <2>2. Bagged(t, o) = Bagged(s, o) BY <2>1
  <2>3. Cardinality(Bagged(s, o)) + 0 = Cardinality(Bagged(s, o)) BY <1>8
  <2>4. Is(item, o) = 0 BY <1>10 DEF Is
  <2> QED BY <2>2, <2>3, <2>4
<1> QED BY <1>9, <1>10

\* The first item of a bag taken out.
Taken(s, t, b) ==
    /\ Len(s) = Len(t) /\ b \in 1..Len(s)
    /\ \A k \in 1..Len(s) : k # b => t[k] = s[k]
    /\ Contents(s[b]) # <<>> /\ Contents(t[b]) = Tail(Contents(s[b]))

LEMMA BaggedTake ==
    ASSUME NEW s \in Seq(Carried), NEW t \in Seq(Carried), NEW b, Taken(s, t, b), NEW o
    PROVE  Cardinality(Bagged(s, o)) =
             Cardinality(Bagged(t, o)) + Is(Head(Contents(s[b])), o)
<1> DEFINE n == Len(Contents(s[b]))
           first == Head(Contents(s[b]))
<1>0. /\ Len(s) = Len(t) /\ b \in 1..Len(s)
      /\ \A k \in 1..Len(s) : k # b => t[k] = s[k]
      /\ Contents(s[b]) # <<>> /\ Contents(t[b]) = Tail(Contents(s[b]))
  BY DEF Taken
<1>1. s[b] \in Carried BY <1>0, SequenceIs
<1>2. Contents(s[b]) \in Seq(Single) BY <1>1, InsideIs
<1>3. /\ n \in Nat /\ n >= 1 /\ Len(Contents(t[b])) = n - 1
      /\ Contents(s[b])[1] = first
      /\ \A j \in 1..(n - 1) : Contents(t[b])[j] = Contents(s[b])[j + 1]
  <2>1. n \in Nat BY <1>2, SequenceIs
  <2>2. n # 0 BY <1>0, <1>2
  <2>3. /\ Len(Contents(t[b])) = n - 1
        /\ \A j \in 1..Len(Contents(t[b])) : Contents(t[b])[j] = Contents(s[b])[j + 1]
    BY <1>0, <1>2, HeadTailProperties
  <2>4. Contents(s[b])[1] = first BY <1>0, <1>2
  <2> QED BY <2>1, <2>2, <2>3, <2>4
<1>4. /\ \A j \in 1..(n - 1) : j + 1 \in 1..n /\ j + 1 # 1
      /\ \A j \in 1..n : j # 1 => j - 1 \in 1..(n - 1) /\ (j - 1) + 1 = j
      /\ \A i, j \in 1..(n - 1) : i + 1 = j + 1 => i = j
      /\ 1 \in 1..n
  BY <1>3
<1>5. /\ \A k, j : <<k, j>> \in Bagged(t, o) <=> InBag(t, o, k, j)
      /\ \A x \in Bagged(t, o) : \E k, j : x = <<k, j>> /\ InBag(t, o, k, j)
      /\ \A k, j : <<k, j>> \in Bagged(s, o) <=> InBag(s, o, k, j)
      /\ \A x \in Bagged(s, o) : \E k, j : x = <<k, j>> /\ InBag(s, o, k, j)
  BY BaggedPairs
<1> HIDE DEF n, first
<1> DEFINE Up(k, j) == IF k = b THEN j + 1 ELSE j
           others == Bagged(s, o) \ {<<b, 1>>}
           f == [x \in Bagged(t, o) |-> <<x[1], Up(x[1], x[2])>>]
<1>6. \A k, j : InBag(t, o, k, j) => InBag(s, o, k, Up(k, j)) /\ (k = b => Up(k, j) # 1)
  <2>1. \A k, j : k # b => (InBag(t, o, k, j) => InBag(s, o, k, j)) BY <1>0 DEF InBag
  <2>2. \A j : InBag(t, o, b, j) => InBag(s, o, b, j + 1) /\ j + 1 # 1
    BY <1>0, <1>3, <1>4 DEF InBag, n
  <2> QED BY <2>1, <2>2
<1>7. ASSUME NEW k, NEW j, InBag(s, o, k, j), ~(k = b /\ j = 1)
      PROVE  \E l : Up(k, l) = j /\ InBag(t, o, k, l)
  <2>1. CASE k # b
    <3>1. InBag(t, o, k, j) /\ Up(k, j) = j BY <1>0, <1>7, <2>1 DEF InBag
    <3> QED BY <3>1
  <2>2. CASE k = b
    <3>1. j \in 1..n /\ j # 1 BY <1>0, <1>7, <2>2 DEF InBag, n
    <3>2. j - 1 \in 1..(n - 1) /\ (j - 1) + 1 = j BY <1>4, <3>1
    <3>3. Contents(t[b])[j - 1].obj = o BY <1>0, <1>3, <1>7, <2>2, <3>2 DEF InBag
    <3>4. InBag(t, o, k, j - 1) /\ Up(k, j - 1) = j BY <1>0, <1>3, <2>2, <3>2, <3>3 DEF InBag
    <3> QED BY <3>4
  <2> QED BY <2>1, <2>2
<1>8. \A k, j, l : /\ InBag(t, o, k, j) /\ InBag(t, o, k, l) /\ Up(k, j) = Up(k, l)
                   => j = l
  BY <1>0, <1>3, <1>4 DEF InBag
<1>9. f \in [Bagged(t, o) -> others]
  <2>1. ASSUME NEW x \in Bagged(t, o) PROVE <<x[1], Up(x[1], x[2])>> \in others
    <3>1. PICK k, j : x = <<k, j>> /\ InBag(t, o, k, j) BY <1>5
    <3>2. x[1] = k /\ x[2] = j BY <3>1
    <3> HIDE DEF Up
    <3>3. <<k, Up(k, j)>> \in Bagged(s, o) BY <1>5, <1>6, <3>1
    <3>4. <<k, Up(k, j)>> # <<b, 1>> BY <1>6, <3>1
    <3> QED BY <3>2, <3>3, <3>4
  <2> QED BY <2>1
<1> HIDE DEF Up
<1>10. ASSUME NEW x \in Bagged(t, o), NEW y \in Bagged(t, o), f[x] = f[y]
       PROVE  x = y
  <2>1. PICK k, j : x = <<k, j>> /\ InBag(t, o, k, j) BY <1>5
  <2>2. PICK l, m : y = <<l, m>> /\ InBag(t, o, l, m) BY <1>5
  <2>3. x[1] = k /\ x[2] = j /\ y[1] = l /\ y[2] = m BY <2>1, <2>2
  <2>4. <<k, Up(k, j)>> = <<l, Up(l, m)>> BY <1>10, <2>3
  <2>5. k = l /\ Up(k, j) = Up(l, m) BY <2>4
  <2>6. j = m BY <1>8, <2>1, <2>2, <2>5
  <2> QED BY <2>1, <2>2, <2>5, <2>6
<1>11. ASSUME NEW y \in others PROVE \E x \in Bagged(t, o) : f[x] = y
  <2>1. PICK k, j : y = <<k, j>> /\ InBag(s, o, k, j) BY <1>5
  <2>2. ~(k = b /\ j = 1) BY <2>1
  <2>3. PICK l : Up(k, l) = j /\ InBag(t, o, k, l) BY <1>7, <2>1, <2>2
  <2>4. <<k, l>> \in Bagged(t, o) BY <1>5, <2>3
  <2>5. f[<<k, l>>] = <<k, Up(k, l)>> BY <2>4
  <2> QED BY <2>1, <2>3, <2>4, <2>5
<1>12. /\ IsFiniteSet(Bagged(t, o)) /\ Cardinality(Bagged(t, o)) \in Nat
       /\ IsFiniteSet(Bagged(s, o)) /\ Cardinality(Bagged(s, o)) \in Nat
  BY BaggedIs
<1>13. Cardinality(others) = Cardinality(Bagged(t, o))
  <2> HIDE DEF f, others
  <2> QED BY <1>9, <1>10, <1>11, <1>12, SameSize
<1>14. Cardinality(others) = IF <<b, 1>> \in Bagged(s, o) THEN Cardinality(Bagged(s, o)) - 1
                             ELSE Cardinality(Bagged(s, o))
  BY <1>12, FS_RemoveElement
<1>15. <<b, 1>> \in Bagged(s, o) <=> first.obj = o BY <1>0, <1>3, <1>4, <1>5 DEF InBag, n
<1> HIDE DEF others
<1> QED BY <1>12, <1>13, <1>14, <1>15 DEF Is, first

-----------------------------------------------------------------------------
(* The game moves things about *)

LEMMA CopiesIs ==
    ASSUME NEW s \in Seq(Carried), NEW t \in Seq(Single), NEW o
    PROVE  /\ Occurs(s, o) \in Nat /\ Cardinality(Bagged(s, o)) \in Nat /\ Occurs(t, o) \in Nat
           /\ Copies(s, t, o) = Occurs(s, o) + Cardinality(Bagged(s, o)) + Occurs(t, o)
BY OfIs, BaggedIs DEF Copies

LEMMA GameKeeps ==
    ASSUME BlueprintInv, Game, NEW o
    PROVE  Copies(inventory', worn', o) = Copies(inventory, worn, o)
<1>1. /\ inventory \in Seq(Carried) /\ worn \in Seq(Single)
      /\ Len(inventory) \in Nat /\ Len(worn) \in Nat
  BY SequenceIs DEF BlueprintInv, Typing
<1>2. /\ DOMAIN inventory = 1..Len(inventory) /\ DOMAIN worn = 1..Len(worn)
      /\ \A i \in DOMAIN inventory : inventory[i] \in Carried
      /\ \A k \in DOMAIN worn : worn[k] \in Single
  BY <1>1, SequenceIs
<1>3. inventory' \in Seq(Carried) /\ worn' \in Seq(Single)
  BY GameTyped DEF BlueprintInv, Typing
<1> DEFINE a == Occurs(inventory, o)
           b1 == Cardinality(Bagged(inventory, o))
           c == Occurs(worn, o)
           a2 == Occurs(inventory', o)
           b2 == Cardinality(Bagged(inventory', o))
           c2 == Occurs(worn', o)
<1>4. /\ a \in Nat /\ b1 \in Nat /\ c \in Nat /\ a2 \in Nat /\ b2 \in Nat /\ c2 \in Nat
      /\ Copies(inventory, worn, o) = a + b1 + c
      /\ Copies(inventory', worn', o) = a2 + b2 + c2
  BY <1>1, <1>3, CopiesIs
<1>5. \A item : Is(item, o) \in {0, 1} BY DEF Is
<1> SUFFICES a2 + b2 + c2 = a + b1 + c BY <1>4
<1>6. ASSUME NEW i \in DOMAIN inventory, NEW slot \in Slots, Equip(i, slot)
      PROVE  a2 + b2 + c2 = a + b1 + c
  <2> DEFINE item == [inventory[i] EXCEPT !.id = slot]
  <2>1. slot \in Nat BY BlueprintConstants
  <2>2. inventory[i].contents = NoBag /\ inventory[i] \in Single
    BY <1>2, <1>6, InsideIs DEF Equip
  <2>3. item \in Single /\ item.obj = inventory[i].obj BY <2>1, <2>2, Renumbered DEF Single
  <2>4. inventory' = RemoveAt(inventory, i) /\ worn' = Append(worn, item) BY <1>6 DEF Equip
  <2> HIDE DEF item
  <2>5. a = a2 + Is(inventory[i], o) BY <1>1, <1>2, <2>4, OccursRemove
  <2>6. b2 = b1 BY <1>1, <1>2, <2>2, <2>4, BaggedRemove
  <2>7. c2 = c + Is(item, o) BY <1>1, <2>3, <2>4, OccursAppend
  <2>8. Is(item, o) = Is(inventory[i], o) BY <2>3 DEF Is
  <2> HIDE DEF a, b1, c, a2, b2, c2
  <2> QED BY <1>4, <1>5, <2>5, <2>6, <2>7, <2>8
<1>7. ASSUME NEW k \in DOMAIN worn, TakeOff(k) PROVE a2 + b2 + c2 = a + b1 + c
  <2> DEFINE item == [worn[k] EXCEPT !.id = 0]
  <2>1. item \in Single /\ item.obj = worn[k].obj
    <3>1. 0 \in Nat /\ worn[k] \in Items({NoBag}) BY <1>2 DEF Single
    <3> QED BY <3>1, Renumbered DEF Single
  <2>2. inventory' = Append(inventory, item) /\ worn' = RemoveAt(worn, k)
    BY <1>7 DEF TakeOff
  <2> HIDE DEF item
  <2>3. a2 = a + Is(item, o) BY <1>1, <2>1, <2>2, OccursAppend, SingleIsCarried
  <2>4. b2 = b1 BY <1>1, <2>1, <2>2, BaggedAppend
  <2>5. c = c2 + Is(worn[k], o) BY <1>1, <1>2, <2>2, OccursRemove
  <2>6. Is(item, o) = Is(worn[k], o) BY <2>1 DEF Is
  <2> HIDE DEF a, b1, c, a2, b2, c2
  <2> QED BY <1>4, <1>5, <2>3, <2>4, <2>5, <2>6
<1>8. ASSUME NEW i \in DOMAIN inventory, NEW b \in DOMAIN inventory, PutInBag(i, b)
      PROVE  a2 + b2 + c2 = a + b1 + c
  <2> DEFINE held == Append(inventory[b].contents, inventory[i])
             put == [inventory EXCEPT ![b].contents = held]
  <2>1. /\ inventory[i].contents = NoBag /\ inventory[b].contents # NoBag /\ i # b
        /\ inventory[i] \in Single /\ inventory[b].contents \in Seq(Single)
    BY <1>2, <1>8, InsideIs DEF PutInBag
  <2>2. held \in Seq(Single) /\ held # NoBag BY <2>1, AppendIs, NoBagIsNone
  <2>3. inventory' = RemoveAt(put, i) /\ worn' = worn BY <1>8 DEF PutInBag
  <2>4. held = Append(Contents(inventory[b]), inventory[i]) BY <2>1 DEF Contents
  <2> HIDE DEF held
  <2> DEFINE bag == [inventory[b] EXCEPT !.contents = held]
  <2>5. bag \in Carried /\ bag.obj = inventory[b].obj /\ Contents(bag) = held
    BY <1>2, <2>2 DEF Carried, Items, Contents
  <2>6. /\ put \in Seq(Carried) /\ Len(put) = Len(inventory)
        /\ put[b] = bag /\ \A k \in 1..Len(inventory) : k # b => put[k] = inventory[k]
    BY <1>1, <1>2, <2>5
  <2> HIDE DEF put, bag
  <2>7. \A k \in 1..Len(inventory) : put[k].obj = inventory[k].obj BY <2>5, <2>6
  <2>8. Occurs(put, o) = a BY <1>1, <2>6, <2>7, OccursSame
  <2>9. put[i] = inventory[i] BY <1>2, <2>1, <2>6
  <2>10. Occurs(put, o) = a2 + Is(inventory[i], o)
    BY <1>2, <2>3, <2>6, <2>9, OccursRemove
  <2>11. b2 = Cardinality(Bagged(put, o)) BY <1>2, <2>1, <2>3, <2>6, <2>9, BaggedRemove
  <2>12. Cardinality(Bagged(put, o)) = b1 + Is(inventory[i], o)
    <3>1. PutIn(inventory, put, b, inventory[i])
      BY <1>2, <2>4, <2>5, <2>6 DEF PutIn
    <3> QED BY <1>1, <2>1, <2>6, <3>1, BaggedPut
  <2>13. c2 = c BY <2>3
  <2> HIDE DEF a, b1, c, a2, b2, c2
  <2> QED BY <1>4, <1>5, <2>8, <2>10, <2>11, <2>12, <2>13
<1>9. ASSUME NEW b \in DOMAIN inventory, TakeOutOfBag(b)
      PROVE  a2 + b2 + c2 = a + b1 + c
  <2> DEFINE held == inventory[b].contents
             took == [inventory EXCEPT ![b].contents = Tail(held)]
             bag == [inventory[b] EXCEPT !.contents = Tail(held)]
  <2>1. held \in Seq(Single) /\ held # <<>> /\ Contents(inventory[b]) = held
    BY <1>2, <1>9, InsideIs DEF TakeOutOfBag, Contents
  <2>2. Tail(held) \in Seq(Single) /\ Head(held) \in Single BY <2>1
  <2>3. Tail(held) # NoBag BY <2>2, NoBagIsNone
  <2>4. bag \in Carried /\ bag.obj = inventory[b].obj /\ Contents(bag) = Tail(held)
    BY <1>2, <2>2, <2>3 DEF Carried, Items, Contents
  <2>5. /\ took \in Seq(Carried) /\ Len(took) = Len(inventory)
        /\ took[b] = bag /\ \A k \in 1..Len(inventory) : k # b => took[k] = inventory[k]
    BY <1>1, <1>2, <2>4
  <2>6. inventory' = Append(took, Head(held)) /\ worn' = worn BY <1>9 DEF TakeOutOfBag
  <2> HIDE DEF held, took, bag
  <2>7. \A k \in 1..Len(inventory) : took[k].obj = inventory[k].obj BY <2>4, <2>5
  <2>8. Occurs(took, o) = a BY <1>1, <2>5, <2>7, OccursSame
  <2>9. a2 = Occurs(took, o) + Is(Head(held), o)
    BY <2>2, <2>5, <2>6, OccursAppend, SingleIsCarried
  <2>10. b2 = Cardinality(Bagged(took, o)) BY <2>2, <2>5, <2>6, BaggedAppend
  <2>11. b1 = Cardinality(Bagged(took, o)) + Is(Head(held), o)
    <3>1. Taken(inventory, took, b) BY <1>2, <2>1, <2>4, <2>5 DEF Taken
    <3>2. b1 = Cardinality(Bagged(took, o)) + Is(Head(Contents(inventory[b])), o)
      BY <1>1, <2>5, <3>1, BaggedTake
    <3> QED BY <2>1, <3>2
  <2>12. c2 = c BY <2>6
  <2>13. Cardinality(Bagged(took, o)) \in Nat BY <2>5, BaggedIs
  <2> HIDE DEF a, b1, c, a2, b2, c2
  <2> QED BY <1>4, <1>5, <2>8, <2>9, <2>10, <2>11, <2>12, <2>13
<1>10. ASSUME NEW i \in DOMAIN inventory, NEW v \in Locals, Script(i, v)
       PROVE  a2 + b2 + c2 = a + b1 + c
  <2>1. /\ Len(inventory') = Len(inventory) /\ worn' = worn
        /\ \A k \in 1..Len(inventory) : /\ inventory'[k].obj = inventory[k].obj
                                        /\ inventory'[k].contents = inventory[k].contents
    <3> DEFINE table == SetLocal(inventory[i].vars, v)
    <3>1. inventory' = [inventory EXCEPT ![i].vars = table] /\ worn' = worn
      BY <1>10 DEF Script
    <3> HIDE DEF table
    <3>2. LET item == [inventory[i] EXCEPT !.vars = table] IN
          item.obj = inventory[i].obj /\ item.contents = inventory[i].contents
      BY <1>2 DEF Carried, Items
    <3> QED BY <1>1, <1>2, <3>1, <3>2
  <2>2. \A k \in 1..Len(inventory) : Contents(inventory'[k]) = Contents(inventory[k])
    BY <2>1 DEF Contents
  <2>3. a2 = a BY <1>1, <1>3, <2>1, OccursSame
  <2>4. b2 = b1 BY <1>1, <1>3, <2>1, <2>2, BaggedSame
  <2> QED BY <2>1, <2>3, <2>4
<1> QED BY <1>6, <1>7, <1>8, <1>9, <1>10 DEF Game

-----------------------------------------------------------------------------
(* The update moves things about *)

\* The copies of a thing among those of the first k worn items that are in M.
Upto(M, o, k) == {i \in 1..k : i \in M /\ worn[i].obj = o}

LEMMA UptoGrows ==
    ASSUME NEW M, NEW o, NEW k \in Nat
    PROVE  /\ IsFiniteSet(Upto(M, o, k)) /\ Cardinality(Upto(M, o, k)) \in Nat
           /\ Cardinality(Upto(M, o, 0)) = 0
           /\ Cardinality(Upto(M, o, k + 1)) =
                Cardinality(Upto(M, o, k)) + (IF k + 1 \in M THEN Is(worn[k + 1], o) ELSE 0)
<1>1. IsFiniteSet(1..k) BY FS_Interval
<1>2. Upto(M, o, k) \in SUBSET (1..k) BY DEF Upto
<1>3. IsFiniteSet(Upto(M, o, k)) BY <1>1, <1>2, FS_Subset
<1>4. Cardinality(Upto(M, o, k)) \in Nat BY <1>3, FS_CardinalityType
<1>5. Upto(M, o, 0) = {} BY DEF Upto
<1>6. Cardinality(Upto(M, o, 0)) = 0 BY <1>5, FS_EmptySet
<1>7. 1..(k + 1) = 1..k \union {k + 1} /\ k + 1 \notin 1..k OBVIOUS
<1>8. CASE k + 1 \in M /\ worn[k + 1].obj = o
  <2>1. Upto(M, o, k + 1) = Upto(M, o, k) \union {k + 1} BY <1>7, <1>8 DEF Upto
  <2>2. k + 1 \notin Upto(M, o, k) BY <1>7 DEF Upto
  <2>3. Cardinality(Upto(M, o, k + 1)) = Cardinality(Upto(M, o, k)) + 1
    BY <1>3, <2>1, <2>2, FS_AddElement
  <2> QED BY <1>3, <1>4, <1>6, <1>8, <2>3 DEF Is
<1>9. CASE ~(k + 1 \in M /\ worn[k + 1].obj = o)
  <2>1. Upto(M, o, k + 1) = Upto(M, o, k) BY <1>7, <1>9 DEF Upto
  <2>2. (IF k + 1 \in M THEN Is(worn[k + 1], o) ELSE 0) = 0 BY <1>9 DEF Is
  <2>3. Cardinality(Upto(M, o, k)) + 0 = Cardinality(Upto(M, o, k)) BY <1>4
  <2> QED BY <1>3, <1>4, <1>6, <2>1, <2>2, <2>3
<1> QED BY <1>8, <1>9

\* The worn items that the first loop moves.
Moved(f) == {i \in 1..Len(worn) : Targeted(worn[i]) /\ Len(f[i - 1].items) < MaxItems}

LEMMA StepMoves ==
    ASSUME BlueprintInv, NEW f, Unequips(f), NEW k \in Nat, k + 1 <= Len(worn)
    PROVE  /\ f[k] \in Accs /\ worn[k + 1] \in Single
           /\ f[k].items \in Seq(Carried)
           /\ \/ /\ k + 1 \in Moved(f)
                 /\ f[k + 1].items = Append(f[k].items, Renewed(worn[k + 1]))
                 /\ f[k + 1].removed = f[k].removed \union {worn[k + 1].id}
              \/ k + 1 \notin Moved(f) /\ f[k + 1] = f[k]
<1>1. Len(worn) \in Nat /\ worn[k + 1] \in Single
  <2>1. worn \in Seq(Single) BY DEF BlueprintInv, Typing
  <2>2. Len(worn) \in Nat BY <2>1, SequenceIs
  <2>3. k + 1 \in 1..Len(worn) BY <2>2
  <2> QED BY <2>1, <2>2, <2>3, SequenceIs
<1>2. k \in 0..Len(worn) /\ k + 1 \in 1..Len(worn) /\ (k + 1) - 1 = k BY <1>1
<1>3. f[k] \in Accs /\ f[k + 1] = UnequipOne(f[k], worn[k + 1]) BY <1>2 DEF Unequips
<1>4. f[k].items \in Seq(Carried) BY <1>3 DEF Accs
<1>5. k + 1 \in Moved(f) <=> Targeted(worn[k + 1]) /\ Len(f[k].items) < MaxItems
  BY <1>2 DEF Moved
<1>6. Renewed(worn[k + 1]).id = worn[k + 1].id BY <1>1, RenewedIs DEF Single
<1> QED BY <1>1, <1>3, <1>4, <1>5, <1>6 DEF UnequipOne

LEMMA UnequipsCounts ==
    ASSUME BlueprintInv, NEW f, Unequips(f), NEW o
    PROVE  LET n == Len(worn) IN
           /\ Occurs(f[n].items, o) =
                Occurs(inventory, o) + Cardinality(Upto(Moved(f), o, n))
           /\ Cardinality(Bagged(f[n].items, o)) = Cardinality(Bagged(inventory, o))
<1> DEFINE n == Len(worn)
           M == Moved(f)
           Counts(k) ==
              /\ Occurs(f[k].items, o) = Occurs(inventory, o) + Cardinality(Upto(M, o, k))
              /\ Cardinality(Bagged(f[k].items, o)) = Cardinality(Bagged(inventory, o))
           P == {k \in Nat : k <= n => Counts(k)}
<1>1. n \in Nat /\ inventory \in Seq(Carried) BY SequenceIs DEF BlueprintInv, Typing
<1>2. 0 \in P
  <2>1. f[0] = Unpacked BY DEF Unequips
  <2> DEFINE new == Unpacked.items
  <2>2. /\ new \in Seq(Carried) /\ Len(new) = Len(inventory)
        /\ \A i \in 1..Len(inventory) : new[i] = RenewedWithContents(inventory[i])
    BY UnpackedIs DEF Accs
  <2> HIDE DEF new
  <2>3. \A i \in 1..Len(inventory) : inventory[i] \in Carried BY <1>1, SequenceIs
  <2>4. \A i \in 1..Len(new) :
            /\ new[i].obj = inventory[i].obj
            /\ Len(Contents(new[i])) = Len(Contents(inventory[i]))
            /\ \A j \in 1..Len(Contents(new[i])) :
                  Contents(new[i])[j].obj = Contents(inventory[i])[j].obj
    BY <2>2, <2>3, RenewedWithContentsIs
  <2>5. Occurs(new, o) = Occurs(inventory, o) BY <1>1, <2>2, <2>4, OccursSame
  <2>6. Cardinality(Bagged(new, o)) = Cardinality(Bagged(inventory, o))
    BY <1>1, <2>2, <2>4, BaggedSame
  <2>7. Cardinality(Upto(M, o, 0)) = 0 /\ Occurs(inventory, o) \in Nat
    BY <1>1, UptoGrows, OfIs
  <2> QED BY <2>1, <2>5, <2>6, <2>7 DEF new
<1>3. ASSUME NEW k \in P PROVE k + 1 \in P
  <2>0. k \in Nat /\ k + 1 \in Nat OBVIOUS
  <2> SUFFICES ASSUME k + 1 <= n PROVE Counts(k + 1) BY <2>0
  <2>1. Counts(k) BY <1>1, <2>0
  <2>2. /\ f[k] \in Accs /\ worn[k + 1] \in Single /\ f[k].items \in Seq(Carried)
        /\ \/ /\ k + 1 \in M
              /\ f[k + 1].items = Append(f[k].items, Renewed(worn[k + 1]))
           \/ k + 1 \notin M /\ f[k + 1] = f[k]
    BY <2>0, StepMoves
  <2>3. Cardinality(Upto(M, o, k + 1)) =
          Cardinality(Upto(M, o, k)) + (IF k + 1 \in M THEN Is(worn[k + 1], o) ELSE 0)
        /\ Cardinality(Upto(M, o, k)) \in Nat
    BY <2>0, UptoGrows
  <2>4. Occurs(inventory, o) \in Nat BY <1>1, OfIs
  <2> HIDE DEF M
  <2>5. CASE k + 1 \in M /\ f[k + 1].items = Append(f[k].items, Renewed(worn[k + 1]))
    <3> DEFINE item == Renewed(worn[k + 1])
    <3>1. item \in Single /\ item.obj = worn[k + 1].obj BY <2>2, RenewedIs DEF Single
    <3> HIDE DEF item
    <3>2. item \in Carried BY <3>1, SingleIsCarried
    <3>3. Occurs(Append(f[k].items, item), o) = Occurs(f[k].items, o) + Is(item, o)
      BY <2>2, <3>2, OccursAppend
    <3>4. Is(item, o) = Is(worn[k + 1], o) /\ Is(item, o) \in {0, 1} BY <3>1 DEF Is
    <3>5. Cardinality(Bagged(Append(f[k].items, item), o)) = Cardinality(Bagged(f[k].items, o))
      BY <2>2, <3>1, BaggedAppend
    <3>6. f[k + 1].items = Append(f[k].items, item) BY <2>5 DEF item
    <3> QED BY <2>1, <2>3, <2>4, <2>5, <3>3, <3>4, <3>5, <3>6
  <2>6. CASE k + 1 \notin M /\ f[k + 1] = f[k]
    <3>1. Cardinality(Upto(M, o, k + 1)) = Cardinality(Upto(M, o, k)) BY <2>3, <2>6
    <3> QED BY <2>1, <2>6, <3>1
  <2> QED BY <2>2, <2>5, <2>6
<1>4. P \in SUBSET Nat OBVIOUS
<1>5. P = Nat
  <2> HIDE DEF P
  <2> QED BY <1>2, <1>3, <1>4, Induct
<1>6. Counts(n) BY <1>1, <1>5
<1> QED BY <1>6

LEMMA UnequipsRemoves ==
    ASSUME BlueprintInv, NEW f, Unequips(f)
    PROVE  /\ f[Len(worn)].removed = {worn[i].id : i \in Moved(f)}
           /\ \A k \in 1..Len(worn) :
                Targeted(worn[k]) => k \in Moved(f) \/ Len(f[Len(worn)].items) = MaxItems
<1> DEFINE n == Len(worn)
           M == Moved(f)
           P == {k \in Nat : k <= n =>
                    f[k].removed = {worn[i].id : i \in {j \in M : j <= k}}}
<1>1. n \in Nat /\ M \subseteq 1..n BY SequenceIs DEF BlueprintInv, Typing, Moved
<1>2. 0 \in P
  <2>1. {j \in M : j <= 0} = {} BY <1>1
  <2>2. f[0].removed = {} BY DEF Unequips, Unpacked
  <2> QED BY <2>1, <2>2
<1>3. ASSUME NEW k \in P PROVE k + 1 \in P
  <2>0. k \in Nat /\ k + 1 \in Nat OBVIOUS
  <2> SUFFICES ASSUME k + 1 <= n
               PROVE f[k + 1].removed = {worn[i].id : i \in {j \in M : j <= k + 1}}
    BY <2>0
  <2>1. f[k].removed = {worn[i].id : i \in {j \in M : j <= k}} BY <1>1, <2>0
  <2>2. \/ k + 1 \in M /\ f[k + 1].removed = f[k].removed \union {worn[k + 1].id}
        \/ k + 1 \notin M /\ f[k + 1] = f[k]
    BY <2>0, StepMoves
  <2>3. \A j \in M : j <= k + 1 <=> j <= k \/ j = k + 1 BY <1>1, <2>0
  <2> HIDE DEF M
  <2>4. CASE k + 1 \in M /\ f[k + 1].removed = f[k].removed \union {worn[k + 1].id}
    <3>1. {j \in M : j <= k + 1} = {j \in M : j <= k} \union {k + 1} BY <2>3, <2>4
    <3> QED BY <2>1, <2>4, <3>1
  <2>5. CASE k + 1 \notin M /\ f[k + 1] = f[k]
    <3>1. {j \in M : j <= k + 1} = {j \in M : j <= k} BY <2>3, <2>5
    <3> QED BY <2>1, <2>5, <3>1
  <2> QED BY <2>2, <2>4, <2>5
<1>4. P \in SUBSET Nat OBVIOUS
<1>5. P = Nat
  <2> HIDE DEF P
  <2> QED BY <1>2, <1>3, <1>4, Induct
<1>6. f[n].removed = {worn[i].id : i \in M}
  <2>1. f[n].removed = {worn[i].id : i \in {j \in M : j <= n}} BY <1>1, <1>5
  <2>2. {j \in M : j <= n} = M BY <1>1
  <2> QED BY <2>1, <2>2
<1>7. ASSUME NEW k \in 1..n, Targeted(worn[k]), k \notin M
      PROVE  Len(f[n].items) = MaxItems
  <2> DEFINE Q == {m \in Nat : k - 1 <= m /\ m <= n => Len(f[m].items) = MaxItems}
  <2>1. k - 1 \in Nat /\ k - 1 <= n /\ k - 1 \in 0..n /\ k \in Nat BY <1>1
  <2>2. Len(f[k - 1].items) = MaxItems
    <3>1. f[k - 1] \in Accs BY <2>1 DEF Unequips
    <3>2. /\ Len(f[k - 1].items) \in Nat /\ Len(f[k - 1].items) <= MaxItems
          /\ MaxItems \in Nat
      BY <3>1, SequenceIs, BlueprintConstants DEF Accs
    <3>3. ~(Len(f[k - 1].items) < MaxItems) BY <1>7 DEF Moved
    <3> QED BY <3>2, <3>3
  <2>3. 0 \in Q
    <3>1. k - 1 <= 0 => k - 1 = 0 BY <2>1
    <3> QED BY <2>2, <3>1
  <2>4. ASSUME NEW m \in Q PROVE m + 1 \in Q
    <3>0. m \in Nat /\ m + 1 \in Nat OBVIOUS
    <3> SUFFICES ASSUME k - 1 <= m + 1, m + 1 <= n PROVE Len(f[m + 1].items) = MaxItems
      BY <3>0
    <3>1. CASE k - 1 = m + 1 BY <2>2, <3>1
    <3>2. CASE k - 1 # m + 1
      <4>1. k - 1 <= m /\ m <= n BY <1>1, <2>1, <3>0, <3>2
      <4>2. Len(f[m].items) = MaxItems BY <4>1
      <4>3. ~(Len(f[m].items) < MaxItems) BY <4>2, BlueprintConstants
      <4>4. m + 1 \notin M
        <5>1. (m + 1) - 1 = m BY <3>0
        <5> QED BY <4>3, <5>1 DEF Moved
      <4>5. f[m + 1] = f[m] BY <3>0, <4>4, StepMoves
      <4> QED BY <4>2, <4>5
    <3> QED BY <3>1, <3>2
  <2>5. Q \in SUBSET Nat OBVIOUS
  <2>6. Q = Nat
    <3> HIDE DEF Q
    <3> QED BY <2>3, <2>4, <2>5, Induct
  <2> QED BY <1>1, <2>1, <2>6
<1> QED BY <1>6, <1>7

WornApart == \A j, k \in DOMAIN worn : worn[j].id = worn[k].id => j = k

\* The second loop keeps those that were not moved, in different slots.
LEMMA SweepsCounts ==
    ASSUME BlueprintInv, WornApart, NEW M \in SUBSET (1..Len(worn)),
           Unequipping.removed = {worn[i].id : i \in M}, NEW g, Sweeps(g), NEW o
    PROVE  LET n == Len(worn) IN
           /\ Occurs(g[n], o) = Cardinality(Upto((1..n) \ M, o, n))
           /\ \A i, j \in 1..Len(g[n]) : g[n][i].id = g[n][j].id => i = j
<1> DEFINE n == Len(worn)
           Stay == (1..n) \ M
           Good(k) ==
              /\ Occurs(g[k], o) = Cardinality(Upto(Stay, o, k))
              /\ \A i \in 1..Len(g[k]) : \E l \in 1..k : g[k][i].id = worn[l].id
              /\ \A i, j \in 1..Len(g[k]) : g[k][i].id = g[k][j].id => i = j
           P == {k \in Nat : k <= n => Good(k)}
<1>1. n \in Nat /\ DOMAIN worn = 1..n /\ \A i \in 1..n : worn[i] \in Single
  BY SequenceIs DEF BlueprintInv, Typing
<1>2. \A i, j \in 1..n : worn[i].id = worn[j].id => i = j BY <1>1 DEF WornApart
<1>3. \A i \in 1..n : worn[i].id \in Unequipping.removed <=> i \in M BY <1>2
<1>4. 0 \in P
  <2>1. g[0] = <<>> /\ g[0] \in Seq(Single) BY <1>1 DEF Sweeps
  <2>2. Len(g[0]) = 0 BY <2>1
  <2>3. Of(g[0], o) = {i \in 1..Len(g[0]) : g[0][i].obj = o}
        /\ Occurs(g[0], o) = Cardinality(Of(g[0], o))
    <3>1. g[0] \in Seq(Single) BY <2>1
    <3> QED BY <3>1, OfIs
  <2>4. Of(g[0], o) = {} BY <2>2, <2>3
  <2>5. Occurs(g[0], o) = 0 BY <2>3, <2>4, FS_EmptySet
  <2>6. Cardinality(Upto(Stay, o, 0)) = 0 BY UptoGrows
  <2> QED BY <2>2, <2>5, <2>6
<1>5. ASSUME NEW k \in P PROVE k + 1 \in P
  <2>0. k \in Nat /\ k + 1 \in Nat OBVIOUS
  <2> SUFFICES ASSUME k + 1 <= n PROVE Good(k + 1) BY <2>0
  <2> DEFINE item == Renewed(worn[k + 1])
  <2>1. /\ Good(k) /\ k \in 0..n /\ k + 1 \in 1..n /\ (k + 1) - 1 = k
        /\ \A l \in 1..k : l \in 1..n /\ l \in 1..(k + 1) /\ l # k + 1
        /\ k + 1 \in 1..(k + 1)
    BY <1>1, <2>0
  <2>9. /\ \A i \in 1..Len(g[k]) : \E l \in 1..k : g[k][i].id = worn[l].id
        /\ \A i, j \in 1..Len(g[k]) : g[k][i].id = g[k][j].id => i = j
    BY <2>1
  <2>2. /\ item \in Single /\ item.obj = worn[k + 1].obj /\ item.id = worn[k + 1].id
    BY <1>1, <2>1, RenewedIs DEF Single
  <2>3. g[k] \in Seq(Single) /\ g[k + 1] = Left(Unequipping.removed, g[k], worn[k + 1])
    BY <2>1 DEF Sweeps
  <2>4. /\ Cardinality(Upto(Stay, o, k + 1)) =
            Cardinality(Upto(Stay, o, k)) + (IF k + 1 \in Stay THEN Is(worn[k + 1], o) ELSE 0)
        /\ Cardinality(Upto(Stay, o, k)) \in Nat
    BY <2>0, UptoGrows
  <2>5. k + 1 \in Stay <=> k + 1 \notin M BY <2>1
  <2>6. g[k + 1] = IF k + 1 \in M THEN g[k] ELSE Append(g[k], item)
    BY <1>3, <2>1, <2>2, <2>3 DEF Left
  <2> HIDE DEF item, Stay
  <2>7. CASE k + 1 \in M
    <3>1. g[k + 1] = g[k] BY <2>6, <2>7
    <3>2. Cardinality(Upto(Stay, o, k + 1)) = Cardinality(Upto(Stay, o, k))
      BY <2>4, <2>5, <2>7
    <3> QED BY <2>1, <3>1, <3>2
  <2>8. CASE k + 1 \notin M
    <3> DEFINE new == Append(g[k], item)
               len == Len(g[k])
    <3>1. /\ new \in Seq(Single) /\ Len(new) = len + 1 /\ new[len + 1] = item
          /\ \A i \in 1..len : new[i] = g[k][i]
      BY <2>2, <2>3, AppendIs
    <3>2. len \in Nat /\ 1..(len + 1) = 1..len \union {len + 1} BY <2>3, SequenceIs
    <3>3. Occurs(new, o) = Occurs(g[k], o) + Is(item, o) BY <2>2, <2>3, OccursAppend
    <3>4. Is(item, o) = Is(worn[k + 1], o) BY <2>2 DEF Is
    <3>5. Occurs(new, o) = Cardinality(Upto(Stay, o, k + 1))
      BY <2>1, <2>4, <2>5, <2>8, <3>3, <3>4
    <3> HIDE DEF new, len
    <3>6. \A i \in 1..len : \E l \in 1..k : new[i].id = worn[l].id
      <4>1. ASSUME NEW i \in 1..len PROVE i \in 1..Len(g[k]) /\ new[i] = g[k][i]
        BY <3>1 DEF len
      <4> QED BY <2>9, <4>1
    <3>7. \A i \in 1..len : new[i].id # item.id
      <4>1. \A l \in 1..k : worn[l].id # worn[k + 1].id BY <1>2, <2>1
      <4> QED BY <2>2, <3>6, <4>1
    <3>8. \A i \in 1..(len + 1) : \E l \in 1..(k + 1) : new[i].id = worn[l].id
      BY <2>1, <2>2, <3>1, <3>2, <3>6
    <3>9. \A i, j \in 1..len : new[i].id = new[j].id => i = j BY <2>9, <3>1 DEF len
    <3>10. \A i, j \in 1..(len + 1) : new[i].id = new[j].id => i = j
      BY <3>1, <3>2, <3>7, <3>9
    <3>11. g[k + 1] = new BY <2>6, <2>8 DEF new
    <3> QED BY <3>1, <3>5, <3>8, <3>10, <3>11
  <2> QED BY <2>7, <2>8
<1>6. P \in SUBSET Nat OBVIOUS
<1>7. P = Nat
  <2> HIDE DEF P
  <2> QED BY <1>4, <1>5, <1>6, Induct
<1>8. Good(n)
  <2>1. n \in P BY <1>1, <1>7
  <2>2. n <= n BY <1>1
  <2> HIDE DEF Good, n
  <2> QED BY <2>1, <2>2
<1> QED BY <1>8

\* What unequipping comes to: the items in M go from one list to the other.
LEMMA UpdateMoves ==
    ASSUME BlueprintInv, WornApart, UpdateCharacter
    PROVE  \E M \in SUBSET (1..Len(worn)) :
             /\ \A o :
                  /\ Occurs(inventory', o) =
                       Occurs(inventory, o) + Cardinality(Upto(M, o, Len(worn)))
                  /\ Cardinality(Bagged(inventory', o)) = Cardinality(Bagged(inventory, o))
                  /\ Occurs(worn', o) = Cardinality(Upto((1..Len(worn)) \ M, o, Len(worn)))
             /\ \A k \in 1..Len(worn) : Targeted(worn[k]) =>
                  k \in M \/ Len(inventory') = MaxItems
             /\ WornApart'
<1>1. PICK f : Unequips(f) /\ Unequipping = f[Len(worn)] BY UnequippingLoop
<1>2. PICK g : Sweeps(g) /\ StillWorn = g[Len(worn)] BY SweepingLoop
<1> DEFINE M == Moved(f)
<1>3. M \in SUBSET (1..Len(worn)) BY DEF Moved
<1>4. inventory' = f[Len(worn)].items /\ worn' = g[Len(worn)]
  BY <1>1, <1>2 DEF UpdateCharacter
<1>5. Unequipping.removed = {worn[i].id : i \in M} BY <1>1, UnequipsRemoves
<1>6. \A k \in 1..Len(worn) : Targeted(worn[k]) => k \in M \/ Len(inventory') = MaxItems
  BY <1>1, <1>4, UnequipsRemoves
<1>7. \A o : /\ Occurs(inventory', o) =
                  Occurs(inventory, o) + Cardinality(Upto(M, o, Len(worn)))
             /\ Cardinality(Bagged(inventory', o)) = Cardinality(Bagged(inventory, o))
  BY <1>1, <1>4, UnequipsCounts
<1> HIDE DEF M
<1>8. \A o : /\ Occurs(worn', o) = Cardinality(Upto((1..Len(worn)) \ M, o, Len(worn)))
             /\ \A i, j \in 1..Len(worn') : worn'[i].id = worn'[j].id => i = j
  BY <1>2, <1>3, <1>4, <1>5, SweepsCounts
<1>9. WornApart'
  <2>1. worn' \in Seq(Single) BY UpdateTyped DEF BlueprintInv, Typing
  <2>2. DOMAIN worn' = 1..Len(worn') BY <2>1, SequenceIs
  <2> QED BY <1>8, <2>2 DEF WornApart
<1> QED BY <1>3, <1>6, <1>7, <1>8, <1>9

LEMMA MovedAndStaying ==
    ASSUME BlueprintInv, NEW M \in SUBSET (1..Len(worn)), NEW o
    PROVE  LET n == Len(worn) IN
           Occurs(worn, o) =
             Cardinality(Upto(M, o, n)) + Cardinality(Upto((1..n) \ M, o, n))
<1> DEFINE n == Len(worn)
           S == Upto(M, o, n)
           T == Upto((1..n) \ M, o, n)
<1>1. worn \in Seq(Single) /\ n \in Nat BY SequenceIs DEF BlueprintInv, Typing
<1>2. Of(worn, o) = {i \in 1..n : worn[i].obj = o} /\ Occurs(worn, o) = Cardinality(Of(worn, o))
  BY <1>1, OfIs
<1>3. S \union T = Of(worn, o) /\ S \intersect T = {} BY <1>2 DEF Upto
<1>4. /\ IsFiniteSet(S) /\ IsFiniteSet(T)
      /\ Cardinality(S) \in Nat /\ Cardinality(T) \in Nat
  BY <1>1, UptoGrows
<1> HIDE DEF S, T
<1>5. Cardinality(S \union T) = Cardinality(S) + Cardinality(T) - Cardinality(S \intersect T)
  BY <1>4, FS_Union
<1>6. Cardinality(S \intersect T) = 0 BY <1>3, FS_EmptySet
<1>7. Cardinality(Of(worn, o)) = Cardinality(S) + Cardinality(T)
  <2>1. Cardinality(Of(worn, o)) = Cardinality(S) + Cardinality(T) - 0
    BY <1>3, <1>5, <1>6
  <2> QED BY <1>4, <2>1
<1> QED BY <1>2, <1>7 DEF S, T

LEMMA UpdateKeeps ==
    ASSUME BlueprintInv, WornApart, UpdateCharacter, NEW o
    PROVE  Copies(inventory', worn', o) = Copies(inventory, worn, o)
<1>1. /\ inventory \in Seq(Carried) /\ worn \in Seq(Single)
      /\ inventory' \in Seq(Carried) /\ worn' \in Seq(Single)
  BY UpdateTyped DEF BlueprintInv, Typing
<1> DEFINE n == Len(worn)
<1>2. PICK M \in SUBSET (1..n) :
        /\ Occurs(inventory', o) = Occurs(inventory, o) + Cardinality(Upto(M, o, n))
        /\ Cardinality(Bagged(inventory', o)) = Cardinality(Bagged(inventory, o))
        /\ Occurs(worn', o) = Cardinality(Upto((1..n) \ M, o, n))
  BY UpdateMoves
<1>3. Occurs(worn, o) = Cardinality(Upto(M, o, n)) + Cardinality(Upto((1..n) \ M, o, n))
  BY MovedAndStaying
<1>4. /\ Occurs(inventory, o) \in Nat /\ Cardinality(Bagged(inventory, o)) \in Nat
      /\ Copies(inventory, worn, o) =
            Occurs(inventory, o) + Cardinality(Bagged(inventory, o)) + Occurs(worn, o)
      /\ Copies(inventory', worn', o) =
            Occurs(inventory', o) + Cardinality(Bagged(inventory', o)) + Occurs(worn', o)
  BY <1>1, CopiesIs
<1>5. n \in Nat BY <1>1, SequenceIs
<1>6. /\ Cardinality(Upto(M, o, n)) \in Nat /\ Cardinality(Upto((1..n) \ M, o, n)) \in Nat
  BY <1>5, UptoGrows
<1> QED BY <1>2, <1>3, <1>4, <1>6

LEMMA GameApart ==
    ASSUME BlueprintInv, WornApart, Game
    PROVE  WornApart'
<1>1. /\ worn \in Seq(Single) /\ Len(worn) \in Nat /\ DOMAIN worn = 1..Len(worn)
      /\ \A k \in DOMAIN worn : worn[k] \in Single
  BY SequenceIs DEF BlueprintInv, Typing
<1>2. inventory \in Seq(Carried) /\ \A i \in DOMAIN inventory : inventory[i] \in Carried
  BY SequenceIs DEF BlueprintInv, Typing
<1>3. CASE worn' = worn BY <1>3 DEF WornApart
<1>4. ASSUME NEW i \in DOMAIN inventory, NEW slot \in Slots, Equip(i, slot)
      PROVE  WornApart'
  <2> DEFINE item == [inventory[i] EXCEPT !.id = slot]
  <2>1. slot \in Nat BY BlueprintConstants
  <2>2. inventory[i] \in Items({NoBag}) BY <1>2, <1>4, InsideIs DEF Equip, Single
  <2>3. item \in Single /\ item.id = slot BY <2>1, <2>2, Renumbered DEF Single
  <2>4. worn' = Append(worn, item) /\ \A k \in DOMAIN worn : worn[k].id # slot
    BY <1>4 DEF Equip
  <2> HIDE DEF item
  <2>5. /\ worn' \in Seq(Single) /\ Len(worn') = Len(worn) + 1 /\ worn'[Len(worn) + 1] = item
        /\ \A k \in 1..Len(worn) : worn'[k] = worn[k]
    BY <1>1, <2>3, <2>4, AppendIs
  <2>6. /\ 1..(Len(worn) + 1) = 1..Len(worn) \union {Len(worn) + 1}
        /\ DOMAIN worn' = 1..(Len(worn) + 1)
    BY <1>1, <2>5, SequenceIs
  <2>7. \A j, k \in DOMAIN worn' : worn'[j].id = worn'[k].id => j = k
    BY <1>1, <2>3, <2>4, <2>5, <2>6 DEF WornApart
  <2> QED BY <2>7 DEF WornApart
<1>5. ASSUME NEW k \in DOMAIN worn, TakeOff(k) PROVE WornApart'
  <2>1. worn' = RemoveAt(worn, k) BY <1>5 DEF TakeOff
  <2>2. /\ worn' \in Seq(Single) /\ Len(worn') = Len(worn) - 1
        /\ \A i \in 1..Len(worn') : worn'[i] = worn[After(i, k)]
    BY <1>1, <2>1, RemoveAtIs
  <2>3. DOMAIN worn' = 1..(Len(worn) - 1) BY <2>2, SequenceIs
  <2>4. /\ \A i \in 1..(Len(worn) - 1) : After(i, k) \in 1..Len(worn)
        /\ \A i, j \in 1..(Len(worn) - 1) : After(i, k) = After(j, k) => i = j
    BY <1>1, AfterIs
  <2>5. \A i, j \in DOMAIN worn' : worn'[i].id = worn'[j].id => i = j
    <3>1. \A i, j \in 1..Len(worn) : worn[i].id = worn[j].id => i = j
      BY <1>1 DEF WornApart
    <3>2. \A i \in DOMAIN worn' : worn'[i] = worn[After(i, k)] BY <2>2, <2>3
    <3> QED BY <2>3, <2>4, <3>1, <3>2
  <2> QED BY <2>5 DEF WornApart
<1>6. CASE \/ \E i, b \in DOMAIN inventory : PutInBag(i, b)
           \/ \E b \in DOMAIN inventory : TakeOutOfBag(b)
           \/ \E i \in DOMAIN inventory, v \in Locals : Script(i, v)
  BY <1>3, <1>6 DEF PutInBag, TakeOutOfBag, Script
<1> QED BY <1>4, <1>5, <1>6 DEF Game

LEMMA StepKeeps ==
    ASSUME BlueprintInv, WornApart, [Next]_vars
    PROVE  /\ BlueprintInv' /\ WornApart'
           /\ \A o : Copies(inventory', worn', o) = Copies(inventory, worn, o)
<1>1. CASE UpdateCharacter BY <1>1, UpdateTyped, UpdateMoves, UpdateKeeps
<1>2. CASE Game BY <1>2, GameTyped, GameApart, GameKeeps
<1>3. CASE UNCHANGED vars
  BY <1>3 DEF vars, BlueprintInv, Typing, RoomRespected, WornApart
<1> QED BY <1>1, <1>2, <1>3 DEF Next

LEMMA InitKept == Init => BlueprintInv /\ WornApart /\ \A o \in Things : Count(o) <= 1
BY CharactersTyped DEF Init, BlueprintInv, Typing, RoomRespected, WornApart, Count

\* Nothing that the character has is lost or doubled, by an update or between two: the
\* appending of a copy (app.d:276) and the removal by struct id (287) are of the same items.
THEOREM ItemsAreKept == Spec => NothingLost
<1>1. Init => BlueprintInv /\ WornApart BY InitKept
<1>2. BlueprintInv /\ WornApart /\ [Next]_vars => BlueprintInv' /\ WornApart' BY StepKeeps
<1>3. BlueprintInv /\ WornApart /\ [Next]_vars => [\A o \in Things : Count(o)' = Count(o)]_vars
  BY StepKeeps DEF Count
<1> QED BY <1>1, <1>2, <1>3, PTL DEF Spec, NothingLost

OnePlace == \A o \in Things : Count(o) <= 1

LEMMA UpdateUnequips ==
    ASSUME BlueprintInv, WornApart, OnePlace, UpdateCharacter,
           NEW k \in DOMAIN worn, Targeted(worn[k])
    PROVE  (\A l \in DOMAIN worn' : worn'[l].obj # worn[k].obj) \/ Len(inventory') = MaxItems
<1> DEFINE n == Len(worn)
           o == worn[k].obj
<1>1. /\ inventory \in Seq(Carried) /\ worn \in Seq(Single) /\ worn' \in Seq(Single)
  BY UpdateTyped DEF BlueprintInv, Typing
<1>2. n \in Nat /\ k \in 1..n /\ worn[k] \in Single BY <1>1, SequenceIs
<1>3. o \in Things BY <1>2 DEF Single, Items
<1> SUFFICES ASSUME Len(inventory') # MaxItems, NEW l \in DOMAIN worn', worn'[l].obj = o
             PROVE  FALSE
  OBVIOUS
<1>4. PICK M \in SUBSET (1..n) :
        /\ k \in M
        /\ Occurs(worn', o) = Cardinality(Upto((1..n) \ M, o, n))
  BY <1>2, UpdateMoves
<1>5. Occurs(worn, o) = Cardinality(Upto(M, o, n)) + Cardinality(Upto((1..n) \ M, o, n))
  BY MovedAndStaying
<1>6. k \in Upto(M, o, n) BY <1>2, <1>4 DEF Upto
<1>7. /\ Of(worn', o) = {i \in 1..Len(worn') : worn'[i].obj = o}
      /\ IsFiniteSet(Of(worn', o)) /\ Occurs(worn', o) = Cardinality(Of(worn', o))
  BY <1>1, OfIs
<1>8. l \in Of(worn', o) BY <1>1, <1>7, SequenceIs
<1> HIDE DEF o, n
<1>9. /\ Cardinality(Upto(M, o, n)) \in Nat /\ Cardinality(Upto(M, o, n)) # 0
      /\ Cardinality(Upto((1..n) \ M, o, n)) \in Nat
      /\ Occurs(worn', o) # 0
  <2>1. /\ IsFiniteSet(Upto(M, o, n)) /\ Cardinality(Upto(M, o, n)) \in Nat
        /\ Cardinality(Upto((1..n) \ M, o, n)) \in Nat
    BY <1>2, UptoGrows
  <2>2. Cardinality(Upto(M, o, n)) # 0 BY <1>6, <2>1, FS_EmptySet
  <2>3. Cardinality(Of(worn', o)) # 0 BY <1>7, <1>8, FS_EmptySet
  <2> QED BY <1>7, <2>1, <2>2, <2>3
<1>10. /\ Occurs(inventory, o) \in Nat /\ Cardinality(Bagged(inventory, o)) \in Nat
       /\ Occurs(inventory, o) + Cardinality(Bagged(inventory, o)) + Occurs(worn, o) <= 1
  BY <1>1, <1>3, CopiesIs DEF OnePlace, Count
<1> QED BY <1>4, <1>5, <1>9, <1>10

\* Whatever is worn and updated is taken off, unless the inventory got full (README.md:13):
\* of the item with that struct id no copy stays in Equip_ItemList.
THEOREM UpdatedComesOff == Spec => UpdatedIsUnequipped
<1>1. Init => BlueprintInv /\ WornApart /\ OnePlace BY InitKept DEF OnePlace
<1>2. BlueprintInv /\ WornApart /\ OnePlace /\ [Next]_vars
        => BlueprintInv' /\ WornApart' /\ OnePlace'
  BY StepKeeps DEF OnePlace, Count
<1>3. BlueprintInv /\ WornApart /\ OnePlace /\ [Next]_vars
        => [UpdateCharacter =>
              \A k \in DOMAIN worn : Targeted(worn[k]) =>
                \/ \A l \in DOMAIN worn' : worn'[l].obj # worn[k].obj
                \/ Len(inventory') = MaxItems]_vars
  BY UpdateUnequips
<1> QED BY <1>1, <1>2, <1>3, PTL DEF Spec, UpdatedIsUnequipped

=============================================================================
