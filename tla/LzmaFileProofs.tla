--------------------------- MODULE LzmaFileProofs ---------------------------
(***************************************************************************)
(* What TLAPS proves of LzmaFile, for all widths of the registers, sizes   *)
(* of the trees, texts and pieces: the registers of the encoder and of the *)
(* decoder keep their widths, and the decoder takes what it tried and      *)
(* reads nothing past its input.                                           *)
(*                                                                         *)
(* The parts: loops and arithmetic; the range encoder and what a packet    *)
(* makes of it; the range decoder, what a symbol costs and that two        *)
(* decoders that see the same bytes do the same; the dictionary; the steps *)
(* of the decoder; the theorems.                                           *)
(***************************************************************************)
EXTENDS LzmaFile, FiniteSetTheorems, SequenceTheorems, WellFoundedInduction, TLAPS

-----------------------------------------------------------------------------
(* Loops.  The induction is over sets of naturals. *)

LEMMA Induct ==
    ASSUME NEW P \in SUBSET Nat, 0 \in P, \A k \in P : k + 1 \in P
    PROVE  P = Nat
<1> SUFFICES ASSUME P # Nat PROVE FALSE OBVIOUS
<1> DEFINE R == OpToRel(<, Nat)
           S == Nat \ P
<1>1. IsWellFoundedOn(R, Nat) BY NatLessThanWellFounded
<1>2. \A x, y \in Nat : x < y => <<x, y>> \in R BY DEF OpToRel
<1>3. S \in SUBSET Nat /\ S # {} OBVIOUS
<1> HIDE DEF R
<1>4. PICK n \in S : \A m \in S : ~(<<m, n>> \in R) BY <1>1, <1>3, WFMin
<1>5. n \in Nat \ {0} OBVIOUS
<1>6. n - 1 \in Nat /\ n - 1 < n /\ (n - 1) + 1 = n BY <1>5
<1>7. n - 1 \in S BY <1>6
<1> QED BY <1>2, <1>4, <1>5, <1>6, <1>7

\* A loop of n steps over states in S, and the states it goes through.
Loop(n, S, start, step) == n \in Nat /\ start \in S /\ step \in [1..n -> [S -> S]]
Runs(f, n, S, start, step) ==
    /\ f \in [0..n -> S] /\ f[0] = start
    /\ \A k \in 1..n : f[k] = step[k][f[k - 1]]

LEMMA LoopEnds ==
    ASSUME NEW n, NEW S, NEW start, NEW step, Loop(n, S, start, step)
    PROVE  \E f : Runs(f, n, S, start, step)
<1> USE DEF Loop
<1>0. n \in Nat OBVIOUS
<1> DEFINE Began(m, f) == f[0] = start /\ \A k \in 1..m : f[k] = step[k][f[k - 1]]
           P == {m \in Nat : m <= n => \E f \in [0..m -> S] : Began(m, f)}
<1>1. 0 \in P
  <2> DEFINE f == [k \in 0..0 |-> start]
  <2>1. f \in [0..0 -> S] /\ f[0] = start OBVIOUS
  <2>2. Began(0, f) BY <2>1
  <2> QED BY <2>1, <2>2
<1>2. ASSUME NEW m \in P PROVE m + 1 \in P
  <2>0. m \in Nat /\ m + 1 \in Nat OBVIOUS
  <2> SUFFICES ASSUME m + 1 <= n PROVE \E g \in [0..(m + 1) -> S] : Began(m + 1, g)
    BY <2>0
  <2>1. m \in Nat /\ m <= n /\ m + 1 \in 1..n BY <1>0, <2>0
  <2>2. PICK f \in [0..m -> S] : Began(m, f) BY <2>1
  <2> DEFINE g == [k \in 0..(m + 1) |-> IF k <= m THEN f[k] ELSE step[m + 1][f[m]]]
  <2>3. step[m + 1][f[m]] \in S BY <2>1
  <2>4. g \in [0..(m + 1) -> S] BY <2>1, <2>3
  <2>5. /\ \A k \in 0..m : g[k] = f[k]
        /\ g[m + 1] = step[m + 1][f[m]]
    BY <2>1
  <2> HIDE DEF g
  <2>6. ASSUME NEW k \in 1..(m + 1) PROVE g[k] = step[k][g[k - 1]]
    <3>1. CASE k = m + 1
      <4>1. k - 1 = m /\ m \in 0..m BY <2>1, <3>1
      <4> QED BY <2>5, <3>1, <4>1
    <3>2. CASE k # m + 1
      <4>1. k \in 1..m /\ k \in 0..m /\ k - 1 \in 0..m BY <2>1, <3>2
      <4> QED BY <2>2, <2>5, <4>1
    <3> QED BY <3>1, <3>2
  <2>7. g[0] = start BY <2>1, <2>2, <2>5
  <2> QED BY <2>4, <2>6, <2>7
<1>3. n \in P
  <2>1. P \in SUBSET Nat OBVIOUS
  <2> HIDE DEF P
  <2> QED BY <1>1, <1>2, <2>1, Induct
<1> QED BY <1>3 DEF Runs

\* What a loop keeps, and what two loops have in common.
LEMMA Throughout ==
    ASSUME NEW n \in Nat, NEW P \in SUBSET Nat, 0 \in P,
           \A k \in 1..n : k - 1 \in P => k \in P
    PROVE  \A k \in 0..n : k \in P
<1> DEFINE Q == {k \in Nat : k <= n => k \in P}
<1>1. 0 \in Q OBVIOUS
<1>2. ASSUME NEW k \in Q PROVE k + 1 \in Q
  <2> SUFFICES ASSUME k + 1 <= n PROVE k + 1 \in P OBVIOUS
  <2>1. k \in P /\ k + 1 \in 1..n /\ (k + 1) - 1 = k OBVIOUS
  <2> QED BY <2>1
<1>3. Q \in SUBSET Nat OBVIOUS
<1> HIDE DEF Q
<1>4. Q = Nat BY <1>1, <1>2, <1>3, Induct
<1> QED BY <1>4 DEF Q

-----------------------------------------------------------------------------
(* Arithmetic *)

LEMMA TimesGrow ==
    ASSUME NEW a \in Nat, NEW b \in Int, NEW c \in Int, b <= c
    PROVE  a * b <= a * c
<1> DEFINE d == c - b
<1>1. d \in Nat /\ c = b + d OBVIOUS
<1> HIDE DEF d
<1>2. a * d \in Nat BY <1>1
<1>3. a * c = a * b + a * d BY <1>1
<1> QED BY <1>1, <1>2, <1>3

\* The quotient is known by its remainder.
LEMMA DivIs ==
    ASSUME NEW a \in Int, NEW b \in Nat \ {0}
    PROVE  /\ a \div b \in Int /\ a % b \in 0..(b - 1)
           /\ a = b * (a \div b) + (a % b)
           /\ a \in Nat => a \div b \in Nat
OBVIOUS

LEMMA DivIsOnly ==
    ASSUME NEW a \in Int, NEW b \in Nat \ {0}, NEW q \in Int, NEW r \in 0..(b - 1),
           a = b * q + r
    PROVE  a \div b = q /\ a % b = r
<1>1. /\ a \div b \in Int /\ a % b \in 0..(b - 1)
      /\ a = b * (a \div b) + (a % b)
  BY DivIs
<1> DEFINE d == (a \div b) - q
<1>2. b * d = r - (a % b) /\ d \in Int BY <1>1
<1>3. b * d < b /\ -b < b * d BY <1>1, <1>2
<1>4. CASE d >= 1
  <2>1. b * 1 <= b * d BY <1>2, <1>4, TimesGrow
  <2> QED BY <1>3, <2>1
<1>5. CASE d <= -1
  <2>1. b * d <= b * (-1) BY <1>2, <1>5, TimesGrow
  <2> QED BY <1>3, <2>1
<1>6. CASE d = 0 BY <1>1, <1>2, <1>6
<1> QED BY <1>2, <1>4, <1>5, <1>6

\* A quotient grows with what is divided.
LEMMA DivGrows ==
    ASSUME NEW a \in Int, NEW b \in Nat \ {0}, NEW q \in Int
    PROVE  /\ b * q <= a => q <= a \div b
           /\ a < b * (q + 1) => a \div b <= q
<1> DEFINE d == a \div b
<1>1. d \in Int /\ a % b \in 0..(b - 1) /\ a = b * d + (a % b) BY DivIs
<1> HIDE DEF d
<1>2. CASE d < q
  <2>1. b * (d + 1) <= b * q BY <1>1, <1>2, TimesGrow
  <2>2. b * (d + 1) = b * d + b BY <1>1
  <2> QED BY <1>1, <1>2, <2>1, <2>2 DEF d
<1>3. CASE d > q
  <2>1. b * (q + 1) <= b * d BY <1>1, <1>3, TimesGrow
  <2> QED BY <1>1, <1>3, <2>1 DEF d
<1> QED BY <1>1, <1>2, <1>3 DEF d

-----------------------------------------------------------------------------
(* Powers of two *)

Doubling(n) == [k \in 1..n |-> [a \in Nat |-> 2 * a]]

LEMMA PowersUpTo ==
    ASSUME NEW n \in Nat
    PROVE  \E f : Runs(f, n, Nat, 1, Doubling(n))
<1> DEFINE step == Doubling(n)
<1>1. Loop(n, Nat, 1, step) BY DEF Loop, Doubling
<1> HIDE DEF step
<1>2. \E f : Runs(f, n, Nat, 1, step) BY <1>1, LoopEnds
<1> QED BY <1>2 DEF step

LEMMA PowersAgree ==
    ASSUME NEW m \in Nat, NEW n \in Nat, m <= n, NEW f, NEW g,
           Runs(f, m, Nat, 1, Doubling(m)), Runs(g, n, Nat, 1, Doubling(n))
    PROVE  f[m] = g[m]
<1> DEFINE P == {k \in Nat : k <= m => f[k] = g[k]}
<1>1. /\ f \in [0..m -> Nat] /\ f[0] = 1 /\ \A k \in 1..m : f[k] = Doubling(m)[k][f[k - 1]]
      /\ g \in [0..n -> Nat] /\ g[0] = 1 /\ \A k \in 1..n : g[k] = Doubling(n)[k][g[k - 1]]
  BY DEF Runs
<1>2. ASSUME NEW k \in 1..m PROVE f[k] = 2 * f[k - 1] /\ g[k] = 2 * g[k - 1]
  <2>1. k \in 1..n /\ k - 1 \in 0..m /\ k - 1 \in 0..n OBVIOUS
  <2>2. f[k - 1] \in Nat /\ g[k - 1] \in Nat BY <1>1, <2>1
  <2>3. Doubling(m)[k][f[k - 1]] = 2 * f[k - 1] BY <2>2 DEF Doubling
  <2>4. Doubling(n)[k][g[k - 1]] = 2 * g[k - 1] BY <2>1, <2>2 DEF Doubling
  <2> QED BY <1>1, <2>1, <2>3, <2>4
<1>3. 0 \in P BY <1>1
<1>4. \A k \in 1..m : k - 1 \in P => k \in P BY <1>2
<1>5. P \in SUBSET Nat OBVIOUS
<1> HIDE DEF P
<1>6. \A k \in 0..m : k \in P BY <1>3, <1>4, <1>5, Throughout
<1>7. m \in P BY <1>6
<1> QED BY <1>7 DEF P

LEMMA Powers ==
    /\ Pow2 \in [Nat -> Nat \ {0}] /\ Pow2[0] = 1
    /\ \A n \in Nat : Pow2[n + 1] = 2 * Pow2[n]
<1> DEFINE Body(f) == [n \in Nat |-> IF n = 0 THEN 1 ELSE 2 * f[n - 1]]
           run(n) == CHOOSE f : Runs(f, n, Nat, 1, Doubling(n))
           f == [n \in Nat |-> run(n)[n]]
<1>1. \A n \in Nat : Runs(run(n), n, Nat, 1, Doubling(n)) BY PowersUpTo
<1> HIDE DEF run
<1>2. f[0] = 1 BY <1>1 DEF Runs
<1>3. ASSUME NEW n \in Nat \ {0} PROVE f[n] = 2 * f[n - 1]
  <2>1. n - 1 \in Nat /\ n \in Nat /\ n - 1 <= n /\ n \in 1..n /\ n - 1 \in 0..n OBVIOUS
  <2>2. run(n)[n] = Doubling(n)[n][run(n)[n - 1]] /\ run(n)[n - 1] \in Nat
    BY <1>1, <2>1 DEF Runs
  <2>3. run(n)[n] = 2 * run(n)[n - 1] BY <2>1, <2>2 DEF Doubling
  <2>4. run(n - 1)[n - 1] = run(n)[n - 1] BY <1>1, <2>1, PowersAgree
  <2> QED BY <2>1, <2>3, <2>4
<1>4. f = Body(f) BY <1>2, <1>3
<1> HIDE DEF f
<1>5. Pow2 = Body(Pow2) BY <1>4 DEF Pow2
<1>6. Pow2[0] = 1 /\ \A n \in Nat \ {0} : Pow2[n] = 2 * Pow2[n - 1] BY <1>5
<1>7. \A n \in Nat : Pow2[n + 1] = 2 * Pow2[n]
  <2> SUFFICES ASSUME NEW n \in Nat PROVE Pow2[n + 1] = 2 * Pow2[n] OBVIOUS
  <2>1. n + 1 \in Nat \ {0} /\ (n + 1) - 1 = n OBVIOUS
  <2> QED BY <1>6, <2>1
<1> DEFINE P == {n \in Nat : Pow2[n] \in Nat \ {0}}
<1>8. P = Nat
  <2>1. 0 \in P BY <1>6
  <2>2. \A k \in P : k + 1 \in P BY <1>7
  <2>3. P \in SUBSET Nat OBVIOUS
  <2> HIDE DEF P
  <2> QED BY <2>1, <2>2, <2>3, Induct
<1>9. Pow2 = [n \in Nat |-> Pow2[n]] BY <1>5
<1>10. Pow2 \in [Nat -> Nat \ {0}] BY <1>8, <1>9
<1> QED BY <1>6, <1>7, <1>10

LEMMA PowerSum ==
    ASSUME NEW m \in Nat, NEW n \in Nat
    PROVE  Pow2[m + n] = Pow2[m] * Pow2[n]
<1> DEFINE P == {k \in Nat : Pow2[m + k] = Pow2[m] * Pow2[k]}
<1>1. 0 \in P BY Powers
<1>2. ASSUME NEW k \in P PROVE k + 1 \in P
  <2>1. m + k \in Nat /\ m + (k + 1) = (m + k) + 1 OBVIOUS
  <2>2. Pow2[m + (k + 1)] = 2 * (Pow2[m] * Pow2[k]) BY <2>1, Powers
  <2>3. Pow2[k + 1] = 2 * Pow2[k] /\ Pow2[m] \in Nat /\ Pow2[k] \in Nat BY Powers
  <2> QED BY <2>2, <2>3
<1>3. P \in SUBSET Nat OBVIOUS
<1>4. P = Nat
  <2> HIDE DEF P
  <2> QED BY <1>1, <1>2, <1>3, Induct
<1> QED BY <1>4

LEMMA PowersGrow ==
    ASSUME NEW m \in Nat, NEW n \in Nat, m <= n
    PROVE  Pow2[m] <= Pow2[n] /\ (m < n => 2 * Pow2[m] <= Pow2[n])
<1>1. n - m \in Nat /\ n = m + (n - m) OBVIOUS
<1>2. Pow2[n] = Pow2[m] * Pow2[n - m] BY <1>1, PowerSum
<1>3. Pow2[m] \in Nat /\ Pow2[n - m] \in Nat /\ Pow2[n - m] >= 1 BY <1>1, Powers
<1>5. Pow2[m] <= Pow2[n] BY <1>2, <1>3, TimesGrow
<1>6. CASE m < n
  <2>1. n - m - 1 \in Nat /\ n - m = (n - m - 1) + 1 BY <1>6
  <2>2. Pow2[n - m] = 2 * Pow2[n - m - 1] /\ Pow2[n - m - 1] >= 1 BY <2>1, Powers
  <2>3. Pow2[n - m] >= 2 BY <2>1, <2>2, Powers
  <2>4. Pow2[m] * 2 <= Pow2[m] * Pow2[n - m] BY <1>3, <2>3, TimesGrow
  <2> QED BY <1>2, <1>3, <1>5, <2>4
<1> QED BY <1>5, <1>6

-----------------------------------------------------------------------------
(* Probabilities and ranges *)

Probs == LeastProb .. (Total - LeastProb)

LEMMA Widths ==
    /\ Byte \in Nat /\ Byte >= 2 /\ Total \in Nat \ {0}
    /\ Top \in Nat /\ Top = Byte * (Byte * Byte) /\ Full \in Nat /\ Full = Byte * Top
    /\ Byte * Byte \in Nat /\ Byte * Byte >= 4 /\ Top >= 2 * (Byte * Byte) /\ Full >= 2 * Top
    /\ LeastProb \in Nat \ {0} /\ LeastProb + 1 = Pow2[MoveBits]
    /\ Total \div 2 \in Probs /\ 2 * (Total \div 2) = Total
<1>1. /\ ByteBits \in Nat \ {0} /\ ModelBits \in Nat \ {0} /\ MoveBits \in Nat \ {0}
      /\ MoveBits < ModelBits
  BY CodingParams
<1>2. Pow2[1] = 2
  <2>1. Pow2[0 + 1] = 2 * Pow2[0] /\ Pow2[0] = 1 BY Powers
  <2> QED BY <2>1
<1>3. Byte \in Nat /\ Byte >= 2
  <2>1. 1 \in Nat /\ ByteBits \in Nat /\ 1 <= ByteBits BY <1>1
  <2>2. Pow2[1] <= Pow2[ByteBits] BY <2>1, PowersGrow
  <2> QED BY <1>1, <1>2, <2>2, Powers DEF Byte
<1>4. Byte * Byte \in Nat /\ Byte * Byte >= 4 /\ Byte * (Byte * Byte) >= 2 * (Byte * Byte)
  <2>1. Byte * 2 <= Byte * Byte BY <1>3, TimesGrow
  <2>2. Byte * Byte \in Nat BY <1>3
  <2>3. (Byte * Byte) * 2 <= (Byte * Byte) * Byte BY <1>3, <2>2, TimesGrow
  <2> QED BY <1>3, <2>1, <2>2, <2>3
<1>5. Top \in Nat /\ Top = Byte * (Byte * Byte) BY <1>3, <1>4 DEF Top
<1>6. Full \in Nat /\ Full = Byte * Top /\ Full >= 2 * Top
  <2>1. Top * 2 <= Top * Byte BY <1>3, <1>5, TimesGrow
  <2> QED BY <1>3, <1>5, <2>1 DEF Full
<1>7. LeastProb \in Nat \ {0} /\ LeastProb + 1 = Pow2[MoveBits]
  <2>1. Pow2[1] <= Pow2[MoveBits] /\ Pow2[MoveBits] \in Nat BY <1>1, PowersGrow, Powers
  <2> QED BY <1>2, <2>1 DEF LeastProb
<1>8. Total \in Nat \ {0} /\ Total \div 2 \in Probs /\ 2 * (Total \div 2) = Total
  <2> DEFINE half == Pow2[ModelBits - 1]
  <2>1. ModelBits - 1 \in Nat /\ ModelBits = (ModelBits - 1) + 1 /\ MoveBits <= ModelBits - 1
    BY <1>1
  <2>2. Total = 2 * half /\ half \in Nat \ {0} BY <2>1, Powers DEF Total
  <2>3. Pow2[MoveBits] <= half BY <1>1, <2>1, PowersGrow
  <2> HIDE DEF half
  <2>4. Total \div 2 = half BY <2>2
  <2> QED BY <1>7, <2>2, <2>3, <2>4 DEF Probs
<1> QED BY <1>3, <1>4, <1>5, <1>6, <1>7, <1>8

\* What is moved towards 0 or 1 does not get there.
LEMMA MovesShort ==
    ASSUME NEW x \in Nat, x >= LeastProb
    PROVE  /\ x - (x \div Pow2[MoveBits]) >= LeastProb /\ x \div Pow2[MoveBits] \in Nat
<1> DEFINE m == Pow2[MoveBits]
           q == x \div m
<1>1. m = LeastProb + 1 /\ m \in Nat \ {0} /\ LeastProb \in Nat \ {0} BY Widths
<1> HIDE DEF m
<1>2. q \in Nat /\ x % m \in 0..(m - 1) /\ x = m * q + (x % m)
  <2>1. x \in Int /\ m \in Nat \ {0} BY <1>1
  <2> HIDE DEF q
  <2> QED BY <2>1, DivIs DEF q
<1> HIDE DEF q
<1>3. x - q = LeastProb * q + (x % m) BY <1>1, <1>2
<1>4. CASE q = 0 BY <1>2, <1>4 DEF q, m
<1>5. CASE q >= 1
  <2>1. LeastProb * 1 <= LeastProb * q BY <1>1, <1>2, <1>5, TimesGrow
  <2> QED BY <1>1, <1>2, <1>3, <2>1 DEF q, m
<1> QED BY <1>2, <1>4, <1>5

LEMMA ProbsMove ==
    ASSUME NEW prob \in Probs
    PROVE  prob \in Nat /\ After0(prob) \in Probs /\ After1(prob) \in Probs
<1>1. LeastProb \in Nat /\ Total \in Nat BY Widths
<1>2. prob \in Nat /\ Total - prob \in Nat /\ prob >= LeastProb /\ Total - prob >= LeastProb
  BY <1>1 DEF Probs
<1>3. /\ prob - (prob \div Pow2[MoveBits]) >= LeastProb /\ prob \div Pow2[MoveBits] \in Nat
  BY <1>2, MovesShort
<1>4. /\ (Total - prob) - ((Total - prob) \div Pow2[MoveBits]) >= LeastProb
      /\ (Total - prob) \div Pow2[MoveBits] \in Nat
  BY <1>2, MovesShort
<1> QED BY <1>1, <1>2, <1>3, <1>4 DEF After0, After1, Probs

\* Both parts of a range that a bit divides are worth a byte of kTopValue: one
\* normalization is enough.
LEMMA RangeSplit ==
    ASSUME NEW range \in Nat, range >= Top, NEW prob \in Probs
    PROVE  /\ range \div Total \in Nat /\ (range \div Total) * prob \in Nat
           /\ (range \div Total) * prob >= Byte * Byte
           /\ range - (range \div Total) * prob >= Byte * Byte
<1> DEFINE q == range \div Total
           k == Pow2[3 * ByteBits - ModelBits]
<1>1. /\ Total \in Nat \ {0} /\ LeastProb \in Nat \ {0} /\ Byte \in Nat \ {0} /\ Top \in Nat
      /\ Top = Byte * (Byte * Byte) /\ Byte * Byte \in Nat
  BY Widths
<1>2. k \in Nat \ {0} /\ Total * k = Top
  <2>1. ByteBits \in Nat /\ ModelBits \in Nat /\ 3 * ByteBits - ModelBits \in Nat
        /\ ByteBits + ByteBits \in Nat
    BY CodingParams
  <2>2. k \in Nat \ {0} BY <2>1, Powers
  <2>3. Pow2[ModelBits + (3 * ByteBits - ModelBits)] = Total * k BY <2>1, PowerSum DEF Total
  <2>4. Pow2[ByteBits + ByteBits] = Byte * Byte BY <2>1, PowerSum DEF Byte
  <2>5. Pow2[ByteBits + (ByteBits + ByteBits)] = Byte * (Byte * Byte)
    BY <2>1, <2>4, PowerSum DEF Byte
  <2>6. ModelBits + (3 * ByteBits - ModelBits) = ByteBits + (ByteBits + ByteBits) BY <2>1
  <2> QED BY <1>1, <2>2, <2>3, <2>5, <2>6
<1>3. k * LeastProb >= Byte * Byte
  <2>1. (Byte * Byte) * Total <= (Byte * Byte) * (Byte * LeastProb)
    BY <1>1, OneNormalization, TimesGrow
  <2> DEFINE a == Byte * Byte
             b == k * LeastProb
  <2>2. a \in Nat /\ b \in Nat BY <1>1, <1>2
  <2>3. (Byte * Byte) * (Byte * LeastProb) = Top * LeastProb BY <1>1
  <2>4. Top * LeastProb = Total * (k * LeastProb) BY <1>1, <1>2
  <2>5. Total * a <= Total * b BY <1>1, <1>2, <2>1, <2>3, <2>4
  <2> HIDE DEF a, b
  <2>6. CASE b < a
    <3>1. Total * (b + 1) <= Total * a BY <1>1, <2>2, <2>6, TimesGrow
    <3>2. Total * (b + 1) = Total * b + Total BY <1>1, <2>2
    <3> QED BY <1>1, <2>2, <2>5, <3>1, <3>2
  <2> QED BY <2>2, <2>6 DEF a, b
<1> HIDE DEF k
<1>4. q \in Nat /\ range % Total \in Nat /\ range = Total * q + (range % Total) BY <1>1, DivIs
<1>5. k <= q BY <1>1, <1>2, DivGrows
<1> HIDE DEF q
<1>6. /\ prob \in Nat /\ Total - prob \in Nat
      /\ LeastProb <= prob /\ LeastProb <= Total - prob
  BY <1>1 DEF Probs
<1>7. \A x \in Nat : LeastProb <= x => q * x >= Byte * Byte
  <2> SUFFICES ASSUME NEW x \in Nat, LeastProb <= x PROVE q * x >= Byte * Byte OBVIOUS
  <2>1. q * LeastProb <= q * x BY <1>1, <1>4, TimesGrow
  <2>2. LeastProb * k <= LeastProb * q BY <1>1, <1>2, <1>4, <1>5, TimesGrow
  <2>3. q * x \in Nat /\ q * LeastProb = LeastProb * q /\ k * LeastProb = LeastProb * k
    BY <1>1, <1>2, <1>4
  <2>4. q * LeastProb \in Nat /\ k * LeastProb \in Nat BY <1>1, <1>2, <1>4
  <2> QED BY <1>1, <1>3, <2>1, <2>2, <2>3, <2>4
<1>8. q * prob >= Byte * Byte /\ q * (Total - prob) >= Byte * Byte BY <1>6, <1>7
<1>9. q * (Total - prob) = Total * q - q * prob /\ q * prob \in Nat BY <1>1, <1>4, <1>6
<1> QED BY <1>1, <1>4, <1>8, <1>9 DEF q

-----------------------------------------------------------------------------
(* The range encoder *)

Names ==
    {"direct", "isMatch", "isRep", "isRepG0", "isRepG1", "isRepG2", "isRep0Long", "lit",
     "len", "lenHigh", "repLen", "repLenHigh", "slot", "spec", "align"}
Ctx == Names \X Int \X Int
Learned == UNION {[names -> Probs] : names \in SUBSET Ctx}

LEMMA Learns ==
    ASSUME NEW probs \in Learned, NEW ctx \in Ctx
    PROVE  /\ ProbOf(probs, ctx) \in Probs
           /\ \A prob \in Probs : Learn(probs, ctx, prob) \in Learned
<1>1. PICK names \in SUBSET Ctx : probs \in [names -> Probs] BY DEF Learned
<1>2. ProbOf(probs, ctx) \in Probs BY <1>1, Widths DEF ProbOf
<1>3. ASSUME NEW prob \in Probs PROVE Learn(probs, ctx, prob) \in Learned
  <2>1. Learn(probs, ctx, prob) \in [names \union {ctx} -> Probs] BY <1>1 DEF Learn
  <2>2. names \union {ctx} \in SUBSET Ctx OBVIOUS
  <2> QED BY <2>1, <2>2 DEF Learned
<1> QED BY <1>2, <1>3

Bytes == 0..(Byte - 1)

\* low with its carry, and what it may grow to: a carry into a cache of ones has nowhere
\* to go.
Carries(e, w) ==
    e.low + w <= 2 * Full /\ (e.cache = Byte - 1 => e.low + w <= Full)

Coder ==
    [low : Nat, range : Nat, cache : Bytes, cacheSize : Nat, out : Seq(Bytes), probs : Learned]
Coding == {e \in Coder : e.range \in Top..(Full - 1) /\ Carries(e, e.range)}

LEMMA RepeatedIsSeq ==
    ASSUME NEW S, NEW x \in S, NEW n \in Nat
    PROVE  [i \in 1..n |-> x] \in Seq(S) /\ Len([i \in 1..n |-> x]) = n
OBVIOUS

LEMMA LowParts ==
    ASSUME NEW low \in Nat, low < 2 * Full
    PROVE  LET l == low % Full
               c == l \div Top
               r == l % Top
           IN  /\ l \in 0..(Full - 1) /\ low \div Full \in {0, 1} /\ low = Full * (low \div Full) + l
               /\ c \in Bytes /\ r \in 0..(Top - 1) /\ l = Top * c + r
               /\ (l * Byte) % Full = r * Byte
               /\ l < Full - Top <=> c # Byte - 1
<1> DEFINE l == low % Full
           h == low \div Full
           c == l \div Top
           r == l % Top
<1>1. Byte \in Nat /\ Byte >= 2 /\ Top \in Nat /\ Top >= 4 /\ Full \in Nat /\ Full = Byte * Top
  BY Widths
<1>2. l \in 0..(Full - 1) /\ h \in Nat /\ low = Full * h + l
  <2>1. Full \in Nat \ {0} /\ low \in Int BY <1>1
  <2> HIDE DEF h, l
  <2> QED BY <1>1, <2>1, DivIs DEF h, l
<1>3. h \in {0, 1}
  <2> HIDE DEF h, l
  <2>1. CASE h >= 2
    <3>1. Full * 2 <= Full * h BY <1>1, <1>2, <2>1, TimesGrow
    <3> QED BY <1>1, <1>2, <3>1
  <2> QED BY <1>2, <2>1
<1> HIDE DEF l, h
<1>4. c \in Nat /\ r \in 0..(Top - 1) /\ l = Top * c + r
  <2>1. Top \in Nat \ {0} /\ l \in Int /\ l \in Nat BY <1>1, <1>2
  <2> HIDE DEF c, r
  <2> QED BY <1>1, <2>1, DivIs DEF c, r
<1> HIDE DEF c, r
<1>5. c < Byte
  <2>1. CASE c >= Byte
    <3>1. Top * Byte <= Top * c BY <1>1, <1>4, <2>1, TimesGrow
    <3>2. Top * Byte = Full BY <1>1
    <3> QED BY <1>1, <1>2, <1>4, <3>1, <3>2
  <2> QED BY <1>1, <1>4, <2>1
<1>6. (l * Byte) % Full = r * Byte
  <2>1. l * Byte = Full * c + r * Byte BY <1>1, <1>2, <1>4
  <2>2. Byte * (r + 1) <= Byte * Top BY <1>1, <1>4, TimesGrow
  <2>3. r * Byte \in 0..(Full - 1)
    <3>1. Byte * (r + 1) = r * Byte + Byte /\ r * Byte \in Nat BY <1>1, <1>4
    <3> QED BY <1>1, <2>2, <3>1
  <2>4. l * Byte \in Int /\ Full \in Nat \ {0} /\ c \in Int BY <1>1, <1>2, <1>4
  <2> QED BY <2>1, <2>3, <2>4, DivIsOnly
<1>7. l < Full - Top <=> c # Byte - 1
  <2>1. Top * (Byte - 1) = Full - Top BY <1>1
  <2>2. CASE c = Byte - 1 BY <1>1, <1>2, <1>4, <2>1, <2>2
  <2>3. CASE c # Byte - 1
    <3>1. Top * (c + 1) <= Top * (Byte - 1) BY <1>1, <1>4, <1>5, <2>3, TimesGrow
    <3>2. Top * (c + 1) = Top * c + Top BY <1>1, <1>4
    <3> QED BY <1>1, <1>2, <1>4, <2>1, <2>3, <3>1, <3>2
  <2> QED BY <2>2, <2>3
<1>8. c \in Bytes BY <1>1, <1>4, <1>5 DEF Bytes
<1> QED BY <1>2, <1>3, <1>4, <1>6, <1>7, <1>8 DEF l, h, c, r

\* The number whose digits are the bytes of a sequence, and those of its beginnings.
Counts(f, s) ==
    /\ f \in [0..Len(s) -> Nat] /\ f[0] = 0
    /\ \A j \in 1..Len(s) : f[j] = Byte * f[j - 1] + s[j]
Num(s) == (CHOOSE f : Counts(f, s))[Len(s)]

LEMMA SequenceIs ==
    ASSUME NEW S, NEW s \in Seq(S)
    PROVE  /\ Len(s) \in Nat /\ DOMAIN s = 1..Len(s)
           /\ \A i \in 1..Len(s) : s[i] \in S
           /\ s \in [1..Len(s) -> S]
OBVIOUS

LEMMA CountsExist ==
    ASSUME NEW s \in Seq(Bytes)
    PROVE  \E f : Counts(f, s)
<1> DEFINE n == Len(s)
           step == [k \in 1..n |-> [a \in Nat |-> Byte * a + s[k]]]
<1>1. n \in Nat /\ \A k \in 1..n : s[k] \in Nat BY SequenceIs, Widths DEF Bytes
<1>2. Byte \in Nat BY Widths
<1>3. \A k \in 1..n, a \in Nat : Byte * a + s[k] \in Nat BY <1>1, <1>2
<1>4. Loop(n, Nat, 0, step) BY <1>1, <1>3 DEF Loop
<1>5. \A k \in 1..n, a \in Nat : step[k][a] = Byte * a + s[k] OBVIOUS
<1> HIDE DEF step, n
<1>6. PICK f : Runs(f, n, Nat, 0, step) BY <1>4, LoopEnds
<1>7. Counts(f, s)
  <2>1. ASSUME NEW k \in 1..n PROVE f[k] = Byte * f[k - 1] + s[k]
    <3>1. k - 1 \in 0..n BY <1>1
    <3>2. f[k - 1] \in Nat BY <1>6, <3>1 DEF Runs
    <3> QED BY <1>5, <1>6, <3>2 DEF Runs
  <2> QED BY <1>6, <2>1 DEF Runs, Counts, n
<1> QED BY <1>7

\* Sequences that begin alike begin with the same numbers.
LEMMA CountsAgree ==
    ASSUME NEW s \in Seq(Bytes), NEW t \in Seq(Bytes), NEW f, NEW g, Counts(f, s), Counts(g, t),
           NEW n \in Nat, n <= Len(s), n <= Len(t), \A i \in 1..n : s[i] = t[i]
    PROVE  f[n] = g[n]
<1> DEFINE P == {k \in Nat : k <= n => f[k] = g[k]}
<1>1. Len(s) \in Nat /\ Len(t) \in Nat BY SequenceIs
<1>2. 0 \in P BY DEF Counts
<1>3. ASSUME NEW k \in 1..n, k - 1 \in P PROVE k \in P
  <2>1. k \in 1..Len(s) /\ k \in 1..Len(t) BY <1>1
  <2>2. f[k - 1] = g[k - 1] BY <1>3
  <2>3. f[k] = Byte * f[k - 1] + s[k] /\ g[k] = Byte * g[k - 1] + t[k] BY <2>1 DEF Counts
  <2> QED BY <2>2, <2>3
<1>4. P \in SUBSET Nat OBVIOUS
<1> HIDE DEF P
<1>5. \A k \in 1..n : k - 1 \in P => k \in P BY <1>3
<1>6. \A k \in 0..n : k \in P BY <1>2, <1>4, <1>5, Throughout
<1>7. n \in P BY <1>6
<1> QED BY <1>7 DEF P

LEMMA NumIs ==
    ASSUME NEW s \in Seq(Bytes), NEW f, Counts(f, s)
    PROVE  Num(s) = f[Len(s)] /\ Num(s) \in Nat
<1> DEFINE g == CHOOSE h : Counts(h, s)
<1>1. Counts(g, s) OBVIOUS
<1> HIDE DEF g
<1>2. Len(s) \in Nat BY SequenceIs
<1>3. f[Len(s)] = g[Len(s)] BY <1>1, <1>2, CountsAgree
<1>4. f[Len(s)] \in Nat BY <1>2 DEF Counts
<1> QED BY <1>3, <1>4 DEF Num, g

LEMMA NumEmpty == Num(<<>>) = 0
<1>1. <<>> \in Seq(Bytes) /\ Len(<<>>) = 0 OBVIOUS
<1>2. PICK f : Counts(f, <<>>) BY <1>1, CountsExist
<1>3. Num(<<>>) = f[Len(<<>>)] BY <1>1, <1>2, NumIs
<1> QED BY <1>1, <1>2, <1>3 DEF Counts

LEMMA AppendIs ==
    ASSUME NEW S, NEW s \in Seq(S), NEW x \in S
    PROVE  /\ Append(s, x) \in Seq(S) /\ Len(Append(s, x)) = Len(s) + 1
           /\ \A i \in 1..Len(s) : Append(s, x)[i] = s[i]
           /\ Append(s, x)[Len(s) + 1] = x
OBVIOUS

LEMMA NumAppend ==
    ASSUME NEW s \in Seq(Bytes), NEW d \in Bytes
    PROVE  Num(s) \in Nat /\ Num(Append(s, d)) = Byte * Num(s) + d
<1> DEFINE t == Append(s, d)
<1>1. /\ t \in Seq(Bytes) /\ Len(t) = Len(s) + 1 /\ t[Len(s) + 1] = d
      /\ \A i \in 1..Len(s) : t[i] = s[i]
  BY AppendIs
<1>2. Len(s) \in Nat BY SequenceIs
<1> HIDE DEF t
<1>3. PICK f : Counts(f, s) BY CountsExist
<1>4. PICK g : Counts(g, t) BY <1>1, CountsExist
<1>5. f[Len(s)] = g[Len(s)] BY <1>1, <1>2, <1>3, <1>4, CountsAgree
<1>6. g[Len(s) + 1] = Byte * g[Len(s)] + d
  <2>1. Len(s) + 1 \in 1..Len(t) /\ (Len(s) + 1) - 1 = Len(s) BY <1>1, <1>2
  <2> QED BY <1>1, <1>4, <2>1 DEF Counts
<1>7. Num(s) = f[Len(s)] /\ Num(s) \in Nat BY <1>3, NumIs
<1>8. Num(t) = g[Len(t)] BY <1>1, <1>4, NumIs
<1> QED BY <1>1, <1>5, <1>6, <1>7, <1>8 DEF t

LEMMA MoreOfTheSame ==
    ASSUME NEW S, NEW s \in Seq(S), NEW x \in S, NEW n \in Nat
    PROVE  /\ s \o [i \in 1..n |-> x] \in Seq(S)
           /\ s \o [i \in 1..0 |-> x] = s
           /\ s \o [i \in 1..(n + 1) |-> x] = Append(s \o [i \in 1..n |-> x], x)
<1> DEFINE a == [i \in 1..n |-> x]
           b == [i \in 1..(n + 1) |-> x]
           z == [i \in 1..0 |-> x]
<1>1. a \in Seq(S) /\ Len(a) = n /\ b \in Seq(S) /\ Len(b) = n + 1 /\ z = <<>>
  BY RepeatedIsSeq
<1>2. s \o a \in Seq(S) /\ Len(s \o a) = Len(s) + n BY <1>1, ConcatProperties
<1>3. s \o b = Append(s \o a, x)
  <2>1. Len(s) \in Nat BY SequenceIs
  <2>2. b = Append(a, x) BY <1>1
  <2>3. s \o Append(a, x) = Append(s \o a, x) BY <1>1, <1>2, <2>1
  <2> QED BY <2>2, <2>3
<1>4. s \o z = s BY <1>1
<1> QED BY <1>2, <1>3, <1>4

\* A carry through ones that are held back.
LEMMA NumCarries ==
    ASSUME NEW s \in Seq(Bytes), NEW d \in Bytes, d + 1 \in Bytes, NEW n \in Nat
    PROVE  Num(Append(s, d + 1) \o [i \in 1..n |-> 0])
             = Num(Append(s, d) \o [i \in 1..n |-> Byte - 1]) + 1
<1> DEFINE a == Append(s, d + 1)
           b == Append(s, d)
           x(k) == a \o [i \in 1..k |-> 0]
           y(k) == b \o [i \in 1..k |-> Byte - 1]
           P == {k \in Nat : Num(x(k)) = Num(y(k)) + 1}
<1>1. a \in Seq(Bytes) /\ b \in Seq(Bytes) BY AppendIs
<1>2. Byte \in Nat /\ 0 \in Bytes /\ Byte - 1 \in Bytes BY Widths DEF Bytes
<1>3. d \in Nat BY DEF Bytes
<1>4. Num(a) = Num(b) + 1 /\ Num(b) \in Nat
  <2>1. Num(a) = Byte * Num(s) + (d + 1) /\ Num(b) = Byte * Num(s) + d /\ Num(s) \in Nat
    BY NumAppend
  <2> DEFINE m == Byte * Num(s)
  <2>2. m \in Nat BY <1>2, <2>1
  <2> HIDE DEF a, b, m
  <2>3. Num(a) = m + (d + 1) /\ Num(b) = m + d BY <2>1 DEF m
  <2> QED BY <1>3, <2>2, <2>3
<1> HIDE DEF a, b
<1>5. /\ x(0) = a /\ y(0) = b
      /\ \A k \in Nat : /\ x(k) \in Seq(Bytes) /\ x(k + 1) = Append(x(k), 0)
                        /\ y(k) \in Seq(Bytes) /\ y(k + 1) = Append(y(k), Byte - 1)
  <2>1. ASSUME NEW r \in Seq(Bytes), NEW v \in Bytes, NEW k \in Nat
        PROVE  /\ r \o [i \in 1..k |-> v] \in Seq(Bytes)
               /\ r \o [i \in 1..0 |-> v] = r
               /\ r \o [i \in 1..(k + 1) |-> v] = Append(r \o [i \in 1..k |-> v], v)
    BY MoreOfTheSame
  <2>2. x(0) = a /\ \A k \in Nat : x(k) \in Seq(Bytes) /\ x(k + 1) = Append(x(k), 0)
    <3>1. x(0) = a BY <1>1, <1>2, <2>1
    <3>2. ASSUME NEW k \in Nat PROVE x(k) \in Seq(Bytes) /\ x(k + 1) = Append(x(k), 0)
      BY <1>1, <1>2, <2>1
    <3> QED BY <3>1, <3>2
  <2>3. y(0) = b /\ \A k \in Nat : y(k) \in Seq(Bytes) /\ y(k + 1) = Append(y(k), Byte - 1)
    <3>1. y(0) = b BY <1>1, <1>2, <2>1
    <3>2. ASSUME NEW k \in Nat PROVE y(k) \in Seq(Bytes) /\ y(k + 1) = Append(y(k), Byte - 1)
      BY <1>1, <1>2, <2>1
    <3> QED BY <3>1, <3>2
  <2> QED BY <2>2, <2>3
<1> HIDE DEF x, y
<1>6. 0 \in P BY <1>4, <1>5
<1>7. \A k \in P : k + 1 \in P
  <2> SUFFICES ASSUME NEW k \in P PROVE k + 1 \in P OBVIOUS
  <2>1. k \in Nat /\ k + 1 \in Nat /\ Num(x(k)) = Num(y(k)) + 1 OBVIOUS
  <2>2. x(k) \in Seq(Bytes) /\ y(k) \in Seq(Bytes) BY <1>5, <2>1
  <2>3. /\ Num(Append(x(k), 0)) = Byte * Num(x(k)) + 0 /\ Num(x(k)) \in Nat
        /\ Num(Append(y(k), Byte - 1)) = Byte * Num(y(k)) + (Byte - 1) /\ Num(y(k)) \in Nat
    BY <1>2, <2>2, NumAppend
  <2>4. Num(Append(x(k), 0)) = Num(Append(y(k), Byte - 1)) + 1 BY <1>2, <2>1, <2>3
  <2>5. Num(x(k + 1)) = Num(y(k + 1)) + 1 BY <1>5, <2>1, <2>4
  <2> QED BY <2>1, <2>5
<1>8. P \in SUBSET Nat OBVIOUS
<1>9. P = Nat
  <2> HIDE DEF P
  <2> QED BY <1>6, <1>7, <1>8, Induct
<1>10. Num(x(n)) = Num(y(n)) + 1 BY <1>9
<1> QED BY <1>10 DEF a, b, x, y

\* What the encoder has written if no carry comes any more, and the number that this and
\* low make.
Written(e) == Append(e.out, e.cache) \o [i \in 1..e.cacheSize |-> Byte - 1]
Count(e) == Len(e.out) + 1 + e.cacheSize
Val(e) == Num(Written(e)) * Full + e.low

LEMMA WrittenIs ==
    ASSUME NEW e \in Coder
    PROVE  /\ Written(e) \in Seq(Bytes) /\ Len(Written(e)) = Count(e)
           /\ Count(e) \in Nat /\ Num(Written(e)) \in Nat /\ Val(e) \in Nat
<1>1. e.out \in Seq(Bytes) /\ e.cache \in Bytes /\ e.cacheSize \in Nat /\ e.low \in Nat BY DEF Coder
<1>2. Byte - 1 \in Bytes /\ Full \in Nat BY Widths DEF Bytes
<1>3. Append(e.out, e.cache) \in Seq(Bytes) /\ Len(Append(e.out, e.cache)) = Len(e.out) + 1
  BY <1>1, AppendIs
<1> DEFINE ones == [i \in 1..e.cacheSize |-> Byte - 1]
<1>4. ones \in Seq(Bytes) /\ Len(ones) = e.cacheSize BY <1>1, <1>2, RepeatedIsSeq
<1>5. Written(e) \in Seq(Bytes) /\ Len(Written(e)) = Count(e)
  <2> DEFINE s == Append(e.out, e.cache)
  <2>1. s \in Seq(Bytes) /\ Len(s) = Len(e.out) + 1 BY <1>3
  <2>2. Written(e) = s \o ones BY DEF Written
  <2> HIDE DEF s, ones
  <2>3. s \o ones \in Seq(Bytes) /\ Len(s \o ones) = Len(s) + Len(ones)
    BY <1>4, <2>1, ConcatProperties
  <2> QED BY <1>4, <2>1, <2>2, <2>3 DEF Count
<1>6. Num(Written(e)) \in Nat
  <2>1. PICK f : Counts(f, Written(e)) BY <1>5, CountsExist
  <2> QED BY <1>5, <2>1, NumIs
<1>7. Len(e.out) \in Nat BY <1>1, SequenceIs
<1>8. Val(e) \in Nat BY <1>1, <1>2, <1>6 DEF Val
<1> QED BY <1>1, <1>5, <1>6, <1>7, <1>8 DEF Count

LEMMA ModSmall ==
    ASSUME NEW a \in Bytes
    PROVE  a % Byte = a
<1>1. a \in Int /\ Byte \in Nat \ {0} /\ a \in 0..(Byte - 1) /\ a = Byte * 0 + a
  BY Widths DEF Bytes
<1> QED BY <1>1, DivIsOnly

LEMMA Shifts ==
    ASSUME NEW e \in Coder, NEW w \in Nat \ {0}, Carries(e, w), w * Byte <= Full
    PROVE  LET f == ShiftLow(e)
           IN  /\ f \in Coder /\ f.range = e.range /\ f.probs = e.probs
               /\ Carries(f, w * Byte) /\ f.low = ((e.low % Full) % Top) * Byte
               /\ Val(f) = Byte * Val(e) /\ Count(f) = Count(e) + 1
<1> DEFINE f == ShiftLow(e)
           l == e.low % Full
           h == e.low \div Full
           c == l \div Top
           r == l % Top
           n == Num(Written(e))
<1>1. /\ Byte \in Nat /\ Byte >= 2 /\ Top \in Nat /\ Full \in Nat /\ Full = Byte * Top
      /\ 0 \in Bytes /\ Byte - 1 \in Bytes
  BY Widths DEF Bytes
<1>2. /\ e.low \in Nat /\ e.range \in Nat /\ e.cache \in Bytes /\ e.cacheSize \in Nat
      /\ e.out \in Seq(Bytes) /\ e.probs \in Learned
  BY DEF Coder
<1>3. e.low + w <= 2 * Full /\ (e.cache = Byte - 1 => e.low + w <= Full) BY DEF Carries
<1>4. /\ l \in 0..(Full - 1) /\ h \in {0, 1} /\ e.low = Full * h + l
      /\ c \in Bytes /\ r \in 0..(Top - 1) /\ l = Top * c + r
      /\ (l * Byte) % Full = r * Byte
      /\ l < Full - Top <=> c # Byte - 1
  <2>1. e.low < 2 * Full BY <1>1, <1>2, <1>3
  <2> QED BY <1>2, <2>1, LowParts
<1>5. /\ n \in Nat /\ Count(e) \in Nat /\ Written(e) \in Seq(Bytes)
      /\ Len(Written(e)) = Count(e) /\ Val(e) = n * Full + e.low
  BY WrittenIs DEF Val
<1> HIDE DEF l, h, c, r, n
<1>6. r * Byte \in Nat /\ r * Byte <= Full - Byte
  <2>1. Byte * (r + 1) <= Byte * Top BY <1>1, <1>4, TimesGrow
  <2>2. Byte * (r + 1) = r * Byte + Byte /\ r * Byte \in Nat BY <1>1, <1>4
  <2> QED BY <1>1, <2>1, <2>2
<1>7. \* the digit that leaves low
      Byte * (n * Full + e.low) = ((n + h) * Byte + c) * Full + r * Byte
  <2>1. Byte * (Top * c + r) = c * Full + r * Byte BY <1>1, <1>4 DEF Bytes
  <2>2. Byte * (n * Full + (Full * h + l)) = ((n + h) * Byte) * Full + Byte * l BY <1>1, <1>4, <1>5
  <2>3. ((n + h) * Byte + c) * Full = ((n + h) * Byte) * Full + c * Full
    BY <1>1, <1>4, <1>5 DEF Bytes
  <2>4. Byte * l = c * Full + r * Byte BY <1>4, <2>1
  <2>5. Byte * (n * Full + e.low) = Byte * (n * Full + (Full * h + l)) BY <1>4
  <2> DEFINE A == Byte * (n * Full + e.low)
             B == Byte * (n * Full + (Full * h + l))
             C == ((n + h) * Byte) * Full
             E == ((n + h) * Byte + c) * Full
             L == Byte * l
             M == c * Full
  <2>6. A = B /\ B = C + L /\ E = C + M /\ L = M + r * Byte BY <2>2, <2>3, <2>4, <2>5
  <2>7. C \in Int /\ M \in Int BY <1>1, <1>4, <1>5 DEF Bytes
  <2> HIDE DEF A, B, C, E, L, M
  <2>8. A = E + r * Byte BY <1>6, <2>6, <2>7
  <2> QED BY <2>8 DEF A, E
<1>8. w * Byte \in Nat /\ (r + w <= Top => r * Byte + w * Byte <= Full)
  <2>1. r + w <= Top => Byte * (r + w) <= Byte * Top BY <1>1, <1>4, TimesGrow
  <2>2. Byte * (r + w) = r * Byte + w * Byte /\ w * Byte \in Nat BY <1>1, <1>4
  <2> QED BY <1>1, <2>1, <2>2
<1>9. CASE l < Full - Top \/ h # 0
  <2> DEFINE x == (e.cache + h) % Byte
             y == (Byte - 1 + h) % Byte
             o == (e.out \o <<x>>) \o [i \in 1..e.cacheSize |-> y]
  <2>1. f = [e EXCEPT !.low = r * Byte, !.out = o, !.cache = c, !.cacheSize = 0]
    BY <1>4, <1>9 DEF ShiftLow, l, h, c
  <2>2. x \in Bytes /\ y \in Bytes BY <1>1, <1>2, <1>4 DEF Bytes
  <2>3. e.out \o <<x>> = Append(e.out, x) /\ Append(e.out, x) \in Seq(Bytes)
        /\ Len(Append(e.out, x)) = Len(e.out) + 1
    BY <1>2, <2>2, AppendIsConcat, AppendIs
  <2> HIDE DEF x, y
  <2>4. o \in Seq(Bytes) /\ Len(o) = Len(e.out) + 1 + e.cacheSize
    <3> DEFINE s == Append(e.out, x)
               ys == [i \in 1..e.cacheSize |-> y]
    <3>1. ys \in Seq(Bytes) /\ Len(ys) = e.cacheSize BY <1>2, <2>2, RepeatedIsSeq
    <3>2. s \in Seq(Bytes) /\ Len(s) = Len(e.out) + 1 /\ o = s \o ys BY <2>3
    <3> HIDE DEF s, ys
    <3>3. s \o ys \in Seq(Bytes) /\ Len(s \o ys) = Len(s) + Len(ys)
      BY <3>1, <3>2, ConcatProperties
    <3> QED BY <3>1, <3>2, <3>3
  <2>5. Num(o) = n + h
    <3>1. CASE h = 0
      <4>1. x = e.cache /\ y = Byte - 1
        <5>1. e.cache + h = e.cache /\ Byte - 1 + h = Byte - 1 BY <1>1, <1>2, <3>1 DEF Bytes
        <5>2. \A a \in Bytes : a % Byte = a BY ModSmall
        <5> QED BY <1>1, <1>2, <5>1, <5>2 DEF x, y
      <4>2. o = Written(e) BY <2>3, <4>1 DEF Written
      <4> HIDE DEF o
      <4> QED BY <1>5, <3>1, <4>2 DEF n
    <3>2. CASE h = 1
      <4>1. e.cache # Byte - 1 BY <1>1, <1>2, <1>3, <1>4, <3>2
      <4>2. e.cache + 1 \in Bytes /\ x = e.cache + 1 /\ y = 0
        <5>1. /\ e.cache + h = e.cache + 1 /\ Byte - 1 + h = Byte
              /\ e.cache + 1 \in Bytes
          BY <1>1, <1>2, <3>2, <4>1 DEF Bytes
        <5>2. \A a \in Bytes : a % Byte = a BY ModSmall
        <5>3. Byte % Byte = 0
          <6>1. Byte \in Int /\ Byte \in Nat \ {0} /\ 0 \in 0..(Byte - 1) /\ Byte = Byte * 1 + 0 BY <1>1
          <6> QED BY <6>1, DivIsOnly
        <5> QED BY <1>1, <1>2, <5>1, <5>2, <5>3 DEF x, y
      <4>3. Num(Append(e.out, e.cache + 1) \o [i \in 1..e.cacheSize |-> 0]) = n + 1
        BY <1>2, <4>2, NumCarries DEF Written, n
      <4> QED BY <2>3, <3>2, <4>2, <4>3
    <3> QED BY <1>4, <3>1, <3>2
  <2> HIDE DEF o
  <2>6. /\ f.low = r * Byte /\ f.out = o /\ f.cache = c /\ f.cacheSize = 0
        /\ f.range = e.range /\ f.probs = e.probs
    BY <2>1 DEF Coder
  <2>7. f \in Coder
    <3>1. e \in [low : Nat, range : Nat, cache : Bytes, cacheSize : Nat, out : Seq(Bytes), probs : Learned]
      BY DEF Coder
    <3>2. r * Byte \in Nat /\ c \in Bytes /\ o \in Seq(Bytes) /\ 0 \in Nat BY <1>4, <1>6, <2>4
    <3>3. f \in [low : Nat, range : Nat, cache : Bytes, cacheSize : Nat, out : Seq(Bytes), probs : Learned]
      BY <2>1, <3>1, <3>2, Zenon
    <3> QED BY <3>3 DEF Coder
  <2>8. Written(f) = Append(o, c)
    <3>1. Append(o, c) \in Seq(Bytes) BY <1>4, <2>4, AppendIs
    <3>2. Append(o, c) \o [i \in 1..0 |-> Byte - 1] = Append(o, c) BY <1>1, <3>1, MoreOfTheSame
    <3> HIDE DEF f
    <3> QED BY <2>6, <3>2 DEF Written
  <2>9. Val(f) = Byte * Val(e)
    <3>1. Num(Append(o, c)) = Byte * Num(o) + c BY <1>4, <2>4, NumAppend
    <3>2. Val(f) = (Byte * (n + h) + c) * Full + r * Byte
      <4> HIDE DEF f
      <4> QED BY <2>5, <2>6, <2>8, <3>1 DEF Val
    <3>3. Byte * (n + h) = (n + h) * Byte BY <1>1, <1>4, <1>5
    <3> QED BY <1>5, <1>7, <3>2, <3>3
  <2>10. Count(f) = Count(e) + 1
    <3>1. Len(e.out) \in Nat BY <1>2, SequenceIs
    <3> HIDE DEF f
    <3>2. Count(f) = Len(o) + 1 + 0 BY <2>6 DEF Count
    <3>3. Count(e) = Len(e.out) + 1 + e.cacheSize BY DEF Count
    <3> QED BY <1>2, <2>4, <3>1, <3>2, <3>3
  <2>11. Carries(f, w * Byte)
    <3>1. f.cache = Byte - 1 => r * Byte + w * Byte <= Full
      <4> SUFFICES ASSUME f.cache = Byte - 1 PROVE r + w <= Top BY <1>8
      <4>1. c = Byte - 1 /\ h = 1 BY <1>4, <1>9, <2>6
      <4>2. Full + (Top * (Byte - 1) + r) + w <= 2 * Full BY <1>1, <1>3, <1>4, <4>1
      <4>3. Top * (Byte - 1) = Full - Top BY <1>1
      <4> QED BY <1>1, <1>4, <4>2, <4>3
    <3>2. r * Byte + w * Byte <= 2 * Full BY <1>1, <1>6, <1>8
    <3> HIDE DEF f
    <3> QED BY <2>6, <3>1, <3>2 DEF Carries
  <2> HIDE DEF f
  <2> QED BY <2>6, <2>7, <2>9, <2>10, <2>11 DEF f, l, r
<1>10. CASE ~(l < Full - Top \/ h # 0)
  <2>1. f = [e EXCEPT !.low = r * Byte, !.cacheSize = @ + 1]
    BY <1>4, <1>10 DEF ShiftLow, l, h
  <2>2. /\ f.low = r * Byte /\ f.out = e.out /\ f.cache = e.cache
        /\ f.cacheSize = e.cacheSize + 1 /\ f.range = e.range /\ f.probs = e.probs
    BY <2>1 DEF Coder
  <2>3. f \in Coder
    <3>1. e \in [low : Nat, range : Nat, cache : Bytes, cacheSize : Nat, out : Seq(Bytes), probs : Learned]
      BY DEF Coder
    <3>2. r * Byte \in Nat /\ e.cacheSize + 1 \in Nat BY <1>2, <1>6
    <3>3. f \in [low : Nat, range : Nat, cache : Bytes, cacheSize : Nat, out : Seq(Bytes), probs : Learned]
      BY <2>1, <3>1, <3>2, Zenon
    <3> QED BY <3>3 DEF Coder
  <2>4. c = Byte - 1 /\ h = 0 BY <1>1, <1>4, <1>10
  <2>5. Written(f) = Append(Written(e), Byte - 1)
    <3>1. Append(e.out, e.cache) \in Seq(Bytes) BY <1>2, AppendIs
    <3> DEFINE s == Append(e.out, e.cache)
    <3>2. \A k \in Nat : s \o [i \in 1..(k + 1) |-> Byte - 1]
                          = Append(s \o [i \in 1..k |-> Byte - 1], Byte - 1)
      <4>1. s \in Seq(Bytes) /\ Byte - 1 \in Bytes BY <1>1, <3>1
      <4> HIDE DEF s
      <4> QED BY <4>1, MoreOfTheSame
    <3> HIDE DEF f
    <3>3. Written(f) = s \o [i \in 1..(e.cacheSize + 1) |-> Byte - 1] BY <2>2 DEF Written
    <3> QED BY <1>2, <3>2, <3>3 DEF Written
  <2>6. Val(f) = Byte * Val(e)
    <3>1. Num(Append(Written(e), Byte - 1)) = Byte * n + c BY <1>1, <1>5, <2>4, NumAppend DEF n
    <3>2. Val(f) = (Byte * n + c) * Full + r * Byte
      <4> HIDE DEF f
      <4> QED BY <2>2, <2>5, <3>1 DEF Val
    <3>3. Byte * n = (n + h) * Byte BY <1>1, <1>5, <2>4
    <3> QED BY <1>5, <1>7, <3>2, <3>3
  <2>7. Count(f) = Count(e) + 1
    <3>1. Len(e.out) \in Nat BY <1>2, SequenceIs
    <3> HIDE DEF f
    <3> QED BY <1>2, <2>2, <3>1 DEF Count
  <2>8. Carries(f, w * Byte)
    <3>1. f.cache = Byte - 1 => r * Byte + w * Byte <= Full
      <4> SUFFICES ASSUME f.cache = Byte - 1 PROVE r + w <= Top BY <1>8
      <4>1. e.cache = Byte - 1 BY <2>2
      <4>2. (Top * (Byte - 1) + r) + w <= Full BY <1>1, <1>3, <1>4, <2>4, <4>1
      <4>3. Top * (Byte - 1) = Full - Top BY <1>1
      <4> QED BY <1>1, <1>4, <4>2, <4>3
    <3>2. r * Byte + w * Byte <= 2 * Full BY <1>1, <1>6, <1>8
    <3> HIDE DEF f
    <3> QED BY <2>2, <3>1, <3>2 DEF Carries
  <2> HIDE DEF f
  <2> QED BY <2>2, <2>3, <2>6, <2>7, <2>8 DEF f, l, r
<1> QED BY <1>9, <1>10

\* One run only: what else begins and goes on like it, as long as it stays in S, is it.
LEMMA RunsAre ==
    ASSUME NEW n \in Nat, NEW S, NEW start, NEW step, NEW f, Runs(f, n, S, start, step),
           NEW made, made[0] = start,
           \A k \in 1..n : made[k - 1] \in S => made[k] = step[k][made[k - 1]]
    PROVE  \A k \in 0..n : made[k] = f[k] /\ made[k] \in S
<1> DEFINE P == {k \in Nat : k <= n => made[k] = f[k] /\ f[k] \in S}
<1>1. 0 \in P BY DEF Runs
<1>2. \A k \in 1..n : k - 1 \in P => k \in P BY DEF Runs
<1>3. P \in SUBSET Nat OBVIOUS
<1>4. \A k \in 0..n : k \in P
  <2> HIDE DEF P
  <2> QED BY <1>1, <1>2, <1>3, Throughout
<1> QED BY <1>4

\* The same, the two conditions on made under one name.
Follows(made, n, S, start, step) ==
    /\ made[0] = start
    /\ \A k \in 1..n : made[k - 1] \in S => made[k] = step[k][made[k - 1]]

LEMMA FollowsRuns ==
    ASSUME NEW n \in Nat, NEW S, NEW start, NEW step, NEW f, Runs(f, n, S, start, step),
           NEW made, Follows(made, n, S, start, step)
    PROVE  \A k \in 0..n : made[k] = f[k] /\ made[k] \in S
<1>1. /\ made[0] = start
      /\ \A k \in 1..n : made[k - 1] \in S => made[k] = step[k][made[k - 1]]
  BY DEF Follows
<1> QED BY <1>1, RunsAre

-----------------------------------------------------------------------------
(* The bits of the encoder *)

Bit == {0, 1}
Coded == [ctx : Ctx, bit : Bit]

LEMMA NormKeeps ==
    ASSUME NEW e \in Coder, e.range >= Byte * Byte, e.range < Full, Carries(e, e.range)
    PROVE  EncNorm(e) \in Coding
<1>1. /\ Byte \in Nat /\ Byte >= 2 /\ Top \in Nat /\ Top = Byte * (Byte * Byte)
      /\ Full \in Nat /\ Full = Byte * Top /\ Byte * Byte >= 4 /\ Byte * Byte \in Nat
  BY Widths
<1>2. e.range \in Nat BY DEF Coder
<1>3. CASE e.range >= Top
  <2>1. EncNorm(e) = e BY <1>1, <1>2, <1>3 DEF EncNorm
  <2> QED BY <1>1, <1>2, <1>3, <2>1 DEF Coding
<1>4. CASE e.range < Top
  <2> DEFINE g == [e EXCEPT !.range = @ * Byte]
             w == e.range
  <2>1. w * Byte \in Nat /\ w * Byte >= Top /\ w * Byte <= Full - Byte
    <3>1. Byte * (w + 1) <= Byte * Top BY <1>1, <1>2, <1>4, TimesGrow
    <3>2. Byte * (Byte * Byte) <= Byte * w BY <1>1, <1>2, TimesGrow
    <3>3. Byte * (w + 1) = w * Byte + Byte /\ Byte * w = w * Byte /\ w * Byte \in Nat BY <1>1, <1>2
    <3> QED BY <1>1, <3>1, <3>2, <3>3
  <2>2. g \in Coder /\ g.range = w * Byte /\ g.low = e.low /\ g.cache = e.cache
    <3>1. g.range = w * Byte /\ g.low = e.low /\ g.cache = e.cache BY DEF Coder
    <3> HIDE DEF w
    <3>2. g \in Coder BY <2>1, Zenon DEF Coder, w
    <3> QED BY <3>1, <3>2
  <2>3. EncNorm(e) = ShiftLow(g) BY <1>4 DEF EncNorm
  <2>4. Carries(g, w) BY <2>2 DEF Carries
  <2>5. w \in Nat \ {0} /\ w * Byte <= Full BY <1>1, <1>2, <2>1
  <2> HIDE DEF g, w
  <2>6. /\ ShiftLow(g) \in Coder /\ ShiftLow(g).range = g.range /\ Carries(ShiftLow(g), w * Byte)
    BY <2>2, <2>4, <2>5, Shifts
  <2> QED BY <1>1, <2>1, <2>2, <2>3, <2>6 DEF Coding
<1> QED BY <1>1, <1>2, <1>3, <1>4

LEMMA BitKeeps ==
    ASSUME NEW e \in Coding, NEW d \in Coded
    PROVE  EncodeBit(e, d) \in Coding
<1>1. /\ Byte * Byte \in Nat /\ Byte * Byte >= 4 /\ Top \in Nat /\ Full \in Nat
      /\ Top >= 2 * (Byte * Byte)
  BY Widths
<1>2. /\ e \in Coder /\ e.range \in Top..(Full - 1) /\ Carries(e, e.range)
      /\ e.range \in Nat /\ e.low \in Nat /\ e.probs \in Learned
  BY DEF Coding, Coder
<1>3. d.ctx \in Ctx /\ d.bit \in Bit BY DEF Coded
<1> DEFINE Taken(w, l, ps) == [e EXCEPT !.range = w, !.low = l, !.probs = ps]
<1>4. ASSUME NEW w \in Nat, NEW l \in Nat, NEW ps \in Learned,
             w >= Byte * Byte, l + w <= e.low + e.range, w < Full
      PROVE  EncNorm(Taken(w, l, ps)) \in Coding
  <2>1. Taken(w, l, ps) \in Coder BY <1>2 DEF Coder
  <2>2. /\ Taken(w, l, ps).range = w /\ Taken(w, l, ps).low = l
        /\ Taken(w, l, ps).cache = e.cache
    BY <1>2 DEF Coder
  <2> HIDE DEF Next
  <2>3. Carries(Taken(w, l, ps), Taken(w, l, ps).range)
    <3>1. /\ e.low + e.range <= 2 * Full
          /\ e.cache = Byte - 1 => e.low + e.range <= Full
      BY <1>2 DEF Carries
    <3>2. l + w <= 2 * Full /\ (e.cache = Byte - 1 => l + w <= Full) BY <1>1, <1>2, <1>4, <3>1
    <3> QED BY <2>2, <3>2 DEF Carries
  <2>4. Taken(w, l, ps).range >= Byte * Byte /\ Taken(w, l, ps).range < Full BY <1>4, <2>2
  <2> QED BY <2>1, <2>3, <2>4, NormKeeps
<1>5. CASE d.ctx = Direct
  <2> DEFINE half == e.range \div 2
             l == e.low + half * d.bit
  <2>1. half \in Nat /\ half >= Byte * Byte /\ 2 * half <= e.range BY <1>1, <1>2
  <2>2. EncodeBit(e, d) = EncNorm([e EXCEPT !.range = half, !.low = l])
    BY <1>5 DEF EncodeBit
  <2>3. [e EXCEPT !.range = half, !.low = l] = Taken(half, l, e.probs) BY <1>2 DEF Coder
  <2>4. half * d.bit = 0 \/ half * d.bit = half BY <1>3, <2>1 DEF Bit
  <2> HIDE DEF half
  <2>5. l \in Nat /\ l + half <= e.low + e.range /\ half < Full BY <1>1, <1>2, <2>1, <2>4
  <2> HIDE DEF l, Next
  <2>6. EncNorm(Taken(half, l, e.probs)) \in Coding BY <1>2, <1>4, <2>1, <2>5
  <2> QED BY <2>2, <2>3, <2>6
<1>6. CASE d.ctx # Direct
  <2> DEFINE prob == ProbOf(e.probs, d.ctx)
             bound == (e.range \div Total) * prob
  <2>1. prob \in Probs /\ \A x \in Probs : Learn(e.probs, d.ctx, x) \in Learned
    BY <1>2, <1>3, Learns
  <2> HIDE DEF prob
  <2>2. After0(prob) \in Probs /\ After1(prob) \in Probs BY <2>1, ProbsMove
  <2>3. bound \in Nat /\ bound >= Byte * Byte /\ e.range - bound >= Byte * Byte
    BY <1>1, <1>2, <2>1, RangeSplit
  <2>4. EncodeBit(e, d) = EncNorm(IF d.bit = 0
                     THEN [e EXCEPT !.range = bound, !.probs = Learn(@, d.ctx, After0(prob))]
                     ELSE [e EXCEPT !.range = @ - bound, !.low = @ + bound,
                                    !.probs = Learn(@, d.ctx, After1(prob))])
    BY <1>6 DEF EncodeBit, prob
  <2> HIDE DEF bound
  <2>5. CASE d.bit = 0
    <3> DEFINE ps == Learn(e.probs, d.ctx, After0(prob))
    <3>1. ps \in Learned BY <2>1, <2>2
    <3>2. EncodeBit(e, d) = EncNorm([e EXCEPT !.range = bound, !.probs = ps]) BY <2>4, <2>5
    <3> HIDE DEF ps
    <3>3. [e EXCEPT !.range = bound, !.probs = ps] = Taken(bound, e.low, ps) BY <1>2 DEF Coder
    <3> HIDE DEF Next
    <3>4. e.low + bound <= e.low + e.range /\ bound < Full BY <1>1, <1>2, <2>3
    <3>5. EncNorm(Taken(bound, e.low, ps)) \in Coding BY <1>2, <1>4, <2>3, <3>1, <3>4
    <3> QED BY <3>2, <3>3, <3>5
  <2>6. CASE d.bit # 0
    <3> DEFINE ps == Learn(e.probs, d.ctx, After1(prob))
               w == e.range - bound
               l == e.low + bound
    <3>1. ps \in Learned BY <2>1, <2>2
    <3>2. EncodeBit(e, d) = EncNorm([e EXCEPT !.range = w, !.low = l, !.probs = ps])
      BY <1>2, <2>4, <2>6 DEF Coder
    <3>3. w \in Nat /\ l \in Nat /\ w >= Byte * Byte /\ l + w <= e.low + e.range /\ w < Full
      BY <1>1, <1>2, <2>3
    <3> HIDE DEF ps, w, l
    <3>4. EncNorm(Taken(w, l, ps)) \in Coding
      <4> HIDE DEF Next
      <4> QED BY <1>4, <3>1, <3>3
    <3> QED BY <3>2, <3>4
  <2> QED BY <2>5, <2>6
<1> QED BY <1>5, <1>6

LEMMA AllKeeps ==
    ASSUME NEW e \in Coding, NEW ds \in Seq(Coded)
    PROVE  EncodeAll(e, ds) \in Coding
<1> DEFINE n == Len(ds)
           Body(g) == [i \in 0..n |-> IF i = 0 THEN e
                                      ELSE With(g[i - 1], LAMBDA a : EncodeBit(a, ds[i]))]
           made == CHOOSE g : g = Body(g)
           step == [k \in 1..n |-> [a \in Coding |-> EncodeBit(a, ds[k])]]
<1>1. n \in Nat /\ \A k \in 1..n : ds[k] \in Coded BY SequenceIs
<1>2. EncodeAll(e, ds) = made[n] BY DEF EncodeAll, Repeat
<1> HIDE DEF n
<1>3. \A k \in 1..n : [a \in Coding |-> EncodeBit(a, ds[k])] \in [Coding -> Coding]
  BY <1>1, BitKeeps
<1>4. Loop(n, Coding, e, step) BY <1>1, <1>3 DEF Loop
<1>5. \A k \in 1..n, a \in Coding : step[k][a] = EncodeBit(a, ds[k]) OBVIOUS
<1> HIDE DEF step
<1>6. PICK f : Runs(f, n, Coding, e, step) BY <1>4, LoopEnds
<1>7. f = Body(f)
  <2>1. \A i \in 1..n : f[i] = With(f[i - 1], LAMBDA a : EncodeBit(a, ds[i]))
    BY <1>1, <1>5, <1>6 DEF Runs, With
  <2> QED BY <1>1, <1>6, <2>1 DEF Runs
<1>8. made = Body(made) BY <1>7
<1> HIDE DEF made
<1>9. made[0] = e /\ \A k \in 1..n : made[k - 1] \in Coding => made[k] = step[k][made[k - 1]]
  BY <1>1, <1>5, <1>8 DEF With
<1>10. \A k \in 0..n : made[k] = f[k] /\ made[k] \in Coding
  <2>1. Runs(f, n, Coding, e, step) /\ Follows(made, n, Coding, e, step)
    BY <1>6, <1>9 DEF Follows
  <2>2. n \in Nat BY <1>1
  <2> HIDE DEF n
  <2> QED BY <2>1, <2>2, FollowsRuns
<1> QED BY <1>1, <1>2, <1>10

\* Until the text ends low has room for the range; the flush leaves it a carry at most.
Flushed == {e \in Coder : e.range \in Top..(Full - 1) /\ Carries(e, 1)}

LEMMA CodingIsFlushed ==
    ASSUME NEW e \in Coding
    PROVE  e \in Flushed
<1>1. Top \in Nat /\ Top >= 1 /\ Full \in Nat BY Widths
<1>2. e \in Coder /\ e.range \in Top..(Full - 1) /\ Carries(e, e.range) /\ e.low \in Nat
  BY DEF Coding, Coder
<1>3. Carries(e, 1) BY <1>1, <1>2 DEF Carries
<1> QED BY <1>2, <1>3 DEF Flushed

LEMMA FlushKeeps ==
    ASSUME NEW e \in Flushed
    PROVE  FlushData(e) \in Flushed
<1> DEFINE Body(g) == [i \in 0..5 |-> IF i = 0 THEN e
                                      ELSE With(g[i - 1], LAMBDA a : ShiftLow(a))]
           made == CHOOSE g : g = Body(g)
           step == [k \in 1..5 |-> [a \in Flushed |-> ShiftLow(a)]]
<1>1. FlushData(e) = made[5] BY DEF FlushData, Repeat
<1>2. ASSUME NEW a \in Flushed PROVE ShiftLow(a) \in Flushed
  <2>1. a \in Coder /\ a.range \in Top..(Full - 1) /\ Carries(a, 1) BY DEF Flushed
  <2>2. Byte \in Nat /\ Byte >= 2 /\ Full \in Nat /\ Full = Byte * Top /\ Top >= 1 /\ Top \in Nat
    BY Widths
  <2>3. Byte * 1 <= Byte * Top BY <2>2, TimesGrow
  <2>4. 1 \in Nat \ {0} /\ 1 * Byte <= Full /\ 1 * Byte = Byte BY <2>2, <2>3
  <2> DEFINE b == ShiftLow(a)
  <2>5. b \in Coder /\ b.range = a.range /\ Carries(b, 1 * Byte) BY <2>1, <2>4, Shifts
  <2> HIDE DEF b
  <2>6. b.low \in Nat BY <2>5 DEF Coder
  <2>7. Carries(b, 1) BY <2>2, <2>4, <2>5, <2>6 DEF Carries
  <2>8. b \in Flushed BY <2>1, <2>5, <2>7 DEF Flushed
  <2> QED BY <2>8 DEF b
<1>3. Loop(5, Flushed, e, step) BY <1>2 DEF Loop
<1>4. \A k \in 1..5, a \in Flushed : step[k][a] = ShiftLow(a) OBVIOUS
<1> HIDE DEF step
<1>5. PICK f : Runs(f, 5, Flushed, e, step) BY <1>3, LoopEnds
<1>6. f = Body(f)
  <2>1. ASSUME NEW i \in 1..5 PROVE f[i] = With(f[i - 1], LAMBDA a : ShiftLow(a))
    <3>1. i - 1 \in 0..5 OBVIOUS
    <3>2. f[i - 1] \in Flushed /\ f[i] = step[i][f[i - 1]] BY <1>5, <3>1 DEF Runs
    <3> QED BY <1>4, <3>2 DEF With
  <2>2. f \in [0..5 -> Flushed] /\ f[0] = e BY <1>5 DEF Runs
  <2>3. \A i \in 0..5 : i = 0 \/ i \in 1..5 OBVIOUS
  <2> QED BY <2>1, <2>2, <2>3
<1>7. made = Body(made) BY <1>6
<1> HIDE DEF made
<1>8. made[0] = e /\ \A k \in 1..5 : made[k - 1] \in Flushed => made[k] = step[k][made[k - 1]]
  BY <1>4, <1>7 DEF With
<1>9. \A k \in 0..5 : made[k] = f[k] /\ made[k] \in Flushed BY <1>5, <1>8, RunsAre
<1> QED BY <1>1, <1>9

-----------------------------------------------------------------------------
(* The bits of a packet *)

LEMMA BitOfIs ==
    ASSUME NEW n \in Int, NEW i \in Nat
    PROVE  BitOf(n, i) \in Bit
<1>1. Pow2[i] \in Nat \ {0} BY Powers
<1>2. n \div Pow2[i] \in Int BY <1>1, DivIs
<1> HIDE DEF Bit
<1>3. \A q \in Int : q % 2 \in Bit BY DEF Bit
<1> QED BY <1>2, <1>3 DEF BitOf

LEMMA CodedIs ==
    ASSUME NEW name \in Names, NEW i \in Int, NEW j \in Int, NEW bit \in Bit
    PROVE  D(name, i, j, bit) \in Coded
BY DEF D, Coded, Ctx

LEMMA TreeIs ==
    ASSUME NEW name \in Names, NEW base \in Int, NEW bits \in Nat, NEW sym \in Int
    PROVE  Tree(name, base, bits, sym) \in Seq(Coded)
<1>1. ASSUME NEW i \in 1..bits
      PROVE  D(name, base + ((Pow2[bits] + sym) \div Pow2[bits - i + 1]), 0, BitOf(sym, bits - i))
               \in Coded
  <2>1. bits - i \in Nat /\ bits - i + 1 \in Nat OBVIOUS
  <2>2. Pow2[bits - i + 1] \in Nat \ {0} /\ Pow2[bits] \in Nat BY <2>1, Powers
  <2> DEFINE q == (Pow2[bits] + sym) \div Pow2[bits - i + 1]
  <2>3. q \in Int
    <3>1. Pow2[bits] + sym \in Int BY <2>2
    <3> HIDE DEF q
    <3> QED BY <2>2, <3>1, DivIs DEF q
  <2> HIDE DEF q
  <2>4. base + q \in Int /\ 0 \in Int BY <2>3
  <2>5. D(name, base + q, 0, BitOf(sym, bits - i)) \in Coded BY <2>1, <2>4, BitOfIs, CodedIs
  <2> QED BY <2>5 DEF q
<1> DEFINE x(i) == D(name, base + ((Pow2[bits] + sym) \div Pow2[bits - i + 1]), 0,
                     BitOf(sym, bits - i))
<1>2. \A i \in 1..bits : x(i) \in Coded BY <1>1
<1>3. Tree(name, base, bits, sym) = [i \in 1..bits |-> x(i)] BY DEF Tree
<1> HIDE DEF x
<1> QED BY <1>2, <1>3

LEMMA MatchedTreeIs ==
    ASSUME NEW base \in Int, NEW sym \in Int, NEW matchByte \in Int
    PROVE  MatchedTree(base, sym, matchByte) \in Seq(Coded)
<1> DEFINE agree(i) == \A j \in 1..(i - 1) :
                          BitOf(sym, ByteBits - j) = BitOf(matchByte, ByteBits - j)
           offs(i) == IF agree(i) THEN Byte + Byte * BitOf(matchByte, ByteBits - i) ELSE 0
           node(i) == (Byte + sym) \div Pow2[ByteBits - i + 1]
<1>1. ByteBits \in Nat /\ Byte \in Nat BY CodingParams, Widths
<1>2. ASSUME NEW i \in 1..ByteBits
      PROVE  D("lit", base + offs(i) + node(i), 0, BitOf(sym, ByteBits - i)) \in Coded
  <2>1. ByteBits - i \in Nat /\ ByteBits - i + 1 \in Nat BY <1>1
  <2>2. Pow2[ByteBits - i + 1] \in Nat \ {0} BY <2>1, Powers
  <2>3. node(i) \in Int
    <3>1. Byte + sym \in Int BY <1>1
    <3> HIDE DEF node
    <3> QED BY <2>2, <3>1, DivIs DEF node
  <2>4. offs(i) \in Int
    <3>1. BitOf(matchByte, ByteBits - i) \in Bit BY <2>1, BitOfIs
    <3> HIDE DEF agree
    <3> QED BY <1>1, <3>1 DEF Bit
  <2> HIDE DEF node, offs, agree
  <2>5. base + offs(i) + node(i) \in Int /\ 0 \in Int BY <2>3, <2>4
  <2>6. BitOf(sym, ByteBits - i) \in Bit BY <2>1, BitOfIs
  <2>7. "lit" \in Names BY DEF Names
  <2> QED BY <2>5, <2>6, <2>7, CodedIs
<1> DEFINE x(i) == D("lit", base + offs(i) + node(i), 0, BitOf(sym, ByteBits - i))
<1>3. \A i \in 1..ByteBits : x(i) \in Coded BY <1>2
<1>4. MatchedTree(base, sym, matchByte) = [i \in 1..ByteBits |-> x(i)] BY DEF MatchedTree
<1> HIDE DEF x
<1> QED BY <1>1, <1>3, <1>4

LEMMA ReverseNode ==
    ASSUME NEW sym \in Int, NEW n \in Nat
    PROVE  Repeat(LAMBDA m, k : 2 * m + BitOf(sym, k - 1), 1, n) \in Nat
<1> DEFINE Op(a, k) == 2 * a + BitOf(sym, k - 1)
           Body(g) == [i \in 0..n |-> IF i = 0 THEN 1
                                      ELSE With(g[i - 1], LAMBDA a : Op(a, i))]
           made == CHOOSE g : g = Body(g)
           step == [k \in 1..n |-> [a \in Nat |-> Op(a, k)]]
<1>1. Repeat(LAMBDA m, k : 2 * m + BitOf(sym, k - 1), 1, n) = made[n] BY DEF Repeat
<1>2. ASSUME NEW k \in 1..n, NEW a \in Nat PROVE Op(a, k) \in Nat
  <2>1. BitOf(sym, k - 1) \in Bit BY BitOfIs
  <2> QED BY <2>1 DEF Bit
<1> HIDE DEF Op
<1>3. Loop(n, Nat, 1, step) BY <1>2 DEF Loop
<1>4. \A k \in 1..n, a \in Nat : step[k][a] = Op(a, k) OBVIOUS
<1> HIDE DEF step
<1>5. PICK f : Runs(f, n, Nat, 1, step) BY <1>3, LoopEnds
<1>6. f = Body(f)
  <2>1. ASSUME NEW i \in 1..n PROVE f[i] = With(f[i - 1], LAMBDA a : Op(a, i))
    <3>1. i - 1 \in 0..n OBVIOUS
    <3>2. f[i - 1] \in Nat /\ f[i] = step[i][f[i - 1]] BY <1>5, <3>1 DEF Runs
    <3> QED BY <1>4, <3>2 DEF With
  <2>2. f \in [0..n -> Nat] /\ f[0] = 1 BY <1>5 DEF Runs
  <2>3. \A i \in 0..n : i = 0 \/ i \in 1..n OBVIOUS
  <2> QED BY <2>1, <2>2, <2>3
<1>7. made = Body(made) BY <1>6
<1> HIDE DEF made
<1>8. made[0] = 1 /\ \A k \in 1..n : made[k - 1] \in Nat => made[k] = step[k][made[k - 1]]
  BY <1>4, <1>7 DEF With
<1>9. \A k \in 0..n : made[k] = f[k] /\ made[k] \in Nat BY <1>5, <1>8, RunsAre
<1>10. made[n] \in Nat BY <1>9
<1> QED BY <1>1, <1>10

LEMMA ReverseTreeIs ==
    ASSUME NEW name \in Names, NEW base \in Int, NEW bits \in Nat, NEW sym \in Int
    PROVE  ReverseTree(name, base, bits, sym) \in Seq(Coded)
<1>1. ASSUME NEW i \in 1..bits
      PROVE  D(name, base + Repeat(LAMBDA m, k : 2 * m + BitOf(sym, k - 1), 1, i - 1), 0,
               BitOf(sym, i - 1)) \in Coded
  <2>1. i - 1 \in Nat OBVIOUS
  <2> DEFINE q == Repeat(LAMBDA m, k : 2 * m + BitOf(sym, k - 1), 1, i - 1)
  <2>2. q \in Nat BY <2>1, ReverseNode
  <2> HIDE DEF q
  <2>3. base + q \in Int /\ 0 \in Int BY <2>2
  <2>4. D(name, base + q, 0, BitOf(sym, i - 1)) \in Coded BY <2>1, <2>3, BitOfIs, CodedIs
  <2> QED BY <2>4 DEF q
<1> DEFINE x(i) == D(name, base + Repeat(LAMBDA m, k : 2 * m + BitOf(sym, k - 1), 1, i - 1), 0,
                     BitOf(sym, i - 1))
<1>2. \A i \in 1..bits : x(i) \in Coded BY <1>1
<1>3. ReverseTree(name, base, bits, sym) = [i \in 1..bits |-> x(i)] BY DEF ReverseTree
<1> HIDE DEF x
<1> QED BY <1>2, <1>3

LEMMA JoinIs ==
    ASSUME NEW S, NEW s \in Seq(S), NEW t \in Seq(S)
    PROVE  s \o t \in Seq(S)
OBVIOUS

LEMMA LenBitsIs ==
    ASSUME NEW name \in {"len", "repLen"}, NEW len \in Nat, NEW posState \in Int
    PROVE  LenBits(name, len, posState) \in Seq(Coded)
<1> DEFINE sym == len - MatchMinLen
           at == posState * 2 * LenLow
<1>1. LenLow \in Nat /\ LenLowBits \in Nat /\ LenHighBits \in Nat
  <2>1. LenLowBits \in Nat /\ LenHighBits \in Nat BY CodingParams
  <2> QED BY <2>1, Powers DEF LenLow
<1>2. sym \in Int /\ at \in Int /\ at + LenLow \in Int /\ sym - LenLow \in Int
      /\ sym - 2 * LenLow \in Int /\ 0 \in Int
  BY <1>1 DEF MatchMinLen
<1> HIDE DEF sym, at
<1>3. name \in Names /\ HighOf[name] \in Names
  <2>1. "len" \in Names /\ "repLen" \in Names /\ "lenHigh" \in Names /\ "repLenHigh" \in Names
    BY DEF Names
  <2>2. HighOf["len"] = "lenHigh" /\ HighOf["repLen"] = "repLenHigh" BY DEF HighOf
  <2> QED BY <2>1, <2>2
<1>4. 0 \in Bit /\ 1 \in Bit BY DEF Bit
<1>5. \A i \in Int, b \in Bit : D(name, i, 0, b) \in Coded BY <1>2, <1>3, CodedIs
<1>6. /\ <<D(name, 0, 0, 0)>> \in Seq(Coded)
      /\ <<D(name, 0, 0, 1), D(name, LenLow, 0, 0)>> \in Seq(Coded)
      /\ <<D(name, 0, 0, 1), D(name, LenLow, 0, 1)>> \in Seq(Coded)
  BY <1>1, <1>4, <1>5
<1>7. /\ Tree(name, at, LenLowBits, sym) \in Seq(Coded)
      /\ Tree(name, at + LenLow, LenLowBits, sym - LenLow) \in Seq(Coded)
      /\ Tree(HighOf[name], 0, LenHighBits, sym - 2 * LenLow) \in Seq(Coded)
  BY <1>1, <1>2, <1>3, TreeIs
<1>8. /\ <<D(name, 0, 0, 0)>> \o Tree(name, at, LenLowBits, sym) \in Seq(Coded)
      /\ <<D(name, 0, 0, 1), D(name, LenLow, 0, 0)>>
            \o Tree(name, at + LenLow, LenLowBits, sym - LenLow) \in Seq(Coded)
      /\ <<D(name, 0, 0, 1), D(name, LenLow, 0, 1)>>
            \o Tree(HighOf[name], 0, LenHighBits, sym - 2 * LenLow) \in Seq(Coded)
  BY <1>6, <1>7, JoinIs
<1> QED BY <1>8 DEF LenBits, sym, at

LEMMA HighestBit ==
    ASSUME NEW dist \in Nat, dist >= 2
    PROVE  \E n \in 1..dist : Pow2[n] <= dist /\ dist < Pow2[n + 1]
<1> DEFINE Lies(d) == \E n \in 0..d : Pow2[n] <= d /\ d < Pow2[n + 1]
           P == {d \in Nat : d >= 1 => Lies(d)}
<1>1. 0 \in P OBVIOUS
<1>2. \A d \in P : d + 1 \in P
  <2> SUFFICES ASSUME NEW d \in P PROVE Lies(d + 1) OBVIOUS
  <2>1. CASE d = 0
    <3>1. Pow2[0] = 1 /\ Pow2[0 + 1] = 2 * Pow2[0] BY Powers
    <3>2. 0 \in 0..1 /\ Pow2[0] <= 1 /\ 1 < Pow2[0 + 1] BY <3>1
    <3> QED BY <2>1, <3>2
  <2>2. CASE d # 0
    <3>1. d \in Nat /\ d >= 1 /\ Lies(d) BY <2>2
    <3>2. PICK n \in 0..d : Pow2[n] <= d /\ d < Pow2[n + 1] BY <3>1
    <3>3. /\ Pow2[n] \in Nat /\ Pow2[n + 1] \in Nat
          /\ Pow2[(n + 1) + 1] = 2 * Pow2[n + 1]
      BY <3>1, Powers
    <3>4. CASE d + 1 < Pow2[n + 1]
      <4>1. n \in 0..(d + 1) /\ Pow2[n] <= d + 1 BY <3>1, <3>2, <3>3
      <4> QED BY <3>4, <4>1
    <3>5. CASE ~(d + 1 < Pow2[n + 1])
      <4>1. n + 1 \in 0..(d + 1) /\ Pow2[n + 1] <= d + 1 /\ d + 1 < Pow2[(n + 1) + 1]
        BY <3>1, <3>2, <3>3, <3>5
      <4> QED BY <4>1
    <3> QED BY <3>4, <3>5
  <2> QED BY <2>1, <2>2
<1>3. P \in SUBSET Nat OBVIOUS
<1>4. P = Nat
  <2> HIDE DEF P
  <2> QED BY <1>1, <1>2, <1>3, Induct
<1>5. PICK n \in 0..dist : Pow2[n] <= dist /\ dist < Pow2[n + 1] BY <1>4
<1>6. n # 0
  <2>1. Pow2[0 + 1] = 2 * Pow2[0] /\ Pow2[0] = 1 BY Powers
  <2>2. n = 0 => Pow2[n + 1] = 2 BY <2>1
  <2> QED BY <1>5, <2>2
<1>7. n \in 1..dist BY <1>5, <1>6
<1> QED BY <1>5, <1>7

\* The slot of a distance: the place of its highest bit and the bit below that one.
LEMMA SlotIs ==
    ASSUME NEW dist \in Nat, dist >= 2
    PROVE  \E top \in Nat \ {0} :
              /\ Pow2[top] <= dist /\ dist < Pow2[top + 1]
              /\ PosSlot(dist) = 2 * top + BitOf(dist, top - 1)
<1> DEFINE top == CHOOSE n \in 1..dist : Pow2[n] <= dist /\ dist < Pow2[n + 1]
<1>1. top \in 1..dist /\ Pow2[top] <= dist /\ dist < Pow2[top + 1] BY HighestBit
<1>2. PosSlot(dist) = 2 * top + BitOf(dist, top - 1) BY DEF PosSlot
<1> HIDE DEF top
<1>3. top \in Nat \ {0} BY <1>1
<1> QED BY <1>1, <1>2, <1>3

\* The highest bit is where the powers on either side say.
LEMMA BitPlace ==
    ASSUME NEW dist \in Nat, NEW top \in Nat, dist < Pow2[top + 1], NEW n \in Nat, Pow2[n] <= dist
    PROVE  n <= top
<1>1. CASE n > top
  <2>1. top + 1 \in Nat /\ top + 1 <= n BY <1>1
  <2>2. Pow2[top + 1] <= Pow2[n] /\ Pow2[top + 1] \in Nat /\ Pow2[n] \in Nat
    BY <2>1, PowersGrow, Powers
  <2> QED BY <2>2
<1> QED BY <1>1

LEMMA DistBitsIs ==
    ASSUME NEW dist \in Nat, NEW len \in Int
    PROVE  DistBits(dist, len) \in Seq(Coded)
<1> DEFINE slot == PosSlot(dist)
           footer == (slot \div 2) - 1
           base == (2 + (slot % 2)) * Pow2[footer]
           direct == [i \in 1..(footer - AlignBits) |->
                        [ctx |-> Direct, bit |-> BitOf(dist, footer - i)]]
           slots == Tree("slot", LenToPosState(len) * Pow2[SlotBits], SlotBits, slot)
<1>1. /\ SlotBits \in Nat /\ AlignBits \in Nat
      /\ EndPosModelIndex \div 2 > AlignBits + 1 /\ Pow2[SlotBits] \in Nat
      /\ EndPosModelIndex \div 2 \in Nat
  BY CodingParams, Powers
<1>2. "slot" \in Names /\ "spec" \in Names /\ "align" \in Names /\ Direct \in Ctx
  BY DEF Names, Direct, Ctx
<1>3. LenToPosState(len) \in Int BY DEF LenToPosState, Smaller, MatchMinLen
<1>4. DistBits(dist, len) = slots \o
         (IF dist < StartPosModelIndex THEN <<>>
          ELSE IF dist < NumFullDistances THEN ReverseTree("spec", base, footer, dist)
          ELSE direct \o ReverseTree("align", 0, AlignBits, dist))
  BY DEF DistBits
<1>5. CASE dist < 2
  <2>1. slot = dist BY <1>5 DEF PosSlot
  <2>2. DistBits(dist, len) = slots \o <<>>
    <3>1. dist < StartPosModelIndex BY <1>5 DEF StartPosModelIndex
    <3> HIDE DEF slots, direct, footer, base
    <3> QED BY <1>4, <3>1
  <2>3. LenToPosState(len) * Pow2[SlotBits] \in Int BY <1>1, <1>3
  <2> DEFINE x == LenToPosState(len) * Pow2[SlotBits]
  <2> HIDE DEF x
  <2>4. slot \in Int /\ x \in Int BY <2>1, <2>3 DEF x
  <2> HIDE DEF slot
  <2>5. slots \in Seq(Coded) BY <1>1, <1>2, <2>4, TreeIs DEF x
  <2> HIDE DEF slots
  <2> QED BY <2>2, <2>5
<1>6. CASE dist >= 2
  <2>1. PICK top \in Nat \ {0} :
           /\ Pow2[top] <= dist /\ dist < Pow2[top + 1]
           /\ slot = 2 * top + BitOf(dist, top - 1)
    BY <1>6, SlotIs
  <2>2. BitOf(dist, top - 1) \in Bit BY BitOfIs
  <2> HIDE DEF slot
  <2>3. slot \in Nat /\ footer = top - 1 /\ footer \in Nat /\ slot % 2 \in Nat
    BY <2>1, <2>2 DEF Bit
  <2>4. Pow2[footer] \in Nat BY <2>3, Powers
  <2>5. base \in Int /\ 0 \in Int /\ LenToPosState(len) * Pow2[SlotBits] \in Int
    BY <1>1, <1>3, <2>3, <2>4
  <2> HIDE DEF base
  <2>6. /\ slots \in Seq(Coded) /\ ReverseTree("spec", base, footer, dist) \in Seq(Coded)
        /\ ReverseTree("align", 0, AlignBits, dist) \in Seq(Coded)
    <3> DEFINE x == LenToPosState(len) * Pow2[SlotBits]
    <3>1. x \in Int /\ slot \in Int /\ dist \in Int BY <2>3, <2>5
    <3> HIDE DEF x, footer
    <3>2. slots \in Seq(Coded) BY <1>1, <1>2, <3>1, TreeIs DEF x
    <3>3. ReverseTree("spec", base, footer, dist) \in Seq(Coded)
      BY <1>2, <2>3, <2>5, <3>1, ReverseTreeIs
    <3>4. ReverseTree("align", 0, AlignBits, dist) \in Seq(Coded)
      BY <1>1, <1>2, <2>5, <3>1, ReverseTreeIs
    <3> QED BY <3>2, <3>3, <3>4
  <2>7. dist >= NumFullDistances => direct \in Seq(Coded)
    <3> SUFFICES ASSUME dist >= NumFullDistances PROVE direct \in Seq(Coded) OBVIOUS
    <3> DEFINE n == footer - AlignBits
               x(i) == [ctx |-> Direct, bit |-> BitOf(dist, footer - i)]
    <3>1. n \in Nat
      <4>1. Pow2[EndPosModelIndex \div 2] <= dist BY DEF NumFullDistances
      <4>2. EndPosModelIndex \div 2 <= top BY <1>1, <2>1, <4>1, BitPlace
      <4> QED BY <1>1, <2>1, <2>3, <4>2
    <3>2. ASSUME NEW i \in 1..n PROVE x(i) \in Coded
      <4>1. footer - i \in Nat BY <1>1, <2>3
      <4>2. BitOf(dist, footer - i) \in Bit BY <4>1, BitOfIs
      <4> QED BY <1>2, <4>2 DEF Coded
    <3>3. direct = [i \in 1..n |-> x(i)] OBVIOUS
    <3> HIDE DEF x, n, direct
    <3> QED BY <3>1, <3>2, <3>3
  <2> HIDE DEF direct, slots, footer
  <2> DEFINE far == direct \o ReverseTree("align", 0, AlignBits, dist)
  <2>10. dist >= NumFullDistances => far \in Seq(Coded) BY <2>6, <2>7, JoinIs
  <2> HIDE DEF far
  <2>11. NumFullDistances \in Nat BY <1>1, Powers DEF NumFullDistances
  <2>12. CASE dist < StartPosModelIndex
    <3>1. DistBits(dist, len) = slots \o <<>> BY <1>4, <2>12
    <3> QED BY <2>6, <3>1
  <2>13. CASE ~(dist < StartPosModelIndex) /\ dist < NumFullDistances
    <3> DEFINE spec == ReverseTree("spec", base, footer, dist)
    <3>1. DistBits(dist, len) = slots \o spec BY <1>4, <2>13
    <3>2. spec \in Seq(Coded) BY <2>6
    <3> HIDE DEF spec
    <3> QED BY <2>6, <3>1, <3>2, JoinIs
  <2>14. CASE ~(dist < StartPosModelIndex) /\ ~(dist < NumFullDistances)
    <3>1. DistBits(dist, len) = slots \o far BY <1>4, <2>14 DEF far
    <3>2. far \in Seq(Coded) BY <2>10, <2>11, <2>14
    <3> QED BY <2>6, <3>1, <3>2, JoinIs
  <2> QED BY <2>12, <2>13, <2>14
<1> QED BY <1>5, <1>6

\* A packet, and what its contexts depend on.
Packet(pk) ==
    \/ pk.kind = "lit"
    \/ pk.kind = "match" /\ pk.len \in Nat /\ pk.dist \in Nat \ {0}
    \/ pk.kind = "rep" /\ pk.len \in Nat /\ pk.dist \in 0..3
At(at) == at.state \in Int /\ at.posState \in Int /\ at.lit \in Int /\ at.match \in Int

LEMMA PacketBitsIs ==
    ASSUME NEW pk, Packet(pk), NEW at, At(at), NEW byte \in Int
    PROVE  PacketBits(pk, at, byte) \in Seq(Coded)
<1> DEFINE s == at.state
           ps == at.posState
           B(name, j, bit) == D(name, s, j, bit)
           First(bit) == B("isMatch", ps, bit)
           long == IF pk.len = 1 THEN 0 ELSE 1
           lit == IF s < NumLitStates THEN Tree("lit", at.lit, ByteBits, byte)
                  ELSE MatchedTree(at.lit, byte, at.match)
           which == CASE pk.dist = 0 -> <<B("isRepG0", 0, 0), B("isRep0Long", ps, long)>>
                      [] pk.dist = 1 -> <<B("isRepG0", 0, 1), B("isRepG1", 0, 0)>>
                      [] pk.dist > 1 -> <<B("isRepG0", 0, 1), B("isRepG1", 0, 1),
                                          B("isRepG2", 0, pk.dist - 2)>>
           rest == IF pk.len = 1 THEN <<>> ELSE LenBits("repLen", pk.len, ps)
<1>1. s \in Int /\ ps \in Int /\ at.lit \in Int /\ at.match \in Int /\ 0 \in Int /\ ByteBits \in Nat
  BY CodingParams DEF At
<1>2. \A name \in Names, j \in Int, bit \in Bit : B(name, j, bit) \in Coded BY <1>1, CodedIs
<1>3. 0 \in Bit /\ 1 \in Bit BY DEF Bit
<1>4. {"isMatch", "isRep", "isRepG0", "isRepG1", "isRepG2", "isRep0Long", "lit"} \subseteq Names
  BY DEF Names
<1>5. /\ pk.kind = "lit" => PacketBits(pk, at, byte) = <<First(0)>> \o lit
      /\ pk.kind = "match" => PacketBits(pk, at, byte) =
            <<First(1), B("isRep", 0, 0)>>
               \o LenBits("len", pk.len, ps) \o DistBits(pk.dist - 1, pk.len)
      /\ pk.kind = "rep" => PacketBits(pk, at, byte) =
            <<First(1), B("isRep", 0, 1)>> \o which \o rest
  BY DEF PacketBits
<1>6. /\ <<First(0)>> \in Seq(Coded) /\ <<First(1), B("isRep", 0, 0)>> \in Seq(Coded)
      /\ <<First(1), B("isRep", 0, 1)>> \in Seq(Coded)
  <2> HIDE DEF B
  <2>1. /\ First(0) \in Coded /\ First(1) \in Coded /\ B("isRep", 0, 0) \in Coded
        /\ B("isRep", 0, 1) \in Coded
    BY <1>1, <1>2, <1>3, <1>4
  <2> QED BY <2>1
<1>7. CASE pk.kind = "lit"
  <2>1. lit \in Seq(Coded)
    <3>1. Tree("lit", at.lit, ByteBits, byte) \in Seq(Coded) BY <1>1, <1>4, TreeIs
    <3>2. MatchedTree(at.lit, byte, at.match) \in Seq(Coded) BY <1>1, MatchedTreeIs
    <3> QED BY <3>1, <3>2
  <2> HIDE DEF First, lit
  <2> QED BY <1>5, <1>6, <1>7, <2>1, JoinIs
<1>8. CASE pk.kind = "match"
  <2>1. pk.len \in Nat /\ pk.len \in Int /\ pk.dist - 1 \in Nat BY <1>8 DEF Packet
  <2> DEFINE a == <<First(1), B("isRep", 0, 0)>>
             b == LenBits("len", pk.len, ps)
             c == DistBits(pk.dist - 1, pk.len)
  <2>2. b \in Seq(Coded) BY <1>1, <2>1, LenBitsIs
  <2>3. c \in Seq(Coded) BY <2>1, DistBitsIs
  <2>4. a \in Seq(Coded) /\ PacketBits(pk, at, byte) = (a \o b) \o c BY <1>5, <1>6, <1>8
  <2> HIDE DEF a, b, c
  <2>5. a \o b \in Seq(Coded) BY <2>2, <2>4, JoinIs
  <2> QED BY <2>3, <2>4, <2>5, JoinIs
<1>9. CASE pk.kind = "rep"
  <2>1. pk.len \in Nat /\ pk.dist \in 0..3 BY <1>9 DEF Packet
  <2> DEFINE a == <<First(1), B("isRep", 0, 1)>>
  <2>2. which \in Seq(Coded)
    <3>1. long \in Bit BY <1>3
    <3> HIDE DEF B, long
    <3>2. CASE pk.dist = 0
      <4>1. B("isRepG0", 0, 0) \in Coded /\ B("isRep0Long", ps, long) \in Coded
        BY <1>1, <1>2, <1>3, <1>4, <3>1
      <4> QED BY <3>2, <4>1
    <3>3. CASE pk.dist = 1
      <4>1. B("isRepG0", 0, 1) \in Coded /\ B("isRepG1", 0, 0) \in Coded
        BY <1>1, <1>2, <1>3, <1>4
      <4> QED BY <3>3, <4>1
    <3>4. CASE pk.dist > 1
      <4>1. pk.dist - 2 \in Bit BY <2>1, <3>4 DEF Bit
      <4>2. /\ B("isRepG0", 0, 1) \in Coded /\ B("isRepG1", 0, 1) \in Coded
            /\ B("isRepG2", 0, pk.dist - 2) \in Coded
        BY <1>1, <1>2, <1>3, <1>4, <4>1
      <4>3. pk.dist # 0 /\ pk.dist # 1 BY <2>1, <3>4
      <4> QED BY <3>4, <4>2, <4>3
    <3> QED BY <2>1, <3>2, <3>3, <3>4
  <2>3. rest \in Seq(Coded)
    <3>1. LenBits("repLen", pk.len, ps) \in Seq(Coded) BY <1>1, <2>1, LenBitsIs
    <3> QED BY <3>1
  <2>4. a \in Seq(Coded) /\ PacketBits(pk, at, byte) = (a \o which) \o rest
    BY <1>5, <1>6, <1>9
  <2> HIDE DEF a, which, rest
  <2>5. a \o which \in Seq(Coded) BY <2>2, <2>4, JoinIs
  <2> QED BY <2>3, <2>4, <2>5, JoinIs
<1> QED BY <1>7, <1>8, <1>9 DEF Packet

-----------------------------------------------------------------------------
(* The encoder's states *)

Back4 == Nat \ {0}
EncReps == {r \in Seq(Back4) : Len(r) = 4}
EncInv ==
    /\ input \in Inputs /\ pos \in 0..Len(Text) /\ encState \in 0..11
    /\ finished \in BOOLEAN /\ (finished => pos = Len(Text))
    /\ encReps \in EncReps
    /\ \A i \in 1..4 : encReps[i] <= pos \/ encReps[i] = 1
    /\ rc \in Flushed /\ (~finished => rc \in Coding)

LEMMA EncStarts == EncInit => EncInv
<1> SUFFICES ASSUME EncInit PROVE EncInv OBVIOUS
<1>1. /\ input \in Inputs /\ pos = 0 /\ encState = 0 /\ finished = FALSE
      /\ encReps = <<1, 1, 1, 1>>
      /\ rc = [low |-> 0, range |-> Full - 1, cache |-> 0, cacheSize |-> 0, out |-> <<>>,
               probs |-> [c \in {} |-> 0]]
  BY DEF EncInit
<1>2. Text \in Seq(Bytes) BY <1>1, InputsTyped DEF Text, Bytes
<1>3. /\ Byte \in Nat /\ Byte >= 2 /\ Full \in Nat /\ Full >= 2 * Top /\ Top \in Nat /\ Top >= 4
  BY Widths
<1>4. rc \in Coding
  <2>1. [c \in {} |-> 0] \in Learned
    <3>1. [c \in {} |-> 0] \in [{} -> Probs] /\ {} \in SUBSET Ctx OBVIOUS
    <3> QED BY <3>1 DEF Learned
  <2>2. 0 \in Bytes /\ Full - 1 \in Nat /\ <<>> \in Seq(Bytes) BY <1>3 DEF Bytes
  <2>3. rc \in Coder BY <1>1, <2>1, <2>2 DEF Coder
  <2>4. rc.range = Full - 1 /\ rc.low = 0 BY <1>1
  <2>5. Carries(rc, rc.range) BY <1>3, <2>4 DEF Carries
  <2> QED BY <1>3, <2>3, <2>4, <2>5 DEF Coding
<1>5. rc \in Flushed BY <1>4, CodingIsFlushed
<1>6. encReps \in EncReps /\ \A i \in 1..4 : encReps[i] = 1 BY <1>1 DEF EncReps, Back4
<1>7. Len(Text) \in Nat BY <1>2, SequenceIs
<1>8. pos \in 0..Len(Text) /\ encState \in 0..11 /\ finished \in BOOLEAN /\ ~finished
  <2>1. pos = 0 /\ encState = 0 /\ finished = FALSE BY <1>1
  <2>2. 0 \in 0..Len(Text) /\ 0 \in 0..11 BY <1>7
  <2> QED BY <2>1, <2>2
<1> QED BY <1>1, <1>4, <1>5, <1>6, <1>8, Zenon DEF EncInv

LEMMA PacketIs ==
    ASSUME EncInv, pos > 0, NEW pk \in Packets
    PROVE  /\ pos + pk.len <= Len(Text) \/ pk.kind = "lit"
           /\ pk.kind = "lit" => pk.len = 1
           /\ pk.kind = "match" => pk.dist <= pos
           /\ Packet(pk) /\ pk.kind \in {"lit", "match", "rep"} /\ pk.len \in Nat
<1>1. pos \in Nat /\ MatchMinLen \in Nat BY DEF EncInv, MatchMinLen
<1>2. CASE pk = [kind |-> "lit", len |-> 1, dist |-> 0] BY <1>2 DEF Packet
<1>3. CASE pk \in [kind : {"match"}, len : MatchMinLen..MatchMaxLen, dist : 1..pos]
             /\ Reaches(pk.dist, pk.len)
  <2>1. pk.kind = "match" /\ pk.len \in MatchMinLen..MatchMaxLen /\ pk.dist \in 1..pos BY <1>3
  <2>2. pos + pk.len <= Len(Text) BY <1>3 DEF Reaches
  <2> QED BY <1>1, <2>1, <2>2 DEF Packet
<1>4. CASE pk \in [kind : {"rep"}, len : 1..MatchMaxLen, dist : 0..3]
             /\ Reaches(encReps[pk.dist + 1], pk.len)
  <2>1. pk.kind = "rep" /\ pk.len \in 1..MatchMaxLen /\ pk.dist \in 0..3 BY <1>4
  <2>2. pos + pk.len <= Len(Text) BY <1>4 DEF Reaches
  <2> QED BY <1>1, <2>1, <2>2 DEF Packet
<1> QED BY <1>2, <1>3, <1>4 DEF Packets

LEMMA RepsAfterIs ==
    ASSUME NEW reps \in EncReps, NEW pk, Packet(pk), pk.kind \in {"lit", "match", "rep"}
    PROVE  /\ RepsAfter(reps, pk) \in EncReps
           /\ \A i \in 1..4 : \/ \E j \in 1..4 : RepsAfter(reps, pk)[i] = reps[j]
                              \/ pk.kind = "match" /\ RepsAfter(reps, pk)[i] = pk.dist
<1>1. reps \in Seq(Back4) /\ Len(reps) = 4 BY DEF EncReps
<1>2. \A i \in 1..4 : reps[i] \in Back4 BY <1>1, SequenceIs
<1>3. CASE pk.kind = "lit"
  <2>1. RepsAfter(reps, pk) = reps BY <1>3 DEF RepsAfter
  <2> QED BY <2>1
<1>4. CASE pk.kind = "match"
  <2>1. RepsAfter(reps, pk) = <<pk.dist, reps[1], reps[2], reps[3]>> BY <1>4 DEF RepsAfter
  <2>2. pk.dist \in Back4 BY <1>4 DEF Packet, Back4
  <2>3. RepsAfter(reps, pk) \in Seq(Back4) /\ Len(RepsAfter(reps, pk)) = 4
    BY <1>2, <2>1, <2>2
  <2> QED BY <1>4, <2>1, <2>3 DEF EncReps
<1>5. CASE pk.kind = "rep"
  <2> DEFINE a == <<reps[pk.dist + 1]>>
             b == [i \in 1..3 |-> IF i <= pk.dist THEN reps[i] ELSE reps[i + 1]]
  <2>1. RepsAfter(reps, pk) = a \o b BY <1>5 DEF RepsAfter
  <2>2. pk.dist \in 0..3 BY <1>5 DEF Packet
  <2>3. pk.dist + 1 \in 1..4 BY <2>2
  <2>4. a \in Seq(Back4) /\ Len(a) = 1 /\ a[1] = reps[pk.dist + 1] BY <1>2, <2>3
  <2>5. \A i \in 1..3 : b[i] \in {reps[i], reps[i + 1]} /\ b[i] \in Back4
    BY <1>2
  <2>6. b \in Seq(Back4) /\ Len(b) = 3 BY <2>5
  <2> HIDE DEF a, b
  <2>7. /\ a \o b \in Seq(Back4) /\ Len(a \o b) = 4 /\ (a \o b)[1] = a[1]
        /\ \A i \in 2..4 : (a \o b)[i] = b[i - 1]
    <3>0. /\ a \o b \in Seq(Back4) /\ Len(a \o b) = Len(a) + Len(b)
          /\ \A i \in 1..(Len(a) + Len(b)) :
                (a \o b)[i] = IF i <= Len(a) THEN a[i] ELSE b[i - Len(a)]
      BY <2>4, <2>6, ConcatProperties
    <3>1. a \o b \in Seq(Back4) /\ Len(a \o b) = 4 /\ (a \o b)[1] = a[1]
      BY <2>4, <2>6, <3>0
    <3>2. ASSUME NEW i \in 2..4 PROVE (a \o b)[i] = b[i - 1]
      <4>1. i \in 1..(Len(a) + Len(b)) /\ ~(i <= Len(a)) /\ i - Len(a) = i - 1 BY <2>4, <2>6
      <4> QED BY <3>0, <4>1
    <3> QED BY <3>1, <3>2
  <2>8. \A i \in 2..4 : i - 1 \in 1..3 /\ i - 1 \in 1..4 /\ (i - 1) + 1 = i /\ i \in 1..4 OBVIOUS
  <2>9. \A i \in 1..4 : i = 1 \/ i \in 2..4 OBVIOUS
  <2>10. \A i \in 1..4 : \E j \in 1..4 : (a \o b)[i] = reps[j]
    <3> SUFFICES ASSUME NEW i \in 1..4 PROVE \E j \in 1..4 : (a \o b)[i] = reps[j] OBVIOUS
    <3>1. CASE i = 1 BY <2>3, <2>4, <2>7, <3>1
    <3>2. CASE i \in 2..4
      <4>1. (a \o b)[i] = b[i - 1] /\ b[i - 1] \in {reps[i - 1], reps[i]} BY <2>5, <2>7, <2>8, <3>2
      <4> QED BY <2>8, <3>2, <4>1
    <3> QED BY <2>9, <3>1, <3>2
  <2> QED BY <2>1, <2>7, <2>10 DEF EncReps
<1> QED BY <1>3, <1>4, <1>5

LEMMA TextIs ==
    ASSUME EncInv
    PROVE  /\ Text \in Seq(Bytes) /\ Len(Text) \in Nat
           /\ \A i \in 0..(Len(Text) - 1) : ByteAt(i) \in Bytes /\ ByteAt(i) \in Int
<1>1. Text \in Seq(Bytes) BY InputsTyped DEF EncInv, Text, Bytes
<1>2. Len(Text) \in Nat /\ \A i \in 1..Len(Text) : Text[i] \in Bytes BY <1>1, SequenceIs
<1>3. \A i \in 0..(Len(Text) - 1) : i + 1 \in 1..Len(Text) BY <1>2
<1>4. \A i \in 0..(Len(Text) - 1) : ByteAt(i) \in Bytes BY <1>2, <1>3 DEF ByteAt
<1>5. \A b \in Bytes : b \in Int BY Widths DEF Bytes
<1> QED BY <1>1, <1>2, <1>4, <1>5

LEMMA EncAtIs ==
    ASSUME EncInv, pos > 0, pos < Len(Text)
    PROVE  At(EncAt)
<1>1. pos \in Nat /\ encReps \in EncReps /\ (encReps[1] <= pos \/ encReps[1] = 1) /\ encState \in 0..11
  BY TextIs DEF EncInv
<1>2. encReps[1] \in Nat \ {0}
  <2>1. encReps \in Seq(Back4) /\ Len(encReps) = 4 BY <1>1 DEF EncReps
  <2>2. 1 \in 1..Len(encReps) BY <2>1
  <2> QED BY <2>1, <2>2, SequenceIs DEF Back4
<1>3. pos - 1 \in 0..(Len(Text) - 1) /\ pos - encReps[1] \in 0..(Len(Text) - 1)
  BY <1>1, <1>2, TextIs
<1>4. ByteAt(pos - 1) \in Int /\ ByteAt(pos - encReps[1]) \in Int BY <1>3, TextIs
<1>5. PosState(pos) \in Int
  <2> DEFINE m == Pow2[Pb]
  <2>0. Pb \in Nat /\ pos \in Int BY <1>1, CodingParams
  <2>1. m \in Nat \ {0} /\ pos \in Int BY <2>0, Powers
  <2> HIDE DEF m
  <2>2. pos % m \in 0..(m - 1) BY <2>1, DivIs
  <2>3. PosState(pos) = pos % m BY DEF PosState, m
  <2> QED BY <2>1, <2>2, <2>3
<1>6. LitBase(pos, ByteAt(pos - 1)) \in Int
  <2> DEFINE x == pos * Byte + ByteAt(pos - 1)
             m == Pow2[ByteBits + Lp]
             n == Pow2[ByteBits - Lc]
  <2>1. ByteBits + Lp \in Nat /\ ByteBits - Lc \in Nat /\ Lc \in Nat BY CodingParams
  <2>2. m \in Nat \ {0} /\ n \in Nat \ {0} /\ Pow2[Lc] \in Nat /\ x \in Int
    <3>1. m \in Nat \ {0} /\ n \in Nat \ {0} /\ Pow2[Lc] \in Nat BY <2>1, Powers
    <3>2. x \in Int BY <1>1, <1>4, Widths
    <3> QED BY <3>1, <3>2
  <2>3. LitBase(pos, ByteAt(pos - 1)) = 3 * ((x % m) - (x % n)) * Pow2[Lc] BY DEF LitBase
  <2> HIDE DEF x, m, n
  <2>4. x % m \in Int /\ x % n \in Int BY <2>2, DivIs
  <2> QED BY <2>2, <2>3, <2>4
<1> QED BY <1>1, <1>4, <1>5, <1>6 DEF At, EncAt

LEMMA EncodingKeeps ==
    ASSUME EncInv, Encoding
    PROVE  EncInv'
<1>1. /\ Text \in Seq(Bytes) /\ Len(Text) \in Nat /\ pos \in 0..Len(Text) /\ pos \in Nat
      /\ encState \in 0..11 /\ encReps \in EncReps
  BY TextIs DEF EncInv
<1>2. CASE CodeFirst
  <2>1. /\ ~finished /\ pos = 0 /\ Text # <<>> /\ pos' = 1
        /\ UNCHANGED <<input, encState, encReps, finished>>
    BY <1>2 DEF CodeFirst
  <2>2. Len(Text) >= 1 BY <1>1, <2>1
  <2>3. ByteAt(0) \in Int
    <3>1. 0 \in 0..(Len(Text) - 1) BY <2>2, <1>1
    <3> QED BY <3>1, TextIs
  <2> DEFINE a == <<D("isMatch", 0, 0, 0)>>
             b == Tree("lit", 0, ByteBits, ByteAt(0))
  <2>4. rc' = EncodeAll(rc, a \o b) BY <1>2 DEF CodeFirst
  <2>5. "isMatch" \in Names /\ "lit" \in Names /\ 0 \in Bit /\ 0 \in Int /\ ByteBits \in Nat
    BY CodingParams DEF Names, Bit
  <2>6. a \in Seq(Coded)
    <3>1. D("isMatch", 0, 0, 0) \in Coded BY <2>5, CodedIs
    <3> QED BY <3>1
  <2>7. b \in Seq(Coded) BY <2>3, <2>5, TreeIs
  <2> HIDE DEF a, b
  <2>8. a \o b \in Seq(Coded) BY <2>6, <2>7, JoinIs
  <2>9. rc \in Coding BY <2>1 DEF EncInv
  <2>10. rc' \in Coding BY <2>4, <2>8, <2>9, AllKeeps
  <2>11. rc' \in Flushed BY <2>10, CodingIsFlushed
  <2>12. \A i \in 1..4 : encReps[i] <= 1 \/ encReps[i] = 1
    <3>1. encReps \in Seq(Back4) /\ Len(encReps) = 4 BY <1>1 DEF EncReps
    <3>2. \A i \in 1..4 : encReps[i] \in Nat
      <4>1. \A i \in 1..4 : encReps[i] \in Back4 BY <3>1, SequenceIs
      <4> QED BY <4>1 DEF Back4
    <3> QED BY <2>1, <3>2 DEF EncInv
  <2>13. input \in Inputs /\ finished \in BOOLEAN BY DEF EncInv
  <2>14. Text' = Text BY <2>1 DEF Text
  <2>15. pos' \in 0..Len(Text') BY <1>1, <2>1, <2>2, <2>14
  <2> QED BY <1>1, <2>1, <2>10, <2>11, <2>12, <2>13, <2>14, <2>15, Zenon DEF EncInv
<1>3. CASE CodePacket
  <2>1. /\ pos > 0 /\ pos < Len(Text) /\ UNCHANGED <<input, finished>>
    BY <1>3 DEF CodePacket
  <2>2. PICK pk \in Packets :
          /\ rc' = EncodeAll(rc, PacketBits(pk, EncAt, ByteAt(pos)))
          /\ encReps' = RepsAfter(encReps, pk)
          /\ encState' = CASE pk.kind = "lit" -> LiteralNextStates[encState + 1]
                           [] pk.kind = "match" -> MatchNext(encState)
                           [] pk.kind = "rep" -> IF pk.len = 1 THEN ShortRepNext(encState)
                                                ELSE RepNext(encState)
          /\ pos' = pos + pk.len
    BY <1>3 DEF CodePacket
  <2>3. ~finished /\ finished \in BOOLEAN /\ input \in Inputs /\ rc \in Coding
    <3>1. finished => pos = Len(Text) BY DEF EncInv
    <3>2. ~finished BY <1>1, <2>1, <3>1
    <3> QED BY <3>2 DEF EncInv
  <2>4. /\ Packet(pk) /\ pk.kind \in {"lit", "match", "rep"} /\ pk.len \in Nat
        /\ pk.kind = "lit" => pk.len = 1
        /\ pos + pk.len <= Len(Text) \/ pk.kind = "lit"
        /\ pk.kind = "match" => pk.dist <= pos
    BY <2>1, PacketIs
  <2>5. pos' \in 0..Len(Text) /\ pos' \in Nat /\ pos <= pos' BY <1>1, <2>1, <2>2, <2>4
  <2>6. rc' \in Coding
    <3>1. ByteAt(pos) \in Int
      <4>1. pos \in 0..(Len(Text) - 1) BY <1>1, <2>1
      <4> QED BY <4>1, TextIs
    <3>2. At(EncAt) BY <2>1, EncAtIs
    <3> DEFINE ds == PacketBits(pk, EncAt, ByteAt(pos))
    <3>3. ds \in Seq(Coded) BY <2>4, <3>1, <3>2, PacketBitsIs
    <3>4. rc' = EncodeAll(rc, ds) BY <2>2
    <3> HIDE DEF ds
    <3> QED BY <2>3, <3>3, <3>4, AllKeeps
  <2>7. encState' \in 0..11
    <3>1. CASE pk.kind = "lit"
      <4>1. encState' = LiteralNextStates[encState + 1] BY <2>2, <3>1
      <4>2. encState + 1 \in 1..12 BY <1>1
      <4>3. \A i \in 1..12 : LiteralNextStates[i] \in 0..11 BY DEF LiteralNextStates
      <4> QED BY <4>1, <4>2, <4>3
    <3>2. CASE pk.kind = "match"
      <4>1. encState' = MatchNext(encState) BY <2>2, <3>2
      <4> QED BY <4>1 DEF MatchNext
    <3>3. CASE pk.kind = "rep"
      <4>1. encState' \in {ShortRepNext(encState), RepNext(encState)} BY <2>2, <3>3
      <4> QED BY <4>1 DEF ShortRepNext, RepNext
    <3> QED BY <2>4, <3>1, <3>2, <3>3
  <2>8. /\ encReps' \in EncReps
        /\ \A i \in 1..4 : encReps'[i] <= pos' \/ encReps'[i] = 1
    <3>1. /\ encReps' \in EncReps
          /\ \A i \in 1..4 : \/ \E j \in 1..4 : encReps'[i] = encReps[j]
                             \/ pk.kind = "match" /\ encReps'[i] = pk.dist
      BY <1>1, <2>2, <2>4, RepsAfterIs
    <3>2. \A j \in 1..4 : encReps[j] <= pos' \/ encReps[j] = 1
      <4> SUFFICES ASSUME NEW j \in 1..4 PROVE encReps[j] <= pos' \/ encReps[j] = 1 OBVIOUS
      <4>1. encReps[j] <= pos \/ encReps[j] = 1 BY DEF EncInv
      <4>2. encReps \in Seq(Back4) /\ Len(encReps) = 4 BY <1>1 DEF EncReps
      <4>3. encReps[j] \in Nat BY <4>2, SequenceIs DEF Back4
      <4> QED BY <1>1, <2>5, <4>1, <4>3
    <3>3. pk.kind = "match" => pk.dist <= pos' BY <1>1, <2>4, <2>5 DEF Packet
    <3> QED BY <3>1, <3>2, <3>3
  <2>9. rc' \in Flushed BY <2>6, CodingIsFlushed
  <2>10. Text' = Text BY <2>1 DEF Text
  <2> QED BY <2>1, <2>3, <2>5, <2>6, <2>7, <2>8, <2>9, <2>10, Zenon DEF EncInv
<1>4. CASE Flush
  <2>1. /\ pos = Len(Text) /\ rc' = FlushData(rc) /\ finished' = TRUE
        /\ UNCHANGED <<input, pos, encState, encReps>>
    BY <1>4 DEF Flush
  <2>2. rc' \in Flushed BY <2>1, FlushKeeps DEF EncInv
  <2>3. Text' = Text BY <2>1 DEF Text
  <2>4. input \in Inputs /\ \A i \in 1..4 : encReps[i] <= pos \/ encReps[i] = 1 BY DEF EncInv
  <2> QED BY <1>1, <2>1, <2>2, <2>3, <2>4, Zenon DEF EncInv
<1> QED BY <1>2, <1>3, <1>4 DEF Encoding

-----------------------------------------------------------------------------
(* The range decoder *)

At4 == [state : Int, posState : Int, lit : Int, match : Int]
Regs ==
    {r \in [range : Nat, code : Nat, probs : Learned, buf : Seq(Bytes), used : Nat, bit : Bit,
            at : At4] :
        r.range >= Byte * Byte /\ r.range < Full /\ r.code < Full}

\* s is r after some bits.
Later(r, s) == r \in Regs /\ s \in Regs /\ s.buf = r.buf /\ s.at = r.at /\ r.used <= s.used

\* Where r is, counted from u, is one of the worst cases W.
Meets(W, r, u) == \E w \in W : r.used = u + w.used /\ w.range <= r.range
States == [used : Nat, range : Nat]
Chain(c, n) ==
    /\ c \in [0..n -> SUBSET States]
    /\ \A k \in 1..n : c[k - 1] \subseteq c[k] /\ AfterBit(c[k - 1]) \subseteq c[k]
DirectChain(c, n) ==
    /\ c \in [0..n -> SUBSET States]
    /\ \A k \in 1..n : c[k - 1] \subseteq c[k] /\ AfterDirect(c[k - 1]) \subseteq c[k]

\* From r to s it costs no more than a bits.
Costs(r, s, a) ==
    \A c : \A n \in Nat, k \in Nat, u \in Nat :
        Chain(c, n) /\ k + a <= n /\ Meets(c[k], r, u) => Meets(c[k + a], s, u)
CostsDirect(r, s, a) ==
    \A c : \A n \in Nat, k \in Nat, u \in Nat :
        DirectChain(c, n) /\ k + a <= n /\ Meets(c[k], r, u) => Meets(c[k + a], s, u)

\* Two decoders whose buffers begin with the same L bytes do the same as long as they read
\* no more than these.
Agree(r, s) ==
    r.range = s.range /\ r.code = s.code /\ r.probs = s.probs /\ r.used = s.used /\ r.bit = s.bit
Twin(L, r, s) ==
    /\ L \in Nat /\ r \in Regs /\ s \in Regs /\ r.at = s.at
    /\ L <= Len(r.buf) /\ L <= Len(s.buf) /\ \A i \in 1..L : r.buf[i] = s.buf[i]
    /\ r.used <= L \/ s.used <= L => Agree(r, s)

LEMMA RegsAre ==
    ASSUME NEW r \in Regs
    PROVE  /\ r.range \in Nat /\ r.code \in Nat /\ r.probs \in Learned /\ r.buf \in Seq(Bytes)
           /\ r.used \in Nat /\ r.bit \in Bit /\ r.at \in At4
           /\ r.range >= Byte * Byte /\ r.range < Full /\ r.code < Full
           /\ Len(r.buf) \in Nat
<1>1. r.buf \in Seq(Bytes) BY DEF Regs
<1> QED BY <1>1, SequenceIs DEF Regs

\* The byte that is read next, and what it makes of the code.
Coming(r) == IF r.used < Len(r.buf) THEN r.buf[r.used + 1] ELSE 0
LEMMA NormIs ==
    ASSUME NEW r \in Regs
    PROVE  /\ Norm(r) \in Regs /\ Norm(r).range >= Top /\ Later(r, Norm(r))
           /\ Norm(r).probs = r.probs /\ Norm(r).bit = r.bit
           /\ r.range >= Top => Norm(r) = r
           /\ r.range < Top => /\ Norm(r).range = r.range * Byte /\ Norm(r).used = r.used + 1
                               /\ Norm(r).code = (r.code * Byte + Coming(r)) % Full
<1>1. /\ Byte \in Nat /\ Byte >= 2 /\ Top \in Nat /\ Top = Byte * (Byte * Byte)
      /\ Full \in Nat /\ Full = Byte * Top /\ Byte * Byte \in Nat
  BY Widths
<1>2. /\ r.range \in Nat /\ r.code \in Nat /\ r.probs \in Learned /\ r.buf \in Seq(Bytes)
      /\ r.used \in Nat /\ r.bit \in Bit /\ r.at \in At4
      /\ r.range >= Byte * Byte /\ r.range < Full /\ Len(r.buf) \in Nat
  BY RegsAre
<1>3. CASE r.range >= Top
  <2>1. ~(r.range < Top) BY <1>1, <1>2, <1>3
  <2>2. Norm(r) = r BY <2>1 DEF Norm
  <2> QED BY <1>2, <1>3, <2>1, <2>2 DEF Later
<1>4. CASE r.range < Top
  <2> DEFINE b == Coming(r)
             w == r.range * Byte
             c == (r.code * Byte + b) % Full
  <2>1. b \in Bytes /\ b \in Nat /\ b < Byte
    <3>1. CASE r.used < Len(r.buf)
      <4>1. r.used + 1 \in 1..Len(r.buf) BY <1>2, <3>1
      <4>2. r.buf[r.used + 1] \in Bytes BY <1>2, <4>1, SequenceIs
      <4> QED BY <1>1, <3>1, <4>2 DEF Coming, Bytes
    <3>2. CASE ~(r.used < Len(r.buf)) BY <1>1, <3>2 DEF Coming, Bytes
    <3> QED BY <3>1, <3>2
  <2>2. Norm(r) = [r EXCEPT !.range = w, !.used = @ + 1, !.code = c]
    BY <1>4 DEF Norm, Coming
  <2> HIDE DEF b
  <2>3. w \in Nat /\ w >= Top /\ w < Full
    <3>1. Byte * (r.range + 1) <= Byte * Top BY <1>1, <1>2, <1>4, TimesGrow
    <3>2. Byte * (Byte * Byte) <= Byte * r.range BY <1>1, <1>2, TimesGrow
    <3>3. Byte * (r.range + 1) = w + Byte /\ Byte * r.range = w /\ w \in Nat BY <1>1, <1>2
    <3> QED BY <1>1, <3>1, <3>2, <3>3
  <2>4. c \in Nat /\ c < Full
    <3> DEFINE x == r.code * Byte + b
    <3>1. x \in Int /\ Full \in Nat \ {0} BY <1>1, <1>2, <2>1
    <3> HIDE DEF x
    <3>2. x % Full \in 0..(Full - 1) BY <3>1, DivIs
    <3>3. c = x % Full BY DEF x
    <3> QED BY <1>1, <3>2, <3>3
  <2> HIDE DEF c, w
  <2> DEFINE n == Norm(r)
  <2>6. /\ n.range = w /\ n.used = r.used + 1 /\ n.code = c /\ n.probs = r.probs
        /\ n.bit = r.bit /\ n.buf = r.buf /\ n.at = r.at
        /\ n \in [range : Nat, code : Nat, probs : Learned, buf : Seq(Bytes), used : Nat,
                  bit : Bit, at : At4]
    <3>1. n = [r EXCEPT !.range = w, !.used = r.used + 1, !.code = c] BY <2>2
    <3>2. r.used + 1 \in Nat BY <1>2
    <3>3. r \in [range : Nat, code : Nat, probs : Learned, buf : Seq(Bytes), used : Nat,
                 bit : Bit, at : At4]
      BY DEF Regs
    <3> HIDE DEF n
    <3>4. n \in [range : Nat, code : Nat, probs : Learned, buf : Seq(Bytes), used : Nat,
                  bit : Bit, at : At4]
      BY <2>3, <2>4, <3>1, <3>2, <3>3, Zenon
    <3>5. /\ n.range = w /\ n.used = r.used + 1 /\ n.code = c /\ n.probs = r.probs
          /\ n.bit = r.bit /\ n.buf = r.buf /\ n.at = r.at
      BY <3>1, <3>3
    <3> QED BY <3>4, <3>5
  <2> HIDE DEF n
  <2>7. n.range >= Byte * Byte
    <3>1. (Byte * Byte) * 1 <= (Byte * Byte) * Byte BY <1>1, TimesGrow
    <3>2. (Byte * Byte) * Byte = Top BY <1>1
    <3> QED BY <1>1, <2>3, <2>6, <3>1, <3>2
  <2>8. n \in Regs BY <2>3, <2>4, <2>6, <2>7 DEF Regs
  <2>9. Later(r, n) BY <1>2, <2>6, <2>8 DEF Later
  <2>10. ~(r.range >= Top) BY <1>1, <1>2, <1>4
  <2>11. /\ n.range = r.range * Byte /\ n.used = r.used + 1
         /\ n.code = (r.code * Byte + Coming(r)) % Full
    BY <2>6 DEF w, c, b
  <2> QED BY <2>3, <2>6, <2>8, <2>9, <2>10, <2>11 DEF n
<1> QED BY <1>1, <1>2, <1>3, <1>4

LEMMA NormMeets ==
    ASSUME NEW r \in Regs, NEW w \in States, NEW u \in Nat, r.used = u + w.used, w.range <= r.range
    PROVE  \E x \in Normed(w) :
              x \in States /\ Norm(r).used = u + x.used /\ x.range <= Norm(r).range
                /\ Norm(r).range >= Top
<1>1. Byte \in Nat /\ Byte >= 2 /\ Top \in Nat BY Widths
<1>2. r.range \in Nat /\ r.used \in Nat /\ w.used \in Nat /\ w.range \in Nat
  BY RegsAre DEF States
<1>3. /\ r.range >= Top => Norm(r) = r
      /\ r.range < Top => Norm(r).range = r.range * Byte /\ Norm(r).used = r.used + 1
      /\ Norm(r).range >= Top
  BY NormIs
<1>4. CASE r.range < Top
  <2> DEFINE x == [used |-> w.used + 1, range |-> w.range * Byte]
  <2>1. w.range < Top BY <1>1, <1>2, <1>4
  <2>2. x \in Normed(w) BY <2>1 DEF Normed
  <2>3. Byte * w.range <= Byte * r.range BY <1>1, <1>2, TimesGrow
  <2>4. Byte * w.range = w.range * Byte /\ Byte * r.range = r.range * Byte /\ w.range * Byte \in Nat
    BY <1>1, <1>2
  <2>5. x.range = w.range * Byte /\ x.used = w.used + 1 /\ x \in States BY <1>2, <2>4 DEF States
  <2>6. x.range <= Norm(r).range BY <1>3, <1>4, <2>3, <2>4, <2>5
  <2>7. Norm(r).used = u + x.used BY <1>2, <1>3, <1>4, <2>5
  <2> HIDE DEF x
  <2> QED BY <1>3, <2>2, <2>5, <2>6, <2>7
<1>5. CASE ~(r.range < Top) /\ w.range < Top
  <2> DEFINE x == [used |-> w.used, range |-> Top]
  <2>1. x \in Normed(w) BY <1>5 DEF Normed
  <2>2. x.range = Top /\ x.used = w.used /\ x \in States BY <1>1, <1>2 DEF States
  <2>3. Norm(r) = r BY <1>1, <1>2, <1>3, <1>5
  <2> HIDE DEF x
  <2> QED BY <1>3, <2>1, <2>2, <2>3
<1>6. CASE ~(r.range < Top) /\ ~(w.range < Top)
  <2>1. w \in Normed(w) BY <1>6 DEF Normed
  <2>2. Norm(r) = r BY <1>1, <1>2, <1>3, <1>6
  <2> QED BY <1>3, <2>1, <2>2
<1> QED BY <1>4, <1>5, <1>6

\* What a bit of range leaves is no less than the least.
LEMMA LeastPart ==
    ASSUME NEW x \in Nat, NEW range \in Nat, x <= range, NEW prob \in Probs
    PROVE  /\ (x \div Total) * LeastProb <= (range \div Total) * prob
           /\ (x \div Total) * LeastProb <= range - (range \div Total) * prob
<1> DEFINE a == x \div Total
           q == range \div Total
<1>1. Total \in Nat \ {0} /\ LeastProb \in Nat \ {0} BY Widths
<1>2. /\ prob \in Nat /\ Total - prob \in Nat /\ LeastProb <= prob /\ LeastProb <= Total - prob
  BY <1>1 DEF Probs
<1>3. /\ a \in Nat /\ x % Total \in Nat /\ x = Total * a + (x % Total)
      /\ q \in Nat /\ range % Total \in Nat /\ range = Total * q + (range % Total)
  BY <1>1, DivIs
<1>4. a <= q
  <2>1. Total * a <= range BY <1>1, <1>3
  <2> HIDE DEF a
  <2> QED BY <1>1, <1>3, <2>1, DivGrows
<1> HIDE DEF a, q
<1>5. \A y \in Nat : LeastProb <= y => a * LeastProb <= q * y
  <2> SUFFICES ASSUME NEW y \in Nat, LeastProb <= y PROVE a * LeastProb <= q * y OBVIOUS
  <2>1. a * LeastProb <= a * y BY <1>1, <1>3, TimesGrow
  <2>2. y * a <= y * q BY <1>1, <1>3, <1>4, TimesGrow
  <2>3. y * a = a * y /\ y * q = q * y /\ a * y \in Nat /\ q * y \in Nat /\ a * LeastProb \in Nat
    BY <1>1, <1>3
  <2> QED BY <2>1, <2>2, <2>3
<1>6. a * LeastProb <= q * prob /\ a * LeastProb <= q * (Total - prob) BY <1>2, <1>5
<1>7. q * (Total - prob) = Total * q - q * prob /\ q * prob \in Nat /\ a * LeastProb \in Nat
  BY <1>1, <1>2, <1>3
<1> QED BY <1>1, <1>3, <1>6, <1>7 DEF a, q

LEMMA BitIs ==
    ASSUME NEW r \in Regs, NEW ctx \in Ctx
    PROVE  LET d == DecodeBit(r, ctx)
               n == Norm(r)
               prob == ProbOf(r.probs, ctx)
               bound == (n.range \div Total) * prob
           IN  /\ Later(r, d) /\ Costs(r, d, 1) /\ d.used = n.used
               /\ n.code < bound => /\ d.bit = 0 /\ d.range = bound /\ d.code = n.code
                                    /\ d.probs = Learn(r.probs, ctx, After0(prob))
               /\ ~(n.code < bound) =>
                     /\ d.bit = 1 /\ d.range = n.range - bound /\ d.code = n.code - bound
                     /\ d.probs = Learn(r.probs, ctx, After1(prob))
<1> DEFINE d == DecodeBit(r, ctx)
           n == Norm(r)
           prob == ProbOf(r.probs, ctx)
           bound == (n.range \div Total) * prob
<1>1. /\ n \in Regs /\ n.range >= Top /\ Later(r, n) /\ n.probs = r.probs
  BY NormIs
<1>2. /\ n.range \in Nat /\ n.code \in Nat /\ n.probs \in Learned /\ n.code < Full
      /\ n.used \in Nat /\ n.range < Full
  BY <1>1, RegsAre
<1>3. prob \in Probs /\ \A x \in Probs : Learn(r.probs, ctx, x) \in Learned
  <2>1. r.probs \in Learned BY RegsAre
  <2> QED BY <2>1, Learns
<1>4. After0(prob) \in Probs /\ After1(prob) \in Probs
  <2> HIDE DEF prob
  <2> QED BY <1>3, ProbsMove
<1>5. /\ bound \in Nat /\ bound >= Byte * Byte /\ n.range - bound >= Byte * Byte
      /\ Byte * Byte \in Nat /\ Full \in Nat
  <2> HIDE DEF prob, n
  <2> QED BY <1>1, <1>2, <1>3, RangeSplit, Widths
<1>6. d = IF n.code < bound
            THEN [n EXCEPT !.range = bound, !.bit = 0, !.probs = Learn(@, ctx, After0(prob))]
            ELSE [n EXCEPT !.range = @ - bound, !.code = @ - bound, !.bit = 1,
                           !.probs = Learn(@, ctx, After1(prob))]
  <2>1. prob = ProbOf(n.probs, ctx) BY <1>1
  <2> QED BY <2>1 DEF DecodeBit, With
<1>7. n \in [range : Nat, code : Nat, probs : Learned, buf : Seq(Bytes), used : Nat, bit : Bit,
             at : At4]
  BY <1>1 DEF Regs
<1> HIDE DEF n, prob, bound, d
<1>8. /\ d \in Regs /\ d.buf = n.buf /\ d.at = n.at /\ d.used = n.used
      /\ d.range \in {bound, n.range - bound}
      /\ n.code < bound => /\ d.bit = 0 /\ d.range = bound /\ d.code = n.code
                           /\ d.probs = Learn(n.probs, ctx, After0(prob))
      /\ ~(n.code < bound) => /\ d.bit = 1 /\ d.range = n.range - bound /\ d.code = n.code - bound
                              /\ d.probs = Learn(n.probs, ctx, After1(prob))
  <2> DEFINE p0 == Learn(n.probs, ctx, After0(prob))
             p1 == Learn(n.probs, ctx, After1(prob))
  <2>1. p0 \in Learned /\ p1 \in Learned BY <1>1, <1>3, <1>4
  <2>2. CASE n.code < bound
    <3>1. d = [n EXCEPT !.range = bound, !.bit = 0, !.probs = p0] BY <1>6, <2>2
    <3> HIDE DEF p0, p1
    <3>2. /\ d.range = bound /\ d.bit = 0 /\ d.probs = p0 /\ d.code = n.code /\ d.used = n.used
          /\ d.buf = n.buf /\ d.at = n.at
          /\ d \in [range : Nat, code : Nat, probs : Learned, buf : Seq(Bytes), used : Nat,
                    bit : Bit, at : At4]
      BY <1>5, <1>7, <2>1, <3>1 DEF Bit
    <3>3. d.range < Full /\ d.code < Full BY <1>2, <1>5, <2>2, <3>2
    <3> QED BY <1>5, <2>2, <3>2, <3>3 DEF Regs, p0
  <2>3. CASE ~(n.code < bound)
    <3> DEFINE w == n.range - bound
               c == n.code - bound
    <3>1. d = [n EXCEPT !.range = w, !.code = c, !.bit = 1, !.probs = p1] BY <1>6, <2>3
    <3>2. w \in Nat /\ c \in Nat /\ c < Full /\ w < Full /\ w >= Byte * Byte BY <1>2, <1>5, <2>3
    <3> HIDE DEF p0, p1, w, c
    <3>3. /\ d.range = w /\ d.bit = 1 /\ d.probs = p1 /\ d.code = c /\ d.used = n.used
          /\ d.buf = n.buf /\ d.at = n.at
          /\ d \in [range : Nat, code : Nat, probs : Learned, buf : Seq(Bytes), used : Nat,
                    bit : Bit, at : At4]
      BY <1>7, <2>1, <3>1, <3>2 DEF Bit
    <3> QED BY <2>3, <3>2, <3>3 DEF Regs, p1, w, c
  <2> QED BY <2>2, <2>3
<1>9. Later(r, d) BY <1>1, <1>8 DEF Later
<1>10. Costs(r, d, 1)
  <2> SUFFICES ASSUME NEW c, NEW m \in Nat, NEW k \in Nat, NEW u \in Nat,
                      Chain(c, m), k + 1 <= m, Meets(c[k], r, u)
               PROVE  Meets(c[k + 1], d, u)
    BY DEF Costs
  <2>1. /\ c[k] \in SUBSET States /\ AfterBit(c[k]) \subseteq c[k + 1]
    <3>1. k \in 0..m /\ k + 1 \in 1..m /\ (k + 1) - 1 = k OBVIOUS
    <3> QED BY <3>1 DEF Chain
  <2>2. PICK w \in c[k] : r.used = u + w.used /\ w.range <= r.range BY DEF Meets
  <2>3. w \in States BY <2>1
  <2>4. PICK x \in Normed(w) : x \in States /\ n.used = u + x.used /\ x.range <= n.range
    <3>1. \E x \in Normed(w) : x \in States /\ n.used = u + x.used /\ x.range <= n.range
      BY <2>2, <2>3, NormMeets DEF n
    <3> QED BY <3>1
  <2> DEFINE y == [used |-> x.used, range |-> (x.range \div Total) * LeastProb]
  <2>5. y \in AfterBit(c[k]) BY <2>4 DEF AfterBit
  <2>6. x.range \in Nat /\ x.used \in Nat BY <2>4 DEF States
  <2>7. /\ (x.range \div Total) * LeastProb <= bound
        /\ (x.range \div Total) * LeastProb <= n.range - bound
    BY <1>2, <1>3, <2>4, <2>6, LeastPart DEF bound
  <2>8. y.range <= d.range /\ d.used = u + y.used BY <1>8, <2>4, <2>7
  <2> HIDE DEF y
  <2>9. y \in c[k + 1] BY <2>1, <2>5
  <2> QED BY <2>8, <2>9 DEF Meets
<1> QED BY <1>1, <1>8, <1>9, <1>10 DEF n, prob, bound, d

LEMMA DirectBitIs ==
    ASSUME NEW r \in Regs
    PROVE  LET d == DirectBit(r)
               n == Norm(r)
               half == n.range \div 2
           IN  /\ Later(r, d) /\ CostsDirect(r, d, 1) /\ d.used = n.used
               /\ d.range = half /\ d.probs = r.probs
               /\ n.code < half => d.bit = 0 /\ d.code = n.code
               /\ ~(n.code < half) => d.bit = 1 /\ d.code = n.code - half
<1> DEFINE d == DirectBit(r)
           n == Norm(r)
           half == n.range \div 2
<1>1. /\ n \in Regs /\ n.range >= Top /\ Later(r, n) /\ n.probs = r.probs
  BY NormIs
<1>2. /\ n.range \in Nat /\ n.code \in Nat /\ n.code < Full /\ n.used \in Nat /\ n.range < Full
  BY <1>1, RegsAre
<1>3. Byte * Byte \in Nat /\ Top \in Nat /\ Top >= 2 * (Byte * Byte) /\ Full \in Nat BY Widths
<1>4. d = IF n.code >= half THEN [n EXCEPT !.range = half, !.code = @ - half, !.bit = 1]
          ELSE [n EXCEPT !.range = half, !.bit = 0]
  BY DEF DirectBit, With
<1>5. n \in [range : Nat, code : Nat, probs : Learned, buf : Seq(Bytes), used : Nat, bit : Bit,
             at : At4]
  BY <1>1 DEF Regs
<1> HIDE DEF n, d
<1>6. half \in Nat /\ half <= n.range /\ half >= Byte * Byte
  BY <1>1, <1>2, <1>3
<1> HIDE DEF half
<1>7. /\ d \in Regs /\ d.buf = n.buf /\ d.at = n.at /\ d.used = n.used /\ d.probs = n.probs
      /\ d.range = half
      /\ n.code < half => d.bit = 0 /\ d.code = n.code
      /\ ~(n.code < half) => d.bit = 1 /\ d.code = n.code - half
  <2>1. CASE n.code < half
    <3>1. d = [n EXCEPT !.range = half, !.bit = 0] BY <1>2, <1>4, <1>6, <2>1
    <3>2. /\ d.range = half /\ d.bit = 0 /\ d.probs = n.probs /\ d.code = n.code
          /\ d.used = n.used /\ d.buf = n.buf /\ d.at = n.at
          /\ d \in [range : Nat, code : Nat, probs : Learned, buf : Seq(Bytes), used : Nat,
                    bit : Bit, at : At4]
      BY <1>5, <1>6, <3>1 DEF Bit
    <3>3. d.range < Full /\ d.code < Full BY <1>2, <1>3, <1>6, <2>1, <3>2
    <3> QED BY <1>6, <2>1, <3>2, <3>3 DEF Regs
  <2>2. CASE ~(n.code < half)
    <3> DEFINE c == n.code - half
    <3>1. d = [n EXCEPT !.range = half, !.code = c, !.bit = 1] BY <1>2, <1>4, <1>6, <2>2
    <3>2. c \in Nat /\ c < Full /\ half < Full BY <1>2, <1>3, <1>6, <2>2
    <3> HIDE DEF c
    <3>3. /\ d.range = half /\ d.bit = 1 /\ d.probs = n.probs /\ d.code = c
          /\ d.used = n.used /\ d.buf = n.buf /\ d.at = n.at
          /\ d \in [range : Nat, code : Nat, probs : Learned, buf : Seq(Bytes), used : Nat,
                    bit : Bit, at : At4]
      BY <1>5, <1>6, <3>1, <3>2 DEF Bit
    <3> QED BY <1>6, <2>2, <3>2, <3>3 DEF Regs, c
  <2> QED BY <2>1, <2>2
<1>8. Later(r, d) BY <1>1, <1>7 DEF Later
<1>9. CostsDirect(r, d, 1)
  <2> SUFFICES ASSUME NEW c, NEW m \in Nat, NEW k \in Nat, NEW u \in Nat,
                      DirectChain(c, m), k + 1 <= m, Meets(c[k], r, u)
               PROVE  Meets(c[k + 1], d, u)
    BY DEF CostsDirect
  <2>1. /\ c[k] \in SUBSET States /\ AfterDirect(c[k]) \subseteq c[k + 1]
    <3>1. k \in 0..m /\ k + 1 \in 1..m /\ (k + 1) - 1 = k OBVIOUS
    <3> QED BY <3>1 DEF DirectChain
  <2>2. PICK w \in c[k] : r.used = u + w.used /\ w.range <= r.range BY DEF Meets
  <2>3. w \in States BY <2>1
  <2>4. PICK x \in Normed(w) : x \in States /\ n.used = u + x.used /\ x.range <= n.range
    <3>1. \E x \in Normed(w) : x \in States /\ n.used = u + x.used /\ x.range <= n.range
      BY <2>2, <2>3, NormMeets DEF n
    <3> QED BY <3>1
  <2> DEFINE y == [used |-> x.used, range |-> x.range \div 2]
  <2>5. y \in AfterDirect(c[k]) BY <2>4 DEF AfterDirect
  <2>6. x.range \in Nat /\ x.used \in Nat BY <2>4 DEF States
  <2>7. x.range \div 2 <= half BY <1>2, <2>4, <2>6 DEF half
  <2>8. y.range <= d.range /\ d.used = u + y.used BY <1>7, <2>4, <2>7
  <2> HIDE DEF y
  <2>9. y \in c[k + 1] BY <2>1, <2>5
  <2> QED BY <2>8, <2>9 DEF Meets
<1> QED BY <1>1, <1>7, <1>8, <1>9 DEF n, half, d

\* Costs and times add up.
LEMMA LaterIs ==
    ASSUME NEW r, NEW s, NEW x, Later(r, s), Later(s, x)
    PROVE  Later(r, x)
<1>1. r.used \in Nat /\ s.used \in Nat /\ x.used \in Nat BY RegsAre DEF Later
<1> QED BY <1>1 DEF Later

LEMMA CostsAdd ==
    ASSUME NEW r, NEW s, NEW x, NEW a \in Nat, NEW b \in Nat, Costs(r, s, a), Costs(s, x, b)
    PROVE  Costs(r, x, a + b)
<1> SUFFICES ASSUME NEW c, NEW n \in Nat, NEW k \in Nat, NEW u \in Nat,
                    Chain(c, n), k + (a + b) <= n, Meets(c[k], r, u)
             PROVE  Meets(c[k + (a + b)], x, u)
  BY DEF Costs
<1>1. k + a \in Nat /\ k + a <= n /\ (k + a) + b <= n /\ (k + a) + b = k + (a + b) OBVIOUS
<1>2. Meets(c[k + a], s, u) BY <1>1 DEF Costs
<1>3. Meets(c[(k + a) + b], x, u) BY <1>1, <1>2 DEF Costs
<1> QED BY <1>1, <1>3

LEMMA CostsNothing ==
    ASSUME NEW r
    PROVE  Costs(r, r, 0) /\ CostsDirect(r, r, 0)
BY DEF Costs, CostsDirect

LEMMA ChainGrows ==
    ASSUME NEW c, NEW n \in Nat, Chain(c, n) \/ DirectChain(c, n), NEW k \in Nat, NEW m \in Nat,
           k <= m, m <= n
    PROVE  c[k] \subseteq c[m]
<1> DEFINE P == {i \in Nat : k + i <= n => c[k] \subseteq c[k + i]}
<1>1. 0 \in P OBVIOUS
<1>2. \A i \in P : i + 1 \in P
  <2> SUFFICES ASSUME NEW i \in P, k + (i + 1) <= n PROVE c[k] \subseteq c[k + (i + 1)] OBVIOUS
  <2>1. i \in Nat /\ k + i <= n /\ k + (i + 1) \in 1..n /\ (k + (i + 1)) - 1 = k + i OBVIOUS
  <2>2. c[k] \subseteq c[k + i] BY <2>1
  <2>3. c[(k + (i + 1)) - 1] \subseteq c[k + (i + 1)] BY <2>1 DEF Chain, DirectChain
  <2> QED BY <2>1, <2>2, <2>3
<1>3. P \in SUBSET Nat OBVIOUS
<1>4. P = Nat
  <2> HIDE DEF P
  <2> QED BY <1>1, <1>2, <1>3, Induct
<1>5. m - k \in Nat /\ k + (m - k) = m OBVIOUS
<1> QED BY <1>4, <1>5

LEMMA CostsMore ==
    ASSUME NEW r, NEW s, NEW a \in Nat, NEW b \in Nat, a <= b
    PROVE  /\ Costs(r, s, a) => Costs(r, s, b)
           /\ CostsDirect(r, s, a) => CostsDirect(r, s, b)
<1>1. ASSUME NEW c, NEW n \in Nat, NEW k \in Nat, NEW u \in Nat,
             Chain(c, n) \/ DirectChain(c, n), k + b <= n, Meets(c[k + a], s, u)
      PROVE  Meets(c[k + b], s, u)
  <2>1. k + a \in Nat /\ k + b \in Nat /\ k + a <= k + b OBVIOUS
  <2>2. c[k + a] \subseteq c[k + b] BY <1>1, <2>1, ChainGrows
  <2> QED BY <1>1, <2>2 DEF Meets
<1>2. \A n \in Nat, k \in Nat : k + b <= n => k + a <= n OBVIOUS
<1>3. Costs(r, s, a) => Costs(r, s, b) BY <1>1, <1>2 DEF Costs
<1>4. CostsDirect(r, s, a) => CostsDirect(r, s, b) BY <1>1, <1>2 DEF CostsDirect
<1> QED BY <1>3, <1>4

-----------------------------------------------------------------------------
(* Two decoders on the same bytes *)

LEMMA TwinIs ==
    ASSUME NEW L, NEW r, NEW s, Twin(L, r, s)
    PROVE  /\ L \in Nat /\ r \in Regs /\ s \in Regs /\ r.at = s.at
           /\ r.used \in Nat /\ s.used \in Nat
           /\ r.used <= L <=> s.used <= L
           /\ r.used <= L => Agree(r, s)
BY RegsAre DEF Twin, Agree

\* Once one of them has read more, the other one has.
LEMMA TwinLater ==
    ASSUME NEW L, NEW r, NEW s, Twin(L, r, s), NEW x, NEW y, Later(r, x), Later(s, y),
           x.used <= L \/ y.used <= L => Agree(x, y)
    PROVE  Twin(L, x, y)
BY DEF Twin, Later

LEMMA TwinLate ==
    ASSUME NEW L, NEW r, NEW s, Twin(L, r, s), NEW x, NEW y, Later(r, x), Later(s, y),
           ~(r.used <= L)
    PROVE  Twin(L, x, y) /\ ~(x.used <= L)
<1>1. L \in Nat /\ r.used \in Nat /\ s.used \in Nat /\ ~(s.used <= L) BY TwinIs
<1>2. x.used \in Nat /\ y.used \in Nat /\ r.used <= x.used /\ s.used <= y.used
  BY RegsAre DEF Later
<1>3. ~(x.used <= L) /\ ~(y.used <= L) BY <1>1, <1>2
<1> QED BY <1>3, TwinLater

LEMMA TwinNorm ==
    ASSUME NEW L, NEW r, NEW s, Twin(L, r, s)
    PROVE  Twin(L, Norm(r), Norm(s))
<1>1. /\ L \in Nat /\ r \in Regs /\ s \in Regs /\ r.used \in Nat /\ s.used \in Nat
      /\ r.used <= L <=> s.used <= L
      /\ r.used <= L => Agree(r, s)
  BY TwinIs
<1>2. Later(r, Norm(r)) /\ Later(s, Norm(s)) BY <1>1, NormIs
<1>3. CASE ~(r.used <= L) BY <1>2, <1>3, TwinLate
<1>4. CASE r.used <= L
  <2>1. /\ r.range = s.range /\ r.code = s.code /\ r.probs = s.probs /\ r.used = s.used
        /\ r.bit = s.bit
    BY <1>1, <1>4 DEF Agree
  <2>2. r.range \in Nat /\ Top \in Nat BY <1>1, RegsAre, Widths
  <2>3. CASE r.range >= Top
    <3>1. Norm(r) = r /\ Norm(s) = s BY <1>1, <2>1, <2>3, NormIs
    <3> QED BY <3>1
  <2>4. CASE r.range < Top
    <3>1. /\ Norm(r).range = r.range * Byte /\ Norm(r).used = r.used + 1
          /\ Norm(r).code = (r.code * Byte + Coming(r)) % Full
          /\ Norm(r).probs = r.probs /\ Norm(r).bit = r.bit
      BY <1>1, <2>4, NormIs
    <3>2. /\ Norm(s).range = s.range * Byte /\ Norm(s).used = s.used + 1
          /\ Norm(s).code = (s.code * Byte + Coming(s)) % Full
          /\ Norm(s).probs = s.probs /\ Norm(s).bit = s.bit
      BY <1>1, <2>1, <2>4, NormIs
    <3>3. Norm(r).used <= L \/ Norm(s).used <= L => Coming(r) = Coming(s)
      <4> SUFFICES ASSUME Norm(r).used <= L \/ Norm(s).used <= L PROVE Coming(r) = Coming(s) OBVIOUS
      <4>1. r.used + 1 \in 1..L BY <1>1, <2>1, <3>1, <3>2
      <4>2. r.buf[r.used + 1] = s.buf[s.used + 1] BY <2>1, <4>1 DEF Twin
      <4>3. Len(r.buf) \in Nat /\ Len(s.buf) \in Nat BY <1>1, RegsAre
      <4>4. r.used < Len(r.buf) /\ s.used < Len(s.buf) BY <1>1, <2>1, <4>1, <4>3 DEF Twin
      <4> QED BY <4>2, <4>4 DEF Coming
    <3>4. Norm(r).used <= L \/ Norm(s).used <= L => Agree(Norm(r), Norm(s))
      BY <2>1, <3>1, <3>2, <3>3 DEF Agree
    <3> QED BY <1>2, <3>4, TwinLater
  <2> QED BY <2>2, <2>3, <2>4
<1> QED BY <1>3, <1>4

LEMMA TwinBit ==
    ASSUME NEW L, NEW r, NEW s, Twin(L, r, s), NEW ctx \in Ctx
    PROVE  Twin(L, DecodeBit(r, ctx), DecodeBit(s, ctx))
<1> DEFINE x == DecodeBit(r, ctx)
           y == DecodeBit(s, ctx)
           n == Norm(r)
           m == Norm(s)
           prob == ProbOf(r.probs, ctx)
           bound == (n.range \div Total) * prob
           proc == ProbOf(s.probs, ctx)
           bounc == (m.range \div Total) * proc
<1>1. r \in Regs /\ s \in Regs BY TwinIs
<1>2. Twin(L, n, m) BY TwinNorm
<1>3. /\ Later(r, x) /\ x.used = n.used
      /\ n.code < bound => /\ x.bit = 0 /\ x.range = bound /\ x.code = n.code
                           /\ x.probs = Learn(r.probs, ctx, After0(prob))
      /\ ~(n.code < bound) =>
            /\ x.bit = 1 /\ x.range = n.range - bound /\ x.code = n.code - bound
            /\ x.probs = Learn(r.probs, ctx, After1(prob))
  BY <1>1, BitIs
<1>4. /\ Later(s, y) /\ y.used = m.used
      /\ m.code < bounc => /\ y.bit = 0 /\ y.range = bounc /\ y.code = m.code
                           /\ y.probs = Learn(s.probs, ctx, After0(proc))
      /\ ~(m.code < bounc) =>
            /\ y.bit = 1 /\ y.range = m.range - bounc /\ y.code = m.code - bounc
            /\ y.probs = Learn(s.probs, ctx, After1(proc))
  BY <1>1, BitIs
<1>5. n.probs = r.probs /\ m.probs = s.probs BY <1>1, NormIs
<1> HIDE DEF x, y, n, m
<1>6. x.used <= L \/ y.used <= L => Agree(x, y)
  <2> SUFFICES ASSUME x.used <= L \/ y.used <= L PROVE Agree(x, y) OBVIOUS
  <2>1. Agree(n, m) BY <1>2, <1>3, <1>4 DEF Twin
  <2>2. n.code = m.code /\ n.range = m.range /\ r.probs = s.probs /\ n.used = m.used
    BY <1>5, <2>1 DEF Agree
  <2>3. prob = proc /\ bound = bounc BY <2>2
  <2> HIDE DEF prob, bound, proc, bounc
  <2> QED BY <1>3, <1>4, <2>2, <2>3 DEF Agree
<1>7. Twin(L, x, y) BY <1>3, <1>4, <1>6, TwinLater
<1> QED BY <1>7 DEF x, y

LEMMA TwinDirect ==
    ASSUME NEW L, NEW r, NEW s, Twin(L, r, s)
    PROVE  Twin(L, DirectBit(r), DirectBit(s))
<1> DEFINE x == DirectBit(r)
           y == DirectBit(s)
           n == Norm(r)
           m == Norm(s)
           half == n.range \div 2
           hald == m.range \div 2
<1>1. r \in Regs /\ s \in Regs BY TwinIs
<1>2. Twin(L, n, m) BY TwinNorm
<1>3. /\ Later(r, x) /\ x.used = n.used /\ x.range = half /\ x.probs = r.probs
      /\ n.code < half => x.bit = 0 /\ x.code = n.code
      /\ ~(n.code < half) => x.bit = 1 /\ x.code = n.code - half
  BY <1>1, DirectBitIs
<1>4. /\ Later(s, y) /\ y.used = m.used /\ y.range = hald /\ y.probs = s.probs
      /\ m.code < hald => y.bit = 0 /\ y.code = m.code
      /\ ~(m.code < hald) => y.bit = 1 /\ y.code = m.code - hald
  BY <1>1, DirectBitIs
<1>5. n.probs = r.probs /\ m.probs = s.probs BY <1>1, NormIs
<1> HIDE DEF x, y, n, m
<1>6. x.used <= L \/ y.used <= L => Agree(x, y)
  <2> SUFFICES ASSUME x.used <= L \/ y.used <= L PROVE Agree(x, y) OBVIOUS
  <2>1. Agree(n, m) BY <1>2, <1>3, <1>4 DEF Twin
  <2>2. n.code = m.code /\ n.range = m.range /\ r.probs = s.probs /\ n.used = m.used
    BY <1>5, <2>1 DEF Agree
  <2>3. half = hald BY <2>2
  <2> HIDE DEF half, hald
  <2> QED BY <1>3, <1>4, <2>2, <2>3 DEF Agree
<1>7. Twin(L, x, y) BY <1>3, <1>4, <1>6, TwinLater
<1> QED BY <1>7 DEF x, y

\* Two decoders after the same operators, which cost no more than a bits.
Joint(L, r, s, x, y, a) ==
    Later(r, x) /\ Later(s, y) /\ Costs(r, x, a) /\ Costs(s, y, a) /\ Twin(L, x, y)

LEMMA TwinSelf ==
    ASSUME NEW r \in Regs
    PROVE  Twin(0, r, r)
<1>1. Len(r.buf) \in Nat BY RegsAre
<1> QED BY <1>1 DEF Twin, Agree

LEMMA LaterSelf ==
    ASSUME NEW r \in Regs
    PROVE  Later(r, r)
<1>1. r.used \in Nat BY RegsAre
<1> QED BY <1>1 DEF Later

LEMMA JointNothing ==
    ASSUME NEW L, NEW r, NEW s, Twin(L, r, s)
    PROVE  Joint(L, r, s, r, s, 0)
<1>1. r \in Regs /\ s \in Regs BY TwinIs
<1> QED BY <1>1, LaterSelf, CostsNothing DEF Joint

LEMMA JointThen ==
    ASSUME NEW L, NEW r, NEW s, NEW x, NEW y, NEW v, NEW w, NEW a \in Nat, NEW b \in Nat,
           Joint(L, r, s, x, y, a), Joint(L, x, y, v, w, b)
    PROVE  Joint(L, r, s, v, w, a + b)
<1>1. Later(r, v) /\ Later(s, w) BY LaterIs DEF Joint
<1>2. Costs(r, v, a + b) /\ Costs(s, w, a + b) BY CostsAdd DEF Joint
<1> QED BY <1>1, <1>2 DEF Joint

LEMMA JointMore ==
    ASSUME NEW L, NEW r, NEW s, NEW x, NEW y, NEW a \in Nat, NEW b \in Nat, a <= b,
           Joint(L, r, s, x, y, a)
    PROVE  Joint(L, r, s, x, y, b)
<1>1. Costs(r, x, b) /\ Costs(s, y, b) BY CostsMore DEF Joint
<1> QED BY <1>1 DEF Joint

\* A bit after which both have read what they share has been the same bit.
LEMMA JointBit ==
    ASSUME NEW L, NEW r, NEW s, Twin(L, r, s), NEW c \in Ctx, NEW d \in Ctx,
           r.used <= L => c = d
    PROVE  LET x == DecodeBit(r, c)
               y == DecodeBit(s, d)
           IN  /\ Joint(L, r, s, x, y, 1)
               /\ x.used <= L => r.used <= L /\ x.bit = y.bit
               /\ x.bit \in Bit /\ y.bit \in Bit
<1> DEFINE x == DecodeBit(r, c)
           y == DecodeBit(s, d)
<1>1. /\ L \in Nat /\ r \in Regs /\ s \in Regs /\ r.used \in Nat /\ s.used \in Nat
  BY TwinIs
<1>2. Later(r, x) /\ Costs(r, x, 1) BY <1>1, BitIs
<1>3. Later(s, y) /\ Costs(s, y, 1) BY <1>1, BitIs
<1>4. r.used <= L => Twin(L, x, y) BY TwinBit
<1> HIDE DEF x, y
<1>5. Twin(L, x, y) BY <1>2, <1>3, <1>4, TwinLate
<1>6. x.used \in Nat /\ r.used <= x.used /\ x.bit \in Bit /\ y.bit \in Bit
  BY <1>2, <1>3, RegsAre DEF Later
<1>7. x.used <= L => r.used <= L BY <1>1, <1>6
<1>8. x.used <= L => x.bit = y.bit BY <1>5 DEF Twin, Agree
<1> QED BY <1>2, <1>3, <1>5, <1>6, <1>7, <1>8 DEF Joint, x, y

\* What operators that read several bits give: [r, m].
Got == [r : Regs, m : Nat]
Reads(L, r, s, t, u, a) ==
    /\ Joint(L, r, s, t.r, u.r, a) /\ t.m \in Nat /\ u.m \in Nat
    /\ t.r.used <= L => r.used <= L /\ t.m = u.m

LEMMA ReadsThen ==
    ASSUME NEW L, NEW r, NEW s, NEW x, NEW y, NEW t, NEW u, NEW a \in Nat, NEW b \in Nat,
           Joint(L, r, s, x, y, a), x.used <= L => r.used <= L, Reads(L, x, y, t, u, b)
    PROVE  Reads(L, r, s, t, u, a + b)
BY JointThen DEF Reads

LEMMA ReadsMore ==
    ASSUME NEW L, NEW r, NEW s, NEW t, NEW u, NEW a \in Nat, NEW b \in Nat, a <= b,
           Reads(L, r, s, t, u, a)
    PROVE  Reads(L, r, s, t, u, b)
BY JointMore DEF Reads

\* Where the two go different ways, only one has to be followed at a time.
LEMMA ReadsLate ==
    ASSUME NEW L, NEW r, NEW s, Twin(L, r, s), ~(r.used <= L), NEW t, NEW u, NEW a \in Nat,
           NEW v, NEW w, Reads(0, r, r, t, v, a), Reads(0, s, s, u, w, a)
    PROVE  Reads(L, r, s, t, u, a)
<1>1. /\ Later(r, t.r) /\ Later(s, u.r) /\ Costs(r, t.r, a) /\ Costs(s, u.r, a)
      /\ t.m \in Nat /\ u.m \in Nat
  BY DEF Reads, Joint
<1>2. Twin(L, t.r, u.r) /\ ~(t.r.used <= L) BY <1>1, TwinLate
<1> QED BY <1>1, <1>2 DEF Reads, Joint

-----------------------------------------------------------------------------
(* What the operators of the decoder read *)

LEMMA BitsIs ==
    ASSUME NEW m \in Nat, NEW b \in Regs
    PROVE  2 * m + b.bit \in Nat
<1>1. b.bit \in Bit BY RegsAre
<1> QED BY <1>1 DEF Bit

LEMMA CtxIs ==
    ASSUME NEW name \in Names, NEW i \in Int, NEW j \in Int
    PROVE  <<name, i, j>> \in Ctx
BY DEF Ctx

\* TreeGet's loop.
Node(name, base, a) == DecodeBit(a.r, <<name, base + a.m, 0>>)
TreeLoop(f, r, name, base, bits) ==
    /\ f \in [0..bits -> Got] /\ f[0] = [r |-> r, m |-> 1]
    /\ \A k \in 1..bits : f[k] = Bits(f[k - 1], Node(name, base, f[k - 1]))

LEMMA TreeRuns ==
    ASSUME NEW r \in Regs, NEW name \in Names, NEW base \in Int, NEW bits \in Nat
    PROVE  \E f : /\ TreeLoop(f, r, name, base, bits)
                  /\ TreeGet(r, name, base, bits) = [f[bits] EXCEPT !.m = @ - Pow2[bits]]
<1> DEFINE start == [r |-> r, m |-> 1]
           op(a) == With(DecodeBit(a.r, <<name, base + a.m, 0>>), LAMBDA b : Bits(a, b))
           Body(g) == [i \in 0..bits |-> IF i = 0 THEN start
                                         ELSE With(g[i - 1], LAMBDA a : op(a))]
           made == CHOOSE g : g = Body(g)
           step == [k \in 1..bits |-> [a \in Got |-> op(a)]]
<1>1. TreeGet(r, name, base, bits) = [made[bits] EXCEPT !.m = @ - Pow2[bits]]
  BY DEF TreeGet, Repeat
<1>2. ASSUME NEW a \in Got
      PROVE  op(a) = Bits(a, Node(name, base, a)) /\ op(a) \in Got
  <2>1. a.r \in Regs /\ a.m \in Nat BY DEF Got
  <2>2. base + a.m \in Int /\ 0 \in Int BY <2>1
  <2>3. <<name, base + a.m, 0>> \in Ctx BY <2>2, CtxIs
  <2>4. Node(name, base, a) \in Regs BY <2>1, <2>3, BitIs DEF Later, Node
  <2>5. op(a) = Bits(a, Node(name, base, a)) BY DEF With, Node
  <2> HIDE DEF op
  <2>6. 2 * a.m + Node(name, base, a).bit \in Nat BY <2>1, <2>4, BitsIs
  <2>7. Bits(a, Node(name, base, a)) \in Got BY <2>4, <2>6 DEF Got, Bits
  <2> QED BY <2>5, <2>7
<1> HIDE DEF op
<1>3. start \in Got BY DEF Got
<1> HIDE DEF start
<1>4. Loop(bits, Got, start, step) BY <1>2, <1>3 DEF Loop
<1>5. \A k \in 1..bits, a \in Got : step[k][a] = op(a) OBVIOUS
<1> HIDE DEF step
<1>6. PICK f : Runs(f, bits, Got, start, step) BY <1>4, LoopEnds
<1>7. \A i \in 1..bits : f[i - 1] \in Got /\ f[i] = op(f[i - 1])
  <2> SUFFICES ASSUME NEW i \in 1..bits PROVE f[i - 1] \in Got /\ f[i] = op(f[i - 1]) OBVIOUS
  <2>1. i - 1 \in 0..bits OBVIOUS
  <2> QED BY <1>5, <1>6, <2>1 DEF Runs
<1>8. f = Body(f) BY <1>6, <1>7 DEF Runs, With
<1>9. made = Body(made) BY <1>8
<1> HIDE DEF made
<1>10. made[0] = start /\ \A k \in 1..bits : made[k - 1] \in Got => made[k] = step[k][made[k - 1]]
  BY <1>5, <1>9 DEF With
<1>11. \A k \in 0..bits : made[k] = f[k] BY <1>6, <1>10, RunsAre
<1>12. made[bits] = f[bits] BY <1>11
<1>13. TreeLoop(f, r, name, base, bits)
  BY <1>2, <1>6, <1>7 DEF TreeLoop, Runs, start
<1> QED BY <1>1, <1>12, <1>13

LEMMA TreeReads ==
    ASSUME NEW L, NEW r, NEW s, Twin(L, r, s), NEW name \in Names, NEW bits \in Nat,
           NEW c \in Int, NEW d \in Int, r.used <= L => c = d
    PROVE  LET t == TreeGet(r, name, c, bits)
               u == TreeGet(s, name, d, bits)
           IN  /\ Reads(L, r, s, t, u, bits) /\ t.m < Pow2[bits] /\ u.m < Pow2[bits]
               /\ t \in Got /\ u \in Got
<1>1. r \in Regs /\ s \in Regs /\ L \in Nat /\ r.used \in Nat BY TwinIs
<1>2. PICK f : /\ TreeLoop(f, r, name, c, bits)
               /\ TreeGet(r, name, c, bits) = [f[bits] EXCEPT !.m = @ - Pow2[bits]]
  BY <1>1, TreeRuns
<1>3. PICK g : /\ TreeLoop(g, s, name, d, bits)
               /\ TreeGet(s, name, d, bits) = [g[bits] EXCEPT !.m = @ - Pow2[bits]]
  BY <1>1, TreeRuns
<1> DEFINE In(k, x) == x.m >= Pow2[k] /\ x.m < 2 * Pow2[k]
           P == {k \in Nat : k <= bits =>
                    Reads(L, r, s, f[k], g[k], k) /\ In(k, f[k]) /\ In(k, g[k])}
<1>4. 0 \in P
  <2>1. f[0] = [r |-> r, m |-> 1] /\ g[0] = [r |-> s, m |-> 1] BY <1>2, <1>3 DEF TreeLoop
  <2>2. Reads(L, r, s, f[0], g[0], 0) BY <2>1, JointNothing DEF Reads
  <2>3. In(0, f[0]) /\ In(0, g[0]) BY <2>1, Powers
  <2> QED BY <2>2, <2>3
<1>5. ASSUME NEW k \in 1..bits, k - 1 \in P PROVE k \in P
  <2> DEFINE j == k - 1
             x == Node(name, c, f[j])
             y == Node(name, d, g[j])
  <2>1. j \in Nat /\ k = j + 1 /\ j <= bits /\ k \in Nat OBVIOUS
  <2>2. Reads(L, r, s, f[j], g[j], j) /\ In(j, f[j]) /\ In(j, g[j]) BY <1>5, <2>1
  <2>3. f[k] = Bits(f[j], x) /\ g[k] = Bits(g[j], y) BY <1>2, <1>3 DEF TreeLoop
  <2> HIDE DEF j
  <2>4. f[j].m \in Nat /\ g[j].m \in Nat /\ Twin(L, f[j].r, g[j].r)
        /\ (f[j].r.used <= L => r.used <= L /\ f[j].m = g[j].m)
    BY <2>2 DEF Reads, Joint
  <2>5. c + f[j].m \in Int /\ d + g[j].m \in Int /\ 0 \in Int BY <2>4
  <2>6. <<name, c + f[j].m, 0>> \in Ctx /\ <<name, d + g[j].m, 0>> \in Ctx BY <2>5, CtxIs
  <2>7. f[j].r.used <= L => <<name, c + f[j].m, 0>> = <<name, d + g[j].m, 0>> BY <2>4
  <2>8. /\ Joint(L, f[j].r, g[j].r, x, y, 1)
        /\ x.used <= L => f[j].r.used <= L /\ x.bit = y.bit
        /\ x.bit \in Bit /\ y.bit \in Bit
    BY <2>4, <2>6, <2>7, JointBit DEF Node
  <2> HIDE DEF x, y
  <2>9. Joint(L, r, s, x, y, j + 1) BY <2>1, <2>2, <2>8, JointThen DEF Reads
  <2>10. /\ f[k].r = x /\ f[k].m = 2 * f[j].m + x.bit
         /\ g[k].r = y /\ g[k].m = 2 * g[j].m + y.bit
    BY <2>3 DEF Bits
  <2>11. f[k].m \in Nat /\ g[k].m \in Nat BY <2>4, <2>8, <2>10 DEF Bit
  <2>12. f[k].r.used <= L => r.used <= L /\ f[k].m = g[k].m BY <2>4, <2>8, <2>10
  <2>13. Reads(L, r, s, f[k], g[k], k) BY <2>1, <2>9, <2>10, <2>11, <2>12 DEF Reads
  <2>14. In(k, f[k]) /\ In(k, g[k])
    <3>1. Pow2[k] = 2 * Pow2[j] /\ Pow2[j] \in Nat BY <2>1, Powers
    <3> QED BY <2>2, <2>4, <2>8, <2>10, <3>1 DEF Bit
  <2> QED BY <2>1, <2>13, <2>14
<1>6. P \in SUBSET Nat OBVIOUS
<1> HIDE DEF P
<1>7. \A k \in 0..bits : k \in P BY <1>4, <1>5, <1>6, Throughout
<1>8. Reads(L, r, s, f[bits], g[bits], bits) /\ In(bits, f[bits]) /\ In(bits, g[bits])
  BY <1>7 DEF P
<1> DEFINE t == TreeGet(r, name, c, bits)
           u == TreeGet(s, name, d, bits)
<1>9. f[bits] \in Got /\ g[bits] \in Got BY <1>2, <1>3 DEF TreeLoop
<1>10. /\ t.r = f[bits].r /\ t.m = f[bits].m - Pow2[bits]
       /\ u.r = g[bits].r /\ u.m = g[bits].m - Pow2[bits]
       /\ t = [r |-> t.r, m |-> t.m] /\ u = [r |-> u.r, m |-> u.m]
  BY <1>2, <1>3, <1>9 DEF Got
<1> HIDE DEF t, u
<1>11. f[bits].m \in Nat /\ g[bits].m \in Nat /\ Pow2[bits] \in Nat BY <1>9, Powers DEF Got
<1>12. t.m \in Nat /\ u.m \in Nat /\ t.m < Pow2[bits] /\ u.m < Pow2[bits]
  BY <1>8, <1>10, <1>11
<1>13. Reads(L, r, s, t, u, bits) BY <1>8, <1>10, <1>12 DEF Reads
<1>14. t \in Got /\ u \in Got BY <1>9, <1>10, <1>12 DEF Got
<1> QED BY <1>12, <1>13, <1>14 DEF t, u

\* MatchedGet's loop.
Matched == [r : Regs, m : Nat, offs : Nat]
Kept(match, k, a) == IF BitOf(match, ByteBits - k) = 1 THEN a.offs ELSE 0
MatchedNode(base, match, k, a) ==
    DecodeBit(a.r, <<"lit", base + Kept(match, k, a) + a.offs + a.m, 0>>)
MatchedRound(base, match, k, a) ==
    LET b == MatchedNode(base, match, k, a)
    IN  [r |-> b, m |-> 2 * a.m + b.bit,
         offs |-> IF b.bit = 0 THEN a.offs - Kept(match, k, a) ELSE Kept(match, k, a)]
MatchedLoop(f, r, base, match) ==
    /\ f \in [0..ByteBits -> Matched] /\ f[0] = [r |-> r, m |-> 1, offs |-> Byte]
    /\ \A k \in 1..ByteBits : f[k] = MatchedRound(base, match, k, f[k - 1])

LEMMA MatchedIs ==
    ASSUME NEW a \in Matched, NEW base \in Int, NEW match \in Int, NEW k \in 1..ByteBits
    PROVE  /\ <<"lit", base + Kept(match, k, a) + a.offs + a.m, 0>> \in Ctx
           /\ MatchedRound(base, match, k, a) \in Matched
<1>1. a.r \in Regs /\ a.m \in Nat /\ a.offs \in Nat BY DEF Matched
<1>2. Kept(match, k, a) \in Nat /\ a.offs - Kept(match, k, a) \in Nat BY <1>1 DEF Kept
<1>3. base + Kept(match, k, a) + a.offs + a.m \in Int /\ 0 \in Int /\ "lit" \in Names
  BY <1>1, <1>2 DEF Names
<1>4. <<"lit", base + Kept(match, k, a) + a.offs + a.m, 0>> \in Ctx BY <1>3, CtxIs
<1> DEFINE b == MatchedNode(base, match, k, a)
<1>5. b \in Regs BY <1>1, <1>4, BitIs DEF Later, MatchedNode
<1> HIDE DEF b
<1>6. 2 * a.m + b.bit \in Nat BY <1>1, <1>5, BitsIs
<1>7. MatchedRound(base, match, k, a) \in Matched
  BY <1>2, <1>5, <1>6 DEF MatchedRound, Matched, b
<1> QED BY <1>4, <1>7

LEMMA MatchedRuns ==
    ASSUME NEW r \in Regs, NEW base \in Int, NEW match \in Int
    PROVE  \E f : /\ MatchedLoop(f, r, base, match)
                  /\ MatchedGet(r, base, match) = [f[ByteBits] EXCEPT !.m = @ - Byte]
<1> DEFINE n == ByteBits
           start == [r |-> r, m |-> 1, offs |-> Byte]
           Round(a, i) ==
              LET offs == IF BitOf(match, ByteBits - i) = 1 THEN a.offs ELSE 0
              IN  With(DecodeBit(a.r, <<"lit", base + offs + a.offs + a.m, 0>>), LAMBDA b :
                      [r |-> b, m |-> 2 * a.m + b.bit,
                       offs |-> IF b.bit = 0 THEN a.offs - offs ELSE offs])
           Body(g) == [i \in 0..n |-> IF i = 0 THEN start
                                      ELSE With(g[i - 1], LAMBDA a : Round(a, i))]
           made == CHOOSE g : g = Body(g)
           step == [k \in 1..n |-> [a \in Matched |-> Round(a, k)]]
<1>0. n \in Nat /\ Byte \in Nat BY CodingParams, Widths
<1>1. MatchedGet(r, base, match) = [made[n] EXCEPT !.m = @ - Byte]
  BY DEF MatchedGet, Repeat
<1>2. ASSUME NEW k \in 1..n, NEW a \in Matched
      PROVE  Round(a, k) = MatchedRound(base, match, k, a) /\ Round(a, k) \in Matched
  <2>1. Round(a, k) = MatchedRound(base, match, k, a)
    BY DEF With, MatchedRound, MatchedNode, Kept
  <2> HIDE DEF Round
  <2> QED BY <2>1, MatchedIs
<1> HIDE DEF Round
<1>3. start \in Matched BY <1>0 DEF Matched
<1> HIDE DEF start, n
<1>4. Loop(n, Matched, start, step) BY <1>0, <1>2, <1>3 DEF Loop
<1>5. \A k \in 1..n, a \in Matched : step[k][a] = Round(a, k) OBVIOUS
<1> HIDE DEF step
<1>6. PICK f : Runs(f, n, Matched, start, step) BY <1>4, LoopEnds
<1>7. \A i \in 1..n : f[i - 1] \in Matched /\ f[i] = Round(f[i - 1], i)
  <2> SUFFICES ASSUME NEW i \in 1..n PROVE f[i - 1] \in Matched /\ f[i] = Round(f[i - 1], i)
    OBVIOUS
  <2>1. i - 1 \in 0..n BY <1>0
  <2> QED BY <1>5, <1>6, <2>1 DEF Runs
<1>8. f = Body(f) BY <1>0, <1>6, <1>7 DEF Runs, With
<1>9. made = Body(made) BY <1>8
<1> HIDE DEF made
<1>10. made[0] = start
       /\ \A k \in 1..n : made[k - 1] \in Matched => made[k] = step[k][made[k - 1]]
  BY <1>0, <1>5, <1>9 DEF With
<1>11. \A k \in 0..n : made[k] = f[k] BY <1>0, <1>6, <1>10, RunsAre
<1>12. made[n] = f[n] BY <1>0, <1>11
<1>13. MatchedLoop(f, r, base, match)
  BY <1>2, <1>6, <1>7 DEF MatchedLoop, Runs, start, n
<1> QED BY <1>1, <1>12, <1>13 DEF n

LEMMA MatchedReads ==
    ASSUME NEW L, NEW r, NEW s, Twin(L, r, s), NEW base \in Int, NEW match \in Int
    PROVE  LET t == MatchedGet(r, base, match)
               u == MatchedGet(s, base, match)
           IN  Reads(L, r, s, t, u, ByteBits) /\ t.m < Byte /\ u.m < Byte
<1> DEFINE n == ByteBits
<1>0. n \in Nat BY CodingParams
<1>1. r \in Regs /\ s \in Regs /\ L \in Nat /\ r.used \in Nat BY TwinIs
<1>2. PICK f : /\ MatchedLoop(f, r, base, match)
               /\ MatchedGet(r, base, match) = [f[n] EXCEPT !.m = @ - Byte]
  BY <1>1, MatchedRuns
<1>3. PICK g : /\ MatchedLoop(g, s, base, match)
               /\ MatchedGet(s, base, match) = [g[n] EXCEPT !.m = @ - Byte]
  BY <1>1, MatchedRuns
<1> DEFINE In(k, x) == x.m >= Pow2[k] /\ x.m < 2 * Pow2[k]
           P == {k \in Nat : k <= n =>
                    /\ Reads(L, r, s, f[k], g[k], k) /\ In(k, f[k]) /\ In(k, g[k])
                    /\ f[k].r.used <= L => f[k].offs = g[k].offs}
<1>4. 0 \in P
  <2>1. f[0] = [r |-> r, m |-> 1, offs |-> Byte] /\ g[0] = [r |-> s, m |-> 1, offs |-> Byte]
    BY <1>2, <1>3 DEF MatchedLoop
  <2>2. Reads(L, r, s, f[0], g[0], 0) BY <2>1, JointNothing DEF Reads
  <2>3. In(0, f[0]) /\ In(0, g[0]) BY <2>1, Powers
  <2> QED BY <2>1, <2>2, <2>3
<1>5. ASSUME NEW k \in 1..n, k - 1 \in P PROVE k \in P
  <2> DEFINE j == k - 1
             v == <<"lit", base + Kept(match, k, f[j]) + f[j].offs + f[j].m, 0>>
             w == <<"lit", base + Kept(match, k, g[j]) + g[j].offs + g[j].m, 0>>
             x == MatchedNode(base, match, k, f[j])
             y == MatchedNode(base, match, k, g[j])
  <2>1. j \in Nat /\ k = j + 1 /\ j <= n /\ k \in Nat /\ j \in 0..n BY <1>0
  <2>2. /\ Reads(L, r, s, f[j], g[j], j) /\ In(j, f[j]) /\ In(j, g[j])
        /\ f[j].r.used <= L => f[j].offs = g[j].offs
    BY <1>5, <2>1
  <2>3. /\ f[k] = MatchedRound(base, match, k, f[j]) /\ f[j] \in Matched
        /\ g[k] = MatchedRound(base, match, k, g[j]) /\ g[j] \in Matched
    BY <1>2, <1>3, <2>1 DEF MatchedLoop
  <2> HIDE DEF j
  <2>4. f[j].m \in Nat /\ g[j].m \in Nat /\ Twin(L, f[j].r, g[j].r)
        /\ (f[j].r.used <= L => r.used <= L /\ f[j].m = g[j].m)
    BY <2>2 DEF Reads, Joint
  <2>5. v \in Ctx /\ w \in Ctx BY <2>3, MatchedIs
  <2>6. f[j].r.used <= L => v = w /\ Kept(match, k, f[j]) = Kept(match, k, g[j])
    BY <2>2, <2>4 DEF Kept
  <2>7. x = DecodeBit(f[j].r, v) /\ y = DecodeBit(g[j].r, w) BY DEF MatchedNode
  <2> HIDE DEF v, w
  <2>8. /\ Joint(L, f[j].r, g[j].r, x, y, 1)
        /\ x.used <= L => f[j].r.used <= L /\ x.bit = y.bit
        /\ x.bit \in Bit /\ y.bit \in Bit
    BY <2>4, <2>5, <2>6, <2>7, JointBit
  <2>9. /\ f[k].r = x /\ f[k].m = 2 * f[j].m + x.bit
        /\ g[k].r = y /\ g[k].m = 2 * g[j].m + y.bit
        /\ f[k].offs = IF x.bit = 0 THEN f[j].offs - Kept(match, k, f[j]) ELSE Kept(match, k, f[j])
        /\ g[k].offs = IF y.bit = 0 THEN g[j].offs - Kept(match, k, g[j]) ELSE Kept(match, k, g[j])
    BY <2>3 DEF MatchedRound
  <2> HIDE DEF x, y
  <2>10. Joint(L, r, s, x, y, j + 1) BY <2>1, <2>2, <2>8, JointThen DEF Reads
  <2>11. f[k].m \in Nat /\ g[k].m \in Nat BY <2>4, <2>8, <2>9 DEF Bit
  <2>12. f[k].r.used <= L => r.used <= L /\ f[k].m = g[k].m /\ f[k].offs = g[k].offs
    BY <2>2, <2>4, <2>6, <2>8, <2>9
  <2>13. Reads(L, r, s, f[k], g[k], k) BY <2>1, <2>9, <2>10, <2>11, <2>12 DEF Reads
  <2>14. In(k, f[k]) /\ In(k, g[k])
    <3>1. Pow2[k] = 2 * Pow2[j] /\ Pow2[j] \in Nat BY <2>1, Powers
    <3> QED BY <2>2, <2>4, <2>8, <2>9, <3>1 DEF Bit
  <2> QED BY <2>1, <2>12, <2>13, <2>14
<1>6. P \in SUBSET Nat OBVIOUS
<1> HIDE DEF P
<1>7. \A k \in 0..n : k \in P BY <1>0, <1>4, <1>5, <1>6, Throughout
<1>8. Reads(L, r, s, f[n], g[n], n) /\ In(n, f[n]) /\ In(n, g[n])
  BY <1>0, <1>7 DEF P
<1> DEFINE t == MatchedGet(r, base, match)
           u == MatchedGet(s, base, match)
<1>9. f[n] \in Matched /\ g[n] \in Matched BY <1>0, <1>2, <1>3 DEF MatchedLoop
<1>10. /\ t.r = f[n].r /\ t.m = f[n].m - Byte
       /\ u.r = g[n].r /\ u.m = g[n].m - Byte
  BY <1>2, <1>3, <1>9 DEF Matched
<1> HIDE DEF t, u
<1>11. f[n].m \in Nat /\ g[n].m \in Nat /\ Byte \in Nat /\ Byte = Pow2[n]
  BY <1>9, Widths DEF Matched, Byte
<1> HIDE DEF n
<1>12. t.m \in Nat /\ u.m \in Nat /\ t.m < Byte /\ u.m < Byte
  BY <1>8, <1>10, <1>11
<1>13. Reads(L, r, s, t, u, n) BY <1>8, <1>10, <1>12 DEF Reads
<1> QED BY <1>12, <1>13 DEF t, u, n

\* ReverseGet's loop.
Reversed == [r : Regs, m : Nat, i : Nat]
ReverseBit(name, base, a) == DecodeBit(a.r, <<name, base + a.i, 0>>)
ReverseRound(name, base, a) ==
    LET b == ReverseBit(name, base, a)
    IN  [r |-> b, m |-> 2 * a.m, i |-> a.i + (IF b.bit = 0 THEN a.m ELSE 2 * a.m)]
ReverseLoop(f, r, name, base, bits) ==
    /\ f \in [0..bits -> Reversed] /\ f[0] = [r |-> r, m |-> 1, i |-> 1]
    /\ \A k \in 1..bits : f[k] = ReverseRound(name, base, f[k - 1])

LEMMA ReversedIs ==
    ASSUME NEW a \in Reversed, NEW name \in Names, NEW base \in Int
    PROVE  /\ <<name, base + a.i, 0>> \in Ctx
           /\ ReverseRound(name, base, a) \in Reversed
<1>1. a.r \in Regs /\ a.m \in Nat /\ a.i \in Nat BY DEF Reversed
<1>2. base + a.i \in Int /\ 0 \in Int BY <1>1
<1>3. <<name, base + a.i, 0>> \in Ctx BY <1>2, CtxIs
<1> DEFINE b == ReverseBit(name, base, a)
<1>4. b \in Regs BY <1>1, <1>3, BitIs DEF Later, ReverseBit
<1> HIDE DEF b
<1>5. 2 * a.m \in Nat /\ a.i + a.m \in Nat /\ a.i + 2 * a.m \in Nat BY <1>1
<1>6. ReverseRound(name, base, a) \in Reversed
  BY <1>4, <1>5 DEF ReverseRound, Reversed, b
<1> QED BY <1>3, <1>6

LEMMA ReverseRuns ==
    ASSUME NEW r \in Regs, NEW name \in Names, NEW base \in Int, NEW bits \in Nat
    PROVE  \E f : /\ ReverseLoop(f, r, name, base, bits)
                  /\ ReverseGet(r, name, base, bits) = [r |-> f[bits].r, m |-> f[bits].i - f[bits].m]
<1> DEFINE start == [r |-> r, m |-> 1, i |-> 1]
           Round(a, k) ==
              With(DecodeBit(a.r, <<name, base + a.i, 0>>), LAMBDA b :
                  [r |-> b, m |-> 2 * a.m, i |-> a.i + (IF b.bit = 0 THEN a.m ELSE 2 * a.m)])
           Body(g) == [i \in 0..bits |-> IF i = 0 THEN start
                                         ELSE With(g[i - 1], LAMBDA a : Round(a, i))]
           made == CHOOSE g : g = Body(g)
           step == [k \in 1..bits |-> [a \in Reversed |-> Round(a, k)]]
<1>1. ReverseGet(r, name, base, bits) = [r |-> made[bits].r, m |-> made[bits].i - made[bits].m]
  BY DEF ReverseGet, Repeat, With
<1>2. ASSUME NEW k \in 1..bits, NEW a \in Reversed
      PROVE  Round(a, k) = ReverseRound(name, base, a) /\ Round(a, k) \in Reversed
  <2>1. Round(a, k) = ReverseRound(name, base, a) BY DEF With, ReverseRound, ReverseBit
  <2> HIDE DEF Round
  <2> QED BY <2>1, ReversedIs
<1> HIDE DEF Round
<1>3. start \in Reversed BY DEF Reversed
<1> HIDE DEF start
<1>4. Loop(bits, Reversed, start, step) BY <1>2, <1>3 DEF Loop
<1>5. \A k \in 1..bits, a \in Reversed : step[k][a] = Round(a, k) OBVIOUS
<1> HIDE DEF step
<1>6. PICK f : Runs(f, bits, Reversed, start, step) BY <1>4, LoopEnds
<1>7. \A i \in 1..bits : f[i - 1] \in Reversed /\ f[i] = Round(f[i - 1], i)
  <2> SUFFICES ASSUME NEW i \in 1..bits PROVE f[i - 1] \in Reversed /\ f[i] = Round(f[i - 1], i)
    OBVIOUS
  <2>1. i - 1 \in 0..bits OBVIOUS
  <2> QED BY <1>5, <1>6, <2>1 DEF Runs
<1>8. f = Body(f) BY <1>6, <1>7 DEF Runs, With
<1>9. made = Body(made) BY <1>8
<1> HIDE DEF made
<1>10. made[0] = start
       /\ \A k \in 1..bits : made[k - 1] \in Reversed => made[k] = step[k][made[k - 1]]
  BY <1>5, <1>9 DEF With
<1>11. \A k \in 0..bits : made[k] = f[k] BY <1>6, <1>10, RunsAre
<1>12. made[bits] = f[bits] BY <1>11
<1>13. ReverseLoop(f, r, name, base, bits)
  BY <1>2, <1>6, <1>7 DEF ReverseLoop, Runs, start
<1> QED BY <1>1, <1>12, <1>13

LEMMA ReverseReads ==
    ASSUME NEW L, NEW r, NEW s, Twin(L, r, s), NEW name \in Names, NEW base \in Int,
           NEW bits \in Nat
    PROVE  LET t == ReverseGet(r, name, base, bits)
               u == ReverseGet(s, name, base, bits)
           IN  Reads(L, r, s, t, u, bits) /\ t \in Got /\ u \in Got
<1>1. r \in Regs /\ s \in Regs /\ L \in Nat /\ r.used \in Nat BY TwinIs
<1>2. PICK f : /\ ReverseLoop(f, r, name, base, bits)
               /\ ReverseGet(r, name, base, bits)
                    = [r |-> f[bits].r, m |-> f[bits].i - f[bits].m]
  BY <1>1, ReverseRuns
<1>3. PICK g : /\ ReverseLoop(g, s, name, base, bits)
               /\ ReverseGet(s, name, base, bits)
                    = [r |-> g[bits].r, m |-> g[bits].i - g[bits].m]
  BY <1>1, ReverseRuns
<1> DEFINE P == {k \in Nat : k <= bits =>
                    /\ Joint(L, r, s, f[k].r, g[k].r, k)
                    /\ f[k].m = g[k].m /\ f[k].i >= f[k].m /\ g[k].i >= g[k].m
                    /\ f[k].r.used <= L => r.used <= L /\ f[k].i = g[k].i}
<1>4. 0 \in P
  <2>1. f[0] = [r |-> r, m |-> 1, i |-> 1] /\ g[0] = [r |-> s, m |-> 1, i |-> 1]
    BY <1>2, <1>3 DEF ReverseLoop
  <2>2. Joint(L, r, s, f[0].r, g[0].r, 0) BY <2>1, JointNothing
  <2> QED BY <2>1, <2>2
<1>5. ASSUME NEW k \in 1..bits, k - 1 \in P PROVE k \in P
  <2> DEFINE j == k - 1
             v == <<name, base + f[j].i, 0>>
             w == <<name, base + g[j].i, 0>>
             x == ReverseBit(name, base, f[j])
             y == ReverseBit(name, base, g[j])
  <2>1. j \in Nat /\ k = j + 1 /\ j <= bits /\ k \in Nat /\ j \in 0..bits OBVIOUS
  <2>2. /\ Joint(L, r, s, f[j].r, g[j].r, j)
        /\ f[j].m = g[j].m /\ f[j].i >= f[j].m /\ g[j].i >= g[j].m
        /\ f[j].r.used <= L => r.used <= L /\ f[j].i = g[j].i
    BY <1>5, <2>1
  <2>3. /\ f[k] = ReverseRound(name, base, f[j]) /\ f[j] \in Reversed
        /\ g[k] = ReverseRound(name, base, g[j]) /\ g[j] \in Reversed
    BY <1>2, <1>3, <2>1 DEF ReverseLoop
  <2> HIDE DEF j
  <2>4. f[j].m \in Nat /\ f[j].i \in Nat /\ g[j].i \in Nat /\ Twin(L, f[j].r, g[j].r)
    BY <2>2, <2>3 DEF Joint, Reversed
  <2>5. v \in Ctx /\ w \in Ctx BY <2>3, ReversedIs
  <2>6. f[j].r.used <= L => v = w BY <2>2
  <2>7. x = DecodeBit(f[j].r, v) /\ y = DecodeBit(g[j].r, w) BY DEF ReverseBit
  <2> HIDE DEF v, w
  <2>8. /\ Joint(L, f[j].r, g[j].r, x, y, 1)
        /\ x.used <= L => f[j].r.used <= L /\ x.bit = y.bit
    BY <2>4, <2>5, <2>6, <2>7, JointBit
  <2>9. /\ f[k].r = x /\ f[k].m = 2 * f[j].m
        /\ g[k].r = y /\ g[k].m = 2 * g[j].m
        /\ f[k].i = f[j].i + (IF x.bit = 0 THEN f[j].m ELSE 2 * f[j].m)
        /\ g[k].i = g[j].i + (IF y.bit = 0 THEN g[j].m ELSE 2 * g[j].m)
    BY <2>3 DEF ReverseRound
  <2> HIDE DEF x, y
  <2>10. Joint(L, r, s, x, y, j + 1) BY <2>1, <2>2, <2>8, JointThen
  <2>11. f[k].i >= f[k].m /\ g[k].i >= g[k].m BY <2>2, <2>4, <2>9
  <2>12. f[k].r.used <= L => r.used <= L /\ f[k].i = g[k].i BY <2>2, <2>8, <2>9
  <2> QED BY <2>1, <2>2, <2>9, <2>10, <2>11, <2>12
<1>6. P \in SUBSET Nat OBVIOUS
<1> HIDE DEF P
<1>7. \A k \in 0..bits : k \in P BY <1>4, <1>5, <1>6, Throughout
<1>8. /\ Joint(L, r, s, f[bits].r, g[bits].r, bits)
      /\ f[bits].m = g[bits].m /\ f[bits].i >= f[bits].m /\ g[bits].i >= g[bits].m
      /\ f[bits].r.used <= L => r.used <= L /\ f[bits].i = g[bits].i
  BY <1>7 DEF P
<1>9. f[bits] \in Reversed /\ g[bits] \in Reversed BY <1>2, <1>3 DEF ReverseLoop
<1>10. f[bits].i - f[bits].m \in Nat /\ g[bits].i - g[bits].m \in Nat
  BY <1>8, <1>9 DEF Reversed
<1>11. f[bits].r \in Regs /\ g[bits].r \in Regs BY <1>9 DEF Reversed
<1> QED BY <1>2, <1>3, <1>8, <1>10, <1>11 DEF Reads, Got

LEMMA Sizes ==
    /\ LenLowBits \in Nat /\ LenHighBits \in Nat /\ SlotBits \in Nat /\ AlignBits \in Nat
    /\ ByteBits \in Nat /\ LenLow \in Nat /\ LongestLen \in Nat /\ LongestMatch \in Nat
    /\ 1 + LenLowBits <= LongestLen /\ 2 + LenLowBits <= LongestLen
    /\ 2 + LenHighBits <= LongestLen
<1>1. LenLowBits \in Nat /\ LenHighBits \in Nat /\ SlotBits \in Nat /\ AlignBits \in Nat
      /\ ByteBits \in Nat
  BY CodingParams
<1>2. LenLow \in Nat BY <1>1, Powers DEF LenLow
<1> QED BY <1>1, <1>2 DEF LongestLen, Larger, LongestMatch

LEMMA PlusReads ==
    ASSUME NEW L, NEW r, NEW s, NEW t \in Got, NEW u \in Got, NEW a, Reads(L, r, s, t, u, a),
           NEW n \in Nat
    PROVE  Reads(L, r, s, Plus(t, n), Plus(u, n), a)
<1>1. t.m \in Nat /\ u.m \in Nat BY DEF Got
<1>2. /\ Plus(t, n).r = t.r /\ Plus(t, n).m = t.m + n
      /\ Plus(u, n).r = u.r /\ Plus(u, n).m = u.m + n
  BY DEF Got, Plus
<1>3. t.m + n \in Nat /\ u.m + n \in Nat BY <1>1
<1> QED BY <1>2, <1>3 DEF Reads

\* After a bit on which the way depends.
LEMMA ReadsFork ==
    ASSUME NEW L, NEW r, NEW s, NEW x, NEW y, NEW a \in Nat, NEW b \in Nat, NEW t, NEW u,
           Joint(L, r, s, x, y, a), x.used <= L => r.used <= L /\ x.bit = y.bit,
           x.bit = y.bit => Reads(L, x, y, t, u, b),
           Reads(0, x, x, t, t, b), Reads(0, y, y, u, u, b)
    PROVE  Reads(L, r, s, t, u, a + b)
<1>1. Twin(L, x, y) BY DEF Joint
<1>2. CASE x.bit = y.bit BY <1>2, ReadsThen
<1>3. CASE x.bit # y.bit
  <2>1. ~(x.used <= L) BY <1>3
  <2>2. Reads(L, x, y, t, u, b) BY <1>1, <2>1, ReadsLate
  <2> QED BY <2>2, ReadsThen
<1> QED BY <1>2, <1>3

\* A length that the first bit of LEN_DECODE does not make short.
LongLen(r, name, high, at) ==
    LET c2 == DecodeBit(r, <<name, LenLow, 0>>)
    IN  IF c2.bit = 0 THEN Plus(TreeGet(c2, name, at + LenLow, LenLowBits), LenLow)
        ELSE Plus(TreeGet(c2, high, 0, LenHighBits), 2 * LenLow)

LEMMA LongLenReads ==
    ASSUME NEW L, NEW r, NEW s, Twin(L, r, s), NEW name \in Names, NEW high \in Names,
           NEW at \in Int
    PROVE  Reads(L, r, s, LongLen(r, name, high, at), LongLen(s, name, high, at), LongestLen - 1)
<1> DEFINE low == LenLow
           rest == LongestLen - 2
           x == DecodeBit(r, <<name, low, 0>>)
           y == DecodeBit(s, <<name, low, 0>>)
           M(b) == Plus(TreeGet(b, name, at + low, LenLowBits), low)
           H(b) == Plus(TreeGet(b, high, 0, LenHighBits), 2 * low)
           t == LongLen(r, name, high, at)
           u == LongLen(s, name, high, at)
<1>1. /\ low \in Nat /\ 2 * low \in Nat /\ 0 \in Int /\ at + low \in Int /\ rest \in Nat
      /\ LenLowBits <= rest /\ LenHighBits <= rest /\ LenLowBits \in Nat /\ LenHighBits \in Nat
      /\ 1 + rest = LongestLen - 1
  BY Sizes
<1>2. /\ t = IF x.bit = 0 THEN M(x) ELSE H(x)
      /\ u = IF y.bit = 0 THEN M(y) ELSE H(y)
  BY DEF LongLen
<1> HIDE DEF low, t, u, rest
<1>3. <<name, low, 0>> \in Ctx BY <1>1, CtxIs
<1>4. /\ Joint(L, r, s, x, y, 1) /\ x.bit \in Bit /\ y.bit \in Bit
      /\ x.used <= L => r.used <= L /\ x.bit = y.bit
  BY <1>3, JointBit
<1> HIDE DEF x, y
<1>5. Twin(L, x, y) /\ Twin(0, x, x) /\ Twin(0, y, y) BY <1>4, TwinIs, TwinSelf DEF Joint
<1>6. ASSUME NEW l, NEW b, NEW c, Twin(l, b, c)
      PROVE  Reads(l, b, c, M(b), M(c), rest) /\ Reads(l, b, c, H(b), H(c), rest)
  <2> DEFINE mb == TreeGet(b, name, at + low, LenLowBits)
             mc == TreeGet(c, name, at + low, LenLowBits)
             hb == TreeGet(b, high, 0, LenHighBits)
             hc == TreeGet(c, high, 0, LenHighBits)
  <2>1. Reads(l, b, c, mb, mc, LenLowBits) /\ mb \in Got /\ mc \in Got
    BY <1>1, <1>6, TreeReads
  <2>2. Reads(l, b, c, hb, hc, LenHighBits) /\ hb \in Got /\ hc \in Got
    BY <1>1, <1>6, TreeReads
  <2> HIDE DEF mb, mc, hb, hc
  <2>3. Reads(l, b, c, Plus(mb, low), Plus(mc, low), LenLowBits) BY <1>1, <2>1, PlusReads
  <2>4. Reads(l, b, c, Plus(hb, 2 * low), Plus(hc, 2 * low), LenHighBits)
    BY <1>1, <2>2, PlusReads
  <2>5. Reads(l, b, c, Plus(mb, low), Plus(mc, low), rest) BY <1>1, <2>3, ReadsMore
  <2>6. Reads(l, b, c, Plus(hb, 2 * low), Plus(hc, 2 * low), rest) BY <1>1, <2>4, ReadsMore
  <2> QED BY <2>5, <2>6 DEF mb, mc, hb, hc
<1> HIDE DEF M, H
<1>7. x.bit = y.bit => Reads(L, x, y, t, u, rest) BY <1>2, <1>5, <1>6
<1>8. Reads(0, x, x, t, t, rest) /\ Reads(0, y, y, u, u, rest) BY <1>2, <1>5, <1>6
<1>9. Reads(L, r, s, t, u, 1 + rest) BY <1>1, <1>4, <1>7, <1>8, ReadsFork
<1> QED BY <1>1, <1>9 DEF t, u

LEMMA LenReads ==
    ASSUME NEW L, NEW r, NEW s, Twin(L, r, s), NEW name \in Names, NEW high \in Names,
           NEW posState \in Int
    PROVE  Reads(L, r, s, LenGet(r, name, high, posState), LenGet(s, name, high, posState),
                 LongestLen)
<1> DEFINE at == posState * 2 * LenLow
           rest == LongestLen - 1
           x == DecodeBit(r, <<name, 0, 0>>)
           y == DecodeBit(s, <<name, 0, 0>>)
           T(b) == TreeGet(b, name, at, LenLowBits)
           H(b) == LongLen(b, name, high, at)
           t == LenGet(r, name, high, posState)
           u == LenGet(s, name, high, posState)
<1>1. /\ at \in Int /\ 0 \in Int /\ rest \in Nat /\ 1 + rest = LongestLen
      /\ LenLowBits <= rest /\ LenLowBits \in Nat
  BY Sizes
<1>2. /\ t = IF x.bit = 0 THEN T(x) ELSE H(x)
      /\ u = IF y.bit = 0 THEN T(y) ELSE H(y)
  BY DEF LenGet, LongLen, With
<1> HIDE DEF at, t, u
<1>3. <<name, 0, 0>> \in Ctx BY <1>1, CtxIs
<1>4. /\ Joint(L, r, s, x, y, 1) /\ x.bit \in Bit /\ y.bit \in Bit
      /\ x.used <= L => r.used <= L /\ x.bit = y.bit
  BY <1>3, JointBit
<1> HIDE DEF x, y
<1>5. Twin(L, x, y) /\ Twin(0, x, x) /\ Twin(0, y, y) BY <1>4, TwinIs, TwinSelf DEF Joint
<1>6. ASSUME NEW l, NEW b, NEW c, Twin(l, b, c)
      PROVE  Reads(l, b, c, T(b), T(c), rest) /\ Reads(l, b, c, H(b), H(c), rest)
  <2>1. Reads(l, b, c, T(b), T(c), LenLowBits) BY <1>1, <1>6, TreeReads
  <2>2. Reads(l, b, c, H(b), H(c), LongestLen - 1) BY <1>1, <1>6, LongLenReads
  <2> HIDE DEF T, H
  <2>3. Reads(l, b, c, T(b), T(c), rest) BY <1>1, <2>1, ReadsMore
  <2> QED BY <2>2, <2>3 DEF rest
<1> HIDE DEF T, H, rest
<1>7. x.bit = y.bit => Reads(L, x, y, t, u, rest) BY <1>2, <1>5, <1>6
<1>8. Reads(0, x, x, t, t, rest) /\ Reads(0, y, y, u, u, rest) BY <1>2, <1>5, <1>6
<1>9. Reads(L, r, s, t, u, 1 + rest) BY <1>1, <1>4, <1>7, <1>8, ReadsFork
<1> QED BY <1>1, <1>9 DEF t, u

LEMMA CostsDirectAdd ==
    ASSUME NEW r, NEW s, NEW x, NEW a \in Nat, NEW b \in Nat,
           CostsDirect(r, s, a), CostsDirect(s, x, b)
    PROVE  CostsDirect(r, x, a + b)
<1> SUFFICES ASSUME NEW c, NEW n \in Nat, NEW k \in Nat, NEW u \in Nat,
                    DirectChain(c, n), k + (a + b) <= n, Meets(c[k], r, u)
             PROVE  Meets(c[k + (a + b)], x, u)
  BY DEF CostsDirect
<1>1. k + a \in Nat /\ k + a <= n /\ (k + a) + b <= n /\ (k + a) + b = k + (a + b) OBVIOUS
<1>2. Meets(c[k + a], s, u) BY <1>1 DEF CostsDirect
<1>3. Meets(c[(k + a) + b], x, u) BY <1>1, <1>2 DEF CostsDirect
<1> QED BY <1>1, <1>3

\* Reads, whatever it costs.
Alike(L, r, s, t, u) ==
    /\ Later(r, t.r) /\ Later(s, u.r) /\ Twin(L, t.r, u.r) /\ t.m \in Nat /\ u.m \in Nat
    /\ t.r.used <= L => r.used <= L /\ t.m = u.m

LEMMA ReadsAlike ==
    ASSUME NEW L, NEW r, NEW s, NEW t, NEW u, NEW a, Reads(L, r, s, t, u, a)
    PROVE  Alike(L, r, s, t, u) /\ Costs(r, t.r, a) /\ Costs(s, u.r, a)
BY DEF Reads, Joint, Alike

LEMMA AlikeThen ==
    ASSUME NEW L, NEW r, NEW s, NEW x, NEW y, NEW t, NEW u,
           Later(r, x), Later(s, y), x.used <= L => r.used <= L, Alike(L, x, y, t, u)
    PROVE  Alike(L, r, s, t, u)
<1>1. Later(r, t.r) /\ Later(s, u.r) BY LaterIs DEF Alike
<1> QED BY <1>1 DEF Alike

LEMMA AlikeLate ==
    ASSUME NEW L, NEW r, NEW s, Twin(L, r, s), ~(r.used <= L), NEW t, NEW u,
           NEW v, NEW w, Alike(0, r, r, t, v), Alike(0, s, s, u, w)
    PROVE  Alike(L, r, s, t, u)
<1>1. /\ Later(r, t.r) /\ Later(s, u.r) /\ t.m \in Nat /\ u.m \in Nat
  BY DEF Alike
<1>2. Twin(L, t.r, u.r) /\ ~(t.r.used <= L) BY <1>1, TwinLate
<1> QED BY <1>1, <1>2 DEF Alike

\* DirectBits' loop.
DirectLoop(f, r, high, n) ==
    /\ f \in [0..n -> Got] /\ f[0] = [r |-> r, m |-> high]
    /\ \A k \in 1..n : f[k] = Bits(f[k - 1], DirectBit(f[k - 1].r))

LEMMA DirectRuns ==
    ASSUME NEW r \in Regs, NEW high \in Nat, NEW n \in Nat
    PROVE  \E f : DirectLoop(f, r, high, n) /\ DirectBits(r, high, n) = f[n]
<1> DEFINE start == [r |-> r, m |-> high]
           op(a) == With(DirectBit(a.r), LAMBDA b : Bits(a, b))
           Body(g) == [i \in 0..n |-> IF i = 0 THEN start
                                      ELSE With(g[i - 1], LAMBDA a : op(a))]
           made == CHOOSE g : g = Body(g)
           step == [k \in 1..n |-> [a \in Got |-> op(a)]]
<1>1. DirectBits(r, high, n) = made[n] BY DEF DirectBits, Repeat
<1>2. ASSUME NEW a \in Got
      PROVE  op(a) = Bits(a, DirectBit(a.r)) /\ op(a) \in Got
  <2>1. a.r \in Regs /\ a.m \in Nat BY DEF Got
  <2>2. DirectBit(a.r) \in Regs BY <2>1, DirectBitIs DEF Later
  <2>3. op(a) = Bits(a, DirectBit(a.r)) BY DEF With
  <2> HIDE DEF op
  <2>4. 2 * a.m + DirectBit(a.r).bit \in Nat BY <2>1, <2>2, BitsIs
  <2>5. Bits(a, DirectBit(a.r)) \in Got BY <2>2, <2>4 DEF Got, Bits
  <2> QED BY <2>3, <2>5
<1> HIDE DEF op
<1>3. start \in Got BY DEF Got
<1> HIDE DEF start
<1>4. Loop(n, Got, start, step) BY <1>2, <1>3 DEF Loop
<1>5. \A k \in 1..n, a \in Got : step[k][a] = op(a) OBVIOUS
<1> HIDE DEF step
<1>6. PICK f : Runs(f, n, Got, start, step) BY <1>4, LoopEnds
<1>7. \A i \in 1..n : f[i - 1] \in Got /\ f[i] = op(f[i - 1])
  <2> SUFFICES ASSUME NEW i \in 1..n PROVE f[i - 1] \in Got /\ f[i] = op(f[i - 1]) OBVIOUS
  <2>1. i - 1 \in 0..n OBVIOUS
  <2> QED BY <1>5, <1>6, <2>1 DEF Runs
<1>8. f = Body(f) BY <1>6, <1>7 DEF Runs, With
<1>9. made = Body(made) BY <1>8
<1> HIDE DEF made
<1>10. made[0] = start /\ \A k \in 1..n : made[k - 1] \in Got => made[k] = step[k][made[k - 1]]
  BY <1>5, <1>9 DEF With
<1>11. \A k \in 0..n : made[k] = f[k] BY <1>6, <1>10, RunsAre
<1>12. made[n] = f[n] BY <1>11
<1>13. DirectLoop(f, r, high, n)
  BY <1>2, <1>6, <1>7 DEF DirectLoop, Runs, start
<1> QED BY <1>1, <1>12, <1>13

LEMMA DirectReads ==
    ASSUME NEW L, NEW r, NEW s, Twin(L, r, s), NEW high \in Nat, NEW n \in Nat
    PROVE  LET t == DirectBits(r, high, n)
               u == DirectBits(s, high, n)
           IN  Alike(L, r, s, t, u) /\ CostsDirect(r, t.r, n)
<1>1. r \in Regs /\ s \in Regs /\ L \in Nat /\ r.used \in Nat BY TwinIs
<1>2. PICK f : DirectLoop(f, r, high, n) /\ DirectBits(r, high, n) = f[n]
  BY <1>1, DirectRuns
<1>3. PICK g : DirectLoop(g, s, high, n) /\ DirectBits(s, high, n) = g[n]
  BY <1>1, DirectRuns
<1> DEFINE P == {k \in Nat : k <= n =>
                    Alike(L, r, s, f[k], g[k]) /\ CostsDirect(r, f[k].r, k)}
<1>4. 0 \in P
  <2>1. f[0] = [r |-> r, m |-> high] /\ g[0] = [r |-> s, m |-> high] BY <1>2, <1>3 DEF DirectLoop
  <2>2. Alike(L, r, s, f[0], g[0]) BY <1>1, <2>1, LaterSelf DEF Alike
  <2>3. CostsDirect(r, f[0].r, 0) BY <2>1, CostsNothing
  <2> QED BY <2>2, <2>3
<1>5. ASSUME NEW k \in 1..n, k - 1 \in P PROVE k \in P
  <2> DEFINE j == k - 1
             x == DirectBit(f[j].r)
             y == DirectBit(g[j].r)
  <2>1. j \in Nat /\ k = j + 1 /\ j <= n /\ k \in Nat OBVIOUS
  <2>2. Alike(L, r, s, f[j], g[j]) /\ CostsDirect(r, f[j].r, j) BY <1>5, <2>1
  <2>3. f[k] = Bits(f[j], x) /\ g[k] = Bits(g[j], y) BY <1>2, <1>3 DEF DirectLoop
  <2> HIDE DEF j
  <2>4. /\ f[j].m \in Nat /\ g[j].m \in Nat /\ Twin(L, f[j].r, g[j].r)
        /\ (f[j].r.used <= L => r.used <= L /\ f[j].m = g[j].m)
        /\ Later(r, f[j].r) /\ Later(s, g[j].r)
    BY <2>2 DEF Alike
  <2>5. f[j].r \in Regs /\ g[j].r \in Regs BY <2>4, TwinIs
  <2>6. Twin(L, x, y) BY <2>4, TwinDirect
  <2>7. Later(f[j].r, x) /\ CostsDirect(f[j].r, x, 1) BY <2>5, DirectBitIs
  <2>8. Later(g[j].r, y) BY <2>5, DirectBitIs
  <2> HIDE DEF x, y
  <2>9. /\ f[k].r = x /\ f[k].m = 2 * f[j].m + x.bit
        /\ g[k].r = y /\ g[k].m = 2 * g[j].m + y.bit
    BY <2>3 DEF Bits
  <2>10. CostsDirect(r, x, j + 1) BY <2>1, <2>2, <2>7, CostsDirectAdd
  <2>11. Later(r, x) /\ Later(s, y) BY <2>4, <2>7, <2>8, LaterIs
  <2>12. x \in Regs /\ y \in Regs BY <2>6, TwinIs
  <2>13. f[k].m \in Nat /\ g[k].m \in Nat BY <2>4, <2>9, <2>12, BitsIs
  <2>14. x.used \in Nat /\ f[j].r.used \in Nat /\ f[j].r.used <= x.used
    BY <2>5, <2>7, <2>12, RegsAre DEF Later
  <2>15. x.used <= L => f[j].r.used <= L /\ x.bit = y.bit BY <1>1, <2>6, <2>14 DEF Twin, Agree
  <2>16. f[k].r.used <= L => r.used <= L /\ f[k].m = g[k].m BY <2>4, <2>9, <2>15
  <2>17. Alike(L, r, s, f[k], g[k]) BY <2>6, <2>9, <2>11, <2>13, <2>16 DEF Alike
  <2> QED BY <2>1, <2>9, <2>10, <2>17
<1>6. P \in SUBSET Nat OBVIOUS
<1> HIDE DEF P
<1>7. \A k \in 0..n : k \in P BY <1>4, <1>5, <1>6, Throughout
<1>8. Alike(L, r, s, f[n], g[n]) /\ CostsDirect(r, f[n].r, n)
  BY <1>7 DEF P
<1> QED BY <1>2, <1>3, <1>8

\* What DistGet reads after the slot, and what it costs.
DistTail(s) ==
    LET bits == (s.m \div 2) - 1
        high == 2 + (s.m % 2)
    IN  IF s.m < StartPosModelIndex THEN s
        ELSE IF s.m < EndPosModelIndex
        THEN Plus(ReverseGet(s.r, "spec", high * Pow2[bits], bits), high * Pow2[bits])
        ELSE LET d == DirectBits(s.r, high, bits - AlignBits)
             IN  Plus(ReverseGet(d.r, "align", 0, AlignBits), d.m * Pow2[AlignBits])
NearFooter == LongestFooter(EndPosModelIndex - 1)
FarFooter == LongestFooter(NumSlots - 1) - AlignBits
TailCosts(r, x) ==
    \/ Costs(r, x, NearFooter)
    \/ \E z : CostsDirect(r, z, FarFooter) /\ Costs(z, x, AlignBits)
DistCosts(r, x) == \E y : Costs(r, y, SlotBits) /\ TailCosts(y, x)

LEMMA Footers ==
    /\ EndPosModelIndex \in Nat /\ NumSlots \in Nat /\ AlignBits \in Nat \ {0}
    /\ EndPosModelIndex > 4 /\ EndPosModelIndex < NumSlots
    /\ NearFooter \in Nat /\ FarFooter \in Nat
    /\ \A m \in Nat : m >= 4 /\ m < EndPosModelIndex =>
          (m \div 2) - 1 \in Nat /\ (m \div 2) - 1 <= NearFooter
    /\ \A m \in Nat : m >= EndPosModelIndex /\ m < NumSlots =>
          /\ ((m \div 2) - 1) - AlignBits \in Nat /\ ((m \div 2) - 1) - AlignBits <= FarFooter
<1>1. /\ EndPosModelIndex \in Nat /\ AlignBits \in Nat \ {0} /\ SlotBits \in Nat
      /\ EndPosModelIndex % 2 = 0 /\ EndPosModelIndex \div 2 > AlignBits + 1
  BY CodingParams
<1>2. NumSlots \in Nat /\ EndPosModelIndex < NumSlots BY <1>1, Powers, SlotsReach DEF NumSlots
<1>3. EndPosModelIndex > 4 BY <1>1
<1>4. /\ NearFooter = ((EndPosModelIndex - 1) \div 2) - 1
      /\ FarFooter = (((NumSlots - 1) \div 2) - 1) - AlignBits
  BY DEF NearFooter, FarFooter, LongestFooter
<1>5. NearFooter \in Nat BY <1>1, <1>3, <1>4
<1>6. \A m \in Nat : m >= 4 /\ m < EndPosModelIndex =>
          (m \div 2) - 1 \in Nat /\ (m \div 2) - 1 <= NearFooter
  BY <1>1, <1>3, <1>4
<1>7. \A m \in Nat : m >= EndPosModelIndex /\ m < NumSlots =>
          /\ ((m \div 2) - 1) - AlignBits \in Nat /\ ((m \div 2) - 1) - AlignBits <= FarFooter
  BY <1>1, <1>2, <1>4
<1>8. FarFooter \in Nat
  <2>1. NumSlots - 1 \in Nat /\ NumSlots - 1 >= EndPosModelIndex /\ NumSlots - 1 < NumSlots
    BY <1>1, <1>2
  <2> QED BY <1>4, <1>7, <2>1
<1> QED BY <1>1, <1>2, <1>3, <1>5, <1>6, <1>7, <1>8

LEMMA TailReads ==
    ASSUME NEW L, NEW t \in Got, NEW u \in Got, Twin(L, t.r, u.r), t.m = u.m, t.m < NumSlots
    PROVE  Alike(L, t.r, u.r, DistTail(t), DistTail(u)) /\ TailCosts(t.r, DistTail(t).r)
<1> DEFINE m == t.m
           bits == (m \div 2) - 1
           high == 2 + (m % 2)
<1>1. /\ t.r \in Regs /\ u.r \in Regs /\ L \in Nat /\ m \in Nat /\ t.r.used \in Nat
  BY TwinIs DEF Got
<1>2. /\ EndPosModelIndex \in Nat /\ NumSlots \in Nat /\ AlignBits \in Nat
      /\ EndPosModelIndex > 4 /\ EndPosModelIndex < NumSlots
      /\ NearFooter \in Nat /\ FarFooter \in Nat
  BY Footers
<1>3. high \in Nat BY <1>1
<1>4. Later(t.r, t.r) /\ Later(u.r, u.r) BY <1>1, LaterSelf
<1>5. "spec" \in Names /\ "align" \in Names /\ StartPosModelIndex = 4
  BY DEF Names, StartPosModelIndex
<1>6. CASE m < 4
  <2>1. DistTail(t) = t /\ DistTail(u) = u BY <1>5, <1>6 DEF DistTail
  <2>2. Alike(L, t.r, u.r, t, u) BY <1>1, <1>4 DEF Alike
  <2>3. Costs(t.r, t.r, NearFooter)
    <3>1. 0 \in Nat /\ 0 <= NearFooter BY <1>2
    <3> QED BY <1>2, <3>1, CostsNothing, CostsMore
  <2> QED BY <2>1, <2>2, <2>3 DEF TailCosts
<1>7. CASE m >= 4 /\ m < EndPosModelIndex
  <2>1. bits \in Nat /\ bits <= NearFooter BY <1>1, <1>7, Footers
  <2> DEFINE base == high * Pow2[bits]
             v == ReverseGet(t.r, "spec", base, bits)
             w == ReverseGet(u.r, "spec", base, bits)
  <2>2. DistTail(t) = Plus(v, base) /\ DistTail(u) = Plus(w, base)
    <3>1. ~(m < 4) BY <1>1, <1>7
    <3> QED BY <1>5, <1>7, <3>1 DEF DistTail
  <2>3. base \in Nat
    <3>1. Pow2[bits] \in Nat BY <2>1, Powers
    <3> HIDE DEF high
    <3> QED BY <1>3, <3>1
  <2> HIDE DEF base, bits, high
  <2>4. Reads(L, t.r, u.r, v, w, bits) /\ v \in Got /\ w \in Got
    BY <1>5, <2>1, <2>3, ReverseReads
  <2> HIDE DEF v, w
  <2>5. Reads(L, t.r, u.r, Plus(v, base), Plus(w, base), bits) BY <2>3, <2>4, PlusReads
  <2>6. Reads(L, t.r, u.r, Plus(v, base), Plus(w, base), NearFooter)
    BY <1>2, <2>1, <2>5, ReadsMore
  <2> QED BY <2>2, <2>6, ReadsAlike DEF TailCosts
<1>8. CASE m >= EndPosModelIndex
  <2> DEFINE n == bits - AlignBits
             d == DirectBits(t.r, high, n)
             e == DirectBits(u.r, high, n)
             v == ReverseGet(d.r, "align", 0, AlignBits)
             w == ReverseGet(e.r, "align", 0, AlignBits)
             align == Pow2[AlignBits]
             x == Plus(v, d.m * align)
             y == Plus(w, e.m * align)
  <2>1. n \in Nat /\ n <= FarFooter BY <1>1, <1>8, Footers
  <2>2. DistTail(t) = x /\ DistTail(u) = y
    <3>1. ~(m < 4) /\ ~(m < EndPosModelIndex) BY <1>1, <1>2, <1>8
    <3> QED BY <1>5, <3>1 DEF DistTail
  <2> HIDE DEF n, high
  <2>3. Alike(L, t.r, u.r, d, e) /\ CostsDirect(t.r, d.r, n) BY <1>3, <2>1, DirectReads
  <2> HIDE DEF d, e
  <2>4. d.m \in Nat /\ e.m \in Nat /\ Twin(L, d.r, e.r) /\ align \in Nat /\ 0 \in Int
    BY <1>2, <2>3, Powers DEF Alike
  <2>5. Reads(L, d.r, e.r, v, w, AlignBits) /\ v \in Got /\ w \in Got
    BY <1>2, <1>5, <2>4, ReverseReads
  <2> HIDE DEF v, w, align
  <2>6. v.m \in Nat /\ w.m \in Nat BY <2>5 DEF Got
  <2>7. /\ x.r = v.r /\ x.m = v.m + d.m * align
        /\ y.r = w.r /\ y.m = w.m + e.m * align
    BY <2>5 DEF Got, Plus
  <2> HIDE DEF x, y
  <2>8. x.m \in Nat /\ y.m \in Nat
    <3>1. d.m * align \in Nat /\ e.m * align \in Nat BY <2>4
    <3> QED BY <2>6, <2>7, <3>1
  <2>9. Alike(L, d.r, e.r, v, w) /\ Costs(d.r, v.r, AlignBits) BY <2>5, ReadsAlike
  <2>10. x.r.used <= L => d.r.used <= L /\ d.m = e.m /\ v.m = w.m
    BY <2>3, <2>7, <2>9 DEF Alike
  <2>11. x.r.used <= L => x.m = y.m BY <2>7, <2>10
  <2>12. Alike(L, d.r, e.r, x, y) BY <2>7, <2>8, <2>9, <2>10, <2>11 DEF Alike
  <2>13. Later(t.r, d.r) /\ Later(u.r, e.r) /\ (d.r.used <= L => t.r.used <= L)
    BY <2>3 DEF Alike
  <2>14. Alike(L, t.r, u.r, x, y) BY <2>12, <2>13, AlikeThen
  <2>15. CostsDirect(t.r, d.r, FarFooter) BY <1>2, <2>1, <2>3, CostsMore
  <2>16. TailCosts(t.r, x.r) BY <2>7, <2>9, <2>15 DEF TailCosts
  <2> QED BY <2>2, <2>14, <2>16
<1> QED BY <1>1, <1>2, <1>6, <1>7, <1>8

LEMMA DistReads ==
    ASSUME NEW L, NEW r, NEW s, Twin(L, r, s), NEW c \in Nat, NEW d \in Nat,
           r.used <= L => c = d
    PROVE  LET t == DistGet(r, c)
               u == DistGet(s, d)
           IN  Alike(L, r, s, t, u) /\ DistCosts(r, t.r)
<1> DEFINE base(n) == Smaller(n, 3) * Pow2[SlotBits]
           v == TreeGet(r, "slot", base(c), SlotBits)
           w == TreeGet(s, "slot", base(d), SlotBits)
           t == DistGet(r, c)
           u == DistGet(s, d)
<1>1. /\ L \in Nat /\ r \in Regs /\ s \in Regs /\ SlotBits \in Nat /\ "slot" \in Names
      /\ Pow2[SlotBits] \in Nat
  BY TwinIs, Sizes, Powers DEF Names
<1>2. t = DistTail(v) /\ u = DistTail(w) BY DEF DistGet, DistTail, With
<1>3. base(c) \in Int /\ base(d) \in Int /\ (r.used <= L => base(c) = base(d))
  <2> DEFINE size == Pow2[SlotBits]
             e == Smaller(c, 3)
             f == Smaller(d, 3)
  <2>1. e \in Int /\ f \in Int BY DEF Smaller
  <2>2. size \in Nat BY <1>1
  <2>3. r.used <= L => e = f OBVIOUS
  <2> HIDE DEF size, e, f
  <2>4. e * size \in Int /\ f * size \in Int BY <2>1, <2>2
  <2> QED BY <2>3, <2>4 DEF size, e, f
<1> HIDE DEF base, t, u
<1>4. Reads(L, r, s, v, w, SlotBits) /\ v.m < NumSlots /\ w.m < NumSlots /\ v \in Got /\ w \in Got
  BY <1>1, <1>3, TreeReads DEF NumSlots
<1> HIDE DEF v, w
<1>5. Alike(L, r, s, v, w) /\ Costs(r, v.r, SlotBits) BY <1>4, ReadsAlike
<1>6. Twin(L, v.r, w.r) /\ (v.r.used <= L => r.used <= L /\ v.m = w.m) /\ Later(r, v.r)
      /\ Later(s, w.r)
  BY <1>5 DEF Alike
<1>7. v.r \in Regs /\ w.r \in Regs BY <1>4 DEF Got
<1>8. Twin(0, v.r, v.r) /\ Twin(0, w.r, w.r) BY <1>7, TwinSelf
<1>9. /\ Alike(0, v.r, v.r, t, t) /\ TailCosts(v.r, t.r) /\ Alike(0, w.r, w.r, u, u)
  BY <1>2, <1>4, <1>8, TailReads
<1>10. Alike(L, v.r, w.r, t, u)
  <2>1. CASE v.r.used <= L BY <1>2, <1>4, <1>6, <2>1, TailReads
  <2>2. CASE ~(v.r.used <= L) BY <1>6, <1>9, <2>2, AlikeLate
  <2> QED BY <2>1, <2>2
<1>11. Alike(L, r, s, t, u) BY <1>6, <1>10, AlikeThen
<1>12. DistCosts(r, t.r) BY <1>5, <1>9 DEF DistCosts
<1> QED BY <1>11, <1>12 DEF t, u

-----------------------------------------------------------------------------
(* What a symbol reads *)

Kinds == {"lit", "shortRep", "match", "rep"}
Said(x) ==
    /\ x.kind \in Kinds /\ x.len \in Nat
    /\ x.kind = "lit" => x.m < Byte
    /\ x.kind \in {"shortRep", "rep"} => x.m \in 0..3
Tells(L, r, s, x, y) ==
    /\ Alike(L, r, s, x, y) /\ Said(x) /\ Said(y)
    /\ x.r.used <= L => x.kind = y.kind /\ x.len = y.len

LEMMA Fork ==
    ASSUME NEW L, NEW r, NEW s, NEW x, NEW y, NEW t, NEW u,
           Joint(L, r, s, x, y, 1), x.used <= L => r.used <= L /\ x.bit = y.bit,
           x.bit = y.bit => Tells(L, x, y, t, u),
           Tells(0, x, x, t, t), Tells(0, y, y, u, u)
    PROVE  Tells(L, r, s, t, u)
<1>1. Twin(L, x, y) /\ Later(r, x) /\ Later(s, y) BY DEF Joint
<1>2. CASE x.bit = y.bit
  <2>1. Alike(L, x, y, t, u) BY <1>2 DEF Tells
  <2>2. Alike(L, r, s, t, u) BY <1>1, <2>1, AlikeThen
  <2> QED BY <1>2, <2>2 DEF Tells
<1>3. CASE x.bit # y.bit
  <2>1. ~(x.used <= L) BY <1>3
  <2>2. Alike(0, x, x, t, t) /\ Alike(0, y, y, u, u) BY DEF Tells
  <2>3. Alike(L, x, y, t, u) BY <1>1, <2>1, <2>2, AlikeLate
  <2>4. Alike(L, r, s, t, u) BY <1>1, <2>3, AlikeThen
  <2>5. ~(t.r.used <= L) BY <2>1, <2>3 DEF Alike
  <2> QED BY <2>4, <2>5 DEF Tells
<1> QED BY <1>2, <1>3

\* The bit that a fork is on.
LEMMA FlagBit ==
    ASSUME NEW L, NEW r, NEW s, Twin(L, r, s), NEW name \in Names, NEW i \in Int, NEW j \in Int
    PROVE  LET x == DecodeBit(r, <<name, i, j>>)
               y == DecodeBit(s, <<name, i, j>>)
           IN  /\ Joint(L, r, s, x, y, 1)
               /\ x.used <= L => r.used <= L /\ x.bit = y.bit
               /\ Later(r, x) /\ Later(s, y) /\ Costs(r, x, 1) /\ Twin(L, x, y)
               /\ Twin(0, x, x) /\ Twin(0, y, y) /\ x.at = r.at /\ y.at = s.at
               /\ x.bit \in Bit /\ y.bit \in Bit
<1>1. <<name, i, j>> \in Ctx BY CtxIs
<1> DEFINE x == DecodeBit(r, <<name, i, j>>)
           y == DecodeBit(s, <<name, i, j>>)
<1>2. /\ Joint(L, r, s, x, y, 1)
      /\ x.used <= L => r.used <= L /\ x.bit = y.bit
      /\ x.bit \in Bit /\ y.bit \in Bit
  BY <1>1, JointBit
<1> HIDE DEF x, y
<1>3. /\ Joint(L, r, s, x, y, 1) /\ Later(r, x) /\ Later(s, y) /\ Costs(r, x, 1) /\ Twin(L, x, y)
  BY <1>1, <1>2, JointBit DEF Joint, x, y
<1>4. Twin(0, x, x) /\ Twin(0, y, y) BY <1>3, TwinIs, TwinSelf
<1> QED BY <1>2, <1>3, <1>4 DEF Later, x, y

LEMMA LiteralTells ==
    ASSUME NEW L, NEW r, NEW s, Twin(L, r, s)
    PROVE  LET x == Literal(r)
               y == Literal(s)
           IN  Tells(L, r, s, x, y) /\ Costs(r, x.r, ByteBits)
<1> DEFINE x == Literal(r)
           y == Literal(s)
           T(b) == IF b.at.state < NumLitStates THEN TreeGet(b, "lit", b.at.lit, ByteBits)
                   ELSE MatchedGet(b, b.at.lit, b.at.match)
           t == T(r)
           u == T(s)
<1>1. r \in Regs /\ s \in Regs /\ r.at = s.at BY TwinIs
<1>2. r.at.lit \in Int /\ r.at.match \in Int /\ ByteBits \in Nat /\ "lit" \in Names
  BY <1>1, RegsAre, Sizes DEF At4, Names
<1>3. Reads(L, r, s, t, u, ByteBits) /\ t.m < Byte /\ u.m < Byte
  <2>1. CASE r.at.state < NumLitStates
    <3>1. /\ t = TreeGet(r, "lit", r.at.lit, ByteBits)
          /\ u = TreeGet(s, "lit", r.at.lit, ByteBits)
      BY <1>1, <2>1
    <3> HIDE DEF t, u
    <3> QED BY <1>2, <3>1, TreeReads DEF Byte
  <2>2. CASE ~(r.at.state < NumLitStates)
    <3>1. /\ t = MatchedGet(r, r.at.lit, r.at.match)
          /\ u = MatchedGet(s, r.at.lit, r.at.match)
      BY <1>1, <2>2
    <3> HIDE DEF t, u
    <3> QED BY <1>2, <3>1, MatchedReads
  <2> QED BY <2>1, <2>2
<1>4. x = Sym("lit", t, 0) /\ y = Sym("lit", u, 0) BY DEF Literal
<1> HIDE DEF t, u, x, y
<1>5. /\ x.kind = "lit" /\ x.r = t.r /\ x.m = t.m /\ x.len = 0
      /\ y.kind = "lit" /\ y.r = u.r /\ y.m = u.m /\ y.len = 0
  BY <1>4 DEF Sym
<1>6. Alike(L, r, s, t, u) /\ Costs(r, t.r, ByteBits) BY <1>3, ReadsAlike
<1>7. Alike(L, r, s, x, y) BY <1>5, <1>6 DEF Alike
<1>8. Said(x) /\ Said(y) BY <1>3, <1>5 DEF Said, Kinds
<1> QED BY <1>5, <1>6, <1>7, <1>8 DEF Tells, x, y

LEMMA MatchTells ==
    ASSUME NEW L, NEW r, NEW s, Twin(L, r, s)
    PROVE  LET x == Match(r)
               y == Match(s)
           IN  /\ Tells(L, r, s, x, y)
               /\ \E z : Costs(r, z, LongestLen) /\ DistCosts(z, x.r)
<1> DEFINE l == LenGet(r, "len", "lenHigh", r.at.posState)
           k == LenGet(s, "len", "lenHigh", s.at.posState)
           t == DistGet(l.r, l.m)
           u == DistGet(k.r, k.m)
           x == Match(r)
           y == Match(s)
<1>1. r \in Regs /\ s \in Regs /\ r.at = s.at /\ r.at.posState \in Int
  BY TwinIs, RegsAre DEF At4
<1>2. Reads(L, r, s, l, k, LongestLen) BY <1>1, LenReads DEF Names
<1>3. x = Sym("match", t, l.m) /\ y = Sym("match", u, k.m) BY DEF Match, With
<1> HIDE DEF l, k, x, y
<1>4. Alike(L, r, s, l, k) /\ Costs(r, l.r, LongestLen) BY <1>2, ReadsAlike
<1>5. /\ Later(r, l.r) /\ Later(s, k.r) /\ Twin(L, l.r, k.r) /\ l.m \in Nat /\ k.m \in Nat
      /\ l.r.used <= L => r.used <= L /\ l.m = k.m
  BY <1>4 DEF Alike
<1>6. Alike(L, l.r, k.r, t, u) /\ DistCosts(l.r, t.r) BY <1>5, DistReads
<1> HIDE DEF t, u
<1>7. Alike(L, r, s, t, u) BY <1>5, <1>6, AlikeThen
<1>8. /\ x.kind = "match" /\ x.r = t.r /\ x.m = t.m /\ x.len = l.m
      /\ y.kind = "match" /\ y.r = u.r /\ y.m = u.m /\ y.len = k.m
  BY <1>3 DEF Sym
<1>9. Alike(L, r, s, x, y) BY <1>7, <1>8 DEF Alike
<1>10. Said(x) /\ Said(y) BY <1>5, <1>8 DEF Said, Kinds
<1>11. x.r.used <= L => x.len = y.len BY <1>5, <1>6, <1>8 DEF Alike
<1>12. Tells(L, r, s, x, y) BY <1>8, <1>9, <1>10, <1>11 DEF Tells
<1>13. DistCosts(l.r, x.r) BY <1>6, <1>8
<1> QED BY <1>4, <1>12, <1>13 DEF x, y

LEMMA RepOfTells ==
    ASSUME NEW L, NEW r, NEW s, Twin(L, r, s), NEW c \in 0..3, NEW d \in 0..3,
           r.used <= L => c = d
    PROVE  LET x == RepOf(r, c)
               y == RepOf(s, d)
           IN  Tells(L, r, s, x, y) /\ Costs(r, x.r, LongestLen)
<1> DEFINE l == LenGet(r, "repLen", "repLenHigh", r.at.posState)
           k == LenGet(s, "repLen", "repLenHigh", s.at.posState)
           x == RepOf(r, c)
           y == RepOf(s, d)
<1>1. r \in Regs /\ s \in Regs /\ r.at = s.at /\ r.at.posState \in Int
  BY TwinIs, RegsAre DEF At4
<1>2. Reads(L, r, s, l, k, LongestLen) BY <1>1, LenReads DEF Names
<1>3. /\ x = Sym("rep", [r |-> l.r, m |-> c], l.m) /\ y = Sym("rep", [r |-> k.r, m |-> d], k.m)
  BY DEF RepOf, With
<1> HIDE DEF l, k, x, y
<1>4. Alike(L, r, s, l, k) /\ Costs(r, l.r, LongestLen) BY <1>2, ReadsAlike
<1>5. /\ x.kind = "rep" /\ x.r = l.r /\ x.m = c /\ x.len = l.m
      /\ y.kind = "rep" /\ y.r = k.r /\ y.m = d /\ y.len = k.m
  BY <1>3 DEF Sym
<1>6. Alike(L, r, s, x, y) BY <1>4, <1>5 DEF Alike
<1>7. Said(x) /\ Said(y) BY <1>4, <1>5 DEF Said, Kinds, Alike
<1>8. x.r.used <= L => x.len = y.len BY <1>4, <1>5 DEF Alike
<1> QED BY <1>4, <1>5, <1>6, <1>7, <1>8 DEF Tells, x, y

Short(b) == Sym("shortRep", [r |-> b, m |-> 0], 0)
LEMMA ShortTells ==
    ASSUME NEW L, NEW r, NEW s, Twin(L, r, s)
    PROVE  Tells(L, r, s, Short(r), Short(s)) /\ Costs(r, Short(r).r, 0)
<1> DEFINE x == Short(r)
           y == Short(s)
<1>1. /\ x.kind = "shortRep" /\ x.r = r /\ x.m = 0 /\ x.len = 0
      /\ y.kind = "shortRep" /\ y.r = s /\ y.m = 0 /\ y.len = 0
  BY DEF Short, Sym
<1> HIDE DEF x, y
<1>2. Later(r, r) /\ Later(s, s) BY TwinIs, LaterSelf
<1>3. Alike(L, r, s, x, y) BY <1>1, <1>2 DEF Alike
<1>4. Said(x) /\ Said(y) BY <1>1 DEF Said, Kinds
<1>5. Costs(r, x.r, 0) BY <1>1, CostsNothing
<1> QED BY <1>1, <1>3, <1>4, <1>5 DEF Tells, x, y

LEMMA LastRepTells ==
    ASSUME NEW L, NEW r, NEW s, Twin(L, r, s)
    PROVE  Tells(L, r, s, LastRep(r), LastRep(s)) /\ Costs(r, LastRep(r).r, 1 + (LongestLen))
<1> DEFINE x == DecodeBit(r, <<"isRep0Long", r.at.state, r.at.posState>>)
           y == DecodeBit(s, <<"isRep0Long", r.at.state, r.at.posState>>)
           A(b) == Short(b)
           B(b) == RepOf(b, 0)
           most == LongestLen
           t == LastRep(r)
           u == LastRep(s)
<1>1. /\ r \in Regs /\ s \in Regs /\ r.at = s.at /\ r.at.state \in Int /\ r.at.posState \in Int
      /\ 0 \in Int /\ "isRep0Long" \in Names
  BY TwinIs, RegsAre DEF At4, Names
<1>2. most \in Nat /\ 0 \in Nat /\ 0 <= most BY Sizes
<1>3. /\ Joint(L, r, s, x, y, 1)
      /\ x.used <= L => r.used <= L /\ x.bit = y.bit
      /\ Costs(r, x, 1) /\ Twin(L, x, y) /\ Twin(0, x, x) /\ Twin(0, y, y)
      /\ x.bit \in Bit /\ y.bit \in Bit /\ x.at = r.at /\ y.at = s.at
  BY <1>1, FlagBit
<1>4. /\ t = IF x.bit = 0 THEN A(x) ELSE B(x)
      /\ u = IF y.bit = 0 THEN A(y) ELSE B(y)
  BY <1>1, <1>3 DEF LastRep, With, Short
<1> HIDE DEF t, u
<1> HIDE DEF x, y
<1>5. ASSUME NEW l, NEW b, NEW c, Twin(l, b, c)
      PROVE  /\ Tells(l, b, c, A(b), A(c)) /\ Costs(b, A(b).r, 0)
             /\ Tells(l, b, c, B(b), B(c)) /\ Costs(b, B(b).r, most)
  BY <1>5, ShortTells, RepOfTells
<1> HIDE DEF A, B, most
<1>6. Tells(L, r, s, t, u)
  <2>1. x.bit = y.bit => Tells(L, x, y, t, u) BY <1>4, <1>3, <1>5
  <2>2. Tells(0, x, x, t, t) /\ Tells(0, y, y, u, u) BY <1>4, <1>3, <1>5
  <2> QED BY <1>3, <2>1, <2>2, Fork
<1>7. Costs(x, A(x).r, most) /\ Costs(x, B(x).r, most) BY <1>2, <1>3, <1>5, CostsMore
<1>8. Costs(x, t.r, most) BY <1>4, <1>7
<1>9. Costs(r, t.r, 1 + most) BY <1>2, <1>3, <1>8, CostsAdd
<1> QED BY <1>6, <1>9 DEF most, t, u

\* One of the two oldest distances.
Oldest(r) == LET g2 == DecodeBit(r, <<"isRepG2", r.at.state, 0>>) IN RepOf(g2, 2 + g2.bit)
LEMMA OldestTells ==
    ASSUME NEW L, NEW r, NEW s, Twin(L, r, s)
    PROVE  Tells(L, r, s, Oldest(r), Oldest(s)) /\ Costs(r, Oldest(r).r, 1 + LongestLen)
<1> DEFINE x == DecodeBit(r, <<"isRepG2", r.at.state, 0>>)
           y == DecodeBit(s, <<"isRepG2", r.at.state, 0>>)
           t == Oldest(r)
           u == Oldest(s)
<1>1. /\ r \in Regs /\ s \in Regs /\ r.at = s.at /\ r.at.state \in Int
      /\ 0 \in Int /\ "isRepG2" \in Names
  BY TwinIs, RegsAre DEF At4, Names
<1>2. LongestLen \in Nat BY Sizes
<1>3. t = RepOf(x, 2 + x.bit) /\ u = RepOf(y, 2 + y.bit) BY <1>1 DEF Oldest
<1> HIDE DEF t, u
<1>4. /\ Joint(L, r, s, x, y, 1)
      /\ x.used <= L => r.used <= L /\ x.bit = y.bit
      /\ Costs(r, x, 1) /\ Twin(L, x, y) /\ Later(r, x) /\ Later(s, y)
      /\ x.bit \in Bit /\ y.bit \in Bit
  BY <1>1, FlagBit
<1> HIDE DEF x, y
<1> DEFINE c == 2 + x.bit
           d == 2 + y.bit
<1>5. c \in 0..3 /\ d \in 0..3 BY <1>4 DEF Bit
<1>6. x.used <= L => c = d BY <1>4
<1> HIDE DEF c, d
<1>7. Tells(L, x, y, t, u) /\ Costs(x, t.r, LongestLen)
  <2>1. t = RepOf(x, c) /\ u = RepOf(y, d) BY <1>3 DEF c, d
  <2> QED BY <1>4, <1>5, <1>6, <2>1, RepOfTells
<1>8. Tells(L, r, s, t, u)
  <2>1. Alike(L, x, y, t, u) BY <1>7 DEF Tells
  <2>2. Alike(L, r, s, t, u) BY <1>4, <2>1, AlikeThen
  <2> QED BY <1>7, <2>2 DEF Tells
<1>9. Costs(r, t.r, 1 + LongestLen) BY <1>2, <1>4, <1>7, CostsAdd
<1> QED BY <1>8, <1>9 DEF t, u

LEMMA OlderRepTells ==
    ASSUME NEW L, NEW r, NEW s, Twin(L, r, s)
    PROVE  Tells(L, r, s, OlderRep(r), OlderRep(s)) /\ Costs(r, OlderRep(r).r, 1 + (1 + LongestLen))
<1> DEFINE x == DecodeBit(r, <<"isRepG1", r.at.state, 0>>)
           y == DecodeBit(s, <<"isRepG1", r.at.state, 0>>)
           A(b) == RepOf(b, 1)
           B(b) == Oldest(b)
           most == 1 + LongestLen
           t == OlderRep(r)
           u == OlderRep(s)
<1>1. /\ r \in Regs /\ s \in Regs /\ r.at = s.at /\ r.at.state \in Int /\ r.at.posState \in Int
      /\ 0 \in Int /\ "isRepG1" \in Names
  BY TwinIs, RegsAre DEF At4, Names
<1>2. most \in Nat /\ LongestLen \in Nat /\ LongestLen <= most BY Sizes
<1>3. /\ Joint(L, r, s, x, y, 1)
      /\ x.used <= L => r.used <= L /\ x.bit = y.bit
      /\ Costs(r, x, 1) /\ Twin(L, x, y) /\ Twin(0, x, x) /\ Twin(0, y, y)
      /\ x.bit \in Bit /\ y.bit \in Bit /\ x.at = r.at /\ y.at = s.at
  BY <1>1, FlagBit
<1>4. /\ t = IF x.bit = 0 THEN A(x) ELSE B(x)
      /\ u = IF y.bit = 0 THEN A(y) ELSE B(y)
  BY <1>1, <1>3 DEF OlderRep, With, Short, Oldest
<1> HIDE DEF t, u
<1> HIDE DEF x, y
<1>5. ASSUME NEW l, NEW b, NEW c, Twin(l, b, c)
      PROVE  /\ Tells(l, b, c, A(b), A(c)) /\ Costs(b, A(b).r, LongestLen)
             /\ Tells(l, b, c, B(b), B(c)) /\ Costs(b, B(b).r, most)
  BY <1>5, RepOfTells, OldestTells
<1> HIDE DEF A, B, most
<1>6. Tells(L, r, s, t, u)
  <2>1. x.bit = y.bit => Tells(L, x, y, t, u) BY <1>4, <1>3, <1>5
  <2>2. Tells(0, x, x, t, t) /\ Tells(0, y, y, u, u) BY <1>4, <1>3, <1>5
  <2> QED BY <1>3, <2>1, <2>2, Fork
<1>7. Costs(x, A(x).r, most) /\ Costs(x, B(x).r, most) BY <1>2, <1>3, <1>5, CostsMore
<1>8. Costs(x, t.r, most) BY <1>4, <1>7
<1>9. Costs(r, t.r, 1 + most) BY <1>2, <1>3, <1>8, CostsAdd
<1> QED BY <1>6, <1>9 DEF most, t, u

LEMMA RepTells ==
    ASSUME NEW L, NEW r, NEW s, Twin(L, r, s)
    PROVE  Tells(L, r, s, Rep(r), Rep(s)) /\ Costs(r, Rep(r).r, 1 + (1 + (1 + LongestLen)))
<1> DEFINE x == DecodeBit(r, <<"isRepG0", r.at.state, 0>>)
           y == DecodeBit(s, <<"isRepG0", r.at.state, 0>>)
           A(b) == LastRep(b)
           B(b) == OlderRep(b)
           most == 1 + (1 + LongestLen)
           t == Rep(r)
           u == Rep(s)
<1>1. /\ r \in Regs /\ s \in Regs /\ r.at = s.at /\ r.at.state \in Int /\ r.at.posState \in Int
      /\ 0 \in Int /\ "isRepG0" \in Names
  BY TwinIs, RegsAre DEF At4, Names
<1>2. most \in Nat /\ 1 + LongestLen \in Nat /\ 1 + LongestLen <= most BY Sizes
<1>3. /\ Joint(L, r, s, x, y, 1)
      /\ x.used <= L => r.used <= L /\ x.bit = y.bit
      /\ Costs(r, x, 1) /\ Twin(L, x, y) /\ Twin(0, x, x) /\ Twin(0, y, y)
      /\ x.bit \in Bit /\ y.bit \in Bit /\ x.at = r.at /\ y.at = s.at
  BY <1>1, FlagBit
<1>4. /\ t = IF x.bit = 0 THEN A(x) ELSE B(x)
      /\ u = IF y.bit = 0 THEN A(y) ELSE B(y)
  BY <1>1, <1>3 DEF Rep, With, Short
<1> HIDE DEF t, u
<1> HIDE DEF x, y
<1>5. ASSUME NEW l, NEW b, NEW c, Twin(l, b, c)
      PROVE  /\ Tells(l, b, c, A(b), A(c)) /\ Costs(b, A(b).r, 1 + LongestLen)
             /\ Tells(l, b, c, B(b), B(c)) /\ Costs(b, B(b).r, most)
  BY <1>5, LastRepTells, OlderRepTells
<1> HIDE DEF A, B, most
<1>6. Tells(L, r, s, t, u)
  <2>1. x.bit = y.bit => Tells(L, x, y, t, u) BY <1>4, <1>3, <1>5
  <2>2. Tells(0, x, x, t, t) /\ Tells(0, y, y, u, u) BY <1>4, <1>3, <1>5
  <2> QED BY <1>3, <2>1, <2>2, Fork
<1>7. Costs(x, A(x).r, most) /\ Costs(x, B(x).r, most) BY <1>2, <1>3, <1>5, CostsMore
<1>8. Costs(x, t.r, most) BY <1>4, <1>7
<1>9. Costs(r, t.r, 1 + most) BY <1>2, <1>3, <1>8, CostsAdd
<1> QED BY <1>6, <1>9 DEF most, t, u

\* A symbol that is not a literal.
MatchOrRep(r) ==
    LET isRep == DecodeBit(r, <<"isRep", r.at.state, 0>>)
    IN  IF isRep.bit = 0 THEN Match(isRep) ELSE Rep(isRep)
MatchCosts(r, x, a) ==
    \/ Costs(r, x, a + 3 + LongestLen)
    \/ \E z : Costs(r, z, a + LongestLen) /\ DistCosts(z, x)

LEMMA MatchCostsAdd ==
    ASSUME NEW r, NEW s, NEW x, NEW a \in Nat, NEW b \in Nat, Costs(r, s, a), MatchCosts(s, x, b)
    PROVE  MatchCosts(r, x, a + b)
<1>0. LongestLen \in Nat BY Sizes
<1>1. CASE Costs(s, x, b + 3 + LongestLen)
  <2> DEFINE n == b + 3 + LongestLen
  <2>1. n \in Nat /\ a + n = (a + b) + 3 + LongestLen BY <1>0
  <2>2. Costs(s, x, n) BY <1>1
  <2> HIDE DEF n
  <2>3. Costs(r, x, a + n) BY <2>1, <2>2, CostsAdd
  <2> QED BY <2>1, <2>3 DEF MatchCosts
<1>2. CASE \E z : Costs(s, z, b + LongestLen) /\ DistCosts(z, x)
  <2> DEFINE n == b + LongestLen
  <2>1. n \in Nat /\ a + n = (a + b) + LongestLen BY <1>0
  <2>2. PICK z : Costs(s, z, n) /\ DistCosts(z, x) BY <1>2
  <2> HIDE DEF n
  <2>3. Costs(r, z, a + n) BY <2>1, <2>2, CostsAdd
  <2> QED BY <2>1, <2>2, <2>3 DEF MatchCosts
<1> QED BY <1>1, <1>2 DEF MatchCosts

LEMMA MatchOrRepTells ==
    ASSUME NEW L, NEW r, NEW s, Twin(L, r, s)
    PROVE  Tells(L, r, s, MatchOrRep(r), MatchOrRep(s)) /\ MatchCosts(r, MatchOrRep(r).r, 1)
<1> DEFINE x == DecodeBit(r, <<"isRep", r.at.state, 0>>)
           y == DecodeBit(s, <<"isRep", r.at.state, 0>>)
           A(b) == Match(b)
           B(b) == Rep(b)
           t == MatchOrRep(r)
           u == MatchOrRep(s)
<1>1. /\ r \in Regs /\ s \in Regs /\ r.at = s.at /\ r.at.state \in Int /\ r.at.posState \in Int
      /\ 0 \in Int /\ "isRep" \in Names
  BY TwinIs, RegsAre DEF At4, Names
<1>2. LongestLen \in Nat /\ ByteBits \in Nat BY Sizes
<1>3. /\ Joint(L, r, s, x, y, 1)
      /\ x.used <= L => r.used <= L /\ x.bit = y.bit
      /\ Costs(r, x, 1) /\ Twin(L, x, y) /\ Twin(0, x, x) /\ Twin(0, y, y)
      /\ x.bit \in Bit /\ y.bit \in Bit /\ x.at = r.at /\ y.at = s.at
  BY <1>1, FlagBit
<1>4. /\ t = IF x.bit = 0 THEN A(x) ELSE B(x)
      /\ u = IF y.bit = 0 THEN A(y) ELSE B(y)
  BY <1>1, <1>3 DEF MatchOrRep, With, MatchOrRep
<1> HIDE DEF t, u
<1> HIDE DEF x, y
<1>5. ASSUME NEW l, NEW b, NEW c, Twin(l, b, c)
      PROVE  /\ Tells(l, b, c, A(b), A(c)) /\ \E z : Costs(b, z, LongestLen) /\ DistCosts(z, A(b).r)
             /\ Tells(l, b, c, B(b), B(c)) /\ Costs(b, B(b).r, 1 + (1 + (1 + LongestLen)))
  BY <1>5, MatchTells, RepTells
<1> HIDE DEF A, B
<1>6. Tells(L, r, s, t, u)
  <2>1. x.bit = y.bit => Tells(L, x, y, t, u) BY <1>3, <1>4, <1>5
  <2>2. Tells(0, x, x, t, t) /\ Tells(0, y, y, u, u) BY <1>3, <1>4, <1>5
  <2> QED BY <1>3, <2>1, <2>2, Fork
<1>7. ASSUME x.bit = 0 PROVE MatchCosts(r, t.r, 1)
  <2>1. PICK z : Costs(x, z, LongestLen) /\ DistCosts(z, t.r) BY <1>3, <1>4, <1>5, <1>7
  <2>2. Costs(r, z, 1 + LongestLen) BY <1>2, <1>3, <2>1, CostsAdd
  <2> QED BY <2>1, <2>2 DEF MatchCosts
<1>8. ASSUME x.bit # 0 PROVE MatchCosts(r, t.r, 1)
  <2> DEFINE n == 1 + (1 + (1 + LongestLen))
  <2>1. n \in Nat /\ 1 + n = 1 + 3 + LongestLen BY <1>2
  <2>2. Costs(x, t.r, n) BY <1>3, <1>4, <1>5, <1>8
  <2> HIDE DEF n
  <2>3. Costs(r, t.r, 1 + n) BY <1>3, <2>1, <2>2, CostsAdd
  <2> QED BY <2>1, <2>3 DEF MatchCosts
<1>9. MatchCosts(r, t.r, 1) BY <1>7, <1>8
<1> QED BY <1>6, <1>9 DEF t, u

LEMMA SymbolTells ==
    ASSUME NEW L, NEW r, NEW s, Twin(L, r, s)
    PROVE  Tells(L, r, s, Symbol(r), Symbol(s)) /\ (Costs(r, Symbol(r).r, 1 + ByteBits) \/ MatchCosts(r, Symbol(r).r, 2))
<1> DEFINE x == DecodeBit(r, <<"isMatch", r.at.state, r.at.posState>>)
           y == DecodeBit(s, <<"isMatch", r.at.state, r.at.posState>>)
           A(b) == Literal(b)
           B(b) == MatchOrRep(b)
           t == Symbol(r)
           u == Symbol(s)
<1>1. /\ r \in Regs /\ s \in Regs /\ r.at = s.at /\ r.at.state \in Int /\ r.at.posState \in Int
      /\ 0 \in Int /\ "isMatch" \in Names
  BY TwinIs, RegsAre DEF At4, Names
<1>2. LongestLen \in Nat /\ ByteBits \in Nat BY Sizes
<1>3. /\ Joint(L, r, s, x, y, 1)
      /\ x.used <= L => r.used <= L /\ x.bit = y.bit
      /\ Costs(r, x, 1) /\ Twin(L, x, y) /\ Twin(0, x, x) /\ Twin(0, y, y)
      /\ x.bit \in Bit /\ y.bit \in Bit /\ x.at = r.at /\ y.at = s.at
  BY <1>1, FlagBit
<1>4. /\ t = IF x.bit = 0 THEN A(x) ELSE B(x)
      /\ u = IF y.bit = 0 THEN A(y) ELSE B(y)
  BY <1>1, <1>3 DEF Symbol, With, MatchOrRep
<1> HIDE DEF t, u
<1> HIDE DEF x, y
<1>5. ASSUME NEW l, NEW b, NEW c, Twin(l, b, c)
      PROVE  /\ Tells(l, b, c, A(b), A(c)) /\ Costs(b, A(b).r, ByteBits)
             /\ Tells(l, b, c, B(b), B(c)) /\ MatchCosts(b, B(b).r, 1)
  BY <1>5, LiteralTells, MatchOrRepTells
<1> HIDE DEF A, B
<1>6. Tells(L, r, s, t, u)
  <2>1. x.bit = y.bit => Tells(L, x, y, t, u) BY <1>3, <1>4, <1>5
  <2>2. Tells(0, x, x, t, t) /\ Tells(0, y, y, u, u) BY <1>3, <1>4, <1>5
  <2> QED BY <1>3, <2>1, <2>2, Fork
<1>7. ASSUME x.bit = 0 PROVE Costs(r, t.r, 1 + ByteBits)
  <2>1. Costs(x, t.r, ByteBits) BY <1>3, <1>4, <1>5, <1>7
  <2> QED BY <1>2, <1>3, <2>1, CostsAdd
<1>8. ASSUME x.bit # 0 PROVE MatchCosts(r, t.r, 2)
  <2>1. MatchCosts(x, t.r, 1) BY <1>3, <1>4, <1>5, <1>8
  <2>2. MatchCosts(r, t.r, 1 + 1) BY <1>3, <2>1, MatchCostsAdd
  <2>3. 1 + 1 = 2 OBVIOUS
  <2> QED BY <2>2, <2>3
<1>9. Costs(r, t.r, 1 + ByteBits) \/ MatchCosts(r, t.r, 2) BY <1>7, <1>8
<1> QED BY <1>6, <1>9 DEF t, u

-----------------------------------------------------------------------------
(* No symbol takes more bytes than the worst one *)

CaseSets == SUBSET States

LEMMA WorstIs ==
    ASSUME NEW W \in SUBSET States, NEW n \in Nat
    PROVE  \E c : Chain(c, n) /\ c[0] = W /\ c[n] = WorstBits(W, n) /\ c[n] \in SUBSET States
<1> DEFINE op(V) == V \union AfterBit(V)
           Body(g) == [i \in 0..n |-> IF i = 0 THEN W
                                      ELSE With(g[i - 1], LAMBDA V : op(V))]
           made == CHOOSE g : g = Body(g)
           step == [k \in 1..n |-> [V \in CaseSets |-> op(V)]]
<1>1. WorstBits(W, n) = made[n] BY DEF WorstBits, Repeat
<1>2. ASSUME NEW V \in CaseSets PROVE op(V) \in CaseSets
  <2>0. V \in SUBSET States BY DEF CaseSets
  <2>1. ASSUME NEW w \in V, NEW x \in Normed(w) PROVE x \in States
    BY <2>0, Widths DEF Normed, States
  <2>2. Total \in Nat \ {0} /\ LeastProb \in Nat BY Widths
  <2>3. AfterBit(V) \in CaseSets
    <3> SUFFICES ASSUME NEW w \in V, NEW x \in Normed(w)
                 PROVE  [used |-> x.used, range |-> (x.range \div Total) * LeastProb] \in States
      BY DEF AfterBit, CaseSets
    <3>1. x \in States BY <2>1
    <3>2. x.used \in Nat /\ x.range \in Nat BY <3>1 DEF States
    <3>3. x.range \div Total \in Nat BY <2>2, <3>2, DivIs
    <3> DEFINE q == x.range \div Total
    <3> HIDE DEF q
    <3>4. q * LeastProb \in Nat BY <2>2, <3>3 DEF q
    <3> QED BY <3>2, <3>4 DEF States, q
  <2> QED BY <2>0, <2>3 DEF CaseSets
<1> HIDE DEF op
<1>3. W \in CaseSets BY DEF CaseSets
<1>4. Loop(n, CaseSets, W, step) BY <1>2, <1>3 DEF Loop
<1>5. \A k \in 1..n, V \in CaseSets : step[k][V] = op(V) OBVIOUS
<1> HIDE DEF step
<1>6. PICK f : Runs(f, n, CaseSets, W, step) BY <1>4, LoopEnds
<1>7. \A i \in 1..n : f[i - 1] \in CaseSets /\ f[i] = op(f[i - 1])
  <2> SUFFICES ASSUME NEW i \in 1..n PROVE f[i - 1] \in CaseSets /\ f[i] = op(f[i - 1]) OBVIOUS
  <2>1. i - 1 \in 0..n OBVIOUS
  <2> QED BY <1>5, <1>6, <2>1 DEF Runs
<1>8. f = Body(f) BY <1>6, <1>7 DEF Runs, With
<1>9. made = Body(made) BY <1>8
<1> HIDE DEF made
<1>10. made[0] = W /\ \A k \in 1..n : made[k - 1] \in CaseSets => made[k] = step[k][made[k - 1]]
  BY <1>5, <1>9 DEF With
<1>11. \A k \in 0..n : made[k] = f[k] BY <1>6, <1>10, RunsAre
<1>12. made[n] = f[n] BY <1>11
<1>13. f \in [0..n -> CaseSets] /\ f[0] = W BY <1>6 DEF Runs
<1>14. Chain(f, n) BY <1>7, <1>13 DEF Chain, CaseSets, op
<1>15. f[n] \in CaseSets BY <1>13
<1> QED BY <1>1, <1>12, <1>13, <1>14, <1>15 DEF CaseSets

LEMMA WorstDirectIs ==
    ASSUME NEW W \in SUBSET States, NEW n \in Nat
    PROVE  \E c : DirectChain(c, n) /\ c[0] = W /\ c[n] = WorstDirect(W, n) /\ c[n] \in SUBSET States
<1> DEFINE op(V) == V \union AfterDirect(V)
           Body(g) == [i \in 0..n |-> IF i = 0 THEN W
                                      ELSE With(g[i - 1], LAMBDA V : op(V))]
           made == CHOOSE g : g = Body(g)
           step == [k \in 1..n |-> [V \in CaseSets |-> op(V)]]
<1>1. WorstDirect(W, n) = made[n] BY DEF WorstDirect, Repeat
<1>2. ASSUME NEW V \in CaseSets PROVE op(V) \in CaseSets
  <2>0. V \in SUBSET States BY DEF CaseSets
  <2>1. ASSUME NEW w \in V, NEW x \in Normed(w) PROVE x \in States
    BY <2>0, Widths DEF Normed, States
  <2>2. Total \in Nat \ {0} /\ LeastProb \in Nat BY Widths
  <2>3. AfterDirect(V) \in CaseSets
    <3> SUFFICES ASSUME NEW w \in V, NEW x \in Normed(w)
                 PROVE  [used |-> x.used, range |-> x.range \div 2] \in States
      BY DEF AfterDirect, CaseSets
    <3>1. x \in States BY <2>1
    <3>2. x.used \in Nat /\ x.range \in Nat BY <3>1 DEF States
    <3>3. x.range \div 2 \in Nat BY <3>2
    <3> DEFINE q == x.range \div 2
    <3> HIDE DEF q
    <3>4. q \in Nat BY <3>3 DEF q
    <3> QED BY <3>2, <3>4 DEF States, q
  <2> QED BY <2>0, <2>3 DEF CaseSets
<1> HIDE DEF op
<1>3. W \in CaseSets BY DEF CaseSets
<1>4. Loop(n, CaseSets, W, step) BY <1>2, <1>3 DEF Loop
<1>5. \A k \in 1..n, V \in CaseSets : step[k][V] = op(V) OBVIOUS
<1> HIDE DEF step
<1>6. PICK f : Runs(f, n, CaseSets, W, step) BY <1>4, LoopEnds
<1>7. \A i \in 1..n : f[i - 1] \in CaseSets /\ f[i] = op(f[i - 1])
  <2> SUFFICES ASSUME NEW i \in 1..n PROVE f[i - 1] \in CaseSets /\ f[i] = op(f[i - 1]) OBVIOUS
  <2>1. i - 1 \in 0..n OBVIOUS
  <2> QED BY <1>5, <1>6, <2>1 DEF Runs
<1>8. f = Body(f) BY <1>6, <1>7 DEF Runs, With
<1>9. made = Body(made) BY <1>8
<1> HIDE DEF made
<1>10. made[0] = W /\ \A k \in 1..n : made[k - 1] \in CaseSets => made[k] = step[k][made[k - 1]]
  BY <1>5, <1>9 DEF With
<1>11. \A k \in 0..n : made[k] = f[k] BY <1>6, <1>10, RunsAre
<1>12. made[n] = f[n] BY <1>11
<1>13. f \in [0..n -> CaseSets] /\ f[0] = W BY <1>6 DEF Runs
<1>14. DirectChain(f, n) BY <1>7, <1>13 DEF DirectChain, CaseSets, op
<1>15. f[n] \in CaseSets BY <1>13
<1> QED BY <1>1, <1>12, <1>13, <1>14, <1>15 DEF CaseSets

LEMMA CostsMeet ==
    ASSUME NEW W \in SUBSET States, NEW n \in Nat, NEW a \in Nat, a <= n, NEW u \in Nat,
           NEW r, NEW x, Meets(W, r, u)
    PROVE  /\ WorstBits(W, n) \in SUBSET States /\ WorstDirect(W, n) \in SUBSET States
           /\ Costs(r, x, a) => Meets(WorstBits(W, n), x, u)
           /\ CostsDirect(r, x, a) => Meets(WorstDirect(W, n), x, u)
<1>1. PICK c : /\ Chain(c, n) /\ c[0] = W /\ c[n] = WorstBits(W, n) /\ c[n] \in SUBSET States
  BY WorstIs
<1>2. PICK d : /\ DirectChain(d, n) /\ d[0] = W /\ d[n] = WorstDirect(W, n)
               /\ d[n] \in SUBSET States
  BY WorstDirectIs
<1>3. 0 \in Nat /\ 0 + n <= n /\ 0 + n = n OBVIOUS
<1>4. ASSUME Costs(r, x, a) PROVE Meets(WorstBits(W, n), x, u)
  <2>1. Costs(r, x, n) BY <1>4, CostsMore
  <2>2. Meets(c[0 + n], x, u) BY <1>1, <1>3, <2>1 DEF Costs
  <2> QED BY <1>1, <1>3, <2>2
<1>5. ASSUME CostsDirect(r, x, a) PROVE Meets(WorstDirect(W, n), x, u)
  <2>1. CostsDirect(r, x, n) BY <1>5, CostsMore
  <2>2. Meets(d[0 + n], x, u) BY <1>2, <1>3, <2>1 DEF CostsDirect
  <2> QED BY <1>2, <1>3, <2>2
<1> QED BY <1>1, <1>2, <1>4, <1>5

LEMMA SymbolMeets ==
    ASSUME NEW r \in Regs, r.range >= Top, NEW x,
           Costs(r, x, 1 + ByteBits) \/ MatchCosts(r, x, 2)
    PROVE  \E W \in SUBSET (WorstLit \union WorstRep \union WorstNear \union WorstFar) :
              W \in SUBSET States /\ Meets(W, x, r.used)
<1> DEFINE u == r.used
<1>1. /\ ByteBits \in Nat /\ LongestLen \in Nat /\ SlotBits \in Nat /\ LongestMatch \in Nat
      /\ Top \in Nat /\ u \in Nat /\ NearFooter \in Nat /\ FarFooter \in Nat /\ AlignBits \in Nat
  BY Sizes, Widths, RegsAre, Footers
<1>2. Fresh \in SUBSET States BY <1>1 DEF Fresh, States
<1>3. Meets(Fresh, r, u)
  <2>1. [used |-> 0, range |-> Top] \in Fresh BY DEF Fresh
  <2>2. r.used = u + 0 BY <1>1
  <2> QED BY <2>1, <2>2 DEF Meets
<1> HIDE DEF u
<1>4. CASE Costs(r, x, 1 + ByteBits)
  <2> DEFINE n == 1 + ByteBits
  <2>1. n \in Nat /\ n <= n BY <1>1
  <2>2. Costs(r, x, n) BY <1>4
  <2>3. WorstLit = WorstBits(Fresh, n) BY DEF WorstLit
  <2> HIDE DEF n
  <2>4. WorstBits(Fresh, n) \in SUBSET States /\ Meets(WorstBits(Fresh, n), x, u)
    BY <1>1, <1>2, <1>3, <2>1, <2>2, CostsMeet
  <2> QED BY <2>3, <2>4 DEF u
<1>5. CASE Costs(r, x, 2 + 3 + LongestLen)
  <2> DEFINE n == 5 + LongestLen
  <2>1. n \in Nat /\ n <= n /\ 2 + 3 + LongestLen = n BY <1>1
  <2>2. Costs(r, x, n) BY <1>5, <2>1
  <2>3. WorstRep = WorstBits(Fresh, n) BY DEF WorstRep
  <2> HIDE DEF n
  <2>4. WorstBits(Fresh, n) \in SUBSET States /\ Meets(WorstBits(Fresh, n), x, u)
    BY <1>1, <1>2, <1>3, <2>1, <2>2, CostsMeet
  <2> QED BY <2>3, <2>4 DEF u
<1>6. CASE \E z : Costs(r, z, 2 + LongestLen) /\ DistCosts(z, x)
  <2>1. PICK z : Costs(r, z, 2 + LongestLen) /\ DistCosts(z, x) BY <1>6
  <2>2. PICK y : Costs(z, y, SlotBits) /\ TailCosts(y, x) BY <2>1 DEF DistCosts
  <2>3. Costs(r, y, LongestMatch)
    <3> DEFINE n == 2 + LongestLen
    <3>1. n \in Nat /\ Costs(r, z, n) /\ LongestMatch = n + SlotBits
      BY <1>1, <2>1 DEF LongestMatch
    <3> HIDE DEF n
    <3> QED BY <1>1, <2>2, <3>1, CostsAdd
  <2>4. CASE Costs(y, x, NearFooter)
    <3> DEFINE n == LongestMatch + NearFooter
    <3>1. n \in Nat /\ n <= n BY <1>1
    <3>2. Costs(r, x, n) BY <1>1, <2>3, <2>4, CostsAdd
    <3>3. WorstNear = WorstBits(Fresh, n) BY DEF WorstNear, NearFooter
    <3> HIDE DEF n
    <3>4. WorstBits(Fresh, n) \in SUBSET States /\ Meets(WorstBits(Fresh, n), x, u)
      BY <1>1, <1>2, <1>3, <3>1, <3>2, CostsMeet
    <3> QED BY <3>3, <3>4 DEF u
  <2>5. CASE \E v : CostsDirect(y, v, FarFooter) /\ Costs(v, x, AlignBits)
    <3>1. PICK v : CostsDirect(y, v, FarFooter) /\ Costs(v, x, AlignBits) BY <2>5
    <3> DEFINE A == WorstBits(Fresh, LongestMatch)
               B == WorstDirect(A, FarFooter)
               C == WorstBits(B, AlignBits)
    <3>2. WorstFar = C BY DEF WorstFar, FarFooter
    <3>3. LongestMatch <= LongestMatch /\ FarFooter <= FarFooter /\ AlignBits <= AlignBits
      BY <1>1
    <3>4. A \in SUBSET States /\ Meets(A, y, u) BY <1>1, <1>2, <1>3, <2>3, <3>3, CostsMeet
    <3> HIDE DEF A
    <3>5. B \in SUBSET States /\ Meets(B, v, u) BY <1>1, <3>1, <3>3, <3>4, CostsMeet
    <3> HIDE DEF B
    <3>6. C \in SUBSET States /\ Meets(C, x, u) BY <1>1, <3>1, <3>3, <3>5, CostsMeet
    <3> QED BY <3>2, <3>6 DEF u
  <2> QED BY <2>2, <2>4, <2>5 DEF TailCosts
<1> QED BY <1>4, <1>5, <1>6 DEF MatchCosts

\* Norm is done once.
LEMMA NormOnce ==
    ASSUME NEW r \in Regs
    PROVE  Symbol(Norm(r)) = Symbol(r)
<1>1. Norm(r) \in Regs /\ Norm(r).range >= Top /\ Norm(r).at = r.at BY NormIs DEF Later
<1>2. Norm(Norm(r)) = Norm(r) BY <1>1, NormIs
<1>3. \A c : DecodeBit(Norm(r), c) = DecodeBit(r, c) BY <1>2 DEF DecodeBit
<1> QED BY <1>1, <1>3 DEF Symbol

\* LZMA_REQUIRED_INPUT_MAX bytes, from after the normalization before a symbol to after
\* the one that follows it.
LEMMA SymbolFits ==
    ASSUME NEW r \in Regs
    PROVE  /\ Later(r, Symbol(r).r) /\ Norm(Symbol(r).r) \in Regs
           /\ Symbol(r).r.used <= Norm(Symbol(r).r).used
           /\ Norm(Symbol(r).r).used <= Norm(r).used + RequiredInputMax
<1> DEFINE n == Norm(r)
           x == Symbol(r).r
<1>1. n \in Regs /\ n.range >= Top /\ Later(r, n) BY NormIs
<1>2. Symbol(n) = Symbol(r) BY NormOnce
<1>3. Twin(0, n, n) BY <1>1, TwinSelf
<1>4. Tells(0, n, n, Symbol(n), Symbol(n))
      /\ (Costs(n, Symbol(n).r, 1 + ByteBits) \/ MatchCosts(n, Symbol(n).r, 2))
  BY <1>3, SymbolTells
<1>5. Later(n, x) /\ (Costs(n, x, 1 + ByteBits) \/ MatchCosts(n, x, 2))
  BY <1>2, <1>4 DEF Tells, Alike
<1> HIDE DEF n, x
<1>6. PICK W \in SUBSET (WorstLit \union WorstRep \union WorstNear \union WorstFar) :
              W \in SUBSET States /\ Meets(W, x, n.used)
  BY <1>1, <1>5, SymbolMeets
<1>7. PICK w \in W : x.used = n.used + w.used /\ w.range <= x.range BY <1>6 DEF Meets
<1>8. w \in States /\ x \in Regs /\ n.used \in Nat /\ w.used \in Nat /\ w.range \in Nat
  BY <1>1, <1>5, <1>6, RegsAre DEF Later, States
<1>9. PICK y \in Normed(w) :
              y \in States /\ Norm(x).used = n.used + y.used /\ y.range <= Norm(x).range
                /\ Norm(x).range >= Top
  BY <1>7, <1>8, NormMeets
<1>10. (IF w.range < Top THEN w.used + 1 ELSE w.used) <= RequiredInputMax
  BY <1>6, <1>7, RequiredInputCovers
<1>11. y.used \in Nat /\ Top \in Nat /\ RequiredInputMax \in Nat
  BY <1>9, Widths, DecoderParams DEF States
<1>12. y.used <= RequiredInputMax
  <2>1. CASE w.range < Top
    <3>1. y.used \in {w.used + 1, w.used} BY <1>9, <2>1 DEF Normed
    <3> QED BY <1>8, <1>10, <1>11, <2>1, <3>1
  <2>2. CASE ~(w.range < Top)
    <3>1. y.used = w.used BY <1>9, <2>2 DEF Normed
    <3> QED BY <1>10, <2>2, <3>1
  <2> QED BY <2>1, <2>2
<1>13. Norm(x) \in Regs /\ Later(x, Norm(x)) BY <1>8, NormIs
<1>14. x.used <= Norm(x).used BY <1>13 DEF Later
<1>15. Norm(x).used <= n.used + RequiredInputMax BY <1>8, <1>9, <1>11, <1>12
<1>16. Later(r, x) BY <1>1, <1>5, LaterIs
<1> QED BY <1>13, <1>14, <1>15, <1>16 DEF n, x

\* What the dry run of a symbol says is what the real one does, as far as both have input.
LEMMA LastAgrees ==
    ASSUME NEW L, NEW r, NEW s, Twin(L, r, s), Norm(Symbol(r).r).used > L
    PROVE  Norm(Symbol(s).r).used > L
<1> DEFINE x == Symbol(r).r
           y == Symbol(s).r
<1>1. Twin(L, x, y) BY SymbolTells DEF Tells, Alike
<1> HIDE DEF x, y
<1>2. Twin(L, Norm(x), Norm(y)) BY <1>1, TwinNorm
<1>3. /\ L \in Nat /\ Norm(x).used \in Nat /\ Norm(y).used \in Nat
      /\ Norm(x).used <= L <=> Norm(y).used <= L
  BY <1>2, TwinIs
<1>4. Norm(x).used > L BY DEF x
<1>5. Norm(y).used > L BY <1>3, <1>4
<1> QED BY <1>5 DEF y

-----------------------------------------------------------------------------
(* The registers and the dictionary of the decoder *)

Dics(n) == [0..(n - 1) -> Bytes]
AnyDic == UNION {Dics(n) : n \in Nat}
Remains == {"init", "len", "error"}
Registered ==
    [range : Nat, code : Nat, probs : Learned, state : 0..11, reps : EncReps, remain : Remains,
     remainLen : Nat, processedPos : Nat, checkDicSize : Nat, dicSize : Nat, dicBufSize : Nat,
     dic : AnyDic, dicPos : Nat, tempBuf : Seq(Bytes)]
Sound(q) == q \in Registered /\ q.dic \in Dics(q.dicBufSize) /\ q.dicPos <= q.dicBufSize
Made(q) == Sound(q) /\ q.dicBufSize >= 1 /\ q.dicSize >= 1
Checked(q) == q.checkDicSize = 0 => q.processedPos < q.dicSize
Open(q) == q.range >= Byte * Byte /\ q.range < Full /\ q.code < Full

LEMMA SoundIs ==
    ASSUME NEW q, Sound(q)
    PROVE  /\ q.range \in Nat /\ q.code \in Nat /\ q.probs \in Learned /\ q.state \in 0..11
           /\ q.reps \in EncReps /\ q.remain \in Remains /\ q.remainLen \in Nat
           /\ q.processedPos \in Nat /\ q.checkDicSize \in Nat /\ q.dicSize \in Nat
           /\ q.dicBufSize \in Nat /\ q.dicPos \in Nat /\ q.tempBuf \in Seq(Bytes)
           /\ Len(q.tempBuf) \in Nat
<1>1. q \in Registered BY DEF Sound
<1>2. q.tempBuf \in Seq(Bytes) BY <1>1 DEF Registered
<1>3. Len(q.tempBuf) \in Nat BY <1>2, SequenceIs
<1> QED BY <1>1, <1>3 DEF Registered

LEMMA RepsAre ==
    ASSUME NEW reps \in EncReps
    PROVE  \A i \in 1..4 : reps[i] \in Back4 /\ reps[i] \in Nat /\ reps[i] # 0
<1>1. reps \in Seq(Back4) /\ Len(reps) = 4 BY DEF EncReps
<1>2. \A i \in 1..4 : reps[i] \in Back4 BY <1>1, SequenceIs
<1> QED BY <1>2 DEF Back4

LEMMA DicAtIs ==
    ASSUME Made(p), NEW i \in Int
    PROVE  DicAt(i) \in Bytes
<1> DEFINE n == p.dicBufSize
<1>1. n \in Nat \ {0} /\ p.dic \in [0..(n - 1) -> Bytes] BY SoundIs DEF Made, Sound, Dics
<1> HIDE DEF n
<1>2. i % n \in 0..(n - 1) BY <1>1, DivIs
<1>3. p.dic[i % n] \in Bytes BY <1>1, <1>2
<1> QED BY <1>3 DEF DicAt, n

LEMMA BytesAre ==
    ASSUME NEW b \in Bytes
    PROVE  b \in Nat /\ b \in Int
BY Widths DEF Bytes

LEMMA PlaceIs ==
    ASSUME NEW at \in Nat, NEW b \in Int
    PROVE  PosState(at) \in Int /\ LitBase(at, b) \in Int
<1>1. PosState(at) \in Int
  <2> DEFINE m == Pow2[Pb]
  <2>1. m \in Nat \ {0}
    <3>1. Pb \in Nat BY CodingParams
    <3> QED BY <3>1, Powers
  <2> HIDE DEF m
  <2>2. at % m \in 0..(m - 1) BY <2>1, DivIs
  <2>3. PosState(at) = at % m BY DEF PosState, m
  <2> QED BY <2>1, <2>2, <2>3
<1>2. LitBase(at, b) \in Int
  <2> DEFINE x == at * Byte + b
             m == Pow2[ByteBits + Lp]
             n == Pow2[ByteBits - Lc]
  <2>1. ByteBits + Lp \in Nat /\ ByteBits - Lc \in Nat /\ Lc \in Nat BY CodingParams
  <2>2. m \in Nat \ {0} /\ n \in Nat \ {0} /\ Pow2[Lc] \in Nat /\ x \in Int
    <3>1. m \in Nat \ {0} /\ n \in Nat \ {0} /\ Pow2[Lc] \in Nat BY <2>1, Powers
    <3>2. x \in Int BY Widths
    <3> QED BY <3>1, <3>2
  <2>3. LitBase(at, b) = 3 * ((x % m) - (x % n)) * Pow2[Lc] BY DEF LitBase
  <2> HIDE DEF x, m, n
  <2>4. x % m \in Int /\ x % n \in Int BY <2>2, DivIs
  <2> QED BY <2>2, <2>3, <2>4
<1> QED BY <1>1, <1>2

LEMMA RegistersAre ==
    ASSUME Made(p), Open(p), NEW buf \in Seq(Bytes), NEW used \in Nat
    PROVE  Registers(buf, used) \in Regs
<1>1. /\ p.range \in Nat /\ p.code \in Nat /\ p.probs \in Learned /\ p.state \in 0..11
      /\ p.reps \in EncReps /\ p.processedPos \in Nat /\ p.dicPos \in Nat /\ p.dicBufSize \in Nat
  BY SoundIs DEF Made
<1>2. \A n \in Nat : Before(n) \in Int
  <2> SUFFICES ASSUME NEW n \in Nat PROVE Before(n) \in Int OBVIOUS
  <2>1. p.dicPos + p.dicBufSize - n \in Int BY <1>1
  <2> QED BY <2>1, DicAtIs, BytesAre DEF Before
<1>3. p.reps[1] \in Nat /\ Before(1) \in Int /\ Before(p.reps[1]) \in Int
  <2>1. p.reps[1] \in Nat /\ 1 \in Nat BY <1>1, RepsAre
  <2> QED BY <1>2, <2>1
<1>4. PosState(p.processedPos) \in Int /\ LitBase(p.processedPos, Before(1)) \in Int
  BY <1>1, <1>3, PlaceIs
<1>5. p.state \in Int /\ 0 \in Int BY <1>1
<1>6. DecAt \in At4 BY <1>3, <1>4, <1>5 DEF DecAt, At4
<1>7. 0 \in Bit BY DEF Bit
<1> QED BY <1>1, <1>6, <1>7 DEF Registers, Regs, Open

LEMMA CopiedIs ==
    ASSUME Made(p), NEW rep0 \in Back4, NEW n \in Int
    PROVE  Copied(rep0, n) \in Dics(p.dicBufSize)
<1> DEFINE m == p.dicBufSize
           from(i) == p.dicPos + p.dicBufSize - rep0 + ((i - p.dicPos) % rep0)
<1>1. p.dic \in [0..(m - 1) -> Bytes] /\ m \in Nat /\ p.dicPos \in Nat
  BY SoundIs DEF Made, Sound, Dics
<1>2. ASSUME NEW i \in 0..(m - 1) PROVE DicAt(from(i)) \in Bytes
  <2>1. i - p.dicPos \in Int /\ rep0 \in Nat \ {0} BY <1>1 DEF Back4
  <2>2. (i - p.dicPos) % rep0 \in Int BY <2>1, DivIs
  <2>3. from(i) \in Int BY <1>1, <2>1, <2>2
  <2> HIDE DEF from
  <2> QED BY <2>3, DicAtIs
<1>3. Copied(rep0, n) = [i \in 0..(m - 1) |-> IF i >= p.dicPos /\ i < p.dicPos + n
                                             THEN DicAt(from(i)) ELSE p.dic[i]]
  BY <1>1 DEF Copied
<1> HIDE DEF from, m
<1>4. \A i \in 0..(m - 1) : p.dic[i] \in Bytes BY <1>1
<1>5. Copied(rep0, n) \in [0..(m - 1) -> Bytes] BY <1>2, <1>3, <1>4
<1> QED BY <1>5 DEF Dics, m

\* Putting a symbol into the dictionary, as far as the limit.
LEMMA MovedToFront ==
    ASSUME NEW reps \in EncReps, NEW i \in 0..3
    PROVE  MoveToFront(reps, i) \in EncReps
<1>1. \A k \in 1..4 : reps[k] \in Back4 BY RepsAre
<1> DEFINE a == <<reps[i + 1]>>
           b == [j \in 1..3 |-> IF j <= i THEN reps[j] ELSE reps[j + 1]]
<1>2. i + 1 \in 1..4 OBVIOUS
<1>3. a \in Seq(Back4) /\ Len(a) = 1 BY <1>1, <1>2
<1>4. b \in Seq(Back4) /\ Len(b) = 3 BY <1>1
<1>5. MoveToFront(reps, i) = a \o b BY DEF MoveToFront
<1> HIDE DEF a, b
<1>6. a \o b \in Seq(Back4) /\ Len(a \o b) = Len(a) + Len(b) BY <1>3, <1>4, ConcatProperties
<1> QED BY <1>3, <1>4, <1>5, <1>6 DEF EncReps

\* The fields that a step of the decoder does not touch.
Same(q, r) ==
    /\ q.dicBufSize = r.dicBufSize /\ q.dicSize = r.dicSize /\ q.tempBuf = r.tempBuf

LEMMA AppliedIs ==
    ASSUME Made(p), NEW sym, Said(sym), sym.m \in Nat, sym.r \in Regs, NEW limit \in Nat,
           p.dicPos <= limit, limit <= p.dicBufSize,
           p.dicPos >= limit => sym.kind = "match"
    PROVE  LET q == Applied(sym, limit)
           IN  /\ Made(q) /\ Same(q, p) /\ q.checkDicSize = p.checkDicSize
               /\ p.dicPos <= q.dicPos /\ q.dicPos <= limit
               /\ q.range = sym.r.range /\ q.code = sym.r.code /\ q.probs = sym.r.probs
               /\ q.remain \in {p.remain, "error"}
<1> DEFINE q == [p EXCEPT !.probs = sym.r.probs, !.range = sym.r.range, !.code = sym.r.code]
           s == p.state
           reps == IF sym.kind = "match" THEN <<sym.m + 1, p.reps[1], p.reps[2], p.reps[3]>>
                   ELSE MoveToFront(p.reps, sym.m)
           full == sym.len + MatchMinLen
           n == Smaller(limit - p.dicPos, full)
           after == IF sym.kind = "match" THEN IF s < NumLitStates THEN 7 ELSE 10
                    ELSE IF s < NumLitStates THEN 8 ELSE 11
           e == Applied(sym, limit)
<1>1. /\ p.range \in Nat /\ p.code \in Nat /\ p.probs \in Learned /\ p.state \in 0..11
      /\ p.reps \in EncReps /\ p.processedPos \in Nat /\ p.dicPos \in Nat /\ p.dicBufSize \in Nat
      /\ p.dicPos <= p.dicBufSize /\ p.dicBufSize >= 1 /\ p.dicSize >= 1
      /\ p \in Registered /\ p.dic \in Dics(p.dicBufSize)
  BY SoundIs DEF Made, Sound
<1>2. /\ sym.r.range \in Nat /\ sym.r.code \in Nat /\ sym.r.probs \in Learned
  BY RegsAre
<1>3. q \in Registered BY <1>1, <1>2, Zenon DEF Registered
<1>4. /\ q.range = sym.r.range /\ q.code = sym.r.code /\ q.probs = sym.r.probs
      /\ q.dic = p.dic /\ q.dicPos = p.dicPos /\ q.processedPos = p.processedPos
      /\ q.checkDicSize = p.checkDicSize /\ q.remain = p.remain /\ Same(q, p)
  BY <1>1 DEF Registered, Same
<1>5. \A d \in Dics(p.dicBufSize) : d \in AnyDic BY <1>1 DEF AnyDic
<1> DEFINE Good(v) == /\ Made(v) /\ Same(v, p) /\ v.checkDicSize = p.checkDicSize
                      /\ p.dicPos <= v.dicPos /\ v.dicPos <= limit
                      /\ v.range = sym.r.range /\ v.code = sym.r.code /\ v.probs = sym.r.probs
                      /\ v.remain \in {p.remain, "error"}
<1> HIDE DEF q
\* What all but the error do.
<1>6. ASSUME NEW d \in Dics(p.dicBufSize), NEW m \in Nat, p.dicPos + m <= limit,
             NEW rl \in Nat, NEW rs \in EncReps, NEW st \in 0..11,
             NEW v, v = [q EXCEPT !.dic = d, !.dicPos = p.dicPos + m,
                                  !.processedPos = p.processedPos + m, !.remainLen = rl,
                                  !.reps = rs, !.state = st]
      PROVE  Good(v)
  <2>1. d \in AnyDic /\ p.dicPos + m \in Nat /\ p.processedPos + m \in Nat BY <1>1, <1>5
  <2> DEFINE a == p.dicPos + m
             b == p.processedPos + m
  <2> HIDE DEF a, b
  <2>2. v = [q EXCEPT !.dic = d, !.dicPos = a, !.processedPos = b, !.remainLen = rl,
                      !.reps = rs, !.state = st]
    BY <1>6 DEF a, b
  <2>3. a \in Nat /\ b \in Nat BY <2>1 DEF a, b
  <2>4. v \in Registered BY <1>3, <2>1, <2>2, <2>3, Zenon DEF Registered
  <2>5. /\ v.dic = d /\ v.dicPos = a /\ Same(v, q) /\ v.checkDicSize = q.checkDicSize
        /\ v.range = q.range /\ v.code = q.code /\ v.probs = q.probs /\ v.remain = q.remain
    BY <1>3, <2>2 DEF Registered, Same
  <2>6. a <= limit /\ p.dicPos <= a /\ a <= p.dicBufSize BY <1>1, <1>6 DEF a
  <2>7. Same(v, p) BY <1>4, <2>5 DEF Same
  <2>8. Made(v) BY <1>1, <2>4, <2>5, <2>6, <2>7 DEF Made, Sound, Same
  <2> QED BY <1>4, <2>5, <2>6, <2>7, <2>8
<1>7. q = [q EXCEPT !.remainLen = q.remainLen, !.reps = q.reps] /\ q.remainLen \in Nat
      /\ q.reps \in EncReps /\ q.state \in 0..11 /\ q.reps = p.reps /\ q.state = s
  BY <1>1, <1>3 DEF Registered, q
<1>8. full \in Nat /\ full >= 2
  BY DEF Said, MatchMinLen
<1>9. ASSUME sym.kind \in {"lit", "shortRep"}
      PROVE  Good(e)
  <2>1. p.dicPos < limit BY <1>1, <1>9
  <2>2. p.dicPos \in 0..(p.dicBufSize - 1) /\ 1 \in Nat /\ p.dicPos + 1 <= limit BY <1>1, <2>1
  <2>3. ASSUME NEW b \in Bytes PROVE [p.dic EXCEPT ![p.dicPos] = b] \in Dics(p.dicBufSize)
    BY <1>1, <2>2 DEF Dics
  <2>4. CASE sym.kind = "lit"
    <3> DEFINE st == IF s < 4 THEN 0 ELSE IF s < 10 THEN s - 3 ELSE s - 6
               d == [p.dic EXCEPT ![p.dicPos] = sym.m]
    <3>1. st \in 0..11 BY <1>1
    <3>2. sym.m \in Bytes BY <2>4, Widths DEF Said, Bytes
    <3>3. d \in Dics(p.dicBufSize) BY <2>3, <3>2
    <3>4. e = [q EXCEPT !.dic = [@ EXCEPT ![p.dicPos] = sym.m], !.dicPos = @ + 1,
                        !.processedPos = @ + 1, !.state = st]
      BY <2>4 DEF Applied, q
    <3> HIDE DEF st, e
    <3>5. e = [q EXCEPT !.dic = d, !.dicPos = p.dicPos + 1,
                        !.processedPos = p.processedPos + 1, !.remainLen = q.remainLen,
                        !.reps = q.reps, !.state = st]
      BY <1>3, <1>4, <3>4 DEF Registered
    <3> HIDE DEF d, Good
    <3>6. q.remainLen \in Nat /\ q.reps \in EncReps BY <1>7
    <3> QED BY <1>6, <2>2, <3>1, <3>3, <3>5, <3>6, Zenon
  <2>5. CASE sym.kind = "shortRep"
    <3> DEFINE st == IF s < NumLitStates THEN 9 ELSE 11
               b == Before(p.reps[1])
               d == [p.dic EXCEPT ![p.dicPos] = b]
    <3>1. st \in 0..11 OBVIOUS
    <3>2. b \in Bytes
      <4>1. p.reps[1] \in Nat BY <1>1, RepsAre
      <4>2. p.dicPos + p.dicBufSize - p.reps[1] \in Int BY <1>1, <4>1
      <4> QED BY <4>2, DicAtIs DEF Before
    <3>3. d \in Dics(p.dicBufSize)
      <4> HIDE DEF b
      <4> QED BY <2>3, <3>2
    <3>4. e = [q EXCEPT !.dic = [@ EXCEPT ![p.dicPos] = b], !.dicPos = @ + 1,
                        !.processedPos = @ + 1, !.state = st]
      BY <2>5 DEF Applied, q
    <3> HIDE DEF st, e, b
    <3>5. e = [q EXCEPT !.dic = d, !.dicPos = p.dicPos + 1,
                        !.processedPos = p.processedPos + 1, !.remainLen = q.remainLen,
                        !.reps = q.reps, !.state = st]
      BY <1>3, <1>4, <3>4 DEF Registered
    <3> HIDE DEF d, Good
    <3>6. q.remainLen \in Nat /\ q.reps \in EncReps BY <1>7
    <3> QED BY <1>6, <2>2, <3>1, <3>3, <3>5, <3>6, Zenon
  <2> QED BY <1>9, <2>4, <2>5
<1>10. ASSUME sym.kind \in {"match", "rep"}
       PROVE  Good(e)
  <2>1. reps \in EncReps /\ reps[1] \in Back4
    <3>1. reps \in EncReps
      <4>1. CASE sym.kind = "match"
        <5>1. sym.m + 1 \in Back4 BY DEF Back4
        <5>2. p.reps[1] \in Back4 /\ p.reps[2] \in Back4 /\ p.reps[3] \in Back4 BY <1>1, RepsAre
        <5>3. reps = <<sym.m + 1, p.reps[1], p.reps[2], p.reps[3]>> BY <4>1
        <5> HIDE DEF reps
        <5> QED BY <5>1, <5>2, <5>3 DEF EncReps
      <4>2. CASE sym.kind = "rep"
        <5>1. sym.m \in 0..3 BY <4>2 DEF Said
        <5>2. reps = MoveToFront(p.reps, sym.m) BY <4>2
        <5> HIDE DEF reps
        <5> QED BY <1>1, <5>1, <5>2, MovedToFront
      <4> QED BY <1>10, <4>1, <4>2
    <3> HIDE DEF reps
    <3> QED BY <3>1, RepsAre
  <2>2. n \in Nat /\ p.dicPos + n <= limit /\ full - n \in Nat BY <1>1, <1>8 DEF Smaller
  <2>3. after \in 0..11 OBVIOUS
  <2>4. e = IF sym.kind = "match"
                 /\ sym.m >= (IF p.checkDicSize = 0 THEN p.processedPos ELSE p.checkDicSize)
            THEN [q EXCEPT !.remain = "error", !.reps = reps, !.state = after]
            ELSE [q EXCEPT !.dic = Copied(reps[1], n), !.dicPos = @ + n, !.processedPos = @ + n,
                           !.remainLen = full - n, !.reps = reps, !.state = after]
    <3>1. sym.kind # "lit" /\ sym.kind # "shortRep" BY <1>10
    <3> QED BY <3>1 DEF Applied, q
  <2> HIDE DEF reps, n, after, full, e
  <2>5. CASE e = [q EXCEPT !.remain = "error", !.reps = reps, !.state = after]
    <3>1. "error" \in Remains BY DEF Remains
    <3>2. e \in Registered BY <1>3, <2>1, <2>3, <2>5, <3>1, Zenon DEF Registered
    <3>3. /\ e.dic = q.dic /\ e.dicPos = q.dicPos /\ Same(e, q) /\ e.checkDicSize = q.checkDicSize
          /\ e.range = q.range /\ e.code = q.code /\ e.probs = q.probs /\ e.remain = "error"
      BY <1>3, <2>5 DEF Registered, Same
    <3>4. Same(e, p) BY <1>4, <3>3 DEF Same
    <3>5. Made(e) BY <1>1, <1>4, <3>2, <3>3, <3>4 DEF Made, Sound, Same
    <3> QED BY <1>1, <1>4, <3>3, <3>4, <3>5
  <2>6. CASE e = [q EXCEPT !.dic = Copied(reps[1], n), !.dicPos = @ + n, !.processedPos = @ + n,
                           !.remainLen = full - n, !.reps = reps, !.state = after]
    <3> DEFINE d == Copied(reps[1], n)
               rl == full - n
    <3>1. d \in Dics(p.dicBufSize) /\ rl \in Nat BY <2>1, <2>2, CopiedIs
    <3> HIDE DEF d, rl
    <3>2. e = [q EXCEPT !.dic = d, !.dicPos = p.dicPos + n, !.processedPos = p.processedPos + n,
                        !.remainLen = rl, !.reps = reps, !.state = after]
      BY <1>3, <1>4, <2>6 DEF Registered, d, rl
    <3> HIDE DEF Good
    <3> QED BY <1>6, <2>1, <2>2, <2>3, <3>1, <3>2
  <2> QED BY <2>4, <2>5, <2>6
<1>11. Good(e) BY <1>9, <1>10 DEF Said, Kinds
<1> QED BY <1>11

-----------------------------------------------------------------------------
(* The decoder's states *)

\* Registers of a decoder q, and where the symbol that comes next ends with the last
\* normalization.
AtOf(q) ==
    LET before(n) == q.dic[(q.dicPos + q.dicBufSize - n) % q.dicBufSize]
        some == q.processedPos # 0 \/ q.checkDicSize # 0
    IN  [state |-> q.state, posState |-> PosState(q.processedPos),
         lit |-> IF some THEN LitBase(q.processedPos, before(1)) ELSE 0,
         match |-> before(q.reps[1])]
RegsOf(q, buf, used) ==
    [range |-> q.range, code |-> q.code, probs |-> q.probs,
     buf |-> buf, used |-> used, bit |-> 0, at |-> AtOf(q)]
Ends(q, buf, used) == Norm(Symbol(RegsOf(q, buf, used)).r).used
Kind(q, buf, used) == Symbol(RegsOf(q, buf, used)).kind

Within == {"init", "rest", "check", "real", "back"}
Places == Within \union {"off", "read", "toBuf", "done"}
Wants == [size : Nat, finish : BOOLEAN, start : Nat, limit : Nat, curFinish : BOOLEAN]
Moves == [read : Int, made : Nat, res : {"ok", "data"}]
Calls == [buf : Seq(Bytes), used : Nat, limit : Nat, bufLimit : Nat, dummy : SUBSET Nat]

DecTyped ==
    /\ Sound(p) /\ piece \in Pieces /\ pc \in Places
    /\ file \in Seq(Bytes) /\ src \in Seq(Bytes) /\ out \in Seq(Bytes)
    /\ unpackSize \in Nat /\ want \in Wants /\ moved \in Moves /\ real \in Calls
    /\ res \in {"none", "ok", "data"}
DecStart ==
    pc = "off" => /\ p.dicPos = 0 /\ p.processedPos = 0 /\ p.checkDicSize = 0
                  /\ p.remain = "init" /\ p.tempBuf = <<>>
DecPlaces ==
    /\ Len(p.tempBuf) <= RequiredInputMax
    /\ pc # "off" => p.dicBufSize >= 1 /\ p.dicSize >= 1
    /\ pc # "real" /\ pc # "off" => Checked(p)
    /\ pc \in Within => /\ want.start <= p.dicPos /\ p.dicPos <= want.limit
                        /\ want.limit <= p.dicBufSize /\ want.limit - want.start <= want.size
    /\ pc \in Within \union {"toBuf"} => moved.made + want.size <= unpackSize
    /\ pc = "check" /\ p.dicPos < want.limit => p.remainLen = 0
DecReady ==
    /\ pc \in {"read", "toBuf", "init"} \/ (pc = "back" /\ moved.res = "ok") => p.remain # "error"
    /\ pc \in {"rest", "check", "real"} => p.remain = "len"
    /\ pc = "init" => p.remain = "init"
    /\ p.remain = "init" => Len(p.tempBuf) <= 5
    /\ p.remain # "init" => Open(p)
    /\ p.remain # "init" /\ pc # "real" => p.range >= Top
DecReal ==
    pc = "real" =>
        /\ p.dicPos <= real.limit /\ real.limit <= want.limit
        /\ p.dicPos >= real.limit => Kind(p, real.buf, real.used) = "match"
        /\ real.used <= Len(real.buf)
        /\ Ends(p, real.buf, real.used) \in real.dummy
        /\ Ends(p, real.buf, real.used) >= Len(p.tempBuf)
        /\ real.bufLimit > 0 => /\ p.tempBuf = <<>> /\ real.dummy = 0..Len(real.buf)
                                /\ real.bufLimit + RequiredInputMax = Len(real.buf)
Waiting ==
    p.remain = "len" /\ p.tempBuf # <<>>
      /\ (pc \in {"read", "toBuf", "rest", "check"} \/ (pc = "back" /\ moved.res = "ok"))
DecKept == Waiting => p.remainLen = 0 /\ Ends(p, p.tempBuf, 0) > Len(p.tempBuf)

DecInv == DecTyped /\ DecStart /\ DecPlaces /\ DecReady /\ DecReal /\ DecKept

-----------------------------------------------------------------------------
(* Input and symbols *)

LEMMA RegistersOf ==
    ASSUME NEW buf, NEW used
    PROVE  Registers(buf, used) = RegsOf(p, buf, used)
BY DEF Registers, RegsOf, DecAt, AtOf, Before, DicAt, Some

LEMMA RegsOfAre ==
    ASSUME NEW q, Made(q), Open(q), NEW buf \in Seq(Bytes), NEW used \in Nat
    PROVE  /\ RegsOf(q, buf, used) \in Regs
           /\ RegsOf(q, buf, used).range = q.range /\ RegsOf(q, buf, used).used = used
           /\ RegsOf(q, buf, used).buf = buf
<1> DEFINE before(n) == q.dic[(q.dicPos + q.dicBufSize - n) % q.dicBufSize]
<1>1. /\ q.range \in Nat /\ q.code \in Nat /\ q.probs \in Learned /\ q.state \in 0..11
      /\ q.reps \in EncReps /\ q.processedPos \in Nat /\ q.dicPos \in Nat /\ q.dicBufSize \in Nat
      /\ q.dic \in [0..(q.dicBufSize - 1) -> Bytes] /\ q.dicBufSize \in Nat \ {0}
  BY SoundIs DEF Made, Sound, Dics
<1>2. ASSUME NEW n \in Nat PROVE before(n) \in Int
  <2> DEFINE m == q.dicBufSize
  <2>1. q.dicPos + m - n \in Int /\ m \in Nat \ {0} BY <1>1
  <2> HIDE DEF m
  <2>2. (q.dicPos + m - n) % m \in 0..(m - 1) BY <2>1, DivIs
  <2>3. before(n) \in Bytes BY <1>1, <2>2 DEF m
  <2> QED BY <2>3, BytesAre
<1>3. q.reps[1] \in Nat /\ before(1) \in Int /\ before(q.reps[1]) \in Int
  <2>1. q.reps[1] \in Nat /\ 1 \in Nat BY <1>1, RepsAre
  <2> QED BY <1>2, <2>1
<1>4. PosState(q.processedPos) \in Int /\ LitBase(q.processedPos, before(1)) \in Int
  BY <1>1, <1>3, PlaceIs
<1>5. AtOf(q) = [state |-> q.state, posState |-> PosState(q.processedPos),
                 lit |-> IF q.processedPos # 0 \/ q.checkDicSize # 0
                         THEN LitBase(q.processedPos, before(1)) ELSE 0,
                 match |-> before(q.reps[1])]
  BY DEF AtOf
<1>6. q.state \in Int /\ 0 \in Int BY <1>1
<1> HIDE DEF before
<1>7. AtOf(q) \in At4 BY <1>3, <1>4, <1>5, <1>6 DEF At4
<1>8. 0 \in Bit BY DEF Bit
<1> QED BY <1>1, <1>7, <1>8 DEF RegsOf, Regs, Open

\* How far a symbol reads.
LEMMA EndsIs ==
    ASSUME NEW q, Made(q), Open(q), NEW buf \in Seq(Bytes), NEW used \in Nat
    PROVE  LET sym == Symbol(RegsOf(q, buf, used))
           IN  /\ Ends(q, buf, used) \in Nat /\ Said(sym) /\ sym.r \in Regs /\ sym.m \in Nat
               /\ sym.r.used \in Nat /\ used <= sym.r.used /\ sym.r.used <= Ends(q, buf, used)
               /\ Norm(sym.r) \in Regs /\ Norm(sym.r).range >= Top
               /\ q.range >= Top => Ends(q, buf, used) <= used + RequiredInputMax
               /\ Ends(q, buf, used) <= used + 1 + RequiredInputMax
<1> DEFINE r == RegsOf(q, buf, used)
           sym == Symbol(r)
<1>1. r \in Regs /\ r.range = q.range /\ r.used = used BY RegsOfAre
<1> HIDE DEF r
<1>2. /\ Later(r, sym.r) /\ Norm(sym.r) \in Regs
      /\ sym.r.used <= Norm(sym.r).used
      /\ Norm(sym.r).used <= Norm(r).used + RequiredInputMax
  BY <1>1, SymbolFits
<1>3. Tells(0, r, r, sym, sym) BY <1>1, TwinSelf, SymbolTells
<1>4. Said(sym) BY <1>3 DEF Tells
<1>5. sym.m \in Nat BY <1>3 DEF Tells, Alike
<1>6. sym.r \in Regs /\ r.used <= sym.r.used BY <1>2 DEF Later
<1>7. Ends(q, buf, used) = Norm(sym.r).used BY DEF Ends, r
<1> HIDE DEF sym
<1>8. sym.r.used \in Nat /\ Norm(sym.r).used \in Nat /\ Norm(sym.r).range >= Top
  BY <1>2, <1>6, RegsAre, NormIs
<1>9. (r.range >= Top => Norm(r) = r) /\ (r.range < Top => Norm(r).used = r.used + 1)
  BY <1>1, NormIs
<1>10. r.range \in Nat /\ Top \in Nat /\ RequiredInputMax \in Nat
  BY <1>1, RegsAre, Widths, DecoderParams
<1>11. /\ r.range >= Top => Norm(r).used = used
       /\ Norm(r).used = used \/ Norm(r).used = used + 1
  BY <1>1, <1>9, <1>10
<1>12. /\ q.range >= Top => Norm(sym.r).used <= used + RequiredInputMax
       /\ Norm(sym.r).used <= used + 1 + RequiredInputMax
  BY <1>1, <1>2, <1>8, <1>10, <1>11
<1> QED BY <1>1, <1>2, <1>4, <1>5, <1>6, <1>7, <1>8, <1>12 DEF sym, r

\* A symbol that is not all there is not all there with more of the input either, as far
\* as it was read.
LEMMA EndsAgree ==
    ASSUME NEW q, Made(q), Open(q), NEW a \in Seq(Bytes), NEW b \in Seq(Bytes),
           Len(a) <= Len(b), \A i \in 1..Len(a) : a[i] = b[i], Ends(q, a, 0) > Len(a)
    PROVE  Ends(q, b, 0) > Len(a)
<1>1. 0 \in Nat OBVIOUS
<1>2. RegsOf(q, a, 0) \in Regs /\ RegsOf(q, b, 0) \in Regs BY <1>1, RegsOfAre
<1>3. Len(a) \in Nat /\ Len(b) \in Nat BY SequenceIs
<1>4. Twin(Len(a), RegsOf(q, a, 0), RegsOf(q, b, 0)) BY <1>2, <1>3 DEF Twin, Agree, RegsOf
<1>5. Norm(Symbol(RegsOf(q, a, 0)).r).used > Len(a) BY DEF Ends
<1>6. Norm(Symbol(RegsOf(q, b, 0)).r).used > Len(a) BY <1>4, <1>5, LastAgrees
<1> QED BY <1>6 DEF Ends

LEMMA TryDummyIs ==
    ASSUME Made(p), Open(p), NEW buf \in Seq(Bytes)
    PROVE  LET dummy == TryDummy(buf)
           IN  /\ dummy.used = Ends(p, buf, 0)
               /\ dummy.kind = "eof" <=> Ends(p, buf, 0) > Len(buf)
               /\ dummy.kind # "eof" => dummy.kind = Kind(p, buf, 0)
<1>1. Registers(buf, 0) = RegsOf(p, buf, 0) BY RegistersOf
<1>2. TryDummy(buf) = [kind |-> IF Ends(p, buf, 0) > Len(buf) THEN "eof" ELSE Kind(p, buf, 0),
                       used |-> Ends(p, buf, 0)]
  BY <1>1, Zenon DEF TryDummy, With, Ends, Kind
<1>3. Kind(p, buf, 0) # "eof"
  <2>1. 0 \in Nat OBVIOUS
  <2>2. Said(Symbol(RegsOf(p, buf, 0))) BY <2>1, EndsIs
  <2> QED BY <2>2 DEF Said, Kinds, Kind
<1> HIDE DEF Ends, Kind
<1> QED BY <1>2, <1>3

-----------------------------------------------------------------------------
(* Pieces of the input *)

LEMMA Cut ==
    ASSUME NEW s \in Seq(Bytes), NEW n \in Nat
    PROVE  /\ Upto(s, n) \in Seq(Bytes) /\ Len(Upto(s, n)) = Smaller(n, Len(s))
           /\ \A i \in 1..Len(Upto(s, n)) : Upto(s, n)[i] = s[i]
           /\ From(s, n) \in Seq(Bytes)
<1>1. Len(s) \in Nat /\ \A i \in 1..Len(s) : s[i] \in Bytes BY SequenceIs
<1>2. Smaller(n, Len(s)) \in 0..Len(s) BY <1>1 DEF Smaller
<1> QED BY <1>1, <1>2 DEF Upto, From

LEMMA AtHandIs ==
    ASSUME Sound(p), src \in Seq(Bytes), Len(p.tempBuf) <= RequiredInputMax
    PROVE  /\ AtHand \in Seq(Bytes) /\ Len(AtHand) \in Nat /\ Len(p.tempBuf) <= Len(AtHand)
           /\ Len(p.tempBuf) \in Nat
           /\ \A i \in 1..Len(p.tempBuf) : p.tempBuf[i] = AtHand[i]
           /\ p.tempBuf # <<>> => Len(AtHand) <= RequiredInputMax
           /\ p.tempBuf = <<>> => AtHand = src /\ Len(p.tempBuf) = 0
<1>1. p.tempBuf \in Seq(Bytes) /\ Len(p.tempBuf) \in Nat /\ Len(src) \in Nat
  BY SoundIs, SequenceIs
<1>2. CASE p.tempBuf = <<>>
  <2>1. AtHand = src /\ Len(p.tempBuf) = 0 BY <1>2 DEF AtHand
  <2> QED BY <1>1, <1>2, <2>1
<1>3. CASE p.tempBuf # <<>>
  <2> DEFINE n == RequiredInputMax - Len(p.tempBuf)
             more == Upto(src, n)
  <2>1. n \in Nat BY <1>1, DecoderParams
  <2> HIDE DEF n
  <2>2. more \in Seq(Bytes) /\ Len(more) = Smaller(n, Len(src)) BY <2>1, Cut
  <2>3. AtHand = p.tempBuf \o more BY <1>3 DEF AtHand, n
  <2> HIDE DEF more
  <2>4. Len(more) \in Nat /\ Len(more) <= n BY <1>1, <2>1, <2>2 DEF Smaller
  <2>5. /\ AtHand \in Seq(Bytes) /\ Len(AtHand) = Len(p.tempBuf) + Len(more)
        /\ \A i \in 1..Len(p.tempBuf) : p.tempBuf[i] = AtHand[i]
    <3> DEFINE t == p.tempBuf
    <3>1. t \in Seq(Bytes) BY <1>1
    <3> HIDE DEF t
    <3>2. /\ t \o more \in Seq(Bytes) /\ Len(t \o more) = Len(t) + Len(more)
          /\ \A i \in 1..Len(t) + Len(more) :
                 (t \o more)[i] = IF i <= Len(t) THEN t[i] ELSE more[i - Len(t)]
      BY <2>2, <3>1, ConcatProperties
    <3>3. AtHand = t \o more /\ Len(t) \in Nat BY <1>1, <2>3 DEF t
    <3>4. \A i \in 1..Len(t) : t[i] = AtHand[i] BY <2>4, <3>2, <3>3
    <3> QED BY <3>2, <3>3, <3>4 DEF t
  <2>6. Len(AtHand) <= RequiredInputMax BY <1>1, <2>1, <2>4, <2>5, DecoderParams DEF n
  <2> QED BY <1>1, <1>3, <2>4, <2>5, <2>6
<1> QED BY <1>2, <1>3

-----------------------------------------------------------------------------
(* The dictionary *)

LEMMA DictFullIs ==
    ASSUME NEW q, Made(q)
    PROVE  /\ Made(DictFull(q)) /\ Same(DictFull(q), q) /\ Checked(DictFull(q))
           /\ DictFull(q).dicPos = q.dicPos /\ DictFull(q).dic = q.dic
           /\ DictFull(q).remain = q.remain /\ DictFull(q).remainLen = q.remainLen
           /\ DictFull(q).range = q.range /\ DictFull(q).code = q.code
<1> DEFINE d == q.dicSize
           e == DictFull(q)
<1>1. /\ q \in Registered /\ d \in Nat /\ d >= 1 /\ q.processedPos \in Nat
      /\ q.checkDicSize \in Nat
  BY SoundIs DEF Made, Sound
<1>2. CASE q.checkDicSize = 0 /\ q.processedPos >= q.dicSize
  <2>1. e = [q EXCEPT !.checkDicSize = d] BY <1>2 DEF DictFull
  <2> HIDE DEF d, e
  <2>2. e \in Registered BY <1>1, <2>1, Zenon DEF Registered
  <2>3. /\ Same(e, q) /\ e.dicPos = q.dicPos /\ e.dic = q.dic /\ e.remain = q.remain
        /\ e.remainLen = q.remainLen /\ e.range = q.range /\ e.code = q.code
        /\ e.checkDicSize = d
    BY <1>1, <2>1 DEF Registered, Same
  <2>4. Made(e) BY <2>2, <2>3 DEF Made, Sound, Same
  <2>5. Checked(e) BY <1>1, <2>3 DEF Checked
  <2> QED BY <2>3, <2>4, <2>5 DEF e
<1>3. CASE ~(q.checkDicSize = 0 /\ q.processedPos >= q.dicSize)
  <2>1. e = q BY <1>3 DEF DictFull
  <2>2. Checked(q) BY <1>1, <1>3 DEF Checked
  <2> QED BY <2>1, <2>2 DEF Same
<1> QED BY <1>2, <1>3

\* The rest of a match goes as far as the limit, and nothing is left of it below.
LEMMA WriteRemIs ==
    ASSUME Made(p), Checked(p), NEW limit \in Nat, p.dicPos <= limit, limit <= p.dicBufSize
    PROVE  LET q == WriteRem(limit)
           IN  /\ Made(q) /\ Same(q, p) /\ Checked(q)
               /\ p.dicPos <= q.dicPos /\ q.dicPos <= limit /\ q.remain = p.remain
               /\ q.range = p.range /\ q.code = p.code
               /\ q.dicPos < limit => q.remainLen = 0
               /\ p.remainLen = 0 => q = p
<1> DEFINE n == Smaller(limit - p.dicPos, p.remainLen)
           q == WriteRem(limit)
<1>1. /\ p \in Registered /\ p.dicPos \in Nat /\ p.remainLen \in Nat /\ p.processedPos \in Nat
      /\ p.dicBufSize \in Nat /\ p.reps \in EncReps
  BY SoundIs DEF Made, Sound
<1>2. /\ n \in Nat /\ p.dicPos + n <= limit /\ p.remainLen - n \in Nat
      /\ p.dicPos + n < limit => n = p.remainLen
      /\ p.remainLen = 0 => n = 0
  BY <1>1 DEF Smaller
<1>3. q = IF n = 0 THEN p
          ELSE DictFull([p EXCEPT !.dic = Copied(p.reps[1], n), !.dicPos = @ + n,
                                  !.processedPos = @ + n, !.remainLen = @ - n])
  BY DEF WriteRem
<1> HIDE DEF n, q
<1>4. CASE n = 0
  <2>1. q = p BY <1>3, <1>4
  <2>2. p.dicPos < limit => p.remainLen = 0 BY <1>1, <1>2, <1>4
  <2> QED BY <1>1, <1>2, <2>1, <2>2 DEF Same, q
<1>5. CASE n # 0
  <2> DEFINE d == Copied(p.reps[1], n)
             a == p.dicPos + n
             b == p.processedPos + n
             c == p.remainLen - n
             e == [p EXCEPT !.dic = d, !.dicPos = a, !.processedPos = b, !.remainLen = c]
  <2>1. q = DictFull(e) BY <1>3, <1>5
  <2>2. p.reps[1] \in Back4 /\ n \in Int BY <1>1, <1>2, RepsAre
  <2>3. d \in Dics(p.dicBufSize) BY <2>2, CopiedIs
  <2>4. d \in AnyDic BY <1>1, <2>3 DEF AnyDic
  <2>5. /\ a \in Nat /\ b \in Nat /\ c \in Nat /\ p.dicPos <= a /\ a <= limit
        /\ a <= p.dicBufSize /\ (a < limit => c = 0)
    BY <1>1, <1>2
  <2> HIDE DEF a, b, c, d
  <2>6. e \in Registered BY <1>1, <2>4, <2>5, Zenon DEF Registered
  <2>7. /\ e.dic = d /\ e.dicPos = a /\ e.remainLen = c /\ Same(e, p) /\ e.remain = p.remain
        /\ e.range = p.range /\ e.code = p.code
    BY <1>1 DEF Registered, Same
  <2> HIDE DEF e
  <2>8. Made(e) BY <2>3, <2>5, <2>6, <2>7 DEF Made, Sound, Same
  <2>9. /\ Made(q) /\ Same(q, e) /\ Checked(q) /\ q.dicPos = a /\ q.remain = p.remain
        /\ q.remainLen = c /\ q.range = p.range /\ q.code = p.code
    BY <2>1, <2>7, <2>8, DictFullIs
  <2>10. Same(q, p) BY <2>7, <2>9 DEF Same
  <2> QED BY <1>2, <1>5, <2>5, <2>9, <2>10 DEF q
<1> QED BY <1>4, <1>5

-----------------------------------------------------------------------------
(* Steps *)

LEMMA DecInvIs ==
    ASSUME DecInv
    PROVE  /\ Sound(p) /\ p.dicPos \in Nat /\ p.dicBufSize \in Nat /\ p.dicPos <= p.dicBufSize
           /\ p.remainLen \in Nat /\ p.remain \in Remains /\ p.range \in Nat /\ p.code \in Nat
           /\ p.processedPos \in Nat /\ p.checkDicSize \in Nat /\ p.dicSize \in Nat
           /\ p.tempBuf \in Seq(Bytes) /\ Len(p.tempBuf) \in Nat
           /\ Len(p.tempBuf) <= RequiredInputMax
           /\ piece.inp \in Nat \ {0} /\ piece.out \in Nat \ {0}
           /\ src \in Seq(Bytes) /\ Len(src) \in Nat
           /\ unpackSize \in Nat /\ want.size \in Nat /\ want.start \in Nat /\ want.limit \in Nat
           /\ want.finish \in BOOLEAN /\ want.curFinish \in BOOLEAN
           /\ moved.read \in Int /\ moved.made \in Nat /\ moved.res \in {"ok", "data"}
           /\ real.buf \in Seq(Bytes) /\ Len(real.buf) \in Nat /\ real.used \in Nat
           /\ real.limit \in Nat /\ real.bufLimit \in Nat
           /\ pc # "off" => Made(p)
           /\ RequiredInputMax \in Nat /\ RequiredInputMax >= 5
<1>1. Sound(p) /\ Len(p.tempBuf) <= RequiredInputMax BY DEF DecInv, DecTyped, DecPlaces
<1>2. pc # "off" => Made(p) BY <1>1 DEF DecInv, DecPlaces, Made
<1>3. piece \in Pieces /\ src \in Seq(Bytes) /\ real \in Calls /\ want \in Wants /\ moved \in Moves
      /\ unpackSize \in Nat
  BY DEF DecInv, DecTyped
<1>4. p.dicPos <= p.dicBufSize BY <1>1 DEF Sound
<1>5. piece.inp \in Nat \ {0} /\ piece.out \in Nat \ {0} BY <1>3, DecoderParams
<1>6. real.buf \in Seq(Bytes) BY <1>3 DEF Calls
<1>7. Len(real.buf) \in Nat /\ Len(src) \in Nat BY <1>3, <1>6, SequenceIs
<1> QED BY <1>1, <1>2, <1>3, <1>4, <1>5, <1>6, <1>7, SoundIs, DecoderParams
        DEF Calls, Wants, Moves

LEMMA NextPieceKeeps ==
    ASSUME DecInv, NextPiece
    PROVE  DecInv'
<1>1. /\ pc = "read" /\ pc' = "toBuf"
      /\ want' = [want EXCEPT !.size = Smaller(piece.out, unpackSize),
                              !.finish = piece.out > unpackSize]
      /\ moved' = [read |-> 0, made |-> 0, res |-> "ok"]
      /\ UNCHANGED <<p, piece, unpackSize, real, out, res>>
  BY DEF NextPiece
<1>2. /\ src \in Seq(Bytes) /\ file \in Seq(Bytes) /\ want \in Wants
      /\ piece.out \in Nat /\ piece.inp \in Nat /\ unpackSize \in Nat /\ Made(p)
  BY <1>1, DecInvIs DEF DecInv, DecTyped
<1>3. src' \in Seq(Bytes) /\ file' \in Seq(Bytes) BY <1>2, Cut DEF NextPiece
<1>4. Smaller(piece.out, unpackSize) \in Nat /\ Smaller(piece.out, unpackSize) <= unpackSize
      /\ (piece.out > unpackSize) \in BOOLEAN
  BY <1>2 DEF Smaller
<1>5. want' \in Wants /\ want'.size <= unpackSize BY <1>1, <1>2, <1>4 DEF Wants
<1>6. moved' \in Moves /\ moved'.made = 0
  <2>1. 0 \in Int /\ 0 \in Nat /\ "ok" \in {"ok", "data"} OBVIOUS
  <2> QED BY <1>1, <2>1, Zenon DEF Moves
<1>11. want'.size \in Nat BY <1>5 DEF Wants
<1>7. DecTyped' BY <1>1, <1>3, <1>5, <1>6 DEF DecInv, DecTyped, Places
<1>8. DecPlaces' BY <1>1, <1>2, <1>5, <1>6, <1>11 DEF DecInv, DecPlaces, Within
<1>9. DecReady' BY <1>1 DEF DecInv, DecReady
<1>10. DecKept' BY <1>1 DEF DecInv, DecKept, Waiting
<1> QED BY <1>1, <1>7, <1>8, <1>9, <1>10 DEF DecInv, DecStart, DecReal

\* At its end the circular dictionary starts over, and looks the same from there.
LEMMA StartsOver ==
    ASSUME Made(p), p.dicPos = p.dicBufSize, NEW q, q = [p EXCEPT !.dicPos = 0]
    PROVE  AtOf(q) = AtOf(p)
<1> DEFINE m == p.dicBufSize
<1>1. /\ p \in Registered /\ m \in Nat \ {0} /\ p.reps \in EncReps
  BY SoundIs DEF Made, Sound
<1>2. /\ q.dic = p.dic /\ q.dicBufSize = p.dicBufSize /\ q.dicPos = 0 /\ q.reps = p.reps
      /\ q.processedPos = p.processedPos /\ q.checkDicSize = p.checkDicSize /\ q.state = p.state
  BY <1>1 DEF Registered
<1> HIDE DEF m
<1>3. ASSUME NEW n \in Nat PROVE (m + m - n) % m = (0 + m - n) % m
  <2> DEFINE a == m - n
  <2>1. a \in Int /\ 0 + m - n = a /\ m + m - n = m + a BY <1>1
  <2> HIDE DEF a
  <2>2. a \div m \in Int /\ a % m \in 0..(m - 1) /\ a = m * (a \div m) + (a % m)
    BY <1>1, <2>1, DivIs
  <2> DEFINE d == a \div m
             r == a % m
  <2>3. d \in Int /\ d + 1 \in Int /\ r \in 0..(m - 1) /\ a = m * d + r BY <2>2
  <2> HIDE DEF d, r
  <2>4. m + a \in Int /\ m + a = m * (d + 1) + r BY <1>1, <2>1, <2>3
  <2>5. (m + a) % m = r BY <1>1, <2>3, <2>4, DivIsOnly
  <2>6. (m + a) % m = a % m BY <2>5 DEF r
  <2> QED BY <2>1, <2>6
<1>4. p.reps[1] \in Nat /\ 1 \in Nat BY <1>1, RepsAre
<1>5. /\ p.dic[(p.dicPos + p.dicBufSize - 1) % p.dicBufSize]
           = q.dic[(q.dicPos + q.dicBufSize - 1) % q.dicBufSize]
      /\ p.dic[(p.dicPos + p.dicBufSize - p.reps[1]) % p.dicBufSize]
           = q.dic[(q.dicPos + q.dicBufSize - q.reps[1]) % q.dicBufSize]
  BY <1>2, <1>3, <1>4 DEF m
<1> QED BY <1>2, <1>5 DEF AtOf

LEMMA ToBufKeeps ==
    ASSUME DecInv, ToBuf
    PROVE  DecInv'
<1> DEFINE start == IF p.dicPos = p.dicBufSize THEN 0 ELSE p.dicPos
           wraps == want.size > p.dicBufSize - start
           limit == IF wraps THEN p.dicBufSize ELSE start + want.size
           fin == ~wraps /\ want.finish
<1>1. /\ pc = "toBuf" /\ pc' = IF p.remain = "init" THEN "init" ELSE "rest"
      /\ p' = [p EXCEPT !.dicPos = start]
      /\ want' = [want EXCEPT !.start = start, !.limit = limit, !.curFinish = fin]
      /\ UNCHANGED <<piece, file, src, unpackSize, moved, real, out, res>>
  BY DEF ToBuf
<1>2. /\ Made(p) /\ p \in Registered /\ p.dicPos \in Nat /\ p.dicBufSize \in Nat
      /\ p.dicPos <= p.dicBufSize
      /\ want.size \in Nat /\ want \in Wants /\ want.finish \in BOOLEAN
  BY <1>1, DecInvIs DEF DecInv, DecTyped, Made, Sound
<1>3. /\ start \in Nat /\ start <= p.dicBufSize /\ limit \in Nat /\ start <= limit
      /\ limit <= p.dicBufSize /\ limit - start <= want.size
  BY <1>2
<1>4. fin \in BOOLEAN BY <1>2
<1> HIDE DEF start, limit, fin, wraps
<1>5. p' \in Registered BY <1>1, <1>2, <1>3, Zenon DEF Registered
<1>6. /\ p'.dicPos = start /\ p'.dic = p.dic /\ p'.dicBufSize = p.dicBufSize
      /\ p'.dicSize = p.dicSize /\ p'.checkDicSize = p.checkDicSize
      /\ p'.processedPos = p.processedPos /\ p'.remain = p.remain /\ p'.tempBuf = p.tempBuf
      /\ p'.range = p.range /\ p'.code = p.code /\ p'.probs = p.probs
      /\ p'.remainLen = p.remainLen
  BY <1>1, <1>2 DEF Registered
<1>7. Sound(p') BY <1>2, <1>3, <1>5, <1>6 DEF Made, Sound
<1>8. /\ want' \in Wants /\ want'.start = start /\ want'.limit = limit /\ want'.size = want.size
  BY <1>1, <1>2, <1>3, <1>4 DEF Wants
<1>9. pc' \in {"init", "rest"} BY <1>1
<1>10. DecTyped' BY <1>1, <1>7, <1>8, <1>9 DEF DecInv, DecTyped, Places, Within
<1>11. DecPlaces'
  <2>1. moved'.made + want'.size <= unpackSize' BY <1>1, <1>8 DEF DecInv, DecPlaces
  <2> QED BY <1>1, <1>2, <1>3, <1>6, <1>8, <1>9, <2>1 DEF DecInv, DecPlaces, Checked, Made, Within
<1>12. p.remain \in {"init", "len"}
  BY <1>1, DecInvIs DEF DecInv, DecReady, Remains
<1>13. DecReady' BY <1>1, <1>6, <1>12 DEF DecInv, DecReady, Open
<1>14. AtOf(p') = AtOf(p)
  <2>1. CASE p.dicPos = p.dicBufSize BY <1>1, <1>2, <2>1, StartsOver DEF start
  <2>2. CASE p.dicPos # p.dicBufSize
    <3>1. p' = p BY <1>1, <1>2, <2>2 DEF start, Registered
    <3> QED BY <3>1
  <2> QED BY <2>1, <2>2
<1>15. Ends(p', p'.tempBuf, 0) = Ends(p, p.tempBuf, 0) BY <1>6, <1>14 DEF Ends, RegsOf
<1>16. DecKept' BY <1>1, <1>6, <1>15 DEF DecInv, DecKept, Waiting
<1> QED BY <1>9, <1>10, <1>11, <1>13, <1>16 DEF DecInv, DecStart, DecReal

LEMMA RestKeeps ==
    ASSUME DecInv, Rest
    PROVE  DecInv'
<1>1. /\ pc = "rest" /\ pc' = "check" /\ p' = WriteRem(want.limit)
      /\ UNCHANGED <<piece, file, src, unpackSize, want, moved, real, out, res>>
  BY DEF Rest
<1>2. /\ Made(p) /\ p.dicPos \in Nat /\ want.start \in Nat /\ want.limit \in Nat
  BY <1>1, DecInvIs
<1>3. Checked(p) /\ p.dicPos <= want.limit /\ want.limit <= p.dicBufSize /\ want.start <= p.dicPos
  BY <1>1 DEF DecInv, DecPlaces, Within
<1>4. /\ Made(p') /\ Same(p', p) /\ Checked(p')
      /\ p.dicPos <= p'.dicPos /\ p'.dicPos <= want.limit /\ p'.remain = p.remain
      /\ p'.range = p.range /\ p'.code = p.code
      /\ p'.dicPos < want.limit => p'.remainLen = 0
      /\ p.remainLen = 0 => p' = p
  BY <1>1, <1>2, <1>3, WriteRemIs
<1>5. p'.dicPos \in Nat /\ want.start <= p'.dicPos BY <1>2, <1>3, <1>4, SoundIs DEF Made
<1>6. DecTyped' BY <1>1, <1>4 DEF DecInv, DecTyped, Made, Places, Within
<1>7. DecPlaces' BY <1>1, <1>4, <1>5 DEF DecInv, DecPlaces, Made, Same, Within
<1>8. DecReady' BY <1>1, <1>4 DEF DecInv, DecReady, Open, Same
<1>9. DecKept' BY <1>1, <1>4 DEF DecInv, DecKept, Waiting, Same
<1> QED BY <1>1, <1>6, <1>7, <1>8, <1>9 DEF DecInv, DecStart, DecReal

LEMMA LimitReachedKeeps ==
    ASSUME DecInv, LimitReached
    PROVE  DecInv'
<1>1. /\ pc = "check" /\ pc' = "back"
      /\ \E r \in {"ok", "data"} : moved' = [moved EXCEPT !.read = @ + 0, !.res = r]
      /\ UNCHANGED <<p, piece, file, src, unpackSize, want, real, out, res>>
  BY DEF LimitReached, Back
<1>2. moved \in Moves /\ moved.read + 0 \in Int BY DecInvIs DEF DecInv, DecTyped
<1>3. moved' \in Moves /\ moved'.made = moved.made BY <1>1, <1>2 DEF Moves
<1>4. DecTyped' BY <1>1, <1>3 DEF DecInv, DecTyped, Places, Within
<1>5. DecPlaces' BY <1>1, <1>3 DEF DecInv, DecPlaces, Within
<1>6. DecReady' BY <1>1 DEF DecInv, DecReady
<1>7. DecKept' BY <1>1 DEF DecInv, DecKept, Waiting
<1> QED BY <1>1, <1>4, <1>5, <1>6, <1>7 DEF DecInv, DecStart, DecReal

\* The first code, from the four bytes after the first.
LEMMA FirstCode ==
    ASSUME NEW temp \in Seq(Bytes), NEW n \in Nat, Len(temp) > n
    PROVE  Repeat(LAMBDA c, i : c * Byte + temp[i + 1], 0, n) \in Nat
<1> DEFINE op(c, i) == c * Byte + temp[i + 1]
           Body(g) == [i \in 0..n |-> IF i = 0 THEN 0
                                      ELSE With(g[i - 1], LAMBDA c : op(c, i))]
           made == CHOOSE g : g = Body(g)
           step == [k \in 1..n |-> [c \in Nat |-> op(c, k)]]
<1>1. Repeat(LAMBDA c, i : c * Byte + temp[i + 1], 0, n) = made[n] BY DEF Repeat
<1>2. ASSUME NEW c \in Nat, NEW k \in 1..n PROVE op(c, k) \in Nat
  <2>1. k + 1 \in 1..Len(temp) BY SequenceIs
  <2>2. temp[k + 1] \in Nat BY <2>1, SequenceIs, BytesAre
  <2>3. Byte \in Nat BY Widths
  <2>4. c * Byte \in Nat BY <2>3
  <2> DEFINE x == c * Byte
  <2> HIDE DEF x
  <2>5. x + temp[k + 1] \in Nat BY <2>2, <2>4 DEF x
  <2> QED BY <2>5 DEF x
<1> HIDE DEF op
<1>3. 0 \in Nat OBVIOUS
<1>4. Loop(n, Nat, 0, step) BY <1>2, <1>3 DEF Loop
<1>5. \A k \in 1..n, c \in Nat : step[k][c] = op(c, k) OBVIOUS
<1> HIDE DEF step
<1>6. PICK f : Runs(f, n, Nat, 0, step) BY <1>4, LoopEnds
<1>7. \A i \in 1..n : f[i - 1] \in Nat /\ f[i] = op(f[i - 1], i)
  <2> SUFFICES ASSUME NEW i \in 1..n PROVE f[i - 1] \in Nat /\ f[i] = op(f[i - 1], i) OBVIOUS
  <2>1. i - 1 \in 0..n OBVIOUS
  <2> QED BY <1>5, <1>6, <2>1 DEF Runs
<1>8. f = Body(f) BY <1>6, <1>7 DEF Runs, With
<1>9. made = Body(made) BY <1>8
<1> HIDE DEF made
<1>10. made[0] = 0 /\ \A k \in 1..n : made[k - 1] \in Nat => made[k] = step[k][made[k - 1]]
  BY <1>5, <1>9 DEF With
<1>11. n \in 0..n OBVIOUS
<1>12. \A k \in 0..n : made[k] = f[k] /\ made[k] \in Nat
  <2>1. Runs(f, n, Nat, 0, step) /\ Follows(made, n, Nat, 0, step)
    BY <1>6, <1>10 DEF Follows
  <2> QED BY <2>1, FollowsRuns
<1>13. made[n] \in Nat BY <1>11, <1>12
<1> QED BY <1>1, <1>13

\* A code that is taken is below the range it starts with.
LEMMA BadRepCodeIs ==
    BadRepCode \in Nat /\ BadRepCode < Full
<1> DEFINE x == Full - 1
           h == Total \div 2
           a == x \div Total
           y == x - a * h
           b == y \div Total
<1>1. x \in Nat /\ Total \in Nat \ {0} /\ h \in Nat /\ h <= Total /\ Full = x + 1 BY Widths
<1>2. Bound0 = a * h /\ BadRepCode = Bound0 + ((x - Bound0) \div Total) * h
  BY DEF Bound0, BadRepCode
<1> HIDE DEF x, h
<1>3. ASSUME NEW n \in Nat PROVE /\ n \div Total \in Nat /\ (n \div Total) * h \in Nat
                                 /\ (n \div Total) * h <= n
  <2> DEFINE q == n \div Total
             r == n % Total
  <2>1. q \in Nat /\ r \in Nat /\ n = Total * q + r BY <1>1, DivIs
  <2> HIDE DEF q, r
  <2>2. q * h <= q * Total BY <1>1, <2>1, TimesGrow
  <2>3. q * h \in Nat /\ q * Total = Total * q BY <1>1, <2>1
  <2>4. q * h <= n
    <3> DEFINE u == q * h
               v == q * Total
    <3> HIDE DEF u, v
    <3>1. u <= v /\ u \in Nat BY <2>2, <2>3 DEF u, v
    <3>2. n = v + r BY <2>1, <2>3 DEF v
    <3>3. v \in Nat BY <1>1, <2>1 DEF v
    <3> QED BY <2>1, <3>1, <3>2, <3>3 DEF u
  <2> QED BY <2>1, <2>3, <2>4 DEF q
<1>4. a * h \in Nat /\ a * h <= x BY <1>1, <1>3
<1> DEFINE c == a * h
<1> HIDE DEF a
<1>5. c \in Nat /\ c <= x BY <1>4
<1>6. BadRepCode = c + b * h BY <1>2
<1> HIDE DEF c
<1>7. y \in Nat /\ y = x - c BY <1>1, <1>5 DEF c
<1> HIDE DEF y
<1>8. b * h \in Nat /\ b * h <= y BY <1>3, <1>7
<1> DEFINE d == b * h
<1>9. d \in Nat /\ d <= y /\ BadRepCode = c + d BY <1>6, <1>8
<1> HIDE DEF d
<1> QED BY <1>1, <1>5, <1>7, <1>9

LEMMA InitCoderKeeps ==
    ASSUME DecInv, InitCoder
    PROVE  DecInv'
<1> DEFINE n == Smaller(5 - Len(p.tempBuf), Len(src))
           temp == p.tempBuf \o Upto(src, n)
           code == Repeat(LAMBDA c, i : c * Byte + temp[i + 1], 0, 4)
           short == Len(temp) < 5
           bad == (temp # <<>> /\ temp[1] # 0) \/ (~short /\ code >= BadRepCode)
           Stops == /\ pc' = "back"
                    /\ \E r \in {"ok", "data"} : moved' = [moved EXCEPT !.read = @ + n, !.res = r]
                    /\ p' = [p EXCEPT !.tempBuf = temp]
           Starts == /\ pc' = "rest" /\ moved' = [moved EXCEPT !.read = @ + n]
                     /\ p' = [p EXCEPT !.tempBuf = <<>>, !.code = code, !.range = Full - 1,
                                       !.remain = "len", !.remainLen = 0]
<1>1. /\ pc = "init" /\ src' = From(src, n)
      /\ UNCHANGED <<piece, file, unpackSize, want, real, out, res>>
      /\ ((bad \/ short) /\ Stops) \/ (~bad /\ ~short /\ Starts)
  <2>1. /\ pc = "init"
        /\ src' = From(src, n)
        /\ IF bad \/ short
           THEN Back(IF bad THEN "data" ELSE "ok", n) /\ p' = [p EXCEPT !.tempBuf = temp]
           ELSE /\ Goes("rest", n)
                /\ p' = [p EXCEPT !.tempBuf = <<>>, !.code = code, !.range = Full - 1,
                                  !.remain = "len", !.remainLen = 0]
        /\ UNCHANGED <<piece, file, unpackSize, want, real, out, res>>
    BY DEF InitCoder
  <2> HIDE DEF n, temp, code, short, bad
  <2> QED BY <2>1 DEF Back, Goes
<1>2. /\ Made(p) /\ p \in Registered /\ p.tempBuf \in Seq(Bytes) /\ Len(p.tempBuf) \in Nat
      /\ Len(src) \in Nat /\ src \in Seq(Bytes) /\ moved \in Moves /\ moved.read \in Int
      /\ p.remain = "init" /\ Len(p.tempBuf) <= 5
      /\ RequiredInputMax \in Nat /\ RequiredInputMax >= 5
  BY <1>1, DecInvIs DEF DecInv, DecTyped, DecReady, Made, Sound
<1>3. n \in Nat /\ n <= 5 - Len(p.tempBuf) /\ n <= Len(src)
  <2> DEFINE a == Len(p.tempBuf)
             b == Len(src)
  <2>1. a \in Nat /\ a <= 5 /\ b \in Nat BY <1>2
  <2> HIDE DEF a, b
  <2>2. n = IF 5 - a < b THEN 5 - a ELSE b BY DEF a, b, n, Smaller
  <2> HIDE DEF n
  <2>3. n \in Nat /\ n <= 5 - a /\ n <= b BY <2>1, <2>2
  <2> QED BY <2>3 DEF a, b
<1> HIDE DEF n
<1>4. /\ Upto(src, n) \in Seq(Bytes) /\ Len(Upto(src, n)) = n /\ From(src, n) \in Seq(Bytes)
  BY <1>2, <1>3, Cut DEF Smaller
<1>5. temp \in Seq(Bytes) /\ Len(temp) \in Nat /\ Len(temp) <= 5
  <2> DEFINE t == p.tempBuf
             u == Upto(src, n)
  <2>1. t \in Seq(Bytes) /\ u \in Seq(Bytes) /\ Len(u) = n /\ temp = t \o u BY <1>2, <1>4
  <2>2. Len(t) \in Nat /\ n <= 5 - Len(t) BY <1>2, <1>3
  <2> HIDE DEF t, u, temp
  <2>3. t \o u \in Seq(Bytes) /\ Len(t \o u) = Len(t) + Len(u) BY <2>1, ConcatProperties
  <2> QED BY <1>3, <2>1, <2>2, <2>3
<1> HIDE DEF temp
<1>6. CASE Stops
  <2>1. p' \in Registered BY <1>2, <1>5, <1>6, Zenon DEF Registered
  <2>2. /\ p'.dicPos = p.dicPos /\ p'.dic = p.dic /\ p'.dicBufSize = p.dicBufSize
        /\ p'.dicSize = p.dicSize /\ p'.checkDicSize = p.checkDicSize
        /\ p'.processedPos = p.processedPos /\ p'.remain = "init" /\ p'.tempBuf = temp
    BY <1>2, <1>6 DEF Registered
  <2>3. moved' \in Moves /\ moved'.made = moved.made
    <3>1. moved.read + n \in Int BY <1>2, <1>3
    <3> QED BY <1>2, <1>6, <3>1 DEF Moves
  <2>4. Sound(p') BY <1>2, <2>1, <2>2 DEF Made, Sound
  <2>5. DecTyped' BY <1>1, <1>4, <1>6, <2>3, <2>4 DEF DecInv, DecTyped, Places, Within
  <2>6. Len(temp) <= RequiredInputMax BY <1>2, <1>5
  <2>7. DecPlaces' BY <1>1, <1>6, <2>2, <2>3, <2>6 DEF DecInv, DecPlaces, Checked, Within
  <2>8. DecReady' BY <1>5, <1>6, <2>2 DEF DecReady
  <2>9. DecKept' BY <2>2 DEF DecKept, Waiting
  <2> QED BY <1>6, <2>5, <2>7, <2>8, <2>9 DEF DecInv, DecStart, DecReal
<1>7. CASE ~bad /\ ~short /\ Starts
  <2>1. Len(temp) >= 5
    <3>1. ~short BY <1>7
    <3> QED BY <1>5, <3>1
  <2>2. code \in Nat
    <3>1. 4 \in Nat /\ Len(temp) > 4 BY <1>5, <2>1
    <3> QED BY <1>5, <3>1, FirstCode
  <2>3. ~(code >= BadRepCode) BY <1>7
  <2> HIDE DEF code
  <2>4. code < Full /\ Full - 1 \in Nat /\ Full - 1 >= Top /\ Full - 1 >= Byte * Byte
        /\ Full - 1 < Full
    <3> DEFINE b == Byte * Byte
    <3>1. Top \in Nat /\ Full \in Nat /\ Full >= 2 * Top /\ Top >= 2 * b /\ b \in Nat /\ b >= 4
      BY Widths
    <3> HIDE DEF b
    <3>2. code < Full BY <2>2, <2>3, <3>1, BadRepCodeIs
    <3>3. Full - 1 \in Nat /\ Full - 1 >= Top /\ Full - 1 >= b /\ Full - 1 < Full BY <3>1
    <3> QED BY <3>2, <3>3 DEF b
  <2> DEFINE range == Full - 1
             none == <<>>
  <2>5. /\ range \in Nat /\ range >= Top /\ range >= Byte * Byte /\ range < Full
        /\ none \in Seq(Bytes) /\ Len(none) = 0 /\ "len" \in Remains /\ 0 \in Nat
    BY <2>4 DEF Remains
  <2>6. p' = [p EXCEPT !.tempBuf = none, !.code = code, !.range = range, !.remain = "len",
                       !.remainLen = 0]
    BY <1>7
  <2> HIDE DEF range, none
  <2>7. p' \in Registered BY <1>2, <2>2, <2>5, <2>6, Zenon DEF Registered
  <2>8. /\ p'.dicPos = p.dicPos /\ p'.dic = p.dic /\ p'.dicBufSize = p.dicBufSize
        /\ p'.dicSize = p.dicSize /\ p'.checkDicSize = p.checkDicSize
        /\ p'.processedPos = p.processedPos /\ p'.remain = "len" /\ p'.tempBuf = none
        /\ p'.range = range /\ p'.code = code
    BY <1>2, <2>6 DEF Registered
  <2>9. moved' \in Moves /\ moved'.made = moved.made
    <3>1. moved.read + n \in Int BY <1>2, <1>3
    <3> QED BY <1>2, <1>7, <3>1 DEF Moves
  <2>10. Sound(p') BY <1>2, <2>7, <2>8 DEF Made, Sound
  <2>11. DecTyped' BY <1>1, <1>4, <1>7, <2>9, <2>10 DEF DecInv, DecTyped, Places, Within
  <2>12. 0 <= RequiredInputMax BY <1>2
  <2>13. DecPlaces' BY <1>1, <1>7, <2>5, <2>8, <2>9, <2>12 DEF DecInv, DecPlaces, Checked, Within
  <2>14. DecReady' BY <1>7, <2>4, <2>5, <2>8 DEF DecReady, Open
  <2>15. DecKept' BY <2>8 DEF DecKept, Waiting, none
  <2> QED BY <1>7, <2>11, <2>13, <2>14, <2>15 DEF DecInv, DecStart, DecReal
<1> QED BY <1>1, <1>6, <1>7

\* Where DecodeToDic looks for a symbol: how far the next one goes in the input at hand.
LEMMA SearchIs ==
    ASSUME DecInv, Searching
    PROVE  /\ pc = "check" /\ Made(p) /\ Open(p) /\ p.range >= Top /\ p.remain = "len"
           /\ p.remainLen = 0
           /\ AtHand \in Seq(Bytes) /\ Len(AtHand) \in Nat
           /\ Len(p.tempBuf) \in Nat /\ Len(p.tempBuf) <= Len(AtHand)
           /\ p.tempBuf # <<>> => Len(AtHand) <= RequiredInputMax
           /\ p.tempBuf = <<>> => AtHand = src /\ Len(p.tempBuf) = 0
           /\ Ends(p, AtHand, 0) \in Nat /\ Ends(p, AtHand, 0) <= RequiredInputMax
           /\ Len(p.tempBuf) <= Ends(p, AtHand, 0)
           /\ TryDummy(AtHand).used = Ends(p, AtHand, 0)
           /\ TryDummy(AtHand).kind = "eof" <=> Ends(p, AtHand, 0) > Len(AtHand)
           /\ TryDummy(AtHand).kind # "eof" => TryDummy(AtHand).kind = Kind(p, AtHand, 0)
<1>1. pc = "check" /\ (AtLimit => p.remainLen = 0) BY DEF Searching
<1>2. /\ Made(p) /\ p.dicPos \in Nat /\ want.limit \in Nat /\ p.tempBuf \in Seq(Bytes)
      /\ src \in Seq(Bytes) /\ Len(p.tempBuf) <= RequiredInputMax
  BY <1>1, DecInvIs
<1>3. p.remain = "len" /\ Open(p) /\ p.range >= Top BY <1>1 DEF DecInv, DecReady
<1>4. p.remainLen = 0
  <2>1. p.dicPos < want.limit => p.remainLen = 0 BY <1>1 DEF DecInv, DecPlaces
  <2> QED BY <1>1, <1>2, <2>1 DEF AtLimit
<1>5. Sound(p) BY <1>2 DEF Made
<1>6. /\ AtHand \in Seq(Bytes) /\ Len(AtHand) \in Nat /\ Len(p.tempBuf) <= Len(AtHand)
      /\ Len(p.tempBuf) \in Nat
      /\ \A i \in 1..Len(p.tempBuf) : p.tempBuf[i] = AtHand[i]
      /\ p.tempBuf # <<>> => Len(AtHand) <= RequiredInputMax
      /\ p.tempBuf = <<>> => AtHand = src /\ Len(p.tempBuf) = 0
  BY <1>2, <1>5, AtHandIs
<1>7. 0 \in Nat OBVIOUS
<1>8. Ends(p, AtHand, 0) \in Nat /\ Ends(p, AtHand, 0) <= 0 + RequiredInputMax
  BY <1>2, <1>3, <1>6, <1>7, EndsIs
<1>9. Ends(p, AtHand, 0) <= RequiredInputMax BY <1>8, DecoderParams
<1>10. Len(p.tempBuf) <= Ends(p, AtHand, 0)
  <2>1. CASE p.tempBuf = <<>> BY <1>6, <1>8, <2>1
  <2>2. CASE p.tempBuf # <<>>
    <3>1. Ends(p, p.tempBuf, 0) > Len(p.tempBuf)
      BY <1>1, <1>3, <2>2 DEF DecInv, DecKept, Waiting
    <3>2. Ends(p, AtHand, 0) > Len(p.tempBuf) BY <1>2, <1>3, <1>6, <3>1, EndsAgree
    <3> QED BY <1>6, <1>8, <3>2
  <2> QED BY <2>1, <2>2
<1>11. /\ TryDummy(AtHand).used = Ends(p, AtHand, 0)
       /\ TryDummy(AtHand).kind = "eof" <=> Ends(p, AtHand, 0) > Len(AtHand)
       /\ TryDummy(AtHand).kind # "eof" => TryDummy(AtHand).kind = Kind(p, AtHand, 0)
  BY <1>2, <1>3, <1>6, TryDummyIs
<1> QED BY <1>1, <1>2, <1>3, <1>4, <1>6, <1>8, <1>9, <1>10, <1>11

\* Going back from the search with the bytes that were tried in tempBuf.
LEMMA KeepingIs ==
    ASSUME DecInv, Searching, NEW temp \in Seq(Bytes), Len(temp) <= RequiredInputMax,
           NEW n \in Nat, NEW r \in {"ok", "data"},
           p' = [p EXCEPT !.tempBuf = temp], src' = From(src, n), Back(r, n),
           UNCHANGED <<piece, file, unpackSize, want, real, out, res>>,
           r = "ok" => Ends(p, temp, 0) > Len(temp)
    PROVE  DecInv'
<1>1. pc' = "back" /\ moved' = [moved EXCEPT !.read = @ + n, !.res = r] BY DEF Back
<1>2. /\ Made(p) /\ pc = "check" /\ p.remain = "len" /\ p.remainLen = 0 /\ Open(p)
      /\ p.range >= Top
  BY SearchIs
<1>3. /\ p \in Registered /\ src \in Seq(Bytes) /\ moved \in Moves /\ moved.read \in Int
  BY <1>2, DecInvIs DEF DecInv, DecTyped, Made, Sound
<1>4. p' \in Registered BY <1>3, Zenon DEF Registered
<1>5. /\ p'.dicPos = p.dicPos /\ p'.dic = p.dic /\ p'.dicBufSize = p.dicBufSize
      /\ p'.dicSize = p.dicSize /\ p'.checkDicSize = p.checkDicSize
      /\ p'.processedPos = p.processedPos /\ p'.remain = p.remain /\ p'.tempBuf = temp
      /\ p'.range = p.range /\ p'.code = p.code /\ p'.probs = p.probs
      /\ p'.remainLen = p.remainLen /\ p'.state = p.state /\ p'.reps = p.reps
  BY <1>3 DEF Registered
<1>6. Sound(p') BY <1>2, <1>4, <1>5 DEF Made, Sound
<1>7. moved' \in Moves /\ moved'.made = moved.made /\ moved'.res = r
  <2>1. moved.read + n \in Int BY <1>3
  <2> QED BY <1>1, <1>3, <2>1 DEF Moves
<1>8. src' \in Seq(Bytes) BY <1>3, Cut
<1>9. DecTyped' BY <1>1, <1>6, <1>7, <1>8 DEF DecInv, DecTyped, Places, Within
<1>10. DecPlaces' BY <1>1, <1>2, <1>5, <1>7 DEF DecInv, DecPlaces, Checked, Within
<1>11. DecReady' BY <1>1, <1>2, <1>5 DEF DecReady, Open
<1>12. Ends(p', p'.tempBuf, 0) = Ends(p, temp, 0) BY <1>5 DEF Ends, RegsOf, AtOf
<1>13. DecKept' BY <1>1, <1>2, <1>5, <1>7, <1>12 DEF DecKept, Waiting
<1> QED BY <1>1, <1>9, <1>10, <1>11, <1>13 DEF DecInv, DecStart, DecReal

LEMMA KeepBytesKeeps ==
    ASSUME DecInv, KeepBytes
    PROVE  DecInv'
<1> DEFINE n == Len(AtHand) - Len(p.tempBuf)
<1>1. Searching /\ MustTry /\ TryDummy(AtHand).kind = "eof" BY DEF KeepBytes
<1>2. /\ AtHand \in Seq(Bytes) /\ Len(AtHand) \in Nat /\ Len(p.tempBuf) \in Nat
      /\ Len(p.tempBuf) <= Len(AtHand)
      /\ Ends(p, AtHand, 0) \in Nat /\ Ends(p, AtHand, 0) <= RequiredInputMax
      /\ Ends(p, AtHand, 0) > Len(AtHand)
  BY <1>1, SearchIs
<1>3. ~(Len(AtHand) >= RequiredInputMax) /\ Len(AtHand) <= RequiredInputMax /\ n \in Nat
  BY <1>2, DecoderParams
<1>4. /\ p' = [p EXCEPT !.tempBuf = AtHand] /\ src' = From(src, n) /\ Back("ok", n)
      /\ UNCHANGED <<piece, file, unpackSize, want, real, out, res>>
  BY <1>3 DEF KeepBytes
<1> HIDE DEF n
<1>5. "ok" \in {"ok", "data"} OBVIOUS
<1> QED BY <1>1, <1>2, <1>3, <1>4, <1>5, KeepingIs

LEMMA NotFinishedKeeps ==
    ASSUME DecInv, NotFinished
    PROVE  DecInv'
<1> DEFINE used == TryDummy(AtHand).used
           n == used - Len(p.tempBuf)
           temp == Upto(AtHand, used)
<1>1. Searching BY DEF NotFinished
<1>2. /\ AtHand \in Seq(Bytes) /\ Len(AtHand) \in Nat /\ Len(p.tempBuf) \in Nat
      /\ used \in Nat /\ used <= RequiredInputMax /\ Len(p.tempBuf) <= used
  BY <1>1, SearchIs
<1>3. n \in Nat /\ ~(n < 0) /\ ~(used > RequiredInputMax) BY <1>2, DecoderParams
<1>4. /\ p' = [p EXCEPT !.tempBuf = temp] /\ src' = From(src, n) /\ Back("data", n)
      /\ UNCHANGED <<piece, file, unpackSize, want, real, out, res>>
  BY <1>3 DEF NotFinished
<1> HIDE DEF used, n
<1>5. temp \in Seq(Bytes) /\ Len(temp) <= RequiredInputMax
  <2>1. temp \in Seq(Bytes) /\ Len(temp) = Smaller(used, Len(AtHand)) BY <1>2, Cut
  <2> QED BY <1>2, <2>1, DecoderParams DEF Smaller
<1> HIDE DEF temp
<1>6. "data" \in {"ok", "data"} /\ "data" # "ok" OBVIOUS
<1> QED BY <1>1, <1>3, <1>4, <1>5, <1>6, KeepingIs

LEMMA CallRealKeeps ==
    ASSUME DecInv, CallReal
    PROVE  DecInv'
<1> DEFINE full == Len(src) - RequiredInputMax
           bufLimit == IF MustTry \/ p.tempBuf # <<>> THEN 0 ELSE full
           ends == Ends(p, AtHand, 0)
           dummy == IF MustTry THEN {ends} \intersect 0..RequiredInputMax ELSE 0..Len(AtHand)
<1>1. Searching /\ pc' = "real" /\ UNCHANGED <<p, piece, file, src, unpackSize, want, moved, out, res>>
  BY DEF CallReal
<1>2. /\ pc = "check" /\ Made(p) /\ p.remain = "len" /\ Open(p)
      /\ AtHand \in Seq(Bytes) /\ Len(AtHand) \in Nat
      /\ Len(p.tempBuf) \in Nat
      /\ p.tempBuf = <<>> => AtHand = src /\ Len(p.tempBuf) = 0
      /\ ends \in Nat /\ ends <= RequiredInputMax /\ Len(p.tempBuf) <= ends
      /\ TryDummy(AtHand).used = ends
      /\ TryDummy(AtHand).kind # "eof" => TryDummy(AtHand).kind = Kind(p, AtHand, 0)
  BY <1>1, SearchIs
<1>3. /\ p.dicPos \in Nat /\ p.dicSize \in Nat /\ p.processedPos \in Nat /\ want.limit \in Nat
      /\ Len(src) \in Nat /\ RequiredInputMax \in Nat
  BY DecInvIs
<1>4. Checked(p) /\ p.dicPos <= want.limit BY <1>2 DEF DecInv, DecPlaces, Within
<1>5. /\ Limit \in Nat /\ p.dicPos <= Limit /\ Limit <= want.limit
      /\ p.dicPos >= Limit => AtLimit
  BY <1>3, <1>4 DEF Limit, Checked, AtLimit
<1> HIDE DEF ends
<1>6. /\ real' = [buf |-> AtHand, used |-> 0, limit |-> Limit, bufLimit |-> bufLimit, dummy |-> dummy]
      /\ AtLimit => Kind(p, AtHand, 0) = "match"
  <2>1. AtLimit => MustTry BY DEF MustTry
  <2>2. CASE MustTry
    <3>1. \E tried \in {TryDummy(AtHand)} :
             /\ tried.kind # "eof" /\ (AtLimit => tried.kind = "match")
             /\ real' = [buf |-> AtHand, used |-> 0, limit |-> Limit, bufLimit |-> 0,
                         dummy |-> {tried.used} \intersect 0..RequiredInputMax]
      BY <2>2 DEF CallReal
    <3> QED BY <1>2, <2>2, <3>1
  <2>3. CASE ~MustTry BY <2>1, <2>3 DEF CallReal
  <2> QED BY <2>2, <2>3
<1>7. ~MustTry => Len(AtHand) >= RequiredInputMax BY <1>2, <1>3 DEF MustTry
<1>8. bufLimit \in Nat /\ (bufLimit > 0 => /\ p.tempBuf = <<>> /\ ~MustTry
                                           /\ bufLimit + RequiredInputMax = Len(AtHand))
  <2>1. CASE MustTry \/ p.tempBuf # <<>> BY <2>1
  <2>2. CASE ~(MustTry \/ p.tempBuf # <<>>)
    <3>1. Len(src) >= RequiredInputMax /\ AtHand = src BY <1>2, <1>7, <2>2
    <3>2. full \in Nat /\ full + RequiredInputMax = Len(AtHand) BY <1>3, <3>1
    <3> HIDE DEF full
    <3> QED BY <2>2, <3>2
  <2> QED BY <2>1, <2>2
<1>9. ends \in dummy /\ dummy \in SUBSET Nat
  <2>1. CASE MustTry BY <1>2, <1>3, <2>1
  <2>2. CASE ~MustTry BY <1>2, <1>3, <1>7, <2>2
  <2> QED BY <2>1, <2>2
<1>10. bufLimit > 0 => dummy = 0..Len(AtHand) BY <1>8
<1> HIDE DEF bufLimit, dummy, full
<1>11. real' \in Calls /\ 0 \in Nat BY <1>2, <1>5, <1>6, <1>8, <1>9 DEF Calls
<1>12. /\ real'.buf = AtHand /\ real'.used = 0 /\ real'.limit = Limit
       /\ real'.bufLimit = bufLimit /\ real'.dummy = dummy
  BY <1>6
<1>13. DecTyped' BY <1>1, <1>11 DEF DecInv, DecTyped, Places, Within
<1>14. DecPlaces' BY <1>1, <1>2 DEF DecInv, DecPlaces, Within
<1>15. DecReady' BY <1>1, <1>2 DEF DecInv, DecReady
<1>16. DecReal'
  <2>1. Ends(p', real'.buf, real'.used) = ends /\ Kind(p', real'.buf, real'.used) = Kind(p, AtHand, 0)
    BY <1>1, <1>12 DEF ends
  <2> QED BY <1>1, <1>2, <1>5, <1>6, <1>8, <1>9, <1>10, <1>12, <2>1 DEF DecReal
<1>17. DecKept' BY <1>1 DEF DecKept, Waiting
<1> QED BY <1>1, <1>13, <1>14, <1>15, <1>16, <1>17 DEF DecInv, DecStart

\* A symbol of DecodeReal's is put in the dictionary.
LEMMA RoundIs ==
    ASSUME DecInv, pc = "real", NEW sym, NEW q,
           sym = Symbol(Registers(real.buf, real.used)), q = Applied(sym, real.limit)
    PROVE  /\ Made(p) /\ p.remain = "len"
           /\ sym = Symbol(RegsOf(p, real.buf, real.used))
           /\ sym.r \in Regs /\ sym.r.used \in Nat
           /\ sym.r.used <= Ends(p, real.buf, real.used)
           /\ Ends(p, real.buf, real.used) \in Nat
           /\ Norm(sym.r) \in Regs /\ Norm(sym.r).range >= Top
           /\ Norm(sym.r).used = Ends(p, real.buf, real.used)
           /\ Made(q) /\ Same(q, p) /\ q.checkDicSize = p.checkDicSize
           /\ p.dicPos <= q.dicPos /\ q.dicPos <= real.limit
           /\ q.range = sym.r.range /\ q.code = sym.r.code /\ q.probs = sym.r.probs
           /\ q.remain \in {"len", "error"}
<1>1. /\ Made(p) /\ p.dicPos \in Nat /\ p.dicBufSize \in Nat /\ real.limit \in Nat
      /\ real.buf \in Seq(Bytes) /\ real.used \in Nat /\ want.limit \in Nat
  BY DecInvIs
<1>2. p.remain = "len" /\ Open(p) BY DEF DecInv, DecReady
<1>3. /\ p.dicPos <= real.limit /\ real.limit <= want.limit /\ want.limit <= p.dicBufSize
      /\ p.dicPos >= real.limit => Kind(p, real.buf, real.used) = "match"
  BY DEF DecInv, DecReal, DecPlaces, Within
<1>4. sym = Symbol(RegsOf(p, real.buf, real.used)) BY RegistersOf
<1>5. /\ Ends(p, real.buf, real.used) \in Nat /\ Said(sym) /\ sym.r \in Regs /\ sym.m \in Nat
      /\ sym.r.used \in Nat /\ sym.r.used <= Ends(p, real.buf, real.used)
      /\ Norm(sym.r) \in Regs /\ Norm(sym.r).range >= Top
  BY <1>1, <1>2, <1>4, EndsIs
<1>6. Norm(sym.r).used = Ends(p, real.buf, real.used) BY <1>4 DEF Ends
<1>7. p.dicPos >= real.limit => sym.kind = "match" BY <1>3, <1>4 DEF Kind
<1>8. real.limit <= p.dicBufSize BY <1>1, <1>3
<1>9. /\ Made(q) /\ Same(q, p) /\ q.checkDicSize = p.checkDicSize
      /\ p.dicPos <= q.dicPos /\ q.dicPos <= real.limit
      /\ q.range = sym.r.range /\ q.code = sym.r.code /\ q.probs = sym.r.probs
      /\ q.remain \in {p.remain, "error"}
  BY <1>1, <1>3, <1>5, <1>7, <1>8, AppliedIs
<1> QED BY <1>1, <1>2, <1>4, <1>5, <1>6, <1>9

\* One more round: only when what was read had room to spare.
LEMMA RoundKeeps ==
    ASSUME DecInv, pc = "real", NEW sym, NEW q,
           sym = Symbol(Registers(real.buf, real.used)), q = Applied(sym, real.limit),
           q.remain # "error", q.dicPos < real.limit, sym.r.used < real.bufLimit,
           p' = q, real' = [real EXCEPT !.used = sym.r.used],
           UNCHANGED <<pc, piece, file, src, unpackSize, want, moved, out, res>>
    PROVE  DecInv'
<1> DEFINE used == sym.r.used
           len == Len(real.buf)
           ends == Ends(q, real.buf, used)
<1>1. /\ sym.r \in Regs /\ used \in Nat
      /\ Made(q) /\ Same(q, p) /\ q.checkDicSize = p.checkDicSize
      /\ p.dicPos <= q.dicPos /\ q.range = sym.r.range /\ q.code = sym.r.code
      /\ q.remain = "len"
  BY RoundIs
<1>2. /\ real \in Calls /\ real.buf \in Seq(Bytes) /\ len \in Nat /\ real.bufLimit \in Nat
      /\ real.limit \in Nat /\ want.limit \in Nat /\ want.start \in Nat /\ p.dicPos \in Nat
      /\ RequiredInputMax \in Nat /\ p.remain = "len"
  BY DecInvIs DEF DecInv, DecTyped, DecReady
<1>3. q.dicPos \in Nat BY <1>1, SoundIs DEF Made
<1>4. real.bufLimit > 0 BY <1>1, <1>2
<1>5. /\ p.tempBuf = <<>> /\ real.dummy = 0..len /\ real.bufLimit + RequiredInputMax = len
      /\ real.limit <= want.limit /\ want.start <= p.dicPos
      /\ want.limit <= p.dicBufSize /\ want.limit - want.start <= want.size
  BY <1>4 DEF DecInv, DecReal, DecPlaces, Within
<1>6. Open(q) BY <1>1, RegsAre DEF Open
<1>7. ends \in Nat /\ ends <= used + 1 + RequiredInputMax BY <1>1, <1>2, <1>6, EndsIs
<1>8. /\ real' \in Calls /\ real'.used = used /\ real'.buf = real.buf /\ real'.limit = real.limit
      /\ real'.bufLimit = real.bufLimit /\ real'.dummy = real.dummy
  BY <1>1, <1>2 DEF Calls
<1> HIDE DEF used
<1>9. used < real.bufLimit BY DEF used
<1>10. used <= len /\ ends <= len BY <1>1, <1>2, <1>5, <1>7, <1>9
<1>11. Ends(p', real'.buf, real'.used) = ends BY <1>8
<1> HIDE DEF ends, len
<1>12. Len(p.tempBuf) = 0 /\ q.tempBuf = p.tempBuf /\ ends \in 0..len
  BY <1>1, <1>5, <1>7, <1>10 DEF Same
<1>13. DecTyped' BY <1>1, <1>8 DEF DecInv, DecTyped, Made
<1>14. q.dicPos <= want.limit /\ want.start <= q.dicPos BY <1>1, <1>2, <1>3, <1>5
<1>15. DecPlaces'
  BY <1>1, <1>2, <1>5, <1>12, <1>14 DEF DecInv, DecPlaces, Made, Same, Within
<1>16. DecReady' BY <1>1, <1>6 DEF DecReady
<1>17. DecReal'
  <2>1. q.dicPos <= real.limit /\ ~(q.dicPos >= real.limit) BY <1>2, <1>3
  <2> QED BY <1>2, <1>5, <1>7, <1>8, <1>10, <1>11, <1>12, <2>1 DEF DecReal, len
<1>18. DecKept' BY DEF DecKept, Waiting
<1> QED BY <1>13, <1>15, <1>16, <1>17, <1>18 DEF DecInv, DecStart

\* The last round of a call.
LEMMA LastRoundKeeps ==
    ASSUME DecInv, pc = "real", NEW sym, NEW q, NEW last, NEW n,
           sym = Symbol(Registers(real.buf, real.used)), q = Applied(sym, real.limit),
           last = Norm(sym.r), n = last.used - Len(p.tempBuf),
           p' = [DictFull(q) EXCEPT !.range = last.range, !.code = last.code, !.tempBuf = <<>>],
           src' = From(src, n),
           IF last.used \notin real.dummy \/ n < 0 THEN Back("fail", 0)
           ELSE IF q.remain = "error" THEN Back("data", n)
           ELSE Goes("rest", n),
           UNCHANGED <<real, piece, file, unpackSize, want, out, res>>
    PROVE  DecInv'
<1> DEFINE f == DictFull(q)
           none == <<>>
<1>1. /\ last \in Regs /\ last.range >= Top /\ last.used = Ends(p, real.buf, real.used)
      /\ Made(q) /\ Same(q, p) /\ p.dicPos <= q.dicPos /\ q.dicPos <= real.limit
      /\ q.remain \in {"len", "error"}
  BY RoundIs
<1>2. /\ Made(f) /\ Same(f, q) /\ Checked(f) /\ f.dicPos = q.dicPos /\ f.remain = q.remain
  BY <1>1, DictFullIs
<1>3. /\ src \in Seq(Bytes) /\ moved \in Moves /\ moved.read \in Int /\ Len(p.tempBuf) \in Nat
      /\ real.limit \in Nat /\ want.limit \in Nat /\ want.start \in Nat /\ p.dicPos \in Nat
      /\ RequiredInputMax \in Nat
  BY DecInvIs DEF DecInv, DecTyped
<1>4. /\ last.used \in real.dummy /\ last.used >= Len(p.tempBuf) /\ real.limit <= want.limit
      /\ want.start <= p.dicPos
      /\ want.limit <= p.dicBufSize /\ want.limit - want.start <= want.size
  BY <1>1 DEF DecInv, DecReal, DecPlaces, Within
<1>5. last.used \in Nat /\ last.range \in Nat /\ last.code \in Nat /\ Open(last)
  BY <1>1, RegsAre DEF Open
<1>6. n \in Nat /\ ~(n < 0) BY <1>3, <1>4, <1>5
<1>7. IF q.remain = "error" THEN Back("data", n) ELSE Goes("rest", n) BY <1>4, <1>6
<1>8. f \in Registered BY <1>2 DEF Made, Sound
<1>9. none \in Seq(Bytes) /\ Len(none) = 0 OBVIOUS
<1>10. p' = [f EXCEPT !.range = last.range, !.code = last.code, !.tempBuf = none] OBVIOUS
<1> HIDE DEF f, none
<1>11. p' \in Registered BY <1>5, <1>8, <1>9, <1>10, Zenon DEF Registered
<1>12. /\ p'.dicPos = f.dicPos /\ p'.dic = f.dic /\ p'.dicBufSize = f.dicBufSize
       /\ p'.dicSize = f.dicSize /\ p'.checkDicSize = f.checkDicSize
       /\ p'.processedPos = f.processedPos /\ p'.remain = f.remain /\ p'.tempBuf = none
       /\ p'.range = last.range /\ p'.code = last.code
  BY <1>8, <1>10 DEF Registered
<1>13. Sound(p') /\ Open(p') /\ Checked(p') BY <1>2, <1>5, <1>11, <1>12 DEF Made, Sound, Open, Checked
<1>14. /\ pc' = IF q.remain = "error" THEN "back" ELSE "rest"
       /\ moved' \in Moves /\ moved'.made = moved.made
       /\ q.remain = "error" => moved'.res = "data"
  <2>1. moved.read + n \in Int BY <1>3, <1>6
  <2>2. CASE q.remain = "error"
    <3>1. pc' = "back" /\ moved' = [moved EXCEPT !.read = @ + n, !.res = "data"]
      BY <1>7, <2>2 DEF Back
    <3> QED BY <1>3, <2>1, <2>2, <3>1 DEF Moves
  <2>3. CASE q.remain # "error"
    <3>1. pc' = "rest" /\ moved' = [moved EXCEPT !.read = @ + n] BY <1>7, <2>3 DEF Goes
    <3> QED BY <1>3, <2>1, <2>3, <3>1 DEF Moves
  <2> QED BY <2>2, <2>3
<1>15. src' \in Seq(Bytes) BY <1>3, <1>6, Cut
<1>16. pc' \in {"back", "rest"} BY <1>14
<1>17. DecTyped' BY <1>13, <1>14, <1>15, <1>16 DEF DecInv, DecTyped, Places, Within
<1>18. /\ want.start <= p'.dicPos /\ p'.dicPos <= want.limit
       /\ p'.dicBufSize = p.dicBufSize /\ p'.dicSize = p.dicSize
       /\ p'.dicBufSize >= 1 /\ p'.dicSize >= 1
  <2>1. q.dicPos \in Nat BY <1>1, SoundIs DEF Made
  <2>2. want.start <= q.dicPos /\ q.dicPos <= want.limit BY <1>1, <1>3, <1>4, <2>1
  <2> QED BY <1>1, <1>2, <1>12, <2>2 DEF Same, Made
<1>19. DecPlaces'
  BY <1>3, <1>4, <1>9, <1>12, <1>13, <1>14, <1>16, <1>18, DecoderParams DEF DecInv, DecPlaces, Within
<1>20. DecReady' BY <1>1, <1>2, <1>9, <1>12, <1>13, <1>14, <1>16 DEF DecReady
<1>21. DecKept' BY <1>12 DEF DecKept, Waiting, none
<1> QED BY <1>16, <1>17, <1>19, <1>20, <1>21 DEF DecInv, DecStart, DecReal

LEMMA DecodeKeeps ==
    ASSUME DecInv, Decode
    PROVE  DecInv'
<1> DEFINE sym == Symbol(Registers(real.buf, real.used))
           q == Applied(sym, real.limit)
           last == Norm(sym.r)
           n == last.used - Len(p.tempBuf)
<1>1. pc = "real" /\ UNCHANGED <<piece, file, unpackSize, want, out, res>> BY DEF Decode
<1>2. IF q.remain # "error" /\ q.dicPos < real.limit /\ sym.r.used < real.bufLimit
      THEN /\ p' = q /\ real' = [real EXCEPT !.used = sym.r.used]
           /\ UNCHANGED <<src, pc, moved>>
      ELSE /\ p' = [DictFull(q) EXCEPT !.range = last.range, !.code = last.code, !.tempBuf = <<>>]
           /\ src' = From(src, n)
           /\ UNCHANGED real
           /\ IF last.used \notin real.dummy \/ n < 0 THEN Back("fail", 0)
              ELSE IF q.remain = "error" THEN Back("data", n)
              ELSE Goes("rest", n)
  BY Zenon DEF Decode
<1>3. sym = Symbol(Registers(real.buf, real.used)) /\ q = Applied(sym, real.limit)
      /\ last = Norm(sym.r) /\ n = last.used - Len(p.tempBuf)
  OBVIOUS
<1> HIDE DEF sym, q, last, n
<1>4. CASE q.remain # "error" /\ q.dicPos < real.limit /\ sym.r.used < real.bufLimit
  BY <1>1, <1>2, <1>3, <1>4, RoundKeeps
<1>5. CASE ~(q.remain # "error" /\ q.dicPos < real.limit /\ sym.r.used < real.bufLimit)
  <2>1. /\ p' = [DictFull(q) EXCEPT !.range = last.range, !.code = last.code, !.tempBuf = <<>>]
        /\ src' = From(src, n) /\ UNCHANGED real
        /\ IF last.used \notin real.dummy \/ n < 0 THEN Back("fail", 0)
           ELSE IF q.remain = "error" THEN Back("data", n)
           ELSE Goes("rest", n)
    BY <1>2, <1>5
  <2> QED BY <1>1, <1>3, <2>1, LastRoundKeeps
<1> QED BY <1>4, <1>5

LEMMA ReturnKeeps ==
    ASSUME DecInv, Return
    PROVE  DecInv'
<1> DEFINE new == p.dicPos - want.start
           made == moved.made + new
           left == unpackSize - made
           more == moved.res = "ok" /\ new # 0 /\ want.size # new
           text == [i \in 1..new |-> p.dic[want.start + i - 1]]
           size == want.size - new
<1>1. /\ pc = "back" /\ out' = out \o text
      /\ want' = [want EXCEPT !.size = size] /\ moved' = [moved EXCEPT !.made = made]
      /\ unpackSize' = IF more THEN unpackSize ELSE left
      /\ pc' = IF more THEN "toBuf"
               ELSE IF moved.res # "ok" \/ left = 0 \/ Stuck(made) THEN "done" ELSE "read"
      /\ res' = IF more THEN res
                ELSE IF moved.res = "ok" /\ left # 0 /\ Stuck(made) THEN "data" ELSE moved.res
      /\ UNCHANGED <<p, piece, file, src, real>>
  BY DEF Return
<1>2. /\ Made(p) /\ p.dicPos \in Nat /\ p.dicBufSize \in Nat /\ p.dicPos <= p.dicBufSize
      /\ want.start \in Nat /\ want.limit \in Nat /\ want.size \in Nat /\ want \in Wants
      /\ moved \in Moves /\ moved.made \in Nat /\ moved.res \in {"ok", "data"}
      /\ unpackSize \in Nat /\ out \in Seq(Bytes)
  BY <1>1, DecInvIs DEF DecInv, DecTyped
<1>3. /\ want.start <= p.dicPos /\ p.dicPos <= want.limit /\ want.limit - want.start <= want.size
      /\ moved.made + want.size <= unpackSize
  BY <1>1 DEF DecInv, DecPlaces, Within
<1>4. /\ new \in Nat /\ made \in Nat /\ left \in Nat /\ size \in Nat
      /\ made + size <= unpackSize
  <2> DEFINE a == want.start
             b == p.dicPos
             c == want.limit
             d == want.size
             e == moved.made
  <2>1. /\ a \in Nat /\ b \in Nat /\ c \in Nat /\ d \in Nat /\ e \in Nat /\ unpackSize \in Nat
        /\ a <= b /\ b <= c /\ c - a <= d /\ e + d <= unpackSize
    BY <1>2, <1>3
  <2>2. /\ new = b - a /\ made = e + (b - a) /\ left = unpackSize - (e + (b - a))
        /\ size = d - (b - a)
    OBVIOUS
  <2> HIDE DEF a, b, c, d, e
  <2>3. /\ b - a \in Nat /\ e + (b - a) \in Nat /\ unpackSize - (e + (b - a)) \in Nat
        /\ d - (b - a) \in Nat /\ (e + (b - a)) + (d - (b - a)) <= unpackSize
    BY <2>1
  <2> HIDE DEF new, made, left, size
  <2> QED BY <2>2, <2>3
<1>5. text \in Seq(Bytes)
  <2>1. p.dic \in [0..(p.dicBufSize - 1) -> Bytes] BY <1>2 DEF Made, Sound, Dics
  <2>2. ASSUME NEW i \in 1..new PROVE p.dic[want.start + i - 1] \in Bytes
    <3> DEFINE a == want.start
               b == p.dicPos
               m == p.dicBufSize
    <3>1. a \in Nat /\ b \in Nat /\ m \in Nat /\ b <= m /\ new = b - a /\ new \in Nat BY <1>2, <1>4
    <3> HIDE DEF a, b, m, new
    <3>2. a + i - 1 \in 0..(m - 1) BY <3>1
    <3>3. want.start + i - 1 \in 0..(p.dicBufSize - 1) BY <3>2 DEF a, m
    <3> QED BY <2>1, <3>3
  <2> DEFINE x(i) == p.dic[want.start + i - 1]
  <2>3. text = [i \in 1..new |-> x(i)] /\ \A i \in 1..new : x(i) \in Bytes BY <2>2
  <2> HIDE DEF x, text, new
  <2> QED BY <1>4, <2>3
<1> HIDE DEF new, made, left, size, text, more
<1>6. out' \in Seq(Bytes) BY <1>1, <1>2, <1>5
<1>7. want' \in Wants /\ want'.size = size /\ want'.start = want.start /\ want'.limit = want.limit
  BY <1>1, <1>2, <1>4 DEF Wants
<1>8. moved' \in Moves /\ moved'.made = made /\ moved'.res = moved.res
  BY <1>1, <1>2, <1>4 DEF Moves
<1>9. unpackSize' \in Nat BY <1>1, <1>2, <1>4
<1>10. res' \in {"none", "ok", "data"} BY <1>1, <1>2 DEF DecInv, DecTyped
<1>11. pc' \in {"toBuf", "done", "read"} /\ (pc' = "toBuf" => more)
       /\ (pc' \in {"toBuf", "read"} => moved.res = "ok")
  BY <1>1 DEF more
<1>12. DecTyped' BY <1>1, <1>6, <1>7, <1>8, <1>9, <1>10, <1>11 DEF DecInv, DecTyped, Places
<1>13. DecPlaces'
  <2>1. pc' = "toBuf" => moved'.made + want'.size <= unpackSize' BY <1>1, <1>4, <1>7, <1>8, <1>11
  <2> QED BY <1>1, <1>11, <2>1 DEF DecInv, DecPlaces, Within
<1>14. DecReady' BY <1>1, <1>11 DEF DecInv, DecReady
<1>15. DecKept' BY <1>1, <1>11 DEF DecInv, DecKept, Waiting
<1> QED BY <1>11, <1>12, <1>13, <1>14, <1>15 DEF DecInv, DecStart, DecReal

LEMMA DecodingKeeps ==
    ASSUME DecInv, Decoding
    PROVE  DecInv'
BY NextPieceKeeps, ToBufKeeps, InitCoderKeeps, RestKeeps, LimitReachedKeeps, KeepBytesKeeps,
   NotFinishedKeeps, CallRealKeeps, DecodeKeeps, ReturnKeeps DEF Decoding

\* What is not nothing stays so when it is rounded up.
LEMMA RoundUpIs ==
    ASSUME NEW n \in Nat \ {0}, NEW u \in Nat \ {0}
    PROVE  RoundUp(n, u) \in Nat \ {0}
<1> DEFINE x == n + u - 1
           q == x \div u
<1>1. x \in Nat /\ x >= u OBVIOUS
<1> HIDE DEF x
<1>2. q \in Nat /\ x % u \in 0..(u - 1) /\ x = u * q + (x % u) BY <1>1, DivIs
<1>3. RoundUp(n, u) = q * u BY DEF RoundUp, x
<1> DEFINE r == x % u
<1> HIDE DEF q, r
<1>4. q # 0
  <2> SUFFICES ASSUME q = 0 PROVE FALSE OBVIOUS
  <2>1. u * q = 0 BY <1>1
  <2> QED BY <1>1, <1>2, <2>1 DEF r
<1>5. q \in Nat /\ q >= 1 BY <1>2, <1>4
<1>6. u * 1 <= u * q BY <1>1, <1>5, TimesGrow
<1>7. q * u = u * q /\ q * u \in Nat BY <1>1, <1>5
<1>8. q * u >= 1
  <2> DEFINE y == q * u
  <2>1. y \in Nat /\ u * 1 <= y BY <1>6, <1>7
  <2> HIDE DEF y
  <2>2. u <= y BY <1>1, <2>1
  <2>3. y >= 1 BY <1>1, <2>1, <2>2
  <2> QED BY <2>3 DEF y
<1> QED BY <1>3, <1>7, <1>8

LEMMA DecStarts == DecInit("off") => DecInv
<1> SUFFICES ASSUME DecInit("off") PROVE DecInv OBVIOUS
<1>1. /\ pc = "off"
      /\ p = [range |-> 0, code |-> 0, probs |-> [c \in {} |-> 0], state |-> 0,
              reps |-> <<1, 1, 1, 1>>, remain |-> "init", remainLen |-> 0,
              processedPos |-> 0, checkDicSize |-> 0, dicSize |-> 0, dicBufSize |-> 0,
              dic |-> <<>>, dicPos |-> 0, tempBuf |-> <<>>]
      /\ piece \in Pieces
      /\ file = <<>> /\ src = <<>> /\ unpackSize = 0 /\ out = <<>> /\ res = "none"
      /\ want = [size |-> 0, finish |-> FALSE, start |-> 0, limit |-> 0, curFinish |-> FALSE]
      /\ moved = [read |-> 0, made |-> 0, res |-> "ok"]
      /\ real = [buf |-> <<>>, used |-> 0, limit |-> 0, bufLimit |-> 0, dummy |-> {}]
  BY DEF DecInit
<1>2. [c \in {} |-> 0] \in Learned
  <2>1. [c \in {} |-> 0] \in [{} -> Probs] /\ {} \in SUBSET Ctx OBVIOUS
  <2> QED BY <2>1 DEF Learned
<1>3. <<1, 1, 1, 1>> \in EncReps BY DEF EncReps, Back4
<1>4. <<>> \in Dics(0) /\ <<>> \in AnyDic
  <2>1. <<>> \in Dics(0) BY DEF Dics
  <2> QED BY <2>1 DEF AnyDic
<1>5. /\ 0 \in Nat /\ 0 \in Int /\ 0 \in 0..11 /\ <<>> \in Seq(Bytes) /\ "init" \in Remains
      /\ FALSE \in BOOLEAN /\ "ok" \in {"ok", "data"} /\ {} \in SUBSET Nat /\ Len(<<>>) = 0
  BY DEF Remains
<1>6. p \in Registered BY <1>1, <1>2, <1>3, <1>4, <1>5, Zenon DEF Registered
<1>7. /\ p.dicPos = 0 /\ p.dicBufSize = 0 /\ p.dic = <<>> /\ p.processedPos = 0
      /\ p.checkDicSize = 0 /\ p.remain = "init" /\ p.tempBuf = <<>>
  BY <1>1
<1>8. Sound(p) BY <1>4, <1>6, <1>7 DEF Sound
<1>9. want \in Wants BY <1>1, <1>5, Zenon DEF Wants
<1>10. moved \in Moves BY <1>1, <1>5, Zenon DEF Moves
<1>11. real \in Calls BY <1>1, <1>5, Zenon DEF Calls
<1>12. DecTyped BY <1>1, <1>5, <1>8, <1>9, <1>10, <1>11 DEF DecTyped, Places
<1>13. DecStart BY <1>7 DEF DecStart
<1>14. DecPlaces BY <1>1, <1>5, <1>7, DecoderParams DEF DecPlaces, Within
<1>15. DecReady BY <1>1, <1>5, <1>7 DEF DecReady
<1>16. DecReal /\ DecKept BY <1>1, <1>7 DEF DecReal, DecKept, Waiting
<1> QED BY <1>12, <1>13, <1>14, <1>15, <1>16 DEF DecInv

LEMMA StartDecodeKeeps ==
    ASSUME EncInv, DecInv, StartDecode
    PROVE  DecInv'
<1> DEFINE dict == HeaderDict(input.dict)
           size == DicBufSize(dict)
           zero == [i \in 0..(size - 1) |-> 0]
           n == Len(rc.out) - lost'
<1>1. /\ pc = "off" /\ pc' = "read" /\ lost' \in Losses /\ lost' <= Len(rc.out)
      /\ file' = Upto(rc.out, n) /\ unpackSize' = input.size
      /\ p' = [p EXCEPT !.dicSize = dict, !.dicBufSize = size, !.dic = zero]
      /\ UNCHANGED <<piece, src, want, moved, real, out, res>>
  BY DEF StartDecode
<1>2. input.dict \in Nat \ {0} /\ input.size \in Nat BY InputsTyped DEF EncInv
<1>3. /\ dict \in Nat /\ dict >= 1
      /\ size \in Nat /\ size >= 1
  <2>1. dict \in Nat \ {0} BY <1>2, FileParams, RoundUpIs DEF HeaderDict
  <2> HIDE DEF dict
  <2>2. size \in Nat \ {0} BY <2>1, FileParams, RoundUpIs DEF DicBufSize
  <2> QED BY <2>1, <2>2
<1>4. rc.out \in Seq(Bytes) BY DEF EncInv, Flushed, Coder
<1>5. n \in Nat
  <2>1. Len(rc.out) \in Nat BY <1>4, SequenceIs
  <2> QED BY <1>1, <2>1, FileParams
<1>6. file' \in Seq(Bytes) BY <1>1, <1>4, <1>5, Cut
<1> HIDE DEF dict, size, n
<1>7. zero \in Dics(size) /\ zero \in AnyDic
  <2>1. 0 \in Bytes BY Widths DEF Bytes
  <2>2. zero \in Dics(size) BY <2>1 DEF Dics
  <2> QED BY <1>3, <2>2 DEF AnyDic
<1> HIDE DEF zero
<1>8. /\ p \in Registered /\ p.dicPos = 0 /\ p.processedPos = 0 /\ p.checkDicSize = 0
      /\ p.remain = "init" /\ p.tempBuf = <<>>
  BY <1>1 DEF DecInv, DecTyped, Sound, DecStart
<1>9. dict \in Nat /\ dict >= 1 BY <1>3
<1>10. p' \in Registered BY <1>1, <1>3, <1>7, <1>8, <1>9, Zenon DEF Registered
<1>11. /\ p'.dicPos = 0 /\ p'.dic = zero /\ p'.dicBufSize = size /\ p'.dicSize = dict
       /\ p'.checkDicSize = 0 /\ p'.processedPos = 0 /\ p'.remain = "init" /\ p'.tempBuf = <<>>
  BY <1>1, <1>8 DEF Registered
<1>12. Sound(p') BY <1>3, <1>7, <1>10, <1>11 DEF Sound
<1>13. DecTyped' BY <1>1, <1>2, <1>6, <1>12 DEF DecInv, DecTyped, Places
<1>14. Len(<<>>) = 0 OBVIOUS
<1>15. DecPlaces'
  BY <1>1, <1>3, <1>9, <1>11, <1>14, DecoderParams DEF DecPlaces, Within, Checked
<1>16. DecReady' BY <1>1, <1>11, <1>14 DEF DecReady
<1> QED BY <1>1, <1>11, <1>13, <1>15, <1>16 DEF DecInv, DecStart, DecReal, DecKept, Waiting

-----------------------------------------------------------------------------
(* The file *)

FileInv == EncInv /\ DecInv

LEMMA FileStarts == Init => FileInv
BY EncStarts, DecStarts DEF Init, FileInv

LEMMA FileKeeps == FileInv /\ [Next]_vars => FileInv'
<1> SUFFICES ASSUME FileInv, [Next]_vars PROVE FileInv' OBVIOUS
<1>1. EncInv /\ DecInv BY DEF FileInv
<1>2. UNCHANGED encVars => EncInv' BY <1>1 DEF EncInv, encVars, Text
<1>3. UNCHANGED decVars => DecInv'
  BY <1>1 DEF DecInv, decVars, DecTyped, DecStart, DecPlaces, DecReady, DecReal, DecKept, Waiting
<1>4. CASE Encode
  <2>1. EncInv' BY <1>1, <1>4, EncodingKeeps DEF Encode
  <2>2. DecInv' BY <1>3, <1>4 DEF Encode
  <2> QED BY <2>1, <2>2 DEF FileInv
<1>5. CASE StartDecode
  <2>1. EncInv' BY <1>2, <1>5 DEF StartDecode
  <2>2. DecInv' BY <1>1, <1>5, StartDecodeKeeps
  <2> QED BY <2>1, <2>2 DEF FileInv
<1>6. CASE DecodeFile
  <2>1. EncInv' BY <1>2, <1>6 DEF DecodeFile
  <2>2. DecInv' BY <1>1, <1>6, DecodingKeeps DEF DecodeFile
  <2> QED BY <2>1, <2>2 DEF FileInv
<1>7. CASE UNCHANGED vars
  <2>1. UNCHANGED encVars /\ UNCHANGED decVars BY <1>7 DEF vars
  <2> QED BY <1>2, <1>3, <2>1 DEF FileInv
<1> QED BY <1>4, <1>5, <1>6, <1>7 DEF Next, Over

LEMMA FileInvariant == Spec => []FileInv
BY FileStarts, FileKeeps, PTL DEF Spec

\* Of every text, whatever the widths, the sizes of the buffers and the header: the
\* registers of the range coder (LzmaEnc.c:591-743) and of the range decoder
\* (LzmaDec.c:19-60) keep within theirs, and no step writes past its limit in the
\* dictionary.
THEOREM WidthsAreKept == Spec => []TypeOK
<1>1. FileInv => TypeOK
  <2> SUFFICES ASSUME FileInv PROVE TypeOK OBVIOUS
  <2>1. EncInv /\ DecInv BY DEF FileInv
  <2>2. /\ rc \in Coder /\ rc.range \in Top..(Full - 1) /\ Carries(rc, 1)
        /\ encState \in 0..11
    BY <2>1 DEF EncInv, Flushed
  <2>3. /\ rc.low \in Nat /\ rc.cache \in 0..(Byte - 1) /\ rc.cacheSize \in Nat
        /\ rc.out \in Seq(0..(Byte - 1)) /\ rc.probs \in Learned
    BY <2>2 DEF Coder, Bytes
  <2>4. rc.low \in 0..(2 * Full - 1)
    <3>1. Full \in Nat BY Widths
    <3> QED BY <2>2, <2>3, <3>1 DEF Carries
  <2>5. \A c \in DOMAIN rc.probs : rc.probs[c] \in 1..(Total - 1)
    <3>1. \A c \in DOMAIN rc.probs : rc.probs[c] \in Probs BY <2>3 DEF Learned
    <3>2. LeastProb \in Nat \ {0} /\ Total \in Nat BY Widths
    <3>3. \A x \in Probs : x \in 1..(Total - 1) BY <3>2 DEF Probs
    <3> QED BY <3>1, <3>3
  <2>6. /\ p.dicPos <= p.dicBufSize /\ Len(p.tempBuf) <= RequiredInputMax /\ p.range \in Nat
        /\ p.code \in Nat /\ p.state \in 0..11 /\ out \in Seq(0..(Byte - 1))
    BY <2>1, DecInvIs, SoundIs DEF DecInv, DecTyped, Bytes
  <2>7. pc \in {"rest", "check", "real", "back"} => p.dicPos <= want.limit
    BY <2>1 DEF DecInv, DecPlaces, Within
  <2>8. pc \in {"check", "rest", "read", "toBuf"} /\ p.remain = "len" =>
           p.range \in Top..(Full - 1) /\ p.code \in 0..(Full - 1)
    <3> SUFFICES ASSUME pc \in {"check", "rest", "read", "toBuf"}, p.remain = "len"
                 PROVE  p.range \in Top..(Full - 1) /\ p.code \in 0..(Full - 1)
      OBVIOUS
    <3>1. p.range >= Top /\ p.range < Full /\ p.code < Full
      BY <2>1 DEF DecInv, DecReady, Open
    <3>2. Top \in Nat /\ Full \in Nat BY Widths
    <3> QED BY <2>6, <3>1, <3>2
  <2> QED BY <2>2, <2>3, <2>4, <2>5, <2>6, <2>7, <2>8 DEF TypeOK
<1> QED BY <1>1, FileInvariant, PTL

\* The dry run (LzmaDec_TryDummy, LzmaDec.c:652-912) takes the bytes that DecodeReal
\* then takes, and LZMA_REQUIRED_INPUT_MAX of them cover any symbol (LzmaDec.h:48-51): the
\* "unexpected error" of DecodeToDic is not met and nothing is read past the input, of any
\* file, also of one that no encoder wrote.
THEOREM DecoderIsInStep == Spec => []NoInternalError
<1>1. FileInv => NoInternalError
  BY DEF FileInv, DecInv, DecTyped, DecReal, Moves, NoInternalError
<1> QED BY <1>1, FileInvariant, PTL

=============================================================================
