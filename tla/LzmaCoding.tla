----------------------------- MODULE LzmaCoding -----------------------------
(***************************************************************************)
(* What LzmaEnc.c and LzmaDec.c define alike: the widths of the range      *)
(* coder, the adaptive probability of a bit, and the sizes of the trees.   *)
(* The widths are parameters (a byte has ByteBits bits, not 8), so that    *)
(* carries, full registers and every kind of distance come up in texts of  *)
(* a few bytes; the C values are in the comments.                          *)
(***************************************************************************)
EXTENDS Integers, Sequences

CONSTANTS
    ByteBits,                   \* 8: the registers hold four bytes
    ModelBits,                  \* 11: kNumBitModelTotalBits
    MoveBits,                   \* 5: kNumMoveBits
    Lc, Lp, Pb,                 \* 3, 0, 2
    LenLowBits, LenHighBits,    \* 3, 8
    SlotBits,                   \* 6: kNumPosSlotBits
    EndPosModelIndex,           \* 14
    AlignBits                   \* 4: kNumAlignBits

ASSUME CodingParams ==
    /\ {ByteBits, ModelBits, MoveBits, LenLowBits, LenHighBits, SlotBits, AlignBits}
         \subseteq Nat \ {0}
    /\ {Lc, Lp, Pb} \subseteq Nat /\ Lc <= ByteBits
    /\ MoveBits < ModelBits /\ ModelBits < 3 * ByteBits
    /\ EndPosModelIndex \in Nat /\ EndPosModelIndex % 2 = 0
    /\ EndPosModelIndex \div 2 > AlignBits + 1          \* one direct bit at least

\* 1 << n
Pow2[n \in Nat] == IF n = 0 THEN 1 ELSE 2 * Pow2[n - 1]

Byte == Pow2[ByteBits]
Top == Byte * Byte * Byte       \* kTopValue
Full == Byte * Top              \* 2^32
Total == Pow2[ModelBits]        \* kBitModelTotal

MatchMinLen == 2
LenLow == Pow2[LenLowBits]
LenHigh == Pow2[LenHighBits]
MatchMaxLen == MatchMinLen + 2 * LenLow + LenHigh - 1
StartPosModelIndex == 4
NumFullDistances == Pow2[EndPosModelIndex \div 2]
NumSlots == Pow2[SlotBits]
ASSUME SlotsReach == EndPosModelIndex < NumSlots
NumLitStates == 7

BitOf(n, i) == (n \div Pow2[i]) % 2
Smaller(m, n) == IF m < n THEN m ELSE n

\* A probability is of a 0, in units of 1 / Total; all start in the middle.
ProbOf(probs, ctx) == IF ctx \in DOMAIN probs THEN probs[ctx] ELSE Total \div 2

After0(prob) == prob + ((Total - prob) \div Pow2[MoveBits])
After1(prob) == prob - (prob \div Pow2[MoveBits])

\* No probability comes closer to 0 and 1 than this, so that one byte at a time keeps the
\* range above kTopValue ("if", not "while", in RC_NORM and NORMALIZE).
LeastProb == Pow2[MoveBits] - 1
ASSUME OneNormalization == Total <= Byte * LeastProb

Learn(probs, ctx, prob) ==
    [c \in DOMAIN probs \union {ctx} |-> IF c = ctx THEN prob ELSE probs[c]]

\* The literal coder of a position: lc high bits of the byte before and lp low bits of
\* the position (both files, with lpMask).
LitBase(pos, prevByte) ==
    LET x == pos * Byte + prevByte
    IN  3 * ((x % Pow2[ByteBits + Lp]) - (x % Pow2[ByteBits - Lc])) * Pow2[Lc]

PosState(pos) == pos % Pow2[Pb]
LenToPosState(len) == Smaller(len - MatchMinLen, 3)

\* op of v, where v is worked out once however often op names it.
With(v, op(_)) == CHOOSE y \in {op(x) : x \in {v}} : TRUE

\* op applied n times, to what the time before made and the number of the time.
Repeat(op(_, _), acc, n) ==
    LET made[i \in 0 .. n] ==
            IF i = 0 THEN acc ELSE With(made[i - 1], LAMBDA a : op(a, i))
    IN  made[n]

=============================================================================
