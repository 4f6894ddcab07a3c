---------------------------- MODULE LzmaEncoder ----------------------------
(***************************************************************************)
(* The coder of LzmaEnc.c: LzmaEnc_CodeOneBlock turns each packet that     *)
(* GetOptimum chose (a literal, a match, one of the four last distances)   *)
(* into bits with their contexts, and the range encoder turns the bits     *)
(* into bytes.  Which packets are chosen is a matter of price and left     *)
(* open: any packet that describes the text may come.                      *)
(***************************************************************************)
EXTENDS LzmaCoding

CONSTANT Inputs                 \* what may be encoded: [text, dict, size]

ASSUME InputsTyped ==
    \A i \in Inputs : i.text \in Seq(0 .. Byte - 1) /\ i.dict \in Nat \ {0} /\ i.size \in Nat

VARIABLES
    input,
    rc,                         \* [low, range, cache, cacheSize, out, probs]
    pos,                        \* nowPos64
    encState, encReps,
    finished

encVars == <<input, rc, pos, encState, encReps, finished>>

Text == input.text
ByteAt(i) == Text[i + 1]

-----------------------------------------------------------------------------
(* The range encoder *)

\* Mutant: the carry does not reach the bytes held back.
ShiftLow_noCarry(e) ==
    LET low == e.low % Full
        high == e.low \div Full
        shifted == [e EXCEPT !.low = (low * Byte) % Full]
    IN  IF low < Full - Top \/ high # 0
        THEN [shifted EXCEPT
                !.out = (@ \o <<(e.cache + high) % Byte>>)
                           \o [i \in 1 .. e.cacheSize |-> Byte - 1],
                !.cache = low \div Top, !.cacheSize = 0]
        ELSE [shifted EXCEPT !.cacheSize = @ + 1]

\* RangeEnc_ShiftLow: the top byte of low goes out when no carry can change it any
\* more; a byte of ones is only counted until then.
ShiftLow(e) ==
    LET low == e.low % Full
        high == e.low \div Full
        shifted == [e EXCEPT !.low = (low * Byte) % Full]
    IN  IF low < Full - Top \/ high # 0
        THEN [shifted EXCEPT
                !.out = (@ \o <<(e.cache + high) % Byte>>)
                           \o [i \in 1 .. e.cacheSize |-> (Byte - 1 + high) % Byte],
                !.cache = low \div Top, !.cacheSize = 0]
        ELSE [shifted EXCEPT !.cacheSize = @ + 1]

\* Mutant: a byte goes out only when two are due.
EncNorm_late(e) ==
    IF e.range < Byte * Byte THEN ShiftLow([e EXCEPT !.range = @ * Byte]) ELSE e

\* RC_NORM
EncNorm(e) ==
    IF e.range < Top THEN ShiftLow([e EXCEPT !.range = @ * Byte]) ELSE e

\* RC_BIT, and one round of RangeEnc_EncodeDirectBits for a bit without a context.
Direct == <<"direct", 0, 0>>

EncodeBit(e, d) ==
    IF d.ctx = Direct
    THEN LET half == e.range \div 2
         IN  EncNorm([e EXCEPT !.range = half, !.low = @ + half * d.bit])
    ELSE LET prob == ProbOf(e.probs, d.ctx)
             bound == (e.range \div Total) * prob
         IN  EncNorm(IF d.bit = 0
                     THEN [e EXCEPT !.range = bound, !.probs = Learn(@, d.ctx, After0(prob))]
                     ELSE [e EXCEPT !.range = @ - bound, !.low = @ + bound,
                                    !.probs = Learn(@, d.ctx, After1(prob))])

EncodeAll(e, ds) == Repeat(LAMBDA f, i : EncodeBit(f, ds[i]), e, Len(ds))

FlushData(e) == Repeat(LAMBDA f, i : ShiftLow(f), e, 5)

-----------------------------------------------------------------------------
(* The bits of a packet, each with its context *)

D(name, i, j, bit) == [ctx |-> <<name, i, j>>, bit |-> bit]

\* LitEnc_Encode and the other trees: high bits first, the node is 1 and the bits so far.
Tree(name, base, bits, sym) ==
    [i \in 1 .. bits |->
        D(name, base + ((Pow2[bits] + sym) \div Pow2[bits - i + 1]), 0, BitOf(sym, bits - i))]

\* LitEnc_EncodeMatched: as long as the bits are those of the byte at rep0, the bit of
\* that byte is part of the context.
MatchedTree(base, sym, matchByte) ==
    [i \in 1 .. ByteBits |->
        LET agree == \A j \in 1 .. i - 1 :
                        BitOf(sym, ByteBits - j) = BitOf(matchByte, ByteBits - j)
            offs == IF agree THEN Byte + Byte * BitOf(matchByte, ByteBits - i) ELSE 0
        IN  D("lit", base + offs + ((Byte + sym) \div Pow2[ByteBits - i + 1]), 0,
              BitOf(sym, ByteBits - i))]

\* RcTree_ReverseEncode: low bits first.
ReverseTree(name, base, bits, sym) ==
    [i \in 1 .. bits |->
        D(name, base + Repeat(LAMBDA m, k : 2 * m + BitOf(sym, k - 1), 1, i - 1), 0,
          BitOf(sym, i - 1))]

\* The tree of the long lengths.
HighOf == [len |-> "lenHigh", repLen |-> "repLenHigh"]

\* LenEnc_Encode: the two choices are the unused roots of the trees of position state 0.
LenBits(name, len, posState) ==
    LET sym == len - MatchMinLen
        at == posState * 2 * LenLow
    IN  IF sym < LenLow
        THEN <<D(name, 0, 0, 0)>> \o Tree(name, at, LenLowBits, sym)
        ELSE IF sym < 2 * LenLow
        THEN <<D(name, 0, 0, 1), D(name, LenLow, 0, 0)>>
                \o Tree(name, at + LenLow, LenLowBits, sym - LenLow)
        ELSE <<D(name, 0, 0, 1), D(name, LenLow, 0, 1)>>
                \o Tree(HighOf[name], 0, LenHighBits, sym - 2 * LenLow)

\* GetPosSlot: twice the highest bit's place, and the bit below it.
PosSlot(dist) ==
    IF dist < 2 THEN dist
    ELSE LET top == CHOOSE n \in 1 .. dist : Pow2[n] <= dist /\ dist < Pow2[n + 1]
         IN  2 * top + BitOf(dist, top - 1)

\* The distance less one: slot, then the bits the slot leaves open, in a tree of the
\* slot's own or, of a far match, directly but for the last ones.
DistBits(dist, len) ==
    LET slot == PosSlot(dist)
        footer == (slot \div 2) - 1
        base == (2 + (slot % 2)) * Pow2[footer]
    IN  Tree("slot", LenToPosState(len) * Pow2[SlotBits], SlotBits, slot) \o
        (IF dist < StartPosModelIndex THEN <<>>
         ELSE IF dist < NumFullDistances THEN ReverseTree("spec", base, footer, dist)
         ELSE [i \in 1 .. footer - AlignBits |-> [ctx |-> Direct, bit |-> BitOf(dist, footer - i)]]
                 \o ReverseTree("align", 0, AlignBits, dist))

-----------------------------------------------------------------------------
(* Packets *)

Reaches(dist, len) ==
    /\ dist <= Smaller(pos, input.dict) /\ pos + len <= Len(Text)
    /\ \A i \in pos .. pos + len - 1 : ByteAt(i) = ByteAt(i - dist)

\* The packets that describe the text from pos on, as GetOptimum gives them: matches of
\* the match finder, and the last distances where they still match.
Packets ==
    {[kind |-> "lit", len |-> 1, dist |-> 0]} \union
    {pk \in [kind : {"match"}, len : MatchMinLen .. MatchMaxLen, dist : 1 .. pos] :
        Reaches(pk.dist, pk.len)} \union
    {pk \in [kind : {"rep"}, len : 1 .. MatchMaxLen, dist : 0 .. 3] :
        /\ pk.len = 1 => pk.dist = 0
        /\ Reaches(encReps[pk.dist + 1], pk.len)}

LiteralNextStates == <<0, 0, 0, 0, 1, 2, 3, 4, 5, 6, 4, 5>>
MatchNext(s) == IF s < NumLitStates THEN 7 ELSE 10
RepNext(s) == IF s < NumLitStates THEN 8 ELSE 11
ShortRepNext(s) == IF s < NumLitStates THEN 9 ELSE 11

\* What the contexts of the next packet depend on, lit and match for a literal only: the
\* literal coder, and the byte at rep0.
EncAt == [state |-> encState, posState |-> PosState(pos), lit |-> LitBase(pos, ByteAt(pos - 1)),
         match |-> ByteAt(pos - encReps[1])]

\* byte is the one that a literal stands for.
PacketBits(pk, at, byte) ==
    LET s == at.state
        ps == at.posState
    IN  CASE pk.kind = "lit" ->
                <<D("isMatch", s, ps, 0)>> \o
                (IF s < NumLitStates THEN Tree("lit", at.lit, ByteBits, byte)
                 ELSE MatchedTree(at.lit, byte, at.match))
          [] pk.kind = "match" ->
                <<D("isMatch", s, ps, 1), D("isRep", s, 0, 0)>>
                    \o LenBits("len", pk.len, ps) \o DistBits(pk.dist - 1, pk.len)
          [] pk.kind = "rep" ->
                <<D("isMatch", s, ps, 1), D("isRep", s, 0, 1)>> \o
                (CASE pk.dist = 0 -> <<D("isRepG0", s, 0, 0),
                                      D("isRep0Long", s, ps, IF pk.len = 1 THEN 0 ELSE 1)>>
                   [] pk.dist = 1 -> <<D("isRepG0", s, 0, 1), D("isRepG1", s, 0, 0)>>
                   [] pk.dist > 1 -> <<D("isRepG0", s, 0, 1), D("isRepG1", s, 0, 1),
                                      D("isRepG2", s, 0, pk.dist - 2)>>)
                \o (IF pk.len = 1 THEN <<>> ELSE LenBits("repLen", pk.len, ps))

\* A match pushes its distance; a last distance that is used again goes to the front.
RepsAfter(reps, pk) ==
    CASE pk.kind = "lit" -> reps
      [] pk.kind = "match" -> <<pk.dist, reps[1], reps[2], reps[3]>>
      [] pk.kind = "rep" -> <<reps[pk.dist + 1]>> \o
            [i \in 1 .. 3 |-> IF i <= pk.dist THEN reps[i] ELSE reps[i + 1]]

\* The first byte of the text is always a literal, without a byte before it.
CodeFirst ==
    /\ ~finished /\ pos = 0 /\ Text # <<>>
    /\ rc' = EncodeAll(rc, <<D("isMatch", 0, 0, 0)>> \o Tree("lit", 0, ByteBits, ByteAt(0)))
    /\ pos' = 1
    /\ UNCHANGED <<input, encState, encReps, finished>>

CodePacket ==
    /\ pos > 0 /\ pos < Len(Text)
    /\ \E pk \in Packets :
          /\ rc' = EncodeAll(rc, PacketBits(pk, EncAt, ByteAt(pos)))
          /\ encReps' = RepsAfter(encReps, pk)
          /\ encState' = CASE pk.kind = "lit" -> LiteralNextStates[encState + 1]
                           [] pk.kind = "match" -> MatchNext(encState)
                           [] pk.kind = "rep" -> IF pk.len = 1 THEN ShortRepNext(encState)
                                                ELSE RepNext(encState)
          /\ pos' = pos + pk.len
    /\ UNCHANGED <<input, finished>>

\* Flush: without an end marker, which LzmaUtil does not ask for.
Flush ==
    /\ ~finished /\ pos = Len(Text)
    /\ rc' = FlushData(rc)
    /\ finished' = TRUE
    /\ UNCHANGED <<input, pos, encState, encReps>>

Encoding == CodeFirst \/ CodePacket \/ Flush

EncInit ==
    /\ input \in Inputs
    /\ rc = [low |-> 0, range |-> Full - 1, cache |-> 0, cacheSize |-> 0, out |-> <<>>,
             probs |-> [c \in {} |-> 0]]
    /\ pos = 0 /\ encState = 0 /\ encReps = <<1, 1, 1, 1>> /\ finished = FALSE

=============================================================================
