---------------------------- MODULE LzmaDecoder ----------------------------
(***************************************************************************)
(* The decoder of LzmaDec.c under the loop of LzmaUtil.c: Decode2 reads    *)
(* the file in pieces and wants the text in pieces; LzmaDec_DecodeToBuf    *)
(* turns that into limits in the circular dictionary; DecodeToDic decodes  *)
(* as many symbols as the input at hand surely covers, tries a symbol dry  *)
(* when it may not, keeps the bytes of an incomplete one in tempBuf, and   *)
(* a match that does not fit below the limit in remainLen.                 *)
(*                                                                         *)
(* An action is one round of one of these loops.  p is the CLzmaDec; the   *)
(* others are the locals of the functions on the stack.                    *)
(***************************************************************************)
EXTENDS LzmaCoding

CONSTANTS
    Pieces,                     \* IN_BUF_SIZE, OUT_BUF_SIZE: [inp, out]
    RequiredInputMax            \* 20: LZMA_REQUIRED_INPUT_MAX, bytes that cover a symbol

ASSUME DecoderParams ==
    /\ \A b \in Pieces : {b.inp, b.out} \subseteq Nat \ {0}
    /\ RequiredInputMax \in Nat /\ RequiredInputMax >= 5

VARIABLES
    p,                          \* the CLzmaDec
    pc,                         \* where the decoder is
    piece,                      \* the sizes of the buffers
    file,                       \* what has not been read
    src,                        \* what has been read and not consumed
    unpackSize,                 \* what Decode2 still wants
    want,                       \* DecodeToBuf: [size, finish, start, limit, curFinish]
    moved,                      \* [read, made, res]: *srcLen, *destLen, what DecodeToDic said
    real,                       \* a call of DecodeReal: [buf, used, limit, bufLimit, dummy]
    out,                        \* the text written
    res

decVars == <<p, pc, piece, file, src, unpackSize, want, moved, real, out, res>>

-----------------------------------------------------------------------------
(* The range decoder: r is [range, code, probs, buf, used, bit, at], at as in PacketBits *)

\* Reading past the buffer gives whatever is there: taken as 0 and seen in r.used.
Norm(r) ==
    LET byte == IF r.used < Len(r.buf) THEN r.buf[r.used + 1] ELSE 0
    IN  IF r.range < Top
        THEN [r EXCEPT !.range = @ * Byte, !.used = @ + 1, !.code = (@ * Byte + byte) % Full]
        ELSE r

DecodeBit(r, ctx) ==
    With(Norm(r), LAMBDA n :
        LET prob == ProbOf(n.probs, ctx)
            bound == (n.range \div Total) * prob
        IN  IF n.code < bound
            THEN [n EXCEPT !.range = bound, !.bit = 0, !.probs = Learn(@, ctx, After0(prob))]
            ELSE [n EXCEPT !.range = @ - bound, !.code = @ - bound, !.bit = 1,
                           !.probs = Learn(@, ctx, After1(prob))])

DirectBit(r) ==
    With(Norm(r), LAMBDA n :
        LET half == n.range \div 2
        IN  IF n.code >= half THEN [n EXCEPT !.range = half, !.code = @ - half, !.bit = 1]
            ELSE [n EXCEPT !.range = half, !.bit = 0])

\* What is read in several bits is [r, m]: r after the last, m the value.
Plus(t, n) == [t EXCEPT !.m = @ + n]
Bits(a, b) == [r |-> b, m |-> 2 * a.m + b.bit]

\* TREE_DECODE: the node reached, less the root.
TreeGet(r, name, base, bits) ==
    [Repeat(LAMBDA a, i : With(DecodeBit(a.r, <<name, base + a.m, 0>>), LAMBDA b : Bits(a, b)),
            [r |-> r, m |-> 1], bits) EXCEPT !.m = @ - Pow2[bits]]

\* MATCHED_LITER_DEC: offs is the bit above the byte until the text differs from it.
MatchedGet(r, base, matchByte) ==
    LET Round(a, i) ==
            LET offs == IF BitOf(matchByte, ByteBits - i) = 1 THEN a.offs ELSE 0
            IN  With(DecodeBit(a.r, <<"lit", base + offs + a.offs + a.m, 0>>), LAMBDA b :
                    [r |-> b, m |-> 2 * a.m + b.bit,
                     offs |-> IF b.bit = 0 THEN a.offs - offs ELSE offs])
    IN  [Repeat(Round, [r |-> r, m |-> 1, offs |-> Byte], ByteBits) EXCEPT !.m = @ - Byte]

\* REV_BIT_VAR from node i = m = 1 of a tree: the bits of the value in their places, in
\* another order of the nodes than the encoder's.
ReverseGet(r, name, base, bits) ==
    LET Round(a, k) ==
            With(DecodeBit(a.r, <<name, base + a.i, 0>>), LAMBDA b :
                [r |-> b, m |-> 2 * a.m, i |-> a.i + (IF b.bit = 0 THEN a.m ELSE 2 * a.m)])
    IN  With(Repeat(Round, [r |-> r, m |-> 1, i |-> 1], bits), LAMBDA a :
            [r |-> a.r, m |-> a.i - a.m])

\* LEN_DECODE, less MatchMinLen.
LenGet(r, name, high, posState) ==
    LET at == posState * 2 * LenLow
    IN  With(DecodeBit(r, <<name, 0, 0>>), LAMBDA c1 :
            IF c1.bit = 0 THEN TreeGet(c1, name, at, LenLowBits)
            ELSE With(DecodeBit(c1, <<name, LenLow, 0>>), LAMBDA c2 :
                    IF c2.bit = 0
                    THEN Plus(TreeGet(c2, name, at + LenLow, LenLowBits), LenLow)
                    ELSE Plus(TreeGet(c2, high, 0, LenHighBits), 2 * LenLow)))

DirectBits(r, high, n) ==
    Repeat(LAMBDA a, i : With(DirectBit(a.r), LAMBDA b : Bits(a, b)), [r |-> r, m |-> high], n)

\* The distance, less one.
DistGet(r, len) ==
    With(TreeGet(r, "slot", Smaller(len, 3) * Pow2[SlotBits], SlotBits), LAMBDA s :
        LET bits == (s.m \div 2) - 1
            high == 2 + (s.m % 2)
        IN  IF s.m < StartPosModelIndex THEN s
            ELSE IF s.m < EndPosModelIndex
            THEN Plus(ReverseGet(s.r, "spec", high * Pow2[bits], bits), high * Pow2[bits])
            ELSE With(DirectBits(s.r, high, bits - AlignBits), LAMBDA d :
                    Plus(ReverseGet(d.r, "align", 0, AlignBits), d.m * Pow2[AlignBits])))

-----------------------------------------------------------------------------
(* The worst case: bits whose part of the range is always the least.  A state [used, range]
   stands for every range that is as large or larger after as many bytes. *)

Larger(m, n) == IF m < n THEN n ELSE m
LongestLen == 2 + Larger(LenLowBits, LenHighBits)
LongestMatch == 2 + LongestLen + SlotBits
LongestFooter(slot) == (slot \div 2) - 1

Normed(w) ==
    IF w.range < Top
    THEN {[used |-> w.used + 1, range |-> w.range * Byte], [used |-> w.used, range |-> Top]}
    ELSE {w}
AfterBit(W) ==
    {[used |-> n.used, range |-> (n.range \div Total) * LeastProb] : n \in UNION {Normed(w) : w \in W}}
AfterDirect(W) ==
    {[used |-> n.used, range |-> n.range \div 2] : n \in UNION {Normed(w) : w \in W}}

\* After n bits, or fewer.
WorstBits(W, n) == Repeat(LAMBDA V, i : V \union AfterBit(V), W, n)
WorstDirect(W, n) == Repeat(LAMBDA V, i : V \union AfterDirect(V), W, n)

Fresh == {[used |-> 0, range |-> Top]}
WorstLit == WorstBits(Fresh, 1 + ByteBits)
WorstRep == WorstBits(Fresh, 5 + LongestLen)
WorstNear == WorstBits(Fresh, LongestMatch + LongestFooter(EndPosModelIndex - 1))
WorstFar ==
    WorstBits(WorstDirect(WorstBits(Fresh, LongestMatch), LongestFooter(NumSlots - 1) - AlignBits),
              AlignBits)

\* LzmaDec.h works it out for the real sizes: log2((2^11 / 31) ^ 22) + 26 < 160 bits.
ASSUME RequiredInputCovers ==
    \A w \in WorstLit \union WorstRep \union WorstNear \union WorstFar :
        (IF w.range < Top THEN w.used + 1 ELSE w.used) <= RequiredInputMax

-----------------------------------------------------------------------------
(* A symbol *)

DicAt(i) == p.dic[i % p.dicBufSize]
Before(n) == DicAt(p.dicPos + p.dicBufSize - n)
Some == p.processedPos # 0 \/ p.checkDicSize # 0
DecAt == [state |-> p.state, posState |-> PosState(p.processedPos),
         lit |-> IF Some THEN LitBase(p.processedPos, Before(1)) ELSE 0,
         match |-> Before(p.reps[1])]

\* What the next bits say: [kind, r, m, len], m a byte, a distance less one, or which
\* of the last distances; len less MatchMinLen.
Sym(kind, t, len) == [kind |-> kind, r |-> t.r, m |-> t.m, len |-> len]

Literal(r) ==
    Sym("lit", IF r.at.state < NumLitStates THEN TreeGet(r, "lit", r.at.lit, ByteBits)
               ELSE MatchedGet(r, r.at.lit, r.at.match), 0)

Match(r) ==
    With(LenGet(r, "len", "lenHigh", r.at.posState), LAMBDA l :
        Sym("match", DistGet(l.r, l.m), l.m))

\* Which of the last distances, and "shortRep" for one byte from the last.
RepOf(r, which) ==
    With(LenGet(r, "repLen", "repLenHigh", r.at.posState), LAMBDA l :
        Sym("rep", [r |-> l.r, m |-> which], l.m))

LastRep(r) ==
    With(DecodeBit(r, <<"isRep0Long", r.at.state, r.at.posState>>), LAMBDA b :
        IF b.bit = 0 THEN Sym("shortRep", [r |-> b, m |-> 0], 0) ELSE RepOf(b, 0))

OlderRep(r) ==
    With(DecodeBit(r, <<"isRepG1", r.at.state, 0>>), LAMBDA g1 :
        IF g1.bit = 0 THEN RepOf(g1, 1)
        ELSE With(DecodeBit(g1, <<"isRepG2", r.at.state, 0>>), LAMBDA g2 : RepOf(g2, 2 + g2.bit)))

Rep(r) ==
    With(DecodeBit(r, <<"isRepG0", r.at.state, 0>>), LAMBDA g0 :
        IF g0.bit = 0 THEN LastRep(g0) ELSE OlderRep(g0))

Symbol(r) ==
    With(DecodeBit(r, <<"isMatch", r.at.state, r.at.posState>>), LAMBDA isMatch :
        IF isMatch.bit = 0 THEN Literal(isMatch)
        ELSE With(DecodeBit(isMatch, <<"isRep", r.at.state, 0>>), LAMBDA isRep :
                IF isRep.bit = 0 THEN Match(isRep) ELSE Rep(isRep)))

Registers(buf, used) ==
    [range |-> p.range, code |-> p.code, probs |-> p.probs,
     buf |-> buf, used |-> used, bit |-> 0, at |-> DecAt]

\* Mutant: without the normalization that follows the symbol.
TryDummy_noNorm(buf) ==
    With(Symbol(Registers(buf, 0)), LAMBDA sym :
        [kind |-> IF sym.r.used > Len(buf) THEN "eof" ELSE sym.kind, used |-> sym.r.used])

\* LzmaDec_TryDummy: the same bits, and nothing changed: "eof", or the kind of symbol
\* and the bytes it takes with the last normalization.
TryDummy(buf) ==
    With(Symbol(Registers(buf, 0)), LAMBDA sym :
        With(Norm(sym.r), LAMBDA r :
            [kind |-> IF r.used > Len(buf) THEN "eof" ELSE sym.kind, used |-> r.used]))

\* Copying from rep0 back, over the end of the dictionary; what is copied may reach
\* into what it makes.
Copied(rep0, n) ==
    [i \in DOMAIN p.dic |->
        IF i >= p.dicPos /\ i < p.dicPos + n
        THEN DicAt(p.dicPos + p.dicBufSize - rep0 + ((i - p.dicPos) % rep0)) ELSE p.dic[i]]

MoveToFront(reps, i) ==
    <<reps[i + 1]>> \o [j \in 1 .. 3 |-> IF j <= i THEN reps[j] ELSE reps[j + 1]]

\* A round of LzmaDec_DecodeReal_3: the symbol is put in the dictionary, as far as the
\* limit lets it.  "error" is a distance that reaches before the text.
Applied(sym, limit) ==
    LET q == [p EXCEPT !.probs = sym.r.probs, !.range = sym.r.range, !.code = sym.r.code]
        s == p.state
        reps == IF sym.kind = "match" THEN <<sym.m + 1, p.reps[1], p.reps[2], p.reps[3]>>
                ELSE MoveToFront(p.reps, sym.m)
        full == sym.len + MatchMinLen
        n == Smaller(limit - p.dicPos, full)
        after == IF sym.kind = "match" THEN IF s < NumLitStates THEN 7 ELSE 10
                 ELSE IF s < NumLitStates THEN 8 ELSE 11
    IN  IF sym.kind = "lit"
        THEN [q EXCEPT !.dic = [@ EXCEPT ![p.dicPos] = sym.m], !.dicPos = @ + 1,
                       !.processedPos = @ + 1,
                       !.state = IF s < 4 THEN 0 ELSE IF s < 10 THEN s - 3 ELSE s - 6]
        ELSE IF sym.kind = "shortRep"
        THEN [q EXCEPT !.dic = [@ EXCEPT ![p.dicPos] = Before(p.reps[1])], !.dicPos = @ + 1,
                       !.processedPos = @ + 1, !.state = IF s < NumLitStates THEN 9 ELSE 11]
        ELSE IF sym.kind = "match"
                 /\ sym.m >= (IF p.checkDicSize = 0 THEN p.processedPos ELSE p.checkDicSize)
        THEN [q EXCEPT !.remain = "error", !.reps = reps, !.state = after]
        ELSE [q EXCEPT !.dic = Copied(reps[1], n), !.dicPos = @ + n, !.processedPos = @ + n,
                       !.remainLen = full - n, !.reps = reps, !.state = after]

\* After DecodeReal and in WriteRem: from a full dictionary on, distances are checked
\* against its size.
DictFull(q) ==
    IF q.checkDicSize = 0 /\ q.processedPos >= q.dicSize THEN [q EXCEPT !.checkDicSize = q.dicSize]
    ELSE q

\* LzmaDec_WriteRem: the rest of a match that did not fit.
WriteRem(limit) ==
    LET n == Smaller(limit - p.dicPos, p.remainLen)
    IN  IF n = 0 THEN p
        ELSE DictFull([p EXCEPT !.dic = Copied(p.reps[1], n), !.dicPos = @ + n,
                                !.processedPos = @ + n, !.remainLen = @ - n])

-----------------------------------------------------------------------------
(* Actions *)

Upto(s, n) == SubSeq(s, 1, Smaller(n, Len(s)))
From(s, n) == SubSeq(s, n + 1, Len(s))

\* Decode2: read when the buffer is used up; the last piece is asked for with FINISH_END.
NextPiece ==
    /\ pc = "read" /\ pc' = "toBuf"
    /\ IF src = <<>> THEN /\ src' = Upto(file, piece.inp) /\ file' = From(file, piece.inp)
       ELSE UNCHANGED <<src, file>>
    /\ want' = [want EXCEPT !.size = Smaller(piece.out, unpackSize),
                            !.finish = piece.out > unpackSize]
    /\ moved' = [read |-> 0, made |-> 0, res |-> "ok"]
    /\ UNCHANGED <<p, piece, unpackSize, real, out, res>>

\* DecodeToBuf: up to the end of the dictionary, which then starts over.
ToBuf ==
    /\ pc = "toBuf" /\ pc' = IF p.remain = "init" THEN "init" ELSE "rest"
    /\ LET start == IF p.dicPos = p.dicBufSize THEN 0 ELSE p.dicPos
           wraps == want.size > p.dicBufSize - start
       IN  /\ p' = [p EXCEPT !.dicPos = start]
           /\ want' = [want EXCEPT
                  !.start = start,
                  !.limit = IF wraps THEN p.dicBufSize ELSE start + want.size,
                  !.curFinish = ~wraps /\ want.finish]
    /\ UNCHANGED <<piece, file, src, unpackSize, moved, real, out, res>>

Back(r, read) == pc' = "back" /\ moved' = [moved EXCEPT !.read = @ + read, !.res = r]
Goes(where, read) == pc' = where /\ moved' = [moved EXCEPT !.read = @ + read]

Bound0 == ((Full - 1) \div Total) * (Total \div 2)
BadRepCode == Bound0 + ((Full - 1 - Bound0) \div Total) * (Total \div 2)

\* DecodeToDic, its first bytes: the encoder's are a 0 and the first four of the code.
InitCoder ==
    /\ pc = "init"
    /\ LET n == Smaller(5 - Len(p.tempBuf), Len(src))
           temp == p.tempBuf \o Upto(src, n)
           code == Repeat(LAMBDA c, i : c * Byte + temp[i + 1], 0, 4)
           short == Len(temp) < 5
           bad == (temp # <<>> /\ temp[1] # 0) \/ (~short /\ code >= BadRepCode)
       IN  /\ src' = From(src, n)
           /\ IF bad \/ short
              THEN Back(IF bad THEN "data" ELSE "ok", n) /\ p' = [p EXCEPT !.tempBuf = temp]
              ELSE /\ Goes("rest", n)
                   /\ p' = [p EXCEPT !.tempBuf = <<>>, !.code = code, !.range = Full - 1,
                                     !.remain = "len", !.remainLen = 0]
    /\ UNCHANGED <<piece, file, unpackSize, want, real, out, res>>

Rest ==
    /\ pc = "rest" /\ pc' = "check"
    /\ p' = WriteRem(want.limit)
    /\ UNCHANGED <<piece, file, src, unpackSize, want, moved, real, out, res>>

AtLimit == p.dicPos >= want.limit
FinishedMaybe == p.remainLen = 0 /\ p.code = 0

\* DecodeToDic at its limit, when it need not look at what comes after.
LimitReached ==
    /\ pc = "check" /\ AtLimit
    /\ FinishedMaybe \/ ~want.curFinish \/ p.remainLen # 0
    /\ Back(IF FinishedMaybe \/ ~want.curFinish THEN "ok" ELSE "data", 0)
    /\ UNCHANGED <<p, piece, file, src, unpackSize, want, real, out, res>>

\* The input at hand: what tempBuf kept, filled up, or else what was read.
AtHand == IF p.tempBuf = <<>> THEN src
          ELSE p.tempBuf \o Upto(src, RequiredInputMax - Len(p.tempBuf))
MustTry == Len(AtHand) < RequiredInputMax \/ AtLimit

Searching == pc = "check" /\ (AtLimit => p.remainLen = 0 /\ ~FinishedMaybe /\ want.curFinish)

\* DecodeToDic: the next symbol is not all there, and its bytes are kept.
KeepBytes ==
    /\ Searching /\ MustTry /\ TryDummy(AtHand).kind = "eof"
    /\ IF Len(AtHand) >= RequiredInputMax
       THEN Back("fail", 0) /\ UNCHANGED <<p, src>>
       ELSE LET n == Len(AtHand) - Len(p.tempBuf)
            IN  /\ p' = [p EXCEPT !.tempBuf = AtHand] /\ src' = From(src, n)
                /\ Back("ok", n)
    /\ UNCHANGED <<piece, file, unpackSize, want, real, out, res>>

\* All the text is there and something other than an end marker comes.
NotFinished ==
    /\ Searching /\ AtLimit
    /\ \E dummy \in {TryDummy(AtHand)} :
          /\ dummy.kind \notin {"eof", "match"}
          /\ LET n == dummy.used - Len(p.tempBuf)
             IN  IF n < 0 \/ dummy.used > RequiredInputMax
                 THEN Back("fail", 0) /\ UNCHANGED <<p, src>>
                 ELSE /\ p' = [p EXCEPT !.tempBuf = Upto(AtHand, dummy.used)]
                      /\ src' = From(src, n)
                      /\ Back("data", n)
    /\ UNCHANGED <<piece, file, unpackSize, want, real, out, res>>

\* LzmaDec_DecodeReal2: a dictionary not full yet limits what one call decodes.
Limit == LET room == p.dicSize - p.processedPos
         IN  IF p.checkDicSize = 0 /\ want.limit - p.dicPos > room THEN p.dicPos + room
             ELSE want.limit

CallReal ==
    /\ Searching
    /\ \E tried \in IF MustTry THEN {TryDummy(AtHand)} ELSE {[kind |-> "any", used |-> 0]} :
          /\ tried.kind # "eof" /\ (AtLimit => tried.kind = "match")
          /\ real' = [buf |-> AtHand, used |-> 0, limit |-> Limit,
                      bufLimit |-> IF MustTry \/ p.tempBuf # <<>> THEN 0
                                   ELSE Len(src) - RequiredInputMax,
                      dummy |-> IF MustTry THEN {tried.used} \intersect 0 .. RequiredInputMax
                               ELSE 0 .. Len(AtHand)]
    /\ pc' = "real"
    /\ UNCHANGED <<p, piece, file, src, unpackSize, want, moved, out, res>>

\* A round of DecodeReal.  After the last one DecodeToDic looks at how much was used.
Decode ==
    /\ pc = "real"
    /\ \E sym \in {Symbol(Registers(real.buf, real.used))} :
       \E q \in {Applied(sym, real.limit)} :
          IF q.remain # "error" /\ q.dicPos < real.limit /\ sym.r.used < real.bufLimit
          THEN /\ p' = q /\ real' = [real EXCEPT !.used = sym.r.used]
               /\ UNCHANGED <<src, pc, moved>>
          ELSE LET last == Norm(sym.r)
                   n == last.used - Len(p.tempBuf)
               IN  /\ p' = [DictFull(q) EXCEPT !.range = last.range, !.code = last.code,
                                               !.tempBuf = <<>>]
                   /\ src' = From(src, n)
                   /\ UNCHANGED real
                   /\ IF last.used \notin real.dummy \/ n < 0 THEN Back("fail", 0)
                      ELSE IF q.remain = "error" THEN Back("data", n)
                      ELSE Goes("rest", n)
    /\ UNCHANGED <<piece, file, unpackSize, want, out, res>>

\* Mutant: it is called again.
Stuck_never(made) == FALSE

\* Decode2: a call that neither read nor wrote.
Stuck(made) == moved.read = 0 /\ made = 0

\* DecodeToDic has returned: DecodeToBuf copies what is new and goes on, or returns to
\* Decode2, which writes it.
Return ==
    /\ pc = "back"
    /\ LET new == p.dicPos - want.start
           made == moved.made + new
           left == unpackSize - made
           more == moved.res = "ok" /\ new # 0 /\ want.size # new
       IN  /\ out' = out \o [i \in 1 .. new |-> p.dic[want.start + i - 1]]
           /\ want' = [want EXCEPT !.size = @ - new]
           /\ moved' = [moved EXCEPT !.made = made]
           /\ unpackSize' = IF more THEN unpackSize ELSE left
           /\ pc' = IF more THEN "toBuf"
                    ELSE IF moved.res # "ok" \/ left = 0 \/ Stuck(made) THEN "done" ELSE "read"
           /\ res' = IF more THEN res
                     ELSE IF moved.res = "ok" /\ left # 0 /\ Stuck(made) THEN "data" ELSE moved.res
    /\ UNCHANGED <<p, piece, file, src, real>>

Decoding ==
    \/ NextPiece \/ ToBuf \/ InitCoder \/ Rest \/ LimitReached \/ KeepBytes \/ NotFinished
    \/ CallReal \/ Decode \/ Return

DecInit(pcOf) ==
    /\ pc = pcOf
    /\ p = [range |-> 0, code |-> 0, probs |-> [c \in {} |-> 0], state |-> 0,
            reps |-> <<1, 1, 1, 1>>, remain |-> "init", remainLen |-> 0,
            processedPos |-> 0, checkDicSize |-> 0, dicSize |-> 0, dicBufSize |-> 0,
            dic |-> <<>>, dicPos |-> 0, tempBuf |-> <<>>]
    /\ piece \in Pieces
    /\ file = <<>> /\ src = <<>> /\ unpackSize = 0 /\ out = <<>> /\ res = "none"
    /\ want = [size |-> 0, finish |-> FALSE, start |-> 0, limit |-> 0, curFinish |-> FALSE]
    /\ moved = [read |-> 0, made |-> 0, res |-> "ok"]
    /\ real = [buf |-> <<>>, used |-> 0, limit |-> 0, bufLimit |-> 0, dummy |-> {}]

=============================================================================
