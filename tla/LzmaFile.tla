------------------------------ MODULE LzmaFile ------------------------------
(***************************************************************************)
(* A .lzma file from LzmaUtil.c: Encode writes the size the file had when  *)
(* it was opened and the coded text; a client that downloads it decodes as *)
(* Decode does.                                                            *)
(***************************************************************************)
EXTENDS LzmaEncoder, LzmaDecoder

CONSTANTS
    HeaderUnit,                 \* 2^20: the header has a multiple of it
    DicUnit,                    \* 2^12 and more: the dictionary's buffer is a multiple of it
    Losses                      \* how many bytes may be missing at the end of the file

ASSUME FileParams == HeaderUnit \in Nat \ {0} /\ DicUnit \in Nat \ {0} /\ Losses \subseteq Nat

VARIABLE lost                   \* how many are

vars == <<encVars, decVars, lost>>

Init == EncInit /\ DecInit("off") /\ lost = 0

Encode == pc = "off" /\ Encoding /\ UNCHANGED <<decVars, lost>>

RoundUp(n, unit) == ((n + unit - 1) \div unit) * unit

\* LzmaEnc_WriteProperties, of the dictionaries over 2 MB: LzmaUtil asks for 16 MB, and
\* LZMA_DIC_MIN is no bound for them.
HeaderDict(dict) == RoundUp(dict, HeaderUnit)

\* LzmaDec_Allocate
DicBufSize(dict) == RoundUp(dict, DicUnit)

\* Decode: the header is read, and the decoder made for it.  What the encoder's close
\* did not write (LzmaUtil ignores its error) or the download did not bring is lost.
StartDecode ==
    /\ pc = "off" /\ finished
    /\ pc' = "read"
    /\ lost' \in {n \in Losses : n <= Len(rc.out)}
    /\ file' = Upto(rc.out, Len(rc.out) - lost') /\ unpackSize' = input.size
    /\ LET dict == HeaderDict(input.dict)
       IN  p' = [p EXCEPT !.dicSize = dict, !.dicBufSize = DicBufSize(dict),
                          !.dic = [i \in 0 .. DicBufSize(dict) - 1 |-> 0]]
    /\ UNCHANGED <<encVars, piece, src, want, moved, real, out, res>>

DecodeFile == Decoding /\ UNCHANGED <<encVars, lost>>

Done == pc = "done"

\* The process ends after Decode.
Over == Done /\ UNCHANGED vars

Next == Encode \/ StartDecode \/ DecodeFile \/ Over

\* One thread, which keeps stepping until it is done: WF_vars(Next), said without
\* ENABLED, as a step other than Over is possible until then.
Running == []<>Done \/ []<><<TRUE>>_vars

Spec == Init /\ [][Next]_vars /\ Running

-----------------------------------------------------------------------------
(* Properties *)

\* The registers keep their widths: low with its carry in one bit more than four bytes,
\* the cache in a byte, the range above kTopValue between two bits, and no probability
\* where a bit would have no room; no write passes the limit in the dictionary.
TypeOK ==
    /\ rc.low \in 0 .. 2 * Full - 1 /\ rc.cache \in 0 .. Byte - 1 /\ rc.cacheSize \in Nat
    /\ rc.range \in Top .. Full - 1
    /\ rc.out \in Seq(0 .. Byte - 1) /\ out \in Seq(0 .. Byte - 1)
    /\ \A c \in DOMAIN rc.probs : rc.probs[c] \in 1 .. Total - 1
    /\ encState \in 0 .. 11 /\ p.state \in 0 .. 11
    /\ pc \in {"check", "rest", "read", "toBuf"} /\ p.remain = "len" =>
          p.range \in Top .. Full - 1 /\ p.code \in 0 .. Full - 1
    /\ p.dicPos <= p.dicBufSize
    /\ pc \in {"rest", "check", "real", "back"} => p.dicPos <= want.limit
    /\ Len(p.tempBuf) <= RequiredInputMax

\* Whatever packets were chosen and however the file and the text were cut into pieces,
\* what is decoded is the text; with the right size in the header all of it, without an
\* error, and the decoder has come to the encoder's state and last distances.  The
\* carry, the trees that the two files index in different ways, the wrap of the
\* dictionary and the rests of matches all bear on it (LzmaEnc.c:2383-2680,
\* LzmaDec.c:228-600, 973-1190).  A file that lost its end gives an error or the text.
\* The code stays below the range: only of bits that an encoder wrote is that so.
RoundTrip ==
    /\ pc \in {"check", "rest", "read", "toBuf"} /\ p.remain = "len" => p.code < p.range
    /\ \A i \in 1 .. Smaller(Len(out), Len(Text)) : out[i] = Text[i]
    /\ Done /\ input.size = Len(Text) =>
          /\ lost = 0 => res = "ok"
          /\ res = "ok" => out = Text /\ p.state = encState /\ p.reps = encReps
    /\ Done /\ res = "ok" => Len(out) = input.size

\* The dry run of a symbol takes the bytes the real one takes, a full buffer always
\* covers a symbol, and so nothing is read past the input: the "unexpected error" at the
\* end of DecodeToDic (LzmaDec.c:1194) is not met.
NoInternalError ==
    /\ res # "fail" /\ moved.res # "fail"
    /\ pc = "real" => real.used <= Len(real.buf)

\* Decode2 comes to an end: no call that neither reads nor writes is repeated, with any
\* piece and any size in the header (LzmaUtil.c:113-155).
DecodeEnds == <>Done

=============================================================================
