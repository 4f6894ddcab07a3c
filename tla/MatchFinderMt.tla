--------------------------- MODULE MatchFinderMt ---------------------------
(***************************************************************************)
(* The threads of one compression (LzFindMt.c, the window of LzFind.c and  *)
(* the block loop of LzmaEnc.c).  Each lzma_main that stagingtool calls    *)
(* runs three: the hash thread reads the file and finds, for each position *)
(* of it, where the same bytes were seen last; the binary tree thread      *)
(* turns that into matches; the encoder takes the matches, adds the short  *)
(* ones of its own tables, and stops the other two when it is done or when *)
(* something failed.                                                       *)
(*                                                                         *)
(* All three look at one window.  When it is used up the hash thread moves *)
(* its bytes to the front, under the locks of both rings, and corrects the *)
(* pointers of the other two.  A pointer is an index into the window here, *)
(* and `base' is the position in the file of the first byte of the window. *)
(*                                                                         *)
(* cutValue is 1: a search in the tree ends at its first candidate.        *)
(***************************************************************************)
EXTENDS MtSync, Sequences, FiniteSets

CONSTANTS
    Text,                       \* the file, as a sequence of symbols 0..NumSymbols-1
    NumSymbols,
    NumHashBytes,
    MatchMaxLen,                \* numFastBytes
    HistorySize,                \* the dictionary
    AddBefore, AddAfter,        \* kNumOpts; LZMA_MATCH_LEN_MAX + 1
    Reserve, MoveAlign,         \* what GetBlockSize adds; kBlockMoveAlign
    HashBlockSize, BtBlockSize,
    MaxVal                      \* kMtMaxValForNormalize

ASSUME FinderParams ==
    /\ NumSymbols \in Nat \ {0} /\ Text \in Seq(0..(NumSymbols - 1))
    /\ NumHashBytes = 4
    /\ MatchMaxLen \in Nat /\ MatchMaxLen >= NumHashBytes
    /\ HashBlockSize \in Nat /\ HashBlockSize > 2
    /\ BtBlockSize \in Nat
    /\ BtBlockSize > MatchMaxLen * 4            \* else SZ_ERROR_PARAM
    /\ {HistorySize, MoveAlign, Reserve} \subseteq Nat \ {0}
    /\ {AddBefore, AddAfter} \subseteq Nat
    /\ MaxVal \in Nat
    /\ MaxVal > HistorySize + 1 + BtBlockSize
    /\ MaxVal > HistorySize + 1 + HashBlockSize

VARIABLES
    base,
    mf,                         \* CMatchFinder, used by the hash thread
    hash,                       \* its table, and the tables of the encoder
    hashBuf, btBuf,             \* the blocks of the two rings
    bt, lz,                     \* what CMatchFinderMt keeps for the tree and the encoder
    offers,                     \* the matches of the position the encoder took last
    rcFailed, result            \* p->rc.res and what Encode returned

finderVars == <<base, mf, hash, hashBuf, btBuf, bt, lz, offers, rcFailed, result>>
vars == <<syncVars, finderVars>>

Least(a, b) == IF a < b THEN a ELSE b
CyclicSize == HistorySize + 1

\* Mutant: the window keeps nothing for the blocks in the rings.
KeepBefore_noRings == HistorySize + AddBefore + 1
KeepBefore ==
    HistorySize + AddBefore + 1
      + NumBlocks["hash"] * HashBlockSize + NumBlocks["bt"] * BtBlockSize
KeepAfter == AddAfter + HashBlockSize + MatchMaxLen
BlockSize == KeepBefore + KeepAfter + Reserve

-----------------------------------------------------------------------------
(* The window *)

\* The byte at position a of the file; outside it, whatever is in memory.
Byte(a) == IF a \in 1..Len(Text) THEN Text[a] ELSE 0
\* Positions count from 1, as pos does.
HashAt == base + mf.buffer
BtAt == base + bt.buffer
LzAt == base + lz.buffer
Loaded == HashAt + mf.avail     \* the first position that is not in the window

NeedMove ==
    /\ ~mf.eof /\ mf.result = "ok"
    /\ BlockSize - mf.buffer <= KeepAfter

\* MatchFinder_ReadBlock: a read fills the window if the file goes on that long, or
\* fails; a read of nothing is the end.
ReadBlock ==
    LET room == BlockSize - mf.buffer - mf.avail
        got == Least(room, Len(Text) + 1 - Loaded)
        more == [mf EXCEPT !.avail = @ + got]
    IN  IF mf.eof \/ mf.result # "ok" \/ room = 0 THEN {mf}
        ELSE {[mf EXCEPT !.result = "read"]} \union
             (IF got = 0 THEN {[mf EXCEPT !.eof = TRUE]}
              ELSE IF more.avail > KeepAfter \/ got = room THEN {more}
              ELSE {[more EXCEPT !.eof = TRUE], [more EXCEPT !.result = "read"]})

ReadIfRequired == IF KeepAfter >= mf.avail THEN ReadBlock ELSE {mf}

\* Mutant: the pointer of the encoder is not corrected.
MoveBlock_lzStays ==
    LET offset == mf.buffer - KeepBefore
        moved == offset - (offset % MoveAlign)
    IN  /\ base' = base + moved
        /\ mf' = [mf EXCEPT !.buffer = @ - moved]
        /\ bt' = [bt EXCEPT !.buffer = @ - moved]
        /\ lz' = lz

MoveBlock ==
    LET offset == mf.buffer - KeepBefore
        moved == offset - (offset % MoveAlign)
    IN  /\ base' = base + moved
        /\ mf' = [mf EXCEPT !.buffer = @ - moved]
        /\ bt' = [bt EXCEPT !.buffer = @ - moved]
        /\ lz' = [lz EXCEPT !.buffer = @ - moved]

-----------------------------------------------------------------------------
(* Hash tables.  0 is the empty value. *)

\* MatchFinder_Normalize3: everything moves down by sub, and stops at empty.
Normalize3(sub, table) == [k \in DOMAIN table |-> IF table[k] > sub THEN table[k] - sub ELSE 0]
Empty(keys) == [k \in keys |-> 0]

\* The high hash, of the first NumHashBytes bytes.  The table is taken without
\* collisions: a colliding entry costs a search that finds nothing.
HighKey(a) == [i \in 1..NumHashBytes |-> Byte(a + i - 1)]
HighKeys == {HighKey(a) : a \in 1..Len(Text)}

\* MT_HASH3_CALC: both collide, but not when the first bytes are the same.
H2(a) == <<(Byte(a) + Byte(a + 1)) % NumSymbols>>
H3(a) == H2(a) \o <<Byte(a + 2)>>
LowKeys == UNION {[1..n -> 0..(NumSymbols - 1)] : n \in {1, 2}}

\* GetHeads4: for n positions from a, how far back each was seen, and the new table.
GetHeads(a, pos, table, n) ==
    LET Earlier(i) == {j \in 1..(i - 1) : HighKey(a + j - 1) = HighKey(a + i - 1)}
        Latest(S) == CHOOSE j \in S : \A k \in S : k <= j
        Seen(k) == {j \in 1..n : HighKey(a + j - 1) = k}
    IN  [heads |-> [i \in 1..n |-> IF Earlier(i) # {} THEN i - Latest(Earlier(i))
                                   ELSE pos + i - 1 - table[HighKey(a + i - 1)]],
         table |-> [k \in DOMAIN table |-> IF Seen(k) # {} THEN pos + Latest(Seen(k)) - 1
                                           ELSE table[k]]]

-----------------------------------------------------------------------------
(* The hash thread *)

\* How many positions a block of the hash ring has, and the normalised position.
HashNum(m) ==
    IF m.avail < NumHashBytes THEN m.avail
    ELSE Least(m.avail - NumHashBytes + 1, HashBlockSize - 2)

\* Mutant: positions are never renumbered.
HashSub_never(pos, n) == 0
HashSub(pos, n) == IF pos > MaxVal - n THEN pos - HistorySize - 1 ELSE 0

\* One block, from what a read left in the window.
FillHash(m) ==
    LET n == HashNum(m)
        after == [m EXCEPT !.buffer = @ + n, !.avail = @ - n]
    IN  IF m.avail < NumHashBytes
        THEN /\ hashBuf' = [hashBuf EXCEPT ![block["hash"]] = [avail |-> m.avail, heads |-> <<>>]]
             /\ mf' = [after EXCEPT !.pos = (@ + n) % (MaxVal + 1)]
             /\ UNCHANGED hash
        ELSE LET sub == HashSub(m.pos, n)
                 got == GetHeads(base + m.buffer, m.pos - sub, Normalize3(sub, hash.high), n)
             IN  /\ hashBuf' = [hashBuf EXCEPT ![block["hash"]] =
                                   [avail |-> m.avail, heads |-> got.heads]]
                 /\ mf' = [after EXCEPT !.pos = @ - sub + n]
                 /\ hash' = [hash EXCEPT !.high = got.table]

HashStart ==
    /\ Started("hash")
    /\ Goto("hash", IF exit["hash"] THEN "end" ELSE "next")
    /\ hash' = [hash EXCEPT !.high = Empty(HighKeys)]
    /\ UNCHANGED <<base, mf, hashBuf, btBuf, bt, lz, offers, rcFailed, result>>

\* The locks of the window are taken without LOCK_BUFFER's flag.
HashLockBt ==
    /\ pc["hash"] = "next" /\ NeedMove /\ cs["bt"] = "nobody"
    /\ cs' = [cs EXCEPT !["bt"] = "hash"]
    /\ Goto("hash", "lock")
    /\ UNCHANGED <<thread, free, filled, canStart, wasStopped, needStart, exit, stopWriting,
                   numProcessed, csWasEntered, block, reading, aborted, finderVars>>

HashLockHash ==
    /\ pc["hash"] = "lock" /\ cs["hash"] = "nobody"
    /\ cs' = [cs EXCEPT !["hash"] = "hash"]
    /\ Goto("hash", "move")
    /\ UNCHANGED <<thread, free, filled, canStart, wasStopped, needStart, exit, stopWriting,
                   numProcessed, csWasEntered, block, reading, aborted, finderVars>>

HashMove ==
    /\ pc["hash"] = "move"
    /\ MoveBlock
    /\ cs' = [s \in Syncs |-> "nobody"]
    /\ Goto("hash", "next")
    /\ UNCHANGED <<thread, free, filled, canStart, wasStopped, needStart, exit, stopWriting,
                   numProcessed, csWasEntered, block, reading, aborted,
                   hash, hashBuf, btBuf, offers, rcFailed, result>>

HashTakeFree ==
    /\ pc["hash"] = "next" /\ ~NeedMove
    /\ TakeFree("hash")
    /\ Goto("hash", IF exit["hash"] THEN "end"
                    ELSE IF stopWriting["hash"] THEN "stopped" ELSE "fill")
    /\ UNCHANGED finderVars

HashFill ==
    /\ pc["hash"] = "fill"
    /\ \E m \in ReadIfRequired : FillHash(m)
    /\ Post("hash")
    /\ Goto("hash", "next")
    /\ UNCHANGED <<thread, free, canStart, wasStopped, needStart, exit, stopWriting,
                   numProcessed, cs, csWasEntered, reading, aborted,
                   base, btBuf, bt, lz, offers, rcFailed, result>>

HashSayStopped ==
    /\ pc["hash"] = "stopped"
    /\ SayStopped("hash")
    /\ Goto("hash", "wait")
    /\ UNCHANGED finderVars

HashStep ==
    \/ HashStart \/ HashLockBt \/ HashLockHash \/ HashMove
    \/ HashTakeFree \/ HashFill \/ HashSayStopped

-----------------------------------------------------------------------------
(* The binary tree thread *)

BtLimit == BtBlockSize - MatchMaxLen * 2
Heads == hashBuf[reading["hash"]].heads
HeadsDone == bt.next > bt.limit

\* The longest match of position a with the one delta before it.
MatchLen(a, delta, most) ==
    LET same == {n \in 0..most : \A i \in 0..(n - 1) : Byte(a + i) = Byte(a + i - delta)}
    IN  CHOOSE n \in same : \A k \in same : k <= n

\* GetMatchesSpecN_2 of one position: no match when the distance is past the
\* dictionary, or before the first byte.
Record(a, pos, delta, lenLimit) ==
    LET len == MatchLen(a, delta, lenLimit)
    IN  [at |-> a,
         pairs |-> IF delta >= Least(pos, CyclicSize) \/ len < NumHashBytes THEN <<>>
                   ELSE <<<<len, delta>>>>]

\* ... which returns NULL for what no hash thread should send.
Impossible(pos, delta) == delta = 0 \/ (pos < CyclicSize /\ delta > pos)

\* How many positions have the same lenLimit, and are before the end of the table.
ChunkSize(lenLimit) ==
    Least(Least(bt.limit - bt.next + 1, bt.avail - lenLimit + 1), CyclicSize - bt.cyclic)

BtNormalSub(pos, size) == IF pos > MaxVal - size THEN pos - CyclicSize ELSE 0

BtStart ==
    /\ Started("bt")
    /\ Goto("bt", IF exit["bt"] THEN "end" ELSE "next")
    /\ UNCHANGED finderVars

\* A new block.  If there is a hash block in use, it is locked again first.
BtTakeFree ==
    /\ pc["bt"] = "next"
    /\ TakeFree("bt")
    /\ IF stopWriting["bt"]
       THEN Goto("bt", "stophash") /\ UNCHANGED <<bt, btBuf>>
       ELSE /\ Goto("bt", IF needStart["hash"] THEN "fill" ELSE "lock")
            /\ btBuf' = [btBuf EXCEPT ![block["bt"]] =
                            [size |-> 0, avail |-> bt.avail, recs |-> <<>>]]
            /\ bt' = [bt EXCEPT !.cur = 2, !.num = 0]
    /\ UNCHANGED <<base, mf, hash, hashBuf, lz, offers, rcFailed, result>>

BtLock ==
    /\ pc["bt"] = "lock"
    /\ Lock("bt", "hash")
    /\ Goto("bt", "fill")
    /\ UNCHANGED finderVars

BtMore == pc["bt"] = "fill" /\ ~bt.failure /\ bt.cur < BtLimit

BtAsk ==
    /\ BtMore /\ HeadsDone
    /\ AskFirst("hash") \/ AskNext("hash")
    /\ Goto("bt", "filled")
    /\ UNCHANGED finderVars

BtTake ==
    /\ pc["bt"] = "filled"
    /\ TakeFilled("hash")
    /\ Goto("bt", "lockhash")
    /\ UNCHANGED finderVars

\* The header of a hash block.  Fewer bytes than a hash needs are the end of the file:
\* the encoder gets them without matches.
BtHeader ==
    /\ pc["bt"] = "lockhash"
    /\ Lock("bt", "hash")
    /\ LET h == hashBuf[reading["hash"]]
           last == h.avail < NumHashBytes
           rest == [i \in 1..h.avail |-> [at |-> BtAt + i - 1, pairs |-> <<>>]]
           b == block["bt"]
       IN  /\ bt' = [bt EXCEPT !.next = 1, !.limit = Len(h.heads),
                               !.avail = IF last THEN 0 ELSE h.avail,
                               !.cur = IF last THEN @ + h.avail ELSE @]
           /\ btBuf' = [btBuf EXCEPT ![b].avail = bt.num + h.avail,
                                     ![b].recs = IF last THEN @ \o rest ELSE @]
           /\ Goto("bt", IF last THEN "post" ELSE "fill")
    /\ UNCHANGED <<base, mf, hash, hashBuf, lz, offers, rcFailed, result>>

\* The matches of some positions, at most until the block is full: a record takes one
\* word, and two more for its match.
BtChunk ==
    /\ BtMore /\ ~HeadsDone
    /\ LET lenLimit == Least(MatchMaxLen, bt.avail)
           size == ChunkSize(lenLimit)
           pos == bt.pos - BtNormalSub(bt.pos, size)
           Delta(i) == Heads[bt.next + i - 1]
           rec == [i \in 1..size |-> Record(BtAt + i - 1, pos + i - 1, Delta(i), lenLimit)]
           start(i) == bt.cur + (i - 1)
                         + 2 * Cardinality({j \in 1..(i - 1) : rec[j].pairs # <<>>})
           done == Cardinality({i \in 1..size : start(i) < BtLimit})
           b == block["bt"]
       IN  IF \E i \in 1..done : Impossible(pos + i - 1, Delta(i))
           THEN bt' = [bt EXCEPT !.failure = TRUE] /\ UNCHANGED btBuf
           ELSE /\ btBuf' = [btBuf EXCEPT ![b].recs = @ \o SubSeq(rec, 1, done)]
                /\ bt' = [bt EXCEPT !.cur = start(done + 1), !.next = @ + done,
                                    !.buffer = @ + done, !.pos = pos + done,
                                    !.num = @ + done, !.avail = @ - done,
                                    !.cyclic = (@ + done) % CyclicSize]
    /\ UNCHANGED <<syncVars, base, mf, hash, hashBuf, lz, offers, rcFailed, result>>

\* The block is full, or the last one of the file, or a failure.
BtPost ==
    /\ pc["bt"] = "post" \/ (pc["bt"] = "fill" /\ ~BtMore)
    /\ btBuf' = [btBuf EXCEPT ![block["bt"]].size = IF bt.failure THEN 0 ELSE bt.cur]
    /\ aborted' = (aborted \/ ~csWasEntered["hash"])
    /\ cs' = [cs EXCEPT !["hash"] = "nobody"]
    /\ csWasEntered' = [csWasEntered EXCEPT !["hash"] = FALSE]
    /\ Post("bt")
    /\ Goto("bt", "next")
    /\ UNCHANGED <<thread, free, canStart, wasStopped, needStart, exit, stopWriting,
                   numProcessed, reading, base, mf, hash, hashBuf, bt, lz, offers,
                   rcFailed, result>>

\* The hash thread is stopped by this one.
BtStopHash ==
    /\ pc["bt"] = "stophash"
    /\ IF MustStop("hash")
       THEN StopWriting("bt", "hash") /\ Goto("bt", "stopping")
       ELSE SayStopped("bt") /\ Goto("bt", "wait")
    /\ UNCHANGED finderVars

BtHashStopped ==
    /\ pc["bt"] = "stopping"
    /\ Stopped("hash")
    /\ Goto("bt", "stopped")
    /\ UNCHANGED finderVars

BtSayStopped ==
    /\ pc["bt"] = "stopped"
    /\ SayStopped("bt")
    /\ Goto("bt", "wait")
    /\ UNCHANGED finderVars

BtStep ==
    \/ BtStart \/ BtTakeFree \/ BtLock \/ BtAsk \/ BtTake \/ BtHeader \/ BtChunk \/ BtPost
    \/ BtStopHash \/ BtHashStopped \/ BtSayStopped

=============================================================================
