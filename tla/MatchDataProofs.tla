--------------------------- MODULE MatchDataProofs ---------------------------
(***************************************************************************)
(* What TLAPS proves of the data that goes through the threads of a        *)
(* compression: each block has the positions that follow those of the one  *)
(* before, each head is the nearest place with the same bytes, each record *)
(* is the match that is there.                                             *)
(***************************************************************************)
EXTENDS MatchFinderProofs

-----------------------------------------------------------------------------
(* Blocks in use, in the order their positions have in the file *)

\* Block k of a ring, counted from block r.
Slot(r, k, size) == IF r + k < size THEN r + k ELSE r + k - size

\* Block k starts at f[k] and has len positions, at most cap; ok is what blocks are right
\* where.
Linked(f, n, r, size, len, ok, cap) ==
    /\ \A k \in 0..(n - 1) : /\ f[k + 1] = f[k] + len[Slot(r, k, size)]
                            /\ <<Slot(r, k, size), f[k]>> \in ok
    /\ \A k \in 0..n : f[k] <= f[n] /\ f[n] <= f[k] + (n - k) * cap

\* What changes is not in use, and what was right stays so.
OffChain(n, r, size, len, ok, len2, ok2) ==
    \A b \in 0..(size - 1) :
        \/ n < size /\ b = Slot(r, n, size)
        \/ len2[b] = len[b] /\ \A x \in Nat : <<b, x>> \in ok => <<b, x>> \in ok2

LEMMA Slots ==
    ASSUME NEW size \in Nat \ {0}, NEW r \in 0..(size - 1), NEW k \in 0..(size - 1)
    PROVE  /\ Slot(r, k, size) \in 0..(size - 1) /\ Slot(r, 0, size) = r
           /\ k + 1 < size => Slot(Slot(r, 1, size), k, size) = Slot(r, k + 1, size)
           /\ \A j \in 0..(size - 1) : j # k => Slot(r, j, size) # Slot(r, k, size)
BY DEF Slot

LEMMA LinkedSame ==
    ASSUME NEW f \in [Nat -> Nat], NEW size \in Nat \ {0}, NEW r \in 0..(size - 1),
           NEW n \in 0..size, NEW len, NEW ok, NEW len2, NEW ok2, NEW cap \in Nat,
           Linked(f, n, r, size, len, ok, cap), OffChain(n, r, size, len, ok, len2, ok2)
    PROVE  Linked(f, n, r, size, len2, ok2, cap)
<1>1. ASSUME NEW k \in 0..(n - 1)
      PROVE  /\ f[k + 1] = f[k] + len2[Slot(r, k, size)]
             /\ <<Slot(r, k, size), f[k]>> \in ok2
  <2> DEFINE b == Slot(r, k, size)
  <2>1. b \in 0..(size - 1) /\ (n < size => b # Slot(r, n, size))
    <3>1. k \in 0..(size - 1) /\ (n < size => n \in 0..(size - 1) /\ k # n) OBVIOUS
    <3> QED BY <3>1 DEF Slot
  <2>2. f[k + 1] = f[k] + len[b] /\ <<b, f[k]>> \in ok /\ f[k] \in Nat BY DEF Linked
  <2> HIDE DEF b
  <2>3. len2[b] = len[b] /\ <<b, f[k]>> \in ok2 BY <2>1, <2>2 DEF OffChain
  <2> QED BY <2>2, <2>3 DEF b
<1> QED BY <1>1 DEF Linked

LEMMA Times ==
    ASSUME NEW m \in Int, NEW c \in Int
    PROVE  (m + 1) * c = m * c + c /\ 0 * c = 0 /\ 1 * c = c
OBVIOUS

\* The writer has filled a block.
MayPost(f, n, r, size, len, ok, len2, ok2, cap) ==
    /\ f \in [Nat -> Nat] /\ size \in Nat \ {0} /\ r \in 0..(size - 1)
    /\ n \in 0..(size - 1) /\ cap \in Nat
    /\ Linked(f, n, r, size, len, ok, cap) /\ OffChain(n, r, size, len, ok, len2, ok2)
    /\ <<Slot(r, n, size), f[n]>> \in ok2 /\ len2[Slot(r, n, size)] \in 0..cap
Posted(f, n, r, size, len2, ok2, cap) ==
    \E h \in [Nat -> Nat] :
        /\ Linked(h, n + 1, r, size, len2, ok2, cap)
        /\ h[n + 1] = f[n] + len2[Slot(r, n, size)] /\ \A k \in 0..n : h[k] = f[k]

LEMMA LinkedPost ==
    ASSUME NEW f, NEW n, NEW r, NEW size, NEW len, NEW ok, NEW len2, NEW ok2, NEW cap,
           MayPost(f, n, r, size, len, ok, len2, ok2, cap)
    PROVE  Posted(f, n, r, size, len2, ok2, cap)
<1> DEFINE new == Slot(r, n, size)
<1>. /\ f \in [Nat -> Nat] /\ size \in Nat \ {0} /\ r \in 0..(size - 1)
     /\ n \in 0..(size - 1) /\ cap \in Nat
     /\ Linked(f, n, r, size, len, ok, cap) /\ OffChain(n, r, size, len, ok, len2, ok2)
     /\ <<new, f[n]>> \in ok2 /\ len2[new] \in 0..cap
  BY DEF MayPost
<1> SUFFICES \E h \in [Nat -> Nat] :
                /\ Linked(h, n + 1, r, size, len2, ok2, cap)
                /\ h[n + 1] = f[n] + len2[new] /\ \A k \in 0..n : h[k] = f[k]
  BY DEF Posted
<1> HIDE DEF new
<1>0. <<new, f[n]>> \in ok2 /\ len2[new] \in 0..cap OBVIOUS
<1>1. Linked(f, n, r, size, len2, ok2, cap)
  <2>1. n \in 0..size OBVIOUS
  <2> QED BY <2>1, LinkedSame
<1> DEFINE h == [k \in Nat |-> IF k = n + 1 THEN f[n] + len2[new] ELSE f[k]]
<1>2. h \in [Nat -> Nat] /\ h[n + 1] = f[n] + len2[new] /\ \A k \in 0..n : h[k] = f[k]
  BY <1>0
<1> HIDE DEF h
<1>3. ASSUME NEW k \in 0..n
      PROVE  /\ h[k + 1] = h[k] + len2[Slot(r, k, size)] /\ <<Slot(r, k, size), h[k]>> \in ok2
  <2>1. CASE k = n BY <1>0, <1>2, <2>1 DEF new
  <2>2. CASE k # n
    <3>1. k \in 0..(n - 1) /\ k + 1 \in 0..n BY <2>2
    <3> QED BY <1>1, <1>2, <3>1 DEF Linked
  <2> QED BY <2>1, <2>2
<1>4. ASSUME NEW k \in 0..(n + 1)
      PROVE  h[k] <= h[n + 1] /\ h[n + 1] <= h[k] + ((n + 1) - k) * cap
  <2>1. CASE k = n + 1
    <3>1. (n + 1) - k = 0 BY <2>1
    <3>2. ((n + 1) - k) * cap = 0 BY <3>1, Times
    <3> QED BY <1>0, <1>2, <2>1, <3>2
  <2>2. CASE k # n + 1
    <3>1. k \in 0..n BY <2>2
    <3>2. f[k] <= f[n] /\ f[n] <= f[k] + (n - k) * cap BY <1>1, <3>1 DEF Linked
    <3> DEFINE m == n - k
    <3>3. m \in Int /\ (n + 1) - k = m + 1 OBVIOUS
    <3>4. ((n + 1) - k) * cap = m * cap + cap BY <3>3, Times
    <3>5. m * cap \in Int BY <3>3
    <3> DEFINE mc == m * cap
    <3>6. f[k] <= f[n] /\ f[n] <= f[k] + mc BY <3>2
    <3>7. ((n + 1) - k) * cap = mc + cap /\ mc \in Int BY <3>4, <3>5
    <3> HIDE DEF m, mc
    <3> QED BY <1>0, <1>2, <3>1, <3>6, <3>7
  <2> QED BY <2>1, <2>2
<1>5. (n + 1) - 1 = n OBVIOUS
<1>6. Linked(h, n + 1, r, size, len2, ok2, cap) BY <1>3, <1>4, <1>5 DEF Linked
<1> QED BY <1>2, <1>6

\* The reader has given its block back.
MayGive(f, n, r, size, len, ok, cap) ==
    /\ f \in [Nat -> Nat] /\ size \in Nat \ {0} /\ r \in 0..(size - 1)
    /\ n \in 1..size /\ cap \in Nat /\ Linked(f, n, r, size, len, ok, cap)
Given(f, n, r, size, len, ok, cap) ==
    \E h \in [Nat -> Nat] :
        /\ Linked(h, n - 1, Slot(r, 1, size), size, len, ok, cap)
        /\ \A k \in 0..(n - 1) : h[k] = f[k + 1]

LEMMA LinkedGive ==
    ASSUME NEW f, NEW n, NEW r, NEW size, NEW len, NEW ok, NEW cap,
           MayGive(f, n, r, size, len, ok, cap)
    PROVE  Given(f, n, r, size, len, ok, cap)
<1>. /\ f \in [Nat -> Nat] /\ size \in Nat \ {0} /\ r \in 0..(size - 1)
     /\ n \in 1..size /\ cap \in Nat /\ Linked(f, n, r, size, len, ok, cap)
  BY DEF MayGive
<1> SUFFICES \E h \in [Nat -> Nat] :
                /\ Linked(h, n - 1, Slot(r, 1, size), size, len, ok, cap)
                /\ \A k \in 0..(n - 1) : h[k] = f[k + 1]
  BY DEF Given
<1> DEFINE h == [k \in Nat |-> f[k + 1]]
           m == n - 1
<1>1. h \in [Nat -> Nat] /\ m \in Nat /\ n = m + 1 /\ \A k \in 0..m : h[k] = f[k + 1] OBVIOUS
<1> HIDE DEF h, m
<1>2. ASSUME NEW k \in 0..(m - 1)
      PROVE  /\ h[k + 1] = h[k] + len[Slot(Slot(r, 1, size), k, size)]
             /\ <<Slot(Slot(r, 1, size), k, size), h[k]>> \in ok
  <2>1. k \in 0..(size - 1) /\ k + 1 < size /\ k + 1 \in 0..(n - 1) /\ k \in 0..m /\ k + 1 \in 0..m
    BY <1>1
  <2>2. Slot(Slot(r, 1, size), k, size) = Slot(r, k + 1, size) BY <2>1, Slots
  <2> QED BY <1>1, <2>1, <2>2 DEF Linked
<1>3. ASSUME NEW k \in 0..m
      PROVE  h[k] <= h[m] /\ h[m] <= h[k] + (m - k) * cap
  <2>1. k + 1 \in 0..n /\ m \in 0..m /\ n - (k + 1) = m - k BY <1>1
  <2> QED BY <1>1, <2>1 DEF Linked
<1>4. Linked(h, m, Slot(r, 1, size), size, len, ok, cap) BY <1>2, <1>3 DEF Linked
<1> QED BY <1>1, <1>4 DEF m

-----------------------------------------------------------------------------
(* What was read *)

\* Nothing more will be read.
ReadOver == mf.eof \/ mf.result # "ok"

Runs(s) == ~needStart[s] /\ ~stopWriting[s]

EofIsEnd == mf.eof => Loaded = Past

\* Nobody has done anything yet.
Unused == HashFresh \/ (canStart["hash"] /\ ~exit["hash"])
StartsAtOne ==
    /\ Unused => HashAt = 1 /\ BtAt = 1 /\ bt.avail = 0
    /\ pc["lz"] \in LzBefore => LzAt = 1
    /\ pc["bt"] = "wait" /\ Runs("bt") => canStart["bt"]

-----------------------------------------------------------------------------
(* The hash thread's data *)

\* A head is the distance of the nearest place with the same bytes, or too far.
HeadRight(p, h) ==
    /\ h \in 1..p
    /\ h < p /\ h <= HistorySize => HighKey(p - h) = HighKey(p)
    /\ \A d \in 1..HistorySize : d < p /\ HighKey(p - d) = HighKey(p) => h <= d

\* An entry of the table is the last place with its bytes, or there was none near.
EntryRight(key, e, at, pos) ==
    IF e = 0 THEN \A p \in 1..(at - 1) : p >= at - HistorySize => HighKey(p) # key
    ELSE /\ e < pos /\ pos - e < at /\ HighKey(at - (pos - e)) = key
         /\ \A p \in 1..(at - 1) : p > at - (pos - e) => HighKey(p) # key

HashOver == ReadOver /\ mf.avail < NumHashBytes

HighRight ==
    ~HashOver /\ pc["hash"] # "end" =>
        /\ mf.pos \in 1..HashAt /\ (mf.pos = HashAt \/ mf.pos >= CyclicSize)
        /\ \A key \in HighKeys : EntryRight(key, hash.high[key], HashAt, mf.pos)

\* The positions of a block.
Span(h) == IF h.avail < NumHashBytes THEN h.avail ELSE Len(h.heads)

\* A block of the hash ring that starts at position x.
HashBlockRight(h, x, loaded, over) ==
    /\ x + h.avail <= loaded
    /\ h.avail > KeepAfter \/ (over /\ x + h.avail = loaded)
    /\ \A i \in 1..Len(h.heads) : HeadRight(x + i - 1, h.heads[i])

HashLens == [b \in DOMAIN hashBuf |-> Span(hashBuf[b])]
HashOks == {p \in (DOMAIN hashBuf) \X Nat :
                HashBlockRight(hashBuf[p[1]], p[2], Loaded, ReadOver)}

HashChain(f) ==
    /\ f[Ahead("hash")] = HashAt
    /\ Linked(f, Ahead("hash"), reading["hash"], NumBlocks["hash"], HashLens, HashOks,
              HashBlockSize)

\* The tree thread has used the positions before e.
Tied(e, f) ==
    /\ e = IF pc["bt"] \in {"filled", "lockhash"} THEN f[0] ELSE IF HeadsDone THEN f[1] ELSE BtAt
    /\ ~HeadsDone => /\ BtAt = f[0] + bt.next - 1
                     /\ bt.avail = hashBuf[reading["hash"]].avail - (bt.next - 1)
    /\ BtAt <= e /\ (BtAt = e \/ (ReadOver /\ e = Loaded))
    /\ e + bt.avail <= Loaded
    /\ pc["bt"] = "post" => ReadOver /\ e = Loaded

\* The tree thread has blocks of the hash thread, or will.
Feeds == Runs("hash") /\ pc["bt"] # "stopping"
HashSide(e, f) ==
    /\ Unused => e = 1
    /\ Feeds => HashChain(f) /\ Tied(e, f)

-----------------------------------------------------------------------------
(* The tree thread's data *)

TreeRight ==
    /\ ~bt.failure
    /\ bt.pos <= BtAt /\ (bt.pos = BtAt \/ bt.pos >= CyclicSize)

\* What Expected says, for a number of bytes known to be there.
ExpectedIn(a, most) ==
    LET near == {d \in 1..Least(HistorySize, a - 1) : HighKey(a - d) = HighKey(a)}
    IN  IF most < NumHashBytes \/ near = {} THEN <<>>
        ELSE LET d == CHOOSE d \in near : \A e \in near : d <= e
             IN  <<<<MatchLen(a, d, most), d>>>>

RecordRight(r, a, loaded, over) ==
    \E most \in 0..MatchMaxLen :
        /\ r = [at |-> a, pairs |-> ExpectedIn(a, most)]
        /\ a + most <= loaded
        /\ most = MatchMaxLen \/ (over /\ a + most = loaded)

RecsRight(recs, x, loaded, over) ==
    \A i \in 1..Len(recs) : RecordRight(recs[i], x + i - 1, loaded, over)

\* A block of the tree ring that starts at position x.
BtBlockRight(b, x, loaded, over) ==
    /\ RecsRight(b.recs, x, loaded, over)
    /\ b.size \in 2..BtBlockSize
    /\ x + b.avail <= loaded
    /\ b.avail = 0 => over /\ x = loaded
    /\ b.avail # 0 => Len(b.recs) # 0

\* The block being written.
OpenRight(b, x, e) ==
    /\ RecsRight(b.recs, x, Loaded, ReadOver)
    /\ e = x + Len(b.recs)
    /\ pc["bt"] # "post" => /\ bt.num = Len(b.recs) /\ b.avail = bt.num + bt.avail
                            /\ Len(b.recs) = 0 => bt.cur = 2
    /\ pc["bt"] = "post" => b.avail = Len(b.recs)

LzTied(g) ==
    IF pc["lz"] \in {"filled", "lock"} THEN LzAt = g[0]
    ELSE LzAt = g[0] + lz.next - 1 /\ lz.limit = Len(Recs)

BtLens == [b \in DOMAIN btBuf |-> Len(btBuf[b].recs)]
BtOks == {p \in (DOMAIN btBuf) \X Nat : BtBlockRight(btBuf[p[1]], p[2], Loaded, ReadOver)}

BtChain(g) ==
    Linked(g, Ahead("bt"), reading["bt"], NumBlocks["bt"], BtLens, BtOks, BtBlockSize)

Codes == pc["lz"] \in LzCoding
BtSide(e, g) ==
    Codes =>
        /\ BtChain(g) /\ LzTied(g)
        /\ IF pc["bt"] \in BtWriting THEN OpenRight(btBuf[block["bt"]], g[Ahead("bt")], e)
           ELSE g[Ahead("bt")] = e

\* Who waits for a thread to stop has told it.
Told == /\ pc["bt"] = "stopping" => stopWriting["hash"]
        /\ pc["lz"] = "stopping" => stopWriting["bt"]

Chains == \E e \in Nat, f, g \in [Nat -> Nat] : HashSide(e, f) /\ BtSide(e, g)

-----------------------------------------------------------------------------
(* The encoder's data *)

LowEntryRight(key, e, at, pos) ==
    e # 0 => /\ e < pos /\ pos - e < at
             /\ Len(key) = 1 => H2(at - (pos - e)) = key
             /\ Len(key) = 2 => H3(at - (pos - e)) = key

LowRight ==
    /\ LzAt >= 1 /\ lz.pos <= LzAt /\ (lz.pos = LzAt \/ lz.pos > HistorySize)
    /\ \A key \in LowKeys : LowEntryRight(key, hash.low[key], LzAt, lz.pos)

CodeRight ==
    /\ ~lz.failure
    /\ pc["lz"] = "code" => LzAt + lz.avail <= Loaded /\ lz.limit # 0
    /\ pc["lz"] = "flush" => ReadOver /\ LzAt = Loaded

OfferRight(a, len, d, loaded) ==
    /\ len \in Nat /\ d \in 1..Least(HistorySize, a - 1) /\ a + len <= loaded
    /\ MatchLen(a, d, len) = len

OffersRight ==
    \A i \in DOMAIN offers :
        /\ OfferRight(LzAt - 1, offers[i][1], offers[i][2], Loaded)
        /\ i > 1 => offers[i][1] > offers[i - 1][1]

ResultRight ==
    /\ result # "internal"
    /\ result = "ok" /\ pc["lz"] \in {"finish", "stopping"} \union LzAfter =>
            mf.eof /\ mf.result = "ok" /\ LzAt = Past /\ ~rcFailed

-----------------------------------------------------------------------------
(* How far the threads are apart *)

\* Where a thread is when it is done with the block it has taken, at most.
HashEnd == HashAt + (IF pc["hash"] = "fill" THEN HashBlockSize ELSE 0)
TreeEnd ==
    BtAt + (IF pc["bt"] \in BtWriting THEN BtBlockSize - Len(btBuf[block["bt"]].recs) ELSE 0)

Lags ==
    /\ LzAt <= HashAt /\ BtAt <= HashAt
    /\ ~ReadOver => /\ HashEnd <= BtAt + NumBlocks["hash"] * HashBlockSize
                    /\ TreeEnd <= LzAt + NumBlocks["bt"] * BtBlockSize

Behind ==
    base = 1 \/ (base <= BtAt - HistorySize /\ base <= LzAt - AddBefore - HistorySize)

DataInv ==
    /\ Told /\ EofIsEnd /\ StartsAtOne /\ HighRight /\ TreeRight /\ Chains
    /\ LowRight /\ CodeRight /\ OffersRight /\ ResultRight /\ Lags /\ Behind

-----------------------------------------------------------------------------
(* Which step moves what *)

HashView == <<HashAt, Loaded, mf.avail, mf.pos, mf.eof, mf.result>>

\* The window moves, and the three threads stay where they are in the file.
LEMMA MoveStays ==
    ASSUME SyncInv, FinderInv, HashMove
    PROVE  /\ UNCHANGED <<HashView, BtAt, LzAt>> /\ base' \in Nat
           /\ ~ReadOver /\ base' + KeepBefore <= HashAt
           /\ bt' = [bt EXCEPT !.buffer = bt'.buffer] /\ lz' = [lz EXCEPT !.buffer = lz'.buffer]
<1> DEFINE moved == mf.buffer - KeepBefore - ((mf.buffer - KeepBefore) % MoveAlign)
<1>1. /\ WindowKept /\ bt \in BtRecords /\ lz \in LzRecords
  BY DEF FinderInv, TreeKept, CoderKept, BtRecords, LzRecords
<1>2. NeedMove /\ MoveBlock BY <1>1 DEF HashMove, WindowKept
<1>3. base \in Nat \ {0} /\ mf \in MfRecords BY <1>1 DEF WindowKept, MfRecords
<1>4. /\ moved \in Nat /\ base' = base + moved /\ mf' = [mf EXCEPT !.buffer = mf.buffer - moved]
      /\ bt' = [bt EXCEPT !.buffer = bt.buffer - moved]
      /\ lz' = [lz EXCEPT !.buffer = lz.buffer - moved]
      /\ mf.buffer - moved >= KeepBefore
  BY <1>2, <1>3, MoveKeeps DEF MfRecords
<1> HIDE DEF moved
<1>5. /\ mf'.buffer = mf.buffer - moved /\ mf'.avail = mf.avail /\ mf'.pos = mf.pos
      /\ mf'.eof = mf.eof /\ mf'.result = mf.result /\ mf.buffer \in Nat /\ mf.avail \in Nat
  BY <1>3, <1>4 DEF MfRecords
<1>6. bt'.buffer = bt.buffer - moved /\ lz'.buffer = lz.buffer - moved
      /\ bt.buffer \in Int /\ lz.buffer \in Int
  BY <1>1, <1>4 DEF BtRecords, LzRecords
<1>7. UNCHANGED HashView /\ BtAt' = BtAt /\ LzAt' = LzAt
  BY <1>3, <1>4, <1>5, <1>6 DEF HashView, HashAt, Loaded, BtAt, LzAt
<1>8. base' + KeepBefore <= HashAt BY <1>3, <1>4, <1>5, Sizes DEF HashAt
<1>9. ~ReadOver BY <1>2 DEF NeedMove, ReadOver
<1> QED BY <1>3, <1>4, <1>6, <1>7, <1>8, <1>9

\* Only HashFill reads, only BtChunk moves the tree thread, only a position taken moves
\* the encoder.
LEMMA Stays ==
    ASSUME SyncInv, FinderInv, [Next]_vars
    PROVE  /\ ~HashFill => UNCHANGED HashView
           /\ ~BtChunk => UNCHANGED BtAt
           /\ ~(GetMatches \/ Skip) => UNCHANGED LzAt
           /\ ~HashMove => UNCHANGED base
<1>1. CASE HashMove BY <1>1, MoveStays
<1>2. CASE ~HashMove
  <2>1. UNCHANGED base
    BY <1>2 DEF Next, ThreadStep, LzStep, CreateHash, CreateBt, CreateFails, InitFinder, AskBlock,
         TakeBlock, LzHeader, GetMatches, Skip, LzOnly, StopOnError, Flush, Finish, Finished,
         DestroyNone, Destroy, Joined, HashStep, HashStart, HashLockBt, HashLockHash,
         HashTakeFree, HashFill, HashSayStopped, WriteFails, vars, finderVars,
         BtStep, BtStart, BtTakeFree, BtLock, BtAsk, BtTake, BtHeader, BtChunk, BtPost,
         BtStopHash, BtHashStopped, BtSayStopped
  <2>2. ~HashFill => UNCHANGED mf
    BY <1>2 DEF Next, ThreadStep, LzStep, CreateHash, CreateBt, CreateFails, InitFinder, AskBlock,
         TakeBlock, LzHeader, GetMatches, Skip, LzOnly, StopOnError, Flush, Finish, Finished,
         DestroyNone, Destroy, Joined, HashStep, HashStart, HashLockBt, HashLockHash,
         HashTakeFree, HashSayStopped, WriteFails, vars, finderVars,
         BtStep, BtStart, BtTakeFree, BtLock, BtAsk, BtTake, BtHeader, BtChunk, BtPost,
         BtStopHash, BtHashStopped, BtSayStopped
  <2>3. ~BtChunk => UNCHANGED bt.buffer
    <3>1. CASE LzStep \/ HashStep \/ WriteFails \/ UNCHANGED vars
      BY <1>2, <3>1 DEF LzStep, CreateHash, CreateBt, CreateFails, InitFinder, AskBlock,
         TakeBlock, LzHeader, GetMatches, Skip, LzOnly, StopOnError, Flush, Finish, Finished,
         DestroyNone, Destroy, Joined, HashStep, HashStart, HashLockBt, HashLockHash, HashFill,
         HashTakeFree, HashSayStopped, WriteFails, vars, finderVars
    <3>2. CASE BtStep
      <4>1. bt \in BtRecords BY DEF FinderInv, TreeKept, BtRecords
      <4> QED
        BY <3>2, <4>1 DEF BtStep, BtStart, BtTakeFree, BtLock, BtAsk, BtTake, BtHeader, BtPost,
         BtStopHash, BtHashStopped, BtSayStopped, finderVars, BtRecords
    <3> QED BY <3>1, <3>2 DEF Next, ThreadStep
  <2>4. ~(GetMatches \/ Skip) => UNCHANGED lz.buffer
    <3>1. lz \in LzRecords BY DEF FinderInv, CoderKept, LzRecords
    <3> QED
      BY <1>2, <3>1 DEF Next, ThreadStep, LzStep, CreateHash, CreateBt, CreateFails, InitFinder,
         AskBlock, TakeBlock, LzHeader, StopOnError, Flush, Finish, Finished,
         DestroyNone, Destroy, Joined, HashStep, HashStart, HashLockBt, HashLockHash,
         HashTakeFree, HashFill, HashSayStopped, WriteFails, vars, finderVars,
         BtStep, BtStart, BtTakeFree, BtLock, BtAsk, BtTake, BtHeader, BtChunk, BtPost,
         BtStopHash, BtHashStopped, BtSayStopped, LzRecords
  <2> QED BY <2>1, <2>2, <2>3, <2>4 DEF HashView, HashAt, Loaded, BtAt, LzAt
<1> QED BY <1>1, <1>2

Placed ==
    /\ HashAt \in Nat \ {0} /\ Loaded \in Nat /\ HashAt <= Loaded /\ Loaded <= Past
    /\ Past \in Nat /\ BtAt \in Int /\ LzAt \in Int /\ base \in Nat \ {0}
    /\ mf.avail \in Nat /\ Loaded = HashAt + mf.avail /\ base <= HashAt

LEMMA Places == FinderInv => Placed
<1> SUFFICES ASSUME FinderInv PROVE Placed OBVIOUS
<1>1. /\ base \in Nat \ {0} /\ mf.buffer \in Nat /\ mf.avail \in Nat
      /\ bt.buffer \in Int /\ lz.buffer \in Int /\ Loaded <= Past
  BY DEF FinderInv, WindowKept, TreeKept, CoderKept
<1> QED BY <1>1, PastIsNat DEF Placed, HashAt, Loaded, BtAt, LzAt

\* What a block of the hash thread does to the window: it is the bytes there were, and
\* those it read.
LEMMA FillReads ==
    ASSUME SyncInv, FinderInv, HashFill
    PROVE  \E m \in ReadIfRequired :
             /\ FillHash(m) /\ m \in MfRecords /\ m.pos = mf.pos
             /\ base + m.buffer = HashAt /\ Loaded' = HashAt + m.avail
             /\ m.avail >= mf.avail /\ mf'.avail = m.avail - HashNum(m)
             /\ HashAt' = HashAt + HashNum(m) /\ HashNum(m) \in 0..m.avail
             /\ mf'.eof = m.eof /\ mf'.result = m.result
             /\ ReadOver => m = mf /\ ReadOver'
             /\ ~ReadOver' => m.avail > KeepAfter
             /\ m.eof /\ ~mf.eof => Loaded' = Past
<1>1. SyncType /\ WindowKept /\ HashesKept /\ pc["hash"] = "fill" /\ base' = base
  BY DEF SyncInv, Control, FinderInv, HashFill
<1>2. ~NeedMove BY <1>1 DEF WindowKept
<1>3. PICK m \in ReadIfRequired : FillHash(m) BY DEF HashFill
<1>4. /\ m \in MfRecords /\ m.buffer = mf.buffer /\ m.pos = mf.pos
      /\ m.avail >= mf.avail /\ m.buffer + m.avail <= BlockSize
      /\ base + m.buffer + m.avail <= Past
      /\ m.avail > KeepAfter \/ m.eof \/ m.result # "ok"
      /\ mf.eof \/ mf.result # "ok" => m = mf
      /\ m.eof /\ ~mf.eof => base + m.buffer + m.avail = Past
  BY <1>1, <1>2, <1>3, Reads
<1>5. /\ mf' \in MfRecords /\ mf'.buffer = m.buffer + HashNum(m)
      /\ mf'.avail = m.avail - HashNum(m) /\ mf'.eof = m.eof /\ mf'.result = m.result
  BY <1>1, <1>3, Fills
<1>6. HashNum(m) \in 0..m.avail BY <1>4, NumbersOf
<1>7. m.avail \in Nat /\ m.buffer \in Nat /\ base \in Nat
  BY <1>1, <1>4 DEF MfRecords, WindowKept
<1> DEFINE n == HashNum(m)
<1> HIDE DEF n
<1>8. HashAt' = HashAt + n /\ Loaded' = HashAt + m.avail /\ base + m.buffer = HashAt
  BY <1>1, <1>4, <1>5, <1>6, <1>7 DEF HashAt, Loaded, n
<1>9. ReadOver => m = mf /\ ReadOver' BY <1>4, <1>5 DEF ReadOver
<1>10. ~ReadOver' => m.avail > KeepAfter BY <1>4, <1>5 DEF ReadOver
<1>11. m.eof /\ ~mf.eof => Loaded' = Past BY <1>4, <1>8, <1>7
<1>12. /\ FillHash(m) /\ m \in MfRecords /\ m.pos = mf.pos
       /\ base + m.buffer = HashAt /\ Loaded' = HashAt + m.avail
       /\ m.avail >= mf.avail /\ mf'.avail = m.avail - HashNum(m)
       /\ HashAt' = HashAt + HashNum(m) /\ HashNum(m) \in 0..m.avail
       /\ mf'.eof = m.eof /\ mf'.result = m.result
  BY <1>3, <1>4, <1>5, <1>6, <1>8 DEF n
<1> QED BY <1>9, <1>10, <1>11, <1>12

\* The window's end never goes back, and stays once nothing is read any more.
LEMMA Later ==
    ASSUME SyncInv, FinderInv, EofIsEnd, [Next]_vars
    PROVE  /\ Loaded \in Nat /\ Loaded' \in Nat /\ Loaded <= Loaded' /\ Loaded' <= Past
           /\ ReadOver => ReadOver' /\ Loaded' = Loaded /\ mf'.eof = mf.eof
                          /\ mf'.result = mf.result
           /\ EofIsEnd' /\ HashAt <= HashAt' /\ HashAt' \in Nat
<1>1. /\ HashAt \in Nat \ {0} /\ Loaded \in Nat /\ HashAt <= Loaded /\ Loaded <= Past
      /\ Past \in Nat /\ mf.avail \in Nat /\ Loaded = HashAt + mf.avail
  BY Places DEF Placed
<1>2. FinderInv' BY StepsKeep
<1>3. HashAt' \in Nat /\ Loaded' \in Nat /\ Loaded' <= Past
  <2>1. Placed' BY <1>2, Places, PTL
  <2> QED BY <2>1 DEF Placed, Past
<1>4. CASE HashFill
  <2>1. PICK m \in ReadIfRequired :
             /\ Loaded' = HashAt + m.avail
             /\ m \in MfRecords /\ m.avail >= mf.avail
             /\ HashAt' = HashAt + HashNum(m) /\ HashNum(m) \in 0..m.avail
             /\ mf'.eof = m.eof /\ mf'.result = m.result
             /\ ReadOver => m = mf /\ ReadOver'
             /\ m.eof /\ ~mf.eof => Loaded' = Past
    BY <1>4, FillReads
  <2>2. m.avail \in Nat BY <2>1 DEF MfRecords
  <2>3. EofIsEnd' BY <1>1, <2>1, <2>2 DEF EofIsEnd, Past, ReadOver
  <2> QED BY <1>1, <1>3, <2>1, <2>2, <2>3
<1>5. CASE ~HashFill
  <2>1. UNCHANGED HashView BY <1>5, Stays
  <2> QED BY <1>1, <2>1 DEF HashView, ReadOver, EofIsEnd, Past
<1> QED BY <1>4, <1>5

\* What is right of what was read stays right when more is read.
LEMMA StaysRight ==
    ASSUME NEW loaded \in Nat, NEW later \in Nat, loaded <= later,
           NEW over \in BOOLEAN, NEW then \in BOOLEAN, over => then /\ later = loaded
    PROVE  /\ \A x \in Int, recs \in Seq(Records) :
                  RecsRight(recs, x, loaded, over) => RecsRight(recs, x, later, then)
           /\ \A x \in Int, b \in BtBlocks :
                  BtBlockRight(b, x, loaded, over) => BtBlockRight(b, x, later, then)
           /\ \A x \in Int, h \in [avail : Nat, heads : Seq(Int)] :
                  HashBlockRight(h, x, loaded, over) => HashBlockRight(h, x, later, then)
<1>1. ASSUME NEW a \in Int, NEW r, RecordRight(r, a, loaded, over)
      PROVE  RecordRight(r, a, later, then)
  <2>1. PICK most \in 0..MatchMaxLen :
        /\ r = [at |-> a, pairs |-> ExpectedIn(a, most)]
        /\ a + most <= loaded
        /\ most = MatchMaxLen \/ (over /\ a + most = loaded)
    BY <1>1 DEF RecordRight
  <2>2. a + most <= later BY <2>1, FinderParams
  <2>3. most = MatchMaxLen \/ (then /\ a + most = later) BY <2>1
  <2> QED BY <2>1, <2>2, <2>3 DEF RecordRight
<1>2. ASSUME NEW x \in Int, NEW recs \in Seq(Records), RecsRight(recs, x, loaded, over)
      PROVE  RecsRight(recs, x, later, then)
  BY <1>1, <1>2 DEF RecsRight
<1>3. ASSUME NEW x \in Int, NEW b \in BtBlocks, BtBlockRight(b, x, loaded, over)
      PROVE  BtBlockRight(b, x, later, then)
  <2>1. b.recs \in Seq(Records) /\ b.avail \in Nat BY DEF BtBlocks
  <2>2. RecsRight(b.recs, x, later, then) BY <1>2, <1>3, <2>1 DEF BtBlockRight
  <2> QED BY <1>3, <2>1, <2>2 DEF BtBlockRight
<1>4. ASSUME NEW x \in Int, NEW h \in [avail : Nat, heads : Seq(Int)],
             HashBlockRight(h, x, loaded, over)
      PROVE  HashBlockRight(h, x, later, then)
  <2>1. h.avail \in Nat OBVIOUS
  <2> QED BY <1>4, <2>1 DEF HashBlockRight
<1> QED BY <1>2, <1>3, <1>4

-----------------------------------------------------------------------------
(* Heads and records *)

LEMMA SameKeys ==
    ASSUME NEW a \in Int, NEW b \in Int
    PROVE  HighKey(a) = HighKey(b) <=> \A i \in 0..(NumHashBytes - 1) : Byte(a + i) = Byte(b + i)
<1>1. NumHashBytes = 4 BY FinderParams
<1>2. ASSUME HighKey(a) = HighKey(b), NEW i \in 0..3 PROVE Byte(a + i) = Byte(b + i)
  <2>1. HighKey(a)[i + 1] = HighKey(b)[i + 1] BY <1>2
  <2>2. i + 1 \in 1..4 /\ a + (i + 1) - 1 = a + i /\ b + (i + 1) - 1 = b + i OBVIOUS
  <2> QED BY <1>1, <2>1, <2>2 DEF HighKey
<1>3. ASSUME \A i \in 0..3 : Byte(a + i) = Byte(b + i) PROVE HighKey(a) = HighKey(b)
  <2>1. ASSUME NEW i \in 1..4 PROVE Byte(a + i - 1) = Byte(b + i - 1)
    <3>1. i - 1 \in 0..3 /\ a + (i - 1) = a + i - 1 /\ b + (i - 1) = b + i - 1 OBVIOUS
    <3> QED BY <1>3, <3>1
  <2> QED BY <1>1, <2>1 DEF HighKey
<1> QED BY <1>1, <1>2, <1>3

\* A table whose entries are right stays so when positions are renumbered.
LEMMA Renumbered ==
    ASSUME NEW at \in Nat \ {0}, NEW pos \in 1..MaxVal, pos <= at, pos = at \/ pos >= CyclicSize,
           NEW n \in Nat, n <= HashBlockSize, NEW sub, sub = HashSub(pos, n)
    PROVE  /\ sub \in Nat /\ pos - sub \in 1..at /\ pos - sub <= pos
           /\ pos - sub = at \/ pos - sub >= CyclicSize
           /\ \A key \in HighKeys, e \in Nat : EntryRight(key, e, at, pos) =>
                 EntryRight(key, IF e > sub THEN e - sub ELSE 0, at, pos - sub)
<1>1. MaxVal \in Nat /\ HistorySize \in Nat \ {0} /\ HashBlockSize \in Nat
      /\ MaxVal > HistorySize + 1 + HashBlockSize
  BY FinderParams
<1>2. sub = 0 \/ (sub = pos - (HistorySize + 1) /\ sub > 0) BY <1>1 DEF HashSub
<1>3. CASE sub = 0
  <2>1. pos - sub = pos /\ \A e \in Nat : (IF e > sub THEN e - sub ELSE 0) = e BY <1>3
  <2> QED BY <1>1, <1>3, <2>1
<1>4. CASE sub = pos - (HistorySize + 1) /\ sub > 0
  <2>1. pos - sub = HistorySize + 1 BY <1>1, <1>4
  <2>2. ASSUME NEW key \in HighKeys, NEW e \in Nat, EntryRight(key, e, at, pos)
        PROVE  EntryRight(key, IF e > sub THEN e - sub ELSE 0, at, pos - sub)
    <3>1. CASE e > sub
      <4>1. (pos - sub) - (e - sub) = pos - e /\ e # 0 /\ e - sub # 0 BY <1>4, <3>1
      <4>2. e - sub < pos - sub BY <1>4, <2>2, <3>1 DEF EntryRight
      <4> QED BY <2>2, <3>1, <4>1, <4>2 DEF EntryRight
    <3>2. CASE ~(e > sub) /\ e # 0
      <4>1. \A p \in 1..(at - 1) : p > at - (pos - e) => HighKey(p) # key
        BY <2>2, <3>2 DEF EntryRight
      <4>2. at - HistorySize > at - (pos - e) BY <1>1, <1>4, <3>2
      <4>3. \A p \in 1..(at - 1) : p >= at - HistorySize => HighKey(p) # key
        BY <1>1, <4>1, <4>2
      <4> QED BY <3>2, <4>3 DEF EntryRight
    <3>3. CASE e = 0
      <4>1. ~(e > sub) BY <1>4, <3>3
      <4> QED BY <2>2, <3>3, <4>1 DEF EntryRight
    <3> QED BY <3>1, <3>2, <3>3
  <2> QED BY <1>1, <1>4, <2>1, <2>2 DEF CyclicSize
<1> QED BY <1>2, <1>3, <1>4

\* What GetHeads4 says is right if its table is, and leaves the table right.
LEMMA GotRight ==
    ASSUME NEW a \in Nat \ {0}, NEW pos \in 1..a, pos = a \/ pos >= CyclicSize,
           NEW table \in [HighKeys -> Nat],
           \A key \in HighKeys : EntryRight(key, table[key], a, pos),
           NEW n \in Nat, a + n <= Past, NEW got, got = GetHeads(a, pos, table, n)
    PROVE  /\ \A i \in 1..n : HeadRight(a + i - 1, got.heads[i])
           /\ \A key \in HighKeys : EntryRight(key, got.table[key], a + n, pos + n)
<1>1. Found(a, pos, table, n, got) BY HeadsFound
<1>2. HistorySize \in Nat \ {0} /\ CyclicSize = HistorySize + 1 BY FinderParams DEF CyclicSize
<1>3. ASSUME NEW i \in 1..n PROVE HeadRight(a + i - 1, got.heads[i])
  <2> DEFINE p == a + i - 1
             h == got.heads[i]
             key == HighKey(p)
  <2> SUFFICES HeadRight(p, h) OBVIOUS
  <2>1. p \in Nat \ {0} /\ p >= a BY <1>3
  <2>2. CASE \E j \in 1..(i - 1) :
                /\ HighKey(a + j - 1) = key /\ h = i - j
                /\ \A k \in 1..(i - 1) : HighKey(a + k - 1) = key => k <= j
    <3>1. PICK j \in 1..(i - 1) :
                /\ HighKey(a + j - 1) = key /\ h = i - j
                /\ \A k \in 1..(i - 1) : HighKey(a + k - 1) = key => k <= j
      BY <2>2
    <3>2. h \in 1..p /\ p - h = a + j - 1 BY <3>1
    <3>3. ASSUME NEW d \in 1..HistorySize, d < p, HighKey(p - d) = key PROVE h <= d
      <4>1. CASE d >= i BY <3>1, <4>1, <1>2
      <4>2. CASE d < i
        <5>1. i - d \in 1..(i - 1) /\ a + (i - d) - 1 = p - d BY <4>2, <1>2
        <5>2. i - d <= j BY <3>1, <3>3, <5>1
        <5> QED BY <3>1, <5>2, <1>2
      <4> QED BY <4>1, <4>2, <1>2
    <3> HIDE DEF h
    <3> QED BY <3>1, <3>2, <3>3 DEF HeadRight
  <2>3. CASE /\ \A k \in 1..(i - 1) : HighKey(a + k - 1) # key
             /\ h = pos + i - 1 - table[key]
    <3> DEFINE e == table[key]
    <3>1. key \in HighKeys /\ e \in Nat
      <4>1. p \in 1..Len(Text) BY <1>3, PastIsNat DEF Past
      <4> HIDE DEF p
      <4>2. key \in HighKeys BY <4>1 DEF HighKeys
      <4> QED BY <4>2
    <3>2. EntryRight(key, e, a, pos) BY <3>1
    <3>3. h = pos + i - 1 - e BY <2>3
    <3>4. ASSUME NEW d \in 1..HistorySize, d < p, HighKey(p - d) = key
          PROVE  p - d \in 1..(a - 1) /\ d >= i
      <4>1. CASE d < i
        <5>1. i - d \in 1..(i - 1) /\ a + (i - d) - 1 = p - d BY <4>1, <1>2
        <5> QED BY <2>3, <3>4, <5>1
      <4> QED BY <3>4, <4>1, <1>2
    <3> HIDE DEF e, h
    <3>5. CASE e = 0
      <4>1. \A q \in 1..(a - 1) : q >= a - HistorySize => HighKey(q) # key
        BY <3>2, <3>5 DEF EntryRight
      <4>2. ~ \E d \in 1..HistorySize : d < p /\ HighKey(p - d) = key
        BY <1>2, <3>4, <4>1
      <4>3. h \in 1..p /\ ~(h < p /\ h <= HistorySize) BY <1>2, <1>3, <3>3, <3>5
      <4> HIDE DEF p
      <4> QED BY <4>2, <4>3 DEF HeadRight
    <3>6. CASE e # 0
      <4>1. /\ e < pos /\ pos - e < a /\ HighKey(a - (pos - e)) = key
            /\ \A q \in 1..(a - 1) : q > a - (pos - e) => HighKey(q) # key
        BY <3>2, <3>6 DEF EntryRight
      <4>2. h \in 1..p /\ p - h = a - (pos - e) BY <3>1, <3>3, <4>1
      <4>3. ASSUME NEW d \in 1..HistorySize, d < p, HighKey(p - d) = key PROVE h <= d
        <5>1. p - d \in 1..(a - 1) BY <3>4, <4>3
        <5>2. ~(p - d > a - (pos - e)) BY <4>1, <4>3, <5>1
        <5> QED BY <3>1, <4>2, <5>2, <1>2
      <4> QED BY <4>1, <4>2, <4>3 DEF HeadRight
    <3> QED BY <3>5, <3>6
  <2> QED BY <1>1, <1>3, <2>2, <2>3 DEF Found
<1>4. ASSUME NEW key \in HighKeys PROVE EntryRight(key, got.table[key], a + n, pos + n)
  <2> DEFINE e == got.table[key]
  <2> SUFFICES EntryRight(key, e, a + n, pos + n) OBVIOUS
  <2>1. CASE \E j \in 1..n : /\ HighKey(a + j - 1) = key /\ e = pos + j - 1
                             /\ \A k \in 1..n : HighKey(a + k - 1) = key => k <= j
    <3>1. PICK j \in 1..n : /\ HighKey(a + j - 1) = key /\ e = pos + j - 1
                            /\ \A k \in 1..n : HighKey(a + k - 1) = key => k <= j
      BY <2>1
    <3>2. e # 0 /\ e < pos + n /\ (pos + n) - e < a + n /\ (a + n) - ((pos + n) - e) = a + j - 1
      BY <3>1
    <3>3. ASSUME NEW p \in 1..(a + n - 1), p > a + j - 1 PROVE HighKey(p) # key
      <4>1. p - a + 1 \in 1..n /\ a + (p - a + 1) - 1 = p BY <3>3
      <4>2. ~(p - a + 1 <= j) BY <3>3
      <4> QED BY <3>1, <4>1, <4>2
    <3> HIDE DEF e
    <3> QED BY <3>1, <3>2, <3>3 DEF EntryRight
  <2>2. CASE (\A k \in 1..n : HighKey(a + k - 1) # key) /\ e = table[key]
    <3>1. ASSUME NEW p \in 1..(a + n - 1), p >= a PROVE HighKey(p) # key
      <4>1. p - a + 1 \in 1..n /\ a + (p - a + 1) - 1 = p BY <3>1
      <4> QED BY <2>2, <4>1
    <3>2. EntryRight(key, e, a, pos) /\ e \in Nat BY <2>2
    <3> HIDE DEF e
    <3>3. CASE e = 0
      <4>1. ASSUME NEW p \in 1..(a + n - 1), p >= (a + n) - HistorySize PROVE HighKey(p) # key
        <5>1. CASE p < a
          <6>1. p \in 1..(a - 1) /\ p >= a - HistorySize BY <1>2, <4>1, <5>1
          <6> QED BY <3>2, <3>3, <6>1 DEF EntryRight
        <5> QED BY <3>1, <4>1, <5>1
      <4> QED BY <3>3, <4>1 DEF EntryRight
    <3>4. CASE e # 0
      <4>1. /\ e < pos /\ pos - e < a /\ HighKey(a - (pos - e)) = key
            /\ \A q \in 1..(a - 1) : q > a - (pos - e) => HighKey(q) # key
        BY <3>2, <3>4 DEF EntryRight
      <4>2. (a + n) - ((pos + n) - e) = a - (pos - e) /\ e < pos + n /\ (pos + n) - e < a + n
        BY <3>2, <4>1
      <4>3. ASSUME NEW p \in 1..(a + n - 1), p > a - (pos - e) PROVE HighKey(p) # key
        BY <3>1, <4>1, <4>3
      <4> QED BY <3>4, <4>1, <4>2, <4>3 DEF EntryRight
    <3> QED BY <3>3, <3>4
  <2> QED BY <1>1, <2>1, <2>2 DEF Found
<1> QED BY <1>3, <1>4

\* The search in the tree makes of a right head the match that is there, and never fails.
LEMMA RecordIs ==
    ASSUME NEW a \in Nat \ {0}, NEW pos \in 1..a, pos = a \/ pos >= CyclicSize,
           NEW h \in Int, HeadRight(a, h), NEW most \in Nat
    PROVE  /\ Record(a, pos, h, most) = [at |-> a, pairs |-> ExpectedIn(a, most)]
           /\ ~Impossible(pos, h)
<1>1. HistorySize \in Nat \ {0} /\ CyclicSize = HistorySize + 1 /\ NumHashBytes = 4
  BY FinderParams DEF CyclicSize
<1>2. /\ h \in 1..a
      /\ h < a /\ h <= HistorySize => HighKey(a - h) = HighKey(a)
      /\ \A d \in 1..HistorySize : d < a /\ HighKey(a - d) = HighKey(a) => h <= d
  BY DEF HeadRight
<1>3. ~Impossible(pos, h) BY <1>1, <1>2 DEF Impossible
<1> DEFINE near == {d \in 1..Least(HistorySize, a - 1) : HighKey(a - d) = HighKey(a)}
           len == MatchLen(a, h, most)
<1>4. \A d \in near : d \in 1..HistorySize /\ d < a /\ HighKey(a - d) = HighKey(a)
  <2>1. Least(HistorySize, a - 1) <= HistorySize /\ Least(HistorySize, a - 1) <= a - 1
        /\ Least(HistorySize, a - 1) \in Int
    BY <1>1 DEF Least
  <2> TAKE d \in near
  <2>2. d \in 1..Least(HistorySize, a - 1) /\ HighKey(a - d) = HighKey(a) OBVIOUS
  <2> HIDE DEF near
  <2> QED BY <1>1, <2>1, <2>2
<1>5. CASE h >= Least(pos, CyclicSize)
  <2>1. near = {}
    <3>1. ~(h < a /\ h <= HistorySize) BY <1>1, <1>2, <1>5 DEF Least
    <3> QED BY <1>1, <1>2, <1>4, <3>1
  <2>2. ExpectedIn(a, most) = <<>> BY <2>1 DEF ExpectedIn
  <2>3. Record(a, pos, h, most) = [at |-> a, pairs |-> <<>>] BY <1>5 DEF Record
  <2> QED BY <1>3, <2>2, <2>3
<1>6. CASE ~(h >= Least(pos, CyclicSize))
  <2>1. h < a /\ h <= HistorySize BY <1>1, <1>2, <1>6 DEF Least
  <2>2. h \in near
    <3>1. h \in 1..Least(HistorySize, a - 1) BY <1>1, <1>2, <2>1 DEF Least
    <3>2. HighKey(a - h) = HighKey(a) BY <1>2, <2>1
    <3> QED BY <3>1, <3>2
  <2>3. \A d \in near : h <= d BY <1>2, <1>4
  <2>4. (CHOOSE d \in near : \A e \in near : d <= e) = h
    <3>1. \A d \in near : d \in Int BY <1>1, <1>4
    <3> HIDE DEF near
    <3>2. \A d \in near : (\A e \in near : d <= e) => d = h BY <2>2, <2>3, <3>1
    <3>3. \E d \in near : \A e \in near : d <= e BY <2>2, <2>3
    <3> QED BY <3>2, <3>3
  <2>5. len \in 0..most /\ (most >= 4 => len >= 4)
    <3>1. /\ len \in 0..most
          /\ \A n \in 0..most : (\A i \in 0..(n - 1) : Byte(a + i) = Byte(a + i - h)) => n <= len
      <4>1. a \in Int /\ h \in Int /\ most \in Nat OBVIOUS
      <4> HIDE DEF near
      <4> QED BY <4>1, MatchLenIs, Zenon
    <3>2. \A i \in 0..3 : Byte(a + i) = Byte((a - h) + i)
      <4>1. a \in Int /\ a - h \in Int /\ HighKey(a) = HighKey(a - h) /\ NumHashBytes - 1 = 3
        BY <1>1, <1>2, <2>1
      <4> HIDE DEF near
      <4>2. \A i \in 0..(NumHashBytes - 1) : Byte(a + i) = Byte((a - h) + i)
        BY <4>1, SameKeys, Zenon
      <4> QED BY <4>1, <4>2
    <3>3. \A i \in 0..(4 - 1) : Byte(a + i) = Byte(a + i - h)
      <4>1. \A i \in 0..3 : a + i - h = (a - h) + i BY <1>2
      <4> QED BY <3>2, <4>1
    <3> HIDE DEF len
    <3> QED BY <3>1, <3>3
  <2>6. Record(a, pos, h, most) = [at |-> a, pairs |-> IF len < 4 THEN <<>> ELSE <<<<len, h>>>>]
    BY <1>1, <1>6 DEF Record
  <2>7. len < 4 <=> most < 4
    <3> HIDE DEF len
    <3> QED BY <2>5
  <2>8. ExpectedIn(a, most) = IF most < 4 THEN <<>> ELSE <<<<len, h>>>>
    <3>1. near # {} BY <2>2
    <3>2. ExpectedIn(a, most) = IF most < NumHashBytes \/ near = {} THEN <<>>
              ELSE LET d == CHOOSE d \in near : \A e \in near : d <= e
                   IN  <<<<MatchLen(a, d, most), d>>>>
      BY DEF ExpectedIn
    <3> HIDE DEF near
    <3> QED BY <1>1, <2>4, <3>1, <3>2
  <2> HIDE DEF len
  <2> QED BY <1>3, <2>6, <2>7, <2>8
<1> QED BY <1>5, <1>6

LEMMA Joins ==
    ASSUME NEW S, NEW s \in Seq(S), NEW t \in Seq(S)
    PROVE  /\ s \o t \in Seq(S) /\ Len(s \o t) = Len(s) + Len(t)
           /\ \A i \in 1..Len(s) : (s \o t)[i] = s[i]
           /\ \A i \in 1..Len(t) : (s \o t)[Len(s) + i] = t[i]
OBVIOUS

-----------------------------------------------------------------------------
(* Offers *)

LEMMA Bytes == \A a \in Int : Byte(a) \in 0..(NumSymbols - 1)
<1> TAKE a \in Int
<1>1. NumSymbols \in Nat \ {0} /\ Text \in Seq(0..(NumSymbols - 1)) BY FinderParams
<1>2. CASE a \in 1..Len(Text) BY <1>1, <1>2 DEF Byte
<1>3. CASE a \notin 1..Len(Text) BY <1>1, <1>3 DEF Byte
<1> QED BY <1>2, <1>3

LEMMA Modulo ==
    ASSUME NEW n \in Nat \ {0}, NEW s \in 0..(2 * n - 1)
    PROVE  s % n = IF s < n THEN s ELSE s - n
OBVIOUS

LEMMA SumSame ==
    ASSUME NEW x \in 0..(NumSymbols - 1), NEW y \in 0..(NumSymbols - 1),
           NEW z \in 0..(NumSymbols - 1), (x + y) % NumSymbols = (x + z) % NumSymbols
    PROVE  y = z
<1>1. NumSymbols \in Nat \ {0} BY FinderParams
<1> DEFINE s == x + y
           r == x + z
<1>2. s \in 0..(2 * NumSymbols - 1) /\ r \in 0..(2 * NumSymbols - 1) /\ s - r = y - z
  BY <1>1
<1>3. s % NumSymbols = r % NumSymbols OBVIOUS
<1> HIDE DEF s, r
<1>4. s % NumSymbols = IF s < NumSymbols THEN s ELSE s - NumSymbols BY <1>1, <1>2, Modulo
<1>5. r % NumSymbols = IF r < NumSymbols THEN r ELSE r - NumSymbols BY <1>1, <1>2, Modulo
<1>6. s = r
  <2>1. s - x \in 0..(NumSymbols - 1) /\ r - x \in 0..(NumSymbols - 1) BY <1>1 DEF s, r
  <2> QED BY <1>1, <1>2, <1>3, <1>4, <1>5, <2>1
<1> QED BY <1>2, <1>6

\* MT_HASH3_CALC and the first byte decide the others.
LEMMA LowKeysDecide ==
    ASSUME NEW a \in Int, NEW q \in Int, Byte(q) = Byte(a)
    PROVE  /\ H2(q) = H2(a) => Byte(q + 1) = Byte(a + 1)
           /\ H3(q) = H3(a) => Byte(q + 1) = Byte(a + 1) /\ Byte(q + 2) = Byte(a + 2)
           /\ Len(H2(a)) = 1 /\ Len(H3(a)) = 2 /\ H2(a) # H3(a)
           /\ H2(a) \in LowKeys /\ H3(a) \in LowKeys
<1>1. /\ Byte(a) \in 0..(NumSymbols - 1) /\ Byte(a + 1) \in 0..(NumSymbols - 1)
      /\ Byte(q + 1) \in 0..(NumSymbols - 1) /\ Byte(a + 2) \in 0..(NumSymbols - 1)
  BY Bytes
<1>2. ASSUME (Byte(q) + Byte(q + 1)) % NumSymbols = (Byte(a) + Byte(a + 1)) % NumSymbols
      PROVE  Byte(q + 1) = Byte(a + 1)
  <2>1. (Byte(a) + Byte(q + 1)) % NumSymbols = (Byte(a) + Byte(a + 1)) % NumSymbols BY <1>2
  <2> QED BY <1>1, <2>1, SumSame
<1> DEFINE sum(p) == (Byte(p) + Byte(p + 1)) % NumSymbols
<1>3. H2(a) = <<sum(a)>> /\ H2(q) = <<sum(q)>> BY DEF H2
<1>4. H3(a) = <<sum(a), Byte(a + 2)>> /\ H3(q) = <<sum(q), Byte(q + 2)>>
  <2>1. \A x, y \in Int : <<x>> \o <<y>> = <<x, y>>
    <3> TAKE x \in Int, y \in Int
    <3> DEFINE both == <<x>> \o <<y>>
    <3>1. both \in Seq(Int) /\ Len(both) = 2 /\ both[1] = x /\ both[2] = y OBVIOUS
    <3> HIDE DEF both
    <3>2. both = <<x, y>> BY <3>1
    <3> QED BY <3>2 DEF both
  <2>2. sum(a) \in Int /\ sum(q) \in Int /\ Byte(a + 2) \in Int /\ Byte(q + 2) \in Int
    <3>1. NumSymbols \in Nat \ {0} /\ Byte(q) \in Int /\ Byte(q + 2) \in Int
      BY Bytes, FinderParams
    <3> QED BY <1>1, <3>1
  <2> HIDE DEF sum
  <2> QED BY <1>3, <2>1, <2>2 DEF H3
<1>5. sum(a) \in 0..(NumSymbols - 1)
  <2>1. NumSymbols \in Nat \ {0} /\ Byte(a) + Byte(a + 1) \in 0..(2 * NumSymbols - 1)
    <3>1. NumSymbols \in Nat \ {0} BY FinderParams
    <3> QED BY <1>1, <3>1
  <2>2. \A s \in 0..(2 * NumSymbols - 1) :
            s % NumSymbols = IF s < NumSymbols THEN s ELSE s - NumSymbols
    BY <2>1, Modulo
  <2> QED BY <2>1, <2>2
<1>6. (sum(q) = sum(a)) => Byte(q + 1) = Byte(a + 1) BY <1>2
<1> HIDE DEF sum
<1>7. H2(a) \in LowKeys /\ H3(a) \in LowKeys
  <2>1. H2(a) \in [1..1 -> 0..(NumSymbols - 1)] BY <1>3, <1>5
  <2>2. H3(a) \in [1..2 -> 0..(NumSymbols - 1)] BY <1>1, <1>4, <1>5
  <2> QED BY <2>1, <2>2 DEF LowKeys
<1>8. Len(H2(a)) = 1 /\ Len(H3(a)) = 2 BY <1>3, <1>4
<1> QED BY <1>3, <1>4, <1>6, <1>7, <1>8

\* A match that is there is offered as long as it is.
LEMMA Offered ==
    ASSUME NEW a \in Nat \ {0}, NEW len \in Nat, NEW d \in Int,
           \A i \in 0..(len - 1) : Byte(a + i) = Byte(a + i - d)
    PROVE  MatchLen(a, d, len) = len
<1>1. a \in Int /\ len \in 0..len OBVIOUS
<1>2. MatchLen(a, d, len) \in 0..len BY <1>1, MatchLenIs
<1>3. len <= MatchLen(a, d, len) BY <1>1, MatchLenIs
<1> QED BY <1>2, <1>3

LEMMA ExpectedIsOffer ==
    ASSUME NEW a \in Nat \ {0}, NEW most \in Nat, NEW loaded \in Nat, a + most <= loaded,
           ExpectedIn(a, most) # <<>>
    PROVE  \E len \in Nat, d \in 1..Least(HistorySize, a - 1) :
              /\ ExpectedIn(a, most) = <<<<len, d>>>> /\ len >= NumHashBytes
              /\ OfferRight(a, len, d, loaded)
<1>1. NumHashBytes = 4 /\ HistorySize \in Nat \ {0} BY FinderParams
<1> DEFINE near == {d \in 1..Least(HistorySize, a - 1) : HighKey(a - d) = HighKey(a)}
           d == CHOOSE d \in near : \A e \in near : d <= e
           len == MatchLen(a, d, most)
<1>2. most >= 4 /\ near # {} /\ ExpectedIn(a, most) = <<<<len, d>>>>
  <2>1. ExpectedIn(a, most) = IF most < NumHashBytes \/ near = {} THEN <<>>
              ELSE LET d1 == CHOOSE d1 \in near : \A e \in near : d1 <= e
                   IN  <<<<MatchLen(a, d1, most), d1>>>>
    BY DEF ExpectedIn
  <2> HIDE DEF near
  <2> QED BY <1>1, <2>1
<1>3. d \in near
  <2>1. near \in SUBSET Nat OBVIOUS
  <2>2. \E e \in near : \A f \in near : e <= f
    <3> HIDE DEF near
    <3> QED BY <1>2, <2>1, LeastNat
  <2> HIDE DEF near
  <2> QED BY <2>2
<1>4. d \in 1..Least(HistorySize, a - 1) /\ HighKey(a - d) = HighKey(a) BY <1>3
<1>5. d \in Int /\ a \in Int /\ a - d \in Int
  <2>1. Least(HistorySize, a - 1) \in Int BY <1>1 DEF Least
  <2> HIDE DEF d
  <2> QED BY <1>4, <2>1
<1> HIDE DEF d, near
<1>6. /\ len \in 0..most
      /\ \A i \in 0..(len - 1) : Byte(a + i) = Byte(a + i - d)
      /\ \A n \in 0..most : (\A i \in 0..(n - 1) : Byte(a + i) = Byte(a + i - d)) => n <= len
  BY <1>5, MatchLenIs, Zenon
<1> HIDE DEF len
<1>7. len >= 4
  <2>1. \A i \in 0..3 : Byte(a + i) = Byte((a - d) + i)
    <3>1. NumHashBytes - 1 = 3 BY <1>1
    <3>2. \A i \in 0..(NumHashBytes - 1) : Byte(a + i) = Byte((a - d) + i)
      BY <1>4, <1>5, SameKeys, Zenon
    <3> QED BY <3>1, <3>2
  <2>2. \A i \in 0..(4 - 1) : Byte(a + i) = Byte(a + i - d)
    <3>1. \A i \in 0..3 : a + i - d = (a - d) + i BY <1>5
    <3> QED BY <2>1, <3>1
  <2>3. 4 \in 0..most BY <1>2
  <2> QED BY <1>6, <2>2, <2>3
<1>8. MatchLen(a, d, len) = len
  <2>1. len \in Nat BY <1>6
  <2> QED BY <1>5, <1>6, <2>1, Offered
<1>9. OfferRight(a, len, d, loaded) BY <1>4, <1>6, <1>8 DEF OfferRight
<1> QED BY <1>1, <1>2, <1>4, <1>6, <1>7, <1>9

\* An entry near enough with the same first byte is a match.
LEMMA NearRight ==
    ASSUME FinderInv, LowRight, NEW minPos \in Nat \ {0}, lz.pos - minPos <= HistorySize,
           NEW key \in {H2(LzAt), H3(LzAt)}, NEW len \in Nat
    PROVE  LET a == LzAt
               d == lz.pos - hash.low[key]
           IN  \/ Near(a, hash.low[key], minPos, len) = <<>>
               \/ /\ Near(a, hash.low[key], minPos, len) = <<<<len, d>>>>
                  /\ d \in 1..Least(HistorySize, a - 1)
                  /\ Byte(a) = Byte(a - d) /\ Byte(a + 1) = Byte(a + 1 - d)
                  /\ key = H3(a) => Byte(a + 2) = Byte(a + 2 - d)
<1> DEFINE a == LzAt
           e == hash.low[key]
           d == lz.pos - e
<1>1. a \in Nat \ {0} /\ lz.pos \in 1..a
  <2>1. LzAt \in Int /\ LzAt >= 1 /\ lz.pos <= LzAt BY Places DEF Placed, LowRight
  <2>2. lz.pos \in 1..MaxVal /\ MaxVal \in Nat BY FinderParams DEF FinderInv, CoderKept
  <2> QED BY <2>1, <2>2
<1>2. key \in LowKeys /\ H2(a) # H3(a) /\ Len(H2(a)) = 1 /\ Len(H3(a)) = 2
  BY <1>1, LowKeysDecide
<1>3. e \in Nat
  <2>1. hash.low \in [LowKeys -> 0..MaxVal] BY DEF FinderInv, HashesKept
  <2>2. MaxVal \in Nat BY FinderParams
  <2> QED BY <1>2, <2>1, <2>2
<1>4. LowEntryRight(key, e, a, lz.pos) BY <1>2 DEF LowRight
<1> SUFFICES ASSUME e >= minPos, Byte(a - d) = Byte(a)
             PROVE  /\ d \in 1..Least(HistorySize, a - 1)
                    /\ Byte(a) = Byte(a - d) /\ Byte(a + 1) = Byte(a + 1 - d)
                    /\ key = H3(a) => Byte(a + 2) = Byte(a + 2 - d)
  BY DEF Near
<1>5. HistorySize \in Nat BY FinderParams
<1> HIDE DEF e, a
<1>6. e # 0 /\ e < lz.pos /\ lz.pos - e < a
      /\ (Len(key) = 1 => H2(a - d) = key) /\ (Len(key) = 2 => H3(a - d) = key)
  BY <1>3, <1>4 DEF LowEntryRight
<1>7. d \in 1..Least(HistorySize, a - 1) BY <1>1, <1>3, <1>5, <1>6 DEF Least
<1>8. d \in Int /\ a - d \in Int BY <1>1, <1>3
<1>9. (a - d) + 1 = a + 1 - d /\ (a - d) + 2 = a + 2 - d BY <1>1, <1>8
<1> HIDE DEF d
<1>10. key = H2(a) => H2(a - d) = H2(a) BY <1>2, <1>6
<1>11. key = H3(a) => H3(a - d) = H3(a) BY <1>2, <1>6
<1>12. key = H2(a) \/ key = H3(a) BY DEF a
<1>13. /\ H2(a - d) = H2(a) => Byte(a - d + 1) = Byte(a + 1)
       /\ H3(a - d) = H3(a) => Byte(a - d + 1) = Byte(a + 1) /\ Byte(a - d + 2) = Byte(a + 2)
  BY <1>1, <1>8, LowKeysDecide
<1> QED BY <1>7, <1>9, <1>10, <1>11, <1>12, <1>13

\* What an offer owes the coder, and that each is longer than the one before.
OffersOf(a, ms, loaded) ==
    \A i \in DOMAIN ms :
        /\ OfferRight(a, ms[i][1], ms[i][2], loaded)
        /\ i > 1 => ms[i][1] > ms[i - 1][1]

LEMMA MixRight ==
    ASSUME FinderInv, LowRight, NEW minPos \in Nat \ {0}, lz.pos - minPos <= HistorySize,
           LzAt + 3 <= Loaded
    PROVE  LET mix == MixMatches(LzAt, minPos)
           IN  /\ mix \in Seq(Nat \X Int) /\ OffersOf(LzAt, mix, Loaded)
               /\ \A i \in DOMAIN mix : mix[i][1] <= 3
<1> DEFINE a == LzAt
           c2 == hash.low[H2(a)]
           c3 == hash.low[H3(a)]
           two == Near(a, c2, minPos, 2)
           three == Near(a, c3, minPos, 3)
           d2 == lz.pos - c2
           d3 == lz.pos - c3
           mix == MixMatches(a, minPos)
<1>1. a \in Nat \ {0} /\ Loaded \in Nat
  <2>1. LzAt \in Int /\ LzAt >= 1 /\ Loaded \in Nat BY Places DEF Placed, LowRight
  <2> QED BY <2>1
<1>2. \/ two = <<>>
      \/ /\ two = <<<<2, d2>>>> /\ d2 \in 1..Least(HistorySize, a - 1)
         /\ Byte(a) = Byte(a - d2) /\ Byte(a + 1) = Byte(a + 1 - d2)
  BY NearRight
<1>3. \/ three = <<>>
      \/ /\ three = <<<<3, d3>>>> /\ d3 \in 1..Least(HistorySize, a - 1)
         /\ Byte(a) = Byte(a - d3) /\ Byte(a + 1) = Byte(a + 1 - d3)
         /\ Byte(a + 2) = Byte(a + 2 - d3)
  BY NearRight
<1>4. mix = IF two # <<>> /\ Byte(a - two[1][2] + 2) = Byte(a + 2)
            THEN <<<<3, two[1][2]>>>> ELSE two \o three
  BY DEF MixMatches
<1>5. a + 3 <= Loaded OBVIOUS
<1>6. HistorySize \in Nat BY FinderParams
<1> HIDE DEF a, two, three, c2, c3, mix
<1>7. \A d \in 1..Least(HistorySize, a - 1) : d \in Int BY <1>1, <1>6 DEF Least
<1>8. ASSUME NEW d \in 1..Least(HistorySize, a - 1), Byte(a) = Byte(a - d),
             Byte(a + 1) = Byte(a + 1 - d)
      PROVE  /\ OfferRight(a, 2, d, Loaded)
             /\ Byte(a + 2) = Byte(a + 2 - d) => OfferRight(a, 3, d, Loaded)
  <2>1. d \in Int BY <1>7
  <2>2. \A i \in 0..(2 - 1) : Byte(a + i) = Byte(a + i - d)
    <3>1. a + 0 = a /\ a + 0 - d = a - d BY <1>1, <2>1
    <3>2. \A i \in 0..(2 - 1) : i = 0 \/ i = 1 OBVIOUS
    <3> QED BY <1>8, <3>1, <3>2
  <2>3. ASSUME Byte(a + 2) = Byte(a + 2 - d)
        PROVE  \A i \in 0..(3 - 1) : Byte(a + i) = Byte(a + i - d)
    <3>1. \A i \in 0..(3 - 1) : i \in 0..(2 - 1) \/ i = 2 OBVIOUS
    <3> QED BY <2>2, <2>3, <3>1
  <2>4. MatchLen(a, d, 2) = 2 BY <1>1, <2>1, <2>2, Offered
  <2>5. Byte(a + 2) = Byte(a + 2 - d) => MatchLen(a, d, 3) = 3 BY <1>1, <2>1, <2>3, Offered
  <2> QED BY <1>1, <1>5, <2>4, <2>5 DEF OfferRight
<1>9. two # <<>> => two \in Seq(Nat \X Int) /\ two = <<<<2, d2>>>> /\ OfferRight(a, 2, d2, Loaded)
  <2> SUFFICES ASSUME two # <<>>
               PROVE  two \in Seq(Nat \X Int) /\ two = <<<<2, d2>>>> /\ OfferRight(a, 2, d2, Loaded)
    OBVIOUS
  <2>1. d2 \in Int BY <1>2, <1>7
  <2>2. two = <<<<2, d2>>>> /\ OfferRight(a, 2, d2, Loaded) BY <1>2, <1>8
  <2> HIDE DEF d2
  <2>3. <<<<2, d2>>>> \in Seq(Nat \X Int) BY <2>1
  <2> QED BY <2>2, <2>3
<1>10. three # <<>> => three \in Seq(Nat \X Int) /\ three = <<<<3, d3>>>>
                       /\ OfferRight(a, 3, d3, Loaded)
  <2> SUFFICES ASSUME three # <<>>
               PROVE  three \in Seq(Nat \X Int) /\ three = <<<<3, d3>>>>
                      /\ OfferRight(a, 3, d3, Loaded)
    OBVIOUS
  <2>1. d3 \in Int BY <1>3, <1>7
  <2>2. three = <<<<3, d3>>>> /\ OfferRight(a, 3, d3, Loaded) BY <1>3, <1>8
  <2> HIDE DEF d3
  <2>3. <<<<3, d3>>>> \in Seq(Nat \X Int) BY <2>1
  <2> QED BY <2>2, <2>3
<1> SUFFICES /\ mix \in Seq(Nat \X Int) /\ OffersOf(a, mix, Loaded)
             /\ \A i \in DOMAIN mix : mix[i][1] <= 3
  BY DEF mix, a
<1>11. CASE two # <<>> /\ Byte(a - two[1][2] + 2) = Byte(a + 2)
  <2>1. two[1][2] = d2 BY <1>9, <1>11
  <2>2. d2 \in 1..Least(HistorySize, a - 1) /\ d2 \in Int BY <1>2, <1>7, <1>11
  <2> HIDE DEF d2
  <2>3. Byte(a + 2) = Byte(a + 2 - d2)
    <3>1. a - d2 + 2 = a + 2 - d2 BY <1>1, <2>2
    <3> QED BY <1>11, <2>1, <3>1
  <2>4. OfferRight(a, 3, d2, Loaded) BY <1>2, <1>8, <1>11, <2>3
  <2>5. mix = <<<<3, d2>>>> BY <1>4, <1>11, <2>1
  <2> QED BY <2>2, <2>4, <2>5 DEF OffersOf
<1>12. CASE ~(two # <<>> /\ Byte(a - two[1][2] + 2) = Byte(a + 2))
  <2>1. mix = two \o three BY <1>4, <1>12
  <2> HIDE DEF d2, d3
  <2>2. CASE two = <<>> /\ three = <<>>
    <3>1. mix = <<>> BY <2>1, <2>2
    <3> QED BY <3>1 DEF OffersOf
  <2>3. CASE two = <<>> /\ three # <<>>
    <3>1. mix = three BY <1>10, <2>1, <2>3
    <3>2. DOMAIN mix = {1} /\ mix[1] = <<3, d3>> BY <1>10, <2>3, <3>1
    <3> QED BY <1>10, <2>3, <3>1, <3>2 DEF OffersOf
  <2>4. CASE two # <<>> /\ three = <<>>
    <3>1. mix = two BY <1>9, <2>1, <2>4
    <3>2. DOMAIN mix = {1} /\ mix[1] = <<2, d2>> BY <1>9, <2>4, <3>1
    <3> QED BY <1>9, <2>4, <3>1, <3>2 DEF OffersOf
  <2>5. CASE two # <<>> /\ three # <<>>
    <3>1. mix \in Seq(Nat \X Int) /\ Len(mix) = 2 /\ mix[1] = <<2, d2>> /\ mix[2] = <<3, d3>>
      <4>1. two \in Seq(Nat \X Int) /\ three \in Seq(Nat \X Int) BY <1>9, <1>10, <2>5
      <4>2. Len(two) = 1 /\ two[1] = <<2, d2>> BY <1>9, <2>5
      <4>3. Len(three) = 1 /\ three[1] = <<3, d3>> BY <1>10, <2>5
      <4> DEFINE p2 == <<2, d2>>
                 p3 == <<3, d3>>
      <4> HIDE DEF p2, p3
      <4>4. two[1] = p2 /\ three[1] = p3 BY <4>2, <4>3 DEF p2, p3
      <4>5. /\ two \o three \in Seq(Nat \X Int) /\ Len(two \o three) = Len(two) + Len(three)
            /\ \A i \in 1..Len(two) : (two \o three)[i] = two[i]
            /\ \A i \in 1..Len(three) : (two \o three)[Len(two) + i] = three[i]
        BY <4>1, Joins
      <4>6. Len(two) = 1 /\ Len(three) = 1 BY <4>2, <4>3
      <4>7. mix \in Seq(Nat \X Int) /\ Len(mix) = 2 /\ mix[1] = p2 /\ mix[2] = p3
        BY <2>1, <4>4, <4>5, <4>6
      <4> QED BY <4>7 DEF p2, p3
    <3>2. DOMAIN mix = {1, 2} BY <3>1
    <3>3. OfferRight(a, 2, d2, Loaded) /\ OfferRight(a, 3, d3, Loaded) BY <1>9, <1>10, <2>5
    <3>4. mix[1][1] = 2 /\ mix[1][2] = d2 /\ mix[2][1] = 3 /\ mix[2][2] = d3 BY <3>1
    <3>5. ASSUME NEW i \in DOMAIN mix
          PROVE  /\ OfferRight(a, mix[i][1], mix[i][2], Loaded)
                 /\ i > 1 => mix[i][1] > mix[i - 1][1]
                 /\ mix[i][1] <= 3
      <4>1. i = 1 \/ i = 2 BY <3>2
      <4> QED BY <3>3, <3>4, <4>1
    <3> QED BY <3>1, <3>5 DEF OffersOf
  <2> QED BY <2>2, <2>3, <2>4, <2>5
<1> QED BY <1>11, <1>12

-----------------------------------------------------------------------------
(* Nothing done yet *)

\* Whoever is about to begin has done nothing, and had done nothing before.
LEMMA UnusedBefore ==
    ASSUME SyncInv, FinderInv, [Next]_vars, Unused'
    PROVE  Unused /\ ~HashFill /\ ~BtChunk /\ bt'.avail = bt.avail
<1>1. Control /\ Room /\ SyncType /\ BtRuns /\ HashRuns BY DEF SyncInv, Control
<1>2. ~HashFill
  BY <1>1 DEF Unused, HashFresh, HashFill, HashRuns
<1>3. ~BtChunk
  BY <1>1 DEF Unused, HashFresh, BtChunk, BtMore, HashRuns, Room, syncVars
<1>4. ~BtHeader
  BY <1>1 DEF Unused, HashFresh, BtHeader, Lock, HashRuns
<1>5. CASE HashStep
  <2>1. HashFresh' => HashFresh BY <1>5, FreshBefore
  <2>2. canStart'["hash"] => canStart["hash"] /\ UNCHANGED exit
    BY <1>1, <1>5 DEF HashStep, HashStart, HashLockBt, HashLockHash, HashMove, HashTakeFree,
         HashFill, HashSayStopped, Started, TakeFree, SayStopped, SyncType, Syncs
  <2>3. bt'.avail = bt.avail
    <3>1. BtAlone BY <1>5, OthersLeaveBt
    <3> QED BY <3>1, AloneKeeps DEF FinderInv
  <2> QED BY <1>2, <1>3, <2>1, <2>2, <2>3 DEF Unused
<1>6. CASE LzStep
  <2>1. HashFresh' => HashFresh BY <1>6, FreshBefore
  <2>2. canStart'["hash"] /\ ~exit'["hash"] => canStart["hash"] /\ ~exit["hash"]
    BY <1>1, <1>6 DEF LzStep, CreateHash, CreateBt, CreateFails, InitFinder, AskBlock,
         TakeBlock, LzHeader, GetMatches, Skip, StopOnError, Flush, Finish, Finished,
         DestroyNone, Destroy, Joined, Doomed, AskFirst, AskNext, TakeFilled, Lock, StopWriting,
         Stopped, SendExit, Join, Create, InitSemaphores, syncVars, SyncType, Syncs
  <2>3. bt'.avail = bt.avail
    <3>1. BtAlone BY <1>6, OthersLeaveBt
    <3> QED BY <3>1, AloneKeeps DEF FinderInv
  <2> QED BY <1>2, <1>3, <2>1, <2>2, <2>3 DEF Unused
<1>7. CASE BtStep
  <2>1. bt \in BtRecords BY DEF FinderInv, TreeKept, BtRecords
  <2>2. bt'.avail = bt.avail
    BY <1>3, <1>4, <1>7, <2>1 DEF BtStep, BtStart, BtTakeFree, BtLock, BtAsk, BtTake, BtPost,
         BtStopHash, BtHashStopped, BtSayStopped, finderVars, BtRecords
  <2>3. Unused
    <3>1. CASE BtStart
      <4>1. canStart["bt"] /\ UNCHANGED <<needStart, exit, canStart["hash"]>>
            /\ pc["bt"] = "wait" /\ pc'["lz"] = pc["lz"]
        BY <1>1, <3>1 DEF BtStart, Started, Goto, Control, PcType, Threads, SyncType, Syncs
      <4>2. pc'["bt"] = IF exit["bt"] THEN "end" ELSE "next"
        BY <1>1, <3>1 DEF BtStart, Goto, Control, PcType, Threads
      <4> QED BY <1>1, <4>1, <4>2 DEF Unused, HashFresh, BtRuns, LzBefore
    <3>2. CASE ~BtStart
      <4>1. pc["bt"] \notin {"off", "wait", "end"} /\ pc'["lz"] = pc["lz"]
        BY <1>1, <1>7, <3>2 DEF BtStep, BtTakeFree, BtLock, BtAsk, BtTake, BtPost, BtHeader,
           BtChunk, BtMore, BtStopHash, BtHashStopped, BtSayStopped, Goto, Control, PcType,
           Threads, syncVars
      <4>2. pc["lz"] \in LzCoding \union {"stopping"} /\ ~canStart["bt"]
        BY <1>1, <4>1, BtAwake
      <4>3. ~canStart'["bt"] /\ pc["lz"] \notin LzBefore
        BY <1>1, <1>7, <3>2, <4>1, <4>2 DEF BtStep, BtTakeFree, BtLock, BtAsk, BtTake, BtPost,
           BtHeader, BtChunk, BtStopHash, BtHashStopped, BtSayStopped, syncVars, AskFirst,
           AskNext, TakeFree, TakeFilled, Lock, StopWriting, Stopped, SayStopped, LzBefore,
           LzCoding, SyncType, Syncs
      <4>4. HashFresh' => HashFresh
        BY <1>1, <1>7, <3>2, <4>1, <4>2, <4>3 DEF HashFresh, HashRuns, BtStep, BtTakeFree,
           BtLock, BtAsk,
           BtTake, BtPost, BtHeader, BtChunk, BtMore, BtStopHash, BtHashStopped, BtSayStopped,
           syncVars, AskFirst, AskNext, TakeFree, TakeFilled, Lock, StopWriting, Stopped,
           SayStopped, LzCoding, SyncType, Syncs, Goto, Control, PcType, Threads
      <4>5. canStart'["hash"] /\ ~exit'["hash"] => Unused
        BY <1>1, <1>7, <3>2, <4>1, <4>2 DEF HashFresh, BtStep, BtTakeFree, BtLock, BtAsk,
           BtTake, BtPost, BtHeader, BtChunk, BtMore, BtStopHash, BtHashStopped, BtSayStopped,
           syncVars, AskFirst, AskNext, TakeFree, TakeFilled, Lock, StopWriting, Stopped,
           SayStopped, SyncType, Syncs, Unused
      <4> QED BY <4>4, <4>5 DEF Unused
    <3> QED BY <3>1, <3>2
  <2> QED BY <1>2, <1>3, <2>2, <2>3
<1>8. CASE WriteFails \/ UNCHANGED vars
  BY <1>2, <1>3, <1>8 DEF WriteFails, vars, syncVars, finderVars, Unused, HashFresh
<1> QED BY <1>5, <1>6, <1>7, <1>8 DEF Next, ThreadStep

LEMMA StartsStep == ASSUME SyncInv, FinderInv, StartsAtOne, [Next]_vars PROVE StartsAtOne'
<1>1. SyncType /\ PcType /\ BtRuns BY DEF SyncInv, Control
<1>2. Unused' => HashAt' = 1 /\ BtAt' = 1 /\ bt'.avail = 0
  <2> SUFFICES ASSUME Unused' PROVE HashAt' = 1 /\ BtAt' = 1 /\ bt'.avail = 0 OBVIOUS
  <2>1. Unused /\ ~HashFill /\ ~BtChunk /\ bt'.avail = bt.avail BY UnusedBefore
  <2>2. HashAt' = HashAt /\ BtAt' = BtAt BY <2>1, Stays DEF HashView
  <2> QED BY <2>1, <2>2 DEF StartsAtOne
<1>3. pc'["lz"] \in LzBefore => LzAt' = 1
  <2>1. pc'["lz"] \in LzBefore => pc["lz"] \in LzBefore /\ ~(GetMatches \/ Skip)
    <3>1. CASE LzStep
      BY <1>1, <3>1 DEF LzStep, CreateHash, CreateBt, CreateFails, InitFinder, AskBlock,
         TakeBlock, LzHeader, GetMatches, Skip, StopOnError, Flush, Finish, Finished, CodeOne,
         DestroyNone, Destroy, Joined, Goto, PcType, Threads, LzBefore, syncVars, Next1, Doomed
    <3>2. CASE ~LzStep
      <4>1. pc'["lz"] = pc["lz"]
        BY <1>1, <3>2 DEF Next, ThreadStep, HashStep, HashStart, HashLockBt, HashLockHash,
           HashMove, HashTakeFree, HashFill, HashSayStopped, BtStep, BtStart, BtTakeFree, BtLock,
           BtAsk, BtTake, BtHeader, BtChunk, BtPost, BtStopHash, BtHashStopped, BtSayStopped,
           WriteFails, Goto, PcType, Threads, vars, syncVars
      <4>2. ~(GetMatches \/ Skip) BY <3>2 DEF LzStep
      <4> QED BY <4>1, <4>2
    <3> QED BY <3>1, <3>2
  <2> QED BY <2>1, Stays DEF StartsAtOne
<1>4. pc'["bt"] = "wait" /\ Runs("bt")' => canStart'["bt"]
  <2> SUFFICES ASSUME pc'["bt"] = "wait", Runs("bt")' PROVE canStart'["bt"] OBVIOUS
  <2>1. CASE LzStep
    <3>1. CASE AskBlock
      BY <1>1, <2>1, <3>1 DEF AskBlock, AskFirst, AskNext, SyncType, Syncs, StartsAtOne, Runs,
         Goto, PcType, Threads
    <3>2. CASE ~AskBlock
      <4>1. ~CreateBt BY <1>1 DEF CreateBt, Create, Runs, SyncType, Syncs
      <4>2. pc["bt"] = "wait"
        BY <1>1, <2>1, <3>2, <4>1 DEF LzStep, CreateHash, CreateFails, InitFinder,
           TakeBlock, LzHeader, GetMatches, Skip, StopOnError, Flush, Finish, Finished,
           DestroyNone, Destroy, Joined, Goto, PcType, Threads, syncVars
      <4>4. Runs("bt")
        BY <1>1, <2>1, <3>2, <4>1 DEF LzStep, CreateHash, CreateFails, InitFinder,
           TakeBlock, LzHeader, GetMatches, Skip, StopOnError, Flush, Finish, Finished,
           DestroyNone, Destroy, Joined, syncVars, TakeFilled,
           Lock, StopWriting, Stopped, SendExit, Join, Create, InitSemaphores, SyncType, Syncs,
           Runs
      <4>5. canStart["bt"] => canStart'["bt"]
        BY <1>1, <2>1, <3>2, <4>1 DEF LzStep, CreateHash, CreateFails, InitFinder,
           TakeBlock, LzHeader, GetMatches, Skip, StopOnError, Flush, Finish, Finished,
           DestroyNone, Destroy, Joined, Doomed, syncVars, TakeFilled,
           Lock, StopWriting, Stopped, SendExit, Join, Create, InitSemaphores, SyncType, Syncs
      <4> QED BY <4>2, <4>4, <4>5 DEF StartsAtOne
    <3> QED BY <3>1, <3>2
  <2>2. CASE HashStep
    BY <1>1, <2>2 DEF HashStep, HashStart, HashLockBt, HashLockHash,
       HashMove, HashTakeFree, HashFill, HashSayStopped, Goto, PcType, Threads, Started,
       TakeFree, SayStopped, SyncType, Syncs, StartsAtOne, Runs
  <2>3. CASE BtStep
    BY <1>1, <2>3 DEF BtStep, BtStart, BtTakeFree, BtLock, BtAsk, BtTake, BtHeader, BtChunk,
       BtMore, BtPost, BtStopHash, BtHashStopped, BtSayStopped, Goto, PcType, Threads, BtRuns,
       SayStopped, syncVars, Runs, SyncType, Syncs
  <2>4. CASE WriteFails \/ UNCHANGED vars
    BY <2>4 DEF WriteFails, vars, syncVars, StartsAtOne, Runs
  <2> QED BY <2>1, <2>2, <2>3, <2>4 DEF Next, ThreadStep
<1> QED BY <1>2, <1>3, <1>4 DEF StartsAtOne

-----------------------------------------------------------------------------
(* The hash thread *)

\* A block of the hash thread is right, and leaves the table right.
LEMMA FillRight ==
    ASSUME SyncInv, FinderInv, HighRight, HashFill
    PROVE  LET h == hashBuf'[block["hash"]]
           IN  /\ HighRight' /\ h \in [avail : Nat, heads : Seq(Int)]
               /\ hashBuf' = [hashBuf EXCEPT ![block["hash"]] = h]
               /\ HashBlockRight(h, HashAt, Loaded', ReadOver')
               /\ HashAt' = HashAt + Span(h) /\ Span(h) \in 0..HashBlockSize
<1> DEFINE h == hashBuf'[block["hash"]]
<1>1. PICK m \in ReadIfRequired :
             /\ FillHash(m) /\ m \in MfRecords /\ m.pos = mf.pos
             /\ base + m.buffer = HashAt /\ Loaded' = HashAt + m.avail
             /\ m.avail >= mf.avail /\ mf'.avail = m.avail - HashNum(m)
             /\ HashAt' = HashAt + HashNum(m) /\ HashNum(m) \in 0..m.avail
             /\ mf'.eof = m.eof /\ mf'.result = m.result
             /\ ReadOver => m = mf /\ ReadOver'
             /\ ~ReadOver' => m.avail > KeepAfter
             /\ m.eof /\ ~mf.eof => Loaded' = Past
  BY FillReads
<1>2. /\ SyncType /\ HashesKept /\ WindowKept /\ pc["hash"] = "fill"
  BY DEF SyncInv, Control, FinderInv, HashFill
<1>3. /\ HashAt \in Nat \ {0} /\ mf.avail \in Nat
  BY Places DEF Placed
<1>4. /\ m.avail \in Nat /\ m.pos \in 0..MaxVal BY <1>1 DEF MfRecords
<1>5. /\ HashNum(m) \in 0..m.avail /\ HashNum(m) <= HashBlockSize
      /\ m.avail >= NumHashBytes => HashNum(m) > 0
  BY <1>1, NumbersOf
<1>6. NumHashBytes = 4 /\ HashBlockSize \in Nat /\ KeepAfter \in Nat /\ KeepAfter >= 4
  BY Sizes, FinderParams
<1>7. block["hash"] \in DOMAIN hashBuf
  BY <1>2 DEF SyncType, HashesKept, Syncs
<1>8. Loaded' <= Past /\ Past \in Nat
  <2>1. FinderInv' BY StepsKeep DEF Next, ThreadStep, HashStep, SyncInv, Control, Locks
  <2>2. Placed' BY <2>1, Places, PTL
  <2> QED BY <2>2, PastIsNat DEF Placed, Past
<1>9. CASE m.avail < NumHashBytes
  <2>1. hashBuf' = [hashBuf EXCEPT ![block["hash"]] = [avail |-> m.avail, heads |-> <<>>]]
    BY <1>1, <1>9 DEF FillHash
  <2>2. h = [avail |-> m.avail, heads |-> <<>>] BY <1>7, <2>1
  <2> HIDE DEF h
  <2>3. h.avail = m.avail /\ h.heads = <<>> /\ Len(h.heads) = 0 /\ HashNum(m) = m.avail
    BY <1>9, <2>2 DEF HashNum
  <2>4. ReadOver' BY <1>1, <1>4, <1>6, <1>9
  <2>5. HashOver'
    <3>1. mf'.avail = 0 BY <1>1, <1>4, <2>3
    <3> QED BY <1>6, <2>4, <3>1 DEF HashOver
  <2>6. HighRight' BY <2>5 DEF HighRight
  <2>7. Span(h) = m.avail BY <1>9, <2>3 DEF Span
  <2>8. HashBlockRight(h, HashAt, Loaded', ReadOver') BY <1>1, <2>3, <2>4 DEF HashBlockRight
  <2>9. h \in [avail : Nat, heads : Seq(Int)] BY <1>4, <2>2
  <2>10. hashBuf' = [hashBuf EXCEPT ![block["hash"]] = h] BY <2>1, <2>2
  <2>11. HashAt' = HashAt + Span(h) /\ Span(h) \in 0..HashBlockSize
    BY <1>1, <1>4, <1>5, <2>3, <2>7, <1>6
  <2> QED BY <2>6, <2>8, <2>9, <2>10, <2>11 DEF h
<1>10. CASE ~(m.avail < NumHashBytes)
  <2> DEFINE n == HashNum(m)
             sub == HashSub(m.pos, n)
             low == Normalize3(sub, hash.high)
             got == GetHeads(base + m.buffer, m.pos - sub, low, n)
  <2>1. /\ hashBuf' = [hashBuf EXCEPT ![block["hash"]] = [avail |-> m.avail, heads |-> got.heads]]
        /\ mf' = [[m EXCEPT !.buffer = @ + n, !.avail = @ - n] EXCEPT !.pos = @ - sub + n]
        /\ hash' = [hash EXCEPT !.high = got.table]
    BY <1>1, <1>10 DEF FillHash
  <2>2. n \in Nat /\ n > 0 /\ n <= HashBlockSize /\ n <= m.avail BY <1>4, <1>5, <1>6, <1>10
  <2>3. ~HashOver
    <3>1. ~(ReadOver /\ mf.avail < NumHashBytes) BY <1>1, <1>10
    <3> QED BY <3>1 DEF HashOver
  <2>4. /\ mf.pos \in 1..HashAt /\ (mf.pos = HashAt \/ mf.pos >= CyclicSize)
        /\ \A key \in HighKeys : EntryRight(key, hash.high[key], HashAt, mf.pos)
    BY <1>2, <2>3 DEF HighRight
  <2>5. hash \in [high : [HighKeys -> 0..MaxVal], low : [LowKeys -> 0..MaxVal]]
    BY <1>2 DEF HashesKept
  <2>6. HashAt + n <= Past BY <1>1, <1>3, <1>4, <1>8, <2>2
  <2>7. MaxVal \in Nat BY FinderParams
  <2>8. got = GetHeads(HashAt, mf.pos - sub, low, n) /\ sub = HashSub(mf.pos, n)
    BY <1>1
  <2>9. \A key \in HighKeys : low[key] = IF hash.high[key] > sub THEN hash.high[key] - sub ELSE 0
    BY <2>5 DEF Normalize3
  <2> HIDE DEF n, sub, low, got
  <2>10. mf.pos \in 0..MaxVal /\ hash.high \in [HighKeys -> 0..MaxVal] BY <1>1, <1>4, <2>5
  <2>11. /\ sub \in Nat /\ low \in [HighKeys -> 0..MaxVal]
         /\ got.heads \in Seq(Int) /\ Len(got.heads) = n
    <3>1. low = Normalize3(sub, hash.high) BY DEF low
    <3> QED BY <1>3, <2>2, <2>6, <2>8, <2>10, <3>1, TableKept
  <2>12. /\ mf.pos - sub \in 1..HashAt
         /\ mf.pos - sub = HashAt \/ mf.pos - sub >= CyclicSize
         /\ \A key \in HighKeys, e \in Nat : EntryRight(key, e, HashAt, mf.pos) =>
              EntryRight(key, IF e > sub THEN e - sub ELSE 0, HashAt, mf.pos - sub)
    <3>1. mf.pos \in 1..MaxVal /\ mf.pos <= HashAt BY <2>4, <2>7, <2>10, <1>3
    <3> QED BY <1>3, <2>2, <2>4, <2>8, <3>1, Renumbered
  <2>13. \A key \in HighKeys : EntryRight(key, low[key], HashAt, mf.pos - sub)
    <3>1. \A key \in HighKeys : hash.high[key] \in Nat BY <2>7, <2>10
    <3> QED BY <2>4, <2>9, <2>12, <3>1
  <2>14. /\ \A i \in 1..n : HeadRight(HashAt + i - 1, got.heads[i])
         /\ \A key \in HighKeys : EntryRight(key, got.table[key], HashAt + n, mf.pos - sub + n)
    <3>1. low \in [HighKeys -> Nat] BY <2>7, <2>11
    <3> QED BY <1>3, <2>2, <2>6, <2>8, <2>12, <2>13, <3>1, GotRight
  <2>15. mf'.pos = mf.pos - sub + n /\ hash'.high = got.table
    <3>1. m \in [buffer : Nat, avail : Nat, pos : 0..MaxVal, eof : BOOLEAN,
                 result : {"ok", "read"}] BY <1>1 DEF MfRecords
    <3> QED BY <1>1, <2>1, <2>5, <3>1
  <2>16. HashAt' = HashAt + n /\ HashAt' >= HashAt BY <1>1, <1>3, <2>2 DEF n
  <2>17. HighRight'
    <3> DEFINE p == mf.pos - sub
    <3>1. p \in 1..HashAt /\ (p = HashAt \/ p >= CyclicSize) /\ CyclicSize \in Nat
      BY <2>12, FinderParams DEF CyclicSize
    <3> HIDE DEF p
    <3>2. p + n \in 1..(HashAt + n) /\ (p + n = HashAt + n \/ p + n >= CyclicSize)
      BY <1>3, <2>2, <3>1
    <3>3. mf'.pos = p + n BY <2>15 DEF p
    <3>4. \A key \in HighKeys : EntryRight(key, hash'.high[key], HashAt', mf'.pos)
      BY <2>14, <2>15, <2>16
    <3> QED BY <2>16, <3>2, <3>3, <3>4 DEF HighRight, HighKeys, CyclicSize
  <2>18. h = [avail |-> m.avail, heads |-> got.heads] BY <1>7, <2>1
  <2>19. hashBuf' = [hashBuf EXCEPT ![block["hash"]] = h] BY <2>1, <2>18
  <2> HIDE DEF h
  <2>20. h.avail = m.avail /\ h.heads = got.heads /\ Len(h.heads) = n BY <2>11, <2>18
  <2>21. h \in [avail : Nat, heads : Seq(Int)] BY <1>4, <2>11, <2>18
  <2>22. Span(h) = n BY <1>10, <2>20 DEF Span
  <2>23. HashBlockRight(h, HashAt, Loaded', ReadOver')
    <3>1. \A i \in 1..Len(h.heads) : HeadRight(HashAt + i - 1, h.heads[i]) BY <2>14, <2>20
    <3> QED BY <1>1, <1>3, <1>4, <2>20, <3>1 DEF HashBlockRight
  <2>24. HashAt' = HashAt + Span(h) /\ Span(h) \in 0..HashBlockSize
    BY <1>6, <2>2, <2>16, <2>22
  <2> QED BY <2>17, <2>19, <2>21, <2>23, <2>24 DEF h
<1> QED BY <1>9, <1>10

\* Each table is its own thread's.
LEMMA TablesStay ==
    ASSUME SyncInv, FinderInv, [Next]_vars
    PROVE  /\ ~HashFill /\ ~HashStart => hash'.high = hash.high
           /\ ~(InitFinder \/ LzHeader \/ GetMatches \/ Skip) => hash'.low = hash.low
<1>1. hash \in [high : [HighKeys -> 0..MaxVal], low : [LowKeys -> 0..MaxVal]]
  BY DEF FinderInv, HashesKept
<1>2. CASE HashStep
  <2>1. CASE HashFill
    <3>1. PICK m \in ReadIfRequired : FillHash(m) BY <2>1 DEF HashFill
    <3> QED BY <1>1, <2>1, <3>1 DEF FillHash
  <2>2. CASE ~HashFill
    BY <1>1, <1>2, <2>2 DEF HashStep, HashStart, HashLockBt, HashLockHash, HashMove,
       HashTakeFree, HashSayStopped, finderVars
  <2> QED BY <2>1, <2>2
<1>3. CASE LzStep
  BY <1>1, <1>3 DEF LzStep, CreateHash, CreateBt, CreateFails, InitFinder, AskBlock,
     TakeBlock, LzHeader, GetMatches, Skip, StopOnError, Flush, Finish, Finished,
     DestroyNone, Destroy, Joined, finderVars
<1>4. CASE BtStep \/ WriteFails \/ UNCHANGED vars
  BY <1>4 DEF BtStep, BtStart, BtTakeFree, BtLock, BtAsk, BtTake, BtHeader, BtChunk,
     BtPost, BtStopHash, BtHashStopped, BtSayStopped, finderVars, WriteFails, vars
<1> QED BY <1>2, <1>3, <1>4 DEF Next, ThreadStep

LEMMA HighStep ==
    ASSUME SyncInv, FinderInv, StartsAtOne, HighRight, [Next]_vars
    PROVE  HighRight'
<1>1. SyncType /\ PcType /\ Lives BY DEF SyncInv, Control
<1>2. CASE HashFill BY <1>2, FillRight
<1>3. CASE HashStart
  <2>1. UNCHANGED HashView
    <3>1. ~HashFill BY <1>1, <1>3 DEF HashStart, HashFill, Started
    <3> QED BY <3>1, Stays
  <2>2. CASE exit["hash"]
    <3>1. pc'["hash"] = "end" BY <1>1, <1>3, <2>2 DEF HashStart, Goto, PcType, Threads
    <3> QED BY <3>1 DEF HighRight
  <2>3. CASE ~exit["hash"]
    <3>1. Unused BY <1>3, <2>3 DEF HashStart, Started, Unused
    <3>2. pc["hash"] = "wait" /\ HashAt = 1 BY <1>3, <3>1 DEF HashStart, Started, StartsAtOne
    <3>3. hash'.high = Empty(HighKeys)
      <4>1. hash \in [high : [HighKeys -> 0..MaxVal], low : [LowKeys -> 0..MaxVal]]
        BY DEF FinderInv, HashesKept
      <4> QED BY <1>3, <4>1 DEF HashStart
    <3>4. \A key \in HighKeys : EntryRight(key, hash'.high[key], HashAt', mf'.pos)
      BY <2>1, <3>2, <3>3 DEF Empty, EntryRight, HashView
    <3>5. ~HashOver' => ~HashOver BY <2>1 DEF HashView, HashOver, ReadOver
    <3>6. ~HashOver' => mf'.pos \in 1..HashAt' /\ (mf'.pos = HashAt' \/ mf'.pos >= CyclicSize)
      BY <2>1, <3>2, <3>5 DEF HighRight, HashView
    <3> QED BY <3>4, <3>6 DEF HighRight, HighKeys, CyclicSize
  <2> QED BY <2>2, <2>3
<1>4. CASE ~HashFill /\ ~HashStart
  <2>1. UNCHANGED HashView /\ hash'.high = hash.high BY <1>4, Stays, TablesStay
  <2>2. pc["hash"] = "end" => pc'["hash"] = "end"
    <3>1. pc["hash"] = "end" => ~CreateHash BY <1>1 DEF CreateHash, Lives
    <3> QED
      BY <1>1, <3>1 DEF Next, ThreadStep, LzStep, CreateBt, CreateFails, InitFinder,
         AskBlock, TakeBlock, LzHeader, GetMatches, Skip, StopOnError, Flush, Finish, Finished,
         DestroyNone, Destroy, Joined, HashStep, HashStart, HashLockBt, HashLockHash, HashMove,
         HashTakeFree, HashFill, HashSayStopped, BtStep, BtStart, BtTakeFree, BtLock,
         BtAsk, BtTake, BtHeader, BtChunk, BtPost, BtStopHash, BtHashStopped, BtSayStopped,
         WriteFails, Goto, PcType, Threads, vars, syncVars, Started
  <2> QED BY <2>1, <2>2 DEF HighRight, HashOver, ReadOver, HashView, EntryRight, HighKeys,
        CyclicSize
<1> QED BY <1>2, <1>3, <1>4

\* What Ring says of a ring in use.
LEMMA RingOf ==
    ASSUME SyncInv, NEW s \in Syncs, Runs(s)
    PROVE  /\ NumBlocks[s] \in Nat \ {0} /\ reading[s] \in 0..(NumBlocks[s] - 1)
           /\ Ahead(s) \in 0..NumBlocks[s] /\ One(Writing(s)) \in {0, 1}
           /\ Ahead(s) + One(Writing(s)) <= NumBlocks[s]
           /\ Writing(s) => One(Writing(s)) = 1 /\ Ahead(s) < NumBlocks[s]
           /\ free[s] > 0 => Ahead(s) + One(Writing(s)) < NumBlocks[s]
           /\ Held(s) => Ahead(s) \in 1..NumBlocks[s]
           /\ numProcessed[s] = Slot(reading[s], 1, NumBlocks[s])
           /\ block[s] = Slot(reading[s], Ahead(s), NumBlocks[s])
<1>1. SyncType /\ Ring(s) BY DEF SyncInv, Control, Rings, Syncs
<1>2. /\ NumBlocks[s] \in Nat \ {0} /\ free[s] \in Nat /\ filled[s] \in Nat
      /\ reading[s] \in 0..(NumBlocks[s] - 1)
      /\ One(Held(s)) \in {0, 1} /\ One(Writing(s)) \in {0, 1}
  BY <1>1, RingNumbers
<1>3. /\ free[s] + Ahead(s) + One(Writing(s)) = NumBlocks[s]
      /\ After(s, numProcessed[s], 1, reading[s])
      /\ After(s, block[s], Ahead(s), reading[s])
  BY <1>1 DEF Ring, Runs
<1>4. Ahead(s) = filled[s] + One(Held(s)) /\ (Held(s) => One(Held(s)) = 1)
      /\ (Writing(s) => One(Writing(s)) = 1)
  BY DEF Ahead, One
<1>5. /\ numProcessed[s] = Slot(reading[s], 1, NumBlocks[s])
      /\ block[s] = Slot(reading[s], Ahead(s), NumBlocks[s])
  BY <1>3 DEF After, Slot
<1> DEFINE a == Ahead(s)
           w == One(Writing(s))
           h == One(Held(s))
<1>6. /\ free[s] + a + w = NumBlocks[s] /\ a = filled[s] + h /\ h \in {0, 1} /\ w \in {0, 1}
  BY <1>2, <1>3, <1>4
<1> HIDE DEF a, w, h
<1>7. /\ a \in 0..NumBlocks[s] /\ a + w <= NumBlocks[s]
      /\ free[s] > 0 => a + w < NumBlocks[s]
      /\ w = 1 => a < NumBlocks[s] /\ (h = 1 => a >= 1)
      /\ h = 1 => a \in 1..NumBlocks[s]
  BY <1>2, <1>6
<1> QED BY <1>2, <1>4, <1>5, <1>7 DEF a, w, h

LEMMA HashOff ==
    ASSUME SyncInv, FinderInv, EofIsEnd, [Next]_vars, NEW n, NEW r,
           \A b \in 0..(NumBlocks["hash"] - 1) :
              (n < NumBlocks["hash"] /\ b = Slot(r, n, NumBlocks["hash"])) \/ hashBuf'[b] = hashBuf[b]
    PROVE  OffChain(n, r, NumBlocks["hash"], HashLens, HashOks, HashLens', HashOks')
<1>1. /\ Loaded \in Nat /\ Loaded' \in Nat /\ Loaded <= Loaded'
      /\ ReadOver => ReadOver' /\ Loaded' = Loaded
  BY Later
<1>2. HashesKept /\ HashesKept' BY StepsKeep DEF FinderInv
<1>3. /\ DOMAIN hashBuf = 0..(NumBlocks["hash"] - 1) /\ DOMAIN hashBuf' = 0..(NumBlocks["hash"] - 1)
      /\ \A b \in 0..(NumBlocks["hash"] - 1) : hashBuf[b] \in [avail : Nat, heads : Seq(Int)]
  BY <1>2 DEF HashesKept
<1>4. ASSUME NEW h \in [avail : Nat, heads : Seq(Int)], NEW x \in Int,
             HashBlockRight(h, x, Loaded, ReadOver)
      PROVE  HashBlockRight(h, x, Loaded', ReadOver')
  <2>1. ReadOver \in BOOLEAN /\ ReadOver' \in BOOLEAN
    <3>1. mf.eof \in BOOLEAN /\ mf'.eof \in BOOLEAN
      <4>1. WindowKept /\ WindowKept' BY StepsKeep DEF FinderInv
      <4> QED BY <4>1 DEF WindowKept
    <3> QED BY <3>1 DEF ReadOver
  <2> QED BY <1>1, <1>4, <2>1, StaysRight
<1>5. ASSUME NEW b \in 0..(NumBlocks["hash"] - 1), hashBuf'[b] = hashBuf[b]
      PROVE  HashLens'[b] = HashLens[b]
             /\ \A x \in Nat : <<b, x>> \in HashOks => <<b, x>> \in HashOks'
  <2>1. HashLens'[b] = HashLens[b] BY <1>3, <1>5 DEF HashLens, Span
  <2>2. ASSUME NEW x \in Nat, <<b, x>> \in HashOks PROVE <<b, x>> \in HashOks'
    <3>1. HashBlockRight(hashBuf[b], x, Loaded, ReadOver) BY <2>2 DEF HashOks
    <3>2. HashBlockRight(hashBuf'[b], x, Loaded', ReadOver') BY <1>3, <1>4, <1>5, <3>1
    <3> QED BY <1>3, <3>2 DEF HashOks, HashBlockRight
  <2> QED BY <2>1, <2>2
<1> QED BY <1>5 DEF OffChain

\* What a step that is not about the blocks of the hash thread leaves of them.
HashQuiet ==
    /\ Feeds' => /\ Feeds /\ Ahead("hash")' = Ahead("hash")
                 /\ UNCHANGED <<reading["hash"], bt.next, bt.limit, bt.avail>>
                 /\ pc'["bt"] \in {"filled", "lockhash"} <=> pc["bt"] \in {"filled", "lockhash"}
                 /\ pc'["bt"] = "post" => pc["bt"] = "post"

LEMMA QuietHash ==
    ASSUME SyncInv, FinderInv, [Next]_vars, ~HashFill, ~BtAsk, ~BtHeader, ~BtChunk
    PROVE  HashQuiet /\ UNCHANGED hashBuf
<1>1. SyncType /\ PcType /\ BtRuns /\ HashRuns /\ Lives BY DEF SyncInv, Control
<1>2. UNCHANGED hashBuf
  BY DEF Next, ThreadStep, LzStep, CreateHash, CreateBt, CreateFails, InitFinder, AskBlock,
     TakeBlock, LzHeader, GetMatches, Skip, LzOnly, StopOnError, Flush, Finish, Finished,
     DestroyNone, Destroy, Joined, HashStep, HashStart, HashLockBt, HashLockHash, HashMove,
     HashTakeFree, HashSayStopped, WriteFails, vars, finderVars,
     BtStep, BtStart, BtTakeFree, BtLock, BtTake, BtPost, BtStopHash, BtHashStopped,
     BtSayStopped
<1> SUFFICES ASSUME Feeds'
             PROVE  /\ Feeds /\ Ahead("hash")' = Ahead("hash")
                    /\ UNCHANGED <<reading["hash"], bt.next, bt.limit, bt.avail>>
                    /\ pc'["bt"] \in {"filled", "lockhash"} <=> pc["bt"] \in {"filled", "lockhash"}
                    /\ pc'["bt"] = "post" => pc["bt"] = "post"
  BY <1>2 DEF HashQuiet
<1>3. CASE LzStep
  <2>1. ~CreateHash /\ ~CreateBt /\ ~InitFinder
    <3>1. ~CreateHash BY <1>1 DEF CreateHash, Create, Feeds, Runs, SyncType, Syncs
    <3>2. pc["lz"] \in LzBefore => needStart["hash"] BY DEF SyncInv, Rings, Syncs
    <3>3. ~CreateBt
      BY <1>1, <3>2 DEF CreateBt, Create, Feeds, Runs, SyncType, Syncs, LzBefore
    <3>4. ~InitFinder BY <1>1, <3>2 DEF InitFinder, Feeds, Runs, LzBefore
    <3> QED BY <3>1, <3>3, <3>4
  <2>2. pc'["bt"] = pc["bt"]
    BY <1>1, <1>3, <2>1 DEF LzStep, CreateFails, AskBlock,
         TakeBlock, LzHeader, GetMatches, Skip, StopOnError, Flush, Finish, Finished,
         DestroyNone, Destroy, Joined, Goto, PcType, Threads, syncVars
  <2>3. UNCHANGED <<needStart["hash"], stopWriting["hash"], filled["hash"], reading["hash"]>>
    BY <1>1, <1>3, <2>1 DEF LzStep, CreateFails, AskBlock,
         TakeBlock, LzHeader, GetMatches, Skip, StopOnError, Flush, Finish, Finished,
         DestroyNone, Destroy, Joined, syncVars, AskFirst, AskNext, TakeFilled, Lock,
         StopWriting, Stopped, SendExit, Join, SyncType, Syncs
  <2>4. UNCHANGED <<bt.next, bt.limit, bt.avail>>
    <3>1. BtAlone BY <1>3, OthersLeaveBt
    <3> QED BY <3>1, AloneKeeps DEF FinderInv
  <2> QED BY <2>2, <2>3, <2>4 DEF Feeds, Runs, Ahead, Held, One
<1>4. CASE HashStep
  <2>1. pc'["bt"] = pc["bt"]
    BY <1>1, <1>4 DEF HashStep, HashStart, HashLockBt, HashLockHash, HashMove,
         HashTakeFree, HashSayStopped, Goto, PcType, Threads
  <2>2. UNCHANGED <<needStart["hash"], stopWriting["hash"], filled["hash"], reading["hash"]>>
    BY <1>1, <1>4 DEF HashStep, HashStart, HashLockBt, HashLockHash, HashMove,
         HashTakeFree, HashSayStopped, Started, TakeFree, SayStopped, SyncType, Syncs
  <2>3. UNCHANGED <<bt.next, bt.limit, bt.avail>>
    <3>1. BtAlone BY <1>4, OthersLeaveBt
    <3> QED BY <3>1, AloneKeeps DEF FinderInv
  <2> QED BY <2>1, <2>2, <2>3 DEF Feeds, Runs, Ahead, Held, One
<1>5. CASE WriteFails \/ UNCHANGED vars
  BY <1>5 DEF WriteFails, vars, syncVars, finderVars, Feeds, Runs, Ahead, Held, One
<1>6. CASE BtStep
  <2>1. bt \in BtRecords BY DEF FinderInv, TreeKept, BtRecords
  <2>2. UNCHANGED <<bt.next, bt.limit, bt.avail>>
    BY <1>6, <2>1 DEF BtStep, BtStart, BtTakeFree, BtLock, BtTake, BtPost,
         BtStopHash, BtHashStopped, BtSayStopped, finderVars, BtRecords
  <2>3. CASE BtTake
    <3>1. pc["bt"] = "filled" /\ pc'["bt"] = "lockhash"
      BY <1>1, <2>3 DEF BtTake, Goto, PcType, Threads
    <3>2. /\ UNCHANGED <<needStart["hash"], stopWriting["hash"], reading["hash"]>>
          /\ filled'["hash"] = filled["hash"] - 1 /\ filled["hash"] \in Nat
      BY <1>1, <2>3 DEF BtTake, TakeFilled, SyncType, Syncs
    <3>3. ~needStart["hash"] BY <3>2 DEF Feeds, Runs
    <3>4. Ahead("hash")' = filled'["hash"] + 1 /\ Ahead("hash") = filled["hash"] + 0
      BY <3>1, <3>2, <3>3 DEF Ahead, Held, One
    <3> QED BY <2>2, <3>1, <3>2, <3>4 DEF Feeds, Runs
  <2>4. CASE ~BtTake
    <3>1. UNCHANGED <<needStart["hash"], stopWriting["hash"], reading["hash"], filled["hash"]>>
      BY <1>1, <1>6, <2>4 DEF BtStep, BtStart, BtTakeFree, BtLock, BtPost, BtStopHash,
         BtHashStopped, BtSayStopped, Started, TakeFree, Lock, Post, Release, StopWriting,
         Stopped, SayStopped, SyncType, Syncs, Feeds, Runs
    <3>2. ~needStart["hash"] BY <3>1 DEF Feeds, Runs
    <3>3. pc["bt"] \in BtWriting \union {"next", "stophash", "stopping"}
      BY <1>1, <3>2 DEF HashRuns
    <3>4. pc["bt"] # "stopping"
      BY <1>1, <1>6, <2>4, <3>2, <3>1 DEF BtStep, BtStart, BtTakeFree, BtLock, BtPost, BtStopHash,
         BtHashStopped, BtSayStopped, Started, Stopped, SyncType, Syncs
    <3>5. pc'["bt"] # "stopping" BY DEF Feeds
    <3>6. /\ pc["bt"] \notin {"filled", "lockhash"}
          /\ pc'["bt"] \notin {"filled", "lockhash", "post"}
      BY <1>1, <1>6, <2>4 DEF BtStep, BtStart, BtTakeFree, BtLock, BtPost, BtStopHash, BtMore,
         BtHashStopped, BtSayStopped, Started, Goto, PcType, Threads
    <3> QED BY <2>2, <3>1, <3>4, <3>5, <3>6 DEF Feeds, Runs, Ahead, Held, One
  <2> QED BY <2>3, <2>4
<1> QED BY <1>3, <1>4, <1>5, <1>6 DEF Next, ThreadStep

LEMMA HashSideQuiet ==
    ASSUME SyncInv, FinderInv, EofIsEnd, NEW e \in Nat, NEW f \in [Nat -> Nat], HashSide(e, f),
           [Next]_vars, ~HashFill, ~BtAsk, ~BtHeader, ~BtChunk
    PROVE  HashSide(e, f)'
<1>1. HashQuiet /\ UNCHANGED hashBuf BY QuietHash
<1>2. HashAt' = HashAt /\ Loaded' = Loaded /\ (ReadOver' <=> ReadOver) /\ BtAt' = BtAt
  BY Stays DEF HashView, ReadOver
<1>3. Unused' => e = 1 BY UnusedBefore DEF HashSide
<1> SUFFICES ASSUME Feeds' PROVE HashChain(f)' /\ Tied(e, f)' BY <1>3 DEF HashSide
<1>4. /\ Feeds /\ Ahead("hash")' = Ahead("hash")
      /\ UNCHANGED <<reading["hash"], bt.next, bt.limit, bt.avail>>
      /\ pc'["bt"] \in {"filled", "lockhash"} <=> pc["bt"] \in {"filled", "lockhash"}
      /\ pc'["bt"] = "post" => pc["bt"] = "post"
  BY <1>1 DEF HashQuiet
<1>5. HashChain(f) /\ Tied(e, f) BY <1>4 DEF HashSide
<1>6. HashChain(f)'
  <2>1. /\ NumBlocks["hash"] \in Nat \ {0} /\ reading["hash"] \in 0..(NumBlocks["hash"] - 1)
        /\ Ahead("hash") \in 0..NumBlocks["hash"]
    BY <1>4, RingOf DEF Feeds, Syncs
  <2>2. OffChain(Ahead("hash"), reading["hash"], NumBlocks["hash"], HashLens, HashOks,
                 HashLens', HashOks')
    BY <1>1, HashOff
  <2>3. HashBlockSize \in Nat BY FinderParams
  <2>4. Linked(f, Ahead("hash"), reading["hash"], NumBlocks["hash"], HashLens', HashOks',
               HashBlockSize)
    BY <1>5, <2>1, <2>2, <2>3, LinkedSame DEF HashChain
  <2> QED BY <1>2, <1>4, <1>5, <2>4 DEF HashChain
<1>7. Tied(e, f)' BY <1>1, <1>2, <1>4, <1>5 DEF Tied, HeadsDone
<1> QED BY <1>6, <1>7

LEMMA HashSideFill ==
    ASSUME SyncInv, FinderInv, EofIsEnd, HighRight, [Next]_vars, HashFill,
           NEW e \in Nat, NEW f \in [Nat -> Nat], HashSide(e, f)
    PROVE  \E f2 \in [Nat -> Nat] : HashSide(e, f2)'
<1> DEFINE h == hashBuf'[block["hash"]]
           n == Ahead("hash")
           r == reading["hash"]
           size == NumBlocks["hash"]
<1>1. SyncType /\ PcType /\ HashRuns /\ pc["hash"] = "fill" /\ HashesKept /\ TreeKept
  BY DEF SyncInv, Control, HashFill, FinderInv
<1>2. ~Unused' BY UnusedBefore
<1>3. CASE ~Feeds'
  <2>1. HashSide(e, f)' BY <1>2, <1>3 DEF HashSide
  <2> QED BY <2>1
<1>4. CASE Feeds'
  <2>1. /\ UNCHANGED <<needStart, stopWriting, reading, bt>> /\ pc'["bt"] = pc["bt"]
        /\ block' = [block EXCEPT !["hash"] = NextOf("hash", @)]
        /\ filled' = Release(filled, "hash")
    BY <1>1 DEF HashFill, Goto, Post, PcType, Threads
  <2>2. Feeds BY <1>4, <2>1 DEF Feeds, Runs
  <2>3. HashChain(f) /\ Tied(e, f) BY <2>2 DEF HashSide
  <2>4. /\ size \in Nat \ {0} /\ r \in 0..(size - 1) /\ n \in 0..(size - 1)
        /\ block["hash"] = Slot(r, n, size) /\ (Held("hash") => n >= 1)
    <3>1. Runs("hash") /\ "hash" \in Syncs /\ Writing("hash")
      BY <1>1, <2>2 DEF Feeds, Syncs, Writing
    <3>2. /\ NumBlocks["hash"] \in Nat \ {0} /\ reading["hash"] \in 0..(NumBlocks["hash"] - 1)
          /\ Ahead("hash") \in 0..NumBlocks["hash"] /\ Ahead("hash") < NumBlocks["hash"]
          /\ Held("hash") => Ahead("hash") \in 1..NumBlocks["hash"]
          /\ block["hash"] = Slot(reading["hash"], Ahead("hash"), NumBlocks["hash"])
      BY <3>1, RingOf
    <3> QED BY <3>2
  <2>5. Ahead("hash")' = n + 1
    <3>1. filled["hash"] < size
      <4>1. filled["hash"] \in Nat /\ One(Held("hash")) \in {0, 1}
        BY <1>1, RingNumbers DEF Syncs
      <4> QED BY <2>4, <4>1 DEF Ahead
    <3>2. filled'["hash"] = filled["hash"] + 1 BY <1>1, <2>1, <3>1 DEF Release, SyncType, Syncs
    <3>3. One(Held("hash"))' = One(Held("hash")) BY <2>1 DEF One, Held
    <3>4. filled["hash"] \in Nat /\ One(Held("hash")) \in {0, 1}
      BY <1>1, RingNumbers DEF Syncs
    <3> QED BY <3>2, <3>3, <3>4 DEF Ahead
  <2>6. /\ h \in [avail : Nat, heads : Seq(Int)]
        /\ hashBuf' = [hashBuf EXCEPT ![block["hash"]] = h]
        /\ HashBlockRight(h, HashAt, Loaded', ReadOver')
        /\ HashAt' = HashAt + Span(h) /\ Span(h) \in 0..HashBlockSize
    BY FillRight
  <2>7. BtAt' = BtAt
    <3>1. ~BtChunk
      BY <1>1 DEF HashFill, BtChunk, syncVars, Goto, PcType, Threads
    <3> QED BY <3>1, Stays
  <2>8. /\ Loaded \in Nat /\ Loaded' \in Nat /\ Loaded <= Loaded'
        /\ ReadOver => ReadOver' /\ Loaded' = Loaded
    BY Later
  <2>9. DOMAIN hashBuf' = 0..(size - 1) /\ block["hash"] \in 0..(size - 1)
        /\ \A b \in 0..(size - 1) : b # block["hash"] => hashBuf'[b] = hashBuf[b]
    <3>1. DOMAIN hashBuf = 0..(size - 1) BY <1>1 DEF HashesKept
    <3>2. block["hash"] \in 0..(size - 1) BY <1>1 DEF SyncType, Syncs
    <3> HIDE DEF h
    <3> QED BY <2>6, <3>1, <3>2
  <2>10. OffChain(n, r, size, HashLens, HashOks, HashLens', HashOks')
    <3>1. n < size BY <2>4
    <3>2. ASSUME NEW b \in 0..(size - 1)
          PROVE  (n < size /\ b = Slot(r, n, size)) \/ hashBuf'[b] = hashBuf[b]
      <4>1. CASE b = block["hash"] BY <2>4, <3>1, <4>1
      <4>2. CASE b # block["hash"] BY <2>9, <4>2
      <4> QED BY <4>1, <4>2
    <3> QED BY <3>2, HashOff
  <2>11. f[n] = HashAt /\ Linked(f, n, r, size, HashLens, HashOks, HashBlockSize)
    BY <2>3 DEF HashChain
  <2>12. HashLens'[block["hash"]] = Span(h) BY <2>9 DEF HashLens, Span
  <2>13. <<block["hash"], f[n]>> \in HashOks'
    <3>1. HashAt \in Nat BY Places DEF Placed
    <3>2. HashBlockRight(hashBuf'[block["hash"]], HashAt, Loaded', ReadOver') BY <2>6
    <3> QED BY <2>9, <2>11, <3>1, <3>2 DEF HashOks, HashBlockRight
  <2>14. HashBlockSize \in Nat BY FinderParams
  <2> HIDE DEF h, n, r, size
  <2>15. PICK f2 \in [Nat -> Nat] :
            /\ Linked(f2, n + 1, r, size, HashLens', HashOks', HashBlockSize)
            /\ f2[n + 1] = f[n] + HashLens'[block["hash"]] /\ \A k \in 0..n : f2[k] = f[k]
    <3>1. MayPost(f, n, r, size, HashLens, HashOks, HashLens', HashOks', HashBlockSize)
      BY <2>4, <2>6, <2>10, <2>11, <2>12, <2>13, <2>14 DEF MayPost
    <3>2. Posted(f, n, r, size, HashLens', HashOks', HashBlockSize) BY <3>1, LinkedPost
    <3> QED BY <2>4, <3>2 DEF Posted
  <2>16. HashChain(f2)'
    <3>1. f2[n + 1] = HashAt' BY <2>6, <2>11, <2>12, <2>15
    <3> QED BY <2>1, <2>5, <2>15, <3>1 DEF HashChain, r, size
  <2>17. Tied(e, f2)'
    <3>1. f2[0] = f[0] BY <2>4, <2>15
    <3>2. Held("hash") => f2[1] = f[1] BY <2>4, <2>15 DEF n
    <3>3. pc["bt"] \notin {"filled", "lockhash"} => Held("hash") BY <2>2 DEF Feeds, Runs, Held
    <3>4. ~HeadsDone => pc["bt"] \notin {"filled", "lockhash"} BY <1>1 DEF TreeKept
    <3>5. ~HeadsDone => hashBuf'[reading["hash"]] = hashBuf[reading["hash"]]
      <4> SUFFICES ASSUME ~HeadsDone
                   PROVE  hashBuf'[reading["hash"]] = hashBuf[reading["hash"]]
        OBVIOUS
      <4>1. n >= 1 BY <2>4, <3>3, <3>4
      <4>2. r # Slot(r, n, size) BY <2>4, <4>1 DEF Slot
      <4> QED BY <2>4, <2>9, <4>2 DEF r
    <3>6. HeadsDone' <=> HeadsDone BY <2>1 DEF HeadsDone
    <3>7. e + bt.avail <= Loaded' 
      <4>1. bt.avail \in Nat BY <1>1 DEF TreeKept
      <4> QED BY <2>3, <2>8, <4>1 DEF Tied
    <3>8. pc["bt"] \in {"filled", "lockhash"} \/ ~HeadsDone \/ e = f2[1] BY <2>3, <3>2, <3>3 DEF Tied
    <3> QED BY <2>1, <2>3, <2>7, <2>8, <3>1, <3>5, <3>6, <3>7, <3>8, <3>4 DEF Tied
  <2>18. HashSide(e, f2)' BY <1>2, <2>16, <2>17 DEF HashSide
  <2> QED BY <2>15, <2>18
<1> QED BY <1>3, <1>4

LEMMA HashSideAsk ==
    ASSUME SyncInv, FinderInv, EofIsEnd, StartsAtOne, [Next]_vars, BtAsk,
           NEW e \in Nat, NEW f \in [Nat -> Nat], HashSide(e, f)
    PROVE  \E f2 \in [Nat -> Nat] : HashSide(e, f2)'
<1>1. /\ SyncType /\ PcType /\ HashRuns /\ TreeKept /\ Control /\ BtRuns
      /\ pc["bt"] = "fill" /\ HeadsDone /\ pc'["bt"] = "filled" /\ pc'["hash"] = pc["hash"]
      /\ pc'["lz"] = pc["lz"]
  BY DEF SyncInv, Control, FinderInv, BtAsk, BtMore, Goto, PcType, Threads
<1>2. Unused' => e = 1 BY UnusedBefore DEF HashSide
<1>3. UNCHANGED hashBuf /\ HashAt' = HashAt /\ BtAt' = BtAt /\ Loaded' = Loaded
      /\ (ReadOver' <=> ReadOver) /\ bt' = bt
  <2>1. ~HashFill /\ ~BtChunk
    BY <1>1 DEF BtAsk, HashFill, BtChunk, Goto, PcType, Threads, syncVars
  <2> QED BY <2>1, Stays DEF HashView, ReadOver, BtAsk, finderVars
<1>4. HeadsDone' BY <1>1, <1>3 DEF HeadsDone
<1>5. Ahead("hash")' = filled'["hash"]
  BY <1>1, SyncTyped, SMTT(30) DEF Ahead, Held, One, BtAsk, Syncs, AskFirst, AskNext, SyncType
<1>6. /\ HashAt \in Nat \ {0} /\ Loaded \in Nat /\ HashAt <= Loaded /\ BtAt \in Int
      /\ bt.avail \in Nat
  BY <1>1, Places DEF Placed, TreeKept
<1>7. CASE AskFirst("hash")
  <2>1. needStart["hash"] BY <1>7 DEF AskFirst
  <2>2. HashFresh BY <1>1, <2>1 DEF HashFresh
  <2>3. pc["lz"] \notin LzBefore
    BY <1>1, BtAwake DEF LzBefore, LzCoding
  <2>4. Untouched("hash") BY <2>2, <2>3 DEF SyncInv, Rings
  <2>5. Unused BY <2>2 DEF Unused
  <2>6. HashAt = 1 /\ BtAt = 1 /\ bt.avail = 0 /\ e = 1 BY <2>5 DEF StartsAtOne, HashSide
  <2> DEFINE f2 == [k \in Nat |-> 1]
  <2>7. f2 \in [Nat -> Nat] /\ f2[0] = 1 OBVIOUS
  <2> HIDE DEF f2
  <2>8. Ahead("hash")' = 0 BY <1>5, <1>7, <2>4 DEF AskFirst, Untouched
  <2>9. ASSUME NEW r, NEW size, NEW len, NEW ok, NEW cap \in Nat
        PROVE  Linked(f2, 0, r, size, len, ok, cap)
    <3>1. (0 - 0) * cap = 0 OBVIOUS
    <3>2. \A k \in 0..0 : k = 0 OBVIOUS
    <3>3. 0..(0 - 1) = {} OBVIOUS
    <3> QED BY <2>7, <3>1, <3>2, <3>3 DEF Linked
  <2>10. HashBlockSize \in Nat BY FinderParams
  <2>11. HashChain(f2)' BY <1>3, <2>6, <2>7, <2>8, <2>9, <2>10 DEF HashChain
  <2>12. Tied(e, f2)' BY <1>1, <1>3, <1>4, <1>6, <2>6, <2>7 DEF Tied
  <2> QED BY <1>2, <2>7, <2>11, <2>12 DEF HashSide
<1>8. CASE AskNext("hash")
  <2> DEFINE n == Ahead("hash")
             r == reading["hash"]
             size == NumBlocks["hash"]
  <2>1. ~needStart["hash"] BY <1>8 DEF AskNext
  <2>2. ~stopWriting["hash"] BY <1>1 DEF HashRuns
  <2>3. Runs("hash") /\ Held("hash") /\ Feeds BY <1>1, <2>1, <2>2 DEF Runs, Held, Feeds
  <2>4. /\ size \in Nat \ {0} /\ r \in 0..(size - 1) /\ n \in 1..size
        /\ numProcessed["hash"] = Slot(r, 1, size)
    BY <2>3, RingOf DEF Syncs
  <2>5. HashChain(f) /\ Tied(e, f) BY <2>3 DEF HashSide
  <2>6. f[n] = HashAt /\ Linked(f, n, r, size, HashLens, HashOks, HashBlockSize)
    BY <2>5 DEF HashChain
  <2>7. n = filled["hash"] + 1 /\ filled["hash"] \in Nat /\ filled'["hash"] = filled["hash"]
    BY <1>1, <1>8, <2>3 DEF Ahead, One, AskNext, SyncType, Syncs
  <2>8. Ahead("hash")' = n - 1 BY <1>5, <2>7
  <2>9. reading'["hash"] = Slot(r, 1, size)
    BY <1>1, <1>8, <2>4 DEF AskNext, SyncType, Syncs
  <2>10. HashBlockSize \in Nat BY FinderParams
  <2>11. OffChain(n - 1, Slot(r, 1, size), size, HashLens, HashOks, HashLens', HashOks')
    BY <1>3, HashOff
  <2> HIDE DEF n, r, size
  <2>12. PICK f2 \in [Nat -> Nat] :
            /\ Linked(f2, n - 1, Slot(r, 1, size), size, HashLens, HashOks, HashBlockSize)
            /\ \A k \in 0..(n - 1) : f2[k] = f[k + 1]
    <3>1. MayGive(f, n, r, size, HashLens, HashOks, HashBlockSize)
      BY <2>4, <2>6, <2>10 DEF MayGive
    <3>2. Given(f, n, r, size, HashLens, HashOks, HashBlockSize) BY <3>1, LinkedGive
    <3> QED BY <3>2 DEF Given
  <2>13. n - 1 \in 0..(n - 1) /\ 0 \in 0..(n - 1) /\ (n - 1) + 1 = n /\ 0 + 1 = 1 BY <2>4
  <2>14. f2[n - 1] = f[n] /\ f2[0] = f[1] BY <2>12, <2>13
  <2>15. HashChain(f2)'
    <3>1. f2[Ahead("hash")'] = HashAt' BY <1>3, <2>6, <2>8, <2>14
    <3>2. n - 1 \in 0..size /\ Slot(r, 1, size) \in 0..(size - 1) BY <2>4 DEF Slot
    <3>3. Linked(f2, n - 1, Slot(r, 1, size), size, HashLens', HashOks', HashBlockSize)
      BY <2>4, <2>10, <2>11, <2>12, <3>2, LinkedSame
    <3> QED BY <2>8, <2>9, <3>1, <3>3 DEF HashChain, size
  <2>16. Tied(e, f2)'
    <3>1. e = f[1] BY <1>1, <2>5 DEF Tied
    <3> QED BY <1>1, <1>3, <1>4, <2>5, <2>14, <3>1 DEF Tied
  <2>17. HashSide(e, f2)' BY <1>2, <2>15, <2>16 DEF HashSide
  <2> QED BY <2>12, <2>17
<1> QED BY <1>7, <1>8 DEF BtAsk

\* The heads of a block are the tree thread's.
LEMMA HashSideHeader ==
    ASSUME SyncInv, FinderInv, EofIsEnd, [Next]_vars, BtHeader,
           NEW e \in Nat, NEW f \in [Nat -> Nat], HashSide(e, f)
    PROVE  LET h == hashBuf[reading["hash"]]
               last == h.avail < NumHashBytes
           IN  /\ \E e2 \in Nat : HashSide(e2, f)' /\ e2 = IF last THEN e + h.avail ELSE e
               /\ h.avail \in Nat
               /\ h.avail # 0 => BtAt = e
               /\ last => ReadOver /\ e + h.avail = Loaded
<1> DEFINE h == hashBuf[reading["hash"]]
           last == h.avail < NumHashBytes
           n == Ahead("hash")
           r == reading["hash"]
           size == NumBlocks["hash"]
<1>1. /\ SyncType /\ PcType /\ HashRuns /\ HashesKept /\ pc["bt"] = "lockhash"
      /\ pc'["bt"] = IF last THEN "post" ELSE "fill"
  BY DEF SyncInv, Control, BtHeader, FinderInv, Goto, PcType, Threads
<1>2. /\ bt \in BtRecords /\ bt.next <= bt.limit + 1 /\ HeadsDone
  BY <1>1 DEF FinderInv, TreeKept, BtRecords
<1>3. ~needStart["hash"] /\ ~stopWriting["hash"] BY <1>1 DEF HashRuns
<1>4. Runs("hash") /\ Held("hash") /\ Feeds BY <1>1, <1>3 DEF Runs, Held, Feeds
<1>5. /\ size \in Nat \ {0} /\ r \in 0..(size - 1) /\ n \in 1..size
  BY <1>4, RingOf DEF Syncs
<1>6. HashChain(f) /\ Tied(e, f) BY <1>4 DEF HashSide
<1>7. Linked(f, n, r, size, HashLens, HashOks, HashBlockSize) BY <1>6 DEF HashChain
<1>8. /\ UNCHANGED <<hashBuf, needStart, stopWriting, reading, filled, mf, base>>
      /\ bt'.next = 1 /\ bt'.limit = Len(h.heads) /\ bt'.buffer = bt.buffer
      /\ bt'.avail = IF last THEN 0 ELSE h.avail
  BY <1>2 DEF BtHeader, Lock, BtRecords
<1>9. h \in [avail : Nat, heads : Seq(Int)]
      /\ Len(h.heads) = IF h.avail < NumHashBytes THEN 0
                        ELSE Least(h.avail - NumHashBytes + 1, HashBlockSize - 2)
  BY <1>1, <1>5 DEF HashesKept
<1>10. f[1] = f[0] + Span(h) /\ HashBlockRight(h, f[0], Loaded, ReadOver)
  <2>1. 0 \in 0..(n - 1) /\ Slot(r, 0, size) = r BY <1>5 DEF Slot
  <2>2. f[0 + 1] = f[0] + HashLens[r] /\ <<r, f[0]>> \in HashOks BY <1>7, <2>1 DEF Linked
  <2>3. r \in DOMAIN hashBuf BY <2>2 DEF HashOks
  <2> QED BY <2>2, <2>3 DEF HashLens, HashOks
<1> HIDE DEF h, n, size
<1>11. e = f[0] /\ f[0] \in Nat /\ h.avail \in Nat
  BY <1>1, <1>6, <1>9 DEF Tied
<1>22. PICK e2 \in Nat : e2 = IF last THEN e + h.avail ELSE e
  <2> DEFINE x == IF last THEN e + h.avail ELSE e
  <2>1. x \in Nat BY <1>11
  <2> QED BY <2>1
<1>12. /\ BtAt <= e /\ (BtAt = e \/ (ReadOver /\ e = Loaded))
  BY <1>6 DEF Tied
<1>13. Loaded \in Nat /\ BtAt \in Int /\ KeepAfter \in Nat /\ KeepAfter >= 4 /\ NumHashBytes = 4
       /\ HashBlockSize \in Nat /\ HashBlockSize > 2
  BY Places, Sizes, FinderParams DEF Placed
<1>14. e + h.avail <= Loaded /\ (last => ReadOver /\ e + h.avail = Loaded)
  BY <1>10, <1>11, <1>13 DEF HashBlockRight
<1>15. h.avail # 0 => BtAt = e BY <1>11, <1>12, <1>13, <1>14
<1>16. BtAt' = BtAt /\ Loaded' = Loaded /\ HashAt' = HashAt /\ (ReadOver' <=> ReadOver)
  BY <1>8 DEF BtAt, Loaded, HashAt, ReadOver
<1>17. HeadsDone' <=> last
  <2>1. Len(h.heads) \in Nat BY <1>9
  <2> QED BY <1>8, <1>9, <1>13, <2>1 DEF HeadsDone, Least
<1>18. HashChain(f)'
  <2>1. Ahead("hash")' = Ahead("hash") BY <1>1, <1>8 DEF Ahead, Held, One
  <2>2. OffChain(n, r, size, HashLens, HashOks, HashLens', HashOks')
    BY <1>8, HashOff DEF size
  <2>3. n \in 0..size BY <1>5
  <2>4. Linked(f, n, r, size, HashLens', HashOks', HashBlockSize)
    BY <1>5, <1>7, <1>13, <2>2, <2>3, LinkedSame
  <2> QED BY <1>6, <1>8, <1>16, <2>1, <2>4 DEF HashChain, n, size
<1>19. Tied(e2, f)'
  <2>1. CASE last
    <3>1. Span(h) = h.avail BY <2>1 DEF Span
    <3>2. e2 = f[1] /\ e2 = Loaded BY <1>10, <1>11, <1>14, <1>22, <2>1, <3>1
    <3>3. BtAt <= e2 BY <1>11, <1>12, <1>13, <1>22, <2>1
    <3>4. e2 + bt'.avail <= Loaded BY <1>8, <1>13, <2>1, <3>2
    <3>5. pc'["bt"] = "post" BY <1>1, <2>1 DEF h
    <3>6. ReadOver' /\ HeadsDone' BY <1>14, <1>16, <1>17, <2>1
    <3> HIDE DEF last
    <3> QED BY <1>16, <3>2, <3>3, <3>4, <3>5, <3>6 DEF Tied
  <2>2. CASE ~last
    <3>1. h.avail # 0 BY <1>11, <1>13, <2>2
    <3>2. BtAt = e /\ e2 = e BY <1>15, <1>22, <2>2, <3>1
    <3>3. BtAt = f[0] + bt'.next - 1 /\ bt'.avail = hashBuf[reading["hash"]].avail - (bt'.next - 1)
      <4>1. bt'.next = 1 /\ bt'.avail = h.avail BY <1>8, <2>2
      <4>2. f[0] = f[0] + 1 - 1 /\ h.avail = h.avail - (1 - 1) BY <1>11
      <4> QED BY <1>11, <3>2, <4>1, <4>2 DEF h
    <3>4. e2 + bt'.avail <= Loaded BY <1>8, <1>14, <2>2, <3>2
    <3>5. pc'["bt"] = "fill" BY <1>1, <2>2 DEF h
    <3> HIDE DEF last
    <3>6. BtAt <= e2 BY <1>13, <3>2
    <3>7. ~HeadsDone' BY <1>17, <2>2
    <3>8. /\ e2 = BtAt' /\ BtAt' <= e2
          /\ BtAt' = f[0] + bt'.next - 1
          /\ bt'.avail = hashBuf'[reading'["hash"]].avail - (bt'.next - 1)
          /\ e2 + bt'.avail <= Loaded'
      BY <1>8, <1>16, <3>2, <3>3, <3>4, <3>6
    <3> QED BY <3>5, <3>7, <3>8 DEF Tied
  <2> QED BY <2>1, <2>2
<1>20. ~Unused'
  BY <1>1, <1>8 DEF Unused, HashFresh, HashRuns, BtHeader, Lock
<1>21. HashSide(e2, f)' BY <1>18, <1>19, <1>20 DEF HashSide
<1> QED BY <1>11, <1>14, <1>15, <1>21, <1>22 DEF h

\* The tree thread's positions and their heads.
LEMMA ChunkHeads ==
    ASSUME SyncInv, FinderInv, TreeRight, BtChunk,
           NEW e \in Nat, NEW f \in [Nat -> Nat], HashSide(e, f)
    PROVE  /\ Feeds /\ Held("hash") /\ e = BtAt /\ BtAt \in Nat \ {0}
           /\ BtAt = f[0] + bt.next - 1 /\ bt.limit = Len(Heads)
           /\ Span(hashBuf[reading["hash"]]) = bt.limit
           /\ f[1] = f[0] + bt.limit /\ f[1] <= HashAt
           /\ LenLimit < MatchMaxLen => Size = 1 /\ ReadOver /\ BtAt + LenLimit = Loaded
           /\ \A i \in 1..Size : /\ HeadRight(BtAt + i - 1, Heads[bt.next + i - 1])
                                 /\ BtAt + i - 1 + LenLimit <= Loaded
<1> DEFINE h == hashBuf[reading["hash"]]
           n == Ahead("hash")
           r == reading["hash"]
           size == NumBlocks["hash"]
<1>1. /\ SyncType /\ HashRuns /\ HashesKept /\ pc["bt"] = "fill" /\ ~HeadsDone /\ HeadsKept
      /\ TreeKept
  BY DEF SyncInv, Control, BtChunk, BtMore, FinderInv
<1>2. /\ bt \in BtRecords /\ ~needStart["hash"] /\ bt.limit = Len(Heads)
      /\ bt.avail >= bt.limit - bt.next + NumHashBytes
  BY <1>1 DEF TreeKept, HeadsKept, BtRecords
<1>3. ~stopWriting["hash"] BY <1>1 DEF HashRuns
<1>4. Runs("hash") /\ Held("hash") /\ Feeds BY <1>1, <1>2, <1>3 DEF Runs, Held, Feeds
<1>5. /\ size \in Nat \ {0} /\ r \in 0..(size - 1) /\ n \in 1..size
  BY <1>4, RingOf DEF Syncs
<1>6. HashChain(f) /\ Tied(e, f) BY <1>4 DEF HashSide
<1>7. f[n] = HashAt /\ Linked(f, n, r, size, HashLens, HashOks, HashBlockSize)
  BY <1>6 DEF HashChain
<1>8. h \in [avail : Nat, heads : Seq(Int)] /\ (h.avail < NumHashBytes => Len(h.heads) = 0)
  BY <1>1, <1>5 DEF HashesKept
<1>9. f[1] = f[0] + Span(h) /\ HashBlockRight(h, f[0], Loaded, ReadOver) /\ f[1] <= HashAt
  <2>1. 0 \in 0..(n - 1) /\ Slot(r, 0, size) = r /\ 1 \in 0..n BY <1>5 DEF Slot
  <2>2. f[0 + 1] = f[0] + HashLens[r] /\ <<r, f[0]>> \in HashOks BY <1>7, <2>1 DEF Linked
  <2>3. r \in DOMAIN hashBuf BY <2>2 DEF HashOks
  <2>4. f[1] <= f[n] BY <1>7, <2>1 DEF Linked
  <2> QED BY <1>7, <2>2, <2>3, <2>4 DEF HashLens, HashOks
<1>10. /\ e = BtAt /\ BtAt = f[0] + bt.next - 1 /\ bt.avail = h.avail - (bt.next - 1)
       /\ e + bt.avail <= Loaded
  BY <1>1, <1>6 DEF Tied
<1>11. Heads = h.heads BY DEF Heads
<1>12. /\ Size \in 1..(bt.limit - bt.next + 1) /\ Size + LenLimit <= bt.avail + 1
       /\ LenLimit \in NumHashBytes..MatchMaxLen
  BY <1>1, SizeIs
<1> HIDE DEF h, n, size, r
<1>13. /\ bt.next \in Nat \ {0} /\ bt.limit \in 0..HashBlockSize /\ bt.avail \in Nat
       /\ f[0] \in Nat /\ Loaded \in Nat /\ HashBlockSize \in Nat /\ MatchMaxLen \in Nat
       /\ KeepAfter \in Nat /\ KeepAfter >= HashBlockSize + MatchMaxLen
       /\ bt.next <= bt.limit /\ h.avail \in Nat /\ NumHashBytes = 4
       /\ f[1] \in Nat /\ HashAt \in Nat \ {0} /\ HashAt <= Loaded
  <2>1. /\ HashBlockSize \in Nat /\ MatchMaxLen \in Nat /\ NumHashBytes = 4
        /\ KeepAfter \in Nat /\ KeepAfter >= HashBlockSize + MatchMaxLen
    BY Sizes, FinderParams
  <2>2. Loaded \in Nat /\ HashAt \in Nat \ {0} /\ HashAt <= Loaded BY Places DEF Placed
  <2>3. bt.next \in Nat \ {0} /\ bt.limit \in 0..HashBlockSize /\ bt.avail \in Nat
    BY <1>2 DEF BtRecords
  <2>4. bt.next <= bt.limit BY <1>1, <2>1, <2>3 DEF HeadsDone
  <2>5. h.avail \in Nat BY <1>8
  <2> QED BY <2>1, <2>2, <2>3, <2>4, <2>5
<1>14. Span(h) = bt.limit
  <2>3. bt.limit # 0 BY <1>13
  <2>1. Len(h.heads) # 0 BY <1>2, <1>11, <2>3
  <2>2. ~(h.avail < NumHashBytes) BY <1>8, <2>1
  <2> QED BY <1>2, <1>11, <2>2 DEF Span
<1>15. BtAt \in Nat \ {0}
  <2>1. bt.pos <= BtAt BY DEF TreeRight
  <2>2. bt.pos \in 1..MaxVal BY <1>2 DEF BtRecords
  <2> QED BY <1>10, <1>13, <2>1, <2>2
<1>16. ASSUME LenLimit < MatchMaxLen
       PROVE  Size = 1 /\ ReadOver /\ BtAt + LenLimit = Loaded
  <2>1. LenLimit = bt.avail BY <1>13, <1>16 DEF LenLimit, Least
  <2>2. Size = 1 BY <1>12, <1>13, <2>1
  <2>3. h.avail <= KeepAfter BY <1>10, <1>13, <1>16, <2>1
  <2>4. h.avail > KeepAfter \/ (ReadOver /\ f[0] + h.avail = Loaded)
    BY <1>9 DEF HashBlockRight
  <2>5. ReadOver /\ f[0] + h.avail = Loaded BY <1>13, <2>3, <2>4
  <2> QED BY <1>10, <1>13, <2>1, <2>2, <2>5
<1>17. ASSUME NEW i \in 1..Size
       PROVE  /\ HeadRight(BtAt + i - 1, Heads[bt.next + i - 1])
              /\ BtAt + i - 1 + LenLimit <= Loaded
  <2>1. /\ i \in Nat /\ i <= Size /\ Size \in Nat /\ LenLimit \in Nat BY <1>12, <1>13
  <2>6. bt.next + i - 1 \in 1..bt.limit
    <3>1. Size <= bt.limit - bt.next + 1 BY <1>12, <1>13
    <3> QED BY <1>13, <2>1, <3>1
  <2>2. bt.next + i - 1 \in 1..Len(h.heads) BY <1>2, <1>11, <2>6
  <2>3. HeadRight(f[0] + (bt.next + i - 1) - 1, h.heads[bt.next + i - 1])
    BY <1>9, <2>2 DEF HashBlockRight
  <2>4. f[0] + (bt.next + i - 1) - 1 = BtAt + i - 1 BY <1>10, <1>13, <2>1
  <2>5. BtAt + i - 1 + LenLimit <= Loaded BY <1>10, <1>12, <1>13, <1>15, <2>1
  <2> QED BY <1>11, <2>3, <2>4, <2>5
<1> QED BY <1>2, <1>4, <1>9, <1>10, <1>14, <1>15, <1>16, <1>17 DEF h, r

\* What the tree thread writes is right, and its search never fails.
LEMMA ChunkRight ==
    ASSUME SyncInv, FinderInv, TreeRight, BtChunk,
           NEW e \in Nat, NEW f \in [Nat -> Nat], HashSide(e, f)
    PROVE  \E done \in 1..Size, new \in Seq(Records) :
              /\ btBuf' = [btBuf EXCEPT ![block["bt"]].recs = @ \o new]
              /\ Len(new) = done /\ RecsRight(new, BtAt, Loaded, ReadOver)
              /\ BtAt' = BtAt + done /\ TreeRight' /\ bt'.cur > 2
              /\ bt'.num = bt.num + done /\ bt'.avail = bt.avail - done
              /\ bt'.next = bt.next + done /\ bt'.limit = bt.limit
<1>1. /\ bt \in BtRecords /\ pc["bt"] = "fill" /\ ~HeadsDone /\ Room
  BY DEF FinderInv, TreeKept, BtRecords, BtChunk, BtMore, SyncInv
<1>2. /\ e = BtAt /\ BtAt \in Nat \ {0} /\ bt.limit = Len(Heads)
      /\ LenLimit < MatchMaxLen => Size = 1 /\ ReadOver /\ BtAt + LenLimit = Loaded
      /\ \A i \in 1..Size : /\ HeadRight(BtAt + i - 1, Heads[bt.next + i - 1])
                            /\ BtAt + i - 1 + LenLimit <= Loaded
  BY ChunkHeads
<1>3. /\ Size \in 1..(bt.limit - bt.next + 1)
      /\ LenLimit \in NumHashBytes..MatchMaxLen /\ ChunkPos \in 1..MaxVal
  BY <1>1, SizeIs
<1>4. /\ bt.next \in Nat \ {0} /\ bt.limit \in 0..HashBlockSize /\ bt.pos \in 1..MaxVal
      /\ MaxVal \in Nat /\ HashBlockSize \in Nat /\ HistorySize \in Nat \ {0}
      /\ MaxVal > CyclicSize + HashBlockSize /\ CyclicSize = HistorySize + 1
      /\ MatchMaxLen \in Nat /\ NumHashBytes = 4 /\ Size \in Nat \ {0} /\ Size <= HashBlockSize
  <2>1. bt.next \in Nat \ {0} /\ bt.limit \in 0..HashBlockSize /\ bt.pos \in 1..MaxVal
    BY <1>1 DEF BtRecords
  <2>2. /\ MaxVal \in Nat /\ HashBlockSize \in Nat /\ HistorySize \in Nat \ {0}
        /\ MaxVal > CyclicSize + HashBlockSize /\ CyclicSize = HistorySize + 1
        /\ MatchMaxLen \in Nat /\ NumHashBytes = 4
    BY FinderParams DEF CyclicSize
  <2>3. Size \in Nat \ {0} /\ Size <= HashBlockSize BY <1>3, <2>1, <2>2
  <2> QED BY <2>1, <2>2, <2>3
<1>5. ChunkPos <= BtAt /\ (ChunkPos = BtAt \/ ChunkPos >= CyclicSize)
  <2>1. bt.pos <= BtAt /\ (bt.pos = BtAt \/ bt.pos >= CyclicSize) BY DEF TreeRight
  <2>4. BtAt \in Nat \ {0} BY <1>2
  <2>2. CASE bt.pos > MaxVal - Size
    <3>1. ChunkPos = bt.pos - (bt.pos - CyclicSize) BY <2>2 DEF ChunkPos, BtNormalSub
    <3>2. ChunkPos = CyclicSize BY <1>4, <3>1
    <3> QED BY <1>4, <2>1, <2>2, <2>4, <3>2
  <2>3. CASE ~(bt.pos > MaxVal - Size)
    <3>1. ChunkPos = bt.pos BY <1>4, <2>3 DEF ChunkPos, BtNormalSub
    <3> QED BY <2>1, <3>1
  <2> QED BY <2>2, <2>3
<1>6. ASSUME NEW i \in 1..Size
      PROVE  /\ ~Impossible(ChunkPos + i - 1, Heads[bt.next + i - 1])
             /\ ChunkRecord(i) \in Records
             /\ RecordRight(ChunkRecord(i), BtAt + i - 1, Loaded, ReadOver)
  <2> DEFINE a == BtAt + i - 1
             pos == ChunkPos + i - 1
             d == Heads[bt.next + i - 1]
             most == LenLimit
  <2>1. a \in Nat \ {0} /\ pos \in 1..a /\ (pos = a \/ pos >= CyclicSize) /\ most \in Nat
        /\ most \in 0..MatchMaxLen
    <3>3. BtAt \in Nat \ {0} BY <1>2
    <3>4. ChunkPos \in Nat \ {0} BY <1>3, <1>4
    <3>1. BtAt \in Nat \ {0} /\ i \in Nat \ {0} /\ ChunkPos \in Nat \ {0} BY <1>4, <3>3, <3>4
    <3>2. most \in 0..MatchMaxLen /\ most \in Nat BY <1>3, <1>4
    <3> QED BY <1>4, <1>5, <3>1, <3>2
  <2>2. HeadRight(a, d) /\ a + most <= Loaded BY <1>2
  <2>3. d \in Int
    <3>1. d \in 1..a BY <2>2 DEF HeadRight
    <3> HIDE DEF d, a
    <3> QED BY <2>1, <3>1
  <2>4. most = MatchMaxLen \/ (ReadOver /\ a + most = Loaded)
    <3>1. CASE most < MatchMaxLen
      <4>1. Size = 1 /\ ReadOver /\ BtAt + LenLimit = Loaded BY <1>2, <3>1
      <4>2. i = 1 BY <4>1
      <4> QED BY <1>2, <4>1, <4>2
    <3>2. CASE ~(most < MatchMaxLen) BY <1>3, <1>4, <3>2
    <3> QED BY <3>1, <3>2
  <2>5. ChunkRecord(i) = Record(a, pos, d, most) BY DEF ChunkRecord
  <2> HIDE DEF a, pos, d, most
  <2>6. /\ Record(a, pos, d, most) = [at |-> a, pairs |-> ExpectedIn(a, most)]
        /\ ~Impossible(pos, d)
    BY <2>1, <2>2, <2>3, RecordIs
  <2>7. Record(a, pos, d, most) \in Records
    <3>1. a \in Int BY <2>1
    <3> QED BY <2>1, <2>3, <3>1, RecordTyped
  <2>8. RecordRight(Record(a, pos, d, most), a, Loaded, ReadOver)
    BY <2>1, <2>2, <2>4, <2>6 DEF RecordRight
  <2> QED BY <2>5, <2>6, <2>7, <2>8 DEF a, pos, d
<1>7. PICK done \in 1..Size, cur \in (bt.cur + 1)..(BtLimit + 2) :
             /\ cur >= bt.cur + done
             /\ \/ /\ \E i \in 1..done : Impossible(ChunkPos + i - 1, Heads[bt.next + i - 1])
                   /\ bt' = [bt EXCEPT !.failure = TRUE] /\ btBuf' = btBuf
                \/ /\ \A i \in 1..done : ~Impossible(ChunkPos + i - 1, Heads[bt.next + i - 1])
                   /\ btBuf' = [btBuf EXCEPT ![block["bt"]].recs =
                                   @ \o [i \in 1..done |-> ChunkRecord(i)]]
                   /\ bt' = [bt EXCEPT !.cur = cur, !.next = @ + done, !.buffer = @ + done,
                                       !.pos = ChunkPos + done, !.num = @ + done,
                                       !.avail = @ - done, !.cyclic = (@ + done) % CyclicSize]
  BY Chunk
<1> DEFINE new == [i \in 1..done |-> ChunkRecord(i)]
<1>8. done \in Nat \ {0} /\ \A i \in 1..done : i \in 1..Size BY <1>4
<1>9. \A i \in 1..done : ~Impossible(ChunkPos + i - 1, Heads[bt.next + i - 1])
  BY <1>6, <1>8
<1>10. /\ btBuf' = [btBuf EXCEPT ![block["bt"]].recs = @ \o new]
       /\ bt' = [bt EXCEPT !.cur = cur, !.next = @ + done, !.buffer = @ + done,
                           !.pos = ChunkPos + done, !.num = @ + done,
                           !.avail = @ - done, !.cyclic = (@ + done) % CyclicSize]
  BY <1>7, <1>9
<1>11. new \in Seq(Records) /\ Len(new) = done /\ \A i \in 1..done : new[i] = ChunkRecord(i)
  <2>1. \A i \in 1..done : ChunkRecord(i) \in Records BY <1>6, <1>8
  <2> QED BY <1>8, <2>1
<1> HIDE DEF new
<1>12. RecsRight(new, BtAt, Loaded, ReadOver)
  BY <1>6, <1>8, <1>11 DEF RecsRight
<1>13. /\ bt'.cur = cur /\ bt'.num = bt.num + done /\ bt'.avail = bt.avail - done
       /\ bt'.next = bt.next + done /\ bt'.limit = bt.limit /\ bt'.buffer = bt.buffer + done
       /\ bt'.pos = ChunkPos + done /\ bt'.failure = bt.failure
  BY <1>1, <1>10 DEF BtRecords
<1>14. BtAt' = BtAt + done
  <2>1. base' = base /\ base \in Nat /\ bt.buffer \in Int
    BY <1>1, Places DEF BtChunk, BtRecords, Placed
  <2> QED BY <1>8, <1>13, <2>1 DEF BtAt
<1>15. TreeRight'
  <2>1. bt'.pos <= BtAt' /\ (bt'.pos = BtAt' \/ bt'.pos >= CyclicSize)
    <3>1. /\ BtAt \in Int /\ ChunkPos \in Int /\ done \in Nat /\ CyclicSize \in Int
          /\ bt'.pos = ChunkPos + done
      BY <1>2, <1>3, <1>4, <1>8, <1>13
    <3>2. \A x, y, c \in Int : \A k \in Nat :
            y <= x /\ (y = x \/ y >= c) => y + k <= x + k /\ (y + k = x + k \/ y + k >= c)
      OBVIOUS
    <3>3. /\ ChunkPos + done <= BtAt + done
          /\ ChunkPos + done = BtAt + done \/ ChunkPos + done >= CyclicSize
      BY <1>5, <3>1, <3>2, Zenon
    <3> QED BY <1>14, <3>1, <3>3, Zenon
  <2> QED BY <1>13, <2>1 DEF TreeRight, CyclicSize
<1>16. bt'.cur > 2
  <2>1. bt.cur \in 2..(BtLimit + 4) /\ BtLimit \in Nat BY <1>1, LimitRoom DEF Room
  <2> QED BY <1>13, <2>1
<1> QED BY <1>10, <1>11, <1>12, <1>13, <1>14, <1>15, <1>16

LEMMA HashSideChunk ==
    ASSUME SyncInv, FinderInv, EofIsEnd, TreeRight, [Next]_vars, BtChunk,
           NEW e \in Nat, NEW f \in [Nat -> Nat], HashSide(e, f),
           NEW done \in 1..Size, BtAt' = BtAt + done,
           bt'.next = bt.next + done, bt'.limit = bt.limit, bt'.avail = bt.avail - done
    PROVE  \E e2 \in Nat : HashSide(e2, f)' /\ e2 = e + done /\ e2 <= HashAt'
<1> DEFINE h == hashBuf[reading["hash"]]
           n == Ahead("hash")
           r == reading["hash"]
           size == NumBlocks["hash"]
<1>1. /\ Feeds /\ Held("hash") /\ e = BtAt /\ BtAt \in Nat \ {0}
      /\ BtAt = f[0] + bt.next - 1 /\ f[1] = f[0] + bt.limit /\ f[1] <= HashAt
  BY ChunkHeads
<1>2. /\ HashChain(f) /\ Tied(e, f) BY <1>1 DEF HashSide
<1>3. /\ pc["bt"] = "fill" /\ ~HeadsDone BY DEF BtChunk, BtMore
<1>4. UNCHANGED <<hashBuf, syncVars, base, mf>> BY DEF BtChunk
<1>5. /\ size \in Nat \ {0} /\ r \in 0..(size - 1) /\ n \in 1..size
  BY <1>1, RingOf DEF Syncs, Feeds
<1>6. bt \in BtRecords BY DEF FinderInv, TreeKept, BtRecords
<1>7. /\ bt.next \in Nat \ {0} /\ bt.limit \in 0..HashBlockSize /\ bt.avail \in Nat
  BY <1>6 DEF BtRecords
<1>8. HashBlockSize \in Nat BY FinderParams
<1>9. bt.avail = h.avail - (bt.next - 1) /\ e + bt.avail <= Loaded
  BY <1>2, <1>3 DEF Tied
<1>10. Size \in 1..(bt.limit - bt.next + 1) BY <1>3, SizeIs
<1>11. done \in Nat \ {0} /\ bt'.next <= bt.limit + 1
  <2>1. bt.next + done <= bt.limit + 1 BY <1>7, <1>8, <1>10
  <2> QED BY <1>7, <1>8, <1>10, <2>1
<1>12. Loaded \in Nat /\ HashAt \in Nat /\ h.avail \in Nat
  <2>1. h.avail \in Nat BY <1>5 DEF FinderInv, HashesKept
  <2> QED BY <2>1, Places DEF Placed
<1>13. PICK e2 \in Nat : e2 = e + done BY <1>11
<1>14. HashAt' = HashAt /\ Loaded' = Loaded BY <1>4 DEF HashAt, Loaded
<1>15. HashChain(f)'
  <2>1. Ahead("hash")' = Ahead("hash") BY <1>4 DEF Ahead, Held, One, syncVars
  <2>2. OffChain(n, r, size, HashLens, HashOks, HashLens', HashOks')
    BY <1>4, HashOff
  <2>3. n \in 0..size BY <1>5
  <2>4. Linked(f, n, r, size, HashLens', HashOks', HashBlockSize)
    BY <1>2, <1>5, <1>8, <2>2, <2>3, LinkedSame DEF HashChain
  <2>5. reading' = reading BY <1>4 DEF syncVars
  <2> QED BY <1>2, <1>14, <2>1, <2>4, <2>5 DEF HashChain
<1> HIDE DEF h, n, r, size
<1>16. bt'.avail = h.avail - (bt'.next - 1) /\ e2 + bt'.avail <= Loaded /\ e2 = BtAt'
       /\ BtAt' = f[0] + bt'.next - 1
  BY <1>1, <1>7, <1>9, <1>11, <1>12, <1>13
<1>17. HeadsDone' => e2 = f[1]
  <2>1. SUFFICES ASSUME HeadsDone' PROVE e2 = f[1] OBVIOUS
  <2>2. bt'.next > bt.limit BY <2>1 DEF HeadsDone
  <2>3. bt'.next = bt.limit + 1 BY <1>7, <1>8, <1>11, <2>2
  <2> QED BY <1>1, <1>7, <1>16, <2>3
<1>18. e2 <= HashAt
  <2>1. e2 <= f[1] BY <1>1, <1>7, <1>8, <1>11, <1>16
  <2> QED BY <1>1, <1>12, <2>1
<1>19. Tied(e2, f)'
  <2>1. pc'["bt"] = "fill" BY <1>3, <1>4 DEF syncVars
  <2>2. h = hashBuf'[reading'["hash"]] BY <1>4 DEF h, syncVars
  <2>3. BtAt' <= e2 BY <1>13, <1>16
  <2> QED BY <1>14, <1>16, <1>17, <2>1, <2>2, <2>3 DEF Tied
<1>20. ~Unused'
  <2>1. ~needStart["hash"] BY <1>1 DEF Feeds, Runs
  <2>2. canStart["hash"] => pc["bt"] = "filled" \/ exit["hash"]
    BY DEF SyncInv, Control, HashRuns
  <2> QED BY <1>3, <1>4, <2>1, <2>2 DEF Unused, HashFresh, syncVars
<1>21. HashSide(e2, f)' BY <1>15, <1>19, <1>20 DEF HashSide
<1> QED BY <1>13, <1>14, <1>18, <1>21

-----------------------------------------------------------------------------
(* The tree thread *)

LEMMA TreeStepData == ASSUME SyncInv, FinderInv, TreeRight, [Next]_vars, ~BtChunk PROVE TreeRight'
<1>1. bt \in BtRecords /\ TreeKept BY DEF FinderInv, TreeKept, BtRecords
<1>2. bt'.pos = bt.pos /\ bt'.failure = bt.failure
  <2>1. CASE BtStep
    BY <1>1, <2>1 DEF BtStep, BtStart, BtTakeFree, BtLock, BtAsk, BtTake, BtHeader, BtPost,
       BtStopHash, BtHashStopped, BtSayStopped, finderVars, BtRecords
  <2>2. CASE ~BtStep
    <3>1. BtAlone BY <2>2, OthersLeaveBt DEF Next, ThreadStep
    <3> QED BY <1>1, <3>1, AloneKeeps
  <2> QED BY <2>1, <2>2
<1>3. BtAt' = BtAt BY Stays
<1> QED BY <1>2, <1>3 DEF TreeRight, CyclicSize

LEMMA ToldStep == ASSUME SyncInv, Told, [Next]_vars PROVE Told'
<1>1. SyncType /\ PcType /\ HashRuns /\ BtRuns BY DEF SyncInv, Control
<1>2. CASE LzStep
  <2>1. pc'["bt"] \in {pc["bt"], "wait"}
    BY <1>1, <1>2 DEF LzStep, CreateHash, CreateBt, CreateFails, InitFinder, AskBlock,
       TakeBlock, LzHeader, GetMatches, Skip, StopOnError, Flush, Finish, Finished,
       DestroyNone, Destroy, Joined, Goto, PcType, Threads, syncVars
  <2>2. stopWriting'["hash"] = stopWriting["hash"]
    BY <1>1, <1>2 DEF LzStep, CreateHash, CreateBt, CreateFails, InitFinder, AskBlock,
       TakeBlock, LzHeader, GetMatches, Skip, StopOnError, Flush, Finish, Finished,
       DestroyNone, Destroy, Joined, syncVars, AskFirst, AskNext,
       TakeFilled, Lock, StopWriting, Stopped, SendExit, Join, SyncType, Syncs, Create
  <2>3. CASE Finish
    <3>1. stopWriting'["bt"] BY <1>1, <2>3 DEF Finish, StopWriting, SyncType, Syncs
    <3> QED BY <2>1, <2>2, <3>1 DEF Told
  <2>4. CASE ~Finish
    <3>1. pc'["lz"] # "stopping"
      <4>1. CASE CreateHash \/ CreateBt \/ CreateFails \/ InitFinder \/ AskBlock \/ TakeBlock
        BY <1>1, <4>1 DEF CreateHash, CreateBt, CreateFails, InitFinder, AskBlock, TakeBlock,
           Goto, PcType, Threads
      <4>2. CASE LzHeader \/ GetMatches \/ Skip \/ StopOnError \/ Flush \/ Finished
        BY <1>1, <4>2 DEF LzHeader, GetMatches, Skip, CodeOne, StopOnError, Flush, Finished,
           Goto, PcType, Threads, syncVars
      <4>3. CASE DestroyNone \/ Destroy \/ Joined
        BY <1>1, <4>3 DEF DestroyNone, Destroy, Joined, Goto, PcType, Threads, Next1
      <4> QED BY <1>2, <2>4, <4>1, <4>2, <4>3 DEF LzStep
    <3> QED BY <2>1, <2>2, <3>1 DEF Told
  <2> QED BY <2>3, <2>4
<1>3. CASE BtStep
  <2>1. pc'["lz"] = pc["lz"]
    BY <1>1, <1>3 DEF BtStep, BtStart, BtTakeFree, BtLock, BtAsk, BtTake, BtHeader, BtChunk,
       BtPost, BtStopHash, BtHashStopped, BtSayStopped, Goto, PcType, Threads, syncVars
  <2>2. CASE BtStopHash
    <3>1. stopWriting'["bt"] = stopWriting["bt"] /\ (pc'["bt"] = "stopping" => stopWriting'["hash"])
      BY <1>1, <2>2 DEF BtStopHash, StopWriting, SayStopped, Goto, PcType, Threads, SyncType, Syncs
    <3> QED BY <2>1, <3>1 DEF Told
  <2>3. CASE BtAsk
    <3>1. stopWriting'["bt"] = stopWriting["bt"] /\ pc'["bt"] # "stopping"
      BY <1>1, <2>3 DEF BtAsk, AskFirst, AskNext, Goto, PcType, Threads, SyncType, Syncs
    <3> QED BY <2>1, <3>1 DEF Told
  <2>4. CASE BtStart \/ BtTakeFree \/ BtLock \/ BtTake \/ BtHashStopped \/ BtSayStopped
    <3>1. UNCHANGED stopWriting /\ pc'["bt"] # "stopping"
      BY <1>1, <2>4 DEF BtStart, BtTakeFree, BtLock, BtTake, BtHashStopped, BtSayStopped, Started,
         TakeFree, Lock, TakeFilled, Stopped, SayStopped, Goto, PcType, Threads
    <3> QED BY <2>1, <3>1 DEF Told
  <2>5. CASE BtHeader \/ BtChunk \/ BtPost
    <3>1. UNCHANGED stopWriting /\ pc'["bt"] # "stopping"
      BY <1>1, <2>5 DEF BtHeader, BtChunk, BtMore, BtPost, Lock, syncVars, Goto, PcType, Threads
    <3> QED BY <2>1, <3>1 DEF Told
  <2> QED BY <1>3, <2>2, <2>3, <2>4, <2>5 DEF BtStep
<1>4. CASE HashStep
  BY <1>1, <1>4 DEF HashStep, HashStart, HashLockBt, HashLockHash, HashMove, HashTakeFree,
     HashFill, HashSayStopped, Goto, PcType, Threads, Started, TakeFree, SayStopped, Told
<1>5. CASE WriteFails \/ UNCHANGED vars BY <1>5 DEF WriteFails, vars, syncVars, Told
<1> QED BY <1>2, <1>3, <1>4, <1>5 DEF Next, ThreadStep

\* While the encoder codes, the hash thread works for it or has not begun.
LEMMA CodesFeeds == ASSUME SyncInv, StartsAtOne, Codes PROVE Runs("bt") /\ (Feeds \/ Unused)
<1>1. BtRuns /\ HashRuns /\ PcType /\ Lives BY DEF SyncInv, Control
<1>2. Runs("bt") BY <1>1 DEF BtRuns, Codes, LzCoding, LzBefore, LzAfter, Runs
<1>3. pc["bt"] \notin {"off", "end", "stophash", "stopping", "stopped"}
  BY <1>1, <1>2 DEF BtRuns, Lives, Codes, LzCoding, LzAfter, Runs
<1>4. CASE needStart["hash"]
  <2>1. pc["bt"] \in {"next", "fill", "wait"}
    BY <1>1, <1>3, <1>4 DEF HashRuns, PcType, BtLabels
  <2>2. pc["bt"] = "wait" => canStart["bt"] /\ ~exit["bt"]
    BY <1>1, <1>2 DEF StartsAtOne, BtRuns, Runs
  <2> QED BY <1>2, <1>4, <2>1, <2>2 DEF Unused, HashFresh
<1>5. CASE ~needStart["hash"]
  <2>1. ~stopWriting["hash"] BY <1>1, <1>2 DEF HashRuns, Runs
  <2> QED BY <1>2, <1>3, <1>5, <2>1 DEF Feeds, Runs
<1> QED BY <1>4, <1>5

LEMMA BtOff ==
    ASSUME SyncInv, FinderInv, EofIsEnd, [Next]_vars, NEW n, NEW r,
           \A b \in 0..(NumBlocks["bt"] - 1) :
              (n < NumBlocks["bt"] /\ b = Slot(r, n, NumBlocks["bt"])) \/ btBuf'[b] = btBuf[b]
    PROVE  OffChain(n, r, NumBlocks["bt"], BtLens, BtOks, BtLens', BtOks')
<1>1. /\ Loaded \in Nat /\ Loaded' \in Nat /\ Loaded <= Loaded'
      /\ ReadOver => ReadOver' /\ Loaded' = Loaded
  BY Later
<1>2. TreeKept /\ TreeKept' BY StepsKeep DEF FinderInv
<1>3. /\ DOMAIN btBuf = 0..(NumBlocks["bt"] - 1) /\ DOMAIN btBuf' = 0..(NumBlocks["bt"] - 1)
      /\ \A b \in 0..(NumBlocks["bt"] - 1) : btBuf[b] \in BtBlocks
  BY <1>2 DEF TreeKept, BtBlocks
<1>4. ASSUME NEW h \in BtBlocks, NEW x \in Int, BtBlockRight(h, x, Loaded, ReadOver)
      PROVE  BtBlockRight(h, x, Loaded', ReadOver')
  <2>1. ReadOver \in BOOLEAN /\ ReadOver' \in BOOLEAN
    <3>1. mf.eof \in BOOLEAN /\ mf'.eof \in BOOLEAN
      <4>1. WindowKept /\ WindowKept' BY StepsKeep DEF FinderInv
      <4> QED BY <4>1 DEF WindowKept
    <3> QED BY <3>1 DEF ReadOver
  <2> QED BY <1>1, <1>4, <2>1, StaysRight
<1>5. ASSUME NEW b \in 0..(NumBlocks["bt"] - 1), btBuf'[b] = btBuf[b]
      PROVE  BtLens'[b] = BtLens[b]
             /\ \A x \in Nat : <<b, x>> \in BtOks => <<b, x>> \in BtOks'
  <2>1. BtLens'[b] = BtLens[b] BY <1>3, <1>5 DEF BtLens
  <2>2. ASSUME NEW x \in Nat, <<b, x>> \in BtOks PROVE <<b, x>> \in BtOks'
    <3>1. BtBlockRight(btBuf[b], x, Loaded, ReadOver) BY <2>2 DEF BtOks
    <3>2. BtBlockRight(btBuf'[b], x, Loaded', ReadOver') BY <1>3, <1>4, <1>5, <3>1
    <3> QED BY <1>3, <3>2 DEF BtOks, BtBlockRight, RecsRight, RecordRight
  <2> QED BY <2>1, <2>2
<1> QED BY <1>5 DEF OffChain

\* The encoder's place in its block is the one its records are of.
LEMMA LzTiedStep ==
    ASSUME SyncInv, FinderInv, [Next]_vars, ~AskBlock, Codes', NEW g \in [Nat -> Nat], LzTied(g),
           pc["lz"] \notin {"filled", "lock"} => Len(Recs)' = Len(Recs)
    PROVE  LzTied(g)'
<1>1. PcType /\ lz \in LzRecords
  BY DEF SyncInv, Control, FinderInv, CoderKept, LzRecords
<1>2. ~(GetMatches \/ Skip) => LzAt' = LzAt BY Stays
<1>3. CASE LzHeader
  <2>1. /\ pc["lz"] = "lock" /\ pc'["lz"] \in {"flush", "code"} /\ UNCHANGED <<btBuf, reading>>
        /\ lz'.next = 1 /\ lz'.limit = Len(Recs)
    BY <1>1, <1>3 DEF LzHeader, Lock, Goto, PcType, Threads, Recs, LzRecords
  <2>2. ~(GetMatches \/ Skip) BY <2>1 DEF GetMatches, Skip, CodeOne
  <2>3. LzAt = g[0] BY <2>1 DEF LzTied
  <2>4. LzAt' = g[0] + 1 - 1 BY <1>2, <2>2, <2>3
  <2> QED BY <2>1, <2>4 DEF LzTied, Recs
<1>4. CASE GetMatches \/ Skip
  <2>1. /\ pc["lz"] = "code" /\ pc' = pc /\ lz'.limit = lz.limit
        /\ lz'.next = lz.next + 1 /\ lz'.buffer = lz.buffer + 1 /\ base' = base
    BY <1>1, <1>4 DEF GetMatches, Skip, CodeOne, Advance, LzRecords, LzOnly, syncVars
  <2>2. LzAt = g[0] + lz.next - 1 /\ lz.limit = Len(Recs) BY <2>1 DEF LzTied
  <2>3. base \in Nat /\ lz.buffer \in Int /\ lz.next \in Nat BY <1>1, Places DEF Placed, LzRecords
  <2>4. LzAt' = LzAt + 1
    <3>1. base + (lz.buffer + 1) = (base + lz.buffer) + 1 BY <2>3
    <3> QED BY <2>1, <3>1 DEF LzAt
  <2>5. LzAt' = g[0] + lz'.next - 1
    <3>1. g[0] \in Nat OBVIOUS
    <3>2. g[0] + lz.next - 1 + 1 = g[0] + (lz.next + 1) - 1 BY <2>3, <3>1
    <3> QED BY <2>1, <2>2, <2>4, <3>2
  <2> QED BY <2>1, <2>2, <2>5 DEF LzTied
<1>5. CASE TakeBlock
  <2>1. pc["lz"] = "filled" /\ pc'["lz"] = "lock"
    BY <1>1, <1>5 DEF TakeBlock, Goto, PcType, Threads
  <2>2. ~(GetMatches \/ Skip) BY <2>1 DEF GetMatches, Skip, CodeOne
  <2> QED BY <1>2, <2>1, <2>2 DEF LzTied
<1>6. CASE ~LzHeader /\ ~GetMatches /\ ~Skip /\ ~TakeBlock
  <2>1. lz'.next = lz.next /\ lz'.limit = lz.limit
    <3>1. CASE HashMove
      <4>1. lz' = [lz EXCEPT !.buffer = lz'.buffer] BY <3>1, MoveStays
      <4>2. [lz EXCEPT !.buffer = lz'.buffer].next = lz.next
            /\ [lz EXCEPT !.buffer = lz'.buffer].limit = lz.limit
        BY <1>1 DEF LzRecords
      <4> QED BY <4>1, <4>2
    <3>2. CASE ~HashMove
      BY <1>6, <3>2 DEF Next, ThreadStep, LzStep, CreateHash, CreateBt, CreateFails, InitFinder,
         AskBlock, StopOnError, Flush, Finish, Finished,
         DestroyNone, Destroy, Joined, HashStep, HashStart, HashLockBt, HashLockHash,
         HashTakeFree, HashFill, HashSayStopped, WriteFails, vars, finderVars,
         BtStep, BtStart, BtTakeFree, BtLock, BtAsk, BtTake, BtHeader, BtChunk, BtPost,
         BtStopHash, BtHashStopped, BtSayStopped
    <3> QED BY <3>1, <3>2
  <2>2. pc'["lz"] \in {"filled", "lock"} <=> pc["lz"] \in {"filled", "lock"}
    <3>1. CASE LzStep
      BY <1>1, <1>6, <3>1 DEF LzStep, CreateHash, CreateBt, CreateFails, InitFinder,
         StopOnError, Flush, Finish, Finished, DestroyNone, Destroy, Joined, Goto, PcType,
         Threads, Next1, Codes, LzCoding
    <3>2. CASE BtStep
      BY <1>1, <3>2 DEF BtStep, BtStart, BtTakeFree, BtLock, BtAsk, BtTake, BtHeader, BtChunk,
         BtPost, BtStopHash, BtHashStopped, BtSayStopped, Goto, PcType, Threads, syncVars
    <3>3. CASE HashStep
      BY <1>1, <3>3 DEF HashStep, HashStart, HashLockBt, HashLockHash, HashMove, HashTakeFree,
         HashFill, HashSayStopped, Goto, PcType, Threads
    <3>4. CASE WriteFails \/ UNCHANGED vars BY <3>4 DEF WriteFails, vars, syncVars
    <3> QED BY <3>1, <3>2, <3>3, <3>4 DEF Next, ThreadStep
  <2>3. LzAt' = LzAt BY <1>2, <1>6
  <2> QED BY <2>1, <2>2, <2>3 DEF LzTied
<1> QED BY <1>3, <1>4, <1>5, <1>6

\* What a step that is not about the blocks of the tree thread leaves of them.
TreeSame ==
    Codes' => /\ Codes /\ Ahead("bt")' = Ahead("bt")
              /\ UNCHANGED <<reading["bt"], btBuf, bt.num, bt.avail, bt.cur>>
              /\ pc'["bt"] \in BtWriting <=> pc["bt"] \in BtWriting
              /\ pc'["bt"] = "post" <=> pc["bt"] = "post"
              /\ pc["bt"] \in BtWriting => block'["bt"] = block["bt"]

LEMMA TreeQuiet ==
    ASSUME SyncInv, FinderInv, [Next]_vars, ~AskBlock, ~BtTakeFree, ~BtHeader, ~BtChunk, ~BtPost
    PROVE  TreeSame
<1>1. SyncType /\ PcType /\ BtRuns /\ HashRuns BY DEF SyncInv, Control
<1> SUFFICES ASSUME Codes'
             PROVE  /\ Codes /\ Ahead("bt")' = Ahead("bt")
                    /\ UNCHANGED <<reading["bt"], btBuf, bt.num, bt.avail, bt.cur>>
                    /\ pc'["bt"] \in BtWriting <=> pc["bt"] \in BtWriting
                    /\ pc'["bt"] = "post" <=> pc["bt"] = "post"
                    /\ pc["bt"] \in BtWriting => block'["bt"] = block["bt"]
  BY DEF TreeSame
<1>2. CASE LzStep
  <2>1. ~CreateHash /\ ~CreateBt /\ ~InitFinder /\ ~CreateFails /\ ~Finish /\ ~Finished
        /\ ~DestroyNone /\ ~Destroy /\ ~Joined
    BY <1>1 DEF CreateHash, CreateBt, InitFinder, CreateFails, Finish, Finished, DestroyNone,
       Destroy, Joined, Goto, PcType, Threads, Codes, LzCoding, Next1
  <2>2. /\ pc'["bt"] = pc["bt"] /\ UNCHANGED <<reading, block, btBuf>> /\ Codes
    BY <1>1, <1>2, <2>1 DEF LzStep, TakeBlock, LzHeader, GetMatches, Skip, LzOnly, CodeOne,
       StopOnError, Flush, TakeFilled, Lock, Goto, PcType, Threads, syncVars, finderVars,
       Codes, LzCoding
  <2>3. UNCHANGED <<bt.num, bt.avail, bt.cur>>
    <3>1. BtAlone BY <1>2, OthersLeaveBt
    <3> QED BY <3>1, AloneKeeps DEF FinderInv
  <2>4. Ahead("bt")' = Ahead("bt")
    <3>1. CASE TakeBlock
      <4>1. /\ pc["lz"] = "filled" /\ pc'["lz"] = "lock" /\ filled["bt"] \in Nat
            /\ filled'["bt"] = filled["bt"] - 1
        BY <1>1, <3>1 DEF TakeBlock, TakeFilled, Goto, PcType, Threads, SyncType, Syncs
      <4>2. Ahead("bt")' = filled'["bt"] + 1 /\ Ahead("bt") = filled["bt"] + 0
        BY <4>1 DEF Ahead, Held, One
      <4> QED BY <4>1, <4>2
    <3>2. CASE ~TakeBlock
      BY <1>1, <1>2, <2>1, <3>2 DEF LzStep, LzHeader, GetMatches, Skip, CodeOne,
         StopOnError, Flush, Lock, Goto, PcType, Threads, syncVars, Ahead, Held, One
    <3> QED BY <3>1, <3>2
  <2> QED BY <2>2, <2>3, <2>4
<1>3. CASE HashStep
  <2>1. UNCHANGED <<pc["bt"], pc["lz"], reading["bt"], filled["bt"], block["bt"], btBuf>>
    BY <1>1, <1>3 DEF HashStep, HashStart, HashLockBt, HashLockHash, HashMove, HashTakeFree,
       HashFill, HashSayStopped, Started, TakeFree, SayStopped, Post, Release, finderVars,
       Goto, PcType, Threads, SyncType, Syncs
  <2>2. UNCHANGED <<bt.num, bt.avail, bt.cur>>
    <3>1. BtAlone BY <1>3, OthersLeaveBt
    <3> QED BY <3>1, AloneKeeps DEF FinderInv
  <2> QED BY <2>1, <2>2 DEF Codes, Ahead, Held, One
<1>4. CASE WriteFails \/ UNCHANGED vars
  BY <1>4 DEF WriteFails, vars, syncVars, finderVars, Codes, Ahead, Held, One
<1>5. CASE BtStep
  <2>1. UNCHANGED <<pc["lz"], reading["bt"], filled["bt"], btBuf, bt>>
    BY <1>1, <1>5 DEF BtStep, BtStart, BtLock, BtAsk, BtTake, BtStopHash, BtHashStopped,
       BtSayStopped, Started, Lock, AskFirst, AskNext, TakeFilled, StopWriting, Stopped,
       SayStopped, finderVars, Goto, PcType, Threads, SyncType, Syncs
  <2>2. /\ pc'["bt"] \in BtWriting <=> pc["bt"] \in BtWriting
        /\ pc["bt"] # "post" /\ pc'["bt"] # "post"
        /\ pc["bt"] \in BtWriting => block'["bt"] = block["bt"]
    BY <1>1, <1>5 DEF BtStep, BtStart, BtLock, BtAsk, BtTake, BtStopHash, BtHashStopped, BtMore,
       BtSayStopped, Started, Lock, AskFirst, AskNext, TakeFilled, Goto, PcType, Threads, BtWriting
  <2> QED BY <2>1, <2>2 DEF Codes, Ahead, Held, One
<1> QED BY <1>2, <1>3, <1>4, <1>5 DEF Next, ThreadStep

LEMMA RecsLater ==
    ASSUME SyncInv, FinderInv, EofIsEnd, [Next]_vars,
           NEW x \in Int, NEW recs \in Seq(Records), RecsRight(recs, x, Loaded, ReadOver)
    PROVE  RecsRight(recs, x, Loaded', ReadOver')
<1>1. /\ Loaded \in Nat /\ Loaded' \in Nat /\ Loaded <= Loaded'
      /\ ReadOver => ReadOver' /\ Loaded' = Loaded
  BY Later
<1>2. ReadOver \in BOOLEAN /\ ReadOver' \in BOOLEAN
  <2>1. WindowKept /\ WindowKept' BY StepsKeep DEF FinderInv
  <2> QED BY <2>1 DEF WindowKept, ReadOver
<1> QED BY <1>1, <1>2, StaysRight

LEMMA BtSideSame ==
    ASSUME SyncInv, FinderInv, EofIsEnd, [Next]_vars, ~AskBlock, TreeSame,
           NEW e \in Nat, NEW g \in [Nat -> Nat], BtSide(e, g), StartsAtOne
    PROVE  BtSide(e, g)'
<1> SUFFICES ASSUME Codes'
             PROVE  BtChain(g)' /\ LzTied(g)'
                    /\ (pc'["bt"] \in BtWriting => OpenRight(btBuf[block["bt"]], g[Ahead("bt")], e)')
                    /\ (pc'["bt"] \notin BtWriting => g[Ahead("bt")'] = e)
  BY DEF BtSide
<1>1. /\ Codes /\ Ahead("bt")' = Ahead("bt")
      /\ UNCHANGED <<reading["bt"], btBuf, bt.num, bt.avail, bt.cur>>
      /\ pc'["bt"] \in BtWriting <=> pc["bt"] \in BtWriting
      /\ pc'["bt"] = "post" <=> pc["bt"] = "post"
      /\ pc["bt"] \in BtWriting => block'["bt"] = block["bt"]
  BY DEF TreeSame
<1>2. /\ BtChain(g) /\ LzTied(g)
      /\ pc["bt"] \in BtWriting => OpenRight(btBuf[block["bt"]], g[Ahead("bt")], e)
      /\ pc["bt"] \notin BtWriting => g[Ahead("bt")] = e
  BY <1>1 DEF BtSide
<1>3. /\ NumBlocks["bt"] \in Nat \ {0} /\ reading["bt"] \in 0..(NumBlocks["bt"] - 1)
      /\ Ahead("bt") \in 0..NumBlocks["bt"]
  <2>1. Runs("bt") BY <1>1, CodesFeeds
  <2> QED BY <2>1, RingOf DEF Syncs
<1>4. BtChain(g)'
  <2>1. OffChain(Ahead("bt"), reading["bt"], NumBlocks["bt"], BtLens, BtOks, BtLens', BtOks')
    BY <1>1, BtOff
  <2>2. BtBlockSize \in Nat BY FinderParams
  <2>3. Linked(g, Ahead("bt"), reading["bt"], NumBlocks["bt"], BtLens', BtOks', BtBlockSize)
    BY <1>2, <1>3, <2>1, <2>2, LinkedSame DEF BtChain
  <2> QED BY <1>1, <2>3 DEF BtChain
<1>5. LzTied(g)'
  <2>1. Len(Recs)' = Len(Recs) BY <1>1 DEF Recs
  <2> QED BY <1>2, <2>1, LzTiedStep
<1>6. ASSUME pc'["bt"] \in BtWriting
      PROVE  OpenRight(btBuf[block["bt"]], g[Ahead("bt")], e)'
  <2> DEFINE b == btBuf[block["bt"]]
             x == g[Ahead("bt")]
  <2>1. OpenRight(b, x, e) BY <1>1, <1>2, <1>6
  <2>2. b \in BtBlocks
    <3>1. block["bt"] \in 0..(NumBlocks["bt"] - 1) BY DEF SyncInv, Control, SyncType, Syncs
    <3> QED BY <3>1 DEF FinderInv, TreeKept, BtBlocks
  <2>3. b.recs \in Seq(Records) BY <2>2 DEF BtBlocks
  <2>4. x \in Int BY <1>3
  <2>5. RecsRight(b.recs, x, Loaded', ReadOver') BY <2>1, <2>3, <2>4, RecsLater DEF OpenRight
  <2>6. btBuf'[block'["bt"]] = b /\ g[Ahead("bt")'] = x BY <1>1, <1>6
  <2> HIDE DEF b, x
  <2> QED BY <1>1, <2>1, <2>5, <2>6 DEF OpenRight
<1> QED BY <1>1, <1>2, <1>4, <1>5, <1>6

\* The tree thread writes in its block.
LEMMA BtSideWrites ==
    ASSUME SyncInv, FinderInv, EofIsEnd, StartsAtOne, [Next]_vars, BtTakeFree \/ BtHeader \/ BtChunk,
           NEW e \in Nat, NEW e2 \in Nat, NEW g \in [Nat -> Nat], BtSide(e, g),
           pc'["bt"] \in BtWriting, NEW b2, b2 = btBuf'[block["bt"]],
           \A b \in 0..(NumBlocks["bt"] - 1) : b # block["bt"] => btBuf'[b] = btBuf[b],
           Codes => OpenRight(b2, g[Ahead("bt")], e2)'
    PROVE  BtSide(e2, g)' /\ (Codes => Ahead("bt") < NumBlocks["bt"])
<1>1. SyncType /\ PcType /\ BtRuns BY DEF SyncInv, Control
<1>2. UNCHANGED <<pc["lz"], reading["bt"], filled["bt"], block["bt"]>>
  BY <1>1 DEF BtTakeFree, TakeFree, BtHeader, Lock, BtChunk, syncVars, Goto, PcType, Threads,
     SyncType, Syncs
<1>3. CASE ~Codes BY <1>2, <1>3 DEF BtSide, Codes
<1>4. CASE Codes
  <2> DEFINE n == Ahead("bt")
             r == reading["bt"]
             size == NumBlocks["bt"]
  <2>1. /\ size \in Nat \ {0} /\ r \in 0..(size - 1) /\ n \in 0..(size - 1)
        /\ block["bt"] = Slot(r, n, size)
    <3>1. Runs("bt") BY <1>4, CodesFeeds
    <3>2. free["bt"] > 0 \/ Writing("bt")
      BY DEF BtTakeFree, TakeFree, BtHeader, BtChunk, BtMore, Writing, BtWriting
    <3>3. /\ NumBlocks["bt"] \in Nat \ {0} /\ reading["bt"] \in 0..(NumBlocks["bt"] - 1)
          /\ Ahead("bt") \in 0..NumBlocks["bt"] /\ One(Writing("bt")) \in {0, 1}
          /\ Writing("bt") => One(Writing("bt")) = 1 /\ Ahead("bt") < NumBlocks["bt"]
          /\ free["bt"] > 0 => Ahead("bt") + One(Writing("bt")) < NumBlocks["bt"]
          /\ block["bt"] = Slot(reading["bt"], Ahead("bt"), NumBlocks["bt"])
      BY <3>1, RingOf DEF Syncs
    <3>4. Ahead("bt") < NumBlocks["bt"] BY <3>2, <3>3
    <3> QED BY <3>3, <3>4
  <2>2. BtChain(g) /\ LzTied(g) BY <1>4 DEF BtSide
  <2>3. Ahead("bt")' = n BY <1>2 DEF Ahead, Held, One
  <2>4. OffChain(n, r, size, BtLens, BtOks, BtLens', BtOks')
    <3>1. ASSUME NEW b \in 0..(size - 1)
          PROVE  (n < size /\ b = Slot(r, n, size)) \/ btBuf'[b] = btBuf[b]
      BY <2>1
    <3> QED BY <3>1, BtOff
  <2>5. BtBlockSize \in Nat /\ n \in 0..size
    <3> HIDE DEF n, r, size
    <3>1. n \in 0..size BY <2>1
    <3> QED BY <3>1, FinderParams
  <2>6. Linked(g, n, r, size, BtLens', BtOks', BtBlockSize)
    BY <2>1, <2>2, <2>4, <2>5, LinkedSame DEF BtChain
  <2>7. BtChain(g)' BY <1>2, <2>3, <2>6 DEF BtChain
  <2>8. LzTied(g)'
    <3>1. ASSUME pc["lz"] \notin {"filled", "lock"} PROVE Len(Recs)' = Len(Recs)
      <4>1. Held("bt") BY <1>4, <3>1 DEF Held, Codes, LzCoding
      <4>2. n \in Nat /\ n >= 1
        <5>1. filled["bt"] \in Nat BY <1>1, RingNumbers DEF Syncs
        <5> QED BY <4>1, <5>1 DEF Ahead, One
      <4>3. r # Slot(r, n, size) BY <2>1, <4>2 DEF Slot
      <4>4. btBuf'[r] = btBuf[r] BY <2>1, <4>3
      <4> QED BY <1>2, <4>4 DEF Recs
    <3>2. ~AskBlock
      BY <1>1, <1>2, <1>4 DEF AskBlock, Goto, PcType, Threads, Codes, LzCoding
    <3>3. Codes' BY <1>2, <1>4 DEF Codes
    <3> QED BY <2>2, <3>1, <3>2, <3>3, LzTiedStep
  <2>9. OpenRight(btBuf[block["bt"]], g[Ahead("bt")], e2)'
    <3>1. OpenRight(b2, g[Ahead("bt")], e2)' BY <1>4
    <3>2. b2 = btBuf'[block'["bt"]] BY <1>2
    <3> QED BY <3>1, <3>2 DEF OpenRight
  <2>10. BtSide(e2, g)' BY <2>7, <2>8, <2>9 DEF BtSide
  <2> QED BY <2>1, <2>10
<1> QED BY <1>3, <1>4

LEMMA BtSideAsk ==
    ASSUME SyncInv, FinderInv, EofIsEnd, StartsAtOne, [Next]_vars, AskBlock,
           NEW e \in Nat, NEW f \in [Nat -> Nat], NEW g \in [Nat -> Nat],
           HashSide(e, f), BtSide(e, g)
    PROVE  \E g2 \in [Nat -> Nat] : BtSide(e, g2)'
<1>1. /\ SyncType /\ PcType /\ BtRuns /\ Rings /\ lz \in LzRecords
  BY DEF SyncInv, Control, FinderInv, CoderKept, LzRecords
<1>2. /\ pc["lz"] \in {"begin", "code"} /\ pc'["lz"] = "filled" /\ pc'["bt"] = pc["bt"]
      /\ UNCHANGED <<bt, btBuf, lz, base, mf, block>>
  BY <1>1 DEF AskBlock, AskFirst, AskNext, finderVars, Goto, PcType, Threads
<1>3. UNCHANGED <<Loaded, LzAt, HashAt>> BY <1>2 DEF Loaded, LzAt, HashAt
<1>4. ReadOver' <=> ReadOver BY <1>2 DEF ReadOver
<1>5. BtBlockSize \in Nat BY FinderParams
<1>6. Ahead("bt")' = filled'["bt"] + 0 BY <1>2 DEF Ahead, Held, One
<1>7. CASE AskFirst("bt")
  <2>1. pc["lz"] = "begin" /\ needStart["bt"]
    BY <1>1, <1>2, <1>7 DEF AskFirst, BtRuns, LzBefore, LzAfter
  <2>2. Untouched("bt") /\ needStart["hash"] BY <1>1, <2>1 DEF Rings, LzBefore, Syncs
  <2>3. e = 1 /\ LzAt = 1
    <3>1. Unused /\ pc["lz"] \in LzBefore BY <2>1, <2>2 DEF Unused, HashFresh, LzBefore
    <3> QED BY <3>1 DEF HashSide, StartsAtOne
  <2>4. pc["bt"] \notin BtWriting BY <1>1, <2>1 DEF BtRuns, BtWriting
  <2> DEFINE g2 == [k \in Nat |-> 1]
  <2>5. g2 \in [Nat -> Nat] /\ g2[0] = 1 OBVIOUS
  <2> HIDE DEF g2
  <2>6. filled' = filled BY <1>7 DEF AskFirst
  <2>7. Ahead("bt")' = 0 BY <1>6, <2>2, <2>6 DEF Untouched
  <2>8. ASSUME NEW r, NEW size, NEW len, NEW ok, NEW cap \in Nat
        PROVE  Linked(g2, 0, r, size, len, ok, cap)
    <3>1. (0 - 0) * cap = 0 OBVIOUS
    <3>2. \A k \in 0..0 : k = 0 OBVIOUS
    <3>3. 0..(0 - 1) = {} OBVIOUS
    <3> QED BY <2>5, <3>1, <3>2, <3>3 DEF Linked
  <2>9. BtChain(g2)' BY <1>5, <2>7, <2>8 DEF BtChain
  <2>10. LzTied(g2)' BY <1>2, <1>3, <2>3, <2>5 DEF LzTied
  <2>11. BtSide(e, g2)' BY <1>2, <2>3, <2>4, <2>5, <2>7, <2>9, <2>10 DEF BtSide
  <2> QED BY <2>5, <2>11
<1>8. CASE AskNext("bt")
  <2> DEFINE n == Ahead("bt")
             r == reading["bt"]
             size == NumBlocks["bt"]
  <2>1. ~needStart["bt"] /\ pc["lz"] = "code" /\ RecsDone
    BY <1>1, <1>8 DEF AskNext, BtRuns, LzBefore, AskBlock
  <2>2. Codes /\ Held("bt") BY <2>1 DEF Codes, LzCoding, Held
  <2>3. Runs("bt") BY <2>2, CodesFeeds
  <2>4. /\ size \in Nat \ {0} /\ r \in 0..(size - 1) /\ n \in 1..size
        /\ numProcessed["bt"] = Slot(r, 1, size)
    BY <2>2, <2>3, RingOf DEF Syncs
  <2>5. /\ BtChain(g) /\ LzTied(g)
        /\ pc["bt"] \in BtWriting => OpenRight(btBuf[block["bt"]], g[n], e)
        /\ pc["bt"] \notin BtWriting => g[n] = e
    BY <2>2 DEF BtSide
  <2>6. Linked(g, n, r, size, BtLens, BtOks, BtBlockSize) BY <2>5 DEF BtChain
  <2>7. n = filled["bt"] + 1 /\ filled["bt"] \in Nat /\ filled'["bt"] = filled["bt"]
    BY <1>1, <1>8, <2>2 DEF Ahead, One, AskNext, SyncType, Syncs
  <2>8. Ahead("bt")' = n - 1 BY <1>6, <2>7
  <2>9. reading'["bt"] = Slot(r, 1, size)
    BY <1>1, <1>8, <2>4 DEF AskNext, SyncType, Syncs
  <2>10. OffChain(n - 1, Slot(r, 1, size), size, BtLens, BtOks, BtLens', BtOks')
    BY <1>2, BtOff
  <2>11. LzAt = g[1]
    <3>1. LzAt = g[0] + lz.next - 1 /\ lz.limit = Len(Recs) BY <2>1, <2>5 DEF LzTied
    <3>2. lz.next \in Nat \ {0} /\ lz.limit \in Nat /\ lz.next = lz.limit + 1
      <4>1. lz.next \in Nat \ {0} /\ lz.limit \in Nat BY <1>1 DEF LzRecords
      <4>2. lz.next <= lz.limit + 1 BY DEF FinderInv, CoderKept
      <4>3. lz.next > lz.limit BY <2>1 DEF RecsDone
      <4> QED BY <4>1, <4>2, <4>3
    <3>3. g[1] = g[0] + Len(Recs)
      <4>1. 0 \in 0..(n - 1) /\ Slot(r, 0, size) = r BY <2>4 DEF Slot
      <4>2. g[0 + 1] = g[0] + BtLens[r] /\ <<r, g[0]>> \in BtOks BY <2>6, <4>1 DEF Linked
      <4>3. BtLens[r] = Len(btBuf[r].recs)
        <5>1. r \in DOMAIN btBuf BY <4>2 DEF BtOks
        <5> QED BY <5>1 DEF BtLens
      <4> QED BY <4>2, <4>3 DEF Recs
    <3>4. g[0] \in Nat OBVIOUS
    <3> QED BY <3>1, <3>2, <3>3, <3>4
  <2> HIDE DEF n, r, size
  <2>12. PICK g2 \in [Nat -> Nat] :
            /\ Linked(g2, n - 1, Slot(r, 1, size), size, BtLens, BtOks, BtBlockSize)
            /\ \A k \in 0..(n - 1) : g2[k] = g[k + 1]
    <3>1. MayGive(g, n, r, size, BtLens, BtOks, BtBlockSize)
      BY <1>5, <2>4, <2>6 DEF MayGive
    <3>2. Given(g, n, r, size, BtLens, BtOks, BtBlockSize) BY <3>1, LinkedGive
    <3> QED BY <3>2 DEF Given
  <2>13. n - 1 \in 0..(n - 1) /\ 0 \in 0..(n - 1) /\ (n - 1) + 1 = n /\ 0 + 1 = 1 BY <2>4
  <2>14. g2[n - 1] = g[n] /\ g2[0] = g[1] BY <2>12, <2>13
  <2>15. BtChain(g2)'
    <3>2. n - 1 \in 0..size /\ Slot(r, 1, size) \in 0..(size - 1) BY <2>4 DEF Slot
    <3>3. Linked(g2, n - 1, Slot(r, 1, size), size, BtLens', BtOks', BtBlockSize)
      BY <1>5, <2>4, <2>10, <2>12, <3>2, LinkedSame
    <3> QED BY <2>8, <2>9, <3>3 DEF BtChain, size
  <2>16. LzTied(g2)' BY <1>2, <1>3, <2>11, <2>14 DEF LzTied
  <2>17. g2[Ahead("bt")'] = g[n] BY <2>8, <2>14
  <2>18. pc["bt"] \in BtWriting => OpenRight(btBuf[block["bt"]], g2[Ahead("bt")], e)'
    BY <1>2, <1>3, <1>4, <2>5, <2>17 DEF OpenRight
  <2>19. BtSide(e, g2)' BY <1>2, <2>5, <2>15, <2>16, <2>17, <2>18 DEF BtSide
  <2> QED BY <2>12, <2>19
<1> QED BY <1>7, <1>8 DEF AskBlock

LEMMA BtSideTakeFree ==
    ASSUME SyncInv, FinderInv, EofIsEnd, StartsAtOne, [Next]_vars, BtTakeFree,
           NEW e \in Nat, NEW g \in [Nat -> Nat], BtSide(e, g)
    PROVE  BtSide(e, g)'
<1>1. SyncType /\ PcType /\ BtRuns /\ TreeKept BY DEF SyncInv, Control, FinderInv
<1>2. pc["bt"] = "next" /\ pc'["lz"] = pc["lz"] BY <1>1 DEF BtTakeFree, Goto, PcType, Threads
<1>3. CASE ~Codes BY <1>2, <1>3 DEF BtSide, Codes
<1>4. CASE Codes
  <2> DEFINE blk == block["bt"]
             new == [size |-> 0, avail |-> bt.avail, recs |-> <<>>]
  <2>1. ~stopWriting["bt"] BY <1>1, <1>4 DEF BtRuns, Codes
  <2>2. /\ pc'["bt"] \in {"fill", "lock"} /\ UNCHANGED <<block, reading, filled>>
        /\ btBuf' = [btBuf EXCEPT ![blk] = new] /\ bt' = [bt EXCEPT !.cur = 2, !.num = 0]
    BY <1>1, <2>1 DEF BtTakeFree, TakeFree, Goto, PcType, Threads
  <2>3. blk \in 0..(NumBlocks["bt"] - 1) /\ DOMAIN btBuf = 0..(NumBlocks["bt"] - 1)
    BY <1>1 DEF SyncType, Syncs, TreeKept
  <2> HIDE DEF blk
  <2>4. btBuf'[blk] = new /\ \A b \in 0..(NumBlocks["bt"] - 1) : b # blk => btBuf'[b] = btBuf[b]
    BY <2>2, <2>3
  <2>5. bt'.cur = 2 /\ bt'.num = 0 /\ bt'.avail = bt.avail /\ bt.avail \in Nat
    <3>1. bt \in BtRecords BY <1>1 DEF TreeKept, BtRecords
    <3> QED BY <2>2, <3>1 DEF BtRecords
  <2>6. Ahead("bt")' = Ahead("bt") BY <1>2, <2>2 DEF Ahead, Held, One
  <2>7. g[Ahead("bt")] = e BY <1>2, <1>4 DEF BtSide, BtWriting
  <2>8. new.recs = <<>> /\ new.avail = bt.avail /\ Len(<<>>) = 0 OBVIOUS
  <2>9. \A x : RecsRight(<<>>, x, Loaded', ReadOver')
    <3>1. 1..Len(<<>>) = {} OBVIOUS
    <3> QED BY <3>1 DEF RecsRight
  <2> HIDE DEF new
  <2>10. PICK b2 : b2 = new OBVIOUS
  <2>11. OpenRight(b2, g[Ahead("bt")], e)'
    <3>1. pc'["bt"] # "post" BY <2>2
    <3>2. e = g[Ahead("bt")'] + 0 BY <2>6, <2>7
    <3>3. bt.avail = bt'.num + bt'.avail BY <2>5
    <3>4. b2.recs = <<>> /\ b2.avail = bt.avail BY <2>8, <2>10
    <3> QED BY <2>5, <2>8, <2>9, <3>1, <3>2, <3>3, <3>4 DEF OpenRight
  <2>12. pc'["bt"] \in BtWriting BY <2>2 DEF BtWriting
  <2> QED BY <2>4, <2>10, <2>11, <2>12, BtSideWrites DEF blk
<1> QED BY <1>3, <1>4

LEMMA RecsJoin ==
    ASSUME NEW x \in Int, NEW s \in Seq(Records), NEW t \in Seq(Records), NEW loaded, NEW over,
           RecsRight(s, x, loaded, over), RecsRight(t, x + Len(s), loaded, over)
    PROVE  RecsRight(s \o t, x, loaded, over) /\ Len(s \o t) = Len(s) + Len(t)
<1>1. /\ Len(s \o t) = Len(s) + Len(t)
      /\ \A i \in 1..Len(s) : (s \o t)[i] = s[i]
      /\ \A i \in 1..Len(t) : (s \o t)[Len(s) + i] = t[i]
  BY Joins
<1>2. Len(s) \in Nat /\ Len(t) \in Nat OBVIOUS
<1> SUFFICES ASSUME NEW i \in 1..Len(s \o t)
             PROVE  RecordRight((s \o t)[i], x + i - 1, loaded, over)
  BY <1>1 DEF RecsRight
<1>3. CASE i <= Len(s)
  <2>1. i \in 1..Len(s) BY <1>1, <1>2, <1>3
  <2> QED BY <1>1, <2>1 DEF RecsRight
<1>4. CASE ~(i <= Len(s))
  <2> DEFINE j == i - Len(s)
  <2>1. j \in Nat /\ i = Len(s) + j /\ j \in 1..Len(t) BY <1>1, <1>2, <1>4
  <2> HIDE DEF j
  <2>2. RecordRight(t[j], x + Len(s) + j - 1, loaded, over) BY <2>1 DEF RecsRight
  <2>3. x + Len(s) + j - 1 = x + i - 1 BY <1>2, <2>1
  <2> QED BY <1>1, <2>1, <2>2, <2>3
<1> QED BY <1>3, <1>4

\* The last bytes of the file have no matches.
Rest(x, n) == [i \in 1..n |-> [at |-> x + i - 1, pairs |-> <<>>]]

LEMMA RestRight ==
    ASSUME NEW x \in Nat, NEW n \in Nat, n < NumHashBytes
    PROVE  /\ Rest(x, n) \in Seq(Records) /\ Len(Rest(x, n)) = n
           /\ RecsRight(Rest(x, n), x, x + n, TRUE)
<1> DEFINE rest == Rest(x, n)
<1>1. rest \in Seq(Records) /\ Len(rest) = n
  <2>1. ASSUME NEW i \in 1..n PROVE [at |-> x + i - 1, pairs |-> <<>>] \in Records
    <3>1. <<>> \in Seq(Nat \X Int) /\ x + i - 1 \in Int OBVIOUS
    <3> QED BY <3>1 DEF Records
  <2>2. rest = [i \in 1..n |-> [at |-> x + i - 1, pairs |-> <<>>]] BY DEF Rest
  <2> HIDE DEF rest
  <2>3. rest \in [1..n -> Records] BY <2>1, <2>2
  <2> QED BY <2>3
<1> SUFFICES ASSUME NEW i \in 1..n PROVE RecordRight(rest[i], x + i - 1, x + n, TRUE)
  BY <1>1 DEF RecsRight
<1> DEFINE most == n - i + 1
<1>2. rest[i] = [at |-> x + i - 1, pairs |-> <<>>] BY DEF Rest
<1>3. NumHashBytes = 4 /\ MatchMaxLen \in Nat /\ MatchMaxLen >= 4 BY FinderParams
<1>4. most \in 0..MatchMaxLen /\ most < NumHashBytes /\ (x + i - 1) + most = x + n BY <1>3
<1>5. ExpectedIn(x + i - 1, most) = <<>> BY <1>4 DEF ExpectedIn
<1> HIDE DEF most, rest
<1> QED BY <1>2, <1>4, <1>5 DEF RecordRight

LEMMA BtSideHeader ==
    ASSUME SyncInv, FinderInv, EofIsEnd, StartsAtOne, [Next]_vars, BtHeader,
           NEW e \in Nat, NEW f \in [Nat -> Nat], NEW g \in [Nat -> Nat],
           HashSide(e, f), BtSide(e, g), NEW e2 \in Nat,
           e2 = IF hashBuf[reading["hash"]].avail < NumHashBytes
                THEN e + hashBuf[reading["hash"]].avail ELSE e
    PROVE  BtSide(e2, g)'
<1> DEFINE h == hashBuf[reading["hash"]]
           last == h.avail < NumHashBytes
           rest == [i \in 1..h.avail |-> [at |-> BtAt + i - 1, pairs |-> <<>>]]
           blk == block["bt"]
           b == btBuf[blk]
<1>1. SyncType /\ PcType /\ TreeKept BY DEF SyncInv, Control, FinderInv
<1>2. /\ pc["bt"] = "lockhash" /\ pc'["lz"] = pc["lz"]
      /\ pc'["bt"] = IF last THEN "post" ELSE "fill"
      /\ UNCHANGED <<block, reading, filled, base, mf>>
  BY <1>1 DEF BtHeader, Lock, Goto, PcType, Threads
<1>3. h.avail \in Nat /\ (h.avail # 0 => BtAt = e) /\ (last => ReadOver /\ e + h.avail = Loaded)
  BY HashSideHeader
<1>4. bt \in BtRecords /\ b \in BtBlocks /\ blk \in 0..(NumBlocks["bt"] - 1)
      /\ DOMAIN btBuf = 0..(NumBlocks["bt"] - 1)
  BY <1>1 DEF TreeKept, BtRecords, BtBlocks, SyncType, Syncs
<1>5. /\ bt'.num = bt.num /\ bt'.avail = (IF last THEN 0 ELSE h.avail)
      /\ ~last => bt'.cur = bt.cur
  BY <1>4 DEF BtHeader, BtRecords
<1>6. btBuf' = [btBuf EXCEPT ![blk].avail = bt.num + h.avail,
                             ![blk].recs = IF last THEN @ \o rest ELSE @]
  BY DEF BtHeader
<1>7. e2 = IF last THEN e + h.avail ELSE e OBVIOUS
<1> HIDE DEF rest, last, h, b, blk
<1>8. /\ \A k \in 0..(NumBlocks["bt"] - 1) : k # blk => btBuf'[k] = btBuf[k]
      /\ btBuf'[blk].avail = bt.num + h.avail
      /\ btBuf'[blk].recs = IF last THEN b.recs \o rest ELSE b.recs
  BY <1>4, <1>6 DEF b, BtBlocks
<1>9. CASE ~Codes
  BY <1>2, <1>9 DEF BtSide, Codes
<1>10. CASE Codes
  <2>4. PICK x \in Nat : x = g[Ahead("bt")]
    <3>1. Runs("bt") BY <1>10, CodesFeeds
    <3>2. Ahead("bt") \in Nat BY <3>1, RingOf DEF Syncs
    <3> QED BY <3>2
  <2>1. OpenRight(b, x, e) BY <1>2, <1>10, <2>4 DEF BtSide, BtWriting, b, blk
  <2>2. /\ RecsRight(b.recs, x, Loaded, ReadOver) /\ e = x + Len(b.recs)
        /\ bt.num = Len(b.recs) /\ (Len(b.recs) = 0 => bt.cur = 2)
    BY <1>2, <2>1 DEF OpenRight
  <2>3. Ahead("bt")' = Ahead("bt") BY <1>2 DEF Ahead, Held, One
  <2>9. b.recs \in Seq(Records) /\ Len(b.recs) \in Nat BY <1>4 DEF BtBlocks
  <2>5. Loaded' = Loaded /\ (ReadOver' <=> ReadOver) BY <1>2 DEF Loaded, HashAt, ReadOver
  <2>6. PICK b2 : b2 = btBuf'[blk] OBVIOUS
  <2>7. CASE last
    <3>1. RecsRight(rest, e, Loaded, ReadOver) /\ rest \in Seq(Records) /\ Len(rest) = h.avail
      <4>1. rest = Rest(e, h.avail)
        <5>1. CASE h.avail = 0
          <6>1. 1..h.avail = {} BY <5>1
          <6> QED BY <6>1 DEF rest, Rest
        <5>2. CASE h.avail # 0 BY <1>3, <5>2 DEF rest, Rest
        <5> QED BY <5>1, <5>2
      <4>2. h.avail < NumHashBytes BY <2>7 DEF last
      <4>3. RecsRight(rest, e, e + h.avail, TRUE) /\ rest \in Seq(Records) /\ Len(rest) = h.avail
        BY <1>3, <4>1, <4>2, RestRight
      <4>4. e + h.avail = Loaded /\ ReadOver BY <1>3, <2>7
      <4> QED BY <4>3, <4>4 DEF RecsRight, RecordRight
    <3>2. RecsRight(b.recs \o rest, x, Loaded, ReadOver)
          /\ Len(b.recs \o rest) = Len(b.recs) + Len(rest)
      <4>1. x \in Int BY <2>4
      <4>2. RecsRight(rest, x + Len(b.recs), Loaded, ReadOver) BY <2>2, <3>1
      <4> QED BY <2>2, <2>9, <3>1, <4>1, <4>2, RecsJoin
    <3>3. Len(b.recs \o rest) = Len(b.recs) + h.avail BY <3>1, <3>2
    <3>4. b2.recs = b.recs \o rest /\ b2.avail = Len(b.recs) + h.avail BY <1>8, <2>2, <2>6, <2>7
    <3>5. e2 = x + Len(b2.recs)
      <4>1. e2 = e + h.avail BY <1>7, <2>7
      <4>2. e = x + Len(b.recs) BY <2>2
      <4>3. Len(b2.recs) = Len(b.recs) + h.avail BY <3>3, <3>4
      <4>4. Len(b.recs) \in Nat /\ h.avail \in Nat BY <1>3, <2>9
      <4>5. e2 = (x + Len(b.recs)) + h.avail BY <4>1, <4>2
      <4>6. ASSUME NEW m \in Nat, NEW n \in Nat PROVE (x + m) + n = x + (m + n)
        BY <2>4
      <4>7. (x + Len(b.recs)) + h.avail = x + (Len(b.recs) + h.avail)
        BY <4>4, <4>6, Zenon
      <4> QED BY <4>3, <4>5, <4>7, Zenon
    <3>6. b2.avail = Len(b2.recs) /\ RecsRight(b2.recs, x, Loaded, ReadOver)
      BY <3>2, <3>3, <3>4
    <3>7. pc'["bt"] = "post" BY <1>2, <2>7
    <3>8. g[Ahead("bt")'] = x BY <2>3, <2>4
    <3>9. OpenRight(b2, g[Ahead("bt")], e2)' BY <2>5, <3>5, <3>6, <3>7, <3>8 DEF OpenRight
    <3>10. pc'["bt"] \in BtWriting BY <3>7 DEF BtWriting
    <3> QED BY <1>8, <2>6, <3>9, <3>10, BtSideWrites DEF blk
  <2>8. CASE ~last
    <3>1. b2.recs = b.recs /\ b2.avail = bt.num + h.avail BY <1>8, <2>6, <2>8
    <3>2. bt'.num = Len(b2.recs) /\ b2.avail = bt'.num + bt'.avail
          /\ (Len(b2.recs) = 0 => bt'.cur = 2)
      BY <1>5, <2>2, <2>8, <3>1
    <3>3. e2 = x + Len(b2.recs) BY <1>7, <2>2, <2>8, <3>1
    <3>4. pc'["bt"] = "fill" BY <1>2, <2>8
    <3>5. g[Ahead("bt")'] = x BY <2>3, <2>4
    <3>6. RecsRight(b2.recs, x, Loaded, ReadOver) BY <2>2, <3>1
    <3>7. OpenRight(b2, g[Ahead("bt")], e2)' BY <2>5, <3>2, <3>3, <3>4, <3>5, <3>6 DEF OpenRight
    <3>8. pc'["bt"] \in BtWriting BY <3>4 DEF BtWriting
    <3> QED BY <1>8, <2>6, <3>7, <3>8, BtSideWrites DEF blk
  <2> QED BY <2>7, <2>8
<1> QED BY <1>9, <1>10

\* The records of some positions are added to the block being written.
Adds(done, new) ==
    /\ done \in Nat \ {0} /\ new \in Seq(Records)
    /\ btBuf' = [btBuf EXCEPT ![block["bt"]].recs = @ \o new]
    /\ Len(new) = done /\ RecsRight(new, BtAt, Loaded, ReadOver)
    /\ bt'.num = bt.num + done /\ bt'.avail = bt.avail - done

LEMMA BtSideChunk ==
    ASSUME SyncInv, FinderInv, EofIsEnd, StartsAtOne, TreeRight, [Next]_vars, BtChunk,
           NEW e \in Nat, NEW f \in [Nat -> Nat], NEW g \in [Nat -> Nat],
           HashSide(e, f), BtSide(e, g), NEW done, NEW new, Adds(done, new),
           NEW e2 \in Nat, e2 = e + done
    PROVE  BtSide(e2, g)'
<1> DEFINE blk == block["bt"]
           b == btBuf[blk]
<1>1. SyncType /\ PcType /\ TreeKept BY DEF SyncInv, Control, FinderInv
<1>2. /\ pc["bt"] = "fill" /\ pc' = pc
      /\ UNCHANGED <<block, reading, filled, base, mf>>
  BY DEF BtChunk, BtMore, syncVars
<1>3. bt \in BtRecords /\ b \in BtBlocks /\ blk \in 0..(NumBlocks["bt"] - 1)
      /\ DOMAIN btBuf = 0..(NumBlocks["bt"] - 1)
  BY <1>1 DEF TreeKept, BtRecords, BtBlocks, SyncType, Syncs
<1>4. e = BtAt BY ChunkHeads
<1>8. btBuf' = [btBuf EXCEPT ![blk].recs = @ \o new] BY DEF Adds
<1> HIDE DEF b, blk
<1>5. /\ \A k \in 0..(NumBlocks["bt"] - 1) : k # blk => btBuf'[k] = btBuf[k]
      /\ btBuf'[blk].avail = b.avail /\ btBuf'[blk].recs = b.recs \o new
  BY <1>3, <1>8 DEF b, BtBlocks
<1>6. CASE ~Codes
  BY <1>2, <1>6 DEF BtSide, Codes
<1>7. CASE Codes
  <2>1. PICK x \in Nat : x = g[Ahead("bt")]
    <3>1. Runs("bt") BY <1>7, CodesFeeds
    <3>2. Ahead("bt") \in Nat BY <3>1, RingOf DEF Syncs
    <3> QED BY <3>2
  <2>2. OpenRight(b, x, e) BY <1>2, <1>7, <2>1 DEF BtSide, BtWriting, b, blk
  <2>3. RecsRight(b.recs, x, Loaded, ReadOver) /\ e = x + Len(b.recs)
        /\ bt.num = Len(b.recs) /\ b.avail = bt.num + bt.avail
    BY <1>2, <2>2 DEF OpenRight
  <2>4. Ahead("bt")' = Ahead("bt") BY <1>2 DEF Ahead, Held, One
  <2>5. b.recs \in Seq(Records) /\ Len(b.recs) \in Nat BY <1>3 DEF BtBlocks
  <2>6. Loaded' = Loaded /\ (ReadOver' <=> ReadOver) BY <1>2 DEF Loaded, HashAt, ReadOver
  <2>7. PICK b2 : b2 = btBuf'[blk] OBVIOUS
  <2>8. RecsRight(b.recs \o new, x, Loaded, ReadOver)
        /\ Len(b.recs \o new) = Len(b.recs) + done
    <3>1. x \in Int BY <2>1
    <3>2. RecsRight(new, x + Len(b.recs), Loaded, ReadOver) BY <1>4, <2>3 DEF Adds
    <3>3. new \in Seq(Records) /\ Len(new) = done BY DEF Adds
    <3> QED BY <2>3, <2>5, <3>1, <3>2, <3>3, RecsJoin
  <2>9. b2.recs = b.recs \o new /\ b2.avail = b.avail BY <1>5, <2>7
  <2>10. done \in Nat \ {0} /\ bt.avail \in Nat BY <1>3 DEF BtRecords, Adds
  <2>11. PICK n \in Nat : n = Len(b.recs) BY <2>5
  <2>12. Len(b2.recs) = n + done BY <2>8, <2>9, <2>11
  <2>13. e2 = x + (n + done)
    <3>1. ASSUME NEW m \in Nat, NEW k \in Nat PROVE (x + m) + k = x + (m + k)
      BY <2>1
    <3>2. e2 = (x + n) + done BY <2>3, <2>11
    <3>3. n \in Nat /\ done \in Nat BY <2>10, <2>11
    <3>4. (x + n) + done = x + (n + done) BY <3>1, <3>3, Zenon
    <3> QED BY <3>2, <3>4, Zenon
  <2>14. bt'.num = n + done /\ b2.avail = bt'.num + bt'.avail
    <3>1. bt'.num = bt.num + done /\ bt'.avail = bt.avail - done BY DEF Adds
    <3>2. ASSUME NEW k \in Nat, NEW a \in Nat, NEW c \in Nat
          PROVE  c + a = (c + k) + (a - k)
      OBVIOUS
    <3>3. bt.num = n /\ b2.avail = n + bt.avail BY <2>3, <2>9, <2>11
    <3>4. bt'.num = n + done BY <3>1, <3>3
    <3>5. done \in Nat BY <2>10
    <3>6. n + bt.avail = (n + done) + (bt.avail - done)
      BY <2>10, <2>11, <3>2, <3>5, Zenon
    <3> QED BY <3>1, <3>3, <3>4, <3>6, Zenon
  <2>15. Len(b2.recs) # 0
    <3>1. ASSUME NEW k \in Nat, NEW m \in Nat \ {0} PROVE k + m # 0 OBVIOUS
    <3> QED BY <2>10, <2>11, <2>12, <3>1, Zenon
  <2>16. g[Ahead("bt")'] = x BY <2>1, <2>4
  <2>17. RecsRight(b2.recs, x, Loaded, ReadOver) BY <2>8, <2>9
  <2>18. pc'["bt"] = "fill" BY <1>2
  <2>19. e2 = x + Len(b2.recs) /\ bt'.num = Len(b2.recs) BY <2>12, <2>13, <2>14
  <2>20. OpenRight(b2, g[Ahead("bt")], e2)'
    BY <2>6, <2>14, <2>15, <2>16, <2>17, <2>18, <2>19 DEF OpenRight
  <2>21. pc'["bt"] \in BtWriting BY <2>18 DEF BtWriting
  <2> QED BY <1>5, <2>7, <2>20, <2>21, BtSideWrites DEF blk
<1> QED BY <1>6, <1>7

\* BtPost says how long the block is.
Sized(b, b2) == b2.size = bt.cur /\ b2.avail = b.avail /\ b2.recs = b.recs

LEMMA UpTo == \A k, m \in Nat : k <= m => k \in 0..m
OBVIOUS

\* From position x, with n positions up to e, a bytes are not past what is loaded.
Fits(x, n, a, v, loaded, e) ==
    e = x + n =>
       /\ a = n /\ e = loaded => x + a <= loaded /\ (a = 0 => x = loaded /\ n = 0)
                                 /\ (a # 0 => n # 0)
       /\ a = n + v /\ e + v <= loaded => x + a <= loaded
       /\ a = n + v /\ n # 0 => a # 0

LEMMA Fit == \A x, n, a, v, loaded, e \in Nat : Fits(x, n, a, v, loaded, e)
BY DEF Fits

\* A block the tree thread is done with is right.
LEMMA BlockDone ==
    ASSUME SyncInv, FinderInv, StartsAtOne, TreeRight, BtPost, Codes,
           NEW e \in Nat, NEW f \in [Nat -> Nat], HashSide(e, f),
           NEW b \in BtBlocks, NEW x \in Nat, OpenRight(b, x, e),
           NEW b2 \in BtBlocks, Sized(b, b2)
    PROVE  BtBlockRight(b2, x, Loaded, ReadOver) /\ x + Len(b2.recs) = e
<1>1. SyncType /\ PcType /\ TreeKept /\ HashRuns /\ Room
  BY DEF SyncInv, Control, FinderInv
<1>2. pc["bt"] \in {"post", "fill"} /\ (pc["bt"] = "fill" => bt.cur >= BtLimit)
  <2>1. ~bt.failure BY DEF TreeRight
  <2>2. bt.cur \in Nat /\ BtLimit \in Nat BY <1>1, LimitRoom DEF Room, TreeKept
  <2> QED BY <2>1, <2>2 DEF BtPost, BtMore
<1>3. bt.cur \in 2..BtBlockSize /\ BtLimit >= 8 /\ (bt.cur >= BtLimit => bt.cur # 2)
  <2>1. bt.cur \in 2..(BtLimit + 4) BY <1>1 DEF Room
  <2>2. BtLimit \in Nat /\ BtLimit >= 8 /\ BtLimit + 8 <= BtBlockSize BY LimitRoom
  <2>3. BtBlockSize \in Nat BY FinderParams
  <2> QED BY <2>1, <2>2, <2>3
<1>4. Feeds
  <2>1. ~HashFresh
    <3> SUFFICES ASSUME HashFresh PROVE FALSE OBVIOUS
    <3>1. pc["bt"] = "fill" => bt.cur = 2 BY <1>1 DEF Room
    <3>2. pc["bt"] # "post" BY <1>1 DEF HashFresh, HashRuns
    <3>3. BtLimit \in Nat BY LimitRoom
    <3> QED BY <1>2, <1>3, <3>1, <3>2, <3>3
  <2>2. ~(canStart["hash"] /\ ~exit["hash"]) BY <1>1, <1>2 DEF HashRuns
  <2> QED BY <2>1, <2>2, CodesFeeds DEF Unused
<1>5. Tied(e, f) BY <1>4 DEF HashSide
<1>6. RecsRight(b.recs, x, Loaded, ReadOver) /\ e = x + Len(b.recs) BY DEF OpenRight
<1>7. Len(b.recs) \in Nat /\ b.avail \in Nat BY DEF BtBlocks
<1>8. Loaded \in Nat /\ bt.avail \in Nat BY <1>1, Places DEF Placed, TreeKept
<1>10. Fits(x, Len(b.recs), b.avail, bt.avail, Loaded, e) BY <1>7, <1>8, Fit
<1>9. /\ x + b.avail <= Loaded
      /\ b.avail = 0 => ReadOver /\ x = Loaded
      /\ b.avail # 0 => Len(b.recs) # 0
  <2>1. CASE pc["bt"] = "post"
    <3>1. ReadOver /\ e = Loaded BY <1>5, <2>1 DEF Tied
    <3>2. b.avail = Len(b.recs) BY <2>1 DEF OpenRight
    <3> QED BY <1>6, <1>10, <3>1, <3>2, Zenon DEF Fits
  <2>2. CASE pc["bt"] = "fill"
    <3>1. e + bt.avail <= Loaded BY <1>5 DEF Tied
    <3>2. bt.num = Len(b.recs) /\ b.avail = bt.num + bt.avail
          /\ (Len(b.recs) = 0 => bt.cur = 2)
      BY <2>2 DEF OpenRight
    <3>3. Len(b.recs) # 0
      BY <1>2, <1>3, <2>2, <3>2, Zenon
    <3>4. b.avail = Len(b.recs) + bt.avail BY <3>2
    <3> QED BY <1>6, <1>10, <3>1, <3>3, <3>4, Zenon DEF Fits
  <2> QED BY <1>2, <2>1, <2>2
<1> QED BY <1>3, <1>6, <1>9 DEF BtBlockRight, Sized

LEMMA BtSidePost ==
    ASSUME SyncInv, FinderInv, EofIsEnd, StartsAtOne, TreeRight, [Next]_vars, BtPost,
           NEW e \in Nat, NEW f \in [Nat -> Nat], NEW g \in [Nat -> Nat],
           HashSide(e, f), BtSide(e, g)
    PROVE  \E g2 \in [Nat -> Nat] : BtSide(e, g2)'
<1> DEFINE blk == block["bt"]
           b == btBuf[blk]
           n == Ahead("bt")
           r == reading["bt"]
           size == NumBlocks["bt"]
<1>1. SyncType /\ PcType /\ TreeKept BY DEF SyncInv, Control, FinderInv
<1>2. /\ pc["bt"] \in {"post", "fill"} /\ pc'["lz"] = pc["lz"] /\ pc'["bt"] = "next"
      /\ UNCHANGED <<reading, base, mf, bt, lz>>
      /\ filled' = Release(filled, "bt")
      /\ btBuf' = [btBuf EXCEPT ![blk].size = bt.cur]
  <2>1. ~bt.failure BY DEF TreeRight
  <2> QED BY <1>1, <2>1 DEF BtPost, Goto, Post, PcType, Threads
<1>3. CASE ~Codes
  <2>1. BtSide(e, g)' BY <1>2, <1>3 DEF BtSide, Codes
  <2> QED BY <2>1
<1>4. CASE Codes
  <2>1. Runs("bt") /\ "bt" \in Syncs /\ Writing("bt")
    BY <1>2, <1>4, CodesFeeds DEF Syncs, Writing, BtWriting
  <2>2. /\ size \in Nat \ {0} /\ r \in 0..(size - 1) /\ n \in 0..(size - 1)
        /\ blk = Slot(r, n, size)
    BY <2>1, RingOf
  <2>3. Ahead("bt")' = n + 1
    <3>1. filled["bt"] \in Nat /\ One(Held("bt")) \in {0, 1}
      BY <1>1, RingNumbers DEF Syncs
    <3>2. filled["bt"] < size BY <2>2, <3>1 DEF Ahead
    <3>3. filled'["bt"] = filled["bt"] + 1 BY <1>1, <1>2, <3>2 DEF Release, SyncType, Syncs
    <3>4. One(Held("bt"))' = One(Held("bt")) BY <1>2 DEF One, Held
    <3> QED BY <3>1, <3>3, <3>4 DEF Ahead
  <2>4. b \in BtBlocks /\ blk \in 0..(size - 1) /\ DOMAIN btBuf = 0..(size - 1)
    BY <1>1 DEF TreeKept, BtBlocks, SyncType, Syncs
  <2>5. bt.cur \in Nat BY <1>1 DEF TreeKept
  <2>6. OpenRight(b, g[n], e) BY <1>2, <1>4 DEF BtSide, BtWriting
  <2>7. BtChain(g) /\ LzTied(g) BY <1>4 DEF BtSide
  <2>8. Loaded' = Loaded /\ (ReadOver' <=> ReadOver)
    BY <1>2 DEF Loaded, HashAt, ReadOver
  <2>9. PICK x \in Nat : x = g[n] BY <2>2
  <2> HIDE DEF blk, b, n, r, size
  <2>10. PICK b2 \in BtBlocks : /\ b2 = btBuf'[blk] /\ b2.size = bt.cur
                               /\ b2.avail = b.avail /\ b2.recs = b.recs
    <3>1. btBuf'[blk] = [b EXCEPT !.size = bt.cur] BY <1>2, <2>4 DEF b
    <3>2. [b EXCEPT !.size = bt.cur] \in BtBlocks BY <2>4, <2>5 DEF BtBlocks
    <3>3. [b EXCEPT !.size = bt.cur].size = bt.cur
          /\ [b EXCEPT !.size = bt.cur].avail = b.avail
          /\ [b EXCEPT !.size = bt.cur].recs = b.recs
      BY <2>4 DEF BtBlocks
    <3> QED BY <3>1, <3>2, <3>3
  <2>11. /\ DOMAIN btBuf' = 0..(size - 1)
         /\ \A k \in 0..(size - 1) : k # blk => btBuf'[k] = btBuf[k]
    BY <1>2, <2>4
  <2>12. BtBlockRight(b2, x, Loaded, ReadOver) /\ x + Len(b2.recs) = e
    <3>1. OpenRight(b, x, e) BY <2>6, <2>9
    <3>2. Sized(b, b2) BY <2>10 DEF Sized
    <3> QED BY <1>4, <2>4, <3>1, <3>2, BlockDone
  <2>13. OffChain(n, r, size, BtLens, BtOks, BtLens', BtOks')
    <3>1. n < size BY <2>2
    <3>2. ASSUME NEW k \in 0..(size - 1)
          PROVE  (n < size /\ k = Slot(r, n, size)) \/ btBuf'[k] = btBuf[k]
      <4>1. CASE k = blk BY <2>2, <3>1, <4>1
      <4>2. CASE k # blk BY <2>11, <4>2
      <4> QED BY <4>1, <4>2
    <3> QED BY <3>2, BtOff DEF size
  <2>14. BtLens'[blk] = Len(b2.recs) BY <2>4, <2>10, <2>11, Zenon DEF BtLens
  <2>15. <<blk, g[n]>> \in BtOks'
    <3>1. BtBlockRight(btBuf'[blk], x, Loaded', ReadOver') BY <2>8, <2>10, <2>12 DEF BtBlockRight, RecsRight, RecordRight
    <3> QED BY <2>4, <2>9, <2>11, <3>1 DEF BtOks, BtBlockRight, RecsRight, RecordRight
  <2>16. Len(b2.recs) \in 0..BtBlockSize /\ BtBlockSize \in Nat
    <3>1. Len(b.recs) <= BtBlockSize BY <1>1, <2>4 DEF TreeKept, b, size
    <3>2. Len(b.recs) \in Nat BY <2>4 DEF BtBlocks
    <3>3. BtBlockSize \in Nat BY FinderParams
    <3>4. Len(b2.recs) = Len(b.recs) BY <2>10
    <3>5. Len(b.recs) \in 0..BtBlockSize BY <3>1, <3>2, <3>3, UpTo, Zenon
    <3> QED BY <3>3, <3>4, <3>5, Zenon
  <2>17. PICK g2 \in [Nat -> Nat] :
            /\ Linked(g2, n + 1, r, size, BtLens', BtOks', BtBlockSize)
            /\ g2[n + 1] = g[n] + BtLens'[blk] /\ \A k \in 0..n : g2[k] = g[k]
    <3>1. Linked(g, n, r, size, BtLens, BtOks, BtBlockSize) BY <2>7 DEF BtChain, n, r, size
    <3>2. MayPost(g, n, r, size, BtLens, BtOks, BtLens', BtOks', BtBlockSize)
      BY <2>2, <2>13, <2>14, <2>15, <2>16, <3>1 DEF MayPost
    <3>3. Posted(g, n, r, size, BtLens', BtOks', BtBlockSize) BY <3>2, LinkedPost
    <3> QED BY <2>2, <3>3 DEF Posted
  <2>18. BtChain(g2)' BY <1>2, <2>3, <2>17 DEF BtChain, r, size
  <2>19. g2[n + 1] = e BY <2>9, <2>12, <2>14, <2>17
  <2>20. LzTied(g2)'
    <3>1. g2[0] = g[0] BY <2>2, <2>17
    <3>2. Len(Recs)' = Len(Recs)
      <4>1. CASE r = blk BY <1>2, <2>10, <4>1 DEF Recs, r, b
      <4>2. CASE r # blk BY <1>2, <2>2, <2>11, <4>2 DEF Recs, r
      <4> QED BY <4>1, <4>2
    <3>5. LzTied(g)' BY <1>2, <2>7, <3>2 DEF LzTied, LzAt
    <3> QED BY <3>1, <3>5 DEF LzTied
  <2>21. pc'["bt"] \notin BtWriting BY <1>2 DEF BtWriting
  <2>22. BtSide(e, g2)' BY <2>3, <2>18, <2>19, <2>20, <2>21 DEF BtSide
  <2> QED BY <2>17, <2>22
<1> QED BY <1>3, <1>4

LEMMA ChunkStep ==
    ASSUME SyncInv, FinderInv, EofIsEnd, StartsAtOne, TreeRight, [Next]_vars, BtChunk,
           NEW e \in Nat, NEW f \in [Nat -> Nat], NEW g \in [Nat -> Nat],
           HashSide(e, f), BtSide(e, g)
    PROVE  /\ TreeRight' /\ \E e2 \in Nat : HashSide(e2, f)' /\ BtSide(e2, g)'
           /\ \E done, new : Adds(done, new) /\ BtAt' = BtAt + done
           /\ BtAt' <= HashAt'
<1>1. PICK done \in 1..Size, new \in Seq(Records) :
              /\ btBuf' = [btBuf EXCEPT ![block["bt"]].recs = @ \o new]
              /\ Len(new) = done /\ RecsRight(new, BtAt, Loaded, ReadOver)
              /\ BtAt' = BtAt + done /\ TreeRight' /\ bt'.cur > 2
              /\ bt'.num = bt.num + done /\ bt'.avail = bt.avail - done
              /\ bt'.next = bt.next + done /\ bt'.limit = bt.limit
  BY ChunkRight
<1>2. Size \in Nat
  <2>1. pc["bt"] = "fill" /\ ~HeadsDone BY DEF BtChunk, BtMore
  <2>2. Size \in 1..(bt.limit - bt.next + 1) BY <2>1, SizeIs
  <2>3. bt.limit \in Nat /\ bt.next \in Nat BY FinderParams DEF FinderInv, TreeKept
  <2> QED BY <2>2, <2>3
<1>3. done \in Nat \ {0} BY <1>1, <1>2
<1>4. Adds(done, new) BY <1>1, <1>3 DEF Adds
<1>5. PICK e2 \in Nat : HashSide(e2, f)' /\ e2 = e + done /\ e2 <= HashAt'
  BY <1>1, HashSideChunk
<1>6. BtSide(e2, g)' BY <1>4, <1>5, BtSideChunk
<1>7. e = BtAt BY ChunkHeads
<1> QED BY <1>1, <1>4, <1>5, <1>6, <1>7

\* The hash thread is ahead of the tree thread.
LEMMA HashLeads ==
    ASSUME SyncInv, FinderInv, StartsAtOne, Codes, NEW e \in Nat, NEW f \in [Nat -> Nat],
           HashSide(e, f), BtAt <= HashAt
    PROVE  e <= HashAt
<1>1. SyncType BY DEF SyncInv, Control
<1>2. HashAt \in Nat \ {0} BY Places DEF Placed
<1>3. CASE Unused
  <2>1. e = 1 BY <1>3 DEF HashSide
  <2> QED BY <1>2, <2>1
<1>4. CASE Feeds
  <2>1. HashChain(f) /\ Tied(e, f) BY <1>4 DEF HashSide
  <2>2. "hash" \in Syncs /\ Runs("hash") BY <1>4 DEF Syncs, Feeds
  <2>3. /\ Ahead("hash") \in Nat /\ (Held("hash") => Ahead("hash") >= 1)
        /\ NumBlocks["hash"] \in Nat
    BY <2>2, RingOf
  <2>4. \A k \in 0..Ahead("hash") : f[k] <= HashAt BY <2>1 DEF HashChain, Linked
  <2>5. f[0] <= HashAt BY <2>3, <2>4
  <2>6. Held("hash") => f[1] <= HashAt BY <2>3, <2>4
  <2>7. pc["bt"] \notin {"filled", "lockhash"} => Held("hash") BY <1>4 DEF Feeds, Runs, Held
  <2> QED BY <2>1, <2>5, <2>6, <2>7 DEF Tied
<1> QED BY <1>3, <1>4, CodesFeeds

ChainsOf(e, f, g) == HashSide(e, f) /\ BtSide(e, g)

LEMMA ChainsSteps ==
    ASSUME SyncInv, FinderInv, EofIsEnd, StartsAtOne, HighRight, TreeRight, [Next]_vars,
           NEW e \in Nat, NEW f \in [Nat -> Nat], NEW g \in [Nat -> Nat], ChainsOf(e, f, g)
    PROVE  \E e2 \in Nat, f2, g2 \in [Nat -> Nat] : ChainsOf(e2, f2, g2)'
<1>1. HashSide(e, f) /\ BtSide(e, g) BY DEF ChainsOf
<1>2. CASE BtChunk
  <2>1. PICK e2 \in Nat : HashSide(e2, f)' /\ BtSide(e2, g)' BY <1>1, <1>2, ChunkStep
  <2>2. ChainsOf(e2, f, g)' BY <2>1 DEF ChainsOf
  <2> QED BY <2>2
<1>3. CASE BtHeader
  <2>1. PICK e2 \in Nat : /\ HashSide(e2, f)'
                          /\ e2 = IF hashBuf[reading["hash"]].avail < NumHashBytes
                                  THEN e + hashBuf[reading["hash"]].avail ELSE e
    BY <1>1, <1>3, HashSideHeader
  <2>2. BtSide(e2, g)' BY <1>1, <1>3, <2>1, BtSideHeader
  <2>3. ChainsOf(e2, f, g)' BY <2>1, <2>2 DEF ChainsOf
  <2> QED BY <2>3
<1>4. CASE ~BtChunk /\ ~BtHeader
  <2>1. \E f2 \in [Nat -> Nat] : HashSide(e, f2)'
    <3>1. CASE HashFill BY <1>1, <3>1, HashSideFill
    <3>2. CASE BtAsk BY <1>1, <3>2, HashSideAsk
    <3>3. CASE ~HashFill /\ ~BtAsk
      <4>1. HashSide(e, f)' BY <1>1, <1>4, <3>3, HashSideQuiet
      <4> QED BY <4>1
    <3> QED BY <3>1, <3>2, <3>3
  <2>2. \E g2 \in [Nat -> Nat] : BtSide(e, g2)'
    <3>1. CASE AskBlock BY <1>1, <3>1, BtSideAsk
    <3>2. CASE BtPost BY <1>1, <3>2, BtSidePost
    <3>3. CASE BtTakeFree
      <4>1. BtSide(e, g)' BY <1>1, <3>3, BtSideTakeFree
      <4> QED BY <4>1
    <3>4. CASE ~AskBlock /\ ~BtPost /\ ~BtTakeFree
      <4>1. TreeSame BY <1>4, <3>4, TreeQuiet
      <4>2. BtSide(e, g)' BY <1>1, <3>4, <4>1, BtSideSame
      <4> QED BY <4>2
    <3> QED BY <3>1, <3>2, <3>3, <3>4
  <2>3. PICK f2 \in [Nat -> Nat] : HashSide(e, f2)' BY <2>1
  <2>4. PICK g2 \in [Nat -> Nat] : BtSide(e, g2)' BY <2>2
  <2>5. ChainsOf(e, f2, g2)' BY <2>3, <2>4 DEF ChainsOf
  <2> QED BY <2>5
<1> QED BY <1>2, <1>3, <1>4

LEMMA ChainsStep ==
    ASSUME SyncInv, FinderInv, EofIsEnd, StartsAtOne, HighRight, TreeRight, Chains, [Next]_vars
    PROVE  Chains' /\ TreeRight'
<1>1. PICK e \in Nat, f \in [Nat -> Nat], g \in [Nat -> Nat] : ChainsOf(e, f, g)
  BY DEF Chains, ChainsOf
<1>2. Chains'
  <2>1. PICK e2 \in Nat, f2 \in [Nat -> Nat], g2 \in [Nat -> Nat] : ChainsOf(e2, f2, g2)'
    BY <1>1, ChainsSteps
  <2> QED BY <2>1 DEF Chains, ChainsOf
<1>3. TreeRight'
  <2>1. CASE BtChunk BY <1>1, <2>1, ChunkStep DEF ChainsOf
  <2>2. CASE ~BtChunk BY <2>2, TreeStepData
  <2> QED BY <2>1, <2>2
<1> QED BY <1>2, <1>3

-----------------------------------------------------------------------------
(* The encoder *)

\* Only a position taken and a new block change what the encoder has.
LEMMA CoderStays ==
    ASSUME SyncInv, FinderInv, [Next]_vars, ~(GetMatches \/ Skip \/ LzHeader)
    PROVE  /\ lz'.pos = lz.pos /\ lz'.next = lz.next /\ lz'.limit = lz.limit
           /\ lz'.avail = lz.avail /\ lz'.failure = lz.failure
           /\ offers' = offers
<1>1. lz \in LzRecords BY DEF FinderInv, CoderKept, LzRecords
<1>2. CASE HashMove
  <2>1. lz' = [lz EXCEPT !.buffer = lz'.buffer] BY <1>2, MoveStays
  <2>2. lz' = [lz EXCEPT !.buffer = lz'.buffer] =>
            /\ lz'.pos = lz.pos /\ lz'.next = lz.next /\ lz'.limit = lz.limit
            /\ lz'.avail = lz.avail /\ lz'.failure = lz.failure
    BY <1>1 DEF LzRecords
  <2> QED BY <1>2, <2>1, <2>2 DEF HashMove
<1>3. CASE ~HashMove
  <2>1. lz' = lz /\ offers' = offers
    <3>1. CASE LzStep
      BY <3>1 DEF LzStep, CreateHash, CreateBt, CreateFails, InitFinder, AskBlock, TakeBlock,
         StopOnError, Flush, Finish, Finished, DestroyNone, Destroy, Joined, finderVars
    <3>2. CASE BtStep
      BY <3>2 DEF BtStep, BtStart, BtTakeFree, BtLock, BtAsk, BtTake, BtHeader, BtChunk, BtPost,
         BtStopHash, BtHashStopped, BtSayStopped, finderVars
    <3>3. CASE HashStep
      BY <1>3, <3>3 DEF HashStep, HashStart, HashLockBt, HashLockHash, HashTakeFree, HashFill,
         HashSayStopped, finderVars
    <3>4. CASE WriteFails \/ UNCHANGED vars BY <3>4 DEF WriteFails, vars, finderVars
    <3> QED BY <3>1, <3>2, <3>3, <3>4 DEF Next, ThreadStep
  <2> QED BY <2>1
<1> QED BY <1>2, <1>3

\* A position taken.
LEMMA Taken ==
    ASSUME FinderInv, GetMatches \/ Skip
    PROVE  /\ pc["lz"] = "code" /\ pc' = pc /\ ~RecsDone /\ lz.avail \in Nat \ {0}
           /\ LzAt' = LzAt + 1 /\ lz'.pos = lz.pos + 1 /\ lz'.next = lz.next + 1
           /\ lz'.avail = lz.avail - 1 /\ lz'.limit = lz.limit /\ lz'.failure = lz.failure
           /\ UNCHANGED <<HashView, BtAt, base, bt, btBuf, hashBuf, reading, result, rcFailed>>
<1>1. lz \in LzRecords BY DEF FinderInv, CoderKept, LzRecords
<1>2. CodeOne /\ Advance /\ UNCHANGED <<syncVars, rcFailed, result, base, mf, hashBuf, btBuf, bt>>
  BY DEF GetMatches, Skip, LzOnly
<1>3. lz'.buffer = lz.buffer + 1 /\ lz'.pos = lz.pos + 1 /\ lz'.next = lz.next + 1
      /\ lz'.avail = lz.avail - 1 /\ lz'.limit = lz.limit /\ lz'.failure = lz.failure
  BY <1>1, <1>2 DEF Advance, LzRecords
<1>4. lz.avail \in Nat \ {0} BY <1>1, <1>2 DEF CodeOne, LzRecords
<1>5. base \in Int /\ lz.buffer \in Int BY <1>1 DEF LzRecords, FinderInv, WindowKept
<1>6. LzAt' = LzAt + 1 BY <1>2, <1>3, <1>5 DEF LzAt
<1> QED BY <1>2, <1>3, <1>4, <1>6 DEF CodeOne, syncVars, HashView, HashAt, Loaded, BtAt

\* What the encoder makes of a block's header.
LEMMA HeaderIs ==
    ASSUME SyncInv, FinderInv, LzHeader
    PROVE  LET b == btBuf[reading["bt"]]
               norm == LzNormalize(lz.pos, hash.low)
           IN  /\ pc["lz"] = "lock" /\ b \in BtBlocks
               /\ pc'["lz"] = (IF b.avail = 0 THEN "flush" ELSE "code")
               /\ lz'.next = 1 /\ lz'.limit = Len(b.recs) /\ lz'.avail = b.avail
               /\ lz'.pos = norm.pos /\ lz'.failure = (lz.failure \/ b.size < 2 \/ b.size > BtBlockSize)
               /\ hash'.low = norm.low
               /\ UNCHANGED <<HashView, BtAt, LzAt, base, bt, btBuf, reading, offers, result, rcFailed>>
<1> DEFINE b == btBuf[reading["bt"]]
           norm == LzNormalize(lz.pos, hash.low)
<1>1. lz \in LzRecords /\ hash \in [high : [HighKeys -> 0..MaxVal], low : [LowKeys -> 0..MaxVal]]
  BY DEF FinderInv, CoderKept, LzRecords, HashesKept
<1>2. b \in BtBlocks
  <2>1. reading["bt"] \in 0..(NumBlocks["bt"] - 1) BY DEF SyncInv, Control, SyncType, Syncs
  <2> QED BY <2>1 DEF FinderInv, TreeKept, BtBlocks
<1>3. /\ lz' = [lz EXCEPT !.next = 1, !.limit = Len(b.recs), !.avail = b.avail,
                          !.pos = norm.pos,
                          !.failure = @ \/ b.size < 2 \/ b.size > BtBlockSize]
      /\ hash' = [hash EXCEPT !.low = norm.low]
      /\ pc["lz"] = "lock" /\ Goto("lz", IF b.avail = 0 THEN "flush" ELSE "code")
      /\ UNCHANGED <<base, mf, hashBuf, btBuf, bt, offers, rcFailed, result, reading>>
  BY DEF LzHeader, Lock
<1>4. pc'["lz"] = (IF b.avail = 0 THEN "flush" ELSE "code")
  BY <1>3 DEF Goto, SyncInv, Control, PcType, Threads
<1> SUFFICES /\ b \in BtBlocks
             /\ lz'.next = 1 /\ lz'.limit = Len(b.recs) /\ lz'.avail = b.avail
             /\ lz'.pos = norm.pos /\ lz'.failure = (lz.failure \/ b.size < 2 \/ b.size > BtBlockSize)
             /\ hash'.low = norm.low
             /\ UNCHANGED <<HashView, BtAt, LzAt>>
  BY <1>3, <1>4
<1> DEFINE f == lz.failure \/ b.size < 2 \/ b.size > BtBlockSize
           l == Len(b.recs)
           a == b.avail
<1>5. lz' = [lz EXCEPT !.next = 1, !.limit = l, !.avail = a, !.pos = norm.pos, !.failure = f]
  BY <1>3
<1> HIDE DEF b, norm, f, l, a
<1>6. lz'.next = 1 /\ lz'.limit = l /\ lz'.avail = a /\ lz'.pos = norm.pos /\ lz'.failure = f
      /\ lz'.buffer = lz.buffer
  BY <1>1, <1>5 DEF LzRecords
<1>7. hash'.low = norm.low BY <1>1, <1>3
<1>8. UNCHANGED <<HashView, BtAt, LzAt>>
  BY <1>3, <1>6 DEF HashView, HashAt, Loaded, BtAt, LzAt
<1> QED BY <1>2, <1>6, <1>7, <1>8 DEF f, l, a

LEMMA LowStep == ASSUME SyncInv, FinderInv, LowRight, [Next]_vars PROVE LowRight'
<1>1. LzAt \in Nat \ {0} /\ lz.pos \in 1..MaxVal /\ MaxVal \in Nat
  <2>1. LzAt \in Int /\ LzAt >= 1 BY Places DEF Placed, LowRight
  <2> QED BY <2>1, FinderParams DEF FinderInv, CoderKept
<1>2. hash \in [high : [HighKeys -> 0..MaxVal], low : [LowKeys -> 0..MaxVal]]
  BY DEF FinderInv, HashesKept
<1>3. \A key \in LowKeys : hash.low[key] \in Nat BY <1>1, <1>2
<1>4. lz.pos <= LzAt /\ (lz.pos = LzAt \/ lz.pos > HistorySize)
      /\ \A key \in LowKeys : LowEntryRight(key, hash.low[key], LzAt, lz.pos)
  BY DEF LowRight
<1>5. HistorySize \in Nat /\ BtBlockSize \in Nat /\ MaxVal > HistorySize + 1 + BtBlockSize
  BY FinderParams
<1>6. CASE GetMatches \/ Skip
  <2>1. LzAt' = LzAt + 1 /\ lz'.pos = lz.pos + 1 BY <1>6, Taken
  <2>2. hash'.low = hash.low \/ hash'.low = LowSet(LzAt, lz.pos)
    BY <1>2, <1>6 DEF GetMatches, Skip
  <2>3. ASSUME NEW key \in LowKeys
        PROVE  LowEntryRight(key, hash'.low[key], LzAt + 1, lz.pos + 1)
    <3>1. hash'.low[key] = hash.low[key]
          \/ (hash'.low[key] = lz.pos /\ key \in {H2(LzAt), H3(LzAt)})
      BY <1>2, <2>2 DEF LowSet
    <3> DEFINE e == hash.low[key]
    <3>2. e \in Nat /\ LowEntryRight(key, e, LzAt, lz.pos) BY <1>3, <1>4
    <3>3. CASE hash'.low[key] = hash.low[key]
      <4> HIDE DEF e
      <4>1. (LzAt + 1) - ((lz.pos + 1) - e) = LzAt - (lz.pos - e) BY <1>1, <3>2
      <4>2. e < lz.pos => e < lz.pos + 1 BY <1>1, <3>2
      <4>3. lz.pos - e < LzAt => (lz.pos + 1) - e < LzAt + 1 BY <1>1, <3>2
      <4>4. LowEntryRight(key, e, LzAt + 1, lz.pos + 1)
        BY <3>2, <4>1, <4>2, <4>3 DEF LowEntryRight
      <4> QED BY <3>3, <4>4 DEF e
    <3>4. CASE hash'.low[key] = lz.pos /\ key \in {H2(LzAt), H3(LzAt)}
      <4>1. (LzAt + 1) - ((lz.pos + 1) - lz.pos) = LzAt /\ lz.pos < lz.pos + 1
            /\ (lz.pos + 1) - lz.pos < LzAt + 1
        BY <1>1
      <4>2. Len(H2(LzAt)) = 1 /\ Len(H3(LzAt)) = 2 BY <1>1, LowKeysDecide
      <4> QED BY <3>4, <4>1, <4>2 DEF LowEntryRight
    <3> QED BY <3>1, <3>3, <3>4
  <2>4. LzAt + 1 >= 1 /\ lz.pos + 1 <= LzAt + 1
        /\ (lz.pos + 1 = LzAt + 1 \/ lz.pos + 1 > HistorySize)
    BY <1>1, <1>4, <1>5
  <2> QED BY <2>1, <2>3, <2>4 DEF LowRight
<1>7. CASE LzHeader
  <2> DEFINE norm == LzNormalize(lz.pos, hash.low)
             sub == lz.pos - HistorySize - 1
  <2>1. lz'.pos = norm.pos /\ hash'.low = norm.low /\ LzAt' = LzAt BY <1>7, HeaderIs
  <2>2. CASE ~(lz.pos >= MaxVal - BtBlockSize)
    <3>1. norm.pos = lz.pos /\ norm.low = hash.low BY <2>2 DEF LzNormalize
    <3> HIDE DEF norm
    <3> QED BY <2>1, <3>1 DEF LowRight
  <2>3. CASE lz.pos >= MaxVal - BtBlockSize
    <3>1. norm.pos = lz.pos - sub /\ norm.low = Normalize3(sub, hash.low)
      BY <2>3 DEF LzNormalize
    <3>2. sub \in Nat /\ lz.pos - sub = HistorySize + 1 BY <1>1, <1>5, <2>3
    <3>3. ASSUME NEW key \in LowKeys
          PROVE  LowEntryRight(key, hash'.low[key], LzAt, lz.pos - sub)
      <4> DEFINE e == hash.low[key]
      <4>1. e \in Nat /\ LowEntryRight(key, e, LzAt, lz.pos) BY <1>3, <1>4
      <4>2. hash'.low[key] = IF e > sub THEN e - sub ELSE 0
        BY <1>2, <2>1, <3>1 DEF Normalize3
      <4> HIDE DEF e, sub, norm
      <4>3. CASE e > sub
        <5>1. (lz.pos - sub) - (e - sub) = lz.pos - e BY <1>1, <3>2, <4>1
        <5>2. e # 0 BY <3>2, <4>1, <4>3
        <5>3. e < lz.pos => e - sub < lz.pos - sub BY <1>1, <3>2, <4>1
        <5> QED BY <4>1, <4>2, <4>3, <5>1, <5>2, <5>3 DEF LowEntryRight
      <4>4. CASE ~(e > sub) BY <4>2, <4>4 DEF LowEntryRight
      <4> QED BY <4>3, <4>4
    <3>4. lz.pos - sub <= LzAt BY <1>1, <1>4, <1>5, <3>2
    <3>5. lz.pos - sub > HistorySize BY <1>5, <3>2
    <3> HIDE DEF norm, sub
    <3> QED BY <1>1, <2>1, <3>1, <3>3, <3>4, <3>5 DEF LowRight
  <2> QED BY <2>2, <2>3
<1>8. CASE ~(GetMatches \/ Skip \/ LzHeader)
  <2>1. lz'.pos = lz.pos BY <1>8, CoderStays
  <2>2. LzAt' = LzAt BY <1>8, Stays
  <2>3. CASE InitFinder
    <3>1. hash'.low = Empty(LowKeys) BY <1>2, <2>3 DEF InitFinder
    <3>2. \A key \in LowKeys : hash'.low[key] = 0 BY <3>1 DEF Empty
    <3> QED BY <1>1, <1>4, <2>1, <2>2, <3>2 DEF LowRight, LowEntryRight
  <2>4. CASE ~InitFinder
    <3>1. hash'.low = hash.low BY <1>8, <2>4, TablesStay
    <3> QED BY <2>1, <2>2, <3>1 DEF LowRight
  <2> QED BY <2>3, <2>4
<1> QED BY <1>6, <1>7, <1>8

\* The block the encoder has starts where its positions say.
LEMMA BlockRead ==
    ASSUME SyncInv, FinderInv, StartsAtOne, pc["lz"] \in {"lock", "code", "flush", "finish"},
           NEW e \in Nat, NEW g \in [Nat -> Nat], BtSide(e, g)
    PROVE  /\ btBuf[reading["bt"]] \in BtBlocks
           /\ BtBlockRight(btBuf[reading["bt"]], g[0], Loaded, ReadOver)
           /\ g[1] = g[0] + Len(Recs) /\ g[1] <= e /\ LzTied(g)
<1> DEFINE n == Ahead("bt")
           r == reading["bt"]
           size == NumBlocks["bt"]
<1>1. Codes BY DEF Codes, LzCoding
<1>2. Runs("bt") /\ "bt" \in Syncs /\ Held("bt") BY <1>1, CodesFeeds DEF Syncs, Held
<1>3. n \in 1..size /\ size \in Nat \ {0} /\ r \in 0..(size - 1) BY <1>2, RingOf
<1>4. BtChain(g) /\ LzTied(g) BY <1>1 DEF BtSide
<1>5. Linked(g, n, r, size, BtLens, BtOks, BtBlockSize) BY <1>4 DEF BtChain
<1>6. btBuf \in [0..(size - 1) -> BtBlocks] BY DEF FinderInv, TreeKept, BtBlocks
<1> HIDE DEF n, r, size
<1>7. Slot(r, 0, size) = r BY <1>3 DEF Slot
<1>8. 0 \in 0..(n - 1) /\ 1 \in 0..n BY <1>3
<1>9. g[0 + 1] = g[0] + BtLens[r] /\ <<r, g[0]>> \in BtOks /\ g[1] <= g[n]
  BY <1>5, <1>7, <1>8 DEF Linked
<1>10. BtLens[r] = Len(btBuf[r].recs) BY <1>3, <1>6 DEF BtLens
<1>11. BtBlockRight(btBuf[r], g[0], Loaded, ReadOver) BY <1>9 DEF BtOks
<1>12. g[n] <= e
  <2>1. n \in Nat /\ g[n] \in Nat BY <1>3
  <2>2. CASE pc["bt"] \in BtWriting
    <3>1. OpenRight(btBuf[block["bt"]], g[n], e) BY <1>1, <2>2 DEF BtSide, n
    <3>2. block["bt"] \in 0..(size - 1) BY DEF SyncInv, Control, SyncType, Syncs, size
    <3>3. Len(btBuf[block["bt"]].recs) \in Nat
      <4>1. btBuf[block["bt"]].recs \in Seq(Records) BY <1>6, <3>2 DEF BtBlocks
      <4>2. \A s \in Seq(Records) : Len(s) \in Nat OBVIOUS
      <4> QED BY <4>1, <4>2, Zenon
    <3>4. e = g[n] + Len(btBuf[block["bt"]].recs) BY <3>1 DEF OpenRight
    <3>5. \A x, m \in Nat : x <= x + m OBVIOUS
    <3> QED BY <2>1, <3>3, <3>4, <3>5, Zenon
  <2>3. CASE pc["bt"] \notin BtWriting
    <3>1. g[n] = e BY <1>1, <2>3 DEF BtSide, n
    <3> QED BY <2>1, <3>1
  <2> QED BY <2>2, <2>3
<1>13. g[1] = g[0] + Len(Recs) BY <1>9, <1>10 DEF Recs, r
<1>14. g[1] \in Nat /\ g[n] \in Nat BY <1>3
<1>15. g[1] <= e BY <1>9, <1>12, <1>14
<1>16. btBuf[r] \in BtBlocks BY <1>3, <1>6
<1> QED BY <1>4, <1>11, <1>13, <1>15, <1>16 DEF r

\* The record the encoder takes is the one of its position.
LEMMA RecordTaken ==
    ASSUME SyncInv, FinderInv, StartsAtOne, Chains, pc["lz"] = "code", ~RecsDone
    PROVE  RecordRight(TheRec, LzAt, Loaded, ReadOver)
<1>1. PICK e \in Nat, f \in [Nat -> Nat], g \in [Nat -> Nat] : BtSide(e, g) BY DEF Chains
<1>2. /\ btBuf[reading["bt"]] \in BtBlocks
      /\ BtBlockRight(btBuf[reading["bt"]], g[0], Loaded, ReadOver) /\ LzTied(g)
  BY <1>1, BlockRead
<1>3. RecsRight(Recs, g[0], Loaded, ReadOver) BY <1>2 DEF BtBlockRight, Recs
<1>4. LzAt = g[0] + lz.next - 1 /\ lz.limit = Len(Recs) BY <1>2 DEF LzTied
<1>5. lz.next \in Nat \ {0} /\ lz.limit \in Nat BY DEF FinderInv, CoderKept
<1>6. lz.next \in 1..Len(Recs)
  <2>1. lz.next \in 1..lz.limit BY <1>5 DEF RecsDone
  <2> QED BY <1>4, <2>1, Zenon
<1> QED BY <1>3, <1>4, <1>6 DEF RecsRight, TheRec

LEMMA CodesOn ==
    ASSUME SyncInv, [Next]_vars, ~LzHeader, pc'["lz"] \in {"code", "flush"}
    PROVE  pc'["lz"] = pc["lz"]
<1>1. PcType BY DEF SyncInv, Control
<1>2. CASE LzStep
  BY <1>1, <1>2 DEF LzStep, CreateHash, CreateBt, CreateFails, InitFinder, AskBlock, TakeBlock,
     GetMatches, Skip, StopOnError, Flush, Finish, Finished, DestroyNone, Destroy, Joined,
     Goto, PcType, Threads, syncVars, Next1
<1>3. CASE BtStep
  BY <1>1, <1>3 DEF BtStep, BtStart, BtTakeFree, BtLock, BtAsk, BtTake, BtHeader, BtChunk, BtPost,
     BtStopHash, BtHashStopped, BtSayStopped, Goto, PcType, Threads, syncVars
<1>4. CASE HashStep
  BY <1>1, <1>4 DEF HashStep, HashStart, HashLockBt, HashLockHash, HashMove, HashTakeFree,
     HashFill, HashSayStopped, Goto, PcType, Threads
<1>5. CASE WriteFails \/ UNCHANGED vars BY <1>5 DEF WriteFails, vars, syncVars
<1> QED BY <1>2, <1>3, <1>4, <1>5 DEF Next, ThreadStep

LEMMA CodeStep ==
    ASSUME SyncInv, FinderInv, EofIsEnd, StartsAtOne, Chains, CodeRight, [Next]_vars
    PROVE  CodeRight'
<1>1. lz \in LzRecords BY DEF FinderInv, CoderKept, LzRecords
<1>2. LzAt \in Int /\ Loaded \in Nat BY Places DEF Placed
<1>3. ~lz.failure BY DEF CodeRight
<1>4. CASE GetMatches \/ Skip
  <2>1. /\ pc["lz"] = "code" /\ pc' = pc /\ lz.avail \in Nat
        /\ LzAt' = LzAt + 1 /\ lz'.avail = lz.avail - 1 /\ lz'.limit = lz.limit
        /\ lz'.failure = lz.failure /\ Loaded' = Loaded
    BY <1>4, Taken DEF HashView
  <2>2. (LzAt + 1) + (lz.avail - 1) = LzAt + lz.avail BY <1>2, <2>1
  <2> QED BY <1>3, <2>1, <2>2 DEF CodeRight
<1>5. CASE LzHeader
  <2>1. PICK e \in Nat, f \in [Nat -> Nat], g \in [Nat -> Nat] : BtSide(e, g) BY DEF Chains
  <2>2. pc["lz"] = "lock" BY <1>5, HeaderIs
  <2>3. BtBlockRight(btBuf[reading["bt"]], g[0], Loaded, ReadOver) /\ LzTied(g)
    BY <2>1, <2>2, BlockRead
  <2>4. LzAt = g[0] BY <2>2, <2>3 DEF LzTied
  <2> DEFINE b == btBuf[reading["bt"]]
  <2>5. /\ b \in BtBlocks /\ pc'["lz"] = (IF b.avail = 0 THEN "flush" ELSE "code")
        /\ lz'.limit = Len(b.recs) /\ lz'.avail = b.avail
        /\ lz'.failure = (lz.failure \/ b.size < 2 \/ b.size > BtBlockSize)
        /\ LzAt' = LzAt /\ UNCHANGED HashView
    BY <1>5, HeaderIs
  <2>6. BtBlockRight(b, LzAt, Loaded, ReadOver) BY <2>3, <2>4
  <2> HIDE DEF b
  <2>7. ~lz'.failure
    <3>1. b.size \in 2..BtBlockSize BY <2>6 DEF BtBlockRight
    <3>2. BtBlockSize \in Nat BY FinderParams
    <3>3. ~(b.size < 2) /\ ~(b.size > BtBlockSize) BY <3>1, <3>2
    <3> QED BY <1>3, <2>5, <3>1, <3>2, <3>3, Zenon
  <2>8. Loaded' = Loaded /\ (ReadOver' <=> ReadOver) BY <2>5 DEF HashView, ReadOver
  <2>9. pc'["lz"] = "code" => LzAt' + lz'.avail <= Loaded' /\ lz'.limit # 0
    BY <2>5, <2>6, <2>8 DEF BtBlockRight
  <2>10. pc'["lz"] = "flush" => ReadOver' /\ LzAt' = Loaded'
    BY <2>5, <2>6, <2>8 DEF BtBlockRight
  <2> QED BY <2>7, <2>9, <2>10 DEF CodeRight
<1>6. CASE ~(GetMatches \/ Skip \/ LzHeader)
  <2>1. lz'.avail = lz.avail /\ lz'.limit = lz.limit /\ lz'.failure = lz.failure
    BY <1>6, CoderStays
  <2>2. LzAt' = LzAt BY <1>6, Stays
  <2>3. /\ Loaded' \in Nat /\ Loaded <= Loaded'
        /\ ReadOver => ReadOver' /\ Loaded' = Loaded
    BY Later
  <2>4. pc'["lz"] \in {"code", "flush"} => pc'["lz"] = pc["lz"] BY <1>6, CodesOn
  <2>5. lz.avail \in Nat BY <1>1 DEF LzRecords
  <2>6. LzAt + lz.avail <= Loaded => LzAt + lz.avail <= Loaded' BY <1>2, <2>3, <2>5
  <2> QED BY <1>3, <2>1, <2>2, <2>3, <2>4, <2>6 DEF CodeRight
<1> QED BY <1>4, <1>5, <1>6

LEMMA OffersAre == OffersRight <=> OffersOf(LzAt - 1, offers, Loaded)
BY DEF OffersRight, OffersOf

\* More of the file does not make an offer wrong.
LEMMA OffersStay ==
    ASSUME NEW a \in Int, NEW ms, NEW loaded \in Nat, NEW later \in Nat, loaded <= later,
           OffersOf(a, ms, loaded)
    PROVE  OffersOf(a, ms, later)
<1>1. ASSUME NEW len, NEW d, OfferRight(a, len, d, loaded) PROVE OfferRight(a, len, d, later)
  <2>1. len \in Nat /\ a + len <= loaded BY <1>1 DEF OfferRight
  <2>2. a + len <= later BY <2>1
  <2> QED BY <1>1, <2>2 DEF OfferRight
<1> QED BY <1>1 DEF OffersOf

\* The short matches come before the long one.
LEMMA MixThenLong ==
    ASSUME NEW a \in Nat, NEW loaded \in Nat, NEW mix \in Seq(Nat \X Int), OffersOf(a, mix, loaded),
           \A i \in DOMAIN mix : mix[i][1] <= 3,
           NEW len \in Nat, NEW d \in Int, len >= 4, OfferRight(a, len, d, loaded)
    PROVE  OffersOf(a, mix \o <<<<len, d>>>>, loaded)
<1> DEFINE long == <<<<len, d>>>>
<1>1. long \in Seq(Nat \X Int) /\ Len(long) = 1 /\ long[1] = <<len, d>> OBVIOUS
<1> HIDE DEF long
<1>2. /\ mix \o long \in Seq(Nat \X Int) /\ Len(mix \o long) = Len(mix) + Len(long)
      /\ \A i \in 1..Len(mix) : (mix \o long)[i] = mix[i]
      /\ \A i \in 1..Len(long) : (mix \o long)[Len(mix) + i] = long[i]
  <2> DEFINE P == Nat \X Int
  <2>1. mix \in Seq(P) /\ long \in Seq(P) BY <1>1
  <2> SUFFICES /\ mix \o long \in Seq(P) /\ Len(mix \o long) = Len(mix) + Len(long)
               /\ \A i \in 1..Len(mix) : (mix \o long)[i] = mix[i]
               /\ \A i \in 1..Len(long) : (mix \o long)[Len(mix) + i] = long[i]
    OBVIOUS
  <2> HIDE DEF P
  <2> QED BY <2>1, Joins
<1> DEFINE all == mix \o long
           n == Len(mix)
<1>3. n \in Nat /\ DOMAIN all = 1..(n + 1) /\ DOMAIN mix = 1..n /\ all[n + 1] = <<len, d>>
      /\ \A i \in 1..n : all[i] = mix[i] /\ mix[i] \in Nat \X Int
  BY <1>1, <1>2
<1> SUFFICES OffersOf(a, all, loaded) BY DEF long
<1> HIDE DEF all, n
<1> SUFFICES ASSUME NEW i \in 1..(n + 1)
             PROVE  /\ OfferRight(a, all[i][1], all[i][2], loaded)
                    /\ i > 1 => all[i][1] > all[i - 1][1]
  BY <1>3 DEF OffersOf
<1>4. CASE i \in 1..n
  <2>1. all[i] = mix[i] BY <1>3, <1>4
  <2>2. i > 1 => i - 1 \in 1..n BY <1>3, <1>4
  <2>3. i > 1 => all[i - 1] = mix[i - 1] BY <1>3, <2>2
  <2>4. OfferRight(a, mix[i][1], mix[i][2], loaded) /\ (i > 1 => mix[i][1] > mix[i - 1][1])
    BY <1>3, <1>4 DEF OffersOf
  <2> QED BY <2>1, <2>3, <2>4
<1>5. CASE i = n + 1
  <2>1. all[i][1] = len /\ all[i][2] = d BY <1>3, <1>5
  <2>2. i > 1 => len > all[i - 1][1]
    <3> SUFFICES ASSUME i > 1 PROVE len > all[i - 1][1] OBVIOUS
    <3>1. i - 1 \in 1..n BY <1>3, <1>5
    <3>2. all[i - 1] = mix[i - 1] /\ mix[i - 1] \in Nat \X Int /\ mix[i - 1][1] <= 3
      BY <1>3, <3>1
    <3>3. mix[i - 1][1] \in Nat BY <3>2
    <3>4. \A m \in Nat : m <= 3 => len > m OBVIOUS
    <3> QED BY <3>2, <3>3, <3>4
  <2> QED BY <2>1, <2>2
<1>6. i \in 1..n \/ i = n + 1 BY <1>3
<1> QED BY <1>4, <1>5, <1>6

\* What GetMatches offers.
LEMMA Got ==
    ASSUME SyncInv, FinderInv, StartsAtOne, Chains, LowRight, CodeRight, GetMatches
    PROVE  OffersOf(LzAt, offers', Loaded)
<1> DEFINE a == LzAt
           long == TheRec.pairs
           minPos == IF long # <<>> THEN lz.pos - (long[1][2] - 1)
                     ELSE IF lz.pos > HistorySize THEN lz.pos - HistorySize ELSE 1
           mix == long # <<>> \/ lz.avail - 1 >= 3
           short == MixMatches(LzAt, minPos)
<1>1. offers' = (IF mix THEN short \o long ELSE long) BY DEF GetMatches
<1>2. pc["lz"] = "code" /\ ~RecsDone BY DEF GetMatches, CodeOne
<1>3. PICK most \in 0..MatchMaxLen : /\ long = ExpectedIn(a, most) /\ a + most <= Loaded
  <2>1. RecordRight(TheRec, LzAt, Loaded, ReadOver) BY <1>2, RecordTaken
  <2> QED BY <2>1 DEF RecordRight
<1>4. a \in Nat \ {0} /\ Loaded \in Nat /\ most \in Nat
  <2>1. LzAt \in Int /\ LzAt >= 1 /\ Loaded \in Nat BY Places DEF Placed, LowRight
  <2>2. MatchMaxLen \in Nat BY FinderParams
  <2> QED BY <2>1, <2>2
<1>5. lz.pos \in Nat \ {0} /\ lz.pos <= a /\ (lz.pos = a \/ lz.pos > HistorySize)
  <2>1. MaxVal \in Nat BY FinderParams
  <2> QED BY <2>1 DEF LowRight, FinderInv, CoderKept
<1>6. HistorySize \in Nat \ {0} /\ NumHashBytes = 4 BY FinderParams
<1>7. lz.avail \in Nat /\ a + lz.avail <= Loaded
  BY <1>2 DEF CodeRight, FinderInv, CoderKept
<1>8. CASE long # <<>>
  <2>1. PICK len \in Nat, d \in 1..Least(HistorySize, a - 1) :
          ExpectedIn(a, most) = <<<<len, d>>>> /\ len >= NumHashBytes
          /\ OfferRight(a, len, d, Loaded)
    BY <1>3, <1>4, <1>8, ExpectedIsOffer
  <2>2. long = <<<<len, d>>>> BY <1>3, <2>1
  <2>3. minPos = lz.pos - (d - 1)
    <3>1. long[1][2] = d BY <2>2
    <3> HIDE DEF long
    <3> QED BY <1>8, <3>1
  <2>4. d \in Nat \ {0} /\ d <= HistorySize /\ d <= a - 1 BY <1>4, <1>6 DEF Least
  <2>5. minPos \in Nat \ {0} /\ lz.pos - minPos <= HistorySize
    <3> HIDE DEF minPos, a
    <3> QED BY <1>4, <1>5, <1>6, <2>3, <2>4
  <2>6. LzAt + 3 <= Loaded
    <3>1. a + len <= Loaded /\ len >= 4 BY <1>6, <2>1 DEF OfferRight
    <3> HIDE DEF a
    <3>2. a + 3 <= Loaded BY <1>4, <3>1
    <3> QED BY <3>2 DEF a
  <2> HIDE DEF minPos
  <2>7. /\ short \in Seq(Nat \X Int) /\ OffersOf(LzAt, short, Loaded)
        /\ \A i \in DOMAIN short : short[i][1] <= 3
    BY <2>5, <2>6, MixRight
  <2>8. offers' = short \o <<<<len, d>>>> BY <1>1, <1>8, <2>2
  <2>9. d \in Int /\ len >= 4 /\ OfferRight(LzAt, len, d, Loaded) BY <1>6, <2>1, <2>4
  <2>10. LzAt \in Nat BY <1>4
  <2> HIDE DEF short, a, long
  <2>11. OffersOf(LzAt, short \o <<<<len, d>>>>, Loaded)
    BY <1>4, <2>7, <2>9, <2>10, MixThenLong
  <2> QED BY <2>8, <2>11
<1>9. CASE long = <<>> /\ lz.avail - 1 >= 3
  <2>1. minPos = IF lz.pos > HistorySize THEN lz.pos - HistorySize ELSE 1 BY <1>9
  <2>2. minPos \in Nat \ {0} /\ lz.pos - minPos <= HistorySize
    <3> HIDE DEF minPos
    <3> QED BY <1>5, <1>6, <2>1
  <2>3. LzAt + 3 <= Loaded
    <3> HIDE DEF a
    <3>1. a + 3 <= Loaded BY <1>4, <1>7, <1>9
    <3> QED BY <3>1 DEF a
  <2> HIDE DEF minPos
  <2>4. short \in Seq(Nat \X Int) /\ OffersOf(LzAt, short, Loaded)
    BY <2>2, <2>3, MixRight
  <2> HIDE DEF short
  <2>5. offers' = short
    <3>1. offers' = short \o <<>> BY <1>1, <1>9
    <3>2. short \o <<>> = short BY <2>4
    <3> QED BY <3>1, <3>2
  <2> QED BY <2>4, <2>5
<1>10. CASE long = <<>> /\ ~(lz.avail - 1 >= 3)
  <2>1. offers' = <<>> BY <1>1, <1>10
  <2>2. DOMAIN <<>> = {} OBVIOUS
  <2> QED BY <2>1, <2>2 DEF OffersOf
<1> QED BY <1>8, <1>9, <1>10

LEMMA OffersStep ==
    ASSUME SyncInv, FinderInv, EofIsEnd, StartsAtOne, Chains, LowRight, CodeRight, OffersRight,
           [Next]_vars
    PROVE  OffersRight'
<1>1. LzAt \in Int /\ Loaded \in Nat BY Places DEF Placed
<1>2. OffersRight' <=> OffersOf(LzAt' - 1, offers', Loaded') BY DEF OffersRight, OffersOf
<1>3. OffersOf(LzAt - 1, offers, Loaded) BY OffersAre
<1>4. CASE GetMatches
  <2>1. OffersOf(LzAt, offers', Loaded) BY <1>4, Got
  <2>2. LzAt' = LzAt + 1 /\ Loaded' = Loaded BY <1>4, Taken DEF HashView
  <2>3. LzAt' - 1 = LzAt BY <1>1, <2>2
  <2> QED BY <1>2, <2>1, <2>2, <2>3
<1>5. CASE Skip
  <2>1. offers' = <<>> BY <1>5 DEF Skip
  <2>2. DOMAIN <<>> = {} OBVIOUS
  <2> QED BY <1>2, <2>1, <2>2 DEF OffersOf
<1>6. CASE ~(GetMatches \/ Skip)
  <2>1. offers' = offers
    <3>1. CASE LzHeader BY <3>1, HeaderIs
    <3>2. CASE ~LzHeader BY <1>6, <3>2, CoderStays
    <3> QED BY <3>1, <3>2
  <2>2. LzAt' = LzAt BY <1>6, Stays
  <2>3. Loaded' \in Nat /\ Loaded <= Loaded' BY Later
  <2>4. LzAt - 1 \in Int BY <1>1
  <2>5. OffersOf(LzAt - 1, offers, Loaded') BY <1>1, <1>3, <2>3, <2>4, OffersStay
  <2> QED BY <1>2, <2>1, <2>2, <2>5
<1> QED BY <1>4, <1>5, <1>6

LzEnding == {"finish", "stopping"} \union LzAfter

\* Who ends the coding says why, and it is not said again.
LEMMA EndsOnce ==
    ASSUME SyncInv, [Next]_vars, ~(Flush \/ StopOnError \/ CreateFails)
    PROVE  /\ result' = result
           /\ pc'["lz"] \in LzEnding => /\ pc["lz"] \in LzEnding /\ rcFailed' = rcFailed
                                        /\ ~(GetMatches \/ Skip)
<1>1. PcType BY DEF SyncInv, Control
<1>2. CASE LzStep
  <2>1. result' = result /\ rcFailed' = rcFailed
    BY <1>2 DEF LzStep, CreateHash, CreateBt, InitFinder, AskBlock, TakeBlock, LzHeader,
       GetMatches, Skip, Finish, Finished, DestroyNone, Destroy, Joined, finderVars
  <2>2. pc'["lz"] \in LzEnding => pc["lz"] \in LzEnding
    BY <1>1, <1>2 DEF LzStep, CreateHash, CreateBt, InitFinder, AskBlock, TakeBlock, LzHeader,
       GetMatches, Skip, Finish, Finished, DestroyNone, Destroy, Joined, finderVars,
       Goto, PcType, Threads, syncVars, LzEnding, LzAfter, Next1
  <2>3. GetMatches \/ Skip => pc'["lz"] \notin LzEnding
    BY DEF GetMatches, Skip, CodeOne, syncVars, LzEnding, LzAfter
  <2> QED BY <2>1, <2>2, <2>3
<1>3. CASE BtStep
  <2>1. result' = result /\ rcFailed' = rcFailed
    BY <1>3 DEF BtStep, BtStart, BtTakeFree, BtLock, BtAsk, BtTake, BtHeader, BtChunk, BtPost,
     BtStopHash, BtHashStopped, BtSayStopped, finderVars
  <2>2. pc'["lz"] = pc["lz"]
    BY <1>1, <1>3 DEF BtStep, BtStart, BtTakeFree, BtLock, BtAsk, BtTake, BtHeader, BtChunk, BtPost,
     BtStopHash, BtHashStopped, BtSayStopped, Goto, PcType, Threads, syncVars
  <2>3. GetMatches \/ Skip => pc["lz"] \notin LzEnding
    BY DEF GetMatches, Skip, CodeOne, LzEnding, LzAfter
  <2> QED BY <2>1, <2>2, <2>3
<1>4. CASE HashStep
  <2>1. result' = result /\ rcFailed' = rcFailed
    BY <1>4 DEF HashStep, HashStart, HashLockBt, HashLockHash, HashMove, HashTakeFree,
     HashFill, HashSayStopped, finderVars
  <2>2. pc'["lz"] = pc["lz"]
    BY <1>1, <1>4 DEF HashStep, HashStart, HashLockBt, HashLockHash, HashMove, HashTakeFree,
     HashFill, HashSayStopped, Goto, PcType, Threads
  <2>3. GetMatches \/ Skip => pc["lz"] \notin LzEnding
    BY DEF GetMatches, Skip, CodeOne, LzEnding, LzAfter
  <2> QED BY <2>1, <2>2, <2>3
<1>5. CASE WriteFails \/ UNCHANGED vars
  <2>1. WriteFails => pc["lz"] \notin LzEnding BY DEF WriteFails, LzEnding, LzAfter
  <2>2. GetMatches \/ Skip => pc["lz"] \notin LzEnding
    BY DEF GetMatches, Skip, CodeOne, LzEnding, LzAfter
  <2> QED BY <1>5, <2>1, <2>2 DEF WriteFails, vars, syncVars, finderVars
<1> QED BY <1>2, <1>3, <1>4, <1>5 DEF Next, ThreadStep

LEMMA ResultStep ==
    ASSUME SyncInv, FinderInv, EofIsEnd, CodeRight, ResultRight, [Next]_vars
    PROVE  ResultRight'
<1>1. ~lz.failure BY DEF CodeRight
<1>2. \A failed : CheckErrors(failed) # "internal"
                  /\ (CheckErrors(failed) = "ok" => mf.result = "ok" /\ ~failed)
  BY <1>1 DEF CheckErrors
<1>3. CASE Flush
  <2>1. PICK failed \in {rcFailed, TRUE} : rcFailed' = failed /\ result' = CheckErrors(failed)
    BY <1>3 DEF Flush
  <2>2. pc["lz"] = "flush" /\ UNCHANGED <<base, mf, lz>> BY <1>3 DEF Flush
  <2>3. LzAt' = LzAt /\ mf' = mf BY <2>2 DEF LzAt
  <2>4. ReadOver /\ LzAt = Loaded BY <2>2 DEF CodeRight
  <2>5. mf.result = "ok" => mf.eof /\ LzAt = Past BY <2>4 DEF ReadOver, EofIsEnd
  <2> QED BY <1>2, <2>1, <2>3, <2>5 DEF ResultRight
<1>4. CASE StopOnError
  <2>1. result' = CheckErrors(rcFailed) /\ result' # "ok" BY <1>4 DEF StopOnError
  <2> QED BY <1>2, <2>1 DEF ResultRight
<1>5. CASE CreateFails
  <2>1. result' = "thread" BY <1>5 DEF CreateFails
  <2> QED BY <2>1 DEF ResultRight
<1>6. CASE ~(Flush \/ StopOnError \/ CreateFails)
  <2>1. result' = result BY <1>6, EndsOnce
  <2>2. ASSUME result = "ok", pc'["lz"] \in LzEnding
        PROVE  mf'.eof /\ mf'.result = "ok" /\ LzAt' = Past' /\ ~rcFailed'
    <3>1. pc["lz"] \in LzEnding /\ rcFailed' = rcFailed /\ ~(GetMatches \/ Skip)
      BY <1>6, <2>2, EndsOnce
    <3>2. mf.eof /\ mf.result = "ok" /\ LzAt = Past /\ ~rcFailed
      BY <2>2, <3>1 DEF ResultRight, LzEnding
    <3>3. LzAt' = LzAt BY <3>1, Stays
    <3>4. mf'.eof = mf.eof /\ mf'.result = mf.result BY <3>2, Later DEF ReadOver
    <3>5. Past' = Past BY DEF Past
    <3> QED BY <3>1, <3>2, <3>3, <3>4, <3>5
  <2> QED BY <2>1, <2>2 DEF ResultRight, LzEnding
<1> QED BY <1>3, <1>4, <1>5, <1>6

-----------------------------------------------------------------------------
(* How far the threads are apart *)

LEMMA Product ==
    ASSUME NEW n \in Nat, NEW m \in Nat, NEW c \in Nat, n < m
    PROVE  n * c \in Nat /\ m * c \in Nat /\ n * c + c <= m * c
<1>1. n + 1 <= m OBVIOUS
<1>2. \A a, b \in Nat : a <= b => a * c <= b * c OBVIOUS
<1>3. (n + 1) * c <= m * c BY <1>1, <1>2
<1>4. (n + 1) * c = n * c + c BY Times
<1> QED BY <1>3, <1>4

\* A thread that starts a block is at most the blocks of the ring ahead.
LEMMA HashTakes ==
    ASSUME SyncInv, FinderInv, Told, Chains, ~ReadOver, HashTakeFree, pc'["hash"] = "fill"
    PROVE  HashAt + HashBlockSize <= BtAt + NumBlocks["hash"] * HashBlockSize
<1>1. PcType /\ HashRuns /\ SyncType BY DEF SyncInv, Control
<1>2. pc["hash"] = "next" /\ ~stopWriting["hash"] /\ free["hash"] > 0
  BY <1>1 DEF HashTakeFree, TakeFree, Goto, PcType, Threads
<1>3. Runs("hash") /\ "hash" \in Syncs BY <1>1, <1>2 DEF HashRuns, Runs, Syncs
<1>4. Feeds BY <1>2, <1>3 DEF Feeds, Told
<1>5. PICK e \in Nat, f \in [Nat -> Nat], g \in [Nat -> Nat] : HashSide(e, f) BY DEF Chains
<1>6. HashChain(f) /\ Tied(e, f) BY <1>4, <1>5 DEF HashSide
<1> DEFINE n == Ahead("hash")
           size == NumBlocks["hash"]
           c == HashBlockSize
<1>7. n \in Nat /\ n < size /\ size \in Nat /\ (Held("hash") => n >= 1)
  <2>1. /\ size \in Nat \ {0} /\ n \in 0..size /\ One(Writing("hash")) \in {0, 1}
        /\ free["hash"] > 0 => n + One(Writing("hash")) < size
        /\ Held("hash") => n \in 1..size
    BY <1>3, RingOf
  <2> QED BY <1>2, <2>1
<1>8. HashAt = f[n] /\ \A k \in 0..n : f[n] <= f[k] + (n - k) * c
  BY <1>6 DEF HashChain, Linked
<1>9. c \in Nat BY FinderParams
<1>10. BtAt = e /\ e = (IF pc["bt"] \in {"filled", "lockhash"} THEN f[0]
                        ELSE IF HeadsDone THEN f[1] ELSE BtAt)
       /\ (~HeadsDone => BtAt = f[0] + bt.next - 1)
  BY <1>6 DEF Tied
<1>11. bt.next \in Nat \ {0} BY DEF FinderInv, TreeKept
<1>12. pc["bt"] \in {"filled", "lockhash"} \/ Held("hash") BY <1>4 DEF Feeds, Runs, Held
<1>13. PICK l \in Int : l = HashAt BY Places DEF Placed
<1> HIDE DEF n, size, c
<1>14. l <= BtAt + n * c
  <2>1. l <= f[0] + n * c
    <3>1. 0 \in 0..n /\ n - 0 = n BY <1>7
    <3> QED BY <1>8, <1>13, <3>1
  <2>2. n * c \in Nat BY <1>7, <1>9, Product
  <2>3. f[0] \in Nat /\ f[1] \in Nat OBVIOUS
  <2>4. CASE BtAt >= f[0] BY <1>10, <1>13, <2>1, <2>2, <2>3, <2>4
  <2>5. CASE BtAt = f[1] /\ Held("hash")
    <3>1. n >= 1 /\ 1 \in 0..n BY <1>7, <2>5
    <3>2. l <= f[1] + (n - 1) * c BY <1>8, <1>13, <3>1
    <3>3. n - 1 \in Nat /\ n - 1 < n BY <1>7, <3>1
    <3>4. (n - 1) * c \in Nat /\ (n - 1) * c + c <= n * c BY <1>7, <1>9, <3>3, Product
    <3>5. f[1] + (n - 1) * c <= f[1] + n * c BY <1>9, <2>2, <2>3, <3>4
    <3> QED BY <1>13, <2>2, <2>3, <2>5, <3>2, <3>4, <3>5
  <2>6. (BtAt = f[1] /\ Held("hash")) \/ BtAt >= f[0]
    <3>1. ~HeadsDone => BtAt >= f[0] BY <1>10, <1>11, <2>3
    <3>2. HeadsDone /\ pc["bt"] \notin {"filled", "lockhash"} => BtAt = f[1] /\ Held("hash")
      BY <1>10, <1>12
    <3>3. pc["bt"] \in {"filled", "lockhash"} => BtAt >= f[0] BY <1>10, <2>3
    <3> QED BY <3>1, <3>2, <3>3
  <2> QED BY <2>4, <2>5, <2>6
<1>15. n * c \in Nat /\ size * c \in Nat /\ n * c + c <= size * c BY <1>7, <1>9, Product
<1>16. BtAt \in Nat BY <1>10
<1>17. l + c <= BtAt + size * c BY <1>9, <1>13, <1>14, <1>15, <1>16
<1> QED BY <1>13, <1>17 DEF size, c

\* A place in the file after the encoder's block is not before the encoder.
LEMMA LzAfterFirst ==
    ASSUME FinderInv, NEW g \in [Nat -> Nat], LzTied(g)
    PROVE  LzAt \in Int /\ LzAt >= g[0]
<1>1. LzAt \in Int BY Places DEF Placed
<1>2. lz.next \in Nat \ {0} BY DEF FinderInv, CoderKept
<1>3. LzAt = g[0] \/ LzAt = g[0] + lz.next - 1 BY DEF LzTied
<1>4. g[0] \in Nat OBVIOUS
<1> QED BY <1>1, <1>2, <1>3, <1>4

LEMMA TreeTakes ==
    ASSUME SyncInv, FinderInv, StartsAtOne, Told, Chains, ~ReadOver, BtTakeFree,
           pc'["bt"] \in BtWriting
    PROVE  BtAt + BtBlockSize <= LzAt + NumBlocks["bt"] * BtBlockSize
<1>1. PcType /\ BtRuns /\ SyncType BY DEF SyncInv, Control
<1>2. pc["bt"] = "next" /\ ~stopWriting["bt"] /\ free["bt"] > 0
  BY <1>1 DEF BtTakeFree, TakeFree, Goto, PcType, Threads, BtWriting
<1>3. Codes
  <2>1. pc["lz"] \in LzLabels BY <1>1 DEF PcType
  <2>2. pc["lz"] \notin LzBefore \union LzAfter BY <1>1, <1>2 DEF BtRuns
  <2>3. pc["lz"] # "stopping" BY <1>2 DEF Told
  <2> QED BY <2>1, <2>2, <2>3 DEF Codes, LzCoding, LzLabels, LzBefore, LzAfter
<1>4. Runs("bt") /\ "bt" \in Syncs /\ (Feeds \/ Unused) BY <1>3, CodesFeeds DEF Syncs
<1>5. PICK e \in Nat, f \in [Nat -> Nat], g \in [Nat -> Nat] : HashSide(e, f) /\ BtSide(e, g)
  BY DEF Chains
<1> DEFINE n == Ahead("bt")
           size == NumBlocks["bt"]
           c == BtBlockSize
<1>6. BtChain(g) /\ LzTied(g) /\ g[n] = e BY <1>2, <1>3, <1>5 DEF BtSide, BtWriting
<1>7. n \in Nat /\ n < size /\ size \in Nat
  <2>1. size \in Nat \ {0} /\ n \in 0..size /\ One(Writing("bt")) \in {0, 1}
        /\ (free["bt"] > 0 => n + One(Writing("bt")) < size)
    BY <1>4, RingOf
  <2> QED BY <1>2, <2>1
<1>8. BtAt <= e /\ BtAt \in Int
  <2>1. CASE Feeds BY <1>5, <2>1, Places DEF HashSide, Tied, Placed
  <2>2. CASE Unused BY <1>5, <2>2 DEF HashSide, StartsAtOne
  <2> QED BY <1>4, <2>1, <2>2
<1>9. g[n] <= g[0] + (n - 0) * c
  <2>1. 0 \in 0..n BY <1>7
  <2> QED BY <1>6, <2>1 DEF BtChain, Linked
<1>10. c \in Nat BY FinderParams
<1>11. LzAt \in Int /\ LzAt >= g[0] BY <1>6, LzAfterFirst
<1>12. g[0] \in Nat /\ n - 0 = n BY <1>7
<1> HIDE DEF n, size, c
<1>13. n * c \in Nat /\ size * c \in Nat /\ n * c + c <= size * c BY <1>7, <1>10, Product
<1>14. e <= g[0] + n * c BY <1>6, <1>9, <1>12
<1>15. BtAt + c <= LzAt + size * c BY <1>8, <1>10, <1>11, <1>12, <1>13, <1>14
<1> QED BY <1>15 DEF size, c

\* The encoder is not ahead of the hash thread.
LEMMA LzBehind ==
    ASSUME SyncInv, FinderInv, StartsAtOne, Chains, BtAt <= HashAt, GetMatches \/ Skip
    PROVE  LzAt + 1 <= HashAt
<1>1. PICK e \in Nat, f \in [Nat -> Nat], g \in [Nat -> Nat] : HashSide(e, f) /\ BtSide(e, g)
  BY DEF Chains
<1>2. pc["lz"] = "code" /\ ~RecsDone BY Taken
<1>3. Codes BY <1>2 DEF Codes, LzCoding
<1>4. e <= HashAt BY <1>1, <1>3, HashLeads
<1>5. g[1] = g[0] + Len(Recs) /\ g[1] <= e /\ LzTied(g) BY <1>1, <1>2, BlockRead
<1>6. LzAt = g[0] + lz.next - 1 /\ lz.limit = Len(Recs) BY <1>2, <1>5 DEF LzTied
<1>7. lz.next \in Nat /\ lz.limit \in Nat /\ lz.next <= lz.limit
  BY <1>2 DEF FinderInv, CoderKept, RecsDone
<1>8. g[0] \in Nat /\ g[1] \in Nat /\ HashAt \in Nat BY Places DEF Placed
<1>9. g[1] = g[0] + lz.limit BY <1>5, <1>6
<1>10. \A x, k, m, y, at \in Nat : k <= m /\ x + m <= y /\ y <= at => (x + k - 1) + 1 <= at
  OBVIOUS
<1>11. g[1] <= e /\ e \in Nat /\ g[0] + lz.limit <= e BY <1>5, <1>9
<1>12. (g[0] + lz.next - 1) + 1 <= HashAt BY <1>4, <1>7, <1>8, <1>10, <1>11, Zenon
<1> QED BY <1>6, <1>12, Zenon

\* The tree thread goes on in the block it writes, or leaves it.
LEMMA TreeWrites ==
    ASSUME SyncInv, FinderInv, [Next]_vars, ~BtTakeFree, ~BtChunk, pc'["bt"] \in BtWriting,
           ~ReadOver, EofIsEnd, Chains
    PROVE  /\ pc["bt"] \in BtWriting /\ block'["bt"] = block["bt"]
           /\ btBuf'[block["bt"]].recs = btBuf[block["bt"]].recs
<1>1. PcType BY DEF SyncInv, Control
<1>2. CASE LzStep \/ HashStep \/ WriteFails \/ UNCHANGED vars
  <2>1. BtAlone BY <1>2, OthersLeaveBt
  <2> QED BY <2>1 DEF BtAlone, BtWriting
<1>3. CASE BtStart \/ BtPost \/ BtStopHash \/ BtHashStopped \/ BtSayStopped
  <2>1. pc'["bt"] \notin BtWriting
    BY <1>1, <1>3 DEF BtStart, BtPost, BtStopHash, BtHashStopped, BtSayStopped, Goto, PcType,
       Threads, BtWriting
  <2> QED BY <2>1
<1>4. CASE BtLock \/ BtTake
  <2>1. pc["bt"] \in BtWriting BY <1>4 DEF BtLock, BtTake, BtWriting
  <2>2. UNCHANGED <<btBuf, block>> BY <1>4, BtSyncSteps
  <2> QED BY <2>1, <2>2
<1>5. CASE BtAsk
  BY <1>5 DEF BtAsk, BtMore, BtWriting, AskFirst, AskNext, finderVars
<1>6. CASE BtHeader
  <2>1. PICK e \in Nat, f \in [Nat -> Nat], g \in [Nat -> Nat] : HashSide(e, f) BY DEF Chains
  <2>2. ~(hashBuf[reading["hash"]].avail < NumHashBytes) BY <1>6, <2>1, HashSideHeader
  <2>3. pc["bt"] \in BtWriting /\ UNCHANGED block BY <1>6 DEF BtHeader, Lock, BtWriting
  <2>4. block["bt"] \in 0..(NumBlocks["bt"] - 1) BY DEF SyncInv, Control, SyncType, Syncs
  <2>5. btBuf \in [0..(NumBlocks["bt"] - 1) -> BtBlocks] BY DEF FinderInv, TreeKept, BtBlocks
  <2>6. btBuf' = [btBuf EXCEPT ![block["bt"]].avail = bt.num + hashBuf[reading["hash"]].avail,
                               ![block["bt"]].recs = @]
    BY <1>6, <2>2 DEF BtHeader
  <2>7. btBuf'[block["bt"]].recs = btBuf[block["bt"]].recs BY <2>4, <2>5, <2>6 DEF BtBlocks
  <2> QED BY <2>3, <2>7
<1> QED BY <1>2, <1>3, <1>4, <1>5, <1>6 DEF Next, ThreadStep, BtStep

\* The hash thread has taken a block, or had it.
LEMMA HashWrites ==
    ASSUME SyncInv, [Next]_vars, ~HashTakeFree, pc'["hash"] = "fill"
    PROVE  pc["hash"] = "fill" /\ ~HashFill
<1>1. PcType BY DEF SyncInv, Control
<1>2. ~HashFill BY <1>1 DEF HashFill, Goto, PcType, Threads
<1>3. CASE LzStep
  BY <1>1, <1>2, <1>3 DEF LzStep, CreateHash, CreateBt, CreateFails, InitFinder, AskBlock, TakeBlock,
     LzHeader, GetMatches, Skip, StopOnError, Flush, Finish, Finished, DestroyNone, Destroy, Joined,
     Goto, PcType, Threads, syncVars
<1>4. CASE BtStep
  BY <1>1, <1>2, <1>4 DEF BtStep, BtStart, BtTakeFree, BtLock, BtAsk, BtTake, BtHeader, BtChunk,
     BtPost, BtStopHash, BtHashStopped, BtSayStopped, Goto, PcType, Threads, syncVars
<1>5. CASE HashStep
  BY <1>1, <1>2, <1>5 DEF HashStep, HashStart, HashLockBt, HashLockHash, HashMove,
     HashSayStopped, Goto, PcType, Threads
<1>6. CASE WriteFails \/ UNCHANGED vars BY <1>2, <1>6 DEF WriteFails, vars, syncVars
<1> QED BY <1>3, <1>4, <1>5, <1>6 DEF Next, ThreadStep

LEMMA PlusZero == \A x \in Nat : x + 0 = x
OBVIOUS

LEMMA RaiseBase == \A a, b, c, d \in Int : a <= b + d /\ b <= c => a <= c + d
OBVIOUS

LEMMA KeepsSum == \A x \in Int : \A c, k, m \in Nat : (x + k) + (c - (m + k)) = x + (c - m)
OBVIOUS

LEMMA LengthIsNat == \A s \in Seq(Records) : Len(s) \in Nat
OBVIOUS

LEMMA LengthsAdd == \A s, t \in Seq(Records) : Len(s \o t) = Len(s) + Len(t)
OBVIOUS

\* Nobody goes back, and the tree and the encoder stay behind the hash thread.
LEMMA NobodyGoesBack ==
    ASSUME SyncInv, FinderInv, EofIsEnd, StartsAtOne, HighRight, TreeRight, Told, Chains, Lags,
           [Next]_vars
    PROVE  /\ HashAt \in Nat /\ HashAt' \in Nat /\ HashAt <= HashAt'
           /\ BtAt \in Int /\ BtAt' \in Int /\ BtAt <= BtAt' /\ BtAt' <= HashAt'
           /\ LzAt \in Int /\ LzAt' \in Int /\ LzAt <= LzAt' /\ LzAt' <= HashAt'
<1>1. /\ HashAt \in Nat /\ HashAt' \in Nat /\ HashAt <= HashAt'
      /\ ReadOver => ReadOver'
  BY Places, Later DEF Placed
<1>2. BtAt \in Int /\ LzAt \in Int /\ BtAt <= HashAt /\ LzAt <= HashAt
  BY Places DEF Placed, Lags
<1>3. PICK e \in Nat, f \in [Nat -> Nat], g \in [Nat -> Nat] : HashSide(e, f) /\ BtSide(e, g)
  BY DEF Chains
<1>4. BtAt' \in Int /\ BtAt <= BtAt' /\ BtAt' <= HashAt'
  <2>1. CASE BtChunk
    <3>1. PICK done, new : Adds(done, new) /\ BtAt' = BtAt + done BY <1>3, <2>1, ChunkStep
    <3>2. done \in Nat BY <3>1 DEF Adds
    <3>3. BtAt' <= HashAt' BY <1>3, <2>1, ChunkStep
    <3> QED BY <1>2, <3>1, <3>2, <3>3
  <2>2. CASE ~BtChunk
    <3>1. BtAt' = BtAt BY <2>2, Stays
    <3> QED BY <1>1, <1>2, <3>1
  <2> QED BY <2>1, <2>2
<1>5. LzAt' \in Int /\ LzAt <= LzAt' /\ LzAt' <= HashAt'
  <2>1. CASE GetMatches \/ Skip
    <3>1. LzAt' = LzAt + 1 BY <2>1, Taken
    <3>2. LzAt + 1 <= HashAt BY <1>2, <2>1, LzBehind
    <3> QED BY <1>1, <1>2, <3>1, <3>2
  <2>2. CASE ~(GetMatches \/ Skip)
    <3>1. LzAt' = LzAt BY <2>2, Stays
    <3> QED BY <1>1, <1>2, <3>1
  <2> QED BY <2>1, <2>2
<1> QED BY <1>1, <1>2, <1>4, <1>5

LEMMA LagsStep ==
    ASSUME SyncInv, FinderInv, EofIsEnd, StartsAtOne, HighRight, TreeRight, Told, Chains, Lags,
           [Next]_vars
    PROVE  Lags'
<1>1. /\ HashAt \in Nat /\ HashAt' \in Nat /\ HashAt <= HashAt'
      /\ ReadOver => ReadOver'
  BY Places, Later DEF Placed
<1>2. BtAt \in Int /\ LzAt \in Int /\ BtAt <= HashAt /\ LzAt <= HashAt
  BY Places DEF Placed, Lags
<1>3. PICK e \in Nat, f \in [Nat -> Nat], g \in [Nat -> Nat] : HashSide(e, f) /\ BtSide(e, g)
  BY DEF Chains
<1>4. BtAt' \in Int /\ BtAt <= BtAt' /\ BtAt' <= HashAt' BY NobodyGoesBack
<1>5. LzAt' \in Int /\ LzAt <= LzAt' /\ LzAt' <= HashAt' BY NobodyGoesBack
<1> SUFFICES ASSUME ~ReadOver'
             PROVE  /\ HashEnd' <= BtAt' + NumBlocks["hash"] * HashBlockSize
                    /\ TreeEnd' <= LzAt' + NumBlocks["bt"] * BtBlockSize
  BY <1>4, <1>5 DEF Lags
<1> DEFINE hc == NumBlocks["hash"] * HashBlockSize
           bc == NumBlocks["bt"] * BtBlockSize
<1>6. ~ReadOver BY <1>1
<1>7. HashEnd <= BtAt + hc /\ TreeEnd <= LzAt + bc BY <1>6 DEF Lags
<1>8. HashBlockSize \in Nat /\ BtBlockSize \in Nat BY FinderParams
<1>9. hc \in Int /\ bc \in Int
  <2>1. NumBlocks["hash"] \in Nat /\ NumBlocks["bt"] \in Nat BY RingsHaveRoom DEF Syncs
  <2> QED BY <1>8, <2>1
<1>10. PcType BY DEF SyncInv, Control
<1>11. HashEnd' <= BtAt' + hc
  <2>1. HashEnd' <= BtAt + hc
    <3>1. CASE pc'["hash"] = "fill"
      <4>1. HashEnd' = HashAt' + HashBlockSize BY <3>1 DEF HashEnd
      <4>2. CASE HashTakeFree
        <5>1. ~HashFill BY <4>2 DEF HashTakeFree, HashFill
        <5>2. HashAt' = HashAt BY <5>1, Stays DEF HashView
        <5> QED BY <1>6, <3>1, <4>1, <4>2, <5>2, HashTakes
      <4>3. CASE ~HashTakeFree
        <5>1. pc["hash"] = "fill" /\ ~HashFill BY <3>1, <4>3, HashWrites
        <5>2. HashAt' = HashAt BY <5>1, Stays DEF HashView
        <5>3. HashEnd = HashAt + HashBlockSize BY <5>1 DEF HashEnd
        <5> QED BY <1>7, <4>1, <5>2, <5>3
      <4> QED BY <4>2, <4>3
    <3>2. CASE pc'["hash"] # "fill"
      <4>1. HashEnd' = HashAt' + 0 BY <3>2 DEF HashEnd
      <4>0. HashEnd' = HashAt' BY <1>1, <4>1, PlusZero
      <4>2. HashAt' <= HashEnd
        <5>1. CASE HashFill
          <6> DEFINE h == hashBuf'[block["hash"]]
          <6>1. HashAt' = HashAt + Span(h) /\ Span(h) \in 0..HashBlockSize BY <5>1, FillRight
          <6>2. HashEnd = HashAt + HashBlockSize BY <5>1 DEF HashEnd, HashFill
          <6> HIDE DEF h
          <6> QED BY <1>1, <1>8, <6>1, <6>2
        <5>2. CASE ~HashFill
          <6>1. HashAt' = HashAt BY <5>2, Stays DEF HashView
          <6> QED BY <1>1, <1>8, <6>1 DEF HashEnd
        <5> QED BY <5>1, <5>2
      <4>3. HashEnd \in Int BY <1>1, <1>8 DEF HashEnd
      <4> HIDE DEF hc
      <4> QED BY <1>1, <1>2, <1>7, <1>9, <4>0, <4>2, <4>3
    <3> QED BY <3>1, <3>2
  <2>2. HashEnd' \in Int BY <1>1, <1>8 DEF HashEnd
  <2> HIDE DEF hc
  <2> QED BY <1>2, <1>4, <1>9, <2>1, <2>2, RaiseBase, Zenon
<1>12. TreeEnd' <= LzAt' + bc
  <2> DEFINE blk == block["bt"]
  <2>1. blk \in 0..(NumBlocks["bt"] - 1) /\ btBuf \in [0..(NumBlocks["bt"] - 1) -> BtBlocks]
        /\ Len(btBuf[blk].recs) <= BtBlockSize
    BY DEF SyncInv, Control, SyncType, Syncs, FinderInv, TreeKept, BtBlocks
  <2>2. Len(btBuf[blk].recs) \in Nat
    <3>1. btBuf[blk].recs \in Seq(Records) BY <2>1 DEF BtBlocks
    <3> QED BY <3>1, LengthIsNat, Zenon
  <2>3. TreeEnd \in Int /\ BtAt <= TreeEnd BY <1>2, <1>8, <2>1, <2>2 DEF TreeEnd
  <2>4. TreeEnd' <= LzAt + bc /\ TreeEnd' \in Int
    <3>1. CASE BtChunk
      <4>1. PICK done, new : Adds(done, new) /\ BtAt' = BtAt + done BY <1>3, <3>1, ChunkStep
      <4>2. /\ btBuf' = [btBuf EXCEPT ![blk].recs = @ \o new] /\ new \in Seq(Records)
            /\ Len(new) = done /\ done \in Nat
        BY <4>1 DEF Adds
      <4>3. btBuf'[blk].recs = btBuf[blk].recs \o new BY <2>1, <4>2 DEF BtBlocks
      <4>4. btBuf[blk].recs \in Seq(Records) BY <2>1 DEF BtBlocks
      <4>5. Len(btBuf'[blk].recs) = Len(btBuf[blk].recs) + done
        <5>1. Len(btBuf[blk].recs \o new) = Len(btBuf[blk].recs) + Len(new)
          BY <4>2, <4>4, LengthsAdd, Zenon
        <5> QED BY <4>2, <4>3, <5>1, Zenon
      <4>6. pc["bt"] \in BtWriting /\ pc'["bt"] \in BtWriting /\ block' = block
        BY <3>1 DEF BtChunk, BtMore, BtWriting, syncVars
      <4>7. PICK n \in Nat : n = Len(btBuf[blk].recs) BY <2>2
      <4>8. TreeEnd' = BtAt' + (BtBlockSize - Len(btBuf'[blk].recs)) BY <4>6 DEF TreeEnd
      <4>9. TreeEnd = BtAt + (BtBlockSize - n) BY <4>6, <4>7 DEF TreeEnd
      <4>10. TreeEnd' = (BtAt + done) + (BtBlockSize - (n + done)) BY <4>1, <4>5, <4>7, <4>8
      <4>11. (BtAt + done) + (BtBlockSize - (n + done)) = BtAt + (BtBlockSize - n)
        <5>1. BtAt \in Int /\ BtBlockSize \in Nat /\ done \in Nat /\ n \in Nat
          BY <1>2, <1>8, <4>2, <4>7
        <5> QED BY <5>1, KeepsSum, Zenon
      <4>12. TreeEnd' = TreeEnd BY <4>9, <4>10, <4>11, Zenon
      <4> QED BY <1>7, <2>3, <4>12
    <3>2. CASE BtTakeFree /\ pc'["bt"] \in BtWriting
      <4>1. BtAt + BtBlockSize <= LzAt + bc BY <1>6, <3>2, TreeTakes
      <4>2. ~stopWriting["bt"]
        BY <1>10, <3>2 DEF BtTakeFree, Goto, PcType, Threads, BtWriting
      <4>3. block' = block
            /\ btBuf' = [btBuf EXCEPT ![blk] = [size |-> 0, avail |-> bt.avail, recs |-> <<>>]]
        BY <3>2, <4>2 DEF BtTakeFree, TakeFree
      <4>4. btBuf'[blk].recs = <<>> BY <2>1, <4>3
      <4>5. Len(<<>>) = 0 OBVIOUS
      <4>6. ~BtChunk BY <3>2 DEF BtTakeFree, BtChunk, BtMore
      <4>7. BtAt' = BtAt BY <4>6, Stays
      <4>8. TreeEnd' = BtAt + (BtBlockSize - 0) BY <3>2, <4>3, <4>4, <4>5, <4>7 DEF TreeEnd
      <4>9. TreeEnd' = BtAt + BtBlockSize BY <1>8, <4>8
      <4> QED BY <1>2, <1>8, <4>1, <4>9
    <3>3. CASE ~BtChunk /\ ~BtTakeFree /\ pc'["bt"] \in BtWriting
      <4>1. /\ pc["bt"] \in BtWriting /\ block'["bt"] = blk
            /\ btBuf'[blk].recs = btBuf[blk].recs
        BY <1>6, <3>3, TreeWrites
      <4>2. BtAt' = BtAt BY <3>3, Stays
      <4>3. TreeEnd' = TreeEnd BY <3>3, <4>1, <4>2 DEF TreeEnd
      <4> QED BY <1>7, <2>3, <4>3
    <3>4. CASE ~BtChunk /\ pc'["bt"] \notin BtWriting
      <4>1. BtAt' = BtAt BY <3>4, Stays
      <4>2. TreeEnd' = BtAt BY <1>2, <3>4, <4>1 DEF TreeEnd
      <4> HIDE DEF bc
      <4> QED BY <1>2, <1>7, <1>9, <2>3, <4>2
    <3> QED BY <3>1, <3>2, <3>3, <3>4
  <2> HIDE DEF bc
  <2> QED BY <1>2, <1>5, <1>9, <2>4, RaiseBase, Zenon
<1> QED BY <1>11, <1>12

LEMMA RoomOfRings ==
    \A b, x, y, at, there, upto \in Int : \A n, m, hc, bc \in Nat :
        /\ b + (n + m + 1 + hc + bc) <= at /\ at <= there /\ there <= x + hc
        /\ x <= upto /\ upto <= y + bc
        => b <= x - n /\ b <= y - m - n
OBVIOUS

\* The window moves only over what the tree thread and the encoder have left behind.
LEMMA BehindStep ==
    ASSUME SyncInv, FinderInv, EofIsEnd, StartsAtOne, HighRight, TreeRight, Told, Chains, Lags,
           Behind, [Next]_vars
    PROVE  Behind'
<1>1. BtAt \in Int /\ BtAt' \in Int /\ BtAt <= BtAt' /\ LzAt \in Int /\ LzAt' \in Int /\ LzAt <= LzAt'
  BY NobodyGoesBack
<1>2. base \in Nat /\ HistorySize \in Nat /\ AddBefore \in Nat
  BY Places, FinderParams DEF Placed
<1>3. CASE ~HashMove
  <2>1. base' = base BY <1>3, Stays
  <2>2. base \in Int /\ HistorySize \in Int /\ AddBefore \in Int BY <1>2
  <2>3. \A b, x, y, m, n \in Int : x <= y => /\ b <= x - n => b <= y - n
                                             /\ b <= x - m - n => b <= y - m - n
    OBVIOUS
  <2>4. base <= BtAt - HistorySize => base <= BtAt' - HistorySize BY <1>1, <2>2, <2>3, Zenon
  <2>5. base <= LzAt - AddBefore - HistorySize => base <= LzAt' - AddBefore - HistorySize
    BY <1>1, <2>2, <2>3, Zenon
  <2> QED BY <2>1, <2>4, <2>5 DEF Behind
<1>4. CASE HashMove
  <2>1. /\ BtAt' = BtAt /\ LzAt' = LzAt /\ base' \in Nat
        /\ ~ReadOver /\ base' + KeepBefore <= HashAt
    BY <1>4, MoveStays
  <2>2. PICK hc \in Nat : hc = NumBlocks["hash"] * HashBlockSize
    BY RingsHaveRoom, FinderParams DEF Syncs
  <2>3. PICK bc \in Nat : bc = NumBlocks["bt"] * BtBlockSize
    BY RingsHaveRoom, FinderParams DEF Syncs
  <2>4. HashEnd <= BtAt + hc /\ TreeEnd <= LzAt + bc
    <3>1. /\ HashEnd <= BtAt + NumBlocks["hash"] * HashBlockSize
          /\ TreeEnd <= LzAt + NumBlocks["bt"] * BtBlockSize
      BY <2>1, Zenon DEF Lags
    <3> QED BY <2>2, <2>3, <3>1, Zenon
  <2>5. HashAt \in Int /\ HashAt <= HashEnd /\ HashEnd \in Int
    <3>1. HashAt \in Int BY NobodyGoesBack
    <3>2. HashBlockSize \in Nat BY FinderParams
    <3>3. \A x \in Int, n \in Nat : x <= x + n /\ x + n \in Int OBVIOUS
    <3>4. HashEnd = HashAt + (IF pc["hash"] = "fill" THEN HashBlockSize ELSE 0) BY DEF HashEnd
    <3>5. PICK n \in Nat : n = (IF pc["hash"] = "fill" THEN HashBlockSize ELSE 0) BY <3>2
    <3> QED BY <3>1, <3>3, <3>4, <3>5, Zenon
  <2>6. BtAt <= TreeEnd /\ TreeEnd \in Int
    <3> DEFINE blk == block["bt"]
    <3>1. blk \in 0..(NumBlocks["bt"] - 1) /\ btBuf \in [0..(NumBlocks["bt"] - 1) -> BtBlocks]
          /\ Len(btBuf[blk].recs) <= BtBlockSize
      BY DEF SyncInv, Control, SyncType, Syncs, FinderInv, TreeKept, BtBlocks
    <3>2. btBuf[blk].recs \in Seq(Records) BY <3>1 DEF BtBlocks
    <3>3. Len(btBuf[blk].recs) \in Nat BY <3>2, LengthIsNat, Zenon
    <3>4. BtBlockSize \in Nat BY FinderParams
    <3> QED BY <1>1, <3>1, <3>3, <3>4 DEF TreeEnd
  <2>7. base' + (HistorySize + AddBefore + 1 + hc + bc) <= HashAt
    BY <2>1, <2>2, <2>3 DEF KeepBefore
  <2>8. base' <= BtAt - HistorySize /\ base' <= LzAt - AddBefore - HistorySize
    <3>1. BtAt \in Int /\ LzAt \in Int /\ base' \in Int BY <1>1, <2>1
    <3> QED BY <1>2, <2>4, <2>5, <2>6, <2>7, <3>1, RoomOfRings, Zenon
  <2> QED BY <2>1, <2>8 DEF Behind
<1> QED BY <1>3, <1>4

LEMMA DataStep == ASSUME SyncInv, FinderInv, DataInv, [Next]_vars PROVE DataInv'
<1>1. Told /\ EofIsEnd /\ StartsAtOne /\ HighRight /\ TreeRight /\ Chains BY DEF DataInv
<1>2. LowRight /\ CodeRight /\ OffersRight /\ ResultRight /\ Lags /\ Behind BY DEF DataInv
<1>3. Told' BY <1>1, ToldStep
<1>4. EofIsEnd' BY <1>1, Later
<1>5. StartsAtOne' BY <1>1, StartsStep
<1>6. HighRight' BY <1>1, HighStep
<1>7. TreeRight' /\ Chains' BY <1>1, ChainsStep
<1>8. LowRight' BY <1>2, LowStep
<1>9. CodeRight' BY <1>1, <1>2, CodeStep
<1>10. OffersRight' BY <1>1, <1>2, OffersStep
<1>11. ResultRight' BY <1>1, <1>2, ResultStep
<1>12. Lags' BY <1>1, <1>2, LagsStep
<1>13. Behind' BY <1>1, <1>2, BehindStep
<1> QED BY <1>3, <1>4, <1>5, <1>6, <1>7, <1>8, <1>9, <1>10, <1>11, <1>12, <1>13 DEF DataInv

-----------------------------------------------------------------------------
(* Theorems *)

LEMMA DataStarts == LzInit => DataInv
<1> SUFFICES ASSUME LzInit PROVE DataInv OBVIOUS
<1>a. /\ HistorySize \in Nat \ {0} /\ MaxVal \in Nat /\ BtBlockSize \in Nat
      /\ HashBlockSize \in Nat /\ NumHashBytes = 4 /\ \A s \in Syncs : NumBlocks[s] \in Nat
  BY FinderParams, RingsHaveRoom
<1>b. pc["lz"] = "create" /\ pc["bt"] = "off" /\ pc["hash"] = "off" /\ needStart["hash"]
  BY DEF LzInit, SyncInit, Threads, Syncs
<1>c. /\ base = 1 /\ offers = <<>> /\ result = "ok"
      /\ mf = [buffer |-> 0, avail |-> 0, pos |-> 1, eof |-> FALSE, result |-> "ok"]
      /\ lz = [buffer |-> 0, pos |-> 1, next |-> 1, limit |-> 0, avail |-> 0, failure |-> FALSE]
      /\ bt = [buffer |-> 0, pos |-> 1, cyclic |-> 1, next |-> 1, limit |-> 0, avail |-> 0,
               cur |-> 2, num |-> 0, failure |-> FALSE]
      /\ hash = [high |-> Empty(HighKeys), low |-> Empty(LowKeys)]
  BY DEF LzInit
<1>d. HashAt = 1 /\ BtAt = 1 /\ LzAt = 1 BY <1>c DEF HashAt, BtAt, LzAt
<1>1. Told BY <1>b DEF Told
<1>2. EofIsEnd BY <1>c DEF EofIsEnd
<1>3. StartsAtOne BY <1>b, <1>c, <1>d DEF StartsAtOne
<1>4. HighRight
  <2>1. \A key \in HighKeys : hash.high[key] = 0 BY <1>c DEF Empty
  <2>2. \A key \in HighKeys : EntryRight(key, hash.high[key], HashAt, mf.pos)
    BY <1>d, <2>1 DEF EntryRight
  <2> QED BY <1>c, <1>d, <2>2 DEF HighRight
<1>5. TreeRight BY <1>c, <1>d DEF TreeRight
<1>6. Chains
  <2> DEFINE f == [n \in Nat |-> 0]
  <2>1. HashSide(1, f) BY <1>b DEF HashSide, Feeds, Runs
  <2>2. BtSide(1, f) BY <1>b DEF BtSide, Codes, LzCoding
  <2>3. f \in [Nat -> Nat] OBVIOUS
  <2> HIDE DEF f
  <2> QED BY <2>1, <2>2, <2>3 DEF Chains
<1>7. LowRight
  <2>1. \A key \in LowKeys : hash.low[key] = 0 BY <1>c DEF Empty
  <2>2. \A key \in LowKeys : LowEntryRight(key, hash.low[key], LzAt, lz.pos)
    BY <2>1 DEF LowEntryRight
  <2> QED BY <1>c, <1>d, <2>2 DEF LowRight
<1>8. CodeRight BY <1>b, <1>c DEF CodeRight
<1>9. OffersRight BY <1>c DEF OffersRight
<1>10. ResultRight BY <1>b, <1>c DEF ResultRight, LzAfter
<1>11. Lags
  <2>1. HashEnd = 1 /\ TreeEnd = 1 BY <1>b, <1>d DEF HashEnd, TreeEnd, BtWriting
  <2>2. NumBlocks["hash"] * HashBlockSize \in Nat /\ NumBlocks["bt"] * BtBlockSize \in Nat
    BY <1>a DEF Syncs
  <2>3. \A n \in Nat : 1 <= 1 + n OBVIOUS
  <2> QED BY <1>d, <2>1, <2>2, <2>3 DEF Lags
<1>12. Behind BY <1>c DEF Behind
<1> QED BY <1>1, <1>2, <1>3, <1>4, <1>5, <1>6, <1>7, <1>8, <1>9, <1>10, <1>11, <1>12 DEF DataInv

LEMMA DataInductive == Spec => [](SyncInv /\ FinderInv /\ DataInv)
<1>1. LzInit => SyncInv /\ FinderInv /\ DataInv BY SyncStarts, FinderStarts, DataStarts
<1>2. (SyncInv /\ FinderInv /\ DataInv) /\ [Next]_vars => (SyncInv /\ FinderInv /\ DataInv)'
  BY StepsKeep, DataStep
<1> QED BY <1>1, <1>2, PTL DEF Spec

\* Where the file ends for this run, and what has been read of it.
LEMMA EndOf ==
    ASSUME FinderInv, EofIsEnd
    PROVE  /\ End \in Int /\ Loaded \in Nat /\ Loaded <= End + 1
           /\ ReadOver => Loaded = End + 1
<1>1. /\ Loaded \in Nat /\ Loaded <= Past /\ Past \in Nat /\ Past = Len(Text) + 1
      /\ Len(Text) \in Nat
  BY Places, FinderParams DEF Placed, Past
<1> QED BY <1>1 DEF End, ReadOver, EofIsEnd

\* The bytes the tree thread and the encoder look back at are in the window however far
\* the hash thread is ahead, and so are those they have been promised: keepSizeBefore
\* counts every block the rings can hold (LzFindMt.c, LzFind.c: MatchFinder_Create).
THEOREM WindowSuffices == Spec => []WindowHolds
<1>1. SyncInv /\ FinderInv /\ DataInv => WindowHolds
  <2> SUFFICES ASSUME FinderInv, DataInv PROVE WindowHolds OBVIOUS
  <2>1. Behind /\ Lags /\ CodeRight BY DEF DataInv
  <2>2. base \in Nat /\ BtAt \in Int /\ LzAt \in Int /\ HistorySize \in Nat /\ AddBefore \in Nat
    BY Places, FinderParams DEF Placed
  <2>3. mf.buffer + mf.avail <= BlockSize BY DEF FinderInv, WindowKept
  <2>4. BtAt - HistorySize >= base \/ base = 1 BY <2>1, <2>2 DEF Behind
  <2>5. LzAt - AddBefore - HistorySize >= base \/ base = 1 BY <2>1, <2>2 DEF Behind
  <2>6. BtAt <= HashAt /\ LzAt <= HashAt BY <2>1 DEF Lags
  <2>7. pc["lz"] = "code" => LzAt + lz.avail <= Loaded BY <2>1 DEF CodeRight
  <2> QED BY <2>3, <2>4, <2>5, <2>6, <2>7 DEF WindowHolds
<1> QED BY <1>1, DataInductive, PTL

\* The encoder gets one record for each position of the file, in order, and in it the
\* nearest place with the same four bytes and how far it matches: whatever the order of
\* the three threads, across the moves of the window and the renumberings.
THEOREM RecordsAreRight == Spec => []RecordsMatch
<1>1. SyncInv /\ FinderInv /\ DataInv => RecordsMatch
  <2> SUFFICES ASSUME SyncInv, FinderInv, DataInv, pc["lz"] = "code"
               PROVE  /\ lz.next = 1 => ~RecsDone
                      /\ ~RecsDone => TheRec = [at |-> LzAt, pairs |-> Expected(LzAt)]
    BY DEF RecordsMatch
  <2>1. EofIsEnd /\ StartsAtOne /\ Chains /\ CodeRight BY DEF DataInv
  <2>2. lz.limit \in Nat \ {0} BY <2>1 DEF CodeRight, FinderInv, CoderKept
  <2>3. lz.next = 1 => ~RecsDone BY <2>2 DEF RecsDone
  <2>4. ASSUME ~RecsDone PROVE TheRec = [at |-> LzAt, pairs |-> Expected(LzAt)]
    <3>1. RecordRight(TheRec, LzAt, Loaded, ReadOver) BY <2>1, <2>4, RecordTaken
    <3>2. PICK most \in 0..MatchMaxLen :
            /\ TheRec = [at |-> LzAt, pairs |-> ExpectedIn(LzAt, most)]
            /\ LzAt + most <= Loaded
            /\ most = MatchMaxLen \/ (ReadOver /\ LzAt + most = Loaded)
      BY <3>1 DEF RecordRight
    <3>3. /\ End \in Int /\ Loaded \in Nat /\ Loaded <= End + 1
          /\ ReadOver => Loaded = End + 1
      BY <2>1, EndOf
    <3>4. LzAt \in Int /\ MatchMaxLen \in Nat BY Places, FinderParams DEF Placed
    <3>5. PICK there \in Int : there = End - LzAt + 1 BY <3>3, <3>4
    <3>6. most <= there /\ (most = MatchMaxLen \/ most = there) BY <3>2, <3>3, <3>4, <3>5
    <3>7. most = Least(MatchMaxLen, there) BY <3>2, <3>4, <3>6 DEF Least
    <3>8. Expected(LzAt) = ExpectedIn(LzAt, Least(MatchMaxLen, End - LzAt + 1))
      BY DEF Expected, ExpectedIn
    <3> QED BY <3>2, <3>5, <3>7, <3>8
  <2> QED BY <2>3, <2>4
<1> QED BY <1>1, DataInductive, PTL

\* What the finder offers the coder are matches of the file, each longer than the one
\* before: coded, they decode to the same bytes.
THEOREM OffersAreRight == Spec => []OffersAreMatches
<1>1. SyncInv /\ FinderInv /\ DataInv => OffersAreMatches
  <2> SUFFICES ASSUME FinderInv, DataInv,
                      NEW i \in DOMAIN offers
               PROVE  /\ offers[i][2] \in 1..Least(HistorySize, (LzAt - 1) - 1)
                      /\ (LzAt - 1) + offers[i][1] - 1 <= End
                      /\ MatchLen(LzAt - 1, offers[i][2], offers[i][1]) = offers[i][1]
                      /\ i > 1 => offers[i][1] > offers[i - 1][1]
    BY DEF OffersAreMatches
  <2>1. OffersRight /\ EofIsEnd BY DEF DataInv
  <2>2. /\ OfferRight(LzAt - 1, offers[i][1], offers[i][2], Loaded)
        /\ i > 1 => offers[i][1] > offers[i - 1][1]
    BY <2>1 DEF OffersRight
  <2>3. End \in Int /\ Loaded \in Nat /\ Loaded <= End + 1 BY <2>1, EndOf
  <2>4. LzAt \in Int BY Places DEF Placed
  <2>5. offers[i][1] \in Nat /\ (LzAt - 1) + offers[i][1] <= Loaded BY <2>2 DEF OfferRight
  <2>6. (LzAt - 1) + offers[i][1] - 1 <= End BY <2>3, <2>4, <2>5
  <2> QED BY <2>2, <2>6 DEF OfferRight
<1> QED BY <1>1, DataInductive, PTL

\* A compression that says it worked has coded the whole file, and one that did not says
\* why: LzmaEnc_Encode2's CheckErrors finds the read error and the write error whenever
\* they came (LzmaEnc.c).
THEOREM OkIsWholeFile == Spec => []OkMeansAll
<1>1. SyncInv /\ FinderInv /\ DataInv => OkMeansAll
  BY DEF DataInv, ResultRight, OkMeansAll, LzAfter, Past
<1> QED BY <1>1, DataInductive, PTL

=============================================================================
