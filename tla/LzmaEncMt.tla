----------------------------- MODULE LzmaEncMt -----------------------------
(***************************************************************************)
(* The thread that called lzma_main: it makes the other two (LzmaEnc_Alloc),*)
(* takes the matches of every position (LzmaEnc_CodeOneBlock, the match    *)
(* finder functions of LzFindMt.c), stops at the end of the file or at an  *)
(* error (CheckErrors, LzmaEnc_Encode2), and takes the threads down        *)
(* (LzmaEnc_Destroy).  What it does with the matches is in LzmaFile; here  *)
(* it either asks for those of a position or skips it.                     *)
(***************************************************************************)
EXTENDS MatchFinderMt

Recs == btBuf[reading["bt"]].recs
RecsDone == lz.next > lz.limit
TheRec == Recs[lz.next]

LzInit ==
    /\ SyncInit
    /\ base = 1
    /\ mf = [buffer |-> 0, avail |-> 0, pos |-> 1, eof |-> FALSE, result |-> "ok"]
    /\ hash = [high |-> Empty(HighKeys), low |-> Empty(LowKeys)]
    /\ hashBuf = [b \in 0..(NumBlocks["hash"] - 1) |-> [avail |-> 0, heads |-> <<>>]]
    /\ btBuf = [b \in 0..(NumBlocks["bt"] - 1) |-> [size |-> 0, avail |-> 0, recs |-> <<>>]]
    /\ bt = [buffer |-> 0, pos |-> 1, cyclic |-> 1, next |-> 1, limit |-> 0, avail |-> 0,
             cur |-> 2, num |-> 0, failure |-> FALSE]
    /\ lz = [buffer |-> 0, pos |-> 1, next |-> 1, limit |-> 0, avail |-> 0, failure |-> FALSE]
    /\ offers = <<>>
    /\ rcFailed = FALSE /\ result = "ok"

LzOnly == UNCHANGED <<base, mf, hashBuf, btBuf, bt>>

-----------------------------------------------------------------------------
(* Threads are made: a thread the system refuses ends the compression. *)

CreateHash ==
    /\ pc["lz"] = "create"
    /\ Create("hash")
    /\ pc' = [pc EXCEPT !["lz"] = "create bt", !["hash"] = "wait"]
    /\ UNCHANGED <<free, filled, canStart, wasStopped, stopWriting, numProcessed, cs,
                   csWasEntered, block, reading, aborted, finderVars>>

CreateBt ==
    /\ pc["lz"] = "create bt"
    /\ Create("bt")
    /\ pc' = [pc EXCEPT !["lz"] = "init", !["bt"] = "wait"]
    /\ UNCHANGED <<free, filled, canStart, wasStopped, stopWriting, numProcessed, cs,
                   csWasEntered, block, reading, aborted, finderVars>>

CreateFails ==
    /\ pc["lz"] \in {"create", "create bt"}
    /\ result' = "thread"
    /\ Goto("lz", "destroy bt")
    /\ UNCHANGED <<thread, free, filled, canStart, wasStopped, needStart, exit, stopWriting,
                   numProcessed, cs, csWasEntered, block, reading, aborted,
                   base, mf, hash, hashBuf, btBuf, bt, lz, offers, rcFailed>>

\* MatchFinderMt_InitMt and MatchFinderMt_Init.
InitFinder ==
    /\ pc["lz"] = "init"
    /\ InitSemaphores
    /\ hash' = [hash EXCEPT !.low = Empty(LowKeys)]
    /\ Goto("lz", "begin")
    /\ UNCHANGED <<thread, canStart, wasStopped, needStart, exit, stopWriting, numProcessed,
                   cs, csWasEntered, block, reading, aborted,
                   base, mf, hashBuf, btBuf, bt, lz, offers, rcFailed, result>>

-----------------------------------------------------------------------------
(* A block of the binary tree thread *)

AskBlock ==
    /\ pc["lz"] = "begin" \/ (pc["lz"] = "code" /\ RecsDone /\ ~lz.failure)
    /\ AskFirst("bt") \/ AskNext("bt")
    /\ Goto("lz", "filled")
    /\ UNCHANGED finderVars

TakeBlock ==
    /\ pc["lz"] = "filled"
    /\ TakeFilled("bt")
    /\ Goto("lz", "lock")
    /\ UNCHANGED finderVars

\* The positions of the encoder's own tables are moved down before they could
\* overflow within a block.
LzNormalize(pos, low) ==
    LET sub == pos - HistorySize - 1
    IN  IF pos >= MaxVal - BtBlockSize THEN [pos |-> pos - sub, low |-> Normalize3(sub, low)]
        ELSE [pos |-> pos, low |-> low]

\* MatchFinderMt_GetNextBlock_Bt, once it has the block: nothing available is the end
\* of the file.
LzHeader ==
    /\ pc["lz"] = "lock"
    /\ Lock("lz", "bt")
    /\ LET b == btBuf[reading["bt"]]
           norm == LzNormalize(lz.pos, hash.low)
       IN  /\ lz' = [lz EXCEPT !.next = 1, !.limit = Len(b.recs), !.avail = b.avail,
                               !.pos = norm.pos,
                               !.failure = @ \/ b.size < 2 \/ b.size > BtBlockSize]
           /\ hash' = [hash EXCEPT !.low = norm.low]
           /\ Goto("lz", IF b.avail = 0 THEN "flush" ELSE "code")
    /\ UNCHANGED <<base, mf, hashBuf, btBuf, bt, offers, rcFailed, result>>

-----------------------------------------------------------------------------
(* The matches of a position *)

LowSet(a, pos) == [hash.low EXCEPT ![H2(a)] = pos, ![H3(a)] = pos]

\* Mutant: an entry is a match because it is in the table.
Near_unchecked(a, entry, minPos, len) ==
    IF entry >= minPos THEN <<<<len, lz.pos - entry>>>> ELSE <<>>

\* An entry of the low hash near enough, and with the same first byte: the hash makes
\* the others the same too.
Near(a, entry, minPos, len) ==
    IF entry >= minPos /\ Byte(a - (lz.pos - entry)) = Byte(a)
    THEN <<<<len, lz.pos - entry>>>> ELSE <<>>

\* MixMatches3
MixMatches(a, minPos) ==
    LET c2 == hash.low[H2(a)]
        c3 == hash.low[H3(a)]
        two == Near(a, c2, minPos, 2)
        three == Near(a, c3, minPos, 3)
    IN  IF two # <<>> /\ Byte(a - two[1][2] + 2) = Byte(a + 2)
        THEN <<<<3, two[1][2]>>>>
        ELSE two \o three

Advance == lz' = [lz EXCEPT !.pos = @ + 1, !.buffer = @ + 1, !.avail = @ - 1, !.next = @ + 1]

CodeOne == pc["lz"] = "code" /\ ~RecsDone /\ ~lz.failure /\ lz.avail > 0

\* MatchFinderMt_GetMatches: the short matches nearer than the long ones, then those.
GetMatches ==
    /\ CodeOne
    /\ LET long == TheRec.pairs
           minPos == IF long # <<>> THEN lz.pos - (long[1][2] - 1)
                     ELSE IF lz.pos > HistorySize THEN lz.pos - HistorySize ELSE 1
           mix == long # <<>> \/ lz.avail - 1 >= 3
       IN  /\ offers' = IF mix THEN MixMatches(LzAt, minPos) \o long ELSE long
           /\ hash' = IF mix THEN [hash EXCEPT !.low = LowSet(LzAt, lz.pos)] ELSE hash
    /\ Advance
    /\ UNCHANGED <<syncVars, rcFailed, result>> /\ LzOnly

\* MatchFinderMt3_Skip of one position.
Skip ==
    /\ CodeOne
    /\ hash' = IF lz.avail >= 3 THEN [hash EXCEPT !.low = LowSet(LzAt, lz.pos)] ELSE hash
    /\ offers' = <<>>
    /\ Advance
    /\ UNCHANGED <<syncVars, rcFailed, result>> /\ LzOnly

-----------------------------------------------------------------------------
(* The end *)

\* RangeEnc_FlushStream writes less than it should, or RangeEnc_Alloc's buffer could
\* not be written.
WriteFails ==
    /\ pc["lz"] = "code" /\ ~rcFailed
    /\ rcFailed' = TRUE
    /\ UNCHANGED <<syncVars, base, mf, hash, hashBuf, btBuf, bt, lz, offers, result>>

\* Mutant: a read error is only looked for while there is something to code.
CheckErrors_flushOnly(failed) ==
    IF lz.avail # 0 /\ mf.result # "ok" THEN "read"
    ELSE IF lz.failure THEN "internal" ELSE IF failed THEN "write" ELSE "ok"

CheckErrors(failed) ==
    IF mf.result # "ok" THEN "read"
    ELSE IF lz.failure THEN "internal" ELSE IF failed THEN "write" ELSE "ok"

\* CheckErrors after 128 KiB, wherever in a block that is.
StopOnError ==
    /\ pc["lz"] = "code" /\ (lz.failure \/ (~RecsDone /\ lz.avail > 0))
    /\ CheckErrors(rcFailed) # "ok"
    /\ result' = CheckErrors(rcFailed)
    /\ Goto("lz", "finish")
    /\ UNCHANGED <<thread, free, filled, canStart, wasStopped, needStart, exit, stopWriting,
                   numProcessed, cs, csWasEntered, block, reading, aborted,
                   base, mf, hash, hashBuf, btBuf, bt, lz, offers, rcFailed>>

\* Flush: the range coder's last bytes may fail to be written.
Flush ==
    /\ pc["lz"] = "flush"
    /\ \E failed \in {rcFailed, TRUE} :
          rcFailed' = failed /\ result' = CheckErrors(failed)
    /\ Goto("lz", "finish")
    /\ UNCHANGED <<thread, free, filled, canStart, wasStopped, needStart, exit, stopWriting,
                   numProcessed, cs, csWasEntered, block, reading, aborted,
                   base, mf, hash, hashBuf, btBuf, bt, lz, offers>>

\* LzmaEnc_Finish
Finish ==
    /\ pc["lz"] = "finish"
    /\ StopWriting("lz", "bt")
    /\ Goto("lz", "stopping")
    /\ UNCHANGED finderVars

Finished ==
    /\ pc["lz"] = "stopping"
    /\ Stopped("bt")
    /\ Goto("lz", "destroy bt")
    /\ UNCHANGED finderVars

Next1(label) == IF label = "destroy bt" THEN "destroy hash" ELSE "done"
Doomed == IF pc["lz"] = "destroy bt" THEN "bt" ELSE "hash"

\* MtSync_Destruct of the tree thread, then of the hash thread.
DestroyNone ==
    /\ pc["lz"] \in {"destroy bt", "destroy hash"} /\ thread[Doomed] = "none"
    /\ Goto("lz", Next1(pc["lz"]))
    /\ UNCHANGED <<thread, free, filled, canStart, wasStopped, needStart, exit, stopWriting,
                   numProcessed, cs, csWasEntered, block, reading, aborted, finderVars>>

\* Mutant: the thread is not told to go.
Destroy_noExit ==
    /\ pc["lz"] \in {"destroy bt", "destroy hash"} /\ thread[Doomed] = "live"
    /\ Goto("lz", IF Doomed = "bt" THEN "join bt" ELSE "join hash")
    /\ UNCHANGED <<thread, free, filled, canStart, wasStopped, needStart, exit, stopWriting,
                   numProcessed, cs, csWasEntered, block, reading, aborted, finderVars>>

Destroy ==
    /\ pc["lz"] \in {"destroy bt", "destroy hash"} /\ thread[Doomed] = "live"
    /\ SendExit(Doomed)
    /\ Goto("lz", IF Doomed = "bt" THEN "join bt" ELSE "join hash")
    /\ UNCHANGED finderVars

Joined ==
    /\ \/ pc["lz"] = "join bt" /\ Join("bt") /\ Goto("lz", "destroy hash")
       \/ pc["lz"] = "join hash" /\ Join("hash") /\ Goto("lz", "done")
    /\ UNCHANGED finderVars

LzStep ==
    \/ CreateHash \/ CreateBt \/ CreateFails \/ InitFinder
    \/ AskBlock \/ TakeBlock \/ LzHeader \/ GetMatches \/ Skip \/ StopOnError
    \/ Flush \/ Finish \/ Finished \/ DestroyNone \/ Destroy \/ Joined

ThreadStep == ~aborted /\ (LzStep \/ BtStep \/ HashStep)
Next == ThreadStep \/ (~aborted /\ WriteFails)

\* Nothing follows once lzma_main has returned.  The system runs some thread as long as
\* one can go on; which one is its choice.
Spec == LzInit /\ [][Next]_vars /\ WF_vars(ThreadStep)

-----------------------------------------------------------------------------

LzLabels ==
    {"create", "create bt", "init", "begin", "filled", "lock", "code", "flush", "finish",
     "stopping", "destroy bt", "join bt", "destroy hash", "join hash", "done"}
BtLabels ==
    {"off", "wait", "next", "lock", "fill", "filled", "lockhash", "post", "stophash",
     "stopping", "stopped", "end"}
HashLabels == {"off", "wait", "next", "lock", "move", "fill", "stopped", "end"}

PcType ==
    /\ pc \in [Threads -> LzLabels \union BtLabels \union HashLabels]
    /\ pc["lz"] \in LzLabels /\ pc["bt"] \in BtLabels /\ pc["hash"] \in HashLabels

TypeOK ==
    /\ SyncType /\ PcType
    /\ base \in 1..(Len(Text) + 1)
    /\ mf \in [buffer : 0..BlockSize, avail : 0..BlockSize, pos : 0..MaxVal, eof : BOOLEAN,
               result : {"ok", "read"}]
    /\ hash.high \in [HighKeys -> 0..MaxVal] /\ hash.low \in [LowKeys -> 0..MaxVal]
    /\ bt.pos \in 1..MaxVal /\ lz.pos \in 1..MaxVal
    /\ bt.cyclic \in 0..HistorySize
    /\ result \in {"ok", "thread", "read", "write", "internal"}

\* Where the file ends for this run: a read error cuts it.
End == IF mf.result = "ok" THEN Len(Text) ELSE Loaded - 1

\* What the finder owes the encoder at position a: the nearest place in the dictionary
\* with the same four bytes, and how far the match goes.
Expected(a) ==
    LET most == Least(MatchMaxLen, End - a + 1)
        near == {d \in 1..Least(HistorySize, a - 1) : HighKey(a - d) = HighKey(a)}
    IN  IF most < NumHashBytes \/ near = {} THEN <<>>
        ELSE LET d == CHOOSE d \in near : \A e \in near : d <= e
             IN  <<<<MatchLen(a, d, most), d>>>>

\* The encoder gets one record for each position, its own, with the match that is
\* there: whatever the three threads' order, and across every move of the window and
\* every renumbering of the positions (LzFindMt.c:497-535, 634-733, 893-905).
RecordsMatch ==
    pc["lz"] = "code" =>
        /\ lz.next = 1 => ~RecsDone
        /\ ~RecsDone => TheRec = [at |-> LzAt, pairs |-> Expected(LzAt)]

\* What it offers to the coder are matches of the file, each longer than the one
\* before: a wrong one is a file that decodes to something else.
OffersAreMatches ==
    LET a == LzAt - 1
    IN  \A i \in DOMAIN offers :
          LET len == offers[i][1]
              d == offers[i][2]
          IN  /\ d \in 1..Least(HistorySize, a - 1)
              /\ a + len - 1 <= End
              /\ MatchLen(a, d, len) = len
              /\ i > 1 => len > offers[i - 1][1]

\* The bytes the other threads still look back at, and those they have been promised
\* ahead, are in the window (keepSizeBefore and keepSizeAfter).
WindowHolds ==
    /\ \A back \in {BtAt - HistorySize, LzAt - AddBefore - HistorySize} :
          back >= base \/ base = 1
    /\ BtAt <= HashAt /\ LzAt <= HashAt
    /\ (pc["lz"] = "code" /\ ~lz.failure) => LzAt + lz.avail <= Loaded
    /\ mf.buffer + mf.avail <= BlockSize

\* A block is not written while it is read, the window does not move while it is used,
\* and nobody is sure of a lock he does not have.
NoRace ==
    /\ ~aborted
    /\ (pc["hash"] = "fill" /\ pc["bt"] \in {"fill", "lock"} /\ ~needStart["hash"])
          => (block["hash"] # reading["hash"] \/ HeadsDone)
    /\ (pc["bt"] \in {"fill", "lock", "filled", "lockhash", "post"} /\ pc["lz"] = "code")
          => block["bt"] # reading["bt"]
    /\ pc["hash"] = "move" => pc["lz"] # "code" /\ pc["bt"] \notin {"fill", "post"}
    /\ bt.cur <= BtBlockSize

\* A compression that says it worked has coded the whole file; one that did not says
\* why, and never that the finder broke down.
OkMeansAll ==
    pc["lz"] = "done" =>
        /\ result = "ok" => LzAt = Len(Text) + 1 /\ ~rcFailed /\ mf.result = "ok"
        /\ result # "internal"

\* When lzma_main returns, no thread is left that could touch what it freed.
ThreadsGone ==
    pc["lz"] = "done" => \A s \in Syncs : thread[s] # "live" /\ pc[s] \in {"off", "end"}

\* Every compression ends: nobody waits for a block, a lock or an event for ever.
EncodeEnds == <>(pc["lz"] = "done")

=============================================================================
