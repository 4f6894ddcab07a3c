-------------------------- MODULE MatchFinderProofs --------------------------
(***************************************************************************)
(* What TLAPS proves of the three threads of a compression, for every      *)
(* file, dictionary, size of block and number of blocks: how they start,   *)
(* hand over blocks, move the window and stop; that the window, the tables *)
(* and the blocks stay what the code takes them for, and that no thread    *)
(* writes what another reads.                                              *)
(***************************************************************************)
EXTENDS LzmaEncMt, FiniteSetTheorems, WellFoundedInduction, TLAPS

-----------------------------------------------------------------------------
(* Where the threads are *)

LzBefore == {"create", "create bt", "init", "begin"}
LzCoding == {"filled", "lock", "code", "flush", "finish"}
LzAfter == {"destroy bt", "join bt", "destroy hash", "join hash", "done"}
BtWriting == {"lock", "fill", "filled", "lockhash", "post"}
\* A thread is made before the encoder starts and is gone when it returns.
Lives ==
    /\ thread["bt"] = "none" <=> pc["bt"] = "off"
    /\ thread["hash"] = "none" <=> pc["hash"] = "off"
    /\ thread["bt"] = "joined" => pc["bt"] = "end"
    /\ thread["hash"] = "joined" => pc["hash"] = "end"
    /\ pc["lz"] = "create" => thread["bt"] = "none" /\ thread["hash"] = "none"
    /\ pc["lz"] = "create bt" => thread["bt"] = "none" /\ thread["hash"] = "live"
    /\ pc["lz"] \in {"init", "begin", "stopping"} \union LzCoding =>
            thread["bt"] = "live" /\ thread["hash"] = "live"
    /\ pc["lz"] \in {"destroy hash", "join hash", "done"} => thread["bt"] # "live"
    /\ pc["lz"] = "done" => thread["hash"] # "live"

\* The tree thread runs while the encoder codes or waits for it to stop.
BtRuns ==
    /\ needStart["bt"] <=> pc["lz"] \in LzBefore \union LzAfter
    /\ ~needStart["bt"] => ~exit["bt"]
    /\ canStart["bt"] => /\ pc["bt"] = "wait"
                         /\ pc["lz"] = IF exit["bt"] THEN "join bt" ELSE "filled"
    /\ pc["bt"] \notin {"off", "wait", "end"} => ~needStart["bt"]
    /\ pc["bt"] = "end" => pc["lz"] \in LzAfter \ {"destroy bt"}
    /\ wasStopped["bt"] => pc["bt"] = "wait" /\ ~canStart["bt"] /\ ~needStart["bt"]
    /\ stopWriting["bt"] => pc["lz"] \notin LzBefore \union LzCoding
    /\ pc["bt"] \in {"stophash", "stopping", "stopped"} => stopWriting["bt"]

\* The hash thread runs from the first block the tree thread asks for until that
\* thread has stopped it.
HashRuns ==
    /\ ~needStart["hash"] => /\ ~exit["hash"]
                             /\ pc["bt"] \in BtWriting \union {"next", "stophash", "stopping"}
    /\ pc["bt"] \in {"lock", "filled", "lockhash", "post", "stopping"} => ~needStart["hash"]
    /\ canStart["hash"] => /\ pc["hash"] = "wait"
                           /\ IF exit["hash"] THEN pc["lz"] = "join hash"
                              ELSE ~needStart["hash"] /\ pc["bt"] = "filled"
    /\ pc["hash"] \notin {"off", "wait", "end"} => ~needStart["hash"]
    /\ pc["hash"] = "end" => pc["lz"] \in {"join hash", "done"}
    /\ wasStopped["hash"] => pc["hash"] = "wait" /\ ~canStart["hash"] /\ ~needStart["hash"]
    /\ stopWriting["hash"] => /\ stopWriting["bt"]
                              /\ pc["bt"] \in {"stopping", "stopped", "wait", "end"}

\* Who has which lock, and that each knows.
Locks ==
    /\ ~aborted
    /\ csWasEntered["bt"] <=> pc["lz"] \in {"code", "flush", "finish"}
    /\ csWasEntered["hash"] <=> \/ pc["bt"] = "fill" /\ ~needStart["hash"]
                                \/ pc["bt"] = "post"
    /\ cs["bt"] = "lz" <=> csWasEntered["bt"]
    /\ cs["hash"] = "bt" <=> csWasEntered["hash"]
    /\ cs["bt"] = "hash" <=> pc["hash"] \in {"lock", "move"}
    /\ cs["hash"] = "hash" <=> pc["hash"] = "move"

Control == SyncType /\ PcType /\ Lives /\ BtRuns /\ HashRuns /\ Locks

-----------------------------------------------------------------------------
(* The rings *)

One(b) == IF b THEN 1 ELSE 0

\* The block the writer of a ring has taken, and the one its reader has.
Writing(s) == IF s = "hash" THEN pc["hash"] = "fill" ELSE pc["bt"] \in BtWriting
Held(s) == IF s = "hash" THEN ~needStart["hash"] /\ pc["bt"] \notin {"filled", "stopping"}
           ELSE pc["lz"] \in {"lock", "code", "flush", "finish"}

\* Blocks from the one the reader has or waits for to the one written next.
Ahead(s) == filled[s] + One(Held(s))

\* Block number n is k blocks after block m.
After(s, n, k, m) == n = IF m + k < NumBlocks[s] THEN m + k ELSE m + k - NumBlocks[s]

Untouched(s) == free[s] = NumBlocks[s] /\ filled[s] = 0 /\ block[s] = 0

\* Each block is free, filled, written or read, and they are used in turn.
Ring(s) ==
    ~needStart[s] /\ ~stopWriting[s] =>
        /\ free[s] + Ahead(s) + One(Writing(s)) = NumBlocks[s]
        /\ After(s, numProcessed[s], 1, reading[s])
        /\ After(s, block[s], Ahead(s), reading[s])

\* The hash thread has not been asked for anything yet.
HashFresh ==
    /\ needStart["hash"]
    /\ \/ pc["bt"] \in {"next", "fill"}
       \/ canStart["bt"] /\ ~exit["bt"]
       \/ pc["lz"] \in LzBefore

Rings ==
    /\ Ring("hash") /\ Ring("bt")
    /\ pc["lz"] \in LzBefore => \A s \in Syncs : block[s] = 0 /\ needStart["hash"]
    /\ pc["lz"] = "begin" => Untouched("bt")
    /\ canStart["bt"] /\ ~exit["bt"] => Untouched("bt")
    /\ canStart["hash"] /\ ~exit["hash"] => Untouched("hash")
    /\ HashFresh /\ pc["lz"] \notin LzBefore \ {"begin"} => Untouched("hash")

\* What a block of the tree thread has room for.
Room ==
    /\ bt.cur \in 2..(BtLimit + 4)
    /\ pc["bt"] \in {"filled", "lockhash"} => bt.cur < BtLimit
    /\ HashFresh => /\ HeadsDone /\ ~bt.failure
                    /\ pc["bt"] = "fill" => bt.cur = 2

SyncInv == Control /\ Rings /\ Room

-----------------------------------------------------------------------------
(* Types *)

LEMMA NextInRing ==
    ASSUME NEW s \in Syncs, NEW n \in 0..(NumBlocks[s] - 1)
    PROVE  NextOf(s, n) = IF n + 1 < NumBlocks[s] THEN n + 1 ELSE 0
BY RingsHaveRoom DEF NextOf

LEMMA FirstInRing ==
    ASSUME NEW s \in Syncs
    PROVE  0 \in 0..(NumBlocks[s] - 1)
BY RingsHaveRoom

\* A semaphore's count stays within the ring.
Counts(sem) == sem \in [Syncs -> Nat] /\ \A s \in Syncs : sem[s] \in 0..NumBlocks[s]

LEMMA TakeCounts ==
    ASSUME NEW sem, Counts(sem), NEW s \in Syncs, sem[s] > 0
    PROVE  Counts([sem EXCEPT ![s] = @ - 1])
<1>1. sem[s] - 1 \in 0..NumBlocks[s] /\ sem[s] - 1 \in Nat
  <2>1. sem[s] \in 0..NumBlocks[s] /\ NumBlocks[s] \in Nat BY RingsHaveRoom DEF Counts
  <2> QED BY <2>1
<1> QED BY <1>1 DEF Counts

LEMMA ReleaseCounts ==
    ASSUME NEW sem, Counts(sem), NEW s \in Syncs
    PROVE  Counts(Release(sem, s))
BY RingsHaveRoom DEF Release, Counts

\* The steps that a reader, a writer or an owner of a ring is made of keep its types.
LEMMA SyncTyped ==
    ASSUME SyncType, NEW s \in Syncs, NEW t \in Threads
    PROVE  /\ AskFirst(s) => SyncType'
           /\ AskNext(s) => SyncType'
           /\ TakeFilled(s) => SyncType'
           /\ Lock(t, s) => SyncType'
           /\ StopWriting(t, s) => SyncType'
           /\ Stopped(s) => SyncType'
           /\ SendExit(s) => SyncType'
           /\ Join(s) => SyncType'
           /\ Started(s) => SyncType'
           /\ TakeFree(s) => SyncType'
           /\ SayStopped(s) => SyncType'
<1>a. Counts(Release(free, s))
  BY ReleaseCounts DEF Counts, SyncType
<1>b. NextOf(s, 0) \in 0..(NumBlocks[s] - 1) /\ NextOf(s, numProcessed[s]) \in 0..(NumBlocks[s] - 1)
  BY NextInRing, FirstInRing, RingsHaveRoom DEF SyncType
<1>1. ASSUME AskFirst(s) PROVE SyncType'
  <2>1. aborted' \in BOOLEAN BY <1>1 DEF AskFirst, SyncType
  <2>2. /\ reading' \in [Syncs -> Nat] /\ numProcessed' \in [Syncs -> Nat]
        /\ \A r \in Syncs : reading'[r] \in 0..(NumBlocks[r] - 1)
        /\ \A r \in Syncs : numProcessed'[r] \in 0..(NumBlocks[r] - 1)
    BY <1>1, <1>b, FirstInRing DEF AskFirst, SyncType
  <2> QED BY <1>1, <2>1, <2>2 DEF AskFirst, SyncType
<1>2. ASSUME AskNext(s) PROVE SyncType'
  <2>1. aborted' \in BOOLEAN BY <1>2 DEF AskNext, SyncType
  <2>2. /\ reading' \in [Syncs -> Nat] /\ numProcessed' \in [Syncs -> Nat]
        /\ \A r \in Syncs : reading'[r] \in 0..(NumBlocks[r] - 1)
        /\ \A r \in Syncs : numProcessed'[r] \in 0..(NumBlocks[r] - 1)
    BY <1>2, <1>b DEF AskNext, SyncType
  <2> QED BY <1>2, <1>a, <2>1, <2>2 DEF AskNext, SyncType, Counts, Threads
<1>3. ASSUME Lock(t, s) PROVE SyncType'
  <2>1. aborted' \in BOOLEAN BY <1>3 DEF Lock, SyncType
  <2> QED BY <1>3, <2>1 DEF Lock, SyncType
<1>4. ASSUME StopWriting(t, s) PROVE SyncType'
  <2>1. cs' \in [Syncs -> Threads \union {"nobody"}] /\ csWasEntered' \in [Syncs -> BOOLEAN]
    BY <1>4 DEF StopWriting, SyncType
  <2>2. Counts(free') BY <1>4, <1>a DEF StopWriting
  <2>3. stopWriting' \in [Syncs -> BOOLEAN] BY <1>4 DEF StopWriting, SyncType
  <2> QED BY <1>4, <2>1, <2>2, <2>3 DEF StopWriting, SyncType, Counts
<1>5. ASSUME TakeFilled(s) PROVE SyncType'
  <2>1. Counts(filled') 
    <3>1. Counts(filled) BY DEF SyncType, Counts
    <3> QED BY <1>5, <3>1, TakeCounts DEF TakeFilled
  <2> QED BY <1>5, <2>1 DEF TakeFilled, SyncType, Counts
<1>6. Stopped(s) => SyncType' BY DEF Stopped, SyncType
<1>7. SendExit(s) => SyncType' BY DEF SendExit, SyncType
<1>8. Join(s) => SyncType' BY DEF Join, SyncType
<1>9. Started(s) => SyncType' BY FirstInRing DEF Started, SyncType
<1>10. ASSUME TakeFree(s) PROVE SyncType'
  <2>1. Counts(free') 
    <3>1. Counts(free) BY DEF SyncType, Counts
    <3> QED BY <1>10, <3>1, TakeCounts DEF TakeFree
  <2> QED BY <1>10, <2>1 DEF TakeFree, SyncType, Counts
<1>11. SayStopped(s) => SyncType' BY DEF SayStopped, SyncType
<1> QED BY <1>1, <1>2, <1>3, <1>4, <1>5, <1>6, <1>7, <1>8, <1>9, <1>10, <1>11

LEMMA PostTyped ==
    ASSUME SyncType, NEW s \in Syncs, Post(s)
    PROVE  /\ Counts(filled') /\ block' \in [Syncs -> Nat]
           /\ \A r \in Syncs : block'[r] \in 0..(NumBlocks[r] - 1)
<1>1. Counts(Release(filled, s)) BY ReleaseCounts DEF Counts, SyncType
<1>2. NextOf(s, block[s]) \in 0..(NumBlocks[s] - 1)
  BY NextInRing, RingsHaveRoom DEF SyncType
<1> QED BY <1>1, <1>2 DEF Post, SyncType

LEMMA StepSyncTyped == ASSUME SyncType, [Next]_vars PROVE SyncType'
<1>a. "bt" \in Syncs /\ "hash" \in Syncs /\ "lz" \in Threads /\ "bt" \in Threads
  BY DEF Syncs, Threads
<1>1. CASE LzStep
  <2>1. CASE CreateHash \/ CreateBt \/ CreateFails \/ StopOnError \/ Flush \/ DestroyNone
             \/ GetMatches \/ Skip
    BY <2>1, <1>a DEF CreateHash, CreateBt, Create, CreateFails, StopOnError, Flush, DestroyNone,
                      GetMatches, Skip, syncVars, SyncType
  <2>2. CASE InitFinder
    BY <2>2, RingsHaveRoom DEF InitFinder, InitSemaphores, SyncType
  <2>3. CASE AskBlock BY <2>3, <1>a, SyncTyped DEF AskBlock
  <2>4. CASE TakeBlock BY <2>4, <1>a, SyncTyped DEF TakeBlock
  <2>5. CASE LzHeader BY <2>5, <1>a, SyncTyped DEF LzHeader
  <2>6. CASE Finish BY <2>6, <1>a, SyncTyped DEF Finish
  <2>7. CASE Finished BY <2>7, <1>a, SyncTyped DEF Finished
  <2>8. CASE Destroy BY <2>8, <1>a, SyncTyped DEF Destroy, Doomed
  <2>9. CASE Joined BY <2>9, <1>a, SyncTyped DEF Joined
  <2> QED BY <1>1, <2>1, <2>2, <2>3, <2>4, <2>5, <2>6, <2>7, <2>8, <2>9 DEF LzStep
<1>2. CASE BtStep
  <2>1. CASE BtStart BY <2>1, <1>a, SyncTyped DEF BtStart
  <2>2. CASE BtTakeFree BY <2>2, <1>a, SyncTyped DEF BtTakeFree
  <2>3. CASE BtLock BY <2>3, <1>a, SyncTyped DEF BtLock
  <2>4. CASE BtAsk BY <2>4, <1>a, SyncTyped DEF BtAsk
  <2>5. CASE BtTake BY <2>5, <1>a, SyncTyped DEF BtTake
  <2>6. CASE BtHeader BY <2>6, <1>a, SyncTyped DEF BtHeader
  <2>7. CASE BtChunk BY <2>7 DEF BtChunk, syncVars, SyncType
  <2>8. CASE BtPost
    <3>1. aborted' \in BOOLEAN BY <2>8 DEF BtPost, SyncType
    <3> QED BY <2>8, <1>a, <3>1, PostTyped DEF BtPost, SyncType, Counts
  <2>9. CASE BtStopHash BY <2>9, <1>a, SyncTyped DEF BtStopHash
  <2>10. CASE BtHashStopped BY <2>10, <1>a, SyncTyped DEF BtHashStopped
  <2>11. CASE BtSayStopped BY <2>11, <1>a, SyncTyped DEF BtSayStopped
  <2> QED BY <1>2, <2>1, <2>2, <2>3, <2>4, <2>5, <2>6, <2>7, <2>8, <2>9, <2>10, <2>11 DEF BtStep
<1>3. CASE HashStep
  <2>1. CASE HashStart BY <2>1, <1>a, SyncTyped DEF HashStart
  <2>2. CASE HashLockBt \/ HashLockHash \/ HashMove
    BY <2>2, <1>a DEF HashLockBt, HashLockHash, HashMove, SyncType, Threads
  <2>3. CASE HashTakeFree BY <2>3, <1>a, SyncTyped DEF HashTakeFree
  <2>4. CASE HashFill BY <2>4, <1>a, PostTyped DEF HashFill, SyncType, Counts
  <2>5. CASE HashSayStopped BY <2>5, <1>a, SyncTyped DEF HashSayStopped
  <2> QED BY <1>3, <2>1, <2>2, <2>3, <2>4, <2>5 DEF HashStep
<1>4. CASE WriteFails \/ UNCHANGED vars
  BY <1>4 DEF WriteFails, vars, syncVars, SyncType
<1> QED BY <1>1, <1>2, <1>3, <1>4 DEF Next, ThreadStep

-----------------------------------------------------------------------------
(* Control *)

\* A thread that goes on leaves the others where they are.
LEMMA Moves ==
    ASSUME PcType, NEW l
    PROVE  /\ Goto("lz", l) /\ l \in LzLabels =>
                PcType' /\ pc'["lz"] = l /\ pc'["bt"] = pc["bt"] /\ pc'["hash"] = pc["hash"]
           /\ Goto("bt", l) /\ l \in BtLabels =>
                PcType' /\ pc'["bt"] = l /\ pc'["lz"] = pc["lz"] /\ pc'["hash"] = pc["hash"]
           /\ Goto("hash", l) /\ l \in HashLabels =>
                PcType' /\ pc'["hash"] = l /\ pc'["lz"] = pc["lz"] /\ pc'["bt"] = pc["bt"]
BY DEF PcType, Goto, Threads

\* While the tree thread is not at rest, the encoder codes or waits for it.
LEMMA BtAwake ==
    ASSUME Control, pc["bt"] \notin {"off", "wait", "end"}
    PROVE  /\ pc["lz"] \in LzCoding \union {"stopping"}
           /\ pc["hash"] \notin {"off", "end"}
           /\ canStart["hash"] => ~exit["hash"]
           /\ ~canStart["bt"] /\ thread["hash"] = "live"
<1>1. pc["lz"] \in LzCoding \union {"stopping"}
  BY DEF Control, BtRuns, PcType, LzLabels, LzBefore, LzCoding, LzAfter
<1> QED BY <1>1 DEF Control, BtRuns, HashRuns, Lives, LzCoding

LEMMA SameControl == ASSUME Control, UNCHANGED syncVars PROVE Control'
<1> USE DEF syncVars
<1>1. SyncType' /\ PcType' BY DEF Control, SyncType, PcType
<1>2. Lives' BY DEF Control, Lives
<1>3. BtRuns' BY DEF Control, BtRuns
<1>4. HashRuns' BY DEF Control, HashRuns
<1>5. Locks' BY DEF Control, Locks
<1> QED BY <1>1, <1>2, <1>3, <1>4, <1>5 DEF Control

\* What a block of the tree thread holds at least.
LEMMA LimitRoom == BtLimit \in Nat /\ BtLimit >= 8 /\ BtLimit + 8 <= BtBlockSize
BY FinderParams DEF BtLimit

LEMMA LzControl == ASSUME SyncInv, LzStep PROVE PcType' /\ Lives' /\ BtRuns' /\ HashRuns' /\ Locks'
<1> USE DEF SyncInv, Control, Lives, BtRuns, HashRuns, Locks, LzBefore, LzCoding, LzAfter,
            BtWriting
<1>1. CASE CreateHash
  BY <1>1 DEF CreateHash, Create, SyncType, Syncs, Threads, PcType, LzLabels, BtLabels, HashLabels
<1>2. CASE CreateBt
  BY <1>2 DEF CreateBt, Create, SyncType, Syncs, Threads, PcType, LzLabels, BtLabels, HashLabels
<1>3. CASE CreateFails
  <2>1. PcType' /\ pc'["lz"] = "destroy bt" /\ pc'["bt"] = pc["bt"] /\ pc'["hash"] = pc["hash"]
    BY <1>3, Moves DEF CreateFails, LzLabels
  <2> QED BY <1>3, <2>1 DEF CreateFails
<1>4. CASE InitFinder
  <2>1. PcType' /\ pc'["lz"] = "begin" /\ pc'["bt"] = pc["bt"] /\ pc'["hash"] = pc["hash"]
    BY <1>4, Moves DEF InitFinder, LzLabels
  <2> QED BY <1>4, <2>1 DEF InitFinder, InitSemaphores
<1>5. CASE AskBlock
  <2>1. PcType' /\ pc'["lz"] = "filled" /\ pc'["bt"] = pc["bt"] /\ pc'["hash"] = pc["hash"]
    BY <1>5, Moves DEF AskBlock, LzLabels
  <2>2. CASE AskFirst("bt")
    <3>1. pc["lz"] = "begin" BY <1>5, <2>2 DEF AskBlock, AskFirst
    <3> QED BY <2>1, <2>2, <3>1 DEF AskFirst, SyncType, Syncs
  <2>3. CASE AskNext("bt")
    <3>1. pc["lz"] = "code" BY <1>5, <2>3 DEF AskBlock, AskNext
    <3> QED BY <2>1, <2>3, <3>1 DEF AskNext, SyncType, Syncs
  <2> QED BY <1>5, <2>2, <2>3 DEF AskBlock
<1>6. CASE TakeBlock
  <2>1. PcType' /\ pc'["lz"] = "lock" /\ pc'["bt"] = pc["bt"] /\ pc'["hash"] = pc["hash"]
    BY <1>6, Moves DEF TakeBlock, LzLabels
  <2>2. pc["lz"] = "filled" /\ ~canStart["bt"]
    BY <1>6 DEF TakeBlock, TakeFilled, Rings, Untouched
  <2> QED BY <1>6, <2>1, <2>2 DEF TakeBlock, TakeFilled
<1>7. CASE LzHeader
  <2>1. \E l \in {"flush", "code"} :
           PcType' /\ pc'["lz"] = l /\ pc'["bt"] = pc["bt"] /\ pc'["hash"] = pc["hash"]
    BY <1>7, Moves DEF LzHeader, LzLabels
  <2> QED BY <1>7, <2>1 DEF LzHeader, Lock, SyncType, Syncs, Threads
<1>8. CASE GetMatches \/ Skip
  <2>1. UNCHANGED syncVars BY <1>8 DEF GetMatches, Skip
  <2> QED BY <2>1, SameControl
<1>9. CASE StopOnError \/ Flush
  <2>1. PcType' /\ pc'["lz"] = "finish" /\ pc'["bt"] = pc["bt"] /\ pc'["hash"] = pc["hash"]
    BY <1>9, Moves DEF StopOnError, Flush, LzLabels
  <2>2. /\ pc["lz"] \in {"code", "flush"}
        /\ UNCHANGED <<thread, canStart, wasStopped, needStart, exit, stopWriting, cs,
                       csWasEntered, aborted>>
    BY <1>9 DEF StopOnError, Flush
  <2> QED BY <2>1, <2>2
<1>10. CASE Finish
  <2>1. PcType' /\ pc'["lz"] = "stopping" /\ pc'["bt"] = pc["bt"] /\ pc'["hash"] = pc["hash"]
    BY <1>10, Moves DEF Finish, LzLabels
  <2> QED BY <1>10, <2>1 DEF Finish, StopWriting, SyncType, Syncs
<1>11. CASE Finished
  <2>1. PcType' /\ pc'["lz"] = "destroy bt" /\ pc'["bt"] = pc["bt"] /\ pc'["hash"] = pc["hash"]
    BY <1>11, Moves DEF Finished, LzLabels
  <2> QED BY <1>11, <2>1 DEF Finished, Stopped, SyncType, Syncs
<1>12. CASE DestroyNone
  <2>1. /\ PcType' /\ pc'["lz"] = Next1(pc["lz"]) /\ pc'["bt"] = pc["bt"]
        /\ pc'["hash"] = pc["hash"]
    BY <1>12, Moves DEF DestroyNone, Next1, LzLabels
  <2> QED BY <1>12, <2>1 DEF DestroyNone, Next1, Doomed
<1>13. CASE Destroy
  <2>1. CASE pc["lz"] = "destroy bt"
    <3>1. PcType' /\ pc'["lz"] = "join bt" /\ pc'["bt"] = pc["bt"] /\ pc'["hash"] = pc["hash"]
      BY <1>13, <2>1, Moves DEF Destroy, Doomed, LzLabels
    <3> QED BY <1>13, <2>1, <3>1 DEF Destroy, Doomed, SendExit, SyncType, Syncs
  <2>2. CASE pc["lz"] = "destroy hash"
    <3>1. PcType' /\ pc'["lz"] = "join hash" /\ pc'["bt"] = pc["bt"] /\ pc'["hash"] = pc["hash"]
      BY <1>13, <2>2, Moves DEF Destroy, Doomed, LzLabels
    <3>2. pc["bt"] \in {"off", "end"} BY <2>2 DEF SyncType, Syncs
    <3> QED BY <1>13, <2>2, <3>1, <3>2 DEF Destroy, Doomed, SendExit, SyncType, Syncs
  <2> QED BY <1>13, <2>1, <2>2 DEF Destroy
<1>14. CASE Joined
  <2>1. CASE pc["lz"] = "join bt"
    <3>1. /\ PcType' /\ pc'["lz"] = "destroy hash" /\ pc'["bt"] = pc["bt"]
          /\ pc'["hash"] = pc["hash"]
      BY <1>14, <2>1, Moves DEF Joined, LzLabels
    <3>2. Join("bt") BY <1>14, <2>1 DEF Joined
    <3> QED BY <2>1, <3>1, <3>2 DEF Join, Writer, SyncType, Syncs
  <2>2. CASE pc["lz"] = "join hash"
    <3>1. PcType' /\ pc'["lz"] = "done" /\ pc'["bt"] = pc["bt"] /\ pc'["hash"] = pc["hash"]
      BY <1>14, <2>2, Moves DEF Joined, LzLabels
    <3>2. Join("hash") BY <1>14, <2>2 DEF Joined
    <3> QED BY <2>2, <3>1, <3>2 DEF Join, Writer, SyncType, Syncs
  <2> QED BY <1>14, <2>1, <2>2 DEF Joined
<1> QED BY <1>1, <1>2, <1>3, <1>4, <1>5, <1>6, <1>7, <1>8, <1>9, <1>10, <1>11, <1>12, <1>13,
           <1>14 DEF LzStep

LEMMA BtControl == ASSUME SyncInv, BtStep PROVE PcType' /\ Lives' /\ BtRuns' /\ HashRuns' /\ Locks'
<1>a. pc["bt"] = "filled" => (canStart["hash"] => ~exit["hash"])
  BY BtAwake DEF SyncInv
<1>c. BtTake => filled["hash"] # 0
  <2>1. filled["hash"] \in Nat BY DEF SyncInv, Control, SyncType, Syncs
  <2> QED BY <2>1 DEF BtTake, TakeFilled
<1>b. needStart["hash"] /\ pc["bt"] = "fill" => BtMore
  BY LimitRoom DEF SyncInv, Room, HashFresh, BtMore
<1> USE DEF SyncInv, Control, Lives, BtRuns, HashRuns, Locks, LzBefore, LzCoding, LzAfter,
            BtWriting
<1>1. CASE BtStart
  <2>1. CASE exit["bt"]
    <3>1. PcType' /\ pc'["bt"] = "end" /\ pc'["lz"] = pc["lz"] /\ pc'["hash"] = pc["hash"]
      BY <1>1, <2>1, Moves DEF BtStart, BtLabels
    <3> QED BY <1>1, <2>1, <3>1 DEF BtStart, Started, SyncType, Syncs
  <2>2. CASE ~exit["bt"]
    <3>1. PcType' /\ pc'["bt"] = "next" /\ pc'["lz"] = pc["lz"] /\ pc'["hash"] = pc["hash"]
      BY <1>1, <2>2, Moves DEF BtStart, BtLabels
    <3> QED BY <1>1, <2>2, <3>1 DEF BtStart, Started, SyncType, Syncs
  <2> QED BY <2>1, <2>2
<1>2. CASE BtTakeFree
  <2>1. pc["bt"] = "next" /\ UNCHANGED <<thread, canStart, wasStopped, needStart, exit, stopWriting,
                                         cs, csWasEntered, aborted>>
    BY <1>2 DEF BtTakeFree, TakeFree
  <2>2. CASE stopWriting["bt"]
    <3>1. PcType' /\ pc'["bt"] = "stophash" /\ pc'["lz"] = pc["lz"] /\ pc'["hash"] = pc["hash"]
      BY <1>2, <2>2, Moves DEF BtTakeFree, BtLabels
    <3> QED BY <2>1, <2>2, <3>1
  <2>3. CASE ~stopWriting["bt"]
    <3>1. /\ PcType' /\ pc'["bt"] = (IF needStart["hash"] THEN "fill" ELSE "lock")
          /\ pc'["lz"] = pc["lz"] /\ pc'["hash"] = pc["hash"]
      BY <1>2, <2>3, Moves DEF BtTakeFree, BtLabels
    <3> QED BY <2>1, <2>3, <3>1
  <2> QED BY <2>2, <2>3
<1>3. CASE BtLock
  <2>1. PcType' /\ pc'["bt"] = "fill" /\ pc'["lz"] = pc["lz"] /\ pc'["hash"] = pc["hash"]
    BY <1>3, Moves DEF BtLock, BtLabels
  <2> QED BY <1>3, <2>1 DEF BtLock, Lock, SyncType, Syncs, Threads
<1>4. CASE BtAsk
  <2>1. /\ PcType' /\ pc'["bt"] = "filled" /\ pc'["lz"] = pc["lz"] /\ pc'["hash"] = pc["hash"]
        /\ pc["bt"] = "fill"
    BY <1>4, Moves DEF BtAsk, BtMore, BtLabels
  <2>2. pc["lz"] \in LzCoding \union {"stopping"} /\ pc["hash"] \notin {"off", "end"}
    BY <2>1, BtAwake
  <2>3. CASE AskFirst("hash")
    <3>1. needStart["hash"] /\ pc["hash"] = "wait"
      BY <2>2, <2>3 DEF AskFirst
    <3> QED BY <2>1, <2>2, <2>3, <3>1 DEF AskFirst, SyncType, Syncs
  <2>4. CASE AskNext("hash")
    BY <2>1, <2>4 DEF AskNext, SyncType, Syncs
  <2> QED BY <1>4, <2>3, <2>4 DEF BtAsk
<1>5. CASE BtTake
  <2>1. /\ PcType' /\ pc'["bt"] = "lockhash" /\ pc'["lz"] = pc["lz"] /\ pc'["hash"] = pc["hash"]
        /\ pc["bt"] = "filled"
    BY <1>5, Moves DEF BtTake, BtLabels
  <2>2. ~canStart["hash"]
    BY <1>5, <1>a, <1>c, <2>1 DEF Rings, Untouched
  <2> QED BY <1>5, <2>1, <2>2 DEF BtTake, TakeFilled
<1>6. CASE BtHeader
  <2>1. /\ PcType' /\ pc'["bt"] \in {"post", "fill"} /\ pc'["lz"] = pc["lz"]
        /\ pc'["hash"] = pc["hash"]
    BY <1>6, Moves DEF BtHeader, BtLabels
  <2> QED BY <1>6, <2>1 DEF BtHeader, Lock, SyncType, Syncs, Threads
<1>7. CASE BtChunk
  BY <1>7, SameControl DEF BtChunk
<1>8. CASE BtPost
  <2>1. PcType' /\ pc'["bt"] = "next" /\ pc'["lz"] = pc["lz"] /\ pc'["hash"] = pc["hash"]
    BY <1>8, Moves DEF BtPost, BtLabels
  <2>2. csWasEntered["hash"] /\ pc["bt"] \in {"post", "fill"}
    <3>1. CASE pc["bt"] = "fill" /\ needStart["hash"]
      BY <1>8, <1>b, <3>1 DEF BtPost
    <3> QED BY <1>8, <3>1 DEF BtPost
  <2> QED BY <1>8, <2>1, <2>2 DEF BtPost, SyncType, Syncs
<1>9. CASE BtStopHash
  <2>1. pc["bt"] = "stophash" /\ ~csWasEntered["hash"] BY <1>9 DEF BtStopHash
  <2>2. CASE MustStop("hash")
    <3>1. PcType' /\ pc'["bt"] = "stopping" /\ pc'["lz"] = pc["lz"] /\ pc'["hash"] = pc["hash"]
      BY <1>9, <2>2, Moves DEF BtStopHash, BtLabels
    <3>2. StopWriting("bt", "hash") BY <1>9, <2>2 DEF BtStopHash
    <3> QED BY <2>1, <2>2, <3>1, <3>2 DEF StopWriting, MustStop, SyncType, Syncs
  <2>3. CASE ~MustStop("hash")
    <3>1. PcType' /\ pc'["bt"] = "wait" /\ pc'["lz"] = pc["lz"] /\ pc'["hash"] = pc["hash"]
      BY <1>9, <2>3, Moves DEF BtStopHash, BtLabels
    <3>2. SayStopped("bt") BY <1>9, <2>3 DEF BtStopHash
    <3>3. needStart["hash"] /\ ~canStart["bt"] /\ ~needStart["bt"]
      BY <2>1, <2>3, BtAwake DEF MustStop
    <3> QED BY <2>1, <3>1, <3>2, <3>3 DEF SayStopped, SyncType, Syncs
  <2> QED BY <2>2, <2>3
<1>10. CASE BtHashStopped
  <2>1. PcType' /\ pc'["bt"] = "stopped" /\ pc'["lz"] = pc["lz"] /\ pc'["hash"] = pc["hash"]
    BY <1>10, Moves DEF BtHashStopped, BtLabels
  <2> QED BY <1>10, <2>1 DEF BtHashStopped, Stopped, SyncType, Syncs
<1>11. CASE BtSayStopped
  <2>1. PcType' /\ pc'["bt"] = "wait" /\ pc'["lz"] = pc["lz"] /\ pc'["hash"] = pc["hash"]
    BY <1>11, Moves DEF BtSayStopped, BtLabels
  <2> QED BY <1>11, <2>1 DEF BtSayStopped, SayStopped, SyncType, Syncs
<1> QED BY <1>1, <1>2, <1>3, <1>4, <1>5, <1>6, <1>7, <1>8, <1>9, <1>10, <1>11 DEF BtStep

LEMMA HashControl ==
    ASSUME SyncInv, HashStep PROVE PcType' /\ Lives' /\ BtRuns' /\ HashRuns' /\ Locks'
<1> USE DEF SyncInv, Control, Lives, BtRuns, HashRuns, Locks, LzBefore, LzCoding, LzAfter,
            BtWriting
<1>1. CASE HashStart
  <2>1. CASE exit["hash"]
    <3>1. PcType' /\ pc'["hash"] = "end" /\ pc'["lz"] = pc["lz"] /\ pc'["bt"] = pc["bt"]
      BY <1>1, <2>1, Moves DEF HashStart, HashLabels
    <3> QED BY <1>1, <2>1, <3>1 DEF HashStart, Started, SyncType, Syncs
  <2>2. CASE ~exit["hash"]
    <3>1. PcType' /\ pc'["hash"] = "next" /\ pc'["lz"] = pc["lz"] /\ pc'["bt"] = pc["bt"]
      BY <1>1, <2>2, Moves DEF HashStart, HashLabels
    <3> QED BY <1>1, <2>2, <3>1 DEF HashStart, Started, SyncType, Syncs
  <2> QED BY <2>1, <2>2
<1>2. CASE HashLockBt
  <2>1. PcType' /\ pc'["hash"] = "lock" /\ pc'["lz"] = pc["lz"] /\ pc'["bt"] = pc["bt"]
    BY <1>2, Moves DEF HashLockBt, HashLabels
  <2> QED BY <1>2, <2>1 DEF HashLockBt, SyncType, Syncs
<1>3. CASE HashLockHash
  <2>1. PcType' /\ pc'["hash"] = "move" /\ pc'["lz"] = pc["lz"] /\ pc'["bt"] = pc["bt"]
    BY <1>3, Moves DEF HashLockHash, HashLabels
  <2> QED BY <1>3, <2>1 DEF HashLockHash, SyncType, Syncs
<1>4. CASE HashMove
  <2>1. PcType' /\ pc'["hash"] = "next" /\ pc'["lz"] = pc["lz"] /\ pc'["bt"] = pc["bt"]
    BY <1>4, Moves DEF HashMove, HashLabels
  <2> QED BY <1>4, <2>1 DEF HashMove, SyncType, Syncs
<1>5. CASE HashTakeFree
  <2>1. pc["hash"] = "next" /\ ~exit["hash"] BY <1>5 DEF HashTakeFree
  <2>2. /\ PcType' /\ pc'["hash"] \in {"stopped", "fill"}
        /\ pc'["lz"] = pc["lz"] /\ pc'["bt"] = pc["bt"]
    BY <1>5, <2>1, Moves DEF HashTakeFree, HashLabels
  <2> QED BY <1>5, <2>1, <2>2 DEF HashTakeFree, TakeFree
<1>6. CASE HashFill
  <2>1. PcType' /\ pc'["hash"] = "next" /\ pc'["lz"] = pc["lz"] /\ pc'["bt"] = pc["bt"]
    BY <1>6, Moves DEF HashFill, HashLabels
  <2> QED BY <1>6, <2>1 DEF HashFill, Post
<1>7. CASE HashSayStopped
  <2>1. PcType' /\ pc'["hash"] = "wait" /\ pc'["lz"] = pc["lz"] /\ pc'["bt"] = pc["bt"]
    BY <1>7, Moves DEF HashSayStopped, HashLabels
  <2> QED BY <1>7, <2>1 DEF HashSayStopped, SayStopped, SyncType, Syncs
<1> QED BY <1>1, <1>2, <1>3, <1>4, <1>5, <1>6, <1>7 DEF HashStep

LEMMA StepControl == ASSUME SyncInv, [Next]_vars PROVE Control'
<1>1. SyncType' BY StepSyncTyped DEF SyncInv, Control
<1>2. CASE WriteFails \/ UNCHANGED vars
  BY <1>2, SameControl DEF WriteFails, vars, SyncInv
<1>3. CASE LzStep BY <1>1, <1>3, LzControl DEF Control
<1>4. CASE BtStep BY <1>1, <1>4, BtControl DEF Control
<1>5. CASE HashStep BY <1>1, <1>5, HashControl DEF Control
<1> QED BY <1>2, <1>3, <1>4, <1>5 DEF Next, ThreadStep

-----------------------------------------------------------------------------
(* The rings are used in turn *)

LEMMA AfterNext ==
    ASSUME NEW s \in Syncs, NEW n \in 0..(NumBlocks[s] - 1), NEW m \in 0..(NumBlocks[s] - 1),
           NEW k \in 0..(NumBlocks[s] - 1), After(s, n, k, m)
    PROVE  After(s, NextOf(s, n), k + 1, m)
<1>1. NumBlocks[s] \in Nat \ {0} BY RingsHaveRoom
<1> QED BY <1>1, NextInRing DEF After

LEMMA AfterReader ==
    ASSUME NEW s \in Syncs, NEW n \in 0..(NumBlocks[s] - 1), NEW m \in 0..(NumBlocks[s] - 1),
           NEW r \in 0..(NumBlocks[s] - 1), NEW k \in 1..NumBlocks[s],
           After(s, n, k, m), After(s, r, 1, m)
    PROVE  After(s, n, k - 1, r)
<1>1. NumBlocks[s] \in Nat \ {0} BY RingsHaveRoom
<1> QED BY <1>1 DEF After

\* What the reader and the writer of ring s do to it.
RingVars(s) == <<needStart[s], stopWriting[s], free[s], filled[s], numProcessed[s], reading[s],
                 block[s]>>

LEMMA RingNumbers ==
    ASSUME SyncType, NEW s \in Syncs
    PROVE  /\ NumBlocks[s] \in Nat \ {0} /\ free[s] \in Nat /\ filled[s] \in Nat
           /\ numProcessed[s] \in 0..(NumBlocks[s] - 1) /\ reading[s] \in 0..(NumBlocks[s] - 1)
           /\ block[s] \in 0..(NumBlocks[s] - 1)
           /\ One(Held(s)) \in {0, 1} /\ One(Writing(s)) \in {0, 1}
BY RingsHaveRoom DEF SyncType, One

LEMMA RingSame ==
    ASSUME NEW s \in Syncs, Ring(s), UNCHANGED RingVars(s), Writing(s)' <=> Writing(s),
           Held(s)' <=> Held(s)
    PROVE  Ring(s)'
BY DEF Ring, RingVars, Ahead, One

\* The reader starts a ring.
LEMMA RingStarts ==
    ASSUME SyncType, NEW s \in Syncs, AskFirst(s), Untouched(s), ~Held(s)', ~Writing(s)'
    PROVE  Ring(s)' /\ Untouched(s)'
<1>1. /\ free'[s] = NumBlocks[s] /\ filled'[s] = 0 /\ block'[s] = 0 /\ reading'[s] = 0
      /\ numProcessed'[s] = NextOf(s, 0)
  BY DEF AskFirst, Untouched, SyncType
<1>2. NumBlocks[s] \in Nat \ {0} BY RingsHaveRoom
<1>3. After(s, NextOf(s, 0), 1, 0) /\ After(s, 0, 0, 0)
  BY <1>2, AfterNext DEF After
<1> QED BY <1>1, <1>2, <1>3 DEF Ring, Ahead, One, Untouched

\* The reader gives a block back.
LEMMA RingGives ==
    ASSUME SyncType, NEW s \in Syncs, Ring(s), AskNext(s), Held(s), ~Held(s)',
           Writing(s)' <=> Writing(s)
    PROVE  Ring(s)'
<1> SUFFICES ASSUME ~stopWriting[s] PROVE Ring(s)' BY DEF Ring, AskNext
<1>1. ~needStart[s] BY DEF AskNext
<1>2. /\ free[s] + filled[s] + 1 + One(Writing(s)) = NumBlocks[s]
      /\ After(s, numProcessed[s], 1, reading[s]) /\ After(s, block[s], filled[s] + 1, reading[s])
  BY <1>1, RingNumbers DEF Ring, Ahead, One
<1>3. /\ free'[s] = free[s] + 1 /\ filled'[s] = filled[s] /\ block'[s] = block[s]
      /\ reading'[s] = numProcessed[s] /\ numProcessed'[s] = NextOf(s, numProcessed[s])
  <2>1. free[s] < NumBlocks[s] BY <1>2, RingNumbers
  <2>2. free' = [free EXCEPT ![s] = free[s] + 1] BY <2>1 DEF AskNext, Release, SyncType
  <2> QED BY <2>2 DEF AskNext, SyncType
<1>4. After(s, block[s], filled[s], numProcessed[s])
  <2>1. filled[s] + 1 \in 1..NumBlocks[s] /\ (filled[s] + 1) - 1 = filled[s]
    BY <1>2, RingNumbers
  <2> HIDE DEF After
  <2> QED BY <1>2, <2>1, RingNumbers, AfterReader
<1>5. After(s, NextOf(s, numProcessed[s]), 1, numProcessed[s])
  <2>1. After(s, numProcessed[s], 0, numProcessed[s]) BY RingNumbers DEF After
  <2>2. 0 \in 0..(NumBlocks[s] - 1) /\ 0 + 1 = 1 BY RingNumbers
  <2> HIDE DEF After
  <2> QED BY <2>1, <2>2, RingNumbers, AfterNext
<1> QED BY <1>2, <1>3, <1>4, <1>5, RingNumbers DEF Ring, Ahead, One

\* The reader takes a filled block, the writer a free one.
LEMMA RingTakes ==
    ASSUME SyncType, NEW s \in Syncs, Ring(s)
    PROVE  /\ TakeFilled(s) /\ ~Held(s) /\ Held(s)' /\ (Writing(s)' <=> Writing(s)) => Ring(s)'
           /\ TakeFree(s) /\ ~Writing(s) /\ Writing(s)' /\ (Held(s)' <=> Held(s)) => Ring(s)'
<1>1. ASSUME TakeFilled(s), ~Held(s), Held(s)', Writing(s)' <=> Writing(s) PROVE Ring(s)'
  <2>1. /\ filled'[s] = filled[s] - 1 /\ free'[s] = free[s] /\ block'[s] = block[s]
        /\ reading'[s] = reading[s] /\ numProcessed'[s] = numProcessed[s]
        /\ needStart'[s] = needStart[s] /\ stopWriting'[s] = stopWriting[s]
    BY <1>1 DEF TakeFilled, SyncType
  <2>2. Ahead(s)' = Ahead(s) BY <1>1, <2>1, RingNumbers DEF Ahead, One
  <2> QED BY <1>1, <2>1, <2>2 DEF Ring, One
<1>2. ASSUME TakeFree(s), ~Writing(s), Writing(s)', Held(s)' <=> Held(s) PROVE Ring(s)'
  <2>1. /\ free'[s] = free[s] - 1 /\ filled'[s] = filled[s] /\ block'[s] = block[s]
        /\ reading'[s] = reading[s] /\ numProcessed'[s] = numProcessed[s]
        /\ needStart'[s] = needStart[s] /\ stopWriting'[s] = stopWriting[s]
    BY <1>2 DEF TakeFree, SyncType
  <2>2. Ahead(s)' = Ahead(s) /\ Ahead(s) \in Int BY <1>2, <2>1, RingNumbers DEF Ahead, One
  <2> QED BY <1>2, <2>1, <2>2, RingNumbers DEF Ring, One
<1> QED BY <1>1, <1>2

\* The writer is done with a block.
LEMMA RingPosts ==
    ASSUME SyncType, NEW s \in Syncs, Ring(s), Post(s), Writing(s), ~Writing(s)',
           Held(s)' <=> Held(s),
           UNCHANGED <<free, reading, numProcessed, needStart, stopWriting>>
    PROVE  Ring(s)'
<1> SUFFICES ASSUME ~stopWriting[s], ~needStart[s] PROVE Ring(s)' BY DEF Ring
<1>1. /\ free[s] + Ahead(s) + 1 = NumBlocks[s] /\ After(s, block[s], Ahead(s), reading[s])
      /\ After(s, numProcessed[s], 1, reading[s])
  BY DEF Ring, One
<1>2. filled'[s] = filled[s] + 1 /\ block'[s] = NextOf(s, block[s])
  <2>1. filled[s] < NumBlocks[s] BY <1>1, RingNumbers DEF Ahead
  <2>2. filled' = [filled EXCEPT ![s] = filled[s] + 1] BY <2>1 DEF Post, Release, SyncType
  <2> QED BY <2>2 DEF Post, SyncType
<1>3. Ahead(s)' = Ahead(s) + 1 /\ Ahead(s) \in 0..(NumBlocks[s] - 1)
  BY <1>1, <1>2, RingNumbers DEF Ahead, One
<1>4. After(s, NextOf(s, block[s]), Ahead(s) + 1, reading[s])
  <2> HIDE DEF After
  <2> QED BY <1>1, <1>3, RingNumbers, AfterNext
<1> QED BY <1>1, <1>2, <1>3, <1>4, RingNumbers DEF Ring, One

\* With no thread started, or all of them stopped, there is nothing to keep.
AtRest ==
    /\ needStart["bt"] /\ pc["lz"] # "begin"
    /\ pc["lz"] \in LzBefore => block["bt"] = 0 /\ block["hash"] = 0

LEMMA RestRings == Control /\ AtRest => Rings
<1> SUFFICES ASSUME Control, AtRest PROVE Rings OBVIOUS
<1> USE DEF AtRest
<1>1. pc["bt"] \in {"off", "wait", "end"} BY DEF Control, BtRuns
<1>2. needStart["hash"] BY <1>1 DEF Control, HashRuns, BtWriting
<1>3. pc["lz"] \in LzBefore \union LzAfter BY DEF Control, BtRuns
<1>4. canStart["bt"] => exit["bt"]
  BY <1>3 DEF Control, BtRuns, LzBefore, LzAfter
<1>5. canStart["hash"] => exit["hash"]
  BY <1>2 DEF Control, HashRuns
<1>6. HashFresh => pc["lz"] \in LzBefore BY <1>1, <1>4 DEF HashFresh
<1> QED BY <1>2, <1>3, <1>4, <1>5, <1>6 DEF Rings, Ring, Syncs, LzBefore

LEMMA LzRings == ASSUME SyncInv, LzStep, Control' PROVE Rings'
<1>a. SyncType /\ Ring("bt") /\ Ring("hash") BY DEF SyncInv, Control, Rings
<1>b. "bt" \in Syncs /\ "hash" \in Syncs /\ "bt" # "hash" BY DEF Syncs
<1>1. CASE CreateHash \/ CreateBt \/ CreateFails \/ Finished \/ DestroyNone \/ Destroy \/ Joined
  <2>1. block' = block
    BY <1>1 DEF CreateHash, CreateBt, CreateFails, Finished, Stopped, DestroyNone, Destroy,
                SendExit, Joined, Join
  <2>2. pc'["lz"] # "begin" /\ pc["lz"] \notin LzCoding
        /\ (pc'["lz"] \in LzBefore => pc["lz"] \in LzBefore)
    BY <1>1 DEF CreateHash, CreateBt, CreateFails, Finished, DestroyNone, Next1, Destroy, Doomed,
                Joined, Goto, SyncInv, Control, PcType, Threads, LzBefore, LzCoding
  <2>3. needStart'["bt"]
    BY <1>1 DEF CreateHash, CreateBt, Create, CreateFails, Finished, Stopped, DestroyNone, Destroy,
                SendExit, Joined, Join, SyncInv, Control, BtRuns, SyncType, Syncs, LzBefore,
                LzAfter
  <2>4. pc'["lz"] \in LzBefore => block'["bt"] = 0 /\ block'["hash"] = 0
    BY <2>1, <2>2, <1>b DEF SyncInv, Rings
  <2>5. AtRest' BY <2>2, <2>3, <2>4 DEF AtRest
  <2> QED BY <2>5, RestRings, PTL
<1>2. CASE InitFinder
  <2>1. UNCHANGED <<needStart, exit, block, canStart>> /\ free' = NumBlocks
        /\ filled' = [s \in Syncs |-> 0] /\ needStart["hash"] /\ needStart["bt"]
        /\ pc["lz"] = "init" /\ block["bt"] = 0 /\ block["hash"] = 0
    BY <1>2, <1>b DEF InitFinder, InitSemaphores, SyncInv, Rings, LzBefore
  <2> QED BY <2>1, <1>b DEF Rings, Ring, Untouched, Syncs
<1>3. CASE AskBlock
  <2>1. /\ pc'["lz"] = "filled" /\ pc'["bt"] = pc["bt"] /\ pc'["hash"] = pc["hash"]
        /\ pc["lz"] \in {"begin", "code"}
    BY <1>3, Moves DEF AskBlock, LzLabels, SyncInv, Control
  <2>2. UNCHANGED RingVars("hash") /\ canStart'["hash"] = canStart["hash"]
        /\ exit'["hash"] = exit["hash"]
    BY <1>3, <1>b DEF AskBlock, AskFirst, AskNext, RingVars, SyncInv, Control, SyncType, Release
  <2>3. Ring("hash")' BY <1>a, <1>b, <2>1, <2>2, RingSame DEF RingVars, Writing, Held
  <2>4. CASE AskFirst("bt")
    <3>1. needStart["bt"] /\ pc["lz"] = "begin" /\ Untouched("bt") /\ Untouched("hash")
      BY <2>1, <2>4 DEF AskFirst, SyncInv, Control, BtRuns, Rings, LzBefore, LzAfter, HashFresh, Syncs
    <3>2. ~Held("bt")' /\ ~Writing("bt")'
      BY <2>1, <3>1 DEF Held, Writing, SyncInv, Control, BtRuns, BtWriting
    <3>3. Ring("bt")' /\ Untouched("bt")' BY <1>a, <1>b, <2>4, <3>1, <3>2, RingStarts
    <3>4. Untouched("hash")' BY <2>2, <3>1 DEF RingVars, Untouched
    <3> QED BY <2>1, <2>3, <3>3, <3>4 DEF Rings, LzBefore
  <2>5. CASE AskNext("bt")
    <3>1. pc["lz"] = "code" /\ UNCHANGED <<needStart, canStart, exit>>
      BY <2>1, <2>5 DEF AskNext, SyncInv, Control, BtRuns, LzBefore
    <3>2. Held("bt") /\ ~Held("bt")' /\ (Writing("bt")' <=> Writing("bt"))
      BY <2>1, <3>1 DEF Held, Writing
    <3>3. Ring("bt")' BY <1>a, <1>b, <2>5, <3>2, RingGives
    <3>4. ~(canStart'["bt"] /\ ~exit'["bt"])
      BY <2>1, <3>1 DEF SyncInv, Control, BtRuns
    <3>5. HashFresh' => Untouched("hash")'
      BY <2>1, <2>2, <3>1 DEF SyncInv, Rings, HashFresh, RingVars, Untouched, LzBefore
    <3>6. canStart'["hash"] /\ ~exit'["hash"] => Untouched("hash")'
      BY <2>2 DEF SyncInv, Rings, RingVars, Untouched
    <3> QED BY <2>1, <2>3, <3>3, <3>4, <3>5, <3>6 DEF Rings, LzBefore
  <2> QED BY <1>3, <2>4, <2>5 DEF AskBlock
<1>4. CASE TakeBlock
  <2>1. /\ pc'["lz"] = "lock" /\ pc'["bt"] = pc["bt"] /\ pc'["hash"] = pc["hash"]
        /\ pc["lz"] = "filled" /\ TakeFilled("bt")
    BY <1>4, Moves DEF TakeBlock, LzLabels, SyncInv, Control
  <2>2. UNCHANGED RingVars("hash") /\ UNCHANGED <<needStart, canStart, exit>>
    BY <2>1, <1>b DEF TakeFilled, RingVars, SyncInv, Control, SyncType
  <2>3. Ring("hash")' BY <1>a, <1>b, <2>1, <2>2, RingSame DEF Writing, Held
  <2>4. Ring("bt")' BY <1>a, <1>b, <2>1, RingTakes DEF Writing, Held
  <2>5. ~canStart'["bt"] \/ exit'["bt"] BY <2>1 DEF Control, BtRuns
  <2>6. Untouched("hash") => Untouched("hash")' BY <2>2 DEF RingVars, Untouched
  <2>7. HashFresh' => HashFresh BY <2>1, <2>2 DEF HashFresh, LzBefore
  <2> QED BY <2>1, <2>2, <2>3, <2>4, <2>5, <2>6, <2>7 DEF SyncInv, Rings, LzBefore
<1>5. CASE LzHeader \/ GetMatches \/ Skip \/ StopOnError \/ Flush
  <2>1. UNCHANGED <<needStart, stopWriting, free, filled, numProcessed, reading, block, canStart,
                    exit>>
    BY <1>5 DEF LzHeader, Lock, GetMatches, Skip, StopOnError, Flush, syncVars
  <2>2. /\ pc'["bt"] = pc["bt"] /\ pc'["hash"] = pc["hash"]
        /\ {pc["lz"], pc'["lz"]} \subseteq {"lock", "code", "flush", "finish"}
    <3>1. CASE LzHeader BY <3>1, Moves DEF LzHeader, LzLabels, SyncInv, Control
    <3>2. CASE GetMatches \/ Skip BY <3>2 DEF GetMatches, Skip, CodeOne, syncVars
    <3>3. CASE StopOnError \/ Flush
      BY <3>3, Moves DEF StopOnError, Flush, LzLabels, SyncInv, Control
    <3> QED BY <1>5, <3>1, <3>2, <3>3
  <2>3. Ring("hash")' BY <1>a, <1>b, <2>1, <2>2, RingSame DEF RingVars, Writing, Held
  <2>4. Ring("bt")' BY <1>a, <1>b, <2>1, <2>2, RingSame DEF RingVars, Writing, Held
  <2>5. HashFresh' => HashFresh BY <2>1, <2>2 DEF HashFresh, LzBefore
  <2> QED BY <2>1, <2>2, <2>3, <2>4, <2>5 DEF SyncInv, Rings, Untouched, LzBefore
<1>6. CASE Finish
  <2>1. /\ pc'["lz"] = "stopping" /\ pc'["bt"] = pc["bt"] /\ pc'["hash"] = pc["hash"]
        /\ pc["lz"] = "finish" /\ StopWriting("lz", "bt")
    BY <1>6, Moves DEF Finish, LzLabels, SyncInv, Control
  <2>2. UNCHANGED RingVars("hash") /\ UNCHANGED <<needStart, canStart, exit>> /\ stopWriting'["bt"]
    BY <2>1, <1>b DEF StopWriting, Release, RingVars, SyncInv, Control, SyncType
  <2>3. Ring("hash")' BY <1>a, <1>b, <2>1, <2>2, RingSame DEF Writing, Held
  <2>4. Ring("bt")' BY <2>2 DEF Ring
  <2>5. ~canStart'["bt"] \/ exit'["bt"] BY <2>1 DEF Control, BtRuns
  <2>6. Untouched("hash") => Untouched("hash")' BY <2>2 DEF RingVars, Untouched
  <2>7. HashFresh' => HashFresh BY <2>1, <2>2 DEF HashFresh, LzBefore
  <2> QED BY <2>1, <2>2, <2>3, <2>4, <2>5, <2>6, <2>7 DEF SyncInv, Rings, LzBefore
<1> QED BY <1>1, <1>2, <1>3, <1>4, <1>5, <1>6 DEF LzStep

\* While the encoder codes, or waits for the tree thread at work, no more is to be said.
CodingRings ==
    /\ pc["lz"] \in LzCoding \union {"stopping"} /\ ~canStart["bt"]
    /\ Ring("bt") /\ Ring("hash")
    /\ HashFresh => Untouched("hash")
    /\ canStart["hash"] /\ ~exit["hash"] => Untouched("hash")

LEMMA CodingIsEnough == CodingRings => Rings
BY DEF CodingRings, Rings, LzBefore, LzCoding

\* What a step of the tree thread that leaves the semaphores alone does to the rings.
LEMMA BtQuiet ==
    ASSUME SyncInv, pc["bt"] \notin {"off", "wait", "end"}, pc'["lz"] = pc["lz"],
           pc'["hash"] = pc["hash"],
           UNCHANGED <<needStart, stopWriting, free, filled, numProcessed, reading, block,
                       canStart, exit>>,
           pc["bt"] \in BtWriting <=> pc'["bt"] \in BtWriting,
           pc["bt"] \in {"filled", "stopping"} <=> pc'["bt"] \in {"filled", "stopping"},
           needStart["hash"] /\ pc'["bt"] \in {"next", "fill"} => pc["bt"] \in {"next", "fill"}
    PROVE  Rings'
<1>1. /\ pc["lz"] \in LzCoding \union {"stopping"} /\ ~canStart["bt"]
      /\ canStart["hash"] => ~exit["hash"]
  BY BtAwake DEF SyncInv
<1>2. /\ Ring("bt") /\ Ring("hash") /\ "bt" \in Syncs /\ "hash" \in Syncs
      /\ pc["lz"] \notin LzBefore
  BY <1>1 DEF SyncInv, Rings, Syncs, LzBefore, LzCoding
<1>3. Ring("bt")' BY <1>2, RingSame DEF RingVars, Writing, Held
<1>4. Ring("hash")' BY <1>2, RingSame DEF RingVars, Writing, Held
<1>5. HashFresh' => Untouched("hash")'
  BY <1>1, <1>2 DEF HashFresh, SyncInv, Rings, Untouched
<1>6. canStart'["hash"] /\ ~exit'["hash"] => Untouched("hash")'
  BY DEF SyncInv, Rings, Untouched
<1>7. CodingRings' BY <1>1, <1>3, <1>4, <1>5, <1>6 DEF CodingRings
<1> QED BY <1>7, CodingIsEnough, PTL

LEMMA BtRings == ASSUME SyncInv, BtStep, Control' PROVE Rings'
<1>a. SyncType /\ Ring("bt") /\ Ring("hash") BY DEF SyncInv, Control, Rings
<1>b. "bt" \in Syncs /\ "hash" \in Syncs /\ "bt" # "hash" BY DEF Syncs
<1>c. UNCHANGED RingVars("bt") => (Untouched("bt") => Untouched("bt")')
  BY DEF RingVars, Untouched
<1>d. UNCHANGED RingVars("hash") => (Untouched("hash") => Untouched("hash")')
  BY DEF RingVars, Untouched
<1>1. CASE BtStart
  <2>1. /\ canStart["bt"] /\ canStart' = [canStart EXCEPT !["bt"] = FALSE]
        /\ block' = [block EXCEPT !["bt"] = 0]
        /\ UNCHANGED <<needStart, stopWriting, free, filled, numProcessed, reading, exit>>
    BY <1>1 DEF BtStart, Started
  <2>2. UNCHANGED RingVars("hash") /\ block'["bt"] = 0
    BY <2>1, <1>b DEF RingVars, SyncInv, Control, SyncType
  <2>3. CASE exit["bt"]
    <3>1. needStart["bt"] /\ pc["lz"] = "join bt" /\ pc'["lz"] = pc["lz"]
      BY <1>1, <2>1, <2>3, Moves DEF BtStart, BtLabels, SyncInv, Control, BtRuns
    <3>2. AtRest' BY <2>1, <3>1 DEF AtRest, LzBefore
    <3> QED BY <3>2, RestRings, PTL
  <2>4. CASE ~exit["bt"]
    <3>1. /\ pc'["bt"] = "next" /\ pc'["lz"] = pc["lz"] /\ pc'["hash"] = pc["hash"]
          /\ pc["lz"] = "filled" /\ pc["bt"] = "wait" /\ Untouched("bt")
      BY <1>1, <2>1, <2>4, Moves DEF BtStart, BtLabels, SyncInv, Control, BtRuns, Rings
    <3>2. needStart["hash"] /\ needStart'["hash"]
      BY <2>1, <3>1 DEF SyncInv, Control, HashRuns, BtWriting
    <3>3. UNCHANGED RingVars("bt") /\ Untouched("hash")
      BY <2>1, <2>2, <2>4, <3>1, <3>2, <1>b
         DEF RingVars, Untouched, SyncInv, Rings, HashFresh, LzBefore, Control, SyncType
    <3>4. Ring("bt")' BY <1>a, <1>b, <3>1, <3>3, RingSame DEF Writing, Held, BtWriting
    <3>5. Ring("hash")' BY <3>2 DEF Ring
    <3>6. canStart'["hash"] = canStart["hash"]
      BY <2>1, <1>b DEF SyncInv, Control, SyncType
    <3> QED BY <1>c, <1>d, <2>1, <2>2, <3>1, <3>2, <3>3, <3>4, <3>5, <3>6 DEF Rings, LzBefore
  <2> QED BY <2>3, <2>4
<1>2. CASE BtTakeFree
  <2>1. /\ pc["bt"] = "next" /\ pc'["lz"] = pc["lz"] /\ pc'["hash"] = pc["hash"]
        /\ pc'["bt"] = IF stopWriting["bt"] THEN "stophash"
                       ELSE IF needStart["hash"] THEN "fill" ELSE "lock"
        /\ TakeFree("bt")
    BY <1>2 DEF BtTakeFree, Goto, SyncInv, Control, PcType, Threads
  <2>2. /\ pc["lz"] \in LzCoding \union {"stopping"} /\ ~canStart["bt"]
    BY <2>1, BtAwake DEF SyncInv
  <2>3. UNCHANGED RingVars("hash") /\ UNCHANGED <<needStart, stopWriting, canStart, exit>>
    BY <2>1, <1>b DEF TakeFree, RingVars, SyncInv, Control, SyncType
  <2>4. Ring("hash")' BY <1>a, <1>b, <2>1, <2>3, RingSame DEF Writing, Held
  <2>5. Ring("bt")'
    <3>1. CASE stopWriting["bt"] BY <2>3, <3>1 DEF Ring
    <3>2. CASE ~stopWriting["bt"]
      BY <1>a, <1>b, <2>1, <3>2, RingTakes DEF Writing, Held, BtWriting
    <3> QED BY <3>1, <3>2
  <2>6. HashFresh' => Untouched("hash")'
    BY <1>d, <2>1, <2>2, <2>3 DEF HashFresh, SyncInv, Rings, LzBefore, LzCoding
  <2>7. canStart'["hash"] /\ ~exit'["hash"] => Untouched("hash")'
    BY <1>d, <2>3 DEF SyncInv, Rings
  <2>8. CodingRings' BY <2>1, <2>2, <2>3, <2>4, <2>5, <2>6, <2>7 DEF CodingRings
  <2> QED BY <2>8, CodingIsEnough, PTL
<1>3. CASE BtLock \/ BtHeader \/ BtSayStopped
  <2>1. /\ pc'["lz"] = pc["lz"] /\ pc'["hash"] = pc["hash"]
        /\ \/ pc["bt"] \in BtWriting \ {"filled", "fill"} /\ pc'["bt"] \in {"fill", "post"}
              /\ ~needStart["hash"]
           \/ pc["bt"] = "stopped" /\ pc'["bt"] = "wait"
    BY <1>3 DEF BtLock, BtHeader, BtSayStopped, Goto, SyncInv, Control, PcType, Threads, BtWriting,
                HashRuns
  <2>2. UNCHANGED <<needStart, stopWriting, free, filled, numProcessed, reading, block, canStart,
                    exit>>
    BY <1>3 DEF BtLock, BtHeader, Lock, BtSayStopped, SayStopped
  <2> QED BY <2>1, <2>2, BtQuiet DEF BtWriting
<1>4. CASE BtChunk
  <2>1. UNCHANGED syncVars /\ pc["bt"] = "fill" BY <1>4 DEF BtChunk, BtMore
  <2> QED BY <2>1, BtQuiet DEF syncVars
<1>5. CASE BtAsk
  <2>1. /\ pc["bt"] = "fill" /\ pc'["lz"] = pc["lz"] /\ pc'["hash"] = pc["hash"]
        /\ pc'["bt"] = "filled"
    BY <1>5 DEF BtAsk, BtMore, Goto, SyncInv, Control, PcType, Threads
  <2>2. /\ pc["lz"] \in LzCoding \union {"stopping"} /\ ~canStart["bt"]
        /\ canStart["hash"] => ~exit["hash"]
    BY <2>1, BtAwake DEF SyncInv
  <2>3. UNCHANGED RingVars("bt") /\ canStart'["bt"] = canStart["bt"]
    BY <1>5, <1>b DEF BtAsk, AskFirst, AskNext, Release, RingVars, SyncInv, Control, SyncType
  <2>4. Ring("bt")' BY <1>a, <1>b, <2>1, <2>3, RingSame DEF Writing, Held, BtWriting
  <2>5. ~HashFresh' BY <2>1, <2>2, <2>3 DEF HashFresh, LzBefore, LzCoding
  <2>6. CASE AskFirst("hash")
    <3>1. needStart["hash"] BY <2>6 DEF AskFirst
    <3>2. Untouched("hash") /\ pc["hash"] # "fill"
      BY <2>1, <2>2, <3>1 DEF SyncInv, Rings, HashFresh, Control, HashRuns, LzBefore, LzCoding
    <3>3. ~Held("hash")' /\ ~Writing("hash")' BY <2>1, <3>2 DEF Held, Writing
    <3>4. Ring("hash")' /\ Untouched("hash")' BY <1>a, <1>b, <2>6, <3>2, <3>3, RingStarts
    <3>5. CodingRings' BY <2>1, <2>2, <2>3, <2>4, <2>5, <3>4 DEF CodingRings
    <3> QED BY <3>5, CodingIsEnough, PTL
  <2>7. CASE AskNext("hash")
    <3>1. ~needStart["hash"] /\ UNCHANGED <<needStart, canStart, exit>> BY <2>7 DEF AskNext
    <3>2. Held("hash") /\ ~Held("hash")' /\ (Writing("hash")' <=> Writing("hash"))
      BY <2>1, <3>1 DEF Held, Writing
    <3>3. Ring("hash")' BY <1>a, <1>b, <2>7, <3>2, RingGives
    <3>4. ~canStart["hash"] BY <2>1, <2>2, <3>1 DEF SyncInv, Control, HashRuns
    <3>5. CodingRings' BY <2>1, <2>2, <2>3, <2>4, <2>5, <3>1, <3>3, <3>4 DEF CodingRings
    <3> QED BY <3>5, CodingIsEnough, PTL
  <2> QED BY <1>5, <2>6, <2>7 DEF BtAsk
<1>6. CASE BtTake
  <2>1. /\ pc["bt"] = "filled" /\ pc'["lz"] = pc["lz"] /\ pc'["hash"] = pc["hash"]
        /\ pc'["bt"] = "lockhash" /\ TakeFilled("hash")
    BY <1>6 DEF BtTake, Goto, SyncInv, Control, PcType, Threads
  <2>2. /\ pc["lz"] \in LzCoding \union {"stopping"} /\ ~canStart["bt"]
    BY <2>1, BtAwake DEF SyncInv
  <2>3. UNCHANGED RingVars("bt") /\ UNCHANGED <<needStart, canStart, exit>>
    BY <2>1, <1>b DEF TakeFilled, RingVars, SyncInv, Control, SyncType
  <2>4. Ring("bt")' BY <1>a, <1>b, <2>1, <2>3, RingSame DEF Writing, Held, BtWriting
  <2>5. ~needStart["hash"] BY <2>1 DEF SyncInv, Control, HashRuns
  <2>6. Ring("hash")' BY <1>a, <1>b, <2>1, <2>3, <2>5, RingTakes DEF Writing, Held
  <2>7. ~HashFresh' BY <2>3, <2>5 DEF HashFresh
  <2>8. ~canStart'["hash"] \/ exit'["hash"] BY <2>1 DEF Control, HashRuns
  <2>9. CodingRings' BY <2>1, <2>2, <2>3, <2>4, <2>6, <2>7, <2>8 DEF CodingRings
  <2> QED BY <2>9, CodingIsEnough, PTL
<1>7. CASE BtPost
  <2>1. /\ pc["bt"] \in {"post", "fill"} /\ pc'["lz"] = pc["lz"] /\ pc'["hash"] = pc["hash"]
        /\ pc'["bt"] = "next" /\ Post("bt")
        /\ UNCHANGED <<free, reading, numProcessed, needStart, stopWriting, canStart, exit>>
    BY <1>7 DEF BtPost, Goto, SyncInv, Control, PcType, Threads
  <2>2. /\ pc["lz"] \in LzCoding \union {"stopping"} /\ ~canStart["bt"]
    BY <2>1, BtAwake DEF SyncInv
  <2>3. UNCHANGED RingVars("hash")
    BY <2>1, <1>b DEF Post, Release, RingVars, SyncInv, Control, SyncType
  <2>4. Ring("hash")' BY <1>a, <1>b, <2>1, <2>3, RingSame DEF Writing, Held
  <2>5. Ring("bt")' BY <1>a, <1>b, <2>1, RingPosts DEF Writing, Held, BtWriting
  <2>6. HashFresh' => Untouched("hash")'
    BY <1>d, <2>1, <2>2, <2>3
       DEF HashFresh, SyncInv, Rings, LzBefore, LzCoding, Control, HashRuns
  <2>7. canStart'["hash"] /\ ~exit'["hash"] => Untouched("hash")'
    BY <1>d, <2>1, <2>3 DEF SyncInv, Rings
  <2>8. CodingRings' BY <2>1, <2>2, <2>4, <2>5, <2>6, <2>7 DEF CodingRings
  <2> QED BY <2>8, CodingIsEnough, PTL
<1>8. CASE BtStopHash /\ ~MustStop("hash")
  <2>1. /\ pc["bt"] = "stophash" /\ pc'["lz"] = pc["lz"] /\ pc'["hash"] = pc["hash"]
        /\ pc'["bt"] = "wait" /\ SayStopped("bt")
    BY <1>8 DEF BtStopHash, Goto, SyncInv, Control, PcType, Threads
  <2> QED BY <2>1, BtQuiet DEF SayStopped, BtWriting
<1>9. CASE (BtStopHash /\ MustStop("hash")) \/ BtHashStopped
  <2>1. /\ pc["bt"] \in {"stophash", "stopping"} /\ pc'["lz"] = pc["lz"]
        /\ pc'["hash"] = pc["hash"] /\ pc'["bt"] \in {"stopping", "stopped"}
        /\ UNCHANGED <<filled, numProcessed, reading, block, canStart, exit>>
        /\ stopWriting'["hash"] \/ needStart'["hash"]
        /\ UNCHANGED RingVars("bt")
    BY <1>9, <1>b DEF BtStopHash, BtHashStopped, StopWriting, Release, Stopped, Goto, RingVars,
                      SyncInv, Control, PcType, Threads, SyncType
  <2>2. /\ pc["lz"] \in LzCoding \union {"stopping"} /\ ~canStart["bt"]
    BY <2>1, BtAwake DEF SyncInv
  <2>3. Ring("bt")' BY <1>a, <1>b, <2>1, RingSame DEF Writing, Held, BtWriting
  <2>4. Ring("hash")' BY <2>1 DEF Ring
  <2>5. ~HashFresh' BY <2>1, <2>2 DEF HashFresh, LzBefore, LzCoding
  <2>6. ~canStart'["hash"] \/ exit'["hash"] BY <2>1 DEF Control, HashRuns
  <2>7. CodingRings' BY <2>1, <2>2, <2>3, <2>4, <2>5, <2>6 DEF CodingRings
  <2> QED BY <2>7, CodingIsEnough, PTL
<1> QED BY <1>1, <1>2, <1>3, <1>4, <1>5, <1>6, <1>7, <1>8, <1>9 DEF BtStep

LEMMA HashRings == ASSUME SyncInv, HashStep, Control' PROVE Rings'
<1>a. SyncType /\ Ring("bt") /\ Ring("hash") BY DEF SyncInv, Control, Rings
<1>b. "bt" \in Syncs /\ "hash" \in Syncs /\ "bt" # "hash" BY DEF Syncs
<1>c. /\ pc'["lz"] = pc["lz"] /\ pc'["bt"] = pc["bt"]
      /\ needStart' = needStart /\ exit' = exit /\ stopWriting' = stopWriting
  BY DEF HashStep, HashStart, HashLockBt, HashLockHash, HashMove, HashTakeFree, HashFill,
         HashSayStopped, Started, TakeFree, SayStopped, Goto, SyncInv, Control, PcType, Threads
<1>1. CASE HashStart /\ exit["hash"]
  <2>1. pc["lz"] = "join hash" /\ needStart["bt"]
    BY <1>1 DEF HashStart, Started, SyncInv, Control, HashRuns, BtRuns, LzAfter
  <2>2. AtRest' BY <1>c, <2>1 DEF AtRest, LzBefore
  <2> QED BY <2>2, RestRings, PTL
<1>2. CASE ~(HashStart /\ exit["hash"])
  <2>1. ~needStart["hash"]
        /\ pc["bt"] \in BtWriting \union {"next", "stophash", "stopping"}
    <3>1. CASE HashStart
      BY <1>2, <3>1 DEF HashStart, Started, SyncInv, Control, HashRuns
    <3>2. CASE ~HashStart
      BY <3>2 DEF HashStep, HashLockBt, HashLockHash, HashMove, HashTakeFree, HashFill,
                  HashSayStopped, SyncInv, Control, HashRuns
    <3> QED BY <3>1, <3>2
  <2>2. /\ pc["lz"] \in LzCoding \union {"stopping"} /\ ~canStart["bt"]
    BY <2>1, BtAwake DEF SyncInv, BtWriting
  <2>3. UNCHANGED RingVars("bt") /\ canStart'["bt"] = canStart["bt"]
    BY <1>b, <1>c DEF HashStep, HashStart, HashLockBt, HashLockHash, HashMove, HashTakeFree,
                      HashFill, HashSayStopped, Started, TakeFree, SayStopped, Post, Release,
                      RingVars, SyncInv, Control, SyncType
  <2>4. Ring("bt")' BY <1>a, <1>b, <1>c, <2>3, RingSame DEF Writing, Held
  <2>5. ~HashFresh' BY <1>c, <2>1 DEF HashFresh
  <2>6. Held("hash")' <=> Held("hash") BY <1>c DEF Held
  <2>7. ~canStart'["hash"]
    BY <1>b DEF HashStep, HashStart, HashLockBt, HashLockHash, HashMove, HashTakeFree,
                HashFill, HashSayStopped, Started, TakeFree, SayStopped,
                SyncInv, Control, SyncType, HashRuns
  <2>8. Ring("hash")'
    <3>1. CASE HashStart
      <4>1. Untouched("hash") /\ pc["hash"] = "wait" /\ pc'["hash"] # "fill"
        BY <1>2, <3>1 DEF HashStart, Started, SyncInv, Rings, Goto, Control, PcType, Threads
      <4>2. UNCHANGED RingVars("hash")
        BY <1>b, <3>1, <4>1 DEF HashStart, Started, RingVars, Untouched, SyncInv, Control, SyncType
      <4> QED BY <1>a, <1>b, <2>6, <4>1, <4>2, RingSame DEF Writing
    <3>2. CASE HashLockBt \/ HashLockHash \/ HashMove \/ HashSayStopped
      <4>1. pc["hash"] # "fill" /\ pc'["hash"] # "fill"
        BY <3>2 DEF HashLockBt, HashLockHash, HashMove, HashSayStopped, Goto, SyncInv, Control,
                    PcType, Threads
      <4>2. UNCHANGED RingVars("hash")
        BY <3>2 DEF HashLockBt, HashLockHash, HashMove, HashSayStopped, SayStopped, RingVars
      <4> QED BY <1>a, <1>b, <2>6, <4>1, <4>2, RingSame DEF Writing
    <3>3. CASE HashTakeFree /\ stopWriting["hash"] BY <1>c, <3>3 DEF Ring
    <3>4. CASE HashTakeFree /\ ~stopWriting["hash"]
      <4>1. pc["hash"] = "next" /\ pc'["hash"] = "fill" /\ TakeFree("hash")
        BY <2>1, <3>4 DEF HashTakeFree, Goto, SyncInv, Control, PcType, Threads, HashRuns
      <4> QED BY <1>a, <1>b, <2>6, <4>1, RingTakes DEF Writing
    <3>5. CASE HashFill
      <4>1. /\ pc["hash"] = "fill" /\ pc'["hash"] = "next" /\ Post("hash")
            /\ UNCHANGED <<free, reading, numProcessed, needStart, stopWriting>>
        BY <3>5 DEF HashFill, Goto, SyncInv, Control, PcType, Threads
      <4> QED BY <1>a, <1>b, <2>6, <4>1, RingPosts DEF Writing
    <3> QED BY <3>1, <3>2, <3>3, <3>4, <3>5 DEF HashStep
  <2>9. CodingRings' BY <1>c, <2>2, <2>3, <2>4, <2>5, <2>7, <2>8 DEF CodingRings
  <2> QED BY <2>9, CodingIsEnough, PTL
<1> QED BY <1>1, <1>2

LEMMA StepRings == ASSUME SyncInv, [Next]_vars PROVE Rings'
<1>1. Control' BY StepControl
<1>2. CASE WriteFails \/ UNCHANGED vars
  <2>1. UNCHANGED syncVars BY <1>2 DEF WriteFails, vars
  <2> QED BY <2>1 DEF SyncInv, Rings, Ring, Ahead, Held, Writing, HashFresh, Untouched, syncVars
<1>3. CASE LzStep BY <1>1, <1>3, LzRings
<1>4. CASE BtStep BY <1>1, <1>4, BtRings
<1>5. CASE HashStep BY <1>1, <1>5, HashRings
<1> QED BY <1>2, <1>3, <1>4, <1>5 DEF Next, ThreadStep

-----------------------------------------------------------------------------
(* Numbers.  A set of naturals has a least element: that is all the induction *)
(* these proofs need.                                                         *)

LEMMA LeastNat == ASSUME NEW S \in SUBSET Nat, S # {} PROVE \E n \in S : \A m \in S : n <= m
<1> DEFINE R == OpToRel(<, Nat)
<1>1. IsWellFoundedOn(R, Nat) BY NatLessThanWellFounded
<1>2. \A x, y \in Nat : x < y => <<x, y>> \in R BY DEF OpToRel
<1> HIDE DEF R
<1>3. PICK n \in S : \A m \in S : ~(<<m, n>> \in R) BY <1>1, WFMin
<1>4. ASSUME NEW m \in S PROVE n <= m
  <2>1. m \in Nat /\ n \in Nat OBVIOUS
  <2>2. ~(m < n) BY <1>2, <1>3, <2>1
  <2> QED BY <2>1, <2>2
<1> QED BY <1>4

LEMMA MostInt ==
    ASSUME NEW top \in Nat, NEW S \in SUBSET (0..top), S # {}
    PROVE  \E n \in S : \A m \in S : m <= n
<1> DEFINE T == {top - m : m \in S}
<1>1. T \in SUBSET Nat /\ T # {}
  <2>1. PICK m \in S : TRUE OBVIOUS
  <2>2. top - m \in T BY <2>1
  <2> QED BY <2>2
<1>2. PICK t \in T : \A u \in T : t <= u BY <1>1, LeastNat
<1>3. PICK n \in S : t = top - n BY <1>2
<1>4. ASSUME NEW m \in S PROVE m <= n
  <2>1. t <= top - m BY <1>2
  <2> QED BY <1>3, <2>1
<1> QED BY <1>4

\* A set of numbers with each number the ones before it is an interval.
LEMMA Prefix ==
    ASSUME NEW n \in Nat, NEW S \in SUBSET (1..n), \A i, j \in 1..n : i < j /\ j \in S => i \in S
    PROVE  S = 1..Cardinality(S) /\ Cardinality(S) \in 0..n
<1> DEFINE T == {i \in 1..(n + 1) : i \notin S}
<1>1. T \in SUBSET Nat /\ n + 1 \in T OBVIOUS
<1>2. PICK k \in T : \A i \in T : k <= i BY <1>1, LeastNat
<1>3. k \in 1..(n + 1) /\ k \notin S BY <1>2
<1>4. S = 1..(k - 1)
  <2>1. ASSUME NEW i \in S PROVE i \in 1..(k - 1)
    <3>1. i \in 1..n OBVIOUS
    <3>2. ~(k < i) BY <1>3, <3>1
    <3> QED BY <1>3, <3>1, <3>2
  <2>2. ASSUME NEW i \in 1..(k - 1) PROVE i \in S
    <3>1. i \in 1..(n + 1) /\ i < k BY <1>3
    <3>2. i \notin T BY <1>2, <1>3, <3>1
    <3> QED BY <3>1, <3>2
  <2> QED BY <2>1, <2>2
<1>5. Cardinality(S) = k - 1
  <2>1. Cardinality(1..(k - 1)) = k - 1 BY <1>3, FS_Interval
  <2> QED BY <1>4, <2>1
<1> QED BY <1>3, <1>4, <1>5

\* How many words the first i - 1 of some records take, each one, and two more for those in S.
Words(i, S) == (i - 1) + 2 * Cardinality({j \in 1..(i - 1) : j \in S})

LEMMA WordsGrow ==
    ASSUME NEW S
    PROVE  /\ Words(1, S) = 0
           /\ \A i \in Nat \ {0} : Words(i, S) \in Nat /\ Words(i, S) >= i - 1
           /\ \A i \in Nat \ {0} : Words(i + 1, S) \in (Words(i, S) + 1)..(Words(i, S) + 3)
           /\ \A i, k \in Nat \ {0} : i < k => Words(i, S) < Words(k, S)
<1> DEFINE P(i) == {j \in 1..(i - 1) : j \in S}
<1>1. \A i \in Nat \ {0} : IsFiniteSet(P(i)) /\ Cardinality(P(i)) \in Nat
  <2> TAKE i \in Nat \ {0}
  <2>1. IsFiniteSet(1..(i - 1)) BY FS_Interval
  <2>2. IsFiniteSet(P(i)) BY <2>1, FS_Subset
  <2> QED BY <2>2, FS_CardinalityType
<1>2. \A i \in Nat \ {0} : Words(i, S) = (i - 1) + 2 * Cardinality(P(i)) BY DEF Words
<1>3. Cardinality(P(1)) = 0
  <2>1. P(1) = {} OBVIOUS
  <2> QED BY <2>1, FS_EmptySet
<1>4. \A i \in Nat \ {0} : Cardinality(P(i + 1)) \in {Cardinality(P(i)), Cardinality(P(i)) + 1}
  <2> TAKE i \in Nat \ {0}
  <2>1. CASE i \in S
    <3>1. P(i + 1) = P(i) \union {i} /\ i \notin P(i) BY <2>1
    <3> HIDE DEF P
    <3> QED BY <1>1, <3>1, FS_AddElement
  <2>2. CASE i \notin S
    <3>1. P(i + 1) = P(i) BY <2>2
    <3> QED BY <3>1
  <2> QED BY <2>1, <2>2
<1>5. \A i, k \in Nat \ {0} : i < k => Cardinality(P(i)) <= Cardinality(P(k))
  <2> SUFFICES ASSUME NEW i \in Nat \ {0}, NEW k \in Nat \ {0}, i < k
               PROVE  Cardinality(P(i)) <= Cardinality(P(k)) OBVIOUS
  <2>1. P(i) \subseteq P(k) OBVIOUS
  <2> HIDE DEF P
  <2> QED BY <1>1, <2>1, FS_Subset
<1> HIDE DEF P
<1>6. Words(1, S) = 0 BY <1>2, <1>3
<1>7. \A i \in Nat \ {0} : Words(i, S) \in Nat /\ Words(i, S) >= i - 1 BY <1>1, <1>2
<1>8. \A i \in Nat \ {0} : Words(i + 1, S) \in (Words(i, S) + 1)..(Words(i, S) + 3)
  <2> TAKE i \in Nat \ {0}
  <2>1. /\ Words(i + 1, S) = i + 2 * Cardinality(P(i + 1))
        /\ Words(i, S) = (i - 1) + 2 * Cardinality(P(i))
    BY <1>2
  <2> QED BY <1>1, <1>4, <2>1
<1>9. \A i, k \in Nat \ {0} : i < k => Words(i, S) < Words(k, S)
  BY <1>1, <1>2, <1>5
<1> QED BY <1>6, <1>7, <1>8, <1>9

\* Records are written while there is room before the limit: at least one, and at most
\* three words past it.
LEMMA WordsFit ==
    ASSUME NEW cur \in Nat, NEW limit \in Nat, cur < limit, NEW size \in Nat \ {0}, NEW S,
           NEW done, done = Cardinality({i \in 1..size : cur + Words(i, S) < limit})
    PROVE  /\ done \in 1..size
           /\ cur + Words(done + 1, S) \in (cur + done)..(limit + 2)
<1> DEFINE T == {i \in 1..size : cur + Words(i, S) < limit}
<1>1. T = 1..done /\ done \in 0..size
  <2>1. \A i, j \in 1..size : i < j /\ j \in T => i \in T
    BY WordsGrow
  <2>2. T \in SUBSET (1..size) OBVIOUS
  <2> HIDE DEF T
  <2>3. T = 1..Cardinality(T) /\ Cardinality(T) \in 0..size BY <2>1, <2>2, Prefix
  <2> QED BY <2>3 DEF T
<1>2. 1 \in T BY WordsGrow
<1>3. done \in T BY <1>1, <1>2
<1>4. done \in 1..size /\ cur + Words(done, S) < limit BY <1>3
<1>5. done \in Nat \ {0} /\ done + 1 \in Nat \ {0} BY <1>4
<1>6. Words(done + 1, S) \in (Words(done, S) + 1)..(Words(done, S) + 3)
      /\ Words(done + 1, S) >= (done + 1) - 1 /\ Words(done, S) \in Nat
  BY <1>5, WordsGrow
<1> QED BY <1>4, <1>5, <1>6

-----------------------------------------------------------------------------
(* What the three threads keep *)

\* The position after the file.
Past == Len(Text) + 1

\* The window is within its block of memory and within the file.
WindowKept ==
    /\ base \in Nat \ {0}
    /\ mf \in [buffer : Nat, avail : Nat, pos : 0..MaxVal, eof : BOOLEAN,
               result : {"ok", "read"}]
    /\ mf.buffer + mf.avail <= BlockSize
    /\ Loaded <= Past
    /\ pc["hash"] \in {"lock", "move"} => NeedMove
    /\ pc["hash"] = "fill" => ~NeedMove

\* A block of the hash thread: as many heads as a block takes, none at the end of the file.
HashesKept ==
    /\ hash \in [high : [HighKeys -> 0..MaxVal], low : [LowKeys -> 0..MaxVal]]
    /\ hashBuf \in [0..(NumBlocks["hash"] - 1) -> [avail : Nat, heads : Seq(Int)]]
    /\ \A b \in 0..(NumBlocks["hash"] - 1) : Len(hashBuf[b].heads) =
          IF hashBuf[b].avail < NumHashBytes THEN 0
          ELSE Least(hashBuf[b].avail - NumHashBytes + 1, HashBlockSize - 2)

\* While the tree thread has heads left, the block they are in is its own.
HeadsKept ==
    ~HeadsDone /\ pc["bt"] \in {"next", "lock", "fill"} =>
        /\ ~needStart["hash"] /\ bt.limit = Len(Heads)
        /\ bt.avail >= bt.limit - bt.next + NumHashBytes

Records == [at : Int, pairs : Seq(Nat \X Int)]

TreeKept ==
    /\ bt \in [buffer : Int, pos : 1..MaxVal, cyclic : 0..HistorySize, next : Nat \ {0},
               limit : 0..HashBlockSize, avail : Nat, cur : Nat, num : Nat, failure : BOOLEAN]
    /\ bt.next <= bt.limit + 1
    /\ pc["bt"] \in {"filled", "lockhash", "post"} => HeadsDone
    /\ btBuf \in [0..(NumBlocks["bt"] - 1) -> [size : Nat, avail : Nat, recs : Seq(Records)]]
    /\ \A b \in 0..(NumBlocks["bt"] - 1) : Len(btBuf[b].recs) <= BtBlockSize
    /\ pc["bt"] \in BtWriting => Len(btBuf[block["bt"]].recs) + 2 <= bt.cur

CoderKept ==
    /\ lz \in [buffer : Int, pos : 1..MaxVal, next : Nat \ {0}, limit : Nat, avail : Nat,
               failure : BOOLEAN]
    /\ lz.next <= lz.limit + 1
    /\ lz.pos + (lz.limit - lz.next + 1) <= MaxVal
    /\ rcFailed \in BOOLEAN /\ result \in {"ok", "thread", "read", "write", "internal"}

FinderInv == WindowKept /\ HashesKept /\ HeadsKept /\ TreeKept /\ CoderKept

-----------------------------------------------------------------------------
(* The window *)

LEMMA Sizes ==
    /\ KeepBefore \in Nat /\ KeepAfter \in Nat /\ BlockSize \in Nat
    /\ BlockSize = KeepBefore + KeepAfter + Reserve
    /\ KeepAfter >= HashBlockSize + MatchMaxLen /\ KeepBefore >= HistorySize + AddBefore + 1
<1>1. NumBlocks["hash"] * HashBlockSize \in Nat /\ NumBlocks["bt"] * BtBlockSize \in Nat
  BY FinderParams, RingsHaveRoom DEF Syncs
<1>2. {HistorySize, Reserve, AddBefore, AddAfter, HashBlockSize, MatchMaxLen} \subseteq Nat
  BY FinderParams
<1> QED BY <1>1, <1>2 DEF KeepBefore, KeepAfter, BlockSize

LEMMA Remainder ==
    ASSUME NEW n \in Nat, NEW d \in Nat \ {0}
    PROVE  n % d \in 0..n
OBVIOUS

\* The bytes kept before the hash thread are those KeepBefore promises.
LEMMA MoveKeeps ==
    ASSUME NeedMove, MoveBlock, base \in Nat \ {0}, mf \in [buffer : Nat, avail : Nat,
               pos : 0..MaxVal, eof : BOOLEAN, result : {"ok", "read"}],
           NEW moved, moved = mf.buffer - KeepBefore - ((mf.buffer - KeepBefore) % MoveAlign)
    PROVE  /\ moved \in Nat /\ mf.buffer - moved \in Nat
           /\ mf.buffer - moved >= KeepBefore
           /\ base' = base + moved /\ mf' = [mf EXCEPT !.buffer = mf.buffer - moved]
           /\ bt' = [bt EXCEPT !.buffer = bt.buffer - moved]
           /\ lz' = [lz EXCEPT !.buffer = lz.buffer - moved]
<1>1. mf.buffer - KeepBefore \in Nat
  <2>1. BlockSize - mf.buffer <= KeepAfter /\ mf.buffer \in Nat BY DEF NeedMove
  <2>2. Reserve \in Nat BY FinderParams
  <2> QED BY <2>1, <2>2, Sizes
<1>2. (mf.buffer - KeepBefore) % MoveAlign \in 0..(mf.buffer - KeepBefore)
  BY <1>1, Remainder, FinderParams
<1> DEFINE offset == mf.buffer - KeepBefore
           rest == offset % MoveAlign
<1>3. moved = offset - rest /\ offset \in Nat /\ rest \in 0..offset /\ offset = mf.buffer - KeepBefore
  BY <1>1, <1>2
<1> HIDE DEF offset, rest
<1>4. moved \in Nat /\ mf.buffer - moved \in Nat /\ mf.buffer - moved >= KeepBefore
  <2>1. mf.buffer \in Nat OBVIOUS
  <2> QED BY <1>3, <2>1, Sizes
<1>5. /\ base' = base + moved /\ mf' = [mf EXCEPT !.buffer = mf.buffer - moved]
      /\ bt' = [bt EXCEPT !.buffer = bt.buffer - moved]
      /\ lz' = [lz EXCEPT !.buffer = lz.buffer - moved]
  BY DEF MoveBlock
<1> QED BY <1>4, <1>5

LEMMA PastIsNat == Past \in Nat
BY FinderParams DEF Past

MfRecords == [buffer : Nat, avail : Nat, pos : 0..MaxVal, eof : BOOLEAN, result : {"ok", "read"}]

\* What a read does to the window: it fills it, or it finds the end, or it fails.
LEMMA Reads ==
    ASSUME WindowKept, NEW m \in ReadIfRequired
    PROVE  /\ m \in MfRecords /\ m.buffer = mf.buffer /\ m.pos = mf.pos
           /\ m.avail >= mf.avail /\ m.buffer + m.avail <= BlockSize
           /\ base + m.buffer + m.avail <= Past
           /\ ~NeedMove => m.avail > KeepAfter \/ m.eof \/ m.result # "ok"
           /\ mf.eof \/ mf.result # "ok" => m = mf
           /\ m.eof /\ ~mf.eof => base + m.buffer + m.avail = Past
<1>1. /\ mf \in MfRecords /\ base \in Nat /\ mf.buffer + mf.avail <= BlockSize
      /\ base + mf.buffer + mf.avail <= Past /\ Past \in Nat
  BY PastIsNat DEF WindowKept, MfRecords, Loaded, HashAt
<1>2. CASE m = mf
  <2>1. CASE mf.avail > KeepAfter \/ mf.eof \/ mf.result # "ok"
    BY <1>1, <1>2, <2>1 DEF MfRecords
  <2>2. CASE ~(mf.avail > KeepAfter \/ mf.eof \/ mf.result # "ok")
    <3>1. m \in ReadBlock BY <1>1, <2>2, Sizes DEF ReadIfRequired, MfRecords
    <3>2. BlockSize - mf.buffer - mf.avail = 0
      <4>1. ASSUME BlockSize - mf.buffer - mf.avail # 0 PROVE FALSE
        <5> DEFINE room == BlockSize - mf.buffer - mf.avail
                   got == Least(room, Len(Text) + 1 - Loaded)
                   more == [mf EXCEPT !.avail = @ + got]
                   some == IF got = 0 THEN {[mf EXCEPT !.eof = TRUE]}
                           ELSE IF more.avail > KeepAfter \/ got = room THEN {more}
                           ELSE {[more EXCEPT !.eof = TRUE], [more EXCEPT !.result = "read"]}
        <5>1. got \in Nat /\ room \in Nat
          BY <1>1, Sizes DEF Least, Past, Loaded, HashAt, MfRecords
        <5>4. ReadBlock = {[mf EXCEPT !.result = "read"]} \union some
          BY <2>2, <4>1 DEF ReadBlock
        <5>2. \/ m.result = "read" \/ m.eof
              \/ got # 0 /\ m = more
          <6> HIDE DEF got, room
          <6>1. mf \in MfRecords /\ more \in MfRecords
            <7>1. mf.avail + got \in Nat BY <1>1, <5>1 DEF MfRecords
            <7> QED BY <1>1, <7>1 DEF MfRecords
          <6> HIDE DEF more
          <6> QED BY <3>1, <5>4, <6>1 DEF MfRecords
        <5>3. got # 0 => more.avail # mf.avail BY <1>1, <5>1 DEF MfRecords
        <5> QED BY <1>2, <2>2, <5>2, <5>3
      <4> QED BY <4>1
    <3>3. NeedMove
      BY <1>1, <2>2, <3>2, Sizes DEF NeedMove, MfRecords
    <3> QED BY <1>1, <1>2, <3>3 DEF MfRecords
  <2> QED BY <2>1, <2>2
<1>3. CASE m # mf
  <2> DEFINE room == BlockSize - mf.buffer - mf.avail
             got == Least(room, Len(Text) + 1 - Loaded)
             more == [mf EXCEPT !.avail = @ + got]
             some == IF got = 0 THEN {[mf EXCEPT !.eof = TRUE]}
                     ELSE IF more.avail > KeepAfter \/ got = room THEN {more}
                     ELSE {[more EXCEPT !.eof = TRUE], [more EXCEPT !.result = "read"]}
  <2>1. m \in ReadBlock /\ ~mf.eof /\ mf.result = "ok" /\ room # 0
    BY <1>3 DEF ReadIfRequired, ReadBlock
  <2>2. \/ m = [mf EXCEPT !.result = "read"]
        \/ got = 0 /\ m = [mf EXCEPT !.eof = TRUE]
        \/ got # 0 /\ (more.avail > KeepAfter \/ got = room) /\ m = more
        \/ got # 0 /\ ~(more.avail > KeepAfter \/ got = room)
             /\ m \in {[more EXCEPT !.eof = TRUE], [more EXCEPT !.result = "read"]}
    <3>1. ReadBlock = {[mf EXCEPT !.result = "read"]} \union some
      BY <2>1 DEF ReadBlock
    <3> HIDE DEF got, more, room
    <3> QED BY <2>1, <3>1
  <2>3. /\ got \in Nat /\ room \in Nat \ {0} /\ got <= room
        /\ got <= Past - (base + mf.buffer + mf.avail)
        /\ got = room \/ got = Past - (base + mf.buffer + mf.avail)
    <3>a. mf.buffer \in Nat /\ mf.avail \in Nat BY <1>1 DEF MfRecords
    <3>b. Loaded = base + mf.buffer + mf.avail BY DEF Loaded, HashAt
    <3>c. room \in Nat \ {0} BY <1>1, <2>1, <3>a, Sizes
    <3>1. /\ mf.buffer \in Nat /\ mf.avail \in Nat /\ base \in Nat /\ BlockSize \in Nat
          /\ room \in Nat \ {0} /\ Loaded = base + mf.buffer + mf.avail
          /\ Past - Loaded \in Nat
      BY <1>1, <3>a, <3>b, <3>c, Sizes
    <3> HIDE DEF room
    <3> QED BY <3>1 DEF Least, Past
  <2>4. /\ more \in MfRecords /\ more.buffer = mf.buffer /\ more.pos = mf.pos
        /\ more.avail = mf.avail + got /\ more.eof = mf.eof /\ more.result = mf.result
    <3>1. got \in Nat /\ mf \in MfRecords BY <1>1, <2>3
    <3>2. mf.avail + got \in Nat BY <3>1 DEF MfRecords
    <3> HIDE DEF got
    <3> QED BY <3>1, <3>2 DEF MfRecords
  <2>5. NeedMove \/ room + mf.avail > KeepAfter
    BY <1>1, <2>1, Sizes DEF NeedMove, MfRecords
  <2>6. room = BlockSize - mf.buffer - mf.avail /\ mf.buffer \in Nat /\ mf.avail \in Nat
    BY <1>1 DEF MfRecords
  <2> HIDE DEF room, got, more, some
  <2>7. ASSUME m \in MfRecords, m.buffer = mf.buffer, m.pos = mf.pos,
               m.avail \in {mf.avail, mf.avail + got},
               m.avail > KeepAfter \/ NeedMove \/ m.eof \/ m.result # "ok",
               m.eof => m.avail = Past - (base + mf.buffer)
        PROVE  /\ m \in MfRecords /\ m.buffer = mf.buffer /\ m.pos = mf.pos
               /\ m.avail >= mf.avail /\ m.buffer + m.avail <= BlockSize
               /\ base + m.buffer + m.avail <= Past
               /\ ~NeedMove => m.avail > KeepAfter \/ m.eof \/ m.result # "ok"
               /\ mf.eof \/ mf.result # "ok" => m = mf
               /\ m.eof /\ ~mf.eof => base + m.buffer + m.avail = Past
    <3>1. m.avail \in Nat /\ m.avail >= mf.avail /\ m.avail <= mf.avail + got
      BY <2>3, <2>6, <2>7
    <3>a. m.buffer = mf.buffer /\ mf.buffer + mf.avail + got <= BlockSize
      BY <2>3, <2>6, <2>7, Sizes
    <3>b. base + mf.buffer + mf.avail + got <= Past
      BY <1>1, <2>3, <2>6
    <3>2. m.buffer + m.avail <= BlockSize /\ base + m.buffer + m.avail <= Past
      <4>1. got \in Nat /\ base \in Nat /\ Past \in Nat /\ BlockSize \in Nat
        BY <1>1, <2>3, Sizes
      <4>2. mf.buffer \in Nat /\ mf.avail \in Nat BY <2>6
      <4>3. m.buffer + m.avail <= BlockSize BY <3>a, <3>1, <4>1, <4>2
      <4>4. base + mf.buffer + m.avail <= Past BY <3>b, <3>1, <4>1, <4>2
      <4> QED BY <3>a, <4>3, <4>4
    <3>3. m.eof => base + m.buffer + m.avail = Past BY <1>1, <2>6, <2>7
    <3> QED BY <2>1, <2>7, <3>1, <3>2, <3>3
  <2>8. CASE m = [mf EXCEPT !.result = "read"]
    <3>1. /\ m \in MfRecords /\ m.buffer = mf.buffer /\ m.pos = mf.pos /\ m.avail = mf.avail
          /\ m.eof = mf.eof /\ m.result = "read"
      BY <1>1, <2>8 DEF MfRecords
    <3> QED BY <2>1, <2>7, <3>1
  <2>9. CASE got = 0 /\ m = [mf EXCEPT !.eof = TRUE]
    <3>1. /\ m \in MfRecords /\ m.buffer = mf.buffer /\ m.pos = mf.pos /\ m.avail = mf.avail
          /\ m.eof
      BY <1>1, <2>9 DEF MfRecords
    <3>2. mf.avail = Past - (base + mf.buffer) BY <1>1, <2>3, <2>6, <2>9
    <3> QED BY <2>7, <3>1, <3>2
  <2>10. CASE got # 0 /\ (more.avail > KeepAfter \/ got = room) /\ m = more
    <3>1. more.avail > KeepAfter \/ NeedMove
      BY <2>3, <2>4, <2>5, <2>6, <2>10, Sizes
    <3>2. ~m.eof BY <2>1, <2>4, <2>10
    <3> QED BY <2>4, <2>7, <2>10, <3>1, <3>2
  <2>11. CASE /\ got # 0 /\ ~(more.avail > KeepAfter \/ got = room)
              /\ m \in {[more EXCEPT !.eof = TRUE], [more EXCEPT !.result = "read"]}
    <3>1. /\ m \in MfRecords /\ m.buffer = more.buffer /\ m.pos = more.pos
          /\ m.avail = more.avail
          /\ m.eof \/ m.result # "ok"
      BY <2>4, <2>11 DEF MfRecords
    <3>2. more.avail = Past - (base + mf.buffer)
      BY <1>1, <2>3, <2>4, <2>6, <2>11
    <3> QED BY <2>4, <2>7, <3>1, <3>2
  <2> QED BY <2>2, <2>8, <2>9, <2>10, <2>11
<1> QED BY <1>2, <1>3

-----------------------------------------------------------------------------
(* The hash table *)

LEMMA LastOne ==
    ASSUME NEW n \in Nat, NEW S \in SUBSET (1..n), S # {}
    PROVE  LET j == CHOOSE j \in S : \A k \in S : k <= j
           IN  j \in S /\ \A k \in S : k <= j
<1>1. S \in SUBSET (0..n) OBVIOUS
<1>2. \E j \in S : \A k \in S : k <= j BY <1>1, MostInt
<1> QED BY <1>2

\* GetHeads4 says of each position how far back its bytes were last seen, in this block
\* or by the table, and leaves in the table where each was seen last.
Found(a, pos, table, n, got) ==
    /\ got = [heads |-> got.heads, table |-> got.table]
    /\ got.heads = [i \in 1..n |-> got.heads[i]]
    /\ got.table = [k \in DOMAIN table |-> got.table[k]]
    /\ \A i \in 1..n :
          \/ \E j \in 1..(i - 1) :
                /\ HighKey(a + j - 1) = HighKey(a + i - 1) /\ got.heads[i] = i - j
                /\ \A k \in 1..(i - 1) : HighKey(a + k - 1) = HighKey(a + i - 1) => k <= j
          \/ /\ \A k \in 1..(i - 1) : HighKey(a + k - 1) # HighKey(a + i - 1)
             /\ got.heads[i] = pos + i - 1 - table[HighKey(a + i - 1)]
    /\ \A key \in DOMAIN table :
          \/ \E j \in 1..n :
                /\ HighKey(a + j - 1) = key /\ got.table[key] = pos + j - 1
                /\ \A k \in 1..n : HighKey(a + k - 1) = key => k <= j
          \/ (\A k \in 1..n : HighKey(a + k - 1) # key) /\ got.table[key] = table[key]

LEMMA HeadsFound ==
    ASSUME NEW a \in Int, NEW pos \in Int, NEW table, NEW n \in Nat
    PROVE  Found(a, pos, table, n, GetHeads(a, pos, table, n))
<1> DEFINE got == GetHeads(a, pos, table, n)
           Earlier(i) == {j \in 1..(i - 1) : HighKey(a + j - 1) = HighKey(a + i - 1)}
           Latest(S) == CHOOSE j \in S : \A k \in S : k <= j
           Seen(k) == {j \in 1..n : HighKey(a + j - 1) = k}
           heads == [i \in 1..n |-> IF Earlier(i) # {} THEN i - Latest(Earlier(i))
                                   ELSE pos + i - 1 - table[HighKey(a + i - 1)]]
           tab == [k \in DOMAIN table |-> IF Seen(k) # {} THEN pos + Latest(Seen(k)) - 1
                                           ELSE table[k]]
<1>1. got = [heads |-> heads, table |-> tab] BY DEF GetHeads
<1>2. got.heads = heads /\ got.table = tab
  <2> HIDE DEF heads, tab
  <2> QED BY <1>1
<1>3. ASSUME NEW i \in 1..n
      PROVE  \/ \E j \in 1..(i - 1) :
                   /\ HighKey(a + j - 1) = HighKey(a + i - 1) /\ heads[i] = i - j
                   /\ \A k \in 1..(i - 1) :
                         HighKey(a + k - 1) = HighKey(a + i - 1) => k <= j
             \/ /\ \A k \in 1..(i - 1) : HighKey(a + k - 1) # HighKey(a + i - 1)
                /\ heads[i] = pos + i - 1 - table[HighKey(a + i - 1)]
  <2>1. CASE Earlier(i) # {}
    <3>1. Latest(Earlier(i)) \in Earlier(i) /\ \A k \in Earlier(i) : k <= Latest(Earlier(i))
      <4>1. Earlier(i) \in SUBSET (1..n) OBVIOUS
      <4> HIDE DEF Earlier
      <4> QED BY <2>1, <4>1, LastOne
    <3>2. heads[i] = i - Latest(Earlier(i)) BY <2>1
    <3> HIDE DEF Latest, heads
    <3> QED BY <3>1, <3>2
  <2>2. CASE Earlier(i) = {}
    <3>1. heads[i] = pos + i - 1 - table[HighKey(a + i - 1)] BY <2>2
    <3> HIDE DEF Latest, heads
    <3> QED BY <2>2, <3>1
  <2> QED BY <2>1, <2>2
<1>4. ASSUME NEW key \in DOMAIN table
      PROVE  \/ \E j \in 1..n :
                   /\ HighKey(a + j - 1) = key /\ tab[key] = pos + j - 1
                   /\ \A k \in 1..n : HighKey(a + k - 1) = key => k <= j
             \/ /\ \A k \in 1..n : HighKey(a + k - 1) # key
                /\ tab[key] = table[key]
  <2>1. CASE Seen(key) # {}
    <3>1. Latest(Seen(key)) \in Seen(key) /\ \A k \in Seen(key) : k <= Latest(Seen(key))
      <4>1. Seen(key) \in SUBSET (1..n) OBVIOUS
      <4> HIDE DEF Seen
      <4> QED BY <2>1, <4>1, LastOne
    <3>2. tab[key] = pos + Latest(Seen(key)) - 1 BY <2>1
    <3> HIDE DEF Latest, tab
    <3> QED BY <3>1, <3>2
  <2>2. CASE Seen(key) = {}
    <3>1. tab[key] = table[key] BY <2>2
    <3> HIDE DEF Latest, tab
    <3> QED BY <2>2, <3>1
  <2> QED BY <2>1, <2>2
<1>5. heads = [i \in 1..n |-> heads[i]] /\ tab = [k \in DOMAIN table |-> tab[k]] OBVIOUS
<1> HIDE DEF heads, tab, got
<1> QED BY <1>1, <1>2, <1>3, <1>4, <1>5 DEF Found, got

\* How many positions a block gets.
LEMMA NumbersOf ==
    ASSUME NEW m \in MfRecords
    PROVE  /\ HashNum(m) \in 0..m.avail /\ HashNum(m) <= HashBlockSize
           /\ m.avail >= NumHashBytes =>
                /\ HashNum(m) = Least(m.avail - NumHashBytes + 1, HashBlockSize - 2)
                /\ HashNum(m) > 0 /\ HashNum(m) + NumHashBytes - 1 <= m.avail
                /\ HashNum(m) <= HashBlockSize - 2
<1>1. m.avail \in Nat /\ NumHashBytes = 4 /\ HashBlockSize \in Nat /\ HashBlockSize > 2
  BY FinderParams DEF MfRecords
<1>2. CASE m.avail < NumHashBytes BY <1>1, <1>2 DEF HashNum
<1>3. CASE ~(m.avail < NumHashBytes) BY <1>1, <1>3 DEF HashNum, Least
<1> QED BY <1>2, <1>3

\* Tables and positions stay below the point where they are renumbered.
LEMMA TableKept ==
    ASSUME NEW a \in Nat \ {0}, NEW pos \in 0..MaxVal, NEW n \in Nat,
           a + n <= Past, n <= HashBlockSize,
           NEW table \in [HighKeys -> 0..MaxVal],
           NEW sub, sub = HashSub(pos, n), NEW low, low = Normalize3(sub, table),
           NEW got, got = GetHeads(a, pos - sub, low, n)
    PROVE  /\ sub \in Nat /\ pos - sub \in Nat /\ pos - sub + n <= MaxVal
           /\ low \in [HighKeys -> 0..MaxVal]
           /\ got.table \in [HighKeys -> 0..MaxVal]
           /\ got.heads \in [1..n -> Int] /\ got.heads \in Seq(Int) /\ Len(got.heads) = n
<1>1. sub \in Nat /\ pos - sub \in Nat /\ pos - sub + n <= MaxVal
  <2>1. MaxVal \in Nat /\ HistorySize \in Nat /\ HashBlockSize \in Nat
        /\ MaxVal > HistorySize + 1 + HashBlockSize
    BY FinderParams
  <2> QED BY <2>1 DEF HashSub
<1>2. low \in [HighKeys -> 0..MaxVal]
  <2>1. low = [k \in HighKeys |-> IF table[k] > sub THEN table[k] - sub ELSE 0]
    BY DEF Normalize3
  <2>2. MaxVal \in Nat BY FinderParams
  <2> QED BY <1>1, <2>1, <2>2
<1>3. \A i \in 1..n : HighKey(a + i - 1) \in HighKeys
  <2> TAKE i \in 1..n
  <2>1. a + i - 1 \in 1..Len(Text) BY PastIsNat DEF Past
  <2> QED BY <2>1 DEF HighKeys
<1>4. /\ got.heads = [i \in 1..n |-> got.heads[i]]
      /\ got.table = [k \in DOMAIN low |-> got.table[k]]
      /\ \A i \in 1..n :
                 \/ \E j \in 1..(i - 1) : got.heads[i] = i - j
                 \/ got.heads[i] = pos - sub + i - 1 - low[HighKey(a + i - 1)]
      /\ \A key \in DOMAIN low :
                 \/ \E j \in 1..n : got.table[key] = pos - sub + j - 1
                 \/ got.table[key] = low[key]
  <2>1. a \in Int /\ pos - sub \in Int BY <1>1
  <2>2. Found(a, pos - sub, low, n, got) BY <2>1, HeadsFound
  <2> QED BY <2>2 DEF Found
<1>5. got.table \in [HighKeys -> 0..MaxVal]
  <2>1. ASSUME NEW key \in HighKeys PROVE got.table[key] \in 0..MaxVal
    <3>1. \A j \in 1..n : pos - sub + j - 1 \in 0..MaxVal
      <4>1. MaxVal \in Nat BY FinderParams
      <4> QED BY <1>1, <4>1
    <3> QED BY <1>2, <1>4, <3>1
  <2> QED BY <1>2, <1>4, <2>1
<1>6. got.heads \in [1..n -> Int]
  <2>1. ASSUME NEW i \in 1..n PROVE got.heads[i] \in Int
    <3>1. low[HighKey(a + i - 1)] \in 0..MaxVal BY <1>2, <1>3
    <3>2. \A j \in 1..(i - 1) : i - j \in Int OBVIOUS
    <3>3. pos - sub + i - 1 - low[HighKey(a + i - 1)] \in Int BY <1>1, <3>1
    <3> QED BY <1>4, <3>2, <3>3
  <2> QED BY <1>4, <2>1
<1>7. got.heads \in Seq(Int) /\ Len(got.heads) = n
  <2>1. \A f \in [1..n -> Int] : f \in Seq(Int) /\ Len(f) = n OBVIOUS
  <2> QED BY <1>6, <2>1
<1> QED BY <1>1, <1>2, <1>5, <1>6, <1>7

LEMMA Fills ==
    ASSUME SyncType, WindowKept, HashesKept, NEW m \in ReadIfRequired, FillHash(m)
    PROVE  /\ mf' \in MfRecords /\ mf'.buffer = m.buffer + HashNum(m)
           /\ mf'.avail = m.avail - HashNum(m) /\ mf'.eof = m.eof /\ mf'.result = m.result
           /\ hash' \in [high : [HighKeys -> 0..MaxVal], low : [LowKeys -> 0..MaxVal]]
           /\ \E heads \in Seq(Int) :
                 /\ hashBuf' = [hashBuf EXCEPT ![block["hash"]] =
                                   [avail |-> m.avail, heads |-> heads]]
                 /\ Len(heads) = IF m.avail < NumHashBytes THEN 0 ELSE HashNum(m)
<1>1. /\ m \in MfRecords /\ base \in Nat \ {0} /\ base + m.buffer + m.avail <= Past
  BY Reads DEF WindowKept
<1>2. HashNum(m) \in 0..m.avail /\ HashNum(m) <= HashBlockSize /\ m.avail \in Nat
      /\ m.buffer \in Nat /\ m.pos \in 0..MaxVal
  BY <1>1, NumbersOf DEF MfRecords
<1>3. MaxVal \in Nat BY FinderParams
<1> DEFINE n == HashNum(m)
           after == [m EXCEPT !.buffer = @ + n, !.avail = @ - n]
<1>4. after \in MfRecords /\ after.buffer = m.buffer + n /\ after.avail = m.avail - n
      /\ after.pos = m.pos /\ after.eof = m.eof /\ after.result = m.result
  <2>1. m.buffer + n \in Nat /\ m.avail - n \in Nat BY <1>2
  <2> HIDE DEF n
  <2> QED BY <1>1, <2>1 DEF MfRecords
<1>5. CASE m.avail < NumHashBytes
  <2>1. /\ hashBuf' = [hashBuf EXCEPT ![block["hash"]] = [avail |-> m.avail, heads |-> <<>>]]
        /\ mf' = [after EXCEPT !.pos = (@ + n) % (MaxVal + 1)] /\ hash' = hash
    BY <1>5 DEF FillHash
  <2>2. (after.pos + n) % (MaxVal + 1) \in 0..MaxVal
    <3>1. after.pos + n \in Nat BY <1>2, <1>4
    <3> HIDE DEF after, n
    <3> QED BY <1>3, <3>1
  <2> HIDE DEF after, n
  <2>3. mf' \in MfRecords /\ mf'.buffer = after.buffer /\ mf'.avail = after.avail
        /\ mf'.eof = after.eof /\ mf'.result = after.result
    BY <1>4, <2>1, <2>2 DEF MfRecords
  <2>4. \E heads \in Seq(Int) :
           /\ hashBuf' = [hashBuf EXCEPT ![block["hash"]] = [avail |-> m.avail, heads |-> heads]]
           /\ Len(heads) = 0
    <3>1. <<>> \in Seq(Int) /\ Len(<<>>) = 0 OBVIOUS
    <3> QED BY <2>1, <3>1
  <2>5. hash' \in [high : [HighKeys -> 0..MaxVal], low : [LowKeys -> 0..MaxVal]]
    BY <2>1 DEF HashesKept
  <2> QED BY <1>4, <1>5, <2>3, <2>4, <2>5 DEF n
<1>6. CASE ~(m.avail < NumHashBytes)
  <2> DEFINE sub == HashSub(m.pos, n)
             low == Normalize3(sub, hash.high)
             got == GetHeads(base + m.buffer, m.pos - sub, low, n)
  <2>1. /\ hashBuf' = [hashBuf EXCEPT ![block["hash"]] =
                                   [avail |-> m.avail, heads |-> got.heads]]
        /\ mf' = [after EXCEPT !.pos = @ - sub + n]
        /\ hash' = [hash EXCEPT !.high = got.table]
    BY <1>6 DEF FillHash
  <2>2. /\ sub \in Nat /\ m.pos - sub \in Nat /\ m.pos - sub + n <= MaxVal
        /\ got.table \in [HighKeys -> 0..MaxVal]
        /\ got.heads \in Seq(Int) /\ Len(got.heads) = n
    <3>1. base + m.buffer \in Nat \ {0} /\ base + m.buffer + n <= Past /\ n \in Nat
      BY <1>1, <1>2, PastIsNat
    <3>2. hash.high \in [HighKeys -> 0..MaxVal] BY DEF HashesKept
    <3>3. /\ sub = HashSub(m.pos, n) /\ low = Normalize3(sub, hash.high)
          /\ got = GetHeads(base + m.buffer, m.pos - sub, low, n)
      OBVIOUS
    <3>4. n <= HashBlockSize BY <1>2
    <3> HIDE DEF n, sub, low, got
    <3> QED BY <1>2, <3>1, <3>2, <3>3, <3>4, TableKept
  <2>3. m.pos - sub + n \in 0..MaxVal
    <3> HIDE DEF sub, got, n
    <3> QED BY <1>2, <1>3, <2>2 DEF n
  <2> HIDE DEF after, n, sub, low, got
  <2>4. mf' \in MfRecords /\ mf'.buffer = after.buffer /\ mf'.avail = after.avail
        /\ mf'.eof = after.eof /\ mf'.result = after.result
    BY <1>4, <2>1, <2>3 DEF MfRecords
  <2>5. hash' \in [high : [HighKeys -> 0..MaxVal], low : [LowKeys -> 0..MaxVal]]
    BY <2>1, <2>2 DEF HashesKept
  <2> QED BY <1>4, <1>6, <2>1, <2>2, <2>4, <2>5 DEF n
<1> QED BY <1>5, <1>6

-----------------------------------------------------------------------------
(* Each part is kept *)

LEMMA WindowSame ==
    ASSUME WindowKept, UNCHANGED <<base, mf>>,
           pc'["hash"] \in {"lock", "move"} => NeedMove,
           pc'["hash"] = "fill" => ~NeedMove
    PROVE  WindowKept'
BY DEF WindowKept, Loaded, HashAt, NeedMove, Past

LEMMA WindowStep == ASSUME SyncInv, FinderInv, [Next]_vars PROVE WindowKept'
<1>a. SyncType /\ PcType /\ WindowKept /\ HashesKept
  BY DEF SyncInv, Control, FinderInv
<1>1. CASE HashMove
  <2> DEFINE moved == mf.buffer - KeepBefore - ((mf.buffer - KeepBefore) % MoveAlign)
  <2>1. NeedMove /\ MoveBlock BY <1>1, <1>a DEF HashMove, WindowKept
  <2>2. /\ base \in Nat \ {0} /\ mf \in MfRecords /\ mf.buffer + mf.avail <= BlockSize
        /\ base + mf.buffer + mf.avail <= Past
    BY <1>a DEF WindowKept, MfRecords, Loaded, HashAt
  <2>3. /\ moved \in Nat /\ mf.buffer - moved \in Nat
        /\ base' = base + moved /\ mf' = [mf EXCEPT !.buffer = mf.buffer - moved]
    BY <2>1, <2>2, MoveKeeps DEF MfRecords
  <2> HIDE DEF moved
  <2>4. /\ mf' \in MfRecords /\ mf'.buffer = mf.buffer - moved /\ mf'.avail = mf.avail
    BY <2>2, <2>3 DEF MfRecords
  <2>5. base' \in Nat \ {0} BY <2>2, <2>3
  <2>6. mf.buffer \in Nat /\ mf.avail \in Nat BY <2>2 DEF MfRecords
  <2>7. mf'.buffer + mf'.avail <= BlockSize BY <2>2, <2>3, <2>4, <2>6, Sizes
  <2>8. base' + mf'.buffer + mf'.avail <= Past BY <2>2, <2>3, <2>4, <2>6, PastIsNat
  <2>9. pc'["hash"] = "next" BY <1>1, <1>a, Moves DEF HashMove, HashLabels
  <2> QED BY <2>4, <2>5, <2>7, <2>8, <2>9 DEF WindowKept, MfRecords, Loaded, HashAt, Past
<1>2. CASE HashFill
  <2>1. PICK m \in ReadIfRequired : FillHash(m) BY <1>2 DEF HashFill
  <2>2. /\ m \in MfRecords /\ m.buffer + m.avail <= BlockSize
        /\ base + m.buffer + m.avail <= Past
    BY <1>a, Reads
  <2>3. /\ mf' \in MfRecords /\ mf'.buffer = m.buffer + HashNum(m)
        /\ mf'.avail = m.avail - HashNum(m)
    BY <1>a, <2>1, Fills
  <2>4. HashNum(m) \in Nat BY <2>2, NumbersOf DEF MfRecords
  <2>5. m.buffer \in Nat /\ m.avail \in Nat /\ base \in Nat \ {0}
    BY <1>a, <2>2 DEF MfRecords, WindowKept
  <2>6. mf'.buffer + mf'.avail <= BlockSize BY <2>2, <2>3, <2>4, <2>5, Sizes
  <2>7. base + mf'.buffer + mf'.avail <= Past BY <2>2, <2>3, <2>4, <2>5, PastIsNat
  <2>8. pc'["hash"] = "next" /\ base' = base
    BY <1>2, <1>a, Moves DEF HashFill, HashLabels
  <2> QED BY <2>3, <2>5, <2>6, <2>7, <2>8 DEF WindowKept, MfRecords, Loaded, HashAt, Past
<1>3. CASE HashStart \/ HashLockBt \/ HashLockHash \/ HashTakeFree \/ HashSayStopped
  <2>1. UNCHANGED <<base, mf>>
    BY <1>3 DEF HashStart, HashLockBt, HashLockHash, HashTakeFree, HashSayStopped, finderVars
  <2>2. /\ pc'["hash"] \in {"lock", "move"} => NeedMove
        /\ pc'["hash"] = "fill" => ~NeedMove
    <3>1. CASE HashStart
      BY <1>a, <3>1, Moves DEF HashStart, HashLabels
    <3>2. CASE HashLockBt BY <1>a, <3>2, Moves DEF HashLockBt, HashLabels
    <3>3. CASE HashLockHash
      <4>1. pc["hash"] = "lock" /\ pc'["hash"] = "move"
        BY <1>a, <3>3, Moves DEF HashLockHash, HashLabels
      <4> QED BY <1>a, <4>1 DEF WindowKept
    <3>4. CASE HashTakeFree BY <1>a, <3>4, Moves DEF HashTakeFree, HashLabels
    <3>5. CASE HashSayStopped BY <1>a, <3>5, Moves DEF HashSayStopped, HashLabels
    <3> QED BY <1>3, <3>1, <3>2, <3>3, <3>4, <3>5
  <2> QED BY <1>a, <2>1, <2>2, WindowSame
<1>4. CASE LzStep \/ BtStep \/ WriteFails \/ UNCHANGED vars
  <2>1. UNCHANGED <<base, mf>>
    <3>1. CASE LzStep
      BY <3>1 DEF LzStep, CreateHash, CreateBt, CreateFails, InitFinder, AskBlock, TakeBlock,
                  LzHeader, GetMatches, Skip, LzOnly, StopOnError, Flush, Finish, Finished,
                  DestroyNone, Destroy, Joined, finderVars
    <3>2. CASE BtStep
      BY <3>2 DEF BtStep, BtStart, BtTakeFree, BtLock, BtAsk, BtTake, BtHeader, BtChunk, BtPost,
                  BtStopHash, BtHashStopped, BtSayStopped, finderVars
    <3>3. CASE WriteFails \/ UNCHANGED vars BY <3>3 DEF WriteFails, vars, finderVars
    <3> QED BY <1>4, <3>1, <3>2, <3>3
  <2>2. pc'["hash"] \in {pc["hash"], "wait"}
    <3>1. CASE LzStep
      BY <1>a, <3>1 DEF LzStep, CreateHash, CreateBt, CreateFails, InitFinder, AskBlock, TakeBlock,
                  LzHeader, GetMatches, Skip, syncVars, StopOnError, Flush, Finish, Finished,
                  DestroyNone, Destroy, Joined, Goto, PcType, Threads
    <3>2. CASE BtStep
      BY <1>a, <3>2 DEF BtStep, BtStart, BtTakeFree, BtLock, BtAsk, BtTake, BtHeader, BtChunk, syncVars,
                  BtPost, BtStopHash, BtHashStopped, BtSayStopped, Goto, PcType, Threads
    <3>3. CASE WriteFails \/ UNCHANGED vars BY <3>3 DEF WriteFails, vars, syncVars
    <3> QED BY <1>4, <3>1, <3>2, <3>3
  <2> QED BY <1>a, <2>1, <2>2, WindowSame DEF WindowKept
<1> QED BY <1>1, <1>2, <1>3, <1>4 DEF Next, ThreadStep, HashStep

LEMMA HashesSame ==
    ASSUME HashesKept, UNCHANGED hashBuf,
           hash' \in [high : [HighKeys -> 0..MaxVal], low : [LowKeys -> 0..MaxVal]]
    PROVE  HashesKept'
BY DEF HashesKept

LEMMA HashesStep == ASSUME SyncInv, FinderInv, [Next]_vars PROVE HashesKept'
<1>a. SyncType /\ WindowKept /\ HashesKept /\ CoderKept
  BY DEF SyncInv, Control, FinderInv
<1>b. /\ hash \in [high : [HighKeys -> 0..MaxVal], low : [LowKeys -> 0..MaxVal]]
      /\ lz.pos \in 1..MaxVal
  BY <1>a DEF HashesKept, CoderKept
<1>c. /\ MaxVal \in Nat /\ HistorySize \in Nat /\ BtBlockSize \in Nat
      /\ MaxVal > HistorySize + 1 + BtBlockSize
  BY FinderParams
<1>1. CASE HashStart
  <2>1. Empty(HighKeys) \in [HighKeys -> 0..MaxVal] BY <1>c DEF Empty
  <2> QED BY <1>1, <1>a, <1>b, <2>1, HashesSame DEF HashStart
<1>2. CASE InitFinder
  <2>1. Empty(LowKeys) \in [LowKeys -> 0..MaxVal] BY <1>c DEF Empty
  <2> QED BY <1>2, <1>a, <1>b, <2>1, HashesSame DEF InitFinder
<1>3. CASE LzHeader
  <2> DEFINE low == LzNormalize(lz.pos, hash.low).low
  <2>1. low \in [LowKeys -> 0..MaxVal]
    <3>1. CASE lz.pos >= MaxVal - BtBlockSize
      <4>1. lz.pos - HistorySize - 1 \in Nat BY <1>b, <1>c, <3>1
      <4>2. \A sub \in Nat : Normalize3(sub, hash.low) \in [LowKeys -> 0..MaxVal]
        BY <1>b, <1>c DEF Normalize3
      <4> QED BY <3>1, <4>1, <4>2 DEF LzNormalize
    <3>2. CASE ~(lz.pos >= MaxVal - BtBlockSize) BY <1>b, <3>2 DEF LzNormalize
    <3> QED BY <3>1, <3>2
  <2>2. hash' = [hash EXCEPT !.low = low] /\ hashBuf' = hashBuf BY <1>3 DEF LzHeader
  <2> HIDE DEF low
  <2> QED BY <1>a, <1>b, <2>1, <2>2, HashesSame
<1>4. CASE GetMatches \/ Skip
  <2>1. LowSet(LzAt, lz.pos) \in [LowKeys -> 0..MaxVal]
    <3>1. lz.pos \in 0..MaxVal /\ hash.low \in [LowKeys -> 0..MaxVal] BY <1>b, <1>c
    <3> QED BY <3>1 DEF LowSet
  <2>2. hash' = [hash EXCEPT !.low = LowSet(LzAt, lz.pos)] \/ hash' = hash
    BY <1>4 DEF GetMatches, Skip
  <2>3. hashBuf' = hashBuf BY <1>4 DEF GetMatches, Skip, LzOnly
  <2> QED BY <1>a, <1>b, <2>1, <2>2, <2>3, HashesSame
<1>5. CASE HashFill
  <2>1. PICK m \in ReadIfRequired : FillHash(m) BY <1>5 DEF HashFill
  <2>2. m \in MfRecords BY <1>a, Reads
  <2>3. m.avail \in Nat BY <2>2 DEF MfRecords
  <2>4. hash' \in [high : [HighKeys -> 0..MaxVal], low : [LowKeys -> 0..MaxVal]]
    BY <1>a, <2>1, Fills
  <2>5. PICK heads \in Seq(Int) :
           /\ hashBuf' = [hashBuf EXCEPT ![block["hash"]] =
                             [avail |-> m.avail, heads |-> heads]]
           /\ Len(heads) = IF m.avail < NumHashBytes THEN 0 ELSE HashNum(m)
    BY <1>a, <2>1, Fills
  <2>6. ~(m.avail < NumHashBytes) =>
           HashNum(m) = Least(m.avail - NumHashBytes + 1, HashBlockSize - 2)
    BY DEF HashNum
  <2>7. /\ block["hash"] \in 0..(NumBlocks["hash"] - 1)
        /\ hashBuf \in [0..(NumBlocks["hash"] - 1) -> [avail : Nat, heads : Seq(Int)]]
    BY <1>a DEF SyncType, Syncs, HashesKept
  <2> QED BY <1>a, <2>3, <2>4, <2>5, <2>6, <2>7 DEF HashesKept
<1>6. CASE ~(HashStart \/ InitFinder \/ LzHeader \/ GetMatches \/ Skip \/ HashFill)
  <2>1. UNCHANGED <<hash, hashBuf>>
    <3>1. CASE LzStep
      BY <1>6, <3>1 DEF LzStep, CreateHash, CreateBt, CreateFails, AskBlock, TakeBlock,
                  StopOnError, Flush, Finish, Finished, DestroyNone, Destroy, Joined, finderVars
    <3>2. CASE BtStep
      BY <3>2 DEF BtStep, BtStart, BtTakeFree, BtLock, BtAsk, BtTake, BtHeader, BtChunk, BtPost,
                  BtStopHash, BtHashStopped, BtSayStopped, finderVars
    <3>3. CASE HashStep
      BY <1>6, <3>3 DEF HashStep, HashLockBt, HashLockHash, HashMove, HashTakeFree,
                        HashSayStopped, finderVars
    <3>4. CASE WriteFails \/ UNCHANGED vars BY <3>4 DEF WriteFails, vars, finderVars
    <3> QED BY <3>1, <3>2, <3>3, <3>4 DEF Next, ThreadStep
  <2> QED BY <1>a, <1>b, <2>1, HashesSame
<1> QED BY <1>1, <1>2, <1>3, <1>4, <1>5, <1>6

-----------------------------------------------------------------------------
(* The matches of some positions *)

\* How far two places go alike.
LEMMA MatchLenIs ==
    ASSUME NEW a \in Int, NEW delta \in Int, NEW most \in Nat
    PROVE  /\ MatchLen(a, delta, most) \in 0..most
           /\ \A i \in 0..(MatchLen(a, delta, most) - 1) : Byte(a + i) = Byte(a + i - delta)
           /\ \A n \in 0..most :
                 (\A i \in 0..(n - 1) : Byte(a + i) = Byte(a + i - delta))
                    => n <= MatchLen(a, delta, most)
<1> DEFINE same == {n \in 0..most : \A i \in 0..(n - 1) : Byte(a + i) = Byte(a + i - delta)}
           len == CHOOSE n \in same : \A k \in same : k <= n
<1>1. same \in SUBSET (0..most) /\ 0 \in same OBVIOUS
<1>2. len \in same /\ \A k \in same : k <= len
  <2> HIDE DEF same
  <2>1. \E n \in same : \A k \in same : k <= n BY <1>1, MostInt
  <2> QED BY <2>1
<1>3. MatchLen(a, delta, most) = len BY DEF MatchLen
<1> HIDE DEF len
<1> QED BY <1>2, <1>3

LEMMA RecordTyped ==
    ASSUME NEW a \in Int, NEW pos, NEW delta \in Int, NEW most \in Nat
    PROVE  Record(a, pos, delta, most) \in Records
<1>1. MatchLen(a, delta, most) \in Nat BY MatchLenIs
<1>2. <<<<MatchLen(a, delta, most), delta>>>> \in Seq(Nat \X Int) /\ <<>> \in Seq(Nat \X Int)
  BY <1>1
<1> QED BY <1>2 DEF Record, Records

\* What the tree thread has for the position it is at, and for those after.
LenLimit == Least(MatchMaxLen, bt.avail)
Size == ChunkSize(LenLimit)
ChunkPos == bt.pos - BtNormalSub(bt.pos, Size)
ChunkRecord(i) == Record(BtAt + i - 1, ChunkPos + i - 1, Heads[bt.next + i - 1], LenLimit)

\* The positions with one lenLimit: there is one, the heads suffice, and so do the bytes.
LEMMA SizeIs ==
    ASSUME FinderInv, pc["bt"] = "fill", ~HeadsDone
    PROVE  /\ Size \in 1..(bt.limit - bt.next + 1)
           /\ Size + LenLimit <= bt.avail + 1
           /\ LenLimit \in NumHashBytes..MatchMaxLen
           /\ bt.cyclic + Size <= CyclicSize
           /\ ChunkPos \in 1..MaxVal
           /\ ChunkPos + Size <= MaxVal
<1>1. /\ bt.limit \in 0..HashBlockSize /\ bt.next \in Nat \ {0} /\ bt.avail \in Nat
      /\ bt.cyclic \in 0..HistorySize /\ bt.pos \in 1..MaxVal
      /\ bt.next <= bt.limit /\ bt.avail >= bt.limit - bt.next + NumHashBytes
  BY DEF FinderInv, TreeKept, HeadsKept, HeadsDone
<1>2. /\ NumHashBytes = 4 /\ MatchMaxLen \in Nat /\ MatchMaxLen >= NumHashBytes
      /\ HistorySize \in Nat /\ MaxVal \in Nat /\ HashBlockSize \in Nat
      /\ MaxVal > HistorySize + 1 + HashBlockSize
  BY FinderParams
<1>3. LenLimit \in NumHashBytes..MatchMaxLen /\ LenLimit <= bt.avail
  BY <1>1, <1>2 DEF LenLimit, Least
<1>4. /\ Size \in 1..(bt.limit - bt.next + 1) /\ Size + LenLimit <= bt.avail + 1
      /\ bt.cyclic + Size <= CyclicSize
  BY <1>1, <1>2, <1>3 DEF Size, ChunkSize, Least, CyclicSize
<1>5. ChunkPos \in 1..MaxVal /\ ChunkPos + Size <= MaxVal
  BY <1>1, <1>2, <1>4 DEF ChunkPos, BtNormalSub, CyclicSize
<1> QED BY <1>3, <1>4, <1>5

LEMMA Chunk ==
    ASSUME SyncInv, FinderInv, BtChunk
    PROVE  \E done \in 1..Size, cur \in (bt.cur + 1)..(BtLimit + 2) :
             /\ cur >= bt.cur + done
             /\ \/ /\ \E i \in 1..done : Impossible(ChunkPos + i - 1, Heads[bt.next + i - 1])
                   /\ bt' = [bt EXCEPT !.failure = TRUE] /\ btBuf' = btBuf
                \/ /\ \A i \in 1..done : ~Impossible(ChunkPos + i - 1, Heads[bt.next + i - 1])
                   /\ btBuf' = [btBuf EXCEPT ![block["bt"]].recs =
                                   @ \o [i \in 1..done |-> ChunkRecord(i)]]
                   /\ bt' = [bt EXCEPT !.cur = cur, !.next = @ + done, !.buffer = @ + done,
                                       !.pos = ChunkPos + done, !.num = @ + done,
                                       !.avail = @ - done, !.cyclic = (@ + done) % CyclicSize]
<1>1. pc["bt"] = "fill" /\ ~HeadsDone /\ bt.cur < BtLimit BY DEF BtChunk, BtMore
<1>2. bt.cur \in Nat /\ BtLimit \in Nat BY LimitRoom DEF FinderInv, TreeKept
<1>3. Size \in Nat \ {0}
  <2>1. bt.limit \in 0..HashBlockSize /\ bt.next \in Nat \ {0} BY DEF FinderInv, TreeKept
  <2>2. Size \in 1..(bt.limit - bt.next + 1) BY <1>1, SizeIs
  <2> QED BY <2>1, <2>2
<1> DEFINE pos == ChunkPos
           Delta(i) == Heads[bt.next + i - 1]
           rec == [i \in 1..Size |-> Record(BtAt + i - 1, pos + i - 1, Delta(i), LenLimit)]
           start(i) == bt.cur + (i - 1)
                         + 2 * Cardinality({j \in 1..(i - 1) : rec[j].pairs # <<>>})
           done == Cardinality({i \in 1..Size : start(i) < BtLimit})
           b == block["bt"]
<1>4. IF \E i \in 1..done : Impossible(pos + i - 1, Delta(i))
      THEN bt' = [bt EXCEPT !.failure = TRUE] /\ btBuf' = btBuf
      ELSE /\ btBuf' = [btBuf EXCEPT ![b].recs = @ \o SubSeq(rec, 1, done)]
           /\ bt' = [bt EXCEPT !.cur = start(done + 1), !.next = @ + done,
                               !.buffer = @ + done, !.pos = pos + done,
                               !.num = @ + done, !.avail = @ - done,
                               !.cyclic = (@ + done) % CyclicSize]
  BY DEF BtChunk, LenLimit, Size, ChunkPos
<1> HIDE DEF rec
<1> DEFINE S == {j \in 1..Size : rec[j].pairs # <<>>}
<1>5. \A i \in 1..(Size + 1) : start(i) = bt.cur + Words(i, S)
  <2> TAKE i \in 1..(Size + 1)
  <2>1. {j \in 1..(i - 1) : rec[j].pairs # <<>>} = {j \in 1..(i - 1) : j \in S}
    BY <1>3
  <2>2. Words(i, S) = (i - 1) + 2 * Cardinality({j \in 1..(i - 1) : rec[j].pairs # <<>>})
    BY <2>1 DEF Words
  <2>3. Words(i, S) \in Nat /\ i \in Nat \ {0}
    <3>1. i \in Nat \ {0} BY <1>3
    <3> HIDE DEF S
    <3> QED BY <3>1, WordsGrow
  <2>4. Cardinality({j \in 1..(i - 1) : rec[j].pairs # <<>>}) \in Nat
    <3>1. IsFiniteSet(1..(i - 1)) BY <2>3, FS_Interval
    <3>2. IsFiniteSet({j \in 1..(i - 1) : rec[j].pairs # <<>>}) BY <3>1, FS_Subset
    <3> QED BY <3>2, FS_CardinalityType
  <2> HIDE DEF S
  <2> QED BY <1>2, <2>2, <2>3, <2>4
<1>6. done = Cardinality({i \in 1..Size : bt.cur + Words(i, S) < BtLimit})
  <2>1. {i \in 1..Size : start(i) < BtLimit} = {i \in 1..Size : bt.cur + Words(i, S) < BtLimit}
    BY <1>3, <1>5
  <2> QED BY <2>1
<1> HIDE DEF start, done, S
<1>7. done \in 1..Size /\ bt.cur + Words(done + 1, S) \in (bt.cur + done)..(BtLimit + 2)
  BY <1>1, <1>2, <1>3, <1>6, WordsFit
<1>8. start(done + 1) \in (bt.cur + done)..(BtLimit + 2)
  <2>1. done + 1 \in 1..(Size + 1) BY <1>3, <1>7
  <2> QED BY <1>5, <1>7, <2>1
<1>9. SubSeq(rec, 1, done) = [i \in 1..done |-> ChunkRecord(i)]
  <2>1. rec = [i \in 1..Size |-> ChunkRecord(i)] BY DEF rec, ChunkRecord
  <2>2. rec \in Seq({rec[i] : i \in 1..Size}) /\ Len(rec) = Size BY <1>3, <2>1
  <2>3. SubSeq(rec, 1, done) = [i \in 1..done |-> rec[i]] BY <1>3, <1>7, <2>2
  <2>4. \A i \in 1..done : rec[i] = ChunkRecord(i) BY <1>3, <1>7, <2>1
  <2> QED BY <2>3, <2>4
<1> QED
  <2>1. /\ start(done + 1) \in (bt.cur + 1)..(BtLimit + 2) /\ start(done + 1) >= bt.cur + done
    BY <1>2, <1>3, <1>7, <1>8
  <2> DEFINE Does(d, cur) ==
             /\ cur >= bt.cur + d
             /\ \/ /\ \E i \in 1..d : Impossible(ChunkPos + i - 1, Heads[bt.next + i - 1])
                   /\ bt' = [bt EXCEPT !.failure = TRUE] /\ btBuf' = btBuf
                \/ /\ \A i \in 1..d : ~Impossible(ChunkPos + i - 1, Heads[bt.next + i - 1])
                   /\ btBuf' = [btBuf EXCEPT ![block["bt"]].recs =
                                   @ \o [i \in 1..d |-> ChunkRecord(i)]]
                   /\ bt' = [bt EXCEPT !.cur = cur, !.next = @ + d, !.buffer = @ + d,
                                       !.pos = ChunkPos + d, !.num = @ + d,
                                       !.avail = @ - d, !.cyclic = (@ + d) % CyclicSize]
  <2>2. Does(done, start(done + 1))
    <3>1. CASE \E i \in 1..done : Impossible(pos + i - 1, Delta(i))
      BY <1>4, <2>1, <3>1
    <3>2. CASE ~\E i \in 1..done : Impossible(pos + i - 1, Delta(i))
      BY <1>4, <1>9, <2>1, <3>2
    <3> QED BY <3>1, <3>2
  <2>3. \E d \in 1..Size, cur \in (bt.cur + 1)..(BtLimit + 2) : Does(d, cur)
    <3> HIDE DEF Does
    <3> QED BY <1>7, <2>1, <2>2
  <2> QED BY <2>3

-----------------------------------------------------------------------------
(* The blocks of the tree thread *)

\* What is written and what is read are different blocks.
LEMMA RingApart ==
    ASSUME SyncType, NEW s \in Syncs, Ring(s), ~needStart[s], ~stopWriting[s], Held(s), Writing(s)
    PROVE  block[s] # reading[s]
<1>1. /\ free[s] + (filled[s] + 1) + 1 = NumBlocks[s]
      /\ After(s, block[s], filled[s] + 1, reading[s])
  BY DEF Ring, Ahead, One
<1> QED BY <1>1, RingNumbers DEF After

\* The hash thread is fresh no longer, or it was and the tree thread did as little.
LEMMA FreshBefore ==
    ASSUME SyncInv, LzStep \/ HashStep, HashFresh'
    PROVE  HashFresh /\ pc'["bt"] \in {pc["bt"], "wait"}
<1>a. PcType /\ SyncType /\ BtRuns /\ HashRuns /\ Rings BY DEF SyncInv, Control
<1>b. pc["lz"] \in LzBefore => needStart["hash"] BY <1>a DEF Rings, Syncs
<1>1. CASE HashStep
  <2>1. UNCHANGED <<needStart, exit>> /\ pc'["bt"] = pc["bt"] /\ pc'["lz"] = pc["lz"]
        /\ canStart'["bt"] = canStart["bt"]
    BY <1>1, <1>a DEF HashStep, HashStart, Started, HashLockBt, HashLockHash, HashMove, HashTakeFree,
       TakeFree, HashFill, HashSayStopped, SayStopped, Goto, PcType, Threads, SyncType, Syncs
  <2> QED BY <2>1 DEF HashFresh
<1>2. CASE CreateHash \/ CreateBt \/ CreateFails \/ InitFinder
  <2>1. pc["lz"] \in LzBefore /\ pc'["bt"] \in {pc["bt"], "wait"}
    BY <1>2, <1>a DEF CreateHash, CreateBt, CreateFails, InitFinder, Goto, PcType, Threads, LzBefore
  <2> QED BY <1>b, <2>1 DEF HashFresh
<1>3. CASE AskBlock
  <2>1. pc'["bt"] = pc["bt"] /\ needStart'["hash"] = needStart["hash"] /\ pc'["lz"] = "filled"
    BY <1>3, <1>a DEF AskBlock, AskFirst, AskNext, Goto, PcType, Threads, SyncType, Syncs
  <2>2. CASE AskFirst("bt")
    <3>1. pc["lz"] \in LzBefore
      BY <1>3, <1>a, <2>2 DEF AskBlock, AskFirst, BtRuns, LzBefore, LzAfter
    <3> QED BY <1>b, <2>1, <3>1 DEF HashFresh
  <2>3. CASE AskNext("bt")
    BY <2>1, <2>3 DEF AskNext, HashFresh, LzBefore
  <2> QED BY <1>3, <2>2, <2>3 DEF AskBlock
<1>4. CASE Destroy
  <2>1. pc'["bt"] = pc["bt"] /\ UNCHANGED needStart /\ pc'["lz"] \in {"join bt", "join hash"}
    BY <1>4, <1>a DEF Destroy, SendExit, Goto, PcType, Threads
  <2>2. canStart'["bt"] /\ ~exit'["bt"] => canStart["bt"] /\ ~exit["bt"]
    BY <1>4, <1>a DEF Destroy, SendExit, Doomed, SyncType, Syncs
  <2> QED BY <2>1, <2>2 DEF HashFresh, LzBefore
<1>5. CASE TakeBlock \/ LzHeader \/ GetMatches \/ Skip \/ StopOnError \/ Flush \/ Finish
           \/ Finished \/ DestroyNone \/ Joined
  <2>1. /\ UNCHANGED <<exit, canStart>> /\ pc'["bt"] = pc["bt"]
        /\ pc'["lz"] \notin LzBefore /\ needStart'["hash"] = needStart["hash"]
    <3>1. CASE GetMatches \/ Skip
      BY <3>1 DEF GetMatches, Skip, CodeOne, syncVars, LzBefore
    <3>2. CASE ~(GetMatches \/ Skip)
      BY <1>5, <1>a, <3>2 DEF TakeBlock, TakeFilled, LzHeader, Lock, StopOnError, Flush, Finish,
         StopWriting, Finished, Stopped, DestroyNone, Next1, Joined, Join, Goto, PcType, Threads,
         SyncType, Syncs, LzBefore
    <3> QED BY <3>1, <3>2
  <2> QED BY <2>1 DEF HashFresh
<1> QED BY <1>1, <1>2, <1>3, <1>4, <1>5 DEF LzStep

\* What an action of another thread leaves of the tree thread.
BtAlone ==
    /\ bt' = [bt EXCEPT !.buffer = bt'.buffer] /\ bt'.buffer \in Int
    /\ btBuf' = btBuf /\ block'["bt"] = block["bt"]
    /\ pc'["bt"] \in {pc["bt"], "wait"}

LEMMA OthersLeaveBt ==
    ASSUME SyncInv, FinderInv, LzStep \/ HashStep \/ WriteFails \/ UNCHANGED vars PROVE BtAlone
<1>a. /\ PcType /\ SyncType /\ WindowKept /\ bt.buffer \in Int
      /\ bt = [bt EXCEPT !.buffer = bt.buffer]
  BY DEF SyncInv, Control, FinderInv, TreeKept
<1>1. btBuf' = btBuf
  BY DEF LzStep, CreateHash, CreateBt, CreateFails, InitFinder, AskBlock, TakeBlock, LzHeader,
         GetMatches, Skip, LzOnly, StopOnError, Flush, Finish, Finished, DestroyNone, Destroy, Joined,
         HashStep, HashStart, HashLockBt, HashLockHash, HashMove, HashTakeFree, HashFill,
         HashSayStopped, WriteFails, vars, finderVars
<1>2. block'["bt"] = block["bt"]
  <2>1. CASE LzStep
    BY <2>1 DEF LzStep, CreateHash, CreateBt, CreateFails, InitFinder, AskBlock, AskFirst, AskNext,
         TakeBlock, TakeFilled, LzHeader, Lock, GetMatches, Skip, StopOnError, Flush, Finish,
         StopWriting, Finished, Stopped, DestroyNone, Destroy, SendExit, Joined, Join, syncVars
  <2>2. CASE HashStep
    BY <1>a, <2>2 DEF HashStep, HashStart, Started, HashLockBt, HashLockHash, HashMove,
         HashTakeFree, TakeFree, HashFill, Post, HashSayStopped, SayStopped, SyncType, Syncs
  <2>3. CASE WriteFails \/ UNCHANGED vars BY <2>3 DEF WriteFails, vars, syncVars
  <2> QED BY <2>1, <2>2, <2>3
<1>3. pc'["bt"] \in {pc["bt"], "wait"}
  <2>1. CASE LzStep
    BY <1>a, <2>1 DEF LzStep, CreateHash, CreateBt, CreateFails, InitFinder, AskBlock, TakeBlock,
         LzHeader, GetMatches, Skip, syncVars, StopOnError, Flush, Finish, Finished,
         DestroyNone, Destroy, Joined, Goto, PcType, Threads
  <2>2. CASE HashStep
    BY <1>a, <2>2 DEF HashStep, HashStart, HashLockBt, HashLockHash, HashMove,
         HashTakeFree, HashFill, HashSayStopped, Goto, PcType, Threads
  <2>3. CASE WriteFails \/ UNCHANGED vars BY <2>3 DEF WriteFails, vars, syncVars
  <2> QED BY <2>1, <2>2, <2>3
<1>4. CASE HashMove
  <2> DEFINE moved == mf.buffer - KeepBefore - ((mf.buffer - KeepBefore) % MoveAlign)
  <2>1. NeedMove /\ MoveBlock BY <1>4, <1>a DEF HashMove, WindowKept
  <2>2. base \in Nat \ {0} /\ mf \in MfRecords BY <1>a DEF WindowKept, MfRecords
  <2>3. moved \in Nat /\ bt' = [bt EXCEPT !.buffer = bt.buffer - moved]
    BY <2>1, <2>2, MoveKeeps DEF MfRecords
  <2> HIDE DEF moved
  <2>4. bt'.buffer = bt.buffer - moved BY <2>3 DEF FinderInv, TreeKept
  <2> QED BY <1>a, <1>1, <1>2, <1>3, <2>3, <2>4 DEF BtAlone
<1>5. CASE ~HashMove
  <2>1. bt' = bt
    BY <1>5 DEF LzStep, CreateHash, CreateBt, CreateFails, InitFinder, AskBlock, TakeBlock,
         LzHeader, GetMatches, Skip, LzOnly, StopOnError, Flush, Finish, Finished, DestroyNone,
         Destroy, Joined, HashStep, HashStart, HashLockBt, HashLockHash, HashTakeFree, HashFill,
         HashSayStopped, WriteFails, vars, finderVars
  <2> QED BY <1>a, <1>1, <1>2, <1>3, <2>1 DEF BtAlone
<1> QED BY <1>4, <1>5

BtRecords ==
    [buffer : Int, pos : 1..MaxVal, cyclic : 0..HistorySize, next : Nat \ {0},
     limit : 0..HashBlockSize, avail : Nat, cur : Nat, num : Nat, failure : BOOLEAN]

LEMMA AloneKeeps ==
    ASSUME TreeKept, BtAlone
    PROVE  /\ bt' \in BtRecords /\ bt'.pos = bt.pos /\ bt'.cyclic = bt.cyclic
           /\ bt'.next = bt.next /\ bt'.limit = bt.limit /\ bt'.avail = bt.avail
           /\ bt'.cur = bt.cur /\ bt'.num = bt.num /\ bt'.failure = bt.failure
           /\ HeadsDone' <=> HeadsDone
<1>1. bt \in BtRecords BY DEF TreeKept, BtRecords
<1> QED BY <1>1 DEF BtAlone, BtRecords, HeadsDone

\* The steps of the tree thread that are about the rings only.
LEMMA BtSyncSteps ==
    ASSUME SyncInv, BtLock \/ BtTake \/ BtStopHash \/ BtHashStopped \/ BtSayStopped
    PROVE  /\ UNCHANGED <<bt, btBuf, block, canStart, exit>> /\ pc'["lz"] = pc["lz"]
           /\ pc["bt"] \notin {"off", "wait", "end"}
           /\ BtLock => pc["bt"] = "lock" /\ pc'["bt"] = "fill"
           /\ BtTake => pc["bt"] = "filled" /\ pc'["bt"] = "lockhash"
           /\ ~(BtLock \/ BtTake) => pc'["bt"] \in {"stopping", "stopped", "wait"}
           /\ BtLock \/ BtTake => UNCHANGED needStart
BY DEF SyncInv, Control, PcType, Threads, BtLock, BtTake, BtStopHash, BtHashStopped, BtSayStopped,
       Lock, TakeFilled, StopWriting, SayStopped, Stopped, Goto, finderVars

LEMMA StepRoom == ASSUME SyncInv, FinderInv, [Next]_vars PROVE Room'
<1>a. Room /\ TreeKept /\ HashesKept /\ SyncType /\ PcType /\ HashRuns /\ BtRuns
  BY DEF SyncInv, FinderInv, Control
<1>b. BtLimit \in Nat /\ BtLimit >= 8 /\ NumHashBytes = 4 BY LimitRoom, FinderParams
<1>c. bt \in BtRecords BY <1>a DEF TreeKept, BtRecords
<1>1. CASE LzStep \/ HashStep \/ WriteFails \/ UNCHANGED vars
  <2>1. BtAlone BY <1>1, OthersLeaveBt
  <2>2. /\ bt'.cur = bt.cur /\ bt'.failure = bt.failure
        /\ HeadsDone' <=> HeadsDone
    BY <1>a, <2>1, AloneKeeps
  <2>3. HashFresh' => HashFresh
    <3>1. CASE LzStep \/ HashStep BY <3>1, FreshBefore
    <3>2. CASE WriteFails \/ UNCHANGED vars
      BY <3>2 DEF WriteFails, vars, syncVars, HashFresh
    <3> QED BY <1>1, <3>1, <3>2
  <2>4. pc'["bt"] \in {pc["bt"], "wait"} BY <2>1 DEF BtAlone
  <2>5. bt'.cur \in 2..(BtLimit + 4) BY <1>a, <2>2 DEF Room
  <2>6. pc'["bt"] \in {"filled", "lockhash"} => bt'.cur < BtLimit
    BY <1>a, <2>2, <2>4 DEF Room
  <2>7. HashFresh' => HeadsDone' /\ ~bt'.failure /\ (pc'["bt"] = "fill" => bt'.cur = 2)
    BY <1>a, <2>2, <2>3, <2>4 DEF Room
  <2> QED BY <2>5, <2>6, <2>7 DEF Room
<1>2. CASE BtStart
  <2>1. /\ pc'["bt"] \in {"end", "next"} /\ bt' = bt
        /\ exit["bt"] => pc'["bt"] = "end" /\ pc["lz"] = "join bt"
        /\ pc'["lz"] = pc["lz"] /\ UNCHANGED <<needStart, exit>> /\ ~canStart'["bt"]
        /\ canStart["bt"]
    BY <1>2, <1>a DEF BtStart, Started, Goto, PcType, Threads, finderVars, SyncType, Syncs, BtRuns
  <2>2. HashFresh' => HashFresh BY <2>1 DEF HashFresh, LzBefore
  <2> QED BY <1>a, <2>1, <2>2 DEF Room, HeadsDone
<1>3. CASE BtTakeFree
  <2>1. /\ pc["bt"] = "next" /\ UNCHANGED <<needStart, exit, canStart>> /\ pc'["lz"] = pc["lz"]
        /\ pc'["bt"] \in {"stophash", "fill", "lock"}
        /\ pc'["bt"] = "stophash" => bt' = bt
        /\ pc'["bt"] # "stophash" => bt' = [bt EXCEPT !.cur = 2, !.num = 0]
    BY <1>3, <1>a DEF BtTakeFree, TakeFree, Goto, PcType, Threads
  <2>2. HashFresh' => HashFresh BY <2>1 DEF HashFresh
  <2>3. /\ bt'.next = bt.next /\ bt'.limit = bt.limit /\ bt'.failure = bt.failure
        /\ bt'.cur \in {2, bt.cur}
        /\ pc'["bt"] = "fill" => bt'.cur = 2
    BY <1>c, <2>1 DEF BtRecords
  <2>4. bt'.cur \in 2..(BtLimit + 4) BY <1>a, <1>b, <2>3 DEF Room
  <2>5. HashFresh' => HeadsDone' /\ ~bt'.failure /\ (pc'["bt"] = "fill" => bt'.cur = 2)
    <3>1. HeadsDone' <=> HeadsDone BY <2>3 DEF HeadsDone
    <3> QED BY <1>a, <2>2, <2>3, <3>1 DEF Room
  <2>6. pc'["bt"] \notin {"filled", "lockhash"} BY <2>1
  <2> QED BY <2>4, <2>5, <2>6 DEF Room
<1>4. CASE BtLock \/ BtTake \/ BtStopHash \/ BtHashStopped \/ BtSayStopped
  <2>1. ~canStart["bt"] /\ pc["lz"] \notin LzBefore
    BY <1>4, BtSyncSteps, BtAwake DEF SyncInv, LzBefore, LzCoding
  <2>2. bt' = bt /\ ~HashFresh'
    BY <1>4, <1>a, <2>1, BtSyncSteps DEF HashFresh, HashRuns
  <2>3. pc'["bt"] \in {"filled", "lockhash"} => pc["bt"] \in {"filled", "lockhash"}
    BY <1>4, BtSyncSteps
  <2> QED BY <1>a, <2>2, <2>3 DEF Room
<1>5. CASE BtAsk
  <2>1. /\ pc["bt"] = "fill" /\ pc'["bt"] = "filled" /\ bt' = bt /\ pc'["lz"] = pc["lz"]
        /\ bt.cur < BtLimit
    BY <1>5, <1>a DEF BtAsk, BtMore, Goto, PcType, Threads, finderVars
  <2>2. ~canStart["bt"] /\ pc["lz"] \notin LzBefore
    BY <2>1, BtAwake DEF SyncInv, LzBefore, LzCoding
  <2>3. canStart'["bt"] = canStart["bt"]
    BY <1>5, <1>a DEF BtAsk, AskFirst, AskNext, SyncType, Syncs
  <2> QED BY <1>a, <2>1, <2>2, <2>3 DEF Room, HashFresh
<1>6. CASE BtHeader
  <2> DEFINE h == hashBuf[reading["hash"]]
             last == h.avail < NumHashBytes
  <2>1. /\ pc["bt"] = "lockhash" /\ pc'["bt"] \in {"post", "fill"}
        /\ UNCHANGED needStart
        /\ bt' = [bt EXCEPT !.next = 1, !.limit = Len(h.heads),
                            !.avail = IF last THEN 0 ELSE h.avail,
                            !.cur = IF last THEN @ + h.avail ELSE @]
    BY <1>6, <1>a DEF BtHeader, Lock, Goto, PcType, Threads
  <2>2. h.avail \in Nat BY <1>a DEF HashesKept, SyncType, Syncs
  <2>3. bt'.cur = IF last THEN bt.cur + h.avail ELSE bt.cur BY <1>c, <2>1 DEF BtRecords
  <2>4. ~HashFresh' BY <1>a, <2>1 DEF HashFresh, HashRuns
  <2> HIDE DEF h
  <2> QED BY <1>a, <1>b, <2>1, <2>2, <2>3, <2>4 DEF Room
<1>7. CASE BtChunk
  <2>1. pc["bt"] = "fill" /\ ~HeadsDone /\ UNCHANGED syncVars BY <1>7 DEF BtChunk, BtMore
  <2>2. ~HashFresh' BY <1>a, <2>1 DEF Room, HashFresh, syncVars
  <2>3. PICK done \in 1..Size, cur \in (bt.cur + 1)..(BtLimit + 2) :
           \/ bt' = [bt EXCEPT !.failure = TRUE]
           \/ bt' = [bt EXCEPT !.cur = cur, !.next = @ + done, !.buffer = @ + done,
                               !.pos = ChunkPos + done, !.num = @ + done,
                               !.avail = @ - done, !.cyclic = (@ + done) % CyclicSize]
    BY <1>7, Chunk
  <2>4. bt'.cur \in {bt.cur, cur} BY <1>c, <2>3 DEF BtRecords
  <2>5. bt.cur \in Nat BY <1>c DEF BtRecords
  <2> QED BY <1>a, <1>b, <2>1, <2>2, <2>3, <2>4, <2>5 DEF Room, syncVars
<1>8. CASE BtPost
  <2>1. /\ pc["bt"] \in {"post", "fill"} /\ pc'["bt"] = "next" /\ bt' = bt
        /\ UNCHANGED <<needStart, canStart, exit>> /\ pc'["lz"] = pc["lz"]
    BY <1>8, <1>a DEF BtPost, Goto, PcType, Threads
  <2>2. HashFresh' => HashFresh BY <1>a, <2>1 DEF HashFresh, HashRuns
  <2> QED BY <1>a, <2>1, <2>2 DEF Room, HeadsDone
<1> QED BY <1>1, <1>2, <1>3, <1>4, <1>5, <1>6, <1>7, <1>8 DEF Next, ThreadStep, BtStep

\* A block the tree thread reads stays as it is.
LEMMA HeadsSame ==
    ASSUME HeadsKept, pc'["bt"] \in {pc["bt"], "wait"},
           bt'.next = bt.next, bt'.limit = bt.limit, bt'.avail = bt.avail,
           pc'["bt"] \in {"next", "lock", "fill"} => UNCHANGED <<needStart["hash"], Heads>>
    PROVE  HeadsKept'
BY DEF HeadsKept, HeadsDone

LEMMA HeadsStep == ASSUME SyncInv, FinderInv, [Next]_vars PROVE HeadsKept'
<1>a. /\ HeadsKept /\ TreeKept /\ HashesKept /\ SyncType /\ PcType
      /\ HashRuns /\ BtRuns /\ Lives /\ Room
  BY DEF SyncInv, FinderInv, Control
<1>b. bt \in BtRecords BY <1>a DEF TreeKept, BtRecords
<1>1. CASE LzStep \/ HashStep \/ WriteFails \/ UNCHANGED vars
  <2>1. BtAlone BY <1>1, OthersLeaveBt
  <2>2. /\ bt'.next = bt.next /\ bt'.limit = bt.limit /\ bt'.avail = bt.avail
        /\ pc'["bt"] \in {pc["bt"], "wait"}
    BY <1>a, <2>1, AloneKeeps DEF BtAlone
  <2>3. ASSUME pc'["bt"] \in {"next", "lock", "fill"} PROVE UNCHANGED needStart["hash"]
    <3>1. pc["bt"] \in {"next", "lock", "fill"} BY <2>2, <2>3
    <3>2. thread["bt"] # "none" BY <1>a, <3>1 DEF Lives
    <3>3. CASE LzStep
      BY <1>a, <3>2, <3>3 DEF LzStep, CreateHash, Lives, CreateBt, Create, CreateFails, InitFinder,
         AskBlock, AskFirst, AskNext, TakeBlock, TakeFilled, LzHeader, Lock, GetMatches, Skip,
         StopOnError, Flush, Finish, StopWriting, Finished, Stopped, DestroyNone, Destroy,
         SendExit, Joined, Join, syncVars, SyncType, Syncs
    <3>4. CASE HashStep
      BY <3>4 DEF HashStep, HashStart, Started, HashLockBt, HashLockHash, HashMove, HashTakeFree,
         TakeFree, HashFill, HashSayStopped, SayStopped
    <3>5. CASE WriteFails \/ UNCHANGED vars BY <3>5 DEF WriteFails, vars, syncVars
    <3> QED BY <1>1, <3>3, <3>4, <3>5
  <2>4. reading'["hash"] = reading["hash"]
    <3>1. CASE LzStep
      BY <1>a, <3>1 DEF LzStep, CreateHash, CreateBt, CreateFails, InitFinder,
         AskBlock, AskFirst, AskNext, TakeBlock, TakeFilled, LzHeader, Lock, GetMatches, Skip,
         StopOnError, Flush, Finish, StopWriting, Finished, Stopped, DestroyNone, Destroy,
         SendExit, Joined, Join, syncVars, SyncType, Syncs
    <3>2. CASE HashStep
      BY <3>2 DEF HashStep, HashStart, Started, HashLockBt, HashLockHash, HashMove, HashTakeFree,
         TakeFree, HashFill, HashSayStopped, SayStopped
    <3>3. CASE WriteFails \/ UNCHANGED vars BY <3>3 DEF WriteFails, vars, syncVars
    <3> QED BY <1>1, <3>1, <3>2, <3>3
  <2>5. CASE HashFill
    <3>1. ASSUME pc'["bt"] \in {"next", "lock", "fill"} PROVE UNCHANGED Heads
      <4>1. pc["bt"] \in {"next", "lock", "fill"} /\ pc["hash"] = "fill"
        BY <2>2, <2>5, <3>1 DEF HashFill
      <4>2. ~needStart["hash"] /\ ~stopWriting["hash"] BY <1>a, <4>1 DEF HashRuns
      <4>3. block["hash"] # reading["hash"]
        BY <1>a, <4>1, <4>2, RingApart DEF SyncInv, Rings, Held, Writing, Syncs
      <4>4. \E r : hashBuf' = [hashBuf EXCEPT ![block["hash"]] = r]
        BY <2>5 DEF HashFill, FillHash
      <4>5. hashBuf'[reading["hash"]] = hashBuf[reading["hash"]]
        BY <1>a, <4>3, <4>4 DEF HashesKept, SyncType, Syncs
      <4> QED BY <2>4, <4>5 DEF Heads
    <3> QED BY <1>a, <2>2, <2>3, <3>1, HeadsSame
  <2>6. CASE ~HashFill
    <3>1. UNCHANGED hashBuf
      BY <1>1, <2>6 DEF LzStep, CreateHash, CreateBt, CreateFails, InitFinder, AskBlock, TakeBlock,
         LzHeader, GetMatches, Skip, LzOnly, StopOnError, Flush, Finish, Finished, DestroyNone,
         Destroy, Joined, HashStep, HashStart, HashLockBt, HashLockHash, HashMove, HashTakeFree,
         HashSayStopped, WriteFails, vars, finderVars
    <3>2. UNCHANGED Heads BY <2>4, <3>1 DEF Heads
    <3> QED BY <1>a, <2>2, <2>3, <3>2, HeadsSame
  <2> QED BY <2>5, <2>6
<1>2. CASE BtStart
  <2>1. /\ pc["bt"] = "wait" /\ canStart["bt"] /\ bt' = bt
        /\ pc'["bt"] = IF exit["bt"] THEN "end" ELSE "next"
    BY <1>2, <1>a DEF BtStart, Started, Goto, PcType, Threads, finderVars
  <2>2. ~exit["bt"] => HashFresh BY <1>a, <2>1 DEF HashFresh, HashRuns, BtWriting
  <2>3. ~exit["bt"] => HeadsDone BY <1>a, <2>2 DEF Room
  <2> QED BY <2>1, <2>3 DEF HeadsKept, HeadsDone
<1>3. CASE BtTakeFree
  <2>1. /\ pc["bt"] = "next" /\ UNCHANGED <<needStart, reading, hashBuf>>
        /\ pc'["bt"] \in {"stophash", "fill", "lock"}
        /\ bt' = bt \/ bt' = [bt EXCEPT !.cur = 2, !.num = 0]
    BY <1>3, <1>a DEF BtTakeFree, TakeFree, Goto, PcType, Threads
  <2>2. bt'.next = bt.next /\ bt'.limit = bt.limit /\ bt'.avail = bt.avail
    BY <1>b, <2>1 DEF BtRecords
  <2> QED BY <1>a, <2>1, <2>2 DEF HeadsKept, HeadsDone, Heads
<1>4. CASE BtLock
  <2>1. /\ pc["bt"] = "lock" /\ UNCHANGED <<needStart, reading, hashBuf, bt>>
    BY <1>4 DEF BtLock, Lock, finderVars
  <2> QED BY <1>a, <2>1 DEF HeadsKept, HeadsDone, Heads
<1>5. CASE BtAsk \/ BtTake \/ BtStopHash \/ BtHashStopped \/ BtSayStopped
  <2>1. pc'["bt"] \notin {"next", "lock", "fill"}
    BY <1>5, <1>a DEF BtAsk, BtTake, BtStopHash, BtHashStopped, BtSayStopped, Goto, PcType, Threads
  <2> QED BY <2>1 DEF HeadsKept
<1>6. CASE BtHeader
  <2> DEFINE h == hashBuf[reading["hash"]]
             last == h.avail < NumHashBytes
  <2>1. /\ pc["bt"] = "lockhash" /\ UNCHANGED <<needStart, reading, hashBuf>>
        /\ pc'["bt"] = IF last THEN "post" ELSE "fill"
        /\ bt' = [bt EXCEPT !.next = 1, !.limit = Len(h.heads),
                            !.avail = IF last THEN 0 ELSE h.avail,
                            !.cur = IF last THEN @ + h.avail ELSE @]
    BY <1>6, <1>a DEF BtHeader, Lock, Goto, PcType, Threads
  <2>2. ~needStart["hash"] BY <1>a, <2>1 DEF HashRuns
  <2>3. ~last => h.avail \in Nat /\ Len(h.heads) = Least(h.avail - NumHashBytes + 1, HashBlockSize - 2)
    BY <1>a DEF HashesKept, SyncType, Syncs
  <2>4. bt'.next = 1 /\ bt'.limit = Len(h.heads) /\ (~last => bt'.avail = h.avail)
    BY <1>b, <2>1 DEF BtRecords
  <2>5. Heads' = h.heads BY <2>1 DEF Heads
  <2> HIDE DEF h
  <2>6. ~last => h.avail >= Len(h.heads) - 1 + NumHashBytes
    <3>1. NumHashBytes \in Nat /\ HashBlockSize - 2 \in Nat BY FinderParams
    <3>2. ASSUME ~last PROVE Len(h.heads) <= h.avail - NumHashBytes + 1
      BY <2>3, <3>1, <3>2 DEF Least
    <3>3. ~last => Len(h.heads) \in Nat BY <2>3, <3>1 DEF Least
    <3> QED BY <2>3, <3>1, <3>2, <3>3
  <2> QED BY <2>1, <2>2, <2>4, <2>5, <2>6 DEF HeadsKept
<1>7. CASE BtChunk
  <2>1. pc["bt"] = "fill" /\ ~HeadsDone /\ UNCHANGED <<needStart, reading, hashBuf, pc>>
    BY <1>7 DEF BtChunk, BtMore, syncVars
  <2>2. PICK done \in 1..Size, cur \in (bt.cur + 1)..(BtLimit + 2) :
           \/ bt' = [bt EXCEPT !.failure = TRUE]
           \/ bt' = [bt EXCEPT !.cur = cur, !.next = @ + done, !.buffer = @ + done,
                               !.pos = ChunkPos + done, !.num = @ + done,
                               !.avail = @ - done, !.cyclic = (@ + done) % CyclicSize]
    BY <1>7, Chunk
  <2>3. /\ bt'.limit = bt.limit
        /\ \/ bt'.next = bt.next /\ bt'.avail = bt.avail
           \/ bt'.next = bt.next + done /\ bt'.avail = bt.avail - done
    BY <1>b, <2>2 DEF BtRecords
  <2>4. Heads' = Heads BY <2>1 DEF Heads
  <2>5. /\ ~needStart["hash"] /\ bt.limit = Len(Heads)
        /\ bt.avail >= bt.limit - bt.next + NumHashBytes
    BY <1>a, <2>1 DEF HeadsKept
  <2>6. bt'.avail >= bt'.limit - bt'.next + NumHashBytes
    <3>1. Size \in Nat BY <2>1, SizeIs
    <3>2. bt.avail \in Nat /\ bt.limit \in Nat /\ bt.next \in Nat /\ done \in Nat /\ NumHashBytes \in Nat
      BY <1>b, <3>1, FinderParams DEF BtRecords
    <3>3. ASSUME NEW v \in Nat, NEW l \in Nat, NEW x \in Nat, NEW b \in Nat, NEW d \in Nat,
                 v >= l - x + b
          PROVE  v - d >= l - (x + d) + b
      BY <3>3
    <3>4. bt.avail >= bt.limit - bt.next + NumHashBytes BY <2>5
    <3>5. bt.avail - done >= bt.limit - (bt.next + done) + NumHashBytes
      BY <3>2, <3>3, <3>4
    <3>6. CASE bt'.next = bt.next /\ bt'.avail = bt.avail BY <2>3, <3>4, <3>6
    <3>7. CASE bt'.next = bt.next + done /\ bt'.avail = bt.avail - done BY <2>3, <3>5, <3>7
    <3> QED BY <2>3, <3>6, <3>7
  <2> QED BY <2>1, <2>3, <2>4, <2>5, <2>6 DEF HeadsKept
<1>8. CASE BtPost
  <2>1. /\ pc["bt"] \in {"post", "fill"} /\ UNCHANGED <<bt, needStart, reading, hashBuf>>
    BY <1>8, <1>a DEF BtPost
  <2>2. pc["bt"] = "post" => HeadsDone BY <1>a DEF TreeKept
  <2> QED BY <1>a, <2>1, <2>2 DEF HeadsKept, HeadsDone, Heads
<1> QED BY <1>1, <1>2, <1>3, <1>4, <1>5, <1>6, <1>7, <1>8 DEF Next, ThreadStep, BtStep

BtBlocks == [size : Nat, avail : Nat, recs : Seq(Records)]

\* What TreeKept says of the blocks.
BlocksKept ==
    /\ btBuf \in [0..(NumBlocks["bt"] - 1) -> BtBlocks]
    /\ \A b \in 0..(NumBlocks["bt"] - 1) : Len(btBuf[b].recs) <= BtBlockSize

\* A block changed in one place.
LEMMA BlockSet ==
    ASSUME BlocksKept, SyncType, NEW blk \in BtBlocks, Len(blk.recs) <= BtBlockSize,
           btBuf' = [btBuf EXCEPT ![block["bt"]] = blk]
    PROVE  BlocksKept' /\ btBuf'[block["bt"]] = blk
<1>1. block["bt"] \in 0..(NumBlocks["bt"] - 1) BY DEF SyncType, Syncs
<1> QED BY <1>1 DEF BlocksKept

\* A field of a block changed.
LEMMA BlockFields ==
    ASSUME BlocksKept, NEW b \in 0..(NumBlocks["bt"] - 1), NEW x, NEW r
    PROVE  /\ [btBuf EXCEPT ![b].size = x] = [btBuf EXCEPT ![b] =
                 [size |-> x, avail |-> btBuf[b].avail, recs |-> btBuf[b].recs]]
           /\ [btBuf EXCEPT ![b].recs = r] = [btBuf EXCEPT ![b] =
                 [size |-> btBuf[b].size, avail |-> btBuf[b].avail, recs |-> r]]
<1> DEFINE old == btBuf[b]
<1>1. old \in BtBlocks /\ b \in DOMAIN btBuf BY DEF BlocksKept
<1>2. /\ [old EXCEPT !.size = x] = [size |-> x, avail |-> old.avail, recs |-> old.recs]
      /\ [old EXCEPT !.recs = r] = [size |-> old.size, avail |-> old.avail, recs |-> r]
  BY <1>1 DEF BtBlocks
<1>3. /\ [btBuf EXCEPT ![b].size = x] = [btBuf EXCEPT ![b] = [old EXCEPT !.size = x]]
      /\ [btBuf EXCEPT ![b].recs = r] = [btBuf EXCEPT ![b] = [old EXCEPT !.recs = r]]
  OBVIOUS
<1> QED BY <1>2, <1>3

LEMMA BtSet ==
    ASSUME NEW r \in BtRecords, NEW limit \in 0..HashBlockSize,
           NEW avail \in Nat, NEW cur \in Nat
    PROVE  [r EXCEPT !.next = 1, !.limit = limit, !.avail = avail, !.cur = cur] \in BtRecords
<1> DEFINE first == 1
<1>1. first \in Nat \ {0} OBVIOUS
<1>2. [r EXCEPT !.next = first, !.limit = limit, !.avail = avail, !.cur = cur] \in BtRecords
  <2> HIDE DEF first
  <2> QED BY <1>1 DEF BtRecords
<1> QED BY <1>2

LEMMA TreeStep == ASSUME SyncInv, FinderInv, [Next]_vars PROVE TreeKept'
<1>a. /\ HeadsKept /\ TreeKept /\ HashesKept /\ SyncType /\ PcType
      /\ BlocksKept /\ block["bt"] \in 0..(NumBlocks["bt"] - 1)
  BY DEF SyncInv, FinderInv, Control, TreeKept, BlocksKept, BtBlocks, SyncType, Syncs
<1>b. bt \in BtRecords /\ bt.next <= bt.limit + 1 BY <1>a DEF TreeKept, BtRecords
<1>c. BtLimit \in Nat /\ BtLimit + 8 <= BtBlockSize /\ BtBlockSize \in Nat
      /\ NumHashBytes = 4
  BY LimitRoom, FinderParams
<1>d. bt'.cur \in 2..(BtLimit + 4) BY StepRoom DEF Room
<1>e. SUFFICES /\ bt' \in BtRecords /\ bt'.next <= bt'.limit + 1
               /\ pc'["bt"] \in {"filled", "lockhash", "post"} => HeadsDone'
               /\ BlocksKept'
               /\ pc'["bt"] \in BtWriting => Len(btBuf'[block'["bt"]].recs) + 2 <= bt'.cur
  BY DEF TreeKept, BtRecords, BtBlocks, BlocksKept
<1>1. CASE LzStep \/ HashStep \/ WriteFails \/ UNCHANGED vars
  <2>1. BtAlone BY <1>1, OthersLeaveBt
  <2>2. /\ bt' \in BtRecords /\ bt'.next = bt.next /\ bt'.limit = bt.limit /\ bt'.cur = bt.cur
        /\ HeadsDone' <=> HeadsDone
    BY <1>a, <2>1, AloneKeeps
  <2>3. /\ btBuf' = btBuf /\ block'["bt"] = block["bt"]
        /\ pc'["bt"] \in {pc["bt"], "wait"}
    BY <2>1 DEF BtAlone
  <2>4. BlocksKept' BY <1>a, <2>3 DEF BlocksKept
  <2> QED BY <1>a, <1>b, <2>2, <2>3, <2>4 DEF TreeKept, BtWriting
<1>2. CASE BtStart
  <2>1. bt' = bt /\ btBuf' = btBuf /\ pc'["bt"] \in {"end", "next"}
    BY <1>2, <1>a DEF BtStart, Started, Goto, PcType, Threads, finderVars
  <2> QED BY <1>a, <1>b, <2>1 DEF BtWriting, BlocksKept
<1>3. CASE BtTakeFree
  <2>1. /\ pc'["bt"] \in {"stophash", "fill", "lock"} /\ UNCHANGED block
        /\ \/ pc'["bt"] = "stophash" /\ bt' = bt /\ btBuf' = btBuf
           \/ /\ bt' = [bt EXCEPT !.cur = 2, !.num = 0]
              /\ btBuf' = [btBuf EXCEPT ![block["bt"]] =
                              [size |-> 0, avail |-> bt.avail, recs |-> <<>>]]
    BY <1>3, <1>a DEF BtTakeFree, TakeFree, Goto, PcType, Threads
  <2>2. CASE bt' = bt /\ btBuf' = btBuf /\ pc'["bt"] = "stophash"
    BY <1>a, <1>b, <2>2 DEF BtWriting, BlocksKept
  <2>3. CASE /\ bt' = [bt EXCEPT !.cur = 2, !.num = 0]
             /\ btBuf' = [btBuf EXCEPT ![block["bt"]] =
                             [size |-> 0, avail |-> bt.avail, recs |-> <<>>]]
    <3> DEFINE blk == [size |-> 0, avail |-> bt.avail, recs |-> <<>>]
    <3>1. /\ bt' \in BtRecords /\ bt'.next = bt.next /\ bt'.limit = bt.limit /\ bt'.cur = 2
      BY <1>b, <2>3 DEF BtRecords
    <3>2. blk \in BtBlocks /\ Len(blk.recs) = 0 BY <1>b DEF BtBlocks, BtRecords
    <3>3. btBuf' = [btBuf EXCEPT ![block["bt"]] = blk] BY <2>3
    <3> HIDE DEF blk
    <3>5. blk \in BtBlocks /\ Len(blk.recs) <= BtBlockSize BY <1>c, <3>2
    <3>4. BlocksKept' /\ btBuf'[block["bt"]] = blk BY <1>a, <3>3, <3>5, BlockSet
    <3> QED BY <1>b, <2>1, <3>1, <3>2, <3>4
  <2> QED BY <2>1, <2>2, <2>3
<1>4. CASE BtLock \/ BtTake \/ BtStopHash \/ BtHashStopped \/ BtSayStopped
  <2>1. UNCHANGED <<bt, btBuf, block>> BY <1>4, BtSyncSteps
  <2>2. /\ pc'["bt"] \in {"filled", "lockhash", "post"} => pc["bt"] = "filled"
        /\ pc'["bt"] \in BtWriting => pc["bt"] \in BtWriting
    BY <1>4, BtSyncSteps DEF BtWriting
  <2>3. BlocksKept' BY <1>a, <2>1 DEF BlocksKept
  <2> QED BY <1>a, <1>b, <2>1, <2>2, <2>3 DEF TreeKept, HeadsDone
<1>5. CASE BtAsk
  <2>1. HeadsDone /\ UNCHANGED <<bt, btBuf, block>> /\ pc["bt"] = "fill"
    BY <1>5 DEF BtAsk, BtMore, AskFirst, AskNext, finderVars
  <2>2. BlocksKept' BY <1>a, <2>1 DEF BlocksKept
  <2> QED BY <1>a, <1>b, <2>1, <2>2 DEF TreeKept, HeadsDone, BtWriting
<1>6. CASE BtHeader
  <2> DEFINE h == hashBuf[reading["hash"]]
             last == h.avail < NumHashBytes
             rest == [i \in 1..h.avail |-> [at |-> BtAt + i - 1, pairs |-> <<>>]]
             b == block["bt"]
             blk == [size |-> btBuf[b].size, avail |-> bt.num + h.avail,
                     recs |-> IF last THEN btBuf[b].recs \o rest ELSE btBuf[b].recs]
  <2>1. /\ pc["bt"] = "lockhash" /\ UNCHANGED block
        /\ pc'["bt"] = IF last THEN "post" ELSE "fill"
        /\ bt' = [bt EXCEPT !.next = 1, !.limit = Len(h.heads),
                            !.avail = IF last THEN 0 ELSE h.avail,
                            !.cur = IF last THEN @ + h.avail ELSE @]
    BY <1>6, <1>a DEF BtHeader, Lock, Goto, PcType, Threads
  <2>2. h.avail \in Nat /\ Len(h.heads) = IF last THEN 0
          ELSE Least(h.avail - NumHashBytes + 1, HashBlockSize - 2)
    BY <1>a DEF HashesKept, SyncType, Syncs
  <2>3. btBuf' = [btBuf EXCEPT ![b] = blk]
    <3>1. btBuf' = [btBuf EXCEPT ![b].avail = bt.num + h.avail,
                                 ![b].recs = IF last THEN @ \o rest ELSE @]
      BY <1>6 DEF BtHeader
    <3>2. btBuf[b] \in BtBlocks /\ b \in DOMAIN btBuf BY <1>a DEF BlocksKept
    <3> DEFINE recs == IF last THEN btBuf[b].recs \o rest ELSE btBuf[b].recs
    <3> HIDE DEF h, rest, last
    <3>3. btBuf' = [btBuf EXCEPT ![b].avail = bt.num + h.avail, ![b].recs = recs]
      BY <3>1, <3>2 DEF BtBlocks
    <3>4. blk = [size |-> btBuf[b].size, avail |-> bt.num + h.avail, recs |-> recs] OBVIOUS
    <3> DEFINE num == bt.num + h.avail
    <3>5. /\ btBuf' = [btBuf EXCEPT ![b].avail = num, ![b].recs = recs]
          /\ blk = [size |-> btBuf[b].size, avail |-> num, recs |-> recs]
          /\ b \in 0..(NumBlocks["bt"] - 1)
      BY <1>a, <3>3, <3>4
    <3> HIDE DEF recs, blk, num, b, h, last, rest
    <3> DEFINE one == [btBuf[b] EXCEPT !.avail = num]
               f == [btBuf EXCEPT ![b] = one]
    <3>6. one = [size |-> btBuf[b].size, avail |-> num, recs |-> btBuf[b].recs]
      BY <3>2 DEF BtBlocks
    <3>7. f[b] = one /\ b \in DOMAIN f BY <3>2
    <3>8. btBuf' = [f EXCEPT ![b] = [one EXCEPT !.recs = recs]] BY <3>5, <3>7
    <3> HIDE DEF one
    <3>9. [one EXCEPT !.recs = recs] = blk BY <3>5, <3>6
    <3>10. btBuf' = [f EXCEPT ![b] = blk] BY <3>8, <3>9
    <3> QED BY <3>10
  <2>4. rest \in Seq(Records) /\ Len(rest) = h.avail
    <3>1. BtAt \in Int BY <1>b DEF BtAt, BtRecords, FinderInv, WindowKept
    <3>2. \A i \in 1..h.avail : [at |-> BtAt + i - 1, pairs |-> <<>>] \in Records
      BY <2>2, <3>1 DEF Records
    <3> HIDE DEF h
    <3> QED BY <2>2, <3>2
  <2>5. btBuf[b] \in BtBlocks /\ Len(btBuf[b].recs) <= BtBlockSize
        /\ Len(btBuf[b].recs) + 2 <= bt.cur
    BY <1>a, <2>1 DEF BlocksKept, TreeKept, BtWriting
  <2>6. /\ bt' \in BtRecords /\ bt'.next = 1 /\ bt'.limit = Len(h.heads)
        /\ bt'.cur = IF last THEN bt.cur + h.avail ELSE bt.cur
    <3>1. Len(h.heads) \in 0..HashBlockSize
      <4>1. HashBlockSize \in Nat /\ HashBlockSize > 2 BY FinderParams
      <4> HIDE DEF h
      <4> QED BY <1>c, <2>2, <4>1 DEF Least
    <3>2. bt.cur + h.avail \in Nat BY <1>b, <2>2 DEF BtRecords
    <3>3. h.avail \in Nat BY <2>2
    <3> DEFINE av == IF last THEN 0 ELSE h.avail
               cu == IF last THEN bt.cur + h.avail ELSE bt.cur
               li == Len(h.heads)
    <3>4. av \in Nat /\ cu \in Nat /\ li \in 0..HashBlockSize
      BY <1>b, <3>1, <3>2, <3>3 DEF BtRecords
    <3>5. bt' = [bt EXCEPT !.next = 1, !.limit = li, !.avail = av, !.cur = cu] BY <2>1
    <3>6. cu = (IF last THEN bt.cur + h.avail ELSE bt.cur) /\ li = Len(h.heads) OBVIOUS
    <3> HIDE DEF av, cu, li, h, last, rest, b, blk
    <3>7. bt'.next = 1 /\ bt'.limit = li /\ bt'.cur = cu BY <1>b, <3>5 DEF BtRecords
    <3>9. bt' \in BtRecords BY <1>b, <3>4, <3>5, BtSet
    <3> QED BY <3>6, <3>7, <3>9
  <2>7. blk \in BtBlocks /\ Len(blk.recs) + 2 <= bt'.cur
    <3>1. bt.num + h.avail \in Nat BY <1>b, <2>2 DEF BtRecords
    <3>2. btBuf[b].recs \in Seq(Records) /\ btBuf[b].size \in Nat BY <2>5 DEF BtBlocks
    <3>3. btBuf[b].recs \o rest \in Seq(Records)
          /\ Len(btBuf[b].recs \o rest) = Len(btBuf[b].recs) + h.avail
      <4> HIDE DEF rest, h
      <4> QED BY <2>4, <3>2
    <3>4. Len(btBuf[b].recs) \in Nat /\ bt.cur \in Nat BY <1>b, <3>2 DEF BtRecords
    <3> HIDE DEF h, last, rest, b
    <3>5. blk \in BtBlocks BY <3>1, <3>2, <3>3 DEF BtBlocks
    <3>6. Len(blk.recs) = IF last THEN Len(btBuf[b].recs) + h.avail ELSE Len(btBuf[b].recs)
      BY <3>3
    <3> HIDE DEF blk
    <3> QED BY <2>2, <2>5, <2>6, <3>4, <3>5, <3>6
  <2> HIDE DEF blk, rest, b
  <2>8. BlocksKept' /\ btBuf'[b] = blk
    <3>1. Len(blk.recs) \in Nat BY <2>7 DEF BtBlocks
    <3>2. Len(blk.recs) <= BtBlockSize BY <1>c, <1>d, <2>7, <3>1
    <3> QED BY <1>a, <2>3, <2>7, <3>2, BlockSet DEF b
  <2>9. last => HeadsDone' BY <2>2, <2>6 DEF HeadsDone
  <2>10. bt'.next <= bt'.limit + 1 /\ bt'.limit \in Nat BY <2>6 DEF BtRecords
  <2> QED BY <2>1, <2>6, <2>7, <2>8, <2>9, <2>10 DEF b
<1>7. CASE BtChunk
  <2>1. pc["bt"] = "fill" /\ ~HeadsDone /\ UNCHANGED <<pc, block>>
    BY <1>7 DEF BtChunk, BtMore, syncVars
  <2>2. PICK done \in 1..Size, cur \in (bt.cur + 1)..(BtLimit + 2) :
           /\ cur >= bt.cur + done
           /\ \/ bt' = [bt EXCEPT !.failure = TRUE] /\ btBuf' = btBuf
              \/ /\ btBuf' = [btBuf EXCEPT ![block["bt"]].recs =
                                 @ \o [i \in 1..done |-> ChunkRecord(i)]]
                 /\ bt' = [bt EXCEPT !.cur = cur, !.next = @ + done, !.buffer = @ + done,
                                     !.pos = ChunkPos + done, !.num = @ + done,
                                     !.avail = @ - done, !.cyclic = (@ + done) % CyclicSize]
    BY <1>7, Chunk
  <2>3. Len(btBuf[block["bt"]].recs) + 2 <= bt.cur BY <1>a, <2>1 DEF TreeKept, BtWriting
  <2>4. CASE bt' = [bt EXCEPT !.failure = TRUE] /\ btBuf' = btBuf
    <3>1. bt' \in BtRecords /\ bt'.next = bt.next /\ bt'.limit = bt.limit /\ bt'.cur = bt.cur
      BY <1>b, <2>4 DEF BtRecords
    <3>2. BlocksKept' BY <1>a, <2>4 DEF BlocksKept
    <3> QED BY <1>b, <2>1, <2>3, <2>4, <3>1, <3>2
  <2>5. CASE /\ btBuf' = [btBuf EXCEPT ![block["bt"]].recs =
                             @ \o [i \in 1..done |-> ChunkRecord(i)]]
             /\ bt' = [bt EXCEPT !.cur = cur, !.next = @ + done, !.buffer = @ + done,
                                 !.pos = ChunkPos + done, !.num = @ + done,
                                 !.avail = @ - done, !.cyclic = (@ + done) % CyclicSize]
    <3>1. /\ Size \in 1..(bt.limit - bt.next + 1) /\ Size + LenLimit <= bt.avail + 1
          /\ LenLimit \in NumHashBytes..MatchMaxLen
          /\ ChunkPos \in 1..MaxVal /\ ChunkPos + Size <= MaxVal
      BY <2>1, SizeIs
    <3>2. /\ bt.limit \in Nat /\ bt.next \in Nat \ {0} /\ bt.avail \in Nat
          /\ bt.cyclic \in Nat /\ bt.num \in Nat /\ bt.cur \in Nat /\ bt.buffer \in Int
          /\ HistorySize \in Nat /\ MatchMaxLen \in Nat /\ MaxVal \in Nat
      BY <1>b, FinderParams DEF BtRecords
    <3>3. done \in Nat \ {0} /\ done <= Size /\ Size \in Nat BY <3>1, <3>2
    <3>4. /\ bt.next + done \in Nat \ {0} /\ bt.next + done <= bt.limit + 1
          /\ bt.buffer + done \in Int /\ ChunkPos + done \in 1..MaxVal
          /\ bt.num + done \in Nat /\ bt.avail - done \in Nat
          /\ cur \in Nat
      BY <1>c, <3>1, <3>2, <3>3
    <3>5. (bt.cyclic + done) % CyclicSize \in 0..HistorySize
      <4>1. CyclicSize \in Nat \ {0} /\ CyclicSize - 1 = HistorySize BY <3>2 DEF CyclicSize
      <4>2. bt.cyclic + done \in Nat BY <3>2, <3>3
      <4> QED BY <4>1, <4>2
    <3>6. /\ bt' \in BtRecords /\ bt'.next = bt.next + done /\ bt'.limit = bt.limit
          /\ bt'.cur = cur
      <4> DEFINE cyc == (bt.cyclic + done) % CyclicSize
      <4>1. cyc \in 0..HistorySize BY <3>5
      <4>2. bt' = [bt EXCEPT !.cur = cur, !.next = bt.next + done, !.buffer = bt.buffer + done,
                             !.pos = ChunkPos + done, !.num = bt.num + done,
                             !.avail = bt.avail - done, !.cyclic = cyc]
        BY <2>5
      <4> HIDE DEF cyc
      <4> QED BY <1>b, <3>4, <4>1, <4>2 DEF BtRecords
    <3> DEFINE b == block["bt"]
               new == [i \in 1..done |-> ChunkRecord(i)]
               blk == [size |-> btBuf[b].size, avail |-> btBuf[b].avail,
                       recs |-> btBuf[b].recs \o new]
    <3>7. new \in Seq(Records) /\ Len(new) = done
      <4>1. \A i \in 1..done : ChunkRecord(i) \in Records
        <5> TAKE i \in 1..done
        <5>1. BtAt \in Int BY <3>2 DEF BtAt, FinderInv, WindowKept
        <5>2. bt.limit = Len(Heads) BY <1>a, <2>1 DEF HeadsKept
        <5>3. Heads \in Seq(Int) BY <1>a DEF Heads, HashesKept, SyncType, Syncs
        <5>4. bt.next + i - 1 \in 1..Len(Heads)
          <6>1. i \in Nat \ {0} /\ i <= done /\ Size <= bt.limit - bt.next + 1 BY <3>1, <3>3
          <6>2. bt.next + i - 1 \in 1..bt.limit BY <3>2, <3>3, <6>1
          <6> QED BY <5>2, <6>2
        <5>5. Heads[bt.next + i - 1] \in Int BY <5>3, <5>4
        <5>6. BtAt + i - 1 \in Int /\ LenLimit \in Nat BY <1>c, <3>1, <3>2, <5>1
        <5> QED BY <5>5, <5>6, RecordTyped DEF ChunkRecord
      <4> QED BY <3>3, <4>1
    <3>8. btBuf[b] \in BtBlocks BY <1>a DEF BlocksKept
    <3>9. btBuf' = [btBuf EXCEPT ![b] = blk]
      <4>1. btBuf' = [btBuf EXCEPT ![b].recs = @ \o new] BY <2>5
      <4> HIDE DEF new
      <4> DEFINE recs == btBuf[b].recs \o new
      <4>2. btBuf' = [btBuf EXCEPT ![b].recs = recs] BY <4>1
      <4>3. blk = [size |-> btBuf[b].size, avail |-> btBuf[b].avail, recs |-> recs] OBVIOUS
      <4> HIDE DEF recs, blk
      <4> QED BY <1>a, <4>2, <4>3, BlockFields
    <3> HIDE DEF new
    <3>10. /\ blk \in BtBlocks /\ blk.recs = btBuf[b].recs \o new
           /\ Len(blk.recs) = Len(btBuf[b].recs) + done
      <4>1. btBuf[b].recs \in Seq(Records) BY <3>8 DEF BtBlocks
      <4>2. /\ btBuf[b].recs \o new \in Seq(Records)
            /\ Len(btBuf[b].recs \o new) = Len(btBuf[b].recs) + done
        BY <3>7, <4>1
      <4> QED BY <3>8, <4>2 DEF BtBlocks
    <3> HIDE DEF blk, b
    <3>11. Len(btBuf[b].recs) \in Nat BY <3>8 DEF BtBlocks
    <3>12. Len(blk.recs) + 2 <= cur
      <4>1. cur >= bt.cur + done /\ Len(btBuf[b].recs) + 2 <= bt.cur BY <2>2, <2>3 DEF b
      <4>2. Len(blk.recs) = Len(btBuf[b].recs) + done BY <3>10
      <4>3. cur \in Nat /\ done \in Nat /\ bt.cur \in Nat BY <3>2, <3>3, <3>4
      <4> QED BY <3>11, <4>1, <4>2, <4>3
    <3>13. BlocksKept' /\ btBuf'[b] = blk
      <4>1. Len(blk.recs) <= BtBlockSize BY <1>c, <3>3, <3>10, <3>11, <3>12
      <4> QED BY <1>a, <3>9, <3>10, <4>1, BlockSet DEF b
    <3> QED BY <2>1, <3>4, <3>6, <3>12, <3>13 DEF b
  <2> QED BY <2>2, <2>4, <2>5
<1>8. CASE BtPost
  <2> DEFINE blk == [size |-> IF bt.failure THEN 0 ELSE bt.cur,
                     avail |-> btBuf[block["bt"]].avail, recs |-> btBuf[block["bt"]].recs]
  <2>1. /\ pc'["bt"] = "next" /\ bt' = bt
        /\ btBuf' = [btBuf EXCEPT ![block["bt"]].size = IF bt.failure THEN 0 ELSE bt.cur]
    BY <1>8, <1>a DEF BtPost, Goto, PcType, Threads
  <2>2. btBuf[block["bt"]] \in BtBlocks /\ Len(btBuf[block["bt"]].recs) <= BtBlockSize
    BY <1>a DEF BlocksKept
  <2>3. btBuf' = [btBuf EXCEPT ![block["bt"]] = blk]
    BY <1>a, <2>1, BlockFields
  <2>4. blk \in BtBlocks /\ Len(blk.recs) <= BtBlockSize
    BY <1>b, <2>2 DEF BtBlocks, BtRecords
  <2> HIDE DEF blk
  <2>5. BlocksKept' BY <1>a, <2>3, <2>4, BlockSet
  <2> QED BY <1>b, <2>1, <2>5 DEF BtWriting
<1> QED BY <1>1, <1>2, <1>3, <1>4, <1>5, <1>6, <1>7, <1>8 DEF Next, ThreadStep, BtStep

-----------------------------------------------------------------------------
(* The encoder *)

Results == {"ok", "thread", "read", "write", "internal"}
LzRecords ==
    [buffer : Int, pos : 1..MaxVal, next : Nat \ {0}, limit : Nat, avail : Nat,
     failure : BOOLEAN]

\* Its positions do not overflow within a block.
LzFits == lz.next <= lz.limit + 1 /\ lz.pos + (lz.limit - lz.next + 1) <= MaxVal

LEMMA CoderParts ==
    CoderKept <=> lz \in LzRecords /\ LzFits /\ rcFailed \in BOOLEAN /\ result \in Results
BY DEF CoderKept, LzRecords, LzFits, Results

LEMMA CoderStep == ASSUME SyncInv, FinderInv, [Next]_vars PROVE CoderKept'
<1>a. lz \in LzRecords /\ LzFits /\ rcFailed \in BOOLEAN /\ result \in Results
  BY CoderParts DEF FinderInv
<1>b. CoderKept' <=> /\ lz' \in LzRecords /\ LzFits'
                     /\ rcFailed' \in BOOLEAN /\ result' \in Results
  BY DEF CoderKept, LzRecords, LzFits, Results
<1>c. MaxVal \in Nat /\ HistorySize \in Nat /\ BtBlockSize \in Nat
      /\ MaxVal > HistorySize + 1 + BtBlockSize
  BY FinderParams
<1>d. /\ lz.pos \in 1..MaxVal /\ lz.next \in Nat \ {0} /\ lz.limit \in Nat /\ lz.avail \in Nat
      /\ lz.buffer \in Int
  BY <1>a DEF LzRecords
<1>e. mf.result \in {"ok", "read"} BY DEF FinderInv, WindowKept
<1>f. \A failed : CheckErrors(failed) \in Results BY DEF CheckErrors, Results
<1>1. CASE UNCHANGED <<lz, rcFailed, result>>
  BY <1>a, <1>b, <1>1 DEF LzFits
<1>2. CASE CreateFails \/ StopOnError \/ Flush \/ WriteFails
  <2>1. lz' = lz /\ rcFailed' \in BOOLEAN /\ result' \in Results
    <3>1. CASE CreateFails BY <1>a, <3>1 DEF CreateFails, Results
    <3>2. CASE StopOnError BY <1>a, <1>f, <3>2 DEF StopOnError
    <3>3. CASE Flush
      <4>1. PICK failed \in {rcFailed, TRUE} : rcFailed' = failed /\ result' = CheckErrors(failed)
        BY <3>3 DEF Flush
      <4> QED BY <1>a, <1>f, <3>3, <4>1 DEF Flush
    <3>4. CASE WriteFails BY <1>a, <3>4 DEF WriteFails
    <3> QED BY <1>2, <3>1, <3>2, <3>3, <3>4
  <2> QED BY <1>a, <1>b, <2>1 DEF LzFits
<1>3. CASE LzHeader
  <2> DEFINE b == btBuf[reading["bt"]]
             p == LzNormalize(lz.pos, hash.low).pos
             l == Len(b.recs)
             f == lz.failure \/ b.size < 2 \/ b.size > BtBlockSize
  <2>1. b.avail \in Nat /\ l \in Nat /\ l <= BtBlockSize
    <3>1. reading["bt"] \in 0..(NumBlocks["bt"] - 1)
      BY DEF SyncInv, Control, SyncType, Syncs
    <3>2. b \in BtBlocks /\ Len(b.recs) <= BtBlockSize
      BY <3>1 DEF FinderInv, TreeKept, BtBlocks
    <3> HIDE DEF b
    <3> QED BY <3>2 DEF BtBlocks
  <2>2. p \in 1..MaxVal /\ p + l <= MaxVal
    <3>1. p = IF lz.pos >= MaxVal - BtBlockSize THEN lz.pos - (lz.pos - HistorySize - 1) ELSE lz.pos
      BY DEF LzNormalize
    <3> HIDE DEF p, l
    <3> QED BY <1>c, <1>d, <2>1, <3>1
  <2> DEFINE a == b.avail
  <2>3. f \in BOOLEAN /\ p \in 1..MaxVal /\ a \in Nat /\ l \in Nat BY <2>1, <2>2
  <2>4. /\ lz' = [lz EXCEPT !.next = 1, !.limit = l, !.avail = a, !.pos = p, !.failure = f]
        /\ UNCHANGED <<rcFailed, result>>
    BY <1>3 DEF LzHeader
  <2> DEFINE first == 1
  <2>5. first \in Nat \ {0}
        /\ lz' = [lz EXCEPT !.next = first, !.limit = l, !.avail = a, !.pos = p, !.failure = f]
    BY <2>4
  <2>6. first = 1 OBVIOUS
  <2> HIDE DEF first, l, a, p, f, b
  <2>7. lz' \in LzRecords BY <1>a, <2>3, <2>5 DEF LzRecords
  <2>8. lz'.next = first /\ lz'.limit = l /\ lz'.pos = p BY <1>a, <2>5 DEF LzRecords
  <2>9. LzFits' BY <1>c, <2>2, <2>3, <2>6, <2>8 DEF LzFits
  <2> QED BY <1>a, <1>b, <2>4, <2>7, <2>9
<1>4. CASE GetMatches \/ Skip
  <2>1. ~RecsDone /\ lz.avail > 0 /\ Advance /\ UNCHANGED <<rcFailed, result>>
    BY <1>4 DEF GetMatches, Skip, CodeOne
  <2>2. /\ lz.pos + 1 \in 1..MaxVal /\ lz.buffer + 1 \in Int /\ lz.avail - 1 \in Nat
        /\ lz.next + 1 \in Nat \ {0} /\ lz.next <= lz.limit
    BY <1>a, <1>c, <1>d, <2>1 DEF RecsDone, LzFits
  <2> DEFINE p == lz.pos + 1
             u == lz.buffer + 1
             a == lz.avail - 1
             n == lz.next + 1
  <2>3. /\ lz' = [lz EXCEPT !.pos = p, !.buffer = u, !.avail = a, !.next = n]
        /\ p \in 1..MaxVal /\ u \in Int /\ a \in Nat /\ n \in Nat \ {0}
        /\ p = lz.pos + 1 /\ n = lz.next + 1
    BY <2>1, <2>2 DEF Advance
  <2> HIDE DEF p, u, a, n
  <2>4. lz' \in LzRecords BY <1>a, <2>3 DEF LzRecords
  <2>5. lz'.pos = lz.pos + 1 /\ lz'.next = lz.next + 1 /\ lz'.limit = lz.limit
    BY <1>a, <2>3 DEF LzRecords
  <2>6. LzFits' BY <1>a, <1>c, <1>d, <2>2, <2>5 DEF LzFits
  <2> QED BY <1>a, <1>b, <2>1, <2>4, <2>6
<1>5. CASE HashMove
  <2> DEFINE moved == mf.buffer - KeepBefore - ((mf.buffer - KeepBefore) % MoveAlign)
             u == lz.buffer - moved
  <2>1. NeedMove /\ MoveBlock /\ UNCHANGED <<rcFailed, result>>
    BY <1>5 DEF HashMove, FinderInv, WindowKept
  <2>2. base \in Nat \ {0} /\ mf \in MfRecords BY DEF FinderInv, WindowKept, MfRecords
  <2>3. moved \in Nat /\ lz' = [lz EXCEPT !.buffer = lz.buffer - moved]
    BY <2>1, <2>2, MoveKeeps DEF MfRecords
  <2>4. u \in Int /\ lz' = [lz EXCEPT !.buffer = u]
    <3> HIDE DEF moved
    <3> QED BY <1>d, <2>3
  <2> HIDE DEF u
  <2>5. /\ lz' \in LzRecords /\ lz'.next = lz.next /\ lz'.limit = lz.limit /\ lz'.pos = lz.pos
    BY <1>a, <2>4 DEF LzRecords
  <2> QED BY <1>a, <1>b, <2>1, <2>5 DEF LzFits
<1>6. ASSUME LzStep,
             ~(CreateFails \/ StopOnError \/ Flush \/ LzHeader \/ GetMatches \/ Skip)
      PROVE  UNCHANGED <<lz, rcFailed, result>>
  BY <1>6 DEF LzStep, CreateHash, CreateBt, InitFinder, AskBlock, TakeBlock, Finish, Finished,
     DestroyNone, Destroy, Joined, finderVars
<1>7. ASSUME BtStep PROVE UNCHANGED <<lz, rcFailed, result>>
  BY <1>7 DEF BtStep, BtStart, BtTakeFree, BtLock, BtAsk, BtTake, BtHeader, BtChunk, BtPost,
     BtStopHash, BtHashStopped, BtSayStopped, finderVars
<1>8. ASSUME HashStep, ~HashMove PROVE UNCHANGED <<lz, rcFailed, result>>
  BY <1>8 DEF HashStep, HashStart, HashLockBt, HashLockHash, HashTakeFree, HashFill,
     HashSayStopped, finderVars
<1>9. UNCHANGED vars => UNCHANGED <<lz, rcFailed, result>> BY DEF vars, finderVars
<1> QED BY <1>1, <1>2, <1>3, <1>4, <1>5, <1>6, <1>7, <1>8, <1>9 DEF Next, ThreadStep

-----------------------------------------------------------------------------
(* The inductive invariant *)

LEMMA StepsKeep == ASSUME SyncInv, FinderInv, [Next]_vars PROVE SyncInv' /\ FinderInv'
BY StepControl, StepRings, StepRoom, WindowStep, HashesStep, HeadsStep, TreeStep, CoderStep
   DEF SyncInv, FinderInv

LEMMA SyncStarts == LzInit => SyncInv
<1> SUFFICES ASSUME LzInit PROVE SyncInv OBVIOUS
<1>1. SyncType
  <2>1. /\ \A s \in Syncs : NumBlocks[s] \in Nat \ {0} /\ 0 \in 0..NumBlocks[s]
                           /\ 0 \in 0..(NumBlocks[s] - 1)
    BY RingsHaveRoom
  <2>2. /\ {free, filled, numProcessed, block, reading} \subseteq [Syncs -> Nat]
        /\ \A s \in Syncs : free[s] = 0 /\ filled[s] = 0 /\ numProcessed[s] = 0
                            /\ block[s] = 0 /\ reading[s] = 0
    BY DEF LzInit, SyncInit
  <2>3. /\ thread \in [Syncs -> {"none", "live", "joined"}]
        /\ {canStart, wasStopped, needStart, exit, stopWriting, csWasEntered}
              \subseteq [Syncs -> BOOLEAN]
        /\ cs \in [Syncs -> Threads \union {"nobody"}] /\ aborted \in BOOLEAN
    BY DEF LzInit, SyncInit
  <2> QED BY <2>1, <2>2, <2>3 DEF SyncType
<1>2. PcType BY DEF LzInit, SyncInit, PcType, Threads, LzLabels, BtLabels, HashLabels
<1>3. /\ pc["lz"] = "create" /\ pc["bt"] = "off" /\ pc["hash"] = "off"
      /\ \A s \in Syncs :
            /\ thread[s] = "none" /\ needStart[s] /\ ~canStart[s] /\ ~wasStopped[s]
            /\ ~stopWriting[s] /\ ~csWasEntered[s] /\ cs[s] = "nobody" /\ block[s] = 0
      /\ ~aborted
  BY DEF LzInit, SyncInit, Threads
<1>4. Control
  BY <1>1, <1>2, <1>3 DEF Control, Lives, BtRuns, HashRuns, Locks, LzBefore, LzCoding, LzAfter,
     BtWriting, Syncs
<1>5. Rings BY <1>3 DEF Rings, Ring, LzBefore, Syncs
<1>6. Room BY LimitRoom DEF LzInit, Room, HeadsDone
<1> QED BY <1>4, <1>5, <1>6 DEF SyncInv

LEMMA FinderStarts == LzInit => FinderInv
<1> SUFFICES ASSUME LzInit PROVE FinderInv OBVIOUS
<1>a. /\ HistorySize \in Nat \ {0} /\ MaxVal \in Nat /\ MaxVal > 1 /\ BtBlockSize \in Nat
      /\ HashBlockSize \in Nat /\ NumHashBytes = 4
  BY FinderParams
<1>b. pc["lz"] = "create" /\ pc["bt"] = "off" /\ pc["hash"] = "off"
  BY DEF LzInit, SyncInit, Threads
<1>1. WindowKept
  <2>1. Past \in Nat \ {0} BY FinderParams DEF Past
  <2> QED BY <1>a, <1>b, <2>1, Sizes DEF LzInit, WindowKept, Loaded, HashAt
<1>2. HashesKept BY <1>a DEF LzInit, HashesKept, Empty
<1>3. HeadsKept BY <1>b DEF HeadsKept
<1>4. TreeKept
  <2>1. bt \in BtRecords /\ bt.next <= bt.limit + 1 BY <1>a DEF LzInit, BtRecords
  <2>2. BlocksKept BY <1>a DEF LzInit, BlocksKept, BtBlocks
  <2> QED BY <1>b, <2>1, <2>2 DEF TreeKept, BtRecords, BlocksKept, BtBlocks, BtWriting
<1>5. CoderKept
  <2>1. /\ lz = [buffer |-> 0, pos |-> 1, next |-> 1, limit |-> 0, avail |-> 0, failure |-> FALSE]
        /\ rcFailed = FALSE /\ result = "ok"
    BY DEF LzInit
  <2>2. lz \in LzRecords BY <1>a, <2>1 DEF LzRecords
  <2>3. LzFits BY <1>a, <2>1 DEF LzFits
  <2> QED BY <2>1, <2>2, <2>3, CoderParts DEF Results
<1> QED BY <1>1, <1>2, <1>3, <1>4, <1>5 DEF FinderInv

LEMMA Inductive == Spec => [](SyncInv /\ FinderInv)
<1>1. LzInit => SyncInv /\ FinderInv BY SyncStarts, FinderStarts
<1>2. (SyncInv /\ FinderInv) /\ [Next]_vars => (SyncInv /\ FinderInv)' BY StepsKeep
<1> QED BY <1>1, <1>2, PTL DEF Spec

-----------------------------------------------------------------------------
(* Theorems *)

\* The threads are where the code can be, the window is within its block of memory and
\* within the file, and the positions and table entries within 0..kMtMaxValForNormalize:
\* moved and renumbered, they never overflow (LzFindMt.c, LzFind.c).
THEOREM TypeCorrect == Spec => []TypeOK
<1>1. SyncInv /\ FinderInv => TypeOK
  <2> SUFFICES ASSUME SyncInv, FinderInv PROVE TypeOK OBVIOUS
  <2>1. SyncType /\ PcType BY DEF SyncInv, Control
  <2>2. base \in 1..(Len(Text) + 1)
    <3>1. base \in Nat \ {0} /\ mf.buffer \in Nat /\ mf.avail \in Nat
      BY DEF FinderInv, WindowKept
    <3>2. base <= Past BY <3>1, PastIsNat DEF FinderInv, WindowKept, Loaded, HashAt
    <3> QED BY <3>1, <3>2, PastIsNat DEF Past
  <2>3. mf \in [buffer : 0..BlockSize, avail : 0..BlockSize, pos : 0..MaxVal, eof : BOOLEAN,
                result : {"ok", "read"}]
    <3>1. mf.buffer \in 0..BlockSize /\ mf.avail \in 0..BlockSize
      BY Sizes DEF FinderInv, WindowKept
    <3> QED BY <3>1 DEF FinderInv, WindowKept
  <2>4. /\ hash.high \in [HighKeys -> 0..MaxVal] /\ hash.low \in [LowKeys -> 0..MaxVal]
        /\ bt.pos \in 1..MaxVal /\ lz.pos \in 1..MaxVal /\ bt.cyclic \in 0..HistorySize
        /\ result \in {"ok", "thread", "read", "write", "internal"}
    BY DEF FinderInv, HashesKept, TreeKept, CoderKept
  <2> QED BY <2>1, <2>2, <2>3, <2>4 DEF TypeOK
<1> QED BY <1>1, Inductive, PTL

\* When lzma_main returns neither thread is left: LzmaEnc_Destroy has waited for both,
\* whichever of the ways the compression ended.
THEOREM ThreadsAreGone == Spec => []ThreadsGone
<1>1. SyncInv => ThreadsGone
  BY DEF SyncInv, Control, Lives, ThreadsGone, SyncType, PcType, Syncs
<1> QED BY <1>1, Inductive, PTL

\* No thread writes a block that another reads, the window does not move while it is
\* used, no lock assertion fails, and no block is written past its end: whatever the
\* order of the threads, and whenever one of them is stopped.
THEOREM NoRaces == Spec => []NoRace
<1>1. SyncInv /\ FinderInv => NoRace
  <2> SUFFICES ASSUME SyncInv, FinderInv PROVE NoRace OBVIOUS
  <2>a. /\ SyncType /\ BtRuns /\ HashRuns /\ Locks /\ Lives /\ Ring("hash") /\ Ring("bt")
        /\ Room
    BY DEF SyncInv, Control, Rings
  <2>1. ~aborted BY <2>a DEF Locks
  <2>2. ASSUME pc["hash"] = "fill", pc["bt"] \in {"fill", "lock"}, ~needStart["hash"]
        PROVE  block["hash"] # reading["hash"]
    <3>1. ~stopWriting["hash"] BY <2>a, <2>2 DEF HashRuns
    <3> QED BY <2>a, <2>2, <3>1, RingApart DEF Held, Writing, Syncs
  <2>3. ASSUME pc["bt"] \in {"fill", "lock", "filled", "lockhash", "post"}, pc["lz"] = "code"
        PROVE  block["bt"] # reading["bt"]
    <3>1. ~stopWriting["bt"] /\ ~needStart["bt"]
      BY <2>a, <2>3 DEF BtRuns, LzBefore, LzCoding, LzAfter
    <3> QED BY <2>a, <2>3, <3>1, RingApart DEF Held, Writing, Syncs, BtWriting
  <2>4. ASSUME pc["hash"] = "move" PROVE pc["lz"] # "code" /\ pc["bt"] \notin {"fill", "post"}
    <3>1. cs["bt"] = "hash" /\ cs["hash"] = "hash" BY <2>a, <2>4 DEF Locks
    <3>2. ~csWasEntered["bt"] /\ ~csWasEntered["hash"] BY <2>a, <3>1 DEF Locks
    <3>3. ~needStart["hash"] BY <2>a, <2>4 DEF HashRuns
    <3> QED BY <2>a, <3>2, <3>3 DEF Locks
  <2>5. bt.cur <= BtBlockSize BY <2>a, LimitRoom, FinderParams DEF Room
  <2> QED BY <2>1, <2>2, <2>3, <2>4, <2>5 DEF NoRace
<1> QED BY <1>1, Inductive, PTL

==============================================================================
