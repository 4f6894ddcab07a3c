------------------------------- MODULE MtSync -------------------------------
(***************************************************************************)
(* CMtSync (LzFindMt.c:78-278) and the primitives it is built on           *)
(* (Threads.c): how a writing thread hands blocks of a ring to the thread  *)
(* that reads them, and how it is started, stopped and ended.              *)
(*                                                                         *)
(* There are two of them: the hash thread writes for the binary tree       *)
(* thread, which writes for the encoder.  The reader locks the buffer      *)
(* while it uses a block; the lock is there for MatchFinder_MoveBlock,     *)
(* not for the ring.                                                       *)
(***************************************************************************)
EXTENDS Integers

CONSTANT NumBlocks              \* blocks of each ring: kMtHashNumBlocks, kMtBtNumBlocks

Syncs == {"hash", "bt"}
Threads == {"lz", "bt", "hash"}

\* Who writes and who reads the blocks of a ring.
Writer(s) == s
Reader(s) == IF s = "hash" THEN "bt" ELSE "lz"

ASSUME RingsHaveRoom == NumBlocks \in [Syncs -> Nat \ {0}]

VARIABLES
    pc,
    thread,                     \* none, live, or joined
    free, filled,               \* the two semaphores
    canStart, wasStopped,       \* auto reset events
    needStart, exit, stopWriting,
    numProcessed,
    cs, csWasEntered,           \* the critical section, and who thinks he is in it
    block,                      \* the number of the block a thread writes, modulo the ring
    reading,                    \* the block the reader of a ring has, or is about to have
    aborted                     \* a BUFFER_MUST_BE assertion ended the process

syncVars == <<pc, thread, free, filled, canStart, wasStopped, needStart, exit,
              stopWriting, numProcessed, cs, csWasEntered, block, reading, aborted>>

\* Where the threads are is typed with their actions, in LzmaEncMt.
SyncType ==
    /\ thread \in [Syncs -> {"none", "live", "joined"}]
    /\ {free, filled, numProcessed, block, reading} \subseteq [Syncs -> Nat]
    /\ \A s \in Syncs : free[s] \in 0..NumBlocks[s] /\ filled[s] \in 0..NumBlocks[s]
    /\ canStart \in [Syncs -> BOOLEAN] /\ wasStopped \in [Syncs -> BOOLEAN]
    /\ needStart \in [Syncs -> BOOLEAN] /\ exit \in [Syncs -> BOOLEAN]
    /\ stopWriting \in [Syncs -> BOOLEAN]
    /\ \A s \in Syncs : numProcessed[s] \in 0..(NumBlocks[s] - 1)
    /\ cs \in [Syncs -> Threads \union {"nobody"}]
    /\ csWasEntered \in [Syncs -> BOOLEAN]
    /\ \A s \in Syncs : block[s] \in 0..(NumBlocks[s] - 1)
    /\ \A s \in Syncs : reading[s] \in 0..(NumBlocks[s] - 1)
    /\ aborted \in BOOLEAN

SyncInit ==
    /\ pc = [t \in Threads |-> IF t = "lz" THEN "create" ELSE "off"]
    /\ thread = [s \in Syncs |-> "none"]
    /\ free = [s \in Syncs |-> 0] /\ filled = [s \in Syncs |-> 0]
    /\ canStart = [s \in Syncs |-> FALSE] /\ wasStopped = [s \in Syncs |-> FALSE]
    /\ needStart = [s \in Syncs |-> TRUE] /\ exit = [s \in Syncs |-> TRUE]
    /\ stopWriting = [s \in Syncs |-> FALSE]
    /\ numProcessed = [s \in Syncs |-> 0]
    /\ cs = [s \in Syncs |-> "nobody"] /\ csWasEntered = [s \in Syncs |-> FALSE]
    /\ block = [s \in Syncs |-> 0] /\ reading = [s \in Syncs |-> 0]
    /\ aborted = FALSE

Goto(t, label) == pc' = [pc EXCEPT ![t] = label]
NextOf(s, n) == (n + 1) % NumBlocks[s]

\* Semaphore_Release1: refused, and nobody looks, when the count is at its maximum.
Release(sem, s) == [sem EXCEPT ![s] = IF @ < NumBlocks[s] THEN @ + 1 ELSE @]

-----------------------------------------------------------------------------
(* The life of a writing thread, seen by the thread that made it *)

\* MtSync_Create
Create(s) ==
    /\ thread' = [thread EXCEPT ![s] = "live"]
    /\ needStart' = [needStart EXCEPT ![s] = TRUE]
    /\ exit' = [exit EXCEPT ![s] = TRUE]

\* MtSync_Init, of both: needs stopped threads.
InitSemaphores ==
    /\ \A s \in Syncs : needStart[s] /\ ~csWasEntered[s]
    /\ free' = NumBlocks
    /\ filled' = [s \in Syncs |-> 0]

\* The first half of MtSync_StopWriting, in thread t.
MustStop(s) == thread[s] = "live" /\ ~needStart[s]

StopWriting(t, s) ==
    /\ IF csWasEntered[s]
       THEN /\ cs' = [cs EXCEPT ![s] = "nobody"]
            /\ csWasEntered' = [csWasEntered EXCEPT ![s] = FALSE]
       ELSE UNCHANGED <<cs, csWasEntered>>
    /\ stopWriting' = [stopWriting EXCEPT ![s] = TRUE]
    /\ free' = Release(free, s)
    /\ UNCHANGED <<thread, filled, canStart, wasStopped, needStart, exit, numProcessed,
                   block, reading, aborted>>

\* The second half, after Event_Wait.
Stopped(s) ==
    /\ wasStopped[s]
    /\ wasStopped' = [wasStopped EXCEPT ![s] = FALSE]
    /\ needStart' = [needStart EXCEPT ![s] = TRUE]
    /\ UNCHANGED <<thread, free, filled, canStart, exit, stopWriting, numProcessed,
                   cs, csWasEntered, block, reading, aborted>>

\* MtSync_Destruct of a stopped thread, up to its end.
SendExit(s) ==
    /\ exit' = [exit EXCEPT ![s] = TRUE]
    /\ canStart' = [canStart EXCEPT ![s] = TRUE]
    /\ UNCHANGED <<thread, free, filled, wasStopped, needStart, stopWriting, numProcessed,
                   cs, csWasEntered, block, reading, aborted>>

\* Mutant: nobody waits for the thread.
Join_noWait(s) ==
    /\ thread' = [thread EXCEPT ![s] = "joined"]
    /\ UNCHANGED <<free, filled, canStart, wasStopped, needStart, exit, stopWriting,
                   numProcessed, cs, csWasEntered, block, reading, aborted>>

Join(s) ==
    /\ pc[Writer(s)] = "end"
    /\ thread' = [thread EXCEPT ![s] = "joined"]
    /\ UNCHANGED <<free, filled, canStart, wasStopped, needStart, exit, stopWriting,
                   numProcessed, cs, csWasEntered, block, reading, aborted>>

-----------------------------------------------------------------------------
(* The reader: MtSync_GetNextBlock *)

\* The writer is started: it waits for canStart and sees none of this before.
AskFirst(s) ==
    /\ needStart[s]
    /\ aborted' = (aborted \/ csWasEntered[s])
    /\ numProcessed' = [numProcessed EXCEPT ![s] = NextOf(s, 0)]
    /\ reading' = [reading EXCEPT ![s] = 0]
    /\ needStart' = [needStart EXCEPT ![s] = FALSE]
    /\ exit' = [exit EXCEPT ![s] = FALSE]
    /\ stopWriting' = [stopWriting EXCEPT ![s] = FALSE]
    /\ wasStopped' = [wasStopped EXCEPT ![s] = FALSE]
    /\ canStart' = [canStart EXCEPT ![s] = TRUE]
    /\ UNCHANGED <<thread, free, filled, cs, csWasEntered, block>>

\* Mutant: the block is given back while it is going to be read.
AskNext_noCount(s) ==
    /\ ~needStart[s]
    /\ aborted' = (aborted \/ ~csWasEntered[s])
    /\ cs' = [cs EXCEPT ![s] = "nobody"]
    /\ csWasEntered' = [csWasEntered EXCEPT ![s] = FALSE]
    /\ reading' = [reading EXCEPT ![s] = numProcessed[s]]
    /\ free' = Release(free, s)
    /\ UNCHANGED <<thread, filled, canStart, wasStopped, needStart, exit, stopWriting,
                   block, numProcessed>>

\* The block in use is given back.  Unlocking and releasing commute with what the
\* other threads may do in between.
AskNext(s) ==
    /\ ~needStart[s]
    /\ aborted' = (aborted \/ ~csWasEntered[s])
    /\ cs' = [cs EXCEPT ![s] = "nobody"]
    /\ csWasEntered' = [csWasEntered EXCEPT ![s] = FALSE]
    /\ reading' = [reading EXCEPT ![s] = numProcessed[s]]
    /\ numProcessed' = [numProcessed EXCEPT ![s] = NextOf(s, @)]
    /\ free' = Release(free, s)
    /\ UNCHANGED <<thread, filled, canStart, wasStopped, needStart, exit, stopWriting, block>>

TakeFilled(s) ==
    /\ filled[s] > 0
    /\ filled' = [filled EXCEPT ![s] = @ - 1]
    /\ UNCHANGED <<thread, free, canStart, wasStopped, needStart, exit, stopWriting,
                   numProcessed, cs, csWasEntered, block, reading, aborted>>

\* LOCK_BUFFER
Lock(t, s) ==
    /\ cs[s] = "nobody"
    /\ aborted' = (aborted \/ csWasEntered[s])
    /\ cs' = [cs EXCEPT ![s] = t]
    /\ csWasEntered' = [csWasEntered EXCEPT ![s] = TRUE]
    /\ UNCHANGED <<thread, free, filled, canStart, wasStopped, needStart, exit, stopWriting,
                   numProcessed, block, reading>>

-----------------------------------------------------------------------------
(* The writer *)

\* Out of Event_Wait(canStart): begin at block 0, or end.
Started(s) ==
    /\ pc[s] = "wait" /\ canStart[s]
    /\ canStart' = [canStart EXCEPT ![s] = FALSE]
    /\ block' = [block EXCEPT ![s] = 0]
    /\ UNCHANGED <<thread, free, filled, wasStopped, needStart, exit, stopWriting,
                   numProcessed, cs, csWasEntered, reading, aborted>>

TakeFree(s) ==
    /\ free[s] > 0
    /\ free' = [free EXCEPT ![s] = @ - 1]
    /\ UNCHANGED <<thread, filled, canStart, wasStopped, needStart, exit, stopWriting,
                   numProcessed, cs, csWasEntered, block, reading, aborted>>

\* The block is written: blockIndex++ and Semaphore_Release1(filledSemaphore).
Post(s) ==
    /\ block' = [block EXCEPT ![s] = NextOf(s, @)]
    /\ filled' = Release(filled, s)

SayStopped(s) ==
    /\ wasStopped' = [wasStopped EXCEPT ![s] = TRUE]
    /\ UNCHANGED <<thread, free, filled, canStart, needStart, exit, stopWriting,
                   numProcessed, cs, csWasEntered, block, reading, aborted>>

=============================================================================
