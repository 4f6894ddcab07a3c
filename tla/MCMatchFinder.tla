--------------------------- MODULE MCMatchFinder ---------------------------
(* A file of 71 bytes and a dictionary of 2: the window is moved, and the   *)
(* positions of all three threads are renumbered, more than once.          *)
EXTENDS LzmaEncMt

MCText ==
    <<0, 1, 0, 1, 0, 1, 0, 1, 1, 1, 1, 1, 1, 0, 2, 0, 2, 0, 2, 2, 0, 0, 0, 0, 0, 0, 0, 1, 2, 1,
      2, 1, 2, 1, 0, 2, 2, 2, 2, 2, 2, 2, 0, 1, 2, 0, 1, 1, 1, 1, 1, 1, 1, 0, 1, 0, 1, 0, 1, 2,
      1, 0, 2, 1, 2, 0, 0, 0, 0, 0, 0>>

MCNumBlocks == [s \in Syncs |-> 2]

=============================================================================
