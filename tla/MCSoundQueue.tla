---------------------------- MODULE MCSoundQueue ----------------------------
(***************************************************************************)
(* Small instances of SoundQueue: the three blocks of the code, with two or*)
(* three samples each, so that a write may end inside a block, at its end, *)
(* and span several blocks.                                                *)
(***************************************************************************)
EXTENDS SoundQueue

\* Shorter than a block, and longer than a block and its neighbour.
WriteCounts == {1, 5}

LongerCounts == {1, 2, 7}
=============================================================================
