---------------------------- MODULE MCSequencer ----------------------------
(***************************************************************************)
(* A small instance of Sequencer: steps six cycles apart, time frames of   *)
(* about three steps, bytes of two bits.                                   *)
(***************************************************************************)
EXTENDS Sequencer

\* Up and down.
SomeSweeps ==
    {[on |-> TRUE, down |-> down, shift |-> 1, rate |-> 0] : down \in BOOLEAN}
=============================================================================
