---------------------------- MODULE MCFrameLoop ----------------------------
(***************************************************************************)
(* Instances of FrameLoop.  FrameLoop.cfg has one visible line between two *)
(* blank ones, the vertical blank, one line in it, and the last line, each *)
(* as short as CostAssumption allows: a CPU step may reach any part of any *)
(* line, and every branch of Ppu::run is taken.  FrameReal.cfg has the     *)
(* constants of the code.                                                  *)
(***************************************************************************)
EXTENDS FrameLoop
=============================================================================
