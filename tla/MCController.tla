---------------------------- MODULE MCController ----------------------------
(***************************************************************************)
(* Small instance of Controller: a key of the first bit of a pad, which is *)
(* also read while the strobe is high, and one of the last bit.  Events    *)
(* may be added while they are polled, so that one place in the queue is   *)
(* enough for a key pressed and released between two frames.               *)
(***************************************************************************)
EXTENDS Controller

SomeKeys == {"x", "right"}
=============================================================================
