---------------------------- MODULE AudioStream ----------------------------
(***************************************************************************)
(* What the sound queue promises to the main loop and to the audio device. *)
(* The device hears every block of samples once, whole and in order, with  *)
(* silence only while no finished block is waiting; and the queue holds    *)
(* fewer than Blocks blocks besides the one being filled.                  *)
(***************************************************************************)
EXTENDS Naturals

CONSTANTS
    Blocks,         \* blocks of memory in the queue
    BlockSize       \* samples of a block

VARIABLES
    filled,         \* blocks filled so far
    part,           \* samples already in the block being filled
    published,      \* blocks the device may take
    heard,          \* blocks the device has taken
    output          \* what the device was given last

vars == <<filled, part, published, heard, output>>

Silent == [i \in 0..(BlockSize - 1) |-> <<>>]

\* Block b as the main loop wrote it: sample i of it is <<b, i>>.
Block(b) == [i \in 0..(BlockSize - 1) |-> <<b, i>>]

Init ==
    /\ filled = 0 /\ part = 0 /\ published = 0 /\ heard = 0
    /\ output = Silent

\* A sample is accepted only while its block overwrites no unheard one.
Accept ==
    /\ part < BlockSize
    /\ filled < heard + Blocks
    /\ part' = part + 1
    /\ UNCHANGED <<filled, published, heard, output>>

CloseBlock ==
    /\ part = BlockSize
    /\ part' = 0 /\ filled' = filled + 1
    /\ UNCHANGED <<published, heard, output>>

Publish ==
    /\ published < filled
    /\ published + 1 < heard + Blocks
    /\ published' = published + 1
    /\ UNCHANGED <<filled, part, heard, output>>

Play ==
    /\ heard < published
    /\ output' = Block(heard)
    /\ heard' = heard + 1
    /\ UNCHANGED <<filled, part, published>>

PlaySilence ==
    /\ heard = published
    /\ output' = Silent
    /\ UNCHANGED <<filled, part, published, heard>>

Next == Accept \/ CloseBlock \/ Publish \/ Play \/ PlaySilence

Spec == Init /\ [][Next]_vars
=============================================================================
