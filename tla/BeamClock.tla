----------------------------- MODULE BeamClock -----------------------------
(***************************************************************************)
(* What the picture side of the emulator promises to the emulated program. *)
(* The beam moves three dots for every CPU cycle and none is lost.  It     *)
(* reaches the vertical blank once per frame and ends the frame after      *)
(* exactly DotsPerFrame dots.  Both events are handled before the program  *)
(* executes another instruction, so an NMI is never late and never lost.   *)
(***************************************************************************)
EXTENDS Naturals

CONSTANTS
    DotsPerFrame,   \* dots between the ends of two frames
    VBlankDot,      \* dot at which the vertical blank begins
    StartDot,       \* beam position at power on
    MaxCycles       \* most cycles one step of the CPU can take

VARIABLES
    beam,           \* dots since the frame began
    inVBlank,       \* the vertical blank of this frame has begun
    frameReady,     \* a finished frame waits to be shown
    nmi,            \* a non-maskable interrupt waits for the CPU
    halted          \* the user closed the window

vars == <<beam, inVBlank, frameReady, nmi, halted>>

Init ==
    /\ beam = StartDot
    /\ inVBlank = FALSE
    /\ frameReady = FALSE
    /\ nmi = FALSE
    /\ halted = FALSE

VBlankDue == ~inVBlank /\ beam >= VBlankDot
FrameDue  == beam >= DotsPerFrame

\* One step of the CPU; it answers a pending NMI first.
Execute ==
    /\ ~halted /\ ~frameReady /\ ~VBlankDue /\ ~FrameDue
    /\ \E c \in 1..MaxCycles : beam' = beam + 3 * c
    /\ nmi' = FALSE
    /\ UNCHANGED <<inVBlank, frameReady, halted>>

\* The beam leaves the picture; the program may have asked for an NMI.
\* No earlier NMI can still be waiting, it would be lost.
EnterVBlank ==
    /\ VBlankDue
    /\ ~nmi
    /\ nmi' \in BOOLEAN
    /\ inVBlank' = TRUE
    /\ UNCHANGED <<beam, frameReady, halted>>

\* The beam returns to the top.
EndFrame ==
    /\ FrameDue /\ inVBlank /\ ~frameReady
    /\ beam' = beam - DotsPerFrame
    /\ inVBlank' = FALSE
    /\ frameReady' = TRUE
    /\ UNCHANGED <<nmi, halted>>

\* The frame is shown; the user may close the window.
Show ==
    /\ frameReady /\ ~FrameDue
    /\ frameReady' = FALSE
    /\ halted' \in BOOLEAN
    /\ UNCHANGED <<beam, inVBlank, nmi>>

Next == Execute \/ EnterVBlank \/ EndFrame \/ Show

Spec == Init /\ [][Next]_vars
=============================================================================
