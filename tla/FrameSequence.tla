--------------------------- MODULE FrameSequence ---------------------------
(***************************************************************************)
(* What the frame sequencer of the APU promises: on a clock that never     *)
(* stops, its four steps come at fixed distances, however the time is cut  *)
(* into time frames and calls.  Steps 0 and 2 clock the length counters,   *)
(* and step 0 raises the interrupt when it is asked for.  A write of the   *)
(* mode starts the sequence anew.                                          *)
(***************************************************************************)
EXTENDS Integers

CONSTANTS
    Period,         \* cycles between two steps
    ShortBy,        \* the step after step 1 comes as much earlier
    LongMinus       \* mode 1 adds a period less as much after step 3

VARIABLES
    now,            \* cycles since reset
    due,            \* when the next step comes
    step,           \* which it will be
    long,           \* mode 1
    asked,          \* interrupts are asked for
    flag,           \* an interrupt waits
    halves          \* times the length counters were clocked

vars == <<now, due, step, long, asked, flag, halves>>

Init ==
    /\ now = 0 /\ halves = 0
    /\ due = Period + 1 /\ step = 1
    /\ long = FALSE /\ asked = TRUE /\ flag = FALSE

\* Time does not pass a step.
Wait ==
    /\ now' \in now..due
    /\ UNCHANGED <<due, step, long, asked, flag, halves>>

Distance(n) ==
    CASE n = 1          -> Period - ShortBy
      [] n = 3 /\ long  -> 2 * Period - LongMinus
      [] OTHER          -> Period

Step ==
    /\ now' = due
    /\ due' = due + Distance(step)
    /\ step' = (step + 1) % 4
    /\ flag' = (flag \/ (step = 0 /\ asked /\ ~long))
    /\ halves' = halves + (IF step \in {0, 2} THEN 1 ELSE 0)
    /\ UNCHANGED <<long, asked>>

\* Mode 1 starts with step 0 at once, mode 0 a period later with step 1; an
\* odd cycle of the old distance is kept.
SetMode ==
    /\ now' \in now..due
    /\ long' \in BOOLEAN /\ asked' \in BOOLEAN
    /\ due' = now' + ((due - now') % 2) + (IF long' THEN 0 ELSE Period)
    /\ step' = IF long' THEN 0 ELSE 1
    /\ flag' = (flag /\ asked')
    /\ UNCHANGED halves

\* A read of the status takes the interrupt.
Acknowledge ==
    /\ now' \in now..due
    /\ flag' = FALSE
    /\ UNCHANGED <<due, step, long, asked, halves>>

Next == Wait \/ Step \/ SetMode \/ Acknowledge

Spec == Init /\ [][Next]_vars
=============================================================================
