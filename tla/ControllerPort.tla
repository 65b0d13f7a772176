--------------------------- MODULE ControllerPort ---------------------------
(***************************************************************************)
(* What the controller ports promise to the emulated program.  The fall of *)
(* the strobe takes one snapshot of each pad; the next eight reads of a    *)
(* port return that snapshot, one button at a time, whatever the player    *)
(* does meanwhile, and every further read returns 1.  While the strobe is  *)
(* high an instruction reads the pad as it is now, from its first button.  *)
(* What the instruction that lowers the strobe has read itself counts as   *)
(* read: after LSR of 0x4016 the next read returns the second button.      *)
(***************************************************************************)
EXTENDS Naturals

VARIABLES
    strobe,         \* the strobe is high
    now,            \* pad -> buttons the port sees pressed now
    snapshot,       \* pad -> buttons pressed when the strobe fell
    reads,          \* pad -> reads since then, at most 8
    instr,          \* pad -> reads by the present instruction
    answer          \* pad -> what its last read returned

vars == <<strobe, now, snapshot, reads, instr, answer>>

Pads    == {1, 2}
Buttons == 0..7
NoReads == [p \in Pads |-> 0]

\* What read number n of the buttons returns, counted from 0.
Button(pressed, n) == IF n >= 8 \/ n \in pressed THEN 1 ELSE 0

Init ==
    /\ strobe = FALSE
    /\ now = [p \in Pads |-> {}] /\ snapshot = [p \in Pads |-> {}]
    /\ reads = NoReads /\ instr = NoReads
    /\ answer = [p \in Pads |-> 0]

ReadNow(p) ==
    /\ strobe
    /\ answer' = [answer EXCEPT ![p] = Button(now[p], instr[p])]
    /\ instr' = [instr EXCEPT ![p] = @ + 1]
    /\ UNCHANGED <<strobe, now, snapshot, reads>>

ReadNext(p) ==
    /\ ~strobe
    /\ answer' = [answer EXCEPT ![p] = Button(snapshot[p], reads[p])]
    /\ reads' = IF reads[p] = 8 THEN reads ELSE [reads EXCEPT ![p] = @ + 1]
    /\ instr' = [instr EXCEPT ![p] = @ + 1]
    /\ UNCHANGED <<strobe, now, snapshot>>

Raise ==
    /\ strobe' = TRUE /\ instr' = NoReads
    /\ UNCHANGED <<now, snapshot, reads, answer>>

Fall ==
    /\ strobe /\ strobe' = FALSE
    /\ snapshot' = now /\ reads' = instr
    /\ instr' = NoReads
    /\ UNCHANGED <<now, answer>>

EndInstruction ==
    /\ instr' = NoReads
    /\ UNCHANGED <<strobe, now, snapshot, reads, answer>>

\* The player presses or releases something, never within an instruction.
Play ==
    /\ instr = NoReads
    /\ \E b \in SUBSET Buttons : now' = [now EXCEPT ![1] = b]
    /\ UNCHANGED <<strobe, snapshot, reads, instr, answer>>

Next ==
    \/ \E p \in Pads : ReadNow(p) \/ ReadNext(p)
    \/ Raise \/ Fall \/ EndInstruction
    \/ Play

Spec == Init /\ [][Next]_vars
=============================================================================
