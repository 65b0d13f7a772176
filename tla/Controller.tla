----------------------------- MODULE Controller -----------------------------
(***************************************************************************)
(* The path of a key press: SDL's event queue, the variable pad of         *)
(* Nes::main_loop, Io's controller status and latches, and the program's   *)
(* accesses to 0x4016 and 0x4017.  The latch is not taken when the program *)
(* writes the strobe but at the start of every round of the inner loop     *)
(* that finds the strobe high, that is before the next instruction.  One   *)
(* instruction may read a port and write the strobe, as INC, LSR or ROL    *)
(* of 0x4016 do, or read more than once; nothing is latched in between.    *)
(*                                                                         *)
(* A button is the number of its bit in Io's bytes; a byte of Io is the    *)
(* set of its bits.  When a frame ends is left open: see FrameLoop.        *)
(***************************************************************************)
EXTENDS Naturals, Sequences

CONSTANTS
    Keys,           \* keys of the keyboard, with and without a button
    MaxQueue        \* bound: events waiting in SDL's queue

ASSUME KeyAssumption == "quit" \notin Keys /\ MaxQueue \in Nat

VARIABLES
    phase,          \* "round": start of a round of the inner loop, "cpu": an
                    \* instruction, "events": PollEvent loop, or "stopped"
    quit,           \* local of main_loop
    pad,            \* local of main_loop
    ctrlstat,       \* Io::ctrlstat1 and 2
    latchstate,     \* Io::latchstate1 and 2
    ctrllatched,    \* Io::ctrllatched
    queue,          \* SDL: key events not yet polled
    held,           \* the keys the player holds down
    instr,          \* reads of each port by the instruction so far
    snapshot,       \* history: ctrlstat when the strobe last fell
    reads,          \* history: reads since then, at most 8, with those of the
                    \* instruction that lowered the strobe
    answer          \* history: what the last read returned

ioVars == <<ctrlstat, latchstate, ctrllatched>>
history == <<snapshot, reads, answer>>
vars == <<phase, quit, pad, ioVars, queue, held, instr, history>>

Pads    == {1, 2}
Buttons == 0..7

NoReads == [p \in Pads |-> 0]

Init ==
    /\ phase = "round" /\ quit = FALSE
    /\ pad = {}
    /\ ctrlstat = [p \in Pads |-> {}] /\ latchstate = [p \in Pads |-> {}]
    /\ ctrllatched = FALSE
    /\ queue = <<>> /\ held = {}
    /\ instr = NoReads
    /\ snapshot = [p \in Pads |-> {}] /\ reads = NoReads
    /\ answer = [p \in Pads |-> 0]

-----------------------------------------------------------------------------
(* Faulty variants of definitions below, substituted for them to see that  *)
(* the properties notice the slip; the specification does not use them.    *)

ShiftedZero(byte) == {b \in Buttons : b + 1 \in byte}
LatchDueAlways(latched) == TRUE
PressedAlone(byte, bits) == bits
PressedLost(byte, bits) == byte \ bits

-----------------------------------------------------------------------------
(* Io, and the two cases of Mem::get that read it.                         *)

\* The low bit leaves, a one enters at the top.
Shifted(byte) == {b \in Buttons : b + 1 \in byte} \cup {7}

LatchDue(latched) == latched

\* The latches after the check at the start of a round of the inner loop.
hdCtrlLatch == IF LatchDue(ctrllatched) THEN ctrlstat ELSE latchstate

\* The round goes on into Cpu::run.
StartRound ==
    /\ phase = "round"
    /\ latchstate' = hdCtrlLatch
    /\ phase' = "cpu"
    /\ UNCHANGED <<quit, pad, ctrlstat, ctrllatched, queue, held, instr, history>>

Bit(b) == IF b THEN 1 ELSE 0

\* How often one instruction reads either port: an operand once; JMP (0x4016)
\* both; and an instruction in the ports themselves, which can only be RTI or
\* EOR (n,X) as the bytes there are 0x40 and 0x41, with opcode, n and operand.
ReadsOfOne == {<<1, 0>>, <<0, 1>>, <<1, 1>>, <<0, 2>>, <<2, 1>>, <<1, 2>>}

\* A read of 0x4016 or 0x4017, without the constant bit 0x40.
ReadPort(p) ==
    /\ phase = "cpu"
    /\ instr' = [instr EXCEPT ![p] = @ + 1] /\ instr' \in ReadsOfOne
    /\ answer' = [answer EXCEPT ![p] = Bit(0 \in latchstate[p])]
    /\ latchstate' = [latchstate EXCEPT ![p] = Shifted(@)]
    /\ reads' = IF ctrllatched \/ reads[p] = 8 THEN reads
                ELSE [reads EXCEPT ![p] = @ + 1]
    /\ UNCHANGED <<phase, quit, pad, ctrlstat, ctrllatched, queue, held,
                   snapshot>>

\* A write to 0x4016; only bit 0 of the data counts.  It is the last access of
\* its instruction, which may have read the port and changed what it read: with
\* the carry in ROL, or by one in INC, to either bit.
WriteStrobe(bit) ==
    /\ phase = "cpu" /\ instr \in {<<0, 0>>, <<1, 0>>}
    /\ phase' = "round" /\ instr' = NoReads
    /\ ctrllatched' = bit
    /\ IF ctrllatched /\ ~bit
       THEN snapshot' = ctrlstat /\ reads' = instr
       ELSE UNCHANGED <<snapshot, reads>>
    /\ UNCHANGED <<quit, pad, ctrlstat, latchstate, queue, held, answer>>

\* An instruction that writes no strobe.
EndInstruction ==
    /\ phase = "cpu"
    /\ phase' = "round" /\ instr' = NoReads
    /\ UNCHANGED <<quit, pad, ioVars, queue, held, history>>

-----------------------------------------------------------------------------
(* The end of a frame and the events polled after it.                      *)

\* The round that finds the frame complete latches too, then breaks.
EndFrame ==
    /\ phase = "round"
    /\ latchstate' = hdCtrlLatch
    /\ phase' = "events"
    /\ UNCHANGED <<quit, pad, ctrlstat, ctrllatched, queue, held, instr, history>>

PadBits ==
    [x |-> 0, z |-> 1, a |-> 2, s |-> 3, up |-> 4, down |-> 5, left |-> 6,
     right |-> 7]

keycode_to_pad(key) == IF key \in DOMAIN PadBits THEN {PadBits[key]} ELSE {}

Pressed(byte, bits) == byte \cup bits
Released(byte, bits) == byte \ bits

\* pad after one key event.
Handle(byte, e) ==
    IF e.down THEN Pressed(byte, keycode_to_pad(e.key))
              ELSE Released(byte, keycode_to_pad(e.key))

PollKey ==
    /\ phase = "events" /\ queue # <<>> /\ Head(queue).key # "quit"
    /\ pad' = Handle(pad, Head(queue))
    /\ ctrlstat' = [ctrlstat EXCEPT ![1] = pad']
    /\ queue' = Tail(queue)
    /\ UNCHANGED <<phase, quit, latchstate, ctrllatched, held, instr, history>>

\* The remaining events are still polled before the loop is left.
PollQuit ==
    /\ phase = "events" /\ queue # <<>> /\ Head(queue).key = "quit"
    /\ quit' = TRUE
    /\ queue' = Tail(queue)
    /\ UNCHANGED <<phase, pad, ioVars, held, instr, history>>

EndEvents ==
    /\ phase = "events" /\ queue = <<>>
    /\ phase' = IF quit THEN "stopped" ELSE "round"
    /\ UNCHANGED <<quit, pad, ioVars, queue, held, instr, history>>

-----------------------------------------------------------------------------
(* The player: SDL queues an event for every change, repeats the event of  *)
(* a key held down, and one for the window's closing.                      *)

Send(e) ==
    /\ phase # "stopped" /\ Len(queue) < MaxQueue
    /\ queue' = Append(queue, e)
    /\ UNCHANGED <<phase, quit, pad, ioVars, instr, history>>

PressKey(k) ==
    Send([key |-> k, down |-> TRUE]) /\ held' = held \cup {k}

ReleaseKey(k) ==
    k \in held /\ Send([key |-> k, down |-> FALSE]) /\ held' = held \ {k}

CloseWindow == Send([key |-> "quit", down |-> TRUE]) /\ UNCHANGED held

Stopped == phase = "stopped" /\ UNCHANGED vars

Instruction ==
    \/ \E p \in Pads : ReadPort(p)
    \/ \E bit \in BOOLEAN : WriteStrobe(bit)
    \/ EndInstruction

Poll == PollKey \/ PollQuit \/ EndEvents

Player == (\E k \in Keys : PressKey(k) \/ ReleaseKey(k)) \/ CloseWindow

Next == StartRound \/ Instruction \/ EndFrame \/ Poll \/ Player \/ Stopped

Spec == Init /\ [][Next]_vars

\* The main thread does not stop, and of endless rounds some end the frame,
\* whatever the program does (FrameLoop's FramesKeepComing).
FairSpec ==
    Spec /\ WF_vars(EndInstruction) /\ SF_vars(EndFrame) /\ WF_vars(Poll)

-----------------------------------------------------------------------------
(* Properties.                                                             *)

Events == [key : Keys \cup {"quit"}, down : BOOLEAN]

\* Every variable keeps its type.
TypeOK ==
    /\ phase \in {"round", "cpu", "events", "stopped"} /\ quit \in BOOLEAN
    /\ pad \in SUBSET Buttons
    /\ ctrlstat \in [Pads -> SUBSET Buttons]
    /\ latchstate \in [Pads -> SUBSET Buttons]
    /\ ctrllatched \in BOOLEAN
    /\ queue \in Seq(Events) /\ held \in SUBSET Keys
    /\ instr \in [Pads -> 0..2]
    /\ snapshot \in [Pads -> SUBSET Buttons]
    /\ reads \in [Pads -> 0..8] /\ answer \in [Pads -> {0, 1}]

\* What n reads leave of a byte: its bits moved down, with ones above them.
Unread(byte, n) == {b \in Buttons : b + n >= 8 \/ b + n \in byte}

\* While the strobe is low the shift register of a port is a function of the
\* snapshot and of the number of reads alone, those of an instruction that read
\* the port and then lowered the strobe included; while it is high, of the pad
\* as it is and of what the instruction has read itself.
LatchInv ==
    /\ TypeOK
    /\ ctrlstat[1] = pad /\ ctrlstat[2] = {}
    /\ phase # "cpu" => instr = NoReads
    /\ ~ctrllatched => \A p \in Pads : latchstate[p] = Unread(snapshot[p], reads[p])
    /\ ctrllatched /\ phase = "cpu" =>
           \A p \in Pads : latchstate[p] = Unread(ctrlstat[p], instr[p])

\* pad once every event of the queue has been handled.
PadAfter[n \in Nat] == IF n = 0 THEN pad ELSE Handle(PadAfter[n - 1], queue[n])

ButtonsOf(keys) == UNION {keycode_to_pad(k) : k \in keys}

\* No press and no release is forgotten: the pad lags behind the player by
\* exactly the events that have not been polled.
PadFollowsKeys ==
    (\A i \in 1..Len(queue) : queue[i].key # "quit") =>
        PadAfter[Len(queue)] = ButtonsOf(held)

\* The ports keep their promise to the program: see ControllerPort.
Port == INSTANCE ControllerPort WITH strobe <- ctrllatched, now <- ctrlstat

PortSpec == Port!Spec

\* A button whose key is held long enough becomes visible to the program.
KeySeen ==
    \A k \in Keys :
        k \in held ~> \/ keycode_to_pad(k) \subseteq ctrlstat[1]
                      \/ k \notin held \/ phase = "stopped"
=============================================================================
