-------------------------- MODULE ControllerProofs --------------------------
(***************************************************************************)
(* Proofs about Controller, for every set of keys and every queue length.  *)
(* LatchInv is inductive: the shift register of a port is the snapshot, or *)
(* within an instruction that finds the strobe high the pad, moved down by *)
(* the number of reads; the two meet where the strobe falls, perhaps after *)
(* a read by the same instruction.  With it every step of the controller   *)
(* is a step, or a stutter, of ControllerPort.                             *)
(* PadInv adds that the events in the queue turn the pad into the keys     *)
(* held; the recursion that plays them is reasoned about by induction over *)
(* sets, which the library derives from the order of the numbers.          *)
(***************************************************************************)
EXTENDS Controller, Integers, WellFoundedInduction, TLAPS

\* A key is a button of the pad or none.
LEMMA BitsOfKey ==
    ASSUME NEW key
    PROVE  keycode_to_pad(key) \subseteq Buttons
<1>1. CASE key \in DOMAIN PadBits
  <2>1. DOMAIN PadBits = {"x", "z", "a", "s", "up", "down", "left", "right"}
    BY DEF PadBits
  <2>2. PadBits[key] \in Buttons
    BY <1>1, <2>1 DEF PadBits, Buttons
  <2> QED
    BY <1>1, <2>2 DEF keycode_to_pad
<1>2. CASE key \notin DOMAIN PadBits
  BY <1>2 DEF keycode_to_pad
<1> QED
  BY <1>1, <1>2

\* An event leaves a set of buttons.
LEMMA HandleType ==
    ASSUME NEW byte \in SUBSET Buttons, NEW e
    PROVE  Handle(byte, e) \in SUBSET Buttons
BY BitsOfKey DEF Handle, Pressed, Released

\* What a round of the inner loop leaves in the latches.
LEMMA LatchType ==
    ASSUME TypeOK
    PROVE  hdCtrlLatch \in [Pads -> SUBSET Buttons]
BY DEF TypeOK, hdCtrlLatch

\* One read moves the unread buttons down by one.
LEMMA ShiftUnread ==
    ASSUME NEW S \in SUBSET Buttons, NEW n \in 0..8, NEW m \in 0..8,
           IF n = 8 THEN m = 8 ELSE m = n + 1
    PROVE  Shifted(Unread(S, n)) = Unread(S, m)
<1> DEFINE Before == {b \in Buttons : b + n >= 8 \/ b + n \in S}
           After  == {b \in Buttons : b + m >= 8 \/ b + m \in S}
<1>1. ASSUME NEW b \in 0..6
      PROVE  (b \in After) <=> (b + 1 \in Before)
  <2>1. CASE n = 8
    BY <2>1, SMT DEF Buttons
  <2>2. CASE n # 8
    <3>1. b + m = (b + 1) + n
      BY <2>2, SMT
    <3> QED
      BY <3>1, SMT DEF Buttons
  <2> QED
    BY <2>1, <2>2
<1>2. 7 \in After
  BY SMT DEF Buttons
<1>3. Shifted(Before) = {b \in 0..7 : b + 1 \in Before} \cup {7}
  BY DEF Shifted, Buttons
<1>4. \A b \in 0..7 : b = 7 \/ b \in 0..6
  BY SMT
<1>5. After \subseteq 0..7
  BY DEF Buttons
<1> HIDE DEF Before, After
<1>6. \A b : b \in Shifted(Before) <=> b \in After
  <2>1. \A b : b \in Shifted(Before) => b \in 0..7
    BY <1>3, SMT
  <2>2. ASSUME NEW b \in 0..6 PROVE b \in Shifted(Before) <=> b \in After
    <3>1. b \in 0..7 /\ b # 7
      BY SMT
    <3> QED
      BY <1>1, <1>3, <3>1
  <2>3. 7 \in Shifted(Before)
    BY <1>3
  <2> QED
    BY <1>2, <1>4, <1>5, <2>1, <2>2, <2>3
<1>7. Shifted(Before) = After
  BY <1>6
<1> QED
  BY <1>7 DEF Before, After, Unread

\* Before the first read everything is unread, and the first unread bit is the
\* button whose turn it is.
LEMMA UnreadFirst ==
    ASSUME NEW S \in SUBSET Buttons
    PROVE  /\ Unread(S, 0) = S
           /\ \A n \in 0..8 : Bit(0 \in Unread(S, n)) = Port!Button(S, n)
<1>1. Unread(S, 0) = S
  <2>1. \A b \in Buttons : b + 0 = b /\ ~(b >= 8)
    BY SMT DEF Buttons
  <2> QED
    BY <2>1, Zenon DEF Unread
<1>2. ASSUME NEW n \in 0..8
      PROVE  Bit(0 \in Unread(S, n)) = Port!Button(S, n)
  <2>1. 0 \in Unread(S, n) <=> n >= 8 \/ n \in S
    BY SMT DEF Unread, Buttons
  <2> QED
    BY <2>1 DEF Bit, Port!Button
<1> QED
  BY <1>1, <1>2

\* How far the reads of one instruction count.
LEMMA ReadsFew ==
    ASSUME NEW r \in ReadsOfOne \cup {<<0, 0>>}, NEW p \in Pads
    PROVE  r \in [Pads -> 0..2]
<1>1. ASSUME NEW i \in 0..2, NEW j \in 0..2
      PROVE  <<i, j>> \in [Pads -> 0..2]
  <2>1. DOMAIN <<i, j>> = Pads
    BY DEF Pads
  <2>2. <<i, j>>[1] = i /\ <<i, j>>[2] = j
    OBVIOUS
  <2> QED
    BY <2>1, <2>2 DEF Pads
<1> QED
  BY <1>1 DEF ReadsOfOne

-----------------------------------------------------------------------------
\* The invariant holds at the start.
LEMMA InitLatch == Init => LatchInv
<1> SUFFICES ASSUME Init PROVE LatchInv
  OBVIOUS
<1>1. TypeOK
  <2>1. queue \in Seq(Events)
    BY DEF Init
  <2>2. NoReads \in [Pads -> 0..8] /\ NoReads \in [Pads -> 0..2]
    BY SMT DEF NoReads
  <2> QED
    BY <2>1, <2>2 DEF Init, TypeOK
<1>2. \A p \in Pads : Unread(snapshot[p], reads[p]) = {}
  <2>1. Unread({}, 0) = {}
    BY UnreadFirst
  <2> QED
    BY <2>1 DEF Init, NoReads
<1> QED
  BY <1>1, <1>2 DEF Init, LatchInv, Pads

\* The start of a round takes the pads if the strobe is high ...
LEMMA RoundLatch ==
    ASSUME LatchInv, StartRound
    PROVE  LatchInv'
<1>1. TypeOK /\ hdCtrlLatch \in [Pads -> SUBSET Buttons]
  BY LatchType DEF LatchInv
<1>2. TypeOK'
  BY <1>1 DEF StartRound, TypeOK, history
<1>3. instr' = NoReads /\ UNCHANGED <<pad, ctrlstat, ctrllatched, snapshot, reads>>
  BY DEF StartRound, LatchInv, history
<1>4. ASSUME ctrllatched, NEW p \in Pads
      PROVE  latchstate'[p] = Unread(ctrlstat[p], NoReads[p])
  <2>1. latchstate' = ctrlstat /\ ctrlstat[p] \in SUBSET Buttons /\ NoReads[p] = 0
    BY <1>1, <1>4 DEF StartRound, hdCtrlLatch, LatchDue, TypeOK, NoReads
  <2> QED
    BY <2>1, UnreadFirst
<1>5. ~ctrllatched => latchstate' = latchstate
  BY DEF StartRound, hdCtrlLatch, LatchDue
<1> QED
  BY <1>2, <1>3, <1>4, <1>5 DEF LatchInv

\* ... a read of a port moves what is unread by one ...
LEMMA ReadLatch ==
    ASSUME LatchInv, NEW p \in Pads, ReadPort(p)
    PROVE  LatchInv'
<1>1. TypeOK
  BY DEF LatchInv
<1>2. /\ reads \in [Pads -> 0..8] /\ reads' \in [Pads -> 0..8]
      /\ instr \in [Pads -> 0..2] /\ instr' \in [Pads -> 0..2]
  <2>1. reads \in [Pads -> 0..8] /\ instr \in [Pads -> 0..2]
    BY <1>1 DEF TypeOK
  <2>2. reads[p] # 8 => reads[p] + 1 \in 0..8
    BY <2>1, SMT
  <2>3. instr' \in [Pads -> 0..2]
    BY ReadsFew DEF ReadPort
  <2> QED
    BY <2>1, <2>2, <2>3 DEF ReadPort
<1>3. latchstate' \in [Pads -> SUBSET Buttons]
  BY <1>1 DEF ReadPort, Shifted, Buttons, TypeOK
<1>4. answer' \in [Pads -> {0, 1}]
  BY <1>1 DEF ReadPort, TypeOK, Bit
<1>5. TypeOK'
  BY <1>1, <1>2, <1>3, <1>4 DEF ReadPort, TypeOK
<1>6. /\ UNCHANGED <<phase, pad, ctrlstat, ctrllatched, snapshot>> /\ phase = "cpu"
      /\ latchstate \in [Pads -> SUBSET Buttons]
      /\ ctrlstat \in [Pads -> SUBSET Buttons] /\ snapshot \in [Pads -> SUBSET Buttons]
  BY <1>1 DEF ReadPort, TypeOK
<1>7. ASSUME ~ctrllatched, NEW q \in Pads
      PROVE  latchstate'[q] = Unread(snapshot[q], reads'[q])
  <2>1. latchstate[q] = Unread(snapshot[q], reads[q])
    BY <1>7 DEF LatchInv
  <2>2. CASE q = p
    <3>1. latchstate'[q] = Shifted(Unread(snapshot[q], reads[q]))
      BY <1>6, <2>1, <2>2 DEF ReadPort
    <3>2. IF reads[q] = 8 THEN reads'[q] = 8 ELSE reads'[q] = reads[q] + 1
      BY <1>2, <1>7, <2>2 DEF ReadPort
    <3>3. snapshot[q] \in SUBSET Buttons /\ reads[q] \in 0..8 /\ reads'[q] \in 0..8
      BY <1>2, <1>6
    <3> QED
      BY <3>1, <3>2, <3>3, ShiftUnread
  <2>3. CASE q # p
    <3>1. latchstate'[q] = latchstate[q] /\ reads'[q] = reads[q]
      BY <1>2, <1>6, <2>3 DEF ReadPort
    <3> QED
      BY <2>1, <3>1
  <2> QED
    BY <2>2, <2>3
<1>8. ASSUME ctrllatched, NEW q \in Pads
      PROVE  latchstate'[q] = Unread(ctrlstat[q], instr'[q])
  <2>1. latchstate[q] = Unread(ctrlstat[q], instr[q])
    BY <1>6, <1>8 DEF LatchInv
  <2>2. CASE q = p
    <3>1. latchstate'[q] = Shifted(Unread(ctrlstat[q], instr[q]))
      BY <1>6, <2>1, <2>2 DEF ReadPort
    <3>2. instr'[q] = instr[q] + 1
      BY <1>2, <2>2 DEF ReadPort
    <3>3. /\ ctrlstat[q] \in SUBSET Buttons /\ instr[q] \in 0..8 /\ instr'[q] \in 0..8
          /\ instr[q] # 8
      BY <1>2, <1>6, SMT
    <3> QED
      BY <3>1, <3>2, <3>3, ShiftUnread
  <2>3. CASE q # p
    <3>1. latchstate'[q] = latchstate[q] /\ instr'[q] = instr[q]
      BY <1>2, <1>6, <2>3 DEF ReadPort
    <3> QED
      BY <2>1, <3>1
  <2> QED
    BY <2>2, <2>3
<1> QED
  BY <1>5, <1>6, <1>7, <1>8 DEF LatchInv

\* ... the fall of the strobe leaves what its instruction has not read ...
LEMMA StrobeLatch ==
    ASSUME LatchInv, NEW bit \in BOOLEAN, WriteStrobe(bit)
    PROVE  LatchInv'
<1>1. TypeOK
  BY DEF LatchInv
<1>2. instr \in [Pads -> 0..8] /\ NoReads \in [Pads -> 0..2]
  BY <1>1, SMT DEF TypeOK, NoReads
<1>3. TypeOK'
  BY <1>1, <1>2 DEF WriteStrobe, TypeOK
<1>4. ASSUME ~ctrllatched', NEW q \in Pads
      PROVE  latchstate'[q] = Unread(snapshot'[q], reads'[q])
  <2>1. CASE ctrllatched
    BY <1>4, <2>1 DEF WriteStrobe, LatchInv
  <2>2. CASE ~ctrllatched
    BY <2>2 DEF WriteStrobe, LatchInv
  <2> QED
    BY <2>1, <2>2
<1> QED
  BY <1>3, <1>4 DEF LatchInv, WriteStrobe

\* The steps between two instructions leave ctrllatched and the history alone,
\* and at most bring the latches up to date.
LEMMA OtherLatch ==
    ASSUME LatchInv, TypeOK',
           latchstate' = hdCtrlLatch \/ latchstate' = latchstate,
           UNCHANGED <<ctrllatched, snapshot, reads>>,
           phase' # "cpu", instr' = NoReads,
           ctrlstat'[1] = pad', ctrlstat'[2] = {}
    PROVE  LatchInv'
<1>1. ASSUME ~ctrllatched', NEW q \in Pads
      PROVE  latchstate'[q] = Unread(snapshot'[q], reads'[q])
  <2>1. latchstate' = latchstate
    BY <1>1 DEF hdCtrlLatch, LatchDue
  <2> QED
    BY <1>1, <2>1 DEF LatchInv
<1> QED
  BY <1>1 DEF LatchInv

\* Nor does a step that only concerns the player's side.
LEMMA AsideLatch ==
    ASSUME LatchInv, TypeOK',
           UNCHANGED <<phase, pad, ctrlstat, latchstate, ctrllatched, instr,
                       snapshot, reads>>
    PROVE  LatchInv'
BY DEF LatchInv

\* ... the handling of an event ...
LEMMA PollKeyLatch ==
    ASSUME LatchInv, PollKey
    PROVE  LatchInv'
<1>1. TypeOK
  BY DEF LatchInv
<1>2. pad' \in SUBSET Buttons
  BY <1>1, HandleType DEF PollKey, TypeOK
<1>3. queue' \in Seq(Events)
  BY <1>1 DEF PollKey, TypeOK
<1>4. ctrlstat' \in [Pads -> SUBSET Buttons]
  BY <1>1, <1>2 DEF PollKey, TypeOK
<1>5. TypeOK'
  BY <1>1, <1>2, <1>3, <1>4 DEF PollKey, TypeOK, history
<1>6. instr' = NoReads /\ ctrlstat'[1] = pad' /\ ctrlstat'[2] = {}
  BY <1>1 DEF PollKey, TypeOK, LatchInv, Pads, history
<1> QED
  BY <1>5, <1>6, OtherLatch DEF PollKey, history

\* ... and whatever the player does.
LEMMA PlayerLatch ==
    ASSUME LatchInv, Player
    PROVE  LatchInv'
<1>1. TypeOK
  BY DEF LatchInv
<1>2. ASSUME NEW e \in Events, Send(e), held' \in SUBSET Keys
      PROVE  LatchInv'
  <2>1. queue' \in Seq(Events)
    BY <1>1, <1>2 DEF Send, TypeOK
  <2>2. TypeOK'
    BY <1>1, <1>2, <2>1 DEF Send, TypeOK, ioVars, history
  <2> QED
    BY <1>2, <2>2, AsideLatch DEF Send, ioVars, history
<1>3. \A k \in Keys \cup {"quit"}, d \in BOOLEAN : [key |-> k, down |-> d] \in Events
  BY DEF Events
<1>4. ASSUME NEW k \in Keys, PressKey(k) PROVE LatchInv'
  BY <1>1, <1>2, <1>3, <1>4 DEF PressKey, TypeOK
<1>5. ASSUME NEW k \in Keys, ReleaseKey(k) PROVE LatchInv'
  BY <1>1, <1>2, <1>3, <1>5 DEF ReleaseKey, TypeOK
<1>6. ASSUME CloseWindow PROVE LatchInv'
  BY <1>1, <1>2, <1>3, <1>6 DEF CloseWindow, TypeOK
<1> QED
  BY <1>4, <1>5, <1>6 DEF Player

\* Every action keeps the invariant.
LEMMA NextLatch ==
    ASSUME LatchInv, [Next]_vars
    PROVE  LatchInv'
<1>1. TypeOK
  BY DEF LatchInv
<1>2. CASE StartRound
  BY <1>2, RoundLatch
<1>3. CASE Instruction
  <2>1. CASE \E p \in Pads : ReadPort(p)
    BY <2>1, ReadLatch
  <2>2. CASE \E bit \in BOOLEAN : WriteStrobe(bit)
    BY <2>2, StrobeLatch
  <2>3. CASE EndInstruction
    <3>1. NoReads \in [Pads -> 0..2]
      BY SMT DEF NoReads
    <3>2. TypeOK'
      BY <1>1, <2>3, <3>1 DEF EndInstruction, TypeOK, ioVars, history
    <3> QED
      BY <2>3, <3>2, OtherLatch DEF EndInstruction, ioVars, history, LatchInv
  <2> QED
    BY <1>3, <2>1, <2>2, <2>3 DEF Instruction
<1>4. CASE EndFrame
  <2>1. TypeOK'
    BY <1>1, <1>4, LatchType DEF EndFrame, TypeOK, history
  <2> QED
    BY <1>4, <2>1, OtherLatch DEF EndFrame, history, LatchInv
<1>5. CASE PollKey
  BY <1>5, PollKeyLatch
<1>6. CASE PollQuit
  <2>1. queue' \in Seq(Events)
    BY <1>1, <1>6 DEF PollQuit, TypeOK
  <2>2. TypeOK'
    BY <1>1, <1>6, <2>1 DEF PollQuit, TypeOK, ioVars, history
  <2> QED
    BY <1>6, <2>2, OtherLatch DEF PollQuit, ioVars, history, LatchInv
<1>7. CASE EndEvents
  <2>1. TypeOK'
    BY <1>1, <1>7 DEF EndEvents, TypeOK, ioVars, history
  <2> QED
    BY <1>7, <2>1, OtherLatch DEF EndEvents, ioVars, history, LatchInv
<1>8. CASE Player
  BY <1>8, PlayerLatch
<1>9. CASE UNCHANGED vars
  <2>1. TypeOK'
    BY <1>1, <1>9 DEF TypeOK, vars, ioVars, history
  <2> QED
    BY <1>9, <2>1, AsideLatch DEF vars, ioVars, history
<1> QED
  BY <1>2, <1>3, <1>4, <1>5, <1>6, <1>7, <1>8, <1>9
     DEF Next, Poll, Stopped

\* While the strobe is low the latches hold exactly what the program has not
\* yet read of the snapshot, whatever the player does, also when one instruction
\* read the port and lowered the strobe (Io::hdCtrlLatch,
\* Io::set_latched_ctrl_state, the order of Nes::main_loop).
THEOREM LatchInvariant == Spec => []LatchInv
<1>1. Init => LatchInv
  BY InitLatch
<1>2. LatchInv /\ [Next]_vars => LatchInv'
  BY NextLatch
<1> QED
  BY <1>1, <1>2, PTL DEF Spec

-----------------------------------------------------------------------------
(* The refinement.                                                         *)

\* A read is a read of the abstract port, of its live buttons or the next ...
LEMMA ReadIsPortRead ==
    ASSUME LatchInv, NEW p \in Pads, ReadPort(p)
    PROVE  Port!ReadNow(p) \/ Port!ReadNext(p)
<1>1. /\ TypeOK /\ phase = "cpu"
      /\ UNCHANGED <<ctrllatched, ctrlstat, snapshot>>
      /\ instr' = [instr EXCEPT ![p] = @ + 1]
      /\ answer' = [answer EXCEPT ![p] = Bit(0 \in latchstate[p])]
  BY DEF ReadPort, LatchInv
<1>2. CASE ctrllatched
  <2>1. latchstate[p] = Unread(ctrlstat[p], instr[p])
    BY <1>1, <1>2 DEF LatchInv
  <2>2. ctrlstat[p] \in SUBSET Buttons /\ instr[p] \in 0..8
    BY <1>1, SMT DEF TypeOK
  <2>3. Bit(0 \in latchstate[p]) = Port!Button(ctrlstat[p], instr[p])
    BY <2>1, <2>2, UnreadFirst
  <2>4. reads' = reads
    BY <1>2 DEF ReadPort
  <2> QED
    BY <1>1, <1>2, <2>3, <2>4 DEF Port!ReadNow
<1>3. CASE ~ctrllatched
  <2>1. latchstate[p] = Unread(snapshot[p], reads[p])
    BY <1>3 DEF LatchInv
  <2>2. snapshot[p] \in SUBSET Buttons /\ reads[p] \in 0..8
    BY <1>1 DEF TypeOK
  <2>3. Bit(0 \in latchstate[p]) = Port!Button(snapshot[p], reads[p])
    BY <2>1, <2>2, UnreadFirst
  <2>4. reads' = IF reads[p] = 8 THEN reads ELSE [reads EXCEPT ![p] = @ + 1]
    BY <1>3 DEF ReadPort
  <2> QED
    BY <1>1, <1>3, <2>3, <2>4 DEF Port!ReadNext
<1> QED
  BY <1>2, <1>3

\* ... a write of the strobe raises or lowers its own ...
LEMMA StrobeIsPortStrobe ==
    ASSUME LatchInv, NEW bit \in BOOLEAN, WriteStrobe(bit)
    PROVE  Port!Next
<1>1. instr' = Port!NoReads
  BY DEF WriteStrobe, NoReads, Port!NoReads, Pads, Port!Pads
<1>2. CASE bit
  <2>1. Port!Raise
    BY <1>1, <1>2 DEF WriteStrobe, Port!Raise
  <2> QED
    BY <2>1 DEF Port!Next
<1>3. CASE ~bit /\ ctrllatched
  <2>1. Port!Fall
    BY <1>1, <1>3 DEF WriteStrobe, Port!Fall
  <2> QED
    BY <2>1 DEF Port!Next
<1>4. CASE ~bit /\ ~ctrllatched
  <2>1. ctrllatched \in BOOLEAN
    BY DEF LatchInv, TypeOK
  <2>2. Port!EndInstruction
    BY <1>1, <1>4, <2>1 DEF WriteStrobe, Port!EndInstruction
  <2> QED
    BY <2>2 DEF Port!Next
<1> QED
  BY <1>2, <1>3, <1>4

\* ... and the pad the events leave is one its player holds.
LEMMA PollIsPlay ==
    ASSUME LatchInv, PollKey
    PROVE  Port!Play
<1>1. pad' \in SUBSET Port!Buttons
  BY HandleType DEF PollKey, LatchInv, TypeOK, Buttons, Port!Buttons
<1>2. instr = Port!NoReads
  BY DEF PollKey, LatchInv, NoReads, Port!NoReads, Pads, Port!Pads
<1> QED
  BY <1>1, <1>2 DEF PollKey, history, Port!Play

\* Every action is a step of the port or none.
LEMMA NextIsPortNext ==
    ASSUME LatchInv, [Next]_vars
    PROVE  [Port!Next]_(Port!vars)
<1>1. CASE \E p \in Pads : ReadPort(p)
  <2>1. PICK p \in Pads : ReadPort(p)
    BY <1>1
  <2>2. p \in Port!Pads
    BY DEF Pads, Port!Pads
  <2> QED
    BY <2>1, <2>2, ReadIsPortRead DEF Port!Next
<1>2. CASE \E bit \in BOOLEAN : WriteStrobe(bit)
  BY <1>2, StrobeIsPortStrobe
<1>3. CASE PollKey
  BY <1>3, PollIsPlay DEF Port!Next
<1>4. CASE StartRound \/ EndFrame \/ PollQuit \/ EndEvents \/ UNCHANGED vars
  BY <1>4 DEF StartRound, EndFrame, PollQuit, EndEvents, vars, ioVars, history,
              Port!vars
<1>5. CASE Player
  BY <1>5 DEF Player, PressKey, ReleaseKey, CloseWindow, Send, ioVars, history,
              Port!vars
<1>6. CASE EndInstruction
  <2>1. Port!EndInstruction
    BY <1>6 DEF EndInstruction, ioVars, history, Port!EndInstruction, NoReads,
                Port!NoReads, Pads, Port!Pads
  <2> QED
    BY <2>1 DEF Port!Next
<1> QED
  BY <1>1, <1>2, <1>3, <1>4, <1>5, <1>6 DEF Next, Instruction, Poll, Stopped

\* The program sees the pads as ControllerPort promises: eight reads, from the
\* one of an instruction that lowers the strobe on, return one snapshot even when
\* keys change between them.
THEOREM ControllerIsPort == Spec => PortSpec
<1>1. Init => Port!Init
  BY DEF Init, Port!Init, NoReads, Port!NoReads, Pads, Port!Pads
<1>2. LatchInv /\ [Next]_vars => [Port!Next]_(Port!vars)
  BY NextIsPortNext
<1> QED
  BY <1>1, <1>2, LatchInvariant, PTL DEF Spec, PortSpec, Port!Spec
-----------------------------------------------------------------------------
(* No press and no release is forgotten.  PadAfter is defined by recursion *)
(* over the queue; induction over the naturals, and with it the existence  *)
(* of recursive functions, is derived here from the well-foundedness of <. *)

\* A set with 0 that has the successor of each of its numbers has them all.
LEMMA SetInduction ==
    ASSUME NEW T, 0 \in T, \A n \in Nat : n \in T => n + 1 \in T
    PROVE  Nat \subseteq T
<1> DEFINE R == OpToRel(<, Nat)
           Bad == {n \in Nat : n \notin T}
<1> SUFFICES ASSUME Bad # {} PROVE FALSE
  OBVIOUS
<1>1. IsWellFoundedOn(R, Nat)
  BY NatLessThanWellFounded
<1>2. \A i, j \in Nat : i < j => <<i, j>> \in R
  BY DEF OpToRel
<1> HIDE DEF R
<1>3. PICK m \in Bad : \A k \in Bad : ~(<<k, m>> \in R)
  <2>1. Bad \subseteq Nat
    OBVIOUS
  <2> HIDE DEF Bad
  <2> QED
    BY <1>1, <2>1, WFMin
<1>4. m # 0
  OBVIOUS
<1>5. m - 1 \in Nat /\ m - 1 < m
  BY <1>4
<1>6. m - 1 \in T
  BY <1>5, <1>2, <1>3
<1> QED
  BY <1>5, <1>6

\* f follows the step g from a, up to n.
Follows(f, a, g, n) ==
    f[0] = a /\ \A k \in Nat : k < n => f[k + 1] = g[<<k, f[k]>>]

\* Two functions that follow the same step agree as far as both go.
LEMMA FollowsOne ==
    ASSUME NEW a, NEW g, NEW f, NEW h, NEW n \in Nat, NEW m \in Nat,
           Follows(f, a, g, n), Follows(h, a, g, m)
    PROVE  \A k \in Nat : k <= n /\ k <= m => f[k] = h[k]
<1> DEFINE T == {k \in Nat : k <= n /\ k <= m => f[k] = h[k]}
<1>1. 0 \in T
  BY DEF Follows
<1>2. ASSUME NEW k \in Nat, k \in T PROVE k + 1 \in T
  <2> SUFFICES ASSUME k + 1 <= n, k + 1 <= m PROVE f[k + 1] = h[k + 1]
    OBVIOUS
  <2>1. k < n /\ k < m /\ k <= n /\ k <= m
    OBVIOUS
  <2>2. f[k] = h[k]
    BY <1>2, <2>1
  <2> QED
    BY <2>1, <2>2, Zenon DEF Follows
<1> HIDE DEF T
<1>3. Nat \subseteq T
  BY <1>1, <1>2, SetInduction
<1> QED
  BY <1>3 DEF T

\* A step of S can be followed to any number.
LEMMA FollowsExists ==
    ASSUME NEW S, NEW a \in S, NEW g \in [Nat \X S -> S], NEW n \in Nat
    PROVE  \E f \in [Nat -> S] : Follows(f, a, g, n)
<1> DEFINE T == {k \in Nat : \E f \in [Nat -> S] : Follows(f, a, g, k)}
<1>1. 0 \in T
  <2>1. [k \in Nat |-> a] \in [Nat -> S] /\ Follows([k \in Nat |-> a], a, g, 0)
    BY DEF Follows
  <2> QED
    BY <2>1
<1>2. ASSUME NEW k \in Nat, k \in T PROVE k + 1 \in T
  <2>1. PICK f \in [Nat -> S] : Follows(f, a, g, k)
    BY <1>2
  <2> DEFINE h == [f EXCEPT ![k + 1] = g[<<k, f[k]>>]]
  <2>2. h \in [Nat -> S]
    OBVIOUS
  <2>3. \A j \in Nat : h[j] = IF j = k + 1 THEN g[<<k, f[k]>>] ELSE f[j]
    OBVIOUS
  <2> HIDE DEF h
  <2>4. Follows(h, a, g, k + 1)
    <3>1. h[0] = a
      BY <2>1, <2>3 DEF Follows
    <3>2. ASSUME NEW j \in Nat, j < k + 1 PROVE h[j + 1] = g[<<j, h[j]>>]
      <4>1. h[j] = f[j]
        BY <2>3, <3>2
      <4>2. CASE j = k
        BY <2>3, <4>1, <4>2
      <4>3. CASE j # k
        <5>1. j < k /\ j + 1 # k + 1
          BY <3>2, <4>3
        <5>2. f[j + 1] = g[<<j, f[j]>>]
          BY <2>1, <5>1 DEF Follows
        <5> QED
          BY <2>3, <4>1, <5>1, <5>2
      <4> QED
        BY <4>2, <4>3
    <3> QED
      BY <3>1, <3>2 DEF Follows
  <2> QED
    BY <2>2, <2>4
<1> HIDE DEF T
<1>3. n \in T
  BY <1>1, <1>2, SetInduction
<1> QED
  BY <1>3 DEF T

\* f is the function defined by recursion from a with g.
Recurses(f, a, g) == f[0] = a /\ \A n \in Nat : f[n + 1] = g[<<n, f[n]>>]

\* A start in S and a step of S define a function by recursion.
LEMMA RecursiveFunction ==
    ASSUME NEW S, NEW a \in S, NEW g \in [Nat \X S -> S]
    PROVE  \E f \in [Nat -> S] : Recurses(f, a, g)
<1> DEFINE part(n) == CHOOSE f \in [Nat -> S] : Follows(f, a, g, n)
           f == [n \in Nat |-> part(n)[n]]
<1>1. \A n \in Nat : part(n) \in [Nat -> S] /\ Follows(part(n), a, g, n)
  BY FollowsExists
<1> HIDE DEF part
<1>2. f \in [Nat -> S]
  BY <1>1
<1>3. f[0] = a
  BY <1>1 DEF Follows
<1>4. ASSUME NEW n \in Nat PROVE f[n + 1] = g[<<n, f[n]>>]
  <2>1. part(n + 1)[n] = part(n)[n]
    <3>1. n + 1 \in Nat /\ n <= n /\ n <= n + 1
      OBVIOUS
    <3>2. Follows(part(n + 1), a, g, n + 1) /\ Follows(part(n), a, g, n)
      BY <1>1, <3>1
    <3> QED
      BY <3>1, <3>2, FollowsOne
  <2>2. part(n + 1)[n + 1] = g[<<n, part(n + 1)[n]>>]
    BY <1>1 DEF Follows
  <2> QED
    BY <2>1, <2>2
<1> QED
  BY <1>2, <1>3, <1>4 DEF Recurses

\* What PadAfter is, for any byte and queue to start from.
Played(byte, q) ==
    LET after[n \in Nat] == IF n = 0 THEN byte ELSE Handle(after[n - 1], q[n])
    IN  after

\* One event after the other changes the byte.
Plays(f, byte, q) ==
    f[0] = byte /\ \A n \in Nat : f[n + 1] = Handle(f[n], q[n + 1])

\* The pad after n events is the pad after one less, and one event.
LEMMA PlayedSteps ==
    ASSUME NEW byte \in SUBSET Buttons, NEW q
    PROVE  Plays(Played(byte, q), byte, q)
<1> DEFINE S == SUBSET Buttons
           g == [x \in Nat \X S |-> Handle(x[2], q[x[1] + 1])]
<1>1. byte \in S /\ g \in [Nat \X S -> S]
  BY HandleType
<1>2. \A n \in Nat, b \in S : g[<<n, b>>] = Handle(b, q[n + 1])
  OBVIOUS
<1> HIDE DEF g, S
<1>3. PICK f \in [Nat -> S] : Recurses(f, byte, g)
  BY <1>1, RecursiveFunction
<1> DEFINE Def(h) == [n \in Nat |-> IF n = 0 THEN byte ELSE Handle(h[n - 1], q[n])]
           P == Played(byte, q)
<1>4. f = Def(f)
  <2>1. ASSUME NEW n \in Nat, n # 0
        PROVE  f[n] = Handle(f[n - 1], q[n])
    <3>1. n - 1 \in Nat /\ (n - 1) + 1 = n
      BY <2>1
    <3> QED
      BY <1>2, <1>3, <3>1 DEF Recurses
  <2> QED
    BY <1>3, <2>1 DEF Recurses
<1>5. P = Def(P)
  <2>1. P = CHOOSE h : h = Def(h)
    BY DEF Played
  <2> HIDE DEF Def, P
  <2> QED
    BY <1>4, <2>1, Zenon
<1> HIDE DEF P
<1>6. P[0] = byte /\ \A n \in Nat : P[n + 1] = Handle(P[n], q[n + 1])
  <2>1. \A n \in Nat : n + 1 # 0 /\ n + 1 \in Nat /\ (n + 1) - 1 = n
    OBVIOUS
  <2> QED
    BY <1>5, <2>1
<1> QED
  BY <1>6 DEF P, Plays

\* A queue of which the first event was handled is played from the second on.
LEMMA PlayedTail ==
    ASSUME NEW byte \in SUBSET Buttons, NEW q, NEW r, NEW len \in Nat,
           \A n \in 1..len : r[n] = q[n + 1]
    PROVE  Played(Handle(byte, q[1]), r)[len] = Played(byte, q)[len + 1]
<1> DEFINE P == Played(byte, q)
           R == Played(Handle(byte, q[1]), r)
           T == {n \in Nat : n <= len => R[n] = P[n + 1]}
           second == Handle(byte, q[1])
<1>1. Plays(P, byte, q)
  BY PlayedSteps
<1>2. Plays(R, second, r)
  <2>1. second \in SUBSET Buttons
    BY HandleType
  <2> HIDE DEF second
  <2> QED
    BY <2>1, PlayedSteps DEF second
<1> HIDE DEF P, R
<1>3. 0 \in T
  BY <1>1, <1>2 DEF Plays
<1>4. ASSUME NEW n \in Nat, n \in T PROVE n + 1 \in T
  <2> SUFFICES ASSUME n + 1 <= len PROVE R[n + 1] = P[n + 2]
    OBVIOUS
  <2>1. R[n] = P[n + 1] /\ r[n + 1] = q[n + 2]
    BY <1>4
  <2>2. P[n + 2] = Handle(P[n + 1], q[n + 2])
    BY <1>1 DEF Plays
  <2> QED
    BY <1>2, <2>1, <2>2 DEF Plays
<1> HIDE DEF T
<1>5. len \in T
  BY <1>3, <1>4, SetInduction
<1> QED
  BY <1>5 DEF T, P, R

\* What is played depends on the events handled so far only.
LEMMA PlayedSame ==
    ASSUME NEW byte \in SUBSET Buttons, NEW q, NEW r, NEW len \in Nat
    PROVE  (\A n \in 1..len : r[n] = q[n])
               => Played(byte, r)[len] = Played(byte, q)[len]
<1> DEFINE P == Played(byte, q)
           R == Played(byte, r)
           T == {n \in Nat : n <= len => R[n] = P[n]}
<1>1. Plays(P, byte, q) /\ Plays(R, byte, r)
  BY PlayedSteps
<1> HIDE DEF P, R
<1> SUFFICES ASSUME \A n \in 1..len : r[n] = q[n]
             PROVE  R[len] = P[len]
  BY DEF P, R
<1>2. 0 \in T
  BY <1>1 DEF Plays
<1>3. ASSUME NEW n \in Nat, n \in T PROVE n + 1 \in T
  <2> SUFFICES ASSUME n + 1 <= len PROVE R[n + 1] = P[n + 1]
    OBVIOUS
  <2>1. R[n] = P[n] /\ r[n + 1] = q[n + 1]
    BY <1>3
  <2> QED
    BY <1>1, <2>1 DEF Plays
<1> HIDE DEF T
<1>4. len \in T
  BY <1>2, <1>3, SetInduction
<1> QED
  BY <1>4 DEF T

\* Two keys never share a button.
LEMMA ButtonsApart ==
    ASSUME NEW k, NEW l, k # l
    PROVE  keycode_to_pad(k) \cap keycode_to_pad(l) = {}
<1> DEFINE D == {"x", "z", "a", "s", "up", "down", "left", "right"}
<1>1. DOMAIN PadBits = D
  BY DEF PadBits
<1>2. ASSUME NEW a \in D, NEW b \in D, a # b PROVE PadBits[a] # PadBits[b]
  BY <1>2 DEF PadBits
<1> QED
  BY <1>1, <1>2 DEF keycode_to_pad

\* Stronger than PadFollowsKeys: the closing of the window presses nothing.
PadInv == PadAfter[Len(queue)] = ButtonsOf(held)

\* Every action keeps what the pad is going to be.
LEMMA PadStep ==
    ASSUME LatchInv, PadInv, [Next]_vars
    PROVE  PadInv'
<1>1. PadAfter = Played(pad, queue) /\ PadAfter' = Played(pad', queue')
  BY DEF PadAfter, Played
<1>2. /\ pad \in SUBSET Buttons /\ queue \in Seq(Events) /\ held \in SUBSET Keys
      /\ pad' \in SUBSET Buttons /\ queue' \in Seq(Events)
  BY NextLatch DEF LatchInv, TypeOK
<1>3. Played(pad, queue)[Len(queue)] = ButtonsOf(held)
  BY <1>1 DEF PadInv
<1>4. SUFFICES Played(pad', queue')[Len(queue')] = ButtonsOf(held')
  BY <1>1 DEF PadInv
<1>5. ASSUME queue # <<>>, queue' = Tail(queue), pad' = Handle(pad, queue[1])
      PROVE  Played(pad', queue')[Len(queue')] = Played(pad, queue)[Len(queue)]
  <2>1. Len(queue') \in Nat /\ Len(queue) = Len(queue') + 1
    BY <1>2, <1>5
  <2>2. \A n \in 1..Len(queue') : queue'[n] = queue[n + 1]
    BY <1>2, <1>5
  <2> DEFINE len == Len(queue')
  <2>3. Played(Handle(pad, queue[1]), queue')[len] = Played(pad, queue)[len + 1]
    <3>1. len \in Nat /\ \A n \in 1..len : queue'[n] = queue[n + 1]
      BY <2>1, <2>2
    <3> HIDE DEF len
    <3> QED
      BY <1>2, <3>1, PlayedTail
  <2> QED
    BY <1>5, <2>1, <2>3
<1>6. ASSUME NEW e, queue' = Append(queue, e), pad' = pad
      PROVE  Played(pad', queue')[Len(queue')] = Handle(ButtonsOf(held), e)
  <2> DEFINE len == Len(queue)
  <2>1. len \in Nat /\ Len(queue') = len + 1 /\ queue'[len + 1] = e
    BY <1>2, <1>6
  <2>2. \A n \in 1..len : queue'[n] = queue[n]
    BY <1>2, <1>6
  <2> HIDE DEF len
  <2>3. Played(pad, queue')[len] = Played(pad, queue)[len]
    BY <1>2, <2>1, <2>2, PlayedSame
  <2>4. Played(pad, queue')[len + 1] = Handle(Played(pad, queue')[len], queue'[len + 1])
    BY <1>2, <2>1, PlayedSteps DEF Plays
  <2> QED
    BY <1>3, <1>6, <2>1, <2>3, <2>4 DEF len
<1>7. CASE PollKey
  <2>1. queue # <<>> /\ pad' = Handle(pad, queue[1]) /\ queue' = Tail(queue) /\ held' = held
    BY <1>2, <1>7 DEF PollKey
  <2> QED
    BY <1>3, <1>5, <2>1
<1>8. CASE PollQuit
  <2>1. keycode_to_pad("quit") = {}
    BY DEF keycode_to_pad, PadBits
  <2>2. queue # <<>> /\ queue[1].key = "quit" /\ queue' = Tail(queue) /\ held' = held /\ pad' = pad
    BY <1>2, <1>8 DEF PollQuit
  <2>3. pad' = Handle(pad, queue[1])
    BY <2>1, <2>2 DEF Handle, Pressed, Released
  <2> QED
    BY <1>3, <1>5, <2>2, <2>3
<1>9. ASSUME NEW k \in Keys, PressKey(k)
      PROVE  Played(pad', queue')[Len(queue')] = ButtonsOf(held')
  <2>1. queue' = Append(queue, [key |-> k, down |-> TRUE]) /\ pad' = pad
        /\ held' = held \cup {k}
    BY <1>9 DEF PressKey, Send
  <2>2. ButtonsOf(held \cup {k}) = ButtonsOf(held) \cup keycode_to_pad(k)
    BY DEF ButtonsOf
  <2>3. Handle(ButtonsOf(held), [key |-> k, down |-> TRUE])
          = ButtonsOf(held) \cup keycode_to_pad(k)
    BY DEF Handle, Pressed
  <2> QED
    BY <1>6, <2>1, <2>2, <2>3
<1>10. ASSUME NEW k \in Keys, ReleaseKey(k)
       PROVE  Played(pad', queue')[Len(queue')] = ButtonsOf(held')
  <2>1. queue' = Append(queue, [key |-> k, down |-> FALSE]) /\ pad' = pad
        /\ held' = held \ {k} /\ k \in held
    BY <1>10 DEF ReleaseKey, Send
  <2>2. ButtonsOf(held \ {k}) = ButtonsOf(held) \ keycode_to_pad(k)
    BY ButtonsApart DEF ButtonsOf
  <2>3. Handle(ButtonsOf(held), [key |-> k, down |-> FALSE])
          = ButtonsOf(held) \ keycode_to_pad(k)
    BY DEF Handle, Released
  <2> QED
    BY <1>6, <2>1, <2>2, <2>3
<1>11. CASE CloseWindow
  <2>1. keycode_to_pad("quit") = {}
    BY DEF keycode_to_pad, PadBits
  <2>2. queue' = Append(queue, [key |-> "quit", down |-> TRUE]) /\ pad' = pad /\ held' = held
    BY <1>11 DEF CloseWindow, Send
  <2>3. Handle(ButtonsOf(held), [key |-> "quit", down |-> TRUE]) = ButtonsOf(held)
    BY <2>1 DEF Handle, Pressed
  <2> QED
    BY <1>6, <2>2, <2>3
<1>12. CASE UNCHANGED <<pad, queue, held>>
  BY <1>3, <1>12
<1> QED
  BY <1>7, <1>8, <1>9, <1>10, <1>11, <1>12
     DEF Next, StartRound, Instruction, ReadPort, WriteStrobe, EndInstruction,
         EndFrame, Poll, EndEvents, Player, Stopped, vars, ioVars, history

\* The pad lags behind the player by exactly the events not yet polled, for
\* every queue length (SDL's events, main_loop's polling, keycode_to_pad).
THEOREM PadNeverLosesKey == Spec => []PadFollowsKeys
<1>1. Init => PadInv
  <2> SUFFICES ASSUME Init PROVE PadInv
    OBVIOUS
  <2>1. PadAfter = Played(pad, queue)
    BY DEF PadAfter, Played
  <2>2. Played(pad, queue)[0] = pad
    BY PlayedSteps DEF Init, Plays
  <2> QED
    BY <2>1, <2>2 DEF Init, PadInv, ButtonsOf
<1>2. LatchInv /\ PadInv /\ [Next]_vars => PadInv'
  BY PadStep
<1>3. PadInv => PadFollowsKeys
  BY DEF PadInv, PadFollowsKeys
<1> QED
  BY <1>1, <1>2, <1>3, LatchInvariant, PTL DEF Spec
=============================================================================
