----------------------------- MODULE FrameLoop -----------------------------
(***************************************************************************)
(* The main loop of the emulator (Nes::main_loop): one CPU step, then the  *)
(* PPU catches up with the cycles of that step, line by line, until a      *)
(* frame is complete; then the frame is shown and the APU's time frame     *)
(* ends.  The three clocks that have to agree are the beam position        *)
(* (ppux, line), the CPU's cycle count of the current step (cpuclock) and  *)
(* the APU's own estimate of time (time, last_time), which advances by     *)
(* four for every register write instead of following the CPU.             *)
(*                                                                         *)
(* Picture content is abstracted: a rendered line appends Width pixels,    *)
(* and whether sprite 0 or too many sprites lie on a line is a free choice *)
(* of the program.  What an instruction does is reduced to its cost and    *)
(* to the registers it touches that steer this loop.                       *)
(***************************************************************************)
EXTENDS Integers

CONSTANTS
    DotsPerLine,    \* 341
    VBlankLine,     \* 240, first line after the picture
    FrameLines,     \* 262, lines of a frame
    FirstLine,      \* 8, first line that produces pixels
    EndLine,        \* 232, first line after those
    Width,          \* 256, pixels of a line
    ImgSize,        \* 256 * 240, size of Ppu::imgdata
    FrameLength,    \* 29780, initial Simple_Apu::frame_length
    InstrCosts,     \* cycles of an instruction, page crossing included
    StoreCosts,     \* cycles of an instruction that writes a register
    Writes,         \* which registers the program writes
    StatusReads     \* whether an instruction reads the PPU status

ResetCycles == 7    \* cpuclock after Cpu::reset
NmiCycles   == 7    \* cost of answering an NMI

ASSUME LineAssumption ==
    /\ DotsPerLine \in Nat /\ VBlankLine \in Nat /\ FrameLines \in Nat
    /\ FirstLine \in Nat /\ EndLine \in Nat
    /\ 1 <= FirstLine /\ FirstLine < EndLine /\ EndLine <= VBlankLine
    /\ 1 < VBlankLine /\ VBlankLine < FrameLines

ASSUME ImageAssumption ==
    /\ Width \in Nat \ {0} /\ ImgSize \in Nat
    /\ Width * (EndLine - FirstLine) <= ImgSize

\* No CPU step, an NMI or the reset cycles included, lasts a whole line.
ASSUME CostAssumption ==
    /\ InstrCosts \subseteq Nat /\ StoreCosts \subseteq InstrCosts
    /\ \A c \in InstrCosts : 0 < c /\ 3 * (c + NmiCycles) < DotsPerLine
    /\ InstrCosts # {} /\ StoreCosts # {}

\* The APU's frame is at most one cycle shorter than the PPU's, and no
\* instruction writes registers faster than the APU's clock counts them.
ASSUME ClockAssumption ==
    /\ FrameLength \in Nat \ {0} /\ FrameLength % 2 = 0
    /\ FrameLines * DotsPerLine <= 3 * FrameLength + 3
    /\ \A c \in StoreCosts : 4 <= c

ASSUME ProgramAssumption ==
    /\ Writes \subseteq {"none", "ctrl0", "ctrl1", "apu"} /\ Writes # {}
    /\ StatusReads \subseteq BOOLEAN /\ StatusReads # {}

VARIABLES
    phase,          \* "cpu": about to run a step, "ppu": in Ppu::run's loop
    cpuclock,       \* Cpu::cpuclock
    nmi,            \* Irq::nmi
    ppux, line,     \* Ppu::ppux, Ppu::line
    tmpx,           \* local of Ppu::run: where the sprite 0 scan starts
    sprite_zero,    \* Ppu::sprite_zero
    status,         \* Ppu::regs[2]: bits 7, 6 and 5
    nmiEnable,      \* Ppu::regs[0] bit 7
    layers,         \* Ppu::regs[1] bits 3 and 4
    imgok, imgidx,  \* Ppu::imgok, Ppu::imgidx
    time,           \* Simple_Apu::time
    frame_length,   \* Simple_Apu::frame_length
    last_time       \* Nes_Apu::last_time

cpuVars == <<cpuclock, nmi>>
ppuVars == <<ppux, line, tmpx, sprite_zero, status, nmiEnable, layers,
             imgok, imgidx>>
apuVars == <<time, frame_length, last_time>>
vars == <<phase, cpuVars, ppuVars, apuVars>>

NoFlags == [vblank |-> FALSE, hit |-> FALSE, overflow |-> FALSE]

Init ==
    /\ phase = "cpu"
    /\ cpuclock = ResetCycles
    /\ nmi = FALSE
    /\ ppux = DotsPerLine /\ line = 0 /\ tmpx = 0
    /\ sprite_zero = FALSE
    /\ status = NoFlags
    /\ nmiEnable = FALSE
    /\ layers = {}
    /\ imgok = FALSE /\ imgidx = 0
    /\ time = 0 /\ frame_length = FrameLength /\ last_time = 0

-----------------------------------------------------------------------------
(* Faulty variants of definitions below, each a slip the code could have.  *)
(* They are not used by the specification: substituted for the definition  *)
(* they are named after, they show that the properties notice the slip.    *)

ClearNmiForgotten(pending) == pending
ClockFast(t) == t + 6
IsVisibleShort(l) == FirstLine < l /\ l < EndLine
NewLineSpriteZeroKept(s) == s
DotsLeftDropped(x) == 0
LeftoverKept(last, end) == IF end > last THEN end ELSE last
ClearedImgIdxForgotten(i) == i
ClearedImgOkForgotten(ok) == ok
OverflowStays(flags) == [flags EXCEPT !.vblank = TRUE]

-----------------------------------------------------------------------------
(* The CPU's step: Cpu::run, and the first two lines of Ppu::run.          *)

\* The flag is cleared before the handler is entered.
ClearNmi(pending) == FALSE

CostsOf(write) == IF write = "none" THEN InstrCosts ELSE StoreCosts

\* A status read returns and clears the three flags.
ReadStatus == NoFlags

\* Simple_Apu::clock: the time of the write, after it was advanced.
Clock(t) == t + 4

\* The beam moves three dots per cycle.
Dots(cycles) == 3 * cycles

CpuRun(reads, write, cost) ==
    /\ phase = "cpu" /\ ~imgok
    /\ nmi' = ClearNmi(nmi)
    /\ cpuclock' = cpuclock + (IF nmi THEN NmiCycles ELSE 0) + cost
    /\ status' = IF reads THEN ReadStatus ELSE status
    /\ IF write = "ctrl0" THEN nmiEnable' \in BOOLEAN
                          ELSE UNCHANGED nmiEnable
    /\ IF write = "ctrl1" THEN layers' \in SUBSET {"bg", "sp"}
                          ELSE UNCHANGED layers
    /\ IF write = "apu" THEN /\ time' = Clock(time)
                             /\ last_time' = Clock(time)
                        ELSE UNCHANGED <<time, last_time>>
    /\ tmpx' = ppux
    /\ ppux' = ppux + Dots(cpuclock')
    /\ phase' = "ppu"
    /\ UNCHANGED <<line, sprite_zero, imgok, imgidx, frame_length>>

-----------------------------------------------------------------------------
(* The loop of Ppu::run: one iteration per action.                         *)

IsVisible(l) == FirstLine <= l /\ l < EndLine

\* With the picture disabled a visible line still emits the backdrop.
PixelsOf(l) == IF IsVisible(l) THEN Width ELSE 0

\* The flag belongs to one line and is cleared at the start of the next.
NewLineSpriteZero(s) == FALSE

\* Sprites are evaluated only while they are shown.
RenderFrame(l) ==
    /\ imgidx' = imgidx + PixelsOf(l)
    /\ IF "sp" \in layers
       THEN \E zero, many \in BOOLEAN :
               /\ sprite_zero' = (NewLineSpriteZero(sprite_zero) \/ zero)
               /\ status' = [status EXCEPT !.overflow = many]
       ELSE /\ sprite_zero' = NewLineSpriteZero(sprite_zero)
            /\ UNCHANGED status
    /\ UNCHANGED <<nmi, imgok>>

\* The sprite flags end with the picture.
VBlankFlags(flags) == [NoFlags EXCEPT !.vblank = TRUE]

InVBlank ==
    /\ status' = VBlankFlags(status)
    /\ nmi' = (nmi \/ nmiEnable)
    /\ sprite_zero' = NewLineSpriteZero(sprite_zero)
    /\ UNCHANGED <<imgok, imgidx>>

PostRender ==
    /\ status' = [status EXCEPT !.vblank = FALSE]
    /\ imgok' = TRUE
    /\ sprite_zero' = NewLineSpriteZero(sprite_zero)
    /\ UNCHANGED <<nmi, imgidx>>

BlankLine ==
    /\ sprite_zero' = NewLineSpriteZero(sprite_zero)
    /\ UNCHANGED <<status, nmi, imgok, imgidx>>

\* What is left of the beam's advance after one line.
DotsLeft(x) == x - DotsPerLine

LineAfter(l) == IF l + 1 = FrameLines THEN 0 ELSE l + 1

LineStep ==
    /\ phase = "ppu" /\ DotsPerLine <= ppux
    /\ ppux' = DotsLeft(ppux)
    /\ tmpx' = 0
    /\ line' = LineAfter(line)
    /\ CASE line + 1 < VBlankLine -> RenderFrame(line + 1)
         [] line + 1 = VBlankLine -> InVBlank
         [] line + 1 = FrameLines -> PostRender
         [] OTHER                 -> BlankLine
    /\ UNCHANGED <<phase, cpuclock, nmiEnable, layers, apuVars>>

\* After the loop the pixels the beam just passed are searched for sprite 0;
\* then Cpu::clear_cpucycle.
FinishRun(opaque) ==
    /\ phase = "ppu" /\ ppux < DotsPerLine
    /\ opaque => sprite_zero /\ ~status.hit /\ tmpx < Width
    /\ status' = [status EXCEPT !.hit = @ \/ opaque]
    /\ tmpx' = 0
    /\ cpuclock' = 0
    /\ phase' = "cpu"
    /\ UNCHANGED <<nmi, ppux, line, sprite_zero, nmiEnable, layers, imgok,
                   imgidx, apuVars>>

-----------------------------------------------------------------------------
(* A finished frame: Ppu::clear_img, Simple_Apu::end_frame, the copy to    *)
(* the texture, and the events, one of which may be the window's closing.  *)

FlipLowBit(n) == IF n % 2 = 0 THEN n + 1 ELSE n - 1

\* Nes_Apu::end_frame: runs up to the end of the frame unless a write was
\* already later than that, and makes the time relative to the new frame.
Leftover(last, end) == (IF end > last THEN end ELSE last) - end

ClearedImgIdx(i) == 0
ClearedImgOk(ok) == FALSE

Show(quit) ==
    /\ phase = "cpu" /\ imgok
    /\ imgok' = ClearedImgOk(imgok) /\ imgidx' = ClearedImgIdx(imgidx)
    /\ time' = 0
    /\ frame_length' = FlipLowBit(frame_length)
    /\ last_time' = Leftover(last_time, frame_length')
    /\ phase' = IF quit THEN "stopped" ELSE "cpu"
    /\ UNCHANGED <<cpuVars, ppux, line, tmpx, sprite_zero, status, nmiEnable,
                   layers>>

\* The window is closed and main_loop has returned.
Stopped == phase = "stopped" /\ UNCHANGED vars

Next ==
    \/ \E reads \in StatusReads, write \in Writes :
          \E cost \in CostsOf(write) : CpuRun(reads, write, cost)
    \/ LineStep
    \/ \E opaque \in BOOLEAN : FinishRun(opaque)
    \/ \E quit \in BOOLEAN : Show(quit)
    \/ Stopped

Spec == Init /\ [][Next]_vars

\* One thread runs the loop and nothing in it waits.
FairSpec == Spec /\ WF_vars(Next)

-----------------------------------------------------------------------------
(* Properties.                                                             *)

MaxTime == FrameLength + 4
Picture == Width * (EndLine - FirstLine)

\* Every variable keeps its type; the beam is never two lines late.
TypeOK ==
    /\ phase \in {"cpu", "ppu", "stopped"}
    /\ cpuclock \in Nat /\ nmi \in BOOLEAN
    /\ ppux \in 0..(2 * DotsPerLine - 1) /\ line \in 0..(FrameLines - 1)
    /\ tmpx \in 0..DotsPerLine
    /\ sprite_zero \in BOOLEAN
    /\ status \in [vblank : BOOLEAN, hit : BOOLEAN, overflow : BOOLEAN]
    /\ nmiEnable \in BOOLEAN /\ layers \in SUBSET {"bg", "sp"}
    /\ imgok \in BOOLEAN /\ imgidx \in Nat
    /\ time \in 0..MaxTime
    /\ frame_length \in {FrameLength, FrameLength + 1}
    /\ last_time \in 0..MaxTime

\* However the program switches the layers on and off in the middle of a
\* frame, imgdata is never written beyond its end, and the frame that
\* UpdateTexture copies holds every pixel of every visible line.
FrameComplete ==
    /\ imgidx <= ImgSize
    /\ imgok => imgidx = Picture

\* An NMI waits only at the start of the vertical blank it announces, and
\* the program still finds the flag set when its handler runs.
NmiSeesVBlank == nmi => line = VBlankLine /\ status.vblank

\* From the vertical blank to the first line of the next frame the program
\* never sees a sprite hit or a sprite overflow of the old frame, even
\* though the hit search runs after every instruction.
SpriteFlagsEndWithPicture ==
    line \notin 1..(VBlankLine - 1) => ~status.hit /\ ~status.overflow

\* Nes_Apu::run_until_ asserts that time does not run backwards: the next
\* write's time, estimated at four cycles per write, is never before the
\* end of the previous frame although that end is fixed in advance.
ApuClockOrdered == Clock(time) >= last_time

\* Frames keep being completed and shown for as long as the window is open,
\* whatever instructions the program executes.
FramesKeepComing == ([]<>imgok /\ []<>~imgok) \/ <>(phase = "stopped")

\* The inductive invariant behind the properties above.  Between two CPU
\* steps the beam is inside its line; only the very first step starts with
\* a whole line and the reset cycles owed.
BeamInLine ==
    \/ ppux < DotsPerLine /\ cpuclock = 0
    \/ /\ ppux = DotsPerLine /\ cpuclock = ResetCycles
       /\ line = 0 /\ time = 0 /\ ~nmi /\ ~imgok

\* Visible lines among lines 1 to l.
LinesDrawn(l) ==
    IF l < FirstLine THEN 0
    ELSE IF l < EndLine THEN l - FirstLine + 1 ELSE EndLine - FirstLine

\* The loop's bookkeeping is consistent: pixels with lines, a pending NMI
\* with a beam that has been caught up, the sound clock with the beam.
IInv ==
    /\ TypeOK
    /\ phase # "ppu" => BeamInLine
    /\ DotsPerLine <= ppux /\ phase = "ppu" => ~nmi /\ ~imgok
    /\ imgok => line = 0
    /\ imgidx = IF imgok THEN Picture ELSE Width * LinesDrawn(line)
    /\ NmiSeesVBlank
    /\ SpriteFlagsEndWithPicture
    /\ line \notin 1..(VBlankLine - 1) => ~sprite_zero
    /\ ~imgok => 3 * time <= line * DotsPerLine + ppux
    /\ ~imgok => 3 * time <= line * DotsPerLine + DotsPerLine + 11
    /\ IF time = 0 THEN last_time <= 4 ELSE last_time = time

\* The loop keeps the beam's promise: see BeamClock.
Beam == INSTANCE BeamClock WITH
    DotsPerFrame <- FrameLines * DotsPerLine,
    VBlankDot    <- VBlankLine * DotsPerLine,
    StartDot     <- DotsPerLine,
    MaxCycles    <- DotsPerLine,
    beam         <- line * DotsPerLine + ppux,
    inVBlank     <- line >= VBlankLine,
    frameReady   <- imgok,
    nmi          <- nmi,
    halted       <- phase = "stopped"

BeamSpec == Beam!Spec
=============================================================================
