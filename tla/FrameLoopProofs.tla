-------------------------- MODULE FrameLoopProofs --------------------------
(***************************************************************************)
(* The invariants of FrameLoop and its refinement of BeamClock, proved for *)
(* every geometry, instruction costs and program the assumptions allow.    *)
(***************************************************************************)
EXTENDS FrameLoop, TLAPS

USE DEF ResetCycles, NmiCycles

\* Products of constants, bounded once so that the steps below stay linear.
LEMMA LineBounds ==
    ASSUME NEW l \in Nat, NEW x \in Nat
    PROVE  /\ l * DotsPerLine \in Nat
           /\ (l + 1) * DotsPerLine = l * DotsPerLine + DotsPerLine
           /\ (l < FrameLines => l * DotsPerLine + DotsPerLine <= FrameLines * DotsPerLine)
           /\ (l < VBlankLine => l * DotsPerLine + DotsPerLine <= VBlankLine * DotsPerLine)
           /\ (VBlankLine <= l => VBlankLine * DotsPerLine <= l * DotsPerLine)
           /\ VBlankLine * DotsPerLine \in Nat
           /\ FrameLines * DotsPerLine \in Nat
<1> DEFINE D == DotsPerLine
<1>0. D \in Nat /\ VBlankLine \in Nat /\ FrameLines \in Nat
  BY LineAssumption
<1>1. l * D \in Nat /\ VBlankLine * D \in Nat /\ FrameLines * D \in Nat
  BY <1>0, SMT
<1>2. (l + 1) * D = l * D + D
  BY <1>0, SMT
<1>3. \A m, n \in Nat : m <= n => m * D <= n * D
  <2> SUFFICES ASSUME NEW m \in Nat, NEW n \in Nat, m <= n
               PROVE  m * D <= n * D
    OBVIOUS
  <2>1. PICK k \in Nat : n = m + k
    BY SMT
  <2>2. n * D = m * D + k * D
    BY <2>1, <1>0, SMT
  <2>3. k * D \in Nat /\ m * D \in Nat
    BY <1>0, SMT
  <2> HIDE DEF D
  <2> QED
    BY <2>2, <2>3, SMT
<1>4. l < FrameLines => (l + 1) * D <= FrameLines * D
  BY <1>0, <1>3
<1>5. l < VBlankLine => (l + 1) * D <= VBlankLine * D
  BY <1>0, <1>3
<1>6. VBlankLine <= l => VBlankLine * D <= l * D
  BY <1>0, <1>3
<1> HIDE DEF D
<1>7. QED
  BY <1>1, <1>2, <1>4, <1>5, <1>6 DEF D

-----------------------------------------------------------------------------

\* The invariant holds at power on.
LEMMA InitIInv == Init => IInv
<1> SUFFICES ASSUME Init
             PROVE  IInv
  OBVIOUS
<1>1. PICK c \in InstrCosts : TRUE
  BY CostAssumption
<1>2. 21 < DotsPerLine /\ DotsPerLine \in Nat
  <2>1. c \in Nat /\ 0 < c /\ 3 * (c + 7) < DotsPerLine
    BY <1>1, CostAssumption
  <2> QED
    BY <2>1, LineAssumption, SMT
<1>3. TypeOK
  <2>1. ppux \in 0..(2 * DotsPerLine - 1) /\ tmpx \in 0..DotsPerLine
    BY <1>2, SMT DEF Init
  <2>2. line \in 0..(FrameLines - 1)
    BY LineAssumption, SMT DEF Init
  <2>3. time \in 0..MaxTime /\ last_time \in 0..MaxTime
    BY ClockAssumption, SMT DEF Init, MaxTime
  <2> QED
    BY <2>1, <2>2, <2>3 DEF Init, TypeOK, NoFlags
<1>4. Width * LinesDrawn(0) = 0
  BY LineAssumption, ImageAssumption, SMT DEF LinesDrawn
<1>5. line * DotsPerLine = 0
  BY <1>2, SMT DEF Init
<1>6. QED
  BY <1>2, <1>3, <1>4, <1>5, SMT
     DEF Init, IInv, BeamInLine, NmiSeesVBlank, SpriteFlagsEndWithPicture, NoFlags

\* A CPU step starts with the beam inside its line and owes it less than
\* one more line; its sound write is paid for by at least four cycles.
LEMMA CpuRunIInv ==
    ASSUME IInv,
           NEW reads \in StatusReads, NEW write \in Writes,
           NEW cost \in CostsOf(write), CpuRun(reads, write, cost)
    PROVE  IInv'
<1> DEFINE B == line * DotsPerLine
           F == FrameLines * DotsPerLine
           t == time'
           x == ppux'
<1>1. cost \in Nat /\ 0 < cost /\ 3 * (cost + 7) < DotsPerLine /\ DotsPerLine \in Nat
  BY CostAssumption, LineAssumption DEF CostsOf
<1>2. write = "apu" => 4 <= cost
  BY ClockAssumption DEF CostsOf
<1>3. /\ TypeOK /\ BeamInLine /\ phase = "cpu" /\ ~imgok
      /\ phase' = "ppu" /\ line' = line /\ imgok' = imgok /\ imgidx' = imgidx
      /\ sprite_zero' = sprite_zero /\ frame_length' = frame_length
      /\ nmi' = FALSE
  BY DEF CpuRun, IInv, ClearNmi
<1>4. /\ x \in 0..(2 * DotsPerLine - 1)
      /\ ppux + 3 * cost <= x
      /\ ppux \in 0..DotsPerLine /\ tmpx' = ppux
  BY <1>1, <1>3, SMT DEF CpuRun, BeamInLine, TypeOK, Dots
<1>5. B \in Nat /\ F \in Nat /\ B + DotsPerLine <= F /\ F <= 3 * FrameLength + 3
  <2>1. line \in Nat /\ line < FrameLines
    BY <1>3, LineAssumption, SMT DEF TypeOK
  <2> QED
    BY <2>1, LineBounds, ClockAssumption
<1>6. /\ t \in Nat /\ t <= time + 4 /\ time \in Nat
      /\ 3 * t <= 3 * time + 3 * cost
      /\ IF t = 0 THEN last_time' <= 4 ELSE last_time' = t
      /\ last_time' \in Nat
  BY <1>1, <1>2, <1>3, SMT DEF CpuRun, IInv, TypeOK, Clock
<1>7. 3 * time <= B + ppux
  BY <1>3 DEF IInv
<1>. HIDE DEF B, F, t, x
<1>8. 3 * t <= B + x
  BY <1>1, <1>4, <1>5, <1>6, <1>7, SMT
<1>9. 3 * t <= B + DotsPerLine + 11
  <2>1. CASE ppux < DotsPerLine
    BY <2>1, <1>1, <1>4, <1>5, <1>6, <1>7, SMT
  <2>2. CASE time = 0
    BY <2>2, <1>1, <1>5, <1>6, SMT
  <2> QED
    BY <2>1, <2>2, <1>3 DEF BeamInLine
<1>10. t \in 0..MaxTime /\ last_time' \in 0..MaxTime
  BY <1>1, <1>5, <1>6, <1>9, ClockAssumption, SMT DEF MaxTime
<1>11. /\ status' \in [vblank : BOOLEAN, hit : BOOLEAN, overflow : BOOLEAN]
       /\ line \notin 1..(VBlankLine - 1) => ~status'.hit /\ ~status'.overflow
  BY <1>3 DEF CpuRun, IInv, TypeOK, SpriteFlagsEndWithPicture, ReadStatus, NoFlags
<1>12. cpuclock' \in Nat
  BY <1>1, <1>3, SMT DEF CpuRun, TypeOK
<1>13. nmiEnable' \in BOOLEAN /\ layers' \in SUBSET {"bg", "sp"}
  BY <1>3 DEF CpuRun, TypeOK
<1>14. TypeOK'
  BY <1>3, <1>4, <1>10, <1>11, <1>12, <1>13 DEF TypeOK, t, x
<1> QED
  BY <1>3, <1>6, <1>8, <1>9, <1>11, <1>14
     DEF IInv, NmiSeesVBlank, SpriteFlagsEndWithPicture, LinesDrawn, B, t, x

\* Drawing a line adds the pixels that LinesDrawn counts for it.
LEMMA PixelsAdd ==
    ASSUME NEW l \in Nat
    PROVE  Width * LinesDrawn(l + 1) = Width * LinesDrawn(l) + PixelsOf(l + 1)
<1>1. /\ FirstLine \in Nat /\ EndLine \in Nat /\ 1 <= FirstLine
      /\ FirstLine < EndLine /\ Width \in Nat
  BY LineAssumption, ImageAssumption
<1>2. CASE IsVisible(l + 1)
  <2>1. LinesDrawn(l + 1) = LinesDrawn(l) + 1 /\ LinesDrawn(l) \in Nat
    BY <1>1, <1>2, SMT DEF IsVisible, LinesDrawn
  <2>2. Width * (LinesDrawn(l) + 1) = Width * LinesDrawn(l) + Width
    BY <1>1, <2>1, SMT
  <2> QED
    BY <1>2, <2>1, <2>2 DEF PixelsOf
<1>3. CASE ~IsVisible(l + 1)
  <2>1. LinesDrawn(l + 1) = LinesDrawn(l) /\ LinesDrawn(l) \in Nat
    BY <1>1, <1>3, SMT DEF IsVisible, LinesDrawn
  <2>2. Width * LinesDrawn(l) \in Nat
    BY <1>1, <2>1, SMT
  <2> QED
    BY <1>3, <2>1, <2>2, SMT DEF PixelsOf
<1> QED
  BY <1>2, <1>3

\* The branch an iteration takes is decided by the new line's number.
LEMMA LineStepCases ==
    ASSUME IInv, LineStep
    PROVE  \/ line + 1 < VBlankLine /\ RenderFrame(line + 1) /\ line' = line + 1
           \/ line + 1 = VBlankLine /\ InVBlank /\ line' = line + 1
           \/ line + 1 = FrameLines /\ PostRender /\ line' = 0
           \/ /\ VBlankLine < line + 1 /\ line + 1 # FrameLines
              /\ BlankLine /\ line' = line + 1
<1>1. /\ line \in Nat /\ VBlankLine \in Nat /\ FrameLines \in Nat
      /\ VBlankLine < FrameLines
  BY LineAssumption, SMT DEF IInv, TypeOK
<1>2. line' = IF line + 1 = FrameLines THEN 0 ELSE line + 1
  BY DEF LineStep, LineAfter
<1>3. CASE line + 1 < VBlankLine
  <2>1. line + 1 # VBlankLine /\ line + 1 # FrameLines
    BY <1>1, <1>3, SMT
  <2> QED
    BY <1>2, <1>3, <2>1 DEF LineStep
<1>4. CASE line + 1 = VBlankLine
  <2>1. ~(line + 1 < VBlankLine) /\ line + 1 # FrameLines
    BY <1>1, <1>4, SMT
  <2> QED
    BY <1>2, <1>4, <2>1 DEF LineStep
<1>5. CASE line + 1 = FrameLines
  <2>1. ~(line + 1 < VBlankLine) /\ line + 1 # VBlankLine
    BY <1>1, <1>5, SMT
  <2> QED
    BY <1>2, <1>5, <2>1 DEF LineStep
<1>6. CASE VBlankLine < line + 1 /\ line + 1 # FrameLines
  <2>1. ~(line + 1 < VBlankLine) /\ line + 1 # VBlankLine
    BY <1>1, <1>6, SMT
  <2> QED
    BY <1>2, <1>6, <2>1 DEF LineStep
<1> QED
  BY <1>1, <1>3, <1>4, <1>5, <1>6, SMT

\* The conjuncts of IInv about the three clocks survive an iteration of
\* the loop: the dots a line loses are the dots the line number gains.
LEMMA LineStepClocks ==
    ASSUME IInv, LineStep
    PROVE  /\ ppux' \in 0..(DotsPerLine - 1) /\ line' \in 0..(FrameLines - 1)
           /\ time' = time /\ last_time' = last_time
           /\ imgok' <=> line + 1 = FrameLines
           /\ imgok' => line' = 0
           /\ ~imgok' => line' = line + 1
           /\ ~imgok' => 3 * time' <= line' * DotsPerLine + ppux'
           /\ ~imgok' => 3 * time' <= line' * DotsPerLine + DotsPerLine + 11
<1> DEFINE B == line * DotsPerLine
           B1 == (line + 1) * DotsPerLine
           x == ppux'
<1>1. /\ line \in Nat /\ line < FrameLines /\ time \in Nat
      /\ DotsPerLine \in Nat /\ DotsPerLine <= ppux /\ ppux < 2 * DotsPerLine
      /\ FrameLines \in Nat /\ VBlankLine \in Nat /\ 1 < VBlankLine
      /\ VBlankLine < FrameLines /\ ppux \in Nat
  BY LineAssumption, SMT DEF IInv, TypeOK, LineStep
<1>2. B \in Nat /\ B1 = B + DotsPerLine
  BY <1>1, LineBounds
<1>3. ~imgok /\ 3 * time <= B + ppux
  BY <1>1 DEF IInv, LineStep
<1>4. x = ppux - DotsPerLine /\ time' = time /\ last_time' = last_time
  BY DEF LineStep, DotsLeft, apuVars
<1>5. /\ imgok' <=> line + 1 = FrameLines
      /\ line' = IF line + 1 = FrameLines THEN 0 ELSE line + 1
  <2>1. CASE line + 1 < VBlankLine /\ RenderFrame(line + 1) /\ line' = line + 1
    BY <1>1, <1>3, <2>1, SMT DEF RenderFrame
  <2>2. CASE line + 1 = VBlankLine /\ InVBlank /\ line' = line + 1
    BY <1>1, <1>3, <2>2, SMT DEF InVBlank
  <2>3. CASE line + 1 = FrameLines /\ PostRender /\ line' = 0
    BY <2>3 DEF PostRender
  <2>4. CASE /\ VBlankLine < line + 1 /\ line + 1 # FrameLines
             /\ BlankLine /\ line' = line + 1
    BY <1>3, <2>4 DEF BlankLine
  <2> QED
    BY <2>1, <2>2, <2>3, <2>4, LineStepCases
<1>6. line' \in 0..(FrameLines - 1)
  BY <1>1, <1>5, SMT
<1> HIDE DEF B, B1, x
<1>7. x \in 0..(DotsPerLine - 1)
  BY <1>1, <1>4, SMT
<1>8. 3 * time <= B1 + x /\ 3 * time <= B1 + DotsPerLine + 11
  BY <1>1, <1>2, <1>3, <1>4, SMT
<1> QED
  BY <1>4, <1>5, <1>6, <1>7, <1>8 DEF B1, x

\* An iteration of the loop: the four kinds of line one by one.
LEMMA LineStepIInv ==
    ASSUME IInv, LineStep
    PROVE  IInv'
<1>1. /\ TypeOK /\ phase = "ppu" /\ ~nmi /\ ~imgok
      /\ phase' = "ppu" /\ cpuclock' = cpuclock /\ nmiEnable' = nmiEnable
      /\ layers' = layers /\ frame_length' = frame_length /\ tmpx' = 0
      /\ imgidx = Width * LinesDrawn(line)
  BY DEF IInv, LineStep, apuVars
<1>2. /\ line \in Nat /\ VBlankLine \in Nat /\ FrameLines \in Nat
      /\ DotsPerLine \in Nat /\ 1 < VBlankLine /\ VBlankLine < FrameLines
  BY <1>1, LineAssumption, SMT DEF TypeOK
<1>3. /\ ppux' \in 0..(DotsPerLine - 1) /\ line' \in 0..(FrameLines - 1)
      /\ time' = time /\ last_time' = last_time
      /\ imgok' => line' = 0
      /\ ~imgok' => 3 * time' <= line' * DotsPerLine + ppux'
      /\ ~imgok' => 3 * time' <= line' * DotsPerLine + DotsPerLine + 11
  BY LineStepClocks
<1>4. ~(DotsPerLine <= ppux')
  BY <1>2, <1>3, SMT
<1>5. /\ nmi' \in BOOLEAN /\ sprite_zero' \in BOOLEAN /\ imgok' \in BOOLEAN
      /\ imgidx' \in Nat
      /\ imgidx' = IF imgok' THEN Picture ELSE Width * LinesDrawn(line')
      /\ status' \in [vblank : BOOLEAN, hit : BOOLEAN, overflow : BOOLEAN]
      /\ nmi' => line' = VBlankLine /\ status'.vblank
      /\ line' \notin 1..(VBlankLine - 1) =>
             ~sprite_zero' /\ ~status'.hit /\ ~status'.overflow
  <2>0. /\ imgidx \in Nat /\ Width \in Nat
        /\ status \in [vblank : BOOLEAN, hit : BOOLEAN, overflow : BOOLEAN]
        /\ line \notin 1..(VBlankLine - 1) => ~status.hit /\ ~status.overflow
        /\ nmiEnable \in BOOLEAN /\ sprite_zero \in BOOLEAN
    BY <1>1, ImageAssumption DEF TypeOK, IInv, SpriteFlagsEndWithPicture
  <2>1. CASE line + 1 < VBlankLine /\ RenderFrame(line + 1) /\ line' = line + 1
    <3>1. line' \in 1..(VBlankLine - 1)
      BY <1>2, <2>1, SMT
    <3>2. imgidx' = Width * LinesDrawn(line') /\ imgidx' \in Nat
      <4>1. imgidx' = imgidx + PixelsOf(line + 1)
        BY <2>1 DEF RenderFrame
      <4>2. PixelsOf(line + 1) \in Nat
        BY <2>0 DEF PixelsOf
      <4>3. imgidx' = Width * LinesDrawn(line + 1)
        BY <4>1, <1>1, <1>2, PixelsAdd
      <4> QED
        BY <4>1, <4>2, <4>3, <2>0, <2>1, SMT
    <3>3. nmi' = FALSE /\ imgok' = FALSE
      BY <1>1, <2>1 DEF RenderFrame, TypeOK
    <3>4. sprite_zero' \in BOOLEAN
      BY <2>1 DEF RenderFrame, NewLineSpriteZero
    <3>5. status' \in [vblank : BOOLEAN, hit : BOOLEAN, overflow : BOOLEAN]
      BY <2>0, <2>1 DEF RenderFrame
    <3> QED
      BY <3>1, <3>2, <3>3, <3>4, <3>5
  <2>2. CASE line + 1 = VBlankLine /\ InVBlank /\ line' = line + 1
    <3>1. /\ status' = [vblank |-> TRUE, hit |-> FALSE, overflow |-> FALSE]
          /\ sprite_zero' = FALSE /\ imgok' = FALSE /\ imgidx' = imgidx
          /\ nmi' \in BOOLEAN
      BY <1>1, <2>0, <2>2
         DEF InVBlank, VBlankFlags, NoFlags, NewLineSpriteZero, TypeOK
    <3>2. PixelsOf(line + 1) = 0
      BY <1>2, <2>2, LineAssumption, SMT DEF PixelsOf, IsVisible
    <3>3. Width * LinesDrawn(line + 1) = Width * LinesDrawn(line) + 0
      BY <3>2, <1>2, PixelsAdd
    <3>4. imgidx' = Width * LinesDrawn(line')
      BY <3>1, <3>3, <2>0, <1>1, <2>2, SMT
    <3> QED
      BY <3>1, <3>4, <2>0, <2>2
  <2>3. CASE line + 1 = FrameLines /\ PostRender /\ line' = 0
    <3>1. line \notin 1..(VBlankLine - 1)
      BY <1>2, <2>3, SMT
    <3>2. /\ status' = [status EXCEPT !.vblank = FALSE]
          /\ sprite_zero' = FALSE /\ imgok' = TRUE /\ imgidx' = imgidx
          /\ nmi' = FALSE
      BY <1>1, <2>3 DEF PostRender, NewLineSpriteZero, TypeOK
    <3>3. LinesDrawn(line) = EndLine - FirstLine
      BY <1>2, <2>3, LineAssumption, SMT DEF LinesDrawn
    <3>4. imgidx' = Picture
      BY <3>2, <3>3, <1>1 DEF Picture
    <3> QED
      BY <3>1, <3>2, <3>4, <2>0
  <2>4. CASE /\ VBlankLine < line + 1 /\ line + 1 # FrameLines
             /\ BlankLine /\ line' = line + 1
    <3>1. line \notin 1..(VBlankLine - 1) /\ line' \notin 1..(VBlankLine - 1)
      BY <1>2, <2>4, SMT
    <3>2. /\ status' = status /\ sprite_zero' = FALSE /\ imgok' = FALSE
          /\ imgidx' = imgidx /\ nmi' = FALSE
      BY <1>1, <2>4 DEF BlankLine, NewLineSpriteZero, TypeOK
    <3>3. LinesDrawn(line) = LinesDrawn(line')
      BY <1>2, <2>4, LineAssumption, SMT DEF LinesDrawn
    <3> QED
      BY <3>1, <3>2, <3>3, <1>1, <2>0
  <2> QED
    BY <2>1, <2>2, <2>3, <2>4, LineStepCases
<1>6. TypeOK'
  <2>1. ppux' \in 0..(2 * DotsPerLine - 1) /\ tmpx' \in 0..DotsPerLine
    BY <1>1, <1>2, <1>3, SMT
  <2> QED
    BY <1>1, <1>3, <1>5, <2>1 DEF TypeOK, MaxTime
<1> QED
  BY <1>1, <1>3, <1>4, <1>5, <1>6
     DEF IInv, NmiSeesVBlank, SpriteFlagsEndWithPicture

\* The end of Ppu::run leaves the beam inside its line; a hit is found only
\* on a line that drew sprite 0.
LEMMA FinishRunIInv ==
    ASSUME IInv, NEW opaque \in BOOLEAN, FinishRun(opaque)
    PROVE  IInv'
<1>1. /\ TypeOK /\ phase' = "cpu" /\ cpuclock' = 0 /\ tmpx' = 0
      /\ ppux' = ppux /\ ppux < DotsPerLine /\ nmi' = nmi /\ line' = line
      /\ sprite_zero' = sprite_zero /\ nmiEnable' = nmiEnable
      /\ layers' = layers /\ imgok' = imgok /\ imgidx' = imgidx
      /\ time' = time /\ frame_length' = frame_length /\ last_time' = last_time
      /\ opaque => sprite_zero
      /\ status' = [status EXCEPT !.hit = @ \/ opaque]
  BY DEF FinishRun, IInv, apuVars
<1>2. /\ status' \in [vblank : BOOLEAN, hit : BOOLEAN, overflow : BOOLEAN]
      /\ status'.vblank = status.vblank /\ status'.overflow = status.overflow
      /\ status'.hit => status.hit \/ sprite_zero
  BY <1>1 DEF TypeOK
<1>3. TypeOK'
  <2>1. 0 \in 0..DotsPerLine
    BY LineAssumption, SMT
  <2> QED
    BY <1>1, <1>2, <2>1 DEF TypeOK, MaxTime
<1> QED
  BY <1>1, <1>2, <1>3
     DEF IInv, BeamInLine, NmiSeesVBlank, SpriteFlagsEndWithPicture, LinesDrawn

\* The end of a frame: what is left of the sound clock is at most four
\* cycles, the time of the first write of the next frame.
LEMMA ShowIInv ==
    ASSUME IInv, NEW quit \in BOOLEAN, Show(quit)
    PROVE  IInv'
<1>1. /\ TypeOK /\ BeamInLine /\ imgok /\ line = 0
      /\ phase' \in {"cpu", "stopped"} /\ phase' # "ppu"
      /\ imgok' = FALSE /\ imgidx' = 0 /\ time' = 0
      /\ cpuclock' = cpuclock /\ nmi' = nmi /\ ppux' = ppux /\ line' = line
      /\ tmpx' = tmpx /\ sprite_zero' = sprite_zero /\ status' = status
      /\ nmiEnable' = nmiEnable /\ layers' = layers
  BY DEF Show, IInv, cpuVars, ClearedImgOk, ClearedImgIdx
<1>2. ppux \in Nat /\ DotsPerLine \in Nat /\ FrameLength \in Nat /\ FrameLength % 2 = 0
  BY <1>1, LineAssumption, ClockAssumption, SMT DEF TypeOK
<1>3. frame_length' \in {FrameLength, FrameLength + 1}
  BY <1>1, <1>2, SMT DEF Show, FlipLowBit, TypeOK
<1>4. last_time' \in 0..MaxTime /\ last_time' <= 4
  <2> DEFINE fl == frame_length'
  <2>1. fl \in {FrameLength, FrameLength + 1}
    BY <1>3
  <2>2. last_time' = (IF fl > last_time THEN fl ELSE last_time) - fl
    BY DEF Show, Leftover
  <2>3. last_time \in 0..(FrameLength + 4)
    BY <1>1 DEF TypeOK, MaxTime
  <2> HIDE DEF fl
  <2>4. (IF fl > last_time THEN fl ELSE last_time) - fl \in 0..4
    BY <1>2, <2>1, <2>3, SMT
  <2> DEFINE lt == last_time'
  <2>5. lt \in 0..4
    BY <2>2, <2>4
  <2> HIDE DEF lt
  <2>6. lt \in 0..(FrameLength + 4) /\ lt <= 4
    BY <1>2, <2>5, SMT
  <2> QED
    BY <2>6 DEF lt, MaxTime
<1>5. /\ line * DotsPerLine = 0 /\ 0 <= ppux /\ 0 <= DotsPerLine + 11
      /\ Width * LinesDrawn(line) = 0
  BY <1>1, <1>2, LineAssumption, ImageAssumption, SMT DEF LinesDrawn
<1>6. TypeOK'
  <2>1. 0 \in 0..MaxTime
    BY <1>2, SMT DEF MaxTime
  <2> QED
    BY <1>1, <1>3, <1>4, <2>1 DEF TypeOK, MaxTime
<1>7. 3 * time' <= line' * DotsPerLine + ppux'
  BY <1>1, <1>2, <1>5, SMT
<1>8. 3 * time' <= line' * DotsPerLine + DotsPerLine + 11
  BY <1>1, <1>2, <1>5, SMT
<1>9. BeamInLine'
  BY <1>1 DEF BeamInLine
<1> QED
  BY <1>1, <1>4, <1>5, <1>6, <1>7, <1>8, <1>9
     DEF IInv, NmiSeesVBlank, SpriteFlagsEndWithPicture, LinesDrawn

\* Every action keeps the invariant.
LEMMA StepIInv == IInv /\ [Next]_vars => IInv'
<1> SUFFICES ASSUME IInv, [Next]_vars
             PROVE  IInv'
  OBVIOUS
<1>1. CASE \E reads \in StatusReads, write \in Writes :
              \E cost \in CostsOf(write) : CpuRun(reads, write, cost)
  BY <1>1, CpuRunIInv
<1>2. CASE LineStep
  BY <1>2, LineStepIInv
<1>3. CASE \E opaque \in BOOLEAN : FinishRun(opaque)
  BY <1>3, FinishRunIInv
<1>4. CASE \E quit \in BOOLEAN : Show(quit)
  BY <1>4, ShowIInv
<1>5. CASE UNCHANGED vars
  BY <1>5 DEF IInv, TypeOK, BeamInLine, NmiSeesVBlank, MaxTime,
     SpriteFlagsEndWithPicture, vars, cpuVars, ppuVars, apuVars
<1> QED
  BY <1>1, <1>2, <1>3, <1>4, <1>5 DEF Next, Stopped

\* The inductive invariant of the main loop.
THEOREM LoopInvariant == Spec => []IInv
<1>1. Init => IInv
  BY InitIInv
<1>2. IInv /\ [Next]_vars => IInv'
  BY StepIInv
<1> QED
  BY <1>1, <1>2, PTL DEF Spec

\* Types: in particular the beam is never two lines late and the sound
\* clock never more than four cycles past the frame.
THEOREM TypeCorrect == Spec => []TypeOK
<1>1. IInv => TypeOK
  BY DEF IInv
<1> QED
  BY <1>1, LoopInvariant, PTL

\* imgdata never overflows and a shown frame has every pixel, for every
\* geometry whose picture fits the array.
THEOREM FramesComplete == Spec => []FrameComplete
<1>1. IInv => FrameComplete
  <2> SUFFICES ASSUME IInv
               PROVE  imgidx <= ImgSize
    BY DEF IInv, FrameComplete
  <2>1. /\ Width \in Nat /\ EndLine \in Nat /\ FirstLine \in Nat
        /\ FirstLine < EndLine /\ Picture <= ImgSize /\ ImgSize \in Nat
    BY LineAssumption, ImageAssumption DEF Picture
  <2>2. line \in Nat
    BY LineAssumption, SMT DEF IInv, TypeOK
  <2>3. LinesDrawn(line) \in 0..(EndLine - FirstLine)
    BY <2>1, <2>2, SMT DEF LinesDrawn
  <2>4. \A n \in 0..(EndLine - FirstLine) : Width * n <= Width * (EndLine - FirstLine)
    <3> SUFFICES ASSUME NEW n \in 0..(EndLine - FirstLine)
                 PROVE  Width * n <= Width * (EndLine - FirstLine)
      OBVIOUS
    <3> DEFINE h == EndLine - FirstLine
               k == h - n
    <3>1. h \in Nat /\ n \in Nat /\ k \in Nat /\ h = n + k
      BY <2>1, SMT
    <3>2. Width * n \in Nat /\ Width * k \in Nat
      BY <3>1, <2>1, SMT
    <3> HIDE DEF k, h
    <3>3. Width * (n + k) = Width * n + Width * k
      BY <3>1, <2>1, SMT
    <3>4. Width * n <= Width * h
      BY <3>1, <3>2, <3>3, SMT
    <3> QED
      BY <3>4 DEF h
  <2>5. Width * LinesDrawn(line) <= Picture
    BY <2>3, <2>4 DEF Picture
  <2>6. imgidx <= Picture /\ imgidx \in Nat /\ Picture \in Nat
    BY <2>1, <2>5, SMT DEF IInv, TypeOK, Picture
  <2> QED
    BY <2>1, <2>6, SMT
<1> QED
  BY <1>1, LoopInvariant, PTL

\* The assertion of Nes_Apu::run_until_ never fails, because a register
\* write costs at least the four cycles by which the sound clock advances.
THEOREM ApuClockNeverBack == Spec => []ApuClockOrdered
<1>1. IInv => ApuClockOrdered
  BY ClockAssumption, SMT DEF IInv, TypeOK, ApuClockOrdered, Clock, MaxTime
<1> QED
  BY <1>1, LoopInvariant, PTL

\* An NMI that waits is that of the vertical blank the flag shows: it is set
\* with the flag, and answered before the beam can leave the line.
THEOREM NmiFindsFlag == Spec => []NmiSeesVBlank
<1>1. IInv => NmiSeesVBlank
  BY DEF IInv
<1> QED
  BY <1>1, LoopInvariant, PTL

\* No sprite flag outlives its picture: outside of the visible lines no line
\* has a sprite 0 to be hit, so the search of FinishRun finds nothing there.
THEOREM SpriteFlagsEnd == Spec => []SpriteFlagsEndWithPicture
<1>1. IInv => SpriteFlagsEndWithPicture
  BY DEF IInv
<1> QED
  BY <1>1, LoopInvariant, PTL

-----------------------------------------------------------------------------
(* FrameLoop implements BeamClock.  The beam is line * DotsPerLine + ppux, *)
(* the dots the last CPU step owes included, so an iteration of the loop   *)
(* moves dots from ppux to line and leaves it where it is.                 *)

\* The loop starts as the beam does.
LEMMA InitBeam == Init => Beam!Init
<1> SUFFICES ASSUME Init
             PROVE  Beam!Init
  OBVIOUS
<1>1. line * DotsPerLine + ppux = DotsPerLine
  BY LineAssumption, SMT DEF Init
<1>2. (line >= VBlankLine) = FALSE
  BY LineAssumption, SMT DEF Init
<1>3. (phase = "stopped") = FALSE
  BY DEF Init
<1> QED
  BY <1>1, <1>2, <1>3 DEF Init, Beam!Init

\* An instruction moves the beam by its cycles ...
LEMMA CpuRunBeam ==
    ASSUME IInv,
           NEW reads \in StatusReads, NEW write \in Writes,
           NEW cost \in CostsOf(write), CpuRun(reads, write, cost)
    PROVE  Beam!Execute
<1> DEFINE B == line * DotsPerLine
           cycles == cpuclock'
<1>1. /\ cost \in Nat /\ 0 < cost /\ 3 * (cost + 7) < DotsPerLine
      /\ DotsPerLine \in Nat
  BY CostAssumption, LineAssumption DEF CostsOf
<1>2. /\ TypeOK /\ BeamInLine /\ phase = "cpu" /\ phase' = "ppu" /\ ~imgok
      /\ nmi' = FALSE /\ line' = line /\ imgok' = imgok
      /\ ppux' = ppux + 3 * cycles
  BY DEF CpuRun, IInv, ClearNmi, Dots
<1>3. cycles \in 1..DotsPerLine
  BY <1>1, <1>2, SMT DEF CpuRun, BeamInLine, TypeOK
<1>4. /\ B \in Nat /\ line \in Nat /\ line < FrameLines
      /\ FrameLines * DotsPerLine \in Nat /\ VBlankLine * DotsPerLine \in Nat
      /\ B + DotsPerLine <= FrameLines * DotsPerLine
      /\ line < VBlankLine => B + DotsPerLine <= VBlankLine * DotsPerLine
      /\ VBlankLine \in Nat
  <2>1. line \in Nat /\ line < FrameLines
    BY <1>2, LineAssumption, SMT DEF TypeOK
  <2> QED
    BY <2>1, LineBounds, LineAssumption
<1>5. line < VBlankLine => B + ppux < VBlankLine * DotsPerLine
  <2>1. CASE ppux < DotsPerLine
    <3> HIDE DEF B
    <3>1. ppux \in Nat
      BY <1>1, <1>2, SMT DEF TypeOK
    <3> DEFINE V == VBlankLine * DotsPerLine
    <3>2. V \in Nat /\ (line < VBlankLine => B + DotsPerLine <= V)
      BY <1>4
    <3> HIDE DEF V
    <3>3. line < VBlankLine => B + ppux < V
      BY <1>1, <1>4, <2>1, <3>1, <3>2, SMT
    <3> QED
      BY <3>3 DEF V
  <2>2. CASE ppux = DotsPerLine /\ line = 0
    <3>1. B = 0
      BY <1>1, <2>2, SMT
    <3>2. DotsPerLine < VBlankLine * DotsPerLine
      <4>1. 0 < DotsPerLine
        BY <1>1, SMT
      <4>2. 1 * DotsPerLine + DotsPerLine <= VBlankLine * DotsPerLine
        BY LineBounds, LineAssumption
      <4> QED
        BY <1>1, <4>1, <4>2, <1>4, SMT
    <3> QED
      BY <3>1, <3>2, <2>2, <1>1, SMT
  <2> QED
    BY <1>2, <2>1, <2>2 DEF BeamInLine
<1>6. B + ppux < FrameLines * DotsPerLine
  <2> DEFINE F == FrameLines * DotsPerLine
  <2>1. F \in Nat /\ B + DotsPerLine <= F
    BY <1>4
  <2>2. line = 0 => DotsPerLine + DotsPerLine <= F
    <3>1. 1 * DotsPerLine + DotsPerLine <= FrameLines * DotsPerLine
      <4>1. 1 < FrameLines
        BY LineAssumption, SMT
      <4> QED
        BY <4>1, LineBounds
    <3> QED
      BY <3>1, <1>1, SMT
  <2>3. line = 0 => B = 0
    BY <1>1, SMT
  <2>4. ppux \in Nat
    BY <1>1, <1>2, SMT DEF TypeOK
  <2>5. 0 < DotsPerLine
    BY <1>1, SMT
  <2> HIDE DEF B, F
  <2>6. ppux < DotsPerLine => B + ppux < F
    BY <1>1, <1>4, <2>1, <2>4, SMT
  <2>7. ppux = DotsPerLine /\ line = 0 => B + ppux < F
    BY <1>1, <2>1, <2>2, <2>3, <2>5, SMT
  <2>8. B + ppux < F
    BY <1>2, <2>6, <2>7 DEF BeamInLine
  <2> QED
    BY <2>8 DEF F
<1>7. line' * DotsPerLine + ppux' = (line * DotsPerLine + ppux) + 3 * cycles
  <2>1. ppux \in Nat
    BY <1>1, <1>2, SMT DEF TypeOK
  <2> HIDE DEF cycles, B
  <2>2. B + (ppux + 3 * cycles) = (B + ppux) + 3 * cycles
    BY <1>1, <1>3, <1>4, <2>1, SMT
  <2> QED
    BY <1>2, <2>2 DEF B
<1>8. ~Beam!VBlankDue
  <2> DEFINE b == B + ppux
             V == VBlankLine * DotsPerLine
  <2>1. b \in Int /\ V \in Nat
    BY <1>1, <1>2, <1>4, SMT DEF TypeOK
  <2>2. line < VBlankLine => b < V
    BY <1>5
  <2> HIDE DEF b, V
  <2>3. ~(~(line >= VBlankLine) /\ b >= V)
    BY <1>4, <2>1, <2>2, SMT
  <2> QED
    BY <2>3 DEF Beam!VBlankDue, b, V
<1>9. ~Beam!FrameDue
  <2> DEFINE b == B + ppux
             F == FrameLines * DotsPerLine
  <2>1. b \in Int /\ F \in Nat /\ b < F
    BY <1>1, <1>2, <1>4, <1>6, SMT DEF TypeOK
  <2> HIDE DEF b, F
  <2>2. ~(b >= F)
    BY <2>1, SMT
  <2> QED
    BY <2>2 DEF Beam!FrameDue, b, F
<1>10. (phase = "stopped") = FALSE /\ (phase' = "stopped") = FALSE
  BY <1>2
<1>11. \E c \in 1..DotsPerLine :
          line' * DotsPerLine + ppux' = (line * DotsPerLine + ppux) + 3 * c
  BY <1>3, <1>7
<1> QED
  BY <1>2, <1>8, <1>9, <1>10, <1>11 DEF Beam!Execute

\* ... a line step enters the blank, ends the frame, or is nothing ...
LEMMA LineStepBeam ==
    ASSUME IInv, LineStep
    PROVE  Beam!EnterVBlank \/ Beam!EndFrame \/ UNCHANGED Beam!vars
<1> DEFINE B == line * DotsPerLine
           F == FrameLines * DotsPerLine
           V == VBlankLine * DotsPerLine
           x == ppux'
<1>1. /\ TypeOK /\ phase = "ppu" /\ phase' = phase /\ ~nmi /\ ~imgok
      /\ DotsPerLine <= ppux /\ x = ppux - DotsPerLine
      /\ line \in Nat /\ line < FrameLines /\ ppux \in Nat
      /\ DotsPerLine \in Nat /\ VBlankLine \in Nat /\ FrameLines \in Nat
      /\ VBlankLine < FrameLines
  BY LineAssumption, SMT DEF IInv, TypeOK, LineStep, DotsLeft
<1>2. /\ B \in Nat /\ F \in Nat /\ V \in Nat
      /\ (line + 1) * DotsPerLine = B + DotsPerLine
  BY <1>1, LineBounds
<1>3. imgok \in BOOLEAN /\ nmi \in BOOLEAN /\ nmiEnable \in BOOLEAN
  BY <1>1 DEF TypeOK
<1>4. (phase = "stopped") = FALSE /\ (phase' = "stopped") = FALSE
  BY <1>1
<1>5. line' = line + 1 => line' * DotsPerLine + ppux' = line * DotsPerLine + ppux
  <2>1. B + DotsPerLine + x = B + ppux
    <3> HIDE DEF B, x
    <3> QED
      BY <1>1, <1>2, SMT
  <2> QED
    BY <1>2, <2>1
<1>6. CASE line + 1 < VBlankLine /\ RenderFrame(line + 1) /\ line' = line + 1
  <2>1. nmi' = nmi /\ imgok' = imgok
    BY <1>6 DEF RenderFrame
  <2>2. (line' >= VBlankLine) = (line >= VBlankLine)
    BY <1>1, <1>6, SMT
  <2> QED
    BY <1>1, <1>5, <1>6, <2>1, <2>2 DEF Beam!vars
<1>7. CASE line + 1 = VBlankLine /\ InVBlank /\ line' = line + 1
  <2>1. nmi' \in BOOLEAN /\ imgok' = imgok
    BY <1>3, <1>7 DEF InVBlank
  <2>2. (line' >= VBlankLine) = TRUE /\ (line >= VBlankLine) = FALSE
    BY <1>1, <1>7, SMT
  <2>3. B + ppux >= V
    <3>1. V = B + DotsPerLine
      BY <1>2, <1>7
    <3> HIDE DEF B, V
    <3> QED
      BY <1>1, <1>2, <3>1, SMT
  <2> QED
    BY <1>1, <1>4, <1>5, <1>7, <2>1, <2>2, <2>3 DEF Beam!EnterVBlank, Beam!VBlankDue
<1>8. CASE line + 1 = FrameLines /\ PostRender /\ line' = 0
  <2>1. nmi' = nmi /\ imgok' = TRUE
    BY <1>8 DEF PostRender
  <2>2. (line' >= VBlankLine) = FALSE /\ (line >= VBlankLine) = TRUE
    BY <1>1, <1>8, LineAssumption, SMT
  <2>3. F = B + DotsPerLine
    BY <1>2, <1>8
  <2>4. 0 * DotsPerLine = 0
    BY <1>1, SMT
  <2>5. B + ppux >= F /\ 0 + x = (B + ppux) - F
    <3> HIDE DEF B, F, x
    <3> QED
      BY <1>1, <1>2, <2>3, SMT
  <2>6. line' * DotsPerLine + ppux' = (line * DotsPerLine + ppux) - FrameLines * DotsPerLine
    BY <1>8, <2>4, <2>5
  <2> QED
    BY <1>1, <1>4, <2>1, <2>2, <2>5, <2>6 DEF Beam!EndFrame, Beam!FrameDue
<1>9. CASE /\ VBlankLine < line + 1 /\ line + 1 # FrameLines
           /\ BlankLine /\ line' = line + 1
  <2>1. nmi' = nmi /\ imgok' = imgok
    BY <1>9 DEF BlankLine
  <2>2. (line' >= VBlankLine) = (line >= VBlankLine)
    BY <1>1, <1>9, SMT
  <2> QED
    BY <1>1, <1>5, <1>9, <2>1, <2>2 DEF Beam!vars
<1> QED
  BY <1>6, <1>7, <1>8, <1>9, LineStepCases

\* ... and showing the picture shows it.
LEMMA ShowBeam ==
    ASSUME IInv, NEW quit \in BOOLEAN, Show(quit)
    PROVE  Beam!Show
<1>1. /\ TypeOK /\ BeamInLine /\ phase = "cpu" /\ imgok /\ line = 0
      /\ imgok' = FALSE /\ ppux' = ppux /\ line' = line /\ nmi' = nmi
  BY DEF Show, IInv, cpuVars, ClearedImgOk
<1>2. DotsPerLine \in Nat /\ ppux \in Nat /\ ppux < DotsPerLine
  BY <1>1, LineAssumption, SMT DEF TypeOK, BeamInLine
<1>3. ~Beam!FrameDue
  <2> DEFINE F == FrameLines * DotsPerLine
  <2>1. F \in Nat /\ 0 * DotsPerLine + DotsPerLine <= F
    <3>1. 0 < FrameLines
      BY LineAssumption, SMT
    <3> QED
      BY <3>1, LineBounds
  <2>2. 0 * DotsPerLine = 0
    BY <1>2, SMT
  <2> HIDE DEF F
  <2>3. ~(0 + ppux >= F)
    BY <1>2, <2>1, <2>2, SMT
  <2> QED
    BY <1>1, <2>2, <2>3 DEF Beam!FrameDue, F
<1>4. (phase' = "stopped") \in BOOLEAN
  OBVIOUS
<1> QED
  BY <1>1, <1>3, <1>4 DEF Beam!Show

\* Every behaviour of the main loop is one of BeamClock: the beam loses no
\* dot, and a vertical blank, its NMI and the end of a frame are handled
\* before the program executes anything more.
THEOREM LoopKeepsBeam == Spec => BeamSpec
<1>1. Init => Beam!Init
  BY InitBeam
<1>2. IInv /\ [Next]_vars => [Beam!Next]_(Beam!vars)
  <2> SUFFICES ASSUME IInv, [Next]_vars
               PROVE  Beam!Next \/ UNCHANGED Beam!vars
    OBVIOUS
  <2>1. CASE \E reads \in StatusReads, write \in Writes :
                \E cost \in CostsOf(write) : CpuRun(reads, write, cost)
    BY <2>1, CpuRunBeam DEF Beam!Next
  <2>2. CASE LineStep
    BY <2>2, LineStepBeam DEF Beam!Next
  <2>3. CASE \E opaque \in BOOLEAN : FinishRun(opaque)
    <3>1. /\ ppux' = ppux /\ line' = line /\ nmi' = nmi /\ imgok' = imgok
          /\ (phase = "stopped") = FALSE /\ (phase' = "stopped") = FALSE
      BY <2>3 DEF FinishRun
    <3> QED
      BY <3>1 DEF Beam!vars
  <2>4. CASE \E quit \in BOOLEAN : Show(quit)
    BY <2>4, ShowBeam DEF Beam!Next
  <2>5. CASE UNCHANGED vars
    BY <2>5 DEF vars, ppuVars, cpuVars, Beam!vars
  <2> QED
    BY <2>1, <2>2, <2>3, <2>4, <2>5 DEF Next, Stopped
<1> QED
  BY <1>1, <1>2, LoopInvariant, PTL DEF Spec, BeamSpec, Beam!Spec
=============================================================================
