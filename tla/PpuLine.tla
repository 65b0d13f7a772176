------------------------------ MODULE PpuLine ------------------------------
(***************************************************************************)
(* Sprites: the evaluation of the sprites of a line (Ppu::build_sp_line),  *)
(* which leaves in sp_line_buffer the sprite seen at each pixel and mixes  *)
(* them into bg_line_buffer, and the search for sprite 0 that Ppu::run     *)
(* makes after every CPU step in the pixels the beam has just passed.      *)
(*                                                                         *)
(* What FrameLoop leaves to choice is computed here: which pixels of       *)
(* sprite 0 are opaque and when they are met.  A sprite has the same       *)
(* opaque columns in each of its rows.                                     *)
(*                                                                         *)
(* The program stores sprites byte by byte through two ports, or a page of *)
(* its RAM at once (Dma::run), at any time: in the middle of a line too,   *)
(* when the buffers are still those of the old sprites.                    *)
(***************************************************************************)
EXTENDS Integers, FiniteSets

CONSTANTS
    DotsPerLine,    \* 341
    Width,          \* 256
    VBlankLine,     \* 240
    FrameLines,     \* 262
    FirstLine,      \* 8, first line with a background
    EndLine,        \* 232, first line after those
    SpriteCount,    \* 63: the loop ends before the last sprite
    PerLine,        \* 8 sprites drawn on a line
    SpriteWidth,    \* 8 pixels, and the width of the clipped left column
    SpriteHeight,   \* 8, or 16 with is_bigsize
    StepDots,       \* dots the beam moves in a CPU step
    Memories,       \* what sprite_ram holds when the picture begins
    BgPixels,       \* the opaque pixels of the background
    Pages,          \* what the pages of the RAM hold, as sprites
    Values,         \* bytes to store in a sprite's four fields
    Addresses,      \* bytes of sprite_ram the program selects
    MaxStores       \* bound: stores

\* A sprite fits into the picture, and the beam needs more than one step from
\* the last pixel to the next line.
ASSUME LineAssumption ==
    /\ {DotsPerLine, Width, VBlankLine, FrameLines, FirstLine, EndLine,
        SpriteCount, PerLine, SpriteWidth, SpriteHeight} \subseteq Nat \ {0}
    /\ Width < DotsPerLine /\ 1 < VBlankLine /\ VBlankLine < FrameLines
    /\ StepDots \subseteq Nat \ {0}
    /\ \A d \in StepDots : Width - 1 + d < DotsPerLine
    /\ MaxStores \in Nat

\* What the four bytes of a sprite say.
Sprites ==
    [y : Nat, columns : SUBSET (0..(SpriteWidth - 1)), front : BOOLEAN, x : Nat]

OamBytes == 4 * (SpriteCount + 1)

ASSUME OamAssumption ==
    /\ Memories \cup Pages \subseteq [0..SpriteCount -> Sprites]
    /\ Values.y \cup Values.x \subseteq Nat /\ Values.front \subseteq BOOLEAN
    /\ Values.columns \subseteq SUBSET (0..(SpriteWidth - 1))
    /\ Addresses \subseteq 0..(OamBytes - 1)

VARIABLES
    phase,          \* "cpu": about to run a step, "ppu": in Ppu::run's loop
    ppux, line, tmpx,
    sprite_zero, hit,   \* hit is bit 6 of regs[2], overflow bit 5
    overflow,
    layers, clip,       \* bits 3 and 4 and, inverted, 2 of regs[1]
    sprite_ram,         \* the sprites; the loop never looks at the last one
    oamaddr,            \* regs[3]
    sp_line_buffer,     \* pixel -> sprite seen there, or None (256)
    bg_line_buffer,     \* pixel -> Clear (0x10), Tile or a sprite
    told,               \* history: a read reported the hit since the line began
    zero,               \* history: opaque pixels of sprite 0 on this line
    stores              \* history: what the bound counts

oamVars == <<sprite_ram, oamaddr, stores>>
vars == <<phase, ppux, line, tmpx, sprite_zero, hit, overflow, layers, clip,
          oamVars, sp_line_buffer, bg_line_buffer, told, zero>>

None  == -1
Clear == -1
Tile  == -2

Pixels == 0..(Width - 1)
Oam == 0..(SpriteCount - 1)

Init ==
    /\ sprite_ram \in Memories /\ oamaddr = 0 /\ stores = 0 /\ zero = {}
    /\ phase = "cpu" /\ ppux = DotsPerLine /\ line = 0 /\ tmpx = 0
    /\ sprite_zero = FALSE /\ hit = FALSE /\ overflow = FALSE
    /\ layers = {} /\ clip = TRUE /\ told = FALSE
    /\ sp_line_buffer = [p \in Pixels |-> 0]
    /\ bg_line_buffer = [p \in Pixels |-> Tile]

-----------------------------------------------------------------------------
(* Faulty variants of definitions below, substituted for them to see that  *)
(* the properties notice the slip; the specification does not use them.    *)

FreeAlways(seen) == TRUE
SearchedAfter(from, to) == {p \in Pixels : from < p /\ p <= to}
SearchedRest(from, to) == {p \in Pixels : from <= p}

-----------------------------------------------------------------------------
(* The evaluation of a line.                                               *)

\* The loop's test, with isy = y + 1.
OnLine(y, l) == ~(y + 1 > l \/ y + 1 + SpriteHeight <= l)

\* One more than can be drawn.
Full(count) == count = PerLine + 1

\* Nobody before has an opaque pixel there.
Free(seen) == seen = None

\* The opaque pixels of a sprite; those beyond the right edge are cut off.
Opaque(s) == {s.x + column : column \in s.columns} \cap Pixels

\* Only some lines have a background; the others are cleared before the
\* sprites are mixed in.
Background(l) ==
    [p \in Pixels |-> IF /\ FirstLine <= l /\ l < EndLine
                         /\ "bg" \in layers /\ p \in BgPixels
                      THEN Tile ELSE Clear]

\* A line in the making: sprites counted, and the two buffers.
DrawSprite(a, i) ==
    LET s     == sprite_ram[i]
        drawn == {p \in Opaque(s) : Free(a.sp[p])}
        mixed == {p \in drawn : /\ clip => p >= SpriteWidth
                                /\ s.front \/ a.bg[p] = Clear}
    IN  [a EXCEPT !.sp = [p \in Pixels |-> IF p \in drawn THEN i ELSE a.sp[p]],
                  !.bg = [p \in Pixels |-> IF p \in mixed THEN i ELSE a.bg[p]]]

Counted(a) == [a EXCEPT !.count = @ + 1]

\* The line after the first n sprites were looked at.
LineAfter(l) ==
    LET a[n \in 0..SpriteCount] ==
            IF n = 0
            THEN [count |-> 0, sp |-> [p \in Pixels |-> None], bg |-> Background(l)]
            ELSE LET b == a[n - 1]
                 IN  IF Full(b.count) \/ ~OnLine(sprite_ram[n - 1].y, l) THEN b
                     ELSE IF Full(b.count + 1) THEN Counted(b)
                     ELSE DrawSprite(Counted(b), n - 1)
    IN  a[SpriteCount]

BuildLine(l) ==
    IF "sp" \in layers
    THEN /\ sprite_zero' = OnLine(sprite_ram[0].y, l)
         /\ sp_line_buffer' = LineAfter(l).sp
         /\ bg_line_buffer' = LineAfter(l).bg
         /\ overflow' = (LineAfter(l).count >= PerLine)
    ELSE /\ sprite_zero' = FALSE
         /\ bg_line_buffer' = IF layers = {} THEN bg_line_buffer ELSE Background(l)
         /\ UNCHANGED <<sp_line_buffer, overflow>>

-----------------------------------------------------------------------------
(* The beam.                                                               *)

Beam(dots) ==
    /\ phase = "cpu" /\ phase' = "ppu"
    /\ tmpx' = ppux /\ ppux' = ppux + dots
    /\ UNCHANGED <<line, sprite_zero, sp_line_buffer, bg_line_buffer, zero>>

\* A CPU step that may switch the layers and the clipping.
WriteCtrl1(dots, shown, clips) ==
    /\ Beam(dots)
    /\ layers' = shown /\ clip' = clips
    /\ UNCHANGED <<hit, overflow, told, oamVars>>

\* A CPU step that reads the status, which clears the flags.
ReadStatus(dots) ==
    /\ Beam(dots)
    /\ told' = (told \/ hit)
    /\ hit' = FALSE /\ overflow' = FALSE
    /\ UNCHANGED <<layers, clip, oamVars>>

\* A CPU step that stores sprites.
Store(dots, ram) ==
    /\ stores < MaxStores /\ stores' = stores + 1
    /\ Beam(dots)
    /\ sprite_ram' = ram
    /\ UNCHANGED <<hit, overflow, layers, clip, told>>

\* Dma::run: all of sprite_ram at once, whatever its address is.
Dma(dots, page) == Store(dots, page) /\ UNCHANGED oamaddr

\* The four bytes of a sprite.
Fields == <<"y", "columns", "front", "x">>

WriteSpriteData(dots) ==
    LET field == Fields[(oamaddr % 4) + 1]
    IN  \E value \in Values[field] :
            /\ Store(dots, [sprite_ram EXCEPT ![oamaddr \div 4][field] = value])
            /\ oamaddr' = (oamaddr + 1) % OamBytes

WriteSpriteAddr(dots, addr) ==
    /\ Beam(dots)
    /\ oamaddr' = addr
    /\ UNCHANGED <<hit, overflow, layers, clip, told, sprite_ram, stores>>

LineStep ==
    /\ phase = "ppu" /\ DotsPerLine <= ppux
    /\ ppux' = ppux - DotsPerLine /\ tmpx' = 0 /\ told' = FALSE
    /\ line' = IF line + 1 = FrameLines THEN 0 ELSE line + 1
    /\ IF line + 1 < VBlankLine
       THEN BuildLine(line + 1) /\ UNCHANGED hit
       ELSE /\ sprite_zero' = FALSE
            /\ IF line + 1 = VBlankLine THEN hit' = FALSE /\ overflow' = FALSE
                                        ELSE UNCHANGED <<hit, overflow>>
            /\ UNCHANGED <<sp_line_buffer, bg_line_buffer>>
    /\ zero' = IF sprite_zero' THEN Opaque(sprite_ram[0]) ELSE {}
    /\ UNCHANGED <<phase, layers, clip, oamVars>>

\* The pixels searched: from where the beam was to where it is.
Searched(from, to) == {p \in Pixels : from <= p /\ p <= to}

FinishRun ==
    /\ phase = "ppu" /\ ppux < DotsPerLine
    /\ hit' = (hit \/ /\ sprite_zero
                      /\ \E p \in Searched(tmpx, ppux) : sp_line_buffer[p] = 0)
    /\ phase' = "cpu"
    /\ UNCHANGED <<ppux, line, tmpx, sprite_zero, overflow, layers, clip,
                   oamVars, sp_line_buffer, bg_line_buffer, told, zero>>

Next ==
    \/ \E dots \in StepDots, shown \in SUBSET {"bg", "sp"}, clips \in BOOLEAN :
           WriteCtrl1(dots, shown, clips)
    \/ \E dots \in StepDots : ReadStatus(dots)
    \/ \E dots \in StepDots, page \in Pages : Dma(dots, page)
    \/ \E dots \in StepDots, addr \in Addresses : WriteSpriteAddr(dots, addr)
    \/ \E dots \in StepDots : WriteSpriteData(dots)
    \/ LineStep
    \/ FinishRun

Spec == Init /\ [][Next]_vars

-----------------------------------------------------------------------------
(* Properties.                                                             *)

\* The sprites a line shows: those that cover it and have fewer than PerLine
\* such sprites before them.
Covering(l) == {i \in Oam : l - sprite_ram[i].y \in 1..SpriteHeight}
Shown(l) ==
    {i \in Covering(l) : Cardinality({j \in Covering(l) : j < i}) < PerLine}

\* The sprite in front at a pixel is the first of the memory that is opaque
\* there; it decides alone whether the background covers it, even if a later
\* sprite would stand in front.  The left column may be clipped.
PixelOf(p, l) ==
    LET at    == {i \in Shown(l) : p \in Opaque(sprite_ram[i])}
        first == CHOOSE i \in at : \A j \in at : i <= j
    IN  IF at = {} THEN <<None, Background(l)[p]>>
        ELSE IF (p < SpriteWidth /\ clip) \/ (Background(l)[p] = Tile /\ ~sprite_ram[first].front)
             THEN <<first, Background(l)[p]>>
             ELSE <<first, first>>

Starts == phase = "ppu" /\ line' # line /\ line' \in 1..(VBlankLine - 1)

\* Sprites overlap on a line as the console shows them, however many cover it,
\* and the overflow flag tells that there are as many as can be drawn.
SpritesInOrder ==
    [][Starts /\ "sp" \in layers =>
        /\ \A p \in Pixels : <<sp_line_buffer'[p], bg_line_buffer'[p]>> = PixelOf(p, line')
        /\ overflow' = (Cardinality(Covering(line')) >= PerLine)]_vars

\* The searches after the CPU steps of a line miss no pixel between two steps
\* nor at its end, even if the program replaces the sprites meanwhile: when
\* the beam leaves a line that showed sprite 0, the flag is set or the program
\* was told so while the line was drawn.
HitNotMissed ==
    [][phase = "ppu" /\ line' # line /\ zero # {} => hit \/ told]_vars

\* The flag does not rise before the beam has reached such a pixel.
HitNotEarly ==
    [][~hit /\ hit' => \E p \in zero : p <= ppux]_vars
=============================================================================
