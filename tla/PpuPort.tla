------------------------------ MODULE PpuPort ------------------------------
(***************************************************************************)
(* The PPU's registers as the program uses them (ppu_port.cpp) and what    *)
(* the passing of lines does to the address counter: scroll, address and   *)
(* data ports share ppu_addr and ppu_addr_buffer, whose bits are           *)
(*                                                                         *)
(*    fine y (3 bits), name table (2), coarse y (5), coarse x (5)          *)
(*                                                                         *)
(* Lines pass at any moment between two accesses; FrameLoop has the beam.  *)
(* Of a line only the row and column it starts from matter.  Memory is     *)
(* zero where neither the cartridge nor the program wrote.                 *)
(***************************************************************************)
EXTENDS Bytes

CONSTANTS
    VBlankLine,     \* 240
    FrameLines,     \* 262
    Patterns,       \* what the cartridge put into the pattern memory
    ScrollValues, Ctrl0Values, AddrValues, DataValues,  \* what is written
    MaxAccesses     \* bound: accesses of the program

\* The pages of vram, the patterns in front.
MemorySize == 16 * 1024
Memory == 0..(MemorySize - 1)
PatternMemory == 0..(MemorySize \div 2 - 1)

\* Fifteen bits.
Buffer == {a \in Word : a < 32768}

ASSUME PortAssumption ==
    /\ VBlankLine \in Nat /\ FrameLines \in Nat
    /\ 1 < VBlankLine /\ VBlankLine < FrameLines
    /\ DOMAIN Patterns \subseteq PatternMemory
    /\ \A cell \in DOMAIN Patterns : Patterns[cell] \in Byte
    /\ ScrollValues \subseteq Byte /\ Ctrl0Values \subseteq Byte
    /\ AddrValues \subseteq Byte /\ DataValues \subseteq Byte

VARIABLES
    line,
    ctrl0,              \* regs[0]
    enabled,            \* bit 3 or 4 of regs[1]
    ppu_addr, ppu_addr_buffer,
    h_scroll_val,
    scroll_reg_flg, ppu_addr_reg_flg,
    ppu_read_buffer,
    vram,               \* the cells written so far, by the cartridge first
    palette,
    accesses            \* history: accesses so far

addrVars == <<ppu_addr, ppu_addr_buffer, h_scroll_val>>
flgVars == <<scroll_reg_flg, ppu_addr_reg_flg>>
memVars == <<ppu_read_buffer, vram, palette>>
vars == <<line, ctrl0, enabled, addrVars, flgVars, memVars, accesses>>

Init ==
    /\ line = 0 /\ ctrl0 = 0 /\ enabled = FALSE
    /\ ppu_addr = 0 /\ ppu_addr_buffer = 0 /\ h_scroll_val = 0
    /\ scroll_reg_flg = FALSE /\ ppu_addr_reg_flg = FALSE
    /\ ppu_read_buffer = 0
    /\ vram = Patterns /\ palette = [i \in 0..31 |-> 0]
    /\ accesses = 0

\* A field of an address: the bits that weigh w to w * m / 2.
Field(a, w, m) == (a \div w) % m
Insert(a, w, m, v) == a + w * (v - Field(a, w, m))

CoarseX(a) == Field(a, 1, 32)
CoarseY(a) == Field(a, 32, 32)
TableX(a)  == Field(a, 1024, 2)
TableY(a)  == Field(a, 2048, 2)
FineY(a)   == Field(a, 4096, 8)

-----------------------------------------------------------------------------
(* Faulty variants of definitions below, substituted for them to see that  *)
(* the properties notice the slip; the specification does not use them.    *)

RowBelowAt31(a) ==
    IF FineY(a) < 7 THEN Insert(a, 4096, 8, FineY(a) + 1)
    ELSE IF CoarseY(a) < 31
         THEN Insert(Insert(a, 4096, 8, 0), 32, 32, CoarseY(a) + 1)
         ELSE Insert(Insert(Insert(a, 4096, 8, 0), 32, 32, 0),
                     2048, 2, 1 - TableY(a))
HighByteUnmasked(value) == value

-----------------------------------------------------------------------------
(* The ports.                                                              *)

WriteScroll(value) ==
    /\ IF scroll_reg_flg
       THEN /\ ppu_addr_buffer' =
                   Insert(Insert(ppu_addr_buffer, 32, 32, value \div 8),
                          4096, 8, value % 8)
            /\ UNCHANGED h_scroll_val
       ELSE /\ ppu_addr_buffer' = Insert(ppu_addr_buffer, 1, 32, value \div 8)
            /\ h_scroll_val' = value % 8
    /\ scroll_reg_flg' = ~scroll_reg_flg
    /\ UNCHANGED <<line, ctrl0, enabled, ppu_addr, ppu_addr_reg_flg, memVars>>

WriteCtrl0(value) ==
    /\ ctrl0' = value
    /\ ppu_addr_buffer' = Insert(ppu_addr_buffer, 1024, 4, value % 4)
    /\ UNCHANGED <<line, enabled, ppu_addr, h_scroll_val, flgVars, memVars>>

WriteCtrl1(shows) ==
    /\ enabled' = shows
    /\ UNCHANGED <<line, ctrl0, addrVars, flgVars, memVars>>

\* The flags it returns are in FrameLoop.
ReadStatus ==
    /\ scroll_reg_flg' = FALSE /\ ppu_addr_reg_flg' = FALSE
    /\ UNCHANGED <<line, ctrl0, enabled, addrVars, memVars>>

\* The buffer has 15 bits; this clears the highest of them as well.
HighByte(value) == value % 64

WriteAddr(value) ==
    /\ IF ppu_addr_reg_flg
       THEN /\ ppu_addr_buffer' = Insert(ppu_addr_buffer, 1, 256, value)
            /\ ppu_addr' = ppu_addr_buffer'
       ELSE /\ ppu_addr_buffer' =
                   (ppu_addr_buffer % 256) + 256 * HighByte(value)
            /\ UNCHANGED ppu_addr
    /\ ppu_addr_reg_flg' = ~ppu_addr_reg_flg
    /\ UNCHANGED <<line, ctrl0, enabled, h_scroll_val, scroll_reg_flg,
                   memVars>>

Increment == IF BitOf(ctrl0, 2) THEN 32 ELSE 1

Stepped(a, n) == W16(a + n)

Cell(a) == a % 16384

Content(cell) == IF cell \in DOMAIN vram THEN vram[cell] ELSE 0

\* The answer is what the previous read fetched.
ReadData ==
    /\ ppu_read_buffer' = Content(Cell(ppu_addr))
    /\ ppu_addr' = Stepped(ppu_addr, Increment)
    /\ UNCHANGED <<line, ctrl0, enabled, ppu_addr_buffer, h_scroll_val,
                   flgVars, vram, palette>>

\* Where a byte goes: 0x3000 is a mirror of 0x2000, up to 0x3efe.
Cells(cell) == {cell} \cup (IF 12288 <= cell /\ cell <= 16126 THEN {cell - 4096} ELSE {})

\* The two backdrop entries are one.
SetPalette(pal, i, v) ==
    IF i \in {0, 16} THEN [pal EXCEPT ![0] = v % 64, ![16] = v % 64]
                     ELSE [pal EXCEPT ![i] = v % 64]

WriteData(value) ==
    /\ LET cell == Cell(ppu_addr)
       IN  /\ vram' = [c \in DOMAIN vram \cup Cells(cell) |->
                           IF c \in Cells(cell) THEN value ELSE vram[c]]
           /\ palette' = IF cell > 16126 THEN SetPalette(palette, cell % 32, value)
                         ELSE palette
    /\ ppu_addr' = Stepped(ppu_addr, Increment)
    /\ UNCHANGED <<line, ctrl0, enabled, ppu_addr_buffer, h_scroll_val,
                   flgVars, ppu_read_buffer>>

-----------------------------------------------------------------------------
(* The passing of a line.                                                  *)

\* A line takes its horizontal position from the buffer.
Realigned(a, buffer) ==
    Insert(Insert(a, 1, 32, CoarseX(buffer)), 1024, 2, TableX(buffer))

\* A name table has 30 rows of tiles; rows 30 and 31 wrap without leaving it.
RowBelow(a) ==
    IF FineY(a) < 7 THEN Insert(a, 4096, 8, FineY(a) + 1)
    ELSE LET top == Insert(a, 4096, 8, 0)
         IN  CASE CoarseY(a) = 29 ->
                      Insert(Insert(top, 32, 32, 0), 2048, 2, 1 - TableY(a))
               [] CoarseY(a) = 31 -> Insert(top, 32, 32, 0)
               [] OTHER           -> Insert(top, 32, 32, CoarseY(a) + 1)

Row(a) == 256 * TableY(a) + 8 * CoarseY(a) + FineY(a)
TileColumn(a) == 32 * TableX(a) + CoarseX(a)

\* Ppu::render_frame.
RenderLine ==
    /\ line + 1 < VBlankLine
    /\ line' = line + 1
    /\ ppu_addr' = IF enabled THEN RowBelow(Realigned(ppu_addr, ppu_addr_buffer))
                   ELSE ppu_addr
    /\ UNCHANGED <<ctrl0, enabled, ppu_addr_buffer, h_scroll_val, flgVars,
                   memVars>>

InVBlank ==
    /\ line + 1 = VBlankLine
    /\ line' = line + 1
    /\ scroll_reg_flg' = FALSE
    /\ UNCHANGED <<ctrl0, enabled, addrVars, ppu_addr_reg_flg, memVars>>

BlankLine ==
    /\ VBlankLine < line + 1 /\ line + 1 < FrameLines
    /\ line' = line + 1
    /\ UNCHANGED <<ctrl0, enabled, addrVars, flgVars, memVars>>

PostRender ==
    /\ line + 1 = FrameLines
    /\ line' = 0
    /\ ppu_addr' = IF enabled THEN ppu_addr_buffer ELSE ppu_addr
    /\ UNCHANGED <<ctrl0, enabled, ppu_addr_buffer, h_scroll_val, flgVars,
                   memVars>>

AddressAccess ==
    \/ \E value \in AddrValues : WriteAddr(value)
    \/ ReadData
    \/ \E value \in DataValues : WriteData(value)

Access ==
    \/ \E value \in ScrollValues : WriteScroll(value)
    \/ \E value \in Ctrl0Values : WriteCtrl0(value)
    \/ \E shows \in BOOLEAN : WriteCtrl1(shows)
    \/ ReadStatus
    \/ AddressAccess

PassLine == RenderLine \/ InVBlank \/ BlankLine \/ PostRender

Next ==
    \/ accesses < MaxAccesses /\ Access /\ accesses' = accesses + 1
    \/ PassLine /\ UNCHANGED accesses

Spec == Init /\ [][Next]_vars

-----------------------------------------------------------------------------
(* Properties.                                                             *)

MemoryTypeOK ==
    /\ DOMAIN vram \subseteq Memory
    /\ \A cell \in DOMAIN vram : vram[cell] \in Byte
    /\ palette \in [0..31 -> 0..63]

\* Every variable keeps its type; whatever the increments and the rows add
\* up to, an address selects one of the 16 pages.
TypeOK ==
    /\ line \in 0..(FrameLines - 1) /\ ctrl0 \in Byte /\ enabled \in BOOLEAN
    /\ ppu_addr \in Word /\ ppu_addr_buffer \in Buffer
    /\ h_scroll_val \in 0..7
    /\ scroll_reg_flg \in BOOLEAN /\ ppu_addr_reg_flg \in BOOLEAN
    /\ ppu_read_buffer \in Byte /\ accesses \in Nat
    /\ MemoryTypeOK

\* Whatever the order of port accesses and lines, each line shows the row
\* below the one before, from the row and column last asked for, until the
\* program uses the address or data port, which share the counter.
Plane == INSTANCE ScrollPlane
         WITH Lines <- VBlankLine, x <- 8 * TileColumn(ppu_addr_buffer) + h_scroll_val,
              y <- Row(ppu_addr_buffer),
              row <- Row(ppu_addr),
              tile <- TileColumn(ppu_addr),
              on <- enabled

ScrollExact == Plane!Init /\ [][Plane!Next \/ AddressAccess]_(Plane!vars)
=============================================================================
