----------------------------- MODULE Background -----------------------------
(***************************************************************************)
(* Ppu::build_bg_line: the background of the line the address counter      *)
(* stands at, from the name tables and the patterns in PpuPort's memory.   *)
(* The 33 tiles of a line are walked through with a table and a position   *)
(* in it, beginning in the middle of the first tile.                       *)
(***************************************************************************)
EXTENDS PpuPort

CONSTANT Shown      \* the columns compared, of 0..255

ASSUME ShownAssumption == Shown \subseteq 0..255

-----------------------------------------------------------------------------
(* Faulty variants of definitions below, substituted for them to see that  *)
(* the properties notice the slip; the specification does not use them.    *)

TileAfterInTable(t) == [t EXCEPT !.pos = 32 * (@ \div 32) + ((@ + 1) % 32)]

-----------------------------------------------------------------------------
(* The walk, as the code does it.                                          *)

\* name_addr_h and name_addr_l.
FirstTile(a) == [page |-> 8 + Field(a, 1024, 4), pos |-> a % 1024]

TileAfter(t) ==
    IF t.pos % 32 = 31
    THEN [page |-> IF t.page % 2 = 0 THEN t.page + 1 ELSE t.page - 1,
          pos  |-> t.pos - 31]
    ELSE [t EXCEPT !.pos = @ + 1]

TilesFrom(a) ==
    LET tile[p \in 0..32] == IF p = 0 THEN FirstTile(a) ELSE TileAfter(tile[p - 1])
    IN  tile

Name(t, pos) == Content(1024 * t.page + pos)

PatternAddr(a, t) ==
    16 * Name(t, t.pos) + FineY(a) + (IF BitOf(ctrl0, 4) THEN 4096 ELSE 0)

\* The palette of a block of two by two tiles, shifted to its place.
Attribute(t) ==
    LET row  == t.pos \div 32
        col  == t.pos % 32
        byte == Name(t, 960 + 8 * (row \div 4) + (col \div 4))
    IN  4 * Field(byte, 4 ^ (2 * Field(row, 2, 2) + Field(col, 2, 2)), 4)

\* spbit_pattern: column s of a row of a pattern, from its two bytes.
spbit_pattern(b1, b2, s) == Num(BitOf(b1, 7 - s)) + 2 * Num(BitOf(b2, 7 - s))

PALLETE(idx) == IF idx % 4 = 0 THEN 16 ELSE idx

\* bg_line_buffer[q].
BgPixel(a, tiles, q) ==
    LET t   == tiles[(q + h_scroll_val) \div 8]
        ptn == PatternAddr(a, t)
    IN  PALLETE(Attribute(t)
                + spbit_pattern(Content(ptn), Content(ptn + 8), (q + h_scroll_val) % 8))

-----------------------------------------------------------------------------
(* The plane, pixel by pixel: two by two tables of 256 columns.            *)

PlanePixel(x, y) ==
    LET table == 8192 + 1024 * ((x \div 256) + 2 * (y \div 256))
        col   == x % 256
        row   == y % 256
        block == Content(table + 960 + 8 * (row \div 32) + (col \div 32))
        quad  == ((col % 32) \div 16) + 2 * ((row % 32) \div 16)
        base  == (IF BitOf(ctrl0, 4) THEN 4096 ELSE 0)
                 + 16 * Content(table + 32 * (row \div 8) + (col \div 8)) + (row % 8)
        bit   == 2 ^ (7 - (col % 8))
        ptn   == ((Content(base) \div bit) % 2) + 2 * ((Content(base + 8) \div bit) % 2)
    IN  IF ptn = 0 THEN 16 ELSE ptn + 4 * ((block \div (4 ^ quad)) % 4)

\* Each pixel of the line that would be drawn next is the one of the plane, in
\* the row of the counter and at the column asked for, across the edge of two
\* name tables, with any fine scroll, and with the attributes of its block.
BackgroundExact ==
    LET a     == Realigned(ppu_addr, ppu_addr_buffer)
        tiles == TilesFrom(a)
    IN  enabled /\ line + 1 < VBlankLine =>
            \A q \in Shown :
                BgPixel(a, tiles, q) =
                    PlanePixel((8 * TileColumn(a) + h_scroll_val + q) % 512, Row(a))
=============================================================================
