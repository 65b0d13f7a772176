---------------------------- MODULE ScrollPlane ----------------------------
(***************************************************************************)
(* What the scroll registers promise to the emulated program.  The picture *)
(* is a window into a plane of two by two name tables, each of 256 columns *)
(* and 240 rows; x and y are the scroll the program asked for.  A frame    *)
(* begins at row y and each of its lines shows the next row, starting at   *)
(* the column x asked for by then; the offset within the tile is the one   *)
(* asked for when the line is drawn.                                       *)
(***************************************************************************)
EXTENDS Naturals

CONSTANTS
    Lines,          \* lines 1 to Lines - 1 are drawn
    FrameLines      \* lines of a frame

VARIABLES
    x, y,           \* 256 * name table + offset in it
    line,
    row,            \* the next line's row
    on,             \* something is shown
    tile            \* the column of tiles the last line began with

vars == <<x, y, line, row, on, tile>>

Plane == 0..511

\* Below the last row of a name table begins its vertical neighbour; below
\* the offsets 240 to 255, which are no rows, the same name table.
Below(r) ==
    LET half == r \div 256
    IN  CASE r % 256 = 239 -> 256 * (1 - half)
          [] r % 256 = 255 -> 256 * half
          [] OTHER         -> r + 1

Init == x = 0 /\ y = 0 /\ line = 0 /\ row = 0 /\ on = FALSE /\ tile = 0

AskX ==
    /\ x' \in Plane /\ x' \div 256 = x \div 256
    /\ UNCHANGED <<y, line, row, on, tile>>

AskY ==
    /\ y' \in Plane /\ y' \div 256 = y \div 256
    /\ UNCHANGED <<x, line, row, on, tile>>

AskTable ==
    /\ x' \in Plane /\ x' % 256 = x % 256
    /\ y' \in Plane /\ y' % 256 = y % 256
    /\ UNCHANGED <<line, row, on, tile>>

Switch == on' = ~on /\ UNCHANGED <<x, y, line, row, tile>>

NextLine ==
    /\ line + 1 < FrameLines /\ line' = line + 1
    /\ IF on /\ line' < Lines
       THEN row' = Below(row) /\ tile' = x \div 8
       ELSE UNCHANGED <<row, tile>>
    /\ UNCHANGED <<x, y, on>>

NextFrame ==
    /\ line + 1 = FrameLines /\ line' = 0
    /\ IF on THEN row' = y /\ tile' = x \div 8 ELSE UNCHANGED <<row, tile>>
    /\ UNCHANGED <<x, y, on>>

Next == AskX \/ AskY \/ AskTable \/ Switch \/ NextLine \/ NextFrame

Spec == Init /\ [][Next]_vars
=============================================================================
