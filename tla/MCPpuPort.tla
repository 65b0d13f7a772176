----------------------------- MODULE MCPpuPort -----------------------------
(***************************************************************************)
(* A small instance of PpuPort: two visible lines, and scroll values just  *)
(* above the last row of a name table and beyond it.                       *)
(***************************************************************************)
EXTENDS Background

SomeScroll == {238, 255}

\* Name table 3, and name table 0 with the increment of 32.
SomeCtrl0 == {3, 4}

\* As high bytes 0x23 and 0x3f.  0x23bf is the last cell of a name table.
SomeAddr == {35, 191}

SomeData == {77}

\* Patterns of two tiles, without symmetry.
SomePatterns == [cell \in (0..15) \cup (1232..1247) |-> (37 * cell + 11) % 256]

\* The first two tiles and the last ones, one column of each kind.
SomeColumns == {0, 6, 11, 239, 250}
=============================================================================
