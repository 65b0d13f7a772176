----------------------------- MODULE MCPpuLine -----------------------------
(***************************************************************************)
(* A small instance of PpuLine: three sprites of two by two pixels, two of *)
(* them per line, on a picture of five pixels and three lines, of which    *)
(* the middle one has a background.                                        *)
(***************************************************************************)
EXTENDS PpuLine

\* On the upper two lines or the lower two; at the left edge, overlapping,
\* partly transparent, and cut off at the right edge.
Sprite(y, x, columns, front) ==
    [y |-> y, x |-> x, columns |-> columns, front |-> front]

SomeSprites ==
    {Sprite(0, 0, {0}, FALSE), Sprite(1, 1, {0, 1}, TRUE),
     Sprite(1, 1, {1}, FALSE), Sprite(1, 4, {0, 1}, TRUE)}

\* The last sprite is never looked at.
Unseen == Sprite(0, 2, {0, 1}, TRUE)

FourSprites == {[m EXCEPT ![3] = Unseen] : m \in [0..3 -> SomeSprites]}

Upper == Sprite(0, 0, {0, 1}, FALSE)
Lower == Sprite(1, 1, {1}, FALSE)
OnePage == {[i \in 0..3 |-> IF i = 2 THEN Upper ELSE Lower]}

\* A sprite is moved, emptied, or put behind the background.
SomeValues == [y |-> {1}, columns |-> {{}}, front |-> {FALSE}, x |-> {3}]
=============================================================================
