--------------------------- MODULE PpuLineProofs ----------------------------
(***************************************************************************)
(* The sprites of a line and the search for sprite 0, proved for every     *)
(* content of the sprite memory and every moment the program changes it.   *)
(*                                                                         *)
(* An induction over the sprites the loop looks at shows that a line shows *)
(* what PixelOf says; with it, the opaque pixels of sprite 0 are those of  *)
(* sp_line_buffer that hold 0, whatever is stored afterwards.  LineInv     *)
(* then says how far the search has come.                                  *)
(***************************************************************************)
EXTENDS PpuLine, FiniteSetTheorems, WellFoundedInduction, TLAPS

-----------------------------------------------------------------------------
(* The invariant.                                                          *)

\* The buffers hold sprites or the marks for none; the marks are no sprites.
TypeOK ==
    /\ phase \in {"cpu", "ppu"} /\ ppux \in Nat /\ tmpx \in Nat
    /\ line \in 0..(FrameLines - 1)
    /\ sprite_zero \in BOOLEAN /\ hit \in BOOLEAN /\ told \in BOOLEAN
    /\ overflow \in BOOLEAN /\ clip \in BOOLEAN /\ layers \subseteq {"bg", "sp"}
    /\ sprite_ram \in [0..SpriteCount -> Sprites]
    /\ oamaddr \in 0..(OamBytes - 1)
    /\ sp_line_buffer \in [Pixels -> Oam \cup {None}]
    /\ bg_line_buffer \in [Pixels -> Oam \cup {Clear, Tile}]

\* A step ends at most one line, and it began behind the last pixel of that
\* line only if the line ends now.
BeamInv ==
    /\ phase = "cpu" => ppux <= DotsPerLine
    /\ phase = "ppu" => ppux < 2 * DotsPerLine
    /\ phase = "ppu" /\ DotsPerLine <= ppux => Width <= tmpx

\* The pixels that may hit are in the buffer; as long as there was no hit,
\* the beam has not passed one that was not searched.
HitInv ==
    /\ zero = IF sprite_zero THEN {p \in Pixels : sp_line_buffer[p] = 0} ELSE {}
    /\ hit \/ told \/ \A p \in zero : IF phase = "cpu" THEN ppux < p ELSE tmpx <= p

LineInv == TypeOK /\ BeamInv /\ HitInv

-----------------------------------------------------------------------------
(* The evaluation of a line, sprite after sprite.                          *)

\* Induction over a set, which needs no operator as a parameter: a set with 0
\* and the successor of each of its natural numbers has them all.
LEMMA SetInduction ==
    ASSUME NEW T, 0 \in T, \A n \in Nat : n \in T => n + 1 \in T
    PROVE  Nat \subseteq T
<1> DEFINE R == OpToRel(<, Nat)
           Bad == {n \in Nat : n \notin T}
<1> SUFFICES ASSUME Bad # {} PROVE FALSE
  OBVIOUS
<1>1. IsWellFoundedOn(R, Nat)
  BY NatLessThanWellFounded
<1>2. \A i, j \in Nat : i < j => <<i, j>> \in R
  BY DEF OpToRel
<1> HIDE DEF R
<1>3. PICK m \in Bad : \A k \in Bad : ~(<<k, m>> \in R)
  <2>1. Bad \subseteq Nat
    OBVIOUS
  <2> HIDE DEF Bad
  <2> QED
    BY <1>1, <2>1, WFMin
<1>4. m # 0
  OBVIOUS
<1>5. m - 1 \in Nat /\ m - 1 < m
  BY <1>4
<1>6. m - 1 \in T
  BY <1>5, <1>2, <1>3
<1> QED
  BY <1>4, <1>5, <1>6

\* f follows the step g from a, up to n.
Follows(f, a, g, n) ==
    f[0] = a /\ \A k \in Nat : k < n => f[k + 1] = g[<<k, f[k]>>]

\* Two functions that follow the same step agree as far as both go.
LEMMA FollowsOne ==
    ASSUME NEW a, NEW g, NEW f, NEW h, NEW n \in Nat, NEW m \in Nat,
           Follows(f, a, g, n), Follows(h, a, g, m)
    PROVE  \A k \in Nat : k <= n /\ k <= m => f[k] = h[k]
<1> DEFINE T == {k \in Nat : k <= n /\ k <= m => f[k] = h[k]}
<1>1. 0 \in T
  BY DEF Follows
<1>2. ASSUME NEW k \in Nat, k \in T PROVE k + 1 \in T
  <2> SUFFICES ASSUME k + 1 <= n, k + 1 <= m PROVE f[k + 1] = h[k + 1]
    OBVIOUS
  <2>1. k < n /\ k < m /\ k <= n /\ k <= m
    OBVIOUS
  <2>2. f[k] = h[k]
    BY <1>2, <2>1
  <2> QED
    BY <2>1, <2>2, Zenon DEF Follows
<1> HIDE DEF T
<1>3. Nat \subseteq T
  BY <1>1, <1>2, SetInduction
<1> QED
  BY <1>3 DEF T

\* A step of S can be followed to any number.
LEMMA FollowsExists ==
    ASSUME NEW S, NEW a \in S, NEW g \in [Nat \X S -> S], NEW n \in Nat
    PROVE  \E f \in [Nat -> S] : Follows(f, a, g, n)
<1> DEFINE T == {k \in Nat : \E f \in [Nat -> S] : Follows(f, a, g, k)}
<1>1. 0 \in T
  <2>1. [k \in Nat |-> a] \in [Nat -> S] /\ Follows([k \in Nat |-> a], a, g, 0)
    BY DEF Follows
  <2> QED
    BY <2>1
<1>2. ASSUME NEW k \in Nat, k \in T PROVE k + 1 \in T
  <2>1. PICK f \in [Nat -> S] : Follows(f, a, g, k)
    BY <1>2
  <2> DEFINE h == [f EXCEPT ![k + 1] = g[<<k, f[k]>>]]
  <2>2. h \in [Nat -> S]
    OBVIOUS
  <2>3. \A j \in Nat : h[j] = IF j = k + 1 THEN g[<<k, f[k]>>] ELSE f[j]
    OBVIOUS
  <2> HIDE DEF h
  <2>4. Follows(h, a, g, k + 1)
    <3>1. h[0] = a
      BY <2>1, <2>3 DEF Follows
    <3>2. ASSUME NEW j \in Nat, j < k + 1 PROVE h[j + 1] = g[<<j, h[j]>>]
      <4>1. h[j] = f[j]
        BY <2>3, <3>2
      <4>2. CASE j = k
        BY <2>3, <4>1, <4>2
      <4>3. CASE j # k
        <5>1. j < k /\ j + 1 # k + 1
          BY <3>2, <4>3
        <5>2. f[j + 1] = g[<<j, f[j]>>]
          BY <2>1, <5>1 DEF Follows
        <5> QED
          BY <2>3, <4>1, <5>1, <5>2
      <4> QED
        BY <4>2, <4>3
    <3> QED
      BY <3>1, <3>2 DEF Follows
  <2> QED
    BY <2>2, <2>4
<1> HIDE DEF T
<1>3. n \in T
  BY <1>1, <1>2, SetInduction
<1> QED
  BY <1>3 DEF T

\* f is the function defined by recursion from a with g.
Recurses(f, a, g) == f[0] = a /\ \A n \in Nat : f[n + 1] = g[<<n, f[n]>>]

\* A start in S and a step of S define a function by recursion.
LEMMA RecursiveFunction ==
    ASSUME NEW S, NEW a \in S, NEW g \in [Nat \X S -> S]
    PROVE  \E f \in [Nat -> S] : Recurses(f, a, g)
<1> DEFINE part(n) == CHOOSE f \in [Nat -> S] : Follows(f, a, g, n)
           f == [n \in Nat |-> part(n)[n]]
<1>1. \A n \in Nat : part(n) \in [Nat -> S] /\ Follows(part(n), a, g, n)
  BY FollowsExists
<1> HIDE DEF part
<1>2. f \in [Nat -> S]
  BY <1>1
<1>3. f[0] = a
  BY <1>1 DEF Follows
<1>4. ASSUME NEW n \in Nat PROVE f[n + 1] = g[<<n, f[n]>>]
  <2>1. part(n + 1)[n] = part(n)[n]
    <3>1. n + 1 \in Nat /\ n <= n /\ n <= n + 1
      OBVIOUS
    <3>2. Follows(part(n + 1), a, g, n + 1) /\ Follows(part(n), a, g, n)
      BY <1>1, <3>1
    <3> QED
      BY <3>1, <3>2, FollowsOne
  <2>2. part(n + 1)[n + 1] = g[<<n, part(n + 1)[n]>>]
    BY <1>1 DEF Follows
  <2> QED
    BY <2>1, <2>2
<1> QED
  BY <1>2, <1>3, <1>4 DEF Recurses

\* The numbers among the constants.
LEMMA Sizes ==
    /\ DotsPerLine \in Nat /\ Width \in Nat /\ 1 <= Width
    /\ Width < DotsPerLine /\ VBlankLine \in Nat /\ FrameLines \in Nat
    /\ 1 < VBlankLine /\ VBlankLine < FrameLines
    /\ SpriteCount \in Nat /\ 1 <= SpriteCount /\ PerLine \in Nat /\ 1 <= PerLine
    /\ SpriteHeight \in Nat /\ SpriteWidth \in Nat /\ 1 <= SpriteWidth
    /\ \A d \in StepDots : d \in Nat /\ 1 <= d /\ Width + d <= DotsPerLine
BY LineAssumption

\* What a line in the making is.
Lines ==
    [count : Nat, sp : [Pixels -> Oam \cup {None}],
     bg : [Pixels -> Oam \cup {Clear, Tile}]]

Start(l) ==
    [count |-> 0, sp |-> [p \in Pixels |-> None], bg |-> Background(l)]

\* What the loop does with one sprite.
Look(b, n, l) ==
    IF Full(b.count) \/ ~OnLine(sprite_ram[n].y, l) THEN b
    ELSE IF Full(b.count + 1) THEN Counted(b)
    ELSE DrawSprite(Counted(b), n)

\* The loop begins with a line.
LEMMA StartType ==
    ASSUME NEW l
    PROVE  Start(l) \in Lines
BY DEF Start, Lines, Background

\* Counting leaves the buffers alone.
LEMMA CountedFields ==
    ASSUME NEW b \in Lines
    PROVE  /\ Counted(b) \in Lines
           /\ Counted(b).count = b.count + 1
           /\ Counted(b).sp = b.sp /\ Counted(b).bg = b.bg
BY DEF Counted, Lines

\* A sprite takes the free pixels among its opaque ones, and those of the
\* background that neither the clipping nor the background keeps.
Drawn(b, n, p) == p \in Opaque(sprite_ram[n]) /\ b.sp[p] = None
Mixed(b, n, p) ==
    /\ Drawn(b, n, p) /\ (clip => p >= SpriteWidth)
    /\ sprite_ram[n].front \/ b.bg[p] = Clear

\* What DrawSprite changes, pixel by pixel.
LEMMA DrawFields ==
    ASSUME NEW b \in Lines, NEW n \in Oam
    PROVE  /\ DrawSprite(b, n) \in Lines
           /\ DrawSprite(b, n).count = b.count
           /\ \A p \in Pixels :
                  /\ DrawSprite(b, n).sp[p] = IF Drawn(b, n, p) THEN n ELSE b.sp[p]
                  /\ DrawSprite(b, n).bg[p] = IF Mixed(b, n, p) THEN n ELSE b.bg[p]
<1> DEFINE sp == [p \in Pixels |-> IF Drawn(b, n, p) THEN n ELSE b.sp[p]]
           bg == [p \in Pixels |-> IF Mixed(b, n, p) THEN n ELSE b.bg[p]]
<1>1. sp \in [Pixels -> Oam \cup {None}] /\ bg \in [Pixels -> Oam \cup {Clear, Tile}]
  BY DEF Lines
<1>2. DrawSprite(b, n) = [[b EXCEPT !.sp = sp] EXCEPT !.bg = bg]
  <2>1. \A p \in Pixels : Drawn(b, n, p) <=>
            p \in {q \in Opaque(sprite_ram[n]) : Free(b.sp[q])}
    BY DEF Drawn, Free
  <2>2. \A p \in Pixels : Mixed(b, n, p) <=>
            p \in {q \in {r \in Opaque(sprite_ram[n]) : Free(b.sp[r])} :
                       /\ clip => q >= SpriteWidth
                       /\ sprite_ram[n].front \/ b.bg[q] = Clear}
    BY DEF Drawn, Mixed, Free
  <2> QED
    BY <2>1, <2>2 DEF DrawSprite
<1> HIDE DEF sp, bg
<1>3. DrawSprite(b, n) = [count |-> b.count, sp |-> sp, bg |-> bg]
  BY <1>2 DEF Lines
<1>4. DrawSprite(b, n) \in Lines /\ DrawSprite(b, n).count = b.count
  BY <1>1, <1>3 DEF Lines
<1> QED
  BY <1>3, <1>4 DEF sp, bg

\* A look leaves a line.
LEMMA LookType ==
    ASSUME NEW b \in Lines, NEW n \in Oam, NEW l
    PROVE  Look(b, n, l) \in Lines
BY CountedFields, DrawFields DEF Look

\* What LineAfter takes the last value of.
Made(l) ==
    LET a[n \in 0..SpriteCount] ==
            IF n = 0
            THEN [count |-> 0, sp |-> [p \in Pixels |-> None], bg |-> Background(l)]
            ELSE LET b == a[n - 1]
                 IN  IF Full(b.count) \/ ~OnLine(sprite_ram[n - 1].y, l) THEN b
                     ELSE IF Full(b.count + 1) THEN Counted(b)
                     ELSE DrawSprite(Counted(b), n - 1)
    IN  a

\* The loop looks at the sprites one after the other.
LEMMA MadeSteps ==
    ASSUME NEW l
    PROVE  /\ Made(l)[0] = Start(l)
           /\ \A n \in Oam : /\ Made(l)[n] \in Lines
                             /\ Made(l)[n + 1] = Look(Made(l)[n], n, l)
           /\ LineAfter(l) = Made(l)[SpriteCount]
<1> DEFINE g == [x \in Nat \X Lines |->
                    IF x[1] \in Oam THEN Look(x[2], x[1], l) ELSE x[2]]
           Def(h) == [n \in 0..SpriteCount |->
                         IF n = 0 THEN Start(l) ELSE Look(h[n - 1], n - 1, l)]
           M == Made(l)
<1>1. Start(l) \in Lines /\ g \in [Nat \X Lines -> Lines]
  BY StartType, LookType
<1>2. \A n \in Oam, b \in Lines : g[<<n, b>>] = Look(b, n, l)
  BY Sizes DEF Oam
<1>3. PICK f \in [Nat -> Lines] : Recurses(f, Start(l), g)
  <2> HIDE DEF g
  <2> QED
    BY <1>1, RecursiveFunction
<1> HIDE DEF g
<1> DEFINE h == [n \in 0..SpriteCount |-> f[n]]
<1>4. h = Def(h)
  <2>1. ASSUME NEW n \in 0..SpriteCount, n # 0
        PROVE  h[n] = Look(h[n - 1], n - 1, l)
    <3>1. n - 1 \in Oam /\ n - 1 \in Nat /\ (n - 1) + 1 = n /\ n - 1 \in 0..SpriteCount
      BY <2>1, Sizes DEF Oam
    <3>2. f[(n - 1) + 1] = g[<<n - 1, f[n - 1]>>]
      BY <1>3, <3>1 DEF Recurses
    <3> QED
      BY <1>2, <3>1, <3>2
  <2>2. h[0] = Start(l)
    BY <1>3, Sizes DEF Recurses
  <2> QED
    BY <2>1, <2>2
<1>5. M = Def(M)
  <2>1. M = CHOOSE k : k = Def(k)
    BY DEF Made, Look, Start
  <2> HIDE DEF Def, M, h
  <2> QED
    BY <1>4, <2>1, Zenon
<1>6. LineAfter(l) = M[SpriteCount]
  BY DEF LineAfter, Made
<1> HIDE DEF M
<1>7. M[0] = Start(l) /\ \A n \in Oam : M[n + 1] = Look(M[n], n, l)
  <2>1. \A n \in Oam : n + 1 # 0 /\ n + 1 \in 0..SpriteCount /\ (n + 1) - 1 = n
    BY Sizes DEF Oam
  <2> QED
    BY <1>5, <2>1, Sizes
<1> DEFINE T == {n \in Nat : n <= SpriteCount => M[n] \in Lines}
<1>8. 0 \in T
  BY <1>1, <1>7
<1>9. ASSUME NEW n \in Nat, n \in T PROVE n + 1 \in T
  <2> SUFFICES ASSUME n + 1 <= SpriteCount PROVE M[n + 1] \in Lines
    OBVIOUS
  <2>1. n \in Oam /\ M[n] \in Lines
    BY <1>9, Sizes DEF Oam
  <2> QED
    BY <1>7, <2>1, LookType
<1> HIDE DEF T
<1>10. Nat \subseteq T
  BY <1>8, <1>9, SetInduction
<1>11. \A n \in Oam : M[n] \in Lines
  BY <1>10, Sizes DEF T, Oam
<1> QED
  BY <1>6, <1>7, <1>11 DEF M

-----------------------------------------------------------------------------
(* What the loop has made after n sprites.                                 *)

\* The sprites that cover a line, as the loop finds them.
LEMMA CoveringIsOnLine ==
    ASSUME TypeOK, NEW l \in Int
    PROVE  \A i \in Oam : OnLine(sprite_ram[i].y, l) <=> i \in Covering(l)
<1> SUFFICES ASSUME NEW i \in Oam
             PROVE  OnLine(sprite_ram[i].y, l) <=> i \in Covering(l)
  OBVIOUS
<1>1. sprite_ram[i].y \in Nat
  <2>1. i \in 0..SpriteCount
    BY Sizes DEF Oam
  <2> QED
    BY <2>1 DEF TypeOK, Sprites
<1> QED
  BY <1>1, Sizes DEF OnLine, Covering

\* Those before the nth, and of them the ones that are drawn.
Before(l, n) == {i \in Covering(l) : i < n}
ShownBefore(l, n) == {i \in Shown(l) : i < n}

\* The next sprite adds itself if it covers the line.
LEMMA BeforeNext ==
    ASSUME NEW l, NEW n \in Oam
    PROVE  /\ IsFiniteSet(Before(l, n)) /\ Cardinality(Before(l, n)) \in Nat
           /\ n \notin Covering(l) => Before(l, n + 1) = Before(l, n)
           /\ n \in Covering(l) =>
                  Cardinality(Before(l, n + 1)) = Cardinality(Before(l, n)) + 1
<1>1. IsFiniteSet(Before(l, n)) /\ Cardinality(Before(l, n)) \in Nat
  <2>1. IsFiniteSet(Oam)
    BY FS_Interval, Sizes DEF Oam
  <2>2. Before(l, n) \subseteq Oam
    BY DEF Before, Covering
  <2>3. IsFiniteSet(Before(l, n))
    BY <2>1, <2>2, FS_Subset
  <2> QED
    BY <2>3, FS_CardinalityType
<1>2. \A i \in Oam : i < n + 1 <=> i < n \/ i = n
  BY Sizes DEF Oam
<1>3. \A i \in Covering(l) : i \in Oam
  BY DEF Covering
<1>4. n \notin Before(l, n)
  BY Sizes DEF Before, Oam
<1>5. CASE n \notin Covering(l)
  BY <1>1, <1>2, <1>3, <1>5 DEF Before
<1>6. CASE n \in Covering(l)
  <2>1. Before(l, n + 1) = Before(l, n) \cup {n}
    BY <1>2, <1>3, <1>6 DEF Before
  <2> QED
    BY <1>1, <1>4, <1>6, <2>1, FS_AddElement
<1> QED
  BY <1>5, <1>6

\* It is drawn if fewer than PerLine were.
LEMMA ShownNext ==
    ASSUME NEW l, NEW n \in Oam
    PROVE  ShownBefore(l, n + 1) =
               IF n \in Covering(l) /\ Cardinality(Before(l, n)) < PerLine
               THEN ShownBefore(l, n) \cup {n} ELSE ShownBefore(l, n)
<1>1. n \in Shown(l) <=> n \in Covering(l) /\ Cardinality(Before(l, n)) < PerLine
  BY DEF Shown, Before
<1>2. \A i \in Shown(l) : i \in Oam
  BY DEF Shown, Covering
<1>3. \A i \in Oam : i < n + 1 <=> i < n \/ i = n
  BY Sizes DEF Oam
<1> QED
  BY <1>1, <1>2, <1>3 DEF ShownBefore

\* The sprites of S that are opaque at a pixel, and whether the background or
\* the clipping hides one of them there.
At(p, S) == {i \in S : p \in Opaque(sprite_ram[i])}
Hidden(p, l, i) ==
    (p < SpriteWidth /\ clip) \/ (Background(l)[p] = Tile /\ ~sprite_ram[i].front)

\* A pixel of the two buffers as the sprites of S leave it.
PixelRight(b, p, l, S) ==
    /\ At(p, S) = {} => b.sp[p] = None /\ b.bg[p] = Background(l)[p]
    /\ At(p, S) # {} =>
           /\ b.sp[p] \in At(p, S) /\ \A j \in At(p, S) : b.sp[p] <= j
           /\ b.bg[p] = IF Hidden(p, l, b.sp[p]) THEN Background(l)[p] ELSE b.sp[p]

\* A sprite that is drawn behind those of S leaves every pixel right.
LEMMA PixelDrawn ==
    ASSUME TypeOK, NEW l, NEW n \in Oam, NEW b \in Lines, NEW p \in Pixels,
           NEW S \in SUBSET Oam, \A i \in S : i < n, PixelRight(b, p, l, S)
    PROVE  PixelRight(DrawSprite(b, n), p, l, S \cup {n})
<1> DEFINE d == DrawSprite(b, n)
           U == S \cup {n}
<1>1. /\ d.sp[p] = IF Drawn(b, n, p) THEN n ELSE b.sp[p]
      /\ d.bg[p] = IF Mixed(b, n, p) THEN n ELSE b.bg[p]
  BY DrawFields
<1>2. At(p, U) = IF p \in Opaque(sprite_ram[n]) THEN At(p, S) \cup {n} ELSE At(p, S)
  BY DEF At
<1> SUFFICES PixelRight(d, p, l, U)
  OBVIOUS
<1> HIDE DEF d, U
<1>3. CASE p \notin Opaque(sprite_ram[n])
  BY <1>1, <1>2, <1>3 DEF PixelRight, Drawn, Mixed
<1>4. CASE p \in Opaque(sprite_ram[n]) /\ At(p, S) # {}
  <2>1. b.sp[p] \in At(p, S) /\ b.sp[p] \in S
    BY <1>4 DEF PixelRight, At
  <2>2. b.sp[p] # None /\ b.sp[p] < n /\ b.sp[p] <= n
    <3>1. b.sp[p] < n /\ b.sp[p] \in Oam
      BY <2>1
    <3>2. \A i, j \in Oam : i # None /\ (i < j => i <= j)
      BY Sizes DEF Oam, None
    <3> QED
      BY <3>1, <3>2
  <2>3. d.sp[p] = b.sp[p] /\ d.bg[p] = b.bg[p]
    BY <1>1, <2>2 DEF Drawn, Mixed
  <2> QED
    BY <1>2, <1>4, <2>2, <2>3 DEF PixelRight
<1>5. CASE p \in Opaque(sprite_ram[n]) /\ At(p, S) = {}
  <2>1. At(p, U) = {n}
    BY <1>2, <1>5
  <2>2. b.sp[p] = None /\ b.bg[p] = Background(l)[p]
    BY <1>5 DEF PixelRight
  <2>3. Drawn(b, n, p) /\ d.sp[p] = n
    BY <1>1, <1>5, <2>2 DEF Drawn
  <2>4. Background(l)[p] \in {Tile, Clear} /\ Tile # Clear
    BY DEF Background, Tile, Clear
  <2>5. Mixed(b, n, p) <=> ~Hidden(p, l, n)
    <3>1. p \in Int /\ SpriteWidth \in Int
      BY Sizes DEF Pixels
    <3> QED
      BY <2>2, <2>3, <2>4, <3>1 DEF Mixed, Hidden
  <2>6. n <= n
    BY DEF Oam
  <2> QED
    BY <1>1, <2>1, <2>2, <2>3, <2>5, <2>6 DEF PixelRight
<1> QED
  BY <1>3, <1>4, <1>5

\* A line after n sprites: as many counted as cover it, until one too many,
\* and every pixel as those that were drawn leave it.
LineRight(b, l, n) ==
    /\ b.count = IF Cardinality(Before(l, n)) <= PerLine
                 THEN Cardinality(Before(l, n)) ELSE PerLine + 1
    /\ \A p \in Pixels : PixelRight(b, p, l, ShownBefore(l, n))

\* A line is right before the loop has looked at a sprite ...
LEMMA StartRight ==
    ASSUME NEW l
    PROVE  LineRight(Start(l), l, 0)
<1>1. Before(l, 0) = {} /\ ShownBefore(l, 0) = {}
  BY Sizes DEF Before, ShownBefore, Shown, Covering, Oam
<1>2. Cardinality(Before(l, 0)) = 0
  BY <1>1, FS_EmptySet
<1>3. \A p \in Pixels : PixelRight(Start(l), p, l, {})
  BY DEF PixelRight, At, Start
<1> QED
  BY <1>1, <1>2, <1>3, Sizes DEF LineRight, Start

\* ... and after each sprite it looks at.
LEMMA LookRight ==
    ASSUME TypeOK, NEW l \in Int, NEW n \in Oam, NEW b \in Lines, LineRight(b, l, n)
    PROVE  LineRight(Look(b, n, l), l, n + 1)
<1> DEFINE C == Cardinality(Before(l, n))
           D == Cardinality(Before(l, n + 1))
           S == ShownBefore(l, n)
<1>1. /\ C \in Nat
      /\ n \notin Covering(l) => D = C
      /\ n \in Covering(l) => D = C + 1
  BY BeforeNext
<1>2. ShownBefore(l, n + 1) =
          IF n \in Covering(l) /\ C < PerLine THEN S \cup {n} ELSE S
  BY ShownNext
<1>3. OnLine(sprite_ram[n].y, l) <=> n \in Covering(l)
  BY CoveringIsOnLine
<1>4. /\ b.count = IF C <= PerLine THEN C ELSE PerLine + 1
      /\ \A p \in Pixels : PixelRight(b, p, l, S)
  BY DEF LineRight
<1>5. S \subseteq Oam /\ \A i \in S : i < n
  BY DEF ShownBefore, Shown, Covering
<1>6. LineRight(Look(b, n, l), l, n + 1) <=>
          /\ Look(b, n, l).count = IF D <= PerLine THEN D ELSE PerLine + 1
          /\ \A p \in Pixels : PixelRight(Look(b, n, l), p, l, ShownBefore(l, n + 1))
  BY DEF LineRight
<1>7. /\ Counted(b) \in Lines /\ Counted(b).count = b.count + 1
      /\ \A p \in Pixels : PixelRight(Counted(b), p, l, S)
  BY CountedFields, <1>4 DEF PixelRight
<1> HIDE DEF C, D, S
<1>8. CASE n \notin Covering(l)
  <2>1. Look(b, n, l) = b
    BY <1>3, <1>8 DEF Look
  <2> QED
    BY <1>1, <1>2, <1>4, <1>6, <1>8, <2>1
<1>9. CASE n \in Covering(l) /\ C > PerLine
  <2>1. Look(b, n, l) = b
    BY <1>4, <1>9, <1>1, Sizes DEF Look, Full
  <2>2. b.count = IF D <= PerLine THEN D ELSE PerLine + 1
    BY <1>1, <1>4, <1>9, Sizes
  <2>3. ShownBefore(l, n + 1) = S
    BY <1>1, <1>2, <1>9, Sizes
  <2> QED
    BY <1>4, <1>6, <2>1, <2>2, <2>3
<1>10. CASE n \in Covering(l) /\ C = PerLine
  <2>1. Look(b, n, l) = Counted(b)
    BY <1>3, <1>4, <1>10, <1>1, Sizes DEF Look, Full
  <2>2. b.count + 1 = IF D <= PerLine THEN D ELSE PerLine + 1
    BY <1>1, <1>4, <1>10, Sizes
  <2>3. ShownBefore(l, n + 1) = S
    BY <1>1, <1>2, <1>10, Sizes
  <2> QED
    BY <1>6, <1>7, <2>1, <2>2, <2>3
<1>11. CASE n \in Covering(l) /\ C < PerLine
  <2>1. b.count = C /\ ~Full(b.count) /\ ~Full(b.count + 1)
    BY <1>1, <1>4, <1>11, Sizes DEF Full
  <2>2. Look(b, n, l) = DrawSprite(Counted(b), n)
    BY <1>3, <1>11, <2>1 DEF Look
  <2>3. Look(b, n, l).count = C + 1
    BY <1>7, <2>1, <2>2, DrawFields
  <2>4. Look(b, n, l).count = IF D <= PerLine THEN D ELSE PerLine + 1
    BY <1>1, <1>11, <2>3, Sizes
  <2>5. ShownBefore(l, n + 1) = S \cup {n}
    BY <1>2, <1>11
  <2>6. ASSUME NEW p \in Pixels
        PROVE  PixelRight(DrawSprite(Counted(b), n), p, l, S \cup {n})
    BY <1>5, <1>7, PixelDrawn
  <2> QED
    BY <1>6, <2>2, <2>4, <2>5, <2>6
<1>12. C < PerLine \/ C = PerLine \/ C > PerLine
  BY <1>1, Sizes
<1> QED
  BY <1>8, <1>9, <1>10, <1>11, <1>12

\* The whole loop.
LEMMA LineAfterRight ==
    ASSUME TypeOK, NEW l \in Int
    PROVE  /\ LineAfter(l) \in Lines
           /\ LineRight(LineAfter(l), l, SpriteCount)
<1> DEFINE M == Made(l)
           T == {n \in Nat : n <= SpriteCount => M[n] \in Lines /\ LineRight(M[n], l, n)}
<1>1. /\ M[0] = Start(l)
      /\ \A n \in Oam : M[n] \in Lines /\ M[n + 1] = Look(M[n], n, l)
      /\ LineAfter(l) = M[SpriteCount]
  BY MadeSteps
<1> HIDE DEF M
<1>2. 0 \in T
  BY <1>1, StartType, StartRight
<1>3. ASSUME NEW n \in Nat, n \in T PROVE n + 1 \in T
  <2> SUFFICES ASSUME n + 1 <= SpriteCount
               PROVE  M[n + 1] \in Lines /\ LineRight(M[n + 1], l, n + 1)
    OBVIOUS
  <2>1. n \in Oam /\ M[n] \in Lines /\ LineRight(M[n], l, n)
    BY <1>3, Sizes DEF Oam
  <2> QED
    BY <1>1, <2>1, LookType, LookRight
<1> HIDE DEF T
<1>4. SpriteCount \in T
  BY <1>2, <1>3, SetInduction, Sizes
<1> QED
  BY <1>1, <1>4, Sizes DEF T

\* Before the end means all of them.
LEMMA BeforeEnd ==
    ASSUME NEW l
    PROVE  Before(l, SpriteCount) = Covering(l) /\ ShownBefore(l, SpriteCount) = Shown(l)
<1>1. \A i \in Oam : i < SpriteCount
  BY Sizes DEF Oam
<1> QED
  BY <1>1 DEF Before, ShownBefore, Shown, Covering

\* The pixels of a line are those of PixelOf, and the count says whether as
\* many sprites cover it as can be drawn.
LEMMA LineIsExact ==
    ASSUME TypeOK, NEW l \in Int
    PROVE  /\ \A p \in Pixels :
                  <<LineAfter(l).sp[p], LineAfter(l).bg[p]>> = PixelOf(p, l)
           /\ LineAfter(l).count >= PerLine <=> Cardinality(Covering(l)) >= PerLine
<1> DEFINE b == LineAfter(l)
<1>1. LineRight(b, l, SpriteCount) /\ Before(l, SpriteCount) = Covering(l)
      /\ ShownBefore(l, SpriteCount) = Shown(l)
  BY LineAfterRight, BeforeEnd
<1> HIDE DEF b
<1>2. Cardinality(Covering(l)) \in Nat
  <2>1. IsFiniteSet(Oam) /\ Covering(l) \subseteq Oam
    BY FS_Interval, Sizes DEF Oam, Covering
  <2> QED
    BY <2>1, FS_Subset, FS_CardinalityType
<1>3. b.count >= PerLine <=> Cardinality(Covering(l)) >= PerLine
  BY <1>1, <1>2, Sizes DEF LineRight
<1>4. ASSUME NEW p \in Pixels
      PROVE  <<b.sp[p], b.bg[p]>> = PixelOf(p, l)
  <2> DEFINE at == {i \in Shown(l) : p \in Opaque(sprite_ram[i])}
             first == CHOOSE i \in at : \A j \in at : i <= j
  <2>1. PixelRight(b, p, l, Shown(l)) /\ At(p, Shown(l)) = at
    BY <1>1 DEF LineRight, At
  <2>2. \A i \in at : i \in Int
    BY DEF Shown, Covering, Oam
  <2>3. PixelOf(p, l) =
            IF at = {} THEN <<None, Background(l)[p]>>
            ELSE IF Hidden(p, l, first) THEN <<first, Background(l)[p]>>
                 ELSE <<first, first>>
    BY DEF PixelOf, Hidden
  <2> HIDE DEF at
  <2>4. CASE at = {}
    BY <2>1, <2>3, <2>4 DEF PixelRight
  <2>5. CASE at # {}
    <3>1. b.sp[p] \in at /\ \A j \in at : b.sp[p] <= j
      BY <2>1, <2>5 DEF PixelRight
    <3>2. first \in at /\ \A j \in at : first <= j
      BY <3>1
    <3>3. first = b.sp[p]
      <4> HIDE DEF first
      <4>1. first <= b.sp[p] /\ b.sp[p] <= first /\ first \in Int /\ b.sp[p] \in Int
        BY <2>2, <3>1, <3>2
      <4> QED
        BY <4>1
    <3> HIDE DEF first
    <3> QED
      BY <2>1, <2>3, <2>5, <3>3 DEF PixelRight
  <2> QED
    BY <2>4, <2>5
<1> QED
  BY <1>3, <1>4 DEF b

-----------------------------------------------------------------------------
(* The invariant holds.                                                    *)

\* A new line shows the sprites as the console does.
LEMMA NewLineExact ==
    ASSUME TypeOK, NEW l \in Int, BuildLine(l), "sp" \in layers
    PROVE  /\ sprite_zero' = OnLine(sprite_ram[0].y, l)
           /\ \A p \in Pixels : <<sp_line_buffer'[p], bg_line_buffer'[p]>> = PixelOf(p, l)
           /\ overflow' = (Cardinality(Covering(l)) >= PerLine)
<1>1. /\ sprite_zero' = OnLine(sprite_ram[0].y, l)
      /\ sp_line_buffer' = LineAfter(l).sp /\ bg_line_buffer' = LineAfter(l).bg
      /\ overflow' = (LineAfter(l).count >= PerLine)
  BY DEF BuildLine
<1> QED
  BY <1>1, LineIsExact

\* Sprite 0 is in front of all others: it is seen wherever it is opaque, if it
\* covers the line.
LEMMA ZeroInFront ==
    ASSUME TypeOK, NEW l \in Int, OnLine(sprite_ram[0].y, l)
    PROVE  Opaque(sprite_ram[0]) = {p \in Pixels : LineAfter(l).sp[p] = 0}
<1> DEFINE b == LineAfter(l)
<1>1. /\ LineRight(b, l, SpriteCount)
      /\ ShownBefore(l, SpriteCount) = Shown(l)
  BY LineAfterRight, BeforeEnd
<1> HIDE DEF b
<1>2. 0 \in Oam /\ \A i \in Oam : i \in Nat
  BY Sizes DEF Oam
<1>3. 0 \in Shown(l)
  <2>1. 0 \in Covering(l)
    BY <1>2, CoveringIsOnLine
  <2>2. {j \in Covering(l) : j < 0} = {}
    BY <1>2 DEF Covering
  <2>3. Cardinality({j \in Covering(l) : j < 0}) = 0
    BY <2>2, FS_EmptySet
  <2> QED
    BY <2>1, <2>3, Sizes DEF Shown
<1>4. ASSUME NEW p \in Pixels
      PROVE  p \in Opaque(sprite_ram[0]) <=> b.sp[p] = 0
  <2>1. PixelRight(b, p, l, Shown(l))
    BY <1>1 DEF LineRight
  <2>2. \A i \in Shown(l) : i \in Nat
    BY <1>2 DEF Shown, Covering
  <2>3. CASE p \in Opaque(sprite_ram[0])
    <3>1. 0 \in At(p, Shown(l))
      BY <1>3, <2>3 DEF At
    <3>2. b.sp[p] \in Shown(l) /\ b.sp[p] <= 0
      BY <2>1, <3>1 DEF PixelRight, At
    <3> QED
      BY <2>2, <2>3, <3>2
  <2>4. CASE p \notin Opaque(sprite_ram[0])
    <3>1. 0 \notin At(p, Shown(l))
      BY <2>4 DEF At
    <3>2. b.sp[p] # 0
      BY <2>1, <3>1 DEF PixelRight, None
    <3> QED
      BY <2>4, <3>2
  <2> QED
    BY <2>3, <2>4
<1>5. Opaque(sprite_ram[0]) \subseteq Pixels
  BY DEF Opaque
<1> QED
  BY <1>4, <1>5 DEF b

\* After a reset nothing is on the line and nothing is searched.
LEMMA InitLineInv ==
    Init => LineInv
<1> SUFFICES ASSUME Init PROVE LineInv
  OBVIOUS
<1>1. sprite_ram \in [0..SpriteCount -> Sprites]
  BY OamAssumption DEF Init
<1>2. 0 \in 0..(OamBytes - 1) /\ 0 \in 0..(FrameLines - 1) /\ 0 \in Oam
  BY Sizes DEF OamBytes, Oam
<1>3. TypeOK
  BY <1>1, <1>2, Sizes DEF Init, TypeOK
<1>4. BeamInv /\ HitInv
  BY Sizes DEF Init, BeamInv, HitInv
<1> QED
  BY <1>3, <1>4 DEF LineInv

\* A step of the CPU takes the beam to a position behind every pixel that is
\* still to be searched: it is where the next search begins.
LEMMA BeamStep ==
    ASSUME LineInv, NEW d \in StepDots, Beam(d)
    PROVE  /\ phase' \in {"cpu", "ppu"} /\ ppux' \in Nat /\ tmpx' \in Nat
           /\ BeamInv'
           /\ \A p \in zero' : ~(hit \/ told) => tmpx' <= p
           /\ zero' = IF sprite_zero' THEN {p \in Pixels : sp_line_buffer'[p] = 0} ELSE {}
<1>1. d \in Nat /\ Width + d <= DotsPerLine /\ 1 <= Width /\ DotsPerLine \in Nat
      /\ Width \in Nat /\ ppux \in Nat /\ ppux <= DotsPerLine
  BY Sizes DEF LineInv, TypeOK, BeamInv, Beam
<1>2. /\ phase = "cpu" /\ phase' = "ppu" /\ tmpx' = ppux /\ ppux' = ppux + d
      /\ UNCHANGED <<sprite_zero, sp_line_buffer, zero>>
  BY DEF Beam
<1>3. BeamInv'
  BY <1>1, <1>2 DEF BeamInv
<1>4. zero \subseteq Pixels
  BY DEF LineInv, HitInv
<1>5. ASSUME NEW p \in zero, ~(hit \/ told) PROVE ppux <= p
  <2>1. ppux < p /\ p \in Int
    BY <1>2, <1>4, <1>5 DEF LineInv, HitInv, Pixels
  <2> QED
    BY <1>1, <2>1
<1> QED
  BY <1>1, <1>2, <1>3, <1>5 DEF LineInv, HitInv

\* Such a step keeps the invariant, as long as it does not take back a hit that
\* the program was not told of.
LEMMA CpuStepInv ==
    ASSUME LineInv, NEW d \in StepDots, Beam(d),
           hit \/ told => hit' \/ told',
           hit' \in BOOLEAN, told' \in BOOLEAN, overflow' \in BOOLEAN,
           clip' \in BOOLEAN, layers' \subseteq {"bg", "sp"},
           sprite_ram' \in [0..SpriteCount -> Sprites],
           oamaddr' \in 0..(OamBytes - 1)
    PROVE  LineInv'
<1>1. TypeOK'
  BY BeamStep DEF LineInv, TypeOK, Beam
<1>2. HitInv'
  BY BeamStep DEF HitInv, Beam
<1> QED
  BY <1>1, <1>2, BeamStep DEF LineInv

\* A byte stored through the port leaves a sprite, and the address in range.
LEMMA StoredSprite ==
    ASSUME TypeOK, NEW value \in Values[Fields[(oamaddr % 4) + 1]]
    PROVE  /\ [sprite_ram EXCEPT ![oamaddr \div 4][Fields[(oamaddr % 4) + 1]] = value]
                  \in [0..SpriteCount -> Sprites]
           /\ (oamaddr + 1) % OamBytes \in 0..(OamBytes - 1)
<1> DEFINE i == oamaddr \div 4
           k == (oamaddr % 4) + 1
           field == Fields[k]
           s == sprite_ram[i]
           t == [s EXCEPT ![field] = value]
<1>1. oamaddr \in Nat /\ i \in 0..SpriteCount /\ k \in {1, 2, 3, 4}
      /\ (oamaddr + 1) % OamBytes \in 0..(OamBytes - 1)
  BY Sizes DEF TypeOK, OamBytes
<1>2. sprite_ram \in [0..SpriteCount -> Sprites] /\ s \in Sprites
  BY <1>1 DEF TypeOK
<1>3. t \in Sprites
  <2>1. CASE k = 1
    <3>1. field = "y" /\ value \in Nat
      BY <2>1, OamAssumption DEF Fields
    <3> HIDE DEF field, s
    <3> QED
      BY <1>2, <3>1 DEF Sprites
  <2>2. CASE k = 2
    <3>1. field = "columns" /\ value \in SUBSET (0..(SpriteWidth - 1))
      BY <2>2, OamAssumption DEF Fields
    <3> HIDE DEF field, s
    <3> QED
      BY <1>2, <3>1 DEF Sprites
  <2>3. CASE k = 3
    <3>1. field = "front" /\ value \in BOOLEAN
      BY <2>3, OamAssumption DEF Fields
    <3> HIDE DEF field, s
    <3> QED
      BY <1>2, <3>1 DEF Sprites
  <2>4. CASE k = 4
    <3>1. field = "x" /\ value \in Nat
      BY <2>4, OamAssumption DEF Fields
    <3> HIDE DEF field, s
    <3> QED
      BY <1>2, <3>1 DEF Sprites
  <2> HIDE DEF k
  <2> QED
    BY <1>1, <2>1, <2>2, <2>3, <2>4
<1>4. [sprite_ram EXCEPT ![i][field] = value] = [sprite_ram EXCEPT ![i] = t]
  OBVIOUS
<1> HIDE DEF t, i
<1>5. [sprite_ram EXCEPT ![i] = t] \in [0..SpriteCount -> Sprites]
  BY <1>1, <1>2, <1>3
<1> QED
  BY <1>1, <1>4, <1>5 DEF i

\* Each of the program's accesses is such a step.
LEMMA WriteInv ==
    ASSUME LineInv, NEW d \in StepDots,
           \/ \E shown \in SUBSET {"bg", "sp"}, clips \in BOOLEAN :
                  WriteCtrl1(d, shown, clips)
           \/ ReadStatus(d)
           \/ \E page \in Pages : Dma(d, page)
           \/ \E addr \in Addresses : WriteSpriteAddr(d, addr)
           \/ WriteSpriteData(d)
    PROVE  LineInv'
<1>0. /\ TypeOK
      /\ hit \in BOOLEAN /\ told \in BOOLEAN /\ overflow \in BOOLEAN
      /\ clip \in BOOLEAN /\ layers \subseteq {"bg", "sp"}
      /\ sprite_ram \in [0..SpriteCount -> Sprites]
      /\ oamaddr \in 0..(OamBytes - 1)
  BY DEF LineInv, TypeOK
<1>1. CASE \E shown \in SUBSET {"bg", "sp"}, clips \in BOOLEAN :
               WriteCtrl1(d, shown, clips)
  BY <1>0, <1>1, CpuStepInv DEF WriteCtrl1, oamVars
<1>2. CASE ReadStatus(d)
  BY <1>0, <1>2, CpuStepInv DEF ReadStatus, oamVars
<1>3. CASE \E page \in Pages : Dma(d, page)
  <2>1. \A page \in Pages : page \in [0..SpriteCount -> Sprites]
    BY OamAssumption
  <2> QED
    BY <1>0, <1>3, <2>1, CpuStepInv DEF Dma, Store
<1>4. CASE \E addr \in Addresses : WriteSpriteAddr(d, addr)
  <2>1. \A addr \in Addresses : addr \in 0..(OamBytes - 1)
    BY OamAssumption
  <2> QED
    BY <1>0, <1>4, <2>1, CpuStepInv DEF WriteSpriteAddr
<1>5. CASE WriteSpriteData(d)
  <2>1. PICK value \in Values[Fields[(oamaddr % 4) + 1]] :
            /\ Store(d, [sprite_ram EXCEPT
                            ![oamaddr \div 4][Fields[(oamaddr % 4) + 1]] = value])
            /\ oamaddr' = (oamaddr + 1) % OamBytes
    BY <1>5 DEF WriteSpriteData
  <2>2. sprite_ram' \in [0..SpriteCount -> Sprites] /\ oamaddr' \in 0..(OamBytes - 1)
    BY <1>0, <2>1, StoredSprite DEF Store
  <2> QED
    BY <1>0, <2>1, <2>2, CpuStepInv DEF Store
<1> QED
  BY <1>1, <1>2, <1>3, <1>4, <1>5

\* The end of a line, with the line it leads to.
LEMMA LineStepInv ==
    ASSUME LineInv, LineStep
    PROVE  LineInv'
<1>1. /\ TypeOK /\ phase = "ppu" /\ phase' = "ppu" /\ DotsPerLine <= ppux
      /\ ppux' = ppux - DotsPerLine /\ tmpx' = 0 /\ told' = FALSE
      /\ ppux < 2 * DotsPerLine /\ ppux \in Nat
      /\ line' = IF line + 1 = FrameLines THEN 0 ELSE line + 1
      /\ line \in 0..(FrameLines - 1)
      /\ UNCHANGED <<layers, clip, sprite_ram, oamaddr>>
      /\ zero' = IF sprite_zero' THEN Opaque(sprite_ram[0]) ELSE {}
  BY DEF LineInv, TypeOK, BeamInv, LineStep, oamVars
<1>2. ppux' \in Nat /\ ppux' < DotsPerLine /\ line' \in 0..(FrameLines - 1)
  BY <1>1, Sizes
<1>3. BeamInv'
  BY <1>1, <1>2, Sizes DEF BeamInv
<1>4. /\ sprite_zero' \in BOOLEAN /\ hit' \in BOOLEAN /\ overflow' \in BOOLEAN
      /\ sp_line_buffer' \in [Pixels -> Oam \cup {None}]
      /\ bg_line_buffer' \in [Pixels -> Oam \cup {Clear, Tile}]
      /\ zero' = IF sprite_zero' THEN {p \in Pixels : sp_line_buffer'[p] = 0} ELSE {}
  <2>0. /\ sprite_zero \in BOOLEAN /\ hit \in BOOLEAN /\ overflow \in BOOLEAN
        /\ sp_line_buffer \in [Pixels -> Oam \cup {None}]
        /\ bg_line_buffer \in [Pixels -> Oam \cup {Clear, Tile}]
    BY <1>1 DEF TypeOK
  <2>1. CASE ~(line + 1 < VBlankLine)
    BY <1>1, <2>0, <2>1 DEF LineStep
  <2>2. CASE line + 1 < VBlankLine
    <3>1. BuildLine(line + 1) /\ hit' = hit /\ line + 1 \in Int
      BY <1>1, <2>2 DEF LineStep
    <3>2. CASE "sp" \in layers
      <4>1. /\ sprite_zero' = OnLine(sprite_ram[0].y, line + 1)
            /\ sp_line_buffer' = LineAfter(line + 1).sp
            /\ bg_line_buffer' = LineAfter(line + 1).bg
            /\ overflow' = (LineAfter(line + 1).count >= PerLine)
        BY <3>1, <3>2 DEF BuildLine
      <4>2. LineAfter(line + 1) \in Lines
        BY <1>1, <3>1, LineAfterRight
      <4>3. sprite_zero' => Opaque(sprite_ram[0]) = {p \in Pixels : sp_line_buffer'[p] = 0}
        BY <1>1, <3>1, <4>1, ZeroInFront
      <4>4. sprite_zero' \in BOOLEAN
        BY <4>1 DEF OnLine
      <4>5. overflow' \in BOOLEAN
        BY <4>1
      <4>6. /\ sp_line_buffer' \in [Pixels -> Oam \cup {None}]
            /\ bg_line_buffer' \in [Pixels -> Oam \cup {Clear, Tile}]
        BY <4>1, <4>2 DEF Lines
      <4> QED
        BY <1>1, <2>0, <3>1, <4>3, <4>4, <4>5, <4>6
    <3>3. CASE "sp" \notin layers
      <4>1. /\ sprite_zero' = FALSE /\ UNCHANGED <<sp_line_buffer, overflow>>
            /\ bg_line_buffer' = bg_line_buffer \/ bg_line_buffer' = Background(line + 1)
        BY <3>1, <3>3 DEF BuildLine
      <4>2. Background(line + 1) \in [Pixels -> Oam \cup {Clear, Tile}]
        BY DEF Background
      <4> QED
        BY <1>1, <2>0, <3>1, <4>1, <4>2
    <3> QED
      BY <3>2, <3>3
  <2> QED
    BY <2>1, <2>2
<1>5. TypeOK'
  BY <1>1, <1>2, <1>4 DEF TypeOK
<1>6. HitInv'
  <2>1. \A p \in Pixels : 0 <= p
    BY Sizes DEF Pixels
  <2>2. zero' \subseteq Pixels
    BY <1>4
  <2> QED
    BY <1>1, <1>4, <2>1, <2>2 DEF HitInv
<1> QED
  BY <1>3, <1>5, <1>6 DEF LineInv

\* The search: what it does not find in front of the beam is behind it.
LEMMA FinishRunInv ==
    ASSUME LineInv, FinishRun
    PROVE  LineInv'
<1>1. /\ TypeOK /\ phase = "ppu" /\ phase' = "cpu" /\ ppux < DotsPerLine
      /\ hit' = (hit \/ /\ sprite_zero
                        /\ \E p \in Searched(tmpx, ppux) : sp_line_buffer[p] = 0)
      /\ UNCHANGED <<ppux, line, tmpx, sprite_zero, overflow, layers, clip, told,
                     sprite_ram, oamaddr, sp_line_buffer, bg_line_buffer, zero>>
  BY DEF LineInv, FinishRun, oamVars
<1>2. TypeOK'
  BY <1>1 DEF TypeOK
<1>3. BeamInv'
  BY <1>1, Sizes DEF BeamInv, TypeOK
<1>4. HitInv'
  <2>1. ASSUME NEW p \in zero, ~(hit' \/ told') PROVE ppux < p
    <3>1. p \in Pixels /\ sprite_zero /\ sp_line_buffer[p] = 0 /\ tmpx <= p
      BY <1>1, <2>1 DEF LineInv, HitInv
    <3>2. p \notin Searched(tmpx, ppux)
      BY <1>1, <2>1, <3>1
    <3>3. p \in Int /\ ppux \in Int
      BY <1>1, <3>1, Sizes DEF TypeOK, Pixels
    <3> QED
      BY <3>1, <3>2, <3>3 DEF Searched
  <2> QED
    BY <1>1, <2>1 DEF HitInv, LineInv
<1> QED
  BY <1>2, <1>3, <1>4 DEF LineInv

\* Every step keeps LineInv.
LEMMA NextLineInv ==
    ASSUME LineInv, [Next]_vars
    PROVE  LineInv'
<1>1. CASE UNCHANGED vars
  BY <1>1 DEF vars, oamVars, LineInv, TypeOK, BeamInv, HitInv
<1>2. CASE Next
  BY <1>2, WriteInv, LineStepInv, FinishRunInv DEF Next
<1> QED
  BY <1>1, <1>2

-----------------------------------------------------------------------------
(* The theorems.                                                           *)

\* LineInv is an invariant of every run.
THEOREM LineInvariant == Spec => []LineInv
BY InitLineInv, NextLineInv, PTL DEF Spec

\* However the program changes the sprites, the layers and the clipping, a new
\* line shows at each pixel the first of the sprites drawn on it that is opaque
\* there, the background in front of it where it says so, and the overflow
\* flag tells whether as many sprites cover the line as can be drawn.
THEOREM SpritesAreInOrder == Spec => SpritesInOrder
<1>1. ASSUME LineInv, [Next]_vars, Starts, "sp" \in layers
      PROVE  /\ \A p \in Pixels :
                    <<sp_line_buffer'[p], bg_line_buffer'[p]>> = PixelOf(p, line')
             /\ overflow' = (Cardinality(Covering(line')) >= PerLine)
  <2>1. LineStep
    BY <1>1 DEF Next, vars, oamVars, Starts, Beam, WriteCtrl1, ReadStatus, Store,
                Dma, WriteSpriteAddr, WriteSpriteData, FinishRun
  <2>2. TypeOK /\ line \in Nat /\ line + 1 \in Int
    BY <1>1 DEF LineInv, TypeOK
  <2>3. line' = line + 1 /\ line + 1 < VBlankLine
    BY <1>1, <2>1, <2>2, Sizes DEF LineStep, Starts
  <2>4. BuildLine(line + 1)
    BY <2>1, <2>3 DEF LineStep
  <2> QED
    BY <1>1, <2>2, <2>3, <2>4, NewLineExact
<1>2. LineInv /\ [Next]_vars =>
          (Starts /\ "sp" \in layers =>
              /\ \A p \in Pixels :
                     <<sp_line_buffer'[p], bg_line_buffer'[p]>> = PixelOf(p, line')
              /\ overflow' = (Cardinality(Covering(line')) >= PerLine))
  BY <1>1
<1> QED
  BY <1>2, LineInvariant, PTL DEF Spec, SpritesInOrder

\* The beam leaves no line with an opaque pixel of sprite 0 without the hit,
\* or without having told the program of it, whatever the steps of the CPU
\* are and however the program replaces the sprites meanwhile.
THEOREM HitIsNotMissed == Spec => HitNotMissed
<1>1. ASSUME LineInv, [Next]_vars, phase = "ppu", line' # line, zero # {}
      PROVE  hit \/ told
  <2>1. LineStep
    BY <1>1 DEF Next, vars, oamVars, Beam, WriteCtrl1, ReadStatus, Store,
                Dma, WriteSpriteAddr, WriteSpriteData, FinishRun
  <2>2. Width <= tmpx
    BY <1>1, <2>1 DEF LineStep, LineInv, BeamInv
  <2>3. PICK p \in zero : TRUE
    BY <1>1
  <2>4. p \in Pixels
    BY <1>1 DEF LineInv, HitInv
  <2>5. ~(tmpx <= p)
    BY <1>1, <2>2, <2>4, Sizes DEF LineInv, TypeOK, Pixels
  <2> QED
    BY <1>1, <2>3, <2>5 DEF LineInv, HitInv
<1>2. LineInv /\ [Next]_vars =>
          (phase = "ppu" /\ line' # line /\ zero # {} => hit \/ told)
  BY <1>1
<1> QED
  BY <1>2, LineInvariant, PTL DEF Spec, HitNotMissed

\* The flag rises only when the beam has reached an opaque pixel of sprite 0.
THEOREM HitIsNotEarly == Spec => HitNotEarly
<1>1. ASSUME LineInv, [Next]_vars, ~hit, hit'
      PROVE  \E p \in zero : p <= ppux
  <2>1. FinishRun
    <3>1. CASE LineStep
      BY <1>1, <3>1 DEF LineStep
    <3> QED
      BY <1>1, <3>1 DEF Next, vars, oamVars, Beam, WriteCtrl1, ReadStatus, Store,
                Dma, WriteSpriteAddr, WriteSpriteData
  <2>2. PICK p \in Searched(tmpx, ppux) : sprite_zero /\ sp_line_buffer[p] = 0
    BY <1>1, <2>1 DEF FinishRun
  <2>3. p \in zero
    BY <1>1, <2>2 DEF LineInv, HitInv, Searched
  <2> QED
    BY <2>2, <2>3 DEF Searched
<1>2. LineInv /\ [Next]_vars => (~hit /\ hit' => \E p \in zero : p <= ppux)
  BY <1>1
<1> QED
  BY <1>2, LineInvariant, PTL DEF Spec, HitNotEarly
=============================================================================
