-------------------------- MODULE SequencerProofs ---------------------------
(***************************************************************************)
(* Proofs about Sequencer, for every length of steps, time frames, bytes   *)
(* and samples.  What a run of the sample player does is a recursion over  *)
(* the bits it plays; the first part derives what is needed about such     *)
(* recursions from the well-foundedness of the natural numbers.            *)
(***************************************************************************)
EXTENDS Sequencer, WellFoundedInduction, TLAPS

-----------------------------------------------------------------------------
(* Induction over sets, and functions defined by recursion.                *)

\* A set with 0 that has the successor of each of its numbers has them all.
LEMMA SetInduction ==
    ASSUME NEW T, 0 \in T, \A n \in Nat : n \in T => n + 1 \in T
    PROVE  Nat \subseteq T
<1> DEFINE R == OpToRel(<, Nat)
           Bad == {n \in Nat : n \notin T}
<1> SUFFICES ASSUME Bad # {} PROVE FALSE
  OBVIOUS
<1>1. IsWellFoundedOn(R, Nat)
  BY NatLessThanWellFounded
<1>2. \A i, j \in Nat : i < j => <<i, j>> \in R
  BY DEF OpToRel
<1> HIDE DEF R
<1>3. PICK m \in Bad : \A k \in Bad : ~(<<k, m>> \in R)
  <2>1. Bad \subseteq Nat
    OBVIOUS
  <2> HIDE DEF Bad
  <2> QED
    BY <1>1, <2>1, WFMin
<1>4. m # 0
  OBVIOUS
<1>5. m - 1 \in Nat /\ m - 1 < m
  BY <1>4
<1>6. m - 1 \in T
  BY <1>5, <1>2, <1>3
<1> QED
  BY <1>5, <1>6

\* f follows the step g from a, up to n.
Follows(f, a, g, n) ==
    f[0] = a /\ \A k \in Nat : k < n => f[k + 1] = g[<<k, f[k]>>]

\* Two functions that follow the same step agree as far as both go.
LEMMA FollowsOne ==
    ASSUME NEW a, NEW g, NEW f, NEW h, NEW n \in Nat, NEW m \in Nat,
           Follows(f, a, g, n), Follows(h, a, g, m)
    PROVE  \A k \in Nat : k <= n /\ k <= m => f[k] = h[k]
<1> DEFINE T == {k \in Nat : k <= n /\ k <= m => f[k] = h[k]}
<1>1. 0 \in T
  BY DEF Follows
<1>2. ASSUME NEW k \in Nat, k \in T PROVE k + 1 \in T
  <2> SUFFICES ASSUME k + 1 <= n, k + 1 <= m PROVE f[k + 1] = h[k + 1]
    OBVIOUS
  <2>1. k < n /\ k < m /\ k <= n /\ k <= m
    OBVIOUS
  <2>2. f[k] = h[k]
    BY <1>2, <2>1
  <2> QED
    BY <2>1, <2>2, Zenon DEF Follows
<1> HIDE DEF T
<1>3. Nat \subseteq T
  BY <1>1, <1>2, SetInduction
<1> QED
  BY <1>3 DEF T

\* A step of S can be followed to any number.
LEMMA FollowsExists ==
    ASSUME NEW S, NEW a \in S, NEW g \in [Nat \X S -> S], NEW n \in Nat
    PROVE  \E f \in [Nat -> S] : Follows(f, a, g, n)
<1> DEFINE T == {k \in Nat : \E f \in [Nat -> S] : Follows(f, a, g, k)}
<1>1. 0 \in T
  <2>1. [k \in Nat |-> a] \in [Nat -> S] /\ Follows([k \in Nat |-> a], a, g, 0)
    BY DEF Follows
  <2> QED
    BY <2>1
<1>2. ASSUME NEW k \in Nat, k \in T PROVE k + 1 \in T
  <2>1. PICK f \in [Nat -> S] : Follows(f, a, g, k)
    BY <1>2
  <2> DEFINE h == [f EXCEPT ![k + 1] = g[<<k, f[k]>>]]
  <2>2. h \in [Nat -> S]
    OBVIOUS
  <2>3. \A j \in Nat : h[j] = IF j = k + 1 THEN g[<<k, f[k]>>] ELSE f[j]
    OBVIOUS
  <2> HIDE DEF h
  <2>4. Follows(h, a, g, k + 1)
    <3>1. h[0] = a
      BY <2>1, <2>3 DEF Follows
    <3>2. ASSUME NEW j \in Nat, j < k + 1 PROVE h[j + 1] = g[<<j, h[j]>>]
      <4>1. h[j] = f[j]
        BY <2>3, <3>2
      <4>2. CASE j = k
        BY <2>3, <4>1, <4>2
      <4>3. CASE j # k
        <5>1. j < k /\ j + 1 # k + 1
          BY <3>2, <4>3
        <5>2. f[j + 1] = g[<<j, f[j]>>]
          BY <2>1, <5>1 DEF Follows
        <5> QED
          BY <2>3, <4>1, <5>1, <5>2
      <4> QED
        BY <4>2, <4>3
    <3> QED
      BY <3>1, <3>2 DEF Follows
  <2> QED
    BY <2>2, <2>4
<1> HIDE DEF T
<1>3. n \in T
  BY <1>1, <1>2, SetInduction
<1> QED
  BY <1>3 DEF T

\* f is the function defined by recursion from a with g.
Recurses(f, a, g) == f[0] = a /\ \A n \in Nat : f[n + 1] = g[<<n, f[n]>>]

\* A start in S and a step of S define a function by recursion.
LEMMA RecursiveFunction ==
    ASSUME NEW S, NEW a \in S, NEW g \in [Nat \X S -> S]
    PROVE  \E f \in [Nat -> S] : Recurses(f, a, g)
<1> DEFINE part(n) == CHOOSE f \in [Nat -> S] : Follows(f, a, g, n)
           f == [n \in Nat |-> part(n)[n]]
<1>1. \A n \in Nat : part(n) \in [Nat -> S] /\ Follows(part(n), a, g, n)
  BY FollowsExists
<1> HIDE DEF part
<1>2. f \in [Nat -> S]
  BY <1>1
<1>3. f[0] = a
  BY <1>1 DEF Follows
<1>4. ASSUME NEW n \in Nat PROVE f[n + 1] = g[<<n, f[n]>>]
  <2>1. part(n + 1)[n] = part(n)[n]
    <3>1. n + 1 \in Nat /\ n <= n /\ n <= n + 1
      OBVIOUS
    <3>2. Follows(part(n + 1), a, g, n + 1) /\ Follows(part(n), a, g, n)
      BY <1>1, <3>1
    <3> QED
      BY <3>1, <3>2, FollowsOne
  <2>2. part(n + 1)[n + 1] = g[<<n, part(n + 1)[n]>>]
    BY <1>1 DEF Follows
  <2> QED
    BY <2>1, <2>2
<1> QED
  BY <1>2, <1>3, <1>4 DEF Recurses

-----------------------------------------------------------------------------
(* Products and quotients, so that the steps below stay linear.            *)

\* Products are natural, distribute over sums and keep the order.
LEMMA Products ==
    ASSUME NEW m \in Nat, NEW n \in Nat, NEW f \in Nat
    PROVE  /\ m * f \in Nat
           /\ (m + n) * f = m * f + n * f
           /\ m <= n => m * f <= n * f
<1>1. m * f \in Nat /\ (m + n) * f = m * f + n * f
  BY SMT
<1>2. ASSUME m <= n
      PROVE  m * f <= n * f
  <2>1. PICK k \in Nat : n = m + k
    BY <1>2, SMT
  <2>2. n * f = m * f + k * f /\ k * f \in Nat /\ m * f \in Nat
    BY <2>1, SMT
  <2> QED
    BY <2>2, SMT
<1> QED
  BY <1>1, <1>2

\* A number lies between its quotient and the next.
LEMMA Quotient ==
    ASSUME NEW x \in Nat, NEW p \in Nat \ {0}
    PROVE  /\ x \div p \in Nat /\ x % p \in Nat /\ x % p < p
           /\ x = (x \div p) * p + (x % p)
  OBVIOUS

\* And the quotient is the only such number.
LEMMA QuotientIs ==
    ASSUME NEW p \in Nat \ {0}, NEW c \in Nat, NEW r \in Nat, r < p, NEW x \in Nat,
           x = c * p + r
    PROVE  x \div p = c /\ x % p = r
<1> DEFINE q == x \div p
           s == x % p
<1>1. /\ q \in Nat /\ s \in Nat /\ s < p /\ x = q * p + s
  BY Quotient
<1> HIDE DEF q, s
<1>2. CASE q < c
  <2>1. (q + 1) * p <= c * p /\ (q + 1) * p = q * p + 1 * p
    BY <1>1, <1>2, Products
  <2>2. q * p \in Nat /\ c * p \in Nat
    BY <1>1, Products
  <2> QED
    BY <1>1, <2>1, <2>2
<1>3. CASE c < q
  <2>1. (c + 1) * p <= q * p /\ (c + 1) * p = c * p + 1 * p
    BY <1>1, <1>3, Products
  <2>2. q * p \in Nat /\ c * p \in Nat
    BY <1>1, Products
  <2> QED
    BY <1>1, <2>1, <2>2
<1>4. CASE q = c
  <2>1. c * p \in Nat
    BY Products
  <2> QED
    BY <1>1, <1>4, <2>1 DEF q, s
<1> QED
  BY <1>1, <1>2, <1>3, <1>4

-----------------------------------------------------------------------------
(* The sample player.                                                      *)

Bits == 1..BitsPerByte

\* What the player's record is whatever the program wrote.
Player ==
    [len : Nat, full : BOOLEAN, silence : BOOLEAN, bits : Bits, delay : Nat,
     period : Nat \ {0}, loop : BOOLEAN, irq_enabled : BOOLEAN,
     irq_flag : BOOLEAN, next_irq : Int, enabled : BOOLEAN, sample : Nat \ {0}]

\* The numbers of bits a byte can have left.
LEMMA BitsRange ==
    /\ BitsPerByte \in Nat \ {0} /\ BitsPerByte \in Bits /\ NoIrq \in Int
    /\ \A i : i \in Bits <=> i \in Int /\ 1 <= i /\ i <= BitsPerByte
BY OscillatorAssumption DEF Bits

\* Reading a byte changes what is left to read and nothing of the timing.
LEMMA FillType ==
    ASSUME NEW d \in Player
    PROVE  /\ fill_buffer(d) \in Player
           /\ fill_buffer(d).bits = d.bits /\ fill_buffer(d).delay = d.delay
           /\ fill_buffer(d).period = d.period /\ fill_buffer(d).loop = d.loop
           /\ fill_buffer(d).irq_enabled = d.irq_enabled
           /\ fill_buffer(d).sample = d.sample /\ fill_buffer(d).silence = d.silence
<1> DEFINE read == [d EXCEPT !.full = TRUE, !.len = @ - 1]
<1>1. CASE d.full \/ d.len = 0
  BY <1>1 DEF fill_buffer
<1>2. CASE ~(d.full \/ d.len = 0) /\ d.len > 1
  <2>1. fill_buffer(d) = read
    BY <1>2 DEF fill_buffer, Player
  <2>2. d.len - 1 \in Nat
    BY <1>2 DEF Player
  <2>3. [d EXCEPT !.full = TRUE, !.len = d.len - 1] \in Player
    BY <2>2 DEF Player
  <2> QED
    BY <2>1, <2>3 DEF Player
<1>3. CASE ~(d.full \/ d.len = 0) /\ ~(d.len > 1) /\ d.loop
  <2>1. fill_buffer(d) = [read EXCEPT !.len = d.sample]
    BY <1>3 DEF fill_buffer, Player
  <2> QED
    BY <1>3, <2>1 DEF Player
<1>4. CASE ~(d.full \/ d.len = 0) /\ ~(d.len > 1) /\ ~d.loop
  <2>1. fill_buffer(d) = [[read EXCEPT !.enabled = FALSE]
                            EXCEPT !.irq_flag = d.irq_enabled, !.next_irq = NoIrq]
    BY <1>4 DEF fill_buffer, Disabled, Player
  <2>2. d.len - 1 = 0
    BY <1>4 DEF Player
  <2>3. [[[d EXCEPT !.full = TRUE, !.len = 0] EXCEPT !.enabled = FALSE]
            EXCEPT !.irq_flag = d.irq_enabled, !.next_irq = NoIrq] \in Player
    BY BitsRange DEF Player
  <2>4. fill_buffer(d) \in Player
    BY <2>1, <2>2, <2>3
  <2>5. fill_buffer(d) = [[[d EXCEPT !.full = TRUE, !.len = 0] EXCEPT !.enabled = FALSE]
                             EXCEPT !.irq_flag = d.irq_enabled, !.next_irq = NoIrq]
    BY <2>1, <2>2
  <2>6. /\ fill_buffer(d).bits = d.bits /\ fill_buffer(d).delay = d.delay
        /\ fill_buffer(d).period = d.period /\ fill_buffer(d).sample = d.sample
    BY <2>5 DEF Player
  <2>7. /\ fill_buffer(d).loop = d.loop /\ fill_buffer(d).irq_enabled = d.irq_enabled
        /\ fill_buffer(d).silence = d.silence
    BY <2>5 DEF Player
  <2> QED
    BY <2>4, <2>6, <2>7
<1> QED
  BY <1>1, <1>2, <1>3, <1>4

\* A bit counts the bits of its byte down and leaves the timing alone.
LEMMA PlayBitType ==
    ASSUME NEW d \in Player
    PROVE  /\ PlayBit(d) \in Player
           /\ PlayBit(d).delay = d.delay /\ PlayBit(d).period = d.period
           /\ PlayBit(d).loop = d.loop /\ PlayBit(d).sample = d.sample
           /\ PlayBit(d).irq_enabled = d.irq_enabled
           /\ PlayBit(d).bits = IF d.bits > 1 THEN d.bits - 1 ELSE BitsPerByte
<1>1. CASE d.bits > 1
  <2>1. d.bits - 1 \in Bits
    BY <1>1, BitsRange DEF Player
  <2> QED
    BY <1>1, <2>1 DEF PlayBit, Player
<1>2. CASE ~(d.bits > 1) /\ ~d.full
  BY <1>2, BitsRange DEF PlayBit, Player
<1>3. CASE ~(d.bits > 1) /\ d.full
  <2> DEFINE e == [d EXCEPT !.bits = BitsPerByte, !.silence = FALSE, !.full = FALSE]
  <2>1. /\ e \in Player /\ e.delay = d.delay /\ e.period = d.period
        /\ e.loop = d.loop /\ e.sample = d.sample /\ e.irq_enabled = d.irq_enabled
        /\ e.bits = BitsPerByte
    BY BitsRange DEF Player
  <2>2. PlayBit(d) = fill_buffer(e)
    BY <1>3 DEF PlayBit
  <2> HIDE DEF e
  <2> QED
    BY <1>3, <2>1, <2>2, FillType
<1> QED
  BY <1>1, <1>2, <1>3

\* f is the player before any bit, after one, after two, ...
Plays(f, d) == f[0] = d /\ \A n \in Nat : f[n + 1] = PlayBit(f[n])

Played(d) == CHOOSE f \in [Nat -> Player] : Plays(f, d)

\* The recursion over the bits has the function that is chosen for it.
LEMMA PlayedIs ==
    ASSUME NEW d \in Player
    PROVE  Played(d) \in [Nat -> Player] /\ Plays(Played(d), d)
<1> DEFINE g == [c \in Nat \X Player |-> PlayBit(c[2])]
<1>1. g \in [Nat \X Player -> Player]
  BY PlayBitType
<1>2. \A n \in Nat, e \in Player : g[<<n, e>>] = PlayBit(e)
  OBVIOUS
<1> HIDE DEF g
<1>3. PICK f \in [Nat -> Player] : Recurses(f, d, g)
  BY <1>1, RecursiveFunction
<1>4. Plays(f, d)
  <2>1. ASSUME NEW n \in Nat PROVE f[n + 1] = PlayBit(f[n])
    BY <1>2, <1>3 DEF Recurses
  <2> QED
    BY <1>3, <2>1 DEF Recurses, Plays
<1> QED
  BY <1>4 DEF Played

\* The same, as the equations the proofs below use.
LEMMA PlayedSteps ==
    ASSUME NEW d \in Player
    PROVE  /\ Played(d)[0] = d
           /\ \A n \in Nat : Played(d)[n] \in Player
           /\ \A n \in Nat : Played(d)[n + 1] = PlayBit(Played(d)[n])
BY PlayedIs DEF Plays

\* Played on is played in one go.
LEMMA PlayedOn ==
    ASSUME NEW d \in Player, NEW m \in Nat, NEW n \in Nat
    PROVE  Played(Played(d)[m])[n] = Played(d)[m + n]
<1> DEFINE e == Played(d)[m]
           T == {k \in Nat : Played(e)[k] = Played(d)[m + k]}
<1>1. e \in Player
  BY PlayedSteps
<1>2. 0 \in T
  <2>1. m + 0 = m
    OBVIOUS
  <2>2. Played(e)[0] = e
    BY <1>1, PlayedSteps
  <2> QED
    BY <2>1, <2>2
<1>3. ASSUME NEW k \in Nat, k \in T PROVE k + 1 \in T
  <2>1. m + (k + 1) = (m + k) + 1 /\ m + k \in Nat
    OBVIOUS
  <2>2. Played(e)[k + 1] = PlayBit(Played(e)[k])
    <3> HIDE DEF e
    <3> QED
      BY <1>1, PlayedSteps
  <2>3. Played(d)[(m + k) + 1] = PlayBit(Played(d)[m + k])
    BY <2>1, PlayedSteps
  <2> QED
    BY <1>3, <2>1, <2>2, <2>3
<1> HIDE DEF T
<1>4. n \in T
  BY <1>2, <1>3, SetInduction
<1> QED
  BY <1>4 DEF T

-----------------------------------------------------------------------------
(* A run of the player plays the bits that begin in it.                    *)

\* Two records of the player are equal when their fields are.
LEMMA SamePlayer ==
    ASSUME NEW d \in Player, NEW e \in Player,
           d.len = e.len, d.full = e.full, d.silence = e.silence, d.bits = e.bits,
           d.delay = e.delay, d.period = e.period, d.loop = e.loop,
           d.irq_enabled = e.irq_enabled, d.irq_flag = e.irq_flag,
           d.next_irq = e.next_irq, d.enabled = e.enabled, d.sample = e.sample
    PROVE  d = e
BY DEF Player

\* The remainder of a number below twice the divisor, and of the next number.
LEMMA SmallRemainder ==
    ASSUME NEW p \in Nat \ {0}, NEW v \in Nat, v < p + p
    PROVE  v % p = IF v < p THEN v ELSE v - p
<1>1. CASE v < p
  <2>1. v = 0 * p + v
    OBVIOUS
  <2> QED
    BY <1>1, <2>1, QuotientIs
<1>2. CASE ~(v < p)
  <2>1. v = 1 * p + (v - p) /\ v - p \in Nat /\ v - p < p
    BY <1>2
  <2> QED
    BY <1>2, <2>1, QuotientIs
<1> QED
  BY <1>1, <1>2

\* The remainder of the next number is one more, or 0 at a multiple.
LEMMA NextRemainder ==
    ASSUME NEW p \in Nat \ {0}, NEW n \in Nat
    PROVE  (n + 1) % p = IF n % p = p - 1 THEN 0 ELSE (n % p) + 1
<1> DEFINE q == n \div p
           r == n % p
<1>1. q \in Nat /\ r \in Nat /\ r < p /\ n = q * p + r
  BY Quotient
<1> HIDE DEF q, r
<1>2. q * p \in Nat /\ (q + 1) * p = q * p + 1 * p
  BY <1>1, Products
<1>3. CASE r = p - 1
  <2>1. n + 1 = (q + 1) * p + 0 /\ q + 1 \in Nat /\ 0 < p /\ n + 1 \in Nat
    BY <1>1, <1>2, <1>3
  <2> QED
    BY <1>3, <2>1, QuotientIs DEF r
<1>4. CASE r # p - 1
  <2>1. n + 1 = q * p + (r + 1) /\ r + 1 \in Nat /\ r + 1 < p /\ n + 1 \in Nat
    BY <1>1, <1>2, <1>4
  <2>2. (n + 1) % p = r + 1
    BY <1>1, <2>1, QuotientIs
  <2> QED
    BY <1>4, <2>2 DEF r
<1> QED
  BY <1>3, <1>4

\* With nothing to play, playing bits is skipping them.
LEMMA SilentSkips ==
    ASSUME NEW d \in Player, d.silence, ~d.full, NEW n \in Nat
    PROVE  Played(d)[n] = SkipBits(d, n)
<1> DEFINE r(k) == k % BitsPerByte
           v(k) == d.bits - 1 + BitsPerByte - r(k)
           m(k) == v(k) % BitsPerByte
           T == {k \in Nat : Played(d)[k] = SkipBits(d, k)}
<1>0. d.bits \in Int /\ 1 <= d.bits /\ d.bits <= BitsPerByte
  BY BitsRange DEF Player
<1>1. \A k \in Nat : /\ r(k) \in Nat /\ r(k) < BitsPerByte
                     /\ r(k + 1) = IF r(k) = BitsPerByte - 1 THEN 0 ELSE r(k) + 1
                     /\ m(k) = IF v(k) < BitsPerByte THEN v(k) ELSE v(k) - BitsPerByte
  <2> TAKE k \in Nat
  <2>1. r(k) \in Nat /\ r(k) < BitsPerByte
    BY BitsRange, Quotient
  <2>2. r(k + 1) = IF r(k) = BitsPerByte - 1 THEN 0 ELSE r(k) + 1
    BY BitsRange, NextRemainder
  <2>3. m(k) = IF v(k) < BitsPerByte THEN v(k) ELSE v(k) - BitsPerByte
    <3> HIDE DEF r
    <3>1. v(k) \in Nat /\ v(k) < BitsPerByte + BitsPerByte
      BY <1>0, <2>1, BitsRange
    <3> HIDE DEF v
    <3> QED
      BY <3>1, BitsRange, SmallRemainder
  <2> QED
    BY <2>1, <2>2, <2>3
<1>2. \A k \in Nat : /\ SkipBits(d, k) = [d EXCEPT !.bits = 1 + m(k)]
                     /\ 1 + m(k) \in Bits
                     /\ SkipBits(d, k) \in Player
  <2> TAKE k \in Nat
  <2>1. SkipBits(d, k) = [d EXCEPT !.bits = 1 + m(k)]
    BY DEF SkipBits, Player
  <2> HIDE DEF r, m
  <2>2. 1 + m(k) \in Bits
    <3>1. 1 + m(k) \in Int /\ 1 <= 1 + m(k) /\ 1 + m(k) <= BitsPerByte
      <4>1. /\ r(k) \in Nat /\ r(k) < BitsPerByte
            /\ m(k) = IF v(k) < BitsPerByte THEN v(k) ELSE v(k) - BitsPerByte
        BY <1>1
      <4>2. BitsPerByte \in Nat
        BY BitsRange
      <4> QED
        BY <1>0, <4>1, <4>2
    <3> QED
      BY <3>1, BitsRange
  <2> HIDE DEF v
  <2> QED
    BY <2>1, <2>2 DEF Player
<1>9. r(0) = 0
  BY BitsRange, SmallRemainder
<1> HIDE DEF r, m
<1>3. 0 \in T
  <2>1. 1 + m(0) = d.bits
    BY <1>0, <1>1, <1>9, BitsRange
  <2>2. SkipBits(d, 0) = d
    BY <1>2, <2>1 DEF Player
  <2> QED
    BY <2>2, PlayedSteps
<1>4. ASSUME NEW k \in Nat, k \in T PROVE k + 1 \in T
  <2> DEFINE e == SkipBits(d, k)
  <2>1. Played(d)[k + 1] = PlayBit(e)
    BY <1>4, PlayedSteps
  <2>2. e \in Player /\ e.silence /\ ~e.full
    BY <1>2 DEF SkipBits, Player
  <2>3. PlayBit(e).bits = SkipBits(d, k + 1).bits
    <3>1. k + 1 \in Nat
      OBVIOUS
    <3>2. PlayBit(e).bits = IF e.bits > 1 THEN e.bits - 1 ELSE BitsPerByte
      BY <2>2, PlayBitType
    <3>3. e.bits = 1 + m(k) /\ SkipBits(d, k + 1).bits = 1 + m(k + 1)
      BY <1>2, <3>1 DEF Player
    <3>4. (IF 1 + m(k) > 1 THEN (1 + m(k)) - 1 ELSE BitsPerByte) = 1 + m(k + 1)
      <4>1. /\ r(k) \in Nat /\ r(k) < BitsPerByte
            /\ r(k + 1) = IF r(k) = BitsPerByte - 1 THEN 0 ELSE r(k) + 1
            /\ m(k) = IF v(k) < BitsPerByte THEN v(k) ELSE v(k) - BitsPerByte
        BY <1>1
      <4>2. m(k + 1) = IF v(k + 1) < BitsPerByte THEN v(k + 1) ELSE v(k + 1) - BitsPerByte
        BY <1>1, <3>1
      <4>3. BitsPerByte \in Nat
        BY BitsRange
      <4> QED
        BY <1>0, <4>1, <4>2, <4>3
    <3> QED
      BY <3>2, <3>3, <3>4
  <2>4. PlayBit(e) = SkipBits(d, k + 1)
    <3>1. PlayBit(e) \in Player /\ SkipBits(d, k + 1) \in Player
      BY <1>2, <2>2, PlayBitType
    <3>2. PlayBit(e) = [e EXCEPT !.bits = PlayBit(e).bits]
      <4>1. CASE e.bits > 1
        BY <2>2, <4>1 DEF PlayBit, Player
      <4>2. CASE ~(e.bits > 1)
        <5>1. PlayBit(e) = [e EXCEPT !.bits = BitsPerByte, !.silence = TRUE]
          BY <2>2, <4>2 DEF PlayBit
        <5> HIDE DEF e
        <5> QED
          BY <2>2, <5>1, SamePlayer, BitsRange DEF Player
      <4> QED
        BY <4>1, <4>2
    <3>3. SkipBits(d, k + 1) = [e EXCEPT !.bits = SkipBits(d, k + 1).bits]
      BY DEF SkipBits, Player
    <3> QED
      BY <2>3, <3>2, <3>3
  <2> QED
    BY <2>1, <2>4
<1> HIDE DEF T
<1>5. n \in T
  BY <1>3, <1>4, SetInduction
<1> QED
  BY <1>5 DEF T

\* The bits that begin within a number of cycles, the first after a delay.
Begins(delay, p, cycles) ==
    IF delay < cycles THEN (cycles - delay + p - 1) \div p ELSE 0

\* The bits a run begins are just those whose delay ends before the run does.
LEMMA BeginsRange ==
    ASSUME NEW w \in Nat, NEW p \in Nat \ {0}, NEW c \in Nat
    PROVE  /\ Begins(w, p, c) \in Nat
           /\ Begins(w, p, c) * p \in Nat
           /\ c <= w + Begins(w, p, c) * p
           /\ Begins(w, p, c) > 0 => w + Begins(w, p, c) * p < c + p
           /\ Begins(w, p, c) = 0 <=> c <= w
<1>1. CASE w < c
  <2> DEFINE x == c - w + p - 1
             q == x \div p
             r == x % p
  <2>1. x \in Nat
    BY <1>1
  <2>2. q \in Nat /\ r \in Nat /\ r < p /\ x = q * p + r
    <3> HIDE DEF x
    <3> QED
      BY <2>1, Quotient
  <2>3. Begins(w, p, c) = q
    BY <1>1 DEF Begins
  <2> HIDE DEF q, r
  <2>4. q * p \in Nat
    BY <2>2, Products
  <2>5. q # 0
    <3> SUFFICES ASSUME q = 0 PROVE FALSE
      OBVIOUS
    <3>1. q * p = 0
      OBVIOUS
    <3> QED
      BY <1>1, <2>2, <3>1
  <2> QED
    BY <1>1, <2>2, <2>3, <2>4, <2>5
<1>2. CASE ~(w < c)
  <2>1. Begins(w, p, c) = 0 /\ 0 * p = 0
    BY <1>2 DEF Begins
  <2> QED
    BY <1>2, <2>1
<1> QED
  BY <1>1, <1>2

\* No other number of bits does that.
LEMMA BeginsIs ==
    ASSUME NEW w \in Nat, NEW p \in Nat \ {0}, NEW c \in Nat, NEW q \in Nat,
           c <= w + q * p, q > 0 => w + q * p < c + p
    PROVE  Begins(w, p, c) = q
<1>1. CASE q = 0
  <2>1. q * p = 0
    BY <1>1
  <2> QED
    BY <1>1, <2>1 DEF Begins
<1>2. CASE q > 0
  <2> DEFINE x == c - w + p - 1
             r == x - q * p
  <2>1. q * p \in Nat /\ 1 * p <= q * p
    BY <1>2, Products
  <2>2. w < c /\ x \in Nat /\ r \in Nat /\ r < p /\ x = q * p + r
    BY <1>2, <2>1
  <2>3. Begins(w, p, c) = x \div p
    BY <2>2 DEF Begins
  <2> HIDE DEF x, r
  <2> QED
    BY <2>2, <2>3, QuotientIs
<1> QED
  BY <1>1, <1>2

\* A run may be cut in two: the delay that is left begins the second part.
LEMMA BeginsAdd ==
    ASSUME NEW w \in Nat, NEW p \in Nat \ {0}, NEW k \in Nat, NEW n \in Nat
    PROVE  Begins(w, p, k + n)
             = Begins(w, p, k) + Begins(w + Begins(w, p, k) * p - k, p, n)
<1> DEFINE a == Begins(w, p, k)
           left == w + a * p - k
           b == Begins(left, p, n)
<1>1. /\ a \in Nat /\ a * p \in Nat /\ k <= w + a * p
      /\ a > 0 => w + a * p < k + p
  BY BeginsRange
<1>2. left \in Nat
  BY <1>1
<1> HIDE DEF a
<1>3. /\ b \in Nat /\ b * p \in Nat /\ n <= left + b * p
      /\ b > 0 => left + b * p < n + p
  <2> HIDE DEF left
  <2> QED
    BY <1>2, BeginsRange
<1> HIDE DEF b
<1>4. a + b \in Nat /\ (a + b) * p = a * p + b * p
  BY <1>1, <1>3, Products
<1>5. k + n <= w + (a + b) * p
  BY <1>1, <1>3, <1>4
<1>6. a + b > 0 => w + (a + b) * p < (k + n) + p
  <2>1. CASE b > 0
    BY <1>1, <1>3, <1>4, <2>1
  <2>2. CASE b = 0
    <3>1. b * p = 0
      BY <2>2
    <3> QED
      BY <1>1, <1>4, <2>2, <3>1
  <2> QED
    BY <1>3, <2>1, <2>2
<1> HIDE DEF left
<1>7. Begins(w, p, k + n) = a + b
  <2> DEFINE c == k + n
             q == a + b
  <2>1. c \in Nat /\ q \in Nat /\ c <= w + q * p /\ (q > 0 => w + q * p < c + p)
    BY <1>4, <1>5, <1>6
  <2> HIDE DEF c, q
  <2>2. Begins(w, p, c) = q
    BY <2>1, BeginsIs
  <2> QED
    BY <2>2 DEF c, q
<1> QED
  BY <1>7 DEF a, b, left

\* The bits played do not depend on the delay, nor change it.
LEMMA PlayedTiming ==
    ASSUME NEW d \in Player, NEW n \in Nat
    PROVE  LET e == Played(d)[n]
           IN  /\ e.delay = d.delay /\ e.period = d.period /\ e.loop = d.loop
               /\ e.sample = d.sample /\ e.irq_enabled = d.irq_enabled
<1> DEFINE same(e) == /\ e.delay = d.delay /\ e.period = d.period /\ e.loop = d.loop
                      /\ e.sample = d.sample /\ e.irq_enabled = d.irq_enabled
           T == {k \in Nat : same(Played(d)[k])}
<1>1. 0 \in T
  BY PlayedSteps
<1>2. ASSUME NEW k \in Nat, k \in T PROVE k + 1 \in T
  <2> DEFINE e == Played(d)[k]
  <2>1. e \in Player /\ Played(d)[k + 1] = PlayBit(e) /\ same(e)
    BY <1>2, PlayedSteps
  <2> HIDE DEF e
  <2> QED
    BY <2>1, PlayBitType
<1> HIDE DEF T
<1>3. n \in T
  BY <1>1, <1>2, SetInduction
<1> QED
  BY <1>3 DEF T

Delayed(d, w) == [d EXCEPT !.delay = w]

\* Reading a byte does not depend on the delay ...
LEMMA DelayedFill ==
    ASSUME NEW d \in Player, NEW w \in Nat
    PROVE  fill_buffer(Delayed(d, w)) = Delayed(fill_buffer(d), w)
<1> DEFINE e == Delayed(d, w)
<1>1. /\ e.len = d.len /\ e.loop = d.loop /\ e.sample = d.sample /\ e.full = d.full
      /\ e.irq_enabled = d.irq_enabled
  BY DEF Delayed, Player
<1>2. CASE d.full \/ d.len = 0
  BY <1>1, <1>2 DEF fill_buffer
<1>3. CASE ~(d.full \/ d.len = 0)
  <2> DEFINE read(f) == [f EXCEPT !.full = TRUE, !.len = @ - 1]
  <2>1. read(e) = Delayed(read(d), w) /\ read(e).len = read(d).len
    BY DEF Delayed, Player
  <2>2. CASE read(d).len > 0
    <3>1. fill_buffer(d) = read(d) /\ fill_buffer(e) = read(e)
      BY <1>1, <1>3, <2>1, <2>2 DEF fill_buffer
    <3> QED
      BY <2>1, <3>1
  <2>3. CASE ~(read(d).len > 0) /\ d.loop
    <3>1. /\ fill_buffer(d) = [read(d) EXCEPT !.len = d.sample]
          /\ fill_buffer(e) = [read(e) EXCEPT !.len = d.sample]
      BY <1>1, <1>3, <2>1, <2>3 DEF fill_buffer
    <3>2. [Delayed(read(d), w) EXCEPT !.len = d.sample]
             = Delayed([read(d) EXCEPT !.len = d.sample], w)
      BY DEF Delayed, Player
    <3> QED
      BY <2>1, <3>1, <3>2
  <2>4. CASE ~(read(d).len > 0) /\ ~d.loop
    <3> DEFINE ended(f) == [Disabled(f) EXCEPT !.irq_flag = d.irq_enabled,
                                               !.next_irq = NoIrq]
    <3>1. fill_buffer(d) = ended(read(d)) /\ fill_buffer(e) = ended(read(e))
      BY <1>1, <1>3, <2>1, <2>4 DEF fill_buffer
    <3>2. ended(Delayed(read(d), w)) = Delayed(ended(read(d)), w)
      BY DEF Delayed, Disabled, Player
    <3> QED
      BY <2>1, <3>1, <3>2
  <2> QED
    BY <2>2, <2>3, <2>4
<1> QED
  BY <1>2, <1>3

\* ... and neither does a bit ...
LEMMA DelayedBit ==
    ASSUME NEW d \in Player, NEW w \in Nat
    PROVE  Delayed(d, w) \in Player /\ PlayBit(Delayed(d, w)) = Delayed(PlayBit(d), w)
<1>1. Delayed(d, w) \in Player
  BY DEF Delayed, Player
<1>2. PlayBit(d) \in Player /\ PlayBit(Delayed(d, w)) \in Player
  BY <1>1, PlayBitType
<1>3. /\ Delayed(d, w).len = d.len /\ Delayed(d, w).full = d.full
      /\ Delayed(d, w).bits = d.bits /\ Delayed(d, w).loop = d.loop
      /\ Delayed(d, w).sample = d.sample /\ Delayed(d, w).irq_enabled = d.irq_enabled
  BY DEF Delayed, Player
<1>4. CASE d.bits > 1
  BY <1>1, <1>2, <1>4 DEF PlayBit, Delayed, Player
<1>5. CASE ~(d.bits > 1) /\ ~d.full
  BY <1>1, <1>2, <1>5 DEF PlayBit, Delayed, Player
<1>6. CASE ~(d.bits > 1) /\ d.full
  <2> DEFINE e == [d EXCEPT !.bits = BitsPerByte, !.silence = FALSE, !.full = FALSE]
  <2>1. /\ e \in Player
        /\ Delayed(e, w) = [Delayed(d, w) EXCEPT !.bits = BitsPerByte,
                              !.silence = FALSE, !.full = FALSE]
    BY BitsRange DEF Delayed, Player
  <2>2. PlayBit(d) = fill_buffer(e) /\ PlayBit(Delayed(d, w)) = fill_buffer(Delayed(e, w))
    BY <1>3, <1>6, <2>1 DEF PlayBit
  <2> HIDE DEF e
  <2> QED
    BY <1>1, <2>1, <2>2, DelayedFill
<1> QED
  BY <1>1, <1>4, <1>5, <1>6

\* ... nor any number of them.
LEMMA DelayedBits ==
    ASSUME NEW d \in Player, NEW w \in Nat, NEW n \in Nat
    PROVE  Played(Delayed(d, w))[n] = Delayed(Played(d)[n], w)
<1> DEFINE e == Delayed(d, w)
           T == {k \in Nat : Played(e)[k] = Delayed(Played(d)[k], w)}
<1>1. e \in Player
  BY DelayedBit
<1> HIDE DEF e
<1>2. 0 \in T
  BY <1>1, PlayedSteps DEF e
<1>3. ASSUME NEW k \in Nat, k \in T PROVE k + 1 \in T
  <2> DEFINE f == Played(d)[k]
  <2>1. f \in Player /\ Played(d)[k + 1] = PlayBit(f)
    BY PlayedSteps
  <2>2. Played(e)[k + 1] = PlayBit(Delayed(f, w))
    BY <1>1, <1>3, PlayedSteps
  <2> HIDE DEF f
  <2>3. Played(e)[k + 1] = Delayed(Played(d)[k + 1], w)
    BY <2>1, <2>2, DelayedBit
  <2> QED
    BY <2>3
<1> HIDE DEF T
<1>4. n \in T
  BY <1>2, <1>3, SetInduction
<1> QED
  BY <1>4 DEF T, e

\* The recursion of a run over count bits is the one above.
LEMMA PlayedUpTo ==
    ASSUME NEW d \in Player, NEW count \in Nat
    PROVE  (CHOOSE f : f = [n \in 0..count |-> IF n = 0 THEN d ELSE PlayBit(f[n - 1])])[count]
             = Played(d)[count]
<1> DEFINE Upto == 0..count
           Def(f) == [n \in Upto |-> IF n = 0 THEN d ELSE PlayBit(f[n - 1])]
           w == [n \in Upto |-> Played(d)[n]]
           P == CHOOSE f : f = Def(f)
           T == {n \in Nat : n <= count => P[n] = Played(d)[n]}
<1>1. \A n \in Int : n \in Upto <=> 0 <= n /\ n <= count
  OBVIOUS
<1>2. w = Def(w)
  <2>1. ASSUME NEW n \in Upto, n # 0
        PROVE  Played(d)[n] = PlayBit(w[n - 1])
    <3>1. n - 1 \in Upto /\ n - 1 \in Nat /\ (n - 1) + 1 = n
      BY <2>1
    <3>2. Played(d)[(n - 1) + 1] = PlayBit(Played(d)[n - 1])
      BY <3>1, PlayedSteps
    <3> QED
      BY <3>1, <3>2
  <2> QED
    BY <2>1, PlayedSteps
<1>3. P = CHOOSE f : f = [n \in 0..count |-> IF n = 0 THEN d ELSE PlayBit(f[n - 1])]
  OBVIOUS
<1>4. P = Def(P)
  <2>1. P = CHOOSE f : f = Def(f)
    OBVIOUS
  <2> HIDE DEF P, Def, w
  <2> QED
    BY <1>2, <2>1, Zenon
<1> HIDE DEF P, w, Upto
<1>5. 0 \in T
  <2>1. 0 \in Upto
    BY <1>1
  <2> QED
    BY <1>4, <2>1, PlayedSteps
<1>6. ASSUME NEW n \in Nat, n \in T PROVE n + 1 \in T
  <2> SUFFICES ASSUME n + 1 <= count PROVE P[n + 1] = Played(d)[n + 1]
    OBVIOUS
  <2>1. n + 1 \in Upto /\ n + 1 # 0 /\ (n + 1) - 1 = n /\ n <= count
    BY <1>1
  <2>2. P[n + 1] = PlayBit(P[n])
    BY <1>4, <2>1
  <2>3. Played(d)[n + 1] = PlayBit(Played(d)[n])
    BY PlayedSteps
  <2> QED
    BY <1>6, <2>1, <2>2, <2>3
<1> HIDE DEF T
<1>7. count \in T
  BY <1>5, <1>6, SetInduction
<1> QED
  BY <1>3, <1>7 DEF T

\* What a run does: it plays the bits that begin in it, the short way or not.
Ran(d, cycles) ==
    LET count == Begins(d.delay, d.period, cycles)
    IN  Delayed(Played(d)[count], d.delay + count * d.period - cycles)

\* DmcRun, the loop of Nes_Dmc::run, plays the bits it begins and nothing else.
LEMMA RunIs ==
    ASSUME NEW d \in Player, NEW cycles \in Nat
    PROVE  DmcRun(d, cycles) = Ran(d, cycles)
<1> DEFINE count == Begins(d.delay, d.period, cycles)
           P == CHOOSE f : f = [n \in 0..count |-> IF n = 0 THEN d ELSE PlayBit(f[n - 1])]
           after == IF d.silence /\ ~d.full THEN SkipBits(d, count) ELSE P[count]
<1>1. count \in Nat
  BY BeginsRange DEF Player
<1>2. DmcRun(d, cycles) = [after EXCEPT !.delay = @ + count * d.period - cycles]
  BY DEF DmcRun, Begins
<1>3. P[count] = Played(d)[count]
  <2> HIDE DEF count
  <2> QED
    BY <1>1, PlayedUpTo
<1> HIDE DEF count, P
<1>4. after = Played(d)[count]
  BY <1>1, <1>3, SilentSkips
<1>5. after.delay = d.delay
  BY <1>1, <1>4, PlayedTiming
<1> HIDE DEF after
<1>6. DmcRun(d, cycles) = Delayed(after, d.delay + count * d.period - cycles)
  BY <1>2, <1>5 DEF Delayed
<1> QED
  BY <1>4, <1>6 DEF Ran, count

\* A run leaves the delay that the bits it began have still to wait.
LEMMA RanType ==
    ASSUME NEW d \in Player, NEW cycles \in Nat
    PROVE  /\ Ran(d, cycles) \in Player
           /\ Ran(d, cycles).period = d.period /\ Ran(d, cycles).loop = d.loop
           /\ Ran(d, cycles).sample = d.sample
           /\ Ran(d, cycles).irq_enabled = d.irq_enabled
           /\ Ran(d, cycles).delay
                = d.delay + Begins(d.delay, d.period, cycles) * d.period - cycles
           /\ Ran(d, cycles).delay \in Nat
<1> DEFINE count == Begins(d.delay, d.period, cycles)
           w == d.delay + count * d.period - cycles
           e == Played(d)[count]
<1>1. d.delay \in Nat /\ d.period \in Nat \ {0}
  BY DEF Player
<1>2. count \in Nat /\ w \in Nat
  <2>1. /\ count \in Nat /\ count * d.period \in Nat
        /\ cycles <= d.delay + count * d.period
    BY <1>1, BeginsRange
  <2> HIDE DEF count
  <2> QED
    BY <1>1, <2>1
<1>3. Ran(d, cycles) = Delayed(e, w)
  BY DEF Ran
<1>4. /\ e \in Player /\ e.period = d.period /\ e.loop = d.loop
      /\ e.sample = d.sample /\ e.irq_enabled = d.irq_enabled
  <2> HIDE DEF count
  <2> QED
    BY <1>2, PlayedSteps, PlayedTiming
<1> HIDE DEF e, w
<1>5. Delayed(e, w) \in Player
  BY <1>2, <1>4, DelayedBit
<1>6. /\ Delayed(e, w).period = e.period /\ Delayed(e, w).loop = e.loop
      /\ Delayed(e, w).sample = e.sample /\ Delayed(e, w).irq_enabled = e.irq_enabled
      /\ Delayed(e, w).delay = w
  BY <1>4 DEF Delayed, Player
<1> QED
  BY <1>2, <1>3, <1>4, <1>5, <1>6 DEF w

\* A run may be cut in two anywhere.
LEMMA RunsAdd ==
    ASSUME NEW d \in Player, NEW k \in Nat, NEW n \in Nat
    PROVE  Ran(Ran(d, k), n) = Ran(d, k + n)
<1> DEFINE p == d.period
           a == Begins(d.delay, p, k)
           w == d.delay + a * p - k
           f == Played(d)[a]
           e == Delayed(f, w)
           b == Begins(w, p, n)
           g == Played(f)[b]
<1>1. d.delay \in Nat /\ p \in Nat \ {0}
  BY DEF Player
<1>2. a \in Nat /\ a * p \in Nat /\ w \in Nat
  <2>1. a \in Nat /\ a * p \in Nat /\ k <= d.delay + a * p
    BY <1>1, BeginsRange
  <2> HIDE DEF a, p
  <2> QED
    BY <1>1, <2>1
<1>3. b \in Nat
  <2> HIDE DEF w, p
  <2> QED
    BY <1>1, <1>2, BeginsRange
<1>4. Begins(d.delay, p, k + n) = a + b
  BY <1>1, BeginsAdd
<1> HIDE DEF a, b, w
<1>5. f \in Player /\ g \in Player /\ g = Played(d)[a + b]
  BY <1>2, <1>3, PlayedOn, PlayedSteps
<1>6. Ran(d, k) = e /\ e.delay = w /\ e.period = p
  <2>1. Ran(d, k) = e
    BY DEF Ran, a, w
  <2>2. f.period = p
    BY <1>2, PlayedTiming
  <2> HIDE DEF f
  <2> QED
    BY <1>5, <2>1, <2>2 DEF Delayed, Player
<1>7. Ran(e, n) = Delayed(Played(e)[b], w + b * p - n)
  BY <1>6 DEF Ran, b
<1>8. Played(e)[b] = Delayed(g, w)
  BY <1>2, <1>3, <1>5, DelayedBits
<1>9. Ran(d, k + n) = Delayed(g, d.delay + (a + b) * p - (k + n))
  BY <1>4, <1>5 DEF Ran
<1>10. d.delay + (a + b) * p - (k + n) = w + b * p - n
  <2>1. (a + b) * p = a * p + b * p /\ b * p \in Nat
    BY <1>1, <1>2, <1>3, Products
  <2> QED
    BY <1>1, <1>2, <2>1 DEF w
<1> HIDE DEF g, e
<1>11. \A x, y : Delayed(Delayed(g, x), y) = Delayed(g, y)
  BY <1>5 DEF Delayed, Player
<1> QED
  BY <1>6, <1>7, <1>8, <1>9, <1>10, <1>11

-----------------------------------------------------------------------------
(* The interrupt of the player.                                            *)

Samples == SampleLengths \cup {1}

\* What the program keeps about the player.  A byte waits while there are
\* bytes to read, and a sample that loops does not ask for an interrupt.
PlayerInv(d) ==
    /\ d.enabled <=> d.len > 0
    /\ d.len > 0 => d.full
    /\ ~(d.loop /\ d.irq_enabled)
    /\ d.period \in DmcPeriods /\ d.sample \in Samples
    /\ \E s \in Samples : d.len <= s
    /\ \E q \in DmcPeriods : d.delay < q

\* What reading a byte does to the length, case by case.
LEMMA FillLen ==
    ASSUME NEW d \in Player
    PROVE  /\ d.full \/ d.len = 0 => fill_buffer(d) = d
           /\ ~d.full /\ d.len > 1 =>
                 /\ fill_buffer(d).len = d.len - 1 /\ fill_buffer(d).full
                 /\ fill_buffer(d).enabled = d.enabled
                 /\ fill_buffer(d).next_irq = d.next_irq
           /\ ~d.full /\ d.len = 1 /\ d.loop =>
                 /\ fill_buffer(d).len = d.sample /\ fill_buffer(d).full
                 /\ fill_buffer(d).enabled = d.enabled
                 /\ fill_buffer(d).next_irq = d.next_irq
           /\ ~d.full /\ d.len = 1 /\ ~d.loop =>
                 /\ fill_buffer(d).len = 0 /\ ~fill_buffer(d).enabled
                 /\ fill_buffer(d).next_irq = NoIrq
<1> DEFINE read == [d EXCEPT !.full = TRUE, !.len = @ - 1]
<1>1. ASSUME d.full \/ d.len = 0 PROVE fill_buffer(d) = d
  BY <1>1 DEF fill_buffer
<1>2. ASSUME ~d.full, d.len > 1 PROVE fill_buffer(d) = read
  BY <1>2 DEF fill_buffer, Player
<1>3. ASSUME ~d.full, d.len = 1, d.loop
      PROVE  fill_buffer(d) = [read EXCEPT !.len = d.sample]
  BY <1>3 DEF fill_buffer, Player
<1>4. ASSUME ~d.full, d.len = 1, ~d.loop
      PROVE  fill_buffer(d) = [[read EXCEPT !.enabled = FALSE]
                                 EXCEPT !.irq_flag = d.irq_enabled, !.next_irq = NoIrq]
  BY <1>4 DEF fill_buffer, Disabled, Player
<1>5. ASSUME ~d.full, d.len > 1
      PROVE  /\ fill_buffer(d).len = d.len - 1 /\ fill_buffer(d).full
             /\ fill_buffer(d).enabled = d.enabled
             /\ fill_buffer(d).next_irq = d.next_irq
  BY <1>2, <1>5 DEF Player
<1>6. ASSUME ~d.full, d.len = 1, d.loop
      PROVE  /\ fill_buffer(d).len = d.sample /\ fill_buffer(d).full
             /\ fill_buffer(d).enabled = d.enabled
             /\ fill_buffer(d).next_irq = d.next_irq
  BY <1>3, <1>6 DEF Player
<1>7. ASSUME ~d.full, d.len = 1, ~d.loop
      PROVE  /\ fill_buffer(d).len = 0 /\ ~fill_buffer(d).enabled
             /\ fill_buffer(d).next_irq = NoIrq
  <2>1. d.len - 1 = 0
    BY <1>7
  <2> QED
    BY <1>4, <1>7, <2>1 DEF Player
<1> QED
  BY <1>1, <1>5, <1>6, <1>7

\* The sample grows only when it starts over, and the interrupt's time stays
\* until the sample ends.
LEMMA FillInv ==
    ASSUME NEW d \in Player, d.enabled <=> d.len > 0, ~(d.loop /\ d.irq_enabled),
           d.period \in DmcPeriods, d.sample \in Samples,
           \E s \in Samples : d.len <= s, \E q \in DmcPeriods : d.delay < q
    PROVE  /\ PlayerInv(fill_buffer(d))
           /\ fill_buffer(d).next_irq \in {d.next_irq, NoIrq}
<1> DEFINE e == fill_buffer(d)
<1>1. /\ e.delay = d.delay /\ e.period = d.period /\ e.loop = d.loop
      /\ e.irq_enabled = d.irq_enabled /\ e.sample = d.sample
  BY FillType
<1>2. d.len \in Nat /\ \A s \in Samples : s \in Nat \ {0}
  BY SequencerAssumption DEF Player, Samples
<1>3. /\ e.enabled <=> e.len > 0
      /\ e.len > 0 => e.full
      /\ \E s \in Samples : e.len <= s
      /\ e.next_irq \in {d.next_irq, NoIrq}
  <2>1. CASE d.full \/ d.len = 0
    BY <1>2, <2>1, FillLen
  <2>2. CASE ~d.full /\ d.len > 1
    <3>1. e.len = d.len - 1 /\ e.full /\ e.enabled = d.enabled /\ e.next_irq = d.next_irq
      BY <2>2, FillLen
    <3> HIDE DEF e
    <3>2. \E s \in Samples : e.len <= s
      BY <1>2, <3>1
    <3> QED
      BY <1>2, <2>2, <3>1, <3>2
  <2>3. CASE ~d.full /\ d.len = 1 /\ d.loop
    <3>1. e.len = d.sample /\ e.full /\ e.enabled = d.enabled /\ e.next_irq = d.next_irq
      BY <2>3, FillLen
    <3> HIDE DEF e
    <3> QED
      BY <1>2, <2>3, <3>1
  <2>4. CASE ~d.full /\ d.len = 1 /\ ~d.loop
    <3>1. e.len = 0 /\ ~e.enabled /\ e.next_irq = NoIrq
      BY <2>4, FillLen
    <3> HIDE DEF e
    <3> QED
      BY <1>2, <3>1
  <2> QED
    BY <1>2, <2>1, <2>2, <2>3, <2>4
<1> HIDE DEF e
<1> QED
  BY <1>1, <1>3 DEF PlayerInv, e

\* A bit keeps the invariant, and moves the interrupt only to never.
LEMMA PlayBitInv ==
    ASSUME NEW d \in Player, PlayerInv(d)
    PROVE  PlayerInv(PlayBit(d)) /\ PlayBit(d).next_irq \in {d.next_irq, NoIrq}
<1>1. CASE d.bits > 1
  BY <1>1 DEF PlayBit, PlayerInv, Player
<1>2. CASE ~(d.bits > 1) /\ ~d.full
  BY <1>2 DEF PlayBit, PlayerInv, Player
<1>3. CASE ~(d.bits > 1) /\ d.full
  <2> DEFINE e == [d EXCEPT !.bits = BitsPerByte, !.silence = FALSE, !.full = FALSE]
  <2>1. /\ e \in Player /\ e.delay = d.delay /\ e.period = d.period
        /\ e.loop = d.loop /\ e.sample = d.sample /\ e.irq_enabled = d.irq_enabled
        /\ e.len = d.len /\ e.enabled = d.enabled /\ e.next_irq = d.next_irq
    BY BitsRange DEF Player
  <2>2. PlayBit(d) = fill_buffer(e)
    BY <1>3 DEF PlayBit
  <2> HIDE DEF e
  <2>3. /\ e.enabled <=> e.len > 0
        /\ ~(e.loop /\ e.irq_enabled) /\ e.period \in DmcPeriods /\ e.sample \in Samples
        /\ \E s \in Samples : e.len <= s
        /\ \E q \in DmcPeriods : e.delay < q
    BY <2>1 DEF PlayerInv
  <2> QED
    BY <2>1, <2>2, <2>3, FillInv
<1> QED
  BY <1>1, <1>2, <1>3

\* So does any number of bits.
LEMMA PlayedInv ==
    ASSUME NEW d \in Player, PlayerInv(d), NEW n \in Nat
    PROVE  PlayerInv(Played(d)[n]) /\ Played(d)[n].next_irq \in {d.next_irq, NoIrq}
<1> DEFINE T == {k \in Nat : /\ PlayerInv(Played(d)[k])
                             /\ Played(d)[k].next_irq \in {d.next_irq, NoIrq}}
<1>1. 0 \in T
  BY PlayedSteps
<1>2. ASSUME NEW k \in Nat, k \in T PROVE k + 1 \in T
  <2> DEFINE e == Played(d)[k]
  <2>1. e \in Player /\ Played(d)[k + 1] = PlayBit(e)
    BY PlayedSteps
  <2>2. PlayerInv(e) /\ e.next_irq \in {d.next_irq, NoIrq}
    BY <1>2
  <2> HIDE DEF e
  <2>3. PlayerInv(PlayBit(e)) /\ PlayBit(e).next_irq \in {e.next_irq, NoIrq}
    BY <2>1, <2>2, PlayBitInv
  <2> QED
    BY <2>1, <2>2, <2>3
<1> HIDE DEF T
<1>3. n \in T
  BY <1>1, <1>2, SetInduction
<1> QED
  BY <1>3 DEF T

\* The bits that are played before the one that ends the sample.
Left(d) == (d.len - 1) * BitsPerByte + d.bits - 1

\* Each bit brings the end nearer by one, and nothing else does.
LEMMA PlayBitLeft ==
    ASSUME NEW d \in Player, PlayerInv(d), d.irq_enabled
    PROVE  /\ d.len = 0 => PlayBit(d).len = 0 /\ PlayBit(d).next_irq = d.next_irq
           /\ d.len > 0 /\ Left(d) > 0 =>
                 /\ PlayBit(d).len > 0 /\ Left(PlayBit(d)) = Left(d) - 1
                 /\ PlayBit(d).next_irq = d.next_irq
           /\ d.len > 0 /\ Left(d) = 0 =>
                 PlayBit(d).len = 0 /\ PlayBit(d).next_irq = NoIrq
           /\ d.len > 0 => Left(d) \in Nat
<1>1. /\ d.len \in Nat /\ d.bits \in Int /\ 1 <= d.bits /\ d.bits <= BitsPerByte
      /\ BitsPerByte \in Nat \ {0}
  BY BitsRange DEF Player
<1>2. ~d.loop /\ (d.len > 0 => d.full)
  BY DEF PlayerInv
<1>3. d.len > 0 => /\ (d.len - 1) * BitsPerByte \in Nat
                   /\ (d.len - 1) * BitsPerByte = 0 <=> d.len = 1
  <2> SUFFICES ASSUME d.len > 0
               PROVE  /\ (d.len - 1) * BitsPerByte \in Nat
                      /\ (d.len - 1) * BitsPerByte = 0 <=> d.len = 1
    OBVIOUS
  <2> DEFINE m == d.len - 1
  <2>1. m \in Nat /\ (m = 0 <=> d.len = 1)
    BY <1>1
  <2> HIDE DEF m
  <2>2. m * BitsPerByte \in Nat
    BY <1>1, <2>1, Products
  <2>3. m # 0 => 1 * BitsPerByte <= m * BitsPerByte
    BY <1>1, <2>1, Products
  <2>4. m = 0 => m * BitsPerByte = 0
    BY <1>1
  <2>5. m * BitsPerByte = 0 <=> m = 0
    BY <1>1, <2>1, <2>2, <2>3, <2>4
  <2> QED
    BY <2>1, <2>2, <2>5 DEF m
<1>4. CASE d.bits > 1
  <2>1. PlayBit(d) = [d EXCEPT !.bits = @ - 1]
    BY <1>4 DEF PlayBit
  <2>2. /\ PlayBit(d).len = d.len /\ PlayBit(d).bits = d.bits - 1
        /\ PlayBit(d).next_irq = d.next_irq
    BY <2>1 DEF Player
  <2>3. d.len > 0 => /\ Left(d) \in Nat /\ Left(d) > 0
                     /\ Left(PlayBit(d)) = Left(d) - 1
    <3> DEFINE m == (d.len - 1) * BitsPerByte
    <3>1. Left(d) = m + d.bits - 1 /\ Left(PlayBit(d)) = m + (d.bits - 1) - 1
      BY <2>2 DEF Left
    <3>2. d.len > 0 => m \in Nat
      BY <1>3
    <3> HIDE DEF m
    <3> QED
      BY <1>1, <1>4, <3>1, <3>2
  <2> QED
    BY <1>1, <2>2, <2>3
<1>5. CASE ~(d.bits > 1) /\ ~d.full
  <2>1. PlayBit(d) = [d EXCEPT !.bits = BitsPerByte, !.silence = TRUE]
    BY <1>5 DEF PlayBit
  <2>2. PlayBit(d).len = d.len /\ PlayBit(d).next_irq = d.next_irq
    BY <2>1 DEF Player
  <2> QED
    BY <1>1, <1>2, <1>5, <2>2
<1>6. CASE ~(d.bits > 1) /\ d.full
  <2> DEFINE e == [d EXCEPT !.bits = BitsPerByte, !.silence = FALSE, !.full = FALSE]
  <2>1. /\ e \in Player /\ e.len = d.len /\ e.next_irq = d.next_irq
        /\ e.bits = BitsPerByte /\ ~e.full /\ ~e.loop
    BY <1>2, BitsRange DEF Player
  <2>2. PlayBit(d) = fill_buffer(e)
    BY <1>6 DEF PlayBit
  <2> HIDE DEF e
  <2>3. PlayBit(d).bits = BitsPerByte
    BY <2>1, <2>2, FillType
  <2>4. d.bits = 1
    BY <1>1, <1>6
  <2>5. CASE d.len = 0
    <3>1. PlayBit(d) = e
      BY <2>1, <2>2, <2>5, FillLen
    <3> QED
      BY <2>1, <2>5, <3>1
  <2>6. CASE d.len = 1
    <3>1. PlayBit(d).len = 0 /\ PlayBit(d).next_irq = NoIrq
      BY <2>1, <2>2, <2>6, FillLen
    <3>2. Left(d) = 0
      BY <1>3, <2>4, <2>6 DEF Left
    <3> QED
      BY <2>6, <3>1, <3>2
  <2>7. CASE d.len > 1
    <3>1. PlayBit(d).len = d.len - 1 /\ PlayBit(d).next_irq = d.next_irq
      BY <2>1, <2>2, <2>7, FillLen
    <3> DEFINE m == d.len - 1 - 1
    <3>2. m \in Nat /\ d.len - 1 = m + 1
      BY <1>1, <2>7
    <3> HIDE DEF m
    <3>3. (m + 1) * BitsPerByte = m * BitsPerByte + 1 * BitsPerByte
          /\ m * BitsPerByte \in Nat
      BY <1>1, <3>2, Products
    <3>4. Left(d) = (m + 1) * BitsPerByte + 1 - 1
      BY <2>4, <3>2 DEF Left
    <3>5. Left(PlayBit(d)) = m * BitsPerByte + BitsPerByte - 1
      BY <2>3, <3>1 DEF Left, m
    <3>6. /\ Left(d) \in Nat /\ Left(d) > 0 /\ Left(PlayBit(d)) = Left(d) - 1
      BY <1>1, <3>3, <3>4, <3>5
    <3>7. PlayBit(d).len > 0
      BY <1>1, <2>7, <3>1
    <3> QED
      BY <2>7, <3>1, <3>6, <3>7
  <2> QED
    BY <1>1, <2>5, <2>6, <2>7
<1> QED
  BY <1>4, <1>5, <1>6

\* Without bytes to read there is nothing to end.
LEMMA PlayedEmpty ==
    ASSUME NEW d \in Player, PlayerInv(d), d.irq_enabled, d.len = 0, NEW n \in Nat
    PROVE  Played(d)[n].len = 0 /\ Played(d)[n].next_irq = d.next_irq
<1> DEFINE T == {k \in Nat : Played(d)[k].len = 0 /\ Played(d)[k].next_irq = d.next_irq}
<1>1. 0 \in T
  BY PlayedSteps
<1>2. ASSUME NEW k \in Nat, k \in T PROVE k + 1 \in T
  <2> DEFINE e == Played(d)[k]
  <2>1. e \in Player /\ Played(d)[k + 1] = PlayBit(e)
    BY PlayedSteps
  <2>2. PlayerInv(e) /\ e.irq_enabled
    BY PlayedInv, PlayedTiming
  <2>3. e.len = 0 /\ e.next_irq = d.next_irq
    BY <1>2
  <2> HIDE DEF e
  <2>4. PlayBit(e).len = 0 /\ PlayBit(e).next_irq = e.next_irq
    BY <2>1, <2>2, <2>3, PlayBitLeft
  <2> QED
    BY <2>1, <2>3, <2>4
<1> HIDE DEF T
<1>3. n \in T
  BY <1>1, <1>2, SetInduction
<1> QED
  BY <1>3 DEF T

\* The sample ends with the bit that was foreseen.
LEMMA PlayedLeft ==
    ASSUME NEW d \in Player, PlayerInv(d), d.irq_enabled, d.len > 0, NEW n \in Nat
    PROVE  /\ n <= Left(d) => /\ Played(d)[n].len > 0
                              /\ Left(Played(d)[n]) = Left(d) - n
                              /\ Played(d)[n].next_irq = d.next_irq
           /\ n > Left(d) => /\ Played(d)[n].len = 0
                             /\ Played(d)[n].next_irq = NoIrq
<1> DEFINE z == Left(d)
           before(e, k) == e.len > 0 /\ Left(e) = z - k /\ e.next_irq = d.next_irq
           after(e) == e.len = 0 /\ e.next_irq = NoIrq
           T == {k \in Nat : /\ k <= z => before(Played(d)[k], k)
                             /\ k > z => after(Played(d)[k])}
<1>1. z \in Nat
  BY PlayBitLeft
<1> HIDE DEF z
<1>2. 0 \in T
  BY <1>1, PlayedSteps DEF z
<1>3. ASSUME NEW k \in Nat, k \in T PROVE k + 1 \in T
  <2> DEFINE e == Played(d)[k]
  <2>1. e \in Player /\ Played(d)[k + 1] = PlayBit(e)
    BY PlayedSteps
  <2>2. PlayerInv(e) /\ e.irq_enabled
    BY PlayedInv, PlayedTiming
  <2>3. (k <= z => before(e, k)) /\ (k > z => after(e))
    BY <1>3
  <2> HIDE DEF e
  <2>4. CASE k < z
    <3>1. e.len > 0 /\ Left(e) = z - k /\ e.next_irq = d.next_irq /\ Left(e) > 0
      BY <1>1, <2>3, <2>4
    <3>2. /\ PlayBit(e).len > 0 /\ Left(PlayBit(e)) = Left(e) - 1
          /\ PlayBit(e).next_irq = e.next_irq
      BY <2>1, <2>2, <3>1, PlayBitLeft
    <3>3. (z - k) - 1 = z - (k + 1) /\ k + 1 <= z
      BY <1>1, <2>4
    <3> QED
      BY <1>1, <2>1, <3>1, <3>2, <3>3
  <2>5. CASE k = z
    <3>1. e.len > 0 /\ Left(e) = 0
      BY <1>1, <2>3, <2>5
    <3>2. PlayBit(e).len = 0 /\ PlayBit(e).next_irq = NoIrq
      BY <2>1, <2>2, <3>1, PlayBitLeft
    <3> QED
      BY <1>1, <2>1, <2>5, <3>2
  <2>6. CASE k > z
    <3>1. e.len = 0 /\ e.next_irq = NoIrq
      BY <2>3, <2>6
    <3>2. PlayBit(e).len = 0 /\ PlayBit(e).next_irq = NoIrq
      BY <2>1, <2>2, <3>1, PlayBitLeft
    <3> QED
      BY <1>1, <2>1, <2>6, <3>2
  <2> QED
    BY <1>1, <2>4, <2>5, <2>6
<1> HIDE DEF T
<1>4. n \in T
  BY <1>2, <1>3, SetInduction
<1> QED
  BY <1>4 DEF T, z

\* What a delay changes, and what not.
LEMMA DelayedFields ==
    ASSUME NEW d \in Player, NEW w \in Nat
    PROVE  LET e == Delayed(d, w)
           IN  /\ e.len = d.len /\ e.full = d.full /\ e.bits = d.bits
               /\ e.period = d.period /\ e.loop = d.loop /\ e.sample = d.sample
               /\ e.irq_enabled = d.irq_enabled /\ e.next_irq = d.next_irq
               /\ e.enabled = d.enabled /\ e.delay = w
BY DEF Delayed, Player

\* A run keeps the invariant.
LEMMA RanInv ==
    ASSUME NEW d \in Player, PlayerInv(d), NEW cycles \in Nat
    PROVE  PlayerInv(Ran(d, cycles))
<1> DEFINE count == Begins(d.delay, d.period, cycles)
           w == d.delay + count * d.period - cycles
           e == Played(d)[count]
<1>1. d.delay \in Nat /\ d.period \in Nat \ {0}
  BY DEF Player
<1>2. /\ count \in Nat /\ count * d.period \in Nat
      /\ cycles <= d.delay + count * d.period
      /\ count > 0 => d.delay + count * d.period < cycles + d.period
  BY <1>1, BeginsRange
<1> HIDE DEF count
<1>3. w \in Nat /\ (count > 0 => w < d.period) /\ (count = 0 => w <= d.delay)
  BY <1>1, <1>2
<1>4. e \in Player /\ PlayerInv(e)
  BY <1>2, PlayedInv, PlayedSteps
<1>5. Ran(d, cycles) = Delayed(e, w)
  BY DEF Ran, count
<1> HIDE DEF e, w
<1>6. \E q \in DmcPeriods : w < q
  <2>1. CASE count > 0
    BY <1>3, <2>1 DEF PlayerInv
  <2>2. CASE count = 0
    <3>1. PICK q \in DmcPeriods : d.delay < q
      BY DEF PlayerInv
    <3>2. q \in Nat
      BY SequencerAssumption
    <3> QED
      BY <1>1, <1>3, <2>2, <3>1, <3>2
  <2> QED
    BY <1>2, <2>1, <2>2
<1> DEFINE f == Delayed(e, w)
<1>7. /\ f.len = e.len /\ f.full = e.full /\ f.period = e.period /\ f.loop = e.loop
      /\ f.sample = e.sample /\ f.irq_enabled = e.irq_enabled
      /\ f.enabled = e.enabled /\ f.delay = w
  BY <1>3, <1>4, DelayedFields
<1> HIDE DEF f
<1>8. PlayerInv(f)
  BY <1>4, <1>6, <1>7 DEF PlayerInv
<1> QED
  BY <1>5, <1>8 DEF f

\* A run ends the sample when it reaches the time of the interrupt, and what
\* was foreseen before the run is foreseen after it.
LEMMA RanIrq ==
    ASSUME NEW d \in Player, PlayerInv(d), NEW t \in Nat, NEW cycles \in Nat,
           d.next_irq = NextIrq(d, t)
    PROVE  /\ Ran(d, cycles).next_irq = NextIrq(Ran(d, cycles), t + cycles)
           /\ d.irq_enabled =>
                 (Ended(d, Ran(d, cycles))
                    <=> d.len > 0 /\ t + d.delay + CyclesLeft(d) <= t + cycles)
<1> DEFINE p == d.period
           count == Begins(d.delay, p, cycles)
           w == d.delay + count * p - cycles
           e == Played(d)[count]
           f == Delayed(e, w)
<1>1. /\ d.delay \in Nat /\ p \in Nat \ {0} /\ d.len \in Nat /\ d.next_irq \in Int
      /\ NoIrq \in Int
  BY BitsRange DEF Player
<1>2. /\ count \in Nat /\ count * p \in Nat /\ cycles <= d.delay + count * p
      /\ count > 0 => d.delay + count * p < cycles + p
  BY <1>1, BeginsRange
<1>3. Ran(d, cycles) = f
  BY DEF Ran
<1> HIDE DEF count, p
<1>4. w \in Nat
  BY <1>1, <1>2
<1>5. /\ e \in Player /\ PlayerInv(e) /\ e.irq_enabled = d.irq_enabled /\ e.period = p
      /\ e.next_irq \in {d.next_irq, NoIrq} /\ e.len \in Nat
  <2>1. e \in Player /\ PlayerInv(e) /\ e.irq_enabled = d.irq_enabled /\ e.period = p
        /\ e.next_irq \in {d.next_irq, NoIrq}
    BY <1>2, PlayedInv, PlayedSteps, PlayedTiming DEF p
  <2> QED
    BY <2>1 DEF Player
<1>6. /\ f.len = e.len /\ f.bits = e.bits /\ f.period = e.period
      /\ f.irq_enabled = e.irq_enabled /\ f.next_irq = e.next_irq /\ f.delay = w
  <2> HIDE DEF e, w
  <2> QED
    BY <1>4, <1>5, DelayedFields
<1>7. CASE ~d.irq_enabled
  <2> HIDE DEF e, f
  <2>1. d.next_irq = NoIrq
    BY <1>7 DEF NextIrq
  <2>2. f.next_irq = NoIrq /\ NextIrq(f, t + cycles) = NoIrq
    BY <1>5, <1>6, <1>7, <2>1 DEF NextIrq
  <2> QED
    BY <1>3, <1>7, <2>2
<1>8. CASE d.irq_enabled /\ d.len = 0
  <2>1. e.len = 0 /\ e.next_irq = d.next_irq
    BY <1>2, <1>8, PlayedEmpty
  <2> HIDE DEF e, f
  <2>2. d.next_irq = NoIrq
    BY <1>8 DEF NextIrq
  <2>3. f.next_irq = NoIrq /\ NextIrq(f, t + cycles) = NoIrq
    BY <1>6, <2>1, <2>2 DEF NextIrq
  <2>4. ~Ended(d, f)
    BY <1>8 DEF Ended
  <2> QED
    BY <1>3, <1>8, <2>3, <2>4
<1>9. CASE d.irq_enabled /\ d.len > 0
  <2> DEFINE z == Left(d)
  <2>1. /\ z \in Nat
        /\ count <= z => e.len > 0 /\ Left(e) = z - count /\ e.next_irq = d.next_irq
        /\ count > z => e.len = 0 /\ e.next_irq = NoIrq
    BY <1>2, <1>9, PlayBitLeft, PlayedLeft
  <2>2. CyclesLeft(d) = z * p + 1
    BY DEF CyclesLeft, Left, p
  <2>3. d.next_irq = t + d.delay + (z * p + 1)
    BY <1>9, <2>2 DEF NextIrq
  <2> HIDE DEF e, z
  <2>4. z * p \in Nat
    BY <1>1, <2>1, Products
  <2>5. CASE count <= z
    <3> DEFINE m == z - count
    <3>1. m \in Nat /\ z = m + count
      BY <1>2, <2>1, <2>5
    <3>2. f.len > 0 /\ Left(f) = m /\ f.next_irq = d.next_irq
      BY <1>6, <2>1, <2>5 DEF Left
    <3> HIDE DEF m, f
    <3>3. z * p = m * p + count * p /\ m * p \in Nat
      BY <1>1, <1>2, <3>1, Products
    <3>4. CyclesLeft(f) = m * p + 1
      BY <1>5, <1>6, <3>2 DEF CyclesLeft, Left
    <3>5. NextIrq(f, t + cycles) = t + cycles + w + (m * p + 1)
      BY <1>5, <1>6, <1>9, <3>2, <3>4 DEF NextIrq
    <3>6. t + cycles + w + (m * p + 1) = t + d.delay + (z * p + 1)
      <4> DEFINE a == m * p
                 b == count * p
                 c == z * p
      <4>1. /\ a \in Nat /\ b \in Nat /\ c \in Nat /\ c = a + b
            /\ w = d.delay + b - cycles
        BY <1>2, <2>4, <3>3
      <4> HIDE DEF a, b, c, w
      <4>2. t + cycles + w + (a + 1) = t + d.delay + (c + 1)
        BY <1>1, <4>1
      <4> QED
        BY <4>2 DEF a, c
    <3>7. ~(t + d.delay + (z * p + 1) <= t + cycles)
      BY <1>1, <1>2, <2>4, <3>3
    <3>8. ~Ended(d, f)
      BY <3>2 DEF Ended
    <3> QED
      BY <1>3, <2>2, <2>3, <3>2, <3>5, <3>6, <3>7, <3>8
  <2>6. CASE count > z
    <3>1. f.len = 0 /\ f.next_irq = NoIrq
      BY <1>6, <2>1, <2>6
    <3> HIDE DEF f, w
    <3>2. NextIrq(f, t + cycles) = NoIrq
      BY <3>1 DEF NextIrq
    <3>3. Ended(d, f)
      BY <1>9, <3>1 DEF Ended
    <3>4. (z + 1) * p <= count * p /\ (z + 1) * p = z * p + 1 * p
      BY <1>1, <1>2, <2>1, <2>6, Products
    <3>5. t + d.delay + (z * p + 1) <= t + cycles
      BY <1>1, <1>2, <2>1, <2>4, <2>6, <3>4
    <3> QED
      BY <1>3, <1>9, <2>2, <3>1, <3>2, <3>3, <3>5
  <2> QED
    BY <1>2, <2>1, <2>5, <2>6
<1> QED
  BY <1>1, <1>7, <1>8, <1>9

\* Neither a time nor an interrupt that is foreseen reaches NoIrq.
LEMMA IrqBound ==
    ASSUME NEW d \in Player, PlayerInv(d), NEW end \in FrameEnds \cup {0},
           NEW t \in Nat, t <= end + Late
    PROVE  /\ t < NoIrq
           /\ d.len > 0 => t + d.delay + CyclesLeft(d) < NoIrq
<1>1. /\ d.delay \in Nat /\ d.period \in Nat \ {0} /\ d.len \in Nat
      /\ d.bits \in Int /\ 1 <= d.bits /\ d.bits <= BitsPerByte
      /\ BitsPerByte \in Nat \ {0} /\ NoIrq \in Nat /\ Late \in Nat /\ end \in Nat
  BY BitsRange, OscillatorAssumption, SequencerAssumption DEF Player
<1>2. PICK s \in Samples : d.len <= s
  BY DEF PlayerInv
<1>3. PICK q \in DmcPeriods : d.delay < q
  BY DEF PlayerInv
<1> DEFINE p == d.period
           B == BitsPerByte
<1>4. end + Late + q + s * B * p < NoIrq
  BY NoIrqAssumption DEF Samples, PlayerInv
<1>5. s \in Nat \ {0} /\ q \in Nat \ {0}
  BY SequencerAssumption DEF Samples
<1>6. s * B \in Nat /\ (s * B) * p \in Nat
  <2>1. s * B \in Nat
    BY <1>1, <1>5, Products
  <2> QED
    BY <1>1, <2>1, Products
<1> DEFINE whole == s * B
<1>7. t < NoIrq
  <2> HIDE DEF whole, p
  <2>1. end + Late + q + whole * p < NoIrq /\ whole * p \in Nat
    BY <1>4, <1>6 DEF whole, p
  <2> QED
    BY <1>1, <1>5, <2>1
<1>8. ASSUME d.len > 0
      PROVE  t + d.delay + CyclesLeft(d) < NoIrq
  <2> DEFINE m == d.len - 1
             z == m * B + d.bits - 1
  <2>1. m \in Nat /\ m + 1 <= s
    BY <1>1, <1>2, <1>5, <1>8
  <2>2. m * B \in Nat /\ (m + 1) * B = m * B + 1 * B /\ (m + 1) * B <= s * B
    <3> HIDE DEF m
    <3> QED
      BY <1>1, <1>5, <2>1, Products
  <2>3. CyclesLeft(d) = z * p + 1
    BY DEF CyclesLeft
  <2> HIDE DEF m
  <2>4. z \in Nat /\ z + 1 <= whole
    BY <1>1, <1>6, <2>2
  <2>5. p \in Nat /\ whole \in Nat
    BY <1>1, <1>6
  <2> HIDE DEF z, whole, p
  <2>6. z * p \in Nat /\ (z + 1) * p = z * p + 1 * p /\ (z + 1) * p <= whole * p
    <3>1. z + 1 \in Nat /\ 1 \in Nat
      BY <2>4
    <3> QED
      BY <2>4, <2>5, <3>1, Products
  <2>7. end + Late + q + whole * p < NoIrq /\ whole * p \in Nat
    BY <1>4, <1>6 DEF whole, p
  <2> QED
    BY <1>1, <1>3, <1>5, <2>3, <2>6, <2>7 DEF p
<1> QED
  BY <1>7, <1>8

-----------------------------------------------------------------------------
(* The oscillators.                                                        *)

SweepReg == [on : BOOLEAN, down : BOOLEAN, shift : 0..7, rate : Nat]
PeriodRange == 0..MaxPeriod

Oscillator ==
    [len : Nat, halt : BOOLEAN, low : Nat, written : BOOLEAN, level : Nat,
     env_delay : Nat, period : PeriodRange, sweep_delay : Nat, swept : BOOLEAN,
     sweep : SweepReg]

\* The periods of a channel.
LEMMA PeriodIs ==
    /\ MaxPeriod \in Nat /\ 0 \in PeriodRange
    /\ \A p : p \in PeriodRange <=> p \in Int /\ 0 <= p /\ p <= MaxPeriod
BY OscillatorAssumption DEF PeriodRange

\* A clocked length counter never starts one that has ended ...
LEMMA LengthClocked ==
    ASSUME NEW o \in Oscillator
    PROVE  /\ ClockLength(o) \in Oscillator
           /\ ClockLength(o).level = o.level
           /\ ClockLength(o).len > 0 => o.len > 0
<1>1. CASE o.len > 0 /\ ~o.halt
  <2>1. o.len - 1 \in Nat
    BY <1>1 DEF Oscillator
  <2>2. ClockLength(o) = [o EXCEPT !.len = o.len - 1]
    BY <1>1 DEF ClockLength
  <2> QED
    BY <1>1, <2>1, <2>2 DEF Oscillator
<1>2. CASE ~(o.len > 0 /\ ~o.halt)
  BY <1>2 DEF ClockLength
<1> QED
  BY <1>1, <1>2

\* ... a clocked envelope stays a level ...
LEMMA EnvelopeClocked ==
    ASSUME NEW o \in Oscillator, o.level <= MaxLevel
    PROVE  /\ ClockEnvelope(o) \in Oscillator
           /\ ClockEnvelope(o).level <= MaxLevel
           /\ ClockEnvelope(o).len = o.len
<1>0. MaxLevel \in Nat /\ o.level \in Nat /\ o.low \in Nat /\ o.env_delay \in Nat
  BY OscillatorAssumption DEF Oscillator
<1>1. CASE o.written
  <2>1. ClockEnvelope(o)
          = [o EXCEPT !.written = FALSE, !.env_delay = o.low, !.level = MaxLevel]
    BY <1>1 DEF ClockEnvelope
  <2>2. [o EXCEPT !.written = FALSE, !.env_delay = o.low, !.level = MaxLevel] \in Oscillator
    BY <1>0 DEF Oscillator
  <2>3. ClockEnvelope(o).level = MaxLevel /\ ClockEnvelope(o).len = o.len
    BY <2>1 DEF Oscillator
  <2> QED
    BY <1>0, <2>1, <2>2, <2>3
<1>2. CASE ~o.written /\ o.env_delay > 0
  <2>1. ClockEnvelope(o) = [o EXCEPT !.env_delay = o.env_delay - 1]
    BY <1>2 DEF ClockEnvelope
  <2>2. o.env_delay - 1 \in Nat
    BY <1>0, <1>2
  <2> QED
    BY <2>1, <2>2 DEF Oscillator
<1>3. CASE ~o.written /\ ~(o.env_delay > 0)
  <2> DEFINE l == IF o.level > 0 THEN o.level - 1 ELSE IF o.halt THEN MaxLevel ELSE 0
  <2>1. l \in Nat /\ l <= MaxLevel
    BY <1>0
  <2>2. ClockEnvelope(o) = [o EXCEPT !.env_delay = o.low, !.level = l]
    BY <1>3 DEF ClockEnvelope
  <2> HIDE DEF l
  <2> QED
    BY <1>0, <2>1, <2>2 DEF Oscillator
<1> QED
  BY <1>1, <1>2, <1>3

\* ... a clocked linear counter leaves the length alone ...
LEMMA LinearClocked ==
    ASSUME NEW o \in Oscillator
    PROVE  ClockLinear(o) \in Oscillator /\ ClockLinear(o).len = o.len
<1> DEFINE l == IF o.written THEN o.low ELSE IF o.level > 0 THEN o.level - 1 ELSE 0
           t == o.written /\ o.halt
<1>1. l \in Nat
  BY DEF Oscillator
<1>2. t \in BOOLEAN
  BY Zenon
<1>3. ClockLinear(o) = [o EXCEPT !.level = l, !.written = t]
  BY DEF ClockLinear
<1> HIDE DEF l, t
<1> QED
  BY <1>1, <1>2, <1>3 DEF Oscillator

\* A sweep neither passes the top nor, halving at most, the bottom.
LEMMA PeriodSwept ==
    ASSUME NEW o \in Oscillator, NEW adjust \in {-1, 0}, o.sweep.shift > 0,
           o.period > 0
    PROVE  SweptPeriod(o, adjust) \in PeriodRange
<1> DEFINE w == 2 ^ o.sweep.shift
           offset == o.period \div w
<1>1. /\ o.sweep.shift \in 0..7 /\ o.period \in PeriodRange
  BY DEF Oscillator, SweepReg
<1>2. o.period \in Int /\ 0 < o.period /\ o.period <= MaxPeriod /\ MaxPeriod \in Nat
  BY <1>1, PeriodIs
<1>3. w \in Nat /\ 2 <= w
  <2>1. /\ 2 ^ 1 \in Nat /\ 2 <= 2 ^ 1 /\ 2 ^ 2 \in Nat /\ 2 <= 2 ^ 2
        /\ 2 ^ 3 \in Nat /\ 2 <= 2 ^ 3 /\ 2 ^ 4 \in Nat /\ 2 <= 2 ^ 4
        /\ 2 ^ 5 \in Nat /\ 2 <= 2 ^ 5 /\ 2 ^ 6 \in Nat /\ 2 <= 2 ^ 6
        /\ 2 ^ 7 \in Nat /\ 2 <= 2 ^ 7
    OBVIOUS
  <2>2. \/ o.sweep.shift = 1 \/ o.sweep.shift = 2 \/ o.sweep.shift = 3
        \/ o.sweep.shift = 4 \/ o.sweep.shift = 5 \/ o.sweep.shift = 6
        \/ o.sweep.shift = 7
    BY <1>1
  <2> QED
    BY <2>1, <2>2, Zenon
<1> HIDE DEF w
<1>4. offset \in Nat /\ offset + offset <= o.period
  <2>1. w \in Nat \ {0} /\ o.period \in Nat
    BY <1>2, <1>3
  <2>2. /\ offset \in Nat /\ o.period % w \in Nat
        /\ o.period = offset * w + (o.period % w)
    BY <2>1, Quotient
  <2> HIDE DEF offset
  <2>3. 2 * offset <= w * offset /\ w * offset = offset * w
    BY <1>3, <2>1, <2>2, Products
  <2>4. offset * w \in Nat
    BY <2>1, <2>2, Products
  <2> QED
    BY <2>1, <2>2, <2>3, <2>4
<1>5. SweptPeriod(o, adjust)
        = LET moved == o.period + (IF o.sweep.down THEN adjust - offset ELSE offset)
          IN  IF moved <= MaxPeriod THEN moved ELSE o.period
  BY DEF SweptPeriod, w
<1> HIDE DEF offset
<1>6. /\ o.period + (adjust - offset) \in Int /\ 0 <= o.period + (adjust - offset)
      /\ o.period + offset \in Int /\ 0 <= o.period + offset
  BY <1>2, <1>4
<1>7. CASE o.sweep.down
  BY <1>1, <1>5, <1>6, <1>7, PeriodIs
<1>8. CASE ~o.sweep.down
  BY <1>1, <1>5, <1>6, <1>8, PeriodIs
<1> QED
  BY <1>7, <1>8

\* ... and a sweep keeps the period in its range, up or down.
LEMMA SweepClocked ==
    ASSUME NEW o \in Oscillator, NEW adjust \in {-1, 0}
    PROVE  /\ ClockSweep(o, adjust) \in Oscillator
           /\ ClockSweep(o, adjust).level = o.level
           /\ ClockSweep(o, adjust).len = o.len
<1> DEFINE ends == o.sweep_delay = 0
           on == ends /\ o.sweep.on /\ o.sweep.shift > 0 /\ o.period >= MinSweep
           p == IF on THEN SweptPeriod(o, adjust) ELSE o.period
           r == IF ends \/ o.swept THEN o.sweep.rate ELSE o.sweep_delay - 1
<1>1. p \in PeriodRange
  <2>1. o.period \in PeriodRange
    BY DEF Oscillator
  <2>2. CASE on
    <3>1. o.period > 0 /\ o.sweep.shift > 0
      BY <2>1, <2>2, PeriodIs, OscillatorAssumption
    <3> QED
      BY <2>2, <3>1, PeriodSwept
  <2>3. CASE ~on
    BY <2>1, <2>3
  <2> HIDE DEF on
  <2> QED
    BY <2>2, <2>3
<1>2. r \in Nat
  BY DEF Oscillator, SweepReg
<1>3. ClockSweep(o, adjust) = [o EXCEPT !.period = p, !.swept = FALSE, !.sweep_delay = r]
  BY DEF ClockSweep
<1> HIDE DEF p, r
<1> QED
  BY <1>1, <1>2, <1>3 DEF Oscillator

\* The two parts in which a period is written make a period.
LEMMA PeriodWritten ==
    ASSUME NEW p \in PeriodRange, NEW q \in PeriodRange
    PROVE  (p \div PeriodLow) * PeriodLow + (q % PeriodLow) \in PeriodRange
<1> DEFINE L == PeriodLow
           top == (MaxPeriod + 1) \div L
           h == p \div L
           l == q % L
<1>1. L \in Nat \ {0} /\ MaxPeriod \in Nat /\ p \in Nat /\ p <= MaxPeriod /\ q \in Nat
  BY PeriodIs, SequencerAssumption
<1>2. top \in Nat /\ MaxPeriod + 1 = top * L
  <2>1. /\ MaxPeriod + 1 \in Nat /\ (MaxPeriod + 1) % L = 0
    BY <1>1, SequencerAssumption
  <2>2. /\ top \in Nat /\ MaxPeriod + 1 = top * L + ((MaxPeriod + 1) % L)
    BY <1>1, <2>1, Quotient
  <2>3. top * L \in Nat
    BY <1>1, <2>2, Products
  <2> QED
    BY <2>1, <2>2, <2>3
<1>3. h \in Nat /\ p % L \in Nat /\ p = h * L + (p % L)
  BY <1>1, Quotient
<1>4. l \in Nat /\ l < L
  BY <1>1, Quotient
<1> HIDE DEF h, l, top, L
<1>5. h * L \in Nat /\ (h + 1) * L = h * L + 1 * L
  BY <1>1, <1>3, Products
<1>6. h + 1 <= top
  <2> SUFFICES ASSUME top <= h PROVE FALSE
    BY <1>2, <1>3
  <2>1. top * L <= h * L
    BY <1>1, <1>2, <1>3, Products
  <2> QED
    BY <1>1, <1>2, <1>3, <1>5, <2>1
<1>7. (h + 1) * L <= top * L
  BY <1>1, <1>2, <1>3, <1>6, Products
<1>8. h * L + l \in Int /\ 0 <= h * L + l /\ h * L + l <= MaxPeriod
  BY <1>1, <1>2, <1>4, <1>5, <1>7
<1>9. h * L + l \in PeriodRange
  BY <1>8, PeriodIs
<1> QED
  BY <1>9 DEF h, l, L

-----------------------------------------------------------------------------
(* The inductive invariant.                                                *)

\* The player is always run to the time of the call; a call is no earlier than
\* what the sequencer has reached, nor than the end of its time frame.
TimeInv ==
    /\ last_time \in Nat /\ last_dmc_time \in Nat
    /\ call = Idle => last_dmc_time = last_time
    /\ call # Idle => /\ call.time \in Nat /\ call.end \in Nat
                      /\ last_dmc_time = call.time
                      /\ last_time <= call.time /\ call.end <= call.time
    /\ \E end \in FrameEnds \cup {0} : last_dmc_time <= end + Late

ClockInv ==
    /\ frame_delay \in Nat /\ frame \in 0..3 /\ mode1 \in BOOLEAN
    /\ base \in Nat /\ halves \in Nat

OscInv ==
    /\ osc \in [Oscs -> Oscillator]
    /\ \A o \in Oscs : o # "triangle" => osc[o].level <= MaxLevel
    /\ \A o \in Oscs : osc[o].len > 0 => o \in enables

\* What was announced is what the player would compute now.
DmcInv ==
    /\ dmc \in Player /\ PlayerInv(dmc)
    /\ dmc.next_irq = NextIrq(dmc, last_dmc_time)

SeqInv == TimeInv /\ ClockInv /\ OscInv /\ DmcInv

\* The invariant has the two invariants of the run as parts.
LEMMA InvTypes ==
    ASSUME SeqInv
    PROVE  TypeOK /\ LengthOnlyEnabled
<1>1. \A o \in Oscs : /\ osc[o].len \in Nat /\ osc[o].env_delay \in Nat
                      /\ o # "triangle" => osc[o].level \in 0..MaxLevel
                      /\ osc[o].period \in 0..MaxPeriod /\ osc[o].sweep_delay \in Nat
  <2> TAKE o \in Oscs
  <2>1. osc[o] \in Oscillator /\ (o # "triangle" => osc[o].level <= MaxLevel)
    BY DEF SeqInv, OscInv
  <2>2. /\ osc[o].len \in Nat /\ osc[o].env_delay \in Nat /\ osc[o].level \in Nat
        /\ osc[o].period \in PeriodRange /\ osc[o].sweep_delay \in Nat
    BY <2>1 DEF Oscillator
  <2> QED
    BY <2>1, <2>2, OscillatorAssumption DEF PeriodRange
<1>2. dmc.len \in Nat /\ dmc.bits \in 1..BitsPerByte /\ dmc.delay \in Nat
  BY DEF SeqInv, DmcInv, Player, Bits
<1>3. /\ last_time \in Nat /\ last_dmc_time >= last_time
      /\ call = Idle => last_dmc_time = last_time
      /\ frame_delay \in Nat /\ frame \in 0..3
  BY DEF SeqInv, TimeInv, ClockInv
<1>4. dmc.enabled <=> dmc.len > 0
  BY DEF SeqInv, DmcInv, PlayerInv
<1>5. \A o \in Oscs : osc[o].len > 0 => o \in enables
  BY DEF SeqInv, OscInv
<1> QED
  BY <1>1, <1>2, <1>3, <1>4, <1>5 DEF TypeOK, LengthOnlyEnabled

\* The invariant holds after the power is switched on.
LEMMA InitInv == Init => SeqInv
<1> SUFFICES ASSUME Init PROVE SeqInv
  OBVIOUS
<1>1. /\ frame_period \in Nat /\ 0 \in Nat /\ Late \in Nat
      /\ (CHOOSE p \in DmcPeriods : TRUE) \in DmcPeriods
      /\ DmcPeriods \subseteq Nat \ {0}
  BY SequencerAssumption
<1>2. TimeInv
  BY <1>1 DEF Init, TimeInv, Idle
<1>3. ClockInv
  <2>1. frame_delay = frame_period + 1 /\ frame = 1 /\ base = 0 /\ halves = 0
    BY DEF Init
  <2>2. frame_delay \in Nat /\ frame \in 0..3 /\ base \in Nat /\ halves \in Nat
    BY <1>1, <2>1
  <2>3. mode1 \in BOOLEAN
    BY DEF Init
  <2> QED
    BY <2>2, <2>3 DEF ClockInv
<1>4. OscInv
  <2>1. /\ ResetOsc(16) \in Oscillator /\ ResetOsc(0) \in Oscillator
        /\ ResetOsc(16).len = 0 /\ ResetOsc(0).len = 0 /\ ResetOsc(0).level = 0
    BY PeriodIs DEF ResetOsc, Oscillator, SweepReg
  <2>2. \A o \in Oscs : osc[o] = ResetOsc(IF o = "triangle" THEN 16 ELSE 0)
    BY DEF Init
  <2>3. \A o \in Oscs : osc[o] \in Oscillator /\ osc[o].len = 0
    BY <2>1, <2>2
  <2>4. \A o \in Oscs : o # "triangle" => osc[o].level = 0
    BY <2>1, <2>2
  <2>5. osc \in [Oscs -> Oscillator]
    BY <2>3 DEF Init
  <2> QED
    BY <2>3, <2>4, <2>5, OscillatorAssumption DEF OscInv
<1>5. DmcInv
  <2> DEFINE q == CHOOSE p \in DmcPeriods : TRUE
  <2>1. q \in DmcPeriods /\ q \in Nat \ {0}
    BY <1>1
  <2>2. /\ dmc = [len |-> 0, full |-> FALSE, silence |-> TRUE, bits |-> 1,
                  delay |-> 0, period |-> q, loop |-> FALSE, irq_enabled |-> FALSE,
                  irq_flag |-> FALSE, next_irq |-> NoIrq, enabled |-> FALSE, sample |-> 1]
    BY DEF Init
  <2> HIDE DEF q
  <2>3. 1 \in Bits
    BY BitsRange
  <2>4. dmc \in Player
    BY <2>1, <2>2, <2>3, BitsRange DEF Player
  <2>5. /\ dmc.len = 0 /\ ~dmc.loop /\ ~dmc.irq_enabled /\ dmc.period = q
        /\ dmc.sample = 1 /\ dmc.delay = 0 /\ ~dmc.enabled /\ dmc.next_irq = NoIrq
    BY <2>2
  <2>6. 1 \in Samples
    BY DEF Samples
  <2>7. PlayerInv(dmc)
    BY <2>1, <2>5, <2>6 DEF PlayerInv
  <2> QED
    BY <2>4, <2>5, <2>7 DEF DmcInv, NextIrq
<1> QED
  BY <1>2, <1>3, <1>4, <1>5 DEF SeqInv

\* A call begins: the player is run to its time, and the interrupt comes in
\* this run exactly when it was announced for it.
LEMMA RunUntilInv ==
    ASSUME SeqInv, call = Idle, NEW time \in Nat, NEW end \in Nat,
           last_time <= time, end <= time,
           \E e \in FrameEnds \cup {0} : time <= e + Late,
           RunUntil(time, end)
    PROVE  /\ SeqInv'
           /\ dmc.next_irq <= call'.time <=> Ended(dmc, dmc') /\ dmc.irq_enabled
<1> DEFINE cycles == time - last_dmc_time
<1>1. /\ last_time \in Nat /\ last_dmc_time = last_time
  BY DEF SeqInv, TimeInv
<1>2. cycles \in Nat /\ last_dmc_time + cycles = time
  BY <1>1
<1>3. dmc \in Player /\ PlayerInv(dmc) /\ dmc.next_irq = NextIrq(dmc, last_dmc_time)
  BY DEF SeqInv, DmcInv
<1>4. /\ call' = [time |-> time, from |-> last_time, end |-> end]
      /\ last_dmc_time' = time
      /\ UNCHANGED <<last_time, frame_delay, frame, mode1, osc, enables, base, halves>>
  BY DEF RunUntil, modeVars, oscVars
<1>5. call'.time = time /\ call'.end = end /\ call' # Idle
  <2>1. call'.time = time /\ call'.end = end
    BY <1>4
  <2> QED
    BY <2>1 DEF Idle
<1>6. TimeInv'
  BY <1>1, <1>4, <1>5 DEF TimeInv
<1>7. ClockInv'
  BY <1>4 DEF SeqInv, ClockInv
<1>8. OscInv'
  BY <1>4 DEF SeqInv, OscInv
<1>9. /\ DmcInv'
      /\ dmc.irq_enabled =>
            (Ended(dmc, dmc') <=> dmc.len > 0 /\ dmc.next_irq <= time)
  <2>1. CASE last_dmc_time < time
    <3>1. dmc' = Ran(dmc, cycles)
      BY <1>2, <1>3, <2>1, RunIs DEF RunUntil
    <3> HIDE DEF cycles
    <3>2. dmc' \in Player /\ PlayerInv(dmc')
      BY <1>2, <1>3, <3>1, RanInv, RanType
    <3>3. /\ dmc'.next_irq = NextIrq(dmc', last_dmc_time')
          /\ dmc.irq_enabled =>
                (Ended(dmc, dmc')
                   <=> dmc.len > 0 /\ last_dmc_time + dmc.delay + CyclesLeft(dmc) <= time)
      BY <1>1, <1>2, <1>3, <1>4, <3>1, RanIrq
    <3> QED
      BY <1>3, <3>2, <3>3 DEF DmcInv, NextIrq
  <2>2. CASE ~(last_dmc_time < time)
    <3>1. dmc' = dmc /\ last_dmc_time' = last_dmc_time /\ time = last_dmc_time
      BY <1>1, <1>4, <2>2 DEF RunUntil
    <3>2. ~Ended(dmc, dmc')
      BY <1>3, <3>1 DEF Ended, Player
    <3>3. dmc.irq_enabled /\ dmc.len > 0 => ~(dmc.next_irq <= time)
      <4> SUFFICES ASSUME dmc.irq_enabled, dmc.len > 0
                   PROVE  ~(dmc.next_irq <= time)
        OBVIOUS
      <4>1. Left(dmc) \in Nat /\ dmc.period \in Nat /\ dmc.delay \in Nat
        BY <1>3, PlayBitLeft DEF Player
      <4>2. Left(dmc) * dmc.period \in Nat
        BY <4>1, Products
      <4>3. dmc.next_irq = last_dmc_time + dmc.delay + (Left(dmc) * dmc.period + 1)
        BY <1>3 DEF NextIrq, CyclesLeft, Left
      <4> DEFINE z == Left(dmc) * dmc.period
      <4> HIDE DEF z
      <4> QED
        BY <1>1, <3>1, <4>1, <4>2, <4>3 DEF z
    <3> QED
      BY <1>3, <3>1, <3>2, <3>3 DEF DmcInv
  <2> QED
    BY <2>1, <2>2
<1>10. dmc.next_irq <= time => dmc.irq_enabled /\ dmc.len > 0
  <2>1. time < NoIrq
    BY <1>3, IrqBound
  <2>2. ~(dmc.irq_enabled /\ dmc.len > 0) => dmc.next_irq = NoIrq
    BY <1>3 DEF NextIrq
  <2>3. NoIrq \in Nat
    BY OscillatorAssumption
  <2> QED
    BY <2>1, <2>2, <2>3
<1>11. Ended(dmc, dmc') => dmc.len > 0
  BY DEF Ended
<1> QED
  BY <1>5, <1>6, <1>7, <1>8, <1>9, <1>10, <1>11 DEF SeqInv

\* An access, and the end of a time frame.
LEMMA CallInv ==
    ASSUME SeqInv, Access \/ EndAsked
    PROVE  /\ SeqInv'
           /\ dmc.next_irq <= call'.time <=> Ended(dmc, dmc') /\ dmc.irq_enabled
<1>1. /\ last_time \in Nat /\ Late \in Nat /\ Gaps \subseteq Nat /\ FrameEnds \subseteq Nat
  BY SequencerAssumption DEF SeqInv, TimeInv
<1>2. CASE Access
  <2>1. PICK gap \in Gaps, end \in FrameEnds :
            last_time + gap <= end + Late /\ RunUntil(last_time + gap, 0)
    BY <1>2 DEF Access
  <2>2. call = Idle
    BY <1>2 DEF Access
  <2> DEFINE time == last_time + gap
  <2>3. /\ time \in Nat /\ 0 \in Nat /\ last_time <= time /\ 0 <= time
        /\ \E e \in FrameEnds \cup {0} : time <= e + Late
    BY <1>1, <2>1
  <2>4. RunUntil(time, 0)
    BY <2>1
  <2> HIDE DEF time
  <2> QED
    BY <2>2, <2>3, <2>4, RunUntilInv
<1>3. CASE EndAsked
  <2>1. PICK end \in FrameEnds : RunUntil(IF end > last_time THEN end ELSE last_time, end)
    BY <1>3 DEF EndAsked
  <2>2. call = Idle
    BY <1>3 DEF EndAsked
  <2> DEFINE time == IF end > last_time THEN end ELSE last_time
  <2>3. time \in Nat /\ end \in Nat /\ last_time <= time /\ end <= time
    BY <1>1
  <2>4. \E e \in FrameEnds \cup {0} : time <= e + Late
    <3>1. CASE end > last_time
      BY <1>1, <3>1
    <3>2. CASE ~(end > last_time)
      BY <2>2, <3>2 DEF SeqInv, TimeInv
    <3> QED
      BY <3>1, <3>2
  <2>5. RunUntil(time, end)
    BY <2>1
  <2> HIDE DEF time
  <2> QED
    BY <2>2, <2>3, <2>4, <2>5, RunUntilInv
<1> QED
  BY <1>2, <1>3

\* A step of the sequencer clocks every oscillator.
LEMMA OscClocked ==
    ASSUME OscInv, NEW o \in Oscs
    PROVE  LET half == ClockHalf(o)
               r == osc[o]
           IN  /\ half \in Oscillator /\ half.level = r.level
               /\ half.len > 0 => r.len > 0
               /\ \A f \in {half, r} :
                     /\ ClockQuarter(o, f) \in Oscillator
                     /\ o # "triangle" => ClockQuarter(o, f).level <= MaxLevel
                     /\ ClockQuarter(o, f).len > 0 => r.len > 0
<1> DEFINE r == osc[o]
           half == ClockHalf(o)
<1>1. r \in Oscillator /\ (o # "triangle" => r.level <= MaxLevel)
  BY DEF OscInv
<1> HIDE DEF r
<1>2. half \in Oscillator /\ half.level = r.level /\ (half.len > 0 => r.len > 0)
  <2> DEFINE c == ClockLength(r)
  <2>1. c \in Oscillator /\ c.level = r.level /\ (c.len > 0 => r.len > 0)
    BY <1>1, LengthClocked
  <2> HIDE DEF c
  <2>2. CASE o \in Squares
    <3> DEFINE adjust == IF o = "square1" THEN -1 ELSE 0
    <3>1. half = ClockSweep(c, adjust)
      BY <2>2 DEF ClockHalf, c, r
    <3>2. adjust \in {-1, 0}
      OBVIOUS
    <3> HIDE DEF adjust
    <3>3. /\ ClockSweep(c, adjust) \in Oscillator
          /\ ClockSweep(c, adjust).level = c.level
          /\ ClockSweep(c, adjust).len = c.len
      BY <2>1, <3>2, SweepClocked
    <3> QED
      BY <2>1, <3>1, <3>3
  <2>3. CASE o \notin Squares
    <3>1. half = c
      BY <2>3 DEF ClockHalf, c, r
    <3> QED
      BY <2>1, <3>1
  <2> QED
    BY <2>2, <2>3
<1> HIDE DEF half
<1>3. ASSUME NEW f \in Oscillator, f.level = r.level, f.len > 0 => r.len > 0
      PROVE  /\ ClockQuarter(o, f) \in Oscillator
             /\ o # "triangle" => ClockQuarter(o, f).level <= MaxLevel
             /\ ClockQuarter(o, f).len > 0 => r.len > 0
  <2>1. CASE o = "triangle"
    <3>1. ClockQuarter(o, f) = ClockLinear(f)
      BY <2>1 DEF ClockQuarter
    <3>2. ClockLinear(f) \in Oscillator /\ ClockLinear(f).len = f.len
      BY LinearClocked
    <3> QED
      BY <1>3, <2>1, <3>1, <3>2
  <2>2. CASE o # "triangle"
    <3>1. ClockQuarter(o, f) = ClockEnvelope(f)
      BY <2>2 DEF ClockQuarter
    <3>2. f.level <= MaxLevel
      BY <1>1, <1>3, <2>2
    <3>3. /\ ClockEnvelope(f) \in Oscillator /\ ClockEnvelope(f).level <= MaxLevel
          /\ ClockEnvelope(f).len = f.len
      BY <3>2, EnvelopeClocked
    <3> QED
      BY <1>3, <3>1, <3>3
  <2> QED
    BY <2>1, <2>2
<1> QED
  BY <1>1, <1>2, <1>3 DEF half, r

\* A step of the frame clocks the oscillators and keeps the invariant.
LEMMA FrameStepInv ==
    ASSUME SeqInv, FrameStep
    PROVE  SeqInv'
<1> DEFINE time == last_time + frame_delay
           half == frame \in {0, 2}
<1>1. /\ call # Idle /\ time < call.time /\ last_time' = time
      /\ frame_delay' = Distance(frame) /\ frame' = (frame + 1) % 4
      /\ halves' = IF half THEN halves + 1 ELSE halves
      /\ UNCHANGED <<call, last_dmc_time, mode1, enables, dmc, base>>
  BY DEF FrameStep, modeVars
<1>2. osc' = [o \in Oscs |-> ClockQuarter(o, IF half THEN ClockHalf(o) ELSE osc[o])]
  BY DEF FrameStep
<1>3. TimeInv'
  BY <1>1 DEF SeqInv, TimeInv, ClockInv
<1>4. ClockInv'
  <2>1. Distance(frame) \in Nat
    <3>1. /\ frame_period - ShortBy \in Nat /\ 2 * frame_period - LongMinus \in Nat
          /\ frame_period \in Nat
      BY SequencerAssumption
    <3> QED
      BY <3>1, Zenon DEF Distance
  <2>2. (frame + 1) % 4 \in 0..3 /\ halves' \in Nat
    BY <1>1 DEF SeqInv, ClockInv
  <2> QED
    BY <1>1, <2>1, <2>2 DEF SeqInv, ClockInv
<1>5. OscInv'
  <2>1. ASSUME NEW o \in Oscs
        PROVE  /\ osc'[o] \in Oscillator
               /\ o # "triangle" => osc'[o].level <= MaxLevel
               /\ osc'[o].len > 0 => o \in enables'
    <3> DEFINE f == IF half THEN ClockHalf(o) ELSE osc[o]
    <3>1. f \in {ClockHalf(o), osc[o]}
      OBVIOUS
    <3>2. osc'[o] = ClockQuarter(o, f)
      BY <1>2
    <3> HIDE DEF f
    <3>3. /\ ClockQuarter(o, f) \in Oscillator
          /\ o # "triangle" => ClockQuarter(o, f).level <= MaxLevel
          /\ ClockQuarter(o, f).len > 0 => osc[o].len > 0
      BY <3>1, OscClocked DEF SeqInv
    <3>4. osc[o].len > 0 => o \in enables
      BY DEF SeqInv, OscInv
    <3> QED
      BY <1>1, <3>2, <3>3, <3>4
  <2>2. osc' \in [Oscs -> Oscillator]
    BY <1>2, <2>1
  <2> QED
    BY <2>1, <2>2 DEF OscInv
<1>6. DmcInv'
  BY <1>1 DEF SeqInv, DmcInv
<1> QED
  BY <1>3, <1>4, <1>5, <1>6 DEF SeqInv

\* What every access does after the run: the call ends at its time.
LEMMA ServeInv ==
    ASSUME SeqInv, Serve, Pass
    PROVE  /\ TimeInv' /\ ClockInv' /\ last_dmc_time' = last_dmc_time
           /\ call.time = last_dmc_time /\ last_dmc_time \in Nat
<1>1. /\ call # Idle /\ call.time <= last_time + frame_delay /\ call' = Idle
      /\ last_dmc_time' = last_dmc_time /\ halves' = halves
  BY DEF Serve, Arrive
<1>2. /\ last_time' = call.time
      /\ frame_delay' = frame_delay - (call.time - last_time)
      /\ frame' = frame /\ mode1' = mode1 /\ base' = base
  BY DEF Pass, modeVars
<1>3. /\ last_time \in Nat /\ last_dmc_time \in Nat /\ call.time \in Nat
      /\ last_dmc_time = call.time /\ last_time <= call.time
      /\ \E end \in FrameEnds \cup {0} : last_dmc_time <= end + Late
  BY <1>1 DEF SeqInv, TimeInv
<1>4. frame_delay' \in Nat
  BY <1>1, <1>2, <1>3 DEF SeqInv, ClockInv
<1>5. ClockInv'
  BY <1>1, <1>2, <1>4 DEF SeqInv, ClockInv
<1>6. TimeInv'
  BY <1>1, <1>2, <1>3 DEF TimeInv
<1> QED
  BY <1>1, <1>3, <1>5, <1>6

\* A write to 0x4017 keeps it.
LEMMA WriteModeInv ==
    ASSUME SeqInv, NEW long \in BOOLEAN, NEW asked \in BOOLEAN, WriteMode(long, asked)
    PROVE  SeqInv'
<1>1. /\ call # Idle /\ call.time <= last_time + frame_delay /\ call' = Idle
      /\ last_dmc_time' = last_dmc_time /\ halves' = halves
      /\ last_time' = call.time /\ mode1' = long
      /\ frame_delay' = ((frame_delay - (call.time - last_time)) % 2)
                          + (IF long THEN 0 ELSE frame_period)
      /\ frame' = IF long THEN 0 ELSE 1
      /\ UNCHANGED <<osc, enables, dmc, base>>
  BY DEF WriteMode, Serve, Arrive, oscVars
<1>2. /\ last_time \in Nat /\ last_dmc_time \in Nat /\ call.time \in Nat
      /\ last_dmc_time = call.time /\ last_time <= call.time
      /\ \E end \in FrameEnds \cup {0} : last_dmc_time <= end + Late
  BY <1>1 DEF SeqInv, TimeInv
<1>3. TimeInv'
  BY <1>1, <1>2 DEF TimeInv
<1>4. ClockInv'
  <2>1. frame_delay \in Nat /\ frame_period \in Nat
    BY SequencerAssumption DEF SeqInv, ClockInv
  <2>2. frame_delay' \in Nat /\ frame' \in 0..3
    <3>1. CASE long
      BY <1>1, <1>2, <2>1, <3>1
    <3>2. CASE ~long
      BY <1>1, <1>2, <2>1, <3>2
    <3> QED
      BY <3>1, <3>2
  <2> QED
    BY <1>1, <2>2 DEF SeqInv, ClockInv
<1>5. OscInv' /\ DmcInv'
  BY <1>1 DEF SeqInv, OscInv, DmcInv
<1> QED
  BY <1>3, <1>4, <1>5 DEF SeqInv

\* A record of the player that differs in the time of the interrupt only.
LEMMA Recalculated ==
    ASSUME NEW d \in Player, PlayerInv(d), NEW t \in Nat
    PROVE  /\ recalc_irq(d, t) \in Player /\ PlayerInv(recalc_irq(d, t))
           /\ recalc_irq(d, t).next_irq = NextIrq(recalc_irq(d, t), t)
<1> DEFINE e == recalc_irq(d, t)
           n == NextIrq(d, t)
<1>1. n \in Int
  <2>1. /\ d.delay \in Nat /\ d.period \in Nat /\ d.len \in Nat /\ d.bits \in Int
        /\ BitsPerByte \in Nat /\ NoIrq \in Int
    BY BitsRange DEF Player
  <2> DEFINE z == (d.len - 1) * BitsPerByte + d.bits - 1
  <2>2. z \in Int
    BY <2>1
  <2> HIDE DEF z
  <2>3. z * d.period + 1 \in Int
    BY <2>1, <2>2
  <2>4. CyclesLeft(d) \in Int
    BY <2>3 DEF CyclesLeft, z
  <2> QED
    BY <2>1, <2>4 DEF NextIrq
<1>2. e = [d EXCEPT !.next_irq = n]
  BY DEF recalc_irq
<1> HIDE DEF n, e
<1>3. /\ e \in Player /\ e.next_irq = n /\ e.len = d.len /\ e.bits = d.bits
      /\ e.delay = d.delay /\ e.period = d.period
  BY <1>1, <1>2 DEF Player
<1>4. /\ e.full = d.full /\ e.loop = d.loop /\ e.irq_enabled = d.irq_enabled
      /\ e.sample = d.sample /\ e.enabled = d.enabled
  BY <1>2 DEF Player
<1>5. PlayerInv(e)
  BY <1>3, <1>4 DEF PlayerInv
<1>6. n = NextIrq(e, t)
  BY <1>3, <1>4 DEF n, NextIrq, CyclesLeft
<1> QED
  BY <1>3, <1>5, <1>6 DEF e

\* A write to 0x4015 starts and stops oscillators and keeps it.
LEMMA WriteEnablesInv ==
    ASSUME SeqInv, NEW on \in SUBSET Channels, WriteEnables(on)
    PROVE  SeqInv'
<1> DEFINE kept == [dmc EXCEPT !.irq_flag = FALSE, !.enabled = "dmc" \in on,
                            !.len = IF "dmc" \in on THEN @ ELSE 0,
                            !.next_irq = IF "dmc" \in on THEN @ ELSE NoIrq]
           starts == "dmc" \in on /\ ~dmc.enabled
<1>1. Serve /\ Pass
  BY DEF WriteEnables
<1>2. /\ TimeInv' /\ ClockInv' /\ last_dmc_time' = last_dmc_time
      /\ call.time = last_dmc_time /\ last_dmc_time \in Nat
  BY <1>1, ServeInv
<1>3. OscInv'
  <2>1. /\ osc' = [o \in Oscs |-> IF o \in on THEN osc[o] ELSE [osc[o] EXCEPT !.len = 0]]
        /\ enables' = on \ {"dmc"}
    BY DEF WriteEnables
  <2>2. ASSUME NEW o \in Oscs
        PROVE  /\ osc'[o] \in Oscillator
               /\ o # "triangle" => osc'[o].level <= MaxLevel
               /\ osc'[o].len > 0 => o \in enables'
    <3>1. osc[o] \in Oscillator /\ (o # "triangle" => osc[o].level <= MaxLevel)
      BY DEF SeqInv, OscInv
    <3>2. CASE o \in on
      <4>1. osc'[o] = osc[o] /\ o # "dmc"
        BY <2>1, <3>2 DEF Oscs, Squares
      <4> QED
        BY <2>1, <3>1, <3>2, <4>1
    <3>3. CASE o \notin on
      <4>1. osc'[o] = [osc[o] EXCEPT !.len = 0]
        BY <2>1, <3>3
      <4>2. osc'[o] \in Oscillator /\ osc'[o].len = 0 /\ osc'[o].level = osc[o].level
        BY <3>1, <4>1 DEF Oscillator
      <4> QED
        BY <3>1, <4>2
    <3> QED
      BY <3>2, <3>3
  <2>3. osc' \in [Oscs -> Oscillator]
    BY <2>1, <2>2
  <2> QED
    BY <2>2, <2>3 DEF OscInv
<1>4. /\ dmc \in Player /\ PlayerInv(dmc) /\ dmc.next_irq = NextIrq(dmc, last_dmc_time)
      /\ dmc.len \in Nat /\ dmc.sample \in Nat \ {0}
  BY DEF SeqInv, DmcInv, Player
<1>5. dmc' = IF starts THEN DmcStart(kept, call.time) ELSE kept
  BY DEF WriteEnables
<1>6. CASE "dmc" \notin on
  <2> DEFINE switched == "dmc" \in on
  <2>1. /\ dmc' = [dmc EXCEPT !.irq_flag = FALSE, !.enabled = switched, !.len = 0,
                              !.next_irq = NoIrq]
        /\ switched \in BOOLEAN /\ ~switched
    BY <1>5, <1>6
  <2> HIDE DEF switched
  <2>2. /\ dmc' \in Player /\ dmc'.len = 0 /\ dmc'.next_irq = NoIrq
        /\ dmc'.delay = dmc.delay /\ dmc'.period = dmc.period /\ dmc'.sample = dmc.sample
    BY <1>4, <2>1, BitsRange DEF Player
  <2>3. /\ ~dmc'.enabled /\ dmc'.loop = dmc.loop /\ dmc'.irq_enabled = dmc.irq_enabled
    BY <1>4, <2>1 DEF Player
  <2>4. \E s \in Samples : 0 <= s
    BY DEF Samples
  <2>5. PlayerInv(dmc')
    BY <1>4, <2>2, <2>3, <2>4 DEF PlayerInv
  <2> QED
    BY <1>2, <1>3, <2>2, <2>5 DEF SeqInv, DmcInv, NextIrq
<1>7. CASE "dmc" \in on /\ dmc.enabled
  <2>1. dmc' = [dmc EXCEPT !.irq_flag = FALSE, !.enabled = TRUE]
    BY <1>4, <1>5, <1>7 DEF Player
  <2>2. /\ dmc' \in Player /\ dmc'.len = dmc.len /\ dmc'.next_irq = dmc.next_irq
        /\ dmc'.delay = dmc.delay /\ dmc'.period = dmc.period
        /\ dmc'.sample = dmc.sample /\ dmc'.bits = dmc.bits
    BY <1>4, <2>1 DEF Player
  <2>3. /\ dmc'.enabled /\ dmc'.full = dmc.full /\ dmc'.loop = dmc.loop
        /\ dmc'.irq_enabled = dmc.irq_enabled
    BY <1>4, <2>1 DEF Player
  <2>4. PlayerInv(dmc')
    BY <1>4, <1>7, <2>2, <2>3 DEF PlayerInv
  <2>5. NextIrq(dmc', last_dmc_time) = NextIrq(dmc, last_dmc_time)
    BY <2>2, <2>3 DEF NextIrq, CyclesLeft
  <2> QED
    BY <1>2, <1>3, <1>4, <2>2, <2>4, <2>5 DEF SeqInv, DmcInv
<1>8. CASE starts
  <2> DEFINE s == [kept EXCEPT !.len = kept.sample]
  <2>1. dmc' = recalc_irq(fill_buffer(s), call.time)
    BY <1>5, <1>8 DEF DmcStart
  <2>2. s = [dmc EXCEPT !.irq_flag = FALSE, !.enabled = TRUE, !.len = dmc.sample]
    BY <1>4, <1>8 DEF Player
  <2> HIDE DEF s
  <2>3. /\ s \in Player /\ s.len = dmc.sample /\ s.delay = dmc.delay
        /\ s.period = dmc.period /\ s.sample = dmc.sample
    BY <1>4, <2>2 DEF Player
  <2>4. s.enabled /\ s.loop = dmc.loop /\ s.irq_enabled = dmc.irq_enabled
    BY <1>4, <2>2 DEF Player
  <2>5. /\ s.enabled <=> s.len > 0
        /\ ~(s.loop /\ s.irq_enabled) /\ s.period \in DmcPeriods /\ s.sample \in Samples
        /\ \E n \in Samples : s.len <= n
        /\ \E q \in DmcPeriods : s.delay < q
    BY <1>4, <2>3, <2>4 DEF PlayerInv
  <2>6. fill_buffer(s) \in Player /\ PlayerInv(fill_buffer(s))
    BY <2>3, <2>5, FillInv, FillType
  <2>7. /\ dmc' \in Player /\ PlayerInv(dmc')
        /\ dmc'.next_irq = NextIrq(dmc', last_dmc_time)
    BY <1>2, <2>1, <2>6, Recalculated
  <2> QED
    BY <1>2, <1>3, <2>7 DEF SeqInv, DmcInv
<1> QED
  BY <1>6, <1>7, <1>8

\* A register of one oscillator.
LEMMA WriteOscInv ==
    ASSUME SeqInv, NEW o \in Oscs, NEW r \in Oscillator, r.level = osc[o].level,
           r.len > 0 => o \in enables, WriteOsc(o, r)
    PROVE  SeqInv'
<1>1. Serve /\ Pass /\ osc' = [osc EXCEPT ![o] = r] /\ enables' = enables /\ dmc' = dmc
  BY DEF WriteOsc
<1>2. TimeInv' /\ ClockInv' /\ last_dmc_time' = last_dmc_time
  BY <1>1, ServeInv
<1>3. OscInv'
  <2>1. ASSUME NEW i \in Oscs
        PROVE  /\ osc'[i] \in Oscillator
               /\ i # "triangle" => osc'[i].level <= MaxLevel
               /\ osc'[i].len > 0 => i \in enables'
    <3>1. osc'[i] = IF i = o THEN r ELSE osc[i]
      BY <1>1 DEF SeqInv, OscInv
    <3> QED
      BY <1>1, <3>1 DEF SeqInv, OscInv
  <2>2. osc' \in [Oscs -> Oscillator]
    BY <1>1 DEF SeqInv, OscInv
  <2> QED
    BY <2>1, <2>2 DEF OscInv
<1>4. DmcInv'
  BY <1>1, <1>2 DEF SeqInv, DmcInv
<1> QED
  BY <1>2, <1>3, <1>4 DEF SeqInv

\* A write to the registers of a channel keeps it.
LEMMA WriteChannelInv ==
    ASSUME SeqInv, WriteChannel
    PROVE  SeqInv'
<1>1. PICK o \in Channels \ {"dmc"} :
        \/ \E halt \in BOOLEAN, low \in Lows : WriteVolume(o, halt, low)
        \/ o \in Squares /\ \E sweep \in Sweeps : WriteSweep(o, sweep)
        \/ o \in Squares /\ \E p \in Periods : WritePeriod(o, p % PeriodLow)
        \/ \E len \in Lengths, p \in Periods : WriteLength(o, len, p \div PeriodLow)
  BY DEF WriteChannel
<1>2. o \in Oscs
  BY SequencerAssumption
<1>3. /\ osc[o] \in Oscillator /\ (osc[o].len > 0 => o \in enables)
      /\ osc[o].period \in PeriodRange
  BY <1>2 DEF SeqInv, OscInv, Oscillator
<1> DEFINE r == osc[o]
<1>4. ASSUME NEW halt \in BOOLEAN, NEW low \in Lows, WriteVolume(o, halt, low)
      PROVE  SeqInv'
  <2> DEFINE e == [r EXCEPT !.halt = halt, !.low = low]
  <2>1. low \in Nat
    BY SequencerAssumption
  <2>2. e \in Oscillator /\ e.level = r.level /\ e.len = r.len
    BY <1>3, <2>1 DEF Oscillator
  <2>3. WriteOsc(o, e)
    BY <1>4 DEF WriteVolume
  <2> HIDE DEF e
  <2> QED
    BY <1>2, <1>3, <2>2, <2>3, WriteOscInv
<1>5. ASSUME NEW sweep \in Sweeps, WriteSweep(o, sweep)
      PROVE  SeqInv'
  <2> DEFINE e == [r EXCEPT !.sweep = sweep, !.swept = TRUE]
  <2>1. sweep \in SweepReg
    BY SequencerAssumption DEF SweepReg
  <2>2. e \in Oscillator /\ e.level = r.level /\ e.len = r.len
    BY <1>3, <2>1 DEF Oscillator
  <2>3. WriteOsc(o, e)
    BY <1>5 DEF WriteSweep
  <2> HIDE DEF e
  <2> QED
    BY <1>2, <1>3, <2>2, <2>3, WriteOscInv
<1>6. ASSUME NEW p \in Periods, WritePeriod(o, p % PeriodLow)
      PROVE  SeqInv'
  <2> DEFINE q == (r.period \div PeriodLow) * PeriodLow + (p % PeriodLow)
             e == [r EXCEPT !.period = q]
  <2>1. q \in PeriodRange
    <3>1. p \in PeriodRange
      BY SequencerAssumption DEF PeriodRange
    <3> QED
      BY <1>3, <3>1, PeriodWritten
  <2>3. WriteOsc(o, e)
    BY <1>6 DEF WritePeriod
  <2> HIDE DEF q
  <2>4. e \in Oscillator /\ e.level = r.level /\ e.len = r.len
    BY <1>3, <2>1 DEF Oscillator
  <2> HIDE DEF e
  <2> QED
    BY <1>2, <1>3, <2>3, <2>4, WriteOscInv
<1>7. ASSUME NEW len \in Lengths, NEW p \in Periods, WriteLength(o, len, p \div PeriodLow)
      PROVE  SeqInv'
  <2> DEFINE q == IF o \in Squares
                  THEN (p \div PeriodLow) * PeriodLow + (r.period % PeriodLow)
                  ELSE r.period
             l == Loaded(o, len)
             e == [r EXCEPT !.written = TRUE, !.len = l, !.period = q]
  <2>1. q \in PeriodRange
    <3>1. p \in PeriodRange
      BY SequencerAssumption DEF PeriodRange
    <3> QED
      BY <1>3, <3>1, PeriodWritten
  <2>2. l \in Nat /\ (l > 0 => o \in enables)
    <3>1. len \in Nat /\ r.len \in Nat
      BY <1>3, SequencerAssumption DEF Oscillator
    <3> QED
      BY <1>3, <3>1 DEF Loaded
  <2>3. WriteOsc(o, e)
    BY <1>7 DEF WriteLength
  <2> HIDE DEF q, l
  <2>4. e \in Oscillator /\ e.level = r.level /\ e.len = l
    BY <1>3, <2>1, <2>2 DEF Oscillator
  <2> HIDE DEF e
  <2> QED
    BY <1>2, <2>2, <2>3, <2>4, WriteOscInv
<1> QED
  BY <1>1, <1>4, <1>5, <1>6, <1>7

\* A write to 0x4010 computes the interrupt of the sample anew.
LEMMA WriteDmcInv ==
    ASSUME SeqInv, NEW period \in DmcPeriods, NEW mode \in {"once", "irq", "loop"},
           WriteDmc(period, mode)
    PROVE  SeqInv'
<1> DEFINE d == [dmc EXCEPT !.period = period, !.loop = mode = "loop",
                            !.irq_enabled = mode = "irq",
                            !.irq_flag = @ /\ mode = "irq"]
<1>1. /\ Serve /\ Pass /\ dmc' = recalc_irq(d, call.time)
      /\ UNCHANGED <<osc, enables>>
  BY DEF WriteDmc, oscVars
<1>2. /\ TimeInv' /\ ClockInv' /\ last_dmc_time' = last_dmc_time
      /\ call.time = last_dmc_time /\ last_dmc_time \in Nat
  BY <1>1, ServeInv
<1>3. OscInv'
  BY <1>1 DEF SeqInv, OscInv
<1>4. d \in Player /\ PlayerInv(d)
  <2> DEFINE loop == mode = "loop"
             irq == mode = "irq"
             flag == dmc.irq_flag /\ irq
  <2>1. loop \in BOOLEAN /\ irq \in BOOLEAN /\ flag \in BOOLEAN /\ ~(loop /\ irq)
    OBVIOUS
  <2>2. dmc \in Player /\ PlayerInv(dmc) /\ period \in Nat \ {0}
    BY SequencerAssumption DEF SeqInv, DmcInv
  <2>3. d = [dmc EXCEPT !.period = period, !.loop = loop, !.irq_enabled = irq,
                        !.irq_flag = flag]
    OBVIOUS
  <2> HIDE DEF loop, irq, flag, d
  <2>4. /\ d \in Player /\ d.len = dmc.len /\ d.delay = dmc.delay /\ d.period = period
        /\ d.sample = dmc.sample
    BY <2>1, <2>2, <2>3 DEF Player
  <2>5. /\ d.loop = loop /\ d.irq_enabled = irq /\ d.enabled = dmc.enabled
        /\ d.full = dmc.full
    BY <2>1, <2>2, <2>3 DEF Player
  <2> QED
    BY <2>1, <2>2, <2>4, <2>5 DEF PlayerInv
<1> HIDE DEF d
<1>5. DmcInv'
  BY <1>1, <1>2, <1>4, Recalculated DEF DmcInv
<1> QED
  BY <1>2, <1>3, <1>5 DEF SeqInv

\* A write to 0x4013 changes only what the next start will play.
LEMMA WriteSampleInv ==
    ASSUME SeqInv, NEW length \in SampleLengths, WriteSample(length)
    PROVE  SeqInv'
<1>1. /\ Serve /\ Pass /\ dmc' = [dmc EXCEPT !.sample = length]
      /\ UNCHANGED <<osc, enables>>
  BY DEF WriteSample, oscVars
<1>2. TimeInv' /\ ClockInv' /\ last_dmc_time' = last_dmc_time
  BY <1>1, ServeInv
<1>3. OscInv'
  BY <1>1 DEF SeqInv, OscInv
<1>4. /\ dmc \in Player /\ PlayerInv(dmc) /\ length \in Nat \ {0} /\ length \in Samples
      /\ dmc.next_irq = NextIrq(dmc, last_dmc_time)
  BY SequencerAssumption DEF SeqInv, DmcInv, Samples
<1>5. /\ dmc' \in Player /\ dmc'.len = dmc.len /\ dmc'.delay = dmc.delay
      /\ dmc'.period = dmc.period /\ dmc'.sample = length /\ dmc'.bits = dmc.bits
      /\ dmc'.next_irq = dmc.next_irq
  BY <1>1, <1>4 DEF Player
<1>6. /\ dmc'.loop = dmc.loop /\ dmc'.irq_enabled = dmc.irq_enabled
      /\ dmc'.enabled = dmc.enabled /\ dmc'.full = dmc.full
  BY <1>1, <1>4 DEF Player
<1>7. PlayerInv(dmc')
  BY <1>4, <1>5, <1>6 DEF PlayerInv
<1>8. NextIrq(dmc', last_dmc_time) = NextIrq(dmc, last_dmc_time)
  BY <1>5, <1>6 DEF NextIrq, CyclesLeft
<1>9. DmcInv'
  BY <1>2, <1>4, <1>5, <1>7, <1>8 DEF DmcInv
<1> QED
  BY <1>2, <1>3, <1>9 DEF SeqInv

\* An access that leaves oscillators and player alone.
LEMMA WriteOtherInv ==
    ASSUME SeqInv, Serve, Pass, UNCHANGED <<osc, enables, dmc>>
    PROVE  SeqInv'
<1>1. TimeInv' /\ ClockInv' /\ last_dmc_time' = last_dmc_time
  BY ServeInv
<1> QED
  BY <1>1 DEF SeqInv, OscInv, DmcInv

\* The end of a time frame moves every time by its length.
LEMMA EndFrameInv ==
    ASSUME SeqInv, end_frame
    PROVE  SeqInv'
<1>1. /\ call # Idle /\ call.end > 0 /\ call.time <= last_time + frame_delay
      /\ call' = Idle /\ last_time' = call.time - call.end
      /\ last_dmc_time' = last_dmc_time - call.end
      /\ frame_delay' = frame_delay - (call.time - last_time)
      /\ dmc' = [dmc EXCEPT !.next_irq = Earlier(@, call.end)]
      /\ base' = base + call.end
      /\ UNCHANGED <<frame, mode1, osc, enables, halves>>
  BY DEF end_frame, modeVars, oscVars
<1>2. /\ last_time \in Nat /\ last_dmc_time \in Nat /\ call.time \in Nat
      /\ call.end \in Nat /\ last_dmc_time = call.time /\ last_time <= call.time
      /\ call.end <= call.time
  BY <1>1 DEF SeqInv, TimeInv
<1>3. PICK end \in FrameEnds \cup {0} : last_dmc_time <= end + Late
  BY DEF SeqInv, TimeInv
<1>4. end \in Nat /\ Late \in Nat
  BY SequencerAssumption
<1>5. TimeInv'
  <2>1. last_time' \in Nat /\ last_dmc_time' = last_time' /\ last_dmc_time' <= end + Late
    BY <1>1, <1>2, <1>3, <1>4
  <2> QED
    BY <1>1, <2>1 DEF TimeInv
<1>6. ClockInv'
  <2>1. frame_delay' \in Nat /\ base' \in Nat
    BY <1>1, <1>2 DEF SeqInv, ClockInv
  <2> QED
    BY <1>1, <2>1 DEF SeqInv, ClockInv
<1>7. OscInv'
  BY <1>1 DEF SeqInv, OscInv
<1>8. /\ dmc \in Player /\ PlayerInv(dmc) /\ dmc.next_irq = NextIrq(dmc, last_dmc_time)
      /\ dmc.next_irq \in Int /\ NoIrq \in Int
  BY BitsRange DEF SeqInv, DmcInv, Player
<1> DEFINE n == Earlier(dmc.next_irq, call.end)
<1>9. n \in Int
  BY <1>2, <1>8 DEF Earlier
<1>10. n = NextIrq(dmc, last_dmc_time - call.end)
  <2>1. CASE dmc.irq_enabled /\ dmc.len > 0
    <3>1. last_dmc_time + dmc.delay + CyclesLeft(dmc) < NoIrq
      BY <1>2, <1>3, <1>8, <2>1, IrqBound
    <3>2. dmc.next_irq = last_dmc_time + dmc.delay + CyclesLeft(dmc)
      BY <1>8, <2>1 DEF NextIrq
    <3>3. CyclesLeft(dmc) \in Int /\ dmc.delay \in Int
      <4>1. Left(dmc) \in Nat /\ dmc.period \in Nat /\ dmc.delay \in Nat
        BY <1>8, <2>1, PlayBitLeft DEF Player
      <4>2. Left(dmc) * dmc.period \in Nat
        BY <4>1, Products
      <4>3. CyclesLeft(dmc) = Left(dmc) * dmc.period + 1
        BY DEF CyclesLeft, Left
      <4> QED
        BY <4>1, <4>2, <4>3
    <3> DEFINE c == CyclesLeft(dmc)
               w == dmc.delay
    <3>4. n = dmc.next_irq - call.end
      BY <1>8, <3>1, <3>2 DEF Earlier
    <3>5. NextIrq(dmc, last_dmc_time - call.end) = last_dmc_time - call.end + w + c
      BY <2>1 DEF NextIrq
    <3> HIDE DEF c, w, n
    <3>6. dmc.next_irq = last_dmc_time + w + c /\ w \in Int /\ c \in Int
      BY <3>2, <3>3 DEF c, w
    <3> QED
      BY <1>2, <3>4, <3>5, <3>6
  <2>2. CASE ~(dmc.irq_enabled /\ dmc.len > 0)
    BY <1>8, <2>2 DEF NextIrq, Earlier
  <2> QED
    BY <2>1, <2>2
<1> HIDE DEF n
<1>11. dmc' = [dmc EXCEPT !.next_irq = n]
  BY <1>1 DEF n
<1>12. /\ dmc' \in Player /\ dmc'.next_irq = n /\ dmc'.len = dmc.len
       /\ dmc'.bits = dmc.bits /\ dmc'.delay = dmc.delay /\ dmc'.period = dmc.period
       /\ dmc'.sample = dmc.sample
  BY <1>8, <1>9, <1>11 DEF Player
<1>13. /\ dmc'.full = dmc.full /\ dmc'.loop = dmc.loop
       /\ dmc'.irq_enabled = dmc.irq_enabled /\ dmc'.enabled = dmc.enabled
  BY <1>8, <1>11 DEF Player
<1>14. PlayerInv(dmc')
  BY <1>8, <1>12, <1>13 DEF PlayerInv
<1>15. NextIrq(dmc', last_dmc_time') = NextIrq(dmc, last_dmc_time - call.end)
  BY <1>1, <1>12, <1>13 DEF NextIrq, CyclesLeft
<1>16. DmcInv'
  BY <1>10, <1>12, <1>14, <1>15 DEF DmcInv
<1> QED
  BY <1>5, <1>6, <1>7, <1>16 DEF SeqInv

\* Every action keeps the invariant.
LEMMA NextInv == SeqInv /\ [Next]_vars => SeqInv'
<1> SUFFICES ASSUME SeqInv, [Next]_vars PROVE SeqInv'
  OBVIOUS
<1>1. CASE UNCHANGED vars
  BY <1>1 DEF vars, modeVars, irqVars, oscVars, SeqInv, TimeInv, ClockInv, OscInv, DmcInv
<1>2. CASE Access \/ EndAsked
  BY <1>2, CallInv
<1>3. CASE FrameStep
  BY <1>3, FrameStepInv
<1>4. CASE end_frame
  BY <1>4, EndFrameInv
<1>5. CASE read_status \/ WriteOther
  BY <1>5, WriteOtherInv DEF read_status, WriteOther, oscVars
<1>6. ASSUME NEW long \in BOOLEAN, NEW asked \in BOOLEAN, WriteMode(long, asked)
      PROVE  SeqInv'
  BY <1>6, WriteModeInv
<1>7. ASSUME NEW on \in SUBSET Channels, WriteEnables(on)
      PROVE  SeqInv'
  BY <1>7, WriteEnablesInv
<1>8. CASE WriteChannel
  BY <1>8, WriteChannelInv
<1>9. CASE WritePlayer
  BY <1>9, WriteDmcInv, WriteSampleInv DEF WritePlayer
<1> QED
  BY <1>1, <1>2, <1>3, <1>4, <1>5, <1>6, <1>7, <1>8, <1>9 DEF Next, Done

\* The invariant holds in every state.
LEMMA SpecInv == Spec => []SeqInv
BY InitInv, NextInv, PTL DEF Spec

-----------------------------------------------------------------------------
(* The results.                                                            *)

\* Every counter keeps its range, and the two clocks agree between calls.
THEOREM TypeCorrect == Spec => []TypeOK
BY SpecInv, InvTypes, PTL

\* What is switched off is silent: no sweep, load or loop makes a channel sound
\* that is not enabled.
THEOREM OnlyEnabledSound == Spec => []LengthOnlyEnabled
BY SpecInv, InvTypes, PTL

\* The player's interrupt comes in the run it was announced for, through
\* restarts, changes of rate and ends of time frames.
THEOREM IrqComesOnTime == Spec => DmcIrqOnTime
<1>1. ASSUME SeqInv, [Next]_vars, call = Idle, call' # Idle
      PROVE  dmc.next_irq <= call'.time <=> Ended(dmc, dmc') /\ dmc.irq_enabled
  <2>1. Access \/ EndAsked
    BY <1>1 DEF Next, vars, FrameStep, end_frame, read_status, WriteOther, Done, WriteMode,
                WriteEnables, WriteChannel, WritePlayer, WriteVolume, WriteSweep,
                WritePeriod, WriteLength, WriteOsc, WriteDmc, WriteSample, Serve, Arrive
  <2> QED
    BY <1>1, <2>1, CallInv
<1>2. SeqInv /\ [Next]_vars
        => [call = Idle /\ call' # Idle =>
              (dmc.next_irq <= call'.time <=> Ended(dmc, dmc') /\ dmc.irq_enabled)]_vars
  BY <1>1
<1> QED
  BY <1>2, SpecInv, PTL DEF Spec, DmcIrqOnTime

\* However a run of the player is cut in two, it is the same run.
THEOREM CallsAreExact == Spec => []CallsDoNotMatter
<1>1. SeqInv => CallsDoNotMatter
  <2> DEFINE n == 2 * BitsPerByte * dmc.period
  <2> SUFFICES ASSUME SeqInv, NEW k \in 1..(n - 1)
               PROVE  DmcRun(DmcRun(dmc, k), n - k) = DmcRun(dmc, n)
    BY DEF CallsDoNotMatter
  <2>1. dmc \in Player
    BY DEF SeqInv, DmcInv
  <2>2. n \in Nat
    <3>1. 2 * BitsPerByte \in Nat /\ dmc.period \in Nat
      BY <2>1, BitsRange DEF Player
    <3> QED
      BY <3>1, Products
  <2> HIDE DEF n
  <2>3. k \in Nat /\ n - k \in Nat /\ k + (n - k) = n
    BY <2>2
  <2>4. DmcRun(dmc, k) = Ran(dmc, k) /\ DmcRun(dmc, n) = Ran(dmc, n)
    BY <2>1, <2>2, <2>3, RunIs
  <2>5. Ran(dmc, k) \in Player
    BY <2>1, <2>3, RanType
  <2>6. DmcRun(Ran(dmc, k), n - k) = Ran(Ran(dmc, k), n - k)
    BY <2>3, <2>5, RunIs
  <2>7. Ran(Ran(dmc, k), n - k) = Ran(dmc, k + (n - k))
    BY <2>1, <2>3, RunsAdd
  <2> QED
    BY <2>3, <2>4, <2>6, <2>7
<1> QED
  BY <1>1, SpecInv, PTL

-----------------------------------------------------------------------------
(* The frame sequencer implements FrameSequence.                           *)

\* On the absolute clock the time of a call lies between now and the step due.
LEMMA CallTime ==
    ASSUME SeqInv, call # Idle, call.time <= last_time + frame_delay
    PROVE  /\ base + call.time \in (base + last_time)..(base + last_time + frame_delay)
           /\ base + call.time + (frame_delay - (call.time - last_time))
                = base + last_time + frame_delay
           /\ (base + last_time + frame_delay) - (base + call.time)
                = frame_delay - (call.time - last_time)
<1>1. /\ base \in Nat /\ last_time \in Nat /\ frame_delay \in Nat /\ call.time \in Nat
      /\ last_time <= call.time
  BY DEF SeqInv, TimeInv, ClockInv
<1> DEFINE t == call.time
<1> HIDE DEF t
<1>2. /\ t \in Nat /\ last_time <= t /\ t <= last_time + frame_delay
  BY <1>1 DEF t
<1>3. /\ base + t \in (base + last_time)..(base + last_time + frame_delay)
      /\ base + t + (frame_delay - (t - last_time)) = base + last_time + frame_delay
      /\ (base + last_time + frame_delay) - (base + t) = frame_delay - (t - last_time)
  BY <1>1, <1>2
<1> QED
  BY <1>3 DEF t

\* The sequencer starts as the sequence of steps does.
LEMMA InitSequence == Init => Sequence!Init
<1> SUFFICES ASSUME Init PROVE Sequence!Init
  OBVIOUS
<1>1. /\ base = 0 /\ last_time = 0 /\ frame_delay = frame_period + 1 /\ frame = 1
      /\ mode1 = FALSE /\ irq_on = TRUE /\ irq_flag = FALSE /\ halves = 0
  BY DEF Init
<1>2. base + last_time = 0 /\ base + last_time + frame_delay = frame_period + 1
  BY <1>1, SequencerAssumption
<1> QED
  BY <1>1, <1>2 DEF Sequence!Init

\* A step of the frame is a step of the sequence.
LEMMA StepSequence ==
    ASSUME SeqInv, FrameStep
    PROVE  Sequence!Step
<1> DEFINE time == last_time + frame_delay
           half == frame \in {0, 2}
<1>1. /\ last_time' = time /\ frame_delay' = Distance(frame) /\ frame' = (frame + 1) % 4
      /\ irq_flag' = (irq_flag \/ (frame = 0 /\ irq_on /\ ~mode1))
      /\ halves' = IF half THEN halves + 1 ELSE halves
      /\ UNCHANGED <<base, mode1, irq_on>>
  BY DEF FrameStep, modeVars
<1>2. /\ base \in Nat /\ last_time \in Nat /\ frame_delay \in Nat /\ halves \in Nat
  BY DEF SeqInv, TimeInv, ClockInv
<1>3. Distance(frame) = Sequence!Distance(frame) /\ Distance(frame) \in Nat
  <2>1. /\ frame_period - ShortBy \in Nat /\ 2 * frame_period - LongMinus \in Nat
        /\ frame_period \in Nat
    BY SequencerAssumption
  <2> QED
    BY <2>1, Zenon DEF Distance, Sequence!Distance
<1>4. /\ base' + last_time' = base + last_time + frame_delay
      /\ base' + last_time' + frame_delay'
            = base + last_time + frame_delay + Sequence!Distance(frame)
  BY <1>1, <1>2, <1>3
<1>5. halves' = halves + (IF frame \in {0, 2} THEN 1 ELSE 0)
  BY <1>1, <1>2
<1> QED
  BY <1>1, <1>4, <1>5, Zenon DEF Sequence!Step

\* A register served without a step is time that passes ...
LEMMA WaitSequence ==
    ASSUME SeqInv, Serve, Pass, UNCHANGED irq_flag
    PROVE  Sequence!Wait
<1>1. /\ call # Idle /\ call.time <= last_time + frame_delay /\ last_time' = call.time
      /\ frame_delay' = frame_delay - (call.time - last_time)
      /\ UNCHANGED <<halves, frame, mode1, irq_on, base>>
  BY DEF Serve, Arrive, Pass, modeVars
<1>2. /\ base' + last_time' \in (base + last_time)..(base + last_time + frame_delay)
      /\ base' + last_time' + frame_delay' = base + last_time + frame_delay
  BY <1>1, CallTime
<1> QED
  BY <1>1, <1>2 DEF Sequence!Wait

\* ... a read of 0x4015 acknowledges the interrupt ...
LEMMA ReadSequence ==
    ASSUME SeqInv, read_status
    PROVE  Sequence!Acknowledge
<1>1. /\ call # Idle /\ call.time <= last_time + frame_delay /\ last_time' = call.time
      /\ frame_delay' = frame_delay - (call.time - last_time) /\ irq_flag' = FALSE
      /\ UNCHANGED <<halves, frame, mode1, irq_on, base>>
  BY DEF read_status, Serve, Arrive, Pass, modeVars
<1>2. /\ base' + last_time' \in (base + last_time)..(base + last_time + frame_delay)
      /\ base' + last_time' + frame_delay' = base + last_time + frame_delay
  BY <1>1, CallTime
<1> QED
  BY <1>1, <1>2 DEF Sequence!Acknowledge

\* ... a write to 0x4017 sets the mode and starts the sequence again ...
LEMMA ModeSequence ==
    ASSUME SeqInv, NEW long \in BOOLEAN, NEW asked \in BOOLEAN, WriteMode(long, asked)
    PROVE  Sequence!SetMode
<1> DEFINE rest == frame_delay - (call.time - last_time)
<1>1. /\ call # Idle /\ call.time <= last_time + frame_delay /\ last_time' = call.time
      /\ frame_delay' = (rest % 2) + (IF long THEN 0 ELSE frame_period)
      /\ frame' = IF long THEN 0 ELSE 1
      /\ mode1' = long /\ irq_on' = asked /\ irq_flag' = (irq_flag /\ asked)
      /\ UNCHANGED <<halves, base>>
  BY DEF WriteMode, Serve, Arrive
<1>2. /\ base' + last_time' \in (base + last_time)..(base + last_time + frame_delay)
      /\ (base + last_time + frame_delay) - (base' + last_time') = rest
  BY <1>1, CallTime
<1>3. /\ base \in Nat /\ last_time' \in Nat /\ frame_period \in Nat /\ rest \in Int
  BY <1>1, SequencerAssumption DEF SeqInv, TimeInv, ClockInv
<1> HIDE DEF rest
<1>4. base' + last_time' + frame_delay'
        = base' + last_time' + (rest % 2) + (IF long THEN 0 ELSE frame_period)
  <2>1. CASE long
    BY <1>1, <1>3, <2>1
  <2>2. CASE ~long
    BY <1>1, <1>3, <2>2
  <2> QED
    BY <2>1, <2>2
<1>5. /\ mode1' \in BOOLEAN /\ irq_on' \in BOOLEAN /\ irq_flag' = (irq_flag /\ irq_on')
      /\ frame' = (IF mode1' THEN 0 ELSE 1)
      /\ halves' = halves
  <2>1. mode1' = long /\ irq_on' = asked
    BY <1>1, Zenon
  <2>2. mode1' \in BOOLEAN /\ irq_on' \in BOOLEAN
    BY <2>1, Zenon
  <2>3. irq_flag' = (irq_flag /\ irq_on')
    BY <1>1, Zenon
  <2>4. frame' = (IF mode1' THEN 0 ELSE 1)
    <3>1. CASE long
      BY <1>1, <3>1
    <3>2. CASE ~long
      BY <1>1, <3>2
    <3> QED
      BY <3>1, <3>2
  <2>5. halves' = halves
    BY <1>1
  <2> QED
    BY <2>2, <2>3, <2>4, <2>5, Zenon
<1>6. base' + last_time' + frame_delay'
        = base' + last_time'
          + (((base + last_time + frame_delay) - (base' + last_time')) % 2)
          + (IF mode1' THEN 0 ELSE frame_period)
  BY <1>1, <1>2, <1>4
<1> QED
  BY <1>2, <1>5, <1>6, Zenon DEF Sequence!SetMode

\* ... and the end of a time frame, which moves every clock back, is nothing.
LEMMA FrameSequenceWaits ==
    ASSUME SeqInv, end_frame
    PROVE  Sequence!Wait
<1>1. /\ call # Idle /\ call.time <= last_time + frame_delay
      /\ last_time' = call.time - call.end /\ base' = base + call.end
      /\ frame_delay' = frame_delay - (call.time - last_time)
      /\ UNCHANGED <<halves, frame, mode1, irq_on, irq_flag>>
  BY DEF end_frame, modeVars
<1>2. base \in Nat /\ call.end \in Nat /\ call.time \in Nat
  BY <1>1 DEF SeqInv, TimeInv, ClockInv
<1>3. base' + last_time' = base + call.time
  BY <1>1, <1>2
<1>4. /\ base' + last_time' \in (base + last_time)..(base + last_time + frame_delay)
      /\ base' + last_time' + frame_delay' = base + last_time + frame_delay
  BY <1>1, <1>3, CallTime
<1> QED
  BY <1>1, <1>4 DEF Sequence!Wait

\* Every action is a step of the sequence or none.
LEMMA NextSequence == SeqInv /\ [Next]_vars => [Sequence!Next]_(Sequence!vars)
<1> SUFFICES ASSUME SeqInv, [Next]_vars PROVE [Sequence!Next]_(Sequence!vars)
  OBVIOUS
<1>1. CASE UNCHANGED <<base, last_time, frame_delay, frame, mode1, irq_on, irq_flag, halves>>
  BY <1>1 DEF Sequence!vars
<1>2. CASE FrameStep
  BY <1>2, StepSequence DEF Sequence!Next
<1>3. CASE end_frame
  BY <1>3, FrameSequenceWaits DEF Sequence!Next
<1>4. CASE read_status
  BY <1>4, ReadSequence DEF Sequence!Next
<1>5. ASSUME NEW long \in BOOLEAN, NEW asked \in BOOLEAN, WriteMode(long, asked)
      PROVE  Sequence!Next
  BY <1>5, ModeSequence DEF Sequence!Next
<1>6. CASE Serve /\ Pass /\ UNCHANGED irq_flag
  BY <1>6, WaitSequence DEF Sequence!Next
<1>7. ASSUME Access \/ EndAsked \/ Done \/ UNCHANGED vars
      PROVE  UNCHANGED <<base, last_time, frame_delay, frame, mode1, irq_on, irq_flag, halves>>
  BY <1>7 DEF Access, EndAsked, RunUntil, Done, vars, modeVars, irqVars
<1>8. ASSUME WriteOther \/ WriteChannel \/ WritePlayer
               \/ \E on \in SUBSET Channels : WriteEnables(on)
      PROVE  Serve /\ Pass /\ UNCHANGED irq_flag
  <2>1. CASE WriteOther
    BY <2>1 DEF WriteOther, irqVars
  <2>2. CASE WriteChannel
    BY <2>2 DEF WriteChannel, WriteVolume, WriteSweep, WritePeriod, WriteLength, WriteOsc,
                irqVars
  <2>3. CASE WritePlayer
    BY <2>3 DEF WritePlayer, WriteDmc, WriteSample, irqVars
  <2>4. CASE \E on \in SUBSET Channels : WriteEnables(on)
    BY <2>4 DEF WriteEnables
  <2> QED
    BY <1>8, <2>1, <2>2, <2>3, <2>4
<1> QED
  BY <1>1, <1>2, <1>3, <1>4, <1>5, <1>6, <1>7, <1>8 DEF Next

\* However time is cut into accesses and time frames, the steps come where
\* FrameSequence has them, and so does the interrupt flag.
THEOREM SequenceIsExact == Spec => FramesDoNotMatter
<1>1. Spec => Sequence!Spec
  BY InitSequence, NextSequence, SpecInv, PTL DEF Spec, Sequence!Spec
<1> QED
  BY <1>1 DEF FramesDoNotMatter
=============================================================================
