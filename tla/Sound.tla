------------------------------- MODULE Sound --------------------------------
(***************************************************************************)
(* What one may expect to hear of an oscillator: on a clock that never     *)
(* stops, its timer counts cycle by cycle and moves it along its waveform; *)
(* every change of its level is heard once, at the place of its cycle      *)
(* among the samples, and the samples are played in order.                 *)
(***************************************************************************)
EXTENDS Integers, Sequences, FiniteSetsExt, SequencesExt

CONSTANTS
    LastClock,      \* bound: cycles
    Settings(_),    \* what the registers of a voice may ask for
    Rate, Unit,     \* samples per cycle: Rate / Unit
    Latency,        \* samples by which all sound is late
    Impulse(_, _),  \* how a change at a fraction of a sample spreads
    Leak,           \* the sum loses a part of 2^Leak per sample
    Sample(_),      \* the sample the sum gives
    Quiet,          \* squares with a shorter period are silent
    Highest,        \* so are those with a longer one after the sweep
    Slope,          \* steps of a slope of the triangle
    Shortest,       \* a triangle with a shorter timer stands still
    Top, Tap,       \* bits of the noise register
    Loudest, Stride,\* highest level of the player, and what a bit moves it by
    Loudness,       \* level -> amplitude
    Bits, Data      \* bits of a byte, and the one all samples consist of

VARIABLES
    voice,          \* "square", "triangle", "noise" or "dmc"
    setting,        \* what its registers ask for
    clock,
    phase, timer, level,
    changes,        \* clock -> change of the level there
    taken,          \* samples played
    sum,            \* of all they carried
    heard           \* the last of them

Clocks == 0..LastClock

vars == <<voice, setting, clock, phase, timer, level, changes, taken, sum, heard>>

-----------------------------------------------------------------------------
(* The waveforms.                                                          *)

Highs == << {0}, {0, 1}, 0..3, 2..7 >>

Reach(g) == IF g.negate THEN g.period ELSE g.period + (g.period \div 2^g.shift)

LevelOf(p, g) ==
    CASE voice = "square" ->
            IF p \notin Highs[g.duty + 1] \/ g.period < Quiet \/ Reach(g) > Highest
            THEN 0 ELSE g.volume
      [] voice = "triangle" ->
            IF p <= Slope THEN Slope - p ELSE p - Slope - 1
      [] voice = "noise" -> (p % 2) * g.volume
      [] voice = "dmc" -> Loudness[p.dac]

\* The player has read one byte ahead: that one is followed by no other, or by
\* the next of the sample, or by the sample once more.
BytesAfter(bytes, g) ==
    IF bytes = 2 /\ g.loop THEN 1 + g.sample ELSE IF bytes = 0 THEN 0 ELSE bytes - 1

Moved(p) ==
    LET dac == IF (Data \div 2^p.bit) % 2 = 1 THEN p.dac + Stride ELSE p.dac - Stride
    IN  IF p.on /\ dac \in 0..Loudest THEN dac ELSE p.dac

PhaseAfter(p, g) ==
    CASE voice = "square"   -> (p + 1) % 8
      [] voice = "triangle" -> IF p = 1 THEN 2 * Slope ELSE p - 1
      [] voice = "noise"    ->
            LET other == IF g.short THEN Tap ELSE 1
            IN  IF p % 2 = (p \div 2^other) % 2 THEN p \div 2 ELSE p \div 2 + 2^Top
      [] voice = "dmc" ->
            IF p.bit < Bits - 1
            THEN [dac |-> Moved(p), bit |-> p.bit + 1, on |-> p.on, bytes |-> p.bytes]
            ELSE [dac |-> Moved(p), bit |-> 0, on |-> p.bytes > 0,
                  bytes |-> BytesAfter(p.bytes, g)]

Period(g) ==
    CASE voice = "square"   -> 2 * g.period + 2
      [] voice = "triangle" -> g.period + 1
      [] OTHER              -> g.period

Counting(g) == voice = "triangle" => g.on /\ g.period + 1 >= Shortest

-----------------------------------------------------------------------------
\* One cycle, at clock c.
Tick(s, c) ==
    LET due  == Counting(setting) /\ s.timer = 0
        next == IF due THEN PhaseAfter(s.phase, setting) ELSE s.phase
        new  == LevelOf(next, setting)
    IN  [phase   |-> next, level |-> new,
         timer   |-> IF ~Counting(setting) THEN 0
                     ELSE (IF due THEN Period(setting) ELSE s.timer) - 1,
         changes |-> [s.changes EXCEPT ![c] = @ + new - s.level]]

Played(n) ==
    FoldLeft(Tick, [phase |-> phase, timer |-> timer, level |-> level,
                    changes |-> changes], [k \in 1..n |-> clock + k - 1])

\* What may happen to the phase from outside: a square starts its waveform anew,
\* the player is set to a level, loses the bytes not yet read, or gets a sample
\* when it has none.  A silent noise may shuffle its register as it likes.
Jumps(p, g) ==
    CASE voice = "square" -> {p, 7}
      [] voice = "noise"  ->
            IF setting.volume = 0 THEN 0..(2 * 2^Top - 1) ELSE {p}
      [] voice = "dmc"    ->
            LET start == IF p.bytes = 1 THEN 1 + g.sample
                         ELSE IF g.sample = 1 /\ g.loop THEN 2 ELSE g.sample
            IN  {[p EXCEPT !.dac = d] : d \in 0..Loudest}
                  \cup {[p EXCEPT !.bytes = IF @ = 0 THEN 0 ELSE 1]}
                  \cup (IF p.bytes < 2 THEN {[p EXCEPT !.bytes = start]} ELSE {})
      [] OTHER            -> {p}

\* Cycles pass, and then the registers may change.
Advance(n) ==
    LET s == Played(n)
    IN  /\ clock' = clock + n
        /\ timer' = s.timer /\ level' = s.level /\ changes' = s.changes
        /\ setting' \in Settings(voice) \cup {setting}
        /\ phase' \in Jumps(s.phase, setting')
        /\ UNCHANGED <<voice, taken, sum, heard>>

\* What the registers ask for may take effect at once, before the next cycle.
Settle ==
    /\ level' = LevelOf(phase, setting)
    /\ timer' = IF Counting(setting) THEN timer ELSE 0
    /\ changes' = [changes EXCEPT ![clock] = @ + level' - level]
    /\ UNCHANGED <<voice, setting, clock, phase, taken, sum, heard>>

-----------------------------------------------------------------------------
(* The samples: sample i carries what every change adds at its distance.   *)

Place(c) == Latency + ((c * Rate) \div Unit)
Fraction(c) == (c * Rate) % Unit

Added(i) ==
    SumFunction([c \in {c \in Clocks : changes[c] # 0} |->
                     changes[c] * Impulse(Fraction(c), i - Place(c))])

\* Samples are only played when all that they carry is known.  The sum runs
\* on from sample to sample.
Play ==
    \E upto \in taken..((clock * Rate) \div Unit) :
        LET sums[i \in taken..upto] ==
                IF i = taken THEN sum
                ELSE sums[i - 1] - (sums[i - 1] \div 2^Leak) + Added(i - 1)
        IN  /\ taken' = upto
            /\ heard' = [i \in 1..(upto - taken) |-> Sample(sums[taken + i - 1])]
            /\ sum' = sums[upto]
            /\ UNCHANGED <<voice, setting, clock, phase, timer, level, changes>>

Init ==
    /\ clock = 0 /\ timer = 0 /\ taken = 0 /\ sum = 0 /\ heard = <<>>
    /\ phase = CASE voice = "square"   -> 7
                 [] voice = "triangle" -> 1
                 [] voice = "noise"    -> 2^Top
                 [] voice = "dmc"      ->
                        [dac |-> 0, bit |-> Bits - 1, on |-> FALSE, bytes |-> 0]
    /\ level = IF voice = "triangle" THEN Slope - 1 ELSE 0
    /\ changes = [c \in Clocks |-> 0]

Next == (\E n \in Clocks : Advance(n)) \/ Settle \/ Play

Spec == Init /\ [][Next]_vars
=============================================================================
