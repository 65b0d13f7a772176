------------------------------- MODULE Waves --------------------------------
(***************************************************************************)
(* The waveforms of the oscillators (run of Nes_Square, Nes_Triangle,      *)
(* Nes_Noise and Nes_Dmc): what one run from time to end does to the timer,*)
(* the phase and the last amplitude of an oscillator, and the changes of   *)
(* amplitude it passes to Blip_Synth, as a sequence of <<time, delta>>.    *)
(*                                                                         *)
(* o is the oscillator's state, a record of phase (the shift register of   *)
(* the noise), delay and last_amp; g is what its registers ask for.  Every *)
(* oscillator has an output, as Simple_Apu::sample_rate gives it one.      *)
(* What the frame sequencer does to them is in Oscillators.                *)
(***************************************************************************)
EXTENDS Oscillators, Sequences, SequencesExt

CONSTANTS
    min_period,     \* 8, squares with a shorter period are silent
    TriangleRange,  \* 16, steps of a slope of the triangle
    MinTimer,       \* 3, a triangle with a shorter timer stands still
    NoiseTop,       \* 14, the highest bit of the shift register
    ModeBit,        \* 6, the bit fed back with bit 0 in the short mode
    MaxDac,         \* 0x7f, the highest level of the sample player
    DacStep,        \* 2, by which a bit moves it
    dmc_table,      \* level -> amplitude
    DmcByte         \* 0x55, all that null_dmc_reader reads

SquareRange == 8

-----------------------------------------------------------------------------
\* A change of amplitude, unless it is none.
Change(time, delta) == IF delta = 0 THEN <<>> ELSE << <<time, delta>> >>

\* How often a timer due at from and then every period expires before end.
Expiries(from, end, period) ==
    IF from < end THEN (end - from + period - 1) \div period ELSE 0

Steps(n) == [k \in 1..n |-> k]

-----------------------------------------------------------------------------
(* Nes_Square.  g: period, shift and negate of the sweep, volume and duty. *)

Offset(g) == IF g.negate THEN 0 ELSE g.period \div 2^g.shift

Silent(g) ==
    g.volume = 0 \/ g.period < min_period \/ g.period + Offset(g) > MaxPeriod

\* The last of the four duties is the second one, negated.
Duty(g) == IF g.duty = 3 THEN 2 ELSE 2^g.duty

SquareAmp(phase, g) ==
    IF (phase < Duty(g)) # (g.duty = 3) THEN g.volume ELSE 0

SquareRun(o, g, time, end) ==
    LET timer_period == (g.period + 1) * 2
        from == time + o.delay
        n    == Expiries(from, end, timer_period)
        phase(k) == (o.phase + k) % SquareRange
        amp  == SquareAmp(o.phase, g)
        \* The amplitude toggles wherever the phase reaches an edge.
        Toggle(a, k) ==
            IF phase(k) \in {0, Duty(g)}
            THEN [delta |-> -a.delta,
                  out   |-> Append(a.out, <<from + (k - 1) * timer_period, -a.delta>>)]
            ELSE a
        loop == FoldLeft(Toggle, [delta |-> 2 * amp - g.volume,
                                  out   |-> Change(time, amp - o.last_amp)], Steps(n))
        moved(last) == [phase |-> phase(n), delay |-> from + n * timer_period - end,
                        last_amp |-> last]
    IN  IF Silent(g)
        THEN [osc |-> moved(0), out |-> Change(time, -o.last_amp)]
        ELSE [osc |-> moved((loop.delta + g.volume) \div 2), out |-> loop.out]

-----------------------------------------------------------------------------
(* Nes_Triangle.  g: period, and on if neither counter is zero.  The phase *)
(* counts down from 2 * TriangleRange to 1.                                *)

calc_amp(phase) ==
    IF TriangleRange - phase < 0 THEN phase - (TriangleRange + 1)
                                 ELSE TriangleRange - phase

TriangleRun(o, g, time, end) ==
    LET timer_period == g.period + 1
        from  == time + o.delay
        n     == Expiries(from, end, timer_period)
        first == Change(time, calc_amp(o.phase) - o.last_amp)
        down  == o.phase > TriangleRange
        \* On a slope the level moves by volume; at its end the slope turns.
        Move(a, k) ==
            IF a.phase = 1
            THEN [a EXCEPT !.phase = TriangleRange, !.volume = -@]
            ELSE [a EXCEPT !.phase = @ - 1,
                           !.out = Append(@, <<from + (k - 1) * timer_period, a.volume>>)]
        loop  == FoldLeft(Move,
                     [phase  |-> IF down THEN o.phase - TriangleRange ELSE o.phase,
                      volume |-> IF down THEN -1 ELSE 1, out |-> first], Steps(n))
        phase == loop.phase + (IF loop.volume < 0 THEN TriangleRange ELSE 0)
    IN  IF ~g.on \/ timer_period < MinTimer
        THEN [osc |-> [phase |-> o.phase, delay |-> 0, last_amp |-> calc_amp(o.phase)],
              out |-> first]
        ELSE [osc |-> [phase |-> phase, delay |-> from + n * timer_period - end,
                       last_amp |-> calc_amp(phase)],
              out |-> loop.out]

-----------------------------------------------------------------------------
(* Nes_Noise.  g: period, volume and the short mode.                       *)

Bit(n, i) == (n \div 2^i) % 2

Shuffle(noise, short) ==
    noise \div 2
      + 2^NoiseTop * ((Bit(noise, 0) + Bit(noise, IF short THEN ModeBit ELSE 1)) % 2)

NoiseRun(o, g, time, end) ==
    LET from == time + o.delay
        n    == Expiries(from, end, g.period)
        amp  == IF Bit(o.phase, 0) = 1 THEN g.volume ELSE 0
        first == Change(time, amp - o.last_amp)
        \* The amplitude toggles when the next bit of the register differs.
        Cycle(a, k) ==
            [noise |-> Shuffle(a.noise, g.short),
             delta |-> IF Bit(a.noise, 0) # Bit(a.noise, 1) THEN -a.delta ELSE a.delta,
             out   |-> IF Bit(a.noise, 0) # Bit(a.noise, 1)
                       THEN Append(a.out, <<from + (k - 1) * g.period, -a.delta>>)
                       ELSE a.out]
        loop == FoldLeft(Cycle, [noise |-> o.phase, delta |-> 2 * amp - g.volume,
                                 out |-> first], Steps(n))
        delay == from + n * g.period - end
    IN  IF g.volume = 0
        \* While silent the register is shuffled once a run, in one mode only.
        THEN [osc |-> [phase |-> IF n > 0 /\ ~g.short THEN Shuffle(o.phase, FALSE)
                                                      ELSE o.phase,
                       delay |-> delay, last_amp |-> 0],
              out |-> first]
        ELSE [osc |-> [phase |-> loop.noise, delay |-> delay,
                       last_amp |-> (loop.delta + g.volume) \div 2],
              out |-> loop.out]

-----------------------------------------------------------------------------
(* Nes_Dmc.  g: period, loop and the length of the sample.  o has dac, and *)
(* in place of a phase the fields of Oscillators that tell which bit is    *)
(* played: all bytes being the same, bits need not be shifted out of it.   *)

\* The record of Oscillators, its interrupt left out, and back.
Player(o, g) ==
    [len |-> o.len, full |-> o.full, silence |-> o.silence, bits |-> o.bits,
     delay |-> o.delay, dac |-> o.dac, last_amp |-> o.last_amp,
     period |-> g.period, loop |-> g.loop, sample |-> g.sample,
     irq_enabled |-> FALSE, irq_flag |-> FALSE, next_irq |-> NoIrq, enabled |-> TRUE]

Played(d, delay, last_amp) ==
    [dac |-> d.dac, bits |-> d.bits, silence |-> d.silence, full |-> d.full,
     len |-> d.len, delay |-> delay, last_amp |-> last_amp]

Started(o, g) ==
    Played(fill_buffer([Player(o, g) EXCEPT !.len = g.sample]), o.delay, o.last_amp)

DmcWave(o, g, time, end) ==
    LET from  == time + o.delay
        n     == Expiries(from, end, g.period)
        first == Change(time, dmc_table[o.dac] - o.last_amp)
        \* Unless silent, a bit moves the level, which stops at both ends.
        Moved(d) ==
            LET dac == IF Bit(DmcByte, BitsPerByte - d.bits) = 1
                       THEN d.dac + DacStep ELSE d.dac - DacStep
            IN  IF d.silence \/ dac \notin 0..MaxDac THEN d.dac ELSE dac
        Play(a, k) ==
            LET d == [a.d EXCEPT !.dac = Moved(a.d)]
            IN  [d   |-> PlayBit(d),
                 out |-> a.out \o Change(from + (k - 1) * g.period,
                                         dmc_table[d.dac] - dmc_table[a.d.dac])]
        loop  == IF o.silence /\ ~o.full
                 THEN [d |-> SkipBits(o, n), out |-> first]
                 ELSE FoldLeft(Play, [d |-> Player(o, g), out |-> first], Steps(n))
    IN  [osc |-> Played(loop.d, from + n * g.period - end, dmc_table[loop.d.dac]),
         out |-> loop.out]
=============================================================================
