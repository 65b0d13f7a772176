---------------------------- MODULE Oscillators ----------------------------
(***************************************************************************)
(* The counters of the APU's oscillators (Nes_Oscs): lengths, envelopes,   *)
(* the sweeps of the squares, the linear counter of the triangle, and the  *)
(* sample player (Nes_Dmc).  The waveforms made from them are left out.    *)
(*                                                                         *)
(* An oscillator is a record: len, halt (bit 5 of regs[0], of the triangle *)
(* bit 7), low (the bits below it that give a period or a count), written  *)
(* (reg_written[3]), level and env_delay (envelope, linear counter), and   *)
(* for the squares period, sweep, sweep_delay and swept (reg_written[1]).  *)
(***************************************************************************)
EXTENDS Integers

CONSTANTS
    MaxLevel,       \* 15, the envelope's top
    MaxPeriod,      \* 0x7ff
    MinSweep,       \* 8: shorter periods are not swept
    BitsPerByte,    \* 8
    NoIrq           \* no_irq, later than any time

ASSUME OscillatorAssumption ==
    /\ MaxLevel \in Nat /\ MaxPeriod \in Nat /\ NoIrq \in Nat
    /\ MinSweep \in Nat \ {0} /\ BitsPerByte \in Nat \ {0}

-----------------------------------------------------------------------------
(* Faulty variants of definitions below, substituted for them to see that  *)
(* the properties notice the slip; the specifications do not use them.     *)

SweptPeriodUnbounded(o, adjust) == o.period + o.period \div 2
DisabledKept(d) == d
SkipBitsShort(d, count) ==
    [d EXCEPT !.bits = 1 + ((@ + BitsPerByte - (count % BitsPerByte)) % BitsPerByte)]
CyclesLeftLate(d) == (d.len * BitsPerByte + d.bits - 1) * d.period + 1

-----------------------------------------------------------------------------
(* Clocked by the frame sequencer.                                         *)

ClockLength(o) ==
    IF o.len > 0 /\ ~o.halt THEN [o EXCEPT !.len = @ - 1] ELSE o

\* With bit 5 the envelope starts over when it has reached zero.
ClockEnvelope(o) ==
    IF o.written
    THEN [o EXCEPT !.written = FALSE, !.env_delay = o.low, !.level = MaxLevel]
    ELSE IF o.env_delay > 0 THEN [o EXCEPT !.env_delay = @ - 1]
    ELSE [o EXCEPT !.env_delay = o.low,
                   !.level = IF @ > 0 THEN @ - 1
                             ELSE IF o.halt THEN MaxLevel ELSE 0]

ClockLinear(o) ==
    [o EXCEPT !.level   = IF o.written THEN o.low ELSE IF @ > 0 THEN @ - 1 ELSE 0,
              !.written = @ /\ o.halt]

\* A sweep down subtracts one more on the first square (adjust = -1).
SweptPeriod(o, adjust) ==
    LET offset == o.period \div 2 ^ o.sweep.shift
        moved  == o.period + (IF o.sweep.down THEN adjust - offset ELSE offset)
    IN  IF moved <= MaxPeriod THEN moved ELSE o.period

ClockSweep(o, adjust) ==
    LET ends == o.sweep_delay = 0
        on   == ends /\ o.sweep.on /\ o.sweep.shift > 0 /\ o.period >= MinSweep
    IN  [o EXCEPT !.period      = IF on THEN SweptPeriod(o, adjust) ELSE @,
                  !.swept       = FALSE,
                  !.sweep_delay = IF ends \/ o.swept THEN o.sweep.rate ELSE @ - 1]

-----------------------------------------------------------------------------
(* The sample player, a record too: len (bytes left to read), full and     *)
(* silence, bits (bits_remain), delay, period, loop, irq_enabled, irq_flag,*)
(* next_irq, enabled (bit 4 of osc_enables) and sample (its length).       *)

\* osc_enables &= ~0x10
Disabled(d) == [d EXCEPT !.enabled = FALSE]

\* The last byte starts the sample over or ends it.
fill_buffer(d) ==
    LET read == [d EXCEPT !.full = TRUE, !.len = @ - 1]
    IN  IF d.full \/ d.len = 0 THEN d
        ELSE IF read.len > 0 THEN read
        ELSE IF d.loop THEN [read EXCEPT !.len = d.sample]
        ELSE [Disabled(read) EXCEPT !.irq_flag = d.irq_enabled, !.next_irq = NoIrq]

\* One bit is played.
PlayBit(d) ==
    IF d.bits > 1 THEN [d EXCEPT !.bits = @ - 1]
    ELSE IF ~d.full THEN [d EXCEPT !.bits = BitsPerByte, !.silence = TRUE]
    ELSE fill_buffer([d EXCEPT !.bits = BitsPerByte, !.silence = FALSE,
                               !.full = FALSE])

\* Bits pass without being played.
SkipBits(d, count) ==
    [d EXCEPT !.bits = 1 + ((@ - 1 + BitsPerByte - (count % BitsPerByte)) % BitsPerByte)]

\* Nes_Dmc::run over a number of cycles: every bit that begins in them, at
\* once if there is nothing to play.
DmcRun(d, cycles) ==
    LET count == IF d.delay < cycles
                 THEN (cycles - d.delay + d.period - 1) \div d.period ELSE 0
        played[n \in 0..count] == IF n = 0 THEN d ELSE PlayBit(played[n - 1])
        after == IF d.silence /\ ~d.full THEN SkipBits(d, count) ELSE played[count]
    IN  [after EXCEPT !.delay = @ + count * d.period - cycles]

\* Cycles from the time the player has been run to, to its interrupt.
CyclesLeft(d) == ((d.len - 1) * BitsPerByte + d.bits - 1) * d.period + 1

NextIrq(d, time) ==
    IF d.irq_enabled /\ d.len > 0 THEN time + d.delay + CyclesLeft(d) ELSE NoIrq

recalc_irq(d, time) == [d EXCEPT !.next_irq = NextIrq(d, time)]

DmcStart(d, time) ==
    recalc_irq(fill_buffer([d EXCEPT !.len = d.sample]), time)
=============================================================================
