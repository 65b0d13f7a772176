----------------------------- MODULE Sequencer -----------------------------
(***************************************************************************)
(* Nes_Apu: its frame sequencer, register writes and interrupts.  The APU  *)
(* is only run when a register is accessed or a time frame ends: it        *)
(* catches up with the time of the call, the sample player first, then     *)
(* from step to step of the sequencer, and then does what was asked.       *)
(* The console is an NTSC one, as Nes_Apu assumes when nobody asks for PAL. *)
(***************************************************************************)
EXTENDS Oscillators, FiniteSets

CONSTANTS
    frame_period,   \* 7458
    ShortBy,        \* 2
    LongMinus,      \* 6
    FrameEnds,      \* lengths of time frames
    Late,           \* an access may be so late for its time frame
    Gaps,           \* cycles from one access to the next
    Lengths,        \* what length_table holds
    Lows,           \* values of the low bits of regs[0]
    Sweeps,         \* what is written to the sweep registers
    Periods,        \* what is written, in two parts, as period of a square
    PeriodLow,      \* 256: the first part
    SampleLengths,  \* lengths of samples
    DmcPeriods,     \* what dmc_period_table holds
    Channels,       \* oscillators the client uses
    MaxCalls,       \* bound: accesses
    MaxFrames       \* bound: time frames

Squares == {"square1", "square2"}
Oscs    == Squares \cup {"triangle", "noise"}

ASSUME SequencerAssumption ==
    /\ frame_period \in Nat /\ frame_period % 2 = 0
    /\ ShortBy \in 0..(frame_period - 1)
    /\ LongMinus \in 0..(2 * frame_period - 1)
    /\ FrameEnds \subseteq Nat \ {0} /\ Gaps \subseteq Nat /\ Late \in Nat
    /\ Lengths \subseteq Nat \ {0} /\ SampleLengths \subseteq Nat \ {0}
    /\ PeriodLow \in Nat \ {0} /\ (MaxPeriod + 1) % PeriodLow = 0
    /\ Lows \subseteq Nat /\ Periods \subseteq 0..MaxPeriod
    /\ Sweeps \subseteq [on : BOOLEAN, down : BOOLEAN, shift : 0..7, rate : Nat]
    /\ DmcPeriods \subseteq Nat \ {0} /\ DmcPeriods # {}
    /\ Channels \subseteq Oscs \cup {"dmc"}

\* An interrupt of the player, however long the sample, comes before NoIrq.
ASSUME NoIrqAssumption ==
    \A end \in FrameEnds \cup {0}, length \in SampleLengths \cup {1},
       period, slower \in DmcPeriods :
        end + Late + slower + length * BitsPerByte * period < NoIrq

VARIABLES
    call,           \* the access being served, or Idle
    last_time, last_dmc_time,
    frame_delay, frame,
    mode1, irq_on,  \* bit 7 and, inverted, 6 of frame_mode
    irq_flag, next_irq,
    earliest_irq_,
    osc,            \* square1, square2, triangle, noise
    enables,        \* the oscillators of bits 0 to 3 of osc_enables
    dmc,
    base, halves,   \* history: time frames before this one; steps 0 and 2
    calls, frames   \* history: what the bounds count

modeVars == <<mode1, irq_on>>
irqVars == <<irq_flag, next_irq, earliest_irq_>>
oscVars == <<osc, enables>>
vars == <<call, last_time, last_dmc_time, frame_delay, frame, modeVars,
          irqVars, oscVars, dmc, base, halves, calls, frames>>

Idle == [time |-> -1, from |-> -1, end |-> 0]

ResetOsc(low) ==
    [len |-> 0, halt |-> FALSE, low |-> low, written |-> TRUE, level |-> 0,
     env_delay |-> 0, period |-> 0, sweep_delay |-> 0, swept |-> TRUE,
     sweep |-> [on |-> FALSE, down |-> FALSE, shift |-> 0, rate |-> 0]]

\* Nes_Apu::reset, the register writes it makes included.
Init ==
    /\ call = Idle /\ last_time = 0 /\ last_dmc_time = 0
    /\ frame_delay = frame_period + 1 /\ frame = 1
    /\ mode1 = FALSE /\ irq_on = TRUE /\ irq_flag = FALSE
    /\ next_irq = frame_delay + frame_period * 3 + 1 /\ earliest_irq_ = next_irq
    /\ osc = [o \in Oscs |-> ResetOsc(IF o = "triangle" THEN 16 ELSE 0)]
    /\ enables = {}
    /\ dmc = [len |-> 0, full |-> FALSE, silence |-> TRUE, bits |-> 1,
              delay |-> 0, period |-> CHOOSE p \in DmcPeriods : TRUE,
              loop |-> FALSE, irq_enabled |-> FALSE, irq_flag |-> FALSE,
              next_irq |-> NoIrq, enabled |-> FALSE, sample |-> 1]
    /\ base = 0 /\ halves = 0 /\ calls = 0 /\ frames = 0

-----------------------------------------------------------------------------
(* Faulty variants of definitions below, substituted for them to see that  *)
(* the properties notice the slip; the specification does not use them.    *)

DistanceEven(n) == frame_period

-----------------------------------------------------------------------------
(* run_until_: a call begins, the player catches up, then the sequencer.   *)

Earliest(flag, d, irq) ==
    IF flag \/ d.irq_flag THEN 0
    ELSE IF d.next_irq < irq THEN d.next_irq ELSE irq

\* Reading its last byte, the player calls irq_changed.
Ended(before, after) == before.len > 0 /\ after.len = 0

RunUntil(time, end) ==
    /\ call' = [time |-> time, from |-> last_time, end |-> end]
    /\ dmc' = IF last_dmc_time < time THEN DmcRun(dmc, time - last_dmc_time)
                                      ELSE dmc
    /\ last_dmc_time' = time
    /\ earliest_irq_' = IF Ended(dmc, dmc') THEN Earliest(irq_flag, dmc', next_irq)
                                            ELSE earliest_irq_
    /\ UNCHANGED <<last_time, frame_delay, frame, modeVars, irq_flag, next_irq,
                   oscVars, base, halves>>

\* An access to a register.
Access ==
    /\ call = Idle /\ calls < MaxCalls
    /\ \E gap \in Gaps, end \in FrameEnds :
          /\ last_time + gap <= end + Late
          /\ RunUntil(last_time + gap, 0)
    /\ calls' = calls + 1 /\ UNCHANGED frames

\* The end of a time frame, which a late access may have passed already.
EndAsked ==
    /\ call = Idle /\ frames < MaxFrames
    /\ \E end \in FrameEnds :
          RunUntil(IF end > last_time THEN end ELSE last_time, end)
    /\ frames' = frames + 1 /\ UNCHANGED calls

Distance(n) ==
    CASE n = 1           -> frame_period - ShortBy
      [] n = 3 /\ mode1  -> 2 * frame_period - LongMinus
      [] OTHER           -> frame_period

\* Every step clocks the envelopes, every other one lengths and sweeps too.
ClockHalf(o) ==
    IF o \in Squares
    THEN ClockSweep(ClockLength(osc[o]), IF o = "square1" THEN -1 ELSE 0)
    ELSE ClockLength(osc[o])

ClockQuarter(o, r) == IF o = "triangle" THEN ClockLinear(r) ELSE ClockEnvelope(r)

\* A step of the sequencer before the time of the call.
FrameStep ==
    LET time == last_time + frame_delay
        half == frame \in {0, 2}
        asks == frame = 0 /\ irq_on /\ ~mode1
    IN  /\ call # Idle /\ time < call.time
        /\ last_time' = time
        /\ frame_delay' = Distance(frame) /\ frame' = (frame + 1) % 4
        /\ irq_flag' = (irq_flag \/ asks)
        /\ next_irq' = IF asks THEN time + frame_period * 4 + 2 ELSE next_irq
        /\ osc' = [o \in Oscs |-> ClockQuarter(o, IF half THEN ClockHalf(o) ELSE osc[o])]
        /\ halves' = IF half THEN halves + 1 ELSE halves
        /\ UNCHANGED <<call, last_dmc_time, modeVars, earliest_irq_, enables, dmc,
                       base, calls, frames>>

\* The run reaches the time of the call.  A step due at this very time is
\* left to the next call.
Arrive ==
    /\ call # Idle /\ call.time <= last_time + frame_delay
    /\ call' = Idle
    /\ UNCHANGED <<last_dmc_time, halves, calls, frames>>

Pass ==
    /\ last_time' = call.time
    /\ frame_delay' = frame_delay - (call.time - last_time)
    /\ UNCHANGED <<frame, modeVars, base>>

Serve == Arrive /\ call.end = 0

-----------------------------------------------------------------------------
(* write_register, read_status and end_frame, after the run.               *)

\* 0x4017.
WriteMode(long, asked) ==
    LET odd == (frame_delay - (call.time - last_time)) % 2
    IN  /\ Serve
        /\ last_time' = call.time
        /\ mode1' = long /\ irq_on' = asked
        /\ frame_delay' = odd + (IF long THEN 0 ELSE frame_period)
        /\ frame' = IF long THEN 0 ELSE 1
        /\ irq_flag' = (irq_flag /\ asked)
        /\ next_irq' = IF asked /\ ~long
                       THEN call.time + frame_delay' + frame_period * 3 + 1
                       ELSE NoIrq
        /\ earliest_irq_' = Earliest(irq_flag', dmc, next_irq')
        /\ UNCHANGED <<oscVars, dmc, base>>

\* 0x4015.
WriteEnables(on) ==
    LET kept == [dmc EXCEPT !.irq_flag = FALSE, !.enabled = "dmc" \in on,
                            !.len = IF "dmc" \in on THEN @ ELSE 0,
                            !.next_irq = IF "dmc" \in on THEN @ ELSE NoIrq]
        starts == "dmc" \in on /\ ~dmc.enabled
        changed == \/ dmc.irq_flag \/ "dmc" \notin on
                   \/ starts /\ (dmc'.len = 0 \/ dmc'.next_irq # dmc.next_irq)
    IN  /\ Serve /\ Pass
        /\ osc' = [o \in Oscs |-> IF o \in on THEN osc[o] ELSE [osc[o] EXCEPT !.len = 0]]
        /\ enables' = on \ {"dmc"}
        /\ dmc' = IF starts THEN DmcStart(kept, call.time) ELSE kept
        /\ earliest_irq_' = IF changed THEN Earliest(irq_flag, dmc', next_irq)
                                       ELSE earliest_irq_
        /\ UNCHANGED <<irq_flag, next_irq>>

WriteOsc(o, r) ==
    /\ Serve /\ Pass
    /\ osc' = [osc EXCEPT ![o] = r]
    /\ UNCHANGED <<irqVars, enables, dmc>>

\* Register 0 of an oscillator, 1 of a square, 2 of a square (the low bits of
\* its period) and 3 (the high ones).
WriteVolume(o, halt, low) == WriteOsc(o, [osc[o] EXCEPT !.halt = halt, !.low = low])

WriteSweep(o, sweep) == WriteOsc(o, [osc[o] EXCEPT !.sweep = sweep, !.swept = TRUE])

WritePeriod(o, low) ==
    WriteOsc(o, [osc[o] EXCEPT !.period = (@ \div PeriodLow) * PeriodLow + low])

Loaded(o, len) == IF o \in enables THEN len ELSE osc[o].len

WriteLength(o, len, high) ==
    WriteOsc(o, [osc[o] EXCEPT !.written = TRUE, !.len = Loaded(o, len),
                 !.period = IF o \in Squares THEN high * PeriodLow + (@ % PeriodLow) ELSE @])

\* 0x4010: playing once, once with an interrupt, or in a loop.
WriteDmc(period, mode) ==
    /\ Serve /\ Pass
    /\ dmc' = recalc_irq([dmc EXCEPT !.period = period, !.loop = mode = "loop",
                                     !.irq_enabled = mode = "irq",
                                     !.irq_flag = @ /\ mode = "irq"], call.time)
    /\ earliest_irq_' = IF dmc'.next_irq # dmc.next_irq
                        THEN Earliest(irq_flag, dmc', next_irq) ELSE earliest_irq_
    /\ UNCHANGED <<irq_flag, next_irq, oscVars>>

\* 0x4013.
WriteSample(length) ==
    /\ Serve /\ Pass
    /\ dmc' = [dmc EXCEPT !.sample = length]
    /\ UNCHANGED <<irqVars, oscVars>>

\* Every other register is about waveforms: the write only lets time pass.
WriteOther ==
    /\ Serve /\ Pass
    /\ UNCHANGED <<irqVars, oscVars, dmc>>

\* A read of 0x4015 runs up to the cycle before first, so it is not allowed at
\* the time of the last access.
read_status ==
    /\ Serve /\ Pass /\ call.from < call.time
    /\ irq_flag' = FALSE
    /\ earliest_irq_' = IF irq_flag THEN Earliest(FALSE, dmc, next_irq) ELSE earliest_irq_
    /\ UNCHANGED <<next_irq, oscVars, dmc>>

Earlier(irq, end) == IF irq = NoIrq THEN NoIrq ELSE irq - end

\* Times become relative to the new time frame.
end_frame ==
    /\ call # Idle /\ call.end > 0 /\ call.time <= last_time + frame_delay
    /\ call' = Idle
    /\ last_time' = call.time - call.end
    /\ last_dmc_time' = last_dmc_time - call.end
    /\ frame_delay' = frame_delay - (call.time - last_time)
    /\ next_irq' = Earlier(next_irq, call.end)
    /\ dmc' = [dmc EXCEPT !.next_irq = Earlier(@, call.end)]
    /\ earliest_irq_' = IF Earlier(earliest_irq_, call.end) < 0 THEN 0
                        ELSE Earlier(earliest_irq_, call.end)
    /\ base' = base + call.end
    /\ UNCHANGED <<frame, modeVars, irq_flag, oscVars, halves, calls, frames>>

\* The bounds are reached.
Done == call = Idle /\ calls = MaxCalls /\ frames = MaxFrames /\ UNCHANGED vars

WriteChannel ==
    \E o \in Channels \ {"dmc"} :
        \/ \E halt \in BOOLEAN, low \in Lows : WriteVolume(o, halt, low)
        \/ o \in Squares /\ \E sweep \in Sweeps : WriteSweep(o, sweep)
        \/ o \in Squares /\ \E p \in Periods : WritePeriod(o, p % PeriodLow)
        \/ \E len \in Lengths, p \in Periods : WriteLength(o, len, p \div PeriodLow)

WritePlayer ==
    /\ "dmc" \in Channels
    /\ \/ \E period \in DmcPeriods, mode \in {"once", "irq", "loop"} :
             WriteDmc(period, mode)
       \/ \E length \in SampleLengths : WriteSample(length)

Next ==
    \/ Access \/ EndAsked \/ FrameStep \/ end_frame \/ read_status
    \/ WriteOther \/ Done
    \/ \E long, asked \in BOOLEAN : WriteMode(long, asked)
    \/ \E on \in SUBSET Channels : WriteEnables(on)
    \/ WriteChannel \/ WritePlayer

Spec == Init /\ [][Next]_vars

-----------------------------------------------------------------------------
(* Properties.                                                             *)

\* Counters keep their ranges: neither a sweep nor an envelope wraps, and
\* between calls the two clocks agree and have not passed the assertions of
\* run_until_ and end_frame.
TypeOK ==
    /\ last_time \in Nat /\ last_dmc_time >= last_time
    /\ call = Idle => last_dmc_time = last_time
    /\ frame_delay \in Nat /\ frame \in 0..3
    /\ \A o \in Oscs :
          /\ osc[o].len \in Nat /\ osc[o].env_delay \in Nat
          /\ o # "triangle" => osc[o].level \in 0..MaxLevel
          /\ osc[o].period \in 0..MaxPeriod /\ osc[o].sweep_delay \in Nat
    /\ dmc.len \in Nat /\ dmc.bits \in 1..BitsPerByte /\ dmc.delay \in Nat

\* Only an enabled oscillator sounds, and the player is enabled exactly while
\* it has bytes left, though it is started, looped, ended and switched off in
\* different places.
LengthOnlyEnabled ==
    /\ \A o \in Oscs : osc[o].len > 0 => o \in enables
    /\ dmc.enabled <=> dmc.len > 0

\* The player's interrupt comes exactly at the time that was announced, with
\* however many bytes, bits and cycles left it was announced, and across time
\* frames.
DmcIrqOnTime ==
    [][call = Idle /\ call' # Idle =>
        (dmc.next_irq <= call'.time <=> Ended(dmc, dmc') /\ dmc.irq_enabled)]_vars

\* It makes no difference to the player where its run is cut in two by a call,
\* here a run over two bytes; one part may go the short way, all silence, and
\* the whole not.
CallsDoNotMatter ==
    LET n == 2 * BitsPerByte * dmc.period
    IN  call = Idle =>
            \A k \in 1..(n - 1) : DmcRun(DmcRun(dmc, k), n - k) = DmcRun(dmc, n)

\* Time frames have no effect: on the absolute clock the sequencer is the one
\* FrameSequence describes.
Sequence == INSTANCE FrameSequence WITH
    Period <- frame_period,
    now    <- base + last_time,
    due    <- base + last_time + frame_delay,
    step   <- frame,
    long   <- mode1,
    asked  <- irq_on,
    flag   <- irq_flag

FramesDoNotMatter == Sequence!Spec
=============================================================================
