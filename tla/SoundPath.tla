----------------------------- MODULE SoundPath ------------------------------
(***************************************************************************)
(* The way of a sound from an oscillator to Sound_Queue::write: Nes_Apu    *)
(* runs the oscillator in pieces, up to each register access, each step of *)
(* the frame sequencer and the end of each time frame (Simple_Apu and      *)
(* Nes_Apu::end_frame); its changes of amplitude go to a Blip_Buffer, from *)
(* which the main loop reads the samples of each frame.                    *)
(*                                                                         *)
(* Positions in the buffer are fixed-point numbers of samples, of which    *)
(* Unit is one.  The impulses of Blip_Synth, made with floating-point      *)
(* arithmetic, are a constant.  One oscillator plays: several add up.      *)
(***************************************************************************)
EXTENDS Waves, FiniteSets

CONSTANTS
    Voices,         \* subset of {"square", "triangle", "noise", "dmc"}
    Settings(_),    \* what the registers of a voice may ask for
    FrameLength,    \* 29780, initial Simple_Apu::frame_length
    Dacs,           \* what is written to the level of the sample player
    SlowestDmc,     \* 0x1ac, the period it has after reset
    Gaps,           \* cycles from one piece to the next
    Late,           \* 4, by which an access may be late for its time frame
    SampleRate,     \* 44100
    ClockRate,      \* 1789773
    Msec,           \* 250, length of the buffer
    Unit,           \* 2^16
    MaxQuality,     \* 32, room for impulses
    HalfWidth,      \* 6 for squares, else 4
    Impulse(_, _),  \* what a change at a fraction of a sample adds to a cell
    bass_shift,     \* 9 at the rates of the program
    delta_bits,     \* 14
    Peak,           \* 0x7fff
    MaxRead,        \* 2048, size of buf in Nes::main_loop
    MaxChanges,     \* bound: changes of registers
    MaxFrames       \* bound: time frames

\* Blip_Buffer::clock_rate_factor, set_sample_rate and the extra cells.
Factor == (2 * SampleRate * Unit + ClockRate) \div (2 * ClockRate)
BufferSize == (SampleRate * (Msec + 1) + 999) \div 1000
Extra == MaxQuality + 2
Center == MaxQuality \div 2

Taps == (-HalfWidth)..(HalfWidth - 1)
Cells == 0..(BufferSize + Extra - 1)

\* Accesses are late by at most Late, as FrameLoop's TypeOK shows.
MaxTime == FrameLength + Late

ASSUME SoundAssumption ==
    /\ Voices \subseteq {"square", "triangle", "noise", "dmc"}
    /\ Gaps \subseteq Nat /\ Dacs \subseteq 0..MaxDac
    /\ FrameLength \in Nat \ {0} /\ FrameLength % 2 = 0 /\ Late \in Nat \ {0}
    /\ {SampleRate, ClockRate, Msec, Unit, MaxQuality, HalfWidth, Peak,
        MaxRead} \subseteq Nat \ {0}
    /\ {bass_shift, delta_bits, MaxChanges, MaxFrames} \subseteq Nat
    /\ HalfWidth <= Center

\* The values registers may hold, and what is made of them.
SettingType(v) ==
    CASE v = "square"   -> [period : Nat, shift : Nat, negate : BOOLEAN,
                            volume : Nat, duty : 0..3]
      [] v = "triangle" -> [period : Nat, on : BOOLEAN]
      [] v = "noise"    -> [period : Nat \ {0}, volume : Nat, short : BOOLEAN]
      [] v = "dmc"      -> [period : Nat \ {0}, loop : BOOLEAN, sample : Nat \ {0}]

ASSUME VoiceAssumption ==
    /\ \A v \in Voices : Settings(v) \subseteq SettingType(v)
    /\ {TriangleRange, MinTimer, SlowestDmc, 2^ModeBit, 2^bass_shift} \subseteq Nat \ {0}
    /\ 2^NoiseTop \in Nat \ {0} /\ 2^NoiseTop % 2 = 0
    /\ MaxDac \in Nat /\ dmc_table \in [0..MaxDac -> Int]
    /\ \A fraction \in 0..(Unit - 1), tap \in Taps : Impulse(fraction, tap) \in Int

\* The rates are such that a time frame makes sample after sample, fewer than
\* the main loop has room for, and fits into the buffer; and what changes behind
\* the end of a frame reaches no further than the extra cells.
ASSUME RateAssumption ==
    /\ Factor \in Nat
    /\ (FrameLength + 1) * Factor < MaxRead * Unit
    /\ MaxTime * Factor + Unit <= BufferSize * Unit
    /\ Late * Factor <= 2 * Unit

VARIABLES
    voice, setting, \* which oscillator, and what its registers ask for
    osc,            \* its state, see Waves
    frame_length, last_time,
    stage,          \* "run", or "read" when a frame's samples are to be read
    offset,         \* Blip_Buffer::offset_
    buffer,         \* Blip_Buffer::buffer_
    reader_accum,
    base,           \* history: time frames before this one
    changes,        \* history: what was passed to Blip_Synth, by cycle
    taken,          \* history: samples passed to Sound_Queue::write
    heard,          \* Nes::main_loop's buf: those of the last frame
    writes, frames  \* history: what the bounds count

apuVars == <<voice, setting, osc, frame_length, last_time>>
bufVars == <<offset, buffer, reader_accum>>
pathVars == <<apuVars, stage, bufVars, base, changes, taken, heard, writes, frames>>

LastClock == MaxFrames * (FrameLength + 1) + Late

\* What the registers hold after Nes_Apu::reset.
ResetSetting(v) ==
    CASE v = "square"   -> [period |-> 0, shift |-> 0, negate |-> FALSE,
                            volume |-> 0, duty |-> 0]
      [] v = "triangle" -> [period |-> 0, on |-> FALSE]
      [] v = "noise"    -> [period |-> 4, volume |-> 0, short |-> FALSE]
      [] v = "dmc"      -> [period |-> SlowestDmc, loop |-> FALSE, sample |-> 1]

ResetOsc(v) ==
    CASE v = "square"   -> [phase |-> SquareRange - 1, delay |-> 0, last_amp |-> 0]
      [] v = "triangle" -> [phase |-> 1, delay |-> 0, last_amp |-> TriangleRange - 1]
      [] v = "noise"    -> [phase |-> 2^NoiseTop, delay |-> 0, last_amp |-> 0]
      [] v = "dmc"      -> [dac |-> 0, bits |-> 1, silence |-> TRUE, full |-> FALSE,
                            len |-> 0, delay |-> 0, last_amp |-> 0]

\* After Simple_Apu::sample_rate.
PathInit ==
    /\ voice \in Voices /\ setting = ResetSetting(voice) /\ osc = ResetOsc(voice)
    /\ frame_length = FrameLength /\ last_time = 0 /\ stage = "run"
    /\ offset = 0 /\ buffer = [i \in Cells |-> 0] /\ reader_accum = 0
    /\ base = 0 /\ changes = [c \in 0..LastClock |-> 0]
    /\ taken = 0 /\ heard = <<>> /\ writes = 0 /\ frames = 0

samples_avail == offset \div Unit

-----------------------------------------------------------------------------
(* Faulty variants of definitions below, substituted for them to see that  *)
(* the properties notice the slip; the specification does not use them.    *)

OffsetRounded(at, t) == at + Unit * ((t * Factor) \div Unit)
OffsetKept(count) == offset
RemainNoRoom(count) == samples_avail - count

-----------------------------------------------------------------------------
(* Nes_Apu::run_until_ and Blip_Synth::offset.                             *)

Run(time, end) ==
    CASE voice = "square"   -> SquareRun(osc, setting, time, end)
      [] voice = "triangle" -> TriangleRun(osc, setting, time, end)
      [] voice = "noise"    -> NoiseRun(osc, setting, time, end)
      [] voice = "dmc"      -> DmcWave(osc, setting, time, end)

to_fixed(t) == t * Factor + offset

Weight(fraction, tap) ==
    IF tap \in Taps THEN Impulse(fraction, tap) ELSE 0

\* A change at a time is spread over the cells around its place.
Spread(buf, change) ==
    LET at     == to_fixed(change[1])
        center == Center + (at \div Unit)
    IN  [i \in Cells |-> buf[i] + change[2] * Weight(at % Unit, i - center)]

Noted(log, change) == [log EXCEPT ![base + change[1]] = @ + change[2]]

RunUntil(end) ==
    LET run == Run(last_time, end)
    IN  /\ osc' = run.osc
        /\ buffer' = FoldLeft(Spread, buffer, run.out)
        /\ changes' = FoldLeft(Noted, changes, run.out)

\* A step of the sequencer, or an access that does not concern this voice.  A
\* step may be due at once, and the piece before it has no cycles; the player
\* is not run in pieces.
Piece ==
    /\ stage = "run" /\ frames < MaxFrames
    /\ \E gap \in Gaps :
          /\ last_time + gap <= MaxTime /\ last_time' = last_time + gap
          /\ voice = "dmc" => gap > 0
          /\ RunUntil(last_time + gap)
    /\ UNCHANGED <<voice, setting, frame_length, stage, offset, reader_accum,
                   base, taken, heard, writes, frames>>

\* What a register may do to the oscillator besides: a square is triggered, the
\* player started, stopped or set to a level.
Written(o, g) ==
    CASE voice = "square" -> {o, [o EXCEPT !.phase = SquareRange - 1]}
      [] voice = "dmc"    ->
            {o, [o EXCEPT !.len = 0]} \cup {[o EXCEPT !.dac = d] : d \in Dacs}
              \cup (IF o.len = 0 THEN {Started(o, g)} ELSE {})
      [] OTHER            -> {o}

\* The oscillator runs, and then what its registers ask for changes, by writes
\* or by the sequencer; at the time of the last access it does not run.
WriteRegister ==
    /\ stage = "run" /\ frames < MaxFrames /\ writes < MaxChanges
    /\ setting' \in Settings(voice)
    /\ \E gap \in Gaps :
          LET run == IF gap = 0 THEN [osc |-> osc, out |-> <<>>]
                                ELSE Run(last_time, last_time + gap)
          IN  /\ last_time + gap <= MaxTime /\ last_time' = last_time + gap
              /\ osc' \in Written(run.osc, setting')
              /\ buffer' = FoldLeft(Spread, buffer, run.out)
              /\ changes' = FoldLeft(Noted, changes, run.out)
    /\ writes' = writes + 1
    /\ UNCHANGED <<voice, frame_length, stage, offset, reader_accum,
                   base, taken, heard, frames>>

-----------------------------------------------------------------------------
(* Simple_Apu::end_frame: Nes_Apu::end_frame, then Blip_Buffer::end_frame. *)

FlipLowBit(n) == IF n % 2 = 0 THEN n + 1 ELSE n - 1

OffsetOfFrame(at, t) == at + t * Factor

EndFrame ==
    LET end == FlipLowBit(frame_length)
    IN  /\ stage = "run" /\ frames < MaxFrames
        /\ frame_length' = end
        /\ IF end > last_time
           THEN RunUntil(end) /\ last_time' = 0
           ELSE UNCHANGED <<osc, buffer, changes>> /\ last_time' = last_time - end
        /\ offset' = OffsetOfFrame(offset, end)
        /\ base' = base + end
        /\ stage' = "read" /\ frames' = frames + 1
        /\ UNCHANGED <<voice, setting, reader_accum, taken, heard, writes>>

-----------------------------------------------------------------------------
(* Blip_Buffer::read_samples and remove_samples.                           *)

ReadCount == IF samples_avail > MaxRead THEN MaxRead ELSE samples_avail

Clamp(s) == IF s > Peak THEN Peak ELSE IF s < -Peak - 1 THEN -Peak - 1 ELSE s

\* The sum before each sample and after the last: it leaks a part, so that no
\* constant level stays, and takes the cell.
Sums(n) ==
    LET sum[i \in 0..n] ==
            IF i = 0 THEN reader_accum
            ELSE sum[i - 1] - (sum[i - 1] \div 2^bass_shift) + buffer[i - 1]
    IN  sum

\* The cells that hold anything yet to be read, the room for impulses included.
Remain(count) == samples_avail - count + Extra

\* They move to the beginning, and as many cells as were read are cleared
\* behind them.
Removed(count) ==
    [i \in Cells |-> IF i < Remain(count) THEN buffer[i + count]
                     ELSE IF i < Remain(count) + count THEN 0 ELSE buffer[i]]

\* Blip_Buffer::remove_silence.
OffsetAfter(count) == offset - count * Unit

ReadSamples ==
    LET count == ReadCount
        sums  == Sums(count)
    IN  /\ stage = "read" /\ stage' = "run"
        /\ heard' = [i \in 1..count |-> Clamp(sums[i - 1] \div 2^delta_bits)]
        /\ taken' = taken + count
        /\ reader_accum' = sums[count]
        /\ buffer' = Removed(count)
        /\ offset' = OffsetAfter(count)
        /\ UNCHANGED <<apuVars, base, changes, writes, frames>>

\* The bound on time frames ends the run.
Done == stage = "run" /\ frames = MaxFrames /\ UNCHANGED pathVars

PathNext == Piece \/ WriteRegister \/ EndFrame \/ ReadSamples \/ Done

PathSpec == PathInit /\ [][PathNext]_pathVars

-----------------------------------------------------------------------------
(* Properties.                                                             *)

\* Blip_Buffer::delta_at asserts that a change has a place in the buffer, and
\* end_frame that the samples have: so has every time up to the present, an
\* access behind the end of its time frame included.
PositionsInBuffer ==
    /\ to_fixed(last_time) \div Unit < BufferSize
    /\ samples_avail <= BufferSize

\* Although the rate is no whole number and frames alternate in length, no
\* part of a sample is lost or gained, however long the sound goes on; and
\* buf is large enough to take all samples of a frame.
NoDrift ==
    /\ taken * Unit + offset = base * Factor
    /\ stage = "run" => offset < Unit

\* What is heard is what the oscillator would have played cycle by cycle,
\* wherever its run is cut by accesses and frames, and wherever the samples
\* are read.
Phase ==
    IF voice = "dmc"
    THEN [dac |-> osc.dac, bit |-> BitsPerByte - osc.bits, on |-> ~osc.silence,
          bytes |-> osc.len + (IF osc.full THEN 1 ELSE 0)]
    ELSE osc.phase

Whole == INSTANCE Sound WITH
    Rate     <- Factor,
    Latency  <- Center,
    Impulse  <- Weight,
    Leak     <- bass_shift,
    Sample   <- LAMBDA s : Clamp(s \div 2^delta_bits),
    Quiet    <- min_period,
    Highest  <- MaxPeriod,
    Slope    <- TriangleRange,
    Shortest <- MinTimer,
    Top      <- NoiseTop,
    Tap      <- ModeBit,
    Loudest  <- MaxDac,
    Stride   <- DacStep,
    Loudness <- dmc_table,
    Bits     <- BitsPerByte,
    Data     <- DmcByte,
    clock    <- base + last_time,
    phase    <- Phase,
    timer    <- osc.delay,
    level    <- osc.last_amp,
    sum      <- reader_accum

SoundSpec == Whole!Spec
=============================================================================
