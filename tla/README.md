# A TLA+ model of Famicom-cpp

Famicom-cpp is a NES emulator in C++ with SDL. This directory holds TLA+ modules
that model its core, the TLC configurations that check them on small instances,
and proofs, checked by TLAPS, of the theorems that hold for every instance.
Paths below are relative to `src/NES/`.

- [The system](#the-system): components, state, operations, interaction
- [Modules](#modules): which module models what, and how it corresponds to the code
- [Runs](#runs): what TLC checks, with which bounds, and what it shows
- [Fairness](#fairness)
- [Proofs](#proofs): what TLAPS proves, from what, along which argument
- [A disagreement with the code](#a-disagreement-with-the-code)
- [Not modelled](#not-modelled) and [Plan](#plan)

To check a run: `tlc -config FrameLoop.cfg MCFrameLoop`. To check the proofs:
`tlapm FrameLoopProofs.tla`.

## The system

One thread runs `Nes::main_loop`. Its inner loop makes one CPU step, lets the
PPU catch up with the cycles of that step, and ends when a frame is complete;
then the frame and its sound are passed to SDL and key events are polled. The
second thread is SDL's audio thread, which calls `Sound_Queue::fill_buffer`.

| Component | State | Operations | Meets |
| --- | --- | --- | --- |
| Main loop and frame timing (`nes.cpp`, `Ppu::run`, `Cpu::run`, `irq.h`, `apu/Simple_Apu`) | `cpuclock`, `ppux`, `line`, `nmi`, status flags, `imgok`, `imgidx`, the APU's `time`, `frame_length`, `last_time` | a CPU step; one line of the PPU; end of `Ppu::run`; showing a frame | every other component |
| CPU (`cpu.cpp`, `cpu.h`) | registers, flags, RAM, cycles of the step | reset, 256 opcodes, NMI | the address space; PPU through `Irq::nmi` |
| Address space (`mem.cpp`) | RAM | `get`, `set` | dispatches to PPU ports, controllers, DMA, APU, cartridge |
| PPU ports and scrolling (`ppu_port.cpp`, `ppu.cpp`) | `ppu_addr`, `ppu_addr_buffer`, `h_scroll_val`, two toggles, `vram`, `palette` | writes and reads of eight ports; a line; the vertical blank; the end of a frame | CPU writes between any two lines |
| PPU lines and sprites (`ppu.cpp`) | two line buffers, `sprite_zero`, flags | evaluation of a line; search for sprite 0 | switched by `regs[1]`, read through the status |
| Sprite memory and DMA (`ppu_port.cpp`, `dma.h`) | `sprite_ram`, its address `regs[3]`, a flag | a byte stored through the port; copy of 256 bytes | CPU RAM; the lines being drawn |
| Controllers (`io.h`, `nes.cpp`) | `pad`, `ctrlstat`, `latchstate`, `ctrllatched` | key events; strobe; serial reads; the latching by the main loop | SDL's events, the emulated program |
| Sound queue (`apu/Sound_Queue.cpp`) | `bufs`, `free_sem`, `write_buf`, `write_pos`, `read_buf` | `init`, `write`, `fill_buffer`, `sample_count` | main thread and audio thread |
| APU sequencer (`apu/Nes_Apu.cpp`) | `last_time`, `frame_delay`, `frame`, `frame_mode`, IRQ state | register writes, status reads, `end_frame` | the main loop's frames |
| Oscillators (`apu/Nes_Oscs.cpp`) | length counters, envelopes, sweeps, the sample player's buffer and interrupt; timer, phase and last amplitude of each | clocking; playing a sample; running a waveform for some cycles | the sequencer, which clocks and runs them; the sample player calls back into it; `Blip_Synth`, which takes their changes |
| Sample synthesis (`apu/Blip_Buffer.cpp`, `apu/Simple_Apu.cpp`) | `offset_`, `buffer_`, `reader_accum` | a change of amplitude; end of a time frame; reading samples | the oscillators, and the main loop, which passes the samples on to the sound queue |
| ROM loader, mapper 0 (`rom.cpp`, `mapper0.cpp`, `Ppu::start`) | page counts, pages, `roms`, `vrams` | reading one file before the loop; laying out the picture's memory | Cpu reads, PPU patterns and name tables |

### What is hard, and what makes each part correct

- **Clocks.** Three clocks have to agree: the CPU's cycles, the beam's dots, and
  the APU's own estimate of time, which counts four cycles per register write.
  Correct means that no dot is lost, that a frame has every pixel and the array
  is not overrun, that an NMI is neither lost nor late, that sprite flags do not
  outlive their picture, that frames keep coming, and that the APU's time never
  runs backwards (an assertion of `Nes_Apu::run_until_`).
- **Two threads, one semaphore.** The two `memcpy` of the sound queue have no
  lock. Correct means that they never meet in a block, that every block is heard
  once, whole and in order, and that neither thread waits forever.
- **Latching by polling.** Controllers are latched by the main loop before each
  instruction, not by the write of the strobe; key events arrive only between
  frames. One instruction may read a port and lower the strobe, with no latching
  between. Correct means that eight reads return one snapshot, those of such an
  instruction included, and that no press is forgotten.
- **Interrupts anywhere.** Correct means that every return finds what was
  pushed, in nested handlers too, and that a program with a well-behaved handler
  cannot tell that it was interrupted.
- **Widths.** Registers of 8 and 16 bits are computed with in wider types.
- **Mid-frame writes.** Scroll ports share a buffer and two toggles and may be
  written between any two lines. Correct means that each line shows the row
  below the last one, from what was asked for.
- **Lazy sound.** The APU is run only when it is accessed, up to the time of the
  access, and its times are moved at the end of every frame. Correct means that
  steps, samples and interrupts come at the same time however it is run, and
  that one hears what oscillators counting cycle by cycle would have played:
  each change of level once, at its cycle, across the seams of pieces, frames
  and reads.
- **Fixed-point time.** Cycles become samples by a factor that is no whole
  number, in frames of two lengths. Correct means that sound and picture do not
  drift apart and that no change falls outside the buffer.
- **Sprites.** Overlaps and limits are decided by the order of one loop; the hit
  of sprite 0 is searched piecewise between CPU steps. Correct means that the
  first opaque sprite wins, and that no hit is missed or early, although the
  sprite memory may be stored to in the middle of a line.

## Modules

| Module | Kind | Models |
| --- | --- | --- |
| `BeamClock` | abstract | what the emulated program may expect of frames and NMIs |
| `FrameLoop` | component | `Nes::main_loop` with `Cpu::run`, `Ppu::run`, `Irq`, `Simple_Apu` time |
| `AudioStream` | abstract | what the audio device may expect of the queue |
| `SoundQueue` | component | `Sound_Queue` on its two threads |
| `ControllerPort` | abstract | what the emulated program may expect of the pads |
| `Controller` | component | key events, `Io`, ports 0x4016 and 0x4017 |
| `Bytes`, `Opcodes`, `Mem` | operators | 8 and 16 bit values; the opcode table; the address space |
| `Cpu` | component | `Cpu::run`: every opcode, addressing mode, cycle count and NMI |
| `ScrollPlane` | abstract | scrolling over the plane of four name tables |
| `PpuPort` | component | `ppu_port.cpp` and the address counter |
| `Background` | operators on `PpuPort` | `Ppu::build_bg_line`: tiles, attributes and pixels of a line |
| `PpuLine` | component | `Ppu::build_sp_line`, the search for sprite 0, the sprite memory with its port and `Dma` |
| `Cartridge` | component | `Rom`, `Mapper0`, the pages of `Ppu` and its name tables |
| `FrameSequence` | abstract | the frame sequencer on a clock without time frames |
| `Oscillators` | operators | the counters of the oscillators and the sample player |
| `Sequencer` | component | `Nes_Apu`: register writes, the lazy run, interrupts, `end_frame` |
| `Waves` | operators on `Oscillators` | the `run` functions of the four kinds of oscillator |
| `Sound` | abstract | an oscillator counting cycle by cycle, and the samples one should hear of it |
| `SoundPath` | component, composes `Waves` with the buffer | pieces of a run, `Simple_Apu::end_frame`, `Blip_Buffer` and the read of the main loop |
| `FrameLoopProofs`, `SoundProofs`, `ControllerProofs`, `CpuProofs`, `PpuPortProofs`, `PpuLineProofs`, `SequencerProofs`, `CartridgeProofs` | proofs | theorems about the components; `SoundProofs` has those of `SoundQueue` and of `SoundPath` |
| `MC...` | instances | constants and small programs for TLC |

Definitions keep the names of the source where there is one. Each module has a
short section of *faulty variants*: `FreeAlways` is what `Free` might be after a
slip of the programmer. The specifications do not use them; substituting one for
its original shows that a property notices the slip.

### FrameLoop

`CpuRun` is one round of the inner loop up to the `while` of `Ppu::run`: a
pending NMI is answered (`nmi`), the instruction costs cycles and may read the
status, write one of the registers that steer the loop, or a sound register
(`time`, `last_time`); the beam advances three dots per cycle. `LineStep` is one
iteration of that `while`, with `RenderFrame`, `InVBlank`, `PostRender` or
`BlankLine` as its body. `FinishRun` is the search for sprite 0 and
`clear_cpucycle`. `Show` is the rest of `main_loop`: `clear_img`,
`Simple_Apu::end_frame`, and events, one of which may close the window.

Instructions are reduced to their cost and their effect on registers that
matter here; which sprites lie on a line is a free choice. `CostAssumption` and
`ClockAssumption` say what the loop needs of instructions: a step with its NMI
is shorter than a line, and a register write takes at least four cycles.
`Cpu`'s `StepFitsLoop` says that the opcodes deliver this: a step takes 2 to 8
cycles, writes at most one register, and then at least 4. It is proved for every
program (`StepsFitLoop`).

The mapping to `BeamClock` is `beam <- line * DotsPerLine + ppux`. It makes the
order of events exact: the vertical blank and the end of a frame are handled
before another instruction runs.

### SoundQueue

One action per sample copied, on either side, so that the two `memcpy` overlap
in every way. `wpc` and `rpc` say where the threads are. A sample is a pair of
its block's number and its offset, which tells lost, repeated and mixed blocks
apart. `EndChunk` moves `write_buf` on before `SemWait` takes the slot, as the
code does. The semaphore orders the memory accesses of the two threads. In
`AudioStream` blocks are filled, published and played in order; the mapping
takes the block counters of the model, which are history variables, and the
samples heard.

### Controller

A byte is the set of its one bits. `StartRound` is the latching at the start of
a round of the inner loop (`hdCtrlLatch`); what `Cpu::run` then does with the
ports are steps of their own, `ReadPort`, `WriteStrobe` and `EndInstruction`. So
an instruction that reads 0x4016, changes the byte and writes it back (INC, DEC,
the shifts and rotations, and the undocumented ones made of them) reads the
latch and sets the strobe with no latching between. `ReadsOfOne` has every number
of reads one instruction can make: as JMP (0x4016) takes its two bytes from
both ports, and an instruction executed in the ports themselves is RTI or
EOR (n,X), the bytes there being 0x40 and 0x41, it is three at most. It allows
two orders of three reads, 2-1-1 and 2-1-2, that no instruction has. A write to
the strobe is the last access of its instruction. `EndFrame` is the round that
finds a frame complete, and latches too. Events are polled one by one. The player
presses, repeats and releases keys, and SDL's queue is bounded.

`instr` counts the reads of the instruction being executed. `snapshot`, `reads`
and `answer` are history variables: the pads when the strobe fell, how often a
port was read since, and what it answered. `reads` begins with what the
instruction that lowered the strobe had read itself: after LSR of 0x4016, with the
strobe high, the first read returns the second button, and `ControllerPort`
says so. It also says that the player changes nothing within an instruction.

### Cpu, Opcodes, Mem, Bytes

The state is a record `st`; an instruction is a function on it, composed as in
`Cpu::run`: NMI, fetch, opcode table, address, execution. `Opcodes` is the table
of `create_opcodes`. Devices are reduced to `input`, the byte a device read
returns, and to `bus`, the record of the device registers a step accesses as
data. Code or pointers fetched from device registers read `input` as well, one
value for the whole step, but are not recorded: what `StepFitsLoop` says of reads is
about data, what it says of writes about all of them. Alternating
turns `Run` and `PpuRun` mirror the inner loop; `PpuRun` may ask for an NMI at
any step, which covers every schedule the PPU could produce. The code of the IRQ
is left out because nothing in the program raises one.

Two history variables serve `ReturnsMatch`. `calls` holds a frame for everything
the program will have to return to: the registers, and the stack above. `obeys`
says whether the program has used the stack as a stack so far (`Obeys`): it
does not let it wrap, returns with the instruction that fits the newest frame and with
`sp` at its end, leaves an interrupt's handler with the registers it found, and changes
no byte of a frame otherwise. The processor enforces none of that, and without it a
return goes anywhere; that the program of the run does obey is part of
`ProgramUndisturbed`.

### PpuPort

Addresses are numbers with fields; masks and shifts of the code become
replacements of fields, except where the width matters (16 bits of `ppu_addr`).
`RenderLine`, `InVBlank`, `BlankLine` and `PostRender` are what a line does to
the address counter. `vram` holds the cells written so far. `h_scroll_val`,
the toggles, the read buffer and the palette are all kept. `ScrollPlane` knows
nothing of fields: a row is a number from 0 to 511, with 239 followed by the
other table and 255 by the same one.

`Background` adds no state: `TilesFrom` is the walk over the 33 tiles of a line
as a recursive function, `BgPixel` one element of `bg_line_buffer`.
`PlanePixel` is the reference, straight from the pixel's coordinates in the
plane; `BackgroundExact` compares the two in every state, for the line that
would be drawn next. That `build_bg` may blank the
left columns is left out.

### PpuLine

`LineAfter` is the loop over the sprites as a recursive function; `sprites` on
a line are limited by `PerLine`. A tile is the set of its opaque columns, a
colour is who put it there. `WriteCtrl1` and `ReadStatus` are CPU steps that
switch layers and clipping or read and clear the flags, between any two
searches. `told` is a history variable: the program was told of a hit since the
line began. The number of sprites (63: the loop ends before the last one) and
the limit of 8 are constants, small in the run.

`sprite_ram` may change between any two searches: `WriteSpriteAddr` and
`WriteSpriteData` are the two ports, one of the four fields of a sprite per
store, with an address that goes on and wraps; `Dma` replaces all sprites,
whatever the address is. The line buffers keep what was drawn, so that the properties relate
the sprites of the time a line was drawn to a hit found later.

### Cartridge

A byte of the file is its own offset, so that a byte in memory tells where it
came from; a page is a function, empty where the code has a null pointer of
length 0. `ParseHeader`, `create_pages`, `set_prgrom_page` and
`set_chr_rom_page` are the steps of `Mapper0::set_rom`. The page counts are not
initialised in the code: here they start as any value of `Garbage`, and a file
without the right header leaves them so. Where the code would divide by zero or
read behind its arrays the model ends in the stage `undefined`, of which nothing
is claimed.

`start` is `Ppu::start`. It first puts the mirroring of the header into a
bit-field of one bit (`int screen_mirroring : HORIZONTAL` in `ppu.h`), which with
the usual signed bit-fields holds 0 or -1 (`BitField`). So `HORIZONTAL` is found to
be neither vertical nor horizontal and takes the order 0-1-2-3 meant for four
screens, `FOUR_SCREEN` takes that of `VERTICAL`, and 0-0-1-1 is never taken
(`TableOrder`). None of this is seen in the memory: `init_mirrors` copies pages of
`vrams`, which nobody ever writes, once and before the program runs, so that the
four tables begin cleared and are separate memories whatever the header says.
`WriteCell` is the program's use of that memory. `PictureInPlace` says nothing
of mirroring; it has patterns and tables as they are, each cell at one address.

### Sequencer, Oscillators

An access is two or more steps: `Access` (or `EndAsked`) is the beginning of
`run_until_`, in which the sample player catches up; `FrameStep` is one turn of
its loop; then the action of the register, of `read_status` or of `end_frame`
arrives at the time of the call and does its work. `call` is the access being
served. A step due at exactly the time of a call is left to the next call, as in
the code. The registers are kept as what they mean: `osc` and `dmc` are records
of counters and settings. `DmcRun` plays bit by bit in a recursive function, or
all at once when there is nothing to play (`SkipBits`), as the code does. A write
to registers of which only waveforms depend is `WriteOther`. `base`, the sum
of the time frames, and `halves`, the times the lengths were clocked, are history
variables. The mapping to `FrameSequence` is `now <- base + last_time`. Calls
come in the order of their times, which is what `FrameLoop`'s
`ApuClockOrdered` shows of the program.

### Waves, Sound, SoundPath

`Waves` has one operator for each kind of oscillator. Given its state, what its
registers ask for and the two times of a run, it returns the new state and the
changes of amplitude passed to `Blip_Synth`. The loops of the code are folds
over the expiries of the timer; their tricks (toggling by `delta`, the
triangle's slopes, the noise's amplitude from two neighbouring bits) are kept,
as they are what may go wrong at a seam. The sample player takes its bits from
`Oscillators`; all bytes of a sample are the same, which is what
`null_dmc_reader` gives in a program that sets no reader.

In `SoundPath` one oscillator plays. `Piece` is a run up to a step of the
sequencer or an access to another voice; `WriteRegister` runs up to its time and
changes the setting, and may trigger a square, start or stop the player or set
its level. Both may come at the time of the last access (a gap of 0): a step of
the sequencer then still runs the square, triangle and noise for no cycles, and
an access runs nothing, as `run_until_` has it. `EndFrame` is `Nes_Apu::end_frame` followed by
`Blip_Buffer::end_frame`, `ReadSamples` what the main loop takes of it. The
positions are fixed-point numbers as in the code. The table of impulses, which
the code computes with floating-point arithmetic, is the constant `Impulse`.
`base`, `changes` and `taken` are history variables.

`Sound` knows no pieces and no frames. Its clock counts single cycles, a timer
that expires moves the voice along its waveform, and each change of level is
noted at its cycle. A sample is what all the changes near it add to a leaking
sum, played only when everything it carries is known. `Settle` allows a new
setting to take effect at once. The mapping reads the clock off as `base +
last_time`. One approximation of the code shows in `Jumps`: a silent noise
shuffles its register once per run and not once per period, so that its phase
then depends on where runs are cut; `Sound` leaves it open.

## Runs

| Run | Checks | Question |
| --- | --- | --- |
| `FrameLoop` | `IInv`, `FrameComplete`, `NmiSeesVBlank`, `SpriteFlagsEndWithPicture`, `BeamSpec`, `FramesKeepComing` | pixels, flags, NMIs and clocks under any mid-frame access; the loop implements `BeamClock` and never hangs |
| `FrameReal` | `ApuClockOrdered` | the two clocks with 341 dots, 262 lines and 29780 cycles |
| `SoundQueue` | `QInv`, `NoOverlap`, `SampleCountExact`, `StreamSpec`, `WriteReturns`, `BlocksPlayed` | the two threads and their semaphore |
| `SoundQueueClosed` | `WriteReturns` (violated) | the queue without an audio device |
| `Controller` | `LatchInv`, `PadFollowsKeys`, `PortSpec`, `KeySeen` | player, latch and program in any order, instructions with several accesses included |
| `CpuStep` | `TypeOK`, `StepFitsLoop`, `ArithmeticExact` | all opcodes from many states |
| `CpuProgram` | `ProgramUndisturbed`, `ReturnsMatch` | a program interrupted anywhere |
| `PpuPort` | `TypeOK`, `ScrollExact`, `BackgroundExact` | port accesses between any lines, and the pixels drawn |
| `PpuLine` | `SpritesInOrder`, `HitNotMissed`, `HitNotEarly` | overlapping sprites, sprite 0, stores in the middle of a line |
| `Sequencer` | `TypeOK`, `LengthOnlyEnabled`, `CallsDoNotMatter`, `DmcIrqOnTime`, `FramesDoNotMatter` | accesses and time frames in any order |
| `SoundPath` | `PositionsInBuffer`, `NoDrift`, `SoundSpec` | what is heard, however the run of an oscillator is cut |
| `Cartridge` | `ProgramInPlace`, `PictureInPlace`, `RefusedLeavesEmpty` | files, good and refused, loaded step by step, and the picture's memory |

Bounds, and why they are enough:

- `FrameLoop`: 34 dots per line. That is the shortest line that
  `CostAssumption` allows with instructions of 2 and 4 cycles and an NMI of 7, so that steps reach
  any part of any line and cross any line end. Six lines have every kind
  of line: before, in and after the visible ones, the vertical blank's first
  line and one within it. The frame length of the APU is as short as
  `ClockAssumption` allows, which is the case without margin.
- `FrameReal`: one instruction, a store to a sound register, which is the
  fastest a program can advance the APU's clock; every alignment of the frame
  with the instruction appears in the run.
- `SoundQueue`: three blocks as in the code, three samples per block, writes of
  1, 2 and 7 samples, so that a write ends inside a block, at its end, or spans
  several. `MaxBlocks` ends the audio after five blocks, more than once around
  the ring; the audio thread may call at any time.
- `Controller`: a key of the first bit and one of the last. `MaxQueue` is one
  event at a time, but events may be added while others are polled, so that any
  number of events meets one polling; `PadNeverLosesKey` is proved for every
  queue.
- `CpuStep`: every byte as opcode, with six register sets, four operands (PPU
  status, controller, across a page, a vector) and four contents of RAM; values
  at 0, 127, 128 and 255. One step (`MaxSteps`), as steps compose through the
  state alone.
- `CpuProgram`: 135 steps suffice for a program with a loop, a subroutine and a
  BRK to reach its end with two NMIs (`MaxNmis`) at any of its steps, so that
  the second may interrupt the handler of the first. Factors 3 and 200 set and
  clear carries.
- `PpuPort`: six accesses (`MaxAccesses`) are enough to write both scroll
  values twice with a read between, or an address and data; lines and frames
  go on without bound. Scroll values 238 and 255 lead over rows 239 and 255.
  The address bytes 0x23 and 0xbf reach the last cell of the row of tiles at
  238, next to the edge of the table, and the first attributes. Two tiles have
  patterns without symmetry. `Shown` has columns in the first two tiles, in
  the last two, and between.
- `PpuLine`: three sprites from four kinds, in all 64 ways, and a fourth one never
  looked at; two per line, two by two pixels, on a picture of
  five pixels and three lines of which one has a background. A sprite may be cut
  off at the edge, hidden by another, transparent in part, or not on the line;
  a third one exceeds the limit. One store (`MaxStores`) of a byte or a page,
  at any point of any line, is enough to make the buffers differ from the
  memory; the address 15 is that of the last byte, after which it wraps.
- `Cartridge`: pages of three and two bytes; one to three banks of program and none
  to two of patterns, so that one bank is seen twice, two in full, and of three
  the one between is not; counts never set may be zero, right, or too high; the
  three mirrorings, and one write (`MaxWrites`) to any cell of the picture's
  memory, which would show at any other address of the same cell.
- `SoundPath`: two frames of 11 and 10 cycles and five samples per eight cycles,
  so that the offset is no whole sample at either seam; impulses four cells wide,
  which cross it; pieces of no and three cycles (`Gaps`), which cut the time at
  any distance from an expiry as periods and frames are not multiples of three;
  an access up to two cycles late; two changes of a register
  (`MaxChanges`), enough to start a sound, let it run, and change or stop it at
  any later time. Levels pass the peak (`Clamp`). Noise registers of five bits
  and bytes of three go through every case of their steps.
- `Sequencer`: steps six cycles apart and time frames of 20 and 21, so that the
  seam of two frames meets every distance to the next step, early and late
  accesses included (`Late`), and a frame sees the whole sequence. Three accesses
  (`MaxCalls`) are enough to set up a sample with an interrupt and start it, or
  to make a square sweep past `MaxPeriod`; two frames (`MaxFrames`) let it run. Bytes
  have two bits and samples one or three bytes. Oscillators beyond `square1` and
  the sample player are clocked but not written: they share its code.

`SoundQueueClosed` sets `CHECK_DEADLOCK FALSE`: there the system really stops.

## Fairness

- `FrameLoop`: weak fairness of the whole next-state relation. One thread runs
  the loop and nothing inside it waits for anyone (the wait inside
  `Sound_Queue::write` is `SoundQueue`'s subject).
- `SoundQueue`: weak fairness of the main thread and of the audio thread, which
  SDL calls back periodically once the device is open. When the device could not
  be opened the audio thread has no step, and fairness asks for none.
- `Controller`: strong fairness of `EndFrame`, weak fairness of the end of an
  instruction and of polling. `EndFrame` is possible only between instructions,
  so that weak fairness would ask nothing of it; that of endless rounds one ends
  the frame, whatever the program does, is what `FrameLoop` shows
  (`FramesKeepComing`). An instruction makes a few accesses and ends; polling takes
  events out without waiting. No fairness is asked of the player.

## Proofs

All theorems are about the specifications as TLC checks them, with every
constant arbitrary under the named assumptions.

`FrameLoopProofs` rests on `LineAssumption`, `ImageAssumption`,
`CostAssumption`, `ClockAssumption` and `ProgramAssumption`. The invariant
`IInv` is inductive: the properties are not, since each depends on the beam
being caught up before the CPU runs. `IInv` adds that (`BeamInLine`), the exact
number of pixels for the line (`LinesDrawn`), that neither an NMI nor a finished
frame waits while a line is still owed, and a relation of the sound clock with
the beam, `3 * time <= line * DotsPerLine + ppux` with a bound for the line,
from which follows that the clock passes its frame by at most four cycles. From
it follow `TypeCorrect`, `FramesComplete`, `ApuClockNeverBack`,
`NmiFindsFlag` and `SpriteFlagsEnd`. `LoopKeepsBeam` is the refinement of
`BeamClock`, one lemma per action.

`SoundProofs` is about `SoundQueue` and about `SoundPath`; it extends both, which is
why `SoundPath` names its specification `PathSpec`. Its first part rests on
`QueueAssumption`. `QInv` relates the semaphore to
the distance of the two threads in blocks, the ring's slots to block numbers
(`SlotOf`), and the contents of every published block to its number.
`CopiesNeverOverlap` needs that two blocks less than a ring apart lie in
different slots (`SlotWalk`). `QueueImplementsStream` is the refinement of
`AudioStream`.

The second part rests on `SoundAssumption` and `RateAssumption`. The invariant
`SoundInv` adds to `NoDrift` the two lengths a frame may have, the range of the
time, and two bounds: `to_fixed(last_time) < MaxTime * Factor + Unit`, by which
no access, however late, comes behind the buffer, and one for the samples of a
frame about to be read, by which `buf` has room for all of them. The two need
each other over the seam of a frame. From it follow
`PositionsStayInBuffer` and `SoundNeverDrifts`. Products of two variables are
beyond the provers, so lemmas state the few facts needed of them (`Products`,
`WholeSamples`). `ProgramRates` shows that the program's own numbers, 44100 Hz,
a clock of 1789773 Hz, a buffer of 250 ms and frames of 29780 cycles, meet
`RateAssumption`: the factor is 1615, the buffer has 11070 samples, and a frame
makes fewer than 734, where `buf` has room for 2048.

The rest of `SoundProofs` is `SoundIsHeard`: `SoundPath` implements `Sound`, for
every voice, setting, rate, size of the buffer and timing of the accesses. It
rests on `VoiceAssumption` too, which says what registers hold and that the
tables hold numbers, and on the last part of `RateAssumption`: what an access
behind the end of a frame changes stays within two samples, so that the 18 extra
cells are enough. The argument has three parts.

- Both sides count the same expiries. A `Course` is the waveform of `Sound` and
  the changes up to each expiry of its timer. Playing cycle by cycle goes along
  it (`PlayedCourse`), and so does the loop of each oscillator with its tricks
  (`SquareRuns`, `TriangleRuns`, `NoiseRuns`, `DmcRuns`), in a run of any length,
  so that it does not matter where runs are cut (`RunsPlayed`; for runs of no
  cycles, `RunsSettled`). The loops are folds; a fold over a
  sequence is a chain of its steps by `FoldSegments`, and a function is defined
  by recursion in `RecursiveFunction`, both from `SetInduction`.
- The cells of the buffer hold what is heard of the changes from the first sample
  on that is not yet read (`Holds`, kept by `SpreadHolds`). Sums over sets of
  clocks do not depend on the order or on clocks without a change
  (`SumsAgree`).
- A read plays the samples of `Sound` (`SumsArePlayed`) and leaves cells that hold
  the rest (`ReadPlays`): what is moved to the beginning is what is still to be
  heard, and nothing that is dropped or cleared had a share in a later sample
  (`HeardBehind`).

The invariant `PathInv` joins the three: the cells hold what is heard, no
change lies in the future, and after the end of a frame the last access is
at most `Late` behind it. The refinement has one lemma per action
(`PieceSounds`, `WriteSounds`, `EndSounds`, `ReadPlays`).

`ControllerProofs` rests on `KeyAssumption`. `LatchInv` says that a latch is a
function of the snapshot and the number of reads while the strobe is low, and of
the pad and the instruction's own reads while it is high; where an instruction
that has read lowers the strobe, the second becomes the first.
`ControllerIsPort` is the refinement of `ControllerPort`. For `PadNeverLosesKey` the invariant `PadInv`
says which pad the queued events will leave: the keys held. Its statement
recurses over the queue. A recursion over numbers is reasoned about by an
induction over *sets* of numbers (`SetInduction`), which follows from the
library's theorem that a well-founded relation has minimal elements
(`WFMin`) and takes no operator as a parameter; from it come the existence of a
function defined by recursion (`RecursiveFunction`) and its equations
(`PlayedSteps`). The same few lemmas serve `PpuPortProofs`,
`PpuLineProofs` and `SequencerProofs`.

`PpuPortProofs` rests on `PortAssumption`. `TypeOK` is inductive and is all the
refinement needs. The work is in the address: `FieldsOf` says which fields make
it up, `FieldsRead` and `FieldsExist` that they do so in one way only, and a
lemma for each field that writing it leaves the others alone. From these
follows that a line moves by one row of the plane (`RowsBelow`) and that the
scroll port and the control register change only what was asked for, so that
the registers implement `ScrollPlane` (`ScrollIsExact`), for all bytes written
and any number of accesses, where the run has few of both. `BackgroundIsExact`
needs no more of a state than its types: the tile reached after `n` columns is
found by induction over the walk (`ReachedNext`), its place is that of the
pixel's coordinates (`PlanePoint`), and the quarter of an attribute byte
is the one both read. It holds for every content of the memory and every
column a configuration shows.

`CpuProofs` rests on `MemAssumption`, `InputsAssumption` and `StackAssumption`: the
cartridge and the devices answer with bytes, and the RAM has room for the
stack. The invariant
`CpuInv` is a typed machine (`Machine`) and an empty record of accesses before
a step. One lemma per group of instructions shows that it stays within the
machine's types, keeps its clock, and which accesses it adds (`ReadKeeps`,
`ModifyKeeps`, `RegisterKeeps`, `StackKeeps`, `BranchKeeps`, put together in
`ExecType`); `OperandIs` does the addressing modes. The opcode table enters by
`EntryFits` only, which `Table` proves of its 256 entries: the range of the
cycles, the modes a page penalty can follow, that branches take 2, and that an
instruction of less than 4 cycles stores to the zero page. From these follow
`TypeCorrect` and `StepsFitLoop`. `ArithmeticIsExact` compares sums and
differences with those of integers for all bytes (`SumExact`; subtraction adds
the complement), where the run has four values.

`ReturnsAreMatched` is about every program. `OwedInv` says of one that obeys that
every frame of `calls` is `Intact`, that is, the RAM holds the address, the flags
and the stack above as its return will need them, and that a newer frame lies
below all older ones (`Resumable`). The second part makes the first inductive:
a call or an interrupt stores below the newest frame and so below all
(`ResumableCalled`), and what the program does in between changes nothing
above its end (`ResumableKept`). That a return takes back exactly what was stored
needs that `setp` undoes `getp` bit by bit (`FlagsBack`) and that `RTS` adds what
`JSR` has subtracted, wrapped or not (`Rejoined`).

`PpuLineProofs` rests on `LineAssumption` and `OamAssumption`, the latter saying of
the constants only what the fields of a sprite are. `LineInv` has three parts.
`TypeOK` says that the buffers hold sprites or the marks of their kind. `BeamInv`
bounds the beam: a step ends at most one line, and when a line ends, the last search
has begun behind its pixels. `HitInv` says that the pixels that may hit are
those where the buffer shows sprite 0, and that without a hit, told of or not, the beam
has passed none of them; its bound differs between the two phases, because the
search comes after the step it belongs to. For `HitInv` at the start of a line one has to know what
`LineAfter` has drawn. `LineRight` says so of the first `n` sprites, by
induction over the loop: as many are counted as cover the line, up to one too many, and each
pixel shows the first opaque one of those that were drawn. `SpritesAreInOrder`
is that for all sprites, and sprite 0 in front of all others (`ZeroInFront`)
gives the rest. `LineInv` was checked as an invariant of the run's instance.

`SequencerProofs` rests on `SequencerAssumption` and `NoIrqAssumption`; the
latter says that the time announced for an interrupt stays below `no_irq`, which
stands for never: with frames of 29780 cycles and samples of 4081 bytes at 428
cycles per bit it is below 15 million, where `no_irq` is 2^30. The invariant
`SeqInv` has four parts. `TimeInv` says that outside of a call the sequencer and the
player have been run to the same time, and within one the player to the time of the
call; `ClockInv` has the types of the sequencer; `OscInv` those of the
oscillators, and that a length counts only in an enabled channel; `DmcInv` says that
the interrupt announced is the one the player would compute now. The run of the
player is a recursion over the bits it begins. `RunIs` shows that `DmcRun`, the
loop of the code with its shortcut for silence, has as its result the bits that
`BeginsRange` counts, and `CallsAreExact` that two runs in sequence begin as many
as one; `RanIrq` that the run in which the sample ends is the announced one
(`IrqComesOnTime`). `SequenceIsExact` is the refinement of `FrameSequence`, one
lemma per kind of action.

`CartridgeProofs` rests on `CartridgeAssumption`. `CartridgeInv` has three
parts: the shapes of the arrays of pages, what a refused file leaves, and what
each stage of an accepted one has put in place. The arithmetic of pages and
places within them is in two lemmas, `PageAndPlace` and `SmallRemainder`.
`ProgramStaysInPlace`, `PictureStaysInPlace` and `RefusedStaysEmpty` follow for
every number of banks that fits the arrays and every page size.

Only model-checked:

- Liveness (`FramesKeepComing`, `WriteReturns`, `BlocksPlayed`, `KeySeen`), which
  TLAPS does not treat.
- `ProgramUndisturbed`, which is about one program and its results.

## A disagreement with the code

`SoundQueueClosed` finds `WriteReturns` violated. `Nes::init` (`nes.cpp:45`)
ignores the result of `Sound_Queue::init`, which reports failure by its return
value (`apu/Sound_Queue.h:17`). When no audio device can be opened, nothing
posts the semaphore, and `main_loop` blocks in `SDL_SemWait`
(`apu/Sound_Queue.cpp:112`) as soon as the free blocks are filled, though `write` is
documented to block "until enough space is available"
(`apu/Sound_Queue.h:23`). The window then answers no event.

Not a run, as nothing calls the function: a step of the sequencer sets
`irq_flag` without `irq_changed` (`apu/Nes_Apu.cpp:188`), so that `earliest_irq`
goes on returning an announced time, three or four cycles after the step, where
`apu/Nes_Apu.h:65` promises `irq_waiting`.

## Not modelled

- Of the APU: PAL timing, `set_tempo` and save states; oscillators without an
  output; `run_until`, `count_dmc_reads`, `count_reads` and the notifier: the
  program does not use them.
- Of the synthesis: the computation of the impulses and of `bass_shift`, a design
  of filters with floating-point arithmetic, which are constants here; the sum of
  several oscillators, which adds up as each change is added to its cells on
  its own; `mix_samples`, `count_samples`, `count_clocks` and save states, which
  are not called.
- DMA from pages beyond the 2 KB of RAM: the code reads behind its array
  (`dma.h:14`).
- Files that cannot be opened, are shorter than their header says, or are too
  large for the page arrays: undefined behaviour before the loop starts.
- The colours of the screen (`PALLETE_TABLE`).
- The IRQ of the CPU: nothing raises it. The nestest mode and debug output:
  switched off in the source. Expansion sound chips and `Multi_Buffer`: not
  instantiated. SDL's window calls: no state of the emulator.
- The destructor of the sound queue runs after the loop, and stops the callback
  before it frees the memory.

## Plan

Done, in this order: `FrameLoop` with `BeamClock` and its proofs; `SoundQueue`
with `AudioStream` and its proofs; `Controller` with `ControllerPort` and its
proofs; `Cpu` on `Bytes`, `Opcodes`, `Mem`; `PpuPort` with `ScrollPlane`;
`Background`; `PpuLine`; `Sequencer` on `Oscillators` with `FrameSequence`;
`Cartridge`; the sprite memory in `PpuLine` and the name tables in `Cartridge`;
`SoundPath` on `Waves` with `Sound` and its proofs; the proofs of `Cartridge`
and of `PpuPort`; the proofs of `Sequencer` and `Cpu`, of the history of the pad
and of the background; the proofs of `PpuLine` and of the returns of `Cpu`; the
refinement of `Sound`.

To come: `SoundPath`'s free pieces replaced by the steps and accesses of
`Sequencer`; `FrameLoop`'s choice of sprites and hits by `PpuLine` (refinement of
`LineStep` and `FinishRun`).
