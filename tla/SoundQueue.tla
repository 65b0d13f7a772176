----------------------------- MODULE SoundQueue -----------------------------
(***************************************************************************)
(* Sound_Queue: the ring of sample blocks between the main loop, which     *)
(* writes, and SDL's audio thread, which calls fill_buffer.  The only      *)
(* synchronisation is the semaphore free_sem; the two memcpy calls are     *)
(* modelled sample by sample so that they may overlap in time.             *)
(*                                                                         *)
(* The semaphore is taken to order the memory accesses around it.  What a  *)
(* sample holds does not matter: a sample is named by the block it belongs *)
(* to and its index in it, <<wblk, i>>.                                    *)
(***************************************************************************)
EXTENDS Integers

CONSTANTS
    buf_count,      \* 3, blocks of the ring
    buf_size,       \* 2048, samples of a block
    Counts,         \* the sample counts write is called with
    MaxBlocks,      \* bound: no call of write starts after so many blocks
    OpenSucceeds    \* whether SDL_OpenAudio can succeed

ASSUME QueueAssumption ==
    /\ buf_count \in Nat /\ buf_count >= 2
    /\ buf_size \in Nat /\ buf_size >= 1
    /\ Counts \subseteq Nat \ {0} /\ Counts # {}
    /\ MaxBlocks \in Nat
    /\ OpenSucceeds \in BOOLEAN

VARIABLES
    wpc,            \* main loop: "idle", in "copy", or in SemWait: "wait"
    left,           \* write's count: samples not yet copied
    copied,         \* samples of the current memcpy that have arrived
    write_buf, write_pos,
    rpc,            \* audio thread: "idle" or in fill_buffer's "copy"
    rpos,           \* samples its memcpy has taken
    read_buf,
    out,            \* the buffer SDL passed to the callback
    free_sem,       \* value of the semaphore
    bufs,           \* the ring's memory
    sound_open,
    device,         \* what SDL got from the last completed callback
    wblk, rblk      \* history: blocks filled, blocks played

writerVars == <<wpc, left, copied, write_buf, write_pos, wblk>>
readerVars == <<rpc, rpos, read_buf, out, device, rblk>>
vars == <<writerVars, readerVars, free_sem, bufs, sound_open>>

Slots   == 0..(buf_count - 1)
Offsets == 0..(buf_size - 1)

\* A zero of memset, or memory nobody has written yet.
NoSample == <<>>
Silence == [i \in Offsets |-> NoSample]

\* Sound_Queue::init; its result is discarded by Nes::init, so the main loop
\* runs even when the device could not be opened.
Init ==
    /\ wpc = "idle" /\ left = 0 /\ copied = 0
    /\ write_buf = 0 /\ write_pos = 0
    /\ rpc = "idle" /\ rpos = 0 /\ read_buf = 0
    /\ out = Silence
    /\ free_sem = buf_count - 1
    /\ bufs = [b \in Slots |-> Silence]
    /\ sound_open = OpenSucceeds
    /\ device = Silence
    /\ wblk = 0 /\ rblk = 0

-----------------------------------------------------------------------------
(* Faulty variants of definitions below, substituted for them to see that  *)
(* the properties notice the slip; the specification does not use them.    *)

NextSlotStuck(b) == IF b + 1 = buf_count THEN b ELSE b + 1
SpaceFreeAlways(sem) == TRUE
HasBlockEager(sem) == sem <= buf_count - 1
HasBlockNever(sem) == sem < 0
sample_countNoPos(sem, pos) == buf_size * buf_count - (sem * buf_size + buf_size)

-----------------------------------------------------------------------------
(* Sound_Queue::write, on the main thread.                                 *)

NextSlot(b) == (b + 1) % buf_count

\* n: what fits into the current block.
Chunk(pos, count) == IF buf_size - pos > count THEN count ELSE buf_size - pos

BlockFull(pos) == pos >= buf_size

\* SDL_SemWait returns at once while the semaphore is positive.
SpaceFree(sem) == sem > 0

Write(count) ==
    /\ wpc = "idle" /\ wblk < MaxBlocks
    /\ left' = count
    /\ wpc' = "copy" /\ copied' = 0
    /\ UNCHANGED <<write_buf, write_pos, wblk, readerVars, free_sem, bufs,
                   sound_open>>

CopySample ==
    /\ wpc = "copy" /\ copied < Chunk(write_pos, left)
    /\ bufs' = [bufs EXCEPT ![write_buf][write_pos + copied] =
                                <<wblk, write_pos + copied>>]
    /\ copied' = copied + 1
    /\ UNCHANGED <<wpc, left, write_buf, write_pos, wblk, readerVars,
                   free_sem, sound_open>>

EndChunk ==
    /\ wpc = "copy" /\ copied = Chunk(write_pos, left)
    /\ left' = left - copied
    /\ copied' = 0
    /\ IF BlockFull(write_pos + copied)
       THEN /\ write_pos' = 0 /\ write_buf' = NextSlot(write_buf)
            /\ wblk' = wblk + 1
            /\ wpc' = "wait"
       ELSE /\ write_pos' = write_pos + copied
            /\ UNCHANGED <<write_buf, wblk>>
            /\ wpc' = IF left' = 0 THEN "idle" ELSE "copy"
    /\ UNCHANGED <<readerVars, free_sem, bufs, sound_open>>

SemWait ==
    /\ wpc = "wait" /\ SpaceFree(free_sem)
    /\ free_sem' = free_sem - 1
    /\ wpc' = IF left = 0 THEN "idle" ELSE "copy"
    /\ UNCHANGED <<left, copied, write_buf, write_pos, wblk, readerVars, bufs,
                   sound_open>>

Writer == (\E count \in Counts : Write(count)) \/ CopySample \/ EndChunk \/ SemWait

-----------------------------------------------------------------------------
(* Sound_Queue::fill_buffer, called by SDL once per block of sound.        *)

\* Some block has been handed over and not taken yet.
HasBlock(sem) == sem < buf_count - 1

SemAfterPost(sem) == sem + 1

BeginFill ==
    /\ sound_open /\ rpc = "idle" /\ HasBlock(free_sem)
    /\ rpc' = "copy" /\ rpos' = 0
    /\ UNCHANGED <<read_buf, out, device, rblk, writerVars, free_sem, bufs,
                   sound_open>>

FillSilence ==
    /\ sound_open /\ rpc = "idle" /\ ~HasBlock(free_sem)
    /\ out' = Silence /\ device' = Silence
    /\ UNCHANGED <<rpc, rpos, read_buf, rblk, writerVars, free_sem, bufs,
                   sound_open>>

ReadSample ==
    /\ rpc = "copy" /\ rpos < buf_size
    /\ out' = [out EXCEPT ![rpos] = bufs[read_buf][rpos]]
    /\ rpos' = rpos + 1
    /\ UNCHANGED <<rpc, read_buf, device, rblk, writerVars, free_sem, bufs,
                   sound_open>>

EndFill ==
    /\ rpc = "copy" /\ rpos = buf_size
    /\ read_buf' = NextSlot(read_buf)
    /\ free_sem' = SemAfterPost(free_sem)
    /\ device' = out /\ rblk' = rblk + 1
    /\ rpc' = "idle" /\ rpos' = 0
    /\ UNCHANGED <<out, writerVars, bufs, sound_open>>

Reader == BeginFill \/ FillSilence \/ ReadSample \/ EndFill

Next == Writer \/ Reader

Spec == Init /\ [][Next]_vars

\* The main loop goes on as long as nothing blocks it, and SDL keeps calling
\* back for as long as the device is open.
FairSpec == Spec /\ WF_vars(Writer) /\ WF_vars(Reader)

\* Number of samples in the queue, as the main thread may ask.
sample_count(sem, pos) == buf_size * buf_count - (sem * buf_size + (buf_size - pos))

-----------------------------------------------------------------------------
(* Properties.                                                             *)

Samples == {NoSample} \cup (Nat \X Offsets)

\* Every variable keeps its type; the semaphore stays within its initial
\* value and the positions inside their blocks.
TypeOK ==
    /\ wpc \in {"idle", "copy", "wait"} /\ rpc \in {"idle", "copy"}
    /\ left \in Nat /\ copied \in 0..buf_size
    /\ write_buf \in Slots /\ read_buf \in Slots
    /\ write_pos \in Offsets /\ write_pos + copied <= buf_size
    /\ rpos \in 0..buf_size
    /\ free_sem \in 0..(buf_count - 1)
    /\ bufs \in [Slots -> [Offsets -> Samples]]
    /\ out \in [Offsets -> Samples] /\ device \in [Offsets -> Samples]
    /\ sound_open \in BOOLEAN
    /\ wblk \in Nat /\ rblk \in Nat

\* The two memcpy calls never work on the same block, although the block
\* that follows the writer's last one is where the reader may still be.
NoOverlap == wpc = "copy" /\ rpc = "copy" => write_buf # read_buf

\* Between two calls of write, sample_count is the number of samples given
\* to write and not yet played.
SampleCountExact ==
    wpc = "idle" =>
        sample_count(free_sem, write_pos) = (wblk - rblk) * buf_size + write_pos

\* The ring slot of block b, counted from the slot the reader is at.
SlotAfter(slot, n) ==
    IF slot + n < buf_count THEN slot + n ELSE slot + n - buf_count
SlotOf(b) == SlotAfter(read_buf, b - rblk)

\* Blocks the semaphore says are handed over and unplayed.
Published == IF wpc = "wait" THEN wblk - 1 ELSE wblk

\* The inductive invariant behind the properties above: the semaphore counts
\* the free blocks, the slots of all blocks between the two threads follow
\* one another around the ring, and each holds its own samples.
QInv ==
    /\ TypeOK
    /\ wpc # "copy" => copied = 0
    /\ wpc = "wait" => write_pos = 0
    /\ wpc = "copy" => copied <= Chunk(write_pos, left)
    /\ rpc = "copy" => free_sem < buf_count - 1
    /\ free_sem = buf_count - 1 - (Published - rblk)
    /\ write_buf = SlotOf(wblk)
    /\ \A b \in rblk..(wblk - 1) :
          \A i \in Offsets : bufs[SlotOf(b)][i] = <<b, i>>
    /\ \A i \in 0..((write_pos + copied) - 1) : bufs[write_buf][i] = <<wblk, i>>
    /\ rpc = "copy" => \A i \in 0..(rpos - 1) : out[i] = <<rblk, i>>

\* The queue keeps its promise: see AudioStream.
Stream == INSTANCE AudioStream WITH
    Blocks    <- buf_count,
    BlockSize <- buf_size,
    filled    <- wblk,
    part      <- write_pos + copied,
    published <- Published,
    heard     <- rblk,
    output    <- device

StreamSpec == Stream!Spec

\* write blocks until there is space, and then returns.
WriteReturns == wpc # "idle" ~> wpc = "idle"

\* Every block handed over is played.
BlocksPlayed ==
    \A b \in 1..(MaxBlocks + 1) : (wblk >= b /\ wpc # "wait") ~> (rblk >= b)
=============================================================================
