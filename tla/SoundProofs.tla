---------------------------- MODULE SoundProofs -----------------------------
(***************************************************************************)
(* The two halves of the sound.  First the queue between the emulation and *)
(* the callback: the invariants of SoundQueue and its refinement of        *)
(* AudioStream, proved for rings of any number of blocks, of any size, and *)
(* any write calls.  Then the sample buffer: the bookkeeping of positions  *)
(* in SoundPath, proved for every sample rate, clock rate and length of    *)
(* frames that RateAssumption allows, and for every voice, waveform and    *)
(* impulse.  Last what is heard: SoundPath implements Sound.               *)
(*                                                                         *)
(* The way to that theorem: the waveform of Sound and the changes up to    *)
(* each expiry of its timer are a Course; playing Sound cycle by cycle is  *)
(* to go along it (PlayedCourse), and so is a run of each oscillator, in   *)
(* as many or as few cycles as one likes (SquareRuns, TriangleRuns,        *)
(* NoiseRuns, DmcRuns, RunsPlayed).  The cells of the buffer hold what is  *)
(* heard of the changes (PathInv, SpreadHolds), so that a read plays the   *)
(* samples of Sound (SumsArePlayed, ReadPlays).                            *)
(***************************************************************************)
EXTENDS SoundQueue, SoundPath, FiniteSetTheorems, WellFoundedInduction, TLAPS

\* The ring's successor without the remainder.
LEMMA NextSlotIs ==
    ASSUME NEW b \in Slots
    PROVE  NextSlot(b) = (IF b + 1 < buf_count THEN b + 1 ELSE 0)
<1>1. buf_count \in Nat /\ buf_count >= 2 /\ b \in 0..(buf_count - 1)
  BY QueueAssumption DEF Slots
<1>2. CASE b + 1 < buf_count
  <2>1. (b + 1) % buf_count = b + 1
    BY <1>1, <1>2, SMT
  <2> QED
    BY <1>2, <2>1 DEF NextSlot
<1>3. CASE ~(b + 1 < buf_count)
  <2>1. b + 1 = buf_count
    BY <1>1, <1>3, SMT
  <2>2. buf_count % buf_count = 0
    BY <1>1, SMT
  <2> QED
    BY <1>3, <2>1, <2>2 DEF NextSlot
<1> QED
  BY <1>2, <1>3

\* Walking around the ring: the n-th slot after one is a slot, fewer than
\* buf_count steps never return, and steps add up.
LEMMA SlotWalk ==
    ASSUME NEW s \in Slots, NEW n \in 0..buf_count
    PROVE  /\ SlotAfter(s, n) \in Slots
           /\ SlotAfter(s, 0) = s
           /\ 0 < n /\ n < buf_count => SlotAfter(s, n) # s
           /\ n < buf_count => NextSlot(SlotAfter(s, n)) = SlotAfter(s, n + 1)
           /\ 0 < n => SlotAfter(NextSlot(s), n - 1) = SlotAfter(s, n)
<1>1. buf_count \in Nat /\ buf_count >= 2 /\ s \in 0..(buf_count - 1)
  BY QueueAssumption DEF Slots
<1>2. SlotAfter(s, n) \in 0..(buf_count - 1) /\ SlotAfter(s, 0) = s
  BY <1>1, SMT DEF SlotAfter
<1>3. 0 < n /\ n < buf_count => SlotAfter(s, n) # s
  BY <1>1, SMT DEF SlotAfter
<1>4. n < buf_count => NextSlot(SlotAfter(s, n)) = SlotAfter(s, n + 1)
  <2>1. NextSlot(SlotAfter(s, n)) =
          (IF SlotAfter(s, n) + 1 < buf_count THEN SlotAfter(s, n) + 1 ELSE 0)
    BY <1>2, NextSlotIs DEF Slots
  <2> QED
    BY <1>1, <2>1, SMT DEF SlotAfter
<1>5. 0 < n => SlotAfter(NextSlot(s), n - 1) = SlotAfter(s, n)
  <2>1. NextSlot(s) = (IF s + 1 < buf_count THEN s + 1 ELSE 0)
    BY NextSlotIs
  <2> QED
    BY <1>1, <2>1, SMT DEF SlotAfter
<1> QED
  BY <1>2, <1>3, <1>4, <1>5 DEF Slots

\* Two blocks less than a whole ring apart have different slots.
LEMMA SlotsDiffer ==
    ASSUME NEW s \in Slots, NEW m \in Nat, NEW n \in Nat,
           m < n, n <= buf_count, n - m < buf_count
    PROVE  SlotAfter(s, m) # SlotAfter(s, n)
BY QueueAssumption, SMT DEF SlotAfter, Slots

-----------------------------------------------------------------------------

\* How many blocks lie between the two threads.
LEMMA Distance ==
    ASSUME QInv
    PROVE  /\ wblk \in Nat /\ rblk \in Nat /\ rblk <= wblk
           /\ wblk - rblk \in 0..buf_count
           /\ wpc # "wait" => wblk - rblk < buf_count
           /\ wpc = "wait" => rblk < wblk
           /\ rpc = "copy" => rblk < Published
           /\ free_sem > 0 => Published - rblk < buf_count - 1
<1>1. /\ wblk \in Nat /\ rblk \in Nat /\ free_sem \in 0..(buf_count - 1)
      /\ free_sem = buf_count - 1 - (Published - rblk)
      /\ rpc = "copy" => free_sem < buf_count - 1
      /\ buf_count \in Nat /\ buf_count >= 2
  BY QueueAssumption DEF QInv, TypeOK
<1>2. CASE wpc = "wait"
  <2>1. Published = wblk - 1
    BY <1>2 DEF Published
  <2> QED
    BY <1>1, <1>2, <2>1, SMT
<1>3. CASE wpc # "wait"
  <2>1. Published = wblk
    BY <1>3 DEF Published
  <2> QED
    BY <1>1, <1>3, <2>1, SMT
<1> QED
  BY <1>2, <1>3

\* The invariant holds at the start.
LEMMA InitQInv == Init => QInv
<1> SUFFICES ASSUME Init
             PROVE  QInv
  OBVIOUS
<1>1. buf_count \in Nat /\ buf_count >= 2 /\ buf_size \in Nat /\ buf_size >= 1
  BY QueueAssumption
<1>2. 0 \in Slots /\ 0 \in Offsets /\ 0 \in 0..buf_size /\ 0 + 0 <= buf_size
      /\ buf_count - 1 \in 0..(buf_count - 1)
  BY <1>1, SMT DEF Slots, Offsets
<1>3. Silence \in [Offsets -> Samples]
  BY DEF Silence, Samples
<1>4. TypeOK
  BY <1>2, <1>3, QueueAssumption DEF Init, TypeOK
<1>5. /\ Published = 0 /\ SlotOf(wblk) = 0
      /\ 0..((write_pos + copied) - 1) = {} /\ rblk..(wblk - 1) = {}
  <2>1. Published = 0
    BY DEF Init, Published
  <2>2. SlotOf(wblk) = 0
    BY <1>1, SMT DEF Init, SlotOf, SlotAfter
  <2>3. 0..((write_pos + copied) - 1) = {} /\ rblk..(wblk - 1) = {}
    BY SMT DEF Init
  <2> QED
    BY <2>1, <2>2, <2>3
<1>6. free_sem = buf_count - 1 - (Published - rblk)
  BY <1>1, <1>5, SMT DEF Init
<1> QED
  BY <1>4, <1>5, <1>6 DEF Init, QInv

\* The start of a write keeps it ...
LEMMA WriteQInv ==
    ASSUME QInv, NEW count \in Counts, Write(count)
    PROVE  QInv'
<1>1. /\ wpc = "idle" /\ wpc' = "copy" /\ copied = 0 /\ copied' = 0
      /\ left' = count /\ count \in Nat /\ count >= 1
      /\ UNCHANGED <<write_buf, write_pos, wblk, rpc, rpos, read_buf, out,
                     device, rblk, free_sem, bufs, sound_open>>
  <2>1. count \in Nat /\ count # 0
    BY QueueAssumption
  <2>2. count >= 1
    BY <2>1, SMT
  <2> QED
    BY <2>1, <2>2 DEF Write, QInv, readerVars
<1>2. TypeOK'
  BY <1>1 DEF QInv, TypeOK
<1>3. 0 <= Chunk(write_pos, count)
  BY <1>1, QueueAssumption, SMT DEF QInv, TypeOK, Chunk, Offsets
<1>4. Published' = Published /\ SlotOf(wblk)' = SlotOf(wblk)
      /\ \A b : SlotOf(b)' = SlotOf(b)
  BY <1>1 DEF Published, SlotOf, SlotAfter
<1> QED
  BY <1>1, <1>2, <1>3, <1>4 DEF QInv, Chunk

\* ... a sample copied into the block ...
LEMMA CopySampleQInv ==
    ASSUME QInv, CopySample
    PROVE  QInv'
<1> DEFINE p == write_pos + copied
<1>1. /\ wpc = "copy" /\ copied < Chunk(write_pos, left)
      /\ bufs' = [bufs EXCEPT ![write_buf][p] = <<wblk, p>>]
      /\ copied' = copied + 1
      /\ UNCHANGED <<wpc, left, write_buf, write_pos, wblk, rpc, rpos, read_buf,
                     out, device, rblk, free_sem, sound_open>>
      /\ TypeOK
  BY DEF CopySample, QInv, readerVars
<1>2. /\ p \in Offsets /\ p + 1 <= buf_size /\ copied + 1 \in 0..buf_size
      /\ copied + 1 <= Chunk(write_pos, left) /\ buf_size \in Nat
      /\ write_pos + (copied + 1) = p + 1 /\ p \in Nat
  BY <1>1, QueueAssumption, SMT DEF TypeOK, Chunk, Offsets
<1>3. TypeOK'
  <2>1. <<wblk, p>> \in Samples
    BY <1>1, <1>2 DEF TypeOK, Samples
  <2>2. bufs' \in [Slots -> [Offsets -> Samples]]
    BY <1>1, <1>2, <2>1 DEF TypeOK
  <2>3. write_pos' + copied' <= buf_size
    BY <1>1, <1>2
  <2> QED
    BY <1>1, <1>2, <2>2, <2>3 DEF TypeOK
<1>4. Published' = Published /\ \A b : SlotOf(b)' = SlotOf(b)
  BY <1>1 DEF Published, SlotOf, SlotAfter
<1>5. ASSUME NEW b \in rblk..(wblk - 1), NEW i \in Offsets
      PROVE  bufs'[SlotOf(b)][i] = <<b, i>>
  <2>1. /\ b - rblk \in Nat /\ wblk - rblk \in Nat /\ b - rblk < wblk - rblk
        /\ wblk - rblk <= buf_count /\ (wblk - rblk) - (b - rblk) < buf_count
        /\ b - rblk \in 0..buf_count /\ read_buf \in Slots
    BY <1>1, Distance, QueueAssumption, SMT DEF TypeOK
  <2>2. SlotOf(b) # SlotOf(wblk) /\ SlotOf(b) \in Slots
    BY <2>1, SlotsDiffer, SlotWalk DEF SlotOf
  <2>3. SlotOf(b) # write_buf
    BY <2>2 DEF QInv
  <2>4. bufs'[SlotOf(b)] = bufs[SlotOf(b)]
    BY <1>1, <2>2, <2>3 DEF TypeOK
  <2> QED
    BY <2>4 DEF QInv
<1>6. ASSUME NEW i \in 0..p
      PROVE  bufs'[write_buf][i] = <<wblk, i>>
  <2>1. i \in Offsets /\ (i # p => i \in 0..(p - 1))
    BY <1>2, SMT DEF Offsets
  <2>2. CASE i = p
    BY <1>1, <1>2, <2>2 DEF TypeOK
  <2>3. CASE i # p
    <3>1. bufs'[write_buf][i] = bufs[write_buf][i]
      BY <1>1, <2>1, <2>3 DEF TypeOK
    <3>2. \A k \in 0..(p - 1) : bufs[write_buf][k] = <<wblk, k>>
      BY DEF QInv
    <3> QED
      BY <2>1, <2>3, <3>1, <3>2
  <2> QED
    BY <2>2, <2>3
<1>7. 0..((write_pos' + copied') - 1) = 0..p
  <2>1. (write_pos + (copied + 1)) - 1 = p
    BY <1>1, <1>2, SMT DEF TypeOK, Offsets
  <2> QED
    BY <1>1, <2>1
<1>8. copied' <= Chunk(write_pos, left)'
  BY <1>1, <1>2 DEF Chunk
<1>9. /\ wpc # "wait"
      /\ rpc = "copy" => free_sem < buf_count - 1
      /\ free_sem = buf_count - 1 - (Published - rblk)
      /\ write_buf = SlotOf(wblk)
      /\ rpc = "copy" => \A i \in 0..(rpos - 1) : out[i] = <<rblk, i>>
  BY <1>1 DEF QInv
<1>10. \A b \in rblk'..(wblk' - 1) : \A i \in Offsets :
          bufs'[SlotOf(b)'][i] = <<b, i>>
  BY <1>1, <1>4, <1>5
<1>11. \A i \in 0..((write_pos' + copied') - 1) : bufs'[write_buf'][i] = <<wblk', i>>
  BY <1>1, <1>6, <1>7
<1> QED
  BY <1>1, <1>3, <1>4, <1>8, <1>9, <1>10, <1>11 DEF QInv

\* ... the end of a copy, which may fill a block ...
LEMMA EndChunkQInv ==
    ASSUME QInv, EndChunk
    PROVE  QInv'
<1> DEFINE p == write_pos + copied
<1>1. /\ wpc = "copy" /\ copied = Chunk(write_pos, left)
      /\ left' = left - copied /\ copied' = 0
      /\ UNCHANGED <<rpc, rpos, read_buf, out, device, rblk, free_sem, bufs,
                     sound_open>>
      /\ TypeOK
  BY DEF EndChunk, QInv, readerVars
<1>2. /\ buf_size \in Nat /\ buf_size >= 1 /\ left \in Nat /\ left - copied \in Nat
      /\ write_pos \in 0..(buf_size - 1) /\ p \in 0..buf_size
      /\ 0 \in 0..buf_size /\ 0 \in Offsets
  BY <1>1, QueueAssumption, SMT DEF TypeOK, Chunk, Offsets
<1>3. /\ wblk \in Nat /\ rblk \in Nat /\ wblk - rblk \in 0..buf_count
      /\ wblk - rblk < buf_count /\ rblk <= wblk /\ Published = wblk
      /\ read_buf \in Slots /\ buf_count \in Nat
  BY <1>1, Distance, QueueAssumption DEF Published, TypeOK
<1>4. /\ rpc = "copy" => free_sem < buf_count - 1
      /\ free_sem = buf_count - 1 - (wblk - rblk)
      /\ write_buf = SlotOf(wblk)
      /\ \A b \in rblk..(wblk - 1) : \A i \in Offsets : bufs[SlotOf(b)][i] = <<b, i>>
      /\ \A i \in 0..(p - 1) : bufs[write_buf][i] = <<wblk, i>>
      /\ rpc = "copy" => \A i \in 0..(rpos - 1) : out[i] = <<rblk, i>>
  BY <1>3 DEF QInv
<1>5. \A b : SlotOf(b)' = SlotOf(b)
  BY <1>1 DEF SlotOf, SlotAfter
<1>6. CASE BlockFull(p)
  <2>1. /\ write_pos' = 0 /\ write_buf' = NextSlot(write_buf)
        /\ wblk' = wblk + 1 /\ wpc' = "wait"
    BY <1>6 DEF EndChunk
  <2>2. p = buf_size
    BY <1>2, <1>6, SMT DEF BlockFull
  <2>3. Published' = wblk
    <3>1. Published' = wblk' - 1
      BY <2>1 DEF Published
    <3> QED
      BY <1>3, <2>1, <3>1, SMT
  <2>4. write_buf' = SlotOf(wblk + 1) /\ write_buf' \in Slots
    <3>1. (wblk + 1) - rblk = (wblk - rblk) + 1 /\ (wblk - rblk) + 1 \in 0..buf_count
      BY <1>3, SMT
    <3> QED
      BY <1>3, <1>4, <2>1, <3>1, SlotWalk DEF SlotOf
  <2>5. ASSUME NEW b \in rblk..((wblk + 1) - 1), NEW i \in Offsets
        PROVE  bufs[SlotOf(b)][i] = <<b, i>>
    <3>1. b = wblk \/ b \in rblk..(wblk - 1)
      BY <1>3, SMT
    <3>2. i \in 0..(p - 1)
      BY <2>2 DEF Offsets
    <3> QED
      BY <1>4, <3>1, <3>2
  <2>6. wblk + 1 \in Nat /\ 0 + 0 <= buf_size /\ 0..((0 + 0) - 1) = {}
    BY <1>2, <1>3, SMT
  <2>7. TypeOK'
    BY <1>1, <1>2, <2>1, <2>4, <2>6 DEF TypeOK
  <2> QED
    BY <1>1, <1>3, <1>4, <1>5, <2>1, <2>3, <2>4, <2>5, <2>6, <2>7 DEF QInv
<1>7. CASE ~BlockFull(p)
  <2>1. /\ write_pos' = p /\ write_buf' = write_buf /\ wblk' = wblk
        /\ wpc' \in {"idle", "copy"} /\ (wpc' = "copy" => left' # 0)
    BY <1>7 DEF EndChunk
  <2>2. p \in Offsets /\ p + 0 <= buf_size /\ (p + 0) - 1 = p - 1
    BY <1>2, <1>7, SMT DEF BlockFull, Offsets
  <2>3. Published' = wblk
    BY <2>1 DEF Published
  <2>4. 0 <= Chunk(p, left - copied)
    BY <1>2, <2>2, SMT DEF Chunk, Offsets
  <2>5. copied' <= Chunk(write_pos, left)'
    BY <1>1, <2>1, <2>4 DEF Chunk
  <2>6. TypeOK'
    BY <1>1, <1>2, <2>1, <2>2 DEF TypeOK
  <2> QED
    BY <1>1, <1>3, <1>4, <1>5, <2>1, <2>2, <2>3, <2>5, <2>6 DEF QInv
<1> QED
  BY <1>6, <1>7

\* ... the wait for a free block ...
LEMMA SemWaitQInv ==
    ASSUME QInv, SemWait
    PROVE  QInv'
<1>1. /\ wpc = "wait" /\ free_sem > 0 /\ free_sem' = free_sem - 1
      /\ wpc' \in {"idle", "copy"} /\ (wpc' = "copy" => left # 0)
      /\ UNCHANGED <<left, copied, write_buf, write_pos, wblk, rpc, rpos,
                     read_buf, out, device, rblk, bufs, sound_open>>
      /\ TypeOK /\ copied = 0 /\ write_pos = 0
  BY DEF SemWait, SpaceFree, QInv, readerVars
<1>2. /\ Published = wblk - 1 /\ Published' = wblk
      /\ \A b : SlotOf(b)' = SlotOf(b)
  BY <1>1 DEF Published, SlotOf, SlotAfter
<1>3. /\ free_sem' \in 0..(buf_count - 1)
      /\ rpc = "copy" => free_sem' < buf_count - 1
      /\ free_sem' = buf_count - 1 - (wblk - rblk)
  <2>1. /\ free_sem \in 0..(buf_count - 1) /\ buf_count \in Nat
        /\ wblk \in Nat /\ rblk \in Nat
        /\ free_sem = buf_count - 1 - (Published - rblk)
        /\ rpc = "copy" => free_sem < buf_count - 1
    BY <1>1, QueueAssumption DEF QInv, TypeOK
  <2> DEFINE f == free_sem'
  <2>2. f = free_sem - 1
    BY <1>1
  <2> HIDE DEF f
  <2>3. f \in 0..(buf_count - 1) /\ (rpc = "copy" => f < buf_count - 1)
        /\ f = buf_count - 1 - (wblk - rblk)
    BY <1>1, <1>2, <2>1, <2>2, SMT
  <2> QED
    BY <2>3 DEF f
<1>4. 0 <= Chunk(write_pos, left)
  BY <1>1, QueueAssumption, SMT DEF TypeOK, Chunk, Offsets
<1>5. copied' <= Chunk(write_pos, left)'
  BY <1>1, <1>4 DEF Chunk
<1>6. TypeOK'
  BY <1>1, <1>3 DEF TypeOK
<1> QED
  BY <1>1, <1>2, <1>3, <1>5, <1>6 DEF QInv

\* ... the start of a callback ...
LEMMA BeginFillQInv ==
    ASSUME QInv, BeginFill
    PROVE  QInv'
<1>1. /\ rpc = "idle" /\ free_sem < buf_count - 1 /\ rpc' = "copy" /\ rpos' = 0
      /\ UNCHANGED <<read_buf, out, device, rblk, wpc, left, copied, write_buf,
                     write_pos, wblk, free_sem, bufs, sound_open>>
      /\ TypeOK
  BY DEF BeginFill, HasBlock, QInv, writerVars
<1>2. 0..(rpos' - 1) = {} /\ 0 \in 0..buf_size
  BY <1>1, QueueAssumption, SMT
<1>3. Published' = Published /\ (\A b : SlotOf(b)' = SlotOf(b))
      /\ Chunk(write_pos, left)' = Chunk(write_pos, left)
  BY <1>1 DEF Published, SlotOf, SlotAfter, Chunk
<1>4. TypeOK'
  BY <1>1, <1>2 DEF TypeOK
<1> QED
  BY <1>1, <1>2, <1>3, <1>4 DEF QInv

\* ... and one that finds no block.
LEMMA FillSilenceQInv ==
    ASSUME QInv, FillSilence
    PROVE  QInv'
<1>1. /\ rpc = "idle" /\ out' = Silence /\ device' = Silence
      /\ UNCHANGED <<rpc, rpos, read_buf, rblk, wpc, left, copied, write_buf,
                     write_pos, wblk, free_sem, bufs, sound_open>>
      /\ TypeOK
  BY DEF FillSilence, QInv, writerVars
<1>2. Silence \in [Offsets -> Samples]
  BY DEF Silence, Samples
<1>3. Published' = Published /\ (\A b : SlotOf(b)' = SlotOf(b))
      /\ Chunk(write_pos, left)' = Chunk(write_pos, left)
  BY <1>1 DEF Published, SlotOf, SlotAfter, Chunk
<1>4. TypeOK'
  BY <1>1, <1>2 DEF TypeOK
<1> QED
  BY <1>1, <1>3, <1>4 DEF QInv

\* The reader takes samples of block rblk only, from its slot.
LEMMA ReadSampleQInv ==
    ASSUME QInv, ReadSample
    PROVE  QInv'
<1>1. /\ rpc = "copy" /\ rpos < buf_size /\ rpos' = rpos + 1
      /\ out' = [out EXCEPT ![rpos] = bufs[read_buf][rpos]]
      /\ UNCHANGED <<rpc, read_buf, device, rblk, wpc, left, copied, write_buf,
                     write_pos, wblk, free_sem, bufs, sound_open>>
      /\ TypeOK
  BY DEF ReadSample, QInv, writerVars
<1>2. rpos \in Offsets /\ rpos + 1 \in 0..buf_size /\ buf_size \in Nat
  BY <1>1, QueueAssumption, SMT DEF TypeOK, Offsets
<1>3. bufs[read_buf][rpos] = <<rblk, rpos>>
  <2>1. rblk \in rblk..(wblk - 1)
    BY <1>1, Distance, SMT DEF Published
  <2>2. SlotOf(rblk) = read_buf
    <3>1. rblk - rblk = 0 /\ 0 \in 0..buf_count
      BY <1>1, QueueAssumption, SMT DEF TypeOK
    <3> QED
      BY <1>1, <3>1, SlotWalk DEF SlotOf, TypeOK
  <2> QED
    BY <1>2, <2>1, <2>2 DEF QInv
<1>4. TypeOK'
  <2>1. bufs[read_buf][rpos] \in Samples
    BY <1>1, <1>2 DEF TypeOK
  <2>2. out' \in [Offsets -> Samples]
    BY <1>1, <1>2, <2>1 DEF TypeOK
  <2> QED
    BY <1>1, <1>2, <2>2 DEF TypeOK
<1>5. ASSUME NEW i \in 0..((rpos + 1) - 1)
      PROVE  out'[i] = <<rblk, i>>
  <2>1. i \in Offsets /\ (i # rpos => i \in 0..(rpos - 1))
    BY <1>2, SMT DEF Offsets
  <2>2. CASE i = rpos
    BY <1>1, <1>2, <1>3, <2>2 DEF TypeOK
  <2>3. CASE i # rpos
    <3>1. out'[i] = out[i]
      BY <1>1, <2>1, <2>3 DEF TypeOK
    <3>2. \A k \in 0..(rpos - 1) : out[k] = <<rblk, k>>
      BY <1>1 DEF QInv
    <3> QED
      BY <2>1, <2>3, <3>1, <3>2
  <2> QED
    BY <2>2, <2>3
<1>6. Published' = Published /\ (\A b : SlotOf(b)' = SlotOf(b))
      /\ Chunk(write_pos, left)' = Chunk(write_pos, left)
  BY <1>1 DEF Published, SlotOf, SlotAfter, Chunk
<1> QED
  BY <1>1, <1>4, <1>5, <1>6 DEF QInv

\* Releasing a block moves the reader one slot on; the other blocks keep
\* theirs.
LEMMA EndFillQInv ==
    ASSUME QInv, EndFill
    PROVE  QInv'
<1>1. /\ rpc = "copy" /\ rpc' = "idle" /\ rpos' = 0 /\ rblk' = rblk + 1
      /\ read_buf' = NextSlot(read_buf) /\ free_sem' = free_sem + 1
      /\ device' = out
      /\ UNCHANGED <<out, wpc, left, copied, write_buf, write_pos, wblk, bufs,
                     sound_open>>
      /\ TypeOK
  BY DEF EndFill, SemAfterPost, QInv, writerVars
<1>2. /\ wblk \in Nat /\ rblk \in Nat /\ rblk < Published /\ Published <= wblk
      /\ wblk - rblk \in 0..buf_count /\ rblk < wblk /\ Published \in Nat
      /\ read_buf \in Slots /\ buf_count \in Nat
  BY <1>1, Distance, QueueAssumption, SMT DEF Published, TypeOK
<1>3. /\ free_sem \in 0..(buf_count - 1) /\ free_sem < buf_count - 1
      /\ free_sem = buf_count - 1 - (Published - rblk)
      /\ write_buf = SlotOf(wblk)
      /\ \A b \in rblk..(wblk - 1) : \A i \in Offsets : bufs[SlotOf(b)][i] = <<b, i>>
  BY <1>1 DEF QInv, TypeOK
<1>4. ASSUME NEW b \in (rblk + 1)..wblk
      PROVE  SlotOf(b)' = SlotOf(b)
  <2>1. /\ b - rblk \in 0..buf_count /\ 0 < b - rblk
        /\ b - (rblk + 1) = (b - rblk) - 1
    BY <1>2, SMT
  <2>2. SlotAfter(NextSlot(read_buf), (b - rblk) - 1) = SlotAfter(read_buf, b - rblk)
    BY <1>2, <2>1, SlotWalk
  <2> QED
    BY <1>1, <2>1, <2>2 DEF SlotOf, SlotAfter
<1>5. write_buf' = SlotOf(wblk)'
  <2>1. wblk \in (rblk + 1)..wblk
    BY <1>2, SMT
  <2>2. SlotOf(wblk)' = SlotAfter(read_buf, wblk - rblk)'
    BY DEF SlotOf
  <2> QED
    BY <1>1, <1>3, <1>4, <2>1 DEF SlotOf
<1>6. ASSUME NEW b \in (rblk + 1)..(wblk - 1), NEW i \in Offsets
      PROVE  bufs[SlotOf(b)'][i] = <<b, i>>
  <2>1. b \in (rblk + 1)..wblk /\ b \in rblk..(wblk - 1)
    BY <1>2, SMT
  <2> QED
    BY <1>3, <1>4, <2>1
<1>7. Published' = Published
  BY <1>1 DEF Published
<1>8. free_sem' \in 0..(buf_count - 1) /\ free_sem' = buf_count - 1 - (Published - rblk')
  <2>1. /\ free_sem + 1 \in 0..(buf_count - 1)
        /\ free_sem + 1 = buf_count - 1 - (Published - (rblk + 1))
    BY <1>2, <1>3, SMT
  <2> QED
    BY <1>1, <2>1
<1>9. TypeOK'
  <2>1. NextSlot(read_buf) \in Slots
    <3>1. NextSlot(read_buf) = (IF read_buf + 1 < buf_count THEN read_buf + 1 ELSE 0)
      BY <1>2, NextSlotIs
    <3> QED
      BY <1>2, <3>1, SMT DEF Slots
  <2>2. 0 \in 0..buf_size /\ rblk + 1 \in Nat
    BY <1>2, QueueAssumption, SMT
  <2> QED
    BY <1>1, <1>8, <2>1, <2>2 DEF TypeOK
<1>10. Chunk(write_pos, left)' = Chunk(write_pos, left)
  BY <1>1 DEF Chunk
<1> QED
  BY <1>1, <1>5, <1>6, <1>7, <1>8, <1>9, <1>10 DEF QInv

\* Every action keeps the invariant.
LEMMA StepQInv == QInv /\ [Next]_vars => QInv'
<1> SUFFICES ASSUME QInv, [Next]_vars
             PROVE  QInv'
  OBVIOUS
<1>1. CASE Writer
  BY <1>1, WriteQInv, CopySampleQInv, EndChunkQInv, SemWaitQInv DEF Writer
<1>2. CASE Reader
  BY <1>2, BeginFillQInv, FillSilenceQInv, ReadSampleQInv, EndFillQInv DEF Reader
<1>3. CASE UNCHANGED vars
  BY <1>3 DEF vars, writerVars, readerVars, QInv, TypeOK, Published, SlotOf,
              SlotAfter, Chunk
<1> QED
  BY <1>1, <1>2, <1>3 DEF Next

\* The inductive invariant of the queue.
THEOREM QueueInvariant == Spec => []QInv
<1>1. Init => QInv
  BY InitQInv
<1>2. QInv /\ [Next]_vars => QInv'
  BY StepQInv
<1> QED
  BY <1>1, <1>2, PTL DEF Spec

\* Types; in particular the semaphore's value stays within the ring.
THEOREM TypeCorrect == Spec => []TypeOK
<1>1. QInv => TypeOK
  BY DEF QInv
<1> QED
  BY <1>1, QueueInvariant, PTL

\* The main loop never writes the block the audio thread reads: their blocks
\* are less than a whole ring apart.
THEOREM CopiesNeverOverlap == Spec => []NoOverlap
<1>1. QInv => NoOverlap
  <2> SUFFICES ASSUME QInv, wpc = "copy", rpc = "copy"
               PROVE  write_buf # read_buf
    BY DEF NoOverlap
  <2>1. 0 < wblk - rblk /\ wblk - rblk < buf_count /\ wblk - rblk \in 0..buf_count
    BY Distance, SMT DEF Published
  <2>2. read_buf \in Slots /\ write_buf = SlotAfter(read_buf, wblk - rblk)
    BY DEF QInv, TypeOK, SlotOf
  <2> QED
    BY <2>1, <2>2, SlotWalk
<1> QED
  BY <1>1, QueueInvariant, PTL

\* sample_count is exact whenever the main loop can ask for it.
THEOREM SampleCountIsExact == Spec => []SampleCountExact
<1>1. QInv => SampleCountExact
  <2> SUFFICES ASSUME QInv, wpc = "idle"
               PROVE  sample_count(free_sem, write_pos)
                        = (wblk - rblk) * buf_size + write_pos
    BY DEF SampleCountExact
  <2> DEFINE d == wblk - rblk
             N == buf_count
             S == buf_size
  <2>1. N \in Nat /\ S \in Nat /\ d \in Int /\ write_pos \in Nat /\ free_sem = N - 1 - d
    BY QueueAssumption, Distance, SMT DEF QInv, TypeOK, Published, Offsets
  <2> HIDE DEF d, N, S
  <2>2. S * N - ((N - 1 - d) * S + (S - write_pos)) = d * S + write_pos
    BY <2>1, SMT
  <2> QED
    BY <2>1, <2>2 DEF sample_count, d, N, S
<1> QED
  BY <1>1, QueueInvariant, PTL

-----------------------------------------------------------------------------

\* The queue implements AudioStream: every block is played once, whole, in
\* order, and silence only while no block is waiting.
THEOREM QueueImplementsStream == Spec => StreamSpec
<1>1. Init => Stream!Init
  <2> SUFFICES ASSUME Init
               PROVE  Stream!Init
    OBVIOUS
  <2>1. write_pos + copied = 0 /\ Published = 0
    BY SMT DEF Init, Published
  <2> QED
    BY <2>1 DEF Init, Stream!Init, Silence, Stream!Silent, Offsets, NoSample
<1>2. QInv /\ QInv' /\ [Next]_vars => [Stream!Next]_(Stream!vars)
  <2> SUFFICES ASSUME QInv, QInv', [Next]_vars
               PROVE  Stream!Next \/ UNCHANGED Stream!vars
    OBVIOUS
  <2>0. /\ wblk \in Nat /\ rblk \in Nat /\ buf_count \in Nat /\ buf_size \in Nat
        /\ write_pos \in 0..(buf_size - 1) /\ copied \in 0..buf_size
        /\ wpc # "wait" => wblk - rblk < buf_count
        /\ wpc # "copy" => copied = 0
        /\ wpc = "wait" => write_pos = 0
    BY QueueAssumption, Distance DEF QInv, TypeOK, Offsets
  <2>1. ASSUME NEW count \in Counts, Write(count)
        PROVE  UNCHANGED Stream!vars
    <3>1. /\ wpc = "idle" /\ wpc' = "copy" /\ copied' = 0
          /\ UNCHANGED <<write_pos, wblk, rblk, device>>
      BY <2>1 DEF Write, readerVars
    <3>2. copied = 0
      BY <2>0, <3>1
    <3> QED
      BY <3>1, <3>2 DEF Stream!vars, Published
  <2>2. CASE CopySample
    <3>1. /\ wpc = "copy" /\ wpc' = wpc /\ copied' = copied + 1
          /\ copied < Chunk(write_pos, left)
          /\ UNCHANGED <<write_pos, wblk, rblk, device>>
      BY <2>2 DEF CopySample, readerVars
    <3>2. /\ write_pos + copied < buf_size
          /\ write_pos + (copied + 1) = (write_pos + copied) + 1
          /\ wblk < rblk + buf_count
      <4>1. left \in Nat
        BY DEF QInv, TypeOK
      <4> QED
        BY <2>0, <3>1, <4>1, SMT DEF Chunk
    <3>3. Published' = Published
      BY <3>1 DEF Published
    <3> QED
      BY <3>1, <3>2, <3>3 DEF Stream!Next, Stream!Accept
  <2>3. CASE EndChunk
    <3>1. /\ wpc = "copy" /\ copied' = 0
          /\ UNCHANGED <<rblk, device>>
      BY <2>3 DEF EndChunk, readerVars
    <3>2. CASE BlockFull(write_pos + copied)
      <4>1. write_pos' = 0 /\ wblk' = wblk + 1 /\ wpc' = "wait"
        BY <2>3, <3>2 DEF EndChunk
      <4>2. write_pos + copied = buf_size
        <5>1. write_pos + copied <= buf_size
          BY DEF QInv, TypeOK
        <5> QED
          BY <2>0, <3>2, <5>1, SMT DEF BlockFull
      <4>3. 0 + 0 = 0 /\ Published' = Published
        BY <2>0, <3>1, <4>1, SMT DEF Published
      <4> QED
        BY <3>1, <4>1, <4>2, <4>3 DEF Stream!Next, Stream!CloseBlock
    <3>3. CASE ~BlockFull(write_pos + copied)
      <4>1. /\ write_pos' = write_pos + copied /\ wblk' = wblk
            /\ wpc' \in {"idle", "copy"}
        BY <2>3, <3>3 DEF EndChunk
      <4>2. (write_pos + copied) + 0 = write_pos + copied
        BY <2>0, SMT
      <4>3. Published' = Published
        BY <3>1, <4>1 DEF Published
      <4> QED
        BY <3>1, <4>1, <4>2, <4>3 DEF Stream!vars
    <3> QED
      BY <3>2, <3>3
  <2>4. CASE SemWait
    <3>1. /\ wpc = "wait" /\ free_sem > 0 /\ wpc' # "wait"
          /\ UNCHANGED <<copied, write_pos, wblk, rblk, device>>
      BY <2>4 DEF SemWait, SpaceFree, readerVars
    <3>2. Published = wblk - 1 /\ Published' = wblk
      BY <3>1 DEF Published
    <3>3. /\ Published < wblk /\ Published' = Published + 1
          /\ Published + 1 < rblk + buf_count
      BY <2>0, <3>1, <3>2, Distance, SMT
    <3> QED
      BY <3>1, <3>3 DEF Stream!Next, Stream!Publish
  <2>5. CASE BeginFill \/ ReadSample
    <3>1. UNCHANGED <<wpc, copied, write_pos, wblk, rblk, device>>
      BY <2>5 DEF BeginFill, ReadSample, writerVars
    <3> QED
      BY <3>1 DEF Stream!vars, Published
  <2>6. CASE FillSilence
    <3>1. /\ device' = Silence /\ ~(free_sem < buf_count - 1)
          /\ UNCHANGED <<wpc, copied, write_pos, wblk, rblk>>
      BY <2>6 DEF FillSilence, HasBlock, writerVars
    <3>2. Published = rblk
      <4>1. /\ free_sem = buf_count - 1 - (Published - rblk)
            /\ free_sem \in 0..(buf_count - 1)
        BY DEF QInv, TypeOK
      <4>2. Published \in Int
        BY <2>0, SMT DEF Published
      <4> QED
        BY <2>0, <3>1, <4>1, <4>2, SMT
    <3>3. Published' = Published
      BY <3>1 DEF Published
    <3> QED
      BY <3>1, <3>2, <3>3
         DEF Stream!Next, Stream!PlaySilence, Stream!Silent, Silence, Offsets, NoSample
  <2>7. CASE EndFill
    <3>1. /\ rpc = "copy" /\ rpos = buf_size /\ device' = out /\ rblk' = rblk + 1
          /\ UNCHANGED <<wpc, copied, write_pos, wblk>>
      BY <2>7 DEF EndFill, writerVars
    <3>2. out = Stream!Block(rblk)
      <4>1. out \in [Offsets -> Samples] /\ \A i \in Offsets : out[i] = <<rblk, i>>
        BY <3>1 DEF QInv, TypeOK, Offsets
      <4>2. out = [i \in Offsets |-> <<rblk, i>>]
        BY <4>1
      <4> QED
        BY <4>2 DEF Stream!Block, Offsets
    <3>3. rblk < Published /\ Published' = Published
      BY <3>1, Distance DEF Published
    <3> QED
      BY <3>1, <3>2, <3>3 DEF Stream!Next, Stream!Play
  <2>8. CASE UNCHANGED vars
    BY <2>8 DEF vars, writerVars, readerVars, Stream!vars, Published
  <2> QED
    BY <2>1, <2>2, <2>3, <2>4, <2>5, <2>6, <2>7, <2>8 DEF Next, Writer, Reader
<1> QED
  BY <1>1, <1>2, QueueInvariant, PTL DEF Spec, StreamSpec, Stream!Spec

-----------------------------------------------------------------------------
(* SoundPath: the bookkeeping of positions.                                *)

\* What holds between any two steps.  The third part is why no access comes
\* behind the buffer, the last one why buf is never too short.
SoundInv ==
    /\ stage \in {"run", "read"}
    /\ frame_length \in {FrameLength, FrameLength + 1}
    /\ last_time \in 0..MaxTime
    /\ offset \in Nat /\ base \in Nat /\ taken \in Nat
    /\ NoDrift
    /\ to_fixed(last_time) < MaxTime * Factor + Unit
    /\ stage = "read" => offset < (FrameLength + 1) * Factor + Unit

-----------------------------------------------------------------------------
(* Products of natural numbers, so that the steps below stay linear.       *)

\* They are natural, distribute over sums and keep the order.
LEMMA Products ==
    ASSUME NEW m \in Nat, NEW n \in Nat, NEW f \in Nat
    PROVE  /\ m * f \in Nat
           /\ (m + n) * f = m * f + n * f
           /\ m <= n => m * f <= n * f
<1>1. m * f \in Nat /\ (m + n) * f = m * f + n * f
  BY SMT
<1>2. ASSUME m <= n
      PROVE  m * f <= n * f
  <2>1. PICK k \in Nat : n = m + k
    BY <1>2, SMT
  <2>2. n * f = m * f + k * f /\ k * f \in Nat /\ m * f \in Nat
    BY <2>1, SMT
  <2> QED
    BY <2>2, SMT
<1> QED
  BY <1>1, <1>2

\* Blip_Buffer's whole samples and the fraction that is left (positions shifted
\* by BLIP_BUFFER_ACCURACY).
LEMMA WholeSamples ==
    ASSUME NEW at \in Nat
    PROVE  /\ at \div Unit \in Nat
           /\ at - (at \div Unit) * Unit \in 0..(Unit - 1)
           /\ \A n \in Nat : at < n * Unit => at \div Unit < n
<1> DEFINE q == at \div Unit
<1>0. Unit \in Nat /\ 0 < Unit
  BY SoundAssumption
<1>1. q \in Nat /\ at = Unit * q + (at % Unit) /\ at % Unit \in 0..(Unit - 1)
  BY <1>0, SMT
<1>2. Unit * q = q * Unit /\ q * Unit \in Nat
  BY <1>0, <1>1, SMT
<1>3. ASSUME NEW n \in Nat, at < n * Unit
      PROVE  q < n
  <2> SUFFICES ASSUME n <= q
               PROVE  FALSE
    BY <1>1, SMT
  <2> HIDE DEF q
  <2>1. n * Unit <= q * Unit /\ n * Unit \in Nat
    BY <1>0, <1>1, Products
  <2> QED
    BY <2>1, <1>0, <1>1, <1>2, <1>3, SMT
<1> HIDE DEF q
<1> QED
  BY <1>0, <1>1, <1>2, <1>3, SMT DEF q

\* The constants of this module, as the steps below use them.
LEMMA Constants ==
    /\ FrameLength \in Nat /\ FrameLength % 2 = 0
    /\ Late \in Nat /\ 1 <= Late /\ MaxTime \in Nat /\ MaxTime = FrameLength + Late
    /\ Factor \in Nat /\ Unit \in Nat /\ 1 <= Unit
    /\ MaxRead \in Nat /\ MaxTime * Factor \in Nat
    /\ (FrameLength + 1) * Factor \in Nat
<1>1. /\ FrameLength \in Nat /\ FrameLength % 2 = 0 /\ Late \in Nat /\ 1 <= Late
      /\ Unit \in Nat /\ 1 <= Unit /\ MaxRead \in Nat
  BY SoundAssumption
<1>2. Factor \in Nat
  BY RateAssumption
<1>3. MaxTime \in Nat /\ MaxTime = FrameLength + Late
  BY <1>1 DEF MaxTime
<1> QED
  BY <1>1, <1>2, <1>3, Products

-----------------------------------------------------------------------------
(* The invariant is inductive.                                             *)

\* It holds after Simple_Apu::sample_rate.
LEMMA InitSoundInv == PathInit => SoundInv
<1> SUFFICES ASSUME PathInit
             PROVE  SoundInv
  OBVIOUS
<1>1. last_time = 0 /\ offset = 0 /\ base = 0 /\ taken = 0 /\ stage = "run"
      /\ frame_length = FrameLength
  BY DEF PathInit
<1>2. 0 * Factor = 0 /\ 0 * Unit = 0
  BY Constants, SMT
<1>3. NoDrift /\ to_fixed(last_time) = 0
  BY <1>1, <1>2, Constants, SMT DEF NoDrift, to_fixed
<1> QED
  BY <1>1, <1>3, Constants, SMT DEF SoundInv

\* A piece of a frame, with or without a change of registers, ends at or before
\* MaxTime and moves neither the offset nor what was read.
LEMMA PieceSoundInv ==
    ASSUME SoundInv, Piece \/ WriteRegister
    PROVE  SoundInv'
<1>1. PICK gap \in Gaps : last_time + gap <= MaxTime /\ last_time' = last_time + gap
  BY DEF Piece, WriteRegister
<1>2. /\ stage = "run" /\ stage' = "run" /\ frame_length' = frame_length
      /\ offset' = offset /\ base' = base /\ taken' = taken
  BY DEF Piece, WriteRegister
<1>3. last_time' \in 0..MaxTime
  BY <1>1, SoundAssumption, Constants, SMT DEF SoundInv
<1>4. NoDrift'
  BY <1>2 DEF SoundInv, NoDrift
<1>5. to_fixed(last_time)' < MaxTime * Factor + Unit
  <2>0. last_time' \in Nat /\ last_time' <= MaxTime
    BY <1>3, Constants, SMT
  <2>1. last_time' * Factor <= MaxTime * Factor /\ last_time' * Factor \in Nat
    BY <2>0, Constants, Products
  <2>2. offset' < Unit /\ offset' \in Nat
    BY <1>2 DEF SoundInv, NoDrift
  <2> QED
    BY <2>1, <2>2, Constants, SMT DEF to_fixed
<1> QED
  BY <1>2, <1>3, <1>4, <1>5 DEF SoundInv

\* The end of a frame moves the offset by the length of the frame and the time
\* back by it: together they stay where they were, or at the end of the frame.
LEMMA EndFrameSoundInv ==
    ASSUME SoundInv, EndFrame
    PROVE  SoundInv'
<1> DEFINE end == FlipLowBit(frame_length)
<1>1. /\ stage = "run" /\ stage' = "read" /\ frame_length' = end
      /\ offset' = offset + end * Factor /\ base' = base + end /\ taken' = taken
      /\ last_time' = IF end > last_time THEN 0 ELSE last_time - end
  BY DEF EndFrame, OffsetOfFrame
<1>2. end \in {FrameLength, FrameLength + 1}
  BY Constants, SMT DEF SoundInv, FlipLowBit
<1> HIDE DEF end
<1>3. /\ end \in Nat /\ end * Factor \in Nat
      /\ end * Factor <= (FrameLength + 1) * Factor
  BY <1>2, Constants, Products, SMT
<1>4. /\ last_time' \in 0..MaxTime /\ last_time' \in Nat
      /\ last_time' + end \in Nat /\ last_time' + end <= MaxTime
  BY <1>1, <1>2, Constants, SMT DEF SoundInv
<1>5. offset \in Nat /\ offset < Unit /\ base \in Nat /\ taken \in Nat
      /\ taken * Unit + offset = base * Factor
  BY <1>1 DEF SoundInv, NoDrift
<1>6. offset' \in Nat /\ base' \in Nat /\ offset' < (FrameLength + 1) * Factor + Unit
  BY <1>1, <1>3, <1>5, Constants, SMT
<1>7. NoDrift'
  <2>1. base' * Factor = base * Factor + end * Factor /\ base * Factor \in Nat
        /\ taken * Unit \in Nat
    BY <1>1, <1>3, <1>5, Constants, Products
  <2>2. taken' * Unit + offset' = base' * Factor
    BY <2>1, <1>1, <1>3, <1>5, SMT
  <2> QED
    BY <2>2, <1>1 DEF NoDrift
<1>8. to_fixed(last_time)' < MaxTime * Factor + Unit
  <2> DEFINE l == last_time'
             m == l + end
  <2>0. l \in Nat /\ m \in Nat /\ m <= MaxTime
    BY <1>4
  <2> HIDE DEF l
  <2>1. m * Factor = l * Factor + end * Factor /\ l * Factor \in Nat
    BY <2>0, <1>3, Constants, Products
  <2> HIDE DEF m
  <2>2. m * Factor <= MaxTime * Factor
    BY <2>0, Constants, Products
  <2> QED
    BY <2>1, <2>2, <1>1, <1>3, <1>5, Constants, SMT DEF to_fixed, l
<1> QED
  BY <1>1, <1>2, <1>4, <1>5, <1>6, <1>7, <1>8 DEF SoundInv

\* Between the end of a frame and the read no more samples wait than buf holds:
\* all of them are taken, and what is left is less than a sample.
LEMMA ReadSoundInv ==
    ASSUME SoundInv, ReadSamples
    PROVE  SoundInv'
<1> DEFINE n == samples_avail
<1>1. /\ stage = "read" /\ stage' = "run" /\ frame_length' = frame_length
      /\ last_time' = last_time /\ base' = base
      /\ taken' = taken + ReadCount /\ offset' = offset - ReadCount * Unit
  BY DEF ReadSamples, OffsetAfter, apuVars
<1>2. /\ offset \in Nat /\ base \in Nat /\ taken \in Nat
      /\ taken * Unit + offset = base * Factor
      /\ offset < (FrameLength + 1) * Factor + Unit
      /\ last_time \in 0..MaxTime
  BY <1>1 DEF SoundInv, NoDrift
<1>3. n \in Nat /\ offset - n * Unit \in 0..(Unit - 1) /\ n * Unit \in Nat
  BY <1>2, WholeSamples, Products, Constants DEF samples_avail
<1>4. n <= MaxRead
  <2>1. /\ (MaxRead + 1) * Unit = MaxRead * Unit + 1 * Unit
        /\ MaxRead * Unit \in Nat /\ MaxRead + 1 \in Nat
    BY Constants, Products, SMT
  <2>2. 1 * Unit = Unit
    BY Constants, SMT
  <2>3. offset < (MaxRead + 1) * Unit
    BY <1>2, <2>1, <2>2, RateAssumption, Constants, SMT
  <2>4. n < MaxRead + 1
    BY <1>2, <2>1, <2>3, WholeSamples DEF samples_avail
  <2> QED
    BY <2>4, <1>3, Constants, SMT
<1> HIDE DEF n
<1>5. ReadCount = n
  BY <1>3, <1>4, Constants, SMT DEF ReadCount, n
<1>6. offset' \in Nat /\ offset' < Unit /\ taken' \in Nat
  BY <1>1, <1>2, <1>3, <1>5, Constants, SMT
<1>7. NoDrift'
  <2>1. taken' * Unit = taken * Unit + n * Unit /\ taken * Unit \in Nat
    BY <1>1, <1>2, <1>3, <1>5, Constants, Products
  <2>2. taken' * Unit + offset' = base' * Factor
    BY <2>1, <1>1, <1>2, <1>3, <1>5, SMT
  <2> QED
    BY <2>2, <1>6 DEF NoDrift
<1>8. to_fixed(last_time)' < MaxTime * Factor + Unit
  <2>0. last_time' \in Nat /\ last_time' <= MaxTime
    BY <1>1, <1>2, Constants, SMT
  <2>1. last_time' * Factor <= MaxTime * Factor /\ last_time' * Factor \in Nat
    BY <2>0, Constants, Products
  <2> QED
    BY <2>1, <1>6, Constants, SMT DEF to_fixed
<1> QED
  BY <1>1, <1>2, <1>6, <1>7, <1>8 DEF SoundInv

\* Every step of the specification keeps the invariant.
LEMMA NextSoundInv == SoundInv /\ [PathNext]_pathVars => SoundInv'
<1> SUFFICES ASSUME SoundInv, [PathNext]_pathVars
             PROVE  SoundInv'
  OBVIOUS
<1>1. CASE Piece \/ WriteRegister
  BY <1>1, PieceSoundInv
<1>2. CASE EndFrame
  BY <1>2, EndFrameSoundInv
<1>3. CASE ReadSamples
  BY <1>3, ReadSoundInv
<1>4. CASE Done \/ UNCHANGED pathVars
  BY <1>4 DEF Done, pathVars, apuVars, bufVars, SoundInv, NoDrift, to_fixed
<1> QED
  BY <1>1, <1>2, <1>3, <1>4 DEF PathNext

-----------------------------------------------------------------------------
(* The theorems.                                                           *)

\* Between any two steps the positions are where SoundInv has them.
THEOREM SoundInvariant == PathSpec => []SoundInv
<1>1. PathInit => SoundInv
  BY InitSoundInv
<1>2. SoundInv /\ [PathNext]_pathVars => SoundInv'
  BY NextSoundInv
<1> QED
  BY <1>1, <1>2, PTL DEF PathSpec

\* However accesses and frames are timed, the assertion of Blip_Buffer::delta_at
\* and the one at the end of a frame never fail.
THEOREM PositionsStayInBuffer == PathSpec => []PositionsInBuffer
<1>1. ASSUME SoundInv
      PROVE  PositionsInBuffer
  <2>1. last_time \in Nat /\ last_time * Factor \in Nat /\ offset \in Nat
    BY <1>1, Constants, Products DEF SoundInv
  <2>2. to_fixed(last_time) < BufferSize * Unit /\ to_fixed(last_time) \in Nat
        /\ BufferSize \in Nat
    <3>1. BufferSize \in Nat
      BY SoundAssumption, SMT DEF BufferSize
    <3>2. BufferSize * Unit \in Nat
      BY <3>1, Constants, Products
    <3> QED
      BY <3>1, <3>2, <1>1, <2>1, Constants, RateAssumption, SMT DEF SoundInv, to_fixed
  <2>3. offset < BufferSize * Unit
    <3>1. BufferSize * Unit \in Nat
      BY <2>2, Constants, Products
    <3> QED
      BY <3>1, <2>1, <2>2, SMT DEF to_fixed
  <2>4. to_fixed(last_time) \div Unit < BufferSize
    BY <2>2, WholeSamples
  <2>5. samples_avail < BufferSize /\ samples_avail \in Nat
    BY <2>1, <2>2, <2>3, WholeSamples DEF samples_avail
  <2> QED
    BY <2>2, <2>4, <2>5, SMT DEF PositionsInBuffer
<1> QED
  BY <1>1, SoundInvariant, PTL

\* The samples played and the fraction kept are exactly those of the cycles
\* that passed, and every read takes all whole samples.
THEOREM SoundNeverDrifts == PathSpec => []NoDrift
<1>1. SoundInv => NoDrift
  BY DEF SoundInv
<1> QED
  BY <1>1, SoundInvariant, PTL

\* The rates of the program (Simple_Apu::sample_rate at 44100 Hz, the clock rate
\* of the console and a quarter of a second of buffer) are such as
\* RateAssumption asks for.
THEOREM ProgramRates ==
    ASSUME SampleRate = 44100, ClockRate = 1789773, Msec = 250, Unit = 65536,
           FrameLength = 29780, Late = 4, MaxRead = 2048
    PROVE  /\ Factor = 1615 /\ BufferSize = 11070
           /\ (FrameLength + 1) * Factor < MaxRead * Unit
           /\ MaxTime * Factor + Unit <= BufferSize * Unit
          /\ Late * Factor <= 2 * Unit
<1>1. Factor = 1615
  BY SMT DEF Factor
<1>2. BufferSize = 11070
  BY SMT DEF BufferSize
<1> QED
  BY <1>1, <1>2, SMT DEF MaxTime

-----------------------------------------------------------------------------
(* Induction over sets, and functions defined by recursion.                *)

\* A set with 0 that has the successor of each of its numbers has them all.
LEMMA SetInduction ==
    ASSUME NEW T, 0 \in T, \A n \in Nat : n \in T => n + 1 \in T
    PROVE  Nat \subseteq T
<1> DEFINE R == OpToRel(<, Nat)
           Bad == {n \in Nat : n \notin T}
<1> SUFFICES ASSUME Bad # {} PROVE FALSE
  OBVIOUS
<1>1. IsWellFoundedOn(R, Nat)
  BY NatLessThanWellFounded
<1>2. \A i, j \in Nat : i < j => <<i, j>> \in R
  BY DEF OpToRel
<1> HIDE DEF R
<1>3. PICK m \in Bad : \A k \in Bad : ~(<<k, m>> \in R)
  <2>1. Bad \subseteq Nat
    OBVIOUS
  <2> HIDE DEF Bad
  <2> QED
    BY <1>1, <2>1, WFMin
<1>4. m # 0
  OBVIOUS
<1>5. m - 1 \in Nat /\ m - 1 < m
  BY <1>4
<1>6. m - 1 \in T
  BY <1>5, <1>2, <1>3
<1> QED
  BY <1>4, <1>5, <1>6

\* f is the function defined by recursion from a with g.
Recurses(f, a, g) == f[0] = a /\ \A n \in Nat : f[n + 1] = g[<<n, f[n]>>]

\* Below n.
Follows(f, a, g, n) ==
    f[0] = a /\ \A k \in Nat : k < n => f[k + 1] = g[<<k, f[k]>>]

\* A start in S and a step of S define a function by recursion.
LEMMA RecursiveFunction ==
    ASSUME NEW S, NEW a \in S, NEW g \in [Nat \X S -> S]
    PROVE  \E f \in [Nat -> S] : Recurses(f, a, g)
<1> DEFINE part(n) == CHOOSE f \in [Nat -> S] : Follows(f, a, g, n)
           f == [n \in Nat |-> part(n)[n]]
           T == {n \in Nat : \E h \in [Nat -> S] : Follows(h, a, g, n)}
<1>1. 0 \in T
  <2>1. [n \in Nat |-> a] \in [Nat -> S] /\ Follows([n \in Nat |-> a], a, g, 0)
    BY DEF Follows
  <2> QED
    BY <2>1
<1>2. ASSUME NEW n \in Nat, n \in T PROVE n + 1 \in T
  <2>1. PICK h \in [Nat -> S] : Follows(h, a, g, n)
    BY <1>2
  <2> DEFINE e == [h EXCEPT ![n + 1] = g[<<n, h[n]>>]]
  <2>2. e \in [Nat -> S]
    OBVIOUS
  <2>3. \A j \in Nat : e[j] = IF j = n + 1 THEN g[<<n, h[n]>>] ELSE h[j]
    OBVIOUS
  <2> HIDE DEF e
  <2>4. ASSUME NEW j \in Nat, j < n + 1 PROVE e[j + 1] = g[<<j, e[j]>>]
    <3>1. e[j] = h[j]
      BY <2>3, <2>4
    <3>2. CASE j = n
      BY <2>3, <3>1, <3>2
    <3>3. CASE j # n
      <4>1. j < n /\ j + 1 # n + 1
        BY <2>4, <3>3
      <4>2. h[j + 1] = g[<<j, h[j]>>]
        BY <2>1, <4>1 DEF Follows
      <4> QED
        BY <2>3, <3>1, <4>1, <4>2
    <3> QED
      BY <3>2, <3>3
  <2>5. e[0] = a
    BY <2>1, <2>3 DEF Follows
  <2>6. Follows(e, a, g, n + 1)
    BY <2>4, <2>5 DEF Follows
  <2> QED
    BY <2>2, <2>6
<1> HIDE DEF T
<1>3. \A n \in Nat : n \in T
  BY <1>1, <1>2, SetInduction
<1>4. \A n \in Nat : part(n) \in [Nat -> S] /\ Follows(part(n), a, g, n)
  BY <1>3 DEF T
<1> HIDE DEF part
<1>5. \A n \in Nat : part(n + 1)[n] = part(n)[n]
  <2> SUFFICES ASSUME NEW n \in Nat PROVE part(n + 1)[n] = part(n)[n]
    OBVIOUS
  <2> DEFINE U == {k \in Nat : k <= n => part(n + 1)[k] = part(n)[k]}
  <2>0. n + 1 \in Nat
    OBVIOUS
  <2>1. 0 \in U
    BY <1>4, <2>0 DEF Follows
  <2>2. ASSUME NEW k \in Nat, k \in U PROVE k + 1 \in U
    <3> SUFFICES ASSUME k + 1 <= n PROVE part(n + 1)[k + 1] = part(n)[k + 1]
      OBVIOUS
    <3>1. k < n /\ k < n + 1 /\ k <= n
      OBVIOUS
    <3>2. part(n + 1)[k] = part(n)[k]
      BY <2>2, <3>1
    <3>3. /\ part(n + 1)[k + 1] = g[<<k, part(n + 1)[k]>>]
          /\ part(n)[k + 1] = g[<<k, part(n)[k]>>]
      BY <1>4, <2>0, <3>1 DEF Follows
    <3> QED
      BY <3>2, <3>3
  <2> HIDE DEF U
  <2>3. n \in U
    BY <2>1, <2>2, SetInduction
  <2> QED
    BY <2>3 DEF U
<1>6. f \in [Nat -> S] /\ f[0] = a
  BY <1>4 DEF Follows
<1>7. ASSUME NEW n \in Nat PROVE f[n + 1] = g[<<n, f[n]>>]
  <2>1. part(n + 1)[n + 1] = g[<<n, part(n + 1)[n]>>] /\ n + 1 \in Nat
    BY <1>4 DEF Follows
  <2> QED
    BY <2>1, <1>5
<1> QED
  BY <1>6, <1>7 DEF Recurses

-----------------------------------------------------------------------------
(* Folds.                                                                  *)

\* h folds the subsets of S from start with g, and takes their elements with ch.
Folds(h, S, ch, start, g) ==
    \A s \in SUBSET S :
        h[s] = IF s = {} THEN start ELSE g[<<h[s \ {ch[s]}], ch[s]>>]

Takes(ch, S) == \A s \in SUBSET S : s # {} => ch[s] \in s

\* A fold over a finite set has a value for each subset.
LEMMA FoldDefined ==
    ASSUME NEW S, IsFiniteSet(S), NEW V, NEW start \in V, NEW g \in [V \X S -> V],
           NEW ch, Takes(ch, S)
    PROVE  \E h \in [SUBSET S -> V] : Folds(h, S, ch, start, g)
<1>0. \A s \in SUBSET S : s # {} => ch[s] \in s
  BY DEF Takes
<1> DEFINE W == [SUBSET S -> V]
           next(h) == [s \in SUBSET S |->
                          IF s = {} THEN start ELSE g[<<h[s \ {ch[s]}], ch[s]>>]]
           a == [s \in SUBSET S |-> start]
           G == [p \in Nat \X W |-> next(p[2])]
<1>1. a \in W
  OBVIOUS
<1>2. ASSUME NEW h \in W PROVE next(h) \in W
  <2> SUFFICES ASSUME NEW s \in SUBSET S, s # {}
               PROVE  g[<<h[s \ {ch[s]}], ch[s]>>] \in V
    OBVIOUS
  <2>1. s \ {ch[s]} \in SUBSET S /\ ch[s] \in S
    BY <1>0
  <2>2. h[s \ {ch[s]}] \in V
    BY <2>1
  <2> QED
    BY <2>1, <2>2
<1> HIDE DEF next
<1>3. G \in [Nat \X W -> W]
  BY <1>2
<1>4. \A n \in Nat, h \in W : G[<<n, h>>] = next(h)
  OBVIOUS
<1> HIDE DEF W, G, a
<1>5. PICK H \in [Nat -> W] : Recurses(H, a, G)
  BY <1>1, <1>3, RecursiveFunction
<1>6. \A n \in Nat : H[n + 1] = next(H[n])
  BY <1>4, <1>5 DEF Recurses
<1> DEFINE h == [s \in SUBSET S |-> H[Cardinality(s) + 1][s]]
<1>7. \A s \in SUBSET S : IsFiniteSet(s) /\ Cardinality(s) \in Nat
  BY FS_Subset, FS_CardinalityType
<1>8. h \in [SUBSET S -> V]
  BY <1>5, <1>7 DEF W
<1>9. ASSUME NEW s \in SUBSET S
      PROVE  h[s] = IF s = {} THEN start ELSE g[<<h[s \ {ch[s]}], ch[s]>>]
  <2>1. h[s] = next(H[Cardinality(s)])[s]
    BY <1>6, <1>7
  <2>2. CASE s = {}
    BY <2>1, <2>2 DEF next
  <2>3. CASE s # {}
    <3> DEFINE t == s \ {ch[s]}
    <3>1. t \in SUBSET S /\ ch[s] \in s
      BY <1>0, <2>3
    <3>2. Cardinality(t) + 1 = Cardinality(s)
      BY <3>1, <1>7, FS_RemoveElement
    <3>3. h[t] = H[Cardinality(s)][t]
      BY <3>1, <3>2
    <3>4. h[s] = g[<<H[Cardinality(s)][t], ch[s]>>]
      BY <2>1, <2>3 DEF next
    <3> QED
      BY <2>3, <3>3, <3>4
  <2> QED
    BY <2>2, <2>3
<1> QED
  BY <1>8, <1>9 DEF Folds

\* The numbers up to one: the last is the largest.
LEMMA Segments ==
    /\ \A s : Max(s) = Whole!Max(s)
    /\ \A n \in Nat : IsFiniteSet(1..n)
    /\ \A n \in Nat : \A s \in SUBSET (1..n) : s # {} => Max(s) \in s
    /\ \A k \in Nat : Max(1..(k + 1)) = k + 1
<1>1. \A s : Max(s) = Whole!Max(s)
  BY DEF Max, Whole!Max
<1>2. \A n \in Nat : IsFiniteSet(1..n)
  BY FS_Interval
<1>3. ASSUME NEW n \in Nat, NEW s \in SUBSET (1..n), s # {} PROVE Max(s) \in s
  <2> DEFINE U == {k \in Nat : (\E x \in s : n <= x + k) => \E x \in s : \A y \in s : x >= y}
  <2>1. 0 \in U
    OBVIOUS
  <2>2. ASSUME NEW k \in Nat, k \in U PROVE k + 1 \in U
    <3> SUFFICES ASSUME NEW x \in s, n <= x + (k + 1)
                 PROVE  \E z \in s : \A y \in s : z >= y
      OBVIOUS
    <3>1. CASE \A y \in s : x >= y
      BY <3>1
    <3>2. CASE \E y \in s : ~(x >= y)
      <4>1. PICK y \in s : ~(x >= y)
        BY <3>2
      <4>2. n <= y + k
        BY <4>1
      <4> QED
        BY <4>2, <2>2
    <3> QED
      BY <3>1, <3>2
  <2> HIDE DEF U
  <2>3. n \in U
    BY <2>1, <2>2, SetInduction
  <2>4. \E x \in s : \A y \in s : x >= y
    <3>1. PICK x \in s : TRUE
      BY <1>3
    <3>2. n <= x + n
      BY <3>1
    <3> QED
      BY <2>3, <3>2 DEF U
  <2> QED
    BY <2>4 DEF Max
<1>4. ASSUME NEW k \in Nat PROVE Max(1..(k + 1)) = k + 1
  <2>1. k + 1 \in 1..(k + 1) /\ \A y \in 1..(k + 1) : k + 1 >= y
    OBVIOUS
  <2>2. Max(1..(k + 1)) \in 1..(k + 1) /\ \A y \in 1..(k + 1) : Max(1..(k + 1)) >= y
    BY <2>1 DEF Max
  <2> QED
    BY <2>1, <2>2
<1> QED
  BY <1>1, <1>2, <1>3, <1>4

\* The next segment.
LEMMA NextSegment ==
    ASSUME NEW n \in Nat, NEW k \in Nat, k < n
    PROVE  /\ 1..k \in SUBSET (1..n) /\ 1..(k + 1) \in SUBSET (1..n)
           /\ 1..(k + 1) # {} /\ (1..(k + 1)) \ {k + 1} = 1..k
           /\ k + 1 \in 1..n /\ Max(1..(k + 1)) = k + 1 /\ 1..0 = {}
BY Segments

\* h folds the sets of indices of a sequence of length n, the largest index last.
FoldsUp(h, n, start, g) ==
    \A s \in SUBSET (1..n) :
        h[s] = IF s = {} THEN start ELSE g[<<h[s \ {Max(s)}], Max(s)>>]

\* A fold over a sequence has a value for each set of its indices.
LEMMA FoldMax ==
    ASSUME NEW n \in Nat, NEW V, NEW start \in V, NEW g \in [V \X (1..n) -> V]
    PROVE  \E h \in [SUBSET (1..n) -> V] : FoldsUp(h, n, start, g)
<1> DEFINE ch == [s \in SUBSET (1..n) |-> Max(s)]
<1>1. \A s \in SUBSET (1..n) : ch[s] = Max(s)
  OBVIOUS
<1>2. IsFiniteSet(1..n) /\ Takes(ch, 1..n)
  BY <1>1, Segments DEF Takes
<1> HIDE DEF ch
<1>3. PICK h \in [SUBSET (1..n) -> V] : Folds(h, 1..n, ch, start, g)
  BY <1>2, FoldDefined
<1> QED
  BY <1>1, <1>3 DEF Folds, FoldsUp

\* The values f for the first ones of a sequence follow from each other.
StepBy(f, n, start, g) ==
    f[0] = start /\ \A k \in 0..(n - 1) : f[k + 1] = g[<<f[k], k + 1>>]

\* As FoldLeft does, by its definition: as long as the values are in V.
FoldsIn(it, V, n, start, g) ==
    /\ it[{}] = start
    /\ \A s \in SUBSET (1..n) :
          s # {} /\ it[s \ {Max(s)}] \in V
            => it[s] = g[<<it[s \ {Max(s)}], Max(s)>>]

\* Then they always are, and follow from each other.
LEMMA FoldSegments ==
    ASSUME NEW n \in Nat, NEW V, NEW start \in V, NEW g \in [V \X (1..n) -> V],
           NEW it, FoldsIn(it, V, n, start, g)
    PROVE  \E f \in [0..n -> V] : f[n] = it[1..n] /\ StepBy(f, n, start, g)
<1> DEFINE f == [k \in 0..n |-> it[1..k]]
<1>1. f[0] = start /\ f[n] = it[1..n]
  <2>1. 1..0 = {} /\ 0 \in 0..n /\ n \in 0..n
    OBVIOUS
  <2> QED
    BY <2>1 DEF FoldsIn
<1>2. ASSUME NEW k \in 0..(n - 1), f[k] \in V PROVE f[k + 1] = g[<<f[k], k + 1>>]
  <2>1. f[k] = it[1..k] /\ f[k + 1] = it[1..(k + 1)]
    OBVIOUS
  <2>2. k \in Nat /\ k < n
    OBVIOUS
  <2>3. /\ 1..(k + 1) \in SUBSET (1..n) /\ 1..(k + 1) # {}
        /\ (1..(k + 1)) \ {Max(1..(k + 1))} = 1..k /\ Max(1..(k + 1)) = k + 1
    BY <2>2, NextSegment
  <2> HIDE DEF f
  <2> DEFINE s == 1..(k + 1)
  <2>4. s \in SUBSET (1..n) /\ s # {} /\ it[s \ {Max(s)}] \in V
    BY <1>2, <2>1, <2>3
  <2>5. it[s] = g[<<it[s \ {Max(s)}], Max(s)>>]
    <3> HIDE DEF s
    <3> QED
      BY <2>4 DEF FoldsIn
  <2> QED
    BY <2>1, <2>3, <2>5
<1>3. f \in [0..n -> V]
  <2> DEFINE U == {k \in Nat : k <= n => f[k] \in V}
  <2>1. 0 \in U
    BY <1>1
  <2>2. ASSUME NEW k \in Nat, k \in U PROVE k + 1 \in U
    <3> SUFFICES ASSUME k + 1 <= n PROVE f[k + 1] \in V
      OBVIOUS
    <3>1. k \in 0..(n - 1) /\ k + 1 \in 1..n /\ k <= n
      OBVIOUS
    <3>2. f[k + 1] = g[<<f[k], k + 1>>] /\ f[k] \in V
      <4>1. f[k] \in V
        BY <2>2, <3>1
      <4> HIDE DEF f
      <4> QED
        BY <1>2, <3>1, <4>1
    <3> HIDE DEF f
    <3> QED
      BY <3>1, <3>2
  <2> HIDE DEF U
  <2>3. Nat \subseteq U
    BY <2>1, <2>2, SetInduction
  <2>4. \A k \in 0..n : f[k] \in V
    <3> HIDE DEF f
    <3> QED
      BY <2>3 DEF U
  <2> QED
    BY <2>4
<1>4. \A k \in 0..(n - 1) : f[k + 1] = g[<<f[k], k + 1>>]
  <2>1. \A k \in 0..(n - 1) : f[k] \in V
    BY <1>3
  <2> HIDE DEF f
  <2> QED
    BY <1>2, <2>1
<1> HIDE DEF f
<1> QED
  BY <1>1, <1>3, <1>4 DEF StepBy

\* The changes, and what a sequence of them leaves of the log and the buffer.
Logs == [0..LastClock -> Int]

Log(log, deltas) == FoldLeft(Noted, log, deltas)

\* The places in time a change may have.
Times == {t \in Int : base + t \in 0..LastClock}

\* The log after a sequence is built change by change.
LEMMA LogFolds ==
    ASSUME NEW log \in Logs, NEW n \in Nat, NEW deltas \in [1..n -> Times \X Int]
    PROVE  \E f \in [0..n -> Logs] :
              /\ f[0] = log /\ f[n] = Log(log, deltas)
              /\ \A k \in 0..(n - 1) : f[k + 1] = Noted(f[k], deltas[k + 1])
<1> DEFINE g == [p \in Logs \X (1..n) |-> Noted(p[1], deltas[p[2]])]
           Is(iter) == iter = [s \in SUBSET (1..n) |->
                                  IF s = {} THEN log
                                  ELSE Noted(iter[s \ {Max(s)}], deltas[Max(s)])]
           it == CHOOSE iter : Is(iter)
<1>1. g \in [Logs \X (1..n) -> Logs]
  <2> SUFFICES ASSUME NEW l \in Logs, NEW k \in 1..n PROVE Noted(l, deltas[k]) \in Logs
    OBVIOUS
  <2> QED
    BY DEF Noted, Logs, Times
<1>2. \A l \in Logs, k \in 1..n : g[<<l, k>>] = Noted(l, deltas[k])
  OBVIOUS
<1> HIDE DEF g
<1>3. \A s \in SUBSET (1..n) : s # {} => Max(s) \in 1..n /\ s \ {Max(s)} \in SUBSET (1..n)
  BY Segments
<1>4. \E iter : Is(iter)
  <2>1. PICK h \in [SUBSET (1..n) -> Logs] : FoldsUp(h, n, log, g)
    BY <1>1, FoldMax
  <2>2. \A s \in SUBSET (1..n) :
           h[s] = IF s = {} THEN log ELSE Noted(h[s \ {Max(s)}], deltas[Max(s)])
    BY <2>1, <1>2, <1>3 DEF FoldsUp
  <2>3. Is(h)
    BY <2>2
  <2> QED
    BY <2>3
<1>5. Is(it)
  BY <1>4
<1>6. Log(log, deltas) = it[1..n]
  <2>1. DOMAIN deltas = 1..n
    OBVIOUS
  <2> QED
    BY <2>1 DEF Log, FoldLeft, MapThenFoldSet
<1> HIDE DEF it
<1>7. \A s \in SUBSET (1..n) :
          it[s] = IF s = {} THEN log ELSE Noted(it[s \ {Max(s)}], deltas[Max(s)])
  BY <1>5
<1>8. FoldsIn(it, Logs, n, log, g)
  BY <1>2, <1>3, <1>7 DEF FoldsIn
<1> HIDE DEF Is
<1>9. PICK f \in [0..n -> Logs] : f[n] = it[1..n] /\ StepBy(f, n, log, g)
  BY <1>1, <1>8, FoldSegments
<1>10. ASSUME NEW k \in 0..(n - 1) PROVE f[k + 1] = Noted(f[k], deltas[k + 1])
  <2>1. f[k] \in Logs /\ k + 1 \in 1..n
    OBVIOUS
  <2> QED
    BY <2>1, <1>2, <1>9 DEF StepBy
<1> QED
  BY <1>6, <1>9, <1>10 DEF StepBy

\* The changes a sequence may consist of.
Deltas == Times \X Int

\* A change of a level at a clock; at one that is never reached it is none.
Mark(log, c, delta) ==
    [i \in 0..LastClock |-> IF i = c THEN log[i] + delta ELSE log[i]]

\* The same, as Noted makes it.
LEMMA NotedMarks ==
    ASSUME NEW log \in Logs, NEW x \in Deltas
    PROVE  Noted(log, x) = Mark(log, base + x[1], x[2]) /\ Noted(log, x) \in Logs
<1> DEFINE c == base + x[1]
<1>1. c \in 0..LastClock /\ x[2] \in Int
  BY DEF Deltas, Times
<1>2. Noted(log, x) = [log EXCEPT ![c] = log[c] + x[2]]
  BY DEF Noted
<1>3. Mark(log, c, x[2]) = [i \in 0..LastClock |-> IF i = c THEN log[i] + x[2] ELSE log[i]]
  BY DEF Mark
<1> HIDE DEF c
<1>4. [log EXCEPT ![c] = log[c] + x[2]]
        = [i \in 0..LastClock |-> IF i = c THEN log[i] + x[2] ELSE log[i]]
  BY DEF Logs
<1>5. Noted(log, x) \in Logs
  BY <1>1, <1>2 DEF Logs
<1> QED
  BY <1>2, <1>3, <1>4, <1>5 DEF c

\* The log of a sequence and of one change more.
LEMMA LogAppend ==
    ASSUME NEW log \in Logs, NEW deltas \in Seq(Deltas)
    PROVE  /\ Log(log, deltas) \in Logs
           /\ Log(log, <<>>) = log
           /\ \A x \in Deltas :
                 /\ Append(deltas, x) \in Seq(Deltas)
                 /\ Log(log, Append(deltas, x)) = Mark(Log(log, deltas), base + x[1], x[2])
<1> DEFINE n == Len(deltas)
<1>1. n \in Nat /\ deltas \in [1..n -> Times \X Int]
  BY DEF Deltas
<1> HIDE DEF n
<1>2. PICK f \in [0..n -> Logs] :
          /\ f[0] = log /\ f[n] = Log(log, deltas)
          /\ \A k \in 0..(n - 1) : f[k + 1] = Noted(f[k], deltas[k + 1])
  BY <1>1, LogFolds
<1>3. Log(log, <<>>) = log
  <2>1. <<>> \in [1..0 -> Times \X Int] /\ 0 \in Nat
    OBVIOUS
  <2>2. PICK h \in [0..0 -> Logs] : h[0] = log /\ h[0] = Log(log, <<>>)
    BY <2>1, LogFolds
  <2> QED
    BY <2>2
<1>4. ASSUME NEW x \in Deltas
      PROVE  /\ Append(deltas, x) \in Seq(Deltas)
             /\ Log(log, Append(deltas, x)) = Mark(Log(log, deltas), base + x[1], x[2])
  <2> DEFINE more == Append(deltas, x)
  <2>0. Append(deltas, x) \in Seq(Deltas)
    OBVIOUS
  <2>1. /\ n + 1 \in Nat /\ more \in [1..(n + 1) -> Times \X Int]
        /\ more[n + 1] = x /\ \A k \in 1..n : more[k] = deltas[k]
    <3>1. /\ more \in Seq(Deltas) /\ Len(more) = Len(deltas) + 1 /\ more[Len(deltas) + 1] = x
          /\ \A k \in 1..Len(deltas) : more[k] = deltas[k]
      OBVIOUS
    <3> HIDE DEF more
    <3>2. more \in [1..Len(more) -> Deltas]
      BY <3>1
    <3> QED
      BY <1>1, <3>1, <3>2 DEF n, Deltas
  <2> HIDE DEF more
  <2>2. PICK h \in [0..(n + 1) -> Logs] :
            /\ h[0] = log /\ h[n + 1] = Log(log, more)
            /\ \A k \in 0..((n + 1) - 1) : h[k + 1] = Noted(h[k], more[k + 1])
    BY <2>1, LogFolds
  <2> DEFINE U == {k \in Nat : k <= n => h[k] = f[k]}
  <2>3. 0 \in U
    BY <1>2, <2>2
  <2>4. ASSUME NEW k \in Nat, k \in U PROVE k + 1 \in U
    <3> SUFFICES ASSUME k + 1 <= n PROVE h[k + 1] = f[k + 1]
      OBVIOUS
    <3>1. k \in 0..(n - 1) /\ k \in 0..((n + 1) - 1) /\ k + 1 \in 1..n /\ k <= n
      BY <1>1
    <3> QED
      BY <1>2, <2>1, <2>2, <2>4, <3>1
  <2> HIDE DEF U
  <2>5. h[n] = f[n]
    <3>1. n \in U
      BY <1>1, <2>3, <2>4, SetInduction
    <3> QED
      BY <3>1 DEF U
  <2>6. n \in 0..((n + 1) - 1)
    BY <1>1
  <2>7. Log(log, more) = Noted(Log(log, deltas), x)
    BY <1>2, <2>1, <2>2, <2>5, <2>6
  <2>8. Log(log, deltas) \in Logs
    BY <1>1, <1>2
  <2> QED
    BY <2>0, <2>7, <2>8, NotedMarks DEF more
<1>5. Log(log, deltas) \in Logs
  BY <1>1, <1>2
<1> QED
  BY <1>3, <1>4, <1>5

\* No change leaves the log alone, and any change leaves a log.
LEMMA MarkType ==
    ASSUME NEW log \in Logs, NEW c, NEW delta \in Int
    PROVE  /\ Mark(log, c, delta) \in Logs /\ Mark(log, c, 0) = log
           /\ \A e \in Int : Mark(Mark(log, c, delta), c, e) = Mark(log, c, delta + e)
<1>1. Mark(log, c, delta) \in Logs
  BY DEF Mark, Logs
<1>2. Mark(log, c, 0) = log
  BY DEF Mark, Logs
<1>3. ASSUME NEW e \in Int
      PROVE  Mark(Mark(log, c, delta), c, e) = Mark(log, c, delta + e)
  BY DEF Mark, Logs
<1> QED
  BY <1>1, <1>2, <1>3

\* The log of no more than one change.
LEMMA LogChange ==
    ASSUME NEW log \in Logs, NEW t \in Times, NEW delta \in Int
    PROVE  /\ Change(t, delta) \in Seq(Deltas)
           /\ Log(log, Change(t, delta)) = Mark(log, base + t, delta)
<1>1. CASE delta = 0
  <2>1. Change(t, delta) = <<>> /\ <<>> \in Seq(Deltas)
    BY <1>1 DEF Change
  <2>2. Log(log, <<>>) = log
    BY <2>1, LogAppend
  <2> QED
    BY <1>1, <2>1, <2>2, MarkType
<1>2. CASE delta # 0
  <2>1. Change(t, delta) = Append(<<>>, <<t, delta>>) /\ <<>> \in Seq(Deltas)
    BY <1>2 DEF Change
  <2>2. <<t, delta>> \in Deltas
    BY DEF Deltas
  <2>3. Log(log, <<>>) = log
    BY <2>1, LogAppend
  <2>4. /\ Append(<<>>, <<t, delta>>) \in Seq(Deltas)
        /\ Log(log, Append(<<>>, <<t, delta>>)) = Mark(Log(log, <<>>), base + t, delta)
    BY <2>1, <2>2, LogAppend
  <2> QED
    BY <2>1, <2>3, <2>4
<1> QED
  BY <1>1, <1>2

\* How often a timer expires, by its place: of the times d, d + p, d + 2p, ...
\* k are below i.
Expired(k, i, d, p) == i <= d + k * p /\ (k > 0 => d + (k - 1) * p < i)

\* Only one number does.
LEMMA ExpiredOne ==
    ASSUME NEW i \in Nat, NEW d \in Nat, NEW p \in Nat \ {0}, NEW k \in Nat, NEW m \in Nat,
           Expired(k, i, d, p), Expired(m, i, d, p)
    PROVE  k = m
<1>1. ASSUME NEW a \in Nat, NEW b \in Nat, Expired(a, i, d, p), Expired(b, i, d, p)
      PROVE  ~(a < b)
  <2> SUFFICES ASSUME a < b PROVE FALSE
    OBVIOUS
  <2>1. b - 1 \in Nat /\ a <= b - 1 /\ p \in Nat
    OBVIOUS
  <2>2. a * p <= (b - 1) * p /\ a * p \in Nat /\ (b - 1) * p \in Nat
    BY <2>1, Products
  <2> QED
    BY <1>1, <2>1, <2>2 DEF Expired
<1> QED
  BY <1>1

\* Expiries counts them.
LEMMA ExpiriesCount ==
    ASSUME NEW time \in Nat, NEW i \in Nat, NEW d \in Nat, NEW p \in Nat \ {0}
    PROVE  LET k == Expiries(time + d, time + i, p)
           IN  k \in Nat /\ Expired(k, i, d, p)
<1> DEFINE k == Expiries(time + d, time + i, p)
<1>1. CASE d < i
  <2> DEFINE x == i - d + p - 1
             q == x \div p
  <2>1. x \in Nat /\ q \in Nat /\ x = p * q + (x % p) /\ x % p \in 0..(p - 1)
    BY <1>1
  <2>2. k = q
    BY <1>1 DEF Expiries
  <2> HIDE DEF q, k
  <2>3. q # 0
    BY <1>1, <2>1
  <2>4. p * q = q * p /\ q * p \in Nat /\ q - 1 \in Nat
    BY <2>1, <2>3
  <2>5. PICK r \in Nat : q = r + 1
    BY <2>1, <2>4
  <2>6. q * p = r * p + 1 * p /\ r * p \in Nat
    BY <2>5, Products
  <2>7. i <= d + q * p /\ d + r * p < i
    <3>1. x = i - d + p - 1 /\ x < q * p + p /\ q * p <= x
      BY <2>1, <2>4
    <3> HIDE DEF x
    <3> QED
      BY <3>1, <2>1, <2>4, <2>6, <1>1
  <2>8. q - 1 = r
    BY <2>5
  <2>9. Expired(q, i, d, p)
    BY <2>7, <2>8 DEF Expired
  <2> QED
    BY <2>1, <2>2, <2>9 DEF k
<1>2. CASE ~(d < i)
  <2>1. k = 0 /\ 0 * p = 0
    BY <1>2 DEF Expiries
  <2> QED
    BY <1>2, <2>1 DEF Expired
<1> QED
  BY <1>1, <1>2

\* At the beginning none has; with each cycle one does if its time has come.
LEMMA ExpiredNext ==
    ASSUME NEW i \in Nat, NEW d \in Nat, NEW p \in Nat \ {0}, NEW k \in Nat
    PROVE  /\ Expired(0, 0, d, p)
           /\ Expired(k, i, d, p)
                => IF i = d + k * p THEN Expired(k + 1, i + 1, d, p)
                                    ELSE Expired(k, i + 1, d, p)
<1>1. /\ 0 * p = 0 /\ k * p \in Nat /\ (k + 1) * p = k * p + p
      /\ (k > 0 => (k - 1) * p \in Nat)
  <2>1. (k + 1) * p = k * p + 1 * p /\ k * p \in Nat
    BY Products
  <2>2. ASSUME k > 0 PROVE (k - 1) * p \in Nat
    <3>1. k - 1 \in Nat
      BY <2>2
    <3> QED
      BY <3>1, Products
  <2> QED
    BY <2>1, <2>2
<1>2. (k + 1) - 1 = k
  OBVIOUS
<1> QED
  BY <1>1, <1>2 DEF Expired

-----------------------------------------------------------------------------
(* The waveforms of Sound.                                                 *)

\* The phases of the oscillator.
PhaseType ==
    CASE voice = "square"   -> 0..7
      [] voice = "triangle" -> 1..(2 * TriangleRange)
      [] voice = "noise"    -> 0..(2 * 2^NoiseTop - 1)
      [] voice = "dmc"      -> [dac : 0..MaxDac, bit : 0..(BitsPerByte - 1),
                                on : BOOLEAN, bytes : Nat]

VoiceType == voice \in Voices /\ setting \in SettingType(voice)

\* The four voices, and what their registers hold.
LEMMA VoiceCases ==
    ASSUME VoiceType
    PROVE  \/ /\ voice = "square" /\ PhaseType = 0..7
              /\ setting \in [period : Nat, shift : Nat, negate : BOOLEAN,
                              volume : Nat, duty : 0..3]
           \/ /\ voice = "triangle" /\ PhaseType = 1..(2 * TriangleRange)
              /\ setting \in [period : Nat, on : BOOLEAN]
           \/ /\ voice = "noise" /\ PhaseType = 0..(2 * 2^NoiseTop - 1)
              /\ setting \in [period : Nat \ {0}, volume : Nat, short : BOOLEAN]
           \/ /\ voice = "dmc"
              /\ PhaseType = [dac : 0..MaxDac, bit : 0..(BitsPerByte - 1),
                              on : BOOLEAN, bytes : Nat]
              /\ setting \in [period : Nat \ {0}, loop : BOOLEAN, sample : Nat \ {0}]
<1>1. voice \in {"square", "triangle", "noise", "dmc"}
  BY SoundAssumption DEF VoiceType
<1>2. CASE voice = "square"
  BY <1>2 DEF PhaseType, VoiceType, SettingType
<1>3. CASE voice = "triangle"
  BY <1>3 DEF PhaseType, VoiceType, SettingType
<1>4. CASE voice = "noise"
  BY <1>4 DEF PhaseType, VoiceType, SettingType
<1>5. CASE voice = "dmc"
  BY <1>5 DEF PhaseType, VoiceType, SettingType
<1> QED
  BY <1>1, <1>2, <1>3, <1>4, <1>5

\* The waveforms stay in their phases.
LEMMA PhaseClosed ==
    ASSUME VoiceType, NEW p \in PhaseType
    PROVE  /\ Whole!PhaseAfter(p, setting) \in PhaseType
           /\ Whole!LevelOf(p, setting) \in Int
           /\ Whole!Period(setting) \in Nat \ {0}
<1>1. CASE voice = "square"
  <2>1. /\ PhaseType = 0..7 /\ setting.volume \in Nat /\ setting.period \in Nat
        /\ p \in 0..7
    BY <1>1, VoiceCases
  <2>2. Whole!PhaseAfter(p, setting) \in PhaseType
    BY <1>1, <2>1 DEF Whole!PhaseAfter
  <2>3. Whole!LevelOf(p, setting) \in Int
    BY <1>1, <2>1 DEF Whole!LevelOf
  <2> QED
    BY <1>1, <2>1, <2>2, <2>3 DEF Whole!Period
<1>2. CASE voice = "triangle"
  <2>1. /\ PhaseType = 1..(2 * TriangleRange) /\ setting.period \in Nat
        /\ p \in 1..(2 * TriangleRange) /\ TriangleRange \in Nat \ {0}
    BY <1>2, VoiceCases, VoiceAssumption
  <2>2. Whole!PhaseAfter(p, setting) \in PhaseType
    BY <1>2, <2>1 DEF Whole!PhaseAfter
  <2>3. Whole!LevelOf(p, setting) \in Int
    BY <1>2, <2>1 DEF Whole!LevelOf
  <2> QED
    BY <1>2, <2>1, <2>2, <2>3 DEF Whole!Period
<1>3. CASE voice = "noise"
  <2> DEFINE h == 2^NoiseTop
             other == IF setting.short THEN ModeBit ELSE 1
  <2>1. /\ PhaseType = 0..(2 * h - 1) /\ setting.period \in Nat \ {0}
        /\ p \in 0..(2 * h - 1) /\ h \in Nat \ {0} /\ setting.volume \in Nat
    BY <1>3, VoiceCases, VoiceAssumption
  <2>2. Whole!PhaseAfter(p, setting) = p \div 2 \/ Whole!PhaseAfter(p, setting) = p \div 2 + h
    BY <1>3 DEF Whole!PhaseAfter
  <2> HIDE DEF h
  <2>3. p \div 2 \in 0..(2 * h - 1) /\ p \div 2 + h \in 0..(2 * h - 1)
    BY <2>1
  <2>4. p % 2 = 0 \/ p % 2 = 1
    BY <2>1
  <2>5. Whole!LevelOf(p, setting) \in Int
    <3>1. Whole!LevelOf(p, setting) = (p % 2) * setting.volume
      BY <1>3 DEF Whole!LevelOf
    <3>2. (p % 2) * setting.volume \in Int
      BY <2>1, <2>4
    <3> QED
      BY <3>1, <3>2
  <2> QED
    BY <1>3, <2>1, <2>2, <2>3, <2>5 DEF Whole!Period
<1>4. CASE voice = "dmc"
  <2>1. /\ PhaseType = [dac : 0..MaxDac, bit : 0..(BitsPerByte - 1),
                        on : BOOLEAN, bytes : Nat]
        /\ setting.period \in Nat \ {0} /\ setting.sample \in Nat /\ setting.loop \in BOOLEAN
    BY <1>4, VoiceCases
  <2>2. p.dac \in 0..MaxDac /\ p.bytes \in Nat /\ p.bit \in 0..(BitsPerByte - 1)
    BY <2>1
  <2>3. Whole!Moved(p) \in 0..MaxDac
    BY <2>2 DEF Whole!Moved
  <2>4. Whole!BytesAfter(p.bytes, setting) \in Nat
    BY <2>1, <2>2 DEF Whole!BytesAfter
  <2>5. BitsPerByte \in Nat \ {0}
    BY OscillatorAssumption
  <2>6. Whole!PhaseAfter(p, setting) \in PhaseType
    <3>1. CASE p.bit < BitsPerByte - 1
      <4>1. Whole!PhaseAfter(p, setting)
              = [dac |-> Whole!Moved(p), bit |-> p.bit + 1, on |-> p.on, bytes |-> p.bytes]
        BY <1>4, <3>1 DEF Whole!PhaseAfter
      <4>2. p.bit + 1 \in 0..(BitsPerByte - 1)
        BY <2>2, <2>5, <3>1
      <4>3. p.on \in BOOLEAN
        BY <2>1
      <4> QED
        BY <2>1, <2>2, <2>3, <4>1, <4>2, <4>3
    <3>2. CASE ~(p.bit < BitsPerByte - 1)
      <4>1. Whole!PhaseAfter(p, setting)
              = [dac |-> Whole!Moved(p), bit |-> 0, on |-> p.bytes > 0,
                 bytes |-> Whole!BytesAfter(p.bytes, setting)]
        BY <1>4, <3>2 DEF Whole!PhaseAfter
      <4> QED
        BY <2>1, <2>3, <2>4, <2>5, <4>1
    <3> QED
      BY <3>1, <3>2
  <2>7. Whole!LevelOf(p, setting) \in Int
    BY <1>4, <2>2, VoiceAssumption DEF Whole!LevelOf
  <2> QED
    BY <1>4, <2>1, <2>6, <2>7 DEF Whole!Period
<1> QED
  BY <1>1, <1>2, <1>3, <1>4, VoiceCases

\* What Tick works on.
States == [phase : PhaseType, timer : Int, level : Int, changes : Logs]

Now == base + last_time
Level(p) == Whole!LevelOf(p, setting)
Start == [phase |-> Phase, timer |-> osc.delay, level |-> osc.last_amp,
          changes |-> changes]

\* One cycle, case by case.
LEMMA TickIs ==
    ASSUME VoiceType, NEW s \in States, NEW c \in 0..LastClock
    PROVE  LET t == Whole!Tick(s, c)
               next == IF Whole!Counting(setting) /\ s.timer = 0
                       THEN Whole!PhaseAfter(s.phase, setting) ELSE s.phase
           IN  /\ t \in States
               /\ t.phase = next /\ t.level = Level(next)
               /\ t.timer = IF ~Whole!Counting(setting) THEN 0
                            ELSE IF s.timer = 0 THEN Whole!Period(setting) - 1
                            ELSE s.timer - 1
               /\ t.changes = Mark(s.changes, c, Level(next) - s.level)
<1> DEFINE due == Whole!Counting(setting) /\ s.timer = 0
           next == IF due THEN Whole!PhaseAfter(s.phase, setting) ELSE s.phase
           new == Level(next)
           rest == IF ~Whole!Counting(setting) THEN 0
                   ELSE (IF due THEN Whole!Period(setting) ELSE s.timer) - 1
           log == [s.changes EXCEPT ![c] = @ + new - s.level]
<1>1. Whole!Tick(s, c) = [phase |-> next, level |-> new, timer |-> rest, changes |-> log]
  BY DEF Whole!Tick, Level
<1>2. s.phase \in PhaseType /\ s.timer \in Int /\ s.level \in Int /\ s.changes \in Logs
  BY DEF States
<1>3. next \in PhaseType
  BY <1>2, PhaseClosed
<1>4. new \in Int /\ Whole!Period(setting) \in Int
  <2> HIDE DEF next
  <2> QED
    BY <1>3, PhaseClosed DEF Level
<1>5. rest \in Int
  BY <1>2, <1>4
<1> HIDE DEF next, new
<1>6. log = Mark(s.changes, c, new - s.level) /\ log \in Logs
  <2>1. ASSUME NEW l \in Logs, NEW x \in Int, NEW e \in Int
        PROVE  [l EXCEPT ![c] = l[c] + x - e] = Mark(l, c, x - e)
    <3>1. \A i \in 0..LastClock : l[i] \in Int
      BY DEF Logs
    <3>2. l[c] + x - e = l[c] + (x - e)
      BY <3>1
    <3>3. [l EXCEPT ![c] = l[c] + (x - e)]
            = [i \in 0..LastClock |-> IF i = c THEN l[i] + (x - e) ELSE l[i]]
      BY DEF Logs
    <3> QED
      BY <3>2, <3>3 DEF Mark
  <2>2. log = Mark(s.changes, c, new - s.level)
    BY <2>1, <1>2, <1>4
  <2>3. new - s.level \in Int
    BY <1>2, <1>4
  <2> HIDE DEF log
  <2> QED
    BY <2>2, <2>3, <1>2, MarkType
<1> HIDE DEF log, rest
<1>7. [phase |-> next, level |-> new, timer |-> rest, changes |-> log] \in States
  BY <1>3, <1>4, <1>5, <1>6 DEF States
<1>8. rest = IF ~Whole!Counting(setting) THEN 0
             ELSE IF s.timer = 0 THEN Whole!Period(setting) - 1 ELSE s.timer - 1
  BY DEF rest
<1> QED
  BY <1>1, <1>6, <1>7, <1>8 DEF next, new

\* A number of cycles is one after the other.
LEMMA PlayedFolds ==
    ASSUME VoiceType, Start \in States, NEW n \in Nat,
           Now \in Nat, Now + n <= LastClock + 1, LastClock \in Nat
    PROVE  \E f \in [0..n -> States] :
              /\ f[0] = Start /\ f[n] = Whole!Played(n)
              /\ \A k \in 0..(n - 1) : f[k + 1] = Whole!Tick(f[k], Now + k)
<1> DEFINE seq == [k \in 1..n |-> Now + k - 1]
           g == [p \in States \X (1..n) |-> Whole!Tick(p[1], seq[p[2]])]
           Is(iter) == iter = [s \in SUBSET (1..n) |->
                                  IF s = {} THEN Start
                                  ELSE Whole!Tick(iter[s \ {Whole!Max(s)}],
                                                  seq[Whole!Max(s)])]
           it == CHOOSE iter : Is(iter)
<1>0. \A k \in 1..n : seq[k] = Now + k - 1 /\ seq[k] \in 0..LastClock
  OBVIOUS
<1> HIDE DEF seq
<1>1. g \in [States \X (1..n) -> States]
  <2> SUFFICES ASSUME NEW s \in States, NEW k \in 1..n
               PROVE  Whole!Tick(s, seq[k]) \in States
    OBVIOUS
  <2> QED
    BY <1>0, TickIs
<1>2. \A s \in States, k \in 1..n : g[<<s, k>>] = Whole!Tick(s, seq[k])
  OBVIOUS
<1> HIDE DEF g
<1>3. \A s \in SUBSET (1..n) :
          s # {} => /\ Max(s) \in 1..n /\ s \ {Max(s)} \in SUBSET (1..n)
                    /\ Whole!Max(s) = Max(s)
  BY Segments
<1>4. \E iter : Is(iter)
  <2>1. PICK h \in [SUBSET (1..n) -> States] : FoldsUp(h, n, Start, g)
    BY <1>1, FoldMax
  <2>2. \A s \in SUBSET (1..n) :
           h[s] = IF s = {} THEN Start
                  ELSE Whole!Tick(h[s \ {Whole!Max(s)}], seq[Whole!Max(s)])
    BY <2>1, <1>2, <1>3 DEF FoldsUp
  <2>3. Is(h)
    BY <2>2
  <2> QED
    BY <2>3
<1>5. Is(it)
  BY <1>4
<1>6. Whole!Played(n) = it[1..n]
  <2>1. DOMAIN seq = 1..n
    BY DEF seq
  <2>2. Whole!Played(n) = Whole!FoldLeft(Whole!Tick, Start, seq)
    BY DEF Whole!Played, Start, seq, Now
  <2> QED
    BY <2>1, <2>2 DEF Whole!FoldLeft, Whole!MapThenFoldSet
<1> HIDE DEF it
<1>7. \A s \in SUBSET (1..n) :
          it[s] = IF s = {} THEN Start
                  ELSE Whole!Tick(it[s \ {Whole!Max(s)}], seq[Whole!Max(s)])
  BY <1>5
<1> HIDE DEF Is
<1>8. FoldsIn(it, States, n, Start, g)
  BY <1>2, <1>3, <1>7 DEF FoldsIn
<1>9. PICK f \in [0..n -> States] : f[n] = it[1..n] /\ StepBy(f, n, Start, g)
  BY <1>1, <1>8, FoldSegments
<1>10. ASSUME NEW k \in 0..(n - 1) PROVE f[k + 1] = Whole!Tick(f[k], Now + k)
  <2>1. f[k] \in States /\ k + 1 \in 1..n /\ Now + (k + 1) - 1 = Now + k
    OBVIOUS
  <2>2. f[k + 1] = g[<<f[k], k + 1>>]
    BY <1>9 DEF StepBy
  <2> QED
    BY <2>1, <2>2, <1>0, <1>2
<1> QED
  BY <1>6, <1>9, <1>10 DEF StepBy

-----------------------------------------------------------------------------
(* What cycle by cycle comes to.                                           *)

\* ph is the waveform from the present phase on, and m the changes up to each
\* expiry of the timer.
Course(ph, m) ==
    /\ ph \in [Nat -> PhaseType] /\ m \in [Nat -> Logs]
    /\ ph[0] = Phase
    /\ \A k \in Nat : ph[k + 1] = Whole!PhaseAfter(ph[k], setting)
    /\ m[0] = Mark(changes, Now, Level(Phase) - osc.last_amp)
    /\ \A k \in Nat :
          m[k + 1] = Mark(m[k], Now + (osc.delay + k * Whole!Period(setting)),
                          Level(ph[k + 1]) - Level(ph[k]))

\* Both exist.
LEMMA CourseExists ==
    ASSUME VoiceType, Start \in States
    PROVE  \E ph, m : Course(ph, m)
<1> DEFINE g == [p \in Nat \X PhaseType |-> Whole!PhaseAfter(p[2], setting)]
<1>0. Phase \in PhaseType /\ osc.last_amp \in Int /\ changes \in Logs
  BY DEF Start, States
<1>1. g \in [Nat \X PhaseType -> PhaseType]
  BY PhaseClosed
<1>2. \A k \in Nat, p \in PhaseType : g[<<k, p>>] = Whole!PhaseAfter(p, setting)
  OBVIOUS
<1> HIDE DEF g
<1>3. PICK ph \in [Nat -> PhaseType] : Recurses(ph, Phase, g)
  BY <1>0, <1>1, RecursiveFunction
<1>4. ph[0] = Phase /\ \A k \in Nat : ph[k + 1] = Whole!PhaseAfter(ph[k], setting)
  BY <1>2, <1>3 DEF Recurses
<1> DEFINE at(k) == Now + (osc.delay + k * Whole!Period(setting))
           d(k) == Level(ph[k + 1]) - Level(ph[k])
           a == Mark(changes, Now, Level(Phase) - osc.last_amp)
           e == [p \in Nat \X Logs |-> Mark(p[2], at(p[1]), d(p[1]))]
<1>5. \A p \in PhaseType : Level(p) \in Int
  BY PhaseClosed DEF Level
<1>6. \A k \in Nat : d(k) \in Int
  BY <1>5
<1>7. a \in Logs
  <2>1. Level(Phase) - osc.last_amp \in Int
    BY <1>0, <1>5
  <2> QED
    BY <2>1, <1>0, MarkType
<1> HIDE DEF at, d, a
<1>8. e \in [Nat \X Logs -> Logs]
  BY <1>6, MarkType
<1>9. \A k \in Nat, l \in Logs : e[<<k, l>>] = Mark(l, at(k), d(k))
  OBVIOUS
<1> HIDE DEF e
<1>10. PICK m \in [Nat -> Logs] : Recurses(m, a, e)
  BY <1>7, <1>8, RecursiveFunction
<1>11. m[0] = a /\ \A k \in Nat : m[k + 1] = Mark(m[k], at(k), d(k))
  BY <1>9, <1>10 DEF Recurses
<1> QED
  BY <1>4, <1>11 DEF Course, at, d, a

\* After some cycles the timer has expired a number of times, and everything is
\* as the waveform is by then.
LEMMA PlayedCourse ==
    ASSUME VoiceType, Start \in States, osc.delay \in Nat, Whole!Counting(setting),
           NEW n \in Nat \ {0}, Now \in Nat, Now + n <= LastClock + 1, LastClock \in Nat,
           NEW ph, NEW m, Course(ph, m),
           NEW j \in Nat, Expired(j, n, osc.delay, Whole!Period(setting))
    PROVE  Whole!Played(n) =
               [phase |-> ph[j], timer |-> osc.delay + j * Whole!Period(setting) - n,
                level |-> Level(ph[j]), changes |-> m[j]]
<1> DEFINE d == osc.delay
           p == Whole!Period(setting)
           at(k, i) == [phase |-> ph[k], timer |-> d + k * p - i,
                        level |-> Level(ph[k]), changes |-> m[k]]
<1>0. /\ Phase \in PhaseType /\ osc.last_amp \in Int /\ changes \in Logs
      /\ d \in Nat /\ p \in Nat \ {0}
      /\ \A k \in Nat : /\ ph[k] \in PhaseType /\ m[k] \in Logs /\ Level(ph[k]) \in Int
                        /\ k * p \in Nat /\ (k + 1) * p = k * p + p
  <2>1. Phase \in PhaseType /\ osc.last_amp \in Int /\ changes \in Logs
    BY DEF Start, States
  <2>2. p \in Nat \ {0}
    BY <2>1, PhaseClosed
  <2> HIDE DEF p
  <2>3. ASSUME NEW k \in Nat
        PROVE  /\ ph[k] \in PhaseType /\ m[k] \in Logs /\ Level(ph[k]) \in Int
               /\ k * p \in Nat /\ (k + 1) * p = k * p + p
    <3>1. ph[k] \in PhaseType /\ m[k] \in Logs
      BY DEF Course
    <3>2. Level(ph[k]) \in Int
      BY <3>1, PhaseClosed DEF Level
    <3>3. k * p \in Nat /\ (k + 1) * p = k * p + 1 * p
      BY <2>2, Products
    <3> QED
      BY <3>1, <3>2, <3>3, <2>2
  <2> QED
    BY <2>1, <2>2, <2>3
<1>1. /\ ph[0] = Phase
      /\ \A k \in Nat : ph[k + 1] = Whole!PhaseAfter(ph[k], setting)
      /\ m[0] = Mark(changes, Now, Level(Phase) - osc.last_amp)
      /\ \A k \in Nat : m[k + 1] = Mark(m[k], Now + (d + k * p),
                                        Level(ph[k + 1]) - Level(ph[k]))
  BY DEF Course
<1>2. PICK f \in [0..n -> States] :
              /\ f[0] = Start /\ f[n] = Whole!Played(n)
              /\ \A k \in 0..(n - 1) : f[k + 1] = Whole!Tick(f[k], Now + k)
  BY PlayedFolds
<1> HIDE DEF d, p
<1> DEFINE T == {i \in Nat : i < n => \A k \in Nat : Expired(k, i + 1, d, p) => f[i + 1] = at(k, i + 1)}
\* A cycle, as a record.
<1>3. ASSUME NEW s \in States, NEW i \in Nat, i < n
      PROVE  LET next == IF s.timer = 0 THEN Whole!PhaseAfter(s.phase, setting)
                                        ELSE s.phase
             IN  Whole!Tick(s, Now + i) =
                    [phase |-> next,
                     timer |-> IF s.timer = 0 THEN p - 1 ELSE s.timer - 1,
                     level |-> Level(next),
                     changes |-> Mark(s.changes, Now + i, Level(next) - s.level)]
  <2> DEFINE t == Whole!Tick(s, Now + i)
             next == IF s.timer = 0 THEN Whole!PhaseAfter(s.phase, setting)
                                    ELSE s.phase
  <2>1. Now + i \in 0..LastClock
    BY <1>3
  <2>2. /\ t \in States /\ t.phase = next /\ t.level = Level(next)
        /\ t.timer = IF s.timer = 0 THEN p - 1 ELSE s.timer - 1
        /\ t.changes = Mark(s.changes, Now + i, Level(next) - s.level)
    BY <2>1, TickIs DEF p
  <2> HIDE DEF t, next
  <2>3. t = [phase |-> t.phase, timer |-> t.timer, level |-> t.level,
             changes |-> t.changes]
    BY <2>2 DEF States
  <2> QED
    BY <2>2, <2>3 DEF t, next
\* The first one also makes the level what the registers ask for.
<1>4. 0 \in T
  <2> SUFFICES ASSUME NEW k \in Nat, Expired(k, 0 + 1, d, p)
               PROVE  f[0 + 1] = at(k, 0 + 1)
    OBVIOUS
  <2>1. f[0 + 1] = Whole!Tick(Start, Now + 0) /\ 0 < n
    BY <1>2
  <2>2. /\ Start.phase = Phase /\ Start.timer = d /\ Start.level = osc.last_amp
        /\ Start.changes = changes
    BY DEF Start, d
  <2>3. 0 * p = 0 /\ 1 * p = p /\ 0 + 1 = 1
    BY <1>0
  <2>4. IF d = 0 THEN Expired(1, 1, d, p) ELSE Expired(0, 1, d, p)
    BY <1>0, <2>3, ExpiredNext
  <2>5. CASE d = 0
    <3>1. k = 1
      BY <1>0, <2>3, <2>4, <2>5, ExpiredOne
    <3>2. ph[1] = Whole!PhaseAfter(Phase, setting) /\ ph[0] = Phase
      BY <1>1, <2>3
    <3>3. Whole!Tick(Start, Now + 0) =
            [phase |-> ph[1], timer |-> p - 1, level |-> Level(ph[1]),
             changes |-> Mark(changes, Now + 0, Level(ph[1]) - osc.last_amp)]
      BY <1>3, <2>1, <2>2, <2>5, <3>2
    <3>4. m[1] = Mark(changes, Now + 0, Level(ph[1]) - osc.last_amp)
      <4> DEFINE x == Level(ph[0]) - osc.last_amp
                 y == Level(ph[1]) - Level(ph[0])
      <4>1. m[1] = Mark(Mark(changes, Now, x), Now, y)
        <5>1. m[0 + 1] = Mark(m[0], Now + (d + 0 * p), Level(ph[0 + 1]) - Level(ph[0]))
          BY <1>1
        <5>2. Now + (d + 0 * p) = Now
          BY <2>3, <2>5
        <5> QED
          BY <1>1, <5>1, <5>2, <2>3
      <4>2. x \in Int /\ y \in Int /\ x + y = Level(ph[1]) - osc.last_amp
            /\ Now + 0 = Now
        <5>1. Level(ph[0]) \in Int /\ Level(ph[1]) \in Int /\ osc.last_amp \in Int
          BY <1>0
        <5> QED
          BY <5>1
      <4> HIDE DEF x, y
      <4> QED
        BY <4>1, <4>2, <1>0, MarkType
    <3>5. d + 1 * p - 1 = p - 1
      BY <1>0, <2>3, <2>5
    <3> QED
      BY <2>1, <2>3, <3>1, <3>3, <3>4, <3>5
  <2>6. CASE d # 0
    <3>1. k = 0
      BY <1>0, <2>3, <2>4, <2>6, ExpiredOne
    <3>2. Whole!Tick(Start, Now + 0) =
            [phase |-> Phase, timer |-> d - 1, level |-> Level(Phase),
             changes |-> Mark(changes, Now + 0, Level(Phase) - osc.last_amp)]
      BY <1>3, <2>1, <2>2, <2>6
    <3>3. d + 0 * p - 1 = d - 1 /\ Now + 0 = Now
      BY <1>0, <2>3
    <3> QED
      BY <1>1, <2>1, <2>3, <3>1, <3>2, <3>3
  <2> QED
    BY <2>5, <2>6
<1>5. ASSUME NEW i \in Nat, i \in T PROVE i + 1 \in T
  <2> SUFFICES ASSUME i + 1 < n, NEW k \in Nat, Expired(k, (i + 1) + 1, d, p)
               PROVE  f[(i + 1) + 1] = at(k, (i + 1) + 1)
    OBVIOUS
  <2> DEFINE c == i + 1
  <2>1. c \in Nat /\ c < n /\ i < n /\ c \in 0..(n - 1)
    OBVIOUS
  <2>2. PICK e \in Nat : Expired(e, c, d, p)
    BY <1>0, <2>1, ExpiriesCount
  <2>3. f[c] = at(e, c)
    BY <1>5, <2>1, <2>2
  <2> HIDE DEF c, T
  <2>4. f[c + 1] = Whole!Tick(f[c], Now + c)
    BY <1>2, <2>1
  <2> DEFINE s == f[c]
  <2>5. /\ s \in States /\ s.phase = ph[e] /\ s.timer = d + e * p - c
        /\ s.level = Level(ph[e]) /\ s.changes = m[e]
    BY <1>2, <2>1, <2>3
  <2> HIDE DEF s, at
  <2>6. s.timer = 0 <=> c = d + e * p
    <3> DEFINE q == e * p
    <3>1. q \in Nat /\ d \in Nat /\ c \in Nat
      BY <1>0, <2>1
    <3>2. s.timer = d + q - c
      BY <2>5
    <3> HIDE DEF q
    <3>3. s.timer = 0 <=> c = d + q
      BY <3>1, <3>2
    <3> QED
      BY <3>3 DEF q
  <2>7. CASE c = d + e * p
    <3>0. e + 1 \in Nat
      OBVIOUS
    <3>1. Expired(e + 1, c + 1, d, p)
      <4>1. IF c = d + e * p THEN Expired(e + 1, c + 1, d, p) ELSE Expired(e, c + 1, d, p)
        BY <1>0, <2>1, <2>2, ExpiredNext
      <4> QED
        BY <2>7, <4>1
    <3>2. k = e + 1
      <4>1. Expired(k, c + 1, d, p) /\ c + 1 \in Nat
        BY <2>1 DEF c
      <4>2. d \in Nat /\ p \in Nat \ {0}
        BY <1>0
      <4> QED
        BY <3>0, <3>1, <4>1, <4>2, ExpiredOne
    <3>3. ph[e + 1] = Whole!PhaseAfter(ph[e], setting)
      BY <1>1
    <3>4. Whole!Tick(s, Now + c) =
            [phase |-> ph[e + 1], timer |-> p - 1, level |-> Level(ph[e + 1]),
             changes |-> Mark(m[e], Now + c, Level(ph[e + 1]) - Level(ph[e]))]
      BY <1>3, <2>1, <2>5, <2>6, <2>7, <3>3
    <3>5. m[e + 1] = Mark(m[e], Now + c, Level(ph[e + 1]) - Level(ph[e]))
      BY <1>1, <2>7
    <3>6. d + (e + 1) * p - (c + 1) = p - 1
      BY <1>0, <2>1, <2>7
    <3> QED
      BY <2>4, <3>2, <3>4, <3>5, <3>6 DEF s, at, c
  <2>8. CASE c # d + e * p
    <3>1. Expired(e, c + 1, d, p)
      BY <1>0, <2>1, <2>2, <2>8, ExpiredNext
    <3>2. k = e
      BY <1>0, <2>1, <3>1, ExpiredOne DEF c
    <3>3. Whole!Tick(s, Now + c) =
            [phase |-> ph[e], timer |-> (d + e * p - c) - 1, level |-> Level(ph[e]),
             changes |-> Mark(m[e], Now + c, Level(ph[e]) - Level(ph[e]))]
      BY <1>3, <2>1, <2>5, <2>6, <2>8
    <3>4. Level(ph[e]) - Level(ph[e]) = 0 /\ (d + e * p - c) - 1 = d + e * p - (c + 1)
      BY <1>0, <2>1
    <3>5. Mark(m[e], Now + c, 0) = m[e]
      BY <1>0, MarkType
    <3> QED
      BY <2>4, <3>2, <3>3, <3>4, <3>5 DEF s, at, c
  <2> QED
    BY <2>7, <2>8
<1> HIDE DEF T
<1> QED
  <2>1. n - 1 \in Nat /\ n - 1 < n /\ (n - 1) + 1 = n
    OBVIOUS
  <2>2. n - 1 \in T
    BY <2>1, <1>4, <1>5, SetInduction
  <2>3. f[n] = at(j, n)
    <3> HIDE DEF at
    <3> QED
      BY <2>1, <2>2 DEF T, d, p
  <2> QED
    BY <1>2, <2>3 DEF d, p

\* An oscillator that stands still makes its level what the registers ask for.
LEMMA PlayedIdle ==
    ASSUME VoiceType, Start \in States, ~Whole!Counting(setting),
           NEW n \in Nat \ {0}, Now \in Nat, Now + n <= LastClock + 1, LastClock \in Nat
    PROVE  Whole!Played(n) =
               [phase |-> Phase, timer |-> 0, level |-> Level(Phase),
                changes |-> Mark(changes, Now, Level(Phase) - osc.last_amp)]
<1> DEFINE log == Mark(changes, Now, Level(Phase) - osc.last_amp)
           idle == [phase |-> Phase, timer |-> 0, level |-> Level(Phase),
                    changes |-> log]
<1>0. Phase \in PhaseType /\ Level(Phase) \in Int /\ osc.last_amp \in Int /\ log \in Logs
  <2>1. Phase \in PhaseType /\ osc.last_amp \in Int /\ changes \in Logs
    BY DEF Start, States
  <2>2. Level(Phase) \in Int
    BY <2>1, PhaseClosed DEF Level
  <2>3. Level(Phase) - osc.last_amp \in Int
    BY <2>1, <2>2
  <2> QED
    BY <2>1, <2>2, <2>3, MarkType
<1>1. PICK f \in [0..n -> States] :
              /\ f[0] = Start /\ f[n] = Whole!Played(n)
              /\ \A k \in 0..(n - 1) : f[k + 1] = Whole!Tick(f[k], Now + k)
  BY PlayedFolds
<1>2. ASSUME NEW s \in States, NEW i \in Nat, i < n
      PROVE  Whole!Tick(s, Now + i) =
                    [phase |-> s.phase, timer |-> 0, level |-> Level(s.phase),
                     changes |-> Mark(s.changes, Now + i, Level(s.phase) - s.level)]
  <2> DEFINE t == Whole!Tick(s, Now + i)
  <2>1. Now + i \in 0..LastClock
    BY <1>2
  <2>2. /\ t \in States /\ t.phase = s.phase /\ t.level = Level(s.phase)
        /\ t.timer = 0
        /\ t.changes = Mark(s.changes, Now + i, Level(s.phase) - s.level)
    BY <2>1, TickIs
  <2> HIDE DEF t
  <2>3. t = [phase |-> t.phase, timer |-> t.timer, level |-> t.level,
             changes |-> t.changes]
    BY <2>2 DEF States
  <2> QED
    BY <2>2, <2>3 DEF t
<1> DEFINE U == {i \in Nat : i < n => f[i + 1] = idle}
<1>3. 0 \in U
  <2>1. f[0 + 1] = Whole!Tick(Start, Now + 0) /\ 0 < n /\ Now + 0 = Now
    BY <1>1
  <2>2. /\ Start.phase = Phase /\ Start.level = osc.last_amp /\ Start.changes = changes
    BY DEF Start
  <2> QED
    BY <1>2, <2>1, <2>2
<1>4. ASSUME NEW i \in Nat, i \in U PROVE i + 1 \in U
  <2> SUFFICES ASSUME i + 1 < n PROVE f[(i + 1) + 1] = idle
    OBVIOUS
  <2>1. f[i + 1] = idle /\ i + 1 \in Nat /\ i + 1 \in 0..(n - 1)
    BY <1>4
  <2>2. f[(i + 1) + 1] = Whole!Tick(f[i + 1], Now + (i + 1)) /\ f[i + 1] \in States
    BY <1>1, <2>1
  <2>3. /\ idle.phase = Phase /\ idle.level = Level(Phase) /\ idle.changes = log
    OBVIOUS
  <2>4. Level(Phase) - Level(Phase) = 0
    BY <1>0
  <2>5. Mark(log, Now + (i + 1), 0) = log
    BY <1>0, MarkType
  <2> HIDE DEF idle, log, U
  <2>6. Whole!Tick(idle, Now + (i + 1)) =
            [phase |-> Phase, timer |-> 0, level |-> Level(Phase), changes |-> log]
    BY <1>2, <2>1, <2>2, <2>3, <2>4, <2>5
  <2> QED
    BY <2>1, <2>2, <2>6 DEF idle
<1> HIDE DEF U
<1>5. n - 1 \in Nat /\ n - 1 < n /\ (n - 1) + 1 = n
  OBVIOUS
<1>6. n - 1 \in U
  BY <1>5, <1>3, <1>4, SetInduction
<1>7. f[n] = idle
  <2> HIDE DEF idle
  <2> QED
    BY <1>5, <1>6 DEF U
<1> QED
  BY <1>1, <1>7

-----------------------------------------------------------------------------
(* Runs of the oscillators.                                                *)

\* A run of gap cycles from the present on.
RunType(gap) ==
    /\ VoiceType /\ Start \in States /\ osc.delay \in Nat
    /\ base \in Nat /\ last_time \in Nat /\ LastClock \in Nat
    /\ gap \in Nat /\ Now <= LastClock /\ Now + gap <= LastClock + 1

From == last_time + osc.delay

\* The present and the expiries of a run are clocks of the log.
LEMMA ExpiryTimes ==
    ASSUME NEW gap, RunType(gap), NEW p \in Nat \ {0}
    PROVE  LET n == Expiries(From, last_time + gap, p)
           IN  /\ n \in Nat /\ Expired(n, gap, osc.delay, p)
               /\ last_time \in Times
               /\ \A k \in 1..n :
                     /\ From + (k - 1) * p \in Times /\ k - 1 \in Nat
                     /\ base + (From + (k - 1) * p) = Now + (osc.delay + (k - 1) * p)
<1> DEFINE n == Expiries(From, last_time + gap, p)
           d == osc.delay
<1>0. /\ d \in Nat /\ base \in Nat /\ last_time \in Nat /\ gap \in Nat /\ LastClock \in Nat
      /\ base + last_time <= LastClock /\ base + last_time + gap <= LastClock + 1
  BY DEF RunType, Now
<1>1. n \in Nat /\ Expired(n, gap, d, p)
  BY <1>0, ExpiriesCount DEF From
<1> HIDE DEF n, d
<1>2. last_time \in Times
  BY <1>0 DEF Times
<1>3. ASSUME NEW k \in 1..n
      PROVE  /\ From + (k - 1) * p \in Times /\ k - 1 \in Nat
             /\ base + (From + (k - 1) * p) = Now + (d + (k - 1) * p)
  <2>1. k - 1 \in Nat /\ n - 1 \in Nat /\ k - 1 <= n - 1 /\ p \in Nat
    BY <1>1
  <2>2. (k - 1) * p <= (n - 1) * p /\ (k - 1) * p \in Nat /\ (n - 1) * p \in Nat
    BY <2>1, Products
  <2>3. d + (n - 1) * p < gap
    BY <1>1, <2>1 DEF Expired
  <2> DEFINE q == (k - 1) * p
             r == (n - 1) * p
  <2>4. q \in Nat /\ r \in Nat /\ q <= r /\ d + r < gap
    BY <2>2, <2>3
  <2> HIDE DEF q, r
  <2>5. base + ((last_time + d) + q) \in 0..LastClock
    BY <1>0, <2>4
  <2>6. base + ((last_time + d) + q) = (base + last_time) + (d + q)
        /\ (last_time + d) + q \in Int
    BY <1>0, <2>4
  <2> QED
    BY <2>1, <2>5, <2>6 DEF Times, From, Now, d, q
<1> QED
  BY <1>1, <1>2, <1>3 DEF n, d

\* One change more; a change by nothing may be left out.
Extends(more, deltas, t, delta) ==
    more = Append(deltas, <<t, delta>>) \/ (delta = 0 /\ more = deltas)

\* One run's changes of amplitude up to each expiry, if each of them is what the
\* level changes by.
Outs(outs, n, ph) ==
    /\ outs[0] = Change(last_time, Level(Phase) - osc.last_amp)
    /\ \A k \in 0..(n - 1) :
          Extends(outs[k + 1], outs[k], From + k * Whole!Period(setting),
                  Level(ph[k + 1]) - Level(ph[k]))

\* Their log is the course's, then.
LEMMA OutsFollow ==
    ASSUME NEW gap, RunType(gap), NEW ph, NEW m, Course(ph, m), NEW outs,
           Outs(outs, Expiries(From, last_time + gap, Whole!Period(setting)), ph)
    PROVE  LET n == Expiries(From, last_time + gap, Whole!Period(setting))
           IN  \A k \in 0..n : outs[k] \in Seq(Deltas) /\ Log(changes, outs[k]) = m[k]
<1> DEFINE p == Whole!Period(setting)
           n == Expiries(From, last_time + gap, p)
           lift(k) == Level(ph[k + 1]) - Level(ph[k])
<1>1. /\ Phase \in PhaseType /\ changes \in Logs /\ osc.last_amp \in Int /\ VoiceType
      /\ base + last_time = Now
  BY DEF RunType, Start, States, Now
<1>2. p \in Nat \ {0}
  BY <1>1, PhaseClosed
<1>3. /\ n \in Nat /\ last_time \in Times
      /\ \A k \in 1..n : /\ From + (k - 1) * p \in Times /\ k - 1 \in Nat
                        /\ base + (From + (k - 1) * p) = Now + (osc.delay + (k - 1) * p)
  BY <1>2, ExpiryTimes
<1>4. /\ ph \in [Nat -> PhaseType] /\ m \in [Nat -> Logs]
      /\ m[0] = Mark(changes, Now, Level(Phase) - osc.last_amp)
      /\ \A k \in Nat : m[k + 1] = Mark(m[k], Now + (osc.delay + k * p), lift(k))
  BY DEF Course
<1>5. \A q \in PhaseType : Level(q) \in Int
  BY <1>1, PhaseClosed DEF Level
<1>6. \A k \in Nat : lift(k) \in Int
  BY <1>4, <1>5
<1>7. /\ outs[0] = Change(last_time, Level(Phase) - osc.last_amp)
      /\ \A k \in 0..(n - 1) : Extends(outs[k + 1], outs[k], From + k * p, lift(k))
  BY DEF Outs
<1> HIDE DEF p, n, lift
<1> DEFINE T == {k \in Nat : k <= n => outs[k] \in Seq(Deltas) /\ Log(changes, outs[k]) = m[k]}
<1>8. 0 \in T
  <2>1. Level(Phase) - osc.last_amp \in Int
    BY <1>1, <1>5
  <2>2. /\ outs[0] \in Seq(Deltas)
        /\ Log(changes, outs[0]) = Mark(changes, base + last_time, Level(Phase) - osc.last_amp)
    BY <1>1, <1>3, <1>7, <2>1, LogChange
  <2> QED
    BY <1>1, <1>4, <2>2
<1>9. ASSUME NEW k \in Nat, k \in T PROVE k + 1 \in T
  <2> SUFFICES ASSUME k + 1 <= n
               PROVE  outs[k + 1] \in Seq(Deltas) /\ Log(changes, outs[k + 1]) = m[k + 1]
    OBVIOUS
  <2>1. outs[k] \in Seq(Deltas) /\ Log(changes, outs[k]) = m[k]
    BY <1>3, <1>9
  <2>2. k \in 0..(n - 1) /\ k + 1 \in 1..n /\ (k + 1) - 1 = k
    BY <1>3
  <2> DEFINE t == From + k * p
  <2>3. t \in Times /\ base + t = Now + (osc.delay + k * p)
    BY <1>3, <2>2
  <2>4. Extends(outs[k + 1], outs[k], t, lift(k))
    BY <1>7, <2>2
  <2>5. m[k + 1] = Mark(m[k], base + t, lift(k)) /\ m[k] \in Logs
    BY <1>4, <2>3
  <2> HIDE DEF T, t
  <2>6. CASE outs[k + 1] = Append(outs[k], <<t, lift(k)>>)
    <3> DEFINE x == <<t, lift(k)>>
    <3>1. x \in Deltas /\ x[1] = t /\ x[2] = lift(k)
      BY <1>6, <2>3 DEF Deltas
    <3> HIDE DEF x
    <3>2. /\ Append(outs[k], x) \in Seq(Deltas)
          /\ Log(changes, Append(outs[k], x)) = Mark(Log(changes, outs[k]), base + x[1], x[2])
      BY <1>1, <2>1, <3>1, LogAppend
    <3> QED
      BY <2>1, <2>5, <2>6, <3>1, <3>2 DEF x
  <2>7. CASE lift(k) = 0 /\ outs[k + 1] = outs[k]
    BY <2>1, <2>5, <2>7, MarkType
  <2> QED
    BY <2>4, <2>6, <2>7 DEF Extends
<1> HIDE DEF T
<1>10. Nat \subseteq T
  BY <1>8, <1>9, SetInduction
<1> QED
  BY <1>3, <1>10 DEF T, n, p

-----------------------------------------------------------------------------
(* Nes_Square.                                                             *)

Pulse == (setting.period + 1) * 2
Turns(k) == (osc.phase + k) % SquareRange \in {0, Duty(setting)}
ToggleAt(a, k) ==
    IF Turns(k)
    THEN [delta |-> -a.delta,
          out   |-> Append(a.out, <<From + (k - 1) * Pulse, -a.delta>>)]
    ELSE a

\* The amplitude is the level of Sound, and changes where the phase turns.
LEMMA SquareLevel ==
    ASSUME VoiceType, voice = "square", NEW p \in 0..7
    PROVE  /\ SquareAmp(p, setting) \in {0, setting.volume}
           /\ Level(p) = IF Silent(setting) THEN 0 ELSE SquareAmp(p, setting)
           /\ LET q == (p + 1) % 8
              IN  /\ q \in 0..7
                  /\ SquareAmp(q, setting) =
                        IF q \in {0, Duty(setting)}
                        THEN setting.volume - SquareAmp(p, setting)
                        ELSE SquareAmp(p, setting)
<1>0. setting \in [period : Nat, shift : Nat, negate : BOOLEAN, volume : Nat, duty : 0..3]
  BY VoiceCases
<1> DEFINE v == setting.volume
<1>1. /\ v \in Nat /\ setting.duty \in {0, 1, 2, 3} /\ setting.period \in Nat
      /\ MaxPeriod \in Nat
  BY <1>0, OscillatorAssumption
<1>2. Duty(setting) = IF setting.duty = 0 THEN 1 ELSE IF setting.duty = 1 THEN 2
                      ELSE IF setting.duty = 2 THEN 4 ELSE 2
  <2>1. 2^0 = 1 /\ 2^1 = 2 /\ 2^2 = 4
    OBVIOUS
  <2>2. CASE setting.duty = 0
    BY <2>1, <2>2 DEF Duty
  <2>3. CASE setting.duty = 1
    BY <2>1, <2>3 DEF Duty
  <2>4. CASE setting.duty = 2
    BY <2>1, <2>4 DEF Duty
  <2>5. CASE setting.duty = 3
    BY <2>5 DEF Duty
  <2> QED
    BY <1>1, <2>2, <2>3, <2>4, <2>5
<1>3. SquareAmp(p, setting) = IF p \in Whole!Highs[setting.duty + 1] THEN v ELSE 0
  <2>1. p \in Whole!Highs[setting.duty + 1] <=>
            \/ setting.duty = 0 /\ p = 0
            \/ setting.duty = 1 /\ p \in 0..1
            \/ setting.duty = 2 /\ p \in 0..3
            \/ setting.duty = 3 /\ p \in 2..7
    <3>1. CASE setting.duty = 0
      BY <3>1 DEF Whole!Highs
    <3>2. CASE setting.duty = 1
      BY <3>2 DEF Whole!Highs
    <3>3. CASE setting.duty = 2
      BY <3>3 DEF Whole!Highs
    <3>4. CASE setting.duty = 3
      BY <3>4 DEF Whole!Highs
    <3> QED
      BY <1>1, <3>1, <3>2, <3>3, <3>4
  <2>2. (p < Duty(setting)) # (setting.duty = 3) <=> p \in Whole!Highs[setting.duty + 1]
    BY <1>1, <1>2, <2>1
  <2> QED
    BY <2>2 DEF SquareAmp
<1>4. Silent(setting) <=>
          v = 0 \/ setting.period < min_period \/ Whole!Reach(setting) > MaxPeriod
  <2>1. CASE setting.negate
    <3>1. Offset(setting) = 0 /\ Whole!Reach(setting) = setting.period
      BY <2>1 DEF Offset, Whole!Reach
    <3> QED
      BY <1>1, <3>1 DEF Silent
  <2>2. CASE ~setting.negate
    <3>1. Offset(setting) = setting.period \div 2^setting.shift
          /\ Whole!Reach(setting) = setting.period + (setting.period \div 2^setting.shift)
      BY <2>2 DEF Offset, Whole!Reach
    <3> QED
      BY <3>1 DEF Silent
  <2> QED
    BY <2>1, <2>2
<1>5. Level(p) = IF Silent(setting) THEN 0 ELSE SquareAmp(p, setting)
  BY <1>1, <1>3, <1>4 DEF Level, Whole!LevelOf
<1>6. LET q == (p + 1) % 8
      IN  /\ q \in 0..7
          /\ SquareAmp(q, setting) = IF q \in {0, Duty(setting)}
                                     THEN v - SquareAmp(p, setting)
                                     ELSE SquareAmp(p, setting)
  <2>1. (p + 1) % 8 = IF p = 7 THEN 0 ELSE p + 1
    OBVIOUS
  <2> DEFINE q == IF p = 7 THEN 0 ELSE p + 1
             D == Duty(setting)
  <2>2. q \in 0..7 /\ D \in {1, 2, 4}
    BY <1>2, <1>1
  <2>3. q < D <=> IF q \in {0, D} THEN ~(p < D) ELSE p < D
    <3> HIDE DEF D
    <3> QED
      BY <2>2
  <2> HIDE DEF D
  <2>4. CASE setting.duty = 3
    <3>1. \A i \in 0..7 : SquareAmp(i, setting) = IF i < D THEN 0 ELSE v
      BY <2>4 DEF SquareAmp, D
    <3> HIDE DEF q, v
    <3> QED
      BY <1>1, <2>1, <2>2, <2>3, <3>1 DEF q, D
  <2>5. CASE setting.duty # 3
    <3>1. \A i \in 0..7 : SquareAmp(i, setting) = IF i < D THEN v ELSE 0
      BY <2>5 DEF SquareAmp, D
    <3> HIDE DEF q, v
    <3> QED
      BY <1>1, <2>1, <2>2, <2>3, <3>1 DEF q, D
  <2> QED
    BY <2>4, <2>5
<1> QED
  BY <1>1, <1>3, <1>5, <1>6 DEF SquareAmp

Toggles == [delta : Int, out : Seq(Deltas)]

ToggleStart ==
    [delta |-> 2 * SquareAmp(osc.phase, setting) - setting.volume,
     out   |-> Change(last_time, SquareAmp(osc.phase, setting) - osc.last_amp)]

\* The loop of a run, expiry by expiry.
LEMMA SquareFolds ==
    ASSUME NEW gap, RunType(gap), voice = "square",
           osc \in [phase : 0..7, delay : Nat, last_amp : Int]
    PROVE  LET n == Expiries(From, last_time + gap, Pulse)
               moved(last) == [phase |-> (osc.phase + n) % 8,
                               delay |-> From + n * Pulse - (last_time + gap),
                               last_amp |-> last]
           IN  \E f \in [0..n -> Toggles] :
                  /\ f[0] = ToggleStart
                  /\ \A k \in 0..(n - 1) : f[k + 1] = ToggleAt(f[k], k + 1)
                  /\ Run(last_time, last_time + gap) =
                        IF Silent(setting)
                        THEN [osc |-> moved(0), out |-> Change(last_time, -osc.last_amp)]
                        ELSE [osc |-> moved((f[n].delta + setting.volume) \div 2),
                              out |-> f[n].out]
<1> DEFINE end == last_time + gap
           n == Expiries(From, end, Pulse)
           seq == Steps(n)
           V == Toggles
           g == [p \in V \X (1..n) |-> ToggleAt(p[1], p[2])]
           Is(iter) == iter = [s \in SUBSET (DOMAIN seq) |->
                                  IF s = {} THEN ToggleStart
                                  ELSE ToggleAt(iter[s \ {Max(s)}], seq[Max(s)])]
           it == CHOOSE iter : Is(iter)
           moved(last) == [phase |-> (osc.phase + n) % 8, delay |-> From + n * Pulse - end,
                           last_amp |-> last]
<1>1. setting.volume \in Nat /\ Pulse \in Nat \ {0} /\ VoiceType
  BY VoiceCases DEF RunType, Pulse
<1>2. /\ n \in Nat /\ last_time \in Times
      /\ \A k \in 1..n : From + (k - 1) * Pulse \in Times
  BY <1>1, ExpiryTimes
<1>3. DOMAIN seq = 1..n /\ \A k \in 1..n : seq[k] = k
  BY DEF Steps
<1>4. ToggleStart \in V
  <2>1. SquareAmp(osc.phase, setting) \in Int /\ osc.last_amp \in Int
    BY <1>1, SquareLevel
  <2> DEFINE x == SquareAmp(osc.phase, setting)
  <2>2. 2 * x - setting.volume \in Int /\ x - osc.last_amp \in Int
    BY <1>1, <2>1
  <2> HIDE DEF x
  <2>3. Change(last_time, x - osc.last_amp) \in Seq(Deltas)
    <3>1. changes \in Logs
      BY DEF RunType, Start, States
    <3> QED
      BY <1>2, <2>2, <3>1, LogChange
  <2> QED
    BY <2>2, <2>3 DEF ToggleStart, Toggles, x
<1>5. Run(last_time, end) =
          IF Silent(setting)
          THEN [osc |-> moved(0), out |-> Change(last_time, -osc.last_amp)]
          ELSE [osc |-> moved((it[DOMAIN seq].delta + setting.volume) \div 2),
                out |-> it[DOMAIN seq].out]
  <2>1. Run(last_time, end) = SquareRun(osc, setting, last_time, end)
    BY DEF Run
  <2> HIDE DEF end
  <2>2. SquareRun(osc, setting, last_time, end) =
          IF Silent(setting)
          THEN [osc |-> moved(0), out |-> Change(last_time, -osc.last_amp)]
          ELSE [osc |-> moved((it[DOMAIN seq].delta + setting.volume) \div 2),
                out |-> it[DOMAIN seq].out]
    BY DEF SquareRun, FoldLeft, MapThenFoldSet, From, Pulse, ToggleAt, Turns,
           ToggleStart, SquareRange
  <2> QED
    BY <2>1, <2>2
<1> HIDE DEF n, seq, end, it
<1>6. g \in [V \X (1..n) -> V]
  <2> SUFFICES ASSUME NEW a \in V, NEW k \in 1..n PROVE ToggleAt(a, k) \in V
    OBVIOUS
  <2>1. -a.delta \in Int /\ a.out \in Seq(Deltas)
    BY DEF Toggles
  <2> DEFINE x == <<From + (k - 1) * Pulse, -a.delta>>
  <2>2. x \in Deltas
    BY <1>2, <2>1 DEF Deltas
  <2> HIDE DEF x
  <2>3. Append(a.out, x) \in Seq(Deltas)
    BY <2>1, <2>2
  <2>4. [delta |-> -a.delta, out |-> Append(a.out, x)] \in V
    BY <2>1, <2>3 DEF Toggles
  <2> QED
    BY <2>4 DEF ToggleAt, x
<1>7. \A a \in V, k \in 1..n : g[<<a, k>>] = ToggleAt(a, k)
  OBVIOUS
<1> HIDE DEF g, V
<1>8. \A s \in SUBSET (1..n) : s # {} => /\ Max(s) \in 1..n /\ seq[Max(s)] = Max(s)
                                          /\ s \ {Max(s)} \in SUBSET (1..n)
  BY <1>2, <1>3, Segments
<1>9. Is(it)
  <2>1. PICK h \in [SUBSET (1..n) -> V] : FoldsUp(h, n, ToggleStart, g)
    BY <1>2, <1>4, <1>6, FoldMax
  <2>2. ASSUME NEW s \in SUBSET (1..n)
        PROVE  h[s] = IF s = {} THEN ToggleStart
                      ELSE ToggleAt(h[s \ {Max(s)}], seq[Max(s)])
    <3>1. CASE s = {}
      BY <2>1, <3>1 DEF FoldsUp
    <3>2. CASE s # {}
      <4>1. Max(s) \in 1..n /\ seq[Max(s)] = Max(s) /\ h[s \ {Max(s)}] \in V
        BY <1>8, <3>2
      <4>2. h[s] = g[<<h[s \ {Max(s)}], Max(s)>>]
        BY <2>1, <3>2 DEF FoldsUp
      <4>3. g[<<h[s \ {Max(s)}], Max(s)>>] = ToggleAt(h[s \ {Max(s)}], Max(s))
        BY <4>1, <1>7
      <4> QED
        BY <3>2, <4>1, <4>2, <4>3
    <3> QED
      BY <3>1, <3>2
  <2>3. Is(h)
    BY <1>3, <2>2
  <2> QED
    BY <2>3 DEF it
<1>10. FoldsIn(it, V, n, ToggleStart, g)
  <2>1. \A s \in SUBSET (1..n) :
           it[s] = IF s = {} THEN ToggleStart
                   ELSE ToggleAt(it[s \ {Max(s)}], seq[Max(s)])
    BY <1>3, <1>9
  <2> HIDE DEF Is
  <2>2. it[{}] = ToggleStart
    BY <2>1
  <2>3. ASSUME NEW s \in SUBSET (1..n), s # {}, it[s \ {Max(s)}] \in V
        PROVE  it[s] = g[<<it[s \ {Max(s)}], Max(s)>>]
    <3>1. Max(s) \in 1..n /\ seq[Max(s)] = Max(s)
      BY <1>8, <2>3
    <3>2. it[s] = ToggleAt(it[s \ {Max(s)}], seq[Max(s)])
      BY <2>1, <2>3
    <3>3. g[<<it[s \ {Max(s)}], Max(s)>>] = ToggleAt(it[s \ {Max(s)}], Max(s))
      BY <1>7, <2>3, <3>1
    <3> QED
      BY <3>1, <3>2, <3>3
  <2> QED
    BY <2>2, <2>3 DEF FoldsIn
<1> HIDE DEF Is
<1>11. PICK f \in [0..n -> V] : f[n] = it[1..n] /\ StepBy(f, n, ToggleStart, g)
  BY <1>2, <1>4, <1>6, <1>10, FoldSegments
<1>12. ASSUME NEW k \in 0..(n - 1) PROVE f[k + 1] = ToggleAt(f[k], k + 1)
  <2>1. f[k] \in V /\ k + 1 \in 1..n
    BY <1>2
  <2>2. f[k + 1] = g[<<f[k], k + 1>>]
    BY <1>11 DEF StepBy
  <2> QED
    BY <2>1, <2>2, <1>7
<1>13. f[0] = ToggleStart
  BY <1>11 DEF StepBy
<1>14. Run(last_time, end) =
          IF Silent(setting)
          THEN [osc |-> moved(0), out |-> Change(last_time, -osc.last_amp)]
          ELSE [osc |-> moved((f[n].delta + setting.volume) \div 2), out |-> f[n].out]
  BY <1>3, <1>5, <1>11
<1> QED
  BY <1>12, <1>13, <1>14 DEF V, n, end

\* A run of the square plays its waveform.
LEMMA SquareRuns ==
    ASSUME NEW gap, RunType(gap), voice = "square",
           osc \in [phase : 0..7, delay : Nat, last_amp : Int],
           NEW ph, NEW m, Course(ph, m)
    PROVE  LET p   == Whole!Period(setting)
               n   == Expiries(From, last_time + gap, p)
               run == Run(last_time, last_time + gap)
           IN  /\ run.osc = [phase |-> ph[n], delay |-> osc.delay + n * p - gap,
                             last_amp |-> Level(ph[n])]
               /\ run.out \in Seq(Deltas) /\ Log(changes, run.out) = m[n]
<1> DEFINE p == Pulse
           n == Expiries(From, last_time + gap, p)
           run == Run(last_time, last_time + gap)
           v == setting.volume
<1>1. v \in Nat /\ p \in Nat \ {0} /\ VoiceType /\ p = Whole!Period(setting)
  BY VoiceCases DEF RunType, Pulse, Whole!Period
<1>2. /\ n \in Nat /\ last_time \in Times
      /\ \A k \in 1..n : /\ From + (k - 1) * p \in Times /\ k - 1 \in Nat
                        /\ base + (From + (k - 1) * p) = Now + (osc.delay + (k - 1) * p)
  BY <1>1, ExpiryTimes
<1>3. /\ PhaseType = 0..7 /\ Phase = osc.phase /\ changes \in Logs /\ osc.last_amp \in Int
      /\ base + last_time = Now
  BY <1>1, VoiceCases DEF RunType, Start, States, Phase, Now
<1>4. /\ ph \in [Nat -> 0..7] /\ m \in [Nat -> Logs] /\ ph[0] = osc.phase
      /\ \A k \in Nat : ph[k + 1] = (ph[k] + 1) % 8
      /\ m[0] = Mark(changes, Now, Level(osc.phase) - osc.last_amp)
      /\ \A k \in Nat :
            m[k + 1] = Mark(m[k], Now + (osc.delay + k * p), Level(ph[k + 1]) - Level(ph[k]))
  BY <1>1, <1>3 DEF Course, Whole!PhaseAfter
<1>5. \A k \in Nat : ph[k] = (osc.phase + k) % 8
  <2> DEFINE T == {k \in Nat : ph[k] = (osc.phase + k) % 8}
  <2>1. 0 \in T
    BY <1>4
  <2>2. ASSUME NEW k \in Nat, k \in T PROVE k + 1 \in T
    <3>1. (((osc.phase + k) % 8) + 1) % 8 = (osc.phase + (k + 1)) % 8
      OBVIOUS
    <3> QED
      BY <1>4, <2>2, <3>1
  <2> HIDE DEF T
  <2>3. Nat \subseteq T
    BY <2>1, <2>2, SetInduction
  <2> QED
    BY <2>3 DEF T
<1> DEFINE moved(last) == [phase |-> ph[n], delay |-> From + n * p - (last_time + gap),
                           last_amp |-> last]
<1>6. PICK f \in [0..n -> Toggles] :
          /\ f[0] = ToggleStart
          /\ \A k \in 0..(n - 1) : f[k + 1] = ToggleAt(f[k], k + 1)
          /\ run = IF Silent(setting)
                   THEN [osc |-> moved(0), out |-> Change(last_time, -osc.last_amp)]
                   ELSE [osc |-> moved((f[n].delta + v) \div 2), out |-> f[n].out]
  <2> HIDE DEF n
  <2>1. ph[n] = (osc.phase + n) % 8
    BY <1>2, <1>5
  <2> QED
    BY <2>1, SquareFolds DEF n
<1>7. \A last : moved(last) = [phase |-> ph[n], delay |-> osc.delay + n * p - gap,
                               last_amp |-> last]
  <2>1. n * p \in Nat /\ gap \in Nat /\ osc.delay \in Nat /\ last_time \in Nat
    BY <1>1, <1>2, Products DEF RunType
  <2>2. From + n * p - (last_time + gap) = osc.delay + n * p - gap
    <3> DEFINE q == n * p
    <3> HIDE DEF q
    <3> QED
      BY <2>1 DEF From, q
  <2> QED
    BY <2>2
<1> HIDE DEF n, run, moved, p
<1>8. CASE Silent(setting)
  <2>1. ASSUME NEW k \in Nat PROVE Level(ph[k]) = 0
    <3>1. ph[k] \in 0..7
      BY <1>4
    <3> QED
      BY <1>1, <1>8, <3>1, SquareLevel
  <2>2. \A k \in Nat : m[k] = m[0]
    <3> DEFINE T == {k \in Nat : m[k] = m[0]}
    <3>1. 0 \in T
      OBVIOUS
    <3>2. ASSUME NEW k \in Nat, k \in T PROVE k + 1 \in T
      <4>1. m[k + 1] = Mark(m[k], Now + (osc.delay + k * p), 0 - 0) /\ 0 - 0 = 0
        BY <1>4, <2>1
      <4> QED
        BY <1>4, <3>2, <4>1, MarkType
    <3> HIDE DEF T
    <3>3. Nat \subseteq T
      BY <3>1, <3>2, SetInduction
    <3> QED
      BY <3>3 DEF T
  <2>3. m[0] = Mark(changes, Now, -osc.last_amp)
    <3>1. Level(osc.phase) = 0 /\ 0 - osc.last_amp = -osc.last_amp
      BY <1>3, <1>4, <2>1
    <3> QED
      BY <1>4, <3>1
  <2>4. /\ Change(last_time, -osc.last_amp) \in Seq(Deltas)
        /\ Log(changes, Change(last_time, -osc.last_amp)) = Mark(changes, Now, -osc.last_amp)
    <3>1. -osc.last_amp \in Int
      BY <1>3
    <3> QED
      BY <1>2, <1>3, <3>1, LogChange
  <2>5. run.osc = moved(0) /\ run.out = Change(last_time, -osc.last_amp)
    BY <1>6, <1>8
  <2> QED
    BY <1>1, <1>2, <1>7, <2>1, <2>2, <2>3, <2>4, <2>5 DEF n, run, p
<1>9. CASE ~Silent(setting)
  <2> DEFINE amp == [k \in Nat |-> SquareAmp(ph[k], setting)]
  <2>1. ASSUME NEW k \in Nat
        PROVE  /\ Level(ph[k]) = amp[k] /\ amp[k] \in {0, v}
               /\ amp[k + 1] = IF ph[k + 1] \in {0, Duty(setting)}
                               THEN v - amp[k] ELSE amp[k]
    <3>1. ph[k] \in 0..7 /\ ph[k + 1] = (ph[k] + 1) % 8
      BY <1>4
    <3>2. amp[k] = SquareAmp(ph[k], setting) /\ amp[k + 1] = SquareAmp(ph[k + 1], setting)
      OBVIOUS
    <3> HIDE DEF amp
    <3> QED
      BY <1>1, <1>9, <3>1, <3>2, SquareLevel
  <2>0. amp[0] = SquareAmp(osc.phase, setting)
    BY <1>4
  <2> HIDE DEF amp
  <2> DEFINE T == {k \in Nat : k <= n => f[k].delta = 2 * amp[k] - v}
  <2>2. 0 \in T
    BY <1>6, <2>0 DEF ToggleStart
  <2>3. \A k \in 0..(n - 1) : Turns(k + 1) <=> ph[k + 1] \in {0, Duty(setting)}
    BY <1>2, <1>5 DEF Turns, SquareRange
  <2>4. ASSUME NEW k \in Nat, k \in T PROVE k + 1 \in T
    <3> SUFFICES ASSUME k + 1 <= n PROVE f[k + 1].delta = 2 * amp[k + 1] - v
      OBVIOUS
    <3>1. f[k].delta = 2 * amp[k] - v /\ k \in 0..(n - 1)
      BY <1>2, <2>4
    <3>2. f[k + 1] = ToggleAt(f[k], k + 1)
      BY <1>6, <3>1
    <3>3. f[k + 1].delta = IF Turns(k + 1) THEN -f[k].delta ELSE f[k].delta
      BY <3>2 DEF ToggleAt
    <3>4. amp[k] \in Int /\ amp[k + 1] = IF Turns(k + 1) THEN v - amp[k] ELSE amp[k]
      <4>1. amp[k] \in {0, v}
            /\ amp[k + 1] = IF ph[k + 1] \in {0, Duty(setting)} THEN v - amp[k] ELSE amp[k]
        BY <2>1
      <4> QED
        BY <1>1, <2>3, <3>1, <4>1
    <3> DEFINE x == amp[k]
               y == amp[k + 1]
    <3> HIDE DEF T, x, y
    <3> QED
      BY <1>1, <3>1, <3>3, <3>4 DEF x, y
  <2>5. \A k \in 0..n : f[k].delta = 2 * amp[k] - v
    <3> HIDE DEF T
    <3>1. Nat \subseteq T
      BY <2>2, <2>4, SetInduction
    <3> QED
      BY <1>2, <3>1 DEF T
  <2> HIDE DEF T
  <2> DEFINE outs == [k \in 0..n |-> f[k].out]
  <2>6. Outs(outs, n, ph)
    <3>1. outs[0] = Change(last_time, Level(Phase) - osc.last_amp)
      <4>1. outs[0] = f[0].out
        BY <1>2
      <4>2. Level(Phase) = amp[0]
        BY <1>3, <1>4, <2>1
      <4> QED
        BY <1>6, <2>0, <4>1, <4>2 DEF ToggleStart
    <3>2. ASSUME NEW k \in 0..(n - 1)
          PROVE  Extends(outs[k + 1], outs[k], From + k * p, Level(ph[k + 1]) - Level(ph[k]))
      <4>1. /\ f[k + 1] = ToggleAt(f[k], k + 1) /\ f[k].delta = 2 * amp[k] - v
            /\ outs[k + 1] = f[k + 1].out /\ outs[k] = f[k].out /\ (k + 1) - 1 = k
        BY <1>2, <1>6, <2>5
      <4>2. /\ amp[k] \in {0, v} /\ Level(ph[k]) = amp[k] /\ Level(ph[k + 1]) = amp[k + 1]
            /\ amp[k + 1] = IF Turns(k + 1) THEN v - amp[k] ELSE amp[k]
        <5>1. k \in Nat /\ k + 1 \in Nat
          BY <1>2
        <5>2. /\ amp[k] \in {0, v} /\ Level(ph[k]) = amp[k] /\ Level(ph[k + 1]) = amp[k + 1]
              /\ amp[k + 1] = IF ph[k + 1] \in {0, Duty(setting)} THEN v - amp[k] ELSE amp[k]
          BY <2>1, <5>1
        <5> QED
          BY <2>3, <5>2
      <4> DEFINE x == amp[k]
                 y == amp[k + 1]
      <4> HIDE DEF x, y, outs
      <4>4. CASE Turns(k + 1)
        <5>1. -f[k].delta = y - x
          BY <1>1, <4>1, <4>2, <4>4 DEF x, y
        <5>2. f[k + 1].out = Append(f[k].out, <<From + k * p, -f[k].delta>>)
          BY <4>1, <4>4 DEF ToggleAt, p
        <5> QED
          BY <4>1, <4>2, <5>1, <5>2 DEF Extends, x, y
      <4>5. CASE ~Turns(k + 1)
        <5>1. y - x = 0 /\ f[k + 1].out = f[k].out
          BY <1>1, <4>1, <4>2, <4>5 DEF x, y, ToggleAt
        <5> QED
          BY <4>1, <4>2, <5>1 DEF Extends, x, y
      <4> QED
        BY <4>4, <4>5
    <3> QED
      BY <1>1, <3>1, <3>2 DEF Outs
  <2>7. f[n].out \in Seq(Deltas) /\ Log(changes, f[n].out) = m[n]
    <3>1. n \in 0..n
      BY <1>2
    <3>2. outs[n] \in Seq(Deltas) /\ Log(changes, outs[n]) = m[n]
      BY <1>1, <2>6, <3>1, OutsFollow DEF n
    <3> QED
      BY <3>1, <3>2
  <2>8. (f[n].delta + v) \div 2 = Level(ph[n])
    <3>1. amp[n] \in Int /\ amp[n] = Level(ph[n]) /\ f[n].delta = 2 * amp[n] - v
      <4>1. n \in Nat /\ n \in 0..n
        BY <1>2
      <4>2. amp[n] \in {0, v} /\ amp[n] = Level(ph[n])
        BY <2>1, <4>1
      <4> QED
        BY <1>1, <2>5, <4>1, <4>2
    <3> QED
      BY <1>1, <3>1
  <2>9. run.osc = moved((f[n].delta + v) \div 2) /\ run.out = f[n].out
    BY <1>6, <1>9
  <2> QED
    BY <1>1, <1>7, <2>7, <2>8, <2>9 DEF n, run, p
<1> QED
  BY <1>8, <1>9 DEF n, run, p

-----------------------------------------------------------------------------
(* Nes_Triangle.                                                           *)

R == TriangleRange
Timer == setting.period + 1
Moves == [phase : 1..R, volume : {-1, 1}, out : Seq(Deltas)]

\* The phase of the waveform, from the part of a slope and its direction.
PhaseOf(a) == a.phase + (IF a.volume < 0 THEN R ELSE 0)

MoveStart ==
    [phase  |-> IF osc.phase > R THEN osc.phase - R ELSE osc.phase,
     volume |-> IF osc.phase > R THEN -1 ELSE 1,
     out    |-> Change(last_time, calc_amp(osc.phase) - osc.last_amp)]

MoveAt(a, k) ==
    IF a.phase = 1
    THEN [a EXCEPT !.phase = R, !.volume = -@]
    ELSE [a EXCEPT !.phase = @ - 1,
                   !.out = Append(@, <<From + (k - 1) * Timer, a.volume>>)]

\* The amplitude is the level of Sound, and moves by the volume but at the ends.
LEMMA TriangleLevel ==
    ASSUME VoiceType, voice = "triangle", NEW q \in 1..(2 * R)
    PROVE  Level(q) = calc_amp(q) /\ calc_amp(q) \in Int
<1>1. R \in Nat \ {0}
  BY VoiceAssumption DEF R
<1>2. calc_amp(q) = IF R - q < 0 THEN q - (R + 1) ELSE R - q
  BY DEF calc_amp, R
<1>3. Level(q) = IF q <= R THEN R - q ELSE q - R - 1
  BY DEF Level, Whole!LevelOf, R
<1> QED
  BY <1>1, <1>2, <1>3

\* One expiry is one step of the waveform.
LEMMA TriangleMoves ==
    ASSUME VoiceType, voice = "triangle", NEW a \in Moves, NEW k
    PROVE  LET b == MoveAt(a, k)
               q == PhaseOf(a)
               r == PhaseOf(b)
           IN  /\ q \in 1..(2 * R) /\ r = Whole!PhaseAfter(q, setting)
               /\ b.phase \in 1..R /\ b.volume \in {-1, 1}
               /\ IF a.phase = 1 THEN calc_amp(r) - calc_amp(q) = 0
                                 ELSE calc_amp(r) - calc_amp(q) = a.volume
               /\ b.out = IF a.phase = 1 THEN a.out
                          ELSE Append(a.out, <<From + (k - 1) * Timer, a.volume>>)
<1> DEFINE b == MoveAt(a, k)
           q == PhaseOf(a)
           r == PhaseOf(b)
<1>1. R \in Nat \ {0} /\ a.phase \in 1..R /\ a.volume \in {-1, 1} /\ a.out \in Seq(Deltas)
  BY VoiceAssumption DEF R, Moves
<1>2. a = [phase |-> a.phase, volume |-> a.volume, out |-> a.out]
  BY DEF Moves
<1>3. b.out = IF a.phase = 1 THEN a.out
              ELSE Append(a.out, <<From + (k - 1) * Timer, a.volume>>)
  BY <1>2 DEF MoveAt
<1>4. /\ b.phase = IF a.phase = 1 THEN R ELSE a.phase - 1
      /\ b.volume = IF a.phase = 1 THEN -a.volume ELSE a.volume
  BY <1>2 DEF MoveAt
<1>5. q = a.phase + (IF a.volume < 0 THEN R ELSE 0)
  BY DEF PhaseOf
<1>6. r = b.phase + (IF b.volume < 0 THEN R ELSE 0)
  BY DEF PhaseOf
<1>7. Whole!PhaseAfter(q, setting) = IF q = 1 THEN 2 * R ELSE q - 1
  BY DEF Whole!PhaseAfter, R
<1>8. /\ calc_amp(q) = IF R - q < 0 THEN q - (R + 1) ELSE R - q
      /\ calc_amp(r) = IF R - r < 0 THEN r - (R + 1) ELSE R - r
  BY DEF calc_amp, R
<1> HIDE DEF b, q, r
<1>9. q \in 1..(2 * R) /\ b.phase \in 1..R /\ b.volume \in {-1, 1}
  BY <1>1, <1>4, <1>5
<1>10. /\ r = Whole!PhaseAfter(q, setting)
       /\ calc_amp(r) - calc_amp(q) = IF a.phase = 1 THEN 0 ELSE a.volume
  <2>1. CASE a.volume = 1 /\ a.phase = 1
    <3>1. q = 1 /\ r = 2 * R
      BY <1>1, <1>4, <1>5, <1>6, <2>1
    <3> QED
      BY <1>1, <1>7, <1>8, <2>1, <3>1
  <2>2. CASE a.volume = 1 /\ a.phase # 1
    <3>1. q = a.phase /\ r = a.phase - 1
      BY <1>1, <1>4, <1>5, <1>6, <2>2
    <3> QED
      BY <1>1, <1>7, <1>8, <2>2, <3>1
  <2>3. CASE a.volume = -1 /\ a.phase = 1
    <3>1. b.volume = 1 /\ a.volume < 0
      <4>1. a.volume + 1 = 0 /\ a.volume \in Int /\ a.phase = 1
        BY <2>3
      <4>2. b.volume = -a.volume
        BY <1>4, <4>1
      <4> QED
        BY <4>1, <4>2
    <3>2. q = R + 1 /\ r = R
      BY <1>1, <1>4, <1>5, <1>6, <2>3, <3>1
    <3> QED
      BY <1>1, <1>7, <1>8, <2>3, <3>2
  <2>4. CASE a.volume = -1 /\ a.phase # 1
    <3>1. q = a.phase + R /\ r = (a.phase - 1) + R
      BY <1>1, <1>4, <1>5, <1>6, <2>4
    <3> QED
      BY <1>1, <1>7, <1>8, <2>4, <3>1
  <2> QED
    BY <1>1, <2>1, <2>2, <2>3, <2>4
<1> QED
  BY <1>3, <1>9, <1>10 DEF b, q, r

\* The loop of a run.
LEMMA TriangleFolds ==
    ASSUME NEW gap, RunType(gap), voice = "triangle", Whole!Counting(setting),
           osc \in [phase : 1..(2 * R), delay : Nat, last_amp : Int]
    PROVE  LET n == Expiries(From, last_time + gap, Timer)
               moved(phase) == [phase |-> phase,
                                delay |-> From + n * Timer - (last_time + gap),
                                last_amp |-> calc_amp(phase)]
           IN  \E f \in [0..n -> Moves] :
                  /\ f[0] = MoveStart
                  /\ \A k \in 0..(n - 1) : f[k + 1] = MoveAt(f[k], k + 1)
                  /\ Run(last_time, last_time + gap) =
                        [osc |-> moved(PhaseOf(f[n])), out |-> f[n].out]
<1> DEFINE end == last_time + gap
           n == Expiries(From, end, Timer)
           seq == Steps(n)
           V == Moves
           g == [p \in V \X (1..n) |-> MoveAt(p[1], p[2])]
           Is(iter) == iter = [s \in SUBSET (DOMAIN seq) |->
                                  IF s = {} THEN MoveStart
                                  ELSE MoveAt(iter[s \ {Max(s)}], seq[Max(s)])]
           it == CHOOSE iter : Is(iter)
           moved(phase) == [phase |-> phase, delay |-> From + n * Timer - end,
                            last_amp |-> calc_amp(phase)]
<1>0. R \in Nat \ {0} /\ osc.phase \in 1..(2 * R)
  BY VoiceAssumption DEF R
<1>1. setting.period \in Nat /\ Timer \in Nat \ {0} /\ VoiceType
  BY VoiceCases DEF RunType, Timer
<1>2. /\ n \in Nat /\ last_time \in Times
      /\ \A k \in 1..n : From + (k - 1) * Timer \in Times
  BY <1>1, ExpiryTimes
<1>3. DOMAIN seq = 1..n /\ \A k \in 1..n : seq[k] = k
  BY DEF Steps
<1>4. MoveStart \in V
  <2>1. calc_amp(osc.phase) \in Int /\ osc.last_amp \in Int
    BY <1>0, <1>1, TriangleLevel
  <2> DEFINE x == calc_amp(osc.phase) - osc.last_amp
  <2>2. x \in Int
    BY <2>1
  <2> HIDE DEF x
  <2>3. Change(last_time, x) \in Seq(Deltas)
    <3>1. changes \in Logs
      BY DEF RunType, Start, States
    <3> QED
      BY <1>2, <2>2, <3>1, LogChange
  <2>4. /\ (IF osc.phase > R THEN osc.phase - R ELSE osc.phase) \in 1..R
        /\ (IF osc.phase > R THEN -1 ELSE 1) \in {-1, 1}
    BY <1>0
  <2> QED
    BY <2>3, <2>4 DEF MoveStart, Moves, x
<1>5. Run(last_time, end) =
          [osc |-> moved(PhaseOf(it[DOMAIN seq])), out |-> it[DOMAIN seq].out]
  <2>1. Run(last_time, end) = TriangleRun(osc, setting, last_time, end)
    BY DEF Run
  <2>2. setting.on /\ ~(Timer < MinTimer)
    <3>1. setting.on /\ Timer >= MinTimer
      BY DEF Whole!Counting, Timer
    <3>2. MinTimer \in Nat
      BY VoiceAssumption
    <3> HIDE DEF end, seq, it, g, V
    <3> QED
      BY <1>1, <3>1, <3>2
  <2> HIDE DEF end
  <2>3. TriangleRun(osc, setting, last_time, end) =
          [osc |-> moved(PhaseOf(it[DOMAIN seq])), out |-> it[DOMAIN seq].out]
    BY <2>2, Zenon DEF TriangleRun, FoldLeft, MapThenFoldSet, From, Timer, MoveAt,
                MoveStart, PhaseOf, R
  <2> QED
    BY <2>1, <2>3
<1> HIDE DEF n, seq, end, it
<1>6. g \in [V \X (1..n) -> V]
  <2> SUFFICES ASSUME NEW a \in V, NEW k \in 1..n PROVE MoveAt(a, k) \in V
    OBVIOUS
  <2> DEFINE b == MoveAt(a, k)
             x == <<From + (k - 1) * Timer, a.volume>>
  <2>1. a.volume \in Int /\ a.out \in Seq(Deltas)
    BY DEF Moves
  <2>2. x \in Deltas
    BY <1>2, <2>1 DEF Deltas
  <2>3. /\ b.phase \in 1..R /\ b.volume \in {-1, 1}
        /\ b.out = IF a.phase = 1 THEN a.out ELSE Append(a.out, x)
    BY <1>1, TriangleMoves
  <2>4. b = [phase |-> b.phase, volume |-> b.volume, out |-> b.out]
    BY DEF MoveAt, Moves
  <2> HIDE DEF x, b
  <2>5. Append(a.out, x) \in Seq(Deltas)
    BY <2>1, <2>2
  <2>6. b.out \in Seq(Deltas)
    BY <2>1, <2>3, <2>5
  <2> QED
    BY <2>3, <2>4, <2>6 DEF Moves, b
<1>7. \A a \in V, k \in 1..n : g[<<a, k>>] = MoveAt(a, k)
  OBVIOUS
<1> HIDE DEF g, V
<1>8. \A s \in SUBSET (1..n) : s # {} => /\ Max(s) \in 1..n /\ seq[Max(s)] = Max(s)
                                          /\ s \ {Max(s)} \in SUBSET (1..n)
  BY <1>2, <1>3, Segments
<1>9. Is(it)
  <2>1. PICK h \in [SUBSET (1..n) -> V] : FoldsUp(h, n, MoveStart, g)
    BY <1>2, <1>4, <1>6, FoldMax
  <2>2. ASSUME NEW s \in SUBSET (1..n)
        PROVE  h[s] = IF s = {} THEN MoveStart
                      ELSE MoveAt(h[s \ {Max(s)}], seq[Max(s)])
    <3>1. CASE s = {}
      BY <2>1, <3>1 DEF FoldsUp
    <3>2. CASE s # {}
      <4>1. Max(s) \in 1..n /\ seq[Max(s)] = Max(s) /\ h[s \ {Max(s)}] \in V
        BY <1>8, <3>2
      <4>2. h[s] = g[<<h[s \ {Max(s)}], Max(s)>>]
        BY <2>1, <3>2 DEF FoldsUp
      <4>3. g[<<h[s \ {Max(s)}], Max(s)>>] = MoveAt(h[s \ {Max(s)}], Max(s))
        BY <4>1, <1>7
      <4> QED
        BY <3>2, <4>1, <4>2, <4>3
    <3> QED
      BY <3>1, <3>2
  <2>3. Is(h)
    BY <1>3, <2>2
  <2> QED
    BY <2>3 DEF it
<1>10. FoldsIn(it, V, n, MoveStart, g)
  <2>1. \A s \in SUBSET (1..n) :
           it[s] = IF s = {} THEN MoveStart
                   ELSE MoveAt(it[s \ {Max(s)}], seq[Max(s)])
    BY <1>3, <1>9
  <2> HIDE DEF Is
  <2>2. it[{}] = MoveStart
    BY <2>1
  <2>3. ASSUME NEW s \in SUBSET (1..n), s # {}, it[s \ {Max(s)}] \in V
        PROVE  it[s] = g[<<it[s \ {Max(s)}], Max(s)>>]
    <3>1. Max(s) \in 1..n /\ seq[Max(s)] = Max(s)
      BY <1>8, <2>3
    <3>2. it[s] = MoveAt(it[s \ {Max(s)}], seq[Max(s)])
      BY <2>1, <2>3
    <3>3. g[<<it[s \ {Max(s)}], Max(s)>>] = MoveAt(it[s \ {Max(s)}], Max(s))
      BY <1>7, <2>3, <3>1
    <3> QED
      BY <3>1, <3>2, <3>3
  <2> QED
    BY <2>2, <2>3 DEF FoldsIn
<1> HIDE DEF Is
<1>11. PICK f \in [0..n -> V] : f[n] = it[1..n] /\ StepBy(f, n, MoveStart, g)
  BY <1>2, <1>4, <1>6, <1>10, FoldSegments
<1>12. ASSUME NEW k \in 0..(n - 1) PROVE f[k + 1] = MoveAt(f[k], k + 1)
  <2>1. f[k] \in V /\ k + 1 \in 1..n
    BY <1>2
  <2>2. f[k + 1] = g[<<f[k], k + 1>>]
    BY <1>11 DEF StepBy
  <2> QED
    BY <2>1, <2>2, <1>7
<1>13. f[0] = MoveStart
  BY <1>11 DEF StepBy
<1>14. Run(last_time, end) = [osc |-> moved(PhaseOf(f[n])), out |-> f[n].out]
  BY <1>3, <1>5, <1>11
<1> QED
  BY <1>12, <1>13, <1>14 DEF V, n, end

\* A run of the triangle plays its waveform, if its timer counts.
LEMMA TriangleRuns ==
    ASSUME NEW gap, RunType(gap), voice = "triangle", Whole!Counting(setting),
           osc \in [phase : 1..(2 * R), delay : Nat, last_amp : Int],
           NEW ph, NEW m, Course(ph, m)
    PROVE  LET p   == Whole!Period(setting)
               n   == Expiries(From, last_time + gap, p)
               run == Run(last_time, last_time + gap)
           IN  /\ run.osc = [phase |-> ph[n], delay |-> osc.delay + n * p - gap,
                             last_amp |-> Level(ph[n])]
               /\ run.out \in Seq(Deltas) /\ Log(changes, run.out) = m[n]
<1> DEFINE p == Timer
           n == Expiries(From, last_time + gap, p)
           run == Run(last_time, last_time + gap)
<1>1. p \in Nat \ {0} /\ VoiceType /\ p = Whole!Period(setting) /\ R \in Nat \ {0}
  <2>1. VoiceType /\ setting.period \in Nat
    BY VoiceCases DEF RunType
  <2>2. R \in Nat \ {0}
    BY VoiceAssumption DEF R
  <2> QED
    BY <2>1, <2>2 DEF Timer, Whole!Period
<1>2. n \in Nat
  BY <1>1, ExpiryTimes
<1>3. PhaseType = 1..(2 * R) /\ Phase = osc.phase /\ osc.phase \in 1..(2 * R)
  BY <1>1, VoiceCases DEF Phase, R
<1>4. /\ ph \in [Nat -> 1..(2 * R)] /\ ph[0] = osc.phase
      /\ \A k \in Nat : ph[k + 1] = Whole!PhaseAfter(ph[k], setting)
  BY <1>1, <1>3 DEF Course
<1> DEFINE moved(phase) == [phase |-> phase, delay |-> From + n * p - (last_time + gap),
                            last_amp |-> calc_amp(phase)]
<1>5. PICK f \in [0..n -> Moves] :
          /\ f[0] = MoveStart
          /\ \A k \in 0..(n - 1) : f[k + 1] = MoveAt(f[k], k + 1)
          /\ run = [osc |-> moved(PhaseOf(f[n])), out |-> f[n].out]
  BY TriangleFolds
<1>6. \A q : moved(q) = [phase |-> q, delay |-> osc.delay + n * p - gap,
                         last_amp |-> calc_amp(q)]
  <2>1. n * p \in Nat /\ gap \in Nat /\ osc.delay \in Nat /\ last_time \in Nat
    BY <1>1, <1>2, Products DEF RunType
  <2>2. From + n * p - (last_time + gap) = osc.delay + n * p - gap
    <3> DEFINE q == n * p
    <3> HIDE DEF q
    <3> QED
      BY <2>1 DEF From, q
  <2> QED
    BY <2>2
<1> HIDE DEF n, run, moved, p
<1> DEFINE T == {k \in Nat : k <= n => PhaseOf(f[k]) = ph[k]}
<1>7. 0 \in T
  <2>1. PhaseOf(MoveStart) = osc.phase
    BY <1>1, <1>3 DEF PhaseOf, MoveStart
  <2> QED
    BY <1>4, <1>5, <2>1
<1>8. ASSUME NEW k \in Nat, k \in T PROVE k + 1 \in T
  <2> SUFFICES ASSUME k + 1 <= n PROVE PhaseOf(f[k + 1]) = ph[k + 1]
    OBVIOUS
  <2>1. PhaseOf(f[k]) = ph[k] /\ k \in 0..(n - 1) /\ f[k] \in Moves
    BY <1>2, <1>8
  <2>2. f[k + 1] = MoveAt(f[k], k + 1)
    BY <1>5, <2>1
  <2> HIDE DEF T
  <2>3. PhaseOf(MoveAt(f[k], k + 1)) = Whole!PhaseAfter(PhaseOf(f[k]), setting)
    BY <1>1, <2>1, TriangleMoves
  <2> QED
    BY <1>4, <2>1, <2>2, <2>3
<1> HIDE DEF T
<1>9. \A k \in 0..n : PhaseOf(f[k]) = ph[k]
  <2>1. Nat \subseteq T
    BY <1>7, <1>8, SetInduction
  <2> QED
    BY <1>2, <2>1 DEF T
<1>10. \A k \in Nat : Level(ph[k]) = calc_amp(ph[k])
  <2> SUFFICES ASSUME NEW k \in Nat PROVE Level(ph[k]) = calc_amp(ph[k])
    OBVIOUS
  <2>1. ph[k] \in 1..(2 * R)
    BY <1>4
  <2> QED
    BY <1>1, <2>1, TriangleLevel
<1> DEFINE outs == [k \in 0..n |-> f[k].out]
<1>11. Outs(outs, n, ph)
  <2>1. outs[0] = Change(last_time, Level(Phase) - osc.last_amp)
    <3>1. outs[0] = f[0].out
      BY <1>2
    <3>2. Level(Phase) = calc_amp(osc.phase)
      BY <1>3, <1>4, <1>10
    <3> QED
      BY <1>5, <3>1, <3>2 DEF MoveStart
  <2>2. ASSUME NEW k \in 0..(n - 1)
        PROVE  Extends(outs[k + 1], outs[k], From + k * p, Level(ph[k + 1]) - Level(ph[k]))
    <3>1. k \in Nat /\ k + 1 \in Nat /\ k \in 0..n /\ k + 1 \in 0..n /\ (k + 1) - 1 = k
      BY <1>2
    <3>2. /\ f[k + 1] = MoveAt(f[k], k + 1) /\ f[k] \in Moves
          /\ outs[k + 1] = f[k + 1].out /\ outs[k] = f[k].out
      BY <1>5, <3>1
    <3>3. /\ Level(ph[k + 1]) = calc_amp(PhaseOf(f[k + 1]))
          /\ Level(ph[k]) = calc_amp(PhaseOf(f[k]))
      BY <1>9, <1>10, <3>1
    <3> DEFINE a == f[k]
               delta == calc_amp(PhaseOf(f[k + 1])) - calc_amp(PhaseOf(f[k]))
    <3>4. /\ IF a.phase = 1 THEN delta = 0 ELSE delta = a.volume
          /\ f[k + 1].out = IF a.phase = 1 THEN a.out
                            ELSE Append(a.out, <<From + ((k + 1) - 1) * Timer, a.volume>>)
      BY <1>1, <3>2, TriangleMoves
    <3> HIDE DEF outs, delta
    <3>5. IF a.phase = 1 THEN delta = 0 /\ outs[k + 1] = outs[k]
                         ELSE outs[k + 1] = Append(outs[k], <<From + k * p, delta>>)
      BY <3>1, <3>2, <3>4 DEF p
    <3>6. Level(ph[k + 1]) - Level(ph[k]) = delta
      BY <3>3 DEF delta
    <3> QED
      BY <3>5, <3>6 DEF Extends
  <2> QED
    BY <1>1, <2>1, <2>2 DEF Outs
<1>12. f[n].out \in Seq(Deltas) /\ Log(changes, f[n].out) = m[n]
  <2>1. n \in 0..n
    BY <1>2
  <2>2. outs[n] \in Seq(Deltas) /\ Log(changes, outs[n]) = m[n]
    BY <1>1, <1>11, <2>1, OutsFollow DEF n
  <2> QED
    BY <2>1, <2>2
<1>13. /\ run.osc = [phase |-> ph[n], delay |-> osc.delay + n * p - gap,
                     last_amp |-> Level(ph[n])]
       /\ run.out = f[n].out
  <2>1. PhaseOf(f[n]) = ph[n] /\ Level(ph[n]) = calc_amp(ph[n])
    BY <1>2, <1>9, <1>10
  <2>2. run = [osc |-> moved(ph[n]), out |-> f[n].out]
    BY <1>5, <2>1
  <2> QED
    BY <1>6, <2>1, <2>2
<1> QED
  BY <1>1, <1>12, <1>13 DEF n, run, p

\* A triangle whose timer does not count stays where it is.
LEMMA TriangleIdles ==
    ASSUME NEW gap, RunType(gap), voice = "triangle", ~Whole!Counting(setting),
           osc \in [phase : 1..(2 * R), delay : Nat, last_amp : Int]
    PROVE  LET run == Run(last_time, last_time + gap)
           IN  /\ run.osc = [phase |-> Phase, delay |-> 0, last_amp |-> Level(Phase)]
               /\ run.out = Change(last_time, Level(Phase) - osc.last_amp)
<1>1. VoiceType /\ setting.period \in Nat
  BY VoiceCases DEF RunType
<1>2. Phase = osc.phase /\ Level(Phase) = calc_amp(osc.phase)
  <2>1. osc.phase \in 1..(2 * R) /\ Phase = osc.phase
    BY DEF Phase
  <2> QED
    BY <1>1, <2>1, TriangleLevel
<1>3. ~setting.on \/ setting.period + 1 < MinTimer
  <2>1. MinTimer \in Nat
    BY VoiceAssumption
  <2> QED
    BY <1>1, <2>1 DEF Whole!Counting
<1> DEFINE end == last_time + gap
           first == Change(last_time, calc_amp(osc.phase) - osc.last_amp)
<1>4. Run(last_time, end) = TriangleRun(osc, setting, last_time, end)
  BY DEF Run
<1> HIDE DEF end
<1>5. TriangleRun(osc, setting, last_time, end) =
          [osc |-> [phase |-> osc.phase, delay |-> 0, last_amp |-> calc_amp(osc.phase)],
           out |-> first]
  BY <1>3 DEF TriangleRun
<1> QED
  BY <1>2, <1>4, <1>5 DEF end

-----------------------------------------------------------------------------
(* Nes_Noise.                                                              *)

Registers == 0..(2 * 2^NoiseTop - 1)
Shifts == [noise : Registers, delta : Int, out : Seq(Deltas)]

ShiftStart ==
    [noise |-> osc.phase,
     delta |-> 2 * (IF Bit(osc.phase, 0) = 1 THEN setting.volume ELSE 0) - setting.volume,
     out   |-> Change(last_time, (IF Bit(osc.phase, 0) = 1 THEN setting.volume ELSE 0)
                                   - osc.last_amp)]

ShiftAt(a, k) ==
    [noise |-> Shuffle(a.noise, setting.short),
     delta |-> IF Bit(a.noise, 0) # Bit(a.noise, 1) THEN -a.delta ELSE a.delta,
     out   |-> IF Bit(a.noise, 0) # Bit(a.noise, 1)
               THEN Append(a.out, <<From + (k - 1) * setting.period, -a.delta>>)
               ELSE a.out]

\* The register is shuffled as Sound says, its next bit becomes the first, and
\* that one makes the level.
LEMMA NoiseShift ==
    ASSUME VoiceType, voice = "noise", NEW q \in Registers
    PROVE  LET r == Whole!PhaseAfter(q, setting)
           IN  /\ r \in Registers /\ Shuffle(q, setting.short) = r
               /\ Shuffle(q, FALSE) \in Registers
               /\ Bit(q, 0) \in {0, 1} /\ Bit(r, 0) = Bit(q, 1)
               /\ Level(q) = IF Bit(q, 0) = 1 THEN setting.volume ELSE 0
<1> DEFINE h == 2^NoiseTop
           other == IF setting.short THEN ModeBit ELSE 1
           r == Whole!PhaseAfter(q, setting)
<1>1. /\ h \in Nat \ {0} /\ h % 2 = 0 /\ 2^ModeBit \in Nat \ {0}
      /\ 2^1 = 2 /\ 2^0 = 1 /\ q \in 0..(2 * h - 1)
  BY VoiceAssumption DEF Registers
<1>2. setting.short \in BOOLEAN /\ setting.volume \in Nat
  BY VoiceCases
<1>3. \A i \in {0, 1, ModeBit} : Bit(q, i) = (q \div 2^i) % 2
  BY DEF Bit
<1>4. 2^other \in Nat \ {0} /\ Bit(q, other) = (q \div 2^other) % 2
  BY <1>1, <1>3
<1>5. Bit(q, 0) = q % 2 /\ Bit(q, 1) = (q \div 2) % 2
  BY <1>1, <1>3
<1>6. r = IF q % 2 = (q \div 2^other) % 2 THEN q \div 2 ELSE (q \div 2) + h
  BY DEF Whole!PhaseAfter
<1>7. \A s : Shuffle(q, s) = (q \div 2)
                    + h * ((Bit(q, 0) + Bit(q, IF s THEN ModeBit ELSE 1)) % 2)
  BY DEF Shuffle
<1> HIDE DEF h
<1>8. \A i \in {1, ModeBit} : Bit(q, i) \in {0, 1}
  <2>1. (q \div 2) % 2 \in {0, 1}
    BY <1>1
  <2>2. ASSUME NEW d \in Nat \ {0} PROVE (q \div d) % 2 \in {0, 1}
    BY <1>1
  <2>3. (q \div 2^ModeBit) % 2 \in {0, 1}
    BY <2>2, <1>1
  <2> QED
    BY <1>3, <1>5, <2>1, <2>3
<1>9. q % 2 \in {0, 1} /\ q \div 2 \in 0..(h - 1)
  BY <1>1
<1>10. Level(q) = IF Bit(q, 0) = 1 THEN setting.volume ELSE 0
  <2>1. Level(q) = (q % 2) * setting.volume
    BY DEF Level, Whole!LevelOf
  <2> QED
    BY <2>1, <1>2, <1>5, <1>9
<1> DEFINE half == q \div 2
<1>11. /\ half \in Nat /\ half <= h - 1 /\ half \in 0..(2 * h - 1)
       /\ half + h \in 0..(2 * h - 1) /\ (half + h) % 2 = half % 2
  <2>1. half \in 0..(h - 1)
    BY <1>9
  <2> HIDE DEF half
  <2> QED
    BY <1>1, <2>1
<1>12. /\ h * 0 = 0 /\ h * 1 = h
  BY <1>1
<1>13. ASSUME NEW s \in BOOLEAN
       PROVE  LET x == Bit(q, IF s THEN ModeBit ELSE 1)
              IN  Shuffle(q, s) = IF Bit(q, 0) = x THEN half ELSE half + h
  <2> DEFINE x == Bit(q, IF s THEN ModeBit ELSE 1)
             y == Bit(q, 0)
  <2>1. x \in {0, 1} /\ y \in {0, 1}
    BY <1>5, <1>8, <1>9
  <2>2. Shuffle(q, s) = half + h * ((y + x) % 2)
    BY <1>7
  <2> HIDE DEF x, y, half
  <2>3. (y + x) % 2 = IF y = x THEN 0 ELSE 1
    BY <2>1
  <2>4. half + 0 = half
    BY <1>11
  <2> QED
    BY <1>12, <2>2, <2>3, <2>4 DEF x, y
<1>14. r = IF Bit(q, 0) = Bit(q, other) THEN half ELSE half + h
  BY <1>4, <1>5, <1>6
<1> HIDE DEF half, r
<1>15. Shuffle(q, setting.short) = r
  BY <1>2, <1>13, <1>14
<1>16. Shuffle(q, FALSE) \in 0..(2 * h - 1) /\ r \in 0..(2 * h - 1)
  BY <1>11, <1>13, <1>14
<1>17. r % 2 = half % 2
  BY <1>11, <1>14
<1>18. Bit(r, 0) = r % 2
  <2>1. Bit(r, 0) = (r \div 2^0) % 2
    BY DEF Bit
  <2>2. r \div 1 = r
    BY <1>11, <1>14, <1>1
  <2> QED
    BY <1>1, <2>1, <2>2
<1>19. Registers = 0..(2 * h - 1)
  BY DEF Registers, h
<1> QED
  BY <1>5, <1>9, <1>10, <1>15, <1>16, <1>17, <1>18, <1>19 DEF r, half

\* The loop of a run, unless the noise is silent.
LEMMA NoiseFolds ==
    ASSUME NEW gap, RunType(gap), voice = "noise", setting.volume # 0,
           osc \in [phase : Registers, delay : Nat, last_amp : Int]
    PROVE  LET n == Expiries(From, last_time + gap, setting.period)
           IN  \E f \in [0..n -> Shifts] :
                  /\ f[0] = ShiftStart
                  /\ \A k \in 0..(n - 1) : f[k + 1] = ShiftAt(f[k], k + 1)
                  /\ Run(last_time, last_time + gap) =
                        [osc |-> [phase |-> f[n].noise,
                                  delay |-> From + n * setting.period - (last_time + gap),
                                  last_amp |-> (f[n].delta + setting.volume) \div 2],
                         out |-> f[n].out]
<1> DEFINE end == last_time + gap
           n == Expiries(From, end, setting.period)
           seq == Steps(n)
           V == Shifts
           g == [p \in V \X (1..n) |-> ShiftAt(p[1], p[2])]
           Is(iter) == iter = [s \in SUBSET (DOMAIN seq) |->
                                  IF s = {} THEN ShiftStart
                                  ELSE ShiftAt(iter[s \ {Max(s)}], seq[Max(s)])]
           it == CHOOSE iter : Is(iter)
           result(a) == [osc |-> [phase |-> a.noise, delay |-> From + n * setting.period - end,
                                  last_amp |-> (a.delta + setting.volume) \div 2],
                         out |-> a.out]
<1>1. setting.volume \in Nat /\ setting.period \in Nat \ {0} /\ VoiceType
      /\ osc.phase \in Registers
  BY VoiceCases DEF RunType
<1>2. /\ n \in Nat /\ last_time \in Times
      /\ \A k \in 1..n : From + (k - 1) * setting.period \in Times
  BY <1>1, ExpiryTimes
<1>3. DOMAIN seq = 1..n /\ \A k \in 1..n : seq[k] = k
  BY DEF Steps
<1>4. ShiftStart \in V
  <2> DEFINE x == IF Bit(osc.phase, 0) = 1 THEN setting.volume ELSE 0
             y == x - osc.last_amp
  <2>1. x \in Int /\ osc.last_amp \in Int
    BY <1>1
  <2> HIDE DEF x
  <2>2. 2 * x - setting.volume \in Int /\ y \in Int
    BY <1>1, <2>1
  <2> HIDE DEF y
  <2>3. Change(last_time, y) \in Seq(Deltas)
    <3>1. changes \in Logs
      BY DEF RunType, Start, States
    <3> QED
      BY <1>2, <2>2, <3>1, LogChange
  <2> QED
    BY <1>1, <2>2, <2>3 DEF ShiftStart, Shifts, x, y
<1>5. Run(last_time, end) = result(it[DOMAIN seq])
  <2> HIDE DEF end
  <2>1. Run(last_time, end) = NoiseRun(osc, setting, last_time, end)
    <3> HIDE DEF n, seq, it, g, V
    <3> QED
      BY DEF Run
  <2>2. NoiseRun(osc, setting, last_time, end) = result(it[DOMAIN seq])
    BY Zenon DEF NoiseRun, FoldLeft, MapThenFoldSet, From, ShiftAt, ShiftStart
  <2> QED
    BY <2>1, <2>2
<1> HIDE DEF n, seq, end, it
<1>6. g \in [V \X (1..n) -> V]
  <2> SUFFICES ASSUME NEW a \in V, NEW k \in 1..n PROVE ShiftAt(a, k) \in V
    OBVIOUS
  <2>1. a.noise \in Registers /\ a.delta \in Int /\ -a.delta \in Int /\ a.out \in Seq(Deltas)
    BY DEF Shifts
  <2> DEFINE x == <<From + (k - 1) * setting.period, -a.delta>>
  <2>2. x \in Deltas
    BY <1>2, <2>1 DEF Deltas
  <2> HIDE DEF x
  <2>3. Append(a.out, x) \in Seq(Deltas)
    BY <2>1, <2>2
  <2>4. Shuffle(a.noise, setting.short) \in Registers
    BY <1>1, <2>1, NoiseShift
  <2> QED
    BY <2>1, <2>3, <2>4 DEF ShiftAt, Shifts, x
<1>7. \A a \in V, k \in 1..n : g[<<a, k>>] = ShiftAt(a, k)
  OBVIOUS
<1> HIDE DEF g, V
<1>8. \A s \in SUBSET (1..n) : s # {} => /\ Max(s) \in 1..n /\ seq[Max(s)] = Max(s)
                                          /\ s \ {Max(s)} \in SUBSET (1..n)
  BY <1>2, <1>3, Segments
<1>9. Is(it)
  <2>1. PICK h \in [SUBSET (1..n) -> V] : FoldsUp(h, n, ShiftStart, g)
    BY <1>2, <1>4, <1>6, FoldMax
  <2>2. ASSUME NEW s \in SUBSET (1..n)
        PROVE  h[s] = IF s = {} THEN ShiftStart
                      ELSE ShiftAt(h[s \ {Max(s)}], seq[Max(s)])
    <3>1. CASE s = {}
      BY <2>1, <3>1 DEF FoldsUp
    <3>2. CASE s # {}
      <4>1. Max(s) \in 1..n /\ seq[Max(s)] = Max(s) /\ h[s \ {Max(s)}] \in V
        BY <1>8, <3>2
      <4>2. h[s] = g[<<h[s \ {Max(s)}], Max(s)>>]
        BY <2>1, <3>2 DEF FoldsUp
      <4>3. g[<<h[s \ {Max(s)}], Max(s)>>] = ShiftAt(h[s \ {Max(s)}], Max(s))
        BY <4>1, <1>7
      <4> QED
        BY <3>2, <4>1, <4>2, <4>3
    <3> QED
      BY <3>1, <3>2
  <2>3. Is(h)
    BY <1>3, <2>2
  <2> QED
    BY <2>3 DEF it
<1>10. FoldsIn(it, V, n, ShiftStart, g)
  <2>1. \A s \in SUBSET (1..n) :
           it[s] = IF s = {} THEN ShiftStart
                   ELSE ShiftAt(it[s \ {Max(s)}], seq[Max(s)])
    BY <1>3, <1>9
  <2> HIDE DEF Is
  <2>2. it[{}] = ShiftStart
    BY <2>1
  <2>3. ASSUME NEW s \in SUBSET (1..n), s # {}, it[s \ {Max(s)}] \in V
        PROVE  it[s] = g[<<it[s \ {Max(s)}], Max(s)>>]
    <3>1. Max(s) \in 1..n /\ seq[Max(s)] = Max(s)
      BY <1>8, <2>3
    <3>2. it[s] = ShiftAt(it[s \ {Max(s)}], seq[Max(s)])
      BY <2>1, <2>3
    <3>3. g[<<it[s \ {Max(s)}], Max(s)>>] = ShiftAt(it[s \ {Max(s)}], Max(s))
      BY <1>7, <2>3, <3>1
    <3> QED
      BY <3>1, <3>2, <3>3
  <2> QED
    BY <2>2, <2>3 DEF FoldsIn
<1> HIDE DEF Is
<1>11. PICK f \in [0..n -> V] : f[n] = it[1..n] /\ StepBy(f, n, ShiftStart, g)
  BY <1>2, <1>4, <1>6, <1>10, FoldSegments
<1>12. ASSUME NEW k \in 0..(n - 1) PROVE f[k + 1] = ShiftAt(f[k], k + 1)
  <2>1. f[k] \in V /\ k + 1 \in 1..n
    BY <1>2
  <2>2. f[k + 1] = g[<<f[k], k + 1>>]
    BY <1>11 DEF StepBy
  <2> QED
    BY <2>1, <2>2, <1>7
<1>13. f[0] = ShiftStart
  BY <1>11 DEF StepBy
<1>14. Run(last_time, end) = result(f[n])
  BY <1>3, <1>5, <1>11
<1> QED
  BY <1>12, <1>13, <1>14 DEF V, n, end

\* A run of the noise plays its register; a silent one may leave it behind.
LEMMA NoiseRuns ==
    ASSUME NEW gap, RunType(gap), voice = "noise",
           osc \in [phase : Registers, delay : Nat, last_amp : Int],
           NEW ph, NEW m, Course(ph, m)
    PROVE  LET p   == Whole!Period(setting)
               n   == Expiries(From, last_time + gap, p)
               run == Run(last_time, last_time + gap)
           IN  /\ run.osc = [phase |-> run.osc.phase, delay |-> osc.delay + n * p - gap,
                             last_amp |-> Level(ph[n])]
               /\ IF setting.volume = 0
                  THEN run.osc.phase \in Registers /\ (n = 0 => run.osc.phase = Phase)
                  ELSE run.osc.phase = ph[n]
               /\ run.out \in Seq(Deltas) /\ Log(changes, run.out) = m[n]
<1> DEFINE p == setting.period
           n == Expiries(From, last_time + gap, p)
           run == Run(last_time, last_time + gap)
           v == setting.volume
<1>1. v \in Nat /\ p \in Nat \ {0} /\ VoiceType /\ p = Whole!Period(setting)
  <2>1. v \in Nat /\ p \in Nat \ {0} /\ VoiceType
    BY VoiceCases DEF RunType
  <2> QED
    BY <2>1 DEF Whole!Period
<1>2. n \in Nat /\ last_time \in Times
  BY <1>1, ExpiryTimes
<1>3. /\ PhaseType = Registers /\ Phase = osc.phase /\ osc.phase \in Registers
      /\ osc.last_amp \in Int /\ changes \in Logs /\ base + last_time = Now
  BY <1>1, VoiceCases DEF RunType, Start, States, Phase, Now, Registers
<1>4. /\ ph \in [Nat -> Registers] /\ m \in [Nat -> Logs] /\ ph[0] = osc.phase
      /\ \A k \in Nat : ph[k + 1] = Whole!PhaseAfter(ph[k], setting)
      /\ m[0] = Mark(changes, Now, Level(Phase) - osc.last_amp)
      /\ \A k \in Nat :
            m[k + 1] = Mark(m[k], Now + (osc.delay + k * p), Level(ph[k + 1]) - Level(ph[k]))
  BY <1>1, <1>3 DEF Course
<1>5. \A k \in Nat : Level(ph[k]) = IF Bit(ph[k], 0) = 1 THEN v ELSE 0
  <2> SUFFICES ASSUME NEW k \in Nat
               PROVE  Level(ph[k]) = IF Bit(ph[k], 0) = 1 THEN v ELSE 0
    OBVIOUS
  <2>1. ph[k] \in Registers
    BY <1>4
  <2> QED
    BY <1>1, <2>1, NoiseShift
<1>6. From + n * p - (last_time + gap) = osc.delay + n * p - gap
  <2>1. n * p \in Nat /\ gap \in Nat /\ osc.delay \in Nat /\ last_time \in Nat
    BY <1>1, <1>2, Products DEF RunType
  <2> DEFINE q == n * p
  <2> HIDE DEF q
  <2> QED
    BY <2>1 DEF From, q
<1>7. CASE v = 0
  <2> DEFINE end == last_time + gap
             q == IF n > 0 /\ ~setting.short THEN Shuffle(osc.phase, FALSE) ELSE osc.phase
             deltas == Change(last_time, 0 - osc.last_amp)
  <2>1. run = [osc |-> [phase |-> q, delay |-> From + n * p - end, last_amp |-> 0],
               out |-> deltas]
    <3>1. run = NoiseRun(osc, setting, last_time, end)
      BY DEF Run
    <3> HIDE DEF end, run
    <3>2. (IF Bit(osc.phase, 0) = 1 THEN v ELSE 0) = 0
      BY <1>7
    <3>3. NoiseRun(osc, setting, last_time, end) =
              [osc |-> [phase |-> q, delay |-> From + n * p - end, last_amp |-> 0],
               out |-> Change(last_time, (IF Bit(osc.phase, 0) = 1 THEN v ELSE 0) - osc.last_amp)]
      BY <1>7 DEF NoiseRun, From, end
    <3> QED
      BY <3>1, <3>2, <3>3
  <2>2. q \in Registers
    BY <1>1, <1>3, NoiseShift
  <2>3. \A k \in Nat : Level(ph[k]) = 0
    BY <1>5, <1>7
  <2>4. \A k \in Nat : m[k] = m[0]
    <3> DEFINE T == {k \in Nat : m[k] = m[0]}
    <3>1. 0 \in T
      OBVIOUS
    <3>2. ASSUME NEW k \in Nat, k \in T PROVE k + 1 \in T
      <4> HIDE DEF p
      <4>1. m[k + 1] = Mark(m[k], Now + (osc.delay + k * p), 0 - 0) /\ 0 - 0 = 0
        BY <1>4, <2>3
      <4> QED
        BY <1>4, <3>2, <4>1, MarkType
    <3> HIDE DEF T
    <3>3. Nat \subseteq T
      BY <3>1, <3>2, SetInduction
    <3> QED
      BY <3>3 DEF T
  <2>5. m[0] = Mark(changes, Now, 0 - osc.last_amp)
    BY <1>3, <1>4, <2>3
  <2>6. deltas \in Seq(Deltas) /\ Log(changes, deltas) = Mark(changes, Now, 0 - osc.last_amp)
    <3>1. 0 - osc.last_amp \in Int
      BY <1>3
    <3> QED
      BY <1>2, <1>3, <3>1, LogChange
  <2>7. n = 0 => q = Phase
    <3> HIDE DEF n
    <3> QED
      BY <1>3
  <2> HIDE DEF n, run, q, deltas, p, v
  <2>8. /\ run.osc = [phase |-> run.osc.phase, delay |-> osc.delay + n * p - gap,
                     last_amp |-> Level(ph[n])]
        /\ run.osc.phase = q /\ run.out = deltas
    BY <1>2, <1>6, <2>1, <2>3
  <2> QED
    BY <1>1, <1>2, <1>7, <2>2, <2>4, <2>5, <2>6, <2>7, <2>8 DEF n, run, p, v
<1>8. CASE v # 0
  <2>1. PICK f \in [0..n -> Shifts] :
          /\ f[0] = ShiftStart
          /\ \A k \in 0..(n - 1) : f[k + 1] = ShiftAt(f[k], k + 1)
          /\ run = [osc |-> [phase |-> f[n].noise,
                             delay |-> From + n * p - (last_time + gap),
                             last_amp |-> (f[n].delta + v) \div 2],
                    out |-> f[n].out]
    BY <1>8, NoiseFolds
  <2> HIDE DEF n, run, p
  <2> DEFINE amp == [k \in Nat |-> Level(ph[k])]
  <2>2. \A k \in Nat : amp[k] = Level(ph[k]) /\ amp[k] \in {0, v}
    BY <1>5
  <2>3. amp[0] = IF Bit(osc.phase, 0) = 1 THEN v ELSE 0
    BY <1>4, <1>5
  <2>4. ASSUME NEW k \in Nat
        PROVE  /\ Shuffle(ph[k], setting.short) = ph[k + 1]
               /\ amp[k + 1] = IF Bit(ph[k], 0) # Bit(ph[k], 1) THEN v - amp[k] ELSE amp[k]
    <3>1. ph[k] \in Registers /\ ph[k + 1] = Whole!PhaseAfter(ph[k], setting)
          /\ ph[k + 1] \in Registers
      BY <1>4
    <3>2. /\ Shuffle(ph[k], setting.short) = ph[k + 1]
          /\ Bit(ph[k], 0) \in {0, 1} /\ Bit(ph[k + 1], 0) = Bit(ph[k], 1)
      BY <1>1, <3>1, NoiseShift
    <3>3. Bit(ph[k + 1], 0) \in {0, 1}
      BY <1>1, <3>1, NoiseShift
    <3>4. /\ amp[k] = IF Bit(ph[k], 0) = 1 THEN v ELSE 0
          /\ amp[k + 1] = IF Bit(ph[k + 1], 0) = 1 THEN v ELSE 0
      BY <1>5
    <3> HIDE DEF amp, v
    <3> QED
      BY <1>1, <3>2, <3>3, <3>4
  <2> HIDE DEF amp
  <2> DEFINE T == {k \in Nat : k <= n => f[k].noise = ph[k] /\ f[k].delta = 2 * amp[k] - v}
  <2>5. 0 \in T
    BY <1>4, <2>1, <2>3 DEF ShiftStart
  <2>6. ASSUME NEW k \in Nat, k \in T PROVE k + 1 \in T
    <3> SUFFICES ASSUME k + 1 <= n
                 PROVE  f[k + 1].noise = ph[k + 1] /\ f[k + 1].delta = 2 * amp[k + 1] - v
      OBVIOUS
    <3>1. f[k].noise = ph[k] /\ f[k].delta = 2 * amp[k] - v /\ k \in 0..(n - 1)
      BY <1>2, <2>6
    <3>2. f[k + 1] = ShiftAt(f[k], k + 1)
      BY <2>1, <3>1
    <3> HIDE DEF T
    <3>3. /\ f[k + 1].noise = Shuffle(ph[k], setting.short)
          /\ f[k + 1].delta = IF Bit(ph[k], 0) # Bit(ph[k], 1)
                              THEN -f[k].delta ELSE f[k].delta
      BY <3>1, <3>2 DEF ShiftAt
    <3>4. amp[k] \in Int
      BY <1>1, <2>2
    <3>5. /\ Shuffle(ph[k], setting.short) = ph[k + 1]
          /\ amp[k + 1] = IF Bit(ph[k], 0) # Bit(ph[k], 1) THEN v - amp[k] ELSE amp[k]
      BY <2>4
    <3> HIDE DEF v
    <3>6. CASE Bit(ph[k], 0) # Bit(ph[k], 1)
      BY <1>1, <3>1, <3>3, <3>4, <3>5, <3>6
    <3>7. CASE Bit(ph[k], 0) = Bit(ph[k], 1)
      BY <1>1, <3>1, <3>3, <3>4, <3>5, <3>7
    <3> QED
      BY <3>6, <3>7
  <2> HIDE DEF T
  <2>7. \A k \in 0..n : f[k].noise = ph[k] /\ f[k].delta = 2 * amp[k] - v
    <3>1. Nat \subseteq T
      BY <2>5, <2>6, SetInduction
    <3> QED
      BY <1>2, <3>1 DEF T
  <2> DEFINE outs == [k \in 0..n |-> f[k].out]
  <2>8. Outs(outs, n, ph)
    <3>1. outs[0] = Change(last_time, Level(Phase) - osc.last_amp)
      <4>1. outs[0] = f[0].out
        BY <1>2
      <4>2. Level(Phase) = IF Bit(osc.phase, 0) = 1 THEN v ELSE 0
        BY <1>3, <1>4, <1>5
      <4> QED
        BY <2>1, <4>1, <4>2 DEF ShiftStart
    <3>2. ASSUME NEW k \in 0..(n - 1)
          PROVE  Extends(outs[k + 1], outs[k], From + k * p, Level(ph[k + 1]) - Level(ph[k]))
      <4>1. k \in Nat /\ k + 1 \in Nat /\ k \in 0..n /\ k + 1 \in 0..n /\ (k + 1) - 1 = k
        BY <1>2
      <4>2. /\ f[k + 1] = ShiftAt(f[k], k + 1)
            /\ outs[k + 1] = f[k + 1].out /\ outs[k] = f[k].out
            /\ f[k].noise = ph[k] /\ f[k].delta = 2 * amp[k] - v
        BY <2>1, <2>7, <4>1
      <4>3. /\ amp[k] \in {0, v} /\ Level(ph[k]) = amp[k] /\ Level(ph[k + 1]) = amp[k + 1]
            /\ amp[k + 1] = IF Bit(ph[k], 0) # Bit(ph[k], 1) THEN v - amp[k] ELSE amp[k]
        BY <2>2, <2>4, <4>1
      <4> HIDE DEF outs, v
      <4>4. CASE Bit(ph[k], 0) # Bit(ph[k], 1)
        <5>1. -f[k].delta = amp[k + 1] - amp[k]
          BY <1>1, <4>2, <4>3, <4>4
        <5>2. f[k + 1].out = Append(f[k].out, <<From + k * p, -f[k].delta>>)
          BY <4>1, <4>2, <4>4 DEF ShiftAt, p
        <5> QED
          BY <4>2, <4>3, <5>1, <5>2 DEF Extends
      <4>5. CASE Bit(ph[k], 0) = Bit(ph[k], 1)
        <5>1. amp[k + 1] - amp[k] = 0
          BY <1>1, <4>3, <4>5
        <5>2. f[k + 1].out = f[k].out
          BY <4>2, <4>5 DEF ShiftAt
        <5> QED
          BY <4>2, <4>3, <5>1, <5>2 DEF Extends
      <4> QED
        BY <4>4, <4>5
    <3> QED
      BY <1>1, <3>1, <3>2 DEF Outs
  <2>9. f[n].out \in Seq(Deltas) /\ Log(changes, f[n].out) = m[n]
    <3>1. n \in 0..n
      BY <1>2
    <3>2. outs[n] \in Seq(Deltas) /\ Log(changes, outs[n]) = m[n]
      BY <1>1, <2>8, <3>1, OutsFollow DEF n
    <3> QED
      BY <3>1, <3>2
  <2>10. (f[n].delta + v) \div 2 = Level(ph[n]) /\ f[n].noise = ph[n]
    <3>1. n \in Nat /\ n \in 0..n
      BY <1>2
    <3>2. amp[n] \in {0, v} /\ amp[n] = Level(ph[n])
          /\ f[n].delta = 2 * amp[n] - v /\ f[n].noise = ph[n]
      BY <2>2, <2>7, <3>1
    <3> HIDE DEF v
    <3> QED
      BY <1>1, <3>2
  <2> HIDE DEF v
  <2>11. /\ run.osc = [phase |-> ph[n], delay |-> osc.delay + n * p - gap,
                       last_amp |-> Level(ph[n])]
         /\ run.out = f[n].out
    BY <1>6, <2>1, <2>10
  <2> QED
    BY <1>1, <1>8, <2>9, <2>11 DEF n, run, p, v
<1> QED
  BY <1>7, <1>8

-----------------------------------------------------------------------------
(* Nes_Dmc.                                                                *)

B == BitsPerByte

\* What is read ahead of the bits being played is the rest of a sample.
PlayerType ==
    {d \in [dac : 0..MaxDac, bits : 1..B, silence : BOOLEAN, full : BOOLEAN,
            len : Nat, delay : Nat, last_amp : Int] : d.full \/ d.len = 0}

DeckType ==
    [len : Nat, full : BOOLEAN, silence : BOOLEAN, bits : 1..B, delay : Int,
     dac : 0..MaxDac, last_amp : Int, period : {setting.period},
     loop : {setting.loop}, sample : {setting.sample},
     irq_enabled : BOOLEAN, irq_flag : BOOLEAN, next_irq : Int, enabled : BOOLEAN]

Decks == {d \in DeckType : d.full \/ d.len = 0}

\* The phase of the waveform, from the fields of a player.
PhaseIn(d) ==
    [dac |-> d.dac, bit |-> B - d.bits, on |-> ~d.silence,
     bytes |-> d.len + (IF d.full THEN 1 ELSE 0)]

MovedBy(d) ==
    LET dac == IF Bit(DmcByte, B - d.bits) = 1 THEN d.dac + DacStep ELSE d.dac - DacStep
    IN  IF d.silence \/ dac \notin 0..MaxDac THEN d.dac ELSE dac

Plays == [d : Decks, out : Seq(Deltas)]

PlayStart ==
    [d |-> Player(osc, setting), out |-> Change(last_time, dmc_table[osc.dac] - osc.last_amp)]

PlayAt(a, k) ==
    LET d == [a.d EXCEPT !.dac = MovedBy(a.d)]
    IN  [d   |-> PlayBit(d),
         out |-> a.out \o Change(From + (k - 1) * setting.period,
                                 dmc_table[d.dac] - dmc_table[a.d.dac])]

\* The remainder of a successor.
LEMMA RemainderIs ==
    ASSUME NEW q \in Nat, NEW b \in Nat \ {0}, NEW r \in 0..(b - 1)
    PROVE  (b * q + r) % b = r
OBVIOUS

\* It is the next, or 0.
LEMMA RemainderNext ==
    ASSUME NEW n \in Nat, NEW b \in Nat \ {0}
    PROVE  n % b \in 0..(b - 1) /\ (n + 1) % b = IF n % b = b - 1 THEN 0 ELSE (n % b) + 1
<1> DEFINE q == n \div b
           r == n % b
<1>1. q \in Nat /\ r \in 0..(b - 1) /\ n = b * q + r
  OBVIOUS
<1> HIDE DEF q, r
<1>2. CASE r = b - 1
  <2>1. n + 1 = b * (q + 1) + 0 /\ q + 1 \in Nat /\ 0 \in 0..(b - 1)
    BY <1>1, <1>2
  <2>2. (b * (q + 1) + 0) % b = 0
    BY <2>1, RemainderIs
  <2> QED
    BY <1>1, <1>2, <2>1, <2>2 DEF r
<1>3. CASE r # b - 1
  <2>1. n + 1 = b * q + (r + 1) /\ r + 1 \in 0..(b - 1)
    BY <1>1, <1>3
  <2> QED
    BY <1>1, <1>3, <2>1, RemainderIs DEF r
<1> QED
  BY <1>1, <1>2, <1>3 DEF r

\* A bit that is played moves the phase on, as Sound says.
LEMMA PlayedBit ==
    ASSUME VoiceType, voice = "dmc", NEW d \in Decks
    PROVE  LET e == [d EXCEPT !.dac = MovedBy(d)]
           IN  /\ e.dac \in 0..MaxDac /\ PlayBit(e) \in Decks /\ PlayBit(e).dac = e.dac
               /\ PhaseIn(PlayBit(e)) = Whole!PhaseAfter(PhaseIn(d), setting)
<1> DEFINE e == [d EXCEPT !.dac = MovedBy(d)]
           p == PhaseIn(d)
           dac == IF Bit(DmcByte, B - d.bits) = 1 THEN d.dac + DacStep ELSE d.dac - DacStep
<1>1. /\ B \in Nat \ {0} /\ NoIrq \in Nat /\ MaxDac \in Nat
      /\ setting.loop \in BOOLEAN /\ setting.sample \in Nat \ {0}
  <2>1. setting.loop \in BOOLEAN /\ setting.sample \in Nat \ {0}
    BY VoiceCases
  <2> QED
    BY <2>1, OscillatorAssumption, VoiceAssumption DEF B
<1>2. /\ d.len \in Nat /\ d.full \in BOOLEAN /\ d.silence \in BOOLEAN /\ d.bits \in 1..B
      /\ d.dac \in 0..MaxDac /\ d.loop = setting.loop /\ d.sample = setting.sample
      /\ (d.full \/ d.len = 0)
  BY DEF Decks, DeckType
<1>3. MovedBy(d) \in 0..MaxDac
  BY <1>2 DEF MovedBy
<1>4. e \in Decks
  BY <1>3 DEF Decks, DeckType
<1>5. /\ e.dac = MovedBy(d) /\ e.len = d.len /\ e.full = d.full /\ e.silence = d.silence
      /\ e.bits = d.bits /\ e.loop = d.loop /\ e.sample = d.sample
  BY DEF Decks, DeckType
<1>6. /\ p.dac = d.dac /\ p.bit = B - d.bits /\ p.on = ~d.silence
      /\ p.bytes = d.len + (IF d.full THEN 1 ELSE 0)
  BY DEF PhaseIn
<1>7. Whole!Moved(p) = MovedBy(d)
  <2>1. Whole!Moved(p) = IF ~d.silence /\ dac \in 0..MaxDac THEN dac ELSE d.dac
    BY <1>6 DEF Whole!Moved, Bit
  <2>2. MovedBy(d) = IF d.silence \/ dac \notin 0..MaxDac THEN d.dac ELSE dac
    BY DEF MovedBy
  <2> HIDE DEF dac
  <2> QED
    BY <2>1, <2>2
<1>8. Whole!PhaseAfter(p, setting) =
          IF p.bit < B - 1
          THEN [dac |-> Whole!Moved(p), bit |-> p.bit + 1, on |-> p.on, bytes |-> p.bytes]
          ELSE [dac |-> Whole!Moved(p), bit |-> 0, on |-> p.bytes > 0,
                bytes |-> Whole!BytesAfter(p.bytes, setting)]
  BY DEF Whole!PhaseAfter, B
<1>9. Whole!BytesAfter(p.bytes, setting) =
          IF p.bytes = 2 /\ setting.loop THEN 1 + setting.sample
          ELSE IF p.bytes = 0 THEN 0 ELSE p.bytes - 1
  BY DEF Whole!BytesAfter
<1> DEFINE z == PlayBit(e)
           after == Whole!PhaseAfter(p, setting)
<1> HIDE DEF e, p
<1> SUFFICES /\ z \in Decks /\ z.dac = e.dac
             /\ PhaseIn(z) = after
  BY <1>3, <1>5 DEF e, p
<1>10. CASE e.bits > 1
  <2>1. z = [e EXCEPT !.bits = e.bits - 1]
    BY <1>10 DEF PlayBit
  <2>2. e.bits - 1 \in 1..B
    BY <1>1, <1>2, <1>5, <1>10
  <2>3. z \in Decks
    BY <1>4, <2>1, <2>2 DEF Decks, DeckType
  <2>4. /\ z.dac = e.dac /\ z.bits = e.bits - 1 /\ z.silence = e.silence
        /\ z.len = e.len /\ z.full = e.full
    BY <1>4, <2>1 DEF Decks, DeckType
  <2>5. p.bit < B - 1 /\ p.bit + 1 = B - (e.bits - 1)
    BY <1>1, <1>2, <1>5, <1>6, <1>10
  <2> HIDE DEF z
  <2>6. PhaseIn(z) = [dac |-> MovedBy(d), bit |-> B - (e.bits - 1), on |-> ~d.silence,
                      bytes |-> d.len + (IF d.full THEN 1 ELSE 0)]
    BY <1>5, <2>4 DEF PhaseIn
  <2> QED
    BY <1>6, <1>7, <1>8, <2>3, <2>4, <2>5, <2>6
<1>11. CASE ~(e.bits > 1)
  <2>1. e.bits = 1 /\ ~(p.bit < B - 1)
    BY <1>1, <1>2, <1>5, <1>6, <1>11
  <2>2. after = [dac |-> MovedBy(d), bit |-> 0, on |-> p.bytes > 0,
                 bytes |-> Whole!BytesAfter(p.bytes, setting)]
    BY <1>7, <1>8, <2>1
  <2>3. CASE ~e.full
    <3>1. z = [e EXCEPT !.bits = B, !.silence = TRUE]
      BY <1>11, <2>3 DEF PlayBit, B
    <3>2. z \in Decks
      <4> DEFINE y == [e EXCEPT !.bits = B]
      <4>1. y \in Decks
        BY <1>1, <1>4 DEF Decks, DeckType
      <4>2. [y EXCEPT !.silence = TRUE] \in Decks
        <5> HIDE DEF y
        <5> QED
          BY <4>1 DEF Decks, DeckType
      <4> QED
        BY <3>1, <4>2
    <3>3. /\ z.dac = e.dac /\ z.bits = B /\ z.silence = TRUE
          /\ z.len = e.len /\ z.full = e.full
      BY <1>4, <3>1 DEF Decks, DeckType
    <3>4. e.len = 0 /\ p.bytes = 0 /\ B - B = 0 /\ 0 + 0 = 0
      BY <1>1, <1>2, <1>5, <1>6, <2>3
    <3> HIDE DEF z
    <3>5. PhaseIn(z) = [dac |-> MovedBy(d), bit |-> 0, on |-> FALSE, bytes |-> 0]
      BY <1>5, <2>3, <3>3, <3>4 DEF PhaseIn
    <3>6. after = [dac |-> MovedBy(d), bit |-> 0, on |-> FALSE, bytes |-> 0]
      <4>1. (p.bytes > 0) = FALSE /\ Whole!BytesAfter(p.bytes, setting) = 0
        BY <1>9, <3>4
      <4> QED
        BY <2>2, <4>1
    <3> QED
      BY <3>2, <3>3, <3>5, <3>6
  <2>4. CASE e.full
    <3> DEFINE c == [e EXCEPT !.bits = B, !.silence = FALSE, !.full = FALSE]
               read == [c EXCEPT !.full = TRUE, !.len = @ - 1]
    <3>1. z = fill_buffer(c)
      BY <1>11, <2>4 DEF PlayBit, B
    <3>2. /\ c.dac = e.dac /\ c.bits = B /\ c.silence = FALSE /\ c.full = FALSE
          /\ c.len = e.len /\ c.loop = setting.loop /\ c.sample = setting.sample
          /\ c.irq_enabled \in BOOLEAN
      BY <1>2, <1>4, <1>5 DEF Decks, DeckType
    <3>3. c \in DeckType /\ p.bytes = e.len + 1 /\ e.len \in Nat
      <4> DEFINE x == [e EXCEPT !.bits = B]
                 y == [x EXCEPT !.silence = FALSE]
      <4>1. x \in DeckType
        BY <1>1, <1>4 DEF Decks, DeckType
      <4>2. y \in DeckType
        <5> HIDE DEF x
        <5> QED
          BY <4>1 DEF DeckType
      <4>3. [y EXCEPT !.full = FALSE] \in DeckType
        <5> HIDE DEF y
        <5> QED
          BY <4>2 DEF DeckType
      <4>4. p.bytes = e.len + 1 /\ e.len \in Nat
        BY <1>2, <1>5, <1>6, <2>4
      <4> QED
        BY <4>3, <4>4
    <3>4. CASE e.len = 0
      <4>1. z = c
        BY <3>1, <3>2, <3>4 DEF fill_buffer
      <4>2. c \in Decks
        BY <3>2, <3>3, <3>4 DEF Decks
      <4>3. PhaseIn(c) = [dac |-> MovedBy(d), bit |-> 0, on |-> TRUE, bytes |-> 0]
        <5>1. B - B = 0 /\ 0 + 0 = 0
          BY <1>1
        <5> HIDE DEF c
        <5> QED
          BY <1>5, <3>2, <3>4, <5>1 DEF PhaseIn
      <4>4. after = [dac |-> MovedBy(d), bit |-> 0, on |-> TRUE, bytes |-> 0]
        <5>1. (p.bytes > 0) = TRUE /\ Whole!BytesAfter(p.bytes, setting) = 0
          BY <1>9, <3>3, <3>4
        <5> QED
          BY <2>2, <5>1
      <4> HIDE DEF c, z
      <4> QED
        BY <3>2, <4>1, <4>2, <4>3, <4>4
    <3>5. CASE e.len # 0
      <4> DEFINE more == IF e.len = 1 /\ setting.loop THEN setting.sample ELSE e.len - 1
      <4>1. e.len - 1 \in Nat /\ more \in Nat
        BY <1>1, <3>3, <3>5
      <4>2. /\ read.len = e.len - 1 /\ read.full = TRUE /\ read.bits = B
            /\ read.silence = FALSE /\ read.dac = e.dac /\ read.loop = setting.loop
            /\ read.sample = setting.sample /\ read.irq_enabled \in BOOLEAN
        BY <1>2, <1>4, <1>5 DEF Decks, DeckType
      <4>3. read \in Decks
        <5> DEFINE y == [c EXCEPT !.full = TRUE]
        <5>1. y \in DeckType /\ y.len = e.len
          <6> HIDE DEF c
          <6> QED
            BY <3>2, <3>3 DEF DeckType
        <5>2. [y EXCEPT !.len = e.len - 1] \in DeckType
          <6> HIDE DEF y
          <6> QED
            BY <4>1, <5>1 DEF DeckType
        <5>3. read = [y EXCEPT !.len = e.len - 1]
          <6>1. c.len = e.len
            BY <3>2
          <6> HIDE DEF c
          <6> QED
            BY <6>1, <3>3
        <5> QED
          BY <4>2, <5>2, <5>3 DEF Decks
      <4>4. z = IF read.len > 0 THEN read
                ELSE IF setting.loop THEN [read EXCEPT !.len = setting.sample]
                ELSE [Disabled(read) EXCEPT !.irq_flag = c.irq_enabled, !.next_irq = NoIrq]
        BY <3>1, <3>2, <3>5 DEF fill_buffer
      <4> HIDE DEF c, read, z
      <4>5. /\ z \in Decks /\ z.len = more /\ z.full = TRUE /\ z.bits = B
            /\ z.silence = FALSE /\ z.dac = e.dac
        <5>1. CASE read.len > 0
          BY <1>1, <3>3, <4>2, <4>3, <4>4, <5>1
        <5>2. CASE ~(read.len > 0) /\ setting.loop
          <6>1. z = [read EXCEPT !.len = setting.sample] /\ e.len = 1
            BY <3>3, <3>5, <4>2, <4>4, <5>2
          <6>2. z \in Decks
            BY <1>1, <4>2, <4>3, <6>1 DEF Decks, DeckType
          <6> QED
            BY <4>2, <4>3, <5>2, <6>1, <6>2 DEF Decks, DeckType
        <5>3. CASE ~(read.len > 0) /\ ~setting.loop
          <6>1. z = [Disabled(read) EXCEPT !.irq_flag = c.irq_enabled, !.next_irq = NoIrq]
            BY <4>4, <5>3
          <6> DEFINE off == Disabled(read)
          <6>2. off \in Decks /\ off.len = read.len /\ off.full = read.full
                /\ off.bits = read.bits /\ off.silence = read.silence /\ off.dac = read.dac
            BY <4>2, <4>3 DEF Decks, DeckType, Disabled
          <6> HIDE DEF off
          <6> DEFINE y == [off EXCEPT !.irq_flag = c.irq_enabled]
          <6>3. /\ y \in Decks /\ y.len = off.len /\ y.full = off.full
                /\ y.bits = off.bits /\ y.silence = off.silence /\ y.dac = off.dac
            BY <3>2, <6>2 DEF Decks, DeckType
          <6>4. z = [y EXCEPT !.next_irq = NoIrq]
            BY <6>1 DEF off
          <6> HIDE DEF y
          <6>5. z \in Decks /\ z.len = off.len /\ z.full = off.full
                /\ z.bits = off.bits /\ z.silence = off.silence /\ z.dac = off.dac
            BY <1>1, <6>3, <6>4 DEF Decks, DeckType
          <6> QED
            BY <4>2, <5>3, <6>2, <6>5
        <5> QED
          BY <5>1, <5>2, <5>3
      <4>6. PhaseIn(z) = [dac |-> MovedBy(d), bit |-> 0, on |-> TRUE, bytes |-> more + 1]
        <5>1. B - B = 0
          BY <1>1
        <5> HIDE DEF more
        <5> QED
          BY <1>5, <4>5, <5>1 DEF PhaseIn
      <4>7. after = [dac |-> MovedBy(d), bit |-> 0, on |-> TRUE, bytes |-> more + 1]
        <5>1. (p.bytes > 0) = TRUE
          BY <3>3
        <5>2. Whole!BytesAfter(p.bytes, setting) = more + 1
          <6>1. CASE e.len = 1 /\ setting.loop
            <7>1. p.bytes = 2 /\ more = setting.sample
              BY <3>3, <6>1
            <7> QED
              BY <1>1, <1>9, <6>1, <7>1
          <6>2. CASE ~(e.len = 1 /\ setting.loop)
            <7>1. ~(p.bytes = 2 /\ setting.loop) /\ p.bytes # 0 /\ more = e.len - 1
              BY <3>3, <6>2
            <7> QED
              BY <1>9, <3>3, <7>1
          <6> QED
            BY <6>1, <6>2
        <5> QED
          BY <2>2, <5>1, <5>2
      <4> QED
        BY <4>5, <4>6, <4>7
    <3> QED
      BY <3>4, <3>5
  <2> QED
    BY <2>3, <2>4
<1> QED
  BY <1>10, <1>11

\* A change after those of a sequence is one more, or none.
LEMMA ThenChange ==
    ASSUME NEW deltas \in Seq(Deltas), NEW t \in Times, NEW delta \in Int
    PROVE  LET more == deltas \o Change(t, delta)
           IN  more \in Seq(Deltas) /\ Extends(more, deltas, t, delta)
<1> DEFINE x == <<t, delta>>
<1>1. x \in Deltas
  BY DEF Deltas
<1> HIDE DEF x
<1>2. deltas \o <<x>> = Append(deltas, x) /\ deltas \o <<>> = deltas /\ Append(deltas, x) \in Seq(Deltas)
  BY <1>1
<1>3. Change(t, delta) = IF delta = 0 THEN <<>> ELSE <<x>>
  BY DEF Change, x
<1> QED
  BY <1>2, <1>3 DEF Extends, x

\* The loop of a run, unless there is nothing to play.
LEMMA DmcFolds ==
    ASSUME NEW gap, RunType(gap), voice = "dmc", osc \in PlayerType,
           ~(osc.silence /\ ~osc.full)
    PROVE  LET n == Expiries(From, last_time + gap, setting.period)
           IN  \E f \in [0..n -> Plays] :
                  /\ f[0] = PlayStart
                  /\ \A k \in 0..(n - 1) : f[k + 1] = PlayAt(f[k], k + 1)
                  /\ Run(last_time, last_time + gap) =
                        [osc |-> Played(f[n].d,
                                        From + n * setting.period - (last_time + gap),
                                        dmc_table[f[n].d.dac]),
                         out |-> f[n].out]
<1> DEFINE end == last_time + gap
           n == Expiries(From, end, setting.period)
           seq == Steps(n)
           V == Plays
           g == [p \in V \X (1..n) |-> PlayAt(p[1], p[2])]
           Is(iter) == iter = [s \in SUBSET (DOMAIN seq) |->
                                  IF s = {} THEN PlayStart
                                  ELSE PlayAt(iter[s \ {Max(s)}], seq[Max(s)])]
           it == CHOOSE iter : Is(iter)
           result(a) == [osc |-> Played(a.d, From + n * setting.period - end,
                                        dmc_table[a.d.dac]),
                         out |-> a.out]
<1>1. setting.period \in Nat \ {0} /\ VoiceType
  BY VoiceCases DEF RunType
<1>2. /\ n \in Nat /\ last_time \in Times
      /\ \A k \in 1..n : From + (k - 1) * setting.period \in Times
  BY <1>1, ExpiryTimes
<1>3. DOMAIN seq = 1..n /\ \A k \in 1..n : seq[k] = k
  BY DEF Steps
<1>4. PlayStart \in V
  <2> DEFINE y == dmc_table[osc.dac] - osc.last_amp
  <2>1. y \in Int
    <3>1. osc.dac \in 0..MaxDac /\ osc.last_amp \in Int
      BY DEF PlayerType
    <3>2. dmc_table[osc.dac] \in Int
      BY <3>1, VoiceAssumption
    <3> QED
      BY <3>1, <3>2
  <2>2. Player(osc, setting) \in Decks
    BY OscillatorAssumption DEF Player, PlayerType, Decks, DeckType
  <2> HIDE DEF y, n, seq, it, g
  <2>3. Change(last_time, y) \in Seq(Deltas)
    <3>1. changes \in Logs
      BY DEF RunType, Start, States
    <3> QED
      BY ONLY <1>2, <2>1, <3>1, LogChange, Zenon
  <2> QED
    BY <2>2, <2>3 DEF PlayStart, Plays, y
<1>5. Run(last_time, end) = result(it[DOMAIN seq])
  <2> HIDE DEF end
  <2>1. Run(last_time, end) = DmcWave(osc, setting, last_time, end)
    <3> HIDE DEF n, seq, it, g, V
    <3> QED
      BY DEF Run
  <2>2. DmcWave(osc, setting, last_time, end) = result(it[DOMAIN seq])
    BY Zenon DEF DmcWave, FoldLeft, MapThenFoldSet, From, PlayAt, PlayStart, MovedBy, B
  <2> QED
    BY <2>1, <2>2, Zenon
<1> HIDE DEF n, seq, end, it
<1>6. g \in [V \X (1..n) -> V]
  <2> SUFFICES ASSUME NEW a \in V, NEW k \in 1..n PROVE PlayAt(a, k) \in V
    OBVIOUS
  <2>1. a.d \in Decks /\ a.out \in Seq(Deltas)
    BY DEF Plays
  <2> DEFINE d == [a.d EXCEPT !.dac = MovedBy(a.d)]
             delta == dmc_table[d.dac] - dmc_table[a.d.dac]
             t == From + (k - 1) * setting.period
  <2>2. d.dac \in 0..MaxDac /\ PlayBit(d) \in Decks
    BY <1>1, <2>1, PlayedBit
  <2>3. a.d.dac \in 0..MaxDac
    BY <2>1 DEF Decks, DeckType
  <2>4. PlayAt(a, k) = [d |-> PlayBit(d), out |-> a.out \o Change(t, delta)]
    BY DEF PlayAt
  <2> HIDE DEF d
  <2>5. delta \in Int
    <3>1. dmc_table[d.dac] \in Int /\ dmc_table[a.d.dac] \in Int
      BY <2>2, <2>3, VoiceAssumption
    <3> QED
      BY <3>1
  <2>6. t \in Times
    BY <1>2
  <2> HIDE DEF delta, t
  <2>7. a.out \o Change(t, delta) \in Seq(Deltas)
    BY <2>1, <2>5, <2>6, ThenChange
  <2> QED
    BY <2>2, <2>4, <2>7 DEF Plays
<1>7. \A a \in V, k \in 1..n : g[<<a, k>>] = PlayAt(a, k)
  OBVIOUS
<1> HIDE DEF g, V
<1>8. \A s \in SUBSET (1..n) : s # {} => /\ Max(s) \in 1..n /\ seq[Max(s)] = Max(s)
                                          /\ s \ {Max(s)} \in SUBSET (1..n)
  BY <1>2, <1>3, Segments
<1>9. Is(it)
  <2>1. PICK h \in [SUBSET (1..n) -> V] : FoldsUp(h, n, PlayStart, g)
    BY <1>2, <1>4, <1>6, FoldMax
  <2>2. ASSUME NEW s \in SUBSET (1..n)
        PROVE  h[s] = IF s = {} THEN PlayStart
                      ELSE PlayAt(h[s \ {Max(s)}], seq[Max(s)])
    <3>1. CASE s = {}
      BY <2>1, <3>1 DEF FoldsUp
    <3>2. CASE s # {}
      <4>1. Max(s) \in 1..n /\ seq[Max(s)] = Max(s) /\ h[s \ {Max(s)}] \in V
        BY <1>8, <3>2
      <4>2. h[s] = g[<<h[s \ {Max(s)}], Max(s)>>]
        BY <2>1, <3>2 DEF FoldsUp
      <4>3. g[<<h[s \ {Max(s)}], Max(s)>>] = PlayAt(h[s \ {Max(s)}], Max(s))
        BY <4>1, <1>7
      <4> QED
        BY <3>2, <4>1, <4>2, <4>3
    <3> QED
      BY <3>1, <3>2
  <2>3. Is(h)
    BY <1>3, <2>2
  <2> QED
    BY <2>3 DEF it
<1>10. FoldsIn(it, V, n, PlayStart, g)
  <2>1. \A s \in SUBSET (1..n) :
           it[s] = IF s = {} THEN PlayStart
                   ELSE PlayAt(it[s \ {Max(s)}], seq[Max(s)])
    BY <1>3, <1>9
  <2> HIDE DEF Is
  <2>2. it[{}] = PlayStart
    BY <2>1
  <2>3. ASSUME NEW s \in SUBSET (1..n), s # {}, it[s \ {Max(s)}] \in V
        PROVE  it[s] = g[<<it[s \ {Max(s)}], Max(s)>>]
    <3>1. Max(s) \in 1..n /\ seq[Max(s)] = Max(s)
      BY <1>8, <2>3
    <3>2. it[s] = PlayAt(it[s \ {Max(s)}], seq[Max(s)])
      BY <2>1, <2>3
    <3>3. g[<<it[s \ {Max(s)}], Max(s)>>] = PlayAt(it[s \ {Max(s)}], Max(s))
      BY <1>7, <2>3, <3>1
    <3> QED
      BY <3>1, <3>2, <3>3
  <2> QED
    BY <2>2, <2>3 DEF FoldsIn
<1> HIDE DEF Is
<1>11. PICK f \in [0..n -> V] : f[n] = it[1..n] /\ StepBy(f, n, PlayStart, g)
  BY <1>2, <1>4, <1>6, <1>10, FoldSegments
<1>12. ASSUME NEW k \in 0..(n - 1) PROVE f[k + 1] = PlayAt(f[k], k + 1)
  <2>1. f[k] \in V /\ k + 1 \in 1..n
    BY <1>2
  <2>2. f[k + 1] = g[<<f[k], k + 1>>]
    BY <1>11 DEF StepBy
  <2> QED
    BY <2>1, <2>2, <1>7
<1>13. f[0] = PlayStart
  BY <1>11 DEF StepBy
<1>14. Run(last_time, end) = result(f[n])
  BY <1>3, <1>5, <1>11
<1> QED
  BY <1>12, <1>13, <1>14 DEF V, n, end

\* What a run leaves of the player.
Fits(d) ==
    /\ d.dac \in 0..MaxDac /\ d.bits \in 1..B /\ d.silence \in BOOLEAN
    /\ d.full \in BOOLEAN /\ d.len \in Nat /\ (d.full \/ d.len = 0)

\* A run of the player plays its bits.
LEMMA DmcRuns ==
    ASSUME NEW gap, RunType(gap), voice = "dmc", osc \in PlayerType,
           NEW ph, NEW m, Course(ph, m)
    PROVE  LET p   == Whole!Period(setting)
               n   == Expiries(From, last_time + gap, p)
               run == Run(last_time, last_time + gap)
           IN  /\ \E d : /\ Fits(d) /\ PhaseIn(d) = ph[n]
                         /\ run.osc = Played(d, osc.delay + n * p - gap, Level(ph[n]))
               /\ run.out \in Seq(Deltas) /\ Log(changes, run.out) = m[n]
<1> DEFINE p == setting.period
           n == Expiries(From, last_time + gap, p)
           run == Run(last_time, last_time + gap)
<1>1. p \in Nat \ {0} /\ VoiceType /\ p = Whole!Period(setting)
  <2>1. p \in Nat \ {0} /\ VoiceType
    BY VoiceCases DEF RunType
  <2> QED
    BY <2>1 DEF Whole!Period
<1>2. n \in Nat /\ last_time \in Times
  BY <1>1, ExpiryTimes
<1>3. /\ Phase = PhaseIn(osc) /\ osc.last_amp \in Int /\ changes \in Logs
      /\ base + last_time = Now
      /\ PhaseType = [dac : 0..MaxDac, bit : 0..(B - 1), on : BOOLEAN, bytes : Nat]
  <2>1. Phase = PhaseIn(osc)
    BY DEF Phase, PhaseIn, B
  <2>2. PhaseType = [dac : 0..MaxDac, bit : 0..(B - 1), on : BOOLEAN, bytes : Nat]
    BY <1>1, VoiceCases DEF B
  <2> QED
    BY <2>1, <2>2 DEF RunType, Start, States, Now
<1>4. /\ ph \in [Nat -> PhaseType] /\ m \in [Nat -> Logs] /\ ph[0] = Phase
      /\ \A k \in Nat : ph[k + 1] = Whole!PhaseAfter(ph[k], setting)
      /\ m[0] = Mark(changes, Now, Level(Phase) - osc.last_amp)
      /\ \A k \in Nat :
            m[k + 1] = Mark(m[k], Now + (osc.delay + k * p), Level(ph[k + 1]) - Level(ph[k]))
  BY <1>1 DEF Course
<1>5. \A q : Level(q) = dmc_table[q.dac]
  BY DEF Level, Whole!LevelOf
<1>6. From + n * p - (last_time + gap) = osc.delay + n * p - gap
  <2>1. n * p \in Nat /\ gap \in Nat /\ osc.delay \in Nat /\ last_time \in Nat
    BY <1>1, <1>2, Products DEF RunType
  <2> DEFINE q == n * p
  <2> HIDE DEF q
  <2> QED
    BY <2>1 DEF From, q
<1> HIDE DEF n, run
<1>7. CASE osc.silence /\ ~osc.full
  <2> DEFINE d == SkipBits(osc, n)
             deltas == Change(last_time, dmc_table[osc.dac] - osc.last_amp)
             bit(k) == B - (1 + ((osc.bits - 1 + B - (k % B)) % B))
             silent(k) == [dac |-> osc.dac, bit |-> bit(k), on |-> FALSE, bytes |-> 0]
  <2>1. /\ B \in Nat \ {0} /\ osc.bits \in 1..B /\ osc.len = 0 /\ osc.dac \in 0..MaxDac
        /\ osc.silence = TRUE /\ osc.full = FALSE
    BY <1>7, OscillatorAssumption DEF PlayerType, B
  <2>2. run = [osc |-> Played(d, From + n * p - (last_time + gap), dmc_table[d.dac]),
               out |-> deltas]
    <3> DEFINE end == last_time + gap
    <3>1. run = DmcWave(osc, setting, last_time, end)
      BY DEF Run, run
    <3> HIDE DEF end
    <3>2. DmcWave(osc, setting, last_time, end) =
              LET x == Expiries(From, end, p)
              IN  [osc |-> Played(SkipBits(osc, x), From + x * p - end,
                                  dmc_table[SkipBits(osc, x).dac]),
                   out |-> deltas]
      BY <1>7 DEF DmcWave, From
    <3> QED
      BY <3>1, <3>2 DEF n, end
  <2>3. /\ d.dac = osc.dac /\ d.bits = 1 + ((osc.bits - 1 + B - (n % B)) % B)
        /\ d.silence = osc.silence /\ d.full = osc.full /\ d.len = osc.len
    BY DEF SkipBits, PlayerType, B
  <2>4. ASSUME NEW k \in Nat
        PROVE  /\ bit(k) \in 0..(B - 1)
               /\ bit(k + 1) = IF bit(k) < B - 1 THEN bit(k) + 1 ELSE 0
    <3>1. /\ k % B \in 0..(B - 1)
          /\ (k + 1) % B = IF k % B = B - 1 THEN 0 ELSE (k % B) + 1
      BY <2>1, RemainderNext
    <3>2. ASSUME NEW r \in 0..(B - 1)
          PROVE  (osc.bits - 1 + B - r) % B
                   = IF osc.bits - 1 < r THEN osc.bits - 1 + B - r ELSE osc.bits - 1 - r
      <4> DEFINE x == osc.bits - 1 + B - r
      <4>1. x \in Nat /\ x < 2 * B
        BY <2>1
      <4> HIDE DEF x
      <4>2. x % B = IF x < B THEN x ELSE x - B
        BY <2>1, <4>1
      <4> QED
        BY <2>1, <4>2 DEF x
    <3> DEFINE r == k % B
               s == (k + 1) % B
    <3>3. r \in 0..(B - 1) /\ s \in 0..(B - 1) /\ s = IF r = B - 1 THEN 0 ELSE r + 1
      BY <2>1, <3>1
    <3> HIDE DEF r, s
    <3>4. bit(k) = B - (1 + (IF osc.bits - 1 < r THEN osc.bits - 1 + B - r
                                                 ELSE osc.bits - 1 - r))
      BY <3>2, <3>3 DEF r
    <3>5. bit(k + 1) = B - (1 + (IF osc.bits - 1 < s THEN osc.bits - 1 + B - s
                                                     ELSE osc.bits - 1 - s))
      BY <3>2, <3>3 DEF s
    <3> DEFINE x == bit(k)
               y == bit(k + 1)
               i == osc.bits - 1
    <3> HIDE DEF bit, x, y, i
    <3>6. /\ x = B - (1 + (IF i < r THEN i + B - r ELSE i - r))
          /\ y = B - (1 + (IF i < s THEN i + B - s ELSE i - s)) /\ i \in 0..(B - 1)
      BY <2>1, <3>4, <3>5 DEF x, y, i
    <3>7. x \in 0..(B - 1) /\ y = IF x < B - 1 THEN x + 1 ELSE 0
      <4>1. CASE i < r
        BY <2>1, <3>3, <3>6, <4>1
      <4>2. CASE ~(i < r)
        BY <2>1, <3>3, <3>6, <4>2
      <4> QED
        BY <4>1, <4>2
    <3> QED
      BY <3>7 DEF x, y
  <2>5. \A k \in Nat : ph[k] = silent(k)
    <3> DEFINE T == {k \in Nat : ph[k] = silent(k)}
    <3>1. 0 \in T
      <4>1. 0 % B = 0 /\ (osc.bits - 1 + B - 0) % B = osc.bits - 1
        <5> DEFINE x == osc.bits - 1 + B - 0
        <5>1. x \in Nat /\ x < 2 * B /\ ~(x < B)
          BY <2>1
        <5> HIDE DEF x
        <5>2. x % B = IF x < B THEN x ELSE x - B
          BY <2>1, <5>1
        <5>3. 0 % B = 0
          BY <2>1
        <5> QED
          BY <2>1, <5>1, <5>2, <5>3 DEF x
      <4>2. bit(0) = B - osc.bits
        BY <2>1, <4>1
      <4> HIDE DEF bit
      <4>3. PhaseIn(osc) = silent(0)
        <5>1. (~osc.silence) = FALSE /\ osc.len + (IF osc.full THEN 1 ELSE 0) = 0
          BY <2>1
        <5> QED
          BY <4>2, <5>1 DEF PhaseIn
      <4> QED
        BY <1>3, <1>4, <4>3
    <3>2. ASSUME NEW k \in Nat, k \in T PROVE k + 1 \in T
      <4> HIDE DEF bit
      <4>1. ph[k] = silent(k) /\ ph[k + 1] = Whole!PhaseAfter(silent(k), setting)
        BY <1>4, <3>2
      <4> DEFINE q == silent(k)
      <4>2. q.dac = osc.dac /\ q.bit = bit(k) /\ q.on = FALSE /\ q.bytes = 0
        OBVIOUS
      <4> HIDE DEF q
      <4>3. Whole!Moved(q) = osc.dac
        BY <4>2 DEF Whole!Moved
      <4>4. Whole!BytesAfter(q.bytes, setting) = 0 /\ (q.bytes > 0) = FALSE
        BY <4>2 DEF Whole!BytesAfter
      <4>5. Whole!PhaseAfter(q, setting) =
               IF q.bit < B - 1
               THEN [dac |-> Whole!Moved(q), bit |-> q.bit + 1, on |-> q.on, bytes |-> q.bytes]
               ELSE [dac |-> Whole!Moved(q), bit |-> 0, on |-> q.bytes > 0,
                     bytes |-> Whole!BytesAfter(q.bytes, setting)]
        BY DEF Whole!PhaseAfter, B
      <4>6. Whole!PhaseAfter(q, setting) =
               [dac |-> osc.dac, bit |-> bit(k + 1), on |-> FALSE, bytes |-> 0]
        <5>1. CASE bit(k) < B - 1
          <6>1. bit(k + 1) = bit(k) + 1
            BY <2>4, <5>1
          <6> QED
            BY <4>2, <4>3, <4>5, <5>1, <6>1
        <5>2. CASE ~(bit(k) < B - 1)
          <6>1. bit(k + 1) = 0
            BY <2>4, <5>2
          <6> QED
            BY <4>2, <4>3, <4>4, <4>5, <5>2, <6>1
        <5> QED
          BY <5>1, <5>2
      <4>7. ph[k + 1] = silent(k + 1)
        BY <4>1, <4>6 DEF q
      <4> QED
        BY <4>7
    <3> HIDE DEF T
    <3>3. Nat \subseteq T
      BY <3>1, <3>2, SetInduction
    <3> QED
      BY <3>3 DEF T
  <2>6. \A k \in Nat : Level(ph[k]) = dmc_table[osc.dac]
    <3> SUFFICES ASSUME NEW k \in Nat PROVE Level(ph[k]) = dmc_table[osc.dac]
      OBVIOUS
    <3> HIDE DEF bit
    <3>1. ph[k] = silent(k) /\ silent(k).dac = osc.dac
      BY <2>5
    <3> QED
      BY <1>5, <3>1
  <2>7. dmc_table[osc.dac] \in Int
    BY <2>1, VoiceAssumption
  <2>8. \A k \in Nat : m[k] = m[0]
    <3> DEFINE T == {k \in Nat : m[k] = m[0]}
    <3>1. 0 \in T
      OBVIOUS
    <3>2. ASSUME NEW k \in Nat, k \in T PROVE k + 1 \in T
      <4> HIDE DEF p
      <4>1. m[k + 1] = Mark(m[k], Now + (osc.delay + k * p), Level(ph[k + 1]) - Level(ph[k]))
        BY <1>4
      <4>2. Level(ph[k + 1]) - Level(ph[k]) = 0
        BY <2>6, <2>7
      <4> QED
        BY <1>4, <3>2, <4>1, <4>2, MarkType
    <3> HIDE DEF T
    <3>3. Nat \subseteq T
      BY <3>1, <3>2, SetInduction
    <3> QED
      BY <3>3 DEF T
  <2>9. deltas \in Seq(Deltas) /\ Log(changes, deltas) = m[0]
    <3> DEFINE x == dmc_table[osc.dac] - osc.last_amp
    <3>1. x \in Int /\ Level(Phase) - osc.last_amp = x
      <4>1. Level(Phase) = dmc_table[osc.dac]
        BY <1>4, <2>6
      <4> QED
        BY <1>3, <2>7, <4>1
    <3> HIDE DEF x
    <3>2. Change(last_time, x) \in Seq(Deltas)
          /\ Log(changes, Change(last_time, x)) = Mark(changes, Now, x)
      BY <1>2, <1>3, <3>1, LogChange
    <3> QED
      BY <1>4, <3>1, <3>2 DEF x
  <2>10. Fits(d) /\ PhaseIn(d) = ph[n]
    <3>1. d.bits = B - bit(n) /\ bit(n) \in 0..(B - 1)
      <4>1. bit(n) \in 0..(B - 1)
        BY <1>2, <2>4
      <4>2. ASSUME NEW x \in 0..(B - 1), NEW y, B - y = x, y \in Int PROVE y = B - x
        BY <2>1, <4>2
      <4>3. n % B \in 0..(B - 1)
        BY <1>2, <2>1, RemainderNext
      <4>4. d.bits \in Int
        <5> DEFINE w == osc.bits - 1 + B - (n % B)
        <5>1. w \in Nat
          BY <2>1, <4>3
        <5> HIDE DEF w
        <5>2. w % B \in Int
          BY <2>1, <5>1
        <5> QED
          BY <2>3, <5>2 DEF w
      <4>5. B - d.bits = bit(n)
        BY <2>3
      <4> HIDE DEF bit, d
      <4> QED
        BY <4>1, <4>2, <4>4, <4>5
    <3> HIDE DEF bit, d
    <3>2. d.bits \in 1..B /\ B - d.bits = bit(n) /\ 0 + 0 = 0
      BY <2>1, <3>1
    <3>3. Fits(d)
      <4>1. /\ d.dac \in 0..MaxDac /\ d.len = 0 /\ d.len \in Nat
        BY <2>1, <2>3
      <4>2. osc.silence \in BOOLEAN /\ osc.full \in BOOLEAN
        BY DEF PlayerType
      <4>3. d.silence \in BOOLEAN /\ d.full \in BOOLEAN
        BY <2>3, <4>2, Zenon
      <4> QED
        BY <3>2, <4>1, <4>3 DEF Fits
    <3>4. PhaseIn(d) = silent(n)
      <4>1. (~d.silence) = FALSE /\ d.len + (IF d.full THEN 1 ELSE 0) = 0 /\ d.dac = osc.dac
        BY <2>1, <2>3
      <4> QED
        BY <3>2, <4>1 DEF PhaseIn
    <3> QED
      BY <1>2, <2>5, <3>3, <3>4
  <2> HIDE DEF d, deltas
  <2>11. run.osc = Played(d, osc.delay + n * p - gap, Level(ph[n])) /\ run.out = deltas
    BY <1>2, <1>6, <2>2, <2>3, <2>6
  <2> QED
    BY <1>1, <1>2, <2>8, <2>9, <2>10, <2>11 DEF n, run
<1>8. CASE ~(osc.silence /\ ~osc.full)
  <2>1. PICK f \in [0..n -> Plays] :
          /\ f[0] = PlayStart
          /\ \A k \in 0..(n - 1) : f[k + 1] = PlayAt(f[k], k + 1)
          /\ run = [osc |-> Played(f[n].d, From + n * p - (last_time + gap),
                                   dmc_table[f[n].d.dac]),
                    out |-> f[n].out]
    BY <1>8, DmcFolds DEF n, run
  <2> HIDE DEF p
  <2> DEFINE after(k) == [f[k].d EXCEPT !.dac = MovedBy(f[k].d)]
  <2>2. ASSUME NEW k \in 0..(n - 1)
        PROVE  /\ f[k].d \in Decks /\ f[k + 1].d = PlayBit(after(k))
               /\ f[k + 1].d.dac = after(k).dac
               /\ PhaseIn(f[k + 1].d) = Whole!PhaseAfter(PhaseIn(f[k].d), setting)
    <3>1. f[k] \in Plays /\ f[k + 1] = PlayAt(f[k], k + 1)
      BY <1>2, <2>1
    <3>2. f[k].d \in Decks
      BY <3>1 DEF Plays
    <3>3. f[k + 1].d = PlayBit(after(k))
      BY <3>1 DEF PlayAt
    <3>4. /\ PlayBit(after(k)).dac = after(k).dac
          /\ PhaseIn(PlayBit(after(k))) = Whole!PhaseAfter(PhaseIn(f[k].d), setting)
      BY <1>1, <3>2, PlayedBit
    <3> QED
      BY <3>2, <3>3, <3>4
  <2> HIDE DEF after
  <2> DEFINE T == {k \in Nat : k <= n => PhaseIn(f[k].d) = ph[k]}
  <2>3. 0 \in T
    <3>1. PhaseIn(Player(osc, setting)) = PhaseIn(osc)
      BY DEF PhaseIn, Player
    <3> QED
      BY <1>3, <1>4, <2>1, <3>1 DEF PlayStart
  <2>4. ASSUME NEW k \in Nat, k \in T PROVE k + 1 \in T
    <3> SUFFICES ASSUME k + 1 <= n PROVE PhaseIn(f[k + 1].d) = ph[k + 1]
      OBVIOUS
    <3>1. PhaseIn(f[k].d) = ph[k] /\ k \in 0..(n - 1)
      BY <1>2, <2>4
    <3> QED
      BY <1>4, <2>2, <3>1
  <2> HIDE DEF T
  <2>5. \A k \in 0..n : PhaseIn(f[k].d) = ph[k]
    <3>1. Nat \subseteq T
      BY <2>3, <2>4, SetInduction
    <3> QED
      BY <1>2, <3>1 DEF T
  <2>6. \A k \in 0..n : Level(ph[k]) = dmc_table[f[k].d.dac]
    <3> SUFFICES ASSUME NEW k \in 0..n PROVE Level(ph[k]) = dmc_table[f[k].d.dac]
      OBVIOUS
    <3>1. PhaseIn(f[k].d).dac = f[k].d.dac
      BY DEF PhaseIn
    <3> QED
      BY <1>5, <2>5, <3>1
  <2> DEFINE outs == [k \in 0..n |-> f[k].out]
  <2>7. Outs(outs, n, ph)
    <3>1. outs[0] = Change(last_time, Level(Phase) - osc.last_amp)
      <4>1. outs[0] = f[0].out /\ 0 \in 0..n
        BY <1>2
      <4>2. Level(Phase) = dmc_table[osc.dac]
        BY <1>3, <1>5 DEF PhaseIn
      <4> QED
        BY <2>1, <4>1, <4>2 DEF PlayStart
    <3>2. ASSUME NEW k \in 0..(n - 1)
          PROVE  Extends(outs[k + 1], outs[k], From + k * p, Level(ph[k + 1]) - Level(ph[k]))
      <4>1. k \in Nat /\ k \in 0..n /\ k + 1 \in 0..n /\ k + 1 \in 1..n /\ (k + 1) - 1 = k
        BY <1>2
      <4> DEFINE t == From + k * p
                 delta == Level(ph[k + 1]) - Level(ph[k])
      <4>2. /\ f[k + 1] = PlayAt(f[k], k + 1) /\ f[k] \in Plays /\ f[k + 1] \in Plays
            /\ outs[k + 1] = f[k + 1].out /\ outs[k] = f[k].out
        <5>1. f[k + 1] = PlayAt(f[k], k + 1) /\ f[k] \in Plays /\ f[k + 1] \in Plays
          BY <2>1, <4>1
        <5> QED
          BY <4>1, <5>1
      <4>3. /\ Level(ph[k]) = dmc_table[f[k].d.dac]
            /\ Level(ph[k + 1]) = dmc_table[after(k).dac]
        <5>1. Level(ph[k]) = dmc_table[f[k].d.dac]
          BY <2>6, <4>1
        <5>2. Level(ph[k + 1]) = dmc_table[f[k + 1].d.dac]
          BY <2>6, <4>1
        <5>3. f[k + 1].d.dac = after(k).dac
          BY <2>2, <4>1
        <5> QED
          BY <5>1, <5>2, <5>3
      <4>4. f[k + 1].out = f[k].out \o Change(t, delta)
        <5>1. f[k + 1].out = f[k].out \o Change(From + ((k + 1) - 1) * setting.period,
                                    dmc_table[after(k).dac] - dmc_table[f[k].d.dac])
          <6> DEFINE w == f[k].out \o Change(From + ((k + 1) - 1) * setting.period,
                                    dmc_table[after(k).dac] - dmc_table[f[k].d.dac])
          <6>1. PlayAt(f[k], k + 1) = [d |-> PlayBit(after(k)), out |-> w]
            BY DEF PlayAt, after
          <6> HIDE DEF w
          <6>2. f[k + 1].out = w
            BY <4>2, <6>1
          <6> QED
            BY <6>2 DEF w
        <5>2. From + ((k + 1) - 1) * setting.period = t
          BY <4>1 DEF p
        <5> QED
          BY <4>3, <5>1, <5>2
      <4>5. t \in Times
        <5>1. From + ((k + 1) - 1) * p \in Times
          BY <1>1, <4>1, ExpiryTimes DEF n
        <5> QED
          BY <4>1, <5>1
      <4>6. delta \in Int
        <5>1. f[k].d \in Decks /\ f[k + 1].d \in Decks
          BY <4>2 DEF Plays
        <5>2. f[k].d.dac \in 0..MaxDac /\ f[k + 1].d.dac \in 0..MaxDac
          BY <5>1 DEF Decks, DeckType
        <5>3. dmc_table[f[k].d.dac] \in Int /\ dmc_table[f[k + 1].d.dac] \in Int
          BY <5>2, VoiceAssumption
        <5>4. /\ Level(ph[k]) = dmc_table[f[k].d.dac]
              /\ Level(ph[k + 1]) = dmc_table[f[k + 1].d.dac]
          BY <2>6, <4>1
        <5> QED
          BY <5>3, <5>4
      <4>7. f[k].out \in Seq(Deltas)
        BY <4>2 DEF Plays
      <4> HIDE DEF outs, t, delta
      <4>8. Extends(f[k + 1].out, f[k].out, t, delta)
        BY <4>4, <4>5, <4>6, <4>7, ThenChange
      <4> QED
        BY <4>2, <4>8 DEF t, delta
    <3> QED
      BY <1>1, <3>1, <3>2 DEF Outs
  <2>8. f[n].out \in Seq(Deltas) /\ Log(changes, f[n].out) = m[n]
    <3>1. n \in 0..n
      BY <1>2
    <3>2. outs[n] \in Seq(Deltas) /\ Log(changes, outs[n]) = m[n]
      BY <1>1, <2>7, <3>1, OutsFollow DEF n
    <3> QED
      BY <3>1, <3>2
  <2>9. Fits(f[n].d) /\ PhaseIn(f[n].d) = ph[n] /\ Level(ph[n]) = dmc_table[f[n].d.dac]
    <3>1. n \in 0..n
      BY <1>2
    <3>2. f[n].d \in Decks
      BY <2>1, <3>1 DEF Plays
    <3>3. Fits(f[n].d)
      BY <3>2 DEF Fits, Decks, DeckType
    <3> QED
      BY <2>5, <2>6, <3>1, <3>3
  <2>10. /\ run.osc = Played(f[n].d, osc.delay + n * p - gap, Level(ph[n]))
         /\ run.out = f[n].out
    BY <1>6, <2>1, <2>9
  <2> QED
    BY <1>1, <2>8, <2>9, <2>10 DEF n, run
<1> QED
  BY <1>7, <1>8

-----------------------------------------------------------------------------
(* Sums over sets of clocks.                                               *)

\* h sums up the values of f over the subsets of S, in whatever order.
SumsUp(h, S, f) ==
    /\ f \in [S -> Int] /\ h \in [SUBSET S -> Int]
    /\ h[{}] = 0 /\ \A s \in SUBSET S : \A x \in s : h[s] = f[x] + h[s \ {x}]

\* f and g have the same sum over E and D: they are the same on D, and beyond
\* it f is zero.
Same(f, E, g, D) ==
    D \subseteq E /\ (\A x \in D : f[x] = g[x]) /\ \A x \in E \ D : f[x] = 0

\* Such sums exist.
LEMMA SumsExist ==
    ASSUME NEW S, IsFiniteSet(S), NEW f \in [S -> Int]
    PROVE  \E h : SumsUp(h, S, f)
<1> DEFINE ch == [s \in SUBSET S |-> CHOOSE x \in s : TRUE]
           V == Int
           g == [p \in V \X S |-> f[p[2]] + p[1]]
<1>1. Takes(ch, S) /\ 0 \in V
  BY DEF Takes
<1>2. g \in [V \X S -> V] /\ \A v \in Int, x \in S : g[<<v, x>>] = f[x] + v
  OBVIOUS
<1> HIDE DEF ch, g, V
<1>3. PICK h \in [SUBSET S -> V] : Folds(h, S, ch, 0, g)
  BY <1>1, <1>2, FoldDefined
<1> USE DEF V
<1>4. h[{}] = 0
  <2>1. {} \in SUBSET S
    OBVIOUS
  <2> QED
    BY <1>3, <2>1 DEF Folds
<1>5. ASSUME NEW s \in SUBSET S, s # {}
      PROVE  ch[s] \in s /\ h[s] = f[ch[s]] + h[s \ {ch[s]}]
  <2>1. ch[s] \in s /\ s \ {ch[s]} \in SUBSET S
    BY <1>1, <1>5 DEF Takes
  <2>2. h[s] = g[<<h[s \ {ch[s]}], ch[s]>>]
    BY <1>3, <1>5 DEF Folds
  <2>3. ch[s] \in S /\ h[s \ {ch[s]}] \in Int
    BY <2>1
  <2> QED
    BY <2>1, <2>2, <2>3, <1>2
<1>6. \A s \in SUBSET S : IsFiniteSet(s) /\ Cardinality(s) \in Nat
  BY FS_Subset, FS_CardinalityType
<1> DEFINE T == {n \in Nat : \A s \in SUBSET S : Cardinality(s) = n =>
                                \A x \in s : h[s] = f[x] + h[s \ {x}]}
<1>7. 0 \in T
  BY <1>6, FS_EmptySet
<1>8. ASSUME NEW n \in Nat, n \in T PROVE n + 1 \in T
  <2> SUFFICES ASSUME NEW s \in SUBSET S, Cardinality(s) = n + 1, NEW x \in s
               PROVE  h[s] = f[x] + h[s \ {x}]
    OBVIOUS
  <2> DEFINE y == ch[s]
  <2>1. y \in s /\ h[s] = f[y] + h[s \ {y}]
    BY <1>5
  <2> HIDE DEF y
  <2>2. CASE x = y
    BY <2>1, <2>2
  <2>3. CASE x # y
    <3>1. Cardinality(s \ {y}) = n /\ Cardinality(s \ {x}) = n
      <4>1. /\ Cardinality(s \ {y}) = Cardinality(s) - 1
            /\ Cardinality(s \ {x}) = Cardinality(s) - 1
        BY <2>1, <1>6, FS_RemoveElement
      <4> QED
        BY <4>1
    <3>2. x \in s \ {y} /\ y \in s \ {x} /\ s \ {y} \in SUBSET S /\ s \ {x} \in SUBSET S
      BY <2>1, <2>3
    <3>3. /\ h[s \ {y}] = f[x] + h[(s \ {y}) \ {x}]
          /\ h[s \ {x}] = f[y] + h[(s \ {x}) \ {y}]
      BY <1>8, <3>1, <3>2
    <3>4. (s \ {y}) \ {x} = (s \ {x}) \ {y} /\ (s \ {y}) \ {x} \in SUBSET S
      OBVIOUS
    <3> DEFINE z == h[(s \ {y}) \ {x}]
    <3>5. f[x] \in Int /\ f[y] \in Int /\ z \in Int
      BY <2>1, <3>4
    <3>6. h[s \ {y}] = f[x] + z /\ h[s \ {x}] = f[y] + z
      BY <3>3, <3>4
    <3> HIDE DEF z
    <3> QED
      BY <2>1, <3>5, <3>6
  <2> QED
    BY <2>2, <2>3
<1> HIDE DEF T
<1>9. \A s \in SUBSET S : \A x \in s : h[s] = f[x] + h[s \ {x}]
  <2>1. \A n \in Nat : n \in T
    BY <1>7, <1>8, SetInduction
  <2> QED
    BY <2>1, <1>6 DEF T
<1> QED
  BY <1>3, <1>4, <1>9 DEF SumsUp

\* They depend on the values there, and those that are zero do not count.
LEMMA SumsAgree ==
    ASSUME NEW S, IsFiniteSet(S), NEW f, NEW g, NEW h, NEW k,
           SumsUp(h, S, f), SumsUp(k, S, g),
           NEW D, NEW E, E \subseteq S, Same(f, E, g, D)
    PROVE  h[E] = k[D]
<1>0. /\ f \in [S -> Int] /\ h \in [SUBSET S -> Int] /\ D \in SUBSET S /\ E \in SUBSET S
      /\ g \in [S -> Int] /\ k \in [SUBSET S -> Int] /\ D \subseteq E
      /\ (\A x \in D : f[x] = g[x]) /\ \A x \in E \ D : f[x] = 0
  BY DEF SumsUp, Same
<1>1. \A s \in SUBSET S : IsFiniteSet(s) /\ Cardinality(s) \in Nat
  BY FS_Subset, FS_CardinalityType
<1> DEFINE T == {n \in Nat : \A s \in SUBSET S :
                    Cardinality(s) = n /\ s \subseteq E => h[s] = k[s \cap D]}
<1>2. 0 \in T
  <2> SUFFICES ASSUME NEW s \in SUBSET S, Cardinality(s) = 0 PROVE h[s] = k[s \cap D]
    OBVIOUS
  <2>1. s = {}
    BY <1>1, FS_EmptySet
  <2>2. s \cap D = {}
    BY <2>1
  <2> QED
    BY <2>1, <2>2 DEF SumsUp
<1>3. ASSUME NEW n \in Nat, n \in T PROVE n + 1 \in T
  <2> SUFFICES ASSUME NEW s \in SUBSET S, Cardinality(s) = n + 1, s \subseteq E
               PROVE  h[s] = k[s \cap D]
    OBVIOUS
  <2>1. PICK x \in s : TRUE
    <3>1. Cardinality(s) # 0 /\ Cardinality({}) = 0
      BY FS_EmptySet
    <3> QED
      BY <3>1
  <2>2. s \ {x} \in SUBSET S /\ s \ {x} \subseteq E /\ Cardinality(s \ {x}) = n
    <3>1. Cardinality(s \ {x}) = Cardinality(s) - 1
      BY <1>1, <2>1, FS_RemoveElement
    <3> QED
      BY <3>1
  <2>3. h[s \ {x}] = k[(s \ {x}) \cap D]
    BY <1>3, <2>2
  <2>4. h[s] = f[x] + h[s \ {x}]
    BY DEF SumsUp
  <2>5. CASE x \in D
    <3>1. (s \cap D) \ {x} = (s \ {x}) \cap D /\ x \in s \cap D /\ s \cap D \in SUBSET S
      BY <2>5
    <3>2. k[s \cap D] = g[x] + k[(s \cap D) \ {x}]
      BY <3>1 DEF SumsUp
    <3>3. f[x] = g[x]
      BY <1>0, <2>5
    <3>4. k[s \cap D] = g[x] + h[s \ {x}]
      BY <2>3, <3>1, <3>2
    <3> QED
      BY <2>4, <3>3, <3>4
  <2>6. CASE x \notin D
    <3>1. (s \ {x}) \cap D = s \cap D
      BY <2>6
    <3>2. f[x] = 0 /\ h[s \ {x}] \in Int
      BY <1>0, <2>1, <2>2, <2>6
    <3>3. h[s] = h[s \ {x}]
      BY <2>4, <3>2
    <3> QED
      BY <2>3, <3>1, <3>3
  <2> QED
    BY <2>5, <2>6
<1> HIDE DEF T
<1>4. Cardinality(E) \in T
  BY <1>1, <1>2, <1>3, SetInduction
<1>5. E \cap D = D
  BY <1>0
<1> QED
  BY <1>0, <1>4, <1>5 DEF T

\* SumFunction is such a sum.
LEMMA SumIs ==
    ASSUME NEW S, IsFiniteSet(S), NEW f, NEW h, SumsUp(h, S, f),
           NEW D \in SUBSET S, NEW e, DOMAIN e = D, \A x \in D : e[x] = f[x]
    PROVE  Whole!SumFunction(e) = h[D]
<1> DEFINE Is(iter) == iter = [s \in SUBSET D |->
                           IF s = {} THEN 0
                           ELSE e[CHOOSE x \in s : TRUE] + iter[s \ {CHOOSE x \in s : TRUE}]]
           it == CHOOSE iter : Is(iter)
           r == [s \in SUBSET D |-> h[s]]
<1>1. \A s \in SUBSET D : s # {} => (CHOOSE x \in s : TRUE) \in s
  OBVIOUS
<1>2. Is(r)
  <2>1. ASSUME NEW s \in SUBSET D
        PROVE  r[s] = IF s = {} THEN 0
                      ELSE e[CHOOSE x \in s : TRUE] + r[s \ {CHOOSE x \in s : TRUE}]
    <3>1. CASE s = {}
      BY <3>1 DEF SumsUp
    <3>2. CASE s # {}
      <4> DEFINE x == CHOOSE y \in s : TRUE
      <4>1. x \in s /\ x \in D
        BY <3>2
      <4> HIDE DEF x
      <4>2. s \ {x} \in SUBSET D /\ s \in SUBSET S
        OBVIOUS
      <4>3. h[s] = f[x] + h[s \ {x}] /\ e[x] = f[x]
        BY <4>1, <4>2 DEF SumsUp
      <4>4. r[s] = e[x] + r[s \ {x}]
        BY <4>2, <4>3
      <4> QED
        BY <3>2, <4>4 DEF x
    <3> QED
      BY <3>1, <3>2
  <2> QED
    BY <2>1
<1>3. Is(it)
  <2> HIDE DEF Is
  <2> QED
    BY <1>2
<1>4. Whole!SumFunction(e) = it[D]
  <2>1. DOMAIN e = D
    OBVIOUS
  <2> QED
    BY <2>1 DEF Whole!SumFunction, Whole!SumFunctionOnSet, Whole!FoldFunctionOnSet,
                Whole!MapThenFoldSet
<1> HIDE DEF it
<1>5. \A s \in SUBSET D :
          it[s] = IF s = {} THEN 0
                  ELSE e[CHOOSE x \in s : TRUE] + it[s \ {CHOOSE x \in s : TRUE}]
  BY <1>3
<1> HIDE DEF Is
<1>6. \A s \in SUBSET D : IsFiniteSet(s) /\ Cardinality(s) \in Nat
  BY FS_Subset, FS_CardinalityType
<1> DEFINE T == {n \in Nat : \A s \in SUBSET D : Cardinality(s) = n => it[s] = h[s]}
<1>7. 0 \in T
  <2> SUFFICES ASSUME NEW s \in SUBSET D, Cardinality(s) = 0 PROVE it[s] = h[s]
    OBVIOUS
  <2>1. s = {}
    BY <1>6, FS_EmptySet
  <2> QED
    BY <2>1, <1>5 DEF SumsUp
<1>8. ASSUME NEW n \in Nat, n \in T PROVE n + 1 \in T
  <2> SUFFICES ASSUME NEW s \in SUBSET D, Cardinality(s) = n + 1 PROVE it[s] = h[s]
    OBVIOUS
  <2> DEFINE x == CHOOSE y \in s : TRUE
  <2>1. s # {}
    <3>1. Cardinality(s) # 0 /\ Cardinality({}) = 0
      BY FS_EmptySet
    <3> QED
      BY <3>1
  <2>2. it[s] = e[x] + it[s \ {x}] /\ x \in s /\ x \in D
    BY <2>1, <1>5
  <2> HIDE DEF x
  <2>3. s \ {x} \in SUBSET D /\ Cardinality(s \ {x}) = n /\ s \in SUBSET S
    <3>1. Cardinality(s \ {x}) = Cardinality(s) - 1
      BY <2>2, <1>6, FS_RemoveElement
    <3> QED
      BY <3>1
  <2>4. it[s \ {x}] = h[s \ {x}]
    BY <1>8, <2>3
  <2>5. h[s] = f[x] + h[s \ {x}] /\ e[x] = f[x]
    BY <2>2, <2>3 DEF SumsUp
  <2> QED
    BY <2>2, <2>4, <2>5
<1> HIDE DEF T
<1>9. Cardinality(D) \in T
  BY <1>6, <1>7, <1>8, SetInduction
<1> QED
  BY <1>4, <1>9 DEF T

-----------------------------------------------------------------------------
(* What the changes of a log add to a sample.                              *)

Clock == 0..LastClock

\* What one of a clock adds to sample i, if it is a change of one.
Share(c, i) ==
    Weight((c * Factor) % Unit, i - (Center + ((c * Factor) \div Unit)))

Heard(log, i) ==
    Whole!SumFunction([c \in {c \in Clock : log[c] # 0} |-> log[c] * Share(c, i)])

\* It is the sum over all clocks.
LEMMA HeardSum ==
    ASSUME NEW log \in Logs, NEW i \in Int, LastClock \in Nat,
           \A c \in Clock : Share(c, i) \in Int,
           NEW h, SumsUp(h, Clock, [c \in Clock |-> log[c] * Share(c, i)])
    PROVE  Heard(log, i) = h[Clock]
<1> DEFINE f == [c \in Clock |-> log[c] * Share(c, i)]
           D == {c \in Clock : log[c] # 0}
           e == [c \in D |-> log[c] * Share(c, i)]
<1>0. IsFiniteSet(Clock)
  BY FS_Interval DEF Clock
<1>1. \A c \in Clock : log[c] \in Int
  BY DEF Logs, Clock
<1>2. DOMAIN e = D /\ D \subseteq Clock /\ \A x \in D : e[x] = f[x]
  OBVIOUS
<1>3. \A x \in Clock \ D : f[x] = 0
  <2> SUFFICES ASSUME NEW x \in Clock \ D PROVE f[x] = 0
    OBVIOUS
  <2>1. log[x] = 0 /\ f[x] = log[x] * Share(x, i) /\ Share(x, i) \in Int
    OBVIOUS
  <2> HIDE DEF f
  <2> QED
    BY <2>1
<1>4. Heard(log, i) = Whole!SumFunction(e)
  BY DEF Heard
<1>5. SumsUp(h, Clock, f)
  OBVIOUS
<1> HIDE DEF f, D, e
<1>6. Whole!SumFunction(e) = h[D]
  BY <1>0, <1>2, <1>5, SumIs
<1>7. Same(f, Clock, f, D)
  BY <1>2, <1>3 DEF Same
<1>8. h[Clock] = h[D]
  BY <1>0, <1>5, <1>7, SumsAgree
<1> QED
  BY <1>4, <1>6, <1>8

\* A change adds its share.
LEMMA HeardMark ==
    ASSUME NEW log \in Logs, NEW i \in Int, LastClock \in Nat,
           \A c \in Clock : Share(c, i) \in Int,
           NEW c \in Clock, NEW delta \in Int
    PROVE  /\ Heard(log, i) \in Int
           /\ Heard(Mark(log, c, delta), i) = Heard(log, i) + delta * Share(c, i)
<1> DEFINE new == Mark(log, c, delta)
           f == [b \in Clock |-> log[b] * Share(b, i)]
           g == [b \in Clock |-> new[b] * Share(b, i)]
           D == Clock \ {c}
<1>0. IsFiniteSet(Clock) /\ Clock \in SUBSET Clock /\ D \subseteq Clock /\ D \ D = {}
  BY FS_Interval DEF Clock
<1>1. new \in Logs
  BY MarkType
<1>2. \A b \in Clock : /\ log[b] \in Int /\ new[b] \in Int
                       /\ new[b] = IF b = c THEN log[b] + delta ELSE log[b]
  BY <1>1 DEF Mark, Logs, Clock
<1> HIDE DEF new
<1>3. f \in [Clock -> Int] /\ g \in [Clock -> Int]
  BY <1>2
<1>4. /\ f[c] = log[c] * Share(c, i) /\ g[c] = new[c] * Share(c, i)
      /\ \A b \in D : g[b] = f[b]
  BY <1>2
<1>5. g[c] = f[c] + delta * Share(c, i)
  <2> DEFINE s == Share(c, i)
  <2>1. s \in Int /\ log[c] \in Int /\ new[c] = log[c] + delta
    BY <1>2
  <2> HIDE DEF s
  <2>2. (log[c] + delta) * s = log[c] * s + delta * s
    BY <2>1
  <2> HIDE DEF f, g
  <2> QED
    BY <2>1, <2>2, <1>4 DEF s
<1>6. delta * Share(c, i) \in Int
  OBVIOUS
<1>7. PICK h : SumsUp(h, Clock, f)
  <2> HIDE DEF f
  <2> QED
    BY <1>0, <1>3, SumsExist
<1>8. PICK k : SumsUp(k, Clock, g)
  <2> HIDE DEF g
  <2> QED
    BY <1>0, <1>3, SumsExist
<1>9. Heard(log, i) = h[Clock]
  BY <1>7, HeardSum
<1>10. Heard(new, i) = k[Clock]
  BY <1>1, <1>8, HeardSum
<1> HIDE DEF f, g
<1>11. h[Clock] = f[c] + h[D] /\ k[Clock] = g[c] + k[D]
  BY <1>0, <1>7, <1>8 DEF SumsUp
<1>12. k[D] = h[D] /\ h[D] \in Int
  <2> HIDE DEF D
  <2>1. Same(g, D, f, D)
    BY <1>0, <1>4 DEF Same
  <2>2. k[D] = h[D]
    BY <1>0, <1>7, <1>8, <2>1, SumsAgree
  <2>3. D \in SUBSET Clock
    BY <1>0
  <2> QED
    BY <1>7, <2>2, <2>3 DEF SumsUp
<1> QED
  BY <1>3, <1>5, <1>6, <1>9, <1>10, <1>11, <1>12 DEF new

\* What has no share in a sample is not heard in it.
LEMMA HeardNothing ==
    ASSUME NEW log \in Logs, NEW i \in Int, LastClock \in Nat,
           \A c \in Clock : Share(c, i) \in Int,
           \A c \in Clock : log[c] = 0 \/ Share(c, i) = 0
    PROVE  Heard(log, i) = 0
<1> DEFINE f == [b \in Clock |-> log[b] * Share(b, i)]
<1>0. IsFiniteSet(Clock) /\ Clock \in SUBSET Clock /\ {} \in SUBSET Clock
      /\ {} \subseteq Clock
  BY FS_Interval DEF Clock
<1>1. f \in [Clock -> Int] /\ \A b \in Clock : f[b] = 0
  <2>1. \A b \in Clock : log[b] \in Int
    BY DEF Logs, Clock
  <2>2. ASSUME NEW b \in Clock PROVE log[b] * Share(b, i) = 0
    <3>1. CASE log[b] = 0
      BY <3>1, <2>1
    <3>2. CASE Share(b, i) = 0
      BY <3>2, <2>1
    <3> QED
      BY <3>1, <3>2
  <2> QED
    BY <2>2
<1>2. PICK h : SumsUp(h, Clock, f)
  <2> HIDE DEF f
  <2> QED
    BY <1>0, <1>1, SumsExist
<1>3. Heard(log, i) = h[Clock]
  BY <1>2, HeardSum
<1> HIDE DEF f
<1>4. h[Clock] = h[{}]
  <2>1. Same(f, Clock, f, {})
    BY <1>1 DEF Same
  <2> QED
    BY <1>0, <1>2, <2>1, SumsAgree
<1> QED
  BY <1>2, <1>3, <1>4 DEF SumsUp

\* What the buffer may hold.
Bufs == [Cells -> Int]

\* The number of whole units in a sum, and what is left of it.
LEMMA UnitsShift ==
    ASSUME NEW q \in Int, NEW a \in Int, NEW u \in Nat \ {0}
    PROVE  (q * u + a) \div u = q + (a \div u) /\ (q * u + a) % u = a % u
<1>1. PICK d \in Int, r \in 0..(u - 1) : a = d * u + r
  <2>1. /\ a \div u \in Int /\ a % u \in 0..(u - 1)
        /\ a = u * (a \div u) + (a % u)
    OBVIOUS
  <2>2. u * (a \div u) = (a \div u) * u
    BY <2>1
  <2> QED
    BY <2>1, <2>2
<1>2. ASSUME NEW x \in Int PROVE (x * u + r) \div u = x /\ (x * u + r) % u = r
  BY Z3
<1>3. q * u + a = (q + d) * u + r /\ q + d \in Int
  <2>1. (q + d) * u = q * u + d * u
    OBVIOUS
  <2>2. q * u \in Int /\ d * u \in Int
    OBVIOUS
  <2> QED
    BY <1>1, <2>1, <2>2
<1>4. (q * u + a) \div u = q + d /\ (q * u + a) % u = r
  BY <1>2, <1>3
<1>5. a \div u = d /\ a % u = r
  BY <1>1, <1>2
<1> QED
  BY <1>4, <1>5

\* The sizes of the buffer.
LEMMA BufferSizes ==
    /\ BufferSize \in Nat /\ Extra \in Nat /\ Center \in Nat
    /\ Cells = 0..(BufferSize + Extra - 1)
<1>1. SampleRate \in Nat /\ Msec + 1 \in Nat /\ MaxQuality \in Nat
  BY SoundAssumption
<1>2. SampleRate * (Msec + 1) \in Nat
  <2> DEFINE x == Msec + 1
  <2>1. x \in Nat
    BY <1>1
  <2> HIDE DEF x
  <2>2. SampleRate * x \in Nat
    BY <1>1, <2>1, Products
  <2> QED
    BY <2>2 DEF x
<1> DEFINE y == SampleRate * (Msec + 1)
<1>3. y \in Nat
  BY <1>2
<1> HIDE DEF y
<1>4. (y + 999) \div 1000 \in Nat
  BY <1>3
<1> QED
  BY <1>1, <1>4 DEF BufferSize, Extra, Center, Cells, y

\* A weight is a number, and so is a share.
LEMMA ShareType ==
    /\ \A fraction \in 0..(Unit - 1), tap \in Int : Weight(fraction, tap) \in Int
    /\ LastClock \in Nat => \A c \in Clock, i \in Int : Share(c, i) \in Int
<1>1. \A fraction \in 0..(Unit - 1), tap \in Int : Weight(fraction, tap) \in Int
  BY VoiceAssumption DEF Weight
<1>2. ASSUME LastClock \in Nat, NEW c \in Clock, NEW i \in Int PROVE Share(c, i) \in Int
  <2>1. c \in Nat /\ Factor \in Nat /\ Unit \in Nat \ {0} /\ Center \in Nat
    BY <1>2, SoundAssumption, RateAssumption DEF Clock, Center
  <2>2. c * Factor \in Nat
    BY <2>1, Products
  <2> DEFINE x == c * Factor
  <2>3. x % Unit \in 0..(Unit - 1) /\ x \div Unit \in Int
    <3>1. x \in Nat
      BY <2>2
    <3> HIDE DEF x
    <3> QED
      BY <3>1, <2>1
  <2>4. i - (Center + (x \div Unit)) \in Int
    <3> HIDE DEF x
    <3> QED
      BY <2>1, <2>3
  <2> QED
    BY <1>1, <2>3, <2>4 DEF Share
<1> QED
  BY <1>1, <1>2

\* Where the samples played and the fraction kept are those of the cycles passed,
\* a change has its share in the cells as it has in the samples.
LEMMA SpreadShare ==
    ASSUME NEW x \in Deltas, NEW i \in Int,
           base \in Nat, taken \in Nat, offset \in Nat,
           taken * Unit + offset = base * Factor
    PROVE  LET at == to_fixed(x[1])
           IN  Share(base + x[1], taken + i)
                   = Weight(at % Unit, i - (Center + (at \div Unit)))
<1> DEFINE t == x[1]
           at == to_fixed(t)
<1>1. t \in Int /\ base \in Int
  BY DEF Deltas, Times
<1>2. Factor \in Nat /\ Unit \in Nat \ {0} /\ Center \in Nat
  BY SoundAssumption, RateAssumption DEF Center
<1>3. (base + t) * Factor = base * Factor + t * Factor /\ t * Factor \in Int
  BY <1>1, <1>2
<1>4. at = t * Factor + offset /\ at \in Int
  BY <1>3 DEF to_fixed
<1> HIDE DEF t, at
<1>5. taken * Unit \in Int
  BY <1>2
<1>6. (base + t) * Factor = taken * Unit + at
  BY <1>3, <1>4, <1>5
<1>7. /\ ((base + t) * Factor) \div Unit = taken + (at \div Unit)
      /\ ((base + t) * Factor) % Unit = at % Unit
  <2>1. /\ (taken * Unit + at) \div Unit = taken + (at \div Unit)
        /\ (taken * Unit + at) % Unit = at % Unit
    <3>1. taken \in Int /\ at \in Int /\ Unit \in Nat \ {0}
      BY <1>2, <1>4
    <3> QED
      BY <3>1, UnitsShift
  <2> QED
    BY <2>1, <1>6
<1>8. (taken + i) - (Center + (taken + (at \div Unit))) = i - (Center + (at \div Unit))
  <2>1. at \div Unit \in Int
    BY <1>2, <1>4
  <2> HIDE DEF at
  <2> QED
    BY <1>2, <2>1
<1> QED
  BY <1>7, <1>8 DEF Share, t, at

\* A sequence of changes is spread one after the other.
LEMMA BufferFolds ==
    ASSUME NEW buf \in Bufs, NEW n \in Nat, NEW deltas \in [1..n -> Times \X Int],
           offset \in Nat
    PROVE  \E f \in [0..n -> Bufs] :
              /\ f[0] = buf /\ f[n] = FoldLeft(Spread, buf, deltas)
              /\ \A k \in 0..(n - 1) : f[k + 1] = Spread(f[k], deltas[k + 1])
<1> DEFINE g == [p \in Bufs \X (1..n) |-> Spread(p[1], deltas[p[2]])]
           Is(iter) == iter = [s \in SUBSET (1..n) |->
                                  IF s = {} THEN buf
                                  ELSE Spread(iter[s \ {Max(s)}], deltas[Max(s)])]
           it == CHOOSE iter : Is(iter)
<1>1. g \in [Bufs \X (1..n) -> Bufs]
  <2> SUFFICES ASSUME NEW b \in Bufs, NEW k \in 1..n PROVE Spread(b, deltas[k]) \in Bufs
    OBVIOUS
  <2> DEFINE x == deltas[k]
             at == to_fixed(x[1])
             w(i) == Weight(at % Unit, i - (Center + (at \div Unit)))
  <2>1. x[1] \in Int /\ x[2] \in Int
    BY DEF Times
  <2>2. /\ Factor \in Nat /\ Unit \in Nat \ {0} /\ Center \in Nat
        /\ BufferSize \in Int /\ Extra \in Int
    BY SoundAssumption, RateAssumption, BufferSizes
  <2> HIDE DEF x
  <2>3. at \in Int
    <3>1. x[1] * Factor \in Int
      BY <2>1, <2>2
    <3> QED
      BY <3>1 DEF to_fixed
  <2> HIDE DEF at
  <2>4. at % Unit \in 0..(Unit - 1) /\ at \div Unit \in Int
    BY <2>2, <2>3
  <2>5. ASSUME NEW i \in Cells PROVE b[i] + x[2] * w(i) \in Int
    <3>1. i \in Int /\ b[i] \in Int
      BY <2>2 DEF Cells, Bufs
    <3>2. i - (Center + (at \div Unit)) \in Int
      BY <2>2, <2>4, <3>1
    <3>3. w(i) \in Int
      BY <2>4, <3>2, ShareType
    <3> HIDE DEF w
    <3> QED
      BY <2>1, <3>1, <3>3
  <2>6. Spread(b, x) = [i \in Cells |-> b[i] + x[2] * w(i)]
    BY DEF Spread, at
  <2> HIDE DEF w
  <2> QED
    BY <2>5, <2>6 DEF Bufs, x
<1>2. \A b \in Bufs, k \in 1..n : g[<<b, k>>] = Spread(b, deltas[k])
  OBVIOUS
<1> HIDE DEF g
<1>3. \A s \in SUBSET (1..n) : s # {} => Max(s) \in 1..n /\ s \ {Max(s)} \in SUBSET (1..n)
  BY Segments
<1>4. \E iter : Is(iter)
  <2>1. PICK h \in [SUBSET (1..n) -> Bufs] : FoldsUp(h, n, buf, g)
    BY <1>1, FoldMax
  <2>2. \A s \in SUBSET (1..n) :
           h[s] = IF s = {} THEN buf ELSE Spread(h[s \ {Max(s)}], deltas[Max(s)])
    BY <2>1, <1>2, <1>3 DEF FoldsUp
  <2>3. Is(h)
    BY <2>2
  <2> QED
    BY <2>3
<1>5. Is(it)
  BY <1>4
<1>6. FoldLeft(Spread, buf, deltas) = it[1..n]
  <2>1. DOMAIN deltas = 1..n
    OBVIOUS
  <2> QED
    BY <2>1 DEF FoldLeft, MapThenFoldSet
<1> HIDE DEF it
<1>7. \A s \in SUBSET (1..n) :
          it[s] = IF s = {} THEN buf ELSE Spread(it[s \ {Max(s)}], deltas[Max(s)])
  BY <1>5
<1>8. FoldsIn(it, Bufs, n, buf, g)
  BY <1>2, <1>3, <1>7 DEF FoldsIn
<1> HIDE DEF Is
<1>9. PICK f \in [0..n -> Bufs] : f[n] = it[1..n] /\ StepBy(f, n, buf, g)
  BY <1>1, <1>8, FoldSegments
<1>10. ASSUME NEW k \in 0..(n - 1) PROVE f[k + 1] = Spread(f[k], deltas[k + 1])
  <2>1. f[k] \in Bufs /\ k + 1 \in 1..n
    OBVIOUS
  <2> QED
    BY <2>1, <1>2, <1>9 DEF StepBy
<1> QED
  BY <1>6, <1>9, <1>10 DEF StepBy

\* The cells hold what the log adds to the samples from first on.
Holds(buf, log, first) == buf \in Bufs /\ \A i \in Cells : buf[i] = Heard(log, first + i)

\* A sequence of changes adds the same to the cells as to the log.
LEMMA SpreadHolds ==
    ASSUME NEW deltas \in Seq(Deltas), changes \in Logs, LastClock \in Nat,
           base \in Nat, taken \in Nat, offset \in Nat,
           taken * Unit + offset = base * Factor,
           Holds(buffer, changes, taken)
    PROVE  Holds(FoldLeft(Spread, buffer, deltas), Log(changes, deltas), taken)
<1> DEFINE n == Len(deltas)
<1>1. n \in Nat /\ deltas \in [1..n -> Times \X Int]
  BY DEF Deltas
<1> HIDE DEF n
<1>2. PICK f \in [0..n -> Logs] :
          /\ f[0] = changes /\ f[n] = Log(changes, deltas)
          /\ \A k \in 0..(n - 1) : f[k + 1] = Noted(f[k], deltas[k + 1])
  BY ONLY <1>1, changes \in Logs, LogFolds, Zenon
<1>3. PICK b \in [0..n -> Bufs] :
          /\ b[0] = buffer /\ b[n] = FoldLeft(Spread, buffer, deltas)
          /\ \A k \in 0..(n - 1) : b[k + 1] = Spread(b[k], deltas[k + 1])
  <2>1. buffer \in Bufs
    BY DEF Holds
  <2> QED
    BY ONLY <1>1, <2>1, offset \in Nat, BufferFolds, Zenon
<1> DEFINE U == {k \in Nat : k <= n => Holds(b[k], f[k], taken)}
<1>4. 0 \in U
  BY <1>2, <1>3
<1>5. ASSUME NEW k \in Nat, k \in U PROVE k + 1 \in U
  <2> SUFFICES ASSUME k + 1 <= n PROVE Holds(b[k + 1], f[k + 1], taken)
    OBVIOUS
  <2>1. k \in 0..(n - 1) /\ k + 1 \in 1..n /\ k <= n /\ k \in 0..n /\ k + 1 \in 0..n
    BY <1>1
  <2> DEFINE x == deltas[k + 1]
             l == f[k]
             buf == b[k]
  <2>2. x \in Deltas /\ l \in Logs /\ buf \in Bufs /\ b[k + 1] \in Bufs
    BY <1>1, <2>1 DEF Deltas
  <2>3. Holds(buf, l, taken)
    BY <1>5, <2>1
  <2>4. f[k + 1] = Noted(l, x) /\ b[k + 1] = Spread(buf, x)
    BY <1>2, <1>3, <2>1
  <2> HIDE DEF x, l, buf
  <2>5. f[k + 1] = Mark(l, base + x[1], x[2])
    BY <2>2, <2>4, NotedMarks
  <2>6. base + x[1] \in Clock /\ x[2] \in Int
    BY <2>2 DEF Deltas, Times, Clock
  <2>7. ASSUME NEW i \in Cells PROVE b[k + 1][i] = Heard(f[k + 1], taken + i)
    <3> DEFINE w == Weight(to_fixed(x[1]) % Unit,
                           i - (Center + (to_fixed(x[1]) \div Unit)))
    <3>1. i \in Int /\ taken + i \in Int
      BY BufferSizes
    <3>2. b[k + 1][i] = buf[i] + x[2] * w
      BY <2>4 DEF Spread
    <3>3. w = Share(base + x[1], taken + i)
      BY <2>2, <3>1, SpreadShare
    <3>4. Heard(f[k + 1], taken + i)
            = Heard(l, taken + i) + x[2] * Share(base + x[1], taken + i)
      <4>1. \A c \in Clock : Share(c, taken + i) \in Int
        BY <3>1, ShareType
      <4> DEFINE j == taken + i
                 c == base + x[1]
                 delta == x[2]
      <4>2. /\ j \in Int /\ c \in Clock /\ delta \in Int
            /\ \A e \in Clock : Share(e, j) \in Int
        BY <2>6, <3>1, <4>1
      <4> HIDE DEF j, c, delta
      <4>3. Heard(Mark(l, c, delta), j) = Heard(l, j) + delta * Share(c, j)
        BY <2>2, <4>2, HeardMark
      <4> QED
        BY <2>5, <4>3 DEF j, c, delta
    <3>5. buf[i] = Heard(l, taken + i)
      BY <2>3 DEF Holds
    <3> HIDE DEF w
    <3> QED
      BY <3>2, <3>3, <3>4, <3>5
  <2> QED
    BY <2>2, <2>7 DEF Holds
<1> HIDE DEF U
<1>6. n \in U
  BY <1>1, <1>4, <1>5, SetInduction
<1> QED
  BY <1>1, <1>2, <1>3, <1>6 DEF U

\* Changes up to a clock are not heard in samples far enough behind it.
LEMMA HeardBehind ==
    ASSUME NEW log \in Logs, LastClock \in Nat, NEW now \in Nat,
           \A c \in Clock : log[c] # 0 => c <= now,
           NEW last \in Nat, now * Factor < (last + 3) * Unit,
           NEW i \in Int, i >= last + Extra
    PROVE  Heard(log, i) = 0
<1>1. /\ Factor \in Nat /\ Unit \in Nat \ {0} /\ Unit \in Nat /\ Center \in Nat /\ Extra \in Nat
      /\ Extra - 2 - Center >= HalfWidth /\ HalfWidth \in Nat
  BY SoundAssumption, RateAssumption DEF Center, Extra
<1>2. ASSUME NEW c \in Clock PROVE log[c] = 0 \/ Share(c, i) = 0
  <2> SUFFICES ASSUME log[c] # 0 PROVE Share(c, i) = 0
    OBVIOUS
  <2>1. c \in Nat /\ c <= now
    BY DEF Clock
  <2> DEFINE x == c * Factor
             q == x \div Unit
  <2>2. x \in Nat /\ x <= now * Factor /\ now * Factor \in Nat
    BY <1>1, <2>1, Products
  <2>3. x < (last + 3) * Unit /\ last + 3 \in Nat /\ (last + 3) * Unit \in Int
    <3>1. last + 3 \in Nat
      OBVIOUS
    <3>2. (last + 3) * Unit \in Nat
      BY <1>1, <3>1, Products
    <3> HIDE DEF x
    <3> QED
      BY <2>2, <3>1, <3>2
  <2> HIDE DEF x
  <2>4. q < last + 3 /\ q \in Nat
    BY <2>2, <2>3, WholeSamples
  <2> HIDE DEF q
  <2>5. i - (Center + q) \notin Taps
    BY <1>1, <2>4 DEF Taps
  <2> QED
    BY <2>5 DEF Share, Weight, q, x
<1> QED
  BY <1>2, HeardNothing, ShareType

\* The sums of Sound's Play, up to a sample.
PlaySums(upto) ==
    LET sums[i \in taken..upto] ==
            IF i = taken THEN reader_accum
            ELSE sums[i - 1] - (sums[i - 1] \div 2^bass_shift) + Whole!Added(i - 1)
    IN  sums

\* What Sound adds to a sample is what is heard of the changes.
LEMMA AddedIsHeard == \A i : Whole!Added(i) = Heard(changes, i)
BY DEF Whole!Added, Heard, Share, Clock, Whole!Clocks, Whole!Fraction, Whole!Place

\* As long as the cells hold what is heard, the sums of read_samples are those of
\* Play.
LEMMA SumsArePlayed ==
    ASSUME NEW n \in Nat, taken \in Nat, reader_accum \in Int,
           Holds(buffer, changes, taken), 0..(n - 1) \subseteq Cells,
           \A i \in Cells : Heard(changes, taken + i) \in Int
    PROVE  \A k \in 0..n : Sums(n)[k] \in Int /\ PlaySums(taken + n)[taken + k] = Sums(n)[k]
<1> DEFINE leak == 2^bass_shift
           Is(s) == s = [i \in 0..n |-> IF i = 0 THEN reader_accum
                            ELSE s[i - 1] - (s[i - 1] \div leak) + buffer[i - 1]]
           Also(s) == s = [i \in taken..(taken + n) |->
                              IF i = taken THEN reader_accum
                              ELSE s[i - 1] - (s[i - 1] \div leak) + Whole!Added(i - 1)]
           x == CHOOSE s : Is(s)
           y == CHOOSE s : Also(s)
           adds == [k \in Nat |-> IF k \in Cells THEN Heard(changes, taken + k) ELSE 0]
           g == [p \in Nat \X Int |-> p[2] - (p[2] \div leak) + adds[p[1]]]
<1>1. Sums(n) = x /\ PlaySums(taken + n) = y
  BY DEF Sums, PlaySums
<1>2. leak \in Nat \ {0}
  BY VoiceAssumption
<1> HIDE DEF leak
<1>3. g \in [Nat \X Int -> Int]
  <2>1. \A k \in Nat : adds[k] \in Int
    OBVIOUS
  <2>2. \A v \in Int : v \div leak \in Int
    BY <1>2
  <2> HIDE DEF adds
  <2> QED
    BY <2>1, <2>2
<1>4. \A k \in Nat, v \in Int : g[<<k, v>>] = v - (v \div leak) + adds[k]
  OBVIOUS
<1> HIDE DEF g
<1>5. PICK F \in [Nat -> Int] : Recurses(F, reader_accum, g)
  <2> DEFINE S == Int
  <2>1. reader_accum \in S /\ g \in [Nat \X S -> S]
    BY <1>3
  <2> HIDE DEF S
  <2>2. \E F \in [Nat -> S] : Recurses(F, reader_accum, g)
    BY <2>1, RecursiveFunction
  <2> QED
    BY <2>2 DEF S
<1>6. /\ F[0] = reader_accum
      /\ \A k \in Nat : F[k + 1] = F[k] - (F[k] \div leak) + adds[k]
  BY <1>4, <1>5 DEF Recurses
<1>7. \A k \in 0..(n - 1) : /\ k \in Nat /\ adds[k] = Heard(changes, taken + k)
                            /\ buffer[k] = adds[k] /\ Whole!Added(taken + k) = adds[k]
  BY AddedIsHeard DEF Holds
<1> HIDE DEF adds
<1>8. ASSUME NEW i \in 1..n
      PROVE  /\ i - 1 \in Nat /\ i - 1 \in 0..(n - 1) /\ i - 1 \in 0..n
             /\ F[i] = F[i - 1] - (F[i - 1] \div leak) + adds[i - 1]
  <2>1. i - 1 \in Nat /\ (i - 1) + 1 = i
    OBVIOUS
  <2>2. F[(i - 1) + 1] = F[i - 1] - (F[i - 1] \div leak) + adds[i - 1]
    BY <1>6, <2>1
  <2> QED
    BY <2>1, <2>2
<1>9. \E s : Is(s)
  <2> DEFINE r == [i \in 0..n |-> F[i]]
  <2>1. ASSUME NEW i \in 0..n
        PROVE  r[i] = IF i = 0 THEN reader_accum
                      ELSE r[i - 1] - (r[i - 1] \div leak) + buffer[i - 1]
    <3>1. CASE i = 0
      BY <1>6, <3>1
    <3>2. CASE i # 0
      <4>1. i \in 1..n
        BY <3>2
      <4>2. i - 1 \in 0..n /\ i - 1 \in 0..(n - 1)
        BY <4>1
      <4>3. r[i] = F[i] /\ r[i - 1] = F[i - 1]
        BY <4>1, <4>2
      <4> HIDE DEF r
      <4> QED
        BY <3>2, <4>1, <4>2, <4>3, <1>7, <1>8
    <3> QED
      BY <3>1, <3>2
  <2>2. Is(r)
    BY <2>1
  <2> QED
    BY <2>2
<1>10. \E s : Also(s)
  <2> DEFINE r == [i \in taken..(taken + n) |-> F[i - taken]]
  <2>1. ASSUME NEW i \in taken..(taken + n)
        PROVE  r[i] = IF i = taken THEN reader_accum
                      ELSE r[i - 1] - (r[i - 1] \div leak) + Whole!Added(i - 1)
    <3>1. CASE i = taken
      <4>1. i - taken = 0
        BY <3>1
      <4> QED
        BY <1>6, <3>1, <4>1
    <3>2. CASE i # taken
      <4> DEFINE k == i - taken
      <4>1. k \in 1..n /\ i - 1 \in taken..(taken + n) /\ (i - 1) - taken = k - 1
            /\ taken + (k - 1) = i - 1
        BY <3>2
      <4>2. r[i] = F[k] /\ r[i - 1] = F[k - 1]
        BY <4>1
      <4> HIDE DEF r, k
      <4>3. F[k] = F[k - 1] - (F[k - 1] \div leak) + adds[k - 1] /\ k - 1 \in 0..(n - 1)
        BY <4>1, <1>8
      <4>4. Whole!Added(i - 1) = adds[k - 1]
        BY <4>1, <4>3, <1>7
      <4> QED
        BY <3>2, <4>2, <4>3, <4>4
    <3> QED
      BY <3>1, <3>2
  <2>2. Also(r)
    BY <2>1
  <2> QED
    BY <2>2
<1>11. Is(x) /\ Also(y)
  BY <1>9, <1>10
<1> HIDE DEF x, y
<1>12. \A i \in 0..n : x[i] = IF i = 0 THEN reader_accum
                              ELSE x[i - 1] - (x[i - 1] \div leak) + buffer[i - 1]
  BY <1>11
<1>13. \A i \in taken..(taken + n) :
           y[i] = IF i = taken THEN reader_accum
                  ELSE y[i - 1] - (y[i - 1] \div leak) + Whole!Added(i - 1)
  BY <1>11
<1> HIDE DEF Is, Also
<1> DEFINE U == {k \in Nat : k <= n => x[k] = F[k] /\ y[taken + k] = F[k]}
<1>14. 0 \in U
  <2>1. 0 \in 0..n /\ taken + 0 = taken /\ taken \in taken..(taken + n)
    OBVIOUS
  <2> QED
    BY <2>1, <1>6, <1>12, <1>13
<1>15. ASSUME NEW k \in Nat, k \in U PROVE k + 1 \in U
  <2> SUFFICES ASSUME k + 1 <= n PROVE x[k + 1] = F[k + 1] /\ y[taken + (k + 1)] = F[k + 1]
    OBVIOUS
  <2>1. /\ k + 1 \in 0..n /\ k + 1 # 0 /\ (k + 1) - 1 = k /\ k \in 0..(n - 1) /\ k <= n
        /\ taken + (k + 1) \in taken..(taken + n) /\ taken + (k + 1) # taken
        /\ (taken + (k + 1)) - 1 = taken + k
    OBVIOUS
  <2>2. x[k] = F[k] /\ y[taken + k] = F[k]
    BY <1>15, <2>1
  <2>3. x[k + 1] = x[k] - (x[k] \div leak) + buffer[k]
    BY <1>12, <2>1
  <2>4. y[taken + (k + 1)] = y[taken + k] - (y[taken + k] \div leak) + Whole!Added(taken + k)
    BY <1>13, <2>1
  <2> QED
    BY <2>1, <2>2, <2>3, <2>4, <1>6, <1>7
<1> HIDE DEF U
<1>16. \A k \in 0..n : k \in U
  BY <1>14, <1>15, SetInduction
<1>17. \A k \in 0..n : x[k] = F[k] /\ y[taken + k] = F[k]
  BY <1>16 DEF U
<1> QED
  BY <1>1, <1>17

-----------------------------------------------------------------------------
(* One run of an oscillator.                                               *)

\* The state of the oscillator, by its voice, and the phase Sound sees of it.
Oscs ==
    IF voice = "dmc" THEN PlayerType
    ELSE [phase : PhaseType, delay : Nat, last_amp : Int]

PhaseSeen(o) == IF voice = "dmc" THEN PhaseIn(o) ELSE o.phase

\* A log ends before a clock.
Upto(log, now) == \A c \in Clock : log[c] # 0 => c <= now

\* What an oscillator seems to be in.
LEMMA SeenType ==
    /\ Phase = PhaseSeen(osc)
    /\ \A o \in Oscs : /\ o.delay \in Nat /\ o.last_amp \in Int
                       /\ PhaseSeen(o) \in PhaseType
<1>1. Phase = PhaseSeen(osc)
  BY DEF Phase, PhaseSeen, PhaseIn, B
<1>2. ASSUME NEW o \in Oscs, voice = "dmc"
      PROVE  o.delay \in Nat /\ o.last_amp \in Int /\ PhaseSeen(o) \in PhaseType
  <2>1. /\ o.dac \in 0..MaxDac /\ o.bits \in 1..B /\ o.silence \in BOOLEAN
        /\ o.full \in BOOLEAN /\ o.len \in Nat /\ o.delay \in Nat /\ o.last_amp \in Int
    BY <1>2 DEF Oscs, PlayerType
  <2>2. PhaseType = [dac : 0..MaxDac, bit : 0..(B - 1), on : BOOLEAN, bytes : Nat]
    BY <1>2 DEF PhaseType, B
  <2>3. B - o.bits \in 0..(B - 1)
    BY <2>1, OscillatorAssumption DEF B
  <2>4. o.len + (IF o.full THEN 1 ELSE 0) \in Nat
    BY <2>1
  <2>5. PhaseSeen(o) = [dac |-> o.dac, bit |-> B - o.bits, on |-> ~o.silence,
                        bytes |-> o.len + (IF o.full THEN 1 ELSE 0)]
    BY <1>2 DEF PhaseSeen, PhaseIn
  <2>6. (~o.silence) \in BOOLEAN
    BY <2>1
  <2> QED
    BY <2>1, <2>2, <2>3, <2>4, <2>5, <2>6
<1>3. ASSUME NEW o \in Oscs, voice # "dmc"
      PROVE  o.delay \in Nat /\ o.last_amp \in Int /\ PhaseSeen(o) \in PhaseType
  BY <1>3 DEF Oscs, PhaseSeen
<1> QED
  BY <1>1, <1>2, <1>3

\* Marks up to a clock leave a log that ends there.
LEMMA UptoMark ==
    ASSUME NEW log \in Logs, NEW now \in Int, Upto(log, now),
           NEW c \in Int, c <= now, NEW delta
    PROVE  Upto(Mark(log, c, delta), now)
BY DEF Upto, Mark, Clock, Logs

\* The course of the changes ends before the end of the run.
LEMMA CourseUpto ==
    ASSUME NEW gap, RunType(gap), Upto(changes, Now), NEW ph, NEW m, Course(ph, m),
           NEW n \in Nat, Expired(n, gap, osc.delay, Whole!Period(setting))
    PROVE  Upto(m[n], Now + gap)
<1> DEFINE p == Whole!Period(setting)
           d == osc.delay
<1>1. /\ Now \in Int /\ gap \in Nat /\ d \in Nat /\ changes \in Logs /\ Phase \in PhaseType
      /\ osc.last_amp \in Int
  BY DEF RunType, Now, Start, States
<1>2. p \in Nat \ {0} /\ p \in Nat
  BY <1>1, PhaseClosed DEF RunType
<1>3. Upto(changes, Now + gap)
  BY <1>1 DEF Upto, Clock
<1> HIDE DEF p, d
<1>4. /\ m[0] = Mark(changes, Now, Level(Phase) - osc.last_amp)
      /\ \A k \in Nat : /\ m[k] \in Logs
                        /\ m[k + 1] = Mark(m[k], Now + (d + k * p),
                                           Level(ph[k + 1]) - Level(ph[k]))
  BY DEF Course, p, d
<1> DEFINE U == {k \in Nat : k <= n => Upto(m[k], Now + gap)}
<1>5. 0 \in U
  <2>1. Upto(m[0], Now + gap)
    BY <1>1, <1>3, <1>4, UptoMark
  <2> QED
    BY <2>1
<1>6. ASSUME NEW k \in Nat, k \in U PROVE k + 1 \in U
  <2> SUFFICES ASSUME k + 1 <= n PROVE Upto(m[k + 1], Now + gap)
    OBVIOUS
  <2>1. k <= n - 1 /\ n - 1 \in Nat /\ n > 0 /\ k <= n
    OBVIOUS
  <2>2. k * p <= (n - 1) * p /\ k * p \in Nat /\ (n - 1) * p \in Nat
    BY <1>2, <2>1, Products
  <2>3. d + (n - 1) * p < gap
    BY <2>1 DEF Expired, d, p
  <2> DEFINE c == Now + (d + k * p)
             delta == Level(ph[k + 1]) - Level(ph[k])
  <2>4. c \in Int /\ c <= Now + gap
    BY <1>1, <2>2, <2>3
  <2>5. m[k + 1] = Mark(m[k], c, delta) /\ m[k] \in Logs /\ Upto(m[k], Now + gap)
    BY <1>4, <1>6, <2>1
  <2> HIDE DEF c, delta
  <2>6. Now + gap \in Int
    BY <1>1
  <2> QED
    BY <2>4, <2>5, <2>6, UptoMark
<1> HIDE DEF U
<1>7. n \in U
  BY <1>5, <1>6, SetInduction
<1> QED
  BY <1>7 DEF U

\* A run does what cycle by cycle comes to: with no cycles it makes the level what
\* the registers ask for.
RunsTo(run, gap, phase, timer, level, log) ==
    /\ run.osc \in Oscs /\ run.osc.delay = timer /\ run.osc.last_amp = level
    /\ \/ PhaseSeen(run.osc) = phase
       \/ voice = "noise" /\ setting.volume = 0 /\ gap > 0
    /\ run.out \in Seq(Deltas) /\ Log(changes, run.out) = log
    /\ log \in Logs /\ Upto(log, Now + gap)

\* While the timer counts.
LEMMA RunsCourse ==
    ASSUME NEW gap, RunType(gap), osc \in Oscs, Upto(changes, Now),
           Whole!Counting(setting), NEW ph, NEW m, Course(ph, m)
    PROVE  \E n \in Nat :
              LET p == Whole!Period(setting)
              IN  /\ Expired(n, gap, osc.delay, p)
                  /\ RunsTo(Run(last_time, last_time + gap), gap,
                            ph[n], osc.delay + n * p - gap, Level(ph[n]), m[n])
<1> DEFINE p == Whole!Period(setting)
           n == Expiries(From, last_time + gap, p)
           run == Run(last_time, last_time + gap)
           rest == osc.delay + n * p - gap
<1>1. /\ VoiceType /\ Phase \in PhaseType /\ osc.delay \in Nat /\ gap \in Nat
      /\ last_time \in Nat
  BY DEF RunType, Start, States
<1>2. p \in Nat \ {0} /\ p \in Nat
  BY <1>1, PhaseClosed
<1>3. n \in Nat /\ Expired(n, gap, osc.delay, p)
  <2> HIDE DEF p
  <2> QED
    BY <1>2, ExpiryTimes
<1>4. rest \in Nat
  <2>1. n * p \in Nat
    <3> HIDE DEF n, p
    <3> QED
      BY <1>2, <1>3, Products
  <2>2. gap <= osc.delay + n * p
    BY <1>3 DEF Expired
  <2> DEFINE x == n * p
  <2> HIDE DEF n, p, x
  <2> QED
    BY <2>1, <2>2, <1>1 DEF x
<1>5. ph[n] \in PhaseType /\ m[n] \in Logs /\ Level(ph[n]) \in Int
  <2>1. ph[n] \in PhaseType /\ m[n] \in Logs
    BY <1>3 DEF Course
  <2> HIDE DEF n
  <2>2. Level(ph[n]) \in Int
    BY <1>1, <2>1, PhaseClosed DEF Level
  <2> QED
    BY <2>1, <2>2
<1>6. Upto(m[n], Now + gap)
  <2> HIDE DEF n
  <2> QED
    BY <1>3, CourseUpto DEF p
<1>7. gap = 0 => n = 0
  BY <1>1 DEF Expiries, From
<1>8. /\ run.osc \in Oscs /\ run.osc.delay = rest /\ run.osc.last_amp = Level(ph[n])
      /\ \/ PhaseSeen(run.osc) = ph[n]
         \/ voice = "noise" /\ setting.volume = 0 /\ gap > 0
      /\ run.out \in Seq(Deltas) /\ Log(changes, run.out) = m[n]
  <2>1. CASE voice = "square"
    <3>1. osc \in [phase : 0..7, delay : Nat, last_amp : Int] /\ PhaseType = 0..7
      BY <1>1, <2>1, VoiceCases DEF Oscs
    <3>2. /\ run.osc = [phase |-> ph[n], delay |-> rest, last_amp |-> Level(ph[n])]
          /\ run.out \in Seq(Deltas) /\ Log(changes, run.out) = m[n]
      BY <2>1, <3>1, SquareRuns
    <3> HIDE DEF run, rest, n
    <3> QED
      BY <2>1, <3>2, <1>4, <1>5 DEF Oscs, PhaseSeen
  <2>2. CASE voice = "triangle"
    <3>1. osc \in [phase : 1..(2 * R), delay : Nat, last_amp : Int]
      BY <1>1, <2>2, VoiceCases DEF Oscs, R
    <3>2. /\ run.osc = [phase |-> ph[n], delay |-> rest, last_amp |-> Level(ph[n])]
          /\ run.out \in Seq(Deltas) /\ Log(changes, run.out) = m[n]
      BY <2>2, <3>1, TriangleRuns
    <3> HIDE DEF run, rest, n
    <3> QED
      BY <2>2, <3>2, <1>4, <1>5 DEF Oscs, PhaseSeen
  <2>3. CASE voice = "noise"
    <3>1. /\ osc \in [phase : Registers, delay : Nat, last_amp : Int]
          /\ PhaseType = Registers
      BY <1>1, <2>3, VoiceCases DEF Oscs, Registers
    <3>2. /\ run.osc = [phase |-> run.osc.phase, delay |-> rest, last_amp |-> Level(ph[n])]
          /\ IF setting.volume = 0
             THEN run.osc.phase \in Registers /\ (n = 0 => run.osc.phase = Phase)
             ELSE run.osc.phase = ph[n]
          /\ run.out \in Seq(Deltas) /\ Log(changes, run.out) = m[n]
      BY <2>3, <3>1, NoiseRuns
    <3>3. ph[0] = Phase
      BY DEF Course
    <3> DEFINE q == run.osc.phase
    <3>4. run.osc = [phase |-> q, delay |-> rest, last_amp |-> Level(ph[n])]
      BY <3>2
    <3> HIDE DEF run, rest, n, q
    <3>5. q \in Registers
      BY <3>1, <3>2, <1>5 DEF q
    <3>6. run.osc \in Oscs /\ run.osc.delay = rest /\ run.osc.last_amp = Level(ph[n])
      BY <2>3, <3>1, <3>4, <3>5, <1>4, <1>5 DEF Oscs
    <3>7. PhaseSeen(run.osc) = ph[n] \/ (setting.volume = 0 /\ gap > 0)
      <4>1. PhaseSeen(run.osc) = run.osc.phase
        BY <2>3 DEF PhaseSeen
      <4> QED
        BY <4>1, <3>2, <3>3, <1>1, <1>7
    <3> QED
      BY <2>3, <3>2, <3>6, <3>7
  <2>4. CASE voice = "dmc"
    <3>1. osc \in PlayerType
      BY <2>4 DEF Oscs
    <3>2. /\ \E d : /\ Fits(d) /\ PhaseIn(d) = ph[n]
                    /\ run.osc = Played(d, rest, Level(ph[n]))
          /\ run.out \in Seq(Deltas) /\ Log(changes, run.out) = m[n]
      BY <2>4, <3>1, DmcRuns
    <3> HIDE DEF run, rest, n
    <3>3. PICK d : /\ Fits(d) /\ PhaseIn(d) = ph[n]
                   /\ run.osc = Played(d, rest, Level(ph[n]))
      BY <3>2
    <3>4. run.osc = [dac |-> d.dac, bits |-> d.bits, silence |-> d.silence,
                     full |-> d.full, len |-> d.len, delay |-> rest,
                     last_amp |-> Level(ph[n])]
      BY <3>3 DEF Played
    <3>5. run.osc \in PlayerType
      BY <3>3, <3>4, <1>4, <1>5 DEF Fits, PlayerType
    <3>6. PhaseIn(run.osc) = PhaseIn(d)
      BY <3>4 DEF PhaseIn
    <3> QED
      BY <2>4, <3>2, <3>3, <3>4, <3>5, <3>6 DEF Oscs, PhaseSeen
  <2> QED
    BY <1>1, <2>1, <2>2, <2>3, <2>4, VoiceCases
<1> HIDE DEF run, rest, n
<1>9. RunsTo(run, gap, ph[n], rest, Level(ph[n]), m[n])
  BY <1>5, <1>6, <1>8 DEF RunsTo
<1> QED
  BY <1>3, <1>9 DEF run, rest

\* Of some cycles.
LEMMA RunsPlayed ==
    ASSUME NEW gap, RunType(gap), gap > 0, osc \in Oscs, Upto(changes, Now)
    PROVE  LET s == Whole!Played(gap)
           IN  /\ RunsTo(Run(last_time, last_time + gap), gap,
                         s.phase, s.timer, s.level, s.changes)
               /\ s.phase \in PhaseType
<1> DEFINE run == Run(last_time, last_time + gap)
           s == Whole!Played(gap)
<1>1. /\ VoiceType /\ Start \in States /\ Phase \in PhaseType /\ osc.delay \in Nat
      /\ gap \in Nat \ {0} /\ Now \in Nat /\ Now + gap <= LastClock + 1 /\ LastClock \in Nat
      /\ osc.last_amp \in Int /\ changes \in Logs /\ last_time \in Times
      /\ last_time \in Nat /\ base \in Nat
  BY DEF RunType, Start, States, Now, Times
<1>2. CASE Whole!Counting(setting)
  <2>1. PICK ph, m : Course(ph, m)
    BY <1>1, CourseExists
  <2>2. PICK n \in Nat :
           /\ Expired(n, gap, osc.delay, Whole!Period(setting))
           /\ RunsTo(run, gap, ph[n], osc.delay + n * Whole!Period(setting) - gap,
                     Level(ph[n]), m[n])
    BY <1>2, <2>1, RunsCourse
  <2>3. s = [phase |-> ph[n], timer |-> osc.delay + n * Whole!Period(setting) - gap,
             level |-> Level(ph[n]), changes |-> m[n]]
    BY <1>1, <1>2, <2>1, <2>2, PlayedCourse
  <2>4. ph[n] \in PhaseType
    BY <2>1 DEF Course
  <2> HIDE DEF s, run
  <2> QED
    BY <2>2, <2>3, <2>4 DEF s, run
<1>3. CASE ~Whole!Counting(setting)
  <2> DEFINE delta == Level(Phase) - osc.last_amp
             log == Mark(changes, Now, delta)
  <2>1. voice = "triangle"
    BY <1>3 DEF Whole!Counting
  <2>2. osc \in [phase : 1..(2 * R), delay : Nat, last_amp : Int]
    BY <1>1, <2>1, VoiceCases DEF Oscs, R
  <2>3. /\ run.osc = [phase |-> Phase, delay |-> 0, last_amp |-> Level(Phase)]
        /\ run.out = Change(last_time, delta)
    BY <1>3, <2>1, <2>2, TriangleIdles
  <2>4. s = [phase |-> Phase, timer |-> 0, level |-> Level(Phase), changes |-> log]
    BY <1>1, <1>3, PlayedIdle
  <2>5. delta \in Int /\ Level(Phase) \in Int
    <3>1. Level(Phase) \in Int
      BY <1>1, PhaseClosed DEF Level
    <3> QED
      BY <1>1, <3>1
  <2> HIDE DEF delta, run, s
  <2>6. run.out \in Seq(Deltas) /\ Log(changes, run.out) = log
    BY <1>1, <2>3, <2>5, LogChange DEF Now
  <2>7. log \in Logs /\ Upto(log, Now + gap)
    <3>1. Upto(log, Now)
      BY <1>1, UptoMark
    <3>2. Upto(log, Now + gap)
      BY <1>1, <3>1 DEF Upto, Clock
    <3> QED
      BY <1>1, <2>5, <3>2, MarkType
  <2> HIDE DEF log
  <2>8. run.osc \in Oscs /\ PhaseSeen(run.osc) = Phase
    BY <1>1, <2>1, <2>3, <2>5 DEF Oscs, PhaseSeen
  <2> QED
    BY <1>1, <2>3, <2>4, <2>6, <2>7, <2>8 DEF RunsTo, run, s
<1> QED
  BY <1>2, <1>3

\* Of none.
LEMMA RunsSettled ==
    ASSUME RunType(0), voice # "dmc", osc \in Oscs, Upto(changes, Now)
    PROVE  RunsTo(Run(last_time, last_time), 0, Phase,
                  IF Whole!Counting(setting) THEN osc.delay ELSE 0,
                  Level(Phase), Mark(changes, Now, Level(Phase) - osc.last_amp))
<1> DEFINE run == Run(last_time, last_time)
           delta == Level(Phase) - osc.last_amp
           log == Mark(changes, Now, delta)
<1>1. /\ VoiceType /\ Start \in States /\ Phase \in PhaseType /\ osc.delay \in Nat
      /\ Now \in Nat /\ osc.last_amp \in Int /\ changes \in Logs /\ last_time \in Times
      /\ last_time \in Nat /\ base \in Nat /\ last_time + 0 = last_time /\ Now + 0 = Now
  BY DEF RunType, Start, States, Now, Times
<1>2. CASE Whole!Counting(setting)
  <2>1. PICK ph, m : Course(ph, m)
    BY <1>1, CourseExists
  <2>2. PICK n \in Nat :
           /\ Expired(n, 0, osc.delay, Whole!Period(setting))
           /\ RunsTo(run, 0, ph[n], osc.delay + n * Whole!Period(setting) - 0,
                     Level(ph[n]), m[n])
    BY <1>1, <1>2, <2>1, RunsCourse
  <2> DEFINE p == Whole!Period(setting)
  <2>3. p \in Nat \ {0} /\ p \in Nat
    BY <1>1, PhaseClosed
  <2> HIDE DEF p
  <2>4. n = 0
    <3>1. Expired(0, 0, osc.delay, p) /\ 0 \in Nat
      BY <1>1, <2>3, ExpiredNext
    <3> QED
      BY <1>1, <2>2, <2>3, <3>1, ExpiredOne DEF p
  <2>5. osc.delay + n * p - 0 = osc.delay
    <3>1. 0 * p = 0
      BY <2>3
    <3> QED
      BY <1>1, <2>4, <3>1
  <2>6. ph[0] = Phase /\ m[0] = log
    BY <2>1 DEF Course
  <2> HIDE DEF run, log
  <2> QED
    BY <1>2, <2>2, <2>4, <2>5, <2>6 DEF p, run, log
<1>3. CASE ~Whole!Counting(setting)
  <2>1. voice = "triangle"
    BY <1>3 DEF Whole!Counting
  <2>2. osc \in [phase : 1..(2 * R), delay : Nat, last_amp : Int]
    BY <1>1, <2>1, VoiceCases DEF Oscs, R
  <2>3. /\ run.osc = [phase |-> Phase, delay |-> 0, last_amp |-> Level(Phase)]
        /\ run.out = Change(last_time, delta)
    BY <1>1, <1>3, <2>1, <2>2, TriangleIdles
  <2>5. delta \in Int /\ Level(Phase) \in Int
    <3>1. Level(Phase) \in Int
      BY <1>1, PhaseClosed DEF Level
    <3> QED
      BY <1>1, <3>1
  <2> HIDE DEF delta, run
  <2>6. run.out \in Seq(Deltas) /\ Log(changes, run.out) = log
    BY <1>1, <2>3, <2>5, LogChange DEF Now
  <2>7. log \in Logs /\ Upto(log, Now + 0)
    <3>1. Upto(log, Now)
      BY <1>1, UptoMark
    <3> QED
      BY <1>1, <2>5, <3>1, MarkType
  <2> HIDE DEF log
  <2>8. run.osc \in Oscs /\ PhaseSeen(run.osc) = Phase
    BY <1>1, <2>1, <2>3, <2>5 DEF Oscs, PhaseSeen
  <2> QED
    BY <1>3, <2>3, <2>6, <2>7, <2>8 DEF RunsTo, run, log, delta
<1> QED
  BY <1>2, <1>3

-----------------------------------------------------------------------------
(* Sound is implemented.                                                   *)

\* What holds between any two steps, besides SoundInv: the cells hold what is
\* heard of the changes, none of which lies in the future, and the bound on time
\* frames keeps the clock in its range.
PathInv ==
    /\ VoiceType /\ osc \in Oscs
    /\ changes \in Logs /\ Upto(changes, Now)
    /\ Holds(buffer, changes, taken) /\ reader_accum \in Int
    /\ frames \in 0..MaxFrames /\ base <= frames * (FrameLength + 1)
    /\ stage = "read" => last_time <= Late

\* Within a frame the oscillator may run up to MaxTime.
LEMMA RunsInFrame ==
    ASSUME SoundInv, PathInv, stage = "run", frames < MaxFrames,
           NEW gap \in Nat, last_time + gap <= MaxTime
    PROVE  RunType(gap) /\ Now + gap \in Clock /\ LastClock \in Nat /\ Now \in Nat
<1>1. /\ base \in Nat /\ last_time \in Nat /\ frames \in Nat /\ MaxFrames \in Nat
      /\ FrameLength \in Nat /\ Late \in Nat /\ MaxTime = FrameLength + Late
      /\ base <= frames * (FrameLength + 1)
  BY SoundAssumption, Constants DEF SoundInv, PathInv
<1> DEFINE f == FrameLength + 1
<1>2. /\ frames * f \in Nat /\ (frames + 1) * f = frames * f + 1 * f
      /\ (frames + 1) * f <= MaxFrames * f /\ MaxFrames * f \in Nat /\ f \in Nat
  <2>1. f \in Nat /\ frames + 1 \in Nat /\ frames + 1 <= MaxFrames
    BY <1>1
  <2> HIDE DEF f
  <2> QED
    BY <1>1, <2>1, Products
<1>3. LastClock = MaxFrames * f + Late /\ LastClock \in Nat
  BY <1>1, <1>2 DEF LastClock
<1>4. Now \in Nat /\ Now + gap <= LastClock
  <2>1. base + last_time + gap <= frames * f + FrameLength + Late
    BY <1>1
  <2>2. 1 * f = FrameLength + 1
    BY <1>1
  <2> DEFINE x == frames * f
             y == MaxFrames * f
             z == (frames + 1) * f
  <2>3. x \in Nat /\ y \in Nat /\ z = x + (FrameLength + 1) /\ z <= y
    BY <1>2, <2>2
  <2>4. base + last_time + gap <= x + FrameLength + Late /\ LastClock = y + Late
    BY <2>1, <1>3
  <2> HIDE DEF x, y, z, f
  <2> QED
    BY <1>1, <2>3, <2>4 DEF Now
<1>5. Start \in States /\ osc.delay \in Nat
  BY SeenType DEF PathInv, Start, States
<1> HIDE DEF f
<1> QED
  BY <1>1, <1>3, <1>4, <1>5 DEF RunType, PathInv, Clock

\* When the samples are read, all are.
LEMMA ReadsAll ==
    ASSUME SoundInv, PathInv, stage = "read"
    PROVE  /\ ReadCount = samples_avail /\ samples_avail \in Nat
           /\ samples_avail <= BufferSize
           /\ taken + samples_avail <= (Now * Factor) \div Unit
           /\ Now * Factor < (taken + samples_avail + 3) * Unit
           /\ LastClock \in Nat /\ Now \in Nat
<1> DEFINE n == samples_avail
<1>1. /\ offset \in Nat /\ base \in Nat /\ taken \in Nat /\ last_time \in Nat
      /\ taken * Unit + offset = base * Factor
      /\ offset < (FrameLength + 1) * Factor + Unit
      /\ last_time <= Late /\ frames \in Nat /\ MaxFrames \in Nat
      /\ to_fixed(last_time) < MaxTime * Factor + Unit
      /\ Late \in Nat /\ FrameLength \in Nat
  BY SoundAssumption, Constants DEF SoundInv, NoDrift, PathInv
<1>2. n \in Nat /\ offset - n * Unit \in 0..(Unit - 1) /\ n * Unit \in Nat
  BY <1>1, WholeSamples, Products, Constants DEF samples_avail
<1>3. ReadCount = n
  <2>1. /\ (MaxRead + 1) * Unit = MaxRead * Unit + 1 * Unit
        /\ MaxRead * Unit \in Nat /\ MaxRead + 1 \in Nat
    BY Constants, Products, SMT
  <2>2. 1 * Unit = Unit
    BY Constants, SMT
  <2>3. offset < (MaxRead + 1) * Unit
    BY <1>1, <2>1, <2>2, RateAssumption, Constants, SMT
  <2>4. n < MaxRead + 1
    BY <1>1, <2>1, <2>3, WholeSamples DEF samples_avail
  <2> HIDE DEF n
  <2> QED
    BY <2>4, <1>2, Constants, SMT DEF ReadCount, n
<1> HIDE DEF n
<1>4. n <= BufferSize
  <2>1. BufferSize * Unit \in Nat /\ last_time * Factor \in Nat /\ MaxTime * Factor \in Nat
    BY <1>1, BufferSizes, Constants, Products
  <2>2. offset < BufferSize * Unit
    BY <1>1, <2>1, Constants, RateAssumption DEF to_fixed
  <2>3. n < BufferSize
    BY <1>1, <2>2, BufferSizes, WholeSamples DEF samples_avail, n
  <2> QED
    BY <1>2, <2>3, BufferSizes
<1> DEFINE x == last_time * Factor
           a == offset - n * Unit + x
           t == taken + n
<1>5. /\ Now * Factor = t * Unit + a /\ a \in Nat /\ t \in Nat
      /\ a < 3 * Unit /\ t * Unit \in Nat /\ (t + 3) * Unit = t * Unit + 3 * Unit
  <2>1. Now * Factor = base * Factor + x /\ x \in Nat /\ base * Factor \in Nat
    BY <1>1, Constants, Products DEF Now
  <2>2. t * Unit = taken * Unit + n * Unit /\ taken * Unit \in Nat /\ t \in Nat
    BY <1>1, <1>2, Constants, Products
  <2>3. x <= Late * Factor /\ Late * Factor \in Nat
    BY <1>1, Constants, Products
  <2>4. Late * Factor <= 2 * Unit
    BY RateAssumption
  <2>5. (t + 3) * Unit = t * Unit + 3 * Unit /\ t * Unit \in Nat
    BY <2>2, Constants, Products
  <2> HIDE DEF x, t
  <2> QED
    BY <1>1, <1>2, <2>1, <2>2, <2>3, <2>4, <2>5, Constants
<1> HIDE DEF a, t
<1>6. (Now * Factor) \div Unit >= t
  <2>1. (t * Unit + a) \div Unit = t + (a \div Unit)
    <3>1. t \in Int /\ a \in Int /\ Unit \in Nat \ {0}
      BY <1>5, SoundAssumption
    <3> QED
      BY <3>1, UnitsShift
  <2>2. a \div Unit \in Nat
    BY <1>5, WholeSamples
  <2> QED
    BY <1>5, <2>1, <2>2
<1>7. Now * Factor < (t + 3) * Unit
  BY <1>5, Constants
<1>8. LastClock \in Nat
  <2>1. MaxFrames * (FrameLength + 1) \in Nat
    <3> DEFINE f == FrameLength + 1
    <3>1. f \in Nat
      BY <1>1
    <3> HIDE DEF f
    <3>2. MaxFrames * f \in Nat
      BY <1>1, <3>1, Products
    <3> QED
      BY <3>2 DEF f
  <2> QED
    BY <1>1, <2>1 DEF LastClock
<1> QED
  BY <1>1, <1>2, <1>3, <1>4, <1>6, <1>7, <1>8 DEF n, t, Now

\* A read plays the samples, and the cells that are left hold the next ones.
LEMMA ReadPlays ==
    ASSUME SoundInv, PathInv, ReadSamples
    PROVE  Whole!Play /\ PathInv'
<1> DEFINE n == samples_avail
<1>0. /\ stage = "read" /\ stage' = "run"
      /\ UNCHANGED <<voice, setting, osc, frame_length, last_time, base, changes,
                     writes, frames>>
      /\ heard' = [i \in 1..ReadCount |-> Clamp(Sums(ReadCount)[i - 1] \div 2^delta_bits)]
      /\ taken' = taken + ReadCount /\ reader_accum' = Sums(ReadCount)[ReadCount]
      /\ buffer' = Removed(ReadCount)
  BY DEF ReadSamples, apuVars
<1>1. /\ ReadCount = n /\ n \in Nat /\ n <= BufferSize
      /\ taken + n <= (Now * Factor) \div Unit
      /\ Now * Factor < (taken + n + 3) * Unit
      /\ LastClock \in Nat /\ Now \in Nat
  BY <1>0, ReadsAll
<1>2. /\ taken \in Nat /\ reader_accum \in Int /\ Holds(buffer, changes, taken)
      /\ changes \in Logs /\ Upto(changes, Now)
  BY DEF SoundInv, PathInv
<1>3. /\ BufferSize \in Nat /\ Extra \in Nat /\ Cells = 0..(BufferSize + Extra - 1)
      /\ Extra >= 2
  BY BufferSizes, SoundAssumption DEF Extra
<1>4. Removed(n) = [i \in Cells |-> IF i < Extra THEN buffer[i + n]
                                    ELSE IF i < Extra + n THEN 0 ELSE buffer[i]]
  <2>1. Remain(n) = Extra
    BY <1>1, <1>3 DEF Remain
  <2> QED
    BY <2>1 DEF Removed
<1> HIDE DEF n
<1>5. 0..(n - 1) \subseteq Cells
  BY <1>1, <1>3
<1>6. \A i \in Int : Heard(changes, i) \in Int
  <2> SUFFICES ASSUME NEW i \in Int PROVE Heard(changes, i) \in Int
    OBVIOUS
  <2>1. \A c \in Clock : Share(c, i) \in Int
    BY <1>1, ShareType
  <2>2. 0 \in Clock /\ 0 \in Int
    BY <1>1 DEF Clock
  <2> QED
    BY <1>1, <1>2, <2>1, <2>2, HeardMark
<1>7. \A k \in 0..n : Sums(n)[k] \in Int /\ PlaySums(taken + n)[taken + k] = Sums(n)[k]
  <2>1. \A i \in Cells : Heard(changes, taken + i) \in Int
    BY <1>2, <1>3, <1>6
  <2> QED
    BY <1>1, <1>2, <1>5, <2>1, SumsArePlayed
<1>8. Whole!Play
  <2> DEFINE upto == taken + n
             sums == PlaySums(upto)
  <2>1. upto \in taken..((Now * Factor) \div Unit)
    <3>1. (Now * Factor) \div Unit \in Int
      <4> DEFINE x == Now * Factor
      <4>1. x \in Nat /\ Unit \in Nat \ {0}
        BY <1>1, Constants, Products, SoundAssumption
      <4> HIDE DEF x
      <4>2. x \div Unit \in Int
        BY <4>1
      <4> QED
        BY <4>2 DEF x
    <3> QED
      BY <1>1, <1>2, <3>1
  <2>2. taken' = upto /\ upto - taken = n
    BY <1>0, <1>1, <1>2
  <2>3. reader_accum' = sums[upto]
    <3>1. n \in 0..n
      BY <1>1
    <3> QED
      BY <1>0, <1>1, <1>7, <3>1
  <2>4. heard' = [i \in 1..(upto - taken) |-> Clamp(sums[taken + i - 1] \div 2^delta_bits)]
    <3>1. ASSUME NEW i \in 1..n
          PROVE  Sums(n)[i - 1] = sums[taken + i - 1]
      <4>1. i - 1 \in 0..n /\ taken + (i - 1) = taken + i - 1
        BY <1>1, <1>2
      <4> QED
        BY <1>7, <4>1
    <3> HIDE DEF sums, upto
    <3> QED
      BY <1>0, <1>1, <2>2, <3>1
  <2>5. UNCHANGED <<voice, setting, base + last_time, Phase, osc.delay, osc.last_amp, changes>>
    BY <1>0 DEF Phase
  <2> QED
    BY <2>1, <2>2, <2>3, <2>4, <2>5 DEF Whole!Play, PlaySums, Now
<1>9. Holds(buffer', changes', taken')
  <2>1. buffer' = Removed(n) /\ changes' = changes /\ taken' = taken + n
    BY <1>0, <1>1
  <2>2. \A i \in Cells : i \in Nat /\ buffer[i] \in Int
                         /\ buffer[i] = Heard(changes, taken + i)
    BY <1>2, <1>3 DEF Holds, Bufs
  <2>3. \A j \in Int : j >= taken + n + Extra => Heard(changes, j) = 0
    <3> DEFINE last == taken + n
    <3>1. /\ last \in Nat /\ Now * Factor < (last + 3) * Unit
          /\ \A c \in Clock : changes[c] # 0 => c <= Now
      BY <1>1, <1>2 DEF Upto
    <3> HIDE DEF last
    <3>2. \A j \in Int : j >= last + Extra => Heard(changes, j) = 0
      BY <1>1, <1>2, <3>1, HeardBehind
    <3> QED
      BY <3>2 DEF last
  <2>4. ASSUME NEW i \in Cells
        PROVE  /\ Removed(n)[i] \in Int
               /\ Removed(n)[i] = Heard(changes, (taken + n) + i)
    <3>0. i \in Nat
      BY <2>2
    <3>1. CASE i < Extra
      <4>1. i + n \in Cells /\ taken + (i + n) = (taken + n) + i
        BY <1>1, <1>2, <1>3, <3>0, <3>1
      <4>2. Removed(n)[i] = buffer[i + n]
        BY <1>4, <3>1
      <4> QED
        BY <2>2, <4>1, <4>2
    <3>2. CASE ~(i < Extra)
      <4>1. Heard(changes, (taken + n) + i) = 0
        BY <1>1, <1>2, <1>3, <2>3, <3>0, <3>2
      <4>2. CASE i < Extra + n
        BY <1>4, <3>2, <4>1, <4>2
      <4>3. CASE ~(i < Extra + n)
        <5>1. Heard(changes, taken + i) = 0
          BY <1>1, <1>2, <1>3, <2>3, <3>0, <4>3
        <5>2. Removed(n)[i] = buffer[i]
          BY <1>4, <3>2, <4>3
        <5> QED
          BY <2>2, <4>1, <5>1, <5>2
      <4> QED
        BY <4>2, <4>3
    <3> QED
      BY <3>1, <3>2
  <2>5. Removed(n) \in Bufs
    BY <1>4, <2>4 DEF Bufs
  <2> QED
    BY <2>1, <2>4, <2>5 DEF Holds
<1>10. PathInv'
  <2>1. reader_accum' \in Int
    BY <1>0, <1>1, <1>7
  <2>2. VoiceType' /\ (osc \in Oscs)'
    BY <1>0 DEF PathInv, VoiceType, Oscs, PlayerType, PhaseType
  <2>3. (changes \in Logs)' /\ Upto(changes, Now)'
    BY <1>0, <1>2 DEF Upto, Now
  <2>4. Holds(buffer, changes, taken)'
    BY <1>9
  <2> QED
    BY <1>0, <2>1, <2>2, <2>3, <2>4 DEF PathInv
<1> QED
  BY <1>8, <1>10

\* What a register does to the oscillator may happen to the phase, and it leaves
\* the timer and the level alone.
LEMMA WrittenJumps ==
    ASSUME VoiceType, NEW o \in Oscs, NEW g \in SettingType(voice),
           NEW p \in PhaseType,
           PhaseSeen(o) = p \/ (voice = "noise" /\ setting.volume = 0),
           NEW q \in Written(o, g)
    PROVE  /\ q \in Oscs /\ q.delay = o.delay /\ q.last_amp = o.last_amp
           /\ PhaseSeen(q) \in Whole!Jumps(p, g)
<1>1. CASE voice = "square"
  <2>1. /\ o \in [phase : 0..7, delay : Nat, last_amp : Int] /\ p = o.phase
        /\ Oscs = [phase : 0..7, delay : Nat, last_amp : Int]
    BY <1>1, VoiceCases DEF Oscs, PhaseSeen
  <2>2. q = o \/ q = [o EXCEPT !.phase = 7]
    <3>1. q \in {o, [o EXCEPT !.phase = SquareRange - 1]}
      BY <1>1 DEF Written
    <3>2. SquareRange - 1 = 7
      BY DEF SquareRange
    <3> QED
      BY <3>1, <3>2
  <2>3. q \in Oscs /\ q.delay = o.delay /\ q.last_amp = o.last_amp /\ q.phase \in {p, 7}
    BY <2>1, <2>2
  <2> QED
    BY <1>1, <2>3 DEF PhaseSeen, Whole!Jumps
<1>2. CASE voice = "triangle"
  <2>1. q = o
    BY <1>2 DEF Written
  <2> QED
    BY <1>2, <2>1 DEF Whole!Jumps
<1>3. CASE voice = "noise"
  <2>1. q = o /\ PhaseSeen(o) \in PhaseType /\ PhaseType = 0..(2 * 2^NoiseTop - 1)
    BY <1>3, VoiceCases, SeenType DEF Written
  <2>2. setting.volume = 0 \/ PhaseSeen(o) = p
    OBVIOUS
  <2> QED
    BY <1>3, <2>1, <2>2 DEF Whole!Jumps
<1>4. CASE voice = "dmc"
  <2> DEFINE full == IF o.full THEN 1 ELSE 0
               start == IF p.bytes = 1 THEN 1 + g.sample
                      ELSE IF g.sample = 1 /\ g.loop THEN 2 ELSE g.sample
  <2>1. /\ Oscs = PlayerType /\ p = PhaseIn(o)
        /\ o \in [dac : 0..MaxDac, bits : 1..B, silence : BOOLEAN, full : BOOLEAN,
                  len : Nat, delay : Nat, last_amp : Int]
        /\ o.full \/ o.len = 0
        /\ g.sample \in Nat \ {0} /\ g.loop \in BOOLEAN
    BY <1>4 DEF Oscs, PhaseSeen, PlayerType, SettingType
  <2>2. /\ p = [dac |-> o.dac, bit |-> B - o.bits, on |-> ~o.silence,
                bytes |-> o.len + full]
        /\ p.dac = o.dac /\ p.bytes = o.len + full /\ full \in {0, 1}
        /\ p.dac \in 0..MaxDac /\ p.bytes \in Nat
    BY <2>1 DEF PhaseIn
  <2>3. Whole!Jumps(p, g) =
            {[p EXCEPT !.dac = d] : d \in 0..MaxDac}
              \cup {[p EXCEPT !.bytes = IF @ = 0 THEN 0 ELSE 1]}
              \cup (IF p.bytes < 2 THEN {[p EXCEPT !.bytes = start]} ELSE {})
    BY <1>4 DEF Whole!Jumps
  <2>4. /\ \A d : [p EXCEPT !.dac = d] =
              [dac |-> d, bit |-> B - o.bits, on |-> ~o.silence, bytes |-> o.len + full]
        /\ \A n : [p EXCEPT !.bytes = n] =
              [dac |-> o.dac, bit |-> B - o.bits, on |-> ~o.silence, bytes |-> n]
    BY <2>2
  <2> HIDE DEF full, start
  <2>5. \/ q = o \/ q = [o EXCEPT !.len = 0] \/ \E d \in Dacs : q = [o EXCEPT !.dac = d]
        \/ o.len = 0 /\ q = Started(o, g)
    BY <1>4 DEF Written
  <2>6. CASE q = o
    <3>1. PhaseSeen(q) = [p EXCEPT !.dac = o.dac]
      <4>1. [p EXCEPT !.dac = o.dac] = p
        BY <2>2, <2>4
      <4> QED
        BY <1>4, <2>1, <2>6, <4>1 DEF PhaseSeen
    <3> QED
      BY <2>2, <2>3, <2>6, <3>1
  <2>7. CASE q = [o EXCEPT !.len = 0]
    <3>1. /\ q \in [dac : 0..MaxDac, bits : 1..B, silence : BOOLEAN, full : BOOLEAN,
                    len : Nat, delay : Nat, last_amp : Int]
          /\ q.len = 0 /\ q.delay = o.delay /\ q.last_amp = o.last_amp /\ q.dac = o.dac
          /\ q.bits = o.bits /\ q.silence = o.silence /\ q.full = o.full
      BY <2>1, <2>7
    <3>2. q \in PlayerType
      BY <3>1 DEF PlayerType
    <3>3. PhaseIn(q) = [dac |-> o.dac, bit |-> B - o.bits, on |-> ~o.silence,
                        bytes |-> 0 + full]
      BY <3>1 DEF PhaseIn, full
    <3>4. 0 + full = IF p.bytes = 0 THEN 0 ELSE 1
      BY <2>1, <2>2 DEF full
    <3>5. [p EXCEPT !.bytes = IF @ = 0 THEN 0 ELSE 1]
            = [p EXCEPT !.bytes = IF p.bytes = 0 THEN 0 ELSE 1]
      OBVIOUS
    <3>6. PhaseIn(q) = [p EXCEPT !.bytes = IF @ = 0 THEN 0 ELSE 1]
      BY <2>4, <3>3, <3>4, <3>5
    <3> QED
      BY <1>4, <2>1, <2>3, <3>1, <3>2, <3>6 DEF PhaseSeen
  <2>8. ASSUME NEW d \in Dacs, q = [o EXCEPT !.dac = d]
        PROVE  /\ q \in Oscs /\ q.delay = o.delay /\ q.last_amp = o.last_amp
               /\ PhaseSeen(q) \in Whole!Jumps(p, g)
    <3>0. d \in 0..MaxDac
      BY SoundAssumption
    <3>1. /\ q \in [dac : 0..MaxDac, bits : 1..B, silence : BOOLEAN, full : BOOLEAN,
                    len : Nat, delay : Nat, last_amp : Int]
          /\ q.len = o.len /\ q.delay = o.delay /\ q.last_amp = o.last_amp /\ q.dac = d
          /\ q.bits = o.bits /\ q.silence = o.silence /\ q.full = o.full
      BY <2>1, <2>8, <3>0
    <3>2. q \in PlayerType
      BY <2>1, <3>1 DEF PlayerType
    <3>3. PhaseIn(q) = [dac |-> d, bit |-> B - o.bits, on |-> ~o.silence,
                        bytes |-> o.len + full]
      BY <3>1 DEF PhaseIn, full
    <3>4. PhaseIn(q) = [p EXCEPT !.dac = d]
      BY <2>4, <3>3
    <3> QED
      BY <1>4, <2>1, <2>3, <3>0, <3>1, <3>2, <3>4 DEF PhaseSeen
  <2>9. ASSUME o.len = 0, q = Started(o, g)
        PROVE  /\ q \in Oscs /\ q.delay = o.delay /\ q.last_amp = o.last_amp
               /\ PhaseSeen(q) \in Whole!Jumps(p, g)
    <3> DEFINE T == [len : Nat, full : BOOLEAN, silence : BOOLEAN, bits : 1..B,
                     delay : Nat, dac : 0..MaxDac, last_amp : Int, period : Nat,
                     loop : BOOLEAN, sample : Nat, irq_enabled : BOOLEAN,
                     irq_flag : BOOLEAN, next_irq : Nat, enabled : BOOLEAN]
               x == [Player(o, g) EXCEPT !.len = g.sample]
               y == fill_buffer(x)
    <3>0. /\ o.full \in BOOLEAN /\ o.silence \in BOOLEAN /\ o.bits \in 1..B
          /\ o.dac \in 0..MaxDac /\ o.delay \in Nat /\ o.last_amp \in Int
          /\ o.len \in Nat /\ g.period \in Nat /\ NoIrq \in Nat
      BY <1>4, <2>1, OscillatorAssumption DEF SettingType
    <3>1. Player(o, g) \in T
      BY <2>1, <3>0 DEF Player
    <3>2. /\ x \in T /\ x.len = g.sample /\ x.full = o.full /\ x.silence = o.silence
          /\ x.bits = o.bits /\ x.dac = o.dac /\ x.loop = g.loop /\ x.sample = g.sample
      <4> DEFINE d == Player(o, g)
      <4>1. /\ d.full = o.full /\ d.silence = o.silence /\ d.bits = o.bits
            /\ d.dac = o.dac /\ d.loop = g.loop /\ d.sample = g.sample
        BY DEF Player
      <4> HIDE DEF d
      <4>2. d \in T /\ x = [d EXCEPT !.len = g.sample]
        BY <3>1 DEF d
      <4> HIDE DEF x
      <4> QED
        BY <2>1, <4>1, <4>2
    <3> HIDE DEF x
    <3>3. /\ y.silence = o.silence /\ y.bits = o.bits /\ y.dac = o.dac
          /\ y.full = TRUE /\ y.len \in Nat /\ y.len + 1 = start
      <4>1. CASE o.full
        <5>1. y = x /\ x.full = TRUE
          BY <3>0, <3>2, <4>1 DEF fill_buffer
        <5>2. p.bytes = 1
          BY <2>2, <2>9, <4>1 DEF full
        <5>3. start = 1 + g.sample
          BY <5>2 DEF start
        <5> QED
          BY <2>1, <3>2, <5>1, <5>3
      <4>2. CASE ~o.full
        <5> DEFINE r == [x EXCEPT !.full = TRUE]
                   read == [x EXCEPT !.full = TRUE, !.len = @ - 1]
        <5>0. start = IF g.sample = 1 /\ g.loop THEN 2 ELSE g.sample
          <6>1. p.bytes = 0
            BY <2>2, <2>9, <4>2 DEF full
          <6> QED
            BY <6>1 DEF start
        <5>1. r \in T /\ r.len = x.len
          BY <3>2
        <5>2. read = [r EXCEPT !.len = x.len - 1]
          OBVIOUS
        <5>3. x.len - 1 \in Nat
          BY <2>1, <3>2
        <5>4. read \in T
          <6> HIDE DEF r, read
          <6> QED
            BY <5>1, <5>2, <5>3
        <5>5. /\ read.len = g.sample - 1 /\ read.full = TRUE /\ read.silence = o.silence
              /\ read.bits = o.bits /\ read.dac = o.dac
          BY <3>2
        <5>6. y = IF read.len > 0 THEN read
                  ELSE IF x.loop THEN [read EXCEPT !.len = x.sample]
                  ELSE [Disabled(read) EXCEPT !.irq_flag = x.irq_enabled, !.next_irq = NoIrq]
          BY <2>1, <3>2, <4>2 DEF fill_buffer
        <5> HIDE DEF read, r
        <5>7. CASE g.sample > 1
          <6>1. y = read /\ start = g.sample
            BY <2>1, <5>0, <5>5, <5>6, <5>7
          <6> QED
            BY <2>1, <5>5, <6>1
        <5>8. CASE g.sample = 1 /\ g.loop
          <6>1. y = [read EXCEPT !.len = x.sample] /\ start = 2
            BY <3>2, <5>0, <5>5, <5>6, <5>8
          <6> QED
            BY <3>2, <5>4, <5>5, <5>8, <6>1
        <5>9. CASE g.sample = 1 /\ ~g.loop
          <6>1. /\ y = [Disabled(read) EXCEPT !.irq_flag = x.irq_enabled, !.next_irq = NoIrq]
                /\ start = 1
            BY <3>2, <5>0, <5>5, <5>6, <5>9
          <6> DEFINE off == Disabled(read)
                     z == [off EXCEPT !.irq_flag = x.irq_enabled]
          <6>2. /\ off \in T /\ off.len = read.len /\ off.full = read.full
                /\ off.silence = read.silence /\ off.bits = read.bits /\ off.dac = read.dac
            BY <5>4 DEF Disabled
          <6> HIDE DEF off
          <6>3. /\ z \in T /\ z.len = off.len /\ z.full = off.full
                /\ z.silence = off.silence /\ z.bits = off.bits /\ z.dac = off.dac
            BY <3>2, <6>2
          <6>4. y = [z EXCEPT !.next_irq = NoIrq]
            BY <6>1 DEF off
          <6> HIDE DEF z, y
          <6>5. /\ y.len = z.len /\ y.full = z.full
                /\ y.silence = z.silence /\ y.bits = z.bits /\ y.dac = z.dac
            BY <6>3, <6>4
          <6>6. y.len = 0
            BY <5>5, <5>9, <6>2, <6>3, <6>5
          <6> QED
            BY <5>5, <6>1, <6>2, <6>3, <6>5, <6>6
        <5>10. g.sample > 1 \/ (g.sample = 1 /\ g.loop) \/ (g.sample = 1 /\ ~g.loop)
          BY <2>1
        <5> QED
          BY <5>7, <5>8, <5>9, <5>10
      <4> QED
        BY <4>1, <4>2
    <3> HIDE DEF y
    <3>4. q = [dac |-> y.dac, bits |-> y.bits, silence |-> y.silence, full |-> y.full,
               len |-> y.len, delay |-> o.delay, last_amp |-> o.last_amp]
      BY <2>9 DEF Started, Played, x, y
    <3>5. q \in PlayerType
      BY <2>1, <3>3, <3>4 DEF PlayerType
    <3>6. PhaseIn(q) = [dac |-> o.dac, bit |-> B - o.bits, on |-> ~o.silence,
                        bytes |-> start]
      BY <3>3, <3>4 DEF PhaseIn
    <3>7. p.bytes < 2
      BY <2>2, <2>9
    <3>8. PhaseIn(q) = [p EXCEPT !.bytes = start]
      BY <2>4, <3>6
    <3> QED
      BY <1>4, <2>1, <2>3, <3>4, <3>5, <3>7, <3>8 DEF PhaseSeen
  <2>10. CASE \E d \in Dacs : q = [o EXCEPT !.dac = d]
    BY <2>8, <2>10
  <2> QED
    BY <2>5, <2>6, <2>7, <2>9, <2>10
<1> QED
  BY <1>1, <1>2, <1>3, <1>4, VoiceCases

\* After a run the cells hold what is heard of the changes.
LEMMA RunKeeps ==
    ASSUME SoundInv, PathInv, stage = "run", LastClock \in Nat,
           NEW deltas \in Seq(Deltas), NEW now,
           Log(changes, deltas) \in Logs, Upto(Log(changes, deltas), now),
           buffer' = FoldLeft(Spread, buffer, deltas),
           changes' = FoldLeft(Noted, changes, deltas),
           taken' = taken, base' + last_time' = now
    PROVE  (changes \in Logs)' /\ Upto(changes, Now)' /\ Holds(buffer, changes, taken)'
<1>1. changes' = Log(changes, deltas)
  BY DEF Log
<1>2. /\ changes \in Logs /\ base \in Nat /\ taken \in Nat /\ offset \in Nat
      /\ taken * Unit + offset = base * Factor /\ Holds(buffer, changes, taken)
  BY DEF SoundInv, NoDrift, PathInv
<1>3. Holds(FoldLeft(Spread, buffer, deltas), Log(changes, deltas), taken)
  BY <1>2, SpreadHolds
<1>4. Upto(changes', now)
  BY <1>1
<1> QED
  BY <1>1, <1>3, <1>4 DEF Upto, Now

\* A run of some cycles and what a register does then is one Advance.
LEMMA RunAdvances ==
    ASSUME SoundInv, PathInv, stage = "run", NEW gap \in Nat, Now + gap \in Clock,
           NEW run, NEW s, s = Whole!Played(gap), s.phase \in PhaseType,
           RunsTo(run, gap, s.phase, s.timer, s.level, s.changes),
           osc' \in Written(run.osc, setting'), setting' \in Settings(voice) \cup {setting},
           setting' \in SettingType(voice),
           changes' = FoldLeft(Noted, changes, run.out),
           base' + last_time' = Now + gap,
           UNCHANGED <<voice, taken, reader_accum, heard>>
    PROVE  Whole!Advance(gap) /\ VoiceType' /\ (osc \in Oscs)'
<1>1. /\ run.osc \in Oscs /\ run.osc.delay = s.timer /\ run.osc.last_amp = s.level
      /\ \/ PhaseSeen(run.osc) = s.phase
         \/ voice = "noise" /\ setting.volume = 0
      /\ Log(changes, run.out) = s.changes
  BY DEF RunsTo
<1>2. /\ osc' \in Oscs /\ osc'.delay = run.osc.delay /\ osc'.last_amp = run.osc.last_amp
      /\ PhaseSeen(osc') \in Whole!Jumps(s.phase, setting')
  BY <1>1, WrittenJumps DEF PathInv
<1>3. Phase' = PhaseSeen(osc')
  BY DEF Phase, PhaseSeen, PhaseIn, B
<1>4. changes' = s.changes
  BY <1>1 DEF Log
<1>5. Whole!Advance(gap)
  BY <1>1, <1>2, <1>3, <1>4 DEF Whole!Advance, Now
<1>6. VoiceType' /\ (osc \in Oscs)'
  BY <1>2 DEF PathInv, VoiceType, Oscs, PlayerType, PhaseType
<1> QED
  BY <1>5, <1>6

\* A piece is an Advance, or with no cycles a Settle.
LEMMA PieceSounds ==
    ASSUME SoundInv, PathInv, Piece
    PROVE  Whole!Next /\ PathInv'
<1>1. PICK gap \in Gaps :
          /\ last_time + gap <= MaxTime /\ last_time' = last_time + gap
          /\ voice = "dmc" => gap > 0
          /\ RunUntil(last_time + gap)
  BY DEF Piece
<1>2. /\ stage = "run" /\ frames < MaxFrames
      /\ UNCHANGED <<voice, setting, frame_length, stage, offset, reader_accum,
                     base, taken, heard, writes, frames>>
  BY DEF Piece
<1> DEFINE run == Run(last_time, last_time + gap)
<1>3. /\ osc' = run.osc
      /\ buffer' = FoldLeft(Spread, buffer, run.out)
      /\ changes' = FoldLeft(Noted, changes, run.out)
  BY <1>1 DEF RunUntil
<1>4. gap \in Nat /\ last_time \in Nat /\ base \in Nat
  BY SoundAssumption, Constants DEF SoundInv
<1>5. RunType(gap) /\ Now + gap \in Clock /\ LastClock \in Nat /\ Now \in Nat
  BY <1>1, <1>2, <1>4, RunsInFrame
<1>6. base' + last_time' = Now + gap
  BY <1>1, <1>2, <1>4 DEF Now
<1>7. VoiceType /\ osc \in Oscs /\ Upto(changes, Now) /\ setting \in SettingType(voice)
  BY DEF PathInv, VoiceType
<1>8. osc' \in Written(run.osc, setting)
  BY <1>3, <1>7, VoiceCases DEF Written
<1>9. CASE gap > 0
  <2> DEFINE s == Whole!Played(gap)
  <2>1. RunsTo(run, gap, s.phase, s.timer, s.level, s.changes) /\ s.phase \in PhaseType
    BY <1>5, <1>7, <1>9, RunsPlayed
  <2>2. /\ run.out \in Seq(Deltas) /\ Log(changes, run.out) \in Logs
        /\ Upto(Log(changes, run.out), Now + gap)
    BY <2>1 DEF RunsTo
  <2> HIDE DEF s, run
  <2>3. Whole!Advance(gap) /\ VoiceType' /\ (osc \in Oscs)'
    BY <1>2, <1>3, <1>4, <1>5, <1>6, <1>7, <1>8, <2>1, RunAdvances DEF s
  <2>4. (changes \in Logs)' /\ Upto(changes, Now)' /\ Holds(buffer, changes, taken)'
    BY <1>2, <1>3, <1>5, <1>6, <2>2, RunKeeps
  <2>5. gap \in Whole!Clocks
    BY <1>4, <1>5 DEF Clock, Whole!Clocks
  <2>6. PathInv'
    BY <1>2, <2>3, <2>4 DEF PathInv
  <2> QED
    BY <2>3, <2>5, <2>6 DEF Whole!Next
<1>10. CASE gap = 0
  <2> DEFINE delta == Level(Phase) - osc.last_amp
             timer == IF Whole!Counting(setting) THEN osc.delay ELSE 0
             log == Mark(changes, Now, delta)
  <2>0. last_time + gap = last_time /\ Now + gap = Now /\ RunType(0)
    BY <1>4, <1>5, <1>10
  <2>1. RunsTo(run, 0, Phase, timer, Level(Phase), log)
    <3>1. RunsTo(Run(last_time, last_time), 0, Phase, timer, Level(Phase), log)
      BY <1>1, <1>7, <1>10, <2>0, RunsSettled
    <3> QED
      BY <2>0, <3>1
  <2>2. /\ run.osc \in Oscs /\ run.osc.delay = timer /\ run.osc.last_amp = Level(Phase)
        /\ PhaseSeen(run.osc) = Phase
        /\ run.out \in Seq(Deltas) /\ Log(changes, run.out) = log
        /\ log \in Logs /\ Upto(log, Now)
    <3>1. Now + 0 = Now
      BY <1>5
    <3> HIDE DEF run, timer, log
    <3> QED
      BY <2>1, <3>1 DEF RunsTo
  <2> HIDE DEF run, timer
  <2>3. (changes \in Logs)' /\ Upto(changes, Now)' /\ Holds(buffer, changes, taken)'
    BY <1>2, <1>3, <1>5, <1>6, <2>0, <2>2, RunKeeps
  <2>4. Phase' = Phase
    <3>1. Phase' = PhaseSeen(osc')
      BY <1>2 DEF Phase, PhaseSeen, PhaseIn, B
    <3> QED
      BY <1>3, <2>2, <3>1
  <2>5. changes' = [changes EXCEPT ![base + last_time] = @ + osc'.last_amp - osc.last_amp]
    <3>0. changes \in Logs /\ Now \in Clock /\ Level(Phase) \in Int /\ osc.last_amp \in Int
      <4>1. Phase \in PhaseType /\ osc.last_amp \in Int
        BY <1>7, SeenType
      <4> QED
        BY <1>5, <1>7, <2>0, <4>1, PhaseClosed DEF PathInv, Level
    <3>1. changes' = log /\ osc'.last_amp = Level(Phase)
      BY <1>3, <2>2 DEF Log
    <3>2. \A i \in Clock : changes[i] \in Int
      BY <3>0 DEF Logs, Clock
    <3> DEFINE l == Level(Phase)
               e == osc.last_amp
    <3>3. changes[Now] + l - e = changes[Now] + delta
      BY <3>0, <3>2
    <3> HIDE DEF l, delta
    <3>4. [changes EXCEPT ![Now] = changes[Now] + delta]
            = [i \in Clock |-> IF i = Now THEN changes[i] + delta ELSE changes[i]]
      BY <3>0 DEF Logs, Clock
    <3>5. log = [i \in Clock |-> IF i = Now THEN changes[i] + delta ELSE changes[i]]
      BY DEF Mark, Clock
    <3> QED
      BY <3>1, <3>3, <3>4, <3>5 DEF l, Now
  <2>6. osc'.last_amp = Whole!LevelOf(Phase, setting)
    BY <1>3, <2>2 DEF Level
  <2>7. osc'.delay = IF Whole!Counting(setting) THEN osc.delay ELSE 0
    BY <1>3, <2>2 DEF timer
  <2>8. base' + last_time' = base + last_time
    BY <1>6, <2>0 DEF Now
  <2>9. Whole!Settle
    BY <1>2, <2>4, <2>5, <2>6, <2>7, <2>8 DEF Whole!Settle
  <2>10. VoiceType' /\ (osc \in Oscs)'
    BY <1>2, <1>3, <1>7, <2>2 DEF VoiceType, Oscs, PlayerType, PhaseType
  <2>11. PathInv'
    BY <1>2, <2>3, <2>10 DEF PathInv
  <2> QED
    BY <2>9, <2>11 DEF Whole!Next
<1> QED
  BY <1>4, <1>9, <1>10

\* A write to a register is an Advance, of no cycles at the time of the last access.
LEMMA WriteSounds ==
    ASSUME SoundInv, PathInv, WriteRegister
    PROVE  Whole!Next /\ PathInv'
<1> DEFINE run(gap) == IF gap = 0 THEN [osc |-> osc, out |-> <<>>]
                                  ELSE Run(last_time, last_time + gap)
<1>1. PICK gap \in Gaps :
          /\ last_time + gap <= MaxTime /\ last_time' = last_time + gap
          /\ osc' \in Written(run(gap).osc, setting')
          /\ buffer' = FoldLeft(Spread, buffer, run(gap).out)
          /\ changes' = FoldLeft(Noted, changes, run(gap).out)
  BY DEF WriteRegister
<1>2. /\ stage = "run" /\ frames < MaxFrames /\ setting' \in Settings(voice)
      /\ UNCHANGED <<voice, frame_length, stage, offset, reader_accum,
                     base, taken, heard, frames>>
  BY DEF WriteRegister
<1>4. gap \in Nat /\ last_time \in Nat /\ base \in Nat
  BY SoundAssumption, Constants DEF SoundInv
<1>5. RunType(gap) /\ Now + gap \in Clock /\ LastClock \in Nat /\ Now \in Nat
  BY <1>1, <1>2, <1>4, RunsInFrame
<1>6. base' + last_time' = Now + gap
  BY <1>1, <1>2, <1>4 DEF Now
<1>7. /\ VoiceType /\ osc \in Oscs /\ Upto(changes, Now) /\ changes \in Logs
      /\ setting' \in SettingType(voice) /\ setting' \in Settings(voice) \cup {setting}
  BY <1>2, VoiceAssumption DEF PathInv, VoiceType
<1> DEFINE s == Whole!Played(gap)
<1>8. RunsTo(run(gap), gap, s.phase, s.timer, s.level, s.changes) /\ s.phase \in PhaseType
  <2>1. CASE gap > 0
    <3>1. run(gap) = Run(last_time, last_time + gap)
      BY <2>1
    <3> HIDE DEF run
    <3> QED
      BY <1>5, <1>7, <2>1, <3>1, RunsPlayed
  <2>2. CASE gap = 0
    <3>1. VoiceType /\ Start \in States /\ Now + 0 <= LastClock + 1
      BY <1>5, <2>2 DEF RunType
    <3>2. PICK f \in [0..0 -> States] : f[0] = Start /\ f[0] = Whole!Played(0)
      BY <1>5, <3>1, PlayedFolds
    <3>3. s = Start
      BY <2>2, <3>2
    <3>4. /\ s.phase = Phase /\ s.timer = osc.delay /\ s.level = osc.last_amp
          /\ s.changes = changes
      <4> HIDE DEF s
      <4> QED
        BY <3>3 DEF Start
    <3>5. run(gap).osc = osc /\ run(gap).out = <<>>
      BY <2>2
    <3>6. <<>> \in Seq(Deltas)
      OBVIOUS
    <3>7. Log(changes, <<>>) = changes
      BY <1>7, <3>6, LogAppend
    <3>8. Upto(changes, Now + gap)
      BY <1>5, <1>7, <2>2
    <3>9. Phase = PhaseSeen(osc) /\ Phase \in PhaseType
      BY <1>7, SeenType
    <3> HIDE DEF s, run
    <3> QED
      BY <1>7, <3>4, <3>5, <3>6, <3>7, <3>8, <3>9 DEF RunsTo
  <2> QED
    BY <1>4, <2>1, <2>2
<1> DEFINE r == run(gap)
<1> HIDE DEF s, run
<1>9. /\ r.out \in Seq(Deltas) /\ Log(changes, r.out) \in Logs
      /\ Upto(Log(changes, r.out), Now + gap)
  BY <1>8 DEF RunsTo
<1>10. Whole!Advance(gap) /\ VoiceType' /\ (osc \in Oscs)'
  <2> HIDE DEF r
  <2>1. /\ osc' \in Written(r.osc, setting') /\ changes' = FoldLeft(Noted, changes, r.out)
        /\ RunsTo(r, gap, s.phase, s.timer, s.level, s.changes)
    BY <1>1, <1>8 DEF r
  <2> QED
    BY <1>2, <1>4, <1>5, <1>6, <1>7, <1>8, <2>1, RunAdvances DEF s
<1>11. (changes \in Logs)' /\ Upto(changes, Now)' /\ Holds(buffer, changes, taken)'
  BY <1>1, <1>2, <1>5, <1>6, <1>9, RunKeeps
<1>12. gap \in Whole!Clocks
  BY <1>4, <1>5 DEF Clock, Whole!Clocks
<1>13. PathInv'
  BY <1>2, <1>10, <1>11 DEF PathInv
<1> QED
  BY <1>10, <1>12, <1>13 DEF Whole!Next

\* The end of a frame is an Advance, or nothing, if an access has gone beyond it.
LEMMA EndSounds ==
    ASSUME SoundInv, PathInv, EndFrame
    PROVE  [Whole!Next]_(Whole!vars) /\ PathInv'
<1> DEFINE end == FlipLowBit(frame_length)
           gap == end - last_time
           run == Run(last_time, end)
<1>1. /\ stage = "run" /\ frames < MaxFrames
      /\ IF end > last_time
         THEN RunUntil(end) /\ last_time' = 0
         ELSE UNCHANGED <<osc, buffer, changes>> /\ last_time' = last_time - end
      /\ base' = base + end /\ frames' = frames + 1 /\ stage' = "read"
      /\ UNCHANGED <<voice, setting, reader_accum, taken, heard, writes>>
  BY DEF EndFrame
<1>2. /\ end \in {FrameLength, FrameLength + 1} /\ last_time \in 0..MaxTime
      /\ FrameLength \in Nat /\ Late \in Nat /\ 1 <= Late /\ MaxTime = FrameLength + Late
      /\ base \in Nat /\ taken \in Nat
  BY Constants, SMT DEF SoundInv, FlipLowBit
<1>3. /\ frames' \in 0..MaxFrames /\ base' <= frames' * (FrameLength + 1)
  <2> DEFINE f == FrameLength + 1
  <2>1. frames \in 0..MaxFrames /\ base <= frames * f /\ MaxFrames \in Nat
    BY SoundAssumption DEF PathInv
  <2>2. f \in Nat /\ frames \in Nat /\ end <= f /\ end \in Nat
    BY <1>2, <2>1
  <2> HIDE DEF f, end
  <2>3. (frames + 1) * f = frames * f + 1 * f /\ frames * f \in Nat /\ 1 * f = f
    BY <2>2, Products
  <2>4. base' <= frames' * f
    <3> DEFINE x == frames * f
    <3>1. x \in Nat /\ frames' * f = x + f /\ base <= x
      BY <1>1, <2>1, <2>3
    <3> HIDE DEF x
    <3> QED
      BY <1>1, <1>2, <2>2, <3>1
  <2> QED
    BY <1>1, <2>1, <2>4 DEF f
<1>4. last_time' <= Late
  BY <1>1, <1>2
<1>5. CASE end > last_time
  <2>1. /\ gap \in Nat /\ gap > 0 /\ last_time + gap = end /\ last_time + gap <= MaxTime
        /\ last_time \in Nat
    BY <1>2, <1>5
  <2>2. base' + last_time' = Now + gap
    BY <1>1, <1>2, <1>5 DEF Now
  <2> HIDE DEF gap
  <2>3. RunType(gap) /\ Now + gap \in Clock /\ LastClock \in Nat /\ Now \in Nat
    BY <1>1, <2>1, RunsInFrame
  <2>4. /\ VoiceType /\ osc \in Oscs /\ Upto(changes, Now)
        /\ setting \in SettingType(voice) /\ setting' = setting
    BY <1>1 DEF PathInv, VoiceType
  <2>5. /\ osc' = run.osc
        /\ buffer' = FoldLeft(Spread, buffer, run.out)
        /\ changes' = FoldLeft(Noted, changes, run.out)
    BY <1>1, <1>5 DEF RunUntil
  <2>6. osc' \in Written(run.osc, setting)
    BY <2>4, <2>5, VoiceCases DEF Written
  <2> DEFINE s == Whole!Played(gap)
  <2>7. RunsTo(run, gap, s.phase, s.timer, s.level, s.changes) /\ s.phase \in PhaseType
    <3>1. run = Run(last_time, last_time + gap)
      BY <2>1
    <3> HIDE DEF run
    <3> QED
      BY <2>1, <2>3, <2>4, <3>1, RunsPlayed
  <2> HIDE DEF run, s
  <2>8. /\ run.out \in Seq(Deltas) /\ Log(changes, run.out) \in Logs
        /\ Upto(Log(changes, run.out), Now + gap)
    BY <2>7 DEF RunsTo
  <2>9. Whole!Advance(gap) /\ VoiceType' /\ (osc \in Oscs)'
    BY <1>1, <2>1, <2>2, <2>3, <2>4, <2>5, <2>6, <2>7, RunAdvances DEF s
  <2>10. (changes \in Logs)' /\ Upto(changes, Now)' /\ Holds(buffer, changes, taken)'
    BY <1>1, <2>2, <2>3, <2>5, <2>8, RunKeeps
  <2>11. gap \in Whole!Clocks
    BY <2>1, <2>3 DEF Clock, Whole!Clocks
  <2>12. PathInv'
    BY <1>1, <1>3, <1>4, <2>9, <2>10 DEF PathInv
  <2> QED
    BY <2>9, <2>11, <2>12 DEF Whole!Next
<1>6. CASE ~(end > last_time)
  <2>1. UNCHANGED <<osc, buffer, changes>> /\ base' + last_time' = base + last_time
    BY <1>1, <1>2, <1>6
  <2>2. UNCHANGED Whole!vars
    BY <1>1, <2>1 DEF Whole!vars, Phase
  <2>3. VoiceType' /\ (osc \in Oscs)'
    BY <1>1, <2>1 DEF PathInv, VoiceType, Oscs, PlayerType, PhaseType
  <2>4. (changes \in Logs)' /\ Upto(changes, Now)' /\ Holds(buffer, changes, taken)'
    BY <1>1, <2>1 DEF PathInv, Upto, Now, Holds
  <2>5. (reader_accum \in Int)'
    BY <1>1 DEF PathInv
  <2> QED
    BY <1>3, <1>4, <2>2, <2>3, <2>4, <2>5 DEF PathInv
<1> QED
  BY <1>5, <1>6

\* At the beginning the buffer is empty and nothing has been heard.
LEMMA InitSounds ==
    ASSUME PathInit
    PROVE  Whole!Init /\ PathInv
<1>1. /\ voice \in Voices /\ setting = ResetSetting(voice) /\ osc = ResetOsc(voice)
      /\ last_time = 0 /\ stage = "run" /\ buffer = [i \in Cells |-> 0]
      /\ reader_accum = 0 /\ base = 0 /\ changes = [c \in 0..LastClock |-> 0]
      /\ taken = 0 /\ heard = <<>> /\ frames = 0
  BY DEF PathInit
<1>2. /\ TriangleRange \in Nat \ {0} /\ 2^NoiseTop \in Nat \ {0} /\ MaxDac \in Nat
      /\ SlowestDmc \in Nat \ {0} /\ B \in Nat \ {0} /\ MaxFrames \in Nat
      /\ FrameLength \in Nat /\ Late \in Nat
  BY SoundAssumption, VoiceAssumption, OscillatorAssumption DEF B
<1>3. voice \in {"square", "triangle", "noise", "dmc"}
  BY <1>1, SoundAssumption
<1>4. LastClock \in Nat
  <2> DEFINE f == FrameLength + 1
  <2>1. f \in Nat
    BY <1>2
  <2> HIDE DEF f
  <2>2. MaxFrames * f \in Nat
    BY <1>2, <2>1, Products
  <2> QED
    BY <1>2, <2>2 DEF LastClock, f
<1>5. setting \in SettingType(voice) /\ osc \in Oscs
  <2>1. CASE voice = "square"
    BY <1>1, <2>1 DEF ResetSetting, ResetOsc, SettingType, Oscs, PhaseType, SquareRange
  <2>2. CASE voice = "triangle"
    BY <1>1, <1>2, <2>2 DEF ResetSetting, ResetOsc, SettingType, Oscs, PhaseType
  <2>3. CASE voice = "noise"
    <3>1. 2^NoiseTop \in 0..(2 * 2^NoiseTop - 1)
      <4> DEFINE h == 2^NoiseTop
      <4>1. h \in Nat \ {0}
        BY <1>2
      <4> HIDE DEF h
      <4>2. h \in 0..(2 * h - 1)
        BY <4>1
      <4> QED
        BY <4>2 DEF h
    <3> QED
      BY <1>1, <2>3, <3>1 DEF ResetSetting, ResetOsc, SettingType, Oscs, PhaseType
  <2>4. CASE voice = "dmc"
    BY <1>1, <1>2, <2>4 DEF ResetSetting, ResetOsc, SettingType, Oscs, PlayerType
  <2> QED
    BY <1>3, <2>1, <2>2, <2>3, <2>4
<1>6. VoiceType
  BY <1>1, <1>5 DEF VoiceType
<1>7. changes \in Logs /\ Upto(changes, Now)
  BY <1>1 DEF Logs, Upto, Clock
<1>8. Holds(buffer, changes, taken)
  <2>1. ASSUME NEW i \in Cells PROVE buffer[i] = Heard(changes, taken + i)
    <3>1. taken + i \in Int /\ buffer[i] = 0
      BY <1>1, BufferSizes
    <3>2. \A c \in Clock : changes[c] = 0
      BY <1>1 DEF Clock
    <3>3. Heard(changes, taken + i) = 0
      BY <1>4, <1>7, <3>1, <3>2, HeardNothing, ShareType
    <3> QED
      BY <3>1, <3>3
  <2>2. buffer \in Bufs
    BY <1>1 DEF Bufs
  <2> QED
    BY <2>1, <2>2 DEF Holds
<1>9. base <= frames * (FrameLength + 1) /\ frames \in 0..MaxFrames
  <2>1. 0 * (FrameLength + 1) = 0
    BY <1>2
  <2> QED
    BY <1>1, <1>2, <2>1
<1>10. PathInv
  BY <1>1, <1>5, <1>6, <1>7, <1>8, <1>9 DEF PathInv
<1>11. base + last_time = 0 /\ osc.delay = 0
  BY <1>1, <1>3 DEF ResetOsc
<1>12. /\ Phase = CASE voice = "square"   -> 7
                    [] voice = "triangle" -> 1
                    [] voice = "noise"    -> 2^NoiseTop
                    [] voice = "dmc"      ->
                         [dac |-> 0, bit |-> BitsPerByte - 1, on |-> FALSE, bytes |-> 0]
       /\ osc.last_amp = IF voice = "triangle" THEN TriangleRange - 1 ELSE 0
  <2>1. CASE voice = "square"
    BY <1>1, <2>1 DEF ResetOsc, Phase, SquareRange
  <2>2. CASE voice = "triangle"
    BY <1>1, <2>2 DEF ResetOsc, Phase
  <2>3. CASE voice = "noise"
    BY <1>1, <2>3 DEF ResetOsc, Phase
  <2>4. CASE voice = "dmc"
    <3>1. /\ osc.dac = 0 /\ osc.bits = 1 /\ osc.silence = TRUE /\ osc.full = FALSE
          /\ osc.len = 0 /\ osc.last_amp = 0
      BY <1>1, <2>4 DEF ResetOsc
    <3>2. 0 + (IF osc.full THEN 1 ELSE 0) = 0 /\ (~osc.silence) = FALSE
      BY <3>1
    <3>3. Phase = [dac |-> 0, bit |-> BitsPerByte - 1, on |-> FALSE, bytes |-> 0]
      BY <2>4, <3>1, <3>2 DEF Phase
    <3> QED
      BY <2>4, <3>1, <3>3
  <2> QED
    BY <1>3, <2>1, <2>2, <2>3, <2>4
<1>13. Whole!Init
  BY <1>1, <1>11, <1>12 DEF Whole!Init, Whole!Clocks
<1> QED
  BY <1>10, <1>13

\* What is heard, sample by sample, is what the oscillator would have played had it
\* been run cycle by cycle and never been cut by an access, a frame or a read: the
\* way of a sound implements Sound, for every rate, size of the buffer, setting and
\* timing of accesses.
THEOREM SoundIsHeard == PathSpec => SoundSpec
<1>1. PathInit => Whole!Init /\ PathInv
  BY InitSounds
<1>2. SoundInv /\ PathInv /\ [PathNext]_pathVars => [Whole!Next]_(Whole!vars) /\ PathInv'
  <2> SUFFICES ASSUME SoundInv, PathInv, [PathNext]_pathVars
               PROVE  [Whole!Next]_(Whole!vars) /\ PathInv'
    OBVIOUS
  <2>1. CASE Piece
    BY <2>1, PieceSounds
  <2>2. CASE WriteRegister
    BY <2>2, WriteSounds
  <2>3. CASE EndFrame
    BY <2>3, EndSounds
  <2>4. CASE ReadSamples
    BY <2>4, ReadPlays DEF Whole!Next
  <2>5. CASE Done \/ UNCHANGED pathVars
    <3>1. UNCHANGED pathVars
      BY <2>5 DEF Done
    <3>2. UNCHANGED Whole!vars
      BY <3>1 DEF Whole!vars, Phase, pathVars, apuVars, bufVars
    <3>3. PathInv'
      <4>1. VoiceType' /\ (osc \in Oscs)'
        BY <3>1 DEF PathInv, VoiceType, Oscs, PlayerType, PhaseType, pathVars, apuVars, bufVars
      <4>2. Upto(changes, Now)' /\ Holds(buffer, changes, taken)'
        BY <3>1 DEF PathInv, Upto, Holds, Now, pathVars, apuVars, bufVars
      <4> QED
        BY <3>1, <4>1, <4>2 DEF PathInv, pathVars, apuVars, bufVars
    <3> QED
      BY <3>2, <3>3
  <2> QED
    BY <2>1, <2>2, <2>3, <2>4, <2>5 DEF PathNext
<1> QED
  BY <1>1, <1>2, SoundInvariant, PTL DEF PathSpec, SoundSpec, Whole!Spec
=============================================================================
