------------------------------ MODULE CpuProofs ------------------------------
(***************************************************************************)
(* Proofs about Cpu, for every program, every size of the RAM that holds   *)
(* the stack and every answer of a device: a step keeps the machine in its *)
(* types, adds and compares as integers do, and takes the cycles and makes *)
(* the accesses that FrameLoop counts on; and a return resumes what a call *)
(* or an interrupt left.  The opcode table enters by the few facts that    *)
(* all its entries share.                                                  *)
(***************************************************************************)
EXTENDS Cpu, SequenceTheorems, TLAPS

-----------------------------------------------------------------------------
(* Bytes and words.                                                        *)

\* The ranges as inequalities.
LEMMA Ranges ==
    /\ \A n : n \in Byte <=> n \in Int /\ 0 <= n /\ n <= 255
    /\ \A n : n \in Word <=> n \in Int /\ 0 <= n /\ n <= 65535
<1>1. \A n : n \in Byte <=> n \in Int /\ 0 <= n /\ n <= 255
  BY DEF Byte
<1>2. MaxWord \in Int /\ 65535 <= MaxWord /\ MaxWord <= 65535
  BY DEF MaxWord
<1>3. \A n : n \in Word <=> n \in Int /\ 0 <= n /\ n <= 65535
  BY <1>2 DEF Word
<1> QED
  BY <1>1, <1>3

\* A condition counts as 0 or 1.
LEMMA NumIs == ASSUME NEW b PROVE Num(b) \in {0, 1} /\ (b => Num(b) = 1) /\ (~b => Num(b) = 0)
BY DEF Num

\* Conversions cut to the width, and leave alone what fits.
LEMMA Cut ==
    ASSUME NEW n \in Int
    PROVE  /\ B8(n) \in Byte /\ W16(n) \in Word
           /\ n \in Byte => B8(n) = n
BY Ranges DEF B8, W16

\* The two bytes of a word.
LEMMA Halves ==
    ASSUME NEW w \in Word
    PROVE  Lo(w) \in Byte /\ Hi(w) \in Byte
BY Ranges DEF Lo, Hi

\* Two bytes make a word.
LEMMA Joined ==
    ASSUME NEW p \in Byte, NEW q \in Byte
    PROVE  WordOf(p, q) \in Word
BY Ranges DEF WordOf

\* The bitwise operators give bytes.
LEMMA ByteOfBits == ASSUME NEW bits PROVE ByteOf(bits) \in Byte
<1>1. PICK b \in [Nat -> Int] : \A i \in Nat : b[i] = Num(i \in bits) /\ 0 <= b[i] /\ b[i] <= 1
  <2> DEFINE b == [i \in Nat |-> Num(i \in bits)]
  <2>1. \A i \in Nat : Num(i \in bits) \in Int /\ 0 <= Num(i \in bits) /\ Num(i \in bits) <= 1
    BY NumIs
  <2>2. b \in [Nat -> Int] /\ \A i \in Nat : b[i] = Num(i \in bits) /\ 0 <= b[i] /\ b[i] <= 1
    BY <2>1
  <2> QED
    BY <2>2
<1>2. ByteOf(bits) = 1 * b[0] + 2 * b[1] + 4 * b[2] + 8 * b[3]
                     + 16 * b[4] + 32 * b[5] + 64 * b[6] + 128 * b[7]
  BY <1>1 DEF ByteOf
<1>3. /\ b[0] \in Int /\ 0 <= b[0] /\ b[0] <= 1 /\ b[1] \in Int /\ 0 <= b[1] /\ b[1] <= 1
      /\ b[2] \in Int /\ 0 <= b[2] /\ b[2] <= 1 /\ b[3] \in Int /\ 0 <= b[3] /\ b[3] <= 1
      /\ b[4] \in Int /\ 0 <= b[4] /\ b[4] <= 1 /\ b[5] \in Int /\ 0 <= b[5] /\ b[5] <= 1
      /\ b[6] \in Int /\ 0 <= b[6] /\ b[6] <= 1 /\ b[7] \in Int /\ 0 <= b[7] /\ b[7] <= 1
  BY <1>1
<1> QED
  BY <1>2, <1>3, Ranges

\* The operators of the arithmetic give bytes.
LEMMA Bitwise ==
    ASSUME NEW p \in Byte, NEW q \in Byte
    PROVE  /\ And(p, q) \in Byte /\ Or(p, q) \in Byte /\ Xor(p, q) \in Byte
           /\ Not(p) \in Byte
<1>1. And(p, q) \in Byte /\ Or(p, q) \in Byte /\ Xor(p, q) \in Byte
  BY ByteOfBits DEF And, Or, Xor
<1>2. Not(p) \in Byte
  BY Ranges DEF Not
<1> QED
  BY <1>1, <1>2

\* A bit is a condition.
LEMMA BitIsBoolean == \A b, i : BitOf(b, i) \in BOOLEAN
BY DEF BitOf

-----------------------------------------------------------------------------
(* The address space.                                                      *)

Memory == [0..(RamSize - 1) -> Byte]

RamAddresses == {addr \in Word : addr < 8192}

\* An address below 0x2000 is in the RAM, and no device listens there.
LEMMA RamAddress ==
    ASSUME NEW addr \in RamAddresses
    PROVE  Region(addr) = 0 /\ WriteReg(addr) = "none" /\ ReadReg(addr) = "none"
<1>1. Region(addr) = 0
  BY Ranges DEF Region, RamAddresses
<1>2. /\ addr \notin (16384..16403) \cup {16405, 16407}
      /\ addr # 16404 /\ addr # 16406 /\ addr # 16407
  BY Ranges DEF RamAddresses
<1> QED
  BY <1>1, <1>2 DEF WriteReg, ReadReg

\* Mem::get returns a byte for every address.
LEMMA GetByte ==
    ASSUME NEW ram \in Memory, NEW input \in Byte, NEW addr \in Word
    PROVE  Get(ram, input, addr) \in Byte
<1>0. addr \in Nat /\ addr <= 65535 /\ addr <= MaxWord
  BY Ranges DEF Word
<1>1. CASE Region(addr) = 0
  <2>1. addr % RamSize \in 0..(RamSize - 1)
    BY <1>0, MemAssumption
  <2>2. ram[addr % RamSize] \in Byte
    BY <2>1 DEF Memory
  <2> QED
    BY <1>1, <2>2 DEF Get
<1>2. CASE Region(addr) # 0 /\ Region(addr) >= 4
  <2>1. addr \in 32768..MaxWord
    BY <1>0, <1>2 DEF Region
  <2> QED
    BY <1>2, <2>1, MemAssumption DEF Get
<1>3. CASE Region(addr) # 0 /\ ~(Region(addr) >= 4)
  <2>1. 0 \in Byte
    BY Ranges
  <2> QED
    BY <1>3, <2>1 DEF Get
<1> QED
  BY <1>1, <1>2, <1>3

\* Mem::set changes no more than a byte of the RAM.
LEMMA SetMemory ==
    ASSUME NEW ram \in Memory, NEW addr \in Word, NEW data \in Byte
    PROVE  Set(ram, addr, data) \in Memory
BY DEF Set, Memory

-----------------------------------------------------------------------------
(* The opcode table.                                                       *)

Modes == {"IMP", "IMM", "ZP", "REL", "ZPX", "ZPY", "IZX", "IZY", "IZYr",
          "ABS", "ABX", "ABXr", "ABY", "ABYr", "IND"}

ZeroPage == {"ZP", "ZPX", "ZPY"}
Penalised == {"IZYr", "ABXr", "ABYr"}

\* What the proofs need of an entry: 2 to 8 cycles, and no more than 7 where a
\* penalty can follow; branches, which can have two, take 2; an instruction
\* of less than 4 cycles stores to the zero page only.
EntryFits(e) ==
    /\ e[2] \in Modes /\ e[3] \in 2..8
    /\ e[2] \in Penalised => e[3] <= 7
    /\ e[1] \in BranchOps => e[2] = "REL" /\ e[3] = 2
    /\ e[1] \in StoreOps \cup ModifyOps => e[2] \in ZeroPage \/ e[3] >= 4

\* The four parts of the table, entry by entry.
LEMMA Fits00 == \A i \in 1..64 : EntryFits(Codes00[i])
BY SMTT(60) DEF Codes00, EntryFits, Modes, ZeroPage, Penalised, BranchOps, StoreOps, ModifyOps

\* The second quarter of the table ...
LEMMA Fits40 == \A i \in 1..64 : EntryFits(Codes40[i])
BY SMTT(60) DEF Codes40, EntryFits, Modes, ZeroPage, Penalised, BranchOps, StoreOps, ModifyOps

\* ... the third ...
LEMMA Fits80 == \A i \in 1..64 : EntryFits(Codes80[i])
BY SMTT(60) DEF Codes80, EntryFits, Modes, ZeroPage, Penalised, BranchOps, StoreOps, ModifyOps

\* ... and the last.
LEMMA FitsC0 == \A i \in 1..64 : EntryFits(CodesC0[i])
BY SMTT(60) DEF CodesC0, EntryFits, Modes, ZeroPage, Penalised, BranchOps, StoreOps, ModifyOps

\* The length of a part; the provers go through the numbers of a range whose
\* ends they see.
Quarter == 64

\* Each part of the table is a sequence over what holds its entries.
LEMMA TableParts ==
    ASSUME NEW S, \A i \in 1..64 : /\ Codes00[i] \in S /\ Codes40[i] \in S
                                   /\ Codes80[i] \in S /\ CodesC0[i] \in S
    PROVE  /\ Codes00 \in Seq(S) /\ Codes40 \in Seq(S)
           /\ Codes80 \in Seq(S) /\ CodesC0 \in Seq(S)
           /\ Len(Codes00) = Quarter /\ Len(Codes40) = Quarter
           /\ Len(Codes80) = Quarter /\ Len(CodesC0) = Quarter
<1>1. Codes00 \in Seq(S) /\ Len(Codes00) = Quarter
  BY DEF Codes00, Quarter
<1>2. Codes40 \in Seq(S) /\ Len(Codes40) = Quarter
  BY DEF Codes40, Quarter
<1>3. Codes80 \in Seq(S) /\ Len(Codes80) = Quarter
  BY DEF Codes80, Quarter
<1>4. CodesC0 \in Seq(S) /\ Len(CodesC0) = Quarter
  BY DEF CodesC0, Quarter
<1> QED
  BY <1>1, <1>2, <1>3, <1>4, Zenon

\* Sequences of S appended are one of S, as long as both.
LEMMA Appended ==
    ASSUME NEW S, NEW s \in Seq(S), NEW t \in Seq(S)
    PROVE  s \o t \in Seq(S) /\ Len(s \o t) = Len(s) + Len(t)
OBVIOUS

\* Every byte has an entry that fits.
LEMMA Table == \A byte \in Byte : EntryFits(Codes[byte + 1])
<1> DEFINE I == 1..64
           S == UNION {{Codes00[i], Codes40[i], Codes80[i], CodesC0[i]} : i \in I}
<1>0. \A i \in I : /\ EntryFits(Codes00[i]) /\ EntryFits(Codes40[i])
                   /\ EntryFits(Codes80[i]) /\ EntryFits(CodesC0[i])
  BY Fits00, Fits40, Fits80, FitsC0, Zenon
<1> HIDE DEF I
<1>1. ASSUME NEW e \in S PROVE EntryFits(e)
  <2>1. PICK i \in I : \/ e = Codes00[i] \/ e = Codes40[i]
                      \/ e = Codes80[i] \/ e = CodesC0[i]
    OBVIOUS
  <2> QED
    BY <1>0, <2>1, Zenon
<1>2. \A i \in 1..64 : /\ Codes00[i] \in S /\ Codes40[i] \in S
                       /\ Codes80[i] \in S /\ CodesC0[i] \in S
  <2>1. \A i \in I : /\ Codes00[i] \in S /\ Codes40[i] \in S
                     /\ Codes80[i] \in S /\ CodesC0[i] \in S
    BY Zenon
  <2> QED
    BY <2>1, Zenon DEF I
<1> HIDE DEF S
<1>3. /\ Codes00 \in Seq(S) /\ Codes40 \in Seq(S)
      /\ Codes80 \in Seq(S) /\ CodesC0 \in Seq(S)
      /\ Len(Codes00) = Quarter /\ Len(Codes40) = Quarter
      /\ Len(Codes80) = Quarter /\ Len(CodesC0) = Quarter
  BY <1>2, TableParts, Zenon
<1> DEFINE two == Codes00 \o Codes40
           three == two \o Codes80
           all == three \o CodesC0
<1> HIDE DEF two, three, all
<1>4. two \in Seq(S) /\ Len(two) = Len(Codes00) + Len(Codes40)
  BY <1>3, Appended DEF two
<1>5. three \in Seq(S) /\ Len(three) = Len(two) + Len(Codes80)
  BY <1>3, <1>4, Appended DEF three
<1>6. all \in Seq(S) /\ Len(all) = Len(three) + Len(CodesC0)
  BY <1>3, <1>5, Appended DEF all
<1>7. Codes = all
  BY DEF Codes, all, three, two
<1>8. Len(all) = Quarter + Quarter + Quarter + Quarter
  BY <1>3, <1>4, <1>5, <1>6, Zenon
<1>9. ASSUME NEW byte \in Byte PROVE EntryFits(Codes[byte + 1])
  <2>1. byte + 1 \in 1..(Quarter + Quarter + Quarter + Quarter)
    BY Ranges DEF Quarter
  <2>2. all[byte + 1] \in S
    BY <1>6, <1>8, <2>1, ElementOfSeq, Zenon
  <2> QED
    BY <1>1, <1>7, <2>2
<1> QED
  BY <1>9

-----------------------------------------------------------------------------
(* The machine.                                                            *)

\* The names of the devices' registers.
RegNames ==
    {"none", "status", "data", "pad1", "pad2", "ctrl0", "ctrl1", "oamaddr",
     "oamdata", "scroll", "addr", "apu", "dma", "strobe"}

Access == {"get", "set"} \X RegNames

Machine ==
    [a : Byte, x : Byte, y : Byte, sp : Byte, pc : Word,
     n : BOOLEAN, v : BOOLEAN, d : BOOLEAN, i : BOOLEAN, z : BOOLEAN, c : BOOLEAN,
     clock : Nat, ram : Memory, bus : Seq(Access), input : Byte]

\* t is a machine that has spent what s has, and accessed what s has.
Keeps(t, s) ==
    /\ t \in Machine
    /\ t.clock = s.clock /\ t.bus = s.bus /\ t.input = s.input

\* What two steps keep, both together keep.
LEMMA KeepsOn ==
    ASSUME NEW s, NEW t, NEW u, Keeps(t, s), Keeps(u, t)
    PROVE  Keeps(u, s)
BY DEF Keeps

\* Assignments to registers.
LEMMA Registered ==
    ASSUME NEW s \in Machine, NEW b \in Byte
    PROVE  /\ Keeps(s, s)
           /\ Keeps([s EXCEPT !.a = b], s) /\ Keeps([s EXCEPT !.x = b], s)
           /\ Keeps([s EXCEPT !.y = b], s) /\ Keeps([s EXCEPT !.sp = b], s)
<1>1. Keeps(s, s)
  BY DEF Keeps
<1>2. Keeps([s EXCEPT !.a = b], s)
  BY DEF Keeps, Machine
<1>3. Keeps([s EXCEPT !.x = b], s)
  BY DEF Keeps, Machine
<1>4. Keeps([s EXCEPT !.y = b], s)
  BY DEF Keeps, Machine
<1>5. Keeps([s EXCEPT !.sp = b], s)
  BY DEF Keeps, Machine
<1> QED
  BY <1>1, <1>2, <1>3, <1>4, <1>5, Zenon

\* An assignment to the program counter.
LEMMA Jumped ==
    ASSUME NEW s \in Machine, NEW w \in Word
    PROVE  Keeps([s EXCEPT !.pc = w], s)
BY DEF Keeps, Machine

\* Assignments to flags.
LEMMA Flagged ==
    ASSUME NEW s \in Machine, NEW f \in BOOLEAN, NEW g \in BOOLEAN
    PROVE  /\ Keeps([s EXCEPT !.c = f], s) /\ Keeps([s EXCEPT !.d = f], s)
           /\ Keeps([s EXCEPT !.i = f], s) /\ Keeps([s EXCEPT !.v = f], s)
           /\ Keeps([s EXCEPT !.z = f, !.n = g], s)
<1>1. Keeps([s EXCEPT !.c = f], s)
  BY DEF Keeps, Machine
<1>2. Keeps([s EXCEPT !.d = f], s)
  BY DEF Keeps, Machine
<1>3. Keeps([s EXCEPT !.i = f], s)
  BY DEF Keeps, Machine
<1>4. Keeps([s EXCEPT !.v = f], s)
  BY DEF Keeps, Machine
<1>5. Keeps([s EXCEPT !.z = f, !.n = g], s)
  BY DEF Keeps, Machine
<1> QED
  BY <1>1, <1>2, <1>3, <1>4, <1>5, Zenon

\* Two flags at once.
LEMMA TwoFlagged ==
    ASSUME NEW s \in Machine, NEW f \in BOOLEAN, NEW g \in BOOLEAN
    PROVE  Keeps([s EXCEPT !.c = f, !.v = g], s)
BY DEF Keeps, Machine

\* The zero and the negative flag of a result.
LEMMA ZeroNegative ==
    ASSUME NEW s \in Machine, NEW r \in Int
    PROVE  Keeps(set_zero_and_ng(s, r), s)
<1>1. (B8(r) = 0) \in BOOLEAN /\ Neg(B8(r)) \in BOOLEAN
  BY DEF Neg
<1> QED
  BY <1>1, Flagged, Zenon DEF set_zero_and_ng

\* A result in a register.
LEMMA Loaded ==
    ASSUME NEW s \in Machine, NEW v \in Int
    PROVE  Keeps(SetA(s, v), s) /\ Keeps(SetX(s, v), s) /\ Keeps(SetY(s, v), s)
<1>1. Trunc(v) \in Byte
  BY Cut DEF Trunc
<1>2. ASSUME NEW t, Keeps(t, s) PROVE Keeps(set_zero_and_ng(t, v), s)
  BY <1>2, ZeroNegative, KeepsOn, Zenon DEF Keeps
<1> QED
  BY <1>1, <1>2, Registered, Zenon DEF SetA, SetX, SetY

\* The carry, the overflow and the sum.
LEMMA Summed ==
    ASSUME NEW s \in Machine, NEW f \in BOOLEAN, NEW g \in BOOLEAN, NEW b \in Byte
    PROVE  Keeps([s EXCEPT !.c = f, !.v = g, !.a = b], s)
BY DEF Keeps, Machine

\* ADC and SBC.
LEMMA Added ==
    ASSUME NEW s \in Machine, NEW v \in Byte
    PROVE  Keeps(Adc(s, v), s) /\ Keeps(Sbc(s, v), s)
<1>1. ASSUME NEW w \in Byte PROVE Keeps(Adc(s, w), s)
  <2> DEFINE r == AddC(s.a, w, s.c)
             t == [s EXCEPT !.c = (r > 255), !.v = Overflow(s.a, w, r), !.a = Trunc(r)]
  <2>1. r \in Int
    BY NumIs, Ranges DEF AddC, Machine
  <2>2. (r > 255) \in BOOLEAN /\ Overflow(s.a, w, r) \in BOOLEAN /\ Trunc(r) \in Byte
    BY <2>1, Cut DEF Overflow, Trunc
  <2>3. Adc(s, w) = set_zero_and_ng(t, r)
    BY DEF Adc
  <2> HIDE DEF r
  <2>4. Keeps(t, s)
    BY <2>2, Summed, Zenon
  <2> HIDE DEF t
  <2>5. Keeps(set_zero_and_ng(t, r), t)
    BY <2>1, <2>4, ZeroNegative, Zenon DEF Keeps
  <2> QED
    BY <2>3, <2>4, <2>5, KeepsOn, Zenon
<1> QED
  BY <1>1, Bitwise DEF Sbc

\* CMP, CPX and CPY, before the operand is cut.
LEMMA Compared ==
    ASSUME NEW s \in Machine, NEW reg \in Byte, NEW v \in Int
    PROVE  Keeps(Compare(s, reg, v), s)
<1> DEFINE r == AddC(reg, Not(v), TRUE)
           t == [s EXCEPT !.c = (r > 255)]
<1>1. r \in Int
  <2>1. r = reg + (255 - v) + 1
    BY DEF AddC, Not, Num
  <2>2. reg \in Int
    BY Ranges
  <2> HIDE DEF r
  <2> QED
    BY <2>1, <2>2
<1>2. Compare(s, reg, v) = set_zero_and_ng(t, r)
  BY DEF Compare
<1>3. (r > 255) \in BOOLEAN
  OBVIOUS
<1> HIDE DEF r
<1>4. Keeps(t, s)
  BY <1>3, Flagged, Zenon
<1> HIDE DEF t
<1>5. Keeps(set_zero_and_ng(t, r), t)
  BY <1>1, <1>4, ZeroNegative, Zenon DEF Keeps
<1> QED
  BY <1>2, <1>4, <1>5, KeepsOn, Zenon

\* The shifts; the result may be wider than a byte.
LEMMA Shifted ==
    ASSUME NEW v \in Byte, NEW f
    PROVE  /\ ShiftL(v, f).r \in Nat /\ ShiftL(v, f).c \in BOOLEAN
           /\ ShiftR(v, f).r \in Byte /\ ShiftR(v, f).c \in BOOLEAN
<1>1. /\ ShiftL(v, f).r = 2 * v + Num(f) /\ ShiftR(v, f).r = v \div 2 + 128 * Num(f)
      /\ ShiftL(v, f).c = (2 * v > 255) /\ ShiftR(v, f).c = (v % 2 = 1)
  BY DEF ShiftL, ShiftR
<1>2. v \in Nat /\ 0 <= v \div 2 /\ v \div 2 <= 127 /\ v \div 2 \in Int
  BY Ranges
<1>3. Num(f) \in Int /\ 0 <= Num(f) /\ Num(f) <= 1
  BY NumIs
<1>4. 2 * v + Num(f) \in Nat /\ v \div 2 + 128 * Num(f) \in Byte
  BY <1>2, <1>3, Ranges
<1>5. (2 * v > 255) \in BOOLEAN /\ (v % 2 = 1) \in BOOLEAN
  OBVIOUS
<1> QED
  BY <1>1, <1>4, <1>5

Shifts == {"ASL", "ASLA", "SLO", "ROL", "ROLA", "RLA", "LSR", "LSRA", "SRE", "ROR", "RORA", "RRA"}

\* A shift gives a number and the bit shifted out.
LEMMA ShiftType ==
    ASSUME NEW op \in Shifts, NEW v \in Byte, NEW f
    PROVE  Shift(op, v, f).r \in Nat /\ Shift(op, v, f).c \in BOOLEAN
<1>1. Byte \subseteq Nat
  BY Ranges
<1>2. CASE op \in {"ASL", "ASLA", "SLO"}
  BY <1>2, Shifted DEF Shift
<1>3. CASE op \in {"ROL", "ROLA", "RLA"}
  BY <1>3, Shifted DEF Shift
<1>4. CASE op \in {"LSR", "LSRA", "SRE"}
  BY <1>1, <1>4, Shifted DEF Shift
<1>5. CASE op \in {"ROR", "RORA", "RRA"}
  BY <1>1, <1>5, Shifted DEF Shift
<1> QED
  BY <1>2, <1>3, <1>4, <1>5 DEF Shifts

-----------------------------------------------------------------------------
(* Memory and stack.                                                       *)

\* Every address has the register of a device, or none.
LEMMA Named ==
    ASSUME NEW addr \in Word
    PROVE  ReadReg(addr) \in RegNames /\ WriteReg(addr) \in RegNames
<1>0. addr \in Int
  BY Ranges
<1>1. ReadReg(addr) \in RegNames
  <2>1. ReadReg(addr) \in {"status", "data", "pad1", "pad2", "none"}
    BY SMT DEF ReadReg
  <2> QED
    BY <2>1, Zenon DEF RegNames
<1>2. ASSUME Region(addr) = 1
      PROVE  WriteReg(addr) \in RegNames
  <2>1. PICK k \in Int : k = (addr % 8) + 1 /\ 1 <= k /\ k <= 8
    BY Ranges
  <2>2. PpuRegs[k] \in RegNames
    <3>1. k = 1 \/ k = 2 \/ k = 3 \/ k = 4 \/ k = 5 \/ k = 6 \/ k = 7 \/ k = 8
      BY <2>1
    <3>2. /\ PpuRegs[1] \in RegNames /\ PpuRegs[2] \in RegNames /\ PpuRegs[3] \in RegNames
          /\ PpuRegs[4] \in RegNames /\ PpuRegs[5] \in RegNames /\ PpuRegs[6] \in RegNames
          /\ PpuRegs[7] \in RegNames /\ PpuRegs[8] \in RegNames
      BY DEF PpuRegs, RegNames
    <3> QED
      BY <3>1, <3>2
  <2>3. WriteReg(addr) = PpuRegs[(addr % 8) + 1]
    <3>1. 8192 <= addr /\ addr < 16384
      BY <1>0, <1>2 DEF Region
    <3>2. /\ addr \notin (16384..16403) \cup {16405, 16407}
          /\ addr # 16404 /\ addr # 16406
      BY <1>0, <3>1
    <3> QED
      BY <1>2, <3>2, SMT DEF WriteReg
  <2> QED
    BY <2>1, <2>2, <2>3, Zenon
<1>3. ASSUME Region(addr) # 1
      PROVE  WriteReg(addr) \in RegNames
  <2>1. WriteReg(addr) \in {"apu", "dma", "strobe", "none"}
    BY <1>3, SMT DEF WriteReg
  <2> QED
    BY <2>1, Zenon DEF RegNames
<1> QED
  BY <1>1, <1>2, <1>3

\* What the machine reads is a byte.
LEMMA ReadByte ==
    ASSUME NEW s \in Machine, NEW addr \in Word
    PROVE  M(s, addr) \in Byte
<1>1. s.ram \in Memory /\ s.input \in Byte
  BY DEF Machine
<1> QED
  BY <1>1, GetByte DEF M

\* The accesses of t: those of s, and the one of a register when there is one.
Noted(t, s, kind, reg) ==
    t.bus = IF reg = "none" THEN s.bus ELSE Append(s.bus, <<kind, reg>>)

\* Reading an operand is noted and changes nothing else.
LEMMA Touched ==
    ASSUME NEW s \in Machine, NEW addr \in Word
    PROVE  /\ Touch(s, addr) \in Machine
           /\ Touch(s, addr).clock = s.clock /\ Touch(s, addr).input = s.input
           /\ Touch(s, addr).a = s.a /\ Touch(s, addr).x = s.x /\ Touch(s, addr).y = s.y
           /\ Touch(s, addr).c = s.c
           /\ Noted(Touch(s, addr), s, "get", ReadReg(addr))
<1>1. CASE ReadReg(addr) = "none"
  BY <1>1 DEF Touch, Noted
<1>2. CASE ReadReg(addr) # "none"
  <2> DEFINE new == Append(s.bus, <<"get", ReadReg(addr)>>)
  <2>1. new \in Seq(Access)
    <3>1. <<"get", ReadReg(addr)>> \in Access
      BY Named DEF Access
    <3>2. s.bus \in Seq(Access)
      BY DEF Machine
    <3> QED
      BY <3>1, <3>2
  <2>2. Touch(s, addr) = [s EXCEPT !.bus = new]
    BY <1>2 DEF Touch
  <2>3. Noted([s EXCEPT !.bus = new], s, "get", ReadReg(addr))
    <3>1. [s EXCEPT !.bus = new].bus = new
      BY DEF Machine
    <3> QED
      BY <1>2, <3>1, Zenon DEF Noted
  <2> HIDE DEF new
  <2>4. [s EXCEPT !.bus = new] \in Machine
    BY <2>1 DEF Machine
  <2>5. /\ [s EXCEPT !.bus = new].clock = s.clock /\ [s EXCEPT !.bus = new].input = s.input
        /\ [s EXCEPT !.bus = new].a = s.a /\ [s EXCEPT !.bus = new].x = s.x
        /\ [s EXCEPT !.bus = new].y = s.y /\ [s EXCEPT !.bus = new].c = s.c
    BY DEF Machine
  <2> QED
    BY <2>2, <2>3, <2>4, <2>5, Zenon
<1> QED
  BY <1>1, <1>2

\* Writing an operand changes the RAM and is noted.
LEMMA Written ==
    ASSUME NEW s \in Machine, NEW addr \in Word, NEW v \in Int
    PROVE  /\ Put(s, addr, v) \in Machine
           /\ Put(s, addr, v).clock = s.clock /\ Put(s, addr, v).input = s.input
           /\ Noted(Put(s, addr, v), s, "set", WriteReg(addr))
<1> DEFINE ram == Set(s.ram, addr, Trunc(v))
           t == [s EXCEPT !.ram = ram]
           new == Append(t.bus, <<"set", WriteReg(addr)>>)
<1>1. ram \in Memory
  <2>1. Trunc(v) \in Byte /\ s.ram \in Memory
    BY Cut DEF Trunc, Machine
  <2> QED
    BY <2>1, SetMemory, Zenon
<1>2. Put(s, addr, v) = IF WriteReg(addr) = "none" THEN t ELSE [t EXCEPT !.bus = new]
  <2>1. t = [s EXCEPT !.ram = Set(@, addr, Trunc(v))]
    OBVIOUS
  <2> QED
    BY <2>1, Zenon DEF Put
<1> HIDE DEF ram
<1>3. Keeps(t, s)
  BY <1>1 DEF Keeps, Machine
<1> HIDE DEF t
<1>4. CASE WriteReg(addr) = "none"
  BY <1>2, <1>3, <1>4 DEF Keeps, Noted
<1>5. CASE WriteReg(addr) # "none"
  <2>1. new \in Seq(Access)
    <3>1. <<"set", WriteReg(addr)>> \in Access
      BY Named DEF Access
    <3>2. t.bus \in Seq(Access)
      BY <1>3 DEF Keeps, Machine
    <3> QED
      BY <3>1, <3>2
  <2>2. Noted([t EXCEPT !.bus = new], s, "set", WriteReg(addr))
    <3>1. [t EXCEPT !.bus = new].bus = new
      BY <1>3 DEF Keeps, Machine
    <3>2. t.bus = s.bus
      BY <1>3 DEF Keeps
    <3> QED
      BY <1>5, <3>1, <3>2, Zenon DEF Noted
  <2> HIDE DEF new
  <2>3. /\ [t EXCEPT !.bus = new] \in Machine
        /\ [t EXCEPT !.bus = new].clock = t.clock /\ [t EXCEPT !.bus = new].input = t.input
    BY <1>3, <2>1 DEF Keeps, Machine
  <2>4. t.clock = s.clock /\ t.input = s.input
    BY <1>3 DEF Keeps
  <2> QED
    BY <1>2, <1>5, <2>2, <2>3, <2>4, Zenon
<1> QED
  BY <1>4, <1>5

\* A write to the RAM is seen by no device.
LEMMA WrittenRam ==
    ASSUME NEW s \in Machine, NEW addr \in RamAddresses, NEW v \in Int
    PROVE  Keeps(Put(s, addr, v), s)
<1>0. addr \in Word
  BY DEF RamAddresses
<1>1. WriteReg(addr) = "none"
  BY RamAddress
<1> DEFINE t == Put(s, addr, v)
<1>2. /\ t \in Machine /\ t.clock = s.clock /\ t.input = s.input
      /\ Noted(t, s, "set", WriteReg(addr))
  BY <1>0, Written
<1> HIDE DEF t
<1>3. t.bus = s.bus
  BY <1>1, <1>2, Zenon DEF Noted
<1>4. Keeps(t, s)
  BY <1>2, <1>3, Zenon DEF Keeps
<1> QED
  BY <1>4 DEF t

\* The stack is in the RAM.
LEMMA Pushed ==
    ASSUME NEW s \in Machine, NEW v \in Int
    PROVE  Keeps(Push(s, v), s)
<1>1. 256 + s.sp \in RamAddresses
  BY Ranges DEF Machine, RamAddresses
<1> DEFINE t == Put(s, 256 + s.sp, v)
<1>2. Keeps(t, s)
  BY <1>1, WrittenRam
<1>3. Push(s, v) = [t EXCEPT !.sp = B8(t.sp - 1)]
  BY <1>2 DEF Push, Keeps, Machine
<1> HIDE DEF t
<1>4. t \in Machine /\ B8(t.sp - 1) \in Byte
  <2>1. t.sp \in Int
    BY <1>2, Ranges DEF Keeps, Machine
  <2> QED
    BY <1>2, <2>1, Cut DEF Keeps
<1> QED
  BY <1>2, <1>3, <1>4, Registered, KeepsOn, Zenon

\* Pushing an address.
LEMMA PushedWord ==
    ASSUME NEW s \in Machine, NEW w \in Word
    PROVE  Keeps(PushWord(s, w), s)
<1>1. Hi(w) \in Int /\ Lo(w) \in Int
  BY Halves, Ranges
<1>2. Keeps(Push(s, Hi(w)), s)
  BY <1>1, Pushed
<1>3. Keeps(Push(Push(s, Hi(w)), Lo(w)), Push(s, Hi(w)))
  BY <1>1, <1>2, Pushed DEF Keeps
<1> QED
  BY <1>2, <1>3, KeepsOn, Zenon DEF PushWord

\* Popping a byte ...
LEMMA Popped ==
    ASSUME NEW s \in Machine
    PROVE  Keeps(Pop(s), s) /\ Top(s) \in Byte
<1>1. s.sp \in Int /\ B8(s.sp + 1) \in Byte
  BY Ranges, Cut DEF Machine
<1>2. Pop(s) = [s EXCEPT !.sp = B8(s.sp + 1)]
  BY DEF Pop, Machine
<1>3. 256 + s.sp \in Word
  BY Ranges DEF Machine
<1> QED
  BY <1>1, <1>2, <1>3, Registered, ReadByte, Zenon DEF Top

\* ... and an address.
LEMMA PoppedWord ==
    ASSUME NEW s \in Machine
    PROVE  TopWord(s) \in Word /\ Keeps(Pop(Pop(s)), s)
<1>1. Keeps(Pop(s), s)
  BY Popped
<1>2. Keeps(Pop(Pop(s)), Pop(s))
  BY <1>1, Popped DEF Keeps
<1>3. Top(Pop(s)) \in Byte /\ Top(Pop(Pop(s))) \in Byte
  BY <1>1, <1>2, Popped DEF Keeps
<1> QED
  BY <1>1, <1>2, <1>3, Joined, KeepsOn, Zenon DEF TopWord

\* The flags as a byte, and back.
LEMMA FlagsByte ==
    ASSUME NEW s \in Machine, NEW b
    PROVE  getp(s, b) \in Int
<1>1. /\ Num(s.n) \in Int /\ Num(s.v) \in Int /\ Num(s.d) \in Int /\ Num(s.i) \in Int
      /\ Num(s.z) \in Int /\ Num(s.c) \in Int /\ Num(b) \in Int
  BY NumIs
<1> QED
  BY <1>1 DEF getp

\* Setting the flags from a byte.
LEMMA FlagsSet ==
    ASSUME NEW s \in Machine, NEW p
    PROVE  Keeps(setp(s, p), s)
<1> DEFINE b(k) == BitOf(p, k)
<1>1. /\ b(7) \in BOOLEAN /\ b(6) \in BOOLEAN /\ b(3) \in BOOLEAN
      /\ b(2) \in BOOLEAN /\ b(1) \in BOOLEAN /\ b(0) \in BOOLEAN
  BY BitIsBoolean, Zenon
<1>2. setp(s, p) = [s EXCEPT !.n = b(7), !.v = b(6), !.d = b(3),
                             !.i = b(2), !.z = b(1), !.c = b(0)]
  BY DEF setp
<1> HIDE DEF b
<1> QED
  BY <1>1, <1>2 DEF Keeps, Machine

\* A jump that disables interrupts.
LEMMA Entered ==
    ASSUME NEW s \in Machine, NEW f \in BOOLEAN, NEW w \in Word
    PROVE  Keeps([s EXCEPT !.i = f, !.pc = w], s)
BY DEF Keeps, Machine

\* Entering a handler.
LEMMA Interrupted ==
    ASSUME NEW s \in Machine, NEW pc \in Word, NEW b, NEW vector \in Word, vector + 1 \in Word
    PROVE  Keeps(Interrupt(s, pc, b, vector), s)
<1> DEFINE u == PushWord(s, pc)
           p == getp(s, b)
           t == Push(u, p)
           to == WordOf(M(t, vector), M(t, vector + 1))
<1>1. Interrupt(s, pc, b, vector) = [t EXCEPT !.i = TRUE, !.pc = to]
  BY DEF Interrupt
<1>2. Keeps(u, s)
  BY PushedWord
<1>3. p \in Int
  BY FlagsByte
<1> HIDE DEF u, p
<1>4. Keeps(t, u)
  BY <1>2, <1>3, Pushed DEF Keeps
<1> HIDE DEF t
<1>5. to \in Word
  <2>1. M(t, vector) \in Byte /\ M(t, vector + 1) \in Byte
    BY <1>4, ReadByte DEF Keeps
  <2> QED
    BY <2>1, Joined
<1> HIDE DEF to
<1>6. Keeps([t EXCEPT !.i = TRUE, !.pc = to], t)
  <2>1. t \in Machine /\ TRUE \in BOOLEAN
    BY <1>4 DEF Keeps
  <2> QED
    BY <1>5, <2>1, Entered, Zenon
<1>7. Keeps(t, s)
  BY <1>2, <1>4, KeepsOn, Zenon
<1> QED
  BY <1>1, <1>6, <1>7, KeepsOn, Zenon

-----------------------------------------------------------------------------
(* Operands.                                                               *)

\* What the proofs need of an operand: its address is a word, in the RAM for
\* the modes of the zero page, and only some modes charge a crossed page.
OperandFits(o, mode) ==
    /\ o.len \in {0, 1, 2} /\ o.addr \in Word /\ o.extra \in {0, 1}
    /\ mode \notin Penalised => o.extra = 0
    /\ mode \in ZeroPage => o.addr \in RamAddresses

\* What Operand assembles fits its mode.
LEMMA At ==
    ASSUME NEW mode, NEW len \in {0, 1, 2}, NEW addr \in Int, NEW extra \in {0, 1},
           mode \notin Penalised => extra = 0,
           mode \in ZeroPage => addr \in Byte
    PROVE  OperandFits([len |-> len, addr |-> W16(addr), extra |-> extra], mode)
<1>1. W16(addr) \in Word
  BY Cut
<1>2. ASSUME addr \in Byte PROVE W16(addr) \in RamAddresses
  BY <1>1, <1>2, Ranges DEF W16, RamAddresses
<1> QED
  BY <1>1, <1>2 DEF OperandFits

\* The operand of every addressing mode (Cpu::get_addr).
LEMMA OperandIs ==
    ASSUME NEW s \in Machine, NEW mode \in Modes
    PROVE  OperandFits(Operand(mode, s), mode)
<1> DEFINE b      == M(s, s.pc)
           w      == WordOf(b, M(s, W16(s.pc + 1)))
           zx     == B8(b + s.x)
           zy     == B8(b + s.y)
           ptr(z) == WordOf(M(s, z), M(s, B8(z + 1)))
           pzx    == ptr(zx)
           pb     == ptr(b)
           cross  == Crossed(pb, Hi(pb + s.y))
           cx     == Crossed(w, w + s.x)
           cy     == Crossed(w, w + s.y)
           ind    == WordOf(M(s, w), M(s, WordOf(B8(Lo(w) + 1), Hi(w))))
           at(n, addr, extra) == [len |-> n, addr |-> W16(addr), extra |-> extra]
<1>1. s.pc \in Word /\ s.pc \in Int /\ s.x \in Int /\ s.y \in Int
  BY Ranges DEF Machine
<1>2. b \in Byte /\ b \in Int
  BY <1>1, ReadByte, Ranges
<1>3. w \in Word /\ w \in Int
  <2>1. W16(s.pc + 1) \in Word
    BY <1>1, Cut
  <2>2. M(s, W16(s.pc + 1)) \in Byte
    BY <2>1, ReadByte
  <2> QED
    BY <1>2, <2>2, Joined, Ranges
<1>4. zx \in Byte /\ zy \in Byte
  BY <1>1, <1>2, Cut
<1>5. ASSUME NEW z \in Byte PROVE ptr(z) \in Int
  <2>1. z \in Word /\ z \in Int
    BY Ranges
  <2>2. B8(z + 1) \in Word
    BY <2>1, Cut, Ranges
  <2>3. M(s, z) \in Byte /\ M(s, B8(z + 1)) \in Byte
    BY <2>1, <2>2, ReadByte
  <2> QED
    BY <2>3, Joined, Ranges
<1>6. pzx \in Int /\ pb \in Int
  BY <1>2, <1>4, <1>5
<1>7. cross \in {0, 1} /\ cx \in {0, 1} /\ cy \in {0, 1}
  BY NumIs DEF Crossed
<1>8. ind \in Int
  <2>1. B8(Lo(w) + 1) \in Byte /\ Hi(w) \in Byte
    BY <1>3, Halves, Cut, Ranges
  <2>2. WordOf(B8(Lo(w) + 1), Hi(w)) \in Word
    BY <2>1, Joined
  <2> QED
    BY <1>3, <2>2, ReadByte, Joined, Ranges
<1>9. Operand(mode, s) =
        CASE mode = "IMP"  -> at(0, 0, 0)
          [] mode = "IMM"  -> at(1, s.pc, 0)
          [] mode = "ZP"   -> at(1, b, 0)
          [] mode = "REL"  -> at(1, b, 0)
          [] mode = "ZPX"  -> at(1, zx, 0)
          [] mode = "ZPY"  -> at(1, zy, 0)
          [] mode = "IZX"  -> at(1, pzx, 0)
          [] mode = "IZY"  -> at(1, pb + s.y, 0)
          [] mode = "IZYr" -> at(1, pb + s.y, cross)
          [] mode = "ABS"  -> at(2, w, 0)
          [] mode = "ABX"  -> at(2, w + s.x, 0)
          [] mode = "ABXr" -> at(2, w + s.x, cx)
          [] mode = "ABY"  -> at(2, w + s.y, 0)
          [] mode = "ABYr" -> at(2, w + s.y, cy)
          [] mode = "IND"  -> at(2, ind, 0)
  BY DEF Operand
<1> HIDE DEF b, w, zx, zy, ptr, pzx, pb, cross, cx, cy, ind
<1>10. pb + s.y \in Int /\ w + s.x \in Int /\ w + s.y \in Int /\ zx \in Int /\ zy \in Int
  BY <1>1, <1>3, <1>4, <1>6, Ranges
<1>11. \E n \in {0, 1, 2}, addr \in Int, extra \in {0, 1} :
          /\ Operand(mode, s) = at(n, addr, extra)
          /\ mode \notin Penalised => extra = 0
          /\ mode \in ZeroPage => addr \in Byte
  <2> DEFINE is(n, addr, extra) == Operand(mode, s) = at(n, addr, extra)
  <2>1. CASE mode = "IMP"
    <3>1. is(0, 0, 0) /\ mode \notin ZeroPage
      BY <1>9, <2>1 DEF ZeroPage
    <3> QED
      BY <3>1
  <2>2. CASE mode = "IMM"
    <3>1. is(1, s.pc, 0) /\ mode \notin ZeroPage
      BY <1>9, <2>2 DEF ZeroPage
    <3> QED
      BY <1>1, <3>1
  <2>3. CASE mode \in {"ZP", "REL"}
    <3>1. is(1, b, 0)
      BY <1>9, <2>3
    <3> QED
      BY <1>2, <3>1
  <2>4. CASE mode = "ZPX"
    <3>1. is(1, zx, 0)
      BY <1>9, <2>4
    <3> QED
      BY <1>4, <1>10, <3>1
  <2>5. CASE mode = "ZPY"
    <3>1. is(1, zy, 0)
      BY <1>9, <2>5
    <3> QED
      BY <1>4, <1>10, <3>1
  <2>6. CASE mode = "IZX"
    <3>1. is(1, pzx, 0) /\ mode \notin ZeroPage
      BY <1>9, <2>6 DEF ZeroPage
    <3> QED
      BY <1>6, <3>1
  <2>7. CASE mode = "IZY"
    <3>1. is(1, pb + s.y, 0) /\ mode \notin ZeroPage
      BY <1>9, <2>7 DEF ZeroPage
    <3> QED
      BY <1>10, <3>1
  <2>8. CASE mode = "IZYr"
    <3>1. is(1, pb + s.y, cross) /\ mode \notin ZeroPage /\ mode \in Penalised
      BY <1>9, <2>8 DEF ZeroPage, Penalised
    <3> QED
      BY <1>7, <1>10, <3>1
  <2>9. CASE mode = "ABS"
    <3>1. is(2, w, 0) /\ mode \notin ZeroPage
      BY <1>9, <2>9 DEF ZeroPage
    <3> QED
      BY <1>3, <3>1
  <2>10. CASE mode = "ABX"
    <3>1. is(2, w + s.x, 0) /\ mode \notin ZeroPage
      BY <1>9, <2>10 DEF ZeroPage
    <3> QED
      BY <1>10, <3>1
  <2>11. CASE mode = "ABXr"
    <3>1. is(2, w + s.x, cx) /\ mode \notin ZeroPage /\ mode \in Penalised
      BY <1>9, <2>11 DEF ZeroPage, Penalised
    <3> QED
      BY <1>7, <1>10, <3>1
  <2>12. CASE mode = "ABY"
    <3>1. is(2, w + s.y, 0) /\ mode \notin ZeroPage
      BY <1>9, <2>12 DEF ZeroPage
    <3> QED
      BY <1>10, <3>1
  <2>13. CASE mode = "ABYr"
    <3>1. is(2, w + s.y, cy) /\ mode \notin ZeroPage /\ mode \in Penalised
      BY <1>9, <2>13 DEF ZeroPage, Penalised
    <3> QED
      BY <1>7, <1>10, <3>1
  <2>14. CASE mode = "IND"
    <3>1. is(2, ind, 0) /\ mode \notin ZeroPage
      BY <1>9, <2>14 DEF ZeroPage
    <3> QED
      BY <1>8, <3>1
  <2> QED
    BY <2>1, <2>2, <2>3, <2>4, <2>5, <2>6, <2>7, <2>8, <2>9, <2>10, <2>11, <2>12, <2>13,
       <2>14 DEF Modes
<1> QED
  BY <1>11, At

-----------------------------------------------------------------------------
(* Instructions.                                                           *)

\* Reading instructions change registers and flags only.
LEMMA ReadKeeps ==
    ASSUME NEW s \in Machine, NEW op \in ReadOps, NEW v \in Byte
    PROVE  Keeps(ExecRead(op, v, s), s)
<1>1. /\ s.a \in Byte /\ s.x \in Byte /\ s.y \in Byte /\ v \in Int /\ s.c \in BOOLEAN
  BY Ranges DEF Machine
<1>2. /\ And(s.a, v) \in Byte /\ Or(s.a, v) \in Byte /\ Xor(s.a, v) \in Byte
      /\ And(s.a, v) \in Int /\ Or(s.a, v) \in Int /\ Xor(s.a, v) \in Int
      /\ And(s.a, s.x) \in Int
  <2>1. /\ And(s.a, v) \in Byte /\ Or(s.a, v) \in Byte /\ Xor(s.a, v) \in Byte
        /\ And(s.a, s.x) \in Byte
    BY <1>1, Bitwise, Zenon
  <2>2. Byte \subseteq Int
    BY Ranges
  <2> QED
    BY <2>1, <2>2, Zenon
<1>3. CASE op \in {"ORA", "AND", "EOR", "LDA"}
  BY <1>1, <1>2, <1>3, Loaded DEF ExecRead
<1>4. CASE op \in {"ADC", "SBC"}
  BY <1>4, Added DEF ExecRead
<1>5. CASE op \in {"CMP", "CPX", "CPY"}
  BY <1>1, <1>5, Compared DEF ExecRead
<1>6. CASE op \in {"LDX", "LDY"}
  BY <1>1, <1>6, Loaded DEF ExecRead
<1>7. CASE op = "BIT"
  <2> DEFINE f == BitOf(v, 7)
             g == BitOf(v, 6)
             h == And(s.a, v) = 0
  <2>1. f \in BOOLEAN /\ g \in BOOLEAN /\ h \in BOOLEAN
    BY BitIsBoolean
  <2>2. ExecRead(op, v, s) = [s EXCEPT !.n = f, !.v = g, !.z = h]
    BY <1>7 DEF ExecRead
  <2> HIDE DEF f, g, h
  <2> QED
    BY <2>1, <2>2 DEF Keeps, Machine
<1>8. CASE op = "LAX"
  <2> DEFINE t == [s EXCEPT !.a = v]
  <2>1. ExecRead(op, v, s) = SetX(t, v)
    BY <1>8 DEF ExecRead
  <2>2. Keeps(t, s)
    BY Registered
  <2> HIDE DEF t
  <2>3. Keeps(SetX(t, v), t)
    BY <1>1, <2>2, Loaded DEF Keeps
  <2> QED
    BY <2>1, <2>2, <2>3, KeepsOn, Zenon
<1>9. CASE op = "ANC"
  <2> DEFINE t == SetA(s, And(s.a, v))
  <2>1. ExecRead(op, v, s) = [t EXCEPT !.c = t.n]
    BY <1>9 DEF ExecRead
  <2>2. Keeps(t, s)
    BY <1>2, Loaded
  <2> HIDE DEF t
  <2>3. t.n \in BOOLEAN /\ t \in Machine
    BY <2>2 DEF Keeps, Machine
  <2>4. Keeps([t EXCEPT !.c = t.n], t)
    BY <2>3, Flagged, Zenon
  <2> QED
    BY <2>1, <2>2, <2>4, KeepsOn, Zenon
<1>10. CASE op = "ALR"
  <2> DEFINE h == ShiftR(And(s.a, v), FALSE)
             t == [s EXCEPT !.c = h.c]
  <2>1. ExecRead(op, v, s) = SetA(t, h.r)
    BY <1>10 DEF ExecRead
  <2>2. h.r \in Int /\ h.c \in BOOLEAN
    <3>1. ASSUME NEW p \in Byte, NEW f
          PROVE  ShiftR(p, f).r \in Int /\ ShiftR(p, f).c \in BOOLEAN
      BY Shifted, Ranges
    <3> QED
      BY <1>2, <3>1, Zenon
  <2> HIDE DEF h
  <2>3. Keeps(t, s)
    BY <2>2, Flagged
  <2> HIDE DEF t
  <2>4. Keeps(SetA(t, h.r), t)
    BY <2>2, <2>3, Loaded DEF Keeps
  <2> QED
    BY <2>1, <2>3, <2>4, KeepsOn, Zenon
<1>11. CASE op = "ARR"
  <2> DEFINE h == ShiftR(And(s.a, v), s.c)
             t == SetA(s, h.r)
             f == BitOf(h.r, 6)
             g == BitOf(h.r, 6) # BitOf(h.r, 5)
  <2>1. ExecRead(op, v, s) = [t EXCEPT !.c = f, !.v = g]
    BY <1>11 DEF ExecRead
  <2>2. h.r \in Int
    BY <1>2, Shifted, Ranges
  <2>3. f \in BOOLEAN /\ g \in BOOLEAN
    BY BitIsBoolean
  <2>4. Keeps(t, s)
    BY <2>2, Loaded
  <2> HIDE DEF f, g, t, h
  <2>5. Keeps([t EXCEPT !.c = f, !.v = g], t)
    <3>1. t \in Machine
      BY <2>4 DEF Keeps
    <3> QED
      BY <2>3, <3>1, TwoFlagged
  <2> QED
    BY <2>1, <2>4, <2>5, KeepsOn, Zenon
<1>12. CASE op = "AXS"
  <2> DEFINE r == AddC(And(s.a, s.x), Not(v), TRUE)
             f == r > 255
             t == [s EXCEPT !.c = f]
  <2>1. ExecRead(op, v, s) = SetX(t, r)
    BY <1>12 DEF ExecRead
  <2>2. r \in Int
    <3> DEFINE p == And(s.a, s.x)
    <3>1. p \in Int
      BY <1>2, Zenon
    <3> HIDE DEF p
    <3>2. p + (255 - v) + 1 \in Int
      BY <1>1, <3>1
    <3> QED
      BY <3>2 DEF AddC, Not, Num, p
  <2>3. f \in BOOLEAN
    OBVIOUS
  <2> HIDE DEF r, f
  <2>4. Keeps(t, s)
    BY <2>3, Flagged
  <2> HIDE DEF t
  <2>5. Keeps(SetX(t, r), t)
    BY <2>2, <2>4, Loaded DEF Keeps
  <2> QED
    BY <2>1, <2>4, <2>5, KeepsOn, Zenon
<1> QED
  BY <1>3, <1>4, <1>5, <1>6, <1>7, <1>8, <1>9, <1>10, <1>11, <1>12 DEF ReadOps

\* So do those that work on registers alone.
LEMMA RegisterKeeps ==
    ASSUME NEW s \in Machine, NEW op \in RegisterOps
    PROVE  Keeps(ExecRegister(op, s), s)
<1>1. /\ s.a \in Int /\ s.x \in Int /\ s.y \in Int /\ s.sp \in Int
      /\ s.a \in Byte /\ s.x \in Byte
  BY Ranges DEF Machine
<1>2. /\ s.x + 1 \in Int /\ s.x - 1 \in Int /\ s.y + 1 \in Int /\ s.y - 1 \in Int
  BY <1>1
<1>3. CASE op \in {"ASLA", "ROLA", "LSRA", "RORA"}
  <2> DEFINE h == Shift(op, s.a, s.c)
             t == [s EXCEPT !.c = h.c]
  <2>1. ExecRegister(op, s) = SetA(t, h.r)
    BY <1>3 DEF ExecRegister
  <2>2. h.r \in Int /\ h.c \in BOOLEAN
    <3>1. op \in Shifts
      BY <1>3 DEF Shifts
    <3> QED
      BY <1>1, <3>1, ShiftType
  <2> HIDE DEF h
  <2>3. Keeps(t, s)
    BY <2>2, Flagged
  <2> HIDE DEF t
  <2>4. Keeps(SetA(t, h.r), t)
    BY <2>2, <2>3, Loaded DEF Keeps
  <2> QED
    BY <2>1, <2>3, <2>4, KeepsOn, Zenon
<1>4. CASE op \in {"INX", "DEX", "INY", "DEY"}
  BY <1>2, <1>4, Loaded DEF ExecRegister
<1>5. CASE op \in {"TAX", "TXA", "TAY", "TYA", "TSX"}
  BY <1>1, <1>5, Loaded DEF ExecRegister
<1>6. CASE op = "TXS"
  BY <1>1, <1>6, Registered DEF ExecRegister
<1>7. CASE op \in {"CLC", "CLD", "CLI", "CLV"}
  <2>1. FALSE \in BOOLEAN
    OBVIOUS
  <2>2. /\ Keeps([s EXCEPT !.c = FALSE], s) /\ Keeps([s EXCEPT !.d = FALSE], s)
        /\ Keeps([s EXCEPT !.i = FALSE], s) /\ Keeps([s EXCEPT !.v = FALSE], s)
    BY <2>1, Flagged, Zenon
  <2> QED
    BY <1>7, <2>2 DEF ExecRegister
<1>8. CASE op \in {"SEC", "SED", "SEI"}
  <2>1. TRUE \in BOOLEAN
    OBVIOUS
  <2>2. /\ Keeps([s EXCEPT !.c = TRUE], s) /\ Keeps([s EXCEPT !.d = TRUE], s)
        /\ Keeps([s EXCEPT !.i = TRUE], s)
    BY <2>1, Flagged, Zenon
  <2> QED
    BY <1>8, <2>2 DEF ExecRegister
<1> QED
  BY <1>3, <1>4, <1>5, <1>6, <1>7, <1>8 DEF RegisterOps

\* What an instruction that changes its operand stores.
Modified(op, s, v) ==
    CASE op \in {"INC", "ISC"} -> B8(v + 1)
      [] op \in {"DEC", "DCP"} -> B8(v - 1)
      [] OTHER -> Shift(op, v, s.c).r

\* What an instruction that changes its operand writes back.
LEMMA ModifiedType ==
    ASSUME NEW s \in Machine, NEW op \in ModifyOps, NEW v \in Byte
    PROVE  Modified(op, s, v) \in Nat
<1>0. v + 1 \in Int /\ v - 1 \in Int /\ Byte \subseteq Nat
  BY Ranges
<1>1. CASE op \in {"INC", "ISC"}
  BY <1>0, <1>1, Cut DEF Modified
<1>2. CASE op \in {"DEC", "DCP"}
  BY <1>0, <1>2, Cut DEF Modified
<1>3. CASE op \notin {"INC", "ISC", "DEC", "DCP"}
  <2>1. op \in Shifts
    BY <1>3 DEF Shifts, ModifyOps
  <2>2. Modified(op, s, v) = Shift(op, v, s.c).r
    BY <1>3 DEF Modified
  <2> QED
    BY <2>1, <2>2, ShiftType
<1> QED
  BY <1>1, <1>2, <1>3

\* An instruction that changes its operand reads and writes it, and besides
\* changes registers and flags only.
LEMMA ModifyKeeps ==
    ASSUME NEW s \in Machine, NEW op \in ModifyOps, NEW addr \in Word
    PROVE  \E r \in Int : Keeps(ExecModify(op, addr, s), Put(Touch(s, addr), addr, r))
<1> DEFINE v    == M(s, addr)
           r    == Modified(op, s, v)
           m    == Put(Touch(s, addr), addr, r)
           cin  == IF op \in {"INC", "DEC", "DCP", "ISC"} THEN s.c
                   ELSE Shift(op, v, s.c).c
           t    == [m EXCEPT !.c = cin]
           done == CASE op = "SLO" -> SetA(t, Or(t.a, B8(r)))
                     [] op = "RLA" -> SetA(t, And(t.a, B8(r)))
                     [] op = "SRE" -> SetA(t, Xor(t.a, B8(r)))
                     [] op = "RRA" -> Adc(t, B8(r))
                     [] op = "DCP" -> Compare(t, t.a, r)
                     [] op = "ISC" -> Sbc(t, r)
                     [] OTHER -> set_zero_and_ng(t, r)
<1>1. ExecModify(op, addr, s) = done
  BY DEF ExecModify, Modified
<1>2. v \in Byte
  BY ReadByte
<1>3. r \in Nat /\ r \in Int
  BY <1>2, ModifiedType
<1>4. cin \in BOOLEAN
  <2>1. CASE op \in {"INC", "DEC", "DCP", "ISC"}
    BY <2>1 DEF Machine
  <2>2. CASE op \notin {"INC", "DEC", "DCP", "ISC"}
    <3>1. op \in Shifts
      BY <2>2 DEF Shifts, ModifyOps
    <3> QED
      BY <1>2, <2>2, <3>1, ShiftType
  <2> QED
    BY <2>1, <2>2
<1>5. op = "ISC" => r \in Byte
  <2>1. v + 1 \in Int
    BY <1>2, Ranges
  <2> QED
    BY <2>1, Cut DEF Modified
<1> HIDE DEF v, r, cin
<1>6. m \in Machine
  BY <1>3, Touched, Written
<1> HIDE DEF m
<1>7. Keeps(t, m)
  BY <1>4, <1>6, Flagged
<1> HIDE DEF t
<1>8. t \in Machine /\ t.a \in Byte /\ B8(r) \in Byte
  BY <1>3, <1>7, Cut DEF Keeps, Machine
<1>9. Keeps(done, t)
  <2> DEFINE p == Or(t.a, B8(r))
             q == And(t.a, B8(r))
             u == Xor(t.a, B8(r))
  <2>1. p \in Int /\ q \in Int /\ u \in Int
    <3>1. p \in Byte /\ q \in Byte /\ u \in Byte
      BY <1>8, Bitwise, Zenon
    <3> QED
      BY <3>1, Ranges
  <2>2. /\ Keeps(SetA(t, p), t) /\ Keeps(SetA(t, q), t) /\ Keeps(SetA(t, u), t)
    BY <1>8, <2>1, Loaded, Zenon
  <2>3. Keeps(Adc(t, B8(r)), t) /\ Keeps(Compare(t, t.a, r), t)
    BY <1>3, <1>8, Added, Compared, Zenon
  <2>4. op = "ISC" => Keeps(Sbc(t, r), t)
    BY <1>5, <1>8, Added, Zenon
  <2>5. Keeps(set_zero_and_ng(t, r), t)
    BY <1>3, <1>8, ZeroNegative, Zenon
  <2> QED
    BY <2>2, <2>3, <2>4, <2>5
<1>10. Keeps(done, m)
  BY <1>7, <1>9, KeepsOn, Zenon
<1> QED
  BY <1>1, <1>3, <1>10 DEF m

\* What a store instruction stores.
LEMMA StoredType ==
    ASSUME NEW s \in Machine, NEW op \in StoreOps
    PROVE  Stored(op, s) \in Int
<1>1. s.a \in Byte /\ s.x \in Byte /\ s.y \in Byte
  BY DEF Machine
<1>2. And(s.a, s.x) \in Byte
  BY <1>1, Bitwise, Zenon
<1> HIDE DEF And
<1> QED
  BY <1>1, <1>2, Ranges DEF Stored, StoreOps

\* Calls, returns and the stack's instructions write the RAM only.
LEMMA StackKeeps ==
    ASSUME NEW s \in Machine, NEW op \in StackOps, NEW addr \in Word
    PROVE  Keeps(ExecStack(op, addr, s), s)
<1>1. s.a \in Int /\ s.pc \in Int /\ s.pc \in Word
  BY Ranges DEF Machine
<1>2. Keeps(Pop(s), s) /\ Pop(s) \in Machine /\ Top(Pop(s)) \in Byte
  BY Popped DEF Keeps
<1>3. CASE op = "PHA"
  BY <1>1, <1>3, Pushed DEF ExecStack
<1>4. CASE op = "PLA"
  <2>1. ExecStack(op, addr, s) = SetA(Pop(s), Top(Pop(s)))
    BY <1>4 DEF ExecStack
  <2>2. Top(Pop(s)) \in Int
    BY <1>2, Ranges
  <2>3. Keeps(SetA(Pop(s), Top(Pop(s))), Pop(s))
    BY <1>2, <2>2, Loaded, Zenon
  <2> QED
    BY <1>2, <2>1, <2>3, KeepsOn, Zenon
<1>5. CASE op = "PHP"
  <2> DEFINE p == getp(s, TRUE)
  <2>1. ExecStack(op, addr, s) = Push(s, p)
    BY <1>5 DEF ExecStack
  <2>2. p \in Int
    <3>1. ASSUME NEW b PROVE getp(s, b) \in Int
      BY FlagsByte
    <3> QED
      BY <3>1, Zenon
  <2> HIDE DEF p
  <2> QED
    BY <2>1, <2>2, Pushed, Zenon
<1>6. CASE op = "PLP"
  <2>1. ExecStack(op, addr, s) = setp(Pop(s), Top(Pop(s)))
    BY <1>6 DEF ExecStack
  <2>2. Keeps(setp(Pop(s), Top(Pop(s))), Pop(s))
    BY <1>2, FlagsSet, Zenon
  <2> QED
    BY <1>2, <2>1, <2>2, KeepsOn, Zenon
<1>7. CASE op = "BRK"
  <2> DEFINE vector == 65534
             pc == W16(s.pc + 1)
  <2>1. ExecStack(op, addr, s) = Interrupt(s, pc, TRUE, vector)
    BY <1>7 DEF ExecStack
  <2>2. vector \in Word /\ vector + 1 \in Word /\ pc \in Word
    BY <1>1, Cut, Ranges
  <2> HIDE DEF vector, pc
  <2>3. ASSUME NEW b PROVE Keeps(Interrupt(s, pc, b, vector), s)
    BY <2>2, Interrupted
  <2> QED
    BY <2>1, <2>3, Zenon
<1>8. CASE op = "RTI"
  <2> DEFINE t == setp(Pop(s), Top(Pop(s)))
             u == Pop(Pop(t))
  <2>1. ExecStack(op, addr, s) = [u EXCEPT !.pc = TopWord(t)]
    BY <1>8 DEF ExecStack
  <2>2. Keeps(t, Pop(s))
    BY <1>2, FlagsSet, Zenon
  <2>3. Keeps(t, s) /\ t \in Machine
    BY <1>2, <2>2, KeepsOn, Zenon DEF Keeps
  <2> HIDE DEF t
  <2>4. Keeps(u, t) /\ TopWord(t) \in Word
    BY <2>3, PoppedWord
  <2> HIDE DEF u
  <2>5. Keeps([u EXCEPT !.pc = TopWord(t)], u)
    BY <2>4, Jumped, Zenon DEF Keeps
  <2>6. Keeps(u, s)
    BY <2>3, <2>4, KeepsOn, Zenon
  <2> QED
    BY <2>1, <2>5, <2>6, KeepsOn, Zenon
<1>9. CASE op = "JSR"
  <2> DEFINE u == PushWord(s, AfterJsr(s.pc))
  <2>1. ExecStack(op, addr, s) = [u EXCEPT !.pc = addr]
    BY <1>9 DEF ExecStack
  <2>2. AfterJsr(s.pc) \in Word
    BY <1>1, Cut DEF AfterJsr
  <2>3. Keeps(u, s)
    BY <2>2, PushedWord
  <2> HIDE DEF u
  <2>4. Keeps([u EXCEPT !.pc = addr], u)
    BY <2>3, Jumped, Zenon DEF Keeps
  <2> QED
    BY <2>1, <2>3, <2>4, KeepsOn, Zenon
<1>10. CASE op = "RTS"
  <2> DEFINE u == Pop(Pop(s))
             to == RtsAddress(TopWord(s))
  <2>1. ExecStack(op, addr, s) = [u EXCEPT !.pc = to]
    BY <1>10 DEF ExecStack
  <2>2. to \in Word
    BY PoppedWord, Ranges, Cut DEF RtsAddress
  <2>3. Keeps(u, s)
    BY PoppedWord
  <2> HIDE DEF u, to
  <2>4. Keeps([u EXCEPT !.pc = to], u)
    BY <2>2, <2>3, Jumped, Zenon DEF Keeps
  <2> QED
    BY <2>1, <2>3, <2>4, KeepsOn, Zenon
<1> QED
  BY <1>3, <1>4, <1>5, <1>6, <1>7, <1>8, <1>9, <1>10 DEF StackOps

\* A branch takes one or two cycles more when it is taken.
LEMMA BranchKeeps ==
    ASSUME NEW s \in Machine, NEW taken, NEW rel \in Word
    PROVE  LET t == doBranch(taken, rel, s)
           IN  /\ t \in Machine /\ t.bus = s.bus /\ t.input = s.input
               /\ t.clock \in {s.clock, s.clock + 1, s.clock + 2}
<1> DEFINE to == W16(s.pc + (IF rel > 127 THEN rel - 256 ELSE rel))
           far == Num(Hi(s.pc) # Hi(to))
           u == [s EXCEPT !.pc = to, !.clock = s.clock + 1 + far]
<1>1. s.pc \in Int /\ rel \in Int /\ s.clock \in Nat
  BY Ranges DEF Machine
<1>2. to \in Word
  <2>1. s.pc + (IF rel > 127 THEN rel - 256 ELSE rel) \in Int
    BY <1>1
  <2> QED
    BY <2>1, Cut, Zenon
<1>3. doBranch(taken, rel, s) = IF taken THEN u ELSE s
  BY DEF doBranch
<1> HIDE DEF to
<1>4. far \in {0, 1}
  BY NumIs
<1> HIDE DEF far
<1>5. s.clock + 1 + far \in Nat /\ s.clock + 1 + far \in {s.clock + 1, s.clock + 2}
  BY <1>1, <1>4
<1>6. u \in Machine /\ u.bus = s.bus /\ u.input = s.input /\ u.clock = s.clock + 1 + far
  BY <1>2, <1>5 DEF Machine
<1> HIDE DEF u
<1> QED
  BY <1>3, <1>5, <1>6

\* The kinds of instructions are apart.
LEMMA Kinds ==
    ASSUME NEW op
    PROVE  /\ op \in ReadOps => op \notin ModifyOps \cup StoreOps \cup BranchOps
           /\ op \in ModifyOps => op \notin ReadOps \cup StoreOps \cup BranchOps
           /\ op \in StoreOps => op \notin ReadOps \cup ModifyOps \cup BranchOps
           /\ op \in RegisterOps => op \notin ReadOps \cup ModifyOps \cup StoreOps
           /\ op \in RegisterOps => op \notin BranchOps
           /\ op \in StackOps => op \notin ReadOps \cup ModifyOps \cup StoreOps
           /\ op \in StackOps => op \notin RegisterOps \cup BranchOps
           /\ op \in BranchOps => op \notin ReadOps \cup ModifyOps \cup StoreOps
           /\ op \in BranchOps => op \notin RegisterOps \cup StackOps
           /\ op \in {"JMP", "KIL"} =>
                 op \notin ReadOps \cup ModifyOps \cup StoreOps \cup BranchOps
           /\ op \in {"JMP", "KIL"} => op \notin RegisterOps \cup StackOps
BY DEF ReadOps, ModifyOps, StoreOps, RegisterOps, StackOps, BranchOps

\* The accesses of t after those of s: one of an instruction that reads or
\* stores, two of one that changes its operand.
Accesses(t, s, op, addr) ==
    /\ op \in ReadOps => Noted(t, s, "get", ReadReg(addr))
    /\ op \in StoreOps => Noted(t, s, "set", WriteReg(addr))
    /\ op \in ModifyOps => \E u : /\ Noted(u, s, "get", ReadReg(addr))
                                  /\ Noted(t, u, "set", WriteReg(addr))
    /\ op \notin ReadOps \cup StoreOps \cup ModifyOps => t.bus = s.bus

\* What an instruction does to the machine.
LEMMA ExecType ==
    ASSUME NEW s \in Machine, NEW op, NEW addr \in Word
    PROVE  LET t == Exec(op, addr, s)
           IN  /\ t \in Machine /\ t.input = s.input
               /\ op \notin BranchOps => t.clock = s.clock
               /\ t.clock \in {s.clock, s.clock + 1, s.clock + 2}
               /\ Accesses(t, s, op, addr)
<1> DEFINE t == Exec(op, addr, s)
           Executed ==
               /\ t \in Machine /\ t.input = s.input
               /\ op \notin BranchOps => t.clock = s.clock
               /\ t.clock \in {s.clock, s.clock + 1, s.clock + 2}
               /\ Accesses(t, s, op, addr)
<1>1. ASSUME op \in ReadOps PROVE Executed
  <2> DEFINE v == M(s, addr)
             u == Touch(s, addr)
  <2>1. op \notin ModifyOps \cup StoreOps
    BY <1>1, Kinds, Zenon
  <2>2. t = ExecRead(op, v, u)
    BY <1>1, <2>1, Kinds DEF Exec
  <2>3. v \in Byte
    BY ReadByte
  <2>4. /\ u \in Machine /\ u.clock = s.clock /\ u.input = s.input
        /\ Noted(u, s, "get", ReadReg(addr))
    BY Touched
  <2> HIDE DEF v, u
  <2>5. Keeps(ExecRead(op, v, u), u)
    BY <1>1, <2>3, <2>4, ReadKeeps
  <2> HIDE DEF t
  <2>6. Keeps(t, u)
    BY <2>2, <2>5, Zenon
  <2>7. t \in Machine /\ t.input = s.input /\ t.clock = s.clock
    BY <2>4, <2>6 DEF Keeps
  <2>8. Noted(t, s, "get", ReadReg(addr))
    BY <2>4, <2>6, Zenon DEF Keeps, Noted
  <2>9. Accesses(t, s, op, addr)
    BY <1>1, <2>1, <2>8, Zenon DEF Accesses
  <2> QED
    BY <2>7, <2>9, Zenon
<1>2. ASSUME op \in ModifyOps PROVE Executed
  <2> DEFINE u == Touch(s, addr)
  <2>1. op \notin ReadOps \cup StoreOps
    BY <1>2, Kinds, Zenon
  <2>2. t = ExecModify(op, addr, s)
    BY <1>2, <2>1, Kinds DEF Exec
  <2> HIDE DEF t
  <2>3. PICK r \in Int : Keeps(t, Put(u, addr, r))
    BY <1>2, <2>2, ModifyKeeps
  <2> DEFINE w == Put(u, addr, r)
  <2>4. /\ u \in Machine /\ u.clock = s.clock /\ u.input = s.input
        /\ Noted(u, s, "get", ReadReg(addr))
    BY Touched
  <2> HIDE DEF u
  <2>5. /\ w \in Machine /\ w.clock = u.clock /\ w.input = u.input
        /\ Noted(w, u, "set", WriteReg(addr))
    BY <2>4, Written
  <2> HIDE DEF w
  <2>6. Keeps(t, w)
    BY <2>3 DEF w
  <2>7. t \in Machine /\ t.input = s.input /\ t.clock = s.clock
    BY <2>4, <2>5, <2>6 DEF Keeps
  <2>8. Noted(t, u, "set", WriteReg(addr))
    BY <2>5, <2>6, Zenon DEF Keeps, Noted
  <2>9. Accesses(t, s, op, addr)
    BY <1>2, <2>1, <2>4, <2>8, Zenon DEF Accesses
  <2> QED
    BY <2>7, <2>9, Zenon
<1>3. ASSUME op \in StoreOps PROVE Executed
  <2>1. op \notin ReadOps \cup ModifyOps
    BY <1>3, Kinds, Zenon
  <2>2. t = Put(s, addr, Stored(op, s))
    BY <1>3, <2>1, Kinds DEF Exec
  <2>3. Stored(op, s) \in Int
    BY <1>3, StoredType
  <2> HIDE DEF t
  <2>4. /\ t \in Machine /\ t.clock = s.clock /\ t.input = s.input
        /\ Noted(t, s, "set", WriteReg(addr))
    BY <2>2, <2>3, Written
  <2>5. Accesses(t, s, op, addr)
    BY <1>3, <2>1, <2>4, Zenon DEF Accesses
  <2> QED
    BY <2>4, <2>5, Zenon
<1>4. ASSUME Keeps(t, s), op \notin ReadOps \cup ModifyOps \cup StoreOps PROVE Executed
  <2> HIDE DEF t
  <2>1. t \in Machine /\ t.input = s.input /\ t.clock = s.clock /\ t.bus = s.bus
    BY <1>4 DEF Keeps
  <2>2. Accesses(t, s, op, addr)
    BY <1>4, <2>1, Zenon DEF Accesses
  <2> QED
    BY <2>1, <2>2, Zenon
<1>5. CASE op \in RegisterOps
  <2>1. op \notin ReadOps \cup ModifyOps \cup StoreOps
    BY <1>5, Kinds, Zenon
  <2>2. t = ExecRegister(op, s)
    BY <1>5, <2>1, Kinds DEF Exec
  <2>3. Keeps(t, s)
    BY <1>5, <2>2, RegisterKeeps
  <2> QED
    BY <1>4, <2>1, <2>3
<1>6. CASE op \in StackOps
  <2>1. op \notin ReadOps \cup ModifyOps \cup StoreOps
    BY <1>6, Kinds, Zenon
  <2>2. t = ExecStack(op, addr, s)
    BY <1>6, <2>1, Kinds DEF Exec
  <2>3. Keeps(t, s)
    BY <1>6, <2>2, StackKeeps
  <2> QED
    BY <1>4, <2>1, <2>3
<1>7. ASSUME op \in BranchOps PROVE Executed
  <2>1. op \notin ReadOps \cup ModifyOps \cup StoreOps
    BY <1>7, Kinds, Zenon
  <2>2. t = doBranch(Taken(op, s), addr, s)
    BY <1>7, <2>1, Kinds DEF Exec
  <2> HIDE DEF t
  <2>3. /\ t \in Machine /\ t.bus = s.bus /\ t.input = s.input
        /\ t.clock \in {s.clock, s.clock + 1, s.clock + 2}
    BY <2>2, BranchKeeps
  <2>4. Accesses(t, s, op, addr)
    BY <2>1, <2>3, Zenon DEF Accesses
  <2> QED
    BY <1>7, <2>3, <2>4, Zenon
<1>8. CASE op = "JMP"
  <2>1. /\ op \notin ReadOps \cup ModifyOps \cup StoreOps \cup BranchOps
        /\ op \notin RegisterOps \cup StackOps
    BY <1>8, Kinds
  <2>2. t = [s EXCEPT !.pc = addr]
    BY <1>8, <2>1 DEF Exec
  <2>3. Keeps(t, s)
    BY <2>2, Jumped
  <2> QED
    BY <1>4, <2>1, <2>3
<1>9. CASE op = "KIL"
  <2>1. /\ op \notin ReadOps \cup ModifyOps \cup StoreOps \cup BranchOps
        /\ op \notin RegisterOps \cup StackOps
    BY <1>9, Kinds
  <2>2. t = [s EXCEPT !.pc = W16(s.pc - 1)]
    BY <1>9, <2>1 DEF Exec, Machine
  <2>3. W16(s.pc - 1) \in Word
    BY Ranges, Cut DEF Machine
  <2>4. Keeps(t, s)
    BY <2>2, <2>3, Jumped
  <2> QED
    BY <1>4, <2>1, <2>4
<1>10. CASE /\ op \notin ReadOps \cup ModifyOps \cup StoreOps \cup BranchOps
            /\ op \notin RegisterOps \cup StackOps
            /\ op # "JMP" /\ op # "KIL"
  <2>1. t = s
    BY <1>10 DEF Exec
  <2>2. Keeps(t, s)
    BY <2>1 DEF Keeps
  <2> QED
    BY <1>4, <1>10, <2>2
<1> QED
  BY <1>1, <1>2, <1>3, <1>5, <1>6, <1>7, <1>8, <1>9, <1>10, Zenon

-----------------------------------------------------------------------------
(* The CPU's step.                                                         *)

\* The machine keeps its types, and the CPU starts a step with no access of the
\* one before on record.
CpuInv ==
    /\ st \in Machine /\ nmi \in BOOLEAN /\ turn \in {"cpu", "ppu"}
    /\ turn = "cpu" => st.bus = <<>>

\* The machine with the input a device will return, after a pending NMI.
LEMMA AtFetchType ==
    ASSUME CpuInv, turn = "cpu", NEW input \in Byte
    PROVE  LET s == AtFetch([st EXCEPT !.input = input])
           IN  s \in Machine /\ s.bus = <<>> /\ s.input = input
<1> DEFINE s0 == [st EXCEPT !.input = input]
           s1 == [s0 EXCEPT !.clock = s0.clock + 7]
<1>1. s0 \in Machine /\ s0.bus = <<>> /\ s0.input = input
  BY DEF CpuInv, Machine
<1> HIDE DEF s0
<1>2. /\ s1 \in Machine /\ s1.bus = <<>> /\ s1.input = input /\ s1.pc = s0.pc
  BY <1>1 DEF Machine
<1>3. exec_nmi(s0) = Interrupt(s1, s0.pc, FALSE, NmiVector)
  BY <1>1 DEF exec_nmi, PushedPc, Machine
<1> HIDE DEF s1
<1>4. NmiVector \in Word /\ NmiVector + 1 \in Word /\ s0.pc \in Word
  BY <1>1, Ranges DEF NmiVector, Machine
<1>5. ASSUME NEW b PROVE Keeps(Interrupt(s1, s0.pc, b, NmiVector), s1)
  BY <1>2, <1>4, Interrupted
<1>6. Keeps(exec_nmi(s0), s1)
  BY <1>3, <1>5, Zenon
<1>7. exec_nmi(s0) \in Machine /\ exec_nmi(s0).bus = <<>> /\ exec_nmi(s0).input = input
  BY <1>2, <1>6 DEF Keeps
<1>8. AtFetch(s0) = IF nmi THEN exec_nmi(s0) ELSE s0
  BY DEF AtFetch
<1>9. AtFetch(s0) \in Machine /\ AtFetch(s0).bus = <<>> /\ AtFetch(s0).input = input
  BY <1>1, <1>7, <1>8
<1> QED
  BY <1>9 DEF s0

\* The instruction and its operand.
LEMMA DecodedType ==
    ASSUME NEW s \in Machine
    PROVE  /\ Fetched(s) \in Byte /\ EntryFits(Codes[Fetched(s) + 1])
           /\ OperandAddr(s) \in Word
           /\ Mode(Fetched(s)) \in ZeroPage => OperandAddr(s) \in RamAddresses
           /\ Decoded(s) \in Machine /\ Decoded(s).bus = s.bus
           /\ Decoded(s).input = s.input
           /\ Decoded(s).a = s.a /\ Decoded(s).x = s.x /\ Decoded(s).y = s.y
           /\ Decoded(s).c = s.c
           /\ \E extra \in {0, 1} :
                 /\ Decoded(s).clock = s.clock + Cycle(Fetched(s)) + extra
                 /\ Mode(Fetched(s)) \notin Penalised => extra = 0
<1> DEFINE byte == Fetched(s)
           mode == Mode(byte)
           t == [s EXCEPT !.pc = W16(s.pc + 1)]
           o == Operand(mode, t)
           u == [t EXCEPT !.pc = W16(t.pc + o.len),
                          !.clock = t.clock + Cycle(byte) + o.extra]
<1>1. s.pc \in Word /\ s.pc \in Int
  BY Ranges DEF Machine
<1>2. byte \in Byte
  BY <1>1, ReadByte DEF Fetched
<1>3. EntryFits(Codes[byte + 1])
  BY <1>2, Table
<1>4. mode \in Modes /\ Cycle(byte) \in Nat
  <2>1. mode = Codes[byte + 1][2] /\ Cycle(byte) = Codes[byte + 1][3]
    BY DEF Mode, Cycle
  <2> HIDE DEF byte, mode
  <2> QED
    BY <1>3, <2>1 DEF EntryFits
<1>5. Keeps(t, s) /\ t.a = s.a /\ t.x = s.x /\ t.y = s.y /\ t.c = s.c
  <2>1. W16(s.pc + 1) \in Word
    BY <1>1, Cut
  <2> QED
    BY <2>1, Jumped DEF Machine
<1>6. Decoded(s) = u
  BY DEF Decoded, Machine
<1>7. OperandAddr(s) = o.addr
  BY DEF OperandAddr, Machine
<1> HIDE DEF byte, mode, t
<1>8. OperandFits(o, mode)
  BY <1>4, <1>5, OperandIs DEF Keeps
<1> HIDE DEF o
<1>9. /\ o.len \in Int /\ o.addr \in Word /\ o.extra \in {0, 1}
      /\ mode \notin Penalised => o.extra = 0
      /\ mode \in ZeroPage => o.addr \in RamAddresses
  BY <1>8 DEF OperandFits
<1>10. /\ u \in Machine /\ u.bus = t.bus /\ u.input = t.input
       /\ u.a = t.a /\ u.x = t.x /\ u.y = t.y /\ u.c = t.c
       /\ u.clock = t.clock + Cycle(byte) + o.extra
  <2>1. t \in Machine /\ t.clock \in Nat /\ t.pc \in Int
    BY <1>5, Ranges DEF Keeps, Machine
  <2> DEFINE pc == W16(t.pc + o.len)
             clock == t.clock + Cycle(byte) + o.extra
  <2>2. pc \in Word
    BY <1>9, <2>1, Cut
  <2>3. clock \in Nat
    BY <1>4, <1>9, <2>1
  <2> HIDE DEF pc, clock
  <2>4. /\ [t EXCEPT !.pc = pc, !.clock = clock] \in Machine
        /\ [t EXCEPT !.pc = pc, !.clock = clock].clock = clock
        /\ [t EXCEPT !.pc = pc, !.clock = clock].bus = t.bus
        /\ [t EXCEPT !.pc = pc, !.clock = clock].input = t.input
        /\ [t EXCEPT !.pc = pc, !.clock = clock].a = t.a
        /\ [t EXCEPT !.pc = pc, !.clock = clock].x = t.x
        /\ [t EXCEPT !.pc = pc, !.clock = clock].y = t.y
        /\ [t EXCEPT !.pc = pc, !.clock = clock].c = t.c
    BY <2>1, <2>2, <2>3 DEF Machine
  <2> QED
    BY <2>4 DEF pc, clock
<1> HIDE DEF u
<1>11. /\ Decoded(s) \in Machine /\ Decoded(s).bus = s.bus /\ Decoded(s).input = s.input
       /\ Decoded(s).a = s.a /\ Decoded(s).x = s.x /\ Decoded(s).y = s.y
       /\ Decoded(s).c = s.c
       /\ Decoded(s).clock = s.clock + Cycle(byte) + o.extra
  BY <1>5, <1>6, <1>10 DEF Keeps
<1>12. \E extra \in {0, 1} : /\ Decoded(s).clock = s.clock + Cycle(byte) + extra
                             /\ mode \notin Penalised => extra = 0
  BY <1>9, <1>11
<1> QED
  BY <1>2, <1>3, <1>7, <1>9, <1>11, <1>12 DEF byte, mode

\* A step gives a machine again, and keeps the input.
LEMMA StepType ==
    ASSUME NEW s \in Machine
    PROVE  Step(s) \in Machine /\ Step(s).input = s.input
<1> DEFINE d == Decoded(s)
           addr == OperandAddr(s)
           op == Op(Fetched(s))
<1>1. d \in Machine /\ addr \in Word /\ d.input = s.input
  BY DecodedType
<1>2. Step(s) = Exec(op, addr, d)
  BY DEF Step
<1> HIDE DEF d, addr, op
<1> QED
  BY <1>1, <1>2, ExecType

\* After Cpu::reset the machine is in its types.
LEMMA InitCpu == Init => CpuInv
<1> SUFFICES ASSUME Init PROVE CpuInv
  OBVIOUS
<1> DEFINE pc == WordOf(Rom(65532), Rom(65533))
           ram == [addr \in 0..(RamSize - 1) |-> 0]
<1>1. /\ 0 \in Byte /\ 253 \in Byte /\ Byte \subseteq Nat
  BY Ranges
<1>2. pc \in Word
  <2>1. 65532 \in 32768..MaxWord /\ 65533 \in 32768..MaxWord
    BY DEF MaxWord
  <2>2. Rom(65532) \in Byte /\ Rom(65533) \in Byte
    BY <2>1, MemAssumption
  <2> QED
    BY <2>2, Joined
<1>3. ram \in Memory
  BY <1>1 DEF Memory
<1>4. Reset = [a |-> 0, x |-> 0, y |-> 0, sp |-> 253, pc |-> pc,
               n |-> FALSE, v |-> FALSE, d |-> FALSE, i |-> TRUE, z |-> FALSE,
               c |-> FALSE, clock |-> 7, ram |-> ram, bus |-> <<>>, input |-> 0]
  BY DEF Reset
<1> HIDE DEF pc, ram
<1>5. <<>> \in Seq(Access)
  OBVIOUS
<1>6. Reset \in Machine /\ Reset.bus = <<>>
  BY <1>1, <1>2, <1>3, <1>4, <1>5 DEF Machine
<1> HIDE DEF Reset
<1> QED
  BY <1>6 DEF Init, StartsFrom, CpuInv

\* A step of the CPU, an NMI of the PPU and the end keep it so.
LEMMA NextCpu == CpuInv /\ [Next]_vars => CpuInv'
<1> SUFFICES ASSUME CpuInv, [Next]_vars PROVE CpuInv'
  OBVIOUS
<1>1. ASSUME NEW input \in Inputs, Run(input) PROVE CpuInv'
  <2> DEFINE s1 == AtFetch([st EXCEPT !.input = input])
  <2>1. turn = "cpu" /\ st' = Step(s1) /\ nmi' = FALSE /\ turn' = "ppu"
    BY <1>1 DEF Run
  <2>2. input \in Byte
    BY InputsAssumption
  <2>3. s1 \in Machine
    BY <2>1, <2>2, AtFetchType
  <2> HIDE DEF s1
  <2>4. st' \in Machine
    BY <2>1, <2>3, StepType
  <2> QED
    BY <2>1, <2>4 DEF CpuInv
<1>2. ASSUME NEW asks \in BOOLEAN, PpuRun(asks) PROVE CpuInv'
  <2>1. /\ st' = [st EXCEPT !.clock = 0, !.bus = <<>>, !.input = 0]
        /\ nmi' = (nmi \/ asks) /\ turn' = "cpu"
    BY <1>2 DEF PpuRun
  <2>2. 0 \in Byte /\ <<>> \in Seq(Access)
    BY Ranges
  <2>3. st' \in Machine /\ st'.bus = <<>>
    BY <2>1, <2>2 DEF CpuInv, Machine
  <2>4. nmi' \in BOOLEAN
    BY <2>1, Zenon DEF CpuInv
  <2> QED
    BY <2>1, <2>3, <2>4 DEF CpuInv
<1>3. CASE UNCHANGED vars
  BY <1>3 DEF vars, CpuInv
<1>4. CASE Done
  BY <1>4 DEF Done, vars, CpuInv
<1> QED
  BY <1>1, <1>2, <1>3, <1>4 DEF Next

\* The machine keeps its types from the first step on.
LEMMA SpecCpu == Spec => []CpuInv
BY InitCpu, NextCpu, PTL DEF Spec

\* Registers, flags and memory keep their types: whatever the program of
\* Mem::get's cartridge is, every result of Cpu::exe_instruction is cut to the
\* width of the register that receives it.
THEOREM TypeCorrect == Spec => []TypeOK
<1>1. CpuInv => TypeOK
  <2> SUFFICES ASSUME CpuInv PROVE TypeOK
    OBVIOUS
  <2>1. /\ st.a \in Byte /\ st.x \in Byte /\ st.y \in Byte /\ st.sp \in Byte
        /\ st.pc \in Word /\ st.ram \in Memory
        /\ st.n \in BOOLEAN /\ st.v \in BOOLEAN /\ st.d \in BOOLEAN
        /\ st.i \in BOOLEAN /\ st.z \in BOOLEAN /\ st.c \in BOOLEAN
    BY DEF CpuInv, Machine
  <2>2. {st.n, st.v, st.d, st.i, st.z, st.c} \subseteq BOOLEAN
    BY <2>1, Zenon
  <2>3. {st.a, st.x, st.y, st.sp} \subseteq Byte
    BY <2>1, Zenon
  <2>4. \A addr \in 0..(RamSize - 1) : st.ram[addr] \in Byte
    BY <2>1 DEF Memory
  <2> QED
    BY <2>1, <2>2, <2>3, <2>4 DEF CpuInv, TypeOK
<1> QED
  BY <1>1, SpecCpu, PTL

-----------------------------------------------------------------------------
(* What FrameLoop counts on.                                               *)

Sets(bus) == {k \in 1..Len(bus) : bus[k][1] = "set"}

Few(bus) == Len(bus) <= 2 /\ Sets(bus) \subseteq {Len(bus)}

\* No access ...
LEMMA FewNone == Few(<<>>) /\ Sets(<<>>) = {}
<1>1. Len(<<>>) = 0 /\ Sets(<<>>) = {}
  BY DEF Sets
<1> QED
  BY <1>1 DEF Few

\* ... one access ...
LEMMA FewOne ==
    ASSUME NEW reg
    PROVE  /\ Few(<<<<"get", reg>>>>) /\ Sets(<<<<"get", reg>>>>) = {}
           /\ Few(<<<<"set", reg>>>>)
<1>1. Len(<<<<"get", reg>>>>) = 1 /\ Sets(<<<<"get", reg>>>>) = {}
  BY DEF Sets
<1>2. Len(<<<<"set", reg>>>>) = 1 /\ Sets(<<<<"set", reg>>>>) \subseteq {1}
  BY DEF Sets
<1> QED
  BY <1>1, <1>2 DEF Few

\* ... and two.
LEMMA FewTwo ==
    ASSUME NEW reg, NEW other
    PROVE  Few(<<<<"get", reg>>, <<"set", other>>>>)
<1> DEFINE bus == <<<<"get", reg>>, <<"set", other>>>>
<1>1. Len(bus) = 2 /\ Sets(bus) \subseteq {2}
  BY DEF Sets
<1> HIDE DEF bus
<1>2. Few(bus)
  BY <1>1 DEF Few
<1> QED
  BY <1>2 DEF bus

\* Sequences of one and two that grew from the empty one.
LEMMA Grown ==
    ASSUME NEW e, NEW f
    PROVE  Append(<<>>, e) = <<e>> /\ Append(<<e>>, f) = <<e, f>>
<1> DEFINE S == {e, f}
           x == Append(<<e>>, f)
           y == <<e, f>>
<1>1. x \in Seq(S) /\ y \in Seq(S)
  OBVIOUS
<1>2. Len(x) = 2 /\ Len(y) = 2
  OBVIOUS
<1>3. x[1] = e /\ x[2] = f /\ y[1] = e /\ y[2] = f
  OBVIOUS
<1>4. Append(<<>>, e) = <<e>>
  OBVIOUS
<1> HIDE DEF x, y, S
<1>5. \A i \in 1..Len(x) : x[i] = y[i]
  BY <1>2, <1>3
<1>6. Len(x) = Len(y)
  BY <1>2
<1>7. x = y
  BY <1>1, <1>5, <1>6, SeqEqual, Zenon
<1> QED
  BY <1>4, <1>7 DEF x, y

\* At most two accesses are noted; the one that sets is the last, and needs an
\* instruction that writes its operand to a register of a device.
LEMMA FewAccesses ==
    ASSUME NEW t, NEW s, NEW op, NEW addr, s.bus = <<>>, Accesses(t, s, op, addr)
    PROVE  /\ Few(t.bus)
           /\ Sets(t.bus) # {} => /\ op \in StoreOps \cup ModifyOps
                                  /\ WriteReg(addr) # "none"
<1> DEFINE rr == ReadReg(addr)
           wr == WriteReg(addr)
           get == <<"get", rr>>
           set == <<"set", wr>>
           Fits == /\ Few(t.bus)
                   /\ Sets(t.bus) # {} => op \in StoreOps \cup ModifyOps /\ wr # "none"
<1> HIDE DEF rr, wr
<1>1. ASSUME t.bus = <<>> PROVE Fits
  BY <1>1, FewNone
<1>2. ASSUME t.bus = <<get>> PROVE Fits
  <2>1. Few(<<get>>) /\ Sets(<<get>>) = {}
    BY FewOne
  <2> QED
    BY <1>2, <2>1
<1>3. ASSUME t.bus = <<set>>, op \in StoreOps \cup ModifyOps, wr # "none" PROVE Fits
  <2>1. Few(<<set>>)
    BY FewOne
  <2> QED
    BY <1>3, <2>1, Zenon
<1>4. ASSUME t.bus = <<get, set>>, op \in StoreOps \cup ModifyOps, wr # "none" PROVE Fits
  <2>1. Few(<<get, set>>)
    BY FewTwo
  <2> QED
    BY <1>4, <2>1, Zenon
<1>5. \A e, f : Append(<<>>, e) = <<e>> /\ Append(<<e>>, f) = <<e, f>>
  BY Grown, Zenon
<1>6. ASSUME op \in ReadOps PROVE Fits
  <2>1. t.bus = IF rr = "none" THEN <<>> ELSE Append(<<>>, get)
    BY <1>6, Zenon DEF Accesses, Noted, rr
  <2> QED
    BY <1>1, <1>2, <1>5, <2>1
<1>7. ASSUME op \in StoreOps PROVE Fits
  <2>1. t.bus = IF wr = "none" THEN <<>> ELSE Append(<<>>, set)
    BY <1>7, Zenon DEF Accesses, Noted, wr
  <2>2. CASE wr = "none"
    BY <1>1, <2>1, <2>2
  <2>3. CASE wr # "none"
    <3>1. t.bus = <<set>>
      BY <1>5, <2>1, <2>3
    <3> QED
      BY <1>3, <1>7, <2>3, <3>1
  <2> QED
    BY <2>2, <2>3
<1>8. ASSUME op \in ModifyOps PROVE Fits
  <2>1. PICK u : Noted(u, s, "get", rr) /\ Noted(t, u, "set", wr)
    BY <1>8, Zenon DEF Accesses, rr, wr
  <2>2. /\ u.bus = IF rr = "none" THEN <<>> ELSE Append(<<>>, get)
        /\ t.bus = IF wr = "none" THEN u.bus ELSE Append(u.bus, set)
    BY <2>1, Zenon DEF Noted
  <2>3. u.bus = <<>> \/ u.bus = <<get>>
    BY <1>5, <2>2
  <2>4. CASE wr = "none"
    BY <1>1, <1>2, <2>2, <2>3, <2>4
  <2>5. CASE wr # "none"
    <3>1. t.bus = <<set>> \/ t.bus = <<get, set>>
      BY <1>5, <2>2, <2>3, <2>5
    <3> QED
      BY <1>3, <1>4, <1>8, <2>5, <3>1
  <2> QED
    BY <2>4, <2>5
<1>9. ASSUME op \notin ReadOps \cup StoreOps \cup ModifyOps PROVE Fits
  <2>1. t.bus = <<>>
    BY <1>9, Zenon DEF Accesses
  <2> QED
    BY <1>1, <2>1
<1>10. Fits
  BY <1>6, <1>7, <1>8, <1>9, Zenon
<1> QED
  BY <1>10 DEF wr

\* A step takes 2 to 8 cycles, and 4 at least when it sets a register.
LEMMA StepCost ==
    ASSUME NEW s \in Machine, s.bus = <<>>
    PROVE  /\ Step(s).clock - s.clock \in 2..8
           /\ Few(Step(s).bus)
           /\ Sets(Step(s).bus) # {} => Step(s).clock - s.clock >= 4
<1> DEFINE d == Decoded(s)
           addr == OperandAddr(s)
           byte == Fetched(s)
           op == Op(byte)
           mode == Mode(byte)
           cycle == Cycle(byte)
           t == Step(s)
<1>1. /\ d \in Machine /\ addr \in Word /\ d.bus = <<>>
      /\ mode \in ZeroPage => addr \in RamAddresses
  BY DecodedType
<1>2. PICK extra \in {0, 1} : /\ d.clock = s.clock + cycle + extra
                              /\ mode \notin Penalised => extra = 0
  BY DecodedType
<1>3. EntryFits(Codes[byte + 1]) /\ op = Codes[byte + 1][1]
      /\ mode = Codes[byte + 1][2] /\ cycle = Codes[byte + 1][3]
  BY DecodedType DEF Op, Mode, Cycle
<1>4. t = Exec(op, addr, d)
  BY DEF Step
<1>5. s.clock \in Nat
  BY DEF Machine
<1> HIDE DEF d, addr, byte, op, mode, cycle, t
<1>6. /\ cycle \in 2..8
      /\ mode \in Penalised => cycle <= 7
      /\ op \in BranchOps => mode = "REL" /\ cycle = 2
      /\ op \in StoreOps \cup ModifyOps => mode \in ZeroPage \/ cycle >= 4
  BY <1>3 DEF EntryFits
<1>7. /\ op \notin BranchOps => t.clock = d.clock
      /\ t.clock \in {d.clock, d.clock + 1, d.clock + 2}
      /\ Accesses(t, d, op, addr)
  BY <1>1, <1>4, ExecType
<1>8. "REL" \notin Penalised
  BY DEF Penalised
<1>9. PICK more \in {0, 1, 2} : /\ t.clock = d.clock + more
                                /\ op \notin BranchOps => more = 0
  <2>1. d.clock \in Nat
    BY <1>1 DEF Machine
  <2> QED
    BY <1>7, <2>1
<1>10. t.clock - s.clock = cycle + extra + more
  BY <1>2, <1>5, <1>6, <1>9
<1>11. cycle + extra + more \in 2..8
  <2>1. CASE op \in BranchOps
    BY <1>2, <1>6, <1>8, <2>1
  <2>2. CASE op \notin BranchOps
    BY <1>2, <1>6, <1>9, <2>2
  <2> QED
    BY <2>1, <2>2
<1>12. /\ Few(t.bus)
       /\ Sets(t.bus) # {} => /\ op \in StoreOps \cup ModifyOps
                              /\ WriteReg(addr) # "none"
  BY <1>1, <1>7, FewAccesses
<1>13. ASSUME Sets(t.bus) # {} PROVE cycle + extra + more >= 4
  <2>1. mode \notin ZeroPage
    BY <1>1, <1>12, <1>13, RamAddress, Zenon
  <2>2. cycle >= 4
    BY <1>6, <1>12, <1>13, <2>1, Zenon
  <2> QED
    BY <1>6, <2>2
<1>14. /\ t.clock - s.clock \in 2..8 /\ Few(t.bus)
       /\ Sets(t.bus) # {} => t.clock - s.clock >= 4
  BY <1>10, <1>11, <1>12, <1>13
<1> QED
  BY <1>14 DEF t

\* The machine before a step of the CPU, and after.
LEMMA RunsStep ==
    ASSUME CpuInv, [Next]_vars, Runs
    PROVE  /\ Before \in Machine /\ Before.bus = <<>>
           /\ st' = Step(Before)
<1>1. PICK input \in Inputs : Run(input)
  BY DEF Runs, Next, PpuRun, Done, vars
<1> DEFINE s1 == AtFetch([st EXCEPT !.input = input])
<1>2. turn = "cpu" /\ st' = Step(s1)
  BY <1>1 DEF Run
<1>3. s1 \in Machine /\ s1.bus = <<>> /\ s1.input = input
  BY <1>2, InputsAssumption, AtFetchType
<1>4. st'.input = input
  <2> HIDE DEF s1
  <2> QED
    BY <1>2, <1>3, StepType
<1>5. Before = s1
  BY <1>4 DEF Before
<1> QED
  BY <1>2, <1>3, <1>5

\* What FrameLoop assumes of Cpu::run, Cpu::step and Mem::set: a step takes 2
\* to 8 cycles besides the NMI's 7, and sets at most one register of a device,
\* in its last access and in an instruction of 4 cycles or more.
THEOREM StepsFitLoop == Spec => StepFitsLoop
<1>1. ASSUME CpuInv, [Next]_vars, Runs
      PROVE  LET cost == st'.clock - Before.clock
                 sets == {k \in 1..Len(st'.bus) : st'.bus[k][1] = "set"}
             IN  /\ cost \in 2..8
                 /\ Len(st'.bus) <= 2
                 /\ sets \subseteq {Len(st'.bus)}
                 /\ sets # {} => cost >= 4
  <2> DEFINE b == Before
             t == Step(b)
  <2>1. b \in Machine /\ b.bus = <<>> /\ st' = t
    BY <1>1, RunsStep
  <2> HIDE DEF b
  <2>2. /\ t.clock - b.clock \in 2..8 /\ Few(t.bus)
        /\ Sets(t.bus) # {} => t.clock - b.clock >= 4
    BY <2>1, StepCost
  <2> HIDE DEF t
  <2>3. /\ st'.clock - b.clock \in 2..8 /\ Len(st'.bus) <= 2
        /\ Sets(st'.bus) \subseteq {Len(st'.bus)}
        /\ Sets(st'.bus) # {} => st'.clock - b.clock >= 4
    BY <2>1, <2>2, Zenon DEF Few
  <2> QED
    BY <2>3, Zenon DEF Sets, b
<1>2. CpuInv /\ [Next]_vars =>
        [Runs =>
            LET cost == st'.clock - Before.clock
                sets == {k \in 1..Len(st'.bus) : st'.bus[k][1] = "set"}
            IN  /\ cost \in 2..8
                /\ Len(st'.bus) <= 2
                /\ sets \subseteq {Len(st'.bus)}
                /\ sets # {} => cost >= 4]_vars
  BY <1>1, Zenon
<1> QED
  BY <1>2, SpecCpu, PTL DEF Spec, StepFitsLoop

-----------------------------------------------------------------------------
(* Arithmetic.                                                             *)

\* Bytes as signed numbers, and the range they have.
LEMMA SignedIs ==
    ASSUME NEW p \in Byte
    PROVE  /\ p \in Int /\ 0 <= p /\ p <= 255
           /\ p >= 128 => Neg(p) /\ Signed(p) = p - 256
           /\ p < 128 => ~Neg(p) /\ Signed(p) = p
BY Ranges DEF Neg, Signed

\* The range of a signed byte as inequalities.
LEMMA Fitting == \A n \in Int : n \notin -128..127 <=> n < -128 \/ n > 127
OBVIOUS

\* Adc's sum, carry and overflow for the operands p and q and the carry k.
LEMMA SumExact ==
    ASSUME NEW p \in Byte, NEW q \in Byte, NEW k \in Int, 0 <= k, k <= 1
    PROVE  LET r == p + q + k
           IN  /\ r \in Int /\ 0 <= r
               /\ r > 255 => r = B8(r) + 256
               /\ r <= 255 => r = B8(r)
               /\ Overflow(p, q, r) <=> Signed(p) + Signed(q) + k \notin -128..127
<1> DEFINE r == p + q + k
           b == B8(r)
           x == Signed(p) + Signed(q) + k
<1>1. /\ p \in Int /\ 0 <= p /\ p <= 255 /\ q \in Int /\ 0 <= q /\ q <= 255
  BY SignedIs
<1>2. r \in Int /\ 0 <= r /\ r <= 511
  BY <1>1
<1>3. /\ r > 255 => r = b + 256
      /\ r <= 255 => r = b
  BY <1>2 DEF B8
<1>4. b \in Byte
  BY <1>2, Cut
<1>5. Overflow(p, q, r) <=> (Neg(p) <=> Neg(q)) /\ ~(Neg(q) <=> Neg(b))
  BY DEF Overflow, Neg
<1> HIDE DEF b
<1>6. /\ p >= 128 => Neg(p) /\ Signed(p) = p - 256
      /\ p < 128 => ~Neg(p) /\ Signed(p) = p
      /\ q >= 128 => Neg(q) /\ Signed(q) = q - 256
      /\ q < 128 => ~Neg(q) /\ Signed(q) = q
      /\ b >= 128 => Neg(b) /\ b <= 255
      /\ b < 128 => ~Neg(b) /\ 0 <= b
      /\ b \in Int
  BY <1>4, SignedIs
<1>7. Overflow(p, q, r) <=> x < -128 \/ x > 127
  <2>1. CASE p >= 128 /\ q >= 128
    <3>1. x = p + q + k - 512 /\ r > 255 /\ Neg(p) /\ Neg(q)
      BY <1>1, <1>6, <2>1
    <3>2. Overflow(p, q, r) <=> ~Neg(b)
      BY <1>5, <3>1, Zenon
    <3>3. ~Neg(b) <=> b < 128
      BY <1>6
    <3> QED
      BY <1>1, <1>3, <1>6, <3>1, <3>2, <3>3
  <2>2. CASE p < 128 /\ q < 128
    <3>1. x = p + q + k /\ r <= 255 /\ ~Neg(p) /\ ~Neg(q)
      BY <1>1, <1>6, <2>2
    <3>2. Overflow(p, q, r) <=> Neg(b)
      BY <1>5, <3>1, Zenon
    <3>3. Neg(b) <=> b >= 128
      BY <1>6
    <3> QED
      BY <1>1, <1>3, <1>6, <3>1, <3>2, <3>3
  <2>3. CASE p >= 128 /\ q < 128
    <3>1. x = p + q + k - 256 /\ Neg(p) /\ ~Neg(q)
      BY <1>1, <1>6, <2>3
    <3>2. ~Overflow(p, q, r)
      BY <1>5, <3>1, Zenon
    <3> QED
      BY <1>1, <2>3, <3>1, <3>2
  <2>4. CASE p < 128 /\ q >= 128
    <3>1. x = p + q + k - 256 /\ ~Neg(p) /\ Neg(q)
      BY <1>1, <1>6, <2>4
    <3>2. ~Overflow(p, q, r)
      BY <1>5, <3>1, Zenon
    <3> QED
      BY <1>1, <2>4, <3>1, <3>2
  <2> QED
    BY <1>1, <2>1, <2>2, <2>3, <2>4
<1>8. x \in Int
  BY <1>1, <1>6
<1> HIDE DEF x
<1>9. Overflow(p, q, r) <=> x \notin -128..127
  BY <1>7, <1>8, Fitting
<1> QED
  BY <1>2, <1>3, <1>9 DEF b, x

\* The fields Adc and Compare assign, whatever set_zero_and_ng does after.
LEMMA AdcFields ==
    ASSUME NEW s \in Machine, NEW w \in Byte
    PROVE  LET r == s.a + w + Num(s.c)
           IN  /\ Adc(s, w).a = B8(r)
               /\ Adc(s, w).c = (r > 255)
               /\ Adc(s, w).v = Overflow(s.a, w, r)
<1> DEFINE r == s.a + w + Num(s.c)
           cc == r > 255
           vv == Overflow(s.a, w, r)
           aa == B8(r)
           zz == aa = 0
           nn == Neg(aa)
<1>1. Adc(s, w) = [[s EXCEPT !.c = cc, !.v = vv, !.a = aa] EXCEPT !.z = zz, !.n = nn]
  BY DEF Adc, AddC, set_zero_and_ng, Trunc
<1> HIDE DEF r, cc, vv, aa, zz, nn
<1>2. Adc(s, w).a = aa /\ Adc(s, w).c = cc /\ Adc(s, w).v = vv
  BY <1>1 DEF Machine
<1> QED
  BY <1>2 DEF r, cc, vv, aa

\* The flags of a comparison are those of the integers.
LEMMA CompareFields ==
    ASSUME NEW s \in Machine, NEW reg \in Byte, NEW w \in Byte
    PROVE  /\ Compare(s, reg, w).c <=> reg >= w
           /\ Compare(s, reg, w).z <=> reg = w
<1> DEFINE r == reg + (255 - w) + 1
           cc == r > 255
           zz == B8(r) = 0
           nn == Neg(B8(r))
<1>1. Compare(s, reg, w) = [[s EXCEPT !.c = cc] EXCEPT !.z = zz, !.n = nn]
  BY DEF Compare, AddC, Not, Num, set_zero_and_ng
<1>2. /\ reg \in Int /\ 0 <= reg /\ reg <= 255 /\ w \in Int /\ 0 <= w /\ w <= 255
  BY Ranges
<1>3. cc <=> reg >= w
  BY <1>2
<1>4. zz <=> reg = w
  BY <1>2 DEF B8
<1> HIDE DEF r, cc, zz, nn
<1>5. Compare(s, reg, w).c = cc /\ Compare(s, reg, w).z = zz
  BY <1>1 DEF Machine
<1> QED
  BY <1>3, <1>4, <1>5, Zenon

\* Addition as integers do it.
LEMMA AdcExact ==
    ASSUME NEW s \in Machine, NEW w \in Byte, NEW t, t = Adc(s, w)
    PROVE  /\ t.a + 256 * Num(t.c) = s.a + w + Num(s.c)
           /\ t.v <=> Signed(s.a) + Signed(w) + Num(s.c) \notin -128..127
<1> DEFINE k == Num(s.c)
           r == s.a + w + k
<1>1. s.a \in Byte /\ s.a \in Int /\ w \in Int
  BY Ranges DEF Machine
<1>2. k \in Int /\ 0 <= k /\ k <= 1
  BY NumIs
<1>3. t.a = B8(r) /\ t.c = (r > 255) /\ t.v = Overflow(s.a, w, r)
  BY AdcFields
<1> HIDE DEF k
<1>4. /\ r \in Int /\ 0 <= r
      /\ r > 255 => r = B8(r) + 256
      /\ r <= 255 => r = B8(r)
      /\ Overflow(s.a, w, r) <=> Signed(s.a) + Signed(w) + k \notin -128..127
  BY <1>1, <1>2, SumExact
<1> HIDE DEF r
<1>5. t.a + 256 * Num(t.c) = r
  <2>1. CASE r > 255
    <3>1. Num(t.c) = 1
      BY <1>3, <2>1 DEF Num
    <3> QED
      BY <1>3, <1>4, <2>1, <3>1
  <2>2. CASE r <= 255
    <3>3. ~(r > 255)
      BY <1>4, <2>2
    <3>1. Num(t.c) = 0
      BY <1>3, <3>3 DEF Num
    <3>2. t.a = r
      BY <1>3, <1>4, <2>2
    <3> QED
      BY <1>4, <3>1, <3>2
  <2> QED
    BY <1>4, <2>1, <2>2
<1>6. t.v <=> Signed(s.a) + Signed(w) + k \notin -128..127
  BY <1>3, <1>4, Zenon
<1> QED
  BY <1>5, <1>6 DEF r, k

\* Subtraction, which adds the complement.
LEMMA SbcExact ==
    ASSUME NEW s \in Machine, NEW w \in Byte, NEW t, t = Sbc(s, w)
    PROVE  /\ t.a - 256 * Num(~t.c) = s.a - w - Num(~s.c)
           /\ t.v <=> Signed(s.a) - Signed(w) - Num(~s.c) \notin -128..127
<1> DEFINE q == 255 - w
<1>1. q \in Byte /\ w \in Int /\ 0 <= w /\ w <= 255
  BY Ranges
<1>2. t = Adc(s, q)
  BY DEF Sbc, Not
<1> HIDE DEF q
<1>3. /\ t.a + 256 * Num(t.c) = s.a + q + Num(s.c)
      /\ t.v <=> Signed(s.a) + Signed(q) + Num(s.c) \notin -128..127
  BY <1>1, <1>2, AdcExact
<1>4. t \in Machine
  BY <1>1, <1>2, Added DEF Keeps
<1>5. ASSUME NEW b \in BOOLEAN PROVE Num(b) \in Int /\ Num(~b) = 1 - Num(b)
  BY DEF Num
<1>6. /\ Num(t.c) \in Int /\ Num(~t.c) = 1 - Num(t.c)
      /\ Num(s.c) \in Int /\ Num(~s.c) = 1 - Num(s.c)
  <2>1. t.c \in BOOLEAN /\ s.c \in BOOLEAN
    BY <1>4 DEF Machine
  <2> QED
    BY <1>5, <2>1, Zenon
<1>7. Signed(q) = -1 - Signed(w) /\ Signed(w) \in Int
  BY <1>1, SignedIs DEF q
<1>8. t.a \in Int /\ s.a \in Int /\ Signed(s.a) \in Int
  <2>1. t.a \in Byte /\ s.a \in Byte
    BY <1>4 DEF Machine
  <2> QED
    BY <2>1, SignedIs
<1>9. t.a - 256 * Num(~t.c) = s.a - w - Num(~s.c)
  <2>1. q = 255 - w
    BY DEF q
  <2> QED
    BY <1>1, <1>3, <1>6, <1>8, <2>1
<1>10. Signed(s.a) + Signed(q) + Num(s.c) = Signed(s.a) - Signed(w) - Num(~s.c)
  BY <1>6, <1>7, <1>8
<1> QED
  BY <1>3, <1>9, <1>10, Zenon


\* ADC, SBC and the comparisons compute what integers do: carry and result are
\* the sum or the difference, overflow is the signed result leaving its range
\* (the overflow and add functions behind Cpu::exe_instruction).
THEOREM ArithmeticIsExact == Spec => ArithmeticExact
<1> DEFINE Exact(s, op, v, t) ==
             /\ op = "ADC" =>
                  /\ t.a + 256 * Num(t.c) = s.a + v + Num(s.c)
                  /\ t.v <=> Signed(s.a) + Signed(v) + Num(s.c) \notin -128..127
             /\ op = "SBC" =>
                  /\ t.a - 256 * Num(~t.c) = s.a - v - Num(~s.c)
                  /\ t.v <=> Signed(s.a) - Signed(v) - Num(~s.c) \notin -128..127
             /\ op = "CMP" => (t.c <=> s.a >= v) /\ (t.z <=> s.a = v)
             /\ op = "CPX" => (t.c <=> s.x >= v) /\ (t.z <=> s.x = v)
             /\ op = "CPY" => (t.c <=> s.y >= v) /\ (t.z <=> s.y = v)
<1>1. ASSUME NEW s \in Machine, NEW op, NEW v \in Byte, NEW u \in Machine,
             NEW t, t = ExecRead(op, v, u),
             u.a = s.a, u.x = s.x, u.y = s.y, u.c = s.c
      PROVE  Exact(s, op, v, t)
  <2>1. u.a \in Byte /\ u.x \in Byte /\ u.y \in Byte
    BY DEF Machine
  <2>2. ASSUME op = "ADC" PROVE Exact(s, op, v, t)
    <3>1. t = Adc(u, v)
      BY <1>1, <2>2 DEF ExecRead
    <3> QED
      BY <1>1, <2>2, <3>1, AdcExact
  <2>3. ASSUME op = "SBC" PROVE Exact(s, op, v, t)
    <3>1. t = Sbc(u, v)
      BY <1>1, <2>3 DEF ExecRead
    <3> QED
      BY <1>1, <2>3, <3>1, SbcExact
  <2>4. ASSUME op = "CMP" PROVE Exact(s, op, v, t)
    <3>1. t = Compare(u, u.a, v)
      BY <1>1, <2>4 DEF ExecRead
    <3> QED
      BY <1>1, <2>1, <2>4, <3>1, CompareFields
  <2>5. ASSUME op = "CPX" PROVE Exact(s, op, v, t)
    <3>1. t = Compare(u, u.x, v)
      BY <1>1, <2>5 DEF ExecRead
    <3> QED
      BY <1>1, <2>1, <2>5, <3>1, CompareFields
  <2>6. ASSUME op = "CPY" PROVE Exact(s, op, v, t)
    <3>1. t = Compare(u, u.y, v)
      BY <1>1, <2>6 DEF ExecRead
    <3> QED
      BY <1>1, <2>1, <2>6, <3>1, CompareFields
  <2>7. ASSUME op \notin {"ADC", "SBC", "CMP", "CPX", "CPY"}
        PROVE  Exact(s, op, v, t)
    BY <2>7
  <2> QED
    BY <2>2, <2>3, <2>4, <2>5, <2>6, <2>7, Zenon
<1> HIDE DEF Exact
<1>2. ASSUME CpuInv, [Next]_vars, Runs
      PROVE  Exact(Before, Op(Fetched(Before)),
                   M(Decoded(Before), OperandAddr(Before)), st')
  <2> DEFINE s == Before
             d == Decoded(s)
             addr == OperandAddr(s)
             op == Op(Fetched(s))
             v == M(d, addr)
             u == Touch(d, addr)
  <2>1. s \in Machine /\ st' = Exec(op, addr, d)
    BY <1>2, RunsStep DEF Step
  <2> HIDE DEF s
  <2>2. d \in Machine /\ addr \in Word
    BY <2>1, DecodedType
  <2>3. d.a = s.a /\ d.x = s.x /\ d.y = s.y /\ d.c = s.c
    BY <2>1, DecodedType
  <2> HIDE DEF d, addr, op
  <2>4. v \in Byte /\ u \in Machine
    BY <2>2, ReadByte, Touched
  <2>5. u.a = d.a /\ u.x = d.x /\ u.y = d.y /\ u.c = d.c
    BY <2>2, Touched
  <2>6. CASE op \in ReadOps
    <3>1. op \notin ModifyOps \cup StoreOps
      BY <2>6, Kinds, Zenon
    <3>2. st' = ExecRead(op, v, u)
      BY <2>1, <2>6, <3>1, Kinds DEF Exec
    <3> HIDE DEF u, v
    <3> QED
      BY <1>1, <2>1, <2>3, <2>4, <2>5, <3>2 DEF d, addr, op, s, v
  <2>7. CASE op \notin ReadOps
    <3>1. op \notin {"ADC", "SBC", "CMP", "CPX", "CPY"}
      BY <2>7 DEF ReadOps
    <3>2. Exact(s, op, v, st')
      BY <3>1 DEF Exact
    <3> QED
      BY <3>2 DEF s, d, addr, op
  <2> QED
    BY <2>6, <2>7
<1>3. CpuInv /\ [Next]_vars =>
        [Runs => Exact(Before, Op(Fetched(Before)),
                       M(Decoded(Before), OperandAddr(Before)), st')]_vars
  BY <1>2, Zenon
<1>4. [][Runs => Exact(Before, Op(Fetched(Before)),
                       M(Decoded(Before), OperandAddr(Before)), st')]_vars
      <=> ArithmeticExact
  BY DEF ArithmeticExact, Exact
<1> QED
  BY <1>3, <1>4, SpecCpu, PTL DEF Spec

-----------------------------------------------------------------------------
(* Returns.                                                                *)

\* Lo and Hi take a word apart, and RTS adds what JSR has subtracted.
LEMMA Rejoined ==
    ASSUME NEW w \in Word
    PROVE  /\ WordOf(Lo(w), Hi(w)) = w
           /\ AfterJsr(w) \in Word /\ RtsAddress(AfterJsr(w)) = w
<1>1. w \in Int /\ 0 <= w /\ w <= 65535
  BY Ranges
<1>2. (w % 256) + 256 * (w \div 256) = w
  BY <1>1, SMT
<1>3. (((w - 1) % 65536) + 1) % 65536 = w
  BY <1>1, SMT
<1>4. AfterJsr(w) \in Word
  BY <1>1, Cut DEF AfterJsr
<1> QED
  BY <1>2, <1>3, <1>4 DEF Lo, Hi, WordOf, AfterJsr, RtsAddress, W16

\* Each bit of a sum of weights.
LEMMA Bits ==
    ASSUME NEW n \in 0..1, NEW v \in 0..1, NEW b \in 0..1, NEW d \in 0..1,
           NEW i \in 0..1, NEW z \in 0..1, NEW c \in 0..1,
           NEW p, p = 128 * n + 64 * v + 8 * d + 4 * i + 2 * z + c + 32 + 16 * b
    PROVE  /\ p \in Byte
           /\ BitOf(p, 7) <=> n = 1
           /\ BitOf(p, 6) <=> v = 1
           /\ BitOf(p, 3) <=> d = 1
           /\ BitOf(p, 2) <=> i = 1
           /\ BitOf(p, 1) <=> z = 1
           /\ BitOf(p, 0) <=> c = 1
<1>1. p \in Byte
  BY DEF Byte
<1>2. /\ p \div 128 = n
      /\ p \div 64 = 2 * n + v
      /\ p \div 8 = 16 * n + 8 * v + 4 + 2 * b + d
      /\ p \div 4 = 32 * n + 16 * v + 8 + 4 * b + 2 * d + i
      /\ p \div 2 = 64 * n + 32 * v + 16 + 8 * b + 4 * d + 2 * i + z
      /\ p \div 1 = p
  OBVIOUS
<1>3. /\ BitOf(p, 7) <=> (p \div 128) % 2 = 1
      /\ BitOf(p, 6) <=> (p \div 64) % 2 = 1
      /\ BitOf(p, 3) <=> (p \div 8) % 2 = 1
      /\ BitOf(p, 2) <=> (p \div 4) % 2 = 1
      /\ BitOf(p, 1) <=> (p \div 2) % 2 = 1
      /\ BitOf(p, 0) <=> (p \div 1) % 2 = 1
  BY DEF BitOf, Weight
<1>4. /\ n % 2 = n /\ (2 * n + v) % 2 = v
      /\ (16 * n + 8 * v + 4 + 2 * b + d) % 2 = d
      /\ (32 * n + 16 * v + 8 + 4 * b + 2 * d + i) % 2 = i
      /\ (64 * n + 32 * v + 16 + 8 * b + 4 * d + 2 * i + z) % 2 = z
      /\ p % 2 = c
  OBVIOUS
<1> QED
  BY <1>1, <1>2, <1>3, <1>4

\* The flags a byte of getp stands for.
FlagsIn(p, s) ==
    /\ BitOf(p, 7) = s.n /\ BitOf(p, 6) = s.v /\ BitOf(p, 3) = s.d
    /\ BitOf(p, 2) = s.i /\ BitOf(p, 1) = s.z /\ BitOf(p, 0) = s.c

\* setp finds the flags getp has put in a byte.
LEMMA FlagsBack ==
    ASSUME NEW s \in Machine, NEW b
    PROVE  getp(s, b) \in Byte /\ FlagsIn(getp(s, b), s)
<1>1. \A f : Num(f) \in 0..1 /\ (Num(f) = 1 <=> f)
  BY DEF Num
<1>2. /\ s.n \in BOOLEAN /\ s.v \in BOOLEAN /\ s.d \in BOOLEAN
      /\ s.i \in BOOLEAN /\ s.z \in BOOLEAN /\ s.c \in BOOLEAN
  BY DEF Machine
<1> DEFINE p == getp(s, b)
<1>3. p = 128 * Num(s.n) + 64 * Num(s.v) + 8 * Num(s.d) + 4 * Num(s.i)
          + 2 * Num(s.z) + Num(s.c) + 32 + 16 * Num(b)
  BY DEF getp
<1> HIDE DEF p
<1>4. /\ p \in Byte
      /\ BitOf(p, 7) <=> s.n
      /\ BitOf(p, 6) <=> s.v
      /\ BitOf(p, 3) <=> s.d
      /\ BitOf(p, 2) <=> s.i
      /\ BitOf(p, 1) <=> s.z
      /\ BitOf(p, 0) <=> s.c
  <2> DEFINE n == Num(s.n)
             v == Num(s.v)
             d == Num(s.d)
             i == Num(s.i)
             z == Num(s.z)
             c == Num(s.c)
             e == Num(b)
  <2>1. /\ n \in 0..1 /\ v \in 0..1 /\ d \in 0..1 /\ i \in 0..1
        /\ z \in 0..1 /\ c \in 0..1 /\ e \in 0..1
    BY <1>1
  <2>2. /\ n = 1 <=> s.n
        /\ v = 1 <=> s.v
        /\ d = 1 <=> s.d
        /\ i = 1 <=> s.i
        /\ z = 1 <=> s.z
        /\ c = 1 <=> s.c
    BY <1>1
  <2>3. p = 128 * n + 64 * v + 8 * d + 4 * i + 2 * z + c + 32 + 16 * e
    BY <1>3
  <2> HIDE DEF n, v, d, i, z, c, e
  <2>4. /\ p \in Byte
        /\ BitOf(p, 7) <=> n = 1
        /\ BitOf(p, 6) <=> v = 1
        /\ BitOf(p, 3) <=> d = 1
        /\ BitOf(p, 2) <=> i = 1
        /\ BitOf(p, 1) <=> z = 1
        /\ BitOf(p, 0) <=> c = 1
    BY <2>1, <2>3, Bits
  <2> QED
    BY <2>2, <2>4, Zenon
<1>5. /\ BitOf(p, 7) = s.n
      /\ BitOf(p, 6) = s.v
      /\ BitOf(p, 3) = s.d
      /\ BitOf(p, 2) = s.i
      /\ BitOf(p, 1) = s.z
      /\ BitOf(p, 0) = s.c
  <2>1. ASSUME NEW x \in BOOLEAN, NEW y \in BOOLEAN, x <=> y PROVE x = y
    BY <2>1
  <2>2. \A k : BitOf(p, k) \in BOOLEAN
    BY BitIsBoolean
  <2> QED
    BY <1>2, <1>4, <2>1, <2>2, Zenon
<1>6. FlagsIn(p, s)
  BY <1>5, Zenon DEF FlagsIn
<1> QED
  BY <1>4, <1>6 DEF p

\* The stack's bytes are in the RAM.
LEMMA StackByte ==
    ASSUME NEW s \in Machine, NEW k \in Byte
    PROVE  /\ 256 + k \in 0..(RamSize - 1) /\ 256 + k \in RamAddresses
           /\ (256 + k) % RamSize = 256 + k
           /\ M(s, 256 + k) = s.ram[256 + k] /\ s.ram[256 + k] \in Byte
<1>1. k \in Int /\ 0 <= k /\ k <= 255 /\ RamSize \in Nat /\ RamSize >= 512
  BY Ranges, MemAssumption, StackAssumption
<1>2. 256 + k \in 0..(RamSize - 1) /\ 256 + k \in RamAddresses
  BY <1>1, Ranges DEF RamAddresses
<1>3. (256 + k) % RamSize = 256 + k
  BY <1>1, SMT
<1>4. M(s, 256 + k) = s.ram[256 + k]
  BY <1>2, <1>3, RamAddress DEF M, Get
<1> QED
  BY <1>2, <1>3, <1>4 DEF Machine, Memory


\* A push stores a byte at sp and nothing else of the stack.
LEMMA PushStores ==
    ASSUME NEW s \in Machine, NEW v \in Byte, s.sp >= 1
    PROVE  LET t == Push(s, v)
           IN  /\ t \in Machine /\ t.sp = s.sp - 1
               /\ t.ram[256 + s.sp] = v
               /\ \A k \in Byte : k # s.sp => t.ram[256 + k] = s.ram[256 + k]
<1> DEFINE addr == 256 + s.sp
           u == Put(s, addr, v)
           t == Push(s, v)
<1>1. s.sp \in Byte /\ s.sp \in Int /\ s.ram \in Memory /\ v \in Int
  BY Ranges DEF Machine
<1>2. t \in Machine
  BY <1>1, Pushed DEF Keeps
<1>3. u = [s EXCEPT !.ram = [s.ram EXCEPT ![addr] = v]]
  <2>1. addr \in RamAddresses /\ addr % RamSize = addr
    BY <1>1, StackByte
  <2>2. Trunc(v) = v
    BY <1>1, Cut DEF Trunc
  <2>3. Set(s.ram, addr, v) = [s.ram EXCEPT ![addr] = v]
    BY <2>1, RamAddress DEF Set
  <2>4. WriteReg(addr) = "none"
    BY <2>1, RamAddress
  <2>5. u = [s EXCEPT !.ram = Set(s.ram, addr, v)]
    BY <2>2, <2>4 DEF Put, Machine
  <2> QED
    BY <2>3, <2>5
<1>4. /\ t.sp = B8(s.sp - 1) /\ t.ram = [s.ram EXCEPT ![addr] = v]
  BY <1>3 DEF Push, Machine
<1>5. B8(s.sp - 1) = s.sp - 1
  BY <1>1, Ranges DEF B8
<1>6. t.ram[addr] = v /\ \A k \in Byte : k # s.sp => t.ram[256 + k] = s.ram[256 + k]
  <2>1. addr \in 0..(RamSize - 1) /\ \A k \in Byte : 256 + k \in 0..(RamSize - 1)
    BY <1>1, StackByte
  <2>2. \A k \in Byte : k # s.sp => 256 + k # addr
    BY <1>1, Ranges
  <2>3. s.ram \in [0..(RamSize - 1) -> Byte]
    BY <1>1 DEF Memory
  <2> HIDE DEF addr, t
  <2> QED
    BY <1>4, <2>1, <2>2, <2>3
<1> QED
  BY <1>2, <1>4, <1>5, <1>6

\* Pushing an address, the high byte first.
LEMMA PushWordStores ==
    ASSUME NEW s \in Machine, NEW w \in Word, s.sp >= 2
    PROVE  LET t == PushWord(s, w)
           IN  /\ t \in Machine /\ t.sp = s.sp - 2
               /\ t.ram[256 + s.sp] = Hi(w) /\ t.ram[256 + s.sp - 1] = Lo(w)
               /\ \A k \in Byte : k > s.sp => t.ram[256 + k] = s.ram[256 + k]
<1> DEFINE u == Push(s, Hi(w))
           t == Push(u, Lo(w))
<1>1. s.sp \in Byte /\ s.sp \in Int /\ Hi(w) \in Byte /\ Lo(w) \in Byte
  BY Ranges, Halves DEF Machine
<1>2. /\ u \in Machine /\ u.sp = s.sp - 1 /\ u.ram[256 + s.sp] = Hi(w)
      /\ \A k \in Byte : k # s.sp => u.ram[256 + k] = s.ram[256 + k]
  BY <1>1, PushStores
<1> HIDE DEF u
<1>3. /\ t \in Machine /\ t.sp = u.sp - 1 /\ t.ram[256 + u.sp] = Lo(w)
      /\ \A k \in Byte : k # u.sp => t.ram[256 + k] = u.ram[256 + k]
  BY <1>1, <1>2, PushStores
<1>4. PushWord(s, w) = t
  BY DEF PushWord, u
<1> HIDE DEF t
<1>5. 256 + s.sp - 1 = 256 + u.sp /\ u.sp - 1 = s.sp - 2 /\ s.sp # u.sp
  BY <1>1, <1>2
<1>6. ASSUME NEW k \in Byte, k > s.sp PROVE t.ram[256 + k] = s.ram[256 + k]
  <2>1. k # s.sp /\ k # u.sp
    BY <1>1, <1>2, <1>6, Ranges
  <2> QED
    BY <1>2, <1>3, <2>1
<1> QED
  BY <1>1, <1>2, <1>3, <1>4, <1>5, <1>6

\* Entering a handler stores the address and the flags below the stack.
LEMMA InterruptStores ==
    ASSUME NEW s \in Machine, NEW pc \in Word, NEW b,
           NEW vector \in Word, vector + 1 \in Word, s.sp >= 3
    PROVE  LET t == Interrupt(s, pc, b, vector)
           IN  /\ t \in Machine /\ t.sp = s.sp - 3
               /\ t.ram[256 + s.sp] = Hi(pc) /\ t.ram[256 + s.sp - 1] = Lo(pc)
               /\ FlagsIn(t.ram[256 + s.sp - 2], s)
               /\ \A k \in Byte : k > s.sp => t.ram[256 + k] = s.ram[256 + k]
<1> DEFINE u == PushWord(s, pc)
           p == getp(s, b)
           v == Push(u, p)
           to == WordOf(M(v, vector), M(v, vector + 1))
           t == Interrupt(s, pc, b, vector)
<1>1. s.sp \in Byte /\ s.sp \in Int /\ s.sp - 1 \in Byte
  BY Ranges DEF Machine
<1>2. /\ u \in Machine /\ u.sp = s.sp - 2
      /\ u.ram[256 + s.sp] = Hi(pc) /\ u.ram[256 + s.sp - 1] = Lo(pc)
      /\ \A k \in Byte : k > s.sp => u.ram[256 + k] = s.ram[256 + k]
  BY <1>1, PushWordStores
<1>3. p \in Byte /\ FlagsIn(p, s)
  BY FlagsBack
<1>4. t = [v EXCEPT !.i = TRUE, !.pc = to]
  BY DEF Interrupt
<1>5. t \in Machine
  BY Interrupted DEF Keeps
<1> HIDE DEF u, p
<1>6. /\ v \in Machine /\ v.sp = u.sp - 1 /\ v.ram[256 + u.sp] = p
      /\ \A k \in Byte : k # u.sp => v.ram[256 + k] = u.ram[256 + k]
  BY <1>1, <1>2, <1>3, PushStores
<1> HIDE DEF v, to, t
<1>7. t.sp = v.sp /\ t.ram = v.ram
  BY <1>4, <1>6 DEF Machine
<1>8. /\ 256 + s.sp - 2 = 256 + u.sp /\ 256 + s.sp - 1 = 256 + (s.sp - 1)
      /\ u.sp - 1 = s.sp - 3 /\ s.sp # u.sp /\ s.sp - 1 # u.sp
  BY <1>1, <1>2
<1>9. ASSUME NEW k \in Byte, k > s.sp PROVE t.ram[256 + k] = s.ram[256 + k]
  <2>1. k # u.sp
    BY <1>1, <1>2, <1>9, Ranges
  <2> QED
    BY <1>2, <1>6, <1>7, <1>9, <2>1
<1>10. t.ram[256 + s.sp] = Hi(pc) /\ t.ram[256 + (s.sp - 1)] = Lo(pc)
  BY <1>1, <1>2, <1>6, <1>7, <1>8
<1>11. t.ram[256 + u.sp] = p
  BY <1>6, <1>7
<1> QED
  BY <1>2, <1>3, <1>5, <1>6, <1>7, <1>8, <1>9, <1>10, <1>11 DEF t

\* A pop moves sp up; what it takes is the byte there.
LEMMA PopTakes ==
    ASSUME NEW s \in Machine, s.sp <= 254
    PROVE  /\ Pop(s) \in Machine /\ Pop(s) = [s EXCEPT !.sp = s.sp + 1]
           /\ Pop(s).sp = s.sp + 1 /\ Pop(s).ram = s.ram
           /\ Top(Pop(s)) = s.ram[256 + (s.sp + 1)]
<1>1. s.sp \in Int /\ s.sp + 1 \in Byte /\ B8(s.sp + 1) = s.sp + 1
  <2>1. s.sp \in Byte
    BY DEF Machine
  <2>2. s.sp \in Int /\ s.sp + 1 \in Int /\ s.sp + 1 \in Byte
    BY <2>1, Ranges
  <2> QED
    BY <2>2, Cut
<1>2. Pop(s) = [s EXCEPT !.sp = s.sp + 1]
  BY <1>1 DEF Pop, Machine
<1>3. Pop(s) \in Machine /\ Pop(s).sp = s.sp + 1 /\ Pop(s).ram = s.ram
  BY <1>1, <1>2 DEF Machine
<1>4. Top(Pop(s)) = s.ram[256 + (s.sp + 1)]
  <2>1. M(Pop(s), 256 + (s.sp + 1)) = Pop(s).ram[256 + (s.sp + 1)]
    BY <1>1, <1>3, StackByte
  <2> QED
    BY <1>3, <2>1 DEF Top
<1> QED
  BY <1>2, <1>3, <1>4

\* Popping an address.
LEMMA PopWordTakes ==
    ASSUME NEW s \in Machine, s.sp <= 253
    PROVE  /\ Pop(Pop(s)) \in Machine /\ Pop(Pop(s)) = [s EXCEPT !.sp = s.sp + 2]
           /\ TopWord(s) = WordOf(s.ram[256 + (s.sp + 1)], s.ram[256 + (s.sp + 2)])
           /\ TopWord(s) \in Word
<1> DEFINE u == Pop(s)
           t == Pop(u)
<1>1. s.sp \in Int
  BY Ranges DEF Machine
<1>2. /\ u \in Machine /\ u = [s EXCEPT !.sp = s.sp + 1]
      /\ u.sp = s.sp + 1 /\ u.ram = s.ram
      /\ Top(u) = s.ram[256 + (s.sp + 1)]
  <2>1. s.sp <= 254
    BY <1>1
  <2> QED
    BY <2>1, PopTakes
<1> HIDE DEF u
<1>3. /\ t \in Machine /\ t = [u EXCEPT !.sp = u.sp + 1]
      /\ Top(t) = u.ram[256 + (u.sp + 1)]
  <2>1. u.sp <= 254
    BY <1>1, <1>2
  <2> QED
    BY <1>2, <2>1, PopTakes
<1>4. TopWord(s) = WordOf(Top(u), Top(t)) /\ Pop(Pop(s)) = t
  BY DEF TopWord, u
<1> HIDE DEF t
<1>5. u.sp + 1 = s.sp + 2
  BY <1>1, <1>2
<1>6. t = [s EXCEPT !.sp = s.sp + 2]
  BY <1>2, <1>3, <1>5 DEF Machine
<1> QED
  BY <1>2, <1>3, <1>4, <1>5, <1>6, PoppedWord

-----------------------------------------------------------------------------
(* What the program owes.                                                  *)

Frames == {Frame(op, s) : op \in {"JSR", "BRK", "NMI"}, s \in Machine}

\* The parts of a frame.
LEMMA FrameIs ==
    ASSUME NEW op, NEW s \in Machine
    PROVE  LET f == Frame(op, s)
           IN  /\ f.op = op /\ f.stack = Stack(s)
               /\ f.regs[1] = s.a /\ f.regs[2] = s.x /\ f.regs[3] = s.y
               /\ f.regs[4] = s.sp /\ f.regs[5] = s.pc
               /\ f.regs[6] = s.n /\ f.regs[7] = s.v /\ f.regs[8] = s.d
               /\ f.regs[9] = s.i /\ f.regs[10] = s.z /\ f.regs[11] = s.c
               /\ f.regs = Registers(s)
BY DEF Frame, Registers

\* The flags a byte stands for are those of a frame.
FlagsOf(p, f) ==
    /\ BitOf(p, 7) = f.regs[6] /\ BitOf(p, 6) = f.regs[7] /\ BitOf(p, 3) = f.regs[8]
    /\ BitOf(p, 2) = f.regs[9] /\ BitOf(p, 1) = f.regs[10] /\ BitOf(p, 0) = f.regs[11]

\* The address on the stack.
Saved(f) == IF f.op = "JSR" THEN AfterJsr(f.regs[5]) ELSE f.regs[5]

\* The RAM holds what the return of a frame needs, and the stack above it.
Intact(f, ram) ==
    /\ f.regs[4] \in Byte /\ f.regs[4] >= FrameBytes(f) /\ f.regs[5] \in Word
    /\ f.stack = [i \in (f.regs[4] + 1)..255 |-> ram[256 + i]]
    /\ ram[256 + f.regs[4]] = Hi(Saved(f)) /\ ram[256 + (f.regs[4] - 1)] = Lo(Saved(f))
    /\ f.op # "JSR" => FlagsOf(ram[256 + (f.regs[4] - 2)], f)

\* Every frame is intact, and a newer one lies below the older ones.
Resumable(owed, sp, ram) ==
    /\ sp <= Floor(owed)
    /\ \A k \in 1..Len(owed) :
          /\ Intact(owed[k], ram)
          /\ \A j \in 1..Len(owed) : j < k => owed[j].regs[4] <= Below(owed[k])

\* Where a frame ends.
LEMMA BelowIs ==
    ASSUME NEW f, NEW ram, Intact(f, ram)
    PROVE  /\ Below(f) \in Int /\ 0 <= Below(f) /\ Below(f) < f.regs[4]
           /\ f.regs[4] \in Int /\ f.regs[4] <= 255
           /\ Below(f) = f.regs[4] - FrameBytes(f) /\ FrameBytes(f) \in {2, 3}
BY Ranges DEF Below, FrameBytes, Intact

\* A frame needs the bytes above its end only.
LEMMA IntactKept ==
    ASSUME NEW f, NEW ram, NEW to, Intact(f, ram),
           \A k \in Byte : k > Below(f) => to[256 + k] = ram[256 + k]
    PROVE  Intact(f, to)
<1> DEFINE base == f.regs[4]
<1>1. /\ base \in Int /\ base <= 255 /\ base >= FrameBytes(f)
      /\ Below(f) = base - FrameBytes(f) /\ FrameBytes(f) \in {2, 3}
  BY BelowIs DEF Intact
<1> HIDE DEF base
<1>2. \A i \in (base + 1)..255 : to[256 + i] = ram[256 + i]
  <2>1. \A i \in (base + 1)..255 : i \in Byte /\ i > Below(f)
    BY <1>1, Ranges
  <2> QED
    BY <2>1
<1>3. /\ to[256 + base] = ram[256 + base]
      /\ to[256 + (base - 1)] = ram[256 + (base - 1)]
  <2>1. base \in Byte /\ base > Below(f) /\ base - 1 \in Byte /\ base - 1 > Below(f)
    BY <1>1, Ranges
  <2> QED
    BY <2>1
<1>4. ASSUME f.op # "JSR" PROVE to[256 + (base - 2)] = ram[256 + (base - 2)]
  <2>1. FrameBytes(f) = 3
    BY <1>4 DEF FrameBytes
  <2>2. base - 2 \in Byte /\ base - 2 > Below(f)
    BY <1>1, <2>1, Ranges
  <2> QED
    BY <2>2
<1>5. [i \in (base + 1)..255 |-> to[256 + i]] = [i \in (base + 1)..255 |-> ram[256 + i]]
  BY <1>2
<1> QED
  BY <1>3, <1>4, <1>5 DEF Intact, base

\* No frame ends below the newest one.
LEMMA FloorIs ==
    ASSUME NEW owed \in Seq(Frames), NEW sp, NEW ram, Resumable(owed, sp, ram)
    PROVE  /\ Floor(owed) \in Int /\ 0 <= Floor(owed) /\ Floor(owed) <= 255
           /\ \A k \in 1..Len(owed) : Floor(owed) <= Below(owed[k])
<1>1. Len(owed) \in Nat
  OBVIOUS
<1>2. CASE owed = <<>>
  <2>1. Floor(owed) = 255 /\ Len(owed) = 0
    BY <1>2 DEF Floor
  <2> QED
    BY <2>1
<1>3. CASE owed # <<>>
  <2>1. Len(owed) >= 1 /\ 1 \in 1..Len(owed) /\ Floor(owed) = Below(owed[1])
    BY <1>3 DEF Floor
  <2>2. \A k \in 1..Len(owed) :
            /\ Below(owed[k]) \in Int /\ 0 <= Below(owed[k])
            /\ Below(owed[k]) < owed[k].regs[4]
            /\ owed[k].regs[4] \in Int /\ owed[k].regs[4] <= 255
    BY BelowIs DEF Resumable
  <2>3. ASSUME NEW k \in 1..Len(owed) PROVE Floor(owed) <= Below(owed[k])
    <3>1. CASE k = 1
      BY <2>1, <2>2, <3>1
    <3>2. CASE k # 1
      <4>1. 1 < k
        BY <3>2
      <4>2. owed[1].regs[4] <= Below(owed[k])
        BY <2>1, <4>1 DEF Resumable
      <4> QED
        BY <2>1, <2>2, <4>2
    <3> QED
      BY <3>1, <3>2
  <2>4. Below(owed[1]) <= 255
    BY <2>1, <2>2
  <2> QED
    BY <2>1, <2>2, <2>3, <2>4
<1> QED
  BY <1>2, <1>3

\* The frames stay so as long as nothing above the newest one's end changes.
LEMMA ResumableKept ==
    ASSUME NEW owed \in Seq(Frames), NEW sp, NEW ram, Resumable(owed, sp, ram),
           NEW down, NEW to, down <= Floor(owed),
           \A k \in Byte : k > Floor(owed) => to[256 + k] = ram[256 + k]
    PROVE  Resumable(owed, down, to)
<1>1. /\ Floor(owed) \in Int
      /\ \A k \in 1..Len(owed) : Floor(owed) <= Below(owed[k])
  BY FloorIs
<1>2. ASSUME NEW k \in 1..Len(owed) PROVE Intact(owed[k], to)
  <2>1. Intact(owed[k], ram)
    BY DEF Resumable
  <2>2. Below(owed[k]) \in Int /\ Floor(owed) <= Below(owed[k])
    BY <1>1, <2>1, BelowIs
  <2>3. \A b \in Byte : b > Below(owed[k]) => to[256 + b] = ram[256 + b]
    BY <1>1, <2>2, Ranges
  <2> QED
    BY <2>1, <2>3, IntactKept
<1> QED
  BY <1>2 DEF Resumable

\* A call below the newest frame.
LEMMA ResumableCalled ==
    ASSUME NEW owed \in Seq(Frames), NEW sp, NEW ram, Resumable(owed, sp, ram),
           NEW f \in Frames, NEW to, f.regs[4] = sp, sp \in Byte, Intact(f, to),
           \A k \in Byte : k > sp => to[256 + k] = ram[256 + k]
    PROVE  Resumable(<<f>> \o owed, Below(f), to)
<1> DEFINE new == <<f>> \o owed
<1>1. /\ Floor(owed) \in Int
      /\ \A k \in 1..Len(owed) : Floor(owed) <= Below(owed[k])
  BY FloorIs
<1>2. sp \in Int /\ sp <= Floor(owed)
  BY Ranges DEF Resumable
<1>3. /\ Len(new) = Len(owed) + 1 /\ new # <<>> /\ Head(new) = f /\ new[1] = f
      /\ \A k \in 1..Len(owed) : new[k + 1] = owed[k]
      /\ Len(owed) \in Nat
  OBVIOUS
<1> HIDE DEF new
<1>4. ASSUME NEW k \in 1..Len(new)
      PROVE  k = 1 \/ (k - 1 \in 1..Len(owed) /\ new[k] = owed[k - 1])
  <2>1. CASE k # 1
    <3>1. k - 1 \in 1..Len(owed) /\ (k - 1) + 1 = k
      BY <1>3, <2>1
    <3> QED
      BY <1>3, <3>1
  <2> QED
    BY <2>1
<1>5. Resumable(owed, sp, to)
  <2>1. \A k \in Byte : k > Floor(owed) => to[256 + k] = ram[256 + k]
    BY <1>1, <1>2, Ranges
  <2> QED
    BY <1>2, <2>1, ResumableKept
<1>6. Below(f) <= Floor(new)
  <2>1. Floor(new) = Below(f) /\ Below(f) \in Int
    BY <1>3, BelowIs DEF Floor
  <2> QED
    BY <2>1
<1>7. ASSUME NEW k \in 1..Len(new) PROVE Intact(new[k], to)
  BY <1>3, <1>4, <1>5 DEF Resumable
<1>8. ASSUME NEW k \in 1..Len(new), NEW j \in 1..Len(new), j < k
      PROVE  new[j].regs[4] <= Below(new[k])
  <2>1. k - 1 \in 1..Len(owed) /\ new[k] = owed[k - 1]
    <3>1. k # 1
      BY <1>8
    <3> QED
      BY <1>4, <3>1
  <2>2. CASE j = 1
    <3>1. new[j].regs[4] = sp
      BY <1>3, <2>2
    <3>2. Below(owed[k - 1]) \in Int /\ Floor(owed) <= Below(owed[k - 1])
      BY <1>1, <1>5, <2>1, BelowIs DEF Resumable
    <3> QED
      BY <1>1, <1>2, <2>1, <3>1, <3>2
  <2>3. CASE j # 1
    <3>1. j - 1 \in 1..Len(owed) /\ new[j] = owed[j - 1] /\ j - 1 < k - 1
      BY <1>4, <1>8, <2>3
    <3> QED
      BY <1>5, <2>1, <3>1 DEF Resumable
  <2> QED
    BY <2>2, <2>3
<1> QED
  BY <1>6, <1>7, <1>8 DEF Resumable, new

\* A return to what the newest frame left.
LEMMA ResumableReturned ==
    ASSUME NEW owed \in Seq(Frames), NEW sp, NEW ram, Resumable(owed, sp, ram),
           owed # <<>>
    PROVE  Tail(owed) \in Seq(Frames) /\ Resumable(Tail(owed), Head(owed).regs[4], ram)
<1> DEFINE rest == Tail(owed)
           n == Len(owed)
<1>1. /\ n \in Nat /\ n >= 1 /\ rest \in Seq(Frames) /\ Len(rest) = n - 1
      /\ Head(owed) = owed[1] /\ \A k \in 1..(n - 1) : rest[k] = owed[k + 1]
  BY HeadTailProperties
<1> HIDE DEF rest
<1>2. ASSUME NEW k \in 1..Len(rest)
      PROVE  k \in Int /\ k + 1 \in 1..n /\ rest[k] = owed[k + 1]
  BY <1>1
<1>3. Head(owed).regs[4] <= Floor(rest)
  <2>1. CASE rest = <<>>
    <3>1. Intact(owed[1], ram)
      BY <1>1 DEF Resumable
    <3> QED
      BY <1>1, <2>1, <3>1, BelowIs DEF Floor
  <2>2. CASE rest # <<>>
    <3>1. Len(rest) >= 1 /\ Head(rest) = rest[1]
      BY <1>1, <2>2
    <3>2. 1 \in 1..Len(rest) /\ 1 \in 1..n /\ 2 \in 1..n /\ rest[1] = owed[2]
      BY <1>1, <3>1
    <3>3. owed[1].regs[4] <= Below(owed[2])
      BY <3>2 DEF Resumable
    <3> QED
      BY <1>1, <2>2, <3>1, <3>2, <3>3 DEF Floor
  <2> QED
    BY <2>1, <2>2
<1>4. ASSUME NEW k \in 1..Len(rest) PROVE Intact(rest[k], ram)
  BY <1>2 DEF Resumable
<1>5. ASSUME NEW k \in 1..Len(rest), NEW j \in 1..Len(rest), j < k
      PROVE  rest[j].regs[4] <= Below(rest[k])
  <2>1. j + 1 < k + 1 /\ j + 1 \in 1..n /\ k + 1 \in 1..n
    BY <1>2, <1>5
  <2>2. owed[j + 1].regs[4] <= Below(owed[k + 1])
    BY <2>1 DEF Resumable
  <2> QED
    BY <1>2, <2>2
<1> QED
  BY <1>1, <1>3, <1>4, <1>5 DEF Resumable, rest

\* Decoding leaves the stack and the flags alone.
LEMMA DecodedStack ==
    ASSUME NEW s \in Machine
    PROVE  LET d == Decoded(s)
           IN  /\ d \in Machine /\ d.sp = s.sp /\ d.ram = s.ram
               /\ d.a = s.a /\ d.x = s.x /\ d.y = s.y
<1> DEFINE pc == W16(W16(s.pc + 1) + Operand(Mode(Fetched(s)), [s EXCEPT !.pc = W16(@ + 1)]).len)
           clock == s.clock + Cycle(Fetched(s))
                     + Operand(Mode(Fetched(s)), [s EXCEPT !.pc = W16(@ + 1)]).extra
<1>1. Decoded(s) = [s EXCEPT !.pc = pc, !.clock = clock]
  BY DEF Decoded, Machine
<1> HIDE DEF pc, clock
<1>2. Decoded(s).sp = s.sp /\ Decoded(s).ram = s.ram
  BY <1>1 DEF Machine
<1> QED
  BY <1>2, DecodedType

\* An interrupt leaves a frame that is intact.
LEMMA InterruptOwes ==
    ASSUME NEW s \in Machine, NEW e \in Machine, NEW op \in {"BRK", "NMI"},
           e.sp = s.sp, e.ram = s.ram, e.n = s.n, e.v = s.v, e.d = s.d, e.i = s.i,
           e.z = s.z, e.c = s.c,
           NEW b, NEW vector \in Word, vector + 1 \in Word, s.sp >= 3,
           NEW owed \in Seq(Frames), Resumable(owed, s.sp, s.ram)
    PROVE  LET t == Interrupt(s, e.pc, b, vector)
           IN  t \in Machine /\ Resumable(<<Frame(op, e)>> \o owed, t.sp, t.ram)
<1> DEFINE t == Interrupt(s, e.pc, b, vector)
           f == Frame(op, e)
<1>1. s.sp \in Byte /\ s.sp \in Int /\ e.pc \in Word
  BY Ranges DEF Machine
<1>2. /\ t \in Machine /\ t.sp = s.sp - 3
      /\ t.ram[256 + s.sp] = Hi(e.pc) /\ t.ram[256 + s.sp - 1] = Lo(e.pc)
      /\ FlagsIn(t.ram[256 + s.sp - 2], s)
      /\ \A k \in Byte : k > s.sp => t.ram[256 + k] = s.ram[256 + k]
  BY <1>1, InterruptStores
<1>3. /\ f \in Frames /\ f.op = op /\ f.stack = Stack(e)
      /\ f.regs[4] = s.sp /\ f.regs[5] = e.pc
      /\ f.regs[6] = s.n /\ f.regs[7] = s.v /\ f.regs[8] = s.d
      /\ f.regs[9] = s.i /\ f.regs[10] = s.z /\ f.regs[11] = s.c
  BY FrameIs DEF Frames
<1>4. Stack(e) = [i \in (s.sp + 1)..255 |-> s.ram[256 + i]]
  BY DEF Stack
<1> HIDE DEF t, f
<1>5. f.op # "JSR" /\ FrameBytes(f) = 3 /\ Saved(f) = e.pc /\ Below(f) = t.sp
  BY <1>2, <1>3 DEF FrameBytes, Saved, Below
<1>6. Intact(f, t.ram)
  <2>1. 256 + s.sp - 1 = 256 + (s.sp - 1) /\ 256 + s.sp - 2 = 256 + (s.sp - 2)
    BY <1>1
  <2>2. FlagsOf(t.ram[256 + (s.sp - 2)], f)
    BY <1>2, <1>3, <2>1 DEF FlagsOf, FlagsIn
  <2>3. \A i \in (s.sp + 1)..255 : t.ram[256 + i] = s.ram[256 + i]
    <3>1. \A i \in (s.sp + 1)..255 : i \in Byte /\ i > s.sp
      BY <1>1, Ranges
    <3> QED
      BY <1>2, <3>1
  <2>4. f.stack = [i \in (s.sp + 1)..255 |-> t.ram[256 + i]]
    BY <1>3, <1>4, <2>3
  <2> QED
    BY <1>1, <1>2, <1>3, <1>5, <2>1, <2>2, <2>4 DEF Intact
<1>7. Resumable(<<f>> \o owed, Below(f), t.ram)
  <2>1. /\ f \in Frames /\ f.regs[4] = s.sp /\ s.sp \in Byte
        /\ \A k \in Byte : k > s.sp => t.ram[256 + k] = s.ram[256 + k]
    BY <1>1, <1>2, <1>3
  <2> QED
    BY <1>6, <2>1, ResumableCalled
<1> QED
  BY <1>2, <1>5, <1>7 DEF t, f

\* A call leaves a frame that is intact.
LEMMA CallOwes ==
    ASSUME NEW s \in Machine, NEW addr \in Word, s.sp >= 2,
           NEW owed \in Seq(Frames), Resumable(owed, s.sp, s.ram)
    PROVE  LET t == ExecStack("JSR", addr, s)
           IN  Resumable(<<Frame("JSR", s)>> \o owed, t.sp, t.ram)
<1> DEFINE u == PushWord(s, AfterJsr(s.pc))
           t == ExecStack("JSR", addr, s)
           f == Frame("JSR", s)
<1>1. s.sp \in Byte /\ s.sp \in Int /\ s.pc \in Word
  BY Ranges DEF Machine
<1>2. /\ u \in Machine /\ u.sp = s.sp - 2
      /\ u.ram[256 + s.sp] = Hi(AfterJsr(s.pc)) /\ u.ram[256 + s.sp - 1] = Lo(AfterJsr(s.pc))
      /\ \A k \in Byte : k > s.sp => u.ram[256 + k] = s.ram[256 + k]
  BY <1>1, Rejoined, PushWordStores
<1>3. t = [u EXCEPT !.pc = addr]
  BY DEF ExecStack
<1>4. /\ f \in Frames /\ f.op = "JSR" /\ f.stack = Stack(s)
      /\ f.regs[4] = s.sp /\ f.regs[5] = s.pc
  BY FrameIs DEF Frames
<1>5. Stack(s) = [i \in (s.sp + 1)..255 |-> s.ram[256 + i]]
  BY DEF Stack
<1> HIDE DEF u, t, f
<1>6. t.sp = u.sp /\ t.ram = u.ram
  BY <1>2, <1>3 DEF Machine
<1>7. FrameBytes(f) = 2 /\ Saved(f) = AfterJsr(s.pc) /\ Below(f) = t.sp
  BY <1>2, <1>4, <1>6 DEF FrameBytes, Saved, Below
<1>8. Intact(f, t.ram)
  <2>1. 256 + s.sp - 1 = 256 + (s.sp - 1)
    BY <1>1
  <2>2. \A i \in (s.sp + 1)..255 : u.ram[256 + i] = s.ram[256 + i]
    <3>1. \A i \in (s.sp + 1)..255 : i \in Byte /\ i > s.sp
      BY <1>1, Ranges
    <3> QED
      BY <1>2, <3>1
  <2>3. f.stack = [i \in (s.sp + 1)..255 |-> t.ram[256 + i]]
    BY <1>4, <1>5, <1>6, <2>2
  <2> QED
    BY <1>1, <1>2, <1>4, <1>6, <1>7, <2>1, <2>3 DEF Intact
<1>9. Resumable(<<f>> \o owed, Below(f), t.ram)
  BY <1>1, <1>2, <1>4, <1>6, <1>8, ResumableCalled
<1> QED
  BY <1>7, <1>9 DEF t, f

\* RTS takes the address of an intact frame, and only that.
LEMMA RtsReturns ==
    ASSUME NEW s \in Machine, NEW addr, NEW f, Intact(f, s.ram), f.op = "JSR",
           s.sp = Below(f)
    PROVE  LET t == ExecStack("RTS", addr, s)
           IN  /\ t.sp = f.regs[4] /\ t.ram = s.ram
               /\ t.pc = f.regs[5] /\ Stack(t) = f.stack
<1> DEFINE u == Pop(Pop(s))
           t == ExecStack("RTS", addr, s)
<1>1. /\ s.sp \in Int /\ f.regs[4] \in Int /\ f.regs[4] <= 255
      /\ s.sp = f.regs[4] - 2
  <2>1. FrameBytes(f) = 2
    BY DEF FrameBytes
  <2> QED
    BY <2>1, BelowIs
<1>2. /\ u = [s EXCEPT !.sp = s.sp + 2]
      /\ TopWord(s) = WordOf(s.ram[256 + (s.sp + 1)], s.ram[256 + (s.sp + 2)])
  <2>1. s.sp <= 253
    BY <1>1
  <2> QED
    BY <2>1, PopWordTakes
<1>3. t = [u EXCEPT !.pc = RtsAddress(TopWord(s))]
  BY DEF ExecStack
<1> HIDE DEF u, t
<1>4. t.sp = s.sp + 2 /\ t.ram = s.ram /\ t.pc = RtsAddress(TopWord(s))
  BY <1>2, <1>3 DEF Machine
<1>5. /\ f.regs[5] \in Word
      /\ s.ram[256 + (s.sp + 2)] = Hi(AfterJsr(f.regs[5]))
      /\ s.ram[256 + (s.sp + 1)] = Lo(AfterJsr(f.regs[5]))
  <2>1. f.regs[4] = s.sp + 2 /\ f.regs[4] - 1 = s.sp + 1
    BY <1>1
  <2> QED
    BY <2>1 DEF Intact, Saved
<1>6. t.pc = f.regs[5]
  <2> DEFINE w == AfterJsr(f.regs[5])
  <2>1. w \in Word /\ RtsAddress(w) = f.regs[5]
    BY <1>5, Rejoined
  <2> HIDE DEF w
  <2>2. WordOf(Lo(w), Hi(w)) = w
    BY <2>1, Rejoined
  <2> QED
    BY <1>2, <1>4, <1>5, <2>1, <2>2 DEF w
<1>7. t.sp = f.regs[4]
  BY <1>1, <1>4
<1>8. Stack(t) = f.stack
  BY <1>4, <1>7 DEF Stack, Intact
<1> QED
  BY <1>4, <1>6, <1>7, <1>8 DEF t

\* RTI takes the flags and the address.
LEMMA RtiReturns ==
    ASSUME NEW s \in Machine, NEW addr, NEW f \in Frames, Intact(f, s.ram), f.op # "JSR",
           s.sp = Below(f), \A i \in 1..3 : Registers(s)[i] = f.regs[i]
    PROVE  LET t == ExecStack("RTI", addr, s)
           IN  /\ t.sp = f.regs[4] /\ t.ram = s.ram
               /\ Registers(t) = f.regs /\ Stack(t) = f.stack
<1> DEFINE o == Pop(s)
           p == Top(Pop(s))
           q == setp(o, p)
           u == Pop(Pop(q))
           t == ExecStack("RTI", addr, s)
<1>1. /\ s.sp \in Int /\ f.regs[4] \in Int /\ f.regs[4] <= 255
      /\ s.sp = f.regs[4] - 3
  <2>1. FrameBytes(f) = 3
    BY DEF FrameBytes
  <2> QED
    BY <2>1, BelowIs
<1>2. /\ o \in Machine /\ o = [s EXCEPT !.sp = s.sp + 1]
      /\ p = s.ram[256 + (s.sp + 1)]
  <2>1. s.sp <= 254
    BY <1>1
  <2> QED
    BY <2>1, PopTakes
<1>3. t = [u EXCEPT !.pc = TopWord(q)]
  BY DEF ExecStack
<1> HIDE DEF t, o, p
<1>4. /\ q \in Machine
      /\ q = [o EXCEPT !.n = BitOf(p, 7), !.v = BitOf(p, 6), !.d = BitOf(p, 3),
                       !.i = BitOf(p, 2), !.z = BitOf(p, 1), !.c = BitOf(p, 0)]
  <2>1. q = [o EXCEPT !.n = BitOf(p, 7), !.v = BitOf(p, 6), !.d = BitOf(p, 3),
                      !.i = BitOf(p, 2), !.z = BitOf(p, 1), !.c = BitOf(p, 0)]
    BY DEF setp
  <2> QED
    BY <1>2, <2>1, FlagsSet DEF Keeps
<1> HIDE DEF q
<1>5. FlagsOf(p, f) /\ f.regs[5] \in Word
      /\ s.ram[256 + (s.sp + 3)] = Hi(f.regs[5])
      /\ s.ram[256 + (s.sp + 2)] = Lo(f.regs[5])
  <2>1. f.regs[4] = s.sp + 3 /\ f.regs[4] - 1 = s.sp + 2 /\ f.regs[4] - 2 = s.sp + 1
    BY <1>1
  <2> QED
    BY <1>2, <2>1 DEF Intact, Saved
<1>6. /\ q.sp = s.sp + 1 /\ q.ram = s.ram /\ q.a = s.a /\ q.x = s.x /\ q.y = s.y
      /\ q.n = f.regs[6] /\ q.v = f.regs[7] /\ q.d = f.regs[8]
      /\ q.i = f.regs[9] /\ q.z = f.regs[10] /\ q.c = f.regs[11]
  <2>1. /\ q.sp = o.sp /\ q.ram = o.ram /\ q.a = o.a /\ q.x = o.x /\ q.y = o.y
        /\ q.n = BitOf(p, 7) /\ q.v = BitOf(p, 6) /\ q.d = BitOf(p, 3)
        /\ q.i = BitOf(p, 2) /\ q.z = BitOf(p, 1) /\ q.c = BitOf(p, 0)
    <3> DEFINE b(k) == BitOf(p, k)
    <3>1. q = [o EXCEPT !.n = b(7), !.v = b(6), !.d = b(3),
                        !.i = b(2), !.z = b(1), !.c = b(0)]
      BY <1>4
    <3> HIDE DEF b
    <3>2. /\ q.sp = o.sp /\ q.ram = o.ram /\ q.a = o.a /\ q.x = o.x /\ q.y = o.y
          /\ q.n = b(7) /\ q.v = b(6) /\ q.d = b(3)
          /\ q.i = b(2) /\ q.z = b(1) /\ q.c = b(0)
      BY <1>2, <3>1 DEF Machine
    <3> QED
      BY <3>2 DEF b
  <2>2. o.sp = s.sp + 1 /\ o.ram = s.ram /\ o.a = s.a /\ o.x = s.x /\ o.y = s.y
    BY <1>2 DEF Machine
  <2> QED
    BY <1>5, <2>1, <2>2 DEF FlagsOf
<1>7. /\ u = [q EXCEPT !.sp = q.sp + 2]
      /\ TopWord(q) = WordOf(q.ram[256 + (q.sp + 1)], q.ram[256 + (q.sp + 2)])
  <2>1. q.sp <= 253
    BY <1>1, <1>6
  <2> QED
    BY <1>4, <2>1, PopWordTakes
<1> HIDE DEF u
<1>8. TopWord(q) = f.regs[5]
  <2>1. q.sp + 1 = s.sp + 2 /\ q.sp + 2 = s.sp + 3
    BY <1>1, <1>6
  <2>2. WordOf(Lo(f.regs[5]), Hi(f.regs[5])) = f.regs[5]
    BY <1>5, Rejoined
  <2> QED
    BY <1>5, <1>6, <1>7, <2>1, <2>2
<1>9. /\ t.sp = q.sp + 2 /\ t.ram = q.ram /\ t.pc = f.regs[5]
      /\ t.a = q.a /\ t.x = q.x /\ t.y = q.y /\ t.n = q.n /\ t.v = q.v
      /\ t.d = q.d /\ t.i = q.i /\ t.z = q.z /\ t.c = q.c
  BY <1>3, <1>4, <1>7, <1>8 DEF Machine
<1>10. t.sp = f.regs[4]
  BY <1>1, <1>6, <1>9
<1>11. s.a = f.regs[1] /\ s.x = f.regs[2] /\ s.y = f.regs[3]
  BY DEF Registers
<1>12. Registers(t) = f.regs
  <2>1. PICK op \in {"JSR", "BRK", "NMI"}, e \in Machine : f = Frame(op, e)
    BY DEF Frames
  <2>2. f.regs = Registers(e)
    BY <2>1, FrameIs
  <2> QED
    BY <1>6, <1>9, <1>10, <1>11, <2>2 DEF Registers
<1>13. Stack(t) = f.stack
  BY <1>6, <1>9, <1>10 DEF Stack, Intact
<1> QED
  BY <1>6, <1>9, <1>10, <1>12, <1>13 DEF t

\* What is owed is in order as long as the program obeys.
OwedInv ==
    /\ calls \in Seq(Frames)
    /\ obeys => Resumable(calls, st.sp, st.ram)

\* The frame of an NMI that comes before a step, and the step's machine.
LEMMA NmiOwes ==
    ASSUME CpuInv, OwedInv, turn = "cpu", NEW input \in Byte
    PROVE  LET s == [st EXCEPT !.input = input]
           IN  /\ s \in Machine /\ s.sp = st.sp /\ s.ram = st.ram
               /\ Owed(s) \in Seq(Frames)
               /\ obeys /\ (nmi => st.sp >= 3) =>
                      Resumable(Owed(s), AtFetch(s).sp, AtFetch(s).ram)
<1> DEFINE s == [st EXCEPT !.input = input]
           u == [s EXCEPT !.clock = s.clock + 7]
<1>1. s \in Machine /\ s.sp = st.sp /\ s.ram = st.ram
  BY DEF CpuInv, Machine
<1> HIDE DEF s
<1>2. CASE ~nmi
  <2>1. Owed(s) = calls /\ AtFetch(s) = s
    BY <1>2 DEF Owed, AtFetch
  <2> QED
    BY <1>1, <2>1 DEF OwedInv, s
<1>3. CASE nmi
  <2>1. Owed(s) = <<Frame("NMI", s)>> \o calls
    BY <1>3 DEF Owed
  <2>2. Owed(s) \in Seq(Frames)
    <3>1. Frame("NMI", s) \in Frames /\ calls \in Seq(Frames)
      BY <1>1 DEF Frames, OwedInv
    <3> QED
      BY <2>1, <3>1
  <2>3. /\ u \in Machine /\ s.sp = u.sp /\ s.ram = u.ram /\ s.n = u.n /\ s.v = u.v
        /\ s.d = u.d /\ s.i = u.i /\ s.z = u.z /\ s.c = u.c /\ s.pc \in Word
    BY <1>1 DEF Machine
  <2>4. AtFetch(s) = Interrupt(u, s.pc, FALSE, NmiVector)
    BY <1>1, <1>3 DEF AtFetch, exec_nmi, PushedPc, Machine
  <2> HIDE DEF u
  <2>5. NmiVector \in Word /\ NmiVector + 1 \in Word
    BY Ranges DEF NmiVector
  <2>6. ASSUME obeys, st.sp >= 3
        PROVE  Resumable(Owed(s), AtFetch(s).sp, AtFetch(s).ram)
    <3>1. calls \in Seq(Frames) /\ Resumable(calls, u.sp, u.ram) /\ u.sp >= 3
      BY <1>1, <2>3, <2>6 DEF OwedInv
    <3> DEFINE t(b) == Interrupt(u, s.pc, b, NmiVector)
    <3>2. \A b : Resumable(<<Frame("NMI", s)>> \o calls, t(b).sp, t(b).ram)
      BY <1>1, <2>3, <2>5, <3>1, InterruptOwes
    <3> QED
      BY <2>1, <2>4, <3>2
  <2> QED
    BY <1>1, <1>3, <2>2, <2>6 DEF s
<1> QED
  BY <1>2, <1>3

\* A step of a program that obeys leaves what is owed in order.
LEMMA StepOwes ==
    ASSUME NEW s \in Machine, NEW owed \in Seq(Frames), Resumable(owed, s.sp, s.ram),
           Obeys(Op(Fetched(s)), Decoded(s), owed, Step(s))
    PROVE  Resumable(OwedAfter(Op(Fetched(s)), Decoded(s), owed), Step(s).sp, Step(s).ram)
<1> DEFINE d == Decoded(s)
           op == Op(Fetched(s))
           addr == OperandAddr(s)
           t == Step(s)
           after == OwedAfter(op, d, owed)
<1>1. d \in Machine /\ addr \in Word /\ Resumable(owed, d.sp, d.ram) /\ t \in Machine
  BY DecodedStack, DecodedType, StepType
<1>2. Obeys(op, d, owed, t)
  OBVIOUS
<1>3. op \in StackOps => t = ExecStack(op, addr, d)
  BY Kinds DEF Step, Exec
<1> SUFFICES Resumable(after, t.sp, t.ram)
  OBVIOUS
<1> HIDE DEF d, op, addr, t, after
<1>4. CASE op = "JSR"
  <2>1. t = ExecStack("JSR", addr, d) /\ d.sp >= 2 /\ after = <<Frame("JSR", d)>> \o owed
    BY <1>2, <1>3, <1>4 DEF StackOps, Obeys, OwedAfter, after
  <2> QED
    BY <1>1, <2>1, CallOwes
<1>5. CASE op = "BRK"
  <2> DEFINE e == [d EXCEPT !.pc = W16(d.pc + 1)]
             vector == 65534
             r(b) == Interrupt(d, e.pc, b, vector)
  <2>1. W16(d.pc + 1) \in Word
    <3>1. d.pc \in Int
      BY <1>1, Ranges DEF Machine
    <3> QED
      BY <3>1, Cut
  <2>2. /\ e \in Machine /\ e.pc = W16(d.pc + 1) /\ e.sp = d.sp /\ e.ram = d.ram
        /\ e.n = d.n /\ e.v = d.v /\ e.d = d.d /\ e.i = d.i /\ e.z = d.z /\ e.c = d.c
    BY <1>1, <2>1 DEF Machine
  <2>3. /\ t = Interrupt(d, W16(d.pc + 1), TRUE, vector) /\ d.sp >= 3
    BY <1>2, <1>3, <1>5 DEF StackOps, Obeys, ExecStack
  <2>4. after = <<Frame("BRK", e)>> \o owed
    BY <1>5 DEF OwedAfter, after
  <2>5. vector \in Word /\ vector + 1 \in Word
    BY Ranges
  <2>6. t = r(TRUE)
    BY <2>2, <2>3
  <2> HIDE DEF e, vector
  <2>7. \A b : Resumable(<<Frame("BRK", e)>> \o owed, r(b).sp, r(b).ram)
    <3> TAKE b
    <3>1. "BRK" \in {"BRK", "NMI"}
      OBVIOUS
    <3> QED
      BY <1>1, <2>2, <2>3, <2>5, <3>1, InterruptOwes
  <2> HIDE DEF r
  <2> QED
    BY <2>4, <2>6, <2>7
<1>6. CASE op \in {"RTS", "RTI"}
  <2>1. /\ owed # <<>> /\ d.sp = Floor(owed) /\ after = Tail(owed)
        /\ op = "RTS" <=> Head(owed).op = "JSR"
        /\ op = "RTI" => \A i \in 1..3 : Registers(d)[i] = Head(owed).regs[i]
    BY <1>2, <1>6 DEF Obeys, OwedAfter, after
  <2>2. Head(owed) \in Frames /\ Intact(Head(owed), d.ram) /\ d.sp = Below(Head(owed))
    <3>1. Head(owed) = owed[1] /\ 1 \in 1..Len(owed) /\ owed[1] \in Frames
      BY <2>1
    <3> QED
      BY <1>1, <2>1, <3>1 DEF Resumable, Floor
  <2>3. t.sp = Head(owed).regs[4] /\ t.ram = d.ram
    <3>1. CASE op = "RTS"
      BY <1>1, <1>3, <2>1, <2>2, <3>1, RtsReturns DEF StackOps
    <3>2. CASE op = "RTI"
      BY <1>1, <1>3, <2>1, <2>2, <3>2, RtiReturns DEF StackOps
    <3> QED
      BY <1>6, <3>1, <3>2
  <2> QED
    BY <1>1, <2>1, <2>3, ResumableReturned
<1>7. CASE op \notin {"JSR", "BRK", "RTS", "RTI"}
  <2>1. after = owed
    BY <1>7 DEF OwedAfter, after
  <2>2. /\ t.sp <= Floor(owed)
        /\ \A i \in (Floor(owed) + 1)..255 : t.ram[256 + i] = d.ram[256 + i]
    BY <1>2, <1>7 DEF Obeys
  <2>3. Floor(owed) \in Int
    BY <1>1, FloorIs
  <2>4. \A k \in Byte : k > Floor(owed) => t.ram[256 + k] = d.ram[256 + k]
    <3>1. \A k \in Byte : k > Floor(owed) => k \in (Floor(owed) + 1)..255
      BY <2>3, Ranges
    <3> QED
      BY <2>2, <3>1
  <2> QED
    BY <1>1, <2>1, <2>2, <2>4, ResumableKept
<1> QED
  BY <1>4, <1>5, <1>6, <1>7

\* A step adds a frame, takes one, or leaves them.
LEMMA OwedType ==
    ASSUME NEW op, NEW s \in Machine, NEW owed \in Seq(Frames)
    PROVE  OwedAfter(op, s, owed) \in Seq(Frames)
<1>1. CASE op = "JSR"
  <2>1. Frame("JSR", s) \in Frames
    BY DEF Frames
  <2> QED
    BY <1>1, <2>1 DEF OwedAfter
<1>2. CASE op = "BRK"
  <2> DEFINE e == [s EXCEPT !.pc = W16(s.pc + 1)]
  <2>1. W16(s.pc + 1) \in Word
    <3>1. s.pc \in Int
      BY Ranges DEF Machine
    <3> QED
      BY <3>1, Cut
  <2>2. e \in Machine
    BY <2>1 DEF Machine
  <2>3. OwedAfter(op, s, owed) = <<Frame("BRK", e)>> \o owed
    BY <1>2 DEF OwedAfter
  <2> HIDE DEF e
  <2>4. Frame("BRK", e) \in Frames
    BY <2>2 DEF Frames
  <2> QED
    BY <2>3, <2>4
<1>3. CASE op \in {"RTS", "RTI"} /\ owed # <<>>
  <2>1. Tail(owed) \in Seq(Frames)
    BY <1>3
  <2> QED
    BY <1>3, <2>1 DEF OwedAfter
<1>4. CASE op \notin {"JSR", "BRK"} /\ ~(op \in {"RTS", "RTI"} /\ owed # <<>>)
  BY <1>4 DEF OwedAfter
<1> QED
  BY <1>1, <1>2, <1>3, <1>4

\* Before the first step nothing is owed.
LEMMA InitOwed == Init => OwedInv
<1> SUFFICES ASSUME Init PROVE OwedInv
  OBVIOUS
<1>1. st = Reset /\ calls = <<>>
  BY DEF Init, StartsFrom
<1>2. st.sp = 253
  BY <1>1 DEF Reset
<1>3. calls \in Seq(Frames) /\ Len(calls) = 0 /\ Floor(calls) = 255
  BY <1>1 DEF Floor
<1>4. Resumable(calls, st.sp, st.ram)
  BY <1>2, <1>3 DEF Resumable
<1> QED
  BY <1>3, <1>4 DEF OwedInv

\* What a step of the CPU does, with the machine its instruction starts from.
LEMMA RunIs ==
    ASSUME CpuInv, OwedInv, NEW input \in Inputs, Run(input)
    PROVE  LET s  == [st EXCEPT !.input = input]
               s1 == AtFetch(s)
           IN  /\ s1 \in Machine /\ Owed(s) \in Seq(Frames)
               /\ st' = Step(s1) /\ st'.input = input
               /\ calls' = OwedAfter(Op(Fetched(s1)), Decoded(s1), Owed(s))
               /\ calls' \in Seq(Frames)
               /\ obeys' => /\ Obeys(Op(Fetched(s1)), Decoded(s1), Owed(s), Step(s1))
                            /\ Resumable(Owed(s), s1.sp, s1.ram)
<1> DEFINE s == [st EXCEPT !.input = input]
           s1 == AtFetch(s)
           op == Op(Fetched(s1))
<1>1. /\ turn = "cpu" /\ st' = Step(s1)
      /\ calls' = OwedAfter(op, Decoded(s1), Owed(s))
      /\ obeys' = (/\ obeys /\ (nmi => st.sp >= 3)
                   /\ Obeys(op, Decoded(s1), Owed(s), st'))
  BY DEF Run
<1>2. input \in Byte
  BY InputsAssumption
<1>3. s1 \in Machine /\ s1.input = input
  BY <1>1, <1>2, AtFetchType
<1>4. /\ Owed(s) \in Seq(Frames)
      /\ obeys /\ (nmi => st.sp >= 3) => Resumable(Owed(s), s1.sp, s1.ram)
  BY <1>1, <1>2, NmiOwes
<1> HIDE DEF s, s1, op
<1>5. st'.input = input
  BY <1>1, <1>3, StepType
<1>6. calls' \in Seq(Frames)
  BY <1>1, <1>3, <1>4, DecodedType, OwedType
<1>7. obeys' => /\ Obeys(op, Decoded(s1), Owed(s), Step(s1))
                /\ Resumable(Owed(s), s1.sp, s1.ram)
  BY <1>1, <1>4, Zenon
<1> QED
  BY <1>1, <1>3, <1>4, <1>5, <1>6, <1>7 DEF s, s1, op

\* Every step keeps what is owed in order.
LEMMA NextOwed == CpuInv /\ OwedInv /\ [Next]_vars => OwedInv'
<1> SUFFICES ASSUME CpuInv, OwedInv, [Next]_vars PROVE OwedInv'
  OBVIOUS
<1>1. ASSUME NEW input \in Inputs, Run(input) PROVE OwedInv'
  <2> DEFINE s == [st EXCEPT !.input = input]
             s1 == AtFetch(s)
  <2>1. /\ s1 \in Machine /\ Owed(s) \in Seq(Frames)
        /\ st' = Step(s1)
        /\ calls' = OwedAfter(Op(Fetched(s1)), Decoded(s1), Owed(s))
        /\ calls' \in Seq(Frames)
        /\ obeys' => /\ Obeys(Op(Fetched(s1)), Decoded(s1), Owed(s), Step(s1))
                     /\ Resumable(Owed(s), s1.sp, s1.ram)
    BY <1>1, RunIs
  <2> HIDE DEF s, s1
  <2>2. obeys' => Resumable(calls', st'.sp, st'.ram)
    BY <2>1, StepOwes
  <2> QED
    BY <2>1, <2>2 DEF OwedInv
<1>2. ASSUME NEW asks \in BOOLEAN, PpuRun(asks) PROVE OwedInv'
  <2>1. st' = [st EXCEPT !.clock = 0, !.bus = <<>>, !.input = 0]
        /\ calls' = calls /\ obeys' = obeys
    BY <1>2 DEF PpuRun
  <2>2. st'.sp = st.sp /\ st'.ram = st.ram
    BY <2>1 DEF CpuInv, Machine
  <2> QED
    BY <2>1, <2>2 DEF OwedInv
<1>3. CASE UNCHANGED vars
  BY <1>3 DEF vars, OwedInv
<1>4. CASE Done
  BY <1>4 DEF Done, vars, OwedInv
<1> QED
  BY <1>1, <1>2, <1>3, <1>4 DEF Next

\* The frames of every run are in order.
LEMMA SpecOwed == Spec => [](CpuInv /\ OwedInv)
<1>1. Init => CpuInv /\ OwedInv
  BY InitCpu, InitOwed
<1>2. (CpuInv /\ OwedInv) /\ [Next]_vars => (CpuInv /\ OwedInv)'
  BY NextCpu, NextOwed
<1> QED
  BY <1>1, <1>2, PTL DEF Spec

\* Whatever the program is, and however NMIs are nested into it: as long as it
\* uses the stack as a stack, RTS and RTI resume what the newest unfinished
\* call or interrupt left, with all registers and flags after an interrupt.
THEOREM ReturnsAreMatched == Spec => ReturnsMatch
<1> DEFINE s == [st EXCEPT !.input = st'.input]
           s1 == AtFetch(s)
           left == Head(Owed(s))
           op == Op(Fetched(s1))
           Match == /\ Stack(st') = left.stack
                    /\ op = "RTS" => st'.pc = left.regs[5]
                    /\ op = "RTI" => Registers(st') = left.regs
<1>1. ASSUME CpuInv, OwedInv, [Next]_vars, Runs, obeys', op \in {"RTS", "RTI"}
      PROVE  Match
  <2>1. PICK input \in Inputs : Run(input)
    BY <1>1 DEF Runs, Next, PpuRun, Done, vars
  <2>2. /\ st'.input = input /\ s1 \in Machine /\ Owed(s) \in Seq(Frames)
        /\ st' = Step(s1)
        /\ Obeys(op, Decoded(s1), Owed(s), Step(s1))
        /\ Resumable(Owed(s), s1.sp, s1.ram)
    <3>1. st'.input = input
      BY <1>1, <2>1, RunIs
    <3> QED
      BY <1>1, <2>1, <3>1, RunIs
  <2> DEFINE owed == Owed(s)
             d == Decoded(s1)
             addr == OperandAddr(s1)
  <2> HIDE DEF s, s1
  <2>3. d \in Machine /\ d.sp = s1.sp /\ d.ram = s1.ram
    BY <2>2, DecodedStack
  <2>4. st' = ExecStack(op, addr, d)
    BY <1>1, <2>2, Kinds DEF Step, Exec, StackOps
  <2> HIDE DEF owed, d, addr, op
  <2>5. /\ owed # <<>> /\ d.sp = Floor(owed)
        /\ op = "RTS" <=> Head(owed).op = "JSR"
        /\ op = "RTI" => \A i \in 1..3 : Registers(d)[i] = Head(owed).regs[i]
    BY <1>1, <2>2 DEF Obeys, owed, d
  <2>6. Head(owed) \in Frames /\ Intact(Head(owed), d.ram) /\ d.sp = Below(Head(owed))
    <3>1. owed \in Seq(Frames)
      BY <2>2 DEF owed
    <3>2. Head(owed) = owed[1] /\ 1 \in 1..Len(owed) /\ owed[1] \in Frames
      BY <2>5, <3>1
    <3>3. Resumable(owed, d.sp, d.ram)
      BY <2>2, <2>3 DEF owed
    <3> QED
      BY <2>5, <3>2, <3>3 DEF Resumable, Floor
  <2>7. CASE op = "RTS"
    BY <2>3, <2>4, <2>5, <2>6, <2>7, RtsReturns DEF owed
  <2>8. CASE op = "RTI"
    BY <2>3, <2>4, <2>5, <2>6, <2>8, RtiReturns DEF owed
  <2> QED
    BY <1>1, <2>7, <2>8
<1>2. CpuInv /\ OwedInv /\ [Next]_vars =>
          (Runs => (obeys' /\ op \in {"RTS", "RTI"} => Match))
  BY <1>1
<1> QED
  BY <1>2, SpecOwed, PTL DEF Spec, ReturnsMatch
=============================================================================
