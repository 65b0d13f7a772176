-------------------------------- MODULE Cpu --------------------------------
(***************************************************************************)
(* The CPU: Cpu::run executes one instruction, entering the NMI handler    *)
(* first when one is pending; then the PPU consumes the cycles of the step *)
(* and may ask for an NMI.  An instruction is a function of the machine's  *)
(* state s: registers, flags, cycle count, RAM, and bus, the device        *)
(* registers it has accessed as data so far.  A device register read as    *)
(* code or as a pointer returns input too, but is not noted in bus.        *)
(*                                                                         *)
(* Nothing in the program sets Irq::irq, so that exec_irq is never called; *)
(* it is left out.                                                         *)
(***************************************************************************)
EXTENDS Mem, Opcodes

CONSTANTS
    Inputs,         \* values a device register may return
    MaxSteps,       \* bound: instructions executed
    MaxNmis         \* bound: NMIs requested

\* Mem::get returns a uint8_t, whatever device answers.
ASSUME InputsAssumption == Inputs \subseteq Byte

\* The stack is the second page of the RAM.
ASSUME StackAssumption == RamSize >= 512

VARIABLES
    st,             \* the machine's state
    turn,           \* "cpu": Cpu::run is next, "ppu": Ppu::run is next
    nmi,            \* Irq::nmi
    steps,          \* Cpu::steps
    nmis,           \* history: NMIs requested so far
    calls,          \* history: the returns the program owes, newest first
    obeys           \* history: the program has used the stack as a stack

vars == <<st, turn, nmi, steps, nmis, calls, obeys>>

-----------------------------------------------------------------------------
(* Faulty variants of definitions below, substituted for them to see that  *)
(* the properties notice the slip; the specification does not use them.    *)

OverflowUnsigned(p, q, r) == r > 255
RtsAddressExact(w) == w
PushedPcNext(pc) == W16(pc + 1)
CrossedPages(from, to) == Hi(to) - Hi(from)
ByteUnbounded(n) == n

-----------------------------------------------------------------------------
(* Memory, flags and stack.                                                *)

\* Conversion of a result to uint8_t.
Trunc(n) == B8(n)

M(s, addr) == Get(s.ram, s.input, addr)

\* s after reading addr as data.
Touch(s, addr) ==
    IF ReadReg(addr) = "none" THEN s
    ELSE [s EXCEPT !.bus = Append(@, <<"get", ReadReg(addr)>>)]

Put(s, addr, v) ==
    LET t == [s EXCEPT !.ram = Set(@, addr, Trunc(v))]
    IN  IF WriteReg(addr) = "none" THEN t
        ELSE [t EXCEPT !.bus = Append(@, <<"set", WriteReg(addr)>>)]

set_zero_and_ng(s, r) == [s EXCEPT !.z = B8(r) = 0, !.n = Neg(B8(r))]

getp(s, b) ==
    128 * Num(s.n) + 64 * Num(s.v) + 8 * Num(s.d) + 4 * Num(s.i)
  + 2 * Num(s.z) + Num(s.c) + 32 + 16 * Num(b)

setp(s, p) ==
    [s EXCEPT !.n = BitOf(p, 7), !.v = BitOf(p, 6), !.d = BitOf(p, 3),
              !.i = BitOf(p, 2), !.z = BitOf(p, 1), !.c = BitOf(p, 0)]

Push(s, v) == [Put(s, 256 + s.sp, v) EXCEPT !.sp = B8(@ - 1)]
PushWord(s, w) == Push(Push(s, Hi(w)), Lo(w))

Pop(s) == [s EXCEPT !.sp = B8(@ + 1)]
Top(s) == M(s, 256 + s.sp)          \* after Pop
TopWord(s) == WordOf(Top(Pop(s)), Top(Pop(Pop(s))))

-----------------------------------------------------------------------------
(* Addressing modes: Cpu::get_addr.                                        *)

\* The penalty for an index that carries into the high byte.
Crossed(from, to) == Num(Hi(from) < Hi(to))

\* The operand's length, its address, and the extra cycles.  The condition of
\* IZYr shifts the sum twice and never holds.
Operand(mode, s) ==
    LET b     == M(s, s.pc)
        w     == WordOf(b, M(s, W16(s.pc + 1)))
        zx    == B8(b + s.x)
        ptr(z) == WordOf(M(s, z), M(s, B8(z + 1)))
        at(n, addr, extra) == [len |-> n, addr |-> W16(addr), extra |-> extra]
    IN  CASE mode = "IMP"  -> at(0, 0, 0)
          [] mode = "IMM"  -> at(1, s.pc, 0)
          [] mode = "ZP"   -> at(1, b, 0)
          [] mode = "REL"  -> at(1, b, 0)
          [] mode = "ZPX"  -> at(1, zx, 0)
          [] mode = "ZPY"  -> at(1, B8(b + s.y), 0)
          [] mode = "IZX"  -> at(1, ptr(zx), 0)
          [] mode = "IZY"  -> at(1, ptr(b) + s.y, 0)
          [] mode = "IZYr" -> at(1, ptr(b) + s.y,
                                 Crossed(ptr(b), Hi(ptr(b) + s.y)))
          [] mode = "ABS"  -> at(2, w, 0)
          [] mode = "ABX"  -> at(2, w + s.x, 0)
          [] mode = "ABXr" -> at(2, w + s.x, Crossed(w, w + s.x))
          [] mode = "ABY"  -> at(2, w + s.y, 0)
          [] mode = "ABYr" -> at(2, w + s.y, Crossed(w, w + s.y))
          [] mode = "IND"  -> at(2, WordOf(M(s, w),
                                  M(s, WordOf(B8(Lo(w) + 1), Hi(w)))), 0)

-----------------------------------------------------------------------------
(* Arithmetic.                                                             *)

AddC(p, q, c) == p + q + Num(c)

Overflow(p, q, r) == Neg(p) = Neg(q) /\ Neg(q) # Neg(B8(r))

Adc(s, v) ==
    LET r == AddC(s.a, v, s.c)
    IN  set_zero_and_ng([s EXCEPT !.c = r > 255, !.v = Overflow(s.a, v, r),
                                  !.a = Trunc(r)], r)

Sbc(s, v) == Adc(s, Not(v))

Compare(s, reg, v) ==
    LET r == AddC(reg, Not(v), TRUE)
    IN  set_zero_and_ng([s EXCEPT !.c = r > 255], r)

ShiftL(v, cin) == [r |-> 2 * v + Num(cin), c |-> 2 * v > 255]
ShiftR(v, cin) == [r |-> v \div 2 + 128 * Num(cin), c |-> v % 2 = 1]

Shift(op, v, c) ==
    CASE op \in {"ASL", "ASLA", "SLO"} -> ShiftL(v, FALSE)
      [] op \in {"ROL", "ROLA", "RLA"} -> ShiftL(v, c)
      [] op \in {"LSR", "LSRA", "SRE"} -> ShiftR(v, FALSE)
      [] op \in {"ROR", "RORA", "RRA"} -> ShiftR(v, c)

SetA(s, v) == set_zero_and_ng([s EXCEPT !.a = Trunc(v)], v)
SetX(s, v) == set_zero_and_ng([s EXCEPT !.x = Trunc(v)], v)
SetY(s, v) == set_zero_and_ng([s EXCEPT !.y = Trunc(v)], v)

\* Instructions that read their operand v.
ReadOps == {"ORA", "AND", "EOR", "ADC", "SBC", "CMP", "CPX", "CPY", "BIT",
            "LDA", "LDX", "LDY", "LAX", "ANC", "ALR", "ARR", "AXS"}

ExecRead(op, v, s) ==
    CASE op = "ORA" -> SetA(s, Or(s.a, v))
      [] op = "AND" -> SetA(s, And(s.a, v))
      [] op = "EOR" -> SetA(s, Xor(s.a, v))
      [] op = "ADC" -> Adc(s, v)
      [] op = "SBC" -> Sbc(s, v)
      [] op = "CMP" -> Compare(s, s.a, v)
      [] op = "CPX" -> Compare(s, s.x, v)
      [] op = "CPY" -> Compare(s, s.y, v)
      [] op = "BIT" -> [s EXCEPT !.n = BitOf(v, 7), !.v = BitOf(v, 6),
                                 !.z = And(s.a, v) = 0]
      [] op = "LDA" -> SetA(s, v)
      [] op = "LDX" -> SetX(s, v)
      [] op = "LDY" -> SetY(s, v)
      [] op = "LAX" -> SetX([s EXCEPT !.a = v], v)
      [] op = "ANC" -> LET t == SetA(s, And(s.a, v)) IN [t EXCEPT !.c = t.n]
      [] op = "ALR" -> LET h == ShiftR(And(s.a, v), FALSE)
                       IN  SetA([s EXCEPT !.c = h.c], h.r)
      [] op = "ARR" -> LET h == ShiftR(And(s.a, v), s.c)
                       IN  [SetA(s, h.r) EXCEPT
                              !.c = BitOf(h.r, 6),
                              !.v = BitOf(h.r, 6) # BitOf(h.r, 5)]
      [] op = "AXS" -> LET r == AddC(And(s.a, s.x), Not(v), TRUE)
                       IN  SetX([s EXCEPT !.c = r > 255], r)

\* Instructions that read, change and write their operand; the undocumented
\* ones combine the change with an operation on a.
ModifyOps == {"ASL", "ROL", "LSR", "ROR", "INC", "DEC", "SLO", "RLA", "SRE",
              "RRA", "DCP", "ISC"}

ExecModify(op, addr, s) ==
    LET v    == M(s, addr)
        r    == CASE op \in {"INC", "ISC"} -> B8(v + 1)
                  [] op \in {"DEC", "DCP"} -> B8(v - 1)
                  [] OTHER -> Shift(op, v, s.c).r
        cin  == IF op \in {"INC", "DEC", "DCP", "ISC"} THEN s.c
                ELSE Shift(op, v, s.c).c
        t    == [Put(Touch(s, addr), addr, r) EXCEPT !.c = cin]
    IN  CASE op = "SLO" -> SetA(t, Or(t.a, B8(r)))
          [] op = "RLA" -> SetA(t, And(t.a, B8(r)))
          [] op = "SRE" -> SetA(t, Xor(t.a, B8(r)))
          [] op = "RRA" -> Adc(t, B8(r))
          [] op = "DCP" -> Compare(t, t.a, r)
          [] op = "ISC" -> Sbc(t, r)
          [] OTHER -> set_zero_and_ng(t, r)

-----------------------------------------------------------------------------
(* Everything else an instruction does.                                    *)

\* The store instructions and what they store.
StoreOps == {"STA", "STX", "STY", "SAX"}

Stored(op, s) ==
    CASE op = "STA" -> s.a
      [] op = "STX" -> s.x
      [] op = "STY" -> s.y
      [] op = "SAX" -> And(s.a, s.x)

RegisterOps == {"ASLA", "ROLA", "LSRA", "RORA", "INX", "DEX", "INY", "DEY",
                "TAX", "TXA", "TAY", "TYA", "TSX", "TXS", "CLC", "SEC", "CLD",
                "SED", "CLI", "SEI", "CLV"}

ExecRegister(op, s) ==
    CASE op \in {"ASLA", "ROLA", "LSRA", "RORA"} ->
             LET h == Shift(op, s.a, s.c) IN SetA([s EXCEPT !.c = h.c], h.r)
      [] op = "INX" -> SetX(s, s.x + 1)
      [] op = "DEX" -> SetX(s, s.x - 1)
      [] op = "INY" -> SetY(s, s.y + 1)
      [] op = "DEY" -> SetY(s, s.y - 1)
      [] op = "TAX" -> SetX(s, s.a)
      [] op = "TXA" -> SetA(s, s.x)
      [] op = "TAY" -> SetY(s, s.a)
      [] op = "TYA" -> SetA(s, s.y)
      [] op = "TSX" -> SetX(s, s.sp)
      [] op = "TXS" -> [s EXCEPT !.sp = s.x]
      [] op = "CLC" -> [s EXCEPT !.c = FALSE]
      [] op = "SEC" -> [s EXCEPT !.c = TRUE]
      [] op = "CLD" -> [s EXCEPT !.d = FALSE]
      [] op = "SED" -> [s EXCEPT !.d = TRUE]
      [] op = "CLI" -> [s EXCEPT !.i = FALSE]
      [] op = "SEI" -> [s EXCEPT !.i = TRUE]
      [] op = "CLV" -> [s EXCEPT !.v = FALSE]

\* Stack and control flow.  RTS undoes the one that JSR subtracted.
AfterJsr(pc) == W16(pc - 1)
RtsAddress(w) == W16(w + 1)

\* The entry into BRK's and the NMI's handler.
Interrupt(s, pc, b, vector) ==
    LET t == Push(PushWord(s, pc), getp(s, b))
    IN  [t EXCEPT !.i = TRUE, !.pc = WordOf(M(t, vector), M(t, vector + 1))]

StackOps == {"PHA", "PLA", "PHP", "PLP", "BRK", "RTI", "JSR", "RTS"}

ExecStack(op, addr, s) ==
    CASE op = "PHA" -> Push(s, s.a)
      [] op = "PLA" -> SetA(Pop(s), Top(Pop(s)))
      [] op = "PHP" -> Push(s, getp(s, TRUE))
      [] op = "PLP" -> setp(Pop(s), Top(Pop(s)))
      [] op = "BRK" -> Interrupt(s, W16(s.pc + 1), TRUE, 65534)   \* 0xfffe
      [] op = "RTI" -> LET t == setp(Pop(s), Top(Pop(s)))
                       IN  [Pop(Pop(t)) EXCEPT !.pc = TopWord(t)]
      [] op = "JSR" -> [PushWord(s, AfterJsr(s.pc)) EXCEPT !.pc = addr]
      [] op = "RTS" -> [Pop(Pop(s)) EXCEPT !.pc = RtsAddress(TopWord(s))]

BranchOps == {"BPL", "BMI", "BVC", "BVS", "BCC", "BCS", "BNE", "BEQ"}

Taken(op, s) ==
    CASE op = "BPL" -> ~s.n  [] op = "BMI" -> s.n
      [] op = "BVC" -> ~s.v  [] op = "BVS" -> s.v
      [] op = "BCC" -> ~s.c  [] op = "BCS" -> s.c
      [] op = "BNE" -> ~s.z  [] op = "BEQ" -> s.z

doBranch(taken, rel, s) ==
    LET to == W16(s.pc + (IF rel > 127 THEN rel - 256 ELSE rel))
    IN  IF taken
        THEN [s EXCEPT !.pc = to, !.clock = @ + 1 + Num(Hi(s.pc) # Hi(to))]
        ELSE s

\* Cpu::exe_instruction; NOP, and the eight bytes that are UNI, do nothing.
Exec(op, addr, s) ==
    CASE op \in ReadOps     -> ExecRead(op, M(s, addr), Touch(s, addr))
      [] op \in ModifyOps   -> ExecModify(op, addr, s)
      [] op \in StoreOps    -> Put(s, addr, Stored(op, s))
      [] op \in RegisterOps -> ExecRegister(op, s)
      [] op \in StackOps    -> ExecStack(op, addr, s)
      [] op \in BranchOps   -> doBranch(Taken(op, s), addr, s)
      [] op = "JMP"         -> [s EXCEPT !.pc = addr]
      [] op = "KIL"         -> [s EXCEPT !.pc = W16(@ - 1)]
      [] OTHER              -> s

-----------------------------------------------------------------------------
(* The CPU's step.                                                         *)

NmiVector == 65530                                              \* 0xfffa

\* The NMI returns to the instruction it precedes.
PushedPc(pc) == pc

exec_nmi(s) ==
    Interrupt([s EXCEPT !.clock = @ + 7], PushedPc(s.pc), FALSE, NmiVector)

\* The machine when the step's instruction is fetched.
AtFetch(s) == IF nmi THEN exec_nmi(s) ELSE s

Fetched(s) == M(s, s.pc)

\* The machine after an instruction was fetched and its address computed.
Decoded(s) ==
    LET t == [s EXCEPT !.pc = W16(@ + 1)]
        o == Operand(Mode(Fetched(s)), t)
    IN  [t EXCEPT !.pc = W16(@ + o.len),
                  !.clock = @ + Cycle(Fetched(s)) + o.extra]

OperandAddr(s) ==
    Operand(Mode(Fetched(s)), [s EXCEPT !.pc = W16(@ + 1)]).addr

Step(s) == Exec(Op(Fetched(s)), OperandAddr(s), Decoded(s))

Registers(s) ==
    <<s.a, s.x, s.y, s.sp, s.pc, s.n, s.v, s.d, s.i, s.z, s.c>>

\* The part of the stack in use.
Stack(s) == [i \in (s.sp + 1)..255 |-> s.ram[256 + i]]

\* What the program owes: where to return to, and for an interrupt the whole
\* state of what it interrupted.
Frame(op, s) == [op |-> op, regs |-> Registers(s), stack |-> Stack(s)]

Owed(s) == IF nmi THEN <<Frame("NMI", s)>> \o calls ELSE calls

OwedAfter(op, s, owed) ==
    CASE op = "JSR" -> <<Frame("JSR", s)>> \o owed
      [] op = "BRK" -> <<Frame("BRK", [s EXCEPT !.pc = W16(@ + 1)])>> \o owed
      [] op \in {"RTS", "RTI"} /\ owed # <<>> -> Tail(owed)
      [] OTHER -> owed

\* The last byte the program may use below the newest frame.
FrameBytes(frame) == IF frame.op = "JSR" THEN 2 ELSE 3

Below(frame) == frame.regs[4] - FrameBytes(frame)

Floor(owed) == IF owed = <<>> THEN 255 ELSE Below(Head(owed))

\* What the code expects of a program, and cannot enforce: the stack does not
\* wrap; a return finds the frame of its kind on top, and a handler ends with
\* the registers it began with; nothing else touches a frame.
Obeys(op, s, owed, t) ==
    CASE op = "JSR" -> s.sp >= 2
      [] op = "BRK" -> s.sp >= 3
      [] op = "RTS" ->
             owed # <<>> /\ Head(owed).op = "JSR" /\ s.sp = Floor(owed)
      [] op = "RTI" ->
             /\ owed # <<>> /\ Head(owed).op # "JSR" /\ s.sp = Floor(owed)
             /\ \A i \in 1..3 : Registers(s)[i] = Head(owed).regs[i]
      [] OTHER ->
             /\ t.sp <= Floor(owed)
             /\ \A i \in (Floor(owed) + 1)..255 : t.ram[256 + i] = s.ram[256 + i]

Run(input) ==
    /\ turn = "cpu" /\ steps < MaxSteps
    /\ LET s  == [st EXCEPT !.input = input]
           s1 == AtFetch(s)
           op == Op(Fetched(s1))
       IN  /\ st' = Step(s1)
           /\ calls' = OwedAfter(op, Decoded(s1), Owed(s))
           /\ obeys' = /\ obeys
                       /\ nmi => st.sp >= 3
                       /\ Obeys(op, Decoded(s1), Owed(s), st')
    /\ nmi' = FALSE
    /\ turn' = "ppu" /\ steps' = steps + 1
    /\ UNCHANGED nmis

\* Ppu::run(cpuclock), of which only the NMI matters here, and
\* clear_cpucycle; the record of the step's accesses is dropped.
PpuRun(asks) ==
    /\ turn = "ppu"
    /\ asks => nmis < MaxNmis
    /\ nmi' = (nmi \/ asks)
    /\ nmis' = nmis + Num(asks)
    /\ st' = [st EXCEPT !.clock = 0, !.bus = <<>>, !.input = 0]
    /\ turn' = "cpu"
    /\ UNCHANGED <<steps, calls, obeys>>

\* The bound on the steps is reached.
Done == turn = "cpu" /\ steps = MaxSteps /\ UNCHANGED vars

Next ==
    \/ \E input \in Inputs : Run(input)
    \/ \E asks \in BOOLEAN : PpuRun(asks)
    \/ Done

\* Cpu::reset and Mem::reset, and the start at the vector of 0xfffc.
Reset ==
    [a |-> 0, x |-> 0, y |-> 0, sp |-> 253,
     pc |-> WordOf(Rom(65532), Rom(65533)),
     n |-> FALSE, v |-> FALSE, d |-> FALSE, i |-> TRUE, z |-> FALSE,
     c |-> FALSE, clock |-> 7, ram |-> [addr \in 0..(RamSize - 1) |-> 0],
     bus |-> <<>>, input |-> 0]

StartsFrom(s) ==
    /\ st = s
    /\ turn = "cpu" /\ nmi = FALSE /\ steps = 0 /\ nmis = 0
    /\ calls = <<>> /\ obeys = TRUE

Init == StartsFrom(Reset)

Spec == Init /\ [][Next]_vars

-----------------------------------------------------------------------------
(* Properties.                                                             *)

\* Registers, flags and memory keep their types: every result is cut to the
\* width of the register that receives it.
TypeOK ==
    /\ {st.a, st.x, st.y, st.sp} \subseteq Byte /\ st.pc \in Word
    /\ {st.n, st.v, st.d, st.i, st.z, st.c} \subseteq BOOLEAN
    /\ \A addr \in 0..(RamSize - 1) : st.ram[addr] \in Byte
    /\ turn \in {"cpu", "ppu"} /\ nmi \in BOOLEAN

\* The machine a step starts from, as the properties below see it.
Before == AtFetch([st EXCEPT !.input = st'.input])

Runs == turn = "cpu" /\ turn' = "ppu"

\* What FrameLoop assumes of a step: it takes 2 to 8 cycles besides the NMI's
\* 7, and it writes at most one register of a device, the last of its
\* accesses, in an instruction of 4 cycles or more (an NMI's pushes aside).
StepFitsLoop ==
    [][Runs =>
        LET cost == st'.clock - Before.clock
            sets == {k \in 1..Len(st'.bus) : st'.bus[k][1] = "set"}
        IN  /\ cost \in 2..8
            /\ Len(st'.bus) <= 2
            /\ sets \subseteq {Len(st'.bus)}
            /\ sets # {} => cost >= 4]_vars

\* ADC, SBC and the comparisons against integer arithmetic: carry and result
\* are the sum or difference, overflow is the signed result leaving its range.
Signed(b) == IF Neg(b) THEN b - 256 ELSE b

ArithmeticExact ==
    [][Runs =>
        LET s  == Before
            op == Op(Fetched(s))
            v  == M(Decoded(s), OperandAddr(s))
            t  == st'
        IN  /\ op = "ADC" =>
                  /\ t.a + 256 * Num(t.c) = s.a + v + Num(s.c)
                  /\ t.v <=> Signed(s.a) + Signed(v) + Num(s.c) \notin -128..127
            /\ op = "SBC" =>
                  /\ t.a - 256 * Num(~t.c) = s.a - v - Num(~s.c)
                  /\ t.v <=> Signed(s.a) - Signed(v) - Num(~s.c) \notin -128..127
            /\ op = "CMP" => (t.c <=> s.a >= v) /\ (t.z <=> s.a = v)
            /\ op = "CPX" => (t.c <=> s.x >= v) /\ (t.z <=> s.x = v)
            /\ op = "CPY" => (t.c <=> s.y >= v) /\ (t.z <=> s.y = v)]_vars

\* However NMIs are nested into a program that uses the stack as a stack, a
\* return resumes what the newest unfinished call or interrupt left: the
\* address, the stack pointer and the stack below it; after an interrupt all
\* registers and flags too.
ReturnsMatch ==
    [][Runs =>
        LET s    == [st EXCEPT !.input = st'.input]
            left == Head(Owed(s))
            op   == Op(Fetched(AtFetch(s)))
        IN  obeys' /\ op \in {"RTS", "RTI"} =>
                /\ Stack(st') = left.stack
                /\ op = "RTS" => st'.pc = left.regs[5]
                /\ op = "RTI" => Registers(st') = left.regs]_vars
=============================================================================
