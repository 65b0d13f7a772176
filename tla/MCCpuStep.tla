----------------------------- MODULE MCCpuStep -----------------------------
(***************************************************************************)
(* One step of the CPU from states that meet every instruction: the 256    *)
(* bytes as code in the zero page, operands that point into the RAM, the   *)
(* cartridge and the devices' registers and across a page, and registers   *)
(* and memory at the ends and the middle of their ranges.                  *)
(***************************************************************************)
EXTENDS Cpu, FiniteSets

\* The cartridge holds mixed bytes.
RomByte(addr) == (7 * addr + 3) % 256

OneInput == {133}

Pc == 16

\* <<a, x, y, sp>>
RegisterSets ==
    {<<0, 0, 0, 255>>, <<127, 1, 255, 0>>, <<128, 255, 1, 1>>,
     <<255, 128, 127, 253>>, <<1, 254, 128, 2>>, <<80, 16, 32, 128>>}

\* The two bytes that follow the instruction.
Operands == {<<2, 32>>, <<22, 64>>, <<255, 1>>, <<250, 255>>}

\* What the rest of the RAM holds.
Fills == {0, 127, 128, 255}

Ram(byte, operand, fill) ==
    [addr \in 0..(RamSize - 1) |->
        IF addr = Pc THEN byte
        ELSE IF addr \in {Pc + 1, Pc + 2} THEN operand[addr - Pc] ELSE fill]

AnyStep ==
    \E byte \in Byte, r \in RegisterSets, operand \in Operands,
       fill \in Fills, c \in BOOLEAN :
        StartsFrom([Reset EXCEPT !.a = r[1], !.x = r[2], !.y = r[3],
                                 !.sp = r[4], !.pc = Pc, !.c = c, !.clock = 0,
                                 !.ram = Ram(byte, operand, fill)])

StepSpec == AnyStep /\ [][Next]_vars
=============================================================================
