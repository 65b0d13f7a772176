---------------------------- MODULE MCCpuProgram ----------------------------
(***************************************************************************)
(* The CPU running a program that exercises what NMIs put at risk: it      *)
(* multiplies two bytes read from a device by shifting and adding in a     *)
(* subroutine, takes a BRK, and ends in a loop.  Its NMI handler saves the *)
(* registers it uses, counts in 0x20 and calls a subroutine itself.        *)
(***************************************************************************)
EXTENDS Cpu, TLC

\* 0x8000.  Factors at 0x10 and 0x11 (copies at 0x16 and 0x17), the first
\* one's high byte at 0x14, the product at 0x12.
Main == <<
    162, 255,           \* LDX #$ff
    154,                \* TXS
    169, 128,           \* LDA #$80
    141, 0, 32,         \* STA $2000
    173, 22, 64,        \* LDA $4016
    133, 16,            \* STA $10
    133, 22,            \* STA $16
    173, 22, 64,        \* LDA $4016
    133, 17,            \* STA $11
    133, 23,            \* STA $17
    32, 64, 128,        \* JSR $8040
    0, 234,             \* BRK
    76, 27, 128>>       \* JMP $801b

\* 0x8040.
Multiply == <<
    165, 17,            \* LDA $11
    240, 24,            \* BEQ to the RTS
    70, 17,             \* LSR $11
    144, 13,            \* BCC to the ASL
    24,                 \* CLC
    165, 18,            \* LDA $12
    101, 16,            \* ADC $10
    133, 18,            \* STA $12
    165, 19,            \* LDA $13
    101, 20,            \* ADC $14
    133, 19,            \* STA $13
    6, 16,              \* ASL $10
    38, 20,             \* ROL $14
    76, 64, 128,        \* JMP $8040
    96>>                \* RTS

\* 0x8080, the handler of BRK.
OnBrk == <<
    72,                 \* PHA
    169, 0,             \* LDA #0
    104,                \* PLA
    64>>                \* RTI

\* 0x8090, the handler of the NMI, and 0x80a0, its subroutine.
OnNmi == <<
    72,                 \* PHA
    173, 2, 32,         \* LDA $2002
    32, 160, 128,       \* JSR $80a0
    104,                \* PLA
    64>>                \* RTI

Count == <<
    230, 32,            \* INC $20
    96>>                \* RTS

Code == (32768 :> Main) @@ (32832 :> Multiply) @@ (32896 :> OnBrk)
          @@ (32912 :> OnNmi) @@ (32928 :> Count)
          @@ (65530 :> <<144, 128, 0, 128, 128, 128>>)

ProgramRom ==
    LET place(addr) == {base \in DOMAIN Code :
                            addr \in base..(base + Len(Code[base]) - 1)}
    IN  [addr \in UNION {b..(b + Len(Code[b]) - 1) : b \in DOMAIN Code} |->
            LET base == CHOOSE b \in place(addr) : TRUE
            IN  Code[base][addr - base + 1]]

RomByte(addr) == IF addr \in DOMAIN ProgramRom THEN ProgramRom[addr] ELSE 0

SomeInputs == {3, 200}

End == 32795                                                    \* 0x801b

\* The program and its handlers use the stack as a stack; NMIs at any
\* instruction, the handler's own included, change nothing the program can see
\* but the count they keep.
ProgramUndisturbed ==
    /\ obeys
    /\ turn = "cpu" /\ st.pc = End =>
          /\ calls = <<>> /\ st.sp = 255
          /\ st.ram[18] + 256 * st.ram[19] = st.ram[22] * st.ram[23]
          /\ st.ram[32] + Num(nmi) = nmis
=============================================================================
