------------------------------ MODULE Opcodes ------------------------------
(***************************************************************************)
(* The table of Cpu::create_opcodes: for every byte the instruction, its   *)
(* addressing mode, and the cycles it takes without penalties.  The lower  *)
(* case r of a mode marks the modes that charge a crossed page.  The two   *)
(* entries beyond the bytes, NMI and IRQ, take no cycles of their own.     *)
(***************************************************************************)
EXTENDS Integers, Sequences

Codes00 == <<
    <<"BRK","IMP",7>>, <<"ORA","IZX",6>>, <<"KIL","IMP",2>>, <<"SLO","IZX",8>>,
    <<"NOP","ZP",3>>, <<"ORA","ZP",3>>, <<"ASL","ZP",5>>, <<"SLO","ZP",5>>,
    <<"PHP","IMP",3>>, <<"ORA","IMM",2>>, <<"ASLA","IMP",2>>, <<"ANC","IMM",2>>,
    <<"NOP","ABS",4>>, <<"ORA","ABS",4>>, <<"ASL","ABS",6>>, <<"SLO","ABS",6>>,
    <<"BPL","REL",2>>, <<"ORA","IZYr",5>>, <<"KIL","IMP",2>>, <<"SLO","IZY",8>>,
    <<"NOP","ZPX",4>>, <<"ORA","ZPX",4>>, <<"ASL","ZPX",6>>, <<"SLO","ZPX",6>>,
    <<"CLC","IMP",2>>, <<"ORA","ABYr",4>>, <<"NOP","IMP",2>>, <<"SLO","ABY",7>>,
    <<"NOP","ABXr",4>>, <<"ORA","ABXr",4>>, <<"ASL","ABX",7>>, <<"SLO","ABX",7>>,
    <<"JSR","ABS",6>>, <<"AND","IZX",6>>, <<"KIL","IMP",2>>, <<"RLA","IZX",8>>,
    <<"BIT","ZP",3>>, <<"AND","ZP",3>>, <<"ROL","ZP",5>>, <<"RLA","ZP",5>>,
    <<"PLP","IMP",4>>, <<"AND","IMM",2>>, <<"ROLA","IMP",2>>, <<"ANC","IMM",2>>,
    <<"BIT","ABS",4>>, <<"AND","ABS",4>>, <<"ROL","ABS",6>>, <<"RLA","ABS",6>>,
    <<"BMI","REL",2>>, <<"AND","IZYr",5>>, <<"KIL","IMP",2>>, <<"RLA","IZY",8>>,
    <<"NOP","ZPX",4>>, <<"AND","ZPX",4>>, <<"ROL","ZPX",6>>, <<"RLA","ZPX",6>>,
    <<"SEC","IMP",2>>, <<"AND","ABYr",4>>, <<"NOP","IMP",2>>, <<"RLA","ABY",7>>,
    <<"NOP","ABXr",4>>, <<"AND","ABXr",4>>, <<"ROL","ABX",7>>, <<"RLA","ABX",7>>>>

Codes40 == <<
    <<"RTI","IMP",6>>, <<"EOR","IZX",6>>, <<"KIL","IMP",2>>, <<"SRE","IZX",8>>,
    <<"NOP","ZP",3>>, <<"EOR","ZP",3>>, <<"LSR","ZP",5>>, <<"SRE","ZP",5>>,
    <<"PHA","IMP",3>>, <<"EOR","IMM",2>>, <<"LSRA","IMP",2>>, <<"ALR","IMM",2>>,
    <<"JMP","ABS",3>>, <<"EOR","ABS",4>>, <<"LSR","ABS",6>>, <<"SRE","ABS",6>>,
    <<"BVC","REL",2>>, <<"EOR","IZYr",5>>, <<"KIL","IMP",2>>, <<"SRE","IZY",8>>,
    <<"NOP","ZPX",4>>, <<"EOR","ZPX",4>>, <<"LSR","ZPX",6>>, <<"SRE","ZPX",6>>,
    <<"CLI","IMP",2>>, <<"EOR","ABYr",4>>, <<"NOP","IMP",2>>, <<"SRE","ABY",7>>,
    <<"NOP","ABXr",4>>, <<"EOR","ABXr",4>>, <<"LSR","ABX",7>>, <<"SRE","ABX",7>>,
    <<"RTS","IMP",6>>, <<"ADC","IZX",6>>, <<"KIL","IMP",2>>, <<"RRA","IZX",8>>,
    <<"NOP","ZP",3>>, <<"ADC","ZP",3>>, <<"ROR","ZP",5>>, <<"RRA","ZP",5>>,
    <<"PLA","IMP",4>>, <<"ADC","IMM",2>>, <<"RORA","IMP",2>>, <<"ARR","IMM",2>>,
    <<"JMP","IND",5>>, <<"ADC","ABS",4>>, <<"ROR","ABS",6>>, <<"RRA","ABS",6>>,
    <<"BVS","REL",2>>, <<"ADC","IZYr",5>>, <<"KIL","IMP",2>>, <<"RRA","IZY",8>>,
    <<"NOP","ZPX",4>>, <<"ADC","ZPX",4>>, <<"ROR","ZPX",6>>, <<"RRA","ZPX",6>>,
    <<"SEI","IMP",2>>, <<"ADC","ABYr",4>>, <<"NOP","IMP",2>>, <<"RRA","ABY",7>>,
    <<"NOP","ABXr",4>>, <<"ADC","ABXr",4>>, <<"ROR","ABX",7>>, <<"RRA","ABX",7>>>>

Codes80 == <<
    <<"NOP","IMM",2>>, <<"STA","IZX",6>>, <<"NOP","IMM",2>>, <<"SAX","IZX",6>>,
    <<"STY","ZP",3>>, <<"STA","ZP",3>>, <<"STX","ZP",3>>, <<"SAX","ZP",3>>,
    <<"DEY","IMP",2>>, <<"NOP","IMM",2>>, <<"TXA","IMP",2>>, <<"UNI","IMM",2>>,
    <<"STY","ABS",4>>, <<"STA","ABS",4>>, <<"STX","ABS",4>>, <<"SAX","ABS",4>>,
    <<"BCC","REL",2>>, <<"STA","IZY",6>>, <<"KIL","IMP",2>>, <<"UNI","IZY",6>>,
    <<"STY","ZPX",4>>, <<"STA","ZPX",4>>, <<"STX","ZPY",4>>, <<"SAX","ZPY",4>>,
    <<"TYA","IMP",2>>, <<"STA","ABY",5>>, <<"TXS","IMP",2>>, <<"UNI","ABY",5>>,
    <<"UNI","ABX",5>>, <<"STA","ABX",5>>, <<"UNI","ABY",5>>, <<"UNI","ABY",5>>,
    <<"LDY","IMM",2>>, <<"LDA","IZX",6>>, <<"LDX","IMM",2>>, <<"LAX","IZX",6>>,
    <<"LDY","ZP",3>>, <<"LDA","ZP",3>>, <<"LDX","ZP",3>>, <<"LAX","ZP",3>>,
    <<"TAY","IMP",2>>, <<"LDA","IMM",2>>, <<"TAX","IMP",2>>, <<"UNI","IMM",2>>,
    <<"LDY","ABS",4>>, <<"LDA","ABS",4>>, <<"LDX","ABS",4>>, <<"LAX","ABS",4>>,
    <<"BCS","REL",2>>, <<"LDA","IZYr",5>>, <<"KIL","IMP",2>>, <<"LAX","IZYr",5>>,
    <<"LDY","ZPX",4>>, <<"LDA","ZPX",4>>, <<"LDX","ZPY",4>>, <<"LAX","ZPY",4>>,
    <<"CLV","IMP",2>>, <<"LDA","ABYr",4>>, <<"TSX","IMP",2>>, <<"UNI","ABYr",4>>,
    <<"LDY","ABXr",4>>, <<"LDA","ABXr",4>>, <<"LDX","ABYr",4>>, <<"LAX","ABYr",4>>>>

CodesC0 == <<
    <<"CPY","IMM",2>>, <<"CMP","IZX",6>>, <<"NOP","IMM",2>>, <<"DCP","IZX",8>>,
    <<"CPY","ZP",3>>, <<"CMP","ZP",3>>, <<"DEC","ZP",5>>, <<"DCP","ZP",5>>,
    <<"INY","IMP",2>>, <<"CMP","IMM",2>>, <<"DEX","IMP",2>>, <<"AXS","IMM",2>>,
    <<"CPY","ABS",4>>, <<"CMP","ABS",4>>, <<"DEC","ABS",6>>, <<"DCP","ABS",6>>,
    <<"BNE","REL",2>>, <<"CMP","IZYr",5>>, <<"KIL","IMP",2>>, <<"DCP","IZY",8>>,
    <<"NOP","ZPX",4>>, <<"CMP","ZPX",4>>, <<"DEC","ZPX",6>>, <<"DCP","ZPX",6>>,
    <<"CLD","IMP",2>>, <<"CMP","ABYr",4>>, <<"NOP","IMP",2>>, <<"DCP","ABY",7>>,
    <<"NOP","ABXr",4>>, <<"CMP","ABXr",4>>, <<"DEC","ABX",7>>, <<"DCP","ABX",7>>,
    <<"CPX","IMM",2>>, <<"SBC","IZX",6>>, <<"NOP","IMM",2>>, <<"ISC","IZX",8>>,
    <<"CPX","ZP",3>>, <<"SBC","ZP",3>>, <<"INC","ZP",5>>, <<"ISC","ZP",5>>,
    <<"INX","IMP",2>>, <<"SBC","IMM",2>>, <<"NOP","IMP",2>>, <<"SBC","IMM",2>>,
    <<"CPX","ABS",4>>, <<"SBC","ABS",4>>, <<"INC","ABS",6>>, <<"ISC","ABS",6>>,
    <<"BEQ","REL",2>>, <<"SBC","IZYr",5>>, <<"KIL","IMP",2>>, <<"ISC","IZY",8>>,
    <<"NOP","ZPX",4>>, <<"SBC","ZPX",4>>, <<"INC","ZPX",6>>, <<"ISC","ZPX",6>>,
    <<"SED","IMP",2>>, <<"SBC","ABYr",4>>, <<"NOP","IMP",2>>, <<"ISC","ABY",7>>,
    <<"NOP","ABXr",4>>, <<"SBC","ABXr",4>>, <<"INC","ABX",7>>, <<"ISC","ABX",7>>>>

Codes == Codes00 \o Codes40 \o Codes80 \o CodesC0

Op(byte)    == Codes[byte + 1][1]
Mode(byte)  == Codes[byte + 1][2]
Cycle(byte) == Codes[byte + 1][3]
=============================================================================
