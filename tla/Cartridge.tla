----------------------------- MODULE Cartridge -----------------------------
(***************************************************************************)
(* From the file of a cartridge to the memory of the program and that of   *)
(* the picture, patterns and name tables: Rom, Mapper0 and the pages of    *)
(* Ppu.  A byte of the file is its offset in it, and Cleared a byte nobody *)
(* has set; a page is a function from 0 to bytes, empty where the code has *)
(* a null pointer of length 0.                                             *)
(*                                                                         *)
(* The steps of set_rom are separate actions, in the order of the code.    *)
(* They meet no other part of the emulator; then the program writes to the *)
(* picture's memory through the data port.                                 *)
(***************************************************************************)
EXTENDS Integers, FiniteSets

CONSTANTS
    hlen,           \* 0x10, the header
    PrgPage,        \* 0x2000, a page of program, half a bank
    ChrPage,        \* 0x400, a page of patterns
    PageCount,      \* 16: pages of either kind the arrays hold
    Files,          \* [header, prg, chr, mirroring]: is the header right,
                    \* banks of either kind, and how name tables are mirrored
    Garbage,        \* what a page count may hold that was never set
    MaxWrites       \* bound: writes to the picture's memory

Cleared == 0
ChrPerBank == 8
Slots == 0..3
NameTables == 8..11

\* Of enum Mirroring.
VERTICAL == 0
HORIZONTAL == 1
FOUR_SCREEN == 2
Mirroring == {VERTICAL, HORIZONTAL, FOUR_SCREEN}

\* Neither array is checked against PageCount, and no bank of program means a
\* division by zero: the code is for cartridges of mapper 0, which are smaller.
ASSUME CartridgeAssumption ==
    /\ hlen \in Nat \ {0} /\ PrgPage \in Nat \ {0} /\ ChrPage \in Nat \ {0}
    /\ PageCount \in Nat /\ ChrPerBank <= PageCount
    /\ MaxWrites \in Nat /\ Garbage \subseteq Nat
    /\ \A f \in Files :
          /\ f.header \in BOOLEAN /\ f.prg \in Nat \ {0} /\ f.chr \in Nat
          /\ f.mirroring \in Mirroring
          /\ 2 * f.prg <= PageCount /\ ChrPerBank * f.chr <= PageCount

VARIABLES
    stage,          \* the next step of set_rom; or running; or undefined
    file,
    prg_rom_page_count, chr_rom_page_count, screen_mirroring,
    prgrom_pages, chrrom_pages,
    roms,           \* what the program sees from 0x8000, four pages
    vram,           \* what the picture sees from 0: patterns, name tables
    written         \* history: cells of it written by the program

countVars == <<prg_rom_page_count, chr_rom_page_count, screen_mirroring>>
pageVars == <<prgrom_pages, chrrom_pages>>
vars == <<stage, file, countVars, pageVars, roms, vram, written>>

NoPage == [j \in {} |-> Cleared]
ClearPage(len) == [j \in 0..(len - 1) |-> Cleared]

\* An element of vram has room for four pages.
Init ==
    /\ stage = "open" /\ file \in Files
    /\ prg_rom_page_count \in Garbage /\ chr_rom_page_count \in Garbage
    /\ screen_mirroring = HORIZONTAL
    /\ prgrom_pages = [i \in 0..(PageCount - 1) |-> NoPage]
    /\ chrrom_pages = [i \in 0..(PageCount - 1) |-> NoPage]
    /\ roms = [page \in Slots |-> ClearPage(PrgPage)]
    /\ vram = [page \in 0..(ChrPerBank - 1) \cup NameTables |-> ClearPage(4 * ChrPage)]
    /\ written = {}

-----------------------------------------------------------------------------
(* Faulty variants of definitions below, substituted for them to see that  *)
(* the properties notice the slip; the specification does not use them.    *)

LastBankNext(count) == count
ChrStartAtPrg(f, i) == hlen + PrgPage * f.prg + ChrPage * i
AcceptedAlways(f) == TRUE

-----------------------------------------------------------------------------
(* Rom::set_rom and create_pages.                                          *)

Accepted(f) == f.header

romlen(f) == hlen + 2 * PrgPage * f.prg + ChrPerBank * ChrPage * f.chr

Part(start, end) == [j \in 0..(end - start - 1) |-> start + j]

ParseHeader ==
    /\ stage = "open"
    /\ IF Accepted(file)
       THEN /\ prg_rom_page_count' = file.prg /\ chr_rom_page_count' = file.chr
            /\ screen_mirroring' = file.mirroring
            /\ stage' = "create_pages"
       ELSE /\ stage' = "set_prgrom_page"
            /\ UNCHANGED countVars
    /\ UNCHANGED <<file, pageVars, roms, vram, written>>

PrgStart(f, i) == hlen + PrgPage * i

ChrStart(f, i) == hlen + 2 * PrgPage * f.prg + ChrPage * i

\* A page of patterns is copied with three more behind it, as far as there are.
ChrEnd(f, i) ==
    LET end == ChrStart(f, i) + 4 * ChrPage
    IN  IF end > romlen(f) THEN romlen(f) ELSE end

create_pages ==
    /\ stage = "create_pages"
    /\ stage' = "set_prgrom_page"
    /\ prgrom_pages' =
           [i \in DOMAIN prgrom_pages |->
                IF i < 2 * prg_rom_page_count
                THEN Part(PrgStart(file, i), PrgStart(file, i) + PrgPage)
                ELSE prgrom_pages[i]]
    /\ chrrom_pages' =
           [i \in DOMAIN chrrom_pages |->
                IF i < ChrPerBank * chr_rom_page_count
                THEN Part(ChrStart(file, i), ChrEnd(file, i))
                ELSE chrrom_pages[i]]
    /\ UNCHANGED <<file, countVars, roms, vram, written>>

-----------------------------------------------------------------------------
(* Mapper0::set_rom: the first bank and the last, and the first patterns.  *)

Copied(to, from) == [j \in DOMAIN to |-> IF j \in DOMAIN from THEN from[j] ELSE to[j]]

LastBank(count) == count - 1

RomPage(page) ==
    IF page < 2 THEN page ELSE 2 * LastBank(prg_rom_page_count) + page - 2

\* A count that was never set may be zero, by which the code divides, or so
\* high that the code reads behind the arrays: nothing is said of what follows.
set_prgrom_page ==
    /\ stage = "set_prgrom_page"
    /\ IF prg_rom_page_count \notin 1..(PageCount \div 2)
       THEN stage' = "undefined" /\ UNCHANGED roms
       ELSE /\ stage' = "set_chr_rom_page"
            /\ roms' = [page \in Slots |->
                   Copied(roms[page],
                          prgrom_pages[RomPage(page) % (2 * prg_rom_page_count)])]
    /\ UNCHANGED <<file, countVars, pageVars, vram, written>>

set_chr_rom_page ==
    /\ stage = "set_chr_rom_page"
    /\ stage' = "start"
    /\ vram' = [page \in DOMAIN vram |->
           IF chr_rom_page_count = 0 \/ page \in NameTables THEN vram[page]
           ELSE Copied(vram[page],
                       chrrom_pages[page % (ChrPerBank * chr_rom_page_count)])]
    /\ UNCHANGED <<file, countVars, pageVars, roms, written>>

-----------------------------------------------------------------------------
(* Ppu::start.                                                             *)

\* Pages of vrams, which nobody ever writes.
vrams == [page \in NameTables |-> ClearPage(ChrPage)]

\* Ppu keeps the mirroring in a bit-field of one bit, its sign: 1 reads as -1,
\* and 2 as 0.
BitField(value) == IF value % 2 = 1 THEN -1 ELSE 0

\* HORIZONTAL is told from VERTICAL, but as neither of the two; FOUR_SCREEN is
\* taken for VERTICAL.
TableOrder(mirroring) ==
    CASE mirroring = VERTICAL   -> <<0, 1, 0, 1>>
      [] mirroring = HORIZONTAL -> <<0, 0, 1, 1>>
      [] OTHER                  -> <<0, 1, 2, 3>>

\* The name tables get copies, some of them from the same page; as copies they
\* are four memories from then on.
init_mirrors(values) ==
    vram' = [page \in DOMAIN vram |->
        IF page \in NameTables THEN Copied(vram[page], vrams[8 + values[page - 7]])
        ELSE vram[page]]

start ==
    /\ stage = "start" /\ stage' = "running"
    /\ init_mirrors(TableOrder(BitField(screen_mirroring)))
    /\ UNCHANGED <<file, countVars, pageVars, roms, written>>

-----------------------------------------------------------------------------
(* The running program.                                                    *)

\* Mem::get from 0x8000.
Get(a) == roms[a \div PrgPage][a % PrgPage]

\* What Ppu finds at an address.
Content(a) == vram[a \div ChrPage][a % ChrPage]

\* Ppu::write_ppu_data_reg; the byte is none of the file.
WriteCell(a) ==
    /\ stage = "running" /\ Cardinality(written) < MaxWrites
    /\ vram' = [vram EXCEPT ![a \div ChrPage][a % ChrPage] = -1]
    /\ written' = written \cup {a}
    /\ UNCHANGED <<stage, file, countVars, pageVars, roms>>

PatternCells == 0..(ChrPerBank * ChrPage - 1)
PictureCells == 0..((ChrPerBank + Cardinality(NameTables)) * ChrPage - 1)
Addresses == 0..(4 * PrgPage - 1)

Done == stage \in {"running", "undefined"} /\ UNCHANGED vars

Next ==
    \/ ParseHeader \/ create_pages \/ set_prgrom_page \/ set_chr_rom_page \/ start
    \/ \E a \in PictureCells : WriteCell(a)
    \/ Done

Spec == Init /\ [][Next]_vars

-----------------------------------------------------------------------------
(* Properties.                                                             *)

\* The program finds the first bank of the file from 0x8000 and the last one
\* from 0xc000, the same one twice if there is only one, whatever it writes.
ProgramInPlace ==
    stage = "running" /\ file.header =>
        \A a \in Addresses :
            Get(a) = hlen + (IF a < 2 * PrgPage THEN a
                             ELSE a + 2 * PrgPage * (file.prg - 2))

\* The picture finds the first bank of patterns of the file, or nothing if it
\* has none, and four name tables of cleared cells, although the copies of the
\* pages overlap and reach beyond the last pattern; except in the very cells the
\* program has written: no cell of the memory shows up at a second address.
PictureInPlace ==
    stage = "running" /\ file.header =>
        \A a \in PictureCells :
            Content(a) = IF a \in written THEN -1
                         ELSE IF file.chr = 0 \/ a \notin PatternCells THEN Cleared
                         ELSE hlen + 2 * PrgPage * file.prg + a

\* Of a file without the right header nothing reaches the memory, although the
\* loader goes on with page counts it has not set.
RefusedLeavesEmpty ==
    stage = "running" /\ ~file.header =>
        /\ \A a \in Addresses : Get(a) = Cleared
        /\ \A a \in PictureCells \ written : Content(a) = Cleared
=============================================================================
