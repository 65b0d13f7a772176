-------------------------- MODULE CartridgeProofs ---------------------------
(***************************************************************************)
(* What the program and the picture find in their memory, proved for every *)
(* set of files CartridgeAssumption allows, every size of pages and every  *)
(* number of banks.                                                        *)
(***************************************************************************)
EXTENDS Cartridge, FiniteSetTheorems, TLAPS

Pages == 0..(PageCount - 1)
Banks == 0..(ChrPerBank - 1) \cup NameTables
Stages == {"open", "create_pages", "set_prgrom_page", "set_chr_rom_page", "start",
           "running", "undefined"}

\* The memories keep their shapes, and only the running program writes.
ShapeInv ==
    /\ stage \in Stages /\ file \in Files
    /\ prg_rom_page_count \in Nat /\ chr_rom_page_count \in Nat
    /\ prgrom_pages = [i \in Pages |-> prgrom_pages[i]]
    /\ chrrom_pages = [i \in Pages |-> chrrom_pages[i]]
    /\ roms = [page \in Slots |-> roms[page]]
    /\ \A page \in Slots : roms[page] = [j \in 0..(PrgPage - 1) |-> roms[page][j]]
    /\ vram = [page \in Banks |-> vram[page]]
    /\ \A page \in Banks : vram[page] = [j \in 0..(4 * ChrPage - 1) |-> vram[page][j]]
    /\ stage # "running" => written = {}

\* A refused file leaves everything as it was, the cells the program writes
\* later excepted.
RefusedInv ==
    ~Accepted(file) =>
        /\ stage # "create_pages"
        /\ \A i \in Pages : prgrom_pages[i] = NoPage /\ chrrom_pages[i] = NoPage
        /\ \A a \in Addresses : Get(a) = Cleared
        /\ \A a \in PictureCells \ written : Content(a) = Cleared

\* What an accepted file leaves behind, stage by stage.
CountsRead ==
    stage # "open" => prg_rom_page_count = file.prg /\ chr_rom_page_count = file.chr

PagesRead ==
    stage \notin {"open", "create_pages"} =>
        /\ \A i \in 0..(2 * file.prg - 1) :
               prgrom_pages[i] = Part(PrgStart(file, i), PrgStart(file, i) + PrgPage)
        /\ \A i \in 0..(ChrPerBank * file.chr - 1) :
               chrrom_pages[i] = Part(ChrStart(file, i), ChrEnd(file, i))

ProgramCopied ==
    stage \in {"set_chr_rom_page", "start", "running"} =>
        \A a \in Addresses :
            Get(a) = hlen + (IF a < 2 * PrgPage THEN a ELSE a + 2 * PrgPage * (file.prg - 2))

PictureCopied ==
    \A a \in PictureCells :
        Content(a) = IF a \in written THEN -1
                     ELSE IF file.chr = 0 \/ a \notin PatternCells
                             \/ stage \notin {"start", "running"} THEN Cleared
                     ELSE hlen + 2 * PrgPage * file.prg + a

AcceptedInv ==
    Accepted(file) => CountsRead /\ PagesRead /\ ProgramCopied /\ PictureCopied

CartridgeInv == ShapeInv /\ RefusedInv /\ AcceptedInv

-----------------------------------------------------------------------------
(* Numbers.                                                                *)

\* An address is a page and a place in it, both within their ranges.
LEMMA PageAndPlace ==
    ASSUME NEW d \in Nat \ {0}, NEW k \in Nat, NEW a \in 0..(k * d - 1)
    PROVE  /\ a \div d \in 0..(k - 1)
           /\ a % d \in 0..(d - 1)
           /\ a = d * (a \div d) + (a % d)
<1> DEFINE q == a \div d
<1>1. q \in Int /\ a = d * q + (a % d) /\ a % d \in 0..(d - 1) /\ a \in Nat
  BY SMT
<1> HIDE DEF q
<1>2. q >= 0
  <2> SUFFICES ASSUME q <= -1
               PROVE  FALSE
    BY <1>1, SMT
  <2>1. PICK m \in Nat : q = -1 - m
    BY <1>1, SMT
  <2>2. d * q = -d - d * m /\ d * m \in Nat
    BY <2>1, SMT
  <2> QED
    BY <1>1, <2>2, SMT
<1>3. q < k
  <2> SUFFICES ASSUME k <= q
               PROVE  FALSE
    BY <1>1, SMT
  <2>1. PICK m \in Nat : q = k + m
    BY <1>1, SMT
  <2>2. d * q = k * d + d * m /\ d * m \in Nat /\ k * d \in Nat
    BY <2>1, SMT
  <2> QED
    BY <1>1, <2>2, SMT
<1> QED
  BY <1>1, <1>2, <1>3, SMT DEF q

\* A remainder of a small number is the number (% with the count of pages).
LEMMA SmallRemainder ==
    ASSUME NEW n \in Nat, NEW m \in Nat, n < m
    PROVE  n % m = n
<1>1. PICK q \in Int : q = n \div m
  BY SMT
<1>2. n = m * q + (n % m) /\ n % m \in 0..(m - 1)
  BY <1>1, SMT
<1>3. q = 0
  <2>1. CASE q >= 1
    <3>1. PICK r \in Nat : q = 1 + r
      BY <2>1, SMT
    <3>2. m * q = m + m * r /\ m * r \in Nat
      BY <3>1, SMT
    <3> QED
      BY <1>2, <3>2, SMT
  <2>2. CASE q <= -1
    <3>1. PICK r \in Nat : q = -1 - r
      BY <2>2, SMT
    <3>2. m * q = -m - m * r /\ m * r \in Nat
      BY <3>1, SMT
    <3> QED
      BY <1>2, <3>2, SMT
  <2> QED
    BY <2>1, <2>2, SMT
<1> QED
  BY <1>2, <1>3, SMT

\* The constants, and the counts of a file.
LEMMA Sizes ==
    /\ hlen \in Nat \ {0} /\ PrgPage \in Nat \ {0} /\ ChrPage \in Nat \ {0}
    /\ PageCount \in Nat /\ 8 <= PageCount
    /\ Addresses = 0..(4 * PrgPage - 1) /\ PictureCells = 0..(12 * ChrPage - 1)
    /\ PatternCells = 0..(8 * ChrPage - 1) /\ Banks = 0..11 /\ ChrPerBank = 8
    /\ \A f \in Files : /\ f.prg \in Nat \ {0} /\ f.chr \in Nat
                        /\ 2 * f.prg <= PageCount /\ 8 * f.chr <= PageCount
<1>1. Cardinality(NameTables) = 4
  <2>1. 8 \in Int /\ 11 \in Int /\ ~(8 > 11) /\ 11 - 8 + 1 = 4
    BY SMT
  <2>2. Cardinality(8..11) = 11 - 8 + 1
    BY <2>1, FS_Interval, Zenon
  <2> QED
    BY <2>1, <2>2 DEF NameTables
<1> QED
  BY <1>1, CartridgeAssumption
     DEF Addresses, PictureCells, PatternCells, Banks, NameTables, ChrPerBank

\* Where an address of the program lies, and where a cell of the picture.
LEMMA InPages ==
    /\ \A a \in Addresses : /\ a \div PrgPage \in Slots /\ a % PrgPage \in 0..(PrgPage - 1)
                            /\ a = PrgPage * (a \div PrgPage) + (a % PrgPage)
    /\ \A a \in PictureCells : /\ a \div ChrPage \in Banks /\ a % ChrPage \in 0..(ChrPage - 1)
                               /\ a = ChrPage * (a \div ChrPage) + (a % ChrPage)
    /\ \A a \in PatternCells : a \in PictureCells /\ a \div ChrPage \in 0..7
<1>1. ASSUME NEW a \in Addresses
      PROVE  /\ a \div PrgPage \in Slots /\ a % PrgPage \in 0..(PrgPage - 1)
             /\ a = PrgPage * (a \div PrgPage) + (a % PrgPage)
  <2>1. a \in 0..(4 * PrgPage - 1)
    BY Sizes
  <2>2. PrgPage \in Nat \ {0} /\ 4 \in Nat
    BY Sizes
  <2>3. /\ a \div PrgPage \in 0..(4 - 1) /\ a % PrgPage \in 0..(PrgPage - 1)
        /\ a = PrgPage * (a \div PrgPage) + (a % PrgPage)
    BY <2>1, <2>2, PageAndPlace, Zenon
  <2> QED
    BY <2>3 DEF Slots
<1>2. ASSUME NEW a \in PictureCells
      PROVE  /\ a \div ChrPage \in Banks /\ a % ChrPage \in 0..(ChrPage - 1)
             /\ a = ChrPage * (a \div ChrPage) + (a % ChrPage)
  <2>1. a \in 0..(12 * ChrPage - 1)
    BY Sizes
  <2>2. ChrPage \in Nat \ {0} /\ 12 \in Nat
    BY Sizes
  <2>3. /\ a \div ChrPage \in 0..(12 - 1) /\ a % ChrPage \in 0..(ChrPage - 1)
        /\ a = ChrPage * (a \div ChrPage) + (a % ChrPage)
    BY <2>1, <2>2, PageAndPlace, Zenon
  <2> QED
    BY <2>3, Sizes
<1>3. ASSUME NEW a \in PatternCells
      PROVE  a \in PictureCells /\ a \div ChrPage \in 0..7
  <2>1. a \in 0..(8 * ChrPage - 1)
    BY Sizes
  <2>2. ChrPage \in Nat \ {0} /\ 8 \in Nat
    BY Sizes
  <2>3. /\ a \div ChrPage \in 0..(8 - 1) /\ a % ChrPage \in 0..(ChrPage - 1)
        /\ a = ChrPage * (a \div ChrPage) + (a % ChrPage)
    BY <2>1, <2>2, PageAndPlace, Zenon
  <2> QED
    BY <2>1, <2>3, Sizes
<1> QED
  BY <1>1, <1>2, <1>3

-----------------------------------------------------------------------------
(* The invariant is inductive, one lemma for each step of the loader.      *)

\* All memories are clear.
LEMMA InitInv == Init => CartridgeInv
<1> SUFFICES ASSUME Init
             PROVE  CartridgeInv
  OBVIOUS
<1>1. ShapeInv
  BY Sizes, CartridgeAssumption
     DEF Init, ShapeInv, Stages, Pages, Banks, ClearPage
<1>2. \A a \in Addresses : Get(a) = Cleared
  BY InPages DEF Init, Get, ClearPage
<1>3. ASSUME NEW a \in PictureCells
      PROVE  Content(a) = Cleared
  <2>1. a \div ChrPage \in Banks /\ a % ChrPage \in 0..(4 * ChrPage - 1)
    <3> DEFINE r == a % ChrPage
    <3>1. a \div ChrPage \in Banks /\ r \in 0..(ChrPage - 1)
      BY InPages
    <3> HIDE DEF r
    <3>2. r \in 0..(4 * ChrPage - 1)
      BY <3>1, Sizes
    <3> QED
      BY <3>1, <3>2 DEF r
  <2> QED
    BY <2>1 DEF Init, Content, ClearPage, Banks
<1>4. RefusedInv
  BY <1>2, <1>3 DEF Init, RefusedInv, Pages
<1>5. AcceptedInv
  BY <1>3 DEF Init, AcceptedInv, CountsRead, PagesRead, ProgramCopied, PictureCopied
<1> QED
  BY <1>1, <1>4, <1>5 DEF CartridgeInv

\* Rom::set_rom reads the counts of a right header only.
LEMMA ParseInv ==
    ASSUME CartridgeInv, ParseHeader
    PROVE  CartridgeInv'
<1>1. /\ stage = "open" /\ written = {} /\ UNCHANGED <<file, pageVars, roms, vram, written>>
      /\ stage' = IF Accepted(file) THEN "create_pages" ELSE "set_prgrom_page"
  BY DEF ParseHeader, CartridgeInv, ShapeInv
<1>2. /\ \A a : Get(a)' = Get(a) /\ Content(a)' = Content(a)
      /\ Accepted(file)' = Accepted(file)
  BY <1>1 DEF Get, Content, Accepted
<1>3. ShapeInv'
  BY <1>1, Sizes DEF ParseHeader, CartridgeInv, ShapeInv, Stages, pageVars, countVars
<1>4. RefusedInv'
  BY <1>1, <1>2 DEF CartridgeInv, RefusedInv, pageVars
<1>5. ASSUME Accepted(file)
      PROVE  (CountsRead /\ PagesRead /\ ProgramCopied /\ PictureCopied)'
  <2>1. PictureCopied'
    BY <1>1, <1>2, <1>5 DEF CartridgeInv, AcceptedInv, PictureCopied
  <2> QED
    BY <1>1, <1>5, <2>1 DEF ParseHeader, CountsRead, PagesRead, ProgramCopied
<1> QED
  BY <1>2, <1>3, <1>4, <1>5 DEF CartridgeInv, AcceptedInv

\* create_pages copies every page of the file to its place.
LEMMA CreateInv ==
    ASSUME CartridgeInv, create_pages
    PROVE  CartridgeInv'
<1>1. /\ stage = "create_pages" /\ stage' = "set_prgrom_page" /\ written = {}
      /\ UNCHANGED <<file, countVars, roms, vram, written>>
      /\ Accepted(file)
  BY DEF create_pages, CartridgeInv, ShapeInv, RefusedInv
<1>2. /\ \A a : Get(a)' = Get(a) /\ Content(a)' = Content(a)
      /\ Accepted(file)' = Accepted(file)
  BY <1>1 DEF Get, Content, Accepted
<1>3. DOMAIN prgrom_pages = Pages /\ DOMAIN chrrom_pages = Pages
  BY DEF CartridgeInv, ShapeInv
<1>4. ShapeInv'
  <2>1. /\ prgrom_pages' = [i \in Pages |-> prgrom_pages'[i]]
        /\ chrrom_pages' = [i \in Pages |-> chrrom_pages'[i]]
    BY <1>3 DEF create_pages
  <2> QED
    BY <1>1, <2>1 DEF CartridgeInv, ShapeInv, Stages, countVars
<1>5. CountsRead /\ CountsRead' /\ PictureCopied'
  BY <1>1, <1>2 DEF CartridgeInv, AcceptedInv, CountsRead, PictureCopied, countVars
<1>6. PagesRead'
  <2>1. /\ file.prg \in Nat /\ file.chr \in Nat /\ file' = file
        /\ 2 * file.prg <= PageCount /\ 8 * file.chr <= PageCount
        /\ prg_rom_page_count = file.prg /\ chr_rom_page_count = file.chr
    BY <1>1, <1>5, Sizes DEF CartridgeInv, ShapeInv, CountsRead
  <2>2. ASSUME NEW i \in 0..(2 * file.prg - 1)
        PROVE  prgrom_pages'[i] = Part(PrgStart(file, i), PrgStart(file, i) + PrgPage)
    <3>1. i \in Pages /\ i < 2 * prg_rom_page_count
      BY <2>1, Sizes DEF Pages
    <3> QED
      BY <1>3, <3>1 DEF create_pages
  <2>3. ASSUME NEW i \in 0..(ChrPerBank * file.chr - 1)
        PROVE  chrrom_pages'[i] = Part(ChrStart(file, i), ChrEnd(file, i))
    <3>1. i \in Pages /\ i < ChrPerBank * chr_rom_page_count
      BY <2>1, Sizes DEF Pages
    <3> QED
      BY <1>3, <3>1 DEF create_pages
  <2> QED
    BY <2>1, <2>2, <2>3 DEF PagesRead, PrgStart, ChrStart, ChrEnd, romlen
<1>7. ProgramCopied'
  BY <1>1 DEF ProgramCopied
<1> QED
  BY <1>1, <1>2, <1>4, <1>5, <1>6, <1>7 DEF CartridgeInv, AcceptedInv, RefusedInv

\* set_prgrom_page: the first bank and the last of an accepted file, and nothing
\* of a refused one, whatever its count may be.
LEMMA PrgInv ==
    ASSUME CartridgeInv, set_prgrom_page
    PROVE  CartridgeInv'
<1> DEFINE count == prg_rom_page_count
           from(page) == prgrom_pages[RomPage(page) % (2 * count)]
<1>1. /\ stage = "set_prgrom_page" /\ written = {}
      /\ UNCHANGED <<file, countVars, pageVars, vram, written>>
      /\ stage' \in {"undefined", "set_chr_rom_page"}
      /\ count \in Nat /\ file \in Files
  BY DEF set_prgrom_page, CartridgeInv, ShapeInv
<1>2. /\ \A a : Content(a)' = Content(a)
      /\ Accepted(file)' = Accepted(file)
  BY <1>1 DEF Content, Accepted
<1>3. ASSUME NEW page \in Slots
      PROVE  /\ roms[page] = [j \in 0..(PrgPage - 1) |-> roms[page][j]]
             /\ stage' # "undefined" => roms'[page] = Copied(roms[page], from(page))
             /\ stage' = "undefined" => roms'[page] = roms[page]
  BY DEF set_prgrom_page, CartridgeInv, ShapeInv
<1>4. ShapeInv'
  <2>1. \A page \in Slots : roms'[page] = [j \in 0..(PrgPage - 1) |-> roms'[page][j]]
    <3>1. ASSUME NEW page \in Slots
          PROVE  roms'[page] = [j \in 0..(PrgPage - 1) |-> roms'[page][j]]
      BY <1>1, <1>3 DEF Copied
    <3> QED
      BY <3>1
  <2>2. roms' = [page \in Slots |-> roms'[page]]
    BY DEF set_prgrom_page, CartridgeInv, ShapeInv
  <2> QED
    BY <1>1, <2>1, <2>2 DEF CartridgeInv, ShapeInv, Stages, countVars, pageVars
<1>5. RefusedInv'
  <2>1. ASSUME ~Accepted(file), NEW a \in Addresses
        PROVE  Get(a)' = Cleared
    <3>1. a \div PrgPage \in Slots /\ Get(a) = Cleared
      BY <2>1, InPages DEF CartridgeInv, RefusedInv
    <3>2. CASE stage' = "undefined"
      BY <1>3, <3>1, <3>2 DEF Get
    <3>3. CASE stage' # "undefined"
      <4> DEFINE page == a \div PrgPage
      <4>1. count \in 1..(PageCount \div 2)
        BY <3>3 DEF set_prgrom_page
      <4>2. RomPage(page) \in Int /\ 2 * count \in Nat \ {0} /\ 2 * count <= PageCount
        BY <1>1, <3>1, <4>1, Sizes DEF RomPage, LastBank, Slots
      <4>3. RomPage(page) % (2 * count) \in 0..(2 * count - 1)
        BY <4>2
      <4>4. from(page) = NoPage
        BY <1>1, <2>1, <4>2, <4>3, Sizes DEF CartridgeInv, RefusedInv, Pages
      <4>5. Copied(roms[page], from(page)) = roms[page]
        BY <1>3, <3>1, <4>4 DEF Copied, NoPage
      <4> QED
        BY <1>3, <3>1, <3>3, <4>5 DEF Get
    <3> QED
      BY <3>2, <3>3
  <2> QED
    BY <1>1, <1>2, <2>1 DEF CartridgeInv, RefusedInv, pageVars
<1>6. ASSUME Accepted(file)
      PROVE  (CountsRead /\ PagesRead /\ ProgramCopied /\ PictureCopied)'
  <2>1. CountsRead' /\ PagesRead' /\ PictureCopied'
    BY <1>1, <1>2, <1>6
       DEF CartridgeInv, AcceptedInv, CountsRead, PagesRead, PictureCopied,
           countVars, pageVars
  <2>2. /\ count = file.prg /\ file.prg \in Nat \ {0}
        /\ \A i \in 0..(2 * file.prg - 1) :
               prgrom_pages[i] = Part(PrgStart(file, i), PrgStart(file, i) + PrgPage)
    BY <1>1, <1>6, Sizes DEF CartridgeInv, AcceptedInv, CountsRead, PagesRead
  <2>3. ASSUME NEW a \in Addresses, stage' = "set_chr_rom_page"
        PROVE  Get(a)' = hlen + (IF a < 2 * PrgPage THEN a
                                 ELSE a + 2 * PrgPage * (file.prg - 2))
    <3> DEFINE page == a \div PrgPage
               j == a % PrgPage
               i == RomPage(page)
    <3>1. page \in 0..3 /\ j \in 0..(PrgPage - 1) /\ a = PrgPage * page + j
      BY InPages DEF Slots
    <3> HIDE DEF page, j
    <3>2. /\ i \in 0..(2 * file.prg - 1)
          /\ i = IF page < 2 THEN page ELSE 2 * file.prg - 4 + page
      BY <2>2, <3>1 DEF RomPage, LastBank
    <3>3. i % (2 * count) = i
      BY <2>2, <3>2, SmallRemainder
    <3>4. from(page) = Part(PrgStart(file, i), PrgStart(file, i) + PrgPage)
      BY <2>2, <3>2, <3>3
    <3> HIDE DEF i
    <3>5. PrgPage * i \in Nat /\ PrgStart(file, i) = hlen + PrgPage * i
          /\ PrgStart(file, i) \in Nat
      <4>1. i \in Nat /\ PrgPage \in Nat /\ hlen \in Nat
        BY <3>2, <2>2, Sizes
      <4>2. PrgPage * i \in Nat
        BY <4>1
      <4> QED
        BY <4>1, <4>2 DEF PrgStart
    <3>6. from(page)[j] = hlen + PrgPage * i + j /\ j \in DOMAIN from(page)
      BY <3>1, <3>4, <3>5, Sizes DEF Part
    <3>7. roms'[page][j] = hlen + PrgPage * i + j
      <4>1. page \in Slots /\ j \in DOMAIN roms[page] /\ roms'[page] = Copied(roms[page], from(page))
        BY <1>3, <2>3, <3>1 DEF Slots
      <4> QED
        BY <4>1, <3>6 DEF Copied
    <3>8. Get(a)' = hlen + PrgPage * i + j
      BY <3>7 DEF Get, page, j
    <3>9. PrgPage * i + j = IF a < 2 * PrgPage THEN a
                            ELSE a + 2 * PrgPage * (file.prg - 2)
      <4>1. CASE page < 2
        <5>1. page \in {0, 1} /\ i = page
          BY <3>1, <3>2, <4>1
        <5> QED
          BY <3>1, <5>1, Sizes
      <4>2. CASE page >= 2
        <5>1. page \in {2, 3} /\ i = 2 * file.prg - 4 + page
          BY <3>1, <3>2, <4>2
        <5>2. PrgPage * i = PrgPage * (2 * file.prg - 4) + PrgPage * page
          BY <5>1, <2>2, Sizes
        <5>3. PrgPage * (2 * file.prg - 4) = 2 * PrgPage * (file.prg - 2)
          BY <2>2, Sizes
        <5>4. a >= 2 * PrgPage
          BY <3>1, <5>1, Sizes
        <5>5. /\ PrgPage * (2 * file.prg - 4) \in Int /\ PrgPage * page \in Int
              /\ 2 * PrgPage * (file.prg - 2) \in Int
          BY <2>2, <3>1, Sizes
        <5> QED
          BY <3>1, <5>2, <5>3, <5>4, <5>5, Sizes
      <4> QED
        BY <3>1, <4>1, <4>2
    <3> QED
      BY <3>5, <3>8, <3>9, <3>1, Sizes
  <2>4. ProgramCopied'
    BY <1>1, <2>3 DEF ProgramCopied
  <2> QED
    BY <2>1, <2>4
<1> QED
  BY <1>2, <1>4, <1>5, <1>6 DEF CartridgeInv, AcceptedInv

\* set_chr_rom_page: every cell gets the byte of its own page, as a page starts
\* where the one before leaves off.
LEMMA ChrInv ==
    ASSUME CartridgeInv, set_chr_rom_page
    PROVE  CartridgeInv'
<1> DEFINE count == chr_rom_page_count
           from(page) == chrrom_pages[page % (ChrPerBank * count)]
<1>1. /\ stage = "set_chr_rom_page" /\ stage' = "start" /\ written = {}
      /\ UNCHANGED <<file, countVars, pageVars, roms, written>>
      /\ count \in Nat /\ file \in Files
  BY DEF set_chr_rom_page, CartridgeInv, ShapeInv
<1>2. (\A a : Get(a)' = Get(a)) /\ Accepted(file)' = Accepted(file)
  BY <1>1 DEF Get, Accepted
<1>3. ASSUME NEW page \in Banks
      PROVE  /\ vram[page] = [j \in 0..(4 * ChrPage - 1) |-> vram[page][j]]
             /\ vram'[page] = IF count = 0 \/ page \in NameTables THEN vram[page]
                              ELSE Copied(vram[page], from(page))
  BY DEF set_chr_rom_page, CartridgeInv, ShapeInv
<1>4. ShapeInv'
  <2>1. ASSUME NEW page \in Banks
        PROVE  vram'[page] = [j \in 0..(4 * ChrPage - 1) |-> vram'[page][j]]
    BY <1>3 DEF Copied
  <2>2. vram' = [page \in Banks |-> vram'[page]]
    BY DEF set_chr_rom_page, CartridgeInv, ShapeInv
  <2> QED
    BY <1>1, <2>1, <2>2 DEF CartridgeInv, ShapeInv, Stages, countVars, pageVars
<1>5. ASSUME NEW page \in 0..7, count # 0
      PROVE  page % (ChrPerBank * count) = page /\ page \notin NameTables /\ page \in Pages
  <2>1. page \in Nat /\ ChrPerBank * count \in Nat /\ page < ChrPerBank * count
    BY <1>1, <1>5, Sizes
  <2> QED
    BY <2>1, SmallRemainder, Sizes DEF NameTables, Pages
<1>6. RefusedInv'
  <2>1. ASSUME ~Accepted(file), NEW page \in Banks
        PROVE  vram'[page] = vram[page]
    <3>1. CASE count = 0 \/ page \in NameTables
      BY <1>3, <3>1
    <3>2. CASE count # 0 /\ page \notin NameTables
      <4>1. page \in 0..7
        BY <3>2 DEF Banks, ChrPerBank
      <4>2. from(page) = NoPage
        BY <1>5, <2>1, <3>2, <4>1 DEF CartridgeInv, RefusedInv
      <4>3. Copied(vram[page], NoPage) = vram[page]
        BY <1>3 DEF Copied, NoPage
      <4> QED
        BY <1>3, <3>2, <4>2, <4>3
    <3> QED
      BY <3>1, <3>2
  <2>2. ASSUME ~Accepted(file), NEW a \in PictureCells
        PROVE  Content(a)' = Content(a)
    BY <2>1, <2>2, InPages DEF Content
  <2> QED
    BY <1>1, <1>2, <2>2 DEF CartridgeInv, RefusedInv, pageVars
<1>7. ASSUME Accepted(file)
      PROVE  (CountsRead /\ PagesRead /\ ProgramCopied /\ PictureCopied)'
  <2>1. CountsRead' /\ PagesRead' /\ ProgramCopied'
    BY <1>1, <1>2, <1>7
       DEF CartridgeInv, AcceptedInv, CountsRead, PagesRead, ProgramCopied,
           countVars, pageVars
  <2>2. /\ count = file.chr /\ file.prg \in Nat /\ file.chr \in Nat
        /\ \A i \in 0..(ChrPerBank * file.chr - 1) :
               chrrom_pages[i] = Part(ChrStart(file, i), ChrEnd(file, i))
        /\ \A a \in PictureCells : Content(a) = Cleared
    BY <1>1, <1>7, Sizes
       DEF CartridgeInv, AcceptedInv, CountsRead, PagesRead, PictureCopied
  <2>3. ASSUME NEW a \in PictureCells, file.chr = 0 \/ a \notin PatternCells
        PROVE  Content(a)' = Cleared
    <3> DEFINE page == a \div ChrPage
    <3>1. page \in Banks /\ (a \notin PatternCells => page \notin 0..7)
      <4> DEFINE j == a % ChrPage
      <4>1. page \in Banks /\ j \in 0..(ChrPage - 1) /\ a = ChrPage * page + j
        BY InPages
      <4> HIDE DEF page, j
      <4>2. ASSUME page \in 0..7
            PROVE  a \in PatternCells
        <5>1. PICK m \in 0..7 : page = m /\ ChrPage * page = ChrPage * m
          BY <4>2
        <5>2. ChrPage * m + ChrPage <= 8 * ChrPage /\ ChrPage * m \in Nat
          BY Sizes
        <5> QED
          BY <4>1, <5>1, <5>2, Sizes
      <4> QED
        BY <4>1, <4>2
    <3>2. count = 0 \/ page \in NameTables
      BY <2>2, <2>3, <3>1, Sizes DEF Banks, NameTables
    <3> QED
      BY <1>3, <2>2, <3>1, <3>2 DEF Content
  <2>4. ASSUME NEW a \in PatternCells, file.chr # 0
        PROVE  Content(a)' = hlen + 2 * PrgPage * file.prg + a
    <3> DEFINE page == a \div ChrPage
               j == a % ChrPage
               first == ChrStart(file, page)
    <3>1. /\ page \in 0..7 /\ page \in Banks /\ j \in 0..(ChrPage - 1)
          /\ a = ChrPage * page + j
      BY InPages, Sizes
    <3> HIDE DEF page, j
    <3>0. count # 0 /\ page \notin NameTables /\ page % (ChrPerBank * count) = page
      <4>1. count # 0
        BY <2>2, <2>4
      <4> QED
        BY <1>5, <3>1, <4>1, Zenon
    <3>2. from(page) = Part(first, ChrEnd(file, page))
      <4>1. page \in 0..(ChrPerBank * file.chr - 1)
        BY <2>2, <2>4, <3>1, Sizes
      <4> QED
        BY <2>2, <3>0, <4>1
    <3>3. /\ 2 * PrgPage * file.prg \in Nat
          /\ ChrPage * page \in Nat /\ ChrPage * page + ChrPage <= 8 * ChrPage
      <4>1. ChrPage \in Nat /\ PrgPage \in Nat /\ file.prg \in Nat
        BY <2>2, Sizes
      <4>2. page \in {0, 1, 2, 3, 4, 5, 6, 7}
        BY <3>1
      <4>3. 2 * PrgPage * file.prg \in Nat
        BY <4>1
      <4> QED
        BY <4>1, <4>2, <4>3
    <3>4. 8 * ChrPage * file.chr \in Nat /\ 8 * ChrPage <= 8 * ChrPage * file.chr
      <4>1. PICK n \in Nat : file.chr = 1 + n
        BY <2>2, <2>4
      <4>2. 8 * ChrPage * (1 + n) = 8 * ChrPage + 8 * ChrPage * n /\ 8 * ChrPage * n \in Nat
        BY Sizes
      <4> QED
        BY <4>1, <4>2, Sizes
    <3>5. /\ first = hlen + 2 * PrgPage * file.prg + ChrPage * page /\ first \in Nat
          /\ ChrEnd(file, page) \in Nat /\ first + ChrPage <= ChrEnd(file, page)
      <4> DEFINE before == 2 * PrgPage * file.prg
                 place == ChrPage * page
                 all == 8 * ChrPage * file.chr
                 len == romlen(file)
      <4>1. first = hlen + before + place
        BY DEF ChrStart
      <4>2. len = hlen + before + all
        BY Sizes DEF romlen
      <4>3. ChrEnd(file, page) = IF first + 4 * ChrPage > len THEN len
                                 ELSE first + 4 * ChrPage
        BY DEF ChrEnd
      <4>4. /\ before \in Nat /\ place \in Nat /\ place + ChrPage <= 8 * ChrPage
            /\ all \in Nat /\ 8 * ChrPage <= all
        BY <3>3, <3>4
      <4> HIDE DEF first, before, place, all, len
      <4>5. first \in Nat /\ ChrEnd(file, page) \in Nat /\ first + ChrPage <= ChrEnd(file, page)
        BY <4>1, <4>2, <4>3, <4>4, Sizes
      <4> QED
        BY <4>1, <4>5 DEF before, place
    <3> HIDE DEF first
    <3>6. from(page)[j] = first + j /\ j \in DOMAIN from(page)
      BY <3>1, <3>2, <3>5, Sizes DEF Part
    <3>7. vram'[page] = Copied(vram[page], from(page)) /\ j \in DOMAIN vram[page]
      <4>1. j \in 0..(4 * ChrPage - 1)
        BY <3>1, Sizes
      <4>2. vram'[page] = Copied(vram[page], from(page))
        BY <1>3, <3>0, <3>1, Zenon
      <4>3. DOMAIN vram[page] = 0..(4 * ChrPage - 1)
        BY <1>3, <3>1
      <4> QED
        BY <4>1, <4>2, <4>3
    <3>8. Content(a)' = first + j
      BY <3>6, <3>7 DEF Copied, Content, page, j
    <3> DEFINE before == 2 * PrgPage * file.prg
               place == ChrPage * page
    <3>9. /\ first = hlen + before + place /\ a = place + j
          /\ before \in Nat /\ place \in Nat /\ hlen \in Nat /\ j \in Int
      <4>1. j \in Int /\ hlen \in Nat
        BY <3>1, Sizes
      <4> QED
        BY <3>1, <3>3, <3>5, <4>1, Zenon
    <3> HIDE DEF before, place
    <3>10. Content(a)' = hlen + before + a
      BY <3>8, <3>9
    <3> QED
      BY <3>10 DEF before
  <2>5. PictureCopied'
    BY <1>1, <2>3, <2>4 DEF PictureCopied
  <2> QED
    BY <2>1, <2>5
<1> QED
  BY <1>2, <1>4, <1>6, <1>7 DEF CartridgeInv, AcceptedInv

\* Ppu::start clears the name tables, which were clear, and touches no pattern.
LEMMA StartInv ==
    ASSUME CartridgeInv, start
    PROVE  CartridgeInv'
<1>1. /\ stage = "start" /\ stage' = "running" /\ written = {}
      /\ UNCHANGED <<file, countVars, pageVars, roms, written>>
      /\ file \in Files
  BY DEF start, CartridgeInv, ShapeInv
<1>2. (\A a : Get(a)' = Get(a)) /\ Accepted(file)' = Accepted(file)
  BY <1>1 DEF Get, Accepted
<1>3. PICK values : /\ values \in {<<0, 1, 0, 1>>, <<0, 0, 1, 1>>, <<0, 1, 2, 3>>}
                    /\ init_mirrors(values)
  BY DEF start, TableOrder
<1>4. ASSUME NEW page \in Banks
      PROVE  /\ vram[page] = [j \in 0..(4 * ChrPage - 1) |-> vram[page][j]]
             /\ page \notin NameTables => vram'[page] = vram[page]
             /\ page \in NameTables =>
                    vram'[page] = Copied(vram[page], ClearPage(ChrPage))
  <2>1. page \in NameTables => 8 + values[page - 7] \in NameTables
    <3>1. \A n \in 1..4 : values[n] \in 0..3
      BY <1>3
    <3> QED
      BY <3>1 DEF NameTables
  <2> QED
    BY <1>3, <2>1 DEF init_mirrors, CartridgeInv, ShapeInv, vrams
<1>5. ShapeInv'
  <2>1. ASSUME NEW page \in Banks
        PROVE  vram'[page] = [j \in 0..(4 * ChrPage - 1) |-> vram'[page][j]]
    BY <1>4 DEF Copied
  <2>2. vram' = [page \in Banks |-> vram'[page]]
    BY <1>3 DEF init_mirrors, CartridgeInv, ShapeInv
  <2> QED
    BY <1>1, <2>1, <2>2 DEF CartridgeInv, ShapeInv, Stages, countVars, pageVars
<1>6. ASSUME NEW a \in PictureCells, a \notin PatternCells => Content(a) = Cleared
      PROVE  Content(a)' = Content(a)
  <2> DEFINE page == a \div ChrPage
             j == a % ChrPage
  <2>1. page \in Banks /\ j \in 0..(ChrPage - 1)
    BY InPages
  <2>2. a \in PatternCells => page \notin NameTables
    BY InPages DEF NameTables
  <2>3. Content(a) = vram[page][j] /\ Content(a)' = vram'[page][j]
    BY DEF Content
  <2> HIDE DEF page, j
  <2>4. CASE page \notin NameTables
    BY <1>4, <2>1, <2>3, <2>4
  <2>5. CASE page \in NameTables
    <3>1. j \in 0..(4 * ChrPage - 1)
      BY <2>1, Sizes
    <3>2. vram'[page][j] = Cleared
      BY <1>4, <2>1, <2>5, <3>1 DEF Copied, ClearPage
    <3> QED
      BY <1>6, <2>2, <2>3, <2>5, <3>2
  <2> QED
    BY <2>4, <2>5
<1>7. RefusedInv'
  BY <1>1, <1>2, <1>6 DEF CartridgeInv, RefusedInv, pageVars
<1>8. ASSUME Accepted(file)
      PROVE  (CountsRead /\ PagesRead /\ ProgramCopied /\ PictureCopied)'
  <2>1. CountsRead' /\ PagesRead' /\ ProgramCopied'
    BY <1>1, <1>2, <1>8
       DEF CartridgeInv, AcceptedInv, CountsRead, PagesRead, ProgramCopied,
           countVars, pageVars
  <2>2. PictureCopied'
    BY <1>1, <1>6, <1>8 DEF CartridgeInv, AcceptedInv, PictureCopied
  <2> QED
    BY <2>1, <2>2
<1> QED
  BY <1>2, <1>5, <1>7, <1>8 DEF CartridgeInv, AcceptedInv

\* A write of the program changes one cell.
LEMMA WriteInv ==
    ASSUME CartridgeInv, NEW b \in PictureCells, WriteCell(b)
    PROVE  CartridgeInv'
<1>1. /\ stage = "running" /\ written' = written \cup {b}
      /\ UNCHANGED <<stage, file, countVars, pageVars, roms>>
      /\ vram' = [vram EXCEPT ![b \div ChrPage][b % ChrPage] = -1]
  BY DEF WriteCell
<1>2. (\A a : Get(a)' = Get(a)) /\ Accepted(file)' = Accepted(file)
  BY <1>1 DEF Get, Accepted
<1> DEFINE page == b \div ChrPage
           j == b % ChrPage
<1>3. page \in Banks /\ j \in 0..(ChrPage - 1) /\ b = ChrPage * page + j
  BY InPages
<1>4. j \in 0..(4 * ChrPage - 1)
  <2> HIDE DEF page, j
  <2> QED
    BY <1>3, Sizes
<1>5. ASSUME NEW p \in Banks
      PROVE  /\ vram[p] = [i \in 0..(4 * ChrPage - 1) |-> vram[p][i]]
             /\ vram'[p] = IF p = page THEN [vram[p] EXCEPT ![j] = -1] ELSE vram[p]
  BY <1>1 DEF CartridgeInv, ShapeInv
<1>6. ShapeInv'
  <2>1. ASSUME NEW p \in Banks
        PROVE  vram'[p] = [i \in 0..(4 * ChrPage - 1) |-> vram'[p][i]]
    <3> HIDE DEF page, j
    <3> QED
      BY <1>5
  <2>2. vram' = [p \in Banks |-> vram'[p]]
    BY <1>1 DEF CartridgeInv, ShapeInv
  <2> QED
    BY <1>1, <2>1, <2>2 DEF CartridgeInv, ShapeInv, Stages, countVars, pageVars
<1>7. ASSUME NEW a \in PictureCells
      PROVE  Content(a)' = IF a = b THEN -1 ELSE Content(a)
  <2> DEFINE p == a \div ChrPage
             i == a % ChrPage
  <2>1. p \in Banks /\ i \in 0..(ChrPage - 1) /\ a = ChrPage * p + i
    BY InPages
  <2>2. Content(a) = vram[p][i] /\ Content(a)' = vram'[p][i]
    BY DEF Content
  <2>3. a = b => p = page /\ i = j
    OBVIOUS
  <2> HIDE DEF page, j, p, i
  <2>4. i \in 0..(4 * ChrPage - 1)
    BY <2>1, Sizes
  <2>5. p = page /\ i = j => a = b
    BY <1>3, <2>1
  <2> QED
    BY <1>3, <1>4, <1>5, <2>1, <2>2, <2>3, <2>4, <2>5
<1>8. RefusedInv'
  BY <1>1, <1>2, <1>7 DEF CartridgeInv, RefusedInv, pageVars
<1>9. ASSUME Accepted(file)
      PROVE  (CountsRead /\ PagesRead /\ ProgramCopied /\ PictureCopied)'
  <2>1. CountsRead' /\ PagesRead' /\ ProgramCopied'
    BY <1>1, <1>2, <1>9
       DEF CartridgeInv, AcceptedInv, CountsRead, PagesRead, ProgramCopied,
           countVars, pageVars
  <2>2. PictureCopied'
    BY <1>1, <1>7, <1>9 DEF CartridgeInv, AcceptedInv, PictureCopied
  <2> QED
    BY <2>1, <2>2
<1> QED
  BY <1>2, <1>6, <1>8, <1>9 DEF CartridgeInv, AcceptedInv

\* Any step, a stuttering one included.
LEMMA NextInv == CartridgeInv /\ [Next]_vars => CartridgeInv'
<1> SUFFICES ASSUME CartridgeInv, [Next]_vars
             PROVE  CartridgeInv'
  OBVIOUS
<1>1. ASSUME UNCHANGED vars
      PROVE  CartridgeInv'
  BY <1>1
     DEF CartridgeInv, ShapeInv, RefusedInv, AcceptedInv, CountsRead, PagesRead,
         ProgramCopied, PictureCopied, vars, countVars, pageVars, Get, Content
<1> QED
  BY <1>1, ParseInv, CreateInv, PrgInv, ChrInv, StartInv, WriteInv DEF Next, Done

-----------------------------------------------------------------------------
(* Theorems.                                                               *)

\* The invariant of the loader and of the picture's memory.
THEOREM CartridgeInvariant == Spec => []CartridgeInv
<1> QED
  BY InitInv, NextInv, PTL DEF Spec

\* Mem::get finds the first and the last bank of every accepted file.
THEOREM ProgramStaysInPlace == Spec => []ProgramInPlace
<1>1. CartridgeInv => ProgramInPlace
  BY DEF CartridgeInv, AcceptedInv, ProgramCopied, ProgramInPlace, Accepted
<1> QED
  BY <1>1, CartridgeInvariant, PTL

\* Ppu finds the first bank of patterns and four name tables, each a memory of its
\* own in which only the cells written differ from those start has copied.
THEOREM PictureStaysInPlace == Spec => []PictureInPlace
<1>1. CartridgeInv => PictureInPlace
  BY DEF CartridgeInv, AcceptedInv, PictureCopied, PictureInPlace, Accepted
<1> QED
  BY <1>1, CartridgeInvariant, PTL

\* Of a refused file (Rom::set_rom's early return) nothing is ever seen.
THEOREM RefusedStaysEmpty == Spec => []RefusedLeavesEmpty
<1>1. CartridgeInv => RefusedLeavesEmpty
  BY DEF CartridgeInv, RefusedInv, RefusedLeavesEmpty, Accepted
<1> QED
  BY <1>1, CartridgeInvariant, PTL
=============================================================================
