--------------------------- MODULE PpuPortProofs ----------------------------
(***************************************************************************)
(* The address counter and the background it leads through, proved for all *)
(* bytes the program may write, all patterns of a cartridge and every      *)
(* number of lines.                                                        *)
(***************************************************************************)
EXTENDS Background, WellFoundedInduction, TLAPS

-----------------------------------------------------------------------------
(* Words and memory.  Their definitions are only expanded here: the provers *)
(* take ranges of numbers apart one by one.                                *)

\* What a word is, and what W16 makes of a number.
LEMMA Words ==
    /\ \A a \in Word : a \in Int /\ 0 <= a /\ a <= 65535
    /\ \A a \in Int : W16(a) \in Word /\ (0 <= a /\ a <= 65535 => a \in Word)
    /\ Buffer \subseteq Word /\ 0 \in Buffer
<1>0. MaxWord \in Int /\ 65535 <= MaxWord /\ MaxWord <= 65535
  BY DEF MaxWord
<1>1. ASSUME NEW a \in Word
      PROVE  a \in Int /\ 0 <= a /\ a <= 65535
  BY <1>0 DEF Word
<1>2. ASSUME NEW a \in Int
      PROVE  W16(a) \in Word
  BY <1>0 DEF Word, W16
<1>3. ASSUME NEW a \in Int, 0 <= a, a <= 65535
      PROVE  a \in Word
  <2>1. W16(a) = a
    BY <1>3 DEF W16
  <2> QED
    BY <1>2, <2>1
<1> QED
  BY <1>1, <1>2, <1>3 DEF Buffer

\* Every address has a cell, its mirror is one too, and so has every pattern.
LEMMA CellsOfMemory ==
    /\ \A a \in Int : Cell(a) \in Memory /\ Cell(a) \in Int
    /\ \A c \in Memory : Cells(c) \subseteq Memory
    /\ PatternMemory \subseteq Memory
<1>0. MemorySize \in Int /\ 16384 <= MemorySize /\ MemorySize <= 16384
  BY DEF MemorySize
<1>1. ASSUME NEW a \in Int
      PROVE  Cell(a) \in Memory /\ Cell(a) \in Int
  BY <1>0 DEF Memory, Cell
<1>2. ASSUME NEW a \in Int, 0 <= a, a <= 16383
      PROVE  a \in Memory
  <2>1. Cell(a) = a
    BY <1>2 DEF Cell
  <2> QED
    BY <1>1, <2>1
<1>3. ASSUME NEW c \in Memory
      PROVE  Cells(c) \subseteq Memory
  <2>1. c \in Int /\ 0 <= c /\ c <= 16383
    BY <1>0 DEF Memory
  <2>2. 12288 <= c => c - 4096 \in Memory
    BY <1>2, <2>1
  <2> QED
    BY <2>1, <2>2 DEF Cells
<1>4. ASSUME NEW c \in PatternMemory
      PROVE  c \in Memory
  <2>1. c \in Int /\ 0 <= c /\ c <= 8191
    BY <1>0 DEF PatternMemory
  <2> QED
    BY <1>2, <2>1
<1> QED
  BY <1>1, <1>3, <1>4

-----------------------------------------------------------------------------
(* Fields of an address.                                                   *)

\* An address is made of its fields and its highest bit.
FieldsOf(a, top, fine, ty, tx, cy, cx) ==
    /\ top \in 0..1 /\ fine \in 0..7 /\ ty \in 0..1 /\ tx \in 0..1
    /\ cy \in 0..31 /\ cx \in 0..31
    /\ a = 32768 * top + 4096 * fine + 2048 * ty + 1024 * tx + 32 * cy + cx

\* The values of the fields of three bits and of one, to be cited unexpanded.
ThreeBits == 0..7
OneBit == 0..1

\* What is made of fields has them, and stays in its bounds.
LEMMA FieldsRead ==
    ASSUME NEW a, NEW top, NEW fine, NEW ty, NEW tx, NEW cy, NEW cx,
           FieldsOf(a, top, fine, ty, tx, cy, cx)
    PROVE  /\ FineY(a) = fine /\ TableY(a) = ty /\ TableX(a) = tx
           /\ CoarseY(a) = cy /\ CoarseX(a) = cx
           /\ Field(a, 1024, 4) = 2 * ty + tx
           /\ a \in Int /\ a \in Word /\ (top = 0 => a \in Buffer)
<1>1. FineY(a) = fine
  <2>1. a \div 4096 = 8 * top + fine /\ (8 * top + fine) % 8 = fine
    BY DEF FieldsOf
  <2> QED
    BY <2>1 DEF FineY, Field
<1>2. TableY(a) = ty
  <2>1. /\ a \div 2048 = 2 * (8 * top + fine) + ty
        /\ (2 * (8 * top + fine) + ty) % 2 = ty
    BY DEF FieldsOf
  <2> QED
    BY <2>1 DEF TableY, Field
<1>3. TableX(a) = tx /\ Field(a, 1024, 4) = 2 * ty + tx
  <2>1. /\ a \div 1024 = 4 * (8 * top + fine) + 2 * ty + tx
        /\ (4 * (8 * top + fine) + 2 * ty + tx) % 2 = tx
        /\ (4 * (8 * top + fine) + 2 * ty + tx) % 4 = 2 * ty + tx
    BY DEF FieldsOf
  <2> QED
    BY <2>1 DEF TableX, Field
<1>4. CoarseY(a) = cy
  <2>1. /\ a \div 32 = 32 * (4 * (8 * top + fine) + 2 * ty + tx) + cy
        /\ (32 * (4 * (8 * top + fine) + 2 * ty + tx) + cy) % 32 = cy
    BY DEF FieldsOf
  <2> QED
    BY <2>1 DEF CoarseY, Field
<1>5. CoarseX(a) = cx
  <2>1. a \div 1 = a /\ a % 32 = cx
    BY DEF FieldsOf
  <2> QED
    BY <2>1 DEF CoarseX, Field
<1>6. a \in Int /\ 0 <= a /\ a <= 65535 /\ (top = 0 => a < 32768)
  BY DEF FieldsOf
<1>7. a \in Word /\ (top = 0 => a \in Buffer)
  BY <1>6, Words DEF Buffer
<1> QED
  BY <1>1, <1>2, <1>3, <1>4, <1>5, <1>6, <1>7

\* Every word is made of its fields.
LEMMA FieldsExist ==
    ASSUME NEW a \in Word
    PROVE  \E top :
               /\ FieldsOf(a, top, FineY(a), TableY(a), TableX(a), CoarseY(a), CoarseX(a))
               /\ a \in Buffer => top = 0
<1>0. a \in Int /\ 0 <= a /\ a <= 65535
  BY Words
<1>1. PICK q1 \in Nat, cx \in 0..31 : a = 32 * q1 + cx
  <2>1. a = 32 * (a \div 32) + (a % 32) /\ a \div 32 \in Nat /\ a % 32 \in 0..31
    BY <1>0
  <2> QED
    BY <2>1
<1>2. PICK q2 \in Nat, cy \in 0..31 : q1 = 32 * q2 + cy
  <2>1. q1 = 32 * (q1 \div 32) + (q1 % 32) /\ q1 \div 32 \in Nat /\ q1 % 32 \in 0..31
    BY <1>1
  <2> QED
    BY <2>1
<1>3. PICK q3 \in Nat, tx \in 0..1 : q2 = 2 * q3 + tx
  <2>1. q2 = 2 * (q2 \div 2) + (q2 % 2) /\ q2 \div 2 \in Nat /\ q2 % 2 \in 0..1
    BY <1>2
  <2> QED
    BY <2>1
<1>4. PICK q4 \in Nat, ty \in 0..1 : q3 = 2 * q4 + ty
  <2>1. q3 = 2 * (q3 \div 2) + (q3 % 2) /\ q3 \div 2 \in Nat /\ q3 % 2 \in 0..1
    BY <1>3
  <2> QED
    BY <2>1
<1>5. PICK top \in Nat, fine \in 0..7 : q4 = 8 * top + fine
  <2>1. q4 = 8 * (q4 \div 8) + (q4 % 8) /\ q4 \div 8 \in Nat /\ q4 % 8 \in 0..7
    BY <1>4
  <2> QED
    BY <2>1
<1>6. a = 32768 * top + 4096 * fine + 2048 * ty + 1024 * tx + 32 * cy + cx
  BY <1>1, <1>2, <1>3, <1>4, <1>5
<1>7. top <= 1 /\ (a \in Buffer => top = 0)
  BY <1>0, <1>1, <1>2, <1>3, <1>4, <1>5, <1>6 DEF Buffer
<1>8. FieldsOf(a, top, fine, ty, tx, cy, cx)
  <2>1. top \in 0..1
    BY <1>5, <1>7
  <2> QED
    BY <2>1, <1>1, <1>2, <1>3, <1>4, <1>5, <1>6 DEF FieldsOf
<1>9. /\ FineY(a) = fine /\ TableY(a) = ty /\ TableX(a) = tx
      /\ CoarseY(a) = cy /\ CoarseX(a) = cx
  BY <1>8, FieldsRead
<1> QED
  BY <1>7, <1>8, <1>9

\* Insert replaces one field and leaves the others: the column of tiles,
LEMMA InsertCoarseX ==
    ASSUME NEW a, NEW top, NEW fine, NEW ty, NEW tx, NEW cy, NEW cx,
           FieldsOf(a, top, fine, ty, tx, cy, cx), NEW v \in 0..31
    PROVE  FieldsOf(Insert(a, 1, 32, v), top, fine, ty, tx, cy, v)
<1>1. Field(a, 1, 32) = cx
  BY FieldsRead DEF CoarseX
<1> QED
  BY <1>1 DEF Insert, FieldsOf

\* the row of tiles,
LEMMA InsertCoarseY ==
    ASSUME NEW a, NEW top, NEW fine, NEW ty, NEW tx, NEW cy, NEW cx,
           FieldsOf(a, top, fine, ty, tx, cy, cx), NEW v \in 0..31
    PROVE  FieldsOf(Insert(a, 32, 32, v), top, fine, ty, tx, v, cx)
<1>1. Field(a, 32, 32) = cy
  BY FieldsRead DEF CoarseY
<1> QED
  BY <1>1 DEF Insert, FieldsOf

\* the name table across,
LEMMA InsertTableX ==
    ASSUME NEW a, NEW top, NEW fine, NEW ty, NEW tx, NEW cy, NEW cx,
           FieldsOf(a, top, fine, ty, tx, cy, cx), NEW v \in 0..1
    PROVE  FieldsOf(Insert(a, 1024, 2, v), top, fine, ty, v, cy, cx)
<1>1. Field(a, 1024, 2) = tx
  BY FieldsRead DEF TableX
<1> QED
  BY <1>1 DEF Insert, FieldsOf

\* the name table down,
LEMMA InsertTableY ==
    ASSUME NEW a, NEW top, NEW fine, NEW ty, NEW tx, NEW cy, NEW cx,
           FieldsOf(a, top, fine, ty, tx, cy, cx), NEW v \in 0..1
    PROVE  FieldsOf(Insert(a, 2048, 2, v), top, fine, v, tx, cy, cx)
<1>1. Field(a, 2048, 2) = ty
  BY FieldsRead DEF TableY
<1> QED
  BY <1>1 DEF Insert, FieldsOf

\* the row within the tile,
LEMMA InsertFineY ==
    ASSUME NEW a, NEW top, NEW fine, NEW ty, NEW tx, NEW cy, NEW cx,
           FieldsOf(a, top, fine, ty, tx, cy, cx), NEW v \in ThreeBits
    PROVE  FieldsOf(Insert(a, 4096, 8, v), top, v, ty, tx, cy, cx)
<1>1. Field(a, 4096, 8) = fine
  BY FieldsRead DEF FineY
<1> QED
  BY <1>1 DEF Insert, FieldsOf, ThreeBits

\* and both name table bits at once.
LEMMA InsertTables ==
    ASSUME NEW a, NEW top, NEW fine, NEW ty, NEW tx, NEW cy, NEW cx,
           FieldsOf(a, top, fine, ty, tx, cy, cx), NEW p \in OneBit, NEW q \in OneBit
    PROVE  FieldsOf(Insert(a, 1024, 4, 2 * p + q), top, fine, p, q, cy, cx)
<1>1. Field(a, 1024, 4) = 2 * ty + tx
  BY FieldsRead
<1> QED
  BY <1>1 DEF Insert, FieldsOf, OneBit

\* The two halves of an address, written one after the other.
LEMMA Halves ==
    ASSUME NEW a \in Buffer, NEW v \in Byte
    PROVE  /\ Insert(a, 1, 256, v) \in Buffer
           /\ (a % 256) + 256 * HighByte(v) \in Buffer
<1>1. a \in Int /\ 0 <= a /\ a < 32768 /\ v \in Int /\ 0 <= v /\ v <= 255
  BY Words DEF Byte, Buffer
<1>2. PICK q \in Int, r \in 0..255 : a = 256 * q + r /\ a % 256 = r
  <2>1. a = 256 * (a \div 256) + (a % 256) /\ a \div 256 \in Int /\ a % 256 \in 0..255
    BY <1>1
  <2> QED
    BY <2>1
<1>3. 0 <= q /\ q <= 127
  BY <1>1, <1>2
<1>4. Insert(a, 1, 256, v) = 256 * q + v
  <2>1. a \div 1 = a
    BY <1>1
  <2> QED
    BY <2>1, <1>1, <1>2 DEF Insert, Field
<1>5. /\ Insert(a, 1, 256, v) \in Int
      /\ 0 <= Insert(a, 1, 256, v) /\ Insert(a, 1, 256, v) < 32768
  BY <1>1, <1>3, <1>4
<1>6. HighByte(v) \in Int /\ 0 <= HighByte(v) /\ HighByte(v) <= 63
  BY <1>1 DEF HighByte
<1>7. /\ (a % 256) + 256 * HighByte(v) \in Int
      /\ 0 <= (a % 256) + 256 * HighByte(v)
      /\ (a % 256) + 256 * HighByte(v) < 32768
  BY <1>2, <1>6
<1> QED
  BY <1>5, <1>7, Words DEF Buffer

\* A line takes the horizontal fields from the buffer and no other.
LEMMA LineRealigned ==
    ASSUME NEW a \in Word, NEW b \in Word
    PROVE  /\ Realigned(a, b) \in Word
           /\ Row(Realigned(a, b)) = Row(a)
           /\ TileColumn(Realigned(a, b)) = TileColumn(b)
<1> DEFINE fine == FineY(a)
           ty == TableY(a)
           tx == TableX(b)
           cy == CoarseY(a)
           cx == CoarseX(b)
           moved == Insert(a, 1, 32, cx)
<1>1. PICK top : FieldsOf(a, top, fine, ty, TableX(a), cy, CoarseX(a))
  BY FieldsExist
<1>2. cx \in 0..31 /\ tx \in 0..1
  BY FieldsExist DEF FieldsOf
<1> HIDE DEF cx, tx, fine, ty, cy, moved
<1>3. FieldsOf(moved, top, fine, ty, TableX(a), cy, cx)
  BY <1>1, <1>2, InsertCoarseX DEF moved
<1>4. FieldsOf(Realigned(a, b), top, fine, ty, tx, cy, cx)
  <2>1. FieldsOf(Insert(moved, 1024, 2, tx), top, fine, ty, tx, cy, cx)
    BY <1>2, <1>3, InsertTableX
  <2> QED
    BY <2>1 DEF Realigned, moved, cx, tx
<1>5. /\ FineY(Realigned(a, b)) = fine /\ TableY(Realigned(a, b)) = ty
      /\ TableX(Realigned(a, b)) = tx /\ CoarseY(Realigned(a, b)) = cy
      /\ CoarseX(Realigned(a, b)) = cx /\ Realigned(a, b) \in Word
  BY <1>4, FieldsRead
<1> QED
  BY <1>5 DEF Row, TileColumn, cx, tx, fine, ty, cy

\* The row below, in the terms of the plane; it leaves the columns alone.
LEMMA RowsBelow ==
    ASSUME NEW a \in Word
    PROVE  /\ RowBelow(a) \in Word
           /\ Row(RowBelow(a)) = Plane!Below(Row(a))
           /\ TileColumn(RowBelow(a)) = TileColumn(a)
<1> DEFINE ty == TableY(a)
           tx == TableX(a)
           cy == CoarseY(a)
           cx == CoarseX(a)
           fine == FineY(a)
           clear == Insert(a, 4096, 8, 0)
<1>1. PICK top : FieldsOf(a, top, fine, ty, tx, cy, cx)
  BY FieldsExist
<1>2. FieldsOf(clear, top, 0, ty, tx, cy, cx)
  BY <1>1, InsertFineY DEF clear, ThreeBits
<1>3. /\ fine \in 0..7 /\ ty \in 0..1 /\ tx \in 0..1 /\ cy \in 0..31 /\ cx \in 0..31
  BY <1>1 DEF FieldsOf
<1> HIDE DEF ty, tx, cy, cx, fine, clear
<1>4. /\ Row(a) = 256 * ty + 8 * cy + fine
      /\ Row(a) \div 256 = ty /\ Row(a) % 256 = 8 * cy + fine
  <2>1. Row(a) = 256 * ty + 8 * cy + fine
    BY DEF Row, ty, cy, fine
  <2>2. /\ (256 * ty + 8 * cy + fine) \div 256 = ty
        /\ (256 * ty + 8 * cy + fine) % 256 = 8 * cy + fine
    BY <1>3
  <2> QED
    BY <2>1, <2>2
<1>5. TileColumn(a) = 32 * tx + cx
  BY DEF TileColumn, tx, cx
<1>6. ASSUME NEW f, NEW y, NEW c, FieldsOf(RowBelow(a), top, f, y, tx, c, cx),
             256 * y + 8 * c + f = Plane!Below(Row(a))
      PROVE  /\ RowBelow(a) \in Word
             /\ Row(RowBelow(a)) = Plane!Below(Row(a))
             /\ TileColumn(RowBelow(a)) = TileColumn(a)
  BY <1>5, <1>6, FieldsRead DEF Row, TileColumn
<1>7. CASE fine < 7
  <2>1. RowBelow(a) = Insert(a, 4096, 8, fine + 1)
    BY <1>7 DEF RowBelow, fine
  <2>2. FieldsOf(RowBelow(a), top, fine + 1, ty, tx, cy, cx)
    <3>1. PICK next \in ThreeBits : next = fine + 1
      BY <1>3, <1>7 DEF ThreeBits
    <3>2. FieldsOf(Insert(a, 4096, 8, next), top, next, ty, tx, cy, cx)
      BY <1>1, InsertFineY
    <3> QED
      BY <2>1, <3>1, <3>2
  <2>3. Plane!Below(Row(a)) = 256 * ty + 8 * cy + (fine + 1)
    <3>1. 8 * cy + fine # 239 /\ 8 * cy + fine # 255
      BY <1>3, <1>7
    <3> QED
      BY <1>3, <1>4, <3>1 DEF Plane!Below
  <2> QED
    BY <1>6, <2>2, <2>3
<1>8. CASE fine = 7 /\ cy = 29
  <2>1. RowBelow(a) = Insert(Insert(clear, 32, 32, 0), 2048, 2, 1 - ty)
    BY <1>8 DEF RowBelow, fine, cy, ty, clear
  <2>2. FieldsOf(Insert(clear, 32, 32, 0), top, 0, ty, tx, 0, cx)
    BY <1>2, InsertCoarseY
  <2>3. FieldsOf(RowBelow(a), top, 0, 1 - ty, tx, 0, cx)
    <3>1. 1 - ty \in 0..1
      BY <1>3
    <3> QED
      BY <2>1, <2>2, <3>1, InsertTableY
  <2>4. Plane!Below(Row(a)) = 256 * (1 - ty) + 8 * 0 + 0
    BY <1>3, <1>4, <1>8 DEF Plane!Below
  <2> QED
    BY <1>6, <2>3, <2>4
<1>9. CASE fine = 7 /\ cy = 31
  <2>1. RowBelow(a) = Insert(clear, 32, 32, 0)
    BY <1>9 DEF RowBelow, fine, cy, clear
  <2>2. FieldsOf(RowBelow(a), top, 0, ty, tx, 0, cx)
    BY <1>2, <2>1, InsertCoarseY
  <2>3. Plane!Below(Row(a)) = 256 * ty + 8 * 0 + 0
    BY <1>3, <1>4, <1>9 DEF Plane!Below
  <2> QED
    BY <1>6, <2>2, <2>3
<1>10. CASE fine = 7 /\ cy # 29 /\ cy # 31
  <2>1. RowBelow(a) = Insert(clear, 32, 32, cy + 1)
    BY <1>10 DEF RowBelow, fine, cy, clear
  <2>2. FieldsOf(RowBelow(a), top, 0, ty, tx, cy + 1, cx)
    <3>1. cy + 1 \in 0..31
      BY <1>3, <1>10
    <3> QED
      BY <1>2, <2>1, <3>1, InsertCoarseY
  <2>3. Plane!Below(Row(a)) = 256 * ty + 8 * (cy + 1) + 0
    <3>1. 8 * cy + fine # 239 /\ 8 * cy + fine # 255
      BY <1>3, <1>10
    <3> QED
      BY <1>3, <1>4, <1>10, <3>1 DEF Plane!Below
  <2> QED
    BY <1>6, <2>2, <2>3
<1> QED
  BY <1>3, <1>7, <1>8, <1>9, <1>10

-----------------------------------------------------------------------------
(* The types.                                                              *)

\* The types hold at the start.
LEMMA InitTypes == Init => TypeOK
<1> SUFFICES ASSUME Init PROVE TypeOK
  OBVIOUS
<1>1. 0 \in Word /\ 0 \in Buffer /\ 0 \in Byte
  BY Words DEF Byte
<1>2. vram = Patterns /\ DOMAIN vram \subseteq Memory
  BY PortAssumption, CellsOfMemory DEF Init
<1>3. line \in 0..(FrameLines - 1)
  BY PortAssumption DEF Init
<1>4. \A cell \in DOMAIN vram : vram[cell] \in Byte
  BY <1>2, PortAssumption
<1>5. palette \in [0..31 -> 0..63]
  BY DEF Init
<1>6. MemoryTypeOK
  BY <1>2, <1>4, <1>5 DEF MemoryTypeOK
<1>7. /\ ctrl0 = 0 /\ enabled = FALSE /\ accesses = 0
      /\ ppu_addr = 0 /\ ppu_addr_buffer = 0 /\ h_scroll_val = 0
      /\ scroll_reg_flg = FALSE /\ ppu_addr_reg_flg = FALSE /\ ppu_read_buffer = 0
  BY DEF Init
<1>8. 0 \in Nat /\ 0 \in 0..7 /\ FALSE \in BOOLEAN
  OBVIOUS
<1> QED
  BY <1>1, <1>3, <1>6, <1>7, <1>8 DEF TypeOK

\* An access keeps the types.
LEMMA AccessTypes ==
    ASSUME TypeOK, Access, accesses' = accesses + 1
    PROVE  TypeOK'
<1>0. accesses' \in Nat
  BY DEF TypeOK
<1>9. ASSUME UNCHANGED <<vram, palette>> PROVE MemoryTypeOK'
  BY <1>9 DEF TypeOK, MemoryTypeOK
<1>1. ASSUME NEW value \in ScrollValues, WriteScroll(value)
      PROVE  TypeOK'
  <2> DEFINE b == ppu_addr_buffer
  <2>1. value \in Int /\ value \div 8 \in 0..31 /\ value % 8 \in ThreeBits
    BY PortAssumption DEF Byte, ThreeBits
  <2>2. PICK fine, ty, tx, cy, cx : FieldsOf(b, 0, fine, ty, tx, cy, cx)
    BY FieldsExist, Words DEF TypeOK
  <2>3. FieldsOf(Insert(b, 1, 32, value \div 8), 0, fine, ty, tx, cy, value \div 8)
    BY <2>1, <2>2, InsertCoarseX
  <2>4. FieldsOf(Insert(b, 32, 32, value \div 8), 0, fine, ty, tx, value \div 8, cx)
    BY <2>1, <2>2, InsertCoarseY
  <2>5. FieldsOf(Insert(Insert(b, 32, 32, value \div 8), 4096, 8, value % 8),
                 0, value % 8, ty, tx, value \div 8, cx)
    BY <2>1, <2>4, InsertFineY
  <2>6. ppu_addr_buffer' \in Buffer
    BY <1>1, <2>3, <2>5, FieldsRead DEF WriteScroll
  <2>7. h_scroll_val' \in 0..7 /\ scroll_reg_flg' \in BOOLEAN
    BY <1>1, <2>1 DEF WriteScroll, TypeOK, ThreeBits
  <2> QED
    BY <1>0, <1>1, <1>9, <2>6, <2>7 DEF WriteScroll, TypeOK, memVars
<1>2. ASSUME NEW value \in Ctrl0Values, WriteCtrl0(value)
      PROVE  TypeOK'
  <2> DEFINE b == ppu_addr_buffer
  <2>1. value \in Byte
    BY PortAssumption
  <2>2. PICK p \in OneBit, q \in OneBit : value % 4 = 2 * p + q
    <3>1. /\ value \in Int /\ value % 4 \in 0..3
          /\ value % 4 = 2 * ((value % 4) \div 2) + ((value % 4) % 2)
          /\ (value % 4) \div 2 \in 0..1 /\ (value % 4) % 2 \in 0..1
      BY <2>1 DEF Byte
    <3> QED
      BY <3>1 DEF OneBit
  <2>3. PICK fine, ty, tx, cy, cx : FieldsOf(b, 0, fine, ty, tx, cy, cx)
    BY FieldsExist, Words DEF TypeOK
  <2>4. FieldsOf(Insert(b, 1024, 4, 2 * p + q), 0, fine, p, q, cy, cx)
    BY <2>2, <2>3, InsertTables
  <2>5. ppu_addr_buffer' \in Buffer
    BY <1>2, <2>2, <2>4, FieldsRead DEF WriteCtrl0
  <2> QED
    BY <1>0, <1>2, <1>9, <2>1, <2>5 DEF WriteCtrl0, TypeOK, memVars, flgVars
<1>3. ASSUME NEW shows \in BOOLEAN, WriteCtrl1(shows)
      PROVE  TypeOK'
  BY <1>0, <1>3, <1>9 DEF WriteCtrl1, TypeOK, addrVars, flgVars, memVars
<1>4. CASE ReadStatus
  BY <1>0, <1>4, <1>9 DEF ReadStatus, TypeOK, addrVars, memVars
<1>5. ASSUME NEW value \in AddrValues, WriteAddr(value)
      PROVE  TypeOK'
  <2>1. ppu_addr_buffer' \in Buffer
    BY <1>5, PortAssumption, Halves DEF WriteAddr, TypeOK
  <2>2. ppu_addr' \in Word
    BY <1>5, <2>1, Words DEF WriteAddr, TypeOK
  <2>3. ppu_addr_reg_flg' \in BOOLEAN
    BY <1>5 DEF WriteAddr, TypeOK
  <2> QED
    BY <1>0, <1>5, <1>9, <2>1, <2>2, <2>3 DEF WriteAddr, TypeOK, memVars
<1>6. Stepped(ppu_addr, Increment) \in Word
  <2>1. ppu_addr + Increment \in Int
    BY Words DEF TypeOK, Increment
  <2> QED
    BY <2>1, Words DEF Stepped
<1>7. CASE ReadData
  <2>1. ppu_read_buffer' \in Byte
    <3>1. 0 \in Byte
      BY DEF Byte
    <3> QED
      BY <1>7, <3>1 DEF ReadData, Content, TypeOK, MemoryTypeOK
  <2> QED
    BY <1>0, <1>6, <1>7, <1>9, <2>1 DEF ReadData, TypeOK, flgVars
<1>8. ASSUME NEW value \in DataValues, WriteData(value)
      PROVE  TypeOK'
  <2> DEFINE cell == Cell(ppu_addr)
  <2>1. value \in Byte
    BY PortAssumption
  <2>2. cell \in Memory /\ Cells(cell) \subseteq Memory /\ cell \in Int
    BY Words, CellsOfMemory DEF TypeOK
  <2>3. vram' = [c \in DOMAIN vram \cup Cells(cell) |->
                     IF c \in Cells(cell) THEN value ELSE vram[c]]
    BY <1>8 DEF WriteData
  <2>4. palette' = IF cell > 16126 THEN SetPalette(palette, cell % 32, value)
                   ELSE palette
    BY <1>8 DEF WriteData
  <2> HIDE DEF cell
  <2>5. DOMAIN vram' \subseteq Memory /\ \A c \in DOMAIN vram' : vram'[c] \in Byte
    BY <2>1, <2>2, <2>3 DEF TypeOK, MemoryTypeOK
  <2>6. palette' \in [0..31 -> 0..63]
    <3>1. cell % 32 \in 0..31
      BY <2>2
    <3>2. value % 64 \in 0..63
      BY <2>1 DEF Byte
    <3> DEFINE D == 0..31
               R == 0..63
               i == cell % 32
               v == value % 64
    <3>3. i \in D /\ v \in R /\ 0 \in D /\ 16 \in D /\ palette \in [D -> R]
      BY <3>1, <3>2 DEF TypeOK, MemoryTypeOK
    <3>4. palette' = IF cell > 16126
                     THEN IF i \in {0, 16} THEN [palette EXCEPT ![0] = v, ![16] = v]
                                           ELSE [palette EXCEPT ![i] = v]
                     ELSE palette
      BY <2>4 DEF SetPalette
    <3> HIDE DEF D, R, i, v
    <3>5. palette' \in [D -> R]
      BY <3>3, <3>4
    <3> QED
      BY <3>5 DEF D, R
  <2>7. MemoryTypeOK'
    BY <2>5, <2>6 DEF MemoryTypeOK
  <2> QED
    BY <1>0, <1>6, <1>8, <2>7 DEF WriteData, TypeOK, flgVars
<1> QED
  BY <1>1, <1>2, <1>3, <1>4, <1>5, <1>7, <1>8 DEF Access, AddressAccess

\* So does a line.
LEMMA LineTypes ==
    ASSUME TypeOK, PassLine, UNCHANGED accesses
    PROVE  TypeOK'
<1>1. RowBelow(Realigned(ppu_addr, ppu_addr_buffer)) \in Word
  BY Words, LineRealigned, RowsBelow DEF TypeOK
<1>2. line' \in 0..(FrameLines - 1) /\ ppu_addr' \in Word
  <2>1. CASE RenderLine
    BY <1>1, <2>1, PortAssumption DEF RenderLine, TypeOK
  <2>2. CASE InVBlank
    BY <2>2, PortAssumption DEF InVBlank, TypeOK, addrVars
  <2>3. CASE BlankLine
    BY <2>3, PortAssumption DEF BlankLine, TypeOK, addrVars
  <2>4. CASE PostRender
    BY <2>4, PortAssumption, Words DEF PostRender, TypeOK
  <2> QED
    BY <2>1, <2>2, <2>3, <2>4 DEF PassLine
<1>3. scroll_reg_flg' \in {scroll_reg_flg, FALSE} /\ ppu_addr_reg_flg' = ppu_addr_reg_flg
  BY DEF PassLine, RenderLine, InVBlank, BlankLine, PostRender, flgVars
<1>4. UNCHANGED <<ctrl0, enabled, ppu_addr_buffer, h_scroll_val,
                  ppu_read_buffer, vram, palette>>
  BY DEF PassLine, RenderLine, InVBlank, BlankLine, PostRender, addrVars, memVars
<1>5. MemoryTypeOK'
  BY <1>4 DEF TypeOK, MemoryTypeOK
<1> QED
  BY <1>2, <1>3, <1>4, <1>5 DEF TypeOK

\* Every action keeps the types.
LEMMA NextTypes == TypeOK /\ [Next]_vars => TypeOK'
<1> SUFFICES ASSUME TypeOK, [Next]_vars PROVE TypeOK'
  OBVIOUS
<1>1. CASE UNCHANGED vars
  BY <1>1 DEF vars, addrVars, flgVars, memVars, TypeOK, MemoryTypeOK
<1> QED
  BY <1>1, AccessTypes, LineTypes DEF Next

\* Every variable keeps its type: in particular the buffer stays within its
\* 15 bits and every byte written goes to a cell of the memory, whatever the
\* increments and the rows add up to.
THEOREM TypeCorrect == Spec => []TypeOK
<1> QED
  BY InitTypes, NextTypes, PTL DEF Spec

-----------------------------------------------------------------------------
(* The plane.  Below, b is the buffer and h the offset within the tile.    *)

X(b, h) == 8 * TileColumn(b) + h

\* What is asked for is in the plane; its parts are fields of the buffer.
LEMMA Asked ==
    ASSUME NEW b, NEW fine, NEW ty, NEW tx, NEW cy, NEW cx,
           FieldsOf(b, 0, fine, ty, tx, cy, cx), NEW h \in ThreeBits
    PROVE  /\ X(b, h) \in Plane!Plane /\ Row(b) \in Plane!Plane
           /\ X(b, h) \div 256 = tx /\ X(b, h) % 256 = 8 * cx + h
           /\ X(b, h) \div 8 = TileColumn(b)
           /\ Row(b) \div 256 = ty /\ Row(b) % 256 = 8 * cy + fine
<1>1. \A n \in Int : 0 <= n /\ n <= 511 => n \in Plane!Plane
  <2>1. ASSUME NEW n \in Int, 0 <= n, n <= 511
        PROVE  n \in Plane!Plane
    <3>1. n % 512 \in Plane!Plane
      BY DEF Plane!Plane
    <3> QED
      BY <2>1, <3>1
  <2> QED
    BY <2>1
<1>2. TileColumn(b) = 32 * tx + cx /\ Row(b) = 256 * ty + 8 * cy + fine
  BY FieldsRead DEF TileColumn, Row
<1>3. /\ fine \in 0..7 /\ ty \in 0..1 /\ tx \in 0..1 /\ cy \in 0..31 /\ cx \in 0..31
      /\ h \in 0..7
  BY DEF FieldsOf, ThreeBits
<1>4. X(b, h) = 256 * tx + 8 * cx + h
  BY <1>2, <1>3 DEF X
<1>5. /\ (256 * tx + 8 * cx + h) \div 256 = tx
      /\ (256 * tx + 8 * cx + h) % 256 = 8 * cx + h
      /\ (256 * tx + 8 * cx + h) \div 8 = 32 * tx + cx
      /\ 0 <= 256 * tx + 8 * cx + h /\ 256 * tx + 8 * cx + h <= 511
  BY <1>3
<1>6. /\ (256 * ty + 8 * cy + fine) \div 256 = ty
      /\ (256 * ty + 8 * cy + fine) % 256 = 8 * cy + fine
      /\ 0 <= 256 * ty + 8 * cy + fine /\ 256 * ty + 8 * cy + fine <= 511
  BY <1>3
<1>7. X(b, h) \in Int /\ Row(b) \in Int
  BY <1>2, <1>3, <1>4
<1>8. X(b, h) \in Plane!Plane
  BY <1>1, <1>4, <1>5, <1>7
<1>9. Row(b) \in Plane!Plane
  BY <1>1, <1>2, <1>6, <1>7
<1> QED
  BY <1>2, <1>4, <1>5, <1>6, <1>8, <1>9

\* Nothing is asked for at first.
LEMMA InitPlane == Init => Plane!Init
<1> SUFFICES ASSUME Init PROVE Plane!Init
  OBVIOUS
<1>1. FieldsOf(0, 0, 0, 0, 0, 0, 0)
  BY DEF FieldsOf
<1>2. Row(0) = 0 /\ TileColumn(0) = 0
  BY <1>1, FieldsRead DEF Row, TileColumn
<1> QED
  BY <1>2 DEF Init, Plane!Init

\* The scroll port asks for a column, then for a row.
LEMMA ScrollAsks ==
    ASSUME TypeOK, NEW value \in ScrollValues, WriteScroll(value)
    PROVE  Plane!AskX \/ Plane!AskY
<1> DEFINE b == ppu_addr_buffer
<1>1. PICK tile \in 0..31, off \in ThreeBits : value \div 8 = tile /\ value % 8 = off
  BY PortAssumption DEF Byte, ThreeBits
<1>2. PICK fine, ty, tx, cy, cx : FieldsOf(b, 0, fine, ty, tx, cy, cx)
  BY FieldsExist, Words DEF TypeOK
<1>3. h_scroll_val \in ThreeBits
  BY DEF TypeOK, ThreeBits
<1>4. /\ X(b, h_scroll_val) \div 256 = tx
      /\ Row(b) \div 256 = ty
  BY <1>2, <1>3, Asked
<1>5. UNCHANGED <<line, ppu_addr, enabled>>
  BY DEF WriteScroll
<1>6. CASE scroll_reg_flg
  <2> DEFINE c == Insert(Insert(b, 32, 32, tile), 4096, 8, off)
  <2>1. ppu_addr_buffer' = c /\ h_scroll_val' = h_scroll_val
    BY <1>1, <1>6 DEF WriteScroll
  <2>2. FieldsOf(Insert(b, 32, 32, tile), 0, fine, ty, tx, tile, cx)
    BY <1>2, InsertCoarseY
  <2>3. FieldsOf(c, 0, off, ty, tx, tile, cx)
    BY <2>2, InsertFineY
  <2>4. Row(c) \in Plane!Plane /\ Row(c) \div 256 = ty
    BY <2>3, <1>3, Asked
  <2>5. TileColumn(c) = TileColumn(b)
    BY <1>2, <2>3, FieldsRead DEF TileColumn
  <2> HIDE DEF c
  <2> QED
    BY <1>4, <1>5, <2>1, <2>4, <2>5 DEF Plane!AskY
<1>7. CASE ~scroll_reg_flg
  <2> DEFINE c == Insert(b, 1, 32, tile)
  <2>1. ppu_addr_buffer' = c /\ h_scroll_val' = off
    BY <1>1, <1>7 DEF WriteScroll
  <2>2. FieldsOf(c, 0, fine, ty, tx, cy, tile)
    BY <1>2, InsertCoarseX
  <2>3. X(c, off) \in Plane!Plane /\ X(c, off) \div 256 = tx
    BY <2>2, Asked
  <2>4. Row(c) = Row(b)
    BY <1>2, <2>2, FieldsRead DEF Row
  <2> HIDE DEF c
  <2> QED
    BY <1>4, <1>5, <2>1, <2>3, <2>4 DEF Plane!AskX, X
<1> QED
  BY <1>6, <1>7

\* The control register asks for a name table.
LEMMA ControlAsks ==
    ASSUME TypeOK, NEW value \in Ctrl0Values, WriteCtrl0(value)
    PROVE  Plane!AskTable
<1> DEFINE b == ppu_addr_buffer
<1>1. PICK p \in OneBit, q \in OneBit : value % 4 = 2 * p + q
  <2>1. /\ value \in Int /\ value % 4 \in 0..3
        /\ value % 4 = 2 * ((value % 4) \div 2) + ((value % 4) % 2)
        /\ (value % 4) \div 2 \in 0..1 /\ (value % 4) % 2 \in 0..1
    BY PortAssumption DEF Byte
  <2> QED
    BY <2>1 DEF OneBit
<1>2. PICK fine, ty, tx, cy, cx : FieldsOf(b, 0, fine, ty, tx, cy, cx)
  BY FieldsExist, Words DEF TypeOK
<1>3. h_scroll_val \in ThreeBits
  BY DEF TypeOK, ThreeBits
<1> DEFINE c == Insert(b, 1024, 4, 2 * p + q)
<1>4. /\ ppu_addr_buffer' = c
      /\ UNCHANGED <<line, ppu_addr, enabled, h_scroll_val>>
  BY <1>1 DEF WriteCtrl0
<1>5. FieldsOf(c, 0, fine, p, q, cy, cx)
  BY <1>2, InsertTables
<1> HIDE DEF c
<1>6. /\ X(c, h_scroll_val) \in Plane!Plane /\ Row(c) \in Plane!Plane
      /\ X(c, h_scroll_val) % 256 = X(b, h_scroll_val) % 256
      /\ Row(c) % 256 = Row(b) % 256
  BY <1>2, <1>3, <1>5, Asked
<1> QED
  BY <1>4, <1>6 DEF Plane!AskTable, X

\* A line shows the row below, a frame begins with the row asked for.
LEMMA LinesAdvance ==
    ASSUME TypeOK, PassLine
    PROVE  Plane!NextLine \/ Plane!NextFrame
<1> DEFINE b == ppu_addr_buffer
           moved == Realigned(ppu_addr, b)
<1>1. UNCHANGED <<ppu_addr_buffer, h_scroll_val, enabled>>
  BY DEF PassLine, RenderLine, InVBlank, BlankLine, PostRender, addrVars
<1>2. X(b, h_scroll_val) \div 8 = TileColumn(b)
  <2>1. PICK fine, ty, tx, cy, cx : FieldsOf(b, 0, fine, ty, tx, cy, cx)
    BY FieldsExist, Words DEF TypeOK
  <2>2. h_scroll_val \in ThreeBits
    BY DEF TypeOK, ThreeBits
  <2> QED
    BY <2>1, <2>2, Asked
<1>3. /\ Row(RowBelow(moved)) = Plane!Below(Row(ppu_addr))
      /\ TileColumn(RowBelow(moved)) = TileColumn(b)
  <2>1. ppu_addr \in Word /\ b \in Word
    BY Words DEF TypeOK
  <2>2. /\ moved \in Word /\ Row(moved) = Row(ppu_addr)
        /\ TileColumn(moved) = TileColumn(b)
    BY <2>1, LineRealigned
  <2> HIDE DEF moved
  <2>3. /\ Row(RowBelow(moved)) = Plane!Below(Row(moved))
        /\ TileColumn(RowBelow(moved)) = TileColumn(moved)
    BY <2>2, RowsBelow
  <2> QED
    BY <2>2, <2>3
<1>4. CASE RenderLine
  <2>1. /\ line + 1 < FrameLines /\ line' = line + 1 /\ line' < VBlankLine
        /\ ppu_addr' = IF enabled THEN RowBelow(moved) ELSE ppu_addr
    BY <1>4, PortAssumption DEF RenderLine, TypeOK
  <2> QED
    BY <1>1, <1>2, <1>3, <2>1 DEF Plane!NextLine, X
<1>5. CASE InVBlank \/ BlankLine
  <2>1. /\ line + 1 < FrameLines /\ line' = line + 1 /\ ~(line' < VBlankLine)
        /\ ppu_addr' = ppu_addr
    BY <1>5, PortAssumption DEF InVBlank, BlankLine, TypeOK, addrVars
  <2> QED
    BY <1>1, <2>1 DEF Plane!NextLine
<1>6. CASE PostRender
  <2>1. /\ line + 1 = FrameLines /\ line' = 0
        /\ ppu_addr' = IF enabled THEN b ELSE ppu_addr
    BY <1>6 DEF PostRender
  <2> QED
    BY <1>1, <1>2, <2>1 DEF Plane!NextFrame, X
<1> QED
  BY <1>4, <1>5, <1>6 DEF PassLine

\* Every action is a step of the plane, an access to the address, or none.
LEMMA NextPlane ==
    TypeOK /\ [Next]_vars => [Plane!Next \/ AddressAccess]_(Plane!vars)
<1> SUFFICES ASSUME TypeOK, [Next]_vars
             PROVE  Plane!Next \/ AddressAccess \/ UNCHANGED Plane!vars
  OBVIOUS
<1>1. ASSUME UNCHANGED <<line, enabled, addrVars>>
      PROVE  UNCHANGED Plane!vars
  BY <1>1 DEF Plane!vars, addrVars
<1>2. CASE UNCHANGED vars
  BY <1>1, <1>2 DEF vars
<1>3. CASE Access
  <2>1. ASSUME NEW value \in ScrollValues, WriteScroll(value)
        PROVE  Plane!Next
    BY <2>1, ScrollAsks DEF Plane!Next
  <2>2. ASSUME NEW value \in Ctrl0Values, WriteCtrl0(value)
        PROVE  Plane!Next
    BY <2>2, ControlAsks DEF Plane!Next
  <2>3. ASSUME NEW shows \in BOOLEAN, WriteCtrl1(shows)
        PROVE  Plane!Next \/ UNCHANGED Plane!vars
    <3>1. UNCHANGED <<line, addrVars>> /\ enabled' = shows /\ enabled \in BOOLEAN
      BY <2>3 DEF WriteCtrl1, TypeOK
    <3>2. enabled' = ~enabled \/ enabled' = enabled
      BY <3>1
    <3>3. CASE enabled' = ~enabled
      BY <3>1, <3>3 DEF Plane!Next, Plane!Switch, addrVars
    <3> QED
      BY <1>1, <3>1, <3>2, <3>3
  <2>4. CASE ReadStatus
    BY <1>1, <2>4 DEF ReadStatus
  <2> QED
    BY <1>3, <2>1, <2>2, <2>3, <2>4 DEF Access
<1>4. CASE PassLine
  BY <1>4, LinesAdvance DEF Plane!Next
<1> QED
  BY <1>2, <1>3, <1>4 DEF Next

\* In whatever order the program uses the ports and the lines pass, the
\* lines show the rows and columns of the plane that were asked for, until
\* the program uses the address or the data port.
THEOREM ScrollIsExact == Spec => ScrollExact
<1>1. Spec => []TypeOK
  BY TypeCorrect
<1> QED
  BY <1>1, InitPlane, NextPlane, PTL DEF Spec, ScrollExact
-----------------------------------------------------------------------------
(* The background.  The walk over the tiles of a line is compared with the *)
(* plane: a closed form of the walk, by induction over its 33 tiles, and   *)
(* then each part of a pixel.                                              *)

\* A set with 0 that has the successor of each of its numbers has them all.
LEMMA SetInduction ==
    ASSUME NEW T, 0 \in T, \A n \in Nat : n \in T => n + 1 \in T
    PROVE  Nat \subseteq T
<1> DEFINE R == OpToRel(<, Nat)
           Bad == {n \in Nat : n \notin T}
<1> SUFFICES ASSUME Bad # {} PROVE FALSE
  OBVIOUS
<1>1. IsWellFoundedOn(R, Nat)
  BY NatLessThanWellFounded
<1>2. \A i, j \in Nat : i < j => <<i, j>> \in R
  BY DEF OpToRel
<1> HIDE DEF R
<1>3. PICK m \in Bad : \A k \in Bad : ~(<<k, m>> \in R)
  <2>1. Bad \subseteq Nat
    OBVIOUS
  <2> HIDE DEF Bad
  <2> QED
    BY <1>1, <2>1, WFMin
<1>4. m # 0
  OBVIOUS
<1>5. m - 1 \in Nat /\ m - 1 < m
  BY <1>4
<1>6. m - 1 \in T
  BY <1>5, <1>2, <1>3
<1> QED
  BY <1>5, <1>6

\* The values of the fields of five bits, and the tiles of a line.
FiveBits == 0..31
Tiles == 0..32

\* A table and the position of a tile in it.
TileAt(ty, tx, cy, cx) == [page |-> 8 + 2 * ty + tx, pos |-> 32 * cy + cx]

\* The tile after the last of a row is the first of the table beside.
LEMMA TileAfterIs ==
    ASSUME NEW ty \in OneBit, NEW tx \in OneBit, NEW cy \in FiveBits,
           NEW cx \in FiveBits
    PROVE  TileAfter(TileAt(ty, tx, cy, cx)) =
               IF cx = 31 THEN TileAt(ty, 1 - tx, cy, 0) ELSE TileAt(ty, tx, cy, cx + 1)
<1> DEFINE t == TileAt(ty, tx, cy, cx)
<1>1. /\ ty \in Int /\ 0 <= ty /\ ty <= 1 /\ tx \in Int /\ 0 <= tx /\ tx <= 1
      /\ cy \in Int /\ 0 <= cy /\ cx \in Int /\ 0 <= cx /\ cx <= 31
  BY DEF OneBit, FiveBits
<1>2. t.page = 8 + 2 * ty + tx /\ t.pos = 32 * cy + cx
  BY DEF TileAt
<1>3. (32 * cy + cx) % 32 = cx /\ (8 + 2 * ty + tx) % 2 = tx
  BY <1>1
<1>4. CASE cx = 31
  <2>1. /\ t.pos - 31 = 32 * cy + 0
        /\ (IF t.page % 2 = 0 THEN t.page + 1 ELSE t.page - 1)
               = 8 + 2 * ty + (1 - tx)
    BY <1>1, <1>2, <1>3, <1>4
  <2>2. t.pos % 32 = 31
    BY <1>2, <1>3, <1>4
  <2> HIDE DEF t
  <2>3. TileAfter(t) = [page |-> 8 + 2 * ty + (1 - tx), pos |-> 32 * cy + 0]
    BY <2>1, <2>2 DEF TileAfter
  <2> QED
    BY <1>4, <2>3 DEF TileAt, t
<1>5. CASE cx # 31
  <2>1. TileAfter(t) = [t EXCEPT !.pos = 32 * cy + cx + 1]
    BY <1>2, <1>3, <1>5 DEF TileAfter
  <2>2. 32 * cy + cx + 1 = 32 * cy + (cx + 1)
    BY <1>1
  <2> QED
    BY <1>5, <2>1, <2>2 DEF TileAt
<1> QED
  BY <1>4, <1>5

\* The tile in column cx + n of the plane, when a line begins in column cx.
Reached(ty, tx, cy, cx, n) ==
    TileAt(ty, (tx + (cx + n) \div 32) % 2, cy, (cx + n) % 32)

\* The tile n + 1 columns on is the one after the tile n columns on.
LEMMA ReachedNext ==
    ASSUME NEW ty \in OneBit, NEW tx \in OneBit, NEW cy \in FiveBits,
           NEW cx \in FiveBits, NEW n \in Nat
    PROVE  TileAfter(Reached(ty, tx, cy, cx, n)) = Reached(ty, tx, cy, cx, n + 1)
<1> DEFINE d == (cx + n) \div 32
           e == (cx + n) % 32
           x == (tx + d) % 2
<1>1. /\ cx + n \in Nat /\ cx + n = 32 * d + e /\ d \in Nat /\ e \in Int /\ 0 <= e /\ e <= 31
      /\ tx \in Nat /\ cx \in Nat
  BY DEF FiveBits, OneBit
<1>2. e \in FiveBits /\ x \in OneBit
  BY <1>1 DEF FiveBits, OneBit
<1> HIDE DEF d, e
<1>3. cx + (n + 1) = 32 * d + e + 1
  BY <1>1
<1>4. CASE e = 31
  <2>1. (32 * d + e + 1) \div 32 = d + 1 /\ (32 * d + e + 1) % 32 = 0
    BY <1>1, <1>4
  <2>2. (tx + (d + 1)) % 2 = 1 - x
    BY <1>1
  <2> HIDE DEF x
  <2>3. Reached(ty, tx, cy, cx, n + 1) = TileAt(ty, 1 - x, cy, 0)
    BY <1>3, <2>1, <2>2 DEF Reached
  <2> QED
    BY <1>2, <1>4, <2>3, TileAfterIs DEF Reached, d, e, x
<1>5. CASE e # 31
  <2>1. (32 * d + e + 1) \div 32 = d /\ (32 * d + e + 1) % 32 = e + 1
    BY <1>1, <1>5
  <2> HIDE DEF x
  <2>2. Reached(ty, tx, cy, cx, n + 1) = TileAt(ty, x, cy, e + 1)
    BY <1>3, <2>1 DEF Reached, x
  <2> QED
    BY <1>2, <1>5, <2>2, TileAfterIs DEF Reached, d, e, x
<1> QED
  BY <1>4, <1>5

\* The walk reaches every tile of the line.
LEMMA TilesWalk ==
    ASSUME NEW a, NEW top, NEW fine, NEW ty, NEW tx, NEW cy, NEW cx,
           FieldsOf(a, top, fine, ty, tx, cy, cx),
           NEW k \in Nat, k <= 32
    PROVE  TilesFrom(a)[k] = Reached(ty, tx, cy, cx, k)
<1> DEFINE Def(f) == [p \in Tiles |-> IF p = 0 THEN FirstTile(a) ELSE TileAfter(f[p - 1])]
           w == [p \in Tiles |-> Reached(ty, tx, cy, cx, p)]
           T == TilesFrom(a)
           Same == {n \in Nat : n <= 32 => T[n] = Reached(ty, tx, cy, cx, n)}
<1>1. ty \in OneBit /\ tx \in OneBit /\ cy \in FiveBits /\ cx \in FiveBits
  BY DEF FieldsOf, OneBit, FiveBits
<1>2. \A n \in Int : n \in Tiles <=> 0 <= n /\ n <= 32
  BY DEF Tiles
<1>3. FirstTile(a) = Reached(ty, tx, cy, cx, 0)
  <2>1. Field(a, 1024, 4) = 2 * ty + tx
    BY FieldsRead
  <2>2. a % 1024 = 32 * cy + cx
    BY DEF FieldsOf
  <2>3. (tx + (cx + 0) \div 32) % 2 = tx /\ (cx + 0) % 32 = cx
    BY <1>1 DEF OneBit, FiveBits
  <2>4. 8 + (2 * ty + tx) = 8 + 2 * ty + tx
    BY <1>1 DEF OneBit
  <2> QED
    BY <2>1, <2>2, <2>3, <2>4 DEF FirstTile, Reached, TileAt
<1>4. \A n \in Tiles : n # 0 => n - 1 \in Tiles /\ n - 1 \in Nat /\ (n - 1) + 1 = n
  BY DEF Tiles
<1>5. w = Def(w)
  <2>1. ASSUME NEW n \in Tiles, n # 0
        PROVE  Reached(ty, tx, cy, cx, n) = TileAfter(w[n - 1])
    <3>1. n - 1 \in Tiles /\ n - 1 \in Nat /\ (n - 1) + 1 = n
      BY <1>4, <2>1
    <3> QED
      BY <1>1, <3>1, ReachedNext
  <2> QED
    BY <1>3, <2>1
<1>6. T = Def(T)
  <2>1. T = CHOOSE f : f = Def(f)
    BY DEF TilesFrom, Tiles
  <2> HIDE DEF Def, T, w
  <2> QED
    BY <1>5, <2>1, Zenon
<1> HIDE DEF T, w
<1>7. 0 \in Same
  <2>1. 0 \in Tiles
    BY <1>2
  <2> QED
    BY <1>3, <1>6, <2>1
<1>8. ASSUME NEW n \in Nat, n \in Same PROVE n + 1 \in Same
  <2> SUFFICES ASSUME n + 1 <= 32 PROVE T[n + 1] = Reached(ty, tx, cy, cx, n + 1)
    OBVIOUS
  <2>1. n + 1 \in Tiles /\ n + 1 # 0 /\ (n + 1) - 1 = n /\ n <= 32
    BY <1>2
  <2>2. T[n + 1] = TileAfter(T[n])
    BY <1>6, <2>1
  <2> QED
    BY <1>1, <1>8, <2>1, <2>2, ReachedNext
<1> HIDE DEF Same
<1>9. k \in Same
  BY <1>7, <1>8, SetInduction
<1> QED
  BY <1>9 DEF Same, T

-----------------------------------------------------------------------------
(* The parts of a pixel.                                                   *)

\* Whatever was written, memory holds bytes.
LEMMA ContentByte ==
    ASSUME MemoryTypeOK, NEW cell
    PROVE  Content(cell) \in Int /\ 0 <= Content(cell) /\ Content(cell) <= 255
<1>1. \A b \in Byte : b \in Int /\ 0 <= b /\ b <= 255
  BY DEF Byte
<1>2. CASE cell \in DOMAIN vram
  BY <1>1, <1>2 DEF MemoryTypeOK, Content
<1>3. CASE cell \notin DOMAIN vram
  BY <1>3 DEF Content
<1> QED
  BY <1>2, <1>3

\* A column of a pattern, counted from the left, is a bit of each byte.
LEMMA PatternColumn ==
    ASSUME NEW b1 \in Int, NEW b2 \in Int, NEW s \in ThreeBits
    PROVE  /\ spbit_pattern(b1, b2, s)
                  = ((b1 \div 2 ^ (7 - s)) % 2) + 2 * ((b2 \div 2 ^ (7 - s)) % 2)
           /\ spbit_pattern(b1, b2, s) \in 0..3
<1>1. 2 ^ (7 - s) = Weight[7 - s + 1]
  <2>1. \A i \in 0..7 : 2 ^ i = Weight[i + 1]
    <3>1. /\ 2 ^ 0 = Weight[0 + 1] /\ 2 ^ 1 = Weight[1 + 1]
          /\ 2 ^ 2 = Weight[2 + 1] /\ 2 ^ 3 = Weight[3 + 1]
          /\ 2 ^ 4 = Weight[4 + 1] /\ 2 ^ 5 = Weight[5 + 1]
          /\ 2 ^ 6 = Weight[6 + 1] /\ 2 ^ 7 = Weight[7 + 1]
      BY DEF Weight
    <3>2. \A i \in 0..7 : \/ i = 0 \/ i = 1 \/ i = 2 \/ i = 3
                          \/ i = 4 \/ i = 5 \/ i = 6 \/ i = 7
      OBVIOUS
    <3> QED
      BY <3>1, <3>2, Zenon
  <2>2. 7 - s \in 0..7
    BY DEF ThreeBits
  <2> QED
    BY <2>1, <2>2, Zenon
<1>2. 2 ^ (7 - s) \in Int /\ 0 < 2 ^ (7 - s)
  <2>1. \A i \in ThreeBits : Weight[7 - i + 1] \in Int /\ 0 < Weight[7 - i + 1]
    BY DEF Weight, ThreeBits
  <2> QED
    BY <1>1, <2>1
<1> DEFINE w == 2 ^ (7 - s)
<1>3. \A b \in Int : Num(BitOf(b, 7 - s)) = (b \div w) % 2
  <2>1. \A b \in Int : BitOf(b, 7 - s) <=> (b \div w) % 2 = 1
    BY <1>1 DEF BitOf
  <2>2. \A b \in Int : (b \div w) % 2 = 0 \/ (b \div w) % 2 = 1
    BY <1>2
  <2> HIDE DEF w
  <2> QED
    BY <2>1, <2>2 DEF Num
<1>4. \A b \in Int : (b \div w) % 2 \in 0..1
  BY <1>2
<1> HIDE DEF w
<1> QED
  BY <1>3, <1>4 DEF spbit_pattern, w

\* The four colours of a palette; the first of each is the backdrop.
LEMMA PaletteEntry ==
    ASSUME NEW p \in 0..3, NEW c \in Int
    PROVE  PALLETE(4 * c + p) = IF p = 0 THEN 16 ELSE p + 4 * c
BY DEF PALLETE

\* Column x of the plane is n columns right of tile cx of the tables tx: column
\* s of tile e of the tables u.
PointParts(tx, cx, n, s, e, u, x) ==
    /\ s = n % 8
    /\ e = (cx + n \div 8) % 32
    /\ u = (tx + (cx + n \div 8) \div 32) % 2
    /\ x = (8 * (32 * tx + cx) + n) % 512

\* The screen, column and pixel the program reaches are those of the plane.
LEMMA PlanePoint ==
    ASSUME NEW tx \in OneBit, NEW cx \in FiveBits, NEW n \in Nat,
           NEW s, NEW e, NEW u, NEW x, PointParts(tx, cx, n, s, e, u, x)
    PROVE  x \div 256 = u /\ u \in OneBit /\ e \in FiveBits /\ x % 256 = 8 * e + s
<1> DEFINE k == n \div 8
           d == (cx + k) \div 32
           g == (tx + d) \div 2
<1>0. /\ s = n % 8 /\ e = (cx + k) % 32 /\ u = (tx + d) % 2
      /\ x = (8 * (32 * tx + cx) + n) % 512
  BY DEF PointParts
<1>1. /\ tx \in Nat /\ cx \in Nat /\ k \in Nat /\ n = 8 * k + s
      /\ s \in Int /\ 0 <= s /\ s <= 7
  BY <1>0 DEF OneBit, FiveBits
<1> HIDE DEF k
<1>2. d \in Nat /\ e \in Int /\ 0 <= e /\ e <= 31 /\ cx + k = 32 * d + e
  BY <1>0, <1>1
<1> HIDE DEF d
<1>3. g \in Nat /\ u \in Int /\ 0 <= u /\ u <= 1 /\ tx + d = 2 * g + u
  BY <1>0, <1>1, <1>2
<1> HIDE DEF g
<1>4. 8 * (32 * tx + cx) + n = 512 * g + 256 * u + 8 * e + s
  BY <1>1, <1>2, <1>3
<1>5. (512 * g + 256 * u + 8 * e + s) % 512 = 256 * u + 8 * e + s
  BY <1>1, <1>2, <1>3
<1>6. (256 * u + 8 * e + s) \div 256 = u /\ (256 * u + 8 * e + s) % 256 = 8 * e + s
  BY <1>1, <1>2, <1>3
<1>7. u \in OneBit /\ e \in FiveBits
  BY <1>2, <1>3 DEF OneBit, FiveBits
<1>8. x = 256 * u + 8 * e + s
  BY <1>0, <1>4, <1>5
<1> QED
  BY <1>6, <1>7, <1>8

\* Dividing a column or a row of pixels by tiles, blocks and quarters of blocks.
LEMMA Divided ==
    ASSUME NEW e \in FiveBits, NEW s \in ThreeBits
    PROVE  /\ (8 * e + s) \div 8 = e /\ (8 * e + s) % 8 = s
           /\ (8 * e + s) \div 32 = e \div 4
           /\ ((8 * e + s) % 32) \div 16 = Field(e, 2, 2)
<1>1. /\ e \in Int /\ 0 <= e /\ e <= 31 /\ s \in Int /\ 0 <= s /\ s <= 7
  BY DEF FiveBits, ThreeBits
<1>2. (8 * e + s) \div 8 = e /\ (8 * e + s) % 8 = s
  BY <1>1
<1>3. (8 * e + s) \div 32 = e \div 4 /\ (8 * e + s) % 32 = 8 * (e % 4) + s
  BY <1>1
<1>4. (8 * (e % 4) + s) \div 16 = (e \div 2) % 2
  BY <1>1
<1> QED
  BY <1>2, <1>3, <1>4 DEF Field

\* A point of the plane, from the parts of its column and of its row.
PointAt(u, ty, e, cy, s, fine) ==
    LET table == 8192 + 1024 * (u + 2 * ty)
        block == Content(table + 960 + 8 * (cy \div 4) + (e \div 4))
        quad  == Field(e, 2, 2) + 2 * Field(cy, 2, 2)
        base  == (IF BitOf(ctrl0, 4) THEN 4096 ELSE 0)
                 + 16 * Content(table + 32 * cy + e) + fine
        ptn   == ((Content(base) \div 2 ^ (7 - s)) % 2)
                 + 2 * ((Content(base + 8) \div 2 ^ (7 - s)) % 2)
    IN  IF ptn = 0 THEN 16 ELSE ptn + 4 * ((block \div (4 ^ quad)) % 4)

\* A pixel of the plane by its screen, tile and place in the tile.
LEMMA PlaneParts ==
    ASSUME NEW x, NEW y, NEW u, NEW ty, NEW e, NEW cy, NEW s, NEW fine,
           x \div 256 = u, y \div 256 = ty,
           (x % 256) \div 8 = e, (x % 256) % 8 = s,
           (x % 256) \div 32 = e \div 4, ((x % 256) % 32) \div 16 = Field(e, 2, 2),
           (y % 256) \div 8 = cy, (y % 256) % 8 = fine,
           (y % 256) \div 32 = cy \div 4, ((y % 256) % 32) \div 16 = Field(cy, 2, 2)
    PROVE  PlanePixel(x, y) = PointAt(u, ty, e, cy, s, fine)
BY DEF PlanePixel, PointAt

\* Every pixel drawn is the one of the plane.
LEMMA PixelDrawn ==
    ASSUME MemoryTypeOK, h_scroll_val \in ThreeBits,
           NEW a, NEW top, NEW fine, NEW ty, NEW tx, NEW cy, NEW cx,
           FieldsOf(a, top, fine, ty, tx, cy, cx),
           NEW q \in Nat, q <= 255
    PROVE  BgPixel(a, TilesFrom(a), q)
             = PlanePixel((8 * TileColumn(a) + h_scroll_val + q) % 512, Row(a))
<1> DEFINE n == q + h_scroll_val
           k == n \div 8
           s == n % 8
           d == (cx + k) \div 32
           e == (cx + k) % 32
           u == (tx + d) % 2
           t == TilesFrom(a)[k]
           x == (8 * TileColumn(a) + h_scroll_val + q) % 512
           y == Row(a)
<1>1. /\ tx \in OneBit /\ ty \in OneBit /\ cx \in FiveBits /\ cy \in FiveBits
      /\ fine \in ThreeBits
  BY DEF FieldsOf, OneBit, FiveBits, ThreeBits
<1>2. n \in Nat /\ k \in Nat /\ k <= 32 /\ s \in ThreeBits
  BY DEF ThreeBits
<1>3. t = TileAt(ty, u, cy, e)
  <2>1. TilesFrom(a)[k] = Reached(ty, tx, cy, cx, k)
    <3> HIDE DEF k
    <3> QED
      BY <1>2, TilesWalk
  <2> QED
    BY <2>1 DEF Reached
<1>4. x = (8 * (32 * tx + cx) + n) % 512
  <2>1. TileColumn(a) = 32 * tx + cx
    BY FieldsRead DEF TileColumn
  <2>2. 8 * (32 * tx + cx) + h_scroll_val + q = 8 * (32 * tx + cx) + n
    BY <1>1 DEF OneBit, FiveBits, ThreeBits
  <2> QED
    BY <2>1, <2>2
<1>5. x \div 256 = u /\ u \in OneBit /\ e \in FiveBits /\ x % 256 = 8 * e + s
  <2>1. PointParts(tx, cx, n, s, e, u, x)
    BY <1>4 DEF PointParts
  <2> HIDE DEF n, s, e, u, x
  <2> QED
    BY <1>1, <1>2, <2>1, PlanePoint
<1>6. y \div 256 = ty /\ y % 256 = 8 * cy + fine
  <2>1. y = 256 * ty + 8 * cy + fine
    BY FieldsRead DEF Row
  <2> HIDE DEF y
  <2> QED
    BY <1>1, <2>1 DEF OneBit, FiveBits, ThreeBits
<1> HIDE DEF n, k, s, d, e, u, x, y, t
<1>7. t.page = 8 + 2 * ty + u /\ t.pos = 32 * cy + e
  BY <1>3 DEF TileAt
<1>8. t.pos \div 32 = cy /\ t.pos % 32 = e
  BY <1>1, <1>5, <1>7 DEF FiveBits
<1> DEFINE table == 8192 + 1024 * (u + 2 * ty)
           block == Content(table + 960 + 8 * (cy \div 4) + (e \div 4))
           quad == Field(e, 2, 2) + 2 * Field(cy, 2, 2)
           base == (IF BitOf(ctrl0, 4) THEN 4096 ELSE 0)
                   + 16 * Content(table + 32 * cy + e) + fine
           colour == (block \div (4 ^ quad)) % 4
           ptn == ((Content(base) \div 2 ^ (7 - s)) % 2)
                  + 2 * ((Content(base + 8) \div 2 ^ (7 - s)) % 2)
<1>9. 1024 * t.page = table
  BY <1>1, <1>5, <1>7 DEF OneBit
<1>10. Attribute(t) = 4 * colour
  <2>1. Field(e, 2, 2) \in Int /\ Field(cy, 2, 2) \in Int
    BY <1>1, <1>5 DEF FiveBits, Field
  <2>2. 2 * Field(cy, 2, 2) + Field(e, 2, 2) = quad
    BY <2>1
  <2>3. Name(t, 960 + 8 * (cy \div 4) + (e \div 4)) = block
    <3>1. table + (960 + 8 * (cy \div 4) + (e \div 4))
            = table + 960 + 8 * (cy \div 4) + (e \div 4)
      BY <1>1, <1>5 DEF OneBit, FiveBits
    <3> HIDE DEF table
    <3> QED
      BY <1>9, <3>1 DEF Name
  <2> HIDE DEF quad, block
  <2> QED
    BY <1>8, <2>2, <2>3 DEF Attribute, Field
<1>11. PatternAddr(a, t) = base
  <2>1. Name(t, t.pos) = Content(table + 32 * cy + e)
    <3>1. table + (32 * cy + e) = table + 32 * cy + e
      BY <1>1, <1>5 DEF OneBit, FiveBits
    <3> HIDE DEF table
    <3> QED
      BY <1>7, <1>9, <3>1 DEF Name
  <2>2. FineY(a) = fine
    BY FieldsRead
  <2> DEFINE c == Content(table + 32 * cy + e)
  <2>3. c \in Int /\ fine \in Int
    BY <1>1, ContentByte DEF ThreeBits
  <2> HIDE DEF c, table
  <2>4. \A b \in {0, 4096} : 16 * c + fine + b = b + 16 * c + fine
    BY <2>3
  <2> QED
    BY <2>1, <2>2, <2>4 DEF PatternAddr, c
<1>12. /\ spbit_pattern(Content(base), Content(base + 8), s) = ptn
       /\ ptn \in 0..3
  <2> HIDE DEF base
  <2>1. Content(base) \in Int /\ Content(base + 8) \in Int
    BY ContentByte
  <2> QED
    BY <1>2, <2>1, PatternColumn
<1>13. BgPixel(a, TilesFrom(a), q) = PALLETE(4 * colour + ptn)
  <2> HIDE DEF base, colour, ptn
  <2> QED
    BY <1>10, <1>11, <1>12 DEF BgPixel, n, k, s, t
<1>14. PlanePixel(x, y) = IF ptn = 0 THEN 16 ELSE ptn + 4 * colour
  <2>1. /\ (x % 256) \div 8 = e /\ (x % 256) % 8 = s
        /\ (x % 256) \div 32 = e \div 4
        /\ ((x % 256) % 32) \div 16 = Field(e, 2, 2)
    BY <1>2, <1>5, Divided
  <2>2. /\ (y % 256) \div 8 = cy /\ (y % 256) % 8 = fine
        /\ (y % 256) \div 32 = cy \div 4
        /\ ((y % 256) % 32) \div 16 = Field(cy, 2, 2)
    BY <1>1, <1>6, Divided
  <2>3. PlanePixel(x, y) = PointAt(u, ty, e, cy, s, fine)
    BY <1>5, <1>6, <2>1, <2>2, PlaneParts
  <2> QED
    BY <2>3 DEF PointAt
<1>15. colour \in Int
  <2>1. block \in Int
    BY ContentByte
  <2>2. quad \in Int /\ 0 <= quad /\ quad <= 3
    BY <1>1, <1>5 DEF FiveBits, Field
  <2>3. \A i \in Int : 0 <= i /\ i <= 3 => 4 ^ i \in Int /\ 0 < 4 ^ i
    <3>1. /\ 4 ^ 0 \in Int /\ 0 < 4 ^ 0 /\ 4 ^ 1 \in Int /\ 0 < 4 ^ 1
          /\ 4 ^ 2 \in Int /\ 0 < 4 ^ 2 /\ 4 ^ 3 \in Int /\ 0 < 4 ^ 3
      OBVIOUS
    <3>2. \A i \in Int : 0 <= i /\ i <= 3 => i = 0 \/ i = 1 \/ i = 2 \/ i = 3
      OBVIOUS
    <3> QED
      BY <3>1, <3>2, Zenon
  <2> HIDE DEF block, quad
  <2>4. 4 ^ quad \in Int /\ 0 < 4 ^ quad
    BY <2>2, <2>3
  <2> QED
    BY <2>1, <2>4
<1> HIDE DEF colour, ptn
<1> QED
  BY <1>12, <1>13, <1>14, <1>15, PaletteEntry DEF x, y

-----------------------------------------------------------------------------
(* Of every line that would be drawn, each pixel is the one of the plane.  *)

\* Whatever the registers hold, the line that is drawn is exact.
LEMMA TypesExact == TypeOK => BackgroundExact
<1> DEFINE a == Realigned(ppu_addr, ppu_addr_buffer)
<1> SUFFICES ASSUME TypeOK, NEW q \in Shown
             PROVE  BgPixel(a, TilesFrom(a), q)
                      = PlanePixel((8 * TileColumn(a) + h_scroll_val + q) % 512, Row(a))
  BY DEF BackgroundExact
<1>1. q \in Nat /\ q <= 255
  BY ShownAssumption
<1>2. MemoryTypeOK /\ h_scroll_val \in ThreeBits
  BY DEF TypeOK, ThreeBits
<1>3. PICK top : FieldsOf(a, top, FineY(a), TableY(a), TableX(a), CoarseY(a), CoarseX(a))
  <2>1. ppu_addr \in Word /\ ppu_addr_buffer \in Word
    BY DEF TypeOK, Buffer
  <2> QED
    BY <2>1, LineRealigned, FieldsExist
<1> HIDE DEF a
<1> QED
  BY <1>1, <1>2, <1>3, PixelDrawn

\* Every pixel of every line is drawn where the program scrolled to, with the
\* attributes of its block, from whatever memory it wrote.
THEOREM BackgroundIsExact == Spec => []BackgroundExact
BY TypeCorrect, TypesExact, PTL
=============================================================================
