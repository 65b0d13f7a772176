-------------------------------- MODULE Mem --------------------------------
(***************************************************************************)
(* The CPU's address space: the decoding of Mem::get and Mem::set.  Only   *)
(* the three highest bits of an address select a region.  What a register  *)
(* does with a value is the matter of the part it belongs to; here it has  *)
(* a name, and reading it gives a value from outside.                      *)
(***************************************************************************)
EXTENDS Bytes

CONSTANTS
    RamSize,        \* 2048; the RAM is mirrored throughout its region
    Rom(_)          \* the byte the loaded program has at an address

\* ramData has at least a byte, and the cartridge holds bytes (uint8_t).
ASSUME MemAssumption ==
    /\ RamSize \in Nat \ {0}
    /\ \A addr \in 32768..MaxWord : Rom(addr) \in Byte

\* 0x2000, 0x4000 and 0x8000 are regions 1, 2 and 4.
Region(addr) == addr \div 8192

\* The register an address reads, of the PPU (every eight bytes) or a pad.
ReadReg(addr) ==
    CASE Region(addr) = 1 /\ addr % 8 = 2 -> "status"
      [] Region(addr) = 1 /\ addr % 8 = 7 -> "data"
      [] addr = 16406 -> "pad1"                             \* 0x4016
      [] addr = 16407 -> "pad2"
      [] OTHER -> "none"

PpuRegs == <<"ctrl0", "ctrl1", "none", "oamaddr", "oamdata", "scroll",
             "addr", "data">>

\* The register an address writes.
WriteReg(addr) ==
    CASE Region(addr) = 1 -> PpuRegs[(addr % 8) + 1]
      [] addr \in (16384..16403) \cup {16405, 16407} -> "apu"
      [] addr = 16404 -> "dma"                              \* 0x4014
      [] addr = 16406 -> "strobe"
      [] OTHER -> "none"

\* Mem::get, where input is what a register would return.
Get(ram, input, addr) ==
    CASE Region(addr) = 0 -> ram[addr % RamSize]
      [] Region(addr) >= 4 -> Rom(addr)
      [] ReadReg(addr) # "none" -> input
      [] OTHER -> 0

\* The RAM after Mem::set; a write to the cartridge has no effect.
Set(ram, addr, data) ==
    IF Region(addr) = 0 THEN [ram EXCEPT ![addr % RamSize] = data] ELSE ram
=============================================================================
