---------------------------- MODULE MCCartridge ----------------------------
(***************************************************************************)
(* Small instance of Cartridge: short pages, every number of banks that a  *)
(* cartridge of mapper 0 may have and one more.                            *)
(***************************************************************************)
EXTENDS Cartridge

SomeFiles == [header : BOOLEAN, prg : 1..3, chr : 0..2, mirroring : Mirroring]
=============================================================================
