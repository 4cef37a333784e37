-------------------------------- MODULE MC_PMM --------------------------------
(* A scaled-down board: 4-byte blocks, 2-bit bitmap words, 40 addresses.     *)
(* Memory layout by block: 0-1 conventional RAM, 2 the BIOS hole, 3 the      *)
(* kernel image, 4 the bitmap, the rest RAM.                                 *)
EXTENDS PMM

Usable(a, l) == [size |-> 20, addr |-> a, len |-> l, type |-> 1]
Reserved(a, l) == [Usable(a, l) EXCEPT !.type = 2]
(* An entry with 4 bytes of attributes behind it. *)
Longer(e) == [e EXCEPT !.size = 24]
Board(mem, mmap) == [hasMap |-> TRUE, mem |-> mem, mmap |-> mmap]

(* 8 blocks in 4 whole words, map aligned; the usual machine. *)
MCRegular == Board(32, <<Usable(0, 8), Reserved(8, 4), Usable(12, 20)>>)
(* The map names RAM past the end of what mem_upper counted; its entries
   have two lengths. *)
MCMoreMap == Board(24, <<Longer(Usable(0, 8)), Reserved(8, 4), Usable(12, 24)>>)
(* 9 blocks: the last one is in a word that pmm_init never writes. *)
MCTail == Board(36, <<Usable(0, 8), Reserved(8, 4), Usable(12, 24)>>)
(* An AVAILABLE entry that ends inside a block, as 0x9FC00 does. *)
MCPartial == Board(24, <<Usable(0, 6), Reserved(6, 6), Usable(12, 12)>>)
(* One that also begins inside a block. *)
MCRagged == Board(32, <<Usable(0, 6), Reserved(6, 8), Usable(14, 13)>>)
(* Block 0 is not AVAILABLE. *)
MCNoLow == Board(24, <<Reserved(0, 8), Usable(12, 12)>>)
(* The loader passed no map. *)
MCNoMap == [hasMap |-> FALSE, mem |-> 24, mmap |-> <<>>]
(* RAM past the last 32-bit address: 40 .. 52 wraps to 0 .. 12, the hole too. *)
MCHigh == Board(24, <<Usable(0, 8), Reserved(8, 4), Usable(12, 12), Usable(40, 12)>>)
(* Fewer blocks than one word tracks. *)
MCTiny == Board(4, <<Usable(0, 4)>>)

MCBoards == {MCRegular, MCMoreMap, MCTail, MCPartial, MCRagged,
             MCNoLow, MCNoMap, MCHigh, MCTiny}
MCUsual == {MCRegular}
MCKernelImage == {3, 4}
MCFreeArgs == {4 * b + o : b \in 0 .. 9, o \in {0, 3}}
================================================================================
