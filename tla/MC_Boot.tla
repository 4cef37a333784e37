-------------------------------- MODULE MC_Boot --------------------------------
(* Blocks of 4 bytes, 3-bit bitmap words, 27 blocks of address space; a       *)
(* directory of 3 entries and tables of 9.  Blocks 0-4 are conventional RAM,  *)
(* 5 the BIOS hole, 6 and 7 the kernel and its bitmap, 0-8 the identity       *)
(* window; the heap is at page 18.                                            *)
EXTENDS Boot

Usable(first, last) ==
  [size |-> 20, addr |-> 4 * first, len |-> 4 * (last - first + 1), type |-> 1]
Reserved(first, last) == [Usable(first, last) EXCEPT !.type = 2]
Board(blocks, mmap) == [hasMap |-> TRUE, mem |-> 4 * blocks, mmap |-> mmap]

(* Four blocks below the kernel, plenty above it. *)
MCUsual == Board(12, <<Usable(0, 4), Reserved(5, 5), Usable(6, 11)>>)
(* The tenth block is in a word nobody initialises. *)
MCTail == Board(10, <<Usable(0, 4), Reserved(5, 5), Usable(6, 9)>>)
(* Three blocks below the kernel: the fourth is the kernel's own. *)
MCShort == Board(12, <<Usable(0, 3), Reserved(4, 5), Usable(6, 11)>>)
(* The fourth free block is in the last word of the bitmap. *)
MCLastWord == Board(9, <<Usable(0, 3), Usable(8, 8)>>)
(* The heap's table, the heap, the first table, the directory beyond 4 MB. *)
MCFar(last) == Board(15, <<Usable(0, last), Usable(9, 14)>>)
(* None to three blocks in all. *)
MCScarce(last) == Board(12, <<Usable(0, last)>>)
MCNoMap == [hasMap |-> FALSE, mem |-> 48, mmap |-> <<>>]

MCBoards == {MCUsual, MCTail, MCShort, MCLastWord, MCNoMap}
              \cup {MCFar(last) : last \in 0 .. 3} \cup {MCScarce(last) : last \in 0 .. 3}
MCKernelImage == {6, 7}
MCIndex == 0 .. 8
MCNone == -1
MCEmpty == [i \in MCIndex |-> MCNone]
MCVectors == [i \in MCIndex |-> IF i \in {0, 2} THEN i + 3 ELSE MCNone]
MCLeftovers == {MCEmpty, MCVectors}
MCProgram == {2}
MCHeapStack == {18}
MCTouched == {2, 11, 18}
================================================================================
