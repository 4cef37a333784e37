-------------------------------- MODULE MC_Paging --------------------------------
(* A directory of 4 entries and tables of 6: pages 0-5 are the identity      *)
(* window, page 18 the heap, and two entries are empty when the |= 7 loop    *)
(* runs.  Every amount of free memory from none to six frames, one of them   *)
(* (7) outside the window.                                                   *)
EXTENDS Paging
MCFreeFrames == SUBSET {1, 2, 3, 4, 5, 7}
MCEmpty == [i \in Index |-> NONE]
(* Boot memory that, read as a page table, has present entries. *)
MCVectors == [i \in Index |-> IF i \in {0, 2} THEN i + 3 ELSE NONE]
MCLeftovers == {MCEmpty, MCVectors}
(* Pages of programs inside the window, two elsewhere with the same index in *)
(* their tables, and page 0, which a task with no user stack maps. *)
MCPrograms == {0, 2, 8, 14}
MCTouched == {2, 8, 18}
================================================================================
