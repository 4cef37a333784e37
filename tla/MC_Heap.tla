-------------------------------- MODULE MC_Heap --------------------------------
(* A page of 24 words: room for several headers, splits of every remainder   *)
(* (none, smaller than a header, larger), and for the end of the page.       *)
EXTENDS Heap
MCSizes == {1, 2, 4, 7}
================================================================================
