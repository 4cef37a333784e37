------------------------------ MODULE AddressSpace ------------------------------
(***************************************************************************)
(* What paging promises the rest of the kernel: one map from pages to        *)
(* frames, empty until the MMU is turned on with the identity window, and    *)
(* after that changed at exactly one page by each mapping.  It says nothing  *)
(* of directories, tables or where they are kept.                            *)
(***************************************************************************)
CONSTANTS Pages, Frames,
          Window,     \* pages mapped onto themselves when the MMU is turned on
          Nowhere     \* what an unmapped page is mapped to

VARIABLE map

Init == map = [p \in Pages |-> Nowhere]

TurnOn == /\ map = [p \in Pages |-> Nowhere]
          /\ map' = [p \in Pages |-> IF p \in Window THEN p ELSE Nowhere]

Map(p, f) == /\ \E q \in Window : map[q] # Nowhere
             /\ map' = [map EXCEPT ![p] = f]

Next == TurnOn \/ \E p \in Pages, f \in Frames : Map(p, f)

Spec == Init /\ [][Next]_map
================================================================================
