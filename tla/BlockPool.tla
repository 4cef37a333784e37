------------------------------- MODULE BlockPool -------------------------------
(***************************************************************************)
(* What the physical memory manager promises its callers (paging.c, heap.c): *)
(* a pool of blocks opened once at boot, from which every block is handed   *)
(* out to at most one caller at a time and comes back only from that caller.*)
(* It says nothing of bitmaps, counters or first-fit order.                 *)
(***************************************************************************)
CONSTANTS Blocks,     \* addresses a caller may be given (never the NULL one)
          NoBlock     \* the answer when the pool is exhausted

VARIABLES free,       \* blocks that can still be handed out
          out,        \* blocks in the hands of callers
          ret         \* the last answer given to a caller

vars == <<free, out, ret>>

Init == free = {} /\ out = {} /\ ret = NoBlock

(* Boot ends: some set of blocks becomes available, all at once. *)
Open == /\ free = {} /\ out = {} /\ ret = NoBlock
        /\ free' \in SUBSET Blocks
        /\ UNCHANGED <<out, ret>>

Alloc(b) == /\ free' = free \ {b}
            /\ out' = out \cup {b}
            /\ ret' = b

(* A caller is refused only when nothing at all is left. *)
Refuse == /\ free = {}
          /\ ret' = NoBlock
          /\ UNCHANGED <<free, out>>

Release(b) == /\ free' = free \cup {b}
              /\ out' = out \ {b}
              /\ UNCHANGED ret

Next == \/ Open
        \/ Refuse
        \/ \E b \in free : Alloc(b)
        \/ \E b \in out : Release(b)

Spec == Init /\ [][Next]_vars
================================================================================
