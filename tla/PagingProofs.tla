------------------------------ MODULE PagingProofs ------------------------------
(***************************************************************************)
(* Theorems about Paging for every size of directory and table, every number*)
(* of frames and every set of free ones.  The inductive invariant is IInv   *)
(* below.                                                                   *)
(***************************************************************************)
EXTENDS Paging, NatLemmas, TLAPS

(* Directory entries with a table of their own: map_page and paging_init    *)
(* take it from the PMM, which never gives frame 0.                         *)
Own == {s \in Slot : dir[s].frame # 0}

Typed == TypeOK /\ 0 \notin avail

(* Which call of kernel_main has been reached.                              *)
Boots ==
  /\ phase = "boot" => /\ \A s \in Slot : ~dir[s].present
                       /\ mapped = {} /\ tlb = {}
  /\ phase \in {"boot", "paging"} => heap_frame = NONE
  /\ phase = "paging" => Own = {0} /\ \A e \in tlb : e[1] \in Index

(* The first table is the identity, in memory and in the cache.             *)
Identity ==
  /\ phase # "boot" => /\ 0 \in Own /\ dir[0].present
                       /\ table[dir[0].frame] = [i \in Index |-> i]
  /\ \A e \in tlb : e[1] \in Index => e[2] = e[1]

(* Until the |= 7 loop an entry is present exactly if it has a table; the   *)
(* tables, the directory and the heap lie in frames of their own, which the *)
(* PMM no longer has; and their present entries were all asked for.         *)
Apart ==
  /\ phase \notin {"boot", "open"} => \A s \in Slot : dir[s].present <=> s \in Own
  /\ phase = "open" => \A s \in Slot : dir[s].present
  /\ phase # "boot" =>
       /\ \A s, u \in Own : dir[s].frame = dir[u].frame => s = u
       /\ \A s \in Own : dir[s].frame \notin avail \cup {heap_frame, kernel_directory}
       /\ kernel_directory \in Frame \ (avail \cup {heap_frame})
       /\ \A p \in Page : /\ SlotOf(p) \in Own
                          /\ table[dir[SlotOf(p)].frame][IndexOf(p)] # NONE
                          => p \in mapped
  /\ phase \in {"heap", "open"} => heap_frame \in Frame \ avail

(* The heap page leads to the heap, unless somebody maps it onto itself.    *)
HeapThere ==
  phase \in {"heap", "open"} /\ HeapPage \notin Requests =>
    /\ SlotOf(HeapPage) \in Own
    /\ Walk(dir, table, HeapPage) = heap_frame
    /\ \A e \in tlb : e[1] = HeapPage => e[2] = heap_frame

IInv == Typed /\ Boots /\ Identity /\ Apart /\ HeapThere
--------------------------------------------------------------------------------
(* Pages, frames and the values that are neither.                           *)
LEMMA Ranges ==
  /\ 0 \in Slot /\ 0 \in Index /\ 0 \in Frame
  /\ Index \subseteq Frame /\ Frame \subseteq Page /\ HeapPage \in Page \ Index
  /\ OOM \in Page /\ OOM \notin Frame /\ NONE \notin Frame /\ OOM # NONE
<1>1. Slots * Entries \in Nat /\ Slots \in Nat \ {0, 1} /\ Entries \in Nat \ {0}
      /\ Frames \in Nat \ {0} /\ Frames < Slots * Entries
  BY PagingAssumption
<1>2. HeapPage \in Page \ Index /\ HeapPage \in Frame
  BY PagingAssumption
<1>3. Entries < Frames
  BY <1>1, <1>2 DEF Page, Index, Frame
<1> QED  BY <1>1, <1>2, <1>3 DEF Slot, Index, Frame, Page, OOM, NONE

(* A page number is a directory index and a table index (paging.c:135-136). *)
LEMMA PageSplit ==
  ASSUME NEW p \in Page
  PROVE  /\ SlotOf(p) \in Slot /\ IndexOf(p) \in Index
         /\ p = SlotOf(p) * Entries + IndexOf(p)
<1>1. p \in Nat /\ p < Slots * Entries /\ Slots \in Nat /\ Entries \in Nat \ {0}
  BY PagingAssumption DEF Page
<1>2. p \div Entries \in Nat  BY <1>1, DivNat
<1>3. p % Entries \in 0 .. Entries - 1  BY <1>1, ModNat
<1>4. p \div Entries < Slots  BY <1>1, DivBelow
<1>5. p = ((p \div Entries) * Entries) + (p % Entries)  BY <1>1, DivModSplit
<1> QED  BY <1>1, <1>2, <1>3, <1>4, <1>5 DEF SlotOf, IndexOf, Slot, Index

LEMMA SamePage ==
  ASSUME NEW p \in Page, NEW q \in Page, SlotOf(p) = SlotOf(q), IndexOf(p) = IndexOf(q)
  PROVE  p = q
  BY PageSplit

(* The window is the first table.                                           *)
LEMMA WindowSlot ==
  ASSUME NEW p \in Page
  PROVE  /\ p \in Index => SlotOf(p) = 0 /\ IndexOf(p) = p
         /\ SlotOf(p) = 0 => p \in Index
<1>1. Entries \in Nat \ {0}  BY PagingAssumption
<1>2. CASE p \in Index
  <2>1. p \in Nat /\ p < Entries  BY <1>1, <1>2 DEF Index
  <2> QED  BY <1>1, <1>2, <2>1, DivSmall DEF SlotOf, IndexOf
<1>3. CASE p \notin Index
  <2> SUFFICES ASSUME SlotOf(p) = 0 PROVE FALSE
    BY <1>3
  <2>1. p = 0 * Entries + IndexOf(p) /\ IndexOf(p) \in Index  BY PageSplit
  <2>2. p = IndexOf(p)  BY <1>1, <2>1 DEF Index
  <2> QED  BY <1>3, <2>1, <2>2
<1> QED  BY <1>2, <1>3

(* The PMM gives a free frame, or 0xFFFFFFFF if there is none.              *)
LEMMA FirstFrame ==
  ASSUME NEW free \in SUBSET Frame
  PROVE  \/ free = {} /\ pmm_alloc_block(free) = OOM
         \/ pmm_alloc_block(free) \in free
<1>1. CASE free = {}  BY <1>1 DEF pmm_alloc_block
<1>2. CASE free # {}
  <2>1. free \in SUBSET Nat  BY PagingAssumption DEF Frame
  <2>2. \E x \in free : \A y \in free : x <= y  BY <1>2, <2>1, LeastElement
  <2>3. Min(free) \in free  BY <2>2 DEF Min
  <2> QED  BY <1>2, <2>3 DEF pmm_alloc_block
<1> QED  BY <1>1, <1>2

(* Whatever the tables hold, a walk gives a frame or nothing, so a table at *)
(* 0xFFFFFFFF makes map_page fault.                                         *)
LEMMA WalkTyped ==
  ASSUME Typed, NEW p \in Page
  PROVE  Walk(dir, table, p) \in Frame \cup {NONE}
<1>1. SlotOf(p) \in Slot /\ IndexOf(p) \in Index  BY PageSplit
<1>2. dir[SlotOf(p)].frame \in Frame  BY <1>1 DEF Typed, TypeOK
<1>3. table[dir[SlotOf(p)].frame] \in [Index -> Frame \cup {NONE}]
  BY <1>2 DEF Typed, TypeOK
<1>4. table[dir[SlotOf(p)].frame][IndexOf(p)] \in Frame \cup {NONE}
  BY <1>1, <1>3
<1> QED  BY <1>4 DEF Walk

LEMMA OutOfReach == Typed => ~Reachable(OOM)
  BY Ranges, WalkTyped DEF Reachable
--------------------------------------------------------------------------------
(***************************************************************************)
(* A call of map_page that does not fault, whose PMM could give the frames  *)
(* in free.                                                                 *)
(***************************************************************************)
Mapping(p, f, free) ==
  LET t == pmm_alloc_block(free)
  IN  /\ phase # "boot" /\ p \in Page /\ f \in Frame /\ (p \in Index => f = p)
      /\ free \subseteq avail
      /\ ~MapFaults(t, p) /\ map_page(t, p, f)
      /\ avail' = Left(free, p)

(* The frame of the table that the call writes.                             *)
Written(p, free) == TableFor(pmm_alloc_block(free), p)

(* A missing table lies in a free frame: a refusal would have faulted.      *)
LEMMA MapTakes ==
  ASSUME IInv, NEW p, NEW f, NEW free, Mapping(p, f, free)
  PROVE  /\ NeedsTable(p) => /\ Written(p, free) \in free
                             /\ avail' = free \ {Written(p, free)}
         /\ ~NeedsTable(p) => /\ Written(p, free) = dir[SlotOf(p)].frame
                              /\ avail' = free
         /\ Written(p, free) \in Frame
<1> DEFINE t == pmm_alloc_block(free)
<1>1. SlotOf(p) \in Slot  BY PageSplit DEF Mapping
<1>2. Reachable(kernel_directory) /\ Reachable(TableFor(t, p))
  BY DEF Mapping, MapFaults
<1>3. CASE NeedsTable(p)
  <2>1. Written(p, free) = t  BY <1>3 DEF Written, TableFor
  <2>2. t # OOM  BY <1>2, <2>1, OutOfReach DEF IInv, Written
  <2>3. free \in SUBSET Frame  BY DEF Mapping, IInv, Typed, TypeOK
  <2>4. t \in free  BY <2>2, <2>3, FirstFrame
  <2>5. avail' = free \ {t}  BY <1>2, <1>3 DEF Mapping, Left, MapAsks
  <2> QED  BY <1>3, <2>1, <2>3, <2>4, <2>5
<1>4. CASE ~NeedsTable(p)
  <2>1. Written(p, free) = dir[SlotOf(p)].frame  BY <1>4 DEF Written, TableFor
  <2>2. avail' = free  BY <1>4 DEF Mapping, Left, MapAsks
  <2>3. dir[SlotOf(p)].frame \in Frame  BY <1>1 DEF IInv, Typed, TypeOK
  <2> QED  BY <1>4, <2>1, <2>2, <2>3
<1> QED  BY <1>3, <1>4

(* The directory after the call.                                            *)
LEMMA MapLinks ==
  ASSUME IInv, NEW p, NEW f, NEW free, Mapping(p, f, free)
  PROVE  /\ dir' \in [Slot -> [present : BOOLEAN, frame : Frame]]
         /\ dir'[SlotOf(p)].present
         /\ dir'[SlotOf(p)].frame = Written(p, free)
         /\ \A s \in Slot : s # SlotOf(p) => dir'[s] = dir[s]
<1> DEFINE w == Written(p, free)
           e == [present |-> TRUE, frame |-> w]
<1>1. w \in Frame  BY MapTakes
<1>2. SlotOf(p) \in Slot  BY PageSplit DEF Mapping
<1>3. dir' = [dir EXCEPT ![SlotOf(p)] = e]  BY DEF Mapping, map_page, Written
<1>4. dir \in [Slot -> [present : BOOLEAN, frame : Frame]]
  BY DEF IInv, Typed, TypeOK
<1>5. e \in [present : BOOLEAN, frame : Frame] /\ e.frame = w  BY <1>1
<1>6. e.present  BY Zenon
<1> HIDE DEF w, e
<1>7. dir'[SlotOf(p)] = e  BY <1>2, <1>3, <1>4
<1>8. dir'[SlotOf(p)].present  BY <1>6, <1>7, Zenon
<1>9. /\ dir' \in [Slot -> [present : BOOLEAN, frame : Frame]]
      /\ \A s \in Slot : s # SlotOf(p) => dir'[s] = dir[s]
  BY <1>3, <1>4, <1>5
<1> QED  BY <1>5, <1>7, <1>8, <1>9 DEF w

(* The tables after the call.                                               *)
LEMMA MapWrites ==
  ASSUME IInv, NEW p, NEW f, NEW free, Mapping(p, f, free)
  PROVE  /\ table' \in [Frame -> [Index -> Frame \cup {NONE}]]
         /\ \A g \in Frame : g # Written(p, free) => table'[g] = table[g]
         /\ table'[Written(p, free)][IndexOf(p)] = f
         /\ \A i \in Index : i # IndexOf(p) =>
              table'[Written(p, free)][i] =
                IF NeedsTable(p) THEN NONE ELSE table[Written(p, free)][i]
<1> DEFINE w == Written(p, free)
           old == IF NeedsTable(p) THEN Fresh(w) ELSE table[w]
           new == [old EXCEPT ![IndexOf(p)] = f]
<1>1. w \in Frame  BY MapTakes
<1>2. IndexOf(p) \in Index /\ f \in Frame  BY PageSplit DEF Mapping
<1>3. table' = [table EXCEPT ![w] = new]
  <2>1. NeedsTable(p) => Fresh(pmm_alloc_block(free)) = Fresh(w)
    BY DEF Fresh
  <2> QED  BY <2>1 DEF Mapping, map_page, Written
<1>4. table \in [Frame -> [Index -> Frame \cup {NONE}]]
  BY DEF IInv, Typed, TypeOK
<1>5. old \in [Index -> Frame \cup {NONE}]  BY <1>1, <1>4 DEF Fresh
<1>6. \A i \in Index : old[i] = IF NeedsTable(p) THEN NONE ELSE table[w][i]
  BY DEF Fresh
<1>7. /\ new \in [Index -> Frame \cup {NONE}] /\ new[IndexOf(p)] = f
      /\ \A i \in Index : i # IndexOf(p) => new[i] = old[i]
  <2> HIDE DEF old
  <2> QED  BY <1>2, <1>5
<1> HIDE DEF w, old, new
<1>8. /\ table' \in [Frame -> [Index -> Frame \cup {NONE}]]
      /\ table'[w] = new /\ \A g \in Frame : g # w => table'[g] = table[g]
  BY <1>1, <1>3, <1>4, <1>7
<1> QED  BY <1>6, <1>7, <1>8 DEF w

(* The call leaves every other table of its own, and the entry of it in the *)
(* directory, alone: the table it writes is nobody else's.                  *)
LEMMA MapElsewhere ==
  ASSUME IInv, NEW p, NEW f, NEW free, Mapping(p, f, free),
         NEW s \in Own, s # SlotOf(p)
  PROVE  /\ dir'[s] = dir[s] /\ dir[s].frame \in Frame
         /\ dir[s].frame # Written(p, free)
         /\ table'[dir[s].frame] = table[dir[s].frame]
<1>1. s \in Slot /\ dir'[s] = dir[s] /\ dir[s].frame \in Frame
  BY MapLinks DEF Own, IInv, Typed, TypeOK
<1>2. dir[s].frame # Written(p, free)
  <2>1. CASE NeedsTable(p)
    <3>1. Written(p, free) \in avail  BY <2>1, MapTakes DEF Mapping
    <3>2. dir[s].frame \notin avail  BY DEF Mapping, IInv, Apart
    <3> QED  BY <3>1, <3>2
  <2>2. CASE ~NeedsTable(p) /\ SlotOf(p) \in Own
    <3>1. Written(p, free) = dir[SlotOf(p)].frame  BY <2>2, MapTakes
    <3>2. dir[SlotOf(p)].frame # dir[s].frame
      BY <2>2 DEF Mapping, IInv, Apart
    <3> QED  BY <3>1, <3>2
  <2>3. CASE ~NeedsTable(p) /\ SlotOf(p) \notin Own
    <3>1. Written(p, free) = dir[SlotOf(p)].frame  BY <2>3, MapTakes
    <3>2. SlotOf(p) \in Slot  BY PageSplit DEF Mapping
    <3> QED  BY <2>3, <3>1, <3>2 DEF Own
  <2> QED  BY <2>1, <2>2, <2>3
<1> QED  BY <1>1, <1>2, MapWrites

(* An entry is present and non-empty only as the call left it or as before. *)
LEMMA MapEntries ==
  ASSUME IInv, NEW p, NEW f, NEW free, Mapping(p, f, free),
         NEW q \in Page, q # p, SlotOf(q) \in Own'
  PROVE  LET entry == table'[dir'[SlotOf(q)].frame][IndexOf(q)]
         IN  \/ entry = NONE /\ SlotOf(q) \notin Own
             \/ SlotOf(q) \in Own /\ entry = table[dir[SlotOf(q)].frame][IndexOf(q)]
<1>1. SlotOf(q) \in Slot /\ IndexOf(q) \in Index  BY PageSplit
<1>2. CASE SlotOf(q) # SlotOf(p)
  <2>1. SlotOf(q) \in Own  BY <1>1, <1>2, MapLinks DEF Own
  <2> QED  BY <1>2, <2>1, MapElsewhere
<1>3. CASE SlotOf(q) = SlotOf(p)
  <2>1. IndexOf(q) # IndexOf(p)  BY <1>3, SamePage DEF Mapping
  <2>2. dir'[SlotOf(q)].frame = Written(p, free)  BY <1>3, MapLinks
  <2>3. Written(p, free) # 0  BY <1>3, <2>2 DEF Own
  <2>4. CASE NeedsTable(p)
    <3>1. phase # "open"  BY <1>1, <1>3, <2>4 DEF NeedsTable, IInv, Apart
    <3>2. SlotOf(q) \notin Own
      BY <1>1, <1>3, <2>4, <3>1 DEF NeedsTable, Mapping, IInv, Apart
    <3> QED  BY <1>1, <2>1, <2>2, <2>4, <3>2, MapWrites
  <2>5. CASE ~NeedsTable(p)
    <3>1. Written(p, free) = dir[SlotOf(q)].frame  BY <1>3, <2>5, MapTakes
    <3>2. SlotOf(q) \in Own  BY <1>1, <2>3, <3>1 DEF Own
    <3> QED  BY <1>1, <2>1, <2>2, <2>5, <3>1, <3>2, MapWrites
  <2> QED  BY <2>4, <2>5
<1> QED  BY <1>2, <1>3

(* What the callers of map_page leave of the other variables.  The heap, if *)
(* it is new, lies in a frame that this call's PMM could not give.          *)
Caller(free) ==
  /\ phase' \in {"heap", "open"} /\ (phase' = "open" <=> phase = "open")
  /\ heap_frame' \in Frame
  /\ heap_frame' \in avail \ free \/ heap_frame' = heap_frame
  /\ tlb' \subseteq tlb \cup {<<HeapPage, heap_frame'>>}
  /\ UNCHANGED <<kernel_directory, halted>>

LEMMA MapTyped ==
  ASSUME IInv, NEW p, NEW f, NEW free, Mapping(p, f, free), Caller(free)
  PROVE  Typed'
<1>1. avail' \subseteq free /\ free \subseteq Frame /\ 0 \notin free
  BY MapTakes DEF Mapping, IInv, Typed, TypeOK
<1>2. mapped' \subseteq Page
  BY DEF Mapping, map_page, IInv, Typed, TypeOK
<1>3. tlb' \subseteq Page \X Frame
  BY Ranges DEF Caller, IInv, Typed, TypeOK
<1>4. /\ phase' \in {"boot", "paging", "heap", "open"}
      /\ kernel_directory' \in Frame \cup {NONE}
      /\ heap_frame' \in Frame \cup {NONE}
      /\ halted' \in BOOLEAN
  BY DEF Caller, IInv, Typed, TypeOK
<1> QED  BY <1>1, <1>2, <1>3, <1>4, MapLinks, MapWrites DEF Typed, TypeOK

LEMMA MapIdentityKept ==
  ASSUME IInv, NEW p, NEW f, NEW free, Mapping(p, f, free), Caller(free)
  PROVE  Identity'
<1>1. /\ 0 \in Own /\ 0 \in Slot /\ dir[0].present
      /\ table[dir[0].frame] = [i \in Index |-> i]
  BY Ranges DEF Mapping, IInv, Identity
<1>2. \A e \in tlb' : e[1] \in Index => e[2] = e[1]
  BY Ranges DEF Caller, IInv, Identity
<1>3. /\ 0 \in Own' /\ dir'[0].present
      /\ table'[dir'[0].frame] = [i \in Index |-> i]
  <2>1. CASE SlotOf(p) # 0
    <3>1. dir'[0] = dir[0] /\ table'[dir[0].frame] = table[dir[0].frame]
      BY <1>1, <2>1, MapElsewhere
    <3>2. dir'[0].present  BY <1>1, <3>1, Zenon
    <3> QED  BY <1>1, <3>1, <3>2 DEF Own
  <2>2. CASE SlotOf(p) = 0
    <3>1. ~NeedsTable(p)  BY <1>1, <2>2, Zenon DEF NeedsTable
    <3>2. Written(p, free) = dir[0].frame  BY <2>2, <3>1, MapTakes
    <3>3. dir'[0].frame = dir[0].frame /\ dir'[0].present
      BY <2>2, <3>2, MapLinks, Zenon
    <3>4. 0 \in Own'  BY <1>1, <3>3 DEF Own
    <3>5. p \in Index /\ IndexOf(p) = p /\ f = p
      BY <2>2, WindowSlot DEF Mapping
    <3>6. dir[0].frame \in Frame  BY <3>2, MapTakes
    <3>7. table'[dir[0].frame] \in [Index -> Frame \cup {NONE}]
      BY <3>6, MapWrites
    <3>8. \A i \in Index : table'[dir[0].frame][i] = i
      <4>1. table'[dir[0].frame][p] = p  BY <3>2, <3>5, MapWrites
      <4>2. \A i \in Index : i # p => table'[dir[0].frame][i] = table[dir[0].frame][i]
        BY <3>1, <3>2, <3>5, MapWrites
      <4> QED  BY <1>1, <4>1, <4>2
    <3> QED  BY <3>3, <3>4, <3>7, <3>8
  <2> QED  BY <2>1, <2>2
<1> QED  BY <1>2, <1>3 DEF Identity

LEMMA MapApart ==
  ASSUME IInv, NEW p, NEW f, NEW free, Mapping(p, f, free), Caller(free)
  PROVE  Apart'
<1> DEFINE w == Written(p, free)
<1>1. SlotOf(p) \in Slot  BY PageSplit DEF Mapping
<1>2. phase # "boot" /\ phase' # "boot" /\ phase' \in {"heap", "open"}
  BY DEF Mapping, Caller
<1>3. phase' # "open" => \A s \in Slot : dir'[s].present <=> s \in Own'
  <2> SUFFICES ASSUME phase' # "open", NEW s \in Slot
               PROVE  dir'[s].present <=> s \in Own'
    OBVIOUS
  <2>1. phase # "open" /\ (dir[s].present <=> s \in Own)
    BY <1>2 DEF Caller, IInv, Apart
  <2>2. CASE s # SlotOf(p)
    <3>1. dir'[s] = dir[s]  BY <2>2, MapLinks
    <3> QED  BY <2>1, <3>1 DEF Own
  <2>3. CASE s = SlotOf(p)
    <3>1. dir'[s].present  BY <2>3, MapLinks, Zenon
    <3>2. w # 0
      <4>1. CASE NeedsTable(p)
        BY <4>1, MapTakes DEF Mapping, IInv, Typed
      <4>2. CASE ~NeedsTable(p)
        BY <2>1, <2>3, <4>2, MapTakes DEF NeedsTable, Own
      <4> QED  BY <4>1, <4>2
    <3>3. s \in Own'  BY <2>3, <3>2, MapLinks DEF Own
    <3> QED  BY <3>1, <3>3
  <2> QED  BY <2>2, <2>3
<1>4. phase' = "open" => \A s \in Slot : dir'[s].present
  <2> SUFFICES ASSUME phase' = "open", NEW s \in Slot PROVE dir'[s].present
    OBVIOUS
  <2>1. dir[s].present  BY DEF Caller, IInv, Apart
  <2>2. CASE s # SlotOf(p)
    <3>1. dir'[s] = dir[s]  BY <2>2, MapLinks
    <3> QED  BY <2>1, <3>1, Zenon
  <2>3. CASE s = SlotOf(p)  BY <2>3, MapLinks, Zenon
  <2> QED  BY <2>2, <2>3
<1>5. \A s \in Own' : s # SlotOf(p) => s \in Own  BY MapLinks DEF Own
<1>6. dir'[SlotOf(p)].frame = w  BY MapLinks
<1>7. \A s, u \in Own' : dir'[s].frame = dir'[u].frame => s = u
  <2> SUFFICES ASSUME NEW s \in Own', NEW u \in Own', dir'[s].frame = dir'[u].frame, s # u
               PROVE  FALSE
    OBVIOUS
  <2>1. CASE s = SlotOf(p)
    <3>1. u \in Own /\ u # SlotOf(p)  BY <1>5, <2>1
    <3>2. dir'[u] = dir[u] /\ dir[u].frame # w  BY <3>1, MapElsewhere
    <3> QED  BY <1>6, <2>1, <3>2
  <2>2. CASE u = SlotOf(p)
    <3>1. s \in Own /\ s # SlotOf(p)  BY <1>5, <2>2
    <3>2. dir'[s] = dir[s] /\ dir[s].frame # w  BY <3>1, MapElsewhere
    <3> QED  BY <1>6, <2>2, <3>2
  <2>3. CASE s # SlotOf(p) /\ u # SlotOf(p)
    <3>1. s \in Own /\ u \in Own  BY <1>5, <2>3
    <3>2. dir'[s] = dir[s] /\ dir'[u] = dir[u]  BY <2>3, <3>1, MapElsewhere
    <3> QED  BY <1>2, <3>1, <3>2 DEF IInv, Apart
  <2> QED  BY <2>1, <2>2, <2>3
<1>8. /\ avail' \subseteq free /\ free \subseteq avail
      /\ heap_frame' \in avail \ free \/ heap_frame' = heap_frame
      /\ kernel_directory' = kernel_directory
  BY MapTakes DEF Mapping, Caller
<1>9. \A s \in Own' : dir'[s].frame \notin avail' \cup {heap_frame', kernel_directory'}
  <2> SUFFICES ASSUME NEW s \in Own'
               PROVE  dir'[s].frame \notin avail' \cup {heap_frame', kernel_directory'}
    OBVIOUS
  <2>1. CASE s = SlotOf(p) /\ NeedsTable(p)
    <3>1. dir'[s].frame = w /\ w \in free /\ avail' = free \ {w}
      BY <2>1, <1>6, MapTakes
    <3>2. heap_frame \notin avail /\ kernel_directory \notin avail
      <4>1. kernel_directory \notin avail  BY <1>2 DEF IInv, Apart
      <4>2. CASE phase = "paging"
        BY <4>1, <4>2, Ranges DEF IInv, Boots, Typed, TypeOK
      <4>3. CASE phase # "paging"
        BY <1>2, <4>3 DEF IInv, Apart, Typed, TypeOK
      <4> QED  BY <4>1, <4>2, <4>3
    <3> QED  BY <1>8, <3>1, <3>2
  <2>2. CASE s # SlotOf(p) \/ ~NeedsTable(p)
    <3>1. s \in Own /\ dir'[s].frame = dir[s].frame
      <4>1. CASE s # SlotOf(p)  BY <1>5, <4>1, MapElsewhere
      <4>2. CASE s = SlotOf(p) /\ ~NeedsTable(p)
        BY <1>1, <1>6, <4>2, MapTakes DEF Own
      <4> QED  BY <2>2, <4>1, <4>2
    <3>2. dir[s].frame \notin avail \cup {heap_frame, kernel_directory}
      BY <1>2, <3>1 DEF IInv, Apart
    <3> QED  BY <1>8, <3>1, <3>2
  <2> QED  BY <2>1, <2>2
<1>10. kernel_directory' \in Frame \ (avail' \cup {heap_frame'})
  BY <1>2, <1>8 DEF IInv, Apart
<1>11. \A q \in Page : /\ SlotOf(q) \in Own'
                       /\ table'[dir'[SlotOf(q)].frame][IndexOf(q)] # NONE
                       => q \in mapped'
  <2> SUFFICES ASSUME NEW q \in Page, SlotOf(q) \in Own',
                      table'[dir'[SlotOf(q)].frame][IndexOf(q)] # NONE
               PROVE  q \in mapped'
    OBVIOUS
  <2>1. mapped' = mapped \cup {p}  BY DEF Mapping, map_page
  <2>2. CASE q # p
    <3>1. /\ SlotOf(q) \in Own
          /\ table[dir[SlotOf(q)].frame][IndexOf(q)] # NONE
      BY <2>2, MapEntries
    <3> QED  BY <1>2, <2>1, <3>1 DEF IInv, Apart
  <2> QED  BY <2>1, <2>2
<1>12. heap_frame' \in Frame \ avail'
  <2>1. CASE heap_frame' \in avail \ free  BY <1>8, <2>1 DEF Caller
  <2>2. CASE heap_frame' = heap_frame
    <3>1. phase # "paging"  BY <2>2, Ranges DEF Caller, IInv, Boots
    <3> QED  BY <1>2, <1>8, <2>2, <3>1 DEF IInv, Apart, Typed, TypeOK
  <2> QED  BY <1>8, <2>1, <2>2
<1> HIDE DEF w
<1> QED
  BY <1>2, <1>3, <1>4, <1>7, <1>9, <1>10, <1>11, <1>12 DEF Apart
--------------------------------------------------------------------------------
(***************************************************************************)
(* The steps.                                                               *)
(***************************************************************************)
(* The present bit of an entry is the one it was written with.              *)
LEMMA PresentBit ==
  ASSUME NEW e, NEW g, NEW b \in BOOLEAN, e = [present |-> b, frame |-> g]
  PROVE  e.present <=> b
<1>1. [present |-> b, frame |-> g].present = b  BY Zenon
<1> QED  BY <1>1, Zenon

(* What boot.asm and the PMM leave before paging_init.                      *)
LEMMA InitInv == Init => IInv
<1> SUFFICES ASSUME Init PROVE IInv
  OBVIOUS
<1>1. avail \subseteq Frame /\ 0 \notin avail
  BY PagingAssumption DEF Init
<1>2. table \in [Frame -> [Index -> Frame \cup {NONE}]]
  <2>1. PICK junk \in Leftovers : table = [g \in Frame |-> junk]  BY DEF Init
  <2>2. junk \in [Index -> Frame \cup {NONE}]  BY PagingAssumption
  <2> QED  BY <2>1, <2>2
<1>3. dir \in [Slot -> [present : BOOLEAN, frame : Frame]]
  BY Ranges DEF Init
<1>4. \A s \in Slot : ~dir[s].present
  <2> SUFFICES ASSUME NEW s \in Slot PROVE ~dir[s].present
    OBVIOUS
  <2>1. dir[s] = [present |-> FALSE, frame |-> 0]  BY DEF Init
  <2> QED  BY <2>1, PresentBit, Zenon
<1>5. Typed  BY <1>1, <1>2, <1>3 DEF Init, Typed, TypeOK
<1>6. Boots  BY <1>4 DEF Init, Boots
<1>7. Identity /\ Apart /\ HeapThere  BY DEF Init, Identity, Apart, HeapThere
<1> QED  BY <1>5, <1>6, <1>7 DEF IInv

(* paging_init: both frames are there and differ, or paging stays off.      *)
LEMMA SetUpFrames ==
  ASSUME IInv, paging_init
  PROVE  LET d == pmm_alloc_block(avail)
             t == pmm_alloc_block(avail \ {d})
         IN  /\ d \in Frame \cup {OOM} /\ t \in Frame \cup {OOM}
             /\ ~Refused(d, t) => d \in avail /\ t \in avail /\ d # t
<1> DEFINE d == pmm_alloc_block(avail)
           t == pmm_alloc_block(avail \ {d})
<1>1. avail \in SUBSET Frame /\ avail \ {d} \in SUBSET Frame
  BY DEF IInv, Typed, TypeOK
<1>2. (avail = {} /\ d = OOM) \/ d \in avail  BY <1>1, FirstFrame
<1>3. (avail \ {d} = {} /\ t = OOM) \/ t \in avail \ {d}
  BY <1>1, FirstFrame
<1> HIDE DEF d, t
<1>4. ~Refused(d, t) => d # OOM /\ t # OOM  BY DEF Refused
<1> QED  BY <1>1, <1>2, <1>3, <1>4 DEF d, t

LEMMA PagingInitStep == IInv /\ paging_init => IInv'
<1> SUFFICES ASSUME IInv, paging_init PROVE IInv'
  OBVIOUS
<1> DEFINE d == pmm_alloc_block(avail)
           t == pmm_alloc_block(avail \ {d})
<1>1. /\ d \in Frame \cup {OOM} /\ t \in Frame \cup {OOM}
      /\ ~Refused(d, t) => d \in avail /\ t \in avail /\ d # t
  BY SetUpFrames
<1>2. SetUp(d, t) /\ avail' = avail \ {d, t}  BY DEF paging_init
<1> HIDE DEF d, t
<1>3. avail' \subseteq avail /\ 0 \notin avail' /\ avail' \subseteq Frame
  BY <1>2 DEF IInv, Typed, TypeOK
<1>4. phase = "boot"  BY <1>2 DEF SetUp
<1>5. CASE Refused(d, t) /\ Halt /\ kernel_directory' = IF d = OOM THEN NONE ELSE d
  <2>1. UNCHANGED <<phase, table, dir, mapped, tlb, heap_frame>> /\ halted' = TRUE
    BY <1>5 DEF Halt
  <2>2. Typed'  BY <1>1, <1>3, <1>5, <2>1 DEF IInv, Typed, TypeOK
  <2>3. Boots'  BY <2>1 DEF IInv, Boots, Own
  <2>4. Identity' /\ Apart' /\ HeapThere'
    BY <1>4, <2>1 DEF IInv, Identity, Apart, HeapThere, Own
  <2> QED  BY <2>2, <2>3, <2>4 DEF IInv
<1>6. CASE /\ ~Refused(d, t) /\ kernel_directory' = d
           /\ table' = [table EXCEPT ![t] = [i \in Index |-> i]]
           /\ dir' = [s \in Slot |-> [present |-> s = 0, frame |-> IF s = 0 THEN t ELSE 0]]
           /\ mapped' = Index
           /\ phase' = "paging"
           /\ UNCHANGED <<tlb, heap_frame, halted>>
  <2>1. d \in avail /\ t \in avail /\ d # t /\ d \in Frame /\ t \in Frame /\ t # 0
    BY <1>1, <1>6 DEF IInv, Typed, TypeOK
  <2>2. \A s \in Slot : /\ dir'[s].frame = IF s = 0 THEN t ELSE 0
                        /\ dir'[s] = [present |-> s = 0, frame |-> IF s = 0 THEN t ELSE 0]
    BY <1>6
  <2>3. \A s \in Slot : dir'[s].present <=> s = 0
    <3> SUFFICES ASSUME NEW s \in Slot PROVE dir'[s].present <=> s = 0
      OBVIOUS
    <3>1. dir'[s] = [present |-> s = 0, frame |-> IF s = 0 THEN t ELSE 0]  BY <2>2
    <3>2. (s = 0) \in BOOLEAN  OBVIOUS
    <3> QED  BY <3>1, <3>2, PresentBit, Zenon
  <2>4. Own' = {0}
    <3>1. 0 \in Slot  BY Ranges
    <3>2. \A s \in Slot : dir'[s].frame # 0 <=> s = 0  BY <2>1, <2>2, Zenon
    <3> QED  BY <3>1, <3>2, Zenon DEF Own
  <2>5. /\ table' \in [Frame -> [Index -> Frame \cup {NONE}]]
        /\ table'[t] = [i \in Index |-> i]
    <3> DEFINE window == [i \in Index |-> i]
    <3>1. window \in [Index -> Frame \cup {NONE}]  BY Ranges
    <3>2. table \in [Frame -> [Index -> Frame \cup {NONE}]]
      BY DEF IInv, Typed, TypeOK
    <3>3. table' = [table EXCEPT ![t] = window]  BY <1>6
    <3> HIDE DEF window
    <3>4. table' \in [Frame -> [Index -> Frame \cup {NONE}]] /\ table'[t] = window
      BY <2>1, <3>1, <3>2, <3>3
    <3> QED  BY <3>4 DEF window
  <2>6. dir' \in [Slot -> [present : BOOLEAN, frame : Frame]]
    BY <1>6, <2>1, Ranges
  <2>7. Typed'
    <3>1. mapped' \subseteq Page  BY <1>6, Ranges
    <3> QED  BY <1>3, <1>6, <2>1, <2>5, <2>6, <3>1 DEF IInv, Typed, TypeOK
  <2>8. tlb' = {} /\ heap_frame' = NONE
    BY <1>4, <1>6 DEF IInv, Boots
  <2>9. Boots'  BY <1>6, <2>4, <2>8 DEF Boots
  <2>10. Identity'
    BY <2>2, <2>3, <2>4, <2>5, <2>8, Ranges DEF Identity
  <2>11. Apart'
    <3>1. \A s \in Slot : dir'[s].present <=> s \in Own'  BY <2>3, <2>4
    <3>2. dir'[0].frame = t  BY <2>2, Ranges
    <3>3. t \notin avail' \cup {heap_frame', kernel_directory'}
          /\ kernel_directory' \in Frame \ (avail' \cup {heap_frame'})
      BY <1>2, <1>6, <2>1, <2>8, Ranges
    <3>4. \A p \in Page : SlotOf(p) \in Own' => p \in mapped'
      BY <1>6, <2>4, WindowSlot
    <3> QED  BY <1>6, <2>4, <3>1, <3>2, <3>3, <3>4 DEF Apart
  <2>12. HeapThere'  BY <1>6 DEF HeapThere
  <2> QED  BY <2>7, <2>9, <2>10, <2>11, <2>12 DEF IInv
<1> QED  BY <1>2, <1>5, <1>6 DEF SetUp

(* A fault or a refusal only costs the PMM frames.                          *)
LEMMA HaltKeeps ==
  ASSUME IInv, Halt, UNCHANGED kernel_directory, avail' \subseteq avail
  PROVE  IInv'
<1>1. UNCHANGED <<phase, kernel_directory, table, dir, mapped, tlb, heap_frame>>
      /\ halted' = TRUE
  BY DEF Halt
<1>2. Typed' /\ Boots' /\ Identity' /\ HeapThere'
  BY <1>1 DEF IInv, Typed, TypeOK, Boots, Identity, HeapThere, Own, Walk
<1>3. Apart'  BY <1>1 DEF IInv, Apart, Own
<1> QED  BY <1>2, <1>3 DEF IInv

(* What a caller's free frames lose is what map_page takes.                 *)
LEMMA LeftBelow == \A free, p : Left(free, p) \subseteq free
  BY DEF Left

(* heap_init: with two frames left it maps the first; with fewer it faults. *)
LEMMA HeapInitMaps ==
  ASSUME IInv, heap_init,
         ~MapFaults(pmm_alloc_block(Without(avail, pmm_alloc_block(avail))), HeapPage)
  PROVE  LET block == pmm_alloc_block(avail)
             rest == Without(avail, block)
         IN  /\ block \in avail /\ rest = avail \ {block}
             /\ Mapping(HeapPage, block, rest) /\ Caller(rest)
             /\ NeedsTable(HeapPage)
             /\ phase = "paging" /\ phase' = "heap" /\ heap_frame' = block
             /\ tlb' = tlb \cup {<<HeapPage, block>>}
<1> DEFINE block == pmm_alloc_block(avail)
           rest == Without(avail, block)
           t == pmm_alloc_block(rest)
<1>1. /\ phase = "paging" /\ ~halted /\ UNCHANGED kernel_directory
      /\ ~MapFaults(t, HeapPage)
      /\ map_page(t, HeapPage, block)
      /\ heap_frame' = block
      /\ tlb' = tlb \cup {<<HeapPage, block>>}
      /\ phase' = "heap" /\ UNCHANGED halted
      /\ avail' = Left(rest, HeapPage)
  BY DEF heap_init, MapHeap, HeapTarget
<1>2. avail \in SUBSET Frame /\ rest = avail \ {block} /\ rest \in SUBSET Frame
  BY DEF IInv, Typed, TypeOK, Without
<1>3. HeapPage \in Page /\ SlotOf(HeapPage) \in Slot /\ SlotOf(HeapPage) # 0
      /\ HeapPage \notin Index
  BY Ranges, PageSplit, WindowSlot
<1>4. NeedsTable(HeapPage)
  <2>1. ~dir[SlotOf(HeapPage)].present
    BY <1>1, <1>3 DEF IInv, Boots, Apart
  <2> QED  BY <2>1 DEF NeedsTable
<1>5. t # OOM
  BY <1>1, <1>4, OutOfReach DEF MapFaults, TableFor, IInv
<1>6. rest # {}  BY <1>2, <1>5, FirstFrame
<1>7. block \in avail  BY <1>2, <1>6, FirstFrame
<1>8. Mapping(HeapPage, block, rest)
  BY <1>1, <1>2, <1>3, <1>7 DEF Mapping
<1>9. Caller(rest)
  BY <1>1, <1>2, <1>7 DEF Caller
<1> HIDE DEF block, rest
<1>10. block \in avail /\ rest = avail \ {block} /\ Mapping(HeapPage, block, rest)
       /\ Caller(rest) /\ NeedsTable(HeapPage)
       /\ phase = "paging" /\ phase' = "heap" /\ heap_frame' = block
       /\ tlb' = tlb \cup {<<HeapPage, block>>}
  BY <1>1, <1>2, <1>4, <1>7, <1>8, <1>9
<1> QED  BY <1>10 DEF block, rest

LEMMA HeapInitStep == IInv /\ heap_init => IInv'
<1> SUFFICES ASSUME IInv, heap_init PROVE IInv'
  OBVIOUS
<1> DEFINE block == pmm_alloc_block(avail)
           rest == Without(avail, block)
           t == pmm_alloc_block(rest)
<1>1. CASE MapFaults(t, HeapPage)
  <2>1. Halt /\ UNCHANGED kernel_directory /\ avail' = Left(rest, HeapPage)
    BY <1>1 DEF heap_init, MapHeap
  <2>2. avail' \subseteq avail  BY <2>1, LeftBelow DEF Without
  <2> QED  BY <2>1, <2>2, HaltKeeps
<1>2. CASE ~MapFaults(t, HeapPage)
  <2>1. /\ block \in avail /\ Mapping(HeapPage, block, rest) /\ Caller(rest)
        /\ NeedsTable(HeapPage)
        /\ phase = "paging" /\ phase' = "heap" /\ heap_frame' = block
        /\ tlb' = tlb \cup {<<HeapPage, block>>}
    BY <1>2, HeapInitMaps
  <2> HIDE DEF block, rest, t
  <2>2. Typed' /\ Identity' /\ Apart'
    BY <2>1, MapTyped, MapIdentityKept, MapApart
  <2>3. Boots'  BY <2>1 DEF Boots
  <2>4. HeapThere'
    <3>1. HeapPage \in Page /\ SlotOf(HeapPage) \in Slot /\ HeapPage \notin Index
      BY Ranges, PageSplit
    <3>2. Written(HeapPage, rest) # 0
      BY <2>1, MapTakes DEF Mapping, IInv, Typed
    <3>3. SlotOf(HeapPage) \in Own'  BY <2>1, <3>1, <3>2, MapLinks DEF Own
    <3>4. dir'[SlotOf(HeapPage)].present
          /\ table'[dir'[SlotOf(HeapPage)].frame][IndexOf(HeapPage)] = block
      BY <2>1, MapLinks, MapWrites
    <3>5. Walk(dir, table, HeapPage)' = heap_frame'  BY <2>1, <3>4 DEF Walk
    <3>6. \A e \in tlb' : e[1] = HeapPage => e[2] = heap_frame'
      BY <2>1, <3>1 DEF IInv, Boots
    <3> QED  BY <3>3, <3>5, <3>6 DEF HeapThere
  <2> QED  BY <2>2, <2>3, <2>4 DEF IInv
<1> QED  BY <1>1, <1>2

(* map_page(p, p) for any page that callers ask for.                        *)
LEMMA MapIdentityMaps ==
  ASSUME IInv, NEW p \in Requests, MapIdentity(p), ~MapFaults(pmm_alloc_block(avail), p)
  PROVE  /\ Mapping(p, p, avail) /\ Caller(avail)
         /\ UNCHANGED <<phase, tlb, heap_frame>>
<1>1. p \in Page /\ p \in Frame  BY PagingAssumption
<1>2. /\ phase \in {"heap", "open"} /\ map_page(pmm_alloc_block(avail), p, p)
      /\ UNCHANGED <<kernel_directory, phase, tlb, heap_frame, halted>>
      /\ avail' = Left(avail, p)
  BY DEF MapIdentity, MapOnto
<1>3. heap_frame \in Frame  BY <1>2 DEF IInv, Apart
<1> QED  BY <1>1, <1>2, <1>3 DEF Mapping, Caller

LEMMA MapIdentityStep == ASSUME NEW p \in Requests PROVE IInv /\ MapIdentity(p) => IInv'
<1> SUFFICES ASSUME IInv, MapIdentity(p) PROVE IInv'
  OBVIOUS
<1>1. CASE MapFaults(pmm_alloc_block(avail), p)
  <2>1. Halt /\ UNCHANGED kernel_directory /\ avail' = Left(avail, p)
    BY <1>1 DEF MapIdentity, MapOnto
  <2> QED  BY <2>1, LeftBelow, HaltKeeps
<1>2. CASE ~MapFaults(pmm_alloc_block(avail), p)
  <2>1. /\ Mapping(p, p, avail) /\ Caller(avail)
        /\ UNCHANGED <<phase, tlb, heap_frame>> /\ phase \in {"heap", "open"}
    BY <1>2, MapIdentityMaps DEF MapIdentity, MapOnto
  <2>2. Typed' /\ Identity' /\ Apart'
    BY <2>1, MapTyped, MapIdentityKept, MapApart
  <2>3. Boots'  BY <2>1 DEF Boots
  <2>4. HeapThere'
    <3> SUFFICES ASSUME HeapPage \notin Requests
                 PROVE  /\ SlotOf(HeapPage) \in Own'
                        /\ Walk(dir, table, HeapPage)' = heap_frame'
                        /\ \A e \in tlb' : e[1] = HeapPage => e[2] = heap_frame'
      BY DEF HeapThere
    <3>1. /\ SlotOf(HeapPage) \in Own /\ Walk(dir, table, HeapPage) = heap_frame
          /\ \A e \in tlb : e[1] = HeapPage => e[2] = heap_frame
      BY <2>1 DEF IInv, HeapThere
    <3>2. HeapPage # p /\ HeapPage \in Page /\ SlotOf(HeapPage) \in Slot
      BY Ranges, PageSplit
    <3>3. SlotOf(HeapPage) \in Own'
      <4>1. CASE SlotOf(HeapPage) # SlotOf(p)
        BY <2>1, <3>1, <3>2, <4>1, MapElsewhere DEF Own
      <4>2. CASE SlotOf(HeapPage) = SlotOf(p)
        <5>1. dir[SlotOf(p)].present
          BY <2>1, <3>1, <3>2, <4>2 DEF IInv, Apart
        <5>2. Written(p, avail) = dir[SlotOf(p)].frame
          BY <2>1, <5>1, MapTakes DEF NeedsTable
        <5> QED  BY <2>1, <3>1, <3>2, <4>2, <5>2, MapLinks DEF Own
      <4> QED  BY <4>1, <4>2
    <3>4. dir[SlotOf(HeapPage)].present /\ dir'[SlotOf(HeapPage)].present
      BY <2>1, <2>2, <3>1, <3>2, <3>3 DEF IInv, Apart
    <3>5. table'[dir'[SlotOf(HeapPage)].frame][IndexOf(HeapPage)]
            = table[dir[SlotOf(HeapPage)].frame][IndexOf(HeapPage)]
      BY <2>1, <3>1, <3>2, <3>3, MapEntries
    <3>6. Walk(dir, table, HeapPage)' = Walk(dir, table, HeapPage)
      BY <3>4, <3>5 DEF Walk
    <3> QED  BY <2>1, <3>1, <3>3, <3>6
  <2> QED  BY <2>2, <2>3, <2>4 DEF IInv
<1> QED  BY <1>1, <1>2

(* The loop of kernel_main: it changes present bits only.                   *)
LEMMA UnlockEntries ==
  ASSUME IInv, Unlock
  PROVE  /\ dir' \in [Slot -> [present : BOOLEAN, frame : Frame]]
         /\ \A s \in Slot : dir'[s].present
         /\ \A s \in Slot : dir'[s].frame = dir[s].frame
         /\ Own' = Own
<1>1. dir \in [Slot -> [present : BOOLEAN, frame : Frame]]
  BY DEF IInv, Typed, TypeOK
<1>2. ASSUME NEW s \in Slot
      PROVE  /\ dir'[s] \in [present : BOOLEAN, frame : Frame]
             /\ dir'[s].present /\ dir'[s].frame = dir[s].frame
  <2>1. dir[s] \in [present : BOOLEAN, frame : Frame]  BY <1>1
  <2>2. dir'[s] = [dir[s] EXCEPT !.present = TRUE]  BY DEF Unlock
  <2>3. dir'[s] = [present |-> TRUE, frame |-> dir[s].frame]  BY <2>1, <2>2
  <2>4. dir'[s].present  BY <2>3, PresentBit, Zenon
  <2>5. dir'[s].frame = dir[s].frame  BY <2>3
  <2>6. dir'[s] \in [present : BOOLEAN, frame : Frame]  BY <2>1, <2>3
  <2> QED  BY <2>4, <2>5, <2>6
<1>3. dir' = [s \in Slot |-> dir'[s]]  BY DEF Unlock
<1>4. dir' \in [Slot -> [present : BOOLEAN, frame : Frame]]  BY <1>2, <1>3
<1> QED  BY <1>2, <1>4 DEF Own

LEMMA UnlockStep == IInv /\ Unlock => IInv'
<1> SUFFICES ASSUME IInv, Unlock PROVE IInv'
  OBVIOUS
<1>1. /\ phase = "heap" /\ phase' = "open" /\ tlb' = {}
      /\ UNCHANGED <<kernel_directory, avail, table, mapped, heap_frame, halted>>
  BY DEF Unlock
<1>2. /\ dir' \in [Slot -> [present : BOOLEAN, frame : Frame]]
      /\ \A s \in Slot : dir'[s].present
      /\ \A s \in Slot : dir'[s].frame = dir[s].frame
      /\ Own' = Own /\ Own \subseteq Slot
  BY UnlockEntries DEF Own
<1>3. Typed'  BY <1>1, <1>2 DEF IInv, Typed, TypeOK
<1>4. Boots'  BY <1>1 DEF Boots
<1>5. Identity'  BY <1>1, <1>2, Ranges DEF IInv, Identity
<1>6. Apart'
  <2>1. \A p \in Page : SlotOf(p) \in Own => dir'[SlotOf(p)].frame = dir[SlotOf(p)].frame
    BY <1>2
  <2> QED  BY <1>1, <1>2, <2>1 DEF IInv, Apart
<1>7. HeapThere'
  <2> SUFFICES ASSUME HeapPage \notin Requests
               PROVE  /\ SlotOf(HeapPage) \in Own'
                      /\ Walk(dir, table, HeapPage)' = heap_frame'
    BY <1>1 DEF HeapThere
  <2>1. SlotOf(HeapPage) \in Own /\ Walk(dir, table, HeapPage) = heap_frame
    BY <1>1 DEF IInv, HeapThere
  <2>2. SlotOf(HeapPage) \in Slot  BY Ranges, PageSplit
  <2>3. dir[SlotOf(HeapPage)].present  BY <1>1, <2>1, <2>2 DEF IInv, Apart
  <2> QED  BY <1>1, <1>2, <2>1, <2>2, <2>3 DEF Walk
<1> QED  BY <1>3, <1>4, <1>5, <1>6, <1>7 DEF IInv

(* The cache loses entries, to a CR3 load or to the CPU.                    *)
LEMMA CacheShrinks ==
  ASSUME IInv, tlb' \subseteq tlb,
         UNCHANGED <<phase, kernel_directory, avail, table, dir, mapped, heap_frame, halted>>
  PROVE  IInv'
<1>1. Typed'  BY DEF IInv, Typed, TypeOK
<1>2. Boots'  BY DEF IInv, Boots, Own
<1>3. Identity'  BY DEF IInv, Identity, Own
<1>4. Apart'  BY DEF IInv, Apart, Own
<1>5. HeapThere'  BY DEF IInv, HeapThere, Own, Walk
<1> QED  BY <1>1, <1>2, <1>3, <1>4, <1>5 DEF IInv

(* A walk that is cached gives the window itself and the heap its frame.    *)
LEMMA AccessStep == ASSUME NEW p \in Touched PROVE IInv /\ Access(p) => IInv'
<1> SUFFICES ASSUME IInv, Access(p) PROVE IInv'
  OBVIOUS
<1> DEFINE f == Walk(dir, table, p)
<1>0. p \in Page /\ phase # "boot"  BY PagingAssumption DEF Access
<1>1. CASE f = NONE /\ Halt /\ UNCHANGED <<kernel_directory, avail>>
  BY <1>1, HaltKeeps
<1>2. CASE /\ f # NONE /\ tlb' = tlb \cup {<<p, f>>}
           /\ UNCHANGED <<phase, kernel_directory, avail, table, dir, mapped, heap_frame, halted>>
  <2>1. f \in Frame  BY <1>0, <1>2, WalkTyped DEF IInv
  <2>2. SlotOf(p) \in Slot /\ IndexOf(p) \in Index  BY <1>0, PageSplit
  <2>3. p \in Index => f = p
    BY <1>0, WindowSlot DEF IInv, Identity, Walk
  <2>4. phase = "paging" => p \in Index
    <3> SUFFICES ASSUME phase = "paging" PROVE p \in Index
      OBVIOUS
    <3>1. dir[SlotOf(p)].present  BY <1>2 DEF Walk
    <3>2. SlotOf(p) = 0  BY <2>2, <3>1 DEF IInv, Apart, Boots
    <3> QED  BY <1>0, <3>2, WindowSlot
  <2>5. /\ phase \in {"heap", "open"} /\ HeapPage \notin Requests /\ p = HeapPage
        => f = heap_frame
    BY DEF IInv, HeapThere
  <2> HIDE DEF f
  <2>6. Typed'  BY <1>0, <1>2, <2>1 DEF IInv, Typed, TypeOK
  <2>7. Boots'  BY <1>0, <1>2, <2>4 DEF IInv, Boots, Own
  <2>8. Identity'  BY <1>2, <2>3 DEF IInv, Identity, Own
  <2>9. Apart'  BY <1>2 DEF IInv, Apart, Own
  <2>10. HeapThere'  BY <1>2, <2>5 DEF IInv, HeapThere, Own, Walk
  <2> QED  BY <2>6, <2>7, <2>8, <2>9, <2>10 DEF IInv
<1> QED  BY <1>1, <1>2 DEF Access

LEMMA NextInv == IInv /\ [Next]_vars => IInv'
<1> SUFFICES ASSUME IInv, [Next]_vars PROVE IInv'
  OBVIOUS
<1>1. CASE paging_init  BY <1>1, PagingInitStep
<1>2. CASE heap_init  BY <1>2, HeapInitStep
<1>3. CASE Unlock  BY <1>3, UnlockStep
<1>4. CASE switch_page_directory  BY <1>4, CacheShrinks DEF switch_page_directory
<1>5. CASE Evict  BY <1>5, CacheShrinks DEF Evict
<1>6. CASE \E p \in Requests : MapIdentity(p)  BY <1>6, MapIdentityStep
<1>7. CASE \E p \in Touched : Access(p)  BY <1>7, AccessStep
<1>8. CASE UNCHANGED vars  BY <1>8, CacheShrinks DEF vars
<1> QED  BY <1>1, <1>2, <1>3, <1>4, <1>5, <1>6, <1>7, <1>8 DEF Next
--------------------------------------------------------------------------------
(* The inductive invariant holds in every reachable state.                  *)
THEOREM Invariance == Spec => []IInv
<1>1. Init => IInv  BY InitInv
<1>2. IInv /\ [Next]_vars => IInv'  BY NextInv
<1> QED  BY <1>1, <1>2, PTL DEF Spec

(* Directory, tables, free frames and cache stay what paging.h declares: an *)
(* unchecked 0xFFFFFFFF never becomes a table or the heap's frame.          *)
THEOREM TypeCorrect == Spec => []TypeOK
<1>1. IInv => TypeOK  BY DEF IInv, Typed
<1> QED  BY <1>1, Invariance, PTL

(* paging.c:43-45: whatever is mapped later, the first 4 MB stay mapped onto*)
(* themselves, in the tables and in the cache.                              *)
THEOREM WindowKept == Spec => []WindowIsIdentity
<1>1. IInv => WindowIsIdentity
  <2> SUFFICES ASSUME IInv, Up, NEW p \in Index PROVE Translations(p) = {p}
    BY DEF WindowIsIdentity
  <2>1. p \in Page /\ SlotOf(p) = 0 /\ IndexOf(p) = p
    BY Ranges, WindowSlot
  <2>2. Walk(dir, table, p) = p
    BY <2>1 DEF Up, IInv, Identity, Walk
  <2>3. \A e \in tlb : e[1] = p => e[2] = p  BY DEF IInv, Identity
  <2> QED  BY <2>2, <2>3 DEF Translations
<1> QED  BY <1>1, Invariance, PTL

(* Tables, directory and heap never share a frame with each other or with   *)
(* what the PMM can still hand out.                                         *)
THEOREM FramesOwned == Spec => []TablesOwned
<1>1. IInv => TablesOwned
  <2> SUFFICES ASSUME IInv PROVE TablesOwned
    OBVIOUS
  <2>1. HeapUp => heap_frame \in Frame \ avail
    BY DEF HeapUp, IInv, Apart
  <2>2. ASSUME Up, phase # "open"
        PROVE  LET used == {s \in Slot : dir[s].present}
                   others == avail \cup {heap_frame, kernel_directory}
               IN  /\ \A s, u \in used : s # u => dir[s].frame # dir[u].frame
                   /\ \A s \in used : dir[s].frame \notin others
                   /\ kernel_directory \notin avail \cup {heap_frame}
    <3>1. phase \notin {"boot", "open"}  BY <2>2 DEF Up
    <3>2. {s \in Slot : dir[s].present} = Own
      BY <3>1 DEF IInv, Apart, Own
    <3> QED  BY <3>1, <3>2 DEF IInv, Apart
  <2> QED  BY <2>1, <2>2 DEF TablesOwned
<1> QED  BY <1>1, Invariance, PTL

(* task.c:102-105, paging.c:171: the heap page keeps leading to the headers *)
(* and PCBs as long as nobody maps it onto itself (create_task would: see   *)
(* the run boot_tasks).                                                     *)
THEOREM HeapKept == HeapPage \notin Requests => (Spec => []HeapStays)
<1> SUFFICES ASSUME HeapPage \notin Requests PROVE Spec => []HeapStays
  OBVIOUS
<1>1. IInv => HeapStays
  <2> SUFFICES ASSUME IInv, HeapUp PROVE Translations(HeapPage) = {heap_frame}
    BY DEF HeapStays
  <2>1. /\ Walk(dir, table, HeapPage) = heap_frame
        /\ \A e \in tlb : e[1] = HeapPage => e[2] = heap_frame
    BY DEF HeapUp, IInv, HeapThere
  <2> QED  BY <2>1 DEF Translations
<1> QED  BY <1>1, Invariance, PTL
--------------------------------------------------------------------------------
(***************************************************************************)
(* Paging implements AddressSpace: one map of pages, turned on with the     *)
(* window and then changed at one page by each mapping.                     *)
(***************************************************************************)
LEMMA TranslationOf ==
  ASSUME IInv, NEW q \in Page
  PROVE  /\ phase \in {"paging", "heap"} =>
              Translation[q] = IF SlotOf(q) \in Own
                                 THEN table[dir[SlotOf(q)].frame][IndexOf(q)] ELSE NONE
         /\ phase = "open" =>
              Translation[q] = IF q \in mapped /\ SlotOf(q) \in Own
                                 THEN table[dir[SlotOf(q)].frame][IndexOf(q)] ELSE NONE
         /\ phase = "boot" => Translation[q] = NONE
<1>1. SlotOf(q) \in Slot  BY PageSplit
<1>2. Translation[q] = IF Promised(q) THEN Walk(dir, table, q) ELSE NONE
  BY DEF Translation
<1>3. CASE phase \in {"paging", "heap"}
  <2>1. Promised(q)  BY <1>3 DEF Promised
  <2>2. dir[SlotOf(q)].present <=> SlotOf(q) \in Own
    BY <1>1, <1>3 DEF IInv, Apart
  <2> QED  BY <1>2, <1>3, <2>1, <2>2 DEF Walk
<1>4. CASE phase = "open"
  <2>1. Promised(q) <=> q \in mapped /\ SlotOf(q) \in Own
    BY <1>1, <1>4 DEF Promised, HasOwnTable, Own
  <2>2. dir[SlotOf(q)].present  BY <1>1, <1>4 DEF IInv, Apart
  <2> QED  BY <1>2, <1>4, <2>1, <2>2 DEF Walk
<1>5. CASE phase = "boot"
  <2>1. ~Promised(q)  BY <1>5 DEF Promised
  <2> QED  BY <1>2, <1>5, <2>1
<1>6. phase \in {"boot", "paging", "heap", "open"}  BY DEF IInv, Typed, TypeOK
<1> QED  BY <1>3, <1>4, <1>5, <1>6

(* Nobody else's translation changes, and the page's own becomes f -- unless*)
(* its table is the shared frame 0, which the promise leaves out.           *)
LEMMA MapChangesOne ==
  ASSUME IInv, IInv', NEW p, NEW f, NEW free, Mapping(p, f, free), Caller(free)
  PROVE  /\ \A q \in Page : q # p => Translation'[q] = Translation[q]
         /\ Translation'[p] = f \/ Translation'[p] = Translation[p]
<1> DEFINE Entry(q) == table[dir[SlotOf(q)].frame][IndexOf(q)]
           After(q) == table'[dir'[SlotOf(q)].frame][IndexOf(q)]
<1>1. /\ phase' = "open" <=> phase = "open"
      /\ phase' \in {"heap", "open"} /\ phase \in {"paging", "heap", "open"}
  BY DEF Mapping, Caller, IInv, Typed, TypeOK
<1>2. mapped' = mapped \cup {p} /\ p \in Page
  BY DEF Mapping, map_page
<1>3. ASSUME NEW q \in Page
      PROVE  /\ phase' = "heap" =>
                  Translation'[q] = IF SlotOf(q) \in Own' THEN After(q) ELSE NONE
             /\ phase' = "open" =>
                  Translation'[q] = IF q \in mapped' /\ SlotOf(q) \in Own'
                                      THEN After(q) ELSE NONE
  <2>1. SlotOf(q) \in Slot  BY PageSplit
  <2>2. Translation'[q] = IF Promised(q)' THEN Walk(dir', table', q) ELSE NONE
    BY DEF Translation
  <2>3. CASE phase' = "heap"
    <3>1. Promised(q)'  BY <2>3 DEF Promised
    <3>2. dir'[SlotOf(q)].present <=> SlotOf(q) \in Own'
      BY <2>1, <2>3 DEF IInv, Apart
    <3> QED  BY <2>2, <2>3, <3>1, <3>2 DEF Walk
  <2>4. CASE phase' = "open"
    <3>1. Promised(q)' <=> q \in mapped' /\ SlotOf(q) \in Own'
      BY <2>1, <2>4 DEF Promised, HasOwnTable, Own
    <3>2. dir'[SlotOf(q)].present  BY <2>1, <2>4 DEF IInv, Apart
    <3> QED  BY <2>2, <2>4, <3>1, <3>2 DEF Walk
  <2> QED  BY <1>1, <2>3, <2>4
<1>4. ASSUME NEW q \in Page, q # p
      PROVE  Translation'[q] = Translation[q]
  <2>1. SlotOf(q) \in Own' => \/ SlotOf(q) \in Own /\ After(q) = Entry(q)
                              \/ SlotOf(q) \notin Own /\ After(q) = NONE
    BY <1>4, MapEntries
  <2>2. SlotOf(q) \in Own => SlotOf(q) \in Own'
    <3>1. SlotOf(q) \in Slot  BY PageSplit
    <3>2. CASE SlotOf(q) # SlotOf(p)
      BY <3>1, <3>2, MapLinks DEF Own
    <3>3. CASE SlotOf(q) = SlotOf(p)
      <4> SUFFICES ASSUME SlotOf(p) \in Own PROVE SlotOf(p) \in Own'
        BY <3>3
      <4>1. dir[SlotOf(p)].present
        BY <1>1, <3>1, <3>3 DEF IInv, Apart
      <4>2. Written(p, free) = dir[SlotOf(p)].frame
        BY <4>1, MapTakes DEF NeedsTable
      <4> QED  BY <3>1, <3>3, <4>2, MapLinks DEF Own
    <3> QED  BY <3>2, <3>3
  <2>3. q \in mapped' <=> q \in mapped  BY <1>2, <1>4
  <2>4. CASE phase = "open"
    <3>1. phase' = "open"  BY <1>1, <2>4
    <3>2. SlotOf(q) \in Own /\ q \in mapped => SlotOf(q) \in Own' /\ q \in mapped'
      BY <2>2, <2>3
    <3>3. Translation[q] = IF q \in mapped /\ SlotOf(q) \in Own THEN Entry(q) ELSE NONE
      BY <2>4, TranslationOf
    <3> HIDE DEF Entry, After
    <3> QED  BY <1>3, <2>1, <2>3, <3>1, <3>2, <3>3
  <2>5. CASE phase # "open"
    <3>1. phase' = "heap"  BY <1>1, <2>5
    <3>2. Translation[q] = IF SlotOf(q) \in Own THEN Entry(q) ELSE NONE
      BY <1>1, <2>5, TranslationOf
    <3> HIDE DEF Entry, After
    <3> QED  BY <1>3, <2>1, <2>2, <3>1, <3>2
  <2> QED  BY <2>4, <2>5
<1>5. Translation'[p] = f \/ Translation'[p] = Translation[p]
  <2>1. After(p) = f  BY MapLinks, MapWrites
  <2>2. CASE SlotOf(p) \in Own'
    <3> HIDE DEF After
    <3> QED  BY <1>1, <1>2, <1>3, <2>1, <2>2
  <2>3. CASE SlotOf(p) \notin Own'
    <3>1. Translation'[p] = NONE  BY <1>1, <1>2, <1>3, <2>3
    <3>2. SlotOf(p) \in Slot /\ SlotOf(p) \notin Own
      <4>1. SlotOf(p) \in Slot  BY <1>2, PageSplit
      <4>2. Written(p, free) = 0  BY <2>3, <4>1, MapLinks DEF Own
      <4>3. ~NeedsTable(p)
        BY <4>2, MapTakes DEF Mapping, IInv, Typed
      <4>4. dir[SlotOf(p)].frame = 0  BY <4>2, <4>3, MapTakes
      <4> QED  BY <4>1, <4>4 DEF Own
    <3>3. Translation[p] = NONE  BY <1>1, <1>2, <3>2, TranslationOf
    <3> QED  BY <3>1, <3>3
  <2> QED  BY <2>2, <2>3
<1> QED  BY <1>4, <1>5

LEMMA MapRefines ==
  ASSUME IInv, IInv', NEW p, NEW f, NEW free, Mapping(p, f, free), Caller(free)
  PROVE  [Space!Next]_Translation
<1>1. p \in Page /\ f \in Frame /\ phase \in {"paging", "heap", "open"}
  BY DEF Mapping, IInv, Typed, TypeOK
<1>2. Translation[0] # NONE
  <2>1. 0 \in Index /\ 0 \in Page /\ SlotOf(0) = 0 /\ IndexOf(0) = 0
    BY Ranges, WindowSlot
  <2>2. 0 \in Own /\ table[dir[0].frame][0] = 0
    BY <1>1, <2>1 DEF IInv, Identity
  <2>3. 0 # NONE  BY DEF NONE
  <2>4. 0 \in mapped  BY <1>1, <2>1, <2>2, <2>3 DEF IInv, Apart
  <2> QED  BY <1>1, <2>1, <2>2, <2>3, <2>4, TranslationOf
<1>3. Translation = [q \in Page |-> Translation[q]]
      /\ Translation' = [q \in Page |-> Translation'[q]]
  BY DEF Translation
<1>4. CASE Translation'[p] = f
  <2>1. Translation' = [Translation EXCEPT ![p] = f]
    <3>1. \A q \in Page : Translation'[q] = [Translation EXCEPT ![p] = f][q]
      <4>1. \A q \in Page : q # p => Translation'[q] = Translation[q]
        BY MapChangesOne, Zenon
      <4>2. SUFFICES ASSUME NEW q \in Page
                     PROVE  Translation'[q] = [Translation EXCEPT ![p] = f][q]
        OBVIOUS
      <4>3. [Translation EXCEPT ![p] = f][q] = IF q = p THEN f ELSE Translation[q]
        BY <1>1, <1>3
      <4> QED  BY <1>4, <4>1, <4>3, Zenon
    <3>2. [Translation EXCEPT ![p] = f] = [q \in Page |-> [Translation EXCEPT ![p] = f][q]]
      BY <1>1, <1>3
    <3> QED  BY <1>3, <3>1, <3>2
  <2>2. Space!Map(p, f)  BY <1>2, <2>1, Ranges DEF Space!Map
  <2> QED  BY <1>1, <2>2 DEF Space!Next
<1>5. CASE Translation'[p] = Translation[p]
  <2>1. \A q \in Page : Translation'[q] = Translation[q]
    BY <1>5, MapChangesOne
  <2>2. Translation' = Translation  BY <1>3, <2>1
  <2> QED  BY <2>2
<1> QED  BY <1>4, <1>5, MapChangesOne

(* Turning paging on gives the window and nothing else.                     *)
LEMMA PagingInitRefines ==
  ASSUME IInv, IInv', paging_init
  PROVE  [Space!Next]_Translation
<1> DEFINE d == pmm_alloc_block(avail)
           t == pmm_alloc_block(avail \ {d})
<1>1. SetUp(d, t) /\ phase = "boot"  BY DEF paging_init, SetUp
<1>2. Translation = [q \in Page |-> NONE]
  <2>1. \A q \in Page : Translation[q] = NONE  BY <1>1, TranslationOf
  <2> QED  BY <2>1 DEF Translation
<1>3. CASE phase' = "boot"
  <2>1. Translation' = [q \in Page |-> NONE]
    <3>1. \A q \in Page : ~Promised(q)'  BY <1>3 DEF Promised
    <3> QED  BY <3>1 DEF Translation
  <2> QED  BY <1>2, <2>1
<1>4. CASE phase' # "boot"
  <2>1. phase' = "paging"  BY <1>1, <1>4 DEF SetUp, Halt
  <2>2. Own' = {0} /\ 0 \in Slot /\ table'[dir'[0].frame] = [i \in Index |-> i]
    BY <2>1, Ranges DEF IInv, Boots, Identity
  <2>3. ASSUME NEW q \in Page
        PROVE  Translation'[q] = IF q \in Index THEN q ELSE NONE
    <3>1. SlotOf(q) \in Slot  BY PageSplit
    <3>2. Promised(q)'  BY <2>1 DEF Promised
    <3>3. Translation'[q] = Walk(dir', table', q)  BY <3>2 DEF Translation
    <3>4. dir'[SlotOf(q)].present <=> SlotOf(q) = 0
      BY <2>1, <2>2, <3>1 DEF IInv, Apart
    <3>5. CASE q \in Index
      <4>1. SlotOf(q) = 0 /\ IndexOf(q) = q  BY <3>5, WindowSlot
      <4> QED  BY <2>2, <3>3, <3>4, <3>5, <4>1 DEF Walk
    <3>6. CASE q \notin Index
      <4>1. SlotOf(q) # 0  BY <3>6, WindowSlot
      <4> QED  BY <3>3, <3>4, <3>6, <4>1 DEF Walk
    <3> QED  BY <3>5, <3>6
  <2>4. Translation' = [q \in Page |-> IF q \in Index THEN q ELSE NONE]
    BY <2>3 DEF Translation
  <2> QED  BY <1>2, <2>4 DEF Space!Next, Space!TurnOn
<1> QED  BY <1>3, <1>4

(* The loop takes no translation away that somebody asked for.              *)
LEMMA UnlockRefines ==
  ASSUME IInv, IInv', Unlock
  PROVE  Translation' = Translation
<1>1. /\ phase = "heap" /\ phase' = "open" /\ table' = table /\ mapped' = mapped
      /\ Own' = Own
      /\ \A s \in Slot : dir'[s].present /\ dir'[s].frame = dir[s].frame
  BY UnlockEntries DEF Unlock
<1>2. ASSUME NEW q \in Page PROVE Translation'[q] = Translation[q]
  <2>1. SlotOf(q) \in Slot  BY PageSplit
  <2>2. Promised(q)' <=> q \in mapped /\ SlotOf(q) \in Own
    BY <1>1, <2>1 DEF Promised, HasOwnTable, Own
  <2>3. Walk(dir, table, q)' = table[dir[SlotOf(q)].frame][IndexOf(q)]
    BY <1>1, <2>1 DEF Walk
  <2>4. Translation'[q] = IF Promised(q)' THEN Walk(dir, table, q)' ELSE NONE
    BY DEF Translation
  <2>5. Translation[q] = IF SlotOf(q) \in Own
                           THEN table[dir[SlotOf(q)].frame][IndexOf(q)] ELSE NONE
    BY <1>1, TranslationOf
  <2>6. SlotOf(q) \in Own /\ q \notin mapped
          => table[dir[SlotOf(q)].frame][IndexOf(q)] = NONE
    BY <1>1 DEF IInv, Apart
  <2> QED  BY <2>2, <2>3, <2>4, <2>5, <2>6
<1> QED  BY <1>2 DEF Translation

(* What leaves phase, directory, tables and requests alone is not seen.     *)
LEMMA Unseen == UNCHANGED <<phase, dir, table, mapped>> => Translation' = Translation
  BY DEF Translation, Promised, HasOwnTable, Walk

LEMMA NextRefines == IInv /\ IInv' /\ [Next]_vars => [Space!Next]_Translation
<1> SUFFICES ASSUME IInv, IInv', [Next]_vars PROVE [Space!Next]_Translation
  OBVIOUS
<1>1. CASE paging_init  BY <1>1, PagingInitRefines
<1>2. CASE heap_init
  <2> DEFINE block == pmm_alloc_block(avail)
             rest == Without(avail, block)
             t == pmm_alloc_block(rest)
  <2>1. CASE MapFaults(t, HeapPage)
    <3>1. Halt  BY <1>2, <2>1 DEF heap_init, MapHeap
    <3> QED  BY <3>1, Unseen DEF Halt
  <2>2. CASE ~MapFaults(t, HeapPage)
    <3>1. Mapping(HeapPage, block, rest) /\ Caller(rest)
      BY <1>2, <2>2, HeapInitMaps
    <3> QED  BY <3>1, MapRefines
  <2> QED  BY <2>1, <2>2
<1>3. CASE Unlock  BY <1>3, UnlockRefines
<1>4. CASE switch_page_directory  BY <1>4, Unseen DEF switch_page_directory
<1>5. CASE Evict  BY <1>5, Unseen DEF Evict
<1>6. CASE \E p \in Requests : MapIdentity(p)
  <2>1. PICK p \in Requests : MapIdentity(p)  BY <1>6
  <2>2. CASE MapFaults(pmm_alloc_block(avail), p)
    <3>1. Halt  BY <2>1, <2>2 DEF MapIdentity, MapOnto
    <3> QED  BY <3>1, Unseen DEF Halt
  <2>3. CASE ~MapFaults(pmm_alloc_block(avail), p)
    <3>1. Mapping(p, p, avail) /\ Caller(avail)
      BY <2>1, <2>3, MapIdentityMaps
    <3> QED  BY <3>1, MapRefines
  <2> QED  BY <2>2, <2>3
<1>7. CASE \E p \in Touched : Access(p)
  BY <1>7, Unseen DEF Access, Halt
<1>8. CASE UNCHANGED vars  BY <1>8, Unseen DEF vars
<1> QED  BY <1>1, <1>2, <1>3, <1>4, <1>5, <1>6, <1>7, <1>8 DEF Next

(* map_page and paging_init, seen through the walk of the CPU, are the two  *)
(* steps of AddressSpace; everything else stutters.                         *)
THEOREM ImplementsAddressSpace == Spec => AddressSpaceSpec
<1>1. Init => Space!Init
  <2> SUFFICES ASSUME Init PROVE Space!Init
    OBVIOUS
  <2>1. \A q \in Page : ~Promised(q)  BY DEF Init, Promised
  <2> QED  BY <2>1 DEF Translation, Space!Init
<1>2. IInv /\ IInv' /\ [Next]_vars => [Space!Next]_Translation
  BY NextRefines
<1> QED
  BY <1>1, <1>2, Invariance, PTL DEF Spec, AddressSpaceSpec, Space!Spec
================================================================================
