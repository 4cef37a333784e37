--------------------------------- MODULE Paging ---------------------------------
(***************************************************************************)
(* Virtual memory (src/paging.c) and the boot steps that use it: paging_init,*)
(* map_page, heap_init (heap.c:13-26), the map_page call of create_task      *)
(* (task.c:104-105), the loop of kernel_main that ORs 7 into every directory *)
(* entry (kernel.c:138-145) and switch_page_directory.  The CPU's            *)
(* translation cache is part of the model: map_page never flushes it.        *)
(* Pages and frames are numbered; user and write bits are left out.          *)
(***************************************************************************)
EXTENDS Integers, FiniteSets, FiniteSetsExt

CONSTANTS
  Slots,        \* entries of the directory: 1024
  Entries,      \* entries of a table, and frames of the identity window: 1024
  Frames,       \* number of frames that can be named
  HeapPage,     \* page of virtual address 0x1000000
  FreeFrames,   \* the sets of frames the PMM may have free after boot
  Leftovers,    \* what a frame may hold before anyone writes it, read as a table
  Requests,     \* pages that callers identity-map with map_page(p, p)
  Touched       \* pages the CPU accesses once paging is on

Slot == 0 .. Slots - 1
Index == 0 .. Entries - 1
Page == 0 .. Slots * Entries - 1
Frame == 0 .. Frames - 1
NONE == -1                          \* an entry whose present bit is 0
OOM == Slots * Entries - 1          \* 0xFFFFFFFF: in the last page, never a frame

ASSUME PagingAssumption ==
  /\ Slots \in Nat \ {0, 1} /\ Entries \in Nat \ {0}
  /\ Frames \in Nat \ {0} /\ Frames < Slots * Entries
  /\ HeapPage \in Page \ Index /\ HeapPage \in Frame
  /\ FreeFrames \subseteq SUBSET (Frame \ {0})
  /\ Leftovers \subseteq [Index -> Frame \cup {NONE}]
  /\ Requests \subseteq Page \cap Frame /\ Touched \subseteq Page

VARIABLES
  phase,        \* "boot", "paging", "heap", "open" (after the |= 7 loop)
  kernel_directory, \* frame of the directory, NONE before paging_init
  avail,        \* frames the PMM can still hand out
  table,        \* what each frame holds, read as a page table
  dir,          \* kernel_directory: present bit and frame of the table
  mapped,       \* pages somebody asked to be mapped
  tlb,          \* cached translations, <<page, frame>>
  heap_frame,   \* the frame heap_init wrote the first header to
  halted        \* the machine stopped for good in a hlt loop

vars == <<phase, kernel_directory, avail, table, dir, mapped, tlb, heap_frame, halted>>

Init == /\ phase = "boot"
        /\ kernel_directory = NONE
        /\ avail \in FreeFrames
        /\ \E junk \in Leftovers : table = [f \in Frame |-> junk]
        /\ dir = [s \in Slot |-> [present |-> FALSE, frame |-> 0]]
        /\ mapped = {} /\ tlb = {}
        /\ heap_frame = NONE
        /\ halted = FALSE

SlotOf(p) == p \div Entries
IndexOf(p) == p % Entries
Walk(d, t, p) == IF d[SlotOf(p)].present THEN t[d[SlotOf(p)].frame][IndexOf(p)] ELSE NONE

(* pmm_alloc_block: the lowest free frame, or 0xFFFFFFFF.                   *)
pmm_alloc_block(free) == IF free = {} THEN OOM ELSE Min(free)

(* The machine stops.                                                       *)
Halt == /\ halted' = TRUE
        /\ UNCHANGED <<phase, table, dir, mapped, tlb, heap_frame>>

(* Either frame is missing: both checks, and the first one only.            *)
RefusedLate(d, t) == d = OOM
Refused(d, t) == d = OOM \/ t = OOM

(***************************************************************************)
(* paging_init, given the PMM's answers: d for the directory and t for the  *)
(* table of the first 4 MB, each with its out-of-memory check.  Both are    *)
(* written before the MMU is on.                                            *)
(***************************************************************************)
SetUp(d, t) ==
  /\ phase = "boot" /\ ~halted
  /\ \/ /\ Refused(d, t)
        /\ kernel_directory' = IF d = OOM THEN NONE ELSE d
        /\ Halt
     \/ /\ ~Refused(d, t)
        /\ kernel_directory' = d
        /\ table' = [table EXCEPT ![t] = [i \in Index |-> i]]
        /\ dir' = [s \in Slot |-> [present |-> s = 0, frame |-> IF s = 0 THEN t ELSE 0]]
        /\ mapped' = Index
        /\ phase' = "paging"
        /\ UNCHANGED <<tlb, heap_frame, halted>>

paging_init ==
  LET d == pmm_alloc_block(avail)
      t == pmm_alloc_block(avail \ {d})
  IN  SetUp(d, t) /\ avail' = avail \ {d, t}

(***************************************************************************)
(* map_page(p, f).  A missing table is taken from the PMM, whose answer t   *)
(* is not checked.  Directory and tables are written at their physical      *)
(* addresses, so the CPU faults on one that is not mapped onto itself.      *)
(***************************************************************************)
Reachable(f) == Walk(dir, table, f) = f
(* A new table for every page, whatever the directory holds.                *)
NeedsTableAlways(p) == TRUE
NeedsTable(p) == ~dir[SlotOf(p)].present
TableFor(t, p) == IF NeedsTable(p) THEN t ELSE dir[SlotOf(p)].frame
MapAsks(p) == Reachable(kernel_directory) /\ NeedsTable(p)
MapFaults(t, p) == ~Reachable(kernel_directory) \/ ~Reachable(TableFor(t, p))

(* What a new table holds: map_page clears it (or forgets to).              *)
Uncleared(t) == table[t]
Fresh(t) == [i \in Index |-> NONE]

map_page(t, p, f) ==
  LET s == SlotOf(p)
      entries == IF NeedsTable(p) THEN Fresh(t) ELSE table[TableFor(t, p)]
  IN  /\ dir' = [dir EXCEPT ![s] = [present |-> TRUE, frame |-> TableFor(t, p)]]
      /\ table' = [table EXCEPT ![TableFor(t, p)] = [entries EXCEPT ![IndexOf(p)] = f]]
      /\ mapped' = mapped \cup {p}

(* What a map_page(p, ...) leaves of the free frames.                       *)
Left(free, p) == IF MapAsks(p) THEN free \ {pmm_alloc_block(free)} ELSE free

(***************************************************************************)
(* heap_init, given the PMM's answers: the block is mapped at the heap page,*)
(* then the first header is written there.                                  *)
(***************************************************************************)
HeapOntoItself(block) == HeapPage          \* the page mapped onto itself
HeapTarget(block) == block

MapHeap(block, t) ==
  /\ phase = "paging" /\ ~halted
  /\ UNCHANGED kernel_directory
  /\ \/ MapFaults(t, HeapPage) /\ Halt
     \/ /\ ~MapFaults(t, HeapPage)
        /\ map_page(t, HeapPage, HeapTarget(block))
        /\ heap_frame' = block
        /\ tlb' = tlb \cup {<<HeapPage, HeapTarget(block)>>}
        /\ phase' = "heap"
        /\ UNCHANGED halted

(* What taking a block leaves of the free frames (or fails to).             *)
Unmarked(free, block) == free
Without(free, block) == free \ {block}
heap_init ==
  LET block == pmm_alloc_block(avail)
      rest == Without(avail, block)
  IN  MapHeap(block, pmm_alloc_block(rest)) /\ avail' = Left(rest, HeapPage)

(* map_page(p, p), the way create_task maps the page of a user stack and    *)
(* kernel_main the pages of the programs.                                   *)
MapOnto(t, p) ==
  /\ phase \in {"heap", "open"} /\ ~halted
  /\ UNCHANGED kernel_directory
  /\ \/ MapFaults(t, p) /\ Halt
     \/ /\ ~MapFaults(t, p)
        /\ map_page(t, p, p)
        /\ UNCHANGED <<phase, tlb, heap_frame, halted>>

MapIdentity(p) == MapOnto(pmm_alloc_block(avail), p) /\ avail' = Left(avail, p)

(* kernel.c:138-145: entries[i] |= 7 for all 1024 entries, then CR3 again.  *)
Unlock ==
  /\ phase = "heap" /\ ~halted
  /\ dir' = [s \in Slot |-> [dir[s] EXCEPT !.present = TRUE]]
  /\ tlb' = {}
  /\ phase' = "open"
  /\ UNCHANGED <<kernel_directory, avail, table, mapped, heap_frame, halted>>

(* Every switch of tasks reloads CR3 and so empties the cache.              *)
switch_page_directory ==
  /\ phase = "open" /\ ~halted
  /\ tlb' = {}
  /\ UNCHANGED <<phase, kernel_directory, avail, table, dir, mapped, heap_frame, halted>>

(* The CPU uses a page: a cached translation wins; a walk is cached; a page *)
(* without translation ends in page_fault_handler, which never returns.     *)
Access(p) ==
  LET f == Walk(dir, table, p)
  IN  /\ phase # "boot" /\ ~halted
      /\ \A e \in tlb : e[1] # p
      /\ \/ f = NONE /\ Halt /\ UNCHANGED <<kernel_directory, avail>>
         \/ /\ f # NONE
            /\ tlb' = tlb \cup {<<p, f>>}
            /\ UNCHANGED <<phase, kernel_directory, avail, table, dir, mapped, heap_frame, halted>>

(* The CPU may drop a cached translation whenever it likes.                 *)
Evict == /\ \E e \in tlb : tlb' = tlb \ {e}
         /\ UNCHANGED <<phase, kernel_directory, avail, table, dir, mapped, heap_frame, halted>>

Next == \/ paging_init \/ heap_init \/ Unlock \/ switch_page_directory \/ Evict
        \/ \E p \in Requests : MapIdentity(p)
        \/ \E p \in Touched : Access(p)

Spec == Init /\ [][Next]_vars
--------------------------------------------------------------------------------
Up == phase # "boot" /\ ~halted
HeapUp == phase \in {"heap", "open"} /\ ~halted

(* What the CPU may use for a page: the walk, or anything it has cached.    *)
Translations(p) == {Walk(dir, table, p)} \cup {e[2] : e \in {c \in tlb : c[1] = p}}

(* Type invariant.                                                          *)
TypeOK ==
  /\ phase \in {"boot", "paging", "heap", "open"}
  /\ kernel_directory \in Frame \cup {NONE}
  /\ avail \subseteq Frame
  /\ table \in [Frame -> [Index -> Frame \cup {NONE}]]
  /\ dir \in [Slot -> [present : BOOLEAN, frame : Frame]]
  /\ mapped \subseteq Page
  /\ tlb \subseteq Page \X Frame
  /\ heap_frame \in Frame \cup {NONE}
  /\ halted \in BOOLEAN

(* paging.c:43-45: the first 4 MB stay mapped onto themselves, whatever is  *)
(* mapped later, so the kernel, its tables and map_page itself keep working.*)
WindowIsIdentity == Up => \A p \in Index : Translations(p) = {p}

(* Nothing built from an unchecked 0xFFFFFFFF is ever used, and nothing in  *)
(* use can be handed out again: once boot is past heap_init the heap lies   *)
(* in a real frame; before the |= 7 loop tables, directory and heap lie in  *)
(* frames of their own, none of which is still free in the PMM.             *)
TablesOwned ==
  /\ HeapUp => heap_frame \in Frame \ avail
  /\ Up /\ phase # "open" =>
       LET used == {s \in Slot : dir[s].present}
           others == avail \cup {heap_frame, kernel_directory}
       IN  /\ \A s, u \in used : s # u => dir[s].frame # dir[u].frame
           /\ \A s \in used : dir[s].frame \notin others
           /\ kernel_directory \notin avail \cup {heap_frame}

(* The heap page keeps leading to the frame that holds the headers and PCBs,*)
(* through the tables and through the cache alike.                          *)
HeapStays == HeapUp => Translations(HeapPage) = {heap_frame}

(* paging.c:134-166 as a promise: until the |= 7 loop a page has a          *)
(* translation only if somebody mapped it, and every mapping changes exactly*)
(* the page it names.  After the loop (kernel.c:138-145) this is kept for   *)
(* the mapped pages of the tables that map_page made; the directory entries *)
(* that were empty then share frame 0 as one table, and are left out.       *)
HasOwnTable(p) == dir[SlotOf(p)].frame # 0
Promised(p) == CASE phase = "boot" -> FALSE
                 [] phase = "open" -> p \in mapped /\ HasOwnTable(p)
                 [] OTHER -> TRUE
Translation == [p \in Page |-> IF Promised(p) THEN Walk(dir, table, p) ELSE NONE]
Space == INSTANCE AddressSpace
  WITH Pages <- Page, Frames <- Frame, Window <- Index, Nowhere <- NONE,
       map <- Translation
AddressSpaceSpec == Space!Spec
--------------------------------------------------------------------------------
(* Statements of the sources that the code does not keep (see the README).  *)

(* paging.c:34 in every phase: an empty directory entry stays empty.        *)
EmptyStaysEmpty == Up => {p \in Page : Walk(dir, table, p) # NONE} \subseteq mapped

(* paging.c:171: "our kernel heap is currently identity-mapped".            *)
HeapIsIdentity == HeapUp => Walk(dir, table, HeapPage) = HeapPage
================================================================================
