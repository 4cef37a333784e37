---------------------------------- MODULE Boot ----------------------------------
(***************************************************************************)
(* kernel_main from pmm_init to the |= 7 loop (kernel.c:68-145): the        *)
(* physical memory manager of PMM answers the allocations of paging_init,   *)
(* heap_init and map_page, which Paging takes for granted.  Interrupts are  *)
(* off, so a call of pmm_alloc_block is a step and so is what its caller    *)
(* does with the answers.                                                   *)
(***************************************************************************)
EXTENDS Integers, Sequences, FiniteSets

CONSTANTS BLOCK_SIZE, WordBits, AddrSpace, BootInfos, KernelImage,
          Slots, Entries, HeapPage, Leftovers, Requests, Touched

VARIABLES info, pc, total_blocks, used_blocks, pmm_bitmap, held, ret,
          phase, kernel_directory, table, dir, mapped, tlb, heap_frame, halted,
          got           \* frames the PMM gave to the call that is running

M == INSTANCE PMM WITH FreeArgs <- {}

pmmVars == <<info, pc, total_blocks, used_blocks, pmm_bitmap, held, ret>>
pagingVars == <<phase, kernel_directory, table, dir, mapped, tlb, heap_frame, halted>>
vars == <<pmmVars, pagingVars, got>>

(* The blocks that the map frees and the lock of block 0 leaves free.       *)
FreeAtBoot(i) ==
  LET blocks == (i.mem % AddrSpace) \div BLOCK_SIZE
      whole == 1 .. (blocks \div WordBits) * WordBits - 1
  IN  IF i.hasMap THEN {M!BlockOf(a) : a \in M!FreedByMap(i)} \cap whole ELSE {}

(* Frames are numbered like blocks, and 0xFFFFFFFF lies in the last one.    *)
FrameOf(address) == address \div BLOCK_SIZE
LastFrame == FrameOf(M!OOM)

(* What paging may still be given: also what a call in progress holds.      *)
avail == IF pc = "up"
           THEN (M!Tracked \ pmm_bitmap) \cup ({got[n] : n \in DOMAIN got} \ {LastFrame})
           ELSE FreeAtBoot(info)

P == INSTANCE Paging
  WITH Frames <- LastFrame, FreeFrames <- {FreeAtBoot(i) : i \in BootInfos}

(* What the parts rely on, with the page tables wide enough for all 32-bit  *)
(* addresses, as 1024 times 1024 pages of 4096 bytes are.                   *)
ASSUME BootAssumption ==
  /\ BLOCK_SIZE \in Nat \ {0, 1} /\ WordBits \in Nat \ {0}
  /\ AddrSpace \in Nat \ {0} /\ AddrSpace % BLOCK_SIZE = 0
  /\ Slots \in Nat \ {0, 1} /\ Entries \in Nat \ {0}
  /\ Slots * Entries = AddrSpace \div BLOCK_SIZE
  /\ BootInfos \subseteq M!BootInfo
  /\ KernelImage \subseteq M!Block
  /\ HeapPage \in P!Page /\ Requests \subseteq P!Page

Init == /\ M!Init
        /\ phase = "boot" /\ kernel_directory = P!NONE
        /\ \E junk \in Leftovers : table = [f \in P!Frame |-> junk]
        /\ dir = [s \in P!Slot |-> [present |-> FALSE, frame |-> 0]]
        /\ mapped = {} /\ tlb = {}
        /\ heap_frame = P!NONE /\ halted = FALSE
        /\ got = <<>>

(* kernel.c:74-85.                                                          *)
StartPmm == /\ M!pmm_init \/ M!parse_memory_map \/ M!pmm_lock_memory
            /\ UNCHANGED <<pagingVars, got>>

(* The running call still has to ask for a block.  paging_init stops at the *)
(* first refusal; heap_init checks nothing, and its map_page asks if it can *)
(* read the directory and finds no table there.                             *)
Asking == \/ phase = "boot" /\ (got = <<>> \/ (Len(got) = 1 /\ got[1] # LastFrame))
          \/ phase = "paging" /\ (got = <<>> \/ (Len(got) = 1 /\ P!MapAsks(HeapPage)))

Ask == /\ ~halted /\ Asking
       /\ M!pmm_alloc_block
       /\ got' = Append(got, FrameOf(ret'))
       /\ UNCHANGED pagingVars

Answer(n) == IF n <= Len(got) THEN got[n] ELSE LastFrame

paging_init == /\ pc = "up" /\ ~Asking
               /\ P!SetUp(Answer(1), Answer(2))
               /\ got' = <<>>
               /\ UNCHANGED pmmVars

heap_init == /\ ~Asking
             /\ P!MapHeap(Answer(1), Answer(2))
             /\ got' = <<>>
             /\ UNCHANGED pmmVars

(* map_page(p, p) of create_task and of the programs' pages.                *)
MapIdentity(p) ==
  /\ phase \in {"heap", "open"} /\ ~halted
  /\ IF P!MapAsks(p) THEN M!pmm_alloc_block ELSE UNCHANGED pmmVars
  /\ P!MapOnto(FrameOf(ret'), p)
  /\ UNCHANGED got

Unlock == UNCHANGED <<pmmVars, got>> /\ P!Unlock

(* The CPU and the scheduler, once the machine is up.                       *)
Use == /\ UNCHANGED <<pmmVars, got>>
       /\ phase = "open"
       /\ P!switch_page_directory \/ P!Evict \/ \E p \in Touched : P!Access(p)

kernel_main == StartPmm \/ Ask \/ paging_init \/ heap_init \/ Unlock

Next == kernel_main \/ (\E p \in Requests : MapIdentity(p)) \/ Use

(* kernel_main runs on its own with interrupts off: the CPU executes it.    *)
Spec == Init /\ [][Next]_vars /\ WF_vars(kernel_main)
--------------------------------------------------------------------------------
(* The answers paging.c and heap.c get from pmm.c are the ones Paging takes *)
(* for granted: the lowest free frames, each once, and 0xFFFFFFFF only when *)
(* none is left; nothing else the memory manager does disturbs paging.      *)
PagingSpec == P!Spec

(* linker.ld:65-69.  Nothing locks the kernel image, but four free blocks   *)
(* below it are enough for everything the boot asks the allocator for: the  *)
(* directory, two tables and the heap.                                      *)
BelowKernel(i) == {b \in FreeAtBoot(i) : \A k \in KernelImage : b < k}
BootKeepsKernel == Cardinality(BelowKernel(info)) >= 4 => M!KernelNeverHandedOut

(* The kernel comes up if and only if four blocks of the first 4 MB are     *)
(* free; otherwise it ends in a hlt loop (paging.c:23-28, 49-54, 127) and   *)
(* never goes on with a table or a heap it does not have.                   *)
(* (A fault of a program after that is no matter of the boot.)              *)
Enough(i) == Cardinality(FreeAtBoot(i) \cap P!Index) >= 4
ComesUp == IF Enough(info) THEN <>(phase = "open")
                           ELSE <>[](phase \in {"boot", "paging"} /\ halted)

(* Nothing the running kernel maps moves the heap away from the frame that  *)
(* heap_init put its headers in.                                            *)
HeapStays == P!HeapStays
================================================================================
