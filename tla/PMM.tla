---------------------------------- MODULE PMM ----------------------------------
(***************************************************************************)
(* The physical memory manager (src/pmm.c), the reader of the Multiboot     *)
(* memory map (src/memory.c) and the boot steps of kernel_main that drive   *)
(* them: pmm_init, parse_memory_map, pmm_lock_memory(0).  Interrupts are    *)
(* off during all of it, so each call is one step.                          *)
(***************************************************************************)
EXTENDS Integers, Sequences, FiniteSets, FiniteSetsExt

CONSTANTS
  BLOCK_SIZE,   \* bytes of a block: 4096
  WordBits,     \* blocks one word of the bitmap tracks: 32
  AddrSpace,    \* number of 32-bit addresses: 2^32
  BootInfos,    \* the multiboot_info structures the loader may pass
  KernelImage,  \* blocks of kernel.c .. _kernel_end and of the bitmap after it
  FreeArgs      \* addresses a caller may pass to pmm_free_memory

AVAILABLE == 1                          \* memory.h: type of usable RAM
OOM == AddrSpace - 1                    \* 0xFFFFFFFF
Block == 0 .. (AddrSpace \div BLOCK_SIZE) - 1

(* The entries of the memory map in the order they lie in memory; size does *)
(* not count the 4 bytes of the size field itself.                          *)
MapEntry == [size : Nat, addr : Nat, len : Nat, type : Nat]
BootInfo == [hasMap : BOOLEAN, mem : Nat, mmap : Seq(MapEntry)]
MapEntries(i) == {i.mmap[k] : k \in DOMAIN i.mmap}

ASSUME SizeAssumption ==
  /\ BLOCK_SIZE \in Nat \ {0, 1}
  /\ WordBits \in Nat \ {0}
  /\ AddrSpace \in Nat \ {0}
  /\ AddrSpace % BLOCK_SIZE = 0
ASSUME InputAssumption ==
  /\ BootInfos \subseteq BootInfo
  /\ FreeArgs \subseteq 0 .. AddrSpace - 1

VARIABLES
  info,          \* what the loader passed in EBX
  pc,            \* how far kernel_main got: "pmm_init", "parse", "lock", "up"
  total_blocks,
  used_blocks,
  pmm_bitmap,    \* the blocks whose bit is 1
  held,          \* for each block, how many callers were given it
  ret            \* last result of pmm_alloc_block

vars == <<info, pc, total_blocks, used_blocks, pmm_bitmap, held, ret>>

(* Blocks that pmm_init wrote and pmm_first_free scans: whole words only. *)
Tracked == 0 .. (total_blocks \div WordBits) * WordBits - 1
BlockOf(a) == a \div BLOCK_SIZE

Init == /\ info \in BootInfos
        /\ pc = "pmm_init"
        /\ total_blocks = 0 /\ used_blocks = 0
        /\ pmm_bitmap = {}
        /\ held = [b \in Block |-> 0]
        /\ ret = OOM

(***************************************************************************)
(* pmm_init.  The RAM size is a 32-bit product (kernel.c:71).  The bits     *)
(* past the last whole word keep whatever the memory held; those of blocks  *)
(* past the end of RAM, which nothing reads, are left out.                  *)
(***************************************************************************)
pmm_init ==
  /\ pc = "pmm_init"
  /\ total_blocks' = (info.mem % AddrSpace) \div BLOCK_SIZE
  /\ used_blocks' = total_blocks'
  /\ \E garbage \in SUBSET {b \in Block \ Tracked' : b < total_blocks'} :
        pmm_bitmap' = Tracked' \cup garbage
  /\ pc' = "parse"
  /\ UNCHANGED <<info, held, ret>>

(* Without the early return for a block that is already free.               *)
ClearedAgain(addresses) == {b \in {BlockOf(a) : a \in addresses} : b < total_blocks}

(* The bits a series of pmm_free_memory calls clears: both early returns,   *)
(* for blocks that do not exist and for blocks already free, are guards.    *)
Cleared(addresses) ==
  {b \in {BlockOf(a) : a \in addresses} : b < total_blocks /\ b \in pmm_bitmap}

pmm_free_memory(addresses) ==
  /\ pmm_bitmap' = pmm_bitmap \ Cleared(addresses)
  /\ used_blocks' = used_blocks - Cardinality(Cleared(addresses))

(***************************************************************************)
(* parse_memory_map moves a finger over the bytes of the map, from each     *)
(* entry by its size to the next, until it has crossed the whole length.    *)
(* Between two entries it would read garbage, say that all RAM is free.     *)
(***************************************************************************)
StepFixed(e) == 24                      \* mmap++: the size of the C struct
StepOver(e) == e.size + 4

(* Where each entry starts, in bytes from the first, and where the last ends.*)
Starts(i) ==
  LET at[k \in 1 .. Len(i.mmap) + 1] ==
        IF k = 1 THEN 0 ELSE at[k - 1] + i.mmap[k - 1].size + 4
  IN  at

EntryAt(i, finger) ==
  LET here == {k \in 1 .. Len(i.mmap) : Starts(i)[k] = finger}
  IN  IF here # {} THEN i.mmap[CHOOSE k \in here : TRUE]
                   ELSE [size |-> 20, addr |-> 0, len |-> AddrSpace, type |-> AVAILABLE]

(* Where the finger stands before each turn of the loop.                    *)
Fingers(i) ==
  LET at[k \in 1 .. Len(i.mmap)] ==
        IF k = 1 THEN 0 ELSE at[k - 1] + StepOver(EntryAt(i, at[k - 1]))
  IN  at

EntriesRead(i) ==
  LET n == Len(i.mmap)
      turns == {k \in 1 .. n : Fingers(i)[k] < Starts(i)[n + 1]}
  IN  {EntryAt(i, Fingers(i)[k]) : k \in turns}

(* Addresses the parser frees: one per block step of each AVAILABLE entry,  *)
(* cut to 32 bits by the cast of memory.c:58.                               *)
FreedByMap(i) ==
  UNION {{a % AddrSpace : a \in {x \in e.addr .. e.addr + e.len - 1 :
                                   (x - e.addr) % BLOCK_SIZE = 0}}
         : e \in {m \in EntriesRead(i) : m.type = AVAILABLE}}

parse_memory_map ==
  /\ pc = "parse"
  /\ pmm_free_memory(IF info.hasMap THEN FreedByMap(info) ELSE {})
  /\ pc' = "lock"
  /\ UNCHANGED <<info, total_blocks, held, ret>>

(* The lock that counts and forgets to set the bit.                         *)
LockUnset ==
  /\ pc = "lock"
  /\ used_blocks' = used_blocks + 1
  /\ pc' = "up"
  /\ UNCHANGED <<info, total_blocks, pmm_bitmap, held, ret>>

(* kernel_main locks block 0; the counter moves whatever the bit was.       *)
pmm_lock_memory ==
  /\ pc = "lock"
  /\ pmm_bitmap' = pmm_bitmap \cup {BlockOf(0)}
  /\ used_blocks' = used_blocks + 1
  /\ pc' = "up"
  /\ UNCHANGED <<info, total_blocks, held, ret>>

(* The scan with its test of the bit turned round, and the scan that stops  *)
(* one word early.                                                          *)
FirstUsed == LET set == Tracked \cap pmm_bitmap
             IN  IF set = {} THEN OOM ELSE Min(set)
FirstButLastWord ==
  LET clear == (0 .. (total_blocks \div WordBits - 1) * WordBits - 1) \ pmm_bitmap
  IN  IF clear = {} THEN OOM ELSE Min(clear)

(* The lowest clear bit of the scanned words.                               *)
pmm_first_free ==
  LET clear == Tracked \ pmm_bitmap
  IN  IF clear = {} THEN OOM ELSE Min(clear)

pmm_alloc_block ==
  LET index == pmm_first_free
      Exhausted == /\ index = OOM
                   /\ ret' = OOM
                   /\ UNCHANGED <<pmm_bitmap, used_blocks, held>>
      HandOut   == /\ index # OOM
                   /\ pmm_bitmap' = pmm_bitmap \cup {index}
                   /\ used_blocks' = used_blocks + 1
                   /\ held' = [held EXCEPT ![index] = @ + 1]
                   /\ ret' = index * BLOCK_SIZE
  IN  /\ pc = "up"
      /\ Exhausted \/ HandOut
      /\ UNCHANGED <<info, pc, total_blocks>>

(* A caller gives back a block it was handed, or repeats itself, or names   *)
(* an address that is free or does not exist.  Nobody frees what another    *)
(* part of the system locked.                                               *)
CallerMayFree(a) == BlockOf(a) \in pmm_bitmap /\ BlockOf(a) < total_blocks
                      => held[BlockOf(a)] > 0

FreeBlock(a) ==
  /\ pc = "up"
  /\ CallerMayFree(a)
  /\ pmm_free_memory({a})
  /\ held' = [b \in Block |-> IF b \in Cleared({a}) THEN held[b] - 1 ELSE held[b]]
  /\ UNCHANGED <<info, pc, total_blocks, ret>>

Next == \/ pmm_init \/ parse_memory_map \/ pmm_lock_memory
        \/ pmm_alloc_block
        \/ \E a \in FreeArgs : FreeBlock(a)

Spec == Init /\ [][Next]_vars
--------------------------------------------------------------------------------
Out == {b \in Block : held[b] > 0}
InUse == {b \in pmm_bitmap : b < total_blocks}

(* Type invariant.  The counter never wraps below 0 and exceeds the number  *)
(* of blocks by at most the one unconditional increment of the lock.        *)
TypeOK ==
  /\ info \in BootInfos
  /\ pc \in {"pmm_init", "parse", "lock", "up"}
  /\ total_blocks \in 0 .. (AddrSpace \div BLOCK_SIZE)
  /\ used_blocks \in 0 .. total_blocks + 1
  /\ pmm_bitmap \subseteq Block
  /\ held \in [Block -> Nat]
  /\ ret \in {b * BLOCK_SIZE : b \in Block} \cup {OOM}

(* A block is never given to a second caller before the first one freed it  *)
(* (pmm.c:97 marks the block before the address is returned).               *)
ExclusiveOwnership == \A b \in Block : held[b] <= 1

(* kernel.c:80-85: "so pmm_alloc_block() never returns a NULL pointer".     *)
NullNeverReturned == ret # 0 /\ held[0] = 0

(* The counter never reports fewer blocks in use than there are, whatever   *)
(* map the loader gave, so used_blocks-- cannot underflow (pmm.c:55-66).    *)
UsedNeverUnderstated == pc # "pmm_init" => Cardinality(InUse) <= used_blocks

(* The boards on which the counter can be exact: a map is present, RAM is a *)
(* whole number of bitmap words, and block 0 was free before the lock.      *)
Regular(i) ==
  /\ i.hasMap
  /\ (i.mem % AddrSpace) \div BLOCK_SIZE >= WordBits
  /\ ((i.mem % AddrSpace) \div BLOCK_SIZE) % WordBits = 0
  /\ \E a \in FreedByMap(i) : BlockOf(a) = 0

(* pmm.c:4: used_blocks is the "number of blocks that are currently in use",*)
(* on those boards and in every state of the running system.                *)
UsedExact == Regular(info) /\ pc = "up" => used_blocks = Cardinality(InUse)

(* What the map says of a block: all its bytes are AVAILABLE; ...           *)
Ram(i) == {e \in MapEntries(i) : e.type = AVAILABLE}
Bytes(b) == b * BLOCK_SIZE .. (b + 1) * BLOCK_SIZE - 1
EntryBytes(e) == e.addr .. e.addr + e.len - 1

Backed(i, b) == \A x \in Bytes(b) : \E e \in Ram(i) : x \in EntryBytes(e)

(* ... an AVAILABLE entry begins or ends in its middle, as 0x0 .. 0x9FC00   *)
(* (pmm.c:110) does in block 0x9F; ...                                      *)
Ragged(i, b) ==
  \E e \in Ram(i) : \E edge \in {e.addr, e.addr + e.len} :
     e.len > 0 /\ edge \in Bytes(b) /\ edge # b * BLOCK_SIZE

(* ... RAM at or above the 32-bit limit has its number in the low 32 bits.  *)
Wrapped(i, b) ==
  \E e \in Ram(i) : \E x \in EntryBytes(e) : x >= AddrSpace /\ BlockOf(x % AddrSpace) = b

(* Whatever the loader's map and the sizes of its entries, only blocks      *)
(* below the end of RAM are handed out, and each is AVAILABLE to its last   *)
(* byte but for the two kinds memory.c:57-58 is wrong about: the block an   *)
(* entry's edge lies in, and a block with the low bits of high RAM.  Where  *)
(* 0x9FC00 is the only such edge and nothing lies above 4 GB, that leaves   *)
(* block 0x9F alone.                                                        *)
OnlyAvailableHandedOut ==
  \A b \in Out : b < total_blocks /\ (Backed(info, b) \/ Ragged(info, b) \/ Wrapped(info, b))

(* The manager implements the abstract pool of BlockPool.                   *)
Pool == INSTANCE BlockPool
  WITH Blocks <- {b * BLOCK_SIZE : b \in Block \ {0}}, NoBlock <- OOM,
       free <- {b * BLOCK_SIZE :
                  b \in IF pc = "up" THEN Tracked \ pmm_bitmap ELSE {}},
       out <- {b * BLOCK_SIZE : b \in Out}, ret <- ret
PoolSpec == Pool!Spec
--------------------------------------------------------------------------------
(* Statements of the sources that the code does not keep (see the README).  *)

(* linker.ld:65-69 and pmm.c:16: the bitmap sits past _kernel_end "so we    *)
(* don't accidentally overwrite our own operating system": no caller of the *)
(* allocator is given a block of the kernel image or of the bitmap.         *)
KernelNeverHandedOut == Out \cap KernelImage = {}

(* pmm.c:4, without restriction to regular boards.                          *)
UsedAlwaysExact == pc = "up" => used_blocks = Cardinality(InUse)

(* pmm.c:43, "a block of available RAM": a block that is handed out holds   *)
(* nothing but AVAILABLE memory.                                            *)
WholeBlocksAvailable == \A b \in Out : Backed(info, b)

(* memory.h:17-20: addresses above 4 GB are kept in 64 bits so that they    *)
(* are not truncated: a block that is handed out holds some AVAILABLE byte. *)
NoTruncatedAddress ==
  \A b \in Out : \E x \in Bytes(b) : \E e \in Ram(info) : x \in EntryBytes(e)
================================================================================
