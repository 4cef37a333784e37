------------------------------- MODULE BootProofs -------------------------------
(***************************************************************************)
(* Theorems about Boot, the physical memory manager and paging together, for *)
(* every board, block size and address space: paging gets from pmm.c the     *)
(* answers it takes for granted, and the kernel image is not among them.     *)
(***************************************************************************)
EXTENDS Boot, FiniteSetTheorems, SequenceTheorems, NatLemmas, TLAPS

(* The blocks that can be handed out, and the answer to a request.          *)
Clear == M!Tracked \ pmm_bitmap
First(free) == P!pmm_alloc_block(free)

(* What the memory map frees, whether or not a bit tracks it.               *)
FreedBlocks(i) == IF i.hasMap THEN {M!BlockOf(a) : a \in M!FreedByMap(i)} ELSE {}
--------------------------------------------------------------------------------
(* The refusal, 0xFFFFFFFF, is an address in the last block, which paging    *)
(* takes for the last page.                                                 *)
LEMMA LastBlock ==
  /\ LastFrame \in Nat /\ LastFrame = (AddrSpace \div BLOCK_SIZE) - 1
  /\ P!OOM = LastFrame /\ P!Frame = 0 .. LastFrame - 1 /\ M!Block = 0 .. LastFrame
  /\ LastFrame < AddrSpace
<1> DEFINE n == AddrSpace \div BLOCK_SIZE
           d == BLOCK_SIZE
<1>1. /\ d \in Nat \ {0} /\ d > 1 /\ AddrSpace \in Nat \ {0}
      /\ AddrSpace % d = 0 /\ n = Slots * Entries
  BY BootAssumption
<1>2. AddrSpace = n * d /\ n \in Nat  BY <1>1, Multiple, DivNat
<1>3. n # 0
  <2>1. n = 0 => n * d = 0  BY <1>1 DEF d
  <2> QED  BY <2>1, <1>1, <1>2
<1> HIDE DEF n, d
<1>4. (AddrSpace - 1) \div d < n  BY <1>1, <1>2, DivBelow
<1>5. (AddrSpace - 1) \div d >= n - 1
  <2>1. n - 1 \in Nat /\ AddrSpace - 1 \in Nat  BY <1>1, <1>2, <1>3
  <2>2. (n - 1) * d = n * d - d  BY <1>1, <1>2
  <2>3. (n - 1) * d \in Nat /\ (n - 1) * d <= AddrSpace - 1  BY <1>1, <1>2, <2>1, <2>2
  <2>4. ((n - 1) * d) \div d = n - 1  BY <1>1, <2>1, ProductDiv
  <2> QED  BY <1>1, <2>1, <2>3, <2>4, DivMonotone
<1>6. (AddrSpace - 1) \div d \in Nat  BY <1>1, DivNat
<1>7. (AddrSpace - 1) \div d = n - 1  BY <1>2, <1>4, <1>5, <1>6
<1>8. LastFrame = n - 1  BY <1>7 DEF LastFrame, FrameOf, M!OOM, d
<1>9. n <= n * d  BY <1>1, <1>2
<1> QED  BY <1>1, <1>2, <1>3, <1>8, <1>9 DEF n, P!OOM, P!Frame, M!Block

(* What a board has free are frames other than the first and the last.      *)
LEMMA BoardFrames ==
  ASSUME NEW i \in BootInfos
  PROVE  /\ (i.mem % AddrSpace) \div BLOCK_SIZE \in 0 .. LastFrame
         /\ FreeAtBoot(i) \subseteq 1 .. LastFrame - 1
<1> DEFINE blocks == (i.mem % AddrSpace) \div BLOCK_SIZE
<1>1. i.mem \in Nat  BY BootAssumption DEF M!BootInfo
<1>2. i.mem % AddrSpace \in 0 .. AddrSpace - 1  BY <1>1, BootAssumption, ModNat
<1>3. blocks <= (AddrSpace - 1) \div BLOCK_SIZE /\ blocks \in Nat
  BY <1>2, BootAssumption, DivMonotone, DivNat
<1>4. blocks \in 0 .. LastFrame  BY <1>3, LastBlock DEF LastFrame, FrameOf, M!OOM
<1> HIDE DEF blocks
<1>5. (blocks \div WordBits) * WordBits <= blocks  BY <1>3, BootAssumption, DivMulBelow
<1>6. blocks \div WordBits \in Nat  BY <1>3, BootAssumption, DivNat
<1>7. (blocks \div WordBits) * WordBits \in Nat  BY <1>6, BootAssumption
<1>8. 1 .. (blocks \div WordBits) * WordBits - 1 \subseteq 1 .. LastFrame - 1
  BY <1>4, <1>5, <1>7, LastBlock
<1>9. FreeAtBoot(i) \subseteq 1 .. (blocks \div WordBits) * WordBits - 1
  BY DEF FreeAtBoot, blocks
<1> QED  BY <1>4, <1>8, <1>9 DEF blocks

(* First fit: the lowest of the free frames, or the refusal.                *)
LEMMA FirstFit ==
  ASSUME NEW S \in SUBSET (1 .. LastFrame - 1)
  PROVE  /\ S = {} => First(S) = LastFrame
         /\ S # {} => /\ First(S) \in S /\ First(S) # LastFrame
                      /\ \A y \in S : First(S) <= y
         /\ First(S) \in 0 .. LastFrame
<1>1. S \subseteq Nat  BY LastBlock
<1>2. S = {} => First(S) = LastFrame  BY LastBlock DEF First, P!pmm_alloc_block
<1>3. ASSUME S # {} PROVE First(S) \in S /\ \A y \in S : First(S) <= y
  <2>1. \E x \in S : \A y \in S : x <= y  BY <1>1, <1>3, LeastElement
  <2> QED  BY <2>1, <1>3 DEF First, P!pmm_alloc_block, P!Min
<1>4. S # {} => First(S) \in 1 .. LastFrame - 1  BY <1>3
<1>5. First(S) \in 0 .. LastFrame
  <2>1. CASE S = {}  BY <2>1, <1>2, LastBlock
  <2>2. CASE S # {}  BY <2>2, <1>4, LastBlock
  <2> QED  BY <2>1, <2>2
<1>6. S # {} => First(S) # LastFrame  BY <1>4, LastBlock
<1> QED  BY <1>2, <1>3, <1>5, <1>6
--------------------------------------------------------------------------------
(***************************************************************************)
(* The invariant behind the refinement.  Memory says which bits are clear at *)
(* each point of boot; Order when a call of the allocator can be under way; *)
(* Answers what it has been told: the lowest free frame, then the next one, *)
(* and neither is free any more.                                            *)
(***************************************************************************)
Memory ==
  /\ info \in BootInfos
  /\ pc \in {"pmm_init", "parse", "lock", "up"}
  /\ pc # "pmm_init" => total_blocks = (info.mem % AddrSpace) \div BLOCK_SIZE
  /\ pc = "parse" => M!Tracked \subseteq pmm_bitmap
  /\ pc = "lock" => Clear = FreedBlocks(info) \cap M!Tracked
  /\ pc = "up" => Clear \subseteq FreeAtBoot(info)

Given == (1 .. LastFrame - 1) \cup {LastFrame}

Order ==
  /\ phase \in {"boot", "paging", "heap", "open"}
  /\ pc # "up" => got = <<>> /\ phase = "boot"
  /\ phase \in {"heap", "open"} => got = <<>>
  /\ got \in Seq(Given) /\ Len(got) <= 2

Answers ==
  /\ \A n \in 1 .. Len(got) : got[n] \notin Clear
  /\ Len(got) >= 1 => got[1] = First(avail)
  /\ Len(got) = 2 => got[2] = First(avail \ {got[1]})
  /\ Len(got) = 2 /\ phase = "paging" => P!MapAsks(HeapPage)

BInv == Memory /\ Order /\ Answers
--------------------------------------------------------------------------------
(* The words of the bitmap cover blocks that exist.                         *)
LEMMA Words ==
  ASSUME Memory, pc # "pmm_init"
  PROVE  /\ total_blocks \in 0 .. LastFrame
         /\ M!Tracked \subseteq 0 .. total_blocks - 1
         /\ FreeAtBoot(info) = (FreedBlocks(info) \cap M!Tracked) \ {0}
<1>1. total_blocks \in 0 .. LastFrame /\ total_blocks \in Nat
  BY BoardFrames, LastBlock DEF Memory
<1>2. (total_blocks \div WordBits) * WordBits <= total_blocks
  BY <1>1, BootAssumption, DivMulBelow
<1>3. total_blocks \div WordBits \in Nat  BY <1>1, BootAssumption, DivNat
<1>4. (total_blocks \div WordBits) * WordBits \in Nat  BY <1>3, BootAssumption
<1>5. M!Tracked = 0 .. (total_blocks \div WordBits) * WordBits - 1  BY DEF M!Tracked
<1>6. FreeAtBoot(info) = FreedBlocks(info)
                           \cap (1 .. (total_blocks \div WordBits) * WordBits - 1)
  BY DEF FreeAtBoot, FreedBlocks, Memory
<1> DEFINE w == (total_blocks \div WordBits) * WordBits
<1>7. 1 .. w - 1 = (0 .. w - 1) \ {0}  BY <1>4
<1> HIDE DEF w
<1> QED  BY <1>1, <1>2, <1>4, <1>5, <1>6, <1>7 DEF w

(* A request takes the lowest clear bit and changes nothing else.           *)
LEMMA AllocTakes ==
  ASSUME Memory, M!pmm_alloc_block
  PROVE  /\ pc = "up" /\ Clear \subseteq 1 .. LastFrame - 1
         /\ FrameOf(ret') = First(Clear)
         /\ Clear' = Clear \ {First(Clear)}
         /\ UNCHANGED <<info, pc, total_blocks>>
<1>1. pc = "up" /\ UNCHANGED <<info, pc, total_blocks>>  BY DEF M!pmm_alloc_block
<1>2. Clear \subseteq 1 .. LastFrame - 1  BY <1>1, BoardFrames DEF Memory
<1>3. M!Tracked' = M!Tracked  BY <1>1 DEF M!Tracked
<1>4. CASE Clear = {}
  <2>1. M!pmm_first_free = M!OOM  BY <1>4 DEF M!pmm_first_free, Clear
  <2>2. ret' = M!OOM /\ pmm_bitmap' = pmm_bitmap  BY <2>1 DEF M!pmm_alloc_block
  <2>3. FrameOf(ret') = LastFrame  BY <2>2 DEF LastFrame
  <2>4. First(Clear) = LastFrame  BY <1>2, <1>4, FirstFit
  <2> QED  BY <1>1, <1>2, <1>3, <1>4, <2>2, <2>3, <2>4 DEF Clear
<1>5. CASE Clear # {}
  <2>1. M!pmm_first_free = First(Clear)
    BY <1>5 DEF M!pmm_first_free, Clear, First, P!pmm_alloc_block, M!Min, P!Min
  <2>2. First(Clear) \in Nat /\ First(Clear) < LastFrame  BY <1>2, <1>5, FirstFit, LastBlock
  <2>3. First(Clear) # M!OOM  BY <2>2, LastBlock, BootAssumption DEF M!OOM
  <2>4. ret' = First(Clear) * BLOCK_SIZE /\ pmm_bitmap' = pmm_bitmap \cup {First(Clear)}
    BY <2>1, <2>3 DEF M!pmm_alloc_block
  <2>5. FrameOf(ret') = First(Clear)
    BY <2>2, <2>4, ProductDiv, BootAssumption DEF FrameOf
  <2> QED  BY <1>1, <1>2, <1>3, <2>4, <2>5 DEF Clear
<1> QED  BY <1>4, <1>5
--------------------------------------------------------------------------------
LEMMA InitInv == Init => BInv
<1> SUFFICES ASSUME Init PROVE BInv
  OBVIOUS
<1>1. info \in BootInfos /\ pc = "pmm_init" /\ got = <<>> /\ phase = "boot"
  BY DEF Init, M!Init
<1>2. got \in Seq(Given) /\ Len(got) = 0  BY <1>1
<1> QED  BY <1>1, <1>2 DEF BInv, Memory, Order, Answers

(* Before boot ends nobody asks, and the free frames paging is told of are  *)
(* those of the board; at the lock of block 0 they are what is clear.       *)
LEMMA StartSteps ==
  ASSUME BInv, StartPmm
  PROVE  /\ Memory' /\ pc # "up" /\ got' = got /\ UNCHANGED <<info, pagingVars>>
         /\ pc' = "up" => Clear' = FreeAtBoot(info)
<1>1. UNCHANGED <<pagingVars, got>>  BY DEF StartPmm
<1>2. CASE M!pmm_init
  <2>1. /\ info' = info /\ pc = "pmm_init" /\ pc' = "parse"
        /\ total_blocks' = (info.mem % AddrSpace) \div BLOCK_SIZE
        /\ M!Tracked' \subseteq pmm_bitmap'
    BY <1>2 DEF M!pmm_init
  <2> QED  BY <1>1, <2>1 DEF BInv, Memory
<1>3. CASE M!parse_memory_map
  <2>1. /\ UNCHANGED <<info, total_blocks>> /\ pc = "parse" /\ pc' = "lock"
        /\ pmm_bitmap' = pmm_bitmap
              \ M!Cleared(IF info.hasMap THEN M!FreedByMap(info) ELSE {})
    BY <1>3 DEF M!parse_memory_map, M!pmm_free_memory
  <2>2. M!Cleared(IF info.hasMap THEN M!FreedByMap(info) ELSE {})
          = {b \in FreedBlocks(info) : b < total_blocks /\ b \in pmm_bitmap}
    BY DEF M!Cleared, FreedBlocks
  <2>3. M!Tracked' = M!Tracked  BY <2>1 DEF M!Tracked
  <2>4. M!Tracked \subseteq pmm_bitmap /\ \A b \in M!Tracked : b < total_blocks
    BY <2>1, Words DEF BInv, Memory
  <2>5. Clear' = FreedBlocks(info) \cap M!Tracked
    BY <2>1, <2>2, <2>3, <2>4 DEF Clear
  <2>6. FreedBlocks(info)' = FreedBlocks(info)
    BY <2>1 DEF FreedBlocks
  <2> QED  BY <1>1, <2>1, <2>3, <2>5, <2>6 DEF BInv, Memory
<1>4. CASE M!pmm_lock_memory
  <2>1. /\ UNCHANGED <<info, total_blocks>> /\ pc = "lock" /\ pc' = "up"
        /\ pmm_bitmap' = pmm_bitmap \cup {M!BlockOf(0)}
    BY <1>4 DEF M!pmm_lock_memory
  <2>2. M!BlockOf(0) = 0  BY BootAssumption, DivSmall DEF M!BlockOf
  <2>3. M!Tracked' = M!Tracked  BY <2>1 DEF M!Tracked
  <2>4. Clear' = Clear \ {0}  BY <2>1, <2>2, <2>3 DEF Clear
  <2>5. Clear' = FreeAtBoot(info)  BY <2>1, <2>4, Words DEF BInv, Memory
  <2>6. FreeAtBoot(info)' = FreeAtBoot(info)  BY <2>1 DEF FreeAtBoot
  <2> QED  BY <1>1, <2>1, <2>5, <2>6 DEF BInv, Memory
<1> QED  BY <1>2, <1>3, <1>4 DEF StartPmm

(* What is free for paging: the clear bits and what the call holds.         *)
LEMMA Available ==
  ASSUME BInv, pc = "up"
  PROVE  /\ avail = Clear \cup ({got[n] : n \in 1 .. Len(got)} \ {LastFrame})
         /\ Clear \subseteq 1 .. LastFrame - 1
         /\ got = <<>> => avail = Clear
         /\ avail \ {got[n] : n \in 1 .. Len(got)} = Clear
         /\ avail \subseteq 1 .. LastFrame - 1
<1>1. got \in Seq(Given)  BY DEF BInv, Order
<1>4. DOMAIN got = 1 .. Len(got) /\ \A n \in 1 .. Len(got) : got[n] \in Given
  BY <1>1
<1>2. avail = Clear \cup ({got[n] : n \in 1 .. Len(got)} \ {LastFrame})
  BY <1>4 DEF avail, Clear
<1>3. Clear \subseteq 1 .. LastFrame - 1  BY BoardFrames DEF BInv, Memory
<1>5. avail \subseteq 1 .. LastFrame - 1  BY <1>2, <1>3, <1>4 DEF Given
<1>6. LastFrame \notin Clear  BY <1>3, LastBlock
<1>7. avail \ {got[n] : n \in 1 .. Len(got)} = Clear
  BY <1>2, <1>6 DEF BInv, Answers
<1>8. got = <<>> => avail = Clear  BY <1>2
<1> QED  BY <1>2, <1>3, <1>5, <1>7, <1>8

(* A call that has asked for a block holds the lowest free frame, and for   *)
(* paging nothing has happened yet.                                         *)
LEMMA AskSteps ==
  ASSUME BInv, Ask
  PROVE  BInv' /\ avail' = avail /\ UNCHANGED pagingVars
<1> DEFINE x == First(Clear)
           N == Len(got)
<1>1. /\ pc = "up" /\ Clear \subseteq 1 .. LastFrame - 1 /\ FrameOf(ret') = x
      /\ Clear' = Clear \ {x} /\ UNCHANGED <<info, pc, total_blocks>>
  BY AllocTakes DEF Ask, BInv
<1>2. Asking /\ got' = Append(got, x) /\ UNCHANGED pagingVars  BY <1>1 DEF Ask
<1>3. got \in Seq(Given) /\ phase \in {"boot", "paging"} /\ N \in {0, 1}
  <2>1. got \in Seq(Given)  BY DEF BInv, Order
  <2> QED  BY <2>1, <1>2 DEF Asking, N
<1>4. x \in Given /\ (Clear = {} => x = LastFrame) /\ (Clear # {} => x \in Clear)
  BY <1>1, FirstFit DEF Given
<1> HIDE DEF x
<1>5. got' \in Seq(Given) /\ Len(got') = N + 1 /\ got'[N + 1] = x
      /\ \A n \in 1 .. N : got'[n] = got[n]
  BY <1>2, <1>3, <1>4
<1>6. {got'[n] : n \in 1 .. N + 1} = {got[n] : n \in 1 .. N} \cup {x}
  BY <1>3, <1>5
<1>7. avail = Clear \cup ({got[n] : n \in 1 .. N} \ {LastFrame})
      /\ avail \ {got[n] : n \in 1 .. N} = Clear /\ (got = <<>> => avail = Clear)
  BY <1>1, Available
<1>8. LastFrame \notin Clear  BY <1>1, LastBlock
<1>9. avail' = Clear' \cup ({got'[n] : n \in 1 .. N + 1} \ {LastFrame})
  <2>1. DOMAIN got' = 1 .. N + 1  BY <1>3, <1>5
  <2> QED  BY <1>1, <2>1 DEF avail, Clear
<1>10. avail' = avail  BY <1>1, <1>4, <1>6, <1>7, <1>8, <1>9
<1>11. Memory'
  <2>1. FreeAtBoot(info)' = FreeAtBoot(info)  BY <1>1 DEF FreeAtBoot
  <2> QED  BY <1>1, <2>1 DEF BInv, Memory
<1>12. Order'
  BY <1>1, <1>2, <1>3, <1>5 DEF Order, pagingVars
<1>13. Answers'
  <2>1. \A n \in 1 .. N + 1 : got'[n] \notin Clear'
    BY <1>1, <1>3, <1>5 DEF BInv, Answers
  <2>2. CASE N = 0
    <3>1. got = <<>>  BY <1>3, <2>2
    <3>2. got'[1] = First(avail)
      <4>1. got'[1] = x  BY <1>5, <2>2
      <4>2. avail = Clear  BY <1>7, <3>1
      <4> QED  BY <4>1, <4>2, Zenon DEF x
    <3>3. First(avail)' = First(avail)  BY <1>10 DEF First, P!pmm_alloc_block
    <3> QED  BY <1>5, <2>1, <2>2, <3>2, <3>3 DEF Answers
  <2>3. CASE N = 1
    <3>1. got'[1] = First(avail) /\ got[1] = got'[1]  BY <1>5, <2>3 DEF BInv, Answers
    <3>2. {got[n] : n \in 1 .. N} = {got[1]}  BY <2>3
    <3>3. got'[2] = First(avail \ {got'[1]})
      <4>1. got'[2] = x  BY <1>5, <2>3
      <4>2. avail \ {got'[1]} = Clear  BY <1>7, <3>1, <3>2
      <4> QED  BY <4>1, <4>2, Zenon DEF x
    <3>4. First(avail)' = First(avail) /\ First(avail \ {got[1]})' = First(avail \ {got'[1]})
      BY <1>10 DEF First, P!pmm_alloc_block
    <3>5. phase' = "paging" => P!MapAsks(HeapPage)'
      <4> SUFFICES ASSUME phase' = "paging" PROVE P!MapAsks(HeapPage)'
        OBVIOUS
      <4>1. P!MapAsks(HeapPage)  BY <1>2, <2>3 DEF Asking, pagingVars
      <4> QED  BY <1>2, <4>1
                 DEF P!MapAsks, P!Reachable, P!NeedsTable, P!Walk, pagingVars
    <3> QED  BY <1>5, <2>1, <2>3, <3>1, <3>3, <3>4, <3>5 DEF Answers
  <2> QED  BY <1>3, <2>2, <2>3
<1> QED  BY <1>2, <1>10, <1>11, <1>12, <1>13 DEF BInv

(* When a call returns, what it was given is gone from the free frames.     *)
LEMMA Returns ==
  ASSUME BInv, pc = "up", got' = <<>>, UNCHANGED pmmVars,
         phase' \in {"boot", "paging", "heap", "open"}
  PROVE  BInv' /\ avail' = Clear
<1>1. /\ UNCHANGED <<info, pc, total_blocks, pmm_bitmap>>
      /\ M!Tracked' = M!Tracked /\ Clear' = Clear
      /\ FreeAtBoot(info)' = FreeAtBoot(info)
  BY DEF pmmVars, M!Tracked, Clear, FreeAtBoot
<1>2. Memory'  BY <1>1 DEF BInv, Memory
<1>3. Order' /\ Answers'  BY <1>1 DEF Order, Answers
<1>4. avail' = Clear  BY <1>1 DEF avail, Clear
<1> QED  BY <1>2, <1>3, <1>4 DEF BInv

(* paging_init has asked twice, or once and been refused.                   *)
LEMMA PagingInitSteps ==
  ASSUME BInv, paging_init
  PROVE  BInv' /\ P!paging_init
<1> DEFINE d == First(avail)
           t == First(avail \ {d})
<1>1. /\ pc = "up" /\ ~Asking /\ P!SetUp(Answer(1), Answer(2)) /\ got' = <<>>
      /\ UNCHANGED pmmVars
  BY DEF paging_init
<1>2. phase = "boot" /\ phase' \in {"boot", "paging"}
  BY <1>1 DEF P!SetUp, P!Halt
<1>3. BInv' /\ avail' = Clear  BY <1>1, <1>2, Returns
<1>4. Len(got) \in {0, 1, 2} /\ (Len(got) = 0 => got = <<>>)
  <2>1. got \in Seq(Given) /\ Len(got) <= 2  BY DEF BInv, Order
  <2>2. Len(got) = 0 => got = <<>>  BY <2>1, EmptySeq
  <2>3. Len(got) \in Nat  BY <2>1
  <2>4. \A n \in Nat : n <= 2 => n \in {0, 1, 2}  OBVIOUS
  <2> QED  BY <2>1, <2>2, <2>3, <2>4
<1>5. Len(got) = 2 \/ (Len(got) = 1 /\ got[1] = LastFrame)
  BY <1>1, <1>2, <1>4 DEF Asking
<1>6. Answer(1) = d  BY <1>5 DEF Answer, BInv, Answers
<1>7. avail \subseteq 1 .. LastFrame - 1
      /\ avail \ {got[n] : n \in 1 .. Len(got)} = Clear
  BY <1>1, Available
<1>8. Answer(2) = t /\ Clear = avail \ {d, t}
  <2>1. CASE Len(got) = 2
    <3>1. got[1] = d /\ got[2] = t  BY <2>1 DEF BInv, Answers
    <3>2. {got[n] : n \in 1 .. Len(got)} = {d, t}
      <4>1. 1 .. Len(got) = {1, 2}  BY <2>1
      <4> HIDE DEF d, t
      <4> QED  BY <3>1, <4>1
    <3> QED  BY <1>7, <2>1, <3>1, <3>2 DEF Answer
  <2>2. CASE Len(got) = 1 /\ got[1] = LastFrame
    <3>1. d = LastFrame  BY <1>6, <2>2 DEF Answer
    <3>2. avail = {}  BY <1>7, <3>1, FirstFit
    <3>3. t = LastFrame /\ Answer(2) = LastFrame
      BY <2>2, <3>2, FirstFit DEF Answer
    <3> QED  BY <1>7, <3>2, <3>3
  <2> QED  BY <1>5, <2>1, <2>2
<1> QED  BY <1>1, <1>3, <1>6, <1>8 DEF P!paging_init, First

(* When map_page does not ask, the answer it was not given does not matter. *)
LEMMA NotAsked ==
  ASSUME NEW p, NEW t, NEW u, ~P!MapAsks(p)
  PROVE  /\ P!MapFaults(t, p) <=> P!MapFaults(u, p)
         /\ ~P!MapFaults(t, p) => \A f : P!map_page(t, p, f) <=> P!map_page(u, p, f)
<1>1. CASE ~P!Reachable(kernel_directory)  BY <1>1 DEF P!MapFaults
<1>2. CASE ~P!NeedsTable(p)
  <2>1. P!TableFor(t, p) = P!TableFor(u, p)  BY <1>2 DEF P!TableFor
  <2> QED  BY <1>2, <2>1 DEF P!MapFaults, P!map_page
<1> QED  BY <1>1, <1>2 DEF P!MapAsks

LEMMA HeapInitSteps ==
  ASSUME BInv, heap_init
  PROVE  BInv' /\ P!heap_init
<1> DEFINE block == First(avail)
           rest == avail \ {block}
           t == First(rest)
<1>1. /\ ~Asking /\ P!MapHeap(Answer(1), Answer(2)) /\ got' = <<>>
      /\ UNCHANGED pmmVars
  BY DEF heap_init
<1>2. phase = "paging" /\ phase' \in {"paging", "heap"} /\ pc = "up"
  BY <1>1 DEF P!MapHeap, P!Halt, BInv, Order
<1>3. BInv' /\ avail' = Clear  BY <1>1, <1>2, Returns
<1>4. Len(got) \in {0, 1, 2} /\ (Len(got) = 0 => got = <<>>)
  <2>1. got \in Seq(Given) /\ Len(got) <= 2  BY DEF BInv, Order
  <2>2. Len(got) = 0 => got = <<>>  BY <2>1, EmptySeq
  <2>3. Len(got) \in Nat  BY <2>1
  <2>4. \A n \in Nat : n <= 2 => n \in {0, 1, 2}  OBVIOUS
  <2> QED  BY <2>1, <2>2, <2>3, <2>4
<1>5. Len(got) = 2 \/ (Len(got) = 1 /\ ~P!MapAsks(HeapPage))
  BY <1>1, <1>2, <1>4 DEF Asking
<1>6. Answer(1) = block  BY <1>5 DEF Answer, BInv, Answers
<1>7. avail \ {got[n] : n \in 1 .. Len(got)} = Clear
  BY <1>2, Available
<1>8. P!MapHeap(block, t) /\ Clear = P!Left(rest, HeapPage)
  <2>1. CASE Len(got) = 2
    <3>1. got[1] = block /\ got[2] = t /\ P!MapAsks(HeapPage)
      BY <1>2, <2>1 DEF BInv, Answers
    <3>2. {got[n] : n \in 1 .. Len(got)} = {block, t}
      <4>1. 1 .. Len(got) = {1, 2}  BY <2>1
      <4> HIDE DEF block, t
      <4> QED  BY <3>1, <4>1
    <3>3. P!Left(rest, HeapPage) = rest \ {t}  BY <3>1 DEF P!Left, First
    <3>4. Answer(2) = t  BY <2>1, <3>1 DEF Answer
    <3> QED  BY <1>1, <1>6, <1>7, <3>2, <3>3, <3>4
  <2>2. CASE Len(got) = 1 /\ ~P!MapAsks(HeapPage)
    <3>1. {got[n] : n \in 1 .. Len(got)} = {block}
      <4>1. 1 .. Len(got) = {1}  BY <2>2
      <4>2. got[1] = block  BY <1>6, <2>2 DEF Answer
      <4> HIDE DEF block
      <4> QED  BY <4>1, <4>2
    <3>2. P!Left(rest, HeapPage) = rest  BY <2>2 DEF P!Left
    <3>3. P!MapHeap(block, t)  BY <1>1, <1>6, <2>2, NotAsked DEF P!MapHeap
    <3> QED  BY <1>7, <3>1, <3>2, <3>3
  <2> QED  BY <1>5, <2>1, <2>2
<1> QED  BY <1>1, <1>3, <1>8 DEF P!heap_init, First, P!Without

(* map_page on its own asks and is answered in one step.                    *)
LEMMA MapIdentitySteps ==
  ASSUME BInv, NEW p \in Requests, MapIdentity(p)
  PROVE  BInv' /\ P!MapIdentity(p)
<1>1. /\ phase \in {"heap", "open"} /\ got' = got
      /\ IF P!MapAsks(p) THEN M!pmm_alloc_block ELSE UNCHANGED pmmVars
      /\ P!MapOnto(FrameOf(ret'), p)
  BY DEF MapIdentity
<1>2. got = <<>> /\ pc = "up" /\ phase' \in {"heap", "open"}
  BY <1>1 DEF BInv, Order, P!MapOnto, P!Halt
<1>3. avail = Clear  BY <1>2, Available
<1>4. CASE P!MapAsks(p)
  <2>1. /\ FrameOf(ret') = First(Clear) /\ Clear' = Clear \ {First(Clear)}
        /\ UNCHANGED <<info, pc, total_blocks>>
    BY <1>1, <1>4, AllocTakes DEF BInv
  <2>2. Memory'
    <3>1. FreeAtBoot(info)' = FreeAtBoot(info)  BY <2>1 DEF FreeAtBoot
    <3> QED  BY <1>2, <2>1, <3>1 DEF BInv, Memory
  <2>3. Order' /\ Answers'  BY <1>1, <1>2, <2>1 DEF BInv, Order, Answers
  <2>4. avail' = Clear'  BY <1>1, <1>2, <2>1 DEF avail, Clear
  <2>5. avail' = P!Left(avail, p)  BY <1>3, <1>4, <2>1, <2>4 DEF P!Left, First
  <2>6. P!MapOnto(First(avail), p)  BY <1>1, <1>3, <2>1
  <2> QED  BY <2>2, <2>3, <2>5, <2>6 DEF BInv, P!MapIdentity, First
<1>5. CASE ~P!MapAsks(p)
  <2>1. BInv' /\ avail' = Clear  BY <1>1, <1>2, <1>5, Returns
  <2>2. avail' = P!Left(avail, p)  BY <1>3, <1>5, <2>1 DEF P!Left
  <2>3. P!MapOnto(First(avail), p)  BY <1>1, <1>5, NotAsked DEF P!MapOnto
  <2> QED  BY <2>1, <2>2, <2>3 DEF P!MapIdentity, First
<1> QED  BY <1>4, <1>5

(* Steps of the CPU and the scheduler leave the allocator alone.            *)
LEMMA Undisturbed ==
  ASSUME BInv, UNCHANGED <<pmmVars, got>>,
         phase' = phase \/ (got = <<>> /\ phase' \in {"heap", "open"} /\ pc = "up"),
         phase' = "paging" => UNCHANGED <<kernel_directory, table, dir>>
  PROVE  BInv' /\ avail' = avail
<1>1. /\ UNCHANGED <<info, pc, total_blocks, pmm_bitmap, got>>
      /\ M!Tracked' = M!Tracked /\ Clear' = Clear
      /\ FreeAtBoot(info)' = FreeAtBoot(info) /\ FreedBlocks(info)' = FreedBlocks(info)
  BY DEF pmmVars, M!Tracked, Clear, FreeAtBoot, FreedBlocks
<1>2. avail' = avail  BY <1>1 DEF avail
<1>3. Memory'  BY <1>1 DEF BInv, Memory
<1>4. Order'  BY <1>1 DEF BInv, Order
<1>5. First(avail)' = First(avail) /\ First(avail \ {got[1]})' = First(avail \ {got[1]})
  BY <1>1, <1>2 DEF First, P!pmm_alloc_block
<1>6. Len(got) = 2 /\ phase' = "paging" => P!MapAsks(HeapPage)'
  <2> SUFFICES ASSUME Len(got) = 2, phase' = "paging" PROVE P!MapAsks(HeapPage)'
    OBVIOUS
  <2>1. phase = "paging" /\ UNCHANGED <<kernel_directory, table, dir>>  OBVIOUS
  <2>2. P!MapAsks(HeapPage)  BY <2>1 DEF BInv, Answers
  <2> QED  BY <2>1, <2>2 DEF P!MapAsks, P!Reachable, P!NeedsTable, P!Walk
<1>7. Answers'  BY <1>1, <1>5, <1>6 DEF BInv, Answers
<1> QED  BY <1>2, <1>3, <1>4, <1>7 DEF BInv

LEMMA StartRefines ==
  ASSUME BInv, StartPmm
  PROVE  BInv' /\ UNCHANGED P!vars
<1>1. /\ Memory' /\ pc # "up" /\ got' = got /\ UNCHANGED <<info, pagingVars>>
      /\ pc' = "up" => Clear' = FreeAtBoot(info)
  BY StartSteps
<1>2. got = <<>> /\ phase = "boot"  BY <1>1 DEF BInv, Order
<1>3. Order' /\ Answers'  BY <1>1, <1>2 DEF Order, Answers, pagingVars
<1>4. FreeAtBoot(info)' = FreeAtBoot(info)  BY <1>1 DEF FreeAtBoot
<1>5. avail = FreeAtBoot(info)  BY <1>1 DEF avail
<1>6. CASE pc' = "up"
  <2>1. avail' = Clear'  BY <1>1, <1>2, <1>6 DEF avail, Clear
  <2> QED  BY <1>1, <1>3, <1>5, <1>6, <2>1 DEF BInv, P!vars, pagingVars
<1>7. CASE pc' # "up"
  <2>1. avail' = FreeAtBoot(info)'  BY <1>7 DEF avail
  <2> QED  BY <1>1, <1>3, <1>4, <1>5, <2>1 DEF BInv, P!vars, pagingVars
<1> QED  BY <1>6, <1>7

(* Every step of the composition is a step of Paging or none, and keeps the *)
(* invariant.                                                               *)
LEMMA NextRefines == BInv /\ [Next]_vars => BInv' /\ [P!Next]_(P!vars)
<1> SUFFICES ASSUME BInv, [Next]_vars PROVE BInv' /\ [P!Next]_(P!vars)
  OBVIOUS
<1>1. CASE StartPmm  BY <1>1, StartRefines
<1>2. CASE Ask  BY <1>2, AskSteps DEF P!vars, pagingVars
<1>3. CASE paging_init  BY <1>3, PagingInitSteps DEF P!Next
<1>4. CASE heap_init  BY <1>4, HeapInitSteps DEF P!Next
<1>5. CASE Unlock
  <2>1. UNCHANGED <<pmmVars, got>> /\ P!Unlock  BY <1>5 DEF Unlock
  <2>2. phase = "heap" /\ phase' = "open" /\ got = <<>> /\ pc = "up"
    BY <2>1 DEF P!Unlock, BInv, Order
  <2>3. BInv'  BY <2>1, <2>2, Undisturbed
  <2> QED  BY <2>1, <2>3 DEF P!Next
<1>6. CASE Use
  <2>1. UNCHANGED <<pmmVars, got>> /\ phase = "open"  BY <1>6 DEF Use
  <2>2. phase' = phase
    BY <1>6 DEF Use, P!switch_page_directory, P!Evict, P!Access, P!Halt
  <2>3. BInv'  BY <2>1, <2>2, Undisturbed
  <2> QED  BY <1>6, <2>3 DEF Use, P!Next
<1>7. CASE \E p \in Requests : MapIdentity(p)
  <2>1. PICK p \in Requests : MapIdentity(p)  BY <1>7
  <2> QED  BY <2>1, MapIdentitySteps DEF P!Next
<1>8. CASE UNCHANGED vars
  <2>1. UNCHANGED <<pmmVars, got>> /\ UNCHANGED pagingVars  BY <1>8 DEF vars
  <2>2. BInv' /\ avail' = avail  BY <2>1, Undisturbed DEF pagingVars
  <2> QED  BY <2>1, <2>2 DEF P!vars, pagingVars
<1> QED  BY <1>1, <1>2, <1>3, <1>4, <1>5, <1>6, <1>7, <1>8 DEF Next, kernel_main

LEMMA InitRefines == Init => P!Init
<1> SUFFICES ASSUME Init PROVE P!Init
  OBVIOUS
<1>1. avail = FreeAtBoot(info) /\ info \in BootInfos  BY DEF Init, M!Init, avail
<1> QED  BY <1>1 DEF Init, P!Init

(* The invariant of the composition holds in every state.                   *)
THEOREM Invariance == Spec => []BInv
<1>1. Init => BInv  BY InitInv
<1>2. BInv /\ [Next]_vars => BInv'  BY NextRefines
<1> QED  BY <1>1, <1>2, PTL DEF Spec

(* The memory manager gives paging.c and heap.c the answers Paging assumes: *)
(* the lowest free frames, each once, and 0xFFFFFFFF only when none is left *)
(* (pmm.c:78-100).  So what is proved about Paging holds of the kernel.     *)
THEOREM ImplementsPaging == Spec => PagingSpec
<1>1. Init => P!Init  BY InitRefines
<1>2. BInv /\ [Next]_vars => [P!Next]_(P!vars)  BY NextRefines
<1>3. Spec => []BInv  BY Invariance
<1> QED  BY <1>1, <1>2, <1>3, PTL DEF Spec, PagingSpec, P!Spec
--------------------------------------------------------------------------------
(***************************************************************************)
(* The kernel image.  The pages of the programs and of their stacks are in  *)
(* the first 4 MB or under the heap's directory entry (Near), so map_page    *)
(* needs no third table and boot makes four requests in all, Asked of them  *)
(* so far.  As long as a block below the kernel is left, first fit takes it. *)
(***************************************************************************)
Near == \A p \in Requests : P!SlotOf(p) \in {0, P!SlotOf(HeapPage)}

Asked == CASE phase = "boot" -> Len(got) [] phase = "paging" -> 2 + Len(got) [] OTHER -> 4

Links ==
  /\ dir \in [P!Slot -> [present : BOOLEAN, frame : 0 .. LastFrame]]
  /\ phase # "boot" => dir[0].present
  /\ phase \in {"heap", "open"} => dir[P!SlotOf(HeapPage)].present

Held ==
  /\ held \in [M!Block -> Nat]
  /\ pc # "up" => M!Out = {}

Kept ==
  LET below == BelowKernel(info)
  IN  Cardinality(below) >= 4 =>
        /\ M!Out \subseteq below
        /\ pc = "up" => below \ M!Out \subseteq Clear
        /\ ~halted => Cardinality(M!Out) <= Asked

KInv == BInv /\ Links /\ Held /\ Kept
--------------------------------------------------------------------------------
(* The present bit of an entry is the one it was written with.              *)
LEMMA PresentBit ==
  ASSUME NEW e, NEW g, NEW b \in BOOLEAN, e = [present |-> b, frame |-> g]
  PROVE  e.present <=> b
<1>1. [present |-> b, frame |-> g].present = b  BY Zenon
<1> QED  BY <1>1, Zenon

LEMMA Slots0 ==
  /\ 0 \in P!Slot
  /\ \A p \in P!Page : P!SlotOf(p) \in P!Slot
<1>1. 0 \in P!Slot  BY BootAssumption DEF P!Slot
<1>2. ASSUME NEW p \in P!Page PROVE P!SlotOf(p) \in P!Slot
  <2>1. /\ Slots \in Nat /\ Entries \in Nat \ {0} /\ Slots * Entries \in Nat
        /\ p \in 0 .. Slots * Entries - 1
    BY BootAssumption DEF P!Page
  <2>2. p \in Nat /\ p < Slots * Entries  BY <2>1
  <2>3. p \div Entries < Slots /\ p \div Entries \in Nat
    BY <2>1, <2>2, DivBelow, DivNat
  <2> QED  BY <2>1, <2>3 DEF P!SlotOf, P!Slot
<1> QED  BY <1>1, <1>2

(* map_page leaves the entry it used present, and the others as they were.  *)
LEMMA MapLinks ==
  ASSUME Links, NEW p \in P!Page, NEW t \in 0 .. LastFrame, NEW f, P!map_page(t, p, f)
  PROVE  /\ dir' \in [P!Slot -> [present : BOOLEAN, frame : 0 .. LastFrame]]
         /\ dir'[P!SlotOf(p)].present
         /\ \A s \in P!Slot : s # P!SlotOf(p) => dir'[s] = dir[s]
<1> DEFINE w == P!TableFor(t, p)
           e == [present |-> TRUE, frame |-> w]
<1>1. P!SlotOf(p) \in P!Slot  BY Slots0
<1>2. dir \in [P!Slot -> [present : BOOLEAN, frame : 0 .. LastFrame]]  BY DEF Links
<1>3. w \in 0 .. LastFrame  BY <1>1, <1>2 DEF P!TableFor
<1>4. dir' = [dir EXCEPT ![P!SlotOf(p)] = e]  BY DEF P!map_page
<1>5. e \in [present : BOOLEAN, frame : 0 .. LastFrame]  BY <1>3
<1>6. e.present  BY Zenon
<1> HIDE DEF w, e
<1>7. dir'[P!SlotOf(p)] = e  BY <1>1, <1>2, <1>4
<1>8. dir'[P!SlotOf(p)].present  BY <1>6, <1>7, Zenon
<1> QED  BY <1>2, <1>4, <1>5, <1>8

(* Once the heap is there, a page near it or the kernel needs no new table. *)
LEMMA NearAsksNothing ==
  ASSUME Links, Near, NEW p \in Requests, phase \in {"heap", "open"}
  PROVE  ~P!MapAsks(p)
<1>1. dir[P!SlotOf(p)].present
  <2>1. P!SlotOf(p) = 0 \/ P!SlotOf(p) = P!SlotOf(HeapPage)  BY DEF Near
  <2>2. dir[0].present /\ dir[P!SlotOf(HeapPage)].present  BY DEF Links
  <2> QED  BY <2>1, <2>2, Zenon
<1> QED  BY <1>1, Zenon DEF P!MapAsks, P!NeedsTable

(* What is present stays present.                                           *)
LEMMA LinksSteps ==
  ASSUME KInv, [Next]_vars, Near
  PROVE  Links'
<1>1. dir \in [P!Slot -> [present : BOOLEAN, frame : 0 .. LastFrame]]
  BY DEF KInv, Links
<1>2. ASSUME dir' = dir, phase' = phase PROVE Links'
  BY <1>2 DEF KInv, Links
<1>3. CASE StartPmm \/ Ask \/ UNCHANGED vars
  BY <1>2, <1>3 DEF StartPmm, Ask, pagingVars, vars
<1>4. \A n \in {1, 2} : Answer(n) \in 0 .. LastFrame
  <2>1. got \in Seq(Given)  BY DEF KInv, BInv, Order
  <2>2. \A n \in {1, 2} : n <= Len(got) => got[n] \in Given  BY <2>1
  <2> QED  BY <2>2, LastBlock DEF Answer, Given
<1>5. CASE paging_init
  <2>1. P!SetUp(Answer(1), Answer(2))  BY <1>5 DEF paging_init
  <2>2. CASE P!Halt  BY <1>2, <2>2 DEF P!Halt
  <2>3. CASE ~P!Halt
    <3> DEFINE t == Answer(2)
    <3>1. /\ dir' = [s \in P!Slot |-> [present |-> s = 0, frame |-> IF s = 0 THEN t ELSE 0]]
          /\ phase' = "paging"
      BY <2>1, <2>3 DEF P!SetUp
    <3>2. t \in 0 .. LastFrame /\ 0 \in 0 .. LastFrame  BY <1>4, LastBlock
    <3> HIDE DEF t
    <3>3. \A s \in P!Slot : [present |-> s = 0, frame |-> IF s = 0 THEN t ELSE 0]
                                \in [present : BOOLEAN, frame : 0 .. LastFrame]
      BY <3>2
    <3>4. dir' \in [P!Slot -> [present : BOOLEAN, frame : 0 .. LastFrame]]
      BY <3>1, <3>3
    <3>5. dir'[0].present
      <4>1. dir'[0] = [present |-> 0 = 0, frame |-> IF 0 = 0 THEN t ELSE 0]
        BY <3>1, Slots0
      <4>2. dir'[0] = [present |-> TRUE, frame |-> t]  BY <4>1
      <4> QED  BY <4>2, PresentBit, Zenon
    <3> QED  BY <3>1, <3>4, <3>5 DEF Links
  <2> QED  BY <2>2, <2>3
<1>6. CASE heap_init
  <2>1. P!MapHeap(Answer(1), Answer(2))  BY <1>6 DEF heap_init
  <2>2. CASE P!Halt  BY <1>2, <2>2 DEF P!Halt
  <2>3. CASE ~P!Halt
    <3>1. P!map_page(Answer(2), HeapPage, P!HeapTarget(Answer(1)))
          /\ phase = "paging" /\ phase' = "heap"
      BY <2>1, <2>3 DEF P!MapHeap
    <3>2. HeapPage \in P!Page  BY BootAssumption
    <3>3. /\ dir' \in [P!Slot -> [present : BOOLEAN, frame : 0 .. LastFrame]]
          /\ dir'[P!SlotOf(HeapPage)].present
          /\ \A s \in P!Slot : s # P!SlotOf(HeapPage) => dir'[s] = dir[s]
      BY <1>4, <3>1, <3>2, MapLinks DEF KInv
    <3>4. dir[0].present  BY <3>1 DEF KInv, Links
    <3>5. dir'[0].present
      <4>1. CASE P!SlotOf(HeapPage) = 0  BY <3>3, <4>1
      <4>2. CASE P!SlotOf(HeapPage) # 0
        <5>1. dir'[0] = dir[0]  BY <3>3, <4>2, Slots0
        <5> QED  BY <3>4, <5>1, Zenon
      <4> QED  BY <4>1, <4>2
    <3> QED  BY <3>1, <3>3, <3>5 DEF Links
  <2> QED  BY <2>2, <2>3
<1>7. CASE Unlock
  <2>1. P!Unlock  BY <1>7 DEF Unlock
  <2>2. dir' = [s \in P!Slot |-> [dir[s] EXCEPT !.present = TRUE]] /\ phase' = "open"
    BY <2>1 DEF P!Unlock
  <2>3. ASSUME NEW s \in P!Slot
        PROVE  dir'[s] \in [present : BOOLEAN, frame : 0 .. LastFrame] /\ dir'[s].present
    <3>1. dir[s] \in [present : BOOLEAN, frame : 0 .. LastFrame]  BY <1>1
    <3>2. dir'[s] = [dir[s] EXCEPT !.present = TRUE]  BY <2>2
    <3>3. dir'[s] = [present |-> TRUE, frame |-> dir[s].frame]  BY <3>1, <3>2
    <3>4. dir'[s].present  BY <3>3, PresentBit, Zenon
    <3>5. dir'[s] \in [present : BOOLEAN, frame : 0 .. LastFrame]  BY <3>1, <3>3
    <3> QED  BY <3>4, <3>5
  <2>4. dir' = [s \in P!Slot |-> dir'[s]]  BY <2>2
  <2>5. dir' \in [P!Slot -> [present : BOOLEAN, frame : 0 .. LastFrame]]  BY <2>3, <2>4
  <2>6. dir'[0].present /\ dir'[P!SlotOf(HeapPage)].present
    BY <2>3, Slots0, BootAssumption
  <2> QED  BY <2>5, <2>6 DEF Links
<1>8. CASE Use
  BY <1>2, <1>8 DEF Use, P!switch_page_directory, P!Evict, P!Access, P!Halt
<1>9. ASSUME NEW p \in Requests, MapIdentity(p) PROVE Links'
  <2>1. P!MapOnto(FrameOf(ret'), p) /\ phase \in {"heap", "open"}
    BY <1>9 DEF MapIdentity
  <2>2. ~P!MapAsks(p)  BY <2>1, NearAsksNothing DEF KInv
  <2>3. CASE P!Halt  BY <1>2, <2>3 DEF P!Halt
  <2>4. CASE ~P!Halt
    <3>1. ~P!MapFaults(FrameOf(ret'), p) /\ P!map_page(FrameOf(ret'), p, p) /\ phase' = phase
      BY <2>1, <2>4 DEF P!MapOnto
    <3>2. P!map_page(0, p, p)  BY <2>2, <3>1, NotAsked
    <3>3. p \in P!Page /\ 0 \in 0 .. LastFrame  BY BootAssumption, LastBlock
    <3>4. /\ dir' \in [P!Slot -> [present : BOOLEAN, frame : 0 .. LastFrame]]
          /\ dir'[P!SlotOf(p)].present
          /\ \A s \in P!Slot : s # P!SlotOf(p) => dir'[s] = dir[s]
      BY <3>2, <3>3, MapLinks DEF KInv
    <3>5. ASSUME NEW s \in P!Slot, dir[s].present PROVE dir'[s].present
      <4>1. CASE s = P!SlotOf(p)  BY <3>4, <4>1
      <4>2. CASE s # P!SlotOf(p)
        <5>1. dir'[s] = dir[s]  BY <3>4, <4>2
        <5> QED  BY <3>5, <5>1, Zenon
      <4> QED  BY <4>1, <4>2
    <3>6. dir'[0].present /\ dir'[P!SlotOf(HeapPage)].present
      BY <2>1, <3>5, Slots0, BootAssumption DEF KInv, Links
    <3> QED  BY <3>4, <3>6 DEF Links
  <2> QED  BY <2>3, <2>4
<1> QED  BY <1>3, <1>5, <1>6, <1>7, <1>8, <1>9 DEF Next, kernel_main

(* Who has been given what.                                                 *)
LEMMA AllocHolds ==
  ASSUME Memory, Held, M!pmm_alloc_block
  PROVE  /\ held' \in [M!Block -> Nat]
         /\ Clear = {} => M!Out' = M!Out
         /\ Clear # {} => M!Out' = M!Out \cup {First(Clear)}
<1>1. Clear \subseteq 1 .. LastFrame - 1 /\ FrameOf(ret') = First(Clear)  BY AllocTakes
<1>2. CASE Clear = {}
  <2>1. M!pmm_first_free = M!OOM  BY <1>2 DEF M!pmm_first_free, Clear
  <2>2. held' = held  BY <2>1 DEF M!pmm_alloc_block
  <2> QED  BY <1>2, <2>2 DEF Held, M!Out
<1>3. CASE Clear # {}
  <2>1. M!pmm_first_free = First(Clear)
    BY <1>3 DEF M!pmm_first_free, Clear, First, P!pmm_alloc_block, M!Min, P!Min
  <2>2. First(Clear) \in Nat /\ First(Clear) < LastFrame
    BY <1>1, <1>3, FirstFit, LastBlock
  <2>3. First(Clear) # M!OOM  BY <2>2, LastBlock, BootAssumption DEF M!OOM
  <2>4. held' = [held EXCEPT ![First(Clear)] = @ + 1]
    BY <2>1, <2>3 DEF M!pmm_alloc_block
  <2>5. First(Clear) \in M!Block  BY <2>2, LastBlock
  <2>6. held \in [M!Block -> Nat]  BY DEF Held
  <2>7. held' \in [M!Block -> Nat]  BY <2>4, <2>5, <2>6
  <2>8. ASSUME NEW b \in M!Block
        PROVE  held'[b] > 0 <=> held[b] > 0 \/ b = First(Clear)
    BY <2>4, <2>5, <2>6
  <2> QED  BY <1>3, <2>5, <2>7, <2>8 DEF M!Out
<1> QED  BY <1>2, <1>3

LEMMA BelowFinite ==
  ASSUME Memory
  PROVE  /\ BelowKernel(info) \subseteq FreeAtBoot(info)
         /\ IsFiniteSet(BelowKernel(info)) /\ Cardinality(BelowKernel(info)) \in Nat
         /\ M!Out \subseteq BelowKernel(info) =>
              IsFiniteSet(M!Out) /\ Cardinality(M!Out) \in Nat
<1> DEFINE below == BelowKernel(info)
<1>1. below \subseteq FreeAtBoot(info)  BY DEF BelowKernel
<1>2. FreeAtBoot(info) \subseteq 1 .. LastFrame - 1  BY BoardFrames DEF Memory
<1>3. IsFiniteSet(1 .. LastFrame - 1)
  <2>1. 1 \in Int /\ LastFrame - 1 \in Int  BY LastBlock
  <2> QED  BY <2>1, FS_Interval
<1>4. below \in SUBSET (1 .. LastFrame - 1)  BY <1>1, <1>2
<1>5. IsFiniteSet(below)  BY <1>3, <1>4, FS_Subset
<1> HIDE DEF below
<1>6. Cardinality(below) \in Nat  BY <1>5, FS_CardinalityType
<1>7. M!Out \subseteq below => IsFiniteSet(M!Out)  BY <1>5, FS_Subset
<1>8. IsFiniteSet(M!Out) => Cardinality(M!Out) \in Nat  BY FS_CardinalityType
<1> QED  BY <1>1, <1>5, <1>6, <1>7, <1>8 DEF below

(* The fourth request at the latest finds a block below the kernel.         *)
LEMMA AskKeeps ==
  ASSUME Memory, Held, M!pmm_alloc_block,
         Cardinality(BelowKernel(info)) >= 4,
         M!Out \subseteq BelowKernel(info), BelowKernel(info) \ M!Out \subseteq Clear,
         Cardinality(M!Out) <= 3
  PROVE  /\ M!Out' \subseteq BelowKernel(info)
         /\ BelowKernel(info) \ M!Out' \subseteq Clear'
         /\ Cardinality(M!Out') <= Cardinality(M!Out) + 1
<1> DEFINE below == BelowKernel(info)
           x == First(Clear)
<1>1. /\ pc = "up" /\ Clear \subseteq 1 .. LastFrame - 1 /\ Clear' = Clear \ {x}
      /\ Clear \subseteq FreeAtBoot(info) /\ info \in BootInfos
  BY AllocTakes DEF Memory
<1>2. below \subseteq FreeAtBoot(info)  BY BelowFinite
<1>3. IsFiniteSet(below) /\ Cardinality(below) \in Nat  BY BelowFinite
<1>4. IsFiniteSet(M!Out) /\ Cardinality(M!Out) \in Nat  BY BelowFinite
<1>5. PICK b \in below : b \notin M!Out
  <2> SUFFICES ASSUME below \subseteq M!Out PROVE FALSE
    OBVIOUS
  <2>1. below = M!Out  OBVIOUS
  <2> QED  BY <1>3, <2>1
<1>6. b \in Clear /\ Clear # {}  BY <1>5
<1>7. x \in Clear /\ x <= b  BY <1>1, <1>6, FirstFit
<1>8. x \in below
  <2>1. KernelImage \subseteq Int  BY BootAssumption, LastBlock
  <2>2. x \in Int /\ b \in Int
    <3>1. \A y \in Clear : y \in Int  BY <1>1, LastBlock
    <3> QED  BY <1>6, <1>7, <3>1
  <2>3. \A k \in KernelImage : b < k  BY <1>5 DEF BelowKernel
  <2>4. \A k \in KernelImage : x < k  BY <1>7, <2>1, <2>2, <2>3
  <2> QED  BY <1>1, <1>7, <2>4 DEF BelowKernel
<1> HIDE DEF x
<1>9. M!Out' = M!Out \cup {x}  BY <1>6, AllocHolds DEF x
<1>10. Cardinality(M!Out \cup {x}) <= Cardinality(M!Out) + 1
  <2>1. Cardinality(M!Out \cup {x})
          = IF x \in M!Out THEN Cardinality(M!Out) ELSE Cardinality(M!Out) + 1
    BY <1>4, FS_AddElement
  <2> QED  BY <1>4, <2>1
<1> QED  BY <1>1, <1>8, <1>9, <1>10

(* The count of requests is one.                                            *)
LEMMA AskedTyped == (Order => Asked \in 0 .. 4) /\ (Order' => Asked' \in 0 .. 4)
<1>1. \A n \in Nat : n <= 2 => n \in 0 .. 2 /\ n \in 0 .. 4 /\ 2 + n \in 0 .. 4
  OBVIOUS
<1>2. 4 \in 0 .. 4  OBVIOUS
<1>3. ASSUME Order PROVE Asked \in 0 .. 4
  <2>1. got \in Seq(Given)  BY <1>3 DEF Order
  <2>2. Len(got) \in Nat /\ Len(got) <= 2  BY <1>3, <2>1 DEF Order
  <2> QED  BY <1>1, <1>2, <2>2 DEF Asked
<1>4. ASSUME Order' PROVE Asked' \in 0 .. 4
  <2>1. got' \in Seq(Given')  BY <1>4 DEF Order
  <2>2. Len(got') \in Nat /\ Len(got') <= 2  BY <1>4, <2>1 DEF Order
  <2> QED  BY <1>1, <1>2, <2>2 DEF Asked
<1> QED  BY <1>3, <1>4

(* Steps that hand nothing out.                                             *)
LEMMA NothingAsked ==
  ASSUME KInv, BInv', UNCHANGED <<info, pc, held>>, Clear' = Clear,
         halted' \/ (~halted /\ Asked <= Asked')
  PROVE  Held' /\ Kept'
<1>1. M!Out' = M!Out /\ BelowKernel(info)' = BelowKernel(info)
  BY DEF M!Out, BelowKernel, FreeAtBoot
<1>2. Held'  BY <1>1 DEF KInv, Held
<1>3. Kept'
  <2> SUFFICES ASSUME Cardinality(BelowKernel(info)) >= 4
               PROVE  /\ M!Out \subseteq BelowKernel(info)
                      /\ pc = "up" => BelowKernel(info) \ M!Out \subseteq Clear
                      /\ ~halted' => Cardinality(M!Out) <= Asked'
    BY <1>1 DEF Kept
  <2>1. /\ M!Out \subseteq BelowKernel(info)
        /\ pc = "up" => BelowKernel(info) \ M!Out \subseteq Clear
        /\ ~halted => Cardinality(M!Out) <= Asked
    BY DEF KInv, Kept
  <2>2. Cardinality(M!Out) \in Nat  BY <2>1, BelowFinite DEF KInv, BInv
  <2>3. Asked \in 0 .. 4 /\ Asked' \in 0 .. 4  BY AskedTyped DEF KInv, BInv
  <2> QED  BY <2>1, <2>2, <2>3
<1> QED  BY <1>2, <1>3

(* Every step of the composition.                                           *)
LEMMA KernelSteps ==
  ASSUME KInv, BInv', [Next]_vars, Near
  PROVE  Held' /\ Kept'
<1>1. ASSUME UNCHANGED pmmVars, halted' \/ (~halted /\ Asked <= Asked')
      PROVE  Held' /\ Kept'
  <2>1. UNCHANGED <<info, pc, held>> /\ Clear' = Clear
    BY <1>1 DEF pmmVars, Clear, M!Tracked
  <2> QED  BY <1>1, <2>1, NothingAsked
<1>2. ASSUME UNCHANGED pmmVars, UNCHANGED <<phase, got, halted>>
      PROVE  Held' /\ Kept'
  <2>1. Asked' = Asked  BY <1>2 DEF Asked
  <2>2. Asked \in 0 .. 4  BY AskedTyped DEF KInv, BInv
  <2>3. Asked <= Asked'  BY <2>1, <2>2
  <2>4. halted' \/ ~halted  BY <1>2
  <2> QED  BY <1>1, <1>2, <2>3, <2>4
<1>3. CASE StartPmm
  <2>1. /\ pc # "up" /\ got' = got /\ UNCHANGED <<info, pagingVars>>
        /\ pc' = "up" => Clear' = FreeAtBoot(info)
    BY <1>3, StartSteps DEF KInv
  <2>2. held' = held
    BY <1>3 DEF StartPmm, M!pmm_init, M!parse_memory_map, M!pmm_lock_memory
  <2>3. M!Out = {} /\ M!Out' = {}  BY <2>1, <2>2 DEF KInv, Held, M!Out
  <2>4. BelowKernel(info)' = BelowKernel(info)  BY <2>1 DEF BelowKernel, FreeAtBoot
  <2>5. BelowKernel(info) \subseteq FreeAtBoot(info)  BY DEF BelowKernel
  <2>6. Cardinality({}) = 0  BY FS_EmptySet
  <2>7. Asked' \in 0 .. 4  BY AskedTyped DEF BInv
  <2>8. Held'  BY <2>2, <2>3 DEF KInv, Held
  <2>9. Kept'  BY <2>1, <2>3, <2>4, <2>5, <2>6, <2>7 DEF Kept
  <2> QED  BY <2>8, <2>9
<1>4. CASE Ask
  <2>1. /\ ~halted /\ Asking /\ M!pmm_alloc_block /\ UNCHANGED pagingVars
        /\ got' = Append(got, FrameOf(ret'))
    BY <1>4 DEF Ask
  <2>2. UNCHANGED <<phase, halted>>  BY <2>1 DEF pagingVars
  <2>3. Memory /\ Held  BY DEF KInv, BInv
  <2>4. /\ pc = "up" /\ UNCHANGED <<info, pc>> /\ FrameOf(ret') \in Given
        /\ Clear \subseteq 1 .. LastFrame - 1
    BY <2>1, <2>3, AllocTakes, FirstFit DEF Given
  <2>5. Asked <= 3 /\ Asked' = Asked + 1
    <3>1. got \in Seq(Given)  BY DEF KInv, BInv, Order
    <3>2. Len(got') = Len(got) + 1  BY <2>1, <2>4, <3>1
    <3>3. Len(got) \in {0, 1}  BY <2>1 DEF Asking
    <3>4. phase \in {"boot", "paging"}  BY <2>1 DEF Asking
    <3> DEFINE n == Len(got)
    <3> HIDE DEF n
    <3>5. phase = "boot" => Asked = n /\ Asked' = n + 1
      BY <2>2, <3>2 DEF Asked, n
    <3>6. phase = "paging" => Asked = 2 + n /\ Asked' = 2 + (n + 1)
      BY <2>2, <3>2 DEF Asked, n
    <3>7. n \in {0, 1}  BY <3>3 DEF n
    <3> QED  BY <3>4, <3>5, <3>6, <3>7
  <2>6. BelowKernel(info)' = BelowKernel(info)  BY <2>4 DEF BelowKernel, FreeAtBoot
  <2>7. Held'  BY <2>1, <2>3, <2>4, AllocHolds DEF Held
  <2>8. Kept'
    <3> SUFFICES ASSUME Cardinality(BelowKernel(info)) >= 4
                 PROVE  /\ M!Out' \subseteq BelowKernel(info)
                        /\ BelowKernel(info) \ M!Out' \subseteq Clear'
                        /\ Cardinality(M!Out') <= Asked'
      BY <2>6 DEF Kept
    <3>1. /\ M!Out \subseteq BelowKernel(info) /\ BelowKernel(info) \ M!Out \subseteq Clear
          /\ Cardinality(M!Out) <= Asked
      BY <2>1, <2>4 DEF KInv, Kept
    <3>2. Cardinality(M!Out) \in Nat  BY <2>3, <3>1, BelowFinite
    <3>3. Asked \in 0 .. 4  BY AskedTyped DEF KInv, BInv
    <3>4. Cardinality(M!Out) <= 3  BY <2>5, <3>1, <3>2, <3>3
    <3>5. /\ M!Out' \subseteq BelowKernel(info) /\ BelowKernel(info) \ M!Out' \subseteq Clear'
          /\ Cardinality(M!Out') <= Cardinality(M!Out) + 1
      BY <2>1, <2>3, <3>1, <3>4, AskKeeps
    <3>6. M!Out' \subseteq BelowKernel(info)' /\ Memory' =>
             Cardinality(M!Out') \in Nat
      <4> SUFFICES ASSUME M!Out' \subseteq BelowKernel(info)
                   PROVE  Cardinality(M!Out') \in Nat
        BY <2>6
      <4>1. IsFiniteSet(BelowKernel(info))  BY <2>3, BelowFinite
      <4>2. IsFiniteSet(M!Out')  BY <4>1, FS_Subset
      <4> QED  BY <4>2, FS_CardinalityType
    <3>7. Cardinality(M!Out') \in Nat  BY <2>6, <3>5, <3>6 DEF BInv
    <3> QED  BY <2>5, <3>1, <3>2, <3>3, <3>5, <3>7
  <2> QED  BY <2>7, <2>8
<1>5. CASE paging_init \/ heap_init
  <2>1. UNCHANGED pmmVars /\ got' = <<>>  BY <1>5 DEF paging_init, heap_init
  <2>2. halted' \/ (~halted /\ Asked <= Asked')
    <3>1. Len(got) <= 2 /\ Asked \in 0 .. 4 /\ Len(got') = 0
      BY <2>1, AskedTyped DEF KInv, BInv, Order
    <3>2. CASE P!Halt  BY <3>2 DEF P!Halt
    <3>3. CASE ~P!Halt /\ paging_init
      <4>1. ~halted /\ phase = "boot" /\ phase' = "paging"
        BY <3>3 DEF paging_init, P!SetUp
      <4> QED  BY <3>1, <4>1 DEF Asked
    <3>4. CASE ~P!Halt /\ heap_init
      <4>1. ~halted /\ phase' = "heap"
        BY <3>4 DEF heap_init, P!MapHeap
      <4>2. Asked' = 4  BY <4>1 DEF Asked
      <4> QED  BY <3>1, <4>1, <4>2
    <3> QED  BY <1>5, <3>2, <3>3, <3>4
  <2> QED  BY <1>1, <2>1, <2>2
<1>6. CASE Unlock
  <2>1. UNCHANGED pmmVars /\ phase' = "open" /\ ~halted  BY <1>6 DEF Unlock, P!Unlock
  <2>2. Asked' = 4 /\ Asked \in 0 .. 4  BY <2>1, AskedTyped DEF KInv, BInv, Asked
  <2> QED  BY <1>1, <2>1, <2>2
<1>7. CASE Use
  <2>1. UNCHANGED pmmVars /\ UNCHANGED got  BY <1>7 DEF Use
  <2>2. halted' \/ UNCHANGED <<phase, halted>>
    BY <1>7 DEF Use, P!switch_page_directory, P!Evict, P!Access, P!Halt
  <2> QED  BY <1>1, <1>2, <2>1, <2>2
<1>8. ASSUME NEW p \in Requests, MapIdentity(p) PROVE Held' /\ Kept'
  <2>1. P!MapOnto(FrameOf(ret'), p) /\ phase \in {"heap", "open"} /\ UNCHANGED got
    BY <1>8 DEF MapIdentity
  <2>2. ~P!MapAsks(p)  BY <2>1, NearAsksNothing DEF KInv
  <2>3. UNCHANGED pmmVars  BY <1>8, <2>2 DEF MapIdentity
  <2>4. halted' \/ UNCHANGED <<phase, halted>>  BY <2>1 DEF P!MapOnto, P!Halt
  <2> QED  BY <1>1, <1>2, <2>1, <2>3, <2>4
<1>9. CASE UNCHANGED vars
  BY <1>2, <1>9 DEF vars, pagingVars
<1> QED  BY <1>3, <1>4, <1>5, <1>6, <1>7, <1>8, <1>9 DEF Next, kernel_main

LEMMA KInvInit == Init => KInv
<1> SUFFICES ASSUME Init PROVE KInv
  OBVIOUS
<1>1. pc = "pmm_init" /\ phase = "boot" /\ got = <<>> /\ held = [b \in M!Block |-> 0]
  BY DEF Init, M!Init
<1>2. M!Out = {}  BY <1>1 DEF M!Out
<1>3. Links
  <2>1. \A s \in P!Slot : [present |-> FALSE, frame |-> 0]
                              \in [present : BOOLEAN, frame : 0 .. LastFrame]
    BY LastBlock
  <2>2. dir = [s \in P!Slot |-> [present |-> FALSE, frame |-> 0]]  BY DEF Init
  <2>3. dir \in [P!Slot -> [present : BOOLEAN, frame : 0 .. LastFrame]]
    BY <2>1, <2>2
  <2> QED  BY <1>1, <2>3 DEF Links
<1>4. Held  BY <1>1, <1>2 DEF Held
<1>5. Kept
  <2>1. Cardinality({}) = 0 /\ Asked = 0  BY <1>1, FS_EmptySet DEF Asked
  <2> QED  BY <1>1, <1>2, <2>1 DEF Kept
<1> QED  BY <1>3, <1>4, <1>5, InitInv DEF KInv

(* linker.ld:65-69 on boards with four free blocks below the kernel: nobody *)
(* is given a block of the kernel image or of the bitmap behind it, as long *)
(* as the programs and their stacks lie in the first 4 MB or next to the    *)
(* heap.                                                                    *)
THEOREM KernelKept == Near => (Spec => []BootKeepsKernel)
<1> SUFFICES ASSUME Near PROVE Spec => []BootKeepsKernel
  OBVIOUS
<1>1. Init => KInv  BY KInvInit
<1>2. KInv /\ [Next]_vars => KInv'
  <2> SUFFICES ASSUME KInv, [Next]_vars PROVE KInv'
    OBVIOUS
  <2>1. BInv'  BY NextRefines DEF KInv
  <2> QED  BY <2>1, LinksSteps, KernelSteps DEF KInv
<1>3. KInv => BootKeepsKernel
  <2> SUFFICES ASSUME KInv, Cardinality(BelowKernel(info)) >= 4,
                      NEW b \in M!Out, b \in KernelImage
               PROVE  FALSE
    BY DEF BootKeepsKernel, M!KernelNeverHandedOut
  <2>1. b \in BelowKernel(info)  BY DEF KInv, Kept
  <2>2. b < b  BY <2>1 DEF BelowKernel
  <2>3. b \in Int  BY BootAssumption, LastBlock
  <2> QED  BY <2>2, <2>3
<1> QED  BY <1>1, <1>2, <1>3, PTL DEF Spec
================================================================================
