------------------------------- MODULE PMMProofs -------------------------------
(***************************************************************************)
(* Theorems about PMM for every board: any block size, any word width, any  *)
(* memory map.  The inductive invariant is IInv below.                      *)
(***************************************************************************)
EXTENDS PMM, NatLemmas, TLAPS

(* First fit returns a clear bit of the scanned words, or nothing.          *)
LEMMA FirstFree ==
  ASSUME Tracked \subseteq Nat
  PROVE  \/ Tracked \ pmm_bitmap = {} /\ pmm_first_free = OOM
         \/ pmm_first_free \in Tracked \ pmm_bitmap
<1> DEFINE clear == Tracked \ pmm_bitmap
<1>1. CASE clear = {}  BY <1>1 DEF pmm_first_free
<1>2. CASE clear # {}
  <2>1. \E x \in clear : \A y \in clear : x <= y  BY <1>2, LeastElement
  <2>2. Min(clear) \in clear  BY <2>1 DEF Min
  <2> QED  BY <1>2, <2>2 DEF pmm_first_free
<1> QED  BY <1>1, <1>2
--------------------------------------------------------------------------------
(***************************************************************************)
(* The inductive invariant.  Owned ties the callers' view to the bitmap:    *)
(* what is held is marked, and was in a scanned word.  Counted bounds the   *)
(* counter from both sides: by the marked blocks and by the clear ones.     *)
(***************************************************************************)
Clear == Tracked \ pmm_bitmap

Typed ==
  /\ info \in BootInfos
  /\ pc \in {"pmm_init", "parse", "lock", "up"}
  /\ total_blocks \in 0 .. (AddrSpace \div BLOCK_SIZE)
  /\ used_blocks \in Int
  /\ pmm_bitmap \subseteq Block
  /\ held \in [Block -> Nat]
  /\ ret \in {b * BLOCK_SIZE : b \in Block} \cup {OOM}

Owned ==
  /\ \A b \in Block : held[b] > 0 => b \in pmm_bitmap /\ b \in Tracked
  /\ \A b \in Block : held[b] <= 1
  /\ held[0] = 0
  /\ ret # 0

Booting ==
  /\ pc # "up" => ret = OOM /\ \A b \in Block : held[b] = 0
  /\ pc = "up" => 0 \in pmm_bitmap
  /\ pc = "pmm_init" => total_blocks = 0 /\ used_blocks = 0 /\ pmm_bitmap = {}

Counted ==
  /\ pc # "pmm_init" => Cardinality(InUse) <= used_blocks
  /\ used_blocks + Cardinality(Clear)
       <= total_blocks + (IF pc = "up" THEN 1 ELSE 0)

IInv == Typed /\ Owned /\ Booting /\ Counted
--------------------------------------------------------------------------------
(* The scanned words cover existing blocks only; all of it is finite.       *)
LEMMA Words ==
  ASSUME NEW t \in 0 .. (AddrSpace \div BLOCK_SIZE)
  PROVE  /\ 0 .. (t \div WordBits) * WordBits - 1 \subseteq 0 .. t - 1
         /\ 0 .. t - 1 \subseteq Block
         /\ t \in Nat
<1>1. AddrSpace \div BLOCK_SIZE \in Nat  BY SizeAssumption, DivNat
<1>2. t \in Nat  BY <1>1
<1>3. (t \div WordBits) * WordBits <= t  BY <1>2, SizeAssumption, DivMulBelow
<1>4. t \div WordBits \in Nat  BY <1>2, SizeAssumption, DivNat
<1>5. (t \div WordBits) * WordBits \in Nat  BY <1>4, SizeAssumption
<1>6. 0 .. (t \div WordBits) * WordBits - 1 \subseteq 0 .. t - 1
  BY <1>2, <1>3, <1>5
<1>7. 0 .. t - 1 \subseteq Block  BY <1>1, <1>2 DEF Block
<1> QED  BY <1>2, <1>6, <1>7

(* In a typed state every set that is counted is finite.                    *)
LEMMA Finite ==
  ASSUME Typed
  PROVE  /\ IsFiniteSet(Block) /\ Block \subseteq Nat
         /\ Tracked \subseteq 0 .. total_blocks - 1 /\ Tracked \subseteq Block
         /\ IsFiniteSet(Tracked) /\ IsFiniteSet(Clear) /\ IsFiniteSet(InUse)
         /\ total_blocks \in Nat
<1>1. AddrSpace \div BLOCK_SIZE \in Nat  BY SizeAssumption, DivNat
<1>2. IsFiniteSet(Block) /\ Block \subseteq Nat
  <2> DEFINE top == (AddrSpace \div BLOCK_SIZE) - 1
  <2>1. Block = 0 .. top /\ 0 \in Int /\ top \in Int  BY <1>1 DEF Block
  <2> HIDE DEF top
  <2>2. IsFiniteSet(0 .. top)  BY <2>1, FS_Interval
  <2> QED  BY <2>1, <2>2
<1>3. Tracked \subseteq 0 .. total_blocks - 1 /\ Tracked \subseteq Block
      /\ total_blocks \in Nat
  BY Words DEF Typed, Tracked
<1>4. Clear \subseteq Block /\ InUse \subseteq Block
  BY <1>3 DEF Clear, InUse, Typed
<1> QED  BY <1>2, <1>3, <1>4, FS_Subset

(* There is a block 0, and OOM is not the address of any block.             *)
LEMMA BlockZero == 0 \in Block /\ OOM # 0 /\ OOM \in Nat
<1>1. AddrSpace >= BLOCK_SIZE
  <2> SUFFICES ASSUME AddrSpace < BLOCK_SIZE PROVE FALSE
    BY SizeAssumption
  <2>1. AddrSpace % BLOCK_SIZE = AddrSpace  BY SizeAssumption
  <2> QED  BY <2>1, SizeAssumption
<1>2. AddrSpace \div BLOCK_SIZE >= 1  BY <1>1, SizeAssumption
<1>3. AddrSpace \div BLOCK_SIZE \in Nat  BY SizeAssumption, DivNat
<1> QED  BY <1>1, <1>2, <1>3, SizeAssumption DEF Block, OOM

(* What one or many pmm_free_memory calls do to the bitmap and the counter. *)
LEMMA FreeEffect ==
  ASSUME Typed, NEW A, pmm_free_memory(A), UNCHANGED total_blocks
  PROVE  /\ Cleared(A) \subseteq InUse
         /\ pmm_bitmap' \subseteq Block /\ used_blocks' \in Int
         /\ used_blocks' <= used_blocks
         /\ Cardinality(InUse) <= used_blocks =>
               Cardinality(InUse') <= used_blocks'
         /\ Cardinality(InUse) = used_blocks => Cardinality(InUse') = used_blocks'
         /\ used_blocks' + Cardinality(Clear') <= used_blocks + Cardinality(Clear)
         /\ Cardinality(Clear) \in Nat /\ Cardinality(Clear') \in Nat
<1> DEFINE C == Cleared(A)
<1>1. C \subseteq InUse  BY DEF Cleared, InUse
<1>2. IsFiniteSet(InUse) /\ IsFiniteSet(Clear) /\ IsFiniteSet(C)
  BY <1>1, Finite, FS_Subset
<1>3. InUse' = InUse \ C  BY DEF InUse, pmm_free_memory
<1>4. InUse \cap C = C  BY <1>1
<1>5. Cardinality(InUse') = Cardinality(InUse) - Cardinality(C)
  BY <1>2, <1>3, <1>4, FS_Difference
<1>6. Cardinality(C) \in Nat /\ Cardinality(InUse) \in Nat
      /\ Cardinality(Clear) \in Nat
  BY <1>2, FS_CardinalityType
<1>7. used_blocks' = used_blocks - Cardinality(C)  BY DEF pmm_free_memory
<1>8. Clear' \subseteq Clear \cup C  BY DEF Clear, Tracked, pmm_free_memory
<1>9. IsFiniteSet(Clear \cup C)
      /\ Cardinality(Clear \cup C) <= Cardinality(Clear) + Cardinality(C)
  <2>1. IsFiniteSet(Clear \cap C)  BY <1>2, FS_Intersection
  <2>2. Cardinality(Clear \cap C) \in Nat  BY <2>1, FS_CardinalityType
  <2> HIDE DEF C
  <2>3. /\ IsFiniteSet(Clear \cup C)
        /\ Cardinality(Clear \cup C) =
             Cardinality(Clear) + Cardinality(C) - Cardinality(Clear \cap C)
    BY <1>2, FS_Union
  <2> QED  BY <1>6, <2>2, <2>3
<1>10. Cardinality(Clear') <= Cardinality(Clear \cup C) /\ Cardinality(Clear') \in Nat
  BY <1>8, <1>9, FS_Subset, FS_CardinalityType
<1>11. Cardinality(Clear \cup C) \in Nat  BY <1>9, FS_CardinalityType
<1>12. pmm_bitmap' \subseteq Block  BY DEF pmm_free_memory, Typed
<1>13. used_blocks \in Int  BY DEF Typed
<1>14. Cardinality(Clear') <= Cardinality(Clear) + Cardinality(C)
  BY <1>6, <1>9, <1>10, <1>11
<1> HIDE DEF C
<1>15. used_blocks' \in Int /\ used_blocks' <= used_blocks  BY <1>6, <1>7, <1>13
<1>16. /\ Cardinality(InUse) <= used_blocks => Cardinality(InUse') <= used_blocks'
       /\ Cardinality(InUse) = used_blocks => Cardinality(InUse') = used_blocks'
  BY <1>5, <1>6, <1>7, <1>13
<1>17. used_blocks' + Cardinality(Clear') <= used_blocks + Cardinality(Clear)
  BY <1>6, <1>7, <1>10, <1>13, <1>14
<1> USE DEF C
<1> QED  BY <1>1, <1>6, <1>10, <1>12, <1>15, <1>16, <1>17
--------------------------------------------------------------------------------
(* Before kernel_main calls pmm_init the invariant holds: nothing is used.  *)
LEMMA InitInv == Init => IInv
<1> SUFFICES ASSUME Init PROVE IInv
  OBVIOUS
<1>1. AddrSpace \div BLOCK_SIZE \in Nat  BY SizeAssumption, DivNat
<1>2. Typed  BY <1>1, BlockZero DEF Init, Typed
<1>3. Owned  BY BlockZero DEF Init, Owned
<1>4. Booting  BY DEF Init, Booting
<1>5. Tracked = {}
  <2>1. 0 .. (0 \div WordBits) * WordBits - 1 \subseteq 0 .. 0 - 1
    BY <1>1, Words
  <2> QED  BY <2>1 DEF Tracked, Init
<1>6. Clear = {}  BY <1>5 DEF Clear
<1>7. Counted  BY <1>6, FS_EmptySet DEF Counted, Init
<1> QED  BY <1>2, <1>3, <1>4, <1>7 DEF IInv

(* pmm_init marks every tracked block and counts all of them as used.       *)
LEMMA PmmInitStep == IInv /\ pmm_init => IInv'
<1> SUFFICES ASSUME IInv, pmm_init PROVE IInv'
  OBVIOUS
<1> USE DEF IInv
<1>1. total_blocks' \in 0 .. (AddrSpace \div BLOCK_SIZE)
  <2>1. info.mem \in Nat
    BY InputAssumption DEF Typed, BootInfo
  <2>2. info.mem % AddrSpace \in 0 .. AddrSpace - 1
    BY <2>1, ModNat, SizeAssumption
  <2>4. info.mem % AddrSpace \in Nat /\ AddrSpace \in Nat
        /\ info.mem % AddrSpace <= AddrSpace /\ BLOCK_SIZE \in Nat \ {0}
    BY <2>2, SizeAssumption
  <2>3. total_blocks' = (info.mem % AddrSpace) \div BLOCK_SIZE  BY DEF pmm_init
  <2>5. (info.mem % AddrSpace) \div BLOCK_SIZE \in Nat
        /\ AddrSpace \div BLOCK_SIZE \in Nat
    BY <2>4, DivNat
  <2>6. (info.mem % AddrSpace) \div BLOCK_SIZE <= AddrSpace \div BLOCK_SIZE
    BY <2>4, DivMonotone
  <2> QED  BY <2>3, <2>5, <2>6
<1>2. Tracked' \subseteq 0 .. total_blocks' - 1 /\ 0 .. total_blocks' - 1 \subseteq Block
      /\ total_blocks' \in Nat
  BY <1>1, Words DEF Tracked
<1>3. PICK garbage \in SUBSET (Block \ Tracked') : pmm_bitmap' = Tracked' \cup garbage
  BY DEF pmm_init
<1>4. used_blocks' = total_blocks'  BY DEF pmm_init
<1>5. Typed'
  <2>1. pmm_bitmap' \subseteq Block  BY <1>2, <1>3
  <2>2. used_blocks' \in Int  BY <1>2, <1>4
  <2>3. Block' = Block /\ OOM' = OOM  BY DEF Block, OOM
  <2> QED  BY <1>1, <2>1, <2>2, <2>3 DEF Typed, pmm_init
<1>6. Owned'  BY DEF Owned, Booting, pmm_init
<1>7. Booting'  BY DEF Booting, pmm_init
<1>8. Counted'
  <2>1. InUse' \subseteq 0 .. total_blocks' - 1
    <3>1. Block \subseteq Nat  BY Finite
    <3>2. pmm_bitmap' \subseteq Block  BY <1>2, <1>3
    <3>3. total_blocks' \in Nat  BY <1>2
    <3>4. InUse' = {b \in pmm_bitmap' : b < total_blocks'}  BY DEF InUse
    <3>5. ASSUME NEW b \in pmm_bitmap', b < total_blocks'
          PROVE  b \in 0 .. total_blocks' - 1
      <4>1. b \in Nat  BY <3>1, <3>2
      <4>2. \A n \in Nat, c \in Nat : c < n => c \in 0 .. n - 1  OBVIOUS
      <4> QED  BY <3>3, <3>5, <4>1, <4>2
    <3> QED  BY <3>4, <3>5
  <2>2. Cardinality(0 .. total_blocks' - 1) = total_blocks'
        /\ IsFiniteSet(0 .. total_blocks' - 1)
    <3>1. \A n \in Nat : IsFiniteSet(0 .. n - 1) /\ Cardinality(0 .. n - 1) = n
      <4> SUFFICES ASSUME NEW n \in Nat
                   PROVE  IsFiniteSet(0 .. n - 1) /\ Cardinality(0 .. n - 1) = n
        OBVIOUS
      <4>1. n - 1 \in Int /\ 0 \in Int  OBVIOUS
      <4>2. Cardinality(0 .. n - 1) = (IF 0 > n - 1 THEN 0 ELSE (n - 1) - 0 + 1)
            /\ IsFiniteSet(0 .. n - 1)
        BY <4>1, FS_Interval
      <4> QED  BY <4>2
    <3>2. total_blocks' \in Nat  BY <1>2
    <3> QED  BY <3>1, <3>2
  <2>3. Cardinality(InUse') <= total_blocks'  BY <2>1, <2>2, FS_Subset
  <2>4. Clear' = {}  BY <1>3 DEF Clear
  <2>5. Cardinality(Clear') = 0  BY <2>4, FS_EmptySet
  <2> QED  BY <1>2, <1>4, <2>3, <2>5 DEF Counted, pmm_init
<1> QED  BY <1>5, <1>6, <1>7, <1>8

(* parse_memory_map clears blocks, once each, before anyone holds one.      *)
LEMMA ParseStep == IInv /\ parse_memory_map => IInv'
<1> SUFFICES ASSUME IInv, parse_memory_map PROVE IInv'
  OBVIOUS
<1> USE DEF IInv
<1>1. PICK A : pmm_free_memory(A)  BY DEF parse_memory_map
<1>2. /\ pmm_bitmap' \subseteq Block /\ used_blocks' \in Int
      /\ Cardinality(InUse) <= used_blocks => Cardinality(InUse') <= used_blocks'
      /\ used_blocks' + Cardinality(Clear') <= used_blocks + Cardinality(Clear)
      /\ Cardinality(Clear) \in Nat /\ Cardinality(Clear') \in Nat
  BY <1>1, FreeEffect DEF parse_memory_map
<1>3. Typed'  BY <1>2 DEF Typed, parse_memory_map
<1>4. Owned'  BY DEF Owned, Booting, parse_memory_map, Tracked
<1>5. Booting'  BY DEF Booting, parse_memory_map
<1>6. Counted'
  <2>1. total_blocks \in Nat /\ used_blocks \in Int  BY Finite DEF Typed
  <2>2. Cardinality(InUse) <= used_blocks
        /\ used_blocks + Cardinality(Clear) <= total_blocks
    <3>1. pc = "parse"  BY DEF parse_memory_map
    <3>2. total_blocks + 0 = total_blocks  BY <2>1
    <3> QED  BY <3>1, <3>2 DEF Counted
  <2>3. Cardinality(InUse') <= used_blocks'  BY <1>2, <2>2
  <2>4. used_blocks' + Cardinality(Clear') <= total_blocks
    BY <1>2, <2>1, <2>2
  <2>5. pc' = "lock" /\ total_blocks' = total_blocks  BY DEF parse_memory_map
  <2> QED  BY <2>1, <2>3, <2>4, <2>5 DEF Counted
<1> QED  BY <1>3, <1>4, <1>5, <1>6

(* Locking block 0 may count it twice: Counted allows the one extra.        *)
LEMMA LockStep == IInv /\ pmm_lock_memory => IInv'
<1> SUFFICES ASSUME IInv, pmm_lock_memory PROVE IInv'
  OBVIOUS
<1> USE DEF IInv
<1>0. BlockOf(0) = 0  BY SizeAssumption DEF BlockOf
<1>1. Typed'  BY <1>0, BlockZero DEF Typed, pmm_lock_memory
<1>2. Owned'  BY DEF Owned, Booting, pmm_lock_memory, Tracked
<1>3. Booting'  BY <1>0 DEF Booting, pmm_lock_memory
<1>4. Counted'
  <2>1. InUse' \subseteq InUse \cup {0}  BY <1>0 DEF InUse, pmm_lock_memory
  <2>2. IsFiniteSet(InUse) /\ IsFiniteSet(Clear) /\ total_blocks \in Nat
    BY Finite
  <2>3. Cardinality(InUse) \in Nat /\ Cardinality(Clear) \in Nat
    BY <2>2, FS_CardinalityType
  <2>4. IsFiniteSet(InUse \cup {0})
        /\ Cardinality(InUse \cup {0}) <= Cardinality(InUse) + 1
    BY <2>2, <2>3, FS_AddElement
  <2>5. Cardinality(InUse \cup {0}) \in Nat /\ Cardinality(InUse') \in Nat
        /\ Cardinality(InUse') <= Cardinality(InUse \cup {0})
    BY <2>1, <2>4, FS_Subset, FS_CardinalityType
  <2>6. Clear' \subseteq Clear  BY DEF Clear, Tracked, pmm_lock_memory
  <2>7. Cardinality(Clear') <= Cardinality(Clear) /\ Cardinality(Clear') \in Nat
    BY <2>2, <2>6, FS_Subset, FS_CardinalityType
  <2>8. used_blocks \in Int /\ used_blocks' = used_blocks + 1
        /\ total_blocks' = total_blocks /\ pc = "lock" /\ pc' = "up"
    BY DEF pmm_lock_memory, Typed
  <2>9. Cardinality(InUse) <= used_blocks
        /\ used_blocks + Cardinality(Clear) <= total_blocks
    BY <2>2, <2>3, <2>8 DEF Counted
  <2> QED  BY <2>2, <2>3, <2>4, <2>5, <2>7, <2>8, <2>9 DEF Counted
<1> QED  BY <1>1, <1>2, <1>3, <1>4
--------------------------------------------------------------------------------
(* pmm_alloc_block either changes nothing but its answer, or marks a clear  *)
(* bit of a scanned word and hands out exactly that block.                  *)
LEMMA AllocCases ==
  ASSUME Typed, pmm_alloc_block
  PROVE  \/ /\ Clear = {} /\ ret' = OOM
            /\ UNCHANGED <<info, pc, total_blocks, used_blocks, pmm_bitmap, held>>
         \/ \E b \in Clear :
              /\ pmm_bitmap' = pmm_bitmap \cup {b}
              /\ used_blocks' = used_blocks + 1
              /\ held' = [held EXCEPT ![b] = @ + 1]
              /\ ret' = b * BLOCK_SIZE
              /\ UNCHANGED <<info, pc, total_blocks>>
<1>1. Tracked \subseteq Nat  BY Finite
<1>2. CASE pmm_first_free = OOM
  <2>1. OOM \notin Tracked
    <3>1. AddrSpace \div BLOCK_SIZE <= AddrSpace - 1
      BY SizeAssumption
    <3>2. \A b \in Block : b < AddrSpace \div BLOCK_SIZE
      BY SizeAssumption, DivNat DEF Block
    <3>3. AddrSpace \div BLOCK_SIZE \in Nat /\ AddrSpace \in Nat
      BY SizeAssumption, DivNat
    <3> QED  BY <3>1, <3>2, <3>3, Finite DEF OOM
  <2>2. Clear = {}  BY <1>1, <1>2, <2>1, FirstFree DEF Clear
  <2> QED  BY <1>2, <2>2 DEF pmm_alloc_block
<1>3. CASE pmm_first_free # OOM
  <2>1. pmm_first_free \in Clear  BY <1>1, <1>3, FirstFree DEF Clear
  <2> QED  BY <1>3, <2>1 DEF pmm_alloc_block
<1> QED  BY <1>2, <1>3

(* An allocation marks a block that was clear, hence nobody's.              *)
LEMMA AllocStep == IInv /\ pmm_alloc_block => IInv'
<1> SUFFICES ASSUME IInv, pmm_alloc_block PROVE IInv'
  OBVIOUS
<1> USE DEF IInv
<1>0. pc = "up" /\ pc' = "up"  BY DEF pmm_alloc_block
<1>1. CASE /\ Clear = {} /\ ret' = OOM
           /\ UNCHANGED <<info, pc, total_blocks, used_blocks, pmm_bitmap, held>>
  <2>1. Typed'  BY <1>1 DEF Typed
  <2>2. Owned'  BY <1>1, BlockZero DEF Owned, Tracked
  <2>3. Booting'  BY <1>0, <1>1 DEF Booting
  <2>4. Counted'  BY <1>1 DEF Counted, InUse, Clear, Tracked
  <2> QED  BY <2>1, <2>2, <2>3, <2>4
<1>2. ASSUME NEW b \in Clear,
             pmm_bitmap' = pmm_bitmap \cup {b}, used_blocks' = used_blocks + 1,
             held' = [held EXCEPT ![b] = @ + 1], ret' = b * BLOCK_SIZE,
             UNCHANGED <<info, pc, total_blocks>>
      PROVE  IInv'
  <2>1. b \in Block /\ b \in Tracked /\ b \notin pmm_bitmap /\ b < total_blocks
        /\ total_blocks \in Nat
    BY Finite DEF Clear
  <2>2. b # 0 /\ b \in Nat  BY <1>0, <2>1, Finite DEF Booting
  <2>3. held[b] = 0 /\ held' = [held EXCEPT ![b] = 1]
    <3>1. held[b] \in Nat /\ ~(held[b] > 0)  BY <2>1 DEF Owned, Typed
    <3>2. held[b] = 0 /\ held[b] + 1 = 1  BY <3>1
    <3> QED  BY <1>2, <3>2
  <2>4. Typed'  BY <1>2, <2>1, <2>3 DEF Typed
  <2>5. Owned'
    <3>1. b * BLOCK_SIZE # 0  BY <2>2, SizeAssumption
    <3>2. Tracked' = Tracked  BY <1>2 DEF Tracked
    <3> QED  BY <1>2, <2>1, <2>2, <2>3, <3>1, <3>2 DEF Owned, Typed
  <2>6. Booting'  BY <1>0, <1>2 DEF Booting
  <2>7. Counted'
    <3>1. IsFiniteSet(InUse) /\ IsFiniteSet(Clear)  BY Finite
    <3>2. InUse' = InUse \cup {b} /\ b \notin InUse
      BY <1>2, <2>1 DEF InUse
    <3>3. Cardinality(InUse') = Cardinality(InUse) + 1
      BY <3>1, <3>2, FS_AddElement
    <3>4. Clear' = Clear \ {b}  BY <1>2 DEF Clear, Tracked
    <3>5. Cardinality(Clear') = Cardinality(Clear) - 1
      BY <3>1, <3>4, FS_RemoveElement
    <3>6. Cardinality(InUse) \in Nat /\ Cardinality(Clear) \in Nat
          /\ used_blocks \in Int
      BY <3>1, FS_CardinalityType DEF Typed
    <3>7. Cardinality(InUse) <= used_blocks
          /\ used_blocks + Cardinality(Clear) <= total_blocks + 1
      BY <1>0 DEF Counted
    <3> QED  BY <1>0, <1>2, <2>1, <3>3, <3>5, <3>6, <3>7 DEF Counted
  <2> QED  BY <2>4, <2>5, <2>6, <2>7
<1> QED  BY <1>1, <1>2, AllocCases

(* A call that clears anything clears one block, and its caller held it.    *)
LEMMA FreeCases ==
  ASSUME IInv, NEW a \in FreeArgs, FreeBlock(a)
  PROVE  \/ Cleared({a}) = {} /\ UNCHANGED <<pmm_bitmap, held>>
         \/ \E b \in Block :
              /\ Cleared({a}) = {b} /\ held[b] = 1 /\ b \in pmm_bitmap
              /\ pmm_bitmap' = pmm_bitmap \ {b}
              /\ held' = [held EXCEPT ![b] = 0]
<1> USE DEF IInv
<1> DEFINE b == BlockOf(a)
<1>1. Cleared({a}) = IF b < total_blocks /\ b \in pmm_bitmap THEN {b} ELSE {}
  BY DEF Cleared
<1>2. CASE b < total_blocks /\ b \in pmm_bitmap
  <2>1. b \in Block /\ held[b] > 0  BY <1>2 DEF FreeBlock, CallerMayFree, Typed
  <2>2. held[b] \in Nat /\ held[b] <= 1  BY <2>1 DEF Owned, Typed
  <2>3. held[b] = 1  BY <2>1, <2>2
  <2>4. held' = [held EXCEPT ![b] = 0]
    <3>1. held' = [c \in Block |-> IF c \in {b} THEN held[c] - 1 ELSE held[c]]
      BY <1>1, <1>2 DEF FreeBlock
    <3>2. held \in [Block -> Nat] /\ held[b] - 1 = 0  BY <2>3 DEF Typed
    <3> HIDE DEF b
    <3> QED  BY <2>1, <3>1, <3>2
  <2> QED  BY <1>1, <1>2, <2>1, <2>3, <2>4 DEF FreeBlock, pmm_free_memory
<1>3. CASE ~(b < total_blocks /\ b \in pmm_bitmap)
  <2>1. Cleared({a}) = {}  BY <1>1, <1>3
  <2>2. held' = held  BY <2>1 DEF FreeBlock, Typed
  <2> QED  BY <2>1, <2>2 DEF FreeBlock, pmm_free_memory
<1> QED  BY <1>2, <1>3

(* A release takes the block from the one caller that held it.              *)
LEMMA FreeStep == ASSUME NEW a \in FreeArgs, IInv, FreeBlock(a) PROVE IInv'
<1> USE DEF IInv
<1>1. UNCHANGED <<info, pc, total_blocks, ret>> /\ pc = "up" /\ pmm_free_memory({a})
  BY DEF FreeBlock
<1>2. /\ pmm_bitmap' \subseteq Block /\ used_blocks' \in Int
      /\ Cardinality(InUse) <= used_blocks => Cardinality(InUse') <= used_blocks'
      /\ used_blocks' + Cardinality(Clear') <= used_blocks + Cardinality(Clear)
      /\ Cardinality(Clear) \in Nat /\ Cardinality(Clear') \in Nat
  BY <1>1, FreeEffect
<1>3. Tracked' = Tracked  BY <1>1 DEF Tracked
<1>4. Typed'
  <2>1. held' \in [Block -> Nat]
    <3>1. held \in [Block -> Nat]  BY DEF Typed
    <3>2. held' = held \/ \E b \in Block : held' = [held EXCEPT ![b] = 0]
      BY FreeCases
    <3> QED  BY <3>1, <3>2
  <2> QED  BY <1>1, <1>2, <2>1 DEF Typed
<1>5. Owned'
  <2>1. CASE UNCHANGED <<pmm_bitmap, held>>  BY <1>1, <1>3, <2>1 DEF Owned
  <2>2. ASSUME NEW b \in Block, held[b] = 1,
               pmm_bitmap' = pmm_bitmap \ {b}, held' = [held EXCEPT ![b] = 0]
        PROVE  Owned'
    <3>1. b # 0  BY <2>2 DEF Owned
    <3> QED  BY <1>1, <1>3, <2>2, <3>1 DEF Owned, Typed
  <2> QED  BY <2>1, <2>2, FreeCases
<1>6. Booting'
  <2>1. 0 \in pmm_bitmap'
    <3>1. 0 \in pmm_bitmap /\ held[0] = 0  BY <1>1 DEF Booting, Owned
    <3>2. pmm_bitmap' = pmm_bitmap
          \/ \E b \in Block : held[b] = 1 /\ pmm_bitmap' = pmm_bitmap \ {b}
      BY FreeCases
    <3> QED  BY <3>1, <3>2
  <2> QED  BY <1>1, <2>1 DEF Booting
<1>7. Counted'
  <2>1. total_blocks \in Nat /\ used_blocks \in Int  BY Finite DEF Typed
  <2>2. Cardinality(InUse) <= used_blocks
        /\ used_blocks + Cardinality(Clear) <= total_blocks + 1
    BY <1>1, <2>1 DEF Counted
  <2>3. Cardinality(InUse') <= used_blocks'  BY <1>2, <2>2
  <2>4. used_blocks' + Cardinality(Clear') <= total_blocks + 1
    BY <1>2, <2>1, <2>2
  <2>5. pc' = "up" /\ total_blocks' = total_blocks  BY <1>1
  <2> QED  BY <2>1, <2>3, <2>4, <2>5 DEF Counted
<1> QED  BY <1>4, <1>5, <1>6, <1>7
--------------------------------------------------------------------------------
(* Every step of the manager keeps the invariant.                           *)
LEMMA NextInv == IInv /\ [Next]_vars => IInv'
<1> SUFFICES ASSUME IInv, [Next]_vars PROVE IInv'
  OBVIOUS
<1>1. CASE pmm_init  BY <1>1, PmmInitStep
<1>2. CASE parse_memory_map  BY <1>2, ParseStep
<1>3. CASE pmm_lock_memory  BY <1>3, LockStep
<1>4. CASE pmm_alloc_block  BY <1>4, AllocStep
<1>5. ASSUME NEW a \in FreeArgs, FreeBlock(a) PROVE IInv'  BY <1>5, FreeStep
<1>6. CASE UNCHANGED vars
  BY <1>6 DEF vars, IInv, Typed, Owned, Booting, Counted, InUse, Clear, Tracked
<1> QED  BY <1>1, <1>2, <1>3, <1>4, <1>5, <1>6 DEF Next

(* The inductive invariant holds in every reachable state of every board.   *)
THEOREM Invariance == Spec => []IInv
  BY InitInv, NextInv, PTL DEF Spec

(* The counter stays within 0 .. total_blocks + 1: it never wraps.          *)
THEOREM TypeCorrect == Spec => []TypeOK
<1>1. IInv => TypeOK
  <2> SUFFICES ASSUME IInv PROVE TypeOK
    OBVIOUS
  <2>1. total_blocks \in Nat /\ used_blocks \in Int /\ Typed  BY Finite DEF IInv, Typed
  <2>2. Cardinality(InUse) \in Nat /\ Cardinality(Clear) \in Nat
    BY <2>1, Finite, FS_CardinalityType
  <2>3. used_blocks + Cardinality(Clear) <= total_blocks + 1
    BY <2>1, <2>2 DEF IInv, Counted
  <2>4. 0 <= used_blocks
    <3>1. CASE pc = "pmm_init"  BY <3>1 DEF IInv, Booting
    <3>2. CASE pc # "pmm_init"  BY <2>1, <2>2, <3>2 DEF IInv, Counted
    <3> QED  BY <3>1, <3>2
  <2>5. used_blocks \in 0 .. total_blocks + 1  BY <2>1, <2>2, <2>3, <2>4
  <2> QED  BY <2>1, <2>5 DEF TypeOK, Typed
<1> QED  BY <1>1, Invariance, PTL

(* No block has two owners, on any board and for any sequence of calls.     *)
THEOREM Exclusive == Spec => []ExclusiveOwnership
<1>1. IInv => ExclusiveOwnership  BY DEF IInv, Owned, ExclusiveOwnership
<1> QED  BY <1>1, Invariance, PTL

(* The address 0 is never handed out: the claim of kernel.c:80-85.          *)
THEOREM NoNull == Spec => []NullNeverReturned
<1>1. IInv => NullNeverReturned  BY DEF IInv, Owned, NullNeverReturned
<1> QED  BY <1>1, Invariance, PTL

(* The counter never reports fewer blocks than are marked.                  *)
THEOREM NeverUnderstated == Spec => []UsedNeverUnderstated
<1>1. IInv => UsedNeverUnderstated  BY DEF IInv, Counted, UsedNeverUnderstated
<1> QED  BY <1>1, Invariance, PTL
--------------------------------------------------------------------------------
(***************************************************************************)
(* Refinement: every step of the manager is a step of BlockPool or leaves   *)
(* the pool alone.  The pool is empty until the lock of block 0 is done.    *)
(***************************************************************************)
PoolFree == {b * BLOCK_SIZE : b \in IF pc = "up" THEN Tracked \ pmm_bitmap ELSE {}}
PoolOut == {b * BLOCK_SIZE : b \in Out}

(* Removing one block from a set removes one address.                       *)
LEMMA Scaled ==
  ASSUME NEW S \in SUBSET Nat, NEW b \in Nat
  PROVE  {c * BLOCK_SIZE : c \in S \ {b}} =
           {c * BLOCK_SIZE : c \in S} \ {b * BLOCK_SIZE}
<1>1. \A c \in S : c * BLOCK_SIZE = b * BLOCK_SIZE => c = b
  BY MulInjective, SizeAssumption
<1> QED  BY <1>1

(* Before boot the pool is empty.                                           *)
LEMMA RefineInit == Init => Pool!Init
<1> SUFFICES ASSUME Init PROVE Pool!Init
  OBVIOUS
<1>1. Out = {}  BY DEF Init, Out
<1> QED  BY <1>1 DEF Init, Pool!Init

(* pmm_alloc_block takes an address from the pool, or it is empty.          *)
LEMMA RefineAlloc == IInv /\ pmm_alloc_block => Pool!Next \/ UNCHANGED Pool!vars
<1> SUFFICES ASSUME IInv, pmm_alloc_block PROVE Pool!Next
  OBVIOUS
<1> USE DEF IInv
<1>0. pc = "up" /\ pc' = "up"  BY DEF pmm_alloc_block
<1>1. CASE /\ Clear = {} /\ ret' = OOM
           /\ UNCHANGED <<info, pc, total_blocks, used_blocks, pmm_bitmap, held>>
  <2>1. PoolFree = {}  BY <1>0, <1>1 DEF PoolFree, Clear
  <2>2. PoolFree' = PoolFree /\ PoolOut' = PoolOut
    BY <1>1 DEF PoolFree, PoolOut, Out, Tracked
  <2>3. Pool!Refuse  BY <1>1, <2>1, <2>2 DEF Pool!Refuse, PoolFree, PoolOut
  <2> QED  BY <2>3 DEF Pool!Next
<1>2. ASSUME NEW b \in Clear,
             pmm_bitmap' = pmm_bitmap \cup {b}, used_blocks' = used_blocks + 1,
             held' = [held EXCEPT ![b] = @ + 1], ret' = b * BLOCK_SIZE,
             UNCHANGED <<info, pc, total_blocks>>
      PROVE  Pool!Next
  <2>1. b \in Block /\ Block \subseteq Nat /\ Clear \subseteq Nat
    BY Finite DEF Clear
  <2>2. Clear' = Clear \ {b}  BY <1>2 DEF Clear, Tracked
  <2>3. PoolFree = {c * BLOCK_SIZE : c \in Clear}
        /\ PoolFree' = {c * BLOCK_SIZE : c \in Clear'}
    BY <1>0 DEF PoolFree, Clear
  <2>4. PoolFree' = PoolFree \ {b * BLOCK_SIZE}  BY <2>1, <2>2, <2>3, Scaled
  <2>5. Out' = Out \cup {b}
    <3>1. held \in [Block -> Nat]  BY DEF Typed
    <3>2. held[b] + 1 > 0 /\ held'[b] = held[b] + 1  BY <1>2, <2>1, <3>1
    <3>3. \A c \in Block : c # b => held'[c] = held[c]  BY <1>2, <3>1
    <3> QED  BY <2>1, <3>2, <3>3 DEF Out
  <2>6. PoolOut' = PoolOut \cup {b * BLOCK_SIZE}  BY <2>5 DEF PoolOut
  <2>7. b * BLOCK_SIZE \in PoolFree  BY <2>3
  <2>8. Pool!Alloc(b * BLOCK_SIZE)
    BY <1>2, <2>4, <2>6 DEF Pool!Alloc, PoolFree, PoolOut
  <2> QED  BY <2>7, <2>8 DEF Pool!Next, PoolFree
<1> QED  BY <1>1, <1>2, AllocCases

(* pmm_free_memory gives the address back, or changes nothing.              *)
LEMMA RefineFree ==
  ASSUME NEW a \in FreeArgs, IInv, FreeBlock(a)
  PROVE  Pool!Next \/ UNCHANGED Pool!vars
<1>1. pc = "up" /\ UNCHANGED <<info, pc, total_blocks, ret>>  BY DEF FreeBlock
<1>2. CASE UNCHANGED <<pmm_bitmap, held>>
  <2>1. UNCHANGED <<PoolFree, PoolOut, ret>>
    BY <1>1, <1>2 DEF PoolFree, PoolOut, Out, Tracked
  <2> QED  BY <2>1 DEF Pool!vars, PoolFree, PoolOut
<1>3. ASSUME NEW b \in Block, held[b] = 1, pmm_bitmap' = pmm_bitmap \ {b},
             held' = [held EXCEPT ![b] = 0]
      PROVE  Pool!Next
  <2>1. b \in Tracked /\ Block \subseteq Nat /\ held \in [Block -> Nat] /\ b \in Out
    BY <1>3, Finite DEF IInv, Owned, Typed, Out
  <2>2. Tracked' \ pmm_bitmap' = (Tracked \ pmm_bitmap) \cup {b}
    BY <1>1, <1>3, <2>1 DEF Tracked
  <2>3. PoolFree' = PoolFree \cup {b * BLOCK_SIZE}  BY <1>1, <2>2 DEF PoolFree
  <2>4. Out' = Out \ {b}  BY <1>3, <2>1 DEF Out
  <2>5. Out \subseteq Nat  BY <2>1 DEF Out
  <2>6. PoolOut' = PoolOut \ {b * BLOCK_SIZE}
    BY <2>1, <2>4, <2>5, Scaled DEF PoolOut
  <2>7. b * BLOCK_SIZE \in PoolOut  BY <2>1 DEF PoolOut
  <2>8. Pool!Release(b * BLOCK_SIZE)
    BY <1>1, <2>3, <2>6 DEF Pool!Release, PoolFree, PoolOut
  <2> QED  BY <2>7, <2>8 DEF Pool!Next, PoolOut
<1> QED  BY <1>2, <1>3, FreeCases

(* Boot opens the pool with the lock of block 0; then see the two above.    *)
LEMMA RefineNext == IInv /\ [Next]_vars => Pool!Next \/ UNCHANGED Pool!vars
<1> SUFFICES ASSUME IInv, [Next]_vars PROVE Pool!Next \/ UNCHANGED Pool!vars
  OBVIOUS
<1>1. CASE pmm_init \/ parse_memory_map
  <2>1. pc # "up" /\ pc' # "up" /\ UNCHANGED <<held, ret>>
    BY <1>1 DEF pmm_init, parse_memory_map
  <2>2. UNCHANGED <<PoolFree, PoolOut, ret>>  BY <2>1 DEF PoolFree, PoolOut, Out
  <2> QED  BY <2>2 DEF Pool!vars, PoolFree, PoolOut
<1>2. CASE pmm_lock_memory
  <2>1. pc # "up" /\ pc' = "up" /\ UNCHANGED <<held, ret>>
        /\ Tracked' = Tracked /\ 0 \in pmm_bitmap'
    BY <1>2, SizeAssumption DEF pmm_lock_memory, Tracked, BlockOf
  <2>2. PoolFree = {}  BY <2>1 DEF PoolFree
  <2>3. Out = {} /\ ret = OOM  BY <2>1 DEF IInv, Booting, Out
  <2>4. PoolOut = {} /\ PoolOut' = PoolOut  BY <2>1, <2>3 DEF PoolOut, Out
  <2>5. Tracked \subseteq Block  BY Finite DEF IInv
  <2>6. PoolFree' \in SUBSET {b * BLOCK_SIZE : b \in Block \ {0}}
    BY <2>1, <2>5 DEF PoolFree
  <2>7. Pool!Open
    BY <2>1, <2>2, <2>3, <2>4, <2>6 DEF Pool!Open, PoolFree, PoolOut
  <2> QED  BY <2>7 DEF Pool!Next
<1>3. CASE pmm_alloc_block  BY <1>3, RefineAlloc
<1>4. ASSUME NEW a \in FreeArgs, FreeBlock(a)
      PROVE  Pool!Next \/ UNCHANGED Pool!vars
  BY <1>4, RefineFree
<1>5. CASE UNCHANGED vars
  <2>1. UNCHANGED <<PoolFree, PoolOut, ret>>
    BY <1>5 DEF vars, PoolFree, PoolOut, Out, Tracked
  <2> QED  BY <2>1 DEF Pool!vars, PoolFree, PoolOut
<1> QED  BY <1>1, <1>2, <1>3, <1>4, <1>5 DEF Next

(* pmm.c, started by kernel_main, implements the abstract pool.             *)
THEOREM ImplementsPool == Spec => PoolSpec
<1>1. Init => Pool!Init  BY RefineInit
<1>2. IInv /\ [Next]_vars => [Pool!Next]_(Pool!vars)  BY RefineNext
<1>3. Spec => []IInv  BY Invariance
<1> QED  BY <1>1, <1>2, <1>3, PTL DEF Spec, PoolSpec, Pool!Spec
--------------------------------------------------------------------------------
(***************************************************************************)
(* The memory map: parse_memory_map reads every entry once, only AVAILABLE  *)
(* memory gets to a caller, and on regular boards the counter of used       *)
(* blocks is exact.  These strengthen the invariant above.                  *)
(***************************************************************************)
(* A map is a finite list of entries.                                       *)
LEMMA MapShape ==
  ASSUME NEW i \in BootInfo
  PROVE  /\ Len(i.mmap) \in Nat /\ DOMAIN i.mmap = 1 .. Len(i.mmap)
         /\ \A k \in 1 .. Len(i.mmap) : /\ i.mmap[k] \in MapEntry
                                        /\ i.mmap[k].size \in Nat
<1>1. i.mmap \in Seq(MapEntry)  BY DEF BootInfo
<1>2. /\ Len(i.mmap) \in Nat /\ DOMAIN i.mmap = 1 .. Len(i.mmap)
      /\ \A k \in 1 .. Len(i.mmap) : i.mmap[k] \in MapEntry
  BY <1>1
<1>3. \A e \in MapEntry : e.size \in Nat  BY DEF MapEntry
<1> QED  BY <1>2, <1>3

(* Each entry starts where the one before it ends: at its own size and the  *)
(* four bytes of the size field (memory.c:67).                              *)
LEMMA StartsAre ==
  ASSUME NEW i \in BootInfo
  PROVE  /\ Starts(i) \in [1 .. Len(i.mmap) + 1 -> Nat]
         /\ Starts(i)[1] = 0
         /\ \A k \in 1 .. Len(i.mmap) :
              Starts(i)[k + 1] = (Starts(i)[k] + i.mmap[k].size) + 4
<1> DEFINE n == Len(i.mmap)
           R(h) == h = [k \in 1 .. n + 1 |->
                          IF k = 1 THEN 0 ELSE h[k - 1] + i.mmap[k - 1].size + 4]
           size(k) == IF k \in 1 .. n THEN i.mmap[k].size ELSE 0
           step == [x \in Nat \X Nat |-> (x[2] + size(x[1])) + 4]
<1>1. n \in Nat /\ n + 1 \in Nat  BY MapShape
<1>2. \A k \in Nat : size(k) \in Nat  BY MapShape
<1>3. step \in [Nat \X Nat -> Nat]
  <2> HIDE DEF size
  <2> QED  BY <1>2
<1>4. PICK g \in [1 .. n + 1 -> Nat] :
        \A k \in 1 .. n + 1 : g[k] = IF k = 1 THEN 0 ELSE step[<<k - 1, g[k - 1]>>]
  <2> HIDE DEF step, n
  <2> QED  BY <1>1, <1>3, StepByStep
<1>5. \A k \in 1 .. n + 1 :
        g[k] = IF k = 1 THEN 0 ELSE (g[k - 1] + i.mmap[k - 1].size) + 4
  <2> SUFFICES ASSUME NEW k \in 1 .. n + 1, k # 1
               PROVE  g[k] = (g[k - 1] + i.mmap[k - 1].size) + 4
    BY <1>4
  <2>1. k - 1 \in 1 .. n /\ k - 1 \in Nat /\ k - 1 \in 1 .. n + 1  BY <1>1
  <2>2. g[k - 1] \in Nat  BY <2>1
  <2>3. step[<<k - 1, g[k - 1]>>] = (g[k - 1] + size(k - 1)) + 4  BY <2>1, <2>2
  <2>4. size(k - 1) = i.mmap[k - 1].size  BY <2>1
  <2> HIDE DEF step, size
  <2> QED  BY <1>4, <2>3, <2>4
<1>6. R(g)
  <2> HIDE DEF step, size
  <2> QED  BY <1>5
<1>7. Starts(i) = CHOOSE h : R(h)  BY DEF Starts
<1>8. R(Starts(i))
  <2> HIDE DEF R
  <2> QED  BY <1>6, <1>7
<1>9. \A k \in 1 .. n + 1 : Starts(i)[k] = g[k]
  <2> DEFINE S == {k \in 1 .. n + 1 : Starts(i)[k] # g[k]}
  <2> SUFFICES ASSUME S # {} PROVE FALSE
    OBVIOUS
  <2>1. S \in SUBSET Nat  BY <1>1
  <2>2. PICK k \in S : \A y \in S : k <= y  BY <2>1, LeastElement
  <2>3. k # 1  BY <1>1, <1>5, <1>8, <2>2
  <2>4. k - 1 \in 1 .. n + 1 /\ ~(k <= k - 1)  BY <1>1, <2>2, <2>3
  <2>5. Starts(i)[k - 1] = g[k - 1]  BY <2>2, <2>4
  <2>6. Starts(i)[k] = (Starts(i)[k - 1] + i.mmap[k - 1].size) + 4
    BY <1>8, <2>2, <2>3
  <2>7. g[k] = (g[k - 1] + i.mmap[k - 1].size) + 4  BY <1>5, <2>2, <2>3
  <2> QED  BY <2>2, <2>5, <2>6, <2>7
<1>10. Starts(i) \in [1 .. n + 1 -> Nat]  BY <1>8, <1>9
<1>11. Starts(i)[1] = 0  BY <1>1, <1>8
<1>12. ASSUME NEW k \in 1 .. n
       PROVE  Starts(i)[k + 1] = (Starts(i)[k] + i.mmap[k].size) + 4
  <2>1. k + 1 \in 1 .. n + 1 /\ k + 1 # 1 /\ (k + 1) - 1 = k  BY <1>1
  <2> QED  BY <1>8, <2>1
<1> QED  BY <1>10, <1>11, <1>12

(* Later entries start at higher addresses.                                 *)
LEMMA StartsGrow ==
  ASSUME NEW i \in BootInfo
  PROVE  \A j \in 1 .. Len(i.mmap) + 1 : \A k \in 1 .. j - 1 : Starts(i)[k] < Starts(i)[j]
<1> DEFINE n == Len(i.mmap)
           St == Starts(i)
           S == {j \in 1 .. n + 1 : \E k \in 1 .. j - 1 : ~(St[k] < St[j])}
<1>1. /\ n \in Nat /\ St \in [1 .. n + 1 -> Nat]
      /\ \A k \in 1 .. n : St[k + 1] = (St[k] + i.mmap[k].size) + 4 /\ i.mmap[k].size \in Nat
  BY MapShape, StartsAre
<1> HIDE DEF St, n
<1>2. \A k \in 1 .. n : St[k] < St[k + 1]
  <2> SUFFICES ASSUME NEW k \in 1 .. n PROVE St[k] < St[k + 1]
    OBVIOUS
  <2>1. k \in 1 .. n + 1  BY <1>1
  <2>2. St[k] \in Nat  BY <1>1, <2>1
  <2> DEFINE size == i.mmap[k].size
             here == St[k]
             there == St[k + 1]
  <2>3. there = (here + size) + 4 /\ size \in Nat /\ here \in Nat  BY <1>1, <2>2
  <2> HIDE DEF size, here, there
  <2>4. here < there  BY <2>3
  <2> QED  BY <2>4 DEF here, there
<1>3. S = {}
  <2> SUFFICES ASSUME S # {} PROVE FALSE
    OBVIOUS
  <2>1. S \in SUBSET Nat  BY <1>1
  <2>2. PICK j \in S : \A y \in S : j <= y  BY <2>1, LeastElement
  <2>3. PICK k \in 1 .. j - 1 : ~(St[k] < St[j])  BY <2>2
  <2>4. j \in 1 .. n + 1 /\ j - 1 \in 1 .. n /\ k \in 1 .. n /\ ~(j <= j - 1)
        /\ (j - 1) + 1 = j /\ j - 1 \in 1 .. n + 1 /\ k \in 1 .. n + 1
    <3>1. n \in Nat /\ j \in 1 .. n + 1 /\ k \in 1 .. j - 1  BY <1>1, <2>2, <2>3
    <3> HIDE DEF S, St, n
    <3> QED  BY <3>1
  <2>5. St[j - 1] < St[j]  BY <1>2, <2>4
  <2>6. k # j - 1  BY <2>3, <2>5
  <2>7. k \in 1 .. (j - 1) - 1  BY <2>3, <2>4, <2>6
  <2>8. j - 1 \notin S  BY <2>2, <2>4
  <2>9. St[k] < St[j - 1]  BY <2>4, <2>7, <2>8
  <2>10. St[k] \in Nat /\ St[j] \in Nat /\ St[j - 1] \in Nat  BY <1>1, <2>4
  <2> QED  BY <2>3, <2>5, <2>9, <2>10
<1>4. \A j \in 1 .. n + 1 : \A k \in 1 .. j - 1 : St[k] < St[j]  BY <1>3
<1> QED  BY <1>4 DEF St, n

(* A finger at the start of an entry reads that entry and nothing else.     *)
LEMMA EntryAtStart ==
  ASSUME NEW i \in BootInfo, NEW k \in 1 .. Len(i.mmap)
  PROVE  EntryAt(i, Starts(i)[k]) = i.mmap[k]
<1> DEFINE here == {m \in 1 .. Len(i.mmap) : Starts(i)[m] = Starts(i)[k]}
<1>1. here = {k}
  <2> SUFFICES ASSUME NEW m \in 1 .. Len(i.mmap), m # k PROVE Starts(i)[m] # Starts(i)[k]
    OBVIOUS
  <2>1. Len(i.mmap) \in Nat /\ Starts(i) \in [1 .. Len(i.mmap) + 1 -> Nat]
    BY MapShape, StartsAre
  <2>2. Starts(i)[m] \in Nat /\ Starts(i)[k] \in Nat  BY <2>1
  <2>3. CASE m < k
    <3>1. m \in 1 .. k - 1 /\ k \in 1 .. Len(i.mmap) + 1  BY <2>1, <2>3
    <3>2. Starts(i)[m] < Starts(i)[k]  BY <3>1, StartsGrow
    <3> QED  BY <2>2, <3>2
  <2>4. CASE k < m
    <3>1. k \in 1 .. m - 1 /\ m \in 1 .. Len(i.mmap) + 1  BY <2>1, <2>4
    <3>2. Starts(i)[k] < Starts(i)[m]  BY <3>1, StartsGrow
    <3> QED  BY <2>2, <3>2
  <2> QED  BY <2>1, <2>3, <2>4
<1>2. EntryAt(i, Starts(i)[k]) = i.mmap[CHOOSE m \in here : TRUE]  BY <1>1 DEF EntryAt
<1>3. (CHOOSE m \in here : TRUE) = k
  <2> HIDE DEF here
  <2> QED  BY <1>1
<1> QED  BY <1>2, <1>3

(* Whatever the finger points at, its size is a number.                     *)
LEMMA EntryAtTyped ==
  ASSUME NEW i \in BootInfo, NEW finger
  PROVE  StepOver(EntryAt(i, finger)) \in Nat
<1> DEFINE here == {k \in 1 .. Len(i.mmap) : Starts(i)[k] = finger}
           k0 == CHOOSE k \in here : TRUE
<1>1. CASE here # {}
  <2>1. k0 \in here  BY <1>1
  <2>2. i.mmap[k0].size \in Nat  BY <2>1, MapShape
  <2>3. EntryAt(i, finger) = i.mmap[k0]  BY <1>1 DEF EntryAt
  <2> HIDE DEF k0
  <2> QED  BY <2>2, <2>3 DEF StepOver
<1>2. CASE here = {}
  <2>1. EntryAt(i, finger).size = 20  BY <1>2 DEF EntryAt
  <2> QED  BY <2>1 DEF StepOver
<1> QED  BY <1>1, <1>2

(* The finger of parse_memory_map.                                          *)
LEMMA FingersAre ==
  ASSUME NEW i \in BootInfo
  PROVE  \A k \in 1 .. Len(i.mmap) :
           Fingers(i)[k] = IF k = 1 THEN 0
                           ELSE Fingers(i)[k - 1] + StepOver(EntryAt(i, Fingers(i)[k - 1]))
<1> DEFINE n == Len(i.mmap)
           R(h) == h = [k \in 1 .. n |->
                          IF k = 1 THEN 0 ELSE h[k - 1] + StepOver(EntryAt(i, h[k - 1]))]
           Advance(x) == x + StepOver(EntryAt(i, x))
           step == [x \in Nat \X Nat |-> Advance(x[2])]
<1>1. n \in Nat  BY MapShape
<1>2. \A x \in Nat : Advance(x) \in Nat  BY EntryAtTyped
<1>3. step \in [Nat \X Nat -> Nat]
  <2> HIDE DEF Advance
  <2> QED  BY <1>2
<1>4. PICK g \in [1 .. n -> Nat] :
        \A k \in 1 .. n : g[k] = IF k = 1 THEN 0 ELSE step[<<k - 1, g[k - 1]>>]
  <2> HIDE DEF step, n
  <2> QED  BY <1>1, <1>3, StepByStep
<1>5. \A k \in 1 .. n : g[k] = IF k = 1 THEN 0 ELSE Advance(g[k - 1])
  <2> SUFFICES ASSUME NEW k \in 1 .. n, k # 1 PROVE g[k] = Advance(g[k - 1])
    BY <1>4
  <2>1. k - 1 \in 1 .. n /\ k - 1 \in Nat  BY <1>1
  <2>2. g[k - 1] \in Nat  BY <2>1
  <2> HIDE DEF Advance
  <2>3. step[<<k - 1, g[k - 1]>>] = Advance(g[k - 1])  BY <2>1, <2>2
  <2> HIDE DEF step
  <2> QED  BY <1>4, <2>3
<1>6. R(g)  BY <1>5
<1>7. Fingers(i) = CHOOSE h : R(h)  BY DEF Fingers
<1>8. R(Fingers(i))
  <2> HIDE DEF R
  <2> QED  BY <1>6, <1>7
<1> QED  BY <1>8

(* The finger stands on the entries one after the other.                    *)
LEMMA FingersOnEntries ==
  ASSUME NEW i \in BootInfo
  PROVE  \A k \in 1 .. Len(i.mmap) : Fingers(i)[k] = Starts(i)[k]
<1> DEFINE n == Len(i.mmap)
           S == {k \in 1 .. n : Fingers(i)[k] # Starts(i)[k]}
<1> SUFFICES ASSUME S # {} PROVE FALSE
  OBVIOUS
<1>1. n \in Nat /\ S \in SUBSET Nat  BY MapShape
<1>2. PICK k \in S : \A y \in S : k <= y  BY <1>1, LeastElement
<1>3. k # 1  BY <1>1, <1>2, FingersAre, StartsAre
<1>4. k \in 1 .. n /\ k - 1 \in 1 .. n /\ ~(k <= k - 1) /\ (k - 1) + 1 = k
  BY <1>1, <1>2, <1>3
<1>5. Fingers(i)[k - 1] = Starts(i)[k - 1]  BY <1>2, <1>4
<1>6. Fingers(i)[k] = Starts(i)[k - 1] + StepOver(EntryAt(i, Starts(i)[k - 1]))
  BY <1>3, <1>4, <1>5, FingersAre
<1>7. EntryAt(i, Starts(i)[k - 1]) = i.mmap[k - 1]  BY <1>4, EntryAtStart
<1>8. Starts(i)[k] = (Starts(i)[k - 1] + i.mmap[k - 1].size) + 4
  BY <1>4, StartsAre
<1>9. Starts(i)[k - 1] \in Nat /\ i.mmap[k - 1].size \in Nat
  <2>1. k - 1 \in 1 .. n + 1  BY <1>1, <1>4
  <2> QED  BY <1>4, <2>1, MapShape, StartsAre
<1>10. Fingers(i)[k] = Starts(i)[k]
  <2> DEFINE here == Starts(i)[k - 1]
             e == i.mmap[k - 1]
  <2>1. Fingers(i)[k] = here + StepOver(e)  BY <1>6, <1>7
  <2>2. Starts(i)[k] = (here + e.size) + 4 /\ here \in Nat /\ e.size \in Nat  BY <1>8, <1>9
  <2> HIDE DEF here, e
  <2> QED  BY <2>1, <2>2 DEF StepOver
<1> QED  BY <1>2, <1>10

(* memory.c:53-68: the loop reads exactly the entries of the map, whatever  *)
(* their sizes, and stops behind the last.                                  *)
THEOREM ReadsEveryEntry == \A i \in BootInfos : EntriesRead(i) = MapEntries(i)
<1> SUFFICES ASSUME NEW i \in BootInfos PROVE EntriesRead(i) = MapEntries(i)
  OBVIOUS
<1> DEFINE n == Len(i.mmap)
           turns == {k \in 1 .. n : Fingers(i)[k] < Starts(i)[n + 1]}
<1>1. i \in BootInfo  BY InputAssumption
<1>2. n \in Nat /\ DOMAIN i.mmap = 1 .. n  BY <1>1, MapShape
<1>3. turns = 1 .. n
  <2> SUFFICES ASSUME NEW k \in 1 .. n PROVE Fingers(i)[k] < Starts(i)[n + 1]
    OBVIOUS
  <2>1. n + 1 \in 1 .. n + 1 /\ k \in 1 .. (n + 1) - 1  BY <1>2
  <2>2. Starts(i)[k] < Starts(i)[n + 1]  BY <1>1, <2>1, StartsGrow
  <2> QED  BY <1>1, <2>2, FingersOnEntries
<1>4. \A k \in 1 .. n : EntryAt(i, Fingers(i)[k]) = i.mmap[k]
  BY <1>1, FingersOnEntries, EntryAtStart
<1>5. EntriesRead(i) = {EntryAt(i, Fingers(i)[k]) : k \in turns}  BY DEF EntriesRead
<1> HIDE DEF turns
<1> QED  BY <1>2, <1>3, <1>4, <1>5 DEF MapEntries
--------------------------------------------------------------------------------
(***************************************************************************)
(* The stronger invariant.  Sized: the size of RAM stays what pmm_init read.*)
(* FromMap: a block that is clear or held was freed by the parser.  Exact:  *)
(* on regular boards block 0 is clear when it gets locked, so the counter   *)
(* moves with the bits in every step.                                       *)
(***************************************************************************)
FreedBlocks(i) == IF i.hasMap THEN {BlockOf(a) : a \in FreedByMap(i)} ELSE {}

Sized == pc # "pmm_init" => total_blocks = (info.mem % AddrSpace) \div BLOCK_SIZE

FromMap ==
  /\ pc = "parse" => Tracked \subseteq pmm_bitmap
  /\ pc # "pmm_init" => \A b \in Tracked : b \notin pmm_bitmap \/ held[b] > 0
                                             => b \in FreedBlocks(info)

Exact ==
  Regular(info) => /\ pc # "pmm_init" => used_blocks = Cardinality(InUse)
                   /\ pc = "lock" => 0 \notin pmm_bitmap

MapInv == IInv /\ Sized /\ FromMap /\ Exact
--------------------------------------------------------------------------------
LEMMA MapInvInit == Init => MapInv
  BY InitInv DEF Init, MapInv, Sized, FromMap, Exact

(* pmm_init: everything tracked is marked, and on whole words everything is *)
(* tracked.                                                                 *)
LEMMA MapInvPmmInit ==
  ASSUME MapInv, pmm_init
  PROVE  Sized' /\ FromMap' /\ Exact'
<1>1. /\ pc = "pmm_init" /\ pc' = "parse" /\ UNCHANGED <<info, held>>
      /\ total_blocks' = (info.mem % AddrSpace) \div BLOCK_SIZE
      /\ used_blocks' = total_blocks'
  BY DEF pmm_init
<1>2. IInv'  BY PmmInitStep DEF MapInv
<1>3. Tracked' \subseteq pmm_bitmap'  BY DEF pmm_init
<1>4. Sized'  BY <1>1 DEF Sized
<1>5. FromMap'
  <2>1. \A b \in Tracked' : ~(held'[b] > 0)
    <3>1. Tracked' \subseteq Block'  BY <1>2, Words DEF IInv, Typed, Tracked
    <3>2. \A b \in Block' : held'[b] = 0  BY <1>1, <1>2 DEF IInv, Booting
    <3> QED  BY <3>1, <3>2
  <2> QED  BY <1>3, <2>1 DEF FromMap
<1>6. Exact'
  <2> SUFFICES ASSUME Regular(info) PROVE used_blocks' = Cardinality(InUse')
    BY <1>1 DEF Exact
  <2> DEFINE t == total_blocks'
  <2>1. t \in Nat /\ t % WordBits = 0 /\ Tracked' \subseteq 0 .. t - 1 /\ 0 .. t - 1 \subseteq Block
    <3>1. t \in 0 .. (AddrSpace \div BLOCK_SIZE)  BY <1>2 DEF IInv, Typed
    <3>2. t % WordBits = 0  BY <1>1 DEF Regular
    <3> QED  BY <3>1, <3>2, Words DEF Tracked
  <2> HIDE DEF t
  <2>2. (t \div WordBits) * WordBits = t
    <3>1. t = ((t \div WordBits) * WordBits) + (t % WordBits)
      BY <2>1, DivModSplit, SizeAssumption
    <3>2. (t \div WordBits) * WordBits \in Nat
      BY <2>1, DivNat, SizeAssumption
    <3> QED  BY <2>1, <3>1, <3>2
  <2>3. Tracked' = 0 .. t - 1  BY <2>2 DEF Tracked, t
  <2>4. InUse' = 0 .. t - 1
    <3>1. pmm_bitmap' \subseteq Nat  BY <1>2, Finite DEF IInv, Typed, Block
    <3>2. \A b \in pmm_bitmap' : b < t <=> b \in 0 .. t - 1  BY <2>1, <3>1
    <3>3. InUse' = {b \in pmm_bitmap' : b < t}  BY DEF InUse, t
    <3> QED  BY <1>3, <2>3, <3>2, <3>3
  <2>5. Cardinality(0 .. t - 1) = t
    <3>1. t - 1 \in Int /\ 0 \in Int  BY <2>1
    <3>2. Cardinality(0 .. t - 1) = IF 0 > t - 1 THEN 0 ELSE (t - 1) - 0 + 1
      BY <3>1, FS_Interval
    <3> QED  BY <2>1, <3>2
  <2> QED  BY <1>1, <2>4, <2>5 DEF t
<1> QED  BY <1>4, <1>5, <1>6

(* parse_memory_map clears what the map names, and block 0 with it.         *)
LEMMA MapInvParse ==
  ASSUME MapInv, parse_memory_map
  PROVE  Sized' /\ FromMap' /\ Exact'
<1> DEFINE A == IF info.hasMap THEN FreedByMap(info) ELSE {}
<1>1. /\ pc = "parse" /\ pc' = "lock" /\ pmm_free_memory(A)
      /\ UNCHANGED <<info, total_blocks, held, ret>>
  BY DEF parse_memory_map
<1>2. IInv /\ Tracked' = Tracked /\ Tracked \subseteq pmm_bitmap
  BY <1>1 DEF MapInv, FromMap, Tracked
<1>3. Sized'  BY <1>1 DEF MapInv, Sized
<1>4. {BlockOf(a) : a \in A} = FreedBlocks(info)  BY DEF FreedBlocks
<1>5. FromMap'
  <2> SUFFICES ASSUME NEW b \in Tracked, b \notin pmm_bitmap' \/ held[b] > 0
               PROVE  b \in FreedBlocks(info)
    BY <1>1, <1>2 DEF FromMap
  <2>1. b \in Block  BY <1>2, Finite DEF IInv
  <2>2. ~(held[b] > 0)  BY <1>1, <1>2, <2>1 DEF IInv, Booting
  <2>3. b \in Cleared(A)  BY <1>1, <1>2, <2>2 DEF pmm_free_memory
  <2> QED  BY <1>4, <2>3 DEF Cleared
<1>6. Exact'
  <2> SUFFICES ASSUME Regular(info)
               PROVE  used_blocks' = Cardinality(InUse') /\ 0 \notin pmm_bitmap'
    BY <1>1 DEF Exact
  <2>1. used_blocks = Cardinality(InUse)  BY <1>1 DEF MapInv, Exact
  <2>2. used_blocks' = Cardinality(InUse')
    BY <1>1, <1>2, <2>1, FreeEffect DEF IInv
  <2>3. total_blocks \in Nat /\ total_blocks >= WordBits
    BY <1>1, <1>2, Finite DEF MapInv, Sized, Regular, IInv
  <2>4. PICK a \in FreedByMap(info) : BlockOf(a) = 0  BY DEF Regular
  <2>5. a \in A  BY <2>4 DEF Regular
  <2>6. 0 < total_blocks  BY <2>3, SizeAssumption
  <2>7. 0 \notin pmm_bitmap'
    <3>1. 0 \in pmm_bitmap => 0 \in Cleared(A)  BY <2>4, <2>5, <2>6 DEF Cleared
    <3> QED  BY <1>1, <3>1 DEF pmm_free_memory
  <2> QED  BY <2>2, <2>7
<1> QED  BY <1>3, <1>5, <1>6

(* Locking block 0 counts a block that was clear.                           *)
LEMMA MapInvLock ==
  ASSUME MapInv, pmm_lock_memory
  PROVE  Sized' /\ FromMap' /\ Exact'
<1>1. /\ pc = "lock" /\ pc' = "up" /\ UNCHANGED <<info, total_blocks, held>>
      /\ pmm_bitmap' = pmm_bitmap \cup {0} /\ used_blocks' = used_blocks + 1
  <2>1. BlockOf(0) = 0  BY SizeAssumption DEF BlockOf
  <2> QED  BY <2>1 DEF pmm_lock_memory
<1>2. Sized'  BY <1>1 DEF MapInv, Sized
<1>3. FromMap'  BY <1>1 DEF MapInv, FromMap, Tracked
<1>4. Exact'
  <2> SUFFICES ASSUME Regular(info) PROVE used_blocks' = Cardinality(InUse')
    BY <1>1 DEF Exact
  <2>1. used_blocks = Cardinality(InUse) /\ 0 \notin pmm_bitmap
    BY <1>1 DEF MapInv, Exact
  <2>2. IsFiniteSet(InUse) /\ total_blocks \in Nat  BY Finite DEF MapInv, IInv
  <2>3. 0 < total_blocks
    <3>1. total_blocks >= WordBits  BY <1>1 DEF MapInv, Sized, Regular
    <3> QED  BY <2>2, <3>1, SizeAssumption
  <2>4. InUse' = InUse \cup {0} /\ 0 \notin InUse
    BY <1>1, <2>1, <2>3 DEF InUse
  <2>5. Cardinality(InUse') = Cardinality(InUse) + 1
    BY <2>2, <2>4, FS_AddElement
  <2> QED  BY <1>1, <2>1, <2>5
<1> QED  BY <1>2, <1>3, <1>4

(* A block that is handed out was clear, hence freed by the parser.         *)
LEMMA MapInvAlloc ==
  ASSUME MapInv, pmm_alloc_block
  PROVE  Sized' /\ FromMap' /\ Exact'
<1>0. pc = "up" /\ IInv /\ Typed  BY DEF pmm_alloc_block, MapInv, IInv
<1>1. CASE UNCHANGED <<info, pc, total_blocks, used_blocks, pmm_bitmap, held>>
  <2>1. Tracked' = Tracked /\ InUse' = InUse  BY <1>1 DEF Tracked, InUse
  <2> QED  BY <1>1, <2>1 DEF MapInv, Sized, FromMap, Exact
<1>2. ASSUME NEW b \in Clear,
             pmm_bitmap' = pmm_bitmap \cup {b}, used_blocks' = used_blocks + 1,
             held' = [held EXCEPT ![b] = @ + 1], UNCHANGED <<info, pc, total_blocks>>
      PROVE  Sized' /\ FromMap' /\ Exact'
  <2>1. b \in Tracked /\ b \notin pmm_bitmap /\ b < total_blocks /\ Tracked' = Tracked
    BY <1>0, <1>2, Finite DEF Clear, Tracked
  <2>2. Sized'  BY <1>2 DEF MapInv, Sized
  <2>3. FromMap'
    <3>1. \A c \in Tracked : c \notin pmm_bitmap \/ held[c] > 0 => c \in FreedBlocks(info)
      BY <1>0 DEF MapInv, FromMap
    <3>2. \A c \in Tracked : c # b => held'[c] = held[c]
      BY <1>0, <1>2, Finite DEF Typed
    <3> QED  BY <1>0, <1>2, <2>1, <3>1, <3>2 DEF FromMap
  <2>4. Exact'
    <3> SUFFICES ASSUME Regular(info) PROVE used_blocks' = Cardinality(InUse')
      BY <1>0, <1>2 DEF Exact
    <3>1. used_blocks = Cardinality(InUse)  BY <1>0 DEF MapInv, Exact
    <3>2. InUse' = InUse \cup {b} /\ b \notin InUse  BY <1>2, <2>1 DEF InUse
    <3>3. Cardinality(InUse') = Cardinality(InUse) + 1
      BY <1>0, <3>2, Finite, FS_AddElement
    <3> QED  BY <1>2, <3>1, <3>3
  <2> QED  BY <2>2, <2>3, <2>4
<1> QED  BY <1>0, <1>1, <1>2, AllocCases

(* A block that comes back had been handed out.                             *)
LEMMA MapInvFree ==
  ASSUME MapInv, NEW a \in FreeArgs, FreeBlock(a)
  PROVE  Sized' /\ FromMap' /\ Exact'
<1>1. /\ pc = "up" /\ UNCHANGED <<info, pc, total_blocks, ret>> /\ pmm_free_memory({a})
      /\ IInv /\ Typed /\ Tracked' = Tracked
  BY DEF FreeBlock, MapInv, IInv, Tracked
<1>2. Sized'  BY <1>1 DEF MapInv, Sized
<1>3. \A b \in Tracked : b \notin pmm_bitmap \/ held[b] > 0 => b \in FreedBlocks(info)
  BY <1>1 DEF MapInv, FromMap
<1>4. FromMap'
  <2>1. CASE UNCHANGED <<pmm_bitmap, held>>
    BY <1>1, <1>3, <2>1 DEF FromMap
  <2>2. ASSUME NEW b \in Block, held[b] = 1,
               pmm_bitmap' = pmm_bitmap \ {b}, held' = [held EXCEPT ![b] = 0]
        PROVE  FromMap'
    <3>1. held[b] > 0  BY <2>2
    <3>2. \A c \in Tracked : c # b => held'[c] = held[c] /\ (c \in pmm_bitmap' <=> c \in pmm_bitmap)
      BY <1>1, <2>2, Finite DEF Typed
    <3>3. \A c \in Tracked : c \notin pmm_bitmap' \/ held'[c] > 0 => c \in FreedBlocks(info)
      BY <1>3, <3>1, <3>2
    <3> QED  BY <1>1, <3>3 DEF FromMap
  <2> QED  BY <1>1, <2>1, <2>2, FreeCases
<1>5. Exact'
  <2> SUFFICES ASSUME Regular(info) PROVE used_blocks' = Cardinality(InUse')
    BY <1>1 DEF Exact
  <2>1. used_blocks = Cardinality(InUse)  BY <1>1 DEF MapInv, Exact
  <2> QED  BY <1>1, <2>1, FreeEffect
<1> QED  BY <1>2, <1>4, <1>5

LEMMA MapInvNext == MapInv /\ [Next]_vars => MapInv'
<1> SUFFICES ASSUME MapInv, [Next]_vars PROVE MapInv'
  OBVIOUS
<1>1. IInv'  BY NextInv DEF MapInv
<1>2. Sized' /\ FromMap' /\ Exact'
  <2>1. CASE UNCHANGED vars
    <3>1. Tracked' = Tracked /\ InUse' = InUse  BY <2>1 DEF vars, Tracked, InUse
    <3> QED  BY <2>1, <3>1 DEF vars, MapInv, Sized, FromMap, Exact
  <2> QED
    BY <2>1, MapInvPmmInit, MapInvParse, MapInvLock, MapInvAlloc, MapInvFree DEF Next
<1> QED  BY <1>1, <1>2 DEF MapInv

(* The stronger invariant holds in every reachable state of every board.    *)
THEOREM MapInvariance == Spec => []MapInv
  BY MapInvInit, MapInvNext, PTL DEF Spec

(* pmm.c:4: on regular boards the counter is the number of blocks in use.   *)
THEOREM CounterExact == Spec => []UsedExact
<1>1. MapInv => UsedExact  BY DEF MapInv, Exact, UsedExact
<1> QED  BY <1>1, MapInvariance, PTL
--------------------------------------------------------------------------------
(* An address lies between the first byte of its block and the next block.  *)
LEMMA InItsBlock ==
  ASSUME NEW x \in Nat
  PROVE  /\ BlockOf(x) * BLOCK_SIZE \in Nat
         /\ (BlockOf(x) + 1) * BLOCK_SIZE = BlockOf(x) * BLOCK_SIZE + BLOCK_SIZE
         /\ BlockOf(x) * BLOCK_SIZE <= x /\ x < (BlockOf(x) + 1) * BLOCK_SIZE
<1>1. BLOCK_SIZE \in Nat \ {0}  BY SizeAssumption
<1>2. BlockOf(x) \in Nat  BY <1>1, DivNat DEF BlockOf
<1>3. x = BlockOf(x) * BLOCK_SIZE + (x % BLOCK_SIZE)
  BY <1>1, DivModSplit DEF BlockOf
<1>4. x % BLOCK_SIZE \in 0 .. BLOCK_SIZE - 1  BY <1>1, ModNat
<1> DEFINE q == BlockOf(x)
<1> HIDE DEF q
<1>5. q * BLOCK_SIZE \in Nat /\ (q + 1) * BLOCK_SIZE = q * BLOCK_SIZE + BLOCK_SIZE
  <2>1. q \in Nat  BY <1>2 DEF q
  <2> QED  BY <1>1, <2>1, SMT
<1>6. x = q * BLOCK_SIZE + (x % BLOCK_SIZE)  BY <1>3 DEF q
<1>7. q * BLOCK_SIZE <= x /\ x < (q + 1) * BLOCK_SIZE
  <2> DEFINE low == q * BLOCK_SIZE
             high == (q + 1) * BLOCK_SIZE
  <2>1. low \in Nat /\ high = low + BLOCK_SIZE /\ x = low + (x % BLOCK_SIZE)
    BY <1>5, <1>6
  <2> HIDE DEF low, high
  <2>2. low <= x /\ x < high  BY <1>1, <1>4, <2>1
  <2> QED  BY <2>2 DEF low, high
<1> QED  BY <1>5, <1>7 DEF q

(* A block in which an AVAILABLE entry has a byte is all in that entry, or  *)
(* one of the entry's edges lies in the middle of the block.                *)
LEMMA WholeOrRagged ==
  ASSUME NEW i, NEW e \in Ram(i), e.addr \in Nat, e.len \in Nat, NEW x \in EntryBytes(e)
  PROVE  Backed(i, BlockOf(x)) \/ Ragged(i, BlockOf(x))
<1> DEFINE b == BlockOf(x)
           low == b * BLOCK_SIZE
           high == (b + 1) * BLOCK_SIZE
<1>1. /\ x \in Nat /\ e.addr <= x /\ x < e.addr + e.len /\ e.len > 0
  BY DEF EntryBytes
<1>2. low \in Nat /\ high \in Nat /\ low <= x /\ x < high
  BY <1>1, InItsBlock, SizeAssumption
<1>3. Bytes(b) = low .. high - 1  BY DEF Bytes
<1> HIDE DEF b, low, high
<1>4. CASE e.addr <= low /\ high <= e.addr + e.len
  <2>1. \A y \in Bytes(b) : y \in EntryBytes(e)
    BY <1>2, <1>3, <1>4 DEF EntryBytes
  <2> QED  BY <2>1 DEF Backed, b
<1>5. CASE low < e.addr \/ e.addr + e.len < high
  <2>1. PICK edge \in {e.addr, e.addr + e.len} : edge \in low .. high - 1 /\ edge # low
    BY <1>1, <1>2, <1>5
  <2> QED  BY <1>1, <1>3, <2>1 DEF Ragged, b, low
<1> QED  BY <1>1, <1>2, <1>4, <1>5

(* memory.c:53-60: what the parser frees.                                   *)
LEMMA FreedIsAvailable ==
  ASSUME NEW i \in BootInfos, NEW b \in FreedBlocks(i)
  PROVE  Backed(i, b) \/ Ragged(i, b) \/ Wrapped(i, b)
<1>1. PICK a \in FreedByMap(i) : b = BlockOf(a)  BY DEF FreedBlocks
<1>2. PICK e \in EntriesRead(i) :
        /\ e.type = AVAILABLE
        /\ \E x \in e.addr .. e.addr + e.len - 1 : a = x % AddrSpace
  BY <1>1 DEF FreedByMap
<1>3. PICK x \in EntryBytes(e) : a = x % AddrSpace  BY <1>2 DEF EntryBytes
<1>4. e \in MapEntries(i) /\ e \in Ram(i)  BY <1>2, ReadsEveryEntry DEF Ram
<1>5. e.addr \in Nat /\ e.len \in Nat
  <2>1. i \in BootInfo  BY InputAssumption
  <2>2. e \in MapEntry  BY <1>4, <2>1, MapShape DEF MapEntries
  <2> QED  BY <2>2 DEF MapEntry
<1>6. x \in Nat  BY <1>3, <1>5 DEF EntryBytes
<1>7. CASE x >= AddrSpace
  BY <1>1, <1>3, <1>4, <1>7 DEF Wrapped
<1>8. CASE x < AddrSpace
  <2>1. a = x  BY <1>3, <1>6, <1>8, DivSmall, SizeAssumption
  <2> QED  BY <1>1, <1>3, <1>4, <1>5, <2>1, WholeOrRagged
<1> QED  BY <1>6, <1>7, <1>8, SizeAssumption

(* memory.c:53-63, pmm.c:49: what a caller holds lies below the end of RAM, *)
(* and the parser took it from the map: it is AVAILABLE to its last byte,   *)
(* or one of the two kinds of block whose addresses the parser gets wrong.  *)
THEOREM OnlyAvailable == Spec => []OnlyAvailableHandedOut
<1>1. MapInv => OnlyAvailableHandedOut
  <2> SUFFICES ASSUME MapInv, NEW b \in Out
               PROVE  /\ b < total_blocks
                      /\ Backed(info, b) \/ Ragged(info, b) \/ Wrapped(info, b)
    BY DEF OnlyAvailableHandedOut
  <2>1. IInv /\ Typed /\ info \in BootInfos  BY DEF MapInv, IInv, Typed
  <2>2. b \in Block /\ held[b] > 0 /\ b \in Tracked  BY <2>1 DEF Out, IInv, Owned
  <2>3. b < total_blocks  BY <2>1, <2>2, Finite
  <2>4. pc # "pmm_init"
    BY <2>1, <2>2 DEF IInv, Booting
  <2>5. b \in FreedBlocks(info)  BY <2>2, <2>4 DEF MapInv, FromMap
  <2> QED  BY <2>1, <2>3, <2>5, FreedIsAvailable
<1> QED  BY <1>1, MapInvariance, PTL
================================================================================
