---------------------------------- MODULE Heap ----------------------------------
(***************************************************************************)
(* The kernel heap (src/heap.c): heap_init, kmalloc and kfree over the one   *)
(* page heap_init maps.  The linked list of headers is a sequence in link    *)
(* order; where each header lies and what it claims is kept, so that blocks  *)
(* can run into each other.  Addresses and sizes are in words and a header   *)
(* is the three words size, flags, next.                                     *)
(***************************************************************************)
EXTENDS Integers, Sequences, FiniteSets, FiniteSetsExt

CONSTANTS
  Page,       \* words of the heap page: 1024
  Sizes,      \* sizes callers ask for
  Freeing,    \* how callers use kfree, in any order: "batch" (nobody asks
              \* again while there is a hole) or "any"
  MaxClaim    \* bound of the model: no kmalloc once a free header claims more

ASSUME HeapAssumption ==
  /\ Page \in Nat /\ Page > 3
  /\ Sizes \subseteq Nat \ {0}
  /\ Freeing \in {"batch", "any"}
  /\ MaxClaim \in Nat

Header == 3                           \* words of a header: 12 bytes
heap_first == 1                       \* 0x1000000, the first word of the page
PageEnd == heap_first + Page          \* first word past it; not mapped

VARIABLES
  chain,      \* the linked headers: at, size, and free (flags = 1)
  live,       \* blocks callers hold, oldest first: [ptr, size]
  halted      \* a page fault was taken: page_fault_handler never returns

vars == <<chain, live, halted>>

Block(at, size, free) == [at |-> at, size |-> size, free |-> free]

Init == /\ chain = <<Block(heap_first, Page - Header, TRUE)>>
        /\ live = <<>>
        /\ halted = FALSE

Span(b) == b.ptr .. b.ptr + b.size - 1
HeaderSpan(c) == c.at .. c.at + Header - 1

(* No caller's words and no header's words belong to anything else.  Once   *)
(* this is broken the headers hold whatever the other owner wrote, and the  *)
(* model goes no further.                                                   *)
Apart ==
  /\ \A i, j \in DOMAIN live : i # j => Span(live[i]) \cap Span(live[j]) = {}
  /\ \A i, j \in DOMAIN chain : i # j => HeaderSpan(chain[i]) \cap HeaderSpan(chain[j]) = {}
  /\ \A i \in DOMAIN live, j \in DOMAIN chain : Span(live[i]) \cap HeaderSpan(chain[j]) = {}

(***************************************************************************)
(* kmalloc.  First fit; the rest of the block becomes a new header whose    *)
(* size is the difference of the two sizes (heap.c:34-48).                  *)
(***************************************************************************)
(* A scan that looks at the first header only.                              *)
FittingFirst(req) ==
  {i \in DOMAIN chain : i = 1 /\ chain[i].free /\ chain[i].size >= req}
Fitting(req) == {i \in DOMAIN chain : chain[i].free /\ chain[i].size >= req}

(* Faulty splits: the new header laid over the caller's words; the old one  *)
(* left at its full size.                                                   *)
CarveOver(c, req) ==
  <<Block(c.at, req, FALSE), Block(c.at + req, c.size - req, TRUE)>>
CarveUnshrunk(c, req) ==
  <<Block(c.at, c.size, FALSE), Block(c.at + Header + req, c.size - req, TRUE)>>

Carve(c, req) ==
  LET leftover == c.size - req
      used == Block(c.at, req, FALSE)
  IN  IF leftover > 0
      THEN <<used, Block(c.at + Header + req, leftover, TRUE)>>
      ELSE <<used>>

kmalloc(req) ==
  LET i == Min(Fitting(req))
      pieces == Carve(chain[i], req)
      (* the header written for the leftover does not fit in the page *)
      Faults == Len(pieces) = 2 /\ pieces[2].at + Header > PageEnd
      Refuse == Fitting(req) = {} /\ UNCHANGED <<chain, live, halted>>
      Fault  == /\ Fitting(req) # {} /\ Faults
                /\ halted' = TRUE
                /\ UNCHANGED <<chain, live>>
      Grant  == /\ Fitting(req) # {} /\ ~Faults
                /\ chain' = SubSeq(chain, 1, i - 1) \o pieces
                              \o SubSeq(chain, i + 1, Len(chain))
                /\ live' = Append(live, [ptr |-> chain[i].at + Header, size |-> req])
                /\ UNCHANGED halted
  IN  /\ ~halted /\ Apart
      /\ \A c \in DOMAIN chain : chain[c].free => chain[c].size <= MaxClaim
      /\ Refuse \/ Fault \/ Grant

(***************************************************************************)
(* kfree.  The header becomes free, absorbs a free successor, and is then   *)
(* absorbed by a free predecessor (heap.c:68-93).                           *)
(***************************************************************************)
(* Faulty merges: only the header of the absorbed block is added; the size  *)
(* is taken from the distance of the two headers, the wrong way round.      *)
AbsorbHeader(c, i) ==
  SubSeq(c, 1, i - 1) \o <<[c[i] EXCEPT !.size = @ + Header]>>
    \o SubSeq(c, i + 2, Len(c))
AbsorbSwapped(c, i) ==
  SubSeq(c, 1, i - 1)
    \o <<[c[i] EXCEPT !.size = c[i].at - c[i + 1].at + c[i + 1].size]>>
    \o SubSeq(c, i + 2, Len(c))
Absorb(c, i) ==
  SubSeq(c, 1, i - 1)
    \o <<[c[i] EXCEPT !.size = @ + Header + c[i + 1].size]>>
    \o SubSeq(c, i + 2, Len(c))
MergeForward(c, i) == IF i < Len(c) /\ c[i + 1].free THEN Absorb(c, i) ELSE c
MergeBackwardNever(c, i) == c
MergeBackward(c, i) == IF i > 1 /\ c[i - 1].free THEN Absorb(c, i - 1) ELSE c

kfree(k) ==
  LET i == CHOOSE j \in DOMAIN chain : chain[j].at + Header = live[k].ptr
      marked == [chain EXCEPT ![i].free = TRUE]
  IN  /\ ~halted /\ Apart
      /\ chain' = MergeBackward(MergeForward(marked, i), i)
      /\ live' = SubSeq(live, 1, k - 1) \o SubSeq(live, k + 1, Len(live))
      /\ UNCHANGED halted

(* kfree(NULL) returns at once; any other pointer callers pass is one that  *)
(* kmalloc gave them and that they have not passed before.                  *)
Hole == \E i \in 1 .. Len(chain) - 1 : chain[i].free
CallersAllocate == Freeing = "batch" => ~Hole

Next == \/ CallersAllocate /\ \E req \in Sizes : kmalloc(req)
        \/ \E k \in DOMAIN live : kfree(k)
Spec == Init /\ [][Next]_vars
--------------------------------------------------------------------------------
(* Type invariant.                                                          *)
TypeOK ==
  /\ chain \in Seq([at : heap_first .. PageEnd, size : Nat, free : BOOLEAN])
  /\ live \in Seq([ptr : heap_first .. PageEnd, size : Sizes])
  /\ halted \in BOOLEAN

(* task.c:17, "lock them down so no one else can overwrite them": blocks in *)
(* the hands of callers share no word with each other or with a header.     *)
LiveApart == Apart

(* The headers tell the truth: the used ones are the live blocks with their *)
(* sizes, and each header lies right after the words the one before claims. *)
HeadersTrue ==
  /\ {[ptr |-> chain[i].at + Header, size |-> chain[i].size] :
        i \in {j \in DOMAIN chain : ~chain[j].free}} = {live[i] : i \in DOMAIN live}
  /\ \A i \in 1 .. Len(chain) - 1 :
        chain[i + 1].at = chain[i].at + Header + chain[i].size

(* heap.c:69-73: two free blocks are never neighbours, so what was given    *)
(* back can be asked for in one piece.                                      *)
Coalesced == \A i \in 1 .. Len(chain) - 1 : ~(chain[i].free /\ chain[i + 1].free)

(* Once every caller has freed its block, the page is one free block again, *)
(* no smaller than at the start.                                            *)
NothingLost ==
  live = <<>> => /\ Len(chain) = 1 /\ chain[1].free
                 /\ chain[1].size >= Page - Header

(* A refusal is honest: without holes, kmalloc answers NULL only when the   *)
(* words from the newest block to the end of the page cannot hold the       *)
(* request.                                                                 *)
Top == IF live = <<>> THEN heap_first
       ELSE live[Len(live)].ptr + live[Len(live)].size
RefusalHonest ==
  ~Hole => \A req \in Sizes : Fitting(req) = {} => Top + Header + req > PageEnd
--------------------------------------------------------------------------------
(* Statements of the sources that the code does not keep (see the README).  *)

(* heap.c:22, "the usable free space inside this block is exactly 4096 - 12 *)
(* = 4084 bytes": every block handed out lies inside the page.              *)
InsidePage == \A i \in DOMAIN live : live[i].ptr + live[i].size <= PageEnd
================================================================================
