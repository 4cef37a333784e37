---------------------------- MODULE SchedulerProofs ----------------------------
(***************************************************************************)
(* Theorems about Scheduler for completed builds: the returned esp arrives,  *)
(* the stubs handle data segments if there are ring 3 programs, and with two *)
(* of them the PCBs record kernel_stack_top.  kernel_main makes no more than *)
(* two (kernel.c:134-135).  The inductive invariant is IInv.                 *)
(***************************************************************************)
EXTENDS Scheduler, FiniteSetTheorems, SequenceTheorems, NatLemmas, TLAPS

Complete(b) ==
  /\ b.returns
  /\ b.tasks > 0 => b.segments
  /\ b.tasks <= 2
  /\ b.tasks = 2 => b.records
Completed == \A b \in Builds : Complete(b)

(* Where kmalloc puts the PCB and the stacks of task k when a PCB takes w    *)
(* bytes, and what is left when there are n tasks.  The fourth stack is NULL.*)
PcbAt(w, k) == CASE k = 1 -> HEAP + 12
                 [] k = 2 -> HEAP + w + 2096
                 [] OTHER -> HEAP + 2 * w + 3144
KernelStack(w, k) == IF k = 2 THEN HEAP + w + 24 ELSE HEAP + 2 * w + 2108
UserStack(w, k) == IF k = 2 THEN HEAP + w + 1060 ELSE NULL
LeftAt(w, n) == CASE n = 0 -> HEAP
                  [] n = 1 -> HEAP + w + 12
                  [] n = 2 -> HEAP + 2 * w + 2096
                  [] OTHER -> HEAP + 3 * w + 3144
LeftSize(w, n) == CASE n = 0 -> 4084
                    [] n = 1 -> 4084 - w
                    [] n = 2 -> 2036 - 2 * w
                    [] OTHER -> 1012 - 3 * w

(* New tasks go behind task 1, so the newest follows it and each task is     *)
(* followed by the one made before it.                                       *)
Follower(n, k) == IF k = 1 THEN n ELSE k - 1

(* Where the context of task k can lie: the boot stack, the forged frame,    *)
(* the stack of the TSS while kernel_stack_top is not recorded.              *)
Top(w, k) == KernelStack(w, k) + StackBytes
Homes(r, w, k) == IF k = 1 THEN {BootStack}
                  ELSE {Top(w, k) - FrameBytes}
                         \cup (IF r THEN {} ELSE {TssStack - FrameBytes})

Records == build.records
Count == Cardinality(DOMAIN pcb)
At(k) == PcbAt(PcbBytes, k)
Pcb == [id : Nat, esp : Nat, next : Nat, top : Nat]

Built == /\ build \in Build /\ Complete(build)
         /\ phase \in {"boot", "tasks", "on"}
         /\ Count \in 0 .. build.tasks + 1
         /\ phase = "boot" <=> Count = 0
         /\ tick \in 0 .. TickModulus - 1

TopOf(r, w, k) == IF r /\ k > 1 THEN Top(w, k) ELSE NULL
Stacks(w, n) == [t \in 2 .. n |-> [kernel |-> KernelStack(w, t), user |-> UserStack(w, t)]]
LaidAs(w, r, n, records, owned, left) ==
  /\ records \in [{PcbAt(w, k) : k \in 1 .. n} -> Pcb]
  /\ \A k \in 1 .. n : /\ records[PcbAt(w, k)].id = k
                       /\ records[PcbAt(w, k)].next = PcbAt(w, Follower(n, k))
                       /\ records[PcbAt(w, k)].top = TopOf(r, w, k)
  /\ owned = Stacks(w, n)
  /\ left = [at |-> LeftAt(w, n), size |-> LeftSize(w, n)]
Laid == LaidAs(PcbBytes, Records, Count, pcb, stacks, heap)

Runs == /\ running \in 1 .. 3
        /\ phase = "boot" => running = 1 /\ current_task = NULL
        /\ phase # "boot" => running <= Count /\ current_task = At(running)
        /\ phase # "on" => running = 1
        /\ esp0 \in Nat
        /\ ~Records => esp0 = TssStack
        /\ Records /\ running > 1 => esp0 = Top(PcbBytes, running)

Frame == [at : Nat, task : 0 .. build.tasks + 1]
Waiting(k) == /\ pcb[At(k)].esp \in Homes(Records, PcbBytes, k)
              /\ [at |-> pcb[At(k)].esp, task |-> k] \in frames
Contexts == /\ frames \subseteq Frame
            /\ \A f, g \in frames : f.at = g.at => f = g
            /\ \A k \in 1 .. Count : k # running => Waiting(k)

IInv == Built /\ Laid /\ Runs /\ Contexts
--------------------------------------------------------------------------------
Width == {16, 20}

LEMMA PcbWidth == PcbBytes \in Width
<1>1. CASE Records  BY <1>1 DEF Records, PcbBytes, PcbWords, Width
<1>2. CASE ~Records  BY <1>2 DEF Records, PcbBytes, PcbWords, Width
<1> QED  BY <1>1, <1>2

(* The numbers of the layout, one by one.                                   *)
LEMMA Numbers ==
  /\ HEAP \in Nat /\ BootStack \in Nat /\ TssStack \in Nat
  /\ 1024 < BootStack /\ BootStack + 1076 <= TssStack /\ TssStack <= HEAP
  BY DEF HEAP, BootStack, TssStack

LEMMA Places ==
  ASSUME NEW w \in Width
  PROVE  /\ w \in Nat /\ 16 <= w /\ w <= 20
         /\ PcbAt(w, 1) = HEAP + 12
         /\ PcbAt(w, 2) = HEAP + w + 2096
         /\ PcbAt(w, 3) = HEAP + 2 * w + 3144
         /\ KernelStack(w, 2) = HEAP + w + 24
         /\ KernelStack(w, 3) = HEAP + 2 * w + 2108
         /\ UserStack(w, 2) = HEAP + w + 1060 /\ UserStack(w, 3) = 0
<1>1. w \in Nat /\ 16 <= w /\ w <= 20  BY DEF Width
<1>2. 2 # 1 /\ 3 # 1 /\ 3 # 2  OBVIOUS
<1>3. /\ PcbAt(w, 1) = HEAP + 12
      /\ PcbAt(w, 2) = HEAP + w + 2096
      /\ PcbAt(w, 3) = HEAP + 2 * w + 3144
  BY <1>2 DEF PcbAt
<1>4. /\ KernelStack(w, 2) = HEAP + w + 24
      /\ KernelStack(w, 3) = HEAP + 2 * w + 2108
      /\ UserStack(w, 2) = HEAP + w + 1060 /\ UserStack(w, 3) = 0
  BY <1>2 DEF KernelStack, UserStack, NULL
<1> QED  BY <1>1, <1>3, <1>4

(* Each task has a PCB of its own.                                          *)
LEMMA PcbsDiffer ==
  ASSUME NEW w \in Width
  PROVE  /\ \A j, k \in 1 .. 3 : PcbAt(w, j) = PcbAt(w, k) => j = k
         /\ \A k \in 1 .. 3 : PcbAt(w, k) \in Nat \ {0}
<1>1. \A j \in 1 .. 3 : j \in {1, 2, 3}  OBVIOUS
<1>2. PcbAt(w, 1) # PcbAt(w, 2) /\ PcbAt(w, 1) # PcbAt(w, 3) /\ PcbAt(w, 2) # PcbAt(w, 3)
  BY Places, Numbers
<1>3. PcbAt(w, 1) \in Nat \ {0} /\ PcbAt(w, 2) \in Nat \ {0} /\ PcbAt(w, 3) \in Nat \ {0}
  BY Places, Numbers
<1>4. \A k \in {1, 2, 3} : PcbAt(w, k) \in Nat \ {0}  BY <1>3, Zenon
<1>5. \A j, k \in {1, 2, 3} : PcbAt(w, j) = PcbAt(w, k) => j = k  BY <1>2, Zenon
<1> QED  BY <1>1, <1>4, <1>5, Zenon

LEMMA CountPcbs ==
  ASSUME NEW w \in Width, NEW n \in 0 .. 3
  PROVE  /\ IsFiniteSet({PcbAt(w, k) : k \in 1 .. n})
         /\ Cardinality({PcbAt(w, k) : k \in 1 .. n}) = n
<1> DEFINE S == 1 .. n
           T == {PcbAt(w, k) : k \in 1 .. n}
           f == [k \in S |-> PcbAt(w, k)]
<1>1. IsFiniteSet(S) /\ Cardinality(S) = n
  <2>1. 1 \in Int /\ n \in Int  OBVIOUS
  <2>2. IsFiniteSet(S) /\ Cardinality(S) = IF 1 > n THEN 0 ELSE n - 1 + 1
    BY <2>1, FS_Interval
  <2> QED  BY <2>2
<1>2. S \subseteq 1 .. 3  OBVIOUS
<1>3. f \in Bijection(S, T)
  <2>1. \A j, k \in S : PcbAt(w, j) = PcbAt(w, k) => j = k  BY <1>2, PcbsDiffer
  <2>2. T = {PcbAt(w, k) : k \in S}  OBVIOUS
  <2> HIDE DEF S, T
  <2> QED  BY <2>1, <2>2 DEF Bijection, Injection, Surjection, IsInjective
<1>4. ExistsBijection(S, T)  BY <1>3 DEF ExistsBijection
<1> HIDE DEF S, T
<1>5. IsFiniteSet(T) /\ Cardinality(T) = Cardinality(S)  BY <1>1, <1>4, FS_Bijection
<1> QED  BY <1>1, <1>5 DEF T

(* The places where contexts wait: whole frames, apart from each other, from *)
(* the stack an interrupt from another task uses and from other user stacks. *)
LEMMA HomesApart ==
  ASSUME NEW w \in Width, NEW r \in BOOLEAN, NEW j \in 1 .. 3, NEW k \in 1 .. 3, j # k,
         ~r => j < 3 /\ k < 3, NEW a \in Homes(r, w, j)
  PROVE  /\ a \in Nat /\ a # NULL
         /\ \A b \in Homes(r, w, k) : a + FrameBytes <= b \/ b + FrameBytes <= a
         /\ k # 1 => LET e == IF r THEN Top(w, k) ELSE TssStack
                     IN  a + FrameBytes <= e - StackBytes \/ e <= a
         /\ k # 1 => \/ a + FrameBytes <= UserStack(w, k)
                     \/ UserStack(w, k) + StackBytes <= a
         /\ k # 1 => \/ a + FrameBytes <= Top(w, k) - FrameBytes
                     \/ Top(w, k) <= a
<1> DEFINE b1 == BootStack
           b2 == HEAP + w + 996
           b3 == HEAP + 2 * w + 3080
           s == TssStack
<1>1. /\ HEAP \in Nat /\ b1 \in Nat /\ s \in Nat /\ w \in Nat
      /\ 1024 < b1 /\ b1 + 1076 <= s /\ s <= HEAP /\ 16 <= w /\ w <= 20
  BY Places, Numbers
<1>2. /\ Top(w, 2) = HEAP + w + 1048 /\ Top(w, 3) = HEAP + 2 * w + 3132
      /\ UserStack(w, 2) = HEAP + w + 1060 /\ UserStack(w, 3) = 0
  BY <1>1, Places DEF Top, StackBytes
<1>3. /\ Homes(r, w, 1) = {b1}
      /\ Homes(r, w, 2) = {b2} \cup (IF r THEN {} ELSE {s - 52})
      /\ Homes(r, w, 3) = {b3} \cup (IF r THEN {} ELSE {s - 52})
  <2>1. Top(w, 2) - FrameBytes = b2 /\ Top(w, 3) - FrameBytes = b3 /\ FrameBytes = 52
    BY <1>1, <1>2 DEF FrameBytes
  <2>2. 2 # 1 /\ 3 # 1  OBVIOUS
  <2> HIDE DEF b1, b2, b3, s
  <2> QED  BY <2>1, <2>2, Zenon DEF Homes, b1, s
<1> HIDE DEF b1, s
<1>4. CASE r
  <2>1. /\ Homes(r, w, 1) = {b1} /\ Homes(r, w, 2) = {b2} /\ Homes(r, w, 3) = {b3}
        /\ (IF r THEN Top(w, k) ELSE TssStack) = Top(w, k)
    <3>1. (IF r THEN {} ELSE {s - 52}) = {} /\ (IF r THEN Top(w, k) ELSE TssStack) = Top(w, k)
      BY <1>4, Zenon
    <3> DEFINE none == IF r THEN {} ELSE {s - 52}
    <3>2. none = {}  BY <3>1
    <3> HIDE DEF none, b2, b3
    <3>3. {b2} \cup none = {b2} /\ {b3} \cup none = {b3}  BY <3>2
    <3> QED  BY <1>3, <3>1, <3>3, Zenon DEF none
  <2>2. CASE j = 1 /\ k = 2
    BY <1>1, <1>2, <2>1, <2>2 DEF FrameBytes, StackBytes, NULL
  <2>3. CASE j = 1 /\ k = 3
    BY <1>1, <1>2, <2>1, <2>3 DEF FrameBytes, StackBytes, NULL
  <2>4. CASE j = 2 /\ k = 1
    BY <1>1, <1>2, <2>1, <2>4 DEF FrameBytes, StackBytes, NULL
  <2>5. CASE j = 2 /\ k = 3
    BY <1>1, <1>2, <2>1, <2>5 DEF FrameBytes, StackBytes, NULL
  <2>6. CASE j = 3 /\ k = 1
    BY <1>1, <1>2, <2>1, <2>6 DEF FrameBytes, StackBytes, NULL
  <2>7. CASE j = 3 /\ k = 2
    BY <1>1, <1>2, <2>1, <2>7 DEF FrameBytes, StackBytes, NULL
  <2>8. \/ j = 1 /\ (k = 2 \/ k = 3)
        \/ j = 2 /\ (k = 1 \/ k = 3)
        \/ j = 3 /\ (k = 1 \/ k = 2)
    OBVIOUS
  <2> QED  BY <2>2, <2>3, <2>4, <2>5, <2>6, <2>7, <2>8
<1>5. CASE ~r
  <2>1. Homes(r, w, 1) = {b1} /\ Homes(r, w, 2) = {b2, s - 52}
    BY <1>3, <1>5
  <2>2. (j = 1 /\ k = 2) \/ (j = 2 /\ k = 1)  BY <1>5
  <2>3. CASE j = 1 /\ k = 2
    BY <1>1, <1>2, <1>5, <2>1, <2>3 DEF FrameBytes, StackBytes, NULL, s
  <2>4. CASE j = 2 /\ k = 1
    BY <1>1, <1>2, <1>5, <2>1, <2>4 DEF FrameBytes, StackBytes, NULL
  <2> QED  BY <2>2, <2>3, <2>4
<1> QED  BY <1>4, <1>5
--------------------------------------------------------------------------------
LEMMA Kmalloc ==
  \A x, y, b : /\ kmalloc([at |-> x, size |-> y], b) = IF y >= b THEN x + 12 ELSE 0
               /\ AfterKmalloc([at |-> x, size |-> y], b) =
                    IF y >= b THEN [at |-> x + 12 + b, size |-> y - b]
                              ELSE [at |-> x, size |-> y]
  BY DEF kmalloc, AfterKmalloc, Fits, HeaderBytes, NULL

LEMMA KmallocRefuses ==
  ASSUME NEW x, NEW y \in Int, NEW b \in Int, y < b
  PROVE  /\ kmalloc([at |-> x, size |-> y], b) = 0
         /\ AfterKmalloc([at |-> x, size |-> y], b) = [at |-> x, size |-> y]
  BY DEF kmalloc, AfterKmalloc, Fits, NULL

(* What the calls of kmalloc in create_task return, and what they leave.    *)
LEMMA Carved ==
  ASSUME NEW w \in Width, NEW n \in 1 .. 2, NEW h,
         h = [at |-> LeftAt(w, n), size |-> LeftSize(w, n)]
  PROVE  LET h1 == AfterKmalloc(h, StackBytes)
             h2 == AfterKmalloc(h1, StackBytes)
         IN  /\ kmalloc(h, StackBytes) = KernelStack(w, n + 1)
             /\ kmalloc(h1, StackBytes) = UserStack(w, n + 1)
             /\ kmalloc(h2, w) = PcbAt(w, n + 1)
             /\ AfterKmalloc(h2, w) = [at |-> LeftAt(w, n + 1), size |-> LeftSize(w, n + 1)]
<1> DEFINE h1 == AfterKmalloc(h, StackBytes)
           h2 == AfterKmalloc(h1, StackBytes)
<1>1. HEAP \in Nat /\ w \in Nat /\ 16 <= w /\ w <= 20  BY Places, Numbers
<1>2. \A x, y, b : /\ kmalloc([at |-> x, size |-> y], b) = IF y >= b THEN x + 12 ELSE 0
                   /\ AfterKmalloc([at |-> x, size |-> y], b) =
                        IF y >= b THEN [at |-> x + 12 + b, size |-> y - b]
                                  ELSE [at |-> x, size |-> y]
  BY Kmalloc
<1>3. CASE n = 1
  <2>1. h = [at |-> HEAP + w + 12, size |-> 4084 - w]
    <3>1. LeftAt(w, 1) = HEAP + w + 12 /\ LeftSize(w, 1) = 4084 - w
      BY DEF LeftAt, LeftSize
    <3> QED  BY <1>3, <3>1
  <2>2. kmalloc(h, StackBytes) = HEAP + w + 24
        /\ h1 = [at |-> HEAP + w + 1048, size |-> 3060 - w]
    BY <1>1, <1>2, <2>1 DEF StackBytes
  <2> HIDE DEF h1
  <2>3. kmalloc(h1, StackBytes) = HEAP + w + 1060
        /\ h2 = [at |-> HEAP + w + 2084, size |-> 2036 - w]
    BY <1>1, <1>2, <2>2 DEF StackBytes
  <2> HIDE DEF h2
  <2>4. kmalloc(h2, w) = HEAP + w + 2096
        /\ AfterKmalloc(h2, w) = [at |-> HEAP + 2 * w + 2096, size |-> 2036 - 2 * w]
    BY <1>1, <1>2, <2>3
  <2>5. n + 1 = 2  BY <1>3
  <2>6. LeftAt(w, 2) = HEAP + 2 * w + 2096 /\ LeftSize(w, 2) = 2036 - 2 * w
    BY DEF LeftAt, LeftSize
  <2> QED  BY <2>2, <2>3, <2>4, <2>5, <2>6, Places DEF h1, h2
<1>4. CASE n = 2
  <2>1. h = [at |-> HEAP + 2 * w + 2096, size |-> 2036 - 2 * w]
    <3>1. LeftAt(w, 2) = HEAP + 2 * w + 2096 /\ LeftSize(w, 2) = 2036 - 2 * w
      BY DEF LeftAt, LeftSize
    <3> QED  BY <1>4, <3>1
  <2>2. kmalloc(h, StackBytes) = HEAP + 2 * w + 2108
        /\ h1 = [at |-> HEAP + 2 * w + 3132, size |-> 1012 - 2 * w]
    BY <1>1, <1>2, <2>1 DEF StackBytes
  <2> HIDE DEF h1
  <2>3. kmalloc(h1, StackBytes) = 0
        /\ h2 = [at |-> HEAP + 2 * w + 3132, size |-> 1012 - 2 * w]
    <3> DEFINE left == 1012 - 2 * w
    <3>1. left \in Int /\ StackBytes \in Int /\ left < StackBytes  BY <1>1 DEF StackBytes
    <3>2. h1 = [at |-> HEAP + 2 * w + 3132, size |-> left]  BY <2>2
    <3> HIDE DEF left
    <3>3. kmalloc(h1, StackBytes) = 0 /\ h2 = h1  BY <3>1, <3>2, KmallocRefuses
    <3> QED  BY <3>2, <3>3 DEF left
  <2> HIDE DEF h2
  <2>4. kmalloc(h2, w) = HEAP + 2 * w + 3144
        /\ AfterKmalloc(h2, w) = [at |-> HEAP + 3 * w + 3144, size |-> 1012 - 3 * w]
    BY <1>1, <1>2, <2>3
  <2>5. n + 1 = 3  BY <1>4
  <2>6. LeftAt(w, 3) = HEAP + 3 * w + 3144 /\ LeftSize(w, 3) = 1012 - 3 * w
    BY DEF LeftAt, LeftSize
  <2> QED  BY <2>2, <2>3, <2>4, <2>5, <2>6, Places DEF h1, h2
<1> QED  BY <1>3, <1>4

(* Writing a frame destroys what it overlaps and nothing else; at an address *)
(* at most one frame is whole.                                              *)
LEMMA Saving ==
  ASSUME NEW T, NEW fs, fs \subseteq [at : Nat, task : T],
         \A f, g \in fs : f.at = g.at => f = g,
         NEW at \in Nat, NEW t \in T
  PROVE  /\ Save(fs, at, t) \subseteq [at : Nat, task : T]
         /\ \A f, g \in Save(fs, at, t) : f.at = g.at => f = g
         /\ [at |-> at, task |-> t] \in Save(fs, at, t)
         /\ \A f \in fs : f.at + FrameBytes <= at \/ at + FrameBytes <= f.at
                         => f \in Save(fs, at, t)
<1> DEFINE new == [at |-> at, task |-> t]
<1>1. Save(fs, at, t) = Surviving(fs, at, at + FrameBytes) \cup {new}  BY DEF Save
<1>2. new \in [at : Nat, task : T] /\ new.at = at  OBVIOUS
<1>3. \A f \in Surviving(fs, at, at + FrameBytes) : f \in fs /\ f.at # at
  BY DEF Surviving, FrameBytes
<1>4. \A f \in fs : f.at + FrameBytes <= at \/ at + FrameBytes <= f.at
                  => f \in Surviving(fs, at, at + FrameBytes)
  BY DEF Surviving
<1> HIDE DEF new
<1>5. \A f, g \in Save(fs, at, t) : f.at = g.at => f = g
  BY <1>1, <1>2, <1>3, Zenon
<1>6. Save(fs, at, t) \subseteq [at : Nat, task : T]  BY <1>1, <1>2, <1>3
<1>7. new \in Save(fs, at, t)  BY <1>1
<1>8. \A f \in fs : f.at + FrameBytes <= at \/ at + FrameBytes <= f.at
                  => f \in Save(fs, at, t)
  BY <1>1, <1>4
<1> QED  BY <1>5, <1>6, <1>7, <1>8 DEF new

(* popa and iret resume the task whose frame lies there.                    *)
LEMMA Resuming ==
  ASSUME NEW fs, \A f, g \in fs : f.at = g.at => f = g,
         NEW e, NEW t, [at |-> e, task |-> t] \in fs
  PROVE  ContextAt(fs, e) = t
<1> DEFINE new == [at |-> e, task |-> t]
<1>1. new \in fs /\ new.at = e /\ new.task = t  OBVIOUS
<1> HIDE DEF new
<1>2. (CHOOSE f \in fs : f.at = e) = new  BY <1>1
<1> QED  BY <1>1, <1>2 DEF ContextAt
--------------------------------------------------------------------------------
LEMMA Basics ==
  ASSUME IInv
  PROVE  /\ Count \in 0 .. 3 /\ PcbBytes \in Width /\ Records \in BOOLEAN
         /\ ~Records => Count < 3
         /\ DOMAIN pcb = {At(k) : k \in 1 .. Count}
         /\ \A k \in 1 .. Count : At(k) \in DOMAIN pcb /\ pcb[At(k)] \in Pcb
         /\ \A j, k \in 1 .. 3 : At(j) = At(k) => j = k
         /\ \A k \in 1 .. 3 : At(k) \in Nat \ {0}
<1>1. Built /\ Laid  BY DEF IInv
<1>2. build.tasks \in Nat /\ build.tasks <= 2 /\ Count \in 0 .. build.tasks + 1
  BY <1>1 DEF Built, Build, Complete
<1>3. Records \in BOOLEAN
  <2>1. build \in Build  BY <1>1 DEF Built
  <2> QED  BY <2>1, Zenon DEF Build, Records
<1>4. build.tasks = 2 => Records  BY <1>1, Zenon DEF Built, Complete, Records
<1>5. Count \in 0 .. 3 /\ (~Records => Count < 3)  BY <1>2, <1>4
<1>6. pcb \in [{At(k) : k \in 1 .. Count} -> Pcb]  BY <1>1 DEF Laid, LaidAs, At
<1>7. DOMAIN pcb = {At(k) : k \in 1 .. Count}
      /\ \A k \in 1 .. Count : At(k) \in DOMAIN pcb /\ pcb[At(k)] \in Pcb
  BY <1>6
<1>8. PcbBytes \in Width  BY PcbWidth
<1>9. /\ \A j, k \in 1 .. 3 : At(j) = At(k) => j = k
      /\ \A k \in 1 .. 3 : At(k) \in Nat \ {0}
  BY <1>8, PcbsDiffer DEF At
<1> QED  BY <1>3, <1>5, <1>7, <1>8, <1>9

(* The size of a PCB and the places do not change while the build stays.    *)
LEMMA Unmoved ==
  ASSUME UNCHANGED build
  PROVE  /\ PcbBytes' = PcbBytes /\ Records' = Records /\ \A k : At(k)' = At(k)
  BY Zenon DEF PcbBytes, Records, At

LEMMA InitInv == Completed /\ Init => IInv
<1> SUFFICES ASSUME Completed, Init PROVE IInv
  OBVIOUS
<1>1. /\ build \in Builds /\ phase = "boot" /\ pcb = <<>> /\ stacks = <<>> /\ frames = {}
      /\ heap = [at |-> HEAP, size |-> PageBytes - HeaderBytes]
      /\ current_task = NULL /\ esp0 = TssStack /\ running = 1 /\ tick = 0
  BY DEF Init, KERNEL
<1>2. DOMAIN pcb = {} /\ 1 .. 0 = {} /\ 2 .. 0 = {}  BY <1>1
<1>3. Count = 0  BY <1>2, FS_EmptySet DEF Count
<1>4. Built
  <2>1. build \in Build /\ Complete(build)  BY <1>1, SchedulerAssumption DEF Completed
  <2>2. build.tasks \in 0 .. 3  BY <2>1 DEF Build
  <2>3. Count \in 0 .. build.tasks + 1  BY <1>3, <2>2
  <2>4. tick \in 0 .. TickModulus - 1  BY <1>1, SchedulerAssumption
  <2> QED  BY <1>1, <1>3, <2>1, <2>3, <2>4 DEF Built
<1>5. Laid
  <2> DEFINE w == PcbBytes
  <2>1. pcb \in [{PcbAt(w, k) : k \in 1 .. Count} -> Pcb]
    <3>1. {PcbAt(w, k) : k \in 1 .. Count} = {}  BY <1>2, <1>3
    <3> QED  BY <1>1, <3>1
  <2>2. stacks = Stacks(w, Count)  BY <1>1, <1>2, <1>3 DEF Stacks
  <2>3. heap = [at |-> LeftAt(w, Count), size |-> LeftSize(w, Count)]
    BY <1>1, <1>3 DEF LeftAt, LeftSize, PageBytes, HeaderBytes
  <2> HIDE DEF w
  <2>4. LaidAs(w, Records, Count, pcb, stacks, heap)
    BY <1>2, <1>3, <2>1, <2>2, <2>3 DEF LaidAs
  <2> QED  BY <2>4 DEF Laid, w
<1>6. Runs
  <2>1. esp0 \in Nat  BY <1>1, Numbers
  <2> QED  BY <1>1, <2>1 DEF Runs
<1>7. Contexts  BY <1>1, <1>2, <1>3 DEF Contexts
<1> QED  BY <1>4, <1>5, <1>6, <1>7 DEF IInv

(* task_init makes the PCB of the kernel, which follows itself.             *)
LEMMA Started ==
  ASSUME IInv, task_init
  PROVE  IInv' /\ Count' = 1
<1> DEFINE w == PcbBytes
           p == HEAP + 12
           first == [id |-> KERNEL, esp |-> NULL, next |-> p, top |-> NULL]
<1>1. Built /\ Laid /\ Runs /\ Contexts  BY DEF IInv
<1>2. w \in Width /\ w \in Nat /\ 16 <= w /\ w <= 20 /\ HEAP \in Nat /\ PcbAt(w, 1) = p
  BY PcbWidth, Places, Numbers
<1>3. phase = "boot" /\ Count = 0 /\ DOMAIN pcb = {}
  <2>1. phase = "boot" /\ Count = 0  BY <1>1 DEF task_init, Built
  <2>2. 1 .. 0 = {}  OBVIOUS
  <2> QED  BY <2>1, <2>2, Basics
<1>4. heap = [at |-> HEAP, size |-> 4084]
  BY <1>1, <1>3 DEF Laid, LaidAs, LeftAt, LeftSize
<1> HIDE DEF w
<1>5. kmalloc(heap, w) = p  BY <1>2, <1>4, Kmalloc
<1>6. AfterKmalloc(heap, w) = [at |-> HEAP + w + 12, size |-> 4084 - w]
  BY <1>2, <1>4, Kmalloc
<1>7. /\ heap' = [at |-> HEAP + w + 12, size |-> 4084 - w]
      /\ pcb' = With(pcb, p, first)
      /\ current_task' = p /\ phase' = "tasks"
      /\ UNCHANGED <<build, stacks, frames, esp0, running, tick>>
  BY <1>5, <1>6 DEF task_init, w
<1>8. PcbBytes' = w /\ Records' = Records /\ \A k : At(k)' = PcbAt(w, k)
  <2>1. UNCHANGED build  BY <1>7
  <2> QED  BY <2>1, Unmoved, Zenon DEF w, At
<1> HIDE DEF p, first
<1>9. pcb' = [y \in {p} |-> first]  BY <1>3, <1>7 DEF With
<1>10. Count' = 1
  <2>1. DOMAIN pcb' = {p}  BY <1>9
  <2> QED  BY <2>1, FS_Singleton DEF Count
<1>11. Built'
  <2>1. build.tasks \in 0 .. 3  BY <1>1 DEF Built, Build
  <2>2. Count' \in 0 .. build.tasks + 1  BY <1>10, <2>1
  <2> QED  BY <1>1, <1>7, <1>10, <2>2 DEF Built
<1>12. Laid'
  <2>1. {PcbAt(w, k) : k \in 1 .. 1} = {p}
    <3>1. 1 .. 1 = {1}  OBVIOUS
    <3> QED  BY <1>2, <3>1
  <2>2. first \in Pcb
    <3>1. p \in Nat  BY <1>2 DEF p
    <3> QED  BY <3>1 DEF first, Pcb, KERNEL, NULL
  <2>3. pcb' \in [{PcbAt(w, k) : k \in 1 .. 1} -> Pcb]  BY <1>9, <2>1, <2>2
  <2>4. pcb'[p] = first /\ first.id = 1 /\ first.next = p /\ first.top = NULL
    BY <1>9 DEF first, KERNEL
  <2>5. ASSUME NEW k \in 1 .. 1
        PROVE  /\ pcb'[PcbAt(w, k)].id = k
               /\ pcb'[PcbAt(w, k)].next = PcbAt(w, Follower(1, k))
               /\ pcb'[PcbAt(w, k)].top = TopOf(Records', w, k)
    <3>1. k = 1 /\ ~(k > 1)  OBVIOUS
    <3>2. Follower(1, k) = 1  BY <3>1 DEF Follower
    <3>3. TopOf(Records', w, k) = NULL  BY <3>1, Zenon DEF TopOf
    <3> QED  BY <1>2, <2>4, <3>1, <3>2, <3>3, Zenon
  <2>6. stacks' = Stacks(w, 1)
    <3>1. 2 .. 0 = {} /\ 2 .. 1 = {}  OBVIOUS
    <3>2. stacks = Stacks(w, 0)  BY <1>1, <1>3 DEF Laid, LaidAs, w
    <3> QED  BY <1>7, <3>1, <3>2 DEF Stacks
  <2>7. heap' = [at |-> LeftAt(w, 1), size |-> LeftSize(w, 1)]
    BY <1>7 DEF LeftAt, LeftSize
  <2>8. LaidAs(w, Records', 1, pcb', stacks', heap')
    BY <2>3, <2>5, <2>6, <2>7, Zenon DEF LaidAs
  <2> QED  BY <1>8, <1>10, <2>8, Zenon DEF Laid
<1>13. Runs'
  <2>1. running = 1 /\ esp0 \in Nat /\ (~Records => esp0 = TssStack)
    BY <1>1, <1>3 DEF Runs
  <2>2. At(1)' = p  BY <1>2, <1>8
  <2> QED  BY <1>7, <1>8, <1>10, <2>1, <2>2 DEF Runs
<1>14. Contexts'
  <2>1. \A k \in 1 .. Count' : k = 1  BY <1>10
  <2>2. running' = 1  BY <1>1, <1>3, <1>7 DEF Runs
  <2>3. frames' \subseteq Frame' /\ \A f, g \in frames' : f.at = g.at => f = g
    BY <1>1, <1>7 DEF Contexts, Frame
  <2> QED  BY <2>1, <2>2, <2>3 DEF Contexts
<1> QED  BY <1>10, <1>11, <1>12, <1>13, <1>14 DEF IInv

(* create_task carves two stacks and a PCB, forges a frame and links the PCB *)
(* in behind task 1.                                                        *)
LEMMA Created ==
  ASSUME IInv, create_task
  PROVE  IInv' /\ Count \in 1 .. 2 /\ Count' = Count + 1
<1> DEFINE w == PcbBytes
           n == Count
           p == PcbAt(w, n + 1)
           forged == Top(w, n + 1) - FrameBytes
           new == [id |-> n + 1, esp |-> forged, next |-> PcbAt(w, n),
                   top |-> TopOf(Records, w, n + 1)]
           linked == [pcb EXCEPT ![At(1)].next = p]
<1>1. Built /\ Laid /\ Runs /\ Contexts  BY DEF IInv
<1>2. /\ w \in Width /\ Records \in BOOLEAN /\ DOMAIN pcb = {At(k) : k \in 1 .. n}
      /\ \A k \in 1 .. n : At(k) \in DOMAIN pcb /\ pcb[At(k)] \in Pcb
      /\ \A j, k \in 1 .. 3 : At(j) = At(k) => j = k
      /\ \A k \in 1 .. 3 : At(k) \in Nat \ {0}
  BY Basics
<1>3. phase = "tasks" /\ n \in 1 .. 2 /\ n + 1 \in 2 .. build.tasks + 1
      /\ n + 1 \in 2 .. 3 /\ (~Records => n = 1)
  <2>1. phase = "tasks" /\ Count <= build.tasks  BY DEF create_task, Count
  <2>2. build.tasks \in Nat /\ build.tasks <= 2 /\ Count \in 0 .. build.tasks + 1
    BY <1>1 DEF Built, Build, Complete
  <2>3. Count # 0  BY <1>1, <2>1 DEF Built
  <2>4. build.tasks = 2 => Records  BY <1>1, Zenon DEF Built, Complete, Records
  <2>5. n \in 1 .. 2 /\ (~Records => n = 1)  BY <2>1, <2>2, <2>3, <2>4
  <2> QED  BY <2>1, <2>2, <2>5
<1>4. running = 1 /\ current_task = At(1)  BY <1>1, <1>3 DEF Runs
<1>5. heap = [at |-> LeftAt(w, n), size |-> LeftSize(w, n)]
      /\ stacks = Stacks(w, n)
  BY <1>1 DEF Laid, LaidAs
<1>6. pcb[At(1)].next = PcbAt(w, n)
  <2>1. Follower(n, 1) = n /\ 1 \in 1 .. n  BY <1>3 DEF Follower
  <2> QED  BY <1>1, <2>1 DEF Laid, LaidAs, At
<1> HIDE DEF w, n
<1>7. LET h1 == AfterKmalloc(heap, StackBytes)
          h2 == AfterKmalloc(h1, StackBytes)
      IN  /\ kmalloc(heap, StackBytes) = KernelStack(w, n + 1)
          /\ kmalloc(h1, StackBytes) = UserStack(w, n + 1)
          /\ kmalloc(h2, w) = p
          /\ AfterKmalloc(h2, w) = [at |-> LeftAt(w, n + 1), size |-> LeftSize(w, n + 1)]
  BY <1>2, <1>3, <1>5, Carved
<1>8. (IF Records THEN Top(w, n + 1) ELSE NULL) = TopOf(Records, w, n + 1)
  <2>1. n + 1 > 1  BY <1>3
  <2> QED  BY <1>2, <2>1, Zenon DEF TopOf
<1>9. /\ heap' = [at |-> LeftAt(w, n + 1), size |-> LeftSize(w, n + 1)]
      /\ stacks' = With(stacks, n + 1, [kernel |-> KernelStack(w, n + 1),
                                        user |-> UserStack(w, n + 1)])
      /\ frames' = Save(frames, forged, n + 1)
      /\ pcb' = With(linked, p, new)
      /\ UNCHANGED <<build, phase, current_task, esp0, running, tick>>
  BY <1>4, <1>6, <1>7, <1>8, Zenon
     DEF create_task, NextOfNew, Top, n, w, Count, Records
<1>10. PcbBytes' = w /\ Records' = Records /\ \A k : At(k)' = PcbAt(w, k)
  <2>1. UNCHANGED build  BY <1>9
  <2> QED  BY <2>1, Unmoved, Zenon DEF w, At
<1>11. \A k : At(k) = PcbAt(w, k)  BY DEF At, w
<1>12. forged \in Nat /\ forged \in Homes(Records, w, n + 1)
  <2>1. n + 1 # 1 /\ n + 1 \in 1 .. 3 /\ 1 \in 1 .. 3 /\ (~Records => 1 < 3 /\ n + 1 < 3)
    BY <1>3
  <2>2. forged \in Homes(Records, w, n + 1)  BY <2>1 DEF Homes
  <2> HIDE DEF forged
  <2>3. forged \in Nat  BY <1>2, <2>1, <2>2, HomesApart
  <2> QED  BY <2>2, <2>3
<1>13. DOMAIN pcb' = {PcbAt(w, k) : k \in 1 .. n + 1}
  <2>1. DOMAIN pcb' = DOMAIN pcb \cup {p}  BY <1>9 DEF With
  <2>2. 1 .. n + 1 = 1 .. n \cup {n + 1}  BY <1>3
  <2>3. {PcbAt(w, k) : k \in 1 .. n + 1} = {PcbAt(w, k) : k \in 1 .. n} \cup {p}
    BY <2>2
  <2>4. DOMAIN pcb = {At(k) : k \in 1 .. n}  BY <1>2
  <2>5. {At(k) : k \in 1 .. n} = {PcbAt(w, k) : k \in 1 .. n}  BY <1>11, Zenon
  <2> HIDE DEF p, n
  <2> QED  BY <2>1, <2>3, <2>4, <2>5, Zenon
<1>14. Count' = n + 1
  <2>1. n + 1 \in 0 .. 3  BY <1>3
  <2> QED  BY <1>2, <1>13, <2>1, CountPcbs DEF Count
<1>15. p = At(n + 1) /\ p \in Nat /\ PcbAt(w, n) \in Nat /\ ~(p \in DOMAIN pcb)
  <2>1. n + 1 \in 1 .. 3 /\ n \in 1 .. 3 /\ \A k \in 1 .. n : k \in 1 .. 3 /\ k # n + 1
    BY <1>3
  <2> QED  BY <1>2, <1>11, <2>1
<1>16. TopOf(Records, w, n + 1) \in Nat
  <2>1. CASE Records
    <3>1. n + 1 > 1 /\ n + 1 \in {2, 3}  BY <1>3
    <3>2. TopOf(Records, w, n + 1) = Top(w, n + 1)  BY <2>1, <3>1, Zenon DEF TopOf
    <3>3. Top(w, 2) \in Nat /\ Top(w, 3) \in Nat
      BY <1>2, Places, Numbers DEF Top, StackBytes
    <3> QED  BY <3>1, <3>2, <3>3
  <2>2. CASE ~Records
    <3>1. TopOf(Records, w, n + 1) = NULL  BY <2>2, Zenon DEF TopOf
    <3> QED  BY <3>1 DEF NULL
  <2> QED  BY <2>1, <2>2
<1> HIDE DEF p, forged
<1>17. new \in Pcb  BY <1>3, <1>12, <1>15, <1>16 DEF Pcb
<1>18. /\ pcb'[p] = new
       /\ pcb'[At(1)] = [pcb[At(1)] EXCEPT !.next = p]
       /\ \A k \in 2 .. n : pcb'[At(k)] = pcb[At(k)]
  <2>1. /\ 1 \in 1 .. n /\ 1 \in 1 .. 3
        /\ \A k \in 2 .. n : k \in 1 .. n /\ k \in 1 .. 3 /\ k # 1
    BY <1>3
  <2>2. DOMAIN linked = DOMAIN pcb  OBVIOUS
  <2>3. \A k \in 1 .. n : pcb'[At(k)] = linked[At(k)]
    <3> HIDE DEF linked, new
    <3> QED  BY <1>2, <1>9, <1>15, <2>2 DEF With
  <2>4. linked[At(1)] = [pcb[At(1)] EXCEPT !.next = p]  BY <1>2, <2>1
  <2>5. \A k \in 2 .. n : linked[At(k)] = pcb[At(k)]  BY <1>2, <2>1
  <2>6. pcb'[p] = new  BY <1>9 DEF With
  <2> QED  BY <2>1, <2>3, <2>4, <2>5, <2>6
<1>19. Built'
  <2>1. n + 1 \in 0 .. build.tasks + 1 /\ n + 1 # 0  BY <1>3
  <2> QED  BY <1>1, <1>3, <1>9, <1>14, <2>1 DEF Built
<1>20. ASSUME NEW k \in 1 .. n + 1
       PROVE  /\ pcb'[PcbAt(w, k)] \in Pcb
              /\ pcb'[PcbAt(w, k)].id = k
              /\ pcb'[PcbAt(w, k)].next = PcbAt(w, Follower(n + 1, k))
              /\ pcb'[PcbAt(w, k)].top = TopOf(Records, w, k)
              /\ k \in 2 .. n => pcb'[PcbAt(w, k)].esp = pcb[At(k)].esp
  <2>0. \A i \in 1 .. n : /\ pcb[At(i)].id = i
                          /\ pcb[At(i)].next = PcbAt(w, Follower(n, i))
                          /\ pcb[At(i)].top = TopOf(Records, w, i)
    BY <1>1 DEF Laid, LaidAs, At, w, n
  <2>1. CASE k = n + 1
    <3>1. Follower(n + 1, k) = n /\ ~(k \in 2 .. n)  BY <1>3, <2>1 DEF Follower
    <3> QED  BY <1>17, <1>18, <2>1, <3>1 DEF p
  <2>2. CASE k = 1
    <3>1. Follower(n + 1, k) = n + 1 /\ ~(k \in 2 .. n) /\ 1 \in 1 .. n
      BY <1>3, <2>2 DEF Follower
    <3>2. pcb[At(1)] \in Pcb /\ pcb[At(1)].id = 1 /\ pcb[At(1)].top = TopOf(Records, w, 1)
      BY <1>2, <2>0, <3>1
    <3> DEFINE old == pcb[At(1)]
               q == [old EXCEPT !.next = p]
    <3> HIDE DEF old
    <3>3. q \in Pcb /\ q.id = old.id /\ q.next = p /\ q.top = old.top
      BY <1>15, <3>2 DEF Pcb, old
    <3>4. pcb'[PcbAt(w, 1)] = q  BY <1>11, <1>18 DEF old
    <3> HIDE DEF q
    <3> QED  BY <2>2, <3>1, <3>2, <3>3, <3>4 DEF old, p
  <2>3. CASE k \in 2 .. n
    <3>1. Follower(n + 1, k) = Follower(n, k) /\ k \in 1 .. n  BY <1>3, <2>3 DEF Follower
    <3>2. pcb'[PcbAt(w, k)] = pcb[At(k)]  BY <1>11, <1>18, <2>3
    <3> QED  BY <1>2, <2>0, <3>1, <3>2
  <2>4. k = 1 \/ k \in 2 .. n \/ k = n + 1  BY <1>3
  <2> QED  BY <2>1, <2>2, <2>3, <2>4
<1>21. Laid'
  <2>1. pcb' \in [{PcbAt(w, k) : k \in 1 .. n + 1} -> Pcb]
    <3>1. pcb' = [y \in DOMAIN pcb' |-> pcb'[y]]  BY <1>9 DEF With
    <3>2. \A y \in DOMAIN pcb' : pcb'[y] \in Pcb  BY <1>13, <1>20
    <3> QED  BY <1>13, <3>1, <3>2
  <2>2. stacks' = Stacks(w, n + 1)
    <3> DEFINE both == [t \in Nat |-> [kernel |-> KernelStack(w, t), user |-> UserStack(w, t)]]
    <3>1. 2 .. n + 1 = 2 .. n \cup {n + 1} /\ ~(n + 1 \in 2 .. n) /\ n + 1 \in Nat
          /\ 2 .. n + 1 \subseteq Nat
      BY <1>3
    <3>2. stacks = [t \in 2 .. n |-> both[t]] /\ Stacks(w, n + 1) = [t \in 2 .. n + 1 |-> both[t]]
          /\ stacks' = With(stacks, n + 1, both[n + 1])
      BY <1>5, <1>9, <3>1, Zenon DEF Stacks
    <3> HIDE DEF both
    <3>3. stacks' = [t \in 2 .. n + 1 |-> both[t]]  BY <3>1, <3>2 DEF With
    <3> QED  BY <3>2, <3>3
  <2>3. LaidAs(w, Records', n + 1, pcb', stacks', heap')
    BY <1>9, <1>10, <1>20, <2>1, <2>2, Zenon DEF LaidAs
  <2> QED  BY <1>10, <1>14, <2>3, Zenon DEF Laid
<1>22. Runs'
  <2>1. /\ running = 1 /\ esp0 \in Nat /\ (~Records => esp0 = TssStack)
    BY <1>1, <1>4 DEF Runs
  <2>2. 1 <= n + 1 /\ ~(1 > 1) /\ At(1)' = At(1)  BY <1>3, <1>10, <1>11
  <2> QED  BY <1>3, <1>4, <1>9, <1>10, <1>14, <2>1, <2>2 DEF Runs
<1>23. Contexts'
  <2>1. /\ frames \subseteq Frame /\ \A f, g \in frames : f.at = g.at => f = g
        /\ \A k \in 2 .. n : Waiting(k)
    <3>1. \A k \in 2 .. n : k \in 1 .. n /\ k # 1  OBVIOUS
    <3> QED  BY <1>1, <1>4, <3>1 DEF Contexts, n
  <2>2. n + 1 \in 0 .. build.tasks + 1
    <3>1. build.tasks \in Nat  BY <1>1 DEF Built, Build
    <3> QED  BY <1>3, <3>1
  <2>3. /\ frames' \subseteq Frame /\ \A f, g \in frames' : f.at = g.at => f = g
        /\ [at |-> forged, task |-> n + 1] \in frames'
        /\ \A f \in frames : f.at + FrameBytes <= forged \/ forged + FrameBytes <= f.at
                             => f \in frames'
    <3> DEFINE T == 0 .. build.tasks + 1
    <3>1. frames \subseteq [at : Nat, task : T] /\ n + 1 \in T  BY <2>1, <2>2 DEF Frame
    <3> HIDE DEF T
    <3>2. /\ Save(frames, forged, n + 1) \subseteq [at : Nat, task : T]
          /\ \A f, g \in Save(frames, forged, n + 1) : f.at = g.at => f = g
          /\ [at |-> forged, task |-> n + 1] \in Save(frames, forged, n + 1)
          /\ \A f \in frames : f.at + FrameBytes <= forged \/ forged + FrameBytes <= f.at
                               => f \in Save(frames, forged, n + 1)
      BY <1>12, <2>1, <3>1, Saving
    <3>3. frames' = Save(frames, forged, n + 1)  BY <1>9
    <3> QED  BY <3>2, <3>3, Zenon DEF Frame, T
  <2>4. ASSUME NEW k \in 1 .. Count', k # running'
        PROVE  Waiting(k)'
    <3>1. /\ At(k)' = PcbAt(w, k) /\ PcbBytes' = w /\ Records' = Records
          /\ k \in 1 .. n + 1 /\ k # 1
      BY <1>4, <1>9, <1>10, <1>14, <2>4
    <3>2. CASE k = n + 1
      <4>1. pcb'[PcbAt(w, k)].esp = forged  BY <1>18, <3>2 DEF p
      <4> QED  BY <1>12, <2>3, <3>1, <3>2, <4>1, Zenon DEF Waiting
    <3>3. CASE k \in 2 .. n
      <4> DEFINE a == pcb[At(k)].esp
                 f == [at |-> a, task |-> k]
      <4>1. pcb'[PcbAt(w, k)].esp = a  BY <1>20, <3>1, <3>3
      <4>2. a \in Homes(Records, w, k) /\ f \in frames /\ f.at = a  BY <2>1, <3>3 DEF Waiting, w
      <4>3. k \in 1 .. 3 /\ n + 1 \in 1 .. 3 /\ k # n + 1 /\ n + 1 # 1
            /\ (~Records => k < 3 /\ n + 1 < 3)
        BY <1>3, <3>3
      <4> HIDE DEF a, f
      <4>4. a + FrameBytes <= Top(w, n + 1) - FrameBytes \/ Top(w, n + 1) <= a
        BY <1>2, <4>2, <4>3, HomesApart
      <4>5. forged + FrameBytes = Top(w, n + 1)
        <5>1. Top(w, 2) \in Int /\ Top(w, 3) \in Int
          BY <1>2, Places, Numbers DEF Top, StackBytes
        <5>2. n + 1 = 2 \/ n + 1 = 3  BY <1>3
        <5> QED  BY <5>1, <5>2 DEF forged, FrameBytes
      <4>6. f \in frames'  BY <2>3, <4>2, <4>4, <4>5 DEF forged
      <4> QED  BY <3>1, <4>1, <4>2, <4>6, Zenon DEF Waiting, f
    <3> QED  BY <1>3, <3>1, <3>2, <3>3
  <2>5. Frame' = Frame  BY <1>9 DEF Frame
  <2> QED  BY <2>3, <2>4, <2>5 DEF Contexts
<1>24. Count \in 1 .. 2 /\ Count' = Count + 1  BY <1>3, <1>14 DEF n
<1> QED  BY <1>19, <1>21, <1>22, <1>23, <1>24 DEF IInv

(* sti only lets the interrupts in.                                         *)
LEMMA Enabled == ASSUME IInv, sti  PROVE IInv'
<1>1. Built /\ Laid /\ Runs /\ Contexts  BY DEF IInv
<1>2. /\ phase = "tasks" /\ phase' = "on"
      /\ UNCHANGED <<build, heap, pcb, stacks, current_task, frames, esp0, running, tick>>
  BY DEF sti
<1>3. PcbBytes' = PcbBytes /\ Records' = Records /\ \A k : At(k)' = At(k)
  BY <1>2, Unmoved
<1>4. Count' = Count /\ Frame' = Frame  BY <1>2 DEF Count, Frame
<1>5. Built'  BY <1>1, <1>2, <1>4 DEF Built
<1>6. Laid'  BY <1>1, <1>2, <1>3, <1>4, Zenon DEF Laid
<1>7. Runs'  BY <1>1, <1>2, <1>3, <1>4 DEF Runs
<1>8. Contexts'
  <2>1. \A k : Waiting(k)' = Waiting(k)  BY <1>2, <1>3, Zenon DEF Waiting
  <2> QED  BY <1>1, <1>2, <1>4, <2>1 DEF Contexts
<1> QED  BY <1>5, <1>6, <1>7, <1>8 DEF IInv

(* An interrupt saves the running context where that of its task may lie,    *)
(* and the contexts that wait survive the interrupt.                        *)
LEMMA Interrupted ==
  ASSUME IInv, phase = "on"
  PROVE  /\ Count \in 1 .. 3 /\ running \in 1 .. Count /\ current_task = At(running)
         /\ running # WILD /\ ~NoDataSegment
         /\ SavedAt \in Nat /\ SavedAt \in Homes(Records, PcbBytes, running)
         /\ AfterInterrupt \subseteq Frame
         /\ \A f, g \in AfterInterrupt : f.at = g.at => f = g
         /\ [at |-> SavedAt, task |-> running] \in AfterInterrupt
         /\ \A k \in 1 .. Count : k # running =>
              /\ pcb[At(k)].esp \in Homes(Records, PcbBytes, k)
              /\ [at |-> pcb[At(k)].esp, task |-> k] \in AfterInterrupt
<1> DEFINE w == PcbBytes
           n == Count
<1>1. Built /\ Laid /\ Runs /\ Contexts  BY DEF IInv
<1>2. w \in Width /\ Records \in BOOLEAN /\ n \in 0 .. 3 /\ (~Records => n < 3)
  BY Basics
<1>3. n \in 1 .. 3 /\ running \in 1 .. n /\ current_task = At(running)
  <2>1. Count # 0 /\ running \in 1 .. 3 /\ running <= Count /\ current_task = At(running)
    BY <1>1, phase = "on" DEF Built, Runs
  <2> QED  BY <1>2, <2>1
<1>4. ~NoDataSegment
  <2>1. CASE running = 1  BY <2>1, Zenon DEF NoDataSegment, Ring0, KERNEL
  <2>2. CASE running # 1
    <3>1. build.tasks \in Nat /\ Count \in 0 .. build.tasks + 1  BY <1>1 DEF Built, Build
    <3>2. build.tasks > 0  BY <1>3, <2>2, <3>1
    <3>3. build.segments  BY <1>1, <3>2, Zenon DEF Built, Complete
    <3> QED  BY <3>3, Zenon DEF NoDataSegment
  <2> QED  BY <2>1, <2>2
<1>5. running # 1 => esp0 = IF Records THEN Top(w, running) ELSE TssStack
  <2>1. running # 1 => running > 1  BY <1>3
  <2>2. /\ ~Records => esp0 = TssStack
        /\ Records /\ running > 1 => esp0 = Top(w, running)
    BY <1>1 DEF Runs
  <2> QED  BY <1>2, <2>1, <2>2, Zenon
<1> HIDE DEF w, n
<1>6. SavedAt \in Nat /\ SavedAt \in Homes(Records, w, running)
  <2>1. CASE running = 1
    <3>1. SavedAt = BootStack  BY <2>1, Zenon DEF SavedAt, Ring0, KERNEL
    <3>2. Homes(Records, w, running) = {BootStack}  BY <2>1, Zenon DEF Homes
    <3> QED  BY <3>1, <3>2, Numbers
  <2>2. CASE running # 1
    <3>1. SavedAt = esp0 - FrameBytes  BY <2>2, Zenon DEF SavedAt, Ring0, KERNEL
    <3>2. Homes(Records, w, running) = {Top(w, running) - FrameBytes}
             \cup (IF Records THEN {} ELSE {TssStack - FrameBytes})
      BY <2>2, Zenon DEF Homes
    <3>3. SavedAt \in Homes(Records, w, running)
      <4>1. CASE Records  BY <1>5, <2>2, <3>1, <3>2, <4>1
      <4>2. CASE ~Records
        <5>1. SavedAt = TssStack - FrameBytes  BY <1>5, <2>2, <3>1, <4>2
        <5> QED  BY <3>2, <4>2, <5>1
      <4> QED  BY <4>1, <4>2
    <3>4. running \in 1 .. 3 /\ 1 \in 1 .. 3 /\ (~Records => running < 3 /\ 1 < 3)
      BY <1>2, <1>3
    <3>5. SavedAt \in Nat  BY <1>2, <2>2, <3>3, <3>4, HomesApart
    <3> QED  BY <3>3, <3>5
  <2> QED  BY <2>1, <2>2
<1> DEFINE u == IF Ring0 THEN frames ELSE Surviving(frames, esp0 - StackBytes, esp0)
           T == 0 .. build.tasks + 1
<1>7. AfterInterrupt = Save(u, SavedAt, running)  BY DEF AfterInterrupt
<1>8. u \subseteq frames /\ (running = 1 => u = frames)
  <2>1. CASE Ring0  BY <2>1
  <2>2. CASE ~Ring0
    <3>1. u = Surviving(frames, esp0 - StackBytes, esp0)  BY <2>2
    <3>2. running # 1  BY <2>2 DEF Ring0, KERNEL
    <3> QED  BY <3>1, <3>2 DEF Surviving
  <2> QED  BY <2>1, <2>2
<1>9. u \subseteq [at : Nat, task : T] /\ \A f, g \in u : f.at = g.at => f = g
  BY <1>1, <1>8 DEF Contexts, Frame
<1>10. running \in T
  <2>1. build.tasks \in Nat /\ n \in 0 .. build.tasks + 1  BY <1>1 DEF Built, Build, n
  <2> QED  BY <1>3, <2>1
<1>11. /\ AfterInterrupt \subseteq Frame
       /\ \A f, g \in AfterInterrupt : f.at = g.at => f = g
       /\ [at |-> SavedAt, task |-> running] \in AfterInterrupt
       /\ \A f \in u : f.at + FrameBytes <= SavedAt \/ SavedAt + FrameBytes <= f.at
                       => f \in AfterInterrupt
  <2> HIDE DEF u, T
  <2>1. /\ Save(u, SavedAt, running) \subseteq [at : Nat, task : T]
        /\ \A f, g \in Save(u, SavedAt, running) : f.at = g.at => f = g
        /\ [at |-> SavedAt, task |-> running] \in Save(u, SavedAt, running)
        /\ \A f \in u : f.at + FrameBytes <= SavedAt \/ SavedAt + FrameBytes <= f.at
                        => f \in Save(u, SavedAt, running)
    BY <1>6, <1>9, <1>10, Saving
  <2> QED  BY <1>7, <2>1, Zenon DEF Frame, T
<1>12. ASSUME NEW k \in 1 .. n, k # running
       PROVE  /\ pcb[At(k)].esp \in Homes(Records, w, k)
              /\ [at |-> pcb[At(k)].esp, task |-> k] \in AfterInterrupt
  <2> DEFINE a == pcb[At(k)].esp
             f == [at |-> a, task |-> k]
  <2>1. a \in Homes(Records, w, k) /\ f \in frames /\ f.at = a
    BY <1>1, <1>12 DEF Contexts, Waiting, w, n
  <2>2. k \in 1 .. 3 /\ running \in 1 .. 3 /\ (~Records => k < 3 /\ running < 3)
    BY <1>2, <1>3, <1>12
  <2> HIDE DEF a, f
  <2>3. /\ a + FrameBytes <= SavedAt \/ SavedAt + FrameBytes <= a
        /\ running # 1 => LET e == IF Records THEN Top(w, running) ELSE TssStack
                          IN  a + FrameBytes <= e - StackBytes \/ e <= a
    BY <1>2, <1>6, <1>12, <2>1, <2>2, HomesApart
  <2>4. f \in u
    <3>1. CASE running = 1  BY <1>8, <2>1, <3>1
    <3>2. CASE running # 1
      <4>1. u = Surviving(frames, esp0 - StackBytes, esp0)
        BY <3>2, Zenon DEF Ring0, KERNEL
      <4>2. a + FrameBytes <= esp0 - StackBytes \/ esp0 <= a
        BY <1>5, <2>3, <3>2, Zenon
      <4> QED  BY <2>1, <4>1, <4>2 DEF Surviving
    <3> QED  BY <3>1, <3>2
  <2>5. f \in AfterInterrupt
    <3> HIDE DEF u
    <3> QED  BY <1>11, <2>1, <2>3, <2>4
  <2> QED  BY <2>1, <2>5 DEF a, f
<1>13. running # WILD  BY <1>3 DEF WILD
<1> QED  BY <1>3, <1>4, <1>6, <1>11, <1>12, <1>13 DEF w, n

(* Contexts wait at addresses, and never at NULL.                           *)
LEMMA HomesAreAddresses ==
  ASSUME NEW w \in Width, NEW r \in BOOLEAN, NEW k \in 1 .. 3, ~r => k < 3,
         NEW a \in Homes(r, w, k)
  PROVE  a \in Nat /\ a # NULL
<1> DEFINE other == IF k = 1 THEN 2 ELSE 1
<1>1. other \in 1 .. 3 /\ k # other /\ other < 3  OBVIOUS
<1> HIDE DEF other
<1> QED  BY <1>1, HomesApart

(* Resuming a task takes its own context away; those of the others stay, for *)
(* they wait elsewhere.                                                     *)
LEMMA OthersStay ==
  ASSUME NEW w \in Width, NEW r \in BOOLEAN, NEW j \in 1 .. 3, NEW k \in 1 .. 3, j # k,
         ~r => j < 3 /\ k < 3, NEW fs,
         NEW a \in Homes(r, w, j), NEW e \in Homes(r, w, k), [at |-> a, task |-> j] \in fs
  PROVE  [at |-> a, task |-> j] \in Popped(fs, e)
<1>1. a + FrameBytes <= e \/ e + FrameBytes <= a  BY HomesApart
<1>2. a \in Nat /\ e \in Nat  BY HomesAreAddresses
<1>3. a # e  BY <1>1, <1>2 DEF FrameBytes
<1> QED  BY <1>3 DEF Popped

(* The keyboard interrupt gives the CPU back to the task it took it from.   *)
LEMMA KeyHandled == ASSUME IInv, keyboard_interrupt  PROVE IInv'
<1> DEFINE w == PcbBytes
           n == Count
           F == AfterInterrupt
<1>1. Built /\ Laid /\ Runs /\ Contexts  BY DEF IInv
<1>2. w \in Width /\ Records \in BOOLEAN /\ n \in 0 .. 3 /\ (~Records => n < 3)
  BY Basics
<1>3. phase = "on"  BY DEF keyboard_interrupt
<1>4. /\ n \in 1 .. 3 /\ running \in 1 .. n /\ ~NoDataSegment
      /\ SavedAt \in Homes(Records, w, running)
      /\ F \subseteq Frame
      /\ \A f, g \in F : f.at = g.at => f = g
      /\ [at |-> SavedAt, task |-> running] \in F
      /\ \A k \in 1 .. n : k # running => /\ pcb[At(k)].esp \in Homes(Records, w, k)
                                          /\ [at |-> pcb[At(k)].esp, task |-> k] \in F
  BY <1>3, Interrupted
<1>5. /\ running' = ContextAt(F, SavedAt) /\ frames' = Popped(F, SavedAt)
      /\ UNCHANGED <<build, phase, heap, pcb, stacks, current_task, esp0, tick>>
  BY <1>4 DEF keyboard_interrupt, Resume
<1> HIDE DEF w, n, F
<1>6. running' = running  BY <1>4, <1>5, Resuming
<1>7. PcbBytes' = PcbBytes /\ Records' = Records /\ \A k : At(k)' = At(k)
  BY <1>5, Unmoved
<1>8. Count' = Count /\ Frame' = Frame  BY <1>5 DEF Count, Frame
<1>9. Built'  BY <1>1, <1>5, <1>8 DEF Built
<1>10. Laid'  BY <1>1, <1>5, <1>7, <1>8, Zenon DEF Laid
<1>11. Runs'  BY <1>1, <1>5, <1>6, <1>7, <1>8 DEF Runs
<1>12. Contexts'
  <2>1. frames' \subseteq Frame /\ \A f, g \in frames' : f.at = g.at => f = g
    BY <1>4, <1>5 DEF Popped
  <2>2. ASSUME NEW k \in 1 .. n, k # running
        PROVE  Waiting(k)'
    <3> DEFINE a == pcb[At(k)].esp
    <3>1. /\ k \in 1 .. 3 /\ running \in 1 .. 3 /\ (~Records => k < 3 /\ running < 3)
          /\ a \in Homes(Records, w, k) /\ [at |-> a, task |-> k] \in F
      BY <1>2, <1>4, <2>2
    <3> HIDE DEF a
    <3>2. [at |-> a, task |-> k] \in frames'  BY <1>2, <1>4, <1>5, <2>2, <3>1, OthersStay
    <3> QED  BY <1>5, <1>7, <3>1, <3>2, Zenon DEF Waiting, a, w
  <2> QED  BY <1>6, <1>8, <2>1, <2>2 DEF Contexts, n
<1> QED  BY <1>9, <1>10, <1>11, <1>12 DEF IInv

(* A program on its own user stack touches no context that waits.           *)
LEMMA StackUsed == ASSUME IInv, use_stack  PROVE IInv'
<1> DEFINE w == PcbBytes
           n == Count
           base == UserStack(w, running)
<1>1. Built /\ Laid /\ Runs /\ Contexts  BY DEF IInv
<1>2. w \in Width /\ Records \in BOOLEAN /\ n \in 0 .. 3 /\ (~Records => n < 3)
  BY Basics
<1>3. phase = "on" /\ running \in DOMAIN stacks
  BY DEF use_stack
<1>4. running \in 2 .. n /\ stacks[running].user = base
  <2>1. stacks = Stacks(w, n)  BY <1>1 DEF Laid, LaidAs
  <2> HIDE DEF w, n
  <2> QED  BY <1>3, <2>1 DEF Stacks
<1>5. /\ frames' = Surviving(frames, base, base + StackBytes)
      /\ UNCHANGED <<build, phase, heap, pcb, stacks, current_task, esp0, running, tick>>
  BY <1>4 DEF use_stack
<1> HIDE DEF w, n
<1>6. PcbBytes' = PcbBytes /\ Records' = Records /\ \A k : At(k)' = At(k)
  BY <1>5, Unmoved
<1>7. Count' = Count /\ Frame' = Frame  BY <1>5 DEF Count, Frame
<1>8. Built'  BY <1>1, <1>5, <1>7 DEF Built
<1>9. Laid'  BY <1>1, <1>5, <1>6, <1>7, Zenon DEF Laid
<1>10. Runs'  BY <1>1, <1>5, <1>6, <1>7 DEF Runs
<1>11. Contexts'
  <2>1. frames' \subseteq Frame /\ \A f, g \in frames' : f.at = g.at => f = g
    BY <1>1, <1>5 DEF Contexts, Surviving
  <2>2. ASSUME NEW k \in 1 .. n, k # running
        PROVE  Waiting(k)'
    <3> DEFINE a == pcb[At(k)].esp
               f == [at |-> a, task |-> k]
    <3>1. a \in Homes(Records, w, k) /\ f \in frames /\ f.at = a
      BY <1>1, <2>2 DEF Contexts, Waiting, w, n
    <3>2. k \in 1 .. 3 /\ running \in 1 .. 3 /\ running # 1
          /\ (~Records => k < 3 /\ running < 3)
      BY <1>2, <1>4, <2>2
    <3> HIDE DEF a, f
    <3>3. a + FrameBytes <= base \/ base + StackBytes <= a
      BY <1>2, <2>2, <3>1, <3>2, HomesApart
    <3> HIDE DEF base
    <3>4. f \in frames'  BY <1>5, <3>1, <3>3 DEF Surviving
    <3> QED  BY <1>5, <1>6, <3>1, <3>4, Zenon DEF Waiting, a, f, w
  <2> QED  BY <1>5, <1>7, <2>1, <2>2 DEF Contexts, n
<1> QED  BY <1>8, <1>9, <1>10, <1>11 DEF IInv

(* What the timer interrupt does: save, go on to the task that follows, take *)
(* its context from where it waits and its kernel stack for the TSS.         *)
LEMMA Ticked ==
  ASSUME IInv, timer_interrupt
  PROVE  /\ phase = "on" /\ Count \in 1 .. 3 /\ running \in 1 .. Count
         /\ Follower(Count, running) \in 1 .. Count
         /\ pcb' = [pcb EXCEPT ![At(running)].esp = SavedAt]
         /\ current_task' = At(Follower(Count, running))
         /\ running' = Follower(Count, running)
         /\ frames' = Popped(AfterInterrupt, pcb'[At(Follower(Count, running))].esp)
         /\ esp0' = IF pcb[At(Follower(Count, running))].top # NULL
                    THEN pcb[At(Follower(Count, running))].top ELSE esp0
         /\ tick' = TickNext
         /\ UNCHANGED <<build, phase, heap, stacks>>
<1> DEFINE w == PcbBytes
           n == Count
           F == AfterInterrupt
           t == Follower(n, running)
           saved == [pcb EXCEPT ![At(running)].esp = SavedAt]
           e == saved[At(t)].esp
<1>1. Built /\ Laid /\ Runs /\ Contexts  BY DEF IInv
<1>2. /\ w \in Width /\ Records \in BOOLEAN /\ n \in 0 .. 3 /\ (~Records => n < 3)
      /\ \A k \in 1 .. n : At(k) \in DOMAIN pcb /\ pcb[At(k)] \in Pcb
      /\ \A j, k \in 1 .. 3 : At(j) = At(k) => j = k
      /\ \A k \in 1 .. 3 : At(k) \in Nat \ {0}
  BY Basics
<1>3. phase = "on"  BY DEF timer_interrupt
<1>4. /\ n \in 1 .. 3 /\ running \in 1 .. n /\ current_task = At(running)
      /\ ~NoDataSegment /\ SavedAt \in Nat /\ SavedAt \in Homes(Records, w, running)
      /\ \A f, g \in F : f.at = g.at => f = g
      /\ [at |-> SavedAt, task |-> running] \in F
      /\ \A k \in 1 .. n : k # running => /\ pcb[At(k)].esp \in Homes(Records, w, k)
                                          /\ [at |-> pcb[At(k)].esp, task |-> k] \in F
  BY <1>3, Interrupted
<1>5. t \in 1 .. n /\ t \in 1 .. 3 /\ running \in 1 .. 3  BY <1>4 DEF Follower
<1>6. pcb[At(running)].next = At(t)
  BY <1>1, <1>4 DEF Laid, LaidAs, At
<1>7. Saved = saved /\ Rotated = At(t) /\ current_task # NULL
  BY <1>2, <1>4, <1>5, <1>6 DEF Saved, Rotated, NULL
<1>8. saved[At(t)].top = pcb[At(t)].top
  BY <1>2, <1>5
<1>9. e \in Homes(Records, w, t) /\ [at |-> e, task |-> t] \in F
  <2>1. CASE t = running
    <3>1. saved[At(t)] = [pcb[At(t)] EXCEPT !.esp = SavedAt]  BY <1>2, <1>5, <2>1
    <3>2. pcb[At(t)] \in Pcb  BY <1>2, <1>5
    <3>3. e = SavedAt  BY <3>1, <3>2 DEF Pcb
    <3> HIDE DEF e, F, w, n, t
    <3> QED  BY <1>4, <2>1, <3>3
  <2>2. CASE t # running
    <3>1. At(t) # At(running)  BY <1>2, <1>5, <2>2
    <3>2. saved[At(t)] = pcb[At(t)]  BY <1>2, <1>5, <3>1
    <3>3. e = pcb[At(t)].esp  BY <3>2
    <3> HIDE DEF e, F, w, n, t
    <3> QED  BY <1>4, <1>5, <2>2, <3>3
  <2> QED  BY <2>1, <2>2
<1> HIDE DEF w, n, F, t, saved
<1>10. e # NULL /\ ContextAt(F, e) = t
  <2>1. t \in 1 .. 3 /\ (~Records => t < 3)  BY <1>2, <1>5
  <2> HIDE DEF e
  <2>2. e # NULL  BY <1>2, <1>9, <2>1, HomesAreAddresses
  <2>3. ContextAt(F, e) = t  BY <1>4, <1>9, Resuming
  <2> QED  BY <2>2, <2>3
<1>11. InEax(saved[At(t)]) = e
  <2>1. build.returns  BY <1>1, Zenon DEF Built, Complete
  <2> QED  BY <2>1, Zenon DEF InEax
<1>12. /\ tick' = TickNext
       /\ pcb' = saved /\ current_task' = At(t)
       /\ esp0' = (IF saved[At(t)].top # NULL THEN saved[At(t)].top ELSE esp0)
       /\ Resume(F, e)
       /\ UNCHANGED <<build, phase, heap, stacks>>
  BY <1>4, <1>7, <1>10, <1>11, Zenon DEF timer_interrupt, F
<1>13. running' = t /\ frames' = Popped(F, e)  BY <1>10, <1>12, Zenon DEF Resume
<1>14. frames' = Popped(F, pcb'[At(t)].esp)  BY <1>12, <1>13, Zenon
<1> QED  BY <1>3, <1>4, <1>5, <1>8, <1>12, <1>13, <1>14, Zenon DEF n, t, F, saved

LEMMA TimerHandled == ASSUME IInv, timer_interrupt  PROVE IInv'
<1> DEFINE w == PcbBytes
           n == Count
           F == AfterInterrupt
           t == Follower(n, running)
<1>1. Built /\ Laid /\ Runs /\ Contexts  BY DEF IInv
<1>2. /\ w \in Width /\ Records \in BOOLEAN /\ n \in 0 .. 3 /\ (~Records => n < 3)
      /\ DOMAIN pcb = {At(k) : k \in 1 .. n}
      /\ \A k \in 1 .. n : At(k) \in DOMAIN pcb /\ pcb[At(k)] \in Pcb
      /\ \A j, k \in 1 .. 3 : At(j) = At(k) => j = k
  BY Basics
<1>3. /\ phase = "on" /\ n \in 1 .. 3 /\ running \in 1 .. n /\ t \in 1 .. n
      /\ pcb' = [pcb EXCEPT ![At(running)].esp = SavedAt]
      /\ current_task' = At(t) /\ running' = t
      /\ frames' = Popped(F, pcb'[At(t)].esp)
      /\ esp0' = (IF pcb[At(t)].top # NULL THEN pcb[At(t)].top ELSE esp0)
      /\ tick' = TickNext
      /\ UNCHANGED <<build, phase, heap, stacks>>
  BY Ticked
<1>4. /\ SavedAt \in Nat /\ SavedAt \in Homes(Records, w, running)
      /\ F \subseteq Frame
      /\ \A f, g \in F : f.at = g.at => f = g
      /\ [at |-> SavedAt, task |-> running] \in F
      /\ \A k \in 1 .. n : k # running => /\ pcb[At(k)].esp \in Homes(Records, w, k)
                                          /\ [at |-> pcb[At(k)].esp, task |-> k] \in F
  BY <1>3, Interrupted
<1> HIDE DEF w, n, F, t
<1>5. PcbBytes' = PcbBytes /\ Records' = Records /\ \A k : At(k)' = At(k)
  BY <1>3, Unmoved
<1>6. DOMAIN pcb' = DOMAIN pcb  BY <1>3
<1>7. Count' = Count /\ Frame' = Frame  BY <1>3, <1>6 DEF Count, Frame
<1>8. ASSUME NEW k \in 1 .. n
      PROVE  /\ pcb'[At(k)] \in Pcb
             /\ pcb'[At(k)].id = pcb[At(k)].id
             /\ pcb'[At(k)].next = pcb[At(k)].next
             /\ pcb'[At(k)].top = pcb[At(k)].top
             /\ pcb'[At(k)].esp = IF k = running THEN SavedAt ELSE pcb[At(k)].esp
  <2> DEFINE old == pcb[At(k)]
             q == [old EXCEPT !.esp = SavedAt]
  <2>1. CASE k = running
    <3>1. pcb'[At(k)] = q  BY <1>2, <1>3, <2>1
    <3>2. old \in Pcb  BY <1>2
    <3> HIDE DEF old
    <3>3. /\ q \in Pcb /\ q.id = old.id /\ q.next = old.next /\ q.top = old.top
          /\ q.esp = SavedAt
      BY <1>4, <3>2 DEF Pcb
    <3> QED  BY <2>1, <3>1, <3>3, Zenon DEF old
  <2>2. CASE k # running
    <3>1. k \in 1 .. 3 /\ running \in 1 .. 3  BY <1>3
    <3>2. At(k) # At(running)  BY <1>2, <2>2, <3>1
    <3>3. pcb'[At(k)] = pcb[At(k)]  BY <1>2, <1>3, <3>2
    <3> QED  BY <1>2, <2>2, <3>3
  <2> QED  BY <2>1, <2>2
<1>9. Built'
  <2>1. tick' \in 0 .. TickModulus - 1
    <3>1. tick + 1 \in Nat  BY <1>1, SchedulerAssumption DEF Built
    <3> QED  BY <1>3, <3>1, ModNat, SchedulerAssumption DEF TickNext
  <2> QED  BY <1>1, <1>3, <1>7, <2>1 DEF Built
<1>10. \A k : At(k) = PcbAt(w, k)  BY DEF At, w
<1>11. \A k \in 1 .. n : /\ pcb[At(k)].id = k
                         /\ pcb[At(k)].next = PcbAt(w, Follower(n, k))
                         /\ pcb[At(k)].top = TopOf(Records, w, k)
  BY <1>1 DEF Laid, LaidAs, At, w, n
<1>12. Laid'
  <2>1. pcb' \in [{PcbAt(w, k) : k \in 1 .. n} -> Pcb]
    <3>1. pcb' = [y \in DOMAIN pcb' |-> pcb'[y]]  BY <1>3
    <3>2. \A y \in DOMAIN pcb' : pcb'[y] \in Pcb  BY <1>2, <1>6, <1>8
    <3>3. DOMAIN pcb' = {PcbAt(w, k) : k \in 1 .. n}  BY <1>2, <1>6, <1>10
    <3> QED  BY <3>1, <3>2, <3>3
  <2>2. \A k \in 1 .. n : /\ pcb'[PcbAt(w, k)].id = k
                          /\ pcb'[PcbAt(w, k)].next = PcbAt(w, Follower(n, k))
                          /\ pcb'[PcbAt(w, k)].top = TopOf(Records, w, k)
    BY <1>8, <1>10, <1>11, Zenon
  <2>3. stacks' = Stacks(w, n) /\ heap' = [at |-> LeftAt(w, n), size |-> LeftSize(w, n)]
    BY <1>1, <1>3, Zenon DEF Laid, LaidAs, w, n
  <2>4. LaidAs(w, Records', n, pcb', stacks', heap')
    BY <1>5, <2>1, <2>2, <2>3, Zenon DEF LaidAs
  <2> QED  BY <1>5, <1>7, <2>4, Zenon DEF Laid, w, n
<1>13. Runs'
  <2>1. t \in {1, 2, 3} /\ t <= n  BY <1>3
  <2>2. esp0' = IF Records /\ t > 1 THEN Top(w, t) ELSE esp0
    <3>1. pcb[At(t)].top = TopOf(Records, w, t)  BY <1>3, <1>11
    <3>2. CASE Records /\ t > 1
      <4>1. Top(w, 2) # NULL /\ Top(w, 3) # NULL
        BY <1>2, Places, Numbers DEF Top, StackBytes, NULL
      <4>2. t = 2 \/ t = 3  BY <2>1, <3>2
      <4>3. TopOf(Records, w, t) = Top(w, t)  BY <3>2, Zenon DEF TopOf
      <4>4. esp0' = Top(w, t)  BY <1>3, <3>1, <4>1, <4>2, <4>3
      <4> QED  BY <3>2, <4>4, Zenon
    <3>3. CASE ~(Records /\ t > 1)
      <4>1. TopOf(Records, w, t) = NULL  BY <3>3, Zenon DEF TopOf
      <4>2. esp0' = esp0  BY <1>3, <3>1, <4>1, Zenon
      <4> QED  BY <3>3, <4>2, Zenon
    <3> QED  BY <3>2, <3>3
  <2>3. esp0' \in Nat
    <3>1. Top(w, 2) \in Nat /\ Top(w, 3) \in Nat
      BY <1>2, Places, Numbers DEF Top, StackBytes
    <3>2. esp0 \in Nat  BY <1>1 DEF Runs
    <3>3. CASE Records /\ t > 1
      <4>1. t = 2 \/ t = 3  BY <2>1, <3>3
      <4>2. esp0' = Top(w, t)  BY <2>2, <3>3, Zenon
      <4> QED  BY <3>1, <4>1, <4>2
    <3>4. CASE ~(Records /\ t > 1)
      <4>1. esp0' = esp0  BY <2>2, <3>4, Zenon
      <4> QED  BY <3>2, <4>1
    <3> QED  BY <3>3, <3>4
  <2>4. ~Records' => esp0' = TssStack
    <3>1. ~Records => esp0 = TssStack  BY <1>1, Zenon DEF Runs
    <3> QED  BY <1>5, <2>2, <3>1, Zenon
  <2>5. Records' /\ running' > 1 => esp0' = Top(PcbBytes', running')
    BY <1>3, <1>5, <2>2, Zenon DEF w
  <2>6. current_task' = At(running)'  BY <1>3, <1>5
  <2>7. /\ running' \in 1 .. 3
        /\ phase' = "boot" => running' = 1 /\ current_task' = NULL
        /\ phase' # "boot" => running' <= Count' /\ current_task' = At(running)'
        /\ phase' # "on" => running' = 1
    BY <1>3, <1>7, <2>1, <2>6 DEF n
  <2> QED  BY <2>3, <2>4, <2>5, <2>7, Zenon DEF Runs
<1>14. Contexts'
  <2>1. frames' \subseteq Frame /\ \A f, g \in frames' : f.at = g.at => f = g
    BY <1>3, <1>4 DEF Popped
  <2>2. \A k \in 1 .. n : /\ pcb'[At(k)].esp \in Homes(Records, w, k)
                          /\ [at |-> pcb'[At(k)].esp, task |-> k] \in F
    BY <1>4, <1>8, Zenon
  <2>3. ASSUME NEW k \in 1 .. n, k # t
        PROVE  Waiting(k)'
    <3> DEFINE a == pcb'[At(k)].esp
               e == pcb'[At(t)].esp
    <3>1. /\ k \in 1 .. 3 /\ t \in 1 .. 3 /\ (~Records => k < 3 /\ t < 3)
      BY <1>2, <1>3, <2>3
    <3>2. a \in Homes(Records, w, k) /\ e \in Homes(Records, w, t)
          /\ [at |-> a, task |-> k] \in F /\ frames' = Popped(F, e)
      BY <1>3, <2>2
    <3> HIDE DEF a, e
    <3>3. [at |-> a, task |-> k] \in frames'  BY <1>2, <2>3, <3>1, <3>2, OthersStay
    <3> QED  BY <1>5, <3>2, <3>3, Zenon DEF Waiting, a, w
  <2> QED  BY <1>3, <1>7, <2>1, <2>3 DEF Contexts, n
<1> QED  BY <1>9, <1>12, <1>13, <1>14 DEF IInv

(* Every step keeps the invariant.                                          *)
LEMMA StepInv == IInv /\ [Next]_vars => IInv'
<1> SUFFICES ASSUME IInv, [Next]_vars PROVE IInv'
  OBVIOUS
<1>1. CASE task_init  BY <1>1, Started
<1>2. CASE create_task  BY <1>2, Created
<1>3. CASE sti  BY <1>3, Enabled
<1>4. CASE timer_interrupt  BY <1>4, TimerHandled
<1>5. CASE keyboard_interrupt  BY <1>5, KeyHandled
<1>6. CASE use_stack  BY <1>6, StackUsed
<1>7. CASE UNCHANGED vars
  <2>1. UNCHANGED <<build, phase, heap, pcb, stacks, current_task, frames, esp0, running, tick>>
    BY <1>7 DEF vars
  <2>2. PcbBytes' = PcbBytes /\ Records' = Records /\ \A k : At(k)' = At(k)
    BY <2>1, Unmoved
  <2>3. Count' = Count /\ Frame' = Frame  BY <2>1 DEF Count, Frame
  <2>4. Built' /\ Runs'  BY <2>1, <2>2, <2>3 DEF IInv, Built, Runs
  <2>5. Laid'  BY <2>1, <2>2, <2>3, Zenon DEF IInv, Laid
  <2>6. \A k : Waiting(k)' = Waiting(k)  BY <2>1, <2>2, Zenon DEF Waiting
  <2>7. Contexts'  BY <2>1, <2>3, <2>6 DEF IInv, Contexts
  <2> QED  BY <2>4, <2>5, <2>7 DEF IInv
<1> QED  BY <1>1, <1>2, <1>3, <1>4, <1>5, <1>6, <1>7 DEF Next

(* The inductive invariant holds in every state of completed builds.        *)
THEOREM Invariance == Completed => (Spec => []IInv)
<1> SUFFICES ASSUME Completed PROVE Spec => []IInv
  OBVIOUS
<1>1. Init => IInv  BY InitInv
<1>2. IInv /\ [Next]_vars => IInv'  BY StepInv
<1> QED  BY <1>1, <1>2, PTL DEF Spec
--------------------------------------------------------------------------------
(* What the heap has left after each task is a number of bytes, and a header *)
(* there lies in the page of heap_init.                                     *)
LEMMA LeftInPage ==
  ASSUME NEW w \in Width, NEW n \in 0 .. 3
  PROVE  /\ LeftAt(w, n) \in Nat /\ LeftSize(w, n) \in Nat
         /\ LeftAt(w, n) + HeaderBytes <= HEAP + PageBytes
<1>1. HEAP \in Nat /\ w \in Nat /\ 16 <= w /\ w <= 20  BY Places, Numbers
<1>2. n = 0 \/ n = 1 \/ n = 2 \/ n = 3  OBVIOUS
<1>3. CASE n = 0  BY <1>1, <1>3 DEF LeftAt, LeftSize, HeaderBytes, PageBytes
<1>4. CASE n = 1  BY <1>1, <1>4 DEF LeftAt, LeftSize, HeaderBytes, PageBytes
<1>5. CASE n = 2  BY <1>1, <1>5 DEF LeftAt, LeftSize, HeaderBytes, PageBytes
<1>6. CASE n = 3  BY <1>1, <1>6 DEF LeftAt, LeftSize, HeaderBytes, PageBytes
<1> QED  BY <1>2, <1>3, <1>4, <1>5, <1>6

(* What the other definitions say of the records in IInv.                   *)
LEMMA Reading ==
  ASSUME IInv
  PROVE  /\ \A k \in 1 .. Count : /\ pcb[At(k)].id = k
                                  /\ pcb[At(k)].next = At(Follower(Count, k))
                                  /\ Follower(Count, k) \in 1 .. Count
         /\ stacks = Stacks(PcbBytes, Count)
         /\ heap = [at |-> LeftAt(PcbBytes, Count), size |-> LeftSize(PcbBytes, Count)]
         /\ Tasks = 1 .. Count
         /\ \A t \in 1 .. Count : PcbOf(t) = pcb[At(t)]
<1> DEFINE n == Count
<1>1. /\ \A k \in 1 .. n : pcb[At(k)].id = k /\ pcb[At(k)].next = At(Follower(n, k))
      /\ stacks = Stacks(PcbBytes, n)
      /\ heap = [at |-> LeftAt(PcbBytes, n), size |-> LeftSize(PcbBytes, n)]
  BY DEF IInv, Laid, LaidAs, At
<1>2. DOMAIN pcb = {At(k) : k \in 1 .. n} /\ n \in 0 .. 3
  BY Basics
<1> HIDE DEF n
<1>3. \A k \in 1 .. n : Follower(n, k) \in 1 .. n  BY <1>2 DEF Follower
<1>4. Tasks = 1 .. n  BY <1>1, <1>2 DEF Tasks
<1>5. ASSUME NEW t \in 1 .. n PROVE PcbOf(t) = pcb[At(t)]
  <2>1. \A p \in DOMAIN pcb : pcb[p].id = t => p = At(t)  BY <1>1, <1>2
  <2>2. At(t) \in DOMAIN pcb /\ pcb[At(t)].id = t  BY <1>1, <1>2
  <2>3. (CHOOSE p \in DOMAIN pcb : pcb[p].id = t) = At(t)  BY <2>1, <2>2
  <2> QED  BY <2>3 DEF PcbOf
<1> QED  BY <1>1, <1>3, <1>4, <1>5 DEF n

LEMMA Typed == IInv => TypeOK
<1> SUFFICES ASSUME IInv PROVE TypeOK
  OBVIOUS
<1> DEFINE w == PcbBytes
           n == Count
<1>1. Built /\ Runs /\ Contexts  BY DEF IInv
<1>2. /\ w \in Width /\ n \in 0 .. 3 /\ DOMAIN pcb = {At(k) : k \in 1 .. n}
      /\ \A k \in 1 .. n : At(k) \in DOMAIN pcb /\ pcb[At(k)] \in Pcb
  BY Basics
<1>3. /\ \A k \in 1 .. n : /\ pcb[At(k)].id = k
                           /\ pcb[At(k)].next = At(Follower(n, k))
                           /\ Follower(n, k) \in 1 .. n
      /\ stacks = Stacks(w, n) /\ heap = [at |-> LeftAt(w, n), size |-> LeftSize(w, n)]
  BY Reading
<1>4. build.tasks \in Nat /\ n <= build.tasks + 1  BY <1>1 DEF Built, Build
<1> HIDE DEF w, n
<1>5. heap \in [at : Nat, size : Nat]  BY <1>2, <1>3, LeftInPage
<1>6. ASSUME NEW p \in DOMAIN pcb
      PROVE  pcb[p] \in [id : 1 .. build.tasks + 1, esp : Nat, next : DOMAIN pcb, top : Nat]
  <2>1. PICK k \in 1 .. n : p = At(k)  BY <1>2
  <2>2. /\ pcb[p] \in Pcb /\ pcb[p].id = k /\ k \in 1 .. build.tasks + 1
        /\ pcb[p].next \in DOMAIN pcb
    BY <1>2, <1>3, <1>4, <2>1
  <2> QED  BY <2>2 DEF Pcb
<1>7. ASSUME NEW t \in DOMAIN stacks
      PROVE  stacks[t] \in [kernel : Nat, user : Nat]
  <2>1. t \in 2 .. n /\ stacks[t] = [kernel |-> KernelStack(w, t), user |-> UserStack(w, t)]
    BY <1>3 DEF Stacks
  <2>2. t = 2 \/ t = 3  BY <1>2, <2>1
  <2>3. /\ KernelStack(w, 2) \in Nat /\ KernelStack(w, 3) \in Nat
        /\ UserStack(w, 2) \in Nat /\ UserStack(w, 3) \in Nat
    BY <1>2, Places, Numbers
  <2>4. KernelStack(w, t) \in Nat /\ UserStack(w, t) \in Nat  BY <2>2, <2>3
  <2> QED  BY <2>1, <2>4
<1>8. /\ current_task \in DOMAIN pcb \cup {NULL} /\ running \in 0 .. build.tasks + 1
      /\ esp0 \in Nat
  <2>1. CASE phase = "boot"  BY <1>1, <1>4, <2>1 DEF Runs
  <2>2. CASE phase # "boot"
    <3>1. running \in 1 .. n /\ current_task = At(running)  BY <1>1, <2>2 DEF Runs, n
    <3> QED  BY <1>1, <1>2, <1>4, <3>1 DEF Runs
  <2> QED  BY <2>1, <2>2
<1>9. /\ build \in Build /\ phase \in {"boot", "tasks", "on"} /\ tick \in 0 .. TickModulus - 1
      /\ frames \subseteq [at : Nat, task : 0 .. build.tasks + 1]
  BY <1>1 DEF Built, Contexts, Frame
<1> QED  BY <1>5, <1>6, <1>7, <1>8, <1>9 DEF TypeOK

(* The type invariant of the scheduler (task.h, timer.c, gdt.c).            *)
THEOREM TypeCorrect == Completed => (Spec => []TypeOK)
<1> SUFFICES ASSUME Completed PROVE Spec => []TypeOK
  OBVIOUS
<1>1. Spec => []IInv  BY Invariance
<1>2. IInv => TypeOK  BY Typed
<1> QED  BY <1>1, <1>2, PTL

LEMMA Intact == IInv => ContextsIntact
<1> SUFFICES ASSUME IInv, phase = "on", NEW t \in Tasks \ {running}
             PROVE  [at |-> PcbOf(t).esp, task |-> t] \in frames
  BY DEF ContextsIntact
<1>1. t \in 1 .. Count /\ PcbOf(t) = pcb[At(t)]  BY Reading
<1>2. Waiting(t)  BY <1>1 DEF IInv, Contexts
<1> QED  BY <1>1, <1>2 DEF Waiting

(* Once sti has run, the context of every task that does not run lies whole *)
(* where its PCB says (timer.c:24-47, task.c:83-121).                       *)
THEOREM ContextsKept == Completed => (Spec => []ContextsIntact)
<1> SUFFICES ASSUME Completed PROVE Spec => []ContextsIntact
  OBVIOUS
<1>1. Spec => []IInv  BY Invariance
<1>2. IInv => ContextsIntact  BY Intact
<1> QED  BY <1>1, <1>2, PTL
--------------------------------------------------------------------------------
(* m regions, none empty, no two with a byte in common, all of them below   *)
(* an address.                                                              *)
Region(low, bytes) == [low |-> low, high |-> low + bytes]
Apart(S) == \A r, s \in S : r # s => r.high <= s.low \/ s.high <= r.low
Row(S, m, above) == /\ IsFiniteSet(S) /\ Cardinality(S) = m
                    /\ S \subseteq [low : Int, high : Int]
                    /\ \A r \in S : r.low < r.high /\ r.high <= above
                    /\ Apart(S)

LEMMA EmptyRow == \A above : Row({}, 0, above)
  BY FS_EmptySet DEF Row, Apart

(* A region behind a row makes it longer.                                   *)
LEMMA LongerRow ==
  ASSUME NEW S, NEW m \in Nat, NEW above \in Int, Row(S, m, above),
         NEW low \in Int, NEW bytes \in Nat \ {0}, above <= low
  PROVE  Row(S \cup {Region(low, bytes)}, m + 1, low + bytes)
<1> DEFINE x == Region(low, bytes)
           U == S \cup {x}
<1>1. x \in [low : Int, high : Int] /\ x.low = low /\ x.high = low + bytes  BY DEF Region
<1> HIDE DEF x
<1>2. /\ IsFiniteSet(S) /\ Cardinality(S) = m /\ S \subseteq [low : Int, high : Int]
      /\ \A r \in S : r.low < r.high /\ r.high <= above
      /\ \A r, s \in S : r # s => r.high <= s.low \/ s.high <= r.low
  BY DEF Row, Apart
<1>3. \A r \in S : r.low \in Int /\ r.high \in Int  BY <1>2
<1>4. \A r \in S : r.high <= x.low  BY <1>1, <1>2, <1>3
<1>5. x \notin S  BY <1>1, <1>4
<1>6. IsFiniteSet(U) /\ Cardinality(U) = m + 1
  BY <1>2, <1>5, FS_AddElement
<1>7. Apart(U)
  <2> SUFFICES ASSUME NEW r \in U, NEW s \in U, r # s
               PROVE  r.high <= s.low \/ s.high <= r.low
    BY DEF Apart
  <2> QED  BY <1>2, <1>4, Zenon
<1>8. \A r \in U : r.low < r.high /\ r.high <= low + bytes
  BY <1>1, <1>2, <1>3
<1> QED  BY <1>1, <1>2, <1>6, <1>7, <1>8 DEF Row, x

(* The rows that the calls of kmalloc lay out; the stack at NULL comes first.*)
LEMMA LaidOut ==
  ASSUME NEW w \in Width
  PROVE  /\ Row({Region(PcbAt(w, 1), w)}, 1, LeftAt(w, 1))
         /\ Row({Region(PcbAt(w, 1), w), Region(KernelStack(w, 2), StackBytes),
                 Region(UserStack(w, 2), StackBytes), Region(PcbAt(w, 2), w)},
                4, LeftAt(w, 2))
         /\ Row({Region(UserStack(w, 3), StackBytes), Region(PcbAt(w, 1), w),
                 Region(KernelStack(w, 2), StackBytes), Region(UserStack(w, 2), StackBytes),
                 Region(PcbAt(w, 2), w), Region(KernelStack(w, 3), StackBytes),
                 Region(PcbAt(w, 3), w)},
                7, LeftAt(w, 3))
<1> DEFINE p1 == PcbAt(w, 1)  p2 == PcbAt(w, 2)  p3 == PcbAt(w, 3)
           k2 == KernelStack(w, 2)  k3 == KernelStack(w, 3)
           u2 == UserStack(w, 2)  u3 == UserStack(w, 3)
           b == StackBytes
<1>1. /\ HEAP \in Nat /\ b <= HEAP /\ b = 1024 /\ w \in Nat \ {0}
      /\ p1 = HEAP + 12 /\ p2 = HEAP + w + 2096 /\ p3 = HEAP + 2 * w + 3144
      /\ k2 = HEAP + w + 24 /\ k3 = HEAP + 2 * w + 2108
      /\ u2 = HEAP + w + 1060 /\ u3 = 0
  BY Places, Numbers DEF StackBytes
<1> HIDE DEF p1, p2, p3, k2, k3, u2, u3, b
<1>2. /\ p1 \in Int /\ p2 \in Int /\ p3 \in Int /\ k2 \in Int /\ k3 \in Int
      /\ u2 \in Int /\ u3 \in Int
      /\ 0 + b <= p1 /\ p1 + w <= k2 /\ k2 + b <= u2 /\ u2 + b <= p2
      /\ p2 + w <= k3 /\ k3 + b <= p3 /\ p1 + w = LeftAt(w, 1)
      /\ p2 + w = LeftAt(w, 2) /\ p3 + w = LeftAt(w, 3)
  BY <1>1 DEF LeftAt
<1>3. b \in Nat \ {0} /\ w \in Nat \ {0}  BY <1>1
<1>4. ASSUME NEW S, NEW m \in Nat, NEW above \in Int, Row(S, m, above),
             NEW low \in Int, NEW bytes \in {b, w}, above <= low, NEW next, next = m + 1
      PROVE  Row(S \cup {Region(low, bytes)}, next, low + bytes) /\ low + bytes \in Int
  <2>1. bytes \in Nat \ {0}  BY <1>3
  <2>2. Row(S \cup {Region(low, bytes)}, m + 1, low + bytes)  BY <1>4, <2>1, LongerRow
  <2> QED  BY <1>4, <2>1, <2>2
<1>5. ASSUME NEW S, NEW m \in Nat, NEW above \in Int, above <= p1, Row(S, m, above)
      PROVE  /\ Row(S \cup {Region(p1, w)}, m + 1, p1 + w)
             /\ Row(S \cup {Region(p1, w), Region(k2, b), Region(u2, b),
                            Region(p2, w)}, m + 4, p2 + w)
  <2> DEFINE S1 == S \cup {Region(p1, w)}
             S2 == S1 \cup {Region(k2, b)}
             S3 == S2 \cup {Region(u2, b)}
             S4 == S3 \cup {Region(p2, w)}
  <2>0. m + 1 \in Nat /\ m + 2 \in Nat /\ m + 3 \in Nat
        /\ (m + 1) + 1 = m + 2 /\ (m + 2) + 1 = m + 3 /\ (m + 3) + 1 = m + 4
        /\ b \in {b, w} /\ w \in {b, w}
    OBVIOUS
  <2> HIDE DEF S1
  <2>1. Row(S1, m + 1, p1 + w) /\ p1 + w \in Int  BY <1>2, <1>4, <1>5, <2>0 DEF S1
  <2> HIDE DEF S2
  <2>2. Row(S2, m + 2, k2 + b) /\ k2 + b \in Int
    BY <1>2, <1>4, <2>0, <2>1, Zenon DEF S2
  <2> HIDE DEF S3
  <2>3. Row(S3, m + 3, u2 + b) /\ u2 + b \in Int
    BY <1>2, <1>4, <2>0, <2>2, Zenon DEF S3
  <2> HIDE DEF S4
  <2>4. Row(S4, m + 4, p2 + w)
    BY <1>2, <1>4, <2>0, <2>3, Zenon DEF S4
  <2>5. S4 = S \cup {Region(p1, w), Region(k2, b), Region(u2, b), Region(p2, w)}
    BY DEF S1, S2, S3, S4
  <2> QED  BY <2>1, <2>4, <2>5 DEF S1
<1>6. Row({}, 0, HEAP) /\ 0 \in Nat /\ HEAP \in Int /\ HEAP <= p1  BY <1>1, EmptyRow
<1>7. /\ Row({Region(p1, w)}, 1, p1 + w)
      /\ Row({Region(p1, w), Region(k2, b), Region(u2, b), Region(p2, w)}, 4, p2 + w)
  <2>1. \A S : {} \cup S = S  OBVIOUS
  <2>2. 0 + 1 = 1 /\ 0 + 4 = 4  OBVIOUS
  <2> QED  BY <1>5, <1>6, <2>1, <2>2
<1>8. Row({Region(u3, b)}, 1, b)
  <2>1. /\ Row({}, 0, 0) /\ u3 \in Int /\ 0 \in Int /\ 0 \in Nat /\ 0 <= u3
        /\ u3 + b = b /\ 1 = 0 + 1 /\ b \in {b, w}
        /\ {} \cup {Region(u3, b)} = {Region(u3, b)}
    BY <1>1, EmptyRow
  <2>2. Row({} \cup {Region(u3, b)}, 1, u3 + b)  BY <1>4, <2>1, Zenon
  <2> QED  BY <2>1, <2>2
<1>9. Row({Region(u3, b), Region(p1, w), Region(k2, b), Region(u2, b),
           Region(p2, w), Region(k3, b), Region(p3, w)}, 7, p3 + w)
  <2> DEFINE S5 == {Region(u3, b)} \cup {Region(p1, w), Region(k2, b),
                                            Region(u2, b), Region(p2, w)}
             S6 == S5 \cup {Region(k3, b)}
             S7 == S6 \cup {Region(p3, w)}
  <2>1. /\ b \in Int /\ b <= p1 /\ 1 \in Nat /\ 5 \in Nat /\ 6 \in Nat
        /\ 1 + 4 = 5 /\ 6 = 5 + 1 /\ 7 = 6 + 1 /\ p2 + w \in Int /\ k3 + b \in Int
        /\ b \in {b, w} /\ w \in {b, w}
    BY <1>1, <1>2
  <2> HIDE DEF S5
  <2>2. Row(S5, 5, p2 + w)
    <3> DEFINE one == {Region(u3, b)}
    <3>1. Row(one, 1, b)  BY <1>8
    <3> HIDE DEF one
    <3>2. Row(one \cup {Region(p1, w), Region(k2, b), Region(u2, b), Region(p2, w)},
              1 + 4, p2 + w)
      BY <1>5, <2>1, <3>1
    <3> QED  BY <2>1, <3>2, Zenon DEF S5, one
  <2> HIDE DEF S6
  <2>3. Row(S6, 6, k3 + b)  BY <1>2, <1>4, <2>1, <2>2, Zenon DEF S6
  <2> HIDE DEF S7
  <2>4. Row(S7, 7, p3 + w)  BY <1>2, <1>4, <2>1, <2>3, Zenon DEF S7
  <2>5. S7 = {Region(u3, b), Region(p1, w), Region(k2, b), Region(u2, b),
              Region(p2, w), Region(k3, b), Region(p3, w)}
    BY DEF S5, S6, S7
  <2> QED  BY <2>4, <2>5
<1> QED  BY <1>2, <1>7, <1>9, Zenon DEF p1, p2, p3, k2, k3, u2, u3, b

LEMMA Disjoint == IInv => MemoryApart
<1> SUFFICES ASSUME IInv PROVE MemoryApart
  OBVIOUS
<1> DEFINE w == PcbBytes
           n == Count
           A == {Region(p, w) : p \in DOMAIN pcb}
           B == {Region(stacks[t].kernel, StackBytes) : t \in DOMAIN stacks}
           C == {Region(stacks[t].user, StackBytes) : t \in DOMAIN stacks}
<1>1. w \in Width /\ n \in 0 .. 3 /\ DOMAIN pcb = {At(k) : k \in 1 .. n}
  BY Basics
<1>2. /\ stacks = Stacks(w, n) /\ heap = [at |-> LeftAt(w, n), size |-> LeftSize(w, n)]
      /\ Tasks = 1 .. n
  BY Reading
<1>3. Regions = A \cup B \cup C
  BY DEF Regions, Region, StackBytes
<1>4. Cardinality(DOMAIN pcb) = n  BY DEF Count
<1>5. \A k : At(k) = PcbAt(w, k)  BY DEF At
<1> HIDE DEF w, n
<1>6. Cardinality(Tasks) = n
  <2>1. 1 \in Int /\ n \in Int  BY <1>1
  <2>2. Cardinality(1 .. n) = IF 1 > n THEN 0 ELSE n - 1 + 1  BY <2>1, FS_Interval
  <2> QED  BY <1>1, <1>2, <2>2
<1>7. A = {Region(PcbAt(w, k), w) : k \in 1 .. n}  BY <1>1, <1>5
<1>8. DOMAIN stacks = 2 .. n
  BY <1>2 DEF Stacks
<1>9. /\ B = {Region(KernelStack(w, t), StackBytes) : t \in 2 .. n}
      /\ C = {Region(UserStack(w, t), StackBytes) : t \in 2 .. n}
  <2>1. \A t \in 2 .. n : stacks[t].kernel = KernelStack(w, t) /\ stacks[t].user = UserStack(w, t)
    BY <1>2 DEF Stacks
  <2> QED  BY <1>8, <2>1
<1> HIDE DEF A, B, C
<1>10. Cardinality(DOMAIN stacks) = IF n = 0 THEN 0 ELSE n - 1
  <2>1. 2 \in Int /\ n \in Int  BY <1>1
  <2>2. Cardinality(2 .. n) = IF 2 > n THEN 0 ELSE n - 2 + 1  BY <2>1, FS_Interval
  <2> QED  BY <1>1, <1>8, <2>2
<1>11. Cardinality(Regions) = n + 2 * Cardinality(DOMAIN stacks) /\ Apart(Regions)
  <2>1. CASE n = 0
    <3>1. 1 .. 0 = {} /\ 2 .. 0 = {}  OBVIOUS
    <3>2. Regions = {}  BY <1>3, <1>7, <1>9, <2>1, <3>1
    <3>3. Row(Regions, 0, 0)  BY <3>2, EmptyRow
    <3> QED  BY <1>10, <2>1, <3>3 DEF Row
  <2>2. CASE n = 1
    <3>1. 1 .. 1 = {1} /\ 2 .. 1 = {}  OBVIOUS
    <3>2. Regions = {Region(PcbAt(w, 1), w)}  BY <1>3, <1>7, <1>9, <2>2, <3>1
    <3>3. Row(Regions, 1, LeftAt(w, 1))  BY <1>1, <3>2, LaidOut, Zenon
    <3> QED  BY <1>10, <2>2, <3>3 DEF Row
  <2>3. CASE n = 2
    <3>1. 1 .. 2 = {1, 2} /\ 2 .. 2 = {2}  OBVIOUS
    <3>2. Regions = {Region(PcbAt(w, 1), w), Region(KernelStack(w, 2), StackBytes),
                     Region(UserStack(w, 2), StackBytes), Region(PcbAt(w, 2), w)}
      BY <1>3, <1>7, <1>9, <2>3, <3>1
    <3>3. Row(Regions, 4, LeftAt(w, 2))  BY <1>1, <3>2, LaidOut, Zenon
    <3> QED  BY <1>10, <2>3, <3>3 DEF Row
  <2>4. CASE n = 3
    <3>1. 1 .. 3 = {1, 2, 3} /\ 2 .. 3 = {2, 3}  OBVIOUS
    <3>2. Regions = {Region(UserStack(w, 3), StackBytes), Region(PcbAt(w, 1), w),
                     Region(KernelStack(w, 2), StackBytes), Region(UserStack(w, 2), StackBytes),
                     Region(PcbAt(w, 2), w), Region(KernelStack(w, 3), StackBytes),
                     Region(PcbAt(w, 3), w)}
      BY <1>3, <1>7, <1>9, <2>4, <3>1
    <3>3. Row(Regions, 7, LeftAt(w, 3))  BY <1>1, <3>2, LaidOut, Zenon
    <3> QED  BY <1>10, <2>4, <3>3 DEF Row
  <2> QED  BY <1>1, <2>1, <2>2, <2>3, <2>4
<1>12. heap.at + HeaderBytes <= HEAP + PageBytes  BY <1>1, <1>2, LeftInPage
<1> QED  BY <1>4, <1>6, <1>11, <1>12 DEF MemoryApart, Apart

(* Tasks, their PCBs and their stacks share nothing, and no header is laid   *)
(* past the page of the heap (task.c:53-153, heap.c:38), also with the       *)
(* stack that kmalloc refuses.                                              *)
THEOREM MemoryKept == Completed => (Spec => []MemoryApart)
<1> SUFFICES ASSUME Completed PROVE Spec => []MemoryApart
  OBVIOUS
<1>1. Spec => []IInv  BY Invariance
<1>2. IInv => MemoryApart  BY Disjoint
<1> QED  BY <1>1, <1>2, PTL
--------------------------------------------------------------------------------
(* The ring as the refinement reads it, from any records.                    *)
Chain(records, cur) ==
  LET at[k \in 1 .. 4] == IF k = 1 THEN cur ELSE records[at[k - 1]].next IN at
RingOf(records, cur, run, n) ==
  [k \in 1 .. n |-> IF k = 1 THEN run ELSE records[Chain(records, cur)[k]].id]

(* Following next pointers, n times from task k.                             *)
Walk(n, k) == [i \in 1 .. n |-> IF i = 1 THEN k
                                ELSE IF i = 2 THEN Follower(n, k)
                                ELSE Follower(n, Follower(n, k))]

(* The recursive function of Ring, step by step.                            *)
LEMMA Pointers ==
  ASSUME NEW records, NEW cur
  PROVE  /\ Chain(records, cur)[1] = cur
         /\ Chain(records, cur)[2] = records[cur].next
         /\ Chain(records, cur)[3] = records[records[cur].next].next
<1> DEFINE R(h) == h = [k \in 1 .. 4 |-> IF k = 1 THEN cur ELSE records[h[k - 1]].next]
           b == records[cur].next
           c == records[b].next
           g == [k \in 1 .. 4 |-> IF k = 1 THEN cur
                                  ELSE IF k = 2 THEN b
                                  ELSE IF k = 3 THEN c ELSE records[c].next]
           at == CHOOSE h : R(h)
<1>1. R(g)
  <2> SUFFICES ASSUME NEW k \in 1 .. 4
               PROVE  g[k] = IF k = 1 THEN cur ELSE records[g[k - 1]].next
    OBVIOUS
  <2>1. k = 1 \/ k = 2 \/ k = 3 \/ k = 4  OBVIOUS
  <2>2. g[1] = cur /\ g[2] = b /\ g[3] = c /\ g[4] = records[c].next  OBVIOUS
  <2> HIDE DEF g
  <2>3. CASE k = 1  BY <2>2, <2>3
  <2>4. CASE k = 2  BY <2>2, <2>4
  <2>5. CASE k = 3  BY <2>2, <2>5
  <2>6. CASE k = 4  BY <2>2, <2>6
  <2> QED  BY <2>1, <2>3, <2>4, <2>5, <2>6
<1>2. R(at)
  <2> HIDE DEF R, g
  <2> QED  BY <1>1
<1>3. \A h : R(h) => h[1] = cur /\ h[2] = b /\ h[3] = c
  <2> SUFFICES ASSUME NEW h, R(h) PROVE h[1] = cur /\ h[2] = b /\ h[3] = c
    OBVIOUS
  <2>1. \A k \in 1 .. 4 : h[k] = IF k = 1 THEN cur ELSE records[h[k - 1]].next  OBVIOUS
  <2> HIDE DEF R
  <2>2. h[1] = cur  BY <2>1
  <2>3. h[2] = b  BY <2>1, <2>2
  <2>4. h[3] = c  BY <2>1, <2>3
  <2> QED  BY <2>2, <2>3, <2>4
<1>4. at[1] = cur /\ at[2] = b /\ at[3] = c
  <2> HIDE DEF R, at
  <2> QED  BY <1>2, <1>3
<1> QED  BY <1>4 DEF Chain

LEMMA RingWalks ==
  ASSUME NEW records, NEW n \in 1 .. 3, NEW k \in 1 .. n, NEW address,
         \A i \in 1 .. n : /\ records[address[i]].id = i
                           /\ records[address[i]].next = address[Follower(n, i)]
  PROVE  RingOf(records, address[k], k, n) = Walk(n, k)
<1> DEFINE at == Chain(records, address[k])
           f == Follower(n, k)
           g == Follower(n, f)
<1>1. f \in 1 .. n /\ g \in 1 .. n  BY DEF Follower
<1>2. /\ at[1] = address[k] /\ at[2] = records[address[k]].next
      /\ at[3] = records[records[address[k]].next].next
  BY Pointers
<1> HIDE DEF f, g, at
<1>3. at[2] = address[f] /\ at[3] = address[g]  BY <1>1, <1>2 DEF f, g
<1>4. \A i \in 1 .. n : (IF i = 1 THEN k ELSE records[at[i]].id)
                      = (IF i = 1 THEN k ELSE IF i = 2 THEN f ELSE g)
  <2> SUFFICES ASSUME NEW i \in 1 .. n
               PROVE  (IF i = 1 THEN k ELSE records[at[i]].id)
                    = (IF i = 1 THEN k ELSE IF i = 2 THEN f ELSE g)
    OBVIOUS
  <2>1. i = 1 \/ i = 2 \/ i = 3  OBVIOUS
  <2> QED  BY <1>1, <1>3, <2>1
<1>5. RingOf(records, address[k], k, n) = [i \in 1 .. n |-> IF i = 1 THEN k ELSE records[at[i]].id]
  BY DEF RingOf, at
<1>6. Walk(n, k) = [i \in 1 .. n |-> IF i = 1 THEN k ELSE IF i = 2 THEN f ELSE g]
  BY DEF Walk, f, g
<1> QED  BY <1>4, <1>5, <1>6

(* All the rings there are.                                                 *)
LEMMA Rings ==
  /\ Walk(1, 1) = <<1>>
  /\ Walk(2, 1) = <<1, 2>> /\ Walk(2, 2) = <<2, 1>>
  /\ Walk(3, 1) = <<1, 3, 2>> /\ Walk(3, 2) = <<2, 1, 3>> /\ Walk(3, 3) = <<3, 2, 1>>
<1>1. 1 .. 1 = {1} /\ 1 .. 2 = {1, 2} /\ 1 .. 3 = {1, 2, 3}  OBVIOUS
<1>2. Walk(1, 1) = <<1>>  BY <1>1 DEF Walk, Follower
<1>3. Walk(2, 1) = <<1, 2>> /\ Walk(2, 2) = <<2, 1>>  BY <1>1 DEF Walk, Follower
<1>4. Walk(3, 1) = <<1, 3, 2>> /\ Walk(3, 2) = <<2, 1, 3>> /\ Walk(3, 3) = <<3, 2, 1>>
  BY <1>1 DEF Walk, Follower
<1> QED  BY <1>2, <1>3, <1>4

LEMMA RingOfLaid ==
  ASSUME NEW w \in Width, NEW r, NEW n \in 1 .. 3, NEW k \in 1 .. n, NEW records,
         NEW owned, NEW left, LaidAs(w, r, n, records, owned, left)
  PROVE  RingOf(records, PcbAt(w, k), k, n) = Walk(n, k)
<1> DEFINE address == [i \in 1 .. n |-> PcbAt(w, i)]
<1>1. \A i \in 1 .. n : /\ records[PcbAt(w, i)].id = i
                        /\ records[PcbAt(w, i)].next = PcbAt(w, Follower(n, i))
                        /\ Follower(n, i) \in 1 .. n
  BY DEF LaidAs, Follower
<1>2. address[k] = PcbAt(w, k)
      /\ \A i \in 1 .. n : /\ records[address[i]].id = i
                           /\ records[address[i]].next = address[Follower(n, i)]
  BY <1>1
<1> HIDE DEF address
<1>3. RingOf(records, address[k], k, n) = Walk(n, k)  BY <1>2, RingWalks
<1> QED  BY <1>2, <1>3

LEMMA NoRing == ASSUME IInv, phase = "boot"  PROVE Ring = <<>>
<1>1. Count = 0  BY DEF IInv, Built
<1>2. 1 .. 0 = {}  OBVIOUS
<1>3. Ring = [k \in 1 .. Count |-> RingOf(pcb, current_task, running, Count)[k]]
  <2>1. Ring = RingOf(pcb, current_task, running, Count)
    BY DEF Ring, RingOf, Chain, Count
  <2> DEFINE R == RingOf(pcb, current_task, running, Count)
             from == Chain(pcb, current_task)
             n == Count
  <2>2. R = [k \in 1 .. n |-> IF k = 1 THEN running ELSE pcb[from[k]].id]
    BY Zenon DEF RingOf
  <2> HIDE DEF R, from, n
  <2>3. R = [k \in 1 .. n |-> R[k]]  BY <2>2
  <2> QED  BY <2>1, <2>3 DEF R, n
<1> QED  BY <1>1, <1>2, <1>3

(* Steps that leave the tasks, their order and the CPU alone.               *)
LEMMA SameRing ==
  ASSUME UNCHANGED <<pcb, current_task, running>>  PROVE Ring' = Ring
  BY DEF Ring

(* The library's facts about sequences, for numbers.                        *)
LEMMA Entries == \A s \in Seq(Nat), i \in Nat : 1 <= i /\ i <= Len(s) => s[i] \in Nat
<1> TAKE s \in Seq(Nat), i \in Nat
<1> HAVE 1 <= i /\ i <= Len(s)
<1>1. i \in 1 .. Len(s)  OBVIOUS
<1> QED  BY <1>1, ElementOfSeq

LEMMA Tails ==
  \A s \in Seq(Nat) : s # <<>> =>
    /\ Tail(s) \in Seq(Nat) /\ Len(Tail(s)) = Len(s) - 1
    /\ \A i \in 1 .. Len(s) - 1 : Tail(s)[i] = s[i + 1]
<1> TAKE s \in Seq(Nat)
<1> HAVE s # <<>>
<1>1. Tail(s) \in Seq(Nat) /\ Len(Tail(s)) = Len(s) - 1
      /\ \A i \in 1 .. Len(Tail(s)) : Tail(s)[i] = s[i + 1]
  BY HeadTailProperties
<1> QED  BY <1>1

LEMMA Appends ==
  \A s \in Seq(Nat), e \in Nat :
    /\ Append(s, e) \in Seq(Nat) /\ Len(Append(s, e)) = Len(s) + 1
    /\ \A i \in 1 .. Len(s) : Append(s, e)[i] = s[i]
    /\ Append(s, e)[Len(s) + 1] = e
  BY AppendProperties

LEMMA Concats ==
  \A s, t \in Seq(Nat) :
    /\ s \o t \in Seq(Nat) /\ Len(s \o t) = Len(s) + Len(t)
    /\ \A i \in 1 .. Len(s) : (s \o t)[i] = s[i]
    /\ \A i \in 1 .. Len(t) : (s \o t)[Len(s) + i] = t[i]
<1> TAKE s, t \in Seq(Nat)
<1>1. Len(s) \in Nat /\ Len(t) \in Nat  OBVIOUS
<1>2. /\ s \o t \in Seq(Nat) /\ Len(s \o t) = Len(s) + Len(t)
      /\ \A i \in 1 .. Len(s) + Len(t) :
           (s \o t)[i] = IF i <= Len(s) THEN s[i] ELSE t[i - Len(s)]
  BY ConcatProperties
<1>3. ASSUME NEW i \in 1 .. Len(s) PROVE (s \o t)[i] = s[i]
  <2>1. i \in 1 .. Len(s) + Len(t) /\ i <= Len(s)  BY <1>1
  <2> QED  BY <1>2, <2>1
<1>4. ASSUME NEW i \in 1 .. Len(t) PROVE (s \o t)[Len(s) + i] = t[i]
  <2>1. Len(s) + i \in 1 .. Len(s) + Len(t) /\ ~(Len(s) + i <= Len(s))
        /\ (Len(s) + i) - Len(s) = i
    BY <1>1
  <2> QED  BY <1>2, <2>1
<1> QED  BY <1>2, <1>3, <1>4

(* Short sequences are their elements in order.                             *)
LEMMA Short ==
  ASSUME NEW s \in Seq(Nat)
  PROVE  /\ Len(s) = 1 => s = <<s[1]>>
         /\ Len(s) = 2 => s = <<s[1], s[2]>>
         /\ Len(s) = 3 => s = <<s[1], s[2], s[3]>>
<1>1. CASE Len(s) = 1
  <2>1. s[1] \in Nat  BY <1>1, Entries
  <2> DEFINE t == <<s[1]>>
  <2>2. t \in Seq(Nat) /\ Len(t) = 1 /\ t[1] = s[1]  BY <2>1
  <2> HIDE DEF t
  <2>3. s = t
    <3>1. \A i \in 1 .. 1 : i = 1  OBVIOUS
    <3>2. \A i \in 1 .. Len(s) : s[i] = t[i]  BY <1>1, <2>2, <3>1
    <3> QED  BY <1>1, <2>2, <3>2, SeqEqual
  <2> QED  BY <1>1, <2>3 DEF t
<1>2. CASE Len(s) = 2
  <2>1. s[1] \in Nat /\ s[2] \in Nat  BY <1>2, Entries
  <2> DEFINE t == <<s[1], s[2]>>
  <2>2. t \in Seq(Nat) /\ Len(t) = 2 /\ t[1] = s[1] /\ t[2] = s[2]  BY <2>1
  <2> HIDE DEF t
  <2>3. s = t
    <3>1. \A i \in 1 .. 2 : i = 1 \/ i = 2  OBVIOUS
    <3>2. \A i \in 1 .. Len(s) : s[i] = t[i]  BY <1>2, <2>2, <3>1
    <3> QED  BY <1>2, <2>2, <3>2, SeqEqual
  <2> QED  BY <1>2, <2>3 DEF t
<1>3. CASE Len(s) = 3
  <2>1. s[1] \in Nat /\ s[2] \in Nat /\ s[3] \in Nat  BY <1>3, Entries
  <2> DEFINE t == <<s[1], s[2], s[3]>>
  <2>2. t \in Seq(Nat) /\ Len(t) = 3 /\ t[1] = s[1] /\ t[2] = s[2] /\ t[3] = s[3]
    BY <2>1
  <2> HIDE DEF t
  <2>3. s = t
    <3>1. \A i \in 1 .. 3 : i = 1 \/ i = 2 \/ i = 3  OBVIOUS
    <3>2. \A i \in 1 .. Len(s) : s[i] = t[i]  BY <1>3, <2>2, <3>1
    <3> QED  BY <1>3, <2>2, <3>2, SeqEqual
  <2> QED  BY <1>3, <2>3 DEF t
<1> QED  BY <1>1, <1>2, <1>3

(* Taking the first number to the back, and putting one behind the first.   *)
LEMMA Turning ==
  ASSUME NEW s \in Seq(Nat), s # <<>>, Head(s) \in Nat
  PROVE  LET t == Append(Tail(s), Head(s))
         IN  /\ t \in Seq(Nat) /\ Len(t) = Len(s)
             /\ \A i \in 1 .. Len(s) - 1 : t[i] = s[i + 1]
             /\ t[Len(s)] = Head(s)
<1> DEFINE r == Tail(s)
           e == Head(s)
           t == Append(r, e)
<1>1. r \in Seq(Nat) /\ Len(r) = Len(s) - 1 /\ \A i \in 1 .. Len(s) - 1 : r[i] = s[i + 1]
  BY Tails, Zenon
<1>2. Len(s) \in Nat  OBVIOUS
<1> HIDE DEF r, e
<1>3. e \in Nat  BY DEF e
<1>4. /\ t \in Seq(Nat) /\ Len(t) = Len(r) + 1 /\ t[Len(r) + 1] = e
      /\ \A i \in 1 .. Len(r) : t[i] = r[i]
  BY <1>1, <1>3, Appends, Zenon
<1> HIDE DEF t
<1>5. Len(r) + 1 = Len(s)  BY <1>1, <1>2
<1>6. \A i \in 1 .. Len(s) - 1 : t[i] = s[i + 1]  BY <1>1, <1>4, Zenon
<1>7. t \in Seq(Nat) /\ Len(t) = Len(s) /\ t[Len(s)] = e  BY <1>4, <1>5
<1> QED  BY <1>6, <1>7, Zenon DEF t, r, e

LEMMA TurnOne ==
  ASSUME NEW a \in Nat
  PROVE  Append(Tail(<<a>>), Head(<<a>>)) = <<a>>
<1> DEFINE s == <<a>>
           t == Append(Tail(s), Head(s))
<1>1. s \in Seq(Nat) /\ s # <<>> /\ Len(s) = 1 /\ Head(s) = a  OBVIOUS
<1> HIDE DEF s
<1>2. t \in Seq(Nat) /\ Len(t) = Len(s) /\ t[Len(s)] = Head(s)
  BY <1>1, Turning, Zenon
<1> HIDE DEF t
<1>3. t = <<t[1]>>  BY <1>1, <1>2, Short
<1> QED  BY <1>1, <1>2, <1>3, Zenon DEF s, t

LEMMA TurnTwo ==
  ASSUME NEW a \in Nat, NEW b \in Nat
  PROVE  Append(Tail(<<a, b>>), Head(<<a, b>>)) = <<b, a>>
<1> DEFINE s == <<a, b>>
           t == Append(Tail(s), Head(s))
<1>1. s \in Seq(Nat) /\ s # <<>> /\ Len(s) = 2 /\ Head(s) = a /\ s[2] = b  OBVIOUS
<1> HIDE DEF s
<1>2. /\ t \in Seq(Nat) /\ Len(t) = Len(s) /\ t[Len(s)] = Head(s)
      /\ \A i \in 1 .. Len(s) - 1 : t[i] = s[i + 1]
  BY <1>1, Turning, Zenon
<1> HIDE DEF t
<1>3. t[1] = b /\ t[2] = a  BY <1>1, <1>2
<1>4. t = <<t[1], t[2]>>  BY <1>1, <1>2, Short
<1> QED  BY <1>3, <1>4, Zenon DEF s, t

LEMMA TurnThree ==
  ASSUME NEW a \in Nat, NEW b \in Nat, NEW c \in Nat
  PROVE  Append(Tail(<<a, b, c>>), Head(<<a, b, c>>)) = <<b, c, a>>
<1> DEFINE s == <<a, b, c>>
           t == Append(Tail(s), Head(s))
<1>1. /\ s \in Seq(Nat) /\ s # <<>> /\ Len(s) = 3 /\ Head(s) = a
      /\ s[2] = b /\ s[3] = c
  OBVIOUS
<1> HIDE DEF s
<1>2. /\ t \in Seq(Nat) /\ Len(t) = Len(s) /\ t[Len(s)] = Head(s)
      /\ \A i \in 1 .. Len(s) - 1 : t[i] = s[i + 1]
  BY <1>1, Turning, Zenon
<1> HIDE DEF t
<1>3. t[1] = b /\ t[2] = c /\ t[3] = a  BY <1>1, <1>2
<1>4. t = <<t[1], t[2], t[3]>>  BY <1>1, <1>2, Short
<1> QED  BY <1>3, <1>4, Zenon DEF s, t

LEMMA InsertBehindOne ==
  ASSUME NEW a \in Nat, NEW b \in Nat
  PROVE  Scheduled!InsertAt(<<a>>, 2, b) = <<a, b>>
<1> DEFINE s == <<a>>
           x == <<b>>
           t == s \o x
<1>1. s \in Seq(Nat) /\ x \in Seq(Nat) /\ Len(s) = 1 /\ Len(x) = 1 /\ s[1] = a /\ x[1] = b
  OBVIOUS
<1> HIDE DEF s, x
<1>2. SubSeq(s, 1, 1) = s  BY <1>1, SubSeqFull
<1>3. SubSeq(s, 2, 1) = <<>>
  <2>1. 2 \in Int /\ 1 \in Int /\ 1 < 2  OBVIOUS
  <2> QED  BY <2>1, SubSeqEmpty
<1>4. /\ t \in Seq(Nat) /\ Len(t) = Len(s) + Len(x)
      /\ \A i \in 1 .. Len(s) : t[i] = s[i]
      /\ \A i \in 1 .. Len(x) : t[Len(s) + i] = x[i]
  BY <1>1, Concats, Zenon
<1>5. Scheduled!InsertAt(s, 2, b) = t \o <<>>
  <2>1. 2 - 1 = 1  OBVIOUS
  <2> QED  BY <1>1, <1>2, <1>3, <2>1, Zenon DEF Scheduled!InsertAt, x
<1> HIDE DEF t
<1>6. Len(t) = 2 /\ t[1] = a /\ t[2] = b
  <2>1. 1 \in 1 .. Len(s) /\ 1 \in 1 .. Len(x) /\ Len(s) + 1 = 2  BY <1>1
  <2>2. t[1] = s[1] /\ t[Len(s) + 1] = x[1]  BY <1>4, <2>1, Zenon
  <2> QED  BY <1>1, <1>4, <2>1, <2>2
<1>7. t \o <<>> = t  BY <1>4, ConcatEmptySeq
<1>8. t = <<t[1], t[2]>>  BY <1>4, <1>6, Short
<1> QED  BY <1>5, <1>6, <1>7, <1>8, Zenon DEF s

LEMMA InsertBetween ==
  ASSUME NEW a \in Nat, NEW b \in Nat, NEW c \in Nat
  PROVE  Scheduled!InsertAt(<<a, c>>, 2, b) = <<a, b, c>>
<1> DEFINE s == <<a, c>>
           x == <<b>>
           f == SubSeq(s, 1, 1)
           l == SubSeq(s, 2, 2)
           t == f \o x
           u == t \o l
<1>1. s \in Seq(Nat) /\ x \in Seq(Nat) /\ Len(s) = 2 /\ Len(x) = 1
      /\ s[1] = a /\ s[2] = c /\ x[1] = b
  OBVIOUS
<1> HIDE DEF s, x
<1>2. f \in Seq(Nat) /\ Len(f) = 1 /\ f[1] = a
  <2>1. 1 \in Int /\ \A i \in 1 .. 1 : s[i] \in Nat  BY <1>1
  <2> QED  BY <1>1, <2>1, SubSeqProperties
<1>3. l \in Seq(Nat) /\ Len(l) = 1 /\ l[1] = c
  <2>1. 2 \in Int /\ \A i \in 2 .. 2 : s[i] \in Nat  BY <1>1
  <2> QED  BY <1>1, <2>1, SubSeqProperties
<1> HIDE DEF f, l
<1>4. t \in Seq(Nat) /\ Len(t) = 2 /\ t[1] = a /\ t[2] = b
  <2>1. /\ t \in Seq(Nat) /\ Len(t) = Len(f) + Len(x)
        /\ \A i \in 1 .. Len(f) : t[i] = f[i]
        /\ \A i \in 1 .. Len(x) : t[Len(f) + i] = x[i]
    BY <1>1, <1>2, Concats, Zenon
  <2> HIDE DEF t
  <2>2. 1 \in 1 .. Len(f) /\ 1 \in 1 .. Len(x) /\ Len(f) + 1 = 2  BY <1>1, <1>2
  <2>3. t[1] = f[1] /\ t[Len(f) + 1] = x[1]  BY <2>1, <2>2, Zenon
  <2> QED  BY <1>1, <1>2, <2>1, <2>2, <2>3
<1> HIDE DEF t
<1>5. u \in Seq(Nat) /\ Len(u) = 3 /\ u[1] = a /\ u[2] = b /\ u[3] = c
  <2>1. /\ u \in Seq(Nat) /\ Len(u) = Len(t) + Len(l)
        /\ \A i \in 1 .. Len(t) : u[i] = t[i]
        /\ \A i \in 1 .. Len(l) : u[Len(t) + i] = l[i]
    BY <1>3, <1>4, Concats, Zenon
  <2> HIDE DEF u
  <2>2. 1 \in 1 .. Len(t) /\ 2 \in 1 .. Len(t) /\ 1 \in 1 .. Len(l) /\ Len(t) + 1 = 3
    BY <1>3, <1>4
  <2>3. u[1] = t[1] /\ u[2] = t[2] /\ u[Len(t) + 1] = l[1]  BY <2>1, <2>2, Zenon
  <2> QED  BY <1>3, <1>4, <2>1, <2>2, <2>3
<1>6. Scheduled!InsertAt(s, 2, b) = u
  <2>1. 2 - 1 = 1  OBVIOUS
  <2> QED  BY <1>1, <2>1, Zenon DEF Scheduled!InsertAt, x, f, l, t
<1> HIDE DEF u
<1>7. u = <<u[1], u[2], u[3]>>  BY <1>5, Short
<1> QED  BY <1>5, <1>6, <1>7, Zenon DEF s

(* A new task is put behind task 1, and a tick takes the first task to the   *)
(* back.                                                                    *)
LEMMA Grown ==
  ASSUME NEW n \in 1 .. 2
  PROVE  /\ Walk(n, 1) # <<>>
         /\ n + 1 \notin Scheduled!ToSet(Walk(n, 1))
         /\ Walk(n + 1, 1) = Scheduled!InsertAt(Walk(n, 1), 2, n + 1)
<1>1. CASE n = 1
  <2>1. Walk(n, 1) = <<1>> /\ Walk(n + 1, 1) = <<1, 2>> /\ n + 1 = 2  BY <1>1, Rings
  <2>2. 2 \notin Scheduled!ToSet(<<1>>)  BY DEF Scheduled!ToSet
  <2>3. Scheduled!InsertAt(<<1>>, 2, 2) = <<1, 2>>  BY InsertBehindOne
  <2> QED  BY <2>1, <2>2, <2>3
<1>2. CASE n = 2
  <2>1. Walk(n, 1) = <<1, 2>> /\ Walk(n + 1, 1) = <<1, 3, 2>> /\ n + 1 = 3  BY <1>2, Rings
  <2>2. 3 \notin Scheduled!ToSet(<<1, 2>>)  BY DEF Scheduled!ToSet
  <2>3. Scheduled!InsertAt(<<1, 2>>, 2, 3) = <<1, 3, 2>>  BY InsertBetween
  <2> QED  BY <2>1, <2>2, <2>3
<1> QED  BY <1>1, <1>2

LEMMA Turned ==
  ASSUME NEW n \in 1 .. 3, NEW k \in 1 .. n
  PROVE  /\ Walk(n, k) # <<>>
         /\ Walk(n, Follower(n, k)) = Append(Tail(Walk(n, k)), Head(Walk(n, k)))
<1>1. \/ n = 1 /\ k = 1
      \/ n = 2 /\ (k = 1 \/ k = 2)
      \/ n = 3 /\ (k = 1 \/ k = 2 \/ k = 3)
  OBVIOUS
<1>0. 1 \in Nat /\ 2 \in Nat /\ 3 \in Nat  OBVIOUS
<1>2. CASE n = 1 /\ k = 1
  <2>1. Follower(n, k) = 1 /\ <<1>> # <<>>  BY <1>2 DEF Follower
  <2>2. Append(Tail(<<1>>), Head(<<1>>)) = <<1>>  BY <1>0, TurnOne, Zenon
  <2> QED  BY <1>2, <2>1, <2>2, Rings, Zenon
<1>3. CASE n = 2 /\ k = 1
  <2>1. Follower(n, k) = 2 /\ <<1, 2>> # <<>>  BY <1>3 DEF Follower
  <2>2. Append(Tail(<<1, 2>>), Head(<<1, 2>>)) = <<2, 1>>  BY <1>0, TurnTwo, Zenon
  <2> QED  BY <1>3, <2>1, <2>2, Rings, Zenon
<1>4. CASE n = 2 /\ k = 2
  <2>1. Follower(n, k) = 1 /\ <<2, 1>> # <<>>  BY <1>4 DEF Follower
  <2>2. Append(Tail(<<2, 1>>), Head(<<2, 1>>)) = <<1, 2>>  BY <1>0, TurnTwo, Zenon
  <2> QED  BY <1>4, <2>1, <2>2, Rings, Zenon
<1>5. CASE n = 3 /\ k = 1
  <2>1. Follower(n, k) = 3 /\ <<1, 3, 2>> # <<>>  BY <1>5 DEF Follower
  <2>2. Append(Tail(<<1, 3, 2>>), Head(<<1, 3, 2>>)) = <<3, 2, 1>>  BY <1>0, TurnThree, Zenon
  <2> QED  BY <1>5, <2>1, <2>2, Rings, Zenon
<1>6. CASE n = 3 /\ k = 2
  <2>1. Follower(n, k) = 1 /\ <<2, 1, 3>> # <<>>  BY <1>6 DEF Follower
  <2>2. Append(Tail(<<2, 1, 3>>), Head(<<2, 1, 3>>)) = <<1, 3, 2>>  BY <1>0, TurnThree, Zenon
  <2> QED  BY <1>6, <2>1, <2>2, Rings, Zenon
<1>7. CASE n = 3 /\ k = 3
  <2>1. Follower(n, k) = 2 /\ <<3, 2, 1>> # <<>>  BY <1>7 DEF Follower
  <2>2. Append(Tail(<<3, 2, 1>>), Head(<<3, 2, 1>>)) = <<2, 1, 3>>  BY <1>0, TurnThree, Zenon
  <2> QED  BY <1>7, <2>1, <2>2, Rings, Zenon
<1> QED  BY <1>1, <1>2, <1>3, <1>4, <1>5, <1>6, <1>7

(* The ring before and after a step.                                        *)
LEMMA RingNow ==
  ASSUME IInv, phase # "boot"
  PROVE  Count \in 1 .. 3 /\ running \in 1 .. Count /\ Ring = Walk(Count, running)
<1>1. /\ Count \in 1 .. 3 /\ running \in 1 .. Count
      /\ current_task = PcbAt(PcbBytes, running)
  <2>1. Count \in 0 .. 3 /\ Count # 0 /\ running \in 1 .. 3 /\ running <= Count
        /\ current_task = PcbAt(PcbBytes, running)
    BY Basics DEF IInv, Built, Runs, At
  <2> QED  BY <2>1
<1>2. LaidAs(PcbBytes, Records, Count, pcb, stacks, heap)  BY DEF IInv, Laid
<1>3. RingOf(pcb, current_task, running, Count) = Walk(Count, running)
  BY <1>1, <1>2, RingOfLaid, PcbWidth
<1>4. Ring = RingOf(pcb, current_task, running, Count)
  BY DEF Ring, RingOf, Chain, Count
<1> QED  BY <1>1, <1>3, <1>4

LEMMA RingNext ==
  ASSUME IInv', UNCHANGED build, phase' # "boot", Count' \in 1 .. 3
  PROVE  running' \in 1 .. Count' /\ Ring' = Walk(Count', running')
<1>1. running' \in 1 .. Count' /\ current_task' = PcbAt(PcbBytes, running')
  <2>1. PcbBytes' = PcbBytes  BY Unmoved
  <2>2. running' \in 1 .. 3 /\ running' <= Count' /\ current_task' = PcbAt(PcbBytes', running')
    BY DEF IInv, Runs, At
  <2> QED  BY <2>1, <2>2
<1>2. LaidAs(PcbBytes, Records', Count', pcb', stacks', heap')
  <2>1. PcbBytes' = PcbBytes  BY Unmoved
  <2>2. LaidAs(PcbBytes', Records', Count', pcb', stacks', heap')  BY DEF IInv, Laid
  <2> QED  BY <2>1, <2>2
<1>3. RingOf(pcb', current_task', running', Count') = Walk(Count', running')
  BY <1>1, <1>2, RingOfLaid, PcbWidth
<1>4. Ring' = RingOf(pcb', current_task', running', Count')
  BY DEF Ring, RingOf, Chain, Count
<1> QED  BY <1>1, <1>3, <1>4

(* Every step of the scheduler is a step of round robin or leaves the ring.  *)
LEMMA RoundRobinStep ==
  IInv /\ [Next]_vars => [Scheduled!Next]_Ring
<1> SUFFICES ASSUME IInv, [Next]_vars PROVE [Scheduled!Next]_Ring
  OBVIOUS
<1>1. CASE task_init
  <2>1. /\ phase = "boot" /\ phase' # "boot" /\ running' = running /\ UNCHANGED build
    BY <1>1 DEF task_init
  <2>2. Ring = <<>> /\ running = 1  BY <2>1, NoRing DEF IInv, Runs
  <2>3. IInv' /\ Count' = 1  BY <1>1, Started
  <2>4. Ring' = Walk(1, 1)  BY <2>1, <2>2, <2>3, RingNext
  <2>5. Scheduled!First(1)  BY <2>2, <2>4, Rings DEF Scheduled!First
  <2> QED  BY <2>5 DEF Scheduled!Next
<1>2. CASE create_task
  <2>1. /\ phase # "boot" /\ UNCHANGED <<phase, running, build>>
    BY <1>2 DEF create_task
  <2>2. running = 1 /\ Ring = Walk(Count, 1)
    <3>1. phase = "tasks"  BY <1>2 DEF create_task
    <3>2. running = 1  BY <3>1 DEF IInv, Runs
    <3> QED  BY <2>1, <3>2, RingNow
  <2>3. IInv' /\ Count \in 1 .. 2 /\ Count' = Count + 1  BY <1>2, Created
  <2>4. Ring' = Walk(Count + 1, 1)
    <3>1. Count' \in 1 .. 3  BY <2>3
    <3> QED  BY <2>1, <2>2, <2>3, <3>1, RingNext
  <2>5. Scheduled!Create(Count + 1)
    <3> DEFINE n == Count
    <3>1. n \in 1 .. 2 /\ Ring = Walk(n, 1) /\ Ring' = Walk(n + 1, 1)  BY <2>2, <2>3, <2>4
    <3> HIDE DEF n
    <3> QED  BY <3>1, Grown, Zenon DEF Scheduled!Create, n
  <2>6. Count + 1 \in 1 .. 4  BY <2>3
  <2> QED  BY <2>5, <2>6 DEF Scheduled!Next
<1>3. CASE timer_interrupt
  <2>1. /\ phase = "on" /\ Count \in 1 .. 3 /\ running \in 1 .. Count
        /\ running' = Follower(Count, running) /\ UNCHANGED <<phase, build>>
        /\ pcb' = [pcb EXCEPT ![At(running)].esp = SavedAt]
    BY <1>3, Ticked
  <2>2. Count' = Count
    <3>1. DOMAIN pcb' = DOMAIN pcb  BY <2>1
    <3> QED  BY <3>1 DEF Count
  <2>3. IInv'  BY <1>3, TimerHandled
  <2>4. Ring = Walk(Count, running)  BY <2>1, RingNow
  <2>5. Ring' = Walk(Count, Follower(Count, running))
    <3>1. phase' # "boot" /\ Count' \in 1 .. 3  BY <2>1, <2>2
    <3> QED  BY <2>1, <2>2, <2>3, <3>1, RingNext
  <2>6. Scheduled!Tick
    <3> DEFINE n == Count
    <3>1. n \in 1 .. 3 /\ running \in 1 .. n /\ Ring = Walk(n, running)
          /\ Ring' = Walk(n, Follower(n, running))
      BY <2>1, <2>4, <2>5
    <3> HIDE DEF n
    <3> QED  BY <3>1, Turned, Zenon DEF Scheduled!Tick
  <2> QED  BY <2>6 DEF Scheduled!Next
<1>4. CASE sti  BY <1>4, SameRing DEF sti
<1>5. CASE keyboard_interrupt
  <2>1. running' = running
    <3>1. phase = "on"  BY <1>5 DEF keyboard_interrupt
    <3>2. /\ ~NoDataSegment /\ \A f, g \in AfterInterrupt : f.at = g.at => f = g
          /\ [at |-> SavedAt, task |-> running] \in AfterInterrupt
      BY <3>1, Interrupted
    <3>3. ContextAt(AfterInterrupt, SavedAt) = running  BY <3>2, Resuming
    <3> QED  BY <1>5, <3>2, <3>3 DEF keyboard_interrupt, Resume
  <2>2. UNCHANGED <<pcb, current_task>>
    <3>1. ~NoDataSegment
      <4>1. phase = "on"  BY <1>5 DEF keyboard_interrupt
      <4> QED  BY <4>1, Interrupted
    <3> QED  BY <1>5, <3>1 DEF keyboard_interrupt
  <2> QED  BY <2>1, <2>2, SameRing
<1>6. CASE use_stack  BY <1>6, SameRing DEF use_stack
<1>7. CASE UNCHANGED vars  BY <1>7, SameRing DEF vars
<1> QED  BY <1>1, <1>2, <1>3, <1>4, <1>5, <1>6, <1>7 DEF Next

(* The scheduler implements round robin: from the running task, the next     *)
(* pointers lead once through all tasks in the order in which they run, and  *)
(* nothing else ever runs (timer.c:24-47, task.c:42-50, 143-153).           *)
THEOREM ImplementsRoundRobin == Completed => (Spec => RoundRobinSpec)
<1> SUFFICES ASSUME Completed PROVE Spec => RoundRobinSpec
  OBVIOUS
<1>1. Spec => []IInv  BY Invariance
<1>2. Init => Scheduled!Init
  <2> SUFFICES ASSUME Init PROVE Ring = <<>>
    BY DEF Scheduled!Init
  <2>1. IInv  BY InitInv
  <2>2. phase = "boot"  BY DEF Init
  <2> QED  BY <2>1, <2>2, NoRing
<1>3. IInv /\ [Next]_vars => [Scheduled!Next]_Ring  BY RoundRobinStep
<1> QED  BY <1>1, <1>2, <1>3, PTL DEF Spec, RoundRobinSpec, Scheduled!Spec
================================================================================
