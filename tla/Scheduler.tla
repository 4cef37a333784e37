------------------------------- MODULE Scheduler -------------------------------
(***************************************************************************)
(* Preemptive round robin: task_init and create_task (src/task.c), the timer *)
(* interrupt (timer_stub in src/interrupt.asm, timer_handler_main in         *)
(* src/timer.c), the stack the TSS names (src/gdt.c) and the keyboard        *)
(* interrupt as far as it uses that stack.  Tasks are made before sti, as in *)
(* kernel_main.  A saved context is a frame at an address; the model keeps   *)
(* which task's context each intact frame holds.                             *)
(* Heap memory is assumed to stay where heap_init put it: the map_page call  *)
(* of create_task is in Paging.                                              *)
(***************************************************************************)
EXTENDS Integers, FiniteSets, Sequences

CONSTANTS
  Builds,      \* completions of the source, see Build
  TickModulus  \* width of the uptime counter: 2^32

(***************************************************************************)
(* This part of the source does not build as it is (README, section 1); a   *)
(* Build says how it is completed.                                          *)
(*   tasks     how many programs kernel_main gives to create_task before    *)
(*             sti (kernel.c:134-135 has the calls in a comment)            *)
(*   returns   timer_handler_main hands timer_stub the pointer it returns;  *)
(*             it is declared void (timer.c:11), so compilers drop it       *)
(*   records   PCBs carry the kernel_stack_top that timer.c:43 reads and    *)
(*             task.h and create_task do not have                           *)
(*   segments  the stubs load the kernel's data segment and give programs   *)
(*             theirs back, as isr_common_stub does and they do not         *)
(***************************************************************************)
Build == [tasks : 0 .. 3, returns : BOOLEAN, records : BOOLEAN, segments : BOOLEAN]

ASSUME SchedulerAssumption ==
  /\ Builds \subseteq Build
  /\ TickModulus \in Nat \ {0}

NULL == 0
HEAP == 16777216                  \* 0x1000000
PageBytes == 4096
HeaderBytes == 12
StackBytes == 1024
PcbWords == 4                     \* of task.h: id, esp, page_dire, next
FrameBytes == 52                  \* 5 words of iret and 8 of popa
BootStack == 1048576              \* where the interrupted kernel is saved
TssStack == 1114112               \* &tss_kernel_stack[4096]
KERNEL == 1                       \* the task id of kernel_main
WILD == 0                         \* the CPU runs something no task saved

VARIABLES
  build,          \* never changes
  phase,          \* "boot", "tasks" (after task_init), "on" (after sti)
  heap,           \* the free header at the end of the heap: at, size
  pcb,            \* the task_t records: address -> [id, esp, next, top]
  stacks,         \* task id -> [kernel, user], base addresses of its stacks
  current_task,
  frames,         \* intact saved contexts: [at, task]
  esp0,           \* stack the TSS gives to interrupts from ring 3
  running,        \* task whose registers the CPU holds
  tick

vars == <<build, phase, heap, pcb, stacks, current_task, frames, esp0, running, tick>>

PcbBytes == 4 * (IF build.records THEN PcbWords + 1 ELSE PcbWords)

(***************************************************************************)
(* kmalloc as Heap does it while nobody frees: the request is cut from the  *)
(* free header at the end, or refused.                                      *)
(***************************************************************************)
FitsAlways(h, n) == TRUE
Fits(h, n) == h.size >= n
kmalloc(h, n) == IF Fits(h, n) THEN h.at + HeaderBytes ELSE NULL
(* The header that kmalloc leaves behind, and one laid over the request.    *)
AfterKmallocOver(h, n) ==
  IF Fits(h, n) THEN [at |-> h.at + HeaderBytes, size |-> h.size - n] ELSE h
AfterKmalloc(h, n) ==
  IF Fits(h, n) THEN [at |-> h.at + HeaderBytes + n, size |-> h.size - n] ELSE h

Init == /\ build \in Builds
        /\ phase = "boot"
        /\ heap = [at |-> HEAP, size |-> PageBytes - HeaderBytes]
        /\ pcb = <<>> /\ stacks = <<>> /\ frames = {}
        /\ current_task = NULL
        /\ esp0 = TssStack
        /\ running = KERNEL
        /\ tick = 0

With(f, x, v) == [y \in DOMAIN f \cup {x} |-> IF y = x THEN v ELSE f[y]]

task_init ==
  LET p == kmalloc(heap, PcbBytes)
  IN  /\ phase = "boot"
      /\ heap' = AfterKmalloc(heap, PcbBytes)
      /\ pcb' = With(pcb, p, [id |-> KERNEL, esp |-> NULL, next |-> p, top |-> NULL])
      /\ current_task' = p
      /\ phase' = "tasks"
      /\ UNCHANGED <<build, stacks, frames, esp0, running, tick>>

(* Bytes low .. high - 1 are written: frames that overlap them are gone.    *)
Surviving(fs, low, high) == {f \in fs : f.at + FrameBytes <= low \/ high <= f.at}
Save(fs, at, t) == Surviving(fs, at, at + FrameBytes) \cup {[at |-> at, task |-> t]}

(* The task after the new one: read before the new one is linked, or after. *)
NextReadLate(p) == p
NextOfNew(p) == pcb[current_task].next

(***************************************************************************)
(* create_task: two stacks, a forged frame at the top of the kernel stack,  *)
(* a PCB, linked in after the current task.  No result of kmalloc is        *)
(* checked.                                                                 *)
(***************************************************************************)
create_task ==
  LET kbase == kmalloc(heap, StackBytes)
      heap1 == AfterKmalloc(heap, StackBytes)
      ubase == kmalloc(heap1, StackBytes)
      heap2 == AfterKmalloc(heap1, StackBytes)
      p == kmalloc(heap2, PcbBytes)
      id == Cardinality(DOMAIN pcb) + 1
      top == kbase + StackBytes
      new == [id |-> id, esp |-> top - FrameBytes, next |-> NextOfNew(p),
              top |-> IF build.records THEN top ELSE NULL]
  IN  /\ phase = "tasks" /\ Cardinality(DOMAIN pcb) <= build.tasks
      /\ heap' = AfterKmalloc(heap2, PcbBytes)
      /\ stacks' = With(stacks, id, [kernel |-> kbase, user |-> ubase])
      /\ frames' = Save(frames, top - FrameBytes, id)
      /\ pcb' = With([pcb EXCEPT ![current_task].next = p], p, new)
      /\ UNCHANGED <<build, phase, current_task, esp0, running, tick>>

sti == /\ phase = "tasks"
       /\ phase' = "on"
       /\ UNCHANGED <<build, heap, pcb, stacks, current_task, frames, esp0, running, tick>>

(* Where the CPU saves the interrupted context.  From ring 3 it uses the    *)
(* stack of the TSS, and the handlers' own calls use that stack below it.   *)
Ring0 == running = KERNEL
SavedAt == IF Ring0 THEN BootStack ELSE esp0 - FrameBytes
AfterInterrupt ==
  LET untouched == IF Ring0 THEN frames ELSE Surviving(frames, esp0 - StackBytes, esp0)
  IN  Save(untouched, SavedAt, running)

(* An iret to ring 3 clears DS, which held the kernel's segment.  A handler *)
(* entered from there faults at its first access to memory, no gate is set  *)
(* for that fault, and the machine resets.                                  *)
NoDataSegment == ~Ring0 /\ ~build.segments
Reset == /\ running' = WILD
         /\ UNCHANGED <<pcb, current_task, frames, esp0, tick>>

(* popa and iret take whatever lies at esp.                                 *)
ContextAt(fs, esp) ==
  IF \E f \in fs : f.at = esp THEN (CHOOSE f \in fs : f.at = esp).task ELSE WILD
Popped(fs, esp) == {f \in fs : f.at # esp}

Resume(fs, esp) == /\ running' = ContextAt(fs, esp)
                   /\ frames' = Popped(fs, esp)

(* The PCBs with the interrupted esp saved, after the rotation or before it;*)
(* and the task to run next, the same again or the one behind it.           *)
SavedLate == [pcb EXCEPT ![pcb[current_task].next].esp = SavedAt]
Saved == [pcb EXCEPT ![current_task].esp = SavedAt]
Unrotated == current_task
Rotated == pcb[current_task].next

(* The uptime counter, with its width.                                      *)
TickNext == (tick + 1) % TickModulus

(* What timer_stub takes for the new esp: the value returned, or what the   *)
(* function left in EAX, the kernel_stack_top it looked at last.            *)
InEax(task) == IF build.returns THEN task.esp ELSE task.top

(***************************************************************************)
(* The timer interrupt.  Gates are interrupt gates, so nothing interleaves. *)
(* timer.c:24-47 in order: no task yet, save esp, rotate, a task that never *)
(* ran has esp 0, hand its kernel stack to the TSS, return its esp.         *)
(***************************************************************************)
timer_interrupt ==
  LET saved == Saved
      nxt == Rotated
      Switch ==
        /\ tick' = TickNext
        /\ IF current_task = NULL
           THEN /\ running' = WILD
                /\ frames' = AfterInterrupt
                /\ UNCHANGED <<pcb, current_task, esp0>>
           ELSE /\ pcb' = saved
                /\ current_task' = nxt
                /\ IF saved[nxt].esp = NULL
                   THEN /\ UNCHANGED esp0
                        /\ Resume(AfterInterrupt, IF build.returns THEN SavedAt ELSE NULL)
                   ELSE /\ esp0' = IF saved[nxt].top # NULL THEN saved[nxt].top ELSE esp0
                        /\ Resume(AfterInterrupt, InEax(saved[nxt]))
  IN  /\ phase = "on" /\ running # WILD
      /\ IF NoDataSegment THEN Reset ELSE Switch
      /\ UNCHANGED <<build, phase, heap, stacks>>

(* The keyboard interrupt saves and restores the running task in one step.  *)
keyboard_interrupt ==
  /\ phase = "on" /\ running # WILD
  /\ IF NoDataSegment THEN Reset
     ELSE /\ Resume(AfterInterrupt, SavedAt)
          /\ UNCHANGED <<pcb, current_task, esp0, tick>>
  /\ UNCHANGED <<build, phase, heap, stacks>>

(* A ring 3 program uses its own user stack.                                *)
use_stack ==
  /\ phase = "on" /\ running \in DOMAIN stacks
  /\ LET base == stacks[running].user
     IN  frames' = Surviving(frames, base, base + StackBytes)
  /\ UNCHANGED <<build, phase, heap, pcb, stacks, current_task, esp0, running, tick>>

Next == task_init \/ create_task \/ sti
        \/ timer_interrupt \/ keyboard_interrupt \/ use_stack

(* The PIT keeps firing and every context runs with IF = 1 (hlt after sti   *)
(* in the kernel, EFLAGS 0x202 in forged frames), so ticks keep coming.     *)
Spec == Init /\ [][Next]_vars /\ WF_vars(task_init) /\ WF_vars(sti)
             /\ WF_vars(timer_interrupt)
--------------------------------------------------------------------------------
Tasks == {pcb[p].id : p \in DOMAIN pcb}
PcbOf(t) == pcb[CHOOSE p \in DOMAIN pcb : pcb[p].id = t]

(* Type invariant.                                                          *)
TypeOK ==
  /\ build \in Build
  /\ phase \in {"boot", "tasks", "on"}
  /\ heap \in [at : Nat, size : Nat]
  /\ \A p \in DOMAIN pcb : pcb[p] \in [id : 1 .. build.tasks + 1, esp : Nat,
                                       next : DOMAIN pcb, top : Nat]
  /\ \A t \in DOMAIN stacks : stacks[t] \in [kernel : Nat, user : Nat]
  /\ current_task \in DOMAIN pcb \cup {NULL}
  /\ frames \subseteq [at : Nat, task : 0 .. build.tasks + 1]
  /\ esp0 \in Nat /\ running \in 0 .. build.tasks + 1
  /\ tick \in 0 .. TickModulus - 1

(* timer.c:31-32, task.c:47, 149-150 as a promise: from the task that runs, *)
(* the next pointers lead once through all tasks and back, in the order in  *)
(* which they will run; every tick moves on by one, every create_task adds  *)
(* one, and nothing runs that is not the current task.                      *)
Ring == LET at[n \in 1 .. 4] == IF n = 1 THEN current_task ELSE pcb[at[n - 1]].next
        IN  [n \in 1 .. Cardinality(DOMAIN pcb) |->
               IF n = 1 THEN running ELSE pcb[at[n]].id]
Scheduled == INSTANCE RoundRobin WITH Task <- 1 .. 4, queue <- Ring
RoundRobinSpec == Scheduled!Spec

(* Every task that is not running has its context, whole, at the esp its    *)
(* PCB holds; so no switch ever resumes anything else.                      *)
ContextsIntact ==
  phase = "on" => \A t \in Tasks \ {running} :
                     [at |-> PcbOf(t).esp, task |-> t] \in frames

(* Tasks have distinct ids, stacks and PCBs that share no byte, also when   *)
(* kmalloc refuses some of them; and no call of task_init and create_task   *)
(* makes kmalloc write a header past the page (heap.c:38).                  *)
Regions == {[low |-> p, high |-> p + PcbBytes] : p \in DOMAIN pcb}
           \cup {[low |-> stacks[t].kernel, high |-> stacks[t].kernel + StackBytes]
                   : t \in DOMAIN stacks}
           \cup {[low |-> stacks[t].user, high |-> stacks[t].user + StackBytes]
                   : t \in DOMAIN stacks}
MemoryApart ==
  /\ Cardinality(Tasks) = Cardinality(DOMAIN pcb)
  /\ Cardinality(Regions) = Cardinality(DOMAIN pcb) + 2 * Cardinality(DOMAIN stacks)
  /\ \A r, s \in Regions : r # s => r.high <= s.low \/ s.high <= r.low
  /\ heap.at + HeaderBytes <= HEAP + PageBytes

(* Round robin is fair: every task that exists runs again and again.        *)
EveryTaskRuns == \A t \in 1 .. 4 :
                   [](phase = "on" /\ t \in Tasks => <>(running = t))
--------------------------------------------------------------------------------
(* Statements of the sources that the code does not keep (see the README).  *)

(* task.c:76, the heap "is more than enough to run these two little test    *)
(* programs": every task has stacks from the heap.                          *)
StacksFromHeap == \A t \in DOMAIN stacks : stacks[t].kernel >= HEAP /\ stacks[t].user >= HEAP

(* timer.c:30 and task.c:83-87: the snapshot of an interrupted task lies on *)
(* its own kernel stack and is there when the scheduler comes back.         *)
SnapshotsKept == ContextsIntact

(* timer.c:46 and interrupt.asm:84, "when C finishes, the new task's ESP is *)
(* waiting perfectly inside EAX": a tick always ends in a task.             *)
AlwaysATask == running # WILD
================================================================================
