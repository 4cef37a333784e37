# NG-OS in TLA+

NG-OS is a 32-bit x86 kernel booted by GRUB: a bitmap allocator of physical
memory, paging, a one-page kernel heap, a preemptive round-robin scheduler, a
keyboard-driven shell on the VGA text screen. This directory models it, checks
the models with TLC and proves theorems about them with TLAPS. Paths below are
relative to `src/src/` unless they say otherwise.

## 1. Inventory

| Component | State | Operations | Correct when | Module |
|---|---|---|---|---|
| Physical memory manager `pmm.c` | `total_blocks`, `used_blocks`, bitmap | `pmm_init`, `pmm_free_memory`, `pmm_lock_memory`, `pmm_first_free`, `pmm_alloc_block` | no block has two owners; only real, available memory is handed out, never address 0, never the kernel; the counter is right and never wraps | `PMM`, abstractly `BlockPool` |
| Memory map reader `memory.c` | none (drives the PMM) | `parse_memory_map` | frees the AVAILABLE entries and nothing else | `PMM` |
| Paging `paging.c` | directory, tables, CR3, TLB | `paging_init`, `map_page`, `switch_page_directory`, page faults | the first 4 MB stay identity-mapped; the heap page stays where it is; each mapping changes one page and nothing unmapped translates; tables, directory and heap are distinct frames | `Paging`, abstractly `AddressSpace` |
| Heap `heap.c` | chain of headers in one page | `heap_init`, `kmalloc`, `kfree` | live blocks and headers share no byte and lie in the page; headers tell the truth; free neighbours merge; refusals are honest | `Heap` |
| Tasks `task.c` | PCBs in a ring, two stacks each | `task_init`, `create_task` | one ring of all tasks; stacks and PCBs apart | `Scheduler` |
| Timer and context switch `timer.c`, `interrupt.asm` | `current_task`, saved frames, TSS `esp0`, `tick` | `timer_stub`, `timer_handler_main` | a switch resumes exactly the context its task was interrupted with; every task runs for ever, in the order of the queue | `Scheduler`, abstractly `RoundRobin` |
| Interrupt set-up `gdt.c`, `idt.c`, `pit.c` | GDT, TSS, IDT, PIC, PIT, IF | `gdt_init`, `tss_flush`, `idt_init`, `pic_remap`, `pit_init`, `sti`, delivery, EOI, `iret` | nothing is delivered without a gate or before it can be handled; every tick and key is served | `Interrupts` |
| Text screen `vga.c` | cells, `vga_index`, `vga_limit` | print, scroll, clear, lock, numbers | the cursor stays on the screen; Backspace never eats the prompt | `Console`, `Shell` |
| Keyboard `keyboard.c` | `shell_buffer`, `buffer_idx` | `keyboard_handler_main` | what is shown is what Enter executes; the buffer never overflows | `Console`, `Interrupts` |
| Shell `shell.c` | `current_args` | `parse_args`, `strcmp`, `textohex`, `execute_command` | the functions compute what they are named for | `Shell` |
| Boot `kernel.c`, `boot/boot.asm` | order of the calls above | `kernel_main`, `kernel_shell` | each part is ready before it is used; the kernel comes up if there is memory for it and stops cleanly if not | `Boot`, `Interrupts`, `Console` |

Not modelled: `serial.c` (stateless port output, not linked), `include/fs.h`
(declarations only), `include/io.h` (two instructions), `boot/boot_sect.asm`
and `boot/stage2.asm` (an earlier boot loader, not built), `memcpy`,
`jump_to_usermode` and `timer_handler` (no caller), `isr128` and
`isr_common_stub` beyond their gate (they call `isr_handler`, which does not
exist; section 4), colours, and the write and user bits of page table entries
(every entry the code makes present is given both, so they tell nothing apart).

**How they interact.** `kernel_main` calls everything in one fixed order with
interrupts off: GDT, TSS, IDT and PIC, PIT, PMM, memory map, lock of block 0,
paging, heap, tasks, the loop that ORs 7 into the directory, `sti`, then it
clears the screen, prints the prompt and halts in a loop. Paging and heap take
blocks from the PMM; tasks take stacks and PCBs from the heap and map a page;
the timer interrupt rotates the ring of PCBs, writes the TSS and CR3. The
keyboard interrupt edits the line, prints, and runs shell commands inside the
handler. Main thread and handlers share `vga_index`, `vga_limit` and the screen
without any lock; handlers exclude each other because all gates in use are
interrupt gates.

**What is hard.** Keys and ticks at any moment, before the PIC is remapped and inside
`vga_index++`; contexts that live at addresses and survive only if nobody
else's stack runs over them; results of `pmm_alloc_block` and `kmalloc` that
nobody checks; `map_page` without a TLB flush; splits and merges of the heap
over long sequences of calls; widths (16-bit divisor, 32-bit cast of 64-bit
addresses, unsigned counters); bitmap words that are never initialised.
`PROJECT.json` lists the hazards line by line.

**The commit as it stands.** It does not build as it is, and the part that
switches tasks would not work if it did:

* `timer.c:43` reads `kernel_stack_top`, which `task_t` lacks, and `timer.c:44`
  uses `tss_entry` without a declaration; `shell.c:96` conflicts with the
  implicit declaration of `textohex` at `shell.c:78`; `isr_handler`, called by
  `interrupt.asm:157`, is nowhere (`isr.c` is empty).
* `timer_handler_main` is declared `void` (`timer.c:11`), but returns the next
  task's `esp` and `interrupt.asm:85` takes it from EAX. GCC warns, drops the
  values and, with the flags of the `Makefile`, leaves in EAX what the function
  looked at last, `kernel_stack_top`.
* `timer_stub` and `keyboard_handler` do not load the kernel's data segment.
  The `iret` to ring 3 clears DS, because it holds a ring 0 segment; the next
  interrupt from there faults at its first access to memory, and no gate but
  that of the page fault is set. `isr_common_stub` shows what is missing.
* The calls of `create_task` in `kernel.c:105-137` are commented out.

The models follow the code that is there. Where it has to be completed to mean
anything, a record of the constant `Builds` of `Scheduler` says how: the number
of calls of `create_task`, whether the returned `esp` arrives (`returns`),
whether PCBs record `kernel_stack_top` (`records`) and whether the stubs handle
data segments (`segments`). The passing run takes completed builds; what the
source as it stands does is in section 3.

## 2. Modules

* `PMM` — the allocator with `parse_memory_map` and the boot steps that drive
  it. State: the three variables of `pmm.c`, the boot information, how far boot
  is (`pc`), the last answer (`ret`) and `held`, a history of which block is in
  how many hands. Bits behind the last whole 32-bit word hold arbitrary values,
  because `pmm_init` never writes them. The memory map is a sequence of entries
  of different sizes, over which the parser moves its finger. Callers free blocks they hold, free
  twice, and free addresses that do not exist.
* `BlockPool` — what the PMM promises: a pool opened once, from which every
  block goes to one caller at a time; a refusal only when it is empty. `PMM`
  implements it (`PoolSpec`), checked and proved.
* `Heap` — the chain of headers as a sequence in link order, each with the
  address where it lies and the size it claims, so that blocks can overlap the
  way bytes do. Words instead of bytes; a header is three words. Once two
  owners share a word the headers hold garbage and the model stops (`Apart`).
* `Paging` — directory, tables (every frame can be read as a table), the
  identity window, the PMM's free frames, and the TLB: a cached translation
  wins over the walk, may vanish at any moment, and goes with a CR3 load.
  `map_page` faults if a table or the directory is not identity-mapped.
* `AddressSpace` — what paging promises: one map from pages to frames, turned
  on with the identity window, then changed at one page by each mapping.
  `Paging` implements it (`AddressSpaceSpec`) for every page up to the `|= 7`
  loop, and after it for the mapped pages whose table `map_page` made. Directory
  entries that were empty at the loop all get frame 0 as their one table: a page
  mapped through one of them shows up under the others too, and the promise
  leaves them out.
* `Boot` — `PMM` and `Paging` composed, from `pmm_init` to the `|= 7` loop: each
  `pmm_alloc_block` of `paging_init`, `heap_init` and `map_page` is a step of
  `PMM`, and its answer is handed to `Paging`'s action. Frames are numbered like
  blocks, and directory and tables are wide enough for the address space
  (`BootAssumption`), as 1024 times 1024 pages are for 4 GB. The composition
  implements `Paging` (`PagingSpec`): the "lowest free frame" that `Paging`
  assumes is what the bitmap gives.
* `Scheduler` — tasks, heap bytes, saved contexts. A context is a frame of 52
  bytes at an address; a write to overlapping bytes destroys it, and `popa/iret`
  on anything but an intact frame runs `WILD` code. Interrupts from ring 3 start
  at the TSS stack. Addresses and sizes are those of the source.
* `RoundRobin` — what the scheduler promises: a queue whose first task runs; a
  tick sends it to the back, a new task is put behind its maker. `Scheduler`
  implements it, the queue being the ring of `next` pointers read from
  `current_task`, with what the CPU really runs at its head.
* `Interrupts` — IF, PIC registers (IRR, ISR, mask, vector base), gates,
  descriptors with the limit of the TSS, PIT divisor, boot order, handlers up to EOI and `iret`, and the
  page fault inside `peek`, which never returns.
* `Shell` — the text functions of `shell.c` and number printing of `vga.c` as
  operators on character codes. `execute_command` gives what a command prints
  and whether it clears or faults.
* `Console` — extends `Shell` with the screen as the log lines of boot leave it,
  the line editor, and the main thread from `sti` to its `hlt` loop in machine
  steps (`vga_index++` is a load and a store), interleaved with whole runs of
  the keyboard handler.
* `PMMProofs`, `HeapProofs`, `PagingProofs`, `BootProofs`, `SchedulerProofs`,
  `InterruptsProofs`, `ConsoleProofs` — theorems, section 5. `NatLemmas` — what
  they share: quotients and remainders, least elements, functions defined step
  by step.
* `MC_*` — constants for TLC. `MC_Shell` also types texts and counts numbers and
  says what the functions of `Shell` should give: the words of a text, and the
  number its digits name by their places.

`map` in `PROJECT.json` ties each definition to its lines. Next to some
definitions stands a faulty variant (`FirstUsed` beside `pmm_first_free`,
`SavedLate` beside `Saved`, ...): put in its place, it breaks the property that
`PROJECT.json` names for it, which shows that the property depends on that code.
No specification uses the variants.

## 3. Runs

Passing runs:

| Run | Checks | Bounds and why they are enough |
|---|---|---|
| `pmm` | type, `ExclusiveOwnership`, `NullNeverReturned`, `UsedNeverUnderstated`, `UsedExact`, `OnlyAvailableHandedOut`, refinement of `BlockPool` | 4-byte blocks, 2-bit words, 40 addresses, 9 boards: regular, map larger than RAM, RAM not a whole number of words, entries ending inside a block, entries beginning and ending inside one, block 0 reserved, no map, RAM above the address space, less than one word; entries of 20 and 24 bytes. All sequences of calls. |
| `heap` | `LiveApart`, `HeadersTrue`, `Coalesced`, `NothingLost`, `RefusalHonest` | page of 24 words, requests of 1, 2, 4, 7: remainders of none, less and more than a header; up to six live blocks; every order of frees. Callers do not allocate while there is a hole (see `heap_reuse`). `MaxClaim` = 48 stops allocation once a free header claims twice the page. |
| `paging` | `WindowIsIdentity`, `TablesOwned`, `HeapStays`, refinement of `AddressSpace` | directory of 4, tables of 6, so that two entries are still empty at the `\|= 7` loop; all 64 sets of free frames, so every allocation fails in some run, and one frame lies outside the identity window; leftovers that read as present entries |
| `boot` | `BootKeepsKernel`, refinement of `Paging`, `ComesUp` | 13 boards of up to 15 blocks, 3-bit words: four free blocks below the kernel, three, the fourth in the last word of the bitmap or in a tail nobody initialises, none to three in all, the fourth beyond 4 MB, no map |
| `tasks` | `ContextsIntact`, `MemoryApart`, refinement of `RoundRobin`, `EveryTaskRuns` | three completed builds: the kernel alone, one program with the PCB of `task.h`, two programs with recorded `kernel_stack_top`; `tick` counts modulo 64. Two programs fill the heap page: the fourth stack is already NULL, and with a third program two stacks are, which breaks `MemoryApart`. |
| `console` | `CursorOnScreen`, `EchoMatches`, `PromptStands` | 4 by 3 cells, buffer of 4, keys blank, `0`, Enter, Backspace; short command names; a full line wraps and scrolls; no or two log lines before the greeting; one key at any moment before the prompt is locked |
| `shell` | `ParseFindsWords`, `HexIsValue`, `NumbersReadBack`, `CommandIsFirstWord` | all texts of up to 5 of 5 characters, numbers up to 300, 2-digit words, 2 arguments: overflow and the argument limit both occur |
| `interrupts` | `NeverReset`, `NothingBeforeReady`, `OneInService`, `TicksForever`, `EveryKeyRead` | 3 keys waiting, ticks modulo 4, keys and ticks at any moment from power-on, so also before the remap of the PIC; `tss_entry` at the start, in the middle and just before the last 104 bytes of the megabyte the kernel lies in |

Deadlock is checked in `pmm`, `shell`, `tasks`. The other modules have states
in which the machine stops on purpose (`for(;;) hlt` after a page fault or
failed boot) or all callers are refused.

Violations, each a statement of the sources that the code does not keep:

| Run | Statement | What the code does |
|---|---|---|
| `pmm_kernel` | the bitmap is "protected" behind `_kernel_end` (`pmm.c:16`, `src/linker.ld:67-68`) | `kernel.c:85` locks block 0 only; kernel image and bitmap are handed out |
| `heap_reuse` | no one else can overwrite a block (`task.c:17`) | splitting a block in a hole overlaps the next |
| `boot_tasks` | `map_page` only unlocks the stack (`task.c:102-103`) | it moves the heap page to another frame |
| `tasks_declared` | the new `esp` waits in EAX (`interrupt.asm:84`, `timer.c:46`) | a `void` function leaves something else there: the first tick resumes no task |

The last part of each module states further sentences of the sources that the
code does not keep. No run of its own checks them; added as an `INVARIANT` to
the passing configuration (with the constants named, if any), each gives the
trace:

| Property | Module | Statement | What the code does |
|---|---|---|---|
| `UsedAlwaysExact` | `PMM` | `used_blocks` is the number of blocks in use (`pmm.c:4`) | locking a locked block counts it again (`pmm.c:120`) |
| `WholeBlocksAvailable` | `PMM` | what is freed is "a block of available RAM" (`pmm.c:43`) | `memory.c:57-58` frees the block in which an entry begins or ends: on a PC, where low RAM ends at 0x9FC00 (`pmm.c:110`), block 0x9F, whose last kilobyte is the BIOS's. The board of the trace is `MCPartial` |
| `NoTruncatedAddress` | `PMM` | addresses are kept in 64 bits (`memory.h:18-20`) | the cast in `memory.c:58` folds RAM above 4 GB onto low blocks |
| `InsidePage` | `Heap` | 4084 usable bytes (`heap.c:22`) | each split adds 12 bytes (`heap.c:34`); blocks run past the page |
| `EmptyStaysEmpty` | `Paging` | "This map is empty" (`paging.c:34`) | `\|= 7` makes every empty entry present with table 0 |
| `HeapIsIdentity` | `Paging` | the heap is identity-mapped (`paging.c:171`) | it lies in the lowest free block |
| `StacksFromHeap` | `Scheduler` | the heap is enough for two programs (`task.c:76`) | the fourth stack is NULL |
| `SnapshotsKept`, with `Builds <- MCShared` | `Scheduler` | each program has its own kernel stack (`task.c:85-87`) | without `kernel_stack_top` all are saved on the TSS stack and overwrite each other |
| `AlwaysATask`, with `Builds <- MCStubs` | `Scheduler` | the next task runs after each tick (`timer.c:46`) | DS is null after the first return to ring 3: the machine resets |
| `EarlyKeysShown` | `Console` | no `sti` before the kernel is ready (`kernel.c:150`) | keys struck before the prompt is locked are executed but not shown |
| `EchoAlwaysMatches` | `Console` | `vga_limit` only protects the prompt (`vga.c:6`) | after a scroll it also stops Backspace from erasing |
| `Hex64IsOneNumber` | `MC_Shell` | one continuous number (`vga.c:138`) | two numbers with `0x` each |
| `EveryGateUsable` | `Interrupts` | a gate's selector is 0x08 (`idt.c:18`) | gate 128 has 0xEE |
| `NoKeyForgotten` | `Interrupts` | slot 33 "fires every single time a key is pressed or released" (`src/phase2.txt:20`) | a key struck before `idt_init` loses its request to ICW1 (`idt.c:68`), nothing empties port 0x60, and the keyboard is silent for good |
| `TicksAtFrequency` | `Interrupts` | "our requested frequency" (`pit.c:28`) | divisor truncated: 1588 Hz instead of 18 |

## 4. Assumptions and fairness

* `PMM`: a caller frees only blocks it was given, or addresses that are free or
  out of range; the memory map lists whole entries and lies where `pmm_init`
  does not write its bitmap (the loader decides; nothing in the source checks).
* `Heap`: a pointer passed to `kfree` is one `kmalloc` gave and nobody freed.
* `Boot`: interrupts are off, so nothing interleaves with `kernel_main`; a fault
  before the `|= 7` loop halts. Pages are mapped in the order the commented code
  of `kernel_main` does it, after `heap_init`. Fairness: `WF` on `kernel_main`,
  straight-line code that the CPU executes. `ComesUp` needs it: the kernel gets
  to the loop, or for ever stays in one of its `hlt` loops.
* `Scheduler`: handlers use at most 1 KB of stack below the frame; user programs
  stay on their user stacks; heap memory stays where `heap_init` put it. The last
  is `HeapStays` of `Paging`, which `boot_tasks` shows the mapping of
  `create_task` to break: `Scheduler` says what the switch does apart from that.
  Fairness: `WF` on `task_init`, `sti` (straight-line boot code) and
  `timer_interrupt`, since the PIT never stops and every context runs with
  interrupts on (`hlt` after `sti`, EFLAGS 0x202 in forged frames).
* `Interrupts`: no second tick arrives while a timer handler runs (ticks are
  0.6 ms apart, the handler is a few instructions); a keyboard controller that
  holds a scancode raises no further edge until that is read. Keys arrive at any
  moment from power-on. `EveryKeyRead` claims nothing of a scancode that waits
  while `pic_remap` runs, because that one is lost and every later one with it
  (`NoKeyForgotten`, section 3); from any moment after the remap at which none
  waits, every key is read. The timer's return is that of a completed build
  (`returns` in `Scheduler`). Fairness: `WF` on boot, handlers, the PIT and delivery of the timer;
  `SF` on delivery of the keyboard, which the next tick can overtake but not in
  every gap between ticks. `TicksForever` and `EveryKeyRead` allow the halt
  after a page fault or a refused boot. The kernel starts at 1 MB
  (`linker.ld:17`) and ends below 2 MB; elsewhere the 20 bits of the TSS limit
  could come out too small.
* `Console`: a handler runs to its end (interrupt gate). `EarlyKeys` bounds the
  keys before the prompt is locked; keys struck between `idt_init` and `sti`
  arrive one after the other right after `sti`, which the model includes; one
  struck earlier would leave the line editor without keys (`NoKeyForgotten`). `EchoMatches` and
  `PromptStands` are claimed again from the first Enter after the lock on
  (`early = 0`): what an early key does to the first line does not last.
* System calls: `isr_common_stub` calls a function that does not exist, so there
  is nothing to model behind gate 128 but the gate (`EveryGateUsable`).

## 5. Proofs

Every theorem is about all values of the constants that the named assumptions
allow. Each component has an inductive invariant, three facts about it (it holds
at the start, each action keeps it, it implies the property) and one theorem per
property.

**Memory manager** (`PMMProofs`): for every block size, word
width, address space and memory map.

| Theorem | Statement |
|---|---|
| `Invariance` | the inductive invariant `IInv` |
| `TypeCorrect` | `[]TypeOK`: `used_blocks` stays in `0 .. total_blocks + 1` and never wraps |
| `Exclusive` | `[]ExclusiveOwnership` |
| `NoNull` | `[]NullNeverReturned` |
| `NeverUnderstated` | `[]UsedNeverUnderstated` |
| `ImplementsPool` | `Spec => PoolSpec`, the refinement of `BlockPool` |
| `ReadsEveryEntry` | whatever sizes the entries declare, `parse_memory_map` reads exactly the entries of the map |
| `MapInvariance` | the stronger invariant `MapInv` |
| `CounterExact` | `[]UsedExact` |
| `OnlyAvailable` | `[]OnlyAvailableHandedOut` |

They rest on `SizeAssumption` and `InputAssumption` of `PMM`: blocks of at
least two addresses, an address space that is a whole number of blocks.
`IInv` has four parts. `Typed` and `Owned` (a held block is marked, tracked and
held once) would suffice for ownership. `Booting` says that nobody holds
anything before boot ends and that block 0 is marked after it. `Counted` is
what makes the counter's bounds inductive: from below by the marked blocks that
exist, so a clear bit can be counted down safely, and from above by the clear
bits that can still be handed out, with one spare for the unconditional
increment of the lock.

`MapInv` adds what the map says: `Sized` (the block count is that of the reported
memory), `FromMap` (a clear or held block is one the parser freed) and `Exact`
(with a regular map the counter equals the marked blocks). What a block handed out
holds also needs `ReadsEveryEntry`: the positions of the finger are the starts of
the entries (`StartsAre`), none is skipped, and the first one past the end stops
the loop. So each such block was freed at an address the parser took from an
AVAILABLE entry, cut to 32 bits. If the cut changed the address, the block is
`Wrapped`; if not, the entry has a byte in the block, and either covers all of it
(`Backed`) or has an edge in its middle (`Ragged`, lemma `WholeOrRagged`). No
assumption on alignment or on 4 GB is made: `OnlyAvailable` says which blocks that
are not wholly AVAILABLE the allocator can hand out, `WholeBlocksAvailable`
(section 3) shows that it does.

**Heap** (`HeapProofs`): for every page size and every set of request sizes, with
the hypothesis `Freeing = "batch"`: nobody asks for memory while there is a hole.
The run `heap_reuse` shows that `LiveApart` fails without it.

| Theorem | Statement |
|---|---|
| `Invariance` | the inductive invariant `IInv` |
| `TypeCorrect` | `[]TypeOK` |
| `BlocksApart` | `[]LiveApart` |
| `TruthfulHeaders` | `[]HeadersTrue` |
| `NoNeighbours` | `[]Coalesced` |
| `AllComesBack` | `[]NothingLost` |
| `HonestRefusal` | `[]RefusalHonest` |

`IInv`: each header lies where the one before it ends, all headers lie in the
page and the chain reaches its end (`Linked`); no two free blocks touch
(`Split(chain) = {}`); the used headers are the callers' blocks, and in the order
they were handed out, because allocation only happens at the end of the chain
(`Owned`). The last part is what makes a split harmless: the block it cuts is
the last one, so the 12 bytes it invents lie past every header. `Coalesced`
follows only because no two free blocks touched before the call: one merge
forward and one backward are then enough.

**Paging** (`PagingProofs`): for every width of directory and tables, every
number of frames and every set of free ones (`PagingAssumption`: the directory
has more than one entry and the heap's page is under another entry than the
window).

| Theorem | Statement |
|---|---|
| `Invariance` | the inductive invariant `IInv` |
| `TypeCorrect` | `[]TypeOK`: a refusal of the PMM never becomes a frame |
| `WindowKept` | `[]WindowIsIdentity` |
| `FramesOwned` | `[]TablesOwned` |
| `HeapKept` | `HeapPage \notin Requests => (Spec => []HeapStays)` |
| `ImplementsAddressSpace` | `Spec => AddressSpaceSpec`, the refinement of `AddressSpace` |

`HeapKept` needs its hypothesis: `boot_tasks` shows that the call in
`create_task` does map the heap page. `IInv`: what is present in which phase
(`Boots`), the first table and every cached translation of the window
(`Identity`), tables, directory and heap in frames of their own that the PMM no
longer has (`Apart`), the heap's translation in tables and TLB (`HeapThere`).
`Apart` carries the rest: a write to one table would change the window, or
another page, if two entries shared a table. It is stated for the entries with
a frame other than 0 (`Own`), because after the `|= 7` loop the others do share
one.

**Boot** (`BootProofs`): for every board, block size and address space
(`BootAssumption`).

| Theorem | Statement |
|---|---|
| `Invariance` | the inductive invariant `BInv` |
| `ImplementsPaging` | `Spec => PagingSpec`: `Paging` is an abstraction of the two together |
| `KernelKept` | `Near => (Spec => []BootKeepsKernel)` |

`BInv` says what the clear bits of the bitmap stand for after each boot step
(`Memory`), which call of `kernel_main` asks for blocks (`Order`), and that the
answers it has got but not used yet are the lowest frames `Paging` still counts
as free (`Answers`). By `ImplementsPaging`, what `PagingProofs` proves holds of
paging on the real allocator wherever the constants meet `PagingAssumption` too,
as those of the kernel do. `KernelKept` counts: directory, first table, heap
and the heap's table take the four lowest free blocks, so with four of them below
the kernel nothing in the kernel is taken. `Near` says that pages are mapped
only under directory entries that have a table by then, the window's and the
heap's; a page elsewhere takes a fifth block. The programs of `kernel.c:107-110`
lie in the window, the stacks of `task.c:105` in the heap's page or, if NULL, in
page 0.

**Scheduler** (`SchedulerProofs`): for every `Builds` in which each build is
complete (`Completed`: the returned `esp` arrives, the stubs handle data segments
if there are ring 3 programs, there are at most two programs, and two programs
have PCBs with `kernel_stack_top`), and every width of `tick`.

| Theorem | Statement |
|---|---|
| `Invariance` | the inductive invariant `IInv` |
| `TypeCorrect` | `[]TypeOK` |
| `ContextsKept` | `[]ContextsIntact` |
| `MemoryKept` | `[]MemoryApart` |
| `ImplementsRoundRobin` | `Spec => RoundRobinSpec`, the refinement of `RoundRobin` |

The source as it stands does not meet `Completed`; the runs of section 3 show
what breaks when one of the conditions is dropped. `IInv`: boot phase and number
of tasks (`Built`), the ring of `next` pointers and the addresses at which
`kmalloc` puts PCBs and stacks (`Laid`), which task runs and which stack the TSS
names (`Runs`), and where the waiting contexts are (`Contexts`). The last part is
the core: each task's contexts can lie at a few addresses only (`Homes`), the
lemma `HomesApart` says that no write at one task's homes touches another's, and
so a context is whole when its turn comes. For the refinement, the queue read
along the `next` pointers from `current_task` is computed in closed form
(`Walk`), and a tick turns it by one.

**Interrupts** (`InterruptsProofs`): for every place of `tss_entry` in the
kernel's megabyte, every frequency, every width of `tick` and of the key queue.

| Theorem | Statement |
|---|---|
| `Invariance` | the inductive invariant `IInv` |
| `TypeCorrect` | `[]TypeOK`: the divisor fits the chip, the TSS limit its 20 bits, and no scancode is read from an empty controller |
| `NoReset` | `[]NeverReset` |
| `ReadyFirst` | `[]NothingBeforeReady` |
| `OneAtATime` | `[]OneInService` |
| `OnlyRemapForgets` | `[][Forgotten' => Forgotten \/ idt_init]_vars`: no step but the remap leaves a scancode without a request |
| `ForgottenForGood` | `[][Forgotten => Forgotten']_vars`: no step ever brings the request back |

They rest on `InterruptsAssumption`: `linker.ld` puts the kernel at 1 MB and it
is smaller than one megabyte, the frequency is between 1 and the chip's clock.
`NeverReset` is not inductive: a delivery needs the gates, the vector base and
the code segment in place. `Ready` says what is in place after which boot call;
`Quiet` that until `sti` interrupts are off and nothing has been delivered, so a
delivery or a handler implies `step = "hlt"`; `Service` which line is in service
at each point of each handler, which is what makes one EOI enough; `Requested`
that a keyboard request stands for a scancode, which typing `keys` needs. The last
two theorems are the safety side of `EveryKeyRead` and of its exception: after the
remap, requests and scancodes stay together through every interleaving of keys,
ticks and handlers; a scancode that was there at the remap never gets a request.

**Console** (`ConsoleProofs`): for every size of the screen, prompt, buffer and
set of keys, any log lines of boot, any mapped pages and memory under `peek`, and
any number of keys struck before the prompt is locked.

| Theorem | Statement |
|---|---|
| `Invariance` | the inductive invariant `IInv` |
| `ConsoleTypes` | `[]TypeOK`: also that the line leaves room for its NUL |
| `CursorStays` | `[]CursorOnScreen` |
| `EchoHolds` | `[]EchoMatches` |
| `PromptKept` | `[]PromptStands` |

They rest on `ConsoleAssumption` (a screen of at least two rows, a prompt without
line breaks and backspaces, texts made of characters) and `ShellAssumption` (below).
`IInv` has three parts. `On` bounds the cursor at each
machine step of the main thread, the register of `vga_index++` included: one past
the end only right before a scroll, which is where a key could put a glyph in cell
2000, off the screen (`CursorOnScreen` leaves that point out; the handler's own
scroll then brings the cursor back). `First` says, as long as no key interfered,
how much of the first prompt stands before the cursor. `Edited` says what the line
shows: a line not scrolled echoes the buffer, and the prompt stands before it,
moved up by as many rows as the screen scrolled. The last two are claimed only
while `early = 0`: a key inside `vga_index++` breaks both, and Enter restores them,
because it prints and locks a prompt whatever it finds. The handler is one step,
but a long one: it prints a text of any length, and that keeps `On` character by
character. The loops are recursive functions of the position, and `Stepping` and
`Staying` (below) carry a property along the positions; the same way
`CommandPrints` follows `execute_command` through its words and numbers and shows
that it prints characters.

**Shell** (`ConsoleProofs`, before what it proves of `Console`): for every text,
every number, every number of hex digits in a word and every `MAX_ARGS`.

| Theorem | Statement |
|---|---|
| `WordsParse` | `[]ParseFindsWords` |
| `HexNamed` | `[]HexIsValue` |
| `NumbersShown` | `[]NumbersReadBack` |
| `FirstWordCommands` | `[]CommandIsFirstWord` |

They rest on `ShellAssumption` (`MAX_ARGS` is at least two, the four names are
different C strings, what is printed are characters, a word of memory fits its
width) and `TypingAssumption` (what is typed is not NUL). The invariant of
`TypingSpec` is only `Texts`, a C string holds no NUL; the work is in the functions.
The loop of `parse_args` has the invariant `Noted`: after `i` characters the blanks
among them are NULs, the words begun so far are noted while there is room, and
`in_word` says whether the last character belongs to a noted word. A word that finds
no room leaves `in_word` at 0, which is why it speaks of noted words. `WordFound`
then shows that the first NUL after a start is where the word ends. `HexNames`
keeps, along the run, that the result is the value so far below the word size and
that the total of places is that value times the power still to come; `ModStep` lets
`result << 4` forget the high digits at once. `HexReadBack` and `DecNames` follow
the quotients of the number by the powers of the base. `StrcmpEqual` says that
`strcmp` gives 0 for equal strings only, and `Commanded` goes through the commands.

**Shared lemmas** (`NatLemmas`): quotients, remainders and their order;
`LeastElement`, which first fit needs, from the well-foundedness of strict subset
on finite sets; `Stepping`, that a function on `b .. n` given by its first value
and a step exists and stays in the set the step stays in; `Staying`, the same for
a function one already has; `Climb`, that a set which holds the first position and
with each position the next holds them all. They come from `LeastElement`, because
the induction theorems of the library take an operator as a parameter, which the
provers cannot instantiate: a set takes the place of the predicate.

Model-checked only:

* Liveness: `ComesUp`, `EveryTaskRuns`, `TicksForever`, `EveryKeyRead`. Liveness
  under fairness and `ENABLED` are out of the prover's reach.

## 6. Plan

Done: `PMM`, `BlockPool`, `Heap`, `Paging`, `Scheduler`, `Interrupts`, `Shell`,
`Console`, in the order of what depends on what; the composition `Boot`; the
abstract `AddressSpace` and `RoundRobin`; proofs of every safety property and
every refinement of `PMM`, `Heap`, `Paging`, `Boot`, `Scheduler`, `Interrupts`,
`Console` and `Shell`.

Next:

1. `Heap` and `Scheduler` joined to `Boot`, once `create_task` is called.
2. System calls, when `isr.c` has a handler.
