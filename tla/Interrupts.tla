------------------------------- MODULE Interrupts -------------------------------
(***************************************************************************)
(* Who gets the CPU when hardware asks: the segment and interrupt tables     *)
(* (src/gdt.c, src/idt.c), the interrupt controller as pic_remap programs    *)
(* it, the timer chip (src/pit.c), the stubs of src/interrupt.asm, and the   *)
(* order of the boot calls in kernel_main.  What the boot calls in between   *)
(* and the handlers do is in the other modules.                              *)
(***************************************************************************)
EXTENDS Integers, FiniteSets

CONSTANTS
  Frequency,     \* argument of pit_init: 18
  TssBases,      \* where the linker may put tss_entry
  TickModulus,   \* width of the tick counter: 2^32
  KeyQueue       \* scancodes the keyboard controller keeps (external)

MB == 1024 * 1024
TssBytes == 104                 \* sizeof(tss_entry)
PitHz == 1193180                \* the input clock of the timer chip
PitWidth == 65536               \* of its counter; it reads a divisor 0 as this

(* linker.ld: the kernel starts at 1 MB and is smaller than one.            *)
ASSUME InterruptsAssumption ==
  /\ TssBases \subseteq MB .. 2 * MB - 1 - TssBytes
  /\ Frequency \in 1 .. PitHz
  /\ TickModulus \in Nat \ {0} /\ KeyQueue \in Nat \ {0}

Vector == 0 .. 255
TIMER == 0                      \* IRQ lines
KEYBOARD == 1
Irq == 0 .. 15
PAGE_FAULT == 14

VARIABLES
  step,      \* the next boot call of kernel_main; "hlt" when it idles
  gdt,       \* present descriptors: selector -> [ring, code]
  tss,       \* the last byte of the TSS the CPU may use; -1 while it has none
  idt,       \* vector -> [handler, selector, present]
  pic,       \* base vector, masked lines, requests (irr), lines in service (isr)
  pit,       \* divisor of the timer chip
  eflags_if,        \* interrupts enabled
  cpu,       \* who runs: "main", a handler, "halted", or "reset"
  at,        \* how far the running handler is: "entry", "eoi", "iret"
  current_task,  \* task_init has run
  tick,
  keys       \* scancodes waiting in the keyboard controller

vars == <<step, gdt, tss, idt, pic, pit, eflags_if, cpu, at, current_task, tick, keys>>

Gate(handler, selector, flags) ==
  [handler |-> handler, selector |-> selector, present |-> flags >= 128]
NoGate == Gate("none", 0, 0)

Init == /\ step \in {"magic", "refused"}   \* EAX is right, or it is not
        /\ gdt = <<>> /\ tss = -1
        /\ idt = [v \in Vector |-> NoGate]
        /\ pic = [base |-> 8, masked |-> {}, irr |-> {}, isr |-> {}]
        /\ pit = PitWidth                  \* what the firmware set up
        /\ eflags_if = FALSE                      \* boot.asm: cli
        /\ cpu = "main" /\ at = "entry"
        /\ current_task = FALSE /\ tick = 0 /\ keys = 0

Boot(from, to) == step = from /\ cpu = "main" /\ step' = to

(* A wrong magic number: kernel_main returns into boot.asm's cli; hlt.      *)
refuse == /\ Boot("refused", "returned")
          /\ cpu' = "halted"
          /\ UNCHANGED <<gdt, tss, idt, pic, pit, eflags_if, at, current_task, tick, keys>>

gdt_init ==
  /\ Boot("magic", "tss")
  /\ gdt' = [s \in {8, 16, 27, 35, 43} |->
               [ring |-> IF s \in {27, 35} THEN 3 ELSE 0, code |-> s \in {8, 27}]]
  /\ UNCHANGED <<tss, idt, pic, pit, eflags_if, cpu, at, current_task, tick, keys>>

(* write_tss gives the descriptor base + size as its limit; gdt_set_gate    *)
(* keeps 20 bits of it, and they count bytes.                               *)
TssLimit(base) == (base + TssBytes) % MB

tss_flush == /\ Boot("tss", "idt")
             /\ \E base \in TssBases : tss' = TssLimit(base)
             /\ UNCHANGED <<gdt, idt, pic, pit, eflags_if, cpu, at, current_task, tick, keys>>

(* ICW1 forgets old requests and masks; the masks are then written back,    *)
(* and replaced by idt_init.  A device that asked before asks again only    *)
(* with a new edge.                                                         *)
RemapNowhere(masks) == [base |-> 8, masked |-> masks, irr |-> {}, isr |-> {}]
pic_remap(masks) == [base |-> 32, masked |-> masks, irr |-> {}, isr |-> {}]

(* The lines idt_init leaves open: 0xFC, or 0xFD as an older version, or    *)
(* the timer alone.                                                         *)
OpenKeyboard == {KEYBOARD}
OpenTimer == {TIMER}
Open == {TIMER, KEYBOARD}

idt_init ==
  /\ Boot("idt", "pit")
  /\ idt' = [v \in Vector |->
               CASE v = PAGE_FAULT -> Gate("page_fault", 8, 142)
                 [] v = 32 -> Gate("timer", 8, 142)
                 [] v = 33 -> Gate("keyboard", 8, 142)
                 [] v = 128 -> Gate("isr128", 238, 238)
                 [] OTHER -> NoGate]
  /\ pic' = pic_remap(Irq \ Open)
  /\ UNCHANGED <<gdt, tss, pit, eflags_if, cpu, at, current_task, tick, keys>>

(* The divisor is a uint16_t.                                               *)
DivisorWide(frequency) == PitHz \div frequency
Divisor(frequency) == (PitHz \div frequency) % PitWidth
pit_init ==
  /\ Boot("pit", "memory")
  /\ pit' = IF Divisor(Frequency) = 0 THEN PitWidth ELSE Divisor(Frequency)
  /\ UNCHANGED <<gdt, tss, idt, pic, eflags_if, cpu, at, current_task, tick, keys>>

(* pmm_init up to heap_init: see PMM and Paging.                            *)
memory_init ==
  /\ Boot("memory", "task")
  /\ UNCHANGED <<gdt, tss, idt, pic, pit, eflags_if, cpu, at, current_task, tick, keys>>

task_init ==
  /\ Boot("task", "sti")
  /\ current_task' = TRUE
  /\ UNCHANGED <<gdt, tss, idt, pic, pit, eflags_if, cpu, at, tick, keys>>

(* Interrupts on before task_init, as kernel.c:149-160 warns against.       *)
StiEarly == /\ Boot("memory", "task")
            /\ eflags_if' = TRUE
            /\ UNCHANGED <<gdt, tss, idt, pic, pit, cpu, at, current_task, tick, keys>>

sti == /\ Boot("sti", "hlt")
       /\ eflags_if' = TRUE
       /\ UNCHANGED <<gdt, tss, idt, pic, pit, cpu, at, current_task, tick, keys>>

kernel_main == \/ refuse \/ gdt_init \/ tss_flush \/ idt_init \/ pit_init
               \/ memory_init \/ task_init \/ sti

(***************************************************************************)
(* Hardware.  A line that is raised again before it is served is one        *)
(* request: such ticks are lost.  The keyboard keeps scancodes from the     *)
(* moment it has power, raises its line for the first and, when that is     *)
(* read, for the next.  Ticks are more than half a millisecond apart and a  *)
(* timer handler takes microseconds, so no tick comes while the handler of  *)
(* another runs; the keyboard's may take long.                              *)
(***************************************************************************)
Raise(p, irq) == [p EXCEPT !.irr = @ \cup {irq}]

PitEdge == /\ cpu \notin {"halted", "reset", "timer"}
           /\ pic' = Raise(pic, TIMER)
           /\ UNCHANGED <<step, gdt, tss, idt, pit, eflags_if, cpu, at, current_task, tick, keys>>

KeyPress == /\ cpu \notin {"halted", "reset"} /\ keys < KeyQueue
            /\ keys' = keys + 1
            /\ pic' = IF keys = 0 THEN Raise(pic, KEYBOARD) ELSE pic
            /\ UNCHANGED <<step, gdt, tss, idt, pit, eflags_if, cpu, at, current_task, tick>>

(* The controller offers the lowest requested line that is not masked and   *)
(* not below one in service.  The CPU takes it through the vector's gate;   *)
(* without a usable gate it faults, finds no gate for that, and resets.     *)
Offered(irq) == /\ irq \in pic.irr \ pic.masked
                /\ \A other \in pic.isr \cup (pic.irr \ pic.masked) : irq <= other
                /\ irq \notin pic.isr
Usable(gate) == /\ gate.present /\ gate.selector \in DOMAIN gdt
                /\ gdt[gate.selector].code /\ gdt[gate.selector].ring = 0

Deliver(irq) ==
  LET gate == idt[pic.base + irq]
  IN  /\ eflags_if /\ cpu = "main" /\ Offered(irq)
      /\ pic' = [pic EXCEPT !.irr = @ \ {irq}, !.isr = @ \cup {irq}]
      /\ cpu' = IF Usable(gate) THEN gate.handler ELSE "reset"
      /\ eflags_if' = FALSE
      /\ at' = "entry"
      /\ UNCHANGED <<step, gdt, tss, idt, pit, current_task, tick, keys>>

(* outb(0x20, 0x20): the line of highest priority leaves service.           *)
EndedNever(p) == p
Ended(p) == [p EXCEPT !.isr = {irq \in @ : \E other \in @ : other < irq}]

(***************************************************************************)
(* The handlers.  The timer acknowledges before it switches tasks, the      *)
(* keyboard after everything else; a peek that faults never gets there.     *)
(* The return from the timer is that of a build whose stub gives the        *)
(* interrupted task back; what the stub as declared does is the subject of  *)
(* Scheduler's declared run.                                                *)
(***************************************************************************)
timer_handler_main ==
  /\ cpu = "timer" /\ at = "entry"
  /\ tick' = (tick + 1) % TickModulus
  /\ pic' = Ended(pic)
  /\ at' = "iret"
  /\ UNCHANGED <<step, gdt, tss, idt, pit, eflags_if, cpu, current_task, keys>>

read_scancode ==
  /\ cpu = "keyboard" /\ at = "entry"
  /\ keys' = keys - 1
  /\ pic' = IF keys > 1 THEN Raise(pic, KEYBOARD) ELSE pic
  /\ at' = "eoi"
  /\ UNCHANGED <<step, gdt, tss, idt, pit, eflags_if, cpu, current_task, tick>>

keyboard_eoi ==
  /\ cpu = "keyboard" /\ at = "eoi"
  /\ pic' = Ended(pic)
  /\ at' = "iret"
  /\ UNCHANGED <<step, gdt, tss, idt, pit, eflags_if, cpu, current_task, tick, keys>>

peek_fault ==
  /\ cpu = "keyboard" /\ at = "eoi"
  /\ cpu' = IF Usable(idt[PAGE_FAULT]) THEN "halted" ELSE "reset"
  /\ UNCHANGED <<step, gdt, tss, idt, pic, pit, eflags_if, at, current_task, tick, keys>>

iret == /\ cpu \in {"timer", "keyboard"} /\ at = "iret"
        /\ cpu' = "main" /\ eflags_if' = TRUE
        /\ UNCHANGED <<step, gdt, tss, idt, pic, pit, at, current_task, tick, keys>>

Handlers == timer_handler_main \/ read_scancode \/ keyboard_eoi \/ peek_fault \/ iret

Next == \/ kernel_main \/ PitEdge \/ KeyPress \/ Handlers
        \/ Deliver(TIMER) \/ Deliver(KEYBOARD)

(* The chip keeps ticking, the CPU keeps executing.  After each timer       *)
(* handler there is time before the next tick in which the CPU takes what   *)
(* is requested, so a keyboard line offered again and again is served: SF.  *)
Spec == /\ Init /\ [][Next]_vars
        /\ WF_vars(kernel_main) /\ WF_vars(PitEdge) /\ WF_vars(Handlers)
        /\ WF_vars(Deliver(TIMER)) /\ SF_vars(Deliver(KEYBOARD))
--------------------------------------------------------------------------------
GateType == [handler : {"none", "page_fault", "timer", "keyboard", "isr128"},
             selector : {0, 8, 238}, present : BOOLEAN]
PicType == [base : Vector, masked : SUBSET Irq, irr : SUBSET Irq, isr : SUBSET Irq]

(* Type invariant.                                                          *)
TypeOK ==
  /\ step \in {"magic", "refused", "returned", "tss", "idt", "pit", "memory", "task",
               "sti", "hlt"}
  /\ DOMAIN gdt \subseteq {8, 16, 27, 35, 43} /\ tss \in -1 .. MB - 1
  /\ idt \in [Vector -> GateType] /\ pic \in PicType
  /\ pit \in 1 .. PitWidth /\ eflags_if \in BOOLEAN
  /\ cpu \in {"main", "timer", "keyboard", "halted", "reset"}
  /\ at \in {"entry", "eoi", "iret"}
  /\ current_task \in BOOLEAN /\ tick \in 0 .. TickModulus - 1 /\ keys \in 0 .. KeyQueue

(* idt.c:46-58: no interrupt or fault that the kernel lets in ever goes     *)
(* through a vector without a working gate; the machine never resets.       *)
NeverReset == cpu # "reset"

(* kernel.c:149-160: no handler runs before everything it uses is set up:   *)
(* the TSS, all of it within the limit of its descriptor (gdt.c:43), the    *)
(* task list and the timer's own rate.                                      *)
NothingBeforeReady ==
  cpu \in {"timer", "keyboard"} \/ tick > 0
    => tss >= TssBytes - 1 /\ current_task /\ step = "hlt"

(* Handlers do not nest, and only the one that runs holds its line in       *)
(* service: nobody returns without having acknowledged.                     *)
OneInService ==
  /\ cpu \in {"timer", "keyboard"} => ~eflags_if
  /\ cpu = "main" => pic.isr = {}
  /\ Cardinality(pic.isr) <= 1

(* The boot calls after idt_init, which remaps the PIC.                     *)
AfterRemap == step \in {"pit", "memory", "task", "sti", "hlt"}

(* A scancode waits, nothing asks for it, and while it waits a further key  *)
(* raises no line: the keyboard is silent for good.                         *)
Forgotten == keys > 0 /\ KEYBOARD \notin pic.irr /\ ~(cpu = "keyboard" /\ at = "entry")

(* timer.c:20: the hardware never locks up: ticks are counted again and     *)
(* again, unless a refused boot or a page fault stopped the machine.        *)
TicksForever == []<>(cpu = "timer" \/ cpu = "halted")

(* phase2.txt:20, keyboard.c:64-72: whenever no scancode waits after the    *)
(* remap of the PIC, every key struck from then on is read, during boot and *)
(* during handlers too.  A scancode that waits while pic_remap runs is not: *)
(* see NoKeyForgotten.                                                      *)
EveryKeyRead ==
  [](AfterRemap /\ keys = 0 => [](keys > 0 => <>(cpu \in {"keyboard", "halted"})))
--------------------------------------------------------------------------------
(* Statements of the sources that the code does not keep (see the README).  *)

(* idt.c:18: the selector of a gate "is the GDT selector (0x08)": every     *)
(* gate that is present leads into kernel code.                             *)
EveryGateUsable == step = "hlt" => \A v \in Vector : idt[v].present => Usable(idt[v])

(* pit.c:28, "make it tick at our requested frequency".                     *)
TicksAtFrequency == step = "hlt" => PitHz \div pit = Frequency

(* phase2.txt:20, slot 33 "fires every single time a key is pressed or      *)
(* released": no scancode ever waits without a request.  idt.c:68 drops the *)
(* request of a key struck before it, and nothing reads port 0x60 then.     *)
NoKeyForgotten == ~Forgotten
================================================================================
