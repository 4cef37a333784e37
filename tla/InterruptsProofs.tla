---------------------------- MODULE InterruptsProofs ----------------------------
(***************************************************************************)
(* Theorems about Interrupts for every address of the TSS, every timer      *)
(* frequency, and every width of the tick counter and of the key queue.     *)
(* The inductive invariant is IInv below.                                   *)
(***************************************************************************)
EXTENDS Interrupts, NatLemmas, TLAPS

(* The boot calls that come after each part of the set-up.                  *)
AfterIdt == {"pit", "memory", "task", "sti", "hlt"}
AfterTss == {"idt"} \cup AfterIdt
AfterGdt == {"tss"} \cup AfterTss

(* What has been set up stays: kernel_main never goes back.                 *)
Ready ==
  /\ step \in AfterGdt => 8 \in DOMAIN gdt /\ gdt[8].ring = 0 /\ gdt[8].code
  /\ step \in AfterTss => tss >= TssBytes - 1
  /\ step \in AfterIdt => /\ pic.base = 32
                          /\ idt[32] = Gate("timer", 8, 142)
                          /\ idt[33] = Gate("keyboard", 8, 142)
                          /\ idt[PAGE_FAULT] = Gate("page_fault", 8, 142)
  /\ step \in {"sti", "hlt"} => current_task

(* Until sti, interrupts are off and nobody has been interrupted.           *)
Quiet == step # "hlt" => /\ ~eflags_if /\ cpu \in {"main", "halted"}
                         /\ pic.isr = {} /\ tick = 0

(* Exactly the handler that has not acknowledged yet holds its line.        *)
Service ==
  /\ cpu # "reset"
  /\ cpu = "main" => pic.isr = {}
  /\ cpu = "timer" => /\ ~eflags_if /\ at # "eoi"
                      /\ pic.isr = IF at = "entry" THEN {TIMER} ELSE {}
  /\ cpu = "keyboard" => /\ ~eflags_if
                         /\ pic.isr = IF at = "iret" THEN {} ELSE {KEYBOARD}
  /\ cpu = "halted" => ~eflags_if /\ pic.isr \subseteq {KEYBOARD}

(* A keyboard request stands for a scancode that is still there: none is    *)
(* read from an empty controller.                                           *)
Requested ==
  /\ KEYBOARD \in pic.irr => keys > 0
  /\ cpu = "keyboard" /\ at = "entry" => keys > 0 /\ KEYBOARD \notin pic.irr

IInv == TypeOK /\ Ready /\ Quiet /\ Service /\ Requested

(* The literals of the sources, as much of them as the proofs need.         *)
LEMMA Sizes == /\ MB \in Nat /\ MB > TssBytes /\ TssBytes \in Nat \ {0}
               /\ PitHz \in Nat /\ PitWidth \in Nat \ {0}
<1>1. MB \in Nat /\ MB > TssBytes  BY SMT DEF MB, TssBytes
<1>2. PitHz \in Nat  BY SMT DEF PitHz
<1> QED  BY <1>1, <1>2 DEF TssBytes, PitWidth

(* gdt.c:43: base + size is one more than the last byte, and its low 20     *)
(* bits are the offset of that byte from 1 MB: never less than the TSS.     *)
LEMMA LimitCovers ==
  ASSUME NEW base \in TssBases
  PROVE  TssLimit(base) \in TssBytes - 1 .. MB - 1
<1>1. base \in MB .. 2 * MB - 1 - TssBytes  BY InterruptsAssumption
<1>2. base + TssBytes \in MB + TssBytes .. 2 * MB - 1  BY <1>1, Sizes, SMT
<1>3. base + TssBytes \in Nat /\ base + TssBytes \in MB .. 2 * MB - 1
  BY <1>1, Sizes, SMT
<1>4. TssLimit(base) = (base + TssBytes) - MB
  <2> DEFINE end == base + TssBytes
  <2> HIDE DEF end
  <2>1. end \in Nat /\ end \in MB .. 2 * MB - 1  BY <1>3 DEF end
  <2>2. end % MB = end - MB  BY <2>1, Sizes, ModOnce
  <2> QED  BY <2>2 DEF TssLimit, end
<1> QED  BY <1>1, <1>4, Sizes, SMT

(* pit.c:28: the divisor fits its 16 bits.                                  *)
LEMMA DivisorFits == Divisor(Frequency) \in 0 .. PitWidth - 1
<1>1. Frequency \in Nat \ {0}  BY Sizes, InterruptsAssumption
<1>2. PitHz \div Frequency \in Nat  BY <1>1, Sizes, DivNat
<1> QED  BY <1>2, Sizes, ModNat DEF Divisor

(* The tick counter wraps within its width.                                 *)
LEMMA TickFits == \A n \in 0 .. TickModulus - 1 : (n + 1) % TickModulus \in 0 .. TickModulus - 1
  BY InterruptsAssumption, ModNat

(* The state boot.asm hands over.                                           *)
LEMMA InitIInv == Init => IInv
<1> SUFFICES ASSUME Init PROVE IInv
  OBVIOUS
<1>1. TypeOK
  <2>1. idt \in [Vector -> GateType]  BY DEF Init, GateType, NoGate, Gate
  <2>2. pic \in PicType  BY DEF Init, PicType, Vector, Irq
  <2>3. DOMAIN gdt \subseteq {8, 16, 27, 35, 43}  BY DEF Init
  <2>4. tss \in -1 .. MB - 1 /\ pit \in 1 .. PitWidth  BY Sizes DEF Init
  <2>5. tick \in 0 .. TickModulus - 1 /\ keys \in 0 .. KeyQueue
    BY InterruptsAssumption DEF Init
  <2> QED  BY <2>1, <2>2, <2>3, <2>4, <2>5 DEF Init, TypeOK
<1>2. Ready  BY DEF Init, Ready, AfterGdt, AfterTss, AfterIdt
<1>3. Quiet /\ Service  BY DEF Init, Quiet, Service
<1>4. Requested  BY DEF Init, Requested
<1> QED  BY <1>1, <1>2, <1>3, <1>4 DEF IInv

(***************************************************************************)
(* The calls of kernel_main.                                                *)
(***************************************************************************)
LEMMA BootKeeps == IInv /\ kernel_main => IInv'
<1> SUFFICES ASSUME IInv, kernel_main PROVE IInv'
  OBVIOUS
<1> USE DEF IInv, Boot
<1>1. CASE refuse
  <2>1. TypeOK'  BY <1>1 DEF refuse, TypeOK
  <2>2. Ready' /\ Quiet' /\ Service' /\ Requested'
    BY <1>1 DEF refuse, Ready, Quiet, Service, Requested, AfterGdt, AfterTss, AfterIdt
  <2> QED  BY <2>1, <2>2
<1>2. CASE gdt_init
  <2>1. TypeOK'  BY <1>2 DEF gdt_init, TypeOK
  <2>2. 8 \in DOMAIN gdt' /\ gdt'[8].ring = 0 /\ gdt'[8].code
    <3> DEFINE D(s) == [ring |-> IF s \in {27, 35} THEN 3 ELSE 0, code |-> s \in {8, 27}]
    <3>1. gdt' = [s \in {8, 16, 27, 35, 43} |-> D(s)]  BY <1>2 DEF gdt_init
    <3>2. D(8).ring = 0 /\ D(8).code
      <4>1. D(8) = [ring |-> 0, code |-> 8 \in {8, 27}]  OBVIOUS
      <4>2. 8 \in {8, 27}  OBVIOUS
      <4> QED  BY <4>1, <4>2, Zenon
    <3> HIDE DEF D
    <3>3. 8 \in DOMAIN gdt' /\ gdt'[8] = D(8)  BY <3>1
    <3> QED  BY <3>2, <3>3
  <2>3. Ready'  BY <1>2, <2>2 DEF gdt_init, Ready, AfterGdt, AfterTss, AfterIdt
  <2>4. Quiet' /\ Service' /\ Requested'
    BY <1>2 DEF gdt_init, Quiet, Service, Requested
  <2> QED  BY <2>1, <2>3, <2>4
<1>3. CASE tss_flush
  <2>1. tss' \in TssBytes - 1 .. MB - 1  BY <1>3, LimitCovers DEF tss_flush
  <2>2. TypeOK'  BY <1>3, <2>1, Sizes DEF tss_flush, TypeOK
  <2>3. Ready'
    BY <1>3, <2>1, Sizes DEF tss_flush, Ready, AfterGdt, AfterTss, AfterIdt
  <2>4. Quiet' /\ Service' /\ Requested'
    BY <1>3 DEF tss_flush, Quiet, Service, Requested
  <2> QED  BY <2>2, <2>3, <2>4
<1>4. CASE idt_init
  <2>1. pic' = [base |-> 32, masked |-> Irq \ Open, irr |-> {}, isr |-> {}]
    BY <1>4 DEF idt_init, pic_remap
  <2>2. TypeOK'
    <3>1. idt' \in [Vector -> GateType]
      BY <1>4 DEF idt_init, GateType, NoGate, Gate
    <3>2. pic' \in PicType  BY <2>1 DEF PicType, Vector, Irq
    <3> QED  BY <1>4, <3>1, <3>2 DEF idt_init, TypeOK
  <2>3. Ready'
    BY <1>4, <2>1
    DEF idt_init, Ready, Gate, Vector, AfterGdt, AfterTss, AfterIdt, PAGE_FAULT
  <2>4. Quiet' /\ Service' /\ Requested'
    <3>1. Quiet'  BY <1>4, <2>1 DEF idt_init, Quiet
    <3>2. Service'  BY <1>4, <2>1 DEF idt_init, Service
    <3>3. Requested'  BY <1>4, <2>1 DEF idt_init, Requested
    <3> QED  BY <3>1, <3>2, <3>3
  <2> QED  BY <2>2, <2>3, <2>4
<1>5. CASE pit_init
  <2>1. pit' \in 1 .. PitWidth  BY <1>5, DivisorFits, Sizes DEF pit_init
  <2>2. TypeOK'  BY <1>5, <2>1 DEF pit_init, TypeOK
  <2>3. Ready' /\ Quiet' /\ Service' /\ Requested'
    BY <1>5 DEF pit_init, Ready, Quiet, Service, Requested, AfterGdt, AfterTss, AfterIdt
  <2> QED  BY <2>2, <2>3
<1>6. CASE memory_init \/ task_init
  <2>1. TypeOK'  BY <1>6 DEF memory_init, task_init, TypeOK
  <2>2. Ready' /\ Quiet' /\ Service' /\ Requested'
    BY <1>6 DEF memory_init, task_init, Ready, Quiet, Service, Requested,
                AfterGdt, AfterTss, AfterIdt
  <2> QED  BY <2>1, <2>2
<1>7. CASE sti
  <2>1. TypeOK'  BY <1>7 DEF sti, TypeOK
  <2>2. Ready' /\ Quiet' /\ Service' /\ Requested'
    BY <1>7 DEF sti, Ready, Quiet, Service, Requested, AfterGdt, AfterTss, AfterIdt
  <2> QED  BY <2>1, <2>2
<1> QED  BY <1>1, <1>2, <1>3, <1>4, <1>5, <1>6, <1>7 DEF kernel_main

(* A gate with flags 0x8E is present and leads to its handler.              *)
LEMMA GateWorks ==
  ASSUME NEW h
  PROVE  Gate(h, 8, 142).present /\ Gate(h, 8, 142).selector = 8 /\ Gate(h, 8, 142).handler = h
<1>1. 142 >= 128  OBVIOUS
<1>2. ASSUME NEW p \in BOOLEAN, p
      PROVE  [handler |-> h, selector |-> 8, present |-> p].present
  BY <1>2, Zenon
<1>3. Gate(h, 8, 142).present  BY <1>1, <1>2 DEF Gate
<1>4. Gate(h, 8, 142).selector = 8 /\ Gate(h, 8, 142).handler = h  BY DEF Gate
<1> QED  BY <1>3, <1>4

(***************************************************************************)
(* What the devices do.                                                     *)
(***************************************************************************)
LEMMA DevicesKeep == IInv /\ (PitEdge \/ KeyPress) => IInv'
<1> SUFFICES ASSUME IInv, PitEdge \/ KeyPress PROVE IInv'
  OBVIOUS
<1> USE DEF IInv
<1>1. pic \in PicType  BY DEF TypeOK
<1>2. ASSUME NEW irq \in Irq, pic' = Raise(pic, irq)
      PROVE  /\ pic' \in PicType /\ pic'.base = pic.base /\ pic'.isr = pic.isr
             /\ pic'.irr = pic.irr \cup {irq}
  BY <1>1, <1>2 DEF PicType, Raise
<1>3. CASE PitEdge
  <2>1. TIMER \in Irq /\ TIMER # KEYBOARD  BY DEF TIMER, KEYBOARD, Irq
  <2>2. /\ pic' \in PicType /\ pic'.base = pic.base /\ pic'.isr = pic.isr
        /\ pic'.irr = pic.irr \cup {TIMER}
    BY <1>2, <1>3, <2>1 DEF PitEdge
  <2>3. TypeOK'  BY <1>3, <2>2 DEF PitEdge, TypeOK
  <2>4. Ready'  BY <1>3, <2>2 DEF PitEdge, Ready
  <2>5. Quiet' /\ Service'  BY <1>3, <2>2 DEF PitEdge, Quiet, Service
  <2>6. Requested'  BY <1>3, <2>1, <2>2 DEF PitEdge, Requested
  <2> QED  BY <2>3, <2>4, <2>5, <2>6
<1>4. CASE KeyPress
  <2>1. KEYBOARD \in Irq  BY DEF KEYBOARD, Irq
  <2>2. /\ pic' \in PicType /\ pic'.base = pic.base /\ pic'.isr = pic.isr
        /\ pic'.irr \subseteq pic.irr \cup {KEYBOARD}
        /\ keys # 0 => pic'.irr = pic.irr
    BY <1>1, <1>2, <1>4, <2>1 DEF KeyPress
  <2>3. keys' = keys + 1 /\ keys \in Nat /\ keys' \in 0 .. KeyQueue
    BY <1>4, InterruptsAssumption DEF KeyPress, TypeOK
  <2>4. TypeOK'  BY <1>4, <2>2, <2>3 DEF KeyPress, TypeOK
  <2>5. Ready'  BY <1>4, <2>2 DEF KeyPress, Ready
  <2>6. Quiet' /\ Service'  BY <1>4, <2>2 DEF KeyPress, Quiet, Service
  <2>7. Requested'  BY <1>4, <2>2, <2>3 DEF KeyPress, Requested
  <2> QED  BY <2>4, <2>5, <2>6, <2>7
<1> QED  BY <1>3, <1>4

(* The CPU takes an interrupt: it is at its hlt, so everything is set up    *)
(* and the gate leads to the line's handler.                                *)
LEMMA HandlerTaken ==
  ASSUME NEW irq \in {TIMER, KEYBOARD}, IInv, Deliver(irq)
  PROVE  cpu' = IF irq = TIMER THEN "timer" ELSE "keyboard"
<1> USE DEF IInv
<1>1. step = "hlt"  BY DEF Deliver, Quiet
<1>2. /\ pic.base + irq = IF irq = TIMER THEN 32 ELSE 33
      /\ idt[32] = Gate("timer", 8, 142) /\ idt[33] = Gate("keyboard", 8, 142)
  BY <1>1 DEF Ready, AfterIdt, TIMER, KEYBOARD
<1>3. 8 \in DOMAIN gdt /\ gdt[8].ring = 0 /\ gdt[8].code
  BY <1>1 DEF Ready, AfterGdt, AfterTss, AfterIdt
<1> QED  BY <1>2, <1>3, GateWorks DEF Deliver, Usable

LEMMA DeliverKeeps ==
  ASSUME NEW irq \in {TIMER, KEYBOARD}, IInv, Deliver(irq)
  PROVE  IInv'
<1> USE DEF IInv
<1>1. step = "hlt" /\ pic.isr = {} /\ cpu = "main" /\ irq \in pic.irr
  BY DEF Deliver, Offered, Quiet, Service
<1>2. /\ pic' \in PicType /\ pic'.base = pic.base /\ pic'.isr = {irq}
      /\ pic'.irr = pic.irr \ {irq}
  <2>1. /\ pic.base \in Vector /\ pic.masked \in SUBSET Irq /\ pic.irr \in SUBSET Irq
        /\ pic = [base |-> pic.base, masked |-> pic.masked, irr |-> pic.irr, isr |-> pic.isr]
    BY <1>1 DEF TypeOK, PicType
  <2>2. irq \in Irq  BY DEF TIMER, KEYBOARD, Irq
  <2> DEFINE irr == pic.irr \ {irq}
             isr == pic.isr \cup {irq}
  <2>3. pic' = [pic EXCEPT !.irr = irr, !.isr = isr]  BY Zenon DEF Deliver
  <2>4. irr \in SUBSET Irq /\ isr \in SUBSET Irq /\ isr = {irq}
    BY <1>1, <2>1, <2>2
  <2> HIDE DEF irr, isr
  <2>5. pic' = [base |-> pic.base, masked |-> pic.masked, irr |-> irr, isr |-> isr]
    BY <2>1, <2>3
  <2>6. pic' \in PicType  BY <2>1, <2>4, <2>5, Zenon DEF PicType
  <2>7. pic'.base = pic.base /\ pic'.isr = isr /\ pic'.irr = irr  BY <2>5, Zenon
  <2> QED  BY <2>4, <2>6, <2>7, Zenon DEF irr
<1>3. cpu' = IF irq = TIMER THEN "timer" ELSE "keyboard"  BY HandlerTaken
<1>4. UNCHANGED <<step, gdt, tss, idt, pit, current_task, tick, keys>>
      /\ eflags_if' = FALSE /\ at' = "entry"
  BY DEF Deliver
<1>5. TypeOK'  BY <1>2, <1>3, <1>4 DEF TypeOK
<1>6. Ready'  BY <1>2, <1>4 DEF Ready
<1>7. Quiet'  BY <1>1, <1>4 DEF Quiet
<1>8. Service'  BY <1>2, <1>3, <1>4 DEF Service, TIMER, KEYBOARD
<1>9. Requested'  BY <1>1, <1>2, <1>3, <1>4 DEF Requested, TIMER, KEYBOARD
<1> QED  BY <1>5, <1>6, <1>7, <1>8, <1>9

(* The end of interrupt empties the in-service register when one line is in *)
(* it, and touches nothing else.                                            *)
LEMMA EndedEmpties ==
  ASSUME NEW irq \in {TIMER, KEYBOARD}, pic \in PicType, pic.isr = {irq}
  PROVE  /\ Ended(pic) \in PicType /\ Ended(pic).base = pic.base
         /\ Ended(pic).isr = {} /\ Ended(pic).irr = pic.irr
<1>1. {i \in pic.isr : \E other \in pic.isr : other < i} = {}
  BY DEF TIMER, KEYBOARD
<1> QED  BY <1>1 DEF Ended, PicType

(***************************************************************************)
(* The handlers run at the hlt of kernel_main, by Quiet.                    *)
(***************************************************************************)
LEMMA HandlersKeep == IInv /\ Handlers => IInv'
<1> SUFFICES ASSUME IInv, Handlers PROVE IInv'
  OBVIOUS
<1> USE DEF IInv
<1>1. pic \in PicType  BY DEF TypeOK
<1>2. step = "hlt" /\ cpu \in {"timer", "keyboard"}
  BY DEF Handlers, timer_handler_main, read_scancode, keyboard_eoi, peek_fault, iret, Quiet
<1>3. CASE timer_handler_main
  <2>1. pic.isr = {TIMER}  BY <1>3 DEF timer_handler_main, Service
  <2>2. pic' \in PicType /\ pic'.base = pic.base /\ pic'.isr = {} /\ pic'.irr = pic.irr
    BY <1>1, <1>3, <2>1, EndedEmpties DEF timer_handler_main
  <2>3. tick' \in 0 .. TickModulus - 1
    BY <1>3, TickFits DEF timer_handler_main, TypeOK
  <2>4. TypeOK'  BY <1>3, <2>2, <2>3 DEF timer_handler_main, TypeOK
  <2>5. Ready' /\ Quiet'  BY <1>2, <1>3, <2>2 DEF timer_handler_main, Ready, Quiet
  <2>6. Service' /\ Requested'
    BY <1>3, <2>2 DEF timer_handler_main, Service, Requested
  <2> QED  BY <2>4, <2>5, <2>6
<1>4. CASE read_scancode
  <2>1. keys > 0 /\ KEYBOARD \notin pic.irr  BY <1>4 DEF read_scancode, Requested
  <2>2. keys \in 0 .. KeyQueue /\ keys' = keys - 1  BY <1>4 DEF read_scancode, TypeOK
  <2>3. /\ pic' \in PicType /\ pic'.base = pic.base /\ pic'.isr = pic.isr
        /\ keys > 1 \/ pic'.irr = pic.irr
    BY <1>1, <1>4 DEF read_scancode, Raise, PicType, KEYBOARD, Irq
  <2>4. keys' \in 0 .. KeyQueue /\ (keys > 1 => keys' > 0)
    BY <2>1, <2>2, InterruptsAssumption
  <2>5. TypeOK'  BY <1>4, <2>3, <2>4 DEF read_scancode, TypeOK
  <2>6. Ready' /\ Quiet'  BY <1>2, <1>4, <2>3 DEF read_scancode, Ready, Quiet
  <2>7. Service'  BY <1>4, <2>3 DEF read_scancode, Service
  <2>8. Requested'
    BY <1>2, <1>4, <2>1, <2>3, <2>4 DEF read_scancode, Requested
  <2> QED  BY <2>5, <2>6, <2>7, <2>8
<1>5. CASE keyboard_eoi
  <2>1. pic.isr = {KEYBOARD}  BY <1>5 DEF keyboard_eoi, Service
  <2>2. pic' \in PicType /\ pic'.base = pic.base /\ pic'.isr = {} /\ pic'.irr = pic.irr
    BY <1>1, <1>5, <2>1, EndedEmpties DEF keyboard_eoi
  <2>3. TypeOK'  BY <1>5, <2>2 DEF keyboard_eoi, TypeOK
  <2>4. Ready' /\ Quiet'  BY <1>2, <1>5, <2>2 DEF keyboard_eoi, Ready, Quiet
  <2>5. Service' /\ Requested'  BY <1>5, <2>2 DEF keyboard_eoi, Service, Requested
  <2> QED  BY <2>3, <2>4, <2>5
<1>6. CASE peek_fault
  <2>1. /\ idt[PAGE_FAULT] = Gate("page_fault", 8, 142)
        /\ 8 \in DOMAIN gdt /\ gdt[8].ring = 0 /\ gdt[8].code
    BY <1>2 DEF Ready, AfterGdt, AfterTss, AfterIdt
  <2>2. cpu' = "halted"  BY <1>6, <2>1, GateWorks DEF peek_fault, Usable
  <2>3. TypeOK'  BY <1>6, <2>2 DEF peek_fault, TypeOK
  <2>4. Ready' /\ Quiet'  BY <1>2, <1>6 DEF peek_fault, Ready, Quiet
  <2>5. Service' /\ Requested'  BY <1>6, <2>2 DEF peek_fault, Service, Requested
  <2> QED  BY <2>3, <2>4, <2>5
<1>7. CASE iret
  <2>1. pic.isr = {}  BY <1>7 DEF iret, Service
  <2>2. TypeOK'  BY <1>7 DEF iret, TypeOK
  <2>3. Ready' /\ Quiet'  BY <1>2, <1>7 DEF iret, Ready, Quiet
  <2>4. Service' /\ Requested'  BY <1>7, <2>1 DEF iret, Service, Requested
  <2> QED  BY <2>2, <2>3, <2>4
<1> QED  BY <1>3, <1>4, <1>5, <1>6, <1>7 DEF Handlers

(* The inductive invariant holds whenever kernel_main is started.           *)
THEOREM Invariance == Spec => []IInv
<1>1. Init => IInv  BY InitIInv
<1>2. IInv /\ [Next]_vars => IInv'
  <2> SUFFICES ASSUME IInv, [Next]_vars PROVE IInv'
    OBVIOUS
  <2>1. CASE Next
    BY <2>1, BootKeeps, DevicesKeep, HandlersKeep, DeliverKeeps DEF Next
  <2>2. CASE UNCHANGED vars
    BY <2>2 DEF vars, IInv, TypeOK, Ready, Quiet, Service, Requested
  <2> QED  BY <2>1, <2>2
<1> QED  BY <1>1, <1>2, PTL DEF Spec

(* Every variable keeps its type; in particular the divisor fits the chip,  *)
(* and no scancode is read from an empty controller.                        *)
THEOREM TypeCorrect == Spec => []TypeOK
<1>1. IInv => TypeOK  BY DEF IInv
<1> QED  BY <1>1, Invariance, PTL

(* idt.c:46-58: whatever the hardware asks for, and when, the machine does  *)
(* not reset.                                                               *)
THEOREM NoReset == Spec => []NeverReset
<1>1. IInv => NeverReset  BY DEF IInv, Service, NeverReset
<1> QED  BY <1>1, Invariance, PTL

(* kernel.c:149-160: handlers find everything they use in place.            *)
THEOREM ReadyFirst == Spec => []NothingBeforeReady
<1>1. IInv => NothingBeforeReady
  <2> SUFFICES ASSUME IInv, cpu \in {"timer", "keyboard"} \/ tick > 0
               PROVE  tss >= TssBytes - 1 /\ current_task /\ step = "hlt"
    BY DEF NothingBeforeReady
  <2>1. step = "hlt"  BY DEF IInv, Quiet
  <2> QED  BY <2>1 DEF IInv, Ready, AfterTss, AfterIdt
<1> QED  BY <1>1, Invariance, PTL

(* interrupt.asm: handlers never nest and never return unacknowledged.      *)
THEOREM OneAtATime == Spec => []OneInService
<1>1. IInv => OneInService
  <2> SUFFICES ASSUME IInv PROVE OneInService
    OBVIOUS
  <2>1. pic.isr = {} \/ pic.isr = {TIMER} \/ pic.isr = {KEYBOARD}
    BY DEF IInv, TypeOK, Service
  <2>2. Cardinality({}) = 0 /\ Cardinality({TIMER}) = 1 /\ Cardinality({KEYBOARD}) = 1
    BY FS_EmptySet, FS_Singleton, Zenon
  <2>3. Cardinality(pic.isr) <= 1  BY <2>1, <2>2
  <2> QED  BY <2>3 DEF IInv, Service, OneInService
<1> QED  BY <1>1, Invariance, PTL
--------------------------------------------------------------------------------
(* idt.c:68: no step of the machine but the remap leaves a scancode waiting *)
(* without a request, whatever keys and ticks come in between.              *)
RequestKept == [][Forgotten' => Forgotten \/ idt_init]_vars

LEMMA StepKeepsRequest == IInv /\ [Next]_vars => (Forgotten' => Forgotten \/ idt_init)
<1> SUFFICES ASSUME IInv, [Next]_vars, ~idt_init, ~Forgotten
             PROVE  ~Forgotten'
  OBVIOUS
<1> USE DEF Forgotten
<1>1. /\ keys \in Nat /\ pic \in PicType
      /\ cpu = "keyboard" /\ at = "entry" => keys > 0
  BY InterruptsAssumption DEF IInv, TypeOK, Requested
<1>2. CASE UNCHANGED vars
  BY <1>2 DEF vars
<1>3. CASE kernel_main
  <2>1. keys' = keys /\ pic' = pic /\ cpu = "main"
    BY <1>3 DEF kernel_main, Boot, refuse, gdt_init, tss_flush, pit_init, memory_init,
                task_init, sti
  <2> QED  BY <2>1
<1>4. CASE PitEdge
  <2>1. pic'.irr = pic.irr \cup {TIMER}  BY <1>1, <1>4 DEF PitEdge, Raise, PicType
  <2> QED  BY <1>4, <2>1 DEF PitEdge
<1>5. CASE KeyPress
  <2>1. CASE keys = 0
    <3>1. pic'.irr = pic.irr \cup {KEYBOARD}
      BY <1>1, <1>5, <2>1 DEF KeyPress, Raise, PicType
    <3> QED  BY <3>1
  <2>2. CASE keys # 0
    BY <1>1, <1>5, <2>2 DEF KeyPress
  <2> QED  BY <2>1, <2>2
<1>6. CASE timer_handler_main \/ keyboard_eoi
  <2>1. pic'.irr = pic.irr  BY <1>1, <1>6 DEF timer_handler_main, keyboard_eoi, Ended, PicType
  <2>2. keys' = keys /\ ~(cpu = "keyboard" /\ at = "entry")
    BY <1>6 DEF timer_handler_main, keyboard_eoi
  <2> QED  BY <2>1, <2>2
<1>7. CASE peek_fault \/ iret
  BY <1>7 DEF peek_fault, iret
<1>8. CASE read_scancode
  <2>1. CASE keys > 1
    <3>1. pic'.irr = pic.irr \cup {KEYBOARD}
      BY <1>1, <1>8, <2>1 DEF read_scancode, Raise, PicType
    <3> QED  BY <3>1
  <2>2. CASE ~(keys > 1)
    BY <1>1, <1>8, <2>2 DEF read_scancode
  <2> QED  BY <2>1, <2>2
<1>9. ASSUME NEW irq \in {TIMER, KEYBOARD}, Deliver(irq)
      PROVE  ~Forgotten'
  <2>1. /\ keys' = keys /\ cpu = "main" /\ at' = "entry"
        /\ pic'.irr = pic.irr \ {irq}
    BY <1>1, <1>9 DEF Deliver, PicType
  <2>2. CASE irq = TIMER
    BY <2>1, <2>2 DEF TIMER, KEYBOARD
  <2>3. CASE irq = KEYBOARD
    <3>1. cpu' = "keyboard"  BY <1>9, <2>3, HandlerTaken DEF TIMER, KEYBOARD
    <3> QED  BY <2>1, <3>1
  <2> QED  BY <2>2, <2>3
<1> QED  BY <1>2, <1>3, <1>4, <1>5, <1>6, <1>7, <1>8, <1>9 DEF Next, Handlers

(* The remap is the only step that forgets a scancode.                      *)
THEOREM OnlyRemapForgets == Spec => RequestKept
<1>1. IInv /\ [Next]_vars => [Forgotten' => Forgotten \/ idt_init]_vars
  BY StepKeepsRequest
<1> QED  BY <1>1, Invariance, PTL DEF Spec, RequestKept
(* ... and what it forgot stays forgotten: no key struck later, no tick and *)
(* no handler brings the request back, so the keyboard is silent for good.  *)
SilentForGood == [][Forgotten => Forgotten']_vars

LEMMA StepStaysForgotten == IInv /\ [Next]_vars => (Forgotten => Forgotten')
<1> SUFFICES ASSUME IInv, [Next]_vars, Forgotten
             PROVE  Forgotten'
  OBVIOUS
<1> USE DEF Forgotten
<1>1. keys \in Nat /\ pic \in PicType  BY InterruptsAssumption DEF IInv, TypeOK
<1>2. CASE UNCHANGED vars
  BY <1>2 DEF vars
<1>3. CASE idt_init
  BY <1>3 DEF idt_init, pic_remap, Boot
<1>4. CASE kernel_main /\ ~idt_init
  <2>1. keys' = keys /\ pic' = pic /\ (cpu' = "main" \/ cpu' = "halted")
    BY <1>4 DEF kernel_main, Boot, refuse, gdt_init, tss_flush, pit_init, memory_init,
                task_init, sti
  <2> QED  BY <2>1
<1>5. CASE PitEdge
  <2>1. pic'.irr = pic.irr \cup {TIMER}  BY <1>1, <1>5 DEF PitEdge, Raise, PicType
  <2> QED  BY <1>5, <2>1 DEF PitEdge, TIMER, KEYBOARD
<1>6. CASE KeyPress
  BY <1>1, <1>6 DEF KeyPress
<1>7. CASE timer_handler_main \/ keyboard_eoi
  <2>1. pic'.irr = pic.irr  BY <1>1, <1>7 DEF timer_handler_main, keyboard_eoi, Ended, PicType
  <2> QED  BY <1>7, <2>1 DEF timer_handler_main, keyboard_eoi
<1>8. CASE peek_fault \/ iret
  BY <1>8 DEF peek_fault, iret
<1>9. CASE read_scancode
  BY <1>9 DEF read_scancode
<1>10. ASSUME NEW irq \in {TIMER, KEYBOARD}, Deliver(irq)
       PROVE  Forgotten'
  <2>1. irq \in pic.irr  BY <1>10 DEF Deliver, Offered
  <2>2. cpu' = "timer"  BY <1>10, <2>1, HandlerTaken
  <2>3. keys' = keys /\ pic'.irr = pic.irr \ {irq}  BY <1>1, <1>10 DEF Deliver, PicType
  <2> QED  BY <2>2, <2>3
<1> QED  BY <1>2, <1>3, <1>4, <1>5, <1>6, <1>7, <1>8, <1>9, <1>10 DEF Next, Handlers

(* A forgotten scancode is never asked for again.                           *)
THEOREM ForgottenForGood == Spec => SilentForGood
<1>1. IInv /\ [Next]_vars => [Forgotten => Forgotten']_vars
  BY StepStaysForgotten
<1> QED  BY <1>1, Invariance, PTL DEF Spec, SilentForGood
================================================================================
