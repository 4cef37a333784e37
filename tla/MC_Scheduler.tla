----------------------------- MODULE MC_Scheduler -----------------------------
(* The kernel alone; one ring 3 task with the PCB of task.h; two, with PCBs  *)
(* that record the top of the kernel stack.                                  *)
EXTENDS Scheduler
Completed(tasks, records) ==
  [tasks |-> tasks, returns |-> TRUE, records |-> records, segments |-> tasks > 0]
MCBuilds == {Completed(0, FALSE), Completed(1, FALSE), Completed(2, TRUE)}
(* The kernel alone, with timer_handler_main as it is declared. *)
MCDeclared == {[Completed(0, TRUE) EXCEPT !.returns = FALSE]}
(* Two tasks and the PCB of task.h; two tasks and the stubs as they are. *)
MCShared == {Completed(2, FALSE)}
MCStubs == {[Completed(2, TRUE) EXCEPT !.segments = FALSE]}
================================================================================
