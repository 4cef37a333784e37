------------------------------- MODULE RoundRobin -------------------------------
(***************************************************************************)
(* What the scheduler promises: a queue of tasks whose first one runs.  A    *)
(* tick sends it to the back; a new task is put behind the one that makes    *)
(* it.  Nothing is lost, nobody is passed over, and nothing runs that is     *)
(* not a task.  Contexts, stacks and pointers do not appear.                 *)
(***************************************************************************)
EXTENDS Sequences, SequencesExt

CONSTANT Task

VARIABLE queue

Init == queue = <<>>

First(t) == queue = <<>> /\ queue' = <<t>>

Create(t) == /\ queue # <<>> /\ t \notin ToSet(queue)
             /\ queue' = InsertAt(queue, 2, t)

Tick == queue # <<>> /\ queue' = Append(Tail(queue), Head(queue))

Next == Tick \/ \E t \in Task : First(t) \/ Create(t)

Spec == Init /\ [][Next]_queue
================================================================================
