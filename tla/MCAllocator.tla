------------------------------- MODULE MCAllocator -------------------------------
(* Periods divide Unit; utilizations range from none over exact fits (1/6, 1/3, *)
(* 1/2, 2/3) to more than a whole processor; a missing Period; deadlines equal  *)
(* to, shorter than and impossible within the period.                           *)
EXTENDS Allocator

Task(w, p, d, b) == [wcet |-> w, period |-> p, deadline |-> d, binding |-> b]

MCTasks ==
    {Task(w, 6, 6, None) : w \in {0, 1, 2, 3, 4, 7}}
    \cup {Task(w, 6, 6, 1) : w \in {2, 4}}
    \cup {Task(1, 2, 2, Unknown), Task(1, 0, 0, None), Task(1, 3, 2, None), Task(2, 3, 1, 2)}
==================================================================================
