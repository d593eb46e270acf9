----------------------------- MODULE MCResponseTime -----------------------------
(* Two threads over all small periods, execution times and priorities with one *)
(* interrupt; deadlines up to the period; ties of equal rank left out.         *)
EXTENDS ResponseTime, TLC

Thread(T, C, J, B, D, p) ==
    [period |-> T, exec |-> C, jitter |-> J, blocking |-> B, deadline |-> D, priority |-> p]
Isr(T, C) == Thread(T, C, 0, 0, 0, Undeclared)

Urgent ==
    {Thread(T, C, J, 0, T, p) : T \in 3..4, C \in 1..2, J \in 0..1, p \in {Undeclared, 2}}
    \cup {Thread(4, 1, 1, 1, 3, 2), Thread(3, 2, 2, 0, 3, Undeclared)}
Other ==
    {Thread(T, C, 0, B, T, p) : T \in {5, 6}, C \in 1..3, B \in 0..1, p \in {Undeclared, 1, 3}}
    \cup {Thread(6, 1, 2, 0, 5, Undeclared)}

Absent == Thread(8, 0, 0, 1, 8, Undeclared)
Background == Thread(8, 2, 0, 1, 8, Undeclared)

MCWorkloads ==
    {(1 :> a @@ 2 :> b @@ 3 :> Absent @@ 9 :> i) :
        a \in Urgent, b \in Other, i \in {Isr(6, 0), Isr(7, 1)}}
    \cup
    {(1 :> a @@ 2 :> b @@ 3 :> Background @@ 9 :> Isr(7, 1)) :
        a \in {x \in Urgent : x.exec = 1},
        b \in {x \in Other : x.exec = 1 /\ x.period = 5 /\ x.priority # 1}}

(* Two threads that do not overload the processor, the second with a deadline  *)
(* longer than its period.                                                     *)
LongDeadlines ==
    {(1 :> Thread(T, 3, 0, 0, T, Undeclared) @@ 2 :> Thread(U, C, 0, 0, U + 1, Undeclared)
        @@ 9 :> Isr(6, 0)) :
            T \in {6, 8}, <<U, C>> \in {<<9, 4>>, <<10, 5>>, <<13, 8>>}}
WithinCapacity == {x \in LongDeadlines : x[1].exec * x[2].period + x[2].exec * x[1].period
                                            <= x[1].period * x[2].period}
================================================================================
