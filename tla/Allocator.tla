------------------------------- MODULE Allocator --------------------------------
(***************************************************************************)
(* Thread-to-processor allocation (spar-solver): the bin-packing heuristic *)
(* of allocate.rs with its two strategies and its impact analysis, and, as *)
(* the exact solver it is compared with, what solve_milp of milp.rs        *)
(* promises.                                                               *)
(*                                                                         *)
(* Threads are numbered in name order, the order ModelConstraints sorts    *)
(* them in, and so are processors.  A utilization WCET / Period is a whole *)
(* number of units, a processor holding Unit of them: the model is exact   *)
(* where the code rounds to f64.                                           *)
(***************************************************************************)
EXTENDS Integers, FiniteSets, Functions

CONSTANTS
    Threads,    \* thread instances, as positions in name order
    MaxProcs,   \* bound: number of processor instances
    Tasks,      \* possible ThreadConstraints: wcet, period, deadline, binding
    None,       \* no current_binding
    Unknown,    \* a current_binding that names no processor
    Unit        \* utilization 1.0

Processors == 1..MaxProcs

ASSUME AllocatorAssumption ==
    /\ Threads \subseteq Nat /\ IsFiniteSet(Threads)
    /\ MaxProcs \in Nat
    /\ Unit \in Nat \ {0}
    /\ None \notin Processors \cup {Unknown} /\ Unknown \notin Processors
    /\ Tasks \subseteq [wcet : Nat, period : Nat, deadline : Nat,
                        binding : Processors \cup {None, Unknown}]
    /\ \A k \in Tasks : k.period > 0 => Unit % k.period = 0

VARIABLES
    tc,             \* ModelConstraints::threads
    nprocs,         \* number of ModelConstraints::processors
    strategy,       \* Strategy
    phase,          \* "start", "place" or "done"
    pre_bound,      \* threads of the first placement loop still to come
    unbound,        \* threads of the second placement loop still to come
    used,           \* utilization per processor
    bound,          \* bindings: the processor of each thread, or None
    unallocated,    \* AllocationResult::unallocated
    schedulable     \* ImpactAnalysis::schedulable

vars == <<tc, nprocs, strategy, phase, pre_bound, unbound, used, bound, unallocated, schedulable>>
input == <<tc, nprocs, strategy>>

procs == 1..nprocs

Util(t) == tc[t].wcet * (Unit \div tc[t].period)

(* sort_fn: utilization descending, then name ascending. *)
Before(a, b) == Util(a) > Util(b) \/ (Util(a) = Util(b) /\ a < b)
IsFirst(t, S) == t \in S /\ \A u \in S \ {t} : Before(t, u)

(* Mutant: every thread is compared with an empty processor. *)
Fits_Alone(t, p) == Util(t) <= Unit

Fits(t, p) == used[p] + Util(t) <= Unit

Init ==
    /\ tc \in [Threads -> Tasks]
    /\ nprocs \in 0..MaxProcs
    /\ \A t \in Threads : tc[t].binding \in 1..nprocs \cup {None, Unknown}
    /\ strategy \in {"FirstFit", "BestFit"}
    /\ phase = "start"
    /\ pre_bound = {} /\ unbound = {}
    /\ used = [p \in Processors |-> 0]
    /\ bound = [t \in Threads |-> None]
    /\ unallocated = {}
    /\ schedulable = FALSE

NoProcessors ==
    /\ phase = "start"
    /\ nprocs = 0 /\ Threads # {}
    /\ unallocated' = Threads
    /\ phase' = "place"
    /\ UNCHANGED <<input, pre_bound, unbound, used, bound, schedulable>>

(* Threads without a period are left out, with a warning. *)
Split ==
    /\ phase = "start"
    /\ nprocs # 0 \/ Threads = {}
    /\ pre_bound' = {t \in Threads : tc[t].period # 0 /\ tc[t].binding # None}
    /\ unbound' = {t \in Threads : tc[t].period # 0 /\ tc[t].binding = None}
    /\ phase' = "place"
    /\ UNCHANGED <<input, used, bound, unallocated, schedulable>>

(* The thread goes to p, or to unallocated when p is None. *)
Place(t, p) ==
    IF p = None
      THEN /\ unallocated' = unallocated \cup {t}
           /\ UNCHANGED <<bound, used>>
      ELSE /\ bound' = [bound EXCEPT ![t] = p]
           /\ used' = [used EXCEPT ![p] = @ + Util(t)]
           /\ UNCHANGED unallocated

(* Mutant: a thread whose processor is full is moved to another. *)
PlacePreBound_Moved(t) ==
    /\ phase = "place"
    /\ IsFirst(t, pre_bound)
    /\ pre_bound' = pre_bound \ {t}
    /\ LET S == {p \in procs : Fits(t, p)}
       IN  Place(t, IF S = {} THEN None ELSE IF tc[t].binding \in S THEN tc[t].binding
                    ELSE CHOOSE p \in S : TRUE)
    /\ UNCHANGED <<input, phase, unbound, schedulable>>

PlacePreBound(t) ==
    /\ phase = "place"
    /\ IsFirst(t, pre_bound)
    /\ pre_bound' = pre_bound \ {t}
    /\ LET target == tc[t].binding
       IN  Place(t, IF target \in procs /\ Fits(t, target) THEN target ELSE None)
    /\ UNCHANGED <<input, phase, unbound, schedulable>>

Candidates(t) == {p \in procs : Fits(t, p)}

(* Mutants: the last processor that fits; a processor may not be filled up. *)
FirstFit_Last(t) ==
    IF Candidates(t) = {} THEN None
    ELSE CHOOSE p \in Candidates(t) : \A q \in Candidates(t) : p >= q

FirstFit_Strict(t) ==
    LET S == {p \in procs : used[p] + Util(t) < Unit}
    IN  IF S = {} THEN None ELSE CHOOSE p \in S : \A q \in S : p <= q

FirstFit(t) ==
    IF Candidates(t) = {} THEN None
    ELSE CHOOSE p \in Candidates(t) : \A q \in Candidates(t) : p <= q

(* Mutant: the emptiest processor that fits. *)
BestFit_Worst(t) ==
    IF Candidates(t) = {} THEN None
    ELSE CHOOSE p \in Candidates(t) : \A q \in Candidates(t) : used[p] <= used[q]

(* max_by keeps the last of several maxima. *)
BestFit(t) ==
    IF Candidates(t) = {} THEN None
    ELSE CHOOSE p \in Candidates(t) :
            \A q \in Candidates(t) \ {p} : used[q] < used[p] \/ (used[q] = used[p] /\ q < p)

PlaceUnbound(t) ==
    /\ phase = "place" /\ pre_bound = {}
    /\ IsFirst(t, unbound)
    /\ unbound' = unbound \ {t}
    /\ Place(t, IF strategy = "FirstFit" THEN FirstFit(t) ELSE BestFit(t))
    /\ UNCHANGED <<input, phase, pre_bound, schedulable>>

(* impact: the utilization of n threads exceeds n * (2^(1/n) - 1). *)
OnProc(p) == {t \in Threads : bound[t] = p}
ExceedsRma(p) ==
    LET n == Cardinality(OnProc(p)) IN (used[p] + n * Unit)^n > 2 * (n * Unit)^n

DeadlineViolation(t) ==
    /\ bound[t] # None
    /\ tc[t].deadline > 0 /\ tc[t].deadline < tc[t].period
    /\ ExceedsRma(bound[t])

Report ==
    /\ phase = "place" /\ pre_bound = {} /\ unbound = {}
    /\ phase' = "done"
    /\ schedulable' = /\ \A p \in procs : used[p] <= Unit
                      /\ unallocated = {}
                      /\ ~ \E t \in Threads : DeadlineViolation(t)
    /\ UNCHANGED <<input, pre_bound, unbound, used, bound, unallocated>>

Terminated == phase = "done" /\ UNCHANGED vars

Next ==
    \/ NoProcessors
    \/ Split
    \/ \E t \in Threads : PlacePreBound(t) \/ PlaceUnbound(t)
    \/ Report
    \/ Terminated

Spec == Init /\ [][Next]_vars

--------------------------------------------------------------------------------
(* What solve_milp promises: an assignment of the valid threads that         *)
(* respects the capacities and the bindings to known processors, with the    *)
(* least maximal utilization; an error when there is none.                   *)
Valid == {t \in Threads : tc[t].period > 0}
Demand == [t \in Valid |-> Util(t)]
LoadUnder(a, p) == SumFunctionOnSet(Demand, {t \in Valid : a[t] = p})
MilpFeasible ==
    {a \in [Valid -> procs] :
        /\ \A p \in procs : LoadUnder(a, p) <= Unit
        /\ \A t \in Valid : tc[t].binding \in procs => a[t] = tc[t].binding}

--------------------------------------------------------------------------------
feasible == unallocated = {}

(* Every variable keeps its shape, and no thread is in both placement loops.  *)
(* A part of the invariant proved in AllocatorProofs.                         *)
TypeOK ==
    /\ tc \in [Threads -> Tasks] /\ nprocs \in 0..MaxProcs
    /\ strategy \in {"FirstFit", "BestFit"} /\ phase \in {"start", "place", "done"}
    /\ pre_bound \subseteq Threads /\ unbound \subseteq Threads
    /\ used \in [Processors -> Nat]
    /\ bound \in [Threads -> Processors \cup {None}]
    /\ unallocated \subseteq Threads
    /\ schedulable \in BOOLEAN
    /\ pre_bound \cap unbound = {}

(* No processor is loaded beyond its capacity, at any point of a placement.  *)
NoOverload == \A p \in Processors : used[p] <= Unit

(* The result accounts for every thread with a period: it is bound, or       *)
(* listed as unallocated, and never both; a pre-bound thread is never moved  *)
(* to another processor (allocate.rs 224-296).                               *)
Accounted ==
    phase = "done" =>
        \A t \in Threads :
            /\ bound[t] # None => t \notin unallocated
            /\ tc[t].period > 0 /\ bound[t] = None => t \in unallocated
            /\ tc[t].binding # None => bound[t] \in {None, tc[t].binding}

(* A thread without a binding is given up only when it fits on no processor, *)
(* and later placements do not make room (allocate.rs 253-296).              *)
UnallocatedFitsNowhere ==
    \A t \in unallocated : tc[t].binding = None /\ tc[t].period > 0 =>
        \A p \in procs : ~Fits(t, p)

(* First fit: at the end, a thread it placed would not fit on any processor  *)
(* before its own (allocate.rs 255-268).                                     *)
FirstFitInOrder ==
    strategy = "FirstFit" =>
        \A t \in Threads : tc[t].binding = None /\ bound[t] # None =>
            \A q \in procs : q < bound[t] => ~Fits(t, q)

(* Neither strategy spreads threads over processors it need not open: of the *)
(* processors that hold only threads the allocator placed, at most one is    *)
(* loaded to half or less (allocate.rs 253-296).                             *)
OwnOnly(p) == OnProc(p) # {} /\ \A t \in OnProc(p) : tc[t].binding = None
PacksTightly ==
    \A p, q \in procs :
        p # q /\ OwnOnly(p) /\ OwnOnly(q) => 2 * used[p] > Unit \/ 2 * used[q] > Unit

(* Where the heuristic allocates every thread the exact solver does too, and *)
(* its objective is no worse (milp.rs 331-372, milp_optimal_better_than_ffd). *)
MilpDominates ==
    phase = "done" /\ feasible /\ procs # {} =>
        \E a \in MilpFeasible :
            \A p \in procs : \E q \in procs : LoadUnder(a, p) <= used[q]

(* What the state says in the terms of Placement. *)
Need == [t \in Threads |-> IF t \in Valid THEN Util(t) ELSE 0]
Allowed == [t \in Threads |-> IF tc[t].binding = None THEN procs ELSE {tc[t].binding} \cap procs]
Room == [p \in Processors |-> Unit - used[p]]
Pending == IF phase = "start" THEN Threads ELSE pre_bound \cup unbound

Abstract ==
    INSTANCE Placement WITH
        Jobs <- Threads, Places <- Processors, NoPlace <- None,
        timed <- Valid, need <- Need, allowed <- Allowed, room <- Room,
        place <- bound, pending <- Pending, refused <- unallocated

(* The allocator implements Placement, under either strategy: the steps of both  *)
(* loops decide each thread once, on a processor its binding allows and that has *)
(* room, or give it up for good because none has (allocate.rs 186-300).          *)
Implements == Abstract!Spec

================================================================================
