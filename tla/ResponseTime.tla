------------------------------ MODULE ResponseTime ------------------------------
(***************************************************************************)
(* Response-time analysis of one processor (spar-analysis, rta.rs and      *)
(* scheduling_verified.rs), and the processor it makes a claim about: a    *)
(* fixed-priority preemptive scheduler with sporadic releases, release     *)
(* jitter, interrupts and bounded blocking, run after the analysis on the  *)
(* same threads.                                                           *)
(*                                                                         *)
(* Time is counted in ticks.  u64 arithmetic saturates at MaxU64.          *)
(***************************************************************************)
EXTENDS Integers, Sequences, FiniteSets, FiniteSetsExt

CONSTANTS
    Threads,        \* the threads of the processor, in instance order
    Isrs,           \* its interrupt service routines
    Workloads,      \* possible inputs: a record per thread and per ISR
    Undeclared,     \* no Priority property
    NoThread,
    Pending,        \* not analysed yet
    Diverged,       \* RtaResult::Diverged
    MaxU64,         \* u64::MAX
    MaxPending,     \* bound: unfinished jobs of one thread
    MaxAge          \* bound: a job's age is counted up to here

(* A period is positive.  The code accepts a Period of 0 (rta.rs:289) and      *)
(* panics on dividing by it where such a thread or ISR interferes              *)
(* (scheduling_verified.rs:31); those inputs are left out.                     *)
Timing == [period : Nat \ {0}, exec : Nat, jitter : Nat, blocking : Nat,
           deadline : Nat, priority : Nat \cup {Undeclared}]

ASSUME RtaAssumption ==
    /\ IsFiniteSet(Threads) /\ IsFiniteSet(Isrs)
    /\ Threads \subseteq Nat
    /\ Threads \cap Isrs = {}
    /\ NoThread \notin Threads
    /\ Pending # Diverged /\ {Pending, Diverged} \cap Nat = {}
    /\ MaxU64 \in Nat /\ MaxPending \in Nat \ {0} /\ MaxAge \in Nat
    /\ \A w \in Workloads : w \in [Threads \cup Isrs -> Timing]
    /\ \A w \in Workloads, k \in Isrs : w[k].jitter = 0 /\ w[k].blocking = 0

VARIABLES
    w,          \* RtaThreadInfo of each thread, IsrInfo of each ISR
    phase,      \* "analyse" or "execute"
    todo,       \* threads the analysis has still to reach
    cur,        \* the thread whose recurrence is iterated
    r,          \* its current response time
    n,          \* iterations of its loop so far
    verdict,    \* per thread: the response time, Diverged or Pending
    jobs,       \* execution: unfinished jobs, oldest first
    gap,        \* execution: ticks since the last arrival, up to the period
    section     \* execution: the critical section in progress

vars == <<w, phase, todo, cur, r, n, verdict, jobs, gap, section>>

Init ==
    /\ w \in Workloads
    /\ phase = "analyse" /\ todo = Threads
    /\ cur = NoThread /\ r = 0 /\ n = 0
    /\ verdict = [t \in Threads |-> Pending]
    /\ jobs = [k \in Threads \cup Isrs |-> <<>>]
    /\ gap = [k \in Threads \cup Isrs |-> w[k].period]
    /\ section = [length |-> 0, left |-> 0]

--------------------------------------------------------------------------------
(* Mutant: a smaller Priority value is the higher priority (as before #526). *)
dispatch_order_Smaller(a, b) ==
    LET pa == w[a].priority
        pb == w[b].priority
    IN  \/ pa # Undeclared /\ pb = Undeclared
        \/ pa # Undeclared /\ pb # Undeclared /\ pa < pb
        \/ pa = Undeclared /\ pb = Undeclared /\ w[a].period < w[b].period

(* dispatch_order: a declared Priority before none, a larger one first, and  *)
(* rate-monotonic among undeclared ones.                                     *)
dispatch_order(a, b) ==
    LET pa == w[a].priority
        pb == w[b].priority
    IN  \/ pa # Undeclared /\ pb = Undeclared
        \/ pa # Undeclared /\ pb # Undeclared /\ pa > pb
        \/ pa = Undeclared /\ pb = Undeclared /\ w[a].period < w[b].period

(* sort_by is stable: threads that compare equal stay in instance order. *)
SortsBefore(a, b) == dispatch_order(a, b) \/ (~dispatch_order(b, a) /\ a < b)
IsNext(t) == t \in todo /\ \A u \in todo \ {t} : SortsBefore(t, u)
higher_priority(t) == {u \in Threads : SortsBefore(u, t)}

sat(x) == IF x > MaxU64 THEN MaxU64 ELSE x
ceil_div(a, b) == (a + b - 1) \div b

interference_jittered(k, x) == sat(ceil_div(sat(x + w[k].jitter), w[k].period) * w[k].exec)

(* The saturating sum of saturating terms. *)
total_interference(S, x) == sat(SumFunction([k \in S |-> interference_jittered(k, x)]))

StartValue(t) == sat(w[t].exec + w[t].jitter + w[t].blocking)

rta_step_jittered_blocking(t, x) ==
    sat(StartValue(t) + total_interference(higher_priority(t) \cup Isrs, x))

executionVars == <<jobs, gap, section>>

Decide(t, v) ==
    /\ verdict' = [verdict EXCEPT ![t] = v]
    /\ todo' = todo \ {t}
    /\ cur' = NoThread
    /\ UNCHANGED <<r, n>>

(* Mutant: the start value is not compared with the deadline. *)
StartThread_NoCheck(t) ==
    /\ phase = "analyse" /\ cur = NoThread
    /\ IsNext(t)
    /\ cur' = t /\ r' = StartValue(t) /\ n' = 0
    /\ UNCHANGED <<w, phase, verdict, todo, executionVars>>

(* compute_response_time_jittered_blocking before its loop. *)
StartThread(t) ==
    /\ phase = "analyse" /\ cur = NoThread
    /\ IsNext(t)
    /\ IF StartValue(t) > w[t].deadline
         THEN Decide(t, Diverged)
         ELSE cur' = t /\ r' = StartValue(t) /\ n' = 0 /\ UNCHANGED <<verdict, todo>>
    /\ UNCHANGED <<w, phase, executionVars>>

(* Mutant: a response time equal to the deadline is rejected. *)
Iterate_Strict ==
    /\ cur # NoThread
    /\ LET new_r == rta_step_jittered_blocking(cur, r)
       IN  IF new_r >= w[cur].deadline \/ n = w[cur].deadline THEN Decide(cur, Diverged)
           ELSE IF new_r = r THEN Decide(cur, r)
           ELSE r' = new_r /\ n' = n + 1 /\ UNCHANGED <<verdict, todo, cur>>
    /\ UNCHANGED <<w, phase, executionVars>>

(* Mutant: the previous iterate decides. *)
Iterate_Early ==
    /\ cur # NoThread
    /\ LET new_r == rta_step_jittered_blocking(cur, r)
       IN  IF new_r <= w[cur].deadline THEN Decide(cur, new_r) ELSE Decide(cur, Diverged)
    /\ UNCHANGED <<w, phase, executionVars>>

(* One iteration of the loop over 0..=deadline; leaving it is divergence. *)
Iterate ==
    /\ cur # NoThread
    /\ LET new_r == rta_step_jittered_blocking(cur, r)
       IN  IF new_r = r THEN Decide(cur, r)
           ELSE IF new_r > w[cur].deadline \/ n = w[cur].deadline THEN Decide(cur, Diverged)
           ELSE r' = new_r /\ n' = n + 1 /\ UNCHANGED <<verdict, todo, cur>>
    /\ UNCHANGED <<w, phase, executionVars>>

(* The loop over the threads is over.  The response bands and the interrupt    *)
(* chains, which only add to the report, are left out.                         *)
Analysed ==
    /\ phase = "analyse" /\ todo = {} /\ cur = NoThread
    /\ phase' = "execute"
    /\ UNCHANGED <<w, todo, cur, r, n, verdict, executionVars>>

--------------------------------------------------------------------------------
(* The processor.  A thread is released no more often than once a period and *)
(* becomes ready up to its jitter later; an ISR preempts every thread; a     *)
(* thread of larger Priority preempts one of smaller Priority.               *)

analysisVars == <<w, phase, todo, cur, r, n, verdict>>
Job(k, wait) == [age |-> 0, left |-> w[k].exec, wait |-> wait]

Arrive(k, wait) ==
    /\ phase = "execute"
    /\ gap[k] >= w[k].period /\ w[k].exec > 0
    /\ Len(jobs[k]) < MaxPending
    /\ wait <= w[k].jitter
    /\ jobs' = [jobs EXCEPT ![k] = Append(@, Job(k, wait))]
    /\ gap' = [gap EXCEPT ![k] = 0]
    /\ UNCHANGED <<analysisVars, section>>

Ready == {k \in DOMAIN jobs : jobs[k] # <<>> /\ Head(jobs[k]).wait = 0}

(* What AADL says of a, b: a pre-empts b. *)
Preempts(a, b) ==
    \/ a \in Isrs /\ b \in Threads
    \/ /\ a \in Threads /\ b \in Threads
       /\ \/ w[a].priority # Undeclared /\ w[b].priority = Undeclared
          \/ w[a].priority # Undeclared /\ w[b].priority # Undeclared /\ w[a].priority > w[b].priority
          \/ w[a].priority = Undeclared /\ w[b].priority = Undeclared /\ w[a].period < w[b].period

Older(j) == [j EXCEPT !.age = IF @ < MaxAge THEN @ + 1 ELSE @, !.wait = IF @ > 0 THEN @ - 1 ELSE 0]

(* One tick passes for every job and every period; s is what remains of each *)
(* thread's jobs.                                                            *)
Elapse(s) ==
    /\ jobs' = [k \in DOMAIN jobs |-> [i \in DOMAIN s[k] |-> Older(s[k][i])]]
    /\ gap' = [k \in DOMAIN gap |-> IF gap[k] < w[k].period THEN gap[k] + 1 ELSE gap[k]]
    /\ UNCHANGED analysisVars

Served(q) == IF Head(q).left = 1 THEN Tail(q) ELSE [q EXCEPT ![1].left = @ - 1]

(* The processor executes the oldest job of k for one tick. *)
Run(k) ==
    /\ phase = "execute"
    /\ k \in Ready /\ ~ \E h \in Ready : Preempts(h, k)
    /\ Elapse([jobs EXCEPT ![k] = Served(@)])
    /\ UNCHANGED section

(* A lower-priority thread takes a lock while no thread is ready. *)
Lock(length) ==
    /\ phase = "execute"
    /\ Ready = {} /\ section.left = 0
    /\ section' = [length |-> length, left |-> length]
    /\ UNCHANGED <<analysisVars, jobs, gap>>

(* Its critical section delays a thread only as long as that thread, and     *)
(* every one between it and the lock's holder, declare to be blocked.        *)
Hold ==
    /\ phase = "execute"
    /\ section.left > 0
    /\ Ready \subseteq Threads
    /\ \A k \in Ready, u \in Threads :
          u = k \/ Preempts(k, u) => w[u].blocking >= section.length
    /\ Elapse(jobs)
    /\ section' = [section EXCEPT !.left = @ - 1]

Idle ==
    /\ phase = "execute"
    /\ Ready = {} /\ section.left = 0
    /\ Elapse(jobs)
    /\ UNCHANGED section

Next ==
    \/ \E t \in Threads : StartThread(t)
    \/ Iterate
    \/ Analysed
    \/ \E k \in Threads \cup Isrs : Run(k) \/ \E wait \in 0..w[k].jitter : Arrive(k, wait)
    \/ \E length \in {w[t].blocking : t \in Threads} \ {0} : Lock(length)
    \/ Hold
    \/ Idle

Spec == Init /\ [][Next]_vars

--------------------------------------------------------------------------------
(* The recurrence without the width of u64. *)
ExactStep(t, x) ==
    w[t].exec + w[t].jitter + w[t].blocking
        + SumFunction([k \in higher_priority(t) \cup Isrs |->
                          ceil_div(x + w[k].jitter, w[k].period) * w[k].exec])

accepted(t) == verdict[t] \notin {Pending, Diverged}

(* Every variable keeps its shape; the iterate stays within the deadline.    *)
TypeOK ==
    /\ DOMAIN w = Threads \cup Isrs
    /\ phase \in {"analyse", "execute"} /\ todo \subseteq Threads
    /\ cur \in Threads \cup {NoThread} /\ r \in 0..MaxU64
    /\ (cur # NoThread => r <= w[cur].deadline /\ n <= w[cur].deadline)
    /\ \A t \in Threads : accepted(t) => verdict[t] \in 0..w[t].deadline
    /\ \A k \in Threads \cup Isrs : Len(jobs[k]) <= MaxPending /\ gap[k] \in 0..w[k].period

(* The deadline, with any jitter added, is a u64 that is not u64::MAX: the   *)
(* "deadline-bounded values" for which the header calls saturation sound.    *)
InRange(t) ==
    /\ w[t].deadline < MaxU64
    /\ \A k \in higher_priority(t) : w[t].deadline + w[k].jitter <= MaxU64

(* An accepted response time is the least fixed point of the recurrence over *)
(* the naturals: iteration skips none, and saturation does not produce one   *)
(* within range (scheduling_verified.rs 25-26, 232-263).                     *)
LeastFixedPoint ==
    phase = "analyse" => \A t \in Threads : accepted(t) =>
        /\ InRange(t) => ExactStep(t, verdict[t]) = verdict[t]
        /\ \A x \in 0..verdict[t] - 1 : ExactStep(t, x) # x

(* A thread is rejected only when the recurrence has no fixed point within   *)
(* the deadline: the loop of deadline + 1 iterations never ends too early    *)
(* (scheduling_verified.rs 232-263).                                         *)
RejectsOnlyDivergence ==
    phase = "analyse" => \A t \in Threads : verdict[t] = Diverged =>
        \A x \in 0..w[t].deadline : ExactStep(t, x) # x

(* The analysis is conservative: whatever the releases, jitter, interrupts   *)
(* and blocking, no job of an accepted thread is still unfinished at the     *)
(* response time computed for it, and rejected threads do not spoil that     *)
(* (rta.rs 437-520; safety/stpa/solver-analysis.yaml, SC-S2).                *)
ResponseBounded ==
    \A t \in Threads : accepted(t) => \A i \in DOMAIN jobs[t] : jobs[t][i].age < verdict[t]

(* SC-S2 (safety/stpa/solver-analysis.yaml 309-312): the schedulability      *)
(* analysis "must never accept a task set that could miss deadlines".        *)
AcceptedMeetDeadlines ==
    (\A t \in Threads : accepted(t)) =>
        \A t \in Threads : \A i \in DOMAIN jobs[t] : jobs[t][i].age < w[t].deadline

================================================================================
