--------------------------- MODULE ResponseTimeProofs ---------------------------
(***************************************************************************)
(* The response-time iteration of any number of threads and interrupts:    *)
(* what it accepts is the least fixed point of the recurrence, and what it *)
(* rejects has none within the deadline.                                   *)
(*                                                                         *)
(* The step is monotone and never above the exact one, so the iterates     *)
(* stay below every exact fixed point and grow strictly until they stop.   *)
(***************************************************************************)
EXTENDS ResponseTime, SumTheorems

--------------------------------------------------------------------------------
(* Arithmetic.                                                               *)

LEMMA CeilMonotone ==
    ASSUME NEW a \in Nat, NEW b \in Nat, NEW p \in Nat \ {0}, a <= b
    PROVE  ceil_div(a, p) \in Nat /\ ceil_div(b, p) \in Nat /\ ceil_div(a, p) <= ceil_div(b, p)
BY DivMonotone DEF ceil_div

(* Saturation keeps the order and only ever lowers a value. *)
LEMMA SatMonotone ==
    ASSUME NEW a \in Nat, NEW b \in Nat, a <= b
    PROVE  /\ sat(a) \in Nat /\ sat(b) \in Nat
           /\ sat(a) <= sat(b) /\ sat(a) <= a /\ sat(a) <= MaxU64
           /\ sat(a) < MaxU64 \/ a <= MaxU64 => sat(a) = a
BY RtaAssumption DEF sat

--------------------------------------------------------------------------------
(* The recurrence.                                                           *)

(* What delays t, and the exact interference of one of them. *)
Delaying(t) == higher_priority(t) \cup Isrs
Exact(k, x) == ceil_div(x + w[k].jitter, w[k].period) * w[k].exec

(* The threads and interrupts keep their declared timing. *)
LEMMA Timings ==
    ASSUME w \in Workloads, NEW k \in Threads \cup Isrs
    PROVE  /\ w[k].period \in Nat \ {0} /\ w[k].exec \in Nat /\ w[k].jitter \in Nat
           /\ w[k].blocking \in Nat /\ w[k].deadline \in Nat
<1>1. w[k] \in Timing
  BY RtaAssumption
<1> QED
  BY <1>1 DEF Timing

LEMMA DelayingFinite ==
    ASSUME NEW t
    PROVE  IsFiniteSet(Delaying(t)) /\ Delaying(t) \subseteq Threads \cup Isrs
<1>1. higher_priority(t) \in SUBSET Threads
  BY DEF higher_priority
<1>2. IsFiniteSet(higher_priority(t)) /\ IsFiniteSet(Isrs)
  BY <1>1, RtaAssumption, FS_Subset
<1>3. IsFiniteSet(higher_priority(t) \cup Isrs)
  BY <1>2, FS_Union
<1> QED
  BY <1>1, <1>3 DEF Delaying

(* One interferer: more time, more interference; saturation only lowers it,  *)
(* and leaves it alone below the limit.                                      *)
LEMMA Interference ==
    ASSUME w \in Workloads, NEW k \in Threads \cup Isrs, NEW x \in Nat, NEW y \in Nat, x <= y
    PROVE  /\ interference_jittered(k, x) \in Nat /\ interference_jittered(k, y) \in Nat
           /\ interference_jittered(k, x) <= interference_jittered(k, y)
           /\ Exact(k, x) \in Nat /\ interference_jittered(k, x) <= Exact(k, x)
           /\ interference_jittered(k, x) < MaxU64 /\ x + w[k].jitter <= MaxU64
                => interference_jittered(k, x) = Exact(k, x)
<1> DEFINE jit == w[k].jitter
<1> DEFINE per == w[k].period
<1> DEFINE ex == w[k].exec
<1>1. jit \in Nat /\ per \in Nat \ {0} /\ ex \in Nat
  BY Timings
<1> HIDE DEF jit, per, ex
<1> DEFINE a == sat(x + jit)
<1> DEFINE b == sat(y + jit)
<1>2. x + jit \in Nat /\ y + jit \in Nat /\ x + jit <= y + jit
  BY <1>1
<1>3. /\ a \in Nat /\ b \in Nat /\ a <= b /\ a <= x + jit
      /\ x + jit <= MaxU64 => a = x + jit
  BY <1>2, SatMonotone
<1> HIDE DEF a, b
<1> DEFINE ca == ceil_div(a, per)
<1> DEFINE cb == ceil_div(b, per)
<1> DEFINE cx == ceil_div(x + jit, per)
<1>4. ca \in Nat /\ cb \in Nat /\ cx \in Nat /\ ca <= cb /\ ca <= cx
  BY <1>1, <1>2, <1>3, CeilMonotone
<1>5. x + jit <= MaxU64 => ca = cx
  BY <1>3
<1> HIDE DEF ca, cb, cx
<1>6. /\ ca * ex \in Nat /\ cb * ex \in Nat /\ cx * ex \in Nat
      /\ ca * ex <= cb * ex /\ ca * ex <= cx * ex
  BY <1>1, <1>4, ProductMonotone
<1>7. /\ interference_jittered(k, x) = sat(ca * ex)
      /\ interference_jittered(k, y) = sat(cb * ex)
      /\ Exact(k, x) = cx * ex
  BY DEF interference_jittered, Exact, a, b, ca, cb, cx, jit, per, ex
<1>8. /\ sat(ca * ex) \in Nat /\ sat(cb * ex) \in Nat /\ sat(ca * ex) <= sat(cb * ex)
      /\ sat(ca * ex) <= ca * ex /\ (sat(ca * ex) < MaxU64 => sat(ca * ex) = ca * ex)
  BY <1>6, SatMonotone
<1>9. sat(ca * ex) <= cx * ex
  BY <1>6, <1>8
<1>10. x + jit <= MaxU64 => ca * ex = cx * ex
  BY <1>5
<1> QED
  BY <1>6, <1>7, <1>8, <1>9, <1>10 DEF jit

(* All of them together. *)
Sum(t, x) == SumFunctionOnSet([k \in Delaying(t) |-> interference_jittered(k, x)], Delaying(t))
ExactSum(t, x) == SumFunctionOnSet([k \in Delaying(t) |-> Exact(k, x)], Delaying(t))

LEMMA Sums ==
    ASSUME w \in Workloads, NEW t \in Threads, NEW x \in Nat, NEW y \in Nat, x <= y
    PROVE  /\ Sum(t, x) \in Nat /\ Sum(t, y) \in Nat /\ Sum(t, x) <= Sum(t, y)
           /\ ExactSum(t, x) \in Nat /\ Sum(t, x) <= ExactSum(t, x)
           /\ (/\ Sum(t, x) < MaxU64
               /\ \A k \in Delaying(t) : x + w[k].jitter <= MaxU64) => Sum(t, x) = ExactSum(t, x)
<1> DEFINE S == Delaying(t)
<1> DEFINE f == [k \in S |-> interference_jittered(k, x)]
<1> DEFINE g == [k \in S |-> interference_jittered(k, y)]
<1> DEFINE h == [k \in S |-> Exact(k, x)]
<1>1. IsFiniteSet(S) /\ S \subseteq Threads \cup Isrs
  BY DelayingFinite
<1>2. \A k \in S : /\ f[k] \in Nat /\ g[k] \in Nat /\ h[k] \in Nat
                   /\ f[k] <= g[k] /\ f[k] <= h[k]
                   /\ f[k] < MaxU64 /\ x + w[k].jitter <= MaxU64 => f[k] = h[k]
  BY <1>1, Interference
<1>3. Sum(t, x) = SumFunctionOnSet(f, S) /\ Sum(t, y) = SumFunctionOnSet(g, S)
      /\ ExactSum(t, x) = SumFunctionOnSet(h, S)
  BY DEF Sum, ExactSum
<1> HIDE DEF f, g, h, S
<1>4. /\ Sum(t, x) \in Nat /\ Sum(t, y) \in Nat /\ Sum(t, x) <= Sum(t, y)
  BY <1>1, <1>2, <1>3, SumMonotone
<1>5. ExactSum(t, x) \in Nat /\ Sum(t, x) <= ExactSum(t, x)
  BY <1>1, <1>2, <1>3, SumMonotone
<1>6. ASSUME Sum(t, x) < MaxU64, \A k \in S : x + w[k].jitter <= MaxU64
      PROVE  Sum(t, x) = ExactSum(t, x)
  <2>1. \A k \in S : f[k] <= Sum(t, x)
    BY <1>1, <1>2, <1>3, SumAboveTerms
  <2>2. \A k \in S : f[k] \in Nat /\ f[k] = h[k]
    BY <1>2, <1>4, <1>6, <2>1, RtaAssumption
  <2> QED
    BY <1>1, <1>3, <2>2, SumSame
<1> QED
  BY <1>4, <1>5, <1>6 DEF S

(* The start value, the step and the exact step. *)
LEMMA Steps ==
    ASSUME w \in Workloads, NEW t \in Threads, NEW x \in Nat, NEW y \in Nat, x <= y
    PROVE  /\ StartValue(t) \in 0..MaxU64
           /\ rta_step_jittered_blocking(t, x) \in 0..MaxU64
           /\ rta_step_jittered_blocking(t, y) \in 0..MaxU64
           /\ ExactStep(t, x) \in Nat
           /\ StartValue(t) <= rta_step_jittered_blocking(t, x)
           /\ rta_step_jittered_blocking(t, x) <= rta_step_jittered_blocking(t, y)
           /\ rta_step_jittered_blocking(t, x) <= ExactStep(t, x)
           /\ InRange(t) /\ x <= w[t].deadline /\ rta_step_jittered_blocking(t, x) = x
                => ExactStep(t, x) = x
<1> DEFINE s == w[t].exec + w[t].jitter + w[t].blocking
<1>1. s \in Nat /\ w[t].deadline \in Nat
  BY Timings
<1>2. /\ Sum(t, x) \in Nat /\ Sum(t, y) \in Nat /\ Sum(t, x) <= Sum(t, y)
      /\ ExactSum(t, x) \in Nat /\ Sum(t, x) <= ExactSum(t, x)
      /\ (/\ Sum(t, x) < MaxU64
          /\ \A k \in Delaying(t) : x + w[k].jitter <= MaxU64) => Sum(t, x) = ExactSum(t, x)
  BY Sums
<1>3. StartValue(t) = sat(s)
  BY DEF StartValue
<1>4. /\ rta_step_jittered_blocking(t, x) = sat(sat(s) + sat(Sum(t, x)))
      /\ rta_step_jittered_blocking(t, y) = sat(sat(s) + sat(Sum(t, y)))
  BY DEF rta_step_jittered_blocking, StartValue, total_interference, SumFunction, Sum, Delaying
<1>5. ExactStep(t, x) = s + ExactSum(t, x)
  BY DEF ExactStep, SumFunction, ExactSum, Exact, Delaying
<1> HIDE DEF s
<1>6. MaxU64 \in Nat
  BY RtaAssumption
<1>7. ASSUME InRange(t), x <= w[t].deadline
      PROVE  x < MaxU64 /\ \A k \in Delaying(t) : x + w[k].jitter <= MaxU64
  <2>1. \A k \in Isrs : w[k].jitter = 0
    BY RtaAssumption
  <2>2. x < MaxU64
    BY <1>1, <1>6, <1>7 DEF InRange
  <2>3. \A k \in Isrs : x + w[k].jitter <= MaxU64
    BY <1>6, <2>1, <2>2
  <2>4. \A k \in higher_priority(t) : x + w[k].jitter <= MaxU64
    <3> SUFFICES ASSUME NEW k \in higher_priority(t) PROVE x + w[k].jitter <= MaxU64
      OBVIOUS
    <3>1. w[k].jitter \in Nat
      BY Timings DEF higher_priority
    <3>2. w[t].deadline + w[k].jitter <= MaxU64
      BY <1>7 DEF InRange
    <3> QED
      BY <1>1, <1>6, <1>7, <3>1, <3>2
  <2> QED
    BY <2>2, <2>3, <2>4 DEF Delaying
<1> HIDE DEF InRange
<1>8. ASSUME InRange(t), x <= w[t].deadline, rta_step_jittered_blocking(t, x) = x
      PROVE  ExactStep(t, x) = x
  <2>1. sat(sat(s) + sat(Sum(t, x))) < MaxU64
    BY <1>4, <1>7, <1>8
  <2>2. Sum(t, x) < MaxU64 /\ sat(s) + sat(Sum(t, x)) = s + Sum(t, x) /\ s + Sum(t, x) = x
    BY <1>1, <1>2, <1>4, <1>6, <1>8, <2>1 DEF sat
  <2> QED
    BY <1>2, <1>5, <1>7, <1>8, <2>2
<1> QED
  BY <1>1, <1>2, <1>3, <1>4, <1>5, <1>6, <1>8 DEF sat

--------------------------------------------------------------------------------
(* The analysis.                                                             *)

(* Below every fixed point of the recurrence over the naturals. *)
BelowFixedPoints(t, v) == \A x \in Nat : ExactStep(t, x) = x => v <= x

(* An iterate that the loop of t may hold, one it may return, and a thread   *)
(* for which it may give up.                                                 *)
Rising(t, v) ==
    v <= w[t].deadline /\ v <= rta_step_jittered_blocking(t, v) /\ BelowFixedPoints(t, v)
Settled(t, v) ==
    v <= w[t].deadline /\ rta_step_jittered_blocking(t, v) = v /\ BelowFixedPoints(t, v)
Hopeless(t) == \A x \in Nat : x <= w[t].deadline => ExactStep(t, x) # x

(* The inductive invariant of the analysis.  The iterate has grown by one at *)
(* least in every iteration, so the loop over 0..=deadline is long enough.   *)
Analysis ==
    /\ w \in Workloads
    /\ phase \in {"analyse", "execute"} /\ todo \subseteq Threads
    /\ cur \in Threads \cup {NoThread} /\ r \in 0..MaxU64 /\ n \in Nat
    /\ verdict \in [Threads -> Nat \cup {Pending, Diverged}]
    /\ \A t \in Threads, v \in Nat : cur = t /\ r = v => Rising(t, v) /\ n <= v
    /\ \A t \in Threads, v \in Nat : verdict[t] = v => Settled(t, v)
    /\ \A t \in Threads : verdict[t] = Diverged => Hopeless(t)

(* What is said of the recurrence depends on the timing alone. *)
LEMMA SameTiming ==
    ASSUME w' = w, NEW t \in Threads, NEW v \in Nat
    PROVE  /\ (w[t].deadline)' = w[t].deadline
           /\ Rising(t, v)' <=> Rising(t, v)
           /\ Settled(t, v)' <=> Settled(t, v)
           /\ Hopeless(t)' <=> Hopeless(t)
<1>1. higher_priority(t)' = higher_priority(t)
  BY DEF higher_priority, SortsBefore, dispatch_order
<1> HIDE DEF higher_priority
<1>2. \A x \in Nat : ExactStep(t, x)' = ExactStep(t, x)
  BY <1>1 DEF ExactStep
<1>3. rta_step_jittered_blocking(t, v)' = rta_step_jittered_blocking(t, v)
  BY <1>1 DEF rta_step_jittered_blocking, StartValue, total_interference, interference_jittered
<1> QED
  BY <1>2, <1>3 DEF Rising, Settled, Hopeless, BelowFixedPoints

(* The start value may be held. *)
LEMMA StartRises ==
    ASSUME w \in Workloads, NEW t \in Threads
    PROVE  /\ StartValue(t) \in 0..MaxU64
           /\ BelowFixedPoints(t, StartValue(t))
           /\ StartValue(t) <= w[t].deadline => Rising(t, StartValue(t))
<1> DEFINE s == StartValue(t)
<1>1. s \in 0..MaxU64
  <2> 0 \in Nat /\ 0 <= 0
    OBVIOUS
  <2> QED
    BY Steps
<1>2. s \in Nat
  BY <1>1, RtaAssumption
<1>3. s <= rta_step_jittered_blocking(t, s)
  BY <1>2, Steps
<1>4. BelowFixedPoints(t, s)
  <2> SUFFICES ASSUME NEW x \in Nat, ExactStep(t, x) = x PROVE s <= x
    BY DEF BelowFixedPoints
  <2>1. /\ s <= rta_step_jittered_blocking(t, x)
        /\ rta_step_jittered_blocking(t, x) \in 0..MaxU64
        /\ rta_step_jittered_blocking(t, x) <= ExactStep(t, x)
    BY Steps
  <2> HIDE DEF s
  <2> QED
    BY <1>2, <2>1, RtaAssumption
<1> QED
  BY <1>1, <1>3, <1>4 DEF Rising

(* The step after a value that may be held is as low, and may be held too.   *)
LEMMA StepRises ==
    ASSUME w \in Workloads, NEW t \in Threads, NEW v \in Nat, Rising(t, v),
           NEW u, u = rta_step_jittered_blocking(t, v)
    PROVE  /\ u \in 0..MaxU64 /\ u \in Nat /\ v <= u
           /\ BelowFixedPoints(t, u)
           /\ u <= w[t].deadline => Rising(t, u)
<1>1. u \in 0..MaxU64 /\ u \in Nat
  BY Steps, RtaAssumption
<1>2. v <= u
  BY DEF Rising
<1>3. u <= rta_step_jittered_blocking(t, u)
  BY <1>1, <1>2, Steps
<1>4. BelowFixedPoints(t, u)
  <2> SUFFICES ASSUME NEW x \in Nat, ExactStep(t, x) = x PROVE u <= x
    BY DEF BelowFixedPoints
  <2>1. v <= x
    BY DEF Rising, BelowFixedPoints
  <2>2. u <= rta_step_jittered_blocking(t, x)
    BY <2>1, Steps
  <2>3. rta_step_jittered_blocking(t, x) \in 0..MaxU64 /\ rta_step_jittered_blocking(t, x) <= x
    BY Steps
  <2> QED
    BY <1>1, <2>2, <2>3, RtaAssumption
<1> QED
  BY <1>1, <1>2, <1>3, <1>4 DEF Rising

(* A value below every fixed point and above the deadline leaves none. *)
LEMMA NoneLeft ==
    ASSUME w \in Workloads, NEW t \in Threads, NEW v \in Nat, BelowFixedPoints(t, v),
           v > w[t].deadline
    PROVE  Hopeless(t)
<1>1. w[t].deadline \in Nat
  BY Timings
<1> QED
  BY <1>1 DEF BelowFixedPoints, Hopeless

(* A verdict given to t, and nothing else of the analysis changed. *)
LEMMA DecideKeeps ==
    ASSUME Analysis, w' = w, phase' = phase, NEW t \in Threads,
           NEW v \in Nat \cup {Diverged}, Decide(t, v),
           v \in Nat => Settled(t, v), v = Diverged => Hopeless(t)
    PROVE  Analysis'
<1> USE DEF Analysis, Decide
<1>1. verdict' \in [Threads -> Nat \cup {Pending, Diverged}]
  OBVIOUS
<1>2. \A u \in Threads : verdict'[u] = IF u = t THEN v ELSE verdict[u]
  OBVIOUS
<1>3. \A u \in Threads : cur' # u
  BY RtaAssumption
<1>4. ASSUME NEW u \in Threads, NEW x \in Nat, verdict'[u] = x PROVE Settled(u, x)'
  BY <1>2, <1>4, SameTiming
<1>5. ASSUME NEW u \in Threads, verdict'[u] = Diverged PROVE Hopeless(u)'
  BY <1>2, <1>5, SameTiming
<1>6. /\ w' \in Workloads /\ phase' \in {"analyse", "execute"} /\ todo' \subseteq Threads
      /\ cur' \in Threads \cup {NoThread} /\ r' \in 0..MaxU64 /\ n' \in Nat
  OBVIOUS
<1> QED
  BY <1>1, <1>3, <1>4, <1>5, <1>6

(* Another iterate for t, and nothing else changed but the count. *)
LEMMA HoldKeeps ==
    ASSUME Analysis, w' = w, phase' = phase, NEW t \in Threads, NEW v \in 0..MaxU64,
           Rising(t, v), cur' = t, r' = v, n' \in Nat, n' <= v, UNCHANGED <<verdict, todo>>
    PROVE  Analysis'
<1> USE DEF Analysis
<1>1. ASSUME NEW u \in Threads, NEW x \in Nat, cur' = u, r' = x PROVE Rising(u, x)' /\ n' <= x
  BY <1>1, SameTiming
<1>2. ASSUME NEW u \in Threads, NEW x \in Nat, verdict'[u] = x PROVE Settled(u, x)'
  BY <1>2, SameTiming
<1>3. ASSUME NEW u \in Threads, verdict'[u] = Diverged PROVE Hopeless(u)'
  BY <1>3, SameTiming
<1>4. /\ w' \in Workloads /\ phase' \in {"analyse", "execute"} /\ todo' \subseteq Threads
      /\ cur' \in Threads \cup {NoThread} /\ r' \in 0..MaxU64 /\ n' \in Nat
      /\ verdict' \in [Threads -> Nat \cup {Pending, Diverged}]
  OBVIOUS
<1> QED
  BY <1>1, <1>2, <1>3, <1>4

LEMMA StartThreadKeeps ==
    ASSUME Analysis, NEW t \in Threads, StartThread(t)
    PROVE  Analysis'
<1> DEFINE s == StartValue(t)
<1>1. w \in Workloads /\ w' = w /\ phase' = phase
  BY DEF Analysis, StartThread
<1>2. s \in 0..MaxU64 /\ BelowFixedPoints(t, s) /\ (s <= w[t].deadline => Rising(t, s))
  BY <1>1, StartRises
<1>3. s \in Nat /\ w[t].deadline \in Nat
  BY <1>1, <1>2, Timings, RtaAssumption
<1>4. CASE s > w[t].deadline
  <2>1. Decide(t, Diverged)
    BY <1>4 DEF StartThread
  <2>2. Hopeless(t)
    BY <1>1, <1>2, <1>3, <1>4, NoneLeft
  <2>3. Diverged \notin Nat
    BY RtaAssumption
  <2> QED
    BY <1>1, <2>1, <2>2, <2>3, DecideKeeps
<1>5. CASE ~(s > w[t].deadline)
  <2>1. cur' = t /\ r' = s /\ n' = 0 /\ UNCHANGED <<verdict, todo>>
    BY <1>5 DEF StartThread
  <2>2. Rising(t, s)
    BY <1>2, <1>3, <1>5
  <2> HIDE DEF s
  <2>3. n' \in Nat /\ n' <= s
    BY <1>3, <2>1
  <2> QED
    BY <1>1, <1>2, <2>1, <2>2, <2>3, HoldKeeps
<1> QED
  BY <1>4, <1>5

LEMMA IterateKeeps ==
    ASSUME Analysis, Iterate
    PROVE  Analysis'
<1>1. w \in Workloads /\ w' = w /\ phase' = phase
  BY DEF Analysis, Iterate
<1>2. PICK t \in Threads : cur = t
  BY DEF Analysis, Iterate
<1>3. PICK v \in Nat : r = v /\ v \in 0..MaxU64
  BY RtaAssumption DEF Analysis
<1>4. Rising(t, v) /\ n <= v /\ n \in Nat
  BY <1>2, <1>3 DEF Analysis
<1> DEFINE u == rta_step_jittered_blocking(t, v)
<1>5. /\ u \in 0..MaxU64 /\ u \in Nat /\ v <= u /\ BelowFixedPoints(t, u)
      /\ u <= w[t].deadline => Rising(t, u)
  BY <1>1, <1>4, StepRises
<1>6. w[t].deadline \in Nat
  BY <1>1, Timings
<1>7. IF u = v THEN Decide(t, v)
      ELSE IF u > w[t].deadline \/ n = w[t].deadline THEN Decide(t, Diverged)
      ELSE r' = u /\ n' = n + 1 /\ UNCHANGED <<verdict, todo, cur>>
  BY <1>2, <1>3 DEF Iterate
<1>8. CASE u = v
  <2>1. Settled(t, v)
    BY <1>4, <1>8 DEF Rising, Settled
  <2>2. v # Diverged
    BY RtaAssumption
  <2>3. Decide(t, v)
    BY <1>7, <1>8
  <2> QED
    BY <1>1, <2>1, <2>2, <2>3, DecideKeeps
<1> HIDE DEF u
<1>9. CASE u # v /\ (u > w[t].deadline \/ n = w[t].deadline)
  <2>1. u > w[t].deadline
    BY <1>4, <1>5, <1>6, <1>9
  <2>2. Hopeless(t)
    BY <1>1, <1>5, <2>1, NoneLeft
  <2>3. Diverged \notin Nat /\ Decide(t, Diverged)
    BY <1>7, <1>9, RtaAssumption
  <2> QED
    BY <1>1, <2>2, <2>3, DecideKeeps
<1>10. CASE u # v /\ ~(u > w[t].deadline \/ n = w[t].deadline)
  <2>1. r' = u /\ n' = n + 1 /\ cur' = t /\ UNCHANGED <<verdict, todo>>
    BY <1>2, <1>7, <1>10
  <2>2. Rising(t, u)
    BY <1>5, <1>6, <1>10
  <2>3. n' \in Nat /\ n' <= u
    BY <1>4, <1>5, <1>10, <2>1
  <2> QED
    BY <1>1, <1>5, <2>1, <2>2, <2>3, HoldKeeps
<1> QED
  BY <1>8, <1>9, <1>10

(* Whatever leaves the recurrence's variables alone. *)
LEMMA UnchangedKeeps ==
    ASSUME Analysis, UNCHANGED <<w, todo, cur, r, n, verdict>>, phase' \in {"analyse", "execute"}
    PROVE  Analysis'
<1> USE DEF Analysis
<1>1. ASSUME NEW u \in Threads, NEW x \in Nat, cur' = u, r' = x PROVE Rising(u, x)' /\ n' <= x
  BY <1>1, SameTiming
<1>2. ASSUME NEW u \in Threads, NEW x \in Nat, verdict'[u] = x PROVE Settled(u, x)'
  BY <1>2, SameTiming
<1>3. ASSUME NEW u \in Threads, verdict'[u] = Diverged PROVE Hopeless(u)'
  BY <1>3, SameTiming
<1>4. /\ w' \in Workloads /\ phase' \in {"analyse", "execute"} /\ todo' \subseteq Threads
      /\ cur' \in Threads \cup {NoThread} /\ r' \in 0..MaxU64 /\ n' \in Nat
      /\ verdict' \in [Threads -> Nat \cup {Pending, Diverged}]
  OBVIOUS
<1> QED
  BY <1>1, <1>2, <1>3, <1>4

LEMMA AnalysisInductive ==
    /\ Init => Analysis
    /\ Analysis /\ [Next]_vars => Analysis'
<1>1. ASSUME Init PROVE Analysis
  <2>1. \A t \in Threads : cur # t /\ verdict[t] = Pending
    BY <1>1, RtaAssumption DEF Init
  <2>2. \A t \in Threads : verdict[t] \notin Nat /\ verdict[t] # Diverged
    BY <2>1, RtaAssumption
  <2> QED
    BY <1>1, <2>1, <2>2, RtaAssumption DEF Init, Analysis
<1>2. ASSUME Analysis, [Next]_vars PROVE Analysis'
  <2>1. CASE \E t \in Threads : StartThread(t)
    BY <1>2, <2>1, StartThreadKeeps
  <2>2. CASE Iterate
    BY <1>2, <2>2, IterateKeeps
  <2>3. CASE Analysed
    BY <1>2, <2>3, UnchangedKeeps DEF Analysed
  <2>4. CASE UNCHANGED analysisVars
    <3>1. phase' \in {"analyse", "execute"}
      BY <1>2, <2>4 DEF analysisVars, Analysis
    <3> QED
      BY <1>2, <2>4, <3>1, UnchangedKeeps DEF analysisVars
  <2>5. CASE \E k \in Threads \cup Isrs : Run(k) \/ \E wait \in 0..w[k].jitter : Arrive(k, wait)
    BY <2>4, <2>5 DEF Run, Arrive, Elapse
  <2>6. CASE \E length \in {w[t].blocking : t \in Threads} \ {0} : Lock(length)
    BY <2>4, <2>6 DEF Lock
  <2>7. CASE Hold \/ Idle
    BY <2>4, <2>7 DEF Hold, Idle, Elapse
  <2>8. CASE UNCHANGED vars
    BY <2>4, <2>8 DEF vars, analysisVars
  <2> QED
    BY <1>2, <2>1, <2>2, <2>3, <2>5, <2>6, <2>7, <2>8 DEF Next
<1> QED
  BY <1>1, <1>2

(* For every set of threads and interrupts the analysis keeps its invariant: *)
(* the iterate stays below every fixed point of the exact recurrence, and    *)
(* each verdict records how the iteration ended                              *)
(* (compute_response_time_jittered_blocking, scheduling_verified.rs).        *)
THEOREM AnalysisInvariant == Spec => []Analysis
BY AnalysisInductive, PTL DEF Spec

(* A response time the analysis accepts is the least fixed point of the      *)
(* exact recurrence: the iteration neither stops early nor skips one         *)
(* (the Converged answer of compute_response_time_jittered_blocking).        *)
THEOREM AcceptsTheLeastFixedPoint == Spec => []LeastFixedPoint
<1>1. ASSUME Analysis PROVE LeastFixedPoint
  <2> SUFFICES ASSUME NEW t \in Threads, accepted(t)
               PROVE  /\ InRange(t) => ExactStep(t, verdict[t]) = verdict[t]
                      /\ \A x \in 0..verdict[t] - 1 : ExactStep(t, x) # x
    BY DEF LeastFixedPoint
  <2>1. PICK v \in Nat : verdict[t] = v
    BY <1>1 DEF Analysis, accepted
  <2>2. Settled(t, v) /\ w \in Workloads
    BY <1>1, <2>1 DEF Analysis
  <2>3. InRange(t) => ExactStep(t, v) = v
    BY <2>2, Steps DEF Settled
  <2>4. \A x \in 0..v - 1 : ExactStep(t, x) # x
    BY <2>2 DEF Settled, BelowFixedPoints
  <2> QED
    BY <2>1, <2>3, <2>4
<1> QED
  BY <1>1, AnalysisInvariant, PTL

(* A thread the analysis rejects has no fixed point within its deadline:     *)
(* neither the saturating arithmetic nor the iteration limit rejects a       *)
(* thread that would have met it.                                            *)
THEOREM RejectsOnlyHopelessThreads == Spec => []RejectsOnlyDivergence
<1>1. ASSUME Analysis PROVE RejectsOnlyDivergence
  BY <1>1 DEF Analysis, RejectsOnlyDivergence, Hopeless
<1> QED
  BY <1>1, AnalysisInvariant, PTL

--------------------------------------------------------------------------------
(* The processor.                                                            *)

JobType == [age : Int, left : Int, wait : Int]

(* No queue outgrows its bound, and no gap its period. *)
Execution ==
    /\ jobs \in [Threads \cup Isrs -> Seq(JobType)]
    /\ gap \in [Threads \cup Isrs -> Nat]
    /\ \A k \in Threads \cup Isrs : Len(jobs[k]) <= MaxPending /\ gap[k] <= w[k].period

LEMMA OlderType ==
    ASSUME NEW j \in JobType
    PROVE  Older(j) \in JobType
<1> DEFINE a == IF j.age < MaxAge THEN j.age + 1 ELSE j.age
<1> DEFINE b == IF j.wait > 0 THEN j.wait - 1 ELSE 0
<1>1. j.age \in Int /\ j.wait \in Int /\ MaxAge \in Nat
  BY RtaAssumption DEF JobType
<1>2. a \in Int /\ b \in Int
  BY <1>1
<1>3. Older(j) = [j EXCEPT !.age = a, !.wait = b]
  BY DEF Older
<1> HIDE DEF a, b
<1> QED
  BY <1>2, <1>3 DEF JobType

(* A tick after which at most the same jobs remain. *)
LEMMA ElapseKeeps ==
    ASSUME Execution, w \in Workloads, NEW s \in [Threads \cup Isrs -> Seq(JobType)],
           \A k \in Threads \cup Isrs : Len(s[k]) <= Len(jobs[k]), Elapse(s)
    PROVE  Execution'
<1> DEFINE K == Threads \cup Isrs
<1>1. DOMAIN jobs = K /\ DOMAIN gap = K /\ w' = w
  BY DEF Execution, Elapse, analysisVars
<1>2. \A k \in K : w[k].period \in Nat
  BY Timings
<1>3. gap' \in [K -> Nat] /\ \A k \in K : gap'[k] <= w'[k].period
  BY <1>1, <1>2 DEF Elapse, Execution
<1>4. ASSUME NEW k \in K
      PROVE  jobs'[k] \in Seq(JobType) /\ Len(jobs'[k]) <= MaxPending
  <2>1. jobs'[k] = [i \in 1..Len(s[k]) |-> Older(s[k][i])]
    BY <1>1 DEF Elapse
  <2>2. \A i \in 1..Len(s[k]) : Older(s[k][i]) \in JobType
    BY OlderType
  <2>3. jobs'[k] \in Seq(JobType) /\ Len(jobs'[k]) = Len(s[k])
    BY <2>1, <2>2
  <2>4. /\ Len(s[k]) <= Len(jobs[k]) /\ Len(jobs[k]) <= MaxPending
        /\ Len(s[k]) \in Nat /\ Len(jobs[k]) \in Nat
    BY DEF Execution
  <2> QED
    BY <2>3, <2>4, RtaAssumption
<1>5. jobs' = [k \in K |-> jobs'[k]]
  BY <1>1 DEF Elapse
<1>6. jobs' \in [K -> Seq(JobType)]
  BY <1>4, <1>5
<1> QED
  BY <1>3, <1>4, <1>6 DEF Execution

LEMMA RunKeeps ==
    ASSUME Execution, w \in Workloads, NEW k \in Threads \cup Isrs, Run(k)
    PROVE  Execution'
<1> DEFINE q == jobs[k]
<1> DEFINE q1 == Served(q)
<1> DEFINE s == [jobs EXCEPT ![k] = Served(@)]
<1>0. Elapse(s)
  BY DEF Run
<1>1. q \in Seq(JobType) /\ q # <<>>
  BY DEF Execution, Run, Ready
<1> HIDE DEF q
<1>2. q1 \in Seq(JobType) /\ Len(q1) <= Len(q)
  <2>1. Tail(q) \in Seq(JobType) /\ Len(Tail(q)) = Len(q) - 1 /\ Len(q) \in Nat
    BY <1>1
  <2> DEFINE e == [q EXCEPT ![1].left = @ - 1]
  <2>2. 1 \in DOMAIN q /\ q[1] \in JobType
    BY <1>1
  <2>3. [q[1] EXCEPT !.left = @ - 1] \in JobType
    BY <2>2 DEF JobType
  <2>4. e = [q EXCEPT ![1] = [q[1] EXCEPT !.left = @ - 1]]
    BY <2>2
  <2>5. e \in Seq(JobType) /\ Len(e) = Len(q)
    BY <1>1, <2>2, <2>3, <2>4
  <2> QED
    BY <2>1, <2>5 DEF Served
<1> HIDE DEF q1
<1>3. s = [jobs EXCEPT ![k] = q1]
  BY DEF Execution, q, q1
<1> HIDE DEF s
<1>4. s \in [Threads \cup Isrs -> Seq(JobType)]
  BY <1>2, <1>3 DEF Execution
<1>5. \A u \in Threads \cup Isrs : Len(s[u]) <= Len(jobs[u])
  BY <1>2, <1>3 DEF Execution, q
<1> QED
  BY <1>0, <1>4, <1>5, ElapseKeeps

LEMMA ArriveKeeps ==
    ASSUME Execution, w \in Workloads, NEW k \in Threads \cup Isrs, NEW wait \in Int, Arrive(k, wait)
    PROVE  Execution'
<1>1. w[k].period \in Nat /\ w[k].exec \in Nat
  BY Timings
<1>2. Job(k, wait) \in JobType
  BY <1>1 DEF Job, JobType
<1> DEFINE q1 == Append(jobs[k], Job(k, wait))
<1>3. q1 \in Seq(JobType) /\ Len(q1) <= MaxPending
  BY <1>2, RtaAssumption DEF Execution, Arrive
<1>4. jobs' = [jobs EXCEPT ![k] = q1] /\ gap' = [gap EXCEPT ![k] = 0] /\ w' = w
  BY DEF Arrive, analysisVars
<1> HIDE DEF q1
<1>5. jobs' \in [Threads \cup Isrs -> Seq(JobType)] /\ gap' \in [Threads \cup Isrs -> Nat]
  BY <1>3, <1>4 DEF Execution
<1>6. ASSUME NEW u \in Threads \cup Isrs
      PROVE  Len(jobs'[u]) <= MaxPending /\ gap'[u] <= w'[u].period
  BY <1>1, <1>3, <1>4 DEF Execution
<1> QED
  BY <1>5, <1>6 DEF Execution

LEMMA ExecutionInductive ==
    /\ Init => Execution
    /\ Execution /\ Analysis /\ [Next]_vars => Execution'
<1>1. ASSUME Init PROVE Execution
  <2>1. w \in Workloads
    BY <1>1 DEF Init
  <2>2. \A k \in Threads \cup Isrs : w[k].period \in Nat
    BY <2>1, Timings
  <2>3. <<>> \in Seq(JobType) /\ Len(<<>>) = 0
    OBVIOUS
  <2>4. jobs \in [Threads \cup Isrs -> Seq(JobType)] /\ gap \in [Threads \cup Isrs -> Nat]
    BY <1>1, <2>2, <2>3 DEF Init
  <2>5. \A k \in Threads \cup Isrs : Len(jobs[k]) <= MaxPending /\ gap[k] <= w[k].period
    BY <1>1, <2>2, <2>3, RtaAssumption DEF Init
  <2> QED
    BY <2>4, <2>5 DEF Execution
<1>2. ASSUME Execution, Analysis, [Next]_vars PROVE Execution'
  <2>1. w \in Workloads
    BY <1>2 DEF Analysis
  <2>2. CASE UNCHANGED <<w, jobs, gap>>
    BY <1>2, <2>2 DEF Execution
  <2>3. CASE \E t \in Threads : StartThread(t)
    BY <2>2, <2>3 DEF StartThread, executionVars
  <2>4. CASE Iterate
    BY <2>2, <2>4 DEF Iterate, executionVars
  <2>5. CASE Analysed
    BY <2>2, <2>5 DEF Analysed, executionVars
  <2>6. ASSUME NEW k \in Threads \cup Isrs, Run(k) PROVE Execution'
    BY <1>2, <2>1, <2>6, RunKeeps
  <2>7. ASSUME NEW k \in Threads \cup Isrs, NEW wait \in 0..w[k].jitter, Arrive(k, wait)
        PROVE  Execution'
    <3>1. w[k].jitter \in Nat
      BY <2>1, Timings
    <3>2. wait \in Int
      BY <3>1
    <3> QED
      BY <1>2, <2>1, <2>7, <3>2, ArriveKeeps
  <2>8. CASE \E length \in {w[t].blocking : t \in Threads} \ {0} : Lock(length)
    BY <2>2, <2>8 DEF Lock, analysisVars
  <2>9. CASE Hold \/ Idle
    <3>1. Elapse(jobs)
      BY <2>9 DEF Hold, Idle
    <3>2. jobs \in [Threads \cup Isrs -> Seq(JobType)]
      BY <1>2 DEF Execution
    <3>3. \A k \in Threads \cup Isrs : Len(jobs[k]) <= Len(jobs[k])
      BY <3>2
    <3> QED
      BY <1>2, <2>1, <3>1, <3>2, <3>3, ElapseKeeps
  <2>10. CASE UNCHANGED vars
    BY <2>2, <2>10 DEF vars
  <2> QED
    BY <1>2, <2>3, <2>4, <2>5, <2>6, <2>7, <2>8, <2>9, <2>10 DEF Next
<1> QED
  BY <1>1, <1>2

(* Every variable of the analysis and of the processor keeps its shape, and  *)
(* the iterate and the count of iterations stay within the deadline, so the  *)
(* loop over 0..=deadline is never left by its bound with an iterate that    *)
(* could still settle (scheduling_verified.rs, rta.rs).                      *)
THEOREM TypeCorrect == Spec => []TypeOK
<1>1. ASSUME Analysis, Execution PROVE TypeOK
  <2>1. \A k \in Threads \cup Isrs : w[k].deadline \in Nat /\ w[k].period \in Nat
    BY <1>1, Timings DEF Analysis
  <2>2. DOMAIN w = Threads \cup Isrs
    BY <1>1, RtaAssumption DEF Analysis
  <2>3. ASSUME cur # NoThread PROVE r <= w[cur].deadline /\ n <= w[cur].deadline
    <3>1. PICK t \in Threads : cur = t
      BY <1>1, <2>3 DEF Analysis
    <3>2. PICK v \in Nat : r = v
      BY <1>1, RtaAssumption DEF Analysis
    <3>3. v <= w[t].deadline /\ n <= v /\ n \in Nat
      BY <1>1, <3>1, <3>2 DEF Analysis, Rising
    <3> QED
      BY <2>1, <3>1, <3>2, <3>3
  <2>4. ASSUME NEW t \in Threads, accepted(t) PROVE verdict[t] \in 0..w[t].deadline
    <3>1. PICK v \in Nat : verdict[t] = v
      BY <1>1, <2>4 DEF Analysis, accepted
    <3>2. v <= w[t].deadline
      BY <1>1, <3>1 DEF Analysis, Settled
    <3> QED
      BY <2>1, <3>1, <3>2
  <2>5. \A k \in Threads \cup Isrs : Len(jobs[k]) <= MaxPending /\ gap[k] \in 0..w[k].period
    BY <1>1, <2>1 DEF Execution
  <2> QED
    BY <1>1, <2>2, <2>3, <2>4, <2>5 DEF Analysis, TypeOK
<1>2. Spec => []Execution
  BY AnalysisInvariant, ExecutionInductive, PTL DEF Spec
<1> QED
  BY <1>1, <1>2, AnalysisInvariant, PTL

================================================================================
