----------------------------- MODULE AllocatorProofs -----------------------------
(***************************************************************************)
(* What the allocator guarantees for any number of threads and processors  *)
(* and either strategy: no processor is overloaded, every thread with a    *)
(* period is accounted for, and a thread that is given up fits nowhere.    *)
(***************************************************************************)
EXTENDS Allocator, SumTheorems, WellFoundedInduction, TLAPS

(* A nonempty set of naturals has a least element. *)
LEMMA NatMin ==
    ASSUME NEW T \in SUBSET Nat, T # {}
    PROVE  \E x \in T : \A y \in T : x <= y
<1> DEFINE R == OpToRel(<, Nat)
<1>1. IsWellFoundedOn(R, Nat)
  BY NatLessThanWellFounded
<1> HIDE DEF R
<1>2. PICK x \in T : \A y \in T : ~ (<<y, x>> \in R)
  BY <1>1, WFMin
<1>3. \A y \in T : ~ (y < x)
  BY <1>2 DEF R, OpToRel
<1> QED
  BY <1>3

(* The threads a loop still holds have a period, are unplaced, and are in    *)
(* the loop their binding calls for.                                         *)
LoopsOK ==
    /\ \A t \in pre_bound : tc[t].period # 0 /\ tc[t].binding # None
    /\ \A t \in unbound : tc[t].period # 0 /\ tc[t].binding = None
    /\ \A t \in pre_bound \cup unbound : bound[t] = None /\ t \notin unallocated

(* Accounted, at every point of the placement. *)
AccountedSoFar ==
    /\ \A t \in Threads : bound[t] # None => t \notin unallocated /\ tc[t].period # 0
    /\ \A t \in Threads : tc[t].binding # None => bound[t] \in {None, tc[t].binding}
    /\ phase # "start" =>
         \A t \in Threads : tc[t].period > 0 /\ bound[t] = None =>
             t \in unallocated \cup pre_bound \cup unbound

(* Threads are bound only to processors that exist. *)
BoundToProcs == \A t \in Threads : bound[t] # None => bound[t] \in procs

(* Before the loops are filled nothing has been decided. *)
Fresh ==
    phase = "start" =>
        /\ pre_bound = {} /\ unbound = {} /\ unallocated = {}
        /\ \A t \in Threads : bound[t] = None

AllocatorInv ==
    /\ TypeOK
    /\ LoopsOK
    /\ AccountedSoFar
    /\ BoundToProcs
    /\ Fresh
    /\ NoOverload
    /\ UnallocatedFitsNowhere
    /\ FirstFitInOrder

(* The utilization of a thread with a period is a natural number of units. *)
LEMMA UtilNat ==
    ASSUME NEW t \in Threads, tc \in [Threads -> Tasks], tc[t].period # 0
    PROVE  Util(t) \in Nat
<1>1. tc[t].wcet \in Nat /\ tc[t].period \in Nat /\ Unit \in Nat
  BY AllocatorAssumption
<1>2. Unit \div tc[t].period \in Nat
  BY <1>1
<1> QED
  BY <1>1, <1>2 DEF Util

(* first fit: None when nothing fits, and otherwise the first that fits. *)
LEMMA FirstFitChoice ==
    ASSUME NEW t \in Threads, nprocs \in Nat
    PROVE  /\ Candidates(t) = {} => FirstFit(t) = None
           /\ Candidates(t) # {} => /\ FirstFit(t) \in Candidates(t)
                                    /\ \A q \in Candidates(t) : FirstFit(t) <= q
<1>1. CASE Candidates(t) = {}
  BY <1>1 DEF FirstFit
<1>2. CASE Candidates(t) # {}
  <2>1. Candidates(t) \in SUBSET Nat
    BY DEF Candidates, procs
  <2>2. \E p \in Candidates(t) : \A q \in Candidates(t) : p <= q
    BY <1>2, <2>1, NatMin
  <2> QED
    BY <1>2, <2>2 DEF FirstFit
<1> QED
  BY <1>1, <1>2

(* best fit: None when nothing fits, and otherwise the last of the fullest   *)
(* that fit.                                                                 *)
LEMMA BestFitChoice ==
    ASSUME NEW t \in Threads, TypeOK, NoOverload
    PROVE  /\ Candidates(t) = {} => BestFit(t) = None
           /\ Candidates(t) # {} =>
                /\ BestFit(t) \in Candidates(t)
                /\ \A q \in Candidates(t) \ {BestFit(t)} :
                      used[q] < used[BestFit(t)] \/ (used[q] = used[BestFit(t)] /\ q < BestFit(t))
<1>1. CASE Candidates(t) = {}
  BY <1>1 DEF BestFit
<1>2. CASE Candidates(t) # {}
  <2>1. nprocs \in Nat /\ Candidates(t) \subseteq procs /\ procs \subseteq Processors
        /\ Processors \subseteq Nat /\ MaxProcs \in Nat /\ Unit \in Nat
    BY AllocatorAssumption DEF Candidates, procs, Processors, TypeOK
  <2>2. \A p \in Candidates(t) : used[p] \in Nat /\ used[p] <= Unit
    BY <2>1 DEF TypeOK, NoOverload
  <2> DEFINE Slack == {Unit - used[p] : p \in Candidates(t)}
  <2>3. Slack \in SUBSET Nat /\ Slack # {}
    BY <1>2, <2>1, <2>2
  <2>4. PICK x \in Slack : \A y \in Slack : x <= y
    BY <2>3, NatMin
  <2>5. PICK b \in Candidates(t) : \A q \in Candidates(t) : used[q] <= used[b]
    <3>1. PICK b \in Candidates(t) : x = Unit - used[b]
      BY <2>4
    <3>2. \A q \in Candidates(t) : Unit - used[b] <= Unit - used[q]
      BY <2>4, <3>1
    <3>3. \A q \in Candidates(t) : used[q] <= used[b]
      BY <2>1, <2>2, <3>2
    <3> QED
      BY <3>3
  <2> DEFINE After == {MaxProcs - p : p \in {q \in Candidates(t) : used[q] = used[b]}}
  <2>6. After \in SUBSET Nat /\ After # {}
    <3>1. \A p \in Candidates(t) : MaxProcs - p \in Nat
      <4> TAKE p \in Candidates(t)
      <4>1. p \in 1..MaxProcs
        BY <2>1 DEF Processors
      <4> QED
        BY <2>1, <4>1
    <3> QED
      BY <3>1
  <2>7. PICK z \in After : \A y \in After : z <= y
    BY <2>6, NatMin
  <2>8. PICK p \in Candidates(t) : used[p] = used[b] /\ z = MaxProcs - p
    BY <2>7
  <2>9. ASSUME NEW q \in Candidates(t) \ {p}
        PROVE  used[q] < used[p] \/ (used[q] = used[p] /\ q < p)
    <3>1. CASE used[q] = used[b]
      <4>1. MaxProcs - p <= MaxProcs - q
        BY <2>7, <2>8, <3>1
      <4>2. p \in Nat /\ q \in Nat
        BY <2>1
      <4> QED
        BY <2>1, <2>8, <3>1, <4>1, <4>2
    <3>2. CASE used[q] # used[b]
      BY <2>2, <2>5, <2>8, <3>2
    <3> QED
      BY <3>1, <3>2
  <2> QED
    BY <1>2, <2>9 DEF BestFit
<1> QED
  BY <1>1, <1>2

--------------------------------------------------------------------------------
(* Placing a thread t of either loop on a processor it fits on, or nowhere   *)
(* when it fits on none it may use, keeps everything that does not depend on *)
(* which loop the thread came from.                                          *)
LEMMA PlaceKeeps ==
    ASSUME AllocatorInv, NEW t \in pre_bound \cup unbound, NEW p,
           p # None => p \in Candidates(t),
           p = None /\ t \in unbound => Candidates(t) = {},
           t \in pre_bound => p \in {None, tc[t].binding},
           t \in unbound /\ strategy = "FirstFit" /\ p # None =>
               \A q \in Candidates(t) : p <= q,
           Place(t, p), phase = "place",
           UNCHANGED <<input, phase, schedulable>>,
           pre_bound' = pre_bound \ {t}, unbound' = unbound \ {t}
    PROVE  AllocatorInv'
<1>1. /\ t \in Threads /\ tc \in [Threads -> Tasks] /\ tc[t].period # 0
      /\ bound[t] = None /\ t \notin unallocated
      /\ nprocs \in Nat /\ nprocs <= MaxProcs /\ Unit \in Nat /\ procs \subseteq Processors
      /\ procs' = procs
  BY AllocatorAssumption DEF AllocatorInv, TypeOK, LoopsOK, procs, Processors, input
<1>2. Util(t) \in Nat
  BY <1>1, UtilNat
<1>3. tc' = tc /\ nprocs' = nprocs /\ strategy' = strategy /\ phase' = phase
  BY DEF input
<1>4. \A u : Util(u)' = Util(u)
  BY <1>3 DEF Util
<1>5. CASE p = None
  <2>1. unallocated' = unallocated \cup {t} /\ bound' = bound /\ used' = used
    BY <1>5 DEF Place
  <2>2. TypeOK'
    BY <1>1, <1>3, <2>1 DEF AllocatorInv, TypeOK
  <2>3. LoopsOK'
    BY <1>3, <2>1 DEF AllocatorInv, LoopsOK
  <2>4. AccountedSoFar'
    BY <1>1, <1>3, <2>1 DEF AllocatorInv, AccountedSoFar
  <2>5. BoundToProcs' /\ Fresh' /\ NoOverload'
    BY <1>1, <1>3, <2>1 DEF AllocatorInv, BoundToProcs, Fresh, NoOverload
  <2>6. \A u, q : Fits(u, q)' <=> Fits(u, q)
    BY <1>4, <2>1 DEF Fits
  <2>7. UnallocatedFitsNowhere'
    <3> SUFFICES ASSUME NEW u \in unallocated', tc[u].binding = None, tc[u].period > 0,
                        NEW q \in procs
                 PROVE  ~Fits(u, q)
      BY <1>1, <1>3, <2>6 DEF UnallocatedFitsNowhere
    <3>1. CASE u = t
      <4>1. t \in unbound
        BY <3>1 DEF AllocatorInv, LoopsOK
      <4> QED
        BY <1>5, <3>1, <4>1 DEF Candidates
    <3>2. CASE u # t
      BY <2>1, <3>2 DEF AllocatorInv, UnallocatedFitsNowhere
    <3> QED
      BY <3>1, <3>2
  <2>8. FirstFitInOrder'
    BY <1>1, <1>3, <2>1, <2>6 DEF AllocatorInv, FirstFitInOrder
  <2> QED
    BY <2>2, <2>3, <2>4, <2>5, <2>7, <2>8 DEF AllocatorInv
<1>6. CASE p # None
  <2>1. /\ bound' = [bound EXCEPT ![t] = p]
        /\ used' = [used EXCEPT ![p] = used[p] + Util(t)]
        /\ unallocated' = unallocated
    BY <1>6 DEF Place
  <2>2. p \in procs /\ p \in Processors /\ used[p] + Util(t) <= Unit
    BY <1>1, <1>6 DEF Candidates, Fits
  <2>3. used \in [Processors -> Nat] /\ bound \in [Threads -> Processors \cup {None}]
    BY DEF AllocatorInv, TypeOK
  <2>4. used' \in [Processors -> Nat] /\ \A q \in Processors : used[q] <= used'[q]
    BY <1>2, <2>1, <2>2, <2>3
  <2>5. bound' \in [Threads -> Processors \cup {None}]
        /\ bound'[t] = p /\ \A u \in Threads \ {t} : bound'[u] = bound[u]
    BY <1>1, <2>1, <2>2, <2>3
  <2>6. TypeOK'
    BY <1>1, <1>3, <2>1, <2>4, <2>5 DEF AllocatorInv, TypeOK
  <2>7. LoopsOK'
    BY <1>1, <1>3, <2>1, <2>5 DEF AllocatorInv, LoopsOK, TypeOK
  <2>8. AccountedSoFar'
    <3>1. t \in unbound => tc[t].binding = None
      BY DEF AllocatorInv, LoopsOK
    <3>2. \A u \in Threads : bound'[u] # None => u \notin unallocated' /\ tc'[u].period # 0
      BY <1>1, <1>3, <2>1, <2>5 DEF AllocatorInv, AccountedSoFar
    <3>3. \A u \in Threads : tc'[u].binding # None => bound'[u] \in {None, tc'[u].binding}
      BY <1>1, <1>3, <2>1, <2>5, <3>1 DEF AllocatorInv, AccountedSoFar
    <3>4. \A u \in Threads : tc'[u].period > 0 /\ bound'[u] = None =>
             u \in unallocated' \cup pre_bound' \cup unbound'
      BY <1>1, <1>3, <1>6, <2>1, <2>5 DEF AllocatorInv, AccountedSoFar
    <3> QED
      BY <3>2, <3>3, <3>4 DEF AccountedSoFar
  <2>9. BoundToProcs' /\ Fresh'
    BY <1>1, <1>3, <2>2, <2>5 DEF AllocatorInv, BoundToProcs, Fresh
  <2>10. NoOverload'
    BY <1>2, <2>1, <2>2, <2>3 DEF AllocatorInv, NoOverload
  <2>11. \A u \in Threads, q \in procs : tc[u].period # 0 /\ Fits(u, q)' => Fits(u, q)
    <3> SUFFICES ASSUME NEW u \in Threads, NEW q \in procs, tc[u].period # 0, Fits(u, q)'
                 PROVE  Fits(u, q)
      OBVIOUS
    <3>1. Util(u) \in Nat
      BY <1>1, UtilNat
    <3>2. used'[q] + Util(u) <= Unit
      BY <1>4 DEF Fits
    <3>3. q \in Processors /\ used[q] \in Nat /\ used'[q] \in Nat /\ used[q] <= used'[q]
      BY <1>1, <2>3, <2>4
    <3> QED
      BY <1>1, <3>1, <3>2, <3>3 DEF Fits
  <2>12. UnallocatedFitsNowhere'
    <3> SUFFICES ASSUME NEW u \in unallocated, tc[u].binding = None, tc[u].period > 0,
                        NEW q \in procs, Fits(u, q)'
                 PROVE  FALSE
      BY <1>1, <1>3, <2>1 DEF UnallocatedFitsNowhere
    <3>1. u \in Threads /\ tc[u].period # 0
      BY DEF AllocatorInv, TypeOK
    <3>2. Fits(u, q)
      BY <2>11, <3>1
    <3> QED
      BY <3>2 DEF AllocatorInv, UnallocatedFitsNowhere
  <2>13. FirstFitInOrder'
    <3> SUFFICES ASSUME strategy = "FirstFit", NEW u \in Threads, tc[u].binding = None,
                        bound'[u] # None, NEW q \in procs, q < bound'[u], Fits(u, q)'
                 PROVE  FALSE
      BY <1>1, <1>3 DEF FirstFitInOrder
    <3>1. tc[u].period # 0
      BY <1>1, <2>5 DEF AllocatorInv, AccountedSoFar
    <3>2. Fits(u, q)
      BY <2>11, <3>1
    <3>3. CASE u = t
      <4>1. t \in unbound
        BY <3>3 DEF AllocatorInv, LoopsOK
      <4>2. q \in Candidates(t)
        BY <3>2, <3>3 DEF Candidates
      <4>3. p <= q
        BY <1>6, <4>1, <4>2
      <4>4. p \in Nat /\ q \in Nat /\ q < p
        BY <1>1, <2>2, <2>5, <3>3 DEF procs
      <4> QED
        BY <4>3, <4>4
    <3>4. CASE u # t
      BY <2>5, <3>2, <3>4 DEF AllocatorInv, FirstFitInOrder
    <3> QED
      BY <3>3, <3>4
  <2> QED
    BY <2>6, <2>7, <2>8, <2>9, <2>10, <2>12, <2>13 DEF AllocatorInv
<1> QED
  BY <1>5, <1>6

LEMMA AllocatorInit == Init => AllocatorInv
<1> SUFFICES ASSUME Init PROVE AllocatorInv
  OBVIOUS
<1>1. MaxProcs \in Nat /\ Unit \in Nat
  BY AllocatorAssumption
<1>2. TypeOK
  BY <1>1 DEF Init, TypeOK, Processors
<1>3. LoopsOK /\ AccountedSoFar /\ BoundToProcs /\ Fresh
  BY DEF Init, LoopsOK, AccountedSoFar, BoundToProcs, Fresh
<1>4. NoOverload /\ UnallocatedFitsNowhere /\ FirstFitInOrder
  BY <1>1 DEF Init, NoOverload, UnallocatedFitsNowhere, FirstFitInOrder
<1> QED
  BY <1>2, <1>3, <1>4 DEF AllocatorInv

(* A step that leaves loads, bindings and loops alone keeps the invariant.   *)
LEMMA UnchangedKeeps ==
    ASSUME AllocatorInv,
           UNCHANGED <<input, pre_bound, unbound, used, bound, unallocated>>,
           phase' \in {phase, "done"}, schedulable' \in BOOLEAN,
           phase' # "start", phase # "start"
    PROVE  AllocatorInv'
<1>1. TypeOK'
  BY DEF AllocatorInv, TypeOK, input
<1>2. LoopsOK' /\ AccountedSoFar' /\ BoundToProcs' /\ Fresh'
  BY DEF AllocatorInv, LoopsOK, AccountedSoFar, BoundToProcs, Fresh, input, procs
<1>3. NoOverload' /\ UnallocatedFitsNowhere' /\ FirstFitInOrder'
  BY DEF AllocatorInv, NoOverload, UnallocatedFitsNowhere, FirstFitInOrder, Fits, Util, input, procs
<1> QED
  BY <1>1, <1>2, <1>3 DEF AllocatorInv

LEMMA AllocatorStep == AllocatorInv /\ [Next]_vars => AllocatorInv'
<1> SUFFICES ASSUME AllocatorInv, [Next]_vars PROVE AllocatorInv'
  OBVIOUS
<1>1. CASE NoProcessors
  <2>1. /\ phase = "start" /\ nprocs = 0 /\ unallocated' = Threads /\ phase' = "place"
        /\ UNCHANGED <<tc, nprocs, strategy, pre_bound, unbound, used, bound, schedulable>>
    BY <1>1 DEF NoProcessors, input
  <2>2. pre_bound = {} /\ unbound = {} /\ \A t \in Threads : bound[t] = None
    BY <2>1 DEF AllocatorInv, Fresh
  <2>3. TypeOK'
    BY <2>1 DEF AllocatorInv, TypeOK
  <2>4. LoopsOK' /\ AccountedSoFar' /\ BoundToProcs' /\ Fresh'
    BY <2>1, <2>2 DEF LoopsOK, AccountedSoFar, BoundToProcs, Fresh
  <2>5. procs' = {}
    BY <2>1 DEF procs
  <2>6. NoOverload' /\ UnallocatedFitsNowhere' /\ FirstFitInOrder'
    BY <2>1, <2>2, <2>5 DEF AllocatorInv, NoOverload, UnallocatedFitsNowhere, FirstFitInOrder
  <2> QED
    BY <2>3, <2>4, <2>6 DEF AllocatorInv
<1>2. CASE Split
  <2>1. /\ phase = "start" /\ phase' = "place"
        /\ pre_bound' = {t \in Threads : tc[t].period # 0 /\ tc[t].binding # None}
        /\ unbound' = {t \in Threads : tc[t].period # 0 /\ tc[t].binding = None}
        /\ UNCHANGED <<tc, nprocs, strategy, used, bound, unallocated, schedulable>>
    BY <1>2 DEF Split, input
  <2>2. unallocated = {} /\ \A t \in Threads : bound[t] = None
    BY <2>1 DEF AllocatorInv, Fresh
  <2>3. TypeOK'
    BY <2>1 DEF AllocatorInv, TypeOK
  <2>4. LoopsOK' /\ BoundToProcs' /\ Fresh'
    BY <2>1, <2>2 DEF LoopsOK, BoundToProcs, Fresh
  <2>5. AccountedSoFar'
    BY <2>1, <2>2 DEF AccountedSoFar
  <2>6. NoOverload' /\ UnallocatedFitsNowhere' /\ FirstFitInOrder'
    BY <2>1, <2>2 DEF AllocatorInv, NoOverload, UnallocatedFitsNowhere, FirstFitInOrder
  <2> QED
    BY <2>3, <2>4, <2>5, <2>6 DEF AllocatorInv
<1>3. ASSUME NEW t \in Threads, PlacePreBound(t) PROVE AllocatorInv'
  <2> DEFINE p == IF tc[t].binding \in procs /\ Fits(t, tc[t].binding) THEN tc[t].binding ELSE None
  <2>1. /\ t \in pre_bound /\ phase = "place" /\ Place(t, p)
        /\ pre_bound' = pre_bound \ {t} /\ UNCHANGED <<input, phase, unbound, schedulable>>
    BY <1>3 DEF PlacePreBound, IsFirst
  <2>2. t \notin unbound
    BY <2>1 DEF AllocatorInv, TypeOK
  <2>3. p # None => p \in Candidates(t)
    BY DEF Candidates
  <2>4. p \in {None, tc[t].binding}
    OBVIOUS
  <2>5. unbound' = unbound \ {t}
    BY <2>1, <2>2
  <2> HIDE DEF p
  <2> QED
    BY <2>1, <2>2, <2>3, <2>4, <2>5, PlaceKeeps
<1>4. ASSUME NEW t \in Threads, PlaceUnbound(t) PROVE AllocatorInv'
  <2> DEFINE p == IF strategy = "FirstFit" THEN FirstFit(t) ELSE BestFit(t)
  <2>1. /\ t \in unbound /\ phase = "place" /\ Place(t, p)
        /\ unbound' = unbound \ {t} /\ UNCHANGED <<input, phase, pre_bound, schedulable>>
    BY <1>4 DEF PlaceUnbound, IsFirst
  <2>2. t \notin pre_bound
    BY <2>1 DEF AllocatorInv, TypeOK
  <2>3. nprocs \in Nat /\ None \notin procs
    <3>1. nprocs \in Nat /\ nprocs <= MaxProcs /\ MaxProcs \in Nat
      BY AllocatorAssumption DEF AllocatorInv, TypeOK
    <3> QED
      BY <3>1, AllocatorAssumption DEF procs, Processors
  <2>4. /\ p # None => p \in Candidates(t)
        /\ p = None => Candidates(t) = {}
        /\ strategy = "FirstFit" /\ p # None => \A q \in Candidates(t) : p <= q
    BY <2>3, FirstFitChoice, BestFitChoice DEF AllocatorInv, Candidates
  <2>5. pre_bound' = pre_bound \ {t}
    BY <2>1, <2>2
  <2> HIDE DEF p
  <2> QED
    BY <2>1, <2>2, <2>4, <2>5, PlaceKeeps
<1>5. CASE Report
  <2>1. schedulable' \in BOOLEAN
    BY <1>5 DEF Report
  <2> QED
    BY <1>5, <2>1, UnchangedKeeps DEF Report
<1>6. CASE Terminated \/ UNCHANGED vars
  <2>1. UNCHANGED vars
    BY <1>6 DEF Terminated
  <2>2. TypeOK' /\ LoopsOK' /\ AccountedSoFar' /\ BoundToProcs' /\ Fresh'
    BY <2>1 DEF AllocatorInv, TypeOK, LoopsOK, AccountedSoFar, BoundToProcs, Fresh, procs, vars
  <2>3. NoOverload' /\ UnallocatedFitsNowhere' /\ FirstFitInOrder'
    BY <2>1 DEF AllocatorInv, NoOverload, UnallocatedFitsNowhere, FirstFitInOrder, Fits, Util,
                procs, vars
  <2> QED
    BY <2>2, <2>3 DEF AllocatorInv
<1> QED
  BY <1>1, <1>2, <1>3, <1>4, <1>5, <1>6 DEF Next

LEMMA AllocatorInvariant == Spec => []AllocatorInv
BY AllocatorInit, AllocatorStep, PTL DEF Spec

(* No placement ever overloads a processor, whatever is declared bound to it *)
(* (allocate.rs 228-296).                                                    *)
THEOREM NeverOverloaded == Spec => []NoOverload
<1>1. AllocatorInv => NoOverload
  BY DEF AllocatorInv
<1> QED
  BY <1>1, AllocatorInvariant, PTL

(* The result accounts for every thread with a period, once, and declared    *)
(* bindings are kept (allocate.rs 196-300).                                  *)
THEOREM EveryThreadAccounted == Spec => []Accounted
<1> DEFINE Emptied == phase = "done" => pre_bound = {} /\ unbound = {}
<1>1. Init => Emptied
  BY DEF Init
<1>2. Emptied /\ [Next]_vars => Emptied'
  BY DEF Next, NoProcessors, Split, PlacePreBound, PlaceUnbound, Report, Terminated, vars
<1>3. AllocatorInv /\ Emptied => Accounted
  BY DEF AllocatorInv, AccountedSoFar, Accounted
<1> QED
  BY <1>1, <1>2, <1>3, AllocatorInvariant, PTL DEF Spec

(* A thread is given up only when it fits nowhere, and stays so              *)
(* (allocate.rs 253-296).                                                    *)
THEOREM GivenUpFitsNowhere == Spec => []UnallocatedFitsNowhere
<1>1. AllocatorInv => UnallocatedFitsNowhere
  BY DEF AllocatorInv
<1> QED
  BY <1>1, AllocatorInvariant, PTL

(* First fit is in processor order, at the end as at each placement          *)
(* (allocate.rs 255-268).                                                    *)
THEOREM FirstFitOrdered == Spec => []FirstFitInOrder
<1>1. AllocatorInv => FirstFitInOrder
  BY DEF AllocatorInv
<1> QED
  BY <1>1, AllocatorInvariant, PTL
--------------------------------------------------------------------------------
(* Refinement *)

LEMMA RefinesInit == Init => Abstract!Init
<1> SUFFICES ASSUME Init PROVE Abstract!Init
  OBVIOUS
<1>1. MaxProcs \in Nat /\ Unit \in Nat /\ nprocs \in 0..MaxProcs /\ tc \in [Threads -> Tasks]
  BY AllocatorAssumption DEF Init
<1>2. Valid \subseteq Threads
  BY DEF Valid
<1>3. Need \in [Threads -> Nat]
  <2>1. \A t \in Threads : t \in Valid => tc[t].period # 0
    BY <1>1, AllocatorAssumption DEF Valid
  <2>2. \A t \in Threads : t \in Valid => Util(t) \in Nat
    BY <1>1, <2>1, UtilNat
  <2> QED
    BY <2>2 DEF Need
<1>4. procs \subseteq Processors
  BY <1>1 DEF procs, Processors
<1>5. Allowed \in [Threads -> SUBSET Processors]
  BY <1>4 DEF Allowed
<1>6. Room \in [Processors -> Nat]
  BY <1>1 DEF Room, Init
<1>7. bound = [t \in Threads |-> None] /\ Pending = Threads /\ unallocated = {}
  BY DEF Init, Pending
<1> QED
  BY <1>2, <1>3, <1>5, <1>6, <1>7 DEF Abstract!Init

(* One placement is one decision. *)
LEMMA PlaceRefines ==
    ASSUME AllocatorInv, NEW t \in pre_bound \cup unbound, NEW p,
           p # None => p \in Candidates(t),
           p = None => \A q \in Allowed[t] : ~Fits(t, q),
           t \in pre_bound => p \in {None, tc[t].binding},
           Place(t, p), phase = "place",
           UNCHANGED <<input, phase>>,
           pre_bound' = pre_bound \ {t}, unbound' = unbound \ {t}
    PROVE  Abstract!Next
<1>1. /\ t \in Threads /\ tc \in [Threads -> Tasks] /\ tc[t].period # 0 /\ t \in Valid
      /\ Unit \in Nat /\ procs \subseteq Processors /\ used \in [Processors -> Nat]
      /\ nprocs \in Nat /\ None \notin Processors
      /\ pre_bound \subseteq Threads /\ unbound \subseteq Threads
  BY AllocatorAssumption DEF AllocatorInv, TypeOK, LoopsOK, procs, Processors, Valid
<1>2. Util(t) \in Nat /\ Need[t] = Util(t)
  BY <1>1, UtilNat DEF Need
<1>3. Valid' = Valid /\ Need' = Need /\ Allowed' = Allowed
  BY DEF Valid, Need, Allowed, Util, procs, input
<1>4. Pending = pre_bound \cup unbound /\ Pending' = Pending \ {t} /\ t \in Pending
  BY DEF Pending
<1>5. CASE p = None
  <2>1. unallocated' = unallocated \cup {t} /\ bound' = bound /\ used' = used
    BY <1>5 DEF Place
  <2>2. Room' = Room
    BY <2>1 DEF Room
  <2>3. \A q \in Allowed[t] : Need[t] > Room[q]
    <3> SUFFICES ASSUME NEW q \in Allowed[t] PROVE Need[t] > Room[q]
      OBVIOUS
    <3>1. q \in Processors /\ ~Fits(t, q)
      BY <1>1, <1>5 DEF Allowed
    <3>2. Room[q] = Unit - used[q] /\ used[q] \in Nat
      BY <1>1, <3>1 DEF Room
    <3> QED
      BY <1>1, <1>2, <3>1, <3>2 DEF Fits
  <2>4. Abstract!Refuse({t})
    BY <1>3, <1>4, <2>1, <2>2, <2>3 DEF Abstract!Refuse
  <2> QED
    BY <1>1, <2>4 DEF Abstract!Next
<1>6. CASE p # None
  <2>1. /\ bound' = [bound EXCEPT ![t] = p]
        /\ used' = [used EXCEPT ![p] = used[p] + Util(t)]
        /\ unallocated' = unallocated
    BY <1>6 DEF Place
  <2>2. p \in procs /\ p \in Processors /\ used[p] + Util(t) <= Unit
    BY <1>1, <1>6 DEF Candidates, Fits
  <2>3. p \in Allowed[t]
    <3>1. t \in unbound => tc[t].binding = None
      BY DEF AllocatorInv, LoopsOK
    <3> QED
      BY <1>1, <1>6, <2>2, <3>1 DEF Allowed
  <2>4. Room[p] = Unit - used[p] /\ used[p] \in Nat
    BY <1>1, <2>2 DEF Room
  <2>5. Need[t] <= Room[p]
    BY <1>1, <1>2, <2>2, <2>4
  <2>6. Room' = [Room EXCEPT ![p] = Room[p] - Need[t]]
    <3>1. \A q \in Processors : Unit - used'[q] =
                IF q = p THEN Room[p] - Need[t] ELSE Room[q]
      BY <1>1, <1>2, <2>1, <2>2, <2>4 DEF Room
    <3> QED
      BY <2>2, <3>1 DEF Room
  <2>7. Abstract!Put(t, p)
    BY <1>1, <1>3, <1>4, <2>1, <2>3, <2>5, <2>6 DEF Abstract!Put
  <2> QED
    BY <1>1, <2>2, <2>7 DEF Abstract!Next
<1> QED
  BY <1>5, <1>6

LEMMA RefinesStep == AllocatorInv /\ [Next]_vars => [Abstract!Next]_(Abstract!vars)
<1> SUFFICES ASSUME AllocatorInv, [Next]_vars PROVE [Abstract!Next]_(Abstract!vars)
  OBVIOUS
<1>1. CASE NoProcessors
  <2>1. /\ phase = "start" /\ nprocs = 0 /\ unallocated' = Threads /\ phase' = "place"
        /\ UNCHANGED <<tc, nprocs, pre_bound, unbound, used, bound>>
    BY <1>1 DEF NoProcessors, input
  <2>2. pre_bound = {} /\ unbound = {} /\ unallocated = {}
    BY <2>1 DEF AllocatorInv, Fresh
  <2>3. Valid' = Valid /\ Need' = Need /\ Allowed' = Allowed /\ Room' = Room
    BY <2>1 DEF Valid, Need, Allowed, Room, Util, procs
  <2>4. Pending = Threads /\ Pending' = {}
    BY <2>1, <2>2 DEF Pending
  <2>5. \A t \in Threads : Allowed[t] = {}
    BY <2>1 DEF Allowed, procs
  <2>6. Abstract!Refuse(Threads)
    BY <2>1, <2>2, <2>3, <2>4, <2>5 DEF Abstract!Refuse
  <2> QED
    BY <2>6 DEF Abstract!Next
<1>2. CASE Split
  <2>1. /\ phase = "start" /\ phase' = "place"
        /\ pre_bound' = {t \in Threads : tc[t].period # 0 /\ tc[t].binding # None}
        /\ unbound' = {t \in Threads : tc[t].period # 0 /\ tc[t].binding = None}
        /\ UNCHANGED <<tc, nprocs, used, bound, unallocated>>
    BY <1>2 DEF Split, input
  <2>2. Valid' = Valid /\ Need' = Need /\ Allowed' = Allowed /\ Room' = Room
    BY <2>1 DEF Valid, Need, Allowed, Room, Util, procs
  <2>3. \A t \in Threads : t \in Valid <=> tc[t].period # 0
    <3>1. \A t \in Threads : tc[t].period \in Nat
      BY AllocatorAssumption DEF AllocatorInv, TypeOK
    <3> QED
      BY <3>1 DEF Valid
  <2>4. Pending = Threads /\ Pending' = Pending \cap Valid
    BY <2>1, <2>3 DEF Pending, Valid
  <2>5. Abstract!SetAside
    BY <2>1, <2>2, <2>4 DEF Abstract!SetAside
  <2> QED
    BY <2>5 DEF Abstract!Next
<1>3. ASSUME NEW t \in Threads, PlacePreBound(t) PROVE Abstract!Next
  <2> DEFINE p == IF tc[t].binding \in procs /\ Fits(t, tc[t].binding) THEN tc[t].binding ELSE None
  <2>1. /\ t \in pre_bound /\ phase = "place" /\ Place(t, p)
        /\ pre_bound' = pre_bound \ {t} /\ UNCHANGED <<input, phase, unbound>>
    BY <1>3 DEF PlacePreBound, IsFirst
  <2>2. t \notin unbound /\ tc[t].binding # None
    BY <2>1 DEF AllocatorInv, TypeOK, LoopsOK
  <2>3. p # None => p \in Candidates(t)
    BY DEF Candidates
  <2>4. p = None => \A q \in Allowed[t] : ~Fits(t, q)
    BY <2>2 DEF Allowed
  <2>5. p \in {None, tc[t].binding} /\ unbound' = unbound \ {t}
    BY <2>1, <2>2
  <2> HIDE DEF p
  <2> QED
    BY <2>1, <2>3, <2>4, <2>5, PlaceRefines
<1>4. ASSUME NEW t \in Threads, PlaceUnbound(t) PROVE Abstract!Next
  <2> DEFINE p == IF strategy = "FirstFit" THEN FirstFit(t) ELSE BestFit(t)
  <2>1. /\ t \in unbound /\ phase = "place" /\ Place(t, p)
        /\ unbound' = unbound \ {t} /\ UNCHANGED <<input, phase, pre_bound>>
    BY <1>4 DEF PlaceUnbound, IsFirst
  <2>2. t \notin pre_bound /\ tc[t].binding = None
    BY <2>1 DEF AllocatorInv, TypeOK, LoopsOK
  <2>3. nprocs \in Nat /\ None \notin procs
    <3>1. nprocs \in Nat /\ nprocs <= MaxProcs /\ MaxProcs \in Nat
      BY AllocatorAssumption DEF AllocatorInv, TypeOK
    <3> QED
      BY <3>1, AllocatorAssumption DEF procs, Processors
  <2>4. (p # None => p \in Candidates(t)) /\ (p = None => Candidates(t) = {})
    BY <2>3, FirstFitChoice, BestFitChoice DEF AllocatorInv, Candidates
  <2>5. p = None => \A q \in Allowed[t] : ~Fits(t, q)
    BY <2>2, <2>4 DEF Allowed, Candidates
  <2>6. pre_bound' = pre_bound \ {t}
    BY <2>1, <2>2
  <2> HIDE DEF p
  <2> QED
    BY <2>1, <2>2, <2>4, <2>5, <2>6, PlaceRefines
<1>5. CASE Report \/ Terminated \/ UNCHANGED vars
  <2>1. /\ UNCHANGED <<tc, nprocs, pre_bound, unbound, used, bound, unallocated>>
        /\ (phase = "start") = (phase' = "start")
    BY <1>5 DEF Report, Terminated, vars, input
  <2>2. UNCHANGED <<Valid, Need, Allowed, Room, Pending>>
    BY <2>1 DEF Valid, Need, Allowed, Room, Pending, Util, procs
  <2> QED
    BY <2>1, <2>2 DEF Abstract!vars
<1> QED
  BY <1>1, <1>2, <1>3, <1>4, <1>5 DEF Next

(* For any number of threads and processors and either strategy, the         *)
(* allocator does nothing Placement does not allow: no thread is moved,      *)
(* decided twice, or given up while a processor it may use has room.         *)
THEOREM ImplementsPlacement == Spec => Implements
<1>1. Init => Abstract!Init
  BY RefinesInit
<1>2. AllocatorInv /\ [Next]_vars => [Abstract!Next]_(Abstract!vars)
  BY RefinesStep
<1> QED
  BY <1>1, <1>2, AllocatorInvariant, PTL DEF Spec, Implements, Abstract!Spec

--------------------------------------------------------------------------------
(* Tight packing *)

(* Two processors that hold only threads the allocator placed hold more than  *)
(* one of them could: what was put first on the one that was opened later did *)
(* not fit on the other.  For that the load counts every thread, a processor  *)
(* without threads has none, and best fit puts threads without load on the    *)
(* last processor.                                                            *)
LoadCounted ==
    /\ \A t \in Threads : bound[t] # None => Util(t) <= used[bound[t]]
    /\ \A p \in procs : OnProc(p) = {} => used[p] = 0

LastWhenIdle ==
    strategy # "FirstFit" => \A q \in procs : OwnOnly(q) /\ used[q] = 0 => q = nprocs

TogetherFull ==
    \A p, q \in procs : p # q /\ OwnOnly(p) /\ OwnOnly(q) => used[p] + used[q] > Unit

TightInv == LoadCounted /\ LastWhenIdle /\ TogetherFull

(* Placing a thread keeps the packing tight. *)
LEMMA PlaceKeepsTight ==
    ASSUME AllocatorInv, TightInv, NEW t \in pre_bound \cup unbound, NEW p,
           p # None => p \in Candidates(t),
           t \in unbound /\ strategy = "FirstFit" /\ p # None =>
               \A q \in Candidates(t) : p <= q,
           t \in unbound /\ strategy # "FirstFit" /\ p # None =>
               \A q \in Candidates(t) \ {p} : used[q] < used[p] \/ (used[q] = used[p] /\ q < p),
           Place(t, p), UNCHANGED input
    PROVE  TightInv'
<1>1. /\ t \in Threads /\ tc \in [Threads -> Tasks] /\ tc[t].period # 0
      /\ bound[t] = None /\ None \notin Processors
      /\ nprocs \in Nat /\ nprocs <= MaxProcs /\ Unit \in Nat /\ procs \subseteq Processors
      /\ procs' = procs /\ used \in [Processors -> Nat]
      /\ bound \in [Threads -> Processors \cup {None}]
  BY AllocatorAssumption DEF AllocatorInv, TypeOK, LoopsOK, procs, Processors, input
<1>2. Util(t) \in Nat
  BY <1>1, UtilNat
<1>3. tc' = tc /\ nprocs' = nprocs /\ strategy' = strategy
  BY DEF input
<1>4. \A u : Util(u)' = Util(u)
  BY <1>3 DEF Util
<1>5. CASE p = None
  <2>1. bound' = bound /\ used' = used
    BY <1>5 DEF Place
  <2>2. \A q : OnProc(q)' = OnProc(q) /\ (OwnOnly(q)' <=> OwnOnly(q))
    BY <1>3, <2>1 DEF OnProc, OwnOnly
  <2> QED
    BY <1>1, <1>3, <1>4, <2>1, <2>2 DEF TightInv, LoadCounted, LastWhenIdle, TogetherFull
<1>6. CASE p # None
  <2>1. /\ bound' = [bound EXCEPT ![t] = p]
        /\ used' = [used EXCEPT ![p] = used[p] + Util(t)]
    BY <1>6 DEF Place
  <2>2. p \in procs /\ p \in Processors /\ used[p] + Util(t) <= Unit
    BY <1>1, <1>6 DEF Candidates, Fits
  <2>3. /\ used' \in [Processors -> Nat] /\ used'[p] = used[p] + Util(t)
        /\ \A q \in Processors \ {p} : used'[q] = used[q]
        /\ \A q \in Processors : used[q] <= used'[q]
    BY <1>1, <1>2, <2>1, <2>2
  <2>4. bound'[t] = p /\ \A u \in Threads \ {t} : bound'[u] = bound[u]
    BY <1>1, <2>1
  <2>5. OnProc(p)' = OnProc(p) \cup {t} /\ \A q \in procs \ {p} : OnProc(q)' = OnProc(q)
    BY <1>1, <2>2, <2>4 DEF OnProc
  <2>6. \A q \in procs \ {p} : OwnOnly(q)' <=> OwnOnly(q)
    BY <1>3, <2>5 DEF OwnOnly
  <2>7. OwnOnly(p)' => t \in unbound /\ (OwnOnly(p) \/ OnProc(p) = {})
    <3> SUFFICES ASSUME OwnOnly(p)' PROVE t \in unbound /\ (OwnOnly(p) \/ OnProc(p) = {})
      OBVIOUS
    <3>1. \A u \in OnProc(p) \cup {t} : tc[u].binding = None
      BY <1>3, <2>5 DEF OwnOnly
    <3>2. t \in unbound
      BY <3>1 DEF AllocatorInv, LoopsOK
    <3> QED
      BY <3>1, <3>2 DEF OwnOnly
  <2>8. LoadCounted'
    <3>1. ASSUME NEW u \in Threads, bound'[u] # None PROVE Util(u) <= used'[bound'[u]]
      <4>1. CASE u = t
        BY <1>1, <1>2, <2>2, <2>3, <2>4, <4>1
      <4>2. CASE u # t
        <5>1. bound'[u] = bound[u] /\ bound[u] \in Processors /\ Util(u) <= used[bound[u]]
          BY <1>1, <2>4, <3>1, <4>2 DEF TightInv, LoadCounted
        <5>2. Util(u) \in Nat
          BY <1>1, <5>1, <3>1, UtilNat DEF AllocatorInv, AccountedSoFar
        <5> QED
          BY <1>1, <2>3, <5>1, <5>2
      <4> QED
        BY <4>1, <4>2
    <3>2. ASSUME NEW q \in procs, OnProc(q)' = {} PROVE used'[q] = 0
      BY <1>1, <2>3, <2>5, <3>2 DEF TightInv, LoadCounted
    <3> QED
      BY <1>1, <1>4, <3>1, <3>2 DEF LoadCounted
  (* When t opens p, it fits on no other processor with placed threads only. *)
  <2>9. ASSUME t \in unbound, OnProc(p) = {}, NEW q \in procs \ {p}, OwnOnly(q), Fits(t, q)
        PROVE  FALSE
    <3>1. q \in Candidates(t) /\ used[p] = 0 /\ q \in Processors /\ used[q] \in Nat
      BY <1>1, <2>2, <2>9 DEF Candidates, TightInv, LoadCounted
    <3>2. p \in Nat /\ q \in Nat /\ p <= nprocs
      BY <1>1, <2>2 DEF procs
    <3>3. CASE strategy = "FirstFit"
      <4>1. p < q
        BY <1>6, <2>9, <3>1, <3>2, <3>3
      <4>2. PICK u \in Threads : bound[u] = q /\ tc[u].binding = None
        BY <2>9 DEF OwnOnly, OnProc
      <4>3. ~Fits(u, p)
        BY <1>1, <2>2, <3>1, <3>3, <4>1, <4>2 DEF AllocatorInv, FirstFitInOrder
      <4>4. Util(u) \in Nat /\ Util(u) <= used[q] /\ used[q] <= Unit
        <5>1. tc[u].period # 0
          BY <1>1, <3>1, <4>2 DEF AllocatorInv, AccountedSoFar
        <5>2. Util(u) <= used[q]
          BY <1>1, <3>1, <4>2 DEF TightInv, LoadCounted
        <5> QED
          BY <1>1, <3>1, <5>1, <5>2, UtilNat DEF AllocatorInv, NoOverload
      <4> QED
        BY <1>1, <3>1, <4>3, <4>4 DEF Fits
    <3>4. CASE strategy # "FirstFit"
      <4>1. used[q] = 0 /\ q < p
        BY <1>6, <2>9, <3>1, <3>2, <3>4
      <4>2. q = nprocs
        BY <2>9, <3>4, <4>1 DEF TightInv, LastWhenIdle
      <4> QED
        BY <1>1, <3>2, <4>1, <4>2
    <3> QED
      BY <3>3, <3>4
  <2>10. LastWhenIdle'
    <3> SUFFICES ASSUME strategy # "FirstFit", NEW q \in procs, OwnOnly(q)', used'[q] = 0
                 PROVE  q = nprocs
      BY <1>1, <1>3 DEF LastWhenIdle
    <3>1. q \in Processors /\ used[q] \in Nat /\ used[q] = 0
      BY <1>1, <2>3
    <3>2. CASE OwnOnly(q)
      BY <3>1, <3>2 DEF TightInv, LastWhenIdle
    <3>3. CASE ~OwnOnly(q)
      <4>1. q = p /\ t \in unbound
        BY <2>6, <2>7, <3>3
      <4>2. Util(t) = 0 /\ used[p] = 0
        BY <1>2, <2>3, <3>1, <4>1
      <4>3. nprocs \in Candidates(t)
        <5>1. nprocs \in procs
          BY <1>1, <2>2 DEF procs
        <5>2. nprocs \in Processors /\ used[nprocs] \in Nat /\ used[nprocs] <= Unit
          BY <1>1, <5>1 DEF AllocatorInv, NoOverload
        <5> QED
          BY <1>1, <4>2, <5>1, <5>2 DEF Candidates, Fits
      <4>4. used[nprocs] \in Nat /\ p \in Nat /\ p <= nprocs
        BY <1>1, <2>2, <4>3 DEF Candidates, procs
      <4> QED
        BY <1>1, <1>6, <4>1, <4>2, <4>3, <4>4
    <3> QED
      BY <3>2, <3>3
  <2>11. TogetherFull'
    <3>1. ASSUME NEW q \in procs \ {p}, OwnOnly(p)', OwnOnly(q)' PROVE used'[p] + used'[q] > Unit
      <4>1. OwnOnly(q) /\ t \in unbound /\ q \in Processors /\ used[q] \in Nat /\ used'[q] = used[q]
        BY <1>1, <2>3, <2>6, <2>7, <3>1
      <4>2. CASE OwnOnly(p)
        <5>1. used[p] + used[q] > Unit
          BY <2>2, <3>1, <4>1, <4>2 DEF TightInv, TogetherFull
        <5> QED
          BY <1>1, <1>2, <2>2, <2>3, <4>1, <5>1
      <4>3. CASE OnProc(p) = {}
        <5>1. ~Fits(t, q)
          BY <2>9, <4>1, <4>3
        <5>2. used[p] \in Nat
          BY <1>1, <2>2
        <5> QED
          BY <1>1, <1>2, <2>3, <4>1, <5>1, <5>2 DEF Fits
      <4> QED
        BY <2>7, <3>1, <4>2, <4>3
    <3>2. ASSUME NEW q \in procs \ {p}, NEW r \in procs \ {p}, q # r, OwnOnly(q)', OwnOnly(r)'
          PROVE  used'[q] + used'[r] > Unit
      BY <1>1, <2>3, <2>6, <3>2 DEF TightInv, TogetherFull
    <3>3. ASSUME NEW q \in procs, NEW r \in procs, q # r, OwnOnly(q)', OwnOnly(r)'
          PROVE  used'[q] + used'[r] > Unit
      <4>1. CASE q = p
        BY <3>1, <3>3, <4>1
      <4>2. CASE r = p
        <5>1. used'[p] + used'[q] > Unit
          BY <3>1, <3>3, <4>2
        <5>2. used'[p] \in Nat /\ used'[q] \in Nat
          BY <1>1, <2>2, <2>3
        <5> QED
          BY <4>2, <5>1, <5>2
      <4>3. CASE q # p /\ r # p
        BY <3>2, <3>3, <4>3
      <4> QED
        BY <4>1, <4>2, <4>3
    <3> QED
      BY <1>1, <3>3 DEF TogetherFull
  <2> QED
    BY <2>8, <2>10, <2>11 DEF TightInv
<1> QED
  BY <1>5, <1>6

LEMMA TightStep == AllocatorInv /\ TightInv /\ [Next]_vars => TightInv'
<1> SUFFICES ASSUME AllocatorInv, TightInv, [Next]_vars PROVE TightInv'
  OBVIOUS
<1>1. CASE NoProcessors \/ Split \/ Report \/ Terminated \/ UNCHANGED vars
  <2>1. UNCHANGED <<tc, nprocs, strategy, used, bound>>
    BY <1>1 DEF NoProcessors, Split, Report, Terminated, vars, input
  <2> QED
    BY <2>1 DEF TightInv, LoadCounted, LastWhenIdle, TogetherFull, OwnOnly, OnProc, Util, procs
<1>2. ASSUME NEW t \in Threads, PlacePreBound(t) PROVE TightInv'
  <2> DEFINE p == IF tc[t].binding \in procs /\ Fits(t, tc[t].binding) THEN tc[t].binding ELSE None
  <2>1. t \in pre_bound /\ Place(t, p) /\ UNCHANGED input
    BY <1>2 DEF PlacePreBound, IsFirst
  <2>2. t \notin unbound
    BY <2>1 DEF AllocatorInv, TypeOK
  <2>3. p # None => p \in Candidates(t)
    BY DEF Candidates
  <2> HIDE DEF p
  <2> QED
    BY <2>1, <2>2, <2>3, PlaceKeepsTight
<1>3. ASSUME NEW t \in Threads, PlaceUnbound(t) PROVE TightInv'
  <2> DEFINE p == IF strategy = "FirstFit" THEN FirstFit(t) ELSE BestFit(t)
  <2>1. t \in unbound /\ Place(t, p) /\ UNCHANGED input
    BY <1>3 DEF PlaceUnbound, IsFirst
  <2>2. nprocs \in Nat /\ None \notin procs /\ TypeOK /\ NoOverload
    <3>1. nprocs \in Nat /\ nprocs <= MaxProcs /\ MaxProcs \in Nat
      BY AllocatorAssumption DEF AllocatorInv, TypeOK
    <3> QED
      BY <3>1, AllocatorAssumption DEF procs, Processors, AllocatorInv
  <2>3. /\ p # None => p \in Candidates(t)
        /\ strategy = "FirstFit" /\ p # None => \A q \in Candidates(t) : p <= q
        /\ strategy # "FirstFit" /\ p # None =>
             \A q \in Candidates(t) \ {p} : used[q] < used[p] \/ (used[q] = used[p] /\ q < p)
    BY <2>2, FirstFitChoice, BestFitChoice DEF Candidates
  <2> HIDE DEF p
  <2> QED
    BY <2>1, <2>3, PlaceKeepsTight
<1> QED
  BY <1>1, <1>2, <1>3 DEF Next

(* The packing is tight under either strategy: of the processors that hold    *)
(* only threads the allocator placed, at most one is loaded to half or less   *)
(* (allocate.rs 253-296).                                                     *)
THEOREM PackedTightly == Spec => []PacksTightly
<1>1. Init => TightInv
  <2> SUFFICES ASSUME Init PROVE TightInv
    OBVIOUS
  <2>1. /\ \A t \in Threads : bound[t] = None
        /\ \A p \in Processors : used[p] = 0
        /\ procs \subseteq Processors /\ None \notin Processors
    BY AllocatorAssumption DEF Init, procs, Processors
  <2>2. \A p \in procs : ~OwnOnly(p)
    BY <2>1 DEF OwnOnly, OnProc
  <2> QED
    BY <2>1, <2>2 DEF TightInv, LoadCounted, LastWhenIdle, TogetherFull
<1>2. AllocatorInv /\ TightInv => PacksTightly
  <2> SUFFICES ASSUME AllocatorInv, TightInv, NEW p \in procs, NEW q \in procs,
                      p # q, OwnOnly(p), OwnOnly(q)
               PROVE  2 * used[p] > Unit \/ 2 * used[q] > Unit
    BY DEF PacksTightly
  <2>1. used[p] + used[q] > Unit
    BY DEF TightInv, TogetherFull
  <2>2. used[p] \in Nat /\ used[q] \in Nat /\ Unit \in Nat
    BY AllocatorAssumption DEF AllocatorInv, TypeOK, procs, Processors
  <2> QED
    BY <2>1, <2>2
<1> QED
  BY <1>1, <1>2, TightStep, AllocatorInvariant, PTL DEF Spec

--------------------------------------------------------------------------------
(* The exact solver *)

(* The load of a processor is the sum of the utilizations of its threads. *)
LoadExact == \A p \in procs : used[p] = SumFunctionOnSet(Demand, OnProc(p))

(* Threads with a place have a demand. *)
LEMMA PlacedHaveDemand ==
    ASSUME AllocatorInv, NEW p \in procs
    PROVE  /\ OnProc(p) \subseteq Valid /\ IsFiniteSet(OnProc(p)) /\ IsFiniteSet(Valid)
           /\ \A t \in Valid : Demand[t] = Util(t) /\ Util(t) \in Nat
<1>1. /\ tc \in [Threads -> Tasks] /\ nprocs \in Nat /\ procs \subseteq Processors
      /\ None \notin Processors /\ \A t \in Threads : tc[t].period \in Nat
  BY AllocatorAssumption DEF AllocatorInv, TypeOK, procs, Processors
<1>2. OnProc(p) \subseteq Valid
  BY <1>1 DEF OnProc, Valid, AllocatorInv, AccountedSoFar
<1>3. IsFiniteSet(OnProc(p)) /\ IsFiniteSet(Valid)
  <2>1. \A S \in SUBSET Threads : IsFiniteSet(S)
    BY AllocatorAssumption, FS_Subset
  <2> QED
    BY <2>1 DEF OnProc, Valid
<1>4. ASSUME NEW t \in Valid PROVE Demand[t] = Util(t) /\ Util(t) \in Nat
  <2>1. t \in Threads /\ tc[t].period # 0
    BY <1>1 DEF Valid
  <2> QED
    BY <1>1, <2>1, UtilNat DEF Demand
<1> QED
  BY <1>2, <1>3, <1>4

LEMMA PlaceKeepsLoad ==
    ASSUME AllocatorInv, LoadExact, NEW t \in pre_bound \cup unbound, NEW p,
           p # None => p \in Candidates(t),
           Place(t, p), UNCHANGED input
    PROVE  LoadExact'
<1>1. /\ t \in Threads /\ tc \in [Threads -> Tasks] /\ t \in Valid
      /\ bound[t] = None /\ None \notin Processors
      /\ nprocs \in Nat /\ nprocs <= MaxProcs /\ procs \subseteq Processors
      /\ procs' = procs /\ used \in [Processors -> Nat]
      /\ bound \in [Threads -> Processors \cup {None}]
  BY AllocatorAssumption DEF AllocatorInv, TypeOK, LoopsOK, procs, Processors, input, Valid
<1>2. Demand' = Demand
  BY DEF Demand, Valid, Util, input
<1>3. CASE p = None
  <2>1. bound' = bound /\ used' = used
    BY <1>3 DEF Place
  <2> QED
    BY <1>1, <1>2, <2>1 DEF LoadExact, OnProc
<1>4. CASE p # None
  <2>1. /\ bound' = [bound EXCEPT ![t] = p]
        /\ used' = [used EXCEPT ![p] = used[p] + Util(t)]
    BY <1>4 DEF Place
  <2>2. p \in procs /\ p \in Processors
    BY <1>1, <1>4 DEF Candidates
  <2>3. bound'[t] = p /\ \A u \in Threads \ {t} : bound'[u] = bound[u]
    BY <1>1, <2>1
  <2>4. OnProc(p)' = OnProc(p) \cup {t} /\ t \notin OnProc(p)
        /\ \A q \in procs \ {p} : OnProc(q)' = OnProc(q)
    BY <1>1, <2>2, <2>3 DEF OnProc
  <2>5. PICK D, S, n : D = Demand /\ S = OnProc(p) /\ n = Util(t)
    OBVIOUS
  <2>6. SumFunctionOnSet(D, S \cup {t}) = SumFunctionOnSet(D, S) + n
    <3>1. IsFiniteSet(S) /\ t \notin S /\ D[t] = n /\ \A x \in S \cup {t} : D[x] \in Nat
      BY <1>1, <2>2, <2>4, <2>5, PlacedHaveDemand
    <3>2. SumFunctionOnSet(D, S \cup {t}) = SumFunctionOnSet(D, S) + D[t]
      BY <3>1, SumInsert
    <3> QED
      BY <3>1, <3>2
  <2>7. used'[p] = SumFunctionOnSet(Demand, OnProc(p))'
    <3>1. used'[p] = used[p] + n
      BY <1>1, <2>1, <2>2, <2>5
    <3>2. used[p] = SumFunctionOnSet(D, S)
      BY <2>2, <2>5 DEF LoadExact
    <3>3. OnProc(p)' = S \cup {t} /\ Demand' = D
      BY <1>2, <2>4, <2>5
    <3> QED
      BY <2>6, <3>1, <3>2, <3>3
  <2>8. ASSUME NEW q \in procs, q # p PROVE used'[q] = SumFunctionOnSet(Demand, OnProc(q))'
    <3>1. used'[q] = used[q] /\ OnProc(q)' = OnProc(q)
      BY <1>1, <2>1, <2>2, <2>4, <2>8
    <3> QED
      BY <1>2, <3>1 DEF LoadExact
  <2> QED
    BY <1>1, <2>7, <2>8 DEF LoadExact
<1> QED
  BY <1>3, <1>4

LEMMA LoadStep == AllocatorInv /\ LoadExact /\ [Next]_vars => LoadExact'
<1> SUFFICES ASSUME AllocatorInv, LoadExact, [Next]_vars PROVE LoadExact'
  OBVIOUS
<1>1. CASE NoProcessors \/ Split \/ Report \/ Terminated \/ UNCHANGED vars
  <2>1. UNCHANGED <<tc, nprocs, used, bound>>
    BY <1>1 DEF NoProcessors, Split, Report, Terminated, vars, input
  <2> QED
    BY <2>1 DEF LoadExact, OnProc, Demand, Valid, Util, procs
<1>2. ASSUME NEW t \in Threads, PlacePreBound(t) PROVE LoadExact'
  <2> DEFINE p == IF tc[t].binding \in procs /\ Fits(t, tc[t].binding) THEN tc[t].binding ELSE None
  <2>1. t \in pre_bound /\ Place(t, p) /\ UNCHANGED input
    BY <1>2 DEF PlacePreBound, IsFirst
  <2>2. p # None => p \in Candidates(t)
    BY DEF Candidates
  <2> HIDE DEF p
  <2> QED
    BY <2>1, <2>2, PlaceKeepsLoad
<1>3. ASSUME NEW t \in Threads, PlaceUnbound(t) PROVE LoadExact'
  <2> DEFINE p == IF strategy = "FirstFit" THEN FirstFit(t) ELSE BestFit(t)
  <2>1. t \in unbound /\ Place(t, p) /\ UNCHANGED input
    BY <1>3 DEF PlaceUnbound, IsFirst
  <2>2. nprocs \in Nat /\ TypeOK /\ NoOverload
    BY AllocatorAssumption DEF AllocatorInv, TypeOK
  <2>3. p # None => p \in Candidates(t)
    BY <2>2, FirstFitChoice, BestFitChoice
  <2> HIDE DEF p
  <2> QED
    BY <2>1, <2>3, PlaceKeepsLoad
<1> QED
  BY <1>1, <1>2, <1>3 DEF Next

(* What the heuristic finds is one of the exact solver's solutions: the       *)
(* optimum of solve_milp is never worse (milp.rs 331-372).                    *)
THEOREM ExactSolverDominates == Spec => []MilpDominates
<1> DEFINE Emptied == phase = "done" => pre_bound = {} /\ unbound = {}
<1>1. Init => LoadExact /\ Emptied
  <2> SUFFICES ASSUME Init PROVE LoadExact
    BY DEF Init
  <2>1. AllocatorInv
    BY AllocatorInit
  <2> SUFFICES ASSUME NEW p \in procs PROVE used[p] = SumFunctionOnSet(Demand, OnProc(p))
    BY DEF LoadExact
  <2>2. used[p] = 0 /\ OnProc(p) = {}
    <3>1. procs \subseteq Processors /\ None \notin Processors
      BY AllocatorAssumption DEF Init, procs, Processors
    <3> QED
      BY <3>1 DEF Init, OnProc
  <2>3. PICK D : D = Demand
    OBVIOUS
  <2>4. SumFunctionOnSet(D, {}) = 0
    BY SumEmpty
  <2> QED
    BY <2>2, <2>3, <2>4
<1>2. Emptied /\ [Next]_vars => Emptied'
  BY DEF Next, NoProcessors, Split, PlacePreBound, PlaceUnbound, Report, Terminated, vars
<1>3. AllocatorInv /\ LoadExact /\ Emptied => MilpDominates
  <2> SUFFICES ASSUME AllocatorInv, LoadExact, Emptied, phase = "done", feasible, procs # {}
               PROVE  \E a \in MilpFeasible : \A p \in procs : \E q \in procs : LoadUnder(a, p) <= used[q]
    BY DEF MilpDominates
  <2> DEFINE a == [t \in Valid |-> bound[t]]
  <2>1. /\ nprocs \in Nat /\ procs \subseteq Processors /\ None \notin Processors
        /\ used \in [Processors -> Nat] /\ Valid \subseteq Threads
    BY AllocatorAssumption DEF AllocatorInv, TypeOK, procs, Processors, Valid
  <2>2. \A t \in Valid : bound[t] \in procs
    BY <2>1 DEF AllocatorInv, AccountedSoFar, BoundToProcs, feasible, Valid
  <2>3. a \in [Valid -> procs]
    BY <2>2
  <2>4. ASSUME NEW p \in procs PROVE LoadUnder(a, p) = used[p]
    <3>1. {t \in Valid : a[t] = p} = OnProc(p)
      <4>1. OnProc(p) \subseteq Valid
        BY PlacedHaveDemand
      <4> QED
        BY <2>1, <4>1 DEF OnProc
    <3> QED
      BY <3>1 DEF LoadUnder, LoadExact
  <2>5. \A t \in Valid : tc[t].binding \in procs => a[t] = tc[t].binding
    BY <2>1, <2>2 DEF AllocatorInv, AccountedSoFar
  <2> HIDE DEF a
  <2>6. \A p \in procs : LoadUnder(a, p) <= Unit
    BY <2>1, <2>4 DEF AllocatorInv, NoOverload
  <2>7. a \in MilpFeasible
    BY <2>3, <2>5, <2>6 DEF MilpFeasible
  <2>8. \A p \in procs : LoadUnder(a, p) <= used[p]
    BY <2>1, <2>4
  <2> QED
    BY <2>7, <2>8
<1> QED
  BY <1>1, <1>2, <1>3, LoadStep, AllocatorInvariant, PTL DEF Spec

================================================================================
