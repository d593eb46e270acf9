-------------------------- MODULE SystemInstanceProofs --------------------------
(***************************************************************************)
(* SystemInstance, for every set of implementations, every declaration and *)
(* every limit.                                                            *)
(*                                                                         *)
(* The search: detect_circular_containment reports a cycle if and only if  *)
(* there is one.  The pending calls are the path; what is explored is      *)
(* closed under the subcomponents and has no cycle (DetectInv).            *)
(*                                                                         *)
(* The builder: the arena is a tree in which a component that is not being *)
(* built has one child for every element of every subcomponent, and each   *)
(* pending call has allocated exactly the elements before the place where  *)
(* it stands (BuildInv).  When no call is pending, that is the unfolding   *)
(* of the root.  A component at the depth limit ends a path of expansions  *)
(* longer than there are implementations: one of them comes twice.         *)
(*                                                                         *)
(* compute_soms: after k rounds the selections are different choices of    *)
(* one mode for each of the first k modal components, all of them or one   *)
(* more than the limit (SomInv).                                           *)
(***************************************************************************)
EXTENDS SystemInstance, SumTheorems, SequenceTheorems

Keys == Impls \cup {NoImpl}
Call == [key : Keys, next : Nat \ {0}]

(* j is the key dfs is called with for a subcomponent of i. *)
Leads(d, i, j) ==
    i \in Impls /\ \E k \in DOMAIN d[i].subs : Recurses(d[i].subs[k]) /\ Key(d[i].subs[k]) = j

DetectType ==
    /\ decl \in [Impls -> Implementation]
    /\ calls \in Seq(Call)
    /\ path \in Seq(Keys)
    /\ visited \subseteq Keys

(* The pending calls are the path, which has no repetition and is what      *)
(* visiting holds.                                                          *)
StackInv ==
    /\ Len(calls) = Len(path) /\ Len(path) > 0
    /\ \A k \in 1..Len(path) : calls[k].key = path[k]
    /\ \A j, k \in 1..Len(path) : path[j] = path[k] => j = k
    /\ visiting = {path[k] : k \in 1..Len(path)}
    /\ path[1] = Root
    /\ \A k \in 1..(Len(path) - 1) : Leads(decl, path[k], path[k + 1])

(* Every subcomponent a pending call has passed is explored, or is the one  *)
(* the next call on the stack is for.                                       *)
PassedInv ==
    \A k \in 1..Len(calls) : calls[k].key \in Impls =>
        \A n \in DOMAIN decl[calls[k].key].subs :
            n < calls[k].next /\ Recurses(decl[calls[k].key].subs[n]) =>
                \/ Key(decl[calls[k].key].subs[n]) \in visited
                \/ k < Len(calls) /\ Key(decl[calls[k].key].subs[n]) = calls[k + 1].key

(* V is closed, and no part of it goes round in itself. *)
Explored(d, V) ==
    /\ \A i \in V, j \in Keys : Leads(d, i, j) => j \in V
    /\ \A C \in SUBSET V : C # {} => \E i \in C : \A j \in C : ~Leads(d, i, j)

DetectInv ==
    /\ DetectType
    /\ Explored(decl, visited)
    /\ phase = "detect" =>
        StackInv /\ PassedInv /\ cycle = << >> /\ visited \cap visiting = {}
    /\ CyclesReported

(* Front drops the last element. *)
LEMMA FrontFacts ==
    ASSUME NEW S, NEW s \in Seq(S), Len(s) > 0
    PROVE  /\ Front(s) \in Seq(S) /\ Len(Front(s)) = Len(s) - 1
           /\ \A k \in 1..(Len(s) - 1) : Front(s)[k] = s[k]
<1>1. Len(s) \in Nat /\ 1 \in 1..(Len(s) + 1) /\ Len(s) - 1 \in 0..Len(s)
  OBVIOUS
<1> DEFINE n == Len(s) - 1
           f == SubSeq(s, 1, n)
<1>2. /\ f \in Seq(S)
      /\ Len(f) = IF 1 <= n THEN n - 1 + 1 ELSE 0
      /\ \A k \in 1..(n - 1 + 1) : f[k] = s[1 + k - 1]
  <2>1. n \in 0..Len(s) /\ 1 \in 1..(Len(s) + 1)
    BY <1>1
  <2> HIDE DEF n
  <2> QED
    BY <2>1, SubSeqProperties
<1> HIDE DEF f
<1>3. Len(f) = n
  <2>1. n \in Nat
    BY <1>1
  <2> HIDE DEF n
  <2>2. CASE n = 0
    BY <1>2, <2>2
  <2>3. CASE n > 0
    BY <1>2, <2>1, <2>3
  <2> QED
    BY <2>1, <2>2, <2>3
<1>4. ASSUME NEW k \in 1..(Len(s) - 1)
      PROVE  f[k] = s[k]
  <2>1. k \in 1..(n - 1 + 1) /\ 1 + k - 1 = k
    BY <1>1
  <2> QED
    BY <1>2, <2>1
<1> QED
  BY <1>2, <1>3, <1>4 DEF f, Front

(* A classifier all of whose subcomponents are explored can be added to     *)
(* the explored ones.                                                       *)
LEMMA ExploreOne ==
    ASSUME NEW d, NEW V \in SUBSET Keys, Explored(d, V), NEW x \in Keys \ V,
           \A j \in Keys : Leads(d, x, j) => j \in V
    PROVE  Explored(d, V \cup {x})
<1>1. \A i \in V \cup {x}, j \in Keys : Leads(d, i, j) => j \in V \cup {x}
  BY DEF Explored
<1>2. ASSUME NEW C \in SUBSET (V \cup {x}), C # {}
      PROVE  \E i \in C : \A j \in C : ~Leads(d, i, j)
  <2>1. CASE C \cap V = {}
    <3>1. C = {x}
      BY <1>2, <2>1
    <3>2. ~Leads(d, x, x)
      OBVIOUS
    <3> QED
      BY <3>1, <3>2
  <2>2. CASE C \cap V # {}
    <3>1. PICK i \in C \cap V : \A j \in C \cap V : ~Leads(d, i, j)
      BY <2>2 DEF Explored
    <3>2. ~Leads(d, i, x)
      BY <3>1 DEF Explored
    <3> QED
      BY <3>1, <3>2
  <2> QED
    BY <2>1, <2>2
<1> QED
  BY <1>1, <1>2 DEF Explored

(* Between implementations, what dfs is called for is what Encloses says. *)
LEMMA LeadsIsEncloses ==
    ASSUME decl \in [Impls -> Implementation], NEW i \in Impls, NEW j \in Impls
    PROVE  Leads(decl, i, j) <=> Encloses(i, j)
<1>1. NoImpl \notin Impls
  BY InstanceAssumption
<1>2. \A k \in DOMAIN decl[i].subs :
        Recurses(decl[i].subs[k]) /\ Key(decl[i].subs[k]) = j
        <=> decl[i].subs[k].cls.kind = "impl" /\ ~decl[i].subs[k].indirect /\ decl[i].subs[k].cls.of = j
  BY <1>1 DEF Recurses, Key
<1> QED
  BY <1>2 DEF Leads, Encloses

(* The current call, while it has subcomponents left, is for an             *)
(* implementation, and leads to the current subcomponent's key.             *)
LEMMA TopFacts ==
    ASSUME DetectType, StackInv
    PROVE  /\ Len(calls) \in Nat /\ calls # << >>
           /\ Top = calls[Len(calls)] /\ Top \in Call /\ Top.key = path[Len(path)]
           /\ ~TopDone => /\ Top.key \in Impls
                          /\ TopSub = decl[Top.key].subs[Top.next]
                          /\ Top.next \in DOMAIN decl[Top.key].subs
                          /\ Key(TopSub) \in Keys
                          /\ Recurses(TopSub) => Leads(decl, Top.key, Key(TopSub))
<1>1. Len(calls) \in Nat /\ Len(calls) = Len(path) /\ Len(calls) > 0 /\ calls # << >>
  BY DEF DetectType, StackInv
<1>2. Top = calls[Len(calls)] /\ Top \in Call /\ Top.key = path[Len(path)]
  BY <1>1 DEF DetectType, StackInv, Top, Last
<1>3. ASSUME ~TopDone
      PROVE  /\ Top.key \in Impls
             /\ TopSub = decl[Top.key].subs[Top.next]
             /\ Top.next \in DOMAIN decl[Top.key].subs
  <2>1. Top.key \in Keys /\ Top.next \in Nat \ {0}
    BY <1>2 DEF Call
  <2>2. Top.key # NoImpl
    BY <1>3, <2>1 DEF TopDone, OwnSubs
  <2>3. Top.key \in Impls /\ OwnSubs(Top.key) = decl[Top.key].subs
    BY <2>1, <2>2 DEF Keys, OwnSubs
  <2>4. decl[Top.key].subs \in Seq(Subcomponent)
    BY <2>3 DEF DetectType, Implementation
  <2> QED
    BY <1>3, <2>1, <2>3, <2>4 DEF TopDone, TopSub
<1>4. ASSUME ~TopDone
      PROVE  Key(TopSub) \in Keys
  <2>1. TopSub \in Subcomponent
    BY <1>3, <1>4 DEF DetectType, Implementation
  <2>2. TopSub.cls \in Classifier
    BY <2>1 DEF Subcomponent
  <2> QED
    BY <2>2 DEF Classifier, Key, Keys
<1> QED
  BY <1>1, <1>2, <1>3, <1>4 DEF Leads

(* The search before its first step. *)
LEMMA InitDetect == Init => DetectInv
<1> SUFFICES ASSUME Init PROVE DetectInv
  OBVIOUS
<1>1. Root \in Impls /\ Declarations \subseteq [Impls -> Implementation]
  BY InstanceAssumption
<1>2. DetectType
  <2>1. [key |-> Root, next |-> 1] \in Call /\ Root \in Keys
    BY <1>1 DEF Call, Keys
  <2> QED
    BY <1>1, <2>1 DEF Init, DetectType
<1>3. Explored(decl, visited)
  BY DEF Init, Explored
<1>4. StackInv
  BY DEF Init, StackInv
<1>5. PassedInv
  <2>1. Len(calls) = 1 /\ calls[1].key = Root /\ calls[1].next = 1
    BY DEF Init
  <2>2. decl[Root].subs \in Seq(Subcomponent)
    BY <1>1, <1>2 DEF DetectType, Implementation
  <2>3. \A n \in DOMAIN decl[Root].subs : ~(n < 1)
    BY <2>2
  <2> QED
    BY <2>1, <2>3 DEF PassedInv
<1>6. visited \cap visiting = {} /\ cycle = << >> /\ phase = "detect"
  BY DEF Init
<1> QED
  BY <1>2, <1>3, <1>4, <1>5, <1>6 DEF DetectInv, CyclesReported

(* The current call moves on to its next subcomponent; the rest stays. *)
LEMMA AdvancedFacts ==
    ASSUME DetectType, StackInv
    PROVE  /\ Advanced \in Seq(Call) /\ Len(Advanced) = Len(calls)
           /\ \A k \in 1..Len(calls) : Advanced[k].key = calls[k].key
           /\ \A k \in 1..(Len(calls) - 1) : Advanced[k] = calls[k]
           /\ Advanced[Len(calls)].next = Top.next + 1
<1> DEFINE n == Len(calls)
           e == [calls[n] EXCEPT !.next = @ + 1]
           moved == [calls EXCEPT ![n] = e]
<1>1. n \in Nat /\ n > 0 /\ Top = calls[n] /\ Top \in Call /\ calls \in Seq(Call)
  BY TopFacts DEF StackInv, DetectType
<1>2. e \in Call /\ e.key = calls[n].key /\ e.next = calls[n].next + 1
  BY <1>1 DEF Call
<1>3. Advanced = moved
  BY DEF Advanced
<1> HIDE DEF e
<1>4. n \in 1..Len(calls)
  BY <1>1
<1>5. /\ moved \in Seq(Call) /\ Len(moved) = Len(calls)
      /\ \A j \in 1..Len(calls) : moved[j] = IF j = n THEN e ELSE calls[j]
  BY <1>1, <1>2, <1>4, ExceptSeq
<1> HIDE DEF moved
<1> QED
  BY <1>1, <1>2, <1>3, <1>5

(* Passing a subcomponent that needs no call. *)
LEMMA SkipKeeps == DetectInv /\ DfsSkip => DetectInv'
<1> SUFFICES ASSUME DetectInv, DfsSkip PROVE DetectInv'
  OBVIOUS
<1> DEFINE n == Len(calls)
<1>1. DetectType /\ StackInv /\ PassedInv /\ ~TopDone /\ visited \cap visiting = {} /\ cycle = << >>
  BY DEF DetectInv, DfsSkip
<1>2. /\ n \in Nat /\ n > 0 /\ n = Len(path) /\ Top = calls[n] /\ Top \in Call
      /\ Top.key \in Impls /\ TopSub = decl[Top.key].subs[Top.next]
  BY <1>1, TopFacts DEF StackInv
<1>3. /\ calls' = Advanced
      /\ UNCHANGED <<decl, phase, visiting, visited, path, cycle>> /\ phase = "detect"
      /\ ~Recurses(TopSub) \/ Key(TopSub) \in visited
  BY DEF DfsSkip, input
<1> HIDE DEF n
<1>4. /\ calls' \in Seq(Call) /\ Len(calls') = n
      /\ \A k \in 1..n : calls'[k].key = calls[k].key
      /\ \A k \in 1..(n - 1) : calls'[k] = calls[k]
      /\ calls'[n].next = Top.next + 1
  BY <1>1, <1>3, AdvancedFacts DEF n
<1>5. DetectType'
  BY <1>1, <1>3, <1>4 DEF DetectType
<1>6. StackInv'
  BY <1>1, <1>2, <1>3, <1>4 DEF StackInv
<1>7. PassedInv'
  <2> SUFFICES ASSUME NEW k \in 1..n, calls[k].key \in Impls,
                      NEW m \in DOMAIN decl[calls[k].key].subs, m < calls'[k].next,
                      Recurses(decl[calls[k].key].subs[m])
               PROVE  \/ Key(decl[calls[k].key].subs[m]) \in visited
                      \/ k < n /\ Key(decl[calls[k].key].subs[m]) = calls'[k + 1].key
    BY <1>3, <1>4 DEF PassedInv
  <2>1. CASE m < calls[k].next
    <3>1. \/ Key(decl[calls[k].key].subs[m]) \in visited
          \/ k < n /\ Key(decl[calls[k].key].subs[m]) = calls[k + 1].key
      BY <1>1, <2>1 DEF PassedInv, n
    <3> QED
      BY <3>1, <1>2, <1>4
  <2>2. CASE ~(m < calls[k].next)
    <3>1. k = n
      BY <2>2, <1>4
    <3>2. decl[Top.key].subs \in Seq(Subcomponent)
      BY <1>1, <1>2 DEF DetectType, Implementation
    <3>3. m \in Nat /\ Top.next \in Nat
      BY <3>1, <3>2, <1>2 DEF Call
    <3>4. m = Top.next
      BY <3>1, <3>3, <2>2, <1>2, <1>4
    <3> QED
      BY <3>1, <3>4, <1>2, <1>3
  <2> QED
    BY <2>1, <2>2
<1> QED
  BY <1>1, <1>3, <1>5, <1>6, <1>7 DEF DetectInv, CyclesReported

(* The path, closed by the key that is met again, is a genuine cycle. *)
LEMMA CycleKeeps == DetectInv /\ DfsCycle => DetectInv'
<1> SUFFICES ASSUME DetectInv, DfsCycle PROVE DetectInv'
  OBVIOUS
<1> DEFINE n == Len(path)
           j == Key(TopSub)
<1>1. DetectType /\ StackInv /\ ~TopDone /\ j \in visiting /\ Recurses(TopSub)
  BY DEF DetectInv, DfsCycle
<1>2. /\ n \in Nat /\ n > 0 /\ path \in Seq(Keys) /\ Top.key = path[n] /\ Top.key \in Impls
      /\ j \in Keys /\ Leads(decl, path[n], j)
  BY <1>1, TopFacts DEF StackInv, DetectType
<1>3. /\ cycle' = Append(path, j) /\ path' = Append(path, j) /\ phase' = "build"
      /\ UNCHANGED <<decl, visited>> /\ calls' = << >>
  BY DEF DfsCycle, input
<1> HIDE DEF n, j
<1>4. \A k \in 1..n : path[k] \in Impls
  BY <1>1, <1>2 DEF StackInv, Leads, n
<1>5. PICK m \in 1..n : path[m] = j
  BY <1>1 DEF StackInv, n
<1>6. /\ cycle' \in Seq(Keys) /\ Len(cycle') = n + 1 /\ cycle'[n + 1] = j
      /\ \A k \in 1..n : cycle'[k] = path[k]
  BY <1>2, <1>3, AppendProperties DEF n
<1>7. \A k \in 1..n : Leads(decl, cycle'[k], cycle'[k + 1]) /\ cycle'[k + 1] \in Impls
  <2> TAKE k \in 1..n
  <2>1. CASE k = n
    BY <2>1, <1>2, <1>4, <1>5, <1>6
  <2>2. CASE k # n
    <3>1. k \in 1..(n - 1) /\ k + 1 \in 1..n
      BY <2>2, <1>2
    <3>2. Leads(decl, path[k], path[k + 1])
      BY <1>1, <3>1 DEF StackInv, n
    <3> QED
      BY <3>1, <3>2, <1>4, <1>6
  <2> QED
    BY <2>1, <2>2
<1>8. GenuineCycle'
  <2>1. cycle'[1] = Root
    BY <1>1, <1>2, <1>6 DEF StackInv
  <2>2. \A k \in 1..n : \E i \in DOMAIN decl'[cycle'[k]].subs :
            /\ decl'[cycle'[k]].subs[i].cls.kind = "impl" /\ ~decl'[cycle'[k]].subs[i].indirect
            /\ decl'[cycle'[k]].subs[i].cls.of = cycle'[k + 1]
    <3> TAKE k \in 1..n
    <3>1. cycle'[k] \in Impls /\ cycle'[k + 1] \in Impls /\ Leads(decl, cycle'[k], cycle'[k + 1])
      BY <1>4, <1>6, <1>7
    <3> DEFINE p == cycle'[k]
               q == cycle'[k + 1]
    <3>2. p \in Impls /\ q \in Impls /\ Leads(decl, p, q)
      BY <3>1
    <3>3. NoImpl \notin Impls
      BY InstanceAssumption
    <3> HIDE DEF p, q
    <3>4. \E i \in DOMAIN decl[p].subs : decl[p].subs[i].cls.kind = "impl"
                /\ ~decl[p].subs[i].indirect /\ decl[p].subs[i].cls.of = q
      BY <3>2, <3>3 DEF Leads, Recurses, Key
    <3> QED
      BY <3>4, <1>3 DEF p, q
  <2>3. m \in 1..n /\ cycle'[m] = cycle'[n + 1]
    BY <1>5, <1>6
  <2>4. Len(cycle') - 1 = n /\ Len(cycle') = n + 1
    BY <1>2, <1>6
  <2> QED
    BY <2>1, <2>2, <2>3, <2>4 DEF GenuineCycle, Encloses
<1>9. DetectType'
  BY <1>1, <1>3, <1>6 DEF DetectType
<1>10. cycle' # << >>
  BY <1>2, <1>6
<1> QED
  BY <1>3, <1>8, <1>9, <1>10 DEF DetectInv, CyclesReported

(* A call for a classifier that is neither explored nor on the stack. *)
LEMMA EnterKeeps == DetectInv /\ DfsEnter => DetectInv'
<1> SUFFICES ASSUME DetectInv, DfsEnter PROVE DetectInv'
  OBVIOUS
<1> DEFINE n == Len(path)
           j == Key(TopSub)
           new == [key |-> j, next |-> 1]
<1>1. /\ DetectType /\ StackInv /\ PassedInv /\ ~TopDone /\ Recurses(TopSub)
      /\ j \notin visited /\ j \notin visiting /\ visited \cap visiting = {} /\ cycle = << >>
  BY DEF DetectInv, DfsEnter
<1>2. /\ n \in Nat /\ n > 0 /\ n = Len(calls) /\ path \in Seq(Keys)
      /\ Top = calls[n] /\ Top \in Call /\ Top.key = path[n] /\ Top.key \in Impls
      /\ TopSub = decl[Top.key].subs[Top.next]
      /\ j \in Keys /\ Leads(decl, path[n], j)
  BY <1>1, TopFacts DEF StackInv, DetectType
<1>3. /\ path' = Append(path, j) /\ visiting' = visiting \cup {j} /\ calls' = Append(Advanced, new)
      /\ UNCHANGED <<decl, phase, visited, cycle>> /\ phase = "detect"
  BY DEF DfsEnter, input
<1>4. /\ Advanced \in Seq(Call) /\ Len(Advanced) = n
      /\ \A k \in 1..n : Advanced[k].key = calls[k].key
      /\ \A k \in 1..(n - 1) : Advanced[k] = calls[k]
      /\ Advanced[n].next = Top.next + 1
  BY <1>1, <1>2, AdvancedFacts
<1>5. new \in Call /\ new.key = j /\ new.next = 1
  BY <1>2 DEF Call
<1> HIDE DEF n, j, new
<1>6. /\ path' \in Seq(Keys) /\ Len(path') = n + 1 /\ path'[n + 1] = j
      /\ \A k \in 1..n : path'[k] = path[k]
  BY <1>2, <1>3, AppendProperties DEF n
<1>7. /\ calls' \in Seq(Call) /\ Len(calls') = n + 1 /\ calls'[n + 1] = new
      /\ \A k \in 1..n : calls'[k] = Advanced[k]
  BY <1>3, <1>4, <1>5, AppendProperties
<1>8. DetectType'
  BY <1>1, <1>3, <1>6, <1>7 DEF DetectType
<1>9. StackInv'
  <2>1. \A k \in 1..(n + 1) : calls'[k].key = path'[k]
    <3> TAKE k \in 1..(n + 1)
    <3>1. CASE k = n + 1
      BY <3>1, <1>5, <1>6, <1>7
    <3>2. CASE k # n + 1
      <4>1. k \in 1..n
        BY <3>2, <1>2
      <4> QED
        BY <4>1, <1>1, <1>4, <1>6, <1>7 DEF StackInv, n
    <3> QED
      BY <3>1, <3>2
  <2>2. \A k \in 1..n : path[k] # j
    BY <1>1 DEF StackInv, n
  <2>3. \A i, k \in 1..(n + 1) : path'[i] = path'[k] => i = k
    <3> SUFFICES ASSUME NEW i \in 1..(n + 1), NEW k \in 1..(n + 1), path'[i] = path'[k] PROVE i = k
      OBVIOUS
    <3>1. CASE i \in 1..n /\ k \in 1..n
      BY <3>1, <1>1, <1>6 DEF StackInv, n
    <3>2. CASE i = n + 1 \/ k = n + 1
      BY <3>2, <2>2, <1>2, <1>6
    <3> QED
      BY <3>1, <3>2, <1>2
  <2>4. visiting' = {path'[k] : k \in 1..Len(path')}
    <3>1. 1..Len(path') = (1..n) \cup {n + 1}
      BY <1>2, <1>6
    <3>2. {path'[k] : k \in 1..Len(path')} = {path[k] : k \in 1..n} \cup {j}
      BY <3>1, <1>6
    <3> QED
      BY <3>2, <1>1, <1>3 DEF StackInv, n
  <2>5. path'[1] = Root
    BY <1>1, <1>2, <1>6 DEF StackInv
  <2>6. \A k \in 1..n : Leads(decl', path'[k], path'[k + 1])
    <3> TAKE k \in 1..n
    <3>1. CASE k = n
      BY <3>1, <1>2, <1>3, <1>6
    <3>2. CASE k # n
      <4>1. k \in 1..(n - 1) /\ k + 1 \in 1..n
        BY <3>2, <1>2
      <4> QED
        BY <4>1, <1>1, <1>3, <1>6 DEF StackInv, n
    <3> QED
      BY <3>1, <3>2
  <2>7. /\ Len(path') = n + 1 /\ Len(path') - 1 = n /\ Len(path') > 0
        /\ Len(calls') = Len(path')
    BY <1>2, <1>6, <1>7
  <2> QED
    BY <2>1, <2>3, <2>4, <2>5, <2>6, <2>7 DEF StackInv
<1>10. PassedInv'
  <2> SUFFICES ASSUME NEW k \in 1..(n + 1), calls'[k].key \in Impls,
                      NEW m \in DOMAIN decl[calls'[k].key].subs, m < calls'[k].next,
                      Recurses(decl[calls'[k].key].subs[m])
               PROVE  \/ Key(decl[calls'[k].key].subs[m]) \in visited
                      \/ k < n + 1 /\ Key(decl[calls'[k].key].subs[m]) = calls'[k + 1].key
    BY <1>3, <1>7 DEF PassedInv
  <2>0. m \in Nat \ {0}
    <3>1. decl[calls'[k].key].subs \in Seq(Subcomponent)
      BY <1>1 DEF DetectType, Implementation
    <3> QED
      BY <3>1
  <2>1. CASE k = n + 1
    BY <2>0, <2>1, <1>5, <1>7
  <2>2. CASE k = n
    <3>1. calls'[k].key = calls[n].key /\ calls'[k].next = calls[n].next + 1 /\ calls'[k + 1].key = j
      BY <2>2, <1>2, <1>4, <1>5, <1>7
    <3>2. calls[n].next \in Nat
      BY <1>2 DEF Call
    <3>3. CASE m < calls[n].next
      BY <3>1, <3>3, <1>1, <1>2 DEF PassedInv
    <3>4. CASE m = calls[n].next
      <4>1. k < n + 1
        BY <2>2, <1>2
      <4>2. Key(decl[calls'[k].key].subs[m]) = calls'[k + 1].key
        <5>1. TopSub = decl[calls[n].key].subs[calls[n].next]
          BY <1>2
        <5> QED
          BY ONLY <5>1, <3>1, <3>4 DEF j
      <4> QED
        BY <4>1, <4>2
    <3> QED
      BY <3>1, <3>2, <3>3, <3>4, <2>0
  <2>3. CASE k \in 1..(n - 1)
    <3>1. calls'[k] = calls[k] /\ calls'[k + 1].key = calls[k + 1].key /\ k < n
      <4>1. k \in 1..n /\ k + 1 \in 1..n
        BY <2>3, <1>2
      <4> QED
        BY <2>3, <4>1, <1>4, <1>7
    <3> QED
      <4>1. k \in 1..Len(calls) /\ n = Len(calls) /\ n \in Nat /\ k < n + 1
        BY <2>3, <3>1, <1>2
      <4>2. \/ Key(decl[calls[k].key].subs[m]) \in visited
            \/ k < Len(calls) /\ Key(decl[calls[k].key].subs[m]) = calls[k + 1].key
        BY <4>1, <3>1, <1>1 DEF PassedInv
      <4> QED
        BY <4>1, <4>2, <3>1
  <2> QED
    BY <2>1, <2>2, <2>3, <1>2
<1> QED
  BY <1>1, <1>3, <1>8, <1>9, <1>10 DEF DetectInv, CyclesReported

(* What is said of a cycle depends on the declarations and the path alone. *)
LEMMA SameVerdict ==
    ASSUME UNCHANGED <<decl, cycle>>
    PROVE  GenuineCycle' = GenuineCycle /\ NoCycle' = NoCycle
<1>1. GenuineCycle' = GenuineCycle
  BY DEF GenuineCycle, Encloses
<1>2. NoCycle' = NoCycle
  BY DEF NoCycle, Encloses
<1> QED
  BY <1>1, <1>2

(* A call returns when every subcomponent of its classifier is explored. *)
LEMMA LeaveKeeps == DetectInv /\ DfsLeave => DetectInv'
<1> SUFFICES ASSUME DetectInv, DfsLeave PROVE DetectInv'
  OBVIOUS
<1> DEFINE n == Len(path)
           t == Top.key
<1>1. /\ DetectType /\ StackInv /\ PassedInv /\ TopDone /\ Explored(decl, visited)
      /\ visited \cap visiting = {} /\ cycle = << >>
  BY DEF DetectInv, DfsLeave
<1>2. /\ n \in Nat /\ n > 0 /\ n = Len(calls) /\ path \in Seq(Keys) /\ calls \in Seq(Call)
      /\ Top = calls[n] /\ Top \in Call /\ t = path[n] /\ t \in Keys /\ t = calls[n].key
  BY <1>1, TopFacts DEF StackInv, DetectType, Call
<1>3. /\ path' = Front(path) /\ visiting' = visiting \ {t} /\ visited' = visited \cup {t}
      /\ calls' = Front(calls) /\ phase' = (IF n = 1 THEN "build" ELSE "detect")
      /\ UNCHANGED <<decl, cycle>>
  BY <1>2 DEF DfsLeave, input
<1> HIDE DEF n, t
<1>4. /\ path' \in Seq(Keys) /\ Len(path') = n - 1
      /\ \A k \in 1..(n - 1) : path'[k] = path[k]
  BY <1>2, <1>3, FrontFacts DEF n
<1>5. /\ calls' \in Seq(Call) /\ Len(calls') = n - 1
      /\ \A k \in 1..(n - 1) : calls'[k] = calls[k]
  BY <1>2, <1>3, FrontFacts
<1>6. DetectType'
  BY <1>1, <1>2, <1>3, <1>4, <1>5 DEF DetectType
<1>7. t \in visiting /\ t \notin visited
  BY <1>1, <1>2 DEF StackInv, n
<1>8. \A j \in Keys : Leads(decl, t, j) => j \in visited
  <2> SUFFICES ASSUME NEW j \in Keys, Leads(decl, t, j) PROVE j \in visited
    OBVIOUS
  <2>1. PICK m \in DOMAIN decl[t].subs : Recurses(decl[t].subs[m]) /\ Key(decl[t].subs[m]) = j
    BY DEF Leads
  <2>2. t \in Impls /\ NoImpl \notin Impls
    BY InstanceAssumption DEF Leads
  <2>3. decl[t].subs \in Seq(Subcomponent)
    BY <1>1, <2>2 DEF DetectType, Implementation
  <2>4. m \in Nat /\ m <= Len(decl[t].subs) /\ Len(decl[t].subs) \in Nat
    BY <2>3
  <2>5. calls[n].next > Len(decl[t].subs) /\ calls[n].next \in Nat
    BY <1>1, <1>2, <2>2 DEF TopDone, OwnSubs, t, Call
  <2>6. m < calls[n].next
    BY <2>4, <2>5
  <2>7. n \in 1..Len(calls) /\ ~(n < Len(calls))
    BY <1>2
  <2> QED
    BY <1>1, <1>2, <2>1, <2>2, <2>6, <2>7 DEF PassedInv
<1>9. Explored(decl', visited')
  BY <1>1, <1>2, <1>3, <1>7, <1>8, ExploreOne DEF DetectType
<1>10. CASE n = 1
  <2>1. t = Root
    BY <1>1, <1>2, <1>10 DEF StackInv
  <2>2. NoImpl \notin Impls /\ Root \in Impls
    BY InstanceAssumption
  <2> DEFINE V == visited' \cap Impls
  <2>3. Root \in V
    BY <2>1, <2>2, <1>3
  <2>4. \A i, j \in Impls : Leads(decl, i, j) <=> Encloses(i, j)
    BY <1>1, LeadsIsEncloses DEF DetectType
  <2>5. \A i \in V, j \in Impls : Encloses(i, j) => j \in V
    BY <2>4, <1>3, <1>9 DEF Explored, Keys
  <2>6. \A C \in SUBSET V : C # {} => \E i \in C : \A j \in C : ~Encloses(i, j)
    BY <2>4, <1>3, <1>9 DEF Explored
  <2>7. V \in SUBSET Impls
    OBVIOUS
  <2> HIDE DEF V
  <2>8. NoCycle
    BY <2>3, <2>5, <2>6, <2>7 DEF NoCycle
  <2>9. NoCycle'
    BY <2>8, <1>3, SameVerdict
  <2> QED
    BY <2>9, <1>1, <1>3, <1>6, <1>9, <1>10 DEF DetectInv, CyclesReported
<1>11. CASE n # 1
  <2>0. n - 1 \in Nat /\ n - 1 > 0
    BY <1>2, <1>11
  <2>1. StackInv'
    <3>1. \A k \in 1..(n - 1) : calls'[k].key = path'[k] /\ path[k] # t /\ k \in 1..n
      <4> TAKE k \in 1..(n - 1)
      <4>1. k \in 1..n /\ n \in 1..n /\ k # n
        BY <1>2
      <4> QED
        BY <4>1, <1>1, <1>2, <1>4, <1>5 DEF StackInv, n
    <3>2. \A i, k \in 1..(n - 1) : path'[i] = path'[k] => i = k
      BY <3>1, <1>1, <1>4 DEF StackInv, n
    <3>3. visiting' = {path'[k] : k \in 1..Len(path')}
      <4>1. 1..n = (1..(n - 1)) \cup {n}
        BY <1>2
      <4>2. {path[k] : k \in 1..n} \ {t} = {path[k] : k \in 1..(n - 1)}
        BY <4>1, <3>1, <1>2
      <4>3. {path[k] : k \in 1..(n - 1)} = {path'[k] : k \in 1..Len(path')}
        BY <1>4
      <4> QED
        BY <4>2, <4>3, <1>1, <1>3 DEF StackInv, n
    <3>4. path'[1] = Root
      BY <2>0, <1>1, <1>4 DEF StackInv
    <3>5. \A k \in 1..(n - 1 - 1) : Leads(decl', path'[k], path'[k + 1])
      <4> TAKE k \in 1..(n - 1 - 1)
      <4>1. k \in 1..(n - 1) /\ k + 1 \in 1..(n - 1)
        BY <1>2
      <4> QED
        BY <4>1, <1>1, <1>3, <1>4 DEF StackInv, n
    <3>6. Len(path') = n - 1 /\ Len(path') > 0 /\ Len(calls') = Len(path')
      BY <2>0, <1>4, <1>5
    <3> QED
      BY <3>1, <3>2, <3>3, <3>4, <3>5, <3>6 DEF StackInv
  <2>2. PassedInv'
    <3> SUFFICES ASSUME NEW k \in 1..(n - 1), calls[k].key \in Impls,
                        NEW m \in DOMAIN decl[calls[k].key].subs, m < calls[k].next,
                        Recurses(decl[calls[k].key].subs[m])
                 PROVE  \/ Key(decl[calls[k].key].subs[m]) \in visited'
                        \/ k < n - 1 /\ Key(decl[calls[k].key].subs[m]) = calls'[k + 1].key
      BY <1>3, <1>5 DEF PassedInv
    <3>1. k \in 1..n
      BY <1>2
    <3>2. \/ Key(decl[calls[k].key].subs[m]) \in visited
          \/ Key(decl[calls[k].key].subs[m]) = calls[k + 1].key
      BY <3>1, <1>1, <1>2 DEF PassedInv
    <3>3. CASE k = n - 1
      <4>1. k + 1 = n
        BY <3>3, <1>2
      <4> QED
        BY <4>1, <3>2, <1>2, <1>3
    <3>4. CASE k # n - 1
      <4>1. k + 1 \in 1..(n - 1) /\ k < n - 1
        BY <3>4, <1>2
      <4> QED
        BY <4>1, <3>2, <1>3, <1>5
    <3> QED
      BY <3>3, <3>4
  <2>3. visited' \cap visiting' = {}
    BY <1>1, <1>3
  <2> QED
    BY <2>1, <2>2, <2>3, <1>1, <1>3, <1>6, <1>9, <1>11 DEF DetectInv, CyclesReported
<1> QED
  BY <1>10, <1>11

(* Instantiation and compute_soms do not touch what the search left. *)
LEMMA LaterKeeps ==
    ASSUME DetectInv, phase # "detect", phase' # "detect",
           UNCHANGED <<decl, calls, visited, path, cycle>>
    PROVE  DetectInv'
<1>1. CyclesReported'
  BY SameVerdict DEF DetectInv, CyclesReported
<1> QED
  BY <1>1 DEF DetectInv, DetectType

(* DetectInv is inductive. *)
LEMMA DetectStep == DetectInv /\ [Next]_vars => DetectInv'
<1> SUFFICES ASSUME DetectInv, [Next]_vars PROVE DetectInv'
  OBVIOUS
<1>1. CASE DfsSkip
  BY <1>1, SkipKeeps
<1>2. CASE DfsCycle
  BY <1>2, CycleKeeps
<1>3. CASE DfsEnter
  BY <1>3, EnterKeeps
<1>4. CASE DfsLeave
  BY <1>4, LeaveKeeps
<1>5. CASE InstantiateRoot
  BY <1>5, LaterKeeps DEF InstantiateRoot, input, detectVars
<1>6. CASE InstantiateChild
  BY <1>6, LaterKeeps DEF InstantiateChild, input, detectVars
<1>7. CASE FinishComponent
  BY <1>7, LaterKeeps DEF FinishComponent, input, detectVars
<1>8. CASE StartSoms
  BY <1>8, LaterKeeps DEF StartSoms, input, detectVars
<1>9. CASE ExtendSoms
  BY <1>9, LaterKeeps DEF ExtendSoms, input, detectVars
<1>10. CASE FinishSoms
  BY <1>10, LaterKeeps DEF FinishSoms, input, detectVars
<1>11. CASE UNCHANGED vars
  <2>1. UNCHANGED <<decl, phase, calls, visiting, visited, path, cycle>>
    BY <1>11 DEF vars, input, detectVars
  <2> QED
    <3>1. CyclesReported'
      BY <2>1, SameVerdict DEF DetectInv, CyclesReported
    <3>2. DetectType' /\ Explored(decl', visited')
      BY <2>1 DEF DetectInv, DetectType
    <3>3. StackInv => StackInv'
      BY <2>1 DEF StackInv
    <3>4. PassedInv => PassedInv'
      BY <2>1 DEF PassedInv
    <3> QED
      BY <2>1, <3>1, <3>2, <3>3, <3>4 DEF DetectInv
<1> QED
  BY <1>1, <1>2, <1>3, <1>4, <1>5, <1>6, <1>7, <1>8, <1>9, <1>10, <1>11 DEF Next, Done

(* For every set of implementations and all declarations: the path          *)
(* detect_circular_containment reports is a genuine containment cycle, and  *)
(* when it reports none the declared subcomponents the root leads to have   *)
(* none.                                                                    *)
THEOREM CyclesAlwaysReported == Spec => []CyclesReported
<1>1. Init => DetectInv
  BY InitDetect
<1>2. DetectInv /\ [Next]_vars => DetectInv'
  BY DetectStep
<1>3. DetectInv => CyclesReported
  BY DEF DetectInv
<1> QED
  BY <1>1, <1>2, <1>3, PTL DEF Spec

--------------------------------------------------------------------------------
(* Loops and folds                                                         *)

(* The recursion of InOrder. *)
IsPushed(S, n, g) ==
    g = [k \in 0..n |-> IF k = 0 THEN << >>
                        ELSE IF k \in S THEN Append(g[k - 1], k) ELSE g[k - 1]]

(* The recursion of InOrder has a solution. *)
LEMMA PushedExists ==
    ASSUME NEW S
    PROVE  \A n \in Nat : \E g : IsPushed(S, n, g)
<1> DEFINE T == {n \in Nat : \E g : IsPushed(S, n, g)}
<1>1. 0 \in T
  <2> DEFINE g == [k \in 0..0 |-> << >>]
  <2>1. \A k \in 0..0 : k = 0
    OBVIOUS
  <2>2. IsPushed(S, 0, g)
    BY <2>1 DEF IsPushed
  <2> QED
    BY <2>2
<1>2. ASSUME NEW n \in Nat, n \in T PROVE n + 1 \in T
  <2>1. PICK g : IsPushed(S, n, g)
    BY <1>2
  <2> DEFINE Val(k) == IF k = 0 THEN << >>
                       ELSE IF k \in S THEN Append(g[k - 1], k) ELSE g[k - 1]
             h == [k \in 0..(n + 1) |-> Val(k)]
  <2>2. \A k \in 0..n : k \in 0..(n + 1) /\ h[k] = g[k]
    <3>1. \A k \in 0..n : k \in 0..(n + 1)
      OBVIOUS
    <3> QED
      BY <2>1, <3>1 DEF IsPushed
  <2>3. \A k \in 0..(n + 1) : k # 0 => h[k - 1] = g[k - 1]
    <3>1. \A k \in 0..(n + 1) : k # 0 => k - 1 \in 0..n
      OBVIOUS
    <3> QED
      BY <2>2, <3>1
  <2>4. \A k \in 0..(n + 1) :
            Val(k) = IF k = 0 THEN << >>
                     ELSE IF k \in S THEN Append(h[k - 1], k) ELSE h[k - 1]
    BY <2>3
  <2>5. IsPushed(S, n + 1, h)
    BY <2>4 DEF IsPushed
  <2> QED
    BY <2>5
<1> HIDE DEF T
<1>3. \A n \in Nat : n \in T
  BY <1>1, <1>2, ClosedUnderSuccessor
<1> QED
  BY <1>3 DEF T

(* The sequence s lists the set S in ascending order. *)
Ascends(s, S) ==
    /\ s \in Seq(S)
    /\ \A x \in S : \E i \in 1..Len(s) : s[i] = x
    /\ \A i, j \in 1..Len(s) : i < j => s[i] < s[j]

(* InOrder lists what S has up to n, each once, ascending. *)
LEMMA InOrderIs ==
    ASSUME NEW S, NEW n \in Nat
    PROVE  Ascends(InOrder(S, n), S \cap (1..n))
<1> DEFINE g == CHOOSE x : IsPushed(S, n, x)
<1>1. IsPushed(S, n, g)
  BY PushedExists
<1>2. InOrder(S, n) = g[n]
  BY DEF InOrder, IsPushed
<1> HIDE DEF g
<1>3. \A k \in 0..n : g[k] = IF k = 0 THEN << >>
                             ELSE IF k \in S THEN Append(g[k - 1], k) ELSE g[k - 1]
  BY <1>1 DEF IsPushed
<1> DEFINE T == {k \in Nat : k <= n => Ascends(g[k], S \cap (1..k))}
<1>4. 0 \in T
  <2>1. g[0] = << >> /\ S \cap (1..0) = {}
    BY <1>3
  <2>2. Ascends(<< >>, {})
    BY DEF Ascends
  <2> QED
    BY <2>1, <2>2
<1>5. ASSUME NEW k \in Nat, k \in T PROVE k + 1 \in T
  <2> SUFFICES ASSUME k + 1 <= n PROVE Ascends(g[k + 1], S \cap (1..(k + 1)))
    OBVIOUS
  <2> DEFINE A == S \cap (1..k)
             B == S \cap (1..(k + 1))
             s == g[k]
             t == Append(s, k + 1)
  <2>1. Ascends(s, A) /\ (k + 1) - 1 = k /\ k + 1 \in 0..n /\ k + 1 # 0
    BY <1>5
  <2>2. g[k + 1] = IF k + 1 \in S THEN t ELSE s
    BY <1>3, <2>1
  <2>3. B = IF k + 1 \in S THEN A \cup {k + 1} ELSE A
    OBVIOUS
  <2>4. \A x \in A : x \in Int /\ x < k + 1
    OBVIOUS
  <2> HIDE DEF A, B, s
  <2>5. CASE k + 1 \in S
    <3>1. B = A \cup {k + 1} /\ s \in Seq(A) /\ g[k + 1] = t
      BY <2>1, <2>2, <2>3, <2>5 DEF Ascends
    <3>2. s \in Seq(B) /\ Len(s) \in Nat /\ k + 1 \in B /\ \A i \in 1..Len(s) : s[i] \in A
      BY <3>1
    <3>3. /\ t \in Seq(B) /\ Len(t) = Len(s) + 1 /\ t[Len(s) + 1] = k + 1
          /\ \A i \in 1..Len(s) : t[i] = s[i]
      BY <3>2, AppendProperties
    <3> HIDE DEF t
    <3>4. \A x \in B : \E i \in 1..Len(t) : t[i] = x
      <4> SUFFICES ASSUME NEW x \in B PROVE \E i \in 1..Len(t) : t[i] = x
        OBVIOUS
      <4>1. CASE x = k + 1
        <5>1. Len(s) + 1 \in 1..Len(t)
          BY <3>2, <3>3
        <5> QED
          BY <5>1, <4>1, <3>3
      <4>2. CASE x \in A
        <5>1. PICK i \in 1..Len(s) : s[i] = x
          BY <2>1, <4>2 DEF Ascends
        <5>2. i \in 1..Len(t)
          BY <3>2, <3>3
        <5> QED
          BY <5>1, <5>2, <3>3
      <4> QED
        BY <4>1, <4>2, <3>1
    <3>5. ASSUME NEW i \in 1..Len(t), NEW j \in 1..Len(t), i < j PROVE t[i] < t[j]
      <4>1. i \in 1..Len(s) /\ t[i] = s[i]
        BY <3>2, <3>3, <3>5
      <4>2. CASE j = Len(s) + 1
        BY <4>1, <4>2, <3>2, <3>3, <2>4
      <4>3. CASE j # Len(s) + 1
        <5>1. j \in 1..Len(s)
          BY <4>3, <3>2, <3>3
        <5> QED
          BY <5>1, <4>1, <3>3, <3>5, <2>1 DEF Ascends
      <4> QED
        BY <4>2, <4>3
    <3> QED
      BY <3>1, <3>3, <3>4, <3>5 DEF Ascends, B
  <2>6. CASE k + 1 \notin S
    BY <2>1, <2>2, <2>3, <2>6 DEF B
  <2> QED
    BY <2>5, <2>6
<1> HIDE DEF T
<1>6. \A k \in Nat : k \in T
  BY <1>4, <1>5, ClosedUnderSuccessor
<1>7. n \in T /\ n <= n
  BY <1>6
<1> QED
  BY <1>2, <1>7 DEF T

(* The recursion of FlattenSeq. *)
IsFlat(ss, n, g) ==
    g = [i \in 1..n |-> IF i = 1 THEN ss[i] ELSE g[i - 1] \o ss[i]]

(* The recursion of FlattenSeq has a solution. *)
LEMMA FlatExists ==
    ASSUME NEW ss
    PROVE  \A n \in Nat : \E g : IsFlat(ss, n, g)
<1> DEFINE T == {n \in Nat : \E g : IsFlat(ss, n, g)}
<1>1. 0 \in T
  <2> DEFINE g == [i \in 1..0 |-> << >>]
  <2>1. 1..0 = {}
    OBVIOUS
  <2>2. IsFlat(ss, 0, g)
    BY <2>1 DEF IsFlat
  <2> QED
    BY <2>2
<1>2. ASSUME NEW n \in Nat, n \in T PROVE n + 1 \in T
  <2>1. PICK g : IsFlat(ss, n, g)
    BY <1>2
  <2> DEFINE Val(i) == IF i = 1 THEN ss[i] ELSE g[i - 1] \o ss[i]
             h == [i \in 1..(n + 1) |-> Val(i)]
  <2>2. \A i \in 1..n : i \in 1..(n + 1) /\ h[i] = g[i]
    <3>1. \A i \in 1..n : i \in 1..(n + 1)
      OBVIOUS
    <3> QED
      BY <2>1, <3>1 DEF IsFlat
  <2>3. \A i \in 1..(n + 1) : i # 1 => h[i - 1] = g[i - 1]
    <3>1. \A i \in 1..(n + 1) : i # 1 => i - 1 \in 1..n
      OBVIOUS
    <3> QED
      BY <2>2, <3>1
  <2>4. \A i \in 1..(n + 1) : Val(i) = IF i = 1 THEN ss[i] ELSE h[i - 1] \o ss[i]
    BY <2>3
  <2>5. IsFlat(ss, n + 1, h)
    BY <2>4 DEF IsFlat
  <2> QED
    BY <2>5
<1> HIDE DEF T
<1>3. \A n \in Nat : n \in T
  BY <1>1, <1>2, ClosedUnderSuccessor
<1> QED
  BY <1>3 DEF T

(* f is the first m of the sequences ss, one behind the other; the one at p  *)
(* begins behind off[p].                                                    *)
Laid(f, ss, m, off) ==
    /\ off[1] = 0 /\ \A p \in 1..m : off[p + 1] = off[p] + Len(ss[p])
    /\ \A p \in 1..(m + 1) : off[p] \in Nat
    /\ Len(f) = off[m + 1]
    /\ \A p \in 1..m : \A k \in 1..Len(ss[p]) : off[p] + k \in 1..Len(f) /\ f[off[p] + k] = ss[p][k]
    /\ \A q \in 1..Len(f) : \E p \in 1..m : \E k \in 1..Len(ss[p]) : q = off[p] + k
    /\ \A p, r \in 1..m : p < r => off[p] + Len(ss[p]) <= off[r]

(* One more sequence joined at the end: the earlier ones lie where they  *)
(* lay.                                                                  *)
LEMMA LaidOneMore ==
    ASSUME NEW X, NEW ss \in Seq(Seq(X)), NEW m \in Nat, m + 1 <= Len(ss),
           NEW f \in Seq(X), NEW off, Laid(f, ss, m, off), off[m + 2] = off[m + 1] + Len(ss[m + 1])
    PROVE  f \o ss[m + 1] \in Seq(X) /\ Laid(f \o ss[m + 1], ss, m + 1, off)
<1> DEFINE t == ss[m + 1]
           h == f \o t
<1>1. /\ m + 1 \in 1..Len(ss) /\ t \in Seq(X) /\ Len(t) \in Nat /\ Len(f) \in Nat
      /\ \A p \in 1..(m + 1) : ss[p] \in Seq(X) /\ Len(ss[p]) \in Nat
  OBVIOUS
<1>2. h \in Seq(X) /\ Len(h) = Len(f) + Len(t)
  BY <1>1
<1>3. \A i \in 1..Len(h) : h[i] = IF i <= Len(f) THEN f[i] ELSE t[i - Len(f)]
  BY <1>1, <1>2
<1> HIDE DEF h, t
<1>4. /\ off[1] = 0 /\ \A p \in 1..m : off[p + 1] = off[p] + Len(ss[p])
      /\ \A p \in 1..(m + 1) : off[p] \in Nat
      /\ Len(f) = off[m + 1]
  BY DEF Laid
<1>5. off[(m + 1) + 1] = off[m + 1] + Len(t) /\ off[(m + 1) + 1] \in Nat
  BY <1>1, <1>4 DEF t
<1>6. \A p \in 1..(m + 1) : off[p + 1] = off[p] + Len(ss[p])
  BY <1>4, <1>5 DEF t
<1>7. \A p \in 1..((m + 1) + 1) : off[p] \in Nat
  BY <1>4, <1>5
<1>8. ASSUME NEW p \in 1..(m + 1), NEW k \in 1..Len(ss[p])
      PROVE  off[p] + k \in 1..Len(h) /\ h[off[p] + k] = ss[p][k]
  <2>1. CASE p \in 1..m
    <3>1. off[p] + k \in 1..Len(f) /\ f[off[p] + k] = ss[p][k]
      BY <2>1 DEF Laid
    <3> DEFINE q == off[p] + k
    <3>2. q \in 1..Len(f) /\ f[q] = ss[p][k]
      BY <3>1
    <3> HIDE DEF q
    <3>3. q \in 1..Len(h) /\ q <= Len(f)
      BY <3>2, <1>1, <1>2
    <3> QED
      BY <3>2, <3>3, <1>3 DEF q
  <2>2. CASE p = m + 1
    <3>1. off[p] = Len(f) /\ k \in 1..Len(t)
      BY <2>2, <1>4 DEF t
    <3>2. Len(f) + k \in 1..Len(h) /\ ~(Len(f) + k <= Len(f)) /\ (Len(f) + k) - Len(f) = k
      BY <3>1, <1>1, <1>2, SMTT(30)
    <3>3. h[Len(f) + k] = t[k]
      BY <3>2, <1>3
    <3> QED
      BY <3>1, <3>2, <3>3, <2>2 DEF t
  <2> QED
    BY <2>1, <2>2
<1>9. ASSUME NEW q \in 1..Len(h)
      PROVE  \E p \in 1..(m + 1) : \E k \in 1..Len(ss[p]) : q = off[p] + k
  <2>1. CASE q <= Len(f)
    <3>1. q \in 1..Len(f)
      BY <2>1, <1>1
    <3>2. PICK p \in 1..m : \E k \in 1..Len(ss[p]) : q = off[p] + k
      BY <3>1 DEF Laid
    <3>3. p \in 1..(m + 1)
      OBVIOUS
    <3> QED
      BY <3>2, <3>3
  <2>2. CASE ~(q <= Len(f))
    <3>1. q - Len(f) \in 1..Len(t) /\ q = Len(f) + (q - Len(f)) /\ m + 1 \in 1..(m + 1)
      <4>1. q \in 1..(Len(f) + Len(t))
        BY <1>2
      <4> QED
        BY <4>1, <2>2, <1>1
    <3>2. off[m + 1] = Len(f)
      BY <1>4
    <3> QED
      BY <3>1, <3>2 DEF t
  <2> QED
    BY <2>1, <2>2
<1>10. ASSUME NEW p \in 1..(m + 1), NEW r \in 1..(m + 1), p < r
       PROVE  off[p] + Len(ss[p]) <= off[r]
  <2>1. CASE r \in 1..m
    <3>1. p \in 1..m
      BY <2>1, <1>10
    <3> QED
      BY <3>1, <2>1, <1>10 DEF Laid
  <2>2. CASE r = m + 1
    <3>1. p \in 1..m /\ m \in 1..m /\ off[m + 1] = off[m] + Len(ss[m])
      BY <2>2, <1>4, <1>10
    <3>2. CASE p = m
      BY <3>1, <3>2, <2>2, <1>1, <1>4
    <3>3. CASE p # m
      <4>1. p < m
        BY <3>1, <3>3
      <4>2. off[p] + Len(ss[p]) <= off[m]
        BY <4>1, <3>1 DEF Laid
      <4>3. Len(ss[m]) \in Nat /\ off[m] \in Nat /\ Len(ss[p]) \in Nat /\ off[p] \in Nat
        <5>1. m \in 1..(m + 1) /\ p \in 1..(m + 1)
          BY <3>1
        <5> QED
          BY <5>1, <1>1, <1>4
      <4> QED
        BY <4>2, <4>3, <3>1, <2>2, SMTT(30)
    <3> QED
      BY <3>2, <3>3
  <2> QED
    BY <2>1, <2>2
<1>11. Len(h) = off[(m + 1) + 1]
  BY <1>2, <1>4, <1>5
<1>12. Laid(h, ss, m + 1, off)
  BY <1>4, <1>6, <1>7, <1>8, <1>9, <1>10, <1>11 DEF Laid
<1> QED
  BY <1>2, <1>12 DEF h, t

(* Flattened sequences stand one behind the other. *)
LEMMA FlattenIs ==
    ASSUME NEW X, NEW ss \in Seq(Seq(X))
    PROVE  FlattenSeq(ss) \in Seq(X) /\ \E off : Laid(FlattenSeq(ss), ss, Len(ss), off)
<1>1. Len(ss) \in Nat /\ \A i \in 1..Len(ss) : ss[i] \in Seq(X) /\ Len(ss[i]) \in Nat
  OBVIOUS
<1> DEFINE zero == [p \in {1} |-> 0]
<1>2. \A off : off[1] = 0 => Laid(<< >>, ss, 0, off)
  BY DEF Laid
<1>3. CASE Len(ss) = 0
  <2>1. ss = << >> /\ FlattenSeq(ss) = ss
    BY <1>3 DEF FlattenSeq
  <2>2. zero[1] = 0
    OBVIOUS
  <2>3. Laid(<< >>, ss, 0, zero)
    BY <1>2, <2>2
  <2>4. << >> \in Seq(X)
    OBVIOUS
  <2> QED
    BY <2>1, <2>3, <2>4, <1>3
<1>4. CASE Len(ss) # 0
  <2> DEFINE n == Len(ss)
             g == CHOOSE x : IsFlat(ss, n, x)
             off == [p \in 1..(n + 1) |-> IF p = 1 THEN 0 ELSE Len(g[p - 1])]
  <2>1. IsFlat(ss, n, g)
    BY <1>1, FlatExists
  <2>2. FlattenSeq(ss) = g[n]
    BY <1>4 DEF FlattenSeq, IsFlat
  <2> HIDE DEF g
  <2>3. \A i \in 1..n : g[i] = IF i = 1 THEN ss[i] ELSE g[i - 1] \o ss[i]
    BY <2>1 DEF IsFlat
  <2>4. off[1] = 0 /\ \A p \in 1..n : off[p + 1] = Len(g[p])
    BY <1>1
  <2> HIDE DEF n, off
  <2> DEFINE Fine(i) == g[i] \in Seq(X) /\ Laid(g[i], ss, i, off)
             T == {i \in Nat : i + 1 \in 1..n => Fine(i + 1)}
  <2>5. 0 \in T
    <3> SUFFICES ASSUME 1 \in 1..n PROVE Fine(1)
      OBVIOUS
    <3>1. g[1] = ss[1] /\ ss[1] \in Seq(X) /\ off[1 + 1] = Len(g[1])
      BY <1>1, <2>3, <2>4 DEF n
    <3>2. Laid(<< >>, ss, 0, off) /\ << >> \in Seq(X) /\ 0 \in Nat /\ 0 + 1 <= Len(ss)
      BY <1>1, <1>2, <2>4 DEF n
    <3>3. off[0 + 2] = off[0 + 1] + Len(ss[0 + 1])
      BY <3>1, <2>4, <1>1 DEF n
    <3>4. Laid(<< >> \o ss[0 + 1], ss, 0 + 1, off)
      BY <3>2, <3>3, LaidOneMore
    <3>5. << >> \o ss[0 + 1] = ss[1] /\ 0 + 1 = 1
      BY <3>1
    <3> QED
      BY <3>1, <3>4, <3>5
  <2>6. ASSUME NEW i \in Nat, i \in T PROVE i + 1 \in T
    <3> SUFFICES ASSUME (i + 1) + 1 \in 1..n PROVE Fine((i + 1) + 1)
      OBVIOUS
    <3>1. i + 1 \in 1..n /\ (i + 1) + 1 # 1 /\ ((i + 1) + 1) - 1 = i + 1 /\ i + 1 \in Nat
      BY <1>1 DEF n
    <3>2. g[i + 1] \in Seq(X) /\ Laid(g[i + 1], ss, i + 1, off)
      BY <2>6, <3>1
    <3>3. g[(i + 1) + 1] = g[i + 1] \o ss[(i + 1) + 1] /\ (i + 1) + 1 <= Len(ss)
      <4> DEFINE j == (i + 1) + 1
      <4>1. j \in 1..n /\ j # 1 /\ j - 1 = i + 1
        BY <3>1
      <4> HIDE DEF j
      <4>2. g[j] = g[j - 1] \o ss[j]
        BY <2>3, <4>1
      <4>3. j <= Len(ss)
        BY <4>1, <1>1 DEF n
      <4> QED
        BY <4>1, <4>2, <4>3 DEF j
    <3>4. off[(i + 1) + 2] = off[(i + 1) + 1] + Len(ss[(i + 1) + 1])
      <4>1. off[((i + 1) + 1) + 1] = Len(g[(i + 1) + 1]) /\ off[(i + 1) + 1] = Len(g[i + 1])
        BY <2>4, <3>1
      <4>2. ss[(i + 1) + 1] \in Seq(X)
        BY <1>1, <3>1 DEF n
      <4>3. Len(g[i + 1] \o ss[(i + 1) + 1]) = Len(g[i + 1]) + Len(ss[(i + 1) + 1])
        BY <4>2, <3>2
      <4>4. ((i + 1) + 1) + 1 = (i + 1) + 2
        OBVIOUS
      <4> QED
        BY <4>1, <4>3, <4>4, <3>3
    <3> DEFINE j == i + 1
    <3>5. j \in Nat /\ j + 1 <= Len(ss) /\ g[j] \in Seq(X) /\ Laid(g[j], ss, j, off)
          /\ off[j + 2] = off[j + 1] + Len(ss[j + 1])
      BY <3>1, <3>2, <3>3, <3>4
    <3> HIDE DEF j
    <3>6. g[j] \o ss[j + 1] \in Seq(X) /\ Laid(g[j] \o ss[j + 1], ss, j + 1, off)
      BY <3>5, LaidOneMore
    <3> QED
      BY <3>3, <3>6 DEF j
  <2> HIDE DEF T
  <2>7. \A i \in Nat : i \in T
    BY <2>5, <2>6, ClosedUnderSuccessor
  <2>8. n - 1 \in T /\ (n - 1) + 1 = n /\ n \in 1..n
    BY <1>1, <1>4, <2>7 DEF n
  <2>9. Fine(n)
    BY <2>8 DEF T
  <2> QED
    BY <2>2, <2>9 DEF n
<1> QED
  BY <1>3, <1>4

(* The largest of some of the first n + 1 numbers. *)
LEMMA LargestOf ==
    ASSUME NEW n \in Nat, NEW S \in SUBSET (1..(n + 1)), S # {}
    PROVE  /\ Max(S) \in S /\ \A y \in S : Max(S) >= y
           /\ S \ {Max(S)} \in SUBSET (1..n)
<1> DEFINE T == {k \in Nat : \A R \in SUBSET (1..k) : R # {} => \E x \in R : \A y \in R : x >= y}
<1>1. 0 \in T
  <2>1. \A R \in SUBSET (1..0) : R = {}
    OBVIOUS
  <2> QED
    BY <2>1
<1>2. ASSUME NEW k \in Nat, k \in T PROVE k + 1 \in T
  <2> SUFFICES ASSUME NEW R \in SUBSET (1..(k + 1)), R # {} PROVE \E x \in R : \A y \in R : x >= y
    OBVIOUS
  <2>1. CASE k + 1 \in R
    <3>1. \A y \in R : k + 1 >= y
      OBVIOUS
    <3> QED
      BY <2>1, <3>1
  <2>2. CASE k + 1 \notin R
    <3>1. R \in SUBSET (1..k)
      BY <2>2
    <3> QED
      BY <1>2, <3>1
  <2> QED
    BY <2>1, <2>2
<1> HIDE DEF T
<1>3. \A k \in Nat : k \in T
  BY <1>1, <1>2, ClosedUnderSuccessor
<1>4. \E x \in S : \A y \in S : x >= y
  <2>1. n + 1 \in T
    BY <1>3
  <2> QED
    BY <2>1 DEF T
<1>5. Max(S) \in S /\ \A y \in S : Max(S) >= y
  BY <1>4 DEF Max
<1>6. ASSUME NEW y \in S \ {Max(S)} PROVE y \in 1..n
  <2>1. y \in 1..(n + 1) /\ Max(S) \in 1..(n + 1) /\ Max(S) >= y /\ Max(S) # y
    BY <1>5, <1>6
  <2> QED
    BY <2>1
<1> QED
  BY <1>5, <1>6

(* The largest element, and the rest, of the sets a fold goes through. *)
LEMMA LargestUpTo ==
    ASSUME NEW k \in Nat
    PROVE  Max(1..(k + 1)) = k + 1 /\ (1..(k + 1)) \ {k + 1} = 1..k /\ 1..(k + 1) # {} /\ 1..0 = {}
<1>1. 1..(k + 1) # {} /\ k + 1 \in 1..(k + 1)
  OBVIOUS
<1>2. Max(1..(k + 1)) \in 1..(k + 1) /\ Max(1..(k + 1)) >= k + 1
  BY <1>1, LargestOf
<1> QED
  BY <1>1, <1>2

(* The recursion of the fold over the subcomponents of a chain. *)
IsCollected(s, D, g) ==
    g = [S \in D |-> IF S = {} THEN << >> ELSE Collect(g[S \ {Max(S)}], s[Max(S)])]

(* The recursion of the fold of Collect has a solution. *)
LEMMA CollectedExists ==
    ASSUME NEW s
    PROVE  \A n \in Nat : \E g : IsCollected(s, SUBSET (1..n), g)
<1> DEFINE T == {n \in Nat : \E g : IsCollected(s, SUBSET (1..n), g)}
<1>1. 0 \in T
  <2> DEFINE g == [S \in SUBSET (1..0) |-> << >>]
  <2>1. \A S \in SUBSET (1..0) : S = {}
    OBVIOUS
  <2>2. IsCollected(s, SUBSET (1..0), g)
    BY <2>1 DEF IsCollected
  <2> QED
    BY <2>2
<1>2. ASSUME NEW n \in Nat, n \in T PROVE n + 1 \in T
  <2>1. PICK g : IsCollected(s, SUBSET (1..n), g)
    BY <1>2
  <2> DEFINE Val(S) == IF S = {} THEN << >> ELSE Collect(g[S \ {Max(S)}], s[Max(S)])
             h == [S \in SUBSET (1..(n + 1)) |-> Val(S)]
  <2>2. \A S \in SUBSET (1..n) : h[S] = g[S]
    <3>1. \A S \in SUBSET (1..n) : S \in SUBSET (1..(n + 1))
      OBVIOUS
    <3> QED
      BY <2>1, <3>1 DEF IsCollected
  <2>3. \A S \in SUBSET (1..(n + 1)) : S # {} => h[S \ {Max(S)}] = g[S \ {Max(S)}]
    BY <2>2, LargestOf
  <2>4. \A S \in SUBSET (1..(n + 1)) :
            Val(S) = IF S = {} THEN << >> ELSE Collect(h[S \ {Max(S)}], s[Max(S)])
    BY <2>3
  <2>5. IsCollected(s, SUBSET (1..(n + 1)), h)
    BY <2>4 DEF IsCollected
  <2> QED
    BY <2>5
<1> HIDE DEF T
<1>3. \A n \in Nat : n \in T
  BY <1>1, <1>2, ClosedUnderSuccessor
<1> QED
  BY <1>3 DEF T

(* Collecting one subcomponent after the other. *)
Collects(s, acc) == acc[0] = << >> /\ \A k \in 1..Len(s) : acc[k] = Collect(acc[k - 1], s[k])

(* The fold of Collect goes through the declarations one by one. *)
LEMMA CollectedIs ==
    ASSUME NEW X, NEW s \in Seq(X)
    PROVE  \E acc : Collects(s, acc) /\ FoldLeft(Collect, << >>, s) = acc[Len(s)]
<1> DEFINE n == Len(s)
           g == CHOOSE x : IsCollected(s, SUBSET (1..n), x)
           acc == [k \in 0..n |-> g[1..k]]
<1>1. n \in Nat /\ DOMAIN s = 1..n
  OBVIOUS
<1>2. IsCollected(s, SUBSET (1..n), g)
  BY <1>1, CollectedExists
<1>3. FoldLeft(Collect, << >>, s) = g[1..n]
  <2>1. FoldLeft(Collect, << >>, s) = (CHOOSE x : IsCollected(s, SUBSET (DOMAIN s), x))[DOMAIN s]
    BY DEF FoldLeft, MapThenFoldSet, IsCollected
  <2> QED
    BY <2>1, <1>1
<1> HIDE DEF g, n
<1>4. g[1..0] = << >>
  <2>1. 1..0 = {} /\ 1..0 \in SUBSET (1..n)
    BY <1>1
  <2> QED
    BY <2>1, <1>2 DEF IsCollected
<1>5. ASSUME NEW k \in 1..n PROVE g[1..k] = Collect(g[1..(k - 1)], s[k])
  <2>1. k - 1 \in Nat /\ (k - 1) + 1 = k /\ 1..k \in SUBSET (1..n)
    BY <1>1
  <2>2. Max(1..k) = k /\ (1..k) \ {k} = 1..(k - 1) /\ 1..k # {}
    BY <2>1, LargestUpTo
  <2>3. g[1..k] = IF 1..k = {} THEN << >> ELSE Collect(g[(1..k) \ {Max(1..k)}], s[Max(1..k)])
    BY <2>1, <1>2 DEF IsCollected
  <2> QED
    BY <2>2, <2>3
<1>6. acc[0] = << >>
  BY <1>1, <1>4
<1>7. ASSUME NEW k \in 1..n PROVE acc[k] = Collect(acc[k - 1], s[k])
  <2>1. k \in 0..n /\ k - 1 \in 0..n
    BY <1>1
  <2> QED
    BY <2>1, <1>5
<1>8. acc[n] = g[1..n]
  BY <1>1
<1> HIDE DEF acc
<1> QED
  BY <1>3, <1>6, <1>7, <1>8 DEF Collects, n

(* The place of the first of the collected subcomponents with a name. *)
PlaceOf(s, x) == SelectInSeq(s, LAMBDA t : t.name = x)

(* SelectInSeq finds a subcomponent of the name if there is one. *)
LEMMA FirstNamed ==
    ASSUME NEW X, NEW s \in Seq(X), NEW x
    PROVE  /\ PlaceOf(s, x) = 0 => \A k \in 1..Len(s) : s[k].name # x
           /\ PlaceOf(s, x) # 0 => PlaceOf(s, x) \in 1..Len(s) /\ s[PlaceOf(s, x)].name = x
<1> DEFINE I == {i \in 1..Len(s) : s[i].name = x}
           pos == PlaceOf(s, x)
<1>1. pos = IF I # {} THEN Min(I) ELSE 0
  BY DEF SelectInSeq, PlaceOf
<1>2. Len(s) \in Nat
  OBVIOUS
<1>3. ASSUME I # {} PROVE Min(I) \in I
  <2>1. PICK i \in I : TRUE
    BY <1>3
  <2> DEFINE n == Len(s)
             J == {(n + 1) - j : j \in I}
  <2>2. J \in SUBSET (1..(n + 1)) /\ J # {}
    BY <2>1, <1>2
  <2>3. Max(J) \in J /\ \A y \in J : Max(J) >= y
    BY <1>2, <2>2, LargestOf
  <2>4. PICK j \in I : Max(J) = (n + 1) - j
    BY <2>3
  <2>5. \A y \in I : j <= y
    <3> TAKE y \in I
    <3>1. (n + 1) - j >= (n + 1) - y
      BY <2>3, <2>4
    <3> QED
      BY <3>1, <1>2
  <2> HIDE DEF I
  <2> QED
    BY <2>5 DEF Min
<1>4. CASE I = {}
  BY <1>1, <1>4
<1>5. CASE I # {}
  <2>1. pos \in I /\ pos # 0
    <3>1. pos = Min(I) /\ Min(I) \in I
      BY <1>1, <1>3, <1>5
    <3> HIDE DEF pos
    <3> QED
      BY <3>1
  <2> QED
    BY <2>1
<1> QED
  BY <1>4, <1>5

(* Dropping the element at a place. *)
LEMMA RemoveFacts ==
    ASSUME NEW X, NEW s \in Seq(X), NEW pos \in 1..Len(s)
    PROVE  LET r == RemoveAt(s, pos) IN
           /\ r \in Seq(X) /\ Len(r) = Len(s) - 1
           /\ \A k \in 1..(Len(s) - 1) : r[k] = IF k < pos THEN s[k] ELSE s[k + 1]
<1> DEFINE n == Len(s)
           a == SubSeq(s, 1, pos - 1)
           b == SubSeq(s, pos + 1, n)
<1>1. n \in Nat /\ pos \in Nat /\ 1 <= pos /\ pos <= n
  OBVIOUS
<1>2. a \in Seq(X) /\ Len(a) = pos - 1 /\ \A k \in 1..(pos - 1) : a[k] = s[k]
  BY <1>1
<1>3. b \in Seq(X) /\ Len(b) = n - pos /\ \A k \in 1..(n - pos) : b[k] = s[pos + k]
  <2>1. b \in Seq(X) /\ Len(b) = n - pos
    BY <1>1
  <2>2. ASSUME NEW k \in 1..(n - pos) PROVE b[k] = s[pos + k]
    <3>1. k \in 1..(n - (pos + 1) + 1) /\ (pos + 1) + k - 1 = pos + k
      BY <1>1
    <3> QED
      BY <3>1, <1>1
  <2> HIDE DEF b, n
  <2> QED
    BY <2>1, <2>2
<1> HIDE DEF a, b
<1>4. a \o b \in Seq(X) /\ Len(a \o b) = n - 1
  <2>0. a \in Seq(X) /\ b \in Seq(X)
    BY <1>2, <1>3
  <2>1. a \o b \in Seq(X) /\ Len(a \o b) = Len(a) + Len(b)
    BY ONLY <2>0
  <2> HIDE DEF n
  <2> QED
    BY <2>1, <1>1, <1>2, <1>3
<1>5. ASSUME NEW k \in 1..(n - 1) PROVE (a \o b)[k] = IF k < pos THEN s[k] ELSE s[k + 1]
  <2>1. (a \o b)[k] = IF k <= Len(a) THEN a[k] ELSE b[k - Len(a)]
    BY <1>1, <1>2, <1>3
  <2>2. CASE k < pos
    BY <2>1, <2>2, <1>1, <1>2
  <2>3. CASE ~(k < pos)
    <3>1. ~(k <= Len(a)) /\ k - Len(a) \in 1..(n - pos) /\ pos + (k - Len(a)) = k + 1
      BY <2>3, <1>1, <1>2
    <3>2. b[k - Len(a)] = s[k + 1]
      BY <3>1, <1>3
    <3> QED
      BY <2>1, <2>3, <3>1, <3>2
  <2> QED
    BY <2>2, <2>3
<1> QED
  BY <1>4, <1>5 DEF RemoveAt, a, b

(* The recursion of Chain. *)
Longer(c) ==
    LET parent == decl[Head(c)].extends
    IN IF parent \in Impls \ ToSet(c) THEN <<parent>> \o c ELSE c
IsChain(i, n, g) == g = [k \in 0..n |-> IF k = 0 THEN <<i>> ELSE Longer(g[k - 1])]

(* The recursion of Chain has a solution. *)
LEMMA ChainExists ==
    ASSUME NEW i
    PROVE  \A n \in Nat : \E g : IsChain(i, n, g)
<1> DEFINE T == {n \in Nat : \E g : IsChain(i, n, g)}
<1>1. 0 \in T
  <2> DEFINE g == [k \in 0..0 |-> <<i>>]
  <2>1. \A k \in 0..0 : k = 0
    OBVIOUS
  <2>2. IsChain(i, 0, g)
    BY <2>1 DEF IsChain
  <2> QED
    BY <2>2
<1>2. ASSUME NEW n \in Nat, n \in T PROVE n + 1 \in T
  <2>1. PICK g : IsChain(i, n, g)
    BY <1>2
  <2> DEFINE Val(k) == IF k = 0 THEN <<i>> ELSE Longer(g[k - 1])
             h == [k \in 0..(n + 1) |-> Val(k)]
  <2>2. \A k \in 0..n : h[k] = g[k]
    <3>1. \A k \in 0..n : k \in 0..(n + 1)
      OBVIOUS
    <3> QED
      BY <2>1, <3>1 DEF IsChain
  <2>3. \A k \in 0..(n + 1) : k # 0 => h[k - 1] = g[k - 1]
    <3>1. \A k \in 0..(n + 1) : k # 0 => k - 1 \in 0..n
      OBVIOUS
    <3> QED
      BY <2>2, <3>1
  <2>4. \A k \in 0..(n + 1) : Val(k) = IF k = 0 THEN <<i>> ELSE Longer(h[k - 1])
    BY <2>3
  <2>5. IsChain(i, n + 1, h)
    BY <2>4 DEF IsChain
  <2> QED
    BY <2>5
<1> HIDE DEF T
<1>3. \A n \in Nat : n \in T
  BY <1>1, <1>2, ClosedUnderSuccessor
<1> QED
  BY <1>3 DEF T

(* A chain is a nonempty sequence of implementations. *)
LEMMA ChainIs ==
    ASSUME decl \in [Impls -> Implementation], NEW i \in Impls
    PROVE  Chain(i) \in Seq(Impls) /\ Chain(i) # << >>
<1> DEFINE n == Cardinality(Impls)
           g == CHOOSE x : IsChain(i, n, x)
<1>1. n \in Nat
  BY InstanceAssumption, FS_CardinalityType
<1>2. IsChain(i, n, g)
  BY <1>1, ChainExists
<1>3. Chain(i) = g[n]
  BY DEF Chain, IsChain, Longer
<1> HIDE DEF g, n
<1>4. \A k \in 0..n : g[k] = IF k = 0 THEN <<i>> ELSE Longer(g[k - 1])
  BY <1>2 DEF IsChain
<1> DEFINE Fine(c) == c \in Seq(Impls) /\ c # << >>
           T == {k \in Nat : k <= n => Fine(g[k])}
<1>5. 0 \in T
  <2>1. g[0] = <<i>>
    BY <1>1, <1>4
  <2>2. <<i>> \in Seq(Impls) /\ <<i>> # << >>
    OBVIOUS
  <2> QED
    BY <2>1, <2>2
<1>6. ASSUME NEW k \in Nat, k \in T PROVE k + 1 \in T
  <2> SUFFICES ASSUME k + 1 <= n PROVE Fine(g[k + 1])
    OBVIOUS
  <2> DEFINE c == g[k]
             parent == decl[Head(c)].extends
  <2>1. Fine(c) /\ k + 1 \in 0..n /\ k + 1 # 0 /\ (k + 1) - 1 = k
    BY <1>1, <1>6
  <2>2. g[k + 1] = IF parent \in Impls \ ToSet(c) THEN <<parent>> \o c ELSE c
    BY <1>4, <2>1 DEF Longer
  <2> HIDE DEF c, parent
  <2>3. CASE parent \in Impls \ ToSet(c)
    <3>1. <<parent>> \in Seq(Impls) /\ c \in Seq(Impls) /\ g[k + 1] = <<parent>> \o c
      BY <2>1, <2>2, <2>3
    <3>2. <<parent>> \o c \in Seq(Impls) /\ Len(<<parent>> \o c) = 1 + Len(c) /\ Len(c) \in Nat
      BY <3>1
    <3>3. Len(g[k + 1]) # 0
      BY <3>1, <3>2
    <3> QED
      BY <3>1, <3>2, <3>3
  <2>4. CASE parent \notin Impls \ ToSet(c)
    BY <2>1, <2>2, <2>4
  <2> QED
    BY <2>3, <2>4
<1> HIDE DEF T
<1>7. \A k \in Nat : k \in T
  BY <1>5, <1>6, ClosedUnderSuccessor
<1>8. n \in T /\ n <= n
  BY <1>1, <1>7
<1> QED
  BY <1>3, <1>8 DEF T

(* The subcomponents declared along a chain, in order. *)
Listed(i) == FlattenSeq([k \in DOMAIN Chain(i) |-> decl[Chain(i)[k]].subs])

(* The declarations along an extends chain, one after the other. *)
LEMMA ListedIs ==
    ASSUME decl \in [Impls -> Implementation], NEW i \in Impls
    PROVE  /\ Listed(i) \in Seq(Subcomponent)
           /\ \E off : Laid(Listed(i), [k \in DOMAIN Chain(i) |-> decl[Chain(i)[k]].subs],
                            Len(Chain(i)), off)
<1> DEFINE c == Chain(i)
           ss == [k \in DOMAIN c |-> decl[c[k]].subs]
<1>1. c \in Seq(Impls)
  BY ChainIs
<1> HIDE DEF c
<1>2. Len(c) \in Nat /\ DOMAIN c = 1..Len(c) /\ \A k \in 1..Len(c) : c[k] \in Impls
  BY <1>1
<1>3. \A k \in 1..Len(c) : decl[c[k]].subs \in Seq(Subcomponent)
  BY <1>2 DEF Implementation
<1>4. ss \in Seq(Seq(Subcomponent)) /\ Len(ss) = Len(c)
  BY <1>2, <1>3
<1> HIDE DEF ss
<1>5. FlattenSeq(ss) \in Seq(Subcomponent) /\ \E off : Laid(FlattenSeq(ss), ss, Len(ss), off)
  BY <1>4, FlattenIs
<1> QED
  BY <1>4, <1>5 DEF Listed, ss, c

(* What an implementation refines keeps its type. *)
LEMMA CollectIs ==
    ASSUME NEW a \in Seq(Subcomponent), NEW s \in Subcomponent
    PROVE  Collect(a, s) \in Seq(Subcomponent)
<1> DEFINE pos == PlaceOf(a, s.name)
           cls == IF s.cls.kind = "none" THEN a[pos].cls ELSE s.cls
           indirect == IF s.cls.kind = "none" THEN a[pos].indirect ELSE s.indirect
           new == [s EXCEPT !.cls = cls, !.indirect = indirect]
<1>1. pos # 0 => pos \in 1..Len(a)
  BY FirstNamed DEF pos
<1>2. Collect(a, s) = IF s.refined /\ pos # 0 THEN Append(RemoveAt(a, pos), new) ELSE Append(a, s)
  BY DEF Collect, PlaceOf
<1> HIDE DEF pos
<1>3. CASE s.refined /\ pos # 0
  <2>1. RemoveAt(a, pos) \in Seq(Subcomponent) /\ a[pos] \in Subcomponent
    BY <1>1, <1>3, RemoveFacts
  <2>2. cls \in Classifier /\ indirect \in BOOLEAN
    BY <2>1 DEF Subcomponent
  <2> HIDE DEF cls, indirect
  <2>4. new \in Subcomponent
    BY <2>2 DEF Subcomponent
  <2> HIDE DEF new
  <2> QED
    BY <2>1, <2>4, <1>2, <1>3
<1>4. CASE ~(s.refined /\ pos # 0)
  BY <1>2, <1>4
<1> QED
  BY <1>3, <1>4

(* all_subs of collect_impl_chain is built declaration by declaration. *)
LEMMA AllSubsIs ==
    ASSUME decl \in [Impls -> Implementation], NEW i \in Impls
    PROVE  \E acc : /\ Collects(Listed(i), acc) /\ AllSubs(i) = acc[Len(Listed(i))]
                    /\ \A k \in 0..Len(Listed(i)) : acc[k] \in Seq(Subcomponent)
<1> DEFINE s == Listed(i)
<1>1. s \in Seq(Subcomponent)
  BY ListedIs
<1>2. AllSubs(i) = FoldLeft(Collect, << >>, s)
  BY DEF AllSubs, Listed
<1> HIDE DEF s
<1>3. PICK acc : Collects(s, acc) /\ FoldLeft(Collect, << >>, s) = acc[Len(s)]
  BY <1>1, CollectedIs
<1> DEFINE T == {k \in Nat : k <= Len(s) => acc[k] \in Seq(Subcomponent)}
<1>4. 0 \in T
  <2>1. acc[0] = << >> /\ << >> \in Seq(Subcomponent)
    BY <1>3 DEF Collects
  <2> QED
    BY <2>1
<1>5. ASSUME NEW k \in Nat, k \in T PROVE k + 1 \in T
  <2> SUFFICES ASSUME k + 1 <= Len(s) PROVE acc[k + 1] \in Seq(Subcomponent)
    OBVIOUS
  <2>1. k + 1 \in 1..Len(s) /\ (k + 1) - 1 = k /\ acc[k] \in Seq(Subcomponent)
    BY <1>1, <1>5
  <2>2. acc[k + 1] = Collect(acc[k], s[k + 1]) /\ s[k + 1] \in Subcomponent
    <3>1. acc[k + 1] = Collect(acc[(k + 1) - 1], s[k + 1])
      BY <2>1, <1>3 DEF Collects
    <3> QED
      BY <3>1, <2>1, <1>1
  <2> QED
    BY <2>1, <2>2, CollectIs
<1> HIDE DEF T
<1>6. \A k \in Nat : k \in T
  BY <1>4, <1>5, ClosedUnderSuccessor
<1>7. \A k \in 0..Len(s) : acc[k] \in Seq(Subcomponent)
  BY <1>1, <1>6 DEF T
<1> QED
  BY <1>2, <1>3, <1>7 DEF s

(* collect_impl_chain returns subcomponents and modes. *)
Inherited == [subs : Seq(Subcomponent), modes : Seq(ModeNames), circular : BOOLEAN]

(* What collect_impl_chain returns has its type. *)
LEMMA ImplChainIs ==
    ASSUME decl \in [Impls -> Implementation], NEW i \in Impls
    PROVE  ImplChain(i) \in Inherited
<1>1. AllSubs(i) \in Seq(Subcomponent)
  <2>1. Len(Listed(i)) \in 0..Len(Listed(i))
    BY ListedIs
  <2> QED
    BY <2>1, AllSubsIs
<1>2. AllImplModes(i) \in Seq(ModeNames)
  <2> DEFINE c == Chain(i)
             ms == [k \in DOMAIN c |-> decl[c[k]].modes]
  <2>1. c \in Seq(Impls)
    BY ChainIs
  <2>2. AllImplModes(i) = FlattenSeq(ms)
    BY DEF AllImplModes
  <2> HIDE DEF c
  <2>3. Len(c) \in Nat /\ DOMAIN c = 1..Len(c) /\ \A k \in 1..Len(c) : c[k] \in Impls
    BY <2>1
  <2>4. \A k \in 1..Len(c) : decl[c[k]].modes \in Seq(ModeNames)
    BY <2>3 DEF Implementation
  <2>5. ms \in Seq(Seq(ModeNames))
    BY <2>3, <2>4
  <2> HIDE DEF ms
  <2> QED
    BY <2>2, <2>5, FlattenIs
<1>3. CircularExtends(i) \in BOOLEAN
  BY DEF CircularExtends
<1> QED
  BY <1>1, <1>2, <1>3 DEF ImplChain, Inherited

--------------------------------------------------------------------------------
(* The arena and the stack of calls                                        *)

Component ==
    [name : Names \cup {NoImpl}, elem : Nat, cls : Classifier, parent : Nat,
     children : Seq(Nat), modes : Seq(ModeNames)]
FrameType == [idx : Nat, sub : Nat, elem : Nat, kids : Seq(Nat)]

(* The arena cs, the stack fr of pending calls and the depth lv of each      *)
(* component; ch is what each implementation inherits.                       *)
SubsOf(ch, cs, c) == ch[cs[c].cls.of].subs

(* The elements made when the loop over subs is at element n of the j-th. *)
Placed(subs, j, n) ==
    {p \in (1..Len(subs)) \X (Nat \ {0}) :
        /\ p[2] <= ElementCount(subs[p[1]])
        /\ p[1] < j \/ (p[1] = j /\ p[2] <= n)}
Element(s, e) == [name |-> s.name, cls |-> s.cls, elem |-> IF s.dim = NoDim THEN 0 ELSE e]
Rec(cs, k) == [name |-> cs[k].name, cls |-> cs[k].cls, elem |-> cs[k].elem]

(* s lists the components below c. *)
Kids(cs, s, c) ==
    /\ s \in Seq(1..Len(cs))
    /\ \A a, b \in 1..Len(s) : s[a] = s[b] => a = b
    /\ \A k \in 1..Len(cs) : cs[k].parent = c <=> \E a \in 1..Len(s) : s[a] = k

(* w says which element each component of s is. *)
Assigns(cs, s, subs, P, w) ==
    /\ \A q \in 1..Len(s) : w[q] \in P /\ Rec(cs, s[q]) = Element(subs[w[q][1]], w[q][2])
    /\ \A q, r \in 1..Len(s) : w[q] = w[r] => q = r
    /\ \A p \in P : \E q \in 1..Len(s) : w[q] = p
Builds(cs, s, subs, j, n) == \E w : Assigns(cs, s, subs, Placed(subs, j, n), w)

Levels(cs, lv) ==
    \A c \in 1..Len(cs) :
        /\ cs[c].parent \in 0..(c - 1) /\ (c > 1 => cs[c].parent # 0) /\ lv[c] \in Nat
        /\ lv[c] = IF cs[c].parent = 0 THEN 0 ELSE lv[cs[c].parent] + 1
Stacked(cs, fr, lv) ==
    /\ Len(fr) <= MaxDepth
    /\ \A f \in 1..Len(fr) :
        /\ fr[f].idx \in 1..Len(cs) /\ cs[fr[f].idx].cls.kind = "impl" /\ lv[fr[f].idx] = f - 1
        /\ f > 1 => cs[fr[f].idx].parent = fr[f - 1].idx
AtWork(ch, cs, r) ==
    LET subs == SubsOf(ch, cs, r.idx) IN
    /\ r.sub \in 1..(Len(subs) + 1)
    /\ IF r.sub <= Len(subs) THEN r.elem < ElementCount(subs[r.sub]) ELSE r.elem = 0
    /\ Kids(cs, r.kids, r.idx) /\ Builds(cs, r.kids, subs, r.sub, r.elem)
Finished(ch, cs, lv, c) ==
    /\ Kids(cs, cs[c].children, c)
    /\ IF cs[c].cls.kind = "impl" /\ lv[c] < MaxDepth
       THEN Builds(cs, cs[c].children, SubsOf(ch, cs, c), Len(SubsOf(ch, cs, c)) + 1, 0)
       ELSE cs[c].children = << >>
TreeOf(ch, cs, fr, lv) ==
    /\ Levels(cs, lv) /\ Stacked(cs, fr, lv)
    /\ \A f \in 1..Len(fr) : AtWork(ch, cs, fr[f])
    /\ \A c \in 1..Len(cs) : (\A f \in 1..Len(fr) : fr[f].idx # c) => Finished(ch, cs, lv, c)

(* There is at least one element of a subcomponent. *)
LEMMA CountIs ==
    ASSUME NEW s
    PROVE  ElementCount(s) \in Nat \ {0}
BY DEF ElementCount

(* Classifiers that are implementations. *)
LEMMA ImplIs ==
    ASSUME NEW c \in Classifier, c.kind = "impl"
    PROVE  c.of \in Impls
BY DEF Classifier

(* A new component changes nothing for those that are not above it. *)
LEMMA KidsGrow ==
    ASSUME NEW cs \in Seq(Component), NEW x \in Component, NEW s, NEW c, Kids(cs, s, c), x.parent # c
    PROVE  Kids(Append(cs, x), s, c)
<1> DEFINE n == Len(cs)
           ds == Append(cs, x)
<1>1. n \in Nat /\ Len(ds) = n + 1 /\ ds[n + 1] = x /\ \A k \in 1..n : ds[k] = cs[k]
  BY AppendProperties
<1> HIDE DEF ds
<1>2. s \in Seq(1..n) /\ \A a, b \in 1..Len(s) : s[a] = s[b] => a = b
  BY DEF Kids
<1>3. Len(s) \in Nat /\ \A a \in 1..Len(s) : s[a] \in 1..n
  BY <1>2
<1>4. s \in Seq(1..(n + 1))
  BY <1>1, <1>2, <1>3
<1>5. ASSUME NEW k \in 1..(n + 1) PROVE ds[k].parent = c <=> \E a \in 1..Len(s) : s[a] = k
  <2>1. CASE k \in 1..n
    BY <2>1, <1>1 DEF Kids
  <2>2. CASE k = n + 1
    BY <2>2, <1>1, <1>3
  <2> QED
    BY <2>1, <2>2, <1>1
<1> QED
  BY <1>1, <1>2, <1>4, <1>5 DEF Kids, ds

(* A component allocated below c is one more of the children of c. *)
LEMMA KidsAdd ==
    ASSUME NEW cs \in Seq(Component), NEW x \in Component, NEW s, NEW c, Kids(cs, s, c), x.parent = c
    PROVE  Kids(Append(cs, x), Append(s, Len(cs) + 1), c)
<1> DEFINE n == Len(cs)
           ds == Append(cs, x)
           t == Append(s, n + 1)
<1>1. n \in Nat /\ Len(ds) = n + 1 /\ ds[n + 1] = x /\ \A k \in 1..n : ds[k] = cs[k]
  BY AppendProperties
<1> HIDE DEF ds
<1>2. s \in Seq(1..n) /\ \A a, b \in 1..Len(s) : s[a] = s[b] => a = b
  BY DEF Kids
<1>3. Len(s) \in Nat /\ \A a \in 1..Len(s) : s[a] \in 1..n
  BY <1>2
<1>4. s \in Seq(1..(n + 1)) /\ n + 1 \in 1..(n + 1)
  BY <1>1, <1>2, <1>3
<1>5. /\ t \in Seq(1..(n + 1)) /\ Len(t) = Len(s) + 1 /\ t[Len(s) + 1] = n + 1
      /\ \A a \in 1..Len(s) : t[a] = s[a]
  BY <1>4, AppendProperties
<1> HIDE DEF t
<1>6. ASSUME NEW a \in 1..Len(t), NEW b \in 1..Len(t), t[a] = t[b] PROVE a = b
  <2>1. \A d \in 1..Len(t) : IF d = Len(s) + 1 THEN t[d] = n + 1
                             ELSE d \in 1..Len(s) /\ t[d] = s[d] /\ s[d] # n + 1
    BY <1>1, <1>3, <1>5
  <2> QED
    BY <2>1, <1>2, <1>6
<1>7. ASSUME NEW k \in 1..(n + 1) PROVE ds[k].parent = c <=> \E a \in 1..Len(t) : t[a] = k
  <2>1. CASE k \in 1..n
    <3>1. cs[k].parent = c <=> \E a \in 1..Len(s) : s[a] = k
      BY <2>1 DEF Kids
    <3>2. (\E a \in 1..Len(s) : s[a] = k) <=> \E a \in 1..Len(t) : t[a] = k
      <4>1. \A a \in 1..Len(s) : a \in 1..Len(t) /\ t[a] = s[a]
        BY <1>3, <1>5
      <4>2. \A a \in 1..Len(t) : a \in 1..Len(s) \/ t[a] = n + 1
        BY <1>3, <1>5
      <4>3. k # n + 1
        BY <2>1, <1>1
      <4> QED
        BY <4>1, <4>2, <4>3
    <3> QED
      BY <3>1, <3>2, <2>1, <1>1
  <2>2. CASE k = n + 1
    <3>1. Len(s) + 1 \in 1..Len(t) /\ t[Len(s) + 1] = k
      BY <2>2, <1>3, <1>5
    <3> QED
      BY <3>1, <2>2, <1>1
  <2> QED
    BY <2>1, <2>2, <1>1
<1> QED
  BY <1>1, <1>5, <1>6, <1>7 DEF Kids, ds, t

(* Records of old components stay. *)
LEMMA BuildsSame ==
    ASSUME NEW cs, NEW ds, NEW s, NEW subs, NEW j, NEW n, Builds(cs, s, subs, j, n),
           \A q \in 1..Len(s) : Rec(ds, s[q]) = Rec(cs, s[q])
    PROVE  Builds(ds, s, subs, j, n)
BY DEF Builds, Assigns

(* Before the first element nothing is made. *)
LEMMA BuildsNothing ==
    ASSUME NEW cs, NEW subs
    PROVE  Builds(cs, << >>, subs, 1, 0)
<1>1. Placed(subs, 1, 0) = {}
  BY DEF Placed
<1>2. Assigns(cs, << >>, subs, {}, << >>)
  BY DEF Assigns
<1> QED
  BY <1>1, <1>2 DEF Builds

(* One more element. *)
LEMMA BuildsMore ==
    ASSUME NEW cs, NEW s \in Seq(Nat), NEW subs \in Seq(Subcomponent), NEW j \in 1..Len(subs), NEW n \in Nat,
           n < ElementCount(subs[j]), Builds(cs, s, subs, j, n), NEW c \in Nat,
           Rec(cs, c) = Element(subs[j], n + 1)
    PROVE  IF n + 1 = ElementCount(subs[j]) THEN Builds(cs, Append(s, c), subs, j + 1, 0)
           ELSE Builds(cs, Append(s, c), subs, j, n + 1)
<1> DEFINE P == Placed(subs, j, n)
           Q == Placed(subs, j, n + 1)
           new == <<j, n + 1>>
           m == Len(s)
           t == Append(s, c)
<1>0. \A i \in 1..Len(subs) : ElementCount(subs[i]) \in Nat \ {0}
  BY CountIs
<1>1. PICK w : Assigns(cs, s, subs, P, w)
  BY DEF Builds
<1> DEFINE v == [q \in 1..(m + 1) |-> IF q = m + 1 THEN new ELSE w[q]]
<1>2. Q = P \cup {new} /\ new \notin P
  <2>1. new \in Q /\ new \notin P
    BY <1>0 DEF Placed
  <2>2. \A p \in (1..Len(subs)) \X (Nat \ {0}) : p \in Q <=> p \in P \/ p = new
    <3> TAKE p \in (1..Len(subs)) \X (Nat \ {0})
    <3>1. p[1] \in 1..Len(subs) /\ p[2] \in Nat \ {0} /\ p = <<p[1], p[2]>>
      OBVIOUS
    <3>2. p[2] <= n + 1 <=> p[2] <= n \/ p[2] = n + 1
      BY <3>1
    <3>3. p = new <=> p[1] = j /\ p[2] = n + 1
      BY <3>1
    <3> QED
      BY <3>1, <3>2, <3>3, <1>0 DEF Placed
  <2> QED
    BY <2>1, <2>2 DEF Placed
<1>3. /\ m \in Nat /\ t \in Seq(Nat) /\ Len(t) = m + 1 /\ t[m + 1] = c
      /\ \A q \in 1..m : t[q] = s[q]
  BY AppendProperties
<1>4. v[m + 1] = new /\ \A q \in 1..m : v[q] = w[q]
  BY <1>3
<1> HIDE DEF v, t, P, Q
<1>4a. \A q \in 1..m : w[q] \in P /\ Rec(cs, s[q]) = Element(subs[w[q][1]], w[q][2])
  BY <1>1 DEF Assigns
<1>5. new[1] = j /\ new[2] = n + 1
  OBVIOUS
<1> HIDE DEF new
<1>6. ASSUME NEW q \in 1..(m + 1)
      PROVE  v[q] \in Q /\ Rec(cs, t[q]) = Element(subs[v[q][1]], v[q][2])
  <2>1. CASE q = m + 1
    BY <2>1, <1>2, <1>3, <1>4, <1>5
  <2>2. CASE q \in 1..m
    <3>1. v[q] = w[q] /\ t[q] = s[q] /\ w[q] \in P
      BY <2>2, <1>3, <1>4, <1>4a
    <3>2. Rec(cs, s[q]) = Element(subs[w[q][1]], w[q][2])
      BY <2>2, <1>4a
    <3> QED
      BY <3>1, <3>2, <1>2
  <2> QED
    BY <2>1, <2>2, <1>3
<1>7. ASSUME NEW q \in 1..(m + 1), NEW r \in 1..(m + 1), v[q] = v[r] PROVE q = r
  <2>1. \A d \in 1..(m + 1) : d = m + 1 \/ (d \in 1..m /\ v[d] = w[d] /\ w[d] # new)
    <3> TAKE d \in 1..(m + 1)
    <3>1. d # m + 1 => d \in 1..m
      BY <1>3
    <3> QED
      BY <3>1, <1>2, <1>4, <1>4a
  <2>2. CASE q = m + 1 \/ r = m + 1
    BY <2>1, <2>2, <1>4, <1>7
  <2>3. CASE q \in 1..m /\ r \in 1..m
    BY <2>3, <1>1, <1>4, <1>7 DEF Assigns, m
  <2> QED
    BY <2>1, <2>2, <2>3
<1>8. ASSUME NEW p \in Q PROVE \E q \in 1..(m + 1) : v[q] = p
  <2>1. CASE p = new
    <3>1. m + 1 \in 1..(m + 1)
      BY <1>3
    <3> QED
      BY <3>1, <2>1, <1>4
  <2>2. CASE p \in P
    <3>1. PICK q \in 1..m : w[q] = p
      BY <2>2, <1>1 DEF Assigns, m
    <3>2. q \in 1..(m + 1)
      BY <1>3
    <3> QED
      BY <3>1, <3>2, <1>4
  <2> QED
    BY <2>1, <2>2, <1>2
<1>9. Assigns(cs, t, subs, Q, v)
  BY <1>3, <1>6, <1>7, <1>8 DEF Assigns
<1>10. CASE n + 1 = ElementCount(subs[j])
  <2>1. Q = Placed(subs, j + 1, 0)
    <3>1. \A p \in (1..Len(subs)) \X (Nat \ {0}) : p \in Q <=> p \in Placed(subs, j + 1, 0)
      <4> TAKE p \in (1..Len(subs)) \X (Nat \ {0})
      <4>1. p[1] \in 1..Len(subs) /\ p[2] \in Nat \ {0} /\ ElementCount(subs[p[1]]) \in Nat
        BY <1>0
      <4>2. p[1] < j + 1 <=> p[1] < j \/ p[1] = j
        BY <4>1
      <4>3. ~(p[2] <= 0)
        BY <4>1
      <4>4. p[1] = j => (p[2] <= ElementCount(subs[p[1]]) <=> p[2] <= n + 1)
        BY <1>10
      <4> QED
        BY <4>2, <4>3, <4>4 DEF Placed, Q
    <3> QED
      BY <3>1 DEF Placed, Q
  <2> QED
    BY <2>1, <1>9, <1>10 DEF Builds, t
<1>11. CASE n + 1 # ElementCount(subs[j])
  BY <1>9, <1>11 DEF Builds, t, Q
<1> QED
  BY <1>10, <1>11

(* A call that is not for the parent of the new component goes on as before. *)
LEMMA WorkSame ==
    ASSUME NEW ch, NEW cs \in Seq(Component), NEW x \in Component, NEW r,
           AtWork(ch, cs, r), r.idx \in 1..Len(cs), x.parent # r.idx
    PROVE  AtWork(ch, Append(cs, x), r)
<1> DEFINE n == Len(cs)
           ds == Append(cs, x)
           subs == SubsOf(ch, cs, r.idx)
<1>1. n \in Nat /\ Len(ds) = n + 1 /\ ds[n + 1] = x /\ \A k \in 1..n : ds[k] = cs[k]
  BY AppendProperties
<1>2. Kids(cs, r.kids, r.idx) /\ Builds(cs, r.kids, subs, r.sub, r.elem)
  BY DEF AtWork
<1>3. Kids(ds, r.kids, r.idx)
  BY <1>2, KidsGrow
<1> HIDE DEF ds
<1>4. \A q \in 1..Len(r.kids) : r.kids[q] \in 1..n
  BY <1>2 DEF Kids
<1>5. \A q \in 1..Len(r.kids) : Rec(ds, r.kids[q]) = Rec(cs, r.kids[q])
  BY <1>1, <1>4 DEF Rec
<1>6. Builds(ds, r.kids, subs, r.sub, r.elem)
  BY <1>2, <1>5, BuildsSame
<1>7. SubsOf(ch, ds, r.idx) = subs
  BY <1>1 DEF SubsOf
<1> HIDE DEF subs
<1>8. /\ r.sub \in 1..(Len(subs) + 1)
      /\ IF r.sub <= Len(subs) THEN r.elem < ElementCount(subs[r.sub]) ELSE r.elem = 0
  BY DEF AtWork, subs
<1> QED
  BY <1>3, <1>6, <1>7, <1>8 DEF AtWork, ds

(* A component that has its children is not disturbed by one allocated   *)
(* below another.                                                        *)
LEMMA FinishedSame ==
    ASSUME NEW ch, NEW cs \in Seq(Component), NEW x \in Component, NEW lv, NEW lw, NEW c \in 1..Len(cs),
           Finished(ch, cs, lv, c), lw[c] = lv[c], x.parent # c
    PROVE  Finished(ch, Append(cs, x), lw, c)
<1> DEFINE n == Len(cs)
           ds == Append(cs, x)
           subs == SubsOf(ch, cs, c)
           s == cs[c].children
<1>1. n \in Nat /\ Len(ds) = n + 1 /\ ds[n + 1] = x /\ \A k \in 1..n : ds[k] = cs[k]
  BY AppendProperties
<1>2. Kids(cs, s, c)
  BY DEF Finished
<1>3. Kids(ds, s, c)
  BY <1>2, KidsGrow
<1> HIDE DEF ds
<1>4. \A q \in 1..Len(s) : s[q] \in 1..n
  BY <1>2 DEF Kids
<1>5. \A q \in 1..Len(s) : Rec(ds, s[q]) = Rec(cs, s[q])
  BY <1>1, <1>4 DEF Rec
<1>6. SubsOf(ch, ds, c) = subs /\ ds[c] = cs[c]
  BY <1>1 DEF SubsOf
<1>7. CASE cs[c].cls.kind = "impl" /\ lv[c] < MaxDepth
  <2>1. Builds(cs, s, subs, Len(subs) + 1, 0)
    BY <1>7 DEF Finished
  <2>2. Builds(ds, s, subs, Len(subs) + 1, 0)
    BY <1>5, <2>1, BuildsSame
  <2> QED
    BY <1>3, <1>6, <1>7, <2>2 DEF Finished, ds
<1>8. CASE ~(cs[c].cls.kind = "impl" /\ lv[c] < MaxDepth)
  BY <1>3, <1>6, <1>8 DEF Finished, ds
<1> QED
  BY <1>7, <1>8

(* A component without children, for which no call is pending or a call      *)
(* begins.                                                                   *)
LEMMA BeginsWork ==
    ASSUME NEW ch, NEW cs, Len(cs) \in Nat, NEW c, \A k \in 1..Len(cs) : cs[k].parent # c,
           SubsOf(ch, cs, c) \in Seq(Subcomponent)
    PROVE  AtWork(ch, cs, Frame(c))
<1> DEFINE subs == SubsOf(ch, cs, c)
           r == Frame(c)
<1>1. r.idx = c /\ r.sub = 1 /\ r.elem = 0 /\ r.kids = << >>
  BY DEF Frame
<1>2. Len(subs) \in Nat /\ 1 \in 1..(Len(subs) + 1)
  OBVIOUS
<1>3. Kids(cs, << >>, c)
  BY DEF Kids
<1>4. Builds(cs, << >>, subs, 1, 0)
  BY BuildsNothing
<1>5. 0 < ElementCount(subs[1])
  BY CountIs
<1> HIDE DEF r, subs
<1> QED
  BY <1>1, <1>2, <1>3, <1>4, <1>5 DEF AtWork, subs, r

(* The root is made. *)
LEMMA TreeRoot ==
    ASSUME NEW ch \in [Impls -> Inherited], NEW x \in Component, x.parent = 0, x.cls = RootClassifier,
           x.children = << >>, NEW fr,
           fr = IF 0 < MaxDepth THEN <<Frame(1)>> ELSE << >>
    PROVE  TreeOf(ch, <<x>>, fr, <<0>>)
<1> DEFINE cs == <<x>>
           lv == <<0>>
<1>1. Len(cs) = 1 /\ cs[1] = x /\ lv[1] = 0 /\ 1..1 = {1} /\ MaxDepth \in Nat
  BY InstanceAssumption
<1>2. x.cls.kind = "impl" /\ x.cls.of \in Impls
  BY InstanceAssumption DEF RootClassifier
<1> HIDE DEF cs, lv
<1>3. Levels(cs, lv)
  BY <1>1 DEF Levels
<1>4. SubsOf(ch, cs, 1) \in Seq(Subcomponent)
  BY <1>1, <1>2 DEF SubsOf, Inherited
<1>5. \A k \in 1..Len(cs) : cs[k].parent # 1
  BY <1>1
<1>6. CASE 0 < MaxDepth
  <2>1. fr = <<Frame(1)>> /\ Len(fr) = 1 /\ fr[1] = Frame(1) /\ Frame(1).idx = 1
    BY <1>6 DEF Frame
  <2>2. Stacked(cs, fr, lv)
    BY <2>1, <1>1, <1>2, <1>6 DEF Stacked
  <2>3. AtWork(ch, cs, fr[1])
    BY <2>1, <1>1, <1>4, <1>5, BeginsWork
  <2> QED
    BY <2>1, <2>2, <2>3, <1>1, <1>3 DEF TreeOf, cs, lv
<1>7. CASE ~(0 < MaxDepth)
  <2>1. fr = << >> /\ Len(fr) = 0
    BY <1>7
  <2>2. Stacked(cs, fr, lv)
    BY <2>1, <1>1 DEF Stacked
  <2>3. Kids(cs, << >>, 1)
    BY <1>1 DEF Kids
  <2>4. Finished(ch, cs, lv, 1)
    BY <2>3, <1>1, <1>7 DEF Finished
  <2> QED
    BY <2>1, <2>2, <2>4, <1>1, <1>3 DEF TreeOf, cs, lv
<1> QED
  BY <1>6, <1>7

(* Pending calls are for different components. *)
LEMMA CallsDiffer ==
    ASSUME NEW cs, NEW fr, NEW lv, Stacked(cs, fr, lv), NEW f \in 1..Len(fr), NEW g \in 1..Len(fr),
           fr[f].idx = fr[g].idx, Len(fr) \in Nat
    PROVE  f = g
<1>1. lv[fr[f].idx] = f - 1 /\ lv[fr[g].idx] = g - 1
  BY DEF Stacked
<1> QED
  BY <1>1

(* The caller goes on to its next element. *)
CallerOf(top, subs, c) ==
    LET last == top.elem + 1 = ElementCount(subs[top.sub]) IN
    [top EXCEPT !.kids = Append(@, c),
                !.elem = IF last THEN 0 ELSE @ + 1,
                !.sub = IF last THEN @ + 1 ELSE @]

(* The caller after one more element: on to the next element, or to the  *)
(* next subcomponent.                                                    *)
LEMMA CallerIs ==
    ASSUME NEW top \in FrameType, NEW subs, NEW c \in Nat
    PROVE  LET r == CallerOf(top, subs, c)
               last == top.elem + 1 = ElementCount(subs[top.sub])
           IN /\ r \in FrameType /\ r.idx = top.idx /\ r.kids = Append(top.kids, c)
              /\ r.elem = IF last THEN 0 ELSE top.elem + 1
              /\ r.sub = IF last THEN top.sub + 1 ELSE top.sub
<1> DEFINE last == top.elem + 1 = ElementCount(subs[top.sub])
<1>1. top.kids \in Seq(Nat) /\ Append(top.kids, c) \in Seq(Nat)
  BY DEF FrameType
<1>2. top.elem \in Nat /\ top.sub \in Nat
  BY DEF FrameType
<1> DEFINE e == IF last THEN 0 ELSE top.elem + 1
           u == IF last THEN top.sub + 1 ELSE top.sub
           ks == Append(top.kids, c)
<1>3. e \in Nat /\ u \in Nat /\ ks \in Seq(Nat)
  BY <1>1, <1>2
<1>4. CallerOf(top, subs, c) = [top EXCEPT !.kids = ks, !.elem = e, !.sub = u]
  BY DEF CallerOf
<1> HIDE DEF ks, e, u
<1>5. LET r == [top EXCEPT !.kids = ks, !.elem = e, !.sub = u] IN
      r \in FrameType /\ r.idx = top.idx /\ r.kids = ks /\ r.elem = e /\ r.sub = u
  BY <1>3 DEF FrameType
<1> QED
  BY <1>4, <1>5 DEF ks, e, u

(* A pending call of instantiate_component that allocates the next       *)
(* element has, again, allocated exactly the elements before where it    *)
(* stands.                                                               *)
LEMMA WorkGoesOn ==
    ASSUME NEW ch \in [Impls -> Inherited], NEW cs \in Seq(Component), NEW top \in FrameType,
           AtWork(ch, cs, top), top.idx \in 1..Len(cs), cs[top.idx].cls.of \in Impls,
           top.sub <= Len(SubsOf(ch, cs, top.idx)),
           NEW x \in Component, x.parent = top.idx,
           [name |-> x.name, cls |-> x.cls, elem |-> x.elem]
                = Element(SubsOf(ch, cs, top.idx)[top.sub], top.elem + 1)
    PROVE  AtWork(ch, Append(cs, x), CallerOf(top, SubsOf(ch, cs, top.idx), Len(cs) + 1))
<1> DEFINE n == Len(cs)
           ds == Append(cs, x)
           subs == SubsOf(ch, cs, top.idx)
           r == CallerOf(top, subs, n + 1)
           j == top.sub
           e == top.elem
<1>1. n \in Nat /\ Len(ds) = n + 1 /\ ds[n + 1] = x /\ \A k \in 1..n : ds[k] = cs[k]
  BY AppendProperties
<1>2. subs \in Seq(Subcomponent) /\ Len(subs) \in Nat
  <2>1. ch[cs[top.idx].cls.of] \in Inherited
    OBVIOUS
  <2>2. subs \in Seq(Subcomponent)
    BY <2>1 DEF SubsOf, Inherited
  <2> QED
    BY <2>2
<1>3. e \in Nat /\ j \in Nat /\ top.kids \in Seq(Nat)
  BY DEF FrameType
<1>4. /\ j \in 1..(Len(subs) + 1) /\ j <= Len(subs) /\ e < ElementCount(subs[j])
      /\ Kids(cs, top.kids, top.idx) /\ Builds(cs, top.kids, subs, j, e)
  <2>1. j <= Len(subs)
    OBVIOUS
  <2> HIDE DEF subs
  <2>2. /\ top.sub \in 1..(Len(subs) + 1)
        /\ IF top.sub <= Len(subs) THEN top.elem < ElementCount(subs[top.sub]) ELSE top.elem = 0
        /\ Kids(cs, top.kids, top.idx) /\ Builds(cs, top.kids, subs, top.sub, top.elem)
    BY DEF AtWork, subs
  <2> QED
    BY <2>1, <2>2
<1>5. Kids(ds, Append(top.kids, n + 1), top.idx)
  BY <1>4, KidsAdd
<1>6. Rec(ds, n + 1) = Element(subs[j], e + 1)
  BY <1>1 DEF Rec
<1> HIDE DEF ds
<1>7. \A q \in 1..Len(top.kids) : Rec(ds, top.kids[q]) = Rec(cs, top.kids[q])
  <2>1. \A q \in 1..Len(top.kids) : top.kids[q] \in 1..n
    BY <1>4 DEF Kids
  <2> QED
    BY <2>1, <1>1 DEF Rec
<1>8. Builds(ds, top.kids, subs, j, e)
  BY <1>4, <1>7, BuildsSame
<1>9. SubsOf(ch, ds, top.idx) = subs
  BY <1>1 DEF SubsOf
<1>10. /\ r.idx = top.idx /\ r.kids = Append(top.kids, n + 1)
       /\ r.elem = IF e + 1 = ElementCount(subs[j]) THEN 0 ELSE e + 1
       /\ r.sub = IF e + 1 = ElementCount(subs[j]) THEN j + 1 ELSE j
  BY <1>1, CallerIs
<1> HIDE DEF subs, r, j, e
<1>11. j \in 1..Len(subs) /\ n + 1 \in Nat
  BY <1>1, <1>2, <1>4
<1>12. IF e + 1 = ElementCount(subs[j]) THEN Builds(ds, Append(top.kids, n + 1), subs, j + 1, 0)
       ELSE Builds(ds, Append(top.kids, n + 1), subs, j, e + 1)
  BY <1>2, <1>3, <1>4, <1>6, <1>8, <1>11, BuildsMore
<1>13. Builds(ds, r.kids, subs, r.sub, r.elem)
  BY <1>10, <1>12
<1>14. ElementCount(subs[j]) \in Nat /\ ElementCount(subs[j + 1]) \in Nat \ {0}
  BY CountIs
<1>15. /\ r.sub \in 1..(Len(subs) + 1)
       /\ IF r.sub <= Len(subs) THEN r.elem < ElementCount(subs[r.sub]) ELSE r.elem = 0
  <2>1. CASE e + 1 = ElementCount(subs[j])
    BY <2>1, <1>2, <1>10, <1>11, <1>14
  <2>2. CASE e + 1 # ElementCount(subs[j])
    BY <2>2, <1>2, <1>3, <1>4, <1>10, <1>11, <1>14
  <2> QED
    BY <2>1, <2>2
<1> QED
  BY <1>5, <1>9, <1>10, <1>13, <1>15 DEF AtWork, ds, subs, r

(* The stack after a call, given by its frames. *)
Grown(fr, fs, caller, expands, c) ==
    /\ Len(fs) = IF expands THEN Len(fr) + 1 ELSE Len(fr)
    /\ \A f \in 1..(Len(fr) - 1) : fs[f] = fr[f]
    /\ fs[Len(fr)] = caller
    /\ expands => fs[Len(fr) + 1] = Frame(c)

(* What InstantiateChild does to the stack of a tree: x is the next element *)
(* of the subcomponent the innermost frame is at.                            *)
NextChild(ch, cs, fr, lv, x, fs, expands, lw) ==
    LET top == fr[Len(fr)]
        subs == SubsOf(ch, cs, top.idx)
    IN  /\ TreeOf(ch, cs, fr, lv) /\ fr # << >> /\ top.sub <= Len(subs)
        /\ x.parent = top.idx /\ x.children = << >>
        /\ [name |-> x.name, cls |-> x.cls, elem |-> x.elem] = Element(subs[top.sub], top.elem + 1)
        /\ expands <=> x.cls.kind = "impl" /\ Len(fr) < MaxDepth
        /\ Grown(fr, fs, CallerOf(top, subs, Len(cs) + 1), expands, Len(cs) + 1)
        /\ lw[Len(cs) + 1] = Len(fr) /\ \A c \in 1..Len(cs) : lw[c] = lv[c]

(* InstantiateChild keeps the shape of the tree under construction. *)
LEMMA TreeChild ==
    ASSUME NEW ch \in [Impls -> Inherited], NEW cs \in Seq(Component), NEW fr \in Seq(FrameType), NEW lv,
           NEW x \in Component, NEW fs, NEW expands, NEW lw, NextChild(ch, cs, fr, lv, x, fs, expands, lw)
    PROVE  TreeOf(ch, Append(cs, x), fs, lw)
<1>a. PICK top : top = fr[Len(fr)]
  OBVIOUS
<1>b. PICK subs : subs = SubsOf(ch, cs, top.idx)
  OBVIOUS
<1>c. /\ TreeOf(ch, cs, fr, lv) /\ fr # << >> /\ top.sub <= Len(subs)
      /\ x.parent = top.idx /\ x.children = << >>
      /\ [name |-> x.name, cls |-> x.cls, elem |-> x.elem] = Element(subs[top.sub], top.elem + 1)
      /\ expands <=> x.cls.kind = "impl" /\ Len(fr) < MaxDepth
      /\ Grown(fr, fs, CallerOf(top, subs, Len(cs) + 1), expands, Len(cs) + 1)
      /\ lw[Len(cs) + 1] = Len(fr) /\ \A c \in 1..Len(cs) : lw[c] = lv[c]
  BY ONLY <1>a, <1>b, NextChild(ch, cs, fr, lv, x, fs, expands, lw) DEF NextChild
<1> USE <1>a, <1>b, <1>c
<1> DEFINE n == Len(cs)
           m == Len(fr)
           ds == Append(cs, x)
           caller == CallerOf(top, subs, n + 1)
<1>1. n \in Nat /\ Len(ds) = n + 1 /\ ds[n + 1] = x /\ \A k \in 1..n : ds[k] = cs[k] /\ ds[k] \in Component
  BY AppendProperties
<1>2. lw[n + 1] = m /\ \A c \in 1..n : lw[c] = lv[c]
  BY <1>1
<1>3. m \in Nat /\ m > 0 /\ m \in 1..m /\ top \in FrameType
  OBVIOUS
<1>4. Levels(cs, lv) /\ Stacked(cs, fr, lv) /\ AtWork(ch, cs, top)
  BY <1>3 DEF TreeOf
<1>5. /\ top.idx \in 1..n /\ cs[top.idx].cls.kind = "impl" /\ lv[top.idx] = m - 1 /\ m <= MaxDepth
      /\ \A f \in 1..m : fr[f].idx \in 1..n
  BY <1>3, <1>4 DEF Stacked
<1>6. cs[top.idx].cls.of \in Impls
  <2>1. cs[top.idx] \in Component
    BY <1>5
  <2>2. cs[top.idx].cls \in Classifier
    BY <2>1 DEF Component
  <2> QED
    BY <2>2, <1>5, ImplIs
<1> HIDE DEF ds
<1>7. Levels(ds, lw)
  <2>1. ASSUME NEW c \in 1..n
        PROVE  /\ ds[c].parent \in 0..(c - 1) /\ (c > 1 => ds[c].parent # 0) /\ lw[c] \in Nat
               /\ lw[c] = IF ds[c].parent = 0 THEN 0 ELSE lw[ds[c].parent] + 1
    <3>1. /\ cs[c].parent \in 0..(c - 1) /\ (c > 1 => cs[c].parent # 0) /\ lv[c] \in Nat
          /\ lv[c] = IF cs[c].parent = 0 THEN 0 ELSE lv[cs[c].parent] + 1
      BY <1>4 DEF Levels
    <3>2. cs[c].parent # 0 => cs[c].parent \in 1..n
      BY <3>1, <1>1
    <3> QED
      BY <3>1, <3>2, <1>1, <1>2
  <2>2. /\ ds[n + 1].parent \in 0..((n + 1) - 1) /\ ds[n + 1].parent # 0 /\ lw[n + 1] \in Nat
        /\ lw[n + 1] = lw[ds[n + 1].parent] + 1
    BY <1>1, <1>2, <1>3, <1>5
  <2>3. \A c \in 1..(n + 1) : c \in 1..n \/ c = n + 1
    BY <1>1
  <2> QED
    BY <2>1, <2>2, <2>3, <1>1 DEF Levels
<1>8. /\ Len(fs) = IF expands THEN m + 1 ELSE m
      /\ \A f \in 1..(m - 1) : fs[f] = fr[f]
      /\ fs[m] = caller /\ (expands => fs[m + 1] = Frame(n + 1))
  BY DEF Grown
<1>9. caller.idx = top.idx /\ Frame(n + 1).idx = n + 1
  BY <1>1, <1>3, CallerIs DEF Frame
<1> HIDE DEF caller
<1>10. \A f \in 1..m : fs[f].idx = fr[f].idx
  <2>1. \A f \in 1..m : f = m \/ f \in 1..(m - 1)
    BY <1>3
  <2> QED
    BY <2>1, <1>8, <1>9
<1>11. \A f \in 1..Len(fs) : f \in 1..m \/ (f = m + 1 /\ expands)
  BY <1>3, <1>8
<1>12. Stacked(ds, fs, lw)
  <2>1. Len(fs) <= MaxDepth
    <3>1. MaxDepth \in Nat
      BY InstanceAssumption
    <3>2. expands => m < MaxDepth
      OBVIOUS
    <3> QED
      BY <3>1, <3>2, <1>3, <1>5, <1>8
  <2>2. ASSUME NEW f \in 1..m
        PROVE  /\ fs[f].idx \in 1..(n + 1) /\ ds[fs[f].idx].cls.kind = "impl" /\ lw[fs[f].idx] = f - 1
               /\ f > 1 => ds[fs[f].idx].parent = fs[f - 1].idx
    <3>1. /\ fr[f].idx \in 1..n /\ cs[fr[f].idx].cls.kind = "impl" /\ lv[fr[f].idx] = f - 1
          /\ f > 1 => cs[fr[f].idx].parent = fr[f - 1].idx
      BY <1>4 DEF Stacked
    <3>2. f > 1 => f - 1 \in 1..m
      BY <1>3
    <3> QED
      BY <3>1, <3>2, <1>1, <1>2, <1>10
  <2>3. ASSUME expands
        PROVE  /\ fs[m + 1].idx \in 1..(n + 1) /\ ds[fs[m + 1].idx].cls.kind = "impl"
               /\ lw[fs[m + 1].idx] = (m + 1) - 1 /\ ds[fs[m + 1].idx].parent = fs[(m + 1) - 1].idx
    <3>1. fs[m + 1].idx = n + 1 /\ (m + 1) - 1 = m /\ fs[m].idx = top.idx
      BY <2>3, <1>3, <1>8, <1>9
    <3> QED
      BY <3>1, <2>3, <1>1, <1>2
  <2> QED
    BY <2>1, <2>2, <2>3, <1>1, <1>11 DEF Stacked
<1>13. \A k \in 1..(n + 1) : ds[k].parent \in Nat /\ ds[k].parent # n + 1
  BY <1>1, <1>7 DEF Levels
<1>14. ASSUME NEW f \in 1..Len(fs) PROVE AtWork(ch, ds, fs[f])
  <2>1. CASE f \in 1..(m - 1)
    <3>1. f \in 1..m /\ f # m
      BY <2>1, <1>3
    <3>2. fr[f].idx # top.idx
      BY <3>1, <1>3, <1>4, CallsDiffer
    <3>3. AtWork(ch, cs, fr[f]) /\ fr[f].idx \in 1..n
      BY <3>1, <1>5 DEF TreeOf
    <3> QED
      BY <3>2, <3>3, <2>1, <1>8, WorkSame DEF ds
  <2>2. CASE f = m
    <3>1. AtWork(ch, ds, caller)
      BY <1>3, <1>4, <1>5, <1>6, WorkGoesOn DEF caller, ds
    <3> QED
      BY <3>1, <2>2, <1>8
  <2>3. CASE f = m + 1 /\ expands
    <3>1. fs[f] = Frame(n + 1)
      BY <2>3, <1>8
    <3>2. x.cls \in Classifier /\ x.cls.of \in Impls
      <4>1. x.cls \in Classifier
        BY DEF Component
      <4> QED
        BY <4>1, <2>3, ImplIs
    <3>3. ch[x.cls.of] \in Inherited
      BY <3>2
    <3>4. SubsOf(ch, ds, n + 1) \in Seq(Subcomponent)
      BY <3>3, <1>1 DEF SubsOf, Inherited
    <3> QED
      BY <3>1, <3>4, <1>1, <1>13, BeginsWork
  <2>4. f \in 1..m => f = m \/ f \in 1..(m - 1)
    BY <1>3
  <2> QED
    BY <2>1, <2>2, <2>3, <2>4, <1>11
<1>15. ASSUME NEW c \in 1..(n + 1), \A f \in 1..Len(fs) : fs[f].idx # c PROVE Finished(ch, ds, lw, c)
  <2>1. \A f \in 1..m : fr[f].idx # c
    <3>1. \A f \in 1..m : f \in 1..Len(fs)
      BY <1>3, <1>8
    <3> QED
      BY <3>1, <1>10, <1>15
  <2>2. CASE c \in 1..n
    <3>1. Finished(ch, cs, lv, c) /\ c # top.idx
      BY <2>1, <2>2, <1>3 DEF TreeOf
    <3> QED
      BY <3>1, <2>2, <1>2, FinishedSame DEF ds
  <2>3. CASE c = n + 1
    <3>1. ~expands
      <4>1. SUFFICES ASSUME expands PROVE FALSE
        OBVIOUS
      <4>2. m + 1 \in 1..Len(fs) /\ fs[m + 1].idx = n + 1
        BY <4>1, <1>3, <1>8, <1>9
      <4> QED
        BY <4>2, <2>3, <1>15
    <3>2. ~(ds[n + 1].cls.kind = "impl" /\ lw[n + 1] < MaxDepth)
      BY <3>1, <1>1, <1>2
    <3>3. Kids(ds, << >>, n + 1)
      BY <1>1, <1>13 DEF Kids
    <3> QED
      BY <3>2, <3>3, <2>3, <1>1 DEF Finished
  <2> QED
    BY <2>2, <2>3, <1>1
<1> QED
  BY <1>1, <1>7, <1>12, <1>14, <1>15 DEF TreeOf, ds

(* What children and modes do not change. *)
SameLinks(cs, ds) ==
    /\ Len(ds) = Len(cs)
    /\ \A k \in 1..Len(cs) : Rec(ds, k) = Rec(cs, k) /\ ds[k].parent = cs[k].parent /\ ds[k].cls = cs[k].cls

(* What the tree invariant says depends only on the names, classifiers   *)
(* and parents of the components.                                        *)
LEMMA KidsLinked ==
    ASSUME NEW cs, NEW ds, SameLinks(cs, ds), NEW s, NEW c, Kids(cs, s, c)
    PROVE  Kids(ds, s, c)
BY DEF Kids, SameLinks

(* The same for the elements built so far. *)
LEMMA BuildsLinked ==
    ASSUME NEW cs, NEW ds, SameLinks(cs, ds), NEW s, NEW c, Kids(cs, s, c), NEW subs, NEW j, NEW n,
           Builds(cs, s, subs, j, n)
    PROVE  Builds(ds, s, subs, j, n)
<1>1. \A q \in 1..Len(s) : s[q] \in 1..Len(cs)
  BY DEF Kids
<1>2. \A q \in 1..Len(s) : Rec(ds, s[q]) = Rec(cs, s[q])
  BY <1>1 DEF SameLinks
<1> QED
  BY <1>2, BuildsSame

(* The same for a pending call. *)
LEMMA WorkLinked ==
    ASSUME NEW ch, NEW cs, NEW ds, SameLinks(cs, ds), NEW r, r.idx \in 1..Len(cs), AtWork(ch, cs, r)
    PROVE  AtWork(ch, ds, r)
<1> DEFINE subs == SubsOf(ch, cs, r.idx)
<1>1. SubsOf(ch, ds, r.idx) = subs
  BY DEF SameLinks, SubsOf
<1> HIDE DEF subs
<1>2. /\ r.sub \in 1..(Len(subs) + 1)
      /\ IF r.sub <= Len(subs) THEN r.elem < ElementCount(subs[r.sub]) ELSE r.elem = 0
      /\ Kids(cs, r.kids, r.idx) /\ Builds(cs, r.kids, subs, r.sub, r.elem)
  BY DEF AtWork, subs
<1>3. Kids(ds, r.kids, r.idx) /\ Builds(ds, r.kids, subs, r.sub, r.elem)
  BY <1>2, KidsLinked, BuildsLinked
<1> QED
  BY <1>1, <1>2, <1>3 DEF AtWork

(* The same for a component that has its children. *)
LEMMA FinishedLinked ==
    ASSUME NEW ch, NEW cs, NEW ds, SameLinks(cs, ds), NEW lv, NEW c \in 1..Len(cs),
           ds[c].children = cs[c].children, Finished(ch, cs, lv, c)
    PROVE  Finished(ch, ds, lv, c)
<1> DEFINE subs == SubsOf(ch, cs, c)
           s == cs[c].children
<1>1. SubsOf(ch, ds, c) = subs /\ ds[c].cls = cs[c].cls
  BY DEF SameLinks, SubsOf
<1>2. Kids(cs, s, c) /\ Kids(ds, s, c)
  BY KidsLinked DEF Finished
<1>3. CASE cs[c].cls.kind = "impl" /\ lv[c] < MaxDepth
  <2>1. Builds(cs, s, subs, Len(subs) + 1, 0)
    BY <1>3 DEF Finished
  <2>2. Builds(ds, s, subs, Len(subs) + 1, 0)
    BY <1>2, <2>1, BuildsLinked
  <2> QED
    BY <1>1, <1>2, <1>3, <2>2 DEF Finished
<1>4. CASE ~(cs[c].cls.kind = "impl" /\ lv[c] < MaxDepth)
  BY <1>1, <1>2, <1>4 DEF Finished
<1> QED
  BY <1>3, <1>4

(* A call returns. *)
LEMMA TreeFinish ==
    ASSUME NEW ch \in [Impls -> Inherited], NEW cs \in Seq(Component), NEW fr \in Seq(FrameType), NEW lv,
           TreeOf(ch, cs, fr, lv), fr # << >>,
           NEW top, top = fr[Len(fr)], ~(top.sub <= Len(SubsOf(ch, cs, top.idx))),
           NEW ds, SameLinks(cs, ds),
           \A k \in 1..Len(cs) : ds[k].children = IF k = top.idx THEN top.kids ELSE cs[k].children
    PROVE  TreeOf(ch, ds, Front(fr), lv)
<1> DEFINE n == Len(cs)
           m == Len(fr)
           subs == SubsOf(ch, cs, top.idx)
           fs == Front(fr)
<1>1. n \in Nat /\ m \in Nat /\ m > 0 /\ m \in 1..m /\ top \in FrameType
  OBVIOUS
<1>2. Levels(cs, lv) /\ Stacked(cs, fr, lv) /\ AtWork(ch, cs, top)
  BY <1>1 DEF TreeOf
<1>3. /\ top.idx \in 1..n /\ cs[top.idx].cls.kind = "impl" /\ lv[top.idx] = m - 1 /\ m <= MaxDepth
      /\ \A f \in 1..m : fr[f].idx \in 1..n
  BY <1>1, <1>2 DEF Stacked
<1>4. Len(fs) = m - 1 /\ \A f \in 1..(m - 1) : fs[f] = fr[f]
  BY <1>1, FrontFacts
<1> HIDE DEF fs
<1>5. \A f \in 1..(m - 1) : f \in 1..m /\ f # m /\ (f > 1 => f - 1 \in 1..(m - 1))
  BY <1>1
<1>6. Len(ds) = n /\ \A k \in 1..n : ds[k].parent = cs[k].parent /\ ds[k].cls = cs[k].cls
  BY DEF SameLinks
<1>7. Levels(ds, lv)
  BY <1>2, <1>6 DEF Levels
<1>8. Stacked(ds, fs, lv)
  <2>1. Len(fs) <= MaxDepth
    BY <1>1, <1>3, <1>4, InstanceAssumption
  <2>2. ASSUME NEW f \in 1..(m - 1)
        PROVE  /\ fs[f].idx \in 1..n /\ ds[fs[f].idx].cls.kind = "impl" /\ lv[fs[f].idx] = f - 1
               /\ f > 1 => ds[fs[f].idx].parent = fs[f - 1].idx
    <3>1. /\ fr[f].idx \in 1..n /\ cs[fr[f].idx].cls.kind = "impl" /\ lv[fr[f].idx] = f - 1
          /\ f > 1 => cs[fr[f].idx].parent = fr[f - 1].idx
      BY <1>2, <1>5 DEF Stacked
    <3> QED
      BY <3>1, <1>4, <1>5, <1>6
  <2> QED
    BY <2>1, <2>2, <1>4, <1>6 DEF Stacked
<1>9. ASSUME NEW f \in 1..(m - 1) PROVE AtWork(ch, ds, fs[f])
  <2>1. AtWork(ch, cs, fr[f]) /\ fr[f].idx \in 1..n
    BY <1>3, <1>5 DEF TreeOf
  <2> QED
    BY <2>1, <1>4, WorkLinked
<1>10. ASSUME NEW c \in 1..n, \A f \in 1..(m - 1) : fs[f].idx # c PROVE Finished(ch, ds, lv, c)
  <2>1. CASE c = top.idx
    <3> HIDE DEF subs
    <3>1. /\ top.sub \in 1..(Len(subs) + 1)
          /\ IF top.sub <= Len(subs) THEN top.elem < ElementCount(subs[top.sub]) ELSE top.elem = 0
          /\ Kids(cs, top.kids, top.idx) /\ Builds(cs, top.kids, subs, top.sub, top.elem)
      BY <1>2 DEF AtWork, subs
    <3>2. ~(top.sub <= Len(subs)) /\ SubsOf(ch, ds, c) = subs /\ Len(subs) \in Nat
      <4>1. cs[top.idx] \in Component
        BY <1>3
      <4>2. cs[top.idx].cls.of \in Impls
        BY <4>1, <1>3, ImplIs DEF Component
      <4>3. ch[cs[top.idx].cls.of] \in Inherited
        BY <4>2
      <4>4. subs \in Seq(Subcomponent)
        BY <4>3 DEF Inherited, SubsOf, subs
      <4>5. SubsOf(ch, ds, c) = subs
        BY <2>1, <1>6 DEF SubsOf, subs
      <4>6. ~(top.sub <= Len(subs))
        BY DEF subs
      <4> QED
        BY <4>4, <4>5, <4>6
    <3>3. top.sub = Len(subs) + 1 /\ top.elem = 0
      BY <3>1, <3>2
    <3>4. Kids(ds, top.kids, c) /\ Builds(ds, top.kids, subs, Len(subs) + 1, 0)
      BY <3>1, <3>3, <2>1, KidsLinked, BuildsLinked
    <3>5. ds[c].children = top.kids /\ ds[c].cls = cs[c].cls
      BY <2>1, <1>6
    <3>6. ds[c].cls.kind = "impl" /\ lv[c] < MaxDepth
      BY <3>5, <2>1, <1>1, <1>3, InstanceAssumption
    <3> QED
      BY <3>2, <3>4, <3>5, <3>6 DEF Finished
  <2>2. CASE c # top.idx
    <3>1. \A f \in 1..m : f = m \/ f \in 1..(m - 1)
      BY <1>1
    <3>2. \A f \in 1..m : fr[f].idx # c
      BY <3>1, <2>2, <1>4, <1>10
    <3>3. Finished(ch, cs, lv, c)
      BY <3>2 DEF TreeOf
    <3> QED
      BY <3>3, <2>2, FinishedLinked
  <2> QED
    BY <2>1, <2>2
<1> QED
  BY <1>4, <1>6, <1>7, <1>8, <1>9, <1>10 DEF TreeOf, fs

Kinds == {"unresolved", "depth", "extends", "zero", "soms"}

BuildType ==
    /\ decl \in [Impls -> Implementation]
    /\ chains = [i \in Impls |-> ImplChain(i)]
    /\ phase \in {"detect", "build", "soms", "done"}
    /\ visiting \subseteq Keys /\ cycle \in Seq(Keys)
    /\ components \in Seq(Component) /\ frames \in Seq(FrameType) /\ depth = Len(frames)
    /\ diagnostics \subseteq [kind : Kinds, at : 1..Len(components)]

Phases ==
    /\ phase = "detect" => components = << >>
    /\ components = << >> => frames = << >> /\ phase \in {"detect", "build"}
    /\ phase \in {"soms", "done"} => frames = << >>

(* The depth limit is reported exactly for the implementations it stops at. *)
Stopped(cs, lv, ds) ==
    /\ \A c \in 1..Len(cs) :
        cs[c].cls.kind = "impl" /\ ~(lv[c] < MaxDepth) => Diag("depth", c) \in ds
    /\ \A d \in ds : d.kind = "depth" => cs[d.at].cls.kind = "impl" /\ ~(lv[d.at] < MaxDepth)

Unfolding(ch, cs, fr, ds) ==
    /\ cs[1].cls = RootClassifier /\ cs[1].parent = 0
    /\ \E lv : TreeOf(ch, cs, fr, lv) /\ Stopped(cs, lv, ds)

BuildInv ==
    /\ BuildType /\ Phases
    /\ components # << >> => Unfolding(chains, components, frames, diagnostics)

(* The chains depend only on the declarations, which do not change. *)
LEMMA ChainsSame ==
    ASSUME NEW i, decl' = decl
    PROVE  ImplChain(i)' = ImplChain(i)
<1>1. Chain(i)' = Chain(i)
  BY DEF Chain
<1> QED
  BY <1>1 DEF ImplChain, AllSubs, AllImplModes, CircularExtends

(* The chains have their type. *)
LEMMA ChainsTyped ==
    ASSUME BuildType
    PROVE  chains \in [Impls -> Inherited]
BY ImplChainIs DEF BuildType

(* Steps that leave the arena alone. *)
LEMMA BuildSame ==
    ASSUME BuildInv, UNCHANGED <<input, buildVars, diagnostics>>, visiting' \subseteq Keys, cycle' \in Seq(Keys),
           phase' \in {"detect", "build", "soms", "done"},
           phase' = "detect" => phase = "detect",
           phase' \in {"soms", "done"} => frames = << >> /\ components # << >>
    PROVE  BuildInv'
<1>1. chains' = [i \in Impls |-> ImplChain(i)']
  BY ChainsSame DEF BuildInv, BuildType, input
<1>2. BuildType'
  BY <1>1 DEF BuildInv, BuildType, input, buildVars
<1>3. Phases'
  BY DEF BuildInv, Phases, buildVars
<1>4. components' # << >> => Unfolding(chains', components', frames', diagnostics')
  BY DEF BuildInv, input, buildVars
<1> QED
  BY <1>2, <1>3, <1>4 DEF BuildInv

(* Complaints are about the component just made. *)
LEMMA ComplaintsAre ==
    ASSUME NEW cls
    PROVE  /\ \A d \in Complaints(cls) : d.at = Fresh /\ d.kind \in Kinds /\ d \in [kind : Kinds, at : {Fresh}]
           /\ (\E d \in Complaints(cls) : d.kind = "depth") => cls.kind = "impl" /\ depth >= MaxDepth
           /\ cls.kind = "impl" /\ depth >= MaxDepth => Diag("depth", Fresh) \in Complaints(cls)
<1> DEFINE K == {j \in {"unresolved", "depth", "extends"} :
            \/ j = "unresolved" /\ cls.kind = "missing"
            \/ j = "depth" /\ cls.kind = "impl" /\ depth >= MaxDepth
            \/ j = "extends" /\ Expands(cls) /\ chains[cls.of].circular}
<1>1. Complaints(cls) = {Diag(k, Fresh) : k \in K}
  BY DEF Complaints
<1>2. \A k \in K : k \in Kinds
  BY DEF Kinds
<1>3. "depth" \in K <=> cls.kind = "impl" /\ depth >= MaxDepth
  OBVIOUS
<1>4. \A k : Diag(k, Fresh).kind = k /\ Diag(k, Fresh).at = Fresh
  BY DEF Diag
<1>5. \A k \in Kinds : Diag(k, Fresh) \in [kind : Kinds, at : {Fresh}]
  BY DEF Diag
<1> HIDE DEF K
<1> QED
  BY <1>1, <1>2, <1>3, <1>4, <1>5

(* A component as allocated: what it was given, and no children yet. *)
LEMMA NewComponentIs ==
    ASSUME decl \in [Impls -> Implementation], NEW name \in Names \cup {NoImpl}, NEW elem \in Nat,
           NEW cls \in Classifier, NEW parent \in Nat
    PROVE  LET x == NewComponent(name, elem, cls, parent) IN
           /\ x \in Component /\ x.name = name /\ x.elem = elem /\ x.cls = cls /\ x.parent = parent
           /\ x.children = << >>
<1>1. TypeModes(cls) \in Seq(ModeNames)
  <2>1. CASE cls.kind = "none"
    BY <2>1 DEF TypeModes
  <2>2. CASE cls.kind # "none"
    <3>1. cls.of \in Impls
      BY <2>2 DEF Classifier
    <3>2. decl[cls.of] \in Implementation
      BY <3>1
    <3> QED
      BY <3>2, <2>2 DEF TypeModes, Implementation
  <2> QED
    BY <2>1, <2>2
<1>2. << >> \in Seq(Nat)
  OBVIOUS
<1> QED
  BY <1>1, <1>2 DEF NewComponent, Component

(* The root is an implementation. *)
LEMMA RootTyped == RootClassifier \in Classifier /\ RootClassifier.kind = "impl" /\ RootClassifier.of = Root
BY InstanceAssumption DEF RootClassifier, Classifier

(* Nothing is built at first. *)
LEMMA InitBuild == Init => BuildInv
<1> SUFFICES ASSUME Init PROVE BuildInv
  OBVIOUS
<1>1. decl \in [Impls -> Implementation] /\ Root \in Keys
  BY InstanceAssumption DEF Init, Keys
<1>2. BuildType
  BY <1>1 DEF Init, BuildType
<1> QED
  BY <1>2 DEF Init, BuildInv, Phases

(* instantiate_component of the root begins the tree. *)
LEMMA RootKeeps == BuildInv /\ InstantiateRoot => BuildInv'
<1> SUFFICES ASSUME BuildInv, InstantiateRoot PROVE BuildInv'
  OBVIOUS
<1> DEFINE x == NewComponent(NoImpl, 0, RootClassifier, 0)
<1>1. BuildType /\ Phases /\ components = << >> /\ phase = "build" /\ frames = << >> /\ depth = 0
  BY DEF BuildInv, InstantiateRoot, Phases, BuildType
<1>2. components' = <<x>> /\ diagnostics' = diagnostics \cup Complaints(RootClassifier)
  BY DEF InstantiateRoot
<1>3. x \in Component /\ x.cls = RootClassifier /\ x.parent = 0 /\ x.children = << >>
  <2>1. decl \in [Impls -> Implementation] /\ NoImpl \in Names \cup {NoImpl} /\ RootClassifier \in Classifier
    BY <1>1, RootTyped DEF BuildType
  <2>2. 0 \in Nat
    OBVIOUS
  <2> QED
    BY <2>1, <2>2, NewComponentIs
<1> HIDE DEF x
<1>4. Fresh = 1 /\ components' \in Seq(Component) /\ Len(components') = 1 /\ components'[1] = x /\ 1..1 = {1}
  BY <1>1, <1>2, <1>3 DEF Fresh
<1>5. diagnostics = {}
  BY <1>1 DEF BuildType
<1>6. frames' = IF 0 < MaxDepth THEN <<Frame(1)>> ELSE << >>
  BY <1>1, RootTyped DEF InstantiateRoot, Expands
<1>7. depth' = IF 0 < MaxDepth THEN 1 ELSE 0
  BY <1>1, RootTyped DEF InstantiateRoot, Expands
<1>8. Frame(1) \in FrameType
  BY DEF Frame, FrameType
<1>9. frames' \in Seq(FrameType) /\ depth' = Len(frames')
  BY <1>6, <1>7, <1>8
<1>10. BuildType'
  <2>1. chains' = [i \in Impls |-> ImplChain(i)']
    BY <1>1, ChainsSame DEF BuildType, InstantiateRoot, input
  <2>2. diagnostics' \subseteq [kind : Kinds, at : 1..Len(components')]
    BY <1>2, <1>4, <1>5, ComplaintsAre
  <2> QED
    BY <2>1, <2>2, <1>1, <1>4, <1>9 DEF BuildType, InstantiateRoot, input, detectVars
<1>11. Phases'
  BY <1>1, <1>4 DEF Phases, InstantiateRoot
<1>12. Unfolding(chains', components', frames', diagnostics')
  <2>1. TreeOf(chains, <<x>>, frames', <<0>>)
    BY <1>1, <1>3, <1>6, ChainsTyped, TreeRoot
  <2>2. Stopped(<<x>>, <<0>>, diagnostics')
    <3>1. \A d \in diagnostics' : d.at = 1
      BY <1>2, <1>4, <1>5, ComplaintsAre
    <3>2. (\E d \in diagnostics' : d.kind = "depth") => 0 >= MaxDepth
      BY <1>1, <1>2, <1>5, ComplaintsAre
    <3>3. 0 >= MaxDepth => Diag("depth", 1) \in diagnostics'
      BY <1>1, <1>2, <1>4, RootTyped, ComplaintsAre
    <3>4. 0 >= MaxDepth <=> ~(0 < MaxDepth)
      BY InstanceAssumption
    <3>5. Len(<<x>>) = 1 /\ <<x>>[1] = x /\ <<0>>[1] = 0 /\ x.cls.kind = "impl"
      BY <1>3, RootTyped
    <3>6. \A c \in 1..Len(<<x>>) : c = 1
      BY <3>5
    <3> QED
      BY <3>1, <3>2, <3>3, <3>4, <3>5, <3>6 DEF Stopped
  <2>3. chains' = chains
    BY DEF InstantiateRoot, input
  <2> QED
    BY <2>1, <2>2, <2>3, <1>2, <1>3, <1>4 DEF Unfolding
<1> QED
  BY <1>10, <1>11, <1>12 DEF BuildInv

(* The builder at the top of the stack. *)
LEMMA BuilderIs ==
    ASSUME BuildInv, frames # << >>
    PROVE  /\ Len(frames) \in Nat \ {0} /\ Builder = frames[Len(frames)] /\ Builder \in FrameType
           /\ components # << >> /\ phase = "build"
           /\ Builder.idx \in 1..Len(components) /\ components[Builder.idx] \in Component
           /\ components[Builder.idx].cls.kind = "impl" /\ components[Builder.idx].cls.of \in Impls
           /\ Subs = SubsOf(chains, components, Builder.idx)
           /\ Subs \in Seq(Subcomponent) /\ Builder.sub \in 1..(Len(Subs) + 1)
           /\ depth = Len(frames) /\ depth <= MaxDepth
<1>1. BuildType /\ Phases
  BY DEF BuildInv
<1>2. frames \in Seq(FrameType) /\ components \in Seq(Component) /\ depth = Len(frames)
  BY <1>1 DEF BuildType
<1>3. Len(frames) \in Nat \ {0} /\ Len(frames) \in 1..Len(frames)
  BY <1>2
<1>4. Builder = frames[Len(frames)] /\ Builder \in FrameType
  BY <1>2, <1>3 DEF Builder, Last
<1>5. components # << >> /\ phase = "build"
  BY <1>1 DEF Phases, BuildType
<1>6. PICK lv : TreeOf(chains, components, frames, lv)
  BY <1>5 DEF BuildInv, Unfolding
<1>7. /\ Builder.idx \in 1..Len(components) /\ components[Builder.idx].cls.kind = "impl"
      /\ Len(frames) <= MaxDepth
  BY <1>3, <1>4, <1>6 DEF TreeOf, Stacked
<1>8. components[Builder.idx] \in Component
  BY <1>2, <1>7
<1>9. components[Builder.idx].cls.of \in Impls
  BY <1>7, <1>8, ImplIs DEF Component
<1>10. Subs = SubsOf(chains, components, Builder.idx)
  BY DEF Subs, SubsOf
<1>11. chains[components[Builder.idx].cls.of] \in Inherited
  BY <1>1, <1>9, ChainsTyped
<1>12. Subs \in Seq(Subcomponent)
  BY <1>11 DEF Subs, Inherited
<1>13. AtWork(chains, components, Builder)
  BY <1>3, <1>4, <1>6 DEF TreeOf
<1>14. Builder.sub \in 1..(Len(Subs) + 1)
  BY <1>10, <1>13 DEF AtWork
<1> QED
  BY <1>2, <1>3, <1>4, <1>5, <1>7, <1>8, <1>9, <1>10, <1>12, <1>14

(* The stack after a child: its caller has moved on, and the child is    *)
(* called if it expands.                                                 *)
LEMMA GrownIs ==
    ASSUME NEW fr \in Seq(FrameType), fr # << >>, NEW caller \in FrameType, NEW expands \in BOOLEAN, NEW c \in Nat,
           NEW fs, fs = IF expands THEN Append(ReplaceAt(fr, Len(fr), caller), Frame(c))
                        ELSE ReplaceAt(fr, Len(fr), caller)
    PROVE  fs \in Seq(FrameType) /\ Grown(fr, fs, caller, expands, c)
<1> DEFINE m == Len(fr)
           g == ReplaceAt(fr, m, caller)
<1>1. m \in Nat /\ m > 0 /\ m \in 1..m /\ \A f \in 1..(m - 1) : f \in 1..m /\ f # m
  OBVIOUS
<1>2. g \in Seq(FrameType) /\ Len(g) = m /\ g[m] = caller /\ \A f \in 1..m : f # m => g[f] = fr[f]
  BY <1>1 DEF ReplaceAt
<1> HIDE DEF g
<1>3. Frame(c) \in FrameType
  BY DEF Frame, FrameType
<1>4. CASE expands
  <2>1. /\ Append(g, Frame(c)) \in Seq(FrameType) /\ Len(Append(g, Frame(c))) = m + 1
        /\ Append(g, Frame(c))[m + 1] = Frame(c) /\ \A f \in 1..m : Append(g, Frame(c))[f] = g[f]
    BY <1>2, <1>3, AppendProperties
  <2>2. fs = Append(g, Frame(c))
    BY <1>4 DEF g
  <2> QED
    BY <2>1, <2>2, <1>1, <1>2, <1>4 DEF Grown
<1>5. CASE ~expands
  <2>1. fs = g
    BY <1>5 DEF g
  <2> QED
    BY <2>1, <1>1, <1>2, <1>5 DEF Grown
<1> QED
  BY <1>4, <1>5

(* The reports stay right when a component is added. *)
LEMMA StoppedMore ==
    ASSUME NEW cs \in Seq(Component), NEW x, NEW lv, NEW ds, Stopped(cs, lv, ds),
           \A d \in ds : d.at \in 1..Len(cs),
           NEW lw, \A c \in 1..Len(cs) : lw[c] = lv[c],
           NEW es, \A d \in es : d.at = Len(cs) + 1,
           x.cls.kind = "impl" /\ ~(lw[Len(cs) + 1] < MaxDepth) => Diag("depth", Len(cs) + 1) \in es,
           (\E d \in es : d.kind = "depth") => x.cls.kind = "impl" /\ ~(lw[Len(cs) + 1] < MaxDepth)
    PROVE  Stopped(Append(cs, x), lw, ds \cup es)
<1> DEFINE n == Len(cs)
           cx == Append(cs, x)
<1>1. n \in Nat /\ Len(cx) = n + 1 /\ cx[n + 1] = x /\ \A k \in 1..n : cx[k] = cs[k]
  OBVIOUS
<1> HIDE DEF cx
<1>2. ASSUME NEW c \in 1..(n + 1), cx[c].cls.kind = "impl", ~(lw[c] < MaxDepth)
      PROVE  Diag("depth", c) \in ds \cup es
  <2>1. CASE c \in 1..n
    BY <2>1, <1>1, <1>2 DEF Stopped
  <2>2. CASE c = n + 1
    BY <2>2, <1>1, <1>2
  <2> QED
    BY <2>1, <2>2, <1>1
<1>3. ASSUME NEW d \in ds \cup es, d.kind = "depth"
      PROVE  cx[d.at].cls.kind = "impl" /\ ~(lw[d.at] < MaxDepth)
  <2>1. CASE d \in ds
    BY <2>1, <1>1, <1>3 DEF Stopped
  <2>2. CASE d \in es
    BY <2>2, <1>1, <1>3
  <2> QED
    BY <2>1, <2>2
<1> QED
  BY <1>1, <1>2, <1>3 DEF Stopped, cx

(* instantiate_component of an element of a subcomponent keeps the tree. *)
LEMMA ChildKeeps == BuildInv /\ InstantiateChild => BuildInv'
<1> SUFFICES ASSUME BuildInv, InstantiateChild PROVE BuildInv'
  OBVIOUS
<1> DEFINE n == Len(components)
           m == Len(frames)
           top == Builder
           elem == IF Sub.dim = NoDim THEN 0 ELSE top.elem + 1
           zero == IF top.elem = 0 /\ Sub.dim = 0 THEN {Diag("zero", Fresh)} ELSE {}
           es == zero \cup Complaints(Sub.cls)
           x == NewComponent(Sub.name, elem, Sub.cls, top.idx)
           expands == Expands(Sub.cls)
<1>1. frames # << >> /\ HasSub /\ phase' = phase /\ chains' = chains /\ decl' = decl
  BY DEF InstantiateChild, input
<1>2. /\ components' = Append(components, x)
      /\ frames' = IF expands THEN Append(ReplaceAt(frames, m, Caller), Frame(Fresh)) ELSE ReplaceAt(frames, m, Caller)
      /\ depth' = IF expands THEN depth + 1 ELSE depth
      /\ diagnostics' = diagnostics \cup es
  BY DEF InstantiateChild
<1>3. /\ m \in Nat \ {0} /\ top = frames[m] /\ top \in FrameType /\ components # << >> /\ phase = "build"
      /\ top.idx \in 1..n /\ depth = m /\ depth <= MaxDepth /\ Subs \in Seq(Subcomponent)
      /\ Subs = SubsOf(chains, components, top.idx) /\ top.sub \in 1..(Len(Subs) + 1)
  BY <1>1, BuilderIs
<1>4. BuildType /\ Phases /\ Unfolding(chains, components, frames, diagnostics)
  BY <1>3 DEF BuildInv
<1>5. components \in Seq(Component) /\ frames \in Seq(FrameType) /\ n \in Nat /\ Fresh = n + 1
  BY <1>4 DEF BuildType, Fresh
<1>6. top.sub \in 1..Len(Subs) /\ Sub = Subs[top.sub] /\ top.elem \in Nat /\ top.sub <= Len(Subs)
  BY <1>1, <1>3 DEF HasSub, Sub, FrameType
<1>7. Sub \in Subcomponent
  BY <1>3, <1>6
<1>8. Sub.name \in Names /\ Sub.cls \in Classifier
  BY <1>7 DEF Subcomponent
<1>9. elem \in Nat
  BY <1>6
<1>10. /\ x \in Component /\ x.name = Sub.name /\ x.elem = elem /\ x.cls = Sub.cls /\ x.parent = top.idx
       /\ x.children = << >>
  <2>1. decl \in [Impls -> Implementation] /\ top.idx \in Nat /\ Sub.name \in Names \cup {NoImpl}
    BY <1>3, <1>4, <1>8 DEF BuildType
  <2> HIDE DEF elem, top
  <2> QED
    BY <2>1, <1>8, <1>9, NewComponentIs
<1>11. [name |-> x.name, cls |-> x.cls, elem |-> x.elem] = Element(Subs[top.sub], top.elem + 1)
  BY <1>6, <1>10 DEF Element
<1>12. Caller = CallerOf(top, Subs, n + 1)
  BY <1>5 DEF Caller, CallerOf, Sub, Fresh
<1> HIDE DEF x, es, expands, top, elem
<1>13. Caller \in FrameType
  <2>1. n + 1 \in Nat
    BY <1>5
  <2> QED
    BY <2>1, <1>3, <1>12, CallerIs
<1>14. expands \in BOOLEAN /\ (expands <=> x.cls.kind = "impl" /\ m < MaxDepth)
  BY <1>3, <1>10 DEF expands, Expands
<1>15. frames' \in Seq(FrameType) /\ Grown(frames, frames', CallerOf(top, Subs, n + 1), expands, n + 1)
  <2>1. n + 1 \in Nat
    BY <1>5
  <2> QED
    BY <2>1, <1>1, <1>2, <1>5, <1>12, <1>13, <1>14, GrownIs
<1>16. PICK lv : TreeOf(chains, components, frames, lv) /\ Stopped(components, lv, diagnostics)
  BY <1>4 DEF Unfolding
<1> DEFINE lw == [c \in 1..(n + 1) |-> IF c = n + 1 THEN m ELSE lv[c]]
<1>17. TreeOf(chains, components', frames', lw)
  <2>1. chains \in [Impls -> Inherited]
    BY <1>4, ChainsTyped
  <2>2. /\ frames # << >> /\ top = frames[Len(frames)] /\ Subs = SubsOf(chains, components, top.idx)
        /\ top.sub <= Len(Subs) /\ x \in Component /\ x.parent = top.idx /\ x.children = << >>
        /\ expands <=> x.cls.kind = "impl" /\ Len(frames) < MaxDepth
        /\ Grown(frames, frames', CallerOf(top, Subs, Len(components) + 1), expands, Len(components) + 1)
    BY <1>1, <1>3, <1>6, <1>10, <1>14, <1>15
  <2>3. lw[Len(components) + 1] = Len(frames) /\ \A c \in 1..Len(components) : lw[c] = lv[c]
    BY <1>5
  <2> HIDE DEF lw
  <2>4. NextChild(chains, components, frames, lv, x, frames', expands, lw)
    BY ONLY <2>2, <2>3, <1>11, <1>16 DEF NextChild
  <2>5. TreeOf(chains, Append(components, x), frames', lw)
    BY ONLY <2>1, <2>2, <2>4, <1>5, TreeChild
  <2> QED
    BY <2>5, <1>2
<1>18. /\ Len(components') = n + 1 /\ components' \in Seq(Component)
       /\ \A k \in 1..n : components'[k] = components[k]
  BY <1>2, <1>5, <1>10, AppendProperties
<1>19. \A d \in es : d.at = n + 1 /\ d \in [kind : Kinds, at : {n + 1}]
  <2>1. Diag("zero", Fresh) \in [kind : Kinds, at : {n + 1}] /\ Diag("zero", Fresh).at = n + 1
    BY <1>5 DEF Diag, Kinds
  <2> QED
    BY <2>1, <1>5, ComplaintsAre DEF es
<1>20. Stopped(components', lw, diagnostics')
  <2>1. lw[n + 1] = m /\ \A c \in 1..n : lw[c] = lv[c]
    BY <1>5
  <2>2. \A d \in diagnostics : d.at \in 1..n
    BY <1>4 DEF BuildType
  <2>3. m >= MaxDepth <=> ~(m < MaxDepth)
    BY <1>3, InstanceAssumption
  <2>4. x.cls.kind = "impl" /\ ~(m < MaxDepth) => Diag("depth", n + 1) \in es
    BY <2>3, <1>3, <1>5, <1>10, ComplaintsAre DEF es
  <2>5. Diag("zero", Fresh).kind # "depth"
    BY DEF Diag
  <2>6. (\E d \in es : d.kind = "depth") => x.cls.kind = "impl" /\ ~(m < MaxDepth)
    BY <2>3, <2>5, <1>3, <1>10, ComplaintsAre DEF es
  <2> HIDE DEF lw
  <2> QED
    BY <2>1, <2>2, <2>4, <2>6, <1>2, <1>5, <1>16, <1>19, StoppedMore
<1>21. components'[1].cls = RootClassifier /\ components'[1].parent = 0
  <2>1. 1 \in 1..n
    BY <1>3, <1>5
  <2> QED
    BY <2>1, <1>4, <1>18 DEF Unfolding
<1>22. Unfolding(chains', components', frames', diagnostics')
  <2> HIDE DEF lw
  <2> QED
    BY <1>1, <1>17, <1>20, <1>21 DEF Unfolding
<1>23. BuildType'
  <2>1. chains' = [i \in Impls |-> ImplChain(i)']
    BY <1>1, <1>4, ChainsSame DEF BuildType
  <2>2. depth' = Len(frames')
    BY <1>2, <1>3, <1>15 DEF Grown
  <2>3. diagnostics' \subseteq [kind : Kinds, at : 1..(n + 1)]
    <3>1. diagnostics \subseteq [kind : Kinds, at : 1..n]
      BY <1>4 DEF BuildType
    <3>2. \A k \in 1..n : k \in 1..(n + 1)
      BY <1>5
    <3>3. diagnostics \subseteq [kind : Kinds, at : 1..(n + 1)]
      BY <3>1, <3>2
    <3>4. n + 1 \in 1..(n + 1)
      BY <1>5
    <3>5. es \subseteq [kind : Kinds, at : 1..(n + 1)]
      BY <3>4, <1>19
    <3> QED
      BY <3>3, <3>5, <1>2
  <2> QED
    BY <2>1, <2>2, <2>3, <1>1, <1>4, <1>15, <1>18 DEF BuildType, InstantiateChild, detectVars
<1>24. Phases'
  <2>1. components' # << >>
    BY <1>5, <1>18
  <2> QED
    BY <2>1, <1>1, <1>3 DEF Phases
<1> QED
  BY <1>22, <1>23, <1>24 DEF BuildInv

(* The modes an implementation adds are modes it declares. *)
LEMMA NewModesIs ==
    ASSUME NEW c, chains[c.cls.of] \in Inherited
    PROVE  NewModes(c) \in Seq(ModeNames)
<1> DEFINE declared == chains[c.cls.of].modes
           S == {k \in DOMAIN declared : declared[k] \notin ToSet(c.modes)}
           new == InOrder(S, Len(declared))
<1>1. declared \in Seq(ModeNames)
  BY DEF Inherited
<1>2. NewModes(c) = [j \in DOMAIN new |-> declared[new[j]]]
  BY DEF NewModes
<1> HIDE DEF declared
<1>3. Len(declared) \in Nat /\ DOMAIN declared = 1..Len(declared)
  BY <1>1
<1>4. Ascends(new, S \cap (1..Len(declared)))
  BY <1>3, InOrderIs
<1> HIDE DEF new, S
<1>5. new \in Seq(1..Len(declared))
  BY <1>4 DEF Ascends
<1>6. Len(new) \in Nat /\ DOMAIN new = 1..Len(new) /\ \A j \in 1..Len(new) : declared[new[j]] \in ModeNames
  BY <1>1, <1>5
<1> QED
  BY <1>2, <1>6

(* The return of instantiate_component, which stores the children and    *)
(* adds the modes, keeps the tree.                                       *)
LEMMA FinishKeeps == BuildInv /\ FinishComponent => BuildInv'
<1> SUFFICES ASSUME BuildInv, FinishComponent PROVE BuildInv'
  OBVIOUS
<1> DEFINE n == Len(components)
           m == Len(frames)
           top == Builder
           b == top.idx
           old == components[b]
           ms == old.modes \o NewModes(old)
           y == [old EXCEPT !.children = top.kids, !.modes = ms]
<1>1. frames # << >> /\ ~HasSub /\ phase' = phase /\ chains' = chains /\ decl' = decl
  BY DEF FinishComponent, input
<1>2. /\ m \in Nat \ {0} /\ top = frames[m] /\ top \in FrameType /\ components # << >> /\ phase = "build"
      /\ b \in 1..n /\ depth = m /\ old \in Component /\ old.cls.of \in Impls
      /\ Subs = SubsOf(chains, components, b)
  BY <1>1, BuilderIs
<1>3. BuildType /\ Phases /\ Unfolding(chains, components, frames, diagnostics)
  BY <1>2 DEF BuildInv
<1>4. components \in Seq(Component) /\ frames \in Seq(FrameType) /\ n \in Nat /\ DOMAIN components = 1..n
  BY <1>3 DEF BuildType
<1>5. ms \in Seq(ModeNames)
  <2>1. chains[old.cls.of] \in Inherited
    BY <1>2, <1>3, ChainsTyped
  <2>2. NewModes(old) \in Seq(ModeNames)
    BY <2>1, NewModesIs
  <2>3. old.modes \in Seq(ModeNames)
    BY <1>2 DEF Component
  <2> HIDE DEF old
  <2> QED
    BY <2>2, <2>3
<1>6. components' = [components EXCEPT ![b] = y]
  BY <1>2, <1>4 DEF FinishComponent, Component
<1>7. top.kids \in Seq(Nat) /\ b \in Nat
  BY <1>2 DEF FrameType
<1> HIDE DEF ms, old
<1>8. /\ y \in Component /\ y.children = top.kids /\ y.name = old.name /\ y.elem = old.elem
      /\ y.cls = old.cls /\ y.parent = old.parent
  BY <1>2, <1>5, <1>7 DEF Component
<1> HIDE DEF y, top
<1>9. /\ components' \in Seq(Component) /\ Len(components') = n
      /\ \A k \in 1..n : components'[k] = IF k = b THEN y ELSE components[k]
  BY <1>2, <1>4, <1>6, <1>8
<1>10. SameLinks(components, components')
  BY <1>8, <1>9 DEF SameLinks, Rec, old
<1>11. \A k \in 1..n : components'[k].children = IF k = b THEN top.kids ELSE components[k].children
  BY <1>8, <1>9
<1>12. PICK lv : TreeOf(chains, components, frames, lv) /\ Stopped(components, lv, diagnostics)
  BY <1>3 DEF Unfolding
<1>13. frames' = Front(frames) /\ depth' = depth - 1 /\ diagnostics' = diagnostics
  BY DEF FinishComponent
<1>14. TreeOf(chains, components', frames', lv)
  <2>1. chains \in [Impls -> Inherited]
    BY <1>3, ChainsTyped
  <2>2. ~(top.sub <= Len(SubsOf(chains, components, b)))
    BY <1>1, <1>2 DEF HasSub, top
  <2> QED
    BY <2>1, <2>2, <1>1, <1>2, <1>4, <1>10, <1>11, <1>12, <1>13, TreeFinish
<1>15. Stopped(components', lv, diagnostics')
  <2>1. \A d \in diagnostics : d.at \in 1..n
    BY <1>3 DEF BuildType
  <2>2. \A k \in 1..n : components'[k].cls = components[k].cls
    BY <1>10 DEF SameLinks
  <2> QED
    BY <2>1, <2>2, <1>9, <1>12, <1>13 DEF Stopped
<1>16. Unfolding(chains', components', frames', diagnostics')
  <2>1. 1 \in 1..n
    BY <1>2, <1>4
  <2>2. components'[1].cls = RootClassifier /\ components'[1].parent = 0
    BY <2>1, <1>3, <1>10 DEF Unfolding, SameLinks
  <2> QED
    BY <2>2, <1>1, <1>14, <1>15 DEF Unfolding
<1>17. BuildType'
  <2>1. chains' = [i \in Impls |-> ImplChain(i)']
    BY <1>1, <1>3, ChainsSame DEF BuildType
  <2>2. frames' \in Seq(FrameType) /\ depth' = Len(frames')
    BY <1>2, <1>4, <1>13, FrontFacts
  <2> QED
    BY <2>1, <2>2, <1>1, <1>3, <1>9, <1>13 DEF BuildType, FinishComponent, detectVars
<1>18. Phases'
  <2>1. components' # << >>
    BY <1>2, <1>4, <1>9
  <2> QED
    BY <2>1, <1>1, <1>2 DEF Phases
<1> QED
  BY <1>16, <1>17, <1>18 DEF BuildInv

(* compute_soms leaves the tree alone. *)
LEMMA SomStepsKeep == BuildInv /\ (StartSoms \/ ExtendSoms) => BuildInv'
<1> SUFFICES ASSUME BuildInv, StartSoms \/ ExtendSoms PROVE BuildInv'
  OBVIOUS
<1>1. visiting' \subseteq Keys /\ cycle' \in Seq(Keys)
  BY DEF BuildInv, BuildType, StartSoms, ExtendSoms, detectVars
<1>2. CASE StartSoms
  BY <1>1, <1>2, BuildSame DEF StartSoms
<1>3. CASE ExtendSoms
  <2>1. phase' = phase /\ phase = "soms" /\ UNCHANGED <<input, buildVars, diagnostics>>
    BY <1>3 DEF ExtendSoms
  <2>2. frames = << >> /\ components # << >>
    BY <2>1 DEF BuildInv, Phases
  <2> QED
    BY <2>1, <2>2, <1>1, BuildSame
<1> QED
  BY <1>2, <1>3

(* The end of compute_soms adds at most a diagnostic. *)
LEMMA FinishSomsKeeps == BuildInv /\ FinishSoms => BuildInv'
<1> SUFFICES ASSUME BuildInv, FinishSoms PROVE BuildInv'
  OBVIOUS
<1> DEFINE n == Len(components)
           es == IF SomTotal > MaxSoms THEN {Diag("soms", 1)} ELSE {}
<1>1. phase = "soms" /\ phase' = "done" /\ UNCHANGED <<input, detectVars, buildVars>>
  BY DEF FinishSoms
<1>2. BuildType /\ Phases /\ frames = << >> /\ components # << >> /\ Unfolding(chains, components, frames, diagnostics)
  BY <1>1 DEF BuildInv, Phases
<1>3. diagnostics' = diagnostics \cup es
  BY DEF FinishSoms
<1>4. components \in Seq(Component) /\ 1 \in 1..n
  BY <1>2 DEF BuildType
<1>5. \A d \in es : d \in [kind : Kinds, at : 1..n] /\ d.kind # "depth"
  <2>1. Diag("soms", 1) \in [kind : Kinds, at : 1..n] /\ Diag("soms", 1).kind # "depth"
    BY <1>4 DEF Diag, Kinds
  <2> QED
    BY <2>1
<1> HIDE DEF es
<1>6. BuildType'
  <2>1. chains' = [i \in Impls |-> ImplChain(i)']
    BY <1>1, <1>2, ChainsSame DEF BuildType, input
  <2>2. diagnostics' \subseteq [kind : Kinds, at : 1..n]
    BY <1>2, <1>3, <1>5 DEF BuildType
  <2> QED
    BY <2>1, <2>2, <1>1, <1>2 DEF BuildType, input, detectVars, buildVars
<1>7. Phases'
  BY <1>1, <1>2 DEF Phases, buildVars
<1>8. PICK lv : TreeOf(chains, components, frames, lv) /\ Stopped(components, lv, diagnostics)
  BY <1>2 DEF Unfolding
<1>9. Stopped(components, lv, diagnostics')
  BY <1>3, <1>5, <1>8 DEF Stopped
<1>10. Unfolding(chains', components', frames', diagnostics')
  BY <1>1, <1>2, <1>8, <1>9 DEF Unfolding, input, buildVars
<1> QED
  BY <1>6, <1>7, <1>10 DEF BuildInv

(* detect_circular_containment ends before anything is built. *)
LEMMA DetectKeepsBuild == DetectInv /\ BuildInv /\ (DfsSkip \/ DfsCycle \/ DfsEnter \/ DfsLeave) => BuildInv'
<1> SUFFICES ASSUME DetectInv, BuildInv, DfsSkip \/ DfsCycle \/ DfsEnter \/ DfsLeave PROVE BuildInv'
  OBVIOUS
<1>1. phase = "detect" /\ UNCHANGED <<input, buildVars, diagnostics>> /\ phase' \in {"detect", "build"}
  BY DEF DfsSkip, DfsCycle, DfsEnter, DfsLeave
<1>2. DetectType /\ StackInv
  BY <1>1 DEF DetectInv
<1>3. ~TopDone => Key(TopSub) \in Keys
  BY <1>2, TopFacts
<1>4. visiting \subseteq Keys /\ cycle \in Seq(Keys) /\ path \in Seq(Keys)
  BY <1>2 DEF BuildInv, BuildType, DetectType
<1>5. visiting' \subseteq Keys /\ cycle' \in Seq(Keys)
  <2>1. CASE DfsSkip \/ DfsLeave
    BY <2>1, <1>4 DEF DfsSkip, DfsLeave
  <2>2. CASE DfsEnter
    BY <2>2, <1>3, <1>4 DEF DfsEnter
  <2>3. CASE DfsCycle
    <3>1. Append(path, Key(TopSub)) \in Seq(Keys)
      BY <2>3, <1>3, <1>4 DEF DfsCycle
    <3> QED
      BY <3>1, <2>3, <1>4 DEF DfsCycle
  <2> QED
    BY <2>1, <2>2, <2>3
<1> QED
  BY <1>1, <1>5, BuildSame

(* Every step keeps the tree under construction. *)
LEMMA BuildStep == DetectInv /\ BuildInv /\ [Next]_vars => BuildInv'
<1> SUFFICES ASSUME DetectInv, BuildInv, [Next]_vars PROVE BuildInv'
  OBVIOUS
<1>1. CASE DfsSkip \/ DfsCycle \/ DfsEnter \/ DfsLeave
  BY <1>1, DetectKeepsBuild
<1>2. CASE InstantiateRoot
  BY <1>2, RootKeeps
<1>3. CASE InstantiateChild
  BY <1>3, ChildKeeps
<1>4. CASE FinishComponent
  BY <1>4, FinishKeeps
<1>5. CASE StartSoms \/ ExtendSoms
  BY <1>5, SomStepsKeep
<1>6. CASE FinishSoms
  BY <1>6, FinishSomsKeeps
<1>7. CASE UNCHANGED vars
  <2>1. UNCHANGED <<input, buildVars, diagnostics>> /\ phase' = phase /\ visiting' = visiting /\ cycle' = cycle
    BY <1>7 DEF vars, detectVars
  <2>2. visiting \subseteq Keys /\ cycle \in Seq(Keys) /\ phase \in {"detect", "build", "soms", "done"}
    BY DEF BuildInv, BuildType
  <2>3. phase \in {"soms", "done"} => frames = << >> /\ components # << >>
    BY DEF BuildInv, Phases
  <2> QED
    BY <2>1, <2>2, <2>3, BuildSame
<1>8. CASE Done
  BY <1>7, <1>8 DEF Done
<1> QED
  BY <1>1, <1>2, <1>3, <1>4, <1>5, <1>6, <1>7, <1>8 DEF Next

(* The invariants of the search and of the builder give every variable   *)
(* its type.                                                             *)
LEMMA BuildTyped == DetectInv /\ BuildInv => TypeOK
<1> SUFFICES ASSUME DetectInv, BuildInv PROVE TypeOK
  OBVIOUS
<1>1. BuildType /\ DetectType
  BY DEF BuildInv, DetectInv
<1>2. chains \in [Impls -> Inherited]
  BY <1>1, ChainsTyped
<1>3. DOMAIN components = 1..Len(components) /\ DOMAIN frames = 1..Len(frames)
  BY <1>1 DEF BuildType
<1>4. (\A f \in DOMAIN frames : frames[f].idx \in DOMAIN components) /\ depth = Len(frames) /\ depth <= MaxDepth
  <2>1. CASE frames = << >>
    BY <2>1, <1>1, InstanceAssumption DEF BuildType
  <2>2. CASE frames # << >>
    <3>1. PICK lv : TreeOf(chains, components, frames, lv)
      BY <2>2 DEF BuildInv, Unfolding, Phases
    <3> QED
      BY <3>1, <1>1, <1>3 DEF TreeOf, Stacked, BuildType
  <2> QED
    BY <2>1, <2>2
<1> QED
  BY <1>1, <1>2, <1>3, <1>4
  DEF TypeOK, BuildType, DetectType, Component, FrameType, Kinds, Keys, Call, Inherited

(* TypeOK, for every set of implementations: the depth is the number of  *)
(* pending calls and stays below max_depth, every pending call and every *)
(* diagnostic is about a component of the arena (instance.rs,            *)
(* Builder::instantiate_component).                                      *)
THEOREM InstanceTyped == Spec => []TypeOK
<1>1. Init => DetectInv /\ BuildInv
  BY InitDetect, InitBuild
<1>2. DetectInv /\ BuildInv /\ [Next]_vars => (DetectInv /\ BuildInv)'
  BY DetectStep, BuildStep
<1>3. DetectInv /\ BuildInv => TypeOK
  BY BuildTyped
<1> QED
  BY <1>1, <1>2, <1>3, PTL DEF Spec

--------------------------------------------------------------------------------
(* System operation modes                                                  *)

Modal(cs) == InOrder({c \in DOMAIN cs : cs[c].modes # << >>}, Len(cs))
TotalOf(cs, M) == FoldLeft(LAMBDA n, c : n * Len(cs[c].modes), 1, M)

(* The recursion of the product. *)
IsProduct(cs, M, D, g) ==
    g = [S \in D |-> IF S = {} THEN 1 ELSE g[S \ {Max(S)}] * Len(cs[M[Max(S)]].modes)]

(* The recursion of the fold of SomTotal has a solution. *)
LEMMA ProductExists ==
    ASSUME NEW cs, NEW M
    PROVE  \A n \in Nat : \E g : IsProduct(cs, M, SUBSET (1..n), g)
<1> DEFINE T == {n \in Nat : \E g : IsProduct(cs, M, SUBSET (1..n), g)}
<1>1. 0 \in T
  <2> DEFINE g == [S \in SUBSET (1..0) |-> 1]
  <2>1. \A S \in SUBSET (1..0) : S = {}
    OBVIOUS
  <2>2. IsProduct(cs, M, SUBSET (1..0), g)
    BY <2>1 DEF IsProduct
  <2> QED
    BY <2>2
<1>2. ASSUME NEW n \in Nat, n \in T PROVE n + 1 \in T
  <2>1. PICK g : IsProduct(cs, M, SUBSET (1..n), g)
    BY <1>2
  <2> DEFINE Val(S) == IF S = {} THEN 1 ELSE g[S \ {Max(S)}] * Len(cs[M[Max(S)]].modes)
             h == [S \in SUBSET (1..(n + 1)) |-> Val(S)]
  <2>2. \A S \in SUBSET (1..n) : h[S] = g[S]
    <3>1. \A S \in SUBSET (1..n) : S \in SUBSET (1..(n + 1))
      OBVIOUS
    <3> QED
      BY <2>1, <3>1 DEF IsProduct
  <2>3. \A S \in SUBSET (1..(n + 1)) : S # {} => h[S \ {Max(S)}] = g[S \ {Max(S)}]
    BY <2>2, LargestOf
  <2>4. \A S \in SUBSET (1..(n + 1)) :
            Val(S) = IF S = {} THEN 1 ELSE h[S \ {Max(S)}] * Len(cs[M[Max(S)]].modes)
    BY <2>3
  <2>5. IsProduct(cs, M, SUBSET (1..(n + 1)), h)
    BY <2>4 DEF IsProduct
  <2> QED
    BY <2>5
<1> HIDE DEF T
<1>3. \A n \in Nat : n \in T
  BY <1>1, <1>2, ClosedUnderSuccessor
<1> QED
  BY <1>3 DEF T

(* Multiplying one number of modes after the other. *)
Multiplies(cs, M, acc) ==
    acc[0] = 1 /\ \A k \in 1..Len(M) : acc[k] = acc[k - 1] * Len(cs[M[k]].modes)

(* SomTotal is the product, component by component. *)
LEMMA ProductIs ==
    ASSUME NEW cs, NEW X, NEW M \in Seq(X)
    PROVE  \E acc : Multiplies(cs, M, acc) /\ TotalOf(cs, M) = acc[Len(M)]
<1> DEFINE n == Len(M)
           g == CHOOSE x : IsProduct(cs, M, SUBSET (1..n), x)
           acc == [k \in 0..n |-> g[1..k]]
<1>1. n \in Nat /\ DOMAIN M = 1..n
  OBVIOUS
<1>2. IsProduct(cs, M, SUBSET (1..n), g)
  BY <1>1, ProductExists
<1>3. TotalOf(cs, M) = g[1..n]
  <2>1. TotalOf(cs, M) = (CHOOSE x : IsProduct(cs, M, SUBSET (DOMAIN M), x))[DOMAIN M]
    BY DEF TotalOf, FoldLeft, MapThenFoldSet, IsProduct
  <2> QED
    BY <2>1, <1>1
<1> HIDE DEF g, n
<1>4. g[1..0] = 1
  <2>1. 1..0 = {} /\ 1..0 \in SUBSET (1..n)
    BY <1>1
  <2> QED
    BY <2>1, <1>2 DEF IsProduct
<1>5. ASSUME NEW k \in 1..n PROVE g[1..k] = g[1..(k - 1)] * Len(cs[M[k]].modes)
  <2>1. k - 1 \in Nat /\ (k - 1) + 1 = k /\ 1..k \in SUBSET (1..n)
    BY <1>1
  <2>2. Max(1..k) = k /\ (1..k) \ {k} = 1..(k - 1) /\ 1..k # {}
    BY <2>1, LargestUpTo
  <2>3. g[1..k] = IF 1..k = {} THEN 1 ELSE g[(1..k) \ {Max(1..k)}] * Len(cs[M[Max(1..k)]].modes)
    BY <2>1, <1>2 DEF IsProduct
  <2> QED
    BY <2>2, <2>3
<1>6. acc[0] = 1
  BY <1>1, <1>4
<1>7. ASSUME NEW k \in 1..n PROVE acc[k] = acc[k - 1] * Len(cs[M[k]].modes)
  <2>1. k \in 0..n /\ k - 1 \in 0..n
    BY <1>1
  <2> QED
    BY <2>1, <1>5
<1>8. acc[n] = g[1..n]
  BY <1>1
<1> HIDE DEF acc
<1> QED
  BY <1>3, <1>6, <1>7, <1>8 DEF Multiplies, n

(* The modal components are in the arena and have modes. *)
LEMMA ModalIs ==
    ASSUME NEW cs \in Seq(Component)
    PROVE  /\ Modal(cs) \in Seq(1..Len(cs))
           /\ \A k \in 1..Len(Modal(cs)) : Len(cs[Modal(cs)[k]].modes) \in Nat \ {0}
<1> DEFINE n == Len(cs)
           S == {c \in DOMAIN cs : cs[c].modes # << >>}
           M == Modal(cs)
<1>1. n \in Nat /\ DOMAIN cs = 1..n /\ \A c \in 1..n : cs[c] \in Component
  OBVIOUS
<1>2. Ascends(M, S \cap (1..n))
  BY <1>1, InOrderIs DEF Modal
<1> HIDE DEF M
<1>3. M \in Seq(S \cap (1..n))
  BY <1>2 DEF Ascends
<1>4. M \in Seq(1..n) /\ \A k \in 1..Len(M) : M[k] \in S
  BY <1>3
<1>5. \A c \in S : Len(cs[c].modes) \in Nat \ {0}
  <2> TAKE c \in S
  <2>1. cs[c] \in Component /\ cs[c].modes # << >>
    BY <1>1
  <2>2. cs[c].modes \in Seq(ModeNames)
    BY <2>1 DEF Component
  <2> QED
    BY <2>1, <2>2
<1> QED
  BY <1>4, <1>5 DEF M

(* The product grows with each modal component. *)
LEMMA ProductGrows ==
    ASSUME NEW cs, NEW X, NEW M \in Seq(X), \A k \in 1..Len(M) : Len(cs[M[k]].modes) \in Nat \ {0},
           NEW acc, Multiplies(cs, M, acc)
    PROVE  /\ \A k \in 0..Len(M) : acc[k] \in Nat \ {0} /\ acc[k] <= acc[Len(M)]
<1> DEFINE n == Len(M)
<1>1. n \in Nat
  OBVIOUS
<1> DEFINE T == {k \in Nat : k <= n => acc[k] \in Nat \ {0}}
<1>2. 0 \in T
  BY DEF Multiplies
<1>3. ASSUME NEW k \in Nat, k \in T PROVE k + 1 \in T
  <2> SUFFICES ASSUME k + 1 <= n PROVE acc[k + 1] \in Nat \ {0}
    OBVIOUS
  <2>1. k + 1 \in 1..n /\ (k + 1) - 1 = k /\ acc[k] \in Nat \ {0}
    BY <1>1, <1>3
  <2>2. acc[k + 1] = acc[k] * Len(cs[M[k + 1]].modes) /\ Len(cs[M[k + 1]].modes) \in Nat \ {0}
    <3>1. acc[k + 1] = acc[(k + 1) - 1] * Len(cs[M[k + 1]].modes)
      BY <2>1 DEF Multiplies
    <3> QED
      BY <3>1, <2>1
  <2> QED
    BY <2>1, <2>2
<1> HIDE DEF T
<1>4. \A k \in Nat : k \in T
  BY <1>2, <1>3, ClosedUnderSuccessor
<1>5. \A k \in 0..n : acc[k] \in Nat \ {0}
  BY <1>1, <1>4 DEF T
<1> DEFINE U == {j \in Nat : j <= n => acc[n - j] <= acc[n]}
<1>6. 0 \in U
  <2>1. n - 0 = n /\ n \in 0..n
    BY <1>1
  <2> QED
    BY <2>1, <1>5
<1>7. ASSUME NEW j \in Nat, j \in U PROVE j + 1 \in U
  <2> SUFFICES ASSUME j + 1 <= n PROVE acc[n - (j + 1)] <= acc[n]
    OBVIOUS
  <2> DEFINE k == n - j
  <2>1. k \in 1..n /\ k - 1 = n - (j + 1) /\ k - 1 \in 0..n /\ k \in 0..n /\ acc[k] <= acc[n] /\ n \in 0..n
    BY <1>1, <1>7
  <2> HIDE DEF k
  <2>2. acc[k] = acc[k - 1] * Len(cs[M[k]].modes) /\ Len(cs[M[k]].modes) \in Nat \ {0}
    BY <2>1 DEF Multiplies
  <2>3. acc[k - 1] \in Nat /\ acc[k] \in Nat /\ acc[n] \in Nat
    BY <2>1, <1>5
  <2>4. acc[k - 1] <= acc[k - 1] * Len(cs[M[k]].modes)
    BY <2>2, <2>3, SMTT(30)
  <2>5. acc[k - 1] <= acc[n]
    BY <2>1, <2>2, <2>3, <2>4
  <2> QED
    BY <2>1, <2>5
<1> HIDE DEF U
<1>8. \A j \in Nat : j \in U
  BY <1>6, <1>7, ClosedUnderSuccessor
<1>9. ASSUME NEW k \in 0..n PROVE acc[k] <= acc[n]
  <2>1. n - k \in Nat /\ n - k <= n /\ n - (n - k) = k
    BY <1>1
  <2>2. n - k \in U
    BY <2>1, <1>8
  <2> QED
    BY <2>1, <2>2 DEF U
<1> QED
  BY <1>5, <1>9

(* A sequence without repetition has as many elements as places. *)
LEMMA CountOnce ==
    ASSUME NEW X, NEW s \in Seq(X), \A i, j \in 1..Len(s) : s[i] = s[j] => i = j
    PROVE  IsFiniteSet(ToSet(s)) /\ Cardinality(ToSet(s)) = Len(s)
<1> DEFINE n == Len(s)
           S == ToSet(s)
           f == [i \in 1..n |-> s[i]]
<1>1. n \in Nat /\ DOMAIN s = 1..n
  OBVIOUS
<1>2. S = {s[i] : i \in 1..n}
  BY <1>1 DEF ToSet
<1>3. f \in Surjection(1..n, S)
  BY <1>2 DEF Surjection
<1>4. f \in Injection(1..n, S)
  BY <1>2 DEF Injection, IsInjective
<1>5. ExistsBijection(1..n, S)
  BY <1>3, <1>4 DEF ExistsBijection, Bijection
<1>6. IsFiniteSet(1..n) /\ Cardinality(1..n) = n
  BY <1>1, FS_Interval
<1> QED
  BY <1>5, <1>6, FS_Bijection

Pairs == Nat \X Nat

(* Different choices of modes for the first k of the components M. *)
Selects(cs, M, ss, k) ==
    /\ ss \in Seq(Seq(Pairs))
    /\ \A p \in 1..Len(ss) :
        /\ Len(ss[p]) = k
        /\ \A q \in 1..k : ss[p][q][1] = M[q] /\ ss[p][q][2] \in 1..Len(cs[M[q]].modes)
    /\ \A p, r \in 1..Len(ss) : ss[p] = ss[r] => p = r

(* Division with remainder. *)
LEMMA Divided ==
    ASSUME NEW a \in Nat, NEW w \in Nat \ {0}, NEW n \in Nat, a < n * w
    PROVE  /\ a \div w \in 0..(n - 1) /\ a % w \in 0..(w - 1) /\ a = w * (a \div w) + (a % w)
<1> DEFINE d == a \div w
           e == a % w
<1>1. d \in Nat /\ e \in 0..(w - 1) /\ a = w * d + e
  OBVIOUS
<1> HIDE DEF d, e
<1>2. d < n
  <2>1. SUFFICES ASSUME n <= d PROVE FALSE
    BY <1>1
  <2>2. n * w <= d * w
    BY <2>1, <1>1, ProductMonotone
  <2>3. w * d = d * w /\ w * d \in Nat /\ n * w \in Nat
    BY <1>1
  <2>4. e >= 0
    BY <1>1
  <2> DEFINE wd == w * d
             nw == n * w
  <2>5. a = wd + e /\ nw <= wd /\ a < nw /\ wd \in Nat /\ nw \in Nat /\ e \in Nat
    BY <2>2, <2>3, <1>1
  <2> HIDE DEF wd, nw
  <2> QED
    BY <2>5
<1> QED
  BY <1>1, <1>2 DEF d, e

(* Each new selection is an old one and a mode of the component c. *)
Paired(ss, c, D, E, m) == [p \in 1..m |-> Append(ss[D[p]], <<c, E[p]>>)]

Splits(D, E, n, w, m) ==
    /\ \A p \in 1..m : D[p] \in 1..n /\ E[p] \in Nat /\ E[p] \in 1..w
    /\ \A p, r \in 1..m : D[p] = D[r] /\ E[p] = E[r] => p = r

After(j, k) == j = k + 1

(* How many selections there are after a round. *)
LEMMA PairedMany ==
    ASSUME NEW ss, NEW c, NEW D, NEW E, NEW m \in Nat
    PROVE  Len(Paired(ss, c, D, E, m)) = m
BY DEF Paired

(* Selections of k modes, each paired with a mode of the next component  *)
(* no two alike, are different selections of k + 1.                      *)
LEMMA SelectsPaired ==
    ASSUME NEW cs, NEW M, NEW ss, NEW k \in Nat, Selects(cs, M, ss, k), NEW j, After(j, k), M[j] \in Nat,
           NEW m \in Nat, NEW D, NEW E, Splits(D, E, Len(ss), Len(cs[M[j]].modes), m)
    PROVE  Selects(cs, M, Paired(ss, M[j], D, E, m), j)
<1>x. M[k + 1] \in Nat /\ Splits(D, E, Len(ss), Len(cs[M[k + 1]].modes), m)
  BY DEF After
<1> DEFINE new(p) == <<M[k + 1], E[p]>>
           tt == Paired(ss, M[k + 1], D, E, m)
<1>y. /\ \A p \in 1..m : D[p] \in 1..Len(ss) /\ E[p] \in Nat /\ E[p] \in 1..Len(cs[M[k + 1]].modes)
      /\ \A p, r \in 1..m : D[p] = D[r] /\ E[p] = E[r] => p = r
  BY <1>x DEF Splits
<1>z. tt = [p \in 1..m |-> tt[p]] /\ \A p \in 1..m : tt[p] = Append(ss[D[p]], <<M[k + 1], E[p]>>)
  BY DEF Paired
<1> HIDE DEF tt
<1>0. /\ ss \in Seq(Seq(Pairs)) /\ Len(ss) \in Nat
      /\ \A p \in 1..Len(ss) :
            /\ ss[p] \in Seq(Pairs) /\ Len(ss[p]) = k
            /\ \A q \in 1..k : ss[p][q][1] = M[q] /\ ss[p][q][2] \in 1..Len(cs[M[q]].modes)
      /\ \A p, r \in 1..Len(ss) : ss[p] = ss[r] => p = r
  BY ONLY Selects(cs, M, ss, k), SMTT(30) DEF Selects
<1>4. Len(tt) = m /\ DOMAIN tt = 1..m
  BY <1>z
<1>5. ASSUME NEW p \in 1..m
      PROVE  /\ tt[p] \in Seq(Pairs) /\ Len(tt[p]) = k + 1 /\ tt[p][k + 1] = new(p)
             /\ \A q \in 1..k : tt[p][q] = ss[D[p]][q]
  <2>1. new(p) \in Pairs
    BY <1>x, <1>y DEF Pairs
  <2>2. ss[D[p]] \in Seq(Pairs) /\ Len(ss[D[p]]) = k
    BY <1>0, <1>y
  <2>3. tt[p] = Append(ss[D[p]], new(p))
    BY <1>z
  <2> DEFINE o == ss[D[p]]
             t == tt[p]
             x == new(p)
  <2>4. o \in Seq(Pairs) /\ Len(o) = k /\ x \in Pairs /\ t = Append(o, x)
    BY <2>1, <2>2, <2>3
  <2> HIDE DEF new, o, t, x
  <2>5. t \in Seq(Pairs) /\ Len(t) = k + 1 /\ t[k + 1] = x /\ \A q \in 1..k : t[q] = o[q]
    BY ONLY <2>4, AppendProperties
  <2> QED
    BY <2>5 DEF o, t, x
<1>5a. \A p \in 1..m : tt[p] \in Seq(Pairs)
  BY <1>5
<1>5b. \A p \in 1..m : tt[p][k + 1] = new(p) /\ \A q \in 1..k : tt[p][q] = ss[D[p]][q]
  BY <1>5
<1>5c. \A p \in 1..m : Len(tt[p]) = k + 1
  BY <1>5
<1>6. tt \in Seq(Seq(Pairs))
  <2>1. tt = [p \in 1..m |-> tt[p]]
    BY <1>z
  <2> QED
    BY ONLY <2>1, <1>5a, m \in Nat
<1>7. ASSUME NEW p \in 1..m, NEW q \in 1..(k + 1)
      PROVE  tt[p][q][1] = M[q] /\ tt[p][q][2] \in 1..Len(cs[M[q]].modes)
  <2>1. CASE q = k + 1
    <3>1. tt[p][q] = <<M[q], E[p]>>
      BY <2>1, <1>5b
    <3>2. E[p] \in 1..Len(cs[M[q]].modes)
      BY <2>1, <1>y
    <3> QED
      BY ONLY <3>1, <3>2
  <2>2. CASE q \in 1..k
    <3>1. ss[D[p]][q][1] = M[q] /\ ss[D[p]][q][2] \in 1..Len(cs[M[q]].modes)
      BY <2>2, <1>0, <1>y
    <3>2. tt[p][q] = ss[D[p]][q]
      BY <2>2, <1>5b
    <3> QED
      BY ONLY <3>1, <3>2
  <2>3. q = k + 1 \/ q \in 1..k
    BY ONLY q \in 1..(k + 1), k \in Nat
  <2> QED
    BY ONLY <2>1, <2>2, <2>3
<1>8. ASSUME NEW p \in 1..m, NEW r \in 1..m, tt[p] = tt[r] PROVE p = r
  <2>1. new(p) = new(r)
    BY <1>5, <1>8
  <2>2. E[p] = E[r]
    BY <2>1
  <2>3. ss[D[p]] = ss[D[r]]
    <3>1. ss[D[p]] \in Seq(Pairs) /\ Len(ss[D[p]]) = k /\ ss[D[r]] \in Seq(Pairs) /\ Len(ss[D[r]]) = k
      BY <1>0, <1>y
    <3>2. \A q \in 1..k : ss[D[p]][q] = ss[D[r]][q]
      <4>1. \A q \in 1..k : tt[p][q] = ss[D[p]][q]
        BY <1>5b
      <4>2. \A q \in 1..k : tt[r][q] = ss[D[r]][q]
        BY <1>5b
      <4> QED
        BY ONLY <4>1, <4>2, <1>8
    <3> DEFINE o == ss[D[p]]
               t == ss[D[r]]
    <3> HIDE DEF o, t
    <3>3. o \in Seq(Pairs) /\ Len(o) = k /\ t \in Seq(Pairs) /\ Len(t) = k /\ \A q \in 1..k : o[q] = t[q]
      BY <3>1, <3>2 DEF o, t
    <3>4. o = t
      BY ONLY <3>3
    <3> QED
      BY <3>4 DEF o, t
  <2>4. D[p] = D[r]
    BY <2>3, <1>0, <1>y
  <2> QED
    BY <2>2, <2>4, <1>y
<1> QED
  <2>1. Selects(cs, M, tt, k + 1) /\ Len(tt) = m
    BY ONLY <1>4, <1>5c, <1>6, <1>7, <1>8 DEF Selects
  <2> QED
    BY ONLY <2>1, After(j, k) DEF After, tt

(* Which old selection and which mode the p-th new one is made of. *)
OldOf(w, m) == [p \in 1..m |-> ((p - 1) \div w) + 1]
ModeOf(w, m) == [p \in 1..m |-> ((p - 1) % w) + 1]

(* Quotient and remainder take each pair of a selection and a mode once. *)
LEMMA DividedPairs ==
    ASSUME NEW n \in Nat, NEW w \in Nat \ {0}, NEW m \in Nat, m <= n * w
    PROVE  Splits(OldOf(w, m), ModeOf(w, m), n, w, m)
<1> DEFINE D == OldOf(w, m)
           E == ModeOf(w, m)
<1> HIDE DEF D, E
<1>2. ASSUME NEW p \in 1..m
      PROVE D[p] \in 1..n /\ E[p] \in 1..w /\ p - 1 = w * (D[p] - 1) + (E[p] - 1)
  <2> DEFINE a == p - 1
  <2>1. a \in Nat /\ a < n * w
    <3>1. n * w \in Nat
      BY ONLY n \in Nat, w \in Nat \ {0}
    <3> QED
      <4> DEFINE nw == n * w
      <4> HIDE DEF nw
      <4>1. nw \in Nat /\ m <= nw
        BY ONLY <3>1, m <= n * w DEF nw
      <4>2. a \in Nat /\ a < nw
        BY ONLY <4>1, p \in 1..m, m \in Nat
      <4> QED
        BY ONLY <4>2 DEF nw
  <2>3. D[p] = (a \div w) + 1 /\ E[p] = (a % w) + 1
    BY DEF OldOf, ModeOf, D, E
  <2> HIDE DEF a
  <2>2. a \div w \in 0..(n - 1) /\ a % w \in 0..(w - 1) /\ a = w * (a \div w) + (a % w)
    BY ONLY <2>1, Divided, n \in Nat, w \in Nat \ {0}
  <2> DEFINE d == a \div w
             e == a % w
  <2>4. d \in 0..(n - 1) /\ e \in 0..(w - 1) /\ D[p] = d + 1 /\ E[p] = e + 1 /\ a = w * d + e
    BY ONLY <2>2, <2>3
  <2> HIDE DEF d, e
  <2>5. D[p] - 1 = d /\ E[p] - 1 = e /\ D[p] \in 1..n /\ E[p] \in 1..w
    BY ONLY <2>4, n \in Nat, w \in Nat \ {0}
  <2>6. a = w * (D[p] - 1) + (E[p] - 1)
    BY ONLY <2>4, <2>5
  <2> QED
    BY ONLY <2>5, <2>6 DEF a
<1>4. \A p, r \in 1..m : D[p] = D[r] /\ E[p] = E[r] => p = r
  <2> SUFFICES ASSUME NEW p \in 1..m, NEW r \in 1..m, D[p] = D[r], E[p] = E[r] PROVE p = r
    OBVIOUS
  <2>1. p - 1 = w * (D[p] - 1) + (E[p] - 1) /\ r - 1 = w * (D[r] - 1) + (E[r] - 1)
    BY ONLY <1>2, p \in 1..m, r \in 1..m
  <2>2. p - 1 = r - 1
    BY ONLY <2>1, D[p] = D[r], E[p] = E[r]
  <2> QED
    BY ONLY <2>2, p \in 1..m, r \in 1..m, m \in Nat
<1> QED
  BY ONLY <1>2, <1>4, w \in Nat \ {0} DEF Splits, D, E

(* The next m selections, with a mode of the component c. *)
Extension(ss, c, w, m) == Paired(ss, c, OldOf(w, m), ModeOf(w, m), m)

(* A round of compute_soms, cut or not, makes different selections, one  *)
(* mode longer.                                                          *)
LEMMA SelectsMore ==
    ASSUME NEW cs, NEW M \in Seq(Nat), NEW ss, NEW k \in Nat, k + 1 <= Len(M), Selects(cs, M, ss, k),
           NEW w \in Nat \ {0}, w = Len(cs[M[k + 1]].modes),
           NEW m \in Nat, m <= Len(ss) * w
    PROVE  Selects(cs, M, Extension(ss, M[k + 1], w, m), k + 1) /\ Len(Extension(ss, M[k + 1], w, m)) = m
<1> DEFINE n == Len(ss)
           D == OldOf(w, m)
           E == ModeOf(w, m)
<1>1. n \in Nat /\ M[k + 1] \in Nat
  BY DEF Selects
<1>3. Splits(D, E, n, w, m)
  BY ONLY <1>1, DividedPairs, w \in Nat \ {0}, m \in Nat, m <= Len(ss) * w
<1> HIDE DEF D, E
<1>4. Splits(D, E, Len(ss), Len(cs[M[k + 1]].modes), m)
  BY ONLY <1>3, w = Len(cs[M[k + 1]].modes)
<1>5. /\ Selects(cs, M, Paired(ss, M[k + 1], D, E, m), k + 1)
      /\ Len(Paired(ss, M[k + 1], D, E, m)) = m
  <2> DEFINE j == k + 1
  <2>1. After(j, k) /\ M[j] \in Nat /\ Splits(D, E, Len(ss), Len(cs[M[j]].modes), m)
    BY <1>1, <1>4 DEF After
  <2> HIDE DEF j
  <2>2. Selects(cs, M, Paired(ss, M[j], D, E, m), j)
    BY ONLY <2>1, SelectsPaired, k \in Nat, m \in Nat, Selects(cs, M, ss, k)
  <2>3. Len(Paired(ss, M[k + 1], D, E, m)) = m
    BY PairedMany
  <2> QED
    BY ONLY <2>2, <2>3 DEF j
<1> QED
  BY ONLY <1>5 DEF Extension, D, E

(* Cutting a list of selections. *)
LEMMA SelectsCut ==
    ASSUME NEW cs, NEW M, NEW ss, NEW k \in Nat, Selects(cs, M, ss, k), NEW m \in 0..Len(ss)
    PROVE  Selects(cs, M, SubSeq(ss, 1, m), k) /\ Len(SubSeq(ss, 1, m)) = m
<1> DEFINE tt == SubSeq(ss, 1, m)
<1>1. ss \in Seq(Seq(Pairs)) /\ Len(ss) \in Nat
  BY DEF Selects
<1>2. tt \in Seq(Seq(Pairs)) /\ Len(tt) = m /\ \A p \in 1..m : tt[p] = ss[p] /\ p \in 1..Len(ss)
  BY <1>1
<1> HIDE DEF tt
<1>3. ASSUME NEW p \in 1..m
      PROVE  /\ Len(tt[p]) = k
             /\ \A q \in 1..k : tt[p][q][1] = M[q] /\ tt[p][q][2] \in 1..Len(cs[M[q]].modes)
  <2>1. tt[p] = ss[p] /\ p \in 1..Len(ss)
    BY ONLY <1>2, p \in 1..m
  <2>2. Len(ss[p]) = k /\ \A q \in 1..k : ss[p][q][1] = M[q] /\ ss[p][q][2] \in 1..Len(cs[M[q]].modes)
    BY ONLY <2>1, Selects(cs, M, ss, k) DEF Selects
  <2> QED
    BY ONLY <2>1, <2>2
<1>4. ASSUME NEW p \in 1..m, NEW r \in 1..m, tt[p] = tt[r] PROVE p = r
  <2>1. ss[p] = ss[r] /\ p \in 1..Len(ss) /\ r \in 1..Len(ss)
    BY ONLY <1>2, <1>4, p \in 1..m, r \in 1..m
  <2> QED
    BY ONLY <2>1, Selects(cs, M, ss, k) DEF Selects
<1>5. Selects(cs, M, tt, k)
  BY ONLY <1>2, <1>3, <1>4 DEF Selects
<1> QED
  BY ONLY <1>2, <1>5 DEF tt

(* compute_soms so far: the choices for the first k modal components, all    *)
(* of them unless there are more than the limit.                             *)
Counted(cs, M, ss, k) ==
    \A acc : Multiplies(cs, M, acc) =>
        Len(ss) = IF acc[k] <= MaxSoms THEN acc[k] ELSE MaxSoms + 1
Rest(md, M, k) ==
    md \in Seq(Nat) /\ Len(md) = Len(M) - k /\ \A j \in 1..(Len(M) - k) : md[j] = M[k + j]
Selecting(cs, md, ss) ==
    /\ Modal(cs) # << >>
    /\ \E k \in 0..Len(Modal(cs)) :
        Rest(md, Modal(cs), k) /\ Selects(cs, Modal(cs), ss, k) /\ Counted(cs, Modal(cs), ss, k)
Selected(cs, ss, ds) ==
    LET M == Modal(cs)
        total == TotalOf(cs, M)
    IN /\ \E k \in 0..Len(M) : Selects(cs, M, ss, k) /\ (~(total > MaxSoms) /\ M # << >> => k = Len(M))
       /\ (\E d \in ds : d.kind = "soms") <=> total > MaxSoms
       /\ IF M = << >> THEN ss = << >> ELSE IF total > MaxSoms THEN Len(ss) = MaxSoms ELSE Len(ss) = total
SomInv ==
    /\ phase # "done" => \A d \in diagnostics : d.kind # "soms"
    /\ phase = "soms" => Selecting(components, modal, soms)
    /\ phase = "done" => Selected(components, soms, diagnostics)

(* The modal components and their product are functions of the arena. *)
LEMMA ModalSame == ModalComponents = Modal(components) /\ SomTotal = TotalOf(components, Modal(components))
BY DEF ModalComponents, Modal, SomTotal, TotalOf

(* A round of compute_soms keeps what its selections are, and how many. *)
LEMMA ExtendKeeps ==
    ASSUME NEW cs \in Seq(Component), NEW md, NEW ss, Selecting(cs, md, ss), md # << >>, ~(Len(ss) > MaxSoms),
           NEW w, w = Len(cs[Head(md)].modes),
           NEW tt, tt = Extension(ss, Head(md), w, IF Len(ss) * w > MaxSoms THEN MaxSoms + 1 ELSE Len(ss) * w)
    PROVE  Selecting(cs, Tail(md), tt)
<1> DEFINE M == Modal(cs)
           K == Len(M)
           n == Len(ss)
<1>1. M \in Seq(1..Len(cs)) /\ K \in Nat /\ \A k \in 1..K : Len(cs[M[k]].modes) \in Nat \ {0}
  <2>1. M \in Seq(1..Len(cs)) /\ \A k \in 1..K : Len(cs[M[k]].modes) \in Nat \ {0}
    BY ONLY ModalIs, cs \in Seq(Component)
  <2> HIDE DEF M
  <2>2. K \in Nat
    BY ONLY <2>1
  <2> QED
    BY ONLY <2>1, <2>2
<1>2. M \in Seq(Nat)
  BY <1>1
<1>3. PICK k \in 0..K : Rest(md, M, k) /\ Selects(cs, M, ss, k) /\ Counted(cs, M, ss, k)
  BY DEF Selecting
<1> HIDE DEF M
<1>4. MaxSoms \in Nat \ {0} /\ n \in Nat
  BY <1>3, InstanceAssumption DEF Selects
<1>5. k + 1 <= K /\ k \in Nat /\ Head(md) = M[k + 1] /\ k + 1 \in 1..K
  <2>1. md \in Seq(Nat) /\ Len(md) = K - k /\ \A j \in 1..(K - k) : md[j] = M[k + j]
    BY <1>3 DEF Rest
  <2>2. Len(md) # 0 /\ Head(md) = md[1]
    BY <2>1
  <2>3. 1 \in 1..(K - k)
    BY <2>1, <2>2, <1>1
  <2> QED
    BY <2>1, <2>2, <2>3, <1>1
<1>6. w \in Nat \ {0}
  BY <1>1, <1>5
<1> DEFINE m == IF n * w > MaxSoms THEN MaxSoms + 1 ELSE n * w
<1>7. n * w \in Nat /\ m \in Nat /\ m <= n * w
  <2>1. n * w \in Nat
    BY <1>4, <1>6
  <2> DEFINE nw == n * w
  <2> HIDE DEF nw
  <2>2. nw \in Nat /\ m = IF nw > MaxSoms THEN MaxSoms + 1 ELSE nw
    BY <2>1 DEF nw
  <2> HIDE DEF m
  <2>3. m \in Nat /\ m <= nw
    BY <2>2, <1>4
  <2> QED
    BY <2>1, <2>3 DEF nw, m
<1> HIDE DEF m
<1>8. tt = Extension(ss, M[k + 1], w, m)
  BY <1>5 DEF m
<1>9. Selects(cs, M, tt, k + 1) /\ Len(tt) = m
  <2>1. w = Len(cs[M[k + 1]].modes)
    BY <1>5
  <2>2. M \in Seq(Nat) /\ k \in Nat /\ k + 1 <= Len(M) /\ Selects(cs, M, ss, k) /\ m \in Nat /\ m <= Len(ss) * w
    BY <1>2, <1>3, <1>5, <1>7
  <2> QED
    BY ONLY <2>1, <2>2, <1>6, <1>8, SelectsMore
<1>10. Counted(cs, M, tt, k + 1)
  <2> SUFFICES ASSUME NEW acc, Multiplies(cs, M, acc)
               PROVE  Len(tt) = IF acc[k + 1] <= MaxSoms THEN acc[k + 1] ELSE MaxSoms + 1
    BY DEF Counted
  <2>1. \A j \in 0..K : acc[j] \in Nat \ {0}
    BY <1>1, ProductGrows
  <2>2. n = IF acc[k] <= MaxSoms THEN acc[k] ELSE MaxSoms + 1
    BY <1>3 DEF Counted
  <2>3. acc[k] \in Nat /\ n = acc[k]
    BY <2>1, <2>2, <1>4
  <2>4. (k + 1) - 1 = k
    BY <1>5
  <2>5. acc[k + 1] = n * w
    <3>1. acc[k + 1] = acc[(k + 1) - 1] * Len(cs[M[k + 1]].modes)
      BY <1>5 DEF Multiplies
    <3> QED
      BY <3>1, <2>3, <2>4, <1>5
  <2> DEFINE nw == n * w
  <2>6. nw \in Nat /\ acc[k + 1] = nw /\ m = IF nw > MaxSoms THEN MaxSoms + 1 ELSE nw
    BY <2>5, <1>7 DEF m
  <2> HIDE DEF nw
  <2>7. Len(tt) = m
    BY <1>9
  <2> QED
    BY ONLY <2>6, <2>7, <1>4
<1>11. Rest(Tail(md), M, k + 1) /\ k + 1 \in 0..K
  <2>1. md \in Seq(Nat) /\ Len(md) = K - k /\ \A j \in 1..(K - k) : md[j] = M[k + j]
    BY <1>3 DEF Rest
  <2>2. /\ Tail(md) \in Seq(Nat) /\ Len(Tail(md)) = Len(md) - 1
        /\ \A j \in 1..(Len(md) - 1) : Tail(md)[j] = md[j + 1]
    BY <2>1
  <2>3. ASSUME NEW j \in 1..(K - (k + 1)) PROVE Tail(md)[j] = M[(k + 1) + j]
    <3>1. j \in 1..(Len(md) - 1) /\ j + 1 \in 1..(K - k) /\ k + (j + 1) = (k + 1) + j
      BY <2>1, <1>1, <1>5
    <3>2. Tail(md)[j] = md[j + 1] /\ md[j + 1] = M[k + (j + 1)]
      BY <3>1, <2>1, <2>2
    <3> QED
      BY <3>1, <3>2
  <2>4. Len(Tail(md)) = K - (k + 1) /\ k + 1 \in 0..K
    BY <2>1, <2>2, <1>1, <1>5
  <2> QED
    BY <2>2, <2>3, <2>4 DEF Rest
<1>12. M # << >>
  BY DEF Selecting, M
<1> QED
  BY <1>9, <1>10, <1>11, <1>12 DEF Selecting, M

(* The first of the modal components comes next. *)
LEMMA StartKeeps ==
    ASSUME NEW cs \in Seq(Component), Modal(cs) # << >>
    PROVE  Selecting(cs, Modal(cs), << << >> >>)
<1> DEFINE M == Modal(cs)
           ss == << << >> >>
<1>1. M \in Seq(1..Len(cs))
  BY ModalIs
<1> HIDE DEF M
<1>2. M \in Seq(Nat) /\ Len(M) \in Nat
  BY <1>1
<1>3. Rest(M, M, 0)
  <2>1. Len(M) - 0 = Len(M) /\ \A j \in 1..(Len(M) - 0) : 0 + j = j
    BY <1>2
  <2> QED
    BY <2>1, <1>2 DEF Rest
<1>4. Len(ss) = 1 /\ ss[1] = << >> /\ ss \in Seq(Seq(Pairs))
  OBVIOUS
<1> HIDE DEF ss
<1>5. \A p \in 1..Len(ss) : p = 1
  BY <1>4
<1>6. Selects(cs, M, ss, 0)
  <2>1. Len(<< >>) = 0 /\ 1..0 = {}
    OBVIOUS
  <2> QED
    BY <2>1, <1>4, <1>5 DEF Selects
<1>7. Counted(cs, M, ss, 0)
  BY <1>4, InstanceAssumption DEF Counted, Multiplies
<1>8. 0 \in 0..Len(M)
  BY <1>2
<1> QED
  BY <1>3, <1>6, <1>7, <1>8 DEF Selecting, M, ss

(* Without modal components there is nothing to select. *)
LEMMA NothingSelected ==
    ASSUME NEW cs, Modal(cs) = << >>, NEW ds, \A d \in ds : d.kind # "soms"
    PROVE  Selected(cs, << >>, ds)
<1> DEFINE M == Modal(cs)
<1>1. M = << >> /\ Len(M) = 0 /\ M \in Seq(Nat)
  OBVIOUS
<1> HIDE DEF M
<1>2. TotalOf(cs, M) = 1
  <2>1. \E acc : Multiplies(cs, M, acc) /\ TotalOf(cs, M) = acc[Len(M)]
    BY <1>1, ProductIs
  <2>2. PICK acc : Multiplies(cs, M, acc) /\ TotalOf(cs, M) = acc[0]
    BY <1>1, <2>1
  <2> QED
    BY <2>2 DEF Multiplies
<1>3. ~(TotalOf(cs, M) > MaxSoms)
  BY <1>2, InstanceAssumption
<1>4. Selects(cs, M, << >>, 0) /\ 0 \in 0..Len(M)
  <2>1. << >> \in Seq(Seq(Pairs)) /\ Len(<< >>) = 0 /\ 1..0 = {}
    OBVIOUS
  <2> QED
    BY <2>1, <1>1 DEF Selects
<1> QED
  BY <1>1, <1>3, <1>4 DEF Selected, M

(* compute_soms returns. *)
LEMMA FinishSelects ==
    ASSUME NEW cs \in Seq(Component), NEW md, NEW ss, Selecting(cs, md, ss), md = << >> \/ Len(ss) > MaxSoms,
           NEW ds, \A d \in ds : d.kind # "soms",
           NEW total, total = TotalOf(cs, Modal(cs)),
           NEW tt, tt = IF Len(ss) > MaxSoms THEN SubSeq(ss, 1, MaxSoms) ELSE ss,
           NEW es, es = IF total > MaxSoms THEN ds \cup {Diag("soms", 1)} ELSE ds
    PROVE  Selected(cs, tt, es)
<1> DEFINE M == Modal(cs)
           K == Len(M)
<1>1. M \in Seq(1..Len(cs)) /\ \A k \in 1..K : Len(cs[M[k]].modes) \in Nat \ {0}
  BY ONLY ModalIs, cs \in Seq(Component)
<1>2. PICK k \in 0..K : Rest(md, M, k) /\ Selects(cs, M, ss, k) /\ Counted(cs, M, ss, k)
  BY DEF Selecting
<1>3. M # << >> /\ total = TotalOf(cs, M)
  BY DEF Selecting
<1> HIDE DEF M
<1>4. M \in Seq(Nat) /\ K \in Nat /\ MaxSoms \in Nat \ {0}
  BY <1>1, InstanceAssumption
<1>5. PICK acc : Multiplies(cs, M, acc) /\ total = acc[K]
  BY <1>3, <1>4, ProductIs
<1>6. acc[k] \in Nat /\ acc[K] \in Nat /\ acc[k] <= acc[K]
  <2>1. \A j \in 0..K : acc[j] \in Nat \ {0} /\ acc[j] <= acc[K]
    BY <1>1, <1>5, ProductGrows
  <2>2. K \in 0..K
    BY <1>4
  <2> QED
    BY <2>1, <2>2
<1>7. Len(ss) \in Nat /\ Len(ss) = IF acc[k] <= MaxSoms THEN acc[k] ELSE MaxSoms + 1
  BY <1>2, <1>5 DEF Counted, Selects
<1>8. md = << >> => k = K
  <2>1. Len(md) = K - k
    BY <1>2 DEF Rest
  <2> QED
    BY <2>1, <1>4
<1>9. Len(ss) > MaxSoms <=> total > MaxSoms
  BY <1>4, <1>5, <1>6, <1>7, <1>8
<1>10. (\E d \in es : d.kind = "soms") <=> total > MaxSoms
  <2>1. Diag("soms", 1).kind = "soms"
    BY DEF Diag
  <2> QED
    BY <2>1
<1>11. CASE total > MaxSoms
  <2>1. tt = SubSeq(ss, 1, MaxSoms) /\ MaxSoms \in 0..Len(ss)
    BY <1>4, <1>7, <1>9, <1>11
  <2>2. Selects(cs, M, tt, k) /\ Len(tt) = MaxSoms
    BY <2>1, <1>2, SelectsCut
  <2> QED
    BY <2>2, <1>3, <1>10, <1>11 DEF Selected, M
<1>12. CASE ~(total > MaxSoms)
  <2>1. tt = ss /\ md = << >> /\ k = K
    BY <1>8, <1>9, <1>12
  <2>2. Len(tt) = total
    BY <2>1, <1>4, <1>5, <1>6, <1>7, <1>12
  <2> QED
    BY <2>1, <2>2, <1>2, <1>3, <1>10, <1>12 DEF Selected, M
<1> QED
  BY <1>11, <1>12

(* What is selected is what SomsExact asks for. *)
LEMMA SelectedExact ==
    ASSUME components \in Seq(Component), Selected(components, soms, diagnostics), phase = "done"
    PROVE  SomsExact
<1> DEFINE M == Modal(components)
           total == TotalOf(components, M)
           Chosen(s) == [q \in DOMAIN s |-> s[q][1]]
           Legal(s) == \A q \in DOMAIN s : s[q][2] \in DOMAIN components[s[q][1]].modes
<1>1. PICK k \in 0..Len(M) : Selects(components, M, soms, k) /\ (~(total > MaxSoms) /\ M # << >> => k = Len(M))
  BY DEF Selected
<1>2. /\ (\E d \in diagnostics : d.kind = "soms") <=> total > MaxSoms
      /\ IF M = << >> THEN soms = << >> ELSE IF total > MaxSoms THEN Len(soms) = MaxSoms ELSE Len(soms) = total
  BY DEF Selected
<1>3. M \in Seq(1..Len(components))
  BY ModalIs
<1>4. ModalComponents = M /\ SomTotal = total
  BY ModalSame
<1> HIDE DEF M, total
<1>5. Len(M) \in Nat /\ k \in Nat /\ k <= Len(M) /\ (Len(M) = 0 <=> M = << >>)
  BY <1>3
<1>6. /\ soms \in Seq(Seq(Pairs)) /\ DOMAIN soms = 1..Len(soms)
      /\ \A p \in 1..Len(soms) : soms[p] \in Seq(Pairs) /\ Len(soms[p]) = k
      /\ \A p \in 1..Len(soms) : \A q \in 1..k :
            soms[p][q][1] = M[q] /\ soms[p][q][2] \in 1..Len(components[M[q]].modes)
      /\ \A p, r \in 1..Len(soms) : soms[p] = soms[r] => p = r
  BY ONLY <1>1 DEF Selects
<1>7. ASSUME NEW p \in DOMAIN soms PROVE Legal(soms[p]) /\ IsPrefix(Chosen(soms[p]), M)
  <2> DEFINE s == soms[p]
  <2>1. /\ s \in Seq(Pairs) /\ Len(s) = k /\ DOMAIN s = 1..k
        /\ \A q \in 1..k : s[q][1] = M[q] /\ s[q][2] \in 1..Len(components[M[q]].modes)
    BY <1>6
  <2> HIDE DEF s
  <2>2. Legal(s)
    <3>1. ASSUME NEW q \in 1..k PROVE s[q][2] \in DOMAIN components[s[q][1]].modes
      <4>1. M[q] \in 1..Len(components)
        BY <1>3, <1>5
      <4>2. components[M[q]] \in Component
        BY <4>1
      <4>3. components[M[q]].modes \in Seq(ModeNames)
        BY <4>2 DEF Component
      <4>4. DOMAIN components[M[q]].modes = 1..Len(components[M[q]].modes)
        BY <4>3
      <4> QED
        BY <4>4, <2>1
    <3> QED
      BY <3>1, <2>1
  <2>3. IsPrefix(Chosen(s), M)
    <3> DEFINE c == Chosen(s)
    <3>1. c = [q \in 1..k |-> s[q][1]]
      BY <2>1
    <3> HIDE DEF c
    <3>2. \A q \in 1..k : c[q] = M[q] /\ M[q] \in 1..Len(components)
      BY <3>1, <2>1, <1>3, <1>5
    <3>3. c \in Seq(1..Len(components)) /\ Len(c) = k
      BY <3>1, <3>2, <1>5
    <3>4. /\ SubSeq(c, 1, k) \in Seq(1..Len(components)) /\ Len(SubSeq(c, 1, k)) = k
          /\ \A q \in 1..k : SubSeq(c, 1, k)[q] = c[q]
      BY <3>3, <1>5
    <3>5. /\ SubSeq(M, 1, k) \in Seq(1..Len(components)) /\ Len(SubSeq(M, 1, k)) = k
          /\ \A q \in 1..k : SubSeq(M, 1, k)[q] = M[q]
      BY <1>3, <1>5
    <3>6. SubSeq(c, 1, k) = SubSeq(M, 1, k)
      BY <3>2, <3>4, <3>5
    <3> QED
      BY <3>3, <3>6, <1>5 DEF IsPrefix, c
  <2> QED
    BY <2>2, <2>3 DEF s
<1>8. Cardinality(ToSet(soms)) = Len(soms)
  BY <1>6, CountOnce
<1>9. IF Len(M) = 0 THEN soms = << >>
      ELSE IF total > MaxSoms THEN Len(soms) = MaxSoms
      ELSE Len(soms) = total /\ \A p \in DOMAIN soms : Len(soms[p]) = Len(M)
  BY <1>1, <1>2, <1>5, <1>6
<1> QED
  BY <1>2, <1>4, <1>7, <1>8, <1>9 DEF SomsExact

(* Extended is that round. *)
LEMMA ExtendedIs ==
    ASSUME NEW c
    PROVE  LET w == Len(components[c].modes)
               all == Len(soms) * w
           IN Extended(c) = Extension(soms, c, w, IF all > MaxSoms THEN MaxSoms + 1 ELSE all)
<1> DEFINE w == Len(components[c].modes)
           all == Len(soms) * w
           m == IF all > MaxSoms THEN MaxSoms + 1 ELSE all
<1>1. Extended(c) = [p \in 1..m |-> Append(soms[((p - 1) \div w) + 1], <<c, ((p - 1) % w) + 1>>)]
  BY DEF Extended
<1> HIDE DEF m, w, all
<1>2. \A p \in 1..m : OldOf(w, m)[p] = ((p - 1) \div w) + 1 /\ ModeOf(w, m)[p] = ((p - 1) % w) + 1
  BY ONLY TRUE DEF OldOf, ModeOf
<1>3. Extension(soms, c, w, m) = [p \in 1..m |-> Append(soms[OldOf(w, m)[p]], <<c, ModeOf(w, m)[p]>>)]
  BY ONLY TRUE DEF Extension, Paired
<1>4. Extension(soms, c, w, m) = [p \in 1..m |-> Append(soms[((p - 1) \div w) + 1], <<c, ((p - 1) % w) + 1>>)]
  BY ONLY <1>2, <1>3
<1> QED
  BY <1>1, <1>4 DEF m, all, w

(* Every step keeps what is known of the selections. *)
LEMMA SomStep == BuildInv /\ SomInv /\ [Next]_vars => SomInv'
<1> SUFFICES ASSUME BuildInv, SomInv, [Next]_vars PROVE SomInv'
  OBVIOUS
<1>0. components \in Seq(Component)
  BY DEF BuildInv, BuildType
<1>1. CASE DfsSkip \/ DfsCycle \/ DfsEnter \/ DfsLeave
  BY <1>1 DEF SomInv, DfsSkip, DfsCycle, DfsEnter, DfsLeave
<1>2. CASE InstantiateRoot
  <2>1. phase = "build" /\ phase' = "build" /\ diagnostics' = diagnostics \cup Complaints(RootClassifier)
    BY <1>2 DEF InstantiateRoot
  <2>2. \A d \in Complaints(RootClassifier) : d.kind # "soms"
    BY DEF Complaints, Diag
  <2> QED
    BY <2>1, <2>2 DEF SomInv
<1>3. CASE InstantiateChild
  <2> DEFINE zero == IF Builder.elem = 0 /\ Sub.dim = 0 THEN {Diag("zero", Fresh)} ELSE {}
  <2>1. phase = "build" /\ phase' = "build" /\ diagnostics' = diagnostics \cup zero \cup Complaints(Sub.cls)
    BY <1>3 DEF InstantiateChild
  <2>2. \A d \in Complaints(Sub.cls) : d.kind # "soms"
    BY DEF Complaints, Diag
  <2>3. \A d \in zero : d.kind # "soms"
    BY DEF Diag
  <2> QED
    BY <2>1, <2>2, <2>3 DEF SomInv
<1>4. CASE FinishComponent
  BY <1>4 DEF SomInv, FinishComponent
<1>5. CASE StartSoms
  <2> DEFINE M == Modal(components)
  <2>1. /\ phase = "build" /\ components' = components /\ diagnostics' = diagnostics
        /\ phase' = (IF M = << >> THEN "done" ELSE "soms") /\ modal' = M
        /\ soms' = IF M = << >> THEN << >> ELSE << << >> >>
    BY <1>5, ModalSame DEF StartSoms, buildVars
  <2>2. \A d \in diagnostics : d.kind # "soms"
    BY <2>1 DEF SomInv
  <2>3. CASE M = << >>
    BY <2>1, <2>2, <2>3, NothingSelected DEF SomInv
  <2>4. CASE M # << >>
    BY <2>1, <2>2, <2>4, <1>0, StartKeeps DEF SomInv
  <2> QED
    BY <2>3, <2>4
<1>6. CASE ExtendSoms
  <2> DEFINE c == Head(modal)
             w == Len(components[c].modes)
  <2>1. /\ phase = "soms" /\ phase' = "soms" /\ components' = components /\ diagnostics' = diagnostics
        /\ modal # << >> /\ Len(soms) <= MaxSoms /\ soms' = Extended(c) /\ modal' = Tail(modal)
    BY <1>6 DEF ExtendSoms, buildVars
  <2>2. Selecting(components, modal, soms) /\ \A d \in diagnostics : d.kind # "soms"
    BY <2>1 DEF SomInv
  <2>3. ~(Len(soms) > MaxSoms)
    <3>1. Len(soms) \in Nat /\ MaxSoms \in Nat
      BY <2>2, InstanceAssumption DEF Selecting, Selects
    <3> QED
      BY <3>1, <2>1
  <2>4. soms' = Extension(soms, c, w, IF Len(soms) * w > MaxSoms THEN MaxSoms + 1 ELSE Len(soms) * w)
    BY <2>1, ExtendedIs
  <2>5. Selecting(components, Tail(modal), soms')
    BY ONLY <2>1, <2>2, <2>3, <2>4, <1>0, ExtendKeeps
  <2> QED
    BY <2>1, <2>2, <2>5 DEF SomInv
<1>7. CASE FinishSoms
  <2>1. /\ phase = "soms" /\ phase' = "done" /\ components' = components
        /\ modal = << >> \/ Len(soms) > MaxSoms
        /\ soms' = IF Len(soms) > MaxSoms THEN SubSeq(soms, 1, MaxSoms) ELSE soms
        /\ diagnostics' = IF SomTotal > MaxSoms THEN diagnostics \cup {Diag("soms", 1)} ELSE diagnostics
    BY <1>7 DEF FinishSoms, buildVars
  <2>2. Selecting(components, modal, soms) /\ \A d \in diagnostics : d.kind # "soms"
    BY <2>1 DEF SomInv
  <2>3. Selected(components, soms', diagnostics')
    BY ONLY <2>1, <2>2, <1>0, ModalSame, FinishSelects
  <2> QED
    BY <2>1, <2>3 DEF SomInv
<1>8. CASE UNCHANGED vars
  BY <1>8 DEF SomInv, vars, buildVars, somVars
<1>9. CASE Done
  BY <1>8, <1>9 DEF Done
<1> QED
  BY <1>1, <1>2, <1>3, <1>4, <1>5, <1>6, <1>7, <1>8, <1>9 DEF Next

(* SomsExact, for every instance and every MAX_SOMS: compute_soms        *)
(* returns, each once, all the selections of one mode per modal          *)
(* component; where there are too many, MAX_SOMS different ones and a    *)
(* diagnostic (instance.rs, compute_soms).                               *)
THEOREM SomsAlwaysExact == Spec => []SomsExact
<1>1. Init => DetectInv /\ BuildInv /\ SomInv
  <2>1. Init => SomInv
    BY DEF Init, SomInv
  <2> QED
    BY <2>1, InitDetect, InitBuild
<1>2. DetectInv /\ BuildInv /\ SomInv /\ [Next]_vars => (DetectInv /\ BuildInv /\ SomInv)'
  BY DetectStep, BuildStep, SomStep
<1>3. BuildInv /\ SomInv => SomsExact
  <2> SUFFICES ASSUME BuildInv, SomInv PROVE SomsExact
    OBVIOUS
  <2>1. CASE phase = "done"
    BY <2>1, SelectedExact DEF BuildInv, BuildType, SomInv
  <2>2. CASE phase # "done"
    BY <2>2 DEF SomsExact
  <2> QED
    BY <2>1, <2>2
<1> QED
  BY <1>1, <1>2, <1>3, PTL DEF Spec

--------------------------------------------------------------------------------
(* What an implementation inherits                                         *)

(* No later one of the first k has the name of the q-th. *)
Latest(s, k, q) == \A b \in 1..k : b > q => s[b].name # s[q].name

(* c is the last classifier that the first k name for x. *)
LastClass(s, k, x, c) ==
    \/ \E b \in 1..k :
        /\ s[b].name = x /\ s[b].cls.kind # "none" /\ c = s[b].cls
        /\ \A d \in 1..k : d > b /\ s[d].name = x => s[d].cls.kind = "none"
    \/ c.kind = "none" /\ \A d \in 1..k : s[d].name = x => s[d].cls.kind = "none"

(* r holds, of the first k, the latest of each name that is taken. *)
Keeps(s, k, r) ==
    /\ r \in Seq(Subcomponent)
    /\ \A x, y \in 1..Len(r) : r[x].name = r[y].name => x = y
    /\ \A x \in 1..Len(r) : \E q \in 1..k :
        s[q].name = r[x].name /\ s[q].dim = r[x].dim /\ Latest(s, k, q)
    /\ \A x \in 1..Len(r) : LastClass(s, k, r[x].name, r[x].cls)
Gathered(s, k, r) ==
    Keeps(s, k, r) /\ \A q \in 1..k : \E x \in 1..Len(r) : r[x].name = s[q].name

(* A name is declared again only to refine it. *)
Once(s) == \A a, b \in 1..Len(s) : a < b /\ s[a].name = s[b].name => s[b].refined

(* Another name does not change the last classifier of x. *)
LEMMA LastClassSame ==
    ASSUME NEW s, NEW k \in Nat, NEW x, NEW c, LastClass(s, k, x, c), s[k + 1].name # x
    PROVE  LastClass(s, k + 1, x, c)
<1>1. \A d \in 1..(k + 1) : d \in 1..k \/ d = k + 1
  OBVIOUS
<1>2. \A d \in 1..k : d \in 1..(k + 1)
  OBVIOUS
<1>3. CASE \E b \in 1..k :
        /\ s[b].name = x /\ s[b].cls.kind # "none" /\ c = s[b].cls
        /\ \A d \in 1..k : d > b /\ s[d].name = x => s[d].cls.kind = "none"
  <2>1. PICK b \in 1..k :
        /\ s[b].name = x /\ s[b].cls.kind # "none" /\ c = s[b].cls
        /\ \A d \in 1..k : d > b /\ s[d].name = x => s[d].cls.kind = "none"
    BY <1>3
  <2>2. \A d \in 1..(k + 1) : d > b /\ s[d].name = x => s[d].cls.kind = "none"
    BY <2>1, <1>1
  <2> QED
    BY <2>1, <2>2, <1>2 DEF LastClass
<1>4. CASE c.kind = "none" /\ \A d \in 1..k : s[d].name = x => s[d].cls.kind = "none"
  BY <1>1, <1>4 DEF LastClass
<1> QED
  BY <1>3, <1>4 DEF LastClass

(* A later declaration that names a classifier names the last. *)
LEMMA LastClassNew ==
    ASSUME NEW s, NEW k \in Nat, s[k + 1].cls.kind # "none"
    PROVE  LastClass(s, k + 1, s[k + 1].name, s[k + 1].cls)
<1>1. k + 1 \in 1..(k + 1) /\ \A d \in 1..(k + 1) : ~(d > k + 1)
  OBVIOUS
<1> QED
  BY <1>1 DEF LastClass

(* One that names none leaves the last. *)
LEMMA LastClassOld ==
    ASSUME NEW s, NEW k \in Nat, s[k + 1].cls.kind = "none", NEW c, LastClass(s, k, s[k + 1].name, c)
    PROVE  LastClass(s, k + 1, s[k + 1].name, c)
<1> DEFINE x == s[k + 1].name
<1>0. LastClass(s, k, x, c) /\ s[k + 1].cls.kind = "none"
  OBVIOUS
<1> HIDE DEF x
<1>1. \A d \in 1..(k + 1) : d \in 1..k \/ d = k + 1
  OBVIOUS
<1>2. \A d \in 1..k : d \in 1..(k + 1)
  OBVIOUS
<1>3. CASE \E b \in 1..k :
        /\ s[b].name = x /\ s[b].cls.kind # "none" /\ c = s[b].cls
        /\ \A d \in 1..k : d > b /\ s[d].name = x => s[d].cls.kind = "none"
  <2>1. PICK b \in 1..k :
        /\ s[b].name = x /\ s[b].cls.kind # "none" /\ c = s[b].cls
        /\ \A d \in 1..k : d > b /\ s[d].name = x => s[d].cls.kind = "none"
    BY <1>3
  <2>2. \A d \in 1..(k + 1) : d > b /\ s[d].name = x => s[d].cls.kind = "none"
    BY <2>1, <1>0, <1>1
  <2>3. LastClass(s, k + 1, x, c)
    BY <2>1, <2>2, <1>2 DEF LastClass
  <2> QED
    BY <2>3 DEF x
<1>4. CASE c.kind = "none" /\ \A d \in 1..k : s[d].name = x => s[d].cls.kind = "none"
  <2>1. LastClass(s, k + 1, x, c)
    BY <1>0, <1>1, <1>4 DEF LastClass
  <2> QED
    BY <2>1 DEF x
<1> QED
  BY <1>0, <1>3, <1>4 DEF LastClass

(* The last classifier named for x is one. *)
LEMMA LastClassUnique ==
    ASSUME NEW s, NEW k \in Nat, NEW x, NEW c \in Classifier, NEW d \in Classifier,
           LastClass(s, k, x, c), LastClass(s, k, x, d)
    PROVE  c = d
<1>1. c.kind = "none" /\ d.kind = "none" => c = d
  BY DEF Classifier
<1>2. CASE c.kind = "none" /\ d.kind = "none"
  BY <1>1, <1>2
<1>3. CASE c.kind # "none" \/ d.kind # "none"
  <2>1. \E b \in 1..k : s[b].name = x /\ s[b].cls.kind # "none"
    BY <1>3 DEF LastClass
  <2>2. PICK b \in 1..k :
        /\ s[b].name = x /\ s[b].cls.kind # "none" /\ c = s[b].cls
        /\ \A e \in 1..k : e > b /\ s[e].name = x => s[e].cls.kind = "none"
    BY <2>1 DEF LastClass
  <2>3. PICK f \in 1..k :
        /\ s[f].name = x /\ s[f].cls.kind # "none" /\ d = s[f].cls
        /\ \A e \in 1..k : e > f /\ s[e].name = x => s[e].cls.kind = "none"
    BY <2>1 DEF LastClass
  <2>4. ~(f > b) /\ ~(b > f)
    BY <2>2, <2>3
  <2>5. b = f
    BY <2>4
  <2> QED
    BY <2>2, <2>3, <2>5
<1> QED
  BY <1>2, <1>3

(* One more subcomponent goes to the end. *)
LEMMA GatherPut ==
    ASSUME NEW s, NEW k \in Nat, NEW r, Keeps(s, k, r),
           NEW new \in Subcomponent, new.name = s[k + 1].name, new.dim = s[k + 1].dim,
           LastClass(s, k + 1, new.name, new.cls),
           \A x \in 1..Len(r) : r[x].name # new.name,
           \A q \in 1..k : s[q].name # new.name => \E x \in 1..Len(r) : r[x].name = s[q].name
    PROVE  Gathered(s, k + 1, Append(r, new))
<1> DEFINE n == Len(r)
           g == Append(r, new)
<1>0. /\ r \in Seq(Subcomponent) /\ \A x, y \in 1..n : r[x].name = r[y].name => x = y
      /\ \A x \in 1..n : \E q \in 1..k : s[q].name = r[x].name /\ s[q].dim = r[x].dim /\ Latest(s, k, q)
      /\ \A x \in 1..n : LastClass(s, k, r[x].name, r[x].cls)
  BY DEF Keeps
<1>1. g \in Seq(Subcomponent) /\ n \in Nat /\ Len(g) = n + 1 /\ g[n + 1] = new /\ \A x \in 1..n : g[x] = r[x]
  BY <1>0, AppendProperties
<1> HIDE DEF g
<1>2. \A x \in 1..(n + 1) : (x \in 1..n /\ g[x] = r[x] /\ g[x].name # new.name) \/ (x = n + 1 /\ g[x] = new)
  BY <1>1
<1>3. \A x, y \in 1..(n + 1) : g[x].name = g[y].name => x = y
  BY <1>0, <1>2
<1>4. ASSUME NEW x \in 1..(n + 1)
      PROVE  /\ \E q \in 1..(k + 1) : s[q].name = g[x].name /\ s[q].dim = g[x].dim /\ Latest(s, k + 1, q)
             /\ LastClass(s, k + 1, g[x].name, g[x].cls)
  <2>1. CASE x \in 1..n /\ g[x] = r[x] /\ g[x].name # new.name
    <3>1. PICK q \in 1..k : s[q].name = r[x].name /\ s[q].dim = r[x].dim /\ Latest(s, k, q)
      BY <2>1, <1>0
    <3>2. q \in 1..(k + 1) /\ \A b \in 1..(k + 1) : b \in 1..k \/ b = k + 1
      OBVIOUS
    <3>3. s[k + 1].name # s[q].name
      BY <2>1, <3>1
    <3>4. Latest(s, k + 1, q)
      BY <3>1, <3>2, <3>3 DEF Latest
    <3>5. LastClass(s, k, g[x].name, g[x].cls) /\ s[k + 1].name # g[x].name
      BY <2>1, <1>0
    <3>6. LastClass(s, k + 1, g[x].name, g[x].cls)
      BY <3>5, LastClassSame
    <3> QED
      BY <3>1, <3>2, <3>4, <3>6, <2>1
  <2>2. CASE x = n + 1 /\ g[x] = new
    <3>1. k + 1 \in 1..(k + 1) /\ Latest(s, k + 1, k + 1)
      BY DEF Latest
    <3> QED
      BY <3>1, <2>2
  <2> QED
    BY <2>1, <2>2, <1>2
<1>5. ASSUME NEW q \in 1..(k + 1) PROVE \E x \in 1..(n + 1) : g[x].name = s[q].name
  <2>1. CASE s[q].name = new.name
    <3>1. n + 1 \in 1..(n + 1)
      BY <1>1
    <3> QED
      BY <3>1, <2>1, <1>1
  <2>2. CASE s[q].name # new.name
    <3>1. q \in 1..k
      BY <2>2
    <3>2. PICK x \in 1..n : r[x].name = s[q].name
      BY <3>1, <2>2
    <3>3. x \in 1..(n + 1)
      BY <1>1
    <3> QED
      BY <3>2, <3>3, <1>1
  <2> QED
    BY <2>1, <2>2
<1>6. Keeps(s, k + 1, g)
  BY <1>1, <1>3, <1>4 DEF Keeps
<1> QED
  BY <1>1, <1>5, <1>6 DEF Gathered, g

(* Removing one keeps the others. *)
Without(s, k, a, pos, r) ==
    /\ Keeps(s, k, r)
    /\ \A x \in 1..Len(r) : r[x].name # a[pos].name
    /\ \A x \in 1..Len(a) : x # pos => \E y \in 1..Len(r) : r[y] = a[x]

(* Removing one keeps the others. *)
LEMMA KeepsWithout ==
    ASSUME NEW s, NEW k \in Nat, NEW a, Keeps(s, k, a), NEW pos \in 1..Len(a)
    PROVE  Without(s, k, a, pos, RemoveAt(a, pos))
<1> DEFINE n == Len(a)
           r == RemoveAt(a, pos)
           o == [x \in 1..(n - 1) |-> IF x < pos THEN x ELSE x + 1]
<1>0. /\ a \in Seq(Subcomponent) /\ \A x, y \in 1..n : a[x].name = a[y].name => x = y
      /\ \A x \in 1..n : \E q \in 1..k : s[q].name = a[x].name /\ s[q].dim = a[x].dim /\ Latest(s, k, q)
      /\ \A x \in 1..n : LastClass(s, k, a[x].name, a[x].cls)
  BY DEF Keeps
<1>1. n \in Nat /\ n > 0
  BY <1>0
<1>2. r \in Seq(Subcomponent) /\ Len(r) = n - 1 /\ \A x \in 1..(n - 1) : r[x] = IF x < pos THEN a[x] ELSE a[x + 1]
  BY <1>0, RemoveFacts
<1> HIDE DEF r
<1>3. \A x \in 1..(n - 1) : o[x] \in 1..n /\ o[x] # pos
  BY <1>1
<1>4. \A x, y \in 1..(n - 1) : o[x] = o[y] => x = y
  BY <1>1
<1>5. \A x \in 1..(n - 1) : r[x] = a[o[x]]
  BY <1>2
<1>6. ASSUME NEW x \in 1..n, x # pos PROVE \E y \in 1..(n - 1) : o[y] = x
  <2>1. CASE x < pos
    <3>1. x \in 1..(n - 1) /\ o[x] = x
      BY <2>1, <1>1
    <3> QED
      BY <3>1
  <2>2. CASE x > pos
    <3>1. x - 1 \in 1..(n - 1) /\ ~(x - 1 < pos) /\ (x - 1) + 1 = x
      BY <2>2, <1>1
    <3>2. o[x - 1] = x
      BY <3>1
    <3> QED
      BY <3>1, <3>2
  <2> QED
    BY <2>1, <2>2, <1>6, <1>1
<1> HIDE DEF o
<1>7. Keeps(s, k, r)
  <2>1. ASSUME NEW x \in 1..(n - 1), NEW y \in 1..(n - 1), r[x].name = r[y].name PROVE x = y
    <3> DEFINE v == o[x]
               w == o[y]
    <3>1. v \in 1..n /\ r[x] = a[v] /\ w \in 1..n /\ r[y] = a[w]
      BY <1>3, <1>5
    <3> HIDE DEF v, w
    <3>2. v = w
      BY ONLY <3>1, <2>1, <1>0
    <3> QED
      BY <3>2, <1>4 DEF v, w
  <2>2. ASSUME NEW x \in 1..(n - 1)
        PROVE  /\ \E q \in 1..k : s[q].name = r[x].name /\ s[q].dim = r[x].dim /\ Latest(s, k, q)
               /\ LastClass(s, k, r[x].name, r[x].cls)
    <3> DEFINE y == o[x]
    <3>1. y \in 1..n /\ r[x] = a[y]
      BY <1>3, <1>5
    <3> HIDE DEF y
    <3>2. PICK q \in 1..k : s[q].name = a[y].name /\ s[q].dim = a[y].dim /\ Latest(s, k, q)
      BY ONLY <3>1, <1>0
    <3>3. LastClass(s, k, a[y].name, a[y].cls)
      BY ONLY <3>1, <1>0
    <3>4. s[q].name = r[x].name /\ s[q].dim = r[x].dim /\ Latest(s, k, q)
      BY ONLY <3>1, <3>2
    <3>5. LastClass(s, k, r[x].name, r[x].cls)
      BY ONLY <3>1, <3>3
    <3> QED
      BY ONLY <3>4, <3>5, q \in 1..k
  <2> QED
    BY <2>1, <2>2, <1>2 DEF Keeps
<1>8. ASSUME NEW x \in 1..(n - 1) PROVE r[x].name # a[pos].name
  <2> DEFINE y == o[x]
  <2>1. y \in 1..n /\ y # pos /\ r[x] = a[y]
    BY <1>3, <1>5
  <2> HIDE DEF y
  <2> QED
    BY <2>1, <1>0
<1>9. \A x \in 1..n : x # pos => \E y \in 1..(n - 1) : r[y] = a[x]
  <2> TAKE x \in 1..n
  <2> SUFFICES ASSUME x # pos PROVE \E y \in 1..(n - 1) : r[y] = a[x]
    OBVIOUS
  <2>1. PICK y \in 1..(n - 1) : o[y] = x
    BY <1>6
  <2> QED
    BY <2>1, <1>5
<1> QED
  BY <1>2, <1>7, <1>8, <1>9 DEF r, Without

(* Collect takes one more declaration in: what is gathered stays, name   *)
(* by name, the last declaration with the last classifier named.         *)
LEMMA GatherOne ==
    ASSUME NEW s \in Seq(Subcomponent), Once(s), NEW k \in Nat, k + 1 <= Len(s), NEW a, Gathered(s, k, a)
    PROVE  Gathered(s, k + 1, Collect(a, s[k + 1]))
<1> DEFINE t == s[k + 1]
           pos == PlaceOf(a, t.name)
           cls == IF t.cls.kind = "none" THEN a[pos].cls ELSE t.cls
           indirect == IF t.cls.kind = "none" THEN a[pos].indirect ELSE t.indirect
           new == [t EXCEPT !.cls = cls, !.indirect = indirect]
<1>0. Len(s) \in Nat /\ k + 1 \in 1..Len(s) /\ t \in Subcomponent /\ \A q \in 1..k : q \in 1..Len(s) /\ q < k + 1
  OBVIOUS
<1>1. Keeps(s, k, a) /\ a \in Seq(Subcomponent) /\ \A q \in 1..k : \E x \in 1..Len(a) : a[x].name = s[q].name
  BY DEF Gathered, Keeps
<1>2. /\ pos = 0 => \A x \in 1..Len(a) : a[x].name # t.name
      /\ pos # 0 => pos \in 1..Len(a) /\ a[pos].name = t.name
  BY <1>1, FirstNamed
<1>3. Collect(a, t) = IF t.refined /\ pos # 0 THEN Append(RemoveAt(a, pos), new) ELSE Append(a, t)
  BY DEF Collect, PlaceOf
<1> HIDE DEF pos
<1>4. CASE pos = 0
  <2>1. \A q \in 1..k : s[q].name # t.name
    BY <1>1, <1>2, <1>4
  <2>2. LastClass(s, k + 1, t.name, t.cls)
    <3>1. CASE t.cls.kind # "none"
      BY <3>1, LastClassNew
    <3>2. CASE t.cls.kind = "none"
      <4>1. \A d \in 1..(k + 1) : d \in 1..k \/ d = k + 1
        OBVIOUS
      <4> QED
        BY <4>1, <3>2, <2>1 DEF LastClass
    <3> QED
      BY <3>1, <3>2
  <2>3. Gathered(s, k + 1, Append(a, t))
    BY <2>2, <1>0, <1>1, <1>2, <1>4, GatherPut
  <2> QED
    BY <2>3, <1>3, <1>4
<1>5. CASE pos # 0
  <2>1. pos \in 1..Len(a) /\ a[pos].name = t.name /\ a[pos] \in Subcomponent
    BY <1>1, <1>2, <1>5
  <2>2. t.refined
    <3>1. PICK q \in 1..k : s[q].name = a[pos].name
      BY <2>1, <1>1 DEF Keeps
    <3> QED
      BY <3>1, <2>1, <1>0 DEF Once
  <2>3. cls \in Classifier /\ indirect \in BOOLEAN
    BY <2>1, <1>0 DEF Subcomponent
  <2>4. LastClass(s, k + 1, t.name, cls)
    <3>1. CASE t.cls.kind # "none"
      BY <3>1, LastClassNew
    <3>2. CASE t.cls.kind = "none"
      <4>1. LastClass(s, k, t.name, a[pos].cls)
        BY <2>1, <1>1 DEF Keeps
      <4> QED
        BY <4>1, <3>2, LastClassOld
    <3> QED
      BY <3>1, <3>2
  <2> HIDE DEF cls, indirect
  <2>5. new \in Subcomponent /\ new.name = t.name /\ new.dim = t.dim /\ new.cls = cls
    BY <2>3, <1>0 DEF Subcomponent
  <2> HIDE DEF new
  <2> DEFINE r == RemoveAt(a, pos)
  <2>6. /\ Keeps(s, k, r) /\ \A x \in 1..Len(r) : r[x].name # a[pos].name
        /\ \A x \in 1..Len(a) : x # pos => \E y \in 1..Len(r) : r[y] = a[x]
    <3>1. Without(s, k, a, pos, RemoveAt(a, pos))
      BY <2>1, <1>1, KeepsWithout
    <3> QED
      BY <3>1 DEF Without, r
  <2> HIDE DEF r
  <2>7. ASSUME NEW q \in 1..k, s[q].name # new.name PROVE \E y \in 1..Len(r) : r[y].name = s[q].name
    <3>1. PICK x \in 1..Len(a) : a[x].name = s[q].name
      BY <1>1
    <3>2. x # pos
      BY <3>1, <2>1, <2>5, <2>7
    <3>3. PICK y \in 1..Len(r) : r[y] = a[x]
      BY <3>2, <2>6
    <3> QED
      BY <3>1, <3>3
  <2>8. \A x \in 1..Len(r) : r[x].name # new.name
    BY <2>1, <2>5, <2>6
  <2>9. LastClass(s, k + 1, new.name, new.cls) /\ new.name = s[k + 1].name /\ new.dim = s[k + 1].dim
    BY <2>4, <2>5
  <2> HIDE DEF t
  <2>10. Gathered(s, k + 1, Append(r, new))
    BY <2>5, <2>6, <2>7, <2>8, <2>9, GatherPut
  <2>11. Collect(a, t) = Append(r, new)
    BY <1>3, <1>5, <2>2 DEF r
  <2> QED
    BY <2>10, <2>11 DEF t
<1> QED
  BY <1>4, <1>5

(* collect_impl_chain keeps one subcomponent of each name, with the last     *)
(* classifier named for it.                                                  *)
LEMMA AllGathered ==
    ASSUME decl \in [Impls -> Implementation], NEW i \in Impls, Once(Listed(i))
    PROVE  Gathered(Listed(i), Len(Listed(i)), AllSubs(i))
<1> DEFINE s == Listed(i)
           n == Len(s)
<1>1. s \in Seq(Subcomponent)
  BY ListedIs
<1>2. PICK acc : Collects(s, acc) /\ AllSubs(i) = acc[n]
  BY AllSubsIs
<1>3. Once(s)
  OBVIOUS
<1> HIDE DEF s
<1> DEFINE T == {k \in Nat : k <= n => Gathered(s, k, acc[k])}
<1>4. 0 \in T
  <2>1. acc[0] = << >> /\ << >> \in Seq(Subcomponent) /\ Len(<< >>) = 0 /\ 1..0 = {}
    BY <1>2 DEF Collects
  <2>2. Gathered(s, 0, acc[0])
    BY <2>1 DEF Gathered, Keeps
  <2> QED
    BY <2>2
<1>5. ASSUME NEW k \in Nat, k \in T PROVE k + 1 \in T
  <2> SUFFICES ASSUME k + 1 <= n PROVE Gathered(s, k + 1, acc[k + 1])
    OBVIOUS
  <2>1. k + 1 \in 1..n /\ (k + 1) - 1 = k /\ Gathered(s, k, acc[k])
    BY <1>1, <1>5
  <2>2. acc[k + 1] = Collect(acc[(k + 1) - 1], s[k + 1])
    BY <2>1, <1>2 DEF Collects
  <2>3. acc[k + 1] = Collect(acc[k], s[k + 1])
    BY <2>1, <2>2
  <2> QED
    BY <2>1, <2>3, <1>1, <1>3, GatherOne
<1> HIDE DEF T
<1>6. \A k \in Nat : k \in T
  BY <1>4, <1>5, ClosedUnderSuccessor
<1>7. n \in Nat /\ n <= n
  BY <1>1
<1>8. Gathered(s, n, acc[n])
  BY <1>6, <1>7 DEF T
<1> QED
  BY <1>2, <1>8 DEF s

(* The places of Visible. *)
Places(i) == UNION {{<<p, k>> : k \in DOMAIN decl[Chain(i)[p]].subs} : p \in DOMAIN Chain(i)}
At(i, a) == decl[Chain(i)[a[1]]].subs[a[2]]
Before(a, b) == a[1] < b[1] \/ (a[1] = b[1] /\ a[2] < b[2])
Final(i, a) == ~ \E b \in Places(i) : Before(a, b) /\ At(i, b).refined /\ At(i, b).name = At(i, a).name
Naming(i, a) == {b \in Places(i) : At(i, b).name = At(i, a).name /\ At(i, b).cls.kind # "none"}
IsLast(i, a, b) == \A c \in Naming(i, a) : c = b \/ Before(c, b)
NamedClass(i, a) ==
    IF Naming(i, a) = {} THEN At(i, a).cls
    ELSE At(i, CHOOSE b \in Naming(i, a) : IsLast(i, a, b)).cls

(* Visible, with its local definitions as operators. *)
LEMMA VisibleAt ==
    ASSUME NEW i
    PROVE  Visible(i) = {[sub |-> At(i, a), cls |-> NamedClass(i, a)] : a \in {b \in Places(i) : Final(i, b)}}
BY DEF Visible, Places, At, Before, Final, Naming, IsLast, NamedClass

(* The places are the numbers of Listed(i), in order. *)
Numbers(i, ix) ==
    LET s == Listed(i) IN
    /\ \A a \in Places(i) : ix[a] \in 1..Len(s) /\ s[ix[a]] = At(i, a)
    /\ \A q \in 1..Len(s) : \E a \in Places(i) : ix[a] = q
    /\ \A a, b \in Places(i) : Before(a, b) <=> ix[a] < ix[b]
    /\ \A a, b \in Places(i) : ix[a] = ix[b] => a = b

(* The positions along an extends chain can be numbered as they are      *)
(* listed.                                                               *)
LEMMA NumbersExist ==
    ASSUME decl \in [Impls -> Implementation], NEW i \in Impls
    PROVE  \E ix : Numbers(i, ix)
<1> DEFINE c == Chain(i)
           m == Len(c)
           ss == [k \in DOMAIN c |-> decl[c[k]].subs]
           s == Listed(i)
<1>1. c \in Seq(Impls) /\ m \in Nat /\ DOMAIN c = 1..m /\ \A p \in 1..m : c[p] \in Impls
  BY ChainIs
<1>2. s \in Seq(Subcomponent)
  BY ListedIs
<1>3. PICK off : Laid(s, ss, m, off)
  BY ListedIs
<1> HIDE DEF c, s, m
<1>4. \A p \in 1..m : ss[p] = decl[c[p]].subs /\ ss[p] \in Seq(Subcomponent)
  BY <1>1 DEF Implementation
<1> HIDE DEF ss
<1>5. \A p \in 1..m : Len(ss[p]) \in Nat /\ DOMAIN ss[p] = 1..Len(ss[p])
  BY <1>4
<1>6. ASSUME NEW a
      PROVE  a \in Places(i) <=> \E p \in 1..m : \E k \in 1..Len(ss[p]) : a = <<p, k>>
  <2>1. Places(i) = UNION {{<<p, k>> : k \in DOMAIN decl[c[p]].subs} : p \in DOMAIN c}
    BY DEF Places, c
  <2>2. a \in Places(i) <=> \E p \in DOMAIN c : \E k \in DOMAIN decl[c[p]].subs : a = <<p, k>>
    BY ONLY <2>1
  <2> QED
    BY ONLY <2>2, <1>1, <1>4, <1>5
<1>7. \A a \in Places(i) : a[1] \in 1..m /\ a[2] \in 1..Len(ss[a[1]]) /\ a = <<a[1], a[2]>>
  <2> TAKE a \in Places(i)
  <2>1. PICK p \in 1..m : \E k \in 1..Len(ss[p]) : a = <<p, k>>
    BY <1>6
  <2>2. PICK k \in 1..Len(ss[p]) : a = <<p, k>>
    BY <2>1
  <2> QED
    BY ONLY <2>2, p \in 1..m, k \in 1..Len(ss[p])
<1>8. \A a \in Places(i) : At(i, a) = ss[a[1]][a[2]]
  BY <1>4, <1>7 DEF At, c
<1> DEFINE ix == [a \in Places(i) |-> off[a[1]] + a[2]]
<1>9. \A a \in Places(i) : ix[a] = off[a[1]] + a[2] /\ off[a[1]] \in Nat /\ a[2] \in Nat /\ a[1] \in Nat /\ off[a[1]] + a[2] \in Nat
  <2>1. \A p \in 1..m : off[p] \in Nat
    BY <1>3, <1>1 DEF Laid
  <2> QED
    BY <2>1, <1>7, <1>5
<1> HIDE DEF ix
<1>10. ASSUME NEW a \in Places(i) PROVE ix[a] \in 1..Len(s) /\ s[ix[a]] = At(i, a)
  <2>1. a[1] \in 1..m /\ a[2] \in 1..Len(ss[a[1]])
    BY <1>7
  <2>2. off[a[1]] + a[2] \in 1..Len(s) /\ s[off[a[1]] + a[2]] = ss[a[1]][a[2]]
    BY ONLY <1>3, <2>1 DEF Laid
  <2> QED
    BY <2>2, <1>8, <1>9
<1>11. ASSUME NEW q \in 1..Len(s) PROVE \E a \in Places(i) : ix[a] = q
  <2>0. PICK p \in 1..m : \E k \in 1..Len(ss[p]) : q = off[p] + k
    BY ONLY <1>3, <1>11 DEF Laid
  <2>1. PICK k \in 1..Len(ss[p]) : q = off[p] + k
    BY ONLY <2>0
  <2>2. <<p, k>> \in Places(i)
    BY ONLY <1>6, p \in 1..m, k \in 1..Len(ss[p])
  <2>3. ix[<<p, k>>] = off[p] + k
    BY <2>2, <1>9
  <2> QED
    BY <2>1, <2>2, <2>3
<1>12. ASSUME NEW a \in Places(i), NEW b \in Places(i), Before(a, b) PROVE ix[a] < ix[b]
  <2>1. a[1] \in 1..m /\ a[2] \in 1..Len(ss[a[1]]) /\ b[1] \in 1..m /\ b[2] \in 1..Len(ss[b[1]])
    BY <1>7
  <2>2. ix[a] = off[a[1]] + a[2] /\ off[a[1]] \in Nat /\ ix[b] = off[b[1]] + b[2] /\ off[b[1]] \in Nat
    BY <1>9
  <2>3. CASE a[1] < b[1]
    <3>1. off[a[1]] + Len(ss[a[1]]) <= off[b[1]] /\ Len(ss[a[1]]) \in Nat
      BY ONLY <2>1, <2>3, <1>3, <1>5 DEF Laid
    <3> QED
      BY ONLY <3>1, <2>1, <2>2, SMTT(30)
  <2>4. CASE a[1] = b[1] /\ a[2] < b[2]
    <3>1. off[a[1]] = off[b[1]] /\ a[2] \in Int /\ b[2] \in Int
      BY ONLY <2>1, <2>4
    <3> QED
      BY ONLY <3>1, <2>2, <2>4
  <2> QED
    BY <2>3, <2>4, <1>12 DEF Before
<1>13. ASSUME NEW a \in Places(i), NEW b \in Places(i) PROVE a = b \/ Before(a, b) \/ Before(b, a)
  <2>1. a[1] \in Int /\ a[2] \in Int /\ b[1] \in Int /\ b[2] \in Int
    BY <1>9
  <2>2. a[1] = b[1] /\ a[2] = b[2] => a = b
    BY <1>7
  <2> QED
    BY ONLY <2>1, <2>2 DEF Before
<1>14. \A a \in Places(i) : ix[a] \in Int
  BY <1>9
<1>15. ASSUME NEW a \in Places(i), NEW b \in Places(i)
       PROVE  (Before(a, b) <=> ix[a] < ix[b]) /\ (ix[a] = ix[b] => a = b)
  <2>1. ix[a] \in Int /\ ix[b] \in Int
    BY <1>14
  <2>2. (Before(a, b) => ix[a] < ix[b]) /\ (Before(b, a) => ix[b] < ix[a]) /\ (a = b => ix[a] = ix[b])
    BY <1>12
  <2>3. a = b \/ Before(a, b) \/ Before(b, a)
    BY <1>13
  <2> QED
    BY ONLY <2>1, <2>2, <2>3
<1>16. Numbers(i, ix)
  BY <1>10, <1>11, <1>15 DEF Numbers, s
<1> QED
  BY <1>16

(* Without a second declaration, what Visible keeps is the latest of its     *)
(* name, with the last classifier named for it.                              *)
LEMMA SeenAt ==
    ASSUME decl \in [Impls -> Implementation], NEW i \in Impls, Once(Listed(i)),
           NEW ix, Numbers(i, ix), NEW a \in Places(i)
    PROVE  /\ Final(i, a) <=> Latest(Listed(i), Len(Listed(i)), ix[a])
           /\ NamedClass(i, a) \in Classifier
           /\ LastClass(Listed(i), Len(Listed(i)), At(i, a).name, NamedClass(i, a))
<1> DEFINE s == Listed(i)
           n == Len(s)
           N == Naming(i, a)
<1>1. s \in Seq(Subcomponent) /\ n \in Nat
  BY ListedIs
<1>0. Once(s) /\ \A q \in 1..n : s[q] \in Subcomponent
  BY <1>1
<1> HIDE DEF s
<1>2. /\ \A b \in Places(i) : ix[b] \in 1..n /\ s[ix[b]] = At(i, b)
      /\ \A q \in 1..n : \E b \in Places(i) : ix[b] = q
      /\ \A b, d \in Places(i) : Before(b, d) <=> ix[b] < ix[d]
      /\ \A b, d \in Places(i) : ix[b] = ix[d] => b = d
  BY DEF Numbers, s
<1>3. ASSUME Final(i, a), NEW q \in 1..n, q > ix[a] PROVE s[q].name # s[ix[a]].name
  <2>1. PICK b \in Places(i) : ix[b] = q
    BY <1>2
  <2>2. Before(a, b) /\ s[q] = At(i, b) /\ s[ix[a]] = At(i, a)
    BY <2>1, <1>2, <1>3
  <2>3. ~(At(i, b).refined /\ At(i, b).name = At(i, a).name)
    BY <2>2, <1>3 DEF Final
  <2>4. s[q].name = s[ix[a]].name => s[q].refined
    BY <1>0, <1>2, <1>3 DEF Once
  <2> QED
    BY <2>2, <2>3, <2>4
<1>4. ASSUME Latest(s, n, ix[a]) PROVE Final(i, a)
  <2> SUFFICES ASSUME NEW b \in Places(i), Before(a, b), At(i, b).name = At(i, a).name PROVE FALSE
    BY DEF Final
  <2>1. ix[b] \in 1..n /\ ix[b] > ix[a] /\ s[ix[b]].name = s[ix[a]].name
    BY <1>2
  <2> QED
    BY <2>1, <1>4 DEF Latest
<1>5. Final(i, a) <=> Latest(s, n, ix[a])
  BY <1>3, <1>4 DEF Latest
<1>6. CASE N = {}
  <2>1. NamedClass(i, a) = At(i, a).cls /\ At(i, a) = s[ix[a]] /\ ix[a] \in 1..n
    BY <1>2, <1>6 DEF NamedClass
  <2>2. At(i, a).cls \in Classifier
    BY <2>1, <1>0 DEF Subcomponent
  <2>3. \A b \in Places(i) : At(i, b).name = At(i, a).name => At(i, b).cls.kind = "none"
    BY <1>6 DEF Naming
  <2>4. ASSUME NEW q \in 1..n, s[q].name = At(i, a).name PROVE s[q].cls.kind = "none"
    <3>1. PICK b \in Places(i) : ix[b] = q
      BY <1>2
    <3> QED
      BY <3>1, <2>3, <2>4, <1>2
  <2>5. At(i, a).cls.kind = "none"
    BY <2>3
  <2>6. LastClass(s, n, At(i, a).name, NamedClass(i, a))
    BY <2>1, <2>4, <2>5 DEF LastClass
  <2> QED
    BY <2>1, <2>2, <2>6, <1>5 DEF s
<1>7. CASE N # {}
  <2> DEFINE S == {ix[b] : b \in N}
  <2>1. \A b \in N : b \in Places(i) /\ At(i, b).name = At(i, a).name /\ At(i, b).cls.kind # "none"
    BY DEF Naming
  <2>2. S \in SUBSET (1..(n + 1)) /\ S # {}
    BY <2>1, <1>1, <1>2, <1>7
  <2>3. Max(S) \in S /\ \A y \in S : Max(S) >= y
    BY ONLY <2>2, <1>1, LargestOf
  <2>4. PICK e \in N : Max(S) = ix[e]
    BY <2>3
  <2>5. ASSUME NEW b \in N PROVE b = e \/ Before(b, e)
    <3>1. ix[e] >= ix[b] /\ ix[e] \in Int /\ ix[b] \in Int
      BY <2>1, <2>3, <2>4, <1>2
    <3>2. ix[b] = ix[e] \/ ix[b] < ix[e]
      BY ONLY <3>1
    <3> QED
      BY <3>2, <2>1, <1>2
  <2> DEFINE d == CHOOSE b \in N : IsLast(i, a, b)
  <2>6. d \in N /\ IsLast(i, a, d)
    BY <2>5 DEF IsLast
  <2>7. NamedClass(i, a) = At(i, d).cls
    BY <1>7 DEF NamedClass
  <2> HIDE DEF d
  <2>8. /\ ix[d] \in 1..n /\ s[ix[d]] = At(i, d) /\ At(i, d) \in Subcomponent
        /\ At(i, d).name = At(i, a).name /\ At(i, d).cls.kind # "none"
    BY <2>1, <2>6, <1>0, <1>2
  <2>9. ASSUME NEW q \in 1..n, q > ix[d], s[q].name = At(i, a).name PROVE s[q].cls.kind = "none"
    <3>1. PICK b \in Places(i) : ix[b] = q
      BY <1>2
    <3>2. s[q] = At(i, b) /\ Before(d, b) /\ ~Before(b, d) /\ b # d
      <4>1. d \in Places(i) /\ ix[d] \in Int /\ ix[b] \in Int
        BY <2>1, <2>6, <1>2
      <4>2. ix[d] < ix[b] /\ ~(ix[b] < ix[d])
        BY ONLY <4>1, <3>1, <2>9
      <4> QED
        BY <4>1, <4>2, <3>1, <1>2
    <3>3. b \notin N
      BY <3>2, <2>6 DEF IsLast
    <3> QED
      BY <3>2, <3>3, <2>9 DEF Naming
  <2>10. LastClass(s, n, At(i, a).name, At(i, d).cls)
    BY <2>8, <2>9 DEF LastClass
  <2>11. At(i, d).cls \in Classifier
    BY <2>8 DEF Subcomponent
  <2> QED
    BY <2>7, <2>10, <2>11, <1>5 DEF s
<1> QED
  BY <1>6, <1>7

(* Visible and collect_impl_chain agree. *)
Matches(v, t) == v.sub.name = t.name /\ v.sub.dim = t.dim /\ v.cls = t.cls

(* Where names are declared once, collect_impl_chain returns what is     *)
(* visible: each name once, the last declaration with the last           *)
(* classifier named for it.                                              *)
LEMMA VisibleMatches ==
    ASSUME decl \in [Impls -> Implementation], NEW i \in Impls, Once(Listed(i))
    PROVE  /\ AllSubs(i) \in Seq(Subcomponent)
           /\ \A x, y \in 1..Len(AllSubs(i)) : AllSubs(i)[x].name = AllSubs(i)[y].name => x = y
           /\ \A x \in 1..Len(AllSubs(i)) : \E v \in Visible(i) : Matches(v, AllSubs(i)[x])
           /\ \A v \in Visible(i) : \E x \in 1..Len(AllSubs(i)) : Matches(v, AllSubs(i)[x])
<1> DEFINE s == Listed(i)
           n == Len(s)
           r == AllSubs(i)
           V(a) == [sub |-> At(i, a), cls |-> NamedClass(i, a)]
<1>1. s \in Seq(Subcomponent) /\ n \in Nat
  BY ListedIs
<1>2. Gathered(s, n, r)
  BY AllGathered
<1>3. PICK ix : Numbers(i, ix)
  BY NumbersExist
<1>4. \A a \in Places(i) : /\ Final(i, a) <=> Latest(s, n, ix[a])
                           /\ NamedClass(i, a) \in Classifier
                           /\ LastClass(s, n, At(i, a).name, NamedClass(i, a))
  BY <1>3, SeenAt
<1>5. /\ \A b \in Places(i) : ix[b] \in 1..n /\ s[ix[b]] = At(i, b)
      /\ \A q \in 1..n : \E b \in Places(i) : ix[b] = q
  BY <1>3 DEF Numbers
<1>6. \A v : v \in Visible(i) <=> \E a \in Places(i) : Final(i, a) /\ v = V(a)
  <2>1. Visible(i) = {V(a) : a \in {b \in Places(i) : Final(i, b)}}
    BY VisibleAt
  <2> HIDE DEF V
  <2> QED
    BY ONLY <2>1
<1>7. \A a : V(a).sub = At(i, a) /\ V(a).cls = NamedClass(i, a)
  OBVIOUS
<1> HIDE DEF s, r, V
<1>8. /\ r \in Seq(Subcomponent) /\ Len(r) \in Nat
      /\ \A x, y \in 1..Len(r) : r[x].name = r[y].name => x = y
      /\ \A x \in 1..Len(r) : \E q \in 1..n : s[q].name = r[x].name /\ s[q].dim = r[x].dim /\ Latest(s, n, q)
      /\ \A x \in 1..Len(r) : LastClass(s, n, r[x].name, r[x].cls)
      /\ \A q \in 1..n : \E x \in 1..Len(r) : r[x].name = s[q].name
  <2>1. Keeps(s, n, r) /\ \A q \in 1..n : \E x \in 1..Len(r) : r[x].name = s[q].name
    BY <1>2 DEF Gathered
  <2>2. r \in Seq(Subcomponent)
    BY <2>1 DEF Keeps
  <2> QED
    BY <2>1, <2>2 DEF Keeps
<1>9. \A x \in 1..Len(r) : r[x].cls \in Classifier
  <2> TAKE x \in 1..Len(r)
  <2>1. r[x] \in Subcomponent
    BY ONLY <1>8, x \in 1..Len(r)
  <2> QED
    BY ONLY <2>1 DEF Subcomponent
<1>10. ASSUME NEW x \in 1..Len(r), NEW a \in Places(i), At(i, a).name = r[x].name, At(i, a).dim = r[x].dim
       PROVE  Matches(V(a), r[x])
  <2>1. LastClass(s, n, r[x].name, NamedClass(i, a)) /\ LastClass(s, n, r[x].name, r[x].cls)
    BY <1>4, <1>8, <1>10
  <2>2. NamedClass(i, a) = r[x].cls
    BY <2>1, <1>1, <1>4, <1>9, LastClassUnique
  <2> QED
    BY <2>2, <1>7, <1>10 DEF Matches
<1>11. ASSUME NEW x \in 1..Len(r) PROVE \E v \in Visible(i) : Matches(v, r[x])
  <2>1. PICK q \in 1..n : s[q].name = r[x].name /\ s[q].dim = r[x].dim /\ Latest(s, n, q)
    BY <1>8
  <2>2. PICK a \in Places(i) : ix[a] = q
    BY <1>5
  <2>3. Final(i, a) /\ At(i, a) = s[q]
    BY <2>1, <2>2, <1>4, <1>5
  <2>4. Matches(V(a), r[x])
    BY <2>1, <2>3, <1>10
  <2> QED
    BY <2>3, <2>4, <1>6
<1>12. ASSUME NEW v \in Visible(i) PROVE \E x \in 1..Len(r) : Matches(v, r[x])
  <2>1. PICK a \in Places(i) : Final(i, a) /\ v = V(a)
    BY <1>6
  <2> DEFINE q == ix[a]
  <2>2. q \in 1..n /\ s[q] = At(i, a) /\ Latest(s, n, q)
    BY <2>1, <1>4, <1>5
  <2> HIDE DEF q
  <2>3. PICK x \in 1..Len(r) : r[x].name = s[q].name
    BY <2>2, <1>8
  <2>4. PICK b \in 1..n : s[b].name = r[x].name /\ s[b].dim = r[x].dim /\ Latest(s, n, b)
    BY <1>8
  <2>5. b = q
    <3>1. s[b].name = s[q].name
      BY <2>3, <2>4
    <3>2. ~(b > q) /\ ~(q > b)
      BY ONLY <3>1, <2>2, <2>4, b \in 1..n DEF Latest
    <3> QED
      BY <3>2, <2>2, <1>1
  <2>6. Matches(V(a), r[x])
    BY <2>2, <2>3, <2>4, <2>5, <1>10
  <2> QED
    BY <2>1, <2>6
<1> QED
  BY <1>8, <1>11, <1>12 DEF r

(* The elements an implementation asks for are those that are built. *)
Wanted(r) == {Element(r[p[1]], p[2]) : p \in Placed(r, Len(r) + 1, 0)}

(* A call that is past its last subcomponent has placed every element of *)
(* every one.                                                            *)
LEMMA PlacedAll ==
    ASSUME NEW r, Len(r) \in Nat, NEW p
    PROVE  p \in Placed(r, Len(r) + 1, 0) <=>
            \E x \in 1..Len(r) : \E e \in 1..ElementCount(r[x]) : p = <<x, e>>
<1>1. ASSUME p \in Placed(r, Len(r) + 1, 0)
      PROVE  \E x \in 1..Len(r) : \E e \in 1..ElementCount(r[x]) : p = <<x, e>>
  <2>1. p \in (1..Len(r)) \X (Nat \ {0}) /\ p[2] <= ElementCount(r[p[1]])
    BY <1>1 DEF Placed
  <2>2. p[1] \in 1..Len(r) /\ p[2] \in Nat \ {0} /\ p = <<p[1], p[2]>>
    BY <2>1
  <2>3. p[2] \in 1..ElementCount(r[p[1]])
    BY <2>1, <2>2, CountIs
  <2> QED
    BY <2>2, <2>3
<1>2. ASSUME NEW x \in 1..Len(r), NEW e \in 1..ElementCount(r[x]), p = <<x, e>>
      PROVE  p \in Placed(r, Len(r) + 1, 0)
  <2>1. ElementCount(r[x]) \in Nat
    BY CountIs
  <2>2. e \in Nat \ {0} /\ e <= ElementCount(r[x]) /\ x < Len(r) + 1
    BY <2>1
  <2>3. p[1] = x /\ p[2] = e /\ p \in (1..Len(r)) \X (Nat \ {0})
    BY <1>2, <2>2
  <2> QED
    BY <2>2, <2>3 DEF Placed
<1> QED
  BY <1>1, <1>2

(* The children expected of an implementation are the elements of what   *)
(* collect_impl_chain returns.                                           *)
LEMMA ExpectedIs ==
    ASSUME decl \in [Impls -> Implementation], NEW i \in Impls, Once(Listed(i))
    PROVE  ExpectedChildren(i) = Wanted(AllSubs(i))
<1> DEFINE r == AllSubs(i)
           Chosen(v) == IF v.sub.dim = NoDim THEN {0} ELSE 1..ElementCount(v.sub)
           Child(v, e) == [name |-> v.sub.name, cls |-> v.cls, elem |-> e]
<1>1. /\ r \in Seq(Subcomponent)
      /\ \A x \in 1..Len(r) : \E v \in Visible(i) : Matches(v, r[x])
      /\ \A v \in Visible(i) : \E x \in 1..Len(r) : Matches(v, r[x])
  BY VisibleMatches
<1>2. Len(r) \in Nat
  BY <1>1
<1>3. ASSUME NEW z PROVE z \in ExpectedChildren(i) <=> \E v \in Visible(i) : \E e \in Chosen(v) : z = Child(v, e)
  <2>1. ExpectedChildren(i) = UNION {{Child(v, e) : e \in Chosen(v)} : v \in Visible(i)}
    BY DEF ExpectedChildren
  <2> HIDE DEF Child, Chosen
  <2> QED
    BY ONLY <2>1
<1> HIDE DEF r
<1>4. ASSUME NEW z PROVE z \in Wanted(r) <=> \E x \in 1..Len(r) : \E e \in 1..ElementCount(r[x]) : z = Element(r[x], e)
  <2>1. z \in Wanted(r) <=> \E p \in Placed(r, Len(r) + 1, 0) : z = Element(r[p[1]], p[2])
    BY DEF Wanted
  <2>2. ASSUME NEW x \in 1..Len(r), NEW e \in 1..ElementCount(r[x]), z = Element(r[x], e)
        PROVE  \E p \in Placed(r, Len(r) + 1, 0) : z = Element(r[p[1]], p[2])
    <3> DEFINE p == <<x, e>>
    <3>1. p \in Placed(r, Len(r) + 1, 0) /\ p[1] = x /\ p[2] = e
      BY <1>2, PlacedAll
    <3> QED
      BY <3>1, <2>2
  <2>3. ASSUME NEW p \in Placed(r, Len(r) + 1, 0), z = Element(r[p[1]], p[2])
        PROVE  \E x \in 1..Len(r) : \E e \in 1..ElementCount(r[x]) : z = Element(r[x], e)
    <3>0. \E x \in 1..Len(r) : \E e \in 1..ElementCount(r[x]) : p = <<x, e>>
      BY ONLY <2>3, <1>2, PlacedAll
    <3>1. PICK x \in 1..Len(r) : \E e \in 1..ElementCount(r[x]) : p = <<x, e>>
      BY <3>0
    <3>2. PICK e \in 1..ElementCount(r[x]) : p = <<x, e>>
      BY <3>1
    <3>3. p[1] = x /\ p[2] = e
      BY <3>2
    <3> QED
      BY <3>3, <2>3
  <2> QED
    BY <2>1, <2>2, <2>3
<1>5. ASSUME NEW v, NEW t, Matches(v, t), NEW z
      PROVE  (\E e \in Chosen(v) : z = Child(v, e)) <=> (\E e \in 1..ElementCount(t) : z = Element(t, e))
  <2>1. ElementCount(v.sub) = ElementCount(t) /\ ElementCount(t) \in Nat \ {0}
    BY <1>5, CountIs DEF Matches, ElementCount
  <2>2. \A e : Child(v, e) = [name |-> t.name, cls |-> t.cls, elem |-> e]
    BY <1>5 DEF Matches
  <2>3. CASE t.dim = NoDim
    <3>1. Chosen(v) = {0} /\ 1 \in 1..ElementCount(t)
      BY <1>5, <2>1, <2>3 DEF Matches
    <3>2. \A e : Element(t, e) = Child(v, 0)
      BY <2>2, <2>3 DEF Element
    <3> HIDE DEF Chosen, Child
    <3> QED
      BY <3>1, <3>2
  <2>4. CASE t.dim # NoDim
    <3>1. Chosen(v) = 1..ElementCount(t)
      BY <1>5, <2>1, <2>4 DEF Matches
    <3>2. \A e : Element(t, e) = Child(v, e)
      BY <2>2, <2>4 DEF Element
    <3> HIDE DEF Chosen, Child
    <3> QED
      BY <3>1, <3>2
  <2> QED
    BY <2>3, <2>4
<1> HIDE DEF Chosen, Child
<1>6. ASSUME NEW z PROVE z \in ExpectedChildren(i) <=> z \in Wanted(r)
  <2>1. ASSUME z \in ExpectedChildren(i) PROVE z \in Wanted(r)
    <3>1. PICK v \in Visible(i) : \E e \in Chosen(v) : z = Child(v, e)
      BY <2>1, <1>3
    <3>2. PICK x \in 1..Len(r) : Matches(v, r[x])
      BY <1>1
    <3>3. \E e \in 1..ElementCount(r[x]) : z = Element(r[x], e)
      BY <3>1, <3>2, <1>5
    <3> QED
      BY <3>3, <1>4
  <2>2. ASSUME z \in Wanted(r) PROVE z \in ExpectedChildren(i)
    <3>1. PICK x \in 1..Len(r) : \E e \in 1..ElementCount(r[x]) : z = Element(r[x], e)
      BY <2>2, <1>4
    <3>2. PICK v \in Visible(i) : Matches(v, r[x])
      BY <1>1
    <3>3. \E e \in Chosen(v) : z = Child(v, e)
      BY <3>1, <3>2, <1>5
    <3> QED
      BY <3>3, <1>3
  <2> QED
    BY <2>1, <2>2
<1> QED
  BY <1>6 DEF r

(* Different elements are different children. *)
LEMMA ElementsDiffer ==
    ASSUME NEW r, Len(r) \in Nat, \A x, y \in 1..Len(r) : r[x].name = r[y].name => x = y,
           NEW p \in Placed(r, Len(r) + 1, 0), NEW q \in Placed(r, Len(r) + 1, 0),
           Element(r[p[1]], p[2]) = Element(r[q[1]], q[2])
    PROVE  p = q
<1>0. /\ \E x \in 1..Len(r) : \E e \in 1..ElementCount(r[x]) : p = <<x, e>>
      /\ \E x \in 1..Len(r) : \E e \in 1..ElementCount(r[x]) : q = <<x, e>>
  BY PlacedAll
<1>1. PICK x \in 1..Len(r) : \E e \in 1..ElementCount(r[x]) : p = <<x, e>>
  BY <1>0
<1>2. PICK e \in 1..ElementCount(r[x]) : p = <<x, e>>
  BY <1>1
<1>3. PICK y \in 1..Len(r) : \E g \in 1..ElementCount(r[y]) : q = <<y, g>>
  BY <1>0
<1>4. PICK g \in 1..ElementCount(r[y]) : q = <<y, g>>
  BY <1>3
<1>5. Element(r[x], e) = Element(r[y], g)
  BY <1>2, <1>4
<1>6. r[x].name = r[y].name
  BY <1>5 DEF Element
<1>7. x = y
  BY <1>6
<1>8. e = g
  <2>1. CASE r[x].dim = NoDim
    <3>1. ElementCount(r[x]) = 1 /\ ElementCount(r[y]) = 1
      BY <2>1, <1>7, InstanceAssumption DEF ElementCount
    <3> QED
      BY <3>1
  <2>2. CASE r[x].dim # NoDim
    BY <2>2, <1>5, <1>7 DEF Element
  <2> QED
    BY <2>1, <2>2
<1> QED
  BY <1>2, <1>4, <1>7, <1>8

(* The recursion of Level. *)
IsLevel(cs, g) == g = [c \in DOMAIN cs |-> IF cs[c].parent = 0 THEN 0 ELSE g[cs[c].parent] + 1]

(* Level is the depth a component was allocated at. *)
LEMMA LevelIs ==
    ASSUME NEW cs \in Seq(Component), NEW lv, Levels(cs, lv), NEW g, IsLevel(cs, g)
    PROVE  \A c \in 1..Len(cs) : g[c] = lv[c]
<1> DEFINE n == Len(cs)
           T == {k \in Nat : \A c \in 1..n : c <= k => g[c] = lv[c]}
<1>1. n \in Nat /\ DOMAIN cs = 1..n
  OBVIOUS
<1>2. \A c \in 1..n : g[c] = IF cs[c].parent = 0 THEN 0 ELSE g[cs[c].parent] + 1
  BY <1>1 DEF IsLevel
<1>3. 0 \in T
  BY <1>1
<1>4. ASSUME NEW k \in Nat, k \in T PROVE k + 1 \in T
  <2> SUFFICES ASSUME NEW c \in 1..n, c = k + 1 PROVE g[c] = lv[c]
    BY <1>4, <1>1
  <2> DEFINE p == cs[c].parent
  <2>1. p \in 0..(c - 1) /\ lv[c] = IF p = 0 THEN 0 ELSE lv[p] + 1
    BY DEF Levels
  <2>2. g[c] = IF p = 0 THEN 0 ELSE g[p] + 1
    BY <1>2
  <2> HIDE DEF p
  <2>3. p # 0 => p \in 1..n /\ p <= k
    BY <2>1, <1>1
  <2>4. p # 0 => g[p] = lv[p]
    BY <2>3, <1>4
  <2> QED
    BY ONLY <2>1, <2>2, <2>4
<1> HIDE DEF T
<1>5. \A k \in Nat : k \in T
  BY <1>3, <1>4, ClosedUnderSuccessor
<1>6. n \in T
  BY <1>1, <1>5
<1> QED
  BY <1>6, <1>1 DEF T

(* The recursion of Level has a solution. *)
LEMMA LevelExists ==
    ASSUME NEW cs \in Seq(Component), NEW lv, Levels(cs, lv)
    PROVE  \E g : IsLevel(cs, g)
<1> DEFINE n == Len(cs)
           g == [c \in 1..n |-> lv[c]]
<1>1. n \in Nat /\ DOMAIN cs = 1..n
  OBVIOUS
<1>2. ASSUME NEW c \in 1..n PROVE g[c] = IF cs[c].parent = 0 THEN 0 ELSE g[cs[c].parent] + 1
  <2> DEFINE p == cs[c].parent
  <2>1. p \in 0..(c - 1) /\ lv[c] = IF p = 0 THEN 0 ELSE lv[p] + 1
    BY DEF Levels
  <2> HIDE DEF p
  <2>2. p # 0 => p \in 1..n
    BY <2>1, <1>1
  <2>3. g[c] = lv[c] /\ (p # 0 => g[p] = lv[p])
    BY <2>2
  <2> QED
    BY <2>1, <2>3 DEF p
<1>3. IsLevel(cs, g)
  BY <1>1, <1>2 DEF IsLevel
<1> QED
  BY <1>3

(* The level of a component of the arena. *)
LEMMA LevelAt ==
    ASSUME components \in Seq(Component), NEW lv, Levels(components, lv)
    PROVE  \A c \in 1..Len(components) : Level[c] = lv[c]
<1> DEFINE g == CHOOSE h : IsLevel(components, h)
<1>1. IsLevel(components, g)
  BY LevelExists
<1>2. Level = g
  BY DEF Level, IsLevel
<1> HIDE DEF g
<1> QED
  BY <1>1, <1>2, LevelIs

(* What a finished component has below it. *)
LEMMA FinishedUnfolds ==
    ASSUME components \in Seq(Component), NEW c \in 1..Len(components), NEW r,
           r \in Seq(Subcomponent), \A x, y \in 1..Len(r) : r[x].name = r[y].name => x = y,
           Kids(components, components[c].children, c),
           Builds(components, components[c].children, r, Len(r) + 1, 0)
    PROVE  /\ ActualChildren(c) = Wanted(r)
           /\ Cardinality(ActualChildren(c)) = Len(components[c].children)
<1> DEFINE s == components[c].children
           n == Len(s)
           P == Placed(r, Len(r) + 1, 0)
           t == [q \in 1..n |-> Rec(components, s[q])]
<1>1. PICK w : Assigns(components, s, r, P, w)
  BY DEF Builds
<1>2. /\ \A q \in 1..n : w[q] \in P /\ Rec(components, s[q]) = Element(r[w[q][1]], w[q][2])
      /\ \A q, u \in 1..n : w[q] = w[u] => q = u
      /\ \A p \in P : \E q \in 1..n : w[q] = p
  BY <1>1 DEF Assigns
<1>3. s \in Seq(1..Len(components)) /\ n \in Nat /\ DOMAIN s = 1..n
  BY DEF Kids
<1>4. ActualChildren(c) = {Rec(components, k) : k \in ToSet(s)}
  BY DEF ActualChildren, Rec
<1>5. ToSet(s) = {s[q] : q \in 1..n}
  BY <1>3 DEF ToSet
<1> HIDE DEF s, P
<1>6. \A q \in 1..n : t[q] = Rec(components, s[q])
  OBVIOUS
<1>7. t \in Seq({t[q] : q \in 1..n}) /\ Len(t) = n
  BY <1>3, SMTT(30)
<1> HIDE DEF t
<1>8. ToSet(t) = {t[q] : q \in 1..n}
  BY <1>3, <1>7 DEF ToSet
<1>9. ASSUME NEW z PROVE z \in ActualChildren(c) <=> \E q \in 1..n : z = t[q]
  BY ONLY <1>4, <1>5, <1>6
<1>10. ASSUME NEW z PROVE z \in Wanted(r) <=> \E p \in P : z = Element(r[p[1]], p[2])
  BY DEF Wanted, P
<1>11. ASSUME NEW q \in 1..n PROVE t[q] = Element(r[w[q][1]], w[q][2]) /\ w[q] \in P
  BY <1>2, <1>6
<1>12. ActualChildren(c) = Wanted(r)
  <2>1. ASSUME NEW z, z \in ActualChildren(c) PROVE z \in Wanted(r)
    <3>1. PICK q \in 1..n : z = t[q]
      BY <2>1, <1>9
    <3> QED
      BY <3>1, <1>10, <1>11
  <2>2. ASSUME NEW z, z \in Wanted(r) PROVE z \in ActualChildren(c)
    <3>1. PICK p \in P : z = Element(r[p[1]], p[2])
      BY <2>2, <1>10
    <3>2. PICK q \in 1..n : w[q] = p
      BY <1>2
    <3> QED
      BY <3>1, <3>2, <1>9, <1>11
  <2> QED
    BY <2>1, <2>2
<1>13. ASSUME NEW q \in 1..n, NEW u \in 1..n, t[q] = t[u] PROVE q = u
  <2> DEFINE a == w[q]
             b == w[u]
  <2>1. a \in P /\ b \in P /\ Element(r[a[1]], a[2]) = Element(r[b[1]], b[2])
    BY <1>11, <1>13
  <2> HIDE DEF a, b
  <2>2. Len(r) \in Nat
    OBVIOUS
  <2>3. a = b
    BY <2>1, <2>2, ElementsDiffer DEF P
  <2> QED
    BY <2>3, <1>2 DEF a, b
<1>14. Cardinality(ToSet(t)) = Len(t)
  BY <1>7, <1>13, CountOnce
<1>15. ToSet(t) = ActualChildren(c)
  BY <1>8, <1>9
<1> QED
  BY <1>7, <1>12, <1>14, <1>15 DEF s

(* No implementation declares a name twice along its extends chain, except   *)
(* to refine it.                                                             *)
NamesDeclaredOnce == \A i \in Impls : Once(Listed(i))

(* With no call pending the tree under construction is the unfolding. *)
LEMMA DoneUnfolds ==
    ASSUME BuildInv, NamesDeclaredOnce
    PROVE  UnfoldsRoot
<1> SUFFICES ASSUME phase = "done" PROVE UnfoldsRoot
  BY DEF UnfoldsRoot
<1>1. /\ decl \in [Impls -> Implementation] /\ chains = [i \in Impls |-> ImplChain(i)]
      /\ components \in Seq(Component) /\ frames = << >> /\ components # << >>
  BY DEF BuildInv, BuildType, Phases
<1>2. Unfolding(chains, components, frames, diagnostics)
  BY <1>1 DEF BuildInv
<1>3. PICK lv : TreeOf(chains, components, frames, lv)
  BY <1>2 DEF Unfolding
<1>4. Levels(components, lv)
  BY <1>3 DEF TreeOf
<1>5. \A c \in 1..Len(components) : Finished(chains, components, lv, c)
  <2>1. 1..Len(frames) = {}
    BY <1>1
  <2> QED
    BY <2>1, <1>3 DEF TreeOf
<1>6. DOMAIN components = 1..Len(components)
  BY <1>1
<1>7. ASSUME NEW c \in 1..Len(components)
      PROVE  /\ ToSet(components[c].children) = {k \in DOMAIN components : components[k].parent = c}
             /\ Cardinality(ToSet(components[c].children)) = Len(components[c].children)
             /\ ActualChildren(c) =
                 IF components[c].cls.kind = "impl" /\ Level[c] < MaxDepth
                 THEN ExpectedChildren(components[c].cls.of) ELSE {}
             /\ Cardinality(ActualChildren(c)) = Len(components[c].children)
  <2> DEFINE s == components[c].children
             i == components[c].cls.of
             deep == components[c].cls.kind = "impl" /\ lv[c] < MaxDepth
  <2>1. Kids(components, s, c)
    BY <1>5 DEF Finished
  <2>2. Level[c] = lv[c]
    BY <1>1, <1>4, LevelAt
  <2>3. s \in Seq(1..Len(components)) /\ DOMAIN s = 1..Len(s) /\ Len(s) \in Nat
    BY <2>1 DEF Kids
  <2>4. ToSet(s) = {s[q] : q \in 1..Len(s)}
    BY <2>3 DEF ToSet
  <2>5. ToSet(s) = {k \in DOMAIN components : components[k].parent = c}
    <3> HIDE DEF s
    <3>1. ASSUME NEW k PROVE k \in ToSet(s) <=> \E q \in 1..Len(s) : s[q] = k
      BY ONLY <2>4
    <3>2. \A q \in 1..Len(s) : s[q] \in 1..Len(components)
      BY <2>3
    <3>3. ASSUME NEW k \in 1..Len(components) PROVE components[k].parent = c <=> \E q \in 1..Len(s) : s[q] = k
      BY <2>1 DEF Kids
    <3> QED
      BY ONLY <3>1, <3>2, <3>3, <1>6
  <2>6. Cardinality(ToSet(s)) = Len(s)
    <3> HIDE DEF s
    <3>1. \A a, b \in 1..Len(s) : s[a] = s[b] => a = b
      BY <2>1 DEF Kids
    <3> QED
      BY ONLY <3>1, <2>3, CountOnce
  <2>7. CASE deep
    <3>0. components[c] \in Component
      BY <1>1
    <3>1. i \in Impls
      <4>1. components[c].cls \in Classifier
        BY <3>0 DEF Component
      <4> QED
        BY <4>1, <2>7, ImplIs
    <3>2. SubsOf(chains, components, c) = AllSubs(i)
      BY <3>1, <1>1 DEF SubsOf, ImplChain
    <3>3. Builds(components, s, AllSubs(i), Len(AllSubs(i)) + 1, 0)
      BY <3>2, <2>7, <1>5 DEF Finished
    <3>4. Once(Listed(i))
      BY <3>1 DEF NamesDeclaredOnce
    <3> HIDE DEF i
    <3>5. /\ AllSubs(i) \in Seq(Subcomponent)
          /\ \A x, y \in 1..Len(AllSubs(i)) : AllSubs(i)[x].name = AllSubs(i)[y].name => x = y
      BY <3>1, <3>4, <1>1, VisibleMatches
    <3>6. ActualChildren(c) = Wanted(AllSubs(i)) /\ Cardinality(ActualChildren(c)) = Len(s)
      BY <3>3, <3>5, <2>1, <1>1, FinishedUnfolds
    <3>7. ExpectedChildren(i) = Wanted(AllSubs(i))
      BY <3>1, <3>4, <1>1, ExpectedIs
    <3>8. ActualChildren(c) = IF components[c].cls.kind = "impl" /\ Level[c] < MaxDepth THEN ExpectedChildren(i) ELSE {}
      BY ONLY <3>6, <3>7, <2>2, <2>7
    <3> QED
      BY <3>6, <3>8, <2>5, <2>6 DEF i
  <2>8. CASE ~deep
    <3>1. s = << >>
      BY <2>8, <1>5 DEF Finished
    <3>2. ToSet(s) = {} /\ Len(s) = 0
      BY <3>1, <2>4
    <3>3. ActualChildren(c) = {}
      BY <3>2 DEF ActualChildren
    <3>4. Cardinality({}) = 0
      BY FS_EmptySet
    <3>5. ~(components[c].cls.kind = "impl" /\ Level[c] < MaxDepth)
      BY <2>2, <2>8
    <3> QED
      BY <3>2, <3>3, <3>4, <3>5, <2>5, <2>6
  <2> QED
    BY <2>7, <2>8
<1> QED
  BY <1>6, <1>7 DEF UnfoldsRoot

(* The declarations along a chain do not change. *)
LEMMA ListedSame ==
    ASSUME NEW i, decl' = decl
    PROVE  Listed(i)' = Listed(i)
<1>1. Chain(i)' = Chain(i)
  BY DEF Chain
<1> QED
  BY <1>1 DEF Listed

(* UnfoldsRoot, for every set of declarations in which a name is         *)
(* declared once along an extends chain unless to refine it: when the    *)
(* builder returns, the arena is the unfolding of the root down to       *)
(* max_depth (instance.rs, Builder::instantiate_component and            *)
(* collect_impl_chain).                                                  *)
THEOREM UnfoldsAlways == Spec /\ NamesDeclaredOnce => []UnfoldsRoot
<1>1. Init => DetectInv /\ BuildInv
  BY InitDetect, InitBuild
<1>2. ASSUME NamesDeclaredOnce, decl' = decl PROVE NamesDeclaredOnce'
  BY <1>2, ListedSame DEF NamesDeclaredOnce, Once
<1>3. [Next]_vars => decl' = decl
  BY DEF Next, vars, input, DfsSkip, DfsCycle, DfsEnter, DfsLeave, InstantiateRoot, InstantiateChild,
         FinishComponent, StartSoms, ExtendSoms, FinishSoms, Done
<1>4. (DetectInv /\ BuildInv /\ NamesDeclaredOnce) /\ [Next]_vars => (DetectInv /\ BuildInv /\ NamesDeclaredOnce)'
  BY <1>2, <1>3, DetectStep, BuildStep
<1>5. BuildInv /\ NamesDeclaredOnce => UnfoldsRoot
  BY DoneUnfolds
<1> QED
  BY <1>1, <1>4, <1>5, PTL DEF Spec

--------------------------------------------------------------------------------
(* Recursion and the depth limit                                           *)

(* Below an implementation above the limit there is exactly what it          *)
(* unfolds to.                                                               *)
Descends(cs, lv) ==
    /\ \A k \in 1..Len(cs) : cs[k].cls.kind = "impl" /\ cs[k].parent # 0 =>
        LET p == cs[k].parent IN
        p \in 1..(k - 1) /\ cs[p].cls.kind = "impl" /\ UnfoldsTo(cs[p].cls.of, cs[k].cls.of)
    /\ \A c \in 1..Len(cs) : \A j \in Impls :
        cs[c].cls.kind = "impl" /\ lv[c] < MaxDepth /\ UnfoldsTo(cs[c].cls.of, j) =>
            \E k \in 1..Len(cs) : k > c /\ cs[k].cls.kind = "impl" /\ cs[k].cls.of = j

(* UnfoldsTo, subcomponent by subcomponent. *)
LEMMA UnfoldsToIs ==
    ASSUME chains \in [Impls -> Inherited], NEW i \in Impls, NEW j
    PROVE  UnfoldsTo(i, j) <=> \E x \in 1..Len(chains[i].subs) :
                chains[i].subs[x].cls.kind = "impl" /\ chains[i].subs[x].cls.of = j
<1> DEFINE r == chains[i].subs
<1>1. r \in Seq(Subcomponent)
  BY DEF Inherited
<1>2. UnfoldsTo(i, j) <=> \E s \in ToSet(r) : s.cls.kind = "impl" /\ s.cls.of = j
  BY DEF UnfoldsTo
<1> HIDE DEF r
<1>3. ToSet(r) = {r[x] : x \in 1..Len(r)}
  BY <1>1 DEF ToSet
<1>4. UnfoldsTo(i, j) <=> \E x \in 1..Len(r) : r[x].cls.kind = "impl" /\ r[x].cls.of = j
  BY ONLY <1>2, <1>3
<1> QED
  BY <1>4 DEF r

(* In the finished tree a component lies below one its implementation    *)
(* expands to it.                                                        *)
LEMMA TreeDescends ==
    ASSUME chains \in [Impls -> Inherited], NEW cs \in Seq(Component), NEW lv,
           Levels(cs, lv), \A c \in 1..Len(cs) : Finished(chains, cs, lv, c)
    PROVE  Descends(cs, lv)
<1>0. \A c \in 1..Len(cs) : cs[c].cls \in Classifier
  <2> TAKE c \in 1..Len(cs)
  <2>1. cs[c] \in Component
    OBVIOUS
  <2> QED
    BY <2>1 DEF Component
<1>1. ASSUME NEW k \in 1..Len(cs), cs[k].cls.kind = "impl", cs[k].parent # 0, NEW p, p = cs[k].parent
      PROVE  p \in 1..(k - 1) /\ cs[p].cls.kind = "impl" /\ UnfoldsTo(cs[p].cls.of, cs[k].cls.of)
  <2> DEFINE s == cs[p].children
             r == SubsOf(chains, cs, p)
  <2>1. p \in 1..(k - 1) /\ p \in 1..Len(cs)
    BY <1>1 DEF Levels
  <2>2. Kids(cs, s, p) /\ (s # << >> => cs[p].cls.kind = "impl" /\ Builds(cs, s, r, Len(r) + 1, 0))
    BY <2>1 DEF Finished
  <2> HIDE DEF s
  <2>3. PICK q \in 1..Len(s) : s[q] = k
    BY <2>2, <1>1 DEF Kids
  <2>4. s # << >>
    BY <2>3
  <2>5. cs[p].cls.of \in Impls
    BY <2>1, <2>2, <2>4, <1>0, ImplIs
  <2>6. r = chains[cs[p].cls.of].subs /\ r \in Seq(Subcomponent)
    BY <2>5 DEF SubsOf, Inherited
  <2> HIDE DEF r
  <2>7. PICK w : Assigns(cs, s, r, Placed(r, Len(r) + 1, 0), w)
    BY <2>2, <2>4 DEF Builds
  <2> DEFINE a == w[q]
  <2>8. a \in Placed(r, Len(r) + 1, 0) /\ Rec(cs, k) = Element(r[a[1]], a[2])
    BY <2>3, <2>7 DEF Assigns
  <2> HIDE DEF a
  <2>9. a[1] \in 1..Len(r)
    BY <2>8 DEF Placed
  <2>10. r[a[1]].cls = cs[k].cls
    BY <2>8 DEF Rec, Element
  <2>11. \E x \in 1..Len(r) : r[x].cls.kind = "impl" /\ r[x].cls.of = cs[k].cls.of
    BY <2>9, <2>10, <1>1
  <2>12. UnfoldsTo(cs[p].cls.of, cs[k].cls.of)
    BY <2>5, <2>6, <2>11, UnfoldsToIs
  <2> QED
    BY <2>1, <2>2, <2>4, <2>12
<1>2. ASSUME NEW c \in 1..Len(cs), NEW j \in Impls, cs[c].cls.kind = "impl", lv[c] < MaxDepth,
             UnfoldsTo(cs[c].cls.of, j)
      PROVE  \E k \in 1..Len(cs) : k > c /\ cs[k].cls.kind = "impl" /\ cs[k].cls.of = j
  <2> DEFINE s == cs[c].children
             r == SubsOf(chains, cs, c)
  <2>1. Kids(cs, s, c) /\ Builds(cs, s, r, Len(r) + 1, 0)
    BY <1>2 DEF Finished
  <2>2. cs[c].cls.of \in Impls
    BY <1>0, <1>2, ImplIs
  <2>3. r = chains[cs[c].cls.of].subs /\ r \in Seq(Subcomponent)
    BY <2>2 DEF SubsOf, Inherited
  <2> HIDE DEF s, r
  <2>4. PICK x \in 1..Len(r) : r[x].cls.kind = "impl" /\ r[x].cls.of = j
    <3>1. \E x \in 1..Len(chains[cs[c].cls.of].subs) :
             chains[cs[c].cls.of].subs[x].cls.kind = "impl" /\ chains[cs[c].cls.of].subs[x].cls.of = j
      <4>1. UnfoldsTo(cs[c].cls.of, j)
        BY <1>2
      <4> QED
        BY ONLY <4>1, <2>2, chains \in [Impls -> Inherited], UnfoldsToIs, Zenon
    <3> QED
      BY ONLY <3>1, <2>3
  <2>5. PICK w : Assigns(cs, s, r, Placed(r, Len(r) + 1, 0), w)
    BY <2>1 DEF Builds
  <2> DEFINE a == <<x, 1>>
  <2>6. a \in Placed(r, Len(r) + 1, 0) /\ a[1] = x /\ a[2] = 1
    <3>1. ElementCount(r[x]) \in Nat \ {0} /\ Len(r) \in Nat
      BY <2>3, CountIs
    <3>2. 1 \in 1..ElementCount(r[x])
      BY <3>1
    <3> QED
      BY <3>1, <3>2, PlacedAll
  <2> HIDE DEF a
  <2>7. PICK q \in 1..Len(s) : w[q] = a
    BY <2>5, <2>6 DEF Assigns
  <2> DEFINE k == s[q]
  <2>8. Rec(cs, k) = Element(r[x], 1)
    BY <2>5, <2>6, <2>7 DEF Assigns
  <2>9. k \in 1..Len(cs) /\ cs[k].parent = c
    <3>1. s[q] \in 1..Len(cs)
      BY <2>1 DEF Kids
    <3> QED
      BY <2>1, <3>1 DEF Kids
  <2> HIDE DEF k
  <2>10. cs[k].cls = r[x].cls
    BY <2>8 DEF Rec, Element
  <2>11. c \in 0..(k - 1)
    BY <2>9 DEF Levels
  <2>12. k > c
    BY <2>9, <2>11
  <2> QED
    BY <2>4, <2>9, <2>10, <2>12
<1> QED
  BY <1>1, <1>2 DEF Descends

(* Without the limit, what has been unfolded is closed and finite, so that   *)
(* nothing in it goes round.                                                 *)
LEMMA UnfoldedFinite ==
    ASSUME NEW cs \in Seq(Component), cs # << >>, cs[1].cls = RootClassifier, NEW lv, Descends(cs, lv),
           \A c \in 1..Len(cs) : cs[c].cls.kind = "impl" => lv[c] < MaxDepth
    PROVE  NoRecursion
<1> DEFINE n == Len(cs)
           V == {i \in Impls : \E c \in 1..n : cs[c].cls.kind = "impl" /\ cs[c].cls.of = i}
<1>1. n \in Nat /\ 1 \in 1..n
  <2>1. n \in Nat /\ n # 0
    OBVIOUS
  <2> QED
    BY <2>1
<1>2. Root \in V
  BY <1>1, RootTyped, InstanceAssumption
<1>3. ASSUME NEW i \in V, NEW j \in Impls, UnfoldsTo(i, j) PROVE j \in V
  <2>1. PICK c \in 1..n : cs[c].cls.kind = "impl" /\ cs[c].cls.of = i
    OBVIOUS
  <2>2. \E k \in 1..n : k > c /\ cs[k].cls.kind = "impl" /\ cs[k].cls.of = j
    BY <2>1, <1>3 DEF Descends
  <2> QED
    BY <2>2
<1>4. ASSUME NEW C \in SUBSET V, C # {} PROVE \E i \in C : \A j \in C : ~UnfoldsTo(i, j)
  <2> DEFINE S == {c \in 1..n : cs[c].cls.kind = "impl" /\ cs[c].cls.of \in C}
  <2>1. S # {} /\ S \in SUBSET (1..(n + 1))
    <3>1. PICK i \in C : TRUE
      BY <1>4
    <3>2. \E c \in 1..n : cs[c].cls.kind = "impl" /\ cs[c].cls.of = i
      OBVIOUS
    <3>3. S # {}
      BY <3>2
    <3> QED
      BY <3>3, <1>1
  <2> DEFINE c == Max(S)
  <2>2. c \in S /\ \A y \in S : c >= y
    BY ONLY <2>1, <1>1, LargestOf
  <2> HIDE DEF c
  <2>3. ASSUME NEW j \in C, UnfoldsTo(cs[c].cls.of, j) PROVE FALSE
    <3>1. PICK k \in 1..n : k > c /\ cs[k].cls.kind = "impl" /\ cs[k].cls.of = j
      BY <2>2, <2>3 DEF Descends
    <3>2. k \in S /\ c >= k
      BY <3>1, <2>2
    <3> QED
      BY <3>1, <3>2, <2>2
  <2>4. cs[c].cls.of \in C
    BY <2>2
  <2> QED
    BY <2>3, <2>4
<1> HIDE DEF V
<1>5. V \in SUBSET Impls
  BY DEF V
<1> QED
  BY <1>2, <1>3, <1>4, <1>5 DEF NoRecursion

(* P leads from the root to the component c, over different implementations. *)
LeadsTo(P, V, i, l) ==
    /\ P \in Seq(V) /\ Len(P) = l + 1 /\ P[l + 1] = i
    /\ \A k \in 1..l : UnfoldsTo(P[k], P[k + 1])
    /\ \A a, b \in 1..(l + 1) : P[a] = P[b] => a = b

(* A path of expansions in V that repeats nothing goes on without        *)
(* repeating.                                                            *)
LEMMA LeadsOn ==
    ASSUME NEW V, NEW i, NEW l \in Nat, NEW P, LeadsTo(P, V, i, l), NEW j \in V, UnfoldsTo(i, j),
           \A C \in SUBSET V : C # {} => \E a \in C : \A b \in C : ~UnfoldsTo(a, b)
    PROVE  LeadsTo(Append(P, j), V, j, l + 1)
<1> DEFINE Q == Append(P, j)
<1>1. /\ P \in Seq(V) /\ Len(P) = l + 1 /\ P[l + 1] = i
      /\ \A k \in 1..l : UnfoldsTo(P[k], P[k + 1])
      /\ \A a, b \in 1..(l + 1) : P[a] = P[b] => a = b
  BY DEF LeadsTo
<1>2. Q \in Seq(V) /\ Len(Q) = l + 2 /\ Q[l + 2] = j /\ \A k \in 1..(l + 1) : Q[k] = P[k]
  BY <1>1
<1> HIDE DEF Q
<1>3. ASSUME NEW m \in 1..(l + 1), P[m] = j PROVE FALSE
  <2> DEFINE C == {P[k] : k \in m..(l + 1)}
  <2>1. \A k \in m..(l + 1) : k \in 1..(l + 1) /\ P[k] \in V
    BY <1>1
  <2>2. C \in SUBSET V /\ P[m] \in C
    BY <2>1
  <2>3. PICK a \in C : \A b \in C : ~UnfoldsTo(a, b)
    BY <2>2
  <2>4. PICK k \in m..(l + 1) : a = P[k]
    OBVIOUS
  <2>5. CASE k = l + 1
    BY <2>2, <2>3, <2>4, <2>5, <1>1, <1>3
  <2>6. CASE k # l + 1
    <3>1. k \in 1..l /\ k + 1 \in m..(l + 1)
      BY <2>6
    <3>2. UnfoldsTo(P[k], P[k + 1]) /\ P[k + 1] \in C
      BY <3>1, <1>1
    <3> QED
      BY <3>2, <2>3, <2>4
  <2> QED
    BY <2>5, <2>6
<1>4. ASSUME NEW k \in 1..(l + 1) PROVE UnfoldsTo(Q[k], Q[k + 1])
  <2>1. CASE k = l + 1
    <3>1. Q[k] = i /\ Q[k + 1] = j
      <4>1. k + 1 = l + 2
        BY <2>1
      <4> QED
        BY <4>1, <2>1, <1>1, <1>2
    <3> QED
      BY <3>1
  <2>2. CASE k # l + 1
    <3>1. k \in 1..l /\ k + 1 \in 1..(l + 1)
      BY <2>2
    <3>2. Q[k] = P[k] /\ Q[k + 1] = P[k + 1] /\ UnfoldsTo(P[k], P[k + 1])
      BY <3>1, <1>1, <1>2
    <3> QED
      BY <3>2
  <2> QED
    BY <2>1, <2>2
<1>5. ASSUME NEW a \in 1..(l + 2), NEW b \in 1..(l + 2), Q[a] = Q[b] PROVE a = b
  <2>1. (a \in 1..(l + 1) \/ a = l + 2) /\ (b \in 1..(l + 1) \/ b = l + 2)
    OBVIOUS
  <2>2. CASE a \in 1..(l + 1) /\ b \in 1..(l + 1)
    BY <2>2, <1>1, <1>2, <1>5
  <2>3. CASE a \in 1..(l + 1) /\ b = l + 2
    <3>1. P[a] = j
      BY ONLY <2>3, <1>2, <1>5
    <3> QED
      BY <3>1, <2>3, <1>3
  <2>4. CASE a = l + 2 /\ b \in 1..(l + 1)
    <3>1. P[b] = j
      BY ONLY <2>4, <1>2, <1>5
    <3> QED
      BY <3>1, <2>4, <1>3
  <2> QED
    BY <2>1, <2>2, <2>3, <2>4
<1>6. (l + 1) + 1 = l + 2 /\ l + 1 \in Nat
  OBVIOUS
<1>7. LeadsTo(Q, V, j, l + 1)
  BY <1>2, <1>4, <1>5, <1>6 DEF LeadsTo
<1> QED
  BY <1>7 DEF Q

(* Without recursion no implementation lies as deep as there are             *)
(* implementations.                                                          *)
LEMMA ShallowWithout ==
    ASSUME NoRecursion, NEW cs \in Seq(Component), cs[1].cls = RootClassifier, cs[1].parent = 0,
           NEW lv, Levels(cs, lv), Descends(cs, lv), NEW c \in 1..Len(cs), cs[c].cls.kind = "impl"
    PROVE  lv[c] < Cardinality(Impls)
<1> DEFINE n == Len(cs)
<1>0. n \in Nat /\ \A k \in 1..n : cs[k].cls \in Classifier
  <2>1. \A k \in 1..n : cs[k] \in Component
    OBVIOUS
  <2>2. ASSUME NEW k \in 1..n PROVE cs[k].cls \in Classifier
    BY <2>1 DEF Component
  <2> QED
    BY <2>2
<1>1. PICK V \in SUBSET Impls :
        /\ Root \in V
        /\ \A i \in V, j \in Impls : UnfoldsTo(i, j) => j \in V
        /\ \A C \in SUBSET V : C # {} => \E i \in C : \A j \in C : ~UnfoldsTo(i, j)
  BY DEF NoRecursion
<1> DEFINE Led(k) == cs[k].cls.of \in V /\ \E P : LeadsTo(P, V, cs[k].cls.of, lv[k])
           T == {m \in Nat : \A k \in 1..n : k <= m /\ cs[k].cls.kind = "impl" => Led(k)}
<1>2. 0 \in T
  BY <1>0
<1>3. ASSUME NEW m \in Nat, m \in T PROVE m + 1 \in T
  <2> SUFFICES ASSUME NEW k \in 1..n, k = m + 1, cs[k].cls.kind = "impl" PROVE Led(k)
    BY <1>3, <1>0
  <2> DEFINE p == cs[k].parent
  <2>1. p \in 0..(k - 1) /\ (k > 1 => p # 0) /\ lv[k] \in Nat /\ lv[k] = IF p = 0 THEN 0 ELSE lv[p] + 1
    BY DEF Levels
  <2>2. CASE p = 0
    <3>1. k = 1
      BY <2>1, <2>2
    <3>2. cs[k].cls.of = Root /\ lv[k] = 0
      BY <3>1, <2>1, <2>2, RootTyped
    <3> DEFINE P == <<Root>>
    <3>3. P \in Seq(V) /\ Len(P) = 0 + 1 /\ P[0 + 1] = Root /\ 1..0 = {} /\ \A a \in 1..(0 + 1) : a = 1
      BY <1>1
    <3> HIDE DEF P
    <3>4. LeadsTo(P, V, Root, 0)
      BY ONLY <3>3 DEF LeadsTo
    <3> QED
      BY <3>2, <3>4, <1>1
  <2>3. CASE p # 0
    <3>1. p \in 1..(k - 1) /\ cs[p].cls.kind = "impl" /\ UnfoldsTo(cs[p].cls.of, cs[k].cls.of)
      BY <2>3 DEF Descends
    <3>2. p \in 1..n /\ p <= m
      BY <3>1, <1>0
    <3>3. Led(p)
      BY <3>1, <3>2, <1>3
    <3>4. cs[k].cls.of \in V
      <4>1. cs[k].cls.of \in Impls
        BY <1>0, ImplIs
      <4> QED
        BY <4>1, <3>1, <3>3, <1>1
    <3>5. PICK P : LeadsTo(P, V, cs[p].cls.of, lv[p])
      BY <3>3
    <3>6. lv[p] \in Nat /\ lv[k] = lv[p] + 1
      BY <3>2, <2>1, <2>3 DEF Levels
    <3>7. LeadsTo(Append(P, cs[k].cls.of), V, cs[k].cls.of, lv[p] + 1)
      BY <3>1, <3>4, <3>5, <3>6, <1>1, LeadsOn
    <3> QED
      BY <3>4, <3>6, <3>7
  <2> QED
    BY <2>2, <2>3
<1> HIDE DEF T
<1>4. \A m \in Nat : m \in T
  BY <1>2, <1>3, ClosedUnderSuccessor
<1>5. n \in T /\ c <= n
  BY <1>0, <1>4
<1>6. \E P : LeadsTo(P, V, cs[c].cls.of, lv[c])
  BY <1>5 DEF T
<1>7. PICK P : LeadsTo(P, V, cs[c].cls.of, lv[c])
  BY <1>6
<1>8. lv[c] \in Nat
  BY DEF Levels
<1>9. P \in Seq(V) /\ Len(P) = lv[c] + 1 /\ \A a, b \in 1..Len(P) : P[a] = P[b] => a = b
  BY <1>7 DEF LeadsTo
<1>10. Cardinality(ToSet(P)) = Len(P)
  BY ONLY <1>9, CountOnce
<1>11. ToSet(P) \subseteq Impls
  <2>1. ToSet(P) = {P[k] : k \in 1..Len(P)}
    BY <1>9 DEF ToSet
  <2>2. \A k \in 1..Len(P) : P[k] \in V
    BY <1>9
  <2> QED
    BY <2>1, <2>2
<1>12. Cardinality(ToSet(P)) <= Cardinality(Impls) /\ Cardinality(Impls) \in Nat
  BY <1>11, InstanceAssumption, FS_Subset, FS_CardinalityType
<1> QED
  BY ONLY <1>8, <1>9, <1>10, <1>12

(* The depth limit of instantiate_component is met exactly by recursion. *)
LEMMA LimitExact ==
    ASSUME BuildInv
    PROVE  LimitMeansRecursion
<1> SUFFICES ASSUME phase = "done", Cardinality(Impls) <= MaxDepth
             PROVE  (\E d \in diagnostics : d.kind = "depth") <=> ~NoRecursion
  BY DEF LimitMeansRecursion
<1>1. /\ components \in Seq(Component) /\ frames = << >> /\ components # << >>
      /\ diagnostics \subseteq [kind : Kinds, at : 1..Len(components)]
  BY DEF BuildInv, BuildType, Phases
<1>2. Unfolding(chains, components, frames, diagnostics)
  BY <1>1 DEF BuildInv
<1>3. PICK lv : TreeOf(chains, components, frames, lv) /\ Stopped(components, lv, diagnostics)
  BY <1>2 DEF Unfolding
<1>4. components[1].cls = RootClassifier /\ components[1].parent = 0
  BY <1>2 DEF Unfolding
<1>5. Levels(components, lv) /\ \A c \in 1..Len(components) : Finished(chains, components, lv, c)
  <2>1. 1..Len(frames) = {}
    BY <1>1
  <2> QED
    BY <2>1, <1>3 DEF TreeOf
<1>6. chains \in [Impls -> Inherited]
  BY ChainsTyped DEF BuildInv
<1>7. Descends(components, lv)
  BY <1>1, <1>5, <1>6, TreeDescends
<1>8. ASSUME NEW d \in diagnostics, d.kind = "depth", NoRecursion PROVE FALSE
  <2>1. d.at \in 1..Len(components)
    BY <1>1
  <2> DEFINE c == d.at
  <2>2. components[c].cls.kind = "impl" /\ ~(lv[c] < MaxDepth)
    BY <1>3, <1>8 DEF Stopped
  <2> HIDE DEF c
  <2>3. c \in 1..Len(components)
    BY <2>1 DEF c
  <2>4. lv[c] < Cardinality(Impls)
    BY <2>2, <2>3, <1>1, <1>4, <1>5, <1>7, <1>8, ShallowWithout
  <2>5. lv[c] \in Nat /\ Cardinality(Impls) \in Nat /\ MaxDepth \in Nat
    BY <2>3, <1>5, InstanceAssumption, FS_CardinalityType DEF Levels
  <2> QED
    BY ONLY <2>2, <2>4, <2>5, Cardinality(Impls) <= MaxDepth
<1>9. ASSUME ~ \E d \in diagnostics : d.kind = "depth" PROVE NoRecursion
  <2>1. \A c : Diag("depth", c).kind = "depth"
    BY DEF Diag
  <2>2. \A c \in 1..Len(components) : components[c].cls.kind = "impl" => lv[c] < MaxDepth
    BY <2>1, <1>3, <1>9 DEF Stopped
  <2> QED
    BY <2>2, <1>1, <1>4, <1>7, UnfoldedFinite
<1> QED
  BY <1>8, <1>9

(* Without a limit too low for the model, the depth diagnostic of            *)
(* instantiate_component appears exactly for a root that unfolds into        *)
(* itself, whatever the search for circular containment saw.                 *)
THEOREM LimitAlwaysMeansRecursion == Spec => []LimitMeansRecursion
<1>1. Init => DetectInv /\ BuildInv
  BY InitDetect, InitBuild
<1>2. (DetectInv /\ BuildInv) /\ [Next]_vars => (DetectInv /\ BuildInv)'
  BY DetectStep, BuildStep
<1>3. BuildInv => LimitMeansRecursion
  BY LimitExact
<1> QED
  BY <1>1, <1>2, <1>3, PTL DEF Spec

================================================================================
