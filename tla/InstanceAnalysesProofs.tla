-------------------------- MODULE InstanceAnalysesProofs ---------------------------
(**********************************************************************************)
(* The connections of an instance and the two passes over them, for every         *)
(* instance.  Without diagnostics no connection across is lost: what is traced    *)
(* from a port stays inside its component and always ends somewhere, so each pair *)
(* of children makes a semantic connection.  The mode pass reports the transitive *)
(* closure of the transitions, and the error pass reports whom it has to.         *)
(*                                                                                *)
(* Both passes are searches with an explicit list of what is left to look at.     *)
(* What they have found is reached by steps of the graph; what they have found    *)
(* and not listed any more leads only to what they have found; when the list is   *)
(* empty the found set is closed, and so holds whatever can be reached.           *)
(**********************************************************************************)
EXTENDS InstanceAnalyses, SumTheorems

-----------------------------------------------------------------------------------
(* Sequences                                                                       *)

(* What a sequence holds. *)
LEMMA ToSetOfSeq ==
    ASSUME NEW X, NEW s \in Seq(X)
    PROVE  ToSet(s) \subseteq X /\ (s = << >> <=> ToSet(s) = {}) /\ Len(s) \in Nat
           /\ DOMAIN s = 1..Len(s)
BY DEF ToSet

(* The elements of a sequence over X are in X. *)
LEMMA MemberOfSeq ==
    \A X : \A s \in Seq(X) : \A i \in DOMAIN s : s[i] \in X
OBVIOUS

(* A sequence over a set is one over a larger set. *)
LEMMA SeqMonotone ==
    \A X, Y : X \subseteq Y => Seq(X) \subseteq Seq(Y)
OBVIOUS

(* An element appended. *)
LEMMA AppendToSet ==
    ASSUME NEW X, NEW s \in Seq(X), NEW x
    PROVE  /\ Append(s, x) \in Seq(X \cup {x}) /\ ToSet(Append(s, x)) = ToSet(s) \cup {x}
           /\ Len(Append(s, x)) = Len(s) + 1
<1>1. s \in Seq(X \cup {x})
  OBVIOUS
<1>2. Append(s, x) \in Seq(X \cup {x})
  BY <1>1
<1>3. DOMAIN Append(s, x) = 1..(Len(s) + 1) /\ Len(Append(s, x)) = Len(s) + 1 /\ Len(s) \in Nat
  OBVIOUS
<1>4. \A i \in 1..Len(s) : Append(s, x)[i] = s[i]
  OBVIOUS
<1>5. Append(s, x)[Len(s) + 1] = x
  OBVIOUS
<1>6. DOMAIN s = 1..Len(s)
  OBVIOUS
<1>7. ToSet(Append(s, x)) = ToSet(s) \cup {x}
  <2> DEFINE t == Append(s, x)
  <2> HIDE DEF t
  <2>1. ASSUME NEW y \in ToSet(t) PROVE y \in ToSet(s) \cup {x}
    <3>1. PICK i \in DOMAIN t : y = t[i]
      BY <2>1 DEF ToSet
    <3>2. i \in 1..Len(s) \/ i = Len(s) + 1
      BY <1>3, <3>1 DEF t
    <3> QED
      BY <1>4, <1>5, <1>6, <3>1, <3>2 DEF ToSet, t
  <2>2. ASSUME NEW y \in ToSet(s) PROVE y \in ToSet(t)
    <3>1. PICK i \in 1..Len(s) : y = s[i]
      BY <1>6, <2>2 DEF ToSet
    <3> QED
      BY <1>3, <1>4, <3>1 DEF ToSet, t
  <2>3. x \in ToSet(t)
    BY <1>3, <1>5 DEF ToSet, t
  <2> QED
    BY <2>1, <2>2, <2>3 DEF t
<1> QED
  BY <1>2, <1>3, <1>7

(* Two sequences joined hold what both hold. *)
LEMMA ConcatToSet ==
    ASSUME NEW X, NEW s \in Seq(X), NEW Y, NEW t \in Seq(Y)
    PROVE  s \o t \in Seq(X \cup Y) /\ ToSet(s \o t) = ToSet(s) \cup ToSet(t)
<1> DEFINE c == s \o t
<1>1. s \in Seq(X \cup Y) /\ t \in Seq(X \cup Y)
  OBVIOUS
<1>2. c \in Seq(X \cup Y)
  BY <1>1
<1>3. /\ DOMAIN s = 1..Len(s) /\ DOMAIN t = 1..Len(t) /\ Len(s) \in Nat /\ Len(t) \in Nat
      /\ DOMAIN c = 1..(Len(s) + Len(t))
  BY <1>1
<1>4. /\ \A i \in 1..Len(s) : c[i] = s[i]
      /\ \A i \in 1..Len(t) : c[Len(s) + i] = t[i]
  BY <1>1
<1> HIDE DEF c
<1>5. ASSUME NEW y \in ToSet(c) PROVE y \in ToSet(s) \cup ToSet(t)
  <2>1. PICK i \in 1..(Len(s) + Len(t)) : y = c[i]
    BY <1>3, <1>5 DEF ToSet
  <2>2. CASE i <= Len(s)
    BY <1>3, <1>4, <2>1, <2>2 DEF ToSet
  <2>3. CASE i > Len(s)
    <3>1. i - Len(s) \in 1..Len(t) /\ Len(s) + (i - Len(s)) = i
      BY <1>3, <2>1, <2>3
    <3>2. c[i] = t[i - Len(s)]
      BY <1>4, <3>1
    <3> QED
      BY <1>3, <2>1, <3>1, <3>2 DEF ToSet
  <2> QED
    BY <1>3, <2>1, <2>2, <2>3
<1>6. ASSUME NEW y \in ToSet(s) PROVE y \in ToSet(c)
  <2>1. PICK i \in 1..Len(s) : y = s[i]
    BY <1>3, <1>6 DEF ToSet
  <2>2. i \in DOMAIN c /\ c[i] = y
    BY <1>3, <1>4, <2>1
  <2> QED
    BY <2>2 DEF ToSet
<1>7. ASSUME NEW y \in ToSet(t) PROVE y \in ToSet(c)
  <2>1. PICK i \in 1..Len(t) : y = t[i]
    BY <1>3, <1>7 DEF ToSet
  <2>2. Len(s) + i \in DOMAIN c /\ c[Len(s) + i] = y
    BY <1>3, <1>4, <2>1
  <2> QED
    BY <2>2 DEF ToSet
<1> QED
  BY <1>2, <1>5, <1>6, <1>7 DEF c

(* The last element of a sequence, and the others. *)
LEMMA FrontAndLast ==
    ASSUME NEW X, NEW s \in Seq(X), s # << >>
    PROVE  /\ Front(s) \in Seq(X) /\ Last(s) \in X /\ Len(Front(s)) = Len(s) - 1
           /\ ToSet(s) = ToSet(Front(s)) \cup {Last(s)}
           /\ \A i \in DOMAIN Front(s) : i \in DOMAIN s /\ Front(s)[i] = s[i]
           /\ Len(s) \in Nat \ {0} /\ Len(s) \in DOMAIN s
<1>1. Len(s) \in Nat \ {0} /\ DOMAIN s = 1..Len(s)
  OBVIOUS
<1> DEFINE f == Front(s)
<1>2. /\ f \in Seq(X) /\ DOMAIN f = 1..(Len(s) - 1) /\ Len(f) = Len(s) - 1
      /\ \A i \in 1..(Len(s) - 1) : f[i] = s[i]
  BY <1>1 DEF Front
<1> HIDE DEF f
<1>3. ASSUME NEW y \in ToSet(s) PROVE y \in ToSet(f) \cup {s[Len(s)]}
  <2>1. PICK i \in 1..Len(s) : y = s[i]
    BY <1>1, <1>3 DEF ToSet
  <2>2. i = Len(s) \/ i \in 1..(Len(s) - 1)
    <3>1. \A m \in Nat \ {0} : \A j \in 1..m : j = m \/ j \in 1..(m - 1)
      OBVIOUS
    <3> QED
      BY <1>1, <3>1
  <2> QED
    BY <1>2, <2>1, <2>2 DEF ToSet
<1>4. ASSUME NEW y \in ToSet(f) PROVE y \in ToSet(s)
  <2>1. PICK i \in 1..(Len(s) - 1) : y = f[i]
    BY <1>2, <1>4 DEF ToSet
  <2>2. i \in DOMAIN s /\ y = s[i]
    BY <1>1, <1>2, <2>1
  <2> QED
    BY <2>2 DEF ToSet
<1>5. s[Len(s)] \in ToSet(s) /\ s[Len(s)] \in X
  BY <1>1 DEF ToSet
<1>6. \A i \in DOMAIN f : i \in DOMAIN s /\ f[i] = s[i]
  BY <1>1, <1>2
<1> QED
  BY <1>1, <1>2, <1>3, <1>4, <1>5, <1>6 DEF Last, f

(* The recursion of InOrder. *)
IsPushed(S, n, g) ==
    g = [k \in 0..n |-> IF k = 0 THEN << >>
                        ELSE IF k \in S THEN Append(g[k - 1], k) ELSE g[k - 1]]

(* InOrder as the solution of its recursion. *)
LEMMA InOrderUnfolded ==
    ASSUME NEW S, NEW n
    PROVE  InOrder(S, n) = (CHOOSE g : IsPushed(S, n, g))[n]
BY DEF InOrder, IsPushed

(* The recursion of InOrder has a solution. *)
LEMMA PushedExists ==
    ASSUME NEW S
    PROVE  \A n \in Nat : \E g : IsPushed(S, n, g)
<1> DEFINE T == {n \in Nat : \E g : IsPushed(S, n, g)}
<1>1. 0 \in T
  <2> DEFINE g == [k \in 0..0 |-> << >>]
  <2>1. \A k \in 0..0 : k = 0
    OBVIOUS
  <2>2. IsPushed(S, 0, g)
    BY <2>1 DEF IsPushed
  <2> QED
    BY <2>2
<1>2. ASSUME NEW n \in Nat, n \in T PROVE n + 1 \in T
  <2>1. PICK g : IsPushed(S, n, g)
    BY <1>2
  <2> DEFINE Val(k) == IF k = 0 THEN << >>
                       ELSE IF k \in S THEN Append(g[k - 1], k) ELSE g[k - 1]
  <2> DEFINE h == [k \in 0..(n + 1) |-> Val(k)]
  <2>2. \A k \in 0..n : k \in 0..(n + 1) /\ h[k] = g[k]
    <3>1. \A k \in 0..n : k \in 0..(n + 1)
      OBVIOUS
    <3> QED
      BY <2>1, <3>1 DEF IsPushed
  <2>3. \A k \in 0..(n + 1) : k # 0 => k - 1 \in 0..n
    OBVIOUS
  <2>4. \A k \in 0..(n + 1) : k # 0 => h[k - 1] = g[k - 1]
    BY <2>2, <2>3
  <2>5. \A k \in 0..(n + 1) :
            Val(k) = IF k = 0 THEN << >>
                     ELSE IF k \in S THEN Append(h[k - 1], k) ELSE h[k - 1]
    BY <2>4
  <2>6. IsPushed(S, n + 1, h)
    BY <2>5 DEF IsPushed
  <2> QED
    BY <2>6
<1> HIDE DEF T
<1>3. \A n \in Nat : n \in T
  BY <1>1, <1>2, ClosedUnderSuccessor
<1> QED
  BY <1>3 DEF T

(* The loop pushes the members of S up to its bound, and nothing else. *)
LEMMA InOrderIs ==
    ASSUME NEW S, NEW n \in Nat
    PROVE  InOrder(S, n) \in Seq(S \cap (1..n)) /\ ToSet(InOrder(S, n)) = S \cap (1..n)
<1> DEFINE g == CHOOSE x : IsPushed(S, n, x)
<1>1. IsPushed(S, n, g)
  BY PushedExists
<1>2. InOrder(S, n) = g[n]
  BY InOrderUnfolded
<1> HIDE DEF g
<1>3. \A k \in 0..n : g[k] = IF k = 0 THEN << >>
                             ELSE IF k \in S THEN Append(g[k - 1], k) ELSE g[k - 1]
  BY <1>1 DEF IsPushed
<1> DEFINE Below(k) == S \cap (1..k)
<1> DEFINE Fine(k) == g[k] \in Seq(Below(k)) /\ ToSet(g[k]) = Below(k)
<1> DEFINE T == {k \in Nat : k <= n => Fine(k)}
<1>4. 0 \in T
  <2>1. g[0] = << >>
    BY <1>3
  <2>2. S \cap (1..0) = {}
    OBVIOUS
  <2>3. << >> \in Seq({}) /\ ToSet(<< >>) = {}
    BY DEF ToSet
  <2>4. Fine(0)
    BY <2>1, <2>2, <2>3
  <2> QED
    BY <2>4
<1>5. ASSUME NEW k \in Nat, k \in T PROVE k + 1 \in T
  <2> SUFFICES ASSUME k + 1 <= n PROVE Fine(k + 1)
    OBVIOUS
  <2>1. Fine(k) /\ (k + 1) - 1 = k /\ k + 1 \in 0..n /\ k + 1 # 0
    BY <1>5
  <2>2. g[k + 1] = IF k + 1 \in S THEN Append(g[k], k + 1) ELSE g[k]
    BY <1>3, <2>1
  <2>3. Below(k + 1) = IF k + 1 \in S THEN Below(k) \cup {k + 1} ELSE Below(k)
    OBVIOUS
  <2> HIDE DEF Below
  <2>4. /\ Append(g[k], k + 1) \in Seq(Below(k) \cup {k + 1})
        /\ ToSet(Append(g[k], k + 1)) = ToSet(g[k]) \cup {k + 1}
    <3>1. g[k] \in Seq(Below(k))
      BY <2>1
    <3> QED
      BY <3>1, AppendToSet, Zenon
  <2>5. CASE k + 1 \in S
    BY <2>1, <2>2, <2>3, <2>4, <2>5
  <2>6. CASE k + 1 \notin S
    BY <2>1, <2>2, <2>3, <2>6
  <2> QED
    BY <2>5, <2>6
<1> HIDE DEF T
<1>6. \A k \in Nat : k \in T
  BY <1>4, <1>5, ClosedUnderSuccessor
<1>7. n \in T /\ n <= n
  BY <1>6
<1>8. Fine(n)
  <2> HIDE DEF Fine
  <2> QED
    BY <1>7 DEF T
<1> QED
  BY <1>2, <1>8

-----------------------------------------------------------------------------------
(* Mode reachability                                                               *)

(* The modes of a component are numbered from 1. *)
LEMMA ModesAre ==
    ASSUME instance \in Instances, NEW k \in Components
    PROVE  Len(Comp(k).modes) \in Nat /\ Modes(k) = 1..Len(Comp(k).modes)
BY InstanceAssumption DEF Components, Comp, Modes

(* Transitions lead to modes. *)
LEMMA AdjacentModes ==
    ASSUME NEW k, NEW m
    PROVE  Adjacent(k, m) \subseteq Modes(k)
BY DEF Adjacent, ModeNamed

(* A set of modes in ascending order. *)
LEMMA AscendingIs ==
    ASSUME instance \in Instances, NEW k \in Components, NEW S \in SUBSET Modes(k)
    PROVE  Ascending(k, S) \in Seq(S) /\ ToSet(Ascending(k, S)) = S
<1> DEFINE n == Len(Comp(k).modes)
<1>1. n \in Nat /\ S \cap (1..n) = S
  BY ModesAre
<1> HIDE DEF n
<1>2. InOrder(S, n) \in Seq(S \cap (1..n)) /\ ToSet(InOrder(S, n)) = S \cap (1..n)
  BY <1>1, InOrderIs
<1> QED
  BY <1>1, <1>2 DEF Ascending, n

(* A mode leads to itself, and on to what its transitions go to. *)
LEMMA LeadsToSelf ==
    ASSUME NEW k, NEW m
    PROVE  LeadsTo(k, m, m)
BY DEF LeadsTo

(* Leading on by a transition. *)
LEMMA LeadsToStep ==
    ASSUME NEW k, NEW m, NEW n, LeadsTo(k, m, n), NEW x \in Adjacent(k, n)
    PROVE  LeadsTo(k, m, x)
<1> SUFFICES ASSUME NEW S \in SUBSET Modes(k), m \in S,
                    \A t \in Transitions(k) :
                        ModeNamed(k, Comp(k).transitions[t].source) \cap S # {} =>
                            ModeNamed(k, Comp(k).transitions[t].destination) \subseteq S
             PROVE  x \in S
  BY DEF LeadsTo
<1>1. n \in S
  BY DEF LeadsTo
<1>2. PICK t \in Transitions(k) : /\ n \in ModeNamed(k, Comp(k).transitions[t].source)
                                  /\ x \in ModeNamed(k, Comp(k).transitions[t].destination)
  BY DEF Adjacent
<1> QED
  BY <1>1, <1>2

(* A set that the transitions do not leave holds what its modes lead to. *)
LEMMA ClosedHolds ==
    ASSUME NEW k, NEW S \in SUBSET Modes(k), NEW m \in S, \A x \in S : Adjacent(k, x) \subseteq S,
           NEW n, LeadsTo(k, m, n)
    PROVE  n \in S
<1>1. ASSUME NEW t \in Transitions(k), ModeNamed(k, Comp(k).transitions[t].source) \cap S # {}
      PROVE  ModeNamed(k, Comp(k).transitions[t].destination) \subseteq S
  <2>1. PICK x \in S : x \in ModeNamed(k, Comp(k).transitions[t].source)
    BY <1>1
  <2>2. ModeNamed(k, Comp(k).transitions[t].destination) \subseteq Adjacent(k, x)
    BY <2>1 DEF Adjacent
  <2> QED
    BY <2>1, <2>2
<1> QED
  BY <1>1 DEF LeadsTo

(* What m leads to; rows that are right; a search from s under way that has found  *)
(* S and has still to look at W; a report that is right.                           *)
Reached(k, m) == {n \in Modes(k) : LeadsTo(k, m, n)}

Rows(k, s, M) ==
    /\ M \in Seq(SUBSET Modes(k)) /\ Len(M) = s
    /\ \A m \in 1..s : M[m] = Reached(k, m)

Searching(k, s, S, W, M) ==
    /\ k \in Components /\ s \in Modes(k)
    /\ S \subseteq Reached(k, s) /\ s \in S
    /\ W \in Seq(S)
    /\ \A m \in S \ ToSet(W) : Adjacent(k, m) \subseteq S
    /\ Rows(k, s - 1, M)

Reported(r) ==
    /\ r.comp \in Components
    /\ Rows(r.comp, Len(Comp(r.comp).modes), r.matrix)
    /\ r.unreachable = Unreachable(r.comp, r.matrix)

(* A search that begins at mode s has found s and its neighbours. *)
LEMMA RowBegins ==
    ASSUME instance \in Instances, NEW k \in Components, NEW s \in Modes(k),
           NEW M, Rows(k, s - 1, M)
    PROVE  Searching(k, s, {s} \cup Adjacent(k, s), Ascending(k, Adjacent(k, s) \ {s}), M)
<1> DEFINE A == Adjacent(k, s)
<1> DEFINE W == Ascending(k, A \ {s})
<1>1. A \subseteq Modes(k)
  BY AdjacentModes
<1>2. W \in Seq(A \ {s}) /\ ToSet(W) = A \ {s}
  <2>1. A \ {s} \in SUBSET Modes(k)
    BY <1>1
  <2> QED
    BY <2>1, AscendingIs
<1>3. {s} \cup A \subseteq Reached(k, s)
  <2>1. \A x \in A : LeadsTo(k, s, x)
    BY LeadsToSelf, LeadsToStep
  <2> QED
    BY <1>1, <2>1, LeadsToSelf DEF Reached
<1> HIDE DEF A, W
<1>4. W \in Seq({s} \cup A)
  <2>1. \A X, Y : X \subseteq Y => Seq(X) \subseteq Seq(Y)
    OBVIOUS
  <2>2. A \ {s} \subseteq {s} \cup A
    OBVIOUS
  <2> QED
    BY <1>2, <2>1, <2>2
<1>5. \A m \in ({s} \cup A) \ ToSet(W) : Adjacent(k, m) \subseteq {s} \cup A
  BY <1>2 DEF A
<1> QED
  BY <1>3, <1>4, <1>5 DEF Searching, A, W

(* A search that looks at the next mode on its list. *)
LEMMA SearchGoesOn ==
    ASSUME instance \in Instances, NEW k, NEW s, NEW S, NEW W, NEW M, Searching(k, s, S, W, M),
           W # << >>, NEW new, new = Adjacent(k, Last(W)) \ S
    PROVE  Searching(k, s, S \cup new, Front(W) \o Ascending(k, new), M)
<1> DEFINE x == Last(W)
<1> DEFINE N == Ascending(k, new)
<1>1. W \in Seq(S) /\ S \subseteq Reached(k, s) /\ k \in Components
  BY DEF Searching
<1>2. Front(W) \in Seq(S) /\ x \in S /\ ToSet(W) = ToSet(Front(W)) \cup {x}
  BY <1>1, FrontAndLast
<1> HIDE DEF x
<1>3. new \in SUBSET Modes(k) /\ new = Adjacent(k, x) \ S
  BY AdjacentModes DEF x
<1>4. N \in Seq(new) /\ ToSet(N) = new
  BY <1>1, <1>3, AscendingIs
<1> HIDE DEF N
<1>5. Front(W) \o N \in Seq(S \cup new) /\ ToSet(Front(W) \o N) = ToSet(Front(W)) \cup new
  <2>1. \A f \in Seq(S), n \in Seq(new) :
            f \o n \in Seq(S \cup new) /\ ToSet(f \o n) = ToSet(f) \cup ToSet(n)
    BY ONLY ConcatToSet
  <2> QED
    BY <1>2, <1>4, <2>1
<1>6. S \cup new \subseteq Reached(k, s)
  <2>1. LeadsTo(k, s, x)
    BY <1>1, <1>2 DEF Reached
  <2>2. \A y \in new : LeadsTo(k, s, y)
    BY <1>3, <2>1, LeadsToStep
  <2> QED
    BY <1>1, <1>3, <2>2 DEF Reached
<1>7. ASSUME NEW m \in (S \cup new) \ ToSet(Front(W) \o N)
      PROVE  Adjacent(k, m) \subseteq S \cup new
  <2>1. m \in S /\ m \notin ToSet(Front(W))
    BY <1>5
  <2>2. CASE m = x
    BY <1>3, <2>2
  <2>3. CASE m # x
    BY <1>2, <2>1, <2>3 DEF Searching
  <2> QED
    BY <2>2, <2>3
<1> QED
  BY <1>5, <1>6, <1>7 DEF Searching, N

(* A search with an empty list has found all that s leads to. *)
LEMMA RowEnds ==
    ASSUME instance \in Instances, NEW k, NEW s, NEW S, NEW M, Searching(k, s, S, << >>, M)
    PROVE  Rows(k, s, Append(M, S))
<1>1. \A m \in S : Adjacent(k, m) \subseteq S
  BY DEF Searching, ToSet
<1>2. k \in Components /\ s \in Modes(k) /\ s \in S /\ S \subseteq Reached(k, s) /\ Rows(k, s - 1, M)
  BY DEF Searching
<1>3. S \in SUBSET Modes(k)
  BY <1>2 DEF Reached
<1>4. S = Reached(k, s)
  <2>1. \A n : LeadsTo(k, s, n) => n \in S
    BY <1>1, <1>2, <1>3, ClosedHolds
  <2> QED
    BY <1>2, <2>1 DEF Reached
<1>5. s \in Nat \ {0}
  BY <1>2, ModesAre
<1>6. M \in Seq(SUBSET Modes(k)) /\ Len(M) = s - 1 /\ \A m \in 1..(s - 1) : M[m] = Reached(k, m)
  BY <1>2 DEF Rows
<1>7. Append(M, S) \in Seq(SUBSET Modes(k)) /\ Len(Append(M, S)) = s
  BY <1>3, <1>5, <1>6
<1>8. ASSUME NEW m \in 1..s PROVE Append(M, S)[m] = Reached(k, m)
  <2>1. CASE m = s
    BY <1>4, <1>5, <1>6, <2>1
  <2>2. CASE m # s
    <3>1. m \in 1..(s - 1)
      BY <1>5, <2>2
    <3> QED
      BY <1>6, <3>1
  <2> QED
    BY <2>1, <2>2
<1> QED
  BY <1>7, <1>8 DEF Rows

(* The greatest number of a set of numbers up to n. *)
LEMMA Greatest ==
    ASSUME NEW n \in Nat, NEW S \in SUBSET (1..n), S # {}
    PROVE  \E m \in S : \A x \in S : x <= m
<1> DEFINE T == {k \in Nat : \A X \in SUBSET (1..k) : X # {} => \E m \in X : \A x \in X : x <= m}
<1>1. 0 \in T
  <2>1. \A X \in SUBSET (1..0) : X = {}
    OBVIOUS
  <2> QED
    BY <2>1
<1>2. ASSUME NEW k \in Nat, k \in T PROVE k + 1 \in T
  <2> SUFFICES ASSUME NEW X \in SUBSET (1..(k + 1)), X # {}
               PROVE  \E m \in X : \A x \in X : x <= m
    OBVIOUS
  <2>1. CASE k + 1 \in X
    BY <2>1
  <2>2. CASE k + 1 \notin X
    <3>1. X \in SUBSET (1..k)
      BY <2>2
    <3> QED
      BY <1>2, <3>1
  <2> QED
    BY <2>1, <2>2
<1> HIDE DEF T
<1>3. \A k \in Nat : k \in T
  BY <1>1, <1>2, ClosedUnderSuccessor
<1>4. n \in T
  BY <1>3
<1> QED
  BY <1>4 DEF T

(* A name that a mode has names one mode. *)
LEMMA ModeNamedIs ==
    ASSUME instance \in Instances, NEW k \in Components, NEW i \in Modes(k)
    PROVE  \E m \in Modes(k) : ModeNamed(k, Comp(k).modes[i].name) = {m}
<1> DEFINE S == {m \in Modes(k) : eq_ci(Comp(k).modes[m].name, Comp(k).modes[i].name)}
<1>1. i \in S
  BY DEF eq_ci
<1>2. PICK l : l = Len(Comp(k).modes)
  OBVIOUS
<1>3. l \in Nat /\ Modes(k) = 1..l
  BY <1>2, ModesAre
<1>4. PICK X : X = S
  OBVIOUS
<1>5. X \in SUBSET (1..l) /\ X # {}
  BY <1>1, <1>3, <1>4
<1>6. PICK m \in X : \A x \in X : x <= m
  BY <1>3, <1>5, Greatest
<1>7. ModeNamed(k, Comp(k).modes[i].name) = {x \in X : \A y \in X : y <= x}
  BY <1>4 DEF ModeNamed
<1>8. {x \in X : \A y \in X : y <= x} = {m}
  <2>1. ASSUME NEW x \in X, \A y \in X : y <= x PROVE x = m
    <3>1. x <= m /\ m <= x /\ x \in Nat /\ m \in Nat
      BY <1>3, <1>5, <1>6, <2>1
    <3> QED
      BY <3>1
  <2> QED
    BY <1>6, <2>1
<1> QED
  BY <1>3, <1>5, <1>6, <1>7, <1>8

(* A report that is right says what ReachabilityExact asks of it. *)
LEMMA ReportedIsExact ==
    ASSUME instance \in Instances, NEW r, Reported(r), NEW k, k = r.comp
    PROVE  /\ \A m, n \in Modes(k) : n \in r.matrix[m] <=> LeadsTo(k, m, n)
           /\ \A i \in InitialModes(k) : (\A o \in InitialModes(k) : i <= o) =>
                r.unreachable = {n \in Modes(k) :
                    \A m \in ModeNamed(k, Comp(k).modes[i].name) : ~LeadsTo(k, m, n)}
<1>1. k \in Components /\ r.unreachable = Unreachable(k, r.matrix)
  BY DEF Reported
<1>2. Modes(k) = 1..Len(Comp(k).modes)
  BY <1>1, ModesAre
<1>3. \A m \in Modes(k) : r.matrix[m] = Reached(k, m)
  BY <1>2 DEF Reported, Rows
<1>4. \A m, n \in Modes(k) : n \in r.matrix[m] <=> LeadsTo(k, m, n)
  BY <1>3 DEF Reached
<1>5. ASSUME NEW i \in InitialModes(k), \A o \in InitialModes(k) : i <= o
      PROVE  r.unreachable = {n \in Modes(k) :
                 \A m \in ModeNamed(k, Comp(k).modes[i].name) : ~LeadsTo(k, m, n)}
  <2>1. i \in Modes(k)
    BY DEF InitialModes
  <2>2. First(k) = i
    <3>1. \A m \in InitialModes(k) : m \in Int
      BY <1>2 DEF InitialModes
    <3>2. \A m \in InitialModes(k) : (\A n \in InitialModes(k) : m <= n) => m = i
      BY <1>5, <3>1
    <3> QED
      BY <1>5, <3>2 DEF First
  <2>3. PICK m \in Modes(k) : ModeNamed(k, Comp(k).modes[i].name) = {m}
    BY <1>1, <2>1, ModeNamedIs
  <2>4. Initial(k) = m
    BY <2>2, <2>3 DEF Initial
  <2>5. r.unreachable = Modes(k) \ ({m} \cup r.matrix[m])
    BY <1>1, <2>4 DEF Unreachable
  <2>6. LeadsTo(k, m, m)
    BY LeadsToSelf
  <2> QED
    BY <1>4, <2>3, <2>5, <2>6
<1> QED
  BY <1>4, <1>5

(* All of this is about the instance alone. *)
LEMMA SameInstance ==
    ASSUME instance' = instance, NEW k, NEW s, NEW S, NEW W, NEW M, NEW r
    PROVE  /\ Searching(k, s, S, W, M)' <=> Searching(k, s, S, W, M)
           /\ Reported(r)' <=> Reported(r)
<1>1. Searching(k, s, S, W, M)' <=> Searching(k, s, S, W, M)
  BY DEF Searching, Components, Comp, Modes, Reached, Rows, LeadsTo, Transitions, ModeNamed, Adjacent
<1>2. Reported(r)' <=> Reported(r)
  BY DEF Reported, Components, Comp, Modes, Reached, Rows, LeadsTo, Transitions, ModeNamed,
         Unreachable, Initial, First, InitialModes
<1> QED
  BY <1>1, <1>2

(* What holds of the mode pass after every step. *)
ModeInv ==
    /\ instance \in Instances
    /\ at \in Nat
    /\ \A k, s, S, W, M :
         at = k /\ start = s /\ seen = S /\ work = W /\ matrix = M /\ s # 0 =>
             Searching(k, s, S, W, M)
    /\ \A r \in reports : Reported(r)

(* A step that leaves the pass and the instance alone. *)
LEMMA ModeStutters ==
    ASSUME ModeInv, instance' = instance, UNCHANGED <<at, start, seen, work, matrix>>,
           \A r \in reports' : Reported(r)
    PROVE  ModeInv'
<1>1. instance' \in Instances /\ at' \in Nat
  BY DEF ModeInv
<1>2. \A r \in reports' : Reported(r)'
  BY SameInstance
<1>3. ASSUME NEW k, NEW s, NEW S, NEW W, NEW M,
             at' = k /\ start' = s /\ seen' = S /\ work' = W /\ matrix' = M /\ s # 0
      PROVE  Searching(k, s, S, W, M)'
  <2>1. Searching(k, s, S, W, M)
    BY <1>3 DEF ModeInv
  <2> QED
    BY <2>1, SameInstance
<1> QED
  BY <1>1, <1>2, <1>3 DEF ModeInv

(* A step of the pass after which a row is searched as it should be, or none is. *)
LEMMA ModeMoves ==
    ASSUME ModeInv, instance' = instance, at' \in Nat, NEW k, NEW s, NEW S, NEW W, NEW M,
           at' = k, start' = s, seen' = S, work' = W, matrix' = M,
           s # 0 => Searching(k, s, S, W, M), \A r \in reports' : Reported(r)
    PROVE  ModeInv'
<1>1. instance' \in Instances
  BY DEF ModeInv
<1>2. \A r \in reports' : Reported(r)'
  BY SameInstance
<1>3. s # 0 => Searching(k, s, S, W, M)'
  BY SameInstance
<1> QED
  BY <1>1, <1>2, <1>3 DEF ModeInv

(* Every step keeps the searches and the reports right. *)
LEMMA ModeStep ==
    ASSUME ModeInv, [Next]_vars
    PROVE  ModeInv'
<1>1. /\ instance \in Instances /\ at \in Nat
      /\ \A r \in reports : Reported(r)
  BY DEF ModeInv
<1>2. PICK k, s, S, W, M : at = k /\ start = s /\ seen = S /\ work = W /\ matrix = M
  OBVIOUS
<1>3. s # 0 => Searching(k, s, S, W, M)
  BY <1>2 DEF ModeInv
<1>4. CASE Instantiate
  <2>1. instance' = instance
    BY <1>4 DEF Instantiate, ConnNext, InstantiateConnection, MissingEnd, TraceAcross, TraceRoot,
                TraceSkip, Expand, LoopEnd, Advance
  <2>2. UNCHANGED modeVars
    BY <1>4 DEF Instantiate
  <2> QED
    BY <1>1, <2>1, <2>2, ModeStutters DEF modeVars
<1>5. CASE Emv2Pass
  <2>1. instance' = instance
    BY <1>5 DEF Emv2Pass, EmvNext, StartEmv, StartTraversal, Visit, Pass, Return, FinishEmv, connVars
  <2>2. UNCHANGED modeVars
    BY <1>5 DEF Emv2Pass
  <2> QED
    BY <1>1, <2>1, <2>2, ModeStutters DEF modeVars
<1>6. CASE UNCHANGED vars
  <2>1. instance' = instance /\ UNCHANGED modeVars
    BY <1>6 DEF vars, connVars
  <2> QED
    BY <1>1, <2>1, ModeStutters DEF modeVars
<1>7. CASE StartMode
  <2>1. instance' = instance /\ at' = 0 /\ start' = 0 /\ reports' = reports
    BY <1>7 DEF StartMode, connVars
  <2>2. PICK S2, W2, M2 : seen' = S2 /\ work' = W2 /\ matrix' = M2
    OBVIOUS
  <2> QED
    BY <1>1, <2>1, <2>2, ModeMoves
<1>8. CASE EnterComponent
  <2>1. /\ instance' = instance /\ at' = at + 1 /\ matrix' = << >> /\ reports' = reports
        /\ start = 0 /\ at < Len(instance.components)
    BY <1>8 DEF EnterComponent, connVars
  <2>2. CASE Analysed(at + 1) /\ start' = 1
             /\ seen' = {1} \cup Adjacent(at + 1, 1)
             /\ work' = Ascending(at + 1, Adjacent(at + 1, 1) \ {1})
    <3>1. k + 1 \in Components
      <4>1. instance.components \in Seq(ToSet(instance.components))
        BY <1>1, InstanceAssumption
      <4>2. Components = 1..Len(instance.components) /\ Len(instance.components) \in Nat
        BY <4>1 DEF Components
      <4> QED
        BY <1>1, <1>2, <2>1, <4>2
    <3>2. 1 \in Modes(k + 1)
      <4>1. Len(Comp(k + 1).modes) \in Nat /\ Modes(k + 1) = 1..Len(Comp(k + 1).modes)
        BY <1>1, <3>1, ModesAre
      <4> QED
        BY <1>2, <2>2, <4>1 DEF Analysed
    <3>3. Rows(k + 1, 1 - 1, << >>)
      BY DEF Rows
    <3>4. Searching(k + 1, 1, {1} \cup Adjacent(k + 1, 1),
                    Ascending(k + 1, Adjacent(k + 1, 1) \ {1}), << >>)
      BY <1>1, <3>1, <3>2, <3>3, RowBegins
    <3>5. PICK S2, W2 : seen' = S2 /\ work' = W2
      OBVIOUS
    <3>6. Searching(k + 1, 1, S2, W2, << >>)
      BY <1>2, <2>2, <3>4, <3>5
    <3>7. at' = k + 1 /\ at' \in Nat
      BY <1>1, <1>2, <2>1
    <3> QED
      BY <1>1, <2>1, <2>2, <3>5, <3>6, <3>7, ModeMoves
  <2>3. CASE UNCHANGED <<start, seen, work>>
    <3>1. PICK k2, S2, W2 : at' = k2 /\ seen' = S2 /\ work' = W2
      OBVIOUS
    <3>2. start' = 0 /\ at' \in Nat
      BY <1>1, <2>1, <2>3
    <3> QED
      BY <1>1, <2>1, <3>1, <3>2, ModeMoves
  <2> QED
    BY <1>8, <2>2, <2>3 DEF EnterComponent
<1>9. CASE SearchStep
  <2>1. /\ instance' = instance /\ UNCHANGED <<at, start, matrix, reports>>
        /\ s # 0 /\ W # << >>
    BY <1>2, <1>9 DEF SearchStep, connVars
  <2>2. PICK new : new = Adjacent(k, Last(W)) \ S
    OBVIOUS
  <2>3. seen' = S \cup new /\ work' = Front(W) \o Ascending(k, new)
    BY <1>2, <1>9, <2>2 DEF SearchStep
  <2>4. Searching(k, s, S \cup new, Front(W) \o Ascending(k, new), M)
    BY <1>1, <1>3, <2>1, <2>2, SearchGoesOn
  <2>5. PICK W2 : W2 = Front(W) \o Ascending(k, new)
    OBVIOUS
  <2>6. Searching(k, s, S \cup new, W2, M) /\ seen' = S \cup new /\ work' = W2
    BY <2>3, <2>4, <2>5
  <2> HIDE <2>2, <2>5
  <2> QED
    BY <1>1, <1>2, <2>1, <2>6, ModeMoves
<1>10. CASE NextRow
  <2>1. /\ instance' = instance /\ UNCHANGED <<at, reports>> /\ s # 0 /\ W = << >>
        /\ s < Len(Comp(k).modes) /\ start' = s + 1 /\ matrix' = Append(M, S)
        /\ seen' = {s + 1} \cup Adjacent(k, s + 1)
        /\ work' = Ascending(k, Adjacent(k, s + 1) \ {s + 1})
    BY <1>2, <1>10 DEF NextRow, Row, connVars
  <2>2. Searching(k, s, S, << >>, M)
    BY <1>3, <2>1
  <2>3. Rows(k, s, Append(M, S))
    BY <1>1, <2>2, RowEnds
  <2>4. k \in Components /\ s \in Modes(k)
    BY <2>2 DEF Searching
  <2>5. s + 1 \in Modes(k) /\ (s + 1) - 1 = s
    BY <1>1, <2>1, <2>4, ModesAre
  <2>6. Searching(k, s + 1, {s + 1} \cup Adjacent(k, s + 1),
                  Ascending(k, Adjacent(k, s + 1) \ {s + 1}), Append(M, S))
    BY <1>1, <2>3, <2>4, <2>5, RowBegins
  <2>7. PICK S2, W2 : seen' = S2 /\ work' = W2
    OBVIOUS
  <2>8. Searching(k, s + 1, S2, W2, Append(M, S))
    BY <2>1, <2>6, <2>7
  <2>9. at' = k /\ at' \in Nat
    BY <1>1, <1>2, <2>1
  <2> QED
    BY <1>1, <2>1, <2>7, <2>8, <2>9, ModeMoves
<1>11. CASE FinishComponent
  <2>1. /\ instance' = instance /\ at' = at /\ s # 0 /\ W = << >>
        /\ s = Len(Comp(k).modes) /\ start' = 0
        /\ reports' = reports \cup {[comp |-> k, matrix |-> Append(M, S),
                                     unreachable |-> Unreachable(k, Append(M, S)),
                                     dead |-> DeadTriggers(k)]}
    BY <1>2, <1>11 DEF FinishComponent, connVars
  <2>2. Searching(k, s, S, << >>, M)
    BY <1>3, <2>1
  <2>3. Rows(k, s, Append(M, S)) /\ k \in Components
    BY <1>1, <2>2, RowEnds DEF Searching
  <2>4. PICK r : r = [comp |-> k, matrix |-> Append(M, S),
                      unreachable |-> Unreachable(k, Append(M, S)), dead |-> DeadTriggers(k)]
    OBVIOUS
  <2>5. Reported(r)
    BY <2>1, <2>3, <2>4 DEF Reported
  <2>6. \A x \in reports' : Reported(x)
    BY <1>1, <2>1, <2>4, <2>5
  <2>7. PICK S2, W2, M2 : seen' = S2 /\ work' = W2 /\ matrix' = M2
    OBVIOUS
  <2>8. at' = k /\ at' \in Nat
    BY <1>1, <1>2, <2>1
  <2> QED
    BY <2>1, <2>6, <2>7, <2>8, ModeMoves
<1>12. CASE FinishMode
  <2>1. instance' = instance /\ UNCHANGED <<at, start, seen, work, matrix>> /\ reports' = reports
    BY <1>12 DEF FinishMode, connVars
  <2> QED
    BY <1>1, <2>1, ModeStutters
<1> QED
  BY <1>4, <1>5, <1>6, <1>7, <1>8, <1>9, <1>10, <1>11, <1>12 DEF Next, ModePass, ModeNext

(* The mode pass keeps its invariant. *)
THEOREM ModeInvariant == Spec => []ModeInv
<1>1. Init => ModeInv
  BY DEF Init, ConnInit, ModeInit, ModeInv
<1>2. ModeInv /\ [Next]_vars => ModeInv'
  BY ModeStep
<1> QED
  BY <1>1, <1>2, PTL DEF Spec

(* ReachabilityExact: for every instance, the matrix a component is reported with *)
(* is the reflexive and transitive closure of its transitions, and the modes      *)
(* reported unreachable are those no path leads to from the initial mode          *)
(* (mode_reachability.rs:112-199).                                                *)
THEOREM MatrixIsTheClosure == Spec => []ReachabilityExact
<1>1. ModeInv => ReachabilityExact
  BY ReportedIsExact DEF ModeInv, ReachabilityExact
<1> QED
  BY <1>1, ModeInvariant, PTL

-----------------------------------------------------------------------------------
(* The semantic connections                                                        *)

(* The recursion of FlattenSeq. *)
IsFlat(ss, n, g) ==
    g = [i \in 1..n |-> IF i = 1 THEN ss[i] ELSE g[i - 1] \o ss[i]]

(* FlattenSeq as the solution of its recursion. *)
LEMMA FlattenUnfolded ==
    ASSUME NEW ss
    PROVE  FlattenSeq(ss) = IF Len(ss) = 0 THEN ss
                            ELSE (CHOOSE g : IsFlat(ss, Len(ss), g))[Len(ss)]
BY DEF FlattenSeq, IsFlat

(* The recursion of FlattenSeq has a solution. *)
LEMMA FlatExists ==
    ASSUME NEW ss
    PROVE  \A n \in Nat : \E g : IsFlat(ss, n, g)
<1> DEFINE T == {n \in Nat : \E g : IsFlat(ss, n, g)}
<1>1. 0 \in T
  <2> DEFINE g == [i \in 1..0 |-> << >>]
  <2>1. 1..0 = {}
    OBVIOUS
  <2>2. IsFlat(ss, 0, g)
    BY <2>1 DEF IsFlat
  <2> QED
    BY <2>2
<1>2. ASSUME NEW n \in Nat, n \in T PROVE n + 1 \in T
  <2>1. PICK g : IsFlat(ss, n, g)
    BY <1>2
  <2> DEFINE Val(i) == IF i = 1 THEN ss[i] ELSE g[i - 1] \o ss[i]
  <2> DEFINE h == [i \in 1..(n + 1) |-> Val(i)]
  <2>2. \A i \in 1..n : i \in 1..(n + 1) /\ h[i] = g[i]
    <3>1. \A i \in 1..n : i \in 1..(n + 1)
      OBVIOUS
    <3> QED
      BY <2>1, <3>1 DEF IsFlat
  <2>3. \A i \in 1..(n + 1) : i # 1 => i - 1 \in 1..n
    OBVIOUS
  <2>4. \A i \in 1..(n + 1) : i # 1 => h[i - 1] = g[i - 1]
    BY <2>2, <2>3
  <2>5. \A i \in 1..(n + 1) : Val(i) = IF i = 1 THEN ss[i] ELSE h[i - 1] \o ss[i]
    BY <2>4
  <2>6. IsFlat(ss, n + 1, h)
    BY <2>5 DEF IsFlat
  <2> QED
    BY <2>6
<1> HIDE DEF T
<1>3. \A n \in Nat : n \in T
  BY <1>1, <1>2, ClosedUnderSuccessor
<1> QED
  BY <1>3 DEF T

(* Sequences over X joined are a sequence over X. *)
LEMMA FlattenIs ==
    ASSUME NEW X, NEW ss \in Seq(Seq(X))
    PROVE  FlattenSeq(ss) \in Seq(X)
<1>1. Len(ss) \in Nat /\ \A i \in 1..Len(ss) : ss[i] \in Seq(X)
  OBVIOUS
<1>2. CASE Len(ss) = 0
  <2>1. ss = << >>
    BY <1>2
  <2>2. FlattenSeq(ss) = ss
    BY ONLY <1>2, FlattenUnfolded
  <2>3. ss \in Seq(X)
    BY <2>1
  <2> QED
    BY <2>2, <2>3
<1>3. CASE Len(ss) # 0
  <2> DEFINE n == Len(ss)
  <2> DEFINE g == CHOOSE x : IsFlat(ss, n, x)
  <2>1. IsFlat(ss, n, g)
    <3>1. \E x : IsFlat(ss, n, x)
      BY <1>1, FlatExists
    <3> QED
      BY <3>1
  <2>2. FlattenSeq(ss) = g[n]
    BY <1>3, FlattenUnfolded
  <2> HIDE DEF g
  <2>3. \A i \in 1..n : g[i] = IF i = 1 THEN ss[i] ELSE g[i - 1] \o ss[i]
    BY <2>1 DEF IsFlat
  <2> DEFINE T == {i \in Nat : i + 1 \in 1..n => g[i + 1] \in Seq(X)}
  <2> HIDE DEF n
  <2>4. 0 \in T
    <3>1. 0 + 1 = 1 /\ (1 \in 1..n => g[1] = ss[1])
      BY <2>3
    <3>2. 1 \in 1..n => ss[1] \in Seq(X)
      BY <1>1 DEF n
    <3> QED
      BY <3>1, <3>2
  <2>5. ASSUME NEW i \in Nat, i \in T PROVE i + 1 \in T
    <3> SUFFICES ASSUME (i + 1) + 1 \in 1..n PROVE g[(i + 1) + 1] \in Seq(X)
      OBVIOUS
    <3>1. i + 1 \in 1..n /\ (i + 1) + 1 # 1 /\ ((i + 1) + 1) - 1 = i + 1
      BY <1>1 DEF n
    <3>2. g[i + 1] \in Seq(X) /\ ss[(i + 1) + 1] \in Seq(X)
      BY <1>1, <2>5, <3>1 DEF n
    <3>3. g[(i + 1) + 1] = g[i + 1] \o ss[(i + 1) + 1]
      BY <2>3, <3>1
    <3> QED
      BY <3>2, <3>3
  <2> HIDE DEF T
  <2>6. \A i \in Nat : i \in T
    BY <2>4, <2>5, ClosedUnderSuccessor
  <2>7. n - 1 \in T /\ (n - 1) + 1 = n /\ n \in 1..n
    BY <1>1, <1>3, <2>6 DEF n
  <2> QED
    BY <2>2, <2>7 DEF T
<1> QED
  BY <1>2, <1>3

(* The recursion of Traced. *)
Deeper(hops, p, below) ==
    FlattenSeq([h \in DOMAIN hops[p] |-> Prefixed(hops[p][h].conn, below[hops[p][h].port])])

Level(hops, depth, below) ==
    [p \in DOMAIN hops |->
        LET deeper == IF depth = 0 THEN << >> ELSE Deeper(hops, p, below)
        IN IF deeper = << >> THEN <<[port |-> p, path |-> << >>]>> ELSE deeper]

IsTrace(hops, n, g) == g = [depth \in 0..n |-> Level(hops, depth, g[depth - 1])]

(* Traced as the solution of its recursion. *)
LEMMA TracedUnfolded ==
    ASSUME NEW hops, NEW port
    PROVE  Traced(hops, port) = (CHOOSE g : IsTrace(hops, MaxTraceDepth, g))[MaxTraceDepth][port]
BY DEF Traced, IsTrace, Level, Deeper

(* The recursion of Traced has a solution. *)
LEMMA TraceExists ==
    ASSUME NEW hops
    PROVE  \A n \in Nat : \E g : IsTrace(hops, n, g)
<1> DEFINE T == {n \in Nat : \E g : IsTrace(hops, n, g)}
<1>1. 0 \in T
  <2> DEFINE g == [d \in 0..0 |-> Level(hops, 0, << >>)]
  <2>1. \A d \in 0..0 : d = 0
    OBVIOUS
  <2>2. \A b : Level(hops, 0, b) = Level(hops, 0, << >>)
    BY DEF Level
  <2>3. IsTrace(hops, 0, g)
    BY <2>1, <2>2 DEF IsTrace
  <2> QED
    BY <2>3
<1>2. ASSUME NEW n \in Nat, n \in T PROVE n + 1 \in T
  <2>1. PICK g : IsTrace(hops, n, g)
    BY <1>2
  <2> DEFINE Val(d) == Level(hops, d, g[d - 1])
  <2> DEFINE h == [d \in 0..(n + 1) |-> Val(d)]
  <2>2. \A d \in 0..n : d \in 0..(n + 1) /\ h[d] = g[d]
    <3>1. \A d \in 0..n : d \in 0..(n + 1)
      OBVIOUS
    <3> QED
      BY <2>1, <3>1 DEF IsTrace
  <2>3. \A d \in 0..(n + 1) : d # 0 => d - 1 \in 0..n
    OBVIOUS
  <2>4. \A d \in 0..(n + 1) : d # 0 => h[d - 1] = g[d - 1]
    BY <2>2, <2>3
  <2>5. \A a, b : Level(hops, 0, a) = Level(hops, 0, b)
    BY DEF Level
  <2>6. \A d \in 0..(n + 1) : Val(d) = Level(hops, d, h[d - 1])
    BY <2>4, <2>5
  <2>7. IsTrace(hops, n + 1, h)
    BY <2>6 DEF IsTrace
  <2> QED
    BY <2>7
<1> HIDE DEF T
<1>3. \A n \in Nat : n \in T
  BY <1>1, <1>2, ClosedUnderSuccessor
<1> QED
  BY <1>3 DEF T

(* Traces with one connection put before them. *)
LEMMA PrefixedIs ==
    ASSUME NEW P, NEW C, NEW c \in C, NEW found \in Seq([port : P, path : Seq(C)])
    PROVE  Prefixed(c, found) \in Seq([port : P, path : Seq(C)])
<1>1. Len(found) \in Nat /\ DOMAIN found = 1..Len(found)
  OBVIOUS
<1>2. ASSUME NEW r \in 1..Len(found)
      PROVE  [port |-> found[r].port, path |-> <<c>> \o found[r].path] \in [port : P, path : Seq(C)]
  <2>1. found[r] \in [port : P, path : Seq(C)]
    BY <1>1, <1>2, MemberOfSeq, Zenon
  <2>2. found[r].port \in P /\ found[r].path \in Seq(C)
    BY <2>1
  <2>3. <<c>> \in Seq(C)
    OBVIOUS
  <2>4. <<c>> \o found[r].path \in Seq(C)
    BY <2>2, <2>3
  <2>5. \A x \in P, y \in Seq(C) : [port |-> x, path |-> y] \in [port : P, path : Seq(C)]
    OBVIOUS
  <2> QED
    BY ONLY <2>2, <2>4, <2>5
<1> DEFINE X == [port : P, path : Seq(C)]
<1> HIDE DEF X
<1>3. [r \in 1..Len(found) |-> [port |-> found[r].port, path |-> <<c>> \o found[r].path]] \in Seq(X)
  BY <1>1, <1>2 DEF X
<1> QED
  BY <1>1, <1>3 DEF Prefixed, X

(* A trace along hops between the ports of P, by the connections of C, finds       *)
(* ports of P and ways there along C, and at least one.                            *)
LEMMA TracedIs ==
    ASSUME NEW P, NEW C, NEW hops, DOMAIN hops = P,
           \A p \in P : hops[p] \in Seq([conn : C, port : P]), NEW port \in P
    PROVE  Traced(hops, port) \in Seq([port : P, path : Seq(C)]) /\ Traced(hops, port) # << >>
<1> DEFINE X == [port : P, path : Seq(C)]
<1> DEFINE n == MaxTraceDepth
<1>1. n \in Nat
  BY InstanceAssumption
<1> DEFINE g == CHOOSE x : IsTrace(hops, n, x)
<1>2. IsTrace(hops, n, g)
  <2>1. \E x : IsTrace(hops, n, x)
    BY <1>1, TraceExists
  <2> QED
    BY <2>1
<1>3. Traced(hops, port) = g[n][port]
  BY TracedUnfolded
<1> HIDE DEF g, n
<1>4. \A d \in 0..n : g[d] = Level(hops, d, g[d - 1])
  BY <1>2 DEF IsTrace
<1>5. \A p \in P : <<[port |-> p, path |-> << >>]>> \in Seq(X) /\ <<[port |-> p, path |-> << >>]>> # << >>
  OBVIOUS
<1> HIDE DEF X
<1> DEFINE T == {d \in Nat : d \in 0..n => g[d] \in [P -> Seq(X) \ {<< >>}]}
<1>6. ASSUME NEW d \in 0..n, NEW b, d # 0 => b \in [P -> Seq(X) \ {<< >>}]
      PROVE  Level(hops, d, b) \in [P -> Seq(X) \ {<< >>}]
  <2>1. ASSUME NEW p \in P, d # 0 PROVE Deeper(hops, p, b) \in Seq(X)
    <3> DEFINE ss == [h \in DOMAIN hops[p] |-> Prefixed(hops[p][h].conn, b[hops[p][h].port])]
    <3>1. Len(hops[p]) \in Nat /\ DOMAIN hops[p] = 1..Len(hops[p])
      BY <2>1
    <3>2. ASSUME NEW h \in DOMAIN hops[p]
          PROVE  Prefixed(hops[p][h].conn, b[hops[p][h].port]) \in Seq(X)
      <4>1. hops[p] \in Seq([conn : C, port : P])
        BY <2>1
      <4>2. hops[p][h] \in [conn : C, port : P]
        <5> DEFINE Y == [conn : C, port : P]
        <5>1. hops[p] \in Seq(Y)
          BY <4>1
        <5> HIDE DEF Y
        <5>2. hops[p][h] \in Y
          BY <3>2, <5>1, MemberOfSeq
        <5> QED
          BY <5>2 DEF Y
      <4>3. hops[p][h].conn \in C /\ hops[p][h].port \in P
        BY <4>2
      <4>4. b[hops[p][h].port] \in Seq(X)
        BY <1>6, <2>1, <4>3
      <4> QED
        BY <4>3, <4>4, PrefixedIs DEF X
    <3>3. ss \in Seq(Seq(X))
      BY <3>1, <3>2
    <3> HIDE DEF ss
    <3>4. FlattenSeq(ss) \in Seq(X)
      BY <3>3, FlattenIs
    <3> QED
      BY <3>4 DEF Deeper, ss
  <2> DEFINE Dpr(p) == IF d = 0 THEN << >> ELSE Deeper(hops, p, b)
  <2>2. \A p \in P : Dpr(p) \in Seq(X)
    BY <2>1
  <2> DEFINE Val(p) == IF Dpr(p) = << >> THEN <<[port |-> p, path |-> << >>]>> ELSE Dpr(p)
  <2> HIDE DEF Dpr
  <2>3. \A p \in P : Val(p) \in Seq(X) \ {<< >>}
    BY <1>5, <2>2
  <2>4. Level(hops, d, b) = [p \in P |-> Val(p)]
    BY DEF Level, Dpr
  <2> HIDE DEF Val
  <2> QED
    BY <2>3, <2>4
<1>7. 0 \in T
  <2>1. 0 \in 0..n
    BY <1>1
  <2>2. Level(hops, 0, g[0 - 1]) \in [P -> Seq(X) \ {<< >>}]
    BY <1>6, <2>1
  <2> QED
    BY <1>4, <2>1, <2>2
<1>8. ASSUME NEW d \in Nat, d \in T PROVE d + 1 \in T
  <2> SUFFICES ASSUME d + 1 \in 0..n PROVE g[d + 1] \in [P -> Seq(X) \ {<< >>}]
    OBVIOUS
  <2>1. d \in 0..n /\ (d + 1) - 1 = d
    BY <1>1
  <2>2. g[d] \in [P -> Seq(X) \ {<< >>}]
    BY <1>8, <2>1
  <2>3. g[d + 1] = Level(hops, d + 1, g[d])
    BY <1>4, <2>1
  <2>4. Level(hops, d + 1, g[d]) \in [P -> Seq(X) \ {<< >>}]
    BY <1>6, <2>2
  <2> QED
    BY <2>3, <2>4
<1> HIDE DEF T
<1>9. \A d \in Nat : d \in T
  BY <1>7, <1>8, ClosedUnderSuccessor
<1>10. n \in T /\ n \in 0..n
  BY <1>1, <1>9
<1>11. g[n] \in [P -> Seq(X) \ {<< >>}]
  BY <1>10 DEF T
<1> QED
  BY <1>3, <1>11 DEF X

(* The connections so far: each belongs to a component. *)
Connecting ==
    /\ instance \in Instances
    /\ connections \in Seq(ToSet(connections))
    /\ \A c \in DOMAIN connections : connections[c].owner \in Components

(* The arena of components. *)
LEMMA ComponentsAre ==
    ASSUME instance \in Instances
    PROVE  Len(instance.components) \in Nat /\ Components = 1..Len(instance.components)
<1>1. instance.components \in Seq(ToSet(instance.components))
  BY InstanceAssumption
<1> QED
  BY <1>1 DEF Components

(* find_children_by_name finds components. *)
LEMMA ChildrenFound ==
    ASSUME instance \in Instances, NEW k, NEW sub
    PROVE  find_children_by_name(k, sub) \in Seq(Components)
<1>1. PICK n : n = Len(instance.components)
  OBVIOUS
<1>2. n \in Nat /\ Components = 1..n
  BY <1>1, ComponentsAre
<1>3. \A S : InOrder(S, n) \in Seq(S \cap (1..n))
  BY <1>2, InOrderIs
<1>4. \A S : InOrder(S, n) \in Seq(Components)
  <2> SUFFICES ASSUME NEW S PROVE InOrder(S, n) \in Seq(Components)
    OBVIOUS
  <2>1. S \cap (1..n) \subseteq 1..n
    OBVIOUS
  <2>2. Seq(S \cap (1..n)) \subseteq Seq(1..n)
    BY ONLY <2>1, SeqMonotone
  <2> QED
    BY <1>2, <1>3, <2>2
<1> QED
  BY <1>1, <1>4 DEF find_children_by_name

(* A hop leads to a port, along a connection. *)
LEMMA InnerIs ==
    ASSUME instance \in Instances, NEW k, NEW c \in DOMAIN connections, NEW e, e.feature \in Features
    PROVE  Inner(k, c, e) \in Seq([conn : DOMAIN connections, port : Ports])
<1>1. PICK subs : subs = find_children_by_name(k, e.sub)
  OBVIOUS
<1>2. subs \in Seq(Components)
  BY <1>1, ChildrenFound
<1>3. Len(subs) \in Nat /\ DOMAIN subs = 1..Len(subs) /\ \A m \in DOMAIN subs : subs[m] \in Components
  BY <1>2
<1> DEFINE X == [conn : DOMAIN connections, port : Ports]
<1>4. \A m \in DOMAIN subs : [conn |-> c, port |-> <<subs[m], e.feature>>] \in X
  BY <1>3 DEF Ports
<1> HIDE DEF X
<1>5. [m \in DOMAIN subs |-> [conn |-> c, port |-> <<subs[m], e.feature>>]] \in Seq(X)
  BY <1>3, <1>4
<1> QED
  BY <1>1, <1>5 DEF Inner, X

(* So do all hops from a port. *)
LEMMA HopsAre ==
    ASSUME Connecting, NEW p \in Ports
    PROVE  /\ UpHops(p) \in Seq([conn : DOMAIN connections, port : Ports])
           /\ DownHops(p) \in Seq([conn : DOMAIN connections, port : Ports])
<1> DEFINE X == [conn : DOMAIN connections, port : Ports]
<1>1. PICK n : n = Len(connections)
  OBVIOUS
<1>2. n \in Nat /\ DOMAIN connections = 1..n
  BY <1>1 DEF Connecting
<1>3. \A S : /\ InOrder(S, n) \in Seq(S \cap (1..n)) /\ Len(InOrder(S, n)) \in Nat
             /\ DOMAIN InOrder(S, n) = 1..Len(InOrder(S, n))
             /\ \A u \in DOMAIN InOrder(S, n) : InOrder(S, n)[u] \in S \cap (1..n)
  <2>1. \A S : InOrder(S, n) \in Seq(S \cap (1..n))
    BY <1>2, InOrderIs
  <2>2. \A Y : \A s \in Seq(Y) : Len(s) \in Nat /\ DOMAIN s = 1..Len(s) /\ \A u \in DOMAIN s : s[u] \in Y
    OBVIOUS
  <2> QED
    BY <2>1, <2>2
<1>4. \A c \in DOMAIN connections : HasEnds(c) =>
          connections[c].src.feature \in Features /\ connections[c].dst.feature \in Features
  BY DEF HasEnds, Features
<1>5. PICK U : U = {c \in OwnConnections(p[1]) : IsUp(c) /\ connections[c].dst.feature = p[2]}
  OBVIOUS
<1>6. PICK D : D = {c \in OwnConnections(p[1]) : IsDown(c) /\ connections[c].src.feature = p[2]}
  OBVIOUS
<1> DEFINE ups == InOrder(U, n)
<1> DEFINE downs == InOrder(D, n)
<1>7. ASSUME NEW u \in DOMAIN ups
      PROVE  Inner(p[1], ups[u], connections[ups[u]].src) \in Seq(X)
  <2>1. ups[u] \in U /\ ups[u] \in DOMAIN connections
    BY <1>2, <1>3
  <2>2. connections[ups[u]].src.feature \in Features
    BY <1>4, <1>5, <2>1 DEF IsUp
  <2>3. instance \in Instances
    BY DEF Connecting
  <2>4. PICK e : e = connections[ups[u]].src
    OBVIOUS
  <2> HIDE DEF ups
  <2> QED
    BY <2>1, <2>2, <2>3, <2>4, InnerIs
<1>8. ASSUME NEW u \in DOMAIN downs
      PROVE  Inner(p[1], downs[u], connections[downs[u]].dst) \in Seq(X)
  <2>1. downs[u] \in D /\ downs[u] \in DOMAIN connections
    BY <1>2, <1>3
  <2>2. connections[downs[u]].dst.feature \in Features
    BY <1>4, <1>6, <2>1 DEF IsDown
  <2>3. instance \in Instances
    BY DEF Connecting
  <2>4. PICK e : e = connections[downs[u]].dst
    OBVIOUS
  <2> HIDE DEF downs
  <2> QED
    BY <2>1, <2>2, <2>3, <2>4, InnerIs
<1>9. PICK x : x = X
  OBVIOUS
<1> HIDE DEF X
<1>10. UpHops(p) \in Seq(X)
  <2>1. PICK ss : ss = [u \in DOMAIN ups |-> Inner(p[1], ups[u], connections[ups[u]].src)]
    OBVIOUS
  <2>2. Len(ups) \in Nat /\ DOMAIN ups = 1..Len(ups)
    BY <1>3
  <2>3. ss \in Seq(Seq(x))
    <3> HIDE DEF ups
    <3> QED
      BY <1>7, <1>9, <2>1, <2>2
  <2>4. FlattenSeq(ss) \in Seq(x)
    BY <2>3, FlattenIs
  <2>5. UpHops(p) = FlattenSeq(ss)
    BY <1>1, <1>5, <2>1 DEF UpHops
  <2> QED
    BY <1>9, <2>4, <2>5
<1>11. DownHops(p) \in Seq(X)
  <2>1. PICK ss : ss = [u \in DOMAIN downs |-> Inner(p[1], downs[u], connections[downs[u]].dst)]
    OBVIOUS
  <2>2. Len(downs) \in Nat /\ DOMAIN downs = 1..Len(downs)
    BY <1>3
  <2>3. ss \in Seq(Seq(x))
    <3> HIDE DEF downs
    <3> QED
      BY <1>8, <1>9, <2>1, <2>2
  <2>4. FlattenSeq(ss) \in Seq(x)
    BY <2>3, FlattenIs
  <2>5. DownHops(p) = FlattenSeq(ss)
    BY <1>1, <1>6, <2>1 DEF DownHops
  <2> QED
    BY <1>9, <2>4, <2>5
<1> QED
  BY <1>10, <1>11 DEF X

(* So do the traces from a port. *)
LEMMA TracesAre ==
    ASSUME Connecting, NEW port \in Ports
    PROVE  /\ trace_sources(port) \in Seq([port : Ports, path : Seq(DOMAIN connections)])
           /\ trace_destinations(port) \in Seq([port : Ports, path : Seq(DOMAIN connections)])
<1>1. PICK P, C, U, D : /\ P = Ports /\ C = DOMAIN connections
                        /\ U = [p \in Ports |-> UpHops(p)] /\ D = [p \in Ports |-> DownHops(p)]
  OBVIOUS
<1>2. /\ DOMAIN U = P /\ \A p \in P : U[p] \in Seq([conn : C, port : P])
      /\ DOMAIN D = P /\ \A p \in P : D[p] \in Seq([conn : C, port : P])
  BY <1>1, HopsAre
<1>3. Traced(U, port) \in Seq([port : P, path : Seq(C)]) /\ Traced(D, port) \in Seq([port : P, path : Seq(C)])
  <2>1. port \in P
    BY <1>1
  <2> QED
    BY <1>2, <2>1, TracedIs
<1> QED
  BY <1>1, <1>3 DEF trace_sources, trace_destinations

(* A semantic connection between components, along connections. *)
Sound(K, C, sc) == sc.src[1] \in K /\ sc.dst[1] \in K /\ sc.path \in Seq(C) /\ sc.path # << >>

Joins(P, C) == [src : P, dst : P, member : {<< >>}, path : Seq(C) \ {<< >>}]

(* A trace on either side joined by c runs between ports, along connections. *)
LEMMA JoinedIs ==
    ASSUME NEW P, NEW C, NEW c \in C, NEW sources \in Seq([port : P, path : Seq(C)]),
           NEW destinations \in Seq([port : P, path : Seq(C)])
    PROVE  Joined(c, sources, destinations) \in Seq(Joins(P, C))
<1> DEFINE X == [port : P, path : Seq(C)]
<1> DEFINE El(s, d) == [src |-> sources[s].port, dst |-> destinations[d].port, member |-> << >>,
                        path |-> <<c>> \o sources[s].path \o destinations[d].path]
<1>1. /\ Len(sources) \in Nat /\ DOMAIN sources = 1..Len(sources)
      /\ Len(destinations) \in Nat /\ DOMAIN destinations = 1..Len(destinations)
  OBVIOUS
<1>2. ASSUME NEW s \in DOMAIN sources, NEW d \in DOMAIN destinations
      PROVE  El(s, d) \in Joins(P, C)
  <2>1. sources[s] \in X /\ destinations[d] \in X
    <3>1. sources \in Seq(X) /\ destinations \in Seq(X)
      OBVIOUS
    <3> HIDE DEF X
    <3> QED
      BY <1>2, <3>1, MemberOfSeq
  <2>2. /\ sources[s].port \in P /\ sources[s].path \in Seq(C)
        /\ destinations[d].port \in P /\ destinations[d].path \in Seq(C)
    BY <2>1
  <2>3. \A a \in Seq(C), b \in Seq(C) : /\ <<c>> \o a \o b \in Seq(C)
                                        /\ Len(<<c>> \o a \o b) = 1 + Len(a) + Len(b)
                                        /\ Len(a) \in Nat /\ Len(b) \in Nat
    OBVIOUS
  <2>4. <<c>> \o sources[s].path \o destinations[d].path \in Seq(C) \ {<< >>}
    BY <2>2, <2>3
  <2>5. \A p, q \in P : \A w \in Seq(C) \ {<< >>} :
            [src |-> p, dst |-> q, member |-> << >>, path |-> w] \in Joins(P, C)
    BY DEF Joins
  <2> QED
    BY ONLY <2>2, <2>4, <2>5
<1> HIDE DEF El
<1> DEFINE ss == [s \in DOMAIN sources |-> [d \in DOMAIN destinations |-> El(s, d)]]
<1>3. PICK J : J = Joins(P, C)
  OBVIOUS
<1>4. \A s \in DOMAIN sources : [d \in DOMAIN destinations |-> El(s, d)] \in Seq(J)
  BY <1>1, <1>2, <1>3
<1>5. ss \in Seq(Seq(J))
  BY <1>1, <1>4
<1> HIDE DEF ss
<1>6. FlattenSeq(ss) \in Seq(J)
  BY <1>5, FlattenIs
<1> QED
  BY <1>3, <1>6 DEF Joined, ss, El

(* The pairs of an across connection are pairs of components. *)
LEMMA PairsAre ==
    ASSUME NEW K, NEW owner, NEW srcs \in Seq(K), NEW dsts \in Seq(K)
    PROVE  Pairs(owner, srcs, dsts) \in Seq(K \X K)
<1>1. /\ Len(srcs) \in Nat /\ DOMAIN srcs = 1..Len(srcs) /\ \A s \in DOMAIN srcs : srcs[s] \in K
      /\ Len(dsts) \in Nat /\ DOMAIN dsts = 1..Len(dsts) /\ \A d \in DOMAIN dsts : dsts[d] \in K
  OBVIOUS
<1> DEFINE X == K \X K
<1> DEFINE l == IF Len(srcs) < Len(dsts) THEN Len(srcs) ELSE Len(dsts)
<1> DEFINE zip == [k \in 1..l |-> <<srcs[k], dsts[k]>>]
<1> DEFINE ss == [s \in DOMAIN srcs |-> [d \in DOMAIN dsts |-> <<srcs[s], dsts[d]>>]]
<1>2. l \in Nat /\ \A k \in 1..l : k \in DOMAIN srcs /\ k \in DOMAIN dsts
  BY <1>1
<1>3. \A a, b \in K : <<a, b>> \in X
  OBVIOUS
<1> HIDE DEF X, l
<1>4. zip \in Seq(X)
  BY <1>1, <1>2, <1>3
<1>5. \A s \in DOMAIN srcs : [d \in DOMAIN dsts |-> <<srcs[s], dsts[d]>>] \in Seq(X)
  BY <1>1, <1>3
<1>6. ss \in Seq(Seq(X))
  BY <1>1, <1>5
<1> HIDE DEF zip, ss
<1>7. FlattenSeq(ss) \in Seq(X)
  BY <1>6, FlattenIs
<1> QED
  BY <1>4, <1>7 DEF Pairs, X, l, zip, ss

(* What an across connection, and one of the root, adds. *)
LEMMA AcrossIs ==
    ASSUME Connecting, NEW c \in DOMAIN connections, HasEnds(c), NEW pairs \in Seq(Components \X Components),
           NEW x, x = FlattenSeq([k \in DOMAIN pairs |->
                Joined(c, trace_sources(<<pairs[k][1], connections[c].src.feature>>),
                          trace_destinations(<<pairs[k][2], connections[c].dst.feature>>))])
    PROVE  x \in Seq(Joins(Ports, DOMAIN connections))
<1>1. PICK P, C, F, G, J, ss :
          /\ P = Ports /\ C = DOMAIN connections /\ J = Joins(P, C)
          /\ F = connections[c].src.feature /\ G = connections[c].dst.feature
          /\ ss = [k \in DOMAIN pairs |-> Joined(c, trace_sources(<<pairs[k][1], F>>),
                                                    trace_destinations(<<pairs[k][2], G>>))]
  OBVIOUS
<1>2. F \in Features /\ G \in Features
  BY <1>1 DEF HasEnds, Features
<1>3. ASSUME NEW k \in DOMAIN pairs
      PROVE  Joined(c, trace_sources(<<pairs[k][1], F>>), trace_destinations(<<pairs[k][2], G>>)) \in Seq(J)
  <2>1. pairs[k] \in Components \X Components
    OBVIOUS
  <2>2. <<pairs[k][1], F>> \in Ports /\ <<pairs[k][2], G>> \in Ports
    BY <1>2, <2>1 DEF Ports
  <2>3. PICK s, d : s = trace_sources(<<pairs[k][1], F>>) /\ d = trace_destinations(<<pairs[k][2], G>>)
    OBVIOUS
  <2>4. s \in Seq([port : P, path : Seq(C)]) /\ d \in Seq([port : P, path : Seq(C)])
    BY <1>1, <2>2, <2>3, TracesAre
  <2>5. c \in C
    BY <1>1
  <2> QED
    BY <1>1, <2>3, <2>4, <2>5, JoinedIs
<1>4. ss \in Seq(Seq(J))
  <2>1. Len(pairs) \in Nat /\ DOMAIN pairs = 1..Len(pairs)
    OBVIOUS
  <2> QED
    BY <1>1, <1>3, <2>1
<1>5. FlattenSeq(ss) \in Seq(J)
  BY <1>4, FlattenIs
<1> QED
  BY <1>1, <1>5

(* What a connection at the root is expanded to: for every subcomponent the     *)
(* walk found, its traces joined with the root's own end.                        *)
RootJoins(c, subs, f, own, ss) ==
    /\ ss = [m \in DOMAIN subs |-> ss[m]]
    /\ \A m \in DOMAIN subs : \/ ss[m] = Joined(c, trace_sources(<<subs[m], f>>), own)
                              \/ ss[m] = Joined(c, own, trace_destinations(<<subs[m], f>>))

(* What a connection of the root adds runs between ports, along connections. *)
LEMMA RootIs ==
    ASSUME Connecting, NEW c \in DOMAIN connections, NEW subs \in Seq(Components), NEW f \in Features,
           NEW own \in Seq([port : Ports, path : Seq(DOMAIN connections)]),
           NEW ss, RootJoins(c, subs, f, own, ss)
    PROVE  FlattenSeq(ss) \in Seq(Joins(Ports, DOMAIN connections))
<1>1. PICK P, C, J : P = Ports /\ C = DOMAIN connections /\ J = Joins(P, C)
  OBVIOUS
<1>2. own \in Seq([port : P, path : Seq(C)])
  BY <1>1
<1>3. ASSUME NEW m \in DOMAIN subs PROVE ss[m] \in Seq(J)
  <2>1. <<subs[m], f>> \in Ports
    BY DEF Ports
  <2>2. PICK s, d : s = trace_sources(<<subs[m], f>>) /\ d = trace_destinations(<<subs[m], f>>)
    OBVIOUS
  <2>3. s \in Seq([port : P, path : Seq(C)]) /\ d \in Seq([port : P, path : Seq(C)])
    BY <1>1, <2>1, <2>2, TracesAre
  <2>4. c \in C
    BY <1>1
  <2>5. Joined(c, s, own) \in Seq(J) /\ Joined(c, own, d) \in Seq(J)
    BY <1>1, <1>2, <2>3, <2>4, JoinedIs
  <2> QED
    BY <2>2, <2>5 DEF RootJoins
<1>4. ss \in Seq(Seq(J))
  <2>1. Len(subs) \in Nat /\ DOMAIN subs = 1..Len(subs)
    OBVIOUS
  <2>2. ss = [m \in 1..Len(subs) |-> ss[m]]
    BY <2>1 DEF RootJoins
  <2> QED
    BY <1>3, <2>1, <2>2
<1>5. FlattenSeq(ss) \in Seq(J)
  BY <1>4, FlattenIs
<1> QED
  BY <1>1, <1>5

(* What the invariant says of the semantic connections; what keeps it. *)
Traces == /\ semantic \in Seq(ToSet(semantic))
          /\ \A sc \in ToSet(semantic) : Sound(Components, DOMAIN connections, sc)

(* Connections between components added to the semantic ones. *)
LEMMA TracesGrow ==
    ASSUME Traces, UNCHANGED <<instance, connections>>, NEW X, NEW x \in Seq(X), semantic' = semantic \o x,
           \A sc \in X : Sound(Components, DOMAIN connections, sc)
    PROVE  Traces'
<1>1. PICK s, S : s = semantic /\ S = ToSet(s)
  OBVIOUS
<1>2. s \in Seq(S) /\ \A sc \in S : Sound(Components, DOMAIN connections, sc)
  BY <1>1 DEF Traces
<1>3. s \o x \in Seq(S \cup X) /\ ToSet(s \o x) = ToSet(s) \cup ToSet(x)
  <2>1. s \in Seq(S) /\ x \in Seq(X)
    BY <1>2
  <2> QED
    BY ONLY <2>1, ConcatToSet, ZenonT(60)
<1>4. PICK t : t = s \o x
  OBVIOUS
<1>5. ToSet(t) \subseteq S \cup X /\ t \in Seq(S \cup X)
  BY <1>3, <1>4, ToSetOfSeq
<1>6. t \in Seq(ToSet(t))
  <2>1. \A Y : \A y \in Seq(Y) : y \in Seq(ToSet(y))
    BY DEF ToSet
  <2> QED
    BY <1>5, <2>1
<1>7. \A sc \in ToSet(t) : Sound(Components, DOMAIN connections, sc)
  BY <1>2, <1>5
<1>8. \A sc : Sound(Components, DOMAIN connections, sc)' <=> Sound(Components, DOMAIN connections, sc)
  BY DEF Sound, Components
<1>9. semantic' = t
  BY <1>1, <1>4
<1> QED
  BY <1>6, <1>7, <1>8, <1>9 DEF Traces

(* A join of ports runs between components. *)
LEMMA JoinsAreSound ==
    ASSUME NEW sc \in Joins(Ports, DOMAIN connections)
    PROVE  Sound(Components, DOMAIN connections, sc)
BY DEF Joins, Sound, Ports

ConnInv ==
    /\ Connecting
    /\ stage \in {"build", "trace", "expand", "done"}
    /\ next \in 1..(Len(Declared) + 1)
    /\ Len(connections) = IF stage = "build" THEN next - 1 ELSE Len(Declared)
    /\ \A c \in DOMAIN connections : connections[c].owner = Declared[c].owner
    /\ Traces
    /\ \A d \in diagnostics : d.conn \in DOMAIN connections

(* A step of one of the loops over the finished connections. *)
LEMMA LoopGoesOn ==
    ASSUME ConnInv, Advance, stage # "build", next \in DOMAIN connections, Traces',
           \A d \in diagnostics' : d.conn \in DOMAIN connections
    PROVE  ConnInv'
<1>1. /\ next' = next + 1 /\ UNCHANGED <<instance, stage, connections>>
  BY DEF Advance
<1>2. Connecting'
  BY <1>1 DEF ConnInv, Connecting, Components
<1>3. Len(Declared) \in Nat
  BY InstanceAssumption DEF ConnInv, Connecting, Declared
<1>4. DOMAIN connections = 1..Len(Declared)
  BY DEF ConnInv, Connecting
<1>5. next' \in (1..(Len(Declared) + 1))'
  BY <1>1, <1>3, <1>4 DEF Declared
<1>6. (Len(connections) = IF stage = "build" THEN next - 1 ELSE Len(Declared))'
  BY <1>1 DEF ConnInv, Declared
<1>7. (\A c \in DOMAIN connections : connections[c].owner = Declared[c].owner)'
  BY <1>1 DEF ConnInv, Declared
<1>8. stage' \in {"build", "trace", "expand", "done"} /\ \A d \in diagnostics' : d.conn \in DOMAIN connections'
  BY <1>1 DEF ConnInv
<1> QED
  BY <1>2, <1>5, <1>6, <1>7, <1>8 DEF ConnInv

(* The builder adds a connection to its component. *)
LEMMA InstantiateKeeps ==
    ASSUME ConnInv, InstantiateConnection
    PROVE  ConnInv'
<1>1. PICK src, dst : connections' = Append(connections,
          [owner |-> Declared[next].owner, kind |-> Declared[next].kind, src |-> src, dst |-> dst])
  BY DEF InstantiateConnection
<1>2. PICK rec : rec = [owner |-> Declared[next].owner, kind |-> Declared[next].kind,
                        src |-> src, dst |-> dst]
  OBVIOUS
<1>3. PICK n, cs, C : n = next /\ cs = connections /\ C = ToSet(cs)
  OBVIOUS
<1>4. /\ stage = "build" /\ next' = next + 1 /\ UNCHANGED <<instance, stage, semantic>>
      /\ next <= Len(Declared)
  BY DEF InstantiateConnection
<1>5. instance \in Instances /\ Declared \in Seq(ToSet(Declared)) /\ Len(Declared) \in Nat
  BY InstanceAssumption DEF ConnInv, Connecting, Declared
<1>6. n \in Nat \ {0} /\ n \in DOMAIN Declared /\ cs \in Seq(C) /\ Len(cs) = n - 1
  BY <1>3, <1>4, <1>5 DEF ConnInv, Connecting
<1>7. connections' = Append(cs, rec) /\ rec.owner = Declared[n].owner
  BY <1>1, <1>2, <1>3
<1>8. Declared[n].owner \in Components
  BY <1>5, <1>6, InstanceAssumption DEF Declared, Components
<1>9. PICK ds : ds = Append(cs, rec)
  OBVIOUS
<1>10. /\ DOMAIN ds = 1..n /\ Len(ds) = n /\ ds[n] = rec /\ \A i \in 1..(n - 1) : ds[i] = cs[i]
       /\ DOMAIN cs = 1..(n - 1) /\ ds \in Seq(C \cup {rec})
  BY <1>6, <1>9, AppendToSet
<1>11. ds \in Seq(ToSet(ds))
  <2>1. \A Y : \A y \in Seq(Y) : y \in Seq(ToSet(y))
    BY DEF ToSet
  <2> QED
    BY <1>10, <2>1
<1>12. \A c \in 1..n : ds[c].owner = Declared[c].owner /\ ds[c].owner \in Components
  <2> SUFFICES ASSUME NEW c \in 1..n
               PROVE  ds[c].owner = Declared[c].owner /\ ds[c].owner \in Components
    OBVIOUS
  <2>1. CASE c = n
    BY <1>2, <1>3, <1>8, <1>10, <2>1
  <2>2. CASE c # n
    <3>1. c \in 1..(n - 1)
      BY <1>6, <2>2
    <3>2. ds[c] = connections[c] /\ c \in DOMAIN connections
      BY <1>3, <1>10, <3>1
    <3> QED
      BY <3>2 DEF ConnInv, Connecting
  <2> QED
    BY <2>1, <2>2
<1>13. Connecting'
  <2>1. connections' = ds /\ instance' = instance
    BY <1>4, <1>7, <1>9
  <2> HIDE <1>9
  <2> QED
    BY <1>5, <1>10, <1>11, <1>12, <2>1 DEF Connecting, Components
<1>14. Traces'
  <2>1. DOMAIN connections \subseteq DOMAIN connections'
    BY <1>3, <1>6, <1>7, <1>9, <1>10
  <2>2. PICK K, L : K = DOMAIN connections /\ L = DOMAIN connections'
    OBVIOUS
  <2>3. Seq(K) \subseteq Seq(L)
    BY <2>1, <2>2, SeqMonotone
  <2>4. \A sc : Sound(Components, DOMAIN connections, sc) => Sound(Components, DOMAIN connections, sc)'
    <3>1. Components' = Components
      BY <1>4 DEF Components
    <3> QED
      BY <2>2, <2>3, <3>1 DEF Sound
  <2>5. Traces
    BY DEF ConnInv
  <2> QED
    BY <1>4, <2>4, <2>5 DEF Traces
<1>15. \A d \in diagnostics' : d.conn \in DOMAIN connections'
  <2>1. \A d \in diagnostics' : d \in diagnostics \/ d.conn = next
    BY DEF InstantiateConnection, Diag
  <2>2. \A d \in diagnostics : d.conn \in DOMAIN connections
    BY DEF ConnInv
  <2>3. DOMAIN connections \subseteq DOMAIN connections' /\ next \in DOMAIN connections'
    BY <1>3, <1>6, <1>7, <1>9, <1>10
  <2> QED
    BY <2>1, <2>2, <2>3
<1>16. /\ stage' = "build" /\ next' \in (1..(Len(Declared) + 1))'
       /\ (Len(connections) = IF stage = "build" THEN next - 1 ELSE Len(Declared))'
       /\ (\A c \in DOMAIN connections : connections[c].owner = Declared[c].owner)'
  <2>1. connections' = ds /\ instance' = instance /\ next' = n + 1 /\ stage' = "build" /\ next = n
    BY <1>3, <1>4, <1>7, <1>9
  <2>2. Declared' = Declared
    BY <2>1 DEF Declared
  <2>3. n + 1 \in 1..(Len(Declared) + 1) /\ (n + 1) - 1 = n
    BY <1>4, <1>5, <1>6, <2>1
  <2> HIDE <1>9
  <2> QED
    BY <1>10, <1>12, <2>1, <2>2, <2>3
<1> QED
  BY <1>13, <1>14, <1>15, <1>16 DEF ConnInv

(* A step adds connections between components, along connections, and takes none  *)
(* away.                                                                          *)
Adds ==
    \E X : /\ \A sc \in X : Sound(Components, DOMAIN connections, sc)
           /\ \E x \in Seq(X) : semantic' = semantic \o x

(* The members of connected feature groups. *)
LEMMA ExpandAdds ==
    ASSUME ConnInv, NEW c \in DOMAIN connections, NEW s \in Components, NEW d \in Components,
           NEW f \in Comp(s).features, NEW g \in Comp(d).features, ExpandGroup(c, s, d, f, g)
    PROVE  Adds
<1> DEFINE Matched(m) == {o \in DOMAIN g.members : eq_ci(g.members[o], f.members[m])}
<1> DEFINE with == InOrder({m \in DOMAIN f.members : Matched(m) # {}}, Len(f.members))
<1> DEFINE El(k) == [src |-> <<s, connections[c].src.feature \o <<f.members[with[k]]>> >>,
                     dst |-> <<d, connections[c].dst.feature \o <<g.members[Min(Matched(with[k]))]>> >>,
                     member |-> <<f.members[with[k]]>>, path |-> <<c>>]
<1>1. semantic' = semantic \o [k \in DOMAIN with |-> El(k)]
  BY DEF ExpandGroup
<1>2. Len(with) \in Nat /\ DOMAIN with = 1..Len(with)
  <2>1. f.members \notin {NotGroup, NoClassifier}
    BY DEF ExpandGroup, EndGroups, IsGroup
  <2>2. f.members \in Seq(ToSet(f.members))
    BY <2>1, InstanceAssumption DEF ConnInv, Connecting, Components, Comp
  <2>3. Len(f.members) \in Nat
    BY <2>2
  <2>4. \A S : InOrder(S, Len(f.members)) \in Seq(S \cap (1..Len(f.members)))
    BY <2>3, InOrderIs
  <2>5. \A Y : \A y \in Seq(Y) : Len(y) \in Nat /\ DOMAIN y = 1..Len(y)
    OBVIOUS
  <2> QED
    BY <2>4, <2>5
<1>3. \A k : Sound(Components, DOMAIN connections, El(k))
  <2>1. <<c>> \in Seq(DOMAIN connections) /\ <<c>> # << >>
    OBVIOUS
  <2> QED
    BY <2>1 DEF Sound
<1> HIDE DEF El, with
<1>4. PICK x, X : x = [k \in DOMAIN with |-> El(k)] /\ X = {El(k) : k \in DOMAIN with}
  OBVIOUS
<1>5. x \in Seq(X) /\ semantic' = semantic \o x
  BY <1>1, <1>2, <1>4
<1>6. \A sc \in X : Sound(Components, DOMAIN connections, sc)
  BY <1>3, <1>4
<1> QED
  BY <1>5, <1>6 DEF Adds

(* expand_feature_group_connections keeps the invariant. *)
LEMMA ExpandKeeps ==
    ASSUME ConnInv, NEW c \in DOMAIN connections, Expand(c)
    PROVE  ConnInv'
<1>1. Advance /\ stage = "expand" /\ next = c
  BY DEF Expand
<1>2. Traces /\ \A d \in diagnostics : d.conn \in DOMAIN connections
  BY DEF ConnInv
<1>3. CASE UNCHANGED <<semantic, diagnostics>>
  <2>1. Traces'
    BY <1>1, <1>2, <1>3 DEF Traces, Advance, Sound, Components
  <2> QED
    BY <1>1, <1>2, <1>3, <2>1, LoopGoesOn
<1>4. ASSUME NEW s \in Components, NEW d \in Components, NEW f \in Comp(s).features,
             NEW g \in Comp(d).features, ExpandGroup(c, s, d, f, g)
      PROVE  ConnInv'
  <2>1. Traces'
    BY <1>1, <1>2, <1>4, ExpandAdds, TracesGrow DEF Adds, Advance
  <2>2. \A y \in diagnostics' : y.conn \in DOMAIN connections
    <3>1. PICK M : diagnostics' = diagnostics \cup {Diag("unmatched") : m \in M}
      BY <1>4 DEF ExpandGroup
    <3>2. \A y \in diagnostics' : y \in diagnostics \/ y = Diag("unmatched")
      BY <3>1
    <3>3. Diag("unmatched").conn = c
      BY <1>1 DEF Diag
    <3> QED
      BY <1>2, <3>2, <3>3
  <2> QED
    BY <1>1, <2>1, <2>2, LoopGoesOn
<1> QED
  BY <1>3, <1>4 DEF Expand

(* What is traced from an across connection. *)
LEMMA AcrossAdds ==
    ASSUME ConnInv, NEW c \in DOMAIN connections, TraceAcross(c)
    PROVE  Adds
<1>1. HasEnds(c)
  BY DEF TraceAcross, IsAcross
<1>2. Connecting
  BY DEF ConnInv
<1>3. PICK conn, srcs, dsts, pairs :
          /\ conn = connections[c]
          /\ srcs = find_children_by_name(conn.owner, conn.src.sub)
          /\ dsts = find_children_by_name(conn.owner, conn.dst.sub)
          /\ pairs = Pairs(conn.owner, srcs, dsts)
  OBVIOUS
<1>4. pairs \in Seq(Components \X Components)
  <2>1. PICK K : K = Components
    OBVIOUS
  <2>2. srcs \in Seq(K) /\ dsts \in Seq(K)
    BY <1>2, <1>3, <2>1, ChildrenFound DEF Connecting
  <2>3. Pairs(conn.owner, srcs, dsts) \in Seq(K \X K)
    BY <2>2, PairsAre
  <2> QED
    BY <1>3, <2>1, <2>3
<1>5. PICK x : x = FlattenSeq([k \in DOMAIN pairs |->
                Joined(c, trace_sources(<<pairs[k][1], connections[c].src.feature>>),
                          trace_destinations(<<pairs[k][2], connections[c].dst.feature>>))])
  OBVIOUS
<1>6. semantic' = semantic \o x
  BY <1>3, <1>5 DEF TraceAcross
<1>7. PICK X : X = Joins(Ports, DOMAIN connections)
  OBVIOUS
<1>8. x \in Seq(X)
  BY <1>1, <1>2, <1>4, <1>5, <1>7, AcrossIs
<1>9. \A sc \in X : Sound(Components, DOMAIN connections, sc)
  BY <1>7, JoinsAreSound
<1> QED
  BY <1>6, <1>8, <1>9 DEF Adds

(* Tracing an across connection keeps the invariant. *)
LEMMA AcrossKeeps ==
    ASSUME ConnInv, NEW c \in DOMAIN connections, TraceAcross(c)
    PROVE  ConnInv'
<1>1. Advance /\ stage = "trace" /\ next = c
  BY DEF TraceAcross, Tracing
<1>2. Traces /\ \A d \in diagnostics : d.conn \in DOMAIN connections
  BY DEF ConnInv
<1>3. Traces'
  BY <1>1, <1>2, AcrossAdds, TracesGrow DEF Adds, Advance
<1>4. \A y \in diagnostics' : y.conn \in DOMAIN connections
  <2>1. PICK M, N : diagnostics' = diagnostics \cup {Diag("unresolved") : m \in M} \cup N
                    /\ N \in {{Diag("sizes")}, {}}
    BY DEF TraceAcross
  <2>2. \A y \in diagnostics' : y \in diagnostics \/ y = Diag("unresolved") \/ y = Diag("sizes")
    BY <2>1
  <2>3. Diag("unresolved").conn = c /\ Diag("sizes").conn = c
    BY <1>1 DEF Diag
  <2> QED
    BY <1>2, <2>2, <2>3
<1> QED
  BY <1>1, <1>3, <1>4, LoopGoesOn

(* What is traced from a connection of the root. *)
LEMMA RootAdds ==
    ASSUME ConnInv, NEW c \in DOMAIN connections, TraceRoot(c)
    PROVE  Adds
<1>1. HasEnds(c)
  BY DEF TraceRoot, IsUp, IsDown
<1>2. Connecting
  BY DEF ConnInv
<1>3. PICK inner, own, subs :
          /\ inner = (IF IsUp(c) THEN connections[c].src ELSE connections[c].dst)
          /\ own = <<[port |-> <<connections[c].owner,
                                 (IF IsUp(c) THEN connections[c].dst ELSE connections[c].src).feature>>,
                      path |-> << >>]>>
          /\ subs = find_children_by_name(connections[c].owner, inner.sub)
  OBVIOUS
<1>4. subs \in Seq(Components)
  BY <1>2, <1>3, ChildrenFound DEF Connecting
<1>5. PICK ss, x : /\ ss = [m \in DOMAIN subs |->
                        IF IsUp(c) THEN Joined(c, trace_sources(<<subs[m], inner.feature>>), own)
                        ELSE Joined(c, own, trace_destinations(<<subs[m], inner.feature>>))]
                   /\ x = FlattenSeq(ss)
  OBVIOUS
<1>6. semantic' = semantic \o x
  BY <1>3, <1>5 DEF TraceRoot
<1>7. connections[c].src.feature \in Features /\ connections[c].dst.feature \in Features
  BY <1>1 DEF HasEnds, Features
<1>8. PICK X : X = Joins(Ports, DOMAIN connections)
  OBVIOUS
<1>9. x \in Seq(X)
  <2>1. PICK f : f = inner.feature
    OBVIOUS
  <2>2. f \in Features
    BY <1>3, <1>7, <2>1
  <2>3. own \in Seq([port : Ports, path : Seq(DOMAIN connections)])
    <3>1. PICK q : q = <<connections[c].owner,
                         (IF IsUp(c) THEN connections[c].dst ELSE connections[c].src).feature>>
      OBVIOUS
    <3>2. q \in Ports
      BY <1>2, <1>7, <3>1 DEF Ports, Connecting
    <3>3. <<[port |-> q, path |-> << >>]>> \in Seq([port : Ports, path : Seq(DOMAIN connections)])
      BY <3>2
    <3> QED
      BY <1>3, <3>1, <3>3
  <2>4. RootJoins(c, subs, f, own, ss)
    BY <1>5, <2>1 DEF RootJoins
  <2>5. FlattenSeq(ss) \in Seq(Joins(Ports, DOMAIN connections))
    <3>1. Connecting /\ subs \in Seq(Components)
      BY <1>2, <1>4
    <3> QED
      BY ONLY <2>2, <2>3, <2>4, <3>1, c \in DOMAIN connections, RootIs
  <2> QED
    BY <1>5, <1>8, <2>5
<1>10. \A sc \in X : Sound(Components, DOMAIN connections, sc)
  BY <1>8, JoinsAreSound
<1> QED
  BY <1>6, <1>9, <1>10 DEF Adds

(* Tracing a connection of the root keeps the invariant. *)
LEMMA RootKeeps ==
    ASSUME ConnInv, NEW c \in DOMAIN connections, TraceRoot(c)
    PROVE  ConnInv'
<1>1. Advance /\ stage = "trace" /\ next = c
  BY DEF TraceRoot, Tracing
<1>2. Traces /\ \A d \in diagnostics : d.conn \in DOMAIN connections
  BY DEF ConnInv
<1>3. Traces'
  BY <1>1, <1>2, RootAdds, TracesGrow DEF Adds, Advance
<1>4. \A y \in diagnostics' : y.conn \in DOMAIN connections
  <2>1. PICK N : diagnostics' = diagnostics \cup N /\ N \in {{Diag("unresolved")}, {}}
    BY DEF TraceRoot
  <2>2. \A y \in diagnostics' : y \in diagnostics \/ y = Diag("unresolved")
    BY <2>1
  <2>3. Diag("unresolved").conn = c
    BY <1>1 DEF Diag
  <2> QED
    BY <1>2, <2>2, <2>3
<1> QED
  BY <1>1, <1>3, <1>4, LoopGoesOn

(* The passes leave the connections alone. *)
LEMMA ConnUnchanged ==
    ASSUME ConnInv, UNCHANGED connVars
    PROVE  ConnInv'
BY DEF ConnInv, connVars, Connecting, Traces, Sound, Components, Declared

(* Every step keeps the invariant. *)
LEMMA ConnStep ==
    ASSUME ConnInv, [Next]_vars
    PROVE  ConnInv'
<1>1. CASE Instantiate
  <2>1. CASE InstantiateConnection
    BY <2>1, InstantiateKeeps
  <2>2. ASSUME NEW c \in DOMAIN connections, MissingEnd(c) \/ TraceSkip(c) PROVE ConnInv'
    <3>1. /\ Advance /\ stage = "trace" /\ next = c /\ UNCHANGED semantic
          /\ diagnostics' = diagnostics \/ diagnostics' = diagnostics \cup {Diag("missing")}
      BY <2>2 DEF MissingEnd, TraceSkip, Tracing
    <3>2. Traces /\ \A d \in diagnostics : d.conn \in DOMAIN connections
      BY DEF ConnInv
    <3>3. Traces'
      BY <3>1, <3>2 DEF Traces, Advance, Sound, Components
    <3>4. \A y \in diagnostics' : y.conn \in DOMAIN connections
      BY <3>1, <3>2 DEF Diag
    <3> QED
      BY <3>1, <3>3, <3>4, LoopGoesOn
  <2>3. CASE LoopEnd
    <3>1. /\ stage' \in {"trace", "expand", "done"} /\ next' = 1
          /\ UNCHANGED <<instance, connections, semantic, diagnostics>>
      BY <2>3 DEF LoopEnd, NextStage
    <3>2. Connecting' /\ Traces' /\ (\A d \in diagnostics : d.conn \in DOMAIN connections)'
      BY <3>1 DEF ConnInv, Connecting, Traces, Sound, Components
    <3>3. Len(Declared) \in Nat
      BY InstanceAssumption DEF ConnInv, Connecting, Declared
    <3>4. Len(connections) = Len(Declared)
      BY <2>3, <3>3 DEF LoopEnd, ConnInv
    <3>5. next' \in (1..(Len(Declared) + 1))' /\ (Len(connections) = Len(Declared))'
      BY <3>1, <3>3, <3>4 DEF Declared
    <3>6. (\A c \in DOMAIN connections : connections[c].owner = Declared[c].owner)'
      BY <3>1 DEF ConnInv, Declared
    <3> QED
      BY <3>1, <3>2, <3>5, <3>6 DEF ConnInv
  <2> QED
    BY <1>1, <2>1, <2>2, <2>3, AcrossKeeps, RootKeeps, ExpandKeeps DEF Instantiate, ConnNext
<1>2. CASE Emv2Pass
  <2>1. UNCHANGED connVars
    BY <1>2 DEF Emv2Pass, EmvNext, StartEmv, StartTraversal, Visit, Pass, Return, FinishEmv, connVars
  <2> QED
    BY <2>1, ConnUnchanged
<1>3. CASE ModePass
  <2>1. UNCHANGED connVars
    BY <1>3 DEF ModePass, ModeNext, StartMode, EnterComponent, SearchStep, NextRow, FinishComponent,
                FinishMode, connVars
  <2> QED
    BY <2>1, ConnUnchanged
<1>4. CASE UNCHANGED vars
  BY <1>4, ConnUnchanged DEF vars
<1> QED
  BY <1>1, <1>2, <1>3, <1>4 DEF Next

(* The semantic connections run between components, along connections. *)
THEOREM ConnectionsInvariant == Spec => []ConnInv
<1>1. Init => ConnInv
  <2> SUFFICES ASSUME Init PROVE ConnInv
    OBVIOUS
  <2>1. /\ instance \in Instances /\ stage = "build" /\ next = 1
        /\ connections = << >> /\ semantic = << >> /\ diagnostics = {}
    BY DEF Init, ConnInit
  <2>2. << >> \in Seq(ToSet(<< >>)) /\ ToSet(<< >>) = {} /\ DOMAIN << >> = {} /\ Len(<< >>) = 0
    BY DEF ToSet
  <2>3. Len(Declared) \in Nat
    BY <2>1, InstanceAssumption DEF Declared
  <2>4. Connecting /\ Traces
    BY <2>1, <2>2 DEF Connecting, Traces
  <2> QED
    BY <2>1, <2>2, <2>3, <2>4 DEF ConnInv
<1>2. ConnInv /\ [Next]_vars => ConnInv'
  BY ConnStep
<1> QED
  BY <1>1, <1>2, PTL DEF Spec

-----------------------------------------------------------------------------------
(* Error propagation                                                               *)

(* The first element of a sequence, and the others. *)
LEMMA HeadAndTail ==
    ASSUME NEW X, NEW s \in Seq(X), s # << >>
    PROVE  Head(s) \in X /\ Tail(s) \in Seq(X) /\ ToSet(s) = {Head(s)} \cup ToSet(Tail(s))
<1>1. Len(s) \in Nat \ {0} /\ DOMAIN s = 1..Len(s) /\ Head(s) = s[1] /\ Head(s) \in X
  OBVIOUS
<1> DEFINE t == Tail(s)
<1>2. /\ t \in Seq(X) /\ DOMAIN t = 1..(Len(s) - 1)
      /\ \A i \in 1..(Len(s) - 1) : t[i] = s[i + 1]
  OBVIOUS
<1> HIDE DEF t
<1>3. ASSUME NEW y \in ToSet(s) PROVE y \in {Head(s)} \cup ToSet(t)
  <2>1. PICK i \in 1..Len(s) : y = s[i]
    BY <1>1, <1>3 DEF ToSet
  <2>2. CASE i = 1
    BY <1>1, <2>1, <2>2
  <2>3. CASE i # 1
    <3>1. i - 1 \in 1..(Len(s) - 1) /\ (i - 1) + 1 = i
      BY <1>1, <2>1, <2>3
    <3>2. t[i - 1] = s[i] /\ i - 1 \in DOMAIN t
      BY <1>2, <3>1
    <3> QED
      BY <2>1, <3>2 DEF ToSet
  <2> QED
    BY <2>2, <2>3
<1>4. ASSUME NEW y \in ToSet(t) PROVE y \in ToSet(s)
  <2>1. PICK i \in 1..(Len(s) - 1) : y = t[i]
    BY <1>2, <1>4 DEF ToSet
  <2>2. i + 1 \in DOMAIN s /\ y = s[i + 1]
    BY <1>1, <1>2, <2>1
  <2> QED
    BY <2>2 DEF ToSet
<1>5. Head(s) \in ToSet(s)
  BY <1>1 DEF ToSet
<1> QED
  BY <1>1, <1>2, <1>3, <1>4, <1>5 DEF t

(* The hops out of component k along the semantic connections s; a frame of the    *)
(* stack at a component of V; a set that what the members of R receive does not    *)
(* leave; the least such set.                                                      *)
Hops(s, k) == {[to |-> s[i].dst[1], conn |-> Last(s[i].path)] : i \in {j \in DOMAIN s : s[j].src[1] = k}}

Frames(s, V) == UNION {[at : {a}, todo : Seq(Hops(s, a))] : a \in V}

Shut(s, R, o, S) == \A a \in S \cup {o} : \A h \in Hops(s, a) : h.to \in R => h.to \in S \cup {o}

Least(K, s, R, o, S) ==
    /\ S \in SUBSET (K \ {o}) /\ Shut(s, R, o, S)
    /\ \A X \in SUBSET (K \ {o}) : Shut(s, R, o, X) => S \subseteq X

(* A traversal from o under way: the stack C, and what is found. *)
Walking(K, s, R, o, C, V, D, W) ==
    /\ o \in K /\ D \in Seq(K \ {o}) /\ W \in Seq(ToSet(W))
    /\ \A i, j \in DOMAIN D : D[i] = D[j] => i = j
    /\ V = {o} \cup ToSet(D)
    /\ C \in Seq(Frames(s, V))
    /\ \A X \in SUBSET (K \ {o}) : Shut(s, R, o, X) => ToSet(D) \subseteq X
    /\ \A a \in V : \A h \in Hops(s, a) : h.to \in R =>
         h.to \in V \/ \E f \in DOMAIN C : C[f].at = a /\ h \in ToSet(C[f].todo)

(* A pending call is at a component and has hops of it to look at. *)
LEMMA FramesAre ==
    ASSUME NEW s, NEW V
    PROVE  /\ \A a \in V : \A t \in Seq(Hops(s, a)) : [at |-> a, todo |-> t] \in Frames(s, V)
           /\ \A f \in Frames(s, V) : f.at \in V /\ f.todo \in Seq(Hops(s, f.at))
<1>1. \A a \in V : \A t \in Seq(Hops(s, a)) : [at |-> a, todo |-> t] \in Frames(s, V)
  BY DEF Frames
<1>2. ASSUME NEW f \in Frames(s, V)
      PROVE  f.at \in V /\ f.todo \in Seq(Hops(s, f.at))
  <2>1. PICK a \in V : f \in [at : {a}, todo : Seq(Hops(s, a))]
    BY DEF Frames
  <2>2. f.at = a /\ f.todo \in Seq(Hops(s, a))
    BY <2>1
  <2> QED
    BY <2>2
<1> QED
  BY <1>1, <1>2

(* A traversal that begins at its origin. *)
LEMMA WalkBegins ==
    ASSUME NEW K, NEW s, NEW R, NEW o \in K, NEW t \in Seq(Hops(s, o)), ToSet(t) = Hops(s, o)
    PROVE  Walking(K, s, R, o, <<[at |-> o, todo |-> t]>>, {o}, << >>, << >>)
<1>1. << >> \in Seq(K \ {o}) /\ ToSet(<< >>) = {} /\ << >> \in Seq({}) /\ DOMAIN << >> = {} /\ Len(<< >>) = 0
  BY DEF ToSet
<1> DEFINE F == [at |-> o, todo |-> t]
<1>2. F \in Frames(s, {o}) /\ F.at = o /\ F.todo = t
  BY FramesAre
<1> HIDE DEF F
<1>3. <<F>> \in Seq(Frames(s, {o})) /\ DOMAIN <<F>> = {1} /\ <<F>>[1] = F
  BY <1>2
<1>5. \A a \in {o} : \A h \in Hops(s, a) : \E f \in DOMAIN <<F>> : <<F>>[f].at = a /\ h \in ToSet(<<F>>[f].todo)
  BY <1>2, <1>3
<1>6. Walking(K, s, R, o, <<F>>, {o}, << >>, << >>)
  BY <1>1, <1>3, <1>5 DEF Walking
<1> QED
  BY <1>6 DEF F

(* The stack without the first hop of its last frame. *)
Popped(C) == Append(Front(C), [at |-> Last(C).at, todo |-> Tail(Last(C).todo)])

(* The calls when the last one has taken its next hop. *)
LEMMA PoppedIs ==
    ASSUME NEW s, NEW V, NEW C \in Seq(Frames(s, V)), C # << >>, Last(C).todo # << >>
    PROVE  /\ Popped(C) \in Seq(Frames(s, V)) /\ DOMAIN Popped(C) = DOMAIN C
           /\ Last(C).at \in V /\ Head(Last(C).todo) \in Hops(s, Last(C).at)
           /\ \A f \in DOMAIN C : Popped(C)[f].at = C[f].at
           /\ \A f \in DOMAIN C : \A h \in ToSet(C[f].todo) :
                h # Head(Last(C).todo) => h \in ToSet(Popped(C)[f].todo)
<1> DEFINE X == Frames(s, V)
<1> DEFINE L == Last(C)
<1> DEFINE n == Len(C)
<1>1. /\ Front(C) \in Seq(X) /\ L \in X /\ Len(Front(C)) = n - 1 /\ n \in Nat \ {0} /\ DOMAIN C = 1..n
      /\ \A i \in DOMAIN Front(C) : Front(C)[i] = C[i]
  BY FrontAndLast, ToSetOfSeq
<1>2. L = C[n]
  BY DEF Last
<1> HIDE DEF L, n
<1>3. L.at \in V /\ L.todo \in Seq(Hops(s, L.at)) /\ L.todo # << >>
  BY <1>1, FramesAre DEF L
<1>4. /\ Head(L.todo) \in Hops(s, L.at) /\ Tail(L.todo) \in Seq(Hops(s, L.at))
      /\ ToSet(L.todo) = {Head(L.todo)} \cup ToSet(Tail(L.todo))
  <2>1. PICK Y, y : Y = Hops(s, L.at) /\ y = L.todo
    OBVIOUS
  <2>2. y \in Seq(Y) /\ y # << >>
    BY <1>3, <2>1
  <2>3. Head(y) \in Y /\ Tail(y) \in Seq(Y) /\ ToSet(y) = {Head(y)} \cup ToSet(Tail(y))
    BY ONLY <2>2, HeadAndTail
  <2> QED
    BY <2>1, <2>3
<1> DEFINE N == [at |-> L.at, todo |-> Tail(L.todo)]
<1>5. N \in X /\ N.at = L.at /\ N.todo = Tail(L.todo)
  BY <1>3, <1>4, FramesAre
<1> HIDE DEF X, N
<1>6. Popped(C) = Append(Front(C), N)
  BY DEF Popped, L, N
<1>7. /\ Popped(C) \in Seq(X) /\ DOMAIN Popped(C) = 1..n /\ Popped(C)[n] = N
      /\ \A i \in 1..(n - 1) : Popped(C)[i] = C[i]
  BY <1>1, <1>5, <1>6
<1>8. ASSUME NEW f \in DOMAIN C
      PROVE  /\ Popped(C)[f].at = C[f].at
             /\ ToSet(C[f].todo) \subseteq ToSet(Popped(C)[f].todo) \cup {Head(L.todo)}
  <2>1. CASE f = n
    BY <1>2, <1>4, <1>5, <1>7, <2>1
  <2>2. CASE f # n
    <3>1. f \in 1..(n - 1)
      BY <1>1, <2>2
    <3> QED
      BY <1>7, <3>1
  <2> QED
    BY <2>1, <2>2
<1> QED
  BY <1>1, <1>3, <1>4, <1>7, <1>8 DEF X, L

(* A hop that is passed over. *)
LEMMA WalkPasses ==
    ASSUME NEW K, NEW s, NEW R, NEW o, NEW C, NEW V, NEW D, NEW W, Walking(K, s, R, o, C, V, D, W),
           C # << >>, Last(C).todo # << >>, NEW h, h = Head(Last(C).todo), h.to \in V \/ h.to \notin R
    PROVE  Walking(K, s, R, o, Popped(C), V, D, W)
<1>1. C \in Seq(Frames(s, V))
  BY DEF Walking
<1>2. /\ Popped(C) \in Seq(Frames(s, V)) /\ DOMAIN Popped(C) = DOMAIN C
      /\ \A f \in DOMAIN C : Popped(C)[f].at = C[f].at
      /\ \A f \in DOMAIN C : \A x \in ToSet(C[f].todo) : x # h => x \in ToSet(Popped(C)[f].todo)
  <2>1. /\ Popped(C) \in Seq(Frames(s, V)) /\ DOMAIN Popped(C) = DOMAIN C
        /\ Last(C).at \in V /\ Head(Last(C).todo) \in Hops(s, Last(C).at)
        /\ \A f \in DOMAIN C : Popped(C)[f].at = C[f].at
        /\ \A f \in DOMAIN C : \A x \in ToSet(C[f].todo) :
             x # Head(Last(C).todo) => x \in ToSet(Popped(C)[f].todo)
    BY ONLY <1>1, C # << >>, Last(C).todo # << >>, PoppedIs
  <2> QED
    BY <2>1
<1>3. ASSUME NEW a \in V, NEW x \in Hops(s, a), x.to \in R, x.to \notin V
      PROVE  \E f \in DOMAIN Popped(C) : Popped(C)[f].at = a /\ x \in ToSet(Popped(C)[f].todo)
  <2>1. PICK f \in DOMAIN C : C[f].at = a /\ x \in ToSet(C[f].todo)
    BY <1>3 DEF Walking
  <2>2. x # h
    BY <1>3
  <2> QED
    BY <1>2, <2>1, <2>2
<1> QED
  BY <1>2, <1>3 DEF Walking

(* A call with no hop left returns. *)
LEMMA WalkReturns ==
    ASSUME NEW K, NEW s, NEW R, NEW o, NEW C, NEW V, NEW D, NEW W, Walking(K, s, R, o, C, V, D, W),
           C # << >>, Last(C).todo = << >>
    PROVE  Walking(K, s, R, o, Front(C), V, D, W)
<1>1. C \in Seq(Frames(s, V))
  BY DEF Walking
<1>2. /\ Front(C) \in Seq(Frames(s, V)) /\ Len(Front(C)) = Len(C) - 1 /\ Len(C) \in Nat \ {0}
      /\ DOMAIN C = 1..Len(C) /\ DOMAIN Front(C) = 1..Len(Front(C))
      /\ \A i \in DOMAIN Front(C) : Front(C)[i] = C[i]
  BY <1>1, FrontAndLast, ToSetOfSeq
<1>3. ToSet(C[Len(C)].todo) = {}
  BY DEF Last, ToSet
<1>4. ASSUME NEW a \in V, NEW x \in Hops(s, a), x.to \in R, x.to \notin V
      PROVE  \E f \in DOMAIN Front(C) : Front(C)[f].at = a /\ x \in ToSet(Front(C)[f].todo)
  <2>1. PICK f \in DOMAIN C : C[f].at = a /\ x \in ToSet(C[f].todo)
    BY <1>4 DEF Walking
  <2>2. f # Len(C)
    BY <1>3, <2>1
  <2>3. f \in DOMAIN Front(C)
    BY <1>2, <2>2
  <2> QED
    BY <1>2, <2>1, <2>3
<1> QED
  BY <1>2, <1>4 DEF Walking

(* A hop to a component not yet visited. *)
LEMMA WalkVisits ==
    ASSUME NEW K, NEW s, NEW R \in SUBSET K, NEW o, NEW C, NEW V, NEW D, NEW W,
           Walking(K, s, R, o, C, V, D, W),
           C # << >>, Last(C).todo # << >>, NEW h, h = Head(Last(C).todo), h.to \in R, h.to \notin V,
           NEW t \in Seq(Hops(s, h.to)), ToSet(t) = Hops(s, h.to)
    PROVE  Walking(K, s, R, o, Append(Popped(C), [at |-> h.to, todo |-> t]), V \cup {h.to},
                   Append(D, h.to), Append(W, h.conn))
<1> DEFINE b == h.to
<1> DEFINE V2 == V \cup {b}
<1> DEFINE D2 == Append(D, b)
<1> DEFINE W2 == Append(W, h.conn)
<1> DEFINE N == [at |-> b, todo |-> t]
<1> DEFINE P == Popped(C)
<1> DEFINE C2 == Append(P, N)
<1>1. /\ o \in K /\ D \in Seq(K \ {o}) /\ W \in Seq(ToSet(W)) /\ V = {o} \cup ToSet(D)
      /\ C \in Seq(Frames(s, V)) /\ \A i, j \in DOMAIN D : D[i] = D[j] => i = j
  BY DEF Walking
<1>2. /\ P \in Seq(Frames(s, V)) /\ DOMAIN P = DOMAIN C
      /\ Last(C).at \in V /\ h \in Hops(s, Last(C).at)
      /\ \A f \in DOMAIN C : P[f].at = C[f].at
      /\ \A f \in DOMAIN C : \A x \in ToSet(C[f].todo) : x # h => x \in ToSet(P[f].todo)
  <2>1. /\ Popped(C) \in Seq(Frames(s, V)) /\ DOMAIN Popped(C) = DOMAIN C
        /\ Last(C).at \in V /\ Head(Last(C).todo) \in Hops(s, Last(C).at)
        /\ \A f \in DOMAIN C : Popped(C)[f].at = C[f].at
        /\ \A f \in DOMAIN C : \A x \in ToSet(C[f].todo) :
             x # Head(Last(C).todo) => x \in ToSet(Popped(C)[f].todo)
    <3>1. C \in Seq(Frames(s, V))
      BY <1>1
    <3> QED
      BY ONLY <3>1, C # << >>, Last(C).todo # << >>, PoppedIs
  <2> QED
    BY <2>1
<1>3. b \in K \ {o} /\ b \notin ToSet(D)
  BY <1>1
<1>4. N \in Frames(s, V2) /\ N.at = b /\ N.todo = t
  BY FramesAre
<1>5. P \in Seq(Frames(s, V2))
  <2>1. Frames(s, V) \subseteq Frames(s, V2)
    BY DEF Frames
  <2>2. PICK X, Y, p : X = Frames(s, V) /\ Y = Frames(s, V2) /\ p = P
    OBVIOUS
  <2>3. X \subseteq Y /\ p \in Seq(X)
    BY <1>2, <2>1, <2>2
  <2>4. p \in Seq(Y)
    BY ONLY <2>3, SeqMonotone
  <2> QED
    BY <2>2, <2>4
<1> HIDE DEF N, P
<1>6. /\ C2 \in Seq(Frames(s, V2)) /\ Len(P) \in Nat /\ DOMAIN P = 1..Len(P)
      /\ DOMAIN C2 = 1..(Len(P) + 1) /\ C2[Len(P) + 1] = N /\ \A f \in DOMAIN P : C2[f] = P[f]
  BY <1>4, <1>5
<1>7. /\ D2 \in Seq(K \ {o}) /\ ToSet(D2) = ToSet(D) \cup {b} /\ Len(D) \in Nat /\ DOMAIN D = 1..Len(D)
      /\ DOMAIN D2 = 1..(Len(D) + 1) /\ D2[Len(D) + 1] = b /\ \A i \in 1..Len(D) : D2[i] = D[i]
  <2>1. PICK X, x, y : X = K \ {o} /\ x = D /\ y = b
    OBVIOUS
  <2>2. x \in Seq(X) /\ y \in X
    BY <1>1, <1>3, <2>1
  <2>3. ToSet(Append(x, y)) = ToSet(x) \cup {y}
    BY ONLY <2>2, AppendToSet
  <2>4. /\ Append(x, y) \in Seq(X) /\ Len(x) \in Nat /\ DOMAIN x = 1..Len(x)
        /\ DOMAIN Append(x, y) = 1..(Len(x) + 1) /\ Append(x, y)[Len(x) + 1] = y
        /\ \A i \in 1..Len(x) : Append(x, y)[i] = x[i]
    BY <2>2
  <2> QED
    BY <2>1, <2>3, <2>4
<1>8. W2 \in Seq(ToSet(W2))
  <2>1. PICK X, y : X = ToSet(W) /\ y = h.conn
    OBVIOUS
  <2>2. W \in Seq(X)
    BY <1>1, <2>1
  <2>3. /\ Append(W, y) \in Seq(X \cup {y}) /\ ToSet(Append(W, y)) = ToSet(W) \cup {y}
    BY ONLY <2>2, AppendToSet
  <2> QED
    BY <2>1, <2>3
<1>9. V2 = {o} \cup ToSet(D2)
  BY <1>1, <1>7
<1>11. ASSUME NEW X \in SUBSET (K \ {o}), Shut(s, R, o, X) PROVE ToSet(D2) \subseteq X
  <2>1. ToSet(D) \subseteq X
    BY <1>11 DEF Walking
  <2>2. Last(C).at \in X \cup {o}
    BY <1>1, <1>2, <2>1
  <2>3. b \in X \cup {o}
    BY <1>2, <1>11, <2>2 DEF Shut
  <2> QED
    BY <1>3, <1>7, <2>1, <2>3
<1>12. ASSUME NEW a \in V2, NEW x \in Hops(s, a), x.to \in R, x.to \notin V2
       PROVE  \E f \in DOMAIN C2 : C2[f].at = a /\ x \in ToSet(C2[f].todo)
  <2>1. CASE a = b
    <3>1. C2[Len(P) + 1] = N /\ Len(P) + 1 \in DOMAIN C2
      BY <1>6
    <3> QED
      BY <1>4, <2>1, <3>1
  <2>2. CASE a # b
    <3>1. a \in V /\ x.to \notin V
      BY <1>12, <2>2
    <3>2. PICK f \in DOMAIN C : C[f].at = a /\ x \in ToSet(C[f].todo)
      BY <1>12, <3>1 DEF Walking
    <3>3. x # h
      BY <1>12
    <3>4. P[f].at = a /\ x \in ToSet(P[f].todo) /\ f \in DOMAIN P
      BY <1>2, <3>2, <3>3
    <3>5. f \in DOMAIN C2 /\ C2[f] = P[f]
      BY <1>6, <3>4
    <3> HIDE DEF C2
    <3> QED
      BY <3>4, <3>5
  <2> QED
    BY <2>1, <2>2
<1>13. \A i, j \in DOMAIN D2 : D2[i] = D2[j] => i = j
  <2> SUFFICES ASSUME NEW i \in DOMAIN D2, NEW j \in DOMAIN D2, D2[i] = D2[j] PROVE i = j
    OBVIOUS
  <2>1. \A k \in DOMAIN D2 : \/ k = Len(D) + 1 /\ D2[k] = b
                             \/ k \in DOMAIN D /\ D2[k] = D[k] /\ D[k] \in ToSet(D)
    BY <1>7 DEF ToSet
  <2> QED
    BY <1>1, <1>3, <2>1
<1> HIDE DEF V2, D2, W2, C2
<1>14. /\ o \in K /\ D2 \in Seq(K \ {o}) /\ C2 \in Seq(Frames(s, V2))
       /\ \A X \in SUBSET (K \ {o}) : Shut(s, R, o, X) => ToSet(D2) \subseteq X
  BY <1>1, <1>6, <1>7, <1>11
<1>15. \A a \in V2 : \A x \in Hops(s, a) : x.to \in R =>
          x.to \in V2 \/ \E f \in DOMAIN C2 : C2[f].at = a /\ x \in ToSet(C2[f].todo)
  BY <1>12
<1>16. Walking(K, s, R, o, C2, V2, D2, W2)
  BY <1>8, <1>9, <1>13, <1>14, <1>15, Zenon DEF Walking
<1> QED
  BY <1>16 DEF V2, D2, W2, C2, P, N

(* A traversal that has ended has found the least set that what it looks for does *)
(* not leave, each member once.                                                   *)
LEMMA WalkEnds ==
    ASSUME NEW K, NEW s, NEW R, NEW o, NEW V, NEW D, NEW W, Walking(K, s, R, o, << >>, V, D, W)
    PROVE  /\ Least(K, s, R, o, ToSet(D)) /\ Cardinality(ToSet(D)) = Len(D)
           /\ (D = << >> <=> ToSet(D) = {})
<1>1. /\ o \in K /\ D \in Seq(K \ {o}) /\ V = {o} \cup ToSet(D)
      /\ \A i, j \in DOMAIN D : D[i] = D[j] => i = j
      /\ \A X \in SUBSET (K \ {o}) : Shut(s, R, o, X) => ToSet(D) \subseteq X
      /\ \A a \in V : \A h \in Hops(s, a) : h.to \in R => h.to \in V
  BY DEF Walking
<1>2. ToSet(D) \subseteq K \ {o} /\ (D = << >> <=> ToSet(D) = {}) /\ Len(D) \in Nat /\ DOMAIN D = 1..Len(D)
  BY <1>1, ToSetOfSeq
<1>3. Shut(s, R, o, ToSet(D))
  BY <1>1 DEF Shut
<1>4. Cardinality(ToSet(D)) = Len(D)
  <2>1. D \in Bijection(1..Len(D), ToSet(D))
    BY <1>1, <1>2 DEF Bijection, Injection, Surjection, ToSet, IsInjective
  <2>2. ExistsBijection(1..Len(D), ToSet(D))
    BY <2>1 DEF ExistsBijection
  <2> QED
    BY <1>2, <2>2, FS_CountingElements
<1> QED
  BY <1>1, <1>2, <1>3, <1>4 DEF Least

(* What a component's traversals start from; who receives an error of a type; what *)
(* is recorded for the pair (k, t).                                                *)
Origins == UNION {{<<k, t>> : t \in out_error_types(k)} : k \in Components}
Receivers(t) == {b \in Components : Receives(b, t)}

Recorded(K, s, R, k, t, Ch) ==
    LET Mine == {c \in Ch : c.origin = k /\ c.type = t} IN
    \E S \in SUBSET K :
        /\ Least(K, s, R, k, S)
        /\ IF S = {} THEN Mine = {}
           ELSE \E c \in Ch : Mine = {c} /\ ToSet(c.downstream) = S /\ Len(c.downstream) = Cardinality(S)

(* What holds of the error pass after every step. *)
EmvInv ==
    /\ emv \in {"wait", "run", "done"}
    /\ emv # "wait" => stage = "done"
    /\ emv = "wait" => origin = << >> /\ chains = {}
    /\ emv = "done" => origins = {} /\ calls = << >>
    /\ origins \subseteq Origins
    /\ origin = << >> => calls = << >> /\ visited = {} /\ downstream = << >> /\ via = << >>
    /\ origin # << >> =>
         /\ origin \in Origins \ origins
         /\ Walking(Components, semantic, Receivers(origin[2]), origin[1], calls, visited, downstream, via)
    /\ \A c \in chains : /\ <<c.origin, c.type>> \in Origins \ origins
                         /\ calls # << >> => origin # <<c.origin, c.type>>
    /\ emv # "wait" => \A p \in Origins \ origins : calls = << >> \/ p # origin =>
         Recorded(Components, semantic, Receivers(p[2]), p[1], p[2], chains)

(* The hops a call begins with are all hops of its component. *)
LEMMA OutgoingIs ==
    ASSUME Traces, NEW k
    PROVE  /\ Outgoing(k) \in Seq(Hops(semantic, k)) /\ ToSet(Outgoing(k)) = Hops(semantic, k)
<1>1. PICK s, n, S : s = semantic /\ n = Len(s) /\ S = {i \in DOMAIN s : s[i].src[1] = k}
  OBVIOUS
<1>2. n \in Nat /\ DOMAIN s = 1..n
  BY <1>1 DEF Traces
<1>3. S \cap (1..n) = S
  BY <1>1, <1>2
<1> DEFINE from == InOrder(S, n)
<1>4. from \in Seq(S) /\ ToSet(from) = S
  BY <1>2, <1>3, InOrderIs
<1> HIDE DEF from
<1>5. Len(from) \in Nat /\ DOMAIN from = 1..Len(from) /\ \A j \in DOMAIN from : from[j] \in S
  BY <1>4
<1> DEFINE El(i) == [to |-> s[i].dst[1], conn |-> Last(s[i].path)]
<1> DEFINE X == {El(i) : i \in S}
<1> DEFINE out == [j \in DOMAIN from |-> El(from[j])]
<1>6. X = Hops(semantic, k)
  BY <1>1 DEF Hops
<1>7. out = Outgoing(k)
  BY <1>1 DEF Outgoing, from
<1> HIDE DEF El
<1>8. out \in Seq(X)
  BY <1>5
<1>9. ToSet(out) = X
  <2>1. \A j \in DOMAIN out : out[j] \in X
    BY <1>5
  <2>2. ASSUME NEW i \in S PROVE El(i) \in ToSet(out)
    <3>1. PICK j \in DOMAIN from : from[j] = i
      BY <1>4, <2>2 DEF ToSet
    <3>2. j \in DOMAIN out /\ out[j] = El(i)
      BY <3>1
    <3> HIDE DEF out
    <3> QED
      BY <3>2 DEF ToSet
  <2> HIDE DEF out
  <2> QED
    BY <2>1, <2>2 DEF ToSet
<1> QED
  BY <1>6, <1>7, <1>8, <1>9

(* Where a hop leads is a component. *)
LEMMA HopsLead ==
    ASSUME Traces, NEW k, NEW h \in Hops(semantic, k)
    PROVE  h.to \in Components
<1>1. PICK i \in DOMAIN semantic : h = [to |-> semantic[i].dst[1], conn |-> Last(semantic[i].path)]
  BY DEF Hops
<1>2. semantic[i] \in ToSet(semantic)
  BY DEF ToSet
<1>3. h.to = semantic[i].dst[1]
  BY <1>1
<1> QED
  BY <1>2, <1>3 DEF Traces, Sound

(* The traversal reads only the instance and the semantic connections. *)
LEMMA EmvSame ==
    ASSUME instance' = instance
    PROVE  /\ Components' = Components /\ Origins' = Origins /\ \A t : Receivers(t)' = Receivers(t)
<1>1. Components' = Components
  BY DEF Components
<1>2. Origins' = Origins
  BY DEF Origins, Components, out_error_types, Propagations, Comp
<1>3. ASSUME NEW t PROVE Receivers(t)' = Receivers(t)
  BY DEF Receivers, Components, Receives, has_in_propagation_for, Propagations, Comp
<1> QED
  BY <1>1, <1>2, <1>3

(* Origins of a step that leaves the instance alone. *)
LEMMA OriginsAre ==
    ASSUME NEW p \in Origins
    PROVE  p = <<p[1], p[2]>> /\ p # << >> /\ p[1] \in Components /\ p[2] \in out_error_types(p[1])
<1>1. PICK k \in Components : \E t \in out_error_types(k) : p = <<k, t>>
  BY DEF Origins
<1>2. PICK t \in out_error_types(k) : p = <<k, t>>
  BY <1>1
<1> QED
  BY <1>2

(* A step of the traversal that neither starts nor ends one. *)
LEMMA EmvWalks ==
    ASSUME EmvInv, UNCHANGED <<connVars, emv, origins, origin, chains>>, origin # << >>,
           calls # << >>, calls' # << >>,
           Walking(Components, semantic, Receivers(origin[2]), origin[1], calls', visited', downstream', via')
    PROVE  EmvInv'
<1>1. /\ Components' = Components /\ Origins' = Origins /\ \A t : Receivers(t)' = Receivers(t)
      /\ stage' = stage /\ semantic' = semantic
  BY EmvSame DEF connVars
<1>2. /\ emv' \in {"wait", "run", "done"}
      /\ emv' # "wait" => stage' = "done"
      /\ emv' = "wait" => origin' = << >> /\ chains' = {}
      /\ emv' # "done"
      /\ origins' \subseteq Origins'
      /\ origin' # << >> /\ origin' \in Origins' \ origins'
  BY <1>1 DEF EmvInv
<1>3. Walking(Components, semantic, Receivers(origin[2]), origin[1], calls, visited, downstream, via)'
  BY <1>1
<1>4. (\A c \in chains : /\ <<c.origin, c.type>> \in Origins \ origins
                         /\ calls # << >> => origin # <<c.origin, c.type>>)'
  BY <1>1 DEF EmvInv
<1>5. (emv # "wait" => \A p \in Origins \ origins : calls = << >> \/ p # origin =>
         Recorded(Components, semantic, Receivers(p[2]), p[1], p[2], chains))'
  BY <1>1 DEF EmvInv
<1> QED
  BY <1>2, <1>3, <1>4, <1>5 DEF EmvInv

(* The other passes leave the traversal alone. *)
LEMMA EmvUnchanged ==
    ASSUME EmvInv, UNCHANGED <<instance, emvVars>>, emv # "wait" => UNCHANGED <<stage, semantic>>
    PROVE  EmvInv'
<1>1. /\ Components' = Components /\ Origins' = Origins /\ \A t : Receivers(t)' = Receivers(t)
      /\ UNCHANGED <<emv, origins, origin, calls, visited, downstream, via, chains>>
  BY EmvSame DEF emvVars
<1>2. CASE emv = "wait"
  BY <1>1, <1>2 DEF EmvInv
<1>3. CASE emv # "wait"
  <2>1. stage' = stage /\ semantic' = semantic
    BY <1>3
  <2> QED
    BY <1>1, <2>1 DEF EmvInv
<1> QED
  BY <1>2, <1>3

(* The error pass starts. *)
LEMMA StartEmvKeeps ==
    ASSUME EmvInv, StartEmv
    PROVE  EmvInv'
<1>1. /\ instance' = instance /\ stage' = "done" /\ emv = "wait" /\ emv' = "run" /\ origins' = Origins
      /\ UNCHANGED <<origin, calls, visited, downstream, via, chains>>
  BY DEF StartEmv, connVars, Origins
<1>2. Origins' = Origins
  BY <1>1, EmvSame
<1>3. origin = << >> /\ chains = {} /\ calls = << >> /\ visited = {} /\ downstream = << >> /\ via = << >>
  BY <1>1 DEF EmvInv
<1> QED
  BY <1>1, <1>2, <1>3 DEF EmvInv

(* A traversal starts. *)
LEMMA TraversalKeeps ==
    ASSUME EmvInv, Traces, NEW k, NEW t, StartTraversal(k, t)
    PROVE  EmvInv'
<1>1. /\ UNCHANGED connVars /\ emv = "run" /\ emv' = "run" /\ calls = << >> /\ <<k, t>> \in origins
      /\ origins' = origins \ {<<k, t>>} /\ origin' = <<k, t>>
      /\ calls' = <<[at |-> k, todo |-> Outgoing(k)]>>
      /\ visited' = {k} /\ downstream' = << >> /\ via' = << >> /\ chains' = chains
  BY DEF StartTraversal
<1>2. /\ Components' = Components /\ Origins' = Origins /\ \A x : Receivers(x)' = Receivers(x)
      /\ stage' = stage /\ semantic' = semantic
  BY <1>1, EmvSame DEF connVars
<1>3. <<k, t>> \in Origins /\ origins \subseteq Origins
  BY <1>1 DEF EmvInv
<1>4. k \in Components
  <2>1. PICK p : p = <<k, t>>
    OBVIOUS
  <2>2. p[1] \in Components
    BY <1>3, <2>1, OriginsAre
  <2> QED
    BY <2>1, <2>2
<1>5. Walking(Components, semantic, Receivers(t), k, calls', visited', downstream', via')
  <2>1. PICK K, s, R, u : K = Components /\ s = semantic /\ R = Receivers(t) /\ u = Outgoing(k)
    OBVIOUS
  <2>2. u \in Seq(Hops(s, k)) /\ ToSet(u) = Hops(s, k) /\ k \in K
    BY <1>4, <2>1, OutgoingIs
  <2>3. Walking(K, s, R, k, <<[at |-> k, todo |-> u]>>, {k}, << >>, << >>)
    BY ONLY <2>2, WalkBegins
  <2> QED
    BY <1>1, <2>1, <2>3
<1>6. origin' # << >> /\ origin'[1] = k /\ origin'[2] = t
  BY <1>1
<1>7. Walking(Components, semantic, Receivers(origin[2]), origin[1], calls, visited, downstream, via)'
  BY <1>2, <1>5, <1>6
<1>8. /\ emv' \in {"wait", "run", "done"} /\ emv' # "wait" /\ emv' # "done" /\ stage' = "done"
      /\ origins' \subseteq Origins' /\ origin' \in Origins' \ origins'
  BY <1>1, <1>2, <1>3 DEF EmvInv
<1>9. (\A c \in chains : /\ <<c.origin, c.type>> \in Origins \ origins
                         /\ calls # << >> => origin # <<c.origin, c.type>>)'
  <2>1. \A c \in chains : <<c.origin, c.type>> \in Origins \ origins
    BY DEF EmvInv
  <2>2. \A c \in chains : <<c.origin, c.type>> # <<k, t>> /\ <<c.origin, c.type>> \notin origins'
    BY <1>1, <2>1
  <2> QED
    BY <1>1, <1>2, <2>1, <2>2
<1>10. (\A p \in Origins \ origins : calls = << >> \/ p # origin =>
         Recorded(Components, semantic, Receivers(p[2]), p[1], p[2], chains))'
  <2>1. \A p \in Origins \ origins : Recorded(Components, semantic, Receivers(p[2]), p[1], p[2], chains)
    BY <1>1 DEF EmvInv
  <2>2. \A p \in Origins \ origins' : p # <<k, t>> => p \in Origins \ origins
    BY <1>1
  <2>3. calls' # << >>
    BY <1>1
  <2>4. ASSUME NEW p \in Origins \ origins', p # <<k, t>>
        PROVE  Recorded(Components', semantic', Receivers(p[2])', p[1], p[2], chains')
    BY <1>1, <1>2, <2>1, <2>2, <2>4
  <2> QED
    BY <1>1, <1>2, <2>3, <2>4
<1> QED
  BY <1>6, <1>7, <1>8, <1>9, <1>10 DEF EmvInv

(* The traversal visits a component. *)
LEMMA VisitKeeps ==
    ASSUME EmvInv, Traces, Visit
    PROVE  EmvInv'
<1>1. /\ UNCHANGED <<connVars, emv, origins, origin, chains>> /\ calls # << >> /\ Last(calls).todo # << >>
      /\ Takes(Neighbor.to) /\ visited' = visited \cup {Neighbor.to}
      /\ downstream' = Append(downstream, Neighbor.to) /\ via' = Append(via, Neighbor.conn)
      /\ calls' = Append(Rest, [at |-> Neighbor.to, todo |-> Outgoing(Neighbor.to)])
  BY DEF Visit
<1>2. origin # << >>
  BY <1>1 DEF EmvInv
<1>3. Walking(Components, semantic, Receivers(origin[2]), origin[1], calls, visited, downstream, via)
  BY <1>2 DEF EmvInv
<1>4. PICK K, s, R, o, C, V, D, W :
          /\ K = Components /\ s = semantic /\ R = Receivers(origin[2]) /\ o = origin[1]
          /\ C = calls /\ V = visited /\ D = downstream /\ W = via
  OBVIOUS
<1>5. Walking(K, s, R, o, C, V, D, W)
  BY <1>3, <1>4
<1>6. PICK h, t : h = Head(Last(C).todo) /\ t = Outgoing(h.to)
  OBVIOUS
<1>7. C # << >> /\ Last(C).todo # << >> /\ h = Neighbor
  BY <1>1, <1>4, <1>6 DEF Neighbor
<1>8. h.to \in K
  <2>1. C \in Seq(Frames(s, V))
    BY <1>5 DEF Walking
  <2>2. Head(Last(C).todo) \in Hops(s, Last(C).at)
    BY ONLY <1>7, <2>1, PoppedIs
  <2> QED
    BY <1>4, <1>6, <2>2, HopsLead
<1>9. R \in SUBSET K /\ h.to \in R /\ h.to \notin V
  BY <1>1, <1>4, <1>7, <1>8 DEF Takes, Receivers, Receives
<1>10. t \in Seq(Hops(s, h.to)) /\ ToSet(t) = Hops(s, h.to)
  BY <1>4, <1>6, OutgoingIs
<1>11. Walking(K, s, R, o, Append(Popped(C), [at |-> h.to, todo |-> t]), V \cup {h.to},
               Append(D, h.to), Append(W, h.conn))
  <2>1. C # << >> /\ Last(C).todo # << >> /\ h = Head(Last(C).todo)
    BY <1>6, <1>7
  <2> QED
    BY ONLY <1>5, <1>9, <1>10, <2>1, WalkVisits
<1>12. /\ calls' = Append(Popped(C), [at |-> h.to, todo |-> t]) /\ visited' = V \cup {h.to}
       /\ downstream' = Append(D, h.to) /\ via' = Append(W, h.conn)
  BY <1>1, <1>4, <1>6, <1>7 DEF Rest, Popped
<1>13. calls' # << >>
  <2>1. C \in Seq(Frames(s, V))
    BY <1>5 DEF Walking
  <2>2. Popped(C) \in Seq(Frames(s, V))
    BY ONLY <1>7, <2>1, PoppedIs
  <2>3. \A X : \A p \in Seq(X) : \A x : Append(p, x) # << >>
    <3> SUFFICES ASSUME NEW X, NEW p \in Seq(X), NEW x PROVE Append(p, x) # << >>
      OBVIOUS
    <3>1. Len(Append(p, x)) = Len(p) + 1 /\ Len(p) \in Nat
      BY AppendToSet, ToSetOfSeq
    <3>2. Len(<< >>) = 0
      OBVIOUS
    <3> QED
      BY <3>1, <3>2
  <2> QED
    BY <1>12, <2>2, <2>3
<1>14. Walking(Components, semantic, Receivers(origin[2]), origin[1], calls', visited', downstream', via')
  BY <1>4, <1>11, <1>12
<1> QED
  BY <1>1, <1>2, <1>13, <1>14, EmvWalks

(* The traversal passes over a hop. *)
LEMMA PassKeeps ==
    ASSUME EmvInv, Traces, Pass
    PROVE  EmvInv'
<1>1. /\ UNCHANGED <<connVars, emv, origins, origin, visited, downstream, via, chains>>
      /\ calls # << >> /\ Last(calls).todo # << >> /\ ~Takes(Neighbor.to) /\ calls' = Rest
  BY DEF Pass
<1>2. origin # << >>
  BY <1>1 DEF EmvInv
<1>3. Walking(Components, semantic, Receivers(origin[2]), origin[1], calls, visited, downstream, via)
  BY <1>2 DEF EmvInv
<1>4. PICK K, s, R, o, C, V, D, W :
          /\ K = Components /\ s = semantic /\ R = Receivers(origin[2]) /\ o = origin[1]
          /\ C = calls /\ V = visited /\ D = downstream /\ W = via
  OBVIOUS
<1>5. Walking(K, s, R, o, C, V, D, W)
  BY <1>3, <1>4
<1>6. PICK h : h = Head(Last(C).todo)
  OBVIOUS
<1>7. C # << >> /\ Last(C).todo # << >> /\ h = Neighbor
  BY <1>1, <1>4, <1>6 DEF Neighbor
<1>8. h.to \in V \/ h.to \notin R
  BY <1>1, <1>4, <1>7 DEF Takes, Receivers, Receives
<1>9. Walking(K, s, R, o, Popped(C), V, D, W)
  <2>1. C # << >> /\ Last(C).todo # << >>
    BY <1>7
  <2> QED
    BY ONLY <1>5, <1>6, <1>8, <2>1, WalkPasses
<1>10. calls' = Popped(C)
  BY <1>1, <1>4 DEF Rest, Popped
<1>11. calls' # << >>
  <2>1. C \in Seq(Frames(s, V))
    BY <1>5 DEF Walking
  <2>2. DOMAIN Popped(C) = DOMAIN C
    BY ONLY <1>7, <2>1, PoppedIs
  <2>3. DOMAIN C # {} /\ DOMAIN << >> = {}
    <3>1. Len(C) \in DOMAIN C
      BY ONLY <1>7, <2>1, FrontAndLast
    <3> QED
      BY <3>1
  <2> QED
    BY <1>10, <2>2, <2>3
<1>12. Walking(Components, semantic, Receivers(origin[2]), origin[1], calls', visited', downstream', via')
  BY <1>1, <1>4, <1>9, <1>10
<1> QED
  BY <1>1, <1>2, <1>11, <1>12, EmvWalks

(* The outermost call records what the traversal has found. *)
LEMMA RecordsIt ==
    ASSUME NEW K, NEW s, NEW R, NEW k, NEW t, NEW V, NEW D, NEW W, NEW Ch, NEW Ch2,
           Walking(K, s, R, k, << >>, V, D, W),
           {c \in Ch : c.origin = k /\ c.type = t} = {},
           Ch2 = IF D # << >> THEN Ch \cup {[origin |-> k, type |-> t, downstream |-> D, via |-> W]} ELSE Ch
    PROVE  Recorded(K, s, R, k, t, Ch2)
<1>1. /\ Least(K, s, R, k, ToSet(D)) /\ Cardinality(ToSet(D)) = Len(D) /\ (D = << >> <=> ToSet(D) = {})
  BY WalkEnds
<1>2. ToSet(D) \in SUBSET K
  BY <1>1 DEF Least
<1>3. CASE D = << >>
  BY <1>1, <1>2, <1>3 DEF Recorded
<1>4. CASE D # << >>
  <2>1. PICK c : c = [origin |-> k, type |-> t, downstream |-> D, via |-> W]
    OBVIOUS
  <2>2. c.origin = k /\ c.type = t /\ c.downstream = D /\ Ch2 = Ch \cup {c}
    BY <1>4, <2>1
  <2>3. {x \in Ch2 : x.origin = k /\ x.type = t} = {c} /\ c \in Ch2
    BY <2>2
  <2> QED
    BY <1>1, <1>2, <1>4, <2>2, <2>3 DEF Recorded
<1> QED
  BY <1>3, <1>4

(* A chain more for another pair changes nothing. *)
LEMMA RecordedStays ==
    ASSUME NEW K, NEW s, NEW R, NEW k, NEW t, NEW Ch, NEW c, Recorded(K, s, R, k, t, Ch),
           <<c.origin, c.type>> # <<k, t>>
    PROVE  Recorded(K, s, R, k, t, Ch \cup {c})
<1>1. {x \in Ch \cup {c} : x.origin = k /\ x.type = t} = {x \in Ch : x.origin = k /\ x.type = t}
  OBVIOUS
<1> QED
  BY <1>1 DEF Recorded

(* The traversal returns, and reports at its end. *)
LEMMA ReturnKeeps ==
    ASSUME EmvInv, Traces, Return
    PROVE  EmvInv'
<1>1. /\ UNCHANGED <<connVars, emv, origins, origin, visited, downstream, via>> /\ emv = "run"
      /\ calls # << >> /\ Last(calls).todo = << >> /\ calls' = Front(calls)
      /\ chains' = IF Len(calls) = 1 /\ downstream # << >>
                   THEN chains \cup {[origin |-> origin[1], type |-> origin[2],
                                      downstream |-> downstream, via |-> via]}
                   ELSE chains
  BY DEF Return
<1>2. origin # << >> /\ origin \in Origins \ origins
  BY <1>1 DEF EmvInv
<1>3. Walking(Components, semantic, Receivers(origin[2]), origin[1], calls, visited, downstream, via)
  BY <1>2 DEF EmvInv
<1>4. PICK K, s, R, o, C, V, D, W :
          /\ K = Components /\ s = semantic /\ R = Receivers(origin[2]) /\ o = origin[1]
          /\ C = calls /\ V = visited /\ D = downstream /\ W = via
  OBVIOUS
<1>5. Walking(K, s, R, o, C, V, D, W) /\ C # << >> /\ Last(C).todo = << >>
  BY <1>1, <1>3, <1>4
<1>6. Walking(K, s, R, o, Front(C), V, D, W)
  BY ONLY <1>5, WalkReturns
<1>7. /\ Front(C) \in Seq(Frames(s, V)) /\ Len(Front(C)) = Len(C) - 1 /\ Len(C) \in Nat \ {0}
  <2>1. C \in Seq(Frames(s, V))
    BY <1>5 DEF Walking
  <2> QED
    BY ONLY <1>5, <2>1, FrontAndLast
<1>8. Walking(Components, semantic, Receivers(origin[2]), origin[1], calls', visited', downstream', via')
  BY <1>1, <1>4, <1>6
<1>9. CASE Len(C) # 1
  <2>1. calls' # << >>
    BY <1>1, <1>4, <1>7, <1>9
  <2>2. chains' = chains
    BY <1>1, <1>4, <1>9
  <2> QED
    BY <1>1, <1>2, <1>8, <2>1, <2>2, EmvWalks
<1>10. CASE Len(C) = 1
  <2>1. calls' = << >> /\ Front(C) = << >>
    BY <1>1, <1>4, <1>7, <1>10
  <2>2. /\ Components' = Components /\ Origins' = Origins /\ \A x : Receivers(x)' = Receivers(x)
        /\ stage' = stage /\ semantic' = semantic
    BY <1>1, EmvSame DEF connVars
  <2>3. PICK t, c : t = origin[2] /\ c = [origin |-> o, type |-> t, downstream |-> D, via |-> W]
    OBVIOUS
  <2>4. origin = <<o, t>> /\ c.origin = o /\ c.type = t /\ c.downstream = D /\ c.via = W
    BY <1>2, <1>4, <2>3, OriginsAre
  <2>5. chains' = IF D # << >> THEN chains \cup {c} ELSE chains
    BY <1>1, <1>4, <1>10, <2>3
  <2>6. \A x \in chains : <<x.origin, x.type>> \in Origins \ origins /\ origin # <<x.origin, x.type>>
    BY <1>1 DEF EmvInv
  <2>8. (\A x \in chains : /\ <<x.origin, x.type>> \in Origins \ origins
                           /\ calls # << >> => origin # <<x.origin, x.type>>)'
    <3>1. \A x \in chains' : <<x.origin, x.type>> \in Origins \ origins
      BY <1>2, <1>4, <2>4, <2>5, <2>6
    <3> QED
      BY <1>1, <1>4, <2>1, <2>2, <3>1
  <2>9. ASSUME NEW p \in Origins \ origins
        PROVE  Recorded(Components, semantic, Receivers(p[2]), p[1], p[2], chains')
    <3>1. PICK Ch, Ch2 : Ch = chains /\ Ch2 = chains'
      OBVIOUS
    <3>2. CASE p = origin
      <4>1. {x \in Ch : x.origin = o /\ x.type = t} = {}
        BY <2>4, <2>6, <3>1
      <4>2. Walking(K, s, R, o, << >>, V, D, W)
        BY <1>6, <2>1
      <4>3. Ch2 = IF D # << >> THEN Ch \cup {[origin |-> o, type |-> t, downstream |-> D, via |-> W]} ELSE Ch
        BY <2>3, <2>5, <3>1
      <4>4. Recorded(K, s, R, o, t, Ch2)
        BY ONLY <4>1, <4>2, <4>3, RecordsIt
      <4> QED
        BY <1>4, <2>3, <3>1, <3>2, <4>4
    <3>3. CASE p # origin
      <4>1. PICK R2, k2, t2 : R2 = Receivers(p[2]) /\ k2 = p[1] /\ t2 = p[2]
        OBVIOUS
      <4>2. Recorded(K, s, R2, k2, t2, Ch)
        BY <1>1, <1>4, <2>9, <3>1, <3>3, <4>1 DEF EmvInv
      <4>3. <<c.origin, c.type>> # <<k2, t2>>
        BY <2>4, <2>9, <3>3, <4>1, OriginsAre
      <4>4. Recorded(K, s, R2, k2, t2, Ch \cup {c})
        BY ONLY <4>2, <4>3, RecordedStays
      <4> QED
        BY <1>4, <2>5, <3>1, <4>1, <4>2, <4>4
    <3> QED
      BY <3>2, <3>3
  <2>10. (\A p \in Origins \ origins : calls = << >> \/ p # origin =>
             Recorded(Components, semantic, Receivers(p[2]), p[1], p[2], chains))'
    BY <1>1, <2>2, <2>9
  <2>11. Walking(Components, semantic, Receivers(origin[2]), origin[1], calls, visited, downstream, via)'
    BY <1>1, <1>8, <2>2
  <2>12. /\ emv' = "run" /\ stage' = "done" /\ origins' \subseteq Origins'
         /\ origin' # << >> /\ origin' \in Origins' \ origins'
    BY <1>1, <1>2, <2>2 DEF EmvInv
  <2> QED
    BY <2>8, <2>10, <2>11, <2>12 DEF EmvInv
<1> QED
  BY <1>9, <1>10

(* Every step keeps the traversal and the reports right. *)
LEMMA EmvStep ==
    ASSUME EmvInv, Traces, [Next]_vars
    PROVE  EmvInv'
<1>1. CASE Instantiate
  <2>1. stage # "done" /\ instance' = instance /\ UNCHANGED emvVars
    BY <1>1 DEF Instantiate, ConnNext, InstantiateConnection, MissingEnd, TraceAcross, TraceRoot,
                TraceSkip, Tracing, Expand, LoopEnd, Advance
  <2>2. emv = "wait"
    BY <2>1 DEF EmvInv
  <2> QED
    BY <2>1, <2>2, EmvUnchanged
<1>2. CASE Emv2Pass
  <2>1. CASE StartEmv
    BY <2>1, StartEmvKeeps
  <2>2. CASE \E o \in origins : StartTraversal(o[1], o[2])
    <3>1. PICK o \in origins : StartTraversal(o[1], o[2])
      BY <2>2
    <3>2. PICK k, t : k = o[1] /\ t = o[2]
      OBVIOUS
    <3>3. StartTraversal(k, t)
      BY <3>1, <3>2
    <3> QED
      BY <3>3, TraversalKeeps
  <2>3. CASE Visit
    BY <2>3, VisitKeeps
  <2>4. CASE Pass
    BY <2>4, PassKeeps
  <2>5. CASE Return
    BY <2>5, ReturnKeeps
  <2>6. CASE FinishEmv
    <3>1. /\ emv = "run" /\ emv' = "done" /\ calls = << >> /\ origins = {}
          /\ UNCHANGED <<connVars, origins, origin, calls, visited, downstream, via, chains>>
      BY <2>6 DEF FinishEmv
    <3>2. /\ Components' = Components /\ Origins' = Origins /\ \A x : Receivers(x)' = Receivers(x)
          /\ stage' = stage /\ semantic' = semantic
      BY <3>1, EmvSame DEF connVars
    <3> QED
      BY <3>1, <3>2 DEF EmvInv
  <2> QED
    BY <1>2, <2>1, <2>2, <2>3, <2>4, <2>5, <2>6 DEF Emv2Pass, EmvNext
<1>3. CASE ModePass
  <2>1. UNCHANGED connVars /\ UNCHANGED emvVars
    BY <1>3 DEF ModePass, ModeNext, StartMode, EnterComponent, SearchStep, NextRow, FinishComponent,
                FinishMode, connVars
  <2> QED
    BY <2>1, EmvUnchanged DEF connVars
<1>4. CASE UNCHANGED vars
  <2>1. UNCHANGED connVars /\ UNCHANGED emvVars
    BY <1>4 DEF vars
  <2> QED
    BY <2>1, EmvUnchanged DEF connVars
<1> QED
  BY <1>1, <1>2, <1>3, <1>4 DEF Next

(* The error pass keeps its invariant. *)
THEOREM EmvInvariant == Spec => []EmvInv
<1>1. Init => EmvInv
  BY DEF Init, EmvInit, EmvInv
<1>2. EmvInv /\ ConnInv /\ [Next]_vars => EmvInv'
  BY EmvStep DEF ConnInv
<1> QED
  BY <1>1, <1>2, ConnectionsInvariant, PTL DEF Spec

(* A set that takes in whatever receives the error from the origin or from it, and *)
(* the least one: what `traverse` goes through (emv2_propagation.rs:375-420).      *)
Closed(S, o, t) ==
    \A a \in S \cup {o}, b \in Components : Connected(a, b) /\ Receives(b, t) => b \in S \cup {o}
Affected(o, t) ==
    CHOOSE S \in SUBSET (Components \ {o}) :
        /\ Closed(S, o, t)
        /\ \A R \in SUBSET (Components \ {o}) : Closed(R, o, t) => S \subseteq R

(* The pass names, once each, exactly the members of that set, and reports no      *)
(* chain exactly where it is empty.                                                *)
ChainsExact ==
    emv = "done" =>
        \A k \in Components : \A t \in out_error_types(k) :
            LET hit == Affected(k, t) IN
            IF hit = {} THEN ChainsOf(k, t) = {}
            ELSE \E c \in chains : /\ ChainsOf(k, t) = {c}
                                   /\ ToSet(c.downstream) = hit
                                   /\ Len(c.downstream) = Cardinality(hit)

(* The closed sets in terms of the hops the search takes. *)
LEMMA ShutIsClosed ==
    ASSUME Traces, NEW S, NEW o, NEW t
    PROVE  Shut(semantic, Receivers(t), o, S) <=> Closed(S, o, t)
<1>1. ASSUME Shut(semantic, Receivers(t), o, S), NEW a \in S \cup {o}, NEW b \in Components,
             Connected(a, b), Receives(b, t)
      PROVE  b \in S \cup {o}
  <2>1. PICK i \in DOMAIN semantic : semantic[i].src[1] = a /\ semantic[i].dst[1] = b
    BY <1>1 DEF Connected
  <2>2. PICK h : h = [to |-> semantic[i].dst[1], conn |-> Last(semantic[i].path)]
    OBVIOUS
  <2>3. h \in Hops(semantic, a) /\ h.to = b
    BY <2>1, <2>2 DEF Hops
  <2>4. b \in Receivers(t)
    BY <1>1 DEF Receivers
  <2> QED
    BY <1>1, <2>3, <2>4 DEF Shut
<1>2. ASSUME Closed(S, o, t), NEW a \in S \cup {o}, NEW h \in Hops(semantic, a), h.to \in Receivers(t)
      PROVE  h.to \in S \cup {o}
  <2>1. PICK i \in DOMAIN semantic : /\ semantic[i].src[1] = a
                                     /\ h = [to |-> semantic[i].dst[1], conn |-> Last(semantic[i].path)]
    BY <1>2 DEF Hops
  <2>2. semantic[i].dst[1] = h.to
    BY <2>1
  <2>3. Connected(a, h.to)
    BY <2>1, <2>2 DEF Connected
  <2>4. h.to \in Components /\ Receives(h.to, t)
    BY <1>2 DEF Receivers
  <2> QED
    BY <1>2, <2>3, <2>4 DEF Closed
<1> QED
  BY <1>1, <1>2 DEF Shut, Closed

(* The least closed set is the set of components affected. *)
LEMMA LeastIsAffected ==
    ASSUME Traces, NEW S, NEW o, NEW t, Least(Components, semantic, Receivers(t), o, S)
    PROVE  Affected(o, t) = S
<1> DEFINE Is(X) == /\ Closed(X, o, t)
                    /\ \A R \in SUBSET (Components \ {o}) : Closed(R, o, t) => X \subseteq R
<1>1. S \in SUBSET (Components \ {o}) /\ Is(S)
  BY ShutIsClosed DEF Least
<1>2. \A X \in SUBSET (Components \ {o}) : Is(X) => X = S
  BY <1>1
<1> QED
  BY <1>1, <1>2 DEF Affected

(* ChainsExact: for every instance, what the error pass reports for an origin is, *)
(* once each, exactly the components it comes to over receivers, whether or not   *)
(* they send the error on, and no chain where there are none.                     *)
THEOREM ChainsAreExact == Spec => []ChainsExact
<1>1. EmvInv /\ ConnInv => ChainsExact
  <2> SUFFICES ASSUME EmvInv, Traces, emv = "done", NEW k \in Components, NEW t \in out_error_types(k)
               PROVE  LET Chains == {c \in chains : c.origin = k /\ c.type = t}
                          hit == Affected(k, t) IN
                      IF hit = {} THEN Chains = {}
                      ELSE \E c \in chains : /\ Chains = {c}
                                             /\ ToSet(c.downstream) = hit
                                             /\ Len(c.downstream) = Cardinality(hit)
    BY DEF ChainsExact, ChainsOf, ConnInv
  <2>1. PICK p : p = <<k, t>>
    OBVIOUS
  <2>2. p \in Origins /\ p[1] = k /\ p[2] = t
    BY <2>1 DEF Origins
  <2>3. Recorded(Components, semantic, Receivers(t), k, t, chains)
    <3>1. Recorded(Components, semantic, Receivers(p[2]), p[1], p[2], chains)
      BY <2>2 DEF EmvInv
    <3> QED
      BY <2>2, <3>1
  <2>4. PICK S : /\ Least(Components, semantic, Receivers(t), k, S)
                 /\ IF S = {} THEN {c \in chains : c.origin = k /\ c.type = t} = {}
                    ELSE \E c \in chains : /\ {x \in chains : x.origin = k /\ x.type = t} = {c}
                                           /\ ToSet(c.downstream) = S
                                           /\ Len(c.downstream) = Cardinality(S)
    BY <2>3 DEF Recorded
  <2>5. Affected(k, t) = S
    BY <2>4, LeastIsAffected
  <2> QED
    BY <2>4, <2>5
<1> QED
  BY <1>1, EmvInvariant, ConnectionsInvariant, PTL

(* There is a least set of components that relay an error of the origin. *)
LEMMA RequiredIsLeast ==
    ASSUME NEW o, NEW t
    PROVE  /\ Required(o, t) \in SUBSET (Components \ {o})
           /\ Relayed(Required(o, t), o, t)
           /\ \A R \in SUBSET (Components \ {o}) : Relayed(R, o, t) => Required(o, t) \subseteq R
<1> DEFINE Is(X) == /\ Relayed(X, o, t)
                    /\ \A R \in SUBSET (Components \ {o}) : Relayed(R, o, t) => X \subseteq R
           I == {k \in Components \ {o} :
                    \A R \in SUBSET (Components \ {o}) : Relayed(R, o, t) => k \in R}
<1>1. Relayed(I, o, t)
  <2> SUFFICES ASSUME NEW a \in I \cup {o}, NEW b \in Components, a = o \/ Sends(a, t),
                      Connected(a, b), Receives(b, t), b # o
               PROVE  b \in I
    BY DEF Relayed
  <2> SUFFICES ASSUME NEW R \in SUBSET (Components \ {o}), Relayed(R, o, t)
               PROVE  b \in R
    OBVIOUS
  <2>1. a \in R \cup {o}
    OBVIOUS
  <2> QED
    BY <2>1 DEF Relayed
<1>2. I \in SUBSET (Components \ {o}) /\ Is(I)
  BY <1>1
<1> HIDE DEF I
<1>3. \E X \in SUBSET (Components \ {o}) : Is(X)
  BY <1>2
<1> QED
  BY <1>3 DEF Required

(* And a least set of components the search goes through. *)
LEMMA AffectedIsLeast ==
    ASSUME NEW o, NEW t
    PROVE  /\ Affected(o, t) \in SUBSET (Components \ {o})
           /\ Closed(Affected(o, t), o, t)
           /\ \A R \in SUBSET (Components \ {o}) : Closed(R, o, t) => Affected(o, t) \subseteq R
<1> DEFINE Is(X) == /\ Closed(X, o, t)
                    /\ \A R \in SUBSET (Components \ {o}) : Closed(R, o, t) => X \subseteq R
           I == {k \in Components \ {o} :
                    \A R \in SUBSET (Components \ {o}) : Closed(R, o, t) => k \in R}
<1>1. Closed(I, o, t)
  <2> SUFFICES ASSUME NEW a \in I \cup {o}, NEW b \in Components,
                      Connected(a, b), Receives(b, t), b # o
               PROVE  b \in I
    BY DEF Closed
  <2> SUFFICES ASSUME NEW R \in SUBSET (Components \ {o}), Closed(R, o, t)
               PROVE  b \in R
    OBVIOUS
  <2>1. a \in R \cup {o}
    OBVIOUS
  <2> QED
    BY <2>1 DEF Closed
<1>2. I \in SUBSET (Components \ {o}) /\ Is(I)
  BY <1>1
<1> HIDE DEF I
<1>3. \E X \in SUBSET (Components \ {o}) : Is(X)
  BY <1>2
<1> QED
  BY <1>3 DEF Affected

(* The affected components take in the required ones, receive the error all, and  *)
(* are no more where all the required ones send it on.                            *)
LEMMA AffectedAndRequired ==
    ASSUME NEW o, NEW t
    PROVE  /\ Required(o, t) \subseteq Affected(o, t)
           /\ \A k \in Affected(o, t) : k # o /\ Receives(k, t)
           /\ (\A k \in Required(o, t) : Sends(k, t)) => Affected(o, t) = Required(o, t)
<1>1. Required(o, t) \subseteq Affected(o, t)
  <2>1. Relayed(Affected(o, t), o, t)
    BY AffectedIsLeast DEF Closed, Relayed
  <2> QED
    BY <2>1, AffectedIsLeast, RequiredIsLeast
<1>2. \A k \in Affected(o, t) : k # o /\ Receives(k, t)
  <2> DEFINE R == {k \in Affected(o, t) : Receives(k, t)}
  <2>1. Closed(R, o, t)
    BY AffectedIsLeast DEF Closed
  <2>2. R \in SUBSET (Components \ {o})
    BY AffectedIsLeast
  <2> QED
    BY <2>1, <2>2, AffectedIsLeast
<1>3. ASSUME \A k \in Required(o, t) : Sends(k, t)
      PROVE  Affected(o, t) \subseteq Required(o, t)
  <2>1. Closed(Required(o, t), o, t)
    BY <1>3, RequiredIsLeast DEF Closed, Relayed
  <2> QED
    BY <2>1, AffectedIsLeast, RequiredIsLeast
<1> QED
  BY <1>1, <1>2, <1>3

(* ChainsComplete: for every instance, connections in circles included, the error *)
(* pass names every component that REQ-EMV2-PROPAGATION-001 requires, nobody      *)
(* twice, nobody who does not receive the error, and nobody else where all of     *)
(* them send it on (emv2_propagation.rs:318-418).                                 *)
THEOREM ChainsAreComplete == Spec => []ChainsComplete
<1>1. ChainsExact => ChainsComplete
  <2> SUFFICES ASSUME ChainsExact, emv = "done", NEW o \in Components, NEW t \in out_error_types(o)
               PROVE  LET due == Required(o, t) IN
                      /\ Cardinality(ChainsOf(o, t)) <= 1
                      /\ due # {} => ChainsOf(o, t) # {}
                      /\ \A c \in ChainsOf(o, t) :
                           LET named == ToSet(c.downstream) IN
                           /\ due \subseteq named /\ Len(c.downstream) = Cardinality(named)
                           /\ \A k \in named : k # o /\ Receives(k, t)
                           /\ (\A k \in due : Sends(k, t)) => named = due
    BY DEF ChainsComplete
  <2>1. PICK hit : hit = Affected(o, t)
    OBVIOUS
  <2>2. IF hit = {} THEN ChainsOf(o, t) = {}
        ELSE \E c \in chains : /\ ChainsOf(o, t) = {c}
                               /\ ToSet(c.downstream) = hit
                               /\ Len(c.downstream) = Cardinality(hit)
    BY <2>1 DEF ChainsExact
  <2>3. /\ Required(o, t) \subseteq hit
        /\ \A k \in hit : k # o /\ Receives(k, t)
        /\ (\A k \in Required(o, t) : Sends(k, t)) => hit = Required(o, t)
    BY <2>1, AffectedAndRequired
  <2>4. CASE hit = {}
    <3>1. ChainsOf(o, t) = {} /\ Required(o, t) = {}
      BY <2>2, <2>3, <2>4
    <3>2. Cardinality({}) = 0
      BY FS_EmptySet
    <3> QED
      BY <3>1, <3>2
  <2>5. CASE hit # {}
    <3>1. PICK c \in chains : /\ ChainsOf(o, t) = {c}
                              /\ ToSet(c.downstream) = hit
                              /\ Len(c.downstream) = Cardinality(hit)
      BY <2>2, <2>5
    <3>2. Cardinality({c}) = 1
      BY FS_Singleton
    <3> QED
      BY <2>3, <3>1, <3>2
  <2> QED
    BY <2>4, <2>5
<1> QED
  BY <1>1, ChainsAreExact, PTL

-----------------------------------------------------------------------------------
(* Types                                                                           *)

(* The passes in their order; nothing to search when no search is under way. *)
PassInv ==
    /\ mode \in {"wait", "run", "done"}
    /\ mode # "wait" => emv = "done"
    /\ start \in Nat /\ (start = 0 => work = << >>)

(* Every step keeps the order of the passes. *)
LEMMA PassStep ==
    ASSUME PassInv, [Next]_vars
    PROVE  PassInv'
<1>1. CASE Instantiate
  BY <1>1 DEF Instantiate, PassInv, emvVars, modeVars
<1>2. CASE Emv2Pass
  <2>1. UNCHANGED modeVars /\ emv # "done"
    BY <1>2 DEF Emv2Pass, EmvNext, StartEmv, StartTraversal, Visit, Pass, Return, FinishEmv
  <2> QED
    BY <2>1 DEF PassInv, modeVars
<1>3. CASE ModePass
  <2>1. emv = "done" /\ emv' = "done" /\ ModeNext
    BY <1>3 DEF ModePass, emvVars
  <2>2. CASE NextRow
    BY <2>1, <2>2 DEF PassInv, NextRow
  <2>3. CASE StartMode \/ EnterComponent \/ SearchStep \/ FinishComponent \/ FinishMode
    BY <2>1, <2>3 DEF PassInv, StartMode, EnterComponent, SearchStep, FinishComponent, FinishMode, NoRow
  <2> QED
    BY <2>1, <2>2, <2>3 DEF ModeNext
<1>4. CASE UNCHANGED vars
  BY <1>4 DEF PassInv, vars, emvVars, modeVars
<1> QED
  BY <1>1, <1>2, <1>3, <1>4 DEF Next

(* TypeOK of InstanceAnalyses: the semantic connections run between components,   *)
(* along connections; a pass starts when the one before it has ended; the sets of *)
(* each search agree.                                                             *)
THEOREM TypeCorrect == Spec => []TypeOK
<1>1. Init => PassInv
  BY DEF Init, ModeInit, PassInv
<1>2. PassInv /\ [Next]_vars => PassInv'
  BY PassStep
<1>3. ConnInv /\ EmvInv /\ ModeInv /\ PassInv => TypeOK
  <2> SUFFICES ASSUME ConnInv, EmvInv, ModeInv, PassInv PROVE TypeOK
    OBVIOUS
  <2>1. /\ stage \in {"build", "trace", "expand", "done"} /\ next \in 1..(Len(Declared) + 1)
        /\ \A c \in DOMAIN connections : connections[c].owner = Declared[c].owner
        /\ \A d \in diagnostics : d.conn \in DOMAIN connections
    BY DEF ConnInv
  <2>2. \A i \in DOMAIN semantic :
          /\ semantic[i].src[1] \in Components /\ semantic[i].dst[1] \in Components
          /\ semantic[i].path # << >> /\ ToSet(semantic[i].path) \subseteq DOMAIN connections
    <3> SUFFICES ASSUME NEW i \in DOMAIN semantic
                 PROVE  /\ semantic[i].src[1] \in Components /\ semantic[i].dst[1] \in Components
                        /\ semantic[i].path # << >> /\ ToSet(semantic[i].path) \subseteq DOMAIN connections
      OBVIOUS
    <3>1. PICK sc, C, w : sc = semantic[i] /\ C = DOMAIN connections /\ w = sc.path
      OBVIOUS
    <3>2. sc \in ToSet(semantic)
      BY <3>1 DEF ToSet
    <3>3. Sound(Components, C, sc)
      BY <3>1, <3>2 DEF ConnInv, Traces
    <3>4. w \in Seq(C) /\ w # << >> /\ sc.src[1] \in Components /\ sc.dst[1] \in Components
      BY <3>1, <3>3 DEF Sound
    <3>5. ToSet(w) \subseteq C
      BY <3>4, ToSetOfSeq
    <3> QED
      BY <3>1, <3>4, <3>5
  <2>3. /\ emv \in {"wait", "run", "done"} /\ mode \in {"wait", "run", "done"}
        /\ (emv # "wait" => stage = "done") /\ (mode # "wait" => emv = "done")
    BY DEF EmvInv, PassInv
  <2>4. visited = (IF origin = << >> THEN {} ELSE {origin[1]} \cup ToSet(downstream))
    BY DEF EmvInv, Walking
  <2>5. \A f \in DOMAIN calls : calls[f].at \in visited
    <3>1. CASE origin = << >>
      BY <3>1 DEF EmvInv
    <3>2. CASE origin # << >>
      <4>1. PICK C, s, V : C = calls /\ s = semantic /\ V = visited
        OBVIOUS
      <4>2. C \in Seq(Frames(s, V))
        BY <3>2, <4>1 DEF EmvInv, Walking
      <4>3. \A f \in DOMAIN C : C[f] \in Frames(s, V)
        BY ONLY <4>2, MemberOfSeq
      <4>4. \A f \in DOMAIN C : C[f].at \in V
        BY <4>3, FramesAre
      <4> QED
        BY <4>1, <4>4
    <3> QED
      BY <3>1, <3>2
  <2>6. start # 0 => Searching(at, start, seen, work, matrix)
    BY DEF ModeInv
  <2>7. start # 0 => seen \subseteq Modes(at) /\ start \in seen /\ Len(matrix) = start - 1
    BY <2>6 DEF Searching, Reached, Rows
  <2>8. \A m \in ToSet(work) : m \in seen
    <3>1. CASE start = 0
      BY <3>1 DEF PassInv, ToSet
    <3>2. CASE start # 0
      <4>1. PICK w, S : w = work /\ S = seen
        OBVIOUS
      <4>2. w \in Seq(S)
        BY <2>6, <3>2, <4>1 DEF Searching
      <4>3. ToSet(w) \subseteq S
        BY <4>2, ToSetOfSeq
      <4> QED
        BY <4>1, <4>3
    <3> QED
      BY <3>1, <3>2
  <2> QED
    BY <2>1, <2>2, <2>3, <2>4, <2>5, <2>7, <2>8 DEF TypeOK
<1> QED
  BY <1>1, <1>2, <1>3, ConnectionsInvariant, EmvInvariant, ModeInvariant, PTL DEF Spec

-----------------------------------------------------------------------------------
(* Dead triggers                                                                   *)

(* The triggers reported dead are those find_dead_transitions finds on the        *)
(* finished instance; before the mode pass nothing is reported.                   *)
DeadInv ==
    /\ mode = "wait" => reports = {}
    /\ \A r \in reports : r.dead = DeadTriggers(r.comp)

(* Every step keeps the dead triggers right. *)
LEMMA DeadStep ==
    ASSUME DeadInv, EmvInv, PassInv, [Next]_vars
    PROVE  DeadInv'
<1>1. CASE Instantiate
  <2>1. stage # "done"
    BY <1>1 DEF Instantiate, ConnNext, InstantiateConnection, MissingEnd, TraceAcross, TraceRoot,
                TraceSkip, Tracing, Expand, LoopEnd
  <2>2. mode = "wait" /\ reports = {} /\ UNCHANGED <<mode, reports>>
    BY <1>1, <2>1 DEF DeadInv, EmvInv, PassInv, Instantiate, modeVars
  <2> QED
    BY <2>2 DEF DeadInv
<1>2. CASE UNCHANGED connVars /\ UNCHANGED <<mode, reports>>
  <2>1. \A k : DeadTriggers(k)' = DeadTriggers(k)
    BY <1>2 DEF DeadTriggers, Fed, OwnConnections, Transitions, Comp, eq_ci, connVars
  <2> QED
    BY <1>2, <2>1 DEF DeadInv
<1>3. CASE ModePass
  <2>1. UNCHANGED connVars
    BY <1>3 DEF ModePass, ModeNext, StartMode, EnterComponent, SearchStep, NextRow, FinishComponent,
                FinishMode
  <2>2. \A k : DeadTriggers(k)' = DeadTriggers(k)
    BY <2>1 DEF DeadTriggers, Fed, OwnConnections, Transitions, Comp, eq_ci, connVars
  <2>3. CASE FinishComponent
    <3>1. mode = "run" /\ mode' = mode
      BY <2>3 DEF FinishComponent
    <3>2. \A r \in reports' : r \in reports \/ (r.comp = at /\ r.dead = DeadTriggers(at))
      BY <2>3 DEF FinishComponent
    <3>3. \A r \in reports' : r.dead = DeadTriggers(r.comp)
      BY <3>2 DEF DeadInv
    <3> QED
      BY <2>2, <3>1, <3>3 DEF DeadInv
  <2>4. CASE StartMode \/ EnterComponent \/ SearchStep \/ NextRow \/ FinishMode
    <3>1. UNCHANGED reports /\ mode' # "wait"
      BY <2>4 DEF StartMode, EnterComponent, SearchStep, NextRow, FinishMode
    <3> QED
      BY <2>2, <3>1 DEF DeadInv
  <2> QED
    BY <1>3, <2>3, <2>4 DEF ModePass, ModeNext
<1>4. CASE Emv2Pass
  <2>1. UNCHANGED connVars /\ UNCHANGED <<mode, reports>>
    BY <1>4 DEF Emv2Pass, EmvNext, StartEmv, StartTraversal, Visit, Pass, Return, FinishEmv, modeVars
  <2> QED
    BY <1>2, <2>1
<1>5. CASE UNCHANGED vars
  <2>1. UNCHANGED connVars /\ UNCHANGED <<mode, reports>>
    BY <1>5 DEF vars, modeVars
  <2> QED
    BY <1>2, <2>1
<1> QED
  BY <1>1, <1>3, <1>4, <1>5 DEF Next

(* A component that is no array element is found by its own name only. *)
LEMMA FoundByName ==
    ASSUME instance \in Instances, NEW o, NEW sub, NEW j \in DOMAIN find_children_by_name(o, sub),
           NEW k, find_children_by_name(o, sub)[j] = k, Comp(k).elem = 0
    PROVE  Comp(k).parent = o /\ Comp(k).name = sub.name /\ Comp(k).elem = sub.elem
<1> DEFINE exact == {c \in Children(o) : Comp(c).name = sub.name /\ Comp(c).elem = sub.elem}
<1> DEFINE elements == {c \in Children(o) : eq_ci(Comp(c).name, sub.name) /\ Comp(c).elem # 0}
<1> DEFINE found == IF exact # {} THEN exact ELSE IF sub.elem = 0 THEN elements ELSE {}
<1>1. find_children_by_name(o, sub) = InOrder(found, Len(instance.components))
  BY DEF find_children_by_name
<1>2. PICK S, n, q : S = found /\ n = Len(instance.components) /\ q = InOrder(S, n)
  OBVIOUS
<1>3. n \in Nat
  BY <1>2, InstanceAssumption
<1>4. ToSet(q) \subseteq S
  <2>1. ToSet(InOrder(S, n)) = S \cap (1..n)
    BY <1>3, InOrderIs
  <2>2. q = InOrder(S, n)
    BY <1>2
  <2> QED
    BY ONLY <2>1, <2>2
<1>5. k \in ToSet(q)
  BY <1>1, <1>2 DEF ToSet
<1>6. k \in found
  BY <1>2, <1>4, <1>5
<1> QED
  BY <1>6 DEF Children

(* DeadTriggersRight: for every instance, no connection leads into a port that is *)
(* reported as the trigger of a dead transition, unless the component is an       *)
(* element of an array (mode_reachability.rs:204-273).                            *)
THEOREM DeadTriggersAreDead == Spec => []DeadTriggersRight
<1>1. Init => DeadInv
  BY DEF Init, ModeInit, DeadInv
<1>2. DeadInv /\ EmvInv /\ PassInv /\ [Next]_vars => DeadInv'
  BY DeadStep
<1>3. Init => PassInv
  BY DEF Init, ModeInit, PassInv
<1>4. PassInv /\ [Next]_vars => PassInv'
  BY PassStep
<1>5. DeadInv /\ ModeInv => DeadTriggersRight
  <2> SUFFICES ASSUME DeadInv, ModeInv, NEW r \in reports, Comp(r.comp).elem = 0,
                      NEW d \in r.dead, Connects(r.comp, d[2])
               PROVE  FALSE
    BY DEF DeadTriggersRight
  <2>1. PICK k, x : k = r.comp /\ x = d[2]
    OBVIOUS
  <2>2. ~Fed(k, x)
    <3>1. d \in DeadTriggers(k)
      BY <2>1 DEF DeadInv
    <3>2. PICK t, g : d = <<t, g>> /\ ~Fed(k, g)
      BY <3>1 DEF DeadTriggers
    <3> QED
      BY <2>1, <3>2
  <2>3. PICK c \in DOMAIN connections :
           \E l \in LinksOf(c) : l[3][1] = k /\ Len(l[3][2]) = 1 /\ eq_ci(l[3][2][1], x)
    BY <2>1 DEF Connects, Links
  <2>4. PICK e, o, from, to :
           /\ e = connections[c].dst /\ o = connections[c].owner
           /\ from = Ends(c, connections[c].src) /\ to = Ends(c, e)
    OBVIOUS
  <2>5. HasEnds(c)
    BY <2>3 DEF LinksOf
  <2>6. PICK p \in (DOMAIN from) \X (DOMAIN to) :
           to[p[2]] = k /\ Len(e.feature) = 1 /\ eq_ci(e.feature[1], x)
    BY <2>3, <2>4, <2>5 DEF LinksOf
  <2>7. e # NoEnd /\ p[2] \in DOMAIN to
    BY <2>4, <2>5, <2>6 DEF HasEnds
  <2>8. CASE e.sub = NoSub
    <3>1. to = <<o>>
      BY <2>4, <2>8 DEF Ends
    <3>2. o = k
      BY <2>6, <2>7, <3>1
    <3>3. c \in OwnConnections(k)
      BY <2>4, <3>2 DEF OwnConnections
    <3> QED
      BY <2>2, <2>4, <2>6, <2>7, <2>8, <3>3 DEF Fed
  <2>9. CASE e.sub # NoSub
    <3>1. to = find_children_by_name(o, e.sub)
      BY <2>4, <2>9 DEF Ends
    <3>2. Comp(k).parent = o /\ Comp(k).name = e.sub.name /\ Comp(k).elem = e.sub.elem
      <4>1. instance \in Instances /\ Comp(k).elem = 0
        BY <2>1 DEF ModeInv
      <4>2. find_children_by_name(o, e.sub)[p[2]] = k /\ p[2] \in DOMAIN find_children_by_name(o, e.sub)
        BY <2>6, <2>7, <3>1
      <4> QED
        BY <4>1, <4>2, FoundByName
    <3>3. c \in OwnConnections(Comp(k).parent)
      BY <2>4, <3>2 DEF OwnConnections
    <3>4. eq_ci(e.sub.name, Comp(k).name)
      BY <3>2 DEF eq_ci
    <3> QED
      BY <2>2, <2>4, <2>6, <2>7, <2>9, <3>2, <3>3, <3>4 DEF Fed
  <2> QED
    BY <2>8, <2>9
<1> QED
  BY <1>1, <1>2, <1>3, <1>4, <1>5, EmvInvariant, ModeInvariant, PTL DEF Spec

-----------------------------------------------------------------------------------
(* No connection of a clean instance is lost                                       *)

(* Sequences joined hold what each of them holds. *)
LEMMA FlattenHas ==
    ASSUME NEW X, NEW ss \in Seq(Seq(X)), NEW m \in 1..Len(ss)
    PROVE  ToSet(ss[m]) \subseteq ToSet(FlattenSeq(ss))
<1> DEFINE n == Len(ss)
           g == CHOOSE x : IsFlat(ss, n, x)
<1>1. n \in Nat /\ n # 0 /\ \A i \in 1..n : ss[i] \in Seq(X)
  OBVIOUS
<1>2. IsFlat(ss, n, g)
  <2>1. \E x : IsFlat(ss, n, x)
    BY <1>1, FlatExists
  <2> QED
    BY <2>1
<1>3. FlattenSeq(ss) = g[n]
  BY <1>1, FlattenUnfolded
<1> HIDE DEF g, n
<1>4. \A i \in 1..n : g[i] = IF i = 1 THEN ss[i] ELSE g[i - 1] \o ss[i]
  BY <1>2 DEF IsFlat
<1> DEFINE Holds(i) == g[i] \in Seq(X) /\ \A k \in 1..i : ToSet(ss[k]) \subseteq ToSet(g[i])
           T == {i \in Nat : i + 1 \in 1..n => Holds(i + 1)}
<1>5. 0 \in T
  <2>1. 0 + 1 = 1 /\ \A k \in 1..1 : k = 1
    OBVIOUS
  <2>2. 1 \in 1..n => g[1] = ss[1] /\ ss[1] \in Seq(X)
    BY <1>1, <1>4
  <2>3. 1 \in 1..n => Holds(1)
    BY <2>1, <2>2
  <2> QED
    BY <2>1, <2>3
<1>6. ASSUME NEW i \in Nat, i \in T PROVE i + 1 \in T
  <2> DEFINE j == i + 1
  <2> SUFFICES ASSUME j + 1 \in 1..n PROVE Holds(j + 1)
    OBVIOUS
  <2>1. j \in 1..n /\ j + 1 # 1 /\ (j + 1) - 1 = j /\ \A k \in 1..(j + 1) : k \in 1..j \/ k = j + 1
    BY <1>1
  <2>2. Holds(j)
    BY <2>1, <1>6
  <2>3. g[j + 1] = g[j] \o ss[j + 1] /\ ss[j + 1] \in Seq(X)
    BY <2>1, <1>1, <1>4
  <2>4. g[j + 1] \in Seq(X) /\ ToSet(g[j + 1]) = ToSet(g[j]) \cup ToSet(ss[j + 1])
    <3>1. g[j] \o ss[j + 1] \in Seq(X \cup X) /\ ToSet(g[j] \o ss[j + 1]) = ToSet(g[j]) \cup ToSet(ss[j + 1])
      BY <2>2, <2>3, ConcatToSet
    <3>2. X \cup X = X
      OBVIOUS
    <3> QED
      BY <3>1, <3>2, <2>3
  <2> HIDE DEF j
  <2> QED
    BY <2>1, <2>2, <2>4
<1> HIDE DEF T, Holds
<1>7. \A i \in Nat : i \in T
  BY <1>5, <1>6, ClosedUnderSuccessor
<1>8. n - 1 \in T /\ (n - 1) + 1 = n /\ n \in 1..n
  BY <1>1, <1>7
<1>9. Holds(n)
  BY <1>8 DEF T
<1>10. m \in 1..n
  BY DEF n
<1> QED
  BY <1>3, <1>9, <1>10 DEF Holds

(* A trace that begins in Q, and whose hops do not leave Q, ends in Q. *)
LEMMA TracedWithin ==
    ASSUME NEW P, NEW Q \in SUBSET P, NEW C, NEW hops, DOMAIN hops = P,
           \A p \in Q : hops[p] \in Seq([conn : C, port : Q]), NEW port \in Q
    PROVE  Traced(hops, port) \in Seq([port : Q, path : Seq(C)]) /\ Traced(hops, port) # << >>
<1> DEFINE X == [port : Q, path : Seq(C)]
           n == MaxTraceDepth
           g == CHOOSE x : IsTrace(hops, n, x)
<1>1. n \in Nat
  BY InstanceAssumption
<1>2. IsTrace(hops, n, g)
  <2>1. \E x : IsTrace(hops, n, x)
    BY <1>1, TraceExists
  <2> QED
    BY <2>1
<1>3. Traced(hops, port) = g[n][port]
  BY TracedUnfolded
<1> HIDE DEF g, n
<1>4. \A d \in 0..n : g[d] = Level(hops, d, g[d - 1])
  BY <1>2 DEF IsTrace
<1>5. \A p \in Q : <<[port |-> p, path |-> << >>]>> \in Seq(X) /\ <<[port |-> p, path |-> << >>]>> # << >>
  OBVIOUS
<1> HIDE DEF X
<1> DEFINE Good(b) == \A p \in Q : b[p] \in Seq(X) \ {<< >>}
           T == {d \in Nat : d \in 0..n => Good(g[d])}
<1>6. ASSUME NEW d \in 0..n, NEW b, d # 0 => Good(b) PROVE Good(Level(hops, d, b))
  <2>1. ASSUME NEW p \in Q, d # 0 PROVE Deeper(hops, p, b) \in Seq(X)
    <3> DEFINE Y == [conn : C, port : Q]
               w == hops[p]
    <3>0. w \in Seq(Y)
      OBVIOUS
    <3> HIDE DEF Y, w
    <3>1. Len(w) \in Nat /\ DOMAIN w = 1..Len(w)
      BY <3>0
    <3>2. ASSUME NEW h \in DOMAIN w PROVE Prefixed(w[h].conn, b[w[h].port]) \in Seq(X)
      <4>1. w[h] \in Y
        BY <3>0, <3>2, MemberOfSeq
      <4>2. w[h].conn \in C /\ w[h].port \in Q
        BY <4>1 DEF Y
      <4>3. b[w[h].port] \in Seq(X)
        BY <1>6, <2>1, <4>2
      <4> QED
        BY <4>2, <4>3, PrefixedIs DEF X
    <3> DEFINE ss == [h \in DOMAIN w |-> Prefixed(w[h].conn, b[w[h].port])]
    <3>3. ss \in Seq(Seq(X))
      BY <3>1, <3>2
    <3> HIDE DEF ss
    <3>4. FlattenSeq(ss) \in Seq(X)
      BY <3>3, FlattenIs
    <3> QED
      BY <3>4 DEF Deeper, ss, w
  <2> DEFINE Dpr(p) == IF d = 0 THEN << >> ELSE Deeper(hops, p, b)
             Val(p) == IF Dpr(p) = << >> THEN <<[port |-> p, path |-> << >>]>> ELSE Dpr(p)
  <2>2. \A p \in Q : Dpr(p) \in Seq(X)
    BY <2>1
  <2>3. Level(hops, d, b) = [p \in P |-> Val(p)]
    BY DEF Level
  <2> HIDE DEF Dpr
  <2>4. \A p \in Q : Val(p) \in Seq(X) \ {<< >>}
    BY <1>5, <2>2
  <2> HIDE DEF Val
  <2> QED
    BY <2>3, <2>4
<1>7. 0 \in T
  <2>1. 0 \in 0..n
    BY <1>1
  <2>2. Good(Level(hops, 0, g[0 - 1]))
    BY <1>6, <2>1
  <2> HIDE DEF Good
  <2> QED
    BY <1>4, <2>1, <2>2
<1>8. ASSUME NEW d \in Nat, d \in T PROVE d + 1 \in T
  <2> SUFFICES ASSUME d + 1 \in 0..n PROVE Good(g[d + 1])
    OBVIOUS
  <2>1. d \in 0..n /\ (d + 1) - 1 = d
    BY <1>1
  <2>2. Good(g[d])
    BY <1>8, <2>1
  <2>3. g[d + 1] = Level(hops, d + 1, g[d])
    BY <1>4, <2>1
  <2>4. Good(Level(hops, d + 1, g[d]))
    BY <1>6, <2>2
  <2> HIDE DEF Good
  <2> QED
    BY <2>3, <2>4
<1> HIDE DEF T
<1>9. \A d \in Nat : d \in T
  BY <1>7, <1>8, ClosedUnderSuccessor
<1>10. n \in T /\ n \in 0..n
  BY <1>1, <1>9
<1>11. Good(g[n])
  BY <1>10 DEF T
<1> QED
  BY <1>3, <1>11 DEF X

(* The recursion of Within. *)
Up(g, top, c) == c = top \/ (Comp(c).parent # 0 /\ g[Comp(c).parent])
IsUpTo(top, n, g) == g = [c \in 1..n |-> Up(g, top, c)]

(* The recursion of Within has a solution. *)
LEMMA UpExists ==
    ASSUME instance \in Instances, NEW top
    PROVE  \A n \in Nat : n <= Len(instance.components) => \E g : IsUpTo(top, n, g)
<1> DEFINE m == Len(instance.components)
           T == {n \in Nat : n <= m => \E g : IsUpTo(top, n, g)}
<1>0. m \in Nat /\ \A c \in 1..m : Comp(c).parent \in 0..(c - 1)
  BY ComponentsAre, InstanceAssumption DEF Components, Comp
<1> HIDE DEF m
<1>1. 0 \in T
  <2> DEFINE g == [c \in 1..0 |-> << >>]
  <2>1. 1..0 = {}
    OBVIOUS
  <2>2. IsUpTo(top, 0, g)
    BY <2>1 DEF IsUpTo
  <2> QED
    BY <2>2
<1>2. ASSUME NEW n \in Nat, n \in T PROVE n + 1 \in T
  <2> SUFFICES ASSUME n + 1 <= m PROVE \E g : IsUpTo(top, n + 1, g)
    OBVIOUS
  <2>1. PICK g : IsUpTo(top, n, g)
    BY <1>0, <1>2
  <2> DEFINE h == [c \in 1..(n + 1) |-> Up(g, top, c)]
  <2>2. \A c \in 1..n : c \in 1..(n + 1) /\ h[c] = g[c]
    <3>1. \A c \in 1..n : c \in 1..(n + 1)
      OBVIOUS
    <3> QED
      BY <2>1, <3>1 DEF IsUpTo
  <2>3. ASSUME NEW c \in 1..(n + 1) PROVE Up(g, top, c) = Up(h, top, c)
    <3> DEFINE p == Comp(c).parent
    <3>1. p \in 0..(c - 1)
      BY <1>0
    <3>2. p # 0 => p \in 1..n
      BY <3>1
    <3>3. p # 0 => g[p] = h[p]
      BY <3>2, <2>2
    <3> HIDE DEF h
    <3> QED
      BY <3>3 DEF Up
  <2> HIDE DEF Up
  <2>4. IsUpTo(top, n + 1, h)
    BY <2>3 DEF IsUpTo
  <2> QED
    BY <2>4
<1> HIDE DEF T
<1>3. \A n \in Nat : n \in T
  BY <1>1, <1>2, ClosedUnderSuccessor
<1> QED
  BY <1>3 DEF T, m

(* A component is within itself, and a child of one that is within top is. *)
LEMMA WithinIs ==
    ASSUME instance \in Instances, NEW top \in Components
    PROVE  /\ Within(top, top)
           /\ \A p \in Components : Within(p, top) => \A c \in Children(p) : Within(c, top)
<1> DEFINE m == Len(instance.components)
           g == CHOOSE x : IsUpTo(top, m, x)
<1>1. m \in Nat /\ Components = 1..m
  BY ComponentsAre
<1>2. IsUpTo(top, m, g)
  <2>1. m <= m
    BY <1>1
  <2>2. \E x : IsUpTo(top, m, x)
    BY <1>1, <2>1, UpExists
  <2> HIDE DEF m
  <2> QED
    BY <2>2
<1>3. \A k : Within(k, top) <=> g[k]
  BY <1>1 DEF Within, IsUpTo, Up
<1> HIDE DEF g
<1>4. \A c \in Components : g[c] = Up(g, top, c)
  BY <1>1, <1>2 DEF IsUpTo
<1>5. Within(top, top)
  BY <1>3, <1>4 DEF Up
<1>6. ASSUME NEW p \in Components, Within(p, top), NEW c \in Children(p) PROVE Within(c, top)
  <2>1. c \in Components /\ Comp(c).parent = p
    BY DEF Children
  <2>2. p # 0
    BY <1>1
  <2>3. Up(g, top, c)
    BY <2>1, <2>2, <1>3, <1>6 DEF Up
  <2> QED
    BY <2>1, <2>3, <1>3, <1>4
<1> QED
  BY <1>5, <1>6

(* find_children_by_name finds children. *)
LEMMA ChildrenFoundInside ==
    ASSUME instance \in Instances, NEW k, NEW sub
    PROVE  find_children_by_name(k, sub) \in Seq(Children(k))
<1> DEFINE n == Len(instance.components)
           exact == {c \in Children(k) : Comp(c).name = sub.name /\ Comp(c).elem = sub.elem}
           elements == {c \in Children(k) : eq_ci(Comp(c).name, sub.name) /\ Comp(c).elem # 0}
           found == IF exact # {} THEN exact ELSE IF sub.elem = 0 THEN elements ELSE {}
<1>1. n \in Nat
  BY ComponentsAre
<1>2. found \cap (1..n) \subseteq Children(k)
  OBVIOUS
<1>3. find_children_by_name(k, sub) = InOrder(found, n)
  BY DEF find_children_by_name
<1> HIDE DEF found, n
<1>4. InOrder(found, n) \in Seq(found \cap (1..n))
  BY <1>1, InOrderIs
<1>5. Seq(found \cap (1..n)) \subseteq Seq(Children(k))
  BY ONLY <1>2, SeqMonotone
<1> QED
  BY <1>3, <1>4, <1>5

(* A hop inwards goes to a child. *)
LEMMA InnerInside ==
    ASSUME instance \in Instances, NEW k, NEW c \in DOMAIN connections, NEW e, e.feature \in Features
    PROVE  Inner(k, c, e) \in Seq([conn : DOMAIN connections, port : Children(k) \X Features])
<1>1. PICK subs : subs = find_children_by_name(k, e.sub)
  OBVIOUS
<1>2. subs \in Seq(Children(k))
  BY <1>1, ChildrenFoundInside
<1>3. Len(subs) \in Nat /\ DOMAIN subs = 1..Len(subs) /\ \A m \in DOMAIN subs : subs[m] \in Children(k)
  BY <1>2
<1> DEFINE X == [conn : DOMAIN connections, port : Children(k) \X Features]
<1>4. \A m \in DOMAIN subs : [conn |-> c, port |-> <<subs[m], e.feature>>] \in X
  BY <1>3
<1> HIDE DEF X
<1>5. [m \in DOMAIN subs |-> [conn |-> c, port |-> <<subs[m], e.feature>>]] \in Seq(X)
  BY <1>3, <1>4
<1> QED
  BY <1>1, <1>5 DEF Inner, X

(* All hops from a port lead to children of its component. *)
LEMMA HopsInside ==
    ASSUME Connecting, NEW p \in Ports
    PROVE  /\ UpHops(p) \in Seq([conn : DOMAIN connections, port : Children(p[1]) \X Features])
           /\ DownHops(p) \in Seq([conn : DOMAIN connections, port : Children(p[1]) \X Features])
<1> DEFINE X == [conn : DOMAIN connections, port : Children(p[1]) \X Features]
<1>1. PICK n : n = Len(connections)
  OBVIOUS
<1>2. n \in Nat /\ DOMAIN connections = 1..n /\ instance \in Instances
  BY <1>1 DEF Connecting
<1>3. \A S : /\ Len(InOrder(S, n)) \in Nat /\ DOMAIN InOrder(S, n) = 1..Len(InOrder(S, n))
             /\ \A u \in DOMAIN InOrder(S, n) : InOrder(S, n)[u] \in S \cap (1..n)
  <2>1. \A S : InOrder(S, n) \in Seq(S \cap (1..n))
    BY <1>2, InOrderIs
  <2>2. \A Y : \A s \in Seq(Y) : Len(s) \in Nat /\ DOMAIN s = 1..Len(s) /\ \A u \in DOMAIN s : s[u] \in Y
    OBVIOUS
  <2> QED
    BY <2>1, <2>2
<1>4. \A c \in DOMAIN connections : HasEnds(c) =>
          connections[c].src.feature \in Features /\ connections[c].dst.feature \in Features
  BY DEF HasEnds, Features
<1>5. PICK U : U = {c \in OwnConnections(p[1]) : IsUp(c) /\ connections[c].dst.feature = p[2]}
  OBVIOUS
<1>6. PICK D : D = {c \in OwnConnections(p[1]) : IsDown(c) /\ connections[c].src.feature = p[2]}
  OBVIOUS
<1> DEFINE ups == InOrder(U, n)
           downs == InOrder(D, n)
<1>7. ASSUME NEW u \in DOMAIN ups
      PROVE  Inner(p[1], ups[u], connections[ups[u]].src) \in Seq(X)
  <2>1. ups[u] \in U /\ ups[u] \in DOMAIN connections
    BY <1>2, <1>3
  <2>2. connections[ups[u]].src.feature \in Features
    BY <1>4, <1>5, <2>1 DEF IsUp
  <2>4. PICK e : e = connections[ups[u]].src
    OBVIOUS
  <2> HIDE DEF ups
  <2> QED
    BY <2>1, <2>2, <1>2, <2>4, InnerInside
<1>8. ASSUME NEW u \in DOMAIN downs
      PROVE  Inner(p[1], downs[u], connections[downs[u]].dst) \in Seq(X)
  <2>1. downs[u] \in D /\ downs[u] \in DOMAIN connections
    BY <1>2, <1>3
  <2>2. connections[downs[u]].dst.feature \in Features
    BY <1>4, <1>6, <2>1 DEF IsDown
  <2>4. PICK e : e = connections[downs[u]].dst
    OBVIOUS
  <2> HIDE DEF downs
  <2> QED
    BY <2>1, <2>2, <1>2, <2>4, InnerInside
<1>9. PICK x : x = X
  OBVIOUS
<1> HIDE DEF X
<1>10. UpHops(p) \in Seq(X)
  <2>1. PICK ss : ss = [u \in DOMAIN ups |-> Inner(p[1], ups[u], connections[ups[u]].src)]
    OBVIOUS
  <2>2. Len(ups) \in Nat /\ DOMAIN ups = 1..Len(ups)
    BY <1>3
  <2>3. ss \in Seq(Seq(x))
    <3> HIDE DEF ups
    <3> QED
      BY <1>7, <1>9, <2>1, <2>2
  <2>4. FlattenSeq(ss) \in Seq(x)
    BY <2>3, FlattenIs
  <2>5. UpHops(p) = FlattenSeq(ss)
    BY <1>1, <1>5, <2>1 DEF UpHops
  <2> QED
    BY <1>9, <2>4, <2>5
<1>11. DownHops(p) \in Seq(X)
  <2>1. PICK ss : ss = [u \in DOMAIN downs |-> Inner(p[1], downs[u], connections[downs[u]].dst)]
    OBVIOUS
  <2>2. Len(downs) \in Nat /\ DOMAIN downs = 1..Len(downs)
    BY <1>3
  <2>3. ss \in Seq(Seq(x))
    <3> HIDE DEF downs
    <3> QED
      BY <1>8, <1>9, <2>1, <2>2
  <2>4. FlattenSeq(ss) \in Seq(x)
    BY <2>3, FlattenIs
  <2>5. DownHops(p) = FlattenSeq(ss)
    BY <1>1, <1>6, <2>1 DEF DownHops
  <2> QED
    BY <1>9, <2>4, <2>5
<1> QED
  BY <1>10, <1>11 DEF X

(* Tracing from a port of top stays within top. *)
Inside(top) == {p \in Ports : Within(p[1], top)}

(* The traces from a port of top end within top, and there is one. *)
LEMMA TracesInside ==
    ASSUME Connecting, NEW top \in Components, NEW f \in Features
    PROVE  /\ trace_sources(<<top, f>>) \in Seq([port : Inside(top), path : Seq(DOMAIN connections)]) \ {<< >>}
           /\ trace_destinations(<<top, f>>) \in Seq([port : Inside(top), path : Seq(DOMAIN connections)]) \ {<< >>}
<1>1. PICK P, C, U, D, Q : /\ P = Ports /\ C = DOMAIN connections /\ Q = Inside(top)
                           /\ U = [p \in Ports |-> UpHops(p)] /\ D = [p \in Ports |-> DownHops(p)]
  OBVIOUS
<1>2. instance \in Instances
  BY DEF Connecting
<1>3. Q \in SUBSET P /\ <<top, f>> \in Q
  <2>1. <<top, f>> \in Ports /\ <<top, f>>[1] = top
    BY DEF Ports
  <2>2. Within(top, top)
    BY <1>2, WithinIs
  <2> QED
    BY <2>1, <2>2, <1>1 DEF Inside
<1>4. ASSUME NEW p \in Q
      PROVE  U[p] \in Seq([conn : C, port : Q]) /\ D[p] \in Seq([conn : C, port : Q])
  <2> DEFINE Y == [conn : C, port : Children(p[1]) \X Features]
             Z == [conn : C, port : Q]
  <2>1. p \in Ports /\ p[1] \in Components /\ Within(p[1], top)
    BY <1>1 DEF Inside, Ports
  <2>2. UpHops(p) \in Seq(Y) /\ DownHops(p) \in Seq(Y)
    BY <2>1, <1>1, HopsInside
  <2>3. Children(p[1]) \X Features \subseteq Q
    <3>1. ASSUME NEW c \in Children(p[1]), NEW y \in Features PROVE <<c, y>> \in Q
      <4>1. c \in Components /\ Within(c, top)
        BY <2>1, <1>2, WithinIs DEF Children
      <4>2. <<c, y>> \in Ports /\ <<c, y>>[1] = c
        BY <4>1 DEF Ports
      <4> QED
        BY <4>1, <4>2, <1>1 DEF Inside
    <3> QED
      BY <3>1
  <2>4. Y \subseteq Z
    BY <2>3
  <2> HIDE DEF Y, Z
  <2>5. Seq(Y) \subseteq Seq(Z)
    BY ONLY <2>4, SeqMonotone
  <2>6. U[p] = UpHops(p) /\ D[p] = DownHops(p)
    BY <2>1, <1>1
  <2> QED
    BY <2>2, <2>5, <2>6 DEF Z
<1>5. DOMAIN U = P /\ DOMAIN D = P
  BY <1>1
<1>6. PICK port : port = <<top, f>>
  OBVIOUS
<1>7. Traced(U, port) \in Seq([port : Q, path : Seq(C)]) /\ Traced(U, port) # << >>
  BY <1>3, <1>4, <1>5, <1>6, TracedWithin
<1>8. Traced(D, port) \in Seq([port : Q, path : Seq(C)]) /\ Traced(D, port) # << >>
  BY <1>3, <1>4, <1>5, <1>6, TracedWithin
<1> QED
  BY <1>1, <1>6, <1>7, <1>8 DEF trace_sources, trace_destinations

(* A declaration names a child once: two children of a component that answer to   *)
(* one name are different elements of an array.                                   *)
ChildrenNamedOnce ==
    \A a, b \in Components :
        a # b /\ Comp(a).parent = Comp(b).parent /\ eq_ci(Comp(a).name, Comp(b).name) =>
            Comp(a).elem # 0 /\ Comp(b).elem # 0 /\ Comp(a).elem # Comp(b).elem

(* A name that is found at all is found for every child it stands for. *)
LEMMA AllNamedFound ==
    ASSUME instance \in Instances, ChildrenNamedOnce, NEW o, NEW sub,
           find_children_by_name(o, sub) # << >>, NEW k \in NamedChildren(o, sub)
    PROVE  k \in ToSet(find_children_by_name(o, sub))
<1> DEFINE n == Len(instance.components)
           exact == {c \in Children(o) : Comp(c).name = sub.name /\ Comp(c).elem = sub.elem}
           elements == {c \in Children(o) : eq_ci(Comp(c).name, sub.name) /\ Comp(c).elem # 0}
           found == IF exact # {} THEN exact ELSE IF sub.elem = 0 THEN elements ELSE {}
<1>1. n \in Nat /\ Components = 1..n
  BY ComponentsAre
<1>2. found \cap (1..n) = found
  BY <1>1 DEF Children
<1>3. find_children_by_name(o, sub) = InOrder(found, n)
  BY DEF find_children_by_name
<1>4. k \in Children(o) /\ eq_ci(Comp(k).name, sub.name) /\ (Comp(k).elem = sub.elem \/ sub.elem = 0)
  BY DEF NamedChildren
<1>5. \A c \in Children(o) : c # k /\ eq_ci(Comp(c).name, sub.name) =>
          Comp(c).elem # 0 /\ Comp(k).elem # 0 /\ Comp(c).elem # Comp(k).elem
  BY <1>4 DEF ChildrenNamedOnce, Children, eq_ci
<1>6. \A c \in found : eq_ci(Comp(c).name, sub.name) /\ c \in Children(o)
  BY DEF eq_ci
<1>7. \A c \in exact : c = k
  BY <1>4, <1>5 DEF eq_ci
<1>8. exact = {} /\ elements # {} /\ sub.elem = 0 => k \in elements
  BY <1>4, <1>5
<1>9. found # {} => k \in found
  BY <1>7, <1>8
<1> HIDE DEF found, n
<1>10. InOrder(found, n) \in Seq(found) /\ ToSet(InOrder(found, n)) = found
  <2>1. /\ InOrder(found, n) \in Seq(found \cap (1..n))
        /\ ToSet(InOrder(found, n)) = found \cap (1..n)
    BY <1>1, InOrderIs
  <2> QED
    BY <1>2, <2>1
<1>11. found # {}
  <2>1. \A s : s \in Seq({}) => s = << >>
    OBVIOUS
  <2> QED
    BY <1>3, <1>10, <2>1
<1> QED
  BY <1>3, <1>9, <1>10, <1>11

(* Every child found on either side is in a pair. *)
LEMMA PairsCover ==
    ASSUME NEW K, NEW o, NEW srcs \in Seq(K), NEW dsts \in Seq(K), srcs # << >>, dsts # << >>,
           OneToOne(o) => Len(srcs) = Len(dsts)
    PROVE  /\ \A k \in ToSet(srcs) : \E p \in ToSet(Pairs(o, srcs, dsts)) : p[1] = k
           /\ \A k \in ToSet(dsts) : \E p \in ToSet(Pairs(o, srcs, dsts)) : p[2] = k
<1>1. /\ Len(srcs) \in Nat \ {0} /\ DOMAIN srcs = 1..Len(srcs) /\ \A s \in DOMAIN srcs : srcs[s] \in K
      /\ Len(dsts) \in Nat \ {0} /\ DOMAIN dsts = 1..Len(dsts) /\ \A d \in DOMAIN dsts : dsts[d] \in K
  OBVIOUS
<1>2. CASE OneToOne(o)
  <2>1. PICK l : l = Len(srcs)
    OBVIOUS
  <2>2. Len(srcs) = l /\ Len(dsts) = l /\ (IF Len(srcs) < Len(dsts) THEN Len(srcs) ELSE Len(dsts)) = l
    BY <1>1, <1>2, <2>1
  <2>3. PICK z : z = [k \in 1..l |-> <<srcs[k], dsts[k]>>]
    OBVIOUS
  <2>4. Pairs(o, srcs, dsts) = z
    BY <1>2, <2>2, <2>3 DEF Pairs
  <2>5. \A k \in 1..l : z[k] \in ToSet(z) /\ z[k][1] = srcs[k] /\ z[k][2] = dsts[k]
    BY <2>3 DEF ToSet
  <2>6. \A k \in ToSet(srcs) : \E j \in 1..l : k = srcs[j]
    BY <1>1, <2>1 DEF ToSet
  <2>7. \A k \in ToSet(dsts) : \E j \in 1..l : k = dsts[j]
    BY <1>1, <2>2 DEF ToSet
  <2> QED
    BY <2>4, <2>5, <2>6, <2>7
<1>3. CASE ~OneToOne(o)
  <2>1. PICK ss : ss = [s \in DOMAIN srcs |-> [d \in DOMAIN dsts |-> <<srcs[s], dsts[d]>>]]
    OBVIOUS
  <2>2. Pairs(o, srcs, dsts) = FlattenSeq(ss)
    BY <1>3, <2>1 DEF Pairs
  <2> DEFINE X == K \X K
  <2>3. \A a, b \in K : <<a, b>> \in X
    OBVIOUS
  <2> HIDE DEF X
  <2>4. \A s \in DOMAIN srcs : [d \in DOMAIN dsts |-> <<srcs[s], dsts[d]>>] \in Seq(X)
    <3> SUFFICES ASSUME NEW s \in DOMAIN srcs
                 PROVE  [d \in DOMAIN dsts |-> <<srcs[s], dsts[d]>>] \in Seq(X)
      OBVIOUS
    <3>1. PICK m : m = Len(dsts)
      OBVIOUS
    <3>2. m \in Nat /\ DOMAIN dsts = 1..m /\ \A d \in 1..m : <<srcs[s], dsts[d]>> \in X
      BY <1>1, <2>3, <3>1
    <3>3. [d \in 1..m |-> <<srcs[s], dsts[d]>>] \in Seq(X)
      BY <3>2
    <3> QED
      BY <3>2, <3>3
  <2>5. ss \in Seq(Seq(X)) /\ Len(ss) = Len(srcs)
    <3> DEFINE El(s) == [d \in DOMAIN dsts |-> <<srcs[s], dsts[d]>>]
    <3>1. ss = [s \in DOMAIN srcs |-> El(s)] /\ \A s \in DOMAIN srcs : El(s) \in Seq(X)
      BY <2>1, <2>4
    <3> HIDE DEF El
    <3>2. PICK m : m = Len(srcs)
      OBVIOUS
    <3>3. m \in Nat /\ DOMAIN srcs = 1..m
      BY <1>1, <3>2
    <3>4. ss = [s \in 1..m |-> El(s)] /\ \A s \in 1..m : El(s) \in Seq(X)
      BY <3>1, <3>3
    <3>5. ss \in Seq(Seq(X)) /\ Len(ss) = m
      BY <3>3, <3>4
    <3> QED
      BY <3>2, <3>5
  <2>6. ASSUME NEW s \in 1..Len(srcs), NEW d \in 1..Len(dsts)
        PROVE  <<srcs[s], dsts[d]>> \in ToSet(FlattenSeq(ss))
    <3>1. PICK t : t = ss[s]
      OBVIOUS
    <3>2. ToSet(t) \subseteq ToSet(FlattenSeq(ss))
      BY <2>5, <3>1, FlattenHas
    <3>3. t = [e \in 1..Len(dsts) |-> <<srcs[s], dsts[e]>>]
      BY <1>1, <2>1, <3>1
    <3>4. t[d] = <<srcs[s], dsts[d]>> /\ d \in DOMAIN t
      BY <3>3
    <3>5. t[d] \in ToSet(t)
      BY <3>4 DEF ToSet
    <3> QED
      BY <3>2, <3>4, <3>5
  <2>7. 1 \in 1..Len(srcs) /\ 1 \in 1..Len(dsts)
    <3>1. \A m \in Nat \ {0} : 1 \in 1..m
      OBVIOUS
    <3> QED
      BY ONLY <1>1, <3>1
  <2>8. ASSUME NEW k \in ToSet(srcs) PROVE \E p \in ToSet(FlattenSeq(ss)) : p[1] = k
    <3>1. PICK j \in 1..Len(srcs) : k = srcs[j]
      BY <1>1 DEF ToSet
    <3>2. <<srcs[j], dsts[1]>> \in ToSet(FlattenSeq(ss)) /\ <<srcs[j], dsts[1]>>[1] = k
      BY <2>6, <2>7, <3>1
    <3> QED
      BY <3>2
  <2>9. ASSUME NEW k \in ToSet(dsts) PROVE \E p \in ToSet(FlattenSeq(ss)) : p[2] = k
    <3>1. PICK j \in 1..Len(dsts) : k = dsts[j]
      BY <1>1 DEF ToSet
    <3>2. <<srcs[1], dsts[j]>> \in ToSet(FlattenSeq(ss)) /\ <<srcs[1], dsts[j]>>[2] = k
      BY <2>6, <2>7, <3>1
    <3> QED
      BY <3>2
  <2> QED
    BY <2>2, <2>8, <2>9
<1> QED
  BY <1>2, <1>3

(* Joined, a source and a destination make a semantic connection along c. *)
LEMMA JoinedCrosses ==
    ASSUME NEW P, NEW Q, NEW C, NEW c \in C, NEW sources \in Seq([port : P, path : Seq(C)]) \ {<< >>},
           NEW destinations \in Seq([port : Q, path : Seq(C)]) \ {<< >>}
    PROVE  \E sc \in ToSet(Joined(c, sources, destinations)) :
               sc.src \in P /\ sc.dst \in Q /\ c \in ToSet(sc.path)
<1> DEFINE X == [port : P, path : Seq(C)]
           Y == [port : Q, path : Seq(C)]
           El(s, d) == [src |-> sources[s].port, dst |-> destinations[d].port, member |-> << >>,
                        path |-> <<c>> \o sources[s].path \o destinations[d].path]
           ss == [s \in DOMAIN sources |-> [d \in DOMAIN destinations |-> El(s, d)]]
           Z == {El(s, d) : s \in DOMAIN sources, d \in DOMAIN destinations}
<1>1. /\ Len(sources) \in Nat \ {0} /\ DOMAIN sources = 1..Len(sources)
      /\ Len(destinations) \in Nat \ {0} /\ DOMAIN destinations = 1..Len(destinations)
  <2>1. sources \in Seq(X) \ {<< >>} /\ destinations \in Seq(Y) \ {<< >>}
    OBVIOUS
  <2> HIDE DEF X, Y
  <2> QED
    BY <2>1
<1>2. 1 \in DOMAIN sources /\ 1 \in DOMAIN destinations
  BY <1>1
<1>3. sources[1] \in X /\ destinations[1] \in Y
  <2>1. sources \in Seq(X) /\ destinations \in Seq(Y)
    OBVIOUS
  <2> HIDE DEF X, Y
  <2> QED
    BY <1>2, <2>1, MemberOfSeq
<1>4. /\ sources[1].port \in P /\ sources[1].path \in Seq(C)
      /\ destinations[1].port \in Q /\ destinations[1].path \in Seq(C)
  BY <1>3
<1>5. \A a \in Seq(C), b \in Seq(C) : c \in ToSet(<<c>> \o a \o b)
  <2> SUFFICES ASSUME NEW a \in Seq(C), NEW b \in Seq(C) PROVE c \in ToSet(<<c>> \o a \o b)
    OBVIOUS
  <2>1. PICK w : w = <<c>> \o a \o b
    OBVIOUS
  <2>2. w \in Seq(C) /\ Len(w) = 1 + Len(a) + Len(b) /\ w[1] = c /\ Len(a) \in Nat /\ Len(b) \in Nat
    BY <2>1
  <2>3. 1 \in DOMAIN w
    BY <2>2
  <2> QED
    BY <2>1, <2>2, <2>3 DEF ToSet
<1>6. El(1, 1).src \in P /\ El(1, 1).dst \in Q /\ c \in ToSet(El(1, 1).path)
  BY <1>4, <1>5
<1> HIDE DEF El
<1>7. \A s \in DOMAIN sources : [d \in DOMAIN destinations |-> El(s, d)] \in Seq(Z)
  BY <1>1
<1> HIDE DEF Z
<1>8. ss \in Seq(Seq(Z)) /\ Len(ss) = Len(sources)
  BY <1>1, <1>7
<1>9. ss[1] = [d \in DOMAIN destinations |-> El(1, d)] /\ 1 \in 1..Len(ss)
  BY <1>1, <1>2, <1>8
<1> HIDE DEF ss
<1>10. ToSet(ss[1]) \subseteq ToSet(FlattenSeq(ss))
  BY <1>8, <1>9, FlattenHas
<1>11. El(1, 1) \in ToSet(ss[1])
  <2>1. 1 \in DOMAIN ss[1] /\ ss[1][1] = El(1, 1)
    BY <1>2, <1>9
  <2> QED
    BY <2>1 DEF ToSet
<1>12. Joined(c, sources, destinations) = FlattenSeq(ss)
  BY DEF Joined, ss, El
<1> QED
  BY <1>6, <1>10, <1>11, <1>12

(* The semantic connections S lead along c out of k and into n. *)
Crossed(S, c, k, n) ==
    /\ \E sc \in S : c \in ToSet(sc.path) /\ Within(sc.src[1], k)
    /\ \E sc \in S : c \in ToSet(sc.path) /\ Within(sc.dst[1], n)

(* Connection c is not lost in S. *)
Through(S, c) ==
    /\ HasEnds(c)
    /\ IsAcross(c) =>
         \A k \in NamedChildren(connections[c].owner, connections[c].src.sub) :
           \A n \in NamedChildren(connections[c].owner, connections[c].dst.sub) : Crossed(S, c, k, n)

(* What an across connection adds runs along it, between the ends of each pair. *)
LEMMA AcrossCrosses ==
    ASSUME Connecting, NEW c \in DOMAIN connections, HasEnds(c), NEW pairs \in Seq(Components \X Components),
           NEW x, x = FlattenSeq([k \in DOMAIN pairs |->
                Joined(c, trace_sources(<<pairs[k][1], connections[c].src.feature>>),
                          trace_destinations(<<pairs[k][2], connections[c].dst.feature>>))])
    PROVE  \A p \in ToSet(pairs) : Crossed(ToSet(x), c, p[1], p[2])
<1>1. PICK P, C, F, G, J, ss :
          /\ P = Ports /\ C = DOMAIN connections /\ J = Joins(P, C)
          /\ F = connections[c].src.feature /\ G = connections[c].dst.feature
          /\ ss = [k \in DOMAIN pairs |-> Joined(c, trace_sources(<<pairs[k][1], F>>),
                                                    trace_destinations(<<pairs[k][2], G>>))]
  OBVIOUS
<1>2. F \in Features /\ G \in Features /\ c \in C
  BY <1>1 DEF HasEnds, Features
<1>3. Len(pairs) \in Nat /\ DOMAIN pairs = 1..Len(pairs)
      /\ \A k \in DOMAIN pairs : pairs[k][1] \in Components /\ pairs[k][2] \in Components
  OBVIOUS
<1>4. ASSUME NEW k \in DOMAIN pairs
      PROVE  Joined(c, trace_sources(<<pairs[k][1], F>>), trace_destinations(<<pairs[k][2], G>>)) \in Seq(J)
  <2>2. <<pairs[k][1], F>> \in Ports /\ <<pairs[k][2], G>> \in Ports
    BY <1>2, <1>3 DEF Ports
  <2>3. PICK s, d : s = trace_sources(<<pairs[k][1], F>>) /\ d = trace_destinations(<<pairs[k][2], G>>)
    OBVIOUS
  <2>4. s \in Seq([port : P, path : Seq(C)]) /\ d \in Seq([port : P, path : Seq(C)])
    BY <1>1, <2>2, <2>3, TracesAre
  <2> QED
    BY <1>1, <1>2, <2>3, <2>4, JoinedIs
<1>5. ss \in Seq(Seq(J)) /\ Len(ss) = Len(pairs)
  BY <1>1, <1>3, <1>4
<1>6. x = FlattenSeq(ss)
  BY <1>1
<1> SUFFICES ASSUME NEW p \in ToSet(pairs) PROVE Crossed(ToSet(x), c, p[1], p[2])
  OBVIOUS
<1>7. PICK j \in DOMAIN pairs : p = pairs[j]
  BY DEF ToSet
<1>8. PICK a, b : a = p[1] /\ b = p[2]
  OBVIOUS
<1>9. a \in Components /\ b \in Components
  BY <1>3, <1>7, <1>8
<1>10. PICK s, d : s = trace_sources(<<a, F>>) /\ d = trace_destinations(<<b, G>>)
  OBVIOUS
<1>11. ss[j] = Joined(c, s, d) /\ j \in 1..Len(ss)
  BY <1>1, <1>3, <1>5, <1>7, <1>8, <1>10
<1>12. PICK A, B : A = Inside(a) /\ B = Inside(b)
  OBVIOUS
<1>13. s \in Seq([port : A, path : Seq(C)]) \ {<< >>}
  BY <1>1, <1>2, <1>9, <1>10, <1>12, TracesInside
<1>14. d \in Seq([port : B, path : Seq(C)]) \ {<< >>}
  BY <1>1, <1>2, <1>9, <1>10, <1>12, TracesInside
<1>15. PICK sc \in ToSet(Joined(c, s, d)) : sc.src \in A /\ sc.dst \in B /\ c \in ToSet(sc.path)
  BY <1>2, <1>13, <1>14, JoinedCrosses
<1>16. ToSet(ss[j]) \subseteq ToSet(FlattenSeq(ss))
  BY <1>5, <1>11, FlattenHas
<1>17. sc \in ToSet(x) /\ Within(sc.src[1], a) /\ Within(sc.dst[1], b)
  BY <1>6, <1>11, <1>12, <1>15, <1>16 DEF Inside
<1> QED
  BY <1>8, <1>15, <1>17 DEF Crossed

(* Tracing an across connection complains, or joins each child it names. *)
LEMMA AcrossThrough ==
    ASSUME ConnInv, ChildrenNamedOnce, NEW c \in DOMAIN connections, TraceAcross(c)
    PROVE  diagnostics' # {} \/ Through(ToSet(semantic'), c)
<1>1. HasEnds(c) /\ IsAcross(c)
  BY DEF TraceAcross, IsAcross
<1>2. Connecting /\ Traces /\ instance \in Instances
  BY DEF ConnInv, Connecting
<1>3. PICK conn, srcs, dsts, pairs :
          /\ conn = connections[c]
          /\ srcs = find_children_by_name(conn.owner, conn.src.sub)
          /\ dsts = find_children_by_name(conn.owner, conn.dst.sub)
          /\ pairs = Pairs(conn.owner, srcs, dsts)
  OBVIOUS
<1>4. PICK K : K = Components
  OBVIOUS
<1>5. srcs \in Seq(K) /\ dsts \in Seq(K)
  BY <1>2, <1>3, <1>4, ChildrenFound
<1>6. pairs \in Seq(Components \X Components)
  <2>1. Pairs(conn.owner, srcs, dsts) \in Seq(K \X K)
    BY <1>5, PairsAre
  <2> QED
    BY <1>3, <1>4, <2>1
<1>7. PICK x : x = FlattenSeq([k \in DOMAIN pairs |->
                Joined(c, trace_sources(<<pairs[k][1], connections[c].src.feature>>),
                          trace_destinations(<<pairs[k][2], connections[c].dst.feature>>))])
  OBVIOUS
<1>8. semantic' = semantic \o x
  BY <1>3, <1>7 DEF TraceAcross
<1>9. /\ diagnostics' = diagnostics
                \cup {Diag("unresolved") : e \in {s \in {srcs, dsts} : s = << >>}}
                \cup (IF OneToOne(conn.owner) /\ Len(srcs) # Len(dsts)
                      THEN {Diag("sizes")} ELSE {})
  BY <1>3 DEF TraceAcross
<1> SUFFICES ASSUME diagnostics' = {} PROVE Through(ToSet(semantic'), c)
  OBVIOUS
<1>10. srcs # << >> /\ dsts # << >> /\ (OneToOne(conn.owner) => Len(srcs) = Len(dsts))
  BY <1>9
<1>11. PICK o : o = conn.owner
  OBVIOUS
<1>12. /\ \A k \in ToSet(srcs) : \E p \in ToSet(pairs) : p[1] = k
       /\ \A k \in ToSet(dsts) : \E p \in ToSet(pairs) : p[2] = k
  <2>1. OneToOne(o) => Len(srcs) = Len(dsts)
    BY <1>10, <1>11
  <2>2. /\ \A k \in ToSet(srcs) : \E p \in ToSet(Pairs(o, srcs, dsts)) : p[1] = k
        /\ \A k \in ToSet(dsts) : \E p \in ToSet(Pairs(o, srcs, dsts)) : p[2] = k
    BY <1>5, <1>10, <2>1, PairsCover
  <2> QED
    BY <1>3, <1>11, <2>2
<1>13. \A p \in ToSet(pairs) : Crossed(ToSet(x), c, p[1], p[2])
  BY <1>1, <1>2, <1>6, <1>7, AcrossCrosses
<1>14. ToSet(x) \subseteq ToSet(semantic')
  <2>1. PICK X, S, s : X = Joins(Ports, DOMAIN connections) /\ s = semantic /\ S = ToSet(semantic)
    OBVIOUS
  <2>2. x \in Seq(X)
    BY <1>1, <1>2, <1>6, <1>7, <2>1, AcrossIs
  <2>3. s \in Seq(S)
    BY <1>2, <2>1 DEF Traces
  <2>4. s \o x \in Seq(S \cup X) /\ ToSet(s \o x) = ToSet(s) \cup ToSet(x)
    BY ONLY <2>2, <2>3, ConcatToSet, ZenonT(60)
  <2> QED
    BY <1>8, <2>1, <2>4
<1>15. ASSUME NEW k \in NamedChildren(o, conn.src.sub), NEW n \in NamedChildren(o, conn.dst.sub)
       PROVE  Crossed(ToSet(semantic'), c, k, n)
  <2>1. k \in ToSet(srcs)
    <3>1. PICK sub : sub = conn.src.sub
      OBVIOUS
    <3>2. find_children_by_name(o, sub) # << >> /\ k \in NamedChildren(o, sub)
      BY <1>3, <1>10, <1>11, <1>15, <3>1
    <3>3. k \in ToSet(find_children_by_name(o, sub))
      BY <1>2, <3>2, AllNamedFound
    <3> QED
      BY <1>3, <1>11, <3>1, <3>3
  <2>2. n \in ToSet(dsts)
    <3>1. PICK sub : sub = conn.dst.sub
      OBVIOUS
    <3>2. find_children_by_name(o, sub) # << >> /\ n \in NamedChildren(o, sub)
      BY <1>3, <1>10, <1>11, <1>15, <3>1
    <3>3. n \in ToSet(find_children_by_name(o, sub))
      BY <1>2, <3>2, AllNamedFound
    <3> QED
      BY <1>3, <1>11, <3>1, <3>3
  <2>3. PICK p \in ToSet(pairs) : p[1] = k
    BY <1>12, <2>1
  <2>4. PICK q \in ToSet(pairs) : q[2] = n
    BY <1>12, <2>2
  <2>5. Crossed(ToSet(x), c, k, p[2]) /\ Crossed(ToSet(x), c, q[1], n)
    BY <1>13, <2>3, <2>4
  <2> QED
    BY <1>14, <2>5 DEF Crossed
<1> QED
  BY <1>1, <1>3, <1>11, <1>15 DEF Through

(* A connection that is not lost stays so while the semantic connections grow. *)
LEMMA ThroughStays ==
    ASSUME NEW S, NEW T, S \subseteq T, NEW c, Through(S, c), UNCHANGED <<instance, connections>>
    PROVE  Through(T, c)'
<1>1. \A a, b : Within(a, b)' = Within(a, b)
  BY DEF Within, Components, Comp
<1>2. \A k, n : Crossed(S, c, k, n) => Crossed(T, c, k, n)
  BY DEF Crossed
<1>3. \A k, n : Crossed(T, c, k, n)' <=> Crossed(T, c, k, n)
  BY <1>1 DEF Crossed
<1>4. \A o, sub : NamedChildren(o, sub)' = NamedChildren(o, sub)
  BY DEF NamedChildren, Children, Components, Comp, eq_ci
<1>5. (HasEnds(c)' <=> HasEnds(c)) /\ (IsAcross(c)' <=> IsAcross(c))
  BY DEF HasEnds, IsAcross, SubOf
<1> QED
  BY <1>2, <1>3, <1>4, <1>5 DEF Through

(* The connections that the tracing loop is past. *)
Dealt == IF stage = "trace" THEN {c \in DOMAIN connections : c < next}
         ELSE IF stage = "build" THEN {} ELSE DOMAIN connections

CleanInv == \A c \in Dealt : diagnostics # {} \/ Through(ToSet(semantic), c)

(* A step that only adds to the semantic connections and the diagnostics, and     *)
(* deals with no connection beyond those in D.                                    *)
LEMMA CleanGrows ==
    ASSUME CleanInv, UNCHANGED <<instance, connections>>, ToSet(semantic) \subseteq ToSet(semantic'),
           diagnostics \subseteq diagnostics',
           \A c \in Dealt' : c \in Dealt \/ diagnostics' # {} \/ Through(ToSet(semantic'), c)
    PROVE  CleanInv'
<1> SUFFICES ASSUME NEW c \in Dealt', diagnostics' = {} PROVE Through(ToSet(semantic), c)'
  BY DEF CleanInv
<1>1. PICK S, T : S = ToSet(semantic) /\ T = ToSet(semantic')
  OBVIOUS
<1>2. Through(S, c) \/ Through(T, c)
  BY <1>1 DEF CleanInv
<1>3. S \subseteq T /\ T \subseteq T
  BY <1>1
<1>4. Through(T, c)'
  BY <1>2, <1>3, ThroughStays
<1>5. (ToSet(semantic))' = T
  BY <1>1 DEF ToSet
<1> QED
  BY <1>4, <1>5

(* One more connection dealt with. *)
LEMMA DealtNext ==
    ASSUME ConnInv, Advance, stage = "trace", next \in DOMAIN connections
    PROVE  \A c \in Dealt' : c \in Dealt \/ c = next
<1>1. next' = next + 1 /\ stage' = "trace" /\ connections' = connections
  BY DEF Advance
<1>2. DOMAIN connections \subseteq Nat
  BY DEF ConnInv, Connecting
<1> QED
  BY <1>1, <1>2 DEF Dealt

(* What is appended to the semantic connections leaves the others there. *)
LEMMA SemanticGrows ==
    ASSUME ConnInv, Adds
    PROVE  ToSet(semantic) \subseteq ToSet(semantic')
<1>1. PICK s, S : s = semantic /\ S = ToSet(s)
  OBVIOUS
<1>2. s \in Seq(S)
  BY <1>1 DEF ConnInv, Traces
<1>3. PICK X : \E x \in Seq(X) : semantic' = semantic \o x
  BY DEF Adds
<1>4. PICK x \in Seq(X) : semantic' = s \o x
  BY <1>1, <1>3
<1>5. s \o x \in Seq(S \cup X) /\ ToSet(s \o x) = ToSet(s) \cup ToSet(x)
  BY ONLY <1>2, x \in Seq(X), ConcatToSet, ZenonT(60)
<1> QED
  BY <1>1, <1>4, <1>5

(* So the connection is dealt with. *)
LEMMA AcrossClean ==
    ASSUME ConnInv, CleanInv, ChildrenNamedOnce, NEW c \in DOMAIN connections, TraceAcross(c)
    PROVE  CleanInv'
<1>1. Advance /\ stage = "trace" /\ next = c /\ diagnostics \subseteq diagnostics'
  BY DEF TraceAcross, Tracing
<1>2. ToSet(semantic) \subseteq ToSet(semantic')
  BY AcrossAdds, SemanticGrows
<1>3. \A d \in Dealt' : d \in Dealt \/ diagnostics' # {} \/ Through(ToSet(semantic'), d)
  BY <1>1, DealtNext, AcrossThrough
<1> QED
  BY <1>1, <1>2, <1>3, CleanGrows DEF Advance

(* A connection of the root is not an across connection. *)
LEMMA RootClean ==
    ASSUME ConnInv, CleanInv, NEW c \in DOMAIN connections, TraceRoot(c)
    PROVE  CleanInv'
<1>1. /\ Advance /\ stage = "trace" /\ next = c /\ HasEnds(c) /\ ~IsAcross(c)
      /\ diagnostics \subseteq diagnostics'
  BY DEF TraceRoot, Tracing, IsUp, IsDown, IsAcross
<1>2. ToSet(semantic) \subseteq ToSet(semantic')
  BY RootAdds, SemanticGrows
<1>3. \A d \in Dealt' : d \in Dealt \/ diagnostics' # {} \/ Through(ToSet(semantic'), d)
  BY <1>1, DealtNext DEF Through
<1> QED
  BY <1>1, <1>2, <1>3, CleanGrows DEF Advance

(* The expansion of feature groups takes nothing away. *)
LEMMA ExpandClean ==
    ASSUME ConnInv, CleanInv, NEW c \in DOMAIN connections, Expand(c)
    PROVE  CleanInv'
<1>1. Advance /\ stage = "expand" /\ stage' = "expand" /\ UNCHANGED <<instance, connections>>
  BY DEF Expand, Advance
<1>2. Dealt' = Dealt
  BY <1>1 DEF Dealt
<1>3. CASE UNCHANGED <<semantic, diagnostics>>
  BY <1>1, <1>2, <1>3, CleanGrows
<1>4. ASSUME NEW s \in Components, NEW d \in Components, NEW f \in Comp(s).features,
             NEW g \in Comp(d).features, ExpandGroup(c, s, d, f, g)
      PROVE  CleanInv'
  <2>1. ToSet(semantic) \subseteq ToSet(semantic')
    BY <1>4, ExpandAdds, SemanticGrows
  <2>2. diagnostics \subseteq diagnostics'
    BY <1>4 DEF ExpandGroup
  <2> QED
    BY <1>1, <1>2, <2>1, <2>2, CleanGrows
<1> QED
  BY <1>3, <1>4 DEF Expand

(* Every step keeps the connections dealt with, or has complained. *)
LEMMA CleanStep ==
    ASSUME ConnInv, CleanInv, ChildrenNamedOnce, [Next]_vars
    PROVE  CleanInv'
<1>1. CASE Instantiate
  <2>1. CASE InstantiateConnection
    <3>1. Dealt' = {}
      BY <2>1 DEF InstantiateConnection, Dealt
    <3> QED
      BY <3>1 DEF CleanInv
  <2>2. ASSUME NEW c \in DOMAIN connections, MissingEnd(c) PROVE CleanInv'
    <3>1. diagnostics' # {}
      BY <2>2 DEF MissingEnd
    <3> QED
      BY <3>1 DEF CleanInv
  <2>3. ASSUME NEW c \in DOMAIN connections, TraceSkip(c) PROVE CleanInv'
    <3>1. /\ Advance /\ stage = "trace" /\ next = c /\ HasEnds(c) /\ ~IsAcross(c)
          /\ UNCHANGED <<semantic, diagnostics>>
      BY <2>3 DEF TraceSkip, Tracing
    <3>2. \A d \in Dealt' : d \in Dealt \/ diagnostics' # {} \/ Through(ToSet(semantic'), d)
      BY <3>1, DealtNext DEF Through
    <3> QED
      BY <3>1, <3>2, CleanGrows DEF Advance
  <2>4. CASE LoopEnd
    <3>1. UNCHANGED <<instance, connections, semantic, diagnostics>>
      BY <2>4 DEF LoopEnd
    <3>2. Dealt' = Dealt
      <4>1. CASE stage = "build"
        <5>1. stage' = "trace" /\ next' = 1
          BY <2>4, <4>1 DEF LoopEnd, NextStage
        <5>2. DOMAIN connections = 1..Len(connections)
          BY DEF ConnInv, Connecting
        <5> QED
          BY <3>1, <4>1, <5>1, <5>2 DEF Dealt
      <4>2. CASE stage = "trace"
        <5>1. stage' = "expand" /\ next > Len(connections)
          BY <2>4, <4>2 DEF LoopEnd, NextStage
        <5>2. DOMAIN connections = 1..Len(connections) /\ Len(connections) \in Nat
          BY DEF ConnInv, Connecting
        <5>3. next \in Nat
          BY InstanceAssumption DEF ConnInv, Connecting, Declared
        <5> QED
          BY <3>1, <4>2, <5>1, <5>2, <5>3 DEF Dealt
      <4>3. CASE stage = "expand"
        <5>1. stage' = "done"
          BY <2>4, <4>3 DEF LoopEnd, NextStage
        <5> QED
          BY <3>1, <4>3, <5>1 DEF Dealt
      <4> QED
        BY <2>4, <4>1, <4>2, <4>3 DEF LoopEnd
    <3> QED
      BY <3>1, <3>2, CleanGrows
  <2> QED
    BY <1>1, <2>1, <2>2, <2>3, <2>4, AcrossClean, RootClean, ExpandClean DEF Instantiate, ConnNext
<1>2. ASSUME UNCHANGED connVars PROVE CleanInv'
  <2>1. UNCHANGED <<instance, connections, semantic, diagnostics>> /\ Dealt' = Dealt
    BY <1>2 DEF connVars, Dealt
  <2> QED
    BY <2>1, CleanGrows
<1>3. CASE Emv2Pass
  <2>1. UNCHANGED connVars
    BY <1>3 DEF Emv2Pass, EmvNext, StartEmv, StartTraversal, Visit, Pass, Return, FinishEmv, connVars
  <2> QED
    BY <1>2, <2>1
<1>4. CASE ModePass
  <2>1. UNCHANGED connVars
    BY <1>4 DEF ModePass, ModeNext, StartMode, EnterComponent, SearchStep, NextRow, FinishComponent,
                FinishMode, connVars
  <2> QED
    BY <1>2, <2>1
<1>5. CASE UNCHANGED vars
  BY <1>2, <1>5 DEF vars
<1> QED
  BY <1>1, <1>3, <1>4, <1>5 DEF Next

(* The instance stays as it is. *)
LEMMA NamedOnceStays ==
    ASSUME ChildrenNamedOnce, [Next]_vars
    PROVE  ChildrenNamedOnce'
<1>1. instance' = instance
  BY DEF Next, Instantiate, ConnNext, InstantiateConnection, MissingEnd, TraceAcross, TraceRoot, TraceSkip,
         Advance, Expand, LoopEnd, Emv2Pass, EmvNext, StartEmv, StartTraversal, Visit, Pass, Return, FinishEmv,
         ModePass, ModeNext, StartMode, EnterComponent, SearchStep, NextRow, FinishComponent, FinishMode,
         connVars, vars
<1> QED
  BY <1>1 DEF ChildrenNamedOnce, Components, Comp, eq_ci

(* CleanInstancesConnected: for every instance whose declarations name a child    *)
(* once, without diagnostics no across connection is lost, and each child it      *)
(* names has a semantic connection through it (instance.rs:781-826).              *)
THEOREM CleanInstancesAreConnected == Spec /\ ChildrenNamedOnce => []CleanInstancesConnected
<1>1. Init => CleanInv
  BY DEF Init, ConnInit, CleanInv, Dealt
<1>2. ConnInv /\ CleanInv /\ ChildrenNamedOnce /\ [Next]_vars => CleanInv'
  BY CleanStep
<1>3. ChildrenNamedOnce /\ [Next]_vars => ChildrenNamedOnce'
  BY NamedOnceStays
<1>4. CleanInv => CleanInstancesConnected
  <2> SUFFICES ASSUME CleanInv, stage = "done", diagnostics = {}, NEW c \in DOMAIN connections
               PROVE  /\ HasEnds(c)
                      /\ IsAcross(c) =>
                           \A k \in NamedChildren(connections[c].owner, connections[c].src.sub) :
                             \A n \in NamedChildren(connections[c].owner, connections[c].dst.sub) :
                               /\ \E i \in DOMAIN semantic :
                                    c \in ToSet(semantic[i].path) /\ Within(semantic[i].src[1], k)
                               /\ \E i \in DOMAIN semantic :
                                    c \in ToSet(semantic[i].path) /\ Within(semantic[i].dst[1], n)
    BY DEF CleanInstancesConnected
  <2>1. Through(ToSet(semantic), c)
    BY DEF CleanInv, Dealt
  <2>2. \A sc \in ToSet(semantic) : \E i \in DOMAIN semantic : sc = semantic[i]
    BY DEF ToSet
  <2>3. ASSUME NEW k, NEW n, Crossed(ToSet(semantic), c, k, n)
        PROVE  /\ \E i \in DOMAIN semantic : c \in ToSet(semantic[i].path) /\ Within(semantic[i].src[1], k)
               /\ \E i \in DOMAIN semantic : c \in ToSet(semantic[i].path) /\ Within(semantic[i].dst[1], n)
    BY <2>2, <2>3 DEF Crossed
  <2> QED
    BY <2>1, <2>3 DEF Through
<1> QED
  BY <1>1, <1>2, <1>3, <1>4, ConnectionsInvariant, PTL DEF Spec

===================================================================================
