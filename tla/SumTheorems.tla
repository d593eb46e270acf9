------------------------------ MODULE SumTheorems -------------------------------
(***************************************************************************)
(* Sums over finite sets, and the arithmetic of the recurrences that are   *)
(* built from them.  The fold that SumFunctionOnSet stands for takes       *)
(* one element after the other out of the set; that such a recursion has a *)
(* value on every finite set, and what the value inherits from the terms,  *)
(* is shown by induction on the size of the set, in the form of sets of    *)
(* natural numbers closed under successor.  The same for sequences: what   *)
(* remains of one, and what several of them make when concatenated.        *)
(***************************************************************************)
EXTENDS Integers, FiniteSets, Functions, FiniteSetTheorems, SequenceTheorems, WellFoundedInduction, TLAPS

(* Induction over the naturals, for a set. *)
LEMMA ClosedUnderSuccessor ==
    ASSUME NEW T, 0 \in T, \A n \in Nat : n \in T => n + 1 \in T
    PROVE  \A n \in Nat : n \in T
<1> SUFFICES ASSUME {n \in Nat : n \notin T} # {} PROVE FALSE
  OBVIOUS
<1> DEFINE R == OpToRel(<, Nat)
<1> DEFINE U == {n \in Nat : n \notin T}
<1>1. IsWellFoundedOn(R, Nat)
  BY NatLessThanWellFounded
<1> HIDE DEF R
<1>2. U \in SUBSET Nat /\ U # {}
  OBVIOUS
<1> HIDE DEF U
<1>3. PICK x \in U : \A y \in U : ~ (<<y, x>> \in R)
  BY <1>1, <1>2, WFMin
<1>4. \A y \in U : ~ (y < x)
  BY <1>2, <1>3 DEF R, OpToRel
<1>5. x \in Nat /\ x \notin T
  BY <1>3 DEF U
<1>6. x # 0 /\ x - 1 \in Nat /\ x - 1 < x /\ (x - 1) + 1 = x
  BY <1>5
<1>7. x - 1 \in T
  BY <1>4, <1>6 DEF U
<1> QED
  BY <1>5, <1>6, <1>7

(* The recursion of the fold, on the sets of D. *)
Picked(s) == CHOOSE x \in s : TRUE

IsSum(fun, D, g) ==
    g = [s \in D |-> IF s = {} THEN 0 ELSE fun[Picked(s)] + g[s \ {Picked(s)}]]

LEMMA SumUnfolded ==
    ASSUME NEW fun, NEW S
    PROVE  SumFunctionOnSet(fun, S) = (CHOOSE g : IsSum(fun, SUBSET S, g))[S]
BY DEF SumFunctionOnSet, FoldFunctionOnSet, MapThenFoldSet, IsSum, Picked

(* Taking an element out of a finite set leaves a smaller one. *)
LEMMA SmallerSet ==
    ASSUME NEW S, IsFiniteSet(S), NEW s \in SUBSET S, s # {}
    PROVE  /\ Picked(s) \in s /\ Picked(s) \in S
           /\ s \ {Picked(s)} \in SUBSET S
           /\ Cardinality(s) \in Nat \ {0}
           /\ Cardinality(s \ {Picked(s)}) = Cardinality(s) - 1
<1>1. Picked(s) \in s
  BY DEF Picked
<1>2. IsFiniteSet(s)
  BY FS_Subset
<1>3. Cardinality(s) \in Nat /\ Cardinality(s) # 0
  BY <1>2, FS_CardinalityType, FS_EmptySet
<1> QED
  BY <1>1, <1>2, <1>3, FS_RemoveElement

(* The subsets of S with at most n elements. *)
UpTo(S, n) == {s \in SUBSET S : Cardinality(s) <= n}

LEMMA SumExistsUpTo ==
    ASSUME NEW fun, NEW S, IsFiniteSet(S)
    PROVE  \A n \in Nat : \E g : IsSum(fun, UpTo(S, n), g)
<1> DEFINE T == {n \in Nat : \E g : IsSum(fun, UpTo(S, n), g)}
<1>0. \A s \in SUBSET S : Cardinality(s) \in Nat /\ (Cardinality(s) = 0 => s = {})
  BY FS_Subset, FS_CardinalityType, FS_EmptySet
<1>1. 0 \in T
  <2> DEFINE g == [s \in UpTo(S, 0) |-> 0]
  <2>1. \A s \in UpTo(S, 0) : s = {}
    BY <1>0 DEF UpTo
  <2>2. IsSum(fun, UpTo(S, 0), g)
    BY <2>1 DEF IsSum
  <2> QED
    BY <2>2
<1>2. ASSUME NEW n \in Nat, n \in T PROVE n + 1 \in T
  <2>1. PICK g : IsSum(fun, UpTo(S, n), g)
    BY <1>2
  <2> DEFINE Val(s) == IF s = {} THEN 0 ELSE fun[Picked(s)] + g[s \ {Picked(s)}]
  <2> DEFINE h == [s \in UpTo(S, n + 1) |-> Val(s)]
  <2>2. \A s \in UpTo(S, n) : s \in UpTo(S, n + 1) /\ g[s] = Val(s)
    <3>1. \A s \in UpTo(S, n) : s \in UpTo(S, n + 1)
      BY <1>0 DEF UpTo
    <3> QED
      BY <2>1, <3>1 DEF IsSum
  <2>3. \A s \in UpTo(S, n) : h[s] = g[s]
    BY <2>2
  <2>4. ASSUME NEW s \in UpTo(S, n + 1), s # {}
        PROVE  s \ {Picked(s)} \in UpTo(S, n)
    BY <2>4, SmallerSet DEF UpTo
  <2>5. \A s \in UpTo(S, n + 1) :
            Val(s) = IF s = {} THEN 0 ELSE fun[Picked(s)] + h[s \ {Picked(s)}]
    BY <2>3, <2>4
  <2>6. IsSum(fun, UpTo(S, n + 1), h)
    BY <2>5 DEF IsSum
  <2> QED
    BY <2>6
<1> HIDE DEF T
<1>3. \A n \in Nat : n \in T
  BY <1>1, <1>2, ClosedUnderSuccessor
<1> QED
  BY <1>3 DEF T

(* The fold has a value on every finite set. *)
LEMMA SumExists ==
    ASSUME NEW fun, NEW S, IsFiniteSet(S)
    PROVE  \E g : IsSum(fun, SUBSET S, g) /\ SumFunctionOnSet(fun, S) = g[S]
<1>1. Cardinality(S) \in Nat
  BY FS_CardinalityType
<1>2. UpTo(S, Cardinality(S)) = SUBSET S
  <2>1. \A s \in SUBSET S : Cardinality(s) <= Cardinality(S)
    BY FS_Subset
  <2> QED
    BY <2>1 DEF UpTo
<1>3. \E g : IsSum(fun, SUBSET S, g)
  <2>1. \E g : IsSum(fun, UpTo(S, Cardinality(S)), g)
    BY <1>1, SumExistsUpTo
  <2> QED
    BY <1>2, <2>1
<1> DEFINE c == CHOOSE g : IsSum(fun, SUBSET S, g)
<1>4. IsSum(fun, SUBSET S, c)
  BY <1>3
<1>5. SumFunctionOnSet(fun, S) = c[S]
  BY SumUnfolded
<1> QED
  BY <1>4, <1>5

--------------------------------------------------------------------------------
(* What sums inherit from their terms.                                       *)

(* Two functions whose terms are naturals, the first below the second. *)
LEMMA SumMonotone ==
    ASSUME NEW S, IsFiniteSet(S), NEW fun, NEW gun,
           \A x \in S : fun[x] \in Nat /\ gun[x] \in Nat /\ fun[x] <= gun[x]
    PROVE  /\ SumFunctionOnSet(fun, S) \in Nat
           /\ SumFunctionOnSet(gun, S) \in Nat
           /\ SumFunctionOnSet(fun, S) <= SumFunctionOnSet(gun, S)
<1>1. PICK g : IsSum(fun, SUBSET S, g) /\ SumFunctionOnSet(fun, S) = g[S]
  BY SumExists
<1>2. PICK h : IsSum(gun, SUBSET S, h) /\ SumFunctionOnSet(gun, S) = h[S]
  BY SumExists
<1> DEFINE Fine(s) == g[s] \in Nat /\ h[s] \in Nat /\ g[s] <= h[s]
<1> DEFINE T == {n \in Nat : \A s \in SUBSET S : Cardinality(s) = n => Fine(s)}
<1>3. \A s \in SUBSET S : /\ Cardinality(s) \in Nat
                          /\ g[s] = IF s = {} THEN 0 ELSE fun[Picked(s)] + g[s \ {Picked(s)}]
                          /\ h[s] = IF s = {} THEN 0 ELSE gun[Picked(s)] + h[s \ {Picked(s)}]
  <2>1. \A s \in SUBSET S : Cardinality(s) \in Nat
    BY FS_Subset, FS_CardinalityType
  <2> QED
    BY <1>1, <1>2, <2>1 DEF IsSum
<1>4. 0 \in T
  <2>1. \A s \in SUBSET S : Cardinality(s) = 0 => s = {}
    BY FS_Subset, FS_EmptySet
  <2>2. Fine({})
    <3>1. {} \in SUBSET S
      OBVIOUS
    <3>2. g[{}] = 0 /\ h[{}] = 0
      BY <1>3, <3>1
    <3> QED
      BY <3>2
  <2>3. \A s \in SUBSET S : Cardinality(s) = 0 => Fine(s)
    BY <2>1, <2>2
  <2> QED
    BY <2>3
<1>5. ASSUME NEW n \in Nat, n \in T PROVE n + 1 \in T
  <2> SUFFICES ASSUME NEW s \in SUBSET S, Cardinality(s) = n + 1 PROVE Fine(s)
    OBVIOUS
  <2>1. s # {}
    BY FS_EmptySet
  <2>2. /\ Picked(s) \in S /\ s \ {Picked(s)} \in SUBSET S
        /\ Cardinality(s \ {Picked(s)}) = n
    BY <2>1, SmallerSet
  <2>3. Fine(s \ {Picked(s)})
    BY <1>5, <2>2
  <2>4. /\ g[s] = fun[Picked(s)] + g[s \ {Picked(s)}]
        /\ h[s] = gun[Picked(s)] + h[s \ {Picked(s)}]
    BY <1>3, <2>1
  <2>5. fun[Picked(s)] \in Nat /\ gun[Picked(s)] \in Nat /\ fun[Picked(s)] <= gun[Picked(s)]
    BY <2>2
  <2> QED
    BY <2>3, <2>4, <2>5
<1> HIDE DEF T
<1>6. \A n \in Nat : n \in T
  BY <1>4, <1>5, ClosedUnderSuccessor
<1>7. Fine(S)
  BY <1>3, <1>6 DEF T
<1> QED
  BY <1>1, <1>2, <1>7

LEMMA SumNat ==
    ASSUME NEW S, IsFiniteSet(S), NEW fun, \A x \in S : fun[x] \in Nat
    PROVE  SumFunctionOnSet(fun, S) \in Nat
<1>1. \A x \in S : fun[x] <= fun[x]
  OBVIOUS
<1> QED
  BY <1>1, SumMonotone

(* The sum depends on the terms alone. *)
LEMMA SumSame ==
    ASSUME NEW S, IsFiniteSet(S), NEW fun, NEW gun,
           \A x \in S : fun[x] \in Nat /\ fun[x] = gun[x]
    PROVE  SumFunctionOnSet(fun, S) = SumFunctionOnSet(gun, S)
<1>1. \A x \in S : /\ fun[x] \in Nat /\ gun[x] \in Nat
                   /\ fun[x] <= gun[x] /\ gun[x] <= fun[x]
  OBVIOUS
<1>2. /\ SumFunctionOnSet(fun, S) \in Nat /\ SumFunctionOnSet(gun, S) \in Nat
      /\ SumFunctionOnSet(fun, S) <= SumFunctionOnSet(gun, S)
  BY <1>1, SumMonotone
<1>3. SumFunctionOnSet(gun, S) <= SumFunctionOnSet(fun, S)
  BY <1>1, SumMonotone
<1> QED
  BY <1>2, <1>3

(* No term is larger than the sum. *)
LEMMA SumAboveTerms ==
    ASSUME NEW S, IsFiniteSet(S), NEW fun, \A x \in S : fun[x] \in Nat, NEW y \in S
    PROVE  fun[y] <= SumFunctionOnSet(fun, S)
<1>1. PICK g : IsSum(fun, SUBSET S, g) /\ SumFunctionOnSet(fun, S) = g[S]
  BY SumExists
<1> DEFINE Fine(s) == g[s] \in Nat /\ (y \in s => fun[y] <= g[s])
<1> DEFINE T == {n \in Nat : \A s \in SUBSET S : Cardinality(s) = n => Fine(s)}
<1>3. \A s \in SUBSET S : /\ Cardinality(s) \in Nat
                          /\ g[s] = IF s = {} THEN 0 ELSE fun[Picked(s)] + g[s \ {Picked(s)}]
  <2>1. \A s \in SUBSET S : Cardinality(s) \in Nat
    BY FS_Subset, FS_CardinalityType
  <2> QED
    BY <1>1, <2>1 DEF IsSum
<1>4. 0 \in T
  <2>1. \A s \in SUBSET S : Cardinality(s) = 0 => s = {}
    BY FS_Subset, FS_EmptySet
  <2>2. Fine({})
    BY <1>3
  <2>3. \A s \in SUBSET S : Cardinality(s) = 0 => Fine(s)
    BY <2>1, <2>2
  <2> QED
    BY <2>3
<1>5. ASSUME NEW n \in Nat, n \in T PROVE n + 1 \in T
  <2> SUFFICES ASSUME NEW s \in SUBSET S, Cardinality(s) = n + 1 PROVE Fine(s)
    OBVIOUS
  <2>1. s # {}
    BY FS_EmptySet
  <2>2. /\ Picked(s) \in S /\ s \ {Picked(s)} \in SUBSET S
        /\ Cardinality(s \ {Picked(s)}) = n
    BY <2>1, SmallerSet
  <2>3. Fine(s \ {Picked(s)})
    BY <1>5, <2>2
  <2>4. g[s] = fun[Picked(s)] + g[s \ {Picked(s)}] /\ fun[Picked(s)] \in Nat /\ fun[y] \in Nat
    BY <1>3, <2>1, <2>2
  <2>5. y \in s => y = Picked(s) \/ y \in s \ {Picked(s)}
    OBVIOUS
  <2> QED
    BY <2>3, <2>4, <2>5
<1> HIDE DEF T
<1>6. \A n \in Nat : n \in T
  BY <1>4, <1>5, ClosedUnderSuccessor
<1>7. Fine(S)
  BY <1>3, <1>6 DEF T
<1> QED
  BY <1>1, <1>7

(* The recursion gives a set the same value whatever the sets around it. *)
LEMMA SumWithin ==
    ASSUME NEW fun, NEW T, IsFiniteSet(T), NEW S \in SUBSET T,
           NEW g, IsSum(fun, SUBSET T, g)
    PROVE  SumFunctionOnSet(fun, S) = g[S]
<1>1. IsFiniteSet(S)
  BY FS_Subset
<1>2. PICK h : IsSum(fun, SUBSET S, h) /\ SumFunctionOnSet(fun, S) = h[S]
  BY <1>1, SumExists
<1> DEFINE Same == {n \in Nat : \A s \in SUBSET S : Cardinality(s) = n => g[s] = h[s]}
<1>3. \A s \in SUBSET S :
         /\ g[s] = IF s = {} THEN 0 ELSE fun[Picked(s)] + g[s \ {Picked(s)}]
         /\ h[s] = IF s = {} THEN 0 ELSE fun[Picked(s)] + h[s \ {Picked(s)}]
  <2>1. \A s \in SUBSET S : s \in SUBSET T
    OBVIOUS
  <2> QED
    BY <1>2, <2>1 DEF IsSum
<1>4. 0 \in Same
  <2>1. \A s \in SUBSET S : Cardinality(s) = 0 => s = {}
    BY <1>1, FS_Subset, FS_EmptySet
  <2>2. g[{}] = h[{}]
    BY <1>3
  <2> QED
    BY <2>1, <2>2
<1>5. ASSUME NEW n \in Nat, n \in Same PROVE n + 1 \in Same
  <2> SUFFICES ASSUME NEW s \in SUBSET S, Cardinality(s) = n + 1 PROVE g[s] = h[s]
    OBVIOUS
  <2>1. s # {}
    BY FS_EmptySet
  <2>2. s \ {Picked(s)} \in SUBSET S /\ Cardinality(s \ {Picked(s)}) = n
    BY <1>1, <2>1, SmallerSet
  <2>3. g[s \ {Picked(s)}] = h[s \ {Picked(s)}]
    BY <1>5, <2>2
  <2> QED
    BY <1>3, <2>1, <2>3
<1> HIDE DEF Same
<1>6. \A n \in Nat : n \in Same
  BY <1>4, <1>5, ClosedUnderSuccessor
<1>7. Cardinality(S) \in Nat
  BY <1>1, FS_CardinalityType
<1> QED
  BY <1>2, <1>6, <1>7 DEF Same

(* Whatever element is taken first, the sum is the same. *)
LEMMA SumAnyOrder ==
    ASSUME NEW fun, NEW T, IsFiniteSet(T), \A x \in T : fun[x] \in Nat,
           NEW g, IsSum(fun, SUBSET T, g)
    PROVE  \A s \in SUBSET T : g[s] \in Nat /\ \A z \in s : g[s] = fun[z] + g[s \ {z}]
<1> DEFINE Fine(s) == g[s] \in Nat /\ \A z \in s : g[s] = fun[z] + g[s \ {z}]
<1> DEFINE N == {n \in Nat : \A s \in SUBSET T : Cardinality(s) = n => Fine(s)}
<1>1. \A s \in SUBSET T : g[s] = IF s = {} THEN 0 ELSE fun[Picked(s)] + g[s \ {Picked(s)}]
  BY DEF IsSum
<1>2. 0 \in N
  <2>1. \A s \in SUBSET T : Cardinality(s) = 0 => s = {}
    BY FS_Subset, FS_EmptySet
  <2>2. Fine({})
    BY <1>1
  <2>3. \A s \in SUBSET T : Cardinality(s) = 0 => Fine(s)
    BY <2>1, <2>2
  <2> QED
    BY <2>3
<1>3. ASSUME NEW n \in Nat, n \in N PROVE n + 1 \in N
  <2> SUFFICES ASSUME NEW s \in SUBSET T, Cardinality(s) = n + 1 PROVE Fine(s)
    OBVIOUS
  <2> DEFINE x == Picked(s)
  <2>1. s # {} /\ IsFiniteSet(s)
    BY FS_EmptySet, FS_Subset
  <2>2. x \in s /\ s \ {x} \in SUBSET T /\ Cardinality(s \ {x}) = n
    BY <2>1, SmallerSet
  <2>3. Fine(s \ {x}) /\ g[s] = fun[x] + g[s \ {x}] /\ fun[x] \in Nat
    BY <1>1, <1>3, <2>1, <2>2
  <2>4. g[s] \in Nat
    BY <2>3
  <2>5. ASSUME NEW z \in s PROVE g[s] = fun[z] + g[s \ {z}]
    <3>1. CASE z = x
      BY <2>3, <3>1
    <3>2. CASE z # x
      <4> DEFINE r == (s \ {x}) \ {z}
      <4>1. g[s \ {x}] = fun[z] + g[r]
        <5>1. z \in s \ {x}
          BY <3>2
        <5> HIDE DEF x
        <5> QED
          BY <2>3, <5>1
      <4>2. s \ {z} \in SUBSET T /\ Cardinality(s \ {z}) = n
        <5>1. Cardinality(s \ {z}) = Cardinality(s) - 1
          BY <2>1, FS_RemoveElement
        <5>2. s \ {z} \in SUBSET T
          OBVIOUS
        <5> QED
          BY <5>1, <5>2
      <4>3. Fine(s \ {z})
        BY <1>3, <4>2
      <4>4. (s \ {z}) \ {x} = r /\ x \in s \ {z}
        BY <2>2, <3>2
      <4>5. g[s \ {z}] = fun[x] + g[r]
        BY <4>3, <4>4
      <4>6. g[r] \in Nat
        <5>1. r \in SUBSET T /\ z \in s \ {x} /\ IsFiniteSet(s \ {x})
          BY <2>2, <3>2, FS_Subset
        <5> HIDE DEF x
        <5>2. SumFunctionOnSet(fun, r) = g[r]
          BY <5>1, SumWithin
        <5>3. IsFiniteSet(r) /\ \A u \in r : fun[u] \in Nat
          BY <5>1, FS_Subset
        <5> HIDE DEF r
        <5> QED
          BY <5>2, <5>3, SumNat
      <4> HIDE DEF x, r
      <4> QED
        BY <2>3, <4>1, <4>5, <4>6
    <3> QED
      BY <3>1, <3>2
  <2> QED
    BY <2>4, <2>5
<1> HIDE DEF N
<1>4. \A n \in Nat : n \in N
  BY <1>2, <1>3, ClosedUnderSuccessor
<1>5. \A s \in SUBSET T : Cardinality(s) \in Nat
  BY FS_Subset, FS_CardinalityType
<1>6. \A s \in SUBSET T : Fine(s)
  BY <1>4, <1>5 DEF N
<1> QED
  BY <1>6

(* No terms. *)
LEMMA SumEmpty ==
    ASSUME NEW fun
    PROVE  SumFunctionOnSet(fun, {}) = 0
<1>1. PICK g : IsSum(fun, SUBSET {}, g) /\ SumFunctionOnSet(fun, {}) = g[{}]
  BY SumExists, FS_EmptySet
<1> QED
  BY <1>1 DEF IsSum

(* One more term. *)
LEMMA SumInsert ==
    ASSUME NEW fun, NEW S, IsFiniteSet(S), NEW y, y \notin S,
           \A x \in S \cup {y} : fun[x] \in Nat
    PROVE  SumFunctionOnSet(fun, S \cup {y}) = SumFunctionOnSet(fun, S) + fun[y]
<1> DEFINE T == S \cup {y}
<1>1. IsFiniteSet(T)
  BY FS_AddElement
<1>2. PICK g : IsSum(fun, SUBSET T, g) /\ SumFunctionOnSet(fun, T) = g[T]
  BY <1>1, SumExists
<1>3. T \in SUBSET T /\ S \in SUBSET T /\ y \in T /\ T \ {y} = S /\ \A x \in T : fun[x] \in Nat
  OBVIOUS
<1>0. fun[y] \in Nat
  OBVIOUS
<1> HIDE DEF T
<1>4. g[T] = fun[y] + g[T \ {y}]
  BY <1>1, <1>2, <1>3, SumAnyOrder
<1>5. SumFunctionOnSet(fun, S) = g[S] /\ g[S] \in Nat
  <2>1. SumFunctionOnSet(fun, S) = g[S]
    BY <1>1, <1>2, <1>3, SumWithin
  <2>2. \A x \in S : fun[x] \in Nat
    BY <1>3
  <2> QED
    BY <2>1, <2>2, SumNat
<1>6. SumFunctionOnSet(fun, T) = SumFunctionOnSet(fun, S) + fun[y]
  <2>1. g[T] = fun[y] + g[S]
    BY <1>3, <1>4
  <2>2. SumFunctionOnSet(fun, T) = g[T]
    BY <1>2
  <2>3. g[T] = g[S] + fun[y]
    BY ONLY <1>0, <1>5, <2>1
  <2> QED
    BY ONLY <1>5, <2>2, <2>3
<1> QED
  BY <1>6 DEF T

--------------------------------------------------------------------------------
(* Arithmetic and finite sets.                                               *)

LEMMA DivMonotone ==
    ASSUME NEW a \in Nat, NEW b \in Nat, NEW p \in Nat \ {0}, a <= b
    PROVE  a \div p \in Nat /\ b \div p \in Nat /\ a \div p <= b \div p
<1> DEFINE c == a \div p
<1> DEFINE d == b \div p
<1>1. c \in Nat /\ d \in Nat
  OBVIOUS
<1>2. p * c <= a /\ b < p * d + p
  OBVIOUS
<1> HIDE DEF c, d
<1>3. c > d => p * c >= p * d + p
  <2> SUFFICES ASSUME c >= d + 1 PROVE p * c >= p * (d + 1) /\ p * (d + 1) = p * d + p
    BY <1>1
  <2> QED
    BY <1>1
<1>4. c <= d
  BY <1>1, <1>2, <1>3
<1> QED
  BY <1>1, <1>4 DEF c, d

LEMMA ProductMonotone ==
    ASSUME NEW a \in Nat, NEW b \in Nat, NEW e \in Nat, a <= b
    PROVE  a * e \in Nat /\ b * e \in Nat /\ a * e <= b * e
OBVIOUS

(* The image of a finite set. *)
LEMMA ImageFinite ==
    ASSUME NEW S, IsFiniteSet(S), NEW f
    PROVE  IsFiniteSet({f[x] : x \in S})
<1> DEFINE T == {f[x] : x \in S}
<1> DEFINE g == [x \in S |-> f[x]]
<1>1. g \in Surjection(S, T)
  BY DEF Surjection
<1> QED
  BY <1>1, FS_Surjection

--------------------------------------------------------------------------------
(* Sequences: a part of one, several of them one after the other.            *)

(* t begins with the first n elements of s. *)
Prefix(s, n, t) == \A i \in 1..n : t[i] = s[i]

(* g[i] are the elements among the first i of s at positions of I, in order. *)
IsKept(s, I, n, g) ==
    g = [i \in 0..n |-> IF i = 0 THEN <<>> ELSE IF i \in I THEN Append(g[i - 1], s[i]) ELSE g[i - 1]]

(* There is such a g. *)
LEMMA KeptExistsUpTo ==
    ASSUME NEW s, NEW I
    PROVE  \A n \in Nat : \E g : IsKept(s, I, n, g)
<1> DEFINE T == {n \in Nat : \E g : IsKept(s, I, n, g)}
<1>1. 0 \in T
  <2> DEFINE g == [i \in 0..0 |-> <<>>]
  <2>1. IsKept(s, I, 0, g)
    BY DEF IsKept
  <2> QED
    BY <2>1
<1>2. ASSUME NEW n \in Nat, n \in T PROVE n + 1 \in T
  <2>1. PICK g : IsKept(s, I, n, g)
    BY <1>2
  <2> DEFINE Val(i) == IF i = 0 THEN <<>> ELSE IF i \in I THEN Append(g[i - 1], s[i]) ELSE g[i - 1]
             f == [i \in 0..(n + 1) |-> Val(i)]
  <2>2. \A i \in 0..n : i \in 0..(n + 1) /\ g[i] = Val(i) /\ f[i] = Val(i)
    <3>1. \A i \in 0..n : i \in 0..(n + 1)
      OBVIOUS
    <3>2. g = [i \in 0..n |-> Val(i)]
      BY <2>1 DEF IsKept
    <3> HIDE DEF Val
    <3>3. \A i \in 0..n : g[i] = Val(i)
      BY <3>2
    <3>4. \A i \in 0..n : f[i] = Val(i)
      BY <3>1
    <3> QED
      BY <3>1, <3>3, <3>4
  <2>3. \A i \in 0..(n + 1) : i # 0 => i - 1 \in 0..n
    OBVIOUS
  <2>4. \A i \in 0..(n + 1) :
           Val(i) = IF i = 0 THEN <<>> ELSE IF i \in I THEN Append(f[i - 1], s[i]) ELSE f[i - 1]
    BY <2>2, <2>3
  <2>5. IsKept(s, I, n + 1, f)
    BY <2>4 DEF IsKept
  <2> QED
    BY <2>5
<1> HIDE DEF T
<1>3. \A n \in Nat : n \in T
  BY <1>1, <1>2, ClosedUnderSuccessor
<1> QED
  BY <1>3 DEF T

(* g[i] is what is kept of the first i elements. *)
Sifts(s, I, n, g) ==
    /\ g[0] = <<>>
    /\ \A i \in 1..n : g[i] = IF i \in I THEN Append(g[i - 1], s[i]) ELSE g[i - 1]

(* I and J agree up to k. *)
SameUpTo(I, J, k) == \A i \in 1..k : i \in I <=> i \in J

(* Fewer elements. *)
LEMMA SiftsLess ==
    ASSUME NEW s, NEW I, NEW n \in Nat, NEW g, Sifts(s, I, n, g), NEW k \in 0..n
    PROVE  Sifts(s, I, k, g)
<1>1. \A i \in 1..k : i \in 1..n
  OBVIOUS
<1> QED
  BY <1>1 DEF Sifts

(* What is kept of a common beginning is the same. *)
LEMMA KeptPrefix ==
    ASSUME NEW s, NEW t, NEW I, NEW J, NEW k \in Nat, Prefix(s, k, t), SameUpTo(I, J, k),
           NEW g, NEW f, Sifts(s, I, k, g), Sifts(t, J, k, f)
    PROVE  f[k] = g[k]
<1> DEFINE T == {i \in Nat : i <= k => f[i] = g[i]}
<1>1. 0 \in T
  BY DEF Sifts
<1>2. ASSUME NEW i \in Nat, i \in T PROVE i + 1 \in T
  <2> SUFFICES ASSUME i + 1 <= k PROVE f[i + 1] = g[i + 1]
    OBVIOUS
  <2>1. i + 1 \in 1..k /\ (i + 1) - 1 = i /\ f[i] = g[i]
    BY <1>2
  <2>2. t[i + 1] = s[i + 1]
    BY <2>1 DEF Prefix
  <2>3. g[i + 1] = IF i + 1 \in I THEN Append(g[i], s[i + 1]) ELSE g[i]
    BY <2>1 DEF Sifts
  <2>4. f[i + 1] = IF i + 1 \in J THEN Append(f[i], t[i + 1]) ELSE f[i]
    BY <2>1 DEF Sifts
  <2> QED
    BY <2>1, <2>2, <2>3, <2>4 DEF SameUpTo
<1> HIDE DEF T
<1>3. k \in T
  BY <1>1, <1>2, ClosedUnderSuccessor
<1> QED
  BY <1>3 DEF T

(* b is u followed by w. *)
Parts(u, w, b) ==
    /\ Len(b) = Len(u) + Len(w)
    /\ SubSeq(b, 1, Len(u)) = u /\ SubSeq(b, Len(u) + 1, Len(b)) = w

(* So is their concatenation. *)
LEMMA ConcatParts ==
    ASSUME NEW S, NEW u \in Seq(S), NEW w \in Seq(S)
    PROVE  Parts(u, w, u \o w)
<1>0. PICK b : b = u \o w
  OBVIOUS
<1>1. PICK k \in Nat, m \in Nat : k = Len(u) /\ m = Len(w)
  OBVIOUS
<1>2. b \in Seq(S) /\ Len(b) = k + m /\ \A i \in 1..(k + m) : b[i] = IF i <= k THEN u[i] ELSE w[i - k]
  BY <1>0, <1>1, ConcatProperties
<1>3. PICK c, d : c = SubSeq(b, 1, k) /\ d = SubSeq(b, k + 1, k + m)
  OBVIOUS
<1>4. c \in Seq(S) /\ Len(c) = k /\ \A i \in 1..k : c[i] = b[i]
  BY <1>2, <1>3
<1>5. c = u
  <2>1. ASSUME NEW i \in 1..k PROVE c[i] = u[i]
    <3>1. i \in 1..(k + m) /\ i <= k
      OBVIOUS
    <3>2. b[i] = u[i]
      BY <1>2, <3>1
    <3> QED
      BY <1>4, <3>2
  <2> QED
    BY <1>1, <1>4, <2>1, SeqEqual
<1>6. d \in Seq(S) /\ Len(d) = m /\ \A i \in 1..m : d[i] = b[k + i]
  <2>1. (k + m) - (k + 1) + 1 = m /\ \A i \in 1..m : (k + 1) + i - 1 = k + i /\ k + i \in 1..(k + m)
    OBVIOUS
  <2>2. \A i \in (k + 1)..(k + m) : b[i] \in S
    <3>1. \A i \in (k + 1)..(k + m) : i \in 1..Len(b)
      BY <1>2
    <3> QED
      BY <1>2, <3>1, ElementOfSeq
  <2>3. k + 1 \in Int /\ k + m \in Int
    OBVIOUS
  <2>4. /\ d \in Seq(S)
        /\ Len(d) = IF k + 1 <= k + m THEN (k + m) - (k + 1) + 1 ELSE 0
        /\ \A i \in 1..((k + m) - (k + 1) + 1) : d[i] = b[(k + 1) + i - 1]
    BY ONLY <1>3, <2>2, <2>3, SubSeqProperties
  <2> QED
    <3>1. Len(d) = m
      BY ONLY <2>4, k \in Nat, m \in Nat
    <3>2. \A i \in 1..m : d[i] = b[k + i]
      <4>1. \A i \in 1..m : d[i] = b[(k + 1) + i - 1]
        BY <2>1, <2>4
      <4> QED
        BY <2>1, <4>1
    <3> QED
      BY <2>4, <3>1, <3>2
<1>7. d = w
  <2>1. ASSUME NEW i \in 1..m PROVE d[i] = w[i]
    <3>1. k + i \in 1..(k + m) /\ ~(k + i <= k) /\ (k + i) - k = i
      OBVIOUS
    <3> QED
      BY <1>2, <1>6, <3>1
  <2> QED
    BY <1>1, <1>6, <2>1, SeqEqual
<1> QED
  BY <1>0, <1>1, <1>2, <1>3, <1>5, <1>7 DEF Parts

(* y is f[a] \o ... \o f[b], all of them sequences over S. *)
IsYield(S, f, a, b, g) ==
    /\ g[a - 1] = <<>>
    /\ \A i \in a..b : f[i] \in Seq(S) /\ g[i] = g[i - 1] \o f[i]
Yields(S, f, a, b, y) == \E g : IsYield(S, f, a, b, g) /\ y = g[b]

(* Nothing yields nothing. *)
LEMMA YieldsNothing ==
    ASSUME NEW S, NEW f, NEW a \in Nat, NEW b, b = a - 1
    PROVE  Yields(S, f, a, b, <<>>)
<1> DEFINE g == [i \in {b} |-> <<>>]
<1>1. g[a - 1] = <<>> /\ g[b] = <<>> /\ \A i \in a..b : FALSE
  OBVIOUS
<1> QED
  BY <1>1 DEF Yields, IsYield

(* What is yielded is a sequence of elements of S. *)
LEMMA YieldsType ==
    ASSUME NEW S, NEW f, NEW a \in Nat, NEW b \in Int, a <= b + 1, NEW y, Yields(S, f, a, b, y)
    PROVE  y \in Seq(S)
<1>1. PICK g : IsYield(S, f, a, b, g) /\ y = g[b]
  BY DEF Yields
<1> DEFINE T == {n \in Nat : (a - 1) + n <= b => g[(a - 1) + n] \in Seq(S)}
<1>2. 0 \in T
  <2>1. <<>> \in Seq(S)
    OBVIOUS
  <2>2. (a - 1) + 0 = a - 1
    OBVIOUS
  <2>3. g[(a - 1) + 0] \in Seq(S)
    BY <1>1, <2>1, <2>2 DEF IsYield
  <2> QED
    BY <2>3
<1>3. ASSUME NEW n \in Nat, n \in T PROVE n + 1 \in T
  <2> SUFFICES ASSUME (a - 1) + (n + 1) <= b PROVE g[(a - 1) + (n + 1)] \in Seq(S)
    OBVIOUS
  <2>1. PICK i \in a..b : i = (a - 1) + (n + 1) /\ i - 1 = (a - 1) + n
    OBVIOUS
  <2>2. g[i - 1] \in Seq(S)
    BY <1>3, <2>1
  <2>3. f[i] \in Seq(S) /\ g[i] = g[i - 1] \o f[i]
    BY <1>1, <2>1 DEF IsYield
  <2> QED
    BY <2>1, <2>2, <2>3, ConcatProperties
<1> HIDE DEF T
<1>4. \A n \in Nat : n \in T
  BY <1>2, <1>3, ClosedUnderSuccessor
<1>5. PICK n \in Nat : n = b - (a - 1)
  <2>1. b - (a - 1) \in Nat
    OBVIOUS
  <2> QED
    BY <2>1
<1>6. (a - 1) + n = b /\ b <= b
  BY <1>5
<1>7. g[(a - 1) + n] \in Seq(S)
  BY <1>4, <1>6 DEF T
<1> QED
  BY <1>1, <1>6, <1>7

(* One more. *)
LEMMA YieldsMore ==
    ASSUME NEW S, NEW f, NEW a \in Nat, NEW b \in Int, a <= b + 1, NEW y, Yields(S, f, a, b, y), f[b + 1] \in Seq(S)
    PROVE  Yields(S, f, a, b + 1, y \o f[b + 1])
<1>1. PICK g : IsYield(S, f, a, b, g) /\ y = g[b]
  BY DEF Yields
<1> DEFINE w == [i \in (a - 1)..(b + 1) |-> IF i = b + 1 THEN y \o f[b + 1] ELSE g[i]]
<1>2. w[a - 1] = <<>> /\ w[b + 1] = y \o f[b + 1]
  <2>1. a - 1 \in (a - 1)..(b + 1) /\ b + 1 \in (a - 1)..(b + 1) /\ a - 1 # b + 1
    OBVIOUS
  <2>2. w[a - 1] = g[a - 1] /\ w[b + 1] = y \o f[b + 1]
    BY <2>1
  <2> QED
    BY <1>1, <2>2 DEF IsYield
<1>3. ASSUME NEW i \in a..(b + 1) PROVE f[i] \in Seq(S) /\ w[i] = w[i - 1] \o f[i]
  <2>1. CASE i = b + 1
    <3>1. i - 1 = b /\ b \in (a - 1)..(b + 1)
      BY <2>1
    <3>2. w[b] = g[b]
      BY <3>1
    <3> QED
      BY <1>1, <1>2, <2>1, <3>1, <3>2
  <2>2. CASE i # b + 1
    <3>1. i \in a..b /\ i - 1 \in (a - 1)..(b + 1) /\ i - 1 # b + 1 /\ i \in (a - 1)..(b + 1)
      BY <2>2
    <3>2. w[i] = g[i] /\ w[i - 1] = g[i - 1]
      BY <2>2, <3>1
    <3> QED
      BY <1>1, <3>1, <3>2 DEF IsYield
  <2> QED
    BY <2>1, <2>2
<1> HIDE DEF w
<1> QED
  BY <1>2, <1>3 DEF Yields, IsYield

(* f and k agree from a to b. *)
SameFrom(f, k, a, b) == \A i \in a..b : k[i] = f[i]

(* Only what is between a and b matters. *)
LEMMA YieldsSame ==
    ASSUME NEW S, NEW f, NEW k, NEW a, NEW b, NEW y, Yields(S, f, a, b, y), SameFrom(f, k, a, b)
    PROVE  Yields(S, k, a, b, y)
BY DEF Yields, IsYield, SameFrom

(* They yield one thing only. *)
LEMMA YieldsUnique ==
    ASSUME NEW S, NEW f, NEW a \in Nat, NEW b \in Int, a <= b + 1, NEW y, NEW z, Yields(S, f, a, b, y), Yields(S, f, a, b, z)
    PROVE  y = z
<1>1. PICK g : IsYield(S, f, a, b, g) /\ y = g[b]
  BY DEF Yields
<1>2. PICK w : IsYield(S, f, a, b, w) /\ z = w[b]
  BY DEF Yields
<1> DEFINE T == {n \in Nat : (a - 1) + n <= b => g[(a - 1) + n] = w[(a - 1) + n]}
<1>3. 0 \in T
  BY <1>1, <1>2 DEF IsYield
<1>4. ASSUME NEW n \in Nat, n \in T PROVE n + 1 \in T
  <2> SUFFICES ASSUME (a - 1) + (n + 1) <= b PROVE g[(a - 1) + (n + 1)] = w[(a - 1) + (n + 1)]
    OBVIOUS
  <2>1. PICK i \in a..b : i = (a - 1) + (n + 1) /\ i - 1 = (a - 1) + n
    OBVIOUS
  <2>2. g[i - 1] = w[i - 1]
    BY <1>4, <2>1
  <2>3. g[i] = g[i - 1] \o f[i] /\ w[i] = w[i - 1] \o f[i]
    BY <1>1, <1>2 DEF IsYield
  <2> QED
    BY <2>1, <2>2, <2>3
<1> HIDE DEF T
<1>5. \A n \in Nat : n \in T
  BY <1>3, <1>4, ClosedUnderSuccessor
<1>6. PICK n \in Nat : n = b - (a - 1)
  <2>1. b - (a - 1) \in Nat
    OBVIOUS
  <2> QED
    BY <2>1
<1>7. (a - 1) + n = b /\ b <= b
  BY <1>6
<1>8. g[(a - 1) + n] = w[(a - 1) + n]
  BY <1>5, <1>7 DEF T
<1> QED
  BY <1>1, <1>2, <1>7, <1>8

(* From b + 1 to b + n behind y. *)
LEMMA YieldsJoin ==
    ASSUME NEW S, NEW f, NEW a \in Nat, NEW b \in Int, a <= b + 1, NEW c \in Int, b <= c,
           NEW y, Yields(S, f, a, b, y), NEW z, Yields(S, f, b + 1, c, z)
    PROVE  Yields(S, f, a, c, y \o z)
<1>1. PICK g : IsYield(S, f, b + 1, c, g) /\ z = g[c]
  BY DEF Yields
<1>2. y \in Seq(S)
  BY YieldsType
<1> DEFINE T == {n \in Nat : b + n <= c => g[b + n] \in Seq(S) /\ Yields(S, f, a, b + n, y \o g[b + n])}
<1>3. 0 \in T
  <2>1. b + 0 = b /\ (b + 1) - 1 = b
    OBVIOUS
  <2>2. g[b] = <<>>
    BY <1>1, <2>1 DEF IsYield
  <2>3. y \o <<>> = y /\ <<>> \in Seq(S)
    BY <1>2, ConcatEmptySeq
  <2>4. Yields(S, f, a, b, y \o g[b]) /\ g[b] \in Seq(S)
    BY <2>2, <2>3
  <2> QED
    BY <2>1, <2>4
<1>4. ASSUME NEW n \in Nat, n \in T PROVE n + 1 \in T
  <2> SUFFICES ASSUME b + (n + 1) <= c
               PROVE  g[b + (n + 1)] \in Seq(S) /\ Yields(S, f, a, b + (n + 1), y \o g[b + (n + 1)])
    OBVIOUS
  <2>1. PICK m \in Int : m = b + n /\ m + 1 = b + (n + 1)
    OBVIOUS
  <2>2. m + 1 \in (b + 1)..c /\ (m + 1) - 1 = m /\ a <= m + 1
    BY <2>1
  <2>3. g[m] \in Seq(S) /\ Yields(S, f, a, m, y \o g[m])
    BY <1>4, <2>1
  <2>4. f[m + 1] \in Seq(S) /\ g[m + 1] = g[m] \o f[m + 1]
    <3>1. f[m + 1] \in Seq(S) /\ g[m + 1] = g[(m + 1) - 1] \o f[m + 1]
      BY <1>1, <2>2 DEF IsYield
    <3> QED
      BY <2>2, <3>1
  <2>5. Yields(S, f, a, m + 1, (y \o g[m]) \o f[m + 1])
    BY <2>2, <2>3, <2>4, YieldsMore
  <2>6. (y \o g[m]) \o f[m + 1] = y \o (g[m] \o f[m + 1])
    <3>1. PICK u, v : u = g[m] /\ v = f[m + 1]
      OBVIOUS
    <3>2. y \in Seq(S) /\ u \in Seq(S) /\ v \in Seq(S)
      BY <1>2, <2>3, <2>4, <3>1
    <3>3. (y \o u) \o v = y \o (u \o v)
      BY ONLY <3>2, ConcatAssociative
    <3> QED
      BY <3>1, <3>3
  <2>7. g[m] \o f[m + 1] \in Seq(S)
    BY <2>3, <2>4, ConcatProperties
  <2>8. g[m + 1] \in Seq(S) /\ Yields(S, f, a, m + 1, y \o g[m + 1])
    BY <2>4, <2>5, <2>6, <2>7
  <2> QED
    BY <2>1, <2>8
<1> HIDE DEF T
<1>5. \A n \in Nat : n \in T
  BY <1>3, <1>4, ClosedUnderSuccessor
<1>6. PICK n \in Nat : n = c - b
  <2>1. c - b \in Nat
    OBVIOUS
  <2> QED
    BY <2>1
<1>7. b + n = c /\ c <= c
  BY <1>6
<1>8. Yields(S, f, a, b + n, y \o g[b + n])
  BY <1>5, <1>7 DEF T
<1> QED
  BY <1>1, <1>7, <1>8

(* An element put in front of f[a]. *)
LEMMA YieldsBefore ==
    ASSUME NEW S, NEW f, NEW k, NEW a \in Nat, NEW b \in Int, a <= b, NEW y, Yields(S, f, a, b, y),
           NEW e \in S, k[a] = <<e>> \o f[a], SameFrom(f, k, a + 1, b)
    PROVE  Yields(S, k, a, b, <<e>> \o y)
<1>1. PICK g : IsYield(S, f, a, b, g) /\ y = g[b]
  BY DEF Yields
<1>2. PICK q : q = <<e>> /\ q \in Seq(S)
  <2>1. <<e>> \in Seq(S)
    OBVIOUS
  <2> QED
    BY <2>1
<1> DEFINE T == {n \in Nat : a + n <= b => g[a + n] \in Seq(S) /\ Yields(S, k, a, a + n, q \o g[a + n])}
<1>3. 0 \in T
  <2>1. a + 0 = a /\ a \in a..b /\ (a - 1) + 1 = a /\ a - 1 \in Int
    OBVIOUS
  <2>2. f[a] \in Seq(S) /\ g[a] = g[a - 1] \o f[a] /\ g[a - 1] = <<>>
    BY <1>1, <2>1 DEF IsYield
  <2>3. PICK u : u = f[a] /\ u \in Seq(S)
    BY <2>2
  <2>4. <<>> \o u = u /\ q \o u \in Seq(S)
    BY ONLY <1>2, <2>3, ConcatEmptySeq, ConcatProperties
  <2>5. g[a] = u /\ k[a] = q \o u
    BY <1>2, <2>2, <2>3, <2>4
  <2>6. PICK c \in Int : c = a - 1 /\ c + 1 = a
    BY <2>1
  <2>7. Yields(S, k, a, c + 1, <<>> \o k[c + 1])
    <3>1. Yields(S, k, a, c, <<>>)
      BY <2>6, YieldsNothing
    <3>2. k[c + 1] \in Seq(S) /\ a <= c + 1
      <4>1. k[a] \in Seq(S)
        BY ONLY <2>4, <2>5, Zenon
      <4> QED
        BY ONLY <2>6, <4>1, a \in Nat
    <3>3. PICK z : z = <<>>
      OBVIOUS
    <3>4. Yields(S, k, a, c + 1, z \o k[c + 1])
      BY <3>1, <3>2, <3>3, YieldsMore
    <3> QED
      BY <3>3, <3>4
  <2>8. PICK v : v = q \o u /\ v \in Seq(S)
    BY <2>4
  <2>9. <<>> \o v = v
    BY ONLY <2>8, ConcatEmptySeq
  <2>10. Yields(S, k, a, a, v)
    BY <2>5, <2>6, <2>7, <2>8, <2>9
  <2>11. g[a + 0] \in Seq(S) /\ Yields(S, k, a, a + 0, q \o g[a + 0])
    BY <2>1, <2>3, <2>5, <2>8, <2>10
  <2> QED
    BY <2>11
<1>4. ASSUME NEW n \in Nat, n \in T PROVE n + 1 \in T
  <2> SUFFICES ASSUME a + (n + 1) <= b
               PROVE  g[a + (n + 1)] \in Seq(S) /\ Yields(S, k, a, a + (n + 1), q \o g[a + (n + 1)])
    OBVIOUS
  <2>1. PICK m \in Int : m = a + n /\ m + 1 = a + (n + 1)
    OBVIOUS
  <2>2. m + 1 \in a..b /\ m + 1 \in (a + 1)..b /\ (m + 1) - 1 = m /\ a <= m + 1
    BY <2>1
  <2>3. g[m] \in Seq(S) /\ Yields(S, k, a, m, q \o g[m])
    BY <1>4, <2>1
  <2>4. k[m + 1] = f[m + 1] /\ f[m + 1] \in Seq(S) /\ g[m + 1] = g[m] \o f[m + 1]
    <3>1. f[m + 1] \in Seq(S) /\ g[m + 1] = g[(m + 1) - 1] \o f[m + 1]
      BY <1>1, <2>2 DEF IsYield
    <3> QED
      BY <2>2, <3>1 DEF SameFrom
  <2>5. PICK u, v : u = g[m] /\ v = f[m + 1]
    OBVIOUS
  <2>6. u \in Seq(S) /\ v \in Seq(S)
    BY <2>3, <2>4, <2>5
  <2>7. (q \o u) \o v = q \o (u \o v) /\ u \o v \in Seq(S)
    BY ONLY <1>2, <2>6, ConcatAssociative, ConcatProperties
  <2>8. Yields(S, k, a, m + 1, (q \o u) \o k[m + 1])
    BY <2>2, <2>3, <2>4, <2>5, <2>6, YieldsMore
  <2>9. g[m + 1] \in Seq(S) /\ Yields(S, k, a, m + 1, q \o g[m + 1])
    BY <2>4, <2>5, <2>7, <2>8
  <2> QED
    BY <2>1, <2>9
<1> HIDE DEF T
<1>5. \A n \in Nat : n \in T
  BY <1>3, <1>4, ClosedUnderSuccessor
<1>6. PICK n \in Nat : n = b - a
  <2>1. b - a \in Nat
    OBVIOUS
  <2> QED
    BY <2>1
<1>7. a + n = b /\ b <= b
  BY <1>6
<1>8. Yields(S, k, a, a + n, q \o g[a + n])
  BY <1>5, <1>7 DEF T
<1> QED
  BY <1>1, <1>2, <1>7, <1>8

(* One element each. *)
LEMMA YieldsItems ==
    ASSUME NEW S, NEW f, NEW a \in Nat, NEW s \in Seq(S), \A i \in 1..Len(s) : f[a + i] = <<s[i]>>
    PROVE  Yields(S, f, a + 1, a + Len(s), s)
<1>1. PICK m \in Nat : m = Len(s)
  OBVIOUS
<1> DEFINE T == {n \in Nat : n <= m => Yields(S, f, a + 1, a + n, SubSeq(s, 1, n))}
<1>2. 0 \in T
  <2>1. a + 0 = (a + 1) - 1 /\ a + 1 \in Nat
    OBVIOUS
  <2>2. SubSeq(s, 1, 0) = <<>>
    BY SubSeqEmpty
  <2>3. Yields(S, f, a + 1, a + 0, <<>>)
    BY <2>1, YieldsNothing
  <2> QED
    BY <2>2, <2>3
<1>3. ASSUME NEW n \in Nat, n \in T PROVE n + 1 \in T
  <2> SUFFICES ASSUME n + 1 <= m PROVE Yields(S, f, a + 1, a + (n + 1), SubSeq(s, 1, n + 1))
    OBVIOUS
  <2>1. PICK c \in Nat : c = a + n /\ c + 1 = a + (n + 1)
    <3>1. a + n \in Nat /\ (a + n) + 1 = a + (n + 1)
      BY ONLY a \in Nat, n \in Nat
    <3> QED
      BY ONLY <3>1
  <2>2. Yields(S, f, a + 1, c, SubSeq(s, 1, n))
    BY <1>3, <2>1
  <2>3. n + 1 \in 1..Len(s) /\ 1 \in 1..Len(s) /\ n + 1 \in 1..m /\ (n + 1) - 1 = n
    BY ONLY <1>1, n + 1 <= m, n \in Nat, m \in Nat
  <2>4. f[c + 1] = <<s[n + 1]>> /\ s[n + 1] \in S
    BY <2>1, <2>3, ElementOfSeq
  <2>5. f[c + 1] \in Seq(S)
    BY <2>4
  <2>6. Yields(S, f, a + 1, c + 1, SubSeq(s, 1, n) \o f[c + 1])
    <3>1. a + 1 <= c + 1 /\ a + 1 \in Nat /\ c \in Int
      BY <2>1
    <3> QED
      BY <2>2, <2>5, <3>1, YieldsMore
  <2>7. SubSeq(s, 1, n + 1) = SubSeq(s, 1, n) \o <<s[n + 1]>>
    <3>1. SubSeq(s, 1, n + 1) = SubSeq(s, 1, (n + 1) - 1) \o <<s[n + 1]>>
      BY <2>3, SubSeqRecursiveSecond
    <3> QED
      BY <2>3, <3>1
  <2> QED
    BY <2>1, <2>4, <2>6, <2>7
<1> HIDE DEF T
<1>4. m \in T
  BY <1>2, <1>3, ClosedUnderSuccessor
<1>5. Yields(S, f, a + 1, a + m, SubSeq(s, 1, m))
  BY <1>4 DEF T
<1> QED
  BY <1>1, <1>5, SubSeqFull

================================================================================
