-------------------------------- MODULE Sums --------------------------------
(***************************************************************************)
(* Sums over finite sets and, at the end, integer quotients, for proofs.     *)
(* The library's folds are recursive functions over the subsets of a set;    *)
(* Total is the sum of the values of a function in that form, and the lemmas *)
(* say what a reader expects of it.                                          *)
(***************************************************************************)
EXTENDS Integers, FiniteSets, Functions, FiniteSetTheorems, WellFoundedInduction, TLAPS

\* Least-number principle: the induction of this module's lemmas and of others.
LEMMA LeastNumber ==
  ASSUME NEW T, T \subseteq Nat, T # {}
  PROVE  \E x \in T : \A y \in T : x <= y
<1>1. PICK x \in T : \A y \in T : <<y, x>> \notin OpToRel(<, Nat)
  BY WFMin, NatLessThanWellFounded
<1>2. \A y \in T : ~(y < x)
  BY <1>1 DEF OpToRel
<1> QED
  BY <1>2

\* The element a fold takes first.
Pick(s) == CHOOSE x \in s : TRUE

\* g is the fold of w over the subsets in D.
IsFold(g, w, D) ==
  g = [s \in D |-> IF s = {} THEN 0 ELSE w[Pick(s)] + g[s \ {Pick(s)}]]

\* The sum of w[x] over S.
Total(w, S) == (CHOOSE g : IsFold(g, w, SUBSET S))[S]

\* It is one of them.
LEMMA PickIn == \A s : s # {} => Pick(s) \in s
  BY DEF Pick

\* A smallest counterexample, for inductions over the subsets of a finite set.
LEMMA SmallestSet ==
  ASSUME NEW S, IsFiniteSet(S), NEW F, F \subseteq SUBSET S, F # {}
  PROVE  \E A \in F : /\ IsFiniteSet(A)
                      /\ \A B \in F : B \subseteq A => B = A
<1> DEFINE N == {n \in Nat : \E A \in F : Cardinality(A) = n}
<1>1. \A A \in F : IsFiniteSet(A) /\ Cardinality(A) \in Nat
  BY FS_Subset, FS_CardinalityType
<1>2. N # {}
  BY <1>1
<1>3. PICK n \in N : \A m \in N : n <= m
  <2> HIDE DEF N
  <2>1. N \subseteq Nat
    BY DEF N
  <2> QED
    BY <1>2, <2>1, LeastNumber
<1>4. PICK A \in F : Cardinality(A) = n
  BY <1>3
<1>5. ASSUME NEW B \in F, B \subseteq A PROVE B = A
  <2>1. Cardinality(B) <= Cardinality(A) /\ (Cardinality(A) = Cardinality(B) => A = B)
    BY <1>1, <1>5, FS_Subset
  <2>2. Cardinality(B) \in N
    BY <1>1
  <2>3. n <= Cardinality(B)
    BY <1>3, <2>2
  <2>4. Cardinality(A) \in Nat /\ Cardinality(B) \in Nat
    BY <1>1
  <2> QED
    BY <1>4, <2>1, <2>3, <2>4
<1> QED
  BY <1>1, <1>4, <1>5
-----------------------------------------------------------------------------
(* The recursion has a solution. *)

\* Subsets of S with at most n elements.
Upto(n, S) == {s \in SUBSET S : Cardinality(s) <= n}

\* A fold over the small subsets extends to those one element larger.
LEMMA FoldGrows ==
  ASSUME NEW S, IsFiniteSet(S), NEW w, NEW n \in Nat, NEW g, IsFold(g, w, Upto(n, S))
  PROVE  \E h : IsFold(h, w, Upto(n + 1, S))
<1> DEFINE h == [s \in Upto(n + 1, S) |-> IF s \in Upto(n, S) THEN g[s]
                                          ELSE w[Pick(s)] + g[s \ {Pick(s)}]]
<1>1. ASSUME NEW s \in Upto(n + 1, S), s # {}
      PROVE  /\ s \ {Pick(s)} \in Upto(n, S) /\ s \ {Pick(s)} \in Upto(n + 1, S)
  <2>1. Pick(s) \in s
    BY <1>1, PickIn
  <2>2. IsFiniteSet(s) /\ Cardinality(s) \in Nat /\ Cardinality(s) <= n + 1 /\ s \subseteq S
    BY FS_Subset, FS_CardinalityType DEF Upto
  <2>3. Cardinality(s \ {Pick(s)}) = Cardinality(s) - 1
    BY <2>1, <2>2, FS_RemoveElement
  <2> QED
    BY <2>2, <2>3 DEF Upto
<1>2. ASSUME NEW s \in Upto(n + 1, S)
      PROVE  h[s] = IF s = {} THEN 0 ELSE w[Pick(s)] + h[s \ {Pick(s)}]
  <2>1. CASE s \in Upto(n, S)
    <3>1. h[s] = g[s] /\ g[s] = IF s = {} THEN 0 ELSE w[Pick(s)] + g[s \ {Pick(s)}]
      BY <2>1 DEF IsFold
    <3>2. s # {} => h[s \ {Pick(s)}] = g[s \ {Pick(s)}]
      BY <1>1
    <3> QED
      BY <3>1, <3>2
  <2>2. CASE s \notin Upto(n, S)
    <3>1. s # {}
      <4>1. Cardinality({}) <= n
        BY FS_EmptySet
      <4> QED
        BY <2>2, <4>1 DEF Upto
    <3>2. h[s] = w[Pick(s)] + g[s \ {Pick(s)}]
      BY <2>2
    <3>3. h[s \ {Pick(s)}] = g[s \ {Pick(s)}]
      BY <1>1, <3>1
    <3> QED
      BY <3>1, <3>2, <3>3
  <2> QED
    BY <2>1, <2>2
<1>3. h = [s \in Upto(n + 1, S) |-> IF s = {} THEN 0 ELSE w[Pick(s)] + h[s \ {Pick(s)}]]
  <2>1. h = [s \in Upto(n + 1, S) |-> h[s]]
    OBVIOUS
  <2> HIDE DEF h
  <2> QED
    BY <1>2, <2>1
<1> QED
  BY <1>3 DEF IsFold

\* So the recursion has a solution on every finite set.
LEMMA FoldExists ==
  ASSUME NEW S, IsFiniteSet(S), NEW w
  PROVE  \E g : IsFold(g, w, SUBSET S)
<1> DEFINE Without == {n \in Nat : ~ \E g : IsFold(g, w, Upto(n, S))}
<1>1. 0 \notin Without
  <2> DEFINE g == [s \in Upto(0, S) |-> 0]
  <2>1. \A s \in Upto(0, S) : s = {}
    <3> TAKE s \in Upto(0, S)
    <3>1. IsFiniteSet(s) /\ Cardinality(s) \in Nat /\ Cardinality(s) <= 0
      BY FS_Subset, FS_CardinalityType DEF Upto
    <3> QED
      BY <3>1, FS_EmptySet
  <2>2. IsFold(g, w, Upto(0, S))
    BY <2>1 DEF IsFold
  <2> QED
    BY <2>2
<1>2. Without = {}
  <2>1. SUFFICES ASSUME Without # {} PROVE FALSE
    OBVIOUS
  <2>2. PICK n \in Without : \A m \in Without : n <= m
    <3>1. Without \subseteq Nat
      OBVIOUS
    <3> HIDE DEF Without
    <3> QED
      BY <2>1, <3>1, LeastNumber
  <2>3. n - 1 \in Nat /\ n - 1 \notin Without /\ (n - 1) + 1 = n
    BY <1>1, <2>2
  <2>4. PICK g : IsFold(g, w, Upto(n - 1, S))
    BY <2>3
  <2>5. \E h : IsFold(h, w, Upto(n, S))
    BY <2>3, <2>4, FoldGrows
  <2> QED
    BY <2>2, <2>5
<1>3. Cardinality(S) \in Nat /\ Upto(Cardinality(S), S) = SUBSET S
  BY FS_Subset, FS_CardinalityType DEF Upto
<1>4. PICK g : IsFold(g, w, Upto(Cardinality(S), S))
  BY <1>2, <1>3
<1> QED
  BY <1>3, <1>4

\* The sum is the one the recursion defines.
LEMMA TotalIsFold ==
  ASSUME NEW S, IsFiniteSet(S), NEW w
  PROVE  \E g : IsFold(g, w, SUBSET S) /\ Total(w, S) = g[S]
  BY FoldExists DEF Total
-----------------------------------------------------------------------------
(* Two folds that agree on a set have the same sum, whatever larger sets they *)
(* were made for: the sum depends on nothing but the set and its values.      *)
LEMMA FoldsAgree ==
  ASSUME NEW S, IsFiniteSet(S), NEW T, NEW g, NEW h, NEW v, NEW w,
         IsFold(g, v, SUBSET S), IsFold(h, w, SUBSET T),
         NEW A, A \subseteq S, A \subseteq T, \A x \in A : v[x] = w[x]
  PROVE  g[A] = h[A]
<1> DEFINE Wrong == {B \in SUBSET S : B \subseteq A /\ g[B] # h[B]}
<1>1. ASSUME Wrong # {} PROVE FALSE
  <2>1. PICK B \in Wrong : \A C \in Wrong : C \subseteq B => C = B
    <3>1. Wrong \subseteq SUBSET S
      OBVIOUS
    <3> HIDE DEF Wrong
    <3> QED
      BY <1>1, <3>1, SmallestSet
  <2>2. B \subseteq A /\ B \subseteq S /\ B \subseteq T
    OBVIOUS
  <2>3. CASE B = {}
    BY <2>2, <2>3 DEF IsFold
  <2>4. CASE B # {}
    <3>1. Pick(B) \in B
      BY <2>4, PickIn
    <3>2. g[B] = v[Pick(B)] + g[B \ {Pick(B)}] /\ h[B] = w[Pick(B)] + h[B \ {Pick(B)}]
      BY <2>2, <2>4 DEF IsFold
    <3>3. g[B \ {Pick(B)}] = h[B \ {Pick(B)}]
      BY <2>1, <2>2, <3>1
    <3> QED
      BY <2>2, <3>1, <3>2, <3>3
  <2> QED
    BY <2>3, <2>4
<1> QED
  BY <1>1

\* A sum of integers is one, and any element may be taken out of it first.
LEMMA FoldTakesAny ==
  ASSUME NEW S, IsFiniteSet(S), NEW w, \A x \in S : w[x] \in Int,
         NEW g, IsFold(g, w, SUBSET S), NEW A \in SUBSET S
  PROVE  g[A] \in Int /\ \A x \in A : g[A] = w[x] + g[A \ {x}]
<1> DEFINE Right(B) == g[B] \in Int /\ \A x \in B : g[B] = w[x] + g[B \ {x}]
           Wrong == {B \in SUBSET S : ~Right(B)}
<1>1. ASSUME Wrong # {} PROVE FALSE
  <2>1. PICK B \in Wrong : \A C \in Wrong : C \subseteq B => C = B
    <3>1. Wrong \subseteq SUBSET S
      OBVIOUS
    <3> HIDE DEF Wrong
    <3> QED
      BY <1>1, <3>1, SmallestSet
  <2>2. B \in SUBSET S /\ ~Right(B) /\ \A C \in SUBSET S : C \subseteq B /\ C # B => Right(C)
    BY <2>1
  <2>3. CASE B = {}
    <3>1. g[B] = 0
      BY <2>2, <2>3 DEF IsFold
    <3> QED
      BY <2>2, <2>3, <3>1
  <2>4. CASE B # {}
    <3>1. PICK y \in B : y = Pick(B)
      BY <2>4, PickIn
    <3>2. g[B] = w[y] + g[B \ {y}]
      BY <2>2, <2>4, <3>1 DEF IsFold
    <3>3. w[y] \in Int /\ g[B \ {y}] \in Int
      <4>1. B \ {y} # B /\ B \ {y} \in SUBSET S /\ B \ {y} \subseteq B
        BY <2>2
      <4> QED
        BY <2>2, <4>1
    <3>4. ASSUME NEW x \in B, x # y PROVE g[B] = w[x] + g[B \ {x}]
      <4>1. PICK rest : rest = (B \ {y}) \ {x} /\ rest = (B \ {x}) \ {y}
        OBVIOUS
      <4>2. Right(B \ {y}) /\ Right(B \ {x}) /\ Right(rest)
        <5>1. B \ {y} # B /\ B \ {x} # B /\ rest # B
          BY <4>1
        <5> HIDE DEF Right
        <5> QED
          BY <2>2, <4>1, <5>1
      <4>3. g[B \ {y}] = w[x] + g[rest]
        <5>1. x \in B \ {y}
          BY <3>4
        <5> QED
          BY <4>1, <4>2, <5>1
      <4>4. g[B \ {x}] = w[y] + g[rest]
        <5>1. y \in B \ {x}
          BY <3>4
        <5> QED
          BY <4>1, <4>2, <5>1
      <4>5. g[rest] \in Int /\ w[x] \in Int /\ w[y] \in Int
        BY <2>2, <4>2
      <4> QED
        BY <3>2, <4>3, <4>4, <4>5
    <3>5. \A x \in B : g[B] = w[x] + g[B \ {x}]
      BY <3>2, <3>4
    <3> QED
      <4>1. g[B] \in Int
        BY <3>2, <3>3
      <4> QED
        BY <2>2, <3>5, <4>1
  <2> QED
    BY <2>3, <2>4
<1>2. A \notin Wrong
  BY <1>1
<1> QED
  BY <1>2
-----------------------------------------------------------------------------
(* What a sum does. *)

\* Nothing sums to 0.
LEMMA TotalEmpty == \A w : Total(w, {}) = 0
<1> TAKE w
<1>1. PICK g : IsFold(g, w, SUBSET {}) /\ Total(w, {}) = g[{}]
  BY TotalIsFold, FS_EmptySet
<1> QED
  BY <1>1 DEF IsFold

\* The sum depends on the values on the set only.
LEMMA TotalAgrees ==
  ASSUME NEW S, IsFiniteSet(S), NEW v, NEW w, \A x \in S : v[x] = w[x]
  PROVE  Total(v, S) = Total(w, S)
<1>1. PICK g : IsFold(g, v, SUBSET S) /\ Total(v, S) = g[S]
  BY TotalIsFold
<1>2. PICK h : IsFold(h, w, SUBSET S) /\ Total(w, S) = h[S]
  BY TotalIsFold
<1> QED
  BY <1>1, <1>2, FoldsAgree

\* A sum of integers is one.
LEMMA TotalInt ==
  ASSUME NEW S, IsFiniteSet(S), NEW w, \A x \in S : w[x] \in Int
  PROVE  Total(w, S) \in Int
<1>1. PICK g : IsFold(g, w, SUBSET S) /\ Total(w, S) = g[S]
  BY TotalIsFold
<1>2. S \in SUBSET S
  OBVIOUS
<1>3. g[S] \in Int
  BY <1>1, <1>2, FoldTakesAny
<1> QED
  BY <1>1, <1>3

\* One element out of the sum.
LEMMA TotalWithout ==
  ASSUME NEW S, IsFiniteSet(S), NEW w, \A x \in S : w[x] \in Int, NEW x \in S
  PROVE  Total(w, S) = w[x] + Total(w, S \ {x})
<1>1. PICK g : IsFold(g, w, SUBSET S) /\ Total(w, S) = g[S]
  BY TotalIsFold
<1>2. IsFiniteSet(S \ {x})
  BY FS_RemoveElement
<1>3. PICK h : IsFold(h, w, SUBSET (S \ {x})) /\ Total(w, S \ {x}) = h[S \ {x}]
  BY <1>2, TotalIsFold
<1>4. g[S] = w[x] + g[S \ {x}]
  <2>1. S \in SUBSET S /\ IsFold(g, w, SUBSET S)
    BY <1>1
  <2>2. \A y \in S : g[S] = w[y] + g[S \ {y}]
    BY <2>1, FoldTakesAny
  <2> QED
    BY <2>2
<1>5. g[S \ {x}] = h[S \ {x}]
  <2>1. PICK A : A = S \ {x}
    OBVIOUS
  <2>2. A \subseteq S /\ A \subseteq A /\ IsFold(g, w, SUBSET S) /\ IsFold(h, w, SUBSET A)
    BY <1>1, <1>3, <2>1
  <2>3. g[A] = h[A]
    BY <2>2, FoldsAgree
  <2> QED
    BY <2>1, <2>3
<1> QED
  BY <1>1, <1>3, <1>4, <1>5

\* One element more.
LEMMA TotalWith ==
  ASSUME NEW S, IsFiniteSet(S), NEW x, x \notin S, NEW w, \A y \in S \cup {x} : w[y] \in Int
  PROVE  Total(w, S \cup {x}) = w[x] + Total(w, S)
<1>1. IsFiniteSet(S \cup {x}) /\ (S \cup {x}) \ {x} = S
  BY FS_AddElement
<1> QED
  BY <1>1, TotalWithout

\* A larger value of each element makes a larger sum.
LEMMA TotalMonotone ==
  ASSUME NEW S, IsFiniteSet(S), NEW v, NEW w,
         \A x \in S : v[x] \in Int /\ w[x] \in Int /\ v[x] <= w[x]
  PROVE  Total(v, S) <= Total(w, S)
<1> DEFINE Wrong == {B \in SUBSET S : ~(Total(v, B) <= Total(w, B))}
<1>1. ASSUME Wrong # {} PROVE FALSE
  <2>1. PICK B \in Wrong : IsFiniteSet(B) /\ \A C \in Wrong : C \subseteq B => C = B
    <3>1. Wrong \subseteq SUBSET S
      OBVIOUS
    <3> HIDE DEF Wrong
    <3> QED
      BY <1>1, <3>1, SmallestSet
  <2>2. B # {}
    BY TotalEmpty
  <2>3. PICK x \in B : TRUE
    BY <2>2
  <2>4. Total(v, B) = v[x] + Total(v, B \ {x}) /\ Total(w, B) = w[x] + Total(w, B \ {x})
    BY <2>1, TotalWithout
  <2>5. Total(v, B \ {x}) <= Total(w, B \ {x})
    BY <2>1
  <2>6. /\ Total(v, B \ {x}) \in Int /\ Total(w, B \ {x}) \in Int
        /\ v[x] \in Int /\ w[x] \in Int /\ v[x] <= w[x]
    <3>1. IsFiniteSet(B \ {x})
      BY <2>1, FS_RemoveElement
    <3> QED
      BY <3>1, TotalInt
  <2>7. Total(v, B) <= Total(w, B)
    BY <2>4, <2>5, <2>6
  <2> QED
    BY <2>7
<1> QED
  BY <1>1

\* Sums are linear.
LEMMA TotalSum ==
  ASSUME NEW S, IsFiniteSet(S), NEW u, NEW v, NEW w,
         \A x \in S : v[x] \in Int /\ w[x] \in Int /\ u[x] = v[x] + w[x]
  PROVE  Total(u, S) = Total(v, S) + Total(w, S)
<1> DEFINE Wrong == {B \in SUBSET S : Total(u, B) # Total(v, B) + Total(w, B)}
<1>1. ASSUME Wrong # {} PROVE FALSE
  <2>1. PICK B \in Wrong : IsFiniteSet(B) /\ \A C \in Wrong : C \subseteq B => C = B
    <3>1. Wrong \subseteq SUBSET S
      OBVIOUS
    <3> HIDE DEF Wrong
    <3> QED
      BY <1>1, <3>1, SmallestSet
  <2>2. B # {}
    <3>1. Total(u, {}) = 0 /\ Total(v, {}) = 0 /\ Total(w, {}) = 0
      BY TotalEmpty
    <3>2. {} \notin Wrong
      BY <3>1
    <3> QED
      BY <3>2
  <2>3. PICK x \in B : TRUE
    BY <2>2
  <2>4. \A y \in B : u[y] \in Int /\ v[y] \in Int /\ w[y] \in Int
    OBVIOUS
  <2>5. /\ Total(u, B) = u[x] + Total(u, B \ {x}) /\ Total(v, B) = v[x] + Total(v, B \ {x})
        /\ Total(w, B) = w[x] + Total(w, B \ {x})
    BY <2>1, <2>4, TotalWithout
  <2>6. Total(u, B \ {x}) = Total(v, B \ {x}) + Total(w, B \ {x})
    BY <2>1
  <2>7. /\ Total(u, B \ {x}) \in Int /\ Total(v, B \ {x}) \in Int /\ Total(w, B \ {x}) \in Int
    <3>1. IsFiniteSet(B \ {x})
      BY <2>1, FS_RemoveElement
    <3> QED
      BY <2>4, <3>1, TotalInt
  <2>8. u[x] = v[x] + w[x] /\ v[x] \in Int /\ w[x] \in Int
    OBVIOUS
  <2>9. Total(u, B) = Total(v, B) + Total(w, B)
    BY <2>5, <2>6, <2>7, <2>8
  <2> QED
    BY <2>9
<1> QED
  BY <1>1

\* A common factor.
LEMMA TotalScaled ==
  ASSUME NEW S, IsFiniteSet(S), NEW c \in Int, NEW v, NEW w,
         \A x \in S : w[x] \in Int /\ v[x] = c * w[x]
  PROVE  Total(v, S) = c * Total(w, S)
<1> DEFINE Wrong == {B \in SUBSET S : Total(v, B) # c * Total(w, B)}
<1>1. ASSUME Wrong # {} PROVE FALSE
  <2>1. PICK B \in Wrong : IsFiniteSet(B) /\ \A C \in Wrong : C \subseteq B => C = B
    <3>1. Wrong \subseteq SUBSET S
      OBVIOUS
    <3> HIDE DEF Wrong
    <3> QED
      BY <1>1, <3>1, SmallestSet
  <2>2. B # {}
    <3>1. Total(v, {}) = 0 /\ Total(w, {}) = 0 /\ c * 0 = 0
      BY TotalEmpty
    <3>2. {} \notin Wrong
      BY <3>1
    <3> QED
      BY <3>2
  <2>3. PICK x \in B : TRUE
    BY <2>2
  <2>4. \A y \in B : v[y] \in Int /\ w[y] \in Int
    OBVIOUS
  <2>5. /\ Total(v, B) = v[x] + Total(v, B \ {x})
        /\ Total(w, B) = w[x] + Total(w, B \ {x})
    BY <2>1, <2>4, TotalWithout
  <2>6. PICK m \in Int : m = Total(w, B \ {x})
    <3>1. IsFiniteSet(B \ {x})
      BY <2>1, FS_RemoveElement
    <3> QED
      BY <2>4, <3>1, TotalInt
  <2>7. Total(v, B \ {x}) = c * m
    BY <2>1, <2>6
  <2>8. PICK n \in Int : n = w[x]
    OBVIOUS
  <2>9. v[x] = c * n
    BY <2>8
  <2>10. c * n + c * m = c * (n + m)
    OBVIOUS
  <2>11. Total(v, B) = c * Total(w, B)
    BY <2>5, <2>6, <2>7, <2>8, <2>9, <2>10
  <2> QED
    BY <2>11
<1> QED
  BY <1>1

\* A sum over two sets that do not meet.
LEMMA TotalUnion ==
  ASSUME NEW S, NEW T, NEW U, IsFiniteSet(U), U = S \cup T, S \cap T = {},
         NEW w, \A x \in U : w[x] \in Int
  PROVE  Total(w, U) = Total(w, S) + Total(w, T)
<1> DEFINE Wrong == {B \in SUBSET U : S \subseteq B /\ Total(w, B) # Total(w, S) + Total(w, B \ S)}
<1>0. IsFiniteSet(S) /\ Total(w, S) \in Int
  <2>1. S \in SUBSET U
    OBVIOUS
  <2>2. IsFiniteSet(S) /\ \A x \in S : w[x] \in Int
    BY <2>1, FS_Subset
  <2> QED
    BY <2>2, TotalInt
<1>1. ASSUME Wrong # {} PROVE FALSE
  <2>1. PICK B \in Wrong : IsFiniteSet(B) /\ \A C \in Wrong : C \subseteq B => C = B
    <3>1. Wrong \subseteq SUBSET U
      OBVIOUS
    <3> HIDE DEF Wrong
    <3> QED
      BY <1>1, <3>1, SmallestSet
  <2>2. PICK D : D = B \ S
    OBVIOUS
  <2>3. Total(w, B) # Total(w, S) + Total(w, D) /\ S \subseteq B /\ B \subseteq U
    BY <2>2
  <2>4. CASE D = {}
    <3>1. B = S /\ Total(w, D) = 0
      BY <2>2, <2>3, <2>4, TotalEmpty
    <3> QED
      BY <1>0, <2>3, <3>1
  <2>5. CASE D # {}
    <3>1. PICK x \in D : TRUE
      BY <2>5
    <3>2. PICK C, E : C = B \ {x} /\ E = D \ {x}
      OBVIOUS
    <3>3. x \in B /\ C \subseteq B /\ C # B /\ C \subseteq U /\ S \subseteq C /\ E = C \ S
      BY <2>2, <2>3, <3>1, <3>2
    <3>4. Total(w, C) = Total(w, S) + Total(w, E)
      <4>1. C \notin Wrong
        BY <2>1, <3>3
      <4>2. Total(w, C) = Total(w, S) + Total(w, C \ S)
        BY <3>3, <4>1
      <4> QED
        BY <3>3, <4>2
    <3>5. IsFiniteSet(B) /\ IsFiniteSet(D) /\ IsFiniteSet(E) /\ D \subseteq U /\ E \subseteq U
      BY <2>1, <2>2, <2>3, <3>2, FS_Subset
    <3>6. Total(w, B) = w[x] + Total(w, C)
      BY <2>3, <3>2, <3>3, <3>5, TotalWithout
    <3>7. Total(w, D) = w[x] + Total(w, E)
      BY <3>1, <3>2, <3>5, TotalWithout
    <3>8. w[x] \in Int /\ Total(w, E) \in Int
      BY <2>3, <3>3, <3>5, TotalInt
    <3> QED
      BY <1>0, <2>3, <3>4, <3>6, <3>7, <3>8
  <2> QED
    BY <2>4, <2>5
<1>2. U \notin Wrong
  BY <1>1
<1>3. Total(w, U) = Total(w, S) + Total(w, U \ S)
  BY <1>2
<1>4. U \ S = T
  OBVIOUS
<1> QED
  BY <1>3, <1>4

\* Elements of no value add nothing.
LEMMA TotalZero ==
  ASSUME NEW S, IsFiniteSet(S), NEW w, \A x \in S : w[x] = 0
  PROVE  Total(w, S) = 0
<1> DEFINE Wrong == {B \in SUBSET S : Total(w, B) # 0}
<1>1. ASSUME Wrong # {} PROVE FALSE
  <2>1. PICK B \in Wrong : IsFiniteSet(B) /\ \A C \in Wrong : C \subseteq B => C = B
    <3>1. Wrong \subseteq SUBSET S
      OBVIOUS
    <3> HIDE DEF Wrong
    <3> QED
      BY <1>1, <3>1, SmallestSet
  <2>2. PICK x \in B : TRUE
    BY TotalEmpty
  <2>3. \A y \in B : w[y] \in Int
    OBVIOUS
  <2>4. Total(w, B) = w[x] + Total(w, B \ {x})
    BY <2>1, <2>3, TotalWithout
  <2>5. Total(w, B \ {x}) = 0
    BY <2>1
  <2> QED
    BY <2>4, <2>5
<1> QED
  BY <1>1

\* Elements of value 0 may be left out.
LEMMA TotalRestricted ==
  ASSUME NEW S, IsFiniteSet(S), NEW T, T \subseteq S,
         NEW w, \A x \in S : w[x] \in Int, \A x \in S \ T : w[x] = 0
  PROVE  Total(w, S) = Total(w, T)
<1>1. IsFiniteSet(T) /\ IsFiniteSet(S \ T)
  BY FS_Subset
<1>2. PICK R : R = S \ T
  OBVIOUS
<1>3. T \cap R = {} /\ T \cup R = S /\ IsFiniteSet(R) /\ \A x \in T \cup R : w[x] \in Int
  BY <1>1, <1>2
<1>4. Total(w, S) = Total(w, T) + Total(w, R)
  BY <1>3, TotalUnion
<1>5. Total(w, R) = 0
  BY <1>2, <1>3, TotalZero
<1>6. Total(w, T) \in Int
  BY <1>1, TotalInt
<1> QED
  BY <1>3, <1>4, <1>5, <1>6

\* A part of a sum of natural numbers.
LEMMA TotalPart ==
  ASSUME NEW S, IsFiniteSet(S), NEW T, T \subseteq S, NEW w, \A x \in S : w[x] \in Nat
  PROVE  Total(w, T) \in Nat /\ Total(w, T) <= Total(w, S)
<1>1. ASSUME NEW R, R \subseteq S PROVE Total(w, R) \in Nat
  <2>1. IsFiniteSet(R)
    BY <1>1, FS_Subset
  <2> DEFINE z == [x \in R |-> 0]
  <2>2. Total(z, R) = 0
    BY <2>1, TotalZero
  <2>3. Total(z, R) <= Total(w, R)
    BY <1>1, <2>1, TotalMonotone
  <2>4. Total(w, R) \in Int
    BY <1>1, <2>1, TotalInt
  <2> QED
    BY <2>2, <2>3, <2>4
<1>2. IsFiniteSet(T)
  BY FS_Subset
<1>3. PICK R : R = S \ T
  OBVIOUS
<1>4. R \subseteq S /\ T \cap R = {} /\ T \cup R = S /\ IsFiniteSet(R) /\ \A x \in T \cup R : w[x] \in Int
  BY <1>3, FS_Subset
<1>5. Total(w, S) = Total(w, T) + Total(w, R)
  BY <1>4, TotalUnion
<1>6. Total(w, T) \in Nat /\ Total(w, R) \in Nat
  BY <1>1, <1>4
<1> QED
  BY <1>4, <1>5, <1>6

\* A sum of ones counts.
LEMMA TotalSame ==
  ASSUME NEW S, IsFiniteSet(S), NEW w, NEW c \in Int, \A x \in S : w[x] = c
  PROVE  Total(w, S) = c * Cardinality(S)
<1> DEFINE Wrong == {B \in SUBSET S : Total(w, B) # c * Cardinality(B)}
<1>1. ASSUME Wrong # {} PROVE FALSE
  <2>1. PICK B \in Wrong : IsFiniteSet(B) /\ \A C \in Wrong : C \subseteq B => C = B
    <3>1. Wrong \subseteq SUBSET S
      OBVIOUS
    <3> HIDE DEF Wrong
    <3> QED
      BY <1>1, <3>1, SmallestSet
  <2>2. B # {}
    <3>1. Total(w, {}) = 0 /\ Cardinality({}) = 0 /\ c * 0 = 0
      BY TotalEmpty, FS_EmptySet
    <3> QED
      BY <3>1
  <2>3. PICK x \in B : TRUE
    BY <2>2
  <2>4. PICK C : C = B \ {x}
    OBVIOUS
  <2>5. \A y \in B : w[y] \in Int
    OBVIOUS
  <2>6. Total(w, B) = w[x] + Total(w, C)
    BY <2>1, <2>4, <2>5, TotalWithout
  <2>7. Total(w, C) = c * Cardinality(C)
    BY <2>1, <2>4
  <2>8. Cardinality(B) \in Nat /\ Cardinality(C) = Cardinality(B) - 1 /\ w[x] = c
    BY <2>1, <2>4, FS_RemoveElement, FS_CardinalityType
  <2>9. c * (Cardinality(B) - 1) = c * Cardinality(B) - c
    BY <2>8
  <2>10. c * Cardinality(B) \in Int
    BY <2>8
  <2> QED
    BY <2>6, <2>7, <2>8, <2>9, <2>10
<1> QED
  BY <1>1

\* A sum over parts that do not meet is the sum of the sums of the parts.
Parts(part, S) == UNION {part[x] : x \in S}

\* A sum over disjoint parts is the sum of their sums.
LEMMA TotalByParts ==
  ASSUME NEW S, IsFiniteSet(S), NEW part, \A x \in S : IsFiniteSet(part[x]),
         \A x, y \in S : x # y => part[x] \cap part[y] = {},
         NEW w, \A x \in S : \A t \in part[x] : w[t] \in Int
  PROVE  /\ IsFiniteSet(Parts(part, S))
         /\ Total(w, Parts(part, S)) = Total([x \in S |-> Total(w, part[x])], S)
<1> DEFINE v == [x \in S |-> Total(w, part[x])]
           Right(B) == IsFiniteSet(Parts(part, B)) /\ Total(w, Parts(part, B)) = Total(v, B)
           Wrong == {B \in SUBSET S : ~Right(B)}
<1>1. ASSUME Wrong # {} PROVE FALSE
  <2>1. PICK B \in Wrong : IsFiniteSet(B) /\ \A C \in Wrong : C \subseteq B => C = B
    <3>1. Wrong \subseteq SUBSET S
      OBVIOUS
    <3> HIDE DEF Wrong
    <3> QED
      BY <1>1, <3>1, SmallestSet
  <2>2. B # {}
    <3>1. Parts(part, {}) = {}
      BY DEF Parts
    <3>2. Right({})
      BY <3>1, TotalEmpty, FS_EmptySet
    <3> QED
      BY <3>2
  <2>3. PICK x \in B : TRUE
    BY <2>2
  <2>4. PICK C : C = B \ {x}
    OBVIOUS
  <2>5. C \subseteq S /\ C \subseteq B /\ C # B /\ x \in S /\ B \subseteq S
    BY <2>4
  <2>6. IsFiniteSet(Parts(part, C)) /\ Total(w, Parts(part, C)) = Total(v, C)
    <3>1. C \notin Wrong
      BY <2>1, <2>5
    <3> HIDE DEF v
    <3> QED
      BY <2>5, <3>1
  <2>7. PICK P, Q, R : P = Parts(part, B) /\ Q = Parts(part, C) /\ R = part[x]
    OBVIOUS
  <2>8. P = R \cup Q
    BY <2>3, <2>4, <2>7 DEF Parts
  <2>9. R \cap Q = {}
    <3>1. \A y \in C : y \in S /\ y # x
      BY <2>4, <2>5
    <3>2. \A y \in C : part[x] \cap part[y] = {}
      BY <2>5, <3>1
    <3> QED
      BY <2>7, <3>2 DEF Parts
  <2>10. IsFiniteSet(P) /\ IsFiniteSet(R)
    <3>1. IsFiniteSet(R) /\ IsFiniteSet(Q)
      BY <2>5, <2>6, <2>7
    <3>2. IsFiniteSet(R \cup Q)
      BY <3>1, FS_Union
    <3> QED
      BY <2>8, <3>1, <3>2
  <2>11. \A t \in P : w[t] \in Int
    BY <2>5, <2>7 DEF Parts
  <2>12. Total(w, P) = Total(w, R) + Total(w, Q)
    BY <2>8, <2>9, <2>10, <2>11, TotalUnion
  <2>13. v[x] = Total(w, R) /\ \A y \in B : v[y] \in Int
    <3>1. ASSUME NEW y \in B PROVE Total(w, part[y]) \in Int
      <4>1. PICK T : T = part[y]
        OBVIOUS
      <4>2. IsFiniteSet(T) /\ \A t \in T : w[t] \in Int
        BY <2>5, <4>1
      <4> QED
        BY <4>1, <4>2, TotalInt
    <3> QED
      BY <2>5, <2>7, <3>1
  <2>14. Total(v, B) = v[x] + Total(v, C)
    <3> HIDE DEF v
    <3>1. IsFiniteSet(B) /\ x \in B /\ \A y \in B : v[y] \in Int
      BY <2>1, <2>3, <2>13
    <3>2. Total(v, B) = v[x] + Total(v, B \ {x})
      BY <3>1, TotalWithout
    <3> QED
      BY <2>4, <3>2
  <2>15. Total(w, Q) = Total(v, C)
    BY <2>6, <2>7
  <2>16. Right(B)
    <3> HIDE DEF v
    <3> QED
      BY <2>7, <2>10, <2>12, <2>13, <2>14, <2>15
  <2> QED
    BY <2>16
<1>2. S \notin Wrong
  BY <1>1
<1> QED
  BY <1>2

\* The sum of the library is that of the lemmas about sums.
LEMMA SumIsTotal ==
  ASSUME NEW f, IsFiniteSet(DOMAIN f)
  PROVE  SumFunction(f) = Total(f, DOMAIN f)
<1>1. PICK T : T = DOMAIN f
  OBVIOUS
<1>2. PICK g : IsFold(g, f, SUBSET T)
  BY <1>1, FoldExists
<1> DEFINE body(h) == [s \in SUBSET T |-> IF s = {} THEN 0
                         ELSE f[CHOOSE x \in s : TRUE] + h[s \ {CHOOSE x \in s : TRUE}]]
           fold == CHOOSE h : h = body(h)
<1>3. g = body(g)
  BY <1>2 DEF IsFold, Pick
<1>4. SumFunction(f) = fold[T]
  BY <1>1 DEF SumFunction, SumFunctionOnSet, FoldFunctionOnSet, MapThenFoldSet
<1>5. fold = body(fold)
  <2> HIDE DEF body
  <2> QED
    BY <1>3, Zenon
<1>6. IsFold(fold, f, SUBSET T)
  <2> HIDE DEF fold
  <2> QED
    BY <1>5 DEF IsFold, Pick
<1>7. PICK h : IsFold(h, f, SUBSET T) /\ Total(f, T) = h[T]
  BY <1>1, TotalIsFold
<1> HIDE DEF fold, body
<1>8. fold[T] = h[T]
  BY <1>1, <1>6, <1>7, FoldsAgree
<1> QED
  BY <1>1, <1>4, <1>7, <1>8
-----------------------------------------------------------------------------
(* Integer quotients. *)

\* A quotient is the number of times the divisor goes into the number.
LEMMA DivBounds ==
  ASSUME NEW n \in Int, NEW d \in Nat \ {0}
  PROVE  n \div d \in Int /\ d * (n \div d) <= n /\ n < d * (n \div d) + d
<1>1. n \div d \in Int /\ n % d \in 0 .. d - 1 /\ n = d * (n \div d) + (n % d)
  OBVIOUS
<1> QED
  BY <1>1

\* It grows with the number.
LEMMA DivGrows ==
  ASSUME NEW m \in Int, NEW n \in Int, m <= n, NEW d \in Nat \ {0}
  PROVE  m \div d <= n \div d
<1>1. PICK p, q : p = m \div d /\ q = n \div d
  OBVIOUS
<1>2. p \in Int /\ q \in Int /\ d * p <= m /\ n < d * q + d
  BY <1>1, DivBounds
<1>3. d * p < d * (q + 1)
  BY <1>2
<1>4. p < q + 1
  BY <1>2, <1>3
<1> QED
  BY <1>1, <1>2, <1>4

\* A quotient of natural numbers is one.
LEMMA DivNat ==
  ASSUME NEW n \in Nat, NEW d \in Nat \ {0}
  PROVE  n \div d \in Nat
<1>1. PICK k : k = n \div d
  OBVIOUS
<1>2. k \in Int /\ n < d * k + d
  BY <1>1, DivBounds
<1>3. k <= -1 => d * k <= -d
  BY <1>2
<1> QED
  BY <1>1, <1>2, <1>3

\* A positive factor on both sides of a comparison.
LEMMA TimesCancel ==
  ASSUME NEW a \in Nat \ {0}, NEW x \in Int, NEW y \in Int, a * x <= a * y
  PROVE  x <= y
<1> SUFFICES ASSUME x > y PROVE FALSE
  OBVIOUS
<1>1. PICK d \in Nat : d > 0 /\ x = y + d
  OBVIOUS
<1>2. a * x = a * y + a * d
  BY <1>1
<1>3. a * d > 0
  BY <1>1
<1>4. PICK p, q : p = a * y /\ q = a * d
  OBVIOUS
<1>5. p \in Int /\ q \in Int /\ q > 0 /\ p + q <= p
  BY <1>1, <1>2, <1>3, <1>4
<1> QED
  BY <1>5
=============================================================================
