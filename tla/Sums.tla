-------------------------------- MODULE Sums --------------------------------
(***************************************************************************)
(* Facts about SumFunctionOnSet (module Functions), with which the models  *)
(* add up balances, reservations and weights over the orders, symbols and  *)
(* positions.                                                              *)
(*                                                                         *)
(* The sum is defined by a choice among the functions that satisfy a       *)
(* recursive equation over the subsets of the set.  SumsExist shows by     *)
(* induction on the number of elements that there is such a function, and  *)
(* SumsUnique, by induction on the subset, that it is determined.  Both    *)
(* inductions are about a set (of numbers, of subsets): they follow from   *)
(* the subsets of a finite set being well-founded.                         *)
(***************************************************************************)
EXTENDS Functions, FiniteSetTheorems, TLAPS

-----------------------------------------------------------------------------
(* Induction, and that the sums are defined.                               *)

\* Induction over the naturals, about a set of them.
LEMMA NatByInduction ==
  ASSUME NEW S, 0 \in S, \A n \in Nat : n \in S => n + 1 \in S
  PROVE  Nat \subseteq S
<1> DEFINE T == {1 .. n : n \in Nat \ S}
           Smaller == StrictSubsetOrdering(Nat)
<1> SUFFICES ASSUME T # {} PROVE FALSE
  OBVIOUS
<1>1. PICK top \in T : \A t \in T : ~(<<t, top>> \in Smaller)
  <2>1. T \subseteq FiniteSubsetsOf(Nat)
    <3> SUFFICES ASSUME NEW n \in Nat PROVE 1 .. n \in FiniteSubsetsOf(Nat)
      OBVIOUS
    <3>1. IsFiniteSet(1 .. n)
      BY FS_Interval
    <3> QED BY <3>1 DEF FiniteSubsetsOf
  <2>2. IsWellFoundedOn(Smaller, FiniteSubsetsOf(Nat))
    BY FS_StrictSubsetOrderingWellFounded
  <2> HIDE DEF T, Smaller
  <2> QED BY <2>1, <2>2, WFMin
<1>2. PICK n \in Nat \ S : top = 1 .. n
  OBVIOUS
<1>3. n # 0 /\ n - 1 \in Nat \ S
  BY <1>2
<1>4. 1 .. (n - 1) \in T
  BY <1>3
<1>5. 1 .. (n - 1) \subseteq top /\ 1 .. (n - 1) # top /\ top \subseteq Nat /\ 1 .. (n - 1) \subseteq Nat
  <2>1. n \in top /\ n \notin 1 .. (n - 1)
    BY <1>2, <1>3
  <2> QED BY <1>2, <1>3, <2>1
<1>6. <<1 .. (n - 1), top>> \in Smaller
  BY <1>5 DEF StrictSubsetOrdering
<1> QED BY <1>1, <1>4, <1>6


\* The element by which a sum begins.
Member(s) == CHOOSE x \in s : TRUE

\* g is the recursive function by which the sum of f over S is defined.
Sums(f, S, g) ==
  g = [s \in SUBSET S |->
         IF s = {} THEN 0 ELSE f[Member(s)] + g[s \ {Member(s)}]]

\* SumFunctionOnSet is the recursive function over the subsets, at the whole set.
LEMMA SumIsChosen ==
  ASSUME NEW f, NEW S
  PROVE  SumFunctionOnSet(f, S) = (CHOOSE g : Sums(f, S, g))[S]
  BY DEF SumFunctionOnSet, FoldFunctionOnSet, MapThenFoldSet, Sums, Member

\* Subsets of up to n elements.
UpTo(S, n) == {s \in SUBSET S : Cardinality(s) <= n}

SumsUpTo(f, S, n, g) ==
  g = [s \in UpTo(S, n) |->
         IF s = {} THEN 0 ELSE f[Member(s)] + g[s \ {Member(s)}]]

\* A member taken away leaves a smaller subset.
LEMMA Smaller ==
  ASSUME NEW S, IsFiniteSet(S), NEW s \in SUBSET S, s # {}
  PROVE  LET x == Member(s) IN
         /\ x \in s /\ s \ {x} \in SUBSET S
         /\ IsFiniteSet(s) /\ Cardinality(s) \in Nat \ {0}
         /\ Cardinality(s \ {x}) = Cardinality(s) - 1
<1> DEFINE x == Member(s)
<1>1. IsFiniteSet(s) /\ x \in s
  BY FS_Subset DEF Member
<1>2. Cardinality(s) \in Nat /\ Cardinality(s) # 0
  BY <1>1, FS_CardinalityType, FS_EmptySet
<1> QED BY <1>1, <1>2, FS_RemoveElement

\* The recursive function exists.
LEMMA SumsExist ==
  ASSUME NEW f, NEW S, IsFiniteSet(S)
  PROVE  \E g : Sums(f, S, g)
<1> DEFINE N == {n \in Nat : \E g : SumsUpTo(f, S, n, g)}
<1>1. 0 \in N
  <2> DEFINE g == [s \in UpTo(S, 0) |-> 0]
  <2>1. \A s \in UpTo(S, 0) : s = {}
    BY FS_EmptySet, FS_Subset, FS_CardinalityType DEF UpTo
  <2>2. SumsUpTo(f, S, 0, g)
    BY <2>1 DEF SumsUpTo
  <2> QED BY <2>2
<1>2. ASSUME NEW n \in Nat, n \in N PROVE n + 1 \in N
  <2>1. PICK g : SumsUpTo(f, S, n, g)
    BY <1>2
  <2> DEFINE h == [s \in UpTo(S, n + 1) |-> IF s = {} THEN 0 ELSE f[Member(s)] + g[s \ {Member(s)}]]
  <2>2. \A s \in UpTo(S, n) : s \in UpTo(S, n + 1) /\ g[s] = h[s]
    <3>1. \A s \in UpTo(S, n) : s \in UpTo(S, n + 1)
      BY FS_Subset, FS_CardinalityType DEF UpTo
    <3> QED BY <2>1, <3>1 DEF SumsUpTo
  <2>3. \A s \in UpTo(S, n + 1) : s # {} => s \ {Member(s)} \in UpTo(S, n)
    <3> SUFFICES ASSUME NEW s \in UpTo(S, n + 1), s # {} PROVE s \ {Member(s)} \in UpTo(S, n)
      OBVIOUS
    <3>1. s \in SUBSET S /\ Cardinality(s) <= n + 1
      BY DEF UpTo
    <3>2. s \ {Member(s)} \in SUBSET S /\ Cardinality(s) \in Nat /\ Cardinality(s \ {Member(s)}) = Cardinality(s) - 1
      BY <3>1, Smaller
    <3> QED BY <3>1, <3>2 DEF UpTo
  <2>4. SumsUpTo(f, S, n + 1, h)
    <3>1. \A s \in UpTo(S, n + 1) : s # {} => g[s \ {Member(s)}] = h[s \ {Member(s)}]
      BY <2>2, <2>3
    <3>2. h = [s \in UpTo(S, n + 1) |-> IF s = {} THEN 0 ELSE f[Member(s)] + h[s \ {Member(s)}]]
      BY <3>1
    <3> QED BY <3>2 DEF SumsUpTo
  <2> QED BY <2>4
<1>3. Cardinality(S) \in N
  BY <1>1, <1>2, NatByInduction, FS_CardinalityType
<1>4. UpTo(S, Cardinality(S)) = SUBSET S
  BY FS_Subset DEF UpTo
<1> QED BY <1>3, <1>4 DEF SumsUpTo, Sums

\* What the recursive function is at each subset.
LEMMA SumsEquation ==
  ASSUME NEW f, NEW S, NEW g, Sums(f, S, g)
  PROVE  \A s \in SUBSET S : g[s] = IF s = {} THEN 0 ELSE f[Member(s)] + g[s \ {Member(s)}]
  BY DEF Sums

\* Induction over the subsets of a finite set, about a set of them.
Inherited(P, S) == \A s \in SUBSET S : (\A t \in SUBSET s : t # s => t \in P) => s \in P

LEMMA SubsetsByInduction ==
  ASSUME NEW S, IsFiniteSet(S), NEW P, Inherited(P, S)
  PROVE  SUBSET S \subseteq P
<1> DEFINE Rest == (SUBSET S) \ P
           Smaller2 == StrictSubsetOrdering(S)
<1> SUFFICES ASSUME Rest # {} PROVE FALSE
  OBVIOUS
<1>1. PICK s \in Rest : \A t \in Rest : ~(<<t, s>> \in Smaller2)
  <2>1. Rest \subseteq FiniteSubsetsOf(S)
    BY FS_Subset DEF FiniteSubsetsOf
  <2>2. IsWellFoundedOn(Smaller2, FiniteSubsetsOf(S))
    BY FS_StrictSubsetOrderingWellFounded
  <2> HIDE DEF Rest, Smaller2
  <2> QED BY <2>1, <2>2, WFMin
<1>2. \A t \in SUBSET s : t # s => t \in P
  <2> SUFFICES ASSUME NEW t \in SUBSET s, t # s, t \notin P PROVE FALSE
    OBVIOUS
  <2>1. s \in SUBSET S /\ t \in SUBSET S /\ t \in Rest
    BY <1>1
  <2>2. <<t, s>> \in Smaller2
    BY <2>1 DEF StrictSubsetOrdering
  <2> QED BY <1>1, <2>1, <2>2
<1> QED BY <1>1, <1>2 DEF Inherited

\* Two functions that sum, of arguments that are the same, are the same.
LEMMA SumsUnique ==
  ASSUME NEW f, NEW h, NEW S, NEW T, NEW g, NEW k,
         T \subseteq S, IsFiniteSet(T), \A x \in T : f[x] = h[x],
         Sums(f, S, g), Sums(h, T, k)
  PROVE  \A s \in SUBSET T : g[s] = k[s]
<1> DEFINE P == {s \in SUBSET T : g[s] = k[s]}
<1>1. \A s \in SUBSET S : g[s] = IF s = {} THEN 0 ELSE f[Member(s)] + g[s \ {Member(s)}]
  BY DEF Sums
<1>2. \A s \in SUBSET T : k[s] = IF s = {} THEN 0 ELSE h[Member(s)] + k[s \ {Member(s)}]
  BY DEF Sums
<1>3. ASSUME NEW s \in SUBSET T, \A t \in SUBSET s : t # s => t \in P
      PROVE  s \in P
  <2>1. s \in SUBSET S
    OBVIOUS
  <2>2. g[s] = IF s = {} THEN 0 ELSE f[Member(s)] + g[s \ {Member(s)}]
    BY <1>1, <2>1
  <2>3. k[s] = IF s = {} THEN 0 ELSE h[Member(s)] + k[s \ {Member(s)}]
    BY <1>2
  <2>4. s # {} => f[Member(s)] = h[Member(s)] /\ g[s \ {Member(s)}] = k[s \ {Member(s)}]
    BY <1>3 DEF Member
  <2> QED BY <2>2, <2>3, <2>4
<1>4. Inherited(P, T)
  BY <1>3 DEF Inherited
<1> HIDE DEF P
<1>5. SUBSET T \subseteq P
  BY <1>4, SubsetsByInduction
<1> QED BY <1>5 DEF P

\* A sum over a subset is what the sums of the set go through.
LEMMA SumIsOfSums ==
  ASSUME NEW f, NEW S, NEW g, IsFiniteSet(S), Sums(f, S, g)
  PROVE  \A T \in SUBSET S : g[T] = SumFunctionOnSet(f, T)
<1> SUFFICES ASSUME NEW T \in SUBSET S PROVE g[T] = SumFunctionOnSet(f, T)
  OBVIOUS
<1> DEFINE k == CHOOSE h : Sums(f, T, h)
<1>1. IsFiniteSet(T)
  BY FS_Subset
<1>2. Sums(f, T, k)
  BY <1>1, SumsExist
<1>3. SumFunctionOnSet(f, T) = k[T]
  BY SumIsChosen
<1> HIDE DEF k
<1>4. T \subseteq S /\ (\A x \in T : f[x] = f[x])
  OBVIOUS
<1>5. \A s \in SUBSET T : g[s] = k[s]
  BY <1>1, <1>2, <1>4, SumsUnique
<1> QED BY <1>3, <1>5

-----------------------------------------------------------------------------
(* What sums are.                                                          *)

\* Sums are of the values: functions that agree on a set have the same sum.
LEMMA SumAgrees ==
  ASSUME NEW f, NEW h, NEW S, IsFiniteSet(S), \A x \in S : f[x] = h[x]
  PROVE  SumFunctionOnSet(f, S) = SumFunctionOnSet(h, S)
<1>1. PICK g : Sums(f, S, g)
  BY SumsExist
<1>2. PICK k : Sums(h, S, k)
  BY SumsExist
<1>3. S \subseteq S
  OBVIOUS
<1>4. \A s \in SUBSET S : g[s] = k[s]
  BY <1>1, <1>2, <1>3, SumsUnique
<1> QED BY <1>1, <1>2, <1>3, <1>4, SumIsOfSums

\* The sum over the empty set.
LEMMA SumOfNone ==
  ASSUME NEW f
  PROVE  SumFunctionOnSet(f, {}) = 0
<1>1. PICK g : Sums(f, {}, g)
  BY SumsExist, FS_EmptySet
<1>2. g[{}] = 0
  BY <1>1, SumsEquation
<1> QED BY <1>1, <1>2, SumIsOfSums, FS_EmptySet

\* A sum is one of its values and the sum of the rest.
LEMMA SumPeels ==
  ASSUME NEW f, NEW S, IsFiniteSet(S), S # {}
  PROVE  \E x \in S : SumFunctionOnSet(f, S) = f[x] + SumFunctionOnSet(f, S \ {x})
<1>1. PICK g : Sums(f, S, g)
  BY SumsExist
<1>2. Member(S) \in S
  BY DEF Member
<1>3. S \in SUBSET S /\ S \ {Member(S)} \in SUBSET S
  OBVIOUS
<1>4. g[S] = f[Member(S)] + g[S \ {Member(S)}]
  BY <1>1, <1>3, SumsEquation
<1>5. g[S] = SumFunctionOnSet(f, S) /\ g[S \ {Member(S)}] = SumFunctionOnSet(f, S \ {Member(S)})
  BY <1>1, <1>3, SumIsOfSums
<1> QED BY <1>2, <1>4, <1>5

\* A sum of integers is one, of naturals too; each value is a part of it.
LEMMA SumType ==
  ASSUME NEW S, IsFiniteSet(S), NEW f, \A x \in S : f[x] \in Int
  PROVE  SumFunctionOnSet(f, S) \in Int
<1> DEFINE P == {s \in SUBSET S : SumFunctionOnSet(f, s) \in Int}
<1>1. ASSUME NEW s \in SUBSET S, \A t \in SUBSET s : t # s => t \in P
      PROVE  s \in P
  <2>1. CASE s = {}
    BY <2>1, SumOfNone
  <2>2. CASE s # {}
    <3>1. PICK x \in s : SumFunctionOnSet(f, s) = f[x] + SumFunctionOnSet(f, s \ {x})
      BY <2>2, SumPeels, FS_Subset
    <3>2. s \ {x} \in P
      BY <1>1
    <3> QED BY <3>1, <3>2
  <2> QED BY <2>1, <2>2
<1>2. Inherited(P, S)
  BY <1>1 DEF Inherited
<1> HIDE DEF P
<1>3. SUBSET S \subseteq P
  BY <1>2, SubsetsByInduction
<1> QED BY <1>3 DEF P

\* Any of the values can be the one taken out.
LEMMA SumAdds ==
  ASSUME NEW S, IsFiniteSet(S), NEW f, \A x \in S : f[x] \in Int, NEW x \in S
  PROVE  SumFunctionOnSet(f, S) = f[x] + SumFunctionOnSet(f, S \ {x})
<1> DEFINE P == {s \in SUBSET S : \A y \in s :
                   SumFunctionOnSet(f, s) = f[y] + SumFunctionOnSet(f, s \ {y})}
<1>1. ASSUME NEW s \in SUBSET S, \A t \in SUBSET s : t # s => t \in P
      PROVE  s \in P
  <2> SUFFICES ASSUME NEW y \in s
               PROVE  SumFunctionOnSet(f, s) = f[y] + SumFunctionOnSet(f, s \ {y})
    OBVIOUS
  <2>1. PICK z \in s : SumFunctionOnSet(f, s) = f[z] + SumFunctionOnSet(f, s \ {z})
    BY SumPeels, FS_Subset
  <2>2. CASE z = y
    BY <2>1, <2>2
  <2>3. CASE z # y
    <3>1. s \ {z} \in P /\ s \ {y} \in P
      BY <1>1
    <3>2. SumFunctionOnSet(f, s \ {z}) = f[y] + SumFunctionOnSet(f, (s \ {z}) \ {y})
      BY <2>3, <3>1
    <3>3. SumFunctionOnSet(f, s \ {y}) = f[z] + SumFunctionOnSet(f, (s \ {y}) \ {z})
      BY <2>3, <3>1
    <3>4. (s \ {z}) \ {y} = (s \ {y}) \ {z}
      OBVIOUS
    <3>5. f[y] \in Int /\ f[z] \in Int
      OBVIOUS
    <3>6. IsFiniteSet((s \ {y}) \ {z}) /\ (s \ {y}) \ {z} \subseteq S
      BY FS_Subset
    <3>7. SumFunctionOnSet(f, (s \ {y}) \ {z}) \in Int
      BY <3>6, SumType
    <3> DEFINE rest == SumFunctionOnSet(f, (s \ {y}) \ {z})
    <3>8. SumFunctionOnSet(f, s) = f[z] + (f[y] + rest)
      BY <2>1, <3>2, <3>4
    <3> HIDE DEF rest
    <3> QED BY <3>3, <3>5, <3>7, <3>8 DEF rest
  <2> QED BY <2>2, <2>3
<1>2. Inherited(P, S)
  BY <1>1 DEF Inherited
<1> HIDE DEF P
<1>3. SUBSET S \subseteq P
  BY <1>2, SubsetsByInduction
<1> QED BY <1>3 DEF P

\* A sum of naturals is one.
LEMMA SumOfNaturals ==
  ASSUME NEW S, IsFiniteSet(S), NEW f, \A x \in S : f[x] \in Nat
  PROVE  SumFunctionOnSet(f, S) \in Nat
<1> DEFINE P == {s \in SUBSET S : SumFunctionOnSet(f, s) \in Nat}
<1>1. ASSUME NEW s \in SUBSET S, \A t \in SUBSET s : t # s => t \in P
      PROVE  s \in P
  <2>1. CASE s = {}
    BY <2>1, SumOfNone
  <2>2. CASE s # {}
    <3>1. PICK x \in s : SumFunctionOnSet(f, s) = f[x] + SumFunctionOnSet(f, s \ {x})
      BY <2>2, SumPeels, FS_Subset
    <3>2. s \ {x} \in P
      BY <1>1
    <3> QED BY <3>1, <3>2
  <2> QED BY <2>1, <2>2
<1>2. Inherited(P, S)
  BY <1>1 DEF Inherited
<1> HIDE DEF P
<1>3. SUBSET S \subseteq P
  BY <1>2, SubsetsByInduction
<1> QED BY <1>3 DEF P

\* A sum of two functions that differ at one element.
LEMMA SumOfUpdate ==
  ASSUME NEW S, IsFiniteSet(S), NEW x \in S, NEW f, NEW h,
         \A y \in S : f[y] \in Int, \A y \in S : h[y] \in Int,
         \A y \in S \ {x} : h[y] = f[y]
  PROVE  SumFunctionOnSet(h, S) = SumFunctionOnSet(f, S) - f[x] + h[x]
<1>1. SumFunctionOnSet(f, S) = f[x] + SumFunctionOnSet(f, S \ {x})
  BY SumAdds
<1>2. SumFunctionOnSet(h, S) = h[x] + SumFunctionOnSet(h, S \ {x})
  BY SumAdds
<1>3. IsFiniteSet(S \ {x})
  BY FS_Subset
<1>4. SumFunctionOnSet(h, S \ {x}) = SumFunctionOnSet(f, S \ {x})
  BY <1>3, SumAgrees
<1>5. SumFunctionOnSet(f, S \ {x}) \in Int
  BY <1>3, SumType
<1> QED BY <1>1, <1>2, <1>4, <1>5

\* The sum of nothing but zeros is zero.
LEMMA SumOfZeros ==
  ASSUME NEW S, IsFiniteSet(S), NEW f, \A x \in S : f[x] = 0
  PROVE  SumFunctionOnSet(f, S) = 0
<1> DEFINE P == {s \in SUBSET S : SumFunctionOnSet(f, s) = 0}
<1>1. ASSUME NEW s \in SUBSET S, \A t \in SUBSET s : t # s => t \in P
      PROVE  s \in P
  <2>1. CASE s = {}
    BY <2>1, SumOfNone
  <2>2. CASE s # {}
    <3>1. PICK x \in s : SumFunctionOnSet(f, s) = f[x] + SumFunctionOnSet(f, s \ {x})
      BY <2>2, SumPeels, FS_Subset
    <3>2. s \ {x} \in P
      BY <1>1
    <3> QED BY <3>1, <3>2
  <2> QED BY <2>1, <2>2
<1>2. Inherited(P, S)
  BY <1>1 DEF Inherited
<1> HIDE DEF P
<1>3. SUBSET S \subseteq P
  BY <1>2, SubsetsByInduction
<1> QED BY <1>3 DEF P

\* Elements whose value is zero can be left out.
LEMMA SumOverPart ==
  ASSUME NEW S, IsFiniteSet(S), NEW T, T \subseteq S, NEW f,
         \A x \in T : f[x] \in Int, \A x \in S \ T : f[x] = 0
  PROVE  SumFunctionOnSet(f, S) = SumFunctionOnSet(f, T)
<1> DEFINE P == {s \in SUBSET S : T \subseteq s => SumFunctionOnSet(f, s) = SumFunctionOnSet(f, T)}
<1>1. ASSUME NEW s \in SUBSET S, \A t \in SUBSET s : t # s => t \in P
      PROVE  s \in P
  <2> SUFFICES ASSUME T \subseteq s PROVE SumFunctionOnSet(f, s) = SumFunctionOnSet(f, T)
    OBVIOUS
  <2>1. CASE s = T
    BY <2>1
  <2>2. CASE s # T
    <3>1. PICK x \in s : x \notin T
      BY <2>2
    <3>2. s \ {x} \in P /\ T \subseteq s \ {x} /\ f[x] = 0
      BY <1>1, <3>1
    <3>3. SumFunctionOnSet(f, s \ {x}) = SumFunctionOnSet(f, T)
      BY <3>2
    <3>4. IsFiniteSet(s) /\ IsFiniteSet(T) /\ (\A y \in s : f[y] \in Int)
      BY FS_Subset
    <3>5. SumFunctionOnSet(f, s) = f[x] + SumFunctionOnSet(f, s \ {x})
      BY <3>4, SumAdds
    <3>6. SumFunctionOnSet(f, T) \in Int
      BY <3>4, SumType
    <3> QED BY <3>2, <3>3, <3>5, <3>6
  <2> QED BY <2>1, <2>2
<1>2. Inherited(P, S)
  BY <1>1 DEF Inherited
<1> HIDE DEF P
<1>3. SUBSET S \subseteq P
  BY <1>2, SubsetsByInduction
<1> QED BY <1>3 DEF P

\* Each of the naturals summed is within the sum.
LEMMA ValueWithinSum ==
  ASSUME NEW S, IsFiniteSet(S), NEW f, \A x \in S : f[x] \in Nat, NEW x \in S
  PROVE  f[x] <= SumFunctionOnSet(f, S)
<1>1. SumFunctionOnSet(f, S) = f[x] + SumFunctionOnSet(f, S \ {x})
  BY SumAdds
<1>2. SumFunctionOnSet(f, S \ {x}) \in Nat
  BY SumOfNaturals, FS_Subset
<1> QED BY <1>1, <1>2

-----------------------------------------------------------------------------
(* Folds of a sequence, which take the indices from the top.              *)

Top(s) == CHOOSE x \in s : \A y \in s : x >= y

\* A fold of a sequence from left to right takes off the top of its indices.
FoldedUpTo(base, step, S, n, g) ==
  g = [s \in UpTo(S, n) |-> IF s = {} THEN base ELSE step[<<g[s \ {Top(s)}], Top(s)>>]]

Folded(base, step, S, g) ==
  g = [s \in SUBSET S |-> IF s = {} THEN base ELSE step[<<g[s \ {Top(s)}], Top(s)>>]]

\* A set of natural numbers has a largest element.
LEMMA TopIsLargest ==
  ASSUME NEW n \in Nat, NEW s \in SUBSET (1 .. n), s # {}
  PROVE  /\ Top(s) \in s /\ \A y \in s : Top(s) >= y
         /\ s \ {Top(s)} \in SUBSET (1 .. n)
<1>1. \E x \in s : \A y \in s : x >= y
  <2> DEFINE N == {k \in Nat : \A t \in SUBSET (1 .. k) : t # {} => \E x \in t : \A y \in t : x >= y}
  <2>1. 0 \in N
    <3>1. 1 .. 0 = {}
      OBVIOUS
    <3> QED BY <3>1
  <2>2. ASSUME NEW k \in Nat, k \in N PROVE k + 1 \in N
    <3> SUFFICES ASSUME NEW t \in SUBSET (1 .. k + 1), t # {}
                 PROVE  \E x \in t : \A y \in t : x >= y
      OBVIOUS
    <3>1. CASE k + 1 \in t
      BY <3>1
    <3>2. CASE k + 1 \notin t
      <4>1. t \in SUBSET (1 .. k)
        BY <3>2
      <4> QED BY <4>1, <2>2
    <3> QED BY <3>1, <3>2
  <2>3. n \in N
    <3> HIDE DEF N
    <3> QED BY <2>1, <2>2, NatByInduction
  <2> QED BY <2>3
<1>2. Top(s) \in s /\ \A y \in s : Top(s) >= y
  BY <1>1 DEF Top
<1> QED BY <1>2

\* Whatever the step, the fold of a sequence of n elements is defined.
LEMMA FoldsExist ==
  ASSUME NEW T, NEW base \in T, NEW S, IsFiniteSet(S), NEW step \in [T \X S -> T],
         \A s \in SUBSET S : s # {} => Top(s) \in s
  PROVE  \E g \in [SUBSET S -> T] : Folded(base, step, S, g)
<1> DEFINE N == {k \in Nat : \E g \in [UpTo(S, k) -> T] : FoldedUpTo(base, step, S, k, g)}
<1>1. 0 \in N
  <2> DEFINE g == [s \in UpTo(S, 0) |-> base]
  <2>1. \A s \in UpTo(S, 0) : s = {}
    BY FS_EmptySet, FS_Subset, FS_CardinalityType DEF UpTo
  <2>2. FoldedUpTo(base, step, S, 0, g)
    BY <2>1 DEF FoldedUpTo
  <2> QED BY <2>2
<1>2. ASSUME NEW k \in Nat, k \in N PROVE k + 1 \in N
  <2>1. PICK g \in [UpTo(S, k) -> T] : FoldedUpTo(base, step, S, k, g)
    BY <1>2
  <2> DEFINE h == [s \in UpTo(S, k + 1) |-> IF s = {} THEN base ELSE step[<<g[s \ {Top(s)}], Top(s)>>]]
  <2>2. \A s \in UpTo(S, k) : s \in UpTo(S, k + 1) /\ g[s] = h[s]
    <3>1. \A s \in UpTo(S, k) : s \in UpTo(S, k + 1)
      BY FS_Subset, FS_CardinalityType DEF UpTo
    <3> QED BY <2>1, <3>1 DEF FoldedUpTo
  <2>3. \A s \in UpTo(S, k + 1) : s # {} => Top(s) \in S /\ s \ {Top(s)} \in UpTo(S, k)
    <3> SUFFICES ASSUME NEW s \in UpTo(S, k + 1), s # {}
                 PROVE  Top(s) \in S /\ s \ {Top(s)} \in UpTo(S, k)
      OBVIOUS
    <3>1. s \in SUBSET S /\ Cardinality(s) <= k + 1
      BY DEF UpTo
    <3>2. Top(s) \in s /\ s \ {Top(s)} \in SUBSET S /\ IsFiniteSet(s)
      BY <3>1, FS_Subset
    <3>3. Cardinality(s) \in Nat /\ Cardinality(s \ {Top(s)}) = Cardinality(s) - 1
      BY <3>2, FS_RemoveElement, FS_CardinalityType
    <3> QED BY <3>1, <3>2, <3>3 DEF UpTo
  <2>4. FoldedUpTo(base, step, S, k + 1, h)
    <3>1. \A s \in UpTo(S, k + 1) : s # {} => g[s \ {Top(s)}] = h[s \ {Top(s)}]
      BY <2>2, <2>3
    <3>2. h = [s \in UpTo(S, k + 1) |-> IF s = {} THEN base ELSE step[<<h[s \ {Top(s)}], Top(s)>>]]
      BY <3>1
    <3> QED BY <3>2 DEF FoldedUpTo
  <2>5. h \in [UpTo(S, k + 1) -> T]
    <3>1. ASSUME NEW s \in UpTo(S, k + 1), s # {} PROVE step[<<g[s \ {Top(s)}], Top(s)>>] \in T
      BY <2>1, <2>3, <3>1
    <3> QED BY <3>1
  <2> HIDE DEF h
  <2> QED BY <2>4, <2>5
<1>3. Cardinality(S) \in N
  <2> HIDE DEF N
  <2> QED BY <1>1, <1>2, NatByInduction, FS_CardinalityType
<1>4. UpTo(S, Cardinality(S)) = SUBSET S
  BY FS_Subset DEF UpTo
<1>5. PICK g \in [UpTo(S, Cardinality(S)) -> T] : FoldedUpTo(base, step, S, Cardinality(S), g)
  BY <1>3
<1>6. g \in [SUBSET S -> T]
  BY <1>4
<1>7. g = [s \in SUBSET S |-> IF s = {} THEN base ELSE step[<<g[s \ {Top(s)}], Top(s)>>]]
  BY <1>4, <1>5 DEF FoldedUpTo
<1> QED BY <1>6, <1>7 DEF Folded

\* The first i indices, and their top.
LEMMA FirstIndices ==
  ASSUME NEW n \in Nat, NEW i \in 1 .. n
  PROVE  /\ 1 .. i \in SUBSET (1 .. n) /\ 1 .. i # {}
         /\ Top(1 .. i) = i /\ (1 .. i) \ {Top(1 .. i)} = 1 .. (i - 1)
<1> DEFINE s == 1 .. i
<1>1. s \in SUBSET (1 .. n) /\ i \in s /\ \A y \in s : y <= i
  OBVIOUS
<1>2. Top(s) \in s /\ \A y \in s : Top(s) >= y
  <2> HIDE DEF s
  <2> QED BY <1>1, TopIsLargest
<1> QED BY <1>1, <1>2
=============================================================================
