---------------------------- MODULE CountingLemmas ----------------------------
(***************************************************************************)
(* What the proofs need to know of counts and sums: the positions of a     *)
(* sequence that hold certain values, the sum of a function's values, and  *)
(* the lists of the module Lists.                                          *)
(***************************************************************************)
EXTENDS Integers, Sequences, Functions, Lists, SequenceTheorems, FiniteSetTheorems, TLAPS

-----------------------------------------------------------------------------
(* Minimal elements, in place of induction. *)

\* Among subsets of a finite set there is one that contains no other.
LEMMA MinimalSubset ==
  ASSUME NEW U, IsFiniteSet(U), NEW T \in SUBSET SUBSET U, T # {}
  PROVE  \E s \in T : \A t \in T : t \subseteq s => t = s
<1>1. FiniteSubsetsOf(U) = SUBSET U
  BY FS_FiniteSubsetsOfFinite, Zenon
<1>2. IsWellFoundedOn(StrictSubsetOrdering(U), SUBSET U)
  BY <1>1, FS_StrictSubsetOrderingWellFounded, Zenon
<1>3. PICK s \in T : \A t \in T : ~(<<t, s>> \in StrictSubsetOrdering(U))
  BY <1>2, WFMin, Zenon
<1>4. \A t \in T : t \subseteq s => t = s
  BY <1>3 DEF StrictSubsetOrdering
<1> QED BY <1>4

\* A set of natural numbers that is not empty has a least element.
LEMMA LeastNatural ==
  ASSUME NEW T \in SUBSET Nat, T # {}
  PROVE  \E n \in T : \A m \in T : n <= m
<1>1. PICK top \in T : TRUE
  OBVIOUS
<1> DEFINE Below == {1 .. n : n \in {m \in T : m <= top}}
           U == 1 .. top
<1>2. IsFiniteSet(U)
  BY FS_Interval
<1>3. Below \in SUBSET SUBSET U /\ Below # {}
  BY <1>1
<1>4. PICK s \in Below : \A t \in Below : t \subseteq s => t = s
  <2> HIDE DEF Below, U
  <2> QED BY <1>2, <1>3, MinimalSubset
<1>5. PICK n \in T : n <= top /\ s = 1 .. n
  BY <1>4
<1>6. \A m \in T : n <= m
  <2> SUFFICES ASSUME NEW m \in T, m < n PROVE FALSE
    OBVIOUS
  <2>1. 1 .. m \in Below /\ 1 .. m \subseteq s
    BY <1>5
  <2>2. 1 .. m = 1 .. n
    BY <1>4, <1>5, <2>1
  <2>3. n \in 1 .. n /\ n \notin 1 .. m
    OBVIOUS
  <2> QED BY <2>2, <2>3
<1> QED BY <1>6

-----------------------------------------------------------------------------
(* Sums. *)

Chosen(s) == CHOOSE x \in s : TRUE

\* The recursion over the subsets of S that a sum of values of f unfolds.
SumRecursion(f, S, sum) ==
  sum = [s \in SUBSET S |-> IF s = {} THEN 0 ELSE f[Chosen(s)] + sum[s \ {Chosen(s)}]]

LEMMA SumUnfolds ==
  ASSUME NEW f, NEW S
  PROVE  SumFunctionOnSet(f, S) = (CHOOSE sum : SumRecursion(f, S, sum))[S]
BY DEF SumFunctionOnSet, FoldFunctionOnSet, MapThenFoldSet, SumRecursion, Chosen

\* The recursion up to a size of the subsets.
SumsUpTo(f, S, n, sum) ==
  /\ sum \in [SUBSET S -> Int]
  /\ \A s \in SUBSET S : Cardinality(s) <= n =>
       sum[s] = IF s = {} THEN 0 ELSE f[Chosen(s)] + sum[s \ {Chosen(s)}]

LEMMA SumsGoOn ==
  ASSUME NEW S, IsFiniteSet(S), NEW f \in [S -> Int], NEW n \in Nat, NEW sum, SumsUpTo(f, S, n, sum)
  PROVE  \E next : SumsUpTo(f, S, n + 1, next)
<1> DEFINE next == [s \in SUBSET S |-> IF Cardinality(s) <= n THEN sum[s]
                                       ELSE f[Chosen(s)] + sum[s \ {Chosen(s)}]]
<1>1. \A s \in SUBSET S : /\ Cardinality(s) \in Nat
                          /\ s # {} => /\ Chosen(s) \in s
                                       /\ s \ {Chosen(s)} \in SUBSET S
                                       /\ Cardinality(s \ {Chosen(s)}) = Cardinality(s) - 1
                          /\ Cardinality(s) = 0 <=> s = {}
  <2> SUFFICES ASSUME NEW s \in SUBSET S
               PROVE  /\ Cardinality(s) \in Nat
                      /\ s # {} => /\ Chosen(s) \in s
                                   /\ s \ {Chosen(s)} \in SUBSET S
                                   /\ Cardinality(s \ {Chosen(s)}) = Cardinality(s) - 1
                      /\ Cardinality(s) = 0 <=> s = {}
    OBVIOUS
  <2>1. IsFiniteSet(s)
    BY FS_Subset
  <2>2. s # {} => Chosen(s) \in s
    BY DEF Chosen
  <2>3. Cardinality(s) \in Nat
    BY <2>1, FS_CardinalityType
  <2>4. Cardinality(s) = 0 <=> s = {}
    BY <2>1, FS_EmptySet
  <2>5. s # {} => Cardinality(s \ {Chosen(s)}) = Cardinality(s) - 1
    BY <2>1, <2>2, FS_RemoveElement
  <2> QED BY <2>2, <2>3, <2>4, <2>5
<1>2. next \in [SUBSET S -> Int]
  BY <1>1 DEF SumsUpTo
<1>3. ASSUME NEW s \in SUBSET S, Cardinality(s) <= n + 1
      PROVE  next[s] = IF s = {} THEN 0 ELSE f[Chosen(s)] + next[s \ {Chosen(s)}]
  <2>1. CASE Cardinality(s) <= n
    BY <1>1, <2>1 DEF SumsUpTo
  <2>2. CASE ~(Cardinality(s) <= n)
    BY <1>1, <1>3, <2>2
  <2> QED BY <2>1, <2>2
<1> QED BY <1>2, <1>3 DEF SumsUpTo

\* There is a function that satisfies the recursion, for every size.
LEMMA SumsExist ==
  ASSUME NEW S, IsFiniteSet(S), NEW f \in [S -> Int], NEW n \in Nat
  PROVE  \E sum : SumsUpTo(f, S, n, sum)
<1> DEFINE T == {m \in Nat : ~ \E sum : SumsUpTo(f, S, m, sum)}
<1>1. 0 \notin T
  <2>1. \A s \in SUBSET S : Cardinality(s) <= 0 => s = {}
    BY FS_Subset, FS_CardinalityType, FS_EmptySet
  <2>2. SumsUpTo(f, S, 0, [s \in SUBSET S |-> 0])
    BY <2>1 DEF SumsUpTo
  <2> QED BY <2>2
<1>2. \A m \in Nat : m + 1 \in T => m \in T
  BY SumsGoOn
<1>3. T = {}
  <2> SUFFICES ASSUME T # {} PROVE FALSE
    OBVIOUS
  <2> HIDE DEF T
  <2>1. PICK m \in T : \A l \in T : m <= l
    BY LeastNatural DEF T
  <2>2. m # 0 /\ m \in Nat
    BY <1>1, <2>1 DEF T
  <2>3. m - 1 \in Nat /\ (m - 1) + 1 = m
    BY <2>2
  <2>4. m - 1 \in T
    BY <1>2, <2>1, <2>3
  <2> QED BY <2>1, <2>2, <2>4
<1> QED BY <1>3

\* sum gives the sum of the values of f over each subset of S.
SumsOf(f, S, sum) ==
  /\ sum \in [SUBSET S -> Int]
  /\ sum[{}] = 0
  /\ \A s \in SUBSET S : \A x \in s : sum[s] = f[x] + sum[s \ {x}]

\* The order in which the recursion takes the elements does not matter.
LEMMA AnyOrder ==
  ASSUME NEW S, IsFiniteSet(S), NEW f \in [S -> Int], NEW sum \in [SUBSET S -> Int],
         sum[{}] = 0,
         \A s \in SUBSET S : s # {} => sum[s] = f[Chosen(s)] + sum[s \ {Chosen(s)}]
  PROVE  SumsOf(f, S, sum)
<1> DEFINE T == {s \in SUBSET S : \E x \in s : sum[s] # f[x] + sum[s \ {x}]}
<1>1. T = {}
  <2> SUFFICES ASSUME T # {} PROVE FALSE
    OBVIOUS
  <2> HIDE DEF T
  <2>1. T \in SUBSET SUBSET S
    BY DEF T
  <2>2. PICK s \in T : \A t \in T : t \subseteq s => t = s
    BY <2>1, MinimalSubset
  <2>3. PICK x \in s : sum[s] # f[x] + sum[s \ {x}]
    BY DEF T
  <2>4. s \in SUBSET S /\ Chosen(s) \in s
    BY <2>1, <2>3 DEF Chosen
  <2>5. PICK y \in s : y = Chosen(s)
    BY <2>4
  <2>6. sum[s] = f[y] + sum[s \ {y}]
    BY <2>3, <2>4, <2>5
  <2>7. x # y
    BY <2>3, <2>6
  <2>8. s \ {x} \in SUBSET S /\ s \ {y} \in SUBSET S
        /\ s \ {x} # s /\ s \ {y} # s /\ y \in s \ {x} /\ x \in s \ {y}
    BY <2>4, <2>7
  <2>9. s \ {x} \notin T /\ s \ {y} \notin T
    BY <2>2, <2>8
  <2>10. sum[s \ {x}] = f[y] + sum[(s \ {x}) \ {y}]
    BY <2>8, <2>9 DEF T
  <2>11. sum[s \ {y}] = f[x] + sum[(s \ {y}) \ {x}]
    BY <2>8, <2>9 DEF T
  <2>12. (s \ {x}) \ {y} = (s \ {y}) \ {x} /\ (s \ {x}) \ {y} \in SUBSET S
    BY <2>4
  <2>13. f[x] \in Int /\ f[y] \in Int /\ sum[(s \ {x}) \ {y}] \in Int
    BY <2>4, <2>12
  <2>14. \A a, b, c \in Int : a + (b + c) = b + (a + c)
    OBVIOUS
  <2>15. sum[s] = f[y] + (f[x] + sum[(s \ {x}) \ {y}])
    BY <2>6, <2>11, <2>12
  <2>16. sum[s] = f[x] + (f[y] + sum[(s \ {x}) \ {y}])
    BY <2>13, <2>14, <2>15
  <2> QED BY <2>3, <2>10, <2>16
<1> QED BY <1>1 DEF SumsOf

\* What SumFunction is.
LEMMA SumFunctionIs ==
  ASSUME NEW S, IsFiniteSet(S), NEW f \in [S -> Int]
  PROVE  \E sum : SumsOf(f, S, sum) /\ SumFunction(f) = sum[S]
<1>1. Cardinality(S) \in Nat /\ \A s \in SUBSET S : Cardinality(s) <= Cardinality(S)
  BY FS_CardinalityType, FS_Subset
<1>2. PICK g : SumsUpTo(f, S, Cardinality(S), g)
  BY <1>1, SumsExist
<1>3. SumRecursion(f, S, g)
  BY <1>1, <1>2 DEF SumsUpTo, SumRecursion
<1>4. PICK sum : sum = (CHOOSE h : SumRecursion(f, S, h))
  OBVIOUS
<1>5. SumRecursion(f, S, sum)
  BY <1>3, <1>4
<1>6. SumFunction(f) = sum[S]
  BY <1>4, SumUnfolds DEF SumFunction
<1>7. sum = g
  <2> DEFINE T == {s \in SUBSET S : sum[s] # g[s]}
  <2>1. T = {}
    <3> SUFFICES ASSUME T # {} PROVE FALSE
      OBVIOUS
    <3> HIDE DEF T
    <3>1. T \in SUBSET SUBSET S
      BY DEF T
    <3>2. PICK s \in T : \A t \in T : t \subseteq s => t = s
      BY <3>1, MinimalSubset
    <3>3. s \in SUBSET S /\ sum[s] # g[s]
      BY DEF T
    <3>4. s # {}
      BY <1>3, <1>5, <3>3 DEF SumRecursion
    <3>5. PICK x \in s : x = Chosen(s)
      BY <3>4 DEF Chosen
    <3>6. s \ {x} \in SUBSET S /\ s \ {x} \subseteq s /\ s \ {x} # s
      BY <3>3
    <3>7. sum[s \ {x}] = g[s \ {x}]
      BY <3>2, <3>6 DEF T
    <3>8. sum[s] = f[x] + sum[s \ {x}] /\ g[s] = f[x] + g[s \ {x}]
      BY <1>3, <1>5, <3>3, <3>4, <3>5 DEF SumRecursion
    <3> QED BY <3>3, <3>7, <3>8
  <2>2. sum = [s \in SUBSET S |-> sum[s]] /\ g = [s \in SUBSET S |-> g[s]]
    BY <1>3, <1>5 DEF SumRecursion
  <2> QED BY <2>1, <2>2
<1>8. SumsOf(f, S, g)
  <2>1. {} \in SUBSET S
    OBVIOUS
  <2>2. g[{}] = 0
    BY <1>3, <2>1 DEF SumRecursion
  <2>3. g \in [SUBSET S -> Int]
    BY <1>2 DEF SumsUpTo
  <2>4. \A s \in SUBSET S : s # {} => g[s] = f[Chosen(s)] + g[s \ {Chosen(s)}]
    BY <1>3 DEF SumRecursion
  <2> QED BY <2>2, <2>3, <2>4, AnyOrder
<1> QED BY <1>6, <1>7, <1>8

\* A sum of natural numbers is one.
LEMMA SumNat ==
  ASSUME NEW S, IsFiniteSet(S), NEW f \in [S -> Nat]
  PROVE  SumFunction(f) \in Nat
<1>1. f \in [S -> Int]
  OBVIOUS
<1>2. PICK sum : SumsOf(f, S, sum) /\ SumFunction(f) = sum[S]
  BY <1>1, SumFunctionIs
<1>0. sum[{}] \in Nat
  BY <1>2 DEF SumsOf
<1> DEFINE T == {s \in SUBSET S : sum[s] \notin Nat}
<1>3. T = {}
  <2> SUFFICES ASSUME T # {} PROVE FALSE
    OBVIOUS
  <2> HIDE DEF T
  <2>1. T \in SUBSET SUBSET S
    BY DEF T
  <2>2. PICK s \in T : \A t \in T : t \subseteq s => t = s
    BY <2>1, MinimalSubset
  <2>3. s \in SUBSET S /\ sum[s] \notin Nat
    BY DEF T
  <2>4. PICK x \in s : TRUE
    BY <1>0, <2>3
  <2>5. sum[s \ {x}] \in Nat
    BY <2>2, <2>3 DEF T
  <2>6. sum[s] = f[x] + sum[s \ {x}] /\ f[x] \in Nat
    BY <1>2, <2>3 DEF SumsOf
  <2> QED BY <2>3, <2>5, <2>6
<1>4. S \in SUBSET S
  OBVIOUS
<1> QED BY <1>2, <1>3, <1>4

\* A sum of zeros is zero.
LEMMA SumZero ==
  ASSUME NEW S, IsFiniteSet(S), NEW f \in [S -> Int], \A x \in S : f[x] = 0
  PROVE  SumFunction(f) = 0
<1>1. PICK sum : SumsOf(f, S, sum) /\ SumFunction(f) = sum[S]
  BY SumFunctionIs
<1> DEFINE T == {s \in SUBSET S : sum[s] # 0}
<1>2. T = {}
  <2> SUFFICES ASSUME T # {} PROVE FALSE
    OBVIOUS
  <2> HIDE DEF T
  <2>1. T \in SUBSET SUBSET S
    BY DEF T
  <2>2. PICK s \in T : \A t \in T : t \subseteq s => t = s
    BY <2>1, MinimalSubset
  <2>3. s \in SUBSET S /\ sum[s] # 0
    BY DEF T
  <2>4. PICK x \in s : TRUE
    BY <1>1, <2>3 DEF SumsOf
  <2>5. sum[s \ {x}] = 0
    BY <2>2, <2>3 DEF T
  <2>6. sum[s] = f[x] + sum[s \ {x}] /\ f[x] = 0
    BY <1>1, <2>3 DEF SumsOf
  <2> QED BY <2>3, <2>5, <2>6
<1>3. S \in SUBSET S
  OBVIOUS
<1> QED BY <1>1, <1>2, <1>3

\* Sums of functions that agree but for one element differ by its values.
LEMMA SumChange ==
  ASSUME NEW S, IsFiniteSet(S), NEW f \in [S -> Int], NEW g \in [S -> Int], NEW x \in S,
         \A y \in S \ {x} : g[y] = f[y]
  PROVE  SumFunction(g) = SumFunction(f) - f[x] + g[x]
<1>1. PICK sum : SumsOf(f, S, sum) /\ SumFunction(f) = sum[S]
  BY SumFunctionIs
<1>2. PICK new : SumsOf(g, S, new) /\ SumFunction(g) = new[S]
  BY SumFunctionIs
<1>0. sum[{}] = new[{}]
  BY <1>1, <1>2 DEF SumsOf
<1> DEFINE T == {s \in SUBSET (S \ {x}) : sum[s] # new[s]}
<1>3. T = {}
  <2> SUFFICES ASSUME T # {} PROVE FALSE
    OBVIOUS
  <2> HIDE DEF T
  <2>1. T \in SUBSET SUBSET S
    BY DEF T
  <2>2. PICK s \in T : \A t \in T : t \subseteq s => t = s
    BY <2>1, MinimalSubset
  <2>3. s \in SUBSET (S \ {x}) /\ s \in SUBSET S /\ sum[s] # new[s]
    BY DEF T
  <2>4. PICK y \in s : TRUE
    BY <1>0, <2>3
  <2>5. sum[s \ {y}] = new[s \ {y}]
    BY <2>2, <2>3 DEF T
  <2>6. sum[s] = f[y] + sum[s \ {y}] /\ new[s] = g[y] + new[s \ {y}] /\ f[y] = g[y]
    BY <1>1, <1>2, <2>3 DEF SumsOf
  <2> QED BY <2>3, <2>5, <2>6
<1>4. S \ {x} \in SUBSET S /\ S \in SUBSET S
  OBVIOUS
<1>5. sum[S \ {x}] = new[S \ {x}]
  BY <1>3
<1>6. sum[S] = f[x] + sum[S \ {x}] /\ new[S] = g[x] + new[S \ {x}]
  BY <1>1, <1>2, <1>4 DEF SumsOf
<1>7. f[x] \in Int /\ g[x] \in Int /\ sum[S \ {x}] \in Int
  BY <1>1, <1>4 DEF SumsOf
<1>8. SumFunction(f) = f[x] + sum[S \ {x}] /\ SumFunction(g) = g[x] + sum[S \ {x}]
  BY <1>1, <1>2, <1>5, <1>6
<1> HIDE <1>1, <1>2
<1> QED BY <1>7, <1>8

\* No natural summand exceeds the sum.
LEMMA SumAtLeast ==
  ASSUME NEW S, IsFiniteSet(S), NEW f \in [S -> Nat], NEW x \in S
  PROVE  f[x] <= SumFunction(f)
<1> DEFINE g == [f EXCEPT ![x] = 0]
<1>1. g \in [S -> Nat] /\ f \in [S -> Int] /\ g \in [S -> Int] /\ f[x] \in Nat
  OBVIOUS
<1>2. g[x] = 0 /\ \A y \in S \ {x} : g[y] = f[y]
  OBVIOUS
<1> HIDE DEF g
<1>3. SumFunction(g) = SumFunction(f) - f[x] + g[x]
  BY <1>1, <1>2, SumChange
<1>4. SumFunction(f) \in Nat /\ SumFunction(g) \in Nat
  BY <1>1, SumNat
<1> QED BY <1>1, <1>2, <1>3, <1>4

-----------------------------------------------------------------------------
(* Positions of a sequence. *)

Positions(s, T) == {i \in DOMAIN s : s[i] \in T}

\* How many elements of s are in T.
Count(s, T) == Cardinality(Positions(s, T))

LEMMA CountIsNatural ==
  ASSUME NEW S, NEW s \in Seq(S), NEW T
  PROVE  IsFiniteSet(Positions(s, T)) /\ Count(s, T) \in Nat
<1>1. Len(s) \in Nat /\ DOMAIN s = 1 .. Len(s)
  BY LenProperties
<1>2. IsFiniteSet(1 .. Len(s))
  BY <1>1, FS_Interval
<1>3. Positions(s, T) \in SUBSET (1 .. Len(s))
  BY <1>1 DEF Positions
<1>4. IsFiniteSet(Positions(s, T))
  BY <1>2, <1>3, FS_Subset
<1> QED BY <1>4, FS_CardinalityType DEF Count

LEMMA CountOfEmpty ==
  ASSUME NEW T
  PROVE  Count(<<>>, T) = 0
<1>1. Positions(<<>>, T) = {}
  BY DEF Positions
<1> QED BY <1>1, FS_EmptySet DEF Count

\* An element that is appended counts once.
LEMMA CountOfAppend ==
  ASSUME NEW S, NEW s \in Seq(S), NEW e \in S, NEW T
  PROVE  Count(Append(s, e), T) = Count(s, T) + (IF e \in T THEN 1 ELSE 0)
<1> DEFINE n == Len(s)
           t == Append(s, e)
<1>1. n \in Nat /\ DOMAIN s = 1 .. n
  BY LenProperties
<1>2. t \in Seq(S) /\ Len(t) = n + 1 /\ (\A i \in 1 .. n : t[i] = s[i]) /\ t[n + 1] = e
  BY AppendProperties
<1>3. DOMAIN t = 1 .. n + 1
  BY <1>2, LenProperties
<1> HIDE DEF n, t
<1>4. CASE e \in T
  <2>1. Positions(t, T) = Positions(s, T) \cup {n + 1}
    BY <1>1, <1>2, <1>3, <1>4 DEF Positions
  <2>2. n + 1 \notin Positions(s, T)
    BY <1>1 DEF Positions
  <2>3. Count(t, T) = Count(s, T) + 1
    BY <2>1, <2>2, CountIsNatural, FS_AddElement DEF Count
  <2> QED BY <1>4, <2>3 DEF t
<1>5. CASE e \notin T
  <2>1. Positions(t, T) = Positions(s, T)
    BY <1>1, <1>2, <1>3, <1>5 DEF Positions
  <2>2. Count(t, T) = Count(s, T) + 0
    BY <2>1, CountIsNatural DEF Count
  <2> QED BY <1>5, <2>2 DEF t
<1> QED BY <1>4, <1>5

\* Taking the first element of a queue takes its count.
LEMMA CountOfTail ==
  ASSUME NEW S, NEW s \in Seq(S), s # <<>>, NEW T
  PROVE  Count(Tail(s), T) = Count(s, T) - (IF Head(s) \in T THEN 1 ELSE 0)
<1> DEFINE n == Len(s)
           t == Tail(s)
<1>1. n \in Nat /\ n # 0 /\ DOMAIN s = 1 .. n
  BY LenProperties, EmptySeq
<1>2. t \in Seq(S) /\ Len(t) = n - 1 /\ (\A i \in 1 .. n - 1 : t[i] = s[i + 1]) /\ Head(s) = s[1]
  BY HeadTailProperties
<1>3. DOMAIN t = 1 .. n - 1
  BY <1>2, LenProperties
<1> HIDE DEF n, t
<1> DEFINE Rest == Positions(s, T) \ {1}
           Shift == [i \in Positions(t, T) |-> i + 1]
<1>4. Shift \in Bijection(Positions(t, T), Rest)
  <2>1. \A i \in Positions(t, T) : i \in 1 .. n - 1 /\ s[i + 1] \in T
    BY <1>2, <1>3 DEF Positions
  <2>2. Shift \in [Positions(t, T) -> Rest]
    BY <1>1, <2>1 DEF Positions
  <2>3. \A i, j \in Positions(t, T) : Shift[i] = Shift[j] => i = j
    BY <2>1
  <2>4. \A r \in Rest : \E i \in Positions(t, T) : Shift[i] = r
    <3> SUFFICES ASSUME NEW r \in Rest PROVE \E i \in Positions(t, T) : Shift[i] = r
      OBVIOUS
    <3>1. r \in 2 .. n /\ s[r] \in T
      BY <1>1 DEF Positions
    <3>2. r - 1 \in 1 .. n - 1 /\ (r - 1) + 1 = r
      BY <1>1, <3>1
    <3>3. r - 1 \in Positions(t, T)
      BY <1>2, <1>3, <3>1, <3>2 DEF Positions
    <3> QED BY <3>2, <3>3
  <2> QED BY <2>2, <2>3, <2>4 DEF Bijection, Injection, Surjection, IsInjective
<1>5. IsFiniteSet(Positions(s, T)) /\ IsFiniteSet(Positions(t, T))
  BY <1>2, CountIsNatural
<1>6. Cardinality(Rest) = Cardinality(Positions(t, T))
  BY <1>4, <1>5, FS_Bijection DEF ExistsBijection
<1>7. Cardinality(Rest) = IF 1 \in Positions(s, T) THEN Count(s, T) - 1 ELSE Count(s, T)
  BY <1>5, FS_RemoveElement DEF Count
<1>8. 1 \in Positions(s, T) <=> Head(s) \in T
  BY <1>1, <1>2 DEF Positions
<1>9. Count(s, T) \in Nat
  BY CountIsNatural
<1> QED BY <1>6, <1>7, <1>8, <1>9 DEF Count, t

\* n copies of e appended count n times.
LEMMA CountOfCopies ==
  ASSUME NEW S, NEW s \in Seq(S), NEW e \in S, NEW n \in Nat, NEW T
  PROVE  Count(s \o [i \in 1 .. n |-> e], T) = Count(s, T) + (IF e \in T THEN n ELSE 0)
<1> DEFINE l == Len(s)
           c == [i \in 1 .. n |-> e]
           t == s \o c
<1>1. l \in Nat /\ DOMAIN s = 1 .. l
  BY LenProperties
<1>2. c \in Seq(S) /\ Len(c) = n
  OBVIOUS
<1>3. /\ t \in Seq(S) /\ Len(t) = l + n
      /\ \A i \in 1 .. l + n : t[i] = IF i <= l THEN s[i] ELSE c[i - l]
  <2> HIDE DEF c
  <2> QED BY <1>2, ConcatProperties
<1>4. DOMAIN t = 1 .. l + n
  BY <1>3, LenProperties
<1>5. \A i \in l + 1 .. l + n : t[i] = e
  BY <1>1, <1>3
<1>6. \A i \in 1 .. l : t[i] = s[i]
  BY <1>1, <1>3
<1> HIDE DEF l, t
<1>7. CASE e \in T
  <2> DEFINE Added == l + 1 .. l + n
  <2>1. Positions(t, T) = Positions(s, T) \cup Added
    BY <1>1, <1>4, <1>5, <1>6, <1>7 DEF Positions
  <2>2. Positions(s, T) \cap Added = {}
    BY <1>1 DEF Positions
  <2>3. IsFiniteSet(Added) /\ Cardinality(Added) = n
    BY <1>1, FS_Interval
  <2>4. IsFiniteSet(Positions(s, T)) /\ Count(s, T) \in Nat
    BY CountIsNatural
  <2> HIDE DEF Added
  <2>5. Cardinality(Positions(s, T) \cup Added)
          = Cardinality(Positions(s, T)) + Cardinality(Added) - Cardinality(Positions(s, T) \cap Added)
    BY <2>3, <2>4, FS_Union
  <2>6. Cardinality(Positions(s, T) \cap Added) = 0
    BY <2>2, FS_EmptySet
  <2>7. Count(t, T) = Count(s, T) + n
    BY <2>1, <2>3, <2>4, <2>5, <2>6 DEF Count
  <2> QED BY <1>7, <2>7 DEF t
<1>8. CASE e \notin T
  <2>1. Positions(t, T) = Positions(s, T)
    BY <1>1, <1>4, <1>5, <1>6, <1>8 DEF Positions
  <2>2. Count(t, T) = Count(s, T) + 0
    BY <2>1, CountIsNatural DEF Count
  <2> QED BY <1>8, <2>2 DEF t
<1> QED BY <1>7, <1>8

-----------------------------------------------------------------------------
(* Members of a set that are in a state. *)

\* The elements of S whose value is in T.
Members(f, S, T) == {x \in S : f[x] \in T}

LEMMA MembersFinite ==
  ASSUME NEW S, IsFiniteSet(S), NEW f, NEW T
  PROVE  IsFiniteSet(Members(f, S, T)) /\ Cardinality(Members(f, S, T)) \in Nat
<1>1. Members(f, S, T) \in SUBSET S
  BY DEF Members
<1>2. IsFiniteSet(Members(f, S, T))
  BY <1>1, FS_Subset
<1> QED BY <1>2, FS_CardinalityType

\* One value that changes leaves T, enters it, or neither.
LEMMA MembersChange ==
  ASSUME NEW S, IsFiniteSet(S), NEW f, NEW g, NEW T, NEW x \in S,
         \A y \in S \ {x} : g[y] = f[y]
  PROVE  Cardinality(Members(g, S, T)) =
           Cardinality(Members(f, S, T)) - (IF f[x] \in T THEN 1 ELSE 0) + (IF g[x] \in T THEN 1 ELSE 0)
<1>1. Members(f, S, T) \ {x} = Members(g, S, T) \ {x}
  BY DEF Members
<1>2. (x \in Members(f, S, T) <=> f[x] \in T) /\ (x \in Members(g, S, T) <=> g[x] \in T)
  BY DEF Members
<1>3. PICK m : m = Members(f, S, T)
  OBVIOUS
<1>4. PICK l : l = Members(g, S, T)
  OBVIOUS
<1>5. IsFiniteSet(m) /\ Cardinality(m) \in Nat /\ IsFiniteSet(l) /\ Cardinality(l) \in Nat
  BY <1>3, <1>4, MembersFinite
<1>6. Cardinality(m \ {x}) = IF x \in m THEN Cardinality(m) - 1 ELSE Cardinality(m)
  BY <1>5, FS_RemoveElement
<1>7. Cardinality(l \ {x}) = IF x \in l THEN Cardinality(l) - 1 ELSE Cardinality(l)
  BY <1>5, FS_RemoveElement
<1>8. m \ {x} = l \ {x}
  BY <1>1, <1>3, <1>4
<1>9. (x \in m <=> f[x] \in T) /\ (x \in l <=> g[x] \in T)
  BY <1>2, <1>3, <1>4
<1>10. Cardinality(l) = Cardinality(m) - (IF x \in m THEN 1 ELSE 0) + (IF x \in l THEN 1 ELSE 0)
  BY <1>5, <1>6, <1>7, <1>8
<1> QED BY <1>3, <1>4, <1>9, <1>10

-----------------------------------------------------------------------------
(* Recursion over 1 .. n. *)

\* What holds at 0 and goes on from each number to the next holds up to n.
LEMMA UpTo ==
  ASSUME NEW n \in Nat, NEW T, 0 \in T, \A i \in 1 .. n : i - 1 \in T => i \in T
  PROVE  \A i \in 0 .. n : i \in T
<1> DEFINE Bad == {i \in 0 .. n : i \notin T}
<1> SUFFICES ASSUME Bad # {} PROVE FALSE
  OBVIOUS
<1>1. Bad \in SUBSET Nat
  OBVIOUS
<1>2. PICK m \in Bad : \A l \in Bad : m <= l
  <2> HIDE DEF Bad
  <2> QED BY <1>1, LeastNatural
<1>3. m \in 1 .. n /\ m - 1 \in 0 .. n /\ m - 1 \notin Bad
  BY <1>2
<1>4. m - 1 \in T
  BY <1>3
<1> QED BY <1>2, <1>3, <1>4

\* f solves the recursion that starts at base and goes on by step.
Recursion(n, V, base, step, f) ==
  f \in [0 .. n -> V] /\ f[0] = base /\ \A i \in 1 .. n : f[i] = step[i][f[i - 1]]

\* A recursion whose step stays in V has a solution.
LEMMA RecursionExists ==
  ASSUME NEW n \in Nat, NEW V, NEW base \in V, NEW step \in [1 .. n -> [V -> V]]
  PROVE  \E f : Recursion(n, V, base, step, f)
<1> DEFINE Solves(f, m) == f \in [0 .. n -> V] /\ f[0] = base /\ \A i \in 1 .. m : f[i] = step[i][f[i - 1]]
           T == {m \in 0 .. n : \E f : Solves(f, m)}
<1>1. 0 \in T
  <2>1. Solves([i \in 0 .. n |-> base], 0)
    OBVIOUS
  <2> HIDE DEF Solves
  <2> QED BY <2>1
<1>2. ASSUME NEW m \in 1 .. n, m - 1 \in T PROVE m \in T
  <2>1. PICK f : Solves(f, m - 1)
    BY <1>2
  <2>2. m - 1 \in 0 .. n /\ f[m - 1] \in V
    BY <2>1
  <2>3. PICK v \in V : v = step[m][f[m - 1]]
    BY <2>2
  <2> DEFINE g == [f EXCEPT ![m] = v]
  <2>4. g \in [0 .. n -> V] /\ g[0] = base /\ g[m] = v
    BY <2>1
  <2>5. \A i \in 1 .. m : g[i - 1] = f[i - 1]
    BY <2>1
  <2>6. \A i \in 1 .. m - 1 : g[i] = f[i]
    BY <2>1
  <2>7. \A i \in 1 .. m : g[i] = step[i][g[i - 1]]
    BY <2>1, <2>3, <2>4, <2>5, <2>6
  <2>8. Solves(g, m)
    BY <2>4, <2>7
  <2> HIDE DEF Solves
  <2> QED BY <2>8
<1> HIDE DEF Solves, T
<1>3. n \in T
  <2>1. \A m \in 1 .. n : m - 1 \in T => m \in T
    BY <1>2
  <2>2. \A m \in 0 .. n : m \in T
    BY <1>1, <2>1, UpTo
  <2> QED BY <2>2
<1>4. PICK f : Solves(f, n)
  BY <1>3 DEF T
<1>5. Recursion(n, V, base, step, f)
  BY <1>4 DEF Solves, Recursion
<1> QED BY <1>5

-----------------------------------------------------------------------------
(* Lists. *)

\* A sequence has at most as many different elements as it is long, and as many when
\* none comes twice.
LEMMA RangeOfSequence ==
  ASSUME NEW S, NEW s \in Seq(S)
  PROVE  /\ Range(s) \subseteq S /\ IsFiniteSet(Range(s)) /\ Cardinality(Range(s)) \in Nat
         /\ Cardinality(Range(s)) <= Len(s)
         /\ (\A i, j \in DOMAIN s : s[i] = s[j] => i = j) => Cardinality(Range(s)) = Len(s)
<1>1. DOMAIN s = 1 .. Len(s) /\ Len(s) \in Nat /\ s \in [1 .. Len(s) -> S]
  OBVIOUS
<1>2. IsFiniteSet(DOMAIN s) /\ Cardinality(DOMAIN s) = Len(s)
  BY <1>1, FS_Interval
<1>3. s \in Surjection(DOMAIN s, Range(s))
  BY <1>1 DEF Surjection, Range
<1>4. /\ IsFiniteSet(Range(s)) /\ Cardinality(Range(s)) <= Cardinality(DOMAIN s)
      /\ Cardinality(Range(s)) = Cardinality(DOMAIN s) <=> s \in Injection(DOMAIN s, Range(s))
  BY <1>2, <1>3, FS_Surjection
<1>5. (\A i, j \in DOMAIN s : s[i] = s[j] => i = j) => s \in Injection(DOMAIN s, Range(s))
  BY <1>1 DEF Injection, IsInjective, Range
<1>6. Range(s) \subseteq S
  BY <1>1 DEF Range
<1> QED BY <1>2, <1>4, <1>5, <1>6, FS_CardinalityType

\* before puts one of any two different elements of S first, and is transitive.
Orders(before, S) ==
  /\ \A x \in S : <<x, x>> \notin before
  /\ \A x, y, z \in S : <<x, y>> \in before /\ <<y, z>> \in before => <<x, z>> \in before
  /\ \A x, y \in S : x # y => <<x, y>> \in before \/ <<y, x>> \in before

\* Ordered, a set is the list of its elements, each once.
LEMMA InOrderLists ==
  ASSUME NEW S, IsFiniteSet(S), NEW before, Orders(before, S)
  PROVE  /\ InOrder(S, before) \in [1 .. Cardinality(S) -> S]
         /\ InOrder(S, before) \in Seq(S) /\ Len(InOrder(S, before)) = Cardinality(S)
         /\ \A x \in S : \E i \in 1 .. Cardinality(S) : InOrder(S, before)[i] = x
         /\ \A i, j \in 1 .. Cardinality(S) : InOrder(S, before)[i] = InOrder(S, before)[j] => i = j
<1> DEFINE below(x) == {y \in S : <<y, x>> \in before}
           rank == [x \in S |-> Cardinality(below(x)) + 1]
           n == Cardinality(S)
<1>1. n \in Nat
  BY FS_CardinalityType
<1>2. ASSUME NEW x \in S
      PROVE  IsFiniteSet(below(x)) /\ Cardinality(below(x)) \in Nat /\ Cardinality(below(x)) < n
  <2>1. IsFiniteSet(below(x)) /\ Cardinality(below(x)) \in Nat
    BY FS_Subset, FS_CardinalityType
  <2>2. x \notin below(x)
    BY DEF Orders
  <2>3. below(x) \in SUBSET (S \ {x}) /\ IsFiniteSet(S \ {x})
    BY <2>2, FS_RemoveElement
  <2>4. Cardinality(below(x)) <= Cardinality(S \ {x})
    BY <2>3, FS_Subset
  <2>5. Cardinality(S \ {x}) = n - 1
    BY FS_RemoveElement
  <2> QED BY <1>1, <2>1, <2>4, <2>5
<1>3. ASSUME NEW x \in S, NEW y \in S, <<x, y>> \in before
      PROVE  Cardinality(below(x)) < Cardinality(below(y))
  <2>1. below(x) \in SUBSET below(y) /\ x \in below(y) /\ x \notin below(x)
    BY <1>3 DEF Orders
  <2>2. IsFiniteSet(below(y)) /\ below(x) # below(y)
    BY <1>2, <2>1
  <2>3. Cardinality(below(x)) <= Cardinality(below(y))
        /\ (Cardinality(below(x)) = Cardinality(below(y)) => below(x) = below(y))
    BY <2>1, <2>2, FS_Subset
  <2>4. Cardinality(below(x)) \in Nat /\ Cardinality(below(y)) \in Nat
    BY <1>1, <1>2
  <2> QED BY <2>2, <2>3, <2>4
<1>4. \A x, y \in S : rank[x] = rank[y] => x = y
  <2> SUFFICES ASSUME NEW x \in S, NEW y \in S, x # y PROVE rank[x] # rank[y]
    OBVIOUS
  <2>1. Cardinality(below(x)) \in Nat /\ Cardinality(below(y)) \in Nat
    BY <1>1, <1>2
  <2>2. <<x, y>> \in before \/ <<y, x>> \in before
    BY DEF Orders
  <2>3. Cardinality(below(x)) # Cardinality(below(y))
    BY <1>3, <2>1, <2>2
  <2> HIDE DEF below
  <2> QED BY <2>1, <2>3
<1>5. rank \in [S -> 1 .. n]
  BY <1>1, <1>2
<1>6. rank \in Injection(S, 1 .. n)
  <2> HIDE DEF rank, n
  <2> QED BY <1>4, <1>5 DEF Injection, IsInjective
<1>7. \A i \in 1 .. n : \E x \in S : rank[x] = i
  <2>1. IsFiniteSet(1 .. n) /\ Cardinality(1 .. n) = n
    BY <1>1, FS_Interval
  <2>2. rank \in Surjection(S, 1 .. n)
    <3> HIDE DEF rank
    <3> QED BY <1>6, <2>1, FS_Injection
  <2> HIDE DEF rank, n
  <2> QED BY <2>2 DEF Surjection
<1>8. PICK list : list = InOrder(S, before)
  OBVIOUS
<1>9. list = [i \in 1 .. n |-> CHOOSE x \in S : Cardinality(below(x)) = i - 1]
  BY <1>8 DEF InOrder
<1>10. \A i \in 1 .. n : list[i] \in S /\ rank[list[i]] = i
  <2> SUFFICES ASSUME NEW i \in 1 .. n PROVE list[i] \in S /\ rank[list[i]] = i
    OBVIOUS
  <2>1. PICK x \in S : rank[x] = i
    BY <1>7
  <2>2. Cardinality(below(x)) = i - 1
    BY <1>2, <2>1
  <2>3. list[i] = CHOOSE y \in S : Cardinality(below(y)) = i - 1
    BY <1>9
  <2>4. list[i] \in S /\ Cardinality(below(list[i])) = i - 1
    BY <2>2, <2>3
  <2> QED BY <2>4
<1>11. list \in [1 .. n -> S]
  BY <1>9, <1>10
<1>12. \A x \in S : rank[x] \in 1 .. n /\ list[rank[x]] = x
  <2> SUFFICES ASSUME NEW x \in S PROVE rank[x] \in 1 .. n /\ list[rank[x]] = x
    OBVIOUS
  <2>1. rank[x] \in 1 .. n
    BY <1>5
  <2> HIDE DEF rank
  <2>2. list[rank[x]] \in S /\ rank[list[rank[x]]] = rank[x]
    BY <1>10, <2>1
  <2> QED BY <1>4, <2>1, <2>2
<1>13. \A i, j \in 1 .. n : list[i] = list[j] => i = j
  <2> HIDE DEF rank
  <2> QED BY <1>10
<1>14. list \in Seq(S) /\ Len(list) = n
  <2> HIDE DEF n
  <2> QED BY <1>1, <1>11
<1> HIDE DEF rank, below
<1> QED BY <1>8, <1>11, <1>12, <1>13, <1>14

\* No element comes twice.
Distinct(s) == \A i, j \in DOMAIN s : s[i] = s[j] => i = j

LEMMA RangeOfAppend ==
  ASSUME NEW S, NEW s \in Seq(S), NEW e \in S
  PROVE  /\ Range(Append(s, e)) = Range(s) \cup {e}
         /\ Distinct(s) /\ e \notin Range(s) => Distinct(Append(s, e))
<1> DEFINE t == Append(s, e)
           n == Len(s)
<1>1. n \in Nat /\ DOMAIN s = 1 .. n /\ DOMAIN t = 1 .. n + 1 /\ t[n + 1] = e /\ \A i \in 1 .. n : t[i] = s[i]
  BY AppendProperties
<1> HIDE DEF t, n
<1>2. Range(t) = Range(s) \cup {e}
  <2>1. n + 1 \in DOMAIN t /\ \A i \in DOMAIN t : i \in DOMAIN s \/ i = n + 1
    BY <1>1
  <2>2. \A i \in DOMAIN s : i \in DOMAIN t
    BY <1>1
  <2> QED BY <1>1, <2>1, <2>2 DEF Range
<1>3. ASSUME Distinct(s), e \notin Range(s), NEW i \in DOMAIN t, NEW j \in DOMAIN t, t[i] = t[j] PROVE i = j
  <2>1. \A k \in 1 .. n : s[k] # e
    BY <1>1, <1>3 DEF Range
  <2>2. \A k, l \in 1 .. n : s[k] = s[l] => k = l
    BY <1>1, <1>3 DEF Distinct
  <2> QED BY <1>1, <1>3, <2>1, <2>2
<1> QED BY <1>2, <1>3 DEF Distinct, t

\* The recursion of Without.
LEMMA WithoutUnfolds ==
  ASSUME NEW S, NEW s \in Seq(S), NEW T
  PROVE  \E kept : /\ kept[0] = <<>>
                   /\ \A i \in 1 .. Len(s) :
                        kept[i] = IF s[i] \in T THEN kept[i - 1] ELSE Append(kept[i - 1], s[i])
                   /\ Without(s, T) = kept[Len(s)]
<1>1. PICK n \in Nat : n = Len(s)
  OBVIOUS
<1>2. \A i \in 1 .. n : s[i] \in S
  BY <1>1
<1> DEFINE Solves(kept) ==
             kept = [i \in 0 .. n |-> IF i = 0 THEN <<>>
                                      ELSE IF s[i] \in T THEN kept[i - 1] ELSE Append(kept[i - 1], s[i])]
           step == [i \in 1 .. n |-> [v \in Seq(S) |-> IF s[i] \in T THEN v ELSE Append(v, s[i])]]
<1>3. step \in [1 .. n -> [Seq(S) -> Seq(S)]]
  BY <1>2, AppendProperties
<1>4. PICK f : Recursion(n, Seq(S), <<>>, step, f)
  <2>1. <<>> \in Seq(S)
    BY EmptySeq
  <2> HIDE DEF step
  <2> QED BY <1>3, <2>1, RecursionExists
<1>5. f \in [0 .. n -> Seq(S)] /\ f[0] = <<>> /\ \A i \in 1 .. n : f[i] = step[i][f[i - 1]]
  <2> HIDE DEF step
  <2> QED BY <1>4 DEF Recursion
<1>6. \A i \in 1 .. n : f[i] = IF s[i] \in T THEN f[i - 1] ELSE Append(f[i - 1], s[i])
  <2> SUFFICES ASSUME NEW i \in 1 .. n PROVE f[i] = IF s[i] \in T THEN f[i - 1] ELSE Append(f[i - 1], s[i])
    OBVIOUS
  <2>1. i - 1 \in 0 .. n
    OBVIOUS
  <2>2. PICK v \in Seq(S) : v = f[i - 1]
    BY <1>5, <2>1
  <2>3. f[i] = step[i][v]
    <3> HIDE DEF step
    <3> QED BY <1>5, <2>2
  <2>4. step[i] = [w \in Seq(S) |-> IF s[i] \in T THEN w ELSE Append(w, s[i])]
    OBVIOUS
  <2> HIDE DEF step
  <2>5. step[i][v] = IF s[i] \in T THEN v ELSE Append(v, s[i])
    BY <2>4
  <2> QED BY <2>2, <2>3, <2>5
<1> HIDE DEF step
<1>7. Solves(f)
  <2>1. \A i \in 0 .. n : f[i] = IF i = 0 THEN <<>> ELSE IF s[i] \in T THEN f[i - 1] ELSE Append(f[i - 1], s[i])
    <3> SUFFICES ASSUME NEW i \in 0 .. n
                 PROVE  f[i] = IF i = 0 THEN <<>> ELSE IF s[i] \in T THEN f[i - 1] ELSE Append(f[i - 1], s[i])
      OBVIOUS
    <3>1. CASE i = 0
      BY <1>5, <3>1
    <3>2. CASE i # 0
      <4>1. i \in 1 .. n
        BY <3>2
      <4> QED BY <1>6, <3>2, <4>1
    <3> QED BY <3>1, <3>2
  <2> QED BY <1>5, <2>1
<1>8. PICK kept : kept = CHOOSE g : Solves(g)
  OBVIOUS
<1>9. Solves(kept)
  <2> HIDE DEF Solves
  <2> QED BY <1>7, <1>8
<1>10. Without(s, T) = kept[n]
  BY <1>1, <1>8 DEF Without
<1>11. kept[0] = <<>>
  BY <1>9
<1>12. \A i \in 1 .. n : kept[i] = IF s[i] \in T THEN kept[i - 1] ELSE Append(kept[i - 1], s[i])
  <2> SUFFICES ASSUME NEW i \in 1 .. n
               PROVE  kept[i] = IF s[i] \in T THEN kept[i - 1] ELSE Append(kept[i - 1], s[i])
    OBVIOUS
  <2>1. i \in 0 .. n /\ i # 0
    OBVIOUS
  <2>2. kept[i] = IF i = 0 THEN <<>> ELSE IF s[i] \in T THEN kept[i - 1] ELSE Append(kept[i - 1], s[i])
    BY <1>9, <2>1
  <2> QED BY <2>1, <2>2
<1> QED BY <1>1, <1>10, <1>11, <1>12

\* What Without leaves is exactly what is not in T, each as often as before.
LEMMA WithoutLeaves ==
  ASSUME NEW S, NEW s \in Seq(S), NEW T
  PROVE  /\ Without(s, T) \in Seq(S) /\ Len(Without(s, T)) <= Len(s)
         /\ Range(Without(s, T)) = Range(s) \ T
         /\ Distinct(s) => Distinct(Without(s, T))
<1>1. PICK n \in Nat : n = Len(s)
  OBVIOUS
<1>2. \A i \in 1 .. n : s[i] \in S
  BY <1>1
<1>3. PICK kept : /\ kept[0] = <<>>
                  /\ \A i \in 1 .. n : kept[i] = IF s[i] \in T THEN kept[i - 1] ELSE Append(kept[i - 1], s[i])
                  /\ Without(s, T) = kept[n]
  BY <1>1, WithoutUnfolds
<1> DEFINE first(i) == {s[j] : j \in 1 .. i}
           Good(i) == /\ kept[i] \in Seq(S) /\ Len(kept[i]) <= i
                      /\ Range(kept[i]) = first(i) \ T
                      /\ Distinct(s) => Distinct(kept[i])
<1>4. Good(0)
  <2>1. <<>> \in Seq(S) /\ Len(<<>>) = 0 /\ DOMAIN <<>> = {}
    BY EmptySeq
  <2>2. first(0) = {}
    OBVIOUS
  <2> QED BY <1>3, <2>1, <2>2 DEF Range, Distinct
<1>5. ASSUME NEW i \in 1 .. n, Good(i - 1) PROVE Good(i)
  <2>1. PICK q \in Seq(S) : q = kept[i - 1] /\ Len(q) <= i - 1 /\ Range(q) = first(i - 1) \ T /\ (Distinct(s) => Distinct(q))
    BY <1>5
  <2>2. first(i) = first(i - 1) \cup {s[i]}
    <3>1. \A j \in 1 .. i : j \in 1 .. i - 1 \/ j = i
      OBVIOUS
    <3>2. i \in 1 .. i /\ 1 .. i - 1 \subseteq 1 .. i
      OBVIOUS
    <3> QED BY <3>1, <3>2
  <2>3. CASE s[i] \in T
    <3>1. kept[i] = q
      BY <1>3, <2>1, <2>3
    <3>2. first(i) \ T = first(i - 1) \ T
      BY <2>2, <2>3
    <3>3. Len(q) \in Nat
      BY <2>1
    <3>4. Len(q) <= i
      BY <2>1, <3>3
    <3> HIDE DEF first
    <3> QED BY <2>1, <3>1, <3>2, <3>4
  <2>4. CASE s[i] \notin T
    <3>1. kept[i] = Append(q, s[i])
      BY <1>3, <2>1, <2>4
    <3>2. s[i] \in S
      BY <1>2
    <3>3. Append(q, s[i]) \in Seq(S) /\ Len(Append(q, s[i])) = Len(q) + 1
      BY <2>1, <3>2, AppendProperties
    <3>4. Range(Append(q, s[i])) = Range(q) \cup {s[i]}
      BY <2>1, <3>2, RangeOfAppend
    <3>5. Range(Append(q, s[i])) = first(i) \ T
      BY <2>1, <2>2, <2>4, <3>4
    <3>6. ASSUME Distinct(s) PROVE Distinct(Append(q, s[i]))
      <4>1. s[i] \notin Range(q)
        <5>1. \A j \in 1 .. i - 1 : s[j] # s[i]
          <6> SUFFICES ASSUME NEW j \in 1 .. i - 1, s[j] = s[i] PROVE FALSE
            OBVIOUS
          <6>1. j \in DOMAIN s /\ i \in DOMAIN s /\ j # i
            BY <1>1
          <6> QED BY <3>6, <6>1 DEF Distinct
        <5> QED BY <2>1, <5>1
      <4> QED BY <2>1, <3>2, <3>6, <4>1, RangeOfAppend
    <3>7. Len(Append(q, s[i])) <= i
      BY <2>1, <3>3
    <3> HIDE DEF first
    <3> QED BY <3>1, <3>3, <3>5, <3>6, <3>7
  <2> QED BY <2>3, <2>4
<1>6. Good(n)
  <2> DEFINE G == {i \in 0 .. n : Good(i)}
  <2> HIDE DEF Good
  <2>1. 0 \in G
    BY <1>4
  <2>2. \A i \in 1 .. n : i - 1 \in G => i \in G
    BY <1>5
  <2> HIDE DEF G
  <2>3. \A i \in 0 .. n : i \in G
    BY <2>1, <2>2, UpTo
  <2> QED BY <2>3 DEF G
<1>7. first(n) = Range(s)
  BY <1>1 DEF Range
<1> QED BY <1>1, <1>3, <1>6, <1>7

\* What leaves is missed.
LEMMA WithoutShortens ==
  ASSUME NEW S, NEW s \in Seq(S), NEW T, NEW k \in DOMAIN s, s[k] \in T
  PROVE  Len(Without(s, T)) < Len(s)
<1>1. PICK n \in Nat : n = Len(s) /\ k \in 1 .. n
  OBVIOUS
<1>2. \A i \in 1 .. n : s[i] \in S
  BY <1>1
<1>3. PICK kept : /\ kept[0] = <<>>
                  /\ \A i \in 1 .. n : kept[i] = IF s[i] \in T THEN kept[i - 1] ELSE Append(kept[i - 1], s[i])
                  /\ Without(s, T) = kept[n]
  BY <1>1, WithoutUnfolds
<1> DEFINE Good(i) == kept[i] \in Seq(S) /\ Len(kept[i]) <= i /\ (k <= i => Len(kept[i]) < i)
<1>4. Good(0)
  <2>1. <<>> \in Seq(S) /\ Len(<<>>) = 0
    BY EmptySeq
  <2> QED BY <1>1, <1>3, <2>1
<1>5. ASSUME NEW i \in 1 .. n, Good(i - 1) PROVE Good(i)
  <2>1. PICK q \in Seq(S) : q = kept[i - 1] /\ Len(q) <= i - 1 /\ (k <= i - 1 => Len(q) < i - 1)
    BY <1>5
  <2>2. Len(q) \in Nat
    BY <2>1
  <2>3. CASE s[i] \in T
    <3>1. kept[i] = q
      BY <1>3, <2>1, <2>3
    <3>2. Len(q) <= i /\ (k <= i => Len(q) < i)
      BY <2>1, <2>2
    <3> QED BY <2>1, <3>1, <3>2
  <2>4. CASE s[i] \notin T
    <3>1. kept[i] = Append(q, s[i])
      BY <1>3, <2>1, <2>4
    <3>2. Append(q, s[i]) \in Seq(S) /\ Len(Append(q, s[i])) = Len(q) + 1
      BY <1>2, <2>1, AppendProperties
    <3>3. k # i
      BY <2>4
    <3>4. Len(q) + 1 <= i /\ (k <= i => Len(q) + 1 < i)
      BY <1>1, <2>1, <2>2, <3>3
    <3> QED BY <3>1, <3>2, <3>4
  <2> QED BY <2>3, <2>4
<1>6. Good(n)
  <2> DEFINE G == {i \in 0 .. n : Good(i)}
  <2> HIDE DEF Good
  <2>1. 0 \in G
    BY <1>4
  <2>2. \A i \in 1 .. n : i - 1 \in G => i \in G
    BY <1>5
  <2> HIDE DEF G
  <2>3. \A i \in 0 .. n : i \in G
    BY <2>1, <2>2, UpTo
  <2> QED BY <2>3 DEF G
<1> QED BY <1>1, <1>3, <1>6

-----------------------------------------------------------------------------
(* Sums of bounded values. *)

\* n values of at most M make at most n times M.
LEMMA SumAtMost ==
  ASSUME NEW S, IsFiniteSet(S), NEW f \in [S -> Int], NEW M \in Nat, \A x \in S : f[x] <= M
  PROVE  SumFunction(f) <= Cardinality(S) * M
<1>1. PICK n \in Nat : n = Cardinality(S)
  BY FS_CardinalityType
<1>2. PICK sum : SumsOf(f, S, sum) /\ SumFunction(f) = sum[S]
  BY SumFunctionIs
<1>3. sum \in [SUBSET S -> Int] /\ sum[{}] = 0 /\ \A s \in SUBSET S : \A x \in s : sum[s] = f[x] + sum[s \ {x}]
  BY <1>2 DEF SumsOf
<1> DEFINE T == {k \in 0 .. n : \A s \in SUBSET S : Cardinality(s) = k => sum[s] <= k * M}
<1>4. 0 \in T
  <2>1. \A s \in SUBSET S : Cardinality(s) = 0 => s = {}
    BY FS_Subset, FS_EmptySet
  <2> QED BY <1>3, <2>1
<1>5. ASSUME NEW k \in 1 .. n, k - 1 \in T PROVE k \in T
  <2> SUFFICES ASSUME NEW s \in SUBSET S, Cardinality(s) = k PROVE sum[s] <= k * M
    OBVIOUS
  <2>1. IsFiniteSet(s)
    BY FS_Subset
  <2>2. s # {}
    BY FS_EmptySet
  <2>3. PICK x \in s : TRUE
    BY <2>2
  <2>4. Cardinality(s \ {x}) = k - 1
    BY <2>1, FS_RemoveElement
  <2>5. s \ {x} \in SUBSET S /\ x \in S
    OBVIOUS
  <2>6. sum[s \ {x}] <= (k - 1) * M
    BY <1>5, <2>4, <2>5
  <2>7. sum[s] = f[x] + sum[s \ {x}] /\ f[x] <= M
    BY <1>3, <2>5
  <2>8. f[x] \in Int /\ sum[s \ {x}] \in Int /\ sum[s] \in Int /\ k * M \in Int /\ (k - 1) * M \in Int
    BY <1>3, <2>5
  <2>9. (k - 1) * M + M = k * M
    OBVIOUS
  <2> HIDE DEF T
  <2> QED BY <2>6, <2>7, <2>8, <2>9
<1>6. \A k \in 0 .. n : k \in T
  <2> HIDE DEF T
  <2> QED BY <1>4, <1>5, UpTo
<1>7. n \in T
  <2>1. n \in 0 .. n
    OBVIOUS
  <2> HIDE DEF T
  <2> QED BY <1>6, <2>1
<1> QED BY <1>1, <1>2, <1>7

\* The sum of a function's sums with another is the sum of theirs.
LEMMA SumAdds ==
  ASSUME NEW S, IsFiniteSet(S), NEW f \in [S -> Int], NEW g \in [S -> Int], NEW h \in [S -> Int],
         \A x \in S : h[x] = f[x] + g[x]
  PROVE  SumFunction(h) = SumFunction(f) + SumFunction(g)
<1>1. PICK fs : SumsOf(f, S, fs) /\ SumFunction(f) = fs[S]
  BY SumFunctionIs
<1>2. PICK gs : SumsOf(g, S, gs) /\ SumFunction(g) = gs[S]
  BY SumFunctionIs
<1>3. PICK hs : SumsOf(h, S, hs) /\ SumFunction(h) = hs[S]
  BY SumFunctionIs
<1>4. hs[{}] = fs[{}] + gs[{}]
  BY <1>1, <1>2, <1>3 DEF SumsOf
<1>5. \A s \in SUBSET S : fs[s] \in Int /\ gs[s] \in Int /\ hs[s] \in Int
  BY <1>1, <1>2, <1>3 DEF SumsOf
<1> DEFINE T == {s \in SUBSET S : hs[s] # fs[s] + gs[s]}
<1>6. T = {}
  <2> SUFFICES ASSUME T # {} PROVE FALSE
    OBVIOUS
  <2> HIDE DEF T
  <2>1. T \in SUBSET SUBSET S
    BY DEF T
  <2>2. PICK s \in T : \A t \in T : t \subseteq s => t = s
    BY <2>1, MinimalSubset
  <2>3. s \in SUBSET S /\ hs[s] # fs[s] + gs[s]
    BY DEF T
  <2>4. PICK x \in s : TRUE
    BY <1>4, <2>3
  <2>5. hs[s \ {x}] = fs[s \ {x}] + gs[s \ {x}]
    BY <2>2, <2>3 DEF T
  <2>6. /\ fs[s] = f[x] + fs[s \ {x}] /\ gs[s] = g[x] + gs[s \ {x}] /\ hs[s] = h[x] + hs[s \ {x}]
        /\ h[x] = f[x] + g[x] /\ f[x] \in Int /\ g[x] \in Int
    BY <1>1, <1>2, <1>3, <2>3 DEF SumsOf
  <2>7. s \ {x} \in SUBSET S
    BY <2>3
  <2> HIDE <1>1, <1>2, <1>3
  <2> QED BY <1>5, <2>3, <2>5, <2>6, <2>7
<1>7. S \in SUBSET S
  OBVIOUS
<1> QED BY <1>1, <1>2, <1>3, <1>6, <1>7

\* The values of f that belong to u, those that belong to anyone, and the others.
PartOf(f, of, u) == [i \in DOMAIN f |-> IF u \in of[i] THEN f[i] ELSE 0]
Owned(f, of) == [i \in DOMAIN f |-> IF of[i] # {} THEN f[i] ELSE 0]
Ownerless(f, of) == [i \in DOMAIN f |-> IF of[i] = {} THEN f[i] ELSE 0]

\* The values that belong to each member of U, summed, are those that belong to one.
LEMMA SumInParts ==
  ASSUME NEW S, IsFiniteSet(S), NEW f \in [S -> Int], NEW U, IsFiniteSet(U),
         NEW of \in [S -> SUBSET U], \A i \in S : \A u, v \in of[i] : u = v,
         NEW parts \in [U -> Int],
         \A u \in U : parts[u] = SumFunction(PartOf(f, of, u))
  PROVE  SumFunction(parts) = SumFunction(Owned(f, of))
<1>1. PICK sum : SumsOf(parts, U, sum) /\ SumFunction(parts) = sum[U]
  BY SumFunctionIs
<1> DEFINE In(V) == [i \in S |-> IF of[i] \cap V # {} THEN f[i] ELSE 0]
           Part(u) == [i \in S |-> IF u \in of[i] THEN f[i] ELSE 0]
           T == {V \in SUBSET U : sum[V] # SumFunction(In(V))}
<1>2. \A V : In(V) \in [S -> Int] /\ \A i \in S : In(V)[i] = IF of[i] \cap V # {} THEN f[i] ELSE 0
  OBVIOUS
<1>3. \A u : Part(u) \in [S -> Int] /\ \A i \in S : Part(u)[i] = IF u \in of[i] THEN f[i] ELSE 0
  OBVIOUS
<1>4. \A u \in U : parts[u] = SumFunction(Part(u))
  <2>1. DOMAIN f = S
    OBVIOUS
  <2>2. \A u : PartOf(f, of, u) = Part(u)
    BY <2>1 DEF PartOf
  <2> QED BY <2>2
<1>5. Owned(f, of) = In(U)
  <2>1. DOMAIN f = S
    OBVIOUS
  <2> QED BY <2>1, \A i \in S : of[i] \cap U = of[i] DEF Owned
<1> HIDE DEF In, Part
<1>6. sum[{}] = SumFunction(In({}))
  <2>1. \A i \in S : In({})[i] = 0
    BY <1>2
  <2> QED BY <1>1, <1>2, <2>1, SumZero DEF SumsOf
<1>7. T = {}
  <2> SUFFICES ASSUME T # {} PROVE FALSE
    OBVIOUS
  <2> HIDE DEF T
  <2>1. T \in SUBSET SUBSET U
    BY DEF T
  <2>2. PICK V \in T : \A W \in T : W \subseteq V => W = V
    BY <2>1, MinimalSubset
  <2>3. V \in SUBSET U /\ sum[V] # SumFunction(In(V))
    BY DEF T
  <2>4. PICK u \in V : TRUE
    BY <1>6, <2>3
  <2>5. sum[V \ {u}] = SumFunction(In(V \ {u}))
    BY <2>2, <2>3 DEF T
  <2>6. sum[V] = SumFunction(Part(u)) + sum[V \ {u}]
    BY <1>1, <1>4, <2>3 DEF SumsOf
  <2>7. \A i \in S : In(V)[i] = Part(u)[i] + In(V \ {u})[i]
    <3> SUFFICES ASSUME NEW i \in S PROVE In(V)[i] = Part(u)[i] + In(V \ {u})[i]
      OBVIOUS
    <3>1. f[i] \in Int
      OBVIOUS
    <3>2. CASE u \in of[i]
      <4>1. of[i] \cap V # {} /\ of[i] \cap (V \ {u}) = {}
        BY <2>4, <3>2
      <4> QED BY <1>2, <1>3, <3>1, <3>2, <4>1
    <3>3. CASE u \notin of[i]
      <4>1. of[i] \cap V = of[i] \cap (V \ {u})
        BY <3>3
      <4> QED BY <1>2, <1>3, <3>1, <3>3, <4>1
    <3> QED BY <3>2, <3>3
  <2>8. SumFunction(In(V)) = SumFunction(Part(u)) + SumFunction(In(V \ {u}))
    <3>1. PICK h \in [S -> Int], p \in [S -> Int], r \in [S -> Int] :
            h = In(V) /\ p = Part(u) /\ r = In(V \ {u})
      BY <1>2, <1>3
    <3>2. \A i \in S : h[i] = p[i] + r[i]
      BY <2>7, <3>1
    <3>3. SumFunction(h) = SumFunction(p) + SumFunction(r)
      BY <3>2, SumAdds
    <3> QED BY <3>1, <3>3
  <2> QED BY <2>3, <2>5, <2>6, <2>8
<1>8. U \in SUBSET U
  OBVIOUS
<1> QED BY <1>1, <1>5, <1>7, <1>8

\* Every value belongs to someone or to nobody.
LEMMA SumSplits ==
  ASSUME NEW S, IsFiniteSet(S), NEW f \in [S -> Int], NEW of
  PROVE  SumFunction(f) = SumFunction(Owned(f, of)) + SumFunction(Ownerless(f, of))
<1>1. PICK g : g = Owned(f, of)
  OBVIOUS
<1>2. PICK h : h = Ownerless(f, of)
  OBVIOUS
<1>3. \A i \in S : f[i] \in Int
  OBVIOUS
<1>4. DOMAIN f = S
  OBVIOUS
<1>5. g \in [S -> Int] /\ h \in [S -> Int]
  BY <1>1, <1>2, <1>3, <1>4 DEF Owned, Ownerless
<1>6. \A i \in S : f[i] = g[i] + h[i]
  BY <1>1, <1>2, <1>3, <1>4 DEF Owned, Ownerless
<1> QED BY <1>1, <1>2, <1>5, <1>6, SumAdds

\* The sum of a sequence, from its first element to its last.
LEMMA SumGoesUp ==
  ASSUME NEW n \in Nat, NEW f \in [1 .. n -> Int]
  PROVE  \E upTo : /\ upTo \in [0 .. n -> Int] /\ upTo[0] = 0
                   /\ \A k \in 1 .. n : upTo[k] = upTo[k - 1] + f[k]
                   /\ SumFunction(f) = upTo[n]
<1>1. IsFiniteSet(1 .. n)
  BY FS_Interval
<1>2. PICK sum : SumsOf(f, 1 .. n, sum) /\ SumFunction(f) = sum[1 .. n]
  BY <1>1, SumFunctionIs
<1>3. PICK upTo : upTo = [k \in 0 .. n |-> sum[1 .. k]]
  OBVIOUS
<1>4. \A k \in 0 .. n : 1 .. k \in SUBSET (1 .. n)
  OBVIOUS
<1>5. upTo \in [0 .. n -> Int]
  BY <1>2, <1>3, <1>4 DEF SumsOf
<1>6. upTo[0] = 0
  <2>1. 1 .. 0 = {}
    OBVIOUS
  <2> QED BY <1>2, <1>3, <2>1 DEF SumsOf
<1>7. ASSUME NEW k \in 1 .. n PROVE upTo[k] = upTo[k - 1] + f[k]
  <2>1. k \in 1 .. k /\ (1 .. k) \ {k} = 1 .. (k - 1) /\ k \in 0 .. n /\ k - 1 \in 0 .. n
    OBVIOUS
  <2>2. sum[1 .. k] = f[k] + sum[1 .. (k - 1)]
    <3>1. PICK K : K = 1 .. k
      OBVIOUS
    <3>2. K \in SUBSET (1 .. n) /\ k \in K /\ K \ {k} = 1 .. (k - 1)
      BY <1>4, <2>1, <3>1
    <3>3. sum[K] = f[k] + sum[K \ {k}]
      BY <1>2, <3>2 DEF SumsOf
    <3> QED BY <3>1, <3>2, <3>3
  <2>3. upTo[k] = sum[1 .. k] /\ upTo[k - 1] = sum[1 .. (k - 1)] /\ upTo[k - 1] \in Int /\ f[k] \in Int
    BY <1>3, <1>5, <2>1
  <2> HIDE <1>2, <1>3
  <2> QED BY <2>2, <2>3
<1>8. SumFunction(f) = upTo[n]
  BY <1>2, <1>3
<1> QED BY <1>5, <1>6, <1>7, <1>8

\* A first element that is kept stays the first.
LEMMA WithoutKeepsHead ==
  ASSUME NEW S, NEW s \in Seq(S), NEW T, s # <<>>, s[1] \notin T
  PROVE  Without(s, T) # <<>> /\ Without(s, T)[1] = s[1]
<1>1. PICK kept : /\ kept[0] = <<>>
                  /\ \A i \in 1 .. Len(s) :
                       kept[i] = IF s[i] \in T THEN kept[i - 1] ELSE Append(kept[i - 1], s[i])
                  /\ Without(s, T) = kept[Len(s)]
  BY WithoutUnfolds
<1>2. PICK n \in Nat : n = Len(s) /\ n > 0
  BY EmptySeq
<1>3. \A i \in 1 .. n : s[i] \in S
  BY <1>2
<1> DEFINE Kept(i) == kept[i] \in Seq(S) /\ Len(kept[i]) >= 1 /\ kept[i][1] = s[1]
           I == {i \in 0 .. n : i = 0 \/ Kept(i)}
<1>4. Kept(1)
  <2>1. kept[1] = Append(<<>>, s[1]) /\ s[1] \in S
    <3>1. 1 \in 1 .. n /\ 1 - 1 = 0
      BY <1>2
    <3>2. kept[1] = Append(kept[0], s[1])
      BY <1>1, <1>2, <3>1
    <3> QED BY <1>1, <1>3, <3>1, <3>2
  <2> QED BY <2>1
<1>5. ASSUME NEW i \in 1 .. n, i - 1 \in I PROVE i \in I
  <2>1. CASE i = 1
    BY <1>4, <2>1
  <2>2. CASE i # 1
    <3>1. Kept(i - 1)
      BY <1>5, <2>2
    <3>2. CASE s[i] \in T
      <4>1. kept[i] = kept[i - 1]
        BY <1>1, <1>2, <3>2
      <4> QED BY <3>1, <4>1
    <3>3. CASE s[i] \notin T
      <4>1. kept[i] = Append(kept[i - 1], s[i]) /\ s[i] \in S
        BY <1>1, <1>2, <1>3, <3>3
      <4>2. Kept(i)
        BY <3>1, <4>1, AppendProperties
      <4> QED BY <4>2
    <3> QED BY <3>2, <3>3
  <2> QED BY <2>1, <2>2
<1>6. 0 \in I
  OBVIOUS
<1> HIDE DEF I
<1>7. \A i \in 0 .. n : i \in I
  BY <1>5, <1>6, UpTo
<1>8. Kept(n)
  BY <1>2, <1>7 DEF I
<1> QED BY <1>1, <1>2, <1>8
=============================================================================
