------------------------------ MODULE FiniteSums ------------------------------
(***************************************************************************)
(* Lemmas about the operators of FiniteSetsExt that the models use: Min,   *)
(* for what the code finds first, and sums over a finite set, for coins.   *)
(* What the library's induction theorems cannot be used for is proved from *)
(* SubsetInduction, which is about a set instead of an operator.           *)
(***************************************************************************)
EXTENDS Integers, FiniteSetsExt, FiniteSetTheorems, WellFoundedInduction, TLAPS

\* A set of natural numbers that is not empty has a least element, and Min is
\* it: what the code finds first, the lowest descriptor, the first free
\* object, the first table.
LEMMA MinIsLeast ==
    ASSUME NEW S \in SUBSET Nat, S # {}
    PROVE  Min(S) \in S /\ \A y \in S : Min(S) <= y
<1>1. PICK x \in S : \A y \in S : ~ (<<y, x>> \in OpToRel(<, Nat))
  BY NatLessThanWellFounded, WFMin
<1>2. \A y \in S : x <= y
  <2> TAKE y \in S
  <2>1. ~ (y < x)
    <3> SUFFICES ASSUME y < x PROVE FALSE
      OBVIOUS
    <3>1. <<y, x>> \in Nat \X Nat
      OBVIOUS
    <3>2. <<y, x>>[1] < <<y, x>>[2]
      OBVIOUS
    <3> QED BY <1>1, <3>1, <3>2, Zenon DEF OpToRel
  <2> QED BY <2>1
<1> QED BY <1>2 DEF Min

\* Induction over the subsets of a finite set, with the property as the set of
\* the subsets that have it.
LEMMA SubsetInduction ==
    ASSUME NEW X, IsFiniteSet(X), NEW Good, {} \in Good,
           \A s \in SUBSET X :
             s # {} /\ (\A x \in s : s \ {x} \in Good) => s \in Good
    PROVE  \A s \in SUBSET X : s \in Good
<1> DEFINE Bad == {s \in SUBSET X : s \notin Good}
           Sizes == {Cardinality(s) : s \in Bad}
<1> SUFFICES ASSUME Bad # {} PROVE FALSE
  OBVIOUS
<1>1. \A s \in SUBSET X : IsFiniteSet(s) /\ Cardinality(s) \in Nat
  BY FS_Subset, FS_CardinalityType
<1>2. Sizes \in SUBSET Nat /\ Sizes # {}
  BY <1>1
<1>3. PICK s \in Bad : \A t \in Bad : Cardinality(s) <= Cardinality(t)
  <2>1. Min(Sizes) \in Sizes /\ \A y \in Sizes : Min(Sizes) <= y
    <3> HIDE DEF Sizes
    <3> QED BY <1>2, MinIsLeast
  <2>2. \E s \in Bad : Cardinality(s) = Min(Sizes)
    BY <2>1
  <2> QED BY <2>1, <2>2
<1>4. s # {}
  OBVIOUS
<1>5. ASSUME NEW x \in s PROVE s \ {x} \in Good
  <2>1. Cardinality(s \ {x}) = Cardinality(s) - 1
    BY <1>1, <1>5, FS_RemoveElement
  <2>2. s \ {x} \in SUBSET X
    OBVIOUS
  <2> QED BY <1>1, <1>3, <2>1, <2>2
<1> QED BY <1>4, <1>5

\* The values of a function on a finite set are finitely many.
LEMMA ImageFinite ==
    ASSUME NEW S, IsFiniteSet(S), NEW f
    PROVE  IsFiniteSet({f[x] : x \in S})
<1> DEFINE Image(s) == {f[x] : x \in s}
           Good == {s \in SUBSET S : IsFiniteSet(Image(s))}
<1>1. {} \in Good
  <2>1. Image({}) = {}
    OBVIOUS
  <2> QED BY <2>1, FS_EmptySet
<1>2. ASSUME NEW s \in SUBSET S, s # {}, \A x \in s : s \ {x} \in Good
      PROVE  s \in Good
  <2>1. PICK x \in s : TRUE
    BY <1>2
  <2>2. Image(s) = Image(s \ {x}) \cup {f[x]}
    OBVIOUS
  <2>3. IsFiniteSet(Image(s \ {x}))
    BY <1>2
  <2>4. ASSUME NEW A, IsFiniteSet(A) PROVE IsFiniteSet(A \cup {f[x]})
    BY <2>4, FS_AddElement
  <2>5. IsFiniteSet(Image(s \ {x}) \cup {f[x]})
    BY <2>3, <2>4
  <2> QED BY <2>2, <2>5
<1> HIDE DEF Good
<1>3. \A s \in SUBSET S : s \in Good
  BY <1>1, <1>2, SubsetInduction, Zenon
<1>4. S \in Good
  BY <1>3
<1> QED BY <1>4 DEF Good

\* Min of a finite set of integers is its least element.
LEMMA MinOfInts ==
    ASSUME NEW S, IsFiniteSet(S), S # {}, S \subseteq Int
    PROVE  Min(S) \in S /\ \A y \in S : Min(S) <= y
<1> DEFINE Low(s) == \E x \in s : \A y \in s : x <= y
           Good == {s \in SUBSET S : s # {} => Low(s)}
<1>1. {} \in Good
  OBVIOUS
<1>2. ASSUME NEW s \in SUBSET S, s # {}, \A x \in s : s \ {x} \in Good
      PROVE  s \in Good
  <2>1. PICK x \in s : TRUE
    BY <1>2
  <2>2. CASE s \ {x} = {}
    <3>1. \A y \in s : x <= y
      BY <2>1, <2>2
    <3> QED BY <2>1, <3>1
  <2>3. CASE s \ {x} # {}
    <3>1. PICK z \in s \ {x} : \A y \in s \ {x} : z <= y
      BY <1>2, <2>1, <2>3
    <3>2. CASE z <= x
      <4>1. \A y \in s : z <= y
        BY <3>1, <3>2
      <4> QED BY <3>1, <4>1
    <3>3. CASE ~ (z <= x)
      <4>1. \A y \in s : x <= y
        BY <2>1, <3>1, <3>3
      <4> QED BY <2>1, <4>1
    <3> QED BY <3>2, <3>3
  <2> QED BY <2>2, <2>3
<1> HIDE DEF Good
<1>3. \A s \in SUBSET S : s \in Good
  BY <1>1, <1>2, SubsetInduction, Zenon
<1>4. S \in Good
  BY <1>3
<1>5. \E x \in S : \A y \in S : x <= y
  BY <1>4 DEF Good
<1> QED BY <1>5 DEF Min

\* The sum of f over S, as the models write it
SumOver(f, S) == MapThenSumSet(LAMBDA u : f[u], S)

One(s) == CHOOSE x \in s : TRUE

\* g maps each subset of X to its sum, one element taken out at a time.
IsSum(g, f, X) ==
    g = [s \in SUBSET X |-> IF s = {} THEN 0 ELSE f[One(s)] + g[s \ {One(s)}]]

\* The element that is taken out of a set is one of the set's.
LEMMA OneIsIn ==
    ASSUME NEW s, s # {}
    PROVE  One(s) \in s
BY DEF One

\* A sum is the value at X of the one function of X's subsets that CHOOSE
\* finds.
LEMMA SumIsChosen ==
    ASSUME NEW f, NEW X
    PROVE  SumOver(f, X) = (CHOOSE g : IsSum(g, f, X))[X]
BY DEF SumOver, MapThenSumSet, MapThenFoldSet, IsSum, One

\* Such a function sums a set by what it takes out and the rest.
LEMMA SumUnfolds ==
    ASSUME NEW f, NEW X, NEW g, IsSum(g, f, X), NEW s \in SUBSET X
    PROVE  g[s] = IF s = {} THEN 0 ELSE f[One(s)] + g[s \ {One(s)}]
<1> DEFINE V(t) == IF t = {} THEN 0 ELSE f[One(t)] + g[t \ {One(t)}]
<1>1. g = [t \in SUBSET X |-> V(t)]
  BY Zenon DEF IsSum
<1>2. g[s] = V(s)
  <2> HIDE DEF V
  <2> QED BY <1>1
<1> QED BY <1>2

\* Two such maps agree where both are defined.
LEMMA SumsAgree ==
    ASSUME NEW f, NEW X, IsFiniteSet(X), NEW Y \in SUBSET X, NEW g, NEW h,
           IsSum(g, f, X), IsSum(h, f, Y)
    PROVE  \A s \in SUBSET Y : g[s] = h[s]
<1> DEFINE Good == {s \in SUBSET Y : g[s] = h[s]}
<1>1. {} \in Good
  <2>1. {} \in SUBSET X /\ {} \in SUBSET Y
    OBVIOUS
  <2>2. g[{}] = 0 /\ h[{}] = 0
    BY <2>1, SumUnfolds
  <2> QED BY <2>1, <2>2
<1>2. ASSUME NEW s \in SUBSET Y, s # {}, \A x \in s : s \ {x} \in Good
      PROVE  s \in Good
  <2>1. s \in SUBSET X /\ s # {}
    BY <1>2
  <2>2. g[s] = f[One(s)] + g[s \ {One(s)}]
    BY <2>1, SumUnfolds
  <2>3. h[s] = f[One(s)] + h[s \ {One(s)}]
    BY <2>1, SumUnfolds
  <2>4. g[s \ {One(s)}] = h[s \ {One(s)}]
    BY <1>2, OneIsIn
  <2> QED BY <2>2, <2>3, <2>4
<1>3. IsFiniteSet(Y)
  BY FS_Subset
<1> HIDE DEF Good
<1>4. \A s \in SUBSET Y : s \in Good
  BY <1>1, <1>2, <1>3, SubsetInduction
<1> QED BY <1>4 DEF Good

\* There is such a function for every finite set.
LEMMA SumExists ==
    ASSUME NEW f, NEW X, IsFiniteSet(X)
    PROVE  \E g : IsSum(g, f, X)
<1> DEFINE Has(t) == \E g : IsSum(g, f, t)
           Good == {s \in SUBSET X : \A t \in SUBSET s : Has(t)}
           The(t) == CHOOSE g : IsSum(g, f, t)
           V(t) == IF t = {} THEN 0 ELSE f[One(t)] + The(t \ {One(t)})[t \ {One(t)}]
<1>1. \A t : Has(t) => IsSum(The(t), f, t)
  OBVIOUS
<1>2. ASSUME NEW s \in SUBSET X, \A t \in SUBSET s : t # s => Has(t)
      PROVE  Has(s)
  <2> DEFINE G == [t \in SUBSET s |-> V(t)]
             W(t) == IF t = {} THEN 0 ELSE f[One(t)] + G[t \ {One(t)}]
  <2>0. IsFiniteSet(s)
    BY FS_Subset
  <2>1. ASSUME NEW t \in SUBSET s, t # {}
        PROVE  G[t \ {One(t)}] = The(t \ {One(t)})[t \ {One(t)}]
    <3> DEFINE r == t \ {One(t)}
    <3>1. r \in SUBSET s /\ r # s /\ IsFiniteSet(r)
      BY <2>0, <2>1, OneIsIn, FS_Subset
    <3>2. IsSum(The(r), f, r)
      BY <1>1, <1>2, <3>1
    <3> HIDE DEF r, The
    <3>3. G[r] = V(r)
      BY <3>1
    <3>4. CASE r = {}
      <4>1. The(r)[r] = 0
        BY <3>2, <3>4, SumUnfolds
      <4> QED BY <3>3, <3>4, <4>1 DEF r
    <3>5. CASE r # {}
      <4> DEFINE q == r \ {One(r)}
      <4>1. q \in SUBSET r /\ q \in SUBSET s /\ q # s
        BY <3>1, <3>5, OneIsIn
      <4>2. IsSum(The(q), f, q)
        BY <1>1, <1>2, <4>1 DEF The
      <4>3. The(r)[r] = f[One(r)] + The(r)[q]
        BY <3>2, <3>5, SumUnfolds
      <4>4. The(r)[q] = The(q)[q]
        <5> HIDE DEF q
        <5> QED BY <3>1, <3>2, <4>1, <4>2, SumsAgree
      <4>5. V(r) = f[One(r)] + The(q)[q]
        BY <3>5
      <4>6. G[r] = The(r)[r]
        BY <3>3, <4>3, <4>4, <4>5
      <4> QED BY <4>6 DEF r
    <3> QED BY <3>4, <3>5
  <2>2. \A t \in SUBSET s : V(t) = W(t)
    <3> HIDE DEF G, The
    <3> QED BY <2>1
  <2>3. G = [t \in SUBSET s |-> W(t)]
    <3> HIDE DEF V, W
    <3> QED BY <2>2
  <2>4. IsSum(G, f, s)
    <3> HIDE DEF G
    <3> QED BY <2>3, Zenon DEF IsSum
  <2> QED BY <2>4
<1> HIDE DEF Has
<1>3. {} \in Good
  <2>1. Has({})
    BY <1>2
  <2> QED BY <2>1
<1>4. ASSUME NEW s \in SUBSET X, s # {}, \A x \in s : s \ {x} \in Good
      PROVE  s \in Good
  <2>1. ASSUME NEW t \in SUBSET s, t # s PROVE Has(t)
    <3>1. PICK x \in s : x \notin t
      BY <2>1
    <3>2. t \in SUBSET (s \ {x})
      BY <3>1
    <3> QED BY <1>4, <3>2
  <2>2. Has(s)
    BY <1>2, <2>1
  <2> QED BY <2>1, <2>2
<1> HIDE DEF Good
<1>5. \A s \in SUBSET X : s \in Good
  BY <1>3, <1>4, SubsetInduction
<1>6. X \in Good
  BY <1>5
<1> QED BY <1>6 DEF Good, Has

\* The sum over no elements is 0.
LEMMA SumOfNone ==
    ASSUME NEW f
    PROVE  SumOver(f, {}) = 0
<1>1. IsSum(CHOOSE g : IsSum(g, f, {}), f, {})
  BY SumExists, FS_EmptySet
<1>2. {} \in SUBSET {}
  OBVIOUS
<1> HIDE DEF IsSum
<1>3. (CHOOSE g : IsSum(g, f, {}))[{}] = 0
  BY <1>1, <1>2, SumUnfolds
<1> QED BY <1>3, SumIsChosen

\* A sum is the summand that is taken out plus the sum of the others.
LEMMA SumOfOneMore ==
    ASSUME NEW f, NEW X, IsFiniteSet(X), X # {}
    PROVE  SumOver(f, X) = f[One(X)] + SumOver(f, X \ {One(X)})
<1> DEFINE Y == X \ {One(X)}
           g == CHOOSE p : IsSum(p, f, X)
           h == CHOOSE p : IsSum(p, f, Y)
<1>1. Y \in SUBSET X /\ IsFiniteSet(Y)
  BY FS_Subset
<1>2. IsSum(g, f, X)
  BY SumExists
<1>3. IsSum(h, f, Y)
  BY <1>1, SumExists
<1>4. SumOver(f, X) = g[X] /\ SumOver(f, Y) = h[Y]
  BY SumIsChosen
<1> HIDE DEF g, h
<1>5. g[X] = f[One(X)] + g[Y]
  BY <1>2, SumUnfolds
<1>6. g[Y] = h[Y]
  <2> HIDE DEF Y
  <2> QED BY <1>1, <1>2, <1>3, SumsAgree
<1> QED BY <1>4, <1>5, <1>6

\* A sum of integers is an integer.
LEMMA SumType ==
    ASSUME NEW f, NEW X, IsFiniteSet(X), \A x \in X : f[x] \in Int
    PROVE  SumOver(f, X) \in Int
<1> DEFINE Good == {s \in SUBSET X : SumOver(f, s) \in Int}
<1>1. {} \in Good
  BY SumOfNone
<1>2. ASSUME NEW s \in SUBSET X, s # {}, \A x \in s : s \ {x} \in Good
      PROVE  s \in Good
  <2>1. One(s) \in s /\ IsFiniteSet(s)
    BY <1>2, OneIsIn, FS_Subset
  <2>2. SumOver(f, s) = f[One(s)] + SumOver(f, s \ {One(s)})
    BY <1>2, <2>1, SumOfOneMore
  <2>3. SumOver(f, s \ {One(s)}) \in Int
    BY <1>2, <2>1
  <2> QED BY <2>1, <2>2, <2>3
<1> HIDE DEF Good
<1>3. \A s \in SUBSET X : s \in Good
  BY <1>1, <1>2, SubsetInduction, Zenon
<1>4. X \in Good
  BY <1>3
<1> QED BY <1>4 DEF Good

\* Any element can be taken out, not only the one the definition takes.
LEMMA SumWithout ==
    ASSUME NEW f, NEW X, IsFiniteSet(X), \A x \in X : f[x] \in Int
    PROVE  \A y \in X : SumOver(f, X) = f[y] + SumOver(f, X \ {y})
<1> DEFINE Good == {s \in SUBSET X :
                      \A y \in s : SumOver(f, s) = f[y] + SumOver(f, s \ {y})}
<1>1. {} \in Good
  OBVIOUS
<1>2. ASSUME NEW s \in SUBSET X, s # {}, \A x \in s : s \ {x} \in Good
      PROVE  s \in Good
  <2>1. One(s) \in s /\ IsFiniteSet(s)
    BY <1>2, OneIsIn, FS_Subset
  <2>2. SumOver(f, s) = f[One(s)] + SumOver(f, s \ {One(s)})
    BY <1>2, <2>1, SumOfOneMore
  <2>3. ASSUME NEW y \in s, y # One(s)
        PROVE  SumOver(f, s) = f[y] + SumOver(f, s \ {y})
    <3> DEFINE o == One(s)
               r == s \ {y, o}
    <3>1. (s \ {o}) \ {y} = r /\ (s \ {y}) \ {o} = r
      OBVIOUS
    <3>2. y \in s \ {o} /\ o \in s \ {y}
      BY <2>1, <2>3
    <3>3. s \ {o} \in Good /\ s \ {y} \in Good
      BY <1>2, <2>1
    <3>4. SumOver(f, s \ {o}) = f[y] + SumOver(f, r)
      BY <3>1, <3>2, <3>3
    <3>5. SumOver(f, s \ {y}) = f[o] + SumOver(f, r)
      BY <3>1, <3>2, <3>3
    <3>6. IsFiniteSet(r) /\ \A x \in r : f[x] \in Int
      BY <2>1, FS_Subset
    <3>7. SumOver(f, r) \in Int
      BY <3>6, SumType
    <3>8. f[o] \in Int /\ f[y] \in Int
      BY <2>1
    <3> HIDE DEF r, o
    <3> QED BY <2>2, <3>4, <3>5, <3>7, <3>8 DEF o
  <2> QED BY <2>2, <2>3
<1> HIDE DEF Good
<1>3. \A s \in SUBSET X : s \in Good
  BY <1>1, <1>2, SubsetInduction, Zenon
<1>4. X \in Good
  BY <1>3
<1> QED BY <1>4 DEF Good

\* The sum depends only on the summands.
LEMMA SumSame ==
    ASSUME NEW f, NEW g, NEW X, IsFiniteSet(X), \A x \in X : f[x] = g[x]
    PROVE  SumOver(f, X) = SumOver(g, X)
<1> DEFINE Good == {s \in SUBSET X : SumOver(f, s) = SumOver(g, s)}
<1>1. {} \in Good
  BY SumOfNone
<1>2. ASSUME NEW s \in SUBSET X, s # {}, \A x \in s : s \ {x} \in Good
      PROVE  s \in Good
  <2>1. One(s) \in s /\ IsFiniteSet(s)
    BY <1>2, OneIsIn, FS_Subset
  <2>2. /\ SumOver(f, s) = f[One(s)] + SumOver(f, s \ {One(s)})
        /\ SumOver(g, s) = g[One(s)] + SumOver(g, s \ {One(s)})
    BY <1>2, <2>1, SumOfOneMore
  <2>3. SumOver(f, s \ {One(s)}) = SumOver(g, s \ {One(s)})
    BY <1>2, <2>1
  <2> QED BY <2>1, <2>2, <2>3
<1> HIDE DEF Good
<1>3. \A s \in SUBSET X : s \in Good
  BY <1>1, <1>2, SubsetInduction, Zenon
<1>4. X \in Good
  BY <1>3
<1> QED BY <1>4 DEF Good

\* Two sums over the same set add up summand by summand.
LEMMA SumAdds ==
    ASSUME NEW f, NEW g, NEW h, NEW X, IsFiniteSet(X),
           \A x \in X : f[x] \in Int /\ g[x] \in Int /\ h[x] = f[x] + g[x]
    PROVE  SumOver(h, X) = SumOver(f, X) + SumOver(g, X)
<1> DEFINE Good == {s \in SUBSET X :
                      SumOver(h, s) = SumOver(f, s) + SumOver(g, s)}
<1>1. {} \in Good
  BY SumOfNone
<1>2. ASSUME NEW s \in SUBSET X, s # {}, \A x \in s : s \ {x} \in Good
      PROVE  s \in Good
  <2>1. One(s) \in s /\ IsFiniteSet(s) /\ IsFiniteSet(s \ {One(s)})
    BY <1>2, OneIsIn, FS_Subset, FS_RemoveElement
  <2>2. /\ SumOver(f, s) = f[One(s)] + SumOver(f, s \ {One(s)})
        /\ SumOver(g, s) = g[One(s)] + SumOver(g, s \ {One(s)})
        /\ SumOver(h, s) = h[One(s)] + SumOver(h, s \ {One(s)})
    BY <1>2, <2>1, SumOfOneMore
  <2>3. SumOver(h, s \ {One(s)})
          = SumOver(f, s \ {One(s)}) + SumOver(g, s \ {One(s)})
    BY <1>2, <2>1
  <2>4. /\ SumOver(f, s \ {One(s)}) \in Int
        /\ SumOver(g, s \ {One(s)}) \in Int
    BY <2>1, SumType
  <2>5. f[One(s)] \in Int /\ g[One(s)] \in Int /\ h[One(s)] = f[One(s)] + g[One(s)]
    BY <2>1
  <2>6. SumOver(h, s) = SumOver(f, s) + SumOver(g, s)
    BY <2>2, <2>3, <2>4, <2>5
  <2> QED BY <2>6
<1> HIDE DEF Good
<1>3. \A s \in SUBSET X : s \in Good
  BY <1>1, <1>2, SubsetInduction, Zenon
<1>4. X \in Good
  BY <1>3
<1> QED BY <1>4 DEF Good

\* A sum is no greater than another whose summands are no smaller.
LEMMA SumMonotone ==
    ASSUME NEW f, NEW g, NEW X, IsFiniteSet(X),
           \A x \in X : f[x] \in Int /\ g[x] \in Int /\ f[x] <= g[x]
    PROVE  SumOver(f, X) <= SumOver(g, X)
<1> DEFINE Good == {s \in SUBSET X : SumOver(f, s) <= SumOver(g, s)}
<1>1. {} \in Good
  BY SumOfNone
<1>2. ASSUME NEW s \in SUBSET X, s # {}, \A x \in s : s \ {x} \in Good
      PROVE  s \in Good
  <2>1. One(s) \in s /\ IsFiniteSet(s) /\ IsFiniteSet(s \ {One(s)})
    BY <1>2, OneIsIn, FS_Subset, FS_RemoveElement
  <2>2. /\ SumOver(f, s) = f[One(s)] + SumOver(f, s \ {One(s)})
        /\ SumOver(g, s) = g[One(s)] + SumOver(g, s \ {One(s)})
    BY <1>2, <2>1, SumOfOneMore
  <2>3. SumOver(f, s \ {One(s)}) <= SumOver(g, s \ {One(s)})
    BY <1>2, <2>1
  <2>4. /\ SumOver(f, s \ {One(s)}) \in Int
        /\ SumOver(g, s \ {One(s)}) \in Int
    BY <2>1, SumType
  <2>5. f[One(s)] \in Int /\ g[One(s)] \in Int /\ f[One(s)] <= g[One(s)]
    BY <2>1
  <2>6. SumOver(f, s) <= SumOver(g, s)
    BY <2>2, <2>3, <2>4, <2>5
  <2> QED BY <2>6
<1> HIDE DEF Good
<1>3. \A s \in SUBSET X : s \in Good
  BY <1>1, <1>2, SubsetInduction, Zenon
<1>4. X \in Good
  BY <1>3
<1> QED BY <1>4 DEF Good

\* The sum over a set without a part of it
LEMMA SumSplits ==
    ASSUME NEW f, NEW X, IsFiniteSet(X), \A x \in X : f[x] \in Int,
           NEW Y \in SUBSET X
    PROVE  SumOver(f, X) = SumOver(f, Y) + SumOver(f, X \ Y)
<1> DEFINE Good == {s \in SUBSET Y :
             SumOver(f, X) = SumOver(f, s) + SumOver(f, X \ s)}
<1>0. IsFiniteSet(Y) /\ SumOver(f, X) \in Int
  BY FS_Subset, SumType
<1>1. {} \in Good
  <2>1. X \ {} = X
    OBVIOUS
  <2> QED BY <1>0, <2>1, SumOfNone
<1>2. ASSUME NEW s \in SUBSET Y, s # {}, \A x \in s : s \ {x} \in Good
      PROVE  s \in Good
  <2> DEFINE o == One(s)
             r == s \ {o}
  <2>1. /\ o \in s /\ IsFiniteSet(s) /\ IsFiniteSet(r) /\ r \in SUBSET X
        /\ IsFiniteSet(X \ s) /\ IsFiniteSet(X \ r)
        /\ o \in X \ r /\ (X \ r) \ {o} = X \ s
    BY <1>0, <1>2, OneIsIn, FS_Subset, FS_RemoveElement
  <2>2. SumOver(f, s) = f[o] + SumOver(f, r)
    BY <1>2, <2>1, SumOfOneMore
  <2>3. SumOver(f, X \ r) = f[o] + SumOver(f, X \ s)
    BY <2>1, SumWithout
  <2>4. SumOver(f, X) = SumOver(f, r) + SumOver(f, X \ r)
    BY <1>2, <2>1
  <2>5. /\ SumOver(f, r) \in Int /\ SumOver(f, X \ s) \in Int
        /\ f[o] \in Int
    BY <2>1, SumType
  <2>6. SumOver(f, X) = SumOver(f, s) + SumOver(f, X \ s)
    <3> HIDE DEF o, r
    <3> QED BY <2>2, <2>3, <2>4, <2>5
  <2> QED BY <2>6
<1> HIDE DEF Good
<1>3. \A s \in SUBSET Y : s \in Good
  BY <1>0, <1>1, <1>2, SubsetInduction, Zenon
<1>4. Y \in Good
  BY <1>3
<1> QED BY <1>4 DEF Good

\* The sum of the same number, once for every element
LEMMA SumOfSame ==
    ASSUME NEW f, NEW X, IsFiniteSet(X), NEW c \in Int, \A x \in X : f[x] = c
    PROVE  SumOver(f, X) = c * Cardinality(X)
<1> DEFINE Good == {s \in SUBSET X : SumOver(f, s) = c * Cardinality(s)}
<1>1. {} \in Good
  BY SumOfNone, FS_EmptySet
<1>2. ASSUME NEW s \in SUBSET X, s # {}, \A x \in s : s \ {x} \in Good
      PROVE  s \in Good
  <2> DEFINE r == s \ {One(s)}
             n == Cardinality(r)
  <2>1. /\ One(s) \in s /\ IsFiniteSet(s) /\ IsFiniteSet(r)
        /\ Cardinality(s) \in Nat /\ n \in Nat /\ n = Cardinality(s) - 1
    BY <1>2, OneIsIn, FS_Subset, FS_RemoveElement, FS_CardinalityType
  <2>2. SumOver(f, s) = f[One(s)] + SumOver(f, r)
    BY <1>2, <2>1, SumOfOneMore
  <2>3. SumOver(f, r) = c * n
    BY <1>2, <2>1
  <2>4. f[One(s)] = c
    BY <2>1
  <2>5. SumOver(f, s) = c + c * n
    BY <2>2, <2>3, <2>4
  <2>6. Cardinality(s) = n + 1
    BY <2>1
  <2>7. c + c * n = c * (n + 1)
    <3> HIDE DEF n
    <3> QED BY <2>1
  <2>8. SumOver(f, s) = c * Cardinality(s)
    BY <2>5, <2>6, <2>7
  <2> QED BY <2>8
<1> HIDE DEF Good
<1>3. \A s \in SUBSET X : s \in Good
  BY <1>1, <1>2, SubsetInduction, Zenon
<1>4. X \in Good
  BY <1>3
<1> QED BY <1>4 DEF Good
===============================================================================
