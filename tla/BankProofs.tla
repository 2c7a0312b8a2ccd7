----------------------------- MODULE BankProofs -----------------------------
(***************************************************************************)
(* What the contracts' proofs share: what a transfer of the bank does, and *)
(* what a sum over all users is.  A sum is a fold, defined by recursion on *)
(* sets; the facts about it are proved by induction.  The induction is     *)
(* that a set of numbers has a least one, stated about a set and not about *)
(* a predicate.                                                            *)
(***************************************************************************)
EXTENDS Bank, Functions, FiniteSetTheorems, TLAPS

\* A transfer the sender can afford keeps every balance a natural number, and takes
\* the amount from one account to the other.
LEMMA SentBank ==
    ASSUME NEW A, NEW b \in [A -> Nat], NEW f \in A, NEW t \in A,
           NEW n \in Nat, n <= b[f]
    PROVE  /\ Sent(b, f, t, n) \in [A -> Nat]
           /\ f = t => Sent(b, f, t, n) = b
           /\ f # t => /\ Sent(b, f, t, n)[f] = b[f] - n
                       /\ Sent(b, f, t, n)[t] = b[t] + n
           /\ \A a \in A \ {f, t} : Sent(b, f, t, n)[a] = b[a]
BY DEF Sent

-----------------------------------------------------------------------------
\* A set of natural numbers that is not empty has a least element.
LEMMA LeastNumber ==
    ASSUME NEW N \in SUBSET Nat, N # {}
    PROVE  \E n \in N : \A m \in N : n <= m
<1>1. PICK R : /\ IsWellFoundedOn(R, Nat)
               /\ \A m, n \in Nat : m < n => <<m, n>> \in R
  <2> DEFINE R == OpToRel(<, Nat)
  <2>1. IsWellFoundedOn(R, Nat)
    BY NatLessThanWellFounded, Zenon
  <2>2. \A m, n \in Nat : m < n => <<m, n>> \in R
    BY DEF OpToRel
  <2>3. QED
    BY <2>1, <2>2, Zenon
<1>2. N \subseteq Nat /\ IsWellFoundedOn(R, Nat)
  BY <1>1
<1>3. PICK n \in N : \A m \in N : ~ (<<m, n>> \in R)
  BY <1>2, WFMin, Zenon
<1>4. \A m \in N : ~ (m < n)
  BY <1>1, <1>3
<1>5. QED
  BY <1>4

\* Removing an element from a finite set leaves a smaller one.
LEMMA OneLess ==
    ASSUME NEW T, IsFiniteSet(T), NEW x \in T
    PROVE  /\ IsFiniteSet(T \ {x})
           /\ Cardinality(T) \in Nat /\ Cardinality(T) # 0
           /\ Cardinality(T \ {x}) = Cardinality(T) - 1
BY FS_RemoveElement, FS_CardinalityType, FS_EmptySet

\* Induction over the subsets of a finite set: what holds of the empty set, and of a
\* set with one element more whenever of the set, holds of every subset.
LEMMA SubsetInduction ==
    ASSUME NEW S, IsFiniteSet(S), NEW G, {} \in G,
           \A T \in SUBSET S : \A x \in S \ T : T \in G => T \cup {x} \in G
    PROVE  SUBSET S \subseteq G
<1> DEFINE Bad == {n \in Nat : \E T \in SUBSET S : T \notin G /\ Cardinality(T) = n}
<1>1. SUFFICES Bad = {}
  <2>1. \A T \in SUBSET S : Cardinality(T) \in Nat
    BY FS_Subset, FS_CardinalityType
  <2>2. QED
    BY <2>1, <1>1
<1>2. SUFFICES ASSUME NEW n \in Bad, \A m \in Bad : n <= m
               PROVE  FALSE
  BY LeastNumber
<1>3. PICK T \in SUBSET S : T \notin G /\ Cardinality(T) = n
  OBVIOUS
<1>4. PICK x \in T : TRUE
  BY <1>3
<1>5. IsFiniteSet(T)
  BY FS_Subset
<1>6. n \in Nat /\ n # 0 /\ Cardinality(T \ {x}) = n - 1
  BY <1>3, <1>5, OneLess
<1>7. n - 1 \notin Bad
  BY <1>2, <1>6
<1>8. T \ {x} \in G
  BY <1>6, <1>7
<1>9. (T \ {x}) \cup {x} = T
  OBVIOUS
<1>10. T \ {x} \in SUBSET S /\ x \in S \ (T \ {x})
  OBVIOUS
<1>11. (T \ {x}) \cup {x} \in G
  BY <1>8, <1>10
<1>12. QED
  BY <1>3, <1>9, <1>11

-----------------------------------------------------------------------------
\* The element a sum takes out of a set first, and the equation of the recursion for
\* sets of D.
First(s) == CHOOSE x \in s : TRUE

Unfolds(g, f, D) ==
    g = [s \in D |-> IF s = {} THEN 0 ELSE f[First(s)] + g[s \ {First(s)}]]

LEMMA FirstIn == ASSUME NEW s, s # {} PROVE First(s) \in s
BY DEF First

\* The recursion defines a function: for sets of at most n elements, for every n.
LEMMA RecursionExists ==
    ASSUME NEW f, NEW S, IsFiniteSet(S)
    PROVE  \E g : Unfolds(g, f, SUBSET S)
<1> DEFINE UpTo(n) == {s \in SUBSET S : Cardinality(s) <= n}
           Bad == {n \in Nat : ~ \E g : Unfolds(g, f, UpTo(n))}
<1>1. \A s \in SUBSET S : IsFiniteSet(s) /\ Cardinality(s) \in Nat
  BY FS_Subset, FS_CardinalityType
<1>2. ASSUME NEW n \in Bad, \A m \in Bad : n <= m
      PROVE  FALSE
  <2>1. CASE n = 0
    <3>1. \A s \in UpTo(n) : s = {}
      BY <1>1, <2>1, FS_EmptySet
    <3>2. Unfolds([s \in UpTo(n) |-> 0], f, UpTo(n))
      BY <3>1 DEF Unfolds
    <3>3. QED
      BY <1>2, <3>2
  <2>2. CASE n # 0
    <3>1. n - 1 \in Nat /\ n - 1 \notin Bad /\ n \in Nat
      <4>1. n \in Nat /\ n - 1 \in Nat /\ ~ (n <= n - 1)
        BY <2>2
      <4>2. QED
        BY <1>2, <4>1
    <3>2. PICK g : Unfolds(g, f, UpTo(n - 1))
      BY <3>1
    <3> DEFINE h == [s \in UpTo(n) |->
                       IF s = {} THEN 0 ELSE f[First(s)] + g[s \ {First(s)}]]
    <3>3. \A s \in UpTo(n - 1) : s \in UpTo(n) /\ h[s] = g[s]
      <4>1. \A s \in UpTo(n - 1) : s \in UpTo(n)
        BY <1>1, <3>1
      <4>2. QED
        BY <3>2, <4>1 DEF Unfolds
    <3>4. \A s \in UpTo(n) : s # {} => s \ {First(s)} \in UpTo(n - 1)
      BY <1>1, <3>1, FirstIn, OneLess
    <3>5. h = [s \in UpTo(n) |->
                 IF s = {} THEN 0 ELSE f[First(s)] + h[s \ {First(s)}]]
      BY <3>3, <3>4
    <3>6. QED
      BY <1>2, <3>5 DEF Unfolds
  <2>3. QED
    BY <2>1, <2>2
<1>3. Bad = {}
  BY <1>2, LeastNumber
<1>4. Cardinality(S) \in Nat /\ UpTo(Cardinality(S)) = SUBSET S
  BY <1>1, FS_Subset
<1>5. QED
  BY <1>3, <1>4

LEMMA SumUnfolds ==
    ASSUME NEW f, NEW S, IsFiniteSet(S)
    PROVE  \E g : Unfolds(g, f, SUBSET S) /\ SumFunctionOnSet(f, S) = g[S]
<1> DEFINE g == CHOOSE g : Unfolds(g, f, SUBSET S)
<1>1. Unfolds(g, f, SUBSET S)
  BY RecursionExists, Zenon
<1>2. SumFunctionOnSet(f, S) = g[S]
  BY DEF SumFunctionOnSet, FoldFunctionOnSet, MapThenFoldSet, Unfolds, First
<1>3. QED
  BY <1>1, <1>2

\* Two such functions agree wherever both are defined.
LEMMA RecursionUnique ==
    ASSUME NEW f, NEW S, IsFiniteSet(S), NEW U \in SUBSET S, NEW g, NEW h,
           Unfolds(g, f, SUBSET S), Unfolds(h, f, SUBSET U)
    PROVE  g[U] = h[U]
<1> DEFINE Bad == {n \in Nat : \E T \in SUBSET U : g[T] # h[T] /\ Cardinality(T) = n}
<1>1. \A T \in SUBSET U : IsFiniteSet(T) /\ Cardinality(T) \in Nat /\ T \in SUBSET S
  BY FS_Subset, FS_CardinalityType
<1>2. ASSUME NEW n \in Bad, \A m \in Bad : n <= m
      PROVE  FALSE
  <2>1. PICK T \in SUBSET U : g[T] # h[T] /\ Cardinality(T) = n
    OBVIOUS
  <2>2. T # {}
    BY <1>1, <2>1 DEF Unfolds
  <2> DEFINE R == T \ {First(T)}
  <2>3. /\ R \in SUBSET U
        /\ Cardinality(R) \in Nat /\ ~ (n <= Cardinality(R))
    BY <1>1, <2>1, <2>2, FirstIn, OneLess
  <2>4. g[R] = h[R]
    BY <1>2, <2>3
  <2>5. g[T] = f[First(T)] + g[R] /\ h[T] = f[First(T)] + h[R]
    BY <1>1, <2>2 DEF Unfolds
  <2>6. QED
    BY <2>1, <2>4, <2>5
<1>3. Bad = {}
  BY <1>2, LeastNumber
<1>4. QED
  BY <1>1, <1>3

\* The equations of the recursion, for the sum itself.
LEMMA SumEmpty ==
    ASSUME NEW f
    PROVE  SumFunctionOnSet(f, {}) = 0
<1>1. PICK g : Unfolds(g, f, SUBSET {}) /\ SumFunctionOnSet(f, {}) = g[{}]
  BY FS_EmptySet, SumUnfolds
<1>2. QED
  BY <1>1 DEF Unfolds

LEMMA SumFirst ==
    ASSUME NEW f, NEW S, IsFiniteSet(S), S # {}
    PROVE  SumFunctionOnSet(f, S) =
             f[First(S)] + SumFunctionOnSet(f, S \ {First(S)})
<1> DEFINE R == S \ {First(S)}
<1>1. PICK g : Unfolds(g, f, SUBSET S) /\ SumFunctionOnSet(f, S) = g[S]
  BY SumUnfolds
<1>2. PICK h : Unfolds(h, f, SUBSET R) /\ SumFunctionOnSet(f, R) = h[R]
  BY SumUnfolds, FS_Subset
<1>3. R \in SUBSET S /\ g[S] = f[First(S)] + g[R]
  BY <1>1 DEF Unfolds
<1> HIDE DEF R
<1>4. g[R] = h[R]
  BY <1>1, <1>2, <1>3, RecursionUnique
<1>5. QED
  BY <1>1, <1>2, <1>3, <1>4 DEF R

\* A sum of integers is an integer, and any element may be taken out first.
LEMMA SumInt ==
    ASSUME NEW S, IsFiniteSet(S), NEW f, \A x \in S : f[x] \in Int
    PROVE  \A T \in SUBSET S : SumFunctionOnSet(f, T) \in Int
<1> DEFINE Bad == {n \in Nat : \E T \in SUBSET S :
                     SumFunctionOnSet(f, T) \notin Int /\ Cardinality(T) = n}
<1>1. \A T \in SUBSET S : IsFiniteSet(T) /\ Cardinality(T) \in Nat
  BY FS_Subset, FS_CardinalityType
<1>2. ASSUME NEW n \in Bad, \A m \in Bad : n <= m
      PROVE  FALSE
  <2>1. PICK T \in SUBSET S : SumFunctionOnSet(f, T) \notin Int /\ Cardinality(T) = n
    OBVIOUS
  <2>2. T # {}
    BY <2>1, SumEmpty
  <2> DEFINE R == T \ {First(T)}
  <2>3. First(T) \in T
    BY <2>2, FirstIn
  <2>4. /\ R \in SUBSET S
        /\ Cardinality(R) \in Nat /\ ~ (n <= Cardinality(R))
    BY <1>1, <2>1, <2>3, OneLess
  <2>5. SumFunctionOnSet(f, R) \in Int
    BY <1>2, <2>4
  <2>6. SumFunctionOnSet(f, T) = f[First(T)] + SumFunctionOnSet(f, R)
    BY <1>1, <2>2, SumFirst
  <2>7. QED
    BY <2>1, <2>3, <2>5, <2>6
<1>3. Bad = {}
  BY <1>2, LeastNumber
<1>4. QED
  BY <1>1, <1>3

LEMMA SumTake ==
    ASSUME NEW S, IsFiniteSet(S), NEW f, \A x \in S : f[x] \in Int, NEW y \in S
    PROVE  SumFunctionOnSet(f, S) = f[y] + SumFunctionOnSet(f, S \ {y})
<1> DEFINE Sum(T) == SumFunctionOnSet(f, T)
           Bad == {n \in Nat : \E T \in SUBSET S : \E x \in T :
                     Sum(T) # f[x] + Sum(T \ {x}) /\ Cardinality(T) = n}
<1>1. \A T \in SUBSET S :
        IsFiniteSet(T) /\ Cardinality(T) \in Nat /\ Sum(T) \in Int
  BY FS_Subset, FS_CardinalityType, SumInt
<1>2. ASSUME NEW n \in Bad, \A m \in Bad : n <= m
      PROVE  FALSE
  <2>0. PICK T \in SUBSET S : \E x \in T :
          Sum(T) # f[x] + Sum(T \ {x}) /\ Cardinality(T) = n
    OBVIOUS
  <2>1. PICK x \in T : Sum(T) # f[x] + Sum(T \ {x}) /\ Cardinality(T) = n
    BY <2>0
  <2> DEFINE p == First(T)
  <2>2. /\ p \in T
        /\ Sum(T) = f[p] + Sum(T \ {p})
    BY <1>1, <2>1, FirstIn, SumFirst
  <2> HIDE DEF p
  <2>3. p # x
    BY <2>1, <2>2
  <2>4. ASSUME NEW z \in T, NEW w \in T, z # w
        PROVE  Sum(T \ {z}) = f[w] + Sum((T \ {z}) \ {w})
    <3>1. /\ T \ {z} \in SUBSET S /\ w \in T \ {z}
          /\ Cardinality(T \ {z}) \in Nat /\ ~ (n <= Cardinality(T \ {z}))
      BY <1>1, <2>1, <2>4, OneLess
    <3>2. QED
      BY <1>2, <3>1
  <2>5. Sum(T \ {p}) = f[x] + Sum((T \ {p}) \ {x})
    BY <2>2, <2>3, <2>4
  <2>6. Sum(T \ {x}) = f[p] + Sum((T \ {x}) \ {p})
    BY <2>2, <2>3, <2>4
  <2>7. (T \ {p}) \ {x} = (T \ {x}) \ {p} /\ (T \ {x}) \ {p} \in SUBSET S
    OBVIOUS
  <2> DEFINE rest == Sum((T \ {x}) \ {p})
  <2>8. /\ rest \in Int /\ f[p] \in Int /\ f[x] \in Int
        /\ Sum(T) = f[p] + (f[x] + rest)
        /\ Sum(T \ {x}) = f[p] + rest
    BY <1>1, <2>2, <2>5, <2>6, <2>7
  <2> HIDE DEF rest
  <2>9. Sum(T) = f[x] + Sum(T \ {x})
    BY <2>8
  <2>10. QED
    BY <2>1, <2>9
<1>3. Bad = {}
  BY <1>2, LeastNumber
<1>4. Cardinality(S) \in Nat
  BY <1>1
<1> HIDE DEF Sum
<1>5. Sum(S) = f[y] + Sum(S \ {y})
  BY <1>3, <1>4
<1>6. QED
  BY <1>5 DEF Sum

\* One element more.
LEMMA SumAdd ==
    ASSUME NEW T, IsFiniteSet(T), NEW y, y \notin T,
           NEW f, \A x \in T \cup {y} : f[x] \in Int
    PROVE  SumFunctionOnSet(f, T \cup {y}) = f[y] + SumFunctionOnSet(f, T)
<1>1. IsFiniteSet(T \cup {y}) /\ (T \cup {y}) \ {y} = T
  BY FS_AddElement
<1>2. QED
  BY <1>1, SumTake

-----------------------------------------------------------------------------
\* Functions that agree on a set have the same sum over it.
LEMMA SumSame ==
    ASSUME NEW S, IsFiniteSet(S), NEW f, NEW g,
           \A x \in S : f[x] \in Int /\ g[x] = f[x]
    PROVE  SumFunctionOnSet(g, S) = SumFunctionOnSet(f, S)
<1> DEFINE G == {T \in SUBSET S : SumFunctionOnSet(g, T) = SumFunctionOnSet(f, T)}
<1>1. {} \in G
  BY SumEmpty
<1>2. ASSUME NEW T \in SUBSET S, NEW x \in S \ T, T \in G PROVE T \cup {x} \in G
  <2>1. IsFiniteSet(T)
    BY FS_Subset
  <2>2. /\ SumFunctionOnSet(f, T \cup {x}) = f[x] + SumFunctionOnSet(f, T)
        /\ SumFunctionOnSet(g, T \cup {x}) = g[x] + SumFunctionOnSet(g, T)
    BY <1>2, <2>1, SumAdd
  <2>3. QED
    BY <1>2, <2>2
<1> HIDE DEF G
<1>3. SUBSET S \subseteq G
  BY <1>1, <1>2, SubsetInduction
<1>4. QED
  BY <1>3 DEF G

\* Changing a function at one element changes its sum by as much.
LEMMA SumChange ==
    ASSUME NEW S, IsFiniteSet(S), NEW y \in S, NEW f, NEW g,
           \A x \in S : f[x] \in Int /\ g[x] \in Int,
           \A x \in S \ {y} : g[x] = f[x]
    PROVE  SumFunctionOnSet(g, S) = SumFunctionOnSet(f, S) + (g[y] - f[y])
<1> DEFINE R == S \ {y}
<1>1. IsFiniteSet(R)
  BY FS_Subset
<1>2. SumFunctionOnSet(g, R) = SumFunctionOnSet(f, R)
  BY <1>1, SumSame
<1>3. /\ SumFunctionOnSet(f, S) = f[y] + SumFunctionOnSet(f, R)
      /\ SumFunctionOnSet(g, S) = g[y] + SumFunctionOnSet(g, R)
  BY SumTake
<1>4. SumFunctionOnSet(f, R) \in Int
  BY SumInt
<1>5. QED
  BY <1>2, <1>3, <1>4

\* The sum of zeros.
LEMMA SumZero ==
    ASSUME NEW S, IsFiniteSet(S), NEW f, \A x \in S : f[x] = 0
    PROVE  SumFunctionOnSet(f, S) = 0
<1> DEFINE G == {T \in SUBSET S : SumFunctionOnSet(f, T) = 0}
<1>1. {} \in G
  BY SumEmpty
<1>2. ASSUME NEW T \in SUBSET S, NEW x \in S \ T, T \in G PROVE T \cup {x} \in G
  <2>1. IsFiniteSet(T)
    BY FS_Subset
  <2>2. SumFunctionOnSet(f, T \cup {x}) = f[x] + SumFunctionOnSet(f, T)
    <3>1. x \notin T /\ \A y \in T \cup {x} : f[y] \in Int
      OBVIOUS
    <3>2. QED
      BY <2>1, <3>1, SumAdd
  <2>3. QED
    BY <1>2, <2>2
<1> HIDE DEF G
<1>3. SUBSET S \subseteq G
  BY <1>1, <1>2, SubsetInduction
<1>4. QED
  BY <1>3 DEF G

\* A sum is linear in its terms.
LEMMA SumLinear ==
    ASSUME NEW S, IsFiniteSet(S), NEW f, NEW g, NEW h, NEW k \in Int,
           \A x \in S : f[x] \in Int /\ g[x] \in Int /\ h[x] = f[x] + k * g[x]
    PROVE  SumFunctionOnSet(h, S) = SumFunctionOnSet(f, S) + k * SumFunctionOnSet(g, S)
<1> DEFINE G == {T \in SUBSET S : SumFunctionOnSet(h, T) =
                   SumFunctionOnSet(f, T) + k * SumFunctionOnSet(g, T)}
<1>1. {} \in G
  BY SumEmpty
<1>2. ASSUME NEW T \in SUBSET S, NEW x \in S \ T, T \in G PROVE T \cup {x} \in G
  <2>1. IsFiniteSet(T)
    BY FS_Subset
  <2>2. \A y \in S : h[y] \in Int
    OBVIOUS
  <2>3. /\ SumFunctionOnSet(f, T \cup {x}) = f[x] + SumFunctionOnSet(f, T)
        /\ SumFunctionOnSet(g, T \cup {x}) = g[x] + SumFunctionOnSet(g, T)
        /\ SumFunctionOnSet(h, T \cup {x}) = h[x] + SumFunctionOnSet(h, T)
    BY <1>2, <2>1, <2>2, SumAdd
  <2>4. SumFunctionOnSet(f, T) \in Int /\ SumFunctionOnSet(g, T) \in Int
    BY SumInt
  <2>5. ASSUME NEW p \in Int, NEW q \in Int, NEW r \in Int, NEW s \in Int
        PROVE  (p + k * q) + (r + k * s) = (p + r) + k * (q + s)
    OBVIOUS
  <2>6. f[x] \in Int /\ g[x] \in Int /\ h[x] = f[x] + k * g[x]
    OBVIOUS
  <2>7. QED
    BY <1>2, <2>3, <2>4, <2>5, <2>6
<1> HIDE DEF G
<1>3. SUBSET S \subseteq G
  BY <1>1, <1>2, SubsetInduction
<1>4. QED
  BY <1>3 DEF G

\* A bound on every term is a bound on the sum.
LEMMA SumBound ==
    ASSUME NEW S, IsFiniteSet(S), NEW f, NEW g, NEW a \in Int, NEW b \in Int,
           \A x \in S : f[x] \in Int /\ g[x] \in Int /\ f[x] * a <= g[x] * b
    PROVE  SumFunctionOnSet(f, S) * a <= SumFunctionOnSet(g, S) * b
<1> DEFINE G == {T \in SUBSET S :
                   SumFunctionOnSet(f, T) * a <= SumFunctionOnSet(g, T) * b}
<1>1. {} \in G
  BY SumEmpty
<1>2. ASSUME NEW T \in SUBSET S, NEW x \in S \ T, T \in G PROVE T \cup {x} \in G
  <2>1. IsFiniteSet(T)
    BY FS_Subset
  <2>2. /\ SumFunctionOnSet(f, T \cup {x}) = f[x] + SumFunctionOnSet(f, T)
        /\ SumFunctionOnSet(g, T \cup {x}) = g[x] + SumFunctionOnSet(g, T)
    BY <1>2, <2>1, SumAdd
  <2>3. SumFunctionOnSet(f, T) \in Int /\ SumFunctionOnSet(g, T) \in Int
    BY SumInt
  <2>4. ASSUME NEW p \in Int, NEW q \in Int, NEW r \in Int, NEW s \in Int,
               p * a <= q * b, r * a <= s * b
        PROVE  (p + r) * a <= (q + s) * b
    BY <2>4
  <2>5. f[x] * a <= g[x] * b /\ f[x] \in Int /\ g[x] \in Int
    OBVIOUS
  <2>6. QED
    BY <1>2, <2>2, <2>3, <2>4, <2>5
<1> HIDE DEF G
<1>3. SUBSET S \subseteq G
  BY <1>1, <1>2, SubsetInduction
<1>4. QED
  BY <1>3 DEF G

\* A sum of natural numbers is one, and at least each of them.
LEMMA SumNat ==
    ASSUME NEW S, IsFiniteSet(S), NEW f, \A x \in S : f[x] \in Nat
    PROVE  /\ SumFunctionOnSet(f, S) \in Nat
           /\ \A x \in S : f[x] <= SumFunctionOnSet(f, S)
<1> DEFINE G == {T \in SUBSET S : SumFunctionOnSet(f, T) \in Nat}
<1>1. {} \in G
  BY SumEmpty
<1>2. ASSUME NEW T \in SUBSET S, NEW x \in S \ T, T \in G PROVE T \cup {x} \in G
  <2>1. IsFiniteSet(T)
    BY FS_Subset
  <2>2. SumFunctionOnSet(f, T \cup {x}) = f[x] + SumFunctionOnSet(f, T)
    <3>1. x \notin T /\ \A y \in T \cup {x} : f[y] \in Int
      OBVIOUS
    <3>2. QED
      BY <2>1, <3>1, SumAdd
  <2>3. QED
    BY <1>2, <2>2
<1> HIDE DEF G
<1>3. SUBSET S \subseteq G
  BY <1>1, <1>2, SubsetInduction
<1>4. \A T \in SUBSET S : SumFunctionOnSet(f, T) \in Nat
  BY <1>3 DEF G
<1>5. ASSUME NEW x \in S PROVE f[x] <= SumFunctionOnSet(f, S)
  <2>1. SumFunctionOnSet(f, S) = f[x] + SumFunctionOnSet(f, S \ {x})
    BY SumTake
  <2>2. SumFunctionOnSet(f, S \ {x}) \in Nat /\ f[x] \in Nat
    BY <1>4
  <2>3. QED
    BY <2>1, <2>2
<1>6. QED
  BY <1>4, <1>5

\* A sum is the sum over a part and the sum over the rest.
LEMMA SumSplit ==
    ASSUME NEW S, IsFiniteSet(S), NEW f, \A x \in S : f[x] \in Int, NEW R \in SUBSET S
    PROVE  SumFunctionOnSet(f, S) = SumFunctionOnSet(f, R) + SumFunctionOnSet(f, S \ R)
<1> DEFINE rest == S \ R
           G == {T \in SUBSET rest :
                   SumFunctionOnSet(f, R \cup T) =
                     SumFunctionOnSet(f, R) + SumFunctionOnSet(f, T)}
<1>1. IsFiniteSet(rest) /\ IsFiniteSet(R)
  BY FS_Subset
<1>2. SumFunctionOnSet(f, R) \in Int
  BY SumInt
<1>3. {} \in G
  <2>1. R \cup {} = R /\ SumFunctionOnSet(f, {}) = 0
    BY SumEmpty
  <2>2. QED
    BY <1>2, <2>1
<1>4. ASSUME NEW T \in SUBSET rest, NEW x \in rest \ T, T \in G PROVE T \cup {x} \in G
  <2>1. /\ R \cup T \in SUBSET S /\ T \in SUBSET S
        /\ R \cup (T \cup {x}) = (R \cup T) \cup {x}
        /\ x \notin R \cup T /\ x \notin T /\ x \in S
    OBVIOUS
  <2>2. IsFiniteSet(T) /\ IsFiniteSet(R \cup T)
    BY <2>1, FS_Subset
  <2>3. SumFunctionOnSet(f, (R \cup T) \cup {x}) = f[x] + SumFunctionOnSet(f, R \cup T)
    <3>1. \A y \in (R \cup T) \cup {x} : f[y] \in Int
      BY <2>1
    <3>2. QED
      BY <2>1, <2>2, <3>1, SumAdd
  <2>4. SumFunctionOnSet(f, T \cup {x}) = f[x] + SumFunctionOnSet(f, T)
    <3>1. \A y \in T \cup {x} : f[y] \in Int
      BY <2>1
    <3>2. QED
      BY <2>1, <2>2, <3>1, SumAdd
  <2>5. SumFunctionOnSet(f, T) \in Int /\ f[x] \in Int
    BY <2>1, SumInt
  <2>6. SumFunctionOnSet(f, R \cup (T \cup {x})) =
          SumFunctionOnSet(f, R) + SumFunctionOnSet(f, T \cup {x})
    <3>1. SumFunctionOnSet(f, R \cup T) = SumFunctionOnSet(f, R) + SumFunctionOnSet(f, T)
      BY <1>4
    <3>2. SumFunctionOnSet(f, R \cup (T \cup {x})) = f[x] + SumFunctionOnSet(f, R \cup T)
      BY <2>1, <2>3, Zenon
    <3>3. QED
      BY <1>2, <2>4, <2>5, <3>1, <3>2
  <2>7. T \cup {x} \in SUBSET rest
    BY <1>4
  <2>8. QED
    BY <2>6, <2>7
<1> HIDE DEF G
<1>5. SUBSET rest \subseteq G
  <2> HIDE DEF rest
  <2>1. QED
    BY <1>1, <1>3, <1>4, SubsetInduction
<1>6. rest \in G
  BY <1>5
<1>7. R \cup rest = S
  OBVIOUS
<1>8. QED
  BY <1>6, <1>7 DEF G

\* What a list names twice is counted twice: the sum over the list is at least the sum
\* over what it names.
LEMMA SumOfList ==
    ASSUME NEW S, IsFiniteSet(S), NEW s, NEW f, NEW h,
           \A i \in S : h[i] = f[s[i]] /\ h[i] \in Nat
    PROVE  SumFunctionOnSet(f, {s[i] : i \in S}) <= SumFunctionOnSet(h, S)
<1> DEFINE Named(T) == {s[i] : i \in T}
           G == {T \in SUBSET S :
                   /\ IsFiniteSet(Named(T))
                   /\ SumFunctionOnSet(f, Named(T)) <= SumFunctionOnSet(h, T)}
<1>1. {} \in G
  <2>1. Named({}) = {}
    OBVIOUS
  <2>2. SumFunctionOnSet(f, {}) = 0 /\ SumFunctionOnSet(h, {}) = 0
    BY SumEmpty
  <2>3. QED
    BY <2>1, <2>2, FS_EmptySet
<1>2. ASSUME NEW T \in SUBSET S, NEW x \in S \ T, T \in G PROVE T \cup {x} \in G
  <2>1. Named(T \cup {x}) = Named(T) \cup {s[x]}
    OBVIOUS
  <2>2. IsFiniteSet(T)
    BY FS_Subset
  <2>3. IsFiniteSet(Named(T)) /\ IsFiniteSet(Named(T) \cup {s[x]})
    BY <1>2, FS_AddElement
  <2>4. \A y \in Named(T) \cup {s[x]} : f[y] \in Nat
    OBVIOUS
  <2>5. /\ h[x] = f[s[x]] /\ h[x] \in Nat
        /\ x \notin T /\ \A y \in T \cup {x} : h[y] \in Int
        /\ \A y \in T : h[y] \in Nat
    OBVIOUS
  <2> HIDE DEF Named
  <2>6. SumFunctionOnSet(h, T \cup {x}) = h[x] + SumFunctionOnSet(h, T)
    BY <2>2, <2>5, SumAdd
  <2>7. SumFunctionOnSet(h, T) \in Int
    BY <2>2, <2>5, SumNat
  <2>8. SumFunctionOnSet(f, Named(T)) \in Int
    BY <2>3, <2>4, SumNat
  <2>9. SumFunctionOnSet(f, Named(T)) <= SumFunctionOnSet(h, T)
    BY <1>2
  <2>10. SumFunctionOnSet(f, Named(T \cup {x})) <= SumFunctionOnSet(h, T \cup {x})
    <3>1. CASE s[x] \in Named(T)
      <4>1. Named(T \cup {x}) = Named(T)
        BY <2>1, <3>1
      <4>2. QED
        BY <2>5, <2>6, <2>7, <2>8, <2>9, <4>1
    <3>2. CASE s[x] \notin Named(T)
      <4>1. SumFunctionOnSet(f, Named(T) \cup {s[x]}) =
              f[s[x]] + SumFunctionOnSet(f, Named(T))
        <5> DEFINE y == s[x] named == Named(T)
        <5>1. /\ IsFiniteSet(named) /\ y \notin named
              /\ \A z \in named \cup {y} : f[z] \in Int
          BY <2>3, <2>4, <3>2
        <5> HIDE DEF y, named
        <5>2. SumFunctionOnSet(f, named \cup {y}) = f[y] + SumFunctionOnSet(f, named)
          BY <5>1, SumAdd
        <5>3. QED
          BY <5>2 DEF y, named
      <4>2. QED
        BY <2>1, <2>5, <2>6, <2>7, <2>8, <2>9, <4>1
    <3>3. QED
      BY <3>1, <3>2
  <2>11. T \cup {x} \in SUBSET S
    BY <1>2
  <2>12. IsFiniteSet(Named(T \cup {x}))
    BY <2>1, <2>3
  <2>13. QED
    BY <2>10, <2>11, <2>12
<1> HIDE DEF G
<1>3. SUBSET S \subseteq G
  BY <1>1, <1>2, SubsetInduction
<1>4. QED
  BY <1>3 DEF G
=============================================================================
