--------------------------- MODULE CleanPipelineProofs ---------------------------
(***************************************************************************)
(* Proofs about CleanPipeline beside the other passes of MCCleaning, for   *)
(* every file, of any length, that is whole: ids distinct, every reference *)
(* to something its attribute admits, no replica of a replica, and a curve *)
(* that has a replica alone of its shape.                                  *)
(*                                                                         *)
(* The invariant is that the section Keeps what the file had: it is whole, *)
(* and the topology means the same shapes in the same order.  Each pass    *)
(* keeps it, so any sequence of them does.  A section is treated as its    *)
(* entities by id (Found, Linked, Alone, Supported); the positions come in *)
(* again only for the order of the topology (Listed, KeptMembers).         *)
(*                                                                         *)
(* Minifying, interning and renumbering carry every entity to one of its   *)
(* kind that refers to where its references are carried (Carries), and     *)
(* what is carried over has its shape (CarriedMeaning).  Interning carries *)
(* to the first entity of the same term, and the terms are the recursion   *)
(* unrolled three times, as deep as shapes go (TermsAreUnrolled).  A       *)
(* merged presentation refers to more topology and nothing else changes    *)
(* (GrownKeeps).  Both replica passes factor (FactoredKeeps): a target     *)
(* becomes a replica of its source, translated to where the target was, an *)
(* alias becomes its source, and what is collected is used by nothing that *)
(* stays (SweptWithUsers).                                                 *)
(***************************************************************************)
EXTENDS MCCleaning, FiniteSetTheorems, WellFoundedInduction, TLAPS

-----------------------------------------------------------------------------
(* Counting and recursion.                                                 *)

\* A set of natural numbers has a least element.
LEMMA HasLeast ==
    ASSUME NEW S \in SUBSET Nat, S # {}
    PROVE  \E i \in S : \A j \in S : i <= j
<1> DEFINE R == {p \in Nat \X Nat : p[1] < p[2]}
<1>1. IsWellFoundedOn(R, Nat)
  BY NatLessThanWellFounded, Zenon DEF OpToRel
<1>2. \A a, b \in Nat : a < b => <<a, b>> \in R
  OBVIOUS
<1> HIDE DEF R
<1>3. PICK i \in S : \A j \in S : ~ (<<j, i>> \in R)
  BY <1>1, WFMin
<1>4. ASSUME NEW j \in S PROVE i <= j
  <2>1. i \in Nat /\ j \in Nat
    OBVIOUS
  <2>2. ~ (<<j, i>> \in R)
    BY <1>3
  <2>3. ~ (j < i)
    BY <1>2, <2>1, <2>2, Zenon
  <2> QED
    BY <2>1, <2>3
<1> QED
  BY <1>4

\* A set that holds a number and, up to a bound, the next of each of its members, holds
\* all numbers from the first up to the bound.
LEMMA StepByStep ==
    ASSUME NEW a \in Int, NEW b \in Int, NEW S, a \in S,
           \A k \in a .. b : k \in S /\ k < b => k + 1 \in S
    PROVE  \A k \in a .. b : k \in S
<1> DEFINE Missing == {k \in Nat : a + k <= b /\ a + k \notin S}
<1> SUFFICES ASSUME NEW k \in a .. b, k \notin S PROVE FALSE
  OBVIOUS
<1>1. k - a \in Missing
  BY SMT
<1>2. PICK m \in Missing : \A j \in Missing : m <= j
  BY <1>1, HasLeast
<1>3. m \in Nat /\ a + m <= b /\ a + m \notin S
  BY <1>2
<1>4. m # 0
  BY <1>3
<1>5. m - 1 \in Nat /\ m - 1 \notin Missing
  BY <1>2, <1>3, <1>4
<1>6. a + (m - 1) \in S
  BY <1>3, <1>5
<1> DEFINE l == a + (m - 1)
<1>7. l \in a .. b /\ l < b /\ l + 1 = a + m
  BY <1>3, <1>4
<1> QED
  BY <1>3, <1>6, <1>7

\* A function that is defined by recursion exists, and has its values where each of its
\* steps has them.
Advances(a, b, S, advance) == \A k \in a .. b : \A x \in S : advance[<<k, x>>] \in S
Recursive(a, b, S, s, advance, f) ==
    /\ f \in [a .. b -> S]
    /\ f[a] = s
    /\ \A k \in a .. b : k > a => f[k] = advance[<<k, f[k - 1]>>]

LEMMA Recursion ==
    ASSUME NEW a \in Int, NEW b \in Int, a <= b, NEW S, NEW s \in S, NEW advance,
           Advances(a, b, S, advance)
    PROVE  \E f : Recursive(a, b, S, s, advance, f)
<1> DEFINE Defined == {n \in a .. b : \E f : Recursive(a, n, S, s, advance, f)}
<1>1. a \in Defined
  <2> DEFINE f == [k \in a .. a |-> s]
  <2>1. Recursive(a, a, S, s, advance, f)
    BY DEF Recursive
  <2> QED
    BY <2>1
<1>2. ASSUME NEW n \in a .. b, n \in Defined, n < b PROVE n + 1 \in Defined
  <2>1. PICK f : Recursive(a, n, S, s, advance, f)
    BY <1>2
  <2> DEFINE g == [k \in a .. n + 1 |-> IF k = n + 1 THEN advance[<<k, f[k - 1]>>] ELSE f[k]]
  <2>2. n + 1 \in a .. b /\ f[n] \in S /\ advance[<<n + 1, f[n]>>] \in S
    BY <1>2, <2>1 DEF Recursive, Advances
  <2>3. \A k \in a .. n : g[k] = f[k]
    OBVIOUS
  <2>4. g[n + 1] = advance[<<n + 1, g[n]>>]
    BY <2>3
  <2>5. g \in [a .. n + 1 -> S]
    BY <2>1, <2>2 DEF Recursive
  <2>6. g[a] = s /\ \A k \in a .. n + 1 : k > a => g[k] = advance[<<k, g[k - 1]>>]
    BY <2>1, <2>3, <2>4 DEF Recursive
  <2>7. Recursive(a, n + 1, S, s, advance, g)
    BY <2>5, <2>6 DEF Recursive
  <2> QED
    BY <2>2, <2>7
<1>3. \A n \in a .. b : n \in Defined
  <2> HIDE DEF Defined
  <2> QED
    BY <1>1, <1>2, StepByStep
<1> QED
  BY <1>3 DEF Defined
-----------------------------------------------------------------------------
(* Ranks: the place of a member of a finite set in a strict total order.   *)

\* The members before one of them, and how many there are.
Before(S, R, x) == {y \in S : <<y, x>> \in R}
IsOrder(S, R) ==
    /\ \A x, y \in S : x = y \/ <<x, y>> \in R \/ <<y, x>> \in R
    /\ \A x \in S : <<x, x>> \notin R
    /\ \A x, y, z \in S : <<x, y>> \in R /\ <<y, z>> \in R => <<x, z>> \in R

\* How many are before a member is its place.
Ranked(S, R) ==
    /\ Cardinality(S) \in Nat
    /\ \A x \in S : Cardinality(Before(S, R, x)) \in 0 .. Cardinality(S) - 1
    /\ \A x, y \in S : <<x, y>> \in R
          <=> Cardinality(Before(S, R, x)) < Cardinality(Before(S, R, y))
    /\ \A x, y \in S :
          Cardinality(Before(S, R, x)) = Cardinality(Before(S, R, y)) => x = y
    /\ \A k \in 0 .. Cardinality(S) - 1 : \E x \in S : Cardinality(Before(S, R, x)) = k

\* The places are the numbers below the size of the set, each once, in the order.
LEMMA Ranks == ASSUME NEW S, IsFiniteSet(S), NEW R, IsOrder(S, R) PROVE Ranked(S, R)
<1> DEFINE n == Cardinality(S)
           place == [x \in S |-> Cardinality(Before(S, R, x))]
<1>1. n \in Nat /\ IsFiniteSet(1 .. n) /\ Cardinality(1 .. n) = n
  BY FS_CardinalityType, FS_Interval
<1>2. ASSUME NEW x \in S PROVE IsFiniteSet(Before(S, R, x)) /\ Cardinality(Before(S, R, x)) \in 0 .. n - 1
  <2>1. Before(S, R, x) \in SUBSET S /\ x \notin Before(S, R, x)
    BY DEF Before, IsOrder
  <2>2. IsFiniteSet(Before(S, R, x)) /\ Cardinality(Before(S, R, x)) <= n
        /\ Cardinality(Before(S, R, x)) # n
    BY <2>1, FS_Subset
  <2>3. Cardinality(Before(S, R, x)) \in Nat
    BY <2>2, FS_CardinalityType
  <2> QED
    BY <1>1, <2>2, <2>3
<1>3. ASSUME NEW x \in S, NEW y \in S, <<x, y>> \in R
      PROVE  Cardinality(Before(S, R, x)) < Cardinality(Before(S, R, y))
  <2>1. Before(S, R, x) \in SUBSET Before(S, R, y)
    BY <1>3 DEF Before, IsOrder
  <2>2. x \in Before(S, R, y) /\ x \notin Before(S, R, x)
    BY <1>3 DEF Before, IsOrder
  <2>3. Cardinality(Before(S, R, x)) <= Cardinality(Before(S, R, y))
        /\ Cardinality(Before(S, R, x)) # Cardinality(Before(S, R, y))
    BY <1>2, <2>1, <2>2, FS_Subset
  <2>4. Cardinality(Before(S, R, x)) \in Int /\ Cardinality(Before(S, R, y)) \in Int
    BY <1>1, <1>2
  <2> QED
    BY <2>3, <2>4
<1>4. \A x, y \in S : <<x, y>> \in R
                 <=> Cardinality(Before(S, R, x)) < Cardinality(Before(S, R, y))
  <2> SUFFICES ASSUME NEW x \in S, NEW y \in S,
                      Cardinality(Before(S, R, x)) < Cardinality(Before(S, R, y)),
                      <<x, y>> \notin R
               PROVE  FALSE
    BY <1>3
  <2>1. x = y \/ <<y, x>> \in R
    BY DEF IsOrder
  <2>2. Cardinality(Before(S, R, x)) \in Int /\ Cardinality(Before(S, R, y)) \in Int
    BY <1>1, <1>2
  <2> QED
    BY <1>3, <2>1, <2>2
<1>5. \A x, y \in S : Cardinality(Before(S, R, x)) = Cardinality(Before(S, R, y)) => x = y
  <2> SUFFICES ASSUME NEW x \in S, NEW y \in S, x # y
               PROVE  Cardinality(Before(S, R, x)) # Cardinality(Before(S, R, y))
    OBVIOUS
  <2>1. <<x, y>> \in R \/ <<y, x>> \in R
    BY DEF IsOrder
  <2>2. Cardinality(Before(S, R, x)) \in Int /\ Cardinality(Before(S, R, y)) \in Int
    BY <1>1, <1>2
  <2> QED
    BY <1>3, <2>1, <2>2
<1> DEFINE next == [x \in S |-> place[x] + 1]
<1>6. next \in Injection(S, 1 .. n)
  <2>1. \A x \in S : next[x] \in 1 .. n
    BY <1>1, <1>2
  <2>2. \A x, y \in S : next[x] = next[y] => x = y
    <3> SUFFICES ASSUME NEW x \in S, NEW y \in S, next[x] = next[y] PROVE x = y
      OBVIOUS
    <3>1. place[x] = place[y]
      BY <1>1, <1>2
    <3> QED
      BY <1>5, <3>1
  <2> HIDE DEF place
  <2> QED
    BY <2>1, <2>2 DEF Injection, IsInjective
<1>7. next \in Surjection(S, 1 .. n)
  BY <1>1, <1>6, FS_Injection
<1>8. ASSUME NEW k \in 0 .. n - 1 PROVE \E x \in S : place[x] = k
  <2>1. k + 1 \in 1 .. n
    BY <1>1
  <2>2. PICK x \in S : next[x] = k + 1
    <3> HIDE DEF next
    <3> QED
      BY <1>7, <2>1, Zenon DEF Surjection
  <2>3. place[x] + 1 = k + 1 /\ place[x] \in Int
    BY <1>1, <1>2, <2>2
  <2> QED
    BY <1>1, <2>3
<1> QED
  BY <1>1, <1>2, <1>4, <1>5, <1>8 DEF Ranked
-----------------------------------------------------------------------------
(* Positions in ascending order.                                           *)

\* Cardinality and the numbers' extremes are the same in the module of the values.
LEMMA SameWords ==
    /\ \A S : Values!Cardinality(S) = Cardinality(S)
    /\ \A S : Values!Min(S) = Min(S) /\ Values!Max(S) = Max(S)
    /\ \A s : Values!ToSet(s) = ToSet(s)
BY DEF Values!Cardinality, Cardinality, Values!Min, Min, Values!Max, Max, Values!ToSet, ToSet

\* The members of a set of numbers below one of them.
Below(S, n) == {m \in S : m < n}

\* InOrder lists every member of a finite set of numbers once, in ascending order.
Listed(S) ==
    /\ Cardinality(S) \in Nat
    /\ Values!InOrder(S) \in [1 .. Cardinality(S) -> S]
    /\ \A k \in 1 .. Cardinality(S) : /\ Values!InOrder(S)[k] \in S
                                      /\ Cardinality(Below(S, Values!InOrder(S)[k])) = k - 1
    /\ \A j, k \in 1 .. Cardinality(S) : j < k <=> Values!InOrder(S)[j] < Values!InOrder(S)[k]
    /\ \A n \in S : Cardinality(Below(S, n)) + 1 \in 1 .. Cardinality(S)
                    /\ Values!InOrder(S)[Cardinality(Below(S, n)) + 1] = n

LEMMA InOrderLists == ASSUME NEW S \in SUBSET Int, IsFiniteSet(S) PROVE Listed(S)
<1> DEFINE R == {p \in S \X S : p[1] < p[2]}
           size == Cardinality(S)
           place(n) == Cardinality(Below(S, n))
           nth(k) == CHOOSE n \in S : place(n) = k - 1
<1>1. \A x, y \in S : <<x, y>> \in R <=> x < y
  OBVIOUS
<1>2. \A x \in S : Before(S, R, x) = Below(S, x)
  BY <1>1 DEF Before, Below
<1>3. IsOrder(S, R)
  <2> HIDE DEF R
  <2> QED
    BY <1>1 DEF IsOrder
<1>4. /\ size \in Nat
      /\ \A x \in S : place(x) \in 0 .. size - 1
      /\ \A x, y \in S : x < y <=> place(x) < place(y)
      /\ \A x, y \in S : place(x) = place(y) => x = y
      /\ \A k \in 0 .. size - 1 : \E x \in S : place(x) = k
  <2> HIDE DEF R
  <2>1. Ranked(S, R)
    BY <1>3, Ranks
  <2> QED
    BY <1>1, <1>2, <2>1 DEF Ranked
<1>5. Values!InOrder(S) = [k \in 1 .. size |-> nth(k)]
  <2>1. Values!InOrder(S) = [k \in 1 .. Values!Cardinality(S) |->
                               CHOOSE n \in S : Values!Cardinality({m \in S : m < n}) = k - 1]
    BY DEF Values!InOrder
  <2>2. \A T : Values!Cardinality(T) = Cardinality(T)
    BY SameWords
  <2> QED
    BY <2>1, <2>2, Zenon DEF Below
<1> HIDE DEF size, place
<1>6. \A k \in 1 .. size : nth(k) \in S /\ place(nth(k)) = k - 1
  <2> SUFFICES ASSUME NEW k \in 1 .. size PROVE nth(k) \in S /\ place(nth(k)) = k - 1
    OBVIOUS
  <2>1. k - 1 \in 0 .. size - 1
    BY <1>4
  <2> QED
    BY <1>4, <2>1
<1> HIDE DEF nth
<1>7. Values!InOrder(S) \in [1 .. size -> S] /\ \A k \in 1 .. size : Values!InOrder(S)[k] = nth(k)
  BY <1>5, <1>6
<1>8. \A j, k \in 1 .. size : j < k <=> nth(j) < nth(k)
  <2> SUFFICES ASSUME NEW j \in 1 .. size, NEW k \in 1 .. size PROVE j < k <=> nth(j) < nth(k)
    OBVIOUS
  <2>1. nth(j) \in S /\ nth(k) \in S /\ place(nth(j)) = j - 1 /\ place(nth(k)) = k - 1
    BY <1>6
  <2>2. nth(j) < nth(k) <=> place(nth(j)) < place(nth(k))
    BY <1>4, <2>1
  <2> QED
    BY <1>4, <2>1, <2>2
<1>9. ASSUME NEW n \in S PROVE place(n) + 1 \in 1 .. size /\ nth(place(n) + 1) = n
  <2>1. place(n) \in 0 .. size - 1
    BY <1>4
  <2>2. place(n) + 1 \in 1 .. size /\ place(n) = (place(n) + 1) - 1
    BY <1>4, <2>1
  <2>3. place(nth(place(n) + 1)) = place(n) /\ nth(place(n) + 1) \in S
    BY <1>6, <2>2
  <2> QED
    BY <1>4, <2>2, <2>3
<1> QED
  BY <1>4, <1>6, <1>7, <1>8, <1>9 DEF size, place, Listed

\* A function that keeps the order of one set of numbers and takes it onto another one.
KeepsOrder(S, T, h) ==
    /\ \A m, n \in S : m < n => h[m] < h[n]
    /\ \A y \in T : \E n \in S : h[n] = y
ListedAlike(S, T, h) ==
    /\ IsFiniteSet(T) /\ Cardinality(T) = Cardinality(S)
    /\ \A k \in 1 .. Cardinality(S) : Values!InOrder(T)[k] = h[Values!InOrder(S)[k]]

\* It takes the places of the one to those of the other.
LEMMA OrderCarriesOver ==
    ASSUME NEW S \in SUBSET Int, IsFiniteSet(S), NEW T \in SUBSET Int, NEW h \in [S -> T],
           KeepsOrder(S, T, h)
    PROVE  ListedAlike(S, T, h)
<1>0. /\ \A m, n \in S : m < n => h[m] < h[n]
      /\ \A y \in T : \E n \in S : h[n] = y
  BY DEF KeepsOrder
<1>1. \A m, n \in S : h[m] = h[n] => m = n
  <2> SUFFICES ASSUME NEW m \in S, NEW n \in S, m # n PROVE h[m] # h[n]
    OBVIOUS
  <2>1. m \in Int /\ n \in Int /\ (m < n \/ n < m)
    OBVIOUS
  <2>2. h[m] \in Int /\ h[n] \in Int
    OBVIOUS
  <2> QED
    BY <1>0, <2>1, <2>2
<1>2. \A m, n \in S : h[m] < h[n] => m < n
  <2> SUFFICES ASSUME NEW m \in S, NEW n \in S, h[m] < h[n], ~ (m < n) PROVE FALSE
    OBVIOUS
  <2>1. m \in Int /\ n \in Int /\ h[m] \in Int /\ h[n] \in Int
    OBVIOUS
  <2>2. m = n \/ n < m
    BY <2>1
  <2> QED
    BY <1>0, <2>1, <2>2
<1>3. ASSUME NEW A \in SUBSET S PROVE /\ IsFiniteSet({h[n] : n \in A})
                                        /\ Cardinality({h[n] : n \in A}) = Cardinality(A)
  <2> DEFINE B == {h[n] : n \in A}
             g == [n \in A |-> h[n]]
  <2>1. IsFiniteSet(A)
    BY FS_Subset
  <2>2. g \in Surjection(A, B) /\ g \in Injection(A, B)
    BY <1>1 DEF Injection, Surjection, IsInjective
  <2>3. Cardinality(B) = Cardinality(A) /\ IsFiniteSet(B)
    <3> HIDE DEF g, B
    <3> QED
      BY <2>1, <2>2, FS_Surjection
  <2> QED
    BY <2>3
<1>4. T = {h[n] : n \in S}
  BY <1>0
<1>5. IsFiniteSet(T) /\ Cardinality(T) = Cardinality(S)
  BY <1>3, <1>4
<1>6. Listed(S) /\ Listed(T)
  BY <1>5, InOrderLists
<1>7. ASSUME NEW k \in 1 .. Cardinality(S) PROVE Values!InOrder(T)[k] = h[Values!InOrder(S)[k]]
  <2> DEFINE n == Values!InOrder(S)[k]
  <2>1. n \in S /\ Cardinality(Below(S, n)) = k - 1 /\ k - 1 + 1 = k
    BY <1>6 DEF Listed
  <2> HIDE DEF n
  <2>2. Below(T, h[n]) = {h[m] : m \in Below(S, n)}
    <3>1. ASSUME NEW y \in T, y < h[n] PROVE \E m \in Below(S, n) : h[m] = y
      BY <1>0, <1>2, <2>1, <3>1 DEF Below
    <3>2. ASSUME NEW m \in Below(S, n) PROVE h[m] \in T /\ h[m] < h[n]
      BY <1>0, <2>1 DEF Below
    <3>3. Below(T, h[n]) = {y \in T : y < h[n]}
      BY DEF Below
    <3> QED
      BY <3>1, <3>2, <3>3
  <2>3. Below(S, n) \in SUBSET S
    BY DEF Below
  <2>4. Cardinality(Below(T, h[n])) = k - 1
    BY <1>3, <2>1, <2>2, <2>3
  <2>5. h[n] \in T
    BY <2>1
  <2>6. Values!InOrder(T)[Cardinality(Below(T, h[n])) + 1] = h[n]
    BY <1>6, <2>5 DEF Listed
  <2> QED
    BY <2>1, <2>4, <2>6 DEF n
<1> QED
  BY <1>5, <1>7 DEF ListedAlike

\* What is kept of a sequence are its members at the positions kept, in their order.
LEMMA KeptMembers ==
    ASSUME NEW U, NEW s \in Seq(U), NEW S \in SUBSET DOMAIN s
    PROVE  /\ IsFiniteSet(S) /\ S \in SUBSET Int /\ Cardinality(S) \in Nat
           /\ Values!Kept(s, S) \in Seq(U)
           /\ Len(Values!Kept(s, S)) = Cardinality(S)
           /\ DOMAIN Values!Kept(s, S) = 1 .. Cardinality(S)
           /\ \A k \in 1 .. Cardinality(S) : /\ Values!InOrder(S)[k] \in S
                                             /\ Values!Kept(s, S)[k] = s[Values!InOrder(S)[k]]
<1>1. Len(s) \in Nat /\ DOMAIN s = 1 .. Len(s)
  OBVIOUS
<1>2. IsFiniteSet(S) /\ S \in SUBSET Int
  <2>1. IsFiniteSet(1 .. Len(s))
    BY <1>1, FS_Interval
  <2> QED
    BY <1>1, <2>1, FS_Subset
<1> DEFINE order == Values!InOrder(S)
<1>3. Cardinality(S) \in Nat /\ order \in [1 .. Cardinality(S) -> S]
  BY <1>2, InOrderLists DEF Listed
<1>4. Values!Kept(s, S) = [k \in 1 .. Cardinality(S) |-> s[order[k]]]
  BY <1>3 DEF Values!Kept
<1> HIDE DEF order
<1>5. \A k \in 1 .. Cardinality(S) : s[order[k]] \in U
  BY <1>3
<1>6. Values!Kept(s, S) \in [1 .. Cardinality(S) -> U]
  BY <1>4, <1>5
<1>7. Values!Kept(s, S) \in Seq(U) /\ Len(Values!Kept(s, S)) = Cardinality(S)
  BY <1>3, <1>6
<1> QED
  BY <1>2, <1>3, <1>4, <1>7 DEF order
-----------------------------------------------------------------------------
(* A section as its entities by id.                                        *)

Kind(s, n) == Values!Ent(s, n).kind
Val(s, n) == Values!Ent(s, n).val
RefsOf(s, n) == Values!Ent(s, n).refs

\* Every id leads to its entity, and every entity is the one of its id.
Found(s) ==
    /\ \A i \in DOMAIN s : Values!Ent(s, s[i].id) = s[i] /\ s[i].id \in Values!Ids(s)
    /\ \A n \in Values!Ids(s) : \E i \in DOMAIN s : s[i].id = n /\ Values!Ent(s, n) = s[i]
    /\ \A n \in Values!Ids(s) : /\ Values!Ent(s, n) \in Values!Entities /\ Values!Ent(s, n).id = n
                           /\ n \in Int /\ Kind(s, n) \in Values!Kinds /\ Val(s, n) \in Int
                           /\ RefsOf(s, n) \in Seq(Int)
    /\ \A e : e \in Values!ToSet(s) <=> e.id \in Values!Ids(s) /\ e = Values!Ent(s, e.id)

LEMMA EveryIdLeads ==
    ASSUME NEW s \in Seq(Values!Entities), Values!HasDistinctIds(s) PROVE Found(s)
<1>1. \A i \in DOMAIN s : s[i] \in Values!Entities
  OBVIOUS
<1>2. ASSUME NEW i \in DOMAIN s PROVE Values!Ent(s, s[i].id) = s[i] /\ s[i].id \in Values!Ids(s)
  <2> DEFINE j == CHOOSE j \in DOMAIN s : s[j].id = s[i].id
  <2>1. j \in DOMAIN s /\ s[j].id = s[i].id
    OBVIOUS
  <2>2. Values!Ent(s, s[i].id) = s[j]
    BY DEF Values!Ent
  <2> HIDE DEF j
  <2>3. j = i
    BY <2>1 DEF Values!HasDistinctIds
  <2> QED
    BY <2>2, <2>3 DEF Values!Ids
<1>3. \A n \in Values!Ids(s) : \E i \in DOMAIN s : s[i].id = n /\ Values!Ent(s, n) = s[i]
  BY <1>2 DEF Values!Ids
<1>4. ASSUME NEW n \in Values!Ids(s)
      PROVE  /\ Values!Ent(s, n) \in Values!Entities /\ Values!Ent(s, n).id = n
             /\ n \in Int /\ Kind(s, n) \in Values!Kinds /\ Val(s, n) \in Int
             /\ RefsOf(s, n) \in Seq(Int)
  <2>1. Values!Ent(s, n) \in Values!Entities /\ Values!Ent(s, n).id = n
    BY <1>1, <1>3
  <2> QED
    BY <2>1 DEF Values!Entities, Kind, Val, RefsOf
<1>5. \A e : e \in Values!ToSet(s) <=> e.id \in Values!Ids(s) /\ e = Values!Ent(s, e.id)
  BY <1>2, <1>3 DEF Values!ToSet
<1> QED
  BY <1>2, <1>3, <1>4, <1>5 DEF Found

\* What refers to what, by ids.
Linked(s) ==
    \A n \in Values!Ids(s) :
        /\ Kind(s, n) \in {"placement", "operator", "plane", "cylinder", "vertex", "face",
                           "edge", "pcurve"} => Len(RefsOf(s, n)) = 1
        /\ Kind(s, n) \in {"curve", "presentation"} => Len(RefsOf(s, n)) >= 1
        /\ Kind(s, n) = "replica" => Len(RefsOf(s, n)) = 2
        /\ \A k \in DOMAIN RefsOf(s, n) :
              /\ RefsOf(s, n)[k] \in Values!Ids(s)
              /\ Kind(s, RefsOf(s, n)[k]) \in Values!Admits(Kind(s, n), k)

\* A curve with a replica is alone of its shape.
Alone(s) ==
    \A n, m \in Values!Ids(s) :
        /\ Kind(s, n) = "replica" /\ Kind(s, RefsOf(s, n)[1]) = "curve" /\ Kind(s, m) = "curve"
        /\ Values!CurveKey(s, RefsOf(s, n)[1]) = Values!CurveKey(s, m)
        => RefsOf(s, n)[1] = m

\* A section is whole if it is so by its ids.
LEMMA WholeById ==
    ASSUME NEW s \in Seq(Values!Entities), Values!HasDistinctIds(s)
    PROVE  Values!Whole(s) <=> Linked(s) /\ Alone(s)
<1>1. Found(s)
  BY EveryIdLeads
<1>2. Values!ReferencesLead(s) <=> Linked(s)
  <2> DEFINE leads(e) ==
               /\ Values!IsComplete(e)
               /\ \A k \in DOMAIN e.refs :
                     \E x \in Values!ToSet(s) : x.id = e.refs[k] /\ x.kind \in Values!Admits(e.kind, k)
             linked(n) ==
               /\ Values!IsComplete(Values!Ent(s, n))
               /\ \A k \in DOMAIN RefsOf(s, n) :
                     /\ RefsOf(s, n)[k] \in Values!Ids(s)
                     /\ Kind(s, RefsOf(s, n)[k]) \in Values!Admits(Kind(s, n), k)
  <2>1. Values!ReferencesLead(s) <=> \A e \in Values!ToSet(s) : leads(e)
    BY DEF Values!ReferencesLead
  <2>2. ASSUME NEW n \in Values!Ids(s) PROVE leads(Values!Ent(s, n)) <=> linked(n)
    <3>1. ASSUME NEW r, NEW k
          PROVE  (\E x \in Values!ToSet(s) : x.id = r /\ x.kind \in Values!Admits(Kind(s, n), k))
                   <=> r \in Values!Ids(s) /\ Kind(s, r) \in Values!Admits(Kind(s, n), k)
      BY <1>1 DEF Found, Kind
    <3> QED
      BY <3>1 DEF Kind, RefsOf
  <2>3. Linked(s) <=> \A n \in Values!Ids(s) : linked(n)
    BY DEF Linked, Values!IsComplete, Values!Surfaces, Values!Consumers, Kind, RefsOf
  <2>4. (\A e \in Values!ToSet(s) : leads(e)) <=> \A n \in Values!Ids(s) : leads(Values!Ent(s, n))
    <3> HIDE DEF leads
    <3> QED
      BY <1>1 DEF Found
  <2> QED
    BY <2>1, <2>2, <2>3, <2>4
<1>3. Values!ReferencesLead(s) => (Values!ReplicatedCurvesStandAlone(s) <=> Alone(s))
  <2> SUFFICES ASSUME Linked(s) PROVE Values!ReplicatedCurvesStandAlone(s) <=> Alone(s)
    BY <1>2
  <2>1. ASSUME Values!ReplicatedCurvesStandAlone(s) PROVE Alone(s)
    <3> SUFFICES ASSUME NEW n \in Values!Ids(s), NEW m \in Values!Ids(s),
                        Kind(s, n) = "replica", Kind(s, RefsOf(s, n)[1]) = "curve",
                        Kind(s, m) = "curve",
                        Values!CurveKey(s, RefsOf(s, n)[1]) = Values!CurveKey(s, m)
                 PROVE  RefsOf(s, n)[1] = m
      BY DEF Alone
    <3>1. RefsOf(s, n)[1] \in Values!Ids(s)
      BY <1>1 DEF Linked, Found
    <3>2. /\ Values!Ent(s, n) \in Values!ToSet(s) /\ Values!Ent(s, RefsOf(s, n)[1]) \in Values!ToSet(s)
          /\ Values!Ent(s, m) \in Values!ToSet(s)
          /\ Values!Ent(s, m).id = m /\ Values!Ent(s, RefsOf(s, n)[1]).id = RefsOf(s, n)[1]
      BY <1>1, <3>1 DEF Found
    <3>3. Values!Ent(s, RefsOf(s, n)[1]) = Values!Ent(s, m)
      BY <2>1, <3>2 DEF Values!ReplicatedCurvesStandAlone, Kind, RefsOf
    <3> QED
      BY <3>2, <3>3
  <2>2. ASSUME Alone(s) PROVE Values!ReplicatedCurvesStandAlone(s)
    <3> SUFFICES ASSUME NEW e \in Values!ToSet(s), NEW c \in Values!ToSet(s), NEW d \in Values!ToSet(s),
                        e.kind = "replica", e.refs[1] = c.id, c.kind = "curve",
                        d.kind = "curve", Values!CurveKey(s, c.id) = Values!CurveKey(s, d.id)
                 PROVE  c = d
      BY DEF Values!ReplicatedCurvesStandAlone
    <3>1. /\ e.id \in Values!Ids(s) /\ c.id \in Values!Ids(s) /\ d.id \in Values!Ids(s)
          /\ e = Values!Ent(s, e.id) /\ c = Values!Ent(s, c.id) /\ d = Values!Ent(s, d.id)
      BY <1>1 DEF Found
    <3>2. RefsOf(s, e.id)[1] = c.id /\ Kind(s, e.id) = "replica" /\ Kind(s, c.id) = "curve"
          /\ Kind(s, d.id) = "curve"
      BY <3>1 DEF RefsOf, Kind
    <3>3. c.id = d.id
      BY <2>2, <3>1, <3>2 DEF Alone
    <3> QED
      BY <3>1, <3>3
  <2> QED
    BY <2>1, <2>2
<1> QED
  BY <1>2, <1>3 DEF Values!Whole

LEMMA WholeGives ==
    ASSUME NEW s, Values!Whole(s)
    PROVE  s \in Seq(Values!Entities) /\ Values!HasDistinctIds(s) /\ Found(s) /\ Linked(s) /\ Alone(s)
BY EveryIdLeads, WholeById DEF Values!Whole
-----------------------------------------------------------------------------
(* What an entity stands for, by ids.                                      *)

\* The kinds an attribute admits.
LEMMA AdmitsTable ==
    ASSUME NEW k
    PROVE  /\ Values!Admits("placement", k) = {"point"} /\ Values!Admits("curve", k) = {"point"}
           /\ Values!Admits("operator", k) = {"point"} /\ Values!Admits("vertex", k) = {"point"}
           /\ Values!Admits("plane", k) = {"placement"} /\ Values!Admits("cylinder", k) = {"placement"}
           /\ Values!Admits("face", k) = {"plane", "cylinder", "replica"}
           /\ Values!Admits("pcurve", k) = {"plane", "cylinder", "replica"}
           /\ Values!Admits("edge", k) = {"curve", "replica"}
           /\ Values!Admits("replica", k) = IF k = 1 THEN {"plane", "cylinder", "curve"}
                                       ELSE {"operator"}
           /\ Values!Admits("presentation", k) = IF k = 1 THEN {"context"} ELSE Values!Consumers
           /\ Values!Admits("layer", k) = Values!Consumers
           /\ Values!Admits("area", k) = Values!Presentations
BY DEF Values!Admits, Values!Surfaces

\* What has no attribute refers to nothing.
LEMMA OthersAdmitNothing ==
    ASSUME NEW kind,
           kind \notin {"placement", "curve", "operator", "vertex", "plane", "cylinder", "face",
                        "pcurve", "edge", "replica", "presentation", "layer", "area"},
           NEW k
    PROVE  Values!Admits(kind, k) = {}
BY DEF Values!Admits, Values!Surfaces

\* The supports: where a reference of each leads.
Supported(s) ==
    /\ \A n \in Values!Ids(s) :
          /\ Kind(s, n) \in {"placement", "operator", "vertex"} =>
                /\ Len(RefsOf(s, n)) = 1 /\ DOMAIN RefsOf(s, n) = {1}
                /\ RefsOf(s, n)[1] \in Values!Ids(s) /\ Kind(s, RefsOf(s, n)[1]) = "point"
          /\ Kind(s, n) = "curve" =>
                /\ Len(RefsOf(s, n)) >= 1 /\ 1 \in DOMAIN RefsOf(s, n)
                /\ \A k \in DOMAIN RefsOf(s, n) : /\ RefsOf(s, n)[k] \in Values!Ids(s)
                                                /\ Kind(s, RefsOf(s, n)[k]) = "point"
          /\ Kind(s, n) \in {"plane", "cylinder"} =>
                /\ Len(RefsOf(s, n)) = 1 /\ DOMAIN RefsOf(s, n) = {1}
                /\ RefsOf(s, n)[1] \in Values!Ids(s) /\ Kind(s, RefsOf(s, n)[1]) = "placement"
    /\ \A n \in Values!Ids(s) :
          /\ Kind(s, n) = "replica" =>
                /\ Len(RefsOf(s, n)) = 2 /\ DOMAIN RefsOf(s, n) = {1, 2}
                /\ RefsOf(s, n)[1] \in Values!Ids(s)
                /\ Kind(s, RefsOf(s, n)[1]) \in {"plane", "cylinder", "curve"}
                /\ RefsOf(s, n)[2] \in Values!Ids(s) /\ Kind(s, RefsOf(s, n)[2]) = "operator"
          /\ Kind(s, n) \in {"face", "pcurve"} =>
                /\ Len(RefsOf(s, n)) = 1 /\ DOMAIN RefsOf(s, n) = {1}
                /\ RefsOf(s, n)[1] \in Values!Ids(s)
                /\ Kind(s, RefsOf(s, n)[1]) \in {"plane", "cylinder", "replica"}
          /\ Kind(s, n) = "edge" =>
                /\ Len(RefsOf(s, n)) = 1 /\ DOMAIN RefsOf(s, n) = {1}
                /\ RefsOf(s, n)[1] \in Values!Ids(s)
                /\ Kind(s, RefsOf(s, n)[1]) \in {"curve", "replica"}
    /\ \A n \in Values!Ids(s) :
          Kind(s, n) \notin {"placement", "curve", "operator", "vertex", "plane", "cylinder",
                             "face", "pcurve", "edge", "replica", "presentation", "layer", "area"}
            => DOMAIN RefsOf(s, n) = {}

LEMMA WholeIsSupported == ASSUME NEW s, Values!Whole(s) PROVE Supported(s)
<1>1. Found(s) /\ Linked(s)
  BY WholeGives
<1>2. \A n \in Values!Ids(s) : /\ RefsOf(s, n) \in Seq(Int) /\ Len(RefsOf(s, n)) \in Nat
                          /\ DOMAIN RefsOf(s, n) = 1 .. Len(RefsOf(s, n))
  BY <1>1 DEF Found
<1>3. ASSUME NEW n \in Values!Ids(s), NEW k \in DOMAIN RefsOf(s, n)
      PROVE  RefsOf(s, n)[k] \in Values!Ids(s) /\ Kind(s, RefsOf(s, n)[k]) \in Values!Admits(Kind(s, n), k)
  BY <1>1, <1>3 DEF Linked
<1>4. ASSUME NEW n \in Values!Ids(s)
      PROVE  /\ Kind(s, n) \in {"placement", "operator", "vertex"} =>
                  /\ Len(RefsOf(s, n)) = 1 /\ DOMAIN RefsOf(s, n) = {1}
                  /\ RefsOf(s, n)[1] \in Values!Ids(s) /\ Kind(s, RefsOf(s, n)[1]) = "point"
             /\ Kind(s, n) = "curve" =>
                  /\ Len(RefsOf(s, n)) >= 1 /\ 1 \in DOMAIN RefsOf(s, n)
                  /\ \A k \in DOMAIN RefsOf(s, n) : /\ RefsOf(s, n)[k] \in Values!Ids(s)
                                                  /\ Kind(s, RefsOf(s, n)[k]) = "point"
             /\ Kind(s, n) \in {"plane", "cylinder"} =>
                  /\ Len(RefsOf(s, n)) = 1 /\ DOMAIN RefsOf(s, n) = {1}
                  /\ RefsOf(s, n)[1] \in Values!Ids(s) /\ Kind(s, RefsOf(s, n)[1]) = "placement"
  <2>1. CASE Kind(s, n) \in {"placement", "operator", "vertex"}
    <3>1. Len(RefsOf(s, n)) = 1
      BY <1>1, <2>1 DEF Linked
    <3>2. DOMAIN RefsOf(s, n) = {1}
      BY <1>2, <3>1
    <3>3. Kind(s, RefsOf(s, n)[1]) \in Values!Admits(Kind(s, n), 1) /\ RefsOf(s, n)[1] \in Values!Ids(s)
      BY <1>3, <3>2
    <3> QED
      BY <2>1, <3>1, <3>2, <3>3, AdmitsTable
  <2>2. CASE Kind(s, n) = "curve"
    <3>1. Len(RefsOf(s, n)) >= 1
      BY <1>1, <2>2 DEF Linked
    <3>2. 1 \in DOMAIN RefsOf(s, n)
      BY <1>2, <3>1
    <3> QED
      BY <1>3, <2>2, <3>1, <3>2, AdmitsTable
  <2>3. CASE Kind(s, n) \in {"plane", "cylinder"}
    <3>1. Len(RefsOf(s, n)) = 1
      BY <1>1, <2>3 DEF Linked
    <3>2. DOMAIN RefsOf(s, n) = {1}
      BY <1>2, <3>1
    <3>3. Kind(s, RefsOf(s, n)[1]) \in Values!Admits(Kind(s, n), 1) /\ RefsOf(s, n)[1] \in Values!Ids(s)
      BY <1>3, <3>2
    <3> QED
      BY <2>3, <3>1, <3>2, <3>3, AdmitsTable
  <2> QED
    BY <2>1, <2>2, <2>3
<1>5. ASSUME NEW n \in Values!Ids(s)
      PROVE  /\ Kind(s, n) = "replica" =>
                  /\ Len(RefsOf(s, n)) = 2 /\ DOMAIN RefsOf(s, n) = {1, 2}
                  /\ RefsOf(s, n)[1] \in Values!Ids(s)
                  /\ Kind(s, RefsOf(s, n)[1]) \in {"plane", "cylinder", "curve"}
                  /\ RefsOf(s, n)[2] \in Values!Ids(s) /\ Kind(s, RefsOf(s, n)[2]) = "operator"
             /\ Kind(s, n) \in {"face", "pcurve"} =>
                  /\ Len(RefsOf(s, n)) = 1 /\ DOMAIN RefsOf(s, n) = {1}
                  /\ RefsOf(s, n)[1] \in Values!Ids(s)
                  /\ Kind(s, RefsOf(s, n)[1]) \in {"plane", "cylinder", "replica"}
             /\ Kind(s, n) = "edge" =>
                  /\ Len(RefsOf(s, n)) = 1 /\ DOMAIN RefsOf(s, n) = {1}
                  /\ RefsOf(s, n)[1] \in Values!Ids(s)
                  /\ Kind(s, RefsOf(s, n)[1]) \in {"curve", "replica"}
  <2>1. CASE Kind(s, n) = "replica"
    <3>1. Len(RefsOf(s, n)) = 2
      BY <1>1, <2>1 DEF Linked
    <3>2. DOMAIN RefsOf(s, n) = {1, 2}
      BY <1>2, <3>1
    <3>3. /\ Kind(s, RefsOf(s, n)[1]) \in Values!Admits(Kind(s, n), 1) /\ RefsOf(s, n)[1] \in Values!Ids(s)
          /\ Kind(s, RefsOf(s, n)[2]) \in Values!Admits(Kind(s, n), 2) /\ RefsOf(s, n)[2] \in Values!Ids(s)
      BY <1>3, <3>2
    <3>4. Values!Admits("replica", 1) = {"plane", "cylinder", "curve"}
          /\ Values!Admits("replica", 2) = {"operator"}
      BY AdmitsTable
    <3> QED
      BY <2>1, <3>1, <3>2, <3>3, <3>4
  <2>2. CASE Kind(s, n) \in {"face", "pcurve", "edge"}
    <3>1. Len(RefsOf(s, n)) = 1
      BY <1>1, <2>2 DEF Linked
    <3>2. DOMAIN RefsOf(s, n) = {1}
      BY <1>2, <3>1
    <3>3. Kind(s, RefsOf(s, n)[1]) \in Values!Admits(Kind(s, n), 1) /\ RefsOf(s, n)[1] \in Values!Ids(s)
      BY <1>3, <3>2
    <3> QED
      BY <2>2, <3>1, <3>2, <3>3, AdmitsTable
  <2> QED
    BY <2>1, <2>2
<1>6. ASSUME NEW n \in Values!Ids(s),
             Kind(s, n) \notin {"placement", "curve", "operator", "vertex", "plane", "cylinder",
                             "face", "pcurve", "edge", "replica", "presentation", "layer", "area"}
      PROVE  DOMAIN RefsOf(s, n) = {}
  BY <1>3, <1>6, OthersAdmitNothing
<1> QED
  BY <1>4, <1>5, <1>6 DEF Supported

\* The shapes by ids.
LEMMA ShapesById ==
    ASSUME NEW s, NEW n
    PROVE  /\ Values!Poles(s, n) = [k \in DOMAIN RefsOf(s, n) |-> Val(s, RefsOf(s, n)[k])]
           /\ Values!Placement(s, n) = Values!Ent(s, RefsOf(s, n)[1])
           /\ Values!Origin(s, n) = Val(s, RefsOf(s, RefsOf(s, n)[1])[1])
           /\ Values!SurfaceKey(s, n) = <<Kind(s, n), Val(s, RefsOf(s, n)[1])>>
           /\ Values!Explicit(s, n) =
                 IF Kind(s, n) = "curve" THEN [class |-> <<"curve">>, at |-> Values!Poles(s, n)]
                 ELSE [class |-> Values!SurfaceKey(s, n), at |-> <<Values!Origin(s, n)>>]
           /\ Kind(s, n) # "replica" => Values!Shape(s, n) = Values!Explicit(s, n)
           /\ Kind(s, n) = "replica" =>
                 Values!Shape(s, n) =
                   [Values!Explicit(s, RefsOf(s, n)[1]) EXCEPT !.at =
                      [k \in DOMAIN @ |-> @[k] + Val(s, RefsOf(s, RefsOf(s, n)[2])[1])]]
BY DEF Values!Poles, Values!Origin, Values!SurfaceKey, Values!Explicit, Values!Shape,
   Values!Placement, Kind, Val, RefsOf
-----------------------------------------------------------------------------
(* What a pass carries over, and that it then has the shape it had.        *)

\* Every entity of D is in t under the id f gives it: of the same kind, if its number means
\* something with the same, and referring to what its references are carried to.
Carries(s, t, D, f) ==
    /\ D \in SUBSET Values!Ids(s) /\ f \in [D -> Values!Ids(t)]
    /\ \A n \in D :
          /\ Kind(t, f[n]) = Kind(s, n)
          /\ Kind(s, n) \in {"point", "placement"} => Val(t, f[n]) = Val(s, n)
          /\ DOMAIN RefsOf(t, f[n]) = DOMAIN RefsOf(s, n)
          /\ \A k \in DOMAIN RefsOf(s, n) : /\ RefsOf(s, n)[k] \in D
                                          /\ RefsOf(t, f[n])[k] = f[RefsOf(s, n)[k]]

\* The shapes of what is carried over.
KeepsShapes(s, t, D, f) ==
    \A n \in D :
        /\ Kind(s, n) = "curve" =>
              Values!Poles(t, f[n]) = Values!Poles(s, n) /\ Values!CurveKey(t, f[n]) = Values!CurveKey(s, n)
        /\ Kind(s, n) \in {"plane", "cylinder"} =>
              Values!Origin(t, f[n]) = Values!Origin(s, n) /\ Values!SurfaceKey(t, f[n]) = Values!SurfaceKey(s, n)
        /\ Kind(s, n) \in {"plane", "cylinder", "curve"} => Values!Explicit(t, f[n]) = Values!Explicit(s, n)
        /\ Kind(s, n) \in {"plane", "cylinder", "curve", "replica"} =>
              Values!Shape(t, f[n]) = Values!Shape(s, n)

LEMMA CarriedShapes ==
    ASSUME NEW s, Supported(s), NEW t, NEW D, NEW f, Carries(s, t, D, f)
    PROVE  KeepsShapes(s, t, D, f)
<1>1. \A n \in D : n \in Values!Ids(s)
  BY DEF Carries
<1>2. ASSUME NEW n \in D, Kind(s, n) = "curve"
      PROVE  /\ Values!Poles(t, f[n]) = Values!Poles(s, n) /\ Values!CurveKey(t, f[n]) = Values!CurveKey(s, n)
             /\ Values!Explicit(t, f[n]) = Values!Explicit(s, n)
  <2>1. ASSUME NEW k \in DOMAIN RefsOf(s, n)
        PROVE  Val(t, RefsOf(t, f[n])[k]) = Val(s, RefsOf(s, n)[k])
    BY <1>1, <1>2 DEF Carries, Supported
  <2>2. Values!Poles(t, f[n]) = [k \in DOMAIN RefsOf(s, n) |-> Val(t, RefsOf(t, f[n])[k])]
        /\ Values!Poles(s, n) = [k \in DOMAIN RefsOf(s, n) |-> Val(s, RefsOf(s, n)[k])]
    BY ShapesById DEF Carries
  <2>3. Values!Poles(t, f[n]) = Values!Poles(s, n)
    BY <2>1, <2>2
  <2>4. Kind(t, f[n]) = "curve"
    BY <1>2 DEF Carries
  <2>5. Values!Explicit(t, f[n]) = Values!Explicit(s, n)
    BY <1>2, <2>3, <2>4, ShapesById
  <2> QED
    BY <2>3, <2>5 DEF Values!CurveKey
<1>3. ASSUME NEW n \in D, Kind(s, n) \in {"plane", "cylinder"}
      PROVE  /\ Values!Origin(t, f[n]) = Values!Origin(s, n) /\ Values!SurfaceKey(t, f[n]) = Values!SurfaceKey(s, n)
             /\ Values!Explicit(t, f[n]) = Values!Explicit(s, n)
  <2> DEFINE p == RefsOf(s, n)[1]
  <2>1. 1 \in DOMAIN RefsOf(s, n) /\ Kind(s, p) = "placement"
    BY <1>1, <1>3 DEF Supported
  <2>2. p \in D /\ RefsOf(t, f[n])[1] = f[p] /\ Kind(t, f[n]) = Kind(s, n)
    BY <2>1 DEF Carries
  <2>3. Val(t, f[p]) = Val(s, p)
    BY <2>1, <2>2 DEF Carries
  <2>4. 1 \in DOMAIN RefsOf(s, p) /\ Kind(s, RefsOf(s, p)[1]) = "point"
    BY <1>1, <2>1, <2>2 DEF Supported
  <2>5. RefsOf(s, p)[1] \in D /\ RefsOf(t, f[p])[1] = f[RefsOf(s, p)[1]]
    BY <2>2, <2>4 DEF Carries
  <2>6. Val(t, f[RefsOf(s, p)[1]]) = Val(s, RefsOf(s, p)[1])
    BY <2>4, <2>5 DEF Carries
  <2>7. Values!Origin(t, f[n]) = Values!Origin(s, n)
    BY <2>2, <2>5, <2>6, ShapesById
  <2>8. Values!SurfaceKey(t, f[n]) = Values!SurfaceKey(s, n)
    BY <2>2, <2>3, ShapesById
  <2> QED
    BY <1>3, <2>2, <2>7, <2>8, ShapesById
<1>4. ASSUME NEW n \in D, Kind(s, n) \in {"plane", "cylinder", "curve"}
      PROVE  Values!Explicit(t, f[n]) = Values!Explicit(s, n) /\ Values!Shape(t, f[n]) = Values!Shape(s, n)
  <2>1. Values!Explicit(t, f[n]) = Values!Explicit(s, n)
    BY <1>2, <1>3, <1>4
  <2>2. Kind(t, f[n]) = Kind(s, n)
    BY DEF Carries
  <2> QED
    BY <1>4, <2>1, <2>2, ShapesById
<1>5. ASSUME NEW n \in D, Kind(s, n) = "replica" PROVE Values!Shape(t, f[n]) = Values!Shape(s, n)
  <2> DEFINE b == RefsOf(s, n)[1]
             o == RefsOf(s, n)[2]
  <2>1. /\ 1 \in DOMAIN RefsOf(s, n) /\ 2 \in DOMAIN RefsOf(s, n)
        /\ Kind(s, b) \in {"plane", "cylinder", "curve"} /\ Kind(s, o) = "operator"
    BY <1>1, <1>5 DEF Supported
  <2>2. /\ b \in D /\ o \in D /\ RefsOf(t, f[n])[1] = f[b] /\ RefsOf(t, f[n])[2] = f[o]
        /\ Kind(t, f[n]) = "replica"
    BY <1>5, <2>1 DEF Carries
  <2>3. 1 \in DOMAIN RefsOf(s, o) /\ Kind(s, RefsOf(s, o)[1]) = "point"
    BY <1>1, <2>1, <2>2 DEF Supported
  <2>4. RefsOf(s, o)[1] \in D /\ RefsOf(t, f[o])[1] = f[RefsOf(s, o)[1]]
    BY <2>2, <2>3 DEF Carries
  <2>5. Val(t, f[RefsOf(s, o)[1]]) = Val(s, RefsOf(s, o)[1])
    BY <2>3, <2>4 DEF Carries
  <2>6. Values!Explicit(t, f[b]) = Values!Explicit(s, b)
    BY <1>4, <2>1, <2>2
  <2>7. Val(t, RefsOf(t, RefsOf(t, f[n])[2])[1]) = Val(s, RefsOf(s, o)[1])
    BY <2>2, <2>4, <2>5
  <2>8. Values!Explicit(t, RefsOf(t, f[n])[1]) = Values!Explicit(s, b)
    BY <2>2, <2>6
  <2>9. Values!Shape(t, f[n]) = [Values!Explicit(t, RefsOf(t, f[n])[1]) EXCEPT !.at =
                              [k \in DOMAIN @ |-> @[k] + Val(t, RefsOf(t, RefsOf(t, f[n])[2])[1])]]
    BY <2>2, ShapesById
  <2>10. Values!Shape(s, n) = [Values!Explicit(s, b) EXCEPT !.at =
                            [k \in DOMAIN @ |-> @[k] + Val(s, RefsOf(s, o)[1])]]
    BY <1>5, ShapesById
  <2> HIDE DEF b, o
  <2> QED
    BY <2>7, <2>8, <2>9, <2>10
<1> QED
  BY <1>2, <1>3, <1>4, <1>5 DEF KeepsShapes

\* A section is whole if all of it is carried over from a whole section.
LEMMA CarriedIsWhole ==
    ASSUME NEW s, Values!Whole(s), NEW t \in Seq(Values!Entities), Values!HasDistinctIds(t),
           NEW f, Carries(s, t, Values!Ids(s), f), \A m \in Values!Ids(t) : \E n \in Values!Ids(s) : f[n] = m
    PROVE  Values!Whole(t)
<1> DEFINE D == Values!Ids(s)
<1>1. Found(s) /\ Linked(s) /\ Alone(s) /\ Supported(s) /\ Found(t)
  BY WholeGives, WholeIsSupported, EveryIdLeads
<1>2. KeepsShapes(s, t, D, f)
  BY <1>1, CarriedShapes
<1>3. ASSUME NEW n \in D
      PROVE  /\ Kind(t, f[n]) = Kind(s, n) /\ Len(RefsOf(t, f[n])) = Len(RefsOf(s, n))
             /\ DOMAIN RefsOf(t, f[n]) = DOMAIN RefsOf(s, n)
  <2>1. DOMAIN RefsOf(t, f[n]) = DOMAIN RefsOf(s, n) /\ f[n] \in Values!Ids(t) /\ Kind(t, f[n]) = Kind(s, n)
    BY DEF Carries
  <2>2. RefsOf(s, n) \in Seq(Int) /\ RefsOf(t, f[n]) \in Seq(Int)
    BY <1>1, <2>1 DEF Found
  <2> QED
    BY <2>1, <2>2
<1>4. Linked(t)
  <2> SUFFICES ASSUME NEW m \in Values!Ids(t)
               PROVE  /\ Kind(t, m) \in {"placement", "operator", "plane", "cylinder", "vertex",
                                         "face", "edge", "pcurve"} => Len(RefsOf(t, m)) = 1
                      /\ Kind(t, m) \in {"curve", "presentation"} => Len(RefsOf(t, m)) >= 1
                      /\ Kind(t, m) = "replica" => Len(RefsOf(t, m)) = 2
                      /\ \A k \in DOMAIN RefsOf(t, m) :
                            /\ RefsOf(t, m)[k] \in Values!Ids(t)
                            /\ Kind(t, RefsOf(t, m)[k]) \in Values!Admits(Kind(t, m), k)
    BY DEF Linked
  <2>1. PICK n \in D : f[n] = m
    OBVIOUS
  <2>2. /\ Kind(s, n) \in {"placement", "operator", "plane", "cylinder", "vertex", "face",
                           "edge", "pcurve"} => Len(RefsOf(s, n)) = 1
        /\ Kind(s, n) \in {"curve", "presentation"} => Len(RefsOf(s, n)) >= 1
        /\ Kind(s, n) = "replica" => Len(RefsOf(s, n)) = 2
    BY <1>1 DEF Linked
  <2>3. ASSUME NEW k \in DOMAIN RefsOf(t, m)
        PROVE  RefsOf(t, m)[k] \in Values!Ids(t) /\ Kind(t, RefsOf(t, m)[k]) \in Values!Admits(Kind(t, m), k)
    <3>1. k \in DOMAIN RefsOf(s, n)
      BY <1>3, <2>1
    <3> DEFINE r == RefsOf(s, n)[k]
    <3>2. r \in D /\ RefsOf(t, m)[k] = f[r] /\ f[r] \in Values!Ids(t)
      BY <2>1, <3>1 DEF Carries
    <3>3. Kind(s, r) \in Values!Admits(Kind(s, n), k)
      BY <1>1, <3>1 DEF Linked
    <3> QED
      BY <1>3, <2>1, <3>2, <3>3
  <2> QED
    BY <1>3, <2>1, <2>2, <2>3
<1>5. Alone(t)
  <2> SUFFICES ASSUME NEW m \in Values!Ids(t), NEW l \in Values!Ids(t),
                      Kind(t, m) = "replica", Kind(t, RefsOf(t, m)[1]) = "curve",
                      Kind(t, l) = "curve", Values!CurveKey(t, RefsOf(t, m)[1]) = Values!CurveKey(t, l)
               PROVE  RefsOf(t, m)[1] = l
    BY DEF Alone
  <2>1. PICK n \in D, d \in D : f[n] = m /\ f[d] = l
    OBVIOUS
  <2>2. Kind(s, n) = "replica" /\ Kind(s, d) = "curve"
    BY <1>3, <2>1
  <2> DEFINE r == RefsOf(s, n)[1]
  <2>3. r \in D /\ RefsOf(t, m)[1] = f[r]
    BY <1>1, <2>1, <2>2 DEF Supported, Carries
  <2>4. Kind(s, r) = "curve"
    BY <1>3, <2>3
  <2>5. Values!CurveKey(s, r) = Values!CurveKey(s, d)
    BY <1>2, <2>1, <2>2, <2>3, <2>4 DEF KeepsShapes
  <2>6. r = d
    BY <1>1, <2>2, <2>4, <2>5 DEF Alone
  <2> QED
    BY <2>1, <2>3, <2>6
<1> QED
  BY <1>4, <1>5, WholeById
-----------------------------------------------------------------------------
(* What the topology means.                                                *)

Users(s) == {i \in DOMAIN s : s[i].kind \in Values!Consumers}
Stands(s, e) ==
    IF e.kind = "vertex" THEN [class |-> <<"vertex">>, at |-> <<Values!Ent(s, e.refs[1]).val>>]
    ELSE Values!Shape(s, e.refs[1])

\* Collecting no topology leaves the topology, in its order.
LEMMA TopologyIsKept ==
    ASSUME NEW g \in Seq(Values!Entities), NEW S \in SUBSET DOMAIN g, Users(g) \subseteq S
    PROVE  Values!Topology(Values!Kept(g, S)) = Values!Topology(g)
<1> DEFINE t == Values!Kept(g, S)
           order == Values!InOrder(S)
           N == Cardinality(S)
<1>1. IsFiniteSet(S) /\ S \in SUBSET Int /\ N \in Nat /\ t \in Seq(Values!Entities)
      /\ DOMAIN t = 1 .. N /\ \A k \in 1 .. N : order[k] \in S /\ t[k] = g[order[k]]
  BY KeptMembers
<1>2. Listed(S)
  BY <1>1, InOrderLists
<1>3. /\ \A j, k \in 1 .. N : j < k <=> order[j] < order[k]
      /\ \A n \in S : Cardinality(Below(S, n)) + 1 \in 1 .. N
                      /\ order[Cardinality(Below(S, n)) + 1] = n
  BY <1>2 DEF Listed
<1> HIDE DEF t, order, N
<1>4. Users(t) = {k \in 1 .. N : g[order[k]].kind \in Values!Consumers}
  BY <1>1 DEF Users
<1> DEFINE h == [k \in Users(t) |-> order[k]]
<1>5. Users(t) \in SUBSET DOMAIN t /\ Users(g) \in SUBSET DOMAIN g
  BY DEF Users
<1>6. /\ IsFiniteSet(Users(t)) /\ Users(t) \in SUBSET Int /\ Cardinality(Users(t)) \in Nat
      /\ DOMAIN Values!Kept(t, Users(t)) = 1 .. Cardinality(Users(t))
      /\ Values!Kept(t, Users(t)) \in Seq(Values!Entities)
      /\ \A k \in 1 .. Cardinality(Users(t)) :
            /\ Values!InOrder(Users(t))[k] \in Users(t)
            /\ Values!Kept(t, Users(t))[k] = t[Values!InOrder(Users(t))[k]]
  BY <1>1, <1>5, KeptMembers
<1>7. /\ Users(g) \in SUBSET Int
      /\ DOMAIN Values!Kept(g, Users(g)) = 1 .. Cardinality(Users(g))
      /\ Values!Kept(g, Users(g)) \in Seq(Values!Entities)
      /\ \A k \in 1 .. Cardinality(Users(g)) :
            Values!Kept(g, Users(g))[k] = g[Values!InOrder(Users(g))[k]]
  BY <1>5, KeptMembers
<1>8. h \in [Users(t) -> Users(g)]
  <2>1. \A k \in Users(t) : order[k] \in Users(g)
    BY <1>1, <1>4 DEF Users
  <2> QED
    BY <2>1
<1>9. \A m, n \in Users(t) : m < n => h[m] < h[n]
  BY <1>3, <1>4
<1>10. \A y \in Users(g) : \E n \in Users(t) : h[n] = y
  <2> SUFFICES ASSUME NEW y \in Users(g) PROVE \E n \in Users(t) : h[n] = y
    OBVIOUS
  <2> DEFINE n == Cardinality(Below(S, y)) + 1
  <2>1. n \in 1 .. N /\ order[n] = y
    BY <1>3
  <2> HIDE DEF n
  <2>2. n \in Users(t)
    BY <1>4, <2>1 DEF Users
  <2> QED
    BY <2>1, <2>2
<1>11. Cardinality(Users(g)) = Cardinality(Users(t))
       /\ \A k \in 1 .. Cardinality(Users(t)) :
             Values!InOrder(Users(g))[k] = h[Values!InOrder(Users(t))[k]]
  <2> HIDE DEF h
  <2>1. KeepsOrder(Users(t), Users(g), h)
    BY <1>9, <1>10 DEF KeepsOrder
  <2>2. ListedAlike(Users(t), Users(g), h)
    BY <1>6, <1>7, <1>8, <2>1, OrderCarriesOver
  <2> QED
    BY <2>2 DEF ListedAlike
<1>12. \A k \in 1 .. Cardinality(Users(t)) :
          Values!Kept(t, Users(t))[k] = Values!Kept(g, Users(g))[k]
  <2> SUFFICES ASSUME NEW k \in 1 .. Cardinality(Users(t))
               PROVE  Values!Kept(t, Users(t))[k] = Values!Kept(g, Users(g))[k]
    OBVIOUS
  <2>1. Values!InOrder(Users(t))[k] \in Users(t) /\ Values!InOrder(Users(t))[k] \in 1 .. N
    BY <1>4, <1>6
  <2>2. t[Values!InOrder(Users(t))[k]] = g[order[Values!InOrder(Users(t))[k]]]
    BY <1>1, <2>1
  <2>3. Values!InOrder(Users(g))[k] = order[Values!InOrder(Users(t))[k]]
    BY <1>11, <2>1
  <2> QED
    BY <1>6, <1>7, <1>11, <2>2, <2>3
<1>13. Values!Kept(t, Users(t)) = Values!Kept(g, Users(g))
  BY <1>6, <1>7, <1>11, <1>12
<1> QED
  BY <1>13 DEF Values!Topology, Users, t

\* A section means what another one meant, if each piece of its topology stands for what
\* the same piece stood for.
LEMMA SameMeaning ==
    ASSUME NEW s \in Seq(Values!Entities), NEW g \in Seq(Values!Entities), NEW t,
           Values!Topology(t) = Values!Topology(g), Users(g) = Users(s),
           \A i \in Users(s) : Stands(t, g[i]) = Stands(s, s[i])
    PROVE  Values!Meaning(t) = Values!Meaning(s)
<1> DEFINE U == Users(s)
           order == Values!InOrder(U)
<1>1. Values!Topology(g) = Values!Kept(g, U) /\ Values!Topology(s) = Values!Kept(s, U)
  BY DEF Values!Topology, Users
<1>2. U \in SUBSET DOMAIN s /\ U \in SUBSET DOMAIN g
  BY DEF Users
<1>3. /\ DOMAIN Values!Kept(s, U) = 1 .. Cardinality(U) /\ DOMAIN Values!Kept(g, U) = 1 .. Cardinality(U)
      /\ \A k \in 1 .. Cardinality(U) : /\ order[k] \in U /\ Values!Kept(s, U)[k] = s[order[k]]
                                        /\ Values!Kept(g, U)[k] = g[order[k]]
  BY <1>2, KeptMembers
<1>4. Values!Meaning(t) = [k \in DOMAIN Values!Topology(t) |-> Stands(t, Values!Topology(t)[k])]
      /\ Values!Meaning(s) = [k \in DOMAIN Values!Topology(s) |-> Stands(s, Values!Topology(s)[k])]
  BY DEF Values!Meaning, Stands
<1> HIDE DEF U, order
<1>5. \A k \in 1 .. Cardinality(U) :
         Stands(t, Values!Topology(t)[k]) = Stands(s, Values!Topology(s)[k])
  BY <1>1, <1>3 DEF U
<1> QED
  BY <1>1, <1>3, <1>4, <1>5

\* A section that is carried over means what it meant.
LEMMA CarriedMeaning ==
    ASSUME NEW s, Values!Whole(s), NEW g \in Seq(Values!Entities), NEW t, NEW D, NEW f,
           Carries(s, t, D, f), Values!Topology(t) = Values!Topology(g), Users(g) = Users(s),
           \A i \in Users(s) : /\ s[i].refs[1] \in D
                               /\ g[i].kind = s[i].kind /\ g[i].refs[1] = f[s[i].refs[1]]
    PROVE  Values!Meaning(t) = Values!Meaning(s)
<1>1. s \in Seq(Values!Entities) /\ Found(s) /\ Supported(s)
  BY WholeGives, WholeIsSupported
<1>2. KeepsShapes(s, t, D, f)
  BY <1>1, CarriedShapes
<1>3. ASSUME NEW i \in Users(s) PROVE Stands(t, g[i]) = Stands(s, s[i])
  <2> DEFINE n == s[i].id
             r == s[i].refs[1]
  <2>1. n \in Values!Ids(s) /\ Kind(s, n) = s[i].kind /\ RefsOf(s, n)[1] = r
        /\ Kind(s, n) \in {"vertex", "face", "edge", "pcurve"}
    BY <1>1 DEF Found, Users, Kind, RefsOf, Values!Consumers
  <2>2. r \in D /\ g[i].kind = s[i].kind /\ g[i].refs[1] = f[r]
    OBVIOUS
  <2>3. CASE s[i].kind = "vertex"
    <3>1. Kind(s, r) = "point"
      BY <1>1, <2>1, <2>3 DEF Supported
    <3>2. Val(t, f[r]) = Val(s, r)
      BY <2>2, <3>1 DEF Carries
    <3> QED
      BY <2>2, <2>3, <3>2 DEF Stands, Val
  <2>4. CASE s[i].kind # "vertex"
    <3>1. Kind(s, r) \in {"plane", "cylinder", "curve", "replica"}
      BY <1>1, <2>1, <2>4 DEF Supported
    <3>2. Values!Shape(t, f[r]) = Values!Shape(s, r)
      BY <1>2, <2>2, <3>1 DEF KeepsShapes
    <3> QED
      BY <2>2, <2>4, <3>2 DEF Stands
  <2> QED
    BY <2>3, <2>4
<1> QED
  BY <1>1, <1>3, SameMeaning
-----------------------------------------------------------------------------
(* Sections changed in place, and collected.                               *)

\* A section whose entities stay in their places and get other ids has them by these.
InItsPlace(s, t, f) ==
    /\ Values!HasDistinctIds(t) /\ Found(t)
    /\ \A i \in DOMAIN s : Values!Ent(t, f[s[i].id]) = t[i] /\ f[s[i].id] \in Values!Ids(t)
    /\ \A m \in Values!Ids(t) : \E i \in DOMAIN s : m = f[s[i].id]
    /\ f \in [Values!Ids(s) -> Values!Ids(t)]

LEMMA InPlace ==
    ASSUME NEW s \in Seq(Values!Entities), NEW t \in Seq(Values!Entities), DOMAIN t = DOMAIN s,
           NEW f, DOMAIN f = Values!Ids(s), f = [n \in DOMAIN f |-> f[n]],
           \A i \in DOMAIN s : t[i].id = f[s[i].id],
           \A i, j \in DOMAIN s : f[s[i].id] = f[s[j].id] => i = j
    PROVE  InItsPlace(s, t, f)
<1>1. Values!HasDistinctIds(t)
  BY DEF Values!HasDistinctIds
<1>2. Found(t)
  BY <1>1, EveryIdLeads
<1>3. \A i \in DOMAIN s : Values!Ent(t, f[s[i].id]) = t[i] /\ f[s[i].id] \in Values!Ids(t)
  BY <1>2 DEF Found
<1>4. \A m \in Values!Ids(t) : \E i \in DOMAIN s : m = f[s[i].id]
  BY DEF Values!Ids
<1>5. \A n \in Values!Ids(s) : f[n] \in Values!Ids(t)
  BY <1>3 DEF Values!Ids
<1> QED
  BY <1>1, <1>2, <1>3, <1>4, <1>5 DEF InItsPlace

\* What is kept of a section is found in it by the ids it had.
IsPart(t, g, S) ==
    /\ t \in Seq(Values!Entities) /\ Values!HasDistinctIds(t) /\ Found(t)
    /\ \A i \in S : g[i].id \in Values!Ids(t) /\ Values!Ent(t, g[i].id) = g[i]
    /\ \A m \in Values!Ids(t) : \E i \in S : g[i].id = m
    /\ \A m \in Values!Ids(t) : m \in Values!Ids(g) /\ Values!Ent(t, m) = Values!Ent(g, m)

LEMMA KeptIsPart ==
    ASSUME NEW g \in Seq(Values!Entities), Values!HasDistinctIds(g), NEW S \in SUBSET DOMAIN g
    PROVE  IsPart(Values!Kept(g, S), g, S)
<1> DEFINE t == Values!Kept(g, S)
           order == Values!InOrder(S)
           N == Cardinality(S)
<1>1. IsFiniteSet(S) /\ S \in SUBSET Int /\ N \in Nat /\ t \in Seq(Values!Entities)
      /\ DOMAIN t = 1 .. N /\ \A k \in 1 .. N : order[k] \in S /\ t[k] = g[order[k]]
  BY KeptMembers
<1>2. Listed(S)
  BY <1>1, InOrderLists
<1>3. /\ \A j, k \in 1 .. N : j < k <=> order[j] < order[k]
      /\ \A n \in S : Cardinality(Below(S, n)) + 1 \in 1 .. N
                      /\ order[Cardinality(Below(S, n)) + 1] = n
  BY <1>2 DEF Listed
<1> HIDE DEF t, order, N
<1>4. Values!HasDistinctIds(t)
  <2> SUFFICES ASSUME NEW j \in 1 .. N, NEW k \in 1 .. N, t[j].id = t[k].id PROVE j = k
    BY <1>1 DEF Values!HasDistinctIds
  <2>1. order[j] = order[k] /\ order[j] \in Int /\ order[k] \in Int
    BY <1>1 DEF Values!HasDistinctIds
  <2>2. ~ (j < k) /\ ~ (k < j)
    BY <1>3, <2>1
  <2> QED
    BY <1>1, <2>2
<1>5. Found(t) /\ Found(g)
  BY <1>1, <1>4, EveryIdLeads
<1>6. ASSUME NEW i \in S PROVE g[i].id \in Values!Ids(t) /\ Values!Ent(t, g[i].id) = g[i]
  <2> DEFINE k == Cardinality(Below(S, i)) + 1
  <2>1. k \in 1 .. N /\ order[k] = i
    BY <1>3
  <2> HIDE DEF k
  <2>2. k \in DOMAIN t /\ t[k] = g[i]
    BY <1>1, <2>1
  <2> QED
    BY <1>5, <2>2 DEF Found
<1>7. \A m \in Values!Ids(t) : \E i \in S : g[i].id = m
  BY <1>1 DEF Values!Ids
<1>8. \A m \in Values!Ids(t) : m \in Values!Ids(g) /\ Values!Ent(t, m) = Values!Ent(g, m)
  <2> SUFFICES ASSUME NEW m \in Values!Ids(t) PROVE m \in Values!Ids(g) /\ Values!Ent(t, m) = Values!Ent(g, m)
    OBVIOUS
  <2>1. PICK i \in S : g[i].id = m
    BY <1>7
  <2>2. i \in DOMAIN g
    OBVIOUS
  <2> QED
    BY <1>5, <1>6, <2>1, <2>2 DEF Found
<1> QED
  BY <1>1, <1>4, <1>5, <1>6, <1>7, <1>8 DEF IsPart, t

\* The pass keeps the section whole and its meaning.
Keeps(s, t) == Values!Whole(t) /\ Values!Meaning(t) = Values!Meaning(s)

\* A section that is changed in place, all of it carried over, is kept.
LEMMA CarriedInPlace ==
    ASSUME NEW s, Values!Whole(s), NEW t \in Seq(Values!Entities), NEW f, InItsPlace(s, t, f),
           DOMAIN t = DOMAIN s,
           \A i \in DOMAIN s :
              /\ t[i].kind = s[i].kind
              /\ s[i].kind \in {"point", "placement"} => t[i].val = s[i].val
              /\ DOMAIN t[i].refs = DOMAIN s[i].refs
              /\ \A k \in DOMAIN s[i].refs : t[i].refs[k] = f[s[i].refs[k]]
    PROVE  Keeps(s, t)
<1>1. s \in Seq(Values!Entities) /\ Found(s) /\ Linked(s) /\ Supported(s)
  BY WholeGives, WholeIsSupported
<1>2. ASSUME NEW n \in Values!Ids(s)
      PROVE  /\ Kind(t, f[n]) = Kind(s, n)
             /\ Kind(s, n) \in {"point", "placement"} => Val(t, f[n]) = Val(s, n)
             /\ DOMAIN RefsOf(t, f[n]) = DOMAIN RefsOf(s, n)
             /\ \A k \in DOMAIN RefsOf(s, n) : /\ RefsOf(s, n)[k] \in Values!Ids(s)
                                             /\ RefsOf(t, f[n])[k] = f[RefsOf(s, n)[k]]
  <2>1. PICK i \in DOMAIN s : s[i].id = n /\ Values!Ent(s, n) = s[i]
    BY <1>1 DEF Found
  <2>2. Values!Ent(t, f[n]) = t[i]
    BY <2>1 DEF InItsPlace
  <2>3. \A k \in DOMAIN RefsOf(s, n) : RefsOf(s, n)[k] \in Values!Ids(s)
    BY <1>1 DEF Linked
  <2> QED
    BY <2>1, <2>2, <2>3 DEF Kind, Val, RefsOf
<1>3. Carries(s, t, Values!Ids(s), f)
  BY <1>2 DEF Carries, InItsPlace
<1>4. \A m \in Values!Ids(t) : \E n \in Values!Ids(s) : f[n] = m
  BY DEF InItsPlace, Values!Ids
<1>5. Values!HasDistinctIds(t)
  BY DEF InItsPlace
<1>6. Values!Whole(t)
  BY <1>3, <1>4, <1>5, CarriedIsWhole
<1>7. Users(t) = Users(s)
  BY DEF Users
<1>8. ASSUME NEW i \in Users(s)
      PROVE  /\ s[i].refs[1] \in Values!Ids(s)
             /\ t[i].kind = s[i].kind /\ t[i].refs[1] = f[s[i].refs[1]]
  <2>1. i \in DOMAIN s /\ s[i].kind \in {"vertex", "face", "edge", "pcurve"}
    BY DEF Users, Values!Consumers
  <2>2. s[i].id \in Values!Ids(s) /\ Kind(s, s[i].id) = s[i].kind /\ RefsOf(s, s[i].id) = s[i].refs
    BY <1>1, <2>1 DEF Found, Kind, RefsOf
  <2>3. 1 \in DOMAIN s[i].refs /\ s[i].refs[1] \in Values!Ids(s)
    BY <1>1, <2>1, <2>2 DEF Supported
  <2> QED
    BY <2>1, <2>3
<1>9. Values!Meaning(t) = Values!Meaning(s)
  BY <1>3, <1>7, <1>8, CarriedMeaning
<1> QED
  BY <1>6, <1>9 DEF Keeps

LEMMA MinifiedKeeps == ASSUME NEW s, Values!Whole(s) PROVE Keeps(s, Values!Minified(s))
<1> DEFINE t == Values!Minified(s)
           f == [n \in Values!Ids(s) |-> n]
<1>1. s \in Seq(Values!Entities) /\ Values!HasDistinctIds(s) /\ Found(s)
  BY WholeGives
<1>2. \A i \in DOMAIN s : s[i] \in Values!Entities
  BY <1>1
<1>3. DOMAIN t = DOMAIN s
  BY DEF Values!Minified
<1>4. ASSUME NEW i \in DOMAIN s
      PROVE  /\ t[i] \in Values!Entities /\ t[i].id = s[i].id /\ t[i].kind = s[i].kind
             /\ t[i].refs = s[i].refs
             /\ s[i].kind \in {"point", "placement"} => t[i].val = s[i].val
  <2>1. t[i] = s[i] \/ (t[i] = [s[i] EXCEPT !.val = Values!Empty]
                        /\ s[i].kind \in {"plane", "cylinder", "curve"})
    BY DEF Values!Minified, Values!Surfaces
  <2>2. Values!Empty \in Int
    BY DEF Values!Empty
  <2> QED
    BY <1>2, <2>1, <2>2 DEF Values!Entities
<1>5. t \in Seq(Values!Entities)
  <2>1. t \in [1 .. Len(s) -> Values!Entities]
    BY <1>1, <1>3, <1>4 DEF Values!Minified
  <2> QED
    BY <1>1, <2>1
<1> HIDE DEF t
<1>6. InItsPlace(s, t, f)
  <2>1. \A i \in DOMAIN s : f[s[i].id] = s[i].id
    BY <1>1 DEF Found
  <2>2. DOMAIN f = Values!Ids(s) /\ f = [n \in DOMAIN f |-> f[n]]
    OBVIOUS
  <2> HIDE DEF f
  <2>3. \A i, j \in DOMAIN s : f[s[i].id] = f[s[j].id] => i = j
    BY <1>1, <2>1 DEF Values!HasDistinctIds
  <2> QED
    BY <1>1, <1>3, <1>4, <1>5, <2>1, <2>2, <2>3, InPlace
<1>7. \A i \in DOMAIN s : \A k \in DOMAIN s[i].refs : t[i].refs[k] = f[s[i].refs[k]]
  <2> SUFFICES ASSUME NEW i \in DOMAIN s, NEW k \in DOMAIN s[i].refs
               PROVE  s[i].refs[k] \in Values!Ids(s)
    BY <1>4
  <2>1. Linked(s)
    BY WholeGives
  <2>2. s[i].id \in Values!Ids(s) /\ RefsOf(s, s[i].id) = s[i].refs
    BY <1>1 DEF Found, RefsOf
  <2> QED
    BY <2>1, <2>2 DEF Linked
<1> HIDE DEF f
<1>8. Keeps(s, t)
  BY <1>3, <1>4, <1>5, <1>6, <1>7, CarriedInPlace
<1> QED
  BY <1>8 DEF t

\* What rewriting the references of a section makes of its entities.
Renames(s, f) == \A i \in DOMAIN s : \A k \in DOMAIN s[i].refs : f[s[i].refs[k]] \in Int
Rewrites(s, f, w) ==
    /\ w \in Seq(Values!Entities) /\ DOMAIN w = DOMAIN s
    /\ \A i \in DOMAIN s :
          /\ w[i].id = s[i].id /\ w[i].kind = s[i].kind /\ w[i].val = s[i].val
          /\ DOMAIN w[i].refs = DOMAIN s[i].refs
          /\ \A k \in DOMAIN s[i].refs : w[i].refs[k] = f[s[i].refs[k]]

LEMMA RewrittenEntities ==
    ASSUME NEW s \in Seq(Values!Entities), NEW f, Renames(s, f)
    PROVE  Rewrites(s, f, Values!Rewritten(s, f))
<1> DEFINE t == Values!Rewritten(s, f)
<1>1. \A i \in DOMAIN s : s[i] \in Values!Entities
  OBVIOUS
<1>2. DOMAIN t = DOMAIN s
  BY DEF Values!Rewritten
<1>3. ASSUME NEW i \in DOMAIN s
      PROVE  /\ t[i] \in Values!Entities /\ t[i].id = s[i].id /\ t[i].kind = s[i].kind
             /\ t[i].val = s[i].val /\ DOMAIN t[i].refs = DOMAIN s[i].refs
             /\ \A k \in DOMAIN s[i].refs : t[i].refs[k] = f[s[i].refs[k]]
  <2> DEFINE r == [k \in DOMAIN s[i].refs |-> f[s[i].refs[k]]]
  <2>1. t[i] = [s[i] EXCEPT !.refs = r]
    BY DEF Values!Rewritten
  <2>2. s[i].refs \in Seq(Int) /\ s[i].id \in Int /\ s[i].kind \in Values!Kinds /\ s[i].val \in Int
    BY <1>1 DEF Values!Entities
  <2>3. r \in [1 .. Len(s[i].refs) -> Int]
    BY <2>2 DEF Renames
  <2>4. r \in Seq(Int)
    <3> HIDE DEF r
    <3> QED
      BY <2>2, <2>3
  <2>5. s[i] \in Values!Entities
    BY <1>1
  <2>6. t[i].refs = r /\ t[i].id = s[i].id /\ t[i].kind = s[i].kind /\ t[i].val = s[i].val
        /\ t[i] \in Values!Entities
    <3> HIDE DEF r, t
    <3> QED
      BY <2>1, <2>4, <2>5 DEF Values!Entities
  <2> QED
    BY <2>6
<1>4. t = [i \in DOMAIN s |-> t[i]]
  BY DEF Values!Rewritten
<1> HIDE DEF t
<1>5. t \in [1 .. Len(s) -> Values!Entities]
  BY <1>3, <1>4
<1>6. t \in Seq(Values!Entities)
  BY <1>5
<1> QED
  BY <1>2, <1>3, <1>6 DEF t, Rewrites

LEMMA RenumberedKeeps == ASSUME NEW s, Values!Whole(s) PROVE Keeps(s, Values!Renumbered(s))
<1> DEFINE dense == [n \in Values!Ids(s) |-> CHOOSE i \in DOMAIN s : s[i].id = n]
           w == Values!Rewritten(s, dense)
           t == Values!Renumbered(s)
<1>1. s \in Seq(Values!Entities) /\ Values!HasDistinctIds(s) /\ Found(s) /\ Linked(s)
  BY WholeGives
<1>2. ASSUME NEW i \in DOMAIN s PROVE dense[s[i].id] = i
  <2>1. s[i].id \in Values!Ids(s)
    BY DEF Values!Ids
  <2>2. dense[s[i].id] = CHOOSE j \in DOMAIN s : s[j].id = s[i].id
    BY <2>1
  <2>3. \A j \in DOMAIN s : s[j].id = s[i].id => j = i
    BY <1>1 DEF Values!HasDistinctIds
  <2> QED
    BY <2>2, <2>3
<1>3. DOMAIN dense = Values!Ids(s) /\ dense = [n \in DOMAIN dense |-> dense[n]]
  OBVIOUS
<1>4. t = [i \in DOMAIN s |-> [w[i] EXCEPT !.id = i]]
  BY DEF Values!Renumbered
<1> HIDE DEF dense
<1>5. \A n \in Values!Ids(s) : dense[n] \in Int
  <2> SUFFICES ASSUME NEW n \in Values!Ids(s) PROVE dense[n] \in Int
    OBVIOUS
  <2>1. PICK i \in DOMAIN s : s[i].id = n
    BY DEF Values!Ids
  <2> QED
    BY <1>1, <1>2, <2>1
<1>6. \A i \in DOMAIN s : \A k \in DOMAIN s[i].refs : dense[s[i].refs[k]] \in Int
  <2> SUFFICES ASSUME NEW i \in DOMAIN s, NEW k \in DOMAIN s[i].refs
               PROVE  s[i].refs[k] \in Values!Ids(s)
    BY <1>5
  <2>1. s[i].id \in Values!Ids(s) /\ RefsOf(s, s[i].id) = s[i].refs
    BY <1>1 DEF Found, RefsOf
  <2> QED
    BY <1>1, <2>1 DEF Linked
<1>7. /\ w \in Seq(Values!Entities) /\ DOMAIN w = DOMAIN s
      /\ \A i \in DOMAIN s : /\ w[i].kind = s[i].kind /\ w[i].val = s[i].val
                             /\ DOMAIN w[i].refs = DOMAIN s[i].refs
                             /\ \A k \in DOMAIN s[i].refs : w[i].refs[k] = dense[s[i].refs[k]]
  BY <1>1, <1>6, RewrittenEntities DEF Renames, Rewrites
<1> HIDE DEF w, t
<1>8. ASSUME NEW i \in DOMAIN s
      PROVE  /\ t[i] \in Values!Entities /\ t[i].id = i /\ t[i].kind = w[i].kind
             /\ t[i].val = w[i].val /\ t[i].refs = w[i].refs
  <2>1. w[i] \in Values!Entities /\ i \in Int
    BY <1>1, <1>7
  <2> QED
    BY <1>4, <2>1 DEF Values!Entities
<1>9. DOMAIN t = DOMAIN s /\ t \in Seq(Values!Entities)
  <2>1. t \in [1 .. Len(s) -> Values!Entities]
    BY <1>1, <1>4, <1>8
  <2> QED
    BY <1>1, <1>4, <2>1
<1>10. InItsPlace(s, t, dense)
  <2>1. \A i, j \in DOMAIN s : dense[s[i].id] = dense[s[j].id] => i = j
    BY <1>2
  <2> QED
    BY <1>1, <1>2, <1>3, <1>8, <1>9, <2>1, InPlace
<1>11. Keeps(s, t)
  BY <1>7, <1>8, <1>9, <1>10, CarriedInPlace
<1> QED
  BY <1>11 DEF t
-----------------------------------------------------------------------------
(* Merged presentations.                                                   *)

\* Sequences put one behind the other make a sequence.
LEMMA Flattened ==
    ASSUME NEW U, NEW n \in Nat, NEW parts \in [1 .. n -> Seq(U)]
    PROVE  Values!FlattenSeq(parts) \in Seq(U)
<1>1. parts \in Seq(Seq(U)) /\ Len(parts) = n
  OBVIOUS
<1>2. CASE n = 0
  <2>1. Values!FlattenSeq(parts) = parts
    BY <1>1, <1>2 DEF Values!FlattenSeq
  <2>2. parts = <<>>
    BY <1>1, <1>2
  <2> QED
    BY <2>1, <2>2
<1>3. CASE n # 0
  <2> DEFINE flatten == CHOOSE f : f = [i \in 1 .. Len(parts) |->
                                         IF i = 1 THEN parts[i] ELSE f[i - 1] \o parts[i]]
             advance == [p \in (1 .. n) \X Seq(U) |-> p[2] \o parts[p[1]]]
             V == Seq(U)
             s == parts[1]
  <2>1. Values!FlattenSeq(parts) = flatten[n]
    BY <1>1, <1>3 DEF Values!FlattenSeq
  <2>2. \A k \in 1 .. n : \A x \in V :
           advance[<<k, x>>] = x \o parts[k] /\ advance[<<k, x>>] \in V
    <3> SUFFICES ASSUME NEW k \in 1 .. n, NEW x \in V
                 PROVE  advance[<<k, x>>] = x \o parts[k] /\ advance[<<k, x>>] \in V
      OBVIOUS
    <3>1. advance[<<k, x>>] = x \o parts[k]
      OBVIOUS
    <3>2. x \o parts[k] \in Seq(U)
      <4>1. x \in Seq(U) /\ parts[k] \in Seq(U)
        OBVIOUS
      <4> QED
        BY <4>1
    <3> QED
      BY <3>1, <3>2
  <2>3. Advances(1, n, V, advance)
    BY <2>2 DEF Advances
  <2>4. 1 <= n /\ s \in V
    BY <1>3
  <2> HIDE DEF advance, flatten, V, s
  <2>5. PICK f : Recursive(1, n, V, s, advance, f)
    BY <2>3, <2>4, Recursion
  <2>6. ASSUME NEW k \in 1 .. n
        PROVE  f[k] = IF k = 1 THEN parts[k] ELSE f[k - 1] \o parts[k]
    <3>1. CASE k = 1
      BY <2>5, <3>1 DEF Recursive, s
    <3>2. CASE k # 1
      <4>1. k > 1 /\ k - 1 \in 1 .. n
        BY <3>2
      <4>2. f[k] = advance[<<k, f[k - 1]>>] /\ f[k - 1] \in V
        BY <2>5, <4>1 DEF Recursive
      <4> QED
        BY <2>2, <3>2, <4>2
    <3> QED
      BY <3>1, <3>2
  <2>7. f = [i \in 1 .. Len(parts) |-> IF i = 1 THEN parts[i] ELSE f[i - 1] \o parts[i]]
    BY <1>1, <2>5, <2>6 DEF Recursive
  <2>8. flatten = [i \in 1 .. Len(parts) |->
                     IF i = 1 THEN parts[i] ELSE flatten[i - 1] \o parts[i]]
    BY <2>7, Zenon DEF flatten
  <2>9. \A k \in 1 .. n : parts[k] \in Seq(U)
    OBVIOUS
  <2> DEFINE Good == {k \in 1 .. n : flatten[k] \in Seq(U)}
  <2>10. 1 \in Good
    BY <1>1, <1>3, <2>8, <2>9
  <2>11. ASSUME NEW k \in 1 .. n, k \in Good, k < n PROVE k + 1 \in Good
    <3>1. k + 1 \in 1 .. n /\ k + 1 # 1 /\ (k + 1) - 1 = k
      BY <2>11
    <3>2. flatten[k + 1] = flatten[k] \o parts[k + 1]
      BY <1>1, <2>8, <3>1
    <3>3. flatten[k] \in Seq(U) /\ parts[k + 1] \in Seq(U)
      BY <2>9, <2>11, <3>1
    <3>4. flatten[k] \o parts[k + 1] \in Seq(U)
      <4> DEFINE a == flatten[k]
                 b == parts[k + 1]
      <4>1. a \in Seq(U) /\ b \in Seq(U)
        BY <3>3
      <4> HIDE DEF a, b
      <4>2. a \o b \in Seq(U)
        BY <4>1
      <4> QED
        BY <4>2 DEF a, b
    <3> QED
      BY <3>1, <3>2, <3>4
  <2>12. n \in Good
    <3> HIDE DEF Good
    <3>1. \A k \in 1 .. n : k \in Good /\ k < n => k + 1 \in Good
      BY <2>11
    <3>2. 1 \in Int /\ n \in Int
      OBVIOUS
    <3>3. \A k \in 1 .. n : k \in Good
      BY <2>10, <3>1, <3>2, StepByStep
    <3> QED
      BY <1>3, <3>3
  <2> QED
    BY <2>1, <2>12
<1> QED
  BY <1>2, <1>3

\* What is neither a presentation nor refers to one.
Geometry(s) == {n \in Values!Ids(s) : Kind(s, n) \notin {"presentation", "layer", "area"}}

\* Geometry refers to geometry.
LEMMA GeometryIsClosed ==
    ASSUME NEW s, Values!Whole(s), NEW n \in Geometry(s), NEW k \in DOMAIN RefsOf(s, n)
    PROVE  RefsOf(s, n)[k] \in Geometry(s)
<1>1. Linked(s) /\ Supported(s)
  BY WholeGives, WholeIsSupported
<1>2. n \in Values!Ids(s) /\ Kind(s, n) \notin {"presentation", "layer", "area"}
  BY DEF Geometry
<1> DEFINE r == RefsOf(s, n)[k]
<1>3. r \in Values!Ids(s) /\ Kind(s, r) \in Values!Admits(Kind(s, n), k)
  BY <1>1, <1>2 DEF Linked
<1>4. Kind(s, n) \in {"placement", "curve", "operator", "vertex", "plane", "cylinder", "face",
                      "pcurve", "edge", "replica"}
  BY <1>2, <1>3, OthersAdmitNothing
<1>5. Values!Admits(Kind(s, n), k) \in
         {{"point"}, {"placement"}, {"plane", "cylinder", "replica"}, {"curve", "replica"},
          {"plane", "cylinder", "curve"}, {"operator"}}
  BY <1>4, AdmitsTable
<1> HIDE DEF r
<1>6. Kind(s, r) \notin {"presentation", "layer", "area"}
  BY <1>3, <1>5
<1> QED
  BY <1>3, <1>6 DEF Geometry, r

\* Curves with replicas stay alone where all geometry is carried over as it is.
LEMMA AloneAsBefore ==
    ASSUME NEW s, Values!Whole(s), NEW t, Linked(t),
           \A m \in Values!Ids(t) : m \in Values!Ids(s) /\ Kind(t, m) = Kind(s, m),
           \A n \in Geometry(s) : n \in Values!Ids(t) /\ Values!Ent(t, n) = Values!Ent(s, n)
    PROVE  /\ Carries(s, t, Geometry(s), [n \in Geometry(s) |-> n])
           /\ Alone(t)
<1> DEFINE D == Geometry(s)
           f == [n \in D |-> n]
<1>1. Alone(s) /\ Supported(s) /\ Linked(s)
  BY WholeGives, WholeIsSupported
<1>2. \A n \in D : Kind(t, n) = Kind(s, n) /\ Val(t, n) = Val(s, n) /\ RefsOf(t, n) = RefsOf(s, n)
  BY DEF Kind, Val, RefsOf
<1>3. Carries(s, t, D, f)
  <2>1. D \in SUBSET Values!Ids(s) /\ f \in [D -> Values!Ids(t)]
    BY DEF Geometry
  <2>2. \A n \in D : \A k \in DOMAIN RefsOf(s, n) : RefsOf(s, n)[k] \in D
    BY GeometryIsClosed
  <2> HIDE DEF D
  <2>3. \A n \in D : f[n] = n
    OBVIOUS
  <2> QED
    BY <1>2, <2>1, <2>2, <2>3 DEF Carries
<1>4. KeepsShapes(s, t, D, f)
  BY <1>1, <1>3, CarriedShapes
<1>5. Alone(t)
  <2> SUFFICES ASSUME NEW n \in Values!Ids(t), NEW m \in Values!Ids(t),
                      Kind(t, n) = "replica", Kind(t, RefsOf(t, n)[1]) = "curve",
                      Kind(t, m) = "curve", Values!CurveKey(t, RefsOf(t, n)[1]) = Values!CurveKey(t, m)
               PROVE  RefsOf(t, n)[1] = m
    BY DEF Alone
  <2> DEFINE r == RefsOf(s, n)[1]
  <2>1. n \in D /\ m \in D /\ Kind(s, n) = "replica" /\ Kind(s, m) = "curve"
    BY DEF Geometry
  <2>2. RefsOf(t, n) = RefsOf(s, n)
    BY <1>2, <2>1
  <2>3. 1 \in DOMAIN RefsOf(s, n) /\ r \in D
    BY <1>1, <2>1, GeometryIsClosed DEF Geometry, Supported
  <2>4. Kind(s, r) = "curve"
    BY <1>2, <2>2, <2>3
  <2>5. Values!CurveKey(s, r) = Values!CurveKey(s, m)
    <3>1. f[r] = r /\ f[m] = m
      BY <2>1, <2>3
    <3>2. Values!CurveKey(t, r) = Values!CurveKey(s, r) /\ Values!CurveKey(t, m) = Values!CurveKey(s, m)
      BY <1>4, <2>1, <2>3, <2>4, <3>1 DEF KeepsShapes
    <3> QED
      BY <2>2, <3>2
  <2>6. r = m
    BY <1>1, <2>1, <2>3, <2>4, <2>5 DEF Alone, Geometry
  <2> QED
    BY <2>2, <2>6
<1> QED
  BY <1>3, <1>5

\* What a presentation or layer assigns its name to.
TopologyIds(s) == {n \in Values!Ids(s) : Kind(s, n) \in Values!Consumers}

LEMMA ItemsAreTopology ==
    ASSUME NEW s, Values!Whole(s), NEW i \in DOMAIN s, s[i].kind \in {"presentation", "layer"}
    PROVE  Values!Items(s[i]) \in Seq(TopologyIds(s))
<1> DEFINE T == TopologyIds(s)
           n == s[i].id
           r == s[i].refs
<1>1. Found(s) /\ Linked(s) /\ s \in Seq(Values!Entities)
  BY WholeGives
<1>2. n \in Values!Ids(s) /\ Kind(s, n) = s[i].kind /\ RefsOf(s, n) = r /\ r \in Seq(Int)
  BY <1>1 DEF Found, Kind, RefsOf
<1>3. \A k \in DOMAIN r : r[k] \in Values!Ids(s) /\ Kind(s, r[k]) \in Values!Admits(s[i].kind, k)
  BY <1>1, <1>2 DEF Linked
<1>4. CASE s[i].kind = "layer"
  <2>1. \A k \in 1 .. Len(r) : r[k] \in T
    BY <1>2, <1>3, <1>4, AdmitsTable DEF TopologyIds
  <2>2. Values!Items(s[i]) = r
    BY <1>4 DEF Values!Items
  <2> HIDE DEF r
  <2> QED
    BY <1>2, <2>1, <2>2
<1>5. CASE s[i].kind = "presentation"
  <2>1. Len(r) >= 1
    BY <1>1, <1>2, <1>5 DEF Linked
  <2>2. \A k \in 2 .. Len(r) : r[k] \in T
    BY <1>2, <1>3, <1>5, AdmitsTable DEF TopologyIds
  <2>3. Values!Items(s[i]) = Tail(r)
    BY <1>5 DEF Values!Items
  <2> HIDE DEF r
  <2>4. Len(Tail(r)) \in Nat /\ Len(Tail(r)) = Len(r) - 1 /\ Tail(r) \in Seq(Int)
        /\ \A k \in 1 .. Len(r) - 1 : Tail(r)[k] = r[k + 1]
    BY <1>2, <2>1
  <2>5. \A k \in 1 .. Len(Tail(r)) : Tail(r)[k] \in T
    BY <1>2, <2>2, <2>4
  <2> DEFINE q == Tail(r)
  <2>6. q \in Seq(T)
    <3>1. q \in Seq(Int) /\ \A k \in 1 .. Len(q) : q[k] \in T
      BY <2>4, <2>5
    <3> HIDE DEF q, T
    <3> QED
      BY <3>1
  <2> QED
    BY <2>3, <2>6
<1> QED
  BY <1>4, <1>5
\* The section with its presentations grown: an entity is as it was, or a presentation or
\* layer with further items.
Grown(s, g) ==
    /\ g \in Seq(Values!Entities) /\ DOMAIN g = DOMAIN s
    /\ \A i \in DOMAIN s :
          \/ g[i] = s[i]
          \/ /\ s[i].kind \in {"presentation", "layer"}
             /\ \E x \in Seq(TopologyIds(s)) : g[i] = [s[i] EXCEPT !.refs = s[i].refs \o x]

LEMMA GrownEntities ==
    ASSUME NEW s, Values!Whole(s), NEW g, Grown(s, g), NEW i \in DOMAIN s
    PROVE  /\ g[i].id = s[i].id /\ g[i].kind = s[i].kind /\ Len(g[i].refs) >= Len(s[i].refs)
           /\ s[i].kind \notin {"presentation", "layer"} => g[i] = s[i]
           /\ \A k \in DOMAIN g[i].refs :
                 /\ g[i].refs[k] \in Values!Ids(s)
                 /\ Kind(s, g[i].refs[k]) \in Values!Admits(s[i].kind, k)
                 /\ g[i].refs[k] \in Values!ToSet(s[i].refs) \cup TopologyIds(s)
<1> DEFINE n == s[i].id
           r == s[i].refs
<1>1. Found(s) /\ Linked(s) /\ s \in Seq(Values!Entities)
  BY WholeGives
<1>2. n \in Values!Ids(s) /\ Kind(s, n) = s[i].kind /\ RefsOf(s, n) = r /\ r \in Seq(Int)
      /\ s[i] \in Values!Entities
  BY <1>1 DEF Found, Kind, RefsOf
<1>3. \A k \in DOMAIN r : /\ r[k] \in Values!Ids(s) /\ Kind(s, r[k]) \in Values!Admits(s[i].kind, k)
                          /\ r[k] \in Values!ToSet(r)
  BY <1>1, <1>2 DEF Linked, Values!ToSet
<1>4. CASE g[i] = s[i]
  BY <1>2, <1>3, <1>4
<1>5. CASE g[i] # s[i]
  <2>1. s[i].kind \in {"presentation", "layer"}
    BY <1>5 DEF Grown
  <2>2. PICK x \in Seq(TopologyIds(s)) : g[i] = [s[i] EXCEPT !.refs = r \o x]
    BY <1>5 DEF Grown
  <2>3. g[i].id = n /\ g[i].kind = s[i].kind /\ g[i].refs = r \o x
    BY <1>2, <2>2 DEF Values!Entities
  <2>4. s[i].kind = "presentation" => Len(r) >= 1
    BY <1>1, <1>2 DEF Linked
  <2>5. \A k \in DOMAIN x : x[k] \in TopologyIds(s)
    BY <2>2
  <2> HIDE DEF r, n
  <2>6. /\ Len(r) \in Nat /\ Len(x) \in Nat /\ Len(r \o x) = Len(r) + Len(x)
        /\ DOMAIN r = 1 .. Len(r) /\ DOMAIN x = 1 .. Len(x)
        /\ DOMAIN (r \o x) = 1 .. Len(r) + Len(x)
        /\ \A k \in 1 .. Len(r) + Len(x) :
              (r \o x)[k] = IF k <= Len(r) THEN r[k] ELSE x[k - Len(r)]
    BY <1>2, <2>2
  <2>7. ASSUME NEW k \in DOMAIN g[i].refs
        PROVE  /\ g[i].refs[k] \in Values!Ids(s) /\ Kind(s, g[i].refs[k]) \in Values!Admits(s[i].kind, k)
               /\ g[i].refs[k] \in Values!ToSet(r) \cup TopologyIds(s)
    <3>1. k \in 1 .. Len(r) + Len(x)
      BY <2>3, <2>6
    <3>2. CASE k <= Len(r)
      <4>1. k \in DOMAIN r /\ g[i].refs[k] = r[k]
        BY <2>3, <2>6, <3>1, <3>2
      <4> QED
        BY <1>3, <4>1
    <3>3. CASE ~ (k <= Len(r))
      <4>1. k - Len(r) \in DOMAIN x /\ g[i].refs[k] = x[k - Len(r)] /\ k # 0
        BY <2>3, <2>6, <3>1, <3>3
      <4>2. g[i].refs[k] \in TopologyIds(s)
        BY <2>5, <4>1
      <4>3. s[i].kind = "presentation" => k # 1
        BY <2>4, <2>6, <3>1, <3>3
      <4>4. Values!Admits(s[i].kind, k) = Values!Consumers
        BY <2>1, <4>3, AdmitsTable
      <4> QED
        BY <4>2, <4>4 DEF TopologyIds
    <3> QED
      BY <3>2, <3>3
  <2>8. Len(g[i].refs) >= Len(r)
    BY <2>3, <2>6
  <2> QED
    BY <1>5, <2>1, <2>3, <2>7, <2>8 DEF r, n
<1> QED
  BY <1>4, <1>5

\* Grown presentations, and others to which nothing refers collected, keep the section.
LEMMA GrownKeeps ==
    ASSUME NEW s, Values!Whole(s), NEW g, Grown(s, g), NEW gone \in SUBSET Values!Roots(s)
    PROVE  Keeps(s, Values!Kept(g, DOMAIN s \ gone))
<1> DEFINE S == DOMAIN s \ gone
           t == Values!Kept(g, S)
<1>1. s \in Seq(Values!Entities) /\ Values!HasDistinctIds(s) /\ Found(s) /\ Linked(s) /\ Supported(s)
  BY WholeGives, WholeIsSupported
<1>2. g \in Seq(Values!Entities) /\ DOMAIN g = DOMAIN s
  BY DEF Grown
<1>3. \A i \in DOMAIN s :
         /\ g[i].id = s[i].id /\ g[i].kind = s[i].kind /\ Len(g[i].refs) >= Len(s[i].refs)
         /\ s[i].kind \notin {"presentation", "layer"} => g[i] = s[i]
         /\ \A k \in DOMAIN g[i].refs :
               /\ g[i].refs[k] \in Values!Ids(s)
               /\ Kind(s, g[i].refs[k]) \in Values!Admits(s[i].kind, k)
               /\ g[i].refs[k] \in Values!ToSet(s[i].refs) \cup TopologyIds(s)
  BY GrownEntities
<1>4. Values!HasDistinctIds(g)
  BY <1>1, <1>2, <1>3 DEF Values!HasDistinctIds
<1>5. IsPart(t, g, S)
  BY <1>2, <1>4, KeptIsPart
<1>6. \A i \in gone : s[i].kind \in {"presentation", "layer"} /\ Values!Parents(s, s[i].id) = {}
  BY DEF Values!Roots, Values!Presentations
<1> HIDE DEF t
<1>7. ASSUME NEW i \in S
      PROVE  /\ s[i].id \in Values!Ids(t) /\ s[i].id \in Values!Ids(s) /\ Values!Ent(t, s[i].id) = g[i]
             /\ Values!Ent(s, s[i].id) = s[i] /\ Kind(t, s[i].id) = Kind(s, s[i].id)
             /\ Kind(s, s[i].id) = s[i].kind /\ RefsOf(s, s[i].id) = s[i].refs
             /\ RefsOf(t, s[i].id) = g[i].refs
  BY <1>1, <1>3, <1>5 DEF IsPart, Found, Kind, RefsOf
<1>8. \A m \in Values!Ids(t) : \E i \in S : s[i].id = m
  BY <1>3, <1>5 DEF IsPart
<1>9. ASSUME NEW i \in S, NEW k \in DOMAIN g[i].refs
      PROVE  /\ g[i].refs[k] \in Values!Ids(t)
             /\ Kind(t, g[i].refs[k]) = Kind(s, g[i].refs[k])
  <2> DEFINE r == g[i].refs[k]
  <2>1. r \in Values!Ids(s) /\ r \in Values!ToSet(s[i].refs) \cup TopologyIds(s)
    BY <1>3
  <2>2. PICK j \in DOMAIN s : s[j].id = r
    BY <2>1 DEF Values!Ids
  <2> HIDE DEF r
  <2>3. j \notin gone
    <3> SUFFICES ASSUME j \in gone PROVE FALSE
      OBVIOUS
    <3>1. Values!Parents(s, r) = {} /\ s[j].kind \in {"presentation", "layer"}
      BY <1>6, <2>2
    <3>2. CASE r \in Values!ToSet(s[i].refs)
      <4>1. s[i] \in Values!ToSet(s)
        BY DEF Values!ToSet
      <4>2. s[i].id \in Values!Parents(s, r)
        BY <3>2, <4>1 DEF Values!Parents
      <4> QED
        BY <3>1, <4>2
    <3>3. CASE r \in TopologyIds(s)
      <4>1. s[j].kind \in Values!Consumers
        BY <1>1, <2>2, <3>3 DEF TopologyIds, Found, Kind
      <4> QED
        BY <3>1, <4>1 DEF Values!Consumers
    <3> QED
      BY <2>1, <3>2, <3>3
  <2>4. j \in S
    BY <2>3
  <2> QED
    BY <1>7, <2>2, <2>4 DEF r
<1>10. Linked(t)
  <2> SUFFICES ASSUME NEW m \in Values!Ids(t)
               PROVE  /\ Kind(t, m) \in {"placement", "operator", "plane", "cylinder", "vertex",
                                         "face", "edge", "pcurve"} => Len(RefsOf(t, m)) = 1
                      /\ Kind(t, m) \in {"curve", "presentation"} => Len(RefsOf(t, m)) >= 1
                      /\ Kind(t, m) = "replica" => Len(RefsOf(t, m)) = 2
                      /\ \A k \in DOMAIN RefsOf(t, m) :
                            /\ RefsOf(t, m)[k] \in Values!Ids(t)
                            /\ Kind(t, RefsOf(t, m)[k]) \in Values!Admits(Kind(t, m), k)
    BY DEF Linked
  <2>1. PICK i \in S : s[i].id = m
    BY <1>8
  <2>2. /\ m \in Values!Ids(s) /\ Kind(t, m) = s[i].kind /\ Kind(s, m) = s[i].kind
        /\ RefsOf(s, m) = s[i].refs /\ RefsOf(t, m) = g[i].refs
    BY <1>7, <2>1
  <2>3. \A k \in DOMAIN RefsOf(t, m) : /\ RefsOf(t, m)[k] \in Values!Ids(t)
                                     /\ Kind(t, RefsOf(t, m)[k]) \in Values!Admits(Kind(t, m), k)
    BY <1>3, <1>9, <2>2
  <2>4. /\ Kind(s, m) \in {"placement", "operator", "plane", "cylinder", "vertex", "face", "edge",
                           "pcurve"} => Len(RefsOf(s, m)) = 1
        /\ Kind(s, m) \in {"curve", "presentation"} => Len(RefsOf(s, m)) >= 1
        /\ Kind(s, m) = "replica" => Len(RefsOf(s, m)) = 2
    BY <1>1, <2>2 DEF Linked
  <2>5. CASE s[i].kind \notin {"presentation", "layer"}
    <3>1. RefsOf(t, m) = RefsOf(s, m) /\ Kind(t, m) = Kind(s, m)
      BY <1>3, <2>2, <2>5
    <3> QED
      BY <2>3, <2>4, <3>1
  <2>6. CASE s[i].kind \in {"presentation", "layer"}
    <3>1. Kind(t, m) = "presentation" => Len(RefsOf(s, m)) >= 1
      BY <2>2, <2>4
    <3>2. RefsOf(s, m) \in Seq(Int) /\ RefsOf(t, m) \in Seq(Int)
      BY <1>1, <1>5, <2>2 DEF Found, IsPart
    <3>3. Kind(t, m) = "presentation" => Len(RefsOf(t, m)) >= 1
      BY <1>3, <2>2, <3>1, <3>2
    <3> QED
      BY <2>2, <2>3, <2>6, <3>3
  <2> QED
    BY <2>5, <2>6
<1>11. \A m \in Values!Ids(t) : m \in Values!Ids(s) /\ Kind(t, m) = Kind(s, m)
  BY <1>7, <1>8
<1>12. \A n \in Geometry(s) : n \in Values!Ids(t) /\ Values!Ent(t, n) = Values!Ent(s, n)
  <2> SUFFICES ASSUME NEW n \in Geometry(s) PROVE n \in Values!Ids(t) /\ Values!Ent(t, n) = Values!Ent(s, n)
    OBVIOUS
  <2>1. PICK i \in DOMAIN s : s[i].id = n /\ Values!Ent(s, n) = s[i]
    BY <1>1 DEF Found, Geometry
  <2>2. s[i].kind \notin {"presentation", "layer"}
    BY <2>1 DEF Geometry, Kind
  <2>3. i \in S
    BY <1>6, <2>2
  <2> QED
    BY <1>3, <1>7, <2>1, <2>2, <2>3
<1>13. Carries(s, t, Geometry(s), [n \in Geometry(s) |-> n]) /\ Alone(t)
  BY <1>10, <1>11, <1>12, AloneAsBefore
<1>14. Values!Whole(t)
  BY <1>5, <1>10, <1>13, WholeById DEF IsPart
<1>15. Users(g) = Users(s) /\ Users(g) \subseteq S
  BY <1>2, <1>3, <1>6 DEF Users, Values!Consumers
<1>16. Values!Topology(t) = Values!Topology(g)
  <2>1. S \in SUBSET DOMAIN g
    BY <1>2
  <2> QED
    BY <1>2, <1>15, <2>1, TopologyIsKept DEF t
<1>17. ASSUME NEW i \in Users(s)
       PROVE  /\ s[i].refs[1] \in Geometry(s) /\ g[i].kind = s[i].kind
              /\ g[i].refs[1] = [n \in Geometry(s) |-> n][s[i].refs[1]]
  <2>1. i \in DOMAIN s /\ s[i].kind \in {"vertex", "face", "edge", "pcurve"}
    BY DEF Users, Values!Consumers
  <2>2. s[i].id \in Geometry(s) /\ RefsOf(s, s[i].id) = s[i].refs /\ Kind(s, s[i].id) = s[i].kind
    BY <1>1, <2>1 DEF Found, Kind, RefsOf, Geometry
  <2>3. 1 \in DOMAIN RefsOf(s, s[i].id)
    BY <1>1, <2>1, <2>2 DEF Supported, Geometry
  <2>4. s[i].refs[1] \in Geometry(s)
    BY <2>2, <2>3, GeometryIsClosed
  <2> QED
    BY <1>3, <2>1, <2>4
<1>18. Values!Meaning(t) = Values!Meaning(s)
  BY <1>2, <1>13, <1>15, <1>16, <1>17, CarriedMeaning
<1> QED
  BY <1>14, <1>18 DEF Keeps, t

LEMMA ConsolidatedKeeps == ASSUME NEW s, Values!Whole(s) PROVE Keeps(s, Values!Consolidated(s))
<1> DEFINE roots == Values!Roots(s)
           heads == {i \in roots : \A j \in roots : Values!GroupKey(s[j]) = Values!GroupKey(s[i]) => i <= j}
           from(i) == Values!Merged(s, roots, i)
           parts(i) == [k \in DOMAIN from(i) |-> Values!Items(s[from(i)[k]])]
           more(i) == Values!FlattenSeq(parts(i))
           g == [i \in DOMAIN s |->
                   IF i \in heads THEN [s[i] EXCEPT !.refs = @ \o more(i)] ELSE s[i]]
<1>1. Values!Consolidated(s) = Values!Kept(g, DOMAIN s \ (roots \ heads))
  BY DEF Values!Consolidated
<1>2. s \in Seq(Values!Entities) /\ \A i \in DOMAIN s : s[i] \in Values!Entities
  BY WholeGives
<1>3. roots \in SUBSET DOMAIN s /\ \A i \in roots : s[i].kind \in {"presentation", "layer"}
  BY DEF Values!Roots, Values!Presentations
<1> HIDE DEF roots
<1>4. heads \in SUBSET roots
  OBVIOUS
<1> HIDE DEF heads
<1>5. ASSUME NEW i \in DOMAIN s PROVE more(i) \in Seq(TopologyIds(s))
  <2> DEFINE A == {j \in roots : j > i /\ Values!GroupKey(s[j]) = Values!GroupKey(s[i])}
  <2>1. A \in SUBSET DOMAIN s /\ A \in SUBSET roots
    BY <1>3
  <2>2. from(i) = Values!InOrder(A)
    BY DEF Values!Merged
  <2> HIDE DEF A
  <2>3. IsFiniteSet(A) /\ A \in SUBSET Int
    BY <1>2, <2>1, KeptMembers
  <2>4. Cardinality(A) \in Nat /\ from(i) \in [1 .. Cardinality(A) -> A]
    BY <2>2, <2>3, InOrderLists DEF Listed
  <2> HIDE DEF from
  <2>5. \A k \in 1 .. Cardinality(A) : Values!Items(s[from(i)[k]]) \in Seq(TopologyIds(s))
    <3> SUFFICES ASSUME NEW k \in 1 .. Cardinality(A)
                 PROVE  Values!Items(s[from(i)[k]]) \in Seq(TopologyIds(s))
      OBVIOUS
    <3>1. from(i)[k] \in roots
      BY <2>1, <2>4
    <3>2. from(i)[k] \in DOMAIN s /\ s[from(i)[k]].kind \in {"presentation", "layer"}
      BY <1>3, <3>1
    <3> QED
      BY <3>2, ItemsAreTopology
  <2>6. parts(i) \in [1 .. Cardinality(A) -> Seq(TopologyIds(s))]
    BY <2>4, <2>5
  <2> HIDE DEF parts
  <2> QED
    BY <2>4, <2>6, Flattened
<1> HIDE DEF more
<1>6. ASSUME NEW i \in DOMAIN s
      PROVE  /\ g[i] \in Values!Entities
             /\ \/ g[i] = s[i]
                \/ /\ s[i].kind \in {"presentation", "layer"}
                   /\ \E x \in Seq(TopologyIds(s)) : g[i] = [s[i] EXCEPT !.refs = s[i].refs \o x]
  <2>1. CASE i \notin heads
    BY <1>2, <2>1
  <2>2. CASE i \in heads
    <3>1. g[i] = [s[i] EXCEPT !.refs = s[i].refs \o more(i)]
      BY <2>2
    <3>2. s[i].kind \in {"presentation", "layer"}
      BY <1>3, <1>4, <2>2
    <3>3. s[i].refs \in Seq(Int) /\ s[i] \in Values!Entities
      BY <1>2 DEF Values!Entities
    <3>4. TopologyIds(s) \subseteq Int
      <4>1. Found(s)
        BY WholeGives
      <4> QED
        BY <4>1 DEF TopologyIds, Found
    <3>5. s[i].refs \o more(i) \in Seq(Int)
      <4> DEFINE a == s[i].refs
                 b == more(i)
                 T == TopologyIds(s)
      <4>1. a \in Seq(Int) /\ b \in Seq(T) /\ T \subseteq Int
        BY <1>5, <3>3, <3>4
      <4> HIDE DEF a, b, T
      <4>2. b \in Seq(Int)
        <5>1. Len(b) \in Nat /\ b \in [1 .. Len(b) -> T]
          BY <4>1
        <5>2. b \in [1 .. Len(b) -> Int]
          BY <4>1, <5>1
        <5> QED
          BY <5>1, <5>2
      <4>3. a \o b \in Seq(Int)
        BY <4>1, <4>2
      <4> QED
        BY <4>3 DEF a, b
    <3>6. g[i] \in Values!Entities
      <4> HIDE DEF g
      <4> QED
        BY <3>1, <3>3, <3>5 DEF Values!Entities
    <3> QED
      BY <1>5, <3>1, <3>2, <3>6
  <2> QED
    BY <2>1, <2>2
<1>7. g = [i \in DOMAIN s |-> g[i]]
  OBVIOUS
<1> HIDE DEF g
<1>8. g \in [1 .. Len(s) -> Values!Entities]
  BY <1>2, <1>6, <1>7
<1>9. g \in Seq(Values!Entities) /\ DOMAIN g = DOMAIN s
  BY <1>2, <1>7, <1>8
<1>10. Grown(s, g)
  BY <1>6, <1>9 DEF Grown
<1>11. roots \ heads \in SUBSET Values!Roots(s)
  BY DEF roots
<1> QED
  BY <1>1, <1>10, <1>11, GrownKeeps
-----------------------------------------------------------------------------
(* Equal values made one.                                                  *)

Leaf(n) == [kind |-> "entity", val |-> n, refs |-> <<>>]
Unrolled(s, below) ==
    [n \in Values!Ids(s) |->
        IF Kind(s, n) \in Values!Internable
        THEN [kind |-> Kind(s, n), val |-> Val(s, n),
              refs |-> [k \in DOMAIN RefsOf(s, n) |-> below[RefsOf(s, n)[k]]]]
        ELSE Leaf(n)]
Unrolled0(s) == [n \in Values!Ids(s) |-> Leaf(n)]
Unrolled1(s) == Unrolled(s, Unrolled0(s))
Unrolled2(s) == Unrolled(s, Unrolled1(s))
Unrolled3(s) == Unrolled(s, Unrolled2(s))

\* The recursion is unrolled three times.
LEMMA TermsAreUnrolled ==
    ASSUME NEW s PROVE Values!Terms(s) = Unrolled3(s)
<1> DEFINE level(f, depth) ==
             [n \in Values!Ids(s) |->
                IF Values!Ent(s, n).kind \in Values!Internable /\ depth > 0
                THEN [kind |-> Values!Ent(s, n).kind, val |-> Values!Ent(s, n).val,
                      refs |-> [k \in DOMAIN Values!Ent(s, n).refs |->
                                  f[depth - 1][Values!Ent(s, n).refs[k]]]]
                ELSE [kind |-> "entity", val |-> n, refs |-> <<>>]]
           term == CHOOSE f : f = [depth \in 0 .. 3 |-> level(f, depth)]
           f == [depth \in 0 .. 3 |->
                   IF depth = 0 THEN Unrolled0(s) ELSE IF depth = 1 THEN Unrolled1(s)
                   ELSE IF depth = 2 THEN Unrolled2(s) ELSE Unrolled3(s)]
<1>1. Values!Terms(s) = term[3]
  BY DEF Values!Terms
<1>2. ASSUME NEW g PROVE level(g, 0) = Unrolled0(s)
  BY DEF Unrolled0, Leaf
<1>3. ASSUME NEW g, NEW depth \in 1 .. 3 PROVE level(g, depth) = Unrolled(s, g[depth - 1])
  BY DEF Unrolled, Leaf, Kind, Val, RefsOf
<1> HIDE DEF level
<1>4. f[0] = Unrolled0(s) /\ f[1] = Unrolled1(s) /\ f[2] = Unrolled2(s) /\ f[3] = Unrolled3(s)
  OBVIOUS
<1>5. f = [depth \in 0 .. 3 |-> f[depth]]
  OBVIOUS
<1> HIDE DEF f
<1>6. ASSUME NEW depth \in 0 .. 3 PROVE f[depth] = level(f, depth)
  <2>1. CASE depth = 0
    BY <1>2, <1>4, <2>1
  <2>2. CASE depth = 1
    <3>1. level(f, 1) = Unrolled(s, f[0])
      BY <1>3
    <3> QED
      BY <1>4, <2>2, <3>1 DEF Unrolled1
  <2>3. CASE depth = 2
    <3>1. level(f, 2) = Unrolled(s, f[1])
      BY <1>3
    <3> QED
      BY <1>4, <2>3, <3>1 DEF Unrolled2
  <2>4. CASE depth = 3
    <3>1. level(f, 3) = Unrolled(s, f[2])
      BY <1>3
    <3> QED
      BY <1>4, <2>4, <3>1 DEF Unrolled3
  <2> QED
    BY <2>1, <2>2, <2>3, <2>4
<1>7. f = [depth \in 0 .. 3 |-> level(f, depth)]
  BY <1>5, <1>6
<1>8. term = [depth \in 0 .. 3 |-> level(term, depth)]
  BY <1>7, Zenon
<1> HIDE DEF term
<1>9. /\ term[0] = level(term, 0) /\ term[1] = level(term, 1)
      /\ term[2] = level(term, 2) /\ term[3] = level(term, 3)
  BY <1>8
<1>10. term[0] = Unrolled0(s)
  BY <1>2, <1>9
<1>11. term[1] = Unrolled1(s)
  <2>1. level(term, 1) = Unrolled(s, term[0])
    BY <1>3
  <2> QED
    BY <1>9, <1>10, <2>1 DEF Unrolled1
<1>12. term[2] = Unrolled2(s)
  <2>1. level(term, 2) = Unrolled(s, term[1])
    BY <1>3
  <2> QED
    BY <1>9, <1>11, <2>1 DEF Unrolled2
<1>13. term[3] = Unrolled3(s)
  <2>1. level(term, 3) = Unrolled(s, term[2])
    BY <1>3
  <2> QED
    BY <1>9, <1>12, <2>1 DEF Unrolled3
<1> QED
  BY <1>1, <1>13

\* The term of an entity is made of the terms of what it refers to, and three levels are
\* enough for that.
Composed(s) ==
    \A n \in Values!Ids(s) :
        Values!Terms(s)[n] = IF Kind(s, n) \in Values!Internable
                        THEN [kind |-> Kind(s, n), val |-> Val(s, n),
                              refs |-> [k \in DOMAIN RefsOf(s, n) |-> Values!Terms(s)[RefsOf(s, n)[k]]]]
                        ELSE Leaf(n)

LEMMA TermsAreComposed == ASSUME NEW s, Values!Whole(s) PROVE Composed(s)
<1>1. Linked(s) /\ Supported(s)
  BY WholeGives, WholeIsSupported
<1>2. Values!Terms(s) = Unrolled3(s)
  BY TermsAreUnrolled
<1>3. ASSUME NEW n \in Values!Ids(s), Kind(s, n) \in {"point", "context"}
      PROVE  Unrolled1(s)[n] = Unrolled2(s)[n] /\ Unrolled2(s)[n] = Unrolled3(s)[n]
  <2>1. DOMAIN RefsOf(s, n) = {}
    BY <1>1, <1>3 DEF Supported
  <2> QED
    BY <1>3, <2>1 DEF Unrolled1, Unrolled2, Unrolled3, Unrolled
<1>4. ASSUME NEW n \in Values!Ids(s), Kind(s, n) \in {"placement", "curve"}
      PROVE  Unrolled2(s)[n] = Unrolled3(s)[n]
  <2>1. \A k \in DOMAIN RefsOf(s, n) : /\ RefsOf(s, n)[k] \in Values!Ids(s)
                                     /\ Kind(s, RefsOf(s, n)[k]) = "point"
    BY <1>1, <1>4 DEF Supported
  <2>2. \A k \in DOMAIN RefsOf(s, n) : Unrolled1(s)[RefsOf(s, n)[k]] = Unrolled2(s)[RefsOf(s, n)[k]]
    BY <1>3, <2>1
  <2> QED
    BY <1>4, <2>2 DEF Unrolled2, Unrolled3, Unrolled
<1>5. ASSUME NEW n \in Values!Ids(s), Kind(s, n) \in Values!Internable, NEW k \in DOMAIN RefsOf(s, n)
      PROVE  Unrolled2(s)[RefsOf(s, n)[k]] = Unrolled3(s)[RefsOf(s, n)[k]]
  <2>1. CASE Kind(s, n) \in {"point", "context"}
    BY <1>1, <1>5, <2>1 DEF Supported
  <2>2. CASE Kind(s, n) \in {"placement", "curve"}
    BY <1>1, <1>3, <1>5, <2>2 DEF Supported
  <2>3. CASE Kind(s, n) \in {"plane", "cylinder"}
    BY <1>1, <1>4, <1>5, <2>3 DEF Supported
  <2> QED
    BY <1>5, <2>1, <2>2, <2>3 DEF Values!Internable
<1>6. ASSUME NEW n \in Values!Ids(s)
      PROVE  Unrolled3(s)[n] = IF Kind(s, n) \in Values!Internable
                               THEN [kind |-> Kind(s, n), val |-> Val(s, n),
                                     refs |-> [k \in DOMAIN RefsOf(s, n) |->
                                                 Unrolled3(s)[RefsOf(s, n)[k]]]]
                               ELSE Leaf(n)
  <2>1. Unrolled3(s)[n] = IF Kind(s, n) \in Values!Internable
                          THEN [kind |-> Kind(s, n), val |-> Val(s, n),
                                refs |-> [k \in DOMAIN RefsOf(s, n) |->
                                            Unrolled2(s)[RefsOf(s, n)[k]]]]
                          ELSE Leaf(n)
    BY DEF Unrolled3, Unrolled
  <2>2. CASE Kind(s, n) \in Values!Internable
    <3>1. [k \in DOMAIN RefsOf(s, n) |-> Unrolled2(s)[RefsOf(s, n)[k]]]
            = [k \in DOMAIN RefsOf(s, n) |-> Unrolled3(s)[RefsOf(s, n)[k]]]
      BY <1>5, <2>2
    <3> QED
      BY <2>1, <3>1
  <2>3. CASE Kind(s, n) \notin Values!Internable
    BY <2>1, <2>3
  <2> QED
    BY <2>2, <2>3
<1> QED
  BY <1>2, <1>6 DEF Composed

\* Entities of one term are alike, down to the terms of what they refer to.
SameTerm(s, m, n) ==
    /\ Kind(s, m) = Kind(s, n)
    /\ Kind(s, n) \notin Values!Internable => m = n
    /\ Val(s, m) = Val(s, n) /\ DOMAIN RefsOf(s, m) = DOMAIN RefsOf(s, n)
    /\ \A k \in DOMAIN RefsOf(s, n) :
          Values!Terms(s)[RefsOf(s, m)[k]] = Values!Terms(s)[RefsOf(s, n)[k]]

LEMMA OneTermIsAlike ==
    ASSUME NEW s, Values!Whole(s), NEW m \in Values!Ids(s), NEW n \in Values!Ids(s),
           Values!Terms(s)[m] = Values!Terms(s)[n]
    PROVE  SameTerm(s, m, n)
<1> DEFINE T == Values!Terms(s)
           refs(l) == [k \in DOMAIN RefsOf(s, l) |-> T[RefsOf(s, l)[k]]]
<1>1. \A l \in Values!Ids(s) :
         T[l] = IF Kind(s, l) \in Values!Internable
                THEN [kind |-> Kind(s, l), val |-> Val(s, l), refs |-> refs(l)]
                ELSE Leaf(l)
  BY TermsAreComposed DEF Composed
<1>2. \A l : DOMAIN refs(l) = DOMAIN RefsOf(s, l)
             /\ \A k \in DOMAIN RefsOf(s, l) : refs(l)[k] = T[RefsOf(s, l)[k]]
  OBVIOUS
<1> HIDE DEF T, refs
<1>3. T[m] = T[n]
  BY DEF T
<1>4. \A l : Leaf(l).kind = "entity" /\ Leaf(l).val = l
  BY DEF Leaf
<1>5. "entity" \notin Values!Internable
  BY DEF Values!Internable
<1>a. \A l \in Values!Ids(s) :
         IF Kind(s, l) \in Values!Internable
         THEN T[l].kind = Kind(s, l) /\ T[l].val = Val(s, l) /\ T[l].refs = refs(l)
         ELSE T[l].kind = "entity" /\ T[l].val = l
  <2> SUFFICES ASSUME NEW l \in Values!Ids(s)
               PROVE  IF Kind(s, l) \in Values!Internable
                      THEN T[l].kind = Kind(s, l) /\ T[l].val = Val(s, l) /\ T[l].refs = refs(l)
                      ELSE T[l].kind = "entity" /\ T[l].val = l
    OBVIOUS
  <2> DEFINE a == Kind(s, l)
             b == Val(s, l)
             c == refs(l)
  <2>1. a \in Values!Internable => T[l] = [kind |-> a, val |-> b, refs |-> c]
    BY <1>1
  <2>2. a \notin Values!Internable => T[l] = Leaf(l)
    BY <1>1
  <2> HIDE DEF a, b, c
  <2>3. a \in Values!Internable => T[l].kind = a /\ T[l].val = b /\ T[l].refs = c
    BY <2>1
  <2>4. a \notin Values!Internable => T[l].kind = "entity" /\ T[l].val = l
    BY <1>4, <2>2
  <2> QED
    BY <2>3, <2>4 DEF a, b, c
<1>6. CASE Kind(s, n) \in Values!Internable /\ Kind(s, m) \in Values!Internable
  <2>1. Kind(s, m) = Kind(s, n) /\ Val(s, m) = Val(s, n) /\ refs(m) = refs(n)
    BY <1>3, <1>6, <1>a
  <2> QED
    BY <1>2, <1>6, <2>1 DEF SameTerm, T
<1>7. CASE ~ (Kind(s, n) \in Values!Internable /\ Kind(s, m) \in Values!Internable)
  <2>1. m = n
    BY <1>3, <1>5, <1>7, <1>a
  <2> QED
    BY <1>7, <2>1 DEF SameTerm
<1> QED
  BY <1>6, <1>7
\* The least member of a set of positions or ids.
LEMMA LeastMember ==
    ASSUME NEW S \in SUBSET Nat, S # {}
    PROVE  Values!Min(S) \in S /\ \A x \in S : Values!Min(S) <= x
BY HasLeast DEF Values!Min

\* What is kept may be rewritten before or after.
LEMMA RewrittenKept ==
    ASSUME NEW s \in Seq(Values!Entities), NEW f, NEW S \in SUBSET DOMAIN s,
           DOMAIN Values!Rewritten(s, f) = DOMAIN s, Values!Rewritten(s, f) \in Seq(Values!Entities)
    PROVE  Values!Rewritten(Values!Kept(s, S), f) = Values!Kept(Values!Rewritten(s, f), S)
<1> DEFINE rewritten(e) == [e EXCEPT !.refs = [k \in DOMAIN e.refs |-> f[e.refs[k]]]]
           N == Cardinality(S)
           order == Values!InOrder(S)
           w == Values!Rewritten(s, f)
<1>1. /\ DOMAIN Values!Kept(s, S) = 1 .. N
      /\ \A k \in 1 .. N : order[k] \in S /\ Values!Kept(s, S)[k] = s[order[k]]
  BY KeptMembers
<1>2. /\ DOMAIN Values!Kept(w, S) = 1 .. N /\ Values!Kept(w, S) \in Seq(Values!Entities)
      /\ \A k \in 1 .. N : Values!Kept(w, S)[k] = w[order[k]]
  BY KeptMembers
<1>3. \A l : Values!Rewritten(l, f) = [i \in DOMAIN l |-> rewritten(l[i])]
  BY DEF Values!Rewritten
<1>4. \A i \in DOMAIN s : w[i] = rewritten(s[i])
  BY <1>3
<1> HIDE DEF rewritten, w, order, N
<1>5. Values!Rewritten(Values!Kept(s, S), f) = [k \in 1 .. N |-> rewritten(s[order[k]])]
  <2> DEFINE q == Values!Kept(s, S)
  <2>1. Values!Rewritten(q, f) = [k \in DOMAIN q |-> rewritten(q[k])]
    BY <1>3
  <2>2. DOMAIN q = 1 .. N /\ \A k \in 1 .. N : q[k] = s[order[k]]
    BY <1>1
  <2> HIDE DEF q
  <2>3. \A k \in 1 .. N : rewritten(q[k]) = rewritten(s[order[k]])
    BY <2>2
  <2>4. Values!Rewritten(q, f) = [k \in 1 .. N |-> rewritten(s[order[k]])]
    BY <2>1, <2>2, <2>3
  <2> QED
    BY <2>4 DEF q
<1>6. Values!Kept(w, S) = [k \in 1 .. N |-> rewritten(s[order[k]])]
  BY <1>1, <1>2, <1>4
<1> QED
  BY <1>5, <1>6 DEF w

LEMMA InternedKeeps == ASSUME NEW s, Values!Whole(s) PROVE Keeps(s, Values!Interned(s))
<1> DEFINE Ids == Values!Ids(s)
           term == Values!Terms(s)
           same(n) == {i \in DOMAIN s : term[s[i].id] = term[n]}
           survivor == [n \in Ids |-> s[Values!Min(same(n))].id]
           S == {i \in DOMAIN s : survivor[s[i].id] = s[i].id}
           g == Values!Rewritten(s, survivor)
           t == Values!Kept(g, S)
<1>1. s \in Seq(Values!Entities) /\ Values!HasDistinctIds(s) /\ Found(s) /\ Linked(s) /\ Supported(s)
  BY WholeGives, WholeIsSupported
<1>2. Values!Interned(s) = Values!Rewritten(Values!Kept(s, S), survivor)
  BY DEF Values!Interned
<1> HIDE DEF term
<1>3. ASSUME NEW n \in Ids
      PROVE  /\ Values!Min(same(n)) \in DOMAIN s /\ term[s[Values!Min(same(n))].id] = term[n]
  <2>1. same(n) \in SUBSET Nat /\ same(n) # {}
    BY <1>1 DEF Values!Ids
  <2>2. Values!Min(same(n)) \in same(n)
    <3> HIDE DEF same
    <3> QED
      BY <2>1, LeastMember
  <2> QED
    BY <2>2
<1>4. \A n \in Ids : survivor[n] = s[Values!Min(same(n))].id
  OBVIOUS
<1>5. survivor = [n \in Ids |-> survivor[n]]
  OBVIOUS
<1>6. ASSUME NEW m \in Ids, NEW n \in Ids, term[m] = term[n] PROVE survivor[m] = survivor[n]
  <2>1. same(m) = same(n)
    BY <1>6
  <2> HIDE DEF same
  <2> QED
    BY <1>4, <2>1
<1> HIDE DEF survivor, same
<1>7. \A n \in Ids : survivor[n] \in Ids /\ term[survivor[n]] = term[n]
  BY <1>3, <1>4 DEF Values!Ids
<1>8. \A n \in Ids : survivor[survivor[n]] = survivor[n]
  BY <1>6, <1>7
<1>9. \A i \in DOMAIN s : \A k \in DOMAIN s[i].refs : s[i].refs[k] \in Ids
  <2> SUFFICES ASSUME NEW i \in DOMAIN s, NEW k \in DOMAIN s[i].refs PROVE s[i].refs[k] \in Ids
    OBVIOUS
  <2>1. s[i].id \in Ids /\ RefsOf(s, s[i].id) = s[i].refs
    BY <1>1 DEF Found, RefsOf
  <2> QED
    BY <1>1, <2>1 DEF Linked
<1>10. \A i \in DOMAIN s : \A k \in DOMAIN s[i].refs : survivor[s[i].refs[k]] \in Int
  BY <1>1, <1>7, <1>9 DEF Found
<1>11. /\ g \in Seq(Values!Entities) /\ DOMAIN g = DOMAIN s
       /\ \A i \in DOMAIN s :
             /\ g[i].id = s[i].id /\ g[i].kind = s[i].kind /\ g[i].val = s[i].val
             /\ DOMAIN g[i].refs = DOMAIN s[i].refs
             /\ \A k \in DOMAIN s[i].refs : g[i].refs[k] = survivor[s[i].refs[k]]
  BY <1>1, <1>10, RewrittenEntities DEF Renames, Rewrites
<1>12. S \in SUBSET DOMAIN s
  OBVIOUS
<1>13. Values!Interned(s) = t
  <2> HIDE DEF S
  <2> QED
    BY <1>1, <1>2, <1>11, <1>12, RewrittenKept
<1> HIDE DEF g
<1>14. Values!HasDistinctIds(g)
  BY <1>1, <1>11 DEF Values!HasDistinctIds
<1>15. IsPart(t, g, S)
  <2> HIDE DEF S
  <2> QED
    BY <1>11, <1>12, <1>14, KeptIsPart
<1> HIDE DEF t
<1>16. ASSUME NEW n \in Ids
       PROVE  /\ survivor[n] \in Values!Ids(t)
              /\ Kind(t, survivor[n]) = Kind(s, survivor[n])
              /\ Val(t, survivor[n]) = Val(s, survivor[n])
              /\ DOMAIN RefsOf(t, survivor[n]) = DOMAIN RefsOf(s, survivor[n])
              /\ \A k \in DOMAIN RefsOf(s, survivor[n]) :
                    RefsOf(t, survivor[n])[k] = survivor[RefsOf(s, survivor[n])[k]]
  <2> DEFINE m == survivor[n]
  <2>1. m \in Ids /\ survivor[m] = m
    BY <1>7, <1>8
  <2>2. PICK i \in DOMAIN s : s[i].id = m /\ Values!Ent(s, m) = s[i]
    BY <1>1, <2>1 DEF Found
  <2>3. i \in S
    BY <2>1, <2>2
  <2>4. m \in Values!Ids(t) /\ Values!Ent(t, m) = g[i]
    BY <1>11, <1>15, <2>2, <2>3 DEF IsPart
  <2> HIDE DEF m
  <2>5. /\ m \in Values!Ids(t) /\ Kind(t, m) = Kind(s, m) /\ Val(t, m) = Val(s, m)
        /\ DOMAIN RefsOf(t, m) = DOMAIN RefsOf(s, m)
        /\ \A k \in DOMAIN RefsOf(s, m) : RefsOf(t, m)[k] = survivor[RefsOf(s, m)[k]]
    BY <1>11, <2>2, <2>4 DEF Kind, Val, RefsOf
  <2> QED
    BY <2>5 DEF m
<1>17. ASSUME NEW n \in Ids PROVE SameTerm(s, survivor[n], n)
  BY <1>7, OneTermIsAlike DEF term
<1>18. ASSUME NEW n \in Ids, NEW k \in DOMAIN RefsOf(s, n)
       PROVE  /\ RefsOf(s, n)[k] \in Ids
              /\ survivor[RefsOf(s, survivor[n])[k]] = survivor[RefsOf(s, n)[k]]
  <2>1. RefsOf(s, n)[k] \in Ids
    BY <1>1 DEF Linked
  <2>2. k \in DOMAIN RefsOf(s, survivor[n])
        /\ term[RefsOf(s, survivor[n])[k]] = term[RefsOf(s, n)[k]]
    BY <1>17 DEF SameTerm, term
  <2>3. RefsOf(s, survivor[n])[k] \in Ids
    BY <1>1, <1>7, <2>2 DEF Linked
  <2> QED
    BY <1>6, <2>1, <2>2, <2>3
<1>19. Carries(s, t, Ids, survivor)
  <2>1. survivor \in [Ids -> Values!Ids(t)]
    BY <1>5, <1>16
  <2>2. ASSUME NEW n \in Ids
        PROVE  /\ Kind(t, survivor[n]) = Kind(s, n) /\ Val(t, survivor[n]) = Val(s, n)
               /\ DOMAIN RefsOf(t, survivor[n]) = DOMAIN RefsOf(s, n)
               /\ \A k \in DOMAIN RefsOf(s, n) :
                     RefsOf(t, survivor[n])[k] = survivor[RefsOf(s, n)[k]]
    <3>1. Kind(s, survivor[n]) = Kind(s, n) /\ Val(s, survivor[n]) = Val(s, n)
          /\ DOMAIN RefsOf(s, survivor[n]) = DOMAIN RefsOf(s, n)
      BY <1>17 DEF SameTerm
    <3> QED
      BY <1>16, <1>18, <3>1
  <2> QED
    BY <1>18, <2>1, <2>2 DEF Carries
<1>20. \A m \in Values!Ids(t) : \E n \in Ids : survivor[n] = m
  <2> SUFFICES ASSUME NEW m \in Values!Ids(t) PROVE \E n \in Ids : survivor[n] = m
    OBVIOUS
  <2>1. PICK i \in S : g[i].id = m
    BY <1>15 DEF IsPart
  <2>2. s[i].id = m /\ survivor[m] = m /\ m \in Ids
    BY <1>11, <2>1 DEF Values!Ids
  <2> QED
    BY <2>2
<1>21. Values!Whole(t)
  BY <1>15, <1>19, <1>20, CarriedIsWhole DEF IsPart
<1>22. Users(g) = Users(s)
  BY <1>11 DEF Users
<1>23. Users(g) \subseteq S
  <2> SUFFICES ASSUME NEW i \in Users(s) PROVE survivor[s[i].id] = s[i].id
    BY <1>22 DEF Users
  <2>1. s[i].id \in Ids /\ Kind(s, s[i].id) \in Values!Consumers
    BY <1>1 DEF Found, Users, Kind
  <2>2. Kind(s, s[i].id) \notin Values!Internable
    BY <2>1 DEF Values!Consumers, Values!Internable
  <2> QED
    BY <1>17, <2>1, <2>2 DEF SameTerm
<1>24. Values!Topology(t) = Values!Topology(g)
  <2> HIDE DEF S
  <2> QED
    BY <1>11, <1>12, <1>23, TopologyIsKept DEF t
<1>25. ASSUME NEW i \in Users(s)
       PROVE  /\ s[i].refs[1] \in Ids /\ g[i].kind = s[i].kind
              /\ g[i].refs[1] = survivor[s[i].refs[1]]
  <2>1. i \in DOMAIN s /\ s[i].kind \in {"vertex", "face", "edge", "pcurve"}
    BY DEF Users, Values!Consumers
  <2>2. s[i].id \in Ids /\ Kind(s, s[i].id) = s[i].kind /\ RefsOf(s, s[i].id) = s[i].refs
    BY <1>1, <2>1 DEF Found, Kind, RefsOf
  <2>3. 1 \in DOMAIN s[i].refs
    BY <1>1, <2>1, <2>2 DEF Supported
  <2> QED
    BY <1>9, <1>11, <2>1, <2>3
<1>26. Values!Meaning(t) = Values!Meaning(s)
  BY <1>11, <1>19, <1>22, <1>24, <1>25, CarriedMeaning
<1> QED
  BY <1>13, <1>21, <1>26 DEF Keeps
-----------------------------------------------------------------------------
(* The collection of the replica passes.                                   *)

\* What goes is in the seed, or all that refers to it goes.
SweptOut(w, C, seed, Gone) ==
    /\ Gone \in SUBSET (C \cup seed) /\ seed \subseteq Gone
    /\ \A n \in Gone : n \in seed \/ Values!Parents(w, n) \subseteq Gone
    /\ Values!Swept(w, C, seed) = Values!Kept(w, {i \in DOMAIN w : w[i].id \notin Gone})

LEMMA SweptWithUsers ==
    ASSUME NEW w, NEW C, IsFiniteSet(C), NEW seed
    PROVE  \E Gone : SweptOut(w, C, seed, Gone)
<1> DEFINE N == Cardinality(C)
           parents == [n \in C |-> Values!Parents(w, n)]
           grow(X) == X \cup {n \in C : parents[n] \subseteq X}
           gone == CHOOSE f : f = [k \in 0 .. N |->
                     IF k = 0 THEN seed
                     ELSE f[k - 1] \cup {n \in C : parents[n] \subseteq f[k - 1]}]
           S == SUBSET (C \cup seed)
           advance == [p \in (0 .. N) \X S |-> grow(p[2])]
<1>1. N \in Nat
  BY FS_CardinalityType
<1>2. Values!Swept(w, C, seed) = Values!Kept(w, {i \in DOMAIN w : w[i].id \notin gone[N]})
  <2>1. Values!Cardinality(C) = Cardinality(C)
    BY SameWords
  <2> QED
    BY <2>1 DEF Values!Swept
<1>3. \A X \in S : grow(X) \in S
  OBVIOUS
<1>4. \A k \in 0 .. N : \A X \in S : advance[<<k, X>>] = grow(X)
  OBVIOUS
<1>5. seed \in S
  OBVIOUS
<1>6. \A X : grow(X) = X \cup {n \in C : Values!Parents(w, n) \subseteq X}
  OBVIOUS
<1>7. gone = CHOOSE f : f = [k \in 0 .. N |-> IF k = 0 THEN seed ELSE grow(f[k - 1])]
  OBVIOUS
<1> HIDE DEF advance, gone, S, grow, N
<1>8. Advances(0, N, S, advance)
  BY <1>3, <1>4 DEF Advances
<1>9. PICK f : Recursive(0, N, S, seed, advance, f)
  BY <1>1, <1>5, <1>8, Recursion
<1>10. ASSUME NEW k \in 0 .. N PROVE f[k] = IF k = 0 THEN seed ELSE grow(f[k - 1])
  <2>1. CASE k = 0
    BY <1>9, <2>1 DEF Recursive
  <2>2. CASE k # 0
    <3>1. k > 0 /\ k - 1 \in 0 .. N
      BY <1>1, <2>2
    <3>2. f[k] = advance[<<k, f[k - 1]>>] /\ f[k - 1] \in S
      BY <1>9, <3>1 DEF Recursive
    <3> QED
      BY <1>4, <2>2, <3>2
  <2> QED
    BY <2>1, <2>2
<1>11. f = [k \in 0 .. N |-> IF k = 0 THEN seed ELSE grow(f[k - 1])]
  BY <1>9, <1>10 DEF Recursive
<1>12. gone = [k \in 0 .. N |-> IF k = 0 THEN seed ELSE grow(gone[k - 1])]
  BY <1>7, <1>11, Zenon
<1>13. gone[0] = seed /\ \A k \in 0 .. N : k # 0 => gone[k] = grow(gone[k - 1])
  BY <1>1, <1>12
<1> DEFINE fits(X) == /\ X \in SUBSET (C \cup seed) /\ seed \subseteq X
                      /\ \A n \in X : n \in seed \/ Values!Parents(w, n) \subseteq X
           Fit == {k \in 0 .. N : fits(gone[k])}
<1>14. ASSUME NEW X, fits(X) PROVE fits(grow(X))
  BY <1>6, <1>14
<1>15. 0 \in Fit
  BY <1>1, <1>13
<1>16. ASSUME NEW k \in 0 .. N, k \in Fit, k < N PROVE k + 1 \in Fit
  <2>1. k + 1 \in 0 .. N /\ k + 1 # 0 /\ (k + 1) - 1 = k
    BY <1>1, <1>16
  <2>2. gone[k + 1] = grow(gone[k])
    BY <1>13, <2>1
  <2>3. fits(gone[k])
    BY <1>16
  <2> HIDE DEF fits
  <2> QED
    BY <1>14, <2>1, <2>2, <2>3
<1>17. N \in Fit
  <2> HIDE DEF Fit
  <2>1. \A k \in 0 .. N : k \in Fit /\ k < N => k + 1 \in Fit
    BY <1>16
  <2>2. \A k \in 0 .. N : k \in Fit
    BY <1>1, <1>15, <2>1, StepByStep
  <2> QED
    BY <1>1, <2>2
<1>18. fits(gone[N])
  BY <1>17
<1> QED
  BY <1>2, <1>18 DEF SweptOut
-----------------------------------------------------------------------------
(* Replicas and their operators.                                           *)

\* The greatest member of a finite set of ids.
LEMMA GreatestMember ==
    ASSUME NEW S \in SUBSET Int, IsFiniteSet(S), S # {}
    PROVE  Values!Max(S) \in S /\ \A n \in S : n <= Values!Max(S)
<1> DEFINE N == Cardinality(S)
           order == Values!InOrder(S)
<1>1. Listed(S)
  BY InOrderLists
<1>2. /\ N \in Nat /\ \A k \in 1 .. N : order[k] \in S
      /\ \A j, k \in 1 .. N : j < k <=> order[j] < order[k]
      /\ \A n \in S : \E k \in 1 .. N : order[k] = n
  BY <1>1 DEF Listed
<1> HIDE DEF N, order
<1>3. N \in 1 .. N
  <2>1. PICK n \in S : TRUE
    OBVIOUS
  <2>2. PICK k \in 1 .. N : order[k] = n
    BY <1>2, <2>1
  <2> QED
    BY <1>2, <2>2
<1>4. ASSUME NEW n \in S PROVE n <= order[N]
  <2>1. PICK k \in 1 .. N : order[k] = n
    BY <1>2
  <2>2. n \in Int /\ order[N] \in Int
    <3>1. order[N] \in S
      BY <1>2, <1>3
    <3> QED
      BY <3>1
  <2>a. N \in Int /\ k \in Int /\ k <= N
    BY <1>2, <2>1
  <2>3. ~ (order[N] < order[k])
    <3>1. ~ (N < k)
      BY <2>a
    <3> QED
      BY <1>2, <1>3, <3>1
  <2> QED
    BY <2>1, <2>2, <2>3
<1>5. order[N] \in S
  BY <1>2, <1>3
<1>6. \E x \in S : \A n \in S : x >= n
  BY <1>4, <1>5
<1>7. Values!Max(S) \in S /\ \A n \in S : Values!Max(S) >= n
  BY <1>6 DEF Values!Max
<1> QED
  BY <1>7

\* The kinds of new entities.
LEMMA NewKinds ==
    0 \in Int /\ "point" \in Values!Kinds /\ "operator" \in Values!Kinds /\ "replica" \in Values!Kinds
BY DEF Values!Kinds, Values!Internable

\* The ids of a section are finitely many.
LEMMA IdsAreFinite == ASSUME NEW s \in Seq(Values!Entities) PROVE IsFiniteSet(Values!Ids(s))
<1> DEFINE f == [i \in 1 .. Len(s) |-> s[i].id]
<1>1. IsFiniteSet(1 .. Len(s))
  BY FS_Interval
<1>2. f \in Surjection(1 .. Len(s), Values!Ids(s))
  BY DEF Surjection, Values!Ids
<1> HIDE DEF f
<1> QED
  BY <1>1, <1>2, FS_Surjection

\* The targets have become replicas of their sources, each by an operator with the offset
\* of the target, and nothing else is new.
Replicas(s, source, targets, at, r, operator) ==
    /\ r \in Seq(Values!Entities) /\ Values!HasDistinctIds(r) /\ Found(r) /\ DOMAIN s \subseteq DOMAIN r
    /\ \A i \in DOMAIN s :
          IF s[i].id \in targets
          THEN r[i] = Values!Entity(s[i].id, "replica", s[i].val,
                               <<source[s[i].id], operator[s[i].id]>>)
          ELSE r[i] = s[i]
    /\ \A i \in DOMAIN r \ DOMAIN s :
          /\ r[i].id \notin Values!Ids(s)
          /\ \/ r[i].kind = "point" /\ r[i].refs = <<>>
             \/ /\ r[i].kind = "operator"
                /\ \E p \in Values!Ids(r) \ Values!Ids(s) : r[i].refs = <<p>> /\ Kind(r, p) = "point"
    /\ \A t \in targets :
          /\ operator[t] \in Values!Ids(r) \ Values!Ids(s) /\ Kind(r, operator[t]) = "operator"
          /\ Val(r, RefsOf(r, operator[t])[1]) = at[t] - at[source[t]]

LEMMA ReplicatedById ==
    ASSUME NEW s, Values!Whole(s), NEW source, NEW targets \in SUBSET Values!Ids(s), NEW at,
           \A t \in targets : source[t] \in Values!Ids(s) /\ at[t] \in Int /\ at[source[t]] \in Int
    PROVE  \E operator :
             Replicas(s, source, targets, at, Values!Replicated(s, source, targets, at), operator)
<1> DEFINE offset == [t \in targets |-> Values!Offset(at[source[t]], at[t])]
           Earlier(t, u) == source[t] < source[u] \/ (source[t] = source[u] /\ t < u)
           firsts == {t \in targets :
                        \A u \in targets : Earlier(u, t) => offset[u] # offset[t]}
           rank == [t \in firsts |-> Values!Cardinality({u \in firsts : Earlier(u, t)})]
           next == Values!Max(Values!Ids(s)) + 1
           head(t) == CHOOSE u \in firsts : offset[u] = offset[t]
           operator == [t \in targets |-> next + 1 + 2 * rank[head(t)]]
           N == Values!Cardinality(firsts)
           lead(k) == CHOOSE t \in firsts : rank[t] = (k - 1) \div 2
           pushed == [k \in 1 .. 2 * N |->
                        IF k % 2 = 1
                        THEN Values!Entity(next + k - 1, "point", offset[lead(k)], <<>>)
                        ELSE Values!Entity(next + k - 1, "operator", 0, <<next + k - 2>>)]
           base == [i \in DOMAIN s |->
                      IF s[i].id \in targets
                      THEN Values!Entity(s[i].id, "replica", s[i].val,
                                    <<source[s[i].id], operator[s[i].id]>>)
                      ELSE s[i]]
           r == base \o pushed
<1>1. Values!Replicated(s, source, targets, at) = r
  BY DEF Values!Replicated
<1>2. s \in Seq(Values!Entities) /\ Values!HasDistinctIds(s) /\ Found(s)
  BY WholeGives
<1>3. IsFiniteSet(Values!Ids(s)) /\ Values!Ids(s) \subseteq Int
  BY <1>2, IdsAreFinite DEF Found
<1>4. IsFiniteSet(targets) /\ targets \subseteq Int /\ \A t \in targets : source[t] \in Int
  BY <1>3, FS_Subset
<1>5. \A t \in targets : offset[t] = at[t] - at[source[t]] /\ offset[t] \in Int
  BY DEF Values!Offset
<1> HIDE DEF offset
<1> DEFINE R == {p \in targets \X targets : Earlier(p[1], p[2])}
<1>6. \A t, u \in targets : <<t, u>> \in R <=> Earlier(t, u)
  OBVIOUS
<1> HIDE DEF R
<1>7. IsOrder(targets, R)
  BY <1>4, <1>6 DEF IsOrder
<1>8. firsts \in SUBSET targets
  OBVIOUS
<1>9. ASSUME NEW t \in targets PROVE \E u \in firsts : offset[u] = offset[t]
  <2> DEFINE place(u) == Cardinality(Before(targets, R, u))
             P == {place(u) : u \in {v \in targets : offset[v] = offset[t]}}
  <2>1. /\ \A u \in targets : place(u) \in Nat
        /\ \A u, v \in targets : <<u, v>> \in R <=> place(u) < place(v)
    <3>1. Ranked(targets, R)
      BY <1>4, <1>7, Ranks
    <3> QED
      BY <3>1 DEF Ranked
  <2> HIDE DEF place
  <2>2. P \in SUBSET Nat /\ P # {}
    BY <2>1
  <2>3. PICK m \in P : \A j \in P : m <= j
    <3> HIDE DEF P
    <3> QED
      BY <2>2, HasLeast
  <2>4. PICK u \in targets : offset[u] = offset[t] /\ place(u) = m
    OBVIOUS
  <2>5. ASSUME NEW v \in targets, Earlier(v, u) PROVE offset[v] # offset[u]
    <3> SUFFICES ASSUME offset[v] = offset[u] PROVE FALSE
      OBVIOUS
    <3>1. place(v) \in P
      BY <2>4
    <3>2. place(v) < place(u)
      BY <1>6, <2>1, <2>5
    <3>3. place(u) <= place(v)
      BY <2>3, <2>4, <3>1
    <3> QED
      BY <2>1, <3>2, <3>3
  <2> QED
    BY <2>4, <2>5
<1>10. /\ N = Cardinality(firsts)
       /\ \A t \in firsts : rank[t] = Cardinality(Before(firsts, R, t))
  <2>1. \A S : Values!Cardinality(S) = Cardinality(S)
    BY SameWords
  <2>2. \A t \in firsts : {u \in firsts : Earlier(u, t)} = Before(firsts, R, t)
    BY <1>6, <1>8 DEF Before
  <2> HIDE DEF firsts, Earlier
  <2> QED
    BY <2>1, <2>2
<1> HIDE DEF firsts, rank, N
<1>11. /\ N \in Nat
       /\ \A t \in firsts : rank[t] \in 0 .. N - 1
       /\ \A t, u \in firsts : rank[t] = rank[u] => t = u
       /\ \A k \in 0 .. N - 1 : \E t \in firsts : rank[t] = k
  <2>1. IsFiniteSet(firsts) /\ IsOrder(firsts, R)
    BY <1>4, <1>7, <1>8, FS_Subset DEF IsOrder
  <2>2. Ranked(firsts, R)
    BY <2>1, Ranks
  <2> QED
    BY <1>10, <2>2 DEF Ranked
<1>12. ASSUME NEW t \in targets
       PROVE  head(t) \in firsts /\ offset[head(t)] = offset[t] /\ rank[head(t)] \in 0 .. N - 1
  <2>1. head(t) \in firsts /\ offset[head(t)] = offset[t]
    BY <1>9
  <2> QED
    BY <1>11, <2>1
<1>13. ASSUME NEW k \in 1 .. 2 * N
       PROVE  lead(k) \in firsts /\ rank[lead(k)] = (k - 1) \div 2 /\ offset[lead(k)] \in Int
  <2>1. (k - 1) \div 2 \in 0 .. N - 1
    BY <1>11
  <2>2. lead(k) \in firsts /\ rank[lead(k)] = (k - 1) \div 2
    BY <1>11, <2>1
  <2> QED
    BY <1>5, <1>8, <2>2
<1>14. targets # {} => next \in Int /\ \A n \in Values!Ids(s) : n < next
  <2> SUFFICES ASSUME targets # {} PROVE next \in Int /\ \A n \in Values!Ids(s) : n < next
    OBVIOUS
  <2>1. Values!Ids(s) # {}
    OBVIOUS
  <2>2. Values!Max(Values!Ids(s)) \in Values!Ids(s) /\ \A n \in Values!Ids(s) : n <= Values!Max(Values!Ids(s))
    BY <1>3, <2>1, GreatestMember
  <2> QED
    BY <1>3, <2>2
<1>15. ASSUME NEW k \in 1 .. 2 * N PROVE next \in Int /\ \A n \in Values!Ids(s) : n < next
  <2>1. N > 0
    BY <1>11
  <2>2. PICK t \in firsts : rank[t] = 0
    BY <1>11, <2>1
  <2> QED
    BY <1>8, <1>14, <2>2
<1> HIDE DEF next, lead, head
<1>16. ASSUME NEW k \in 1 .. 2 * N
       PROVE  /\ pushed[k] \in Values!Entities /\ pushed[k].id = next + k - 1
              /\ IF k % 2 = 1
                 THEN /\ pushed[k].kind = "point" /\ pushed[k].refs = <<>>
                      /\ pushed[k].val = offset[lead(k)]
                 ELSE pushed[k].kind = "operator" /\ pushed[k].refs = <<next + k - 2>>
  <2>1. next \in Int /\ k \in Int /\ offset[lead(k)] \in Int
    BY <1>11, <1>13, <1>15
  <2>2. <<next + k - 2>> \in Seq(Int) /\ next + k - 1 \in Int
    BY <2>1
  <2>3. CASE k % 2 = 1
    <3>1. pushed[k] = Values!Entity(next + k - 1, "point", offset[lead(k)], <<>>)
      BY <2>3
    <3> DEFINE a == next + k - 1
               b == offset[lead(k)]
               e == Values!Entity(a, "point", b, <<>>)
    <3>2. a \in Int /\ b \in Int /\ <<>> \in Seq(Int)
      BY <2>1, <2>2
    <3>3. pushed[k] = e
      BY <3>1
    <3> HIDE DEF pushed, a, b
    <3>4. e \in Values!Entities /\ e.id = a /\ e.kind = "point" /\ e.val = b /\ e.refs = <<>>
      BY <3>2, NewKinds DEF Values!Entity, Values!Entities
    <3> HIDE DEF e
    <3>5. /\ pushed[k] \in Values!Entities /\ pushed[k].id = a /\ pushed[k].kind = "point"
          /\ pushed[k].refs = <<>> /\ pushed[k].val = b
      BY <3>3, <3>4
    <3> QED
      BY <2>3, <3>5 DEF a, b
  <2>4. CASE k % 2 # 1
    <3>1. pushed[k] = Values!Entity(next + k - 1, "operator", 0, <<next + k - 2>>)
      BY <2>4
    <3> DEFINE a == next + k - 1
               c == <<next + k - 2>>
               e == Values!Entity(a, "operator", 0, c)
    <3>2. a \in Int /\ c \in Seq(Int)
      BY <2>1, <2>2
    <3>3. pushed[k] = e
      BY <3>1
    <3> HIDE DEF pushed, a, c
    <3>4. e \in Values!Entities /\ e.id = a /\ e.kind = "operator" /\ e.refs = c
      BY <3>2, NewKinds DEF Values!Entity, Values!Entities
    <3> HIDE DEF e
    <3>5. /\ pushed[k] \in Values!Entities /\ pushed[k].id = a /\ pushed[k].kind = "operator"
          /\ pushed[k].refs = c
      BY <3>3, <3>4
    <3> QED
      BY <2>4, <3>5 DEF a, c
  <2> QED
    BY <2>3, <2>4
<1>17. pushed \in [1 .. 2 * N -> Values!Entities]
  <2>1. pushed = [k \in 1 .. 2 * N |-> pushed[k]]
    OBVIOUS
  <2> HIDE DEF pushed
  <2> QED
    BY <1>16, <2>1
<1>18. ASSUME NEW t \in targets PROVE operator[t] = next + 1 + 2 * rank[head(t)] /\ operator[t] \in Int
  <2>1. operator[t] = next + 1 + 2 * rank[head(t)]
    OBVIOUS
  <2>2. next \in Int /\ rank[head(t)] \in Int
    BY <1>11, <1>12, <1>14
  <2> HIDE DEF operator
  <2> QED
    BY <2>1, <2>2
<1> HIDE DEF operator, pushed
<1>19. ASSUME NEW i \in DOMAIN s PROVE base[i] \in Values!Entities /\ base[i].id = s[i].id
  <2>0. s[i] \in Values!Entities
    BY <1>2
  <2>1. CASE s[i].id \in targets
    <3>1. base[i] = Values!Entity(s[i].id, "replica", s[i].val, <<source[s[i].id], operator[s[i].id]>>)
      BY <2>1
    <3>2. <<source[s[i].id], operator[s[i].id]>> \in Seq(Int) /\ s[i].id \in Int /\ s[i].val \in Int
      BY <1>4, <1>18, <2>0, <2>1 DEF Values!Entities
    <3> DEFINE a == s[i].id
               b == s[i].val
               c == <<source[s[i].id], operator[s[i].id]>>
               e == Values!Entity(a, "replica", b, c)
    <3>3. base[i] = e /\ a \in Int /\ b \in Int /\ c \in Seq(Int)
      BY <3>1, <3>2
    <3> HIDE DEF base, a, b, c
    <3>4. e \in Values!Entities /\ e.id = a
      BY <3>3, NewKinds DEF Values!Entity, Values!Entities
    <3> QED
      BY <3>3, <3>4 DEF a
  <2>2. CASE s[i].id \notin targets
    BY <2>0, <2>2
  <2> QED
    BY <2>1, <2>2
<1>20. /\ base = [i \in DOMAIN s |-> base[i]]
       /\ \A i \in DOMAIN s :
             IF s[i].id \in targets
             THEN base[i] = Values!Entity(s[i].id, "replica", s[i].val,
                                     <<source[s[i].id], operator[s[i].id]>>)
             ELSE base[i] = s[i]
  OBVIOUS
<1> HIDE DEF base
<1>21. base \in Seq(Values!Entities) /\ Len(base) = Len(s) /\ DOMAIN base = DOMAIN s
  <2>1. base \in [1 .. Len(s) -> Values!Entities]
    BY <1>2, <1>19, <1>20
  <2> QED
    BY <1>2, <2>1
<1>22. pushed \in Seq(Values!Entities) /\ Len(pushed) = 2 * N
  BY <1>11, <1>17
<1>23. /\ r \in Seq(Values!Entities) /\ DOMAIN r = 1 .. Len(s) + 2 * N
       /\ DOMAIN s = 1 .. Len(s) /\ Len(s) \in Nat
       /\ \A i \in DOMAIN s : i \in DOMAIN r /\ r[i] = base[i]
       /\ \A k \in 1 .. 2 * N : Len(s) + k \in DOMAIN r /\ r[Len(s) + k] = pushed[k]
  BY <1>2, <1>11, <1>21, <1>22
<1> HIDE DEF r
<1>24. ASSUME NEW i \in DOMAIN r, i \notin DOMAIN s
       PROVE  i - Len(s) \in 1 .. 2 * N /\ r[i] = pushed[i - Len(s)]
  <2>1. i - Len(s) \in 1 .. 2 * N /\ Len(s) + (i - Len(s)) = i
    BY <1>11, <1>23, <1>24
  <2> QED
    BY <1>23, <2>1
<1>25. Values!HasDistinctIds(r)
  <2> SUFFICES ASSUME NEW i \in DOMAIN r, NEW j \in DOMAIN r, r[i].id = r[j].id PROVE i = j
    BY DEF Values!HasDistinctIds
  <2>1. CASE i \in DOMAIN s /\ j \in DOMAIN s
    BY <1>2, <1>19, <1>23, <2>1 DEF Values!HasDistinctIds
  <2>2. ASSUME NEW a \in DOMAIN s, NEW b \in DOMAIN r, b \notin DOMAIN s PROVE r[a].id # r[b].id
    <3>1. b - Len(s) \in 1 .. 2 * N /\ r[b].id = next + (b - Len(s)) - 1
      BY <1>16, <1>24, <2>2
    <3>2. r[a].id \in Values!Ids(s)
      BY <1>19, <1>23 DEF Values!Ids
    <3>3. next \in Int /\ r[a].id < next
      BY <1>15, <3>1, <3>2
    <3> QED
      BY <1>3, <1>11, <1>23, <3>1, <3>2, <3>3
  <2>3. CASE i \notin DOMAIN s /\ j \notin DOMAIN s
    <3>1. /\ i - Len(s) \in 1 .. 2 * N /\ r[i].id = next + (i - Len(s)) - 1
          /\ j - Len(s) \in 1 .. 2 * N /\ r[j].id = next + (j - Len(s)) - 1
      BY <1>16, <1>24, <2>3
    <3>2. next \in Int
      BY <1>15, <3>1
    <3> DEFINE a == i - Len(s)
               b == j - Len(s)
    <3>3. a \in Int /\ b \in Int /\ next + a - 1 = next + b - 1 /\ i = Len(s) + a
          /\ j = Len(s) + b
      <4>1. i \in Int /\ j \in Int /\ Len(s) \in Int
        BY <1>11, <1>23
      <4>2. next + a - 1 = next + b - 1
        BY <3>1
      <4> QED
        BY <4>1, <4>2
    <3> HIDE DEF a, b
    <3>4. a = b
      BY <3>2, <3>3
    <3> QED
      BY <3>3, <3>4
  <2> QED
    BY <2>1, <2>2, <2>3
<1>26. Found(r)
  BY <1>23, <1>25, EveryIdLeads
<1>27. ASSUME NEW k \in 1 .. 2 * N
       PROVE  /\ next + k - 1 \in Values!Ids(r) \ Values!Ids(s) /\ Values!Ent(r, next + k - 1) = pushed[k]
  <2>1. Len(s) + k \in DOMAIN r /\ r[Len(s) + k] = pushed[k] /\ pushed[k].id = next + k - 1
    BY <1>16, <1>23
  <2>2. next + k - 1 \in Values!Ids(r) /\ Values!Ent(r, next + k - 1) = pushed[k]
    BY <1>26, <2>1 DEF Found
  <2>3. next \in Int /\ \A n \in Values!Ids(s) : n < next
    BY <1>15
  <2>4. next + k - 1 \notin Values!Ids(s)
    BY <1>3, <1>11, <2>3
  <2> QED
    BY <2>2, <2>4
<1>28. ASSUME NEW i \in DOMAIN r \ DOMAIN s
       PROVE  /\ r[i].id \notin Values!Ids(s)
              /\ \/ r[i].kind = "point" /\ r[i].refs = <<>>
                 \/ /\ r[i].kind = "operator"
                    /\ \E p \in Values!Ids(r) \ Values!Ids(s) : r[i].refs = <<p>> /\ Kind(r, p) = "point"
  <2> DEFINE k == i - Len(s)
  <2>1. k \in 1 .. 2 * N /\ r[i] = pushed[k]
    BY <1>24
  <2> HIDE DEF k
  <2>2. r[i].id \notin Values!Ids(s)
    BY <1>16, <1>27, <2>1
  <2>3. CASE k % 2 = 1
    BY <1>16, <2>1, <2>2, <2>3
  <2>4. CASE k % 2 # 1
    <3>1. k - 1 \in 1 .. 2 * N /\ (k - 1) % 2 = 1
      BY <1>11, <2>1, <2>4
    <3>2. next \in Int /\ next + (k - 1) - 1 = next + k - 2
      BY <1>15, <2>1, <3>1
    <3>3. next + k - 2 \in Values!Ids(r) \ Values!Ids(s) /\ Values!Ent(r, next + k - 2) = pushed[k - 1]
      BY <1>27, <3>1, <3>2
    <3>4. Kind(r, next + k - 2) = "point"
      BY <1>16, <3>1, <3>3 DEF Kind
    <3> QED
      BY <1>16, <2>1, <2>2, <2>4, <3>3, <3>4
  <2> QED
    BY <2>3, <2>4
<1>29. ASSUME NEW t \in targets
       PROVE  /\ operator[t] \in Values!Ids(r) \ Values!Ids(s) /\ Kind(r, operator[t]) = "operator"
              /\ Val(r, RefsOf(r, operator[t])[1]) = at[t] - at[source[t]]
  <2> DEFINE u == head(t)
             k == 2 * rank[u] + 1
  <2>1. u \in firsts /\ offset[u] = offset[t] /\ rank[u] \in 0 .. N - 1
    BY <1>12
  <2>2. k \in 1 .. 2 * N /\ k + 1 \in 1 .. 2 * N /\ (k - 1) \div 2 = rank[u]
        /\ k % 2 = 1 /\ (k + 1) % 2 # 1
    BY <1>11, <2>1
  <2>3. next \in Int /\ operator[t] = next + (k + 1) - 1 /\ next + (k + 1) - 2 = next + k - 1
    <3>1. next \in Int /\ rank[u] \in Int
      BY <1>11, <1>14, <2>1
    <3> QED
      BY <1>18, <3>1
  <2> HIDE DEF k
  <2>4. lead(k) = u
    BY <1>11, <1>13, <2>1, <2>2
  <2> HIDE DEF u
  <2>5. operator[t] \in Values!Ids(r) \ Values!Ids(s) /\ Values!Ent(r, operator[t]) = pushed[k + 1]
    BY <1>27, <2>2, <2>3
  <2>6. pushed[k + 1].kind = "operator" /\ pushed[k + 1].refs = <<next + (k + 1) - 2>>
    BY <1>16, <2>2
  <2>7. Kind(r, operator[t]) = "operator" /\ RefsOf(r, operator[t])[1] = next + k - 1
    BY <2>3, <2>5, <2>6 DEF Kind, RefsOf
  <2>8. Values!Ent(r, next + k - 1) = pushed[k] /\ pushed[k].val = offset[lead(k)]
    BY <1>16, <1>27, <2>2
  <2>9. Val(r, RefsOf(r, operator[t])[1]) = offset[t]
    BY <2>1, <2>4, <2>7, <2>8 DEF Val
  <2> QED
    BY <1>5, <2>5, <2>7, <2>9
<1>30. DOMAIN s \subseteq DOMAIN r
  BY <1>23
<1>31. Replicas(s, source, targets, at, r, operator)
  BY <1>20, <1>23, <1>25, <1>26, <1>28, <1>29, <1>30 DEF Replicas
<1> QED
  BY <1>1, <1>31
-----------------------------------------------------------------------------
(* Factoring: targets become replicas of their sources, aliases go, and so *)
(* do the supports that nothing uses any longer.                           *)

Moved(shape, by) == [shape EXCEPT !.at = [k \in DOMAIN @ |-> @[k] + by]]
Factors == {"plane", "cylinder", "curve"}

\* A source is not factored itself, and has the shape of each of its targets where the
\* target is, and of each of its aliases.
Sourced(s, source, targets, aliases, at) ==
    /\ targets \in SUBSET Values!Ids(s) /\ aliases \in SUBSET Values!Ids(s) /\ targets \cap aliases = {}
    /\ \A n \in targets \cup aliases :
          /\ source[n] \in Values!Ids(s) /\ source[n] \notin targets \cup aliases
          /\ Kind(s, source[n]) = Kind(s, n) /\ Kind(s, n) \in Factors
    /\ \A n \in targets :
          Values!Explicit(s, n) = Moved(Values!Explicit(s, source[n]), at[n] - at[source[n]])
    /\ \A n \in aliases : Values!Explicit(s, n) = Values!Explicit(s, source[n])

\* Only faces, edges and pcurves use what is factored, and no other curve that stays has the
\* shape of a source.
Separate(s, source, targets, aliases) ==
    /\ \A m \in Values!Ids(s) : \A k \in DOMAIN RefsOf(s, m) :
          RefsOf(s, m)[k] \in targets \cup aliases => Kind(s, m) \in {"face", "pcurve", "edge"}
    /\ \A n \in targets : \A l \in Values!Ids(s) \ (targets \cup aliases) :
          /\ Kind(s, n) = "curve" /\ Kind(s, l) = "curve"
          /\ Values!CurveKey(s, source[n]) = Values!CurveKey(s, l)
          => source[n] = l

\* The section with its replicas, by ids.
Source(source, aliases, n) == IF n \in aliases THEN source[n] ELSE n
Factored(s, source, targets, aliases, at, operator, w) ==
    /\ w \in Seq(Values!Entities) /\ Values!HasDistinctIds(w) /\ Found(w) /\ Values!Ids(s) \subseteq Values!Ids(w)
    /\ \A n \in Values!Ids(s) \ targets :
          /\ Kind(w, n) = Kind(s, n) /\ Val(w, n) = Val(s, n)
          /\ DOMAIN RefsOf(w, n) = DOMAIN RefsOf(s, n)
          /\ \A k \in DOMAIN RefsOf(s, n) :
                RefsOf(w, n)[k] = Source(source, aliases, RefsOf(s, n)[k])
    /\ \A n \in targets :
          /\ Kind(w, n) = "replica" /\ RefsOf(w, n) = <<source[n], operator[n]>>
          /\ operator[n] \in Values!Ids(w) \ Values!Ids(s) /\ Kind(w, operator[n]) = "operator"
          /\ Val(w, RefsOf(w, operator[n])[1]) = at[n] - at[source[n]]
    /\ \A n \in Values!Ids(w) \ Values!Ids(s) :
          \/ Kind(w, n) = "point" /\ RefsOf(w, n) = <<>>
          \/ /\ Kind(w, n) = "operator"
             /\ \E p \in Values!Ids(w) \ Values!Ids(s) : RefsOf(w, n) = <<p>> /\ Kind(w, p) = "point"

\* What goes is no topology, and the aliases or what is used only by what goes.
Goes(s, aliases, w, Gone) ==
    /\ Gone \in SUBSET Values!Ids(s) /\ aliases \subseteq Gone
    /\ \A n \in Gone : Kind(s, n) \notin Values!Consumers
    /\ \A n \in Gone : n \in aliases \/ Values!Parents(w, n) \subseteq Gone
Remaining(w, Gone) == Values!Kept(w, {i \in DOMAIN w : w[i].id \notin Gone})

\* Where a reference of the section with replicas leads.
LEMMA FactoredRefs ==
    ASSUME NEW s, Values!Whole(s), NEW source, NEW targets, NEW aliases, NEW at, NEW operator, NEW w,
           Sourced(s, source, targets, aliases, at),
           Factored(s, source, targets, aliases, at, operator, w),
           NEW m \in Values!Ids(w), NEW k \in DOMAIN RefsOf(w, m)
    PROVE  RefsOf(w, m)[k] \in Values!Ids(w) /\ RefsOf(w, m)[k] \notin aliases
<1>1. Linked(s)
  BY WholeGives
<1>2. CASE m \in Values!Ids(s) \ targets
  <2>1. k \in DOMAIN RefsOf(s, m) /\ RefsOf(w, m)[k] = Source(source, aliases, RefsOf(s, m)[k])
    BY <1>2 DEF Factored
  <2>2. RefsOf(s, m)[k] \in Values!Ids(s)
    BY <1>1, <1>2, <2>1 DEF Linked
  <2> QED
    BY <2>1, <2>2 DEF Source, Sourced, Factored
<1>3. CASE m \in targets
  <2>1. RefsOf(w, m) = <<source[m], operator[m]>>
    BY <1>3 DEF Factored
  <2>2. k = 1 \/ k = 2
    BY <2>1
  <2>3. RefsOf(w, m)[k] = source[m] \/ RefsOf(w, m)[k] = operator[m]
    BY <2>1, <2>2
  <2> QED
    BY <1>3, <2>3 DEF Sourced, Factored
<1>4. CASE m \in Values!Ids(w) \ Values!Ids(s)
  <2>1. PICK p \in Values!Ids(w) \ Values!Ids(s) : RefsOf(w, m) = <<p>>
    <3>1. RefsOf(w, m) # <<>>
      OBVIOUS
    <3> QED
      BY <1>4, <3>1 DEF Factored
  <2>2. RefsOf(w, m)[k] = p
    BY <2>1
  <2> QED
    BY <2>1, <2>2 DEF Sourced
<1> QED
  BY <1>2, <1>3, <1>4

\* What remains, by ids: nothing it refers to goes.
Remainder(w, Gone, t) ==
    /\ t \in Seq(Values!Entities) /\ Values!HasDistinctIds(t) /\ Found(t)
    /\ \A m : m \in Values!Ids(t) <=> m \in Values!Ids(w) /\ m \notin Gone
    /\ \A m \in Values!Ids(t) : /\ Kind(t, m) = Kind(w, m) /\ Val(t, m) = Val(w, m)
                           /\ RefsOf(t, m) = RefsOf(w, m)
    /\ \A m \in Values!Ids(t) : \A k \in DOMAIN RefsOf(w, m) : RefsOf(w, m)[k] \in Values!Ids(t)

LEMMA RemainingById ==
    ASSUME NEW s, Values!Whole(s), NEW source, NEW targets, NEW aliases, NEW at, NEW operator, NEW w,
           Sourced(s, source, targets, aliases, at),
           Factored(s, source, targets, aliases, at, operator, w),
           NEW Gone, Goes(s, aliases, w, Gone)
    PROVE  Remainder(w, Gone, Remaining(w, Gone))
<1> DEFINE S == {i \in DOMAIN w : w[i].id \notin Gone}
           t == Remaining(w, Gone)
<1>1. w \in Seq(Values!Entities) /\ Values!HasDistinctIds(w) /\ Found(w)
  BY DEF Factored
<1>2. IsPart(t, w, S)
  <2>1. S \in SUBSET DOMAIN w
    OBVIOUS
  <2> HIDE DEF S
  <2>2. IsPart(Values!Kept(w, S), w, S)
    BY <1>1, <2>1, KeptIsPart
  <2> QED
    BY <2>2 DEF S, Remaining
<1> HIDE DEF t
<1>3. ASSUME NEW m PROVE m \in Values!Ids(t) <=> m \in Values!Ids(w) /\ m \notin Gone
  <2>1. ASSUME m \in Values!Ids(t) PROVE m \in Values!Ids(w) /\ m \notin Gone
    BY <1>2, <2>1 DEF IsPart
  <2>2. ASSUME m \in Values!Ids(w), m \notin Gone PROVE m \in Values!Ids(t)
    <3>1. PICK i \in DOMAIN w : w[i].id = m
      BY <2>2 DEF Values!Ids
    <3>2. i \in S
      BY <2>2, <3>1
    <3> QED
      BY <1>2, <3>1, <3>2 DEF IsPart
  <2> QED
    BY <2>1, <2>2
<1>4. \A m \in Values!Ids(t) : /\ Kind(t, m) = Kind(w, m) /\ Val(t, m) = Val(w, m)
                          /\ RefsOf(t, m) = RefsOf(w, m)
  BY <1>2 DEF IsPart, Kind, Val, RefsOf
<1>5. ASSUME NEW m \in Values!Ids(t), NEW k \in DOMAIN RefsOf(w, m) PROVE RefsOf(w, m)[k] \in Values!Ids(t)
  <2> DEFINE r == RefsOf(w, m)[k]
  <2>1. m \in Values!Ids(w) /\ m \notin Gone
    BY <1>3
  <2>2. r \in Values!Ids(w) /\ r \notin aliases
    BY <2>1, FactoredRefs
  <2>3. m \in Values!Parents(w, r)
    <3>1. Values!Ent(w, m) \in Values!ToSet(w) /\ Values!Ent(w, m).id = m
      BY <1>1, <2>1 DEF Found
    <3>2. r \in Values!ToSet(Values!Ent(w, m).refs)
      BY DEF RefsOf, Values!ToSet
    <3> QED
      BY <3>1, <3>2 DEF Values!Parents
  <2> HIDE DEF r
  <2>4. r \notin Gone
    BY <2>1, <2>2, <2>3 DEF Goes
  <2>5. r \in Values!Ids(t)
    BY <1>3, <2>2, <2>4
  <2> QED
    BY <2>5 DEF r
<1>6. t \in Seq(Values!Entities) /\ Values!HasDistinctIds(t) /\ Found(t)
  BY <1>2 DEF IsPart
<1>7. Remainder(w, Gone, t)
  BY <1>3, <1>4, <1>5, <1>6 DEF Remainder
<1> QED
  BY <1>7 DEF t

\* The supports that remain as they were.
Supports == {"point", "placement", "plane", "cylinder", "curve", "operator", "replica"}
Same(s, targets, Gone) ==
    {n \in Values!Ids(s) : n \notin targets /\ n \notin Gone /\ Kind(s, n) \in Supports}
Itself(D) == [n \in D |-> n]

\* A support refers to supports.
LEMMA SupportsAreClosed ==
    ASSUME NEW s, Values!Whole(s), NEW n \in Values!Ids(s), Kind(s, n) \in Supports,
           NEW k \in DOMAIN RefsOf(s, n)
    PROVE  Kind(s, RefsOf(s, n)[k]) \in Supports
<1>1. Supported(s)
  BY WholeIsSupported
<1>2. CASE Kind(s, n) \in {"placement", "operator"}
  BY <1>1, <1>2 DEF Supported, Supports
<1>3. CASE Kind(s, n) = "curve"
  BY <1>1, <1>3 DEF Supported, Supports
<1>4. CASE Kind(s, n) \in {"plane", "cylinder"}
  BY <1>1, <1>4 DEF Supported, Supports
<1>5. CASE Kind(s, n) = "replica"
  BY <1>1, <1>5 DEF Supported, Supports
<1>6. CASE Kind(s, n) = "point"
  BY <1>1, <1>6 DEF Supported
<1> QED
  BY <1>2, <1>3, <1>4, <1>5, <1>6 DEF Supports

\* They are carried over as they are.
LEMMA SupportsAreCarried ==
    ASSUME NEW s, Values!Whole(s), NEW source, NEW targets, NEW aliases, NEW at, NEW operator, NEW w,
           Sourced(s, source, targets, aliases, at), Separate(s, source, targets, aliases),
           Factored(s, source, targets, aliases, at, operator, w),
           NEW Gone, Goes(s, aliases, w, Gone), NEW t, Remainder(w, Gone, t)
    PROVE  Carries(s, t, Same(s, targets, Gone), Itself(Same(s, targets, Gone)))
<1> DEFINE D == Same(s, targets, Gone)
           f == Itself(D)
<1>1. Linked(s)
  BY WholeGives
<1>2. ASSUME NEW n \in D
      PROVE  /\ n \in Values!Ids(s) \ targets /\ n \in Values!Ids(t) /\ Kind(s, n) \in Supports
             /\ Kind(t, n) = Kind(s, n) /\ Val(t, n) = Val(s, n)
             /\ RefsOf(t, n) = RefsOf(w, n) /\ DOMAIN RefsOf(t, n) = DOMAIN RefsOf(s, n)
  BY DEF Same, Factored, Remainder
<1>3. ASSUME NEW n \in D, NEW k \in DOMAIN RefsOf(s, n)
      PROVE  RefsOf(s, n)[k] \in D /\ RefsOf(t, n)[k] = RefsOf(s, n)[k]
  <2> DEFINE r == RefsOf(s, n)[k]
  <2>1. r \in Values!Ids(s) /\ Kind(s, r) \in Supports
    BY <1>1, <1>2, SupportsAreClosed DEF Linked
  <2>2. r \notin targets \cup aliases
    <3>1. Kind(s, n) \notin {"face", "pcurve", "edge"}
      BY <1>2 DEF Supports
    <3> QED
      BY <1>2, <3>1 DEF Separate
  <2>3. RefsOf(w, n)[k] = r
    BY <1>2, <2>2 DEF Factored, Source
  <2>4. r \in Values!Ids(t)
    BY <1>2, <2>3 DEF Remainder
  <2>5. r \notin Gone
    BY <2>4 DEF Remainder
  <2> QED
    BY <1>2, <2>1, <2>2, <2>3, <2>5 DEF Same
<1>4. \A n \in D : f[n] = n
  BY DEF Itself
<1>5. D \in SUBSET Values!Ids(s) /\ f \in [D -> Values!Ids(t)]
  BY <1>2 DEF Itself
<1> HIDE DEF D, f
<1>6. Carries(s, t, D, f)
  BY <1>2, <1>3, <1>4, <1>5 DEF Carries
<1> QED
  BY <1>6 DEF D, f

LEMMA SupportsAreSame ==
    ASSUME NEW s, Values!Whole(s), NEW source, NEW targets, NEW aliases, NEW at, NEW operator, NEW w,
           Sourced(s, source, targets, aliases, at), Separate(s, source, targets, aliases),
           Factored(s, source, targets, aliases, at, operator, w),
           NEW Gone, Goes(s, aliases, w, Gone), NEW t, Remainder(w, Gone, t),
           NEW n \in Same(s, targets, Gone)
    PROVE  /\ n \in Values!Ids(s) /\ n \in Values!Ids(t) /\ Kind(t, n) = Kind(s, n)
           /\ Kind(s, n) = "point" => Val(t, n) = Val(s, n)
           /\ Kind(s, n) = "curve" => Values!CurveKey(t, n) = Values!CurveKey(s, n)
           /\ Kind(s, n) \in Factors => Values!Explicit(t, n) = Values!Explicit(s, n)
           /\ Kind(s, n) \in Factors \cup {"replica"} => Values!Shape(t, n) = Values!Shape(s, n)
<1> DEFINE D == Same(s, targets, Gone)
           f == Itself(D)
<1>1. Carries(s, t, D, f)
  BY SupportsAreCarried
<1>2. Supported(s)
  BY WholeIsSupported
<1>3. KeepsShapes(s, t, D, f)
  BY <1>1, <1>2, CarriedShapes
<1>4. f[n] = n
  BY DEF Itself
<1>5. n \in Values!Ids(s) /\ f[n] \in Values!Ids(t)
  BY <1>1 DEF Carries
<1> HIDE DEF D, f
<1>6. n \in D
  BY DEF D
<1> QED
  BY <1>1, <1>3, <1>4, <1>5, <1>6 DEF Carries, KeepsShapes, Factors

\* What a face, an edge or another user lies on stands for what it stood for: a target
\* by its source and its operator, an alias by its source, anything else by itself.
LEMMA FactoredShapes ==
    ASSUME NEW s, Values!Whole(s), NEW source, NEW targets, NEW aliases, NEW at, NEW operator, NEW w,
           Sourced(s, source, targets, aliases, at), Separate(s, source, targets, aliases),
           Factored(s, source, targets, aliases, at, operator, w),
           NEW Gone, Goes(s, aliases, w, Gone), NEW t, Remainder(w, Gone, t),
           NEW n \in Values!Ids(s), Kind(s, n) \in Factors \cup {"replica"},
           Source(source, aliases, n) \in Values!Ids(t)
    PROVE  Values!Shape(t, Source(source, aliases, n)) = Values!Shape(s, n)
<1> DEFINE D == Same(s, targets, Gone)
<1>1. CASE n \in targets
  <2>1. Source(source, aliases, n) = n
    BY <1>1 DEF Source, Sourced
  <2>2. n \in Values!Ids(t) /\ RefsOf(t, n) = <<source[n], operator[n]>> /\ Kind(t, n) = "replica"
    BY <1>1, <2>1 DEF Factored, Remainder
  <2>3. source[n] \in Values!Ids(t) /\ operator[n] \in Values!Ids(t)
    <3>1. RefsOf(w, n) = <<source[n], operator[n]>>
      BY <1>1 DEF Factored
    <3>2. 1 \in DOMAIN RefsOf(w, n) /\ 2 \in DOMAIN RefsOf(w, n)
          /\ RefsOf(w, n)[1] = source[n] /\ RefsOf(w, n)[2] = operator[n]
      BY <3>1
    <3> QED
      BY <2>2, <3>2 DEF Remainder
  <2>4. source[n] \in D /\ Kind(s, source[n]) \in Factors
    <3>1. source[n] \in Values!Ids(s) /\ source[n] \notin targets /\ Kind(s, source[n]) \in Factors
      BY <1>1 DEF Sourced
    <3> QED
      BY <2>3, <3>1 DEF Same, Factors, Supports, Remainder
  <2>5. Values!Explicit(t, source[n]) = Values!Explicit(s, source[n])
    BY <2>4, SupportsAreSame
  <2>6. Val(t, RefsOf(t, operator[n])[1]) = at[n] - at[source[n]]
    <3> DEFINE o == operator[n]
    <3>1. o \in Values!Ids(w) \ Values!Ids(s) /\ Kind(w, o) = "operator"
          /\ Val(w, RefsOf(w, o)[1]) = at[n] - at[source[n]]
      BY <1>1 DEF Factored
    <3>2. PICK p : RefsOf(w, o) = <<p>>
      BY <3>1 DEF Factored
    <3>3. 1 \in DOMAIN RefsOf(w, o) /\ RefsOf(w, o)[1] = p
      BY <3>2
    <3>4. p \in Values!Ids(t) /\ RefsOf(t, o) = RefsOf(w, o)
      BY <2>3, <3>3 DEF Remainder
    <3>5. Val(t, p) = Val(w, p)
      BY <3>4 DEF Remainder
    <3> QED
      BY <3>1, <3>3, <3>4, <3>5
  <2>7. Values!Shape(t, n) = Moved(Values!Explicit(t, RefsOf(t, n)[1]), Val(t, RefsOf(t, RefsOf(t, n)[2])[1]))
    BY <2>2, ShapesById DEF Moved
  <2>8. RefsOf(t, n)[1] = source[n] /\ RefsOf(t, n)[2] = operator[n]
    BY <2>2
  <2>9. Values!Shape(t, n) = Moved(Values!Explicit(s, source[n]), at[n] - at[source[n]])
    BY <2>5, <2>6, <2>7, <2>8
  <2>10. Values!Shape(t, n) = Values!Explicit(s, n)
    BY <1>1, <2>9 DEF Sourced
  <2>11. Values!Shape(s, n) = Values!Explicit(s, n)
    <3>1. Kind(s, n) # "replica"
      BY <1>1 DEF Sourced, Factors
    <3> QED
      BY <3>1, ShapesById
  <2> QED
    BY <2>1, <2>10, <2>11
<1>2. CASE n \in aliases
  <2>1. Source(source, aliases, n) = source[n]
    BY <1>2 DEF Source
  <2>2. source[n] \in D /\ Kind(s, source[n]) \in Factors
    <3>1. source[n] \in Values!Ids(s) /\ source[n] \notin targets /\ Kind(s, source[n]) \in Factors
      BY <1>2 DEF Sourced
    <3> QED
      BY <2>1, <3>1 DEF Same, Factors, Supports, Remainder
  <2>3. Values!Shape(t, source[n]) = Values!Shape(s, source[n])
    BY <2>2, SupportsAreSame
  <2>4. Kind(s, n) # "replica" /\ Kind(s, source[n]) # "replica"
    BY <1>2, <2>2 DEF Sourced, Factors
  <2>5. Values!Shape(s, source[n]) = Values!Explicit(s, source[n]) /\ Values!Shape(s, n) = Values!Explicit(s, n)
    BY <2>4, ShapesById
  <2> QED
    BY <1>2, <2>1, <2>3, <2>5 DEF Sourced
<1>3. CASE n \notin targets \cup aliases
  <2>1. Source(source, aliases, n) = n
    BY <1>3 DEF Source
  <2>2. n \in D
    BY <1>3, <2>1 DEF Same, Factors, Supports, Remainder
  <2> QED
    BY <2>1, <2>2, SupportsAreSame
<1> QED
  BY <1>1, <1>2, <1>3

LEMMA FactoredLinks ==
    ASSUME NEW s, Values!Whole(s), NEW source, NEW targets, NEW aliases, NEW at, NEW operator, NEW w,
           Sourced(s, source, targets, aliases, at), Separate(s, source, targets, aliases),
           Factored(s, source, targets, aliases, at, operator, w),
           NEW Gone, NEW t, Remainder(w, Gone, t)
    PROVE  Linked(t)
<1>1. Linked(s) /\ Found(s)
  BY WholeGives
<1> SUFFICES ASSUME NEW m \in Values!Ids(t)
             PROVE  /\ Kind(t, m) \in {"placement", "operator", "plane", "cylinder", "vertex",
                                       "face", "edge", "pcurve"} => Len(RefsOf(t, m)) = 1
                    /\ Kind(t, m) \in {"curve", "presentation"} => Len(RefsOf(t, m)) >= 1
                    /\ Kind(t, m) = "replica" => Len(RefsOf(t, m)) = 2
                    /\ \A k \in DOMAIN RefsOf(t, m) :
                          /\ RefsOf(t, m)[k] \in Values!Ids(t)
                          /\ Kind(t, RefsOf(t, m)[k]) \in Values!Admits(Kind(t, m), k)
  BY DEF Linked
<1>2. /\ m \in Values!Ids(w) /\ Kind(t, m) = Kind(w, m) /\ RefsOf(t, m) = RefsOf(w, m)
      /\ \A k \in DOMAIN RefsOf(t, m) :
            /\ RefsOf(t, m)[k] \in Values!Ids(t)
            /\ Kind(t, RefsOf(t, m)[k]) = Kind(w, RefsOf(t, m)[k])
  BY DEF Remainder
<1>3. CASE m \in Values!Ids(s) \ targets
  <2>1. Kind(t, m) = Kind(s, m) /\ DOMAIN RefsOf(t, m) = DOMAIN RefsOf(s, m)
        /\ \A k \in DOMAIN RefsOf(s, m) :
              RefsOf(t, m)[k] = Source(source, aliases, RefsOf(s, m)[k])
    BY <1>2, <1>3 DEF Factored
  <2>2. Len(RefsOf(t, m)) = Len(RefsOf(s, m))
    <3>1. RefsOf(s, m) \in Seq(Int) /\ RefsOf(t, m) \in Seq(Int)
      BY <1>1, <1>3 DEF Found, Remainder
    <3> QED
      BY <2>1, <3>1
  <2>3. /\ Kind(s, m) \in {"placement", "operator", "plane", "cylinder", "vertex",
                           "face", "edge", "pcurve"} => Len(RefsOf(s, m)) = 1
        /\ Kind(s, m) \in {"curve", "presentation"} => Len(RefsOf(s, m)) >= 1
        /\ Kind(s, m) = "replica" => Len(RefsOf(s, m)) = 2
    BY <1>1, <1>3 DEF Linked
  <2>4. ASSUME NEW k \in DOMAIN RefsOf(t, m)
        PROVE  Kind(t, RefsOf(t, m)[k]) \in Values!Admits(Kind(t, m), k)
    <3> DEFINE r == RefsOf(s, m)[k]
    <3>1. r \in Values!Ids(s) /\ Kind(s, r) \in Values!Admits(Kind(s, m), k)
      BY <1>1, <1>3, <2>1 DEF Linked
    <3>2. Kind(t, RefsOf(t, m)[k]) = Kind(w, Source(source, aliases, r))
      BY <1>2, <2>1
    <3>3. CASE r \in targets
      <4>1. Kind(w, Source(source, aliases, r)) = "replica"
        BY <3>3 DEF Source, Sourced, Factored
      <4>2. Kind(s, m) \in {"face", "pcurve", "edge"}
        BY <1>3, <2>1, <3>3 DEF Separate
      <4>3. "replica" \in Values!Admits(Kind(s, m), k)
        BY <4>2, AdmitsTable
      <4> QED
        BY <2>1, <3>2, <4>1, <4>3
    <3>4. CASE r \in aliases
      <4>1. source[r] \in Values!Ids(s) \ targets /\ Kind(s, source[r]) = Kind(s, r)
        BY <3>4 DEF Sourced
      <4>2. Kind(w, Source(source, aliases, r)) = Kind(s, r)
        BY <3>4, <4>1 DEF Source, Factored
      <4> QED
        BY <2>1, <3>1, <3>2, <4>2
    <3>5. CASE r \notin targets \cup aliases
      <4>1. Kind(w, Source(source, aliases, r)) = Kind(s, r)
        BY <3>1, <3>5 DEF Source, Factored
      <4> QED
        BY <2>1, <3>1, <3>2, <4>1
    <3> QED
      BY <3>3, <3>4, <3>5
  <2> QED
    BY <1>2, <2>1, <2>2, <2>3, <2>4
<1>4. CASE m \in targets
  <2>1. Kind(t, m) = "replica" /\ RefsOf(t, m) = <<source[m], operator[m]>>
    BY <1>2, <1>4 DEF Factored
  <2>2. Len(RefsOf(t, m)) = 2
    BY <2>1
  <2>3. ASSUME NEW k \in DOMAIN RefsOf(t, m)
        PROVE  Kind(t, RefsOf(t, m)[k]) \in Values!Admits("replica", k)
    <3>1. (k = 1 /\ RefsOf(t, m)[k] = source[m]) \/ (k = 2 /\ RefsOf(t, m)[k] = operator[m])
      BY <2>1
    <3>2. CASE k = 1 /\ RefsOf(t, m)[k] = source[m]
      <4>1. Kind(w, source[m]) \in {"plane", "cylinder", "curve"}
        BY <1>4 DEF Sourced, Factored, Factors
      <4> QED
        BY <1>2, <3>2, <4>1, AdmitsTable
    <3>3. CASE k = 2 /\ RefsOf(t, m)[k] = operator[m]
      <4>1. Kind(w, operator[m]) = "operator"
        BY <1>4 DEF Factored
      <4>2. Values!Admits("replica", 2) = {"operator"}
        BY AdmitsTable
      <4> QED
        BY <1>2, <3>3, <4>1, <4>2
    <3> QED
      BY <3>1, <3>2, <3>3
  <2> QED
    BY <1>2, <2>1, <2>2, <2>3
<1>5. CASE m \in Values!Ids(w) \ Values!Ids(s)
  <2>1. CASE Kind(w, m) = "point" /\ RefsOf(w, m) = <<>>
    BY <1>2, <2>1
  <2>2. CASE Kind(w, m) # "point"
    <3>1. PICK p \in Values!Ids(w) : RefsOf(w, m) = <<p>> /\ Kind(w, p) = "point"
      BY <1>5, <2>2 DEF Factored
    <3>2. Kind(w, m) = "operator"
      BY <1>5, <2>2 DEF Factored
    <3>3. Len(RefsOf(t, m)) = 1 /\ DOMAIN RefsOf(t, m) = {1} /\ RefsOf(t, m)[1] = p
      BY <1>2, <3>1
    <3> QED
      BY <1>2, <3>1, <3>2, <3>3, AdmitsTable
  <2>3. Kind(w, m) = "point" => RefsOf(w, m) = <<>>
    BY <1>5 DEF Factored
  <2> QED
    BY <2>1, <2>2, <2>3
<1> QED
  BY <1>2, <1>3, <1>4, <1>5

LEMMA FactoredAlone ==
    ASSUME NEW s, Values!Whole(s), NEW source, NEW targets, NEW aliases, NEW at, NEW operator, NEW w,
           Sourced(s, source, targets, aliases, at), Separate(s, source, targets, aliases),
           Factored(s, source, targets, aliases, at, operator, w),
           NEW Gone, Goes(s, aliases, w, Gone), NEW t, Remainder(w, Gone, t)
    PROVE  Alone(t)
<1>1. Alone(s) /\ Supported(s)
  BY WholeGives, WholeIsSupported
<1> SUFFICES ASSUME NEW m \in Values!Ids(t), NEW l \in Values!Ids(t),
                    Kind(t, m) = "replica", Kind(t, RefsOf(t, m)[1]) = "curve",
                    Kind(t, l) = "curve", Values!CurveKey(t, RefsOf(t, m)[1]) = Values!CurveKey(t, l)
             PROVE  RefsOf(t, m)[1] = l
  BY DEF Alone
<1> DEFINE D == Same(s, targets, Gone)
           r == RefsOf(t, m)[1]
<1>2. ASSUME NEW n \in Values!Ids(t), Kind(t, n) = "curve"
      PROVE  n \in D /\ Kind(s, n) = "curve" /\ Values!CurveKey(t, n) = Values!CurveKey(s, n)
             /\ n \notin targets \cup aliases
  <2>1. n \in Values!Ids(w) /\ Kind(w, n) = "curve" /\ n \notin Gone
    BY <1>2 DEF Remainder
  <2>2. n \in Values!Ids(s) \ targets
    BY <2>1 DEF Factored
  <2>3. Kind(s, n) = "curve"
    BY <2>1, <2>2 DEF Factored
  <2>4. n \in D
    BY <2>1, <2>2, <2>3 DEF Same, Supports
  <2>5. Values!CurveKey(t, n) = Values!CurveKey(s, n)
    BY <2>3, <2>4, SupportsAreSame
  <2>6. n \notin aliases
    BY <2>1 DEF Goes
  <2> QED
    BY <2>2, <2>3, <2>4, <2>5, <2>6
<1>3. l \in D /\ Kind(s, l) = "curve" /\ Values!CurveKey(t, l) = Values!CurveKey(s, l)
      /\ l \in Values!Ids(s) \ (targets \cup aliases)
  BY <1>2 DEF Same
<1>4. m \in Values!Ids(w) /\ Kind(w, m) = "replica" /\ RefsOf(t, m) = RefsOf(w, m) /\ m \in Values!Ids(s)
  BY DEF Remainder, Factored
<1>5. CASE m \in targets
  <2>1. r = source[m] /\ RefsOf(w, m)[1] = r /\ 1 \in DOMAIN RefsOf(w, m)
    BY <1>4, <1>5 DEF Factored
  <2>2. r \in Values!Ids(t)
    BY <2>1 DEF Remainder
  <2>3. Kind(s, r) = "curve" /\ Values!CurveKey(t, r) = Values!CurveKey(s, r)
    BY <1>2, <2>2
  <2>4. Kind(s, m) = "curve" /\ Values!CurveKey(s, source[m]) = Values!CurveKey(s, l)
    BY <1>3, <1>5, <2>1, <2>3 DEF Sourced
  <2>5. source[m] = l
    BY <1>3, <1>5, <2>4 DEF Separate
  <2> QED
    BY <2>1, <2>5
<1>6. CASE m \notin targets
  <2>1. Kind(s, m) = "replica"
    BY <1>4, <1>6 DEF Factored
  <2>2. 1 \in DOMAIN RefsOf(s, m)
    BY <1>1, <1>4, <2>1 DEF Supported
  <2>3. RefsOf(s, m)[1] \notin targets \cup aliases
    BY <1>4, <2>1, <2>2 DEF Separate
  <2>4. r = RefsOf(s, m)[1] /\ 1 \in DOMAIN RefsOf(w, m)
    BY <1>4, <1>6, <2>2, <2>3 DEF Factored, Source
  <2>5. r \in Values!Ids(t)
    BY <1>4, <2>4 DEF Remainder
  <2>6. Kind(s, r) = "curve" /\ Values!CurveKey(t, r) = Values!CurveKey(s, r)
    BY <1>2, <2>5
  <2>7. Values!CurveKey(s, r) = Values!CurveKey(s, l)
    BY <1>3, <2>6
  <2> QED
    BY <1>1, <1>3, <1>4, <2>1, <2>4, <2>6, <2>7 DEF Alone
<1> QED
  BY <1>5, <1>6

\* Factoring keeps the section whole and its meaning.
LEMMA FactoredKeeps ==
    ASSUME NEW s, Values!Whole(s), NEW source, NEW targets, NEW aliases, NEW at, NEW operator, NEW w,
           Sourced(s, source, targets, aliases, at), Separate(s, source, targets, aliases),
           Factored(s, source, targets, aliases, at, operator, w),
           DOMAIN s \subseteq DOMAIN w, \A i \in DOMAIN s : w[i].id = s[i].id,
           \A i \in DOMAIN w \ DOMAIN s : w[i].id \notin Values!Ids(s),
           NEW Gone, Goes(s, aliases, w, Gone)
    PROVE  Keeps(s, Remaining(w, Gone))
<1> DEFINE t == Remaining(w, Gone)
           S == {i \in DOMAIN w : w[i].id \notin Gone}
<1>1. s \in Seq(Values!Entities) /\ Found(s) /\ Supported(s)
  BY WholeGives, WholeIsSupported
<1>2. w \in Seq(Values!Entities) /\ Found(w)
  BY DEF Factored
<1>3. Remainder(w, Gone, t)
  BY RemainingById
<1>4. t = Values!Kept(w, S)
  BY DEF Remaining
<1> HIDE DEF t
<1>5. Linked(t) /\ Alone(t)
  BY <1>3, FactoredLinks, FactoredAlone
<1>6. Values!Whole(t)
  BY <1>3, <1>5, WholeById DEF Remainder
<1>8. ASSUME NEW i \in DOMAIN s
      PROVE  /\ w[i].kind \in Values!Consumers <=> s[i].kind \in Values!Consumers
             /\ s[i].kind \in Values!Consumers =>
                  /\ s[i].id \in Values!Ids(s) \ targets /\ Kind(s, s[i].id) = s[i].kind
                  /\ w[i].kind = s[i].kind /\ RefsOf(s, s[i].id) = s[i].refs
                  /\ RefsOf(w, s[i].id) = w[i].refs
  <2> DEFINE n == s[i].id
  <2>1. n \in Values!Ids(s) /\ Kind(s, n) = s[i].kind /\ RefsOf(s, n) = s[i].refs
    BY <1>1 DEF Found, Kind, RefsOf
  <2>2. i \in DOMAIN w /\ w[i].id = n
    OBVIOUS
  <2>3. Kind(w, n) = w[i].kind /\ RefsOf(w, n) = w[i].refs
    BY <1>2, <2>2 DEF Found, Kind, RefsOf
  <2>4. CASE n \in targets
    <3>1. Kind(w, n) = "replica" /\ Kind(s, n) \in Factors
      BY <2>4 DEF Factored, Sourced
    <3> QED
      BY <2>1, <2>3, <3>1 DEF Values!Consumers, Factors
  <2>5. CASE n \notin targets
    <3>1. Kind(w, n) = Kind(s, n)
      BY <2>1, <2>5 DEF Factored
    <3> QED
      BY <2>1, <2>3, <2>5, <3>1
  <2> QED
    BY <2>4, <2>5
<1>9. ASSUME NEW i \in DOMAIN w \ DOMAIN s PROVE w[i].kind \notin Values!Consumers
  <2>1. w[i].id \in Values!Ids(w) \ Values!Ids(s) /\ Kind(w, w[i].id) = w[i].kind
    BY <1>2 DEF Found, Kind
  <2>2. Kind(w, w[i].id) \in {"point", "operator"}
    BY <2>1 DEF Factored
  <2> QED
    BY <2>1, <2>2 DEF Values!Consumers
<1>10. Users(w) = Users(s)
  BY <1>8, <1>9 DEF Users
<1>11. Users(w) \subseteq S
  <2> SUFFICES ASSUME NEW i \in Users(s) PROVE w[i].id \notin Gone
    BY <1>10 DEF Users
  <2>1. Kind(s, s[i].id) \in Values!Consumers
    BY <1>8 DEF Users
  <2> QED
    BY <2>1 DEF Goes, Users
<1>12. Values!Topology(t) = Values!Topology(w)
  BY <1>2, <1>4, <1>11, TopologyIsKept
<1>13. ASSUME NEW i \in Users(s) PROVE Stands(t, w[i]) = Stands(s, s[i])
  <2> DEFINE n == s[i].id
             r == s[i].refs[1]
  <2>1. /\ n \in Values!Ids(s) \ targets /\ Kind(s, n) = s[i].kind /\ w[i].kind = s[i].kind
        /\ RefsOf(s, n) = s[i].refs /\ RefsOf(w, n) = w[i].refs
        /\ Kind(s, n) \in {"vertex", "face", "edge", "pcurve"}
    BY <1>8 DEF Users, Values!Consumers
  <2>2. 1 \in DOMAIN RefsOf(s, n) /\ r \in Values!Ids(s)
        /\ IF s[i].kind = "vertex" THEN Kind(s, r) = "point"
           ELSE Kind(s, r) \in Factors \cup {"replica"}
    BY <1>1, <2>1 DEF Supported, Factors
  <2>3. w[i].refs[1] = Source(source, aliases, r) /\ 1 \in DOMAIN RefsOf(w, n)
    BY <2>1, <2>2 DEF Factored
  <2>4. n \in Values!Ids(t)
    <3>1. n \in Values!Ids(w) /\ n \notin Gone
      BY <2>1 DEF Factored, Goes, Values!Consumers
    <3> QED
      BY <1>3, <3>1 DEF Remainder
  <2>5. Source(source, aliases, r) \in Values!Ids(t)
    <3>1. RefsOf(w, n)[1] \in Values!Ids(t)
      BY <1>3, <2>3, <2>4 DEF Remainder
    <3> QED
      BY <2>1, <2>3, <3>1
  <2>6. CASE s[i].kind = "vertex"
    <3>1. r \notin targets \cup aliases
      BY <2>2, <2>6 DEF Sourced, Factors
    <3>2. Source(source, aliases, r) = r
      BY <3>1 DEF Source
    <3>3. r \in Same(s, targets, Gone)
      BY <1>3, <2>2, <2>5, <2>6, <3>1, <3>2 DEF Same, Supports, Remainder
    <3>4. Val(t, r) = Val(s, r)
      BY <1>3, <2>2, <2>6, <3>3, SupportsAreSame
    <3> QED
      BY <2>1, <2>3, <2>6, <3>2, <3>4 DEF Stands, Val
  <2>7. CASE s[i].kind # "vertex"
    <3>1. Values!Shape(t, Source(source, aliases, r)) = Values!Shape(s, r)
      BY <1>3, <2>2, <2>5, <2>7, FactoredShapes
    <3> QED
      BY <2>1, <2>3, <2>7, <3>1 DEF Stands
  <2> QED
    BY <2>6, <2>7
<1>14. Values!Meaning(t) = Values!Meaning(s)
  BY <1>1, <1>2, <1>10, <1>12, <1>13, SameMeaning
<1> QED
  BY <1>6, <1>14 DEF Keeps, t

\* The least member of a finite set of ids.
LEMMA LeastId ==
    ASSUME NEW S \in SUBSET Int, IsFiniteSet(S), S # {}
    PROVE  Values!Min(S) \in S
<1> DEFINE N == Cardinality(S)
           order == Values!InOrder(S)
<1>1. Listed(S)
  BY InOrderLists
<1>2. /\ N \in Nat /\ \A k \in 1 .. N : order[k] \in S
      /\ \A j, k \in 1 .. N : j < k <=> order[j] < order[k]
      /\ \A n \in S : \E k \in 1 .. N : order[k] = n
  BY <1>1 DEF Listed
<1> HIDE DEF N, order
<1>3. 1 \in 1 .. N
  <2>1. PICK n \in S : TRUE
    OBVIOUS
  <2>2. PICK k \in 1 .. N : order[k] = n
    BY <1>2, <2>1
  <2> QED
    BY <1>2, <2>2
<1>4. ASSUME NEW n \in S PROVE order[1] <= n
  <2>1. PICK k \in 1 .. N : order[k] = n
    BY <1>2
  <2>2. n \in Int /\ order[1] \in Int
    <3>1. order[1] \in S
      BY <1>2, <1>3
    <3> QED
      BY <3>1
  <2>3. ~ (order[k] < order[1])
    <3>1. ~ (k < 1)
      BY <1>2, <2>1
    <3> QED
      BY <1>2, <1>3, <3>1
  <2> QED
    BY <2>1, <2>2, <2>3
<1>5. order[1] \in S
  BY <1>2, <1>3
<1>6. \E x \in S : \A n \in S : x <= n
  BY <1>4, <1>5
<1> QED
  BY <1>6 DEF Values!Min

\* The members of a group by a key, and the first of each, as the passes find them.
GroupedBy(group, key, source) ==
    \A n \in group :
        /\ source[n] \in group /\ key[source[n]] = key[n] /\ source[source[n]] = source[n]
        /\ \A m \in group : key[m] = key[n] => source[m] = source[n]

LEMMA SourcesOfGroups ==
    ASSUME NEW group \in SUBSET Int, IsFiniteSet(group), NEW key, NEW source,
           \A n \in group : source[n] = Values!Min({m \in group : key[m] = key[n]})
    PROVE  GroupedBy(group, key, source)
<1>1. ASSUME NEW n \in group PROVE source[n] \in group /\ key[source[n]] = key[n]
  <2> DEFINE S == {m \in group : key[m] = key[n]}
  <2>1. S \in SUBSET Int /\ S # {} /\ S \in SUBSET group
    OBVIOUS
  <2>2. IsFiniteSet(S)
    BY <2>1, FS_Subset
  <2>3. source[n] = Values!Min(S)
    OBVIOUS
  <2>4. \A m \in S : m \in group /\ key[m] = key[n]
    OBVIOUS
  <2> HIDE DEF S
  <2>5. Values!Min(S) \in S
    BY <2>1, <2>2, LeastId
  <2> QED
    BY <2>3, <2>4, <2>5
<1>2. ASSUME NEW n \in group, NEW m \in group, key[m] = key[n] PROVE source[m] = source[n]
  <2>1. {l \in group : key[l] = key[m]} = {l \in group : key[l] = key[n]}
    BY <1>2
  <2>2. source[m] = Values!Min({l \in group : key[l] = key[m]})
        /\ source[n] = Values!Min({l \in group : key[l] = key[n]})
    OBVIOUS
  <2> QED
    BY <2>1, <2>2
<1>3. \A n \in group : source[source[n]] = source[n]
  BY <1>1, <1>2
<1> QED
  BY <1>1, <1>2, <1>3 DEF GroupedBy

\* The section with its replicas is factored, first without aliases.
LEMMA ReplicasAreFactored ==
    ASSUME NEW s, Values!Whole(s), NEW source, NEW targets \in SUBSET Values!Ids(s), NEW at,
           NEW r, NEW operator, Replicas(s, source, targets, at, r, operator)
    PROVE  /\ Factored(s, source, targets, {}, at, operator, r)
           /\ DOMAIN s \subseteq DOMAIN r /\ \A i \in DOMAIN s : r[i].id = s[i].id
           /\ \A i \in DOMAIN r \ DOMAIN s : r[i].id \notin Values!Ids(s)
<1>1. s \in Seq(Values!Entities) /\ Found(s)
  BY WholeGives
<1>2. r \in Seq(Values!Entities) /\ Values!HasDistinctIds(r) /\ Found(r) /\ DOMAIN s \subseteq DOMAIN r
  BY DEF Replicas
<1>3. ASSUME NEW i \in DOMAIN s
      PROVE  /\ r[i].id = s[i].id /\ Values!Ent(r, s[i].id) = r[i] /\ s[i].id \in Values!Ids(r)
             /\ IF s[i].id \in targets
                THEN r[i].kind = "replica" /\ r[i].refs = <<source[s[i].id], operator[s[i].id]>>
                ELSE r[i] = s[i]
  <2>1. IF s[i].id \in targets
        THEN r[i] = Values!Entity(s[i].id, "replica", s[i].val, <<source[s[i].id], operator[s[i].id]>>)
        ELSE r[i] = s[i]
    BY DEF Replicas
  <2>2. r[i].id = s[i].id
        /\ IF s[i].id \in targets
           THEN r[i].kind = "replica" /\ r[i].refs = <<source[s[i].id], operator[s[i].id]>>
           ELSE r[i] = s[i]
    BY <2>1 DEF Values!Entity
  <2> QED
    BY <1>2, <2>2 DEF Found
<1>4. ASSUME NEW n \in Values!Ids(s)
      PROVE  /\ n \in Values!Ids(r)
             /\ n \in targets => Kind(r, n) = "replica" /\ RefsOf(r, n) = <<source[n], operator[n]>>
             /\ n \notin targets => Values!Ent(r, n) = Values!Ent(s, n)
  <2>1. PICK i \in DOMAIN s : s[i].id = n /\ Values!Ent(s, n) = s[i]
    BY <1>1 DEF Found
  <2> QED
    BY <1>3, <2>1 DEF Kind, RefsOf
<1>5. ASSUME NEW n \in Values!Ids(r) \ Values!Ids(s)
      PROVE  \/ Kind(r, n) = "point" /\ RefsOf(r, n) = <<>>
             \/ /\ Kind(r, n) = "operator"
                /\ \E p \in Values!Ids(r) \ Values!Ids(s) : RefsOf(r, n) = <<p>> /\ Kind(r, p) = "point"
  <2>1. PICK i \in DOMAIN r : r[i].id = n /\ Values!Ent(r, n) = r[i]
    BY <1>2 DEF Found
  <2>2. i \notin DOMAIN s
    BY <1>3, <2>1 DEF Values!Ids
  <2>3. \/ r[i].kind = "point" /\ r[i].refs = <<>>
        \/ /\ r[i].kind = "operator"
           /\ \E p \in Values!Ids(r) \ Values!Ids(s) : r[i].refs = <<p>> /\ Kind(r, p) = "point"
    BY <2>2 DEF Replicas
  <2> QED
    BY <2>1, <2>3 DEF Kind, RefsOf
<1>6. \A n : Source(source, {}, n) = n
  BY DEF Source
<1>7. Values!Ids(s) \subseteq Values!Ids(r)
  BY <1>4
<1>8. \A n \in Values!Ids(s) \ targets :
         /\ Kind(r, n) = Kind(s, n) /\ Val(r, n) = Val(s, n) /\ RefsOf(r, n) = RefsOf(s, n)
  BY <1>4 DEF Kind, Val, RefsOf
<1>9. \A n \in targets :
         /\ operator[n] \in Values!Ids(r) \ Values!Ids(s) /\ Kind(r, operator[n]) = "operator"
         /\ Val(r, RefsOf(r, operator[n])[1]) = at[n] - at[source[n]]
  BY DEF Replicas
<1>10. Factored(s, source, targets, {}, at, operator, r)
  BY <1>2, <1>4, <1>5, <1>6, <1>7, <1>8, <1>9 DEF Factored
<1>11. \A i \in DOMAIN r \ DOMAIN s : r[i].id \notin Values!Ids(s)
  BY DEF Replicas
<1> QED
  BY <1>2, <1>3, <1>10, <1>11

\* A surface or a point list that is moved by a difference.
LEMMA MovedSurface ==
    ASSUME NEW c, NEW a \in Int, NEW b \in Int
    PROVE  Moved([class |-> c, at |-> <<a>>], b - a) = [class |-> c, at |-> <<b>>]
<1> DEFINE m == [k \in DOMAIN <<a>> |-> <<a>>[k] + (b - a)]
<1>1. m = <<b>>
  <2>1. \A k \in DOMAIN <<a>> : k = 1 /\ <<a>>[k] + (b - a) = b
    OBVIOUS
  <2>2. DOMAIN <<a>> = {1} /\ DOMAIN <<b>> = {1} /\ <<b>>[1] = b
    OBVIOUS
  <2>3. m = [k \in {1} |-> b]
    BY <2>1, <2>2
  <2>4. <<b>> = [k \in {1} |-> b]
    BY <2>2
  <2> QED
    BY <2>3, <2>4
<1>2. Moved([class |-> c, at |-> <<a>>], b - a) = [class |-> c, at |-> m]
  BY DEF Moved
<1> QED
  BY <1>1, <1>2

\* Whatever refers to a factorable surface is a face.
LEMMA FactorableById ==
    ASSUME NEW s, Values!Whole(s), NEW n \in Values!Factorable(s)
    PROVE  /\ n \in Values!Ids(s) /\ Kind(s, n) \in {"plane", "cylinder"}
           /\ Values!Origin(s, n) \in Int
           /\ Values!Explicit(s, n) = [class |-> Values!SurfaceKey(s, n), at |-> <<Values!Origin(s, n)>>]
           /\ Values!PlacementClosure(s, n) \in SUBSET Values!Ids(s)
           /\ \A m \in Values!PlacementClosure(s, n) : Kind(s, m) \in {"placement", "point"}
           /\ \A m \in Values!Ids(s) : \A k \in DOMAIN RefsOf(s, m) :
                 RefsOf(s, m)[k] = n => Kind(s, m) = "face"
<1>1. Found(s) /\ Supported(s)
  BY WholeGives, WholeIsSupported
<1>2. PICK x \in Values!ToSet(s) : /\ n = x.id /\ x.kind \in {"plane", "cylinder"}
                              /\ \A p \in Values!Parents(s, x.id) : Values!Ent(s, p).kind = "face"
  BY DEF Values!Factorable, Values!Surfaces
<1>3. n \in Values!Ids(s) /\ Kind(s, n) \in {"plane", "cylinder"}
  BY <1>1, <1>2 DEF Found, Kind
<1> DEFINE p == RefsOf(s, n)[1]
<1>4. p \in Values!Ids(s) /\ Kind(s, p) = "placement"
  BY <1>1, <1>3 DEF Supported
<1> DEFINE q == RefsOf(s, p)[1]
<1>5. q \in Values!Ids(s) /\ Kind(s, q) = "point" /\ DOMAIN RefsOf(s, p) = {1}
  BY <1>1, <1>4 DEF Supported
<1>6. Values!Origin(s, n) = Val(s, q)
  BY ShapesById
<1>7. Values!Origin(s, n) \in Int
  BY <1>1, <1>5, <1>6 DEF Found
<1>8. Values!Explicit(s, n) = [class |-> Values!SurfaceKey(s, n), at |-> <<Values!Origin(s, n)>>]
  <2>1. Kind(s, n) # "curve"
    BY <1>3
  <2> QED
    BY <2>1, ShapesById
<1>9. Values!PlacementClosure(s, n) = {p, q}
  <2>1. Values!Placement(s, n) = Values!Ent(s, p)
    BY ShapesById
  <2>2. Values!Placement(s, n).id = p /\ Values!Placement(s, n).refs = RefsOf(s, p)
    BY <1>1, <1>4, <2>1 DEF Found, RefsOf
  <2>3. Values!ToSet(RefsOf(s, p)) = {q}
    BY <1>5 DEF Values!ToSet
  <2> HIDE DEF p, q
  <2> QED
    BY <2>2, <2>3 DEF Values!PlacementClosure
<1>10. ASSUME NEW m \in Values!Ids(s), NEW k \in DOMAIN RefsOf(s, m), RefsOf(s, m)[k] = n
       PROVE  Kind(s, m) = "face"
  <2>1. Values!Ent(s, m) \in Values!ToSet(s) /\ Values!Ent(s, m).id = m
    BY <1>1 DEF Found
  <2>2. n \in Values!ToSet(Values!Ent(s, m).refs)
    BY <1>10 DEF RefsOf, Values!ToSet
  <2>3. m \in Values!Parents(s, n)
    BY <2>1, <2>2 DEF Values!Parents
  <2> QED
    BY <1>2, <2>3 DEF Kind
<1> HIDE DEF p, q
<1>11. /\ Values!PlacementClosure(s, n) \in SUBSET Values!Ids(s)
       /\ \A m \in Values!PlacementClosure(s, n) : Kind(s, m) \in {"placement", "point"}
  BY <1>4, <1>5, <1>9
<1> QED
  BY <1>3, <1>7, <1>8, <1>10, <1>11

\* What the collection of a pass leaves of a factored section.
LEMMA SweptKeeps ==
    ASSUME NEW s, Values!Whole(s), NEW source, NEW targets, NEW aliases, NEW at, NEW operator, NEW w,
           Sourced(s, source, targets, aliases, at), Separate(s, source, targets, aliases),
           Factored(s, source, targets, aliases, at, operator, w),
           DOMAIN s \subseteq DOMAIN w, \A i \in DOMAIN s : w[i].id = s[i].id,
           \A i \in DOMAIN w \ DOMAIN s : w[i].id \notin Values!Ids(s),
           NEW C \in SUBSET Values!Ids(s), \A n \in C : Kind(s, n) \notin Values!Consumers
    PROVE  Keeps(s, Values!Swept(w, C, aliases))
<1>1. IsFiniteSet(C)
  <2>1. IsFiniteSet(Values!Ids(s))
    BY WholeGives, IdsAreFinite
  <2> QED
    BY <2>1, FS_Subset
<1>2. PICK Gone : SweptOut(w, C, aliases, Gone)
  BY <1>1, SweptWithUsers
<1>3. Goes(s, aliases, w, Gone)
  <2>1. aliases \in SUBSET Values!Ids(s) /\ \A n \in aliases : Kind(s, n) \in Factors
    BY DEF Sourced
  <2>2. \A n \in C \cup aliases : n \in Values!Ids(s) /\ Kind(s, n) \notin Values!Consumers
    BY <2>1 DEF Factors, Values!Consumers
  <2> QED
    BY <1>2, <2>1, <2>2 DEF SweptOut, Goes
<1>4. Keeps(s, Remaining(w, Gone))
  BY <1>3, FactoredKeeps
<1> QED
  BY <1>2, <1>4 DEF SweptOut, Remaining

LEMMA SurfacesFactoredKeeps == ASSUME NEW s, Values!Whole(s) PROVE Keeps(s, Values!SurfacesFactored(s))
<1> DEFINE group == Values!Factorable(s)
           key == [n \in group |-> Values!SurfaceKey(s, n)]
           source == [n \in group |->
                        Values!Min({m \in group : Values!SurfaceKey(s, m) = Values!SurfaceKey(s, n)})]
           at == [n \in group |-> Values!Origin(s, n)]
           targets == {n \in group : at[n] # at[source[n]]}
           r == Values!Replicated(s, source, targets, at)
           C == UNION {Values!PlacementClosure(s, n) : n \in targets}
<1>1. Values!SurfacesFactored(s) = Values!Swept(r, C, {})
  BY DEF Values!SurfacesFactored, Values!SurfaceTargets
<1>2. \A n \in group :
         /\ n \in Values!Ids(s) /\ Kind(s, n) \in {"plane", "cylinder"} /\ Values!Origin(s, n) \in Int
         /\ Values!Explicit(s, n) = [class |-> Values!SurfaceKey(s, n), at |-> <<Values!Origin(s, n)>>]
         /\ Values!PlacementClosure(s, n) \in SUBSET Values!Ids(s)
         /\ \A m \in Values!PlacementClosure(s, n) : Kind(s, m) \in {"placement", "point"}
         /\ \A m \in Values!Ids(s) : \A k \in DOMAIN RefsOf(s, m) :
               RefsOf(s, m)[k] = n => Kind(s, m) = "face"
  BY FactorableById
<1> HIDE DEF group
<1>3. group \in SUBSET Int /\ IsFiniteSet(group)
  <2>1. IsFiniteSet(Values!Ids(s)) /\ Values!Ids(s) \subseteq Int
    BY WholeGives, IdsAreFinite DEF Found
  <2> QED
    BY <1>2, <2>1, FS_Subset
<1>4. GroupedBy(group, key, source)
  <2>1. ASSUME NEW n \in group PROVE source[n] = Values!Min({m \in group : key[m] = key[n]})
    <3>1. {m \in group : key[m] = key[n]}
            = {m \in group : Values!SurfaceKey(s, m) = Values!SurfaceKey(s, n)}
      OBVIOUS
    <3> QED
      BY <3>1
  <2> HIDE DEF key, source
  <2> QED
    BY <1>3, <2>1, SourcesOfGroups
<1>5. \A n \in group : /\ at[n] = Values!Origin(s, n) /\ key[n] = Values!SurfaceKey(s, n)
                       /\ source[n] \in group
  BY <1>4 DEF GroupedBy
<1>6. /\ targets \in SUBSET group /\ targets \in SUBSET Values!Ids(s)
      /\ \A n \in targets : at[n] # at[source[n]]
      /\ \A n \in group : n \notin targets => at[n] = at[source[n]]
  BY <1>2
<1> HIDE DEF source, at, key, targets
<1>7. Sourced(s, source, targets, {}, at)
  <2>1. ASSUME NEW n \in targets
        PROVE  /\ source[n] \in Values!Ids(s) /\ source[n] \notin targets
               /\ Kind(s, source[n]) = Kind(s, n) /\ Kind(s, n) \in Factors
               /\ Values!Explicit(s, n) = Moved(Values!Explicit(s, source[n]), at[n] - at[source[n]])
    <3> DEFINE m == source[n]
    <3>1. n \in group /\ m \in group /\ source[m] = m /\ key[m] = key[n]
      BY <1>4, <1>6 DEF GroupedBy
    <3>2. m \notin targets
      BY <1>6, <3>1
    <3>3. Values!SurfaceKey(s, m) = Values!SurfaceKey(s, n)
      BY <1>5, <3>1
    <3>4. Kind(s, m) = Kind(s, n)
      BY <3>3, ShapesById
    <3>5. Values!Explicit(s, n) = Moved(Values!Explicit(s, m), at[n] - at[m])
      <4> DEFINE c == Values!SurfaceKey(s, n)
                 a == Values!Origin(s, m)
                 b == Values!Origin(s, n)
      <4>1. a \in Int /\ b \in Int /\ at[n] = b /\ at[m] = a
            /\ Values!Explicit(s, n) = [class |-> c, at |-> <<b>>]
            /\ Values!Explicit(s, m) = [class |-> c, at |-> <<a>>]
        BY <1>2, <1>5, <3>1, <3>3
      <4> HIDE DEF a, b, c
      <4>2. Moved([class |-> c, at |-> <<a>>], b - a) = [class |-> c, at |-> <<b>>]
        BY <4>1, MovedSurface
      <4> HIDE DEF m
      <4> QED
        BY <4>1, <4>2
    <3> QED
      BY <1>2, <3>1, <3>2, <3>4, <3>5 DEF Factors
  <2> QED
    BY <1>6, <2>1 DEF Sourced
<1>8. Separate(s, source, targets, {})
  <2>1. \A n \in targets : Kind(s, n) # "curve"
    BY <1>2, <1>6
  <2>2. \A m \in Values!Ids(s) : \A k \in DOMAIN RefsOf(s, m) :
           RefsOf(s, m)[k] \in targets => Kind(s, m) = "face"
    BY <1>2, <1>6
  <2> QED
    BY <2>1, <2>2 DEF Separate
<1>9. \A t \in targets : source[t] \in Values!Ids(s) /\ at[t] \in Int /\ at[source[t]] \in Int
  <2> SUFFICES ASSUME NEW t \in targets
               PROVE  source[t] \in Values!Ids(s) /\ at[t] \in Int /\ at[source[t]] \in Int
    OBVIOUS
  <2>1. t \in group /\ source[t] \in group
    BY <1>5, <1>6
  <2> QED
    BY <1>2, <1>5, <2>1
<1>10. PICK operator : Replicas(s, source, targets, at, r, operator)
  BY <1>6, <1>9, ReplicatedById
<1> HIDE DEF r
<1>11. /\ Factored(s, source, targets, {}, at, operator, r)
       /\ DOMAIN s \subseteq DOMAIN r /\ \A i \in DOMAIN s : r[i].id = s[i].id
       /\ \A i \in DOMAIN r \ DOMAIN s : r[i].id \notin Values!Ids(s)
  BY <1>6, <1>10, ReplicasAreFactored
<1>12. C \in SUBSET Values!Ids(s) /\ \A n \in C : Kind(s, n) \notin Values!Consumers
  <2>1. ASSUME NEW n \in C PROVE n \in Values!Ids(s) /\ Kind(s, n) \in {"placement", "point"}
    <3>1. PICK t \in targets : n \in Values!PlacementClosure(s, t)
      OBVIOUS
    <3> QED
      BY <1>2, <1>6, <3>1
  <2>2. \A n \in C : Kind(s, n) \notin Values!Consumers
    BY <2>1 DEF Values!Consumers
  <2> QED
    BY <2>1, <2>2
<1> HIDE DEF C
<1>13. Keeps(s, Values!Swept(r, C, {}))
  BY <1>7, <1>8, <1>11, <1>12, SweptKeeps
<1> QED
  BY <1>1, <1>13

\* A curve is used by an edge or is the source of a replica.
LEMMA CurvesById ==
    ASSUME NEW s, Values!Whole(s), NEW n \in Values!Ids(s), Kind(s, n) = "curve"
    PROVE  /\ 1 \in DOMAIN Values!Poles(s, n) /\ DOMAIN Values!Poles(s, n) = DOMAIN RefsOf(s, n)
           /\ \A k \in DOMAIN Values!Poles(s, n) : Values!Poles(s, n)[k] \in Int
           /\ Values!Explicit(s, n) = [class |-> <<"curve">>, at |-> Values!Poles(s, n)]
           /\ Values!ToSet(RefsOf(s, n)) \in SUBSET Values!Ids(s)
           /\ \A m \in Values!ToSet(RefsOf(s, n)) : Kind(s, m) = "point"
           /\ \A m \in Values!Ids(s) : \A k \in DOMAIN RefsOf(s, m) :
                 RefsOf(s, m)[k] = n =>
                    Kind(s, m) = "edge" \/ (Kind(s, m) = "replica" /\ k = 1)
<1>1. Found(s) /\ Supported(s) /\ Linked(s)
  BY WholeGives, WholeIsSupported
<1>2. 1 \in DOMAIN RefsOf(s, n) /\ \A k \in DOMAIN RefsOf(s, n) : /\ RefsOf(s, n)[k] \in Values!Ids(s)
                                                             /\ Kind(s, RefsOf(s, n)[k]) = "point"
  BY <1>1 DEF Supported
<1>3. Values!Poles(s, n) = [k \in DOMAIN RefsOf(s, n) |-> Val(s, RefsOf(s, n)[k])]
  BY ShapesById
<1>4. \A k \in DOMAIN RefsOf(s, n) : Values!Poles(s, n)[k] \in Int
  BY <1>1, <1>2, <1>3 DEF Found
<1>5. DOMAIN Values!Poles(s, n) = DOMAIN RefsOf(s, n)
  BY <1>3
<1>6. Values!Explicit(s, n) = [class |-> <<"curve">>, at |-> Values!Poles(s, n)]
  BY ShapesById
<1>7. Values!ToSet(RefsOf(s, n)) \in SUBSET Values!Ids(s) /\ \A m \in Values!ToSet(RefsOf(s, n)) : Kind(s, m) = "point"
  BY <1>2 DEF Values!ToSet
<1>8. ASSUME NEW m \in Values!Ids(s), NEW k \in DOMAIN RefsOf(s, m), RefsOf(s, m)[k] = n
      PROVE  Kind(s, m) = "edge" \/ (Kind(s, m) = "replica" /\ k = 1)
  <2>1. "curve" \in Values!Admits(Kind(s, m), k)
    BY <1>1, <1>8 DEF Linked
  <2> DEFINE kind == Kind(s, m)
  <2>2. kind \in {"placement", "curve", "operator", "vertex", "plane", "cylinder", "face",
                  "pcurve", "edge", "replica", "presentation", "layer", "area"}
    BY <2>1, OthersAdmitNothing
  <2> HIDE DEF kind
  <2>3. "curve" \in Values!Admits(kind, k)
    BY <2>1 DEF kind
  <2>4. kind \notin {"placement", "curve", "operator", "vertex"}
    BY <2>3, AdmitsTable
  <2>5. kind \notin {"plane", "cylinder", "face", "pcurve"}
    BY <2>3, AdmitsTable
  <2>6. kind \notin {"presentation", "layer", "area"}
    BY <2>3, AdmitsTable DEF Values!Consumers, Values!Presentations
  <2>7. kind = "replica" => k = 1
    <3> SUFFICES ASSUME kind = "replica", k # 1 PROVE FALSE
      OBVIOUS
    <3>1. Values!Admits("replica", k) = {"operator"}
      BY AdmitsTable
    <3> QED
      BY <2>3, <3>1
  <2> QED
    BY <2>2, <2>4, <2>5, <2>6, <2>7 DEF kind
<1> QED
  BY <1>2, <1>4, <1>5, <1>6, <1>7, <1>8

\* Curves of one shape differ by where their first poles are.
LEMMA MovedCurve ==
    ASSUME NEW s, Values!Whole(s), NEW m \in Values!Ids(s), Kind(s, m) = "curve",
           NEW n \in Values!Ids(s), Kind(s, n) = "curve", Values!CurveKey(s, m) = Values!CurveKey(s, n)
    PROVE  /\ Values!Explicit(s, n) = Moved(Values!Explicit(s, m), Values!Poles(s, n)[1] - Values!Poles(s, m)[1])
           /\ Values!Poles(s, n)[1] = Values!Poles(s, m)[1] => Values!Explicit(s, n) = Values!Explicit(s, m)
<1> DEFINE p == Values!Poles(s, m)
           q == Values!Poles(s, n)
           c == <<"curve">>
           by == q[1] - p[1]
<1>1. /\ 1 \in DOMAIN p /\ \A k \in DOMAIN p : p[k] \in Int
      /\ 1 \in DOMAIN q /\ \A k \in DOMAIN q : q[k] \in Int
      /\ Values!Explicit(s, m) = [class |-> c, at |-> p] /\ Values!Explicit(s, n) = [class |-> c, at |-> q]
  BY CurvesById
<1>2. Values!CurveKey(s, m) = [k \in DOMAIN p |-> p[k] - p[1]]
      /\ Values!CurveKey(s, n) = [k \in DOMAIN q |-> q[k] - q[1]]
  BY DEF Values!CurveKey
<1>3. p = [k \in DOMAIN p |-> p[k]] /\ q = [k \in DOMAIN q |-> q[k]]
  BY DEF Values!Poles
<1> HIDE DEF p, q, c
<1>4. DOMAIN p = DOMAIN q /\ \A k \in DOMAIN q : p[k] - p[1] = q[k] - q[1]
  <2> DEFINE a == [k \in DOMAIN p |-> p[k] - p[1]]
             b == [k \in DOMAIN q |-> q[k] - q[1]]
  <2>1. a = b
    BY <1>2
  <2>2. DOMAIN a = DOMAIN p /\ DOMAIN b = DOMAIN q
        /\ \A k \in DOMAIN p : a[k] = p[k] - p[1]
    OBVIOUS
  <2>3. \A k \in DOMAIN q : b[k] = q[k] - q[1]
    OBVIOUS
  <2> HIDE DEF a, b
  <2> QED
    BY <2>1, <2>2, <2>3
<1>5. \A k \in DOMAIN q : q[k] = p[k] + by
  <2> SUFFICES ASSUME NEW k \in DOMAIN q PROVE q[k] = p[k] + by
    OBVIOUS
  <2> DEFINE a == p[k]
             b == p[1]
             d == q[k]
             e == q[1]
  <2>1. a \in Int /\ b \in Int /\ d \in Int /\ e \in Int /\ a - b = d - e
    BY <1>1, <1>4
  <2> HIDE DEF a, b, d, e
  <2>2. d = a + (e - b)
    BY <2>1
  <2> QED
    BY <2>2 DEF a, b, d, e
<1>6. q = [k \in DOMAIN p |-> p[k] + by]
  BY <1>3, <1>4, <1>5
<1>7. Moved([class |-> c, at |-> p], by) = [class |-> c, at |-> [k \in DOMAIN p |-> p[k] + by]]
  BY DEF Moved
<1>8. Values!Explicit(s, n) = Moved(Values!Explicit(s, m), by)
  BY <1>1, <1>6, <1>7
<1>9. q[1] = p[1] => Values!Explicit(s, n) = Values!Explicit(s, m)
  <2> SUFFICES ASSUME q[1] = p[1] PROVE q = p
    BY <1>1
  <2>1. \A k \in DOMAIN q : q[k] = p[k]
    <3> SUFFICES ASSUME NEW k \in DOMAIN q PROVE q[k] = p[k]
      OBVIOUS
    <3>1. p[k] \in Int /\ q[1] - p[1] = 0 /\ q[k] = p[k] + (q[1] - p[1])
      BY <1>1, <1>4, <1>5
    <3> QED
      BY <3>1
  <2> QED
    BY <1>3, <1>4, <2>1
<1> QED
  BY <1>8, <1>9 DEF p, q

\* The references to aliases rewritten, the section is factored.
LEMMA RewrittenIsFactored ==
    ASSUME NEW s, Values!Whole(s), NEW source, NEW targets, NEW aliases, NEW at, NEW operator,
           Sourced(s, source, targets, aliases, at), NEW r,
           Factored(s, source, targets, {}, at, operator, r),
           NEW alias, alias = [n \in Values!Ids(r) |-> Source(source, aliases, n)]
    PROVE  /\ Factored(s, source, targets, aliases, at, operator, Values!Rewritten(r, alias))
           /\ DOMAIN Values!Rewritten(r, alias) = DOMAIN r
           /\ \A i \in DOMAIN r : Values!Rewritten(r, alias)[i].id = r[i].id
<1> DEFINE w == Values!Rewritten(r, alias)
<1>1. r \in Seq(Values!Entities) /\ Values!HasDistinctIds(r) /\ Found(r) /\ Values!Ids(s) \subseteq Values!Ids(r)
  BY DEF Factored
<1>2. Linked(s)
  BY WholeGives
<1>3. ASSUME NEW n \in Values!Ids(r) PROVE alias[n] = Source(source, aliases, n) /\ alias[n] \in Values!Ids(r)
  BY <1>1 DEF Source, Sourced
<1>4. Sourced(s, source, targets, {}, at)
  BY DEF Sourced
<1>5. \A m \in Values!Ids(r) : \A k \in DOMAIN RefsOf(r, m) : RefsOf(r, m)[k] \in Values!Ids(r)
  BY <1>4, FactoredRefs
<1>6. \A i \in DOMAIN r : \A k \in DOMAIN r[i].refs : r[i].refs[k] \in Values!Ids(r)
  BY <1>1, <1>5 DEF Found, RefsOf
<1>7. \A i \in DOMAIN r : \A k \in DOMAIN r[i].refs : alias[r[i].refs[k]] \in Int
  BY <1>1, <1>3, <1>6 DEF Found
<1>8. /\ w \in Seq(Values!Entities) /\ DOMAIN w = DOMAIN r
      /\ \A i \in DOMAIN r :
            /\ w[i].id = r[i].id /\ w[i].kind = r[i].kind /\ w[i].val = r[i].val
            /\ DOMAIN w[i].refs = DOMAIN r[i].refs
            /\ \A k \in DOMAIN r[i].refs : w[i].refs[k] = alias[r[i].refs[k]]
  <2>1. Renames(r, alias)
    BY <1>7 DEF Renames
  <2>2. Rewrites(r, alias, w)
    BY <1>1, <2>1, RewrittenEntities
  <2> HIDE DEF w
  <2> QED
    BY <2>2 DEF Rewrites
<1> HIDE DEF w
<1>9. Values!HasDistinctIds(w) /\ Values!Ids(w) = Values!Ids(r)
  <2>1. Values!HasDistinctIds(w)
    BY <1>1, <1>8 DEF Values!HasDistinctIds
  <2>2. Values!Ids(w) = Values!Ids(r)
    BY <1>8 DEF Values!Ids
  <2> QED
    BY <2>1, <2>2
<1>10. Found(w)
  BY <1>8, <1>9, EveryIdLeads
<1>11. ASSUME NEW n \in Values!Ids(r)
       PROVE  /\ Kind(w, n) = Kind(r, n) /\ Val(w, n) = Val(r, n)
              /\ DOMAIN RefsOf(w, n) = DOMAIN RefsOf(r, n)
              /\ \A k \in DOMAIN RefsOf(r, n) :
                    RefsOf(w, n)[k] = Source(source, aliases, RefsOf(r, n)[k])
  <2>1. PICK i \in DOMAIN r : r[i].id = n /\ Values!Ent(r, n) = r[i]
    BY <1>1 DEF Found
  <2>2. Values!Ent(w, n) = w[i]
    BY <1>8, <1>10, <2>1 DEF Found
  <2>3. \A k \in DOMAIN r[i].refs : w[i].refs[k] = Source(source, aliases, r[i].refs[k])
    BY <1>3, <1>6, <1>8
  <2> QED
    BY <1>8, <2>1, <2>2, <2>3 DEF Kind, Val, RefsOf
<1>12. \A n : Source(source, {}, n) = n
  BY DEF Source
<1>13. \A n \in Values!Ids(s) \ targets :
          /\ Kind(w, n) = Kind(s, n) /\ Val(w, n) = Val(s, n)
          /\ DOMAIN RefsOf(w, n) = DOMAIN RefsOf(s, n)
          /\ \A k \in DOMAIN RefsOf(s, n) :
                RefsOf(w, n)[k] = Source(source, aliases, RefsOf(s, n)[k])
  <2> SUFFICES ASSUME NEW n \in Values!Ids(s) \ targets
               PROVE  /\ Kind(w, n) = Kind(s, n) /\ Val(w, n) = Val(s, n)
                      /\ DOMAIN RefsOf(w, n) = DOMAIN RefsOf(s, n)
                      /\ \A k \in DOMAIN RefsOf(s, n) :
                            RefsOf(w, n)[k] = Source(source, aliases, RefsOf(s, n)[k])
    OBVIOUS
  <2>1. /\ n \in Values!Ids(r) /\ Kind(r, n) = Kind(s, n) /\ Val(r, n) = Val(s, n)
        /\ DOMAIN RefsOf(r, n) = DOMAIN RefsOf(s, n)
        /\ \A k \in DOMAIN RefsOf(s, n) : RefsOf(r, n)[k] = RefsOf(s, n)[k]
    BY <1>1, <1>12 DEF Factored
  <2> QED
    BY <1>11, <2>1
<1>14. ASSUME NEW n \in Values!Ids(r), n \notin aliases, NEW p \in Values!Ids(r), p \notin aliases,
              RefsOf(r, n) = <<p>>
       PROVE  RefsOf(w, n) = <<p>>
  <2>1. DOMAIN RefsOf(r, n) = {1} /\ RefsOf(r, n)[1] = p
    BY <1>14
  <2>2. DOMAIN RefsOf(w, n) = {1} /\ RefsOf(w, n)[1] = p
    BY <1>11, <1>14, <2>1 DEF Source
  <2>3. RefsOf(w, n) \in Seq(Int)
    BY <1>9, <1>10 DEF Found
  <2> QED
    BY <2>2, <2>3
<1>15. \A n \in Values!Ids(w) \ Values!Ids(s) :
          \/ Kind(w, n) = "point" /\ RefsOf(w, n) = <<>>
          \/ /\ Kind(w, n) = "operator"
             /\ \E p \in Values!Ids(w) \ Values!Ids(s) : RefsOf(w, n) = <<p>> /\ Kind(w, p) = "point"
  <2> SUFFICES ASSUME NEW n \in Values!Ids(w) \ Values!Ids(s)
               PROVE  \/ Kind(w, n) = "point" /\ RefsOf(w, n) = <<>>
                      \/ /\ Kind(w, n) = "operator"
                         /\ \E p \in Values!Ids(w) \ Values!Ids(s) :
                               RefsOf(w, n) = <<p>> /\ Kind(w, p) = "point"
    OBVIOUS
  <2>1. n \in Values!Ids(r) /\ n \notin Values!Ids(s) /\ n \notin aliases
    BY <1>9 DEF Sourced
  <2>2. CASE Kind(r, n) = "point" /\ RefsOf(r, n) = <<>>
    <3>1. DOMAIN RefsOf(w, n) = {} /\ RefsOf(w, n) \in Seq(Int)
      BY <1>9, <1>10, <1>11, <2>1, <2>2 DEF Found
    <3> QED
      BY <1>11, <2>1, <2>2, <3>1
  <2>3. ASSUME NEW p \in Values!Ids(r) \ Values!Ids(s), Kind(r, n) = "operator", RefsOf(r, n) = <<p>>,
               Kind(r, p) = "point"
        PROVE  /\ Kind(w, n) = "operator"
               /\ \E q \in Values!Ids(w) \ Values!Ids(s) : RefsOf(w, n) = <<q>> /\ Kind(w, q) = "point"
    <3>1. p \notin aliases
      BY DEF Sourced
    <3> QED
      BY <1>9, <1>11, <1>14, <2>1, <2>3, <3>1
  <2> QED
    BY <2>1, <2>2, <2>3 DEF Factored
<1>16. \A n \in targets :
          /\ Kind(w, n) = "replica" /\ RefsOf(w, n) = <<source[n], operator[n]>>
          /\ operator[n] \in Values!Ids(w) \ Values!Ids(s) /\ Kind(w, operator[n]) = "operator"
          /\ Val(w, RefsOf(w, operator[n])[1]) = at[n] - at[source[n]]
  <2> SUFFICES ASSUME NEW n \in targets
               PROVE  /\ Kind(w, n) = "replica" /\ RefsOf(w, n) = <<source[n], operator[n]>>
                      /\ operator[n] \in Values!Ids(w) \ Values!Ids(s) /\ Kind(w, operator[n]) = "operator"
                      /\ Val(w, RefsOf(w, operator[n])[1]) = at[n] - at[source[n]]
    OBVIOUS
  <2> DEFINE o == operator[n]
             b == source[n]
  <2>1. /\ Kind(r, n) = "replica" /\ RefsOf(r, n) = <<b, o>>
        /\ o \in Values!Ids(r) \ Values!Ids(s) /\ Kind(r, o) = "operator"
        /\ Val(r, RefsOf(r, o)[1]) = at[n] - at[b]
    BY DEF Factored
  <2>2. n \in Values!Ids(r) /\ b \notin aliases /\ o \notin aliases
    BY <1>1, <2>1 DEF Sourced
  <2> HIDE DEF o, b
  <2>3. DOMAIN RefsOf(r, n) = {1, 2} /\ RefsOf(r, n)[1] = b /\ RefsOf(r, n)[2] = o
    BY <2>1
  <2>4. DOMAIN RefsOf(w, n) = {1, 2} /\ RefsOf(w, n)[1] = b /\ RefsOf(w, n)[2] = o
    BY <1>11, <2>2, <2>3 DEF Source
  <2>5. RefsOf(w, n) \in Seq(Int)
    BY <1>9, <1>10, <2>2 DEF Found
  <2>6. RefsOf(w, n) = <<b, o>>
    BY <2>4, <2>5
  <2>7. PICK p \in Values!Ids(r) \ Values!Ids(s) : RefsOf(r, o) = <<p>>
    BY <2>1 DEF Factored
  <2>8. p \notin aliases
    BY DEF Sourced
  <2>9. RefsOf(w, o) = <<p>>
    BY <1>14, <2>1, <2>2, <2>7, <2>8
  <2>10. RefsOf(r, o)[1] = p /\ RefsOf(w, o)[1] = p
    BY <2>7, <2>9
  <2>11. Val(w, p) = Val(r, p)
    BY <1>11
  <2> QED
    BY <1>9, <1>11, <2>1, <2>2, <2>6, <2>10, <2>11 DEF o, b
<1>17. Factored(s, source, targets, aliases, at, operator, w)
  BY <1>1, <1>8, <1>9, <1>10, <1>13, <1>15, <1>16 DEF Factored
<1> QED
  BY <1>8, <1>17 DEF w

LEMMA CurvesFactoredKeeps == ASSUME NEW s, Values!Whole(s) PROVE Keeps(s, Values!CurvesFactored(s))
<1> DEFINE group == {e.id : e \in {x \in Values!ToSet(s) : x.kind = "curve"}}
           key == [n \in group |-> Values!CurveKey(s, n)]
           source == [n \in group |->
                        Values!Min({m \in group : Values!CurveKey(s, m) = Values!CurveKey(s, n)})]
           at == [n \in group |-> Values!Poles(s, n)[1]]
           followers == {n \in group : source[n] # n}
           aliases == {n \in followers : at[n] = at[source[n]]}
           targets == {n \in followers : at[n] # at[source[n]]}
           r == Values!Replicated(s, source, targets, at)
           alias == [n \in Values!Ids(r) |-> IF n \in aliases THEN source[n] ELSE n]
           w == Values!Rewritten(r, alias)
           poles == UNION {Values!ToSet(Values!Ent(s, n).refs) : n \in aliases \cup targets}
           C == poles \cup aliases
<1>1. Values!CurvesFactored(s) = Values!Swept(w, C, aliases)
  BY DEF Values!CurvesFactored, Values!CurveTargets
<1>2. Found(s) /\ Linked(s) /\ Alone(s) /\ Supported(s)
  BY WholeGives, WholeIsSupported
<1>3. \A n : n \in group <=> n \in Values!Ids(s) /\ Kind(s, n) = "curve"
  BY <1>2 DEF Found, Kind
<1> HIDE DEF group
<1>4. group \in SUBSET Int /\ group \in SUBSET Values!Ids(s) /\ IsFiniteSet(group)
  <2>1. IsFiniteSet(Values!Ids(s)) /\ Values!Ids(s) \subseteq Int
    BY WholeGives, IdsAreFinite DEF Found
  <2> QED
    BY <1>3, <2>1, FS_Subset
<1>5. GroupedBy(group, key, source)
  <2>1. ASSUME NEW n \in group PROVE source[n] = Values!Min({m \in group : key[m] = key[n]})
    <3>1. {m \in group : key[m] = key[n]}
            = {m \in group : Values!CurveKey(s, m) = Values!CurveKey(s, n)}
      OBVIOUS
    <3> QED
      BY <3>1
  <2> HIDE DEF key, source
  <2> QED
    BY <1>4, <2>1, SourcesOfGroups
<1>6. /\ \A n \in group : /\ at[n] = Values!Poles(s, n)[1] /\ key[n] = Values!CurveKey(s, n)
                          /\ source[n] \in group /\ source[source[n]] = source[n]
                          /\ key[source[n]] = key[n]
      /\ \A m, n \in group : key[m] = key[n] => source[m] = source[n]
  BY <1>5 DEF GroupedBy
<1>7. /\ targets \in SUBSET group /\ aliases \in SUBSET group /\ targets \cap aliases = {}
      /\ targets \cup aliases = followers
      /\ \A n \in group : n \in followers <=> source[n] # n
      /\ \A n \in aliases : at[n] = at[source[n]]
  OBVIOUS
<1> HIDE DEF source, at, key, targets, aliases, followers
<1>8. Sourced(s, source, targets, aliases, at)
  <2>1. ASSUME NEW n \in followers
        PROVE  /\ source[n] \in Values!Ids(s) /\ source[n] \notin followers
               /\ Kind(s, source[n]) = Kind(s, n) /\ Kind(s, n) \in Factors
               /\ Values!Explicit(s, n) = Moved(Values!Explicit(s, source[n]), at[n] - at[source[n]])
               /\ at[n] = at[source[n]] => Values!Explicit(s, n) = Values!Explicit(s, source[n])
    <3> DEFINE m == source[n]
    <3>1. n \in group /\ m \in group /\ source[m] = m
      BY <1>6, <1>7
    <3>2. m \notin followers
      BY <1>7, <3>1
    <3>3. Values!CurveKey(s, m) = Values!CurveKey(s, n) /\ at[n] = Values!Poles(s, n)[1]
          /\ at[m] = Values!Poles(s, m)[1]
      BY <1>6, <3>1
    <3>4. Kind(s, m) = "curve" /\ Kind(s, n) = "curve" /\ m \in Values!Ids(s) /\ n \in Values!Ids(s)
      BY <1>3, <3>1
    <3> HIDE DEF m
    <3>5. /\ Values!Explicit(s, n) = Moved(Values!Explicit(s, m), at[n] - at[m])
          /\ at[n] = at[m] => Values!Explicit(s, n) = Values!Explicit(s, m)
      BY <3>3, <3>4, MovedCurve
    <3> QED
      BY <3>2, <3>4, <3>5 DEF Factors, m
  <2>2. targets \in SUBSET Values!Ids(s) /\ aliases \in SUBSET Values!Ids(s)
    BY <1>4, <1>7
  <2> QED
    BY <1>7, <2>1, <2>2 DEF Sourced
<1>9. Separate(s, source, targets, aliases)
  <2>1. ASSUME NEW m \in Values!Ids(s), NEW k \in DOMAIN RefsOf(s, m), RefsOf(s, m)[k] \in followers
        PROVE  Kind(s, m) \in {"face", "pcurve", "edge"}
    <3> DEFINE n == RefsOf(s, m)[k]
    <3>1. n \in group /\ source[n] # n /\ source[n] \in group /\ key[source[n]] = key[n]
      BY <1>6, <1>7, <2>1
    <3>2. n \in Values!Ids(s) /\ Kind(s, n) = "curve" /\ source[n] \in Values!Ids(s)
          /\ Kind(s, source[n]) = "curve"
      BY <1>3, <3>1
    <3>3. Kind(s, m) = "edge" \/ (Kind(s, m) = "replica" /\ k = 1)
      BY <3>2, CurvesById
    <3>4. ~ (Kind(s, m) = "replica" /\ k = 1)
      <4> SUFFICES ASSUME Kind(s, m) = "replica", k = 1 PROVE FALSE
        OBVIOUS
      <4>1. Values!CurveKey(s, n) = Values!CurveKey(s, source[n])
        BY <1>6, <3>1
      <4>2. n = source[n]
        BY <1>2, <3>2, <4>1 DEF Alone
      <4> QED
        BY <3>1, <4>2
    <3> QED
      BY <3>3, <3>4
  <2>2. ASSUME NEW n \in targets, NEW l \in Values!Ids(s) \ (targets \cup aliases),
               Kind(s, l) = "curve", Values!CurveKey(s, source[n]) = Values!CurveKey(s, l)
        PROVE  source[n] = l
    <3>1. l \in group /\ source[l] = l
      BY <1>3, <1>7, <2>2
    <3>2. n \in group /\ source[n] \in group /\ source[source[n]] = source[n]
      BY <1>6, <1>7
    <3>3. key[source[n]] = key[l]
      BY <1>6, <2>2, <3>1, <3>2
    <3> QED
      BY <1>6, <3>1, <3>2, <3>3
  <2> QED
    BY <1>7, <2>1, <2>2 DEF Separate
<1>10. \A t \in targets : source[t] \in Values!Ids(s) /\ at[t] \in Int /\ at[source[t]] \in Int
  <2>1. ASSUME NEW n \in group PROVE at[n] \in Int
    <3>1. n \in Values!Ids(s) /\ Kind(s, n) = "curve"
      BY <1>3
    <3>2. Values!Poles(s, n)[1] \in Int
      BY <3>1, CurvesById
    <3> QED
      BY <1>6, <3>2
  <2> QED
    BY <1>4, <1>6, <1>7, <2>1
<1>11. targets \in SUBSET Values!Ids(s)
  BY <1>4, <1>7
<1>12. PICK operator : Replicas(s, source, targets, at, r, operator)
  BY <1>10, <1>11, ReplicatedById
<1>13. alias = [n \in Values!Ids(r) |-> Source(source, aliases, n)]
  BY DEF Source
<1> HIDE DEF r, alias
<1>14. /\ Factored(s, source, targets, {}, at, operator, r)
       /\ DOMAIN s \subseteq DOMAIN r /\ \A i \in DOMAIN s : r[i].id = s[i].id
       /\ \A i \in DOMAIN r \ DOMAIN s : r[i].id \notin Values!Ids(s)
  BY <1>11, <1>12, ReplicasAreFactored
<1>15. /\ Factored(s, source, targets, aliases, at, operator, w)
       /\ DOMAIN w = DOMAIN r /\ \A i \in DOMAIN r : w[i].id = r[i].id
  BY <1>8, <1>13, <1>14, RewrittenIsFactored
<1> HIDE DEF w
<1>16. /\ DOMAIN s \subseteq DOMAIN w /\ \A i \in DOMAIN s : w[i].id = s[i].id
       /\ \A i \in DOMAIN w \ DOMAIN s : w[i].id \notin Values!Ids(s)
  BY <1>14, <1>15
<1>17. C \in SUBSET Values!Ids(s) /\ \A n \in C : Kind(s, n) \notin Values!Consumers
  <2>1. ASSUME NEW m \in poles PROVE m \in Values!Ids(s) /\ Kind(s, m) = "point"
    <3>1. PICK n \in aliases \cup targets : m \in Values!ToSet(Values!Ent(s, n).refs)
      OBVIOUS
    <3>2. n \in Values!Ids(s) /\ Kind(s, n) = "curve" /\ m \in Values!ToSet(RefsOf(s, n))
      BY <1>3, <1>7, <3>1 DEF RefsOf
    <3> QED
      BY <3>2, CurvesById
  <2>2. ASSUME NEW m \in aliases PROVE m \in Values!Ids(s) /\ Kind(s, m) = "curve"
    BY <1>3, <1>7
  <2> HIDE DEF poles
  <2>3. \A m \in C : m \in Values!Ids(s) /\ Kind(s, m) \in {"point", "curve"}
    BY <2>1, <2>2
  <2>4. \A m \in C : Kind(s, m) \notin Values!Consumers
    BY <2>3 DEF Values!Consumers
  <2> QED
    BY <2>3, <2>4
<1> HIDE DEF C
<1>18. Keeps(s, Values!Swept(w, C, aliases))
  BY <1>8, <1>9, <1>15, <1>16, <1>17, SweptKeeps
<1> QED
  BY <1>1, <1>18
-----------------------------------------------------------------------------
(* A cleanup, and the cleanup of its output.                               *)

\* The phases of a cleanup.
Passes == {"minify", "intern", "consolidate", "surfaces", "curves", "stabilize",
           "renumber", "written"}

\* After every pass the section is whole and means what the file meant.
ValueInv ==
    /\ options \in Values!Option
    /\ pc \in Passes
    /\ Keeps(section, sec)

\* A file starts the cleanup as it is.
LEMMA ValueInvStarts == Values!Init => ValueInv
<1> SUFFICES ASSUME Values!Init PROVE ValueInv
  OBVIOUS
<1>1. options \in Values!Option /\ Values!Whole(section) /\ sec = section /\ pc = "minify"
  BY ValueAssumption DEF Values!Init, Values!SectionsAssumption
<1> QED
  BY <1>1 DEF ValueInv, Keeps, Passes

\* What a pass keeps of a section that has kept it.
LEMMA KeepsOn ==
    ASSUME NEW s, NEW t, NEW u, Keeps(s, t), Keeps(t, u) PROVE Keeps(s, u)
BY DEF Keeps

\* Every pass keeps it, and the output that is cleaned again is a file like another.
LEMMA ValueInvStep == ValueInv /\ [Values!Next]_(Values!vars) => ValueInv'
<1> SUFFICES ASSUME ValueInv, [Values!Next]_(Values!vars) PROVE ValueInv'
  OBVIOUS
<1>0. Values!Whole(sec) /\ Keeps(section, sec) /\ options \in Values!Option
  BY DEF ValueInv, Keeps
<1>a. UNCHANGED <<options, section>> /\ pc' \in Passes
  BY DEF ValueInv, Passes, Values!Next, Values!Minify, Values!Intern, Values!Consolidate,
     Values!FactorSurfaces, Values!FactorCurves, Values!Stabilize, Values!Renumber,
     Values!CleanAgain, Values!Done, Values!Pass, Values!vars
<1>b. ASSUME sec' = sec \/ Keeps(sec, sec') PROVE ValueInv'
  <2>1. Keeps(section, sec')
    BY <1>0, <1>b, KeepsOn
  <2> QED
    BY <1>0, <1>a, <2>1 DEF ValueInv, Keeps
<1>1. CASE Values!Minify
  BY <1>0, <1>1, <1>b, MinifiedKeeps DEF Values!Minify, Values!Pass
<1>2. CASE Values!Intern
  BY <1>0, <1>2, <1>b, InternedKeeps DEF Values!Intern, Values!Pass
<1>3. CASE Values!Consolidate
  BY <1>0, <1>3, <1>b, ConsolidatedKeeps DEF Values!Consolidate, Values!Pass
<1>4. CASE Values!FactorSurfaces
  BY <1>0, <1>4, <1>b, SurfacesFactoredKeeps DEF Values!FactorSurfaces, Values!Pass
<1>5. CASE Values!FactorCurves
  BY <1>0, <1>5, <1>b, CurvesFactoredKeeps DEF Values!FactorCurves, Values!Pass
<1>6. CASE Values!Stabilize
  <2> DEFINE named == IF options.minify THEN Values!Minified(sec) ELSE sec
  <2>1. sec' = IF options.intern /\ Values!CreatedValues THEN Values!Interned(named) ELSE named
    BY <1>6 DEF Values!Stabilize, Values!Pass
  <2>2. Keeps(sec, named)
    BY <1>0, MinifiedKeeps DEF Keeps
  <2> HIDE DEF named
  <2>3. Values!Whole(named)
    BY <2>2 DEF Keeps
  <2>4. Keeps(named, Values!Interned(named))
    BY <2>3, InternedKeeps
  <2>5. Keeps(sec, sec')
    BY <2>1, <2>2, <2>4, KeepsOn
  <2> QED
    BY <1>b, <2>5
<1>7. CASE Values!Renumber
  BY <1>0, <1>7, <1>b, RenumberedKeeps DEF Values!Renumber, Values!Pass
<1>8. CASE Values!CleanAgain \/ Values!Done \/ UNCHANGED Values!vars
  BY <1>8, <1>b DEF Values!CleanAgain, Values!Done, Values!vars
<1> QED
  BY <1>1, <1>2, <1>3, <1>4, <1>5, <1>6, <1>7, <1>8 DEF Values!Next

\* The cleanups of values, if there are any beside the other passes.
LEMMA EitherValues == EitherSpec => [](pc # "absent" => ValueInv)
<1>1. EitherInit => (pc # "absent" => ValueInv)
  BY ValueInvStarts DEF EitherInit, NoValues
<1>2. (pc # "absent" => ValueInv)
         /\ [EitherNext]_<<vars, valueVars, solidVars, featureVars>>
         => (pc # "absent" => ValueInv)'
  <2> SUFFICES ASSUME pc # "absent" => ValueInv,
                      [EitherNext]_<<vars, valueVars, solidVars, featureVars>>,
                      pc' # "absent"
               PROVE  ValueInv'
    OBVIOUS
  <2>1. CASE pc # "absent" /\ Values!Next
    BY <2>1, ValueInvStep
  <2>2. CASE UNCHANGED valueVars
    <3>1. pc # "absent" /\ UNCHANGED Values!vars
      BY <2>2 DEF valueVars, Values!vars
    <3> QED
      BY <3>1, ValueInvStep
  <2> QED
    BY <2>1, <2>2 DEF EitherNext
<1> QED
  BY <1>1, <1>2, PTL DEF EitherSpec

\* For every file that is whole, and with whatever passes the options choose: after every
\* pass of both cleanups the section is whole.  Its ids are distinct, every reference
\* leads to an entity of a kind the attribute admits, none to what interning merged,
\* factoring replaced or the collection deleted, and no replica is one of another replica.
THEOREM ValuesAreWhole == EitherSpec => [](pc # "absent" => Values!TypeOK)
<1>1. ValueInv => Values!TypeOK
  BY DEF ValueInv, Keeps, Passes, Values!TypeOK
<1> QED
  BY <1>1, EitherValues, PTL

\* Nothing moves: after every pass each vertex, face, edge and pcurve has the shape it had
\* in the file, whichever surfaces and curves were merged, replicated or renumbered.
THEOREM ValuesMeanTheSame == EitherSpec => []ValuesKeepTheirMeaning
<1>1. (pc # "absent" => ValueInv) => ValuesKeepTheirMeaning
  BY DEF ValueInv, Keeps, ValuesKeepTheirMeaning, Values!GeometryIsKept
<1> QED
  BY <1>1, EitherValues, PTL
=============================================================================
