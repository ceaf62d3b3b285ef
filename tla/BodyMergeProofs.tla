---------------------------- MODULE BodyMergeProofs ----------------------------
(***************************************************************************)
(* Proofs about the partition and coalescing passes (BodyMerge), as        *)
(* MCCleaning runs them: any files of whole sections, any supports.        *)
(*                                                                         *)
(* The argument.  A pass is a function of the section it began with, so    *)
(* the invariant (BodyInv) says which: within the partition the section is *)
(* the original, welded, or welded and rebuilt, with the plans made for    *)
(* the original.  What remains are lemmas on the operators of BodyMerge:   *)
(*   - the union-find finds an equivalence (ConnectedAlike), which unites  *)
(*     only edges of one key and vertices at one point (RootsAreAlike);    *)
(*   - welding, rebuilding, coalescing and collecting each leave a whole   *)
(*     section whole (WeldedIsWhole, RebuiltIsWhole, CoalescedIsWhole,     *)
(*     SweptIsWhole);                                                      *)
(*   - a use of an edge that is replaced leads where it led, if the key    *)
(*     told the edges apart (TripReplaced), so a face keeps its path       *)
(*     (WeldedPaths, RebuiltPaths, SweptPaths);                            *)
(*   - references lead down through the kinds (RefsLeadDown), so the       *)
(*     collection reaches its fixed point within its steps, and what is    *)
(*     not among its candidates keeps its users (Spares, SweptIsInUse).    *)
(* A function defined by recursion in a LET is a CHOOSE: Recursion gives   *)
(* its existence, StepByStep the induction over its steps.                 *)
(***************************************************************************)
EXTENDS MCCleaning, FiniteSetTheorems, WellFoundedInduction, TLAPS

-----------------------------------------------------------------------------
(* Counting and recursion.                                                 *)

\* A set of natural numbers has a least element.
LEMMA HasLeast ==
    ASSUME NEW S \in SUBSET Nat, S # {}
    PROVE  \E i \in S : \A j \in S : i <= j
<1> DEFINE R == {p \in Nat \X Nat : p[1] < p[2]}
<1>1. IsWellFoundedOn(R, Nat)
  BY NatLessThanWellFounded, Zenon DEF OpToRel
<1>2. \A a, b \in Nat : a < b => <<a, b>> \in R
  OBVIOUS
<1> HIDE DEF R
<1>3. PICK i \in S : \A j \in S : ~ (<<j, i>> \in R)
  BY <1>1, WFMin
<1>4. ASSUME NEW j \in S PROVE i <= j
  <2>1. i \in Nat /\ j \in Nat
    OBVIOUS
  <2>2. ~ (<<j, i>> \in R)
    BY <1>3
  <2>3. ~ (j < i)
    BY <1>2, <2>1, <2>2, Zenon
  <2> QED
    BY <2>1, <2>3
<1> QED
  BY <1>4

\* A set that holds a number and, up to a bound, the next of each of its members, holds
\* all numbers from the first up to the bound.
LEMMA StepByStep ==
    ASSUME NEW a \in Int, NEW b \in Int, NEW S, a \in S,
           \A k \in a .. b : k \in S /\ k < b => k + 1 \in S
    PROVE  \A k \in a .. b : k \in S
<1> DEFINE Missing == {k \in Nat : a + k <= b /\ a + k \notin S}
<1> SUFFICES ASSUME NEW k \in a .. b, k \notin S PROVE FALSE
  OBVIOUS
<1>1. k - a \in Missing
  BY SMT
<1>2. PICK m \in Missing : \A j \in Missing : m <= j
  BY <1>1, HasLeast
<1>3. m \in Nat /\ a + m <= b /\ a + m \notin S
  BY <1>2
<1>4. m # 0
  BY <1>3
<1>5. m - 1 \in Nat /\ m - 1 \notin Missing
  BY <1>2, <1>3, <1>4
<1>6. a + (m - 1) \in S
  BY <1>3, <1>5
<1> DEFINE l == a + (m - 1)
<1>7. l \in a .. b /\ l < b /\ l + 1 = a + m
  BY <1>3, <1>4
<1> QED
  BY <1>3, <1>6, <1>7

\* A function that is defined by recursion exists, and has its values where each of its
\* steps has them.
Advances(a, b, S, advance) == \A k \in a .. b : \A x \in S : advance[<<k, x>>] \in S
Recursive(a, b, S, s, advance, f) ==
    /\ f \in [a .. b -> S]
    /\ f[a] = s
    /\ \A k \in a .. b : k > a => f[k] = advance[<<k, f[k - 1]>>]

LEMMA Recursion ==
    ASSUME NEW a \in Int, NEW b \in Int, a <= b, NEW S, NEW s \in S, NEW advance,
           Advances(a, b, S, advance)
    PROVE  \E f : Recursive(a, b, S, s, advance, f)
<1> DEFINE Defined == {n \in a .. b : \E f : Recursive(a, n, S, s, advance, f)}
<1>1. a \in Defined
  <2> DEFINE f == [k \in a .. a |-> s]
  <2>1. Recursive(a, a, S, s, advance, f)
    BY DEF Recursive
  <2> QED
    BY <2>1
<1>2. ASSUME NEW n \in a .. b, n \in Defined, n < b PROVE n + 1 \in Defined
  <2>1. PICK f : Recursive(a, n, S, s, advance, f)
    BY <1>2
  <2> DEFINE g == [k \in a .. n + 1 |-> IF k = n + 1 THEN advance[<<k, f[k - 1]>>] ELSE f[k]]
  <2>2. n + 1 \in a .. b /\ f[n] \in S /\ advance[<<n + 1, f[n]>>] \in S
    BY <1>2, <2>1 DEF Recursive, Advances
  <2>3. \A k \in a .. n : g[k] = f[k]
    OBVIOUS
  <2>4. g[n + 1] = advance[<<n + 1, g[n]>>]
    BY <2>3
  <2>5. g \in [a .. n + 1 -> S]
    BY <2>1, <2>2 DEF Recursive
  <2>6. g[a] = s /\ \A k \in a .. n + 1 : k > a => g[k] = advance[<<k, g[k - 1]>>]
    BY <2>1, <2>3, <2>4 DEF Recursive
  <2>7. Recursive(a, n + 1, S, s, advance, g)
    BY <2>5, <2>6 DEF Recursive
  <2> QED
    BY <2>2, <2>7
<1>3. \A n \in a .. b : n \in Defined
  <2> HIDE DEF Defined
  <2> QED
    BY <1>1, <1>2, StepByStep
<1> QED
  BY <1>3

-----------------------------------------------------------------------------
(* The union-find: what is connected is an equivalence.                    *)

Across(links, S) == S \cup UNION {l \in links : l \cap S # {}}

\* The search goes from x across links, as often as there are links.
LEMMA Nearness ==
    ASSUME NEW links, IsFiniteSet(links), NEW x, NEW U, x \in U,
           \A l \in links : l \cap U # {} => l \subseteq U
    PROVE  \E near \in [0 .. Cardinality(links) -> SUBSET U] :
              /\ near[0] = {x}
              /\ \A k \in 1 .. Cardinality(links) : near[k] = Across(links, near[k - 1])
              /\ Connected(links, x) = near[Cardinality(links)]
<1> DEFINE N == Cardinality(links)
           advance == [p \in (0 .. N) \X SUBSET U |-> Across(links, p[2])]
           near == CHOOSE f : f = [k \in 0 .. N |->
                                      IF k = 0 THEN {x} ELSE Across(links, f[k - 1])]
<1>1. N \in Nat
  BY FS_CardinalityType
<1>2. \A S \in SUBSET U : Across(links, S) \in SUBSET U
  BY DEF Across
<1>3. \A k \in 0 .. N : \A S \in SUBSET U :
         advance[<<k, S>>] = Across(links, S) /\ advance[<<k, S>>] \in SUBSET U
  BY <1>2
<1>4. PICK f \in [0 .. N -> SUBSET U] :
         f[0] = {x} /\ \A k \in 1 .. N : f[k] = advance[<<k, f[k - 1]>>]
  <2> DEFINE V == SUBSET U
             s == {x}
  <2>1. s \in V /\ 0 <= N
    BY <1>1
  <2>2. Advances(0, N, V, advance)
    BY <1>3 DEF Advances
  <2> HIDE DEF advance, N, V, s
  <2>3. PICK f : Recursive(0, N, V, s, advance, f)
    BY <1>1, <2>1, <2>2, Recursion
  <2>4. \A k \in 1 .. N : k \in 0 .. N /\ k > 0
    BY <1>1
  <2> QED
    BY <2>3, <2>4, Zenon DEF V, s, Recursive
<1> HIDE DEF advance
<1>5. \A k \in 1 .. N : f[k] = Across(links, f[k - 1])
  <2> SUFFICES ASSUME NEW k \in 1 .. N PROVE f[k] = Across(links, f[k - 1])
    OBVIOUS
  <2> HIDE DEF N
  <2>1. k - 1 \in 0 .. N /\ k \in 0 .. N
    BY <1>1
  <2>2. f[k - 1] \in SUBSET U
    BY <2>1
  <2> QED
    BY <1>3, <1>4, <2>1, <2>2
<1>6. f = [k \in 0 .. N |-> IF k = 0 THEN {x} ELSE Across(links, f[k - 1])]
  BY <1>1, <1>4, <1>5
<1>7. near = [k \in 0 .. N |-> IF k = 0 THEN {x} ELSE Across(links, near[k - 1])]
  BY <1>6, Zenon
<1>8. Connected(links, x) = near[N]
  BY DEF Connected, Across
<1> HIDE DEF near, N
<1>9. near[0] = {x} /\ \A k \in 1 .. N : near[k] = Across(links, near[k - 1])
  <2>1. near[0] = {x}
    BY <1>1, <1>7
  <2>2. ASSUME NEW k \in 1 .. N PROVE near[k] = Across(links, near[k - 1])
    <3>1. k \in 0 .. N /\ k # 0
      BY <1>1
    <3> QED
      BY <1>7, <3>1
  <2> QED
    BY <2>1, <2>2
<1>10. near \in [0 .. N -> SUBSET U]
  <2>1. near[0] \in SUBSET U
    BY <1>9
  <2> DEFINE Good == {k \in 0 .. N : near[k] \in SUBSET U}
  <2>2. 0 \in Good
    BY <1>1, <2>1
  <2>3. \A k \in 0 .. N : k \in Good /\ k < N => k + 1 \in Good
    <3> SUFFICES ASSUME NEW k \in 0 .. N, k \in Good, k < N PROVE k + 1 \in Good
      OBVIOUS
    <3>1. k + 1 \in 1 .. N /\ (k + 1) - 1 = k
      BY <1>1
    <3>2. near[k + 1] = Across(links, near[k])
      BY <1>9, <3>1
    <3> QED
      BY <1>2, <3>1, <3>2
  <2> HIDE DEF Good
  <2>4. \A k \in 0 .. N : k \in Good
    BY <1>1, <2>2, <2>3, StepByStep
  <2>5. \A k \in 0 .. N : near[k] \in SUBSET U
    BY <2>4 DEF Good
  <2> QED
    BY <1>7, <2>5
<1> QED
  BY <1>8, <1>9, <1>10 DEF N

\* It does not leave what no link leads out of.
LEMMA ConnectedInside ==
    ASSUME NEW links, IsFiniteSet(links), NEW x, NEW U, x \in U,
           \A l \in links : l \cap U # {} => l \subseteq U
    PROVE  Connected(links, x) \subseteq U
<1>1. Cardinality(links) \in Nat
  BY FS_CardinalityType
<1> QED
  BY <1>1, Nearness

\* It finds everything that links lead to: each step that is not the last adds a link.
LEMMA ConnectedClosed ==
    ASSUME NEW links, IsFiniteSet(links), NEW x
    PROVE  /\ x \in Connected(links, x)
           /\ \A l \in links : l \cap Connected(links, x) # {} => l \subseteq Connected(links, x)
<1> DEFINE N == Cardinality(links)
           U == {x} \cup UNION links
<1>1. N \in Nat
  BY FS_CardinalityType
<1>2. PICK near \in [0 .. N -> SUBSET U] :
         /\ near[0] = {x}
         /\ \A k \in 1 .. N : near[k] = Across(links, near[k - 1])
         /\ Connected(links, x) = near[N]
  <2>1. x \in U /\ \A l \in links : l \cap U # {} => l \subseteq U
    OBVIOUS
  <2> HIDE DEF U
  <2> QED
    BY <2>1, Nearness
<1> DEFINE Met(S) == {l \in links : l \cap S # {}}
           Full(S) == \A l \in links : l \cap S # {} => l \subseteq S
           Good == {k \in 0 .. N : x \in near[k] /\ (Full(near[k]) \/ Cardinality(Met(near[k])) > k)}
<1> HIDE DEF U, N
<1>3. \A S : IsFiniteSet(Met(S)) /\ Cardinality(Met(S)) \in Nat
  <2> SUFFICES ASSUME NEW S PROVE IsFiniteSet(Met(S)) /\ Cardinality(Met(S)) \in Nat
    OBVIOUS
  <2>1. Met(S) \subseteq links
    OBVIOUS
  <2> HIDE DEF Met
  <2> QED
    BY <2>1, FS_Subset, FS_CardinalityType
<1>4. 0 \in Good
  <2>1. CASE Met(near[0]) = {}
    BY <1>1, <1>2, <2>1
  <2>2. CASE Met(near[0]) # {}
    <3>1. Cardinality(Met(near[0])) # 0
      <4> HIDE DEF Met
      <4> QED
        BY <1>3, <2>2, FS_EmptySet
    <3>2. Cardinality(Met(near[0])) > 0
      <4> HIDE DEF Met
      <4> QED
        BY <1>3, <3>1
    <3>3. x \in near[0] /\ 0 \in 0 .. N
      BY <1>1, <1>2
    <3> HIDE DEF Met, Full
    <3> QED
      BY <3>2, <3>3
  <2> QED
    BY <2>1, <2>2
<1>5. ASSUME NEW k \in 0 .. N, k \in Good, k < N PROVE k + 1 \in Good
  <2>1. k + 1 \in 1 .. N /\ (k + 1) - 1 = k
    BY <1>1, <1>5
  <2>2. near[k + 1] = Across(links, near[k])
    BY <1>2, <2>1
  <2>3. near[k] \subseteq near[k + 1] /\ x \in near[k + 1]
    BY <1>5, <2>2 DEF Across
  <2>4. CASE Full(near[k])
    <3>1. near[k + 1] = near[k]
      BY <2>2, <2>4 DEF Across
    <3>2. Full(near[k + 1])
      BY <2>4, <3>1
    <3> QED
      BY <2>1, <2>3, <3>2
  <2>5. CASE ~ Full(near[k]) /\ Met(near[k + 1]) = Met(near[k])
    <3>1. \A l \in Met(near[k]) : l \subseteq near[k + 1]
      BY <2>2 DEF Across
    <3>2. Full(near[k + 1])
      BY <2>5, <3>1
    <3> QED
      BY <2>1, <2>3, <3>2
  <2>6. CASE ~ Full(near[k]) /\ Met(near[k + 1]) # Met(near[k])
    <3>1. Met(near[k]) \subseteq Met(near[k + 1])
      BY <2>3
    <3>2. Cardinality(Met(near[k])) > k
      BY <1>5, <2>6
    <3> HIDE DEF Met
    <3>3. Cardinality(Met(near[k])) < Cardinality(Met(near[k + 1]))
      <4>1. Cardinality(Met(near[k])) <= Cardinality(Met(near[k + 1]))
        BY <1>3, <3>1, FS_Subset
      <4>2. Cardinality(Met(near[k])) # Cardinality(Met(near[k + 1]))
        BY <1>3, <2>6, <3>1, FS_Subset
      <4> QED
        BY <1>3, <4>1, <4>2
    <3>4. Cardinality(Met(near[k + 1])) > k + 1
      BY <1>1, <1>3, <3>2, <3>3
    <3> QED
      BY <2>1, <2>3, <3>4
  <2> QED
    BY <2>4, <2>5, <2>6
<1> HIDE DEF Good
<1>6. N \in Good
  <2>1. \A k \in 0 .. N : k \in Good
    BY <1>1, <1>4, <1>5, StepByStep
  <2> QED
    BY <1>1, <2>1
<1>7. Cardinality(Met(near[N])) <= N
  <2>1. Met(near[N]) \subseteq links
    OBVIOUS
  <2> HIDE DEF Met
  <2> QED
    BY <2>1, FS_Subset DEF N
<1>8. Full(near[N]) /\ x \in near[N]
  <2>1. ~ (Cardinality(Met(near[N])) > N)
    <3> HIDE DEF Met
    <3> QED
      BY <1>1, <1>3, <1>7
  <2> QED
    BY <1>6, <2>1 DEF Good
<1> QED
  BY <1>2, <1>8

\* The classes of connected things divide what the links hold.
LEMMA ConnectedAlike ==
    ASSUME NEW links, IsFiniteSet(links), NEW x, NEW y \in Connected(links, x)
    PROVE  Connected(links, y) = Connected(links, x)
<1>1. Connected(links, y) \subseteq Connected(links, x)
  <2>1. \A l \in links : l \cap Connected(links, x) # {} => l \subseteq Connected(links, x)
    BY ConnectedClosed
  <2> QED
    BY <2>1, ConnectedInside
<1>2. x \in Connected(links, y)
  <2> SUFFICES ASSUME x \notin Connected(links, y) PROVE FALSE
    OBVIOUS
  <2> DEFINE U == ({x} \cup UNION links) \ Connected(links, y)
  <2>1. \A l \in links : l \cap Connected(links, y) # {} => l \subseteq Connected(links, y)
    BY ConnectedClosed
  <2>2. x \in U /\ \A l \in links : l \cap U # {} => l \subseteq U
    BY <2>1
  <2> HIDE DEF U
  <2>3. Connected(links, x) \subseteq U
    BY <2>2, ConnectedInside
  <2>4. y \in Connected(links, y)
    BY ConnectedClosed
  <2> QED
    BY <2>3, <2>4 DEF U
<1>3. Connected(links, x) \subseteq Connected(links, y)
  <2>1. \A l \in links : l \cap Connected(links, y) # {} => l \subseteq Connected(links, y)
    BY ConnectedClosed
  <2> QED
    BY <1>2, <2>1, ConnectedInside
<1> QED
  BY <1>1, <1>3
-----------------------------------------------------------------------------
(* Finite sets of numbers, and sequences of sequences.                     *)

\* A finite set of numbers has a least and a greatest element.
LEMMA Extremes ==
    ASSUME NEW S \in SUBSET Int, IsFiniteSet(S), S # {}
    PROVE  /\ Min(S) \in S /\ \A x \in S : Min(S) <= x
           /\ Max(S) \in S /\ \A x \in S : x <= Max(S)
<1> DEFINE N == Cardinality(S)
<1>1. N \in Nat /\ N # 0
  BY FS_CardinalityType, FS_EmptySet
<1>2. PICK f \in [1 .. N -> S] : \A x \in S : \E k \in 1 .. N : f[k] = x
  BY FS_CardinalityType DEF ExistsBijection, Bijection, Surjection
<1> HIDE DEF N
<1> DEFINE Good == {k \in 1 .. N : \E lo, hi \in S : \A j \in 1 .. k : lo <= f[j] /\ f[j] <= hi}
<1>0. \A k \in 1 .. N : f[k] \in S /\ f[k] \in Int
  OBVIOUS
<1>3. 1 \in Good
  <2>1. 1 \in 1 .. N /\ f[1] \in S /\ f[1] \in Int
    BY <1>0, <1>1
  <2>2. \A j \in 1 .. 1 : f[1] <= f[j] /\ f[j] <= f[1]
    BY <2>1
  <2> QED
    BY <2>1, <2>2
<1>4. ASSUME NEW k \in 1 .. N, k \in Good, k < N PROVE k + 1 \in Good
  <2>1. PICK lo \in S, hi \in S : \A j \in 1 .. k : lo <= f[j] /\ f[j] <= hi
    BY <1>4
  <2>2. k + 1 \in 1 .. N /\ f[k + 1] \in S
    BY <1>1, <1>4
  <2> DEFINE low == IF f[k + 1] <= lo THEN f[k + 1] ELSE lo
             high == IF hi <= f[k + 1] THEN f[k + 1] ELSE hi
  <2>3. low \in S /\ high \in S
    BY <2>2
  <2>4. low \in Int /\ high \in Int /\ lo \in Int /\ hi \in Int /\ f[k + 1] \in Int
    BY <2>2, <2>3
  <2>5. low <= lo /\ hi <= high /\ low <= f[k + 1] /\ f[k + 1] <= high
    BY <2>4
  <2>6. ASSUME NEW j \in 1 .. k + 1 PROVE low <= f[j] /\ f[j] <= high
    <3> HIDE DEF low, high
    <3>1. CASE j = k + 1
      BY <2>5, <3>1
    <3>2. CASE j # k + 1
      <4>1. j \in 1 .. k /\ j \in 1 .. N /\ f[j] \in Int
        BY <1>0, <1>1, <1>4, <3>2
      <4> QED
        BY <2>1, <2>4, <2>5, <4>1
    <3> QED
      BY <3>1, <3>2
  <2> QED
    BY <2>2, <2>3, <2>6
<1>5. N \in Good
  <2> HIDE DEF Good
  <2>1. \A k \in 1 .. N : k \in Good
    BY <1>1, <1>3, <1>4, StepByStep
  <2> QED
    BY <1>1, <2>1
<1>6. PICK lo \in S, hi \in S : \A x \in S : lo <= x /\ x <= hi
  <2>1. PICK lo \in S, hi \in S : \A j \in 1 .. N : lo <= f[j] /\ f[j] <= hi
    BY <1>5
  <2>2. \A x \in S : lo <= x /\ x <= hi
    <3> HIDE DEF Good
    <3> QED
      BY <1>2, <2>1
  <2> QED
    BY <2>2
<1>7. Min(S) \in S /\ \A x \in S : Min(S) <= x
  BY <1>6 DEF Min
<1>8. \A x \in S : hi >= x
  BY <1>6
<1>9. Max(S) \in S /\ \A x \in S : Max(S) >= x
  BY <1>8 DEF Max
<1> QED
  BY <1>7, <1>9

\* A group has a first member, a second one and so on, up to its size.
LEMMA Members ==
    ASSUME NEW S \in SUBSET Int, IsFiniteSet(S), NEW k \in 1 .. Cardinality(S)
    PROVE  Member(S, k) \in S
<1> DEFINE N == Cardinality(S)
           Below(f) == {g \in S : g < f}
           Ranked == {i \in 1 .. N : \E f \in S : Cardinality(Below(f)) = i - 1}
<1>1. N \in Nat
  BY FS_CardinalityType
<1>2. \A f : IsFiniteSet(Below(f)) /\ Cardinality(Below(f)) \in Nat
  <2> SUFFICES ASSUME NEW f PROVE IsFiniteSet(Below(f)) /\ Cardinality(Below(f)) \in Nat
    OBVIOUS
  <2>1. Below(f) \in SUBSET S
    OBVIOUS
  <2> HIDE DEF Below
  <2> QED
    BY <2>1, FS_Subset, FS_CardinalityType
<1>3. 1 \in Ranked
  <2>1. S # {}
    BY FS_EmptySet
  <2>2. Min(S) \in S /\ \A x \in S : Min(S) <= x
    BY <2>1, Extremes
  <2>3. Below(Min(S)) = {}
    <3> DEFINE m == Min(S)
    <3>1. m \in Int /\ \A x \in S : x \in Int /\ m <= x
      BY <2>2
    <3> HIDE DEF m
    <3>2. \A x \in S : ~ (x < m)
      BY <3>1
    <3>3. Below(m) = {}
      BY <3>2
    <3> QED
      BY <3>3 DEF m
  <2>4. Cardinality(Below(Min(S))) = 0
    BY <2>3, FS_EmptySet
  <2>5. 1 \in 1 .. N /\ 1 - 1 = 0
    BY <1>1
  <2> HIDE DEF Below, N
  <2> QED
    BY <2>2, <2>4, <2>5
<1>4. ASSUME NEW i \in 1 .. N, i \in Ranked, i < N PROVE i + 1 \in Ranked
  <2>1. PICK f \in S : Cardinality(Below(f)) = i - 1
    BY <1>4
  <2> DEFINE Above == {g \in S : f < g}
  <2>2. Cardinality(Below(f) \cup {f}) = i
    <3>1. f \notin Below(f)
      OBVIOUS
    <3> HIDE DEF Below
    <3>2. Cardinality(Below(f) \cup {f}) = (i - 1) + 1
      BY <1>2, <2>1, <3>1, FS_AddElement
    <3> QED
      BY <1>1, <3>2
  <2>3. Above # {}
    <3> SUFFICES ASSUME Above = {} PROVE FALSE
      OBVIOUS
    <3>1. S = Below(f) \cup {f}
      <4>1. \A x \in S : x \in Int /\ f \in Int /\ ~ (f < x)
        OBVIOUS
      <4>2. \A x \in S : x < f \/ x = f
        BY <4>1
      <4> QED
        BY <4>2
    <3> QED
      BY <1>4, <2>2, <3>1
  <2>4. Above \in SUBSET Int /\ IsFiniteSet(Above)
    <3>1. Above \in SUBSET S
      OBVIOUS
    <3> HIDE DEF Above
    <3> QED
      BY <3>1, FS_Subset
  <2>5. Min(Above) \in Above /\ \A x \in Above : Min(Above) <= x
    <3> HIDE DEF Above
    <3> QED
      BY <2>3, <2>4, Extremes
  <2>6. Below(Min(Above)) = Below(f) \cup {f}
    <3> DEFINE m == Min(Above)
    <3>1. m \in S /\ f < m /\ \A x \in S : f < x => m <= x
      BY <2>5
    <3> HIDE DEF m
    <3>2. \A x \in S : x < m <=> x < f \/ x = f
      BY <3>1
    <3>3. Below(m) = Below(f) \cup {f}
      BY <3>2
    <3> QED
      BY <3>3 DEF m
  <2>7. i + 1 \in 1 .. N /\ (i + 1) - 1 = i /\ Min(Above) \in S
    BY <1>1, <1>4, <2>5
  <2> QED
    BY <2>2, <2>6, <2>7
<1>5. k \in Ranked
  <2> HIDE DEF Ranked
  <2>1. 1 \in Int /\ N \in Int /\ \A i \in 1 .. N : i \in Ranked
    BY <1>1, <1>3, <1>4, StepByStep
  <2> QED
    BY <2>1
<1> QED
  BY <1>5 DEF Member

\* Sequences put one behind the other make a sequence.
LEMMA Flattened ==
    ASSUME NEW U, NEW n \in Nat, NEW parts \in [1 .. n -> Seq(U)]
    PROVE  FlattenSeq(parts) \in Seq(U)
<1>1. parts \in Seq(Seq(U)) /\ Len(parts) = n
  OBVIOUS
<1>2. CASE n = 0
  <2>1. FlattenSeq(parts) = parts
    BY <1>1, <1>2 DEF FlattenSeq
  <2>2. parts = <<>>
    BY <1>1, <1>2
  <2> QED
    BY <2>1, <2>2
<1>3. CASE n # 0
  <2> DEFINE flatten == CHOOSE f : f = [i \in 1 .. Len(parts) |->
                                         IF i = 1 THEN parts[i] ELSE f[i - 1] \o parts[i]]
             advance == [p \in (1 .. n) \X Seq(U) |-> p[2] \o parts[p[1]]]
             V == Seq(U)
             s == parts[1]
  <2>1. FlattenSeq(parts) = flatten[n]
    BY <1>1, <1>3 DEF FlattenSeq
  <2>2. \A k \in 1 .. n : \A x \in V :
           advance[<<k, x>>] = x \o parts[k] /\ advance[<<k, x>>] \in V
    <3> SUFFICES ASSUME NEW k \in 1 .. n, NEW x \in V
                 PROVE  advance[<<k, x>>] = x \o parts[k] /\ advance[<<k, x>>] \in V
      OBVIOUS
    <3>1. advance[<<k, x>>] = x \o parts[k]
      OBVIOUS
    <3>2. x \o parts[k] \in Seq(U)
      <4>1. x \in Seq(U) /\ parts[k] \in Seq(U)
        OBVIOUS
      <4> QED
        BY <4>1
    <3> QED
      BY <3>1, <3>2
  <2>3. Advances(1, n, V, advance)
    BY <2>2 DEF Advances
  <2>4. 1 <= n /\ s \in V
    BY <1>3
  <2> HIDE DEF advance, flatten, V, s
  <2>5. PICK f : Recursive(1, n, V, s, advance, f)
    BY <2>3, <2>4, Recursion
  <2>6. ASSUME NEW k \in 1 .. n
        PROVE  f[k] = IF k = 1 THEN parts[k] ELSE f[k - 1] \o parts[k]
    <3>1. CASE k = 1
      BY <2>5, <3>1 DEF Recursive, s
    <3>2. CASE k # 1
      <4>1. k > 1 /\ k - 1 \in 1 .. n
        BY <3>2
      <4>2. f[k] = advance[<<k, f[k - 1]>>] /\ f[k - 1] \in V
        BY <2>5, <4>1 DEF Recursive
      <4> QED
        BY <2>2, <3>2, <4>2
    <3> QED
      BY <3>1, <3>2
  <2>7. f = [i \in 1 .. Len(parts) |-> IF i = 1 THEN parts[i] ELSE f[i - 1] \o parts[i]]
    BY <1>1, <2>5, <2>6 DEF Recursive
  <2>8. flatten = [i \in 1 .. Len(parts) |->
                     IF i = 1 THEN parts[i] ELSE flatten[i - 1] \o parts[i]]
    BY <2>7, Zenon DEF flatten
  <2>9. \A k \in 1 .. n : parts[k] \in Seq(U)
    OBVIOUS
  <2> DEFINE Good == {k \in 1 .. n : flatten[k] \in Seq(U)}
  <2>10. 1 \in Good
    BY <1>1, <1>3, <2>8, <2>9
  <2>11. ASSUME NEW k \in 1 .. n, k \in Good, k < n PROVE k + 1 \in Good
    <3>1. k + 1 \in 1 .. n /\ k + 1 # 1 /\ (k + 1) - 1 = k
      BY <2>11
    <3>2. flatten[k + 1] = flatten[k] \o parts[k + 1]
      BY <1>1, <2>8, <3>1
    <3>3. flatten[k] \in Seq(U) /\ parts[k + 1] \in Seq(U)
      BY <2>9, <2>11, <3>1
    <3>4. flatten[k] \o parts[k + 1] \in Seq(U)
      <4> DEFINE a == flatten[k]
                 b == parts[k + 1]
      <4>1. a \in Seq(U) /\ b \in Seq(U)
        BY <3>3
      <4> HIDE DEF a, b
      <4>2. a \o b \in Seq(U)
        BY <4>1
      <4> QED
        BY <4>2 DEF a, b
    <3> QED
      BY <3>1, <3>2, <3>4
  <2>12. n \in Good
    <3> HIDE DEF Good
    <3>1. \A k \in 1 .. n : k \in Good /\ k < n => k + 1 \in Good
      BY <2>11
    <3>2. 1 \in Int /\ n \in Int
      OBVIOUS
    <3>3. \A k \in 1 .. n : k \in Good
      BY <2>10, <3>1, <3>2, StepByStep
    <3> QED
      BY <1>3, <3>3
  <2> QED
    BY <2>1, <2>12
<1> QED
  BY <1>2, <1>3

\* The members of a sequence, and a sequence of other members.
LEMMA SeqMember == ASSUME NEW A, NEW l \in Seq(A), NEW k \in DOMAIN l PROVE l[k] \in A
OBVIOUS
\* A sequence whose members are in B is a sequence of B's.
LEMMA SeqInto ==
    ASSUME NEW A, NEW B, NEW l \in Seq(A), \A k \in DOMAIN l : l[k] \in B
    PROVE  l \in Seq(B)
OBVIOUS
-----------------------------------------------------------------------------
(* The collection of both passes.                                          *)

\* What refers to what, kind by kind.
LEMMA References ==
    ASSUME NEW x
    PROVE  /\ x.kind = "edge" => Refs(x) = ToSet(x.ends)
           /\ x.kind = "face" => Refs(x) = {x.support} \cup {u.edge : u \in ToSet(x.loop)}
           /\ x.kind = "shell" => Refs(x) = x.faces
           /\ x.kind = "solid" => Refs(x) = {x.shell}
           /\ x.kind = "style" => Refs(x) = {x.item}
           /\ x.kind = "usage" => Refs(x) = {x.item}
           /\ x.kind = "representation" => Refs(x) = x.items
           /\ x.kind = "presentation" => Refs(x) = x.items
           /\ x.kind = "layer" => Refs(x) = x.items
BY DEF Refs

\* The fixed point the collection goes up to, and its steps.
SweepSteps(e, C, gone) ==
    /\ gone \in [0 .. Depth -> SUBSET C]
    /\ gone[0] = {}
    /\ \A k \in 1 .. Depth : gone[k] = {n \in C : Parents(e, n) \subseteq gone[k - 1]}
    /\ Swept(e, C) = [n \in DOMAIN e \ gone[Depth] |-> e[n]]

\* The collection has these steps.
LEMMA SweepInSteps ==
    ASSUME NEW e, NEW C
    PROVE  \E gone : SweepSteps(e, C, gone)
<1> DEFINE Away(dead) == {n \in C : Parents(e, n) \subseteq dead}
           V == SUBSET C
           s == {}
           advance == [p \in (0 .. Depth) \X SUBSET C |-> Away(p[2])]
           gone == CHOOSE f : f = [k \in 0 .. Depth |-> IF k = 0 THEN {} ELSE Away(f[k - 1])]
<1>1. Swept(e, C) = [n \in DOMAIN e \ gone[Depth] |-> e[n]]
  <2> DEFINE parents == [n \in C |-> Parents(e, n)]
             f == CHOOSE g : g = [k \in 0 .. Depth |-> IF k = 0 THEN {}
                                    ELSE {n \in C : parents[n] \subseteq g[k - 1]}]
  <2>1. \A dead : {n \in C : parents[n] \subseteq dead} = Away(dead)
    OBVIOUS
  <2>2. Swept(e, C) = [n \in DOMAIN e \ f[Depth] |-> e[n]]
    BY DEF Swept
  <2> HIDE DEF parents, Away
  <2>3. f = gone
    BY <2>1
  <2> QED
    BY <2>2, <2>3
<1>2. Depth \in Int /\ 0 <= Depth
  BY DEF Depth
<1>3. \A k \in 0 .. Depth : \A S \in SUBSET C :
         advance[<<k, S>>] = Away(S) /\ advance[<<k, S>>] \in SUBSET C
  OBVIOUS
<1>4. Advances(0, Depth, V, advance) /\ s \in V
  BY <1>3 DEF Advances
<1> HIDE DEF advance, V, s, Away, gone
<1>5. PICK f : Recursive(0, Depth, V, s, advance, f)
  BY <1>2, <1>4, Recursion
<1>6. ASSUME NEW k \in 0 .. Depth PROVE f[k] = IF k = 0 THEN {} ELSE Away(f[k - 1])
  <2>1. CASE k = 0
    BY <1>5, <2>1 DEF Recursive, s
  <2>2. CASE k # 0
    <3>1. k > 0 /\ k - 1 \in 0 .. Depth
      BY <1>2, <2>2
    <3>2. f[k] = advance[<<k, f[k - 1]>>] /\ f[k - 1] \in SUBSET C
      BY <1>5, <3>1 DEF Recursive, V
    <3> QED
      BY <1>3, <2>2, <3>2
  <2> QED
    BY <2>1, <2>2
<1>7. f = [k \in 0 .. Depth |-> IF k = 0 THEN {} ELSE Away(f[k - 1])]
  BY <1>5, <1>6 DEF Recursive
<1>8. gone = [k \in 0 .. Depth |-> IF k = 0 THEN {} ELSE Away(gone[k - 1])]
  BY <1>7, Zenon DEF gone
<1>9. \A k \in 1 .. Depth : gone[k] = Away(gone[k - 1])
  <2> SUFFICES ASSUME NEW k \in 1 .. Depth PROVE gone[k] = Away(gone[k - 1])
    OBVIOUS
  <2>1. k \in 0 .. Depth /\ k # 0
    BY <1>2
  <2> QED
    BY <1>8, <2>1
<1>10. gone[0] = {}
  BY <1>2, <1>8
<1>11. \A S : Away(S) \in SUBSET C
  BY DEF Away
<1>12. ASSUME NEW k \in 0 .. Depth PROVE gone[k] \in SUBSET C
  <2>1. CASE k = 0
    BY <1>10, <2>1
  <2>2. CASE k # 0
    <3>1. k \in 1 .. Depth
      BY <1>2, <2>2
    <3> QED
      BY <1>9, <1>11, <3>1
  <2> QED
    BY <2>1, <2>2
<1>13. gone \in [0 .. Depth -> SUBSET C]
  <2> DEFINE X(k) == IF k = 0 THEN {} ELSE Away(gone[k - 1])
  <2>1. gone = [k \in 0 .. Depth |-> X(k)]
    BY <1>8
  <2> HIDE DEF X
  <2>2. DOMAIN gone = 0 .. Depth
    BY <2>1
  <2>3. \A k \in 0 .. Depth : X(k) \in SUBSET C
    BY <1>12, <2>1
  <2> QED
    BY <2>1, <2>3
<1> QED
  BY <1>1, <1>9, <1>10, <1>13 DEF SweepSteps, Away

\* What goes are candidates, and with each of them all that refers to it.
LEMMA SweptAway ==
    ASSUME NEW e, NEW C
    PROVE  \E gone \in SUBSET C :
              /\ \A n \in gone : Parents(e, n) \subseteq gone
              /\ Swept(e, C) = [n \in DOMAIN e \ gone |-> e[n]]
<1>1. PICK gone : SweepSteps(e, C, gone)
  BY SweepInSteps
<1>2. Depth = 7
  BY DEF Depth
<1>3. /\ gone \in [0 .. 7 -> SUBSET C] /\ gone[0] = {}
      /\ \A k \in 1 .. 7 : gone[k] = {n \in C : Parents(e, n) \subseteq gone[k - 1]}
      /\ Swept(e, C) = [n \in DOMAIN e \ gone[7] |-> e[n]]
  BY <1>1, <1>2 DEF SweepSteps
<1> DEFINE Good == {k \in 1 .. 7 : gone[k - 1] \subseteq gone[k]}
<1>4. 1 \in Good
  BY <1>3
<1>5. ASSUME NEW k \in 1 .. 7, k \in Good, k < 7 PROVE k + 1 \in Good
  <2>1. k + 1 \in 1 .. 7 /\ (k + 1) - 1 = k
    BY <1>5
  <2>2. /\ gone[k + 1] = {n \in C : Parents(e, n) \subseteq gone[k]}
        /\ gone[k] = {n \in C : Parents(e, n) \subseteq gone[k - 1]}
    BY <1>3, <2>1
  <2> QED
    BY <1>5, <2>1, <2>2
<1>6. 7 \in Good
  <2> HIDE DEF Good
  <2>1. \A k \in 1 .. 7 : k \in Good
    BY <1>4, <1>5, StepByStep
  <2> QED
    BY <2>1
<1>7. gone[6] \subseteq gone[7] /\ gone[7] = {n \in C : Parents(e, n) \subseteq gone[6]}
  BY <1>3, <1>6
<1>8. gone[7] \in SUBSET C /\ \A n \in gone[7] : Parents(e, n) \subseteq gone[7]
  BY <1>7
<1> QED
  BY <1>3, <1>8

\* A collection leaves a whole section whole, whatever its candidates are.
LEMMA SweptIsWhole ==
    ASSUME NEW e, Whole(e), NEW C
    PROVE  /\ Whole(Swept(e, C))
           /\ DOMAIN Swept(e, C) \subseteq DOMAIN e
           /\ \A n \in DOMAIN Swept(e, C) : Swept(e, C)[n] = e[n]
<1>1. PICK gone \in SUBSET C :
         /\ \A n \in gone : Parents(e, n) \subseteq gone
         /\ Swept(e, C) = [n \in DOMAIN e \ gone |-> e[n]]
  BY SweptAway
<1> DEFINE w == [n \in DOMAIN e \ gone |-> e[n]]
<1>2. DOMAIN w = DOMAIN e \ gone /\ \A n \in DOMAIN w : w[n] = e[n]
  OBVIOUS
<1> HIDE DEF w
<1>3. \A n \in DOMAIN w : \A m \in Refs(e[n]) : m \notin gone
  BY <1>1, <1>2 DEF Parents
<1>4. \A k : OfKind(w, k) = OfKind(e, k) \ gone
  BY <1>2 DEF OfKind
<1>5. IsFiniteSet(DOMAIN w) /\ DOMAIN w \subseteq Int
  BY <1>2, FS_Subset DEF Whole
<1>6. \A n \in DOMAIN w : DOMAIN w[n] = {"kind"} \cup Attributes(w[n].kind)
  BY <1>2 DEF Whole
<1>7. ASSUME NEW n \in OfKind(w, "edge")
      PROVE  w[n].ends \in [1 .. 2 -> OfKind(w, "vertex")]
  <2>1. n \in OfKind(e, "edge") /\ n \in DOMAIN w /\ w[n] = e[n] /\ e[n].kind = "edge"
    BY <1>2, <1>4 DEF OfKind
  <2>2. e[n].ends \in [1 .. 2 -> OfKind(e, "vertex")]
    BY <2>1 DEF Whole
  <2>3. Refs(e[n]) = ToSet(e[n].ends)
    BY <2>1, References
  <2>4. \A k \in 1 .. 2 : e[n].ends[k] \in Refs(e[n])
    BY <2>2, <2>3 DEF ToSet
  <2>5. \A k \in 1 .. 2 : e[n].ends[k] \in OfKind(w, "vertex")
    BY <1>3, <1>4, <2>1, <2>2, <2>4
  <2> QED
    BY <2>1, <2>2, <2>5
<1>8. ASSUME NEW n \in OfKind(w, "face")
      PROVE  /\ w[n].support \in OfKind(w, "plane") \cup OfKind(w, "cylinder")
             /\ w[n].loop \in Seq([edge : OfKind(w, "edge"), forward : BOOLEAN])
  <2>1. n \in OfKind(e, "face") /\ n \in DOMAIN w /\ w[n] = e[n] /\ e[n].kind = "face"
    BY <1>2, <1>4 DEF OfKind
  <2>2. /\ e[n].support \in OfKind(e, "plane") \cup OfKind(e, "cylinder")
        /\ e[n].loop \in Seq([edge : OfKind(e, "edge"), forward : BOOLEAN])
    BY <2>1 DEF Whole
  <2>3. Refs(e[n]) = {e[n].support} \cup {u.edge : u \in ToSet(e[n].loop)}
    BY <2>1, References
  <2>4. e[n].support \notin gone
    BY <1>3, <2>1, <2>3
  <2>5. ASSUME NEW k \in DOMAIN e[n].loop
        PROVE  e[n].loop[k] \in [edge : OfKind(w, "edge"), forward : BOOLEAN]
    <3>1. e[n].loop[k] \in [edge : OfKind(e, "edge"), forward : BOOLEAN]
      BY <2>2, SeqMember
    <3>2. e[n].loop[k].edge \in Refs(e[n])
      BY <2>3 DEF ToSet
    <3>3. e[n].loop[k].edge \in OfKind(w, "edge")
      BY <1>3, <1>4, <2>1, <3>1, <3>2
    <3> QED
      BY <3>1, <3>3
  <2>6. e[n].loop \in Seq([edge : OfKind(w, "edge"), forward : BOOLEAN])
    BY <2>2, <2>5, SeqInto
  <2> QED
    BY <1>4, <2>1, <2>2, <2>4, <2>6
<1>9. ASSUME NEW n \in OfKind(w, "shell") PROVE w[n].faces \subseteq OfKind(w, "face")
  <2>1. n \in OfKind(e, "shell") /\ n \in DOMAIN w /\ w[n] = e[n] /\ e[n].kind = "shell"
    BY <1>2, <1>4 DEF OfKind
  <2> QED
    BY <1>3, <1>4, <2>1, References DEF Whole
<1>10. ASSUME NEW n \in OfKind(w, "solid") PROVE w[n].shell \in OfKind(w, "shell")
  <2>1. n \in OfKind(e, "solid") /\ n \in DOMAIN w /\ w[n] = e[n] /\ e[n].kind = "solid"
    BY <1>2, <1>4 DEF OfKind
  <2> QED
    BY <1>3, <1>4, <2>1, References DEF Whole
<1>11. ASSUME NEW n \in OfKind(w, "style")
       PROVE  w[n].item \in OfKind(w, "solid") \cup OfKind(w, "face")
  <2>1. n \in OfKind(e, "style") /\ n \in DOMAIN w /\ w[n] = e[n] /\ e[n].kind = "style"
    BY <1>2, <1>4 DEF OfKind
  <2> QED
    BY <1>3, <1>4, <2>1, References DEF Whole
<1>12. ASSUME NEW n \in OfKind(w, "usage") PROVE w[n].item \in OfKind(w, "face")
  <2>1. n \in OfKind(e, "usage") /\ n \in DOMAIN w /\ w[n] = e[n] /\ e[n].kind = "usage"
    BY <1>2, <1>4 DEF OfKind
  <2> QED
    BY <1>3, <1>4, <2>1, References DEF Whole
<1>13. ASSUME NEW n \in OfKind(w, "representation")
       PROVE  w[n].items \subseteq OfKind(w, "solid")
  <2>1. /\ n \in OfKind(e, "representation") /\ n \in DOMAIN w /\ w[n] = e[n]
        /\ e[n].kind = "representation"
    BY <1>2, <1>4 DEF OfKind
  <2> QED
    BY <1>3, <1>4, <2>1, References DEF Whole
<1>14. ASSUME NEW n \in OfKind(w, "presentation") \cup OfKind(w, "layer")
       PROVE  w[n].items \subseteq OfKind(w, "style")
  <2>1. /\ n \in OfKind(e, "presentation") \cup OfKind(e, "layer") /\ n \in DOMAIN w
        /\ w[n] = e[n] /\ (e[n].kind = "presentation" \/ e[n].kind = "layer")
    BY <1>2, <1>4 DEF OfKind
  <2>2. Refs(e[n]) = e[n].items /\ e[n].items \subseteq OfKind(e, "style")
    BY <2>1, References DEF Whole
  <2> QED
    BY <1>3, <1>4, <2>1, <2>2
<1>15. Whole(w)
  BY <1>5, <1>6, <1>7, <1>8, <1>9, <1>10, <1>11, <1>12, <1>13, <1>14, Zenon DEF Whole
<1>16. Swept(e, C) = w
  BY <1>1 DEF w
<1> QED
  BY <1>2, <1>15, <1>16

\* A section stays whole if its entities keep their kinds, and lists at most get shorter.
LEMMA SameKinds ==
    ASSUME NEW e, Whole(e), NEW w, DOMAIN w = DOMAIN e,
           \A n \in DOMAIN e : w[n].kind = e[n].kind /\ DOMAIN w[n] = DOMAIN e[n],
           \A n \in OfKind(e, "edge") : w[n].ends \in [1 .. 2 -> OfKind(e, "vertex")],
           \A n \in OfKind(e, "face") :
              /\ w[n].support \in OfKind(e, "plane") \cup OfKind(e, "cylinder")
              /\ w[n].loop \in Seq([edge : OfKind(e, "edge"), forward : BOOLEAN]),
           \A n \in OfKind(e, "shell") : w[n].faces \subseteq e[n].faces,
           \A n \in OfKind(e, "solid") \cup OfKind(e, "style") \cup OfKind(e, "usage")
                    \cup OfKind(e, "representation") : w[n] = e[n],
           \A n \in OfKind(e, "presentation") \cup OfKind(e, "layer") :
              w[n].items \subseteq e[n].items
    PROVE  Whole(w)
<1>1. \A k : OfKind(w, k) = OfKind(e, k)
  BY DEF OfKind
<1>2. IsFiniteSet(DOMAIN w) /\ DOMAIN w \subseteq Int
  BY DEF Whole
<1>3. \A n \in DOMAIN w : DOMAIN w[n] = {"kind"} \cup Attributes(w[n].kind)
  BY DEF Whole
<1>4. \A n \in OfKind(w, "edge") : w[n].ends \in [1 .. 2 -> OfKind(w, "vertex")]
  BY <1>1
<1>5. \A n \in OfKind(w, "face") :
         /\ w[n].support \in OfKind(w, "plane") \cup OfKind(w, "cylinder")
         /\ w[n].loop \in Seq([edge : OfKind(w, "edge"), forward : BOOLEAN])
  <2>1. OfKind(w, "face") = OfKind(e, "face") /\ OfKind(w, "plane") = OfKind(e, "plane")
        /\ OfKind(w, "cylinder") = OfKind(e, "cylinder") /\ OfKind(w, "edge") = OfKind(e, "edge")
    BY <1>1
  <2> QED
    BY <2>1, Zenon
<1>6. \A n \in OfKind(w, "shell") : w[n].faces \subseteq OfKind(w, "face")
  <2>1. \A n \in OfKind(e, "shell") : e[n].faces \subseteq OfKind(e, "face")
    BY DEF Whole
  <2> QED
    BY <1>1, <2>1
<1>7. /\ \A n \in OfKind(w, "solid") : w[n].shell \in OfKind(w, "shell")
      /\ \A n \in OfKind(w, "style") : w[n].item \in OfKind(w, "solid") \cup OfKind(w, "face")
      /\ \A n \in OfKind(w, "usage") : w[n].item \in OfKind(w, "face")
      /\ \A n \in OfKind(w, "representation") : w[n].items \subseteq OfKind(w, "solid")
  BY <1>1 DEF Whole
<1>8. \A n \in OfKind(w, "presentation") \cup OfKind(w, "layer") :
         w[n].items \subseteq OfKind(w, "style")
  <2>1. \A n \in OfKind(e, "presentation") \cup OfKind(e, "layer") :
           e[n].items \subseteq OfKind(e, "style")
    BY DEF Whole
  <2> QED
    BY <1>1, <2>1
<1> QED
  BY <1>2, <1>3, <1>4, <1>5, <1>6, <1>7, <1>8, Zenon DEF Whole
-----------------------------------------------------------------------------
(* The classes of edges and vertices a weld unites.                        *)

EdgeOf(e, ps) == [n \in OfKind(e, "edge") |-> Root(EdgeLinks(e, ps), n)]
VertexOf(e, ps) == [v \in OfKind(e, "vertex") |-> Root(VertexLinks(e, ps), v)]

\* Plans made for e: the faces of the interfaces and those retained are faces of e.
PlansOn(e, ps) ==
    /\ \A i \in AllInterfaces(ps) : FacesOf(i) \subseteq OfKind(e, "face")
    /\ \A p \in ps : p.retained \subseteq OfKind(e, "face")

\* Of a whole section: the two ends of an edge, and the edges a loop uses.
LEMMA EndsAndUses ==
    ASSUME NEW e, Whole(e)
    PROVE  /\ \A n \in OfKind(e, "edge") :
                 /\ e[n].ends[1] \in OfKind(e, "vertex") /\ e[n].ends[2] \in OfKind(e, "vertex")
                 /\ ToSet(e[n].ends) = {e[n].ends[1], e[n].ends[2]}
                 /\ DOMAIN e[n].ends = {1, 2}
           /\ \A f \in OfKind(e, "face") : \A k \in DOMAIN e[f].loop :
                 /\ e[f].loop[k] \in [edge : OfKind(e, "edge"), forward : BOOLEAN]
                 /\ e[f].loop[k].edge \in EdgesOf(e, f)
           /\ \A f \in OfKind(e, "face") : EdgesOf(e, f) \subseteq OfKind(e, "edge")
<1>1. ASSUME NEW n \in OfKind(e, "edge")
      PROVE  /\ e[n].ends[1] \in OfKind(e, "vertex") /\ e[n].ends[2] \in OfKind(e, "vertex")
             /\ ToSet(e[n].ends) = {e[n].ends[1], e[n].ends[2]}
             /\ DOMAIN e[n].ends = {1, 2}
  <2>1. e[n].ends \in [1 .. 2 -> OfKind(e, "vertex")]
    BY DEF Whole
  <2>2. 1 .. 2 = {1, 2}
    OBVIOUS
  <2> QED
    BY <2>1, <2>2 DEF ToSet
<1>2. ASSUME NEW f \in OfKind(e, "face"), NEW k \in DOMAIN e[f].loop
      PROVE  e[f].loop[k] \in [edge : OfKind(e, "edge"), forward : BOOLEAN]
  <2>1. e[f].loop \in Seq([edge : OfKind(e, "edge"), forward : BOOLEAN])
    BY DEF Whole
  <2> QED
    BY <2>1, SeqMember
<1>3. \A f \in OfKind(e, "face") : \A k \in DOMAIN e[f].loop : e[f].loop[k].edge \in EdgesOf(e, f)
  BY DEF EdgesOf, Uses, ToSet
<1>4. \A f \in OfKind(e, "face") : EdgesOf(e, f) \subseteq OfKind(e, "edge")
  BY <1>2 DEF EdgesOf, Uses, ToSet
<1> QED
  BY <1>1, <1>2, <1>3, <1>4

\* The links of edges have equal keys, those of vertices are at one point.
LEMMA LinksAreAlike ==
    ASSUME NEW e, Whole(e), NEW ps, PlansOn(e, ps)
    PROVE  /\ \A l \in EdgeLinks(e, ps) :
                 /\ l \subseteq OfKind(e, "edge")
                 /\ l \subseteq UNION {EdgesOf(e, f) : f \in UNION {FacesOf(i) : i \in AllInterfaces(ps)}}
                 /\ \A m, n \in l : EdgeKey(e, m) = EdgeKey(e, n)
           /\ \A l \in VertexLinks(e, ps) :
                 l \subseteq OfKind(e, "vertex") /\ \A v, w \in l : e[v].at = e[w].at
           /\ IsFiniteSet(EdgeLinks(e, ps)) /\ IsFiniteSet(VertexLinks(e, ps))
<1> DEFINE Around(i) == UNION {EdgesOf(e, f) : f \in FacesOf(i)}
           Points(l) == UNION {ToSet(e[n].ends) : n \in l}
<1>1. ASSUME NEW l \in EdgeLinks(e, ps)
      PROVE  /\ l \subseteq OfKind(e, "edge")
             /\ l \subseteq UNION {EdgesOf(e, f) : f \in UNION {FacesOf(i) : i \in AllInterfaces(ps)}}
             /\ \A m, n \in l : EdgeKey(e, m) = EdgeKey(e, n)
  <2>1. PICK i \in AllInterfaces(ps) : \E n \in Around(i) :
           l = {y \in Around(i) : EdgeKey(e, y) = EdgeKey(e, n)}
    BY DEF EdgeLinks, Alike
  <2>2. Around(i) \subseteq OfKind(e, "edge")
    BY EndsAndUses DEF PlansOn
  <2>3. Around(i) \subseteq UNION {EdgesOf(e, f) : f \in UNION {FacesOf(j) : j \in AllInterfaces(ps)}}
    OBVIOUS
  <2> QED
    BY <2>1, <2>2, <2>3
<1>2. ASSUME NEW l \in VertexLinks(e, ps)
      PROVE  l \subseteq OfKind(e, "vertex") /\ \A v, w \in l : e[v].at = e[w].at
  <2>1. PICK m \in EdgeLinks(e, ps) : \E v \in Points(m) : l = {y \in Points(m) : e[y].at = e[v].at}
    BY DEF VertexLinks, Alike
  <2>2. Points(m) \subseteq OfKind(e, "vertex")
    BY <1>1, EndsAndUses
  <2> QED
    BY <2>1, <2>2
<1>3. \A k : IsFiniteSet(OfKind(e, k)) /\ IsFiniteSet(SUBSET OfKind(e, k))
  <2> SUFFICES ASSUME NEW k PROVE IsFiniteSet(OfKind(e, k)) /\ IsFiniteSet(SUBSET OfKind(e, k))
    OBVIOUS
  <2>1. OfKind(e, k) \in SUBSET DOMAIN e
    BY DEF OfKind
  <2>2. IsFiniteSet(OfKind(e, k))
    BY <2>1, FS_Subset DEF Whole
  <2> QED
    BY <2>2, FS_SUBSET
<1>4. EdgeLinks(e, ps) \in SUBSET SUBSET OfKind(e, "edge")
  BY <1>1
<1>5. VertexLinks(e, ps) \in SUBSET SUBSET OfKind(e, "vertex")
  BY <1>2
<1>6. IsFiniteSet(EdgeLinks(e, ps)) /\ IsFiniteSet(VertexLinks(e, ps))
  BY <1>3, <1>4, <1>5, FS_Subset
<1> QED
  BY <1>1, <1>2, <1>6

\* The root of a class is one of its members, and the class has one root.
LEMMA RootIsConnected ==
    ASSUME NEW D \in SUBSET Int, IsFiniteSet(D), NEW links \in SUBSET SUBSET D, NEW x \in D
    PROVE  Root(links, x) \in Connected(links, x) /\ Root(links, x) \in D
<1>1. IsFiniteSet(links)
  <2>1. IsFiniteSet(SUBSET D)
    BY FS_SUBSET
  <2> QED
    BY <2>1, FS_Subset
<1>2. x \in Connected(links, x)
  BY <1>1, ConnectedClosed
<1>3. Connected(links, x) \subseteq D
  <2>1. \A l \in links : l \cap D # {} => l \subseteq D
    OBVIOUS
  <2> QED
    BY <1>1, <2>1, ConnectedInside
<1>4. IsFiniteSet(Connected(links, x)) /\ Connected(links, x) \in SUBSET Int
  BY <1>3, FS_Subset
<1>5. Min(Connected(links, x)) \in Connected(links, x)
  BY <1>2, <1>4, Extremes
<1> QED
  BY <1>3, <1>5 DEF Root

\* An edge is replaced by one of its key, a vertex by one at its point.
LEMMA RootsAreAlike ==
    ASSUME NEW e, Whole(e), NEW ps, PlansOn(e, ps)
    PROVE  /\ \A n \in OfKind(e, "edge") :
                 /\ EdgeOf(e, ps)[n] \in OfKind(e, "edge")
                 /\ EdgeOf(e, ps)[n] \in Connected(EdgeLinks(e, ps), n)
                 /\ EdgeKey(e, EdgeOf(e, ps)[n]) = EdgeKey(e, n)
           /\ \A v \in OfKind(e, "vertex") :
                 /\ VertexOf(e, ps)[v] \in OfKind(e, "vertex")
                 /\ e[VertexOf(e, ps)[v]].at = e[v].at
<1> DEFINE EL == EdgeLinks(e, ps)
           VL == VertexLinks(e, ps)
<1>1. \A k : OfKind(e, k) \in SUBSET Int /\ IsFiniteSet(OfKind(e, k))
  <2> SUFFICES ASSUME NEW k PROVE OfKind(e, k) \in SUBSET Int /\ IsFiniteSet(OfKind(e, k))
    OBVIOUS
  <2>1. OfKind(e, k) \in SUBSET DOMAIN e
    BY DEF OfKind
  <2> QED
    BY <2>1, FS_Subset DEF Whole
<1>2. IsFiniteSet(EL) /\ IsFiniteSet(VL)
  BY LinksAreAlike
<1>3. EL \in SUBSET SUBSET OfKind(e, "edge") /\ VL \in SUBSET SUBSET OfKind(e, "vertex")
  BY LinksAreAlike
<1>4. ASSUME NEW n \in OfKind(e, "edge")
      PROVE  /\ EdgeOf(e, ps)[n] \in OfKind(e, "edge")
             /\ EdgeOf(e, ps)[n] \in Connected(EL, n)
             /\ EdgeKey(e, EdgeOf(e, ps)[n]) = EdgeKey(e, n)
  <2>1. EdgeOf(e, ps)[n] = Root(EL, n)
    BY DEF EdgeOf
  <2> DEFINE U == {m \in OfKind(e, "edge") : EdgeKey(e, m) = EdgeKey(e, n)}
  <2>2. n \in U /\ \A l \in EL : l \cap U # {} => l \subseteq U
    BY LinksAreAlike
  <2> HIDE DEF U, EL
  <2>3. Connected(EL, n) \subseteq U
    BY <1>2, <2>2, ConnectedInside
  <2>4. Root(EL, n) \in Connected(EL, n) /\ Root(EL, n) \in OfKind(e, "edge")
    BY <1>1, <1>3, RootIsConnected
  <2> QED
    BY <2>1, <2>3, <2>4 DEF U
<1>5. ASSUME NEW v \in OfKind(e, "vertex")
      PROVE  /\ VertexOf(e, ps)[v] \in OfKind(e, "vertex")
             /\ e[VertexOf(e, ps)[v]].at = e[v].at
  <2>1. VertexOf(e, ps)[v] = Root(VL, v)
    BY DEF VertexOf
  <2> DEFINE U == {w \in OfKind(e, "vertex") : e[w].at = e[v].at}
  <2>2. v \in U /\ \A l \in VL : l \cap U # {} => l \subseteq U
    BY LinksAreAlike
  <2> HIDE DEF U, VL
  <2>3. Connected(VL, v) \subseteq U
    BY <1>2, <2>2, ConnectedInside
  <2>4. Root(VL, v) \in Connected(VL, v) /\ Root(VL, v) \in OfKind(e, "vertex")
    BY <1>1, <1>3, RootIsConnected
  <2> QED
    BY <2>1, <2>3, <2>4 DEF U
<1> QED
  BY <1>4, <1>5
-----------------------------------------------------------------------------
(* Welding.                                                                *)

Retained(ps) == UNION {p.retained : p \in ps}

\* A use after welding: of its own edge, or of the one that stands for it.
UseOf(e, ps, u) ==
    IF EdgeOf(e, ps)[u.edge] = u.edge THEN u
    ELSE SameCourse(e, VertexOf(e, ps), u, EdgeOf(e, ps)[u.edge])

\* What welding writes, entity by entity.
LEMMA WeldedEntities ==
    ASSUME NEW e, Whole(e), NEW ps, PlansOn(e, ps)
    PROVE  /\ DOMAIN Welded(e, ps) = DOMAIN e
           /\ \A n \in OfKind(e, "edge") :
                 Welded(e, ps)[n] =
                     [e[n] EXCEPT !.ends = [k \in DOMAIN e[n].ends |-> VertexOf(e, ps)[e[n].ends[k]]]]
           /\ \A n \in Retained(ps) :
                 Welded(e, ps)[n] =
                     [e[n] EXCEPT !.loop = [k \in DOMAIN e[n].loop |-> UseOf(e, ps, e[n].loop[k])]]
           /\ \A n \in DOMAIN e : n \notin OfKind(e, "edge") /\ n \notin Retained(ps) =>
                 Welded(e, ps)[n] = e[n]
<1> DEFINE Use(u) == IF EdgeOf(e, ps)[u.edge] = u.edge THEN u
                     ELSE SameCourse(e, VertexOf(e, ps), u, EdgeOf(e, ps)[u.edge])
           W == [n \in DOMAIN e |->
                    CASE e[n].kind = "edge" ->
                            [e[n] EXCEPT !.ends = [k \in DOMAIN @ |-> VertexOf(e, ps)[@[k]]]]
                      [] n \in UNION {p.retained : p \in ps} ->
                            [e[n] EXCEPT !.loop = [k \in DOMAIN @ |-> Use(@[k])]]
                      [] OTHER -> e[n]]
<1>1. Welded(e, ps) = W
  BY DEF Welded, EdgeOf, VertexOf
<1>2. Retained(ps) \subseteq OfKind(e, "face")
  BY DEF PlansOn, Retained
<1>3. DOMAIN W = DOMAIN e
  OBVIOUS
<1>4. ASSUME NEW n \in OfKind(e, "edge")
      PROVE  W[n] = [e[n] EXCEPT !.ends = [k \in DOMAIN e[n].ends |-> VertexOf(e, ps)[e[n].ends[k]]]]
  <2>1. n \in DOMAIN e /\ e[n].kind = "edge"
    BY DEF OfKind
  <2>2. n \notin UNION {p.retained : p \in ps}
    BY <1>2, <2>1 DEF OfKind, Retained
  <2> HIDE DEF Use
  <2> QED
    BY <2>1, <2>2
<1>5. ASSUME NEW n \in Retained(ps)
      PROVE  W[n] = [e[n] EXCEPT !.loop = [k \in DOMAIN e[n].loop |-> UseOf(e, ps, e[n].loop[k])]]
  <2>1. n \in DOMAIN e /\ e[n].kind # "edge" /\ n \in UNION {p.retained : p \in ps}
    BY <1>2 DEF OfKind, Retained
  <2>2. W[n] = [e[n] EXCEPT !.loop = [k \in DOMAIN e[n].loop |-> Use(e[n].loop[k])]]
    <3> HIDE DEF Use
    <3> QED
      BY <2>1
  <2> QED
    BY <2>2 DEF UseOf
<1>6. ASSUME NEW n \in DOMAIN e, n \notin OfKind(e, "edge"), n \notin Retained(ps)
      PROVE  W[n] = e[n]
  <2>1. e[n].kind # "edge" /\ n \notin UNION {p.retained : p \in ps}
    BY <1>6 DEF OfKind, Retained
  <2> QED
    BY <2>1
<1> HIDE DEF W
<1> QED
  BY <1>1, <1>3, <1>4, <1>5, <1>6

\* Welding changes the ends of edges and the loops of retained faces, nothing else.
LEMMA WeldedFields ==
    ASSUME NEW e, Whole(e), NEW ps, PlansOn(e, ps)
    PROVE  /\ \A n \in DOMAIN e : Welded(e, ps)[n].kind = e[n].kind
                                  /\ DOMAIN Welded(e, ps)[n] = DOMAIN e[n]
           /\ \A k : OfKind(Welded(e, ps), k) = OfKind(e, k)
           /\ \A n \in OfKind(e, "edge") :
                 /\ Welded(e, ps)[n].ends = [k \in {1, 2} |-> VertexOf(e, ps)[e[n].ends[k]]]
                 /\ Welded(e, ps)[n].trace = e[n].trace
                 /\ Welded(e, ps)[n].turn = e[n].turn
           /\ \A n \in OfKind(e, "face") :
                 /\ Welded(e, ps)[n].support = e[n].support
                 /\ Welded(e, ps)[n].loop =
                       IF n \in Retained(ps)
                       THEN [k \in DOMAIN e[n].loop |-> UseOf(e, ps, e[n].loop[k])]
                       ELSE e[n].loop
           /\ \A n \in DOMAIN e : e[n].kind \notin {"edge", "face"} => Welded(e, ps)[n] = e[n]
<1> DEFINE W == Welded(e, ps)
<1>1. Retained(ps) \subseteq OfKind(e, "face")
  BY DEF PlansOn, Retained
<1>2. /\ DOMAIN W = DOMAIN e
      /\ \A n \in OfKind(e, "edge") :
            W[n] = [e[n] EXCEPT !.ends = [k \in DOMAIN e[n].ends |-> VertexOf(e, ps)[e[n].ends[k]]]]
      /\ \A n \in Retained(ps) :
            W[n] = [e[n] EXCEPT !.loop = [k \in DOMAIN e[n].loop |-> UseOf(e, ps, e[n].loop[k])]]
      /\ \A n \in DOMAIN e : n \notin OfKind(e, "edge") /\ n \notin Retained(ps) => W[n] = e[n]
  BY WeldedEntities
<1> HIDE DEF W
<1>3. ASSUME NEW n \in OfKind(e, "edge")
      PROVE  /\ DOMAIN W[n] = DOMAIN e[n] /\ W[n].kind = e[n].kind
             /\ W[n].ends = [k \in {1, 2} |-> VertexOf(e, ps)[e[n].ends[k]]]
             /\ W[n].trace = e[n].trace /\ W[n].turn = e[n].turn
  <2>1. e[n].kind = "edge" /\ n \in DOMAIN e
    BY DEF OfKind
  <2>2. DOMAIN e[n] = {"kind", "trace", "turn", "ends"}
    BY <2>1 DEF Whole, Attributes
  <2>3. DOMAIN e[n].ends = {1, 2}
    BY EndsAndUses
  <2> DEFINE x == [k \in DOMAIN e[n].ends |-> VertexOf(e, ps)[e[n].ends[k]]]
  <2>4. W[n] = [e[n] EXCEPT !.ends = x]
    BY <1>2
  <2>5. x = [k \in {1, 2} |-> VertexOf(e, ps)[e[n].ends[k]]]
    BY <2>3
  <2> HIDE DEF x
  <2>6. /\ DOMAIN W[n] = DOMAIN e[n] /\ W[n].kind = e[n].kind /\ W[n].ends = x
        /\ W[n].trace = e[n].trace /\ W[n].turn = e[n].turn
    BY <2>2, <2>4
  <2> QED
    BY <2>5, <2>6
<1>4. ASSUME NEW n \in OfKind(e, "face")
      PROVE  /\ DOMAIN W[n] = DOMAIN e[n] /\ W[n].kind = e[n].kind
             /\ W[n].support = e[n].support
             /\ W[n].loop = IF n \in Retained(ps)
                            THEN [k \in DOMAIN e[n].loop |-> UseOf(e, ps, e[n].loop[k])]
                            ELSE e[n].loop
  <2>1. e[n].kind = "face" /\ n \in DOMAIN e /\ n \notin OfKind(e, "edge")
    BY DEF OfKind
  <2>2. DOMAIN e[n] = {"kind", "support", "sense", "bound", "loop"}
    BY <2>1 DEF Whole, Attributes
  <2>3. CASE n \in Retained(ps)
    <3> DEFINE x == [k \in DOMAIN e[n].loop |-> UseOf(e, ps, e[n].loop[k])]
    <3>1. W[n] = [e[n] EXCEPT !.loop = x]
      BY <1>2, <2>3
    <3> HIDE DEF x
    <3>2. /\ DOMAIN W[n] = DOMAIN e[n] /\ W[n].kind = e[n].kind
          /\ W[n].support = e[n].support /\ W[n].loop = x
      BY <2>2, <3>1
    <3> QED
      BY <2>3, <3>2 DEF x
  <2>4. CASE n \notin Retained(ps)
    BY <1>2, <2>1, <2>4
  <2> QED
    BY <2>3, <2>4
<1>5. ASSUME NEW n \in DOMAIN e, e[n].kind \notin {"edge", "face"} PROVE W[n] = e[n]
  <2>1. n \notin OfKind(e, "edge") /\ n \notin Retained(ps)
    BY <1>1, <1>5 DEF OfKind
  <2> QED
    BY <1>2, <2>1
<1>6. \A n \in DOMAIN e : W[n].kind = e[n].kind /\ DOMAIN W[n] = DOMAIN e[n]
  <2> SUFFICES ASSUME NEW n \in DOMAIN e
               PROVE  W[n].kind = e[n].kind /\ DOMAIN W[n] = DOMAIN e[n]
    OBVIOUS
  <2>1. CASE e[n].kind = "edge"
    BY <1>3, <2>1 DEF OfKind
  <2>2. CASE e[n].kind = "face"
    BY <1>4, <2>2 DEF OfKind
  <2>3. CASE e[n].kind \notin {"edge", "face"}
    BY <1>5, <2>3
  <2> QED
    BY <2>1, <2>2, <2>3
<1>7. \A k : OfKind(W, k) = OfKind(e, k)
  BY <1>2, <1>6 DEF OfKind
<1>8. /\ \A n \in OfKind(e, "edge") :
            /\ W[n].ends = [k \in {1, 2} |-> VertexOf(e, ps)[e[n].ends[k]]]
            /\ W[n].trace = e[n].trace /\ W[n].turn = e[n].turn
      /\ \A n \in OfKind(e, "face") :
            /\ W[n].support = e[n].support
            /\ W[n].loop = IF n \in Retained(ps)
                           THEN [k \in DOMAIN e[n].loop |-> UseOf(e, ps, e[n].loop[k])]
                           ELSE e[n].loop
      /\ \A n \in DOMAIN e : e[n].kind \notin {"edge", "face"} => W[n] = e[n]
  BY <1>3, <1>4, <1>5
<1> QED
  BY <1>6, <1>7, <1>8 DEF W

\* Welded sections are whole.
LEMMA WeldedIsWhole ==
    ASSUME NEW e, Whole(e), NEW ps, PlansOn(e, ps)
    PROVE  Whole(Welded(e, ps))
<1> DEFINE W == Welded(e, ps)
<1>1. DOMAIN W = DOMAIN e
  BY WeldedEntities
<1>2. \A n \in DOMAIN e : W[n].kind = e[n].kind /\ DOMAIN W[n] = DOMAIN e[n]
  BY WeldedFields
<1>3. \A k : OfKind(W, k) = OfKind(e, k)
  BY WeldedFields
<1>4. ASSUME NEW n \in OfKind(e, "edge") PROVE W[n].ends \in [1 .. 2 -> OfKind(e, "vertex")]
  <2>1. W[n].ends = [k \in {1, 2} |-> VertexOf(e, ps)[e[n].ends[k]]]
    BY WeldedFields
  <2>2. \A k \in {1, 2} : VertexOf(e, ps)[e[n].ends[k]] \in OfKind(e, "vertex")
    BY EndsAndUses, RootsAreAlike
  <2>3. 1 .. 2 = {1, 2}
    OBVIOUS
  <2> QED
    BY <2>1, <2>2, <2>3
<1>5. ASSUME NEW n \in OfKind(e, "face")
      PROVE  /\ W[n].support \in OfKind(e, "plane") \cup OfKind(e, "cylinder")
             /\ W[n].loop \in Seq([edge : OfKind(e, "edge"), forward : BOOLEAN])
  <2> DEFINE A == [edge : OfKind(e, "edge"), forward : BOOLEAN]
  <2>1. e[n].support \in OfKind(e, "plane") \cup OfKind(e, "cylinder") /\ e[n].loop \in Seq(A)
    BY DEF Whole
  <2>2. \A k \in DOMAIN e[n].loop : e[n].loop[k] \in A
    BY EndsAndUses
  <2>3. \A u \in A : UseOf(e, ps, u) \in A
    <3> SUFFICES ASSUME NEW u \in A PROVE UseOf(e, ps, u) \in A
      OBVIOUS
    <3>1. CASE EdgeOf(e, ps)[u.edge] = u.edge
      BY <3>1 DEF UseOf
    <3>2. CASE EdgeOf(e, ps)[u.edge] # u.edge
      <4>1. EdgeOf(e, ps)[u.edge] \in OfKind(e, "edge")
        BY RootsAreAlike
      <4> QED
        BY <3>2, <4>1 DEF UseOf, SameCourse
    <3> QED
      BY <3>1, <3>2
  <2>4. [k \in DOMAIN e[n].loop |-> UseOf(e, ps, e[n].loop[k])] \in Seq(A)
    <3> DEFINE l == e[n].loop
    <3>1. l \in Seq(A) /\ \A k \in DOMAIN l : UseOf(e, ps, l[k]) \in A
      BY <2>1, <2>2, <2>3
    <3> HIDE DEF l, A
    <3>2. [k \in DOMAIN l |-> UseOf(e, ps, l[k])] \in Seq(A)
      BY <3>1
    <3> QED
      BY <3>2 DEF l
  <2>5. /\ W[n].support = e[n].support
        /\ n \in Retained(ps) =>
              W[n].loop = [k \in DOMAIN e[n].loop |-> UseOf(e, ps, e[n].loop[k])]
        /\ n \notin Retained(ps) => W[n].loop = e[n].loop
    BY WeldedFields
  <2>6. W[n].loop \in Seq(A)
    <3> HIDE DEF A, W
    <3>1. CASE n \in Retained(ps)
      BY <2>4, <2>5, <3>1
    <3>2. CASE n \notin Retained(ps)
      BY <2>1, <2>5, <3>2
    <3> QED
      BY <3>1, <3>2
  <2> QED
    BY <2>1, <2>5, <2>6
<1>6. \A n \in DOMAIN e : e[n].kind \notin {"edge", "face"} => W[n] = e[n]
  BY WeldedFields
<1> HIDE DEF W
<1>7. \A k : k \notin {"edge", "face"} => \A n \in OfKind(e, k) : W[n] = e[n]
  BY <1>6 DEF OfKind
<1>8. /\ \A n \in OfKind(e, "shell") : W[n] = e[n]
      /\ \A n \in OfKind(e, "solid") \cup OfKind(e, "style") \cup OfKind(e, "usage")
               \cup OfKind(e, "representation") : W[n] = e[n]
      /\ \A n \in OfKind(e, "presentation") \cup OfKind(e, "layer") : W[n] = e[n]
  BY <1>7
<1>9. Whole(W)
  BY <1>1, <1>2, <1>4, <1>5, <1>8, SameKinds
<1> QED
  BY <1>9 DEF W
-----------------------------------------------------------------------------
(* Welding keeps the bounds.                                               *)

Around(e, ps) == UNION {EdgesOf(e, f) : f \in UNION {FacesOf(i) : i \in AllInterfaces(ps)}}

\* Where a use leads, with what is at its ends: the elements of a path.
Trip(e, u) == <<e[u.edge].trace, e[Start(e, u)].at, e[End(e, u)].at,
                Start(e, u) = End(e, u) /\ u.forward = e[u.edge].turn>>

\* The first and the second end of a use, by its flag.
LEMMA Courses ==
    ASSUME NEW e, NEW n, NEW V, e[n].ends \in [1 .. 2 -> V], NEW u, u.edge = n
    PROVE  /\ Course(e, u)[1] = IF u.forward THEN e[n].ends[1] ELSE e[n].ends[2]
           /\ Course(e, u)[2] = IF u.forward THEN e[n].ends[2] ELSE e[n].ends[1]
           /\ DOMAIN Course(e, u) = {1, 2}
<1> DEFINE s == e[n].ends
<1>0. s \in [1 .. 2 -> V]
  OBVIOUS
<1> HIDE DEF s
<1>1. Len(s) = 2 /\ DOMAIN s = 1 .. 2
  <2>1. DOMAIN s = 1 .. 2 /\ s = [k \in 1 .. 2 |-> s[k]]
    BY <1>0
  <2>2. Len([k \in 1 .. 2 |-> s[k]]) = 2
    OBVIOUS
  <2> QED
    BY <2>1, <2>2
<1>2. 1 .. 2 = {1, 2}
  OBVIOUS
<1>3. Reverse(s) = [i \in 1 .. 2 |-> s[(2 - i) + 1]]
  BY <1>1 DEF Reverse
<1>4. Reverse(s)[1] = s[2] /\ Reverse(s)[2] = s[1] /\ DOMAIN Reverse(s) = {1, 2}
  BY <1>2, <1>3
<1>5. Course(e, u) = IF u.forward THEN s ELSE Reverse(s)
  BY DEF Course, s
<1> QED
  BY <1>1, <1>2, <1>4, <1>5 DEF s

\* The ends of united edges are united where they meet.
LEMMA EndsMeet ==
    ASSUME NEW e, Whole(e), NEW ps, PlansOn(e, ps), Told(e, Around(e, ps)),
           NEW n \in OfKind(e, "edge"), NEW m \in Connected(EdgeLinks(e, ps), n),
           NEW v \in ToSet(e[m].ends), NEW w \in ToSet(e[n].ends), e[v].at = e[w].at
    PROVE  VertexOf(e, ps)[v] = VertexOf(e, ps)[w]
<1> DEFINE EL == EdgeLinks(e, ps)
           VL == VertexLinks(e, ps)
           Points(l) == UNION {ToSet(e[x].ends) : x \in l}
           U == {x \in OfKind(e, "edge") :
                    \A a \in ToSet(e[x].ends) : \A b \in ToSet(e[n].ends) :
                        e[a].at = e[b].at => Connected(VL, a) = Connected(VL, b)}
<1>1. IsFiniteSet(EL) /\ IsFiniteSet(VL)
  BY LinksAreAlike
<1>2. n \in U
  <2>1. ToSet(e[n].ends) = {e[n].ends[1], e[n].ends[2]}
    BY EndsAndUses
  <2>2. e[n].ends[1] # e[n].ends[2] => e[e[n].ends[1]].at # e[e[n].ends[2]].at
    BY DEF Told
  <2>3. \A a, b \in ToSet(e[n].ends) : e[a].at = e[b].at => a = b
    BY <2>1, <2>2
  <2> QED
    BY <2>3
<1>3. ASSUME NEW l \in EL, l \cap U # {} PROVE l \subseteq U
  <2>1. l \subseteq OfKind(e, "edge") /\ \A x, y \in l : EdgeKey(e, x) = EdgeKey(e, y)
    BY LinksAreAlike
  <2>2. PICK x \in l : x \in U
    BY <1>3
  <2>3. ASSUME NEW y \in l, NEW a \in ToSet(e[y].ends), NEW b \in ToSet(e[n].ends),
               e[a].at = e[b].at
        PROVE  Connected(VL, a) = Connected(VL, b)
    <3>1. {e[c].at : c \in ToSet(e[x].ends)} = {e[c].at : c \in ToSet(e[y].ends)}
      BY <2>1 DEF EdgeKey
    <3>2. PICK c \in ToSet(e[x].ends) : e[c].at = e[a].at
      BY <3>1
    <3>3. Connected(VL, c) = Connected(VL, b)
      BY <2>2, <2>3, <3>2
    <3> DEFINE k == {p \in Points(l) : e[p].at = e[a].at}
    <3>4. a \in Points(l) /\ c \in Points(l)
      OBVIOUS
    <3>5. k \in Alike(Points(l), LAMBDA p : e[p].at)
      BY <3>4 DEF Alike
    <3>6. k \in VL
      BY <3>5 DEF VertexLinks
    <3>7. a \in k /\ c \in k
      BY <3>2, <3>4
    <3> HIDE DEF k, VL
    <3>8. a \in Connected(VL, c)
      BY <1>1, <3>6, <3>7, ConnectedClosed
    <3> QED
      BY <1>1, <3>3, <3>8, ConnectedAlike
  <2> QED
    BY <2>1, <2>3
<1>4. Connected(EL, n) \subseteq U
  <2> HIDE DEF U, EL
  <2> QED
    BY <1>1, <1>2, <1>3, ConnectedInside
<1>5. Connected(VL, v) = Connected(VL, w)
  BY <1>4
<1>6. v \in OfKind(e, "vertex") /\ w \in OfKind(e, "vertex")
  <2>1. m \in OfKind(e, "edge")
    BY <1>4
  <2> QED
    BY <2>1, EndsAndUses
<1> QED
  BY <1>5, <1>6 DEF VertexOf, Root

\* Where an edge gives way to another, both are around an interface.
LEMMA ReplacedAround ==
    ASSUME NEW e, Whole(e), NEW ps, PlansOn(e, ps), NEW n \in OfKind(e, "edge"),
           EdgeOf(e, ps)[n] # n
    PROVE  n \in Around(e, ps) /\ EdgeOf(e, ps)[n] \in Around(e, ps)
<1> DEFINE EL == EdgeLinks(e, ps)
           c == EdgeOf(e, ps)[n]
<1>1. IsFiniteSet(EL) /\ \A l \in EL : l \subseteq Around(e, ps)
  BY LinksAreAlike DEF Around
<1>2. c \in Connected(EL, n)
  BY RootsAreAlike
<1> HIDE DEF EL, c
<1>3. n \in UNION EL
  <2> SUFFICES ASSUME n \notin UNION EL PROVE FALSE
    OBVIOUS
  <2>1. n \in {n} /\ \A l \in EL : l \cap {n} # {} => l \subseteq {n}
    OBVIOUS
  <2>2. Connected(EL, n) \subseteq {n}
    BY <1>1, <2>1, ConnectedInside
  <2> QED
    BY <1>2, <2>2 DEF c
<1>4. c \in UNION EL
  <2> DEFINE U == UNION EL
  <2>1. n \in U /\ \A l \in EL : l \cap U # {} => l \subseteq U
    BY <1>3
  <2> HIDE DEF U
  <2>2. Connected(EL, n) \subseteq U
    BY <1>1, <2>1, ConnectedInside
  <2> QED
    BY <1>2, <2>2 DEF U
<1> QED
  BY <1>1, <1>3, <1>4 DEF c

\* A use of an edge that stays leads where it led: its ends are where they were, and it
\* is closed if it was.
LEMMA TripKept ==
    ASSUME NEW e, Whole(e), NEW ps, PlansOn(e, ps), Told(e, Around(e, ps)),
           NEW u, u.edge \in OfKind(e, "edge")
    PROVE  Trip(Welded(e, ps), u) = Trip(e, u)
<1> DEFINE W == Welded(e, ps)
           V == VertexOf(e, ps)
           n == u.edge
           P == OfKind(e, "vertex")
           a == Start(e, u)
           b == End(e, u)
<1>1. e[n].ends \in [1 .. 2 -> P] /\ e[n].ends[1] \in P /\ e[n].ends[2] \in P
  BY EndsAndUses DEF Whole
<1>2. \A v \in P : V[v] \in P /\ e[V[v]].at = e[v].at
  BY RootsAreAlike
<1>3. \A v \in P : W[v].at = e[v].at
  <2>1. \A v \in P : v \in DOMAIN e /\ e[v].kind \notin {"edge", "face"}
    BY DEF OfKind
  <2> QED
    BY <2>1, WeldedFields
<1>4. /\ W[n].ends = [k \in {1, 2} |-> V[e[n].ends[k]]]
      /\ W[n].trace = e[n].trace /\ W[n].turn = e[n].turn
  BY WeldedFields
<1>5. a = IF u.forward THEN e[n].ends[1] ELSE e[n].ends[2]
  BY <1>1, Courses DEF Start
<1>6. b = IF u.forward THEN e[n].ends[2] ELSE e[n].ends[1]
  BY <1>1, Courses DEF End
<1> HIDE DEF W, V, P, a, b
<1>7. W[n].ends \in [1 .. 2 -> P]
  <2>1. 1 .. 2 = {1, 2}
    OBVIOUS
  <2> QED
    BY <1>1, <1>2, <1>4, <2>1
<1>8. Start(W, u) = V[a] /\ End(W, u) = V[b]
  <2>1. Start(W, u) = IF u.forward THEN W[n].ends[1] ELSE W[n].ends[2]
    BY <1>7, Courses DEF Start
  <2>2. End(W, u) = IF u.forward THEN W[n].ends[2] ELSE W[n].ends[1]
    BY <1>7, Courses DEF End
  <2> QED
    BY <1>4, <1>5, <1>6, <2>1, <2>2
<1>9. a \in P /\ b \in P
  BY <1>1, <1>5, <1>6
<1>10. W[V[a]].at = e[a].at /\ W[V[b]].at = e[b].at
  BY <1>2, <1>3, <1>9
<1>11. (V[a] = V[b]) = (a = b)
  <2>1. e[n].ends[1] # e[n].ends[2] => e[e[n].ends[1]].at # e[e[n].ends[2]].at
    BY DEF Told
  <2>2. a # b => e[a].at # e[b].at
    BY <1>5, <1>6, <2>1
  <2>3. a # b => V[a] # V[b]
    BY <1>2, <1>9, <2>2
  <2> QED
    BY <2>3
<1>12. Trip(W, u) = <<e[n].trace, e[a].at, e[b].at, (V[a] = V[b]) /\ u.forward = e[n].turn>>
  BY <1>4, <1>8, <1>10, Zenon DEF Trip
<1>13. Trip(e, u) = <<e[n].trace, e[a].at, e[b].at, (a = b) /\ u.forward = e[n].turn>>
  BY Zenon DEF Trip, a, b
<1> QED
  BY <1>11, <1>12, <1>13 DEF W

\* A use of an edge that gives way leads where it led, on the edge that stays.
LEMMA TripReplaced ==
    ASSUME NEW e, Whole(e), NEW ps, PlansOn(e, ps), Told(e, Around(e, ps)),
           NEW u, u.edge \in OfKind(e, "edge"), EdgeOf(e, ps)[u.edge] # u.edge
    PROVE  Trip(Welded(e, ps), UseOf(e, ps, u)) = Trip(e, u)
<1> DEFINE W == Welded(e, ps)
           V == VertexOf(e, ps)
           n == u.edge
           P == OfKind(e, "vertex")
           a == Start(e, u)
           b == End(e, u)
           c == EdgeOf(e, ps)[n]
           x == UseOf(e, ps, u)
           c1 == e[c].ends[1]
           c2 == e[c].ends[2]
<1>1. e[n].ends \in [1 .. 2 -> P] /\ e[n].ends[1] \in P /\ e[n].ends[2] \in P
  BY EndsAndUses DEF Whole
<1>2. c \in OfKind(e, "edge") /\ c \in Connected(EdgeLinks(e, ps), n)
      /\ EdgeKey(e, c) = EdgeKey(e, n)
  BY RootsAreAlike
<1>3. e[c].ends \in [1 .. 2 -> P] /\ c1 \in P /\ c2 \in P
  BY <1>2, EndsAndUses DEF Whole
<1>4. \A v \in P : V[v] \in P /\ e[V[v]].at = e[v].at
  BY RootsAreAlike
<1>5. \A v \in P : W[v].at = e[v].at
  <2>1. \A v \in P : v \in DOMAIN e /\ e[v].kind \notin {"edge", "face"}
    BY DEF OfKind
  <2> QED
    BY <2>1, WeldedFields
<1>6. W[c].ends = [k \in {1, 2} |-> V[e[c].ends[k]]] /\ W[c].trace = e[c].trace
  <2>1. \A m \in OfKind(e, "edge") :
           /\ W[m].ends = [k \in {1, 2} |-> V[e[m].ends[k]]]
           /\ W[m].trace = e[m].trace
    BY WeldedFields
  <2> HIDE DEF W, V, c
  <2> QED
    BY <1>2, <2>1
<1>7. n \in Around(e, ps) /\ c \in Around(e, ps)
  BY ReplacedAround
<1>8. e[c].trace = e[n].trace /\ e[n].ends[1] # e[n].ends[2] /\ c1 # c2
  BY <1>2, <1>7 DEF Told
<1>9. e[e[n].ends[1]].at # e[e[n].ends[2]].at /\ e[c1].at # e[c2].at
  BY <1>2, <1>8 DEF Told
<1>10. a = IF u.forward THEN e[n].ends[1] ELSE e[n].ends[2]
  BY <1>1, Courses DEF Start
<1>11. b = IF u.forward THEN e[n].ends[2] ELSE e[n].ends[1]
  BY <1>1, Courses DEF End
<1>12. Course(e, u)[1] = a /\ Course(e, u)[2] = b /\ DOMAIN Course(e, u) = {1, 2}
  BY <1>1, Courses DEF Start, End
<1>13. ToSet(e[n].ends) = {a, b} /\ ToSet(e[c].ends) = {c1, c2} /\ DOMAIN e[c].ends = {1, 2}
  <2>1. \A m \in OfKind(e, "edge") :
           ToSet(e[m].ends) = {e[m].ends[1], e[m].ends[2]} /\ DOMAIN e[m].ends = {1, 2}
    BY EndsAndUses
  <2> HIDE DEF c, n, a, b
  <2>2. ToSet(e[n].ends) = {a, b}
    <3>1. ToSet(e[n].ends) = {e[n].ends[1], e[n].ends[2]}
      BY <2>1 DEF n
    <3> QED
      BY <1>10, <1>11, <3>1
  <2> QED
    BY <1>2, <2>1, <2>2
<1>14. {e[a].at, e[b].at} = {e[c1].at, e[c2].at}
  <2>1. {e[v].at : v \in ToSet(e[n].ends)} = {e[v].at : v \in ToSet(e[c].ends)}
    BY <1>2 DEF EdgeKey
  <2> QED
    BY <1>13, <2>1
<1>15. \A v \in {c1, c2} : \A w \in {a, b} : e[v].at = e[w].at => V[v] = V[w]
  BY <1>2, <1>13, EndsMeet
<1>16. /\ x.edge = c
       /\ x.forward = ([k \in DOMAIN Course(e, u) |-> V[Course(e, u)[k]]]
                          = [k \in DOMAIN e[c].ends |-> V[e[c].ends[k]]])
  BY DEF UseOf, SameCourse
<1> HIDE DEF W, V, P, a, b, c, x, c1, c2
<1>17. x.forward = (V[a] = V[c1] /\ V[b] = V[c2])
  <2> DEFINE f == [k \in {1, 2} |-> V[Course(e, u)[k]]]
             g == [k \in {1, 2} |-> V[e[c].ends[k]]]
  <2>1. x.forward = (f = g)
    BY <1>12, <1>13, <1>16, Zenon
  <2>2. f[1] = V[a] /\ f[2] = V[b] /\ g[1] = V[c1] /\ g[2] = V[c2]
    BY <1>12 DEF c1, c2
  <2>3. f = g <=> f[1] = g[1] /\ f[2] = g[2]
    OBVIOUS
  <2> HIDE DEF f, g
  <2>4. (f = g) = (V[a] = V[c1] /\ V[b] = V[c2])
    BY <2>2, <2>3
  <2> QED
    BY <2>1, <2>4
<1>18. W[c].ends \in [1 .. 2 -> P] /\ W[c].ends[1] = V[c1] /\ W[c].ends[2] = V[c2]
  <2>1. 1 .. 2 = {1, 2}
    OBVIOUS
  <2> QED
    BY <1>3, <1>4, <1>6, <2>1 DEF c1, c2
<1>19. /\ Start(W, x) = IF x.forward THEN V[c1] ELSE V[c2]
       /\ End(W, x) = IF x.forward THEN V[c2] ELSE V[c1]
  BY <1>16, <1>18, Courses DEF Start, End
<1>20. W[V[c1]].at = e[c1].at /\ W[V[c2]].at = e[c2].at /\ V[c1] # V[c2]
  BY <1>3, <1>4, <1>5, <1>9
<1>21. e[a].at # e[b].at /\ a # b
  BY <1>9, <1>10, <1>11
<1>22. W[Start(W, x)].at = e[a].at /\ W[End(W, x)].at = e[b].at /\ Start(W, x) # End(W, x)
  <2>1. CASE x.forward
    <3>1. V[a] = V[c1] /\ V[b] = V[c2]
      BY <1>17, <2>1
    <3>2. a \in P /\ b \in P
      BY <1>1, <1>10, <1>11
    <3>3. e[c1].at = e[a].at /\ e[c2].at = e[b].at
      BY <1>3, <1>4, <3>1, <3>2
    <3> QED
      BY <1>19, <1>20, <2>1, <3>3
  <2>2. CASE ~ x.forward
    <3>1. ~ (V[a] = V[c1] /\ V[b] = V[c2])
      BY <1>17, <2>2
    <3>2. ~ (e[a].at = e[c1].at /\ e[b].at = e[c2].at)
      BY <1>15, <3>1
    <3>3. e[a].at = e[c2].at /\ e[b].at = e[c1].at
      BY <1>14, <1>21, <3>2
    <3> QED
      BY <1>19, <1>20, <2>2, <3>3
  <2>3. x.forward \in BOOLEAN
    BY <1>17
  <2> QED
    BY <2>1, <2>2, <2>3
<1>23. Trip(W, x) = <<e[n].trace, e[a].at, e[b].at, FALSE>>
  <2>1. W[x.edge].trace = e[n].trace
    BY <1>6, <1>8, <1>16
  <2>2. (Start(W, x) = End(W, x) /\ x.forward = W[x.edge].turn) = FALSE
    BY <1>22
  <2> QED
    BY <1>22, <2>1, <2>2, Zenon DEF Trip
<1>24. Trip(e, u) = <<e[n].trace, e[a].at, e[b].at, FALSE>>
  <2>1. (a = b /\ u.forward = e[n].turn) = FALSE
    BY <1>21
  <2> QED
    BY <2>1, Zenon DEF Trip, a, b
<1> QED
  BY <1>23, <1>24 DEF W, x

\* No bound moves: the loops of retained faces lead along the edges that stay, all others
\* along their own.
LEMMA WeldedPaths ==
    ASSUME NEW e, Whole(e), NEW ps, PlansOn(e, ps), Told(e, Around(e, ps)),
           NEW f \in OfKind(e, "face")
    PROVE  Path(Welded(e, ps), f) = Path(e, f)
<1> DEFINE W == Welded(e, ps)
<1>1. Path(e, f) = [k \in DOMAIN e[f].loop |-> Trip(e, e[f].loop[k])]
  BY DEF Path, Trip
<1>2. Path(W, f) = [k \in DOMAIN W[f].loop |-> Trip(W, W[f].loop[k])]
  BY DEF Path, Trip
<1>3. \A k \in DOMAIN e[f].loop : e[f].loop[k].edge \in OfKind(e, "edge")
  BY EndsAndUses
<1>4. W[f].loop = IF f \in Retained(ps)
                  THEN [k \in DOMAIN e[f].loop |-> UseOf(e, ps, e[f].loop[k])]
                  ELSE e[f].loop
  BY WeldedFields
<1>5. DOMAIN W[f].loop = DOMAIN e[f].loop
  BY <1>4
<1>6. ASSUME NEW k \in DOMAIN e[f].loop PROVE Trip(W, W[f].loop[k]) = Trip(e, e[f].loop[k])
  <2> DEFINE u == e[f].loop[k]
  <2>1. u.edge \in OfKind(e, "edge")
    BY <1>3
  <2>2. W[f].loop[k] = IF f \in Retained(ps) THEN UseOf(e, ps, u) ELSE u
    BY <1>4
  <2>3. W[f].loop[k] = u \/ (W[f].loop[k] = UseOf(e, ps, u) /\ EdgeOf(e, ps)[u.edge] # u.edge)
    BY <2>2 DEF UseOf
  <2> HIDE DEF u
  <2>4. CASE W[f].loop[k] = u
    BY <2>1, <2>4, TripKept DEF u
  <2>5. CASE W[f].loop[k] = UseOf(e, ps, u) /\ EdgeOf(e, ps)[u.edge] # u.edge
    BY <2>1, <2>5, TripReplaced DEF u
  <2> QED
    BY <2>3, <2>4, <2>5
<1> HIDE DEF W
<1>7. Path(W, f) = Path(e, f)
  BY <1>1, <1>2, <1>5, <1>6
<1> QED
  BY <1>7 DEF W
-----------------------------------------------------------------------------
(* The plans of a partition.                                               *)

\* Plans that can be carried out: there are finitely many, and each has solids.
Fitting(e, ps) ==
    /\ PlansOn(e, ps) /\ IsFiniteSet(ps)
    /\ \A p \in ps : p.solids # {} /\ p.solids \subseteq OfKind(e, "solid")

\* The ids of a kind are finitely many numbers.
LEMMA KindsAreFinite ==
    ASSUME NEW e, Whole(e), NEW kind
    PROVE  OfKind(e, kind) \in SUBSET Int /\ IsFiniteSet(OfKind(e, kind))
<1>1. OfKind(e, kind) \in SUBSET DOMAIN e
  BY DEF OfKind
<1> QED
  BY <1>1, FS_Subset DEF Whole

\* The components of links are classes of what the links hold.
LEMMA ComponentsInside ==
    ASSUME NEW U, NEW links \in SUBSET SUBSET U, IsFiniteSet(links), NEW c \in Components(links)
    PROVE  c # {} /\ c \subseteq U
<1>1. PICK x \in UNION links : c = Connected(links, x)
  BY DEF Components
<1>2. x \in U /\ \A l \in links : l \cap U # {} => l \subseteq U
  OBVIOUS
<1>3. Connected(links, x) \subseteq U
  BY <1>2, ConnectedInside
<1>4. x \in Connected(links, x)
  BY ConnectedClosed
<1> QED
  BY <1>1, <1>3, <1>4

\* Over finitely many things there are finitely many links and components.
LEMMA ComponentsAreFinite ==
    ASSUME NEW U, IsFiniteSet(U), NEW links \in SUBSET SUBSET U
    PROVE  IsFiniteSet(links) /\ IsFiniteSet(Components(links))
<1>1. IsFiniteSet(SUBSET U)
  BY FS_SUBSET
<1>2. IsFiniteSet(links)
  BY <1>1, FS_Subset
<1>3. Components(links) \in SUBSET SUBSET U
  BY <1>2, ComponentsInside
<1> QED
  BY <1>1, <1>2, <1>3, FS_Subset

\* Interfaces are made of faces of solids.
LEMMA InterfacesInside ==
    ASSUME NEW e, Whole(e), NEW i \in Interfaces(e)
    PROVE  SolidsOf(i) \subseteq OfKind(e, "solid") /\ FacesOf(i) \subseteq OfKind(e, "face")
<1> DEFINE key == [c \in Neutral(e) |-> FaceKey(e, c[2])]
           bucket == [c \in Neutral(e) |-> {d \in Neutral(e) : key[d] = key[c]}]
<1>1. i \in Range(bucket)
  BY DEF Interfaces
<1>2. i \subseteq Neutral(e)
  BY <1>1 DEF Range
<1> HIDE DEF bucket
<1>3. \A c \in i : c[1] \in OfKind(e, "solid") /\ c[2] \in OfKind(e, "face")
  BY <1>2 DEF Neutral
<1> QED
  BY <1>3 DEF SolidsOf, FacesOf

\* The plans of a whole section can be carried out.
LEMMA PlansFit ==
    ASSUME NEW e, Whole(e)
    PROVE  Fitting(e, PartitionPlans(e))
<1> DEFINE found == Interfaces(e)
           links == {SolidsOf(i) : i \in found}
           mine(c) == {i \in found : SolidsOf(i) \subseteq c}
           plan(c) == [solids |-> c, interfaces |-> mine(c),
                       retained |-> UNION {e[e[n].shell].faces : n \in c}
                                    \ UNION {FacesOf(i) : i \in mine(c)}]
           made == {plan(c) : c \in Components(links)}
<1>1. PartitionPlans(e) \subseteq made
  BY DEF PartitionPlans
<1>2. links \in SUBSET SUBSET OfKind(e, "solid")
  BY InterfacesInside
<1>3. IsFiniteSet(links) /\ IsFiniteSet(Components(links))
  <2> HIDE DEF links
  <2> QED
    BY <1>2, KindsAreFinite, ComponentsAreFinite
<1>4. \A c \in Components(links) : c # {} /\ c \subseteq OfKind(e, "solid")
  <2> HIDE DEF links
  <2> QED
    BY <1>2, <1>3, ComponentsInside
<1>5. IsFiniteSet(made)
  <2> DEFINE f == [c \in Components(links) |-> plan(c)]
  <2>1. f \in Surjection(Components(links), made)
    <3> HIDE DEF links, plan
    <3> QED
      BY DEF Surjection
  <2> HIDE DEF f, links, plan, made
  <2> QED
    BY <1>3, <2>1, FS_Surjection
<1>6. ASSUME NEW p \in made
      PROVE  /\ p.solids # {} /\ p.solids \subseteq OfKind(e, "solid")
             /\ p.interfaces \subseteq found
             /\ p.retained \subseteq OfKind(e, "face")
  <2>1. PICK c \in Components(links) : p = plan(c)
    OBVIOUS
  <2>2. c # {} /\ c \subseteq OfKind(e, "solid")
    BY <1>4
  <2>3. \A n \in c : e[e[n].shell].faces \subseteq OfKind(e, "face")
    BY <2>2 DEF Whole
  <2> HIDE DEF links, found
  <2>4. p.solids = c /\ p.interfaces = mine(c)
        /\ p.retained \subseteq UNION {e[e[n].shell].faces : n \in c}
    BY <2>1
  <2> QED
    BY <2>2, <2>3, <2>4
<1> HIDE DEF made, found
<1>7. \A i \in AllInterfaces(PartitionPlans(e)) : i \in found
  BY <1>1, <1>6 DEF AllInterfaces
<1>8. PlansOn(e, PartitionPlans(e))
  BY <1>1, <1>6, <1>7, InterfacesInside DEF PlansOn, found
<1>9. IsFiniteSet(PartitionPlans(e))
  BY <1>1, <1>5, FS_Subset
<1> QED
  BY <1>1, <1>6, <1>8, <1>9 DEF Fitting

\* Welding leaves them as they are.
LEMMA PlansStayFit ==
    ASSUME NEW e, Whole(e), NEW ps, Fitting(e, ps)
    PROVE  Fitting(Welded(e, ps), ps)
<1>1. \A k : OfKind(Welded(e, ps), k) = OfKind(e, k)
  BY WeldedFields DEF Fitting
<1> HIDE DEF Fitting
<1> QED
  BY <1>1 DEF Fitting, PlansOn
-----------------------------------------------------------------------------
(* Rebuilding.                                                             *)

\* The ids of a plan are new, and two plans have the same ids or different ones.
LEMMA IdsAreFree ==
    ASSUME NEW e, Whole(e), NEW ps, Fitting(e, ps)
    PROVE  /\ \A p \in ps : /\ NewId(e, ps, p) \in Int
                            /\ \A n \in NewId(e, ps, p) .. (NewId(e, ps, p) + 2) : n \notin DOMAIN e
           /\ \A p, q \in ps : \A n \in NewId(e, ps, p) .. (NewId(e, ps, p) + 2) :
                 n \in NewId(e, ps, q) .. (NewId(e, ps, q) + 2) => NewId(e, ps, p) = NewId(e, ps, q)
<1> DEFINE least(p) == Min(p.solids)
           below(p) == {q \in ps : least(q) < least(p)}
           rank(p) == Cardinality(below(p))
           top == Max(DOMAIN e)
<1>1. \A p \in ps : NewId(e, ps, p) = top + 1 + 3 * rank(p)
  BY DEF NewId
<1>2. ASSUME NEW p \in ps PROVE least(p) \in Int
  <2>1. p.solids # {} /\ p.solids \subseteq OfKind(e, "solid")
    BY DEF Fitting
  <2>2. p.solids \in SUBSET Int /\ IsFiniteSet(p.solids)
    BY <2>1, KindsAreFinite, FS_Subset
  <2> QED
    BY <2>1, <2>2, Extremes
<1>3. ASSUME NEW p \in ps PROVE top \in Int /\ \A n \in DOMAIN e : n <= top
  <2>1. DOMAIN e # {}
    BY DEF Fitting, OfKind
  <2>2. DOMAIN e \in SUBSET Int /\ IsFiniteSet(DOMAIN e)
    BY DEF Whole
  <2> QED
    BY <2>1, <2>2, Extremes
<1>4. IsFiniteSet(ps)
  BY DEF Fitting
<1> HIDE DEF least, top
<1>5. ASSUME NEW p \in ps PROVE IsFiniteSet(below(p)) /\ rank(p) \in Nat
  <2>1. below(p) \in SUBSET ps
    OBVIOUS
  <2> HIDE DEF below
  <2> QED
    BY <1>4, <2>1, FS_Subset, FS_CardinalityType
<1>6. ASSUME NEW p \in ps, NEW q \in ps, least(p) < least(q) PROVE rank(p) + 1 <= rank(q)
  <2>1. below(p) \cup {p} \subseteq below(q) /\ p \notin below(p)
    BY <1>2, <1>6
  <2>2. IsFiniteSet(below(p)) /\ IsFiniteSet(below(q)) /\ rank(p) \in Nat /\ rank(q) \in Nat
    BY <1>5
  <2> HIDE DEF below
  <2>3. IsFiniteSet(below(p) \cup {p}) /\ Cardinality(below(p) \cup {p}) = rank(p) + 1
    BY <2>1, <2>2, FS_AddElement
  <2>4. Cardinality(below(p) \cup {p}) <= Cardinality(below(q))
    BY <2>1, <2>2, FS_Subset
  <2> QED
    BY <2>3, <2>4
<1>7. ASSUME NEW p \in ps, NEW q \in ps, least(p) = least(q) PROVE rank(p) = rank(q)
  BY <1>7
<1> HIDE DEF rank
<1>8. ASSUME NEW p \in ps PROVE rank(p) \in Nat
  BY <1>5
<1>9. ASSUME NEW p \in ps
      PROVE  /\ NewId(e, ps, p) \in Int
             /\ \A n \in NewId(e, ps, p) .. (NewId(e, ps, p) + 2) : n \notin DOMAIN e
  <2>1. NewId(e, ps, p) = top + 1 + 3 * rank(p) /\ rank(p) \in Nat /\ top \in Int
    BY <1>1, <1>3, <1>8
  <2>2. NewId(e, ps, p) \in Int /\ NewId(e, ps, p) > top
    BY <2>1
  <2>3. \A n \in DOMAIN e : n <= top /\ n \in Int
    BY <1>3 DEF Whole
  <2> QED
    BY <2>1, <2>2, <2>3
<1>10. ASSUME NEW p \in ps, NEW q \in ps,
              NEW n \in NewId(e, ps, p) .. (NewId(e, ps, p) + 2),
              n \in NewId(e, ps, q) .. (NewId(e, ps, q) + 2)
       PROVE  NewId(e, ps, p) = NewId(e, ps, q)
  <2>1. /\ NewId(e, ps, p) = top + 1 + 3 * rank(p) /\ NewId(e, ps, q) = top + 1 + 3 * rank(q)
        /\ rank(p) \in Nat /\ rank(q) \in Nat /\ top \in Int
    BY <1>1, <1>3, <1>8
  <2>2. least(p) \in Int /\ least(q) \in Int
    BY <1>2
  <2>3. CASE least(p) < least(q)
    <3>1. rank(p) + 1 <= rank(q)
      BY <1>6, <2>3
    <3> QED
      BY <1>10, <2>1, <3>1
  <2>4. CASE least(q) < least(p)
    <3>1. rank(q) + 1 <= rank(p)
      BY <1>6, <2>4
    <3> QED
      BY <1>10, <2>1, <3>1
  <2>5. CASE least(p) = least(q)
    BY <1>7, <2>1, <2>5
  <2> QED
    BY <2>2, <2>3, <2>4, <2>5
<1> QED
  BY <1>9, <1>10

\* What is listed after solids or styles were replaced: what was, or a new one.
LEMMA ReplacedInside ==
    ASSUME NEW items, NEW ps, NEW old, NEW new
    PROVE  Replaced(items, ps, old, new) \subseteq items \cup {new[p] : p \in ps}
BY DEF Replaced

\* What rebuilding writes: the lists of the entities there are, and three new ones a plan.
RebuiltFrom(e, ps, r) ==
    /\ DOMAIN r = DOMAIN e \cup UNION {NewId(e, ps, p) .. (NewId(e, ps, p) + 2) : p \in ps}
    /\ \A n \in DOMAIN e :
          /\ r[n].kind = e[n].kind /\ DOMAIN r[n] = DOMAIN e[n]
          /\ e[n].kind \notin {"representation", "presentation", "layer"} => r[n] = e[n]
          /\ e[n].kind = "representation" =>
                r[n].items \subseteq e[n].items \cup {NewId(e, ps, p) + 1 : p \in ps}
          /\ e[n].kind \in {"presentation", "layer"} =>
                r[n].items \subseteq e[n].items \cup {NewId(e, ps, p) + 2 : p \in ps}
    /\ \A p \in ps :
          /\ \E q \in ps : r[NewId(e, ps, p)] = [kind |-> "shell", faces |-> q.retained]
          /\ r[NewId(e, ps, p) + 1] = [kind |-> "solid", shell |-> NewId(e, ps, p)]
          /\ \E l : r[NewId(e, ps, p) + 2]
                        = [kind |-> "style", item |-> NewId(e, ps, p) + 1, look |-> l]

\* That is what it writes.
LEMMA RebuiltEntities ==
    ASSUME NEW e, Whole(e), NEW ps, Fitting(e, ps)
    PROVE  RebuiltFrom(e, ps, Rebuilt(e, ps))
<1> DEFINE id == [p \in ps |-> NewId(e, ps, p)]
           solid == [p \in ps |-> id[p] + 1]
           style == [p \in ps |-> id[p] + 2]
           Listed(n) ==
               CASE e[n].kind = "representation" ->
                       [e[n] EXCEPT !.items =
                           Replaced(@, {p \in ps : p.solids \subseteq @},
                                    [p \in ps |-> p.solids], solid)]
                 [] e[n].kind \in {"presentation", "layer"} ->
                       [e[n] EXCEPT !.items =
                           Replaced(@, ps, [p \in ps |-> OldStyles(e, p)], style)]
                 [] OTHER -> e[n]
           New(p, n) ==
               CASE n = id[p] -> [kind |-> "shell", faces |-> p.retained]
                 [] n = solid[p] -> [kind |-> "solid", shell |-> id[p]]
                 [] n = style[p] -> [kind |-> "style", item |-> solid[p],
                                     look |-> CHOOSE l \in Looks(e, p.solids) : TRUE]
           Span(p) == id[p] .. style[p]
           R == [n \in DOMAIN e \cup UNION {Span(p) : p \in ps} |->
                    IF n \in DOMAIN e THEN Listed(n)
                    ELSE New(CHOOSE p \in ps : n \in Span(p), n)]
<1>1. Rebuilt(e, ps) = R
  BY DEF Rebuilt
<1>2. \A p \in ps : id[p] = NewId(e, ps, p) /\ solid[p] = NewId(e, ps, p) + 1
                    /\ style[p] = NewId(e, ps, p) + 2
  OBVIOUS
<1>3. \A p \in ps : Span(p) = NewId(e, ps, p) .. (NewId(e, ps, p) + 2)
  BY <1>2
<1>4. DOMAIN R = DOMAIN e \cup UNION {Span(p) : p \in ps}
  <2> HIDE DEF Listed, New, Span
  <2> QED
    OBVIOUS
<1>5. ASSUME NEW n \in DOMAIN e PROVE R[n] = Listed(n)
  <2> HIDE DEF Listed, New, Span
  <2> QED
    OBVIOUS
<1>6. ASSUME NEW p \in ps, NEW n \in Span(p)
      PROVE  \E q \in ps : n \in Span(q) /\ R[n] = New(q, n)
  <2>1. n \notin DOMAIN e
    BY <1>3, IdsAreFree
  <2> DEFINE q == CHOOSE r \in ps : n \in Span(r)
  <2>2. q \in ps /\ n \in Span(q)
    <3> HIDE DEF Span
    <3> QED
      BY <1>6
  <2>3. R[n] = New(q, n)
    <3> HIDE DEF Listed, New, Span
    <3> QED
      BY <1>6, <2>1
  <2> HIDE DEF q, Span, New, R
  <2> QED
    BY <2>2, <2>3
<1> HIDE DEF R
<1>7. ASSUME NEW n \in DOMAIN e
      PROVE  /\ R[n].kind = e[n].kind /\ DOMAIN R[n] = DOMAIN e[n]
             /\ e[n].kind \notin {"representation", "presentation", "layer"} => R[n] = e[n]
             /\ e[n].kind = "representation" =>
                   R[n].items \subseteq e[n].items \cup {NewId(e, ps, p) + 1 : p \in ps}
             /\ e[n].kind \in {"presentation", "layer"} =>
                   R[n].items \subseteq e[n].items \cup {NewId(e, ps, p) + 2 : p \in ps}
  <2>1. CASE e[n].kind \notin {"representation", "presentation", "layer"}
    <3>1. R[n] = e[n]
      BY <1>5, <2>1
    <3> QED
      BY <2>1, <3>1
  <2>2. CASE e[n].kind = "representation"
    <3> DEFINE some == {p \in ps : p.solids \subseteq e[n].items}
               x == Replaced(e[n].items, some, [p \in ps |-> p.solids], solid)
    <3>1. R[n] = [e[n] EXCEPT !.items = x]
      BY <1>5, <2>2
    <3>2. x \subseteq e[n].items \cup {solid[p] : p \in some}
      BY ReplacedInside
    <3>3. {solid[p] : p \in some} \subseteq {NewId(e, ps, p) + 1 : p \in ps}
      BY <1>2
    <3>4. DOMAIN e[n] = {"kind", "items"}
      BY <2>2 DEF Whole, Attributes
    <3> HIDE DEF x, some, solid
    <3>5. R[n].kind = e[n].kind /\ DOMAIN R[n] = DOMAIN e[n] /\ R[n].items = x
      BY <3>1, <3>4
    <3> QED
      BY <2>2, <3>2, <3>3, <3>5
  <2>3. CASE e[n].kind \in {"presentation", "layer"}
    <3> DEFINE x == Replaced(e[n].items, ps, [p \in ps |-> OldStyles(e, p)], style)
    <3>1. R[n] = [e[n] EXCEPT !.items = x]
      BY <1>5, <2>3
    <3>2. x \subseteq e[n].items \cup {style[p] : p \in ps}
      BY ReplacedInside
    <3>3. {style[p] : p \in ps} \subseteq {NewId(e, ps, p) + 2 : p \in ps}
      BY <1>2
    <3>4. DOMAIN e[n] = {"kind", "items"}
      BY <2>3 DEF Whole, Attributes
    <3> HIDE DEF x, style
    <3>5. R[n].kind = e[n].kind /\ DOMAIN R[n] = DOMAIN e[n] /\ R[n].items = x
      BY <3>1, <3>4
    <3> QED
      BY <2>3, <3>2, <3>3, <3>5
  <2> QED
    BY <2>1, <2>2, <2>3
<1>8. ASSUME NEW p \in ps
      PROVE  /\ \E q \in ps : R[NewId(e, ps, p)] = [kind |-> "shell", faces |-> q.retained]
             /\ R[NewId(e, ps, p) + 1] = [kind |-> "solid", shell |-> NewId(e, ps, p)]
             /\ \E l : R[NewId(e, ps, p) + 2]
                           = [kind |-> "style", item |-> NewId(e, ps, p) + 1, look |-> l]
  <2> DEFINE i == NewId(e, ps, p)
  <2>1. i \in Int
    BY IdsAreFree
  <2>2. ASSUME NEW n \in i .. (i + 2)
        PROVE  \E q \in ps : id[q] = i /\ solid[q] = i + 1 /\ style[q] = i + 2 /\ R[n] = New(q, n)
    <3>1. n \in Span(p)
      BY <1>3
    <3>2. PICK q \in ps : n \in Span(q) /\ R[n] = New(q, n)
      <4> HIDE DEF New, Span
      <4> QED
        BY <1>6, <3>1
    <3>3. NewId(e, ps, q) = i
      BY <1>3, <3>2, IdsAreFree
    <3> QED
      BY <1>2, <3>2, <3>3
  <2> HIDE DEF i, id, solid, style
  <2>3. i \in i .. (i + 2) /\ i + 1 \in i .. (i + 2) /\ i + 2 \in i .. (i + 2)
    BY <2>1
  <2>4. i # i + 1 /\ i # i + 2 /\ i + 1 # i + 2
    BY <2>1
  <2>5. \E q \in ps : R[i] = [kind |-> "shell", faces |-> q.retained]
    <3>1. PICK q \in ps : id[q] = i /\ solid[q] = i + 1 /\ style[q] = i + 2 /\ R[i] = New(q, i)
      BY <2>2, <2>3
    <3>2. R[i] = [kind |-> "shell", faces |-> q.retained]
      BY <2>4, <3>1
    <3> QED
      BY <3>2
  <2>6. R[i + 1] = [kind |-> "solid", shell |-> i]
    <3>1. PICK q \in ps : id[q] = i /\ solid[q] = i + 1 /\ style[q] = i + 2 /\ R[i + 1] = New(q, i + 1)
      BY <2>2, <2>3
    <3> QED
      BY <2>4, <3>1
  <2>7. \E l : R[i + 2] = [kind |-> "style", item |-> i + 1, look |-> l]
    <3>1. PICK q \in ps : id[q] = i /\ solid[q] = i + 1 /\ style[q] = i + 2 /\ R[i + 2] = New(q, i + 2)
      BY <2>2, <2>3
    <3> DEFINE l == CHOOSE x \in Looks(e, q.solids) : TRUE
    <3>2. R[i + 2] = [kind |-> "style", item |-> i + 1, look |-> l]
      <4> HIDE DEF l
      <4> QED
        BY <2>4, <3>1 DEF l
    <3> QED
      BY <3>2
  <2> QED
    BY <2>5, <2>6, <2>7 DEF i
<1>9. UNION {Span(p) : p \in ps} = UNION {NewId(e, ps, p) .. (NewId(e, ps, p) + 2) : p \in ps}
  <2> HIDE DEF Span
  <2> QED
    BY <1>3
<1> HIDE DEF Listed, New, Span, id, solid, style
<1>10. DOMAIN R = DOMAIN e \cup UNION {NewId(e, ps, p) .. (NewId(e, ps, p) + 2) : p \in ps}
  BY <1>4, <1>9
<1>11. RebuiltFrom(e, ps, R)
  BY <1>7, <1>8, <1>10, Zenon DEF RebuiltFrom
<1> QED
  BY <1>1, <1>11, Zenon

\* A rebuilt section is whole: what the new entities refer to is there, and of its kind.
LEMMA RebuiltIsWhole ==
    ASSUME NEW e, Whole(e), NEW ps, Fitting(e, ps)
    PROVE  Whole(Rebuilt(e, ps))
<1> DEFINE R == Rebuilt(e, ps)
           id(p) == NewId(e, ps, p)
           ids(p) == id(p) .. (id(p) + 2)
<1>0. RebuiltFrom(e, ps, R)
  BY RebuiltEntities
<1> HIDE DEF R
<1>1. /\ DOMAIN R = DOMAIN e \cup UNION {ids(p) : p \in ps}
      /\ \A n \in DOMAIN e :
            /\ R[n].kind = e[n].kind /\ DOMAIN R[n] = DOMAIN e[n]
            /\ e[n].kind \notin {"representation", "presentation", "layer"} => R[n] = e[n]
            /\ e[n].kind = "representation" =>
                  R[n].items \subseteq e[n].items \cup {id(p) + 1 : p \in ps}
            /\ e[n].kind \in {"presentation", "layer"} =>
                  R[n].items \subseteq e[n].items \cup {id(p) + 2 : p \in ps}
      /\ \A p \in ps :
            /\ \E q \in ps : R[id(p)] = [kind |-> "shell", faces |-> q.retained]
            /\ R[id(p) + 1] = [kind |-> "solid", shell |-> id(p)]
            /\ \E l : R[id(p) + 2] = [kind |-> "style", item |-> id(p) + 1, look |-> l]
  BY <1>0, Zenon DEF RebuiltFrom
<1>2. \A p \in ps : id(p) \in Int /\ \A n \in ids(p) : n \notin DOMAIN e
  BY IdsAreFree
<1> HIDE DEF id
<1>3. \A p \in ps : \A n \in ids(p) : n = id(p) \/ n = id(p) + 1 \/ n = id(p) + 2
  BY <1>2
<1>4. \A p \in ps : id(p) \in ids(p) /\ id(p) + 1 \in ids(p) /\ id(p) + 2 \in ids(p)
  BY <1>2
<1>5. \A p \in ps : IsFiniteSet(ids(p)) /\ ids(p) \subseteq Int
  BY <1>2, FS_Interval
<1> HIDE DEF ids
<1>6. IsFiniteSet(DOMAIN R) /\ DOMAIN R \subseteq Int
  <2> DEFINE all == {ids(p) : p \in ps}
             f == [p \in ps |-> ids(p)]
  <2>1. IsFiniteSet(ps)
    BY DEF Fitting
  <2>2. f \in Surjection(ps, all)
    BY DEF Surjection
  <2>3. \A T \in all : IsFiniteSet(T) /\ T \subseteq Int
    BY <1>5
  <2> HIDE DEF f, all
  <2>4. IsFiniteSet(all)
    BY <2>1, <2>2, FS_Surjection
  <2>5. IsFiniteSet(UNION all) /\ UNION all \subseteq Int
    BY <2>3, <2>4, FS_UNION
  <2>6. IsFiniteSet(DOMAIN e) /\ DOMAIN e \subseteq Int
    BY DEF Whole
  <2>7. DOMAIN R = DOMAIN e \cup UNION all
    BY <1>1 DEF all
  <2> QED
    BY <2>5, <2>6, <2>7, FS_Union
\* The new entities, kind by kind.
<1>7. ASSUME NEW n \in DOMAIN R, n \notin DOMAIN e
      PROVE  \/ \E q \in ps : R[n] = [kind |-> "shell", faces |-> q.retained]
             \/ \E p \in ps : R[n] = [kind |-> "solid", shell |-> id(p)]
             \/ \E p \in ps : \E l : R[n] = [kind |-> "style", item |-> id(p) + 1, look |-> l]
  <2>1. PICK p \in ps : n \in ids(p)
    BY <1>1, <1>7
  <2>2. CASE n = id(p)
    <3>1. \E q \in ps : R[id(p)] = [kind |-> "shell", faces |-> q.retained]
      BY <1>1, Zenon
    <3> QED
      BY <2>2, <3>1, Zenon
  <2>3. CASE n = id(p) + 1
    <3>1. R[id(p) + 1] = [kind |-> "solid", shell |-> id(p)]
      BY <1>1, Zenon
    <3> QED
      BY <2>3, <3>1, Zenon
  <2>4. CASE n = id(p) + 2
    <3>1. \E l : R[id(p) + 2] = [kind |-> "style", item |-> id(p) + 1, look |-> l]
      BY <1>1, Zenon
    <3> QED
      BY <2>4, <3>1, Zenon
  <2> QED
    BY <1>3, <2>1, <2>2, <2>3, <2>4
<1>8. \A n \in DOMAIN e : n \in DOMAIN R
  BY <1>1
<1>9. \A k : OfKind(e, k) \subseteq OfKind(R, k)
  BY <1>1, <1>8 DEF OfKind
<1>10. \A k : k \notin {"shell", "solid", "style"} => OfKind(R, k) = OfKind(e, k)
  <2> SUFFICES ASSUME NEW k, k \notin {"shell", "solid", "style"}, NEW n \in OfKind(R, k)
               PROVE  n \in OfKind(e, k)
    BY <1>9
  <2>1. n \in DOMAIN R /\ R[n].kind = k
    BY DEF OfKind
  <2>2. n \in DOMAIN e
    BY <1>7, <2>1
  <2> QED
    BY <1>1, <2>1, <2>2 DEF OfKind
<1>11. ASSUME NEW p \in ps
       PROVE  /\ id(p) \in OfKind(R, "shell") /\ id(p) + 1 \in OfKind(R, "solid")
              /\ id(p) + 2 \in OfKind(R, "style")
  <2>1. id(p) \in DOMAIN R /\ id(p) + 1 \in DOMAIN R /\ id(p) + 2 \in DOMAIN R
    BY <1>1, <1>4
  <2>2. R[id(p)].kind = "shell"
    <3>1. PICK q \in ps : R[id(p)] = [kind |-> "shell", faces |-> q.retained]
      BY <1>1, Zenon
    <3> QED
      BY <3>1
  <2>3. R[id(p) + 1].kind = "solid"
    <3>1. R[id(p) + 1] = [kind |-> "solid", shell |-> id(p)]
      BY <1>1, Zenon
    <3> QED
      BY <3>1
  <2>4. R[id(p) + 2].kind = "style"
    <3>1. PICK l : R[id(p) + 2] = [kind |-> "style", item |-> id(p) + 1, look |-> l]
      BY <1>1, Zenon
    <3> QED
      BY <3>1
  <2> QED
    BY <2>1, <2>2, <2>3, <2>4 DEF OfKind
<1>12. \A q \in ps : q.retained \subseteq OfKind(e, "face")
  BY DEF Fitting, PlansOn
<1>13. ASSUME NEW n \in DOMAIN R PROVE DOMAIN R[n] = {"kind"} \cup Attributes(R[n].kind)
  <2>1. CASE n \in DOMAIN e
    BY <1>1, <2>1 DEF Whole
  <2>2. CASE n \notin DOMAIN e
    <3>1. CASE \E q \in ps : R[n] = [kind |-> "shell", faces |-> q.retained]
      <4>1. R[n].kind = "shell" /\ DOMAIN R[n] = {"kind", "faces"}
        BY <3>1
      <4> QED
        BY <4>1 DEF Attributes
    <3>2. CASE \E p \in ps : R[n] = [kind |-> "solid", shell |-> id(p)]
      <4>1. R[n].kind = "solid" /\ DOMAIN R[n] = {"kind", "shell"}
        BY <3>2
      <4> QED
        BY <4>1 DEF Attributes
    <3>3. CASE \E p \in ps : \E l : R[n] = [kind |-> "style", item |-> id(p) + 1, look |-> l]
      <4>1. R[n].kind = "style" /\ DOMAIN R[n] = {"kind", "item", "look"}
        BY <3>3
      <4> QED
        BY <4>1 DEF Attributes
    <3> QED
      BY <1>7, <2>2, <3>1, <3>2, <3>3
  <2> QED
    BY <2>1, <2>2
\* What was there and is no list is as it was.
<1>14. \A k \in {"edge", "face", "shell", "solid", "style", "usage"} :
          \A n \in OfKind(e, k) : R[n] = e[n]
  BY <1>1 DEF OfKind
<1>15. \A n \in OfKind(R, "edge") : R[n].ends \in [1 .. 2 -> OfKind(R, "vertex")]
  BY <1>10, <1>14 DEF Whole
<1>16. \A n \in OfKind(R, "face") :
          /\ R[n].support \in OfKind(R, "plane") \cup OfKind(R, "cylinder")
          /\ R[n].loop \in Seq([edge : OfKind(R, "edge"), forward : BOOLEAN])
  <2>1. OfKind(R, "plane") = OfKind(e, "plane") /\ OfKind(R, "cylinder") = OfKind(e, "cylinder")
        /\ OfKind(R, "edge") = OfKind(e, "edge") /\ OfKind(R, "face") = OfKind(e, "face")
    BY <1>10
  <2>2. \A n \in OfKind(e, "face") :
          /\ e[n].support \in OfKind(e, "plane") \cup OfKind(e, "cylinder")
          /\ e[n].loop \in Seq([edge : OfKind(e, "edge"), forward : BOOLEAN])
    BY DEF Whole
  <2>3. \A n \in OfKind(e, "face") : R[n] = e[n]
    BY <1>14
  <2> QED
    BY <2>1, <2>2, <2>3, Zenon
<1>17. \A n \in OfKind(R, "shell") : R[n].faces \subseteq OfKind(R, "face")
  <2> SUFFICES ASSUME NEW n \in OfKind(R, "shell") PROVE R[n].faces \subseteq OfKind(R, "face")
    OBVIOUS
  <2>1. n \in DOMAIN R /\ R[n].kind = "shell"
    BY DEF OfKind
  <2>2. CASE n \in DOMAIN e
    <3>1. n \in OfKind(e, "shell")
      BY <1>1, <2>1, <2>2 DEF OfKind
    <3> QED
      BY <1>9, <1>14, <3>1 DEF Whole
  <2>3. CASE n \notin DOMAIN e
    <3>1. PICK q \in ps : R[n] = [kind |-> "shell", faces |-> q.retained]
      BY <1>7, <2>1, <2>3
    <3> QED
      BY <1>9, <1>12, <3>1
  <2> QED
    BY <2>2, <2>3
<1>18. \A n \in OfKind(R, "solid") : R[n].shell \in OfKind(R, "shell")
  <2> SUFFICES ASSUME NEW n \in OfKind(R, "solid") PROVE R[n].shell \in OfKind(R, "shell")
    OBVIOUS
  <2>1. n \in DOMAIN R /\ R[n].kind = "solid"
    BY DEF OfKind
  <2>2. CASE n \in DOMAIN e
    <3>1. n \in OfKind(e, "solid")
      BY <1>1, <2>1, <2>2 DEF OfKind
    <3> QED
      BY <1>9, <1>14, <3>1 DEF Whole
  <2>3. CASE n \notin DOMAIN e
    <3>1. PICK p \in ps : R[n] = [kind |-> "solid", shell |-> id(p)]
      BY <1>7, <2>1, <2>3
    <3> QED
      BY <1>11, <3>1
  <2> QED
    BY <2>2, <2>3
<1>19. \A n \in OfKind(R, "style") : R[n].item \in OfKind(R, "solid") \cup OfKind(R, "face")
  <2> SUFFICES ASSUME NEW n \in OfKind(R, "style")
               PROVE  R[n].item \in OfKind(R, "solid") \cup OfKind(R, "face")
    OBVIOUS
  <2>1. n \in DOMAIN R /\ R[n].kind = "style"
    BY DEF OfKind
  <2>2. CASE n \in DOMAIN e
    <3>1. n \in OfKind(e, "style")
      BY <1>1, <2>1, <2>2 DEF OfKind
    <3> QED
      BY <1>9, <1>14, <3>1 DEF Whole
  <2>3. CASE n \notin DOMAIN e
    <3>1. PICK p \in ps : \E l : R[n] = [kind |-> "style", item |-> id(p) + 1, look |-> l]
      BY <1>7, <2>1, <2>3
    <3> QED
      BY <1>11, <3>1
  <2> QED
    BY <2>2, <2>3
<1>20. \A n \in OfKind(R, "usage") : R[n].item \in OfKind(R, "face")
  BY <1>10, <1>14 DEF Whole
<1>21. \A n \in OfKind(R, "representation") : R[n].items \subseteq OfKind(R, "solid")
  <2> SUFFICES ASSUME NEW n \in OfKind(e, "representation")
               PROVE  R[n].items \subseteq OfKind(R, "solid")
    BY <1>10
  <2>1. R[n].items \subseteq e[n].items \cup {id(p) + 1 : p \in ps}
    BY <1>1 DEF OfKind
  <2>2. e[n].items \subseteq OfKind(e, "solid")
    BY DEF Whole
  <2> QED
    BY <1>9, <1>11, <2>1, <2>2
<1>22. \A n \in OfKind(R, "presentation") \cup OfKind(R, "layer") :
          R[n].items \subseteq OfKind(R, "style")
  <2> SUFFICES ASSUME NEW n \in OfKind(e, "presentation") \cup OfKind(e, "layer")
               PROVE  R[n].items \subseteq OfKind(R, "style")
    BY <1>10
  <2>1. R[n].items \subseteq e[n].items \cup {id(p) + 2 : p \in ps}
    BY <1>1 DEF OfKind
  <2>2. e[n].items \subseteq OfKind(e, "style")
    BY DEF Whole
  <2> QED
    BY <1>9, <1>11, <2>1, <2>2
<1>23. Whole(R)
  BY <1>6, <1>13, <1>15, <1>16, <1>17, <1>18, <1>19, <1>20, <1>21, <1>22, Zenon DEF Whole
<1> QED
  BY <1>23 DEF R

\* Rebuilding leaves faces, edges and vertices as they are.
LEMMA RebuiltTopology ==
    ASSUME NEW e, Whole(e), NEW ps, Fitting(e, ps)
    PROVE  /\ \A k \in {"face", "edge", "vertex"} : OfKind(Rebuilt(e, ps), k) = OfKind(e, k)
           /\ \A k \in {"face", "edge", "vertex"} :
                 \A n \in OfKind(e, k) : Rebuilt(e, ps)[n] = e[n]
<1> DEFINE R == Rebuilt(e, ps)
           ids(p) == NewId(e, ps, p) .. (NewId(e, ps, p) + 2)
<1>0. RebuiltFrom(e, ps, R)
  BY RebuiltEntities
<1> HIDE DEF R
<1>1. /\ DOMAIN R = DOMAIN e \cup UNION {ids(p) : p \in ps}
      /\ \A n \in DOMAIN e :
            /\ R[n].kind = e[n].kind
            /\ e[n].kind \notin {"representation", "presentation", "layer"} => R[n] = e[n]
  BY <1>0, Zenon DEF RebuiltFrom
<1>2. \A p \in ps : \A n \in ids(p) : R[n].kind \in {"shell", "solid", "style"}
  <2> SUFFICES ASSUME NEW p \in ps, NEW n \in ids(p) PROVE R[n].kind \in {"shell", "solid", "style"}
    OBVIOUS
  <2>1. NewId(e, ps, p) \in Int
    BY IdsAreFree
  <2>2. n = NewId(e, ps, p) \/ n = NewId(e, ps, p) + 1 \/ n = NewId(e, ps, p) + 2
    BY <2>1
  <2>3. /\ \E q \in ps : R[NewId(e, ps, p)] = [kind |-> "shell", faces |-> q.retained]
        /\ R[NewId(e, ps, p) + 1] = [kind |-> "solid", shell |-> NewId(e, ps, p)]
        /\ \E l : R[NewId(e, ps, p) + 2]
                      = [kind |-> "style", item |-> NewId(e, ps, p) + 1, look |-> l]
    BY <1>0, Zenon DEF RebuiltFrom
  <2>4. R[NewId(e, ps, p)].kind = "shell"
    <3>1. PICK q \in ps : R[NewId(e, ps, p)] = [kind |-> "shell", faces |-> q.retained]
      BY <2>3
    <3> QED
      BY <3>1
  <2>5. R[NewId(e, ps, p) + 1].kind = "solid"
    BY <2>3
  <2>6. R[NewId(e, ps, p) + 2].kind = "style"
    <3>1. PICK l : R[NewId(e, ps, p) + 2]
                       = [kind |-> "style", item |-> NewId(e, ps, p) + 1, look |-> l]
      BY <2>3
    <3> QED
      BY <3>1
  <2> QED
    BY <2>2, <2>4, <2>5, <2>6
<1> HIDE DEF ids
<1>3. \A k \in {"face", "edge", "vertex"} : OfKind(R, k) = OfKind(e, k)
  <2> SUFFICES ASSUME NEW k \in {"face", "edge", "vertex"}, NEW n
               PROVE  n \in OfKind(R, k) <=> n \in OfKind(e, k)
    OBVIOUS
  <2>1. n \in DOMAIN R => n \in DOMAIN e \/ R[n].kind \in {"shell", "solid", "style"}
    BY <1>1, <1>2
  <2>2. n \in DOMAIN e => n \in DOMAIN R /\ R[n].kind = e[n].kind
    BY <1>1
  <2> QED
    BY <2>1, <2>2 DEF OfKind
<1>4. \A k \in {"face", "edge", "vertex"} : \A n \in OfKind(e, k) : R[n] = e[n]
  BY <1>1 DEF OfKind
<1> QED
  BY <1>3, <1>4 DEF R
-----------------------------------------------------------------------------
(* Coalescing.                                                             *)

\* A group is made of faces, and the face that stays is one of them.
LEMMA GroupsAreFaces ==
    ASSUME NEW e, Whole(e), NEW kinds, NEW g \in CoalescePlans(e, kinds)
    PROVE  /\ g \subseteq OfKind(e, "face") /\ g \in SUBSET Int /\ IsFiniteSet(g)
           /\ Min(g) \in g
<1> DEFINE faces == Parsed(e, kinds)
           links == Adjacency(e, faces)
           users == [n \in OfKind(e, "edge") |-> {f \in faces : n \in EdgesOf(e, f)}]
<1>1. g \in Components(links)
  BY DEF CoalescePlans, Groups
<1>2. faces \subseteq OfKind(e, "face")
  BY DEF Parsed
<1>3. links \in SUBSET SUBSET OfKind(e, "face")
  <2>1. \A l \in links : l \in Range(users)
    BY DEF Adjacency
  <2>2. \A l \in Range(users) : l \subseteq faces
    <3> HIDE DEF faces
    <3> QED
      BY DEF Range
  <2> HIDE DEF links, users
  <2> QED
    BY <1>2, <2>1, <2>2
<1> HIDE DEF links
<1>4. g # {} /\ g \subseteq OfKind(e, "face")
  <2>1. IsFiniteSet(links)
    BY <1>3, KindsAreFinite, ComponentsAreFinite
  <2> QED
    BY <1>1, <1>3, <2>1, ComponentsInside
<1>5. g \in SUBSET Int /\ IsFiniteSet(g)
  BY <1>4, KindsAreFinite, FS_Subset
<1> QED
  BY <1>4, <1>5, Extremes

\* The uses that stay are uses of edges.
LEMMA SurvivingUses ==
    ASSUME NEW e, Whole(e), NEW faces, NEW g \in SUBSET OfKind(e, "face")
    PROVE  Surviving(e, faces, g) \in Seq([edge : OfKind(e, "edge"), forward : BOOLEAN])
<1> DEFINE A == [edge : OfKind(e, "edge"), forward : BOOLEAN]
           inner == Internal(e, faces, g)
           some(loop) == [k \in DOMAIN loop |->
                             IF loop[k].edge \in inner THEN <<>> ELSE <<loop[k]>>]
           Staying(loop) == FlattenSeq(some(loop))
           parts == [k \in 1 .. Cardinality(g) |-> Staying(e[Member(g, k)].loop)]
<1>1. Surviving(e, faces, g) = FlattenSeq(parts)
  BY DEF Surviving
<1>2. g \in SUBSET Int /\ IsFiniteSet(g) /\ Cardinality(g) \in Nat
  BY KindsAreFinite, FS_Subset, FS_CardinalityType
<1>3. ASSUME NEW loop \in Seq(A) PROVE Staying(loop) \in Seq(A)
  <2>1. Len(loop) \in Nat /\ DOMAIN loop = 1 .. Len(loop)
    BY <1>3
  <2>2. \A k \in DOMAIN loop : loop[k] \in A
    BY <1>3, SeqMember
  <2> HIDE DEF A
  <2>3. ASSUME NEW x \in A PROVE <<x>> \in Seq(A) /\ <<>> \in Seq(A)
    OBVIOUS
  <2>4. \A k \in DOMAIN loop : some(loop)[k] \in Seq(A)
    BY <2>2, <2>3
  <2>5. some(loop) \in [1 .. Len(loop) -> Seq(A)]
    BY <2>1, <2>4
  <2> HIDE DEF some
  <2> QED
    BY <2>1, <2>5, Flattened
<1>4. ASSUME NEW k \in 1 .. Cardinality(g) PROVE Staying(e[Member(g, k)].loop) \in Seq(A)
  <2>1. Member(g, k) \in OfKind(e, "face")
    BY <1>2, Members
  <2>2. e[Member(g, k)].loop \in Seq(A)
    BY <2>1 DEF Whole
  <2> HIDE DEF A, some
  <2> QED
    BY <1>3, <2>2
<1> HIDE DEF A, Staying
<1>5. parts \in [1 .. Cardinality(g) -> Seq(A)]
  BY <1>4
<1> HIDE DEF parts
<1>6. FlattenSeq(parts) \in Seq(A)
  BY <1>2, <1>5, Flattened
<1> QED
  BY <1>1, <1>6 DEF A

\* The loop that is traced through uses is a sequence of them, if they form one loop.
LEMMA TraceOfUses ==
    ASSUME NEW e, NEW A, NEW uses \in Seq(A), uses # <<>>, OneLoop(e, uses)
    PROVE  Trace(e, uses) \in Seq(A)
<1> DEFINE N == Len(uses)
           S == ToSet(uses)
           s == uses[1]
           after(u) == CHOOSE v \in S : Start(e, v) = End(e, u)
           advance == [p \in (1 .. N) \X S |-> after(p[2])]
           next == CHOOSE f : f = [k \in DOMAIN uses |->
                                      IF k = 1 THEN uses[1] ELSE after(f[k - 1])]
<1>1. N \in Nat /\ DOMAIN uses = 1 .. N /\ 1 <= N
  OBVIOUS
<1>2. Trace(e, uses) = next
  <2> DEFINE f == CHOOSE h : h = [k \in DOMAIN uses |->
                      IF k = 1 THEN uses[1]
                      ELSE LET last == End(e, h[k - 1])
                           IN  CHOOSE u \in ToSet(uses) : Start(e, u) = last]
  <2>1. Trace(e, uses) = f
    BY DEF Trace
  <2>2. f = next
    OBVIOUS
  <2> QED
    BY <2>1, <2>2
<1>3. S \subseteq A /\ s \in S
  BY <1>1, SeqMember DEF ToSet
<1>4. \A u \in S : after(u) \in S
  <2> SUFFICES ASSUME NEW u \in S PROVE after(u) \in S
    OBVIOUS
  <2>1. \E v \in S : Start(e, v) = End(e, u)
    BY DEF OneLoop
  <2> HIDE DEF S
  <2> QED
    BY <2>1
<1> HIDE DEF N, S, s, after
<1>5. \A k \in 1 .. N : \A x \in S : advance[<<k, x>>] = after(x)
  OBVIOUS
<1> HIDE DEF advance
<1>6. Advances(1, N, S, advance)
  BY <1>4, <1>5 DEF Advances
<1>7. PICK f : Recursive(1, N, S, s, advance, f)
  BY <1>1, <1>3, <1>6, Recursion
<1>8. f = [k \in DOMAIN uses |-> IF k = 1 THEN uses[1] ELSE after(f[k - 1])]
  <2>1. f \in [1 .. N -> S]
    BY <1>7 DEF Recursive
  <2>2. ASSUME NEW k \in 1 .. N PROVE f[k] = IF k = 1 THEN uses[1] ELSE after(f[k - 1])
    <3>1. CASE k = 1
      BY <1>7, <3>1 DEF Recursive, s
    <3>2. CASE k # 1
      <4>1. k > 1 /\ k - 1 \in 1 .. N
        BY <1>1, <3>2
      <4>2. f[k] = advance[<<k, f[k - 1]>>]
        BY <1>7, <4>1 DEF Recursive
      <4>3. f[k - 1] \in S
        BY <2>1, <4>1
      <4> QED
        BY <1>5, <3>2, <4>2, <4>3
    <3> QED
      BY <3>1, <3>2
  <2> QED
    BY <1>1, <2>1, <2>2
<1>9. next = [k \in DOMAIN uses |-> IF k = 1 THEN uses[1] ELSE after(next[k - 1])]
  BY <1>8, Zenon
<1> HIDE DEF next
<1>10. DOMAIN next = 1 .. N
  BY <1>1, <1>9
<1>11. \A k \in 1 .. N : next[k] \in S
  <2> DEFINE Good == {k \in 1 .. N : next[k] \in S}
  <2>1. 1 \in Good
    BY <1>1, <1>3, <1>9 DEF s
  <2>2. ASSUME NEW k \in 1 .. N, k \in Good, k < N PROVE k + 1 \in Good
    <3>1. k + 1 \in DOMAIN uses /\ k + 1 # 1 /\ (k + 1) - 1 = k
      BY <1>1, <2>2
    <3>2. next[k + 1] = after(next[k])
      BY <1>9, <3>1
    <3> QED
      BY <1>1, <1>4, <2>2, <3>1, <3>2
  <2>3. \A k \in 1 .. N : k \in Good /\ k < N => k + 1 \in Good
    BY <2>2
  <2> HIDE DEF Good
  <2>4. \A k \in 1 .. N : k \in Good
    BY <1>1, <2>1, <2>3, StepByStep
  <2> QED
    BY <2>4 DEF Good
<1>12. next = [k \in 1 .. N |-> next[k]]
  BY <1>9, <1>10
<1>13. next \in Seq(A)
  BY <1>1, <1>3, <1>11, <1>12
<1> QED
  BY <1>2, <1>13

\* Coalescing leaves a section whole: the face that stays has a loop of edges, and lists
\* get shorter.  Edges and vertices are as they were.
LEMMA CoalescedIsWhole ==
    ASSUME NEW e, Whole(e), NEW kinds
    PROVE  LET w == Coalesced(e, CoalescePlans(e, kinds), kinds)
           IN  /\ Whole(w)
               /\ DOMAIN w = DOMAIN e /\ \A n \in DOMAIN e : w[n].kind = e[n].kind
               /\ \A k \in {"edge", "vertex"} :
                     OfKind(w, k) = OfKind(e, k) /\ \A n \in OfKind(e, k) : w[n] = e[n]
<1> DEFINE ps == CoalescePlans(e, kinds)
           faces == Parsed(e, kinds)
           A == [edge : OfKind(e, "edge"), forward : BOOLEAN]
           gone == UNION {g \ {Min(g)} : g \in ps}
           styles == UNION {StylesOf(e, f) : f \in gone}
           least(n) == \E g \in ps : n = Min(g)
           group(n) == CHOOSE g \in ps : n = Min(g)
           trace(n) == Trace(e, Surviving(e, faces, group(n)))
           w == Coalesced(e, ps, kinds)
<1>1. w = [n \in DOMAIN e |->
             CASE least(n) -> [e[n] EXCEPT !.loop = trace(n)]
               [] e[n].kind = "shell" -> [e[n] EXCEPT !.faces = @ \ gone]
               [] e[n].kind \in {"presentation", "layer"} -> [e[n] EXCEPT !.items = @ \ styles]
               [] OTHER -> e[n]]
  BY DEF Coalesced
<1>2. ASSUME NEW n, least(n) PROVE n \in OfKind(e, "face") /\ trace(n) \in Seq(A)
  <2>1. group(n) \in ps /\ n = Min(group(n))
    <3> HIDE DEF ps
    <3> QED
      BY <1>2
  <2> DEFINE g == group(n)
             uses == Surviving(e, faces, g)
  <2>2. g \in ps
    BY <2>1
  <2> HIDE DEF g
  <2>3. g \subseteq OfKind(e, "face") /\ Min(g) \in g
    BY <2>2, GroupsAreFaces
  <2>4. uses # <<>> /\ OneLoop(e, uses)
    BY <2>2 DEF CoalescePlans, Mergeable
  <2>5. uses \in Seq(A)
    BY <2>3, SurvivingUses
  <2> HIDE DEF uses, A
  <2>6. Trace(e, uses) \in Seq(A)
    BY <2>4, <2>5, TraceOfUses
  <2> QED
    BY <2>1, <2>3, <2>6 DEF g, uses
<1> HIDE DEF least, trace, gone, styles, w, ps
<1>3. DOMAIN w = DOMAIN e
  BY <1>1
<1>4. ASSUME NEW n \in OfKind(e, "face")
      PROVE  /\ w[n].kind = e[n].kind /\ DOMAIN w[n] = DOMAIN e[n]
             /\ w[n].support = e[n].support
             /\ w[n].loop = IF least(n) THEN trace(n) ELSE e[n].loop
  <2>1. n \in DOMAIN e /\ e[n].kind = "face"
    BY DEF OfKind
  <2>2. DOMAIN e[n] = {"kind", "support", "sense", "bound", "loop"}
    BY <2>1 DEF Whole, Attributes
  <2>3. CASE least(n)
    <3>1. w[n] = [e[n] EXCEPT !.loop = trace(n)]
      BY <1>1, <2>1, <2>3
    <3> QED
      BY <2>2, <2>3, <3>1
  <2>4. CASE ~ least(n)
    <3>1. w[n] = e[n]
      BY <1>1, <2>1, <2>4
    <3> QED
      BY <2>4, <3>1
  <2> QED
    BY <2>3, <2>4
<1>5. ASSUME NEW n \in DOMAIN e, e[n].kind # "face"
      PROVE  /\ w[n].kind = e[n].kind /\ DOMAIN w[n] = DOMAIN e[n]
             /\ e[n].kind \notin {"shell", "presentation", "layer"} => w[n] = e[n]
             /\ e[n].kind = "shell" => w[n].faces \subseteq e[n].faces
             /\ e[n].kind \in {"presentation", "layer"} => w[n].items \subseteq e[n].items
  <2>1. ~ least(n)
    BY <1>2, <1>5 DEF OfKind
  <2>2. CASE e[n].kind = "shell"
    <3>1. w[n] = [e[n] EXCEPT !.faces = e[n].faces \ gone]
      BY <1>1, <2>1, <2>2
    <3>2. DOMAIN e[n] = {"kind", "faces"}
      BY <2>2 DEF Whole, Attributes
    <3> QED
      BY <2>2, <3>1, <3>2
  <2>3. CASE e[n].kind \in {"presentation", "layer"}
    <3>1. w[n] = [e[n] EXCEPT !.items = e[n].items \ styles]
      BY <1>1, <2>1, <2>3
    <3>2. DOMAIN e[n] = {"kind", "items"}
      BY <2>3 DEF Whole, Attributes
    <3> QED
      BY <2>3, <3>1, <3>2
  <2>4. CASE e[n].kind \notin {"shell", "presentation", "layer"}
    <3>1. w[n] = e[n]
      BY <1>1, <2>1, <2>4
    <3> QED
      BY <2>4, <3>1
  <2> QED
    BY <2>2, <2>3, <2>4
<1>6. \A n \in DOMAIN e : w[n].kind = e[n].kind /\ DOMAIN w[n] = DOMAIN e[n]
  <2> SUFFICES ASSUME NEW n \in DOMAIN e
               PROVE  w[n].kind = e[n].kind /\ DOMAIN w[n] = DOMAIN e[n]
    OBVIOUS
  <2>1. CASE e[n].kind = "face"
    BY <1>4, <2>1 DEF OfKind
  <2>2. CASE e[n].kind # "face"
    BY <1>5, <2>2
  <2> QED
    BY <2>1, <2>2
<1>7. \A k \in {"edge", "vertex", "solid", "style", "usage", "representation"} :
         \A n \in OfKind(e, k) : w[n] = e[n]
  BY <1>5 DEF OfKind
<1>8. \A n \in OfKind(e, "edge") : w[n].ends \in [1 .. 2 -> OfKind(e, "vertex")]
  BY <1>7 DEF Whole
<1>9. ASSUME NEW n \in OfKind(e, "face")
      PROVE  /\ w[n].support \in OfKind(e, "plane") \cup OfKind(e, "cylinder")
             /\ w[n].loop \in Seq(A)
  <2>1. /\ e[n].support \in OfKind(e, "plane") \cup OfKind(e, "cylinder")
        /\ e[n].loop \in Seq(A)
    BY DEF Whole
  <2> HIDE DEF A
  <2>2. CASE least(n)
    BY <1>2, <1>4, <2>1, <2>2
  <2>3. CASE ~ least(n)
    BY <1>4, <2>1, <2>3
  <2> QED
    BY <2>2, <2>3
<1>10. /\ \A n \in OfKind(e, "shell") : w[n].faces \subseteq e[n].faces
       /\ \A n \in OfKind(e, "presentation") \cup OfKind(e, "layer") : w[n].items \subseteq e[n].items
  BY <1>5 DEF OfKind
<1>11. \A n \in OfKind(e, "solid") \cup OfKind(e, "style") \cup OfKind(e, "usage")
               \cup OfKind(e, "representation") : w[n] = e[n]
  BY <1>7
<1>12. Whole(w)
  BY <1>3, <1>6, <1>8, <1>9, <1>10, <1>11, SameKinds
<1>13. \A k \in {"edge", "vertex"} :
          OfKind(w, k) = OfKind(e, k) /\ \A n \in OfKind(e, k) : w[n] = e[n]
  BY <1>3, <1>6, <1>7 DEF OfKind
<1> QED
  BY <1>3, <1>6, <1>12, <1>13 DEF w, ps

-----------------------------------------------------------------------------
(* Going up and down the references: what is in use.                       *)

\* How deep an entity lies: references lead down, one level or more.
Level(x) ==
    CASE x.kind = "style" -> 1
      [] x.kind = "solid" -> 2
      [] x.kind = "shell" -> 3
      [] x.kind = "face" -> 4
      [] x.kind \in {"edge", "plane", "cylinder"} -> 5
      [] x.kind = "vertex" -> 6
      [] OTHER -> 0

\* The levels of the kinds.
LEMMA Levels ==
    ASSUME NEW x
    PROVE  /\ Level(x) \in 0 .. 6
           /\ x.kind = "style" => Level(x) = 1
           /\ x.kind = "solid" => Level(x) = 2
           /\ x.kind = "shell" => Level(x) = 3
           /\ x.kind = "face" => Level(x) = 4
           /\ x.kind \in {"edge", "plane", "cylinder"} => Level(x) = 5
           /\ x.kind = "vertex" => Level(x) = 6
           /\ x.kind \in Roots => Level(x) = 0
BY DEF Level, Roots

\* Whatever is referred to is there, and lies deeper.
LEMMA RefsLeadDown ==
    ASSUME NEW e, Whole(e), NEW m \in DOMAIN e, NEW n \in Refs(e[m])
    PROVE  n \in DOMAIN e /\ Level(e[m]) + 1 <= Level(e[n])
<1>a. Level(e[m]) \in 0 .. 6 /\ Level(e[n]) \in 0 .. 6
  BY Levels
<1>1. CASE e[m].kind = "edge"
  <2>1. m \in OfKind(e, "edge")
    BY <1>1 DEF OfKind
  <2>2. Refs(e[m]) = {e[m].ends[1], e[m].ends[2]} /\ Refs(e[m]) \subseteq OfKind(e, "vertex")
    BY <1>1, <2>1, References, EndsAndUses
  <2>3. n \in DOMAIN e /\ e[n].kind = "vertex"
    BY <2>2 DEF OfKind
  <2> QED
    BY <1>1, <2>3, Levels
<1>2. CASE e[m].kind = "face"
  <2>1. m \in OfKind(e, "face")
    BY <1>2 DEF OfKind
  <2>2. Refs(e[m]) = {e[m].support} \cup EdgesOf(e, m)
    BY <1>2, References DEF EdgesOf, Uses
  <2>3. EdgesOf(e, m) \subseteq OfKind(e, "edge")
        /\ e[m].support \in OfKind(e, "plane") \cup OfKind(e, "cylinder")
    BY <2>1, EndsAndUses DEF Whole
  <2>4. n \in DOMAIN e /\ e[n].kind \in {"edge", "plane", "cylinder"}
    BY <2>2, <2>3 DEF OfKind
  <2> QED
    BY <1>2, <2>4, Levels
<1>3. CASE e[m].kind = "shell"
  <2>1. n \in DOMAIN e /\ e[n].kind = "face"
    BY <1>3, References DEF Whole, OfKind
  <2> QED
    BY <1>3, <2>1, Levels
<1>4. CASE e[m].kind = "solid"
  <2>1. n \in DOMAIN e /\ e[n].kind = "shell"
    BY <1>4, References DEF Whole, OfKind
  <2> QED
    BY <1>4, <2>1, Levels
<1>5. CASE e[m].kind = "style"
  <2>1. n \in DOMAIN e /\ e[n].kind \in {"solid", "face"}
    BY <1>5, References DEF Whole, OfKind
  <2> QED
    BY <1>5, <2>1, Levels
<1>6. CASE e[m].kind = "usage"
  <2>1. n \in DOMAIN e /\ e[n].kind = "face"
    BY <1>6, References DEF Whole, OfKind
  <2> QED
    BY <1>6, <2>1, Levels DEF Roots
<1>7. CASE e[m].kind = "representation"
  <2>1. n \in DOMAIN e /\ e[n].kind = "solid"
    BY <1>7, References DEF Whole, OfKind
  <2> QED
    BY <1>7, <2>1, Levels DEF Roots
<1>8. CASE e[m].kind \in {"presentation", "layer"}
  <2>1. n \in DOMAIN e /\ e[n].kind = "style"
    BY <1>8, References DEF Whole, OfKind
  <2> QED
    BY <1>8, <2>1, Levels DEF Roots
<1>9. ASSUME e[m].kind \notin {"edge", "face", "shell", "solid", "style", "usage",
                               "representation", "presentation", "layer"}
      PROVE  FALSE
  BY <1>9 DEF Refs
<1> QED
  BY <1>1, <1>2, <1>3, <1>4, <1>5, <1>6, <1>7, <1>8, <1>9

\* What is below a set: the steps of the descent, and the end of it.
DescentSteps(e, S, below) ==
    /\ below \in [0 .. Depth -> SUBSET DOMAIN e]
    /\ below[0] = S
    /\ \A k \in 1 .. Depth :
          below[k] = below[k - 1] \cup UNION {Refs(e[n]) : n \in below[k - 1]}
    /\ Descendants(e, S) = below[Depth]

\* The descent has its steps in a section that is whole.
LEMMA DescentInSteps ==
    ASSUME NEW e, Whole(e), NEW S \in SUBSET DOMAIN e
    PROVE  \E below : DescentSteps(e, S, below)
<1> DEFINE More(above) == above \cup UNION {Refs(e[n]) : n \in above}
           V == SUBSET DOMAIN e
           s == S
           advance == [p \in (0 .. Depth) \X SUBSET DOMAIN e |-> More(p[2])]
           below == CHOOSE f : f = [k \in 0 .. Depth |-> IF k = 0 THEN S ELSE More(f[k - 1])]
<1>1. Descendants(e, S) = below[Depth]
  <2> DEFINE f == CHOOSE g : g = [k \in 0 .. Depth |->
                      IF k = 0 THEN S
                      ELSE LET above == g[k - 1] IN above \cup UNION {Refs(e[n]) : n \in above}]
  <2>1. Descendants(e, S) = f[Depth]
    BY DEF Descendants
  <2>2. f = below
    OBVIOUS
  <2> QED
    BY <2>1, <2>2
<1>2. Depth \in Int /\ 0 <= Depth
  BY DEF Depth
<1>3. \A X \in SUBSET DOMAIN e : More(X) \in SUBSET DOMAIN e
  BY RefsLeadDown
<1>4. \A k \in 0 .. Depth : \A X \in SUBSET DOMAIN e :
         advance[<<k, X>>] = More(X) /\ advance[<<k, X>>] \in SUBSET DOMAIN e
  <2> HIDE DEF More
  <2> QED
    BY <1>3
<1>5. Advances(0, Depth, V, advance) /\ s \in V
  BY <1>4 DEF Advances
<1> HIDE DEF advance, V, s, More, below
<1>6. PICK f : Recursive(0, Depth, V, s, advance, f)
  BY <1>2, <1>5, Recursion
<1>7. ASSUME NEW k \in 0 .. Depth PROVE f[k] = IF k = 0 THEN S ELSE More(f[k - 1])
  <2>1. CASE k = 0
    BY <1>6, <2>1 DEF Recursive, s
  <2>2. CASE k # 0
    <3>1. k > 0 /\ k - 1 \in 0 .. Depth
      BY <1>2, <2>2
    <3>2. f[k] = advance[<<k, f[k - 1]>>] /\ f[k - 1] \in SUBSET DOMAIN e
      BY <1>6, <3>1 DEF Recursive, V
    <3> QED
      BY <1>4, <2>2, <3>2
  <2> QED
    BY <2>1, <2>2
<1>8. f = [k \in 0 .. Depth |-> IF k = 0 THEN S ELSE More(f[k - 1])]
  BY <1>6, <1>7 DEF Recursive
<1>9. below = [k \in 0 .. Depth |-> IF k = 0 THEN S ELSE More(below[k - 1])]
  BY <1>8, Zenon DEF below
<1>10. below[0] = S
  BY <1>2, <1>9
<1>11. ASSUME NEW k \in 1 .. Depth PROVE below[k] = More(below[k - 1])
  <2>1. k \in 0 .. Depth /\ k # 0
    BY <1>2
  <2> QED
    BY <1>9, <2>1
<1>12. \A k \in 0 .. Depth : below[k] \in SUBSET DOMAIN e
  <2> DEFINE Good == {k \in 0 .. Depth : below[k] \in SUBSET DOMAIN e}
  <2>1. 0 \in Good
    BY <1>2, <1>10
  <2>2. ASSUME NEW k \in 0 .. Depth, k \in Good, k < Depth PROVE k + 1 \in Good
    <3>1. k + 1 \in 1 .. Depth /\ (k + 1) - 1 = k /\ k + 1 \in 0 .. Depth
      BY <1>2, <2>2
    <3> QED
      BY <1>3, <1>11, <2>2, <3>1
  <2>3. \A k \in 0 .. Depth : k \in Good
    <3> HIDE DEF Good
    <3>1. 0 \in Int
      OBVIOUS
    <3> QED
      BY <1>2, <2>1, <2>2, <3>1, StepByStep
  <2> QED
    BY <2>3
<1>13. below \in [0 .. Depth -> SUBSET DOMAIN e]
  <2>1. DOMAIN below = 0 .. Depth
    BY <1>9
  <2>2. below = [k \in 0 .. Depth |-> below[k]]
    BY <1>9, <2>1
  <2> QED
    BY <1>12, <2>2
<1> QED
  BY <1>1, <1>10, <1>11, <1>13 DEF DescentSteps, More

\* Because references lead down, the descent has arrived: what it found is closed.
LEMMA DescendantsClosed ==
    ASSUME NEW e, Whole(e), NEW S \in SUBSET DOMAIN e
    PROVE  /\ S \subseteq Descendants(e, S) /\ Descendants(e, S) \subseteq DOMAIN e
           /\ \A m \in Descendants(e, S) : Refs(e[m]) \subseteq Descendants(e, S)
           /\ \A n \in Descendants(e, S) :
                 n \in S \/ \E m \in Descendants(e, S) : n \in Refs(e[m])
<1>1. PICK below : DescentSteps(e, S, below)
  BY DescentInSteps
<1>2. Depth = 7
  BY DEF Depth
<1>3. /\ below \in [0 .. 7 -> SUBSET DOMAIN e] /\ below[0] = S
      /\ \A k \in 1 .. 7 : below[k] = below[k - 1] \cup UNION {Refs(e[n]) : n \in below[k - 1]}
      /\ Descendants(e, S) = below[7]
  BY <1>1, <1>2 DEF DescentSteps
<1> DEFINE Good == {k \in 1 .. 7 : /\ S \subseteq below[k] /\ below[k - 1] \subseteq below[k]
                                   /\ \A n \in below[k] \ below[k - 1] : k <= Level(e[n])
                                   /\ \A n \in below[k] : n \in S
                                         \/ \E m \in below[k - 1] : n \in Refs(e[m])}
<1>4. \A k \in 0 .. 7 : below[k] \subseteq DOMAIN e
  BY <1>3
<1>5. 1 \in Good
  <2>1. 1 \in 1 .. 7 /\ 1 - 1 = 0
    OBVIOUS
  <2>2. below[1] = below[0] \cup UNION {Refs(e[n]) : n \in below[0]}
    BY <1>3, <2>1
  <2>3. ASSUME NEW n \in below[1] \ below[0] PROVE 1 <= Level(e[n])
    <3>1. PICK m \in below[0] : n \in Refs(e[m])
      BY <2>2
    <3>2. m \in DOMAIN e
      BY <1>4
    <3>3. Level(e[m]) + 1 <= Level(e[n]) /\ Level(e[m]) \in 0 .. 6 /\ Level(e[n]) \in 0 .. 6
      BY <3>1, <3>2, RefsLeadDown, Levels
    <3> QED
      BY <3>3
  <2>4. \A n \in below[1] : n \in S \/ \E m \in below[0] : n \in Refs(e[m])
    BY <1>3, <2>2
  <2> QED
    BY <1>3, <2>1, <2>2, <2>3, <2>4
<1>6. ASSUME NEW k \in 1 .. 7, k \in Good, k < 7 PROVE k + 1 \in Good
  <2>1. k + 1 \in 1 .. 7 /\ (k + 1) - 1 = k /\ k \in 0 .. 7 /\ k - 1 \in 0 .. 7
    BY <1>6
  <2>2. /\ below[k + 1] = below[k] \cup UNION {Refs(e[n]) : n \in below[k]}
        /\ below[k] = below[k - 1] \cup UNION {Refs(e[n]) : n \in below[k - 1]}
    BY <1>3, <2>1
  <2>3. ASSUME NEW n \in below[k + 1] \ below[k] PROVE k + 1 <= Level(e[n])
    <3>1. PICK m \in below[k] : n \in Refs(e[m])
      BY <2>2
    <3>2. m \in DOMAIN e /\ m \notin below[k - 1]
      BY <1>4, <2>1, <2>2, <3>1
    <3>3. k <= Level(e[m])
      BY <1>6, <3>2
    <3>4. Level(e[m]) + 1 <= Level(e[n]) /\ Level(e[m]) \in 0 .. 6 /\ Level(e[n]) \in 0 .. 6
      BY <3>1, <3>2, RefsLeadDown, Levels
    <3> QED
      BY <3>3, <3>4
  <2>4. ASSUME NEW n \in below[k + 1] PROVE n \in S \/ \E m \in below[k] : n \in Refs(e[m])
    <3>1. CASE n \in below[k]
      BY <1>6, <3>1
    <3>2. CASE n \notin below[k]
      BY <2>2, <3>2
    <3> QED
      BY <3>1, <3>2
  <2>5. S \subseteq below[k + 1] /\ below[k] \subseteq below[k + 1]
    BY <1>6, <2>2
  <2> QED
    BY <2>1, <2>3, <2>4, <2>5
<1>7. 7 \in Good /\ 6 \in 0 .. 7
  <2> HIDE DEF Good
  <2>1. \A k \in 1 .. 7 : k \in Good
    BY <1>5, <1>6, StepByStep
  <2> QED
    BY <2>1
<1>8. /\ S \subseteq below[7] /\ below[6] \subseteq below[7]
      /\ \A n \in below[7] \ below[6] : 7 <= Level(e[n])
      /\ \A n \in below[7] : n \in S \/ \E m \in below[6] : n \in Refs(e[m])
      /\ below[7] = below[6] \cup UNION {Refs(e[n]) : n \in below[6]}
  BY <1>3, <1>7
<1>9. below[7] = below[6]
  <2>1. ASSUME NEW n \in below[7] \ below[6] PROVE FALSE
    <3>1. 7 <= Level(e[n]) /\ Level(e[n]) \in 0 .. 6
      BY <1>8, Levels
    <3> QED
      BY <3>1
  <2> QED
    BY <1>8, <2>1
<1>10. \A m \in below[7] : Refs(e[m]) \subseteq below[7]
  BY <1>8, <1>9
<1>11. \A n \in below[7] : n \in S \/ \E m \in below[7] : n \in Refs(e[m])
  BY <1>8, <1>9
<1>12. below[7] \subseteq DOMAIN e
  BY <1>4
<1> QED
  BY <1>3, <1>8, <1>10, <1>11, <1>12

\* What is below faces and solids is below their level, or is one of them.
LEMMA DescendantsAreLower ==
    ASSUME NEW e, Whole(e), NEW S \in SUBSET DOMAIN e, NEW l \in Nat,
           \A n \in S : l <= Level(e[n])
    PROVE  \A n \in Descendants(e, S) : l <= Level(e[n])
<1> DEFINE D == Descendants(e, S)
           Wrong == {Level(e[n]) : n \in {m \in D : Level(e[m]) < l}}
<1>1. /\ D \subseteq DOMAIN e
      /\ \A n \in D : n \in S \/ \E m \in D : n \in Refs(e[m])
  BY DescendantsClosed
<1> HIDE DEF D
<1>2. \A n : Level(e[n]) \in Nat
  BY Levels
<1> SUFFICES ASSUME NEW n \in D, ~ (l <= Level(e[n])) PROVE FALSE
  BY DEF D
<1>3. Wrong \in SUBSET Nat /\ Level(e[n]) \in Wrong
  BY <1>2
<1>4. PICK i \in Wrong : \A j \in Wrong : i <= j
  BY <1>3, HasLeast
<1>5. PICK m \in D : Level(e[m]) < l /\ i = Level(e[m])
  BY <1>4
<1>6. m \notin S
  BY <1>2, <1>5
<1>7. PICK o \in D : m \in Refs(e[o])
  BY <1>1, <1>6
<1>8. Level(e[o]) + 1 <= Level(e[m])
  BY <1>1, <1>7, RefsLeadDown
<1>9. Level(e[o]) < l /\ Level(e[o]) < i /\ Level(e[o]) \in Wrong
  BY <1>2, <1>5, <1>8
<1>10. i <= Level(e[o])
  BY <1>4, <1>9
<1> QED
  BY <1>2, <1>5, <1>9, <1>10

\* Every entity is one that counts, or something refers to it.
InUse(e) == \A n \in DOMAIN e : e[n].kind \in Roots \/ \E m \in DOMAIN e : n \in Refs(e[m])

\* That is what it means to have no orphans: going up from an entity ends.
LEMMA NoOrphans == ASSUME NEW e, Whole(e) PROVE Orphans(e) = {} <=> InUse(e)
<1> DEFINE S == {n \in DOMAIN e : e[n].kind \in Roots}
           D == Descendants(e, S)
<1>1. /\ S \subseteq D /\ D \subseteq DOMAIN e
      /\ \A m \in D : Refs(e[m]) \subseteq D
      /\ \A n \in D : n \in S \/ \E m \in D : n \in Refs(e[m])
  <2>1. S \in SUBSET DOMAIN e
    OBVIOUS
  <2> HIDE DEF S
  <2> QED
    BY <2>1, DescendantsClosed
<1>2. Orphans(e) = DOMAIN e \ D
  BY DEF Orphans
<1> HIDE DEF D
<1>3. ASSUME DOMAIN e \ D = {} PROVE InUse(e)
  BY <1>1, <1>3 DEF InUse
<1>4. ASSUME InUse(e) PROVE DOMAIN e \ D = {}
  <2> SUFFICES ASSUME NEW n \in DOMAIN e \ D PROVE FALSE
    OBVIOUS
  <2> DEFINE Left == {Level(e[m]) : m \in DOMAIN e \ D}
  <2>1. \A m : Level(e[m]) \in Nat
    BY Levels
  <2>2. Left \in SUBSET Nat /\ Level(e[n]) \in Left
    BY <2>1
  <2>3. PICK i \in Left : \A j \in Left : i <= j
    BY <2>2, HasLeast
  <2>4. PICK m \in DOMAIN e \ D : i = Level(e[m])
    BY <2>3
  <2>5. m \notin S
    BY <1>1, <2>4
  <2>6. PICK o \in DOMAIN e : m \in Refs(e[o])
    BY <1>4, <2>4, <2>5 DEF InUse
  <2>7. o \notin D
    BY <1>1, <2>4, <2>6
  <2>8. Level(e[o]) + 1 <= Level(e[m]) /\ Level(e[o]) \in Left
    BY <2>6, <2>7, RefsLeadDown
  <2>9. i <= Level(e[o])
    BY <2>3, <2>8
  <2> QED
    BY <2>1, <2>4, <2>8, <2>9
<1> QED
  BY <1>2, <1>3, <1>4

\* What goes are candidates, and with each of them all that refers to it; a candidate that
\* stays has something that refers to it and stays too.
LEMMA SweptKeepsAParent ==
    ASSUME NEW e, Whole(e), NEW C
    PROVE  \E gone \in SUBSET C :
              /\ \A n \in C \ gone : \E m \in DOMAIN e \ gone : n \in Refs(e[m])
              /\ Swept(e, C) = [n \in DOMAIN e \ gone |-> e[n]]
<1>1. PICK gone : SweepSteps(e, C, gone)
  BY SweepInSteps
<1>2. Depth = 7
  BY DEF Depth
<1>3. /\ gone \in [0 .. 7 -> SUBSET C] /\ gone[0] = {}
      /\ \A k \in 1 .. 7 : gone[k] = {n \in C : Parents(e, n) \subseteq gone[k - 1]}
      /\ Swept(e, C) = [n \in DOMAIN e \ gone[7] |-> e[n]]
  BY <1>1, <1>2 DEF SweepSteps
<1> DEFINE Good == {k \in 1 .. 7 : gone[k - 1] \subseteq gone[k]
                                   /\ \A n \in gone[k] \ gone[k - 1] : k - 1 <= Level(e[n])}
<1>4. \A n : Level(e[n]) \in 0 .. 6
  BY Levels
<1>5. 1 \in Good
  <2>1. 1 \in 1 .. 7 /\ 1 - 1 = 0
    OBVIOUS
  <2> QED
    BY <1>3, <1>4, <2>1
<1>6. ASSUME NEW k \in 1 .. 7, k \in Good, k < 7 PROVE k + 1 \in Good
  <2>1. k + 1 \in 1 .. 7 /\ (k + 1) - 1 = k
    BY <1>6
  <2>2. /\ gone[k + 1] = {n \in C : Parents(e, n) \subseteq gone[k]}
        /\ gone[k] = {n \in C : Parents(e, n) \subseteq gone[k - 1]}
    BY <1>3, <2>1
  <2>3. ASSUME NEW n \in gone[k + 1] \ gone[k] PROVE k <= Level(e[n])
    <3>1. PICK m \in Parents(e, n) : m \notin gone[k - 1]
      BY <2>2
    <3>2. m \in gone[k] \ gone[k - 1] /\ m \in DOMAIN e /\ n \in Refs(e[m])
      BY <2>2, <3>1 DEF Parents
    <3>3. k - 1 <= Level(e[m])
      BY <1>6, <3>2
    <3>4. Level(e[m]) + 1 <= Level(e[n])
      BY <3>2, RefsLeadDown
    <3> QED
      BY <1>4, <3>3, <3>4
  <2>4. gone[k] \subseteq gone[k + 1]
    BY <1>6, <2>2
  <2> QED
    BY <2>1, <2>3, <2>4
<1>7. 7 \in Good
  <2> HIDE DEF Good
  <2>1. \A k \in 1 .. 7 : k \in Good
    BY <1>5, <1>6, StepByStep
  <2> QED
    BY <2>1
<1>8. /\ gone[7] = {n \in C : Parents(e, n) \subseteq gone[6]}
      /\ \A n \in gone[7] \ gone[6] : 6 <= Level(e[n])
  BY <1>3, <1>7
<1>9. ASSUME NEW n \in C \ gone[7] PROVE \E m \in DOMAIN e \ gone[7] : n \in Refs(e[m])
  <2>1. PICK m \in Parents(e, n) : m \notin gone[6]
    BY <1>8
  <2>2. m \in DOMAIN e /\ n \in Refs(e[m])
    BY <2>1 DEF Parents
  <2>3. Level(e[m]) + 1 <= Level(e[n])
    BY <2>2, RefsLeadDown
  <2>4. m \notin gone[7]
    <3> SUFFICES ASSUME m \in gone[7] PROVE FALSE
      OBVIOUS
    <3>1. 6 <= Level(e[m])
      BY <1>8, <2>1
    <3> QED
      BY <1>4, <2>3, <3>1
  <2> QED
    BY <2>2, <2>4
<1>10. gone[7] \in SUBSET C
  BY <1>3
<1> QED
  BY <1>3, <1>9, <1>10

\* Whatever is no candidate is one that counts, or something refers to it that is no
\* candidate either.
Spares(e, C) ==
    \A n \in DOMAIN e \ C : e[n].kind \in Roots \/ \E m \in DOMAIN e \ C : n \in Refs(e[m])

\* Then a collection leaves no orphans.
LEMMA SweptIsInUse ==
    ASSUME NEW e, Whole(e), NEW C, Spares(e, C)
    PROVE  InUse(Swept(e, C))
<1>1. PICK gone \in SUBSET C :
         /\ \A n \in C \ gone : \E m \in DOMAIN e \ gone : n \in Refs(e[m])
         /\ Swept(e, C) = [n \in DOMAIN e \ gone |-> e[n]]
  BY SweptKeepsAParent
<1> DEFINE w == [n \in DOMAIN e \ gone |-> e[n]]
<1>2. DOMAIN w = DOMAIN e \ gone /\ \A n \in DOMAIN w : w[n] = e[n]
  OBVIOUS
<1> HIDE DEF w
<1>3. ASSUME NEW n \in DOMAIN w PROVE w[n].kind \in Roots \/ \E m \in DOMAIN w : n \in Refs(w[m])
  <2>1. CASE n \in C
    BY <1>1, <1>2, <2>1
  <2>2. CASE n \notin C
    BY <1>1, <1>2, <2>2 DEF Spares
  <2> QED
    BY <2>1, <2>2
<1>4. InUse(w)
  BY <1>3 DEF InUse
<1> QED
  BY <1>1, <1>4 DEF w

-----------------------------------------------------------------------------
(* What the collections of the two passes are told to spare.               *)

\* Who refers to what: a style is listed, a face or an entity above it is not.
LEMMA Referrers ==
    ASSUME NEW e, Whole(e), NEW m \in DOMAIN e, NEW n \in Refs(e[m])
    PROVE  /\ e[n].kind = "style" => e[m].kind \in {"presentation", "layer"}
           /\ e[m].kind \in {"edge", "face", "shell", "solid", "style", "usage",
                             "representation", "presentation", "layer"}
<1>1. n \in DOMAIN e /\ Level(e[m]) + 1 <= Level(e[n])
  BY RefsLeadDown
<1>2. e[m].kind \in {"edge", "face", "shell", "solid", "style", "usage",
                     "representation", "presentation", "layer"}
  <2> SUFFICES ASSUME e[m].kind \notin {"edge", "face", "shell", "solid", "style", "usage",
                                        "representation", "presentation", "layer"}
               PROVE  FALSE
    OBVIOUS
  <2> QED
    BY DEF Refs
<1>3. ASSUME e[n].kind = "style" PROVE e[m].kind \in {"presentation", "layer"}
  <2>1. Level(e[n]) = 1 /\ Level(e[m]) \in 0 .. 6
    BY <1>3, Levels
  <2>2. Level(e[m]) = 0
    BY <1>1, <2>1
  <2>3. e[m].kind \in {"usage", "representation", "presentation", "layer"}
    <3>1. e[m].kind \notin {"edge", "face", "shell", "solid", "style"}
      BY <2>2, Levels
    <3> QED
      BY <1>2, <3>1
  <2>4. e[m].kind # "usage"
    <3> SUFFICES ASSUME e[m].kind = "usage" PROVE FALSE
      OBVIOUS
    <3>1. n \in OfKind(e, "face")
      BY References DEF Whole, OfKind
    <3> QED
      BY <1>3, <3>1 DEF OfKind
  <2>5. e[m].kind # "representation"
    <3> SUFFICES ASSUME e[m].kind = "representation" PROVE FALSE
      OBVIOUS
    <3>1. n \in OfKind(e, "solid")
      BY References DEF Whole, OfKind
    <3> QED
      BY <1>3, <3>1 DEF OfKind
  <2> QED
    BY <2>3, <2>4, <2>5
<1> QED
  BY <1>2, <1>3

\* Where a vertex gives way to another, it is the end of an edge around an interface.
LEMMA VertexReplacedAround ==
    ASSUME NEW e, Whole(e), NEW ps, PlansOn(e, ps), NEW v \in OfKind(e, "vertex"),
           VertexOf(e, ps)[v] # v
    PROVE  \E n \in Around(e, ps) : v \in ToSet(e[n].ends)
<1> DEFINE VL == VertexLinks(e, ps)
<1>1. IsFiniteSet(VL) /\ VL \in SUBSET SUBSET OfKind(e, "vertex")
  BY LinksAreAlike
<1>2. VertexOf(e, ps)[v] \in Connected(VL, v)
  <2>1. OfKind(e, "vertex") \in SUBSET Int /\ IsFiniteSet(OfKind(e, "vertex"))
    BY KindsAreFinite
  <2>2. VertexOf(e, ps)[v] = Root(VL, v)
    BY DEF VertexOf
  <2> HIDE DEF VL
  <2> QED
    BY <1>1, <2>1, <2>2, RootIsConnected
<1>3. v \in UNION VL
  <2> SUFFICES ASSUME v \notin UNION VL PROVE FALSE
    OBVIOUS
  <2> HIDE DEF VL
  <2>1. v \in {v} /\ \A l \in VL : l \cap {v} # {} => l \subseteq {v}
    OBVIOUS
  <2>2. Connected(VL, v) \subseteq {v}
    BY <1>1, <2>1, ConnectedInside
  <2> QED
    BY <1>2, <2>2
<1>4. PICK l \in EdgeLinks(e, ps) : v \in UNION {ToSet(e[n].ends) : n \in l}
  BY <1>3 DEF VertexLinks, Alike
<1>5. l \subseteq Around(e, ps)
  BY LinksAreAlike DEF Around
<1> QED
  BY <1>4, <1>5

\* The interfaces of a plan lie between its solids, and what it retains is theirs.
LEMMA PlansAreOfSolids ==
    ASSUME NEW e, Whole(e), NEW p \in PartitionPlans(e)
    PROVE  /\ \A i \in p.interfaces : \A f \in FacesOf(i) :
                 \E n \in p.solids : f \in e[e[n].shell].faces
           /\ \A f \in p.retained : \E n \in p.solids : f \in e[e[n].shell].faces
           /\ Plannable(e, p.solids)
<1> DEFINE found == Interfaces(e)
           mine(c) == {i \in found : SolidsOf(i) \subseteq c}
           plan(c) == [solids |-> c, interfaces |-> mine(c),
                       retained |-> UNION {e[e[n].shell].faces : n \in c}
                                    \ UNION {FacesOf(i) : i \in mine(c)}]
<1>1. Plannable(e, p.solids) /\ \E c : p = plan(c)
  BY DEF PartitionPlans
<1>2. PICK c : p = plan(c)
  BY <1>1
<1> HIDE DEF found
<1>3. p.solids = c /\ p.interfaces = mine(c)
      /\ p.retained = UNION {e[e[n].shell].faces : n \in c} \ UNION {FacesOf(i) : i \in mine(c)}
  <2> HIDE DEF mine
  <2> QED
    BY <1>2
<1>4. \A f \in p.retained : \E n \in p.solids : f \in e[e[n].shell].faces
  BY <1>3
<1>5. ASSUME NEW i \in p.interfaces, NEW f \in FacesOf(i)
      PROVE  \E n \in p.solids : f \in e[e[n].shell].faces
  <2>1. i \in found /\ SolidsOf(i) \subseteq p.solids
    BY <1>3
  <2>2. i \subseteq Neutral(e)
    <3> DEFINE key == [d \in Neutral(e) |-> FaceKey(e, d[2])]
               bucket == [d \in Neutral(e) |-> {x \in Neutral(e) : key[x] = key[d]}]
    <3>1. i \in Range(bucket)
      BY <2>1 DEF Interfaces, found
    <3> QED
      BY <3>1 DEF Range
  <2>3. PICK d \in i : f = d[2]
    BY DEF FacesOf
  <2>4. d[1] \in p.solids
    BY <2>1, <2>3 DEF SolidsOf
  <2>5. f \in e[e[d[1]].shell].faces
    BY <2>2, <2>3 DEF Neutral
  <2> QED
    BY <2>4, <2>5
<1> QED
  BY <1>1, <1>4, <1>5

\* What a partition may collect is closed, holds the faces, edges and vertices around the
\* interfaces and what is retained, but nothing that counts.
LEMMA RemainsAreClosed ==
    ASSUME NEW e, Whole(e)
    PROVE  LET ps == PartitionPlans(e)
               C == Remains(e, ps)
           IN  /\ C \subseteq DOMAIN e
               /\ \A m \in C : Refs(e[m]) \subseteq C /\ e[m].kind \notin Roots
               /\ Retained(ps) \subseteq C
               /\ \A n \in Around(e, ps) : ToSet(e[n].ends) \subseteq C
               /\ \A p \in ps : p.solids \subseteq C /\ OldStyles(e, p) \subseteq C
<1> DEFINE ps == PartitionPlans(e)
           S == UNION {p.solids : p \in ps}
           D == Descendants(e, S)
           T == UNION {OldStyles(e, p) : p \in ps}
           C == Remains(e, ps)
<1>1. C = D \cup T
  BY DEF Remains
<1>2. S \in SUBSET DOMAIN e /\ \A n \in S : e[n].kind = "solid"
  BY PlansFit DEF Fitting, OfKind
<1>3. /\ S \subseteq D /\ D \subseteq DOMAIN e
      /\ \A m \in D : Refs(e[m]) \subseteq D
  <2> HIDE DEF S
  <2> QED
    BY <1>2, DescendantsClosed
<1>4. \A m \in D : e[m].kind \notin Roots
  <2>1. \A n \in S : 1 <= Level(e[n])
    BY <1>2, Levels
  <2> HIDE DEF S, D
  <2>2. \A n \in Descendants(e, S) : 1 <= Level(e[n])
    BY <1>2, <2>1, DescendantsAreLower
  <2>3. \A n : e[n].kind \in Roots => Level(e[n]) = 0
    BY Levels
  <2> QED
    BY <2>2, <2>3 DEF D
<1>5. \A t \in T : t \in DOMAIN e /\ e[t].kind = "style" /\ Refs(e[t]) \subseteq S
  <2> SUFFICES ASSUME NEW p \in ps, NEW n \in p.solids, NEW t \in StylesOf(e, n)
               PROVE  t \in DOMAIN e /\ e[t].kind = "style" /\ Refs(e[t]) \subseteq S
    BY DEF OldStyles
  <2>1. t \in DOMAIN e /\ e[t].kind = "style" /\ e[t].item = n
    BY DEF StylesOf, OfKind
  <2>2. Refs(e[t]) = {n}
    BY <2>1, References
  <2> QED
    BY <2>1, <2>2
<1>6. \A p \in ps : p.solids \subseteq C /\ OldStyles(e, p) \subseteq C
  <2>1. \A p \in ps : p.solids \subseteq S /\ OldStyles(e, p) \subseteq T
    OBVIOUS
  <2> HIDE DEF S, D, T, C
  <2> QED
    BY <1>1, <1>3, <2>1
<1>7. ASSUME NEW p \in ps, NEW n \in p.solids, NEW f \in e[e[n].shell].faces
      PROVE  f \in D /\ f \in OfKind(e, "face")
  <2>1. n \in S /\ n \in D
    BY <1>3
  <2>2. n \in OfKind(e, "solid") /\ e[n].kind = "solid"
    BY <1>2, <2>1 DEF OfKind
  <2>3. e[n].shell \in OfKind(e, "shell") /\ e[e[n].shell].kind = "shell"
    BY <2>2 DEF Whole, OfKind
  <2>4. f \in OfKind(e, "face")
    BY <2>3 DEF Whole
  <2>5. e[n].shell \in D
    BY <1>3, <2>1, <2>2, References
  <2>6. f \in Refs(e[e[n].shell])
    BY <2>3, References
  <2> QED
    BY <1>3, <2>4, <2>5, <2>6
<1>8. Retained(ps) \subseteq D
  <2> SUFFICES ASSUME NEW p \in ps, NEW f \in p.retained PROVE f \in D
    BY DEF Retained
  <2>1. PICK n \in p.solids : f \in e[e[n].shell].faces
    BY PlansAreOfSolids
  <2> QED
    BY <1>7, <2>1
<1>9. ASSUME NEW n \in Around(e, ps) PROVE ToSet(e[n].ends) \subseteq D
  <2>0. PICK p \in ps : \E i \in p.interfaces : \E f \in FacesOf(i) : n \in EdgesOf(e, f)
    BY <1>9 DEF Around, AllInterfaces
  <2>a. PICK i \in p.interfaces : \E f \in FacesOf(i) : n \in EdgesOf(e, f)
    BY <2>0
  <2>1. PICK f \in FacesOf(i) : n \in EdgesOf(e, f)
    BY <2>a
  <2>2. PICK m \in p.solids : f \in e[e[m].shell].faces
    BY <2>1, PlansAreOfSolids
  <2>3. f \in D /\ f \in OfKind(e, "face") /\ e[f].kind = "face"
    BY <1>7, <2>2 DEF OfKind
  <2>4. n \in Refs(e[f])
    BY <2>1, <2>3, References DEF EdgesOf, Uses
  <2>5. n \in D /\ n \in OfKind(e, "edge") /\ e[n].kind = "edge"
    <3>1. n \in OfKind(e, "edge")
      BY <2>1, <2>3, EndsAndUses
    <3> QED
      BY <1>3, <2>3, <2>4, <3>1 DEF OfKind
  <2>6. Refs(e[n]) = ToSet(e[n].ends)
    BY <2>5, References
  <2> QED
    BY <1>3, <2>5, <2>6
<1> HIDE DEF S, D, T, C
<1>10. C \subseteq DOMAIN e /\ \A m \in C : Refs(e[m]) \subseteq C /\ e[m].kind \notin Roots
  <2>1. "style" \notin Roots
    BY DEF Roots
  <2> QED
    BY <1>1, <1>3, <1>4, <1>5, <2>1
<1>11. Retained(ps) \subseteq C /\ \A n \in Around(e, ps) : ToSet(e[n].ends) \subseteq C
  BY <1>1, <1>8, <1>9
<1> HIDE DEF ps
<1>12. /\ C \subseteq DOMAIN e
       /\ \A m \in C : Refs(e[m]) \subseteq C /\ e[m].kind \notin Roots
       /\ Retained(ps) \subseteq C
       /\ \A n \in Around(e, ps) : ToSet(e[n].ends) \subseteq C
       /\ \A p \in ps : p.solids \subseteq C /\ OldStyles(e, p) \subseteq C
  BY <1>6, <1>10, <1>11
<1> QED
  BY <1>12 DEF C, ps

\* Welding keeps what refers to an entity that stays.
LEMMA WeldedSpares ==
    ASSUME NEW e, Whole(e), NEW m \in DOMAIN e, NEW n \in Refs(e[m]),
           n \notin Remains(e, PartitionPlans(e))
    PROVE  m \notin Remains(e, PartitionPlans(e)) /\ n \in Refs(Welded(e, PartitionPlans(e))[m])
<1> DEFINE ps == PartitionPlans(e)
           C == Remains(e, ps)
           w == Welded(e, ps)
<1>1. /\ \A x \in C : Refs(e[x]) \subseteq C
      /\ Retained(ps) \subseteq C
      /\ \A x \in Around(e, ps) : ToSet(e[x].ends) \subseteq C
  BY RemainsAreClosed
<1>2. PlansOn(e, ps)
  BY PlansFit DEF Fitting
<1>3. m \notin C
  BY <1>1
<1>4. n \notin C
  OBVIOUS
<1> HIDE DEF C, ps
<1>5. /\ \A x \in DOMAIN e : w[x].kind = e[x].kind
      /\ \A x \in OfKind(e, "edge") : w[x].ends = [k \in {1, 2} |-> VertexOf(e, ps)[e[x].ends[k]]]
      /\ \A x \in OfKind(e, "face") :
            /\ w[x].support = e[x].support
            /\ w[x].loop = IF x \in Retained(ps)
                           THEN [k \in DOMAIN e[x].loop |-> UseOf(e, ps, e[x].loop[k])]
                           ELSE e[x].loop
      /\ \A x \in DOMAIN e : e[x].kind \notin {"edge", "face"} => w[x] = e[x]
  BY <1>2, WeldedFields
<1> HIDE DEF w
<1>6. CASE e[m].kind = "edge"
  <2>1. m \in OfKind(e, "edge") /\ w[m].kind = "edge"
    BY <1>5, <1>6 DEF OfKind
  <2>2. PICK k \in {1, 2} : n = e[m].ends[k]
    BY <1>6, <2>1, References, EndsAndUses
  <2>3. n \in OfKind(e, "vertex") /\ n \in ToSet(e[m].ends)
    BY <2>1, <2>2, EndsAndUses
  <2>4. VertexOf(e, ps)[n] = n
    <3> SUFFICES ASSUME VertexOf(e, ps)[n] # n PROVE FALSE
      OBVIOUS
    <3>1. PICK x \in Around(e, ps) : n \in ToSet(e[x].ends)
      BY <1>2, <2>3, VertexReplacedAround
    <3> QED
      BY <1>1, <1>4, <3>1
  <2>5. w[m].ends = [j \in {1, 2} |-> VertexOf(e, ps)[e[m].ends[j]]]
    BY <1>5, <2>1
  <2>6. n \in ToSet(w[m].ends)
    <3>1. k \in DOMAIN w[m].ends /\ w[m].ends[k] = n
      BY <2>2, <2>4, <2>5
    <3> QED
      BY <3>1 DEF ToSet
  <2> QED
    BY <1>3, <2>1, <2>6, References DEF C, w, ps
<1>7. CASE e[m].kind = "face"
  <2>1. m \in OfKind(e, "face") /\ w[m].kind = "face" /\ m \notin Retained(ps)
    BY <1>1, <1>3, <1>5, <1>7 DEF OfKind
  <2>2. w[m].support = e[m].support /\ w[m].loop = e[m].loop
    BY <1>5, <2>1
  <2>3. Refs(w[m]) = Refs(e[m])
    BY <1>7, <2>1, <2>2, References
  <2> QED
    BY <1>3, <2>3 DEF C, w, ps
<1>8. CASE e[m].kind \notin {"edge", "face"}
  <2>1. w[m] = e[m]
    BY <1>5, <1>8
  <2> QED
    BY <1>3, <2>1 DEF C, w, ps
<1> QED
  BY <1>6, <1>7, <1>8

\* What rebuilding lists: all that is not replaced, and the new style for an old one.
LEMMA RebuiltLists ==
    ASSUME NEW e, Whole(e), NEW ps, Fitting(e, ps), NEW m \in DOMAIN e
    PROVE  /\ e[m].kind = "representation" =>
                 \A n \in e[m].items : (\A p \in ps : n \notin p.solids)
                                          => n \in Rebuilt(e, ps)[m].items
           /\ e[m].kind \in {"presentation", "layer"} =>
                 /\ \A n \in e[m].items : (\A p \in ps : n \notin OldStyles(e, p))
                                             => n \in Rebuilt(e, ps)[m].items
                 /\ \A p \in ps : OldStyles(e, p) \cap e[m].items # {}
                                     => NewId(e, ps, p) + 2 \in Rebuilt(e, ps)[m].items
<1> DEFINE id == [p \in ps |-> NewId(e, ps, p)]
           solid == [p \in ps |-> id[p] + 1]
           style == [p \in ps |-> id[p] + 2]
           Listed(n) ==
               CASE e[n].kind = "representation" ->
                       [e[n] EXCEPT !.items =
                           Replaced(@, {p \in ps : p.solids \subseteq @},
                                    [p \in ps |-> p.solids], solid)]
                 [] e[n].kind \in {"presentation", "layer"} ->
                       [e[n] EXCEPT !.items =
                           Replaced(@, ps, [p \in ps |-> OldStyles(e, p)], style)]
                 [] OTHER -> e[n]
           New(p, n) ==
               CASE n = id[p] -> [kind |-> "shell", faces |-> p.retained]
                 [] n = solid[p] -> [kind |-> "solid", shell |-> id[p]]
                 [] n = style[p] -> [kind |-> "style", item |-> solid[p],
                                     look |-> CHOOSE l \in Looks(e, p.solids) : TRUE]
           Span(p) == id[p] .. style[p]
           R == [n \in DOMAIN e \cup UNION {Span(p) : p \in ps} |->
                    IF n \in DOMAIN e THEN Listed(n)
                    ELSE New(CHOOSE p \in ps : n \in Span(p), n)]
<1>1. Rebuilt(e, ps) = R
  BY DEF Rebuilt
<1>2. R[m] = Listed(m)
  <2> HIDE DEF Listed, New, Span
  <2> QED
    OBVIOUS
<1>3. Rebuilt(e, ps)[m] = Listed(m)
  BY <1>1, <1>2, Zenon
<1> HIDE DEF R, New, Span
<1>4. ASSUME e[m].kind = "representation", NEW n \in e[m].items, \A p \in ps : n \notin p.solids
      PROVE  n \in Rebuilt(e, ps)[m].items
  <2> DEFINE some == {p \in ps : p.solids \subseteq e[m].items}
             x == Replaced(e[m].items, some, [p \in ps |-> p.solids], solid)
  <2>1. Listed(m) = [e[m] EXCEPT !.items = x]
    BY <1>4
  <2>2. n \in x
    <3> HIDE DEF solid
    <3> QED
      BY <1>4 DEF Replaced
  <2>3. DOMAIN e[m] = {"kind", "items"}
    BY <1>4 DEF Whole, Attributes
  <2> HIDE DEF x, Listed
  <2> QED
    BY <1>3, <2>1, <2>2, <2>3
<1>5. ASSUME e[m].kind \in {"presentation", "layer"}
      PROVE  /\ \A n \in e[m].items : (\A p \in ps : n \notin OldStyles(e, p))
                                         => n \in Rebuilt(e, ps)[m].items
             /\ \A p \in ps : OldStyles(e, p) \cap e[m].items # {}
                                 => NewId(e, ps, p) + 2 \in Rebuilt(e, ps)[m].items
  <2> DEFINE old == [p \in ps |-> OldStyles(e, p)]
             x == Replaced(e[m].items, ps, old, style)
  <2>1. Listed(m) = [e[m] EXCEPT !.items = x]
    BY <1>5
  <2>2. \A p \in ps : old[p] = OldStyles(e, p) /\ style[p] = NewId(e, ps, p) + 2
    OBVIOUS
  <2> HIDE DEF old, style
  <2>3. \A n \in e[m].items : (\A p \in ps : n \notin OldStyles(e, p)) => n \in x
    BY <2>2 DEF Replaced
  <2>4. \A p \in ps : OldStyles(e, p) \cap e[m].items # {} => NewId(e, ps, p) + 2 \in x
    BY <2>2 DEF Replaced
  <2>5. DOMAIN e[m] = {"kind", "items"}
    BY <1>5 DEF Whole, Attributes
  <2> HIDE DEF x, Listed
  <2>6. Rebuilt(e, ps)[m].items = x
    BY <1>3, <2>1, <2>5
  <2> QED
    BY <2>3, <2>4, <2>6
<1> QED
  BY <1>4, <1>5

\* A partition spares what it does not replace: what refers to it stays and still does, and
\* the new shell, solid and style hang on a list that had an old style.
LEMMA PartitionSpares ==
    ASSUME NEW b, Whole(b), InUse(b)
    PROVE  Spares(Rebuilt(Welded(b, PartitionPlans(b)), PartitionPlans(b)),
                  Remains(b, PartitionPlans(b)))
<1> DEFINE ps == PartitionPlans(b)
           w == Welded(b, ps)
           r == Rebuilt(w, ps)
           C == Remains(b, ps)
           id(p) == NewId(w, ps, p)
<1>1. Fitting(b, ps) /\ PlansOn(b, ps)
  BY PlansFit DEF Fitting
<1>2. Whole(w) /\ Fitting(w, ps) /\ DOMAIN w = DOMAIN b
  BY <1>1, WeldedIsWhole, PlansStayFit, WeldedEntities
<1>3. /\ \A n \in DOMAIN b : w[n].kind = b[n].kind
      /\ \A n \in DOMAIN b : b[n].kind \notin {"edge", "face"} => w[n] = b[n]
  BY <1>1, WeldedFields
<1>4. /\ C \subseteq DOMAIN b
      /\ \A m \in C : b[m].kind \notin Roots
      /\ \A p \in ps : p.solids \subseteq C /\ OldStyles(b, p) \subseteq C
  BY RemainsAreClosed
<1>5. \A m \in DOMAIN b : \A n \in Refs(b[m]) : n \notin C => m \notin C /\ n \in Refs(w[m])
  BY WeldedSpares
<1>6. \A p \in ps : p.solids # {} /\ \A n \in p.solids : StylesOf(b, n) # {}
  <2> SUFFICES ASSUME NEW p \in ps PROVE p.solids # {} /\ \A n \in p.solids : StylesOf(b, n) # {}
    OBVIOUS
  <2>1. p.solids # {} /\ Plannable(b, p.solids)
    BY <1>1, PlansAreOfSolids DEF Fitting
  <2>2. ASSUME NEW n \in p.solids, StylesOf(b, n) = {} PROVE FALSE
    <3>1. Cardinality(StylesOf(b, n)) = 1
      BY <2>1 DEF Plannable
    <3> QED
      BY <2>2, <3>1, FS_EmptySet
  <2> QED
    BY <2>1, <2>2
<1> HIDE DEF ps, C
<1>7. \A p \in ps : OldStyles(w, p) = OldStyles(b, p)
  <2>1. \A n : StylesOf(w, n) = StylesOf(b, n)
    BY <1>2, <1>3 DEF StylesOf, OfKind
  <2> QED
    BY <2>1 DEF OldStyles
<1> HIDE DEF w
<1>8. RebuiltFrom(w, ps, r)
  BY <1>2, RebuiltEntities
<1>9. \A m \in DOMAIN w :
         /\ w[m].kind = "representation" =>
               \A n \in w[m].items : (\A p \in ps : n \notin p.solids) => n \in r[m].items
         /\ w[m].kind \in {"presentation", "layer"} =>
               /\ \A n \in w[m].items : (\A p \in ps : n \notin OldStyles(w, p)) => n \in r[m].items
               /\ \A p \in ps : OldStyles(w, p) \cap w[m].items # {} => id(p) + 2 \in r[m].items
  BY <1>2, RebuiltLists
<1>10. \A p \in ps : /\ id(p) \in Int
                     /\ \A n \in id(p) .. (id(p) + 2) : n \notin DOMAIN w
  BY <1>2, IdsAreFree
<1> HIDE DEF r
<1>11. /\ DOMAIN r = DOMAIN w \cup UNION {id(p) .. (id(p) + 2) : p \in ps}
       /\ \A n \in DOMAIN w :
             /\ r[n].kind = w[n].kind
             /\ w[n].kind \notin {"representation", "presentation", "layer"} => r[n] = w[n]
       /\ \A p \in ps :
             /\ r[id(p) + 1] = [kind |-> "solid", shell |-> id(p)]
             /\ \E l : r[id(p) + 2] = [kind |-> "style", item |-> id(p) + 1, look |-> l]
  BY <1>8 DEF RebuiltFrom
<1> HIDE DEF id
<1>12. ASSUME NEW m \in DOMAIN b, NEW n \in Refs(b[m]), n \notin C
       PROVE  m \in DOMAIN r \ C /\ n \in Refs(r[m])
  <2>1. m \notin C /\ n \in Refs(w[m]) /\ m \in DOMAIN w /\ m \in DOMAIN r
    BY <1>2, <1>5, <1>11, <1>12
  <2>2. CASE w[m].kind \notin {"representation", "presentation", "layer"}
    BY <1>11, <2>1, <2>2
  <2>3. CASE w[m].kind = "representation"
    <3>1. n \in w[m].items
      BY <2>1, <2>3, References
    <3>2. \A p \in ps : n \notin p.solids
      BY <1>4, <1>12
    <3>3. n \in r[m].items /\ r[m].kind = "representation"
      BY <1>9, <1>11, <2>1, <2>3, <3>1, <3>2
    <3> QED
      BY <2>1, <3>3, References
  <2>4. CASE w[m].kind \in {"presentation", "layer"}
    <3>1. n \in w[m].items
      BY <2>1, <2>4, References
    <3>2. \A p \in ps : n \notin OldStyles(w, p)
      BY <1>4, <1>7, <1>12
    <3>3. n \in r[m].items /\ r[m].kind \in {"presentation", "layer"}
      BY <1>9, <1>11, <2>1, <2>4, <3>1, <3>2
    <3> QED
      BY <2>1, <3>3, References
  <2> QED
    BY <2>2, <2>3, <2>4
<1>13. ASSUME NEW n \in DOMAIN w \ C
       PROVE  r[n].kind \in Roots \/ \E m \in DOMAIN r \ C : n \in Refs(r[m])
  <2>1. n \in DOMAIN b /\ r[n].kind = b[n].kind
    BY <1>2, <1>3, <1>11
  <2>2. CASE b[n].kind \in Roots
    BY <2>1, <2>2
  <2>3. CASE b[n].kind \notin Roots
    <3>1. PICK m \in DOMAIN b : n \in Refs(b[m])
      BY <2>1, <2>3 DEF InUse
    <3> QED
      BY <1>12, <3>1
  <2> QED
    BY <2>2, <2>3
<1>14. ASSUME NEW p \in ps PROVE \E m \in DOMAIN r \ C : id(p) + 2 \in Refs(r[m])
  <2>1. PICK n \in p.solids : StylesOf(b, n) # {}
    BY <1>6
  <2>2. PICK s \in StylesOf(b, n) : TRUE
    BY <2>1
  <2>3. s \in OldStyles(b, p) /\ s \in DOMAIN b /\ b[s].kind = "style"
    BY <2>2 DEF OldStyles, StylesOf, OfKind
  <2>4. PICK m \in DOMAIN b : s \in Refs(b[m])
    BY <2>3 DEF InUse, Roots
  <2>5. b[m].kind \in {"presentation", "layer"}
    BY <2>3, <2>4, Referrers
  <2>6. m \in DOMAIN w /\ w[m] = b[m] /\ s \in w[m].items
    BY <1>2, <1>3, <2>4, <2>5, References
  <2>7. id(p) + 2 \in r[m].items /\ r[m].kind \in {"presentation", "layer"}
    BY <1>7, <1>9, <1>11, <2>3, <2>5, <2>6
  <2>8. m \notin C
    BY <1>4, <2>5 DEF Roots
  <2> QED
    BY <1>11, <2>6, <2>7, <2>8, References
<1>15. ASSUME NEW p \in ps, NEW n \in id(p) .. (id(p) + 2)
       PROVE  \E m \in DOMAIN r \ C : n \in Refs(r[m])
  <2>1. id(p) \in Int /\ id(p) + 1 \notin DOMAIN w /\ id(p) + 2 \notin DOMAIN w
    BY <1>10
  <2>2. id(p) + 1 \in DOMAIN r \ C /\ id(p) + 2 \in DOMAIN r \ C
    <3>1. id(p) + 1 \in id(p) .. (id(p) + 2) /\ id(p) + 2 \in id(p) .. (id(p) + 2)
      BY <2>1
    <3>2. C \subseteq DOMAIN w
      BY <1>2, <1>4
    <3> QED
      BY <1>11, <2>1, <3>1, <3>2
  <2>3. n = id(p) \/ n = id(p) + 1 \/ n = id(p) + 2
    BY <2>1
  <2>4. CASE n = id(p)
    <3> DEFINE x == r[id(p) + 1]
    <3>1. x = [kind |-> "solid", shell |-> id(p)]
      BY <1>11
    <3>2. x.kind = "solid" /\ x.shell = id(p)
      BY <3>1
    <3> QED
      BY <2>2, <2>4, <3>2, References
  <2>5. CASE n = id(p) + 1
    <3> DEFINE x == r[id(p) + 2]
               i == id(p)
    <3>1. PICK l : x = [kind |-> "style", item |-> i + 1, look |-> l]
      BY <1>11
    <3> HIDE DEF x, i
    <3>2. x.kind = "style" /\ x.item = i + 1
      BY <3>1
    <3> QED
      BY <2>2, <2>5, <3>2, References DEF x, i
  <2>6. CASE n = id(p) + 2
    BY <1>14, <2>6
  <2> QED
    BY <2>3, <2>4, <2>5, <2>6
<1>16. Spares(r, C)
  <2> SUFFICES ASSUME NEW n \in DOMAIN r \ C
               PROVE  r[n].kind \in Roots \/ \E m \in DOMAIN r \ C : n \in Refs(r[m])
    BY DEF Spares
  <2>1. CASE n \in DOMAIN w
    BY <1>13, <2>1
  <2>2. CASE n \notin DOMAIN w
    <3>1. PICK p \in ps : n \in id(p) .. (id(p) + 2)
      BY <1>11, <2>2
    <3> QED
      BY <1>15, <3>1
  <2> QED
    BY <2>1, <2>2
<1> QED
  BY <1>16 DEF r, w, C, ps

\* Two groups are the same or have no face in common.
LEMMA GroupsAreApart ==
    ASSUME NEW e, Whole(e), NEW kinds,
           NEW g \in CoalescePlans(e, kinds), NEW h \in CoalescePlans(e, kinds),
           g \cap h # {}
    PROVE  g = h
<1> DEFINE faces == Parsed(e, kinds)
           links == Adjacency(e, faces)
           users == [n \in OfKind(e, "edge") |-> {f \in faces : n \in EdgesOf(e, f)}]
<1>1. g \in Components(links) /\ h \in Components(links)
  BY DEF CoalescePlans, Groups
<1>2. faces \subseteq OfKind(e, "face")
  BY DEF Parsed
<1>3. links \in SUBSET SUBSET OfKind(e, "face")
  <2>1. \A l \in links : l \in Range(users)
    BY DEF Adjacency
  <2>2. \A l \in Range(users) : l \subseteq faces
    <3> HIDE DEF faces
    <3> QED
      BY DEF Range
  <2> HIDE DEF links, users
  <2> QED
    BY <1>2, <2>1, <2>2
<1> HIDE DEF links
<1>4. IsFiniteSet(links)
  BY <1>3, KindsAreFinite, ComponentsAreFinite
<1>5. PICK x : g = Connected(links, x)
  BY <1>1 DEF Components
<1>6. PICK y : h = Connected(links, y)
  BY <1>1 DEF Components
<1>7. PICK z \in g : z \in h
  OBVIOUS
<1>8. Connected(links, z) = g
  BY <1>4, <1>5, <1>7, ConnectedAlike
<1>9. Connected(links, z) = h
  BY <1>4, <1>6, <1>7, ConnectedAlike
<1> QED
  BY <1>8, <1>9

\* Coalescing spares what it does not replace: the face that stays keeps what refers to it,
\* and what goes from lists and shells are candidates.
LEMMA CoalesceSpares ==
    ASSUME NEW b, Whole(b), InUse(b), NEW kinds
    PROVE  LET ps == CoalescePlans(b, kinds)
           IN  Spares(Coalesced(b, ps, kinds), Leftovers(b, ps))
<1> DEFINE ps == CoalescePlans(b, kinds)
           w == Coalesced(b, ps, kinds)
           heads == {Min(g) : g \in ps}
           gone == UNION {g \ {Min(g)} : g \in ps}
           styles == UNION {StylesOf(b, f) : f \in gone}
           D == Descendants(b, UNION ps)
           C == Leftovers(b, ps)
           faces == Parsed(b, kinds)
           trace(n) == Trace(b, Surviving(b, faces, CHOOSE g \in ps : n = Min(g)))
<1>1. C = (D \cup styles) \ heads
  BY DEF Leftovers
<1>2. w = [n \in DOMAIN b |->
             CASE n \in heads -> [b[n] EXCEPT !.loop = trace(n)]
               [] b[n].kind = "shell" -> [b[n] EXCEPT !.faces = @ \ gone]
               [] b[n].kind \in {"presentation", "layer"} -> [b[n] EXCEPT !.items = @ \ styles]
               [] OTHER -> b[n]]
  <2>1. \A n : n \in heads <=> \E g \in ps : n = Min(g)
    OBVIOUS
  <2> HIDE DEF heads
  <2> QED
    BY <2>1 DEF Coalesced
<1>3. \A g \in ps : g \subseteq OfKind(b, "face") /\ Min(g) \in g
  BY GroupsAreFaces
<1>4. heads \cap gone = {}
  <2> SUFFICES ASSUME NEW g \in ps, NEW h \in ps, Min(g) \in h \ {Min(h)} PROVE FALSE
    OBVIOUS
  <2>1. g = h
    BY <1>3, GroupsAreApart
  <2> QED
    BY <2>1
<1>5. UNION ps \in SUBSET DOMAIN b /\ \A f \in UNION ps : b[f].kind = "face"
  BY <1>3 DEF OfKind
<1>6. heads \subseteq UNION ps /\ gone \subseteq UNION ps
  BY <1>3
<1> HIDE DEF ps
<1>7. /\ UNION ps \subseteq D /\ D \subseteq DOMAIN b
      /\ \A m \in D : Refs(b[m]) \subseteq D
  BY <1>5, DescendantsClosed
<1>8. \A n \in D : 4 <= Level(b[n])
  <2>1. \A f \in UNION ps : 4 <= Level(b[f])
    BY <1>5, Levels
  <2> QED
    BY <1>5, <2>1, DescendantsAreLower
<1>9. \A s \in styles : s \in DOMAIN b /\ b[s].kind = "style" /\ b[s].item \in gone
  BY DEF StylesOf, OfKind
<1> HIDE DEF heads, gone, D, C, styles, w, trace
<1>10. /\ \A m \in D : Level(b[m]) \in 4 .. 6
       /\ \A m \in heads : Level(b[m]) = 4 /\ b[m].kind = "face"
       /\ \A n : b[n].kind = "style" => Level(b[n]) = 1
  <2>1. \A n : Level(b[n]) \in 0 .. 6
    BY Levels
  <2> QED
    BY <1>5, <1>6, <1>8, <2>1, Levels
<1>11. ASSUME NEW n \in DOMAIN b \ C, NEW m \in DOMAIN b, n \in Refs(b[m])
       PROVE  m \notin C /\ n \in Refs(w[m])
  <2>1. Level(b[m]) + 1 <= Level(b[n])
    BY <1>11, RefsLeadDown
  <2>2. n \in D => n \in heads
    BY <1>1, <1>11
  <2>3. m \notin D
    <3> SUFFICES ASSUME m \in D PROVE FALSE
      OBVIOUS
    <3>1. n \in heads
      BY <1>7, <1>11, <2>2
    <3>2. Level(b[n]) = 4 /\ Level(b[m]) \in 4 .. 6
      BY <1>10, <3>1
    <3> QED
      BY <2>1, <3>2
  <2>4. n \notin gone
    BY <1>4, <1>6, <1>7, <2>2
  <2>5. m \notin styles
    <3> SUFFICES ASSUME m \in styles PROVE FALSE
      OBVIOUS
    <3>1. Refs(b[m]) = {b[m].item}
      BY <1>9, References
    <3> QED
      BY <1>9, <1>11, <2>4, <3>1
  <2>6. n \notin styles
    <3> SUFFICES ASSUME n \in styles PROVE FALSE
      OBVIOUS
    <3>1. n \in heads
      BY <1>1, <1>11
    <3> QED
      BY <1>9, <1>10, <3>1
  <2>7. m \notin heads
    BY <1>6, <1>7, <2>3
  <2>8. CASE b[m].kind = "shell"
    <3>1. w[m] = [b[m] EXCEPT !.faces = b[m].faces \ gone]
      BY <1>2, <2>7, <2>8
    <3>2. DOMAIN b[m] = {"kind", "faces"}
      BY <2>8 DEF Whole, Attributes
    <3>3. w[m].kind = "shell" /\ w[m].faces = b[m].faces \ gone
      BY <2>8, <3>1, <3>2
    <3> QED
      BY <1>1, <1>11, <2>3, <2>4, <2>5, <2>8, <3>3, References
  <2>9. CASE b[m].kind \in {"presentation", "layer"}
    <3>1. w[m] = [b[m] EXCEPT !.items = b[m].items \ styles]
      BY <1>2, <2>7, <2>9
    <3>2. DOMAIN b[m] = {"kind", "items"}
      BY <2>9 DEF Whole, Attributes
    <3>3. w[m].kind \in {"presentation", "layer"} /\ w[m].items = b[m].items \ styles
      BY <2>9, <3>1, <3>2
    <3>4. Refs(b[m]) = b[m].items /\ Refs(w[m]) = w[m].items
      BY <2>9, <3>3, References
    <3> QED
      BY <1>1, <1>11, <2>3, <2>5, <2>6, <3>3, <3>4
  <2>10. CASE b[m].kind \notin {"shell", "presentation", "layer"}
    <3>1. w[m] = b[m]
      BY <1>2, <2>7, <2>10
    <3> QED
      BY <1>1, <1>11, <2>3, <2>5, <3>1
  <2> QED
    BY <2>8, <2>9, <2>10
<1>12. DOMAIN w = DOMAIN b /\ \A n \in DOMAIN b : w[n].kind = b[n].kind
  BY CoalescedIsWhole DEF w, ps
<1>13. Spares(w, C)
  <2> SUFFICES ASSUME NEW n \in DOMAIN w \ C
               PROVE  w[n].kind \in Roots \/ \E m \in DOMAIN w \ C : n \in Refs(w[m])
    BY DEF Spares
  <2>1. CASE b[n].kind \in Roots
    BY <1>12, <2>1
  <2>2. CASE b[n].kind \notin Roots
    <3>1. PICK m \in DOMAIN b : n \in Refs(b[m])
      BY <1>12, <2>2 DEF InUse
    <3> QED
      BY <1>11, <1>12, <3>1
  <2> QED
    BY <2>1, <2>2
<1> QED
  BY <1>13 DEF w, C, ps

-----------------------------------------------------------------------------
(* What survives of paths and of what the weld relies on.                  *)

\* A face that keeps its loop, with its edges and their vertices, keeps its path.
LEMMA PathsCarryOver ==
    ASSUME NEW e, Whole(e), NEW w, NEW f \in OfKind(e, "face"), w[f].loop = e[f].loop,
           \A n \in EdgesOf(e, f) :
              w[n] = e[n] /\ \A v \in ToSet(e[n].ends) : w[v] = e[v]
    PROVE  Path(w, f) = Path(e, f)
<1>1. Path(e, f) = [k \in DOMAIN e[f].loop |-> Trip(e, e[f].loop[k])]
  BY DEF Path, Trip
<1>2. Path(w, f) = [k \in DOMAIN w[f].loop |-> Trip(w, w[f].loop[k])]
  BY DEF Path, Trip
<1>3. ASSUME NEW k \in DOMAIN e[f].loop PROVE Trip(w, e[f].loop[k]) = Trip(e, e[f].loop[k])
  <2> DEFINE u == e[f].loop[k]
             n == u.edge
             a == Start(e, u)
             b == End(e, u)
  <2>1. n \in EdgesOf(e, f) /\ n \in OfKind(e, "edge")
    BY EndsAndUses
  <2>2. w[n] = e[n] /\ \A v \in ToSet(e[n].ends) : w[v] = e[v]
    BY <2>1
  <2>3. Course(w, u) = Course(e, u)
    BY <2>2 DEF Course
  <2>4. Start(w, u) = a /\ End(w, u) = b
    BY <2>3 DEF Start, End
  <2>5. a \in ToSet(e[n].ends) /\ b \in ToSet(e[n].ends)
    <3>1. e[n].ends \in [1 .. 2 -> OfKind(e, "vertex")]
      BY <2>1 DEF Whole
    <3>2. ToSet(e[n].ends) = {e[n].ends[1], e[n].ends[2]}
      BY <2>1, EndsAndUses
    <3>3. /\ a = IF u.forward THEN e[n].ends[1] ELSE e[n].ends[2]
          /\ b = IF u.forward THEN e[n].ends[2] ELSE e[n].ends[1]
      BY <3>1, Courses DEF Start, End
    <3> HIDE DEF a, b, n, u
    <3> QED
      BY <3>2, <3>3
  <2>6. w[a].at = e[a].at /\ w[b].at = e[b].at /\ w[n].trace = e[n].trace /\ w[n].turn = e[n].turn
    <3> HIDE DEF a, b, n, u
    <3> QED
      BY <2>2, <2>5
  <2> HIDE DEF u
  <2>7. Trip(w, u) = <<w[n].trace, w[a].at, w[b].at, a = b /\ u.forward = w[n].turn>>
    BY <2>4, Zenon DEF Trip
  <2>8. Trip(e, u) = <<e[n].trace, e[a].at, e[b].at, a = b /\ u.forward = e[n].turn>>
    BY Zenon DEF Trip
  <2> QED
    BY <2>6, <2>7, <2>8, Zenon DEF u
<1> QED
  BY <1>1, <1>2, <1>3

\* What no longer has a face's bound was collected with the face.
LEMMA SweptPaths ==
    ASSUME NEW e, Whole(e), NEW C, NEW f \in OfKind(Swept(e, C), "face")
    PROVE  f \in OfKind(e, "face") /\ Path(Swept(e, C), f) = Path(e, f)
<1> DEFINE w == Swept(e, C)
<1>1. Whole(w) /\ DOMAIN w \subseteq DOMAIN e /\ \A n \in DOMAIN w : w[n] = e[n]
  BY SweptIsWhole
<1> HIDE DEF w
<1>2. f \in DOMAIN w /\ w[f] = e[f] /\ f \in OfKind(e, "face") /\ f \in OfKind(w, "face")
  BY <1>1 DEF OfKind, w
<1>3. EdgesOf(w, f) = EdgesOf(e, f)
  BY <1>2 DEF EdgesOf, Uses
<1>4. ASSUME NEW n \in EdgesOf(e, f)
      PROVE  w[n] = e[n] /\ \A v \in ToSet(e[n].ends) : w[v] = e[v]
  <2>1. n \in OfKind(w, "edge")
    BY <1>1, <1>2, <1>3, EndsAndUses
  <2>2. n \in DOMAIN w /\ w[n] = e[n]
    BY <1>1, <2>1 DEF OfKind
  <2>3. ToSet(w[n].ends) \subseteq OfKind(w, "vertex")
    BY <1>1, <2>1, EndsAndUses
  <2> QED
    BY <1>1, <2>2, <2>3 DEF OfKind
<1>5. Path(w, f) = Path(e, f)
  BY <1>2, <1>4, PathsCarryOver
<1> QED
  BY <1>2, <1>5 DEF w

\* A face of the rebuilt section is one there was, with the path it had.
LEMMA RebuiltPaths ==
    ASSUME NEW e, Whole(e), NEW ps, Fitting(e, ps), NEW f \in OfKind(Rebuilt(e, ps), "face")
    PROVE  f \in OfKind(e, "face") /\ Path(Rebuilt(e, ps), f) = Path(e, f)
<1> DEFINE w == Rebuilt(e, ps)
<1>1. /\ \A k \in {"face", "edge", "vertex"} : OfKind(w, k) = OfKind(e, k)
      /\ \A k \in {"face", "edge", "vertex"} : \A n \in OfKind(e, k) : w[n] = e[n]
  BY RebuiltTopology
<1>2. f \in OfKind(e, "face") /\ w[f] = e[f]
  BY <1>1
<1> HIDE DEF w
<1>3. ASSUME NEW n \in EdgesOf(e, f)
      PROVE  w[n] = e[n] /\ \A v \in ToSet(e[n].ends) : w[v] = e[v]
  <2>1. n \in OfKind(e, "edge")
    BY <1>2, EndsAndUses
  <2>2. ToSet(e[n].ends) \subseteq OfKind(e, "vertex")
    BY <2>1, EndsAndUses
  <2> QED
    BY <1>1, <2>1, <2>2
<1>4. Path(w, f) = Path(e, f)
  BY <1>2, <1>3, PathsCarryOver
<1> QED
  BY <1>2, <1>4 DEF w

\* What the weld relies on stays true of edges with their ends where they were.
LEMMA ToldAlike ==
    ASSUME NEW e, Whole(e), NEW w, Whole(w), Told(e, OfKind(e, "edge")),
           OfKind(w, "edge") \subseteq OfKind(e, "edge"),
           \A n \in OfKind(w, "edge") :
              /\ w[n].trace = e[n].trace
              /\ w[w[n].ends[1]].at = e[e[n].ends[1]].at
              /\ w[w[n].ends[2]].at = e[e[n].ends[2]].at
              /\ w[n].ends[1] = w[n].ends[2] <=> e[n].ends[1] = e[n].ends[2]
    PROVE  Told(w, OfKind(w, "edge"))
<1>1. ASSUME NEW n \in OfKind(w, "edge") PROVE EdgeKey(w, n) = EdgeKey(e, n)
  <2>1. /\ ToSet(w[n].ends) = {w[n].ends[1], w[n].ends[2]}
        /\ ToSet(e[n].ends) = {e[n].ends[1], e[n].ends[2]}
    BY EndsAndUses
  <2>2. /\ {w[v].at : v \in ToSet(w[n].ends)} = {w[w[n].ends[1]].at, w[w[n].ends[2]].at}
        /\ {e[v].at : v \in ToSet(e[n].ends)} = {e[e[n].ends[1]].at, e[e[n].ends[2]].at}
    BY <2>1
  <2>3. {w[v].at : v \in ToSet(w[n].ends)} = {e[v].at : v \in ToSet(e[n].ends)}
    BY <2>2
  <2> QED
    BY <2>3 DEF EdgeKey
<1>2. \A n \in OfKind(w, "edge") :
         w[n].ends[1] # w[n].ends[2] => w[w[n].ends[1]].at # w[w[n].ends[2]].at
  BY DEF Told
<1>3. ASSUME NEW m \in OfKind(w, "edge"), NEW n \in OfKind(w, "edge"), m # n,
             EdgeKey(w, m) = EdgeKey(w, n)
      PROVE  w[m].trace = w[n].trace /\ w[n].ends[1] # w[n].ends[2]
  <2>1. EdgeKey(e, m) = EdgeKey(e, n)
    BY <1>1, <1>3
  <2>2. e[m].trace = e[n].trace /\ e[n].ends[1] # e[n].ends[2]
    BY <1>3, <2>1 DEF Told
  <2> QED
    BY <2>2
<1> QED
  BY <1>2, <1>3 DEF Told

\* The edges and vertices of a section are all, or some of those, of another.
LEMMA ToldOfSome ==
    ASSUME NEW e, Whole(e), NEW w, Whole(w), Told(e, OfKind(e, "edge")),
           \A k \in {"edge", "vertex"} :
              OfKind(w, k) \subseteq OfKind(e, k) /\ \A n \in OfKind(w, k) : w[n] = e[n]
    PROVE  Told(w, OfKind(w, "edge"))
<1>1. OfKind(w, "edge") \subseteq OfKind(e, "edge")
  OBVIOUS
<1>2. ASSUME NEW n \in OfKind(w, "edge")
      PROVE  /\ w[n] = e[n]
             /\ w[w[n].ends[1]].at = e[e[n].ends[1]].at
             /\ w[w[n].ends[2]].at = e[e[n].ends[2]].at
  <2>1. w[n] = e[n]
    OBVIOUS
  <2>2. w[n].ends[1] \in OfKind(w, "vertex") /\ w[n].ends[2] \in OfKind(w, "vertex")
    BY EndsAndUses
  <2>3. \A v \in OfKind(w, "vertex") : w[v] = e[v]
    OBVIOUS
  <2> QED
    BY <2>1, <2>2, <2>3
<1> QED
  BY <1>1, <1>2, ToldAlike

\* Welding moves no vertex and closes no edge, so the keys still tell the edges apart.
LEMMA ToldOfWelded ==
    ASSUME NEW e, Whole(e), NEW ps, PlansOn(e, ps), Told(e, OfKind(e, "edge"))
    PROVE  Told(Welded(e, ps), OfKind(Welded(e, ps), "edge"))
<1> DEFINE w == Welded(e, ps)
           V == VertexOf(e, ps)
<1>1. Whole(w) /\ OfKind(w, "edge") = OfKind(e, "edge")
  BY WeldedIsWhole, WeldedFields
<1>2. \A n \in OfKind(e, "edge") :
         w[n].ends = [k \in {1, 2} |-> V[e[n].ends[k]]] /\ w[n].trace = e[n].trace
  BY WeldedFields
<1>3. \A v \in OfKind(e, "vertex") :
         V[v] \in OfKind(e, "vertex") /\ e[V[v]].at = e[v].at
  BY RootsAreAlike
<1>4. \A v \in OfKind(e, "vertex") : w[v] = e[v]
  <2>1. \A v \in OfKind(e, "vertex") : v \in DOMAIN e /\ e[v].kind \notin {"edge", "face"}
    BY DEF OfKind
  <2> QED
    BY <2>1, WeldedFields
<1> HIDE DEF w, V
<1>5. ASSUME NEW n \in OfKind(w, "edge")
      PROVE  /\ w[n].trace = e[n].trace
             /\ w[w[n].ends[1]].at = e[e[n].ends[1]].at
             /\ w[w[n].ends[2]].at = e[e[n].ends[2]].at
             /\ w[n].ends[1] = w[n].ends[2] <=> e[n].ends[1] = e[n].ends[2]
  <2>1. n \in OfKind(e, "edge")
    BY <1>1
  <2>2. w[n].ends[1] = V[e[n].ends[1]] /\ w[n].ends[2] = V[e[n].ends[2]]
        /\ w[n].trace = e[n].trace
    BY <1>2, <2>1
  <2>3. e[n].ends[1] \in OfKind(e, "vertex") /\ e[n].ends[2] \in OfKind(e, "vertex")
    BY <2>1, EndsAndUses
  <2>4. e[n].ends[1] # e[n].ends[2] => e[e[n].ends[1]].at # e[e[n].ends[2]].at
    BY <2>1 DEF Told
  <2> QED
    BY <1>3, <1>4, <2>2, <2>3, <2>4
<1>6. Told(w, OfKind(w, "edge"))
  <2>1. OfKind(w, "edge") \subseteq OfKind(e, "edge")
    BY <1>1
  <2> QED
    BY <1>1, <1>5, <2>1, ToldAlike
<1> QED
  BY <1>6 DEF w

-----------------------------------------------------------------------------
(* A whole pass.                                                           *)

\* The bounds of e's faces are those b has.
Keeps(e, b) == \A f \in OfKind(e, "face") \cap DOMAIN b : Path(e, f) = Path(b, f)

\* The partition keeps the bounds at each of its steps.
LEMMA PartitionKeeps ==
    ASSUME NEW b, Whole(b), Weldable(b, PartitionPlans(b)), Told(b, SeamEdges(b)), NEW C
    PROVE  LET w == Welded(b, PartitionPlans(b))
               r == Rebuilt(w, PartitionPlans(b))
           IN  Keeps(w, b) /\ Keeps(r, b) /\ Keeps(Swept(r, C), b)
<1> DEFINE ps == PartitionPlans(b)
           w == Welded(b, ps)
           r == Rebuilt(w, ps)
           s == Swept(r, C)
<1>1. Fitting(b, ps) /\ PlansOn(b, ps)
  BY PlansFit DEF Fitting
<1>2. Told(b, Around(b, ps))
  <2>1. SeamEdges(b) = Around(b, ps)
    BY DEF SeamEdges, Around
  <2> QED
    BY <2>1
<1>3. Whole(w) /\ Fitting(w, ps) /\ OfKind(w, "face") = OfKind(b, "face")
  BY <1>1, WeldedIsWhole, PlansStayFit, WeldedFields
<1> HIDE DEF ps
<1>4. \A f \in OfKind(b, "face") : Path(w, f) = Path(b, f)
  BY <1>1, <1>2, WeldedPaths
<1> HIDE DEF w
<1>5. Whole(r) /\ \A f \in OfKind(r, "face") : f \in OfKind(w, "face") /\ Path(r, f) = Path(w, f)
  BY <1>3, RebuiltIsWhole, RebuiltPaths
<1> HIDE DEF r
<1>6. \A f \in OfKind(s, "face") : f \in OfKind(r, "face") /\ Path(s, f) = Path(r, f)
  BY <1>5, SweptPaths
<1> HIDE DEF s
<1>7. Keeps(w, b) /\ Keeps(r, b) /\ Keeps(s, b)
  BY <1>3, <1>4, <1>5, <1>6 DEF Keeps
<1> QED
  BY <1>7 DEF s, r, w, ps

\* Each step of a pass leaves the section whole, and what was told of all its edges true.
LEMMA PassesStayWhole ==
    ASSUME NEW b, Whole(b), NEW kinds
    PROVE  /\ Whole(Welded(b, PartitionPlans(b)))
           /\ Whole(Rebuilt(Welded(b, PartitionPlans(b)), PartitionPlans(b)))
           /\ Whole(Coalesced(b, CoalescePlans(b, kinds), kinds))
           /\ \A C : Whole(Swept(b, C))
<1>1. Fitting(b, PartitionPlans(b)) /\ PlansOn(b, PartitionPlans(b))
  BY PlansFit DEF Fitting
<1>2. Whole(Welded(b, PartitionPlans(b)))
  BY <1>1, WeldedIsWhole
<1>3. Fitting(Welded(b, PartitionPlans(b)), PartitionPlans(b))
  BY <1>1, PlansStayFit
<1>4. Whole(Rebuilt(Welded(b, PartitionPlans(b)), PartitionPlans(b)))
  BY <1>2, <1>3, RebuiltIsWhole
<1>5. Whole(Coalesced(b, CoalescePlans(b, kinds), kinds))
  BY CoalescedIsWhole
<1> QED
  BY <1>2, <1>4, <1>5, SweptIsWhole

\* Neither does any other step of the passes.
LEMMA PassesStayTold ==
    ASSUME NEW b, Whole(b), Told(b, OfKind(b, "edge")), NEW kinds
    PROVE  LET w == Welded(b, PartitionPlans(b))
               r == Rebuilt(w, PartitionPlans(b))
               c == Coalesced(b, CoalescePlans(b, kinds), kinds)
           IN  /\ Told(w, OfKind(w, "edge"))
               /\ Told(r, OfKind(r, "edge"))
               /\ Told(c, OfKind(c, "edge"))
               /\ \A C : Told(Swept(b, C), OfKind(Swept(b, C), "edge"))
<1> DEFINE ps == PartitionPlans(b)
           w == Welded(b, ps)
           r == Rebuilt(w, ps)
           c == Coalesced(b, CoalescePlans(b, kinds), kinds)
<1>1. Fitting(b, ps) /\ PlansOn(b, ps)
  BY PlansFit DEF Fitting
<1>2. Whole(w) /\ Fitting(w, ps)
  BY <1>1, WeldedIsWhole, PlansStayFit
<1>3. Whole(r) /\ Whole(c)
  BY PassesStayWhole
<1>4. Told(w, OfKind(w, "edge"))
  BY <1>1, ToldOfWelded
<1>5. Told(c, OfKind(c, "edge"))
  <2>1. \A k \in {"edge", "vertex"} :
           OfKind(c, k) = OfKind(b, k) /\ \A n \in OfKind(b, k) : c[n] = b[n]
    BY CoalescedIsWhole
  <2> HIDE DEF c
  <2> QED
    BY <1>3, <2>1, ToldOfSome
<1> HIDE DEF ps, w
<1>6. Told(r, OfKind(r, "edge"))
  <2>1. \A k \in {"edge", "vertex"} :
           OfKind(r, k) = OfKind(w, k) /\ \A n \in OfKind(w, k) : r[n] = w[n]
    BY <1>2, RebuiltTopology
  <2> HIDE DEF r
  <2> QED
    BY <1>2, <1>3, <1>4, <2>1, ToldOfSome
<1>7. ASSUME NEW C PROVE Told(Swept(b, C), OfKind(Swept(b, C), "edge"))
  <2> DEFINE s == Swept(b, C)
  <2>1. Whole(s) /\ DOMAIN s \subseteq DOMAIN b /\ \A n \in DOMAIN s : s[n] = b[n]
    BY SweptIsWhole
  <2> HIDE DEF s
  <2>2. \A k \in {"edge", "vertex"} :
           OfKind(s, k) \subseteq OfKind(b, k) /\ \A n \in OfKind(s, k) : s[n] = b[n]
    BY <2>1 DEF OfKind
  <2>3. Told(s, OfKind(s, "edge"))
    BY <2>1, <2>2, ToldOfSome
  <2> QED
    BY <2>3 DEF s
<1> QED
  BY <1>4, <1>5, <1>6, <1>7 DEF r, w, ps, c
-----------------------------------------------------------------------------
(* The invariant: what a section is, given the one its pass began with.    *)

Phases ==
    /\ pass \in {"partition", "coalesce"}
    /\ step \in {"plan", "weld", "rebuild", "sweep", "written"}
    /\ (step = "weld" => pass = "partition") /\ (step = "written" => pass = "coalesce")
    /\ pass = "partition" /\ step \in {"plan", "weld"} => ent = before
    /\ pass = "partition" /\ step \in {"weld", "rebuild", "sweep"} => plans = PartitionPlans(before)
    /\ pass = "partition" /\ step \in {"rebuild", "sweep"} => Weldable(before, plans)
    /\ pass = "partition" /\ step = "rebuild" => ent = Welded(before, plans)
    /\ pass = "partition" /\ step = "sweep" => ent = Rebuilt(Welded(before, plans), plans)
    /\ pass = "coalesce" /\ step = "rebuild" => ent = before /\ plans = CoalescePlans(before, allowed)

Handed == pass = "coalesce" /\ step = "plan" /\ Told(before, SeamEdges(before)) => Keeps(ent, before)

BodyInv == Whole(ent) /\ Whole(before) /\ Phases /\ Handed

\* The invariant holds of every file that is read.
LEMMA BodyInit == Init /\ InputsAssumption => BodyInv
BY DEF Init, InputsAssumption, BodyInv, Phases, Handed

\* Where a pass ends: the section is whole, and after the partition the bounds are kept.
LEMMA Leaving ==
    ASSUME Leave, pass \in {"partition", "coalesce"}, Whole(ent'), Whole(before'),
           pass = "partition" => (Told(before', SeamEdges(before')) => Keeps(ent', before'))
    PROVE  BodyInv'
<1>1. pass' = "coalesce" /\ step' \in {"plan", "written"}
      /\ (step' = "plan" => pass = "partition")
  BY DEF Leave
<1>2. Phases'
  BY <1>1 DEF Phases
<1>3. Handed'
  BY <1>1 DEF Handed
<1> QED
  BY <1>2, <1>3 DEF BodyInv

\* A section keeps its own bounds.
LEMMA KeepsItself == ASSUME NEW e PROVE Keeps(e, e)
BY DEF Keeps

\* Each action keeps the invariant.
LEMMA BodyStep == BodyInv /\ [Next]_vars => BodyInv'
<1> SUFFICES ASSUME BodyInv, [Next]_vars PROVE BodyInv'
  OBVIOUS
<1>0. Whole(ent) /\ Whole(before) /\ Phases /\ Handed
  BY DEF BodyInv
<1>1. CASE PlanPartition
  <2>1. pass = "partition" /\ step = "plan" /\ before' = ent
    BY <1>1 DEF PlanPartition, PlanWith
  <2>2. CASE Leave /\ UNCHANGED ent
    <3>1. Keeps(ent', before')
      BY <2>1, <2>2, KeepsItself
    <3> QED
      BY <1>0, <2>1, <2>2, <3>1, Leaving
  <2>3. CASE plans' = PartitionPlans(ent) /\ step' = "weld" /\ UNCHANGED <<ent, pass>>
    BY <1>0, <2>1, <2>3 DEF BodyInv, Phases, Handed
  <2> QED
    BY <1>1, <2>1, <2>2, <2>3 DEF PlanPartition, PlanWith
<1>2. CASE Weld
  <2>1. step = "weld" /\ pass = "partition" /\ ent = before /\ plans = PartitionPlans(before)
        /\ Weldable(before, plans)
    BY <1>0, <1>2 DEF Weld, Phases
  <2>2. ent' = Welded(before, plans) /\ step' = "rebuild" /\ UNCHANGED <<before, plans, pass>>
    BY <1>2, <2>1 DEF Weld
  <2>3. Whole(ent')
    BY <1>0, <2>1, <2>2, PassesStayWhole
  <2> QED
    BY <1>0, <2>1, <2>2, <2>3 DEF BodyInv, Phases, Handed
<1>3. CASE RollBack
  <2>1. Leave /\ ent' = before /\ before' = before
    BY <1>3 DEF RollBack
  <2>2. Keeps(ent', before')
    BY <2>1, KeepsItself
  <2> QED
    BY <1>0, <2>1, <2>2, Leaving DEF Phases
<1>4. CASE Rebuild
  <2>1. step = "rebuild" /\ pass = "partition" /\ plans = PartitionPlans(before)
        /\ Weldable(before, plans) /\ ent = Welded(before, plans)
    BY <1>0, <1>4 DEF Rebuild, Phases
  <2>2. ent' = Rebuilt(Welded(before, plans), plans) /\ step' = "sweep"
        /\ UNCHANGED <<before, plans, pass>>
    BY <1>4, <2>1 DEF Rebuild
  <2>3. Whole(ent')
    BY <1>0, <2>1, <2>2, PassesStayWhole
  <2> QED
    BY <1>0, <2>1, <2>2, <2>3 DEF BodyInv, Phases, Handed
<1>5. CASE PlanCoalesce
  <2>1. pass = "coalesce" /\ step = "plan" /\ before' = ent
    BY <1>5 DEF PlanCoalesce, PlanWith
  <2>2. CASE Leave /\ UNCHANGED ent
    BY <1>0, <2>1, <2>2, Leaving
  <2>3. CASE plans' = CoalescePlans(ent, allowed) /\ step' = "rebuild" /\ UNCHANGED <<allowed, ent, pass>>
    BY <1>0, <2>1, <2>3 DEF BodyInv, Phases, Handed
  <2> QED
    BY <1>5, <2>1, <2>2, <2>3 DEF PlanCoalesce, PlanWith
<1>6. CASE Coalesce
  <2>1. step = "rebuild" /\ pass = "coalesce" /\ ent = before /\ plans = CoalescePlans(before, allowed)
    BY <1>0, <1>6 DEF Coalesce, Phases
  <2>2. ent' = Coalesced(before, plans, allowed) /\ step' = "sweep" /\ UNCHANGED <<before, pass>>
    BY <1>6, <2>1 DEF Coalesce
  <2>3. Whole(ent')
    BY <1>0, <2>1, <2>2, PassesStayWhole
  <2> QED
    BY <1>0, <2>1, <2>2, <2>3 DEF BodyInv, Phases, Handed
<1>7. CASE Sweep
  <2>1. step = "sweep" /\ Leave /\ ent' = Swept(ent, candidates) /\ before' = before
    BY <1>7 DEF Sweep
  <2>2. Whole(ent')
    BY <1>0, <2>1, PassesStayWhole
  <2>3. ASSUME pass = "partition", Told(before', SeamEdges(before')) PROVE Keeps(ent', before')
    <3>1. plans = PartitionPlans(before) /\ Weldable(before, plans)
          /\ ent = Rebuilt(Welded(before, plans), plans)
      BY <1>0, <2>1, <2>3 DEF Phases
    <3>2. Told(before, SeamEdges(before))
      BY <2>1, <2>3
    <3> QED
      BY <1>0, <2>1, <3>1, <3>2, PartitionKeeps
  <2> QED
    BY <1>0, <2>1, <2>2, <2>3, Leaving DEF Phases
<1>8. CASE CleanAgain
  BY <1>0, <1>8 DEF CleanAgain, BodyInv, Phases, Handed
<1>9. CASE UNCHANGED vars
  BY <1>0, <1>9 DEF vars, BodyInv, Phases, Handed
<1> QED
  BY <1>1, <1>2, <1>3, <1>4, <1>5, <1>6, <1>7, <1>8, <1>9 DEF Next, Done

\* The invariant gives the types, and the bounds where the weld's reliance is justified.
LEMMA BodyInvGives ==
    BodyInv => TypeOK /\ (Told(before, SeamEdges(before)) => BoundsAreKept)
<1> SUFFICES ASSUME BodyInv PROVE TypeOK /\ (Told(before, SeamEdges(before)) => BoundsAreKept)
  OBVIOUS
<1>0. Whole(ent) /\ Whole(before) /\ Phases /\ Handed
  BY DEF BodyInv
<1>1. TypeOK
  BY <1>0 DEF Phases, TypeOK
<1>2. ASSUME Told(before, SeamEdges(before)), pass = "partition" \/ step = "plan"
      PROVE  Keeps(ent, before)
  <2>1. CASE pass = "partition" /\ step \in {"plan", "weld"}
    BY <1>0, <2>1, KeepsItself DEF Phases
  <2>2. CASE pass = "partition" /\ step \in {"rebuild", "sweep"}
    <3>1. plans = PartitionPlans(before) /\ Weldable(before, plans)
      BY <1>0, <2>2 DEF Phases
    <3>2. ent = Welded(before, plans) \/ ent = Rebuilt(Welded(before, plans), plans)
      BY <1>0, <2>2 DEF Phases
    <3> QED
      BY <1>0, <1>2, <3>1, <3>2, PartitionKeeps
  <2>3. CASE pass = "coalesce" /\ step = "plan"
    BY <1>0, <1>2, <2>3 DEF Handed
  <2> QED
    BY <1>0, <1>2, <2>1, <2>2, <2>3 DEF Phases
<1> QED
  BY <1>1, <1>2 DEF BoundsAreKept, Keeps

-----------------------------------------------------------------------------
(* What is proved of every run of the passes.                              *)

\* While bodies are cleaned the invariant holds; the other passes do not touch them.
LEMMA EitherBodies == EitherSpec => [](pass # "absent" => BodyInv)
<1>1. EitherInit => (pass # "absent" => BodyInv)
  BY BodyInit, BodyMergeAssumption DEF EitherInit, NoBodies
<1>2. (pass # "absent" => BodyInv) /\ [EitherNext]_<<vars, valueVars, solidVars, featureVars>>
         => (pass # "absent" => BodyInv)'
  <2> SUFFICES ASSUME pass # "absent" => BodyInv,
                      [EitherNext]_<<vars, valueVars, solidVars, featureVars>>,
                      pass' # "absent"
               PROVE  BodyInv'
    OBVIOUS
  <2>1. CASE pass # "absent" /\ Next
    BY <2>1, BodyStep
  <2>2. CASE UNCHANGED vars
    <3>1. pass # "absent"
      BY <2>2 DEF vars
    <3> QED
      BY <2>2, <3>1, BodyStep
  <2> QED
    BY <2>1, <2>2 DEF EitherNext
<1> QED
  BY <1>1, <1>2, PTL DEF EitherSpec

\* Every section is whole at every step of every pass, of any files of whole sections:
\* welding, rebuilding, coalescing and both collections leave no reference dangling and
\* give no id twice (partition_recovery.rs, face_coalesce.rs).
THEOREM BodiesAreWhole == EitherSpec => [](pass # "absent" => TypeOK)
<1>1. BodyInv => TypeOK
  BY BodyInvGives
<1> QED
  BY <1>1, EitherBodies, PTL

\* A partition moves the bound of no face, whatever is welded, if the edges around its
\* interfaces are told apart by their keys: those with one key run along the same and are
\* open, and no edge has two vertices in one place.  Closed edges are not told apart: see
\* MCBodyMergeRound.cfg.
THEOREM ToldBoundsAreKept ==
    EitherSpec => [](pass # "absent" /\ Told(before, SeamEdges(before)) => BoundsAreKept)
<1>1. BodyInv /\ Told(before, SeamEdges(before)) => BoundsAreKept
  BY BodyInvGives
<1> QED
  BY <1>1, EitherBodies, PTL

\* Through both cleanups the keys tell all edges apart, if they do in the file.
LEMMA EitherTold ==
    EitherSpec => [](pass # "absent" /\ Told(input, OfKind(input, "edge"))
                       => /\ Told(ent, OfKind(ent, "edge"))
                          /\ Told(before, OfKind(before, "edge")))
<1> DEFINE J == Told(ent, OfKind(ent, "edge")) /\ Told(before, OfKind(before, "edge"))
           I == Told(input, OfKind(input, "edge")) => J
<1>1. EitherInit => (pass # "absent" => I)
  BY DEF EitherInit, NoBodies, Init
<1>2. BodyInv /\ I /\ [Next]_vars => I'
  <2> DEFINE told(e) == Told(e, OfKind(e, "edge"))
  <2> SUFFICES ASSUME BodyInv, I, [Next]_vars, told(input') PROVE J'
    OBVIOUS
  <2>a. input' = input
    BY DEF Next, PlanPartition, PlanCoalesce, PlanWith, Weld, RollBack, Rebuild, Coalesce,
           Sweep, CleanAgain, Leave, Done, vars
  <2>0. Whole(ent) /\ Whole(before) /\ Phases /\ told(ent) /\ told(before)
    BY <2>a DEF BodyInv
  <2>1. ent' \in {ent, before} \/ \E C : ent' = Swept(ent, C)
        \/ ent' = Welded(before, PartitionPlans(before))
        \/ ent' = Rebuilt(Welded(before, PartitionPlans(before)), PartitionPlans(before))
        \/ ent' = Coalesced(before, CoalescePlans(before, allowed), allowed)
    <3>1. CASE PlanPartition \/ PlanCoalesce
      BY <3>1 DEF PlanPartition, PlanCoalesce, PlanWith
    <3>2. CASE Weld
      BY <2>0, <3>2 DEF Weld, Phases
    <3>3. CASE Rebuild
      BY <2>0, <3>3 DEF Rebuild, Phases
    <3>4. CASE Coalesce
      BY <2>0, <3>4 DEF Coalesce, Phases
    <3>5. CASE RollBack \/ CleanAgain \/ UNCHANGED vars
      BY <3>5 DEF RollBack, CleanAgain, vars
    <3>6. CASE Sweep
      BY <3>6 DEF Sweep
    <3> QED
      BY <3>1, <3>2, <3>3, <3>4, <3>5, <3>6 DEF Next, Done
  <2>2. before' \in {ent, before}
    BY DEF Next, PlanPartition, PlanCoalesce, PlanWith, Weld, RollBack, Rebuild, Coalesce,
           Sweep, CleanAgain, Done, vars
  <2> HIDE DEF told
  <2>3. \A C : told(Swept(ent, C))
    BY <2>0, PassesStayTold DEF told
  <2>4. told(Welded(before, PartitionPlans(before)))
    BY <2>0, PassesStayTold DEF told
  <2>5. told(Rebuilt(Welded(before, PartitionPlans(before)), PartitionPlans(before)))
    BY <2>0, PassesStayTold DEF told
  <2>6. told(Coalesced(before, CoalescePlans(before, allowed), allowed))
    BY <2>0, PassesStayTold DEF told
  <2>7. told(ent') /\ told(before')
    BY <2>0, <2>1, <2>2, <2>3, <2>4, <2>5, <2>6
  <2> QED
    BY <2>7 DEF told
<1>3. (pass # "absent" => BodyInv) /\ (pass # "absent" => I)
         /\ [EitherNext]_<<vars, valueVars, solidVars, featureVars>> => (pass # "absent" => I)'
  <2> SUFFICES ASSUME pass # "absent" => BodyInv /\ I,
                      [EitherNext]_<<vars, valueVars, solidVars, featureVars>>,
                      pass' # "absent"
               PROVE  I'
    OBVIOUS
  <2> HIDE DEF I
  <2>1. CASE pass # "absent" /\ Next
    BY <1>2, <2>1
  <2>2. CASE UNCHANGED vars
    <3>1. pass # "absent"
      BY <2>2 DEF vars
    <3> QED
      BY <1>2, <2>2, <3>1
  <2> QED
    BY <2>1, <2>2 DEF EitherNext
<1> HIDE DEF I, J
<1>4. EitherSpec => [](pass # "absent" => I)
  BY <1>1, <1>3, EitherBodies, PTL DEF EitherSpec
<1>5. (pass # "absent" => I) => (pass # "absent" /\ Told(input, OfKind(input, "edge"))
                                    => /\ Told(ent, OfKind(ent, "edge"))
                                       /\ Told(before, OfKind(before, "edge")))
  BY DEF I, J
<1> QED
  BY <1>4, <1>5, PTL

\* In a file whose edges are told apart by their keys, every pass of every cleanup keeps
\* them told apart, and so no partition moves the bound of a face.
THEOREM BoundsOfToldFilesAreKept ==
    EitherSpec => []((pass # "absent" => Told(input, OfKind(input, "edge")))
                       => BodiesKeepTheirBounds)
<1>1. BodyInv /\ Told(before, OfKind(before, "edge")) => BoundsAreKept
  <2> SUFFICES ASSUME BodyInv, Told(before, OfKind(before, "edge")) PROVE BoundsAreKept
    OBVIOUS
  <2>1. Whole(before)
    BY DEF BodyInv
  <2>2. SeamEdges(before) \subseteq OfKind(before, "edge")
    <3> DEFINE ps == PartitionPlans(before)
    <3>1. PlansOn(before, ps)
      BY <2>1, PlansFit DEF Fitting
    <3>2. Around(before, ps) \subseteq OfKind(before, "edge")
      <4> HIDE DEF ps
      <4> QED
        BY <2>1, <3>1, EndsAndUses DEF Around, PlansOn
    <3>3. SeamEdges(before) \subseteq Around(before, ps)
      BY DEF SeamEdges, Around
    <3> QED
      BY <3>2, <3>3
  <2>3. Told(before, SeamEdges(before))
    BY <2>2 DEF Told
  <2> QED
    BY <2>3, BodyInvGives
<1>2. (pass # "absent" => BodyInv)
         /\ (pass # "absent" /\ Told(input, OfKind(input, "edge"))
               => Told(ent, OfKind(ent, "edge")) /\ Told(before, OfKind(before, "edge")))
         => ((pass # "absent" => Told(input, OfKind(input, "edge"))) => BodiesKeepTheirBounds)
  BY <1>1 DEF BodiesKeepTheirBounds
<1> QED
  BY <1>2, EitherBodies, EitherTold, PTL

-----------------------------------------------------------------------------
(* Nothing that was replaced is left behind.                               *)

\* Whatever is not being replaced is in use, and a collection spares it.
UseInv ==
    /\ InUse(before)
    /\ step \in {"plan", "written"} => InUse(ent)
    /\ step = "sweep" => Spares(ent, candidates)

\* Each action keeps this.
LEMMA UseStep == BodyInv /\ UseInv /\ [Next]_vars => UseInv'
<1> SUFFICES ASSUME BodyInv, UseInv, [Next]_vars PROVE UseInv'
  OBVIOUS
<1>0. Whole(ent) /\ Whole(before) /\ Phases
  BY DEF BodyInv
<1>1. CASE PlanPartition \/ PlanCoalesce
  <2>1. step = "plan" /\ before' = ent /\ InUse(ent)
    BY <1>1 DEF PlanPartition, PlanCoalesce, PlanWith, UseInv
  <2>2. ent' = ent /\ step' # "sweep"
    BY <1>0, <1>1 DEF PlanPartition, PlanCoalesce, PlanWith, Leave, Phases
  <2> QED
    BY <2>1, <2>2 DEF UseInv
<1>2. CASE Weld
  BY <1>2 DEF Weld, UseInv
<1>3. CASE RollBack
  <2>1. ent' = before /\ before' = before /\ step' # "sweep"
    BY <1>3 DEF RollBack, Leave
  <2> QED
    BY <2>1 DEF UseInv
<1>4. CASE Rebuild
  <2>1. plans = PartitionPlans(before) /\ ent = Welded(before, plans) /\ InUse(before)
    BY <1>0, <1>4 DEF Rebuild, Phases, UseInv
  <2>2. ent' = Rebuilt(ent, plans) /\ candidates' = Remains(before, plans)
        /\ step' = "sweep" /\ before' = before
    BY <1>4 DEF Rebuild
  <2>3. Spares(ent', candidates')
    BY <1>0, <2>1, <2>2, PartitionSpares
  <2> QED
    BY <2>1, <2>2, <2>3 DEF UseInv
<1>5. CASE Coalesce
  <2>1. plans = CoalescePlans(before, allowed) /\ ent = before /\ InUse(before)
    BY <1>0, <1>5 DEF Coalesce, Phases, UseInv
  <2>2. ent' = Coalesced(ent, plans, allowed) /\ candidates' = Leftovers(before, plans)
        /\ step' = "sweep" /\ before' = before
    BY <1>5 DEF Coalesce
  <2>3. Spares(ent', candidates')
    BY <1>0, <2>1, <2>2, CoalesceSpares
  <2> QED
    BY <2>1, <2>2, <2>3 DEF UseInv
<1>6. CASE Sweep
  <2>1. step = "sweep" /\ ent' = Swept(ent, candidates) /\ before' = before /\ step' # "sweep"
    BY <1>6 DEF Sweep, Leave
  <2>2. InUse(ent')
    BY <1>0, <2>1, SweptIsInUse DEF UseInv
  <2> QED
    BY <2>1, <2>2 DEF UseInv
<1>7. CASE CleanAgain
  <2>1. InUse(ent) /\ ent' = ent /\ before' = ent /\ step' = "plan"
    BY <1>7 DEF CleanAgain, UseInv
  <2> QED
    BY <2>1 DEF UseInv
<1>8. CASE UNCHANGED vars
  BY <1>8 DEF vars, UseInv
<1> QED
  BY <1>1, <1>2, <1>3, <1>4, <1>5, <1>6, <1>7, <1>8 DEF Next, Done

\* In a file without orphans no cleanup leaves anything behind that it replaced: whatever
\* is there between the passes counts itself or is reached from what counts, for the
\* collection takes what nothing refers to, goes down to the end, and spares what a list, a
\* style or a shell still needs (partition_recovery.rs, face_coalesce.rs).
THEOREM BodiesLeaveNoOrphans ==
    EitherSpec => []((pass # "absent" => Orphans(input) = {})
                       => (pass # "absent" => NothingIsOrphaned))
<1> DEFINE I == Orphans(input) = {} => UseInv
<1>1. EitherInit => (pass # "absent" => I)
  <2> SUFFICES ASSUME Init, InputsAssumption, Orphans(input) = {} PROVE UseInv
    BY BodyMergeAssumption DEF EitherInit, NoBodies
  <2>1. ent = input /\ before = input /\ Whole(input) /\ step = "plan"
    BY DEF Init, InputsAssumption
  <2>2. InUse(input)
    BY <2>1, NoOrphans
  <2> QED
    BY <2>1, <2>2 DEF UseInv
<1>2. BodyInv /\ I /\ [Next]_vars => I'
  <2> SUFFICES ASSUME BodyInv, I, [Next]_vars, Orphans(input') = {} PROVE UseInv'
    OBVIOUS
  <2>1. input' = input
    BY DEF Next, PlanPartition, PlanCoalesce, PlanWith, Weld, RollBack, Rebuild, Coalesce,
           Sweep, CleanAgain, Leave, Done, vars
  <2>2. UseInv
    BY <2>1
  <2> QED
    BY <2>2, UseStep
<1>3. (pass # "absent" => BodyInv) /\ (pass # "absent" => I)
         /\ [EitherNext]_<<vars, valueVars, solidVars, featureVars>> => (pass # "absent" => I)'
  <2> SUFFICES ASSUME pass # "absent" => BodyInv /\ I,
                      [EitherNext]_<<vars, valueVars, solidVars, featureVars>>,
                      pass' # "absent"
               PROVE  I'
    OBVIOUS
  <2> HIDE DEF I
  <2>1. CASE pass # "absent" /\ Next
    BY <1>2, <2>1
  <2>2. CASE UNCHANGED vars
    <3>1. pass # "absent"
      BY <2>2 DEF vars
    <3> QED
      BY <1>2, <2>2, <3>1
  <2> QED
    BY <2>1, <2>2 DEF EitherNext
<1>4. (pass # "absent" => BodyInv) /\ (pass # "absent" => I)
         => ((pass # "absent" => Orphans(input) = {}) => (pass # "absent" => NothingIsOrphaned))
  <2> SUFFICES ASSUME BodyInv, I, Orphans(input) = {}, Between PROVE Orphans(ent) = {}
    BY DEF NothingIsOrphaned
  <2>1. Whole(ent) /\ InUse(ent)
    BY DEF BodyInv, UseInv, Between
  <2> QED
    BY <2>1, NoOrphans
<1> HIDE DEF I
<1> QED
  BY <1>1, <1>3, <1>4, EitherBodies, PTL DEF EitherSpec

-----------------------------------------------------------------------------
(* The bodies beside the instancing of solids.                             *)

\* The instancing of solids, if there is any beside the other passes.
LEMMA EitherSolids ==
    ASSUME Solids!NoAuxiliary PROVE EitherSpec => [](solidStep # "absent" => Solids!SolidInv)
<1>1. EitherInit => (solidStep # "absent" => Solids!SolidInv)
  <2> SUFFICES ASSUME EitherInit, solidStep # "absent" PROVE Solids!SolidInv
    OBVIOUS
  <2>1. Solids!Init
    BY DEF EitherInit, NoSolids
  <2> QED
    BY <2>1, SolidAssumption, Solids!SolidInvHolds
<1>2. (solidStep # "absent" => Solids!SolidInv)
         /\ [EitherNext]_<<vars, valueVars, solidVars, featureVars>>
         => (solidStep # "absent" => Solids!SolidInv)'
  <2> SUFFICES ASSUME solidStep # "absent" => Solids!SolidInv,
                      [EitherNext]_<<vars, valueVars, solidVars, featureVars>>,
                      solidStep' # "absent"
               PROVE  Solids!SolidInv'
    OBVIOUS
  <2>1. solidStep # "absent" /\ [Solids!Next]_(Solids!vars)
    BY DEF EitherNext, solidVars, Solids!vars
  <2> QED
    BY <2>1, SolidAssumption, Solids!SolidInvStays
<1> QED
  BY <1>1, <1>2, PTL DEF EitherSpec

\* In files without orphans, and without shape representations of solids where the assembly
\* pass is run: whatever the passes merge, convert and collect, nobody is left without a
\* user, no reference leads to what is gone, and the assembly is complete or not begun.
THEOREM FilesStayWhole ==
    ASSUME Solids!NoAuxiliary, \A e \in Inputs : Orphans(e) = {}
    PROVE  EitherSpec => []FilesAreWhole
<1> DEFINE I == pass # "absent" => Orphans(input) = {}
<1>1. EitherInit => I
  BY DEF EitherInit, NoBodies, Init
<1>2. I /\ [EitherNext]_<<vars, valueVars, solidVars, featureVars>> => I'
  <2> SUFFICES ASSUME I, [EitherNext]_<<vars, valueVars, solidVars, featureVars>>, pass' # "absent"
               PROVE  Orphans(input)' = {}
    OBVIOUS
  <2>1. pass # "absent" /\ input' = input
    BY DEF EitherNext, Next, PlanPartition, PlanCoalesce, PlanWith, Weld, RollBack, Rebuild,
           Coalesce, Sweep, CleanAgain, Leave, Done, vars
  <2> QED
    BY <2>1 DEF Orphans
<1>3. Solids!SolidInv => Solids!NothingDanglesOrIsLeft /\ Solids!AssemblyIsWholeOrNothing
  BY Solids!SolidInvIsWhole
<1>4. (pass # "absent" => NothingIsOrphaned)
         /\ (solidStep # "absent" => Solids!NothingDanglesOrIsLeft
                                       /\ Solids!AssemblyIsWholeOrNothing) => FilesAreWhole
  BY DEF FilesAreWhole
<1>5. EitherSpec => [](solidStep # "absent" => Solids!SolidInv)
  BY EitherSolids
<1>6. I => (pass # "absent" => Orphans(input) = {})
  OBVIOUS
<1> HIDE DEF I
<1> QED
  BY <1>1, <1>2, <1>3, <1>4, <1>5, <1>6, BodiesLeaveNoOrphans, PTL DEF EitherSpec
=============================================================================
