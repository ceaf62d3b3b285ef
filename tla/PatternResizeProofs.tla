-------------------------- MODULE PatternResizeProofs --------------------------
(***************************************************************************)
(* Proofs about PatternResize for rows, lists and bounds of any size.      *)
(*                                                                         *)
(* The invariant: the parent is its other items around the row, every list *)
(* that shows the row shows that very sequence (Shown), and the items lie  *)
(* an even number of half pitches apart (OnTheGrid), so that a centred     *)
(* edit never falls between two positions.  Three facts carry a step.      *)
(* Splicing a row that stands together puts the new row in its place       *)
(* (RowIsReplaced).  The places an edit writes are its sites without the   *)
(* source's, in order (PlacesAreTheSites).  A set that fills its lattice   *)
(* has that lattice's pitch, whichever difference detection prefers        *)
(* (RowFillsItsLattice).                                                   *)
(***************************************************************************)
EXTENDS PatternResize, FiniteSetTheorems, SequenceTheorems, TLAPS

-----------------------------------------------------------------------------
(* Numbers and finite sets of them.                                        *)

\* An inhabited set of integers with a lower bound has a least member.
LEMMA HasLeast ==
    ASSUME NEW S \in SUBSET Int, S # {}, NEW b \in Int, \A x \in S : b <= x
    PROVE  LeastOf(S) \in S /\ \A x \in S : LeastOf(S) <= x
<1> DEFINE R == {p \in Nat \X Nat : p[1] < p[2]}
           N == {m \in Nat : m + b \in S}
<1>1. IsWellFoundedOn(R, Nat)
  BY NatLessThanWellFounded, Zenon DEF OpToRel
<1>2. \A m, k \in Nat : m < k => <<m, k>> \in R
  OBVIOUS
<1>3. N # {} /\ N \subseteq Nat
  <2>1. PICK x \in S : TRUE
    OBVIOUS
  <2>2. x - b \in Nat /\ (x - b) + b = x
    BY <2>1
  <2>3. x - b \in N
    BY <2>1, <2>2
  <2> QED
    BY <2>3
<1> HIDE DEF R
<1>4. PICK m \in N : \A k \in N : ~ (<<k, m>> \in R)
  <2> HIDE DEF N
  <2> QED
    BY <1>1, <1>3, WFMin
<1>5. m + b \in S /\ m \in Nat
  BY <1>4
<1>6. ASSUME NEW x \in S PROVE m + b <= x
  <2>1. x - b \in Nat /\ (x - b) + b = x
    BY <1>6
  <2>2. x - b \in N
    BY <1>6, <2>1
  <2>3. ~ (x - b < m)
    <3> HIDE DEF N
    <3> QED
      BY <1>2, <1>4, <1>5, <2>1, <2>2
  <2> QED
    BY <1>5, <2>1, <2>3
<1> QED
  BY <1>5, <1>6 DEF LeastOf

\* One with an upper bound has a greatest.
LEMMA HasGreatest ==
    ASSUME NEW S \in SUBSET Int, S # {}, NEW b \in Int, \A x \in S : x <= b
    PROVE  GreatestOf(S) \in S /\ \A x \in S : x <= GreatestOf(S)
<1> DEFINE M == {-x : x \in S}
<1>1. M \in SUBSET Int /\ M # {} /\ -b \in Int /\ \A x \in M : -b <= x
  <2>1. \A x \in S : -x \in Int /\ -b <= -x
    OBVIOUS
  <2>2. M # {}
    OBVIOUS
  <2> QED
    BY <2>1, <2>2
<1>2. LeastOf(M) \in M /\ \A x \in M : LeastOf(M) <= x
  <2> HIDE DEF M
  <2> QED
    BY <1>1, HasLeast
<1>3. PICK y \in S : LeastOf(M) = -y
  BY <1>2
<1>4. ASSUME NEW x \in S PROVE x <= y
  <2>1. -x \in M
    OBVIOUS
  <2>2. -y <= -x
    BY <1>2, <1>3, <2>1
  <2>3. x \in Int /\ y \in Int
    OBVIOUS
  <2> QED
    BY <2>2, <2>3
<1> QED
  BY <1>4 DEF GreatestOf

\* Whatever is a member below all others is the least, above all the greatest.
LEMMA IsLeast ==
    ASSUME NEW S \in SUBSET Int, NEW x \in S, \A y \in S : x <= y
    PROVE  LeastOf(S) = x
<1>1. LeastOf(S) \in S /\ \A y \in S : LeastOf(S) <= y
  BY DEF LeastOf
<1> DEFINE m == LeastOf(S)
<1>2. m \in Int /\ x \in Int /\ m <= x /\ x <= m
  BY <1>1
<1> HIDE DEF m
<1>3. m = x
  BY <1>2
<1> QED
  BY <1>3 DEF m

\* A member that no other exceeds is the greatest.
LEMMA IsGreatest ==
    ASSUME NEW S \in SUBSET Int, NEW x \in S, \A y \in S : y <= x
    PROVE  GreatestOf(S) = x
<1>1. GreatestOf(S) \in S /\ \A y \in S : y <= GreatestOf(S)
  BY DEF GreatestOf
<1> DEFINE m == GreatestOf(S)
<1>2. m \in Int /\ x \in Int /\ m <= x /\ x <= m
  BY <1>1
<1> HIDE DEF m
<1>3. m = x
  BY <1>2
<1> QED
  BY <1>3 DEF m

\* Sites keep their order.
LEMMA Further ==
    ASSUME NEW d \in Nat \ {0}, NEW j \in Int, NEW k \in Int, j < k
    PROVE  d * k - d * j >= d
<1>1. d * (k - j) = d * k - d * j
  OBVIOUS
<1>2. k - j >= 1
  OBVIOUS
<1>3. d * (k - j) >= d
  BY <1>2
<1> QED
  BY <1>1, <1>3

\* What a pitch divides.
LEMMA Whole ==
    ASSUME NEW d \in Nat \ {0}, NEW x \in Int, x % d = 0
    PROVE  x \div d \in Int /\ x = d * (x \div d)
OBVIOUS

\* A multiple of the pitch divides by it.
LEMMA Multiple ==
    ASSUME NEW d \in Nat \ {0}, NEW k \in Int
    PROVE  (d * k) % d = 0 /\ (d * k) \div d = k
OBVIOUS

\* Evenness passes to sums, differences and multiples.
LEMMA EvenSums ==
    ASSUME NEW x \in Int, NEW y \in Int, x % 2 = 0, y % 2 = 0
    PROVE  (x + y) % 2 = 0 /\ (x - y) % 2 = 0
OBVIOUS

\* Evenness passes to multiples.
LEMMA EvenMultiples ==
    ASSUME NEW x \in Int, NEW k \in Int, x % 2 = 0
    PROVE  (x * k) % 2 = 0
<1>1. x = 2 * (x \div 2) /\ x \div 2 \in Int
  OBVIOUS
<1>2. x * k = 2 * ((x \div 2) * k)
  BY <1>1
<1>3. (x \div 2) * k \in Int
  BY <1>1
<1>4. \A m \in Int : (2 * m) % 2 = 0
  OBVIOUS
<1> QED
  BY <1>2, <1>3, <1>4, Zenon

-----------------------------------------------------------------------------
(* The order of a set by its keys.                                         *)

\* The members up to one of them, by key: as many as its place says.
UpTo(S, key, x) == {y \in S : key[y] <= key[x]}

\* Distinct keys give distinct places, and every place is taken.
LEMMA EveryPlaceIsTaken ==
    ASSUME NEW S, IsFiniteSet(S), NEW key, \A x \in S : key[x] \in Int,
           \A x, y \in S : key[x] = key[y] => x = y
    PROVE  /\ Cardinality(S) \in Nat
           /\ \A x \in S : Cardinality(UpTo(S, key, x)) \in 1 .. Cardinality(S)
           /\ \A x, y \in S : Cardinality(UpTo(S, key, x)) = Cardinality(UpTo(S, key, y))
                              => x = y
           /\ \A j \in 1 .. Cardinality(S) : \E x \in S : Cardinality(UpTo(S, key, x)) = j
<1> DEFINE n == Cardinality(S)
           place == [x \in S |-> Cardinality(UpTo(S, key, x))]
<1>1. n \in Nat /\ IsFiniteSet(1 .. n) /\ Cardinality(1 .. n) = n
  BY FS_CardinalityType, FS_Interval
<1>2. ASSUME NEW x \in S PROVE /\ IsFiniteSet(UpTo(S, key, x))
                                 /\ Cardinality(UpTo(S, key, x)) \in 1 .. n
  <2>1. UpTo(S, key, x) \in SUBSET S /\ x \in UpTo(S, key, x)
    BY DEF UpTo
  <2>2. IsFiniteSet(UpTo(S, key, x)) /\ Cardinality(UpTo(S, key, x)) <= n
    BY <2>1, FS_Subset
  <2>3. Cardinality(UpTo(S, key, x)) \in Nat /\ Cardinality(UpTo(S, key, x)) # 0
    BY <2>1, <2>2, FS_CardinalityType, FS_EmptySet
  <2> QED
    BY <1>1, <2>2, <2>3
<1>3. ASSUME NEW x \in S, NEW y \in S, key[x] < key[y]
      PROVE  Cardinality(UpTo(S, key, x)) # Cardinality(UpTo(S, key, y))
  <2>1. key[x] \in Int /\ key[y] \in Int
    OBVIOUS
  <2>2. UpTo(S, key, x) \in SUBSET UpTo(S, key, y)
    BY <1>3, <2>1 DEF UpTo
  <2>3. y \in UpTo(S, key, y) /\ y \notin UpTo(S, key, x)
    BY <1>3, <2>1 DEF UpTo
  <2> QED
    BY <1>2, <2>2, <2>3, FS_Subset
<1>4. \A x, y \in S : Cardinality(UpTo(S, key, x)) = Cardinality(UpTo(S, key, y)) => x = y
  <2> SUFFICES ASSUME NEW x \in S, NEW y \in S, x # y
               PROVE  Cardinality(UpTo(S, key, x)) # Cardinality(UpTo(S, key, y))
    OBVIOUS
  <2>1. key[x] \in Int /\ key[y] \in Int /\ key[x] # key[y]
    OBVIOUS
  <2>2. key[x] < key[y] \/ key[y] < key[x]
    BY <2>1
  <2> QED
    BY <1>3, <2>2
<1>5. place \in Injection(S, 1 .. n)
  BY <1>2, <1>4 DEF Injection, IsInjective
<1>6. place \in Surjection(S, 1 .. n)
  BY <1>1, <1>5, FS_Injection
<1>7. ASSUME NEW j \in 1 .. n PROVE \E x \in S : place[x] = j
  BY <1>6, Zenon DEF Surjection
<1> QED
  BY <1>1, <1>2, <1>4, <1>7

\* InOrder lists every member once.
LEMMA InOrderLists ==
    ASSUME NEW S, IsFiniteSet(S), NEW key, \A x \in S : key[x] \in Int,
           \A x, y \in S : key[x] = key[y] => x = y
    PROVE  /\ InOrder(S, key) \in Seq(S) /\ Len(InOrder(S, key)) = Cardinality(S)
           /\ \A x \in S : \E j \in 1 .. Cardinality(S) : InOrder(S, key)[j] = x
           /\ \A i, j \in 1 .. Cardinality(S) : InOrder(S, key)[i] = InOrder(S, key)[j] => i = j
<1> DEFINE n == Cardinality(S)
           rank(x) == Cardinality(UpTo(S, key, x))
           nth(j) == CHOOSE x \in S : rank(x) = j
<1>1. /\ n \in Nat
      /\ \A x \in S : rank(x) \in 1 .. n
      /\ \A x, y \in S : rank(x) = rank(y) => x = y
      /\ \A j \in 1 .. n : \E x \in S : rank(x) = j
  BY EveryPlaceIsTaken
<1>2. InOrder(S, key) = [j \in 1 .. n |-> nth(j)]
  BY DEF InOrder, UpTo
<1> HIDE DEF n, rank
<1>3. \A j \in 1 .. n : nth(j) \in S /\ rank(nth(j)) = j
  BY <1>1
<1> HIDE DEF nth
<1>4. \A x \in S : nth(rank(x)) = x
  BY <1>1, <1>3
<1>5. InOrder(S, key) \in [1 .. n -> S] /\ \A j \in 1 .. n : InOrder(S, key)[j] = nth(j)
  BY <1>2, <1>3
<1>6. InOrder(S, key) \in Seq(S) /\ Len(InOrder(S, key)) = n
  BY <1>1, <1>5
<1>7. \A x \in S : \E j \in 1 .. n : InOrder(S, key)[j] = x
  BY <1>1, <1>4, <1>5
<1>8. \A i, j \in 1 .. n : InOrder(S, key)[i] = InOrder(S, key)[j] => i = j
  BY <1>3, <1>5
<1> QED
  BY <1>6, <1>7, <1>8 DEF n

-----------------------------------------------------------------------------
(* What a splice makes of a list.                                          *)

\* What rewrite_ref_sequence has written when k members are read.
Written(s, old, new, f) ==
    f = [k \in 0 .. Len(s) |->
            IF k = 0 THEN <<>>
            ELSE IF s[k] \notin old THEN Append(f[k - 1], s[k])
            ELSE IF \E j \in 1 .. k - 1 : s[j] \in old THEN f[k - 1]
            ELSE f[k - 1] \o new]

\* It is determined.
LEMMA WrittenIsUnique ==
    ASSUME NEW s, Len(s) \in Nat, NEW old, NEW new,
           NEW f, Written(s, old, new, f), NEW g, Written(s, old, new, g)
    PROVE  \A k \in 0 .. Len(s) : f[k] = g[k]
<1> DEFINE D == {k \in 0 .. Len(s) : f[k] # g[k]}
<1> SUFFICES ASSUME D # {} PROVE FALSE
  OBVIOUS
<1>1. D \in SUBSET Int /\ 0 \in Int /\ \A k \in D : 0 <= k
  OBVIOUS
<1>2. PICK k \in D : \A j \in D : k <= j
  <2> HIDE DEF D
  <2> QED
    BY <1>1, HasLeast
<1>3. k \in 0 .. Len(s) /\ f[k] # g[k]
  BY <1>2
<1>4. CASE k = 0
  BY <1>3, <1>4 DEF Written
<1>5. CASE k # 0
  <2>1. k - 1 \in 0 .. Len(s) /\ k - 1 \notin D
    BY <1>2, <1>3, <1>5
  <2>2. f[k - 1] = g[k - 1]
    BY <2>1
  <2>3. f[k] = IF s[k] \notin old THEN Append(f[k - 1], s[k])
               ELSE IF \E j \in 1 .. k - 1 : s[j] \in old THEN f[k - 1]
               ELSE f[k - 1] \o new
    BY <1>3, <1>5, Zenon DEF Written
  <2>4. g[k] = IF s[k] \notin old THEN Append(g[k - 1], s[k])
               ELSE IF \E j \in 1 .. k - 1 : s[j] \in old THEN g[k - 1]
               ELSE g[k - 1] \o new
    BY <1>3, <1>5, Zenon DEF Written
  <2> QED
    BY <1>3, <2>2, <2>3, <2>4
<1> QED
  BY <1>4, <1>5

\* So a splice is the last of whatever satisfies the recursion.
LEMMA SplicedIsWritten ==
    ASSUME NEW s, Len(s) \in Nat, NEW old, NEW new, NEW f, Written(s, old, new, f)
    PROVE  Spliced(s, old, new) = f[Len(s)]
<1> DEFINE out[k \in 0 .. Len(s)] ==
               IF k = 0 THEN <<>>
               ELSE IF s[k] \notin old THEN Append(out[k - 1], s[k])
               ELSE IF \E j \in 1 .. k - 1 : s[j] \in old THEN out[k - 1]
               ELSE out[k - 1] \o new
<1>1. Spliced(s, old, new) = out[Len(s)]
  BY DEF Spliced
<1>2. out = CHOOSE g : Written(s, old, new, g)
  BY DEF Written
<1> HIDE DEF out
<1>3. Written(s, old, new, out)
  BY <1>2
<1>4. Len(s) \in 0 .. Len(s)
  OBVIOUS
<1> QED
  BY <1>1, <1>3, <1>4, WrittenIsUnique

\* A prefix grows by one member, after whatever stands before it.
LEMMA PrefixGrows ==
    ASSUME NEW T, NEW s \in Seq(T), NEW u \in Seq(T), NEW k \in 1 .. Len(s)
    PROVE  /\ SubSeq(s, 1, k) = Append(SubSeq(s, 1, k - 1), s[k])
           /\ u \o SubSeq(s, 1, k) = Append(u \o SubSeq(s, 1, k - 1), s[k])
<1> DEFINE before == SubSeq(s, 1, k - 1)
<1>1. 1 \in 1 .. Len(s) /\ k \in 1 .. k /\ k \in 1 .. Len(s) /\ k \in Int /\ k - 1 \in Int
  OBVIOUS
<1>2. SubSeq(s, 1, k) = before \o <<s[k]>>
  BY <1>1, SubSeqRecursiveSecond
<1>3. s[k] \in T /\ <<s[k]>> \in Seq(T)
  BY <1>1
<1>4. before \in Seq(T)
  <2>1. \A i \in 1 .. k - 1 : s[i] \in T
    BY <1>1
  <2> QED
    BY <1>1, <2>1, SubSeqProperties
<1> HIDE DEF before
<1>5. before \o <<s[k]>> = Append(before, s[k])
  BY <1>3, <1>4, AppendIsConcat
<1>6. (u \o before) \o <<s[k]>> = u \o (before \o <<s[k]>>)
  BY <1>3, <1>4, ConcatAssociative
<1>7. (u \o before) \o <<s[k]>> = Append(u \o before, s[k])
  <2>1. u \o before \in Seq(T)
    BY <1>4
  <2> QED
    BY <1>3, <2>1, AppendIsConcat
<1> QED
  BY <1>2, <1>5, <1>6, <1>7 DEF before

\* The empty and the whole prefix of a sequence.
LEMMA PrefixStarts ==
    ASSUME NEW T, NEW s \in Seq(T), NEW u \in Seq(T)
    PROVE  /\ SubSeq(s, 1, 0) = <<>> /\ u \o SubSeq(s, 1, 0) = u
           /\ SubSeq(s, 1, Len(s)) = s
BY SubSeqEmpty, SubSeqFull, ConcatEmptySeq

\* A list that shows nothing of the row stays.
LEMMA OthersStay ==
    ASSUME NEW T, NEW s \in Seq(T), NEW old, NEW new, \A i \in 1 .. Len(s) : s[i] \notin old
    PROVE  Spliced(s, old, new) = s
<1> DEFINE F == [k \in 0 .. Len(s) |-> SubSeq(s, 1, k)]
<1>1. Len(s) \in Nat /\ s = SubSeq(s, 1, Len(s))
  BY PrefixStarts
<1>2. ASSUME NEW k \in 0 .. Len(s)
      PROVE  SubSeq(s, 1, k) = IF k = 0 THEN <<>> ELSE Append(SubSeq(s, 1, k - 1), s[k])
  <2>1. CASE k = 0
    BY <2>1, SubSeqEmpty
  <2>2. CASE k # 0
    <3>1. k \in 1 .. Len(s)
      BY <1>1, <2>2
    <3> QED
      BY <2>2, <3>1, PrefixGrows
  <2> QED
    BY <2>1, <2>2
<1>3. \A k \in 0 .. Len(s) : k # 0 => k - 1 \in 0 .. Len(s) /\ s[k] \notin old
  BY <1>1
<1>4. Written(s, old, new, F)
  BY <1>2, <1>3, Zenon DEF Written
<1>5. F[Len(s)] = s
  BY <1>1
<1> QED
  BY <1>1, <1>4, <1>5, SplicedIsWritten

\* In a list that shows the row in one piece the new row stands where the old one was.
InOnePiece(T, lead, row, tail, old) ==
    /\ lead \in Seq(T) /\ row \in Seq(T) /\ tail \in Seq(T) /\ row # <<>>
    /\ \A i \in 1 .. Len(lead) : lead[i] \notin old
    /\ \A i \in 1 .. Len(row) : row[i] \in old
    /\ \A i \in 1 .. Len(tail) : tail[i] \notin old

\* Splicing a new row over an old one that lies in one piece leaves what is around it.
LEMMA RowIsReplaced ==
    ASSUME NEW T, NEW lead, NEW row, NEW tail, NEW old, NEW new \in Seq(T),
           InOnePiece(T, lead, row, tail, old)
    PROVE  Spliced((lead \o row) \o tail, old, new) = (lead \o new) \o tail
<1> USE DEF InOnePiece
<1> DEFINE a == Len(lead)
           b == a + Len(row)
           n == b + Len(tail)
           s == (lead \o row) \o tail
           u == lead \o new
           F == [k \in 0 .. n |-> IF k <= a THEN SubSeq(lead, 1, k)
                                  ELSE IF k <= b THEN u
                                  ELSE u \o SubSeq(tail, 1, k - b)]
<1>1. /\ a \in Nat /\ b \in Nat /\ n \in Nat /\ a < b /\ b <= n
      /\ Len(lead) = a /\ Len(tail) = n - b
  <2>1. Len(lead) \in Nat /\ Len(row) \in Nat \ {0} /\ Len(tail) \in Nat
    BY EmptySeq
  <2> QED
    BY <2>1
<1>2. s \in Seq(T) /\ Len(s) = n
  OBVIOUS
<1>3. /\ \A k \in 1 .. n : k <= a => s[k] = lead[k] /\ s[k] \notin old
      /\ \A k \in 1 .. n : a < k /\ k <= b => s[k] \in old
      /\ \A k \in 1 .. n : b < k => s[k] = tail[k - b] /\ s[k] \notin old
  OBVIOUS
<1>4. u \in Seq(T)
  OBVIOUS
<1>5. lead \o new = u /\ SubSeq(lead, 1, a) = lead /\ SubSeq(tail, 1, n - b) = tail
  BY <1>1, PrefixStarts
<1> HIDE DEF s, u, n, b, a
<1>6. /\ F = [k \in 0 .. n |-> F[k]]
      /\ \A k \in 0 .. n : F[k] = IF k <= a THEN SubSeq(lead, 1, k)
                                ELSE IF k <= b THEN u
                                ELSE u \o SubSeq(tail, 1, k - b)
  OBVIOUS
<1> HIDE DEF F
<1>7. \A k \in 0 .. n : k <= a => F[k] = SubSeq(lead, 1, k)
  BY <1>6
<1>8. \A k \in 0 .. n : a < k /\ k <= b => F[k] = u
  BY <1>1, <1>6
<1>9. \A k \in 0 .. n : b < k => F[k] = u \o SubSeq(tail, 1, k - b)
  BY <1>1, <1>6
<1>10. ASSUME NEW k \in 0 .. n
      PROVE  F[k] = IF k = 0 THEN <<>>
                    ELSE IF s[k] \notin old THEN Append(F[k - 1], s[k])
                    ELSE IF \E j \in 1 .. k - 1 : s[j] \in old THEN F[k - 1]
                    ELSE F[k - 1] \o new
  <2>1. CASE k = 0
    <3>1. F[k] = SubSeq(lead, 1, k)
      BY <1>1, <1>7, <2>1
    <3> QED
      BY <2>1, <3>1, SubSeqEmpty
  <2>2. CASE k # 0 /\ k <= a
    <3>1. SubSeq(lead, 1, k) = Append(SubSeq(lead, 1, k - 1), lead[k])
      <4>1. k \in 1 .. Len(lead)
        BY <1>1, <2>2
      <4> QED
        BY <4>1, PrefixGrows
    <3>2. F[k] = SubSeq(lead, 1, k) /\ F[k - 1] = SubSeq(lead, 1, k - 1)
      BY <1>1, <1>7, <2>2
    <3>3. s[k] = lead[k] /\ s[k] \notin old
      BY <1>1, <1>3, <2>2
    <3> QED
      BY <2>2, <3>1, <3>2, <3>3
  <2>3. CASE k = a + 1
    <3>1. ~ \E j \in 1 .. k - 1 : s[j] \in old
      BY <1>1, <1>3, <2>3
    <3>2. s[k] \in old
      BY <1>1, <1>3, <2>3
    <3>3. F[k] = u /\ F[k - 1] = lead
      <4>1. k - 1 \in 0 .. n /\ k - 1 = a /\ a < k /\ k <= b
        BY <1>1, <2>3
      <4> QED
        BY <1>1, <1>5, <1>7, <1>8, <4>1
    <3> QED
      BY <1>1, <1>5, <2>3, <3>1, <3>2, <3>3
  <2>4. CASE a + 1 < k /\ k <= b
    <3>1. a + 1 \in 1 .. k - 1 /\ s[a + 1] \in old /\ s[k] \in old
      BY <1>1, <1>3, <2>4
    <3>2. F[k] = u /\ F[k - 1] = u
      <4>1. k - 1 \in 0 .. n /\ a < k - 1 /\ k - 1 <= b /\ a < k
        BY <1>1, <2>4
      <4> QED
        BY <1>8, <2>4, <4>1
    <3> QED
      BY <1>1, <2>4, <3>1, <3>2
  <2>5. CASE b < k
    <3> DEFINE m == k - b
    <3>1. m \in 1 .. Len(tail) /\ k # 0
      BY <1>1, <2>5
    <3>2. u \o SubSeq(tail, 1, m) = Append(u \o SubSeq(tail, 1, m - 1), tail[m])
      <4> HIDE DEF m
      <4> QED
        BY <1>4, <3>1, PrefixGrows
    <3>3. F[k - 1] = u \o SubSeq(tail, 1, m - 1)
      <4>1. CASE k = b + 1
        <5>1. k - 1 \in 0 .. n /\ a < k - 1 /\ k - 1 <= b /\ m - 1 = 0
          BY <1>1, <4>1
        <5>2. F[k - 1] = u
          BY <1>8, <5>1
        <5> QED
          BY <1>4, <5>1, <5>2, PrefixStarts
      <4>2. CASE b + 1 < k
        <5>1. k - 1 \in 0 .. n /\ b < k - 1 /\ (k - 1) - b = m - 1
          BY <1>1, <4>2
        <5> QED
          BY <1>9, <5>1
      <4>3. k = b + 1 \/ b + 1 < k
        BY <1>1, <2>5
      <4> HIDE DEF m
      <4> QED
        BY <4>1, <4>2, <4>3
    <3>4. F[k] = u \o SubSeq(tail, 1, m)
      BY <1>9, <2>5
    <3>5. s[k] = tail[m] /\ s[k] \notin old
      <4>1. k \in 1 .. n
        BY <1>1, <2>5
      <4> QED
        BY <1>3, <2>5, <4>1
    <3> HIDE DEF m
    <3> QED
      BY <3>1, <3>2, <3>3, <3>4, <3>5
  <2> QED
    BY <1>1, <2>1, <2>2, <2>3, <2>4, <2>5
<1>11. Written(s, old, new, F)
  BY <1>2, <1>6, <1>10, Zenon DEF Written
<1>12. F[n] = u \o tail
  <2>1. CASE b = n
    <3>1. tail = <<>> /\ F[n] = u
      BY <1>1, <1>8, <2>1, EmptySeq
    <3> QED
      BY <1>4, <3>1, ConcatEmptySeq
  <2>2. CASE b # n
    BY <1>1, <1>5, <1>9, <2>2
  <2> QED
    BY <2>1, <2>2
<1>13. Spliced(s, old, new) = F[n]
  BY <1>1, <1>2, <1>11, SplicedIsWritten
<1> QED
  BY <1>12, <1>13 DEF s, u

-----------------------------------------------------------------------------
(* What the lists of a file show.                                          *)

Lead(direct) == IF direct THEN <<Host, Source>> ELSE <<Host>>

OnceEach(row) == row \in Seq(Item) /\ \A i, j \in 1 .. Len(row) : row[i] = row[j] => i = j

\* The parent and the lists of styles show the same row, in one piece, and the file
\* holds it and what something else refers to.
ShownAs(row, direct) ==
    /\ OnceEach(row)
    /\ parent = (Lead(direct) \o row) \o <<Host>>
    /\ \A l \in Layers : layer[l] \in {<<Host>>, <<Host>> \o row}
    /\ ToSet(row) \subseteq live
    /\ live \ ToSet(row) \subseteq pinned

Shown == ShownAs(Listed(parent), HasSource(parent))

\* The items lie on a grid of whole pitches of the first row.
OnTheGrid == \A i, j \in Mapped(parent) : (at[i] - at[j]) % 2 = 0

IInv == TypeOK /\ Shown /\ OnTheGrid

\* The parts of a parent that shows a row.
LEMMA PartsOfTheParent ==
    ASSUME BoundAssumption, NEW row \in Seq(Item), NEW direct \in BOOLEAN, NEW p,
           p = (Lead(direct) \o row) \o <<Host>>
    PROVE  /\ p \in Seq(Item \cup {Source, Host})
           /\ Mapped(p) = ToSet(row) /\ HasSource(p) = direct /\ Listed(p) = row
<1> DEFINE T == Item \cup {Source, Host}
           a == Len(Lead(direct))
           n == Len(row)
<1>1. Source \notin Item /\ Host \notin Item /\ Source # Host
  BY DEF BoundAssumption, Source, Host, Item
<1>2. Lead(direct) \in Seq(T) /\ row \in Seq(T) /\ <<Host>> \in Seq(T)
  <2>1. <<Host, Source>> \in Seq(T) /\ <<Host>> \in Seq(T)
    OBVIOUS
  <2>2. row \in Seq(T)
    BY SeqMonotonic
  <2> QED
    BY <2>1, <2>2 DEF Lead
<1>3. a = IF direct THEN 2 ELSE 1
  BY DEF Lead
<1>4. p \in Seq(T) /\ Len(p) = a + n + 1 /\ n \in Nat
  BY <1>2
<1>5. /\ \A i \in 1 .. a : p[i] = Lead(direct)[i]
      /\ \A i \in 1 .. n : p[a + i] = row[i]
      /\ p[a + n + 1] = Host
  <2> DEFINE u == Lead(direct) \o row
  <2>1. u \in Seq(T) /\ Len(u) = a + n /\ p = u \o <<Host>> /\ a \in Nat
    <3>1. u \in Seq(T) /\ Len(u) = a + n
      BY <1>2, ConcatProperties
    <3>2. a \in Nat
      BY <1>3
    <3> QED
      BY <3>1, <3>2
  <2>2. \A i \in 1 .. a + n : u[i] = IF i <= a THEN Lead(direct)[i] ELSE row[i - a]
    BY <1>2, ConcatProperties
  <2> HIDE DEF u, a, n
  <2>3. (\A i \in 1 .. a + n : p[i] = u[i]) /\ p[a + n + 1] = Host
    BY <1>2, <1>4, <2>1
  <2>4. \A i \in 1 .. n : a + i \in 1 .. a + n /\ ~(a + i <= a) /\ (a + i) - a = i
    BY <1>4, <2>1
  <2>5. \A i \in 1 .. a : i \in 1 .. a + n /\ i <= a
    BY <1>4, <2>1
  <2> QED
    BY <2>2, <2>3, <2>4, <2>5
<1>6. /\ direct => p[2] = Source
      /\ \A i \in 1 .. a : p[i] \notin Item /\ (~direct => p[i] # Source)
  <2>1. direct => Lead(direct) = <<Host, Source>>
    BY DEF Lead
  <2>2. ~direct => Lead(direct) = <<Host>>
    BY DEF Lead
  <2> QED
    BY <1>1, <1>3, <1>5, <2>1, <2>2
<1> HIDE DEF a, n
<1>7. Mapped(p) = ToSet(row)
  <2>1. ASSUME NEW x \in Mapped(p) PROVE x \in ToSet(row)
    <3>1. PICK i \in 1 .. a + n + 1 : p[i] = x /\ x \in Item
      BY <1>4, <2>1 DEF Mapped, ToSet
    <3>2. i - a \in 1 .. n /\ i = a + (i - a)
      BY <1>1, <1>3, <1>4, <1>5, <1>6, <3>1
    <3>3. row[i - a] = x
      BY <1>5, <3>1, <3>2
    <3> QED
      BY <3>2, <3>3 DEF ToSet, n
  <2>2. ASSUME NEW x \in ToSet(row) PROVE x \in Mapped(p)
    <3>1. PICK i \in 1 .. n : row[i] = x
      BY DEF ToSet, n
    <3>2. x \in Item
      BY <3>1 DEF n
    <3>3. a + i \in 1 .. a + n + 1 /\ p[a + i] = x
      BY <1>3, <1>4, <1>5, <3>1
    <3> QED
      BY <1>4, <3>2, <3>3 DEF Mapped, ToSet
  <2> QED
    BY <2>1, <2>2
<1>8. HasSource(p) = direct
  <2>1. CASE direct
    <3>1. a = 2 /\ p[2] = Source
      BY <1>3, <1>6, <2>1
    <3>2. DOMAIN p = 1 .. Len(p) /\ 2 \in 1 .. Len(p)
      BY <1>4, <3>1
    <3> QED
      BY <2>1, <3>1, <3>2 DEF HasSource, ToSet
  <2>2. CASE ~direct
    <3>1. ASSUME NEW i \in 1 .. a + n + 1 PROVE p[i] # Source
      <4>1. CASE i <= a
        BY <1>3, <1>6, <2>2, <4>1
      <4>2. CASE i = a + n + 1
        BY <1>1, <1>5, <4>2
      <4>3. CASE a < i /\ i < a + n + 1
        <5>1. i - a \in 1 .. n /\ i = a + (i - a)
          BY <1>3, <1>4, <4>3
        <5>2. p[i] = row[i - a]
          BY <1>5, <5>1
        <5>3. row[i - a] \in Item
          BY <5>1 DEF n
        <5> QED
          BY <1>1, <5>2, <5>3
      <4> QED
        BY <1>3, <1>4, <4>1, <4>2, <4>3
    <3> QED
      BY <1>4, <2>2, <3>1 DEF HasSource, ToSet
  <2> QED
    BY <2>1, <2>2
<1>9. Listed(p) = row
  <2> DEFINE q == SubSeq(p, a + 1, a + n)
  <2>1. Listed(p) = q
    BY <1>3, <1>4, <1>8 DEF Listed
  <2>2. \A i \in a + 1 .. a + n : p[i] \in T
    BY <1>3, <1>4
  <2>3. /\ q \in Seq(T)
        /\ Len(q) = IF a + 1 <= a + n THEN (a + n) - (a + 1) + 1 ELSE 0
        /\ \A i \in 1 .. (a + n) - (a + 1) + 1 : q[i] = p[(a + 1) + i - 1]
    BY <1>3, <1>4, <2>2, SubSeqProperties
  <2>4. Len(q) = n /\ \A i \in 1 .. n : q[i] = row[i]
    BY <1>3, <1>4, <1>5, <2>3
  <2> HIDE DEF q
  <2> QED
    BY <1>2, <2>1, <2>3, <2>4, SeqEqual DEF n
<1> QED
  BY <1>4, <1>7, <1>8, <1>9

\* So the parent shows its own row.
LEMMA RowOfTheParent ==
    ASSUME BoundAssumption, Shown
    PROVE  /\ OnceEach(Listed(parent)) /\ HasSource(parent) \in BOOLEAN
           /\ parent = (Lead(HasSource(parent)) \o Listed(parent)) \o <<Host>>
           /\ Mapped(parent) = ToSet(Listed(parent))
<1>1. HasSource(parent) \in BOOLEAN
  <2>1. CASE HasSource(parent)
    <3>1. HasSource(parent) = TRUE
      BY <2>1 DEF HasSource
    <3> QED
      BY <3>1
  <2>2. CASE ~HasSource(parent)
    <3>1. HasSource(parent) = FALSE
      BY <2>2 DEF HasSource
    <3> QED
      BY <3>1
  <2> QED
    BY <2>1, <2>2
<1>2. OnceEach(Listed(parent)) /\ Listed(parent) \in Seq(Item)
  BY DEF Shown, ShownAs, OnceEach
<1>3. parent = (Lead(HasSource(parent)) \o Listed(parent)) \o <<Host>>
  BY Zenon DEF Shown, ShownAs
<1> QED
  BY <1>1, <1>2, <1>3, PartsOfTheParent

\* A row of distinct items has as many as it is long.
LEMMA RowCounts ==
    ASSUME NEW row, OnceEach(row)
    PROVE  /\ IsFiniteSet(ToSet(row)) /\ Cardinality(ToSet(row)) = Len(row)
           /\ ToSet(row) \subseteq Item
<1>1. Len(row) \in Nat /\ row \in [1 .. Len(row) -> Item]
  BY DEF OnceEach
<1>2. ToSet(row) = {row[i] : i \in 1 .. Len(row)}
  BY <1>1 DEF ToSet
<1>3. row \in [1 .. Len(row) -> ToSet(row)]
  BY <1>1, <1>2
<1>4. row \in Bijection(1 .. Len(row), ToSet(row))
  BY <1>2, <1>3 DEF OnceEach, Bijection, Injection, Surjection, IsInjective
<1>5. ExistsBijection(1 .. Len(row), ToSet(row))
  BY <1>4 DEF ExistsBijection
<1>6. IsFiniteSet(1 .. Len(row)) /\ Cardinality(1 .. Len(row)) = Len(row)
  BY <1>1, FS_Interval
<1> QED
  BY <1>1, <1>2, <1>5, <1>6, FS_Bijection

-----------------------------------------------------------------------------
(* An edit rewrites the row.                                               *)

\* The names an edit takes are those of items, each once, while the items of the row
\* stand in different places.
LEMMA NamesAreDistinct ==
    ASSUME BoundAssumption, TypeOK, Shown,
           \A i, j \in Mapped(parent) : at[i] = at[j] => i = j
    PROVE  OnceEach(Names)
<1> DEFINE R == Mapped(parent)
           F == Item \ live
           key == [i \in Item |-> i]
           r == InOrder(R, at)
           f == InOrder(F, key)
<1>1. R \subseteq Item /\ R \cap F = {}
  <2>1. R = ToSet(Listed(parent))
    BY RowOfTheParent
  <2> QED
    BY <2>1 DEF Shown, ShownAs, Mapped
<1>2. IsFiniteSet(Item)
  BY FS_Interval DEF BoundAssumption, Item
<1>3. IsFiniteSet(R) /\ IsFiniteSet(F)
  BY <1>1, <1>2, FS_Subset
<1>4. \A i \in R : at[i] \in Int
  BY <1>1 DEF TypeOK, BoundAssumption
<1>5. (\A i \in F : key[i] \in Int) /\ \A i, j \in F : key[i] = key[j] => i = j
  BY DEF Item, BoundAssumption
<1>6. /\ r \in Seq(R) /\ Len(r) = Cardinality(R) /\ Cardinality(R) \in Nat
      /\ \A i, j \in 1 .. Cardinality(R) : r[i] = r[j] => i = j
  <2> HIDE DEF R
  <2> QED
    BY <1>3, <1>4, InOrderLists, FS_CardinalityType DEF R
<1>7. /\ f \in Seq(F) /\ Len(f) = Cardinality(F) /\ Cardinality(F) \in Nat
      /\ \A i, j \in 1 .. Cardinality(F) : f[i] = f[j] => i = j
  <2> HIDE DEF F, key
  <2> QED
    BY <1>3, <1>5, InOrderLists, FS_CardinalityType
<1>8. Names = r \o f
  BY DEF Names
<1> HIDE DEF R, F, key, r, f
<1>9. r \in Seq(Item) /\ f \in Seq(Item)
  BY <1>1, <1>6, <1>7, SeqMonotonic DEF F
<1> DEFINE a == Cardinality(R)
           b == Cardinality(F)
<1>10. /\ Names \in Seq(Item) /\ Len(Names) = a + b
       /\ \A i \in 1 .. a + b : Names[i] = IF i <= a THEN r[i] ELSE f[i - a]
  BY <1>6, <1>7, <1>8, <1>9, ConcatProperties
<1>11. \A i \in 1 .. a + b : i <= a => Names[i] = r[i] /\ r[i] \in R
  BY <1>6, <1>7, <1>10
<1>12. \A i \in 1 .. a + b : a < i => Names[i] = f[i - a] /\ i - a \in 1 .. b /\ f[i - a] \in F
  BY <1>6, <1>7, <1>10
<1> HIDE DEF a, b
<1>13. ASSUME NEW i \in 1 .. a + b, NEW j \in 1 .. a + b, Names[i] = Names[j] PROVE i = j
  <2>1. a \in Nat /\ b \in Nat
    BY <1>6, <1>7 DEF a, b
  <2>2. CASE i <= a /\ j <= a
    <3>1. i \in 1 .. a /\ j \in 1 .. a /\ r[i] = r[j]
      BY <1>11, <1>13, <2>1, <2>2
    <3> QED
      BY <1>6, <3>1 DEF a
  <2>3. CASE a < i /\ a < j
    <3>1. i - a \in 1 .. b /\ j - a \in 1 .. b /\ f[i - a] = f[j - a]
      BY <1>12, <1>13, <2>3
    <3>2. i - a = j - a
      BY <1>7, <3>1 DEF b
    <3> QED
      BY <2>1, <3>2
  <2>4. CASE i <= a /\ a < j
    BY <1>1, <1>11, <1>12, <1>13, <2>4
  <2>5. CASE a < i /\ j <= a
    BY <1>1, <1>11, <1>12, <1>13, <2>5
  <2> QED
    BY <2>1, <2>2, <2>3, <2>4, <2>5
<1> QED
  BY <1>10, <1>13 DEF OnceEach, a, b

\* So are the first of them.
LEMMA FirstNames ==
    ASSUME OnceEach(Names), NEW n \in Nat, n <= Len(Names)
    PROVE  OnceEach(SubSeq(Names, 1, n)) /\ Len(SubSeq(Names, 1, n)) = n
<1>1. Names \in Seq(Item) /\ Len(Names) \in Nat
  BY DEF OnceEach
<1>2. \A i \in 1 .. n : Names[i] \in Item
  BY <1>1
<1>3. /\ SubSeq(Names, 1, n) \in Seq(Item)
      /\ Len(SubSeq(Names, 1, n)) = IF 1 <= n THEN n - 1 + 1 ELSE 0
      /\ \A i \in 1 .. n - 1 + 1 : SubSeq(Names, 1, n)[i] = Names[1 + i - 1]
  BY <1>2, SubSeqProperties
<1>4. Len(SubSeq(Names, 1, n)) = n /\ \A i \in 1 .. n : SubSeq(Names, 1, n)[i] = Names[i]
  BY <1>3
<1> QED
  BY <1>1, <1>3, <1>4 DEF OnceEach

\* The file an edit writes shows the new row wherever the old one was shown.
LEMMA RewriteShows ==
    ASSUME BoundAssumption, TypeOK, Shown, Mapped(parent) # {},
           NEW new, OnceEach(new), NEW place \in Seq(-Reach .. Reach), Len(place) = Len(new),
           NEW direct, direct = HasSource(parent),
           Rewrite(place, new), UNCHANGED pinned
    PROVE  /\ ShownAs(new, direct)'
           /\ live' \in SUBSET Item /\ pinned' \in SUBSET live'
           /\ parent' \in Seq(Item \cup {Source, Host})
           /\ at' \in [Item -> -Reach .. Reach]
           /\ layer' \in [Layers -> Seq(Item \cup {Host})]
           /\ \A k \in 1 .. Len(new) : at'[new[k]] = place[k]
<1> DEFINE row == Listed(parent)
           T == Item \cup {Source, Host}
<1>1. /\ OnceEach(row) /\ row \in Seq(Item) /\ direct \in BOOLEAN
      /\ parent = (Lead(direct) \o row) \o <<Host>>
      /\ Mapped(parent) = ToSet(row)
  BY RowOfTheParent DEF OnceEach
<1>2. new \in Seq(Item) /\ Len(new) \in Nat /\ DOMAIN new = 1 .. Len(new) /\ ToSet(new) \subseteq Item
  BY DEF OnceEach, ToSet
<1>3. row # <<>>
  BY <1>1 DEF ToSet
<1>4. Source \notin Item /\ Host \notin Item
  BY DEF BoundAssumption, Source, Host, Item
<1>5. (\A i \in 1 .. Len(row) : row[i] \in ToSet(row)) /\ ToSet(row) \subseteq Item
  BY <1>1 DEF ToSet
<1>6. parent' = (Lead(direct) \o new) \o <<Host>>
  <2>1. Lead(direct) \in Seq(T) /\ <<Host>> \in Seq(T)
    <3>1. <<Host, Source>> \in Seq(T) /\ <<Host>> \in Seq(T)
      OBVIOUS
    <3> QED
      BY <3>1 DEF Lead
  <2>2. new \in Seq(T) /\ row \in Seq(T)
    BY <1>1, <1>2, SeqMonotonic
  <2>3. \A i \in 1 .. Len(Lead(direct)) : Lead(direct)[i] \in {Host, Source}
    <3>1. \A i \in 1 .. Len(<<Host, Source>>) : <<Host, Source>>[i] \in {Host, Source}
      OBVIOUS
    <3>2. \A i \in 1 .. Len(<<Host>>) : <<Host>>[i] \in {Host, Source}
      OBVIOUS
    <3> QED
      BY <3>1, <3>2 DEF Lead
  <2>4. \A i \in 1 .. Len(Lead(direct)) : Lead(direct)[i] \notin ToSet(row)
    BY <1>4, <1>5, <2>3
  <2>5. \A i \in 1 .. Len(<<Host>>) : <<Host>>[i] \notin ToSet(row)
    BY <1>4, <1>5
  <2>6. Spliced((Lead(direct) \o row) \o <<Host>>, ToSet(row), new)
          = (Lead(direct) \o new) \o <<Host>>
    <3> DEFINE old == ToSet(row)
               lead == Lead(direct)
               tail == <<Host>>
    <3>1. InOnePiece(T, lead, row, tail, old) /\ new \in Seq(T)
      BY <1>3, <1>5, <2>1, <2>2, <2>4, <2>5 DEF InOnePiece
    <3> HIDE DEF row, T, old, lead, tail
    <3>2. Spliced((lead \o row) \o tail, old, new) = (lead \o new) \o tail
      BY <3>1, RowIsReplaced
    <3> QED
      BY <3>2 DEF old, lead, tail
  <2>7. parent' = Spliced(parent, ToSet(row), new)
    BY <1>1, Zenon DEF Rewrite
  <2> QED
    BY <1>1, <2>6, <2>7
<1>7. ASSUME NEW l \in Layers PROVE layer'[l] \in {<<Host>>, <<Host>> \o new}
  <2> DEFINE H == Item \cup {Host}
  <2>1. layer'[l] = Spliced(layer[l], ToSet(row), new)
    BY <1>1 DEF Rewrite, Restyled
  <2>2. <<Host>> \in Seq(H) /\ new \in Seq(H) /\ row \in Seq(H) /\ <<>> \in Seq(H)
    <3>1. new \in Seq(H) /\ row \in Seq(H)
      BY <1>1, <1>2, SeqMonotonic
    <3> QED
      BY <3>1
  <2>3. \A i \in 1 .. Len(<<Host>>) : <<Host>>[i] \notin ToSet(row)
    BY <1>4, <1>5
  <2>4. \A i \in 1 .. Len(<<>>) : <<>>[i] \notin ToSet(row)
    OBVIOUS
  <2>5. CASE layer[l] = <<Host>>
    <3> HIDE DEF row, H
    <3>1. Spliced(<<Host>>, ToSet(row), new) = <<Host>>
      BY <2>2, <2>3, OthersStay
    <3> QED
      BY <2>1, <2>5, <3>1
  <2>6. CASE layer[l] = <<Host>> \o row
    <3> HIDE DEF row, H
    <3>1. Spliced((<<Host>> \o row) \o <<>>, ToSet(row), new) = (<<Host>> \o new) \o <<>>
      <4> DEFINE old == ToSet(row)
                 lead == <<Host>>
                 tail == <<>>
      <4>1. InOnePiece(H, lead, row, tail, old) /\ new \in Seq(H)
        BY <1>3, <1>5, <2>2, <2>3, <2>4 DEF InOnePiece
      <4> HIDE DEF old, lead, tail
      <4>2. Spliced((lead \o row) \o tail, old, new) = (lead \o new) \o tail
        BY <4>1, RowIsReplaced
      <4> QED
        BY <4>2 DEF old, lead, tail
    <3>2. (<<Host>> \o row) \o <<>> = <<Host>> \o row /\ (<<Host>> \o new) \o <<>> = <<Host>> \o new
      <4>1. <<Host>> \o row \in Seq(H) /\ <<Host>> \o new \in Seq(H)
        BY <2>2, ConcatProperties
      <4> QED
        BY <4>1, ConcatEmptySeq
    <3> QED
      BY <2>1, <2>6, <3>1, <3>2
  <2> QED
    BY <2>5, <2>6 DEF Shown, ShownAs
<1>8. live' = (live \ ((ToSet(row) \ ToSet(new)) \ pinned)) \cup ToSet(new)
  BY <1>1 DEF Rewrite, Dropped
<1>9. /\ ToSet(new) \subseteq live' /\ live' \ ToSet(new) \subseteq pinned'
      /\ live' \in SUBSET Item /\ pinned' \in SUBSET live'
  BY <1>2, <1>8 DEF Shown, ShownAs, TypeOK
<1>10. \A k \in 1 .. Len(new) : at'[new[k]] = place[k]
  <2> SUFFICES ASSUME NEW k \in 1 .. Len(new) PROVE at'[new[k]] = place[k]
    OBVIOUS
  <2>1. new[k] \in Item /\ k \in DOMAIN new
    BY <1>2
  <2>2. (CHOOSE m \in DOMAIN new : new[m] = new[k]) = k
    BY <1>2, <2>1 DEF OnceEach
  <2> QED
    BY <2>1, <2>2 DEF Rewrite
<1>11. at' \in [Item -> -Reach .. Reach]
  <2> DEFINE spot(i) == CHOOSE k \in DOMAIN new : new[k] = i
  <2>1. ASSUME NEW i \in Item, \E k \in DOMAIN new : new[k] = i
        PROVE  place[spot(i)] \in -Reach .. Reach
    <3>1. spot(i) \in 1 .. Len(place)
      BY <1>2, <2>1
    <3> HIDE DEF spot
    <3>2. \A k \in 1 .. Len(place) : place[k] \in -Reach .. Reach
      BY ElementOfSeq
    <3> QED
      BY <3>1, <3>2
  <2>2. \A i \in Item : at[i] \in -Reach .. Reach
    BY DEF TypeOK
  <2>3. 0 \in -Reach .. Reach
    BY DEF BoundAssumption
  <2>4. at' = [i \in Item |-> IF \E k \in DOMAIN new : new[k] = i THEN place[spot(i)]
                            ELSE IF i \in live' THEN at[i] ELSE 0]
    BY DEF Rewrite
  <2> HIDE DEF spot
  <2> QED
    BY <2>1, <2>2, <2>3, <2>4
<1>12. layer' \in [Layers -> Seq(Item \cup {Host})]
  <2>1. layer' = [l \in Layers |-> layer'[l]]
    BY Zenon DEF Rewrite
  <2>2. <<Host>> \in Seq(Item \cup {Host}) /\ new \in Seq(Item \cup {Host})
    BY <1>2, SeqMonotonic
  <2>3. <<Host>> \o new \in Seq(Item \cup {Host})
    BY <2>2, ConcatProperties
  <2> QED
    BY <1>7, <2>1, <2>2, <2>3
<1>13. parent' \in Seq(Item \cup {Source, Host})
  BY <1>1, <1>2, <1>6, PartsOfTheParent
<1>14. ShownAs(new, direct)'
  BY <1>6, <1>7, <1>9 DEF ShownAs
<1> QED
  BY <1>9, <1>10, <1>11, <1>12, <1>13, <1>14

-----------------------------------------------------------------------------
(* The lattice.                                                            *)

\* n sites are n numbers, the first of them the least and the last the greatest.
LEMMA SitesAreApart ==
    ASSUME NEW o \in Int, NEW d \in Nat \ {0}, NEW n \in Nat \ {0}
    PROVE  /\ SitesOf(o, d, n) \in SUBSET Int
           /\ IsFiniteSet(SitesOf(o, d, n)) /\ Cardinality(SitesOf(o, d, n)) = n
           /\ LeastOf(SitesOf(o, d, n)) = o
           /\ GreatestOf(SitesOf(o, d, n)) = o + d * (n - 1)
<1> DEFINE I == 0 .. n - 1
           S == SitesOf(o, d, n)
           f == [k \in I |-> o + d * k]
<1>1. \A j, k \in I : j < k => d * k - d * j >= d
  BY Further
<1>2. \A k \in I : d * k \in Int /\ o + d * k \in Int
  OBVIOUS
<1>3. \A j, k \in I : j < k => o + d * j < o + d * k
  BY <1>1, <1>2
<1>4. \A j, k \in I : o + d * j = o + d * k => j = k
  BY <1>2, <1>3
<1>5. S = {o + d * k : k \in I}
  BY DEF SitesOf
<1>6. f \in Bijection(I, S)
  <2>1. f \in [I -> S] /\ \A y \in S : \E k \in I : f[k] = y
    BY <1>5
  <2>2. \A j, k \in I : f[j] = f[k] => j = k
    BY <1>4
  <2> QED
    BY <2>1, <2>2 DEF Bijection, Injection, Surjection, IsInjective
<1>7. IsFiniteSet(I) /\ Cardinality(I) = n
  BY FS_Interval
<1>8. IsFiniteSet(S) /\ Cardinality(S) = n
  <2>1. ExistsBijection(I, S)
    BY <1>6 DEF ExistsBijection
  <2> QED
    BY <1>7, <2>1, FS_Bijection
<1>9. 0 \in I /\ n - 1 \in I /\ o + d * 0 = o
  OBVIOUS
<1>10. o \in S /\ o + d * (n - 1) \in S
  BY <1>5, <1>9
<1>11. \A x \in S : x \in Int /\ o <= x /\ x <= o + d * (n - 1)
  <2> SUFFICES ASSUME NEW k \in I
               PROVE  o + d * k \in Int /\ o <= o + d * k /\ o + d * k <= o + d * (n - 1)
    BY <1>5
  <2>1. k = 0 \/ 0 < k
    OBVIOUS
  <2>2. k = n - 1 \/ k < n - 1
    OBVIOUS
  <2>3. o <= o + d * k
    BY <1>2, <1>3, <1>9, <2>1
  <2>4. o + d * k <= o + d * (n - 1)
    BY <1>2, <1>3, <1>9, <2>2
  <2> QED
    BY <1>2, <2>3, <2>4
<1>12. LeastOf(S) = o
  <2> HIDE DEF S
  <2> QED
    BY <1>10, <1>11, IsLeast
<1>13. GreatestOf(S) = o + d * (n - 1)
  <2> DEFINE g == o + d * (n - 1)
  <2> HIDE DEF S, g
  <2> QED
    BY <1>10, <1>11, IsGreatest DEF g
<1> QED
  BY <1>8, <1>11, <1>12, <1>13

\* The placements of an edit are the sites, without the one that the source has.
LEMMA PlacesAreTheSites ==
    ASSUME NEW o \in Int, NEW d \in Nat \ {0}, NEW n \in Nat \ {0},
           NEW implicit \in BOOLEAN, implicit => 0 \in SitesOf(o, d, n)
    PROVE  /\ Places(o, d, n, implicit) \in Seq(Int)
           /\ Len(Places(o, d, n, implicit)) = IF implicit THEN n - 1 ELSE n
           /\ ToSet(Places(o, d, n, implicit)) =
                  IF implicit THEN SitesOf(o, d, n) \ {0} ELSE SitesOf(o, d, n)
<1> DEFINE I == 0 .. n - 1
           P == Places(o, d, n, implicit)
           S == SitesOf(o, d, n)
<1>1. \A j, k \in I : j < k => d * k - d * j >= d
  BY Further
<1>2. \A k \in I : d * k \in Int /\ o + d * k \in Int
  OBVIOUS
<1>3. \A j, k \in I : j < k => o + d * j < o + d * k
  BY <1>1, <1>2
<1>4. S = {o + d * k : k \in I}
  BY DEF SitesOf
<1>5. CASE ~implicit
  <2>1. P = [k \in 1 .. n |-> o + d * (k - 1)]
    BY <1>5 DEF Places
  <2>2. \A k \in 1 .. n : k - 1 \in I /\ o + d * (k - 1) \in Int
    BY <1>2
  <2>3. P \in Seq(Int) /\ Len(P) = n /\ DOMAIN P = 1 .. n
    BY <2>1, <2>2
  <2>4. ToSet(P) = {o + d * (k - 1) : k \in 1 .. n}
    BY <2>1, <2>3 DEF ToSet
  <2>5. {o + d * (k - 1) : k \in 1 .. n} = {o + d * k : k \in I}
    <3>1. ASSUME NEW k \in I PROVE \E m \in 1 .. n : o + d * k = o + d * (m - 1)
      <4>1. k + 1 \in 1 .. n /\ (k + 1) - 1 = k
        OBVIOUS
      <4> QED
        BY <4>1
    <3> QED
      BY <2>2, <3>1
  <2> QED
    BY <1>4, <1>5, <2>3, <2>4, <2>5
<1>6. CASE implicit
  <2>1. PICK z \in I : o + d * z = 0
    BY <1>4, <1>6
  <2>2. \A k \in I : o + d * k >= 0 <=> k >= z
    BY <1>2, <1>3, <2>1
  <2>3. P = [k \in 1 .. n - 1 |-> IF o + d * (k - 1) >= 0 THEN o + d * k ELSE o + d * (k - 1)]
    BY <1>6 DEF Places
  <2>4. \A k \in 1 .. n - 1 : k - 1 \in I /\ k \in I
    OBVIOUS
  <2>5. DOMAIN P = 1 .. n - 1
    BY <2>3
  <2>6. \A k \in 1 .. n - 1 : P[k] = IF k - 1 >= z THEN o + d * k ELSE o + d * (k - 1)
    BY <2>2, <2>3, <2>4
  <2>7. \A k \in 1 .. n - 1 : P[k] \in S \ {0}
    <3> SUFFICES ASSUME NEW k \in 1 .. n - 1 PROVE P[k] \in S \ {0}
      OBVIOUS
    <3>1. CASE k - 1 >= z
      <4>1. k \in I /\ z < k
        BY <3>1
      <4>2. P[k] = o + d * k
        BY <2>6, <3>1
      <4>3. o + d * k # 0
        BY <1>2, <1>3, <2>1, <4>1
      <4> QED
        BY <1>4, <4>1, <4>2, <4>3
    <3>2. CASE ~(k - 1 >= z)
      <4>1. k - 1 \in I /\ k - 1 < z
        BY <3>2
      <4>2. P[k] = o + d * (k - 1)
        BY <2>6, <3>2
      <4>3. o + d * (k - 1) # 0
        BY <1>2, <1>3, <2>1, <4>1
      <4> QED
        BY <1>4, <4>1, <4>2, <4>3
    <3> QED
      BY <3>1, <3>2
  <2>8. ASSUME NEW x \in S \ {0} PROVE \E k \in 1 .. n - 1 : P[k] = x
    <3>1. PICK k \in I : x = o + d * k
      BY <1>4
    <3>2. k # z
      BY <2>1, <2>8, <3>1
    <3>3. CASE z < k
      <4>1. k \in 1 .. n - 1 /\ k - 1 >= z
        BY <3>3
      <4> QED
        BY <2>6, <3>1, <4>1
    <3>4. CASE k < z
      <4>1. k + 1 \in 1 .. n - 1 /\ ~((k + 1) - 1 >= z) /\ (k + 1) - 1 = k
        BY <3>4
      <4>2. P[k + 1] = o + d * ((k + 1) - 1)
        BY <2>6, <4>1
      <4> QED
        BY <3>1, <4>1, <4>2
    <3> QED
      BY <3>2, <3>3, <3>4
  <2>9. S \subseteq Int
    BY <1>2, <1>4
  <2>10. P = [k \in 1 .. n - 1 |-> P[k]]
    BY <2>3
  <2> HIDE DEF P, S
  <2>11. P \in Seq(Int) /\ Len(P) = n - 1
    <3>1. n - 1 \in Nat
      OBVIOUS
    <3>2. P \in [1 .. n - 1 -> Int]
      BY <2>7, <2>9, <2>10
    <3> QED
      BY <3>1, <3>2
  <2>12. ToSet(P) = S \ {0}
    BY <2>5, <2>7, <2>8 DEF ToSet
  <2> QED
    BY <1>6, <2>11, <2>12 DEF P, S
<1> QED
  BY <1>5, <1>6

\* An edit moves the first site so that the anchored end or the middle stays.
LEMMA AnchorStays ==
    ASSUME NEW f, f.origin \in Int, f.pitch \in Nat \ {0}, f.pitch % 2 = 0, f.sites \in Nat,
           NEW n \in Nat, NEW anchor \in Anchors
    PROVE  LET o == NewOrigin(f, n, anchor)
               last == f.origin + f.pitch * (f.sites - 1)
           IN  /\ o \in Int
               /\ anchor = "start" => o = f.origin
               /\ anchor = "end" => o + f.pitch * (n - 1) = last
               /\ anchor = "center" => o + (o + f.pitch * (n - 1)) = f.origin + last
<1> DEFINE o == NewOrigin(f, n, anchor)
           a == f.origin
           x == f.pitch * (f.sites - 1)
           y == f.pitch * (n - 1)
<1>1. x \in Int /\ y \in Int /\ x % 2 = 0 /\ y % 2 = 0
  BY EvenMultiples
<1>2. o = CASE anchor = "start"  -> a
            [] anchor = "center" -> a + (x - y) \div 2
            [] anchor = "end"    -> a + x - y
  BY DEF NewOrigin
<1> HIDE DEF o, x, y
<1>3. (x - y) \div 2 \in Int /\ 2 * ((x - y) \div 2) = x - y
  BY <1>1, EvenSums, Whole
<1>4. CASE anchor = "start"
  BY <1>1, <1>2, <1>4 DEF o, x, y
<1>5. CASE anchor = "end"
  <2>1. o = a + x - y
    BY <1>2, <1>5
  <2>2. o \in Int /\ o + y = a + x
    BY <1>1, <2>1
  <2> QED
    BY <1>5, <2>2 DEF o, x, y
<1>6. CASE anchor = "center"
  <2>1. o = a + (x - y) \div 2
    BY <1>2, <1>6
  <2>2. o \in Int /\ o + (o + y) = a + (a + x)
    BY <1>1, <1>3, <2>1
  <2> QED
    BY <1>6, <2>2 DEF o, x, y
<1> QED
  BY <1>4, <1>5, <1>6 DEF Anchors

\* The least position, the largest common difference of all positions and the greatest
\* position span a lattice that holds every position.
LEMMA LatticeSpans ==
    ASSUME NEW S \in SUBSET Int, NEW b \in Nat, S \subseteq -b .. b, Pitches(S) # {},
           \A x, y \in S : (x - y) % 2 = 0
    PROVE  LET o == LeastOf(S)
               d == GreatestOf(Pitches(S))
               n == ((GreatestOf(S) - o) \div d) + 1
           IN  /\ o \in Int /\ d \in Nat \ {0} /\ d % 2 = 0 /\ n \in Nat /\ n >= 2
               /\ S \subseteq SitesOf(o, d, n)
<1> DEFINE o == LeastOf(S)
           g == GreatestOf(S)
           d == GreatestOf(Pitches(S))
           q == (g - o) \div d
<1>1. S # {} /\ \A x \in S : -b <= x /\ x <= b
  BY DEF Pitches
<1>2. -b \in Int /\ o \in S /\ g \in S /\ \A x \in S : o <= x /\ x <= g
  <2>1. -b \in Int /\ b \in Int
    OBVIOUS
  <2>2. o \in S /\ \A x \in S : o <= x
    BY <1>1, <2>1, HasLeast
  <2>3. g \in S /\ \A x \in S : x <= g
    BY <1>1, <2>1, HasGreatest
  <2> QED
    BY <2>1, <2>2, <2>3
<1>3. Pitches(S) \in SUBSET Int /\ 2 * b \in Int /\ \A x \in Pitches(S) : x <= 2 * b
  <2> SUFFICES ASSUME NEW x \in Pitches(S) PROVE x \in Int /\ x <= 2 * b
    OBVIOUS
  <2>1. PICK y \in S, z \in S : x = y - z
    BY DEF Pitches
  <2>2. y \in Int /\ z \in Int /\ y <= b /\ -b <= z
    BY <1>1
  <2> QED
    BY <2>1, <2>2
<1>4. d \in Pitches(S)
  BY <1>3, HasGreatest
<1>5. \A p \in Pitches(S) : /\ p \in Int /\ p > 0 /\ \A z \in S : (z - o) % p = 0
                            /\ \E x, y \in S : p = x - y
  BY DEF Pitches
<1> HIDE DEF o, g, d
<1>6. PICK x \in S, y \in S : d = x - y
  BY <1>4, <1>5
<1>7. d > 0 /\ \A z \in S : (z - o) % d = 0
  BY <1>4, <1>5
<1>8. o \in Int /\ g \in Int /\ d \in Nat \ {0} /\ d % 2 = 0
  <2>1. d \in Int /\ o \in Int /\ g \in Int
    BY <1>2, <1>4, <1>5
  <2>2. d % 2 = 0
    BY <1>6
  <2> QED
    BY <1>7, <2>1, <2>2
<1>9. q \in Int /\ g - o = d * q
  BY <1>2, <1>7, <1>8, Whole
<1> HIDE DEF q
<1>10. q > 0
  <2>1. g - o >= d
    <3>1. x \in Int /\ y \in Int /\ x <= g /\ o <= y
      BY <1>2
    <3> QED
      BY <1>6, <1>8, <3>1
  <2>2. q <= 0 => d * q <= 0
    BY <1>8, <1>9
  <2> QED
    BY <1>8, <1>9, <2>1, <2>2
<1>11. ASSUME NEW z \in S PROVE z \in SitesOf(o, d, q + 1)
  <2> DEFINE k == (z - o) \div d
  <2>1. k \in Int /\ z - o = d * k
    BY <1>7, <1>8, Whole
  <2> HIDE DEF k
  <2>2. 0 <= k
    <3>1. k < 0 => d * 0 - d * k >= d
      BY <1>8, <2>1, Further
    <3> QED
      BY <1>2, <1>8, <2>1, <3>1
  <2>3. k <= q
    <3>1. q < k => d * k - d * q >= d
      BY <1>8, <1>9, <2>1, Further
    <3>2. d * k \in Int /\ d * q \in Int /\ d * k <= d * q
      <4>1. z <= g /\ z \in Int
        BY <1>2
      <4>2. d * k \in Int /\ d * q \in Int
        BY <1>8, <1>9, <2>1
      <4> QED
        BY <1>8, <1>9, <2>1, <4>1, <4>2
    <3> QED
      BY <1>8, <1>9, <2>1, <3>1, <3>2
  <2>4. k \in 0 .. (q + 1) - 1 /\ z = o + d * k
    BY <1>8, <1>9, <2>1, <2>2, <2>3
  <2> QED
    BY <2>4 DEF SitesOf
<1>12. q + 1 \in Nat /\ q + 1 >= 2
  BY <1>9, <1>10
<1> QED
  BY <1>8, <1>11, <1>12 DEF o, g, d, q

\* A row that can be edited fills its lattice, but for the site that the source has.
LEMMA RowFillsItsLattice ==
    ASSUME BoundAssumption, TypeOK, Shown, OnTheGrid,
           NEW f, f = Detected(parent, at), f.editable
    PROVE  /\ f.origin \in Int /\ f.pitch \in Nat \ {0} /\ f.pitch % 2 = 0
           /\ f.sites \in Nat /\ f.sites >= 2 /\ f.implicit \in BOOLEAN
           /\ f.implicit => HasSource(parent) /\ 0 \in SitesOf(f.origin, f.pitch, f.sites)
           /\ Positions(parent, at) = IF f.implicit
                                     THEN SitesOf(f.origin, f.pitch, f.sites) \ {0}
                                     ELSE SitesOf(f.origin, f.pitch, f.sites)
           /\ \A i, j \in Mapped(parent) : at[i] = at[j] => i = j
           /\ Mapped(parent) # {}
<1> DEFINE M == Mapped(parent)
           S == Positions(parent, at)
           o == LeastOf(S)
           d == GreatestOf(Pitches(S))
           n == ((GreatestOf(S) - o) \div d) + 1
           gaps == SitesOf(o, d, n) \ S
           implicit == gaps = {0} /\ Source \in ToSet(parent)
           here == [i \in M |-> at[i]]
<1>1. M \subseteq Item /\ IsFiniteSet(M) /\ S = {at[i] : i \in M}
  BY RowOfTheParent, RowCounts DEF Positions
<1>2. S \subseteq -Reach .. Reach /\ Reach \in Nat /\ S \in SUBSET Int
  BY <1>1 DEF TypeOK, BoundAssumption
<1>3. \A x, y \in S : (x - y) % 2 = 0
  BY <1>1 DEF OnTheGrid
<1>4. here \in Surjection(M, S)
  BY <1>1 DEF Surjection
<1>5. IsFiniteSet(S) /\ Cardinality(S) <= Cardinality(M)
      /\ (Cardinality(S) = Cardinality(M) <=> here \in Injection(M, S))
  BY <1>1, <1>4, FS_Surjection
<1>6. Cardinality(S) \in Nat /\ Cardinality(M) \in Nat
  BY <1>1, <1>5, FS_CardinalityType
<1>7. f = IF Cardinality(M) < MinItems \/ Cardinality(S) < Cardinality(M) \/ Pitches(S) = {}
          THEN [editable |-> FALSE]
          ELSE [editable |-> gaps = {} \/ implicit, implicit |-> implicit,
                origin |-> o, pitch |-> d, sites |-> n]
  BY Zenon DEF Detected
<1> HIDE DEF S, M, o, d, n, gaps, implicit, here
<1>8. ~(Cardinality(M) < MinItems \/ Cardinality(S) < Cardinality(M) \/ Pitches(S) = {})
  BY <1>7
<1>9. f = [editable |-> gaps = {} \/ implicit, implicit |-> implicit,
           origin |-> o, pitch |-> d, sites |-> n]
  BY <1>7, <1>8
<1>10. f.origin = o /\ f.pitch = d /\ f.sites = n /\ f.implicit = implicit
       /\ (gaps = {} \/ implicit)
  <2> DEFINE filled == gaps = {} \/ implicit
  <2>1. f = [editable |-> filled, implicit |-> implicit, origin |-> o, pitch |-> d, sites |-> n]
    BY <1>9
  <2> HIDE DEF filled
  <2>2. f.editable = filled
    BY <2>1
  <2>3. f.origin = o /\ f.pitch = d /\ f.sites = n /\ f.implicit = implicit
    BY <2>1
  <2>4. filled
    BY <2>2
  <2> QED
    BY <2>3, <2>4 DEF filled
<1>11. here \in Injection(M, S)
  BY <1>5, <1>6, <1>8
<1>12. \A i, j \in M : at[i] = at[j] => i = j
  BY <1>11 DEF here, Injection, IsInjective
<1>13. M # {}
  BY <1>1, <1>6, <1>8, FS_EmptySet DEF BoundAssumption
<1>14. /\ o \in Int /\ d \in Nat \ {0} /\ d % 2 = 0 /\ n \in Nat /\ n >= 2
       /\ S \subseteq SitesOf(o, d, n)
  BY <1>2, <1>3, <1>8, LatticeSpans DEF o, d, n
<1>15. CASE implicit
  <2>1. gaps = {0} /\ HasSource(parent)
    BY <1>15 DEF implicit, HasSource
  <2>2. S = SitesOf(o, d, n) \ {0} /\ 0 \in SitesOf(o, d, n)
    BY <1>14, <2>1 DEF gaps
  <2>3. f.implicit = TRUE
    BY <1>10, <1>15 DEF implicit
  <2> QED
    BY <1>10, <1>12, <1>13, <1>14, <2>1, <2>2, <2>3 DEF M, S
<1>16. CASE ~implicit
  <2>1. S = SitesOf(o, d, n)
    BY <1>10, <1>14, <1>16 DEF gaps
  <2>2. f.implicit = FALSE
    BY <1>10, <1>16 DEF implicit
  <2> QED
    BY <1>10, <1>12, <1>13, <1>14, <2>1, <2>2 DEF M, S
<1> QED
  BY <1>15, <1>16

-----------------------------------------------------------------------------
(* The steps.                                                              *)

\* Numbers that lie on the sites of one lattice of an even pitch are even apart.
LEMMA SitesAreOnTheGrid ==
    ASSUME NEW o \in Int, NEW d \in Nat \ {0}, d % 2 = 0, NEW n \in Nat,
           NEW x \in SitesOf(o, d, n), NEW y \in SitesOf(o, d, n)
    PROVE  (x - y) % 2 = 0
<1>1. PICK j \in 0 .. n - 1, k \in 0 .. n - 1 : x = o + d * j /\ y = o + d * k
  BY DEF SitesOf
<1>2. d * (j - k) = d * j - d * k /\ d * j \in Int /\ d * k \in Int
  OBVIOUS
<1>3. x - y = d * (j - k)
  BY <1>1, <1>2
<1>4. (d * (j - k)) % 2 = 0
  <2>1. d \in Int /\ j - k \in Int
    OBVIOUS
  <2> QED
    BY <2>1, EvenMultiples
<1> QED
  BY <1>3, <1>4

\* What an edit has made of the file: the parent lists the same source as before, and
\* the new items stand on the sites that the source leaves.
Placed(f, o, n) ==
    /\ HasSource(parent') = HasSource(parent)
    /\ Cardinality(Mapped(parent')) = IF f.implicit THEN n - 1 ELSE n
    /\ Positions(parent', at') = IF f.implicit THEN SitesOf(o, f.pitch, n) \ {0}
                                ELSE SitesOf(o, f.pitch, n)

\* An accepted resize keeps the invariant and places the lattice asked for.
LEMMA ResizeStep ==
    ASSUME BoundAssumption, IInv, NEW f, f = Detected(parent, at),
           NEW n \in 1 .. MaxCount, NEW anchor \in Anchors, Resize(f, n, anchor)
    PROVE  IInv' /\ Placed(f, NewOrigin(f, n, anchor), n)
<1> DEFINE o == NewOrigin(f, n, anchor)
           d == f.pitch
<1> USE DEF IInv
<1>1. f.editable /\ (f.implicit => 0 \in SitesOf(o, d, n))
  BY DEF Resize, CanResize
<1>2. /\ f.origin \in Int /\ d \in Nat \ {0} /\ d % 2 = 0
      /\ f.sites \in Nat /\ f.implicit \in BOOLEAN
      /\ \A i, j \in Mapped(parent) : at[i] = at[j] => i = j
      /\ Mapped(parent) # {}
  BY <1>1, RowFillsItsLattice
<1>3. o \in Int /\ n \in Nat \ {0}
  BY <1>2, AnchorStays DEF BoundAssumption
<1>4. PICK place \in {Places(o, d, n, f.implicit)} :
         /\ ToSet(place) \subseteq -Reach .. Reach
         /\ Len(place) <= Len(Names)
         /\ \E new \in {SubSeq(Names, 1, Len(place))} : Rewrite(place, new)
  BY Zenon DEF Resize
<1>5. PICK new \in {SubSeq(Names, 1, Len(place))} : Rewrite(place, new)
  BY <1>4
<1>6. PICK direct \in BOOLEAN : direct = HasSource(parent)
  BY RowOfTheParent
<1>7. request' = [count |-> n, anchor |-> anchor, done |-> TRUE] /\ pinned' = pinned
  BY DEF Resize
<1> HIDE DEF o, d
<1>8. /\ place \in Seq(Int) /\ Len(place) = IF f.implicit THEN n - 1 ELSE n
      /\ ToSet(place) = IF f.implicit THEN SitesOf(o, d, n) \ {0} ELSE SitesOf(o, d, n)
  <2> DEFINE implicit == f.implicit
  <2>1. implicit \in BOOLEAN /\ (implicit => 0 \in SitesOf(o, d, n))
    BY <1>1, <1>2 DEF o, d
  <2>2. place = Places(o, d, n, implicit)
    BY <1>4
  <2> HIDE DEF implicit
  <2>3. d \in Nat \ {0}
    BY <1>2 DEF d
  <2>4. /\ place \in Seq(Int) /\ Len(place) = IF implicit THEN n - 1 ELSE n
        /\ ToSet(place) = IF implicit THEN SitesOf(o, d, n) \ {0} ELSE SitesOf(o, d, n)
    BY <1>3, <2>1, <2>2, <2>3, PlacesAreTheSites
  <2> QED
    BY <2>4 DEF implicit
<1>9. Len(place) \in Nat /\ \A k \in 1 .. Len(place) : place[k] \in ToSet(place)
  BY <1>8 DEF ToSet
<1>10. place \in Seq(-Reach .. Reach)
  <2>1. place \in [1 .. Len(place) -> Int]
    BY <1>8
  <2>2. \A k \in 1 .. Len(place) : place[k] \in -Reach .. Reach
    BY <1>4, <1>9
  <2> DEFINE W == -Reach .. Reach
             m == Len(place)
  <2>3. place \in [1 .. m -> W] /\ m \in Nat
    BY <1>9, <2>1, <2>2
  <2> HIDE DEF W, m
  <2>4. place \in Seq(W)
    BY <2>3, SeqDef
  <2> QED
    BY <2>4 DEF W
<1>11. OnceEach(new) /\ Len(new) = Len(place)
  <2>1. OnceEach(Names)
    BY <1>2, NamesAreDistinct
  <2>2. OnceEach(SubSeq(Names, 1, Len(place))) /\ Len(SubSeq(Names, 1, Len(place))) = Len(place)
    BY <1>4, <1>9, <2>1, FirstNames
  <2> QED
    BY <1>5, <2>2
<1>12. /\ ShownAs(new, direct)'
       /\ live' \in SUBSET Item /\ pinned' \in SUBSET live'
       /\ parent' \in Seq(Item \cup {Source, Host})
       /\ at' \in [Item -> -Reach .. Reach]
       /\ layer' \in [Layers -> Seq(Item \cup {Host})]
       /\ \A k \in 1 .. Len(new) : at'[new[k]] = place[k]
  BY <1>2, <1>5, <1>6, <1>7, <1>10, <1>11, RewriteShows
<1>13. Mapped(parent') = ToSet(new) /\ HasSource(parent') = direct /\ Listed(parent') = new
  <2>1. new \in Seq(Item) /\ parent' = (Lead(direct) \o new) \o <<Host>>
    BY <1>11, <1>12 DEF ShownAs, OnceEach
  <2> QED
    BY <2>1, PartsOfTheParent
<1>14. Positions(parent', at') = ToSet(place)
  <2>1. DOMAIN new = 1 .. Len(new) /\ DOMAIN place = 1 .. Len(place)
    BY <1>8, <1>11 DEF OnceEach
  <2>2. ToSet(new) = {new[k] : k \in 1 .. Len(new)} /\ ToSet(place) = {place[k] : k \in 1 .. Len(new)}
    BY <1>11, <2>1 DEF ToSet
  <2>3. Positions(parent', at') = {at'[i] : i \in ToSet(new)}
    BY <1>13 DEF Positions
  <2>4. Positions(parent', at') = {at'[new[k]] : k \in 1 .. Len(new)}
    BY <2>2, <2>3
  <2>5. \A k \in 1 .. Len(new) : at'[new[k]] = place[k]
    BY <1>12
  <2>6. {at'[new[k]] : k \in 1 .. Len(new)} = {place[k] : k \in 1 .. Len(new)}
    BY <2>5
  <2> QED
    BY <2>2, <2>4, <2>6, Zenon
<1>15. Cardinality(Mapped(parent')) = Len(place)
  BY <1>11, <1>13, RowCounts
<1>16. Placed(f, o, n)
  BY <1>6, <1>8, <1>13, <1>14, <1>15 DEF Placed, d
<1>17. TypeOK'
  <2>1. request' \in [count : 0 .. MaxCount, anchor : Anchors, done : BOOLEAN]
    BY <1>7
  <2> QED
    BY <1>12, <2>1 DEF TypeOK
<1>18. Shown'
  BY <1>12, <1>13 DEF Shown, ShownAs
<1>19. OnTheGrid'
  <2> SUFFICES ASSUME NEW i \in Mapped(parent'), NEW j \in Mapped(parent')
               PROVE  (at'[i] - at'[j]) % 2 = 0
    BY DEF OnTheGrid
  <2>1. at'[i] \in SitesOf(o, d, n) /\ at'[j] \in SitesOf(o, d, n)
    BY <1>8, <1>14 DEF Positions
  <2> QED
    BY <1>2, <1>3, <2>1, SitesAreOnTheGrid
<1> QED
  BY <1>16, <1>17, <1>18, <1>19 DEF o

\* An edit that is refused changes nothing of the file.
LEMMA RefuseStep ==
    ASSUME BoundAssumption, IInv, NEW f, NEW n \in 1 .. MaxCount, NEW anchor \in Anchors,
           Refuse(f, n, anchor)
    PROVE  IInv'
<1> USE DEF IInv
<1>1. UNCHANGED <<parent, at, live, layer, pinned>>
      /\ request' = [count |-> n, anchor |-> anchor, done |-> FALSE]
  BY DEF Refuse
<1>2. TypeOK'
  BY <1>1 DEF TypeOK
<1>3. Shown' /\ OnTheGrid'
  BY <1>1 DEF Shown, ShownAs, OnTheGrid, Mapped, Listed, HasSource
<1> QED
  BY <1>2, <1>3

\* The lattice before and after.
LEMMA EditMakesTheLattice ==
    ASSUME BoundAssumption, IInv, NEW f, f = Detected(parent, at),
           NEW n \in 1 .. MaxCount, NEW anchor \in Anchors, Resize(f, n, anchor)
    PROVE  MakesTheLattice
<1> DEFINE a == f.origin
           d == f.pitch
           m == f.sites
           o == NewOrigin(f, n, anchor)
           S == Occupied(parent, at)
           T == Occupied(parent', at')
<1>1. /\ request' = [count |-> n, anchor |-> anchor, done |-> TRUE]
      /\ f.editable /\ (f.implicit => 0 \in SitesOf(o, d, n))
  BY DEF Resize, CanResize
<1>2. /\ a \in Int /\ d \in Nat \ {0} /\ d % 2 = 0 /\ m \in Nat /\ m >= 2
      /\ f.implicit \in BOOLEAN
      /\ f.implicit => HasSource(parent) /\ 0 \in SitesOf(a, d, m)
      /\ Positions(parent, at) = IF f.implicit THEN SitesOf(a, d, m) \ {0}
                                ELSE SitesOf(a, d, m)
  BY <1>1, RowFillsItsLattice DEF IInv
<1>3. /\ o \in Int
      /\ anchor = "start" => o = a
      /\ anchor = "end" => o + d * (n - 1) = a + d * (m - 1)
      /\ anchor = "center" => o + (o + d * (n - 1)) = a + (a + d * (m - 1))
  BY <1>2, AnchorStays DEF BoundAssumption
<1>4. /\ HasSource(parent') = HasSource(parent)
      /\ Cardinality(Mapped(parent')) = IF f.implicit THEN n - 1 ELSE n
      /\ Positions(parent', at') = IF f.implicit THEN SitesOf(o, d, n) \ {0}
                                  ELSE SitesOf(o, d, n)
  BY ResizeStep DEF Placed
<1> SUFFICES ASSUME HasSource(parent) => f.implicit
             PROVE  /\ Occurrences(parent') = n /\ Cardinality(T) = n
                    /\ GreatestOf(T) - LeastOf(T)
                         = (n - 1) * ((GreatestOf(S) - LeastOf(S)) \div (Cardinality(S) - 1))
                    /\ anchor = "start" => LeastOf(T) = LeastOf(S)
                    /\ anchor = "end" => GreatestOf(T) = GreatestOf(S)
                    /\ anchor = "center" =>
                           LeastOf(T) + GreatestOf(T) = LeastOf(S) + GreatestOf(S)
  BY <1>1 DEF MakesTheLattice
<1>5. n \in Nat \ {0} /\ m \in Nat \ {0}
  BY <1>2 DEF BoundAssumption
<1>6. S = SitesOf(a, d, m) /\ T = SitesOf(o, d, n) /\ Occurrences(parent') = n
  <2>1. CASE f.implicit
    <3>1. HasSource(parent) /\ HasSource(parent')
      BY <1>2, <1>4, <2>1
    <3>2. /\ Occurrences(parent') = Cardinality(Mapped(parent')) + 1
          /\ S = Positions(parent, at) \cup {0} /\ T = Positions(parent', at') \cup {0}
      BY <3>1 DEF Occurrences, Occupied
    <3>3. 0 \in SitesOf(a, d, m) /\ 0 \in SitesOf(o, d, n)
      BY <1>1, <1>2, <2>1
    <3>4. Cardinality(Mapped(parent')) = n - 1
      BY <1>4, <2>1
    <3>5. /\ Positions(parent, at) = SitesOf(a, d, m) \ {0}
          /\ Positions(parent', at') = SitesOf(o, d, n) \ {0}
      BY <1>2, <1>4, <2>1
    <3>6. Occurrences(parent') = n
      BY <1>5, <3>2, <3>4
    <3> HIDE DEF S, T
    <3> QED
      BY <3>2, <3>3, <3>5, <3>6
  <2>2. CASE ~f.implicit
    <3>1. ~HasSource(parent) /\ ~HasSource(parent')
      BY <1>4, <2>2
    <3>2. /\ Occurrences(parent') = Cardinality(Mapped(parent')) + 0
          /\ S = Positions(parent, at) \cup {} /\ T = Positions(parent', at') \cup {}
      BY <3>1 DEF Occurrences, Occupied
    <3>3. Cardinality(Mapped(parent')) = n
      BY <1>4, <2>2
    <3>4. /\ Positions(parent, at) = SitesOf(a, d, m)
          /\ Positions(parent', at') = SitesOf(o, d, n)
      BY <1>2, <1>4, <2>2
    <3>5. Occurrences(parent') = n
      BY <1>5, <3>2, <3>3
    <3> HIDE DEF S, T
    <3> QED
      BY <3>2, <3>4, <3>5
  <2> QED
    BY <2>1, <2>2
<1> HIDE DEF S, T, a, d, m, o
<1>7. /\ Cardinality(S) = m /\ LeastOf(S) = a /\ GreatestOf(S) = a + d * (m - 1)
      /\ Cardinality(T) = n /\ LeastOf(T) = o /\ GreatestOf(T) = o + d * (n - 1)
  BY <1>2, <1>3, <1>5, <1>6, SitesAreApart
<1>8. d * (m - 1) \in Int /\ d * (n - 1) \in Int
  BY <1>2, <1>5
<1>9. (GreatestOf(S) - LeastOf(S)) \div (Cardinality(S) - 1) = d
  <2>1. m - 1 \in Nat \ {0} /\ d \in Int
    BY <1>2
  <2>2. ((m - 1) * d) \div (m - 1) = d
    BY <2>1, Multiple
  <2>3. GreatestOf(S) - LeastOf(S) = (m - 1) * d
    BY <1>2, <1>7, <1>8
  <2> QED
    BY <1>7, <2>2, <2>3
<1>10. GreatestOf(T) - LeastOf(T) = (n - 1) * d
  BY <1>2, <1>3, <1>7, <1>8
<1>11. /\ anchor = "start" => LeastOf(T) = LeastOf(S)
       /\ anchor = "end" => GreatestOf(T) = GreatestOf(S)
       /\ anchor = "center" => LeastOf(T) + GreatestOf(T) = LeastOf(S) + GreatestOf(S)
  BY <1>3, <1>7
<1> QED
  BY <1>6, <1>7, <1>9, <1>10, <1>11

\* A file starts with a row that is shown as it is.
LEMMA StartsShown ==
    ASSUME BoundAssumption, RowsAssumption, Init
    PROVE  IInv
<1>1. PICK row \in Rows, direct \in BOOLEAN :
         /\ at = [i \in Item |-> IF i <= Len(row) THEN row[i] ELSE 0]
         /\ live = 1 .. Len(row)
         /\ parent = (IF direct THEN <<Host, Source>> ELSE <<Host>>)
                        \o [i \in 1 .. Len(row) |-> i] \o <<Host>>
         /\ layer \in [Layers -> {<<Host>> \o [i \in 1 .. Len(row) |-> i], <<Host>>}]
         /\ pinned \in {{}, {1}, {Len(row)}}
         /\ request = [count |-> 0, anchor |-> "start", done |-> TRUE]
  BY Zenon DEF Init
<1> DEFINE n == Len(row)
           r == [i \in 1 .. n |-> i]
<1>2. /\ row \in Seq(-Reach .. Reach) /\ n \in 1 .. MaxItem
      /\ \A j, k \in DOMAIN row : (row[j] - row[k]) % 2 = 0
  BY DEF RowsAssumption
<1>3. n \in Nat \ {0} /\ MaxItem \in Nat /\ Reach \in Nat /\ n <= MaxItem
  BY <1>2 DEF BoundAssumption
<1>4. \A i \in 1 .. n : row[i] \in -Reach .. Reach
  BY <1>2, ElementOfSeq
<1>5. DOMAIN row = 1 .. n
  BY <1>2
<1> HIDE DEF n
<1>6. OnceEach(r) /\ Len(r) = n /\ ToSet(r) = 1 .. n
  <2>1. r \in [1 .. n -> Item] /\ DOMAIN r = 1 .. n
    BY <1>3 DEF Item
  <2>2. r \in Seq(Item) /\ Len(r) = n
    BY <1>3, <2>1
  <2> QED
    BY <2>1, <2>2 DEF OnceEach, ToSet
<1>7. parent = (Lead(direct) \o r) \o <<Host>>
  BY <1>1 DEF Lead, n
<1> HIDE DEF r
<1>8. /\ Mapped(parent) = 1 .. n /\ HasSource(parent) = direct /\ Listed(parent) = r
      /\ parent \in Seq(Item \cup {Source, Host})
  BY <1>6, <1>7, PartsOfTheParent DEF OnceEach
<1>9. live = 1 .. n /\ pinned \in SUBSET live
  BY <1>1, <1>3 DEF n
<1>10. layer \in [Layers -> {<<Host>> \o r, <<Host>>}]
  BY <1>1 DEF n, r
<1>11. TypeOK
  <2>1. at \in [Item -> -Reach .. Reach]
    <3>1. at = [i \in Item |-> IF i <= n THEN row[i] ELSE 0]
      BY <1>1 DEF n
    <3>2. \A i \in Item : i <= n => row[i] \in -Reach .. Reach
      BY <1>3, <1>4 DEF Item
    <3>3. 0 \in -Reach .. Reach
      BY <1>3
    <3> QED
      BY <3>1, <3>2, <3>3
  <2>2. layer \in [Layers -> Seq(Item \cup {Host})]
    <3>1. <<Host>> \in Seq(Item \cup {Host}) /\ r \in Seq(Item \cup {Host})
      BY <1>6, SeqMonotonic DEF OnceEach
    <3>2. <<Host>> \o r \in Seq(Item \cup {Host})
      BY <3>1, ConcatProperties
    <3> QED
      BY <1>10, <3>1, <3>2
  <2>3. live \in SUBSET Item
    BY <1>3, <1>9 DEF Item
  <2>4. request \in [count : 0 .. MaxCount, anchor : Anchors, done : BOOLEAN]
    BY <1>1 DEF Anchors, BoundAssumption
  <2> QED
    BY <1>8, <1>9, <2>1, <2>2, <2>3, <2>4 DEF TypeOK
<1>12. Shown
  BY <1>6, <1>7, <1>8, <1>9, <1>10 DEF Shown, ShownAs
<1>13. OnTheGrid
  <2> SUFFICES ASSUME NEW i \in 1 .. n, NEW j \in 1 .. n PROVE (at[i] - at[j]) % 2 = 0
    BY <1>8 DEF OnTheGrid
  <2>1. at[i] = row[i] /\ at[j] = row[j]
    BY <1>1, <1>3 DEF Item, n
  <2> QED
    BY <1>2, <1>5, <2>1
<1> QED
  BY <1>11, <1>12, <1>13 DEF IInv

\* Every step keeps the invariant and makes the lattice.
LEMMA EveryStep ==
    ASSUME BoundAssumption, IInv, Next
    PROVE  IInv' /\ MakesTheLattice
<1>1. PICK f \in {Detected(parent, at)}, n \in 1 .. MaxCount, anchor \in Anchors :
         Resize(f, n, anchor) \/ Refuse(f, n, anchor)
  BY Zenon DEF Next
<1>2. f = Detected(parent, at)
  BY <1>1
<1>3. CASE Resize(f, n, anchor)
  BY <1>2, <1>3, ResizeStep, EditMakesTheLattice
<1>4. CASE Refuse(f, n, anchor)
  <2>1. IInv'
    BY <1>4, RefuseStep
  <2>2. request'.done = FALSE
    BY <1>4 DEF Refuse
  <2> QED
    BY <2>1, <2>2 DEF MakesTheLattice
<1> QED
  BY <1>1, <1>3, <1>4

\* Each action keeps the invariant.
LEMMA InvariantStep ==
    ASSUME BoundAssumption, IInv, [Next]_vars
    PROVE  IInv'
<1>1. CASE Next
  BY <1>1, EveryStep
<1>2. CASE UNCHANGED vars
  BY <1>2 DEF vars, IInv, TypeOK, Shown, ShownAs, OnTheGrid, Mapped, Listed, HasSource
<1> QED
  BY <1>1, <1>2

\* The invariant holds at every step.
LEMMA InvariantHolds ==
    ASSUME BoundAssumption, RowsAssumption
    PROVE  Spec => []IInv
BY StartsShown, InvariantStep, PTL DEF Spec

\* With the invariant the lists are as they should be.
LEMMA InvariantLists ==
    ASSUME BoundAssumption, IInv
    PROVE  ListsFollowTheRow /\ NothingDanglesNothingLeaks
<1>1. OnceEach(Listed(parent)) /\ Mapped(parent) = ToSet(Listed(parent))
  BY RowOfTheParent DEF IInv
<1>2. Cardinality(ToSet(Listed(parent))) = Len(Listed(parent))
  BY <1>1, RowCounts
<1> QED
  BY <1>1, <1>2 DEF ListsFollowTheRow, NothingDanglesNothingLeaks, IInv, Shown, ShownAs

-----------------------------------------------------------------------------
(* The theorems: of every row, list and bound that the assumptions allow.  *)

\* Types: every edit writes items that have a name, at positions within reach.
THEOREM TypesHold ==
    ASSUME BoundAssumption, RowsAssumption
    PROVE  Spec => []TypeOK
<1>1. IInv => TypeOK
  BY DEF IInv
<1> QED
  BY <1>1, InvariantHolds, PTL

\* Between its other items the parent lists exactly the instances of the row, and every
\* list of styles that showed the row shows all of it and nothing else, in that order,
\* however many edits were made (rewrite_presentation_style_lists).
THEOREM ListsKeepFollowing ==
    ASSUME BoundAssumption, RowsAssumption
    PROVE  Spec => []ListsFollowTheRow
<1>1. IInv => ListsFollowTheRow
  BY InvariantLists
<1> QED
  BY <1>1, InvariantHolds, PTL

\* No edit leaves a parent that lists an item the file does not hold, nor an item that
\* is in no list unless something else refers to it (prune_entities_unreferenced).
THEOREM NothingIsLostOrLeft ==
    ASSUME BoundAssumption, RowsAssumption
    PROVE  Spec => []NothingDanglesNothingLeaks
<1>1. IInv => NothingDanglesNothingLeaks
  BY InvariantLists
<1> QED
  BY <1>1, InvariantHolds, PTL

\* An edit that is accepted makes the lattice it was asked for: as many sites as the
\* count, one pitch of the row apart, with the anchored end or the middle where it was.
THEOREM EveryEditMakesTheLattice ==
    ASSUME BoundAssumption, RowsAssumption
    PROVE  Spec => AcceptedEditMakesTheLattice
<1>1. IInv /\ [Next]_vars => [MakesTheLattice]_vars
  BY EveryStep
<1> QED
  BY <1>1, InvariantHolds, PTL DEF Spec, AcceptedEditMakesTheLattice

=============================================================================
