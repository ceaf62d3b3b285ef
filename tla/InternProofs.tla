----------------------------- MODULE InternProofs -----------------------------
(***************************************************************************)
(* Proofs about Intern for sections of any size and shape.                 *)
(*                                                                         *)
(* Redirects form a forest of depth one between rounds and of depth two    *)
(* between inserting a round's redirects and compressing them (Forest);    *)
(* a redirect found by the scan joins two unmerged values, the earlier of  *)
(* which is redirected nowhere in the same round (Found).  With these the  *)
(* invariant "merges only equal values" is inductive.                      *)
(*                                                                         *)
(* Of GeometricIntern: the scan records of every duplicate why it may be   *)
(* merged: its first has its key, all its users trim it, and near enough   *)
(* lines only (Merges).  The rewriting turns that into what the users see  *)
(* (Rewritten).  The collection keeps its set between the duplicates and   *)
(* every closed set over them, and deletes nothing that a user still holds *)
(* (Collection).  That a second run merges nothing needs to know what the  *)
(* scan has decided of every support behind it (Scanned).                  *)
(*                                                                         *)
(* The last part is about the behaviours of MCInterning, each one of       *)
(* Intern beside a pass that stands still, or one of GeometricIntern       *)
(* beside a section that does.                                             *)
(***************************************************************************)
EXTENDS MCInterning, WellFoundedInduction, TLAPS

\* The shape of the redirects.
Forest ==
    /\ \A i \in Pos : alias[i] <= i
    /\ pc # "compress" => \A i \in Pos : alias[alias[i]] = alias[i]
    /\ \A i \in Pos : alias[Resolve(alias, i)] = Resolve(alias, i)

\* What the scan of a round has found.
Found ==
    /\ pc # "redirect" => \A i \in Pos : pending[i] = i
    /\ \A i \in Pos : pending[i] # i =>
          /\ pending[i] < i
          /\ i \in Unmerged(alias) /\ pending[i] \in Unmerged(alias)
          /\ pending[pending[i]] = pending[i]
          /\ Key(alias, i) = Key(alias, pending[i])

IInv == TypeOK /\ Forest /\ Found /\ MergesOnlyEqualValues

-----------------------------------------------------------------------------
\* Every inhabited set of naturals has a first element: a scan in file order that takes
\* the first match rests on it.
LEMMA HasFirst ==
    ASSUME NEW S \in SUBSET Nat, S # {}
    PROVE  \E i \in S : \A j \in S : i <= j
<1> DEFINE R == {p \in Nat \X Nat : p[1] < p[2]}
<1>1. IsWellFoundedOn(R, Nat)
  BY NatLessThanWellFounded, Zenon DEF OpToRel
<1>2. \A a, b \in Nat : a < b => <<a, b>> \in R
  OBVIOUS
<1> HIDE DEF R
<1>3. PICK i \in S : \A j \in S : ~ (<<j, i>> \in R)
  BY <1>1, WFMin
<1>4. ASSUME NEW j \in S PROVE i <= j
  <2>1. i \in Nat /\ j \in Nat
    OBVIOUS
  <2>2. ~ (<<j, i>> \in R)
    BY <1>3
  <2>3. ~ (j < i)
    BY <1>2, <2>1, <2>2, Zenon
  <2> QED
    BY <2>1, <2>3
<1> QED
  BY <1>4

\* Positions are numbers.
LEMMA PosAreNat == \A i \in Pos : i \in Nat
BY SizeAssumption DEF Pos

\* A key has the type of a key.
LEMMA KeyType ==
    ASSUME ent \in [Pos -> Entity], NEW al \in [Pos -> Pos], NEW i \in Pos
    PROVE  Key(al, i) \in Keys
<1>1. ent[i].refs \in Seq(Pos) /\ ent[i].label \in Labels
  BY DEF Entity
<1>2. [k \in DOMAIN ent[i].refs |-> Resolve(al, ent[i].refs[k])] \in Seq(Pos)
  BY <1>1 DEF Resolve
<1> QED
  BY <1>1, <1>2 DEF Key, KeyOf, Keys

\* The first of an inhabited set of positions is one of them and none is before it.
LEMMA FirstIsFirst ==
    ASSUME NEW S \in SUBSET Pos, S # {}
    PROVE  First(S) \in S /\ \A j \in S : First(S) <= j
<1>1. S \in SUBSET Nat
  BY SizeAssumption DEF Pos
<1> QED
  BY <1>1, HasFirst DEF First

\* Mapping the references of an entity gives references.
LEMMA MappedRefs ==
    ASSUME NEW s \in Seq(Pos), NEW al \in [Pos -> Pos]
    PROVE  [k \in DOMAIN s |-> al[s[k]]] \in Seq(Pos)
OBVIOUS

\* The loop is left at the latest when the cap is reached.
RoundsLeft == pc \in {"rehash", "group", "redirect", "compress"} => round < MaxRounds

\* Each step keeps the types.
LEMMA TypeStep == TypeOK /\ RoundsLeft /\ [Next]_vars => TypeOK' /\ RoundsLeft'
<1> SUFFICES ASSUME TypeOK, RoundsLeft, [Next]_vars PROVE TypeOK' /\ RoundsLeft'
  OBVIOUS
<1> USE SizeAssumption DEF TypeOK, RoundsLeft
<1>1. CASE Rehash
  BY <1>1, KeyType DEF Rehash
<1>2. CASE Group
  <2>1. \A i \in Pos : Duplicates(i) \in SUBSET Pos
    BY DEF Duplicates, Unmerged
  <2>2. pending' \in [Pos -> Pos]
    BY <1>2, <2>1, FirstIsFirst DEF Group
  <2> QED
    BY <1>2, <2>2 DEF Group
<1>3. CASE Redirect
  BY <1>3 DEF Redirect
<1>4. CASE Compress
  <2>1. alias' \in [Pos -> Pos]
    BY <1>4 DEF Compress, Resolve
  <2>2. dirty' \in SUBSET Pos
    BY <1>4 DEF Compress, Unmerged
  <2>3. round' \in 0 .. MaxRounds /\ (round' # MaxRounds => round' < MaxRounds)
    BY <1>4 DEF Compress
  <2> QED
    BY <1>4, <2>1, <2>2, <2>3 DEF Compress
<1>5. CASE Rewrite
  <2>1. alias' \in [Pos -> Pos]
    BY <1>5 DEF Rewrite, Resolve
  <2>2. \A i \in Pos : ent[i].refs \in Seq(Pos)
    BY DEF Entity
  <2>3. out' = [i \in Pos |-> [k \in DOMAIN ent[i].refs |-> alias'[ent[i].refs[k]]]]
    BY <1>5 DEF Rewrite
  <2>4. out' \in [Pos -> Seq(Pos)]
    BY <2>1, <2>2, <2>3, MappedRefs
  <2> QED
    BY <1>5, <2>1, <2>4 DEF Rewrite
<1>6. CASE Done \/ UNCHANGED vars
  BY <1>6 DEF Done, vars
<1> QED
  BY <1>1, <1>2, <1>3, <1>4, <1>5, <1>6 DEF Next

\* It holds of a section as it is read.
LEMMA TypeInit == Init => TypeOK /\ RoundsLeft
<1> SUFFICES ASSUME Init PROVE TypeOK /\ RoundsLeft
  OBVIOUS
<1>1. ent \in [Pos -> Entity]
  BY SectionsAssumption DEF Init
<1>2. alias \in [Pos -> Pos] /\ pending \in [Pos -> Pos]
  BY DEF Init
<1>3. hash \in [Pos -> Keys]
  BY <1>1, <1>2, KeyType DEF Init
<1>4. out \in [Pos -> Seq(Pos)]
  BY <1>1 DEF Init, Entity
<1> QED
  BY <1>1, <1>2, <1>3, <1>4, SizeAssumption DEF Init, TypeOK, RoundsLeft

\* Every variable keeps its type.
THEOREM TypeCorrect == Spec => []TypeOK
<1>1. Spec => [](TypeOK /\ RoundsLeft)
  BY TypeInit, TypeStep, PTL DEF Spec
<1> QED
  BY <1>1, PTL

-----------------------------------------------------------------------------
\* The scan redirects a value to the first of its equals, which it leaves alone.
LEMMA ScanFinds ==
    ASSUME TypeOK, Group, NEW i \in Pos, pending'[i] # i
    PROVE  /\ pending'[i] \in Duplicates(i)
           /\ i \in Unmerged(alias)
           /\ pending'[pending'[i]] = pending'[i]
<1> USE DEF TypeOK
<1>1. /\ i \in Unmerged(alias) /\ Duplicates(i) # {}
      /\ pending'[i] = First(Duplicates(i))
  BY DEF Group
<1>2. \A j \in Pos : Duplicates(j) \in SUBSET Pos
  BY DEF Duplicates, Unmerged
<1>3. /\ First(Duplicates(i)) \in Duplicates(i)
      /\ \A j \in Duplicates(i) : First(Duplicates(i)) <= j
  <2>1. Duplicates(i) \in SUBSET Pos /\ Duplicates(i) # {}
    BY <1>1, <1>2
  <2> QED
    BY <2>1, FirstIsFirst
<1>4. PICK c \in Duplicates(i) : c = pending'[i] /\ \A j \in Duplicates(i) : c <= j
  BY <1>1, <1>3
<1>5. c \in Pos /\ i \in Pos /\ c \in Nat
  BY <1>2, SizeAssumption DEF Pos
<1>6. ASSUME NEW d \in Duplicates(c) PROVE FALSE
  <2>1. d \in Pos /\ d \in Nat /\ d < c
    <3>1. d \in Pos
      BY <1>2, <1>5
    <3>2. d < c
      BY DEF Duplicates
    <3> QED
      BY <3>1, <3>2, SizeAssumption DEF Pos
  <2>2. d \in Duplicates(i)
    <3>1. d < i
      <4>1. c < i
        BY <1>4 DEF Duplicates
      <4> QED
        BY <4>1, <1>5, <2>1, SizeAssumption DEF Pos
    <3>2. hash[d] = hash[i] /\ Key(alias, d) = Key(alias, i) /\ d \in Unmerged(alias)
      BY <1>4 DEF Duplicates
    <3> QED
      BY <3>1, <3>2 DEF Duplicates
  <2>3. c <= d
    BY <1>4, <2>2
  <2> QED
    BY <1>5, <2>1, <2>3
<1>7. pending'[c] = c
  BY <1>5, <1>6 DEF Group
<1> QED
  BY <1>1, <1>4, <1>7

\* What a round finds joins two unmerged values that are equal now.
LEMMA FoundStep == TypeOK /\ Found /\ [Next]_vars => Found'
<1> SUFFICES ASSUME TypeOK, Found, [Next]_vars PROVE Found'
  OBVIOUS
<1> USE DEF TypeOK, Found, Unmerged, Key
<1>1. CASE Rehash
  BY <1>1 DEF Rehash
<1>2. CASE Group
  <2>1. ent' = ent /\ alias' = alias
    BY <1>2 DEF Group
  <2>2. pc' # "redirect" => \A i \in Pos : pending'[i] = i
    BY <1>2 DEF Group
  <2>3. ASSUME NEW i \in Pos, pending'[i] # i
        PROVE /\ pending'[i] < i
              /\ i \in Unmerged(alias) /\ pending'[i] \in Unmerged(alias)
              /\ pending'[pending'[i]] = pending'[i]
              /\ Key(alias, i) = Key(alias, pending'[i])
    BY <1>2, <2>3, ScanFinds DEF Duplicates
  <2>4. ASSUME NEW i \in Pos, pending'[i] # i
        PROVE Key(alias, i)' = Key(alias, pending[i])'
    BY <2>1, <2>3, <2>4
  <2>5. ASSUME NEW i \in Pos, pending'[i] # i
        PROVE i \in Unmerged(alias)' /\ pending'[i] \in Unmerged(alias)'
    BY <2>1, <2>3, <2>5
  <2> HIDE DEF Unmerged, Key
  <2> QED
    BY <2>2, <2>3, <2>4, <2>5
<1>3. CASE Redirect
  BY <1>3 DEF Redirect
<1>4. CASE Compress
  BY <1>4 DEF Compress
<1>5. CASE Rewrite
  BY <1>5 DEF Rewrite
<1>6. CASE Done \/ UNCHANGED vars
  BY <1>6 DEF Done, vars
<1> QED
  BY <1>1, <1>2, <1>3, <1>4, <1>5, <1>6 DEF Next

-----------------------------------------------------------------------------
\* Inserting a round's redirects lengthens a chain by one, compressing them
\* restores depth one.
LEMMA ForestStep == TypeOK /\ Forest /\ Found /\ [Next]_vars => Forest'
<1> SUFFICES ASSUME TypeOK, Forest, Found, [Next]_vars PROVE Forest'
  OBVIOUS
<1> USE SizeAssumption DEF TypeOK, Forest, Found, Resolve
<1>1. CASE Rehash \/ Group \/ Done \/ UNCHANGED vars
  BY <1>1 DEF Rehash, Group, Done, vars
<1>2. CASE Redirect
  <2>1. pc = "redirect" /\ pc' = "compress"
    BY <1>2 DEF Redirect
  <2>2. \A i \in Pos : alias'[i] = IF pending[i] # i THEN pending[i] ELSE alias[i]
    BY <1>2 DEF Redirect
  <2>3. \A i \in Pos : alias[alias[i]] = alias[i]
    BY <2>1
  <2>4. ASSUME NEW i \in Pos PROVE alias'[i] <= i
    <3>1. pending[i] # i => pending[i] <= i
      BY PosAreNat
    <3> QED
      BY <2>2, <3>1
  <2>5. ASSUME NEW i \in Pos PROVE alias'[alias'[alias'[i]]] = alias'[alias'[i]]
    <3>1. ASSUME NEW j \in Pos, pending[j] # j
          PROVE pending[j] \in Pos /\ alias'[j] = pending[j] /\ alias'[pending[j]] = pending[j]
      BY <2>2, <3>1 DEF Unmerged
    <3>2. ASSUME NEW j \in Pos, pending[j] = j PROVE alias'[j] = alias[j]
      BY <2>2, <3>2
    <3>3. CASE pending[i] # i
      BY <3>1, <3>3
    <3>4. CASE pending[i] = i
      <4> DEFINE a == alias[i]
      <4>1. a \in Pos /\ alias'[i] = a /\ alias[a] = a
        BY <2>3, <3>2, <3>4
      <4> HIDE DEF a
      <4>2. CASE pending[a] # a
        BY <3>1, <4>1, <4>2
      <4>3. CASE pending[a] = a
        BY <3>2, <4>1, <4>3
      <4> QED
        BY <4>2, <4>3
    <3> QED
      BY <3>3, <3>4
  <2> QED
    BY <2>1, <2>4, <2>5
<1>3. CASE Compress
  <2>1. \A i \in Pos : alias'[i] = alias[alias[i]]
    BY <1>3 DEF Compress
  <2>2. ASSUME NEW i \in Pos PROVE alias'[i] <= i
    <3>1. PICK a \in Pos : a = alias[i] /\ a <= i
      OBVIOUS
    <3>2. PICK b \in Pos : b = alias[a] /\ b <= a
      BY <3>1
    <3>3. b <= i
      BY <3>1, <3>2, PosAreNat
    <3> QED
      BY <2>1, <3>1, <3>2, <3>3
  <2>3. \A i \in Pos : alias'[alias'[i]] = alias'[i]
    BY <2>1
  <2> QED
    BY <2>1, <2>2, <2>3
<1>4. CASE Rewrite
  <2>1. \A i \in Pos : alias'[i] = alias[alias[i]]
    BY <1>4 DEF Rewrite
  <2>2. ASSUME NEW i \in Pos PROVE alias'[i] <= i
    <3>1. PICK a \in Pos : a = alias[i] /\ a <= i
      OBVIOUS
    <3>2. PICK b \in Pos : b = alias[a] /\ b <= a
      BY <3>1
    <3>3. b <= i
      BY <3>1, <3>2, PosAreNat
    <3> QED
      BY <2>1, <3>1, <3>2, <3>3
  <2>3. \A i \in Pos : alias'[alias'[i]] = alias'[i]
    BY <2>1
  <2> QED
    BY <2>1, <2>2, <2>3
<1> QED
  BY <1>1, <1>2, <1>3, <1>4 DEF Next

\* Redirects that agree after one resolution agree after a coarser one.
LEMMA CoarserKeys ==
    ASSUME TypeOK, NEW al \in [Pos -> Pos], NEW bl \in [Pos -> Pos],
           \A x \in Pos : Resolve(bl, Resolve(al, x)) = Resolve(bl, x),
           NEW i \in Pos, NEW j \in Pos, Key(al, i) = Key(al, j)
    PROVE  Key(bl, i) = Key(bl, j)
<1> DEFINE R == ent[i].refs
           S == ent[j].refs
<1>1. R \in Seq(Pos) /\ S \in Seq(Pos)
  BY DEF TypeOK, Entity
<1>2. /\ ent[i].label = ent[j].label
      /\ [k \in DOMAIN R |-> Resolve(al, R[k])] = [k \in DOMAIN S |-> Resolve(al, S[k])]
  BY DEF Key, KeyOf
<1>3. DOMAIN R = DOMAIN S
  BY <1>2
<1>4. \A k \in DOMAIN R : Resolve(al, R[k]) = Resolve(al, S[k])
  BY <1>2, <1>3
<1>5. \A k \in DOMAIN R : Resolve(bl, R[k]) = Resolve(bl, S[k])
  <2>1. \A k \in DOMAIN R : R[k] \in Pos /\ S[k] \in Pos
    BY <1>1, <1>3
  <2> HIDE DEF R, S
  <2> QED
    BY <1>4, <2>1
<1> QED
  BY <1>2, <1>3, <1>5 DEF Key, KeyOf

\* The redirects after a step, judged in the section as it was read.
EqualUnder(bl) ==
    \A i \in Pos : bl[i] # i =>
        ent[i].value /\ ent[bl[i]].value /\ Key(bl, i) = Key(bl, bl[i])

\* Inserting redirects that were found keeps merging equals.
LEMMA RedirectMergesEquals ==
    ASSUME TypeOK, Forest, Found, MergesOnlyEqualValues, Redirect
    PROVE  EqualUnder(alias')
<1> DEFINE B == alias'
<1>1. B \in [Pos -> Pos] /\ \A i \in Pos : B[i] = IF pending[i] # i THEN pending[i] ELSE alias[i]
  BY DEF Redirect, TypeOK
<1>2. /\ \A i \in Pos : alias[i] \in Pos /\ pending[i] \in Pos
      /\ \A i \in Pos : alias[alias[i]] = alias[i]
  BY DEF Redirect, Forest, TypeOK
<1>a. \A i \in Pos : pending[i] # i =>
        alias[i] = i /\ alias[pending[i]] = pending[i] /\ pending[pending[i]] = pending[i]
  BY DEF Found, Unmerged
<1> HIDE DEF B
<1>3. ASSUME NEW a \in Pos, alias[a] = a PROVE B[B[a]] = B[a]
  <2>1. CASE pending[a] # a
    <3>1. B[a] = pending[a] /\ pending[a] \in Pos
      BY <1>1, <1>2, <2>1
    <3>2. B[pending[a]] = alias[pending[a]]
      BY <1>1, <1>a, <2>1, <3>1
    <3> QED
      BY <1>a, <2>1, <3>1, <3>2
  <2>2. CASE pending[a] = a
    BY <1>1, <1>3, <2>2
  <2> QED
    BY <2>1, <2>2
<1>4. ASSUME NEW x \in Pos PROVE Resolve(B, Resolve(alias, x)) = Resolve(B, x)
  <2>1. alias[x] \in Pos /\ alias[alias[x]] = alias[x] /\ B[B[alias[x]]] = B[alias[x]]
    BY <1>2, <1>3
  <2>2. CASE pending[x] # x
    BY <1>2, <1>a, <2>1, <2>2 DEF Resolve
  <2>3. CASE pending[x] = x
    BY <1>1, <2>1, <2>3 DEF Resolve
  <2> QED
    BY <2>2, <2>3
<1> USE DEF TypeOK, Found
<1>5. ASSUME NEW i \in Pos, NEW j \in Pos, Key(alias, i) = Key(alias, j)
      PROVE Key(B, i) = Key(B, j)
  BY <1>1, <1>4, <1>5, CoarserKeys
<1>6. ASSUME NEW i \in Pos, B[i] # i
      PROVE ent[i].value /\ ent[B[i]].value /\ Key(B, i) = Key(B, B[i])
  <2>1. CASE pending[i] # i
    <3>1. PICK c \in Pos : c = B[i] /\ c = pending[i]
      BY <1>1, <2>1
    <3>2. Key(alias, i) = Key(alias, c) /\ ent[i].value /\ ent[c].value
      BY <2>1, <3>1 DEF Unmerged
    <3> QED
      BY <1>5, <3>1, <3>2
  <2>2. CASE pending[i] = i
    <3>1. PICK c \in Pos : c = B[i] /\ c = alias[i] /\ c # i
      BY <1>1, <1>6, <2>2
    <3>2. Key(alias, i) = Key(alias, c) /\ ent[i].value /\ ent[c].value
      BY <3>1 DEF MergesOnlyEqualValues
    <3> QED
      BY <1>5, <3>1, <3>2
  <2> QED
    BY <2>1, <2>2
<1> QED
  BY <1>6 DEF EqualUnder, B

\* Compressing keeps merging equals: a redirect of two hops is two equalities.
LEMMA CompressMergesEquals ==
    ASSUME TypeOK, Forest, MergesOnlyEqualValues,
           NEW B \in [Pos -> Pos], \A i \in Pos : B[i] = Resolve(alias, i)
    PROVE  EqualUnder(B)
<1> USE DEF TypeOK
<1>1. ASSUME NEW x \in Pos PROVE Resolve(B, Resolve(alias, x)) = Resolve(B, x)
  <2>1. PICK a \in Pos : a = Resolve(alias, x) /\ alias[a] = a
    BY DEF Forest, Resolve
  <2> QED
    BY <2>1 DEF Resolve
<1>2. ASSUME NEW i \in Pos, NEW j \in Pos, Key(alias, i) = Key(alias, j)
      PROVE Key(B, i) = Key(B, j)
  BY <1>1, <1>2, CoarserKeys
<1>3. ASSUME NEW i \in Pos, B[i] # i
      PROVE ent[i].value /\ ent[B[i]].value /\ Key(B, i) = Key(B, B[i])
  <2>1. PICK a \in Pos : a = alias[i]
    OBVIOUS
  <2>2. PICK b \in Pos : b = alias[a] /\ B[i] = b
    BY <2>1 DEF Resolve
  <2>3. a # i
    BY <1>3, <2>1, <2>2
  <2>4. Key(B, i) = Key(B, a) /\ ent[i].value /\ ent[a].value
    BY <1>2, <2>1, <2>3 DEF MergesOnlyEqualValues
  <2>5. CASE b = a
    BY <2>2, <2>4, <2>5
  <2>6. CASE b # a
    <3>1. Key(alias, a) = Key(alias, b) /\ ent[b].value
      BY <2>2, <2>6 DEF MergesOnlyEqualValues
    <3> QED
      BY <1>2, <2>2, <2>4, <3>1
  <2> QED
    BY <2>5, <2>6
<1> QED
  BY <1>3 DEF EqualUnder

\* No step merges values that differ, or anything that is not a value.
LEMMA MergeStep ==
    TypeOK /\ Forest /\ Found /\ MergesOnlyEqualValues /\ [Next]_vars
        => MergesOnlyEqualValues'
<1> SUFFICES ASSUME TypeOK, Forest, Found, MergesOnlyEqualValues, [Next]_vars
             PROVE MergesOnlyEqualValues'
  OBVIOUS
<1>1. ent' = ent
  BY DEF Next, vars, Rehash, Group, Redirect, Compress, Rewrite, Done
<1>2. EqualUnder(alias') => MergesOnlyEqualValues'
  BY <1>1 DEF EqualUnder, MergesOnlyEqualValues, Key
<1>3. MergesOnlyEqualValues => EqualUnder(alias)
  BY DEF EqualUnder, MergesOnlyEqualValues
<1>4. CASE Redirect
  BY <1>2, <1>4, RedirectMergesEquals
<1>5. CASE Compress \/ Rewrite
  <2>1. alias' \in [Pos -> Pos] /\ \A i \in Pos : alias'[i] = Resolve(alias, i)
    BY <1>5 DEF Compress, Rewrite, TypeOK, Resolve
  <2> QED
    BY <1>2, <2>1, CompressMergesEquals
<1>6. CASE Rehash \/ Group \/ Done \/ UNCHANGED vars
  <2>1. alias' = alias
    BY <1>6 DEF Rehash, Group, Done, vars
  <2> QED
    BY <1>2, <1>3, <2>1
<1> QED
  BY <1>4, <1>5, <1>6 DEF Next

\* The inductive invariant.
LEMMA Inductive == Spec => [](IInv /\ RoundsLeft)
<1>1. Init => IInv /\ RoundsLeft
  <2> SUFFICES ASSUME Init PROVE IInv
    BY TypeInit
  <2>1. \A i \in Pos : alias[i] = i /\ pending[i] = i /\ i <= i
    BY PosAreNat DEF Init
  <2> QED
    BY <2>1, TypeInit DEF IInv, Forest, Found, Resolve, MergesOnlyEqualValues
<1>2. IInv /\ RoundsLeft /\ [Next]_vars => IInv' /\ RoundsLeft'
  BY TypeStep, ForestStep, FoundStep, MergeStep DEF IInv
<1> QED
  BY <1>1, <1>2, PTL DEF Spec

\* Interning never changes what a section says: whatever the rounds merge are
\* values with equal keywords, parameters and (up to redirects) references.
THEOREM MergingIsSound == Spec => []MergesOnlyEqualValues
<1>1. IInv => MergesOnlyEqualValues
  BY DEF IInv
<1> QED
  BY <1>1, Inductive, PTL

\* Redirects always lead back in the file and are resolved by two lookups.
THEOREM RedirectsAlwaysResolve == Spec => []RedirectsResolve
<1>1. IInv => RedirectsResolve
  BY DEF IInv, Forest, RedirectsResolve
<1> QED
  BY <1>1, Inductive, PTL

-----------------------------------------------------------------------------
(***************************************************************************)
(* The cached hashes.  Between inserting and compressing redirects, every  *)
(* value whose cached hash is out of date refers to an entity that was     *)
(* just redirected or whose redirect compression is about to change: those *)
(* are the parents the code marks dirty.                                   *)
(***************************************************************************)
Moved == {j \in Pos : Resolve(alias, j) # alias[j]}

Fresh ==
    /\ pc \in {"rehash", "group"} =>
          \A i \in Unmerged(alias) \ dirty : hash[i] = Key(alias, i)
    /\ pc \in {"group", "redirect"} => dirty = {}
    /\ pc = "redirect" => \A i \in Unmerged(alias) : hash[i] = Key(alias, i)
    /\ pc = "compress" =>
          \A i \in Unmerged(alias) \ ValueParents(changed \cup Moved) : hash[i] = Key(alias, i)

\* What the scan leaves unmerged has pairwise different hashes.
Distinct ==
    /\ pc = "redirect" =>
          \A i, j \in Unmerged(alias) :
              (i # j /\ pending[i] = i /\ pending[j] = j) => hash[i] # hash[j]
    /\ pc = "compress" =>
          \A i, j \in Unmerged(alias) : i # j => hash[i] # hash[j]
    /\ (pc \in {"rewrite", "done"} /\ dirty = {}) =>
          \A i, j \in Unmerged(alias) : i # j => Key(alias, i) # Key(alias, j)

\* Redirects that resolve alike give the same keys.
LEMMA SameResolutionSameKey ==
    ASSUME TypeOK, NEW al \in [Pos -> Pos], NEW bl \in [Pos -> Pos], NEW i \in Pos,
           \A k \in DOMAIN ent[i].refs :
               Resolve(al, ent[i].refs[k]) = Resolve(bl, ent[i].refs[k])
    PROVE  Key(al, i) = Key(bl, i)
BY DEF Key, KeyOf

\* A value is unmerged after compression if and only if it was before.
LEMMA CompressKeepsUnmerged ==
    ASSUME TypeOK, Forest, NEW B \in [Pos -> Pos], \A i \in Pos : B[i] = Resolve(alias, i)
    PROVE  Unmerged(B) = Unmerged(alias) /\ \A i \in Pos : Key(B, i) = Key(alias, i)
<1> USE DEF TypeOK
<1>1. ASSUME NEW i \in Pos PROVE B[i] = i <=> alias[i] = i
  <2>1. PICK a \in Pos : a = alias[i] /\ a <= i
    BY DEF Forest
  <2>2. PICK b \in Pos : b = alias[a] /\ b <= a /\ B[i] = b
    BY <2>1 DEF Forest, Resolve
  <2>3. b = i => a = i
    BY <2>1, <2>2, PosAreNat
  <2> QED
    BY <2>1, <2>2, <2>3
<1>2. ASSUME NEW x \in Pos PROVE Resolve(B, x) = Resolve(alias, x)
  <2>1. PICK a \in Pos : a = Resolve(alias, x) /\ alias[a] = a
    BY DEF Forest, Resolve
  <2> QED
    BY <2>1 DEF Resolve
<1>3. ASSUME NEW i \in Pos PROVE Key(B, i) = Key(alias, i)
  <2>1. \A k \in DOMAIN ent[i].refs : ent[i].refs[k] \in Pos
    BY DEF Entity
  <2> QED
    BY <1>2, <2>1, SameResolutionSameKey
<1> QED
  BY <1>1, <1>3 DEF Unmerged

\* Inserting redirects makes stale only the hashes that will be marked dirty.
LEMMA RedirectStale ==
    ASSUME IInv, Fresh, Redirect, NEW i \in Unmerged(alias'),
           i \notin ValueParents(changed' \cup {j \in Pos : Resolve(alias', j) # alias'[j]})
    PROVE  hash[i] = Key(alias', i) /\ i \in Unmerged(alias) /\ pending[i] = i
<1> USE DEF IInv, TypeOK
<1>1. alias' \in [Pos -> Pos] /\ \A x \in Pos : alias'[x] = IF pending[x] # x THEN pending[x] ELSE alias[x]
  BY DEF Redirect
<1>2. i \in Pos /\ pending[i] = i /\ alias[i] = i /\ ent[i].value
  BY <1>1 DEF Unmerged, Found
<1>3. hash[i] = Key(alias, i)
  BY <1>2 DEF Fresh, Redirect, Unmerged
<1>4. ASSUME NEW k \in DOMAIN ent[i].refs
      PROVE Resolve(alias', ent[i].refs[k]) = Resolve(alias, ent[i].refs[k])
  <2>1. PICK x \in Pos : x = ent[i].refs[k]
    BY <1>2 DEF Entity
  <2>2. x \notin changed' /\ Resolve(alias', x) = alias'[x]
    BY <1>2, <2>1 DEF ValueParents
  <2>3. pending[x] = x
    BY <2>2 DEF Redirect
  <2>4. alias[alias[x]] = alias[x]
    BY DEF Forest, Redirect
  <2> QED
    BY <1>1, <2>1, <2>2, <2>3, <2>4 DEF Resolve
<1>5. Key(alias', i) = Key(alias, i)
  BY <1>1, <1>2, <1>4, SameResolutionSameKey
<1> QED
  BY <1>2, <1>3, <1>5 DEF Unmerged

\* A value that the scan leaves alone has no equal before it in its bucket.
LEMMA ScanLeavesDistinct ==
    ASSUME IInv, Fresh, Group, NEW i \in Unmerged(alias), NEW j \in Unmerged(alias),
           i # j, pending'[i] = i, pending'[j] = j
    PROVE  hash[i] # hash[j] /\ Key(alias, i) # Key(alias, j)
<1> USE DEF IInv, TypeOK
<1>1. \A x \in Unmerged(alias) : hash[x] = Key(alias, x)
  BY DEF Fresh, Group
<1>2. ASSUME NEW x \in Unmerged(alias), NEW y \in Unmerged(alias), x < y,
             hash[x] = hash[y], pending'[y] = y
      PROVE FALSE
  <2>1. x \in Duplicates(y) /\ y \in Pos
    BY <1>1, <1>2 DEF Duplicates, Unmerged
  <2>2. Duplicates(y) \in SUBSET Pos
    BY DEF Duplicates, Unmerged
  <2>3. First(Duplicates(y)) \in Duplicates(y)
    BY <2>1, <2>2, FirstIsFirst
  <2>4. y \in Duplicates(y)
    BY <1>2, <2>1, <2>3 DEF Group
  <2> QED
    BY <2>1, <2>4, PosAreNat DEF Duplicates
<1>3. i \in Nat /\ j \in Nat
  BY PosAreNat DEF Unmerged
<1>4. i < j \/ j < i
  BY <1>3
<1> QED
  BY <1>1, <1>2, <1>4

\* A step of the pass that only looks leaves keys and unmerged values alone.
LEMMA SameSection == ASSUME [Next]_vars PROVE ent' = ent
BY DEF Next, vars, Rehash, Group, Redirect, Compress, Rewrite, Done

\* The cached hashes stay current.
LEMMA FreshStep == IInv /\ Fresh /\ [Next]_vars => Fresh'
<1> SUFFICES ASSUME IInv, Fresh, [Next]_vars PROVE Fresh'
  OBVIOUS
<1>1. /\ \A al : Unmerged(al)' = {i \in Pos : ent[i].value /\ al'[i] = i}
      /\ ent' = ent
  BY SameSection DEF Unmerged
<1> USE DEF IInv, TypeOK
<1>2. CASE Rehash
  <2>1. alias' = alias /\ dirty' = {} /\ pc' = "group"
    BY <1>2 DEF Rehash
  <2>2. ASSUME NEW i \in Unmerged(alias) PROVE hash'[i] = Key(alias, i)
    BY <1>2, <2>2 DEF Rehash, Fresh, Unmerged
  <2> QED
    BY <1>1, <2>1, <2>2 DEF Fresh, Unmerged, Key
<1>3. CASE Group
  <2>1. alias' = alias /\ hash' = hash /\ dirty' = dirty /\ dirty = {}
        /\ pc' \in {"rewrite", "redirect"} /\ pc = "group"
    BY <1>3 DEF Group, Fresh
  <2>2. \A i \in Unmerged(alias) : hash[i] = Key(alias, i)
    BY <2>1 DEF Fresh
  <2> QED
    BY <1>1, <2>1, <2>2 DEF Fresh, Unmerged, Key
<1>4. CASE Redirect
  <2>1. pc' = "compress" /\ hash' = hash
    BY <1>4 DEF Redirect
  <2>2. ASSUME NEW i \in Unmerged(alias)',
               i \notin ValueParents(changed' \cup {j \in Pos : Resolve(alias', j) # alias'[j]})
        PROVE hash[i] = Key(alias', i)
    <3>1. i \in Unmerged(alias')
      BY <1>1, <2>2 DEF Unmerged
    <3> QED
      BY <1>4, <2>2, <3>1, RedirectStale
  <2>3. ValueParents(changed \cup Moved)'
          = ValueParents(changed' \cup {j \in Pos : Resolve(alias', j) # alias'[j]})
    BY <1>1 DEF ValueParents, Moved, Resolve
  <2> QED
    BY <1>1, <2>1, <2>2, <2>3 DEF Fresh, Key
<1>5. CASE Compress
  <2>1. alias' \in [Pos -> Pos] /\ \A i \in Pos : alias'[i] = Resolve(alias, i)
    BY <1>5 DEF Compress, Resolve
  <2>2. Unmerged(alias') = Unmerged(alias) /\ \A i \in Pos : Key(alias', i) = Key(alias, i)
    BY <2>1, CompressKeepsUnmerged
  <2>3. /\ dirty' = ValueParents(changed \cup Moved) \cap Unmerged(alias)
        /\ hash' = hash /\ pc = "compress" /\ pc' \in {"rewrite", "rehash"}
    BY <1>5 DEF Compress, Moved
  <2>4. \A i \in Unmerged(alias) \ dirty' : hash[i] = Key(alias, i)
    BY <2>3 DEF Fresh
  <2>5. \A i \in Unmerged(alias)' \ dirty' : hash'[i] = Key(alias, i)'
    BY <1>1, <2>2, <2>3, <2>4 DEF Key, Unmerged
  <2> QED
    BY <2>3, <2>5 DEF Fresh
<1>6. CASE Rewrite
  BY <1>6 DEF Rewrite, Fresh
<1>7. CASE Done \/ UNCHANGED vars
  <2>1. UNCHANGED vars
    BY <1>7 DEF Done
  <2> QED
    BY <2>1 DEF vars, Fresh, Unmerged, Key, ValueParents, Moved, Resolve
<1> QED
  BY <1>2, <1>3, <1>4, <1>5, <1>6, <1>7 DEF Next

\* Where the loop ends with current hashes, the unmerged values are distinct.
LEMMA DistinctStep == IInv /\ Fresh /\ Distinct /\ [Next]_vars => Distinct'
<1> SUFFICES ASSUME IInv, Fresh, Distinct, [Next]_vars PROVE Distinct'
  OBVIOUS
<1>1. ent' = ent
  BY SameSection
<1> USE DEF IInv, TypeOK
<1>2. CASE Rehash
  BY <1>2 DEF Rehash, Distinct
<1>3. CASE Group
  <2>1. alias' = alias /\ hash' = hash /\ pc' \in {"rewrite", "redirect"}
    BY <1>3 DEF Group
  <2>2. pc' = "rewrite" => \A i \in Pos : pending'[i] = i
    BY <1>3 DEF Group
  <2>3. \A i, j \in Unmerged(alias) : (i # j /\ pending'[i] = i /\ pending'[j] = j) =>
            hash[i] # hash[j] /\ Key(alias, i) # Key(alias, j)
    BY <1>3, ScanLeavesDistinct
  <2>4. Unmerged(alias)' = Unmerged(alias) /\ Unmerged(alias) \subseteq Pos
    BY <1>1, <2>1 DEF Unmerged
  <2> QED
    BY <1>1, <2>1, <2>2, <2>3, <2>4 DEF Distinct, Key
<1>4. CASE Redirect
  <2>1. \A i \in Pos : alias'[i] = IF pending[i] # i THEN pending[i] ELSE alias[i]
    BY <1>4 DEF Redirect
  <2>2. ASSUME NEW i \in Unmerged(alias)' PROVE i \in Unmerged(alias) /\ pending[i] = i
    BY <1>1, <2>1, <2>2 DEF Unmerged, Found
  <2>3. pc = "redirect" /\ pc' = "compress" /\ hash' = hash
    BY <1>4 DEF Redirect
  <2> QED
    BY <2>2, <2>3 DEF Distinct
<1>5. CASE Compress
  <2>1. alias' \in [Pos -> Pos] /\ \A i \in Pos : alias'[i] = Resolve(alias, i)
    BY <1>5 DEF Compress, Resolve
  <2>2. Unmerged(alias') = Unmerged(alias)
    BY <2>1, CompressKeepsUnmerged
  <2>3. Unmerged(alias)' = Unmerged(alias)
    BY <1>1, <2>2 DEF Unmerged
  <2>4. pc = "compress" /\ pc' \in {"rewrite", "rehash"} /\ hash' = hash
    BY <1>5 DEF Compress
  <2>5. pc' = "rewrite" /\ dirty' = {} => \A i \in Unmerged(alias) : hash[i] = Key(alias, i)
    <3>1. dirty' = ValueParents(changed \cup Moved) \cap Unmerged(alias)
      BY <1>5 DEF Compress, Moved
    <3> QED
      BY <2>4, <3>1 DEF Fresh
  <2>6. \A i \in Pos : Key(alias, i)' = Key(alias, i)
    <3>1. \A i \in Pos : Key(alias', i) = Key(alias, i)
      BY <2>1, CompressKeepsUnmerged
    <3> QED
      BY <1>1, <3>1 DEF Key
  <2> QED
    BY <2>3, <2>4, <2>5, <2>6 DEF Distinct, Unmerged
<1>6. CASE Rewrite
  <2>1. alias' \in [Pos -> Pos] /\ \A i \in Pos : alias'[i] = Resolve(alias, i)
    BY <1>6 DEF Rewrite, Resolve
  <2>2. Unmerged(alias') = Unmerged(alias) /\ \A i \in Pos : Key(alias', i) = Key(alias, i)
    BY <2>1, CompressKeepsUnmerged
  <2>3. pc = "rewrite" /\ pc' = "done" /\ dirty' = dirty
    BY <1>6 DEF Rewrite
  <2>4. Unmerged(alias)' = Unmerged(alias) /\ \A i \in Pos : Key(alias, i)' = Key(alias, i)
    BY <1>1, <2>2 DEF Key, Unmerged
  <2> QED
    BY <2>3, <2>4 DEF Distinct, Unmerged
<1>7. CASE Done \/ UNCHANGED vars
  <2>1. UNCHANGED vars
    BY <1>7 DEF Done
  <2> QED
    BY <2>1 DEF vars, Distinct, Unmerged, Key
<1> QED
  BY <1>2, <1>3, <1>4, <1>5, <1>6, <1>7 DEF Next

\* What is written: the entities without a redirect, every reference redirected.
Written ==
    pc = "done" =>
        /\ live = {i \in Pos : alias[i] = i}
        /\ \A i \in Pos : out[i] = [k \in DOMAIN ent[i].refs |-> alias[ent[i].refs[k]]]

\* Only Rewrite writes, and nothing changes afterwards.
LEMMA WrittenStep == TypeOK /\ Written /\ [Next]_vars => Written'
<1> SUFFICES ASSUME TypeOK, Written, [Next]_vars PROVE Written'
  OBVIOUS
<1> USE DEF TypeOK, Written
<1>1. CASE Rewrite
  BY <1>1 DEF Rewrite
<1>2. CASE Rehash \/ Group \/ Redirect \/ Compress
  BY <1>2 DEF Rehash, Group, Redirect, Compress
<1>3. CASE Done \/ UNCHANGED vars
  BY <1>3 DEF Done, vars
<1> QED
  BY <1>1, <1>2, <1>3 DEF Next

\* All the invariants together.
LEMMA AllInvariants == Spec => [](IInv /\ Fresh /\ Distinct /\ Written)
<1>1. Init => Fresh /\ Distinct /\ Written
  BY DEF Init, Fresh, Distinct, Written, Unmerged
<1>2. IInv /\ Fresh /\ Distinct /\ Written /\ [Next]_vars => Fresh' /\ Distinct' /\ Written'
  BY FreshStep, DistinctStep, WrittenStep DEF IInv
<1> QED
  BY <1>1, <1>2, Inductive, PTL DEF Spec

\* Recomputing only the parents of what changed is enough: a hash that is not
\* marked dirty is the one a recomputation would give.
THEOREM HashesStayCurrent == Spec => []CachedHashesCurrent
<1>1. Fresh => CachedHashesCurrent
  BY DEF Fresh, CachedHashesCurrent
<1> QED
  BY <1>1, AllInvariants, PTL

\* Every reference of the output leads to an entity of the output.
THEOREM OutputAlwaysClosed == Spec => []OutputIsClosed
<1>1. IInv /\ Written => OutputIsClosed
  <2> SUFFICES ASSUME IInv, Written, pc = "done", NEW i \in live, NEW k \in DOMAIN out[i]
               PROVE out[i][k] \in live
    BY DEF OutputIsClosed
  <2> USE DEF IInv, TypeOK
  <2>1. i \in Pos /\ k \in DOMAIN ent[i].refs /\ out[i][k] = alias[ent[i].refs[k]]
    BY DEF Written
  <2>2. PICK x \in Pos : x = ent[i].refs[k]
    BY <2>1 DEF Entity
  <2>3. alias[alias[x]] = alias[x]
    BY DEF Forest
  <2> QED
    BY <2>1, <2>2, <2>3 DEF Written
<1> QED
  BY <1>1, AllInvariants, PTL

\* Unless the cap on the rounds stopped it, the pass merges all equal values: a
\* second run would find nothing to do.
THEOREM SharingIsMaximal == Spec => []MaximalSharing
<1>1. IInv /\ Distinct /\ Written => MaximalSharing
  <2> SUFFICES ASSUME IInv, Distinct, Written, pc = "done", dirty = {},
                      NEW i \in live, NEW j \in live, i # j, ent[i].value, ent[j].value,
                      <<ent[i].label, out[i]>> = <<ent[j].label, out[j]>>
               PROVE FALSE
    BY DEF MaximalSharing
  <2> USE DEF IInv, TypeOK
  <2>1. i \in Unmerged(alias) /\ j \in Unmerged(alias)
    BY DEF Written, Unmerged
  <2>2. ASSUME NEW x \in Pos PROVE Key(alias, x) = [label |-> ent[x].label, refs |-> out[x]]
    <3>1. \A k \in DOMAIN ent[x].refs : ent[x].refs[k] \in Pos
      BY DEF Entity
    <3>2. \A k \in DOMAIN ent[x].refs :
            Resolve(alias, ent[x].refs[k]) = alias[ent[x].refs[k]]
      BY <3>1 DEF Forest, Resolve
    <3> QED
      BY <3>2 DEF Written, Key, KeyOf
  <2>3. Key(alias, i) = Key(alias, j)
    BY <2>2
  <2> QED
    BY <2>1, <2>3 DEF Distinct
<1> QED
  BY <1>1, AllInvariants, PTL

-----------------------------------------------------------------------------
(* Geometric interning, for every number of supports and every set of      *)
(* frames, users and loci.                                                 *)

\* What a file looks like: only users refer to supports, each to one.
File ==
    /\ line \in SUBSET Geo!Support
    /\ trims \in SUBSET Users
    /\ near \in [Users -> SUBSET Geo!Support]
    /\ source \in [Geo!Node -> SUBSET (Geo!Support \cup Frames)]
    /\ \A n \in Geo!Support \cup Frames : source[n] \subseteq Frames
    /\ \A u \in Users : \E s \in Geo!Support : source[u] = {s}

\* Why a support may have another one in its place.
Merges ==
    \A s \in Geo!Support : merged[s] # s =>
        /\ Geo!SameKey(s, merged[s])
        /\ \A u \in Users : s \in source[u] =>
              /\ u \in trims
              /\ s \in line => merged[s] \in near[u]

\* The references before and after the rewriting.
Redirected ==
    [n \in Geo!Node |-> {IF m \in Geo!Support THEN merged[m] ELSE m : m \in source[n]}]
Rewritten ==
    /\ step = "scan" => refs = source
    /\ step # "scan" => refs = Redirected

\* What the passes of the collection keep true.
Collection ==
    /\ step = "scan" => delete = {} /\ todo = {}
    /\ step # "done" => survivors = Geo!Node
    /\ step = "done" => survivors = Geo!Node \ delete
    /\ todo \subseteq Geo!Candidates
    /\ step # "scan" => Geo!Duplicates \subseteq delete
    /\ delete \subseteq Geo!Support \cup Frames
    /\ \A n \in delete :
          n \in Geo!Duplicates \/ Geo!Store!ParentsIn(Geo!Node, refs, n) \subseteq delete
    /\ \A S \in SUBSET Geo!Node :
          (/\ Geo!Duplicates \subseteq S
           /\ Geo!Store!DetachClosed(Geo!Node, refs, Geo!Candidates, S))
              => delete \subseteq S
    /\ (step = "scan") => ~again
    /\ (step = "collect" /\ ~again) =>
          \A n \in Geo!Candidates \ todo :
              Geo!Store!ParentsIn(Geo!Node, refs, n) \subseteq delete => n \in delete
    /\ step = "done" => Geo!Store!DetachClosed(Geo!Node, refs, Geo!Candidates, delete)

\* The users in the file, and what the scan asks about them while everything is live.
UsersOf(s) == {p \in Geo!Node : s \in source[p]}
Trimmed(s) == UsersOf(s) # {} /\ UsersOf(s) \subseteq trims
MayTake(s, t) == s \in line => \A u \in UsersOf(s) : t \in near[u]

\* What the scan decided of the supports behind it: the first of a key stands for itself,
\* a duplicate has one of the firsts, the others were not to be merged or were refused
\* by the first of their key, which is before them.
Scanned ==
    /\ \A s \in seen : s < next /\ merged[s] = s /\ Trimmed(s)
    /\ \A s, t \in seen : Geo!SameKey(s, t) => s = t
    /\ \A s \in Geo!Support : merged[s] # s => s < next /\ merged[s] \in seen /\ Trimmed(s)
    /\ \A s \in Geo!Support \ seen : (s < next /\ merged[s] = s /\ Trimmed(s)) =>
          \E t \in seen : t < s /\ Geo!SameKey(s, t) /\ ~MayTake(s, t)
    /\ step # "scan" => next = Supports + 1

SupportsInv == Geo!TypeOK /\ File /\ Merges /\ Rewritten /\ Collection /\ Scanned

-----------------------------------------------------------------------------
\* A duplicate's closure holds duplicates and frames.
LEMMA CandidatesAreData ==
    Geo!TypeOK /\ File => /\ Geo!Candidates \subseteq Geo!Support \cup Frames
                          /\ Geo!Candidates \subseteq Geo!Node
                          /\ Geo!Duplicates \subseteq Geo!Support
                          /\ (Geo!Duplicates = {} => Geo!Candidates = {})
<1> SUFFICES ASSUME Geo!TypeOK, File
             PROVE /\ Geo!Candidates \subseteq Geo!Support \cup Frames
                   /\ Geo!Candidates \subseteq Geo!Node
                   /\ Geo!Duplicates \subseteq Geo!Support
                   /\ (Geo!Duplicates = {} => Geo!Candidates = {})
  OBVIOUS
<1>1. Geo!Duplicates \subseteq Geo!Support
  BY DEF Geo!Duplicates
<1>2. Geo!Candidates \subseteq Geo!Node
  BY DEF Geo!Candidates, Geo!Store!DescendantsOf
<1>3. Geo!Candidates \subseteq Geo!Support \cup Frames
  <2>1. Geo!Support \cup Frames \in SUBSET Geo!Node
    BY DEF Geo!Node
  <2>2. Geo!Store!DownClosed(Geo!Node, source, Geo!Support \cup Frames)
    BY DEF File, Geo!Store!DownClosed
  <2> QED
    BY <1>1, <2>1, <2>2 DEF Geo!Candidates, Geo!Store!DescendantsOf
<1>4. Geo!Duplicates = {} => Geo!Candidates = {}
  <2>1. {} \in SUBSET Geo!Node /\ Geo!Store!DownClosed(Geo!Node, source, {})
    BY DEF Geo!Store!DownClosed
  <2> QED
    BY <2>1 DEF Geo!Candidates, Geo!Store!DescendantsOf
<1> QED
  BY <1>1, <1>2, <1>3, <1>4

\* Each step keeps the types.
LEMMA SupportsTypeStep ==
    Geo!SupportsAssumption /\ Geo!TypeOK /\ File /\ Rewritten /\ [Geo!Next]_(Geo!vars)
        => Geo!TypeOK'
<1> SUFFICES ASSUME Geo!SupportsAssumption, Geo!TypeOK, File, Rewritten, [Geo!Next]_(Geo!vars)
             PROVE  Geo!TypeOK'
  OBVIOUS
<1> USE DEF Geo!SupportsAssumption, Geo!TypeOK
<1>1. ASSUME NEW s \in Geo!Support, Geo!Scan(s) PROVE Geo!TypeOK'
  <2>1. Geo!Firsts(s) \subseteq Geo!Support
    BY DEF Geo!Firsts
  <2>2. next' \in 1 .. Supports + 1
    BY <1>1 DEF Geo!Scan, Geo!Support
  <2>3. seen' \in SUBSET Geo!Support /\ merged' \in [Geo!Support -> Geo!Support]
    BY <1>1, <2>1 DEF Geo!Scan
  <2> QED
    BY <1>1, <2>2, <2>3 DEF Geo!Scan
<1>2. CASE Geo!Rewrite
  <2>1. Geo!Duplicates \subseteq Geo!Node /\ Geo!Candidates \subseteq Geo!Node
    BY CandidatesAreData DEF Geo!Node
  <2>2. refs' = refs \/ refs' \in [Geo!Node -> SUBSET Geo!Node]
    <3>1. \A n \in Geo!Node : \A m \in refs[n] :
            (IF m \in Geo!Support THEN merged[m] ELSE m) \in Geo!Node
      BY DEF Geo!Node
    <3> QED
      BY <1>2, <3>1 DEF Geo!Rewrite
  <2> QED
    BY <1>2, <2>1, <2>2 DEF Geo!Rewrite, Geo!input
<1>3. ASSUME NEW n \in Geo!Node, Geo!Visit(n) PROVE Geo!TypeOK'
  BY <1>3 DEF Geo!Visit, Geo!input
<1>4. CASE Geo!NextPass
  BY <1>4, CandidatesAreData DEF Geo!NextPass, Geo!input
<1>5. CASE Geo!Sweep
  BY <1>5 DEF Geo!Sweep, Geo!input
<1>6. CASE UNCHANGED Geo!vars
  BY <1>6 DEF Geo!vars, Geo!input
<1> QED
  BY <1>1, <1>2, <1>3, <1>4, <1>5, <1>6 DEF Geo!Next

\* The input never changes.
LEMMA FileStep == File /\ [Geo!Next]_(Geo!vars) => File' /\ UNCHANGED Geo!input
<1> SUFFICES ASSUME File, [Geo!Next]_(Geo!vars) PROVE File' /\ UNCHANGED Geo!input
  OBVIOUS
<1>1. UNCHANGED Geo!input
  BY DEF Geo!Next, Geo!Scan, Geo!Rewrite, Geo!Visit, Geo!NextPass, Geo!Sweep, Geo!vars,
     Geo!input
<1> QED
  BY <1>1 DEF Geo!input, File

\* Only the scan makes an alias, and it has looked at every user of the duplicate.
LEMMA MergesStep ==
    Geo!TypeOK /\ File /\ Merges /\ Rewritten /\ Collection /\ [Geo!Next]_(Geo!vars)
        => Merges'
<1> SUFFICES ASSUME Geo!TypeOK, File, Merges, Rewritten, Collection, [Geo!Next]_(Geo!vars)
             PROVE  Merges'
  OBVIOUS
<1>1. UNCHANGED Geo!input
  BY FileStep
<1>2. ASSUME NEW s \in Geo!Support, Geo!Scan(s) PROVE Merges'
  <2>1. CASE merged' = merged
    BY <1>1, <2>1 DEF Merges, Geo!input, Geo!SameKey
  <2>2. CASE merged' # merged
    <3>1. PICK t \in Geo!Firsts(s) :
            merged' = [merged EXCEPT ![s] = t] /\ Geo!AliasIsSafe(refs, s, t)
      BY <1>2, <2>2 DEF Geo!Scan
    <3>2. refs = source /\ survivors = Geo!Node /\ Geo!SafeParents(refs, s)
      BY <1>2, <2>2 DEF Geo!Scan, Rewritten, Collection
    <3>3. Geo!SameKey(s, t) /\ t \in Geo!Support
      BY <3>1 DEF Geo!Firsts, Geo!TypeOK
    <3>4. \A u \in Users : s \in source[u] => u \in Geo!Parents(refs, s)
      BY <3>2 DEF Geo!Parents, Geo!Node
    <3>5. \A u \in Users : s \in source[u] => u \in trims /\ (s \in line => t \in near[u])
      BY <3>1, <3>2, <3>4 DEF Geo!SafeParents, Geo!AliasIsSafe
    <3>6. merged'[s] = t /\ \A x \in Geo!Support \ {s} : merged'[x] = merged[x]
      BY <3>1 DEF Geo!TypeOK
    <3> QED
      BY <1>1, <3>3, <3>5, <3>6 DEF Merges, Geo!input, Geo!SameKey
  <2> QED
    BY <2>1, <2>2
<1>3. CASE merged' = merged
  BY <1>1, <1>3 DEF Merges, Geo!input, Geo!SameKey
<1> QED
  BY <1>2, <1>3 DEF Geo!Next, Geo!Rewrite, Geo!Visit, Geo!NextPass, Geo!Sweep, Geo!vars

\* The references change once, from those of the file to the redirected ones.
LEMMA RewrittenStep ==
    Geo!TypeOK /\ File /\ Rewritten /\ [Geo!Next]_(Geo!vars) => Rewritten'
<1> SUFFICES ASSUME Geo!TypeOK, File, Rewritten, [Geo!Next]_(Geo!vars) PROVE Rewritten'
  OBVIOUS
<1>1. UNCHANGED Geo!input
  BY FileStep
<1>2. ASSUME NEW s \in Geo!Support, Geo!Scan(s) PROVE Rewritten'
  BY <1>1, <1>2 DEF Geo!Scan, Rewritten, Geo!input
<1>3. CASE Geo!Rewrite
  <2>1. refs = source /\ merged' = merged /\ source' = source /\ step' # "scan"
    BY <1>1, <1>3 DEF Geo!Rewrite, Rewritten, Geo!input
  <2>2. CASE Geo!Duplicates = {}
    <3>1. refs' = source
      BY <1>3, <2>1, <2>2 DEF Geo!Rewrite
    <3>2. \A m \in Geo!Support : merged[m] = m
      BY <2>2 DEF Geo!Duplicates
    <3>3. \A n \in Geo!Node :
            {IF m \in Geo!Support THEN merged[m] ELSE m : m \in source[n]} = source[n]
      BY <3>2
    <3>4. source = Redirected
      BY <3>3 DEF Redirected, File
    <3> QED
      BY <2>1, <3>1, <3>4 DEF Rewritten, Redirected
  <2>3. CASE Geo!Duplicates # {}
    BY <1>3, <2>1, <2>3 DEF Geo!Rewrite, Rewritten, Redirected
  <2> QED
    BY <2>2, <2>3
<1>4. CASE refs' = refs /\ merged' = merged /\ (step' = "scan" <=> step = "scan")
  BY <1>1, <1>4 DEF Rewritten, Redirected, Geo!input
<1>5. ASSUME NEW n \in Geo!Node, Geo!Visit(n) PROVE Rewritten'
  BY <1>4, <1>5 DEF Geo!Visit
<1>6. CASE Geo!NextPass
  BY <1>4, <1>6 DEF Geo!NextPass
<1>7. CASE Geo!Sweep
  BY <1>4, <1>7 DEF Geo!Sweep
<1>8. CASE UNCHANGED Geo!vars
  BY <1>4, <1>8 DEF Geo!vars
<1> QED
  BY <1>2, <1>3, <1>5, <1>6, <1>7, <1>8 DEF Geo!Next

-----------------------------------------------------------------------------
\* The collection before the rewriting, and at it.
LEMMA CollectionStarts ==
    Geo!TypeOK /\ File /\ Collection /\ (Geo!Rewrite \/ \E s \in Geo!Support : Geo!Scan(s))
        => Collection'
<1> SUFFICES ASSUME Geo!TypeOK, File, Collection,
                    Geo!Rewrite \/ \E s \in Geo!Support : Geo!Scan(s)
             PROVE Collection'
  OBVIOUS
<1>1. CASE \E s \in Geo!Support : Geo!Scan(s)
  <2>1. /\ step = "scan" /\ step' = "scan" /\ delete' = delete /\ todo' = todo /\ todo = {}
        /\ again' = again /\ survivors' = survivors
    BY <1>1 DEF Geo!Scan, Collection
  <2> QED
    BY <2>1 DEF Collection
<1>2. CASE Geo!Rewrite
  <2>1. /\ step = "scan" /\ delete = {}
        /\ survivors = Geo!Node /\ survivors' = Geo!Node /\ ~again /\ ~again'
        /\ UNCHANGED <<merged, source, trims>>
    BY <1>2 DEF Geo!Rewrite, Collection, Geo!input
  <2>2. Geo!Duplicates' = Geo!Duplicates /\ Geo!Candidates' = Geo!Candidates
    BY <2>1 DEF Geo!Duplicates, Geo!Candidates, Geo!Store!DescendantsOf,
       Geo!Store!DownClosed
  <2>3. CASE Geo!Duplicates = {}
    <3>1. Geo!Candidates = {}
      BY <2>3, CandidatesAreData
    <3>2. step' = "done" /\ delete' = {} /\ todo' = {}
      BY <1>2, <2>1, <2>3 DEF Geo!Rewrite, Collection
    <3> QED
      BY <2>1, <2>2, <2>3, <3>1, <3>2 DEF Collection, Geo!Store!DetachClosed
  <2>4. CASE Geo!Duplicates # {}
    <3>1. step' = "collect" /\ delete' = Geo!Duplicates /\ todo' = Geo!Candidates
      BY <1>2, <2>4 DEF Geo!Rewrite
    <3>2. Geo!Duplicates \subseteq Geo!Support
      BY CandidatesAreData
    <3>3. \A n \in Geo!Candidates' \ todo' : FALSE
      BY <2>2, <3>1
    <3> QED
      BY <2>1, <2>2, <3>1, <3>2, <3>3 DEF Collection
  <2> QED
    BY <2>3, <2>4
<1> QED
  BY <1>1, <1>2

\* One candidate of a pass: it goes only if every closed set holds it.
LEMMA CollectionVisits ==
    ASSUME Geo!TypeOK, File, Collection, NEW n \in Geo!Node, Geo!Visit(n)
    PROVE  Collection'
<1>1. /\ step = "collect" /\ step' = "collect" /\ n \in todo /\ todo' = todo \ {n}
      /\ UNCHANGED <<merged, source, refs, survivors>>
  BY DEF Geo!Visit, Geo!input
<1>2. Geo!Duplicates' = Geo!Duplicates /\ Geo!Candidates' = Geo!Candidates
  BY <1>1 DEF Geo!Duplicates, Geo!Candidates, Geo!Store!DescendantsOf, Geo!Store!DownClosed
<1>3. survivors = Geo!Node /\ n \in Geo!Candidates /\ n \in Geo!Support \cup Frames
  BY <1>1, CandidatesAreData DEF Collection
<1>4. Geo!Parents(refs, n) = Geo!Store!ParentsIn(Geo!Node, refs, n)
  BY <1>3 DEF Geo!Parents, Geo!Store!ParentsIn
<1>5. CASE n \notin delete /\ Geo!Parents(refs, n) \subseteq delete
  <2>1. delete' = delete \cup {n} /\ again' = TRUE
    BY <1>5 DEF Geo!Visit
  <2>2. \A m \in delete' :
            m \in Geo!Duplicates \/ Geo!Store!ParentsIn(Geo!Node, refs, m) \subseteq delete'
    BY <1>4, <1>5, <2>1 DEF Collection
  <2>3. \A S \in SUBSET Geo!Node :
            (/\ Geo!Duplicates \subseteq S
           /\ Geo!Store!DetachClosed(Geo!Node, refs, Geo!Candidates, S))
                => delete' \subseteq S
    BY <1>3, <1>4, <1>5, <2>1 DEF Collection, Geo!Store!DetachClosed
  <2> QED
    BY <1>1, <1>2, <1>3, <2>1, <2>2, <2>3 DEF Collection, Geo!Store!ParentsIn,
       Geo!Store!DetachClosed
<1>6. CASE ~(n \notin delete /\ Geo!Parents(refs, n) \subseteq delete)
  <2>1. delete' = delete /\ again' = again
    BY <1>6 DEF Geo!Visit
  <2>2. Geo!Store!ParentsIn(Geo!Node, refs, n) \subseteq delete => n \in delete
    BY <1>4, <1>6
  <2> QED
    BY <1>1, <1>2, <2>1, <2>2 DEF Collection, Geo!Store!ParentsIn, Geo!Store!DetachClosed
<1> QED
  BY <1>5, <1>6

\* The other steps only start a pass or end the loop.
LEMMA CollectionStep ==
    Geo!TypeOK /\ File /\ Collection /\ [Geo!Next]_(Geo!vars) => Collection'
<1> SUFFICES ASSUME Geo!TypeOK, File, Collection, [Geo!Next]_(Geo!vars) PROVE Collection'
  OBVIOUS
<1>1. CASE Geo!NextPass
  <2>1. /\ step = "collect" /\ step' = step /\ todo' = Geo!Candidates /\ ~again'
        /\ UNCHANGED <<merged, source, refs, survivors, delete>>
    BY <1>1 DEF Geo!NextPass, Geo!input
  <2>2. Geo!Duplicates' = Geo!Duplicates /\ Geo!Candidates' = Geo!Candidates
    BY <2>1 DEF Geo!Duplicates, Geo!Candidates, Geo!Store!DescendantsOf,
       Geo!Store!DownClosed
  <2> QED
    BY <2>1, <2>2 DEF Collection, Geo!Store!ParentsIn, Geo!Store!DetachClosed
<1>2. CASE Geo!Sweep
  <2>1. /\ step = "collect" /\ step' = "done" /\ todo = {} /\ ~again
        /\ survivors' = survivors \ delete
        /\ UNCHANGED <<merged, source, refs, delete, todo, again>>
    BY <1>2 DEF Geo!Sweep, Geo!input
  <2>2. Geo!Duplicates' = Geo!Duplicates /\ Geo!Candidates' = Geo!Candidates
    BY <2>1 DEF Geo!Duplicates, Geo!Candidates, Geo!Store!DescendantsOf,
       Geo!Store!DownClosed
  <2>3. Geo!Store!DetachClosed(Geo!Node, refs, Geo!Candidates, delete)
    BY <2>1 DEF Collection, Geo!Store!DetachClosed
  <2> QED
    BY <2>1, <2>2, <2>3 DEF Collection, Geo!Store!ParentsIn, Geo!Store!DetachClosed
<1>3. CASE UNCHANGED Geo!vars
  <2>1. UNCHANGED <<merged, source, refs, survivors, delete, todo, again, step>>
    BY <1>3 DEF Geo!vars
  <2>2. Geo!Duplicates' = Geo!Duplicates /\ Geo!Candidates' = Geo!Candidates
    BY <2>1 DEF Geo!Duplicates, Geo!Candidates, Geo!Store!DescendantsOf,
       Geo!Store!DownClosed
  <2> QED
    BY <2>1, <2>2 DEF Collection, Geo!Store!ParentsIn, Geo!Store!DetachClosed
<1> QED
  BY <1>1, <1>2, <1>3, CollectionStarts, CollectionVisits DEF Geo!Next

-----------------------------------------------------------------------------
\* While the scan runs, what it reads are the references of the file.
LEMMA ScanReadsTheFile ==
    ASSUME Rewritten, Collection, step = "scan",
           NEW s \in Geo!Support, NEW t \in Geo!Support
    PROVE  /\ Geo!SafeParents(refs, s) <=> Trimmed(s)
           /\ Geo!AliasIsSafe(refs, s, t) <=> MayTake(s, t)
<1>1. Geo!Parents(refs, s) = UsersOf(s)
  BY DEF Rewritten, Collection, Geo!Parents, UsersOf
<1> QED
  BY <1>1 DEF Geo!SafeParents, Trimmed, Geo!AliasIsSafe, MayTake

\* One support of the scan: the firsts stay apart, and who is refused is refused by one.
LEMMA ScanDecides ==
    ASSUME Geo!SupportsAssumption, Geo!TypeOK, File, Rewritten, Collection, Scanned,
           NEW s \in Geo!Support, Geo!Scan(s)
    PROVE  Scanned'
<1> USE DEF Geo!TypeOK
<1>1. /\ step = "scan" /\ step' = "scan" /\ next = s /\ next' = s + 1
      /\ UNCHANGED <<line, locus, trims, near, source>>
  BY DEF Geo!Scan, Geo!input
<1>2. /\ \A x : UsersOf(x)' = UsersOf(x)
      /\ \A x : Trimmed(x)' <=> Trimmed(x)
      /\ \A x, y : Geo!SameKey(x, y)' <=> Geo!SameKey(x, y)
      /\ \A x, y : MayTake(x, y)' <=> MayTake(x, y)
  BY <1>1 DEF UsersOf, Trimmed, Geo!SameKey, MayTake
<1>3. /\ s \in Nat /\ \A x \in Geo!Support : x \in Nat
      /\ \A x \in Geo!Support : x < s + 1 <=> x < s \/ x = s
  BY DEF Geo!Support, Geo!SupportsAssumption
<1>4. s \notin seen /\ merged[s] = s
  BY <1>1, <1>3 DEF Scanned
<1>5. CASE ~Trimmed(s)
  <2>1. seen' = seen /\ merged' = merged
    BY <1>1, <1>5, ScanReadsTheFile DEF Geo!Scan
  <2> HIDE DEF Geo!TypeOK
  <2>2. seen \subseteq Geo!Support
    BY DEF Geo!TypeOK
  <2> QED
    BY <1>1, <1>2, <1>3, <1>5, <2>1, <2>2 DEF Scanned
<1>6. CASE Trimmed(s) /\ Geo!Firsts(s) = {} /\ seen' = seen \cup {s} /\ merged' = merged
  <2>1. \A x \in seen : ~Geo!SameKey(s, x) /\ ~Geo!SameKey(x, s)
    BY <1>6 DEF Geo!Firsts, Geo!SameKey
  <2>2. seen \subseteq Geo!Support
    OBVIOUS
  <2>3. \A x \in seen' : x < next' /\ merged'[x] = x /\ Trimmed(x)'
    BY <1>1, <1>2, <1>3, <1>4, <1>6, <2>2 DEF Scanned
  <2>4. \A x, y \in seen' : Geo!SameKey(x, y)' => x = y
    BY <1>2, <1>6, <2>1 DEF Scanned
  <2>5. \A x \in Geo!Support : merged'[x] # x =>
          x < next' /\ merged'[x] \in seen' /\ Trimmed(x)'
    BY <1>1, <1>2, <1>3, <1>6 DEF Scanned
  <2>6. \A x \in Geo!Support \ seen' : (x < next' /\ merged'[x] = x /\ Trimmed(x)') =>
            \E t \in seen' : t < x /\ Geo!SameKey(x, t)' /\ ~MayTake(x, t)'
    BY <1>1, <1>2, <1>3, <1>6 DEF Scanned
  <2> QED
    BY <1>1, <2>3, <2>4, <2>5, <2>6 DEF Scanned
<1>7. ASSUME NEW t \in Geo!Firsts(s), Trimmed(s), seen' = seen,
             merged' = IF MayTake(s, t) THEN [merged EXCEPT ![s] = t] ELSE merged
      PROVE  Scanned'
  <2>1. t \in seen /\ t \in Geo!Support /\ Geo!SameKey(s, t) /\ t < s
    BY <1>1 DEF Geo!Firsts, Scanned
  <2>2. /\ \A x \in Geo!Support \ {s} : merged'[x] = merged[x]
        /\ merged'[s] = IF MayTake(s, t) THEN t ELSE s
    BY <1>4, <1>7
  <2>3. seen \subseteq Geo!Support
    OBVIOUS
  <2>4. \A x \in seen' : x < next' /\ merged'[x] = x /\ Trimmed(x)'
    BY <1>1, <1>2, <1>3, <1>4, <1>7, <2>2, <2>3 DEF Scanned
  <2>5. \A x, y \in seen' : Geo!SameKey(x, y)' => x = y
    BY <1>2, <1>7 DEF Scanned
  <2>6. \A x \in Geo!Support : merged'[x] # x =>
          x < next' /\ merged'[x] \in seen' /\ Trimmed(x)'
    BY <1>1, <1>2, <1>3, <1>7, <2>1, <2>2 DEF Scanned
  <2>7. ASSUME NEW x \in Geo!Support \ seen', x < next', merged'[x] = x, Trimmed(x)'
        PROVE  \E y \in seen' : y < x /\ Geo!SameKey(x, y)' /\ ~MayTake(x, y)'
    <3>1. CASE x = s
      <4>1. ~MayTake(s, t)
        BY <2>1, <2>2, <2>7, <3>1, <1>3
      <4> QED
        BY <1>2, <1>7, <2>1, <3>1, <4>1
    <3>2. CASE x # s
      BY <1>1, <1>2, <1>3, <1>7, <2>2, <2>7, <3>2 DEF Scanned
    <3> QED
      BY <3>1, <3>2
  <2> QED
    BY <1>1, <2>4, <2>5, <2>6, <2>7 DEF Scanned
<1>8. CASE Trimmed(s)
  <2>1. Geo!SafeParents(refs, s)
    BY <1>1, <1>8, ScanReadsTheFile
  <2>2. CASE Geo!Firsts(s) = {} /\ seen' = seen \cup {s} /\ UNCHANGED merged
    BY <1>6, <1>8, <2>2
  <2>3. ASSUME NEW t \in Geo!Firsts(s), seen' = seen,
               merged' = IF Geo!AliasIsSafe(refs, s, t)
                         THEN [merged EXCEPT ![s] = t] ELSE merged
        PROVE  Scanned'
    <3>1. Geo!AliasIsSafe(refs, s, t) <=> MayTake(s, t)
      BY <1>1, ScanReadsTheFile DEF Geo!Firsts
    <3> QED
      BY <1>7, <1>8, <2>3, <3>1
  <2> QED
    BY <2>1, <2>2, <2>3 DEF Geo!Scan
<1> QED
  BY <1>5, <1>8

\* The other steps decide nothing about supports.
LEMMA ScannedStep ==
    Geo!SupportsAssumption /\ Geo!TypeOK /\ File /\ Rewritten /\ Collection /\ Scanned
        /\ [Geo!Next]_(Geo!vars)
        => Scanned'
<1> SUFFICES ASSUME Geo!SupportsAssumption, Geo!TypeOK, File, Rewritten, Collection, Scanned,
                    [Geo!Next]_(Geo!vars)
             PROVE  Scanned'
  OBVIOUS
<1>1. UNCHANGED <<line, locus, trims, near, source>>
  BY FileStep DEF Geo!input
<1>2. CASE UNCHANGED <<next, seen, merged>> /\ (step' # "scan" => next = Supports + 1)
  BY <1>1, <1>2 DEF Scanned, UsersOf, Trimmed, Geo!SameKey, MayTake
<1>3. CASE Geo!Rewrite
  BY <1>2, <1>3 DEF Geo!Rewrite
<1>4. ASSUME NEW n \in Geo!Node, Geo!Visit(n) PROVE Scanned'
  BY <1>2, <1>4 DEF Geo!Visit, Scanned
<1>5. CASE Geo!NextPass
  BY <1>2, <1>5 DEF Geo!NextPass, Scanned
<1>6. CASE Geo!Sweep
  BY <1>2, <1>6 DEF Geo!Sweep, Scanned
<1>7. CASE UNCHANGED Geo!vars
  BY <1>2, <1>7 DEF Geo!vars, Scanned
<1> QED
  BY <1>3, <1>4, <1>5, <1>6, <1>7, ScanDecides DEF Geo!Next

\* The invariant holds of every file, and every step keeps it.
LEMMA InvariantStarts == ASSUME Geo!SupportsAssumption, Geo!Init PROVE SupportsInv
<1>1. Geo!TypeOK
  <2>1. source \in [Geo!Node -> SUBSET Geo!Node]
    BY DEF Geo!Init, Geo!Node
  <2>2. 1 \in 1 .. Supports + 1
    BY DEF Geo!SupportsAssumption
  <2>3. [s \in Geo!Support |-> s] \in [Geo!Support -> Geo!Support]
    OBVIOUS
  <2> QED
    BY <2>1, <2>2, <2>3 DEF Geo!Init, Geo!TypeOK
<1>2. File
  BY DEF Geo!Init, File
<1>3. Merges /\ Rewritten /\ Collection
  BY DEF Geo!Init, Merges, Rewritten, Collection
<1>4. Scanned
  <2>1. \A s \in Geo!Support : merged[s] = s /\ ~(s < next)
    BY DEF Geo!Init, Geo!Support, Geo!SupportsAssumption
  <2> QED
    BY <2>1 DEF Geo!Init, Scanned
<1> QED
  BY <1>1, <1>2, <1>3, <1>4 DEF SupportsInv

\* Each action keeps the invariant.
LEMMA InvariantStep ==
    Geo!SupportsAssumption /\ SupportsInv /\ [Geo!Next]_(Geo!vars) => SupportsInv'
BY SupportsTypeStep, FileStep, MergesStep, RewrittenStep, CollectionStep, ScannedStep
   DEF SupportsInv

\* The inductive invariant.
LEMMA SupportsInductive == ASSUME Geo!SupportsAssumption PROVE Geo!Spec => []SupportsInv
BY InvariantStarts, InvariantStep, PTL DEF Geo!Spec

\* Every variable of the pass keeps its type.
THEOREM SupportsTyped ==
    ASSUME Geo!SupportsAssumption
    PROVE  Geo!Spec => []Geo!TypeOK
<1>1. SupportsInv => Geo!TypeOK
  BY DEF SupportsInv
<1> QED
  BY <1>1, SupportsInductive, PTL

\* What a user refers to: what it had, or the first of it.
LEMMA UsersSee ==
    ASSUME SupportsInv, NEW u \in Users
    PROVE  \E s \in Geo!Support :
              source[u] = {s} /\ (refs[u] = {s} \/ refs[u] = {merged[s]})
<1>1. PICK s \in Geo!Support : source[u] = {s}
  BY DEF SupportsInv, File
<1>2. u \in Geo!Node
  BY DEF Geo!Node
<1>3. CASE refs = source
  BY <1>1, <1>3
<1>4. CASE refs = Redirected
  BY <1>1, <1>2, <1>4 DEF Redirected
<1> QED
  BY <1>1, <1>3, <1>4 DEF SupportsInv, Rewritten

\* What a user sees is what the scan allowed.
LEMMA KeepsGeometry ==
    ASSUME Geo!SupportsAssumption, SupportsInv
    PROVE  Geo!GeometryIsKept
<1> SUFFICES ASSUME NEW u \in Users, NEW s \in source[u], NEW t \in refs[u]
             PROVE /\ Geo!SameKey(s, t)
                   /\ s # t /\ s \in line => t \in near[u]
  BY DEF Geo!GeometryIsKept
<1>1. s \in Geo!Support /\ (t = s \/ t = merged[s])
  BY UsersSee
<1>2. CASE t = s
  BY <1>2 DEF Geo!SameKey
<1>3. CASE t = merged[s] /\ t # s
  BY <1>1, <1>3 DEF SupportsInv, Merges
<1> QED
  BY <1>1, <1>2, <1>3

\* Merging changes no geometry: for every file, every user keeps the locus and the kind of
\* its support, and no edge gets a line with a remote origin ("safe roles").
THEOREM GeometryKept ==
    ASSUME Geo!SupportsAssumption
    PROVE  Geo!Spec => []Geo!GeometryIsKept
BY KeepsGeometry, SupportsInductive, PTL

\* A support that is read for its parameters is no duplicate, and its user holds it.
LEMMA KeepsParameters ==
    ASSUME Geo!SupportsAssumption, SupportsInv
    PROVE  Geo!ParameterUsersKeepTheirSupport
<1> SUFFICES ASSUME NEW u \in Users, u \notin trims
             PROVE refs[u] = source[u] /\ source[u] \subseteq survivors
  BY DEF Geo!ParameterUsersKeepTheirSupport
<1>1. PICK s \in Geo!Support : source[u] = {s} /\ (refs[u] = {s} \/ refs[u] = {merged[s]})
  BY UsersSee
<1>2. merged[s] = s
  BY <1>1 DEF SupportsInv, Merges
<1>3. u \in Geo!Node /\ u \notin Geo!Support \cup Frames /\ s \in Geo!Node
  BY DEF Geo!SupportsAssumption, Geo!Node
<1>4. s \notin delete
  <2>1. u \notin delete /\ u \in Geo!Store!ParentsIn(Geo!Node, refs, s)
    BY <1>1, <1>2, <1>3 DEF SupportsInv, Collection, Geo!Store!ParentsIn
  <2>2. s \notin Geo!Duplicates
    BY <1>2 DEF Geo!Duplicates
  <2> QED
    BY <2>1, <2>2 DEF SupportsInv, Collection
<1>5. s \in survivors
  BY <1>3, <1>4 DEF SupportsInv, Geo!TypeOK, Collection
<1> QED
  BY <1>1, <1>2, <1>5

\* No file and no order of the collection takes its support from a user that reads the
\* support's parameters.
THEOREM ParametersKept ==
    ASSUME Geo!SupportsAssumption
    PROVE  Geo!Spec => []Geo!ParameterUsersKeepTheirSupport
BY KeepsParameters, SupportsInductive, PTL

\* When the loop ends its set is closed, and it is in every closed set.
LEMMA CollectsExactly ==
    ASSUME Geo!SupportsAssumption, SupportsInv
    PROVE  Geo!CollectsWhatIsDetached
<1> SUFFICES ASSUME step = "done"
             PROVE  survivors = Geo!Node
                        \ Geo!Store!Detached(Geo!Node, refs, Geo!Candidates, Geo!Duplicates)
  BY DEF Geo!CollectsWhatIsDetached, Geo!Candidates
<1>1. /\ survivors = Geo!Node \ delete
      /\ Geo!Duplicates \subseteq delete /\ delete \in SUBSET Geo!Node
      /\ Geo!Store!DetachClosed(Geo!Node, refs, Geo!Candidates, delete)
  BY DEF SupportsInv, Geo!TypeOK, Collection
<1>2. delete \subseteq Geo!Store!Detached(Geo!Node, refs, Geo!Candidates, Geo!Duplicates)
  BY <1>1 DEF SupportsInv, Collection, Geo!Store!Detached
<1>3. Geo!Store!Detached(Geo!Node, refs, Geo!Candidates, Geo!Duplicates) \subseteq delete
  BY <1>1 DEF Geo!Store!Detached
<1> QED
  BY <1>1, <1>2, <1>3

\* The collection removes the duplicates and what is detached below them, exactly,
\* whatever order it visits the candidates in.
THEOREM CollectsDetached ==
    ASSUME Geo!SupportsAssumption
    PROVE  Geo!Spec => []Geo!CollectsWhatIsDetached
BY CollectsExactly, SupportsInductive, PTL

-----------------------------------------------------------------------------
\* What refers to a support in the end are its users in the file and the users of the
\* duplicates that have it; no user is ever collected.
LEMMA UsersInTheEnd ==
    ASSUME Geo!SupportsAssumption, SupportsInv, step = "done",
           NEW s \in Geo!Support, merged[s] = s
    PROVE  /\ \A u \in UsersOf(s) : u \in Users /\ u \in Geo!Parents(refs, s)
           /\ \A p \in Geo!Parents(refs, s) :
                 p \in Users /\ \E m \in Geo!Support : p \in UsersOf(m) /\ merged[m] = s
<1> USE DEF SupportsInv
<1>1. /\ s \notin Frames
      /\ \A u \in Users : u \in Geo!Node /\ u \notin Geo!Support \cup Frames
      /\ \A n \in Geo!Node : n \in Users \/ n \in Geo!Support \cup Frames
  BY DEF Geo!SupportsAssumption, Geo!Node
<1>2. ASSUME NEW u \in UsersOf(s) PROVE u \in Users /\ u \in Geo!Parents(refs, s)
  <2>1. u \in Users /\ s \in source[u]
    BY <1>1 DEF UsersOf, File
  <2>2. refs[u] = {s}
    BY <2>1, UsersSee
  <2>3. u \in survivors
    BY <1>1, <2>1 DEF Collection
  <2> QED
    BY <2>1, <2>2, <2>3 DEF Geo!Parents
<1>3. ASSUME NEW p \in Geo!Parents(refs, s)
      PROVE  p \in Users /\ \E m \in Geo!Support : p \in UsersOf(m) /\ merged[m] = s
  <2>1. p \in Geo!Node /\ s \in refs[p]
    BY DEF Geo!Parents, Geo!TypeOK
  <2>2. p \in Users
    <3>1. ASSUME p \in Geo!Support \cup Frames PROVE FALSE
      <4>1. source[p] \subseteq Frames
        BY <3>1 DEF File
      <4>2. refs[p] = source[p] \/ refs[p] = Redirected[p]
        BY DEF Rewritten
      <4>3. \A x \in source[p] : x \notin Geo!Support
        BY <4>1 DEF Geo!SupportsAssumption
      <4>4. Redirected[p] = source[p]
        BY <2>1, <4>3 DEF Redirected
      <4> QED
        BY <2>1, <4>1, <4>2, <4>4, <1>1
    <3> QED
      BY <1>1, <2>1, <3>1
  <2>3. PICK m \in Geo!Support : source[p] = {m} /\ (refs[p] = {m} \/ refs[p] = {merged[m]})
    BY <2>2, UsersSee
  <2> QED
    BY <2>1, <2>2, <2>3 DEF UsersOf
<1> QED
  BY <1>2, <1>3

\* A support whose users trim it in the end had such users in the file, and conversely
\* the first of a key keeps them.
LEMMA TrimmedInTheEnd ==
    ASSUME Geo!SupportsAssumption, SupportsInv, step = "done",
           NEW s \in Geo!Support, merged[s] = s
    PROVE  /\ Geo!SafeParents(refs, s) => Trimmed(s)
           /\ s \in seen => s \in survivors /\ Geo!SafeParents(refs, s)
<1> USE DEF SupportsInv
<1>1. ASSUME Geo!SafeParents(refs, s) PROVE Trimmed(s)
  <2>1. UsersOf(s) \subseteq trims
    BY <1>1, UsersInTheEnd DEF Geo!SafeParents
  <2>2. PICK p \in Geo!Parents(refs, s) : TRUE
    BY <1>1 DEF Geo!SafeParents
  <2>3. PICK m \in Geo!Support : p \in UsersOf(m) /\ merged[m] = s
    BY <2>2, UsersInTheEnd
  <2>4. CASE m = s
    BY <2>1, <2>3, <2>4 DEF Trimmed
  <2>5. CASE m # s
    BY <2>3, <2>5 DEF Scanned
  <2> QED
    BY <2>4, <2>5
<1>2. ASSUME s \in seen PROVE s \in survivors /\ Geo!SafeParents(refs, s)
  <2>1. Trimmed(s)
    BY <1>2 DEF Scanned
  <2>2. PICK u \in UsersOf(s) : u \in Users /\ u \in Geo!Parents(refs, s)
    BY <2>1, UsersInTheEnd DEF Trimmed
  <2>3. s \in survivors
    <3>1. u \in Geo!Node /\ u \notin delete /\ u \in Geo!Store!ParentsIn(Geo!Node, refs, s)
      BY <2>2 DEF Geo!SupportsAssumption, Geo!Node, Collection, Geo!Parents,
         Geo!Store!ParentsIn
    <3>2. s \notin delete
      BY <3>1 DEF Collection, Geo!Duplicates
    <3> QED
      BY <3>2 DEF Collection, Geo!Node
  <2>4. \A p \in Geo!Parents(refs, s) : p \in trims
    <3> SUFFICES ASSUME NEW p \in Geo!Parents(refs, s) PROVE p \in trims
      OBVIOUS
    <3>1. PICK m \in Geo!Support : p \in UsersOf(m) /\ merged[m] = s
      BY UsersInTheEnd
    <3>2. Trimmed(m)
      BY <2>1, <3>1 DEF Scanned
    <3> QED
      BY <3>1, <3>2 DEF Trimmed
  <2> QED
    BY <2>2, <2>3, <2>4 DEF Geo!SafeParents
<1> QED
  BY <1>1, <1>2

\* Who is first in the end was first in the scan, which has answered every other support.
LEMMA RefusesAsBefore ==
    ASSUME Geo!SupportsAssumption, SupportsInv
    PROVE  Geo!SecondRunMergesNothing
<1> DEFINE Earlier(s) ==
             {t \in survivors \cap 1 .. s - 1 : Geo!SafeParents(refs, t) /\ Geo!SameKey(s, t)}
<1> SUFFICES ASSUME step = "done", NEW s \in survivors \cap Geo!Support,
                    Geo!SafeParents(refs, s),
                    Earlier(s) # {}
             PROVE  ~Geo!AliasIsSafe(refs, s, CHOOSE t \in Earlier(s) :
                                             \A x \in Earlier(s) : t <= x)
  BY DEF Geo!SecondRunMergesNothing
<1> USE DEF SupportsInv
<1>1. \A x \in Geo!Support : x \in Nat /\ x < next
  BY DEF Geo!Support, Geo!SupportsAssumption, Scanned
<1>2. ASSUME NEW x \in survivors \cap Geo!Support, Geo!SafeParents(refs, x), x \notin seen
      PROVE  \E t \in seen : t < x /\ Geo!SameKey(x, t) /\ ~MayTake(x, t)
  <2>1. merged[x] = x
    BY DEF Collection, Geo!Duplicates
  <2> QED
    BY <1>1, <1>2, <2>1, TrimmedInTheEnd DEF Scanned
<1>3. \A x \in Earlier(s) : /\ x \in survivors \cap Geo!Support /\ x < s
                            /\ Geo!SafeParents(refs, x) /\ Geo!SameKey(s, x)
  BY <1>1 DEF Geo!Support, Geo!SupportsAssumption
<1>4. seen \subseteq Geo!Support
  BY DEF Geo!TypeOK
<1> HIDE DEF Earlier
<1>5. s \notin seen
  <2> SUFFICES ASSUME s \in seen PROVE FALSE
    OBVIOUS
  <2>1. PICK x \in Earlier(s) : TRUE
    OBVIOUS
  <2>2. CASE x \in seen
    BY <1>1, <1>3, <2>2 DEF Scanned
  <2>3. CASE x \notin seen
    <3>1. PICK t \in seen : t < x /\ Geo!SameKey(x, t)
      BY <1>2, <1>3, <2>3
    <3>2. Geo!SameKey(s, t)
      BY <1>3, <3>1 DEF Geo!SameKey
    <3>3. t = s
      BY <3>2 DEF Scanned
    <3> QED
      BY <1>1, <1>3, <3>1, <3>3
  <2> QED
    BY <2>2, <2>3
<1>6. PICK t \in seen : t < s /\ Geo!SameKey(s, t) /\ ~MayTake(s, t)
  BY <1>2, <1>5
<1>7. t \in Earlier(s)
  <2>1. t \in survivors /\ Geo!SafeParents(refs, t)
    BY <1>4, TrimmedInTheEnd DEF Scanned
  <2>2. t \in 1 .. s - 1
    BY <1>1, <1>4, <1>6 DEF Geo!Support, Geo!SupportsAssumption
  <2> QED
    BY <1>6, <2>1, <2>2 DEF Earlier
<1>8. ASSUME NEW x \in Earlier(s) PROVE t <= x /\ (x <= t => x = t)
  <2>1. CASE x \in seen
    <3>1. Geo!SameKey(t, x)
      BY <1>3, <1>6 DEF Geo!SameKey
    <3> QED
      BY <1>1, <1>4, <2>1, <3>1 DEF Scanned
  <2>2. CASE x \notin seen
    <3>1. PICK y \in seen : y < x /\ Geo!SameKey(x, y)
      BY <1>2, <1>3, <2>2
    <3>2. Geo!SameKey(t, y)
      BY <1>3, <1>6, <3>1 DEF Geo!SameKey
    <3>3. t = y
      BY <3>2 DEF Scanned
    <3> QED
      BY <1>1, <1>3, <1>4, <3>1, <3>3
  <2> QED
    BY <2>1, <2>2
<1>9. (CHOOSE y \in Earlier(s) : \A x \in Earlier(s) : y <= x) = t
  <2> DEFINE c == CHOOSE y \in Earlier(s) : \A x \in Earlier(s) : y <= x
  <2>1. c \in Earlier(s) /\ \A x \in Earlier(s) : c <= x
    BY <1>7, <1>8
  <2> HIDE DEF c
  <2>2. c = t
    BY <1>7, <1>8, <2>1
  <2> QED
    BY <2>2 DEF c
<1>10. ~Geo!AliasIsSafe(refs, s, t)
  <2>1. merged[s] = s
    BY DEF Collection, Geo!Duplicates
  <2>2. s \in line /\ \E e \in UsersOf(s) : t \notin near[e]
    BY <1>6 DEF MayTake
  <2> QED
    BY <2>1, <2>2, UsersInTheEnd DEF Geo!AliasIsSafe
<1> QED
  BY <1>9, <1>10

\* For every file, interning is a fixed point: among the supports that are left, one whose
\* users trim it either is the first of its key or is refused by the first, as it was.
THEOREM SecondRunFindsNothing ==
    ASSUME Geo!SupportsAssumption
    PROVE  Geo!Spec => []Geo!SecondRunMergesNothing
BY RefusesAsBefore, SupportsInductive, PTL

-----------------------------------------------------------------------------
(* The two passes beside each other: the behaviours of MCInterning.        *)

\* A behaviour of the two passes is one of Intern.
LEMMA EitherIsIntern == EitherSpec => Spec
<1>1. EitherInit => Init
  BY DEF EitherInit
<1>2. [EitherNext]_<<vars, geometricVars>> => [Next]_vars
  BY DEF EitherNext
<1> QED
  BY <1>1, <1>2, PTL DEF EitherSpec, Spec

\* The geometric pass, if it is there.
GeometricInv == step # "absent" => SupportsInv

\* The files of MCInterning are files.
LEMMA SamplesAreFiles == GeometricInit => Geo!Init
<1> SUFFICES ASSUME GeometricInit PROVE Geo!Init
  OBVIOUS
<1> USE DEF Geo!Support, Geo!Node
<1>1. PICK place \in [Geo!Support -> {{frame1}, {frame2}}],
           use \in [Users -> Geo!Support] :
           source = [n \in Geo!Node |->
                       IF n \in Geo!Support THEN place[n]
                       ELSE IF n \in Users THEN {use[n]} ELSE Below[n]]
  BY DEF GeometricInit
<1>2. 1 \in Geo!Support /\ Supports \in Geo!Support
  <2>1. edge1 \in Users
    BY GeometricAssumption
  <2>2. use[edge1] \in Geo!Support
    BY <2>1
  <2> QED
    BY <2>2, GeometricAssumption DEF Geo!SupportsAssumption
<1>3. line \in SUBSET Geo!Support /\ trims \in SUBSET Users
  BY <1>2 DEF GeometricInit
<1>4. near \in [Users -> SUBSET Geo!Support]
  <2>1. {Geo!Support, {1}, Geo!Support \cap {2}, {}} \subseteq SUBSET Geo!Support
    BY <1>2
  <2>2. near \in [Users -> {Geo!Support, {1}, Geo!Support \cap {2}, {}}]
    <3>1. line = {} \/ near \in [Users -> {Geo!Support, {1}, Geo!Support \cap {2}, {}}]
      BY DEF GeometricInit
    <3> QED
      BY <3>1 DEF GeometricInit
  <2> QED
    BY <2>1, <2>2
<1>5. \A n \in Geo!Support \cup Frames : source[n] \in SUBSET Frames /\ n \in Geo!Node
  <2>1. \A f \in Frames : Below[f] \in SUBSET Frames
    BY GeometricAssumption DEF Below
  <2>2. \A s \in Geo!Support : place[s] \in SUBSET Frames
    BY GeometricAssumption
  <2> QED
    BY <1>1, <2>1, <2>2, GeometricAssumption DEF Geo!SupportsAssumption
<1>6. \A u \in Users : use[u] \in Geo!Support /\ source[u] = {use[u]}
  BY <1>1, GeometricAssumption DEF Geo!SupportsAssumption
<1>7. source \in [Geo!Node -> SUBSET (Geo!Support \cup Frames)]
  <2>1. \A n \in Geo!Node : source[n] \in SUBSET (Geo!Support \cup Frames)
    BY <1>5, <1>6
  <2>2. source = [n \in Geo!Node |-> source[n]]
    BY <1>1
  <2> QED
    BY <2>1, <2>2
<1>8. locus \in [Geo!Support -> Loci]
  <2>1. locus \in [Geo!Support -> {here, there}]
    BY DEF GeometricInit
  <2> QED
    BY <2>1, GeometricAssumption
<1> QED
  BY <1>3, <1>4, <1>5, <1>6, <1>7, <1>8 DEF GeometricInit, Geo!Init

\* The invariant of the geometric pass, beside the other.
LEMMA GeometricInvariant == EitherSpec => []GeometricInv
<1>1. EitherInit => GeometricInv
  <2>1. GeometricInit => SupportsInv
    BY GeometricAssumption, SamplesAreFiles, InvariantStarts
  <2>2. NoGeometry => step = "absent"
    BY DEF NoGeometry
  <2> QED
    BY <2>1, <2>2 DEF EitherInit, GeometricInv
<1>2. GeometricInv /\ [EitherNext]_<<vars, geometricVars>> => GeometricInv'
  <2> SUFFICES ASSUME GeometricInv, [EitherNext]_<<vars, geometricVars>> PROVE GeometricInv'
    OBVIOUS
  <2>1. CASE step = "absent"
    BY <2>1 DEF EitherNext, GeometricInv, geometricVars
  <2>2. CASE step # "absent"
    <3>1. Geo!Next \/ UNCHANGED Geo!vars
      BY <2>2 DEF EitherNext, geometricVars, Geo!vars
    <3>2. SupportsInv'
      BY <2>2, <3>1, GeometricAssumption, InvariantStep DEF GeometricInv
    <3> QED
      BY <3>2 DEF GeometricInv
  <2> QED
    BY <2>1, <2>2
<1> QED
  BY <1>1, <1>2, PTL DEF EitherSpec

\* Both passes keep the types of their variables.
THEOREM BothTypesCorrect == EitherSpec => []Types
<1>1. GeometricInv /\ TypeOK => Types
  BY DEF SupportsInv, GeometricInv, Types
<1> QED
  BY <1>1, EitherIsIntern, TypeCorrect, GeometricInvariant, PTL

\* Whatever the other pass is, geometric interning changes no geometry and takes no
\* support from a user that reads its parameters.
THEOREM SupportsKept == EitherSpec => []SupportsKeepTheirGeometry
<1>1. GeometricInv => SupportsKeepTheirGeometry
  BY GeometricAssumption, KeepsGeometry, KeepsParameters
     DEF GeometricInv, SupportsKeepTheirGeometry
<1> QED
  BY <1>1, GeometricInvariant, PTL

\* It collects what is detached, exactly, and a second run would find nothing to merge.
THEOREM SupportsMerged == EitherSpec => []SupportsAreMergedAndSwept
<1>1. GeometricInv => SupportsAreMergedAndSwept
  BY GeometricAssumption, CollectsExactly, RefusesAsBefore
     DEF GeometricInv, SupportsAreMergedAndSwept
<1> QED
  BY <1>1, GeometricInvariant, PTL

=============================================================================
