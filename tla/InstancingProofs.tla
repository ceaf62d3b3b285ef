--------------------------- MODULE InstancingProofs ---------------------------
(***************************************************************************)
(* Proofs about Instancing, for all files without an assembly in which     *)
(* every reference leads to what its attribute admits and every style is   *)
(* listed (InstancingAssumption), and where the assembly pass meets no     *)
(* shape representation of solids (NoAuxiliary).                           *)
(*                                                                         *)
(* The invariant says what a section is like at every step of the pass.    *)
(* Emitting: the file with its representations changed, sources, maps,     *)
(* mapped items and styles added, and nobody without a user but what is to *)
(* be collected and the new styles, which no list has yet.  Relisted: the  *)
(* lists have them.  The collection goes down from the duplicates and the  *)
(* old styles and leaves nobody without a user (DeletedIsClosed); what it  *)
(* keeps does not refer to what it takes.  Building: the representations   *)
(* still to convert have the mapped items, those converted have a root, a  *)
(* product and occurrences (Placement), and every map belongs to one or    *)
(* the other.  At the end nobody but old styles, mapped items and maps     *)
(* refers to what is deleted.                                              *)
(*                                                                         *)
(* A second run finds nothing as no representation has a family left       *)
(* (Settled): equal solids of one look became instances, and what else     *)
(* happens to the section changes the look of no face that had one.        *)
(***************************************************************************)
EXTENDS Instancing, FiniteSetTheorems, WellFoundedInduction, TLAPS

-----------------------------------------------------------------------------
(* Files, and representations without families.                            *)

\* What the files of the assembly pass are without: shape representations of solids.
NoAuxiliary ==
    "assembly" \in DOMAIN Files =>
        \A e \in Files["assembly"] : \A r \in OfKind(e, {"shape"}) : e[r].items = <<>>

\* What may have no user, at the end of a pass.
MayBeUnused(e, n) ==
    \/ n \in DOMAIN start /\ Parents(start, n) = {}
    \/ e[n].kind \in {"sdr", "use"}
    \/ e[n].kind = "brep" /\ e[n].items = <<>>

\* Two solids that belong to one family.
Alike(e, s, t) ==
    /\ s # t /\ Analyzed(e, s) /\ Analyzed(e, t)
    /\ e[s].shape = e[t].shape /\ Look(e, s) = Look(e, t) /\ Period[e[s].shape] = 4

\* A representation without a family.
Settled(e, r) ==
    \/ Cardinality(Solids(e, r)) < 3
    \/ \A s, t \in Solids(e, r) : ~ Alike(e, s, t)

AllSettled(e) == \A r \in OfKind(e, {"brep"}) : Settled(e, r)

-----------------------------------------------------------------------------
(* While the mapped items are made.                                        *)

Lists == {"presentation", "layer"}
Reps == {"brep", "shape"}
Seeds == work.duplicates \cup work.oldStyles

\* Nothing but lists and representations changes, and what is new is for instances.
Grown ==
    /\ \A n \in DOMAIN start :
          /\ n \in DOMAIN ent /\ ent[n].kind = start[n].kind
          /\ start[n].kind \notin Lists \cup Reps => ent[n] = start[n]
          /\ start[n].kind = "brep" => ent[n].source = start[n].source
          /\ start[n].kind = "shape" /\ start[n].items = <<>> => ent[n].items = <<>>
    /\ \A n \in DOMAIN ent \ DOMAIN start :
          /\ ent[n].kind \in {"brep", "map", "mapped", "style"}
          /\ ent[n].kind = "brep" => /\ ent[n].source
                                     /\ \E s \in OfKind(start, {"solid"}) : ent[n].items = <<s>>
          /\ ent[n].kind = "map" => ent[n].rep \notin DOMAIN start
          /\ ent[n].kind = "style" => ent[n].of \notin DOMAIN start
    /\ work.sources = OfKind(ent, {"brep"}) \ DOMAIN start

\* What is to be collected.
Collected ==
    /\ work.candidates \subseteq OfKind(start, {"solid", "face", "value"})
    /\ \A n \in work.candidates : Refs(start[n]) \subseteq work.candidates
    /\ work.duplicates \subseteq work.candidates \cap OfKind(start, {"solid"})
    /\ work.oldStyles = {s \in OfKind(start, {"style"}) : start[s].of \in work.candidates}
    /\ work.sources # {} => work.oldStyles # {}
    /\ work.sources = {} => work.candidates = {}

\* The members of the families, with the mapped items that take their places.
Targets ==
    \A s \in DOMAIN work.target :
        /\ s \in OfKind(start, {"solid"}) /\ work.target[s] \in OfKind(ent, {"mapped"})
        /\ s \in work.duplicates \/ \E r \in work.sources : ent[r].items = <<s>>

\* The styles of the mapped items.
NewStyles ==
    /\ work.newStyles \in Seq(OfKind(ent, {"style"}))
    /\ ToSet(work.newStyles) = OfKind(ent, {"style"}) \ DOMAIN start

\* While families are emitted: the lists are as they were, and only what is to be
\* collected and the new styles lack a user.
Emitting ==
    /\ Grown /\ Collected /\ Targets /\ NewStyles
    /\ \A n \in DOMAIN start : start[n].kind \in Lists => ent[n] = start[n]
    /\ \A n \in DOMAIN ent :
          Parents(ent, n) = {} => MayBeUnused(ent, n) \/ n \in Seeds \cup ToSet(work.newStyles)

\* When the lists have been patched nobody uses the old styles.
Relisted ==
    /\ Grown /\ Collected
    /\ \A n \in DOMAIN ent : Parents(ent, n) = {} => MayBeUnused(ent, n) \/ n \in Seeds
    /\ \A n \in work.oldStyles : Parents(ent, n) = {}

\* The families that are left of a representation: solids of one key and one look, and
\* with each of them all others.
Remaining ==
    LET solids == Solids(ent, Head(todo))
    IN  /\ todo # <<>>
        /\ \A f \in families :
              /\ f \subseteq solids /\ \E s, t \in f : s # t
              /\ \A s, t \in f : s # t => Alike(start, s, t)
              /\ \A g \in families : f # g => f \cap g = {}
        /\ Cardinality(solids) < 3
           \/ \A s, t \in solids : Alike(start, s, t) => \E f \in families : {s, t} \subseteq f

\* The representations that are done have no family left.
SettledSoFar == \A r \in OfKind(ent, {"brep"}) \ ToSet(todo) : Settled(ent, r)

\* The representations still to look at are representations of the file.
TodoReps == todo \in Seq(OfKind(start, {"brep"}))

-----------------------------------------------------------------------------
(* While the assembly is made.                                             *)

\* Maps lead to the sources, which have one solid each; nothing else shows instances
\* but the representations to convert.
Instances ==
    /\ \A m \in OfKind(ent, {"map"}) :
          /\ ent[ent[m].rep].source
          /\ \E s \in OfKind(ent, {"solid"}) : ent[ent[m].rep].items = <<s>>
    /\ \A r \in OfKind(ent, {"shape"}) : ent[r].items = <<>>
    /\ OfKind(ent, {"map", "mapped"}) \cap DOMAIN start = {}
    /\ \A r \in Sources(ent) : \E s \in OfKind(ent, {"solid"}) : ent[r].items = <<s>>

\* Before the assembly is made.
Converting ==
    /\ Instances /\ AllSettled(ent)
    /\ OfKind(ent, {"use"}) = {}
    /\ \A s \in OfKind(ent, {"style"}) : ent[s].of \in OfKind(ent, {"mapped"}) => s \notin DOMAIN start
    /\ \A n \in DOMAIN ent : Parents(ent, n) = {} => MayBeUnused(ent, n)

\* An occurrence names a product with the shape that it places, below another.
UseIsWhole(u) ==
    /\ \E d \in OfKind(ent, {"sdr"}) : ent[d].product = ent[u].child /\ ent[d].rep = ent[u].rep
    /\ \E d \in OfKind(ent, {"sdr"}) : ent[d].product = ent[u].parent /\ ent[d].rep = ent[u].within

\* The representations of todo still have their mapped items, the others none; a map is
\* defined by a product or belongs to one of todo.
Building ==
    /\ Instances /\ AllSettled(ent)
    /\ work.candidates = OfKind(ent, {"map", "mapped"})
    /\ work.oldStyles = {s \in OfKind(ent, {"style"}) : ent[s].of \in OfKind(ent, {"mapped"})}
    /\ work.oldStyles # {} /\ work.oldStyles \cap DOMAIN start = {}
    /\ work.newStyles \in Seq(OfKind(ent, {"style"})) /\ ToSet(work.newStyles) \cap work.oldStyles = {}
    /\ work.duplicates = {} /\ DOMAIN work.target = {}
    /\ todo \in Seq(OfKind(ent, {"brep"}) \ Sources(ent))
    /\ \A i, j \in DOMAIN todo : todo[i] = todo[j] => i = j
    /\ \A r \in OfKind(ent, {"brep"}) :
          ToSet(ent[r].items) \cap OfKind(ent, {"mapped"}) # {} => r \in ToSet(todo)
    /\ \A i \in DOMAIN todo : Cardinality(Definitions(ent, todo[i])) = 1
    /\ \A m \in OfKind(ent, {"map"}) :
          \/ \E d \in OfKind(ent, {"sdr"}) : ent[d].rep = ent[m].rep
          \/ \E i \in DOMAIN todo : m \in LocalMaps(ent, todo[i])
    /\ \A u \in OfKind(ent, {"use"}) : UseIsWhole(u) /\ ent[u].rep \notin ToSet(todo)
    /\ \A n \in DOMAIN ent :
          Parents(ent, n) = {} =>
             MayBeUnused(ent, n) \/ n \in work.candidates \cup ToSet(work.newStyles)

-----------------------------------------------------------------------------
(* The inductive invariant.                                                *)

\* What a first run leaves.
Finished ==
    /\ AllSettled(ent)
    /\ \A n \in DOMAIN ent : Parents(ent, n) = {} => MayBeUnused(ent, n)
    /\ mode = "assembly" =>
          /\ MappedItems(ent) = {} /\ Maps(ent) = {}
          /\ \A u \in OfKind(ent, {"use"}) : UseIsWhole(u)

\* A run over what a run has left.
Quiet ==
    /\ round = 2 /\ ent = start /\ AllSettled(ent) /\ work = Clean
    /\ step \in {"start", "next", "emit", "done"}
    /\ step \in {"next", "emit"} => todo \in Seq(OfKind(ent, {"brep"}))
    /\ step = "emit" => families = {} /\ todo # <<>>

\* The steps of a first run, and of a second one after a rollback.
Running ==
    /\ start \in Files[mode]
    /\ mode = "mapped" => round = 1
    /\ step \in {"convert", "tops"} => mode = "assembly"
    /\ step = "start" => ent = start /\ work = Clean
    /\ step = "next" => Emitting /\ TodoReps /\ SettledSoFar
    /\ step = "emit" => Emitting /\ TodoReps /\ SettledSoFar /\ Remaining
    /\ step = "lists" => Emitting /\ SettledSoFar /\ todo = <<>> /\ work.sources # {}
    /\ step = "collect" => Relisted /\ AllSettled(ent)
    /\ step = "convert" => Converting
    /\ step = "tops" => Building
    /\ step = "done" => Finished \/ (mode = "assembly" /\ ent = start)

\* The inductive invariant.
SolidInv == TypeOK /\ (Quiet \/ Running)

-----------------------------------------------------------------------------
(* Counting, order and recursion.                                          *)

\* A set of natural numbers has a least element.
LEMMA HasLeast ==
    ASSUME NEW S \in SUBSET Nat, S # {}
    PROVE  \E i \in S : \A j \in S : i <= j
<1> DEFINE R == {p \in Nat \X Nat : p[1] < p[2]}
<1>1. IsWellFoundedOn(R, Nat)
  BY NatLessThanWellFounded, Zenon DEF OpToRel
<1>2. \A a, b \in Nat : a < b => <<a, b>> \in R
  OBVIOUS
<1> HIDE DEF R
<1>3. PICK i \in S : \A j \in S : ~ (<<j, i>> \in R)
  BY <1>1, WFMin
<1>4. ASSUME NEW j \in S PROVE i <= j
  <2>1. i \in Nat /\ j \in Nat
    OBVIOUS
  <2>2. ~ (<<j, i>> \in R)
    BY <1>3
  <2>3. ~ (j < i)
    BY <1>2, <2>1, <2>2, Zenon
  <2> QED
    BY <2>1, <2>3
<1> QED
  BY <1>4

\* A set that holds a number and, up to a bound, the next of each of its members, holds
\* all numbers from the first up to the bound.
LEMMA StepByStep ==
    ASSUME NEW a \in Int, NEW b \in Int, NEW S, a \in S,
           \A k \in a .. b : k \in S /\ k < b => k + 1 \in S
    PROVE  \A k \in a .. b : k \in S
<1> DEFINE Missing == {k \in Nat : a + k <= b /\ a + k \notin S}
<1> SUFFICES ASSUME NEW k \in a .. b, k \notin S PROVE FALSE
  OBVIOUS
<1>1. k - a \in Missing
  BY SMT
<1>2. PICK m \in Missing : \A j \in Missing : m <= j
  BY <1>1, HasLeast
<1>3. m \in Nat /\ a + m <= b /\ a + m \notin S
  BY <1>2
<1>4. m # 0
  BY <1>3
<1>5. m - 1 \in Nat /\ m - 1 \notin Missing
  BY <1>2, <1>3, <1>4
<1>6. a + (m - 1) \in S
  BY <1>3, <1>5
<1> DEFINE l == a + (m - 1)
<1>7. l \in a .. b /\ l < b /\ l + 1 = a + m
  BY <1>3, <1>4
<1> QED
  BY <1>3, <1>6, <1>7

\* Every step has a result, and f is what the steps make.
Advances(a, b, S, advance) == \A k \in a .. b : \A x \in S : advance[<<k, x>>] \in S
Recursive(a, b, S, s, advance, f) ==
    /\ f \in [a .. b -> S]
    /\ f[a] = s
    /\ \A k \in a .. b : k > a => f[k] = advance[<<k, f[k - 1]>>]

\* A function that is defined step by step exists.
LEMMA Recursion ==
    ASSUME NEW a \in Int, NEW b \in Int, a <= b, NEW S, NEW s \in S, NEW advance,
           Advances(a, b, S, advance)
    PROVE  \E f : Recursive(a, b, S, s, advance, f)
<1> DEFINE Defined == {n \in a .. b : \E f : Recursive(a, n, S, s, advance, f)}
<1>1. a \in Defined
  <2> DEFINE f == [k \in a .. a |-> s]
  <2>1. Recursive(a, a, S, s, advance, f)
    BY DEF Recursive
  <2> QED
    BY <2>1
<1>2. ASSUME NEW n \in a .. b, n \in Defined, n < b PROVE n + 1 \in Defined
  <2>1. PICK f : Recursive(a, n, S, s, advance, f)
    BY <1>2
  <2> DEFINE g == [k \in a .. n + 1 |-> IF k = n + 1 THEN advance[<<k, f[k - 1]>>] ELSE f[k]]
  <2>2. n + 1 \in a .. b /\ f[n] \in S /\ advance[<<n + 1, f[n]>>] \in S
    BY <1>2, <2>1 DEF Recursive, Advances
  <2>3. \A k \in a .. n : g[k] = f[k]
    OBVIOUS
  <2>4. g[n + 1] = advance[<<n + 1, g[n]>>]
    BY <2>3
  <2>5. g \in [a .. n + 1 -> S]
    BY <2>1, <2>2 DEF Recursive
  <2>6. g[a] = s /\ \A k \in a .. n + 1 : k > a => g[k] = advance[<<k, g[k - 1]>>]
    BY <2>1, <2>3, <2>4 DEF Recursive
  <2>7. Recursive(a, n + 1, S, s, advance, g)
    BY <2>5, <2>6 DEF Recursive
  <2> QED
    BY <2>2, <2>7
<1>3. \A n \in a .. b : n \in Defined
  <2> HIDE DEF Defined
  <2> QED
    BY <1>1, <1>2, StepByStep
<1> QED
  BY <1>3 DEF Defined

\* A finite set with an order is counted by it.
Before(S, R, x) == {y \in S : <<y, x>> \in R}
IsOrder(S, R) ==
    /\ \A x, y \in S : x = y \/ <<x, y>> \in R \/ <<y, x>> \in R
    /\ \A x \in S : <<x, x>> \notin R
    /\ \A x, y, z \in S : <<x, y>> \in R /\ <<y, z>> \in R => <<x, z>> \in R
Ranked(S, R) ==
    /\ Cardinality(S) \in Nat
    /\ \A x \in S : Cardinality(Before(S, R, x)) \in 0 .. Cardinality(S) - 1
    /\ \A x, y \in S : <<x, y>> \in R
          <=> Cardinality(Before(S, R, x)) < Cardinality(Before(S, R, y))
    /\ \A x, y \in S :
          Cardinality(Before(S, R, x)) = Cardinality(Before(S, R, y)) => x = y
    /\ \A k \in 0 .. Cardinality(S) - 1 : \E x \in S : Cardinality(Before(S, R, x)) = k

\* The members of a finite set with an order are counted by it.
LEMMA Ranks == ASSUME NEW S, IsFiniteSet(S), NEW R, IsOrder(S, R) PROVE Ranked(S, R)
<1> DEFINE n == Cardinality(S)
           place == [x \in S |-> Cardinality(Before(S, R, x))]
<1>1. n \in Nat /\ IsFiniteSet(1 .. n) /\ Cardinality(1 .. n) = n
  BY FS_CardinalityType, FS_Interval
<1>2. ASSUME NEW x \in S PROVE IsFiniteSet(Before(S, R, x)) /\ Cardinality(Before(S, R, x)) \in 0 .. n - 1
  <2>1. Before(S, R, x) \in SUBSET S /\ x \notin Before(S, R, x)
    BY DEF Before, IsOrder
  <2>2. IsFiniteSet(Before(S, R, x)) /\ Cardinality(Before(S, R, x)) <= n
        /\ Cardinality(Before(S, R, x)) # n
    BY <2>1, FS_Subset
  <2>3. Cardinality(Before(S, R, x)) \in Nat
    BY <2>2, FS_CardinalityType
  <2> QED
    BY <1>1, <2>2, <2>3
<1>3. ASSUME NEW x \in S, NEW y \in S, <<x, y>> \in R
      PROVE  Cardinality(Before(S, R, x)) < Cardinality(Before(S, R, y))
  <2>1. Before(S, R, x) \in SUBSET Before(S, R, y)
    BY <1>3 DEF Before, IsOrder
  <2>2. x \in Before(S, R, y) /\ x \notin Before(S, R, x)
    BY <1>3 DEF Before, IsOrder
  <2>3. Cardinality(Before(S, R, x)) <= Cardinality(Before(S, R, y))
        /\ Cardinality(Before(S, R, x)) # Cardinality(Before(S, R, y))
    BY <1>2, <2>1, <2>2, FS_Subset
  <2>4. Cardinality(Before(S, R, x)) \in Int /\ Cardinality(Before(S, R, y)) \in Int
    BY <1>1, <1>2
  <2> QED
    BY <2>3, <2>4
<1>4. \A x, y \in S : <<x, y>> \in R
                 <=> Cardinality(Before(S, R, x)) < Cardinality(Before(S, R, y))
  <2> SUFFICES ASSUME NEW x \in S, NEW y \in S,
                      Cardinality(Before(S, R, x)) < Cardinality(Before(S, R, y)),
                      <<x, y>> \notin R
               PROVE  FALSE
    BY <1>3
  <2>1. x = y \/ <<y, x>> \in R
    BY DEF IsOrder
  <2>2. Cardinality(Before(S, R, x)) \in Int /\ Cardinality(Before(S, R, y)) \in Int
    BY <1>1, <1>2
  <2> QED
    BY <1>3, <2>1, <2>2
<1>5. \A x, y \in S : Cardinality(Before(S, R, x)) = Cardinality(Before(S, R, y)) => x = y
  <2> SUFFICES ASSUME NEW x \in S, NEW y \in S, x # y
               PROVE  Cardinality(Before(S, R, x)) # Cardinality(Before(S, R, y))
    OBVIOUS
  <2>1. <<x, y>> \in R \/ <<y, x>> \in R
    BY DEF IsOrder
  <2>2. Cardinality(Before(S, R, x)) \in Int /\ Cardinality(Before(S, R, y)) \in Int
    BY <1>1, <1>2
  <2> QED
    BY <1>3, <2>1, <2>2
<1> DEFINE next == [x \in S |-> place[x] + 1]
<1>6. next \in Injection(S, 1 .. n)
  <2>1. \A x \in S : next[x] \in 1 .. n
    BY <1>1, <1>2
  <2>2. \A x, y \in S : next[x] = next[y] => x = y
    <3> SUFFICES ASSUME NEW x \in S, NEW y \in S, next[x] = next[y] PROVE x = y
      OBVIOUS
    <3>1. place[x] = place[y]
      BY <1>1, <1>2
    <3> QED
      BY <1>5, <3>1
  <2> HIDE DEF place
  <2> QED
    BY <2>1, <2>2 DEF Injection, IsInjective
<1>7. next \in Surjection(S, 1 .. n)
  BY <1>1, <1>6, FS_Injection
<1>8. ASSUME NEW k \in 0 .. n - 1 PROVE \E x \in S : place[x] = k
  <2>1. k + 1 \in 1 .. n
    BY <1>1
  <2>2. PICK x \in S : next[x] = k + 1
    <3> HIDE DEF next
    <3> QED
      BY <1>7, <2>1, Zenon DEF Surjection
  <2>3. place[x] + 1 = k + 1 /\ place[x] \in Int
    BY <1>1, <1>2, <2>2
  <2> QED
    BY <1>1, <2>3
<1> QED
  BY <1>1, <1>2, <1>4, <1>5, <1>8 DEF Ranked

\* What InOrder lists.
Below(S, n) == {m \in S : m < n}
Listed(S) ==
    /\ Cardinality(S) \in Nat
    /\ InOrder(S) \in [1 .. Cardinality(S) -> S]
    /\ \A k \in 1 .. Cardinality(S) : /\ InOrder(S)[k] \in S
                                      /\ Cardinality(Below(S, InOrder(S)[k])) = k - 1
    /\ \A j, k \in 1 .. Cardinality(S) : j < k <=> InOrder(S)[j] < InOrder(S)[k]
    /\ \A n \in S : Cardinality(Below(S, n)) + 1 \in 1 .. Cardinality(S)
                    /\ InOrder(S)[Cardinality(Below(S, n)) + 1] = n

\* InOrder lists a finite set of numbers in ascending order.
LEMMA InOrderLists == ASSUME NEW S \in SUBSET Int, IsFiniteSet(S) PROVE Listed(S)
<1> DEFINE R == {p \in S \X S : p[1] < p[2]}
           size == Cardinality(S)
           place(n) == Cardinality(Below(S, n))
           nth(k) == CHOOSE n \in S : place(n) = k - 1
<1>1. \A x, y \in S : <<x, y>> \in R <=> x < y
  OBVIOUS
<1>2. \A x \in S : Before(S, R, x) = Below(S, x)
  BY <1>1 DEF Before, Below
<1>3. IsOrder(S, R)
  <2> HIDE DEF R
  <2> QED
    BY <1>1 DEF IsOrder
<1>4. /\ size \in Nat
      /\ \A x \in S : place(x) \in 0 .. size - 1
      /\ \A x, y \in S : x < y <=> place(x) < place(y)
      /\ \A x, y \in S : place(x) = place(y) => x = y
      /\ \A k \in 0 .. size - 1 : \E x \in S : place(x) = k
  <2> HIDE DEF R
  <2>1. Ranked(S, R)
    BY <1>3, Ranks
  <2> QED
    BY <1>1, <1>2, <2>1 DEF Ranked
<1>5. InOrder(S) = [k \in 1 .. size |-> nth(k)]
  BY Zenon DEF InOrder, Below
<1> HIDE DEF size, place
<1>6. \A k \in 1 .. size : nth(k) \in S /\ place(nth(k)) = k - 1
  <2> SUFFICES ASSUME NEW k \in 1 .. size PROVE nth(k) \in S /\ place(nth(k)) = k - 1
    OBVIOUS
  <2>1. k - 1 \in 0 .. size - 1
    BY <1>4
  <2> QED
    BY <1>4, <2>1
<1> HIDE DEF nth
<1>7. InOrder(S) \in [1 .. size -> S] /\ \A k \in 1 .. size : InOrder(S)[k] = nth(k)
  BY <1>5, <1>6
<1>8. \A j, k \in 1 .. size : j < k <=> nth(j) < nth(k)
  <2> SUFFICES ASSUME NEW j \in 1 .. size, NEW k \in 1 .. size PROVE j < k <=> nth(j) < nth(k)
    OBVIOUS
  <2>1. nth(j) \in S /\ nth(k) \in S /\ place(nth(j)) = j - 1 /\ place(nth(k)) = k - 1
    BY <1>6
  <2>2. nth(j) < nth(k) <=> place(nth(j)) < place(nth(k))
    BY <1>4, <2>1
  <2> QED
    BY <1>4, <2>1, <2>2
<1>9. ASSUME NEW n \in S PROVE place(n) + 1 \in 1 .. size /\ nth(place(n) + 1) = n
  <2>1. place(n) \in 0 .. size - 1
    BY <1>4
  <2>2. place(n) + 1 \in 1 .. size /\ place(n) = (place(n) + 1) - 1
    BY <1>4, <2>1
  <2>3. place(nth(place(n) + 1)) = place(n) /\ nth(place(n) + 1) \in S
    BY <1>6, <2>2
  <2> QED
    BY <1>4, <2>2, <2>3
<1> QED
  BY <1>4, <1>6, <1>7, <1>8, <1>9 DEF size, place, Listed

\* Sequences of members, one after the other, are a sequence of members.
LEMMA Flattened ==
    ASSUME NEW U, NEW n \in Nat, NEW parts \in [1 .. n -> Seq(U)]
    PROVE  FlattenSeq(parts) \in Seq(U)
<1>1. parts \in Seq(Seq(U)) /\ Len(parts) = n
  OBVIOUS
<1>2. CASE n = 0
  <2>1. FlattenSeq(parts) = parts
    BY <1>1, <1>2 DEF FlattenSeq
  <2>2. parts = <<>>
    BY <1>1, <1>2
  <2> QED
    BY <2>1, <2>2
<1>3. CASE n # 0
  <2> DEFINE flatten == CHOOSE f : f = [i \in 1 .. Len(parts) |->
                                         IF i = 1 THEN parts[i] ELSE f[i - 1] \o parts[i]]
             advance == [p \in (1 .. n) \X Seq(U) |-> p[2] \o parts[p[1]]]
             V == Seq(U)
             s == parts[1]
  <2>1. FlattenSeq(parts) = flatten[n]
    BY <1>1, <1>3 DEF FlattenSeq
  <2>2. \A k \in 1 .. n : \A x \in V :
           advance[<<k, x>>] = x \o parts[k] /\ advance[<<k, x>>] \in V
    <3> SUFFICES ASSUME NEW k \in 1 .. n, NEW x \in V
                 PROVE  advance[<<k, x>>] = x \o parts[k] /\ advance[<<k, x>>] \in V
      OBVIOUS
    <3>1. advance[<<k, x>>] = x \o parts[k]
      OBVIOUS
    <3>2. x \o parts[k] \in Seq(U)
      <4>1. x \in Seq(U) /\ parts[k] \in Seq(U)
        OBVIOUS
      <4> QED
        BY <4>1
    <3> QED
      BY <3>1, <3>2
  <2>3. Advances(1, n, V, advance)
    BY <2>2 DEF Advances
  <2>4. 1 <= n /\ s \in V
    BY <1>3
  <2> HIDE DEF advance, flatten, V, s
  <2>5. PICK f : Recursive(1, n, V, s, advance, f)
    BY <2>3, <2>4, Recursion
  <2>6. ASSUME NEW k \in 1 .. n
        PROVE  f[k] = IF k = 1 THEN parts[k] ELSE f[k - 1] \o parts[k]
    <3>1. CASE k = 1
      BY <2>5, <3>1 DEF Recursive, s
    <3>2. CASE k # 1
      <4>1. k > 1 /\ k - 1 \in 1 .. n
        BY <3>2
      <4>2. f[k] = advance[<<k, f[k - 1]>>] /\ f[k - 1] \in V
        BY <2>5, <4>1 DEF Recursive
      <4> QED
        BY <2>2, <3>2, <4>2
    <3> QED
      BY <3>1, <3>2
  <2>7. f = [i \in 1 .. Len(parts) |-> IF i = 1 THEN parts[i] ELSE f[i - 1] \o parts[i]]
    BY <1>1, <2>5, <2>6 DEF Recursive
  <2>8. flatten = [i \in 1 .. Len(parts) |->
                     IF i = 1 THEN parts[i] ELSE flatten[i - 1] \o parts[i]]
    BY <2>7, Zenon DEF flatten
  <2>9. \A k \in 1 .. n : parts[k] \in Seq(U)
    OBVIOUS
  <2> DEFINE Good == {k \in 1 .. n : flatten[k] \in Seq(U)}
  <2>10. 1 \in Good
    BY <1>1, <1>3, <2>8, <2>9
  <2>11. ASSUME NEW k \in 1 .. n, k \in Good, k < n PROVE k + 1 \in Good
    <3>1. k + 1 \in 1 .. n /\ k + 1 # 1 /\ (k + 1) - 1 = k
      BY <2>11
    <3>2. flatten[k + 1] = flatten[k] \o parts[k + 1]
      BY <1>1, <2>8, <3>1
    <3>3. flatten[k] \in Seq(U) /\ parts[k + 1] \in Seq(U)
      BY <2>9, <2>11, <3>1
    <3>4. flatten[k] \o parts[k + 1] \in Seq(U)
      <4> DEFINE a == flatten[k]
                 b == parts[k + 1]
      <4>1. a \in Seq(U) /\ b \in Seq(U)
        BY <3>3
      <4> HIDE DEF a, b
      <4>2. a \o b \in Seq(U)
        BY <4>1
      <4> QED
        BY <4>2 DEF a, b
    <3> QED
      BY <3>1, <3>2, <3>4
  <2>12. n \in Good
    <3> HIDE DEF Good
    <3>1. \A k \in 1 .. n : k \in Good /\ k < n => k + 1 \in Good
      BY <2>11
    <3>2. 1 \in Int /\ n \in Int
      OBVIOUS
    <3>3. \A k \in 1 .. n : k \in Good
      BY <2>10, <3>1, <3>2, StepByStep
    <3> QED
      BY <1>3, <3>3
  <2> QED
    BY <2>1, <2>12
<1> QED
  BY <1>2, <1>3

\* A finite set of numbers has a greatest member.
LEMMA GreatestMember ==
    ASSUME NEW S \in SUBSET Int, IsFiniteSet(S), S # {}
    PROVE  Max(S) \in S /\ \A n \in S : n <= Max(S)
<1> DEFINE N == Cardinality(S)
           order == InOrder(S)
<1>1. Listed(S)
  BY InOrderLists
<1>2. /\ N \in Nat /\ \A k \in 1 .. N : order[k] \in S
      /\ \A j, k \in 1 .. N : j < k <=> order[j] < order[k]
      /\ \A n \in S : \E k \in 1 .. N : order[k] = n
  BY <1>1 DEF Listed
<1> HIDE DEF N, order
<1>3. N \in 1 .. N
  <2>1. PICK n \in S : TRUE
    OBVIOUS
  <2>2. PICK k \in 1 .. N : order[k] = n
    BY <1>2, <2>1
  <2> QED
    BY <1>2, <2>2
<1>4. ASSUME NEW n \in S PROVE n <= order[N]
  <2>1. PICK k \in 1 .. N : order[k] = n
    BY <1>2
  <2>2. n \in Int /\ order[N] \in Int
    <3>1. order[N] \in S
      BY <1>2, <1>3
    <3> QED
      BY <3>1
  <2>a. N \in Int /\ k \in Int /\ k <= N
    BY <1>2, <2>1
  <2>3. ~ (order[N] < order[k])
    <3>1. ~ (N < k)
      BY <2>a
    <3> QED
      BY <1>2, <1>3, <3>1
  <2> QED
    BY <2>1, <2>2, <2>3
<1>5. order[N] \in S
  BY <1>2, <1>3
<1>6. \E x \in S : \A n \in S : x >= n
  BY <1>4, <1>5
<1>7. Max(S) \in S /\ \A n \in S : Max(S) >= n
  BY <1>6 DEF Max
<1> QED
  BY <1>7

-----------------------------------------------------------------------------
(* References and lists without members.                                   *)

\* What refers to what, kind by kind.
LEMMA SolidReferences ==
    ASSUME NEW x
    PROVE  /\ x.kind = "solid" => Refs(x) = x.faces
           /\ x.kind = "face" => Refs(x) = {x.on}
           /\ x.kind = "style" => Refs(x) = {x.of}
           /\ x.kind = "note" => Refs(x) = {x.of}
           /\ x.kind = "brep" => Refs(x) = ToSet(x.items)
           /\ x.kind = "shape" => Refs(x) = ToSet(x.items)
           /\ x.kind = "presentation" => Refs(x) = ToSet(x.items)
           /\ x.kind = "layer" => Refs(x) = ToSet(x.items)
           /\ x.kind = "map" => Refs(x) = {x.rep}
           /\ x.kind = "mapped" => Refs(x) = {x.map}
           /\ x.kind = "sdr" => Refs(x) = {x.product, x.rep}
           /\ x.kind = "use" => Refs(x) = {x.parent, x.child, x.rep, x.within}
           /\ x.kind = "value" => Refs(x) = {}
           /\ x.kind = "product" => Refs(x) = {}
BY DEF Refs

\* A list has the members that are not taken out, and no others.
LEMMA WithoutMembers ==
    ASSUME NEW S, NEW items \in Seq(S), NEW out
    PROVE  /\ Without(items, out) \in Seq(S \ out)
           /\ ToSet(Without(items, out)) = ToSet(items) \ out
<1> DEFINE n == Len(items)
           part(i) == IF items[i] \in out THEN <<>> ELSE <<items[i]>>
           parts == [i \in 1 .. n |-> part(i)]
           U == S \ out
<1>1. n \in Nat /\ DOMAIN items = 1 .. n /\ \A i \in 1 .. n : items[i] \in S
  OBVIOUS
<1>2. Without(items, out) = FlattenSeq(parts)
  BY <1>1 DEF Without
<1>0. ASSUME NEW A, NEW i \in 1 .. n, items[i] \notin out => items[i] \in A
      PROVE  part(i) \in Seq(A)
  <2>1. CASE items[i] \in out
    <3>1. part(i) = <<>>
      BY <2>1
    <3> QED
      BY <3>1
  <2>2. CASE items[i] \notin out
    <3> DEFINE x == items[i]
    <3>1. x \in A /\ part(i) = <<x>>
      BY <1>0, <2>2
    <3> HIDE DEF x, part
    <3>2. <<x>> \in Seq(A)
      BY <3>1
    <3> QED
      BY <3>1, <3>2
  <2> QED
    BY <2>1, <2>2
<1>3. \A i \in 1 .. n : part(i) \in Seq(U)
  <2> SUFFICES ASSUME NEW i \in 1 .. n PROVE part(i) \in Seq(U)
    OBVIOUS
  <2>1. items[i] \notin out => items[i] \in U
    BY <1>1
  <2> HIDE DEF U, part, n
  <2> QED
    BY <1>0, <2>1
<1>4. parts \in [1 .. n -> Seq(U)]
  BY <1>3
<1>5. \A i \in 1 .. n : parts[i] = part(i)
  OBVIOUS
<1> HIDE DEF n, parts, U
<1>6. FlattenSeq(parts) \in Seq(U)
  BY <1>1, <1>4, Flattened
<1>7. ASSUME NEW i \in 1 .. n, items[i] \notin out
      PROVE  items[i] \in ToSet(FlattenSeq(parts))
  <2>0. DOMAIN parts = 1 .. n /\ Len(parts) = n
    BY <1>1, <1>4
  <2> DEFINE flatten == CHOOSE f : f = [k \in 1 .. Len(parts) |->
                                         IF k = 1 THEN parts[k] ELSE f[k - 1] \o parts[k]]
             advance == [p \in (1 .. n) \X Seq(U) |-> p[2] \o parts[p[1]]]
             V == Seq(U)
             s == parts[1]
  <2>1. 1 <= n
    BY <1>1, <1>7
  <2>2. FlattenSeq(parts) = flatten[n]
    BY <2>0, <2>1, <1>1 DEF FlattenSeq
  <2>3. \A k \in 1 .. n : \A x \in V :
           advance[<<k, x>>] = x \o parts[k] /\ advance[<<k, x>>] \in V
    <3> SUFFICES ASSUME NEW k \in 1 .. n, NEW x \in V
                 PROVE  advance[<<k, x>>] = x \o parts[k] /\ advance[<<k, x>>] \in V
      OBVIOUS
    <3>1. advance[<<k, x>>] = x \o parts[k]
      OBVIOUS
    <3>2. x \in Seq(U) /\ parts[k] \in Seq(U)
      BY <1>4
    <3>3. x \o parts[k] \in Seq(U)
      BY <3>2
    <3> QED
      BY <3>1, <3>3
  <2>4. Advances(1, n, V, advance) /\ s \in V
    <3>1. 1 \in 1 .. n
      BY <1>1, <2>1
    <3>2. s \in V
      BY <1>4, <3>1
    <3>3. Advances(1, n, V, advance)
      BY <2>3 DEF Advances
    <3> QED
      BY <3>2, <3>3
  <2> HIDE DEF advance, flatten, V, s
  <2>5. PICK f : Recursive(1, n, V, s, advance, f)
    BY <1>1, <2>1, <2>4, Recursion
  <2>6. ASSUME NEW k \in 1 .. n
        PROVE  f[k] = IF k = 1 THEN parts[k] ELSE f[k - 1] \o parts[k]
    <3>1. CASE k = 1
      BY <2>5, <3>1 DEF Recursive, s
    <3>2. CASE k # 1
      <4>1. k > 1 /\ k - 1 \in 1 .. n
        BY <1>1, <3>2
      <4>2. f[k] = advance[<<k, f[k - 1]>>] /\ f[k - 1] \in V
        BY <2>5, <4>1 DEF Recursive
      <4> QED
        BY <2>3, <3>2, <4>2
    <3> QED
      BY <3>1, <3>2
  <2>7. f = [k \in 1 .. Len(parts) |-> IF k = 1 THEN parts[k] ELSE f[k - 1] \o parts[k]]
    BY <2>0, <2>5, <2>6 DEF Recursive
  <2>8. flatten = [k \in 1 .. Len(parts) |->
                     IF k = 1 THEN parts[k] ELSE flatten[k - 1] \o parts[k]]
    BY <2>7, Zenon DEF flatten
  <2>9. f = flatten
    <3> DEFINE Same == {k \in 1 .. n : f[k] = flatten[k]}
    <3>1. 1 \in Same
      BY <1>1, <2>0, <2>1, <2>6, <2>8
    <3>2. ASSUME NEW k \in 1 .. n, k \in Same, k < n PROVE k + 1 \in Same
      <4>1. k + 1 \in 1 .. n /\ k + 1 # 1 /\ (k + 1) - 1 = k
        BY <1>1, <3>2
      <4>2. flatten[k + 1] = flatten[k] \o parts[k + 1]
        BY <2>0, <2>8, <4>1
      <4>3. f[k + 1] = f[k] \o parts[k + 1]
        BY <2>6, <4>1
      <4> QED
        BY <3>2, <4>1, <4>2, <4>3
    <3>3. \A k \in 1 .. n : k \in Same
      <4> HIDE DEF Same
      <4> QED
        BY <1>1, <3>1, <3>2, StepByStep
    <3>4. \A k \in 1 .. n : f[k] = flatten[k]
      BY <3>3
    <3>5. f = [k \in 1 .. n |-> f[k]]
      BY <2>5 DEF Recursive
    <3>6. flatten = [k \in 1 .. n |-> flatten[k]]
      BY <2>0, <2>8
    <3> HIDE DEF Same
    <3>7. [k \in 1 .. n |-> f[k]] = [k \in 1 .. n |-> flatten[k]]
      BY <3>4
    <3> QED
      BY <3>5, <3>6, <3>7
  <2> DEFINE Good == {k \in i .. n : items[i] \in ToSet(f[k])}
  <2>10. \A k \in 1 .. n : f[k] \in Seq(U) /\ parts[k] \in Seq(U)
    BY <1>4, <2>5 DEF Recursive, V
  <2>11. i \in Good
    <3>1. parts[i] = <<items[i]>>
      BY <1>5, <1>7
    <3>2. CASE i = 1
      <4>1. f[i] = <<items[i]>>
        BY <2>6, <3>1, <3>2
      <4> QED
        BY <1>1, <4>1 DEF ToSet
    <3>3. CASE i # 1
      <4>0. i - 1 \in 1 .. n
        BY <1>1, <3>3
      <4>1. i - 1 \in 1 .. n /\ f[i] = f[i - 1] \o <<items[i]>>
        BY <4>0, <2>6, <3>1, <3>3
      <4>2. f[i - 1] \in Seq(U)
        BY <2>10, <4>1
      <4> DEFINE l == f[i - 1]
      <4>3. items[i] \in U
        BY <1>1, <1>7 DEF U
      <4> HIDE DEF l
      <4>4. l \in Seq(U) /\ l \o <<items[i]>> \in Seq(U) /\ Len(l) \in Nat
            /\ (l \o <<items[i]>>)[Len(l) + 1] = items[i]
            /\ Len(l) + 1 \in DOMAIN (l \o <<items[i]>>)
        BY <4>2, <4>3 DEF l
      <4>5. items[i] \in ToSet(f[i])
        BY <4>1, <4>4 DEF ToSet, l
      <4> QED
        BY <1>1, <4>5
    <3> QED
      BY <3>2, <3>3
  <2>12. ASSUME NEW k \in i .. n, k \in Good, k < n PROVE k + 1 \in Good
    <3>1. k + 1 \in 1 .. n /\ k \in 1 .. n /\ k + 1 # 1 /\ (k + 1) - 1 = k /\ k + 1 \in i .. n
      BY <1>1, <2>12
    <3>2. f[k + 1] = f[k] \o parts[k + 1] /\ f[k] \in Seq(U) /\ parts[k + 1] \in Seq(U)
      BY <2>6, <2>10, <3>1
    <3>3. PICK j \in DOMAIN f[k] : f[k][j] = items[i]
      BY <2>12 DEF ToSet
    <3> DEFINE a == f[k]
               b == parts[k + 1]
    <3>4. a \in Seq(U) /\ b \in Seq(U) /\ j \in DOMAIN a /\ a[j] = items[i]
      BY <3>2, <3>3
    <3> HIDE DEF a, b
    <3>5. j \in DOMAIN (a \o b) /\ (a \o b)[j] = items[i]
      BY <3>4
    <3>6. items[i] \in ToSet(f[k + 1])
      BY <3>2, <3>5 DEF ToSet, a, b
    <3> QED
      BY <3>1, <3>6
  <2>13. n \in Good
    <3> HIDE DEF Good
    <3>1. i \in Int /\ n \in Int /\ n \in i .. n
      BY <1>1, <1>7
    <3> QED
      BY <2>11, <2>12, <3>1, StepByStep
  <2> QED
    BY <2>2, <2>9, <2>13
<1>8. ToSet(Without(items, out)) = ToSet(items) \ out
  <2>1. ASSUME NEW x \in ToSet(items) \ out PROVE x \in ToSet(FlattenSeq(parts))
    <3>1. PICK i \in 1 .. n : items[i] = x
      BY <1>1, <2>1 DEF ToSet
    <3> QED
      BY <1>7, <2>1, <3>1
  <2>2. \A i \in 1 .. n : part(i) \in Seq(ToSet(items) \ out)
    <3> SUFFICES ASSUME NEW i \in 1 .. n PROVE part(i) \in Seq(ToSet(items) \ out)
      OBVIOUS
    <3>1. items[i] \in ToSet(items)
      BY <1>1 DEF ToSet
    <3> DEFINE A == ToSet(items) \ out
    <3>2. items[i] \notin out => items[i] \in A
      BY <3>1
    <3> HIDE DEF A, part, n
    <3>3. part(i) \in Seq(A)
      BY <1>0, <3>2
    <3> QED
      BY <3>3 DEF A
  <2>3. DOMAIN parts = 1 .. n
    BY <1>4
  <2>4. \A i \in 1 .. n : parts[i] \in Seq(ToSet(items) \ out)
    BY <1>5, <2>2
  <2>5. parts \in [1 .. n -> Seq(ToSet(items) \ out)]
    BY <1>4, <2>3, <2>4
  <2>6. FlattenSeq(parts) \in Seq(ToSet(items) \ out)
    BY <1>1, <2>5, Flattened
  <2>7. ToSet(FlattenSeq(parts)) \subseteq ToSet(items) \ out
    <3> DEFINE A == ToSet(items) \ out
               l == FlattenSeq(parts)
    <3>1. l \in Seq(A)
      BY <2>6
    <3> HIDE DEF A, l
    <3>2. \A k \in DOMAIN l : l[k] \in A
      BY <3>1
    <3> QED
      BY <3>2 DEF ToSet, A, l
  <2> QED
    BY <1>2, <2>1, <2>7
<1> QED
  BY <1>2, <1>6, <1>8 DEF U

-----------------------------------------------------------------------------
(* The families of a representation.                                       *)

\* One quarter turn carries a solid without symmetry onto a copy, and more than one any
\* other.
LEMMA OneQuarter ==
    ASSUME NEW e, NEW s, NEW t, e[s].turn \in 0 .. 3, e[t].turn \in 0 .. 3,
           Period[e[s].shape] \in {1, 2, 4}
    PROVE  Cardinality(Quarters(e, s, t)) = 1 <=> Period[e[s].shape] = 4
<1> DEFINE a == e[s].turn
           b == e[t].turn
           p == Period[e[s].shape]
           Q == {q \in 0 .. 3 : (a + q - b) % p = 0}
           q0 == IF a <= b THEN b - a ELSE b - a + 4
           q1 == IF q0 < 2 THEN q0 + 2 ELSE q0 - 2
<1>1. Quarters(e, s, t) = Q
  BY DEF Quarters
<1>2. a \in 0 .. 3 /\ b \in 0 .. 3 /\ p \in {1, 2, 4}
  OBVIOUS
<1> HIDE DEF a, b, p
<1>3. q0 \in 0 .. 3 /\ (a + q0 - b = 0 \/ a + q0 - b = 4)
  BY <1>2
<1>4. q0 \in Q
  BY <1>2, <1>3
<1>5. CASE p = 4
  <2>1. \A q \in 0 .. 3 : (a + q - b) % 4 = 0 => q = q0
    BY <1>2, <1>3
  <2>2. Q = {q0}
    BY <1>4, <1>5, <2>1
  <2>3. Cardinality(Q) = 1
    BY <2>2, FS_Singleton
  <2> QED
    BY <1>1, <1>5, <2>3 DEF p
<1>6. CASE p # 4
  <2>1. q1 \in 0 .. 3 /\ q1 # q0 /\ (a + q1 - b = q1 - q0 + (a + q0 - b))
    BY <1>2, <1>3
  <2>2. q1 - q0 = 2 \/ q1 - q0 = -2
    BY <1>3
  <2>3. (a + q1 - b) % p = 0
    BY <1>2, <1>3, <1>6, <2>1, <2>2
  <2>4. q1 \in Q /\ q1 # q0
    BY <2>1, <2>3
  <2> HIDE DEF q0, q1, Q
  <2>5. ~ \E x : Q = {x}
    BY <1>4, <2>4
  <2>6. Cardinality(Q) # 1
    <3>1. IsFiniteSet(Q)
      <4>1. Q \in SUBSET (0 .. 3)
        BY DEF Q
      <4>2. IsFiniteSet(0 .. 3)
        <5> DEFINE lo == 0
                   hi == 3
        <5>1. lo \in Int /\ hi \in Int
          OBVIOUS
        <5> HIDE DEF lo, hi
        <5>2. IsFiniteSet(lo .. hi)
          BY <5>1, FS_Interval
        <5> QED
          BY <5>2 DEF lo, hi
      <4> QED
        BY <4>1, <4>2, FS_Subset
    <3> QED
      BY <2>5, <3>1, FS_Singleton
  <2> QED
    BY <1>1, <1>6, <2>6 DEF p
<1> QED
  BY <1>5, <1>6

\* The least of some ids.
LEMMA LeastId ==
    ASSUME NEW S \in SUBSET Nat, S # {}
    PROVE  Min(S) \in S /\ \A x \in S : Min(S) <= x
<1>1. PICK i \in S : \A j \in S : i <= j
  BY HasLeast
<1> QED
  BY <1>1 DEF Min

\* The solids of a representation are finitely many entities of their kind.
LEMMA SolidsInside ==
    ASSUME NEW e, Whole(e), NEW r \in OfKind(e, {"brep"})
    PROVE  /\ Solids(e, r) \subseteq OfKind(e, {"solid"}) /\ Solids(e, r) \subseteq DOMAIN e
           /\ IsFiniteSet(Solids(e, r)) /\ Cardinality(Solids(e, r)) \in Nat
           /\ Solids(e, r) \subseteq Nat
           /\ \A s \in Solids(e, r) : /\ e[s].kind = "solid" /\ e[s].turn \in 0 .. 3
                                      /\ e[s].shape \in DOMAIN Period
<1>1. Solids(e, r) \subseteq OfKind(e, {"solid"}) /\ Solids(e, r) \subseteq DOMAIN e
  BY DEF Solids, OfKind
<1>2. IsFiniteSet(DOMAIN e) /\ DOMAIN e \subseteq Nat
  BY DEF Whole
<1>3. IsFiniteSet(Solids(e, r))
  BY <1>1, <1>2, FS_Subset
<1>4. \A s \in Solids(e, r) : e[s].kind = "solid" /\ Fits(e, e[s])
  BY <1>1 DEF Whole, OfKind
<1> QED
  BY <1>1, <1>2, <1>3, <1>4, FS_CardinalityType DEF Fits

\* The families of a representation: solids that are alike, every two of them, no solid in
\* two families, and with at least three solids every two that are alike are in one.
FamiliesAre(e, r, fs) ==
    /\ \A f \in fs :
          /\ f \subseteq Solids(e, r) /\ \E s, t \in f : s # t
          /\ \A s, t \in f : s # t => Alike(e, s, t)
          /\ \A g \in fs : f # g => f \cap g = {}
    /\ \/ Cardinality(Solids(e, r)) < 3
       \/ \A s, t \in Solids(e, r) : Alike(e, s, t) => \E f \in fs : {s, t} \subseteq f

\* The families of a representation are sets of solids that are alike, apart from each other,
\* and hold every two of its solids that are.
LEMMA FamiliesOfARepresentation ==
    ASSUME NEW e, Whole(e), NEW r \in OfKind(e, {"brep"}),
           \A shape \in DOMAIN Period : Period[shape] \in {1, 2, 4}
    PROVE  FamiliesAre(e, r, Families(e, r))
<1> DEFINE known == {s \in Solids(e, r) : Analyzed(e, s)}
           Proved(g) == {t \in g : t = Min(g) \/ Cardinality(Quarters(e, Min(g), t)) = 1}
           fs == {f \in {Proved(Group(e, known, s)) : s \in known} : Cardinality(f) >= 2}
<1>1. Families(e, r) = IF Cardinality(Solids(e, r)) < 3 THEN {} ELSE fs
  BY DEF Families
<1>2. known \subseteq Solids(e, r) /\ \A s \in known : Analyzed(e, s)
  OBVIOUS
<1>3. \A s \in known : /\ e[s].turn \in 0 .. 3 /\ e[s].shape \in DOMAIN Period /\ s \in Nat
                       /\ Period[e[s].shape] \in {1, 2, 4}
  BY <1>2, SolidsInside
<1> HIDE DEF known
<1>4. ASSUME NEW s \in known
      PROVE  LET g == Group(e, known, s) IN
             /\ g \subseteq known /\ s \in g
             /\ \A t \in g : e[t].shape = e[s].shape /\ Look(e, t) = Look(e, s)
  BY DEF Group
<1>5. ASSUME NEW s \in known, Period[e[s].shape] = 4
      PROVE  Proved(Group(e, known, s)) = Group(e, known, s)
  <2> DEFINE g == Group(e, known, s)
             m == Min(g)
  <2>1. g \subseteq known /\ s \in g /\ \A t \in g : e[t].shape = e[s].shape
    BY <1>4
  <2>2. m \in g
    <3>1. g \in SUBSET Nat /\ g # {}
      BY <1>3, <2>1
    <3> HIDE DEF g
    <3> QED
      BY <3>1, LeastId
  <2>3. ASSUME NEW t \in g PROVE Cardinality(Quarters(e, m, t)) = 1
    <3>1. /\ e[m].turn \in 0 .. 3 /\ e[t].turn \in 0 .. 3 /\ Period[e[m].shape] = 4
      BY <1>3, <1>5, <2>1, <2>2, <2>3
    <3> QED
      BY <3>1, OneQuarter
  <2> HIDE DEF g
  <2>4. Proved(g) = g
    BY <2>3
  <2> QED
    BY <2>4 DEF g
<1>6. ASSUME NEW s \in known, Period[e[s].shape] # 4
      PROVE  Proved(Group(e, known, s)) = {Min(Group(e, known, s))}
  <2> DEFINE g == Group(e, known, s)
             m == Min(g)
  <2>1. g \subseteq known /\ s \in g /\ \A t \in g : e[t].shape = e[s].shape
    BY <1>4
  <2>2. m \in g
    <3>1. g \in SUBSET Nat /\ g # {}
      BY <1>3, <2>1
    <3> HIDE DEF g
    <3> QED
      BY <3>1, LeastId
  <2>3. ASSUME NEW t \in g PROVE Cardinality(Quarters(e, m, t)) # 1
    <3>1. /\ e[m].turn \in 0 .. 3 /\ e[t].turn \in 0 .. 3 /\ Period[e[m].shape] # 4
          /\ Period[e[m].shape] \in {1, 2, 4}
      BY <1>3, <1>6, <2>1, <2>2, <2>3
    <3> QED
      BY <3>1, OneQuarter
  <2> HIDE DEF g
  <2>4. Proved(g) = {m}
    BY <2>2, <2>3
  <2> QED
    BY <2>4 DEF g
<1> HIDE DEF Proved
<1>7. ASSUME NEW f \in fs
      PROVE  \E s \in known : /\ f = Group(e, known, s) /\ Period[e[s].shape] = 4
                              /\ \E a, b \in f : a # b
  <2>1. PICK s \in known : f = Proved(Group(e, known, s)) /\ Cardinality(f) >= 2
    BY <1>7
  <2>2. Period[e[s].shape] = 4
    <3> SUFFICES ASSUME Period[e[s].shape] # 4 PROVE FALSE
      OBVIOUS
    <3>1. f = {Min(Group(e, known, s))}
      BY <1>6, <2>1
    <3>2. Cardinality(f) = 1
      BY <3>1, FS_Singleton
    <3> QED
      BY <2>1, <3>2
  <2>3. f = Group(e, known, s)
    BY <1>5, <2>1, <2>2
  <2>4. s \in f
    BY <1>4, <2>3
  <2>5. f # {s}
    <3>1. Cardinality({s}) = 1
      BY FS_Singleton
    <3> QED
      BY <2>1, <3>1
  <2> QED
    BY <2>2, <2>3, <2>4, <2>5
<1>8. ASSUME NEW f \in fs
      PROVE  /\ f \subseteq Solids(e, r) /\ \E s, t \in f : s # t
             /\ \A s, t \in f : s # t => Alike(e, s, t)
             /\ \A g \in fs : f # g => f \cap g = {}
  <2>1. PICK s \in known : /\ f = Group(e, known, s) /\ Period[e[s].shape] = 4
                           /\ \E a, b \in f : a # b
    BY <1>7
  <2>2. f \subseteq known /\ \A t \in f : e[t].shape = e[s].shape /\ Look(e, t) = Look(e, s)
    BY <1>4, <2>1
  <2>3. \A a, b \in f : a # b => Alike(e, a, b)
    BY <1>2, <2>1, <2>2 DEF Alike
  <2>4. ASSUME NEW g \in fs, NEW x \in f \cap g PROVE f = g
    <3>1. PICK t \in known : g = Group(e, known, t)
      BY <1>7
    <3>2. \A y \in g : e[y].shape = e[t].shape /\ Look(e, y) = Look(e, t)
      BY <1>4, <3>1
    <3>3. e[s].shape = e[t].shape /\ Look(e, s) = Look(e, t)
      BY <2>2, <2>4, <3>2
    <3> QED
      BY <2>1, <3>1, <3>3 DEF Group
  <2> QED
    BY <1>2, <2>1, <2>2, <2>3, <2>4
<1>9. ASSUME NEW s \in Solids(e, r), NEW t \in Solids(e, r), Alike(e, s, t)
      PROVE  \E f \in fs : {s, t} \subseteq f
  <2>1. /\ s \in known /\ t \in known /\ s # t
        /\ e[s].shape = e[t].shape /\ Look(e, s) = Look(e, t) /\ Period[e[s].shape] = 4
    BY <1>9 DEF Alike, known
  <2> DEFINE f == Group(e, known, s)
  <2>2. f = Proved(f) /\ s \in f /\ t \in f /\ f \subseteq known
    BY <1>5, <2>1 DEF Group
  <2>3. Cardinality(f) >= 2
    <3>1. IsFiniteSet(f)
      <4>1. f \in SUBSET Solids(e, r)
        BY <1>2, <2>2
      <4> HIDE DEF f
      <4> QED
        BY <4>1, SolidsInside, FS_Subset
    <3>2. {s, t} \in SUBSET f
      BY <2>2
    <3>3. Cardinality({s, t}) = 2
      <4>1. IsFiniteSet({t}) /\ Cardinality({t}) = 1 /\ s \notin {t}
        BY <2>1, FS_Singleton
      <4>2. Cardinality({t} \cup {s}) = Cardinality({t}) + 1
        <5> DEFINE S == {t}
        <5>1. IsFiniteSet(S) /\ s \notin S
          BY <4>1
        <5> HIDE DEF S
        <5>2. Cardinality(S \cup {s}) = Cardinality(S) + 1
          BY <5>1, FS_AddElement
        <5> QED
          BY <5>2 DEF S
      <4>3. {t} \cup {s} = {s, t}
        OBVIOUS
      <4> QED
        BY <4>1, <4>2, <4>3
    <3> HIDE DEF f
    <3>4. Cardinality({s, t}) <= Cardinality(f)
      BY <3>1, <3>2, FS_Subset
    <3>5. Cardinality(f) \in Nat
      BY <3>1, FS_CardinalityType
    <3> QED
      BY <3>3, <3>4, <3>5
  <2> HIDE DEF f
  <2>4. f \in fs
    BY <2>1, <2>2, <2>3 DEF f
  <2> QED
    BY <2>2, <2>4
<1> HIDE DEF fs
<1>10. CASE Cardinality(Solids(e, r)) < 3
  BY <1>1, <1>10 DEF FamiliesAre
<1>11. CASE ~ (Cardinality(Solids(e, r)) < 3)
  BY <1>1, <1>8, <1>9, <1>11 DEF FamiliesAre
<1> QED
  BY <1>10, <1>11

\* A representation that is settled has none.
LEMMA SettledHasNone ==
    ASSUME NEW e, Whole(e), NEW r \in OfKind(e, {"brep"}), Settled(e, r),
           \A shape \in DOMAIN Period : Period[shape] \in {1, 2, 4}
    PROVE  Families(e, r) = {}
<1>1. CASE Cardinality(Solids(e, r)) < 3
  BY <1>1 DEF Families
<1>2. CASE \A s, t \in Solids(e, r) : ~ Alike(e, s, t)
  <2> SUFFICES ASSUME NEW f \in Families(e, r) PROVE FALSE
    OBVIOUS
  <2>1. FamiliesAre(e, r, Families(e, r))
    BY FamiliesOfARepresentation
  <2> QED
    BY <1>2, <2>1 DEF FamiliesAre
<1> QED
  BY <1>1, <1>2 DEF Settled

-----------------------------------------------------------------------------
(* What an entity refers to.                                               *)

\* Every reference of an entity leads to an entity of the section, of a kind that fits.
Meets(k, l) ==
    \/ k = "solid" /\ l = "face"
    \/ k = "face" /\ l = "value"
    \/ k = "style" /\ l \in {"solid", "face", "mapped"}
    \/ k = "note" /\ l \in {"solid", "face", "value"}
    \/ k \in {"brep", "shape"} /\ l \in {"solid", "mapped"}
    \/ k \in {"presentation", "layer"} /\ l = "style"
    \/ k = "map" /\ l = "brep"
    \/ k = "mapped" /\ l = "map"
    \/ k = "sdr" /\ l \in {"product", "brep", "shape"}
    \/ k = "use" /\ l \in {"product", "brep", "shape"}

\* What an entity that fits refers to is there, and of a kind that it may refer to.
LEMMA FitReferences ==
    ASSUME NEW e, NEW x, Fits(e, x), NEW n \in Refs(x)
    PROVE  n \in DOMAIN e /\ Meets(x.kind, e[n].kind)
<1>1. \A K : n \in OfKind(e, K) => n \in DOMAIN e /\ e[n].kind \in K
  BY DEF OfKind
<1>2. ASSUME NEW K, x.items \in Seq(OfKind(e, K)), n \in ToSet(x.items)
      PROVE  n \in OfKind(e, K)
  <2> DEFINE l == x.items
             S == OfKind(e, K)
  <2>1. l \in Seq(S) /\ n \in ToSet(l)
    BY <1>2
  <2> HIDE DEF l, S
  <2>2. n \in S
    BY <2>1 DEF ToSet
  <2> QED
    BY <2>2 DEF S
<1>3. CASE x.kind \in {"brep", "shape"}
  <2>1. n \in ToSet(x.items) /\ x.items \in Seq(OfKind(e, {"solid", "mapped"}))
    BY <1>3, SolidReferences DEF Fits
  <2>2. n \in OfKind(e, {"solid", "mapped"})
    BY <1>2, <2>1
  <2> QED
    BY <1>1, <1>3, <2>2 DEF Meets
<1>4. CASE x.kind \in {"presentation", "layer"}
  <2>1. n \in ToSet(x.items) /\ x.items \in Seq(OfKind(e, {"style"}))
    BY <1>4, SolidReferences DEF Fits
  <2>2. n \in OfKind(e, {"style"})
    BY <1>2, <2>1
  <2> QED
    BY <1>1, <1>4, <2>2 DEF Meets
<1>5. CASE x.kind \in {"solid", "face", "value"}
  <2>1. x.kind # "value"
    BY SolidReferences
  <2>2. n \in OfKind(e, {"face"}) \/ n \in OfKind(e, {"value"})
    BY <1>5, <2>1, SolidReferences DEF Fits
  <2>3. x.kind = "solid" => n \in OfKind(e, {"face"})
    BY SolidReferences DEF Fits
  <2>4. x.kind = "face" => n \in OfKind(e, {"value"})
    BY SolidReferences DEF Fits
  <2> QED
    BY <1>1, <1>5, <2>1, <2>3, <2>4 DEF Meets
<1>6. CASE x.kind = "style"
  <2>1. n \in OfKind(e, {"solid", "face", "mapped"})
    BY <1>6, SolidReferences DEF Fits
  <2> QED
    BY <1>1, <1>6, <2>1 DEF Meets
<1>7. CASE x.kind = "note"
  <2>1. n \in OfKind(e, {"solid", "face", "value"})
    BY <1>7, SolidReferences DEF Fits
  <2> QED
    BY <1>1, <1>7, <2>1 DEF Meets
<1>8. CASE x.kind = "map"
  <2>1. n \in OfKind(e, {"brep"})
    BY <1>8, SolidReferences DEF Fits
  <2> QED
    BY <1>1, <1>8, <2>1 DEF Meets
<1>9. CASE x.kind = "mapped"
  <2>1. n \in OfKind(e, {"map"})
    BY <1>9, SolidReferences DEF Fits
  <2> QED
    BY <1>1, <1>9, <2>1 DEF Meets
<1>10. CASE x.kind = "sdr"
  <2>1. n \in OfKind(e, {"product"}) \/ n \in OfKind(e, {"brep", "shape"})
    BY <1>10, SolidReferences DEF Fits
  <2>2. n \in DOMAIN e /\ e[n].kind \in {"product", "brep", "shape"}
    BY <1>1, <2>1
  <2> QED
    BY <1>10, <2>2 DEF Meets
<1>11. CASE x.kind = "use"
  <2>1. n \in OfKind(e, {"product"}) \/ n \in OfKind(e, {"brep"}) \/ n \in OfKind(e, {"shape"})
    BY <1>11, SolidReferences DEF Fits
  <2>2. n \in DOMAIN e /\ e[n].kind \in {"product", "brep", "shape"}
    BY <1>1, <2>1
  <2> QED
    BY <1>11, <2>2 DEF Meets
<1>12. x.kind # "product"
  BY SolidReferences
<1> QED
  BY <1>3, <1>4, <1>5, <1>6, <1>7, <1>8, <1>9, <1>10, <1>11, <1>12 DEF Fits

\* An entity of a whole section refers to one of a kind that it may refer to.
LEMMA WholeReferences ==
    ASSUME NEW e, Whole(e), NEW m \in DOMAIN e, NEW n \in Refs(e[m])
    PROVE  n \in DOMAIN e /\ Meets(e[m].kind, e[n].kind) /\ m \in Parents(e, n)
<1>1. Fits(e, e[m])
  BY DEF Whole
<1> QED
  BY <1>1, FitReferences DEF Parents

\* Where the references of each kind lead.
Leads(e, n, K) == n \in DOMAIN e /\ e[n].kind \in K
\* The references by field.
LEMMA WholeFields ==
    ASSUME NEW e, Whole(e), NEW n \in DOMAIN e
    PROVE  /\ "kind" \in DOMAIN e[n]
           /\ e[n].kind = "solid" => \A f \in e[n].faces : Leads(e, f, {"face"})
           /\ e[n].kind = "face" => Leads(e, e[n].on, {"value"})
           /\ e[n].kind = "style" => Leads(e, e[n].of, {"solid", "face", "mapped"})
           /\ e[n].kind = "map" => Leads(e, e[n].rep, {"brep"})
           /\ e[n].kind = "mapped" => Leads(e, e[n].map, {"map"})
           /\ e[n].kind = "sdr" => Leads(e, e[n].product, {"product"}) /\ Leads(e, e[n].rep, {"brep", "shape"})
           /\ e[n].kind = "use" => /\ Leads(e, e[n].parent, {"product"}) /\ Leads(e, e[n].child, {"product"})
                                  /\ Leads(e, e[n].rep, {"brep"}) /\ Leads(e, e[n].within, {"shape"})
           /\ e[n].kind = "style" => {"of", "look"} \subseteq DOMAIN e[n]
           /\ e[n].kind = "sdr" => {"product", "rep"} \subseteq DOMAIN e[n]
           /\ e[n].kind = "brep" => "source" \in DOMAIN e[n] /\ e[n].source \in BOOLEAN
           /\ e[n].kind \in {"brep", "shape", "presentation", "layer"} => "items" \in DOMAIN e[n]
           /\ e[n].kind \in {"brep", "shape"} =>
                 /\ e[n].items \in Seq(OfKind(e, {"solid", "mapped"}))
                 /\ \A m \in ToSet(e[n].items) : Leads(e, m, {"solid", "mapped"})
           /\ e[n].kind \in {"presentation", "layer"} =>
                 /\ e[n].items \in Seq(OfKind(e, {"style"}))
                 /\ \A m \in ToSet(e[n].items) : Leads(e, m, {"style"})
<1>1. Fits(e, e[n])
  BY DEF Whole
<1>2. \A m, K : Leads(e, m, K) <=> m \in OfKind(e, K)
  BY DEF Leads, OfKind
<1>3. ASSUME NEW l, NEW K, l \in Seq(OfKind(e, K)), NEW m \in ToSet(l) PROVE Leads(e, m, K)
  <2> DEFINE S == OfKind(e, K)
  <2>1. l \in Seq(S)
    BY <1>3
  <2> HIDE DEF S
  <2>2. m \in S
    BY <1>3, <2>1 DEF ToSet
  <2> QED
    BY <1>2, <2>2 DEF S
<1>4. e[n].kind = "solid" => \A f \in e[n].faces : f \in OfKind(e, {"face"})
  BY <1>1 DEF Fits
<1>5. e[n].kind = "face" => e[n].on \in OfKind(e, {"value"})
  BY <1>1 DEF Fits
<1>6. e[n].kind = "style" => e[n].of \in OfKind(e, {"solid", "face", "mapped"})
  BY <1>1 DEF Fits
<1>7. /\ e[n].kind = "map" => e[n].rep \in OfKind(e, {"brep"})
      /\ e[n].kind = "mapped" => e[n].map \in OfKind(e, {"map"})
  BY <1>1 DEF Fits
<1>8. e[n].kind = "sdr" => e[n].product \in OfKind(e, {"product"}) /\ e[n].rep \in OfKind(e, {"brep", "shape"})
  BY <1>1 DEF Fits
<1>9. e[n].kind = "use" => /\ e[n].parent \in OfKind(e, {"product"}) /\ e[n].child \in OfKind(e, {"product"})
                           /\ e[n].rep \in OfKind(e, {"brep"}) /\ e[n].within \in OfKind(e, {"shape"})
  BY <1>1 DEF Fits
<1>10. e[n].kind \in {"brep", "shape"} => e[n].items \in Seq(OfKind(e, {"solid", "mapped"}))
  BY <1>1 DEF Fits
<1>11. e[n].kind \in {"presentation", "layer"} => e[n].items \in Seq(OfKind(e, {"style"}))
  BY <1>1 DEF Fits
<1>12. /\ e[n].kind \in {"brep", "shape"} => \A m \in ToSet(e[n].items) : Leads(e, m, {"solid", "mapped"})
       /\ e[n].kind \in {"presentation", "layer"} => \A m \in ToSet(e[n].items) : Leads(e, m, {"style"})
  BY <1>3, <1>10, <1>11
<1>13. /\ "kind" \in DOMAIN e[n]
       /\ e[n].kind = "style" => {"of", "look"} \subseteq DOMAIN e[n]
       /\ e[n].kind = "sdr" => {"product", "rep"} \subseteq DOMAIN e[n]
       /\ e[n].kind = "brep" => "source" \in DOMAIN e[n] /\ e[n].source \in BOOLEAN
       /\ e[n].kind \in {"brep", "shape", "presentation", "layer"} => "items" \in DOMAIN e[n]
  BY <1>1 DEF Fits
<1> QED
  BY <1>2, <1>4, <1>5, <1>6, <1>7, <1>8, <1>9, <1>10, <1>11, <1>12, <1>13

\* A list in which some items stand for others.
LEMMA SwappedItems ==
    ASSUME NEW S, NEW items \in Seq(S), NEW by
    PROVE  /\ DOMAIN Swapped(items, by) = DOMAIN items
           /\ \A T : S \subseteq T /\ (\A x \in DOMAIN by : by[x] \in T) => Swapped(items, by) \in Seq(T)
           /\ \A x \in ToSet(items) : x \notin DOMAIN by => x \in ToSet(Swapped(items, by))
           /\ \A x \in ToSet(items) : x \in DOMAIN by => by[x] \in ToSet(Swapped(items, by))
           /\ \A y \in ToSet(Swapped(items, by)) :
                 \/ y \in ToSet(items) /\ y \notin DOMAIN by
                 \/ \E x \in ToSet(items) : x \in DOMAIN by /\ y = by[x]
           /\ items = <<>> => Swapped(items, by) = <<>>
<1> DEFINE l == Swapped(items, by)
           n == Len(items)
<1>1. n \in Nat /\ DOMAIN items = 1 .. n /\ \A i \in 1 .. n : items[i] \in S
  OBVIOUS
<1>2. /\ l = [i \in 1 .. n |-> l[i]] /\ DOMAIN l = 1 .. n
      /\ \A i \in 1 .. n : l[i] = IF items[i] \in DOMAIN by THEN by[items[i]] ELSE items[i]
  BY <1>1 DEF Swapped
<1> HIDE DEF l, n
<1>3. ASSUME NEW T, S \subseteq T, \A x \in DOMAIN by : by[x] \in T PROVE l \in Seq(T)
  <2>1. \A i \in 1 .. n : l[i] \in T
    BY <1>1, <1>2, <1>3
  <2> QED
    BY <1>1, <1>2, <2>1
<1>4. items = <<>> => l = <<>>
  <2> SUFFICES ASSUME items = <<>> PROVE l = <<>>
    OBVIOUS
  <2>1. n = 0
    BY DEF n
  <2>2. l \in Seq({})
    BY <1>2, <2>1
  <2> QED
    BY <1>2, <2>1, <2>2
<1>5. ToSet(items) = {items[i] : i \in 1 .. n} /\ ToSet(l) = {l[i] : i \in 1 .. n}
  BY <1>1, <1>2 DEF ToSet
<1>6. /\ \A x \in ToSet(items) : x \notin DOMAIN by => x \in ToSet(l)
      /\ \A x \in ToSet(items) : x \in DOMAIN by => by[x] \in ToSet(l)
  BY <1>2, <1>5
<1>7. ASSUME NEW y \in ToSet(l)
      PROVE  \/ y \in ToSet(items) /\ y \notin DOMAIN by
             \/ \E x \in ToSet(items) : x \in DOMAIN by /\ y = by[x]
  BY <1>2, <1>5
<1> QED
  BY <1>1, <1>2, <1>3, <1>4, <1>6, <1>7 DEF l

\* What is new has no look of what was there: the solids of the file are as they were.
LEMMA GrownAlike ==
    ASSUME NEW e, NEW f, Whole(e),
           \A n \in OfKind(e, {"solid", "face", "style"}) : n \in DOMAIN f /\ f[n] = e[n],
           \A n \in OfKind(f, {"style"}) : (n \in DOMAIN e /\ f[n] = e[n]) \/ f[n].of \notin OfKind(e, {"face"})
    PROVE  \A s, t \in OfKind(e, {"solid"}) : Alike(f, s, t) <=> Alike(e, s, t)
<1>1. ASSUME NEW x \in OfKind(e, {"face"}) PROVE StylesOf(f, x) = StylesOf(e, x)
  <2>1. \A n : n \in StylesOf(e, x) => n \in StylesOf(f, x)
    BY DEF StylesOf, OfKind
  <2>2. \A n : n \in StylesOf(f, x) => n \in StylesOf(e, x)
    BY <1>1 DEF StylesOf, OfKind
  <2> QED
    BY <2>1, <2>2
<1>2. ASSUME NEW x \in OfKind(e, {"face"}) PROVE Looks(f, x) = Looks(e, x)
  <2>1. StylesOf(f, x) = StylesOf(e, x) /\ \A n \in StylesOf(e, x) : f[n] = e[n]
    BY <1>1 DEF StylesOf, OfKind
  <2> QED
    BY <2>1 DEF Looks
<1>3. ASSUME NEW s \in OfKind(e, {"solid"})
      PROVE  /\ f[s] = e[s] /\ e[s].faces \subseteq OfKind(e, {"face"})
             /\ Look(f, s) = Look(e, s) /\ (Analyzed(f, s) <=> Analyzed(e, s))
  <2>1. f[s] = e[s] /\ e[s].faces \subseteq OfKind(e, {"face"})
    BY DEF OfKind, Whole, Fits
  <2>2. /\ \A x \in e[s].faces : StylesOf(f, x) = StylesOf(e, x)
        /\ {Looks(f, x) : x \in e[s].faces} = {Looks(e, x) : x \in e[s].faces}
    BY <1>1, <1>2, <2>1
  <2> QED
    BY <2>1, <2>2 DEF Look, Analyzed
<1> QED
  BY <1>3 DEF Alike

-----------------------------------------------------------------------------
(* The steps between the representations.                                  *)

\* A representation is settled if one with more solids was.
LEMMA SettledStays ==
    ASSUME NEW e, NEW f, NEW r, NEW q, Whole(e), r \in OfKind(e, {"brep"}), Settled(e, r),
           Solids(f, q) \subseteq Solids(e, r),
           \A s, t \in Solids(f, q) : Alike(f, s, t) => Alike(e, s, t)
    PROVE  Settled(f, q)
<1>1. IsFiniteSet(Solids(e, r)) /\ Cardinality(Solids(e, r)) \in Nat
  BY SolidsInside
<1>2. IsFiniteSet(Solids(f, q)) /\ Cardinality(Solids(f, q)) <= Cardinality(Solids(e, r))
  BY <1>1, FS_Subset
<1>3. Cardinality(Solids(f, q)) \in Nat
  BY <1>2, FS_CardinalityType
<1> QED
  BY <1>1, <1>2, <1>3 DEF Settled

\* What the files are like.
LEMMA FileIsWhole ==
    ASSUME InstancingAssumption, NEW m \in DOMAIN Files, NEW e \in Files[m]
    PROVE  /\ Whole(e) /\ m \in {"mapped", "assembly"}
           /\ \A n \in DOMAIN e : e[n].kind \notin {"map", "mapped", "use"}
           /\ \A r \in OfKind(e, {"brep"}) : ~ e[r].source
           /\ \A s \in OfKind(e, {"style"}) : Parents(e, s) # {}
  BY DEF InstancingAssumption, OfKind

\* The periods of the shapes.
LEMMA PeriodsAreTurns ==
    ASSUME InstancingAssumption
    PROVE  \A shape \in DOMAIN Period : Period[shape] \in {1, 2, 4}
  BY DEF InstancingAssumption

\* The representations of a section in ascending order are all of them.
LEMMA AllRepresentations ==
    ASSUME NEW e, Whole(e), NEW S \in SUBSET DOMAIN e
    PROVE  /\ InOrder(S) \in Seq(S) /\ ToSet(InOrder(S)) = S
           /\ \A i, j \in DOMAIN InOrder(S) : InOrder(S)[i] = InOrder(S)[j] => i = j
<1>1. S \in SUBSET Int /\ S \in SUBSET Nat /\ IsFiniteSet(S)
  <2>1. S \in SUBSET Nat /\ IsFiniteSet(DOMAIN e)
    BY DEF Whole
  <2> QED
    BY <2>1, FS_Subset
<1>2. Listed(S)
  BY <1>1, InOrderLists
<1> DEFINE l == InOrder(S)
           n == Cardinality(S)
<1>3. /\ n \in Nat /\ l \in [1 .. n -> S]
      /\ \A x \in S : \E k \in 1 .. n : l[k] = x
      /\ \A j, k \in 1 .. n : j < k <=> l[j] < l[k]
  BY <1>2 DEF Listed
<1> HIDE DEF l, n
<1>4. l \in Seq(S) /\ DOMAIN l = 1 .. n
  BY <1>3
<1>5. ToSet(l) = S
  BY <1>3, <1>4 DEF ToSet
<1>6. \A i, j \in 1 .. n : l[i] = l[j] => i = j
  <2> SUFFICES ASSUME NEW i \in 1 .. n, NEW j \in 1 .. n, l[i] = l[j], i # j PROVE FALSE
    OBVIOUS
  <2>1. i < j \/ j < i
    OBVIOUS
  <2>2. l[i] \in Int /\ l[j] \in Int
    BY <1>1, <1>3
  <2>3. l[i] < l[j] \/ l[j] < l[i]
    BY <1>3, <2>1
  <2> QED
    BY <2>2, <2>3
<1> QED
  BY <1>4, <1>5, <1>6 DEF l

-----------------------------------------------------------------------------
(* The steps that change no entity.                                        *)

\* Before the pass has collected anything.
LEMMA CleanWork ==
    /\ Clean.candidates = {} /\ Clean.duplicates = {} /\ Clean.oldStyles = {}
    /\ Clean.newStyles = <<>> /\ Clean.sources = {} /\ DOMAIN Clean.target = {}
    /\ Clean.target = <<>>
  BY DEF Clean

\* The pass begins.
LEMMA StartKeeps == ASSUME InstancingAssumption, SolidInv, Start PROVE SolidInv'
<1> DEFINE S == OfKind(ent, {"brep"})
<1>1. TypeOK'
  BY CleanWork DEF SolidInv, TypeOK, Start
<1>2. S \in SUBSET DOMAIN ent /\ Whole(ent)
  BY DEF SolidInv, TypeOK, OfKind
<1>3. todo' \in Seq(S) /\ ToSet(todo') = S
  <2> HIDE DEF S
  <2>1. InOrder(S) \in Seq(S) /\ ToSet(InOrder(S)) = S
    BY <1>2, AllRepresentations
  <2> QED
    BY <2>1 DEF Start, S
<1>4. CASE Quiet
  <2>1. Quiet'
    BY <1>3, <1>4 DEF Quiet, Start
  <2> QED
    BY <1>1, <2>1 DEF SolidInv
<1>5. CASE Running
  <2>1. ent = start /\ start \in Files[mode] /\ mode \in DOMAIN Files
    BY <1>5 DEF Running, Start, SolidInv, TypeOK
  <2>2. \A s \in OfKind(start, {"style"}) : Parents(start, s) # {}
    BY <2>1, FileIsWhole
  <2>3. ent' = ent /\ start' = start /\ work' = Clean /\ step' = "next" /\ mode' = mode
    BY DEF Start
  <2>4. Grown'
    BY <2>1, <2>3, CleanWork DEF Grown, OfKind
  <2>5. Collected'
    BY <2>3, CleanWork DEF Collected
  <2>6. Targets' /\ NewStyles'
    <3>1. ToSet(<<>>) = {} /\ <<>> \in Seq(OfKind(ent, {"style"}))
      BY DEF ToSet
    <3>2. OfKind(ent, {"style"}) \ DOMAIN start = {}
      BY <2>1 DEF OfKind
    <3> QED
      BY <2>3, <3>1, <3>2, CleanWork DEF Targets, NewStyles
  <2>7. \A n \in DOMAIN ent : Parents(ent, n) = {} => MayBeUnused(ent, n)
    BY <2>1 DEF MayBeUnused
  <2>8. Emitting'
    BY <2>1, <2>3, <2>4, <2>5, <2>6, <2>7 DEF Emitting, MayBeUnused
  <2>9. TodoReps' /\ SettledSoFar'
    BY <1>3, <2>1, <2>3 DEF TodoReps, SettledSoFar
  <2>10. Running'
    BY <1>5, <2>1, <2>3, <2>8, <2>9 DEF Running, Start
  <2> QED
    BY <1>1, <2>10 DEF SolidInv
<1> QED
  BY <1>4, <1>5 DEF SolidInv

\* Without a candidate the assembly pass ends at once.
LEMMA NothingToDoKeeps == ASSUME SolidInv, NothingToDo PROVE SolidInv'
<1>1. TypeOK'
  BY DEF SolidInv, TypeOK, NothingToDo
<1>2. CASE Quiet
  BY <1>1, <1>2 DEF SolidInv, NothingToDo, Quiet
<1>3. CASE Running
  BY <1>1, <1>3 DEF SolidInv, NothingToDo, Running
<1> QED
  BY <1>2, <1>3 DEF SolidInv

\* The output of the first run is the file of the second.
LEMMA RunAgainKeeps == ASSUME SolidInv, RunAgain PROVE SolidInv'
<1>1. TypeOK'
  BY CleanWork DEF SolidInv, TypeOK, RunAgain
<1>2. CASE AllSettled(ent)
  <2>1. Quiet'
    BY <1>2 DEF RunAgain, Quiet
  <2> QED
    BY <1>1, <2>1 DEF SolidInv
<1>3. CASE ~ AllSettled(ent)
  <2>1. Running /\ mode = "assembly" /\ ent = start /\ start \in Files[mode]
    BY <1>3 DEF SolidInv, Running, Finished, Quiet, RunAgain
  <2>2. Running'
    BY <2>1 DEF Running, RunAgain
  <2> QED
    BY <1>1, <2>2 DEF SolidInv
<1> QED
  BY <1>2, <1>3

\* The file is put back as it was.
LEMMA RollBackKeeps == ASSUME InstancingAssumption, SolidInv, RollBack PROVE SolidInv'
<1>1. Running /\ mode = "assembly" /\ start \in Files[mode] /\ mode \in DOMAIN Files
  BY DEF SolidInv, TypeOK, Quiet, Running, RollBack
<1>2. Whole(start)
  BY <1>1, FileIsWhole
<1>3. TypeOK'
  BY <1>2 DEF SolidInv, TypeOK, RollBack
<1>4. Running'
  BY <1>1 DEF Running, RollBack
<1> QED
  BY <1>3, <1>4 DEF SolidInv

\* The first of the representations that are left.
LEMMA FirstOfThem ==
    ASSUME NEW S, NEW l \in Seq(S), l # <<>>
    PROVE  /\ Head(l) \in S /\ Head(l) \in ToSet(l) /\ Tail(l) \in Seq(S)
           /\ ToSet(l) = {Head(l)} \cup ToSet(Tail(l))
           /\ \A i \in DOMAIN Tail(l) : i + 1 \in DOMAIN l /\ Tail(l)[i] = l[i + 1]
           /\ Head(l) = l[1] /\ 1 \in DOMAIN l
<1> DEFINE n == Len(l)
<1>1. n \in Nat /\ DOMAIN l = 1 .. n /\ n # 0
  OBVIOUS
<1>2. Head(l) = l[1] /\ 1 \in 1 .. n /\ Tail(l) \in Seq(S) /\ l[1] \in S
  BY <1>1
<1>3. DOMAIN Tail(l) = 1 .. n - 1 /\ \A i \in 1 .. n - 1 : i + 1 \in 1 .. n /\ Tail(l)[i] = l[i + 1]
  BY <1>1
<1> HIDE DEF n
<1>4. \A i \in 1 .. n : i = 1 \/ (i - 1 \in 1 .. n - 1 /\ Tail(l)[i - 1] = l[i])
  <2> SUFFICES ASSUME NEW i \in 1 .. n, i # 1 PROVE i - 1 \in 1 .. n - 1 /\ Tail(l)[i - 1] = l[i]
    OBVIOUS
  <2>1. i - 1 \in 1 .. n - 1 /\ (i - 1) + 1 = i
    BY <1>1
  <2> QED
    BY <1>3, <2>1
<1>5. ToSet(l) = {l[1]} \cup ToSet(Tail(l))
  <2> DEFINE t == Tail(l)
  <2>0. /\ DOMAIN t = 1 .. n - 1 /\ \A i \in 1 .. n - 1 : i + 1 \in 1 .. n /\ t[i] = l[i + 1]
        /\ \A i \in 1 .. n : i = 1 \/ (i - 1 \in 1 .. n - 1 /\ t[i - 1] = l[i])
    BY <1>3, <1>4
  <2> HIDE DEF t
  <2>1. ToSet(l) = {l[i] : i \in 1 .. n} /\ ToSet(t) = {t[i] : i \in 1 .. n - 1}
    BY <1>1, <2>0 DEF ToSet
  <2>2. \A i \in 1 .. n : l[i] \in {l[1]} \cup ToSet(t)
    BY <2>0, <2>1
  <2>3. \A i \in 1 .. n - 1 : t[i] \in ToSet(l)
    BY <2>0, <2>1
  <2>4. l[1] \in ToSet(l)
    BY <1>2, <2>1
  <2>5. ToSet(l) \subseteq {l[1]} \cup ToSet(t)
    BY <2>1, <2>2
  <2>6. ToSet(t) \subseteq ToSet(l)
    BY <2>1, <2>3
  <2> QED
    BY <2>4, <2>5, <2>6 DEF t
<1> QED
  BY <1>1, <1>2, <1>3, <1>5

\* The solids, faces and styles of the file are where they were, and as they were.
LEMMA GrownKeepsLooks ==
    ASSUME InstancingAssumption, TypeOK, start \in Files[mode], Grown
    PROVE  /\ Whole(start)
           /\ \A n \in OfKind(start, {"solid", "face", "style", "value"}) : n \in DOMAIN ent /\ ent[n] = start[n]
           /\ OfKind(ent, {"solid"}) = OfKind(start, {"solid"})
           /\ OfKind(start, {"brep"}) \subseteq OfKind(ent, {"brep"})
           /\ \A s, t \in OfKind(start, {"solid"}) : Alike(ent, s, t) <=> Alike(start, s, t)
<1>1. Whole(start) /\ \A n \in DOMAIN start : start[n].kind \notin {"map", "mapped", "use"}
  BY FileIsWhole DEF TypeOK
<1>2. \A n \in OfKind(start, {"solid", "face", "style", "value"}) : n \in DOMAIN ent /\ ent[n] = start[n]
  BY DEF Grown, OfKind, Lists, Reps
<1>3. OfKind(ent, {"solid"}) = OfKind(start, {"solid"})
  BY DEF Grown, OfKind
<1>4. OfKind(start, {"brep"}) \subseteq OfKind(ent, {"brep"})
  BY DEF Grown, OfKind
<1>5. \A n \in OfKind(ent, {"style"}) : (n \in DOMAIN start /\ ent[n] = start[n]) \/ ent[n].of \notin OfKind(start, {"face"})
  BY DEF Grown, OfKind, Lists, Reps
<1>6. \A n \in OfKind(start, {"solid", "face", "style"}) : n \in DOMAIN ent /\ ent[n] = start[n]
  BY <1>2 DEF OfKind
<1>7. \A s, t \in OfKind(start, {"solid"}) : Alike(ent, s, t) <=> Alike(start, s, t)
  BY <1>1, <1>5, <1>6, GrownAlike
<1> QED
  BY <1>1, <1>2, <1>3, <1>4, <1>7

\* The families of the next representation are found.
LEMMA NextRepresentationKeeps ==
    ASSUME InstancingAssumption, SolidInv, NextRepresentation
    PROVE  SolidInv'
<1>1. TypeOK'
  BY DEF SolidInv, TypeOK, NextRepresentation
<1> DEFINE r == Head(todo)
<1>2. Whole(ent) /\ \A shape \in DOMAIN Period : Period[shape] \in {1, 2, 4}
  BY PeriodsAreTurns DEF SolidInv, TypeOK
<1>3. CASE Quiet
  <2>1. r \in OfKind(ent, {"brep"}) /\ Settled(ent, r)
    BY <1>3, FirstOfThem DEF Quiet, NextRepresentation, AllSettled
  <2> HIDE DEF r
  <2>2. Families(ent, r) = {}
    BY <1>2, <2>1, SettledHasNone
  <2>3. Quiet'
    BY <1>3, <2>2 DEF Quiet, NextRepresentation, r
  <2> QED
    BY <1>1, <2>3 DEF SolidInv
<1>4. CASE Running
  <2>1. Emitting /\ TodoReps /\ SettledSoFar /\ todo # <<>> /\ start \in Files[mode]
    BY <1>4 DEF Running, NextRepresentation
  <2>2. /\ OfKind(ent, {"solid"}) = OfKind(start, {"solid"})
        /\ OfKind(start, {"brep"}) \subseteq OfKind(ent, {"brep"})
        /\ \A s, t \in OfKind(start, {"solid"}) : Alike(ent, s, t) <=> Alike(start, s, t)
    BY <2>1, GrownKeepsLooks DEF SolidInv, Emitting
  <2>3. r \in OfKind(start, {"brep"})
    BY <2>1, FirstOfThem DEF TodoReps
  <2>a. r \in OfKind(ent, {"brep"})
    BY <2>2, <2>3
  <2> HIDE DEF r
  <2>4. FamiliesAre(ent, r, Families(ent, r))
    BY <1>2, <2>a, FamiliesOfARepresentation
  <2>5. Solids(ent, r) \subseteq OfKind(start, {"solid"})
    BY <2>2 DEF Solids
  <2>6. ent' = ent /\ start' = start /\ todo' = todo /\ work' = work /\ mode' = mode
        /\ families' = Families(ent, r) /\ step' = "emit" /\ round' = round
    BY DEF NextRepresentation, r
  <2>7. Remaining'
    <3> DEFINE fs == Families(ent, r)
    <3>1. /\ \A f \in fs : /\ f \subseteq Solids(ent, r) /\ \E s, t \in f : s # t
                           /\ \A s, t \in f : s # t => Alike(ent, s, t)
                           /\ \A g \in fs : f # g => f \cap g = {}
          /\ \/ Cardinality(Solids(ent, r)) < 3
             \/ \A s, t \in Solids(ent, r) : Alike(ent, s, t) => \E f \in fs : {s, t} \subseteq f
      BY <2>4 DEF FamiliesAre
    <3> HIDE DEF fs
    <3>2. \A f \in fs : \A s, t \in f : s # t => Alike(start, s, t)
      BY <2>2, <2>5, <3>1
    <3>3. \/ Cardinality(Solids(ent, r)) < 3
          \/ \A s, t \in Solids(ent, r) : Alike(start, s, t) => \E f \in fs : {s, t} \subseteq f
      BY <2>2, <2>5, <3>1
    <3> QED
      BY <2>1, <2>6, <3>1, <3>2, <3>3 DEF Remaining, fs, r
  <2>8. Emitting' /\ TodoReps' /\ SettledSoFar'
    BY <2>1, <2>6 DEF Emitting, TodoReps, SettledSoFar, Grown, Collected, Targets, NewStyles,
                      MayBeUnused, Seeds
  <2>9. Running'
    BY <1>4, <2>1, <2>6, <2>7, <2>8 DEF Running
  <2> QED
    BY <1>1, <2>9 DEF SolidInv
<1> QED
  BY <1>3, <1>4 DEF SolidInv

\* A representation without further families is settled.
LEMMA EndRepresentationKeeps ==
    ASSUME InstancingAssumption, SolidInv, EndRepresentation
    PROVE  SolidInv'
<1>1. TypeOK'
  BY DEF SolidInv, TypeOK, EndRepresentation
<1> DEFINE r == Head(todo)
<1>2. ent' = ent /\ start' = start /\ todo' = Tail(todo) /\ work' = work /\ mode' = mode
      /\ families = {} /\ step' = "next" /\ step = "emit" /\ round' = round
  BY DEF EndRepresentation
<1>3. CASE Quiet
  <2>1. Tail(todo) \in Seq(OfKind(ent, {"brep"}))
    BY <1>2, <1>3, FirstOfThem DEF Quiet
  <2>2. Quiet'
    BY <1>2, <1>3, <2>1 DEF Quiet
  <2> QED
    BY <1>1, <2>2 DEF SolidInv
<1>4. CASE Running
  <2>1. Emitting /\ TodoReps /\ SettledSoFar /\ Remaining /\ start \in Files[mode]
    BY <1>2, <1>4 DEF Running
  <2>2. /\ OfKind(ent, {"solid"}) = OfKind(start, {"solid"})
        /\ \A s, t \in OfKind(start, {"solid"}) : Alike(ent, s, t) <=> Alike(start, s, t)
    BY <2>1, GrownKeepsLooks DEF SolidInv, Emitting
  <2>3. todo # <<>> /\ todo \in Seq(OfKind(start, {"brep"}))
    BY <2>1 DEF Remaining, TodoReps
  <2>4. Tail(todo) \in Seq(OfKind(start, {"brep"})) /\ ToSet(todo) = {r} \cup ToSet(Tail(todo))
    BY <2>3, FirstOfThem
  <2>5. Settled(ent, r)
    <3>1. Cardinality(Solids(ent, r)) < 3 \/ \A s, t \in Solids(ent, r) : ~ Alike(start, s, t)
      BY <1>2, <2>1 DEF Remaining
    <3>2. Solids(ent, r) \subseteq OfKind(start, {"solid"})
      BY <2>2 DEF Solids
    <3> QED
      BY <2>2, <3>1, <3>2 DEF Settled
  <2>6. SettledSoFar'
    BY <1>2, <2>1, <2>4, <2>5 DEF SettledSoFar
  <2>7. Emitting' /\ TodoReps'
    BY <1>2, <2>1, <2>4 DEF Emitting, TodoReps, Grown, Collected, Targets, NewStyles,
                      MayBeUnused, Seeds
  <2>9. Running'
    BY <1>2, <1>4, <2>1, <2>6, <2>7 DEF Running
  <2> QED
    BY <1>1, <2>9 DEF SolidInv
<1> QED
  BY <1>3, <1>4 DEF SolidInv

\* A pass that found no family has changed nothing.
LEMMA NoFamiliesKeeps ==
    ASSUME InstancingAssumption, SolidInv, NoFamilies
    PROVE  SolidInv'
<1>1. TypeOK'
  BY DEF SolidInv, TypeOK, NoFamilies
<1>2. ent' = ent /\ start' = start /\ todo = <<>> /\ work' = work /\ mode' = mode
      /\ step' = "done" /\ step = "next" /\ round' = round
  BY DEF NoFamilies
<1>3. CASE Quiet
  BY <1>1, <1>2, <1>3 DEF Quiet, SolidInv
<1>4. CASE Running
  <2>1. Emitting /\ SettledSoFar /\ start \in Files[mode] /\ work.sources = {}
    BY <1>2, <1>4 DEF Running, NoFamilies
  <2>2. /\ \A n \in DOMAIN start : start[n].kind \notin {"map", "mapped", "use"}
        /\ \A q \in OfKind(start, {"brep"}) : ~ start[q].source
    BY <2>1, FileIsWhole DEF SolidInv, TypeOK
  <2>3. AllSettled(ent)
    <3>1. ToSet(<<>>) = {}
      BY DEF ToSet
    <3> QED
      BY <1>2, <2>1, <3>1 DEF AllSettled, SettledSoFar
  <2>4. /\ OfKind(ent, {"brep"}) \subseteq DOMAIN start
        /\ \A n \in DOMAIN start : n \in DOMAIN ent /\ ent[n].kind = start[n].kind
        /\ \A n \in DOMAIN start : start[n].kind = "brep" => ent[n].source = start[n].source
        /\ \A n \in DOMAIN ent \ DOMAIN start :
              /\ ent[n].kind \in {"brep", "map", "mapped", "style"}
              /\ ent[n].kind = "map" => ent[n].rep \notin DOMAIN start
              /\ ent[n].kind = "style" => ent[n].of \notin DOMAIN start
    BY <2>1 DEF Emitting, Grown
  <2>5. Whole(ent) /\ \A n \in DOMAIN ent : Fits(ent, ent[n])
    BY DEF SolidInv, TypeOK, Whole
  <2>6. \A n \in DOMAIN ent : ent[n].kind \notin {"map", "mapped", "use"}
    <3>1. ASSUME NEW n \in DOMAIN ent, ent[n].kind = "map" PROVE FALSE
      <4>0. n \notin DOMAIN start
        <5> SUFFICES ASSUME n \in DOMAIN start PROVE FALSE
          OBVIOUS
        <5>1. start[n].kind = "map"
          BY <2>4, <3>1
        <5> QED
          BY <2>2, <5>1
      <4>1. ent[n].rep \notin DOMAIN start
        BY <2>4, <3>1, <4>0
      <4>2. ent[n].rep \in OfKind(ent, {"brep"})
        BY <2>5, <3>1, WholeFields DEF Leads, OfKind
      <4> QED
        BY <2>4, <4>1, <4>2
    <3>2. ASSUME NEW n \in DOMAIN ent, ent[n].kind = "mapped" PROVE FALSE
      BY <2>5, <3>1, <3>2, WholeFields DEF Leads
    <3>3. \A n \in DOMAIN ent : ent[n].kind # "use"
      BY <2>2, <2>4
    <3> QED
      BY <3>1, <3>2, <3>3
  <2>7. OfKind(ent, {"style"}) \ DOMAIN start = {}
    <3> SUFFICES ASSUME NEW n \in OfKind(ent, {"style"}), n \notin DOMAIN start PROVE FALSE
      OBVIOUS
    <3>1. n \in DOMAIN ent /\ ent[n].of \in OfKind(ent, {"solid", "face", "mapped"}) /\ ent[n].of \notin DOMAIN start
      BY <2>4, <2>5 DEF Fits, OfKind
    <3> QED
      BY <2>4, <2>6, <3>1 DEF OfKind
  <2>8. Seeds = {} /\ ToSet(work.newStyles) = {}
    BY <2>1, <2>7 DEF Emitting, Collected, NewStyles, Seeds
  <2>9. \A n \in DOMAIN ent : Parents(ent, n) = {} => MayBeUnused(ent, n)
    BY <2>1, <2>8 DEF Emitting
  <2>10. MappedItems(ent) = {} /\ Maps(ent) = {} /\ OfKind(ent, {"use"}) = {}
    BY <2>6 DEF MappedItems, Maps, OfKind
  <2>11. Finished'
    BY <1>2, <2>3, <2>9, <2>10 DEF Finished, MayBeUnused
  <2>12. Running'
    BY <1>2, <1>4, <2>1, <2>11 DEF Running
  <2> QED
    BY <1>1, <2>12 DEF SolidInv
<1> QED
  BY <1>3, <1>4 DEF SolidInv

-----------------------------------------------------------------------------
(* Entities stay whole when the ones they refer to keep their kinds.       *)

\* A list whose members are in a set is a list of the set.
LEMMA SequenceInto ==
    ASSUME NEW S, NEW l \in Seq(S), NEW T, \A x \in ToSet(l) : x \in T
    PROVE  l \in Seq(T)
<1> DEFINE n == Len(l)
<1>1. n \in Nat /\ DOMAIN l = 1 .. n /\ l = [i \in 1 .. n |-> l[i]]
  OBVIOUS
<1> HIDE DEF n
<1>2. \A i \in 1 .. n : l[i] \in T
  BY <1>1 DEF ToSet
<1> QED
  BY <1>1, <1>2

\* An entity fits into every section in which what it refers to is as it was.
LEMMA FitsStays ==
    ASSUME NEW e, NEW f, NEW x, Fits(e, x),
           \A n \in Refs(x) : n \in DOMAIN f /\ f[n].kind = e[n].kind
    PROVE  Fits(f, x)
<1>1. \A n \in Refs(x) : \A K : n \in OfKind(e, K) => n \in OfKind(f, K)
  BY DEF OfKind
<1>2. ASSUME NEW K, x.items \in Seq(OfKind(e, K)), Refs(x) = ToSet(x.items)
      PROVE  x.items \in Seq(OfKind(f, K))
  <2> DEFINE l == x.items
             S == OfKind(e, K)
             T == OfKind(f, K)
  <2>1. l \in Seq(S) /\ Refs(x) = ToSet(l) /\ \A y \in Refs(x) : y \in S => y \in T
    BY <1>1, <1>2
  <2> HIDE DEF l, S, T
  <2>2. \A y \in ToSet(l) : y \in S
    BY <2>1 DEF ToSet
  <2>3. l \in Seq(T)
    BY <2>1, <2>2, SequenceInto
  <2> QED
    BY <2>3 DEF l, T
<1>3. CASE x.kind \in {"brep", "shape"}
  <2>1. x.items \in Seq(OfKind(f, {"solid", "mapped"}))
    BY <1>2, <1>3, SolidReferences DEF Fits
  <2> QED
    BY <1>3, <2>1 DEF Fits
<1>4. CASE x.kind \in {"presentation", "layer"}
  <2>1. x.items \in Seq(OfKind(f, {"style"}))
    BY <1>2, <1>4, SolidReferences DEF Fits
  <2> QED
    BY <1>4, <2>1 DEF Fits
<1>5. CASE x.kind = "solid"
  <2>1. x.faces \subseteq OfKind(f, {"face"})
    BY <1>1, <1>5, SolidReferences DEF Fits
  <2> QED
    BY <1>5, <2>1 DEF Fits
<1>6. CASE x.kind = "face"
  <2>1. x.on \in OfKind(f, {"value"})
    BY <1>1, <1>6, SolidReferences DEF Fits
  <2> QED
    BY <1>6, <2>1 DEF Fits
<1>7. CASE x.kind = "style"
  <2>1. x.of \in OfKind(f, {"solid", "face", "mapped"})
    BY <1>1, <1>7, SolidReferences DEF Fits
  <2> QED
    BY <1>7, <2>1 DEF Fits
<1>8. CASE x.kind = "note"
  <2>1. x.of \in OfKind(f, {"solid", "face", "value"})
    BY <1>1, <1>8, SolidReferences DEF Fits
  <2> QED
    BY <1>8, <2>1 DEF Fits
<1>9. CASE x.kind = "map"
  <2>1. x.rep \in OfKind(f, {"brep"})
    BY <1>1, <1>9, SolidReferences DEF Fits
  <2> QED
    BY <1>9, <2>1 DEF Fits
<1>10. CASE x.kind = "mapped"
  <2>1. x.map \in OfKind(f, {"map"})
    BY <1>1, <1>10, SolidReferences DEF Fits
  <2> QED
    BY <1>10, <2>1 DEF Fits
<1>11. CASE x.kind = "sdr"
  <2>1. x.product \in OfKind(f, {"product"}) /\ x.rep \in OfKind(f, {"brep", "shape"})
    BY <1>1, <1>11, SolidReferences DEF Fits
  <2> QED
    BY <1>11, <2>1 DEF Fits
<1>12. CASE x.kind = "use"
  <2>1. {x.parent, x.child} \subseteq OfKind(f, {"product"})
    BY <1>1, <1>12, SolidReferences DEF Fits
  <2>2. x.rep \in OfKind(f, {"brep"}) /\ x.within \in OfKind(f, {"shape"})
    BY <1>1, <1>12, SolidReferences DEF Fits
  <2> QED
    BY <1>12, <2>1, <2>2 DEF Fits
<1>13. CASE x.kind \in {"value", "product"}
  BY <1>13 DEF Fits
<1> QED
  BY <1>3, <1>4, <1>5, <1>6, <1>7, <1>8, <1>9, <1>10, <1>11, <1>12, <1>13 DEF Fits

\* A list of items is changed, and nothing else of the entity.
LEMMA NewItems ==
    ASSUME NEW x, "items" \in DOMAIN x, "kind" \in DOMAIN x, NEW l
    PROVE  LET y == [x EXCEPT !.items = l] IN
           /\ DOMAIN y = DOMAIN x /\ y.items = l /\ y.kind = x.kind
           /\ "source" \in DOMAIN x => y.source = x.source
OBVIOUS

\* A representation or a list with other items fits.
LEMMA RelistedFits ==
    ASSUME NEW e, NEW f, NEW x, Fits(e, x), NEW l,
           \/ x.kind \in {"brep", "shape"} /\ l \in Seq(OfKind(f, {"solid", "mapped"}))
           \/ x.kind \in {"presentation", "layer"} /\ l \in Seq(OfKind(f, {"style"}))
    PROVE  LET y == [x EXCEPT !.items = l] IN
           /\ Fits(f, y) /\ y.kind = x.kind /\ y.items = l /\ Refs(y) = ToSet(l)
           /\ x.kind = "brep" => y.source = x.source
<1> DEFINE y == [x EXCEPT !.items = l]
<1>1. /\ "kind" \in DOMAIN x /\ "items" \in DOMAIN x
      /\ x.kind = "brep" => "source" \in DOMAIN x /\ x.source \in BOOLEAN
  BY DEF Fits
<1>2. /\ DOMAIN y = DOMAIN x /\ y.items = l /\ y.kind = x.kind
      /\ "source" \in DOMAIN x => y.source = x.source
  BY <1>1
<1> HIDE DEF y
<1>3. Fits(f, y)
  BY <1>1, <1>2 DEF Fits
<1>4. Refs(y) = ToSet(l)
  BY <1>2, SolidReferences
<1> QED
  BY <1>1, <1>2, <1>3, <1>4 DEF y

-----------------------------------------------------------------------------
(* Retargeting the other representations.                                  *)

\* A section in which only the items of representations and of lists are others.
OnlyItems(e, f, kinds) ==
    /\ \A n \in DOMAIN e : n \in DOMAIN f /\ f[n].kind = e[n].kind
    /\ \A n \in DOMAIN e : e[n].kind \notin kinds => f[n] = e[n]
    /\ \A n \in OfKind(e, {"brep"}) : f[n].source = e[n].source

\* Solids stay alike, or not, while entities of other kinds change.
LEMMA AlikeStays ==
    ASSUME NEW e, NEW f, Whole(e), DOMAIN f = DOMAIN e,
           OnlyItems(e, f, {"brep", "shape", "presentation", "layer"})
    PROVE  /\ \A s, t \in OfKind(e, {"solid"}) : Alike(f, s, t) <=> Alike(e, s, t)
           /\ \A K : OfKind(f, K) = OfKind(e, K)
<1>1. \A K : OfKind(f, K) = OfKind(e, K)
  BY DEF OnlyItems, OfKind
<1>2. \A n \in OfKind(e, {"solid", "face", "style"}) : n \in DOMAIN f /\ f[n] = e[n]
  BY DEF OnlyItems, OfKind
<1>3. \A n \in OfKind(f, {"style"}) : n \in DOMAIN e /\ f[n] = e[n]
  BY <1>1, <1>2 DEF OfKind
<1> QED
  BY <1>1, <1>2, <1>3, GrownAlike

\* In every other representation the members give way to their mapped items.
LEMMA RetargetKeeps ==
    ASSUME InstancingAssumption, SolidInv, Retarget
    PROVE  SolidInv'
<1> DEFINE f == Retargeted(ent)
           R == OfKind(ent, {"brep", "shape"}) \ work.sources
           l(n) == Swapped(ent[n].items, work.target)
<1>1. /\ ent' = f /\ start' = start /\ todo' = todo /\ work' = work /\ mode' = mode /\ round' = round
      /\ step = "next" /\ step' = "lists" /\ todo = <<>> /\ work.sources # {}
  BY DEF Retarget
<1>2. Running /\ Emitting /\ SettledSoFar /\ start \in Files[mode]
  <2>1. Running
    BY <1>1, CleanWork DEF SolidInv, Quiet
  <2> QED
    BY <1>1, <2>1 DEF Running
<1>3. Grown /\ Collected /\ Targets /\ NewStyles /\ Whole(ent) /\ TypeOK
  BY <1>2 DEF SolidInv, TypeOK, Emitting
<1>4. Whole(start) /\ \A n \in OfKind(start, {"solid", "face", "style", "value"}) : n \in DOMAIN ent /\ ent[n] = start[n]
  BY <1>2, <1>3, GrownKeepsLooks
<1>5. DOMAIN f = DOMAIN ent /\ \A n \in DOMAIN ent :
         /\ n \notin R => f[n] = ent[n]
         /\ n \in R => f[n] = [ent[n] EXCEPT !.items = l(n)]
  BY DEF Retargeted
<1> HIDE DEF f
<1>6. ASSUME NEW n \in R
      PROVE  /\ n \in DOMAIN ent /\ ent[n].kind \in {"brep", "shape"} /\ n \notin work.sources
             /\ ent[n].items \in Seq(OfKind(ent, {"solid", "mapped"}))
             /\ Fits(ent, ent[n]) /\ Refs(ent[n]) = ToSet(ent[n].items)
  <2>1. n \in DOMAIN ent /\ ent[n].kind \in {"brep", "shape"} /\ n \notin work.sources
    BY <1>6 DEF OfKind
  <2>2. Fits(ent, ent[n])
    BY <1>3, <2>1 DEF Whole
  <2> QED
    BY <2>1, <2>2, SolidReferences DEF Fits
<1>7. \A s \in DOMAIN work.target :
         /\ s \in OfKind(ent, {"solid"}) /\ work.target[s] \in OfKind(ent, {"mapped"})
         /\ s \in work.duplicates \/ \E r \in work.sources : ent[r].items = <<s>>
  BY <1>3, <1>4 DEF Targets, OfKind
<1>8. ASSUME NEW n \in R
      PROVE  /\ l(n) \in Seq(OfKind(ent, {"solid", "mapped"}))
             /\ \A x \in ToSet(ent[n].items) : x \notin DOMAIN work.target => x \in ToSet(l(n))
             /\ \A y \in ToSet(l(n)) : y \in ToSet(ent[n].items) \/ y \in OfKind(ent, {"mapped"})
             /\ ent[n].items = <<>> => l(n) = <<>>
  <2> DEFINE items == ent[n].items
             S == OfKind(ent, {"solid", "mapped"})
  <2>1. items \in Seq(S) /\ \A x \in DOMAIN work.target : work.target[x] \in S
    BY <1>6, <1>7, <1>8 DEF OfKind
  <2> HIDE DEF items, S
  <2>2. /\ Swapped(items, work.target) \in Seq(S)
        /\ \A x \in ToSet(items) : x \notin DOMAIN work.target => x \in ToSet(Swapped(items, work.target))
        /\ \A y \in ToSet(Swapped(items, work.target)) :
              \/ y \in ToSet(items)
              \/ \E x \in DOMAIN work.target : y = work.target[x]
        /\ items = <<>> => Swapped(items, work.target) = <<>>
    BY <2>1, SwappedItems
  <2> QED
    BY <1>7, <2>2 DEF items, S
<1>9. ASSUME NEW n \in R
      PROVE  /\ f[n].kind = ent[n].kind /\ f[n].items = l(n) /\ Refs(f[n]) = ToSet(l(n))
             /\ ent[n].kind = "brep" => f[n].source = ent[n].source
             /\ Fits(ent, f[n])
  <2>1. Fits(ent, ent[n]) /\ ent[n].kind \in {"brep", "shape"} /\ n \in DOMAIN ent
    BY <1>6, <1>9
  <2>2. f[n] = [ent[n] EXCEPT !.items = l(n)] /\ l(n) \in Seq(OfKind(ent, {"solid", "mapped"}))
    BY <1>5, <1>8, <1>9, <2>1
  <2> DEFINE items == l(n)
  <2> HIDE DEF items
  <2>3. LET y == [ent[n] EXCEPT !.items = items] IN
           /\ Fits(ent, y) /\ y.kind = ent[n].kind /\ y.items = items /\ Refs(y) = ToSet(items)
           /\ ent[n].kind = "brep" => y.source = ent[n].source
    BY <2>1, <2>2, RelistedFits DEF items
  <2> QED
    BY <2>2, <2>3 DEF items
<1> HIDE DEF l
<1>10. OnlyItems(ent, f, {"brep", "shape"})
  <2>1. \A n \in DOMAIN ent : f[n].kind = ent[n].kind
    BY <1>5, <1>9
  <2>2. \A n \in DOMAIN ent : ent[n].kind \notin {"brep", "shape"} => f[n] = ent[n]
    BY <1>5 DEF OfKind
  <2>3. \A n \in OfKind(ent, {"brep"}) : f[n].source = ent[n].source
    <3> SUFFICES ASSUME NEW n \in OfKind(ent, {"brep"}) PROVE f[n].source = ent[n].source
      OBVIOUS
    <3>1. n \in DOMAIN ent /\ ent[n].kind = "brep"
      BY DEF OfKind
    <3> QED
      BY <1>5, <1>9, <3>1
  <2> QED
    BY <1>5, <2>1, <2>2, <2>3 DEF OnlyItems
<1>11. /\ \A s, t \in OfKind(ent, {"solid"}) : Alike(f, s, t) <=> Alike(ent, s, t)
       /\ \A K : OfKind(f, K) = OfKind(ent, K)
  <2>1. OnlyItems(ent, f, {"brep", "shape", "presentation", "layer"})
    BY <1>10 DEF OnlyItems
  <2> QED
    BY <1>3, <1>5, <2>1, AlikeStays
<1>12. Whole(f)
  <2> SUFFICES ASSUME NEW n \in DOMAIN ent PROVE Fits(f, f[n])
    BY <1>3, <1>5 DEF Whole
  <2>1. Fits(ent, f[n])
    BY <1>3, <1>5, <1>9 DEF Whole
  <2>2. \A m \in Refs(f[n]) : m \in DOMAIN f /\ f[m].kind = ent[m].kind
    BY <1>5, <1>10, <2>1, FitReferences DEF OnlyItems
  <2> QED
    BY <2>1, <2>2, FitsStays
<1>13. TypeOK'
  BY <1>1, <1>3, <1>12 DEF TypeOK
<1>14. \A n \in work.sources : f[n] = ent[n] /\ n \in DOMAIN ent
  BY <1>3, <1>5 DEF Grown, OfKind
<1>15. Grown'
  <2>1. \A n \in DOMAIN start :
          /\ n \in DOMAIN f /\ f[n].kind = start[n].kind
          /\ start[n].kind \notin Lists \cup Reps => f[n] = start[n]
          /\ start[n].kind = "brep" => f[n].source = start[n].source
    BY <1>3, <1>10 DEF Grown, OnlyItems, Reps, Lists, OfKind
  <2>2. \A n \in DOMAIN start : start[n].kind = "shape" /\ start[n].items = <<>> => f[n].items = <<>>
    <3> SUFFICES ASSUME NEW n \in DOMAIN start, start[n].kind = "shape", start[n].items = <<>>
                 PROVE  f[n].items = <<>>
      OBVIOUS
    <3>1. n \in DOMAIN ent /\ ent[n].kind = "shape" /\ ent[n].items = <<>>
      BY <1>3 DEF Grown
    <3> QED
      BY <1>5, <1>8, <1>9, <3>1
  <2>3. \A n \in DOMAIN f \ DOMAIN start :
          /\ n \in DOMAIN ent \ DOMAIN start
          /\ f[n].kind = ent[n].kind
          /\ f[n] = ent[n]
    <3> SUFFICES ASSUME NEW n \in DOMAIN f \ DOMAIN start
                 PROVE  n \in DOMAIN ent \ DOMAIN start /\ f[n] = ent[n]
      OBVIOUS
    <3>1. n \in DOMAIN ent \ DOMAIN start /\ ent[n].kind \in {"brep", "map", "mapped", "style"}
      BY <1>3, <1>5 DEF Grown
    <3>2. ent[n].kind = "brep" => n \in work.sources
      BY <1>3, <3>1 DEF Grown, OfKind
    <3> QED
      BY <1>10, <1>14, <3>1, <3>2 DEF OnlyItems
  <2>4. work.sources = OfKind(f, {"brep"}) \ DOMAIN start
    BY <1>3, <1>11 DEF Grown
  <2> QED
    BY <1>1, <1>3, <2>1, <2>2, <2>3, <2>4 DEF Grown
<1>16. Collected' /\ NewStyles'
  BY <1>1, <1>3, <1>11 DEF Collected, NewStyles
<1>17. Targets'
  <2>1. \A s \in DOMAIN work.target :
         /\ s \in OfKind(start, {"solid"}) /\ work.target[s] \in OfKind(f, {"mapped"})
         /\ s \in work.duplicates \/ \E r \in work.sources : f[r].items = <<s>>
    BY <1>3, <1>11, <1>14 DEF Targets
  <2> QED
    BY <1>1, <2>1 DEF Targets
<1>18. \A n \in DOMAIN start : start[n].kind \in Lists => f[n] = start[n]
  BY <1>2, <1>3, <1>10 DEF Emitting, Grown, OnlyItems, Lists
<1>19. ASSUME NEW n \in DOMAIN ent, Parents(f, n) = {}
       PROVE  MayBeUnused(f, n) \/ n \in Seeds \cup ToSet(work.newStyles)
  <2>1. CASE Parents(ent, n) = {}
    <3>1. MayBeUnused(ent, n) \/ n \in Seeds \cup ToSet(work.newStyles)
      BY <1>2, <2>1 DEF Emitting
    <3>2. MayBeUnused(ent, n) => MayBeUnused(f, n)
      <4>1. ent[n].kind = "brep" /\ ent[n].items = <<>> => f[n].items = <<>>
        BY <1>5, <1>8, <1>9
      <4> QED
        BY <1>10, <4>1 DEF MayBeUnused, OnlyItems
    <3> QED
      BY <3>1, <3>2
  <2>2. CASE Parents(ent, n) # {}
    <3>1. PICK p \in DOMAIN ent : n \in Refs(ent[p])
      BY <2>2 DEF Parents
    <3>2. n \notin Refs(f[p])
      BY <1>5, <1>19 DEF Parents
    <3>3. p \in R
      BY <1>5, <3>1, <3>2
    <3>4. n \in DOMAIN work.target
      BY <1>6, <1>8, <1>9, <3>1, <3>2, <3>3
    <3>5. ASSUME NEW r \in work.sources, ent[r].items = <<n>> PROVE FALSE
      <4>1. r \in DOMAIN ent /\ ent[r].kind = "brep" /\ f[r] = ent[r]
        BY <1>3, <1>14 DEF Grown, OfKind
      <4>2. Refs(f[r]) = ToSet(<<n>>)
        BY <3>5, <4>1, SolidReferences
      <4>3. n \in Refs(f[r])
        BY <4>2 DEF ToSet
      <4> QED
        BY <1>5, <1>19, <4>1, <4>3 DEF Parents
    <3> QED
      BY <1>7, <3>4, <3>5 DEF Seeds
  <2> QED
    BY <2>1, <2>2
<1>20. Emitting'
  BY <1>1, <1>5, <1>15, <1>16, <1>17, <1>18, <1>19 DEF Emitting, MayBeUnused, Seeds
<1>21. SettledSoFar'
  <2>1. ASSUME NEW r \in OfKind(ent, {"brep"}) PROVE Settled(f, r)
    <3>1. Settled(ent, r)
      <4>1. ToSet(<<>>) = {}
        BY DEF ToSet
      <4> QED
        BY <1>1, <1>2, <4>1 DEF SettledSoFar
    <3>2. r \in DOMAIN ent /\ ent[r].kind = "brep"
      BY DEF OfKind
    <3>3. Solids(f, r) \subseteq Solids(ent, r)
      <4>1. \A y \in ToSet(f[r].items) : y \in ToSet(ent[r].items) \/ y \in OfKind(ent, {"mapped"})
        BY <1>5, <1>8, <1>9, <3>2
      <4> QED
        BY <1>11, <4>1 DEF Solids, OfKind
    <3>4. \A s, t \in Solids(f, r) : Alike(f, s, t) => Alike(ent, s, t)
      BY <1>11, <3>3 DEF Solids
    <3> QED
      BY <1>3, <3>1, <3>3, <3>4, SettledStays
  <2> QED
    BY <1>1, <1>11, <2>1 DEF SettledSoFar
<1>22. Running'
  BY <1>1, <1>2, <1>20, <1>21 DEF Running
<1> QED
  BY <1>13, <1>22 DEF SolidInv

-----------------------------------------------------------------------------
(* Patching the lists.                                                     *)

\* Two lists one after the other have the members of both.
LEMMA JoinedLists ==
    ASSUME NEW S, NEW a \in Seq(S), NEW b \in Seq(S)
    PROVE  a \o b \in Seq(S) /\ ToSet(a \o b) = ToSet(a) \cup ToSet(b)
<1> DEFINE m == Len(a)
           n == Len(b)
           c == a \o b
<1>1. m \in Nat /\ n \in Nat /\ DOMAIN a = 1 .. m /\ DOMAIN b = 1 .. n
  OBVIOUS
<1>2. c \in Seq(S) /\ DOMAIN c = 1 .. m + n
  BY <1>1
<1>3. /\ \A i \in 1 .. m : i \in 1 .. m + n /\ c[i] = a[i]
      /\ \A i \in 1 .. n : m + i \in 1 .. m + n /\ c[m + i] = b[i]
  BY <1>1
<1>4. \A i \in 1 .. m + n : i \in 1 .. m \/ (i - m \in 1 .. n /\ c[i] = b[i - m])
  BY <1>1
<1> HIDE DEF c, m, n
<1>5. ToSet(c) = {c[i] : i \in 1 .. m + n} /\ ToSet(a) = {a[i] : i \in 1 .. m}
      /\ ToSet(b) = {b[i] : i \in 1 .. n}
  BY <1>1, <1>2 DEF ToSet
<1>6. ToSet(c) \subseteq ToSet(a) \cup ToSet(b)
  <2>1. \A i \in 1 .. m + n : c[i] \in ToSet(a) \cup ToSet(b)
    BY <1>3, <1>4, <1>5
  <2> QED
    BY <1>5, <2>1
<1>7. ToSet(a) \subseteq ToSet(c) /\ ToSet(b) \subseteq ToSet(c)
  BY <1>3, <1>5
<1> QED
  BY <1>2, <1>6, <1>7 DEF c

\* What patching the lists does to a section.
ListsArePatched(e, f, remove, add) ==
    /\ DOMAIN f = DOMAIN e /\ OnlyItems(e, f, Lists) /\ Whole(f)
    /\ \A n \in DOMAIN e : \A x \in Refs(f[n]) :
          /\ x \in Refs(e[n]) \/ x \in ToSet(add)
          /\ e[n].kind \in Lists => x \notin remove
    /\ \A n \in DOMAIN e : \A x \in Refs(e[n]) : x \notin remove => x \in Refs(f[n])
    /\ \A n \in DOMAIN e : e[n].kind \in Lists /\ Refs(e[n]) \cap remove # {} =>
          ToSet(add) \subseteq Refs(f[n])

\* Patching does that.
LEMMA PatchedSection ==
    ASSUME NEW e, Whole(e), NEW remove, NEW add \in Seq(OfKind(e, {"style"})),
           ToSet(add) \cap remove = {}
    PROVE  ListsArePatched(e, Patched(e, remove, add), remove, add)
<1> DEFINE f == Patched(e, remove, add)
           R == {n \in OfKind(e, Lists) : ToSet(e[n].items) \cap remove # {}}
           l(n) == Without(e[n].items, remove) \o add
           S == OfKind(e, {"style"})
<1>1. DOMAIN f = DOMAIN e /\ \A n \in DOMAIN e :
         /\ n \notin R => f[n] = e[n]
         /\ n \in R => f[n] = [e[n] EXCEPT !.items = l(n)]
  BY DEF Patched, Lists
<1>2. ASSUME NEW n \in DOMAIN e, e[n].kind \in Lists
      PROVE  e[n].items \in Seq(S) /\ Fits(e, e[n]) /\ Refs(e[n]) = ToSet(e[n].items)
  <2>1. Fits(e, e[n])
    BY DEF Whole
  <2> QED
    BY <1>2, <2>1, SolidReferences DEF Fits, Lists
<1>3. \A n \in R : n \in DOMAIN e /\ e[n].kind \in Lists
  BY DEF OfKind
<1> HIDE DEF f
<1>4. ASSUME NEW n \in R
      PROVE  l(n) \in Seq(S) /\ ToSet(l(n)) = (ToSet(e[n].items) \ remove) \cup ToSet(add)
  <2> DEFINE items == e[n].items
             w == Without(items, remove)
  <2>1. items \in Seq(S)
    BY <1>2, <1>3, <1>4
  <2> HIDE DEF items
  <2>2. w \in Seq(S \ remove) /\ ToSet(w) = ToSet(items) \ remove
    BY <2>1, WithoutMembers
  <2> HIDE DEF w, S
  <2>3. w \in Seq(S)
    <3>1. \A x \in ToSet(w) : x \in S
      BY <2>1, <2>2 DEF ToSet
    <3> QED
      BY <2>2, <3>1, SequenceInto
  <2>4. w \o add \in Seq(S) /\ ToSet(w \o add) = ToSet(w) \cup ToSet(add)
    BY <2>3, JoinedLists DEF S
  <2> QED
    BY <2>2, <2>4 DEF w, items
<1>5. ASSUME NEW n \in R
      PROVE  /\ f[n].kind = e[n].kind /\ f[n].items = l(n) /\ Refs(f[n]) = ToSet(l(n))
             /\ Fits(e, f[n])
  <2>1. Fits(e, e[n]) /\ e[n].kind \in {"presentation", "layer"} /\ n \in DOMAIN e
    BY <1>2, <1>3, <1>5 DEF Lists
  <2>2. f[n] = [e[n] EXCEPT !.items = l(n)] /\ l(n) \in Seq(OfKind(e, {"style"}))
    BY <1>1, <1>4, <1>5, <2>1
  <2> DEFINE items == l(n)
  <2> HIDE DEF items
  <2>3. LET y == [e[n] EXCEPT !.items = items] IN
           /\ Fits(e, y) /\ y.kind = e[n].kind /\ y.items = items /\ Refs(y) = ToSet(items)
           /\ e[n].kind = "brep" => y.source = e[n].source
    BY <2>1, <2>2, RelistedFits DEF items
  <2> QED
    BY <2>2, <2>3 DEF items
<1>6. OnlyItems(e, f, Lists)
  <2>1. \A n \in DOMAIN e : f[n].kind = e[n].kind
    BY <1>1, <1>5
  <2>2. \A n \in DOMAIN e : e[n].kind \notin Lists => f[n] = e[n]
    BY <1>1, <1>3
  <2>3. \A n \in OfKind(e, {"brep"}) : f[n].source = e[n].source
    <3> SUFFICES ASSUME NEW n \in OfKind(e, {"brep"}) PROVE f[n].source = e[n].source
      OBVIOUS
    <3>1. n \in DOMAIN e /\ e[n].kind \notin Lists
      BY DEF OfKind, Lists
    <3> QED
      BY <2>2, <3>1
  <2> QED
    BY <1>1, <2>1, <2>2, <2>3 DEF OnlyItems
<1>7. Whole(f)
  <2> SUFFICES ASSUME NEW n \in DOMAIN e PROVE Fits(f, f[n])
    BY <1>1 DEF Whole
  <2>1. Fits(e, f[n])
    BY <1>1, <1>5 DEF Whole
  <2>2. \A m \in Refs(f[n]) : m \in DOMAIN f /\ f[m].kind = e[m].kind
    BY <1>1, <1>6, <2>1, FitReferences DEF OnlyItems
  <2> QED
    BY <2>1, <2>2, FitsStays
<1>8. ASSUME NEW n \in DOMAIN e
      PROVE  /\ \A x \in Refs(f[n]) : /\ x \in Refs(e[n]) \/ x \in ToSet(add)
                                      /\ e[n].kind \in Lists => x \notin remove
             /\ \A x \in Refs(e[n]) : x \notin remove => x \in Refs(f[n])
             /\ e[n].kind \in Lists /\ Refs(e[n]) \cap remove # {} => ToSet(add) \subseteq Refs(f[n])
  <2>1. CASE n \in R
    <3>1. /\ Refs(f[n]) = (Refs(e[n]) \ remove) \cup ToSet(add)
      BY <1>2, <1>3, <1>4, <1>5, <2>1
    <3> QED
      BY <3>1
  <2>2. CASE n \notin R
    <3>1. f[n] = e[n]
      BY <1>1, <2>2
    <3>2. e[n].kind \in Lists => Refs(e[n]) \cap remove = {}
      BY <1>2, <2>2 DEF OfKind
    <3> QED
      BY <3>1, <3>2
  <2> QED
    BY <2>1, <2>2
<1> QED
  BY <1>1, <1>6, <1>7, <1>8 DEF ListsArePatched, f

\* Only a list refers to a style.
LEMMA StylesAreListed ==
    ASSUME NEW e, Whole(e), NEW n \in OfKind(e, {"style"}), NEW m \in DOMAIN e, n \in Refs(e[m])
    PROVE  e[m].kind \in Lists
<1>1. Meets(e[m].kind, e[n].kind) /\ e[n].kind = "style"
  BY WholeReferences DEF OfKind
<1> QED
  BY <1>1 DEF Meets, Lists

\* Every list that held an old style has all new ones, and none of the old ones.
LEMMA PatchListsKeeps ==
    ASSUME InstancingAssumption, SolidInv, PatchLists
    PROVE  SolidInv'
<1> DEFINE f == Patched(ent, work.oldStyles, work.newStyles)
<1>1. /\ ent' = f /\ start' = start /\ todo' = todo /\ work' = work /\ mode' = mode /\ round' = round
      /\ step = "lists" /\ step' = "collect"
  BY DEF PatchLists
<1>2. /\ Running /\ Emitting /\ SettledSoFar /\ start \in Files[mode] /\ todo = <<>>
      /\ work.sources # {}
  <2>1. Running
    BY <1>1 DEF SolidInv, Quiet
  <2> QED
    BY <1>1, <2>1 DEF Running
<1>3. Grown /\ Collected /\ Targets /\ NewStyles /\ Whole(ent) /\ TypeOK
  BY <1>2 DEF SolidInv, TypeOK, Emitting
<1>4. /\ Whole(start)
      /\ \A n \in OfKind(start, {"solid", "face", "style", "value"}) : n \in DOMAIN ent /\ ent[n] = start[n]
      /\ \A s \in OfKind(start, {"style"}) : Parents(start, s) # {}
  BY <1>2, <1>3, GrownKeepsLooks, FileIsWhole DEF TypeOK
<1>5. work.oldStyles \subseteq OfKind(start, {"style"}) /\ work.oldStyles \subseteq OfKind(ent, {"style"})
  BY <1>3, <1>4 DEF Collected, OfKind
<1>6. ToSet(work.newStyles) \cap work.oldStyles = {} /\ work.newStyles \in Seq(OfKind(ent, {"style"}))
  BY <1>3, <1>5 DEF NewStyles, OfKind
<1>7. ListsArePatched(ent, f, work.oldStyles, work.newStyles)
  BY <1>3, <1>6, PatchedSection
<1> HIDE DEF f
<1>8. DOMAIN f = DOMAIN ent /\ OnlyItems(ent, f, Lists) /\ Whole(f)
  BY <1>7 DEF ListsArePatched
<1>9. /\ \A s, t \in OfKind(ent, {"solid"}) : Alike(f, s, t) <=> Alike(ent, s, t)
      /\ \A K : OfKind(f, K) = OfKind(ent, K)
  <2>1. OnlyItems(ent, f, {"brep", "shape", "presentation", "layer"})
    BY <1>8 DEF OnlyItems, Lists
  <2> QED
    BY <1>3, <1>8, <2>1, AlikeStays
<1>10. TypeOK'
  BY <1>1, <1>3, <1>8 DEF TypeOK
<1>11. \A n \in DOMAIN ent : f[n].kind = ent[n].kind /\ (ent[n].kind \notin Lists => f[n] = ent[n])
  BY <1>8 DEF OnlyItems
<1>12. Grown'
  <2>1. \A n \in DOMAIN start :
          /\ n \in DOMAIN f /\ f[n].kind = start[n].kind
          /\ start[n].kind \notin Lists \cup Reps => f[n] = start[n]
          /\ start[n].kind = "brep" => f[n].source = start[n].source
          /\ start[n].kind = "shape" /\ start[n].items = <<>> => f[n].items = <<>>
    <3> SUFFICES ASSUME NEW n \in DOMAIN start
                 PROVE  /\ n \in DOMAIN f /\ f[n].kind = start[n].kind
                        /\ start[n].kind \notin Lists \cup Reps => f[n] = start[n]
                        /\ start[n].kind = "brep" => f[n].source = start[n].source
                        /\ start[n].kind = "shape" /\ start[n].items = <<>> => f[n].items = <<>>
      OBVIOUS
    <3>1. /\ n \in DOMAIN ent /\ ent[n].kind = start[n].kind
          /\ start[n].kind \notin Lists \cup Reps => ent[n] = start[n]
          /\ start[n].kind = "brep" => ent[n].source = start[n].source
          /\ start[n].kind = "shape" /\ start[n].items = <<>> => ent[n].items = <<>>
      BY <1>3 DEF Grown
    <3>2. start[n].kind \notin Lists => f[n] = ent[n]
      BY <1>11, <3>1
    <3>3. "brep" \notin Lists /\ "shape" \notin Lists
      BY DEF Lists
    <3> QED
      BY <1>8, <1>11, <3>1, <3>2, <3>3
  <2>2. \A n \in DOMAIN f \ DOMAIN start : n \in DOMAIN ent \ DOMAIN start /\ f[n] = ent[n]
    <3> SUFFICES ASSUME NEW n \in DOMAIN f \ DOMAIN start
                 PROVE  n \in DOMAIN ent \ DOMAIN start /\ f[n] = ent[n]
      OBVIOUS
    <3>1. n \in DOMAIN ent \ DOMAIN start /\ ent[n].kind \in {"brep", "map", "mapped", "style"}
      BY <1>3, <1>8 DEF Grown
    <3> QED
      BY <1>11, <3>1 DEF Lists
  <2>3. work.sources = OfKind(f, {"brep"}) \ DOMAIN start
    BY <1>3, <1>9 DEF Grown
  <2> QED
    BY <1>1, <1>3, <2>1, <2>2, <2>3 DEF Grown
<1>13. Collected'
  BY <1>1, <1>3 DEF Collected
<1>14. ASSUME NEW n \in work.oldStyles PROVE Parents(f, n) = {}
  <2> SUFFICES ASSUME NEW p \in DOMAIN f, n \in Refs(f[p]) PROVE FALSE
    BY DEF Parents
  <2>1. n \in OfKind(f, {"style"})
    BY <1>5, <1>9
  <2>2. f[p].kind \in Lists
    BY <1>8, <2>1, StylesAreListed
  <2>3. ent[p].kind \in Lists /\ p \in DOMAIN ent
    BY <1>8, <1>11, <2>2
  <2> QED
    BY <1>7, <2>3 DEF ListsArePatched
<1>15. PICK o \in work.oldStyles : TRUE
  BY <1>2, <1>3 DEF Collected
<1>16. PICK p \in DOMAIN ent : ent[p].kind \in Lists /\ o \in Refs(ent[p])
  <2>1. o \in OfKind(start, {"style"}) /\ Parents(start, o) # {}
    BY <1>4, <1>5
  <2>2. PICK p \in DOMAIN start : o \in Refs(start[p])
    BY <2>1 DEF Parents
  <2>3. start[p].kind \in Lists
    BY <1>4, <2>1, <2>2, StylesAreListed
  <2>4. ent[p] = start[p] /\ p \in DOMAIN ent
    BY <1>2, <1>3, <2>3 DEF Emitting, Grown
  <2> QED
    BY <2>2, <2>3, <2>4
<1>17. \A n \in ToSet(work.newStyles) : Parents(f, n) # {}
  <2>1. ToSet(work.newStyles) \subseteq Refs(f[p])
    BY <1>7, <1>15, <1>16 DEF ListsArePatched
  <2> QED
    BY <1>8, <1>16, <2>1 DEF Parents
<1>18. ASSUME NEW n \in DOMAIN ent, Parents(f, n) = {} PROVE MayBeUnused(f, n) \/ n \in Seeds
  <2>1. n \notin work.oldStyles => Parents(ent, n) = {}
    <3> SUFFICES ASSUME n \notin work.oldStyles, NEW q \in DOMAIN ent, n \in Refs(ent[q]) PROVE FALSE
      BY DEF Parents
    <3>1. n \in Refs(f[q])
      BY <1>7 DEF ListsArePatched
    <3> QED
      BY <1>8, <1>18, <3>1 DEF Parents
  <2>2. n \notin ToSet(work.newStyles)
    BY <1>17, <1>18
  <2>3. CASE n \in work.oldStyles
    BY <2>3 DEF Seeds
  <2>4. CASE n \notin work.oldStyles
    <3>1. MayBeUnused(ent, n) \/ n \in Seeds
      BY <1>2, <2>1, <2>2, <2>4 DEF Emitting
    <3>2. MayBeUnused(ent, n) => MayBeUnused(f, n)
      <4>1. ent[n].kind = "brep" => f[n] = ent[n]
        BY <1>11 DEF Lists
      <4> QED
        BY <1>11, <4>1 DEF MayBeUnused
    <3> QED
      BY <3>1, <3>2
  <2> QED
    BY <2>3, <2>4
<1>19. Relisted'
  BY <1>1, <1>8, <1>12, <1>13, <1>14, <1>18 DEF Relisted, MayBeUnused, Seeds
<1>20. AllSettled(f)
  <2> SUFFICES ASSUME NEW r \in OfKind(ent, {"brep"}) PROVE Settled(f, r)
    BY <1>9 DEF AllSettled
  <2>1. Settled(ent, r)
    <3>1. ToSet(<<>>) = {}
      BY DEF ToSet
    <3> QED
      BY <1>2, <3>1 DEF SettledSoFar
  <2>2. f[r] = ent[r]
    BY <1>11 DEF OfKind, Lists
  <2>3. Solids(f, r) = Solids(ent, r)
    BY <1>9, <2>2 DEF Solids
  <2>4. \A s, t \in Solids(f, r) : Alike(f, s, t) => Alike(ent, s, t)
    BY <1>9, <2>3 DEF Solids
  <2> QED
    BY <1>3, <2>1, <2>3, <2>4, SettledStays
<1>21. Running'
  BY <1>1, <1>2, <1>19, <1>20 DEF Running
<1> QED
  BY <1>10, <1>21 DEF SolidInv

-----------------------------------------------------------------------------
(* The guarded collection.                                                 *)

\* The rounds of the collection.
AfterRound(e, dead) ==
    dead \cup {n \in work.candidates \cup work.oldStyles :
                  /\ Parents(e, n) \subseteq dead
                  /\ n \in Seeds \/ Parents(e, n) # {}}
CollectionRounds(e, gone) ==
    /\ gone[0] = {}
    /\ \A k \in 1 .. 4 : gone[k] = AfterRound(e, gone[k - 1])
    /\ Deleted(e) = gone[4]

\* There are such rounds.
LEMMA CollectionInRounds ==
    ASSUME NEW e
    PROVE  \E gone : CollectionRounds(e, gone)
<1> DEFINE C == work.candidates \cup work.oldStyles
           After(dead) == AfterRound(e, dead)
           V == SUBSET C
           s == {}
           advance == [p \in (0 .. 4) \X SUBSET C |-> After(p[2])]
           gone == CHOOSE f : f = [k \in 0 .. 4 |-> IF k = 0 THEN {} ELSE After(f[k - 1])]
<1>1. Deleted(e) = gone[4]
  <2> DEFINE f == CHOOSE g : g = [k \in 0 .. 4 |-> IF k = 0 THEN {}
                       ELSE g[k - 1] \cup {n \in C : /\ Parents(e, n) \subseteq g[k - 1]
                                                     /\ n \in work.duplicates \cup work.oldStyles
                                                        \/ Parents(e, n) # {}}]
  <2>1. Deleted(e) = f[4]
    BY DEF Deleted
  <2>2. f = gone
    BY DEF Seeds, AfterRound
  <2> QED
    BY <2>1, <2>2
<1>2. \A k \in 0 .. 4 : \A S \in SUBSET C :
         advance[<<k, S>>] = After(S) /\ advance[<<k, S>>] \in SUBSET C
  BY DEF AfterRound
<1>3. Advances(0, 4, V, advance) /\ s \in V
  BY <1>2 DEF Advances
<1> HIDE DEF advance, V, s, After, gone
<1>4. PICK f : Recursive(0, 4, V, s, advance, f)
  BY <1>3, Recursion
<1>5. ASSUME NEW k \in 0 .. 4 PROVE f[k] = IF k = 0 THEN {} ELSE After(f[k - 1])
  <2>1. CASE k = 0
    BY <1>4, <2>1 DEF Recursive, s
  <2>2. CASE k # 0
    <3>1. k > 0 /\ k - 1 \in 0 .. 4
      BY <2>2
    <3>2. f[k] = advance[<<k, f[k - 1]>>] /\ f[k - 1] \in SUBSET C
      BY <1>4, <3>1 DEF Recursive, V
    <3> QED
      BY <1>2, <2>2, <3>2
  <2> QED
    BY <2>1, <2>2
<1>6. f = [k \in 0 .. 4 |-> IF k = 0 THEN {} ELSE After(f[k - 1])]
  BY <1>4, <1>5 DEF Recursive
<1>7. gone = [k \in 0 .. 4 |-> IF k = 0 THEN {} ELSE After(gone[k - 1])]
  BY <1>6, Zenon DEF gone
<1>8. \A k \in 1 .. 4 : gone[k] = After(gone[k - 1])
  <2> SUFFICES ASSUME NEW k \in 1 .. 4 PROVE gone[k] = After(gone[k - 1])
    OBVIOUS
  <2>1. k \in 0 .. 4 /\ k # 0
    OBVIOUS
  <2> QED
    BY <1>7, <2>1
<1>9. gone[0] = {}
  BY <1>7
<1>10. CollectionRounds(e, gone)
  BY <1>1, <1>8, <1>9 DEF CollectionRounds, After
<1> QED
  BY <1>10

\* Whose references are candidates as well goes down in four rounds: styles, solids, faces,
\* and what the faces lie on.
LEMMA DeletedIsClosed ==
    ASSUME NEW e, Whole(e),
           \A n \in work.candidates : n \in DOMAIN e /\ e[n].kind \in {"solid", "face", "value"},
           \A n \in work.oldStyles : n \in DOMAIN e /\ e[n].kind = "style"
    PROVE  LET D == Deleted(e) IN
           /\ D \subseteq work.candidates \cup work.oldStyles
           /\ \A n \in D : Parents(e, n) \subseteq D
           /\ \A n \in work.candidates \cup work.oldStyles :
                 Parents(e, n) \subseteq D /\ (n \in Seeds \/ Parents(e, n) # {}) => n \in D
<1> DEFINE C == work.candidates \cup work.oldStyles
           Doomed(n, dead) == Parents(e, n) \subseteq dead /\ (n \in Seeds \/ Parents(e, n) # {})
           D == Deleted(e)
<1>1. PICK gone : CollectionRounds(e, gone)
  BY CollectionInRounds
<1>2. /\ gone[0] = {} /\ D = gone[4]
      /\ \A k \in 1 .. 4 : gone[k] = gone[k - 1] \cup {n \in C : Doomed(n, gone[k - 1])}
  <2>1. \A dead : AfterRound(e, dead) = dead \cup {n \in C : Doomed(n, dead)}
    BY DEF AfterRound
  <2> HIDE DEF Doomed, C
  <2> QED
    BY <1>1, <2>1 DEF CollectionRounds
<1>3. /\ gone[1] = gone[0] \cup {n \in C : Doomed(n, gone[0])}
      /\ gone[2] = gone[1] \cup {n \in C : Doomed(n, gone[1])}
      /\ gone[3] = gone[2] \cup {n \in C : Doomed(n, gone[2])}
      /\ gone[4] = gone[3] \cup {n \in C : Doomed(n, gone[3])}
  <2>1. 1 \in 1 .. 4 /\ 2 \in 1 .. 4 /\ 3 \in 1 .. 4 /\ 4 \in 1 .. 4
        /\ 1 - 1 = 0 /\ 2 - 1 = 1 /\ 3 - 1 = 2 /\ 4 - 1 = 3
    OBVIOUS
  <2> HIDE DEF Doomed, C
  <2> QED
    BY <1>2, <2>1
<1>4. gone[0] \subseteq gone[1] /\ gone[1] \subseteq gone[2] /\ gone[2] \subseteq gone[3] /\ gone[3] \subseteq gone[4]
  BY <1>3
<1>5. \A dead : dead \subseteq gone[4] => \A n : Doomed(n, dead) => Doomed(n, gone[4])
  OBVIOUS
<1>6. \A n \in D : n \in C /\ Doomed(n, D)
  <2> HIDE DEF Doomed, C, D
  <2> QED
    BY <1>2, <1>3, <1>4, <1>5
<1>7. ASSUME NEW n \in D PROVE n \in DOMAIN e /\ e[n].kind \in {"style", "solid", "face", "value"}
  BY <1>6
<1>8. ASSUME NEW n \in C, NEW m \in Parents(e, n), m \in D
      PROVE  /\ m \in C /\ Doomed(m, D) /\ n \in DOMAIN e
             /\ e[n].kind \in {"style", "solid", "face", "value"}
             /\ e[n].kind # "style"
             /\ e[n].kind = "solid" => e[m].kind = "style"
             /\ e[n].kind = "face" => e[m].kind \in {"style", "solid"}
             /\ e[n].kind = "value" => e[m].kind \in {"style", "solid", "face"}
  <2>1. m \in DOMAIN e /\ n \in Refs(e[m])
    BY DEF Parents
  <2>2. Meets(e[m].kind, e[n].kind)
    BY <2>1, WholeReferences
  <2>3. n \in DOMAIN e /\ e[n].kind \in {"style", "solid", "face", "value"}
    OBVIOUS
  <2> QED
    BY <1>6, <1>7, <1>8, <2>2, <2>3 DEF Meets
<1>9. ASSUME NEW n \in C, Doomed(n, D), e[n].kind = "style" PROVE n \in gone[1]
  <2>1. Parents(e, n) = {}
    BY <1>8, <1>9
  <2> QED
    BY <1>3, <1>9, <2>1
<1>10. ASSUME NEW n \in C, Doomed(n, D), e[n].kind = "solid" PROVE n \in gone[2]
  <2>1. Parents(e, n) \subseteq gone[1]
    BY <1>8, <1>9, <1>10
  <2> QED
    BY <1>3, <1>10, <2>1
<1>11. ASSUME NEW n \in C, Doomed(n, D), e[n].kind = "face" PROVE n \in gone[3]
  <2>1. Parents(e, n) \subseteq gone[2]
    BY <1>4, <1>8, <1>9, <1>10, <1>11
  <2> QED
    BY <1>3, <1>11, <2>1
<1>12. ASSUME NEW n \in C, Doomed(n, D), e[n].kind = "value" PROVE n \in gone[4]
  <2>1. Parents(e, n) \subseteq gone[3]
    BY <1>4, <1>8, <1>9, <1>10, <1>11, <1>12
  <2> QED
    BY <1>3, <1>12, <2>1
<1>13. ASSUME NEW n \in C, Doomed(n, D) PROVE n \in D
  <2>1. e[n].kind \in {"style", "solid", "face", "value"}
    OBVIOUS
  <2> QED
    BY <1>2, <1>4, <1>9, <1>10, <1>11, <1>12, <1>13, <2>1
<1> HIDE DEF D
<1>14. D \subseteq C /\ \A n \in D : Parents(e, n) \subseteq D
  BY <1>6
<1> QED
  BY <1>13, <1>14 DEF D

\* A section without some of its entities, which no other refers to.
LEMMA RestrictedSection ==
    ASSUME NEW e, Whole(e), NEW gone, \A n \in DOMAIN e \ gone : Refs(e[n]) \cap gone = {}
    PROVE  LET f == Restrict(e, DOMAIN e \ gone) IN
           /\ DOMAIN f = DOMAIN e \ gone /\ \A n \in DOMAIN f : f[n] = e[n]
           /\ Whole(f) /\ \A K : OfKind(f, K) = OfKind(e, K) \ gone
           /\ \A n : Parents(f, n) = Parents(e, n) \ gone
<1> DEFINE f == Restrict(e, DOMAIN e \ gone)
<1>1. DOMAIN f = DOMAIN e \ gone /\ \A n \in DOMAIN f : f[n] = e[n]
  BY DEF Restrict
<1> HIDE DEF f
<1>2. \A K : OfKind(f, K) = OfKind(e, K) \ gone
  BY <1>1 DEF OfKind
<1>3. \A n : Parents(f, n) = Parents(e, n) \ gone
  BY <1>1 DEF Parents
<1>4. Whole(f)
  <2>1. DOMAIN f \subseteq Nat /\ IsFiniteSet(DOMAIN f)
    BY <1>1, FS_Subset DEF Whole
  <2>2. ASSUME NEW n \in DOMAIN f PROVE Fits(f, f[n])
    <3>1. n \in DOMAIN e \ gone /\ f[n] = e[n] /\ Fits(e, e[n])
      BY <1>1 DEF Whole
    <3>2. \A m \in Refs(e[n]) : m \in DOMAIN f /\ f[m].kind = e[m].kind
      BY <1>1, <3>1, FitReferences
    <3> QED
      BY <3>1, <3>2, FitsStays
  <2> QED
    BY <2>1, <2>2 DEF Whole
<1> QED
  BY <1>1, <1>2, <1>3, <1>4 DEF f

\* The collection leaves nothing that refers to what is gone and nobody without a user.
LEMMA CollectKeeps ==
    ASSUME InstancingAssumption, NoAuxiliary, SolidInv, Collect
    PROVE  SolidInv'
<1> DEFINE D == Deleted(ent)
           f == Restrict(ent, DOMAIN ent \ D)
<1>1. /\ ent' = f /\ start' = start /\ todo' = todo /\ work' = work /\ mode' = mode /\ round' = round
      /\ step = "collect" /\ step' = IF mode = "mapped" THEN "done" ELSE "convert"
  BY DEF Collect
<1>2. Running /\ Relisted /\ AllSettled(ent) /\ start \in Files[mode]
  <2>1. Running
    BY <1>1 DEF SolidInv, Quiet
  <2> QED
    BY <1>1, <2>1 DEF Running
<1>3. Grown /\ Collected /\ Whole(ent) /\ TypeOK /\ mode \in DOMAIN Files
  BY <1>2 DEF SolidInv, TypeOK, Relisted
<1>4. /\ Whole(start) /\ mode \in {"mapped", "assembly"}
      /\ \A n \in DOMAIN start : start[n].kind \notin {"map", "mapped", "use"}
      /\ \A r \in OfKind(start, {"brep"}) : ~ start[r].source
      /\ \A n \in OfKind(start, {"solid", "face", "style", "value"}) : n \in DOMAIN ent /\ ent[n] = start[n]
  BY <1>2, <1>3, GrownKeepsLooks, FileIsWhole
<1>5. /\ \A n \in work.candidates : n \in DOMAIN ent /\ ent[n].kind \in {"solid", "face", "value"}
      /\ \A n \in work.oldStyles : n \in DOMAIN ent /\ ent[n].kind = "style"
      /\ \A n \in work.candidates \cup work.oldStyles : n \in DOMAIN start /\ ent[n] = start[n]
  BY <1>3, <1>4 DEF Collected, OfKind
<1>6. /\ D \subseteq work.candidates \cup work.oldStyles
      /\ \A n \in D : Parents(ent, n) \subseteq D
      /\ \A n \in work.candidates \cup work.oldStyles :
            Parents(ent, n) \subseteq D /\ (n \in Seeds \/ Parents(ent, n) # {}) => n \in D
  BY <1>3, <1>5, DeletedIsClosed
<1> HIDE DEF D
<1>7. \A n \in DOMAIN ent \ D : Refs(ent[n]) \cap D = {}
  BY <1>6 DEF Parents
<1>8. /\ DOMAIN f = DOMAIN ent \ D /\ \A n \in DOMAIN f : f[n] = ent[n]
      /\ Whole(f) /\ \A K : OfKind(f, K) = OfKind(ent, K) \ D
      /\ \A n : Parents(f, n) = Parents(ent, n) \ D
  BY <1>3, <1>7, RestrictedSection
<1> HIDE DEF f
<1>9. TypeOK'
  BY <1>1, <1>3, <1>8 DEF TypeOK
<1>10. ASSUME NEW n \in DOMAIN f, Parents(f, n) = {} PROVE MayBeUnused(f, n)
  <2>1. n \in DOMAIN ent /\ n \notin D /\ f[n] = ent[n] /\ Parents(ent, n) \subseteq D
    BY <1>8, <1>10
  <2>2. MayBeUnused(ent, n) => MayBeUnused(f, n)
    BY <2>1 DEF MayBeUnused
  <2>3. CASE Parents(ent, n) = {}
    <3>1. MayBeUnused(ent, n) \/ n \in Seeds
      BY <1>2, <2>1, <2>3 DEF Relisted
    <3>2. n \in Seeds => n \in work.candidates \cup work.oldStyles
      BY <1>3 DEF Seeds, Collected
    <3> QED
      BY <1>6, <2>1, <2>2, <2>3, <3>1, <3>2
  <2>4. CASE Parents(ent, n) # {}
    <3>1. PICK p \in D : p \in DOMAIN ent /\ n \in Refs(ent[p])
      BY <2>1, <2>4 DEF Parents
    <3>2. ent[p] = start[p] /\ p \in DOMAIN start
      BY <1>5, <1>6, <3>1
    <3>3. CASE p \in work.candidates
      BY <1>3, <1>6, <2>1, <2>4, <3>1, <3>2, <3>3 DEF Collected
    <3>4. CASE p \in work.oldStyles
      <4>1. start[p].kind = "style" /\ start[p].of \in work.candidates
        BY <1>3, <3>4 DEF Collected, OfKind
      <4>2. n = start[p].of
        BY <3>1, <3>2, <4>1, SolidReferences
      <4> QED
        BY <1>6, <2>1, <2>4, <4>1, <4>2
    <3> QED
      BY <1>6, <3>1, <3>3, <3>4
  <2> QED
    BY <2>3, <2>4
<1>11. work.oldStyles \subseteq D
  <2>1. \A n \in work.oldStyles : Parents(ent, n) = {} /\ n \in Seeds
    BY <1>2 DEF Relisted, Seeds
  <2> QED
    BY <1>6, <2>1
<1>12. ASSUME NEW x \in OfKind(ent, {"face"}), x \in DOMAIN f, StylesOf(f, x) # {}
       PROVE  StylesOf(f, x) = StylesOf(ent, x) /\ Looks(f, x) = Looks(ent, x)
  <2>0. x \in DOMAIN start
    BY <1>3 DEF Grown, OfKind
  <2>1. PICK t \in StylesOf(f, x) : TRUE
    BY <1>12
  <2>2. t \in OfKind(ent, {"style"}) /\ t \notin D /\ ent[t].of = x /\ f[t] = ent[t]
    BY <1>8 DEF StylesOf, OfKind
  <2>3. t \in OfKind(start, {"style"}) /\ start[t].of = x
    <3>1. t \in DOMAIN start
      BY <1>3, <2>0, <2>2 DEF Grown, OfKind
    <3>2. start[t].kind = "style"
      BY <1>3, <2>2, <3>1 DEF Grown, OfKind
    <3>3. t \in OfKind(start, {"style"})
      BY <3>1, <3>2 DEF OfKind
    <3> QED
      BY <1>4, <2>2, <3>3 DEF OfKind
  <2>4. x \notin work.candidates
    BY <1>3, <1>11, <2>2, <2>3 DEF Collected
  <2>5. ASSUME NEW u \in StylesOf(ent, x) PROVE u \notin D /\ u \in StylesOf(f, x)
    <3>1. u \in OfKind(ent, {"style"}) /\ ent[u].of = x
      BY DEF StylesOf
    <3>2. u \notin D
      <4> SUFFICES ASSUME u \in D PROVE FALSE
        OBVIOUS
      <4>1. u \in work.oldStyles
        BY <1>5, <1>6, <3>1 DEF OfKind
      <4>2. start[u].of \in work.candidates /\ ent[u] = start[u]
        BY <1>3, <1>5, <4>1 DEF Collected
      <4> QED
        BY <2>4, <3>1, <4>2
    <3> QED
      BY <1>8, <3>1, <3>2 DEF StylesOf, OfKind
  <2>6. \A u \in StylesOf(f, x) : u \in StylesOf(ent, x) /\ f[u] = ent[u]
    BY <1>8 DEF StylesOf, OfKind
  <2>7. StylesOf(f, x) = StylesOf(ent, x)
    BY <2>5, <2>6
  <2> QED
    BY <2>6, <2>7 DEF Looks
<1>13. ASSUME NEW s \in OfKind(ent, {"solid"}), s \in DOMAIN f, Analyzed(f, s)
       PROVE  Analyzed(ent, s) /\ Look(f, s) = Look(ent, s) /\ f[s] = ent[s]
  <2>1. f[s] = ent[s] /\ \A x \in ent[s].faces : x \in OfKind(ent, {"face"}) /\ x \in DOMAIN f
    <3>1. f[s] = ent[s] /\ s \in DOMAIN ent /\ ent[s].kind = "solid"
      BY <1>8, <1>13 DEF OfKind
    <3>2. \A x \in ent[s].faces : x \in OfKind(ent, {"face"})
      BY <1>3, <3>1, WholeFields DEF Leads, OfKind
    <3>3. \A x \in f[s].faces : x \in DOMAIN f
      BY <1>8, <1>13, <3>1, WholeFields DEF Leads
    <3> QED
      BY <3>1, <3>2, <3>3
  <2>2. \A x \in ent[s].faces : Cardinality(StylesOf(f, x)) = 1
    BY <1>13, <2>1 DEF Analyzed
  <2>3. \A x \in ent[s].faces : StylesOf(f, x) # {}
    <3>1. Cardinality({}) = 0
      BY FS_EmptySet
    <3> QED
      BY <2>2, <3>1
  <2>4. \A x \in ent[s].faces : StylesOf(f, x) = StylesOf(ent, x) /\ Looks(f, x) = Looks(ent, x)
    BY <1>12, <2>1, <2>3
  <2>5. {Looks(f, x) : x \in ent[s].faces} = {Looks(ent, x) : x \in ent[s].faces}
    BY <2>4
  <2> QED
    BY <1>13, <2>1, <2>4, <2>5 DEF Analyzed, Look
<1>14. AllSettled(f)
  <2> SUFFICES ASSUME NEW r \in OfKind(f, {"brep"}) PROVE Settled(f, r)
    BY DEF AllSettled
  <2>1. r \in OfKind(ent, {"brep"}) /\ r \in DOMAIN f /\ f[r] = ent[r]
    BY <1>8 DEF OfKind
  <2>2. Settled(ent, r)
    BY <1>2, <2>1 DEF AllSettled
  <2>3. Solids(f, r) \subseteq Solids(ent, r) /\ Solids(f, r) \subseteq DOMAIN f
    BY <1>8, <2>1 DEF Solids, OfKind
  <2>4. \A s, t \in Solids(f, r) : Alike(f, s, t) => Alike(ent, s, t)
    <3>1. Solids(f, r) \subseteq OfKind(ent, {"solid"})
      BY <2>3 DEF Solids
    <3> QED
      BY <1>13, <2>3, <3>1 DEF Alike
  <2> QED
    BY <1>3, <2>1, <2>2, <2>3, <2>4, SettledStays
<1>15. CASE mode = "mapped"
  <2>1. Finished'
    BY <1>1, <1>10, <1>14, <1>15 DEF Finished, MayBeUnused
  <2>2. Running'
    BY <1>1, <1>2, <1>15, <2>1 DEF Running
  <2> QED
    BY <1>9, <2>2 DEF SolidInv
<1>16. CASE mode # "mapped"
  <2>0. mode = "assembly" /\ step' = "convert"
    BY <1>1, <1>4, <1>16
  <2>1. \A r \in OfKind(start, {"shape"}) : start[r].items = <<>>
    BY <1>2, <1>3, <2>0 DEF NoAuxiliary
  <2>2. /\ \A n \in DOMAIN start : ent[n].kind = start[n].kind
        /\ \A n \in DOMAIN ent \ DOMAIN start : ent[n].kind \in {"brep", "map", "mapped", "style"}
        /\ \A n \in DOMAIN start : start[n].kind = "brep" => ent[n].source = start[n].source
        /\ \A n \in DOMAIN start : start[n].kind = "shape" /\ start[n].items = <<>> => ent[n].items = <<>>
        /\ \A n \in DOMAIN ent \ DOMAIN start :
              /\ ent[n].kind = "brep" => /\ ent[n].source
                                         /\ \E s \in OfKind(start, {"solid"}) : ent[n].items = <<s>>
              /\ ent[n].kind = "map" => ent[n].rep \notin DOMAIN start
    BY <1>3 DEF Grown
  <2>3. ASSUME NEW r \in DOMAIN f, f[r].kind = "brep", r \notin DOMAIN start
        PROVE  f[r].source /\ \E s \in OfKind(f, {"solid"}) : f[r].items = <<s>>
    <3>1. r \in DOMAIN ent \ DOMAIN start /\ f[r] = ent[r]
      BY <1>8, <2>3
    <3>2. PICK s \in OfKind(start, {"solid"}) : ent[r].items = <<s>>
      BY <2>2, <2>3, <3>1
    <3>3. s \in OfKind(f, {"solid"})
      <4>1. s \in OfKind(ent, {"solid"})
        BY <1>4 DEF OfKind
      <4>2. Refs(f[r]) = ToSet(<<s>>)
        BY <2>3, <3>1, <3>2, SolidReferences
      <4>3. s \in Refs(f[r])
        BY <4>2 DEF ToSet
      <4>4. s \in DOMAIN f
        BY <1>8, <4>3, WholeReferences
      <4> QED
        BY <1>8, <4>1, <4>4
    <3> QED
      BY <2>2, <2>3, <3>1, <3>2, <3>3
  <2>4. \A r \in DOMAIN f : f[r].kind = "brep" /\ f[r].source => r \notin DOMAIN start
    BY <1>4, <1>8, <2>2 DEF OfKind
  <2>5. ASSUME NEW m \in DOMAIN f, f[m].kind \in {"map", "mapped", "use"}
        PROVE  m \notin DOMAIN start /\ m \in DOMAIN ent /\ f[m] = ent[m] /\ f[m].kind # "use"
    <3>1. m \in DOMAIN ent /\ f[m] = ent[m]
      BY <1>8
    <3>2. m \notin DOMAIN start
      BY <1>4, <2>2, <2>5, <3>1
    <3> QED
      BY <2>2, <2>5, <3>1, <3>2
  <2>6. \A m \in OfKind(f, {"map"}) : f[m].rep \notin DOMAIN start /\ f[m].rep \in DOMAIN f
                                     /\ f[f[m].rep].kind = "brep"
    <3> SUFFICES ASSUME NEW m \in OfKind(f, {"map"})
                 PROVE  f[m].rep \notin DOMAIN start /\ f[m].rep \in DOMAIN f
                        /\ f[f[m].rep].kind = "brep"
      OBVIOUS
    <3>1. m \in DOMAIN f /\ f[m].kind = "map"
      BY DEF OfKind
    <3>2. f[m].rep \in DOMAIN f /\ f[f[m].rep].kind = "brep"
      BY <1>8, <3>1, WholeFields DEF Leads
    <3>3. m \notin DOMAIN start /\ m \in DOMAIN ent /\ f[m] = ent[m]
      BY <2>5, <3>1
    <3> QED
      BY <2>2, <3>1, <3>2, <3>3
  <2>7. \A r \in OfKind(f, {"shape"}) : f[r].items = <<>>
    <3> SUFFICES ASSUME NEW r \in OfKind(f, {"shape"}) PROVE f[r].items = <<>>
      OBVIOUS
    <3>1. r \in DOMAIN ent /\ ent[r].kind = "shape" /\ f[r] = ent[r]
      BY <1>8 DEF OfKind
    <3>2. r \in DOMAIN start /\ start[r].kind = "shape"
      BY <2>2, <3>1
    <3>3. start[r].items = <<>>
      BY <2>1, <3>2 DEF OfKind
    <3> QED
      BY <2>2, <3>1, <3>2, <3>3
  <2>8. \A m \in OfKind(f, {"map"}) :
           f[f[m].rep].source /\ \E s \in OfKind(f, {"solid"}) : f[f[m].rep].items = <<s>>
    BY <2>3, <2>6
  <2>9. OfKind(f, {"map", "mapped"}) \cap DOMAIN start = {} /\ OfKind(f, {"use"}) = {}
    BY <2>5 DEF OfKind
  <2>10. \A r \in Sources(f) : \E s \in OfKind(f, {"solid"}) : f[r].items = <<s>>
    BY <2>3, <2>4 DEF Sources, OfKind
  <2>11. Instances'
    BY <1>1, <2>7, <2>8, <2>9, <2>10 DEF Instances
  <2>14. ASSUME NEW s \in OfKind(f, {"style"}), f[s].of \in OfKind(f, {"mapped"}) PROVE s \notin DOMAIN start
    <3> SUFFICES ASSUME s \in DOMAIN start PROVE FALSE
      OBVIOUS
    <3>1. s \in DOMAIN f /\ f[s] = ent[s] /\ ent[s].kind = "style"
      BY <1>8 DEF OfKind
    <3>2. start[s].kind = "style"
      BY <2>2, <3>1
    <3>3. ent[s] = start[s]
      BY <1>4, <3>2 DEF OfKind
    <3>4. start[s].of \in DOMAIN start
      BY <1>4, <3>2, WholeFields DEF Leads
    <3> QED
      BY <2>9, <2>14, <3>1, <3>3, <3>4 DEF OfKind
  <2>12. Converting'
    BY <1>1, <1>10, <1>14, <2>9, <2>11, <2>14 DEF Converting, MayBeUnused
  <2>13. Running'
    BY <1>1, <1>2, <2>0, <2>12 DEF Running
  <2> QED
    BY <1>9, <2>13 DEF SolidInv
<1> QED
  BY <1>15, <1>16

-----------------------------------------------------------------------------
(* Emitting a family.                                                      *)

\* A section with new entities.
LEMMA WithEntities ==
    ASSUME NEW e, NEW new
    PROVE  /\ DOMAIN With(e, new) = DOMAIN e \cup DOMAIN new
           /\ \A n \in DOMAIN new : With(e, new)[n] = new[n]
           /\ \A n \in DOMAIN e : n \notin DOMAIN new => With(e, new)[n] = e[n]
BY DEF With

\* An entity alone.
LEMMA AloneEntity == ASSUME NEW n, NEW x PROVE DOMAIN Alone(n, x) = {n} /\ Alone(n, x)[n] = x
BY DEF Alone

\* No two members of a set have the same number of members below them.
LEMMA DistinctRanks ==
    ASSUME NEW S \in SUBSET Nat, IsFiniteSet(S)
    PROVE  /\ Cardinality(S) \in Nat
           /\ \A s \in S : Cardinality({t \in S : t < s}) \in 0 .. Cardinality(S) - 1
           /\ \A s, t \in S : Cardinality({u \in S : u < s}) = Cardinality({u \in S : u < t}) => s = t
<1>1. S \in SUBSET Int
  OBVIOUS
<1>2. Listed(S)
  BY <1>1, InOrderLists
<1> DEFINE n == Cardinality(S)
           rank(s) == Cardinality(Below(S, s))
<1>3. n \in Nat /\ \A s \in S : rank(s) + 1 \in 1 .. n /\ InOrder(S)[rank(s) + 1] = s
  BY <1>2 DEF Listed
<1>4. \A s \in S : rank(s) \in Int
  <2> SUFFICES ASSUME NEW s \in S PROVE rank(s) \in Int
    OBVIOUS
  <2>1. Below(S, s) \in SUBSET S
    BY DEF Below
  <2>2. IsFiniteSet(Below(S, s))
    BY <2>1, FS_Subset
  <2>3. rank(s) \in Nat
    BY <2>2, FS_CardinalityType
  <2> QED
    BY <2>3
<1> HIDE DEF rank, n
<1>5. \A s, t \in S : rank(s) = rank(t) => s = t
  BY <1>3
<1>6. \A s \in S : rank(s) \in 0 .. n - 1
  BY <1>3, <1>4
<1>7. \A s \in S : rank(s) = Cardinality({t \in S : t < s})
  BY DEF rank, Below
<1>8. n \in Nat /\ n = Cardinality(S)
  BY <1>3 DEF n
<1> QED
  BY <1>5, <1>6, <1>7, <1>8

\* What emitting a family adds: the family f, the mapped item m[s] of every member s, and
\* the source.
FamilyIsEmitted(f, m, source) ==
    /\ f \in families /\ families' = families \ {f}
    /\ f \subseteq Nat /\ Min(f) \in f /\ source \in Nat
    /\ m \in [f -> Nat] /\ \A s, t \in f : m[s] = m[t] => s = t
    /\ source \notin DOMAIN ent /\ source + 1 \notin DOMAIN ent
    /\ \A s \in f : m[s] \notin DOMAIN ent /\ m[s] + 1 \notin DOMAIN ent /\ m[s] > source + 1
    /\ \A s, t \in f : m[s] + 1 # m[t]
    /\ DOMAIN ent' = DOMAIN ent \cup {source, source + 1} \cup {m[s] : s \in f} \cup {m[s] + 1 : s \in f}
    /\ \A n \in DOMAIN ent : n # Head(todo) => ent'[n] = ent[n]
    /\ ent'[Head(todo)] = [ent[Head(todo)] EXCEPT !.items = Swapped(ent[Head(todo)].items, m)]
    /\ ent'[source] = [kind |-> "brep", source |-> TRUE, items |-> <<Min(f)>>]
    /\ ent'[source + 1] = [kind |-> "map", rep |-> source]
    /\ \A s \in f : /\ "kind" \in DOMAIN ent'[m[s]] /\ ent'[m[s]].kind = "mapped"
                    /\ ent'[m[s]].map = source + 1
                    /\ {"kind", "of", "look"} \subseteq DOMAIN ent'[m[s] + 1]
                    /\ ent'[m[s] + 1].kind = "style" /\ ent'[m[s] + 1].of = m[s]
    /\ work'.candidates = work.candidates \cup UNION {Closure(ent, s) : s \in f \ {Min(f)}}
    /\ work'.duplicates = work.duplicates \cup (f \ {Min(f)})
    /\ work'.oldStyles = work.oldStyles \cup {s \in OfKind(ent, {"style"}) : ent[s].of \in work'.candidates}
    /\ work'.newStyles = work.newStyles \o InOrder({m[s] + 1 : s \in f})
    /\ work'.target = With(work.target, m)
    /\ work'.sources = work.sources \cup {source}

\* Emitting a family does that.
LEMMA EmittedEntities ==
    ASSUME Whole(ent), Head(todo) \in DOMAIN ent, EmitFamily,
           \A f \in families : f \subseteq DOMAIN ent /\ f # {}
    PROVE  \E f, m, source : FamilyIsEmitted(f, m, source)
<1> DEFINE f == CHOOSE g \in families : \A h \in families : Min(g) <= Min(h)
           first == Min(f)
           source == Max(DOMAIN ent) + 1
           map == source + 1
           Mapped(s) == map + 1 + 2 * Cardinality({t \in f : t < s})
           m == [s \in f |-> Mapped(s)]
           member == [i \in {Mapped(s) : s \in f} |-> CHOOSE s \in f : Mapped(s) = i]
           Item(s) == LET q == Quarter(ent, first, s) IN
               [kind |-> "mapped", map |-> map, turn |-> q,
                at |-> Translation(ent[first].at, ent[s].at, q)]
           rep == Head(todo)
           candidates == work.candidates \cup UNION {Closure(ent, s) : s \in f \ {first}}
           base == [ent EXCEPT ![rep].items = Swapped(@, m)]
           x1 == [kind |-> "brep", source |-> TRUE, items |-> <<first>>]
           x2 == [kind |-> "map", rep |-> source]
           items == [i \in DOMAIN member |-> Item(member[i])]
           Style(s) == [kind |-> "style", of |-> s - 1, look |-> Look(ent, first)]
           styles == [s \in {i + 1 : i \in DOMAIN member} |-> Style(s)]
           e1 == With(base, Alone(source, x1))
           e2 == With(e1, Alone(map, x2))
           e3 == With(e2, items)
           e4 == With(e3, styles)
<1>1. /\ families # {} /\ ent' = e4 /\ families' = families \ {f}
      /\ work' = [candidates |-> candidates,
                  duplicates |-> work.duplicates \cup (f \ {first}),
                  oldStyles |-> work.oldStyles
                                \cup {s \in OfKind(ent, {"style"}) : ent[s].of \in candidates},
                  newStyles |-> work.newStyles \o InOrder({i + 1 : i \in DOMAIN member}),
                  target |-> With(work.target, m),
                  sources |-> work.sources \cup {source}]
  BY DEF EmitFamily
<1>2. f \in families
  <2> DEFINE S == {Min(g) : g \in families}
  <2>1. \A g \in families : g \in SUBSET Nat /\ g # {}
    BY DEF Whole
  <2>2. \A g \in families : Min(g) \in Nat
    BY <2>1, LeastId
  <2>3. S \in SUBSET Nat /\ S # {}
    BY <1>1, <2>2
  <2>4. PICK i \in S : \A j \in S : i <= j
    <3> HIDE DEF S
    <3> QED
      BY <2>3, HasLeast
  <2>5. \E g \in families : \A h \in families : Min(g) <= Min(h)
    BY <2>4
  <2> QED
    BY <2>5
<1>3. f \in SUBSET Nat /\ f # {} /\ IsFiniteSet(f) /\ f \subseteq DOMAIN ent
  <2> HIDE DEF f
  <2>1. f \subseteq DOMAIN ent /\ f # {}
    BY <1>2
  <2>2. f \in SUBSET DOMAIN ent
    BY <2>1
  <2> QED
    BY <2>1, <2>2, FS_Subset DEF Whole
<1> HIDE DEF f
<1>4. first \in f
  BY <1>3, LeastId
<1>5. source \in Nat /\ \A n \in DOMAIN ent : n \in Int /\ n < source
  <2>1. DOMAIN ent \in SUBSET Int /\ IsFiniteSet(DOMAIN ent) /\ DOMAIN ent # {} /\ DOMAIN ent \subseteq Nat
    BY DEF Whole
  <2>2. Max(DOMAIN ent) \in DOMAIN ent /\ \A n \in DOMAIN ent : n <= Max(DOMAIN ent)
    BY <2>1, GreatestMember
  <2> QED
    BY <2>1, <2>2
<1>6. \A s \in f : Cardinality({t \in f : t < s}) \in Nat
  <2> SUFFICES ASSUME NEW s \in f PROVE Cardinality({t \in f : t < s}) \in Nat
    OBVIOUS
  <2>1. Cardinality({t \in f : t < s}) \in 0 .. Cardinality(f) - 1 /\ Cardinality(f) \in Nat
    BY <1>3, DistinctRanks
  <2> QED
    BY <2>1
<1>7. \A s, t \in f : Cardinality({u \in f : u < s}) = Cardinality({u \in f : u < t}) => s = t
  BY <1>3, DistinctRanks
<1> HIDE DEF source
<1> DEFINE rank(s) == Cardinality({t \in f : t < s})
<1>8. /\ \A s \in f : Mapped(s) \in Nat /\ Mapped(s) > map /\ Mapped(s) > source
      /\ \A s, t \in f : Mapped(s) = Mapped(t) => s = t
      /\ \A s, t \in f : Mapped(s) + 1 # Mapped(t)
  <2>1. \A s \in f : rank(s) \in Nat /\ Mapped(s) = map + 1 + 2 * rank(s)
    BY <1>6
  <2>2. \A s, t \in f : rank(s) = rank(t) => s = t
    BY <1>7
  <2>3. map = source + 1
    OBVIOUS
  <2> HIDE DEF rank, Mapped, map
  <2>4. \A s \in f : Mapped(s) \in Nat /\ Mapped(s) > map /\ Mapped(s) > source
    BY <1>5, <2>1, <2>3
  <2>5. \A s, t \in f : Mapped(s) = Mapped(t) => s = t
    <3> SUFFICES ASSUME NEW s \in f, NEW t \in f, Mapped(s) = Mapped(t) PROVE rank(s) = rank(t)
      BY <2>2
    <3> QED
      BY <1>5, <2>1, <2>3
  <2>6. \A s, t \in f : Mapped(s) + 1 # Mapped(t)
    <3> SUFFICES ASSUME NEW s \in f, NEW t \in f, Mapped(s) + 1 = Mapped(t) PROVE FALSE
      OBVIOUS
    <3>1. 2 * rank(s) + 1 = 2 * rank(t) /\ rank(s) \in Nat /\ rank(t) \in Nat
      BY <1>5, <2>1, <2>3
    <3> QED
      BY <3>1
  <2> QED
    BY <2>4, <2>5, <2>6
<1>9. map = source + 1 /\ source \in Int
  BY <1>5
<1> HIDE DEF Mapped, map, rank
<1>10. DOMAIN m = f /\ m \in [f -> Nat] /\ \A s \in f : m[s] = Mapped(s)
  BY <1>8
<1>11. /\ DOMAIN member = {m[s] : s \in f}
       /\ \A s \in f : member[m[s]] = s
  <2>1. DOMAIN member = {Mapped(s) : s \in f}
    OBVIOUS
  <2>2. ASSUME NEW s \in f PROVE member[Mapped(s)] = s
    <3>1. member[Mapped(s)] = CHOOSE t \in f : Mapped(t) = Mapped(s)
      OBVIOUS
    <3> DEFINE t == CHOOSE t \in f : Mapped(t) = Mapped(s)
    <3>2. t \in f /\ Mapped(t) = Mapped(s)
      OBVIOUS
    <3> HIDE DEF t
    <3>3. t = s
      BY <1>8, <3>2
    <3> QED
      BY <3>1, <3>3 DEF t
  <2> HIDE DEF member
  <2> QED
    BY <1>10, <2>1, <2>2
<1> HIDE DEF m, member
<1>12. /\ DOMAIN base = DOMAIN ent
       /\ \A n \in DOMAIN ent : n # rep => base[n] = ent[n]
       /\ base[rep] = [ent[rep] EXCEPT !.items = Swapped(ent[rep].items, m)]
  OBVIOUS
<1>13. /\ DOMAIN items = {m[s] : s \in f} /\ \A s \in f : items[m[s]] = Item(s)
  BY <1>11
<1>14. /\ DOMAIN styles = {m[s] + 1 : s \in f} /\ \A s \in f : styles[m[s] + 1] = Style(m[s] + 1)
  BY <1>11
<1>15. /\ \A s \in f : /\ "kind" \in DOMAIN Item(s) /\ Item(s).kind = "mapped" /\ Item(s).map = map
       /\ \A i \in Nat : /\ {"kind", "of", "look"} \subseteq DOMAIN Style(i + 1)
                         /\ Style(i + 1).kind = "style" /\ Style(i + 1).of = i
  <2>1. \A s : "kind" \in DOMAIN Item(s) /\ Item(s).kind = "mapped" /\ Item(s).map = map
    OBVIOUS
  <2>2. \A i \in Nat : (i + 1) - 1 = i
    OBVIOUS
  <2>3. \A i : /\ {"kind", "of", "look"} \subseteq DOMAIN Style(i)
               /\ Style(i).kind = "style" /\ Style(i).of = i - 1
    OBVIOUS
  <2> HIDE DEF Item, Style
  <2> QED
    BY <2>1, <2>2, <2>3
<1> HIDE DEF base, items, styles, Item, Style, x1, x2
<1>16. \A s \in f : m[s] \in Nat /\ m[s] > source /\ m[s] > map
  BY <1>8, <1>10
<1>17. /\ DOMAIN e1 = DOMAIN ent \cup {source} /\ e1[source] = x1
       /\ \A n \in DOMAIN ent : n # source => e1[n] = base[n]
  <2> DEFINE a == Alone(source, x1)
  <2>1. DOMAIN a = {source} /\ a[source] = x1
    BY AloneEntity
  <2> HIDE DEF a
  <2>2. /\ DOMAIN With(base, a) = DOMAIN base \cup DOMAIN a
        /\ \A n \in DOMAIN a : With(base, a)[n] = a[n]
        /\ \A n \in DOMAIN base : n \notin DOMAIN a => With(base, a)[n] = base[n]
    BY WithEntities
  <2>3. e1 = With(base, a)
    BY DEF a
  <2> HIDE DEF e1
  <2> QED
    BY <1>12, <2>1, <2>2, <2>3
<1> HIDE DEF e1
<1>18. /\ DOMAIN e2 = DOMAIN ent \cup {source, map} /\ e2[map] = x2
       /\ \A n \in DOMAIN e1 : n # map => e2[n] = e1[n]
  <2> DEFINE a == Alone(map, x2)
  <2>1. DOMAIN a = {map} /\ a[map] = x2
    BY AloneEntity
  <2> HIDE DEF a
  <2>2. /\ DOMAIN With(e1, a) = DOMAIN e1 \cup DOMAIN a
        /\ \A n \in DOMAIN a : With(e1, a)[n] = a[n]
        /\ \A n \in DOMAIN e1 : n \notin DOMAIN a => With(e1, a)[n] = e1[n]
    BY WithEntities
  <2>3. e2 = With(e1, a)
    BY DEF a
  <2> HIDE DEF e2
  <2> QED
    BY <1>17, <2>1, <2>2, <2>3
<1> HIDE DEF e2
<1>19. /\ DOMAIN e3 = DOMAIN e2 \cup {m[s] : s \in f}
       /\ \A s \in f : e3[m[s]] = Item(s)
       /\ \A n \in DOMAIN e2 : n \notin {m[s] : s \in f} => e3[n] = e2[n]
  <2>1. /\ DOMAIN With(e2, items) = DOMAIN e2 \cup DOMAIN items
        /\ \A n \in DOMAIN items : With(e2, items)[n] = items[n]
        /\ \A n \in DOMAIN e2 : n \notin DOMAIN items => With(e2, items)[n] = e2[n]
    BY WithEntities
  <2>2. e3 = With(e2, items)
    OBVIOUS
  <2> HIDE DEF e3
  <2> QED
    BY <1>13, <2>1, <2>2
<1> HIDE DEF e3
<1>20. /\ DOMAIN e4 = DOMAIN e3 \cup {m[s] + 1 : s \in f}
       /\ \A s \in f : e4[m[s] + 1] = Style(m[s] + 1)
       /\ \A n \in DOMAIN e3 : n \notin {m[s] + 1 : s \in f} => e4[n] = e3[n]
  <2>1. /\ DOMAIN With(e3, styles) = DOMAIN e3 \cup DOMAIN styles
        /\ \A n \in DOMAIN styles : With(e3, styles)[n] = styles[n]
        /\ \A n \in DOMAIN e3 : n \notin DOMAIN styles => With(e3, styles)[n] = e3[n]
    BY WithEntities
  <2>2. e4 = With(e3, styles)
    OBVIOUS
  <2> HIDE DEF e4
  <2> QED
    BY <1>14, <2>1, <2>2
<1> HIDE DEF e4
<1>21. /\ \A s, t \in f : m[s] = m[t] => s = t
       /\ \A s, t \in f : m[s] + 1 # m[t]
  BY <1>8, <1>10
<1>22. \A n \in DOMAIN ent \cup {source, map} : n \notin {m[s] : s \in f} /\ n \notin {m[s] + 1 : s \in f}
  <2> SUFFICES ASSUME NEW n \in DOMAIN ent \cup {source, map}, NEW s \in f PROVE n # m[s] /\ n # m[s] + 1
    OBVIOUS
  <2>1. n \in Int /\ n <= map
    BY <1>5, <1>9
  <2> QED
    BY <1>5, <1>9, <1>16, <2>1
<1>23. /\ \A n \in DOMAIN ent \cup {source, map} : e4[n] = e2[n]
       /\ \A s \in f : e4[m[s]] = Item(s) /\ e4[m[s] + 1] = Style(m[s] + 1)
  BY <1>18, <1>19, <1>20, <1>21, <1>22
<1>24. /\ \A n \in DOMAIN ent : e4[n] = base[n]
       /\ e4[source] = x1 /\ e4[map] = x2
  <2>1. source # map /\ \A n \in DOMAIN ent : n # source /\ n # map
    BY <1>5, <1>9
  <2> QED
    BY <1>17, <1>18, <1>23, <2>1
<1>25. /\ source \notin DOMAIN ent /\ source + 1 \notin DOMAIN ent
       /\ \A s \in f : m[s] \notin DOMAIN ent /\ m[s] + 1 \notin DOMAIN ent /\ m[s] > source + 1
  <2>1. \A n \in DOMAIN ent : n # source /\ n # map
    BY <1>5, <1>9
  <2> QED
    BY <1>9, <1>16, <1>22, <2>1
<1>26. \A s \in f : /\ "kind" \in DOMAIN e4[m[s]] /\ e4[m[s]].kind = "mapped"
                    /\ e4[m[s]].map = source + 1
                    /\ {"kind", "of", "look"} \subseteq DOMAIN e4[m[s] + 1]
                    /\ e4[m[s] + 1].kind = "style" /\ e4[m[s] + 1].of = m[s]
  BY <1>9, <1>15, <1>16, <1>23
<1>27. DOMAIN e4 = DOMAIN ent \cup {source, source + 1} \cup {m[s] : s \in f} \cup {m[s] + 1 : s \in f}
  BY <1>9, <1>18, <1>19, <1>20
<1>28. {i + 1 : i \in DOMAIN member} = {m[s] + 1 : s \in f}
  BY <1>11
<1>29. /\ work'.candidates = candidates /\ work'.duplicates = work.duplicates \cup (f \ {first})
       /\ work'.oldStyles = work.oldStyles \cup {s \in OfKind(ent, {"style"}) : ent[s].of \in candidates}
       /\ work'.newStyles = work.newStyles \o InOrder({m[s] + 1 : s \in f})
       /\ work'.target = With(work.target, m)
       /\ work'.sources = work.sources \cup {source}
  BY <1>1, <1>28
<1>30. /\ \A n \in DOMAIN ent : n # Head(todo) => e4[n] = ent[n]
       /\ e4[Head(todo)] = [ent[Head(todo)] EXCEPT !.items = Swapped(ent[Head(todo)].items, m)]
  BY <1>12, <1>24
<1>31. FamilyIsEmitted(f, m, source)
  BY <1>1, <1>2, <1>3, <1>4, <1>5, <1>9, <1>10, <1>21, <1>24, <1>25, <1>26, <1>27, <1>29, <1>30
     DEF FamilyIsEmitted, x1, x2
<1> QED
  BY <1>31

\* The image of a finite set is finite.
LEMMA ImageIsFinite ==
    ASSUME NEW S, IsFiniteSet(S), NEW g
    PROVE  IsFiniteSet({g[x] : x \in S})
<1> DEFINE T == {g[x] : x \in S}
           h == [x \in S |-> g[x]]
<1>1. h \in Surjection(S, T)
  BY DEF Surjection
<1> HIDE DEF h, T
<1>2. IsFiniteSet(T)
  BY <1>1, FS_Surjection
<1> QED
  BY <1>2 DEF T

\* The section after a family has been emitted: what was there is there, the first of the
\* representations has the mapped items, and what is new fits.
FamilyIsIn(f, m, source) ==
    LET r == Head(todo) IN
    /\ \A n \in DOMAIN ent : n \in DOMAIN ent' /\ ent'[n].kind = ent[n].kind
    /\ \A n \in DOMAIN ent : n # r => ent'[n] = ent[n]
    /\ ent'[r].source = ent[r].source
    /\ \A x \in Refs(ent[r]) : x \notin f => x \in Refs(ent'[r])
    /\ \A x \in f \cap Refs(ent[r]) : m[x] \in Refs(ent'[r])
    /\ \A x \in Refs(ent'[r]) : (x \in Refs(ent[r]) /\ x \notin f) \/ x \in {m[s] : s \in f}
    /\ Refs(ent[r]) = ToSet(ent[r].items) /\ Refs(ent'[r]) = ToSet(ent'[r].items)
    /\ ent[r].items = <<>> => ent'[r].items = <<>>
    /\ Whole(ent')

\* The section is like that.
LEMMA EmittedSection ==
    ASSUME Whole(ent), Head(todo) \in OfKind(ent, {"brep"}),
           NEW f, NEW m, NEW source, FamilyIsEmitted(f, m, source),
           f \subseteq OfKind(ent, {"solid"})
    PROVE  FamilyIsIn(f, m, source)
<1> DEFINE r == Head(todo)
           l == Swapped(ent[r].items, m)
           K == {"solid", "mapped"}
           first == Min(f)
           New == {source, source + 1} \cup {m[s] : s \in f} \cup {m[s] + 1 : s \in f}
<1>1. /\ f \in families /\ first \in f /\ source \in Nat
      /\ m \in [f -> Nat]
      /\ source \notin DOMAIN ent /\ source + 1 \notin DOMAIN ent
      /\ \A s \in f : m[s] \notin DOMAIN ent /\ m[s] + 1 \notin DOMAIN ent
      /\ DOMAIN ent' = DOMAIN ent \cup New
      /\ \A n \in DOMAIN ent : n # r => ent'[n] = ent[n]
      /\ ent'[r] = [ent[r] EXCEPT !.items = l]
      /\ ent'[source] = [kind |-> "brep", source |-> TRUE, items |-> <<first>>]
      /\ ent'[source + 1] = [kind |-> "map", rep |-> source]
      /\ \A s \in f : /\ "kind" \in DOMAIN ent'[m[s]] /\ ent'[m[s]].kind = "mapped"
                      /\ ent'[m[s]].map = source + 1
                      /\ {"kind", "of", "look"} \subseteq DOMAIN ent'[m[s] + 1]
                      /\ ent'[m[s] + 1].kind = "style" /\ ent'[m[s] + 1].of = m[s]
  BY DEF FamilyIsEmitted
<1>2. r \in DOMAIN ent /\ ent[r].kind = "brep" /\ Fits(ent, ent[r])
  BY DEF OfKind, Whole
<1>3. ent[r].items \in Seq(OfKind(ent, K)) /\ Refs(ent[r]) = ToSet(ent[r].items)
  BY <1>2, SolidReferences DEF Fits
<1>4. "kind" \in DOMAIN ent[r] /\ "items" \in DOMAIN ent[r] /\ "source" \in DOMAIN ent[r]
  BY <1>2 DEF Fits
<1>5. ent'[r].kind = "brep" /\ ent'[r].source = ent[r].source /\ ent'[r].items = l
  <2> HIDE DEF l
  <2> QED
    BY <1>1, <1>2, <1>4
<1>6. \A n \in DOMAIN ent : n \in DOMAIN ent' /\ ent'[n].kind = ent[n].kind
  BY <1>1, <1>2, <1>5
<1>7. \A k : OfKind(ent, k) \subseteq OfKind(ent', k)
  BY <1>6 DEF OfKind
<1>8. \A s \in f : m[s] \in OfKind(ent', {"mapped"}) /\ m[s] \in OfKind(ent', K)
  <2>1. \A s \in f : m[s] \in DOMAIN ent'
    BY <1>1
  <2> QED
    BY <1>1, <2>1 DEF OfKind
<1>9. /\ l \in Seq(OfKind(ent', K))
      /\ \A x \in ToSet(ent[r].items) : x \notin f => x \in ToSet(l)
      /\ \A x \in ToSet(ent[r].items) : x \in f => m[x] \in ToSet(l)
      /\ \A y \in ToSet(l) : (y \in ToSet(ent[r].items) /\ y \notin f) \/ y \in {m[s] : s \in f}
      /\ ent[r].items = <<>> => l = <<>>
  <2> DEFINE S == OfKind(ent, K)
             T == OfKind(ent', K)
             items == ent[r].items
  <2>1. items \in Seq(S) /\ S \subseteq T /\ (\A s \in f : m[s] \in T) /\ DOMAIN m = f
    BY <1>1, <1>3, <1>7, <1>8
  <2> HIDE DEF S, T, items
  <2>2. /\ \A TT : S \subseteq TT /\ (\A x \in DOMAIN m : m[x] \in TT) => Swapped(items, m) \in Seq(TT)
        /\ \A x \in ToSet(items) : x \notin DOMAIN m => x \in ToSet(Swapped(items, m))
        /\ \A x \in ToSet(items) : x \in DOMAIN m => m[x] \in ToSet(Swapped(items, m))
        /\ \A y \in ToSet(Swapped(items, m)) :
              \/ y \in ToSet(items) /\ y \notin DOMAIN m
              \/ \E x \in ToSet(items) : x \in DOMAIN m /\ y = m[x]
        /\ items = <<>> => Swapped(items, m) = <<>>
    BY <2>1, SwappedItems
  <2>3. Swapped(items, m) \in Seq(T)
    BY <2>1, <2>2
  <2> QED
    BY <2>1, <2>2, <2>3 DEF T, items
<1> HIDE DEF l
<1>10. Fits(ent', ent'[r]) /\ Refs(ent'[r]) = ToSet(l)
  <2>1. LET y == [ent[r] EXCEPT !.items = l] IN
           /\ Fits(ent', y) /\ y.kind = ent[r].kind /\ y.items = l /\ Refs(y) = ToSet(l)
           /\ ent[r].kind = "brep" => y.source = ent[r].source
    <3>1. l \in Seq(OfKind(ent', {"solid", "mapped"})) /\ ent[r].kind \in {"brep", "shape"}
      BY <1>2, <1>9
    <3> DEFINE E == ent'
               x == ent[r]
    <3>2. Fits(ent, x) /\ x.kind \in {"brep", "shape"} /\ l \in Seq(OfKind(E, {"solid", "mapped"}))
      BY <1>2, <3>1
    <3> HIDE DEF E, x
    <3>3. LET y == [x EXCEPT !.items = l] IN
           /\ Fits(E, y) /\ y.kind = x.kind /\ y.items = l /\ Refs(y) = ToSet(l)
           /\ x.kind = "brep" => y.source = x.source
      BY <3>2, RelistedFits
    <3> QED
      BY <3>3 DEF E, x
  <2> QED
    BY <1>1, <2>1
<1>11. ASSUME NEW n \in DOMAIN ent, n # r PROVE Fits(ent', ent'[n])
  <2>1. ent'[n] = ent[n] /\ Fits(ent, ent[n])
    BY <1>1, <1>11 DEF Whole
  <2>2. \A x \in Refs(ent[n]) : x \in DOMAIN ent' /\ ent'[x].kind = ent[x].kind
    BY <1>6, <2>1, FitReferences
  <2> DEFINE E == ent'
             x == ent[n]
  <2>3. Fits(ent, x) /\ \A y \in Refs(x) : y \in DOMAIN E /\ E[y].kind = ent[y].kind
    BY <2>1, <2>2
  <2> HIDE DEF E, x
  <2>4. Fits(E, x)
    BY <2>3, FitsStays
  <2> QED
    BY <2>1, <2>4 DEF E, x
<1>12. Fits(ent', ent'[source])
  <2>1. first \in OfKind(ent', K)
    BY <1>1, <1>7 DEF OfKind
  <2> DEFINE T == OfKind(ent', K)
  <2> HIDE DEF T, first
  <2>2. <<first>> \in Seq(T)
    BY <2>1 DEF T
  <2>3. /\ "kind" \in DOMAIN ent'[source] /\ "items" \in DOMAIN ent'[source] /\ "source" \in DOMAIN ent'[source]
        /\ ent'[source].kind = "brep" /\ ent'[source].source = TRUE /\ ent'[source].items = <<first>>
    BY <1>1
  <2> QED
    BY <2>2, <2>3 DEF Fits, T
<1>13. Fits(ent', ent'[source + 1])
  <2>1. source \in OfKind(ent', {"brep"})
    <3>1. source \in DOMAIN ent' /\ ent'[source].kind = "brep"
      BY <1>1
    <3> QED
      BY <3>1 DEF OfKind
  <2>2. "kind" \in DOMAIN ent'[source + 1] /\ ent'[source + 1].kind = "map" /\ ent'[source + 1].rep = source
    BY <1>1
  <2> QED
    BY <2>1, <2>2 DEF Fits
<1>14. ASSUME NEW s \in f PROVE Fits(ent', ent'[m[s]]) /\ Fits(ent', ent'[m[s] + 1])
  <2>1. source + 1 \in OfKind(ent', {"map"})
    <3>1. source + 1 \in DOMAIN ent' /\ ent'[source + 1].kind = "map"
      BY <1>1
    <3> QED
      BY <3>1 DEF OfKind
  <2>2. Fits(ent', ent'[m[s]])
    BY <1>1, <2>1 DEF Fits
  <2>3. m[s] \in OfKind(ent', {"solid", "face", "mapped"})
    BY <1>8 DEF OfKind
  <2>4. Fits(ent', ent'[m[s] + 1])
    BY <1>1, <2>3 DEF Fits
  <2> QED
    BY <2>2, <2>4
<1>15. Whole(ent')
  <2>1. DOMAIN ent' \subseteq Nat
    <3>1. \A s \in f : m[s] \in Nat /\ m[s] + 1 \in Nat
      BY <1>1
    <3>2. source + 1 \in Nat /\ DOMAIN ent \subseteq Nat
      BY <1>1 DEF Whole
    <3> QED
      BY <1>1, <3>1, <3>2
  <2>2. IsFiniteSet(f) /\ IsFiniteSet(DOMAIN ent)
    <3>1. f \in SUBSET DOMAIN ent
      BY DEF OfKind
    <3> QED
      BY <3>1, FS_Subset DEF Whole
  <2> DEFINE A == {m[s] : s \in f}
             B == {m[s] + 1 : s \in f}
             g == [s \in f |-> m[s] + 1]
  <2>3. IsFiniteSet(A)
    BY <2>2, ImageIsFinite
  <2>4. IsFiniteSet(B)
    <3>1. B = {g[s] : s \in f}
      OBVIOUS
    <3> HIDE DEF g, B
    <3>2. IsFiniteSet({g[s] : s \in f})
      BY <2>2, ImageIsFinite
    <3> QED
      BY <3>1, <3>2
  <2>5. IsFiniteSet(DOMAIN ent')
    <3> HIDE DEF A, B
    <3> DEFINE D == DOMAIN ent
    <3>1. IsFiniteSet(D)
      BY <2>2
    <3> HIDE DEF D
    <3>2. IsFiniteSet(D \cup {source})
      BY <3>1, FS_AddElement
    <3>3. IsFiniteSet((D \cup {source}) \cup {source + 1})
      BY <3>2, FS_AddElement
    <3>4. IsFiniteSet(((D \cup {source}) \cup {source + 1}) \cup A)
      BY <2>3, <3>3, FS_Union
    <3>5. IsFiniteSet((((D \cup {source}) \cup {source + 1}) \cup A) \cup B)
      BY <2>4, <3>4, FS_Union
    <3>6. DOMAIN ent' = (((D \cup {source}) \cup {source + 1}) \cup A) \cup B
      BY <1>1 DEF A, B, D
    <3> QED
      BY <3>5, <3>6
  <2>6. \A n \in DOMAIN ent' : Fits(ent', ent'[n])
    <3> SUFFICES ASSUME NEW n \in DOMAIN ent' PROVE Fits(ent', ent'[n])
      OBVIOUS
    <3>1. n \in DOMAIN ent \/ n = source \/ n = source + 1 \/ \E s \in f : n = m[s] \/ n = m[s] + 1
      BY <1>1
    <3> QED
      BY <1>10, <1>11, <1>12, <1>13, <1>14, <3>1
  <2> QED
    BY <2>1, <2>5, <2>6 DEF Whole
<1>16. /\ \A x \in Refs(ent[r]) : x \notin f => x \in Refs(ent'[r])
       /\ \A x \in f \cap Refs(ent[r]) : m[x] \in Refs(ent'[r])
       /\ \A x \in Refs(ent'[r]) : (x \in Refs(ent[r]) /\ x \notin f) \/ x \in {m[s] : s \in f}
  BY <1>3, <1>9, <1>10
<1>17. Refs(ent'[r]) = ToSet(ent'[r].items)
  BY <1>5, <1>10
<1>18. ent[r].items = <<>> => ent'[r].items = <<>>
  BY <1>5, <1>9
<1>19. \A n \in DOMAIN ent : n # r => ent'[n] = ent[n]
  BY <1>1
<1> HIDE DEF r
<1> QED
  BY <1>3, <1>5, <1>6, <1>15, <1>16, <1>17, <1>18, <1>19 DEF FamilyIsIn, r

\* A solid, its faces and what they lie on: all that they refer to is among them.
LEMMA ClosureOfASolid ==
    ASSUME NEW e, Whole(e), NEW n \in OfKind(e, {"solid"})
    PROVE  /\ n \in Closure(e, n) /\ Closure(e, n) \subseteq OfKind(e, {"solid", "face", "value"})
           /\ \A x \in Closure(e, n) : Refs(e[x]) \subseteq Closure(e, n)
           /\ e[n].faces \subseteq Closure(e, n)
<1>1. n \in DOMAIN e /\ e[n].kind = "solid" /\ Refs(e[n]) = e[n].faces
  BY SolidReferences DEF OfKind
<1>2. \A f \in Refs(e[n]) : f \in DOMAIN e /\ e[f].kind = "face"
  BY <1>1, WholeReferences DEF Meets
<1>3. \A f \in Refs(e[n]) : \A v \in Refs(e[f]) : v \in DOMAIN e /\ e[v].kind = "value"
  BY <1>2, WholeReferences DEF Meets
<1>4. \A f \in Refs(e[n]) : \A v \in Refs(e[f]) : Refs(e[v]) = {}
  BY <1>3, SolidReferences
<1>5. \A x : x \in Closure(e, n) <=> x = n \/ x \in Refs(e[n]) \/ \E f \in Refs(e[n]) : x \in Refs(e[f])
  BY DEF Closure
<1>6. \A x \in Closure(e, n) : x \in OfKind(e, {"solid", "face", "value"})
  BY <1>1, <1>2, <1>3, <1>5 DEF OfKind
<1>7. \A x \in Closure(e, n) : Refs(e[x]) \subseteq Closure(e, n)
  <2> SUFFICES ASSUME NEW x \in Closure(e, n), NEW y \in Refs(e[x]) PROVE y \in Closure(e, n)
    OBVIOUS
  <2> QED
    BY <1>4, <1>5
<1> QED
  BY <1>1, <1>5, <1>6, <1>7

\* Every face of a solid that was analysed has a style.
LEMMA AnalyzedIsStyled ==
    ASSUME NEW e, Whole(e), NEW s, Analyzed(e, s)
    PROVE  \E f \in e[s].faces : \E n \in OfKind(e, {"style"}) : e[n].of = f
<1>1. Cardinality(UNION {Looks(e, f) : f \in e[s].faces}) = 1
  BY DEF Analyzed
<1>2. UNION {Looks(e, f) : f \in e[s].faces} # {}
  BY <1>1, FS_EmptySet
<1>3. PICK f \in e[s].faces : Looks(e, f) # {}
  BY <1>2
<1>4. StylesOf(e, f) # {}
  BY <1>3 DEF Looks
<1> QED
  BY <1>4 DEF StylesOf

\* What is known when a family has been emitted.
Emission(f, m, source) ==
    /\ FamilyIsEmitted(f, m, source) /\ FamilyIsIn(f, m, source)
    /\ Grown /\ Collected /\ Targets /\ NewStyles /\ Whole(ent)
    /\ \A n \in DOMAIN start : start[n].kind \in Lists => ent[n] = start[n]
    /\ start' = start /\ todo' = todo /\ Whole(start)
    /\ OfKind(ent, {"solid"}) = OfKind(start, {"solid"})
    /\ \A n \in DOMAIN start : start[n].kind \notin {"map", "mapped", "use"}
    /\ \A n \in OfKind(start, {"solid", "face", "style", "value"}) : n \in DOMAIN ent /\ ent[n] = start[n]
    /\ Head(todo) \in OfKind(start, {"brep"}) /\ Head(todo) \in ToSet(todo)
    /\ f \subseteq Solids(ent, Head(todo)) /\ \E s, t \in f : s # t
    /\ \A s, t \in f : s # t => Alike(start, s, t)

\* The section grows by entities for instances.
LEMMA EmissionGrows ==
    ASSUME NEW f, NEW m, NEW source, Emission(f, m, source)
    PROVE  Grown'
<1> DEFINE r == Head(todo)
           first == Min(f)
<1>1. /\ \A n \in DOMAIN ent : n \in DOMAIN ent' /\ ent'[n].kind = ent[n].kind
      /\ \A n \in DOMAIN ent : n # r => ent'[n] = ent[n]
      /\ ent'[r].source = ent[r].source
  BY DEF Emission, FamilyIsIn
<1>2. /\ r \in DOMAIN start /\ start[r].kind = "brep" /\ start' = start /\ first \in f
      /\ f \subseteq OfKind(start, {"solid"})
  BY DEF Emission, OfKind, Solids, FamilyIsEmitted
<1>3. /\ \A n \in DOMAIN start :
          /\ n \in DOMAIN ent /\ ent[n].kind = start[n].kind
          /\ start[n].kind \notin Lists \cup Reps => ent[n] = start[n]
          /\ start[n].kind = "brep" => ent[n].source = start[n].source
          /\ start[n].kind = "shape" /\ start[n].items = <<>> => ent[n].items = <<>>
      /\ \A n \in DOMAIN ent \ DOMAIN start :
          /\ ent[n].kind \in {"brep", "map", "mapped", "style"}
          /\ ent[n].kind = "brep" => /\ ent[n].source
                                     /\ \E s \in OfKind(start, {"solid"}) : ent[n].items = <<s>>
          /\ ent[n].kind = "map" => ent[n].rep \notin DOMAIN start
          /\ ent[n].kind = "style" => ent[n].of \notin DOMAIN start
      /\ work.sources = OfKind(ent, {"brep"}) \ DOMAIN start
  BY DEF Emission, Grown
<1>4. /\ source \notin DOMAIN ent /\ source + 1 \notin DOMAIN ent
      /\ \A s \in f : m[s] \notin DOMAIN ent /\ m[s] + 1 \notin DOMAIN ent
      /\ DOMAIN ent' = DOMAIN ent \cup {source, source + 1} \cup {m[s] : s \in f} \cup {m[s] + 1 : s \in f}
      /\ ent'[source].kind = "brep" /\ ent'[source].source /\ ent'[source].items = <<first>>
      /\ ent'[source + 1].kind = "map" /\ ent'[source + 1].rep = source
      /\ \A s \in f : ent'[m[s]].kind = "mapped" /\ ent'[m[s] + 1].kind = "style" /\ ent'[m[s] + 1].of = m[s]
      /\ work'.sources = work.sources \cup {source}
  BY DEF Emission, FamilyIsEmitted
<1> HIDE DEF r, first
<1>5. \A n \in DOMAIN start :
          /\ n \in DOMAIN ent' /\ ent'[n].kind = start[n].kind
          /\ start[n].kind \notin Lists \cup Reps => ent'[n] = start[n]
          /\ start[n].kind = "brep" => ent'[n].source = start[n].source
          /\ start[n].kind = "shape" /\ start[n].items = <<>> => ent'[n].items = <<>>
  <2> SUFFICES ASSUME NEW n \in DOMAIN start
               PROVE  /\ n \in DOMAIN ent' /\ ent'[n].kind = start[n].kind
                      /\ start[n].kind \notin Lists \cup Reps => ent'[n] = start[n]
                      /\ start[n].kind = "brep" => ent'[n].source = start[n].source
                      /\ start[n].kind = "shape" /\ start[n].items = <<>> => ent'[n].items = <<>>
    OBVIOUS
  <2>1. CASE n = r
    BY <1>1, <1>2, <1>3, <2>1 DEF Reps
  <2>2. CASE n # r
    <3>1. ent'[n] = ent[n]
      BY <1>1, <1>3, <2>2
    <3> QED
      BY <1>1, <1>3, <3>1
  <2> QED
    BY <2>1, <2>2
<1>6. ASSUME NEW n \in DOMAIN ent' \ DOMAIN start
      PROVE  /\ ent'[n].kind \in {"brep", "map", "mapped", "style"}
             /\ ent'[n].kind = "brep" => /\ ent'[n].source
                                         /\ \E s \in OfKind(start, {"solid"}) : ent'[n].items = <<s>>
             /\ ent'[n].kind = "map" => ent'[n].rep \notin DOMAIN start
             /\ ent'[n].kind = "style" => ent'[n].of \notin DOMAIN start
  <2>1. CASE n \in DOMAIN ent
    <3>1. ent'[n] = ent[n]
      BY <1>1, <1>2, <2>1
    <3> QED
      BY <1>3, <2>1, <3>1
  <2>2. CASE n \notin DOMAIN ent
    <3>1. n = source \/ n = source + 1 \/ \E s \in f : n = m[s] \/ n = m[s] + 1
      BY <1>4, <2>2
    <3>2. first \in OfKind(start, {"solid"}) /\ source \notin DOMAIN start /\ \A s \in f : m[s] \notin DOMAIN start
      BY <1>2, <1>3, <1>4
    <3> QED
      BY <1>4, <3>1, <3>2
  <2> QED
    BY <2>1, <2>2
<1>7. work'.sources = OfKind(ent', {"brep"}) \ DOMAIN start
  <2>1. \A n : n \in OfKind(ent', {"brep"}) <=> n \in OfKind(ent, {"brep"}) \/ n = source
    <3> SUFFICES ASSUME NEW n PROVE n \in OfKind(ent', {"brep"}) <=> n \in OfKind(ent, {"brep"}) \/ n = source
      OBVIOUS
    <3>1. n \in DOMAIN ent' <=> n \in DOMAIN ent \/ n = source \/ n = source + 1 \/ \E s \in f : n = m[s] \/ n = m[s] + 1
      BY <1>4
    <3> QED
      BY <1>1, <1>4, <3>1 DEF OfKind
  <2> QED
    BY <1>3, <1>4, <2>1
<1> QED
  BY <1>2, <1>5, <1>6, <1>7 DEF Grown

\* The candidates and the old styles grow by those of the family.
LEMMA EmissionCollects ==
    ASSUME NEW f, NEW m, NEW source, Emission(f, m, source)
    PROVE  Collected'
<1> DEFINE first == Min(f)
           new == UNION {Closure(ent, s) : s \in f \ {first}}
<1>1. /\ Grown /\ Collected /\ Whole(ent) /\ Whole(start) /\ start' = start
      /\ \A n \in OfKind(start, {"solid", "face", "style", "value"}) : n \in DOMAIN ent /\ ent[n] = start[n]
      /\ f \subseteq OfKind(ent, {"solid"}) /\ OfKind(ent, {"solid"}) = OfKind(start, {"solid"})
      /\ (\E s, t \in f : s # t) /\ \A s, t \in f : s # t => Alike(start, s, t)
  BY DEF Emission, Solids
<1>2. /\ first \in f
      /\ work'.candidates = work.candidates \cup new
      /\ work'.duplicates = work.duplicates \cup (f \ {first})
      /\ work'.oldStyles = work.oldStyles \cup {s \in OfKind(ent, {"style"}) : ent[s].of \in work'.candidates}
      /\ work'.sources = work.sources \cup {source}
  BY DEF Emission, FamilyIsEmitted
<1>3. \A n \in DOMAIN start : n \in DOMAIN ent /\ ent[n].kind = start[n].kind
  BY <1>1 DEF Grown
<1>4. \A n \in DOMAIN ent \ DOMAIN start :
          /\ ent[n].kind \in {"brep", "map", "mapped", "style"}
          /\ ent[n].kind = "style" => ent[n].of \notin DOMAIN start
  BY <1>1 DEF Grown
<1>5. \A n \in OfKind(ent, {"solid", "face", "value"}) : n \in OfKind(start, {"solid", "face", "value"}) /\ ent[n] = start[n]
  BY <1>1, <1>3, <1>4 DEF OfKind
<1>6. \A x \in new : /\ x \in OfKind(ent, {"solid", "face", "value"}) /\ Refs(ent[x]) \subseteq new
  <2> SUFFICES ASSUME NEW s \in f \ {first}, NEW x \in Closure(ent, s)
               PROVE  x \in OfKind(ent, {"solid", "face", "value"}) /\ Refs(ent[x]) \subseteq new
    OBVIOUS
  <2>1. s \in OfKind(ent, {"solid"})
    BY <1>1
  <2>2. x \in OfKind(ent, {"solid", "face", "value"}) /\ Refs(ent[x]) \subseteq Closure(ent, s)
    BY <1>1, <2>1, ClosureOfASolid
  <2> QED
    BY <2>2
<1>7. \A s \in f \ {first} : s \in new /\ ent[s].faces \subseteq new
  <2> SUFFICES ASSUME NEW s \in f \ {first} PROVE s \in new /\ ent[s].faces \subseteq new
    OBVIOUS
  <2>1. s \in OfKind(ent, {"solid"})
    BY <1>1
  <2>2. s \in Closure(ent, s) /\ ent[s].faces \subseteq Closure(ent, s)
    BY <1>1, <2>1, ClosureOfASolid
  <2> QED
    BY <2>2
<1> HIDE DEF new, first
<1>8. work'.candidates \subseteq OfKind(start, {"solid", "face", "value"})
  BY <1>1, <1>2, <1>5, <1>6 DEF Collected
<1>9. \A n \in work'.candidates : Refs(start[n]) \subseteq work'.candidates
  BY <1>1, <1>2, <1>5, <1>6 DEF Collected
<1>10. work'.duplicates \subseteq work'.candidates \cap OfKind(start, {"solid"})
  BY <1>1, <1>2, <1>7 DEF Collected
<1>11. work'.oldStyles = {s \in OfKind(start, {"style"}) : start[s].of \in work'.candidates}
  <2>1. work.oldStyles = {s \in OfKind(start, {"style"}) : start[s].of \in work.candidates}
    BY <1>1 DEF Collected
  <2>2. \A s : s \in OfKind(start, {"style"}) => s \in OfKind(ent, {"style"}) /\ ent[s] = start[s]
    BY <1>1, <1>3 DEF OfKind
  <2>3. \A s : s \in OfKind(ent, {"style"}) /\ ent[s].of \in work'.candidates => s \in OfKind(start, {"style"})
    BY <1>3, <1>4, <1>8 DEF OfKind
  <2> QED
    BY <1>2, <2>1, <2>2, <2>3
<1>12. work'.oldStyles # {}
  <2>1. PICK t \in f : t # first
    BY <1>1
  <2>2. Analyzed(start, t)
    BY <1>1, <1>2, <2>1 DEF Alike
  <2>3. PICK face \in start[t].faces : \E n \in OfKind(start, {"style"}) : start[n].of = face
    BY <1>1, <2>2, AnalyzedIsStyled
  <2>4. ent[t] = start[t]
    BY <1>1, <2>1 DEF OfKind
  <2>5. face \in work'.candidates
    BY <1>2, <1>7, <2>1, <2>3, <2>4
  <2> QED
    BY <1>11, <2>3, <2>5
<1> QED
  BY <1>1, <1>2, <1>8, <1>9, <1>10, <1>11, <1>12 DEF Collected

\* The members of the family have their mapped items.
LEMMA EmissionTargets ==
    ASSUME NEW f, NEW m, NEW source, Emission(f, m, source)
    PROVE  Targets' /\ DOMAIN work'.target = DOMAIN work.target \cup f
<1> DEFINE first == Min(f)
           r == Head(todo)
<1>1. /\ Targets /\ Grown /\ start' = start
      /\ \A n \in DOMAIN ent : n \in DOMAIN ent' /\ ent'[n].kind = ent[n].kind
      /\ \A n \in DOMAIN ent : n # r => ent'[n] = ent[n]
      /\ r \in DOMAIN start /\ f \subseteq OfKind(start, {"solid"})
  BY DEF Emission, FamilyIsIn, Solids, OfKind
<1>2. /\ m \in [f -> Nat] /\ first \in f
      /\ ent'[source].items = <<first>>
      /\ \A s \in f : m[s] \in DOMAIN ent' /\ ent'[m[s]].kind = "mapped"
      /\ work'.target = With(work.target, m)
      /\ work'.sources = work.sources \cup {source}
      /\ work'.duplicates = work.duplicates \cup (f \ {first})
  BY DEF Emission, FamilyIsEmitted
<1> HIDE DEF first, r
<1>3. DOMAIN m = f
  BY <1>2
<1>4. /\ DOMAIN work'.target = DOMAIN work.target \cup f
      /\ \A s \in f : work'.target[s] = m[s]
      /\ \A s \in DOMAIN work.target : s \notin f => work'.target[s] = work.target[s]
  <2> DEFINE t == work.target
  <2>1. /\ DOMAIN With(t, m) = DOMAIN t \cup DOMAIN m
        /\ \A n \in DOMAIN m : With(t, m)[n] = m[n]
        /\ \A n \in DOMAIN t : n \notin DOMAIN m => With(t, m)[n] = t[n]
    BY WithEntities
  <2> QED
    BY <1>2, <1>3, <2>1
<1>5. \A n \in work.sources : n \in DOMAIN ent /\ n # r
  BY <1>1 DEF Grown, OfKind
<1>6. ASSUME NEW s \in DOMAIN work'.target
      PROVE  /\ s \in OfKind(start, {"solid"}) /\ work'.target[s] \in OfKind(ent', {"mapped"})
             /\ s \in work'.duplicates \/ \E q \in work'.sources : ent'[q].items = <<s>>
  <2>1. CASE s \in f
    <3>1. work'.target[s] \in OfKind(ent', {"mapped"})
      BY <1>2, <1>4, <2>1 DEF OfKind
    <3> QED
      BY <1>1, <1>2, <2>1, <3>1
  <2>2. CASE s \notin f
    <3>1. s \in DOMAIN work.target /\ work'.target[s] = work.target[s]
      BY <1>4, <2>2
    <3>2. /\ s \in OfKind(start, {"solid"}) /\ work.target[s] \in OfKind(ent, {"mapped"})
          /\ s \in work.duplicates \/ \E q \in work.sources : ent[q].items = <<s>>
      BY <1>1, <3>1 DEF Targets
    <3>3. work.target[s] \in OfKind(ent', {"mapped"})
      BY <1>1, <3>2 DEF OfKind
    <3> QED
      BY <1>1, <1>2, <1>5, <3>1, <3>2, <3>3
  <2> QED
    BY <2>1, <2>2
<1> QED
  BY <1>1, <1>4, <1>6 DEF Targets

\* The new styles grow by those of the family.
LEMMA EmissionStyles ==
    ASSUME NEW f, NEW m, NEW source, Emission(f, m, source)
    PROVE  NewStyles' /\ ToSet(work'.newStyles) = ToSet(work.newStyles) \cup {m[s] + 1 : s \in f}
<1> DEFINE new == {m[s] + 1 : s \in f}
           E == ent'
           S == OfKind(E, {"style"})
<1>1. /\ NewStyles /\ Grown /\ start' = start /\ Whole(E)
      /\ \A n \in DOMAIN ent : n \in DOMAIN E /\ E[n].kind = ent[n].kind
  BY DEF Emission, FamilyIsIn
<1>2. /\ DOMAIN E = DOMAIN ent \cup {source, source + 1} \cup {m[s] : s \in f} \cup {m[s] + 1 : s \in f}
      /\ \A s \in f : m[s] + 1 \in DOMAIN E /\ m[s] + 1 \notin DOMAIN ent /\ E[m[s] + 1].kind = "style"
      /\ E[source].kind = "brep" /\ E[source + 1].kind = "map"
      /\ \A s \in f : E[m[s]].kind = "mapped"
      /\ work'.newStyles = work.newStyles \o InOrder(new)
  BY DEF Emission, FamilyIsEmitted
<1>3. \A n : n \in S <=> n \in OfKind(ent, {"style"}) \/ n \in new
  <2> SUFFICES ASSUME NEW n PROVE n \in S <=> n \in OfKind(ent, {"style"}) \/ n \in new
    OBVIOUS
  <2>1. n \in DOMAIN E <=> n \in DOMAIN ent \/ n = source \/ n = source + 1 \/ \E s \in f : n = m[s] \/ n = m[s] + 1
    BY <1>2
  <2> HIDE DEF E
  <2> QED
    BY <1>1, <1>2, <2>1 DEF OfKind
<1>4. new \in SUBSET DOMAIN E
  BY <1>2
<1>5. new \cap DOMAIN ent = {}
  BY <1>2
<1> HIDE DEF E, new
<1>6. InOrder(new) \in Seq(new) /\ ToSet(InOrder(new)) = new
  BY <1>1, <1>4, AllRepresentations
<1> DEFINE b == InOrder(new)
           a == work.newStyles
<1>7. a \in Seq(OfKind(ent, {"style"})) /\ ToSet(a) = OfKind(ent, {"style"}) \ DOMAIN start
  BY <1>1 DEF NewStyles
<1> HIDE DEF b, a, S
<1>8. a \in Seq(S)
  <2> DEFINE A == OfKind(ent, {"style"})
  <2>1. a \in Seq(A) /\ A \subseteq S
    BY <1>3, <1>7
  <2> HIDE DEF A
  <2> QED
    BY <2>1
<1>9. b \in Seq(S)
  <2>1. b \in Seq(new) /\ new \subseteq S
    BY <1>3, <1>6 DEF b
  <2> QED
    BY <2>1
<1>10. a \o b \in Seq(S) /\ ToSet(a \o b) = ToSet(a) \cup ToSet(b)
  BY <1>8, <1>9, JoinedLists
<1>11. work'.newStyles = a \o b
  BY <1>2 DEF a, b
<1>12. ToSet(work'.newStyles) = ToSet(a) \cup new
  BY <1>6, <1>10, <1>11 DEF b
<1>13. DOMAIN start \subseteq DOMAIN ent
  BY <1>1 DEF Grown
<1>14. ToSet(work'.newStyles) = S \ DOMAIN start
  BY <1>3, <1>5, <1>7, <1>12, <1>13
<1>15. NewStyles'
  BY <1>1, <1>10, <1>11, <1>14 DEF NewStyles, S, E
<1> QED
  BY <1>12, <1>15 DEF a, new

\* Who is used, is used by the same or by what is new, unless it is a duplicate.
LEMMA EmissionKeepsUsers ==
    ASSUME NEW f, NEW m, NEW source, Emission(f, m, source),
           \A n \in DOMAIN ent :
              Parents(ent, n) = {} => MayBeUnused(ent, n) \/ n \in Seeds \cup ToSet(work.newStyles),
           NEW n \in DOMAIN ent', Parents(ent', n) = {}
    PROVE  (MayBeUnused(ent, n) \/ n \in Seeds \cup ToSet(work.newStyles))'
<1> DEFINE first == Min(f)
           r == Head(todo)
           K == {"solid"}
<1>1. /\ start' = start /\ r \in DOMAIN start /\ f \subseteq OfKind(ent, K)
      /\ \A x \in DOMAIN ent : x \in DOMAIN ent' /\ ent'[x].kind = ent[x].kind
      /\ \A x \in DOMAIN ent : x # r => ent'[x] = ent[x]
      /\ \A x \in Refs(ent[r]) : x \notin f => x \in Refs(ent'[r])
      /\ \A x \in f \cap Refs(ent[r]) : m[x] \in Refs(ent'[r])
      /\ ent[r].items = <<>> => ent'[r].items = <<>>
      /\ f \subseteq Refs(ent[r])
  BY DEF Emission, FamilyIsIn, Solids, OfKind
<1>2. /\ m \in [f -> Nat] /\ first \in f
      /\ DOMAIN ent' = DOMAIN ent \cup {source, source + 1} \cup {m[s] : s \in f} \cup {m[s] + 1 : s \in f}
      /\ source \notin DOMAIN ent /\ source + 1 \notin DOMAIN ent
      /\ \A s \in f : m[s] \notin DOMAIN ent /\ m[s] + 1 \notin DOMAIN ent
      /\ ent'[source] = [kind |-> "brep", source |-> TRUE, items |-> <<first>>]
      /\ ent'[source + 1] = [kind |-> "map", rep |-> source]
      /\ \A s \in f : /\ ent'[m[s]].kind = "mapped" /\ ent'[m[s]].map = source + 1
                      /\ ent'[m[s] + 1].kind = "style" /\ ent'[m[s] + 1].of = m[s]
      /\ work'.duplicates = work.duplicates \cup (f \ {first})
  BY DEF Emission, FamilyIsEmitted
<1>3. work.oldStyles \subseteq work'.oldStyles
  BY DEF Emission, FamilyIsEmitted
<1>4. ToSet(work'.newStyles) = ToSet(work.newStyles) \cup {m[s] + 1 : s \in f}
  BY EmissionStyles
<1>5. DOMAIN start \subseteq DOMAIN ent
  BY DEF Emission, Grown
<1> HIDE DEF r, first
<1>6. \A x \in DOMAIN ent' : n \notin Refs(ent'[x])
  BY DEF Parents
<1>7. CASE n \in DOMAIN ent
  <2>1. CASE Parents(ent, n) = {}
    <3>1. MayBeUnused(ent, n) \/ n \in Seeds \cup ToSet(work.newStyles)
      BY <1>7, <2>1
    <3>2. MayBeUnused(ent, n) => MayBeUnused(ent, n)'
      <4>1. ent[n].kind = ent'[n].kind /\ (ent[n].kind = "brep" /\ ent[n].items = <<>> => ent'[n].items = <<>>)
        BY <1>1, <1>7
      <4> QED
        BY <1>1, <1>7, <4>1 DEF MayBeUnused
    <3>3. n \in Seeds \cup ToSet(work.newStyles) => n \in work'.duplicates \cup work'.oldStyles \cup ToSet(work'.newStyles)
      BY <1>2, <1>3, <1>4 DEF Seeds
    <3> QED
      BY <3>1, <3>2, <3>3 DEF Seeds
  <2>2. ASSUME NEW p \in Parents(ent, n)
        PROVE  n \in work'.duplicates
    <3>1. p \in DOMAIN ent /\ n \in Refs(ent[p])
      BY DEF Parents
    <3>2. p = r /\ n \in f
      BY <1>1, <1>6, <3>1
    <3>3. n # first
      <4>1. Refs(ent'[source]) = ToSet(<<first>>)
        BY <1>2, SolidReferences
      <4>2. first \in ToSet(<<first>>)
        BY DEF ToSet
      <4>3. source \in DOMAIN ent'
        BY <1>2
      <4> QED
        BY <1>6, <4>1, <4>2, <4>3
    <3> QED
      BY <1>2, <3>2, <3>3
  <2> QED
    BY <2>1, <2>2 DEF Seeds
<1>8. CASE n \notin DOMAIN ent
  <2>1. n # source
    <3>1. Refs(ent'[source + 1]) = {source}
      BY <1>2, SolidReferences
    <3> QED
      BY <1>2, <1>6, <3>1
  <2>2. n # source + 1
    <3>1. Refs(ent'[m[first]]) = {source + 1}
      BY <1>2, SolidReferences
    <3> QED
      BY <1>2, <1>6, <3>1
  <2>3. \A s \in f : n # m[s]
    <3> SUFFICES ASSUME NEW s \in f PROVE n # m[s]
      OBVIOUS
    <3>1. Refs(ent'[m[s] + 1]) = {m[s]}
      BY <1>2, SolidReferences
    <3> QED
      BY <1>2, <1>6, <3>1
  <2>4. \E s \in f : n = m[s] + 1
    BY <1>2, <1>8, <2>1, <2>2, <2>3
  <2> QED
    BY <1>4, <2>4
<1> QED
  BY <1>7, <1>8

\* The other families remain.
LEMMA EmissionRemains ==
    ASSUME NEW f, NEW m, NEW source, Emission(f, m, source), Remaining, Head(todo) \in OfKind(ent, {"brep"})
    PROVE  Remaining'
<1> DEFINE r == Head(todo)
           S == Solids(ent, r)
           T == Solids(ent', r)
<1>1. /\ \A x \in Refs(ent[r]) : x \notin f => x \in Refs(ent'[r])
      /\ \A x \in Refs(ent'[r]) : (x \in Refs(ent[r]) /\ x \notin f) \/ x \in {m[s] : s \in f}
      /\ Refs(ent[r]) = ToSet(ent[r].items) /\ Refs(ent'[r]) = ToSet(ent'[r].items)
      /\ \A n \in DOMAIN ent : n \in DOMAIN ent' /\ ent'[n].kind = ent[n].kind
      /\ \A s \in f : m[s] \in DOMAIN ent' /\ ent'[m[s]].kind = "mapped"
      /\ f \in families /\ families' = families \ {f} /\ todo' = todo /\ start' = start
      /\ Whole(ent) /\ \A n \in Refs(ent[r]) : n \in DOMAIN ent
  BY WholeReferences DEF Emission, FamilyIsIn, FamilyIsEmitted, OfKind
<1>2. T = S \ f
  BY <1>1 DEF Solids, OfKind
<1>3. /\ todo # <<>>
      /\ \A g \in families :
              /\ g \subseteq S /\ \E s, t \in g : s # t
              /\ \A s, t \in g : s # t => Alike(start, s, t)
              /\ \A h \in families : g # h => g \cap h = {}
      /\ Cardinality(S) < 3 \/ \A s, t \in S : Alike(start, s, t) => \E g \in families : {s, t} \subseteq g
  BY DEF Remaining
<1>4. IsFiniteSet(S) /\ Cardinality(S) \in Nat
  BY <1>1, SolidsInside
<1> HIDE DEF S, T
<1>5. IsFiniteSet(T) /\ Cardinality(T) <= Cardinality(S)
  BY <1>2, <1>4, FS_Subset
<1>6. Cardinality(T) \in Nat
  BY <1>5, FS_CardinalityType
<1>7. Cardinality(T) < 3 \/ \A s, t \in T : Alike(start, s, t) => \E g \in families' : {s, t} \subseteq g
  <2>1. CASE Cardinality(S) < 3
    BY <1>4, <1>5, <1>6, <2>1
  <2>2. CASE \A s, t \in S : Alike(start, s, t) => \E g \in families : {s, t} \subseteq g
    <3> SUFFICES ASSUME NEW s \in T, NEW t \in T, Alike(start, s, t)
                 PROVE  \E g \in families' : {s, t} \subseteq g
      OBVIOUS
    <3>1. PICK g \in families : {s, t} \subseteq g
      BY <1>2, <2>2
    <3>2. g # f
      BY <1>2, <3>1
    <3> QED
      BY <1>1, <3>1, <3>2
  <2> QED
    BY <1>3, <2>1, <2>2
<1>8. \A g \in families' : g \subseteq T
  BY <1>1, <1>2, <1>3
<1>9. Remaining' <=>
       /\ todo' # <<>>
       /\ \A g \in families' :
              /\ g \subseteq T /\ \E s, t \in g : s # t
              /\ \A s, t \in g : s # t => Alike(start, s, t)
              /\ \A h \in families' : g # h => g \cap h = {}
       /\ Cardinality(T) < 3 \/ \A s, t \in T : Alike(start, s, t) => \E g \in families' : {s, t} \subseteq g
  BY <1>1 DEF Remaining, T
<1> QED
  BY <1>1, <1>3, <1>7, <1>8, <1>9

\* The representations before stay settled.
LEMMA EmissionSettles ==
    ASSUME NEW f, NEW m, NEW source, Emission(f, m, source), SettledSoFar, InstancingAssumption,
           TypeOK, start \in Files[mode]
    PROVE  SettledSoFar'
<1> DEFINE r == Head(todo)
           E == ent'
           first == Min(f)
<1>1. /\ \A n \in DOMAIN ent : n \in DOMAIN E /\ E[n].kind = ent[n].kind
      /\ \A n \in DOMAIN ent : n # r => E[n] = ent[n]
      /\ Whole(ent) /\ Whole(start) /\ Whole(E) /\ todo' = todo /\ r \in ToSet(todo) /\ Grown
      /\ OfKind(ent, {"solid"}) = OfKind(start, {"solid"})
      /\ \A n \in OfKind(start, {"solid", "face", "style", "value"}) : n \in DOMAIN ent /\ ent[n] = start[n]
      /\ r \in DOMAIN start /\ start[r].kind = "brep"
  BY DEF Emission, FamilyIsIn, OfKind
<1>2. /\ DOMAIN E = DOMAIN ent \cup {source, source + 1} \cup {m[s] : s \in f} \cup {m[s] + 1 : s \in f}
      /\ E[source].kind = "brep" /\ E[source + 1].kind = "map" /\ E[source].items = <<first>>
      /\ \A s \in f : E[m[s]].kind = "mapped" /\ E[m[s] + 1].kind = "style" /\ E[m[s] + 1].of = m[s]
      /\ source \notin DOMAIN ent /\ \A s \in f : m[s] \notin DOMAIN ent
  BY DEF Emission, FamilyIsEmitted
<1>3. \A s, t \in OfKind(start, {"solid"}) : Alike(ent, s, t) <=> Alike(start, s, t)
  BY <1>1, GrownKeepsLooks
<1>4. DOMAIN start \subseteq DOMAIN ent /\ \A n \in DOMAIN start : ent[n].kind = start[n].kind
  BY <1>1 DEF Grown
<1>5. \A n \in OfKind(ent, {"style"}) : (n \in DOMAIN start /\ ent[n] = start[n]) \/ ent[n].of \notin DOMAIN start
  BY <1>1 DEF Grown, OfKind, Lists, Reps
<1> HIDE DEF r, E, first
<1>6. \A n \in OfKind(start, {"solid", "face", "style"}) : n \in DOMAIN E /\ E[n] = start[n]
  <2> SUFFICES ASSUME NEW n \in OfKind(start, {"solid", "face", "style"}) PROVE n \in DOMAIN E /\ E[n] = start[n]
    OBVIOUS
  <2>1. n \in DOMAIN ent /\ ent[n] = start[n] /\ n # r
    BY <1>1 DEF OfKind
  <2> QED
    BY <1>1, <2>1
<1>7. \A n \in OfKind(E, {"style"}) : (n \in DOMAIN start /\ E[n] = start[n]) \/ E[n].of \notin OfKind(start, {"face"})
  <2> SUFFICES ASSUME NEW n \in OfKind(E, {"style"})
               PROVE  (n \in DOMAIN start /\ E[n] = start[n]) \/ E[n].of \notin DOMAIN start
    BY DEF OfKind
  <2>0. n \in DOMAIN E /\ E[n].kind = "style"
    BY DEF OfKind
  <2>1. CASE n \in DOMAIN ent
    <3>1. n # r
      BY <1>1, <1>4, <2>0, <2>1
    <3>2. E[n] = ent[n] /\ n \in OfKind(ent, {"style"})
      BY <1>1, <2>0, <2>1, <3>1 DEF OfKind
    <3> QED
      BY <1>5, <3>2
  <2>2. CASE n \notin DOMAIN ent
    <3>1. \E s \in f : n = m[s] + 1
      BY <1>2, <2>0, <2>2
    <3> QED
      BY <1>2, <1>4, <3>1
  <2> QED
    BY <2>1, <2>2
<1>8. \A s, t \in OfKind(start, {"solid"}) : Alike(E, s, t) <=> Alike(start, s, t)
  BY <1>1, <1>6, <1>7, GrownAlike
<1>9. \A n : n \in OfKind(E, {"solid"}) <=> n \in OfKind(start, {"solid"})
  <2> SUFFICES ASSUME NEW n PROVE n \in OfKind(E, {"solid"}) <=> n \in OfKind(ent, {"solid"})
    BY <1>1
  <2>1. n \in DOMAIN E <=> n \in DOMAIN ent \/ n = source \/ n = source + 1 \/ \E s \in f : n = m[s] \/ n = m[s] + 1
    BY <1>2
  <2> QED
    BY <1>1, <1>2, <2>1 DEF OfKind
<1>10. ASSUME NEW q \in OfKind(E, {"brep"}), q \notin ToSet(todo) PROVE Settled(E, q)
  <2>0. q \in DOMAIN E /\ E[q].kind = "brep"
    BY DEF OfKind
  <2>1. CASE q \in DOMAIN ent
    <3>1. q # r
      BY <1>1, <1>10
    <3>2. E[q] = ent[q] /\ q \in OfKind(ent, {"brep"})
      BY <1>1, <2>0, <2>1, <3>1 DEF OfKind
    <3>3. Settled(ent, q)
      BY <1>10, <3>2 DEF SettledSoFar
    <3>4. Solids(E, q) = Solids(ent, q) /\ Solids(E, q) \subseteq OfKind(start, {"solid"})
      BY <1>1, <1>9, <3>2 DEF Solids
    <3>5. \A s, t \in Solids(E, q) : Alike(E, s, t) => Alike(ent, s, t)
      BY <1>3, <1>8, <3>4
    <3>6. Solids(E, q) \subseteq Solids(ent, q)
      BY <3>4
    <3> QED
      BY <1>1, <3>2, <3>3, <3>5, <3>6, SettledStays
  <2>2. CASE q \notin DOMAIN ent
    <3>1. E[q].items = <<first>>
      BY <1>2, <2>0, <2>2
    <3>2. ToSet(<<first>>) = {first}
      BY DEF ToSet
    <3>3. Solids(E, q) \subseteq {first}
      BY <3>1, <3>2 DEF Solids
    <3>4. Cardinality({first}) = 1 /\ IsFiniteSet({first})
      BY FS_Singleton
    <3>5. Cardinality(Solids(E, q)) <= 1 /\ IsFiniteSet(Solids(E, q))
      BY <3>3, <3>4, FS_Subset
    <3>6. Cardinality(Solids(E, q)) \in Nat
      BY <3>5, FS_CardinalityType
    <3> QED
      BY <3>5, <3>6 DEF Settled
  <2> QED
    BY <2>1, <2>2
<1> QED
  BY <1>1, <1>10 DEF SettledSoFar, E

\* A family is emitted.
LEMMA EmitFamilyKeeps ==
    ASSUME InstancingAssumption, SolidInv, EmitFamily
    PROVE  SolidInv'
<1> DEFINE r == Head(todo)
<1>1. /\ step = "emit" /\ families # {} /\ start' = start /\ mode' = mode /\ step' = step
      /\ todo' = todo /\ round' = round
  BY DEF EmitFamily
<1>2. Running
  BY <1>1 DEF SolidInv, Quiet
<1>3. /\ Emitting /\ TodoReps /\ SettledSoFar /\ Remaining /\ start \in Files[mode]
      /\ TypeOK /\ Whole(ent) /\ mode \in DOMAIN Files
  BY <1>1, <1>2 DEF Running, SolidInv, TypeOK
<1>4. /\ Whole(start)
      /\ \A n \in OfKind(start, {"solid", "face", "style", "value"}) : n \in DOMAIN ent /\ ent[n] = start[n]
      /\ OfKind(ent, {"solid"}) = OfKind(start, {"solid"})
      /\ OfKind(start, {"brep"}) \subseteq OfKind(ent, {"brep"})
      /\ \A n \in DOMAIN start : start[n].kind \notin {"map", "mapped", "use"}
  BY <1>3, GrownKeepsLooks, FileIsWhole DEF Emitting
<1>5. r \in OfKind(start, {"brep"}) /\ r \in ToSet(todo)
  BY <1>3, FirstOfThem DEF TodoReps, Remaining
<1>6. r \in OfKind(ent, {"brep"}) /\ r \in DOMAIN ent
  BY <1>4, <1>5 DEF OfKind
<1>7. \A f \in families : /\ f \subseteq Solids(ent, r) /\ \E s, t \in f : s # t
                          /\ \A s, t \in f : s # t => Alike(start, s, t)
  BY <1>3 DEF Remaining
<1> HIDE DEF r
<1>8. Solids(ent, r) \subseteq OfKind(ent, {"solid"}) /\ Solids(ent, r) \subseteq DOMAIN ent
  BY <1>3, <1>6, SolidsInside
<1>9. \A f \in families : f \subseteq DOMAIN ent /\ f # {} /\ f \subseteq OfKind(ent, {"solid"})
  BY <1>7, <1>8
<1>10. PICK f, m, source : FamilyIsEmitted(f, m, source)
  BY <1>3, <1>6, <1>9, EmittedEntities DEF r
<1>11. f \in families
  BY <1>10 DEF FamilyIsEmitted
<1>12. FamilyIsIn(f, m, source)
  BY <1>3, <1>6, <1>9, <1>10, <1>11, EmittedSection DEF r
<1>13. Emission(f, m, source)
  BY <1>1, <1>3, <1>4, <1>5, <1>7, <1>10, <1>11, <1>12 DEF Emission, Emitting, r
<1>14. Grown' /\ Collected' /\ Targets' /\ NewStyles' /\ DOMAIN work'.target = DOMAIN work.target \cup f
  BY <1>13, EmissionGrows, EmissionCollects, EmissionTargets, EmissionStyles
<1>15. \A n \in DOMAIN start' : start'[n].kind \in Lists => ent'[n] = start'[n]
  <2>1. \A n \in DOMAIN start : n \in DOMAIN ent /\ (start[n].kind \in Lists => ent[n] = start[n] /\ n # r)
    BY <1>3, <1>5 DEF Emitting, Grown, OfKind, Lists
  <2>2. \A n \in DOMAIN ent : n # r => ent'[n] = ent[n]
    BY <1>12 DEF FamilyIsIn, r
  <2> QED
    BY <1>1, <2>1, <2>2
<1>16. \A n \in DOMAIN ent' : Parents(ent', n) = {} => (MayBeUnused(ent, n) \/ n \in Seeds \cup ToSet(work.newStyles))'
  <2> SUFFICES ASSUME NEW n \in DOMAIN ent', Parents(ent', n) = {}
               PROVE  (MayBeUnused(ent, n) \/ n \in Seeds \cup ToSet(work.newStyles))'
    OBVIOUS
  <2>1. \A x \in DOMAIN ent :
           Parents(ent, x) = {} => MayBeUnused(ent, x) \/ x \in Seeds \cup ToSet(work.newStyles)
    BY <1>3 DEF Emitting
  <2> QED
    BY <1>13, <2>1, EmissionKeepsUsers
<1>17. Emitting'
  BY <1>14, <1>15, <1>16 DEF Emitting
<1>18. TodoReps'
  BY <1>1, <1>3 DEF TodoReps
<1>19. Remaining'
  BY <1>3, <1>6, <1>13, EmissionRemains DEF r
<1>20. SettledSoFar'
  BY <1>3, <1>13, EmissionSettles
<1>21. TypeOK'
  <2>1. Whole(ent')
    BY <1>12 DEF FamilyIsIn
  <2>2. work'.duplicates \subseteq DOMAIN start
    BY <1>1, <1>14 DEF Collected, OfKind
  <2>3. DOMAIN work'.target \subseteq OfKind(start, {"solid"})
    BY <1>1, <1>14 DEF Targets
  <2> QED
    BY <1>1, <1>3, <2>1, <2>2, <2>3 DEF TypeOK
<1>22. Running'
  BY <1>1, <1>2, <1>3, <1>17, <1>18, <1>19, <1>20 DEF Running
<1> QED
  BY <1>21, <1>22 DEF SolidInv

-----------------------------------------------------------------------------
(* Planning the assembly.                                                  *)

\* Where every map leads to a source, all maps and all mapped items are the assembly's.
LEMMA AllInstances ==
    ASSUME NEW e, Whole(e), \A m \in OfKind(e, {"map"}) : e[e[m].rep].source
    PROVE  /\ Maps(e) = OfKind(e, {"map"}) /\ MappedItems(e) = OfKind(e, {"mapped"})
           /\ MappedStyles(e) = {s \in OfKind(e, {"style"}) : e[s].of \in OfKind(e, {"mapped"})}
           /\ \A top : LocalMaps(e, top) \subseteq OfKind(e, {"map"})
<1>1. \A m \in OfKind(e, {"map"}) : e[m].rep \in OfKind(e, {"brep"})
  BY WholeFields DEF Leads, OfKind
<1>2. Maps(e) = OfKind(e, {"map"})
  BY <1>1 DEF Maps, Sources
<1>3. \A m \in OfKind(e, {"mapped"}) : e[m].map \in OfKind(e, {"map"})
  BY WholeFields DEF Leads, OfKind
<1>4. MappedItems(e) = OfKind(e, {"mapped"})
  BY <1>2, <1>3 DEF MappedItems
<1>5. MappedStyles(e) = {s \in OfKind(e, {"style"}) : e[s].of \in OfKind(e, {"mapped"})}
  BY <1>4 DEF MappedStyles, StylesOf
<1>6. \A top : LocalMaps(e, top) \subseteq OfKind(e, {"map"})
  BY <1>3, <1>4 DEF LocalMaps, Local
<1> QED
  BY <1>2, <1>4, <1>5, <1>6

\* The plan is to convert all representations with mapped items.
LEMMA PlanKeeps ==
    ASSUME InstancingAssumption, SolidInv, Plan
    PROVE  SolidInv'
<1> DEFINE Mapped == OfKind(ent, {"mapped"})
           MapsOf == OfKind(ent, {"map"})
<1>1. /\ step = "convert" /\ Plannable(ent) /\ step' = "tops"
      /\ ent' = ent /\ start' = start /\ mode' = mode /\ families' = families /\ round' = round
      /\ todo' = InOrder(Tops(ent))
      /\ work' = [Clean EXCEPT !.candidates = MappedItems(ent)
                                 \cup UNION {LocalMaps(ent, top) : top \in Tops(ent)},
                             !.oldStyles = MappedStyles(ent)]
  BY DEF Plan
<1>2. /\ work'.candidates = MappedItems(ent) \cup UNION {LocalMaps(ent, top) : top \in Tops(ent)}
      /\ work'.oldStyles = MappedStyles(ent) /\ work'.duplicates = {} /\ work'.newStyles = <<>>
      /\ DOMAIN work'.target = {}
  BY <1>1 DEF Clean
<1>3. Running /\ Converting /\ mode = "assembly" /\ TypeOK /\ Whole(ent)
  <2>1. Running
    BY <1>1 DEF SolidInv, Quiet
  <2> QED
    BY <1>1, <2>1 DEF Running, SolidInv, TypeOK
<1>4. /\ Instances /\ AllSettled(ent) /\ OfKind(ent, {"use"}) = {}
      /\ \A n \in DOMAIN ent : Parents(ent, n) = {} => MayBeUnused(ent, n)
      /\ \A s \in OfKind(ent, {"style"}) : ent[s].of \in Mapped => s \notin DOMAIN start
  BY <1>3 DEF Converting
<1>5. \A m \in MapsOf : ent[ent[m].rep].source
  BY <1>4 DEF Instances
<1>6. /\ Maps(ent) = MapsOf /\ MappedItems(ent) = Mapped
      /\ MappedStyles(ent) = {s \in OfKind(ent, {"style"}) : ent[s].of \in Mapped}
      /\ \A top : LocalMaps(ent, top) \subseteq MapsOf
  BY <1>3, <1>5, AllInstances
<1>7. ASSUME NEW m \in MapsOf PROVE \E top \in Tops(ent) : m \in LocalMaps(ent, top)
  <2>1. m \in DOMAIN ent /\ ent[m].kind = "map" /\ m \notin DOMAIN start
    BY <1>4 DEF Instances, OfKind
  <2>2. Parents(ent, m) # {}
    BY <1>4, <2>1 DEF MayBeUnused
  <2>3. PICK p \in DOMAIN ent : m \in Refs(ent[p])
    BY <2>2 DEF Parents
  <2>4. ent[p].kind = "mapped"
    BY <1>3, <2>1, <2>3, WholeReferences DEF Meets
  <2>5. Refs(ent[p]) = {ent[p].map}
    BY <2>4, SolidReferences
  <2>6. p \in MappedItems(ent) /\ ent[p].map = m
    BY <1>6, <2>3, <2>4, <2>5 DEF OfKind
  <2>7. UniqueOwner(ent, p)
    BY <1>1, <2>6 DEF Plannable
  <2> DEFINE X == {x \in UNION {{r} \X (DOMAIN ent[r].items) : r \in Tops(ent)} : ent[x[1]].items[x[2]] = p}
  <2>8. Cardinality(X) = 1
    BY <2>7 DEF UniqueOwner
  <2>9. X # {}
    <3> HIDE DEF X
    <3> QED
      BY <2>8, FS_EmptySet
  <2>10. PICK x \in X : TRUE
    BY <2>9
  <2>11. PICK r \in Tops(ent) : x \in {r} \X (DOMAIN ent[r].items)
    BY <2>10
  <2>12. ent[r].items[x[2]] = p /\ x[2] \in DOMAIN ent[r].items
    BY <2>10, <2>11
  <2>13. p \in ToSet(ent[r].items)
    BY <2>12 DEF ToSet
  <2> QED
    BY <2>6, <2>13 DEF LocalMaps, Local
<1>8. work'.candidates = OfKind(ent, {"map", "mapped"})
  BY <1>2, <1>6, <1>7 DEF OfKind
<1>9. work'.oldStyles = {s \in OfKind(ent, {"style"}) : ent[s].of \in Mapped}
  BY <1>2, <1>6
<1>10. work'.oldStyles # {}
  <2>1. PICK top \in Tops(ent) : TRUE
    BY <1>1 DEF Plannable
  <2>2. PICK m \in Local(ent, top) : TRUE
    BY DEF Tops, Local
  <2>3. ent[m].map \in LocalMaps(ent, top) /\ m \in Occurrences(ent, top, ent[m].map) /\ m \in MappedItems(ent)
    BY DEF LocalMaps, Occurrences, Local
  <2>4. FamilyIsPlain(ent, top, ent[m].map)
    BY <1>1, <2>3 DEF Plannable
  <2>5. Cardinality(StylesOf(ent, m)) = 1
    BY <2>3, <2>4 DEF FamilyIsPlain
  <2>6. StylesOf(ent, m) # {}
    BY <2>5, FS_EmptySet
  <2> QED
    BY <1>2, <2>3, <2>6 DEF MappedStyles
<1>11. Tops(ent) \subseteq OfKind(ent, {"brep"}) \ Sources(ent)
  BY DEF Tops
<1>12. /\ todo' \in Seq(Tops(ent)) /\ ToSet(todo') = Tops(ent)
       /\ \A i, j \in DOMAIN todo' : todo'[i] = todo'[j] => i = j
  <2> DEFINE S == Tops(ent)
  <2>1. S \in SUBSET DOMAIN ent
    BY <1>11 DEF OfKind
  <2> HIDE DEF S
  <2>2. /\ InOrder(S) \in Seq(S) /\ ToSet(InOrder(S)) = S
        /\ \A i, j \in DOMAIN InOrder(S) : InOrder(S)[i] = InOrder(S)[j] => i = j
    BY <1>3, <2>1, AllRepresentations
  <2> QED
    BY <1>1, <2>2 DEF S
<1>13. todo' \in Seq(OfKind(ent, {"brep"}) \ Sources(ent))
  <2> DEFINE S == Tops(ent)
             T == OfKind(ent, {"brep"}) \ Sources(ent)
  <2>1. todo' \in Seq(S) /\ S \subseteq T
    BY <1>11, <1>12
  <2> HIDE DEF S, T
  <2>2. todo' \in Seq(T)
    BY <2>1
  <2> QED
    BY <2>2 DEF T
<1>14. \A r \in OfKind(ent, {"brep"}) : ToSet(ent[r].items) \cap Mapped # {} => r \in ToSet(todo')
  <2> SUFFICES ASSUME NEW r \in OfKind(ent, {"brep"}), NEW m \in ToSet(ent[r].items), m \in Mapped
               PROVE  r \in Tops(ent)
    BY <1>12
  <2>1. r \notin Sources(ent)
    <3> SUFFICES ASSUME r \in Sources(ent) PROVE FALSE
      OBVIOUS
    <3>1. PICK s \in OfKind(ent, {"solid"}) : ent[r].items = <<s>>
      BY <1>4 DEF Instances
    <3>2. ToSet(<<s>>) = {s}
      BY DEF ToSet
    <3> QED
      BY <3>1, <3>2 DEF OfKind
  <2> QED
    BY <1>6, <2>1 DEF Tops
<1>15. \A i \in DOMAIN todo' : Cardinality(Definitions(ent, todo'[i])) = 1
  <2> SUFFICES ASSUME NEW i \in DOMAIN todo' PROVE Cardinality(Definitions(ent, todo'[i])) = 1
    OBVIOUS
  <2>1. todo'[i] \in ToSet(todo')
    BY DEF ToSet
  <2> QED
    BY <1>1, <1>12, <2>1 DEF Plannable, HasContext
<1>16. \A m \in MapsOf : \E i \in DOMAIN todo' : m \in LocalMaps(ent, todo'[i])
  <2> SUFFICES ASSUME NEW m \in MapsOf PROVE \E i \in DOMAIN todo' : m \in LocalMaps(ent, todo'[i])
    OBVIOUS
  <2>1. PICK top \in ToSet(todo') : m \in LocalMaps(ent, top)
    BY <1>7, <1>12
  <2> QED
    BY <2>1 DEF ToSet
<1>17. work'.newStyles \in Seq(OfKind(ent, {"style"})) /\ ToSet(work'.newStyles) = {}
  BY <1>2 DEF ToSet
<1>18. Building'
  <2>1. Instances' /\ AllSettled(ent')
    BY <1>1, <1>4 DEF Instances
  <2>2. \A n \in DOMAIN ent : Parents(ent, n) = {} => MayBeUnused(ent, n)'
    BY <1>1, <1>4 DEF MayBeUnused
  <2> QED
    <3>1. work'.oldStyles \cap DOMAIN start' = {}
      <4>1. \A s \in work'.oldStyles : s \notin DOMAIN start
        BY <1>4, <1>9
      <4> QED
        BY <1>1, <4>1
    <3> QED
      BY <1>1, <1>2, <1>4, <1>8, <1>9, <1>10, <1>12, <1>13, <1>14, <1>15, <1>16, <1>17, <2>1, <2>2, <3>1 DEF Building
<1>19. TypeOK'
  BY <1>1, <1>2, <1>3 DEF TypeOK
<1>20. Running'
  BY <1>1, <1>3, <1>18 DEF Running
<1> QED
  BY <1>19, <1>20 DEF SolidInv

-----------------------------------------------------------------------------
(* The entities of an assembly.                                            *)

\* What the entities with the ids N are that place the representations R below the root:
\* styles of the solids S, products, their shapes and their occurrences.
NewStyle(x, S, n) ==
    x[n].kind = "style" /\ {"of", "look"} \subseteq DOMAIN x[n] /\ x[n].of \in S
NewShape(x, N, R, n) ==
    /\ x[n].kind = "sdr" /\ {"product", "rep"} \subseteq DOMAIN x[n] /\ x[n].rep \in R
    /\ x[n].product \in N /\ x[x[n].product].kind = "product"
NewProduct(x, N, n) ==
    /\ x[n].kind = "product" /\ x[n].complete = TRUE
    /\ \E d \in N : x[d].kind = "sdr" /\ x[d].product = n
NewUse(x, N, parent, root, R, n) ==
    /\ x[n].kind = "use" /\ x[n].parent = parent /\ x[n].within = root /\ x[n].rep \in R
    /\ x[n].child \in N /\ x[x[n].child].kind = "product"
    /\ \E d \in N : x[d].kind = "sdr" /\ x[d].product = x[n].child /\ x[d].rep = x[n].rep
NewKinds(x, N, parent, root, R, S, n) ==
    "kind" \in DOMAIN x[n] /\ (\/ NewStyle(x, S, n) \/ NewShape(x, N, R, n)
                               \/ NewProduct(x, N, n) \/ NewUse(x, N, parent, root, R, n))
Placement(x, N, parent, root, R, S) ==
    /\ N \subseteq DOMAIN x
    /\ \A n \in N : NewKinds(x, N, parent, root, R, S, n)
    /\ \A r \in R : \E d \in N : x[d].kind = "sdr" /\ x[d].rep = r

\* The entities of one family: new ones from base on, and the styles of its solid.
FamilyIsPlaced(e, top, map, parent, root, base, x) ==
    /\ Placement(x, DOMAIN x \ DOMAIN e, parent, root, {e[map].rep}, {FirstSolid(e, map)})
    /\ \A n \in DOMAIN x \ DOMAIN e :
          n \in Nat /\ base <= n /\ n < base + 3 + Cardinality(Occurrences(e, top, map))
    /\ \A n \in DOMAIN x \cap DOMAIN e :
          /\ e[n].kind = "style" /\ e[n].of = FirstSolid(e, map)
          /\ {"kind", "of", "look"} \subseteq DOMAIN x[n]
          /\ x[n].kind = "style" /\ x[n].of = e[n].of

\* The entities of a family are like that.
LEMMA FamilyOfEntities ==
    ASSUME NEW e, Whole(e), NEW top, NEW map, NEW parent, NEW root, NEW base \in Nat,
           \A n \in DOMAIN e : n < base
    PROVE  FamilyIsPlaced(e, top, map, parent, root, base,
                          FamilyEntities(e, top, map, parent, root, base))
<1> DEFINE solid == FirstSolid(e, map)
           rep == e[map].rep
           look == InheritedLook(e, top, map)
           occ == Occurrences(e, top, map)
           c == Cardinality(occ)
           rank(m) == Cardinality({o \in occ : o < m})
           Use(m) == base + 3 + rank(m)
           Styles == StylesOf(e, solid)
           A == Restyled(e, top, map)
           B == IF Styles # {} THEN <<>> ELSE Alone(base, [kind |-> "style", of |-> solid, look |-> look])
           C == ChildProduct(base + 1, rep)
           D == [u \in {Use(m) : m \in occ} |->
                   LET m == CHOOSE m \in occ : Use(m) = u
                   IN  Occurrence(parent, base + 1, rep, root, e[m].at, e[m].turn)]
           x1 == With(A, B)
           x2 == With(x1, C)
           x == With(x2, D)
<1>1. x = FamilyEntities(e, top, map, parent, root, base)
  BY DEF FamilyEntities
<1>2. /\ DOMAIN A = Styles
      /\ \A n \in Styles : n \in DOMAIN e /\ e[n].kind = "style" /\ e[n].of = solid
                           /\ A[n] = [e[n] EXCEPT !.look = look]
  BY DEF Restyled, StylesOf, OfKind
<1>3. \A n \in Styles : {"kind", "of", "look"} \subseteq DOMAIN A[n] /\ A[n].kind = "style" /\ A[n].of = e[n].of
  <2> SUFFICES ASSUME NEW n \in Styles
               PROVE  {"kind", "of", "look"} \subseteq DOMAIN A[n] /\ A[n].kind = "style" /\ A[n].of = e[n].of
    OBVIOUS
  <2>1. {"kind", "of", "look"} \subseteq DOMAIN e[n]
    BY <1>2, WholeFields
  <2>2. A[n] = [e[n] EXCEPT !.look = look]
    BY <1>2
  <2> HIDE DEF A, look
  <2> QED
    BY <1>2, <2>1, <2>2
<1>4. /\ DOMAIN B \subseteq {base}
      /\ \A n \in DOMAIN B : /\ {"kind", "of", "look"} \subseteq DOMAIN B[n]
                             /\ B[n].kind = "style" /\ B[n].of = solid
  <2>1. CASE Styles # {}
    BY <2>1
  <2>2. CASE Styles = {}
    <3> DEFINE y == [kind |-> "style", of |-> solid, look |-> look]
    <3>1. B = Alone(base, y)
      BY <2>2
    <3>2. {"kind", "of", "look"} \subseteq DOMAIN y /\ y.kind = "style" /\ y.of = solid
      OBVIOUS
    <3> HIDE DEF y
    <3>3. DOMAIN Alone(base, y) = {base} /\ Alone(base, y)[base] = y
      BY AloneEntity
    <3> QED
      BY <3>1, <3>2, <3>3
  <2> QED
    BY <2>1, <2>2
<1>5. /\ DOMAIN C = {base + 1, base + 2}
      /\ "kind" \in DOMAIN C[base + 1] /\ C[base + 1].kind = "product" /\ C[base + 1].complete = TRUE
      /\ {"kind", "product", "rep"} \subseteq DOMAIN C[base + 2]
      /\ C[base + 2].kind = "sdr" /\ C[base + 2].product = base + 1 /\ C[base + 2].rep = rep
  <2> DEFINE y == [kind |-> "sdr", product |-> base + 1, rep |-> rep]
             id == base + 1
             id2 == id + 1
             a == Alone(id, Product)
             b == Alone(id2, y)
  <2>1. C = With(a, b) /\ id2 = base + 2 /\ id # id2
    BY DEF ChildProduct
  <2>2. /\ {"kind", "product", "rep"} \subseteq DOMAIN y
        /\ y.kind = "sdr" /\ y.product = base + 1 /\ y.rep = rep
        /\ "kind" \in DOMAIN Product /\ Product.kind = "product" /\ Product.complete = TRUE
    BY DEF Product
  <2> HIDE DEF y, C
  <2>3. DOMAIN a = {id} /\ a[id] = Product /\ DOMAIN b = {id2} /\ b[id2] = y
    <3> HIDE DEF id, id2
    <3> QED
      BY AloneEntity
  <2> HIDE DEF a, b
  <2>4. /\ DOMAIN With(a, b) = DOMAIN a \cup DOMAIN b
        /\ \A n \in DOMAIN b : With(a, b)[n] = b[n]
        /\ \A n \in DOMAIN a : n \notin DOMAIN b => With(a, b)[n] = a[n]
    BY WithEntities
  <2>5. DOMAIN C = {id, id2} /\ C[id] = Product /\ C[id2] = y
    BY <2>1, <2>3, <2>4
  <2>6. id = base + 1 /\ id2 = base + 2
    BY <2>1
  <2> HIDE DEF id, id2
  <2> QED
    BY <2>2, <2>5, <2>6
<1>6. occ \in SUBSET Nat /\ IsFiniteSet(occ)
  <2>1. occ \in SUBSET DOMAIN e
    BY DEF Occurrences, Local, MappedItems, OfKind
  <2>2. IsFiniteSet(DOMAIN e) /\ DOMAIN e \subseteq Nat
    BY DEF Whole
  <2> HIDE DEF occ
  <2> QED
    BY <2>1, <2>2, FS_Subset
<1>7. c \in Nat /\ \A m \in occ : rank(m) \in Nat /\ rank(m) < c
  <2>1. c \in Nat /\ \A m \in occ : rank(m) \in 0 .. c - 1
    <3> HIDE DEF occ
    <3> QED
      BY <1>6, DistinctRanks
  <2> HIDE DEF c, rank
  <2> QED
    BY <2>1
<1>8. \A n \in DOMAIN D : n \in Nat /\ n >= base + 3 /\ n < base + 3 + c
  <2> SUFFICES ASSUME NEW m \in occ PROVE Use(m) \in Nat /\ Use(m) >= base + 3 /\ Use(m) < base + 3 + c
    OBVIOUS
  <2>1. rank(m) \in Nat /\ rank(m) < c /\ c \in Nat
    BY <1>7
  <2> HIDE DEF rank, c
  <2> QED
    BY <2>1
<1>9. \A n \in DOMAIN D : /\ "kind" \in DOMAIN D[n] /\ D[n].kind = "use" /\ D[n].parent = parent
                          /\ D[n].child = base + 1 /\ D[n].rep = rep /\ D[n].within = root
  BY DEF Occurrence
<1>10. \A n \in DOMAIN e : n \in Nat /\ n < base
  BY DEF Whole
<1> HIDE DEF A, B, C, D, Use, rank, c, occ, rep, look, Styles
<1>11. /\ DOMAIN x1 = DOMAIN A \cup DOMAIN B /\ \A n \in DOMAIN B : x1[n] = B[n]
       /\ \A n \in DOMAIN A : n \notin DOMAIN B => x1[n] = A[n]
  BY WithEntities
<1> HIDE DEF x1
<1>12. /\ DOMAIN x2 = DOMAIN x1 \cup DOMAIN C /\ \A n \in DOMAIN C : x2[n] = C[n]
       /\ \A n \in DOMAIN x1 : n \notin DOMAIN C => x2[n] = x1[n]
  BY WithEntities
<1> HIDE DEF x2
<1>13. /\ DOMAIN x = DOMAIN x2 \cup DOMAIN D /\ \A n \in DOMAIN D : x[n] = D[n]
       /\ \A n \in DOMAIN x2 : n \notin DOMAIN D => x[n] = x2[n]
  BY WithEntities
<1> HIDE DEF x
<1>14. DOMAIN x = DOMAIN A \cup DOMAIN B \cup DOMAIN C \cup DOMAIN D
  BY <1>11, <1>12, <1>13
<1>15. /\ \A n \in DOMAIN A : n \notin DOMAIN B /\ n \notin DOMAIN C /\ n \notin DOMAIN D
       /\ \A n \in DOMAIN B : n \notin DOMAIN C /\ n \notin DOMAIN D
       /\ \A n \in DOMAIN C : n \notin DOMAIN D
  <2>1. \A n \in DOMAIN A : n \in Nat /\ n < base
    BY <1>2, <1>10
  <2>2. \A n \in DOMAIN B : n = base
    BY <1>4
  <2>3. \A n \in DOMAIN C : n = base + 1 \/ n = base + 2
    BY <1>5
  <2>4. \A n \in DOMAIN D : n \in Nat /\ n >= base + 3
    <3> SUFFICES ASSUME NEW n \in DOMAIN D PROVE n \in Nat /\ n >= base + 3
      OBVIOUS
    <3> QED
      BY <1>8
  <2> QED
    BY <2>1, <2>2, <2>3, <2>4
<1>16. /\ \A n \in DOMAIN A : x[n] = A[n]
       /\ \A n \in DOMAIN B : x[n] = B[n]
       /\ \A n \in DOMAIN C : x[n] = C[n]
       /\ \A n \in DOMAIN D : x[n] = D[n]
  BY <1>11, <1>12, <1>13, <1>15
<1> DEFINE N == DOMAIN x \ DOMAIN e
<1>17. /\ DOMAIN A \subseteq DOMAIN e
       /\ \A n \in DOMAIN B \cup DOMAIN C \cup DOMAIN D : n \notin DOMAIN e
  <2>1. \A n \in DOMAIN B \cup DOMAIN C : n = base \/ n = base + 1 \/ n = base + 2
    BY <1>4, <1>5
  <2>2. \A n \in DOMAIN D : n \in Nat /\ n >= base + 3
    BY <1>7, <1>8
  <2> QED
    BY <1>2, <1>10, <2>1, <2>2
<1>18. N = DOMAIN B \cup DOMAIN C \cup DOMAIN D /\ DOMAIN x \cap DOMAIN e = DOMAIN A
  BY <1>14, <1>17
<1> HIDE DEF N
<1>19. \A n \in N : n \in Nat /\ base <= n /\ n < base + 3 + c
  <2>1. \A n \in DOMAIN B \cup DOMAIN C : n = base \/ n = base + 1 \/ n = base + 2
    BY <1>4, <1>5
  <2>2. \A n \in DOMAIN D : n \in Nat /\ n >= base + 3 /\ n < base + 3 + c
    BY <1>8
  <2> QED
    BY <1>7, <1>18, <2>1, <2>2
<1>20. \A n \in DOMAIN x \cap DOMAIN e :
          /\ e[n].kind = "style" /\ e[n].of = solid
          /\ {"kind", "of", "look"} \subseteq DOMAIN x[n]
          /\ x[n].kind = "style" /\ x[n].of = e[n].of
  BY <1>2, <1>3, <1>16, <1>18
<1>21. base + 1 \in N /\ base + 2 \in N /\ x[base + 1] = C[base + 1] /\ x[base + 2] = C[base + 2]
  BY <1>5, <1>16, <1>18
<1> DEFINE p == base + 1
           q == base + 2
<1>22. /\ p \in N /\ q \in N /\ "kind" \in DOMAIN x[p] /\ x[p].kind = "product" /\ x[p].complete = TRUE
       /\ {"kind", "product", "rep"} \subseteq DOMAIN x[q]
       /\ x[q].kind = "sdr" /\ x[q].product = p /\ x[q].rep = rep
  BY <1>5, <1>21
<1>23. \A n \in DOMAIN D : /\ "kind" \in DOMAIN x[n] /\ x[n].kind = "use" /\ x[n].parent = parent
                           /\ x[n].child = p /\ x[n].rep = rep /\ x[n].within = root
  BY <1>9, <1>16
<1>24. \A n \in N : n \in DOMAIN B \/ n = p \/ n = q \/ n \in DOMAIN D
  BY <1>5, <1>18
<1> HIDE DEF p, q, solid
<1>25. ASSUME NEW n \in N PROVE NewKinds(x, N, parent, root, {rep}, {solid}, n)
  <2>1. CASE n \in DOMAIN B
    <3>1. NewStyle(x, {solid}, n) /\ "kind" \in DOMAIN x[n]
      BY <1>4, <1>16, <2>1 DEF NewStyle
    <3> QED
      BY <3>1 DEF NewKinds
  <2>2. CASE n = p
    <3>1. NewProduct(x, N, n)
      BY <1>22, <2>2 DEF NewProduct
    <3> QED
      BY <1>22, <2>2, <3>1 DEF NewKinds
  <2>3. CASE n = q
    <3>1. NewShape(x, N, {rep}, n)
      BY <1>22, <2>3 DEF NewShape
    <3> QED
      BY <1>22, <2>3, <3>1 DEF NewKinds
  <2>4. CASE n \in DOMAIN D
    <3>1. NewUse(x, N, parent, root, {rep}, n)
      BY <1>22, <1>23, <2>4 DEF NewUse
    <3> QED
      BY <1>23, <2>4, <3>1 DEF NewKinds
  <2> QED
    BY <1>24, <2>1, <2>2, <2>3, <2>4
<1>26. Placement(x, N, parent, root, {rep}, {solid})
  <2>1. N \subseteq DOMAIN x
    BY DEF N
  <2> QED
    BY <1>22, <1>25, <2>1 DEF Placement
<1>27. FamilyIsPlaced(e, top, map, parent, root, base, x)
  <2>1. \A n \in DOMAIN x \ DOMAIN e :
          n \in Nat /\ base <= n /\ n < base + 3 + Cardinality(Occurrences(e, top, map))
    BY <1>19 DEF N, c, occ
  <2> QED
    BY <1>20, <1>26, <2>1 DEF FamilyIsPlaced, N, rep, solid
<1> QED
  BY <1>1, <1>27

\* What is placed by a part of the entities is placed by all of them.
LEMMA NewKindsStay ==
    ASSUME NEW y, NEW M, NEW x, NEW N, NEW Q, NEW T, NEW R, NEW S, NEW parent, NEW root,
           M \subseteq N, \A k \in M : x[k] = y[k], Q \subseteq R, T \subseteq S,
           NEW n \in M, NewKinds(y, M, parent, root, Q, T, n)
    PROVE  NewKinds(x, N, parent, root, R, S, n)
<1>1. x[n] = y[n] /\ "kind" \in DOMAIN x[n]
  BY DEF NewKinds
<1>2. CASE NewStyle(y, T, n)
  BY <1>1, <1>2 DEF NewKinds, NewStyle
<1>3. CASE NewShape(y, M, Q, n)
  <2>1. NewShape(x, N, R, n)
    BY <1>1, <1>3 DEF NewShape
  <2> QED
    BY <1>1, <2>1 DEF NewKinds
<1>4. CASE NewProduct(y, M, n)
  <2>1. NewProduct(x, N, n)
    BY <1>1, <1>4 DEF NewProduct
  <2> QED
    BY <1>1, <2>1 DEF NewKinds
<1>5. CASE NewUse(y, M, parent, root, Q, n)
  <2>1. NewUse(x, N, parent, root, R, n)
    BY <1>1, <1>5 DEF NewUse
  <2> QED
    BY <1>1, <2>1 DEF NewKinds
<1> QED
  BY <1>2, <1>3, <1>4, <1>5 DEF NewKinds

\* The blocks of a table with rows of c ids do not meet.
LEMMA RowsAreApart ==
    ASSUME NEW a \in Nat, NEW b \in Nat, NEW c \in Nat, a < b
    PROVE  c * a + c <= c * b /\ c * a \in Nat /\ c * b \in Nat
<1> DEFINE k == b - a - 1
<1>1. k \in Nat /\ b = (a + 1) + k
  OBVIOUS
<1> HIDE DEF k
<1>2. c * k \in Nat /\ c * a \in Nat /\ c * b \in Nat
  BY <1>1
<1>3. c * ((a + 1) + k) = c * a + c + c * k
  BY <1>1
<1> QED
  BY <1>1, <1>2, <1>3

\* The families' entities together.
BlocksArePlaced(e, top, parent, root, x) ==
    LET maps == LocalMaps(e, top)
        S == {FirstSolid(e, map) : map \in maps}
    IN  /\ Placement(x, DOMAIN x \ DOMAIN e, parent, root, {e[map].rep : map \in maps}, S)
        /\ \A n \in DOMAIN x \ DOMAIN e : n \in Nat /\ n >= root + 4
        /\ IsFiniteSet(DOMAIN x \ DOMAIN e)
        /\ \A n \in DOMAIN x \cap DOMAIN e :
              /\ e[n].kind = "style" /\ e[n].of \in S
              /\ {"kind", "of", "look"} \subseteq DOMAIN x[n]
              /\ x[n].kind = "style" /\ x[n].of = e[n].of

\* The entities of all families are like that.
LEMMA BlocksOfEntities ==
    ASSUME NEW e, Whole(e), NEW top, NEW parent, NEW root \in Nat, \A n \in DOMAIN e : n < root
    PROVE  BlocksArePlaced(e, top, parent, root, FamilyBlocks(e, top, parent, root))
<1> DEFINE maps == LocalMaps(e, top)
           R == {e[map].rep : map \in maps}
           S == {FirstSolid(e, map) : map \in maps}
           c == 3 + Cardinality(Local(e, top))
           rank(map) == Cardinality({m \in maps : m < map})
           base(map) == FamilyBase(e, top, map, root)
           block == [map \in maps |-> FamilyEntities(e, top, map, parent, root, base(map))]
           x == FamilyBlocks(e, top, parent, root)
           new(map) == DOMAIN block[map] \ DOMAIN e
           N == DOMAIN x \ DOMAIN e
<1>1. /\ DOMAIN x = UNION {DOMAIN block[map] : map \in maps}
      /\ \A n \in DOMAIN x : x[n] = block[CHOOSE map \in maps : n \in DOMAIN block[map]][n]
  BY DEF FamilyBlocks
<1>2. maps \in SUBSET Nat /\ IsFiniteSet(maps) /\ maps \subseteq DOMAIN e
  <2>1. \A m \in OfKind(e, {"mapped"}) : e[m].map \in DOMAIN e
    BY WholeFields DEF Leads, OfKind
  <2>2. maps \in SUBSET DOMAIN e
    BY <2>1 DEF LocalMaps, Local, MappedItems
  <2>3. IsFiniteSet(DOMAIN e) /\ DOMAIN e \subseteq Nat
    BY DEF Whole
  <2> HIDE DEF maps
  <2> QED
    BY <2>2, <2>3, FS_Subset
<1>3. IsFiniteSet(Local(e, top)) /\ c \in Nat /\ c >= 3
  <2>1. Local(e, top) \in SUBSET DOMAIN e
    BY DEF Local, MappedItems, OfKind
  <2>2. IsFiniteSet(Local(e, top))
    BY <2>1, FS_Subset DEF Whole
  <2>3. Cardinality(Local(e, top)) \in Nat
    BY <2>2, FS_CardinalityType
  <2> QED
    BY <2>2, <2>3
<1>4. \A map \in maps : 3 + Cardinality(Occurrences(e, top, map)) <= c /\ Cardinality(Occurrences(e, top, map)) \in Nat
  <2> SUFFICES ASSUME NEW map \in maps
               PROVE  3 + Cardinality(Occurrences(e, top, map)) <= c /\ Cardinality(Occurrences(e, top, map)) \in Nat
    OBVIOUS
  <2> DEFINE A == Occurrences(e, top, map)
             L == Local(e, top)
  <2>1. A \subseteq L
    BY DEF Occurrences
  <2> HIDE DEF A
  <2>2. IsFiniteSet(A) /\ Cardinality(A) <= Cardinality(L)
    BY <1>3, <2>1, FS_Subset
  <2>3. Cardinality(A) \in Nat /\ Cardinality(L) \in Nat
    BY <1>3, <2>2, FS_CardinalityType
  <2> HIDE DEF L
  <2>4. 3 + Cardinality(A) <= 3 + Cardinality(L)
    BY <2>2, <2>3
  <2> QED
    BY <2>3, <2>4 DEF A, L
<1>5. /\ \A map \in maps : rank(map) \in Nat
      /\ \A a, b \in maps : rank(a) = rank(b) => a = b
  <2>1. /\ Cardinality(maps) \in Nat
        /\ \A s \in maps : Cardinality({t \in maps : t < s}) \in 0 .. Cardinality(maps) - 1
        /\ \A s, t \in maps : Cardinality({u \in maps : u < s}) = Cardinality({u \in maps : u < t}) => s = t
    <3> HIDE DEF maps
    <3> QED
      BY <1>2, DistinctRanks
  <2> HIDE DEF maps
  <2>2. \A s \in maps : Cardinality({t \in maps : t < s}) \in Nat
    BY <2>1
  <2> QED
    BY <2>1, <2>2
<1>6. \A map \in maps : base(map) = root + 4 + c * rank(map)
  BY DEF FamilyBase
<1> HIDE DEF base, rank, c
<1>7. \A map \in maps : c * rank(map) \in Nat /\ base(map) \in Nat /\ base(map) >= root + 4
  <2> SUFFICES ASSUME NEW map \in maps
               PROVE  c * rank(map) \in Nat /\ base(map) \in Nat /\ base(map) >= root + 4
    OBVIOUS
  <2>1. rank(map) \in Nat /\ rank(map) < rank(map) + 1 /\ rank(map) + 1 \in Nat
    BY <1>5
  <2>2. c * rank(map) \in Nat
    BY <1>3, <2>1, RowsAreApart
  <2> QED
    BY <1>6, <2>2
<1>8. \A map \in maps : block[map] = FamilyEntities(e, top, map, parent, root, base(map))
  OBVIOUS
<1> HIDE DEF block
<1>9. \A map \in maps : FamilyIsPlaced(e, top, map, parent, root, base(map), block[map])
  <2> SUFFICES ASSUME NEW map \in maps PROVE FamilyIsPlaced(e, top, map, parent, root, base(map), block[map])
    OBVIOUS
  <2> DEFINE b == base(map)
  <2>1. b \in Nat /\ \A n \in DOMAIN e : n < b
    <3>1. b \in Nat /\ b >= root + 4
      BY <1>7
    <3>2. \A n \in DOMAIN e : n \in Nat /\ n < root
      BY DEF Whole
    <3> HIDE DEF b
    <3> QED
      BY <3>1, <3>2
  <2> HIDE DEF b
  <2>2. FamilyIsPlaced(e, top, map, parent, root, b, FamilyEntities(e, top, map, parent, root, b))
    BY <2>1, FamilyOfEntities
  <2> QED
    BY <1>8, <2>2 DEF b
<1>10. \A map \in maps : \A n \in new(map) :
          n \in Nat /\ base(map) <= n /\ n < base(map) + c /\ n >= root + 4
  <2> SUFFICES ASSUME NEW map \in maps, NEW n \in new(map)
               PROVE  n \in Nat /\ base(map) <= n /\ n < base(map) + c /\ n >= root + 4
    OBVIOUS
  <2>1. n \in Nat /\ base(map) <= n /\ n < base(map) + 3 + Cardinality(Occurrences(e, top, map))
    BY <1>9 DEF FamilyIsPlaced
  <2> DEFINE k == Cardinality(Occurrences(e, top, map))
             b == base(map)
  <2>2. k \in Nat /\ 3 + k <= c /\ b \in Nat /\ b >= root + 4 /\ c \in Nat
    BY <1>3, <1>4, <1>7
  <2>3. n \in Nat /\ b <= n /\ n < b + 3 + k
    BY <2>1
  <2> HIDE DEF k, b
  <2>4. n < b + c /\ n >= root + 4
    BY <2>2, <2>3
  <2> QED
    BY <2>3, <2>4 DEF b
<1> HIDE DEF new
<1>11. ASSUME NEW a \in maps, NEW b \in maps, a # b PROVE new(a) \cap new(b) = {}
  <2> DEFINE i == rank(a)
             j == rank(b)
             p == base(a)
             q == base(b)
  <2>1. i \in Nat /\ j \in Nat /\ i # j /\ p = root + 4 + c * i /\ q = root + 4 + c * j /\ c \in Nat
    BY <1>3, <1>5, <1>6, <1>11
  <2> SUFFICES ASSUME NEW n \in new(a), n \in new(b) PROVE FALSE
    OBVIOUS
  <2>2. n \in Nat /\ p <= n /\ n < p + c /\ q <= n /\ n < q + c
    BY <1>10
  <2> HIDE DEF i, j, p, q
  <2>3. CASE i < j
    <3>1. c * i + c <= c * j /\ c * i \in Nat /\ c * j \in Nat
      BY <2>1, <2>3, RowsAreApart
    <3> DEFINE u == c * i
               v == c * j
    <3>2. u + c <= v /\ u \in Nat /\ v \in Nat /\ p = root + 4 + u /\ q = root + 4 + v
      BY <2>1, <3>1
    <3> HIDE DEF u, v
    <3> QED
      BY <2>1, <2>2, <3>2
  <2>4. CASE j < i
    <3>1. c * j + c <= c * i /\ c * i \in Nat /\ c * j \in Nat
      BY <2>1, <2>4, RowsAreApart
    <3> DEFINE u == c * i
               v == c * j
    <3>2. v + c <= u /\ u \in Nat /\ v \in Nat /\ p = root + 4 + u /\ q = root + 4 + v
      BY <2>1, <3>1
    <3> HIDE DEF u, v
    <3> QED
      BY <2>1, <2>2, <3>2
  <2> QED
    BY <2>1, <2>3, <2>4
<1> HIDE DEF x, maps, S, R
<1>12. \A map \in maps : new(map) \subseteq N
  BY <1>1 DEF new
<1>13. ASSUME NEW map \in maps, NEW n \in new(map) PROVE x[n] = block[map][n]
  <2> DEFINE other == CHOOSE i \in maps : n \in DOMAIN block[i]
  <2>1. n \in DOMAIN block[map] /\ n \notin DOMAIN e
    BY DEF new
  <2>2. other \in maps /\ n \in DOMAIN block[other]
    BY <2>1
  <2>3. n \in DOMAIN x /\ x[n] = block[other][n]
    BY <1>1, <2>1
  <2> HIDE DEF other
  <2>4. n \in new(other)
    BY <2>1, <2>2 DEF new
  <2>5. other = map
    BY <1>11, <2>2, <2>4
  <2> QED
    BY <2>3, <2>5
<1>14. \A n \in N : \E map \in maps : n \in new(map)
  BY <1>1 DEF new
<1>15. \A map \in maps : /\ Placement(block[map], new(map), parent, root, {e[map].rep}, {FirstSolid(e, map)})
                         /\ e[map].rep \in R /\ FirstSolid(e, map) \in S
  BY <1>9 DEF FamilyIsPlaced, new, R, S
<1> HIDE DEF N
<1>16. ASSUME NEW n \in N PROVE NewKinds(x, N, parent, root, R, S, n)
  <2>1. PICK map \in maps : n \in new(map)
    BY <1>14
  <2> DEFINE y == block[map]
             M == new(map)
             Q == {e[map].rep}
             T == {FirstSolid(e, map)}
  <2>2. /\ M \subseteq N /\ (\A k \in M : x[k] = y[k]) /\ Q \subseteq R /\ T \subseteq S
        /\ n \in M /\ NewKinds(y, M, parent, root, Q, T, n)
    BY <1>12, <1>13, <1>15, <2>1 DEF Placement
  <2> HIDE DEF y, M, Q, T
  <2> QED
    BY <2>2, NewKindsStay
<1>17. \A r \in R : \E d \in N : x[d].kind = "sdr" /\ x[d].rep = r
  <2> SUFFICES ASSUME NEW map \in maps PROVE \E d \in N : x[d].kind = "sdr" /\ x[d].rep = e[map].rep
    BY DEF R
  <2>1. PICK d \in new(map) : block[map][d].kind = "sdr" /\ block[map][d].rep = e[map].rep
    BY <1>15 DEF Placement
  <2> QED
    BY <1>12, <1>13, <2>1
<1>18. Placement(x, N, parent, root, R, S)
  <2>1. N \subseteq DOMAIN x
    BY DEF N
  <2> QED
    BY <1>16, <1>17, <2>1 DEF Placement
<1>19. \A n \in N : n \in Nat /\ n >= root + 4
  BY <1>10, <1>14
<1>20. IsFiniteSet(N)
  <2> DEFINE ids == [map \in maps |-> new(map)]
             P == {ids[map] : map \in maps}
  <2>1. IsFiniteSet(P)
    <3> HIDE DEF ids
    <3> QED
      BY <1>2, ImageIsFinite
  <2>2. ASSUME NEW map \in maps PROVE IsFiniteSet(ids[map])
    <3> DEFINE lo == base(map)
               hi == base(map) + c
    <3>1. lo \in Int /\ hi \in Int
      BY <1>3, <1>7
    <3>2. \A n \in new(map) : n \in lo .. hi
      <4> SUFFICES ASSUME NEW n \in new(map) PROVE n \in lo .. hi
        OBVIOUS
      <4>1. n \in Nat /\ lo <= n /\ n < hi
        BY <1>10
      <4> HIDE DEF lo, hi
      <4> QED
        BY <3>1, <4>1
    <3> HIDE DEF lo, hi
    <3>3. IsFiniteSet(lo .. hi)
      BY <3>1, FS_Interval
    <3>4. new(map) \in SUBSET (lo .. hi)
      BY <3>2
    <3> QED
      BY <3>3, <3>4, FS_Subset
  <2>3. \A s \in P : IsFiniteSet(s)
    BY <2>2
  <2>4. N \subseteq UNION P
    BY <1>14
  <2> HIDE DEF P, ids
  <2>5. IsFiniteSet(UNION P)
    BY <2>1, <2>3, FS_UNION
  <2> QED
    BY <2>4, <2>5, FS_Subset
<1>21. ASSUME NEW n \in DOMAIN x \cap DOMAIN e
       PROVE  /\ e[n].kind = "style" /\ e[n].of \in S
              /\ {"kind", "of", "look"} \subseteq DOMAIN x[n]
              /\ x[n].kind = "style" /\ x[n].of = e[n].of
  <2> DEFINE other == CHOOSE i \in maps : n \in DOMAIN block[i]
  <2>1. \E i \in maps : n \in DOMAIN block[i]
    BY <1>1
  <2>2. other \in maps /\ n \in DOMAIN block[other] /\ x[n] = block[other][n]
    BY <1>1, <2>1
  <2> HIDE DEF other
  <2>3. /\ e[n].kind = "style" /\ e[n].of = FirstSolid(e, other)
        /\ {"kind", "of", "look"} \subseteq DOMAIN block[other][n]
        /\ block[other][n].kind = "style" /\ block[other][n].of = e[n].of
    BY <1>9, <2>2 DEF FamilyIsPlaced
  <2> QED
    BY <1>15, <2>2, <2>3
<1> QED
  BY <1>18, <1>19, <1>20, <1>21 DEF BlocksArePlaced, N, R, S, maps, x

\* What is left of the representation has a product, a shape and an occurrence.
LEMMA ResidualIsPlaced ==
    ASSUME NEW e, NEW top, NEW parent, NEW root \in Nat, NEW x, x = ResidualChild(e, top, parent, root)
    PROVE  /\ DOMAIN x \subseteq {root + 1, root + 2, root + 3}
           /\ Placement(x, DOMAIN x, parent, root, IF Residual(e, top) = <<>> THEN {} ELSE {top}, {})
<1>1. CASE Residual(e, top) = <<>>
  <2>1. x = <<>>
    BY <1>1 DEF ResidualChild
  <2>2. DOMAIN x = {}
    BY <2>1
  <2> QED
    BY <1>1, <2>2 DEF Placement
<1>2. CASE Residual(e, top) # <<>>
  <2> DEFINE p == root + 1
             q == p + 1
             u == root + 3
             y == [kind |-> "sdr", product |-> p, rep |-> top]
             z == Occurrence(parent, p, top, root, Still, 0)
             a == Alone(p, Product)
             b == Alone(q, y)
             c == Alone(u, z)
             ab == With(a, b)
  <2>1. x = With(ab, c)
    BY <1>2 DEF ResidualChild, ChildProduct
  <2>2. p # q /\ p # u /\ q # u
    OBVIOUS
  <2>3. /\ {"kind", "product", "rep"} \subseteq DOMAIN y
        /\ y.kind = "sdr" /\ y.product = p /\ y.rep = top
        /\ "kind" \in DOMAIN Product /\ Product.kind = "product" /\ Product.complete = TRUE
        /\ "kind" \in DOMAIN z /\ z.kind = "use" /\ z.parent = parent /\ z.child = p
        /\ z.rep = top /\ z.within = root
    BY DEF Product, Occurrence
  <2> HIDE DEF y, z
  <2>4. DOMAIN a = {p} /\ a[p] = Product /\ DOMAIN b = {q} /\ b[q] = y /\ DOMAIN c = {u} /\ c[u] = z
    <3> HIDE DEF p, q, u
    <3> QED
      BY AloneEntity
  <2> HIDE DEF a, b, c
  <2>5. /\ DOMAIN ab = DOMAIN a \cup DOMAIN b /\ \A n \in DOMAIN b : ab[n] = b[n]
        /\ \A n \in DOMAIN a : n \notin DOMAIN b => ab[n] = a[n]
    BY WithEntities
  <2> HIDE DEF ab
  <2>6. /\ DOMAIN x = DOMAIN ab \cup DOMAIN c /\ \A n \in DOMAIN c : x[n] = c[n]
        /\ \A n \in DOMAIN ab : n \notin DOMAIN c => x[n] = ab[n]
    <3>1. /\ DOMAIN With(ab, c) = DOMAIN ab \cup DOMAIN c
          /\ \A n \in DOMAIN c : With(ab, c)[n] = c[n]
          /\ \A n \in DOMAIN ab : n \notin DOMAIN c => With(ab, c)[n] = ab[n]
      BY WithEntities
    <3> QED
      BY <2>1, <3>1
  <2>7. p = root + 1 /\ q = root + 2 /\ u = root + 3
    OBVIOUS
  <2> HIDE DEF p, q, u
  <2>8. DOMAIN x = {p, q, u} /\ x[p] = Product /\ x[q] = y /\ x[u] = z
    BY <2>2, <2>4, <2>5, <2>6
  <2> DEFINE N == DOMAIN x
  <2>9. /\ p \in N /\ q \in N /\ u \in N /\ \A n \in N : n = p \/ n = q \/ n = u
        /\ x[p] = Product /\ x[q] = y /\ x[u] = z
    BY <2>8
  <2> HIDE DEF N
  <2>10. NewKinds(x, N, parent, root, {top}, {}, p)
    <3>1. NewProduct(x, N, p)
      BY <2>3, <2>9 DEF NewProduct
    <3> QED
      BY <2>3, <2>9, <3>1 DEF NewKinds
  <2>11. NewKinds(x, N, parent, root, {top}, {}, q)
    <3>1. NewShape(x, N, {top}, q)
      BY <2>3, <2>9 DEF NewShape
    <3> QED
      BY <2>3, <2>9, <3>1 DEF NewKinds
  <2>12. NewKinds(x, N, parent, root, {top}, {}, u)
    <3>1. NewUse(x, N, parent, root, {top}, u)
      BY <2>3, <2>9 DEF NewUse
    <3> QED
      BY <2>3, <2>9, <3>1 DEF NewKinds
  <2>13. Placement(x, N, parent, root, {top}, {})
    <3>1. N \subseteq DOMAIN x
      BY DEF N
    <3> QED
      BY <2>3, <2>9, <2>10, <2>11, <2>12, <3>1 DEF Placement
  <2> QED
    BY <1>2, <2>7, <2>8, <2>13 DEF N
<1> QED
  BY <1>1, <1>2

\* What a section is like after a representation has become an assembly: d is what defined
\* its product.
PlacedReps(e, top) == {e[map].rep : map \in LocalMaps(e, top)}
                      \cup (IF Residual(e, top) = <<>> THEN {} ELSE {top})
PlacedSolids(e, top) == {FirstSolid(e, map) : map \in LocalMaps(e, top)}
TopIsIn(e, f, top, d, root) ==
    LET N == DOMAIN f \ DOMAIN e IN
    /\ DOMAIN e \subseteq DOMAIN f /\ root \in N /\ N \subseteq Nat /\ IsFiniteSet(N)
    /\ {"kind", "items"} \subseteq DOMAIN f[root] /\ f[root].kind = "shape" /\ f[root].items = <<>>
    /\ Placement(f, N \ {root}, e[d].product, root, PlacedReps(e, top), PlacedSolids(e, top))
    /\ f[top] = [e[top] EXCEPT !.items = Residual(e, top)]
    /\ f[d] = [e[d] EXCEPT !.rep = root]
    /\ \A n \in DOMAIN e : n # top /\ n # d =>
          \/ f[n] = e[n]
          \/ /\ e[n].kind = "style" /\ e[n].of \in PlacedSolids(e, top)
             /\ {"kind", "of", "look"} \subseteq DOMAIN f[n]
             /\ f[n].kind = "style" /\ f[n].of = e[n].of

\* The entities of a representation do that.
LEMMA TopOfEntities ==
    ASSUME NEW e, Whole(e), NEW top \in OfKind(e, {"brep"}), NEW d, Definitions(e, top) = {d}
    PROVE  \E root : TopIsIn(e, With(e, TopEntities(e, top)), top, d, root)
<1> DEFINE definition == CHOOSE x \in Definitions(e, top) : TRUE
           root == Max(DOMAIN e) + 1
           parent == e[d].product
           y1 == [e[top] EXCEPT !.items = Residual(e, top)]
           y2 == [kind |-> "shape", items |-> <<>>]
           y3 == [e[d] EXCEPT !.rep = root]
           p1 == Alone(top, y1)
           p2 == Alone(root, y2)
           p3 == Alone(d, y3)
           p4 == ResidualChild(e, top, parent, root)
           p5 == FamilyBlocks(e, top, parent, root)
           t1 == With(p1, p2)
           t2 == With(t1, p3)
           t3 == With(t2, p4)
           new == With(t3, p5)
           f == With(e, new)
           S == PlacedSolids(e, top)
<1>1. new = TopEntities(e, top)
  <2>1. definition = d
    OBVIOUS
  <2> QED
    BY <2>1 DEF TopEntities, Redefined
<1>2. /\ top \in DOMAIN e /\ e[top].kind = "brep" /\ d \in DOMAIN e /\ e[d].kind = "sdr" /\ e[d].rep = top
      /\ \A n \in DOMAIN e : e[n].kind = "sdr" /\ e[n].rep = top => n = d
  BY DEF Definitions, OfKind
<1>3. root \in Nat /\ \A n \in DOMAIN e : n \in Nat /\ n < root
  <2>1. DOMAIN e \in SUBSET Int /\ IsFiniteSet(DOMAIN e) /\ DOMAIN e # {} /\ DOMAIN e \subseteq Nat
    BY <1>2 DEF Whole
  <2>2. Max(DOMAIN e) \in DOMAIN e /\ \A n \in DOMAIN e : n <= Max(DOMAIN e)
    BY <2>1, GreatestMember
  <2> QED
    BY <2>1, <2>2
<1> HIDE DEF root
<1>4. /\ DOMAIN p4 \subseteq {root + 1, root + 2, root + 3}
      /\ Placement(p4, DOMAIN p4, parent, root, IF Residual(e, top) = <<>> THEN {} ELSE {top}, {})
  <2> HIDE DEF p4, parent
  <2>1. p4 = ResidualChild(e, top, parent, root)
    BY DEF p4
  <2> QED
    BY <1>3, <2>1, ResidualIsPlaced
<1> DEFINE N5 == DOMAIN p5 \ DOMAIN e
           R5 == {e[map].rep : map \in LocalMaps(e, top)}
           R4 == IF Residual(e, top) = <<>> THEN {} ELSE {top}
<1>5. /\ Placement(p5, N5, parent, root, R5, S)
      /\ \A n \in N5 : n \in Nat /\ n >= root + 4
      /\ IsFiniteSet(N5)
      /\ \A n \in DOMAIN p5 \cap DOMAIN e :
            /\ e[n].kind = "style" /\ e[n].of \in S
            /\ {"kind", "of", "look"} \subseteq DOMAIN p5[n]
            /\ p5[n].kind = "style" /\ p5[n].of = e[n].of
  <2>1. BlocksArePlaced(e, top, parent, root, p5)
    <3> HIDE DEF parent
    <3>1. \A n \in DOMAIN e : n < root
      BY <1>3
    <3> QED
      BY <1>3, <3>1, BlocksOfEntities
  <2> QED
    BY <2>1 DEF BlocksArePlaced, PlacedSolids
<1>6. {"kind", "items"} \subseteq DOMAIN y2 /\ y2.kind = "shape" /\ y2.items = <<>>
  OBVIOUS
<1> HIDE DEF y1, y2, y3, p4, p5, S
<1>7. DOMAIN p1 = {top} /\ p1[top] = y1 /\ DOMAIN p2 = {root} /\ p2[root] = y2 /\ DOMAIN p3 = {d} /\ p3[d] = y3
  BY AloneEntity
<1> HIDE DEF p1, p2, p3
<1>8. /\ DOMAIN t1 = DOMAIN p1 \cup DOMAIN p2 /\ \A n \in DOMAIN p2 : t1[n] = p2[n]
      /\ \A n \in DOMAIN p1 : n \notin DOMAIN p2 => t1[n] = p1[n]
  BY WithEntities
<1> HIDE DEF t1
<1>9. /\ DOMAIN t2 = DOMAIN t1 \cup DOMAIN p3 /\ \A n \in DOMAIN p3 : t2[n] = p3[n]
      /\ \A n \in DOMAIN t1 : n \notin DOMAIN p3 => t2[n] = t1[n]
  BY WithEntities
<1> HIDE DEF t2
<1>10. /\ DOMAIN t3 = DOMAIN t2 \cup DOMAIN p4 /\ \A n \in DOMAIN p4 : t3[n] = p4[n]
       /\ \A n \in DOMAIN t2 : n \notin DOMAIN p4 => t3[n] = t2[n]
  BY WithEntities
<1> HIDE DEF t3
<1>11. /\ DOMAIN new = DOMAIN t3 \cup DOMAIN p5 /\ \A n \in DOMAIN p5 : new[n] = p5[n]
       /\ \A n \in DOMAIN t3 : n \notin DOMAIN p5 => new[n] = t3[n]
  BY WithEntities
<1> HIDE DEF new
<1>12. /\ DOMAIN f = DOMAIN e \cup DOMAIN new /\ \A n \in DOMAIN new : f[n] = new[n]
       /\ \A n \in DOMAIN e : n \notin DOMAIN new => f[n] = e[n]
  BY WithEntities
<1> HIDE DEF f
<1>13. \A n \in DOMAIN p4 : (n = root + 1 \/ n = root + 2 \/ n = root + 3) /\ n \notin DOMAIN e
  BY <1>3, <1>4
<1>14. \A n \in DOMAIN p5 : n \in DOMAIN e \/ (n \in N5 /\ n \in Nat /\ n >= root + 4)
  BY <1>5
<1> HIDE DEF N5, R5, R4, parent
<1>15. /\ top # d /\ top # root /\ d # root /\ root \notin DOMAIN e
       /\ top \notin DOMAIN p4 /\ d \notin DOMAIN p4 /\ root \notin DOMAIN p4
       /\ top \notin DOMAIN p5 /\ d \notin DOMAIN p5 /\ root \notin DOMAIN p5
  <2>1. top # d /\ root \notin DOMAIN e
    BY <1>2, <1>3
  <2>2. root \notin DOMAIN p4
    BY <1>3, <1>13
  <2>3. root \notin DOMAIN p5
    BY <1>3, <1>14, <2>1
  <2>4. top \notin DOMAIN p5 /\ d \notin DOMAIN p5
    BY <1>2, <1>5
  <2> QED
    BY <1>2, <1>13, <2>1, <2>2, <2>3, <2>4
<1>16. f[top] = y1 /\ f[d] = y3 /\ f[root] = y2
  BY <1>7, <1>8, <1>9, <1>10, <1>11, <1>12, <1>15
<1>17. \A n \in DOMAIN p4 : f[n] = p4[n] /\ n \in DOMAIN f
  <2> SUFFICES ASSUME NEW n \in DOMAIN p4 PROVE f[n] = p4[n] /\ n \in DOMAIN f
    OBVIOUS
  <2>1. n \notin DOMAIN p5
    <3> SUFFICES ASSUME n \in DOMAIN p5 PROVE FALSE
      OBVIOUS
    <3>1. n >= root + 4 /\ (n = root + 1 \/ n = root + 2 \/ n = root + 3)
      BY <1>13, <1>14
    <3> QED
      BY <1>3, <3>1
  <2> QED
    BY <1>10, <1>11, <1>12, <2>1
<1>18. \A n \in DOMAIN p5 : f[n] = p5[n] /\ n \in DOMAIN f
  BY <1>11, <1>12
<1>19. DOMAIN f = DOMAIN e \cup {root} \cup DOMAIN p4 \cup DOMAIN p5
  BY <1>2, <1>7, <1>8, <1>9, <1>10, <1>11, <1>12
<1>20. \A n \in DOMAIN e : n # top /\ n # d => f[n] = e[n] \/ n \in DOMAIN p5
  <2> SUFFICES ASSUME NEW n \in DOMAIN e, n # top, n # d, n \notin DOMAIN p5 PROVE f[n] = e[n]
    OBVIOUS
  <2>1. n \notin DOMAIN p4 /\ n # root
    BY <1>13, <1>15
  <2>2. n \notin DOMAIN new
    BY <1>7, <1>8, <1>9, <1>10, <1>11, <2>1
  <2> QED
    BY <1>12, <2>2
<1> DEFINE N == DOMAIN f \ DOMAIN e
           M == N \ {root}
<1>21. /\ \A n : n \in M <=> n \in DOMAIN p4 \/ n \in N5
       /\ \A n : n \in N <=> n = root \/ n \in DOMAIN p4 \/ n \in N5
  <2>1. \A n : n \in N5 <=> n \in DOMAIN p5 /\ n \notin DOMAIN e
    BY DEF N5
  <2>2. \A n : n \in N <=> n = root \/ n \in DOMAIN p4 \/ n \in N5
    BY <1>13, <1>15, <1>19, <2>1
  <2> QED
    BY <1>15, <2>1, <2>2
<1>22. N \subseteq Nat
  <2>1. \A n \in DOMAIN p4 : n \in Nat
    BY <1>3, <1>13
  <2>2. \A n \in N5 : n \in Nat
    BY <1>5
  <2> HIDE DEF N
  <2> QED
    BY <1>3, <1>21, <2>1, <2>2
<1>23. IsFiniteSet(N)
  <2> DEFINE i == root + 1
             j == root + 2
             k == root + 3
  <2>1. DOMAIN p4 \subseteq {i, j, k}
    BY <1>13
  <2> HIDE DEF i, j, k
  <2>2. IsFiniteSet({}) /\ IsFiniteSet({} \cup {i})
    BY FS_EmptySet, FS_AddElement
  <2>3. IsFiniteSet(({} \cup {i}) \cup {j})
    BY <2>2, FS_AddElement
  <2>4. IsFiniteSet((({} \cup {i}) \cup {j}) \cup {k})
    BY <2>3, FS_AddElement
  <2>5. DOMAIN p4 \subseteq (({} \cup {i}) \cup {j}) \cup {k}
    BY <2>1
  <2>6. IsFiniteSet(DOMAIN p4)
    BY <2>4, <2>5, FS_Subset
  <2>7. IsFiniteSet(DOMAIN p4 \cup N5)
    BY <1>5, <2>6, FS_Union
  <2>8. IsFiniteSet((DOMAIN p4 \cup N5) \cup {root})
    BY <2>7, FS_AddElement
  <2>9. N = (DOMAIN p4 \cup N5) \cup {root}
    BY <1>21
  <2> QED
    BY <2>8, <2>9
<1> HIDE DEF N, M
<1>24. Placement(f, M, parent, root, R4 \cup R5, S)
  <2> DEFINE R == R4 \cup R5
             N4 == DOMAIN p4
  <2>1. Placement(p4, N4, parent, root, R4, {}) /\ Placement(p5, N5, parent, root, R5, S)
    BY <1>4, <1>5 DEF R4
  <2>2. /\ N4 \subseteq M /\ N5 \subseteq M /\ R4 \subseteq R /\ R5 \subseteq R /\ {} \subseteq S
        /\ (\A k \in N4 : f[k] = p4[k]) /\ (\A k \in N5 : f[k] = p5[k]) /\ M \subseteq DOMAIN f
        /\ \A n \in M : n \in N4 \/ n \in N5
    <3>1. \A n \in N5 : n \in DOMAIN p5
      BY DEF N5
    <3> QED
      BY <1>17, <1>18, <1>21, <3>1
  <2> HIDE DEF R, N4
  <2>3. ASSUME NEW n \in M PROVE NewKinds(f, M, parent, root, R, S, n)
    <3>1. CASE n \in N4
      <4>1. NewKinds(p4, N4, parent, root, R4, {}, n)
        BY <2>1, <3>1 DEF Placement
      <4> QED
        BY <2>2, <3>1, <4>1, NewKindsStay
    <3>2. CASE n \in N5
      <4>1. NewKinds(p5, N5, parent, root, R5, S, n) /\ S \subseteq S
        BY <2>1, <3>2 DEF Placement
      <4> QED
        BY <2>2, <3>2, <4>1, NewKindsStay
    <3> QED
      BY <2>2, <3>1, <3>2
  <2>4. ASSUME NEW r \in R PROVE \E k \in M : f[k].kind = "sdr" /\ f[k].rep = r
    <3>1. r \in R4 \/ r \in R5
      BY DEF R
    <3>2. CASE r \in R4
      BY <2>1, <2>2, <3>2 DEF Placement
    <3>3. CASE r \in R5
      BY <2>1, <2>2, <3>3 DEF Placement
    <3> QED
      BY <3>1, <3>2, <3>3
  <2> QED
    BY <2>2, <2>3, <2>4 DEF Placement, R
<1>25. R4 \cup R5 = PlacedReps(e, top)
  BY DEF R4, R5, PlacedReps
<1>26. \A n \in DOMAIN e : n # top /\ n # d =>
          \/ f[n] = e[n]
          \/ /\ e[n].kind = "style" /\ e[n].of \in S
             /\ {"kind", "of", "look"} \subseteq DOMAIN f[n]
             /\ f[n].kind = "style" /\ f[n].of = e[n].of
  BY <1>5, <1>18, <1>20
<1>27. root \in N /\ DOMAIN e \subseteq DOMAIN f
  BY <1>19, <1>21
<1>28. Placement(f, N \ {root}, parent, root, PlacedReps(e, top), S)
  BY <1>24, <1>25 DEF M
<1>29. {"kind", "items"} \subseteq DOMAIN f[root] /\ f[root].kind = "shape" /\ f[root].items = <<>>
  BY <1>6, <1>16
<1>30. TopIsIn(e, f, top, d, root)
  BY <1>16, <1>22, <1>23, <1>26, <1>27, <1>28, <1>29 DEF TopIsIn, N, S, parent, y1, y3
<1> QED
  BY <1>1, <1>30 DEF f

-----------------------------------------------------------------------------
(* A representation becomes an assembly.                                   *)

\* Two solids with the styles of their faces kept stay alike, or not.
LEMMA FacesAlike ==
    ASSUME NEW e, NEW f, Whole(e),
           \A n \in OfKind(e, {"solid", "face"}) : n \in DOMAIN f /\ f[n] = e[n],
           \A n \in OfKind(e, {"style"}) :
              e[n].of \in OfKind(e, {"face"}) => n \in DOMAIN f /\ f[n] = e[n],
           \A n \in OfKind(f, {"style"}) :
              f[n].of \in OfKind(e, {"face"}) => n \in OfKind(e, {"style"}) /\ f[n] = e[n]
    PROVE  \A s, t \in OfKind(e, {"solid"}) : Alike(f, s, t) <=> Alike(e, s, t)
<1>1. ASSUME NEW x \in OfKind(e, {"face"}) PROVE StylesOf(f, x) = StylesOf(e, x)
  <2>1. \A n : n \in StylesOf(e, x) => n \in StylesOf(f, x)
    BY DEF StylesOf, OfKind
  <2>2. \A n : n \in StylesOf(f, x) => n \in StylesOf(e, x)
    BY <1>1 DEF StylesOf
  <2> QED
    BY <2>1, <2>2
<1>2. ASSUME NEW x \in OfKind(e, {"face"}) PROVE Looks(f, x) = Looks(e, x)
  <2>1. StylesOf(f, x) = StylesOf(e, x) /\ \A n \in StylesOf(e, x) : f[n] = e[n]
    BY <1>1 DEF StylesOf
  <2> QED
    BY <2>1 DEF Looks
<1>3. ASSUME NEW s \in OfKind(e, {"solid"})
      PROVE  /\ f[s] = e[s] /\ e[s].faces \subseteq OfKind(e, {"face"})
             /\ Look(f, s) = Look(e, s) /\ (Analyzed(f, s) <=> Analyzed(e, s))
  <2>1. f[s] = e[s] /\ e[s].faces \subseteq OfKind(e, {"face"})
    BY DEF OfKind, Whole, Fits
  <2>2. /\ \A x \in e[s].faces : StylesOf(f, x) = StylesOf(e, x)
        /\ {Looks(f, x) : x \in e[s].faces} = {Looks(e, x) : x \in e[s].faces}
    BY <1>1, <1>2, <2>1
  <2> QED
    BY <2>1, <2>2 DEF Look, Analyzed
<1> QED
  BY <1>3 DEF Alike

\* A representation that is about to become an assembly.
TopIsReady(e, top, d) ==
    /\ Whole(e) /\ top \in OfKind(e, {"brep"}) \ Sources(e) /\ Definitions(e, top) = {d}
    /\ \A m \in OfKind(e, {"map"}) :
          e[e[m].rep].source /\ \E s \in OfKind(e, {"solid"}) : e[e[m].rep].items = <<s>>

\* What follows for such a representation.
LEMMA ReadyTop ==
    ASSUME NEW e, NEW top, NEW d, TopIsReady(e, top, d)
    PROVE  /\ top \in DOMAIN e /\ e[top].kind = "brep" /\ d \in DOMAIN e /\ e[d].kind = "sdr"
           /\ e[d].rep = top /\ e[d].product \in OfKind(e, {"product"})
           /\ LocalMaps(e, top) \subseteq OfKind(e, {"map"}) /\ MappedItems(e) = OfKind(e, {"mapped"})
           /\ PlacedSolids(e, top) \subseteq OfKind(e, {"solid"})
           /\ \A r \in PlacedReps(e, top) :
                 /\ r \in OfKind(e, {"brep"})
                 /\ (r = top /\ Residual(e, top) # <<>>) \/ r \in Sources(e)
           /\ Residual(e, top) \in Seq(OfKind(e, {"solid"}))
           /\ ToSet(Residual(e, top)) = ToSet(e[top].items) \ OfKind(e, {"mapped"})
<1>1. Whole(e) /\ top \in DOMAIN e /\ e[top].kind = "brep" /\ d \in DOMAIN e /\ e[d].kind = "sdr" /\ e[d].rep = top
  BY DEF TopIsReady, OfKind, Definitions
<1>2. e[d].product \in OfKind(e, {"product"})
  BY <1>1, WholeFields DEF Leads, OfKind
<1>3. /\ LocalMaps(e, top) \subseteq OfKind(e, {"map"}) /\ MappedItems(e) = OfKind(e, {"mapped"})
  BY <1>1, AllInstances DEF TopIsReady
<1>4. ASSUME NEW m \in OfKind(e, {"map"})
      PROVE  FirstSolid(e, m) \in OfKind(e, {"solid"}) /\ e[m].rep \in Sources(e) /\ e[m].rep \in OfKind(e, {"brep"})
  <2>1. PICK s \in OfKind(e, {"solid"}) : e[e[m].rep].items = <<s>>
    BY DEF TopIsReady
  <2>2. s \in ToSet(<<s>>)
    BY DEF ToSet
  <2>3. s \in Solids(e, e[m].rep)
    BY <2>1, <2>2 DEF Solids
  <2>4. FirstSolid(e, m) \in Solids(e, e[m].rep)
    BY <2>3 DEF FirstSolid
  <2>5. e[m].rep \in OfKind(e, {"brep"})
    BY <1>1, WholeFields DEF Leads, OfKind
  <2> QED
    BY <2>4, <2>5 DEF Solids, Sources, TopIsReady
<1>5. PlacedSolids(e, top) \subseteq OfKind(e, {"solid"})
  BY <1>3, <1>4 DEF PlacedSolids
<1>6. ASSUME NEW r \in PlacedReps(e, top)
      PROVE  r \in OfKind(e, {"brep"}) /\ ((r = top /\ Residual(e, top) # <<>>) \/ r \in Sources(e))
  <2>1. CASE \E map \in LocalMaps(e, top) : r = e[map].rep
    BY <1>3, <1>4, <2>1
  <2>2. CASE r = top /\ Residual(e, top) # <<>>
    BY <1>1, <2>2 DEF OfKind
  <2> QED
    BY <2>1, <2>2 DEF PlacedReps
<1>7. e[top].items \in Seq(OfKind(e, {"solid", "mapped"}))
  BY <1>1 DEF Whole, Fits
<1>8. /\ Residual(e, top) \in Seq(OfKind(e, {"solid"}))
      /\ ToSet(Residual(e, top)) = ToSet(e[top].items) \ OfKind(e, {"mapped"})
  <2> DEFINE S == OfKind(e, {"solid", "mapped"})
             M == OfKind(e, {"mapped"})
             T == OfKind(e, {"solid"})
             l == e[top].items
  <2>1. S \ M \subseteq T
    BY DEF OfKind
  <2>2. l \in Seq(S) /\ Residual(e, top) = Without(l, M)
    BY <1>3, <1>7 DEF Residual
  <2> HIDE DEF S, M, T, l
  <2>3. Without(l, M) \in Seq(S \ M) /\ ToSet(Without(l, M)) = ToSet(l) \ M
    BY <2>2, WithoutMembers
  <2>4. Without(l, M) \in Seq(T)
    BY <2>1, <2>3
  <2> QED
    BY <2>2, <2>3, <2>4 DEF M, T, l
<1> QED
  BY <1>1, <1>2, <1>3, <1>5, <1>6, <1>8

\* What the section keeps.
TopIsKept(e, f, top, d, root) ==
    /\ \A n \in DOMAIN e : n \in DOMAIN f /\ f[n].kind = e[n].kind
    /\ \A n \in DOMAIN e : e[n].kind # "style" /\ n # top /\ n # d => f[n] = e[n]
    /\ \A n \in OfKind(e, {"style"}) :
          f[n].of = e[n].of /\ (f[n] = e[n] \/ e[n].of \in OfKind(e, {"solid"}))
    /\ f[top].source = e[top].source /\ f[top].items = Residual(e, top)
    /\ Refs(f[top]) = Refs(e[top]) \ OfKind(e, {"mapped"})
    /\ f[d].product = e[d].product /\ f[d].rep = root
    /\ Refs(f[d]) = {e[d].product, root}
    /\ \A n \in DOMAIN f \ DOMAIN e :
          /\ f[n].kind \in {"shape", "style", "product", "sdr", "use"}
          /\ f[n].kind = "style" => f[n].of \in OfKind(e, {"solid"})
          /\ f[n].kind = "shape" => n = root
    /\ Whole(f)

\* The section keeps all that.
LEMMA TopKeeps ==
    ASSUME NEW e, NEW top, NEW d, NEW f, NEW root, TopIsReady(e, top, d), TopIsIn(e, f, top, d, root)
    PROVE  TopIsKept(e, f, top, d, root)
<1> DEFINE N == DOMAIN f \ DOMAIN e
           M == N \ {root}
           R == PlacedReps(e, top)
           S == PlacedSolids(e, top)
           l == Residual(e, top)
<1>1. /\ Whole(e) /\ DOMAIN e \subseteq DOMAIN f /\ root \in N /\ N \subseteq Nat /\ IsFiniteSet(N)
      /\ {"kind", "items"} \subseteq DOMAIN f[root] /\ f[root].kind = "shape" /\ f[root].items = <<>>
      /\ Placement(f, M, e[d].product, root, R, S)
      /\ f[top] = [e[top] EXCEPT !.items = l]
      /\ f[d] = [e[d] EXCEPT !.rep = root]
      /\ \A n \in DOMAIN e : n # top /\ n # d =>
            \/ f[n] = e[n]
            \/ /\ e[n].kind = "style" /\ e[n].of \in S
               /\ {"kind", "of", "look"} \subseteq DOMAIN f[n]
               /\ f[n].kind = "style" /\ f[n].of = e[n].of
  BY DEF TopIsIn, TopIsReady
<1>2. /\ top \in DOMAIN e /\ e[top].kind = "brep" /\ d \in DOMAIN e /\ e[d].kind = "sdr"
      /\ e[d].rep = top /\ e[d].product \in OfKind(e, {"product"})
      /\ S \subseteq OfKind(e, {"solid"}) /\ R \subseteq OfKind(e, {"brep"})
      /\ l \in Seq(OfKind(e, {"solid"}))
      /\ ToSet(l) = ToSet(e[top].items) \ OfKind(e, {"mapped"})
  BY ReadyTop
<1>3. Fits(e, e[top]) /\ Fits(e, e[d]) /\ {"kind", "product", "rep"} \subseteq DOMAIN e[d]
  BY <1>1, <1>2, WholeFields DEF Whole
<1> HIDE DEF l, R, S
<1>4. f[d].kind = "sdr" /\ f[d].product = e[d].product /\ f[d].rep = root /\ {"kind", "product", "rep"} \subseteq DOMAIN f[d]
  BY <1>1, <1>2, <1>3
<1>5. f[top].kind = "brep"
  <2>1. "kind" \in DOMAIN e[top]
    BY <1>3 DEF Fits
  <2> QED
    BY <1>1, <1>2, <2>1
<1>6. \A n \in DOMAIN e : n \in DOMAIN f /\ f[n].kind = e[n].kind
  <2> SUFFICES ASSUME NEW n \in DOMAIN e PROVE n \in DOMAIN f /\ f[n].kind = e[n].kind
    OBVIOUS
  <2>1. n \in DOMAIN f
    BY <1>1
  <2>2. CASE n # top /\ n # d
    <3>1. f[n] = e[n] \/ (f[n].kind = "style" /\ e[n].kind = "style")
      BY <1>1, <2>2
    <3> QED
      BY <2>1, <3>1
  <2> QED
    BY <1>2, <1>4, <1>5, <2>1, <2>2
<1>7. \A k : OfKind(e, k) \subseteq OfKind(f, k)
  BY <1>6 DEF OfKind
<1>8. /\ Fits(f, f[top]) /\ f[top].items = l /\ Refs(f[top]) = ToSet(l) /\ f[top].source = e[top].source
  <2> DEFINE x == e[top]
             T == OfKind(e, {"solid"})
             U == OfKind(f, {"solid", "mapped"})
  <2>1. l \in Seq(T) /\ T \subseteq U
    BY <1>2, <1>7 DEF OfKind
  <2> HIDE DEF T, U
  <2>2. l \in Seq(U)
    BY <2>1
  <2>3. Fits(e, x) /\ x.kind = "brep" /\ l \in Seq(OfKind(f, {"solid", "mapped"}))
    BY <1>2, <1>3, <2>2 DEF U
  <2> HIDE DEF x
  <2>4. LET y == [x EXCEPT !.items = l] IN
           /\ Fits(f, y) /\ y.kind = x.kind /\ y.items = l /\ Refs(y) = ToSet(l)
           /\ x.kind = "brep" => y.source = x.source
    BY <2>3, RelistedFits
  <2> QED
    BY <1>1, <2>3, <2>4 DEF x
<1>9. Refs(e[top]) = ToSet(e[top].items) /\ Refs(f[d]) = {e[d].product, root}
  BY <1>2, <1>4, SolidReferences
<1>10. Fits(f, f[d])
  <2>1. e[d].product \in OfKind(f, {"product"}) /\ root \in OfKind(f, {"brep", "shape"})
    BY <1>1, <1>2, <1>7 DEF OfKind
  <2> QED
    BY <1>4, <2>1 DEF Fits
<1>11. ASSUME NEW n \in DOMAIN e, n # top, n # d PROVE Fits(f, f[n])
  <2>1. CASE f[n] = e[n]
    <3>1. Fits(e, e[n])
      BY <1>1 DEF Whole
    <3>2. \A x \in Refs(e[n]) : x \in DOMAIN f /\ f[x].kind = e[x].kind
      BY <1>6, <3>1, FitReferences
    <3> QED
      BY <2>1, <3>1, <3>2, FitsStays
  <2>2. CASE /\ e[n].kind = "style" /\ e[n].of \in S
             /\ {"kind", "of", "look"} \subseteq DOMAIN f[n]
             /\ f[n].kind = "style" /\ f[n].of = e[n].of
    <3>1. f[n].of \in OfKind(f, {"solid", "face", "mapped"})
      BY <1>2, <1>7, <2>2 DEF OfKind
    <3> QED
      BY <2>2, <3>1 DEF Fits
  <2> QED
    BY <1>1, <1>11, <2>1, <2>2
<1>12. ASSUME NEW n \in M
       PROVE  /\ Fits(f, f[n]) /\ f[n].kind \in {"style", "product", "sdr", "use"}
              /\ f[n].kind = "style" => f[n].of \in OfKind(e, {"solid"})
  <2>0. NewKinds(f, M, e[d].product, root, R, S, n) /\ M \subseteq DOMAIN f /\ "kind" \in DOMAIN f[n]
    BY <1>1 DEF Placement, NewKinds
  <2>1. CASE NewStyle(f, S, n)
    <3>1. f[n].kind = "style" /\ {"of", "look"} \subseteq DOMAIN f[n] /\ f[n].of \in OfKind(e, {"solid"})
      BY <1>2, <2>1 DEF NewStyle
    <3>2. f[n].of \in OfKind(f, {"solid", "face", "mapped"})
      BY <1>7, <3>1 DEF OfKind
    <3> QED
      BY <2>0, <3>1, <3>2 DEF Fits
  <2>2. CASE NewProduct(f, M, n)
    <3>1. f[n].kind = "product" /\ f[n].complete = TRUE
      BY <2>2 DEF NewProduct
    <3> QED
      BY <2>0, <3>1 DEF Fits
  <2>3. CASE NewShape(f, M, R, n)
    <3>1. /\ f[n].kind = "sdr" /\ {"product", "rep"} \subseteq DOMAIN f[n]
          /\ f[n].product \in OfKind(f, {"product"})
          /\ f[n].rep \in OfKind(e, {"brep"})
      BY <1>2, <2>0, <2>3 DEF NewShape, OfKind
    <3>2. f[n].rep \in OfKind(f, {"brep", "shape"})
      BY <1>7, <3>1 DEF OfKind
    <3> QED
      BY <2>0, <3>1, <3>2 DEF Fits
  <2>4. CASE NewUse(f, M, e[d].product, root, R, n)
    <3>1. /\ f[n].kind = "use" /\ f[n].parent = e[d].product /\ f[n].within = root
          /\ f[n].child \in OfKind(f, {"product"}) /\ f[n].rep \in OfKind(e, {"brep"})
      BY <1>2, <2>0, <2>4 DEF NewUse, OfKind
    <3>2. f[n].rep \in OfKind(f, {"brep"}) /\ f[n].parent \in OfKind(f, {"product"}) /\ root \in OfKind(f, {"shape"})
      BY <1>1, <1>2, <1>7, <3>1 DEF OfKind
    <3> QED
      BY <2>0, <3>1, <3>2 DEF Fits
  <2> QED
    BY <2>0, <2>1, <2>2, <2>3, <2>4 DEF NewKinds
<1>13. Fits(f, f[root])
  <2>1. <<>> \in Seq(OfKind(f, {"solid", "mapped"}))
    OBVIOUS
  <2> QED
    BY <1>1, <2>1 DEF Fits
<1>14. Whole(f)
  <2>1. DOMAIN f = DOMAIN e \cup N
    BY <1>1
  <2>2. IsFiniteSet(DOMAIN f)
    <3>1. IsFiniteSet(DOMAIN e)
      BY <1>1 DEF Whole
    <3> HIDE DEF N
    <3>2. IsFiniteSet(DOMAIN e \cup N)
      BY <1>1, <3>1, FS_Union
    <3> QED
      BY <2>1, <3>2
  <2>3. \A n \in DOMAIN f : Fits(f, f[n])
    BY <1>8, <1>10, <1>11, <1>12, <1>13, <2>1
  <2> QED
    BY <1>1, <2>1, <2>2, <2>3 DEF Whole
<1>15. \A n \in DOMAIN e : e[n].kind # "style" /\ n # top /\ n # d => f[n] = e[n]
  BY <1>1
<1>16. \A n \in OfKind(e, {"style"}) :
          f[n].of = e[n].of /\ (f[n] = e[n] \/ e[n].of \in OfKind(e, {"solid"}))
  <2> SUFFICES ASSUME NEW n \in OfKind(e, {"style"})
               PROVE  f[n].of = e[n].of /\ (f[n] = e[n] \/ e[n].of \in OfKind(e, {"solid"}))
    OBVIOUS
  <2>1. n \in DOMAIN e /\ n # top /\ n # d
    BY <1>2 DEF OfKind
  <2>2. f[n] = e[n] \/ (e[n].of \in S /\ f[n].of = e[n].of)
    BY <1>1, <2>1
  <2> QED
    BY <1>2, <2>2
<1>17. \A n \in DOMAIN f \ DOMAIN e :
          /\ f[n].kind \in {"shape", "style", "product", "sdr", "use"}
          /\ f[n].kind = "style" => f[n].of \in OfKind(e, {"solid"})
          /\ f[n].kind = "shape" => n = root
  <2> SUFFICES ASSUME NEW n \in N
               PROVE  /\ f[n].kind \in {"shape", "style", "product", "sdr", "use"}
                      /\ f[n].kind = "style" => f[n].of \in OfKind(e, {"solid"})
                      /\ f[n].kind = "shape" => n = root
    OBVIOUS
  <2>1. CASE n = root
    BY <1>1, <2>1
  <2>2. CASE n # root
    <3>1. n \in M
      BY <2>2
    <3>2. /\ f[n].kind \in {"style", "product", "sdr", "use"}
          /\ f[n].kind = "style" => f[n].of \in OfKind(e, {"solid"})
      BY <1>12, <3>1
    <3>3. f[n].kind # "shape"
      BY <3>2
    <3> QED
      BY <3>2, <3>3
  <2> QED
    BY <2>1, <2>2
<1>18. f[top].items = Residual(e, top) /\ Refs(f[top]) = Refs(e[top]) \ OfKind(e, {"mapped"})
  BY <1>2, <1>8, <1>9 DEF l
<1> QED
  BY <1>4, <1>6, <1>8, <1>9, <1>14, <1>15, <1>16, <1>17, <1>18 DEF TopIsKept

\* What is known when a representation has become an assembly.
TopStep(top, d, root) ==
    /\ Building /\ TopIsReady(ent, top, d) /\ TopIsIn(ent, ent', top, d, root)
    /\ TopIsKept(ent, ent', top, d, root)
    /\ top = Head(todo) /\ todo # <<>> /\ todo' = Tail(todo) /\ start' = start

\* No representation, map, mapped item, solid or face is added or goes.
LEMMA TopLeavesKinds ==
    ASSUME NEW top, NEW d, NEW root, TopStep(top, d, root)
    PROVE  /\ \A K \in {{"brep"}, {"map"}, {"mapped"}, {"map", "mapped"}, {"solid"}, {"face"}} :
                 OfKind(ent', K) = OfKind(ent, K)
           /\ \A n \in OfKind(ent, {"brep"}) : n # top => ent'[n] = ent[n]
           /\ \A n \in OfKind(ent, {"map", "mapped", "solid", "face", "shape", "use", "product"}) : ent'[n] = ent[n]
           /\ \A n \in OfKind(ent, {"sdr"}) : n # d => ent'[n] = ent[n]
           /\ Sources(ent') = Sources(ent)
           /\ \A s, t \in OfKind(ent, {"solid"}) : Alike(ent', s, t) <=> Alike(ent, s, t)
<1> DEFINE E == ent'
<1>a. TopIsReady(ent, top, d) /\ TopIsKept(ent, E, top, d, root)
  BY DEF TopStep
<1>b. top \in DOMAIN ent /\ ent[top].kind = "brep" /\ d \in DOMAIN ent /\ ent[d].kind = "sdr" /\ Whole(ent)
  <2>1. Whole(ent)
    BY <1>a DEF TopIsReady
  <2> QED
    BY <1>a, <2>1, ReadyTop
<1> HIDE DEF E
<1>1. /\ Whole(ent) /\ Whole(E)
      /\ top \in DOMAIN ent /\ ent[top].kind = "brep" /\ d \in DOMAIN ent /\ ent[d].kind = "sdr"
      /\ \A n \in DOMAIN ent : n \in DOMAIN E /\ E[n].kind = ent[n].kind
      /\ \A n \in DOMAIN ent : ent[n].kind # "style" /\ n # top /\ n # d => E[n] = ent[n]
      /\ \A n \in OfKind(ent, {"style"}) :
            E[n].of = ent[n].of /\ (E[n] = ent[n] \/ ent[n].of \in OfKind(ent, {"solid"}))
      /\ E[top].source = ent[top].source
      /\ \A n \in DOMAIN E \ DOMAIN ent :
            /\ E[n].kind \in {"shape", "style", "product", "sdr", "use"}
            /\ E[n].kind = "style" => E[n].of \in OfKind(ent, {"solid"})
  BY <1>a, <1>b DEF TopIsKept
<1>2. \A K \in {{"brep"}, {"map"}, {"mapped"}, {"map", "mapped"}, {"solid"}, {"face"}} :
         OfKind(E, K) = OfKind(ent, K)
  <2> SUFFICES ASSUME NEW K \in {{"brep"}, {"map"}, {"mapped"}, {"map", "mapped"}, {"solid"}, {"face"}}, NEW n
               PROVE  n \in OfKind(E, K) <=> n \in OfKind(ent, K)
    OBVIOUS
  <2>1. "shape" \notin K /\ "style" \notin K /\ "product" \notin K /\ "sdr" \notin K /\ "use" \notin K
    OBVIOUS
  <2>2. n \in DOMAIN E /\ E[n].kind \in K => n \in DOMAIN ent
    BY <1>1, <2>1
  <2> QED
    BY <1>1, <2>2 DEF OfKind
<1>3. \A n \in OfKind(ent, {"brep"}) : n # top => E[n] = ent[n]
  BY <1>1 DEF OfKind
<1>4. \A n \in OfKind(ent, {"map", "mapped", "solid", "face", "shape", "use", "product"}) : E[n] = ent[n]
  BY <1>1 DEF OfKind
<1>5. \A n \in OfKind(ent, {"sdr"}) : n # d => E[n] = ent[n]
  BY <1>1 DEF OfKind
<1>6. Sources(E) = Sources(ent)
  <2>1. \A n \in OfKind(ent, {"brep"}) : E[n].source = ent[n].source
    BY <1>1, <1>3
  <2> QED
    BY <1>2, <2>1 DEF Sources
<1>7. \A s, t \in OfKind(ent, {"solid"}) : Alike(E, s, t) <=> Alike(ent, s, t)
  <2>1. \A n \in OfKind(ent, {"solid", "face"}) : n \in DOMAIN E /\ E[n] = ent[n]
    BY <1>1 DEF OfKind
  <2>2. \A n \in OfKind(ent, {"style"}) :
           ent[n].of \in OfKind(ent, {"face"}) => n \in DOMAIN E /\ E[n] = ent[n]
    BY <1>1 DEF OfKind
  <2>3. ASSUME NEW n \in OfKind(E, {"style"}), E[n].of \in OfKind(ent, {"face"})
        PROVE  n \in OfKind(ent, {"style"}) /\ E[n] = ent[n]
    <3>1. n \in DOMAIN ent
      BY <1>1, <2>3 DEF OfKind
    <3>2. n \in OfKind(ent, {"style"})
      BY <1>1, <2>3, <3>1 DEF OfKind
    <3> QED
      BY <1>1, <2>3, <3>2 DEF OfKind
  <2> QED
    BY <1>1, <2>1, <2>2, <2>3, FacesAlike
<1> QED
  BY <1>2, <1>3, <1>4, <1>5, <1>6, <1>7 DEF E

\* Maps still lead to sources, and every representation is settled.
LEMMA TopKeepsInstances ==
    ASSUME NEW top, NEW d, NEW root, TopStep(top, d, root)
    PROVE  Instances' /\ AllSettled(ent')
<1> DEFINE E == ent'
<1>1. /\ Whole(ent) /\ Instances /\ AllSettled(ent) /\ start' = start
      /\ OfKind(E, {"brep"}) = OfKind(ent, {"brep"}) /\ OfKind(E, {"map"}) = OfKind(ent, {"map"})
      /\ OfKind(E, {"map", "mapped"}) = OfKind(ent, {"map", "mapped"})
      /\ OfKind(E, {"solid"}) = OfKind(ent, {"solid"})
      /\ \A n \in OfKind(ent, {"brep"}) : n # top => E[n] = ent[n]
      /\ \A n \in OfKind(ent, {"map", "mapped", "solid", "face", "shape", "use", "product"}) : E[n] = ent[n]
      /\ Sources(E) = Sources(ent) /\ top \in OfKind(ent, {"brep"}) /\ top \notin Sources(ent)
      /\ \A s, t \in OfKind(ent, {"solid"}) : Alike(E, s, t) <=> Alike(ent, s, t)
  BY TopLeavesKinds DEF TopStep, Building, TopIsReady
<1>2. /\ Refs(E[top]) = Refs(ent[top]) \ OfKind(ent, {"mapped"})
      /\ \A n \in DOMAIN E \ DOMAIN ent : E[n].kind = "shape" => n = root
      /\ \A n \in DOMAIN ent : E[n].kind = ent[n].kind
      /\ E[root].items = <<>>
  BY DEF TopStep, TopIsKept, TopIsIn
<1> HIDE DEF E
<1>3. \A m \in OfKind(E, {"map"}) :
          /\ E[E[m].rep].source
          /\ \E s \in OfKind(E, {"solid"}) : E[E[m].rep].items = <<s>>
  <2> SUFFICES ASSUME NEW m \in OfKind(ent, {"map"})
               PROVE  E[E[m].rep].source /\ \E s \in OfKind(ent, {"solid"}) : E[E[m].rep].items = <<s>>
    BY <1>1
  <2>1. E[m] = ent[m] /\ ent[m].rep \in OfKind(ent, {"brep"})
    BY <1>1, WholeFields DEF OfKind, Leads
  <2>2. ent[ent[m].rep].source /\ \E s \in OfKind(ent, {"solid"}) : ent[ent[m].rep].items = <<s>>
    BY <1>1 DEF Instances
  <2>3. ent[m].rep # top
    BY <1>1, <2>1, <2>2 DEF Sources
  <2> QED
    BY <1>1, <2>1, <2>2, <2>3
<1>4. \A r \in OfKind(E, {"shape"}) : E[r].items = <<>>
  <2> SUFFICES ASSUME NEW r \in OfKind(E, {"shape"}) PROVE E[r].items = <<>>
    OBVIOUS
  <2>1. CASE r \in DOMAIN ent
    <3>1. r \in OfKind(ent, {"shape"})
      BY <1>2, <2>1 DEF OfKind
    <3> QED
      BY <1>1, <3>1 DEF Instances, OfKind
  <2>2. CASE r \notin DOMAIN ent
    BY <1>2, <2>2 DEF OfKind
  <2> QED
    BY <2>1, <2>2
<1>5. \A r \in Sources(E) : \E s \in OfKind(E, {"solid"}) : E[r].items = <<s>>
  <2> SUFFICES ASSUME NEW r \in Sources(ent) PROVE \E s \in OfKind(ent, {"solid"}) : E[r].items = <<s>>
    BY <1>1
  <2>1. E[r] = ent[r]
    BY <1>1 DEF Sources
  <2> QED
    BY <1>1, <2>1 DEF Instances
<1>6. Instances'
  <2>1. OfKind(E, {"map", "mapped"}) \cap DOMAIN start = {}
    BY <1>1 DEF Instances
  <2> QED
    BY <1>1, <1>3, <1>4, <1>5, <2>1 DEF Instances, E
<1>7. ASSUME NEW r \in OfKind(E, {"brep"}) PROVE Settled(E, r)
  <2>1. r \in OfKind(ent, {"brep"}) /\ Settled(ent, r)
    BY <1>1 DEF AllSettled
  <2>2. ent[r].kind = "brep" /\ Refs(ent[r]) = ToSet(ent[r].items)
    BY <2>1, SolidReferences DEF OfKind
  <2>3. E[r].kind = "brep" /\ Refs(E[r]) = ToSet(E[r].items)
    BY <1>1, SolidReferences DEF OfKind
  <2>4. Refs(E[r]) \subseteq Refs(ent[r])
    BY <1>1, <1>2, <2>1
  <2>5. Solids(E, r) \subseteq Solids(ent, r) /\ Solids(E, r) \subseteq OfKind(ent, {"solid"})
    BY <1>1, <2>2, <2>3, <2>4 DEF Solids
  <2>6. \A s, t \in Solids(E, r) : Alike(E, s, t) => Alike(ent, s, t)
    BY <1>1, <2>5
  <2> QED
    BY <1>1, <2>1, <2>5, <2>6, SettledStays
<1>8. AllSettled(E)
  BY <1>7 DEF AllSettled
<1> QED
  BY <1>6, <1>8 DEF E

\* The representations that are left.
LEMMA TopsLeft ==
    ASSUME NEW top, NEW d, NEW root, TopStep(top, d, root)
    PROVE  /\ todo' \in Seq(OfKind(ent', {"brep"}) \ Sources(ent'))
           /\ \A i, j \in DOMAIN todo' : todo'[i] = todo'[j] => i = j
           /\ ToSet(todo) = {top} \cup ToSet(todo') /\ top \notin ToSet(todo')
           /\ \A i \in DOMAIN todo' : i + 1 \in DOMAIN todo /\ todo'[i] = todo[i + 1] /\ todo'[i] \in ToSet(todo)
           /\ \A i \in DOMAIN todo : todo[i] = top \/ \E j \in DOMAIN todo' : todo'[j] = todo[i]
           /\ ToSet(todo) \cap Sources(ent) = {} /\ ToSet(todo) \subseteq OfKind(ent, {"brep"})
<1> DEFINE S == OfKind(ent, {"brep"}) \ Sources(ent)
           l == todo
           t == Tail(todo)
<1>1. /\ l \in Seq(S) /\ l # <<>> /\ todo' = t /\ top = Head(l)
      /\ \A i, j \in DOMAIN l : l[i] = l[j] => i = j
      /\ OfKind(ent', {"brep"}) = OfKind(ent, {"brep"}) /\ Sources(ent') = Sources(ent)
  BY TopLeavesKinds DEF TopStep, Building
<1> HIDE DEF S, l
<1>2. /\ Tail(l) \in Seq(S) /\ ToSet(l) = {Head(l)} \cup ToSet(Tail(l))
      /\ \A i \in DOMAIN Tail(l) : i + 1 \in DOMAIN l /\ Tail(l)[i] = l[i + 1]
      /\ Head(l) = l[1] /\ 1 \in DOMAIN l
  BY <1>1, FirstOfThem
<1>3. t = Tail(l)
  BY DEF l
<1> HIDE DEF t
<1>4. \A i \in DOMAIN t : i \in Int
  BY <1>2, <1>3
<1>5. \A i, j \in DOMAIN t : t[i] = t[j] => i = j
  <2> SUFFICES ASSUME NEW i \in DOMAIN t, NEW j \in DOMAIN t, t[i] = t[j] PROVE i = j
    OBVIOUS
  <2>1. i + 1 = j + 1
    BY <1>1, <1>2, <1>3
  <2> QED
    BY <1>4, <2>1
<1>6. Head(l) \notin ToSet(t)
  <2> SUFFICES ASSUME NEW i \in DOMAIN t, t[i] = Head(l) PROVE FALSE
    BY DEF ToSet
  <2>1. i + 1 = 1 /\ i \in Int
    BY <1>1, <1>2, <1>3, <1>4
  <2>2. DOMAIN t = 1 .. Len(t) /\ Len(t) \in Nat
    BY <1>2, <1>3
  <2> QED
    BY <2>1, <2>2
<1>7. \A i \in DOMAIN t : t[i] \in ToSet(l)
  BY <1>2, <1>3 DEF ToSet
<1>8. \A i \in DOMAIN l : l[i] = Head(l) \/ \E j \in DOMAIN t : t[j] = l[i]
  <2> SUFFICES ASSUME NEW i \in DOMAIN l PROVE l[i] = Head(l) \/ \E j \in DOMAIN t : t[j] = l[i]
    OBVIOUS
  <2>1. l[i] \in ToSet(l)
    BY DEF ToSet
  <2>2. l[i] = Head(l) \/ l[i] \in ToSet(t)
    BY <1>2, <1>3, <2>1
  <2> QED
    BY <2>2 DEF ToSet
<1>9. ToSet(l) \subseteq S
  <2>1. \A i \in DOMAIN l : l[i] \in S
    BY <1>1
  <2> QED
    BY <2>1 DEF ToSet
<1> QED
  BY <1>1, <1>2, <1>3, <1>5, <1>6, <1>7, <1>8, <1>9 DEF S, l

\* The old styles are still those of the mapped items.
LEMMA TopOldStyles ==
    ASSUME NEW top, NEW d, NEW root, TopStep(top, d, root)
    PROVE  {s \in OfKind(ent', {"style"}) : ent'[s].of \in OfKind(ent', {"mapped"})} = work.oldStyles
<1> DEFINE E == ent'
<1>1. work.oldStyles = {s \in OfKind(ent, {"style"}) : ent[s].of \in OfKind(ent, {"mapped"})}
  BY DEF TopStep, Building
<1>2. OfKind(E, {"mapped"}) = OfKind(ent, {"mapped"})
  BY TopLeavesKinds
<1>3. /\ \A n \in DOMAIN ent : n \in DOMAIN E /\ E[n].kind = ent[n].kind
      /\ \A n \in OfKind(ent, {"style"}) : E[n].of = ent[n].of
      /\ \A n \in DOMAIN E \ DOMAIN ent : E[n].kind = "style" => E[n].of \in OfKind(ent, {"solid"})
  BY DEF TopStep, TopIsKept
<1> HIDE DEF E
<1>4. OfKind(ent, {"solid"}) \cap OfKind(ent, {"mapped"}) = {}
  BY DEF OfKind
<1>5. ASSUME NEW s
      PROVE  s \in OfKind(E, {"style"}) /\ E[s].of \in OfKind(ent, {"mapped"})
             <=> s \in OfKind(ent, {"style"}) /\ ent[s].of \in OfKind(ent, {"mapped"})
  <2>1. CASE s \in DOMAIN ent
    <3>1. s \in OfKind(E, {"style"}) <=> s \in OfKind(ent, {"style"})
      BY <1>3, <2>1 DEF OfKind
    <3> QED
      BY <1>3, <3>1
  <2>2. CASE s \notin DOMAIN ent
    <3>1. s \notin OfKind(ent, {"style"})
      BY <2>2 DEF OfKind
    <3>2. s \in OfKind(E, {"style"}) => E[s].of \in OfKind(ent, {"solid"})
      BY <1>3, <2>2 DEF OfKind
    <3> QED
      BY <1>4, <3>1, <3>2
  <2> QED
    BY <2>1, <2>2
<1> QED
  BY <1>1, <1>2, <1>5 DEF E

\* The representations that are left have the definitions and the mapped items they had.
LEMMA TopKeepsOthers ==
    ASSUME NEW top, NEW d, NEW root, TopStep(top, d, root)
    PROVE  /\ \A i \in DOMAIN todo' : Cardinality(Definitions(ent', todo'[i])) = 1
           /\ \A r \in OfKind(ent', {"brep"}) :
                 ToSet(ent'[r].items) \cap OfKind(ent', {"mapped"}) # {} => r \in ToSet(todo')
           /\ \A i \in DOMAIN todo' : LocalMaps(ent', todo'[i]) = LocalMaps(ent, todo'[i])
<1> DEFINE E == ent'
           R == PlacedReps(ent, top)
           M == (DOMAIN E \ DOMAIN ent) \ {root}
           S == PlacedSolids(ent, top)
<1>1. Building /\ TopIsReady(ent, top, d) /\ TopIsIn(ent, E, top, d, root) /\ TopIsKept(ent, E, top, d, root)
  BY DEF TopStep
<1>2. /\ OfKind(E, {"brep"}) = OfKind(ent, {"brep"}) /\ OfKind(E, {"map"}) = OfKind(ent, {"map"})
      /\ OfKind(E, {"mapped"}) = OfKind(ent, {"mapped"})
      /\ \A n \in OfKind(ent, {"brep"}) : n # top => E[n] = ent[n]
      /\ \A n \in OfKind(ent, {"map", "mapped", "solid", "face", "shape", "use", "product"}) : E[n] = ent[n]
      /\ \A n \in OfKind(ent, {"sdr"}) : n # d => E[n] = ent[n]
      /\ Sources(E) = Sources(ent)
  BY TopLeavesKinds
<1>3. /\ ToSet(todo) = {top} \cup ToSet(todo') /\ top \notin ToSet(todo')
      /\ \A i \in DOMAIN todo' : i + 1 \in DOMAIN todo /\ todo'[i] = todo[i + 1] /\ todo'[i] \in ToSet(todo)
      /\ ToSet(todo) \cap Sources(ent) = {} /\ ToSet(todo) \subseteq OfKind(ent, {"brep"})
  BY TopsLeft
<1>4. /\ top \in DOMAIN ent /\ d \in DOMAIN ent /\ ent[d].kind = "sdr" /\ ent[d].rep = top
      /\ MappedItems(ent) = OfKind(ent, {"mapped"})
      /\ \A r \in R : r \in OfKind(ent, {"brep"}) /\ (r = top \/ r \in Sources(ent))
  BY <1>1, ReadyTop
<1>5. Placement(E, M, ent[d].product, root, R, S) /\ root \in DOMAIN E /\ E[root].kind = "shape" /\ root \notin DOMAIN ent
  BY <1>1 DEF TopIsIn
<1>6. /\ \A n \in DOMAIN ent : n \in DOMAIN E /\ E[n].kind = ent[n].kind
      /\ E[top].items = Residual(ent, top) /\ E[d].rep = root
      /\ Refs(E[top]) = Refs(ent[top]) \ OfKind(ent, {"mapped"})
  BY <1>1 DEF TopIsKept
<1> HIDE DEF E, R, S
<1>7. ASSUME NEW n \in DOMAIN E, n \notin DOMAIN ent, E[n].kind = "sdr" PROVE E[n].rep \in R
  <2>1. n \in M
    BY <1>5, <1>7
  <2>2. NewKinds(E, M, ent[d].product, root, R, S, n)
    BY <1>5, <2>1 DEF Placement
  <2> HIDE DEF M
  <2> QED
    BY <1>7, <2>2 DEF NewKinds, NewStyle, NewShape, NewProduct, NewUse
<1>8. ASSUME NEW i \in DOMAIN todo' PROVE Definitions(E, todo'[i]) = Definitions(ent, todo'[i])
  <2> DEFINE r == todo'[i]
  <2>1. r \in OfKind(ent, {"brep"}) /\ r \notin Sources(ent) /\ r # top /\ r \in DOMAIN ent
    <3>1. r \in ToSet(todo')
      BY DEF ToSet
    <3> QED
      BY <1>3, <3>1 DEF OfKind
  <2> HIDE DEF r
  <2>2. ASSUME NEW x PROVE x \in Definitions(E, r) <=> x \in Definitions(ent, r)
    <3>1. CASE x \in DOMAIN ent /\ x # d
      <4>1. x \in OfKind(E, {"sdr"}) <=> x \in OfKind(ent, {"sdr"})
        BY <1>6, <3>1 DEF OfKind
      <4> QED
        BY <1>2, <3>1, <4>1 DEF Definitions
    <3>2. CASE x = d
      <4>1. ent[d].rep # r /\ E[d].rep # r
        BY <1>4, <1>5, <1>6, <2>1
      <4> QED
        BY <3>2, <4>1 DEF Definitions
    <3>3. CASE x \notin DOMAIN ent
      <4>1. x \notin Definitions(ent, r)
        BY <3>3 DEF Definitions, OfKind
      <4>2. x \in Definitions(E, r) => r \in R
        BY <1>7, <3>3 DEF Definitions, OfKind
      <4> QED
        BY <1>4, <2>1, <4>1, <4>2
    <3> QED
      BY <3>1, <3>2, <3>3
  <2> QED
    BY <2>2 DEF r
<1>9. \A i \in DOMAIN todo' : Cardinality(Definitions(E, todo'[i])) = 1
  <2>1. \A i \in DOMAIN todo : Cardinality(Definitions(ent, todo[i])) = 1
    BY <1>1 DEF Building
  <2> QED
    BY <1>3, <1>8, <2>1
<1>10. ASSUME NEW r \in OfKind(E, {"brep"}), ToSet(E[r].items) \cap OfKind(E, {"mapped"}) # {}
       PROVE  r \in ToSet(todo')
  <2>1. r # top
    <3> SUFFICES ASSUME r = top PROVE FALSE
      OBVIOUS
    <3>1. E[top].kind = "brep"
      BY <1>10 DEF OfKind
    <3>2. Refs(E[top]) = ToSet(E[top].items)
      BY <3>1, SolidReferences
    <3> QED
      BY <1>2, <1>6, <1>10, <3>2
  <2>2. r \in OfKind(ent, {"brep"}) /\ E[r] = ent[r]
    BY <1>2, <1>10, <2>1
  <2>3. r \in ToSet(todo)
    BY <1>1, <1>2, <1>10, <2>2 DEF Building
  <2> QED
    BY <1>3, <2>1, <2>3
<1>11. ASSUME NEW i \in DOMAIN todo' PROVE LocalMaps(E, todo'[i]) = LocalMaps(ent, todo'[i])
  <2> DEFINE r == todo'[i]
  <2>1. r \in OfKind(ent, {"brep"}) /\ r # top
    <3>1. r \in ToSet(todo')
      BY DEF ToSet
    <3> QED
      BY <1>3, <3>1
  <2> HIDE DEF r
  <2>2. E[r] = ent[r]
    BY <1>2, <2>1
  <2>3. Maps(E) = Maps(ent)
    <3>1. \A m \in OfKind(ent, {"map"}) : E[m] = ent[m]
      BY <1>2 DEF OfKind
    <3> QED
      BY <1>2, <3>1 DEF Maps
  <2>4. \A m \in OfKind(ent, {"mapped"}) : E[m] = ent[m]
    BY <1>2 DEF OfKind
  <2>5. MappedItems(E) = MappedItems(ent)
    BY <1>2, <2>3, <2>4 DEF MappedItems
  <2>6. Local(E, r) = Local(ent, r) /\ \A m \in Local(ent, r) : E[m] = ent[m]
    BY <2>2, <2>4, <2>5 DEF Local, MappedItems
  <2>7. LocalMaps(E, r) = LocalMaps(ent, r)
    BY <2>6 DEF LocalMaps
  <2> QED
    BY <2>7 DEF r
<1> QED
  BY <1>9, <1>10, <1>11 DEF E

\* Maps and occurrences are defined by products.
LEMMA TopIsDefined ==
    ASSUME NEW top, NEW d, NEW root, TopStep(top, d, root)
    PROVE  /\ \A m \in OfKind(ent', {"map"}) :
                 \/ \E x \in OfKind(ent', {"sdr"}) : ent'[x].rep = ent'[m].rep
                 \/ \E i \in DOMAIN todo' : m \in LocalMaps(ent', todo'[i])
           /\ \A u \in OfKind(ent', {"use"}) : UseIsWhole(u)' /\ ent'[u].rep \notin ToSet(todo')
<1> DEFINE E == ent'
           R == PlacedReps(ent, top)
           M == (DOMAIN E \ DOMAIN ent) \ {root}
           S == PlacedSolids(ent, top)
<1>1. /\ Building /\ TopIsReady(ent, top, d) /\ TopIsIn(ent, E, top, d, root)
      /\ TopIsKept(ent, E, top, d, root) /\ top = Head(todo)
  BY DEF TopStep
<1>2. /\ OfKind(E, {"map"}) = OfKind(ent, {"map"})
      /\ \A n \in OfKind(ent, {"brep"}) : n # top => E[n] = ent[n]
      /\ \A n \in OfKind(ent, {"map", "mapped", "solid", "face", "shape", "use", "product"}) : E[n] = ent[n]
      /\ \A n \in OfKind(ent, {"sdr"}) : n # d => E[n] = ent[n]
  BY TopLeavesKinds
<1>3. /\ ToSet(todo) = {top} \cup ToSet(todo') /\ top \notin ToSet(todo')
      /\ \A i \in DOMAIN todo : todo[i] = top \/ \E j \in DOMAIN todo' : todo'[j] = todo[i]
      /\ ToSet(todo) \cap Sources(ent) = {} /\ ToSet(todo) \subseteq OfKind(ent, {"brep"})
  BY TopsLeft
<1>4. /\ top \in DOMAIN ent /\ ent[top].kind = "brep" /\ d \in DOMAIN ent /\ ent[d].kind = "sdr" /\ ent[d].rep = top
      /\ \A r \in R : r \in OfKind(ent, {"brep"}) /\ (r = top \/ r \in Sources(ent))
  BY <1>1, ReadyTop
<1>12. Whole(ent) /\ top \notin Sources(ent)
  BY <1>1 DEF TopIsReady
<1>5. Placement(E, M, ent[d].product, root, R, S) /\ root \in DOMAIN E
  BY <1>1 DEF TopIsIn
<1>6. /\ \A n \in DOMAIN ent : n \in DOMAIN E /\ E[n].kind = ent[n].kind
      /\ E[d].product = ent[d].product /\ E[d].rep = root
  BY <1>1 DEF TopIsKept
<1>7. \A i \in DOMAIN todo' : LocalMaps(E, todo'[i]) = LocalMaps(ent, todo'[i])
  BY TopKeepsOthers
<1>8. \A r \in R : \E x \in OfKind(E, {"sdr"}) : E[x].rep = r
  <2> SUFFICES ASSUME NEW r \in R PROVE \E x \in OfKind(E, {"sdr"}) : E[x].rep = r
    OBVIOUS
  <2>1. PICK x \in M : E[x].kind = "sdr" /\ E[x].rep = r
    BY <1>5 DEF Placement
  <2> QED
    BY <1>5, <2>1 DEF Placement, OfKind
<1>9. \A m \in LocalMaps(ent, top) : ent[m].rep \in R
  BY DEF R, PlacedReps
<1> HIDE DEF E, R, S
<1>10. ASSUME NEW x \in OfKind(ent, {"sdr"}), x # d PROVE x \in OfKind(E, {"sdr"}) /\ E[x] = ent[x]
  BY <1>2, <1>6, <1>10 DEF OfKind
<1>11. ASSUME NEW m \in OfKind(E, {"map"})
       PROVE  \/ \E x \in OfKind(E, {"sdr"}) : E[x].rep = E[m].rep
              \/ \E i \in DOMAIN todo' : m \in LocalMaps(E, todo'[i])
  <2>1. m \in OfKind(ent, {"map"}) /\ E[m] = ent[m]
    BY <1>2, <1>11 DEF OfKind
  <2>2. CASE \E x \in OfKind(ent, {"sdr"}) : ent[x].rep = ent[m].rep
    <3>1. PICK x \in OfKind(ent, {"sdr"}) : ent[x].rep = ent[m].rep
      BY <2>2
    <3>2. ent[m].rep # top
      <4>1. ent[ent[m].rep].source /\ ent[m].rep \in OfKind(ent, {"brep"})
        BY <1>1, <1>12, <2>1, WholeFields DEF TopIsReady, Leads, OfKind
      <4> QED
        BY <1>12, <4>1 DEF Sources
    <3>3. x # d
      BY <1>4, <3>1, <3>2
    <3> QED
      BY <1>10, <2>1, <3>1, <3>3
  <2>3. CASE \E i \in DOMAIN todo : m \in LocalMaps(ent, todo[i])
    <3>1. PICK i \in DOMAIN todo : m \in LocalMaps(ent, todo[i])
      BY <2>3
    <3>2. CASE todo[i] = top
      BY <1>8, <1>9, <2>1, <3>1, <3>2
    <3>3. CASE \E j \in DOMAIN todo' : todo'[j] = todo[i]
      BY <1>7, <3>1, <3>3
    <3> QED
      BY <1>3, <3>2, <3>3
  <2> QED
    BY <1>1, <2>1, <2>2, <2>3 DEF Building
<1> DEFINE Defined(u) ==
             /\ \E x \in OfKind(E, {"sdr"}) : E[x].product = E[u].child /\ E[x].rep = E[u].rep
             /\ \E x \in OfKind(E, {"sdr"}) : E[x].product = E[u].parent /\ E[x].rep = E[u].within
<1>13. ASSUME NEW u \in OfKind(ent, {"use"})
       PROVE  Defined(u) /\ E[u].rep \notin ToSet(todo')
  <2>1. E[u] = ent[u] /\ UseIsWhole(u) /\ ent[u].rep \notin ToSet(todo)
    BY <1>1, <1>2 DEF Building, OfKind
  <2>2. PICK x \in OfKind(ent, {"sdr"}) : ent[x].product = ent[u].child /\ ent[x].rep = ent[u].rep
    BY <2>1 DEF UseIsWhole
  <2>3. x # d
    BY <1>3, <1>4, <2>1, <2>2
  <2>4. PICK y \in OfKind(ent, {"sdr"}) : ent[y].product = ent[u].parent /\ ent[y].rep = ent[u].within
    BY <2>1 DEF UseIsWhole
  <2>5. ent[u].within \in DOMAIN ent /\ ent[ent[u].within].kind = "shape"
    <3>1. u \in DOMAIN ent /\ ent[u].kind = "use"
      BY DEF OfKind
    <3>2. Leads(ent, ent[u].within, {"shape"})
      BY <1>12, <3>1, WholeFields
    <3> QED
      BY <3>2 DEF Leads
  <2>6. y # d
    BY <1>4, <2>4, <2>5
  <2> QED
    BY <1>3, <1>10, <2>1, <2>2, <2>3, <2>4, <2>6
<1>14. ASSUME NEW u \in OfKind(E, {"use"}), u \notin DOMAIN ent
       PROVE  Defined(u) /\ E[u].rep \notin ToSet(todo')
  <2>0. u \in DOMAIN E /\ E[u].kind = "use" /\ E[root].kind = "shape"
    BY <1>1 DEF TopIsIn, OfKind, E
  <2>1. u \in M
    BY <1>14, <2>0
  <2>2. NewKinds(E, M, ent[d].product, root, R, S, u) /\ M \subseteq DOMAIN E
    BY <1>5, <2>1 DEF Placement
  <2> HIDE DEF M
  <2>3. NewUse(E, M, ent[d].product, root, R, u)
    BY <2>0, <2>2 DEF NewKinds, NewStyle, NewShape, NewProduct, NewUse
  <2>4. \E x \in OfKind(E, {"sdr"}) : E[x].product = E[u].child /\ E[x].rep = E[u].rep
    BY <2>2, <2>3 DEF NewUse, OfKind
  <2>5. d \in OfKind(E, {"sdr"}) /\ E[d].product = E[u].parent /\ E[d].rep = E[u].within
    BY <1>4, <1>6, <2>3 DEF NewUse, OfKind
  <2>6. E[u].rep \notin ToSet(todo')
    <3>1. E[u].rep = top \/ E[u].rep \in Sources(ent)
      BY <1>4, <2>3 DEF NewUse
    <3> QED
      BY <1>3, <3>1
  <2> QED
    BY <2>4, <2>5, <2>6
<1>15. ASSUME NEW u \in OfKind(E, {"use"}) PROVE UseIsWhole(u)' /\ E[u].rep \notin ToSet(todo')
  <2>1. u \in DOMAIN ent => u \in OfKind(ent, {"use"})
    BY <1>6 DEF OfKind
  <2>2. Defined(u) /\ E[u].rep \notin ToSet(todo')
    BY <1>13, <1>14, <2>1
  <2>3. UseIsWhole(u)'
    BY <2>2 DEF UseIsWhole, E
  <2> QED
    BY <2>2, <2>3
<1> QED
  BY <1>11, <1>15 DEF E

\* The new styles are the ones that were added.
LEMMA TopNewStyles ==
    ASSUME NEW top, NEW d, NEW root, TopStep(top, d, root),
           NEW new, new = {s \in DOMAIN ent' \ DOMAIN ent : ent'[s].kind = "style"},
           work'.newStyles = work.newStyles \o InOrder(new)
    PROVE  /\ work'.newStyles \in Seq(OfKind(ent', {"style"}))
           /\ ToSet(work'.newStyles) = ToSet(work.newStyles) \cup new
           /\ ToSet(work'.newStyles) \cap work.oldStyles = {}
<1> DEFINE E == ent'
           S == OfKind(ent, {"style"})
           T == OfKind(E, {"style"})
           a == work.newStyles
           b == InOrder(new)
<1>1. /\ Whole(E) /\ a \in Seq(S) /\ ToSet(a) \cap work.oldStyles = {} /\ work.oldStyles \subseteq S
      /\ \A n \in DOMAIN ent : n \in DOMAIN E /\ E[n].kind = ent[n].kind
  <2>1. Building /\ TopIsKept(ent, E, top, d, root)
    BY DEF TopStep
  <2> HIDE DEF E
  <2> QED
    BY <2>1 DEF Building, TopIsKept
<1>2. new \in SUBSET DOMAIN E /\ new \subseteq T /\ new \cap DOMAIN ent = {}
  BY DEF OfKind
<1>3. S \subseteq T /\ work.oldStyles \cap new = {}
  <2>1. S \subseteq DOMAIN ent
    BY DEF OfKind
  <2> QED
    BY <1>1, <1>2, <2>1 DEF OfKind
<1> HIDE DEF E
<1>4. b \in Seq(new) /\ ToSet(b) = new
  BY <1>1, <1>2, AllRepresentations
<1> HIDE DEF a, b, S, T
<1>5. a \in Seq(T) /\ b \in Seq(T)
  BY <1>1, <1>2, <1>3, <1>4
<1>6. a \o b \in Seq(T) /\ ToSet(a \o b) = ToSet(a) \cup ToSet(b)
  BY <1>5, JoinedLists
<1>7. work'.newStyles = a \o b
  BY DEF a, b
<1> QED
  BY <1>1, <1>3, <1>4, <1>6, <1>7 DEF T, E, a

\* Only mapped items, maps and new styles lack a user.
LEMMA TopKeepsUsers ==
    ASSUME NEW top, NEW d, NEW root, TopStep(top, d, root),
           NEW n \in DOMAIN ent', Parents(ent', n) = {}
    PROVE  \/ MayBeUnused(ent, n)'
           \/ n \in work.candidates \cup ToSet(work.newStyles)
           \/ n \notin DOMAIN ent /\ ent'[n].kind = "style"
<1> DEFINE E == ent'
           R == PlacedReps(ent, top)
           M == (DOMAIN E \ DOMAIN ent) \ {root}
           S == PlacedSolids(ent, top)
<1>1. /\ Building /\ TopIsReady(ent, top, d) /\ TopIsIn(ent, E, top, d, root)
      /\ TopIsKept(ent, E, top, d, root) /\ start' = start
  BY DEF TopStep
<1>2. \A x \in DOMAIN E : n \notin Refs(E[x])
  BY DEF Parents
<1>3. /\ top \in DOMAIN ent /\ ent[top].kind = "brep" /\ d \in DOMAIN ent /\ ent[d].kind = "sdr" /\ ent[d].rep = top
      /\ Residual(ent, top) \in Seq(OfKind(ent, {"solid"}))
      /\ ToSet(Residual(ent, top)) = ToSet(ent[top].items) \ OfKind(ent, {"mapped"})
  BY <1>1, ReadyTop
<1>4. Placement(E, M, ent[d].product, root, R, S) /\ root \in DOMAIN E /\ root \notin DOMAIN ent
  BY <1>1 DEF TopIsIn
<1>5. /\ \A x \in DOMAIN ent : x \in DOMAIN E /\ E[x].kind = ent[x].kind
      /\ \A x \in DOMAIN ent : ent[x].kind # "style" /\ x # top /\ x # d => E[x] = ent[x]
      /\ \A x \in OfKind(ent, {"style"}) : E[x].of = ent[x].of
      /\ E[top].items = Residual(ent, top)
      /\ Refs(E[top]) = Refs(ent[top]) \ OfKind(ent, {"mapped"})
      /\ Refs(E[d]) = {ent[d].product, root}
  BY <1>1 DEF TopIsKept
<1>6. work.candidates = OfKind(ent, {"map", "mapped"})
      /\ \A x \in DOMAIN ent :
          Parents(ent, x) = {} =>
             MayBeUnused(ent, x) \/ x \in work.candidates \cup ToSet(work.newStyles)
  BY <1>1 DEF Building
<1>7. top \in R \/ Residual(ent, top) = <<>>
  BY DEF R, PlacedReps
<1> HIDE DEF E, R, S
<1>8. CASE n \in DOMAIN ent
  <2>1. CASE Parents(ent, n) = {}
    <3>1. MayBeUnused(ent, n) \/ n \in work.candidates \cup ToSet(work.newStyles)
      BY <1>6, <1>8, <2>1
    <3>2. ASSUME MayBeUnused(ent, n) PROVE MayBeUnused(ent, n)'
      <4>1. ent[n].kind = "brep" /\ ent[n].items = <<>> => E[n].items = <<>>
        <5>1. CASE n = top
          <6> SUFFICES ASSUME ent[top].items = <<>> PROVE Residual(ent, top) = <<>>
            BY <1>5, <5>1
          <6> DEFINE l == Residual(ent, top)
                     T == OfKind(ent, {"solid"})
          <6>1. ToSet(l) = {} /\ l \in Seq(T)
            <7>1. ToSet(<<>>) = {}
              BY DEF ToSet
            <7> QED
              BY <1>3, <7>1
          <6> HIDE DEF l, T
          <6>2. l = <<>>
            <7>1. DOMAIN l = {}
              BY <6>1 DEF ToSet
            <7> QED
              BY <6>1, <7>1
          <6> QED
            BY <6>2 DEF l
        <5>2. CASE n # top
          BY <1>3, <1>5, <1>8, <5>2
        <5> QED
          BY <5>1, <5>2
      <4>2. E[n].kind = ent[n].kind
        BY <1>5, <1>8
      <4> QED
        BY <1>1, <3>2, <4>1, <4>2 DEF MayBeUnused, E
    <3> QED
      BY <3>1, <3>2
  <2>2. CASE Parents(ent, n) # {}
    <3>1. PICK p \in DOMAIN ent : n \in Refs(ent[p])
      BY <2>2 DEF Parents
    <3>2. p \in DOMAIN E /\ E[p].kind = ent[p].kind /\ n \notin Refs(E[p])
      BY <1>2, <1>5, <3>1
    <3>3. CASE ent[p].kind = "style"
      <4>1. E[p].of = ent[p].of
        BY <1>5, <3>1, <3>3 DEF OfKind
      <4>2. Refs(ent[p]) = {ent[p].of} /\ Refs(E[p]) = {E[p].of}
        BY <3>2, <3>3, SolidReferences
      <4> QED
        BY <3>1, <3>2, <4>1, <4>2
    <3>4. CASE p = top
      <4>1. n \in OfKind(ent, {"mapped"})
        BY <1>5, <3>1, <3>2, <3>4
      <4>2. n \in work.candidates
        BY <1>6, <4>1 DEF OfKind
      <4> QED
        BY <4>2
    <3>5. CASE p = d
      <4>1. Refs(ent[d]) = {ent[d].product, ent[d].rep}
        BY <1>3, SolidReferences
      <4>2. n = top
        BY <1>3, <1>5, <3>1, <3>2, <3>5, <4>1
      <4>3. CASE Residual(ent, top) = <<>>
        BY <1>1, <1>3, <1>5, <4>2, <4>3 DEF MayBeUnused, E
      <4>4. CASE top \in R
        <5>1. PICK x \in M : E[x].kind = "sdr" /\ E[x].rep = top
          BY <1>4, <4>4 DEF Placement
        <5>2. Refs(E[x]) = {E[x].product, E[x].rep} /\ x \in DOMAIN E
          BY <1>4, <5>1, SolidReferences DEF Placement
        <5> QED
          BY <1>2, <4>2, <5>1, <5>2
      <4> QED
        BY <1>7, <4>3, <4>4
    <3>6. CASE ent[p].kind # "style" /\ p # top /\ p # d
      BY <1>5, <3>1, <3>2, <3>6
    <3> QED
      BY <3>3, <3>4, <3>5, <3>6
  <2> QED
    BY <2>1, <2>2
<1>9. CASE n \notin DOMAIN ent
  <2>1. n # root
    <3>1. d \in DOMAIN E
      BY <1>3, <1>5
    <3> QED
      BY <1>2, <1>5, <3>1
  <2>2. n \in M /\ M \subseteq DOMAIN E
    BY <1>9, <2>1 DEF E
  <2>3. NewKinds(E, M, ent[d].product, root, R, S, n)
    BY <1>4, <2>2 DEF Placement
  <2> HIDE DEF M
  <2>4. ~ NewProduct(E, M, n)
    <3> SUFFICES ASSUME NewProduct(E, M, n) PROVE FALSE
      OBVIOUS
    <3>1. PICK x \in M : E[x].kind = "sdr" /\ E[x].product = n
      BY DEF NewProduct
    <3>2. Refs(E[x]) = {E[x].product, E[x].rep}
      BY <3>1, SolidReferences
    <3> QED
      BY <1>2, <2>2, <3>1, <3>2
  <2>5. E[n].kind = "style" \/ E[n].kind = "sdr" \/ E[n].kind = "use"
    BY <2>3, <2>4 DEF NewKinds, NewStyle, NewShape, NewUse
  <2> QED
    BY <1>9, <2>5 DEF MayBeUnused, E
<1> QED
  BY <1>8, <1>9

\* A representation becomes an assembly.
LEMMA EmitTopKeeps ==
    ASSUME InstancingAssumption, SolidInv, EmitTop
    PROVE  SolidInv'
<1> DEFINE top == Head(todo)
           new == TopEntities(ent, top)
           E == ent'
           styles == {s \in DOMAIN new \ DOMAIN ent : new[s].kind = "style"}
<1>1. /\ step = "tops" /\ todo # <<>> /\ E = With(ent, new)
      /\ work' = [work EXCEPT !.newStyles = work.newStyles \o InOrder(styles)]
      /\ todo' = Tail(todo) /\ start' = start /\ mode' = mode /\ step' = step
      /\ families' = families /\ round' = round
  BY DEF EmitTop
<1>2. Running /\ Building /\ TypeOK /\ Whole(ent) /\ mode = "assembly"
  <2>1. Running
    BY <1>1 DEF SolidInv, Quiet
  <2> QED
    BY <1>1, <2>1 DEF Running, SolidInv, TypeOK
<1>3. top \in OfKind(ent, {"brep"}) /\ top \notin Sources(ent) /\ Cardinality(Definitions(ent, top)) = 1
  <2> DEFINE S == OfKind(ent, {"brep"}) \ Sources(ent)
  <2>1. todo \in Seq(S) /\ \A i \in DOMAIN todo : Cardinality(Definitions(ent, todo[i])) = 1
    BY <1>2 DEF Building
  <2> HIDE DEF S
  <2>2. Head(todo) \in S /\ Head(todo) = todo[1] /\ 1 \in DOMAIN todo
    BY <1>1, <2>1, FirstOfThem
  <2> QED
    BY <2>1, <2>2 DEF S
<1>4. PICK d : Definitions(ent, top) = {d}
  <2> DEFINE D == Definitions(ent, top)
  <2>1. IsFiniteSet(D)
    <3>1. D \in SUBSET DOMAIN ent
      BY DEF Definitions, OfKind
    <3> QED
      BY <1>2, <3>1, FS_Subset DEF Whole
  <2> HIDE DEF D
  <2>2. \E x : D = {x}
    BY <1>3, <2>1, FS_Singleton DEF D
  <2> QED
    BY <2>2 DEF D
<1>5. TopIsReady(ent, top, d)
  <2>1. \A m \in OfKind(ent, {"map"}) :
          ent[ent[m].rep].source /\ \E s \in OfKind(ent, {"solid"}) : ent[ent[m].rep].items = <<s>>
    BY <1>2 DEF Building, Instances
  <2> QED
    BY <1>2, <1>3, <1>4, <2>1 DEF TopIsReady
<1> HIDE DEF top
<1>6. PICK root : TopIsIn(ent, E, top, d, root)
  BY <1>1, <1>2, <1>3, <1>4, TopOfEntities
<1> HIDE DEF new, E
<1>7. TopIsKept(ent, E, top, d, root)
  BY <1>5, <1>6, TopKeeps
<1>8. TopStep(top, d, root)
  BY <1>1, <1>2, <1>5, <1>6, <1>7 DEF TopStep, top, E
<1>9. styles = {s \in DOMAIN E \ DOMAIN ent : E[s].kind = "style"}
  <2>1. /\ DOMAIN With(ent, new) = DOMAIN ent \cup DOMAIN new
        /\ \A n \in DOMAIN new : With(ent, new)[n] = new[n]
    BY WithEntities
  <2> QED
    BY <1>1, <2>1
<1> HIDE DEF styles
<1>10. /\ work'.newStyles = work.newStyles \o InOrder(styles)
       /\ work'.candidates = work.candidates /\ work'.oldStyles = work.oldStyles
       /\ work'.duplicates = work.duplicates /\ work'.target = work.target
  <2>1. "newStyles" \in DOMAIN work \/ "newStyles" \notin DOMAIN work
    OBVIOUS
  <2> QED
    BY <1>1, <2>1
<1>11. /\ work'.newStyles \in Seq(OfKind(E, {"style"}))
       /\ ToSet(work'.newStyles) = ToSet(work.newStyles) \cup styles
       /\ ToSet(work'.newStyles) \cap work.oldStyles = {}
  BY <1>8, <1>9, <1>10, TopNewStyles DEF E
<1>12. Instances' /\ AllSettled(E)
  BY <1>8, TopKeepsInstances DEF E
<1>13. work'.candidates = OfKind(E, {"map", "mapped"})
  <2>1. OfKind(E, {"map", "mapped"}) = OfKind(ent, {"map", "mapped"})
    BY <1>8, TopLeavesKinds DEF E
  <2>2. work.candidates = OfKind(ent, {"map", "mapped"})
    BY <1>2 DEF Building
  <2> QED
    BY <1>10, <2>1, <2>2
<1>14. /\ work'.oldStyles = {s \in OfKind(E, {"style"}) : E[s].of \in OfKind(E, {"mapped"})}
       /\ work'.oldStyles # {} /\ work'.oldStyles \cap DOMAIN start' = {}
  <2>1. {s \in OfKind(E, {"style"}) : E[s].of \in OfKind(E, {"mapped"})} = work.oldStyles
    BY <1>8, TopOldStyles DEF E
  <2>2. work.oldStyles # {} /\ work.oldStyles \cap DOMAIN start = {}
    BY <1>2 DEF Building
  <2> QED
    BY <1>1, <1>10, <2>1, <2>2
<1>15. work'.duplicates = {} /\ DOMAIN work'.target = {}
  BY <1>2, <1>10 DEF Building
<1>16. /\ todo' \in Seq(OfKind(E, {"brep"}) \ Sources(E))
       /\ \A i, j \in DOMAIN todo' : todo'[i] = todo'[j] => i = j
  BY <1>8, TopsLeft DEF E
<1>17. /\ \A i \in DOMAIN todo' : Cardinality(Definitions(E, todo'[i])) = 1
       /\ \A r \in OfKind(E, {"brep"}) :
             ToSet(E[r].items) \cap OfKind(E, {"mapped"}) # {} => r \in ToSet(todo')
  BY <1>8, TopKeepsOthers DEF E
<1>18. /\ \A m \in OfKind(E, {"map"}) :
             \/ \E x \in OfKind(E, {"sdr"}) : E[x].rep = E[m].rep
             \/ \E i \in DOMAIN todo' : m \in LocalMaps(E, todo'[i])
       /\ \A u \in OfKind(E, {"use"}) : UseIsWhole(u)' /\ E[u].rep \notin ToSet(todo')
  BY <1>8, TopIsDefined DEF E
<1>19. \A n \in DOMAIN E : Parents(E, n) = {} => MayBeUnused(ent, n)' \/ n \in work'.candidates \cup ToSet(work'.newStyles)
  <2> SUFFICES ASSUME NEW n \in DOMAIN E, Parents(E, n) = {}
               PROVE  MayBeUnused(ent, n)' \/ n \in work'.candidates \cup ToSet(work'.newStyles)
    OBVIOUS
  <2>1. \/ MayBeUnused(ent, n)'
        \/ n \in work.candidates \cup ToSet(work.newStyles)
        \/ n \notin DOMAIN ent /\ E[n].kind = "style"
    BY <1>8, TopKeepsUsers DEF E
  <2> QED
    BY <1>9, <1>10, <1>11, <2>1
<1>20. Building'
  BY <1>10, <1>11, <1>12, <1>13, <1>14, <1>15, <1>16, <1>17, <1>18, <1>19 DEF Building, E
<1>21. TypeOK'
  <2>1. Whole(E)
    BY <1>7 DEF TopIsKept
  <2> QED
    BY <1>1, <1>2, <1>15, <2>1 DEF TypeOK, E
<1>22. Running'
  BY <1>1, <1>2, <1>20 DEF Running
<1> QED
  BY <1>21, <1>22 DEF SolidInv

-----------------------------------------------------------------------------
(* The end of the assembly.                                                *)

\* The mapped items, the maps and their styles go, and nobody refers to them.
LEMMA FinishAssemblyKeeps ==
    ASSUME InstancingAssumption, SolidInv, FinishAssembly
    PROVE  SolidInv'
<1> DEFINE f == Patched(ent, work.oldStyles, work.newStyles)
           gone == work.candidates \cup work.oldStyles
           g == Restrict(f, DOMAIN f \ gone)
<1>1. Running /\ Building /\ TypeOK /\ Whole(ent) /\ mode = "assembly" /\ todo = <<>>
  <2>1. step = "tops" /\ todo = <<>>
    BY DEF FinishAssembly
  <2>2. Running
    BY <2>1 DEF SolidInv, Quiet
  <2> QED
    BY <2>1, <2>2 DEF Running, SolidInv, TypeOK
<1>2. ListsArePatched(ent, f, work.oldStyles, work.newStyles)
  BY <1>1, PatchedSection DEF Building
<1>3. /\ DOMAIN f = DOMAIN ent /\ OnlyItems(ent, f, Lists) /\ Whole(f)
      /\ \A n \in DOMAIN ent : \A x \in Refs(f[n]) : ent[n].kind \in Lists => x \notin work.oldStyles
      /\ \A n \in DOMAIN ent : \A x \in Refs(ent[n]) : x \notin work.oldStyles => x \in Refs(f[n])
      /\ \A n \in DOMAIN ent : ent[n].kind \in Lists /\ Refs(ent[n]) \cap work.oldStyles # {} =>
            ToSet(work.newStyles) \subseteq Refs(f[n])
  BY <1>2 DEF ListsArePatched
<1>4. /\ ent' = g /\ start' = start /\ todo' = todo /\ work' = work /\ mode' = mode /\ round' = round
      /\ step' = "done"
  BY <1>3 DEF FinishAssembly
<1> HIDE DEF f
<1>5. \A n \in DOMAIN ent : f[n].kind = ent[n].kind /\ (ent[n].kind \notin Lists => f[n] = ent[n])
  BY <1>3 DEF OnlyItems
<1>6. \A K : OfKind(f, K) = OfKind(ent, K)
  BY <1>3, <1>5 DEF OfKind
<1>7. /\ work.candidates = OfKind(ent, {"map", "mapped"})
      /\ work.oldStyles = {s \in OfKind(ent, {"style"}) : ent[s].of \in OfKind(ent, {"mapped"})}
      /\ work.oldStyles # {} /\ work.oldStyles \cap DOMAIN start = {}
      /\ ToSet(work.newStyles) \cap work.oldStyles = {}
      /\ \A r \in OfKind(ent, {"brep"}) : ToSet(ent[r].items) \cap OfKind(ent, {"mapped"}) = {}
      /\ \A r \in OfKind(ent, {"shape"}) : ent[r].items = <<>>
      /\ \A m \in OfKind(ent, {"map"}) : \E d \in OfKind(ent, {"sdr"}) : ent[d].rep = ent[m].rep
      /\ \A u \in OfKind(ent, {"use"}) : UseIsWhole(u)
      /\ \A n \in DOMAIN ent :
            Parents(ent, n) = {} => MayBeUnused(ent, n) \/ n \in work.candidates \cup ToSet(work.newStyles)
  <2>1. DOMAIN todo = {} /\ ToSet(todo) = {}
    BY <1>1 DEF ToSet
  <2> QED
    BY <1>1, <2>1 DEF Building, Instances
<1>8. ASSUME NEW x \in gone
      PROVE  \/ x \in DOMAIN ent /\ ent[x].kind = "map" /\ x \in work.candidates
             \/ x \in DOMAIN ent /\ ent[x].kind = "mapped" /\ x \in work.candidates
             \/ x \in DOMAIN ent /\ ent[x].kind = "style" /\ x \in work.oldStyles
  BY <1>7 DEF OfKind
<1>9. ASSUME NEW n \in DOMAIN f, n \notin gone, NEW x \in Refs(f[n]), x \in gone PROVE FALSE
  <2>1. x \in DOMAIN f /\ Meets(ent[n].kind, ent[x].kind) /\ n \in DOMAIN ent
    BY <1>3, <1>5, <1>9, WholeReferences
  <2>2. CASE ent[x].kind = "map" /\ x \in work.candidates
    <3>1. ent[n].kind = "mapped"
      BY <2>1, <2>2 DEF Meets
    <3> QED
      BY <1>7, <1>9, <2>1, <3>1 DEF OfKind
  <2>3. CASE ent[x].kind = "mapped" /\ x \in work.candidates
    <3>0. x \in OfKind(ent, {"mapped"})
      BY <1>3, <2>1, <2>3 DEF OfKind
    <3>1. ent[n].kind = "brep" \/ ent[n].kind = "shape" \/ ent[n].kind = "style"
      BY <2>1, <2>3 DEF Meets
    <3>2. f[n] = ent[n]
      BY <1>5, <2>1, <3>1 DEF Lists
    <3>3. CASE ent[n].kind = "brep"
      <4>1. Refs(ent[n]) = ToSet(ent[n].items)
        BY <3>3, SolidReferences
      <4> QED
        BY <1>7, <1>9, <2>1, <3>0, <3>2, <3>3, <4>1 DEF OfKind
    <3>4. CASE ent[n].kind = "shape"
      <4>1. Refs(ent[n]) = ToSet(ent[n].items)
        BY <3>4, SolidReferences
      <4>2. ent[n].items = <<>>
        BY <1>7, <2>1, <3>4 DEF OfKind
      <4>3. ToSet(<<>>) = {}
        BY DEF ToSet
      <4> QED
        BY <1>9, <3>2, <4>1, <4>2, <4>3
    <3>5. CASE ent[n].kind = "style"
      <4>1. Refs(ent[n]) = {ent[n].of}
        BY <3>5, SolidReferences
      <4>2. n \in work.oldStyles
        BY <1>7, <1>9, <2>1, <3>0, <3>2, <3>5, <4>1 DEF OfKind
      <4> QED
        BY <1>9, <4>2
    <3> QED
      BY <3>1, <3>3, <3>4, <3>5
  <2>4. CASE ent[x].kind = "style" /\ x \in work.oldStyles
    <3>1. ent[n].kind \in Lists
      BY <2>1, <2>4 DEF Meets, Lists
    <3> QED
      BY <1>3, <1>9, <2>1, <2>4, <3>1
  <2> QED
    BY <1>8, <1>9, <2>2, <2>3, <2>4
<1>10. /\ DOMAIN g = DOMAIN f \ gone /\ \A n \in DOMAIN g : g[n] = f[n]
       /\ Whole(g) /\ \A K : OfKind(g, K) = OfKind(f, K) \ gone
       /\ \A n : Parents(g, n) = Parents(f, n) \ gone
  <2>1. \A n \in DOMAIN f \ gone : Refs(f[n]) \cap gone = {}
    BY <1>9
  <2> HIDE DEF gone
  <2> QED
    BY <1>3, <2>1, RestrictedSection
<1> HIDE DEF gone, g
<1>11. \A n \in DOMAIN ent : ent[n].kind \notin {"map", "mapped", "style"} => n \in DOMAIN g
  BY <1>3, <1>8, <1>10
<1>12. TypeOK'
  BY <1>1, <1>4, <1>10 DEF TypeOK
<1>13. ToSet(work.newStyles) = {} \/ \E p \in DOMAIN ent : ToSet(work.newStyles) \subseteq Refs(f[p])
  <2>1. PICK o \in work.oldStyles : o \in OfKind(ent, {"style"})
    BY <1>7
  <2>2. Parents(ent, o) # {}
    <3>1. o \in DOMAIN ent /\ ent[o].kind = "style" /\ o \notin DOMAIN start
      BY <1>7, <2>1 DEF OfKind
    <3>2. ~ MayBeUnused(ent, o)
      BY <3>1 DEF MayBeUnused
    <3>3. o \notin work.candidates /\ o \notin ToSet(work.newStyles)
      BY <1>7, <2>1, <3>1 DEF OfKind
    <3> QED
      BY <1>7, <3>1, <3>2, <3>3
  <2>3. PICK p \in DOMAIN ent : o \in Refs(ent[p])
    BY <2>2 DEF Parents
  <2>4. ent[p].kind \in Lists
    BY <1>1, <2>1, <2>3, StylesAreListed
  <2> QED
    BY <1>3, <2>1, <2>3, <2>4
<1>14. ASSUME NEW n \in DOMAIN g, Parents(g, n) = {} PROVE MayBeUnused(g, n)
  <2>1. n \in DOMAIN ent /\ n \notin gone /\ Parents(f, n) \subseteq gone /\ g[n] = f[n] /\ n \in DOMAIN f
    BY <1>3, <1>10, <1>14
  <2>2. CASE Parents(f, n) # {}
    <3>1. PICK p \in DOMAIN f : n \in Refs(f[p]) /\ p \in gone /\ p \in DOMAIN ent
      BY <1>3, <2>1, <2>2 DEF Parents
    <3>2. f[p] = ent[p] /\ ent[p].kind \in {"map", "mapped", "style"}
      BY <1>5, <1>8, <3>1 DEF Lists
    <3>3. CASE ent[p].kind = "style" /\ p \in work.oldStyles
      <4>1. Refs(ent[p]) = {ent[p].of}
        BY <3>3, SolidReferences
      <4>2. ent[p].of \in work.candidates
        BY <1>7, <3>3 DEF OfKind
      <4> QED
        BY <2>1, <3>1, <3>2, <4>1, <4>2 DEF gone
    <3>4. CASE ent[p].kind = "mapped"
      <4>1. Refs(ent[p]) = {ent[p].map} /\ Leads(ent, ent[p].map, {"map"})
        BY <1>1, <3>1, <3>4, SolidReferences, WholeFields
      <4>2. ent[p].map \in work.candidates
        BY <1>7, <4>1 DEF OfKind, Leads
      <4> QED
        BY <2>1, <3>1, <3>2, <4>1, <4>2 DEF gone
    <3>5. CASE ent[p].kind = "map"
      <4>1. Refs(ent[p]) = {ent[p].rep}
        BY <3>5, SolidReferences
      <4>2. PICK d \in OfKind(ent, {"sdr"}) : ent[d].rep = n
        BY <1>7, <3>1, <3>2, <3>5, <4>1 DEF OfKind
      <4>3. d \in DOMAIN ent /\ ent[d].kind = "sdr" /\ f[d] = ent[d] /\ d \in DOMAIN g
        BY <1>5, <1>11, <4>2 DEF OfKind, Lists
      <4>4. Refs(g[d]) = {ent[d].product, ent[d].rep}
        BY <1>10, <4>3, SolidReferences
      <4> QED
        BY <1>14, <4>2, <4>3, <4>4 DEF Parents
    <3> QED
      BY <1>8, <3>1, <3>2, <3>3, <3>4, <3>5
  <2>3. CASE Parents(f, n) = {}
    <3>1. n \notin work.oldStyles
      BY <2>1 DEF gone
    <3>2. Parents(ent, n) = {}
      BY <1>3, <2>3, <3>1 DEF Parents
    <3>3. n \notin ToSet(work.newStyles)
      BY <1>3, <1>13, <2>3 DEF Parents
    <3>4. MayBeUnused(ent, n)
      BY <1>7, <2>1, <3>2, <3>3 DEF gone
    <3>5. ent[n].kind = "brep" => f[n] = ent[n]
      BY <1>5, <2>1 DEF Lists
    <3> QED
      BY <1>5, <2>1, <3>4, <3>5 DEF MayBeUnused
  <2> QED
    BY <2>2, <2>3
<1>15. \A s, t \in OfKind(g, {"solid"}) : Alike(g, s, t) => Alike(ent, s, t)
  <2>1. OnlyItems(ent, f, {"brep", "shape", "presentation", "layer"})
    BY <1>3 DEF OnlyItems, Lists
  <2>2. \A s, t \in OfKind(ent, {"solid"}) : Alike(f, s, t) <=> Alike(ent, s, t)
    BY <1>1, <1>3, <2>1, AlikeStays
  <2>3. \A n \in OfKind(g, {"solid", "face", "style"}) : n \in DOMAIN f /\ f[n] = g[n]
    BY <1>10 DEF OfKind
  <2>4. ASSUME NEW n \in OfKind(f, {"style"}), n \notin DOMAIN g PROVE f[n].of \notin OfKind(g, {"face"})
    <3>1. n \in DOMAIN f /\ f[n].kind = "style" /\ n \in gone
      BY <1>10, <2>4 DEF OfKind
    <3>2. n \in work.oldStyles /\ ent[n].kind = "style" /\ f[n] = ent[n]
      BY <1>3, <1>5, <1>8, <3>1 DEF Lists
    <3>3. f[n].of \in work.candidates
      BY <1>7, <3>2 DEF OfKind
    <3> QED
      BY <1>10, <3>3 DEF OfKind, gone
  <2>5. \A n \in OfKind(f, {"style"}) : (n \in DOMAIN g /\ f[n] = g[n]) \/ f[n].of \notin OfKind(g, {"face"})
    BY <1>10, <2>4
  <2>6. \A s, t \in OfKind(g, {"solid"}) : Alike(f, s, t) <=> Alike(g, s, t)
    BY <1>10, <2>3, <2>5, GrownAlike
  <2> QED
    BY <1>6, <1>10, <2>2, <2>6
<1>16. AllSettled(g)
  <2> SUFFICES ASSUME NEW r \in OfKind(g, {"brep"}) PROVE Settled(g, r)
    BY DEF AllSettled
  <2>1. r \in OfKind(ent, {"brep"}) /\ g[r] = ent[r]
    <3>1. r \in OfKind(ent, {"brep"}) /\ r \in DOMAIN g
      BY <1>6, <1>10 DEF OfKind
    <3> QED
      BY <1>5, <1>10, <3>1 DEF OfKind, Lists
  <2>2. Settled(ent, r)
    BY <1>1, <2>1 DEF AllSettled, Building
  <2>3. Solids(g, r) \subseteq Solids(ent, r)
    BY <1>6, <1>10, <2>1 DEF Solids
  <2>4. \A s, t \in Solids(g, r) : Alike(g, s, t) => Alike(ent, s, t)
    BY <1>15 DEF Solids
  <2> QED
    BY <1>1, <2>1, <2>2, <2>3, <2>4, SettledStays
<1>17. MappedItems(g) = {} /\ Maps(g) = {}
  <2>1. OfKind(g, {"map"}) = {} /\ OfKind(g, {"mapped"}) = {}
    <3>1. OfKind(ent, {"map"}) \subseteq gone /\ OfKind(ent, {"mapped"}) \subseteq gone
      BY <1>7 DEF OfKind, gone
    <3> QED
      BY <1>6, <1>10, <3>1
  <2> QED
    BY <2>1 DEF MappedItems, Maps
<1>18. \A u \in OfKind(g, {"use"}) : UseIsWhole(u)'
  <2> SUFFICES ASSUME NEW u \in OfKind(g, {"use"}) PROVE UseIsWhole(u)'
    OBVIOUS
  <2>1. u \in OfKind(ent, {"use"}) /\ g[u] = ent[u]
    <3>1. u \in OfKind(ent, {"use"}) /\ u \in DOMAIN g
      BY <1>6, <1>10 DEF OfKind
    <3> QED
      BY <1>5, <1>10, <3>1 DEF OfKind, Lists
  <2>2. \A d \in OfKind(ent, {"sdr"}) : d \in OfKind(g, {"sdr"}) /\ g[d] = ent[d]
    <3> SUFFICES ASSUME NEW d \in OfKind(ent, {"sdr"}) PROVE d \in OfKind(g, {"sdr"}) /\ g[d] = ent[d]
      OBVIOUS
    <3>1. d \in DOMAIN ent /\ ent[d].kind = "sdr"
      BY DEF OfKind
    <3>2. d \in DOMAIN g /\ g[d] = ent[d]
      BY <1>5, <1>10, <1>11, <3>1 DEF Lists
    <3> QED
      BY <3>1, <3>2 DEF OfKind
  <2>3. UseIsWhole(u)
    BY <1>7, <2>1
  <2> QED
    BY <1>4, <2>1, <2>2, <2>3 DEF UseIsWhole
<1>19. Finished'
  BY <1>4, <1>14, <1>16, <1>17, <1>18 DEF Finished, MayBeUnused
<1>20. Running'
  BY <1>1, <1>4, <1>19 DEF Running
<1> QED
  BY <1>12, <1>20 DEF SolidInv

-----------------------------------------------------------------------------
(* The invariant holds, and what follows from it.                          *)

\* The invariant holds when a pass begins.
LEMMA SolidInvHolds == ASSUME InstancingAssumption, Init PROVE SolidInv
<1>1. /\ mode \in DOMAIN Files /\ ent \in Files[mode] /\ start = ent /\ step = "start" /\ work = Clean
      /\ round = 1
  BY DEF Init
<1>2. Whole(ent)
  BY <1>1, FileIsWhole
<1>3. TypeOK
  BY <1>1, <1>2, CleanWork DEF TypeOK
<1>4. Running
  BY <1>1 DEF Running
<1> QED
  BY <1>3, <1>4 DEF SolidInv

\* Every step keeps the invariant.
LEMMA SolidInvStays ==
    ASSUME InstancingAssumption, NoAuxiliary, SolidInv, [Next]_vars
    PROVE  SolidInv'
<1>1. CASE UNCHANGED vars
  <2>1. TypeOK'
    BY <1>1 DEF TypeOK, SolidInv, vars
  <2>2. CASE Quiet
    BY <1>1, <2>1, <2>2 DEF SolidInv, Quiet, vars
  <2>3. CASE Running
    <3> USE <1>1 DEF vars
    <3>1. Emitting => Emitting'
      BY DEF Emitting, Grown, Collected, Targets, NewStyles, MayBeUnused, Seeds
    <3>2. Relisted => Relisted'
      BY DEF Relisted, Grown, Collected, MayBeUnused, Seeds
    <3>3. (SettledSoFar => SettledSoFar') /\ (Remaining => Remaining') /\ (TodoReps => TodoReps')
      BY DEF SettledSoFar, Remaining, TodoReps
    <3>4. (Converting => Converting') /\ (Building => Building')
      BY DEF Converting, Building, Instances, MayBeUnused, UseIsWhole
    <3>5. Finished => Finished'
      BY DEF Finished, MayBeUnused, UseIsWhole
    <3> QED
      BY <2>1, <2>3, <3>1, <3>2, <3>3, <3>4, <3>5 DEF Running, SolidInv
  <2> QED
    BY <2>2, <2>3 DEF SolidInv
<1>2. CASE Next
  <2>1. CASE Start
    BY <2>1, StartKeeps
  <2>2. CASE NothingToDo
    BY <2>2, NothingToDoKeeps
  <2>3. CASE NextRepresentation
    BY <2>3, NextRepresentationKeeps
  <2>4. CASE EmitFamily
    BY <2>4, EmitFamilyKeeps
  <2>5. CASE EndRepresentation
    BY <2>5, EndRepresentationKeeps
  <2>6. CASE NoFamilies
    BY <2>6, NoFamiliesKeeps
  <2>7. CASE Retarget
    BY <2>7, RetargetKeeps
  <2>8. CASE PatchLists
    BY <2>8, PatchListsKeeps
  <2>9. CASE Collect
    BY <2>9, CollectKeeps
  <2>10. CASE RollBack
    BY <2>10, RollBackKeeps
  <2>11. CASE Plan
    BY <2>11, PlanKeeps
  <2>12. CASE EmitTop
    BY <2>12, EmitTopKeeps
  <2>13. CASE FinishAssembly
    BY <2>13, FinishAssemblyKeeps
  <2>14. CASE RunAgain
    BY <2>14, RunAgainKeeps
  <2> QED
    BY <1>2, <2>1, <2>2, <2>3, <2>4, <2>5, <2>6, <2>7, <2>8, <2>9, <2>10, <2>11, <2>12, <2>13,
       <2>14 DEF Next
<1> QED
  BY <1>1, <1>2

\* What the invariant says of the output.
LEMMA SolidInvIsWhole ==
    ASSUME SolidInv
    PROVE  NothingDanglesOrIsLeft /\ AssemblyIsWholeOrNothing
<1>1. TypeOK /\ Whole(ent)
  BY DEF SolidInv, TypeOK
<1>2. NothingDangles
  BY <1>1, WholeReferences DEF NothingDangles
<1>3. step = "done" => \A n \in DOMAIN ent : Parents(ent, n) = {} => MayBeUnused(ent, n)
  <2> SUFFICES ASSUME step = "done", NEW n \in DOMAIN ent, Parents(ent, n) = {}
               PROVE  MayBeUnused(ent, n)
    OBVIOUS
  <2>1. CASE Quiet \/ ent = start
    BY <2>1 DEF Quiet, MayBeUnused
  <2>2. CASE Running
    BY <2>1, <2>2 DEF Running, Finished
  <2> QED
    BY <2>1, <2>2 DEF SolidInv
<1>4. NothingDanglesOrIsLeft
  BY <1>2, <1>3 DEF NothingDanglesOrIsLeft, MayBeUnused
<1>5. AssemblyIsWholeOrNothing
  BY DEF SolidInv, Quiet, Running, Finished, AssemblyIsWholeOrNothing, UseIsWhole
<1> QED
  BY <1>4, <1>5

\* A second run of the first pass finds nothing to do.
LEMMA SolidInvRunsOnce == ASSUME SolidInv, mode = "mapped" PROVE SecondRunChangesNothing
BY DEF SolidInv, Quiet, Running, SecondRunChangesNothing

\* A section stays whole through both passes: every reference leads to what its attribute
\* admits, and only solids of the file are taken for duplicates (instance_z90_solids,
\* instance_z90_solids_assembly).
THEOREM SectionsStayWhole ==
    ASSUME InstancingAssumption, NoAuxiliary PROVE Spec => []TypeOK
<1>1. Init => SolidInv
  BY SolidInvHolds
<1>2. SolidInv /\ [Next]_vars => SolidInv'
  BY SolidInvStays
<1>3. SolidInv => TypeOK
  BY DEF SolidInv
<1> QED
  BY <1>1, <1>2, <1>3, PTL DEF Spec

\* When a pass has ended no entity refers to one that is gone, and nothing is left over
\* without a user (the guarded collection, the deletion at the end of the conversion).
THEOREM SectionsHaveNoRests ==
    ASSUME InstancingAssumption, NoAuxiliary PROVE Spec => []NothingDanglesOrIsLeft
<1>1. Init => SolidInv
  BY SolidInvHolds
<1>2. SolidInv /\ [Next]_vars => SolidInv'
  BY SolidInvStays
<1>3. SolidInv => NothingDanglesOrIsLeft
  BY SolidInvIsWhole
<1> QED
  BY <1>1, <1>2, <1>3, PTL DEF Spec

\* The assembly pass leaves the file as it was, or an assembly without a mapped item in which
\* every occurrence names products with the shapes that it relates
\* (convert_z90_mapped_items_to_assembly).
THEOREM AssembliesAreComplete ==
    ASSUME InstancingAssumption, NoAuxiliary PROVE Spec => []AssemblyIsWholeOrNothing
<1>1. Init => SolidInv
  BY SolidInvHolds
<1>2. SolidInv /\ [Next]_vars => SolidInv'
  BY SolidInvStays
<1>3. SolidInv => AssemblyIsWholeOrNothing
  BY SolidInvIsWhole
<1> QED
  BY <1>1, <1>2, <1>3, PTL DEF Spec

\* The pass to mapped items, run over its own output, changes nothing.
THEOREM MappedOutputsAreFixedPoints ==
    ASSUME InstancingAssumption, NoAuxiliary
    PROVE  Spec => [](mode = "mapped" => SecondRunChangesNothing)
<1>1. Init => SolidInv
  BY SolidInvHolds
<1>2. SolidInv /\ [Next]_vars => SolidInv'
  BY SolidInvStays
<1>3. SolidInv => (mode = "mapped" => SecondRunChangesNothing)
  BY SolidInvRunsOnce
<1> QED
  BY <1>1, <1>2, <1>3, PTL DEF Spec
=============================================================================
