------------------------ MODULE ListWorkflowsProofs ------------------------
(***************************************************************************)
(* Proofs about list_workflows, for any apps, instances, limits, numbers   *)
(* of calls and of changes, and whatever sidecars do.                      *)
(*                                                                         *)
(* What joins the engines to the answer is CoverOK: an instance that stays *)
(* is, for the goroutine of its app, still to be fetched, fetched, counted *)
(* as skipped or behind the token.  The page gives it (PageIs), the        *)
(* fetches keep it, and the merge turns it into what the answer shows,     *)
(* because joining the listings keeps every element and adds none          *)
(* (FlattenGathers) and because the targets' labels differ (TargetsAre).   *)
(***************************************************************************)
EXTENDS ListWorkflows, FiniteSetTheorems, TLAPS

-----------------------------------------------------------------------------
(* Sorted lists of numbers.                                                *)

\* The least number with a property of numbers.
LEMMA LeastOf ==
  ASSUME NEW T \in SUBSET Nat, T # {}
  PROVE  \E x \in T : \A y \in T : x <= y
<1> DEFINE R == {ss \in Nat \X Nat : ss[1] < ss[2]}
<1>1. IsWellFoundedOn(R, Nat)
  BY NatLessThanWellFounded DEF OpToRel
<1>2. \E x \in T : \A y \in T : <<y, x>> \notin R
  <2> HIDE DEF R
  <2> QED
    BY <1>1, WFMin
<1>3. PICK x \in T : \A y \in T : <<y, x>> \notin R
  BY <1>2
<1>4. \A y \in T : ~(y < x)
  BY <1>3
<1> QED
  BY <1>3, <1>4

Distinct(g) == \A k, l \in DOMAIN g : g[k] = g[l] => k = l

\* s lists the elements of S, each once.
Lists(s, S) ==
  /\ s \in Seq(S)
  /\ Len(s) = Cardinality(S)
  /\ Distinct(s)
  /\ \A a \in S : \E n \in DOMAIN s : s[n] = a

\* The number of elements up to and including a.
Place(S, a) == Cardinality({b \in S : b <= a})

LEMMA PlaceInjective ==
  ASSUME NEW S \in SUBSET Nat, IsFiniteSet(S), NEW a \in S, NEW b \in S, a < b
  PROVE  Place(S, a) # Place(S, b)
<1> DEFINE A == {c \in S : c <= a}
           B == {c \in S : c <= b}
<1>1. A \in SUBSET B /\ b \in B /\ b \notin A
  <2>1. a \in Nat /\ b \in Nat /\ \A c \in S : c \in Nat
    OBVIOUS
  <2>2. \A c \in S : c <= a => c <= b
    BY <2>1
  <2>3. ~(b <= a) /\ b <= b
    BY <2>1
  <2>4. A \in SUBSET B
    BY <2>2
  <2>5. b \in B /\ b \notin A
    BY <2>3
  <2> QED
    BY <2>4, <2>5
<1>2. IsFiniteSet(B)
  BY FS_Subset
<1>3. Place(S, a) = Cardinality(A) /\ Place(S, b) = Cardinality(B)
  BY DEF Place
<1> HIDE DEF A, B
<1>4. Cardinality(A) = Cardinality(B) => A = B
  BY <1>1, <1>2, FS_Subset
<1> QED
  BY <1>1, <1>3, <1>4

LEMMA PlaceInRange ==
  ASSUME NEW S \in SUBSET Nat, IsFiniteSet(S), NEW a \in S
  PROVE  Place(S, a) \in 1 .. Cardinality(S)
<1> DEFINE A == {c \in S : c <= a}
<1>1. A \in SUBSET S /\ a \in A
  OBVIOUS
<1>2. Place(S, a) = Cardinality(A)
  BY DEF Place
<1> HIDE DEF A
<1>3. IsFiniteSet(A) /\ Cardinality(A) <= Cardinality(S)
  BY <1>1, FS_Subset
<1>4. Cardinality(A) # 0
  BY <1>1, <1>3, FS_EmptySet
<1>5. Cardinality(A) \in Nat /\ Cardinality(S) \in Nat
  BY <1>3, FS_CardinalityType
<1> QED
  BY <1>2, <1>3, <1>4, <1>5

LEMMA PlaceOnto ==
  ASSUME NEW S \in SUBSET Nat, IsFiniteSet(S)
  PROVE  \A n \in 1 .. Cardinality(S) : \E a \in S : Place(S, a) = n
<1> DEFINE N == Cardinality(S)
           f == [a \in S |-> Place(S, a)]
<1>1. N \in Nat
  BY FS_CardinalityType
<1>2. f \in [S -> 1 .. N]
  BY PlaceInRange
<1>3. \A a, b \in S : f[a] = f[b] => a = b
  <2> SUFFICES ASSUME NEW a \in S, NEW b \in S, a # b PROVE Place(S, a) # Place(S, b)
    OBVIOUS
  <2>1. CASE a < b
    BY <2>1, PlaceInjective
  <2>2. CASE b < a
    BY <2>2, PlaceInjective
  <2> QED
    BY <2>1, <2>2
<1>4. IsFiniteSet(1 .. N) /\ Cardinality(1 .. N) = N
  BY <1>1, FS_Interval
<1>5. f \in Surjection(S, 1 .. N)
  <2> HIDE DEF f
  <2>1. f \in Injection(S, 1 .. N)
    BY <1>2, <1>3 DEF Injection, IsInjective
  <2> QED
    BY <2>1, <1>4, FS_Injection
<1> QED
  BY <1>5 DEF Surjection

LEMMA SortedIs ==
  ASSUME NEW S \in SUBSET Nat, IsFiniteSet(S)
  PROVE  Lists(Sorted(S), S)
<1> DEFINE N == Cardinality(S)
           s == Sorted(S)
<1>1. N \in Nat
  BY FS_CardinalityType
<1>2. s = [n \in 1 .. N |-> CHOOSE a \in S : Place(S, a) = n]
  BY DEF Sorted, Place
<1>3. \A n \in 1 .. N : s[n] \in S /\ Place(S, s[n]) = n
  BY <1>2, PlaceOnto
<1>4. ASSUME NEW a \in S PROVE \E n \in 1 .. N : s[n] = a
  <2>1. Place(S, a) \in 1 .. N
    BY PlaceInRange
  <2>2. s[Place(S, a)] \in S /\ Place(S, s[Place(S, a)]) = Place(S, a)
    BY <1>3, <2>1
  <2>3. ~(s[Place(S, a)] < a) /\ ~(a < s[Place(S, a)])
    BY <2>2, PlaceInjective
  <2>4. s[Place(S, a)] \in Nat /\ a \in Nat
    BY <2>2
  <2>5. s[Place(S, a)] = a
    <3> HIDE DEF s
    <3> QED
      BY <2>3, <2>4
  <2> QED
    BY <2>1, <2>5
<1> HIDE DEF s
<1>5. s \in [1 .. N -> S]
  BY <1>2, <1>3
<1>6. s \in Seq(S) /\ Len(s) = N /\ DOMAIN s = 1 .. N
  BY <1>1, <1>5
<1>7. Distinct(s)
  BY <1>3, <1>6 DEF Distinct
<1> QED
  BY <1>4, <1>6, <1>7 DEF Lists, s

LEMMA PlaceMonotone ==
  ASSUME NEW S \in SUBSET Nat, IsFiniteSet(S), NEW a \in S, NEW b \in S, a <= b
  PROVE  Place(S, a) <= Place(S, b)
<1> DEFINE A == {c \in S : c <= a}
           B == {c \in S : c <= b}
<1>1. A \in SUBSET B
  <2>1. a \in Nat /\ b \in Nat /\ \A c \in S : c \in Nat
    OBVIOUS
  <2>2. \A c \in S : c <= a => c <= b
    BY <2>1
  <2> QED
    BY <2>2
<1>2. IsFiniteSet(B)
  BY FS_Subset
<1>3. Place(S, a) = Cardinality(A) /\ Place(S, b) = Cardinality(B)
  BY DEF Place
<1> HIDE DEF A, B
<1> QED
  BY <1>1, <1>2, <1>3, FS_Subset

\* The least element comes first.
LEMMA PlaceOfLeast ==
  ASSUME NEW S \in SUBSET Nat, NEW a \in S, \A b \in S : a <= b
  PROVE  Place(S, a) = 1
<1>1. {b \in S : b <= a} = {a}
  <2>1. a \in Nat /\ \A b \in S : b \in Nat
    OBVIOUS
  <2>2. \A b \in S : b <= a <=> b = a
    BY <2>1
  <2> QED
    BY <2>2
<1> QED
  BY <1>1, FS_Singleton DEF Place

\* A sequence of elements of a subset.
LEMMA SeqOfSubset ==
  ASSUME NEW T, NEW U, T \subseteq U, NEW s \in Seq(T)
  PROVE  s \in Seq(U) /\ \A n \in DOMAIN s : s[n] \in T
OBVIOUS

LEMMA Reversed ==
  ASSUME NEW x \in Nat, NEW y \in Nat, x >= y
  PROVE  y <= x
OBVIOUS

LEMMA GreatestOf ==
  ASSUME NEW N \in Nat, NEW T \in SUBSET (1 .. N), T # {}
  PROVE  Max(T) \in T /\ \A y \in T : y <= Max(T)
<1> DEFINE D == {N - x : x \in T}
<1>1. D \in SUBSET Nat /\ D # {}
  <2>1. \A x \in T : N - x \in Nat
    OBVIOUS
  <2> QED
    BY <2>1
<1>2. PICK d \in D : \A y \in D : d <= y
  <2> HIDE DEF D
  <2> QED
    BY <1>1, LeastOf
<1>3. PICK x \in T : d = N - x
  BY <1>2
<1>4. \A y \in T : N - x <= N - y
  BY <1>2, <1>3
<1>5. \A y \in T : x >= y
  <2> SUFFICES ASSUME NEW y \in T PROVE x >= y
    OBVIOUS
  <2>1. x \in Nat /\ y \in Nat /\ N - x <= N - y
    BY <1>4
  <2> HIDE DEF D
  <2> QED
    BY <2>1
<1> HIDE DEF D
<1>6. Max(T) \in T /\ \A y \in T : Max(T) >= y
  BY <1>5 DEF Max
<1>7. \A m \in T : (\A y \in T : m >= y) => \A y \in T : y <= m
  <2> SUFFICES ASSUME NEW m \in T, NEW y \in T, m >= y PROVE y <= m
    OBVIOUS
  <2>1. m \in Nat /\ y \in Nat
    OBVIOUS
  <2> QED
    BY <2>1, Reversed
<1> QED
  BY <1>6, <1>7

-----------------------------------------------------------------------------
(* The page.                                                               *)

\* A page shows each instance above the token, or leaves it behind a token of
\* its own.
PageOK(page, app, token) ==
  /\ page.ids \in Seq(Instance)
  /\ Distinct(page.ids)
  /\ Len(page.ids) <= MaxInstance
  /\ page.token \in Instance \cup {NoToken}
  /\ \A n \in DOMAIN page.ids : page.ids[n] \in Alive(app)
  /\ \A id \in Alive(app) : id > token =>
       \/ \E n \in DOMAIN page.ids : page.ids[n] = id
       \/ page.token # NoToken /\ id > page.token

LEMMA InstancesFinite ==
  /\ Instance \in SUBSET Nat /\ IsFiniteSet(Instance)
  /\ Cardinality(Instance) = MaxInstance
<1>1. MaxInstance \in Nat
  BY ListAssumption
<1>2. IsFiniteSet(1 .. MaxInstance) /\ Cardinality(1 .. MaxInstance) = MaxInstance
  BY <1>1, FS_Interval
<1> QED
  BY <1>1, <1>2 DEF Instance

LEMMA PageIs ==
  ASSUME NEW app, NEW size \in Nat \ {0}, NEW token \in Nat
  PROVE  PageOK(Page(app, size, token), app, token)
<1> DEFINE rest == {id \in Alive(app) : id > token}
           page == {id \in rest : Cardinality({j \in rest : j <= id}) <= size}
           tok  == IF page = rest \/ page = {} THEN NoToken ELSE Max(page)
           P    == Page(app, size, token)
<1>1. P = [ids |-> Sorted(page), token |-> tok]
  BY DEF Page
<1>2. page = {id \in rest : Place(rest, id) <= size}
  BY DEF Place
<1>3. rest \in SUBSET Instance /\ rest \in SUBSET Alive(app)
  BY DEF Alive
<1>4. \A id \in Alive(app) : id > token <=> id \in rest
  OBVIOUS
<1> HIDE DEF page, rest, P
<1>5. /\ rest \in SUBSET Nat /\ IsFiniteSet(rest)
      /\ page \in SUBSET rest /\ page \in SUBSET Nat
      /\ IsFiniteSet(page) /\ Cardinality(page) <= MaxInstance
      /\ page \in SUBSET Instance
  BY <1>2, <1>3, InstancesFinite, FS_Subset
<1>6. page = {} => rest = {}
  <2> SUFFICES ASSUME rest # {} PROVE page # {}
    OBVIOUS
  <2>1. PICK a \in rest : \A b \in rest : a <= b
    BY <1>5, LeastOf
  <2>2. Place(rest, a) = 1
    BY <1>5, <2>1, PlaceOfLeast
  <2> QED
    BY <1>2, <2>1, <2>2
<1>7. ASSUME page # rest, NEW id \in rest, id \notin page
      PROVE  tok \in page /\ tok # NoToken /\ id > tok
  <2>1. page # {} /\ tok = Max(page)
    BY <1>6, <1>7
  <2>2. MaxInstance \in Nat /\ page \in SUBSET (1 .. MaxInstance)
    BY <1>5, ListAssumption DEF Instance
  <2>3. tok \in page
    BY <2>1, <2>2, GreatestOf
  <2>4. Place(rest, tok) <= size /\ ~(Place(rest, id) <= size)
    BY <1>2, <1>7, <2>3
  <2> HIDE DEF tok
  <2>5. ASSUME id <= tok PROVE FALSE
    <3>1. Place(rest, id) <= Place(rest, tok)
      BY <1>5, <1>7, <2>3, <2>5, PlaceMonotone
    <3>2. Place(rest, id) \in Nat /\ Place(rest, tok) \in Nat
      <4>1. Place(rest, id) \in 1 .. Cardinality(rest)
        BY <1>5, <1>7, PlaceInRange
      <4>2. Place(rest, tok) \in 1 .. Cardinality(rest)
        BY <1>5, <2>3, PlaceInRange
      <4>3. Cardinality(rest) \in Nat
        BY <1>5, FS_CardinalityType
      <4> QED
        BY <4>1, <4>2, <4>3
    <3> QED
      BY <2>4, <3>1, <3>2
  <2>6. id \in Nat /\ tok \in 1 .. MaxInstance
    BY <1>5, <2>2, <2>3
  <2> QED
    BY <2>2, <2>3, <2>5, <2>6 DEF NoToken
<1>8. tok \in Instance \cup {NoToken}
  <2>1. CASE page = rest \/ page = {}
    BY <2>1
  <2>2. CASE ~(page = rest \/ page = {})
    <3>1. MaxInstance \in Nat /\ page \in SUBSET (1 .. MaxInstance)
      BY <1>5, ListAssumption DEF Instance
    <3>2. Max(page) \in page
      BY <2>2, <3>1, GreatestOf
    <3> QED
      BY <1>5, <2>2, <3>2
  <2> QED
    BY <2>1, <2>2
<1>9. /\ Sorted(page) \in Seq(page) /\ Len(Sorted(page)) = Cardinality(page)
      /\ Distinct(Sorted(page))
      /\ \A a \in page : \E n \in DOMAIN Sorted(page) : Sorted(page)[n] = a
  <2>1. Lists(Sorted(page), page)
    BY <1>5, SortedIs
  <2> QED
    BY <2>1 DEF Lists
<1> HIDE DEF tok
<1> DEFINE s == Sorted(page)
<1>10. s \in Seq(Instance) /\ \A n \in DOMAIN s : s[n] \in page
  BY <1>5, <1>9, SeqOfSubset
<1>11. P.ids = s /\ P.token = tok
  BY <1>1
<1> HIDE DEF s
<1>12. \A n \in DOMAIN s : s[n] \in Alive(app)
  BY <1>3, <1>5, <1>10
<1>13. ASSUME NEW id \in Alive(app), id > token
       PROVE  \/ \E n \in DOMAIN s : s[n] = id
              \/ tok # NoToken /\ id > tok
  <2>1. id \in rest
    BY <1>4, <1>13
  <2>2. CASE id \in page
    BY <1>9, <2>2 DEF s
  <2>3. CASE id \notin page
    BY <1>7, <2>1, <2>3
  <2> QED
    BY <2>2, <2>3
<1>14. Len(s) <= MaxInstance /\ Distinct(s)
  BY <1>5, <1>9 DEF s
<1>15. PageOK(P, app, token)
  BY <1>8, <1>10, <1>11, <1>12, <1>13, <1>14 DEF PageOK
<1> QED
  BY <1>15 DEF P

-----------------------------------------------------------------------------
(* The concatenation of listings.                                          *)

\* The concatenation of the first n sequences, step by step.
Flattens(f, seqs, n) ==
  f = [i \in 1 .. n |-> IF i = 1 THEN seqs[i] ELSE f[i - 1] \o seqs[i]]

\* The recursion of FlattenSeq has a solution, for any number of sequences.
LEMMA FlattensExists ==
  ASSUME NEW seqs, NEW N \in Nat
  PROVE  \E f : Flattens(f, seqs, N)
<1> DEFINE T == {n \in Nat : ~(\E f : Flattens(f, seqs, n))}
<1>1. CASE T = {}
  BY <1>1
<1>2. CASE T # {}
  <2>1. PICK n \in T : \A y \in T : n <= y
    <3>1. T \in SUBSET Nat
      OBVIOUS
    <3> HIDE DEF T
    <3> QED
      BY <1>2, <3>1, LeastOf
  <2>2. CASE n = 0
    <3> DEFINE f == [i \in 1 .. 0 |-> 0]
    <3>1. Flattens(f, seqs, 0)
      <4>1. \A i \in 1 .. 0 : FALSE
        OBVIOUS
      <4>2. f = [i \in 1 .. 0 |-> IF i = 1 THEN seqs[i] ELSE f[i - 1] \o seqs[i]]
        BY <4>1
      <4> QED
        BY <4>2 DEF Flattens
    <3> QED
      BY <2>1, <2>2, <3>1
  <2>3. CASE n # 0
    <3>1. n - 1 \in Nat /\ n - 1 \notin T
      BY <2>1, <2>3
    <3>2. PICK g : Flattens(g, seqs, n - 1)
      BY <3>1
    <3> DEFINE f == [i \in 1 .. n |->
                      IF i < n THEN g[i] ELSE IF i = 1 THEN seqs[i] ELSE g[i - 1] \o seqs[i]]
    <3>3. \A i \in 1 .. n - 1 : g[i] = IF i = 1 THEN seqs[i] ELSE g[i - 1] \o seqs[i]
      BY <3>2 DEF Flattens
    <3>4. \A i \in 1 .. n : f[i] = IF i = 1 THEN seqs[i] ELSE f[i - 1] \o seqs[i]
      BY <3>3, <3>1
    <3>5. Flattens(f, seqs, n)
      BY <3>4 DEF Flattens
    <3> QED
      BY <2>1, <3>5
  <2> QED
    BY <2>2, <2>3
<1> QED
  BY <1>1, <1>2

LEMMA FlattenIs ==
  ASSUME NEW seqs, Len(seqs) \in Nat \ {0}
  PROVE  \E f : Flattens(f, seqs, Len(seqs)) /\ FlattenSeq(seqs) = f[Len(seqs)]
<1> DEFINE F == CHOOSE f : f = [i \in 1 .. Len(seqs) |->
                             IF i = 1 THEN seqs[i] ELSE f[i - 1] \o seqs[i]]
<1>1. FlattenSeq(seqs) = F[Len(seqs)]
  BY DEF FlattenSeq
<1>2. Flattens(F, seqs, Len(seqs))
  BY FlattensExists DEF Flattens
<1> QED
  BY <1>1, <1>2

\* h has the elements of s, then those of t.
Joins(h, s, t) ==
  /\ \A k \in DOMAIN h :
       \/ k \in DOMAIN s /\ h[k] = s[k]
       \/ k - Len(s) \in DOMAIN t /\ h[k] = t[k - Len(s)]
  /\ \A k \in DOMAIN s : k \in DOMAIN h /\ h[k] = s[k]
  /\ \A k \in DOMAIN t : Len(s) + k \in DOMAIN h /\ h[Len(s) + k] = t[k]

\* The elements of a concatenation.
LEMMA ConcatElements ==
  ASSUME NEW T, NEW s \in Seq(T), NEW t \in Seq(T)
  PROVE  s \o t \in Seq(T) /\ Joins(s \o t, s, t)
<1>1. s \o t \in Seq(T)
  OBVIOUS
<1>2. ASSUME NEW k \in DOMAIN (s \o t)
      PROVE  \/ k \in DOMAIN s /\ (s \o t)[k] = s[k]
             \/ k - Len(s) \in DOMAIN t /\ (s \o t)[k] = t[k - Len(s)]
  <2>1. CASE k <= Len(s)
    BY <1>2, <2>1
  <2>2. CASE k > Len(s)
    BY <1>2, <2>2
  <2> QED
    BY <2>1, <2>2
<1>3. ASSUME NEW k \in DOMAIN s PROVE k \in DOMAIN (s \o t) /\ (s \o t)[k] = s[k]
  BY <1>3
<1>4. ASSUME NEW k \in DOMAIN t
      PROVE  Len(s) + k \in DOMAIN (s \o t) /\ (s \o t)[Len(s) + k] = t[k]
  BY <1>4
<1> QED
  BY <1>1, <1>2, <1>3, <1>4 DEF Joins

\* g has the elements of the first n sequences and no others.
Gathers(g, seqs, n) ==
  /\ \A k \in DOMAIN g : \E i \in 1 .. n : \E m \in DOMAIN seqs[i] : g[k] = seqs[i][m]
  /\ \A i \in 1 .. n : \A m \in DOMAIN seqs[i] : \E k \in DOMAIN g : g[k] = seqs[i][m]

\* No element occurs twice in the sequences, nor in g.
NoRepeats(seqs, n) ==
  \A i, j \in 1 .. n : \A m \in DOMAIN seqs[i], p \in DOMAIN seqs[j] :
    seqs[i][m] = seqs[j][p] => i = j /\ m = p

\* One more sequence.
LEMMA GathersMore ==
  ASSUME NEW T, NEW N \in Nat, NEW seqs \in [1 .. N -> Seq(T)], NoRepeats(seqs, N),
         NEW n \in Nat, n + 1 \in 1 .. N,
         NEW g \in Seq(T), Gathers(g, seqs, n), Distinct(g)
  PROVE  /\ Gathers(g \o seqs[n + 1], seqs, n + 1)
         /\ Distinct(g \o seqs[n + 1])
<1> DEFINE t == seqs[n + 1]
           h == g \o t
<1>1. t \in Seq(T)
  OBVIOUS
<1> HIDE DEF t
<1>2. /\ \A k \in DOMAIN h :
           \/ k \in DOMAIN g /\ h[k] = g[k]
           \/ k - Len(g) \in DOMAIN t /\ h[k] = t[k - Len(g)]
      /\ \A k \in DOMAIN g : k \in DOMAIN h /\ h[k] = g[k]
      /\ \A k \in DOMAIN t : Len(g) + k \in DOMAIN h /\ h[Len(g) + k] = t[k]
  <2>1. Joins(h, g, t)
    BY <1>1, ConcatElements
  <2> QED
    BY <2>1 DEF Joins
<1>3. DOMAIN h \subseteq Nat /\ Len(g) \in Nat
  BY <1>1
<1> HIDE DEF h
<1>4. ASSUME NEW k \in DOMAIN h
      PROVE  \E i \in 1 .. n + 1 : \E m \in DOMAIN seqs[i] : h[k] = seqs[i][m]
  <2>1. CASE k \in DOMAIN g /\ h[k] = g[k]
    <3>1. PICK i \in 1 .. n : \E m \in DOMAIN seqs[i] : g[k] = seqs[i][m]
      BY <2>1 DEF Gathers
    <3>2. PICK m \in DOMAIN seqs[i] : g[k] = seqs[i][m]
      BY <3>1
    <3>3. i \in 1 .. n + 1
      OBVIOUS
    <3> QED
      BY <2>1, <3>2, <3>3
  <2>2. CASE k - Len(g) \in DOMAIN t /\ h[k] = t[k - Len(g)]
    <3>1. n + 1 \in 1 .. n + 1
      OBVIOUS
    <3> QED
      BY <2>2, <3>1 DEF t
  <2> QED
    BY <1>2, <2>1, <2>2
<1>5. ASSUME NEW i \in 1 .. n + 1, NEW m \in DOMAIN seqs[i]
      PROVE  \E k \in DOMAIN h : h[k] = seqs[i][m]
  <2>1. CASE i \in 1 .. n
    <3>1. PICK k \in DOMAIN g : g[k] = seqs[i][m]
      BY <1>5, <2>1 DEF Gathers
    <3> QED
      BY <1>2, <3>1
  <2>2. CASE i = n + 1
    <3>1. m \in DOMAIN t /\ seqs[i][m] = t[m]
      BY <1>5, <2>2 DEF t
    <3> QED
      BY <1>2, <3>1
  <2> QED
    BY <2>1, <2>2
<1>6. ASSUME NEW k \in DOMAIN g, NEW m \in DOMAIN t PROVE g[k] # t[m]
  <2>1. PICK i \in 1 .. n : \E p \in DOMAIN seqs[i] : g[k] = seqs[i][p]
    BY <1>6 DEF Gathers
  <2>2. PICK p \in DOMAIN seqs[i] : g[k] = seqs[i][p]
    BY <2>1
  <2>3. i # n + 1 /\ i \in 1 .. N
    BY <2>1
  <2>4. m \in DOMAIN seqs[n + 1] /\ t[m] = seqs[n + 1][m]
    BY <1>6 DEF t
  <2> QED
    BY <2>2, <2>3, <2>4 DEF NoRepeats
<1>7. ASSUME NEW m \in DOMAIN t, NEW p \in DOMAIN t, t[m] = t[p] PROVE m = p
  BY <1>7 DEF NoRepeats, t
<1>8. ASSUME NEW k \in DOMAIN h, NEW l \in DOMAIN h, h[k] = h[l] PROVE k = l
  <2>1. CASE k \in DOMAIN g /\ h[k] = g[k]
    <3>1. CASE l \in DOMAIN g /\ h[l] = g[l]
      BY <1>8, <2>1, <3>1 DEF Distinct
    <3>2. CASE l - Len(g) \in DOMAIN t /\ h[l] = t[l - Len(g)]
      BY <1>6, <1>8, <2>1, <3>2
    <3> QED
      BY <1>2, <3>1, <3>2
  <2>2. CASE k - Len(g) \in DOMAIN t /\ h[k] = t[k - Len(g)]
    <3>1. CASE l \in DOMAIN g /\ h[l] = g[l]
      BY <1>6, <1>8, <2>2, <3>1
    <3>2. CASE l - Len(g) \in DOMAIN t /\ h[l] = t[l - Len(g)]
      <4>1. k - Len(g) = l - Len(g)
        BY <1>7, <1>8, <2>2, <3>2
      <4> QED
        BY <1>3, <4>1
    <3> QED
      BY <1>2, <3>1, <3>2
  <2> QED
    BY <1>2, <2>1, <2>2
<1> QED
  BY <1>4, <1>5, <1>8 DEF Gathers, Distinct, h, t

\* FlattenSeq keeps every element and adds none.
LEMMA FlattenGathers ==
  ASSUME NEW T, NEW N \in Nat \ {0}, NEW seqs \in [1 .. N -> Seq(T)], NoRepeats(seqs, N)
  PROVE  /\ FlattenSeq(seqs) \in Seq(T)
         /\ Gathers(FlattenSeq(seqs), seqs, N)
         /\ Distinct(FlattenSeq(seqs))
<1>1. Len(seqs) = N
  OBVIOUS
<1>2. PICK f : Flattens(f, seqs, N) /\ FlattenSeq(seqs) = f[N]
  BY <1>1, FlattenIs
<1>3. \A i \in 1 .. N : f[i] = IF i = 1 THEN seqs[i] ELSE f[i - 1] \o seqs[i]
  BY <1>2 DEF Flattens
<1> DEFINE good(n) == f[n] \in Seq(T) /\ Gathers(f[n], seqs, n) /\ Distinct(f[n])
           bad     == {n \in 1 .. N : ~good(n)}
<1>4. good(1)
  <2>1. f[1] = seqs[1] /\ seqs[1] \in Seq(T) /\ 1 \in 1 .. N
    BY <1>3
  <2>2. Gathers(seqs[1], seqs, 1)
    BY DEF Gathers
  <2>3. Distinct(seqs[1])
    BY <2>1 DEF Distinct, NoRepeats
  <2> QED
    BY <2>1, <2>2, <2>3
<1>5. ASSUME NEW n \in Nat, n + 1 \in 1 .. N, n # 0, good(n) PROVE good(n + 1)
  <2>1. f[n + 1] = f[n] \o seqs[n + 1]
    <3>1. n + 1 # 1 /\ (n + 1) - 1 = n
      BY <1>5
    <3> HIDE DEF good
    <3> QED
      BY <1>3, <1>5, <3>1
  <2>2. seqs[n + 1] \in Seq(T)
    BY <1>5
  <2>3. f[n] \o seqs[n + 1] \in Seq(T)
    BY <1>5, <2>2, ConcatElements
  <2> QED
    BY <1>5, <2>1, <2>3, GathersMore
<1>6. bad = {}
  <2> SUFFICES ASSUME bad # {} PROVE FALSE
    OBVIOUS
  <2>1. PICK n \in bad : \A y \in bad : n <= y
    <3>1. bad \in SUBSET Nat
      OBVIOUS
    <3> HIDE DEF bad
    <3> QED
      BY <3>1, LeastOf
  <2> HIDE DEF good
  <2>2. n \in 1 .. N /\ ~good(n)
    BY <2>1
  <2>3. n # 1
    BY <1>4, <2>2
  <2>4. n - 1 \in Nat /\ n - 1 # 0 /\ (n - 1) + 1 = n /\ n - 1 \in 1 .. N
    BY <2>2, <2>3
  <2>5. good(n - 1)
    BY <2>1, <2>4
  <2> QED
    BY <1>5, <2>2, <2>4, <2>5
<1>7. good(N)
  <2>1. N \in 1 .. N
    OBVIOUS
  <2> HIDE DEF good
  <2> QED
    BY <1>6, <2>1
<1> QED
  BY <1>2, <1>7

-----------------------------------------------------------------------------
(* The targets.                                                            *)

Target == [appID : Nat, client : App]

\* A registry that reaches every app at its own sidecar.
Registry(r) ==
  /\ r.defaultClient = Own /\ r.defaultAppID \in {Own, Fallback}
  /\ DOMAIN r.byAppID \in Pools
  /\ \A a \in DOMAIN r.byAppID : r.byAppID[a] = a

LEMMA AppsAre ==
  ASSUME NEW r, Registry(r)
  PROVE  /\ DOMAIN r.byAppID \in SUBSET App /\ DOMAIN r.byAppID \in SUBSET Nat
         /\ IsFiniteSet(DOMAIN r.byAppID)
         /\ Own \in App /\ App \subseteq Nat /\ Fallback \notin App
         /\ r.defaultAppID \in Nat
<1>1. DOMAIN r.byAppID \in SUBSET App
  BY ListAssumption DEF Registry
<1>2. IsFiniteSet(App) /\ App \subseteq Nat /\ Own \in App /\ Fallback \notin App
  BY ListAssumption
<1> QED
  BY <1>1, <1>2, FS_Subset, AppIDAssumption DEF Registry

LEMMA ClientIs ==
  ASSUME NEW r, Registry(r), NEW a
  PROVE  /\ ClientFor(r, a) \in Target
         /\ a \in DOMAIN r.byAppID => ClientFor(r, a) = [appID |-> a, client |-> a]
         /\ a \notin DOMAIN r.byAppID =>
              ClientFor(r, a) = [appID |-> r.defaultAppID, client |-> Own]
<1>1. CASE a \in DOMAIN r.byAppID
  <2>1. ClientFor(r, a) = [appID |-> a, client |-> a] /\ a \in App /\ a \in Nat
    BY <1>1, AppsAre DEF ClientFor, Registry
  <2> QED
    BY <1>1, <2>1 DEF Target
<1>2. CASE a \notin DOMAIN r.byAppID
  <2>1. ClientFor(r, a) = [appID |-> r.defaultAppID, client |-> Own]
    BY <1>2 DEF ClientFor, Registry
  <2> QED
    BY <1>2, <2>1, AppsAre DEF Target
<1> QED
  BY <1>1, <1>2

\* ts names the sidecars of C, each label once; when the server knows its own
\* app-id, the label is the app.
Reaches(ts, r, C) ==
  /\ ts \in Seq(Target)
  /\ Len(ts) \in Nat \ {0}
  /\ \A i, j \in DOMAIN ts : ts[i].appID = ts[j].appID => i = j
  /\ \A app \in C : \E i \in DOMAIN ts : ts[i].client = app
  /\ r.defaultAppID = Own => \A i \in DOMAIN ts : ts[i].client = ts[i].appID

LEMMA PoolTargetsAre ==
  ASSUME NEW r, Registry(r)
  PROVE  /\ PoolTargets(r) \in Seq(Target)
         /\ \A i \in DOMAIN PoolTargets(r) :
              /\ PoolTargets(r)[i].appID \in DOMAIN r.byAppID
              /\ PoolTargets(r)[i].client = PoolTargets(r)[i].appID
         /\ \A i, j \in DOMAIN PoolTargets(r) :
              PoolTargets(r)[i].appID = PoolTargets(r)[j].appID => i = j
         /\ \A a \in DOMAIN r.byAppID : \E i \in DOMAIN PoolTargets(r) : PoolTargets(r)[i].client = a
<1> DEFINE D == DOMAIN r.byAppID
           s == Sorted(D)
           p == PoolTargets(r)
<1>1. Lists(s, D)
  BY AppsAre, SortedIs
<1>2. p = [n \in DOMAIN s |-> ClientFor(r, s[n])]
  BY DEF PoolTargets
<1>3. \A a \in D : ClientFor(r, a) \in Target /\ ClientFor(r, a).appID = a /\ ClientFor(r, a).client = a
  BY ClientIs
<1>4. s \in Seq(D) /\ Distinct(s) /\ \A a \in D : \E n \in DOMAIN s : s[n] = a
  BY <1>1 DEF Lists
<1> HIDE DEF s, p, D
<1>5. \A n \in DOMAIN s : s[n] \in D
  BY <1>4
<1>6. DOMAIN p = DOMAIN s
  BY <1>2
<1>7. \A n \in DOMAIN s : p[n] \in Target /\ p[n].appID = s[n] /\ p[n].client = s[n]
  BY <1>2, <1>3, <1>5
<1>8. p \in Seq(Target)
  <2>1. DOMAIN s = 1 .. Len(s) /\ Len(s) \in Nat
    BY <1>4
  <2>2. p \in [1 .. Len(s) -> Target]
    BY <1>2, <1>7, <2>1
  <2> QED
    BY <2>1, <2>2
<1>9. \A i, j \in DOMAIN p : p[i].appID = p[j].appID => i = j
  BY <1>4, <1>6, <1>7 DEF Distinct
<1>10. \A a \in D : \E i \in DOMAIN p : p[i].client = a
  BY <1>4, <1>6, <1>7
<1> QED
  BY <1>5, <1>6, <1>7, <1>8, <1>9, <1>10 DEF p, D

\* One more in front.
LEMMA InFront ==
  ASSUME NEW T, NEW x \in T, NEW s \in Seq(T)
  PROVE  /\ <<x>> \o s \in Seq(T) /\ Len(<<x>> \o s) = Len(s) + 1
         /\ (<<x>> \o s)[1] = x /\ 1 \in DOMAIN (<<x>> \o s)
         /\ \A i \in DOMAIN s : i + 1 \in DOMAIN (<<x>> \o s) /\ (<<x>> \o s)[i + 1] = s[i]
         /\ \A i \in DOMAIN (<<x>> \o s) :
              \/ i = 1
              \/ i - 1 \in DOMAIN s /\ (<<x>> \o s)[i] = s[i - 1]
<1>1. <<x>> \in Seq(T) /\ Len(<<x>>) = 1
  OBVIOUS
<1> QED
  BY <1>1

LEMMA TargetsAre ==
  ASSUME NEW r, Registry(r), MultiApp(r)
  PROVE  Reaches(Targets(r), r, {r.defaultClient} \cup {r.byAppID[a] : a \in DOMAIN r.byAppID})
<1> DEFINE D == DOMAIN r.byAppID
           C == {r.defaultClient} \cup {r.byAppID[a] : a \in DOMAIN r.byAppID}
           p == PoolTargets(r)
           d == ClientFor(r, r.defaultAppID)
<1>1. /\ p \in Seq(Target)
      /\ \A i \in DOMAIN p : p[i].appID \in D /\ p[i].client = p[i].appID
      /\ \A i, j \in DOMAIN p : p[i].appID = p[j].appID => i = j
      /\ \A a \in D : \E i \in DOMAIN p : p[i].client = a
  BY PoolTargetsAre
<1>2. \A app \in C : app = Own \/ app \in D
  BY DEF Registry
<1>3. D # {}
  BY DEF MultiApp
<1>4. Targets(r) = IF r.defaultAppID \in D THEN p ELSE <<d>> \o p
  BY DEF Targets
<1>5. r.defaultAppID \in D => Own \in D
  BY AppsAre DEF Registry
<1>6. r.defaultAppID \notin D => d = [appID |-> r.defaultAppID, client |-> Own] /\ d \in Target
  BY ClientIs
<1> HIDE DEF D, C, p, d
<1>7. CASE r.defaultAppID \in D
  <2>1. Targets(r) = p
    BY <1>4, <1>7
  <2>2. \A app \in C : \E i \in DOMAIN p : p[i].client = app
    BY <1>1, <1>2, <1>5, <1>7
  <2>3. Len(p) \in Nat \ {0}
    <3>1. PICK a \in D : TRUE
      BY <1>3
    <3>2. PICK i \in DOMAIN p : p[i].client = a
      BY <1>1
    <3> QED
      BY <1>1, <3>2
  <2>4. Reaches(p, r, C)
    BY <1>1, <2>2, <2>3 DEF Reaches
  <2> QED
    BY <2>1, <2>4 DEF C
<1>8. CASE r.defaultAppID \notin D
  <2> DEFINE t == <<d>> \o p
  <2>1. /\ t \in Seq(Target) /\ Len(t) = Len(p) + 1
        /\ t[1] = d /\ 1 \in DOMAIN t
        /\ \A i \in DOMAIN p : i + 1 \in DOMAIN t /\ t[i + 1] = p[i]
        /\ \A i \in DOMAIN t : i = 1 \/ (i - 1 \in DOMAIN p /\ t[i] = p[i - 1])
    BY <1>1, <1>6, <1>8, InFront
  <2>2. Len(p) \in Nat /\ DOMAIN t \subseteq Nat
    BY <1>1, <2>1
  <2> HIDE DEF t
  <2>3. \A app \in C : \E i \in DOMAIN t : t[i].client = app
    <3> SUFFICES ASSUME NEW app \in C PROVE \E i \in DOMAIN t : t[i].client = app
      OBVIOUS
    <3>1. CASE app = Own
      BY <1>6, <1>8, <2>1, <3>1
    <3>2. CASE app \in D
      <4>1. PICK i \in DOMAIN p : p[i].client = app
        BY <1>1, <3>2
      <4> QED
        BY <2>1, <4>1
    <3> QED
      BY <1>2, <3>1, <3>2
  <2>4. ASSUME NEW i \in DOMAIN t, NEW j \in DOMAIN t, t[i].appID = t[j].appID PROVE i = j
    <3>1. CASE i = 1 /\ j = 1
      BY <3>1
    <3>2. CASE i = 1 /\ j - 1 \in DOMAIN p /\ t[j] = p[j - 1]
      BY <1>1, <1>6, <1>8, <2>1, <2>4, <3>2
    <3>3. CASE j = 1 /\ i - 1 \in DOMAIN p /\ t[i] = p[i - 1]
      BY <1>1, <1>6, <1>8, <2>1, <2>4, <3>3
    <3>4. CASE i - 1 \in DOMAIN p /\ t[i] = p[i - 1] /\ j - 1 \in DOMAIN p /\ t[j] = p[j - 1]
      <4>1. i - 1 = j - 1
        BY <1>1, <2>4, <3>4
      <4> QED
        BY <2>2, <4>1
    <3> QED
      BY <2>1, <3>1, <3>2, <3>3, <3>4
  <2>5. r.defaultAppID = Own => \A i \in DOMAIN t : t[i].client = t[i].appID
    <3> SUFFICES ASSUME r.defaultAppID = Own, NEW i \in DOMAIN t
                 PROVE  t[i].client = t[i].appID
      OBVIOUS
    <3>1. CASE i = 1
      BY <1>6, <1>8, <2>1, <3>1
    <3>2. CASE i - 1 \in DOMAIN p /\ t[i] = p[i - 1]
      BY <1>1, <3>2
    <3> QED
      BY <2>1, <3>1, <3>2
  <2>6. Len(t) \in Nat \ {0}
    BY <2>1, <2>2
  <2>7. Reaches(t, r, C)
    BY <2>1, <2>3, <2>4, <2>5, <2>6 DEF Reaches
  <2>8. Targets(r) = t
    BY <1>4, <1>8 DEF t
  <2> QED
    BY <2>7, <2>8 DEF C
<1> QED
  BY <1>7, <1>8

\* The only target of a call that names an app.
LEMMA TargetIs ==
  ASSUME NEW r, Registry(r), NEW a
  PROVE  Reaches(<<ClientFor(r, a)>>, r, {ClientFor(r, a).client})
<1> DEFINE c == ClientFor(r, a)
<1>1. c \in Target /\ (r.defaultAppID = Own => c.client = c.appID)
  BY ClientIs
<1> HIDE DEF c
<1>2. <<c>> \in Seq(Target) /\ Len(<<c>>) = 1 /\ DOMAIN <<c>> = {1} /\ <<c>>[1] = c
  BY <1>1
<1>3. Reaches(<<c>>, r, {c.client})
  BY <1>1, <1>2 DEF Reaches
<1> QED
  BY <1>3 DEF c

-----------------------------------------------------------------------------
(* The start.                                                              *)

LEMMA Empty ==
  /\ DOMAIN <<>> = {}
  /\ \A S : <<>> \in [DOMAIN <<>> -> S]
  /\ \A S : <<>> \in Seq(S)
  /\ Len(<<>>) = 0
<1>1. ASSUME NEW S PROVE <<>> \in Seq(S) /\ Len(<<>>) = 0
  OBVIOUS
<1>2. ASSUME NEW S PROVE DOMAIN <<>> = {} /\ <<>> \in [DOMAIN <<>> -> S]
  <2>1. <<>> \in Seq(S) /\ Len(<<>>) = 0
    BY <1>1
  <2>2. <<>> \in [1 .. 0 -> S] /\ DOMAIN <<>> = 1 .. 0
    BY <2>1
  <2> QED
    BY <2>2
<1> QED
  BY <1>1, <1>2

LEMMA NoListingIs == NoListing \in Listing /\ NoListing.instances = <<>>
<1>1. <<>> \in Seq(Found)
  BY Empty
<1>2. NoListing.instances = <<>>
  BY DEF NoListing
<1> QED
  BY <1>1, <1>2 DEF NoListing, Listing, NoToken

\* What a failed or rejected call leaves behind.
LEMMA FailureIs ==
  /\ Failure.ok = FALSE /\ DOMAIN Failure.instances = {} /\ DOMAIN Failure.tokens = {}
<1>1. DOMAIN <<>> = {}
  BY Empty
<1> QED
  BY <1>1 DEF Failure

\* No call is answered yet.
LEMMA NotAnswered ==
  ASSUME result = Failure
  PROVE  AnswerInv /\ NothingSilentlyMissing /\ NoPhantom /\ AccountsBalance
<1>1. DOMAIN result.instances = {} /\ DOMAIN result.tokens = {} /\ ~Answered
  BY FailureIs DEF Answered
<1> QED
  BY <1>1 DEF AnswerInv, NothingSilentlyMissing, NoPhantom, AccountsBalance

\* No goroutine runs.
LEMMA NoTask ==
  ASSUME pc # "collect", place = <<>>, ids = <<>>, listings = <<>>
  PROVE  /\ TasksInv
         /\ place \in [DOMAIN place -> {"list", "fetch", "written"}]
         /\ DOMAIN place = {}
<1>1. DOMAIN <<>> = {} /\ <<>> \in [DOMAIN <<>> -> {"list", "fetch", "written"}]
  BY Empty
<1> QED
  BY <1>1 DEF TasksInv

LEMMA InitInv == Init => IInv
<1> SUFFICES ASSUME Init PROVE IInv
  OBVIOUS
<1> USE DEF Init
<1>1. PICK resolved \in Resolutions, pool \in Pools :
        reg = NewRegistry(Own, ServerAppID(resolved), [a \in pool |-> a])
  OBVIOUS
<1>2. ServerAppID(resolved) \in {Own, Fallback} /\ ServerAppID(resolved) # NoApp
  BY AppIDAssumption DEF ServerAppID
<1>3. reg = [defaultClient |-> Own, defaultAppID |-> ServerAppID(resolved),
             byAppID |-> [a \in pool |-> a]]
  BY <1>1, <1>2 DEF NewRegistry
<1>4. RegInv
  BY <1>2, <1>3 DEF RegInv
<1>5. /\ TasksInv
      /\ place \in [DOMAIN place -> {"list", "fetch", "written"}]
      /\ DOMAIN place = {}
  BY NoTask
<1>6. AnswerInv /\ NothingSilentlyMissing /\ NoPhantom /\ AccountsBalance
  BY NotAnswered
<1>7. TargetsInv
  <2>1. ~(pc = "collect" \/ result.ok)
    BY FailureIs
  <2> QED
    BY <2>1 DEF TargetsInv
<1>8. EngineInv
  BY DEF EngineInv
<1>9. TypeOK
  <2>1. Own \in App /\ MaxChanges \in Nat /\ MaxCalls \in Nat
    BY ListAssumption
  <2>2. engine \in [App -> [Instance -> Status \cup {"absent"}]]
    BY ListAssumption
  <2>3. held \in [App -> [Instance -> SUBSET Status]] /\ steady \in [App -> SUBSET Instance]
    OBVIOUS
  <2>4. /\ args.app \in App \cup {NoApp, Unknown} /\ args.token \in Instance \cup {NoToken}
        /\ args.limit \in Limits \cup {0}
    OBVIOUS
  <2>5. DOMAIN targets = {}
    BY Empty
  <2>6. reg.defaultClient = Own /\ reg.defaultAppID \in App \cup {Fallback} /\ DOMAIN reg.byAppID \in Pools
    BY <1>4, <2>1 DEF RegInv
  <2>7. changes \in 0 .. MaxChanges /\ calls \in 0 .. MaxCalls /\ pc \in {"idle", "collect", "done"}
    BY <2>1
  <2> QED
    BY <1>5, <2>2, <2>3, <2>4, <2>5, <2>6, <2>7 DEF TypeOK
<1> QED
  BY <1>4, <1>5, <1>6, <1>7, <1>8, <1>9 DEF IInv

-----------------------------------------------------------------------------
(* The engines change.                                                     *)

LEMMA AskedIs ==
  ASSUME RegInv
  PROVE  Reaches(Asked, reg, Covered)
<1>1. Registry(reg)
  BY DEF RegInv, Registry
<1>2. CASE FanOut
  <2>1. MultiApp(reg)
    BY <1>2 DEF FanOut
  <2>2. Asked = Targets(reg)
    BY <1>2 DEF Asked
  <2>3. Covered = {reg.defaultClient} \cup {reg.byAppID[a] : a \in DOMAIN reg.byAppID}
    BY <1>2 DEF Covered
  <2>4. Reaches(Targets(reg), reg, {reg.defaultClient} \cup {reg.byAppID[a] : a \in DOMAIN reg.byAppID})
    BY <1>1, <2>1, TargetsAre
  <2> QED
    BY <2>2, <2>3, <2>4
<1>3. CASE ~FanOut
  <2>1. Asked = <<ClientFor(reg, args.app)>>
    BY <1>3 DEF Asked
  <2>2. Covered = {ClientFor(reg, args.app).client}
    BY <1>3 DEF Covered
  <2>3. Reaches(<<ClientFor(reg, args.app)>>, reg, {ClientFor(reg, args.app).client})
    BY <1>1, TargetIs
  <2> QED
    BY <2>1, <2>2, <2>3
<1> QED
  BY <1>2, <1>3

LEMMA TargetFacts ==
  ASSUME RegInv, TargetsInv
  PROVE  /\ targets \in Seq(Target)
         /\ \A i \in DOMAIN targets : targets[i].client \in App /\ Label(i) \in Nat
         /\ \A i, j \in DOMAIN targets : Label(i) = Label(j) => i = j
<1>1. targets = Asked => Reaches(targets, reg, Covered)
  BY AskedIs
<1>2. CASE targets = Asked
  <2>1. /\ targets \in Seq(Target)
        /\ \A i, j \in DOMAIN targets : targets[i].appID = targets[j].appID => i = j
    BY <1>1, <1>2 DEF Reaches
  <2>2. \A i \in DOMAIN targets : targets[i] \in Target
    BY <2>1
  <2> QED
    BY <2>1, <2>2 DEF Label, Target
<1>3. CASE targets = <<>>
  BY <1>3, Empty
<1> QED
  BY <1>2, <1>3 DEF TargetsInv

\* Time passes for a call: statuses are added, steady instances lost.
Ages ==
  \A a \in App :
    /\ steady'[a] \subseteq steady[a]
    /\ \A id \in Instance : held[a][id] \subseteq held'[a][id]

LEMMA Ageing ==
  ASSUME IInv, Ages, UNCHANGED <<reg, pc, args, targets, place, ids, listings, result>>
  PROVE  /\ RegInv' /\ TargetsInv' /\ TasksInv' /\ AnswerInv'
         /\ NothingSilentlyMissing' /\ NoPhantom' /\ AccountsBalance'
<1>1. RegInv'
  BY DEF IInv, RegInv
<1>2. TargetsInv'
  BY DEF IInv, TargetsInv, Asked, FanOut
<1>3. \A i \in DOMAIN targets : targets[i].client \in App
  BY TargetFacts DEF IInv
<1>4. TasksInv'
  <2>0. /\ DOMAIN ids = DOMAIN place /\ DOMAIN listings = DOMAIN place
        /\ DOMAIN place = IF pc = "collect" THEN DOMAIN targets ELSE {}
    BY DEF IInv, TasksInv
  <2> SUFFICES ASSUME NEW i \in DOMAIN place
               PROVE  TaskOK(i)' /\ FetchedOK(i)' /\ CoverOK(i)'
    BY <2>0 DEF TasksInv
  <2>1. TaskOK(i) /\ FetchedOK(i) /\ CoverOK(i)
    BY DEF IInv, TasksInv
  <2>2. TaskOK(i)'
    BY <2>1 DEF TaskOK
  <2>3. targets[i].client \in App
    BY <1>3, <2>0
  <2>4. FetchedOK(i)'
    <3> SUFFICES ASSUME NEW n \in DOMAIN listings[i].instances
                 PROVE  listings[i].instances[n].status \in
                          held'[targets[i].client][listings[i].instances[n].id]
      BY <2>1 DEF FetchedOK, Label
    <3>1. listings[i].instances[n].status \in held[targets[i].client][listings[i].instances[n].id]
      BY <2>1 DEF FetchedOK
    <3>2. listings[i].instances[n].id \in Instance
      <4>1. listings[i].instances \in Seq(Found)
        BY <2>1 DEF TaskOK, Listing
      <4>2. listings[i].instances[n] \in Found
        BY <4>1
      <4> QED
        BY <4>2 DEF Found
    <3> QED
      BY <2>3, <3>1, <3>2 DEF Ages
  <2>5. CoverOK(i)'
    <3>1. steady'[targets[i].client] \subseteq steady[targets[i].client]
      BY <2>3 DEF Ages
    <3> QED
      BY <2>1, <3>1 DEF CoverOK
  <2> QED
    BY <2>2, <2>4, <2>5
<1>5. AnswerInv' /\ AccountsBalance'
  BY DEF IInv, AnswerInv, AccountsBalance, Answered, Label
<1>6. NothingSilentlyMissing'
  <2> SUFFICES ASSUME Answered', NEW app \in Covered', NEW id \in steady'[app], id > args.token
               PROVE  \E i \in DOMAIN targets :
                        /\ targets[i].client = app
                        /\ \/ Shown(Label(i), id)
                           \/ Label(i) \in result.failed \cup result.partial
                           \/ Label(i) \in DOMAIN result.tokens /\ id > result.tokens[Label(i)]
    BY DEF NothingSilentlyMissing, Label, Shown
  <2>1. Answered /\ Covered' = Covered /\ targets = Asked
    BY DEF Answered, Covered, FanOut, IInv, TargetsInv
  <2>2. app \in App
    <3>1. Reaches(targets, reg, Covered)
      BY <2>1, AskedIs DEF IInv
    <3>2. PICK i \in DOMAIN targets : targets[i].client = app
      BY <2>1, <3>1 DEF Reaches
    <3> QED
      BY <1>3, <3>2
  <2>3. id \in steady[app]
    BY <2>2 DEF Ages
  <2> QED
    BY <2>1, <2>3 DEF IInv, NothingSilentlyMissing
<1>7. NoPhantom'
  <2> SUFFICES ASSUME Answered', NEW k \in DOMAIN result.instances
               PROVE  \E i \in DOMAIN targets :
                        /\ Label(i) = result.instances[k].app
                        /\ result.instances[k].status \in
                             held'[targets[i].client][result.instances[k].id]
    BY DEF NoPhantom, Label
  <2>1. PICK i \in DOMAIN targets :
          /\ Label(i) = result.instances[k].app
          /\ result.instances[k].status \in held[targets[i].client][result.instances[k].id]
    BY DEF IInv, NoPhantom, Answered
  <2>2. result.instances[k].id \in Instance /\ targets[i].client \in App
    BY <1>3 DEF IInv, AnswerInv
  <2> QED
    BY <2>1, <2>2 DEF Ages
<1> QED
  BY <1>1, <1>2, <1>4, <1>5, <1>6, <1>7

LEMMA ChangeInv ==
  ASSUME IInv, NEW app \in App, NEW id \in Instance,
         NEW from, NEW to \in Status \cup {"absent"}, Change(app, id, from, to)
  PROVE  IInv'
<1> USE DEF Change
<1>0. /\ engine \in [App -> [Instance -> Status \cup {"absent"}]]
      /\ held \in [App -> [Instance -> SUBSET Status]]
      /\ steady \in [App -> SUBSET Instance]
  BY DEF IInv, TypeOK
<1>1. \A a \in App, j \in Instance :
        /\ engine'[a][j] = IF a = app /\ j = id THEN to ELSE engine[a][j]
        /\ held'[a][j] = IF a = app /\ j = id THEN held[a][j] \cup ({to} \ {"absent"}) ELSE held[a][j]
  BY <1>0
<1>2. \A a \in App : steady'[a] = IF a = app /\ to = "absent" THEN steady[a] \ {id} ELSE steady[a]
  BY <1>0
<1>3. /\ engine' \in [App -> [Instance -> Status \cup {"absent"}]]
      /\ held' \in [App -> [Instance -> SUBSET Status]]
      /\ steady' \in [App -> SUBSET Instance]
  <2>1. engine' \in [App -> [Instance -> Status \cup {"absent"}]]
    BY <1>0
  <2>2. held' \in [App -> [Instance -> SUBSET Status]]
    BY <1>0
  <2>3. steady' \in [App -> SUBSET Instance]
    BY <1>0
  <2> QED
    BY <2>1, <2>2, <2>3
<1>4. Ages
  BY <1>1, <1>2 DEF Ages
<1>5. UNCHANGED <<reg, pc, args, targets, place, ids, listings, result>>
  BY DEF call, tasks
<1>6. /\ RegInv' /\ TargetsInv' /\ TasksInv' /\ AnswerInv'
      /\ NothingSilentlyMissing' /\ NoPhantom' /\ AccountsBalance'
  BY <1>4, <1>5, Ageing
<1>7. EngineInv'
  <2> SUFFICES ASSUME NEW a \in App
               PROVE  /\ steady'[a] \subseteq Alive(a)'
                      /\ pc = "collect" => \A j \in Alive(a)' : engine'[a][j] \in held'[a][j]
    BY <1>5 DEF EngineInv
  <2>1. /\ steady[a] \subseteq Alive(a)
        /\ pc = "collect" => \A j \in Alive(a) : engine[a][j] \in held[a][j]
    BY DEF IInv, EngineInv
  <2>2. ASSUME NEW j \in steady'[a] PROVE j \in Instance /\ engine'[a][j] # "absent"
    <3>1. j \in Instance /\ engine[a][j] # "absent"
      BY <1>2, <2>1, <2>2 DEF Alive
    <3> QED
      BY <1>1, <1>2, <2>2, <3>1
  <2>3. ASSUME pc = "collect", NEW j \in Instance, engine'[a][j] # "absent"
        PROVE  engine'[a][j] \in held'[a][j]
    <3>1. CASE a = app /\ j = id
      BY <1>1, <2>3, <3>1
    <3>2. CASE ~(a = app /\ j = id)
      <4>1. engine'[a][j] = engine[a][j] /\ held'[a][j] = held[a][j]
        BY <1>1, <3>2
      <4> QED
        BY <2>1, <2>3, <4>1 DEF Alive
    <3> QED
      BY <3>1, <3>2
  <2> QED
    BY <2>2, <2>3 DEF Alive
<1>8. TypeOK'
  <2>1. changes' \in 0 .. MaxChanges
    BY ListAssumption DEF IInv, TypeOK
  <2>2. calls' = calls
    OBVIOUS
  <2> QED
    BY <1>3, <1>5, <2>1, <2>2 DEF IInv, TypeOK
<1> QED
  BY <1>6, <1>7, <1>8 DEF IInv

-----------------------------------------------------------------------------
(* A call begins.                                                          *)

\* The goroutines at their start.
LEMMA StartsTasks ==
  ASSUME NEW ts, Start(ts)
  PROVE  /\ TasksInv'
         /\ place' \in [DOMAIN place' -> {"list", "fetch", "written"}]
         /\ DOMAIN place' = DOMAIN ts
<1> USE DEF Start
<1>1. DOMAIN place' = DOMAIN ts /\ DOMAIN ids' = DOMAIN ts /\ DOMAIN listings' = DOMAIN ts
  OBVIOUS
<1>2. ASSUME NEW i \in DOMAIN ts
      PROVE  TaskOK(i)' /\ FetchedOK(i)' /\ CoverOK(i)'
  <2>1. place'[i] = "list" /\ ids'[i] = <<>> /\ listings'[i] = NoListing
    OBVIOUS
  <2>2. /\ <<>> \in Seq(Instance) /\ DOMAIN <<>> = {} /\ Len(<<>>) = 0
    BY Empty
  <2>3. NoListing \in Listing /\ NoListing.instances = <<>> /\ NoListing.skipped = 0
    BY NoListingIs DEF NoListing
  <2>4. 0 + 0 <= MaxInstance
    BY ListAssumption
  <2>5. TaskOK(i)'
    BY <2>1, <2>2, <2>3, <2>4 DEF TaskOK
  <2>6. FetchedOK(i)'
    BY <2>1, <2>2, <2>3 DEF FetchedOK
  <2>7. CoverOK(i)'
    BY <2>1 DEF CoverOK
  <2> QED
    BY <2>5, <2>6, <2>7
<1>3. TasksInv'
  BY <1>1, <1>2 DEF TasksInv
<1> QED
  BY <1>1, <1>3

LEMMA RejectsTasks ==
  ASSUME Reject
  PROVE  /\ TasksInv'
         /\ place' \in [DOMAIN place' -> {"list", "fetch", "written"}]
         /\ DOMAIN place' = {}
<1>1. DOMAIN <<>> = {} /\ <<>> \in [DOMAIN <<>> -> {"list", "fetch", "written"}]
  BY Empty
<1> QED
  BY <1>1 DEF Reject, TasksInv

LEMMA InvokeInv ==
  ASSUME IInv, NEW app \in App \cup {NoApp, Unknown}, NEW token \in Tokens,
         NEW limit \in Limits, Invoke(app, token, limit)
  PROVE  IInv'
<1> USE DEF Invoke
<1>1. token \in Instance \cup {NoToken}
  BY DEF IInv, AnswerInv, Tokens
<1>2. \/ Reject
      \/ Start(Asked')
  <2>1. CASE FanOut' /\ Start(Targets(reg))
    BY <2>1 DEF Asked
  <2>2. CASE ~FanOut' /\ Start(<<ClientFor(reg, app)>>)
    BY <2>2 DEF Asked
  <2> QED
    BY <2>1, <2>2
<1>3. /\ TasksInv'
      /\ place' \in [DOMAIN place' -> {"list", "fetch", "written"}]
  BY <1>2, StartsTasks, RejectsTasks
<1>4. result' = Failure /\ result'.ok = FALSE
  BY FailureIs
<1>5. DOMAIN result'.instances = {} /\ DOMAIN result'.tokens = {} /\ ~Answered'
  BY <1>4, FailureIs DEF Answered
<1>6. AnswerInv' /\ NothingSilentlyMissing' /\ NoPhantom' /\ AccountsBalance'
  BY <1>5 DEF AnswerInv, NothingSilentlyMissing, NoPhantom, AccountsBalance
<1>7. RegInv'
  BY DEF IInv, RegInv
<1>8. pc' \in {"collect", "done"} /\ targets' \in {<<>>, Asked'} /\ (pc' = "collect" => targets' = Asked')
  BY <1>2 DEF Start, Reject
<1>9. TargetsInv'
  BY <1>4, <1>8 DEF TargetsInv
<1>10. /\ engine \in [App -> [Instance -> Status \cup {"absent"}]] /\ engine' = engine
       /\ changes' = changes
  BY DEF IInv, TypeOK, world
<1>11. /\ held' \in [App -> [Instance -> SUBSET Status]]
       /\ steady' \in [App -> SUBSET Instance]
  <2>1. \A a \in App, i \in Instance : {engine[a][i]} \ {"absent"} \in SUBSET Status
    BY <1>10
  <2>2. \A a \in App : Alive(a) \in SUBSET Instance
    BY DEF Alive
  <2> QED
    BY <2>1, <2>2
<1>12. EngineInv'
  <2> SUFFICES ASSUME NEW a \in App
               PROVE  /\ steady'[a] \subseteq Alive(a)'
                      /\ \A j \in Alive(a)' : engine'[a][j] \in held'[a][j]
    BY DEF EngineInv
  <2>1. Alive(a)' = Alive(a)
    BY <1>10 DEF Alive
  <2>2. steady'[a] = Alive(a)
    OBVIOUS
  <2>3. \A j \in Instance : held'[a][j] = {engine[a][j]} \ {"absent"}
    OBVIOUS
  <2> QED
    BY <1>10, <2>1, <2>2, <2>3 DEF Alive
<1>13. TypeOK'
  <2>1. calls' \in 0 .. MaxCalls
    BY ListAssumption DEF IInv, TypeOK
  <2>2. args'.app \in App \cup {NoApp, Unknown} /\ args'.token \in Instance \cup {NoToken} /\ args'.limit \in Limits \cup {0}
    BY <1>1
  <2>3. \A i \in DOMAIN targets' : targets'[i].client \in App
    <3>1. (targets' = Asked') => Reaches(targets', reg', Covered')
      <4>1. (RegInv => Reaches(Asked, reg, Covered))'
        BY AskedIs, PTL
      <4> QED
        BY <1>7, <4>1
    <3>2. CASE targets' = Asked'
      <4>1. targets' \in Seq(Target)
        BY <3>1, <3>2 DEF Reaches
      <4>2. \A i \in DOMAIN targets' : targets'[i] \in Target
        BY <4>1
      <4> QED
        BY <4>2 DEF Target
    <3>3. CASE targets' = <<>>
      BY <3>3, Empty
    <3> QED
      BY <1>8, <3>2, <3>3
  <2>4. \A i \in DOMAIN place' : /\ ToSet(ids'[i]) \subseteq Instance
                                  /\ listings'[i].token \in Instance \cup {NoToken}
                                  /\ listings'[i].skipped \in 0 .. MaxInstance
    <3>1. CASE Start(Asked')
      <4> SUFFICES ASSUME NEW i \in DOMAIN Asked'
                   PROVE  /\ ToSet(ids'[i]) \subseteq Instance
                          /\ listings'[i].token \in Instance \cup {NoToken}
                          /\ listings'[i].skipped \in 0 .. MaxInstance
        BY <3>1 DEF Start
      <4>1. ids'[i] = <<>> /\ listings'[i] = NoListing
        BY <3>1 DEF Start
      <4>2. ToSet(<<>>) = {}
        BY Empty DEF ToSet
      <4> QED
        BY <4>1, <4>2, ListAssumption DEF NoListing, NoToken
    <3>2. CASE Reject
      BY <3>2, RejectsTasks
    <3> QED
      BY <1>2, <3>1, <3>2
  <2>5. UNCHANGED reg /\ changes' = changes
    BY <1>10
  <2> QED
    BY <1>3, <1>8, <1>10, <1>11, <2>1, <2>2, <2>3, <2>4, <2>5 DEF IInv, TypeOK
<1> QED
  BY <1>3, <1>6, <1>7, <1>9, <1>12, <1>13 DEF IInv

-----------------------------------------------------------------------------
(* A goroutine takes a step.                                               *)

\* A step of the goroutine of target i and of nothing else.
StepOf(i) ==
  /\ pc = "collect"
  /\ UNCHANGED <<reg, world, pc, calls, call, result, ghost>>
  /\ DOMAIN place' = DOMAIN place /\ DOMAIN ids' = DOMAIN ids /\ DOMAIN listings' = DOMAIN listings
  /\ \A j \in DOMAIN place \ {i} :
        place'[j] = place[j] /\ ids'[j] = ids[j] /\ listings'[j] = listings[j]
  /\ place' \in [DOMAIN place' -> {"list", "fetch", "written"}]

\* What was fetched stays in order as long as nothing is fetched.
LEMMA FetchedStays ==
  ASSUME NEW i, FetchedOK(i), targets' = targets, held' = held,
         \A m \in DOMAIN ids'[i] : \E p \in DOMAIN ids[i] : ids'[i][m] = ids[i][p],
         listings'[i].instances = listings[i].instances
  PROVE  FetchedOK(i)'
<1>1. Label(i)' = Label(i)
  BY DEF Label
<1>2. \A n \in DOMAIN listings[i].instances :
        /\ listings[i].instances[n].app = Label(i)
        /\ listings[i].instances[n].status \in
             held[targets[i].client][listings[i].instances[n].id]
        /\ \A m \in DOMAIN ids[i] : ids[i][m] # listings[i].instances[n].id
        /\ \A m \in DOMAIN listings[i].instances :
             m # n => listings[i].instances[m].id # listings[i].instances[n].id
  BY DEF FetchedOK
<1>3. \A n \in DOMAIN listings[i].instances, m \in DOMAIN ids'[i] :
        ids'[i][m] # listings[i].instances[n].id
  BY <1>2
<1> QED
  BY <1>1, <1>2, <1>3 DEF FetchedOK

\* Such a step has to keep only what is said of that goroutine.
LEMMA StepInv ==
  ASSUME IInv, NEW i \in DOMAIN targets, StepOf(i),
         TaskOK(i)', FetchedOK(i)', CoverOK(i)'
  PROVE  IInv'
<1>1. /\ UNCHANGED <<reg, engine, changes, pc, calls, args, targets, result, held, steady>>
      /\ pc = "collect"
  BY DEF StepOf, world, call, ghost
<1>2. RegInv' /\ AnswerInv'
  BY <1>1 DEF IInv, RegInv, AnswerInv
<1>3. TargetsInv'
  BY <1>1 DEF IInv, TargetsInv, Asked, FanOut
<1>4. EngineInv'
  BY <1>1 DEF IInv, EngineInv, Alive
<1>5. NothingSilentlyMissing' /\ NoPhantom' /\ AccountsBalance'
  BY <1>1 DEF NothingSilentlyMissing, NoPhantom, AccountsBalance, Answered
<1>6. TasksInv'
  <2>1. /\ DOMAIN ids' = DOMAIN place' /\ DOMAIN listings' = DOMAIN place'
        /\ DOMAIN place' = DOMAIN targets
    BY <1>1 DEF IInv, TasksInv, StepOf
  <2>2. ASSUME NEW j \in DOMAIN place'
        PROVE  TaskOK(j)' /\ FetchedOK(j)' /\ CoverOK(j)'
    <3>1. CASE j = i
      BY <3>1
    <3>2. CASE j # i
      <4>1. /\ place'[j] = place[j] /\ ids'[j] = ids[j] /\ listings'[j] = listings[j]
            /\ j \in DOMAIN place
        BY <2>1, <2>2, <3>2 DEF StepOf
      <4>2. TaskOK(j) /\ FetchedOK(j) /\ CoverOK(j)
        BY <4>1 DEF IInv, TasksInv
      <4>3. TaskOK(j)'
        BY <4>1, <4>2 DEF TaskOK
      <4>4. FetchedOK(j)'
        <5>1. targets' = targets /\ held' = held
          BY <1>1
        <5> QED
          BY <4>1, <4>2, <5>1, FetchedStays
      <4>5. CoverOK(j)'
        <5>1. targets' = targets /\ steady' = steady /\ args' = args
          BY <1>1
        <5> QED
          BY <4>1, <4>2, <5>1 DEF CoverOK
      <4> QED
        BY <4>3, <4>4, <4>5
    <3> QED
      BY <3>1, <3>2
  <2> QED
    BY <1>1, <2>1, <2>2 DEF TasksInv
<1>7. TypeOK'
  <2>1. \A j \in DOMAIN place' : /\ ToSet(ids'[j]) \subseteq Instance
                                  /\ listings'[j].token \in Instance \cup {NoToken}
                                  /\ listings'[j].skipped \in 0 .. MaxInstance
    <3> SUFFICES ASSUME NEW j \in DOMAIN place'
                 PROVE  /\ ToSet(ids'[j]) \subseteq Instance
                        /\ listings'[j].token \in Instance \cup {NoToken}
                        /\ listings'[j].skipped \in 0 .. MaxInstance
      OBVIOUS
    <3>1. /\ ids'[j] \in Seq(Instance) /\ listings'[j] \in Listing
          /\ listings'[j].skipped + Len(ids'[j]) <= MaxInstance
      BY <1>6 DEF TasksInv, TaskOK
    <3>2. ToSet(ids'[j]) \subseteq Instance
      BY <3>1 DEF ToSet
    <3>3. listings'[j].token \in Instance \cup {NoToken} /\ listings'[j].skipped \in Nat
      BY <3>1 DEF Listing
    <3>4. Len(ids'[j]) \in Nat /\ MaxInstance \in Nat
      BY <3>1, ListAssumption
    <3> QED
      BY <3>1, <3>2, <3>3, <3>4
  <2>2. place' \in [DOMAIN place' -> {"list", "fetch", "written"}]
    BY DEF StepOf
  <2> QED
    BY <1>1, <2>1, <2>2 DEF IInv, TypeOK
<1> QED
  BY <1>2, <1>3, <1>4, <1>5, <1>6, <1>7 DEF IInv

\* What is known of goroutine i before it takes a step.
LEMMA TaskFacts ==
  ASSUME IInv, pc = "collect", NEW i \in DOMAIN targets
  PROVE  /\ DOMAIN place = DOMAIN targets /\ DOMAIN ids = DOMAIN targets
         /\ DOMAIN listings = DOMAIN targets
         /\ place \in [DOMAIN place -> {"list", "fetch", "written"}]
         /\ TaskOK(i) /\ FetchedOK(i) /\ CoverOK(i)
         /\ listings[i] \in Listing /\ ids[i] \in Seq(Instance)
         /\ listings[i].instances \in Seq(Found) /\ listings[i].skipped \in Nat
         /\ targets[i].client \in App /\ Label(i) \in Nat
<1>1. /\ DOMAIN place = DOMAIN targets /\ DOMAIN ids = DOMAIN targets
      /\ DOMAIN listings = DOMAIN targets
      /\ TaskOK(i) /\ FetchedOK(i) /\ CoverOK(i)
  BY DEF IInv, TasksInv
<1>2. place \in [DOMAIN place -> {"list", "fetch", "written"}]
  BY DEF IInv, TypeOK
<1>3. listings[i] \in Listing /\ ids[i] \in Seq(Instance)
  BY <1>1 DEF TaskOK
<1>4. targets[i].client \in App /\ Label(i) \in Nat
  BY TargetFacts DEF IInv
<1> QED
  BY <1>1, <1>2, <1>3, <1>4 DEF Listing

\* The first element and the rest.
LEMMA TailIs ==
  ASSUME NEW T, NEW s \in Seq(T), s # <<>>
  PROVE  /\ Tail(s) \in Seq(T) /\ Len(Tail(s)) + 1 = Len(s)
         /\ Head(s) \in T /\ 1 \in DOMAIN s /\ s[1] = Head(s)
         /\ \A m \in DOMAIN Tail(s) : m + 1 \in DOMAIN s /\ Tail(s)[m] = s[m + 1] /\ m + 1 # 1 /\ m \in Nat
         /\ \A m \in DOMAIN s : m = 1 \/ (m - 1 \in DOMAIN Tail(s) /\ Tail(s)[m - 1] = s[m])
<1>1. Len(s) \in Nat /\ Len(s) # 0 /\ DOMAIN s = 1 .. Len(s)
  OBVIOUS
<1>2. Tail(s) \in Seq(T) /\ Len(Tail(s)) = Len(s) - 1
  BY <1>1
<1>3. DOMAIN Tail(s) = 1 .. Len(s) - 1
  BY <1>1, <1>2
<1>4. \A m \in 1 .. Len(s) - 1 : Tail(s)[m] = s[m + 1]
  BY <1>1
<1>5. Head(s) = s[1] /\ 1 \in DOMAIN s
  BY <1>1
<1>6. s[1] \in T
  BY <1>5
<1>7. \A m \in DOMAIN Tail(s) : m + 1 \in DOMAIN s /\ Tail(s)[m] = s[m + 1] /\ m + 1 # 1 /\ m \in Nat
  BY <1>1, <1>3, <1>4
<1>8. ASSUME NEW m \in DOMAIN s, m # 1 PROVE m - 1 \in DOMAIN Tail(s) /\ Tail(s)[m - 1] = s[m]
  <2>1. m - 1 \in 1 .. Len(s) - 1 /\ (m - 1) + 1 = m
    BY <1>1, <1>8
  <2> QED
    BY <1>3, <1>4, <2>1
<1> QED
  BY <1>1, <1>2, <1>5, <1>6, <1>7, <1>8

\* One more at the end.
LEMMA AppendIs ==
  ASSUME NEW T, NEW s \in Seq(T), NEW x \in T
  PROVE  /\ Append(s, x) \in Seq(T)
         /\ \A n \in DOMAIN s : n \in DOMAIN Append(s, x) /\ Append(s, x)[n] = s[n]
         /\ \E n \in DOMAIN Append(s, x) : Append(s, x)[n] = x
         /\ \A n \in DOMAIN Append(s, x) :
              \/ n \in DOMAIN s /\ Append(s, x)[n] = s[n]
              \/ n = Len(s) + 1 /\ Append(s, x)[n] = x
<1>1. Append(s, x) \in Seq(T) /\ Len(Append(s, x)) = Len(s) + 1 /\ Len(s) \in Nat
  OBVIOUS
<1>2. DOMAIN Append(s, x) = 1 .. Len(s) + 1 /\ DOMAIN s = 1 .. Len(s)
  BY <1>1
<1>3. Append(s, x)[Len(s) + 1] = x /\ Len(s) + 1 \in DOMAIN Append(s, x)
  BY <1>1, <1>2
<1>4. \A n \in 1 .. Len(s) : Append(s, x)[n] = s[n] /\ n \in DOMAIN Append(s, x)
  BY <1>1, <1>2
<1>5. \A n \in 1 .. Len(s) + 1 : n \in 1 .. Len(s) \/ n = Len(s) + 1
  BY <1>1
<1> QED
  BY <1>1, <1>2, <1>3, <1>4, <1>5

\* The rest of Task, the sequel of every step of a goroutine.
Rest == pc = "collect" /\ UNCHANGED <<reg, world, pc, calls, call, result, ghost>>

LEMMA ListFailsInv ==
  ASSUME IInv, NEW i \in DOMAIN targets, Rest, ListFails(i)
  PROVE  IInv'
<1> USE DEF ListFails
<1>1. pc = "collect" /\ UNCHANGED <<targets, held, steady, args>>
  BY DEF Rest, call, ghost
<1>2. /\ DOMAIN place = DOMAIN targets /\ DOMAIN ids = DOMAIN targets
      /\ DOMAIN listings = DOMAIN targets
      /\ place \in [DOMAIN place -> {"list", "fetch", "written"}]
      /\ TaskOK(i) /\ FetchedOK(i) /\ CoverOK(i) /\ listings[i] \in Listing
  BY <1>1, TaskFacts
<1>3. /\ place'[i] = "written" /\ ids'[i] = ids[i]
      /\ listings'[i] = [listings[i] EXCEPT !.failed = TRUE]
  BY <1>2
<1>4. /\ listings'[i] \in Listing /\ listings'[i].failed
      /\ listings'[i].instances = listings[i].instances
      /\ listings'[i].skipped = listings[i].skipped
  BY <1>2, <1>3 DEF Listing
<1>5. ids[i] = <<>>
  BY <1>2 DEF TaskOK
<1>6. TaskOK(i)'
  BY <1>2, <1>3, <1>4, <1>5 DEF TaskOK
<1>7. FetchedOK(i)'
  BY <1>1, <1>2, <1>3, <1>4, FetchedStays
<1>8. CoverOK(i)'
  BY <1>4 DEF CoverOK
<1>9. StepOf(i)
  BY <1>2 DEF StepOf, Rest
<1> QED
  BY <1>6, <1>7, <1>8, <1>9, StepInv

LEMMA ListSucceedsInv ==
  ASSUME IInv, NEW i \in DOMAIN targets, Rest, ListSucceeds(i)
  PROVE  IInv'
<1> DEFINE app == targets[i].client
           page == Page(app, PageSize(args.limit), args.token)
<1>1. pc = "collect" /\ UNCHANGED <<targets, held, steady, args>>
  BY DEF Rest, call, ghost
<1>2. /\ DOMAIN place = DOMAIN targets /\ DOMAIN ids = DOMAIN targets
      /\ DOMAIN listings = DOMAIN targets
      /\ place \in [DOMAIN place -> {"list", "fetch", "written"}]
      /\ TaskOK(i) /\ listings[i] \in Listing /\ app \in App
  BY <1>1, TaskFacts
<1>3. PageOK(page, app, args.token)
  <2>1. args.token \in Nat
    BY ListAssumption DEF IInv, TypeOK, Instance, NoToken
  <2>2. args.limit \in Int
    BY ListAssumption DEF IInv, TypeOK
  <2>3. PageSize(args.limit) \in Nat \ {0}
    BY <2>2, ListAssumption DEF PageSize
  <2> QED
    BY <2>1, <2>3, PageIs
<1>4. /\ place[i] = "list"
      /\ ids' = [ids EXCEPT ![i] = page.ids]
      /\ listings' = [listings EXCEPT ![i].token = page.token]
      /\ place' = [place EXCEPT ![i] = "fetch"]
  BY DEF ListSucceeds
<1>5. steady[app] \subseteq Alive(app)
  BY <1>2 DEF IInv, EngineInv
<1> HIDE DEF page
<1>6. place'[i] = "fetch" /\ ids'[i] = page.ids /\ listings'[i] = [listings[i] EXCEPT !.token = page.token]
  BY <1>2, <1>4
<1>7. listings[i] = NoListing
  BY <1>2, <1>4 DEF TaskOK
<1>8. /\ page.ids \in Seq(Instance) /\ Distinct(page.ids) /\ Len(page.ids) <= MaxInstance
      /\ page.token \in Instance \cup {NoToken}
      /\ \A id \in Alive(app) : id > args.token =>
           \/ \E n \in DOMAIN page.ids : page.ids[n] = id
           \/ page.token # NoToken /\ id > page.token
  BY <1>3 DEF PageOK
<1>9. /\ listings'[i] \in Listing /\ listings'[i].failed = FALSE
      /\ listings'[i].instances = <<>> /\ listings'[i].skipped = 0
      /\ listings'[i].token = page.token
  <2>1. NoListing.instances = <<>> /\ NoListing.failed = FALSE /\ NoListing.skipped = 0
    BY DEF NoListing
  <2> QED
    BY <1>2, <1>6, <1>7, <1>8, <2>1 DEF Listing
<1>10. TaskOK(i)'
  <2>1. Len(page.ids) \in Nat /\ MaxInstance \in Nat
    BY <1>8, ListAssumption
  <2>2. listings'[i].skipped + Len(ids'[i]) <= MaxInstance
    BY <1>6, <1>8, <1>9, <2>1
  <2>3. \A m, n \in DOMAIN ids'[i] : m # n => ids'[i][m] # ids'[i][n]
    BY <1>6, <1>8 DEF Distinct
  <2> QED
    BY <1>6, <1>8, <1>9, <2>2, <2>3 DEF TaskOK
<1>11. FetchedOK(i)'
  BY <1>9, Empty DEF FetchedOK
<1>12. CoverOK(i)'
  BY <1>1, <1>5, <1>6, <1>8, <1>9 DEF CoverOK
<1>13. StepOf(i)
  BY <1>2, <1>4 DEF StepOf, Rest
<1> QED
  BY <1>10, <1>11, <1>12, <1>13, StepInv

LEMMA FetchFailsInv ==
  ASSUME IInv, NEW i \in DOMAIN targets, Rest, FetchFails(i)
  PROVE  IInv'
<1> DEFINE s == ids[i]
<1>1. pc = "collect" /\ UNCHANGED <<targets, held, steady, args>>
  BY DEF Rest, call, ghost
<1>2. /\ DOMAIN place = DOMAIN targets /\ DOMAIN ids = DOMAIN targets
      /\ DOMAIN listings = DOMAIN targets
      /\ place \in [DOMAIN place -> {"list", "fetch", "written"}]
      /\ TaskOK(i) /\ FetchedOK(i) /\ CoverOK(i) /\ listings[i] \in Listing
      /\ s \in Seq(Instance) /\ listings[i].skipped \in Nat
  BY <1>1, TaskFacts
<1>3. place[i] = "fetch" /\ s # <<>> /\ place' = place
  BY DEF FetchFails
<1>4. /\ ids'[i] = Tail(s)
      /\ listings'[i] = [listings[i] EXCEPT !.skipped = @ + 1]
  BY <1>2 DEF FetchFails
<1>5. /\ Tail(s) \in Seq(Instance) /\ Len(Tail(s)) + 1 = Len(s)
      /\ \A m \in DOMAIN Tail(s) : m + 1 \in DOMAIN s /\ Tail(s)[m] = s[m + 1] /\ m \in Nat
  BY <1>2, <1>3, TailIs
<1>6. /\ listings'[i] \in Listing /\ listings'[i].failed = listings[i].failed
      /\ listings'[i].instances = listings[i].instances
      /\ listings'[i].skipped = listings[i].skipped + 1
  BY <1>2, <1>4 DEF Listing
<1>7. /\ listings[i].skipped + Len(s) <= MaxInstance /\ ~listings[i].failed
      /\ \A m, n \in DOMAIN s : m # n => s[m] # s[n]
  BY <1>2, <1>3 DEF TaskOK
<1> HIDE DEF s
<1>8. \A m, n \in DOMAIN Tail(s) : m # n => Tail(s)[m] # Tail(s)[n]
  <2> SUFFICES ASSUME NEW m \in DOMAIN Tail(s), NEW n \in DOMAIN Tail(s), m # n
               PROVE  Tail(s)[m] # Tail(s)[n]
    OBVIOUS
  <2>1. m + 1 # n + 1
    BY <1>5
  <2> QED
    BY <1>5, <1>7, <2>1
<1>9. TaskOK(i)'
  <2>1. listings'[i].skipped + Len(Tail(s)) <= MaxInstance
    <3>1. Len(Tail(s)) \in Nat /\ Len(s) \in Nat
      BY <1>2, <1>5
    <3> QED
      BY <1>2, <1>5, <1>6, <1>7, <3>1
  <2> QED
    BY <1>3, <1>4, <1>5, <1>6, <1>7, <1>8, <2>1 DEF TaskOK
<1>10. FetchedOK(i)'
  <2>1. \A m \in DOMAIN ids'[i] : \E p \in DOMAIN ids[i] : ids'[i][m] = ids[i][p]
    BY <1>4, <1>5 DEF s
  <2> QED
    BY <1>1, <1>2, <1>6, <2>1, FetchedStays
<1>11. CoverOK(i)'
  <2>1. listings'[i].skipped > 0
    BY <1>2, <1>6
  <2> QED
    BY <2>1 DEF CoverOK
<1>12. StepOf(i)
  BY <1>2 DEF StepOf, Rest, FetchFails
<1> QED
  BY <1>9, <1>10, <1>11, <1>12, StepInv

LEMMA WriteInv ==
  ASSUME IInv, NEW i \in DOMAIN targets, Rest, Write(i)
  PROVE  IInv'
<1>1. pc = "collect" /\ UNCHANGED <<targets, held, steady, args>>
  BY DEF Rest, call, ghost
<1>2. /\ DOMAIN place = DOMAIN targets /\ DOMAIN ids = DOMAIN targets
      /\ DOMAIN listings = DOMAIN targets
      /\ place \in [DOMAIN place -> {"list", "fetch", "written"}]
      /\ TaskOK(i) /\ FetchedOK(i) /\ CoverOK(i)
  BY <1>1, TaskFacts
<1>3. /\ place[i] = "fetch" /\ ids[i] = <<>> /\ place'[i] = "written"
      /\ UNCHANGED <<ids, listings>>
  BY <1>2 DEF Write
<1>4. TaskOK(i)'
  BY <1>2, <1>3 DEF TaskOK
<1>5. FetchedOK(i)'
  BY <1>1, <1>2, <1>3, FetchedStays
<1>6. CoverOK(i)'
  BY <1>1, <1>2, <1>3 DEF CoverOK
<1>7. StepOf(i)
  BY <1>2 DEF StepOf, Rest, Write
<1> QED
  BY <1>4, <1>5, <1>6, <1>7, StepInv

LEMMA FetchSucceedsInv ==
  ASSUME IInv, NEW i \in DOMAIN targets, Rest, FetchSucceeds(i)
  PROVE  IInv'
<1> DEFINE s == ids[i]
           f == listings[i].instances
           x == Summary(i)
           app == targets[i].client
<1>1. pc = "collect" /\ UNCHANGED <<targets, held, steady, args>>
  BY DEF Rest, call, ghost
<1>2. /\ DOMAIN place = DOMAIN targets /\ DOMAIN ids = DOMAIN targets
      /\ DOMAIN listings = DOMAIN targets
      /\ place \in [DOMAIN place -> {"list", "fetch", "written"}]
      /\ TaskOK(i) /\ FetchedOK(i) /\ CoverOK(i) /\ listings[i] \in Listing
      /\ s \in Seq(Instance) /\ f \in Seq(Found)
      /\ app \in App /\ Label(i) \in Nat
  BY <1>1, TaskFacts
<1>3. place[i] = "fetch" /\ s # <<>> /\ place' = place /\ Head(s) \in Alive(app)
  BY DEF FetchSucceeds
<1>4. /\ ids'[i] = Tail(s)
      /\ listings'[i] = [listings[i] EXCEPT !.instances = Append(f, x)]
  BY <1>2 DEF FetchSucceeds
<1>5. /\ Tail(s) \in Seq(Instance) /\ Len(Tail(s)) + 1 = Len(s)
      /\ Head(s) \in Instance /\ 1 \in DOMAIN s /\ s[1] = Head(s)
      /\ \A m \in DOMAIN Tail(s) : m + 1 \in DOMAIN s /\ Tail(s)[m] = s[m + 1] /\ m + 1 # 1 /\ m \in Nat
      /\ \A m \in DOMAIN s : m = 1 \/ (m - 1 \in DOMAIN Tail(s) /\ Tail(s)[m - 1] = s[m])
  BY <1>2, <1>3, TailIs
<1>6. x.app = Label(i) /\ x.id = Head(s) /\ x.status = engine[app][Head(s)]
  BY DEF Summary, Label
<1>7. engine[app][Head(s)] \in Status /\ engine[app][Head(s)] \in held[app][Head(s)]
  <2>1. engine \in [App -> [Instance -> Status \cup {"absent"}]]
    BY DEF IInv, TypeOK
  <2>2. \A id \in Alive(app) : engine[app][id] \in held[app][id]
    BY <1>1, <1>2 DEF IInv, EngineInv
  <2> QED
    BY <1>2, <1>3, <1>5, <2>1, <2>2 DEF Alive
<1>8. x \in Found
  BY <1>2, <1>5, <1>7 DEF Summary, Found, Label
<1>9. /\ Append(f, x) \in Seq(Found)
      /\ \A n \in DOMAIN f : n \in DOMAIN Append(f, x) /\ Append(f, x)[n] = f[n]
      /\ \E n \in DOMAIN Append(f, x) : Append(f, x)[n] = x
      /\ \A n \in DOMAIN Append(f, x) :
           \/ n \in DOMAIN f /\ Append(f, x)[n] = f[n]
           \/ n = Len(f) + 1 /\ Append(f, x)[n] = x
  BY <1>2, <1>8, AppendIs
<1>10. /\ listings'[i] \in Listing /\ listings'[i].failed = listings[i].failed
       /\ listings'[i].instances = Append(f, x)
       /\ listings'[i].skipped = listings[i].skipped
       /\ listings'[i].token = listings[i].token
  BY <1>2, <1>4, <1>9 DEF Listing
<1>11. /\ listings[i].skipped + Len(s) <= MaxInstance /\ ~listings[i].failed
       /\ \A m, n \in DOMAIN s : m # n => s[m] # s[n]
  BY <1>2, <1>3 DEF TaskOK
<1>12. \A n \in DOMAIN f :
         /\ f[n].app = Label(i)
         /\ f[n].status \in held[app][f[n].id]
         /\ \A m \in DOMAIN s : s[m] # f[n].id
         /\ \A m \in DOMAIN f : m # n => f[m].id # f[n].id
  BY <1>2 DEF FetchedOK
<1>13. \A id \in steady[app] : id > args.token =>
         \/ \E m \in DOMAIN s : s[m] = id
         \/ \E n \in DOMAIN f : f[n].id = id
         \/ listings[i].skipped > 0
         \/ listings[i].token # NoToken /\ id > listings[i].token
  BY <1>2, <1>3, <1>11 DEF CoverOK
<1>14. listings[i].skipped \in Nat
  BY <1>2 DEF Listing
<1> DEFINE g == Append(f, x)
           t == Tail(s)
<1> HIDE DEF s, f, x, app, g, t
<1>15. \A m, n \in DOMAIN t : m # n => t[m] # t[n]
  <2> SUFFICES ASSUME NEW m \in DOMAIN t, NEW n \in DOMAIN t, m # n
               PROVE  t[m] # t[n]
    OBVIOUS
  <2>1. m + 1 # n + 1
    BY <1>5 DEF t
  <2> QED
    BY <1>5, <1>11, <2>1 DEF t
<1>16. TaskOK(i)'
  <2>1. listings'[i].skipped + Len(t) <= MaxInstance
    <3>1. Len(t) \in Nat /\ Len(s) \in Nat /\ Len(t) + 1 = Len(s)
      BY <1>2, <1>5 DEF t
    <3>2. MaxInstance \in Nat
      BY ListAssumption
    <3> QED
      BY <1>10, <1>11, <1>14, <3>1, <3>2
  <2> QED
    BY <1>3, <1>4, <1>5, <1>10, <1>11, <1>15, <2>1 DEF TaskOK, t
<1>17. ASSUME NEW n \in DOMAIN g
       PROVE  /\ g[n].app = Label(i)
              /\ g[n].status \in held[app][g[n].id]
              /\ \A m \in DOMAIN t : t[m] # g[n].id
              /\ \A m \in DOMAIN g : m # n => g[m].id # g[n].id
  <2>1. CASE n \in DOMAIN f /\ g[n] = f[n]
    <3>1. \A m \in DOMAIN t : t[m] # f[n].id
      BY <1>5, <1>12, <2>1 DEF t
    <3>2. Head(s) # f[n].id
      BY <1>5, <1>12, <2>1
    <3>3. \A m \in DOMAIN g : m # n => g[m].id # g[n].id
      BY <1>6, <1>9, <1>12, <2>1, <3>2 DEF g
    <3> QED
      BY <1>12, <2>1, <3>1, <3>3
  <2>2. CASE n = Len(f) + 1 /\ g[n] = x
    <3>1. \A m \in DOMAIN t : t[m] # Head(s)
      BY <1>5, <1>11 DEF t
    <3>2. \A m \in DOMAIN f : f[m].id # Head(s)
      BY <1>5, <1>12
    <3>3. \A m \in DOMAIN g : m # n => g[m].id # g[n].id
      BY <1>6, <1>9, <2>2, <3>2 DEF g
    <3> QED
      BY <1>6, <1>7, <2>2, <3>1, <3>3
  <2> QED
    BY <1>9, <2>1, <2>2 DEF g
<1>18. FetchedOK(i)'
  BY <1>1, <1>4, <1>10, <1>17 DEF FetchedOK, Label, g, t, app
<1>19. CoverOK(i)'
  <2>1. ASSUME NEW id \in steady[app], id > args.token
        PROVE  \/ \E m \in DOMAIN t : t[m] = id
               \/ \E n \in DOMAIN g : g[n].id = id
               \/ listings[i].skipped > 0
               \/ listings[i].token # NoToken /\ id > listings[i].token
    <3>1. CASE \E m \in DOMAIN s : s[m] = id
      <4>1. PICK m \in DOMAIN s : s[m] = id
        BY <3>1
      <4>2. CASE m = 1
        BY <1>5, <1>6, <1>9, <4>1, <4>2 DEF g
      <4>3. CASE m - 1 \in DOMAIN t /\ t[m - 1] = s[m]
        BY <4>1, <4>3
      <4> QED
        BY <1>5, <4>2, <4>3 DEF t
    <3>2. CASE \E n \in DOMAIN f : f[n].id = id
      BY <1>9, <3>2 DEF g
    <3> QED
      BY <1>13, <2>1, <3>1, <3>2
  <2> QED
    BY <1>1, <1>4, <1>10, <2>1 DEF CoverOK, g, t, app
<1>20. StepOf(i)
  BY <1>2 DEF StepOf, Rest, FetchSucceeds
<1> QED
  BY <1>16, <1>18, <1>19, <1>20, StepInv

LEMMA TaskInv ==
  ASSUME IInv, NEW i \in DOMAIN targets, Task(i)
  PROVE  IInv'
<1>1. Rest
  BY DEF Task, Rest
<1>2. CASE ListFails(i)
  BY <1>1, <1>2, ListFailsInv
<1>3. CASE ListSucceeds(i)
  BY <1>1, <1>3, ListSucceedsInv
<1>4. CASE FetchFails(i)
  BY <1>1, <1>4, FetchFailsInv
<1>5. CASE FetchSucceeds(i)
  BY <1>1, <1>5, FetchSucceedsInv
<1>6. CASE Write(i)
  BY <1>1, <1>6, WriteInv
<1> QED
  BY <1>2, <1>3, <1>4, <1>5, <1>6 DEF Task

-----------------------------------------------------------------------------
(* The merge.                                                              *)

\* As many elements as one of the sequences has.
LEMMA CountOf ==
  ASSUME NEW T, NEW f, NEW s \in Seq(T), NEW K \in SUBSET DOMAIN f,
         Distinct(f), Distinct(s),
         \A k \in K : \E m \in DOMAIN s : f[k] = s[m],
         \A m \in DOMAIN s : \E k \in K : f[k] = s[m]
  PROVE  Cardinality(K) = Len(s)
<1> DEFINE b == [m \in 1 .. Len(s) |-> CHOOSE k \in K : f[k] = s[m]]
<1>1. Len(s) \in Nat /\ DOMAIN s = 1 .. Len(s)
  OBVIOUS
<1>2. \A m \in 1 .. Len(s) : b[m] \in K /\ f[b[m]] = s[m]
  BY <1>1
<1>3. b \in [1 .. Len(s) -> K]
  BY <1>2
<1> HIDE DEF b
<1>4. \A m, n \in 1 .. Len(s) : b[m] = b[n] => m = n
  BY <1>1, <1>2 DEF Distinct
<1>5. ASSUME NEW k \in K PROVE \E m \in 1 .. Len(s) : b[m] = k
  <2>1. PICK m \in DOMAIN s : f[k] = s[m]
    OBVIOUS
  <2>2. b[m] = k
    BY <1>1, <1>2, <2>1 DEF Distinct
  <2> QED
    BY <1>1, <2>2
<1>6. b \in Bijection(1 .. Len(s), K)
  BY <1>3, <1>4, <1>5 DEF Bijection, Injection, Surjection, IsInjective
<1>7. ExistsBijection(1 .. Len(s), K)
  BY <1>6 DEF ExistsBijection
<1>8. IsFiniteSet(1 .. Len(s)) /\ Cardinality(1 .. Len(s)) = Len(s)
  BY <1>1, FS_Interval
<1> QED
  BY <1>7, <1>8, FS_Bijection

Joined == FlattenSeq([i \in DOMAIN targets |-> Contribution(i)])

\* The answer has what the listings that succeeded have, each once.
JoinedOK ==
  /\ Joined \in Seq(Found)
  /\ \A k \in DOMAIN Joined : \E i \in Listed :
       \E m \in DOMAIN listings[i].instances : Joined[k] = listings[i].instances[m]
  /\ \A i \in Listed : \A m \in DOMAIN listings[i].instances :
       \E k \in DOMAIN Joined : Joined[k] = listings[i].instances[m]
  /\ Distinct(Joined)

LEMMA JoinedIs ==
  ASSUME IInv, pc = "collect"
  PROVE  JoinedOK
<1> DEFINE N == Len(targets)
           c == [i \in DOMAIN targets |-> Contribution(i)]
<1>1. N \in Nat \ {0} /\ DOMAIN targets = 1 .. N
  <2>1. Reaches(targets, reg, Covered)
    BY AskedIs DEF IInv, TargetsInv
  <2> QED
    BY <2>1 DEF Reaches
<1>2. \A i \in DOMAIN targets : FetchedOK(i) /\ listings[i].instances \in Seq(Found)
  BY TaskFacts
<1>3. \A i \in DOMAIN targets : Contribution(i) \in Seq(Found)
  BY <1>2, Empty DEF Contribution
<1>4. c \in [1 .. N -> Seq(Found)] /\ \A i \in 1 .. N : c[i] = Contribution(i)
  BY <1>1, <1>3
<1>5. \A i \in 1 .. N : c[i] = IF i \in Listed THEN listings[i].instances ELSE <<>>
  BY <1>4 DEF Contribution
<1>6. Joined = FlattenSeq(c)
  BY DEF Joined
<1> HIDE DEF N, c
<1>7. \A i \in 1 .. N : \A m \in DOMAIN c[i] :
        i \in Listed /\ m \in DOMAIN listings[i].instances /\ c[i][m] = listings[i].instances[m]
  <2> SUFFICES ASSUME NEW i \in 1 .. N, NEW m \in DOMAIN c[i]
               PROVE  i \in Listed /\ m \in DOMAIN listings[i].instances /\ c[i][m] = listings[i].instances[m]
    OBVIOUS
  <2>1. CASE i \in Listed
    BY <1>5, <2>1
  <2>2. CASE i \notin Listed
    BY <1>5, <2>2, Empty
  <2> QED
    BY <2>1, <2>2
<1>8. NoRepeats(c, N)
  <2> SUFFICES ASSUME NEW i \in 1 .. N, NEW j \in 1 .. N,
                      NEW m \in DOMAIN c[i], NEW p \in DOMAIN c[j], c[i][m] = c[j][p]
               PROVE  i = j /\ m = p
    BY DEF NoRepeats
  <2>1. /\ m \in DOMAIN listings[i].instances /\ c[i][m] = listings[i].instances[m]
        /\ p \in DOMAIN listings[j].instances /\ c[j][p] = listings[j].instances[p]
    BY <1>7
  <2>2. ASSUME NEW l \in 1 .. N, NEW n \in DOMAIN listings[l].instances
        PROVE  /\ listings[l].instances[n].app = Label(l)
               /\ \A q \in DOMAIN listings[l].instances :
                    q # n => listings[l].instances[q].id # listings[l].instances[n].id
    <3>1. FetchedOK(l)
      BY <1>1, <1>2
    <3> QED
      BY <3>1 DEF FetchedOK
  <2>3. listings[i].instances[m] = listings[j].instances[p]
    BY <2>1
  <2>4. Label(i) = Label(j)
    <3>1. listings[i].instances[m].app = Label(i) /\ listings[j].instances[p].app = Label(j)
      BY <2>1, <2>2
    <3> QED
      BY <2>3, <3>1
  <2>5. i = j
    BY <1>1, <2>4, TargetFacts DEF IInv
  <2>6. m = p
    BY <2>1, <2>2, <2>3, <2>5
  <2> QED
    BY <2>5, <2>6
<1>9. /\ Joined \in Seq(Found) /\ Gathers(Joined, c, N) /\ Distinct(Joined)
  BY <1>1, <1>4, <1>6, <1>8, FlattenGathers
<1>10. ASSUME NEW k \in DOMAIN Joined
       PROVE  \E i \in Listed : \E m \in DOMAIN listings[i].instances : Joined[k] = listings[i].instances[m]
  <2>1. PICK i \in 1 .. N : \E m \in DOMAIN c[i] : Joined[k] = c[i][m]
    BY <1>9 DEF Gathers
  <2>2. PICK m \in DOMAIN c[i] : Joined[k] = c[i][m]
    BY <2>1
  <2> QED
    BY <1>7, <2>2
<1>11. ASSUME NEW i \in Listed, NEW m \in DOMAIN listings[i].instances
       PROVE  \E k \in DOMAIN Joined : Joined[k] = listings[i].instances[m]
  <2>1. i \in 1 .. N
    BY <1>1 DEF Listed
  <2>2. c[i] = listings[i].instances
    BY <1>5, <2>1
  <2>3. \E k \in DOMAIN Joined : Joined[k] = c[i][m]
    BY <1>9, <2>1, <2>2 DEF Gathers
  <2> QED
    BY <2>2, <2>3
<1> QED
  BY <1>9, <1>10, <1>11 DEF JoinedOK

\* A label leads back to its target.
LEMMA TargetOfLabel ==
  ASSUME IInv, NEW S \in SUBSET DOMAIN targets, NEW i \in S
  PROVE  TargetOf(Label(i), S) = i
<1>1. \A j \in S : Label(j) = Label(i) => j = i
  BY TargetFacts DEF IInv
<1>2. TargetOf(Label(i), S) \in S /\ Label(TargetOf(Label(i), S)) = Label(i)
  BY DEF TargetOf
<1> QED
  BY <1>1, <1>2

\* The fields of the answer.
LEMMA MergeIs ==
  ASSUME IInv, pc = "collect"
  PROVE  /\ Merge.ok = TRUE /\ Merge.instances = Joined
         /\ DOMAIN Merge.counts = {Label(i) : i \in Listed}
         /\ \A i \in Listed : Merge.counts[Label(i)] = Len(listings[i].instances)
         /\ DOMAIN Merge.tokens = {Label(i) : i \in Continued}
         /\ \A i \in Continued : Merge.tokens[Label(i)] = listings[i].token
         /\ Merge.failed = {Label(i) : i \in Failed}
         /\ Merge.partial = {Label(i) : i \in {j \in Listed : listings[j].skipped > 0}}
<1>1. \A i \in Listed : TargetOf(Label(i), Listed) = i
  <2>1. Listed \in SUBSET DOMAIN targets
    BY DEF Listed
  <2> QED
    BY <2>1, TargetOfLabel
<1>2. \A i \in Continued : TargetOf(Label(i), Continued) = i
  <2>1. Continued \in SUBSET DOMAIN targets
    BY DEF Listed, Continued
  <2> QED
    BY <2>1, TargetOfLabel
<1>3. \A i \in Listed : Merge.counts[Label(i)] = Len(listings[TargetOf(Label(i), Listed)].instances)
  BY DEF Merge
<1>4. \A i \in Continued : Merge.tokens[Label(i)] = listings[TargetOf(Label(i), Continued)].token
  BY DEF Merge
<1>5. /\ Merge.ok = TRUE /\ Merge.instances = Joined
      /\ DOMAIN Merge.counts = {Label(i) : i \in Listed}
      /\ DOMAIN Merge.tokens = {Label(i) : i \in Continued}
      /\ Merge.failed = {Label(i) : i \in Failed}
      /\ Merge.partial = {Label(i) : i \in {j \in Listed : listings[j].skipped > 0}}
  BY DEF Merge, Joined
<1> QED
  BY <1>1, <1>2, <1>3, <1>4, <1>5

AllWritten == \A i \in DOMAIN targets : place[i] = "written"

\* The properties of an answer, of any record.
MissesNothing(r) ==
  \A app \in Covered : \A id \in steady[app] : id > args.token =>
    \E i \in DOMAIN targets :
      /\ targets[i].client = app
      /\ \/ \E k \in DOMAIN r.instances : r.instances[k].app = Label(i) /\ r.instances[k].id = id
         \/ Label(i) \in r.failed \cup r.partial
         \/ Label(i) \in DOMAIN r.tokens /\ id > r.tokens[Label(i)]

TrueStatuses(r) ==
  \A k \in DOMAIN r.instances : \E i \in DOMAIN targets :
    /\ Label(i) = r.instances[k].app
    /\ r.instances[k].status \in held[targets[i].client][r.instances[k].id]

AddsUp(r) ==
  /\ DOMAIN r.counts \cup r.failed = {Label(i) : i \in DOMAIN targets}
  /\ DOMAIN r.counts \cap r.failed = {}
  /\ r.partial \cup DOMAIN r.tokens \subseteq DOMAIN r.counts
  /\ \A k \in DOMAIN r.instances : r.instances[k].app \in DOMAIN r.counts
  /\ \A a \in DOMAIN r.counts :
       r.counts[a] = Cardinality({k \in DOMAIN r.instances : r.instances[k].app = a})
  /\ \A j, k \in DOMAIN r.instances : j # k =>
       \/ r.instances[j].app # r.instances[k].app
       \/ r.instances[j].id # r.instances[k].id

\* What was listed of a target, at the end.
LEMMA ListedFacts ==
  ASSUME IInv, pc = "collect", NEW i \in Listed
  PROVE  /\ i \in DOMAIN targets /\ ~listings[i].failed
         /\ listings[i].instances \in Seq(Found)
         /\ \A m \in DOMAIN listings[i].instances :
              /\ listings[i].instances[m] \in Found
              /\ listings[i].instances[m].app = Label(i)
              /\ listings[i].instances[m].status \in
                   held[targets[i].client][listings[i].instances[m].id]
              /\ \A n \in DOMAIN listings[i].instances :
                   n # m => listings[i].instances[n].id # listings[i].instances[m].id
<1>1. i \in DOMAIN targets /\ ~listings[i].failed
  BY DEF Listed
<1>2. FetchedOK(i) /\ listings[i].instances \in Seq(Found)
  BY <1>1, TaskFacts
<1>3. ASSUME NEW m \in DOMAIN listings[i].instances
      PROVE  /\ listings[i].instances[m] \in Found
             /\ listings[i].instances[m].app = Label(i)
             /\ listings[i].instances[m].status \in
                  held[targets[i].client][listings[i].instances[m].id]
             /\ \A n \in DOMAIN listings[i].instances :
                  n # m => listings[i].instances[n].id # listings[i].instances[m].id
  <2>1. listings[i].instances[m] \in Found
    BY <1>2
  <2> QED
    BY <1>2, <2>1 DEF FetchedOK
<1> QED
  BY <1>1, <1>2, <1>3

LEMMA MergeMissesNothing ==
  ASSUME IInv, pc = "collect", AllWritten
  PROVE  MissesNothing(Merge)
<1> SUFFICES ASSUME NEW app \in Covered, NEW id \in steady[app], id > args.token
             PROVE  \E i \in DOMAIN targets :
                /\ targets[i].client = app
                /\ \/ \E k \in DOMAIN Joined : Joined[k].app = Label(i) /\ Joined[k].id = id
                   \/ Label(i) \in Merge.failed \cup Merge.partial
                   \/ Label(i) \in DOMAIN Merge.tokens /\ id > Merge.tokens[Label(i)]
  BY MergeIs DEF MissesNothing
<1>1. PICK i \in DOMAIN targets : targets[i].client = app
  <2>1. Reaches(targets, reg, Covered)
    BY AskedIs DEF IInv, TargetsInv
  <2> QED
    BY <2>1 DEF Reaches
<1>2. CASE listings[i].failed
  <2>1. Label(i) \in Merge.failed
    BY <1>2, MergeIs DEF Failed
  <2> QED
    BY <1>1, <2>1
<1>3. CASE ~listings[i].failed
  <2>1. i \in Listed
    BY <1>3 DEF Listed
  <2>2. place[i] = "written" /\ ids[i] = <<>> /\ CoverOK(i)
    BY TaskFacts DEF AllWritten, TaskOK
  <2>3. \/ \E n \in DOMAIN listings[i].instances : listings[i].instances[n].id = id
        \/ listings[i].skipped > 0
        \/ listings[i].token # NoToken /\ id > listings[i].token
    BY <1>1, <1>3, <2>2, Empty DEF CoverOK
  <2>4. CASE \E n \in DOMAIN listings[i].instances : listings[i].instances[n].id = id
    <3>1. PICK n \in DOMAIN listings[i].instances : listings[i].instances[n].id = id
      BY <2>4
    <3>2. listings[i].instances[n].app = Label(i)
      BY <2>1, ListedFacts
    <3>3. PICK k \in DOMAIN Joined : Joined[k] = listings[i].instances[n]
      BY <2>1, JoinedIs DEF JoinedOK
    <3> QED
      BY <1>1, <3>1, <3>2, <3>3
  <2>5. CASE listings[i].skipped > 0
    <3>1. Label(i) \in Merge.partial
      BY <2>1, <2>5, MergeIs
    <3> QED
      BY <1>1, <3>1
  <2>6. CASE listings[i].token # NoToken /\ id > listings[i].token
    <3>1. i \in Continued
      BY <2>1, <2>6 DEF Continued
    <3>2. Label(i) \in DOMAIN Merge.tokens /\ Merge.tokens[Label(i)] = listings[i].token
      BY <3>1, MergeIs
    <3> QED
      BY <1>1, <2>6, <3>2
  <2> QED
    BY <2>3, <2>4, <2>5, <2>6
<1> QED
  BY <1>2, <1>3

LEMMA MergeTellsTheTruth ==
  ASSUME IInv, pc = "collect"
  PROVE  TrueStatuses(Merge)
<1> SUFFICES ASSUME NEW k \in DOMAIN Joined
             PROVE  \E i \in DOMAIN targets :
                      /\ Label(i) = Joined[k].app
                      /\ Joined[k].status \in held[targets[i].client][Joined[k].id]
  BY MergeIs DEF TrueStatuses
<1>1. PICK i \in Listed : \E m \in DOMAIN listings[i].instances : Joined[k] = listings[i].instances[m]
  BY JoinedIs DEF JoinedOK
<1>2. PICK m \in DOMAIN listings[i].instances : Joined[k] = listings[i].instances[m]
  BY <1>1
<1> QED
  BY <1>2, ListedFacts

LEMMA MergeAddsUp ==
  ASSUME IInv, pc = "collect"
  PROVE  AddsUp(Merge)
<1>1. JoinedOK
  BY JoinedIs
<1>2. /\ Merge.instances = Joined
      /\ DOMAIN Merge.counts = {Label(i) : i \in Listed}
      /\ \A i \in Listed : Merge.counts[Label(i)] = Len(listings[i].instances)
      /\ DOMAIN Merge.tokens = {Label(i) : i \in Continued}
      /\ Merge.failed = {Label(i) : i \in Failed}
      /\ Merge.partial = {Label(i) : i \in {j \in Listed : listings[j].skipped > 0}}
  BY MergeIs
<1>3. \A i, j \in DOMAIN targets : Label(i) = Label(j) => i = j
  BY TargetFacts DEF IInv
<1>4. DOMAIN Merge.counts \cup Merge.failed = {Label(i) : i \in DOMAIN targets}
  BY <1>2 DEF Listed, Failed
<1>5. DOMAIN Merge.counts \cap Merge.failed = {}
  BY <1>2, <1>3 DEF Listed, Failed
<1>6. Merge.partial \cup DOMAIN Merge.tokens \subseteq DOMAIN Merge.counts
  BY <1>2 DEF Continued
<1>7. ASSUME NEW k \in DOMAIN Joined
      PROVE  \E i \in Listed : \E m \in DOMAIN listings[i].instances :
               /\ Joined[k] = listings[i].instances[m]
               /\ Joined[k].app = Label(i)
  <2>1. PICK i \in Listed : \E m \in DOMAIN listings[i].instances : Joined[k] = listings[i].instances[m]
    BY <1>1 DEF JoinedOK
  <2>2. PICK m \in DOMAIN listings[i].instances : Joined[k] = listings[i].instances[m]
    BY <2>1
  <2> QED
    BY <2>2, ListedFacts
<1>8. \A k \in DOMAIN Joined : Joined[k].app \in {Label(i) : i \in Listed}
  BY <1>7
<1>9. ASSUME NEW i \in Listed
      PROVE  Len(listings[i].instances) =
               Cardinality({k \in DOMAIN Joined : Joined[k].app = Label(i)})
  <2> DEFINE K == {k \in DOMAIN Joined : Joined[k].app = Label(i)}
             s == listings[i].instances
  <2>1. s \in Seq(Found) /\ i \in DOMAIN targets
    BY ListedFacts
  <2>2. Distinct(s)
    BY ListedFacts DEF Distinct
  <2>3. Distinct(Joined)
    BY <1>1 DEF JoinedOK
  <2>4. ASSUME NEW m \in DOMAIN s PROVE \E k \in K : Joined[k] = s[m]
    <3>1. s[m].app = Label(i)
      BY ListedFacts
    <3>2. PICK k \in DOMAIN Joined : Joined[k] = s[m]
      BY <1>1 DEF JoinedOK
    <3> QED
      BY <3>1, <3>2
  <2>5. ASSUME NEW k \in K PROVE \E m \in DOMAIN s : Joined[k] = s[m]
    <3>1. PICK j \in Listed : \E m \in DOMAIN listings[j].instances :
               /\ Joined[k] = listings[j].instances[m]
               /\ Joined[k].app = Label(j)
      BY <1>7
    <3>2. Label(j) = Label(i) /\ j \in DOMAIN targets
      BY <3>1, ListedFacts
    <3>3. j = i
      BY <1>3, <2>1, <3>2
    <3> QED
      BY <3>1, <3>3
  <2>6. K \in SUBSET DOMAIN Joined
    OBVIOUS
  <2> HIDE DEF K, s
  <2>7. Cardinality(K) = Len(s)
    BY <2>1, <2>2, <2>3, <2>4, <2>5, <2>6, CountOf
  <2> QED
    BY <2>7 DEF K, s
<1>10. ASSUME NEW j \in DOMAIN Joined, NEW k \in DOMAIN Joined,
              Joined[j].app = Joined[k].app, Joined[j].id = Joined[k].id
       PROVE  j = k
  <2>1. PICK a \in Listed : \E m \in DOMAIN listings[a].instances :
               /\ Joined[j] = listings[a].instances[m]
               /\ Joined[j].app = Label(a)
    BY <1>7
  <2>2. PICK m \in DOMAIN listings[a].instances : Joined[j] = listings[a].instances[m]
    BY <2>1
  <2>3. PICK b \in Listed : \E n \in DOMAIN listings[b].instances :
               /\ Joined[k] = listings[b].instances[n]
               /\ Joined[k].app = Label(b)
    BY <1>7
  <2>4. PICK n \in DOMAIN listings[b].instances : Joined[k] = listings[b].instances[n]
    BY <2>3
  <2>5. a = b
    <3>1. Label(a) = Label(b)
      BY <1>10, <2>1, <2>3
    <3>2. a \in DOMAIN targets /\ b \in DOMAIN targets
      BY ListedFacts
    <3> QED
      BY <1>3, <3>1, <3>2
  <2>6. m = n
    <3>1. n \in DOMAIN listings[a].instances /\ Joined[k] = listings[a].instances[n]
      BY <2>4, <2>5
    <3>2. listings[a].instances[m].id = listings[a].instances[n].id
      BY <1>10, <2>2, <3>1
    <3> QED
      BY <3>1, <3>2, ListedFacts
  <2>7. Joined[j] = Joined[k]
    BY <2>2, <2>4, <2>5, <2>6
  <2> QED
    BY <1>1, <2>7 DEF JoinedOK, Distinct
<1>11. \A a \in DOMAIN Merge.counts :
         Merge.counts[a] = Cardinality({k \in DOMAIN Merge.instances : Merge.instances[k].app = a})
  <2> SUFFICES ASSUME NEW i \in Listed
               PROVE  Merge.counts[Label(i)] =
                        Cardinality({k \in DOMAIN Joined : Joined[k].app = Label(i)})
    BY <1>2
  <2> QED
    BY <1>2, <1>9
<1>12. \A j, k \in DOMAIN Joined : j # k =>
         Joined[j].app # Joined[k].app \/ Joined[j].id # Joined[k].id
  BY <1>10
<1> QED
  BY <1>2, <1>4, <1>5, <1>6, <1>8, <1>11, <1>12 DEF AddsUp

LEMMA RespondInv ==
  ASSUME IInv, Respond
  PROVE  IInv'
<1>1. /\ pc = "collect" /\ AllWritten /\ pc' = "done"
      /\ result' \in {Failure, Merge}
      /\ place' = <<>> /\ ids' = <<>> /\ listings' = <<>>
      /\ UNCHANGED <<reg, engine, changes, calls, args, targets, held, steady>>
  BY DEF Respond, AllWritten, world, call, ghost
<1>2. RegInv'
  BY <1>1 DEF IInv, RegInv
<1>3. TargetsInv'
  BY <1>1 DEF IInv, TargetsInv, Asked, FanOut
<1>4. EngineInv'
  BY <1>1 DEF IInv, EngineInv, Alive
<1>5. /\ TasksInv'
      /\ place' \in [DOMAIN place' -> {"list", "fetch", "written"}]
      /\ DOMAIN place' = {}
  <2>1. (pc # "collect" /\ place = <<>> /\ ids = <<>> /\ listings = <<>>
          => /\ TasksInv
             /\ place \in [DOMAIN place -> {"list", "fetch", "written"}]
             /\ DOMAIN place = {})'
    BY NoTask, PTL
  <2> QED
    BY <1>1, <2>1
<1>6. TypeOK'
  BY <1>1, <1>5 DEF IInv, TypeOK
<1>7. CASE result' = Failure
  <2>1. DOMAIN result'.instances = {} /\ DOMAIN result'.tokens = {} /\ ~Answered'
    BY <1>7, FailureIs DEF Answered
  <2>2. AnswerInv' /\ NothingSilentlyMissing' /\ NoPhantom' /\ AccountsBalance'
    BY <2>1 DEF AnswerInv, NothingSilentlyMissing, NoPhantom, AccountsBalance
  <2> QED
    BY <1>2, <1>3, <1>4, <1>5, <1>6, <2>2 DEF IInv
<1>8. CASE result' = Merge
  <2>1. MissesNothing(result') /\ TrueStatuses(result') /\ AddsUp(result')
    BY <1>1, <1>8, MergeMissesNothing, MergeTellsTheTruth, MergeAddsUp
  <2>2. NothingSilentlyMissing'
    <3>1. Covered' = Covered
      BY <1>1 DEF Covered, FanOut
    <3> QED
      BY <1>1, <2>1, <3>1 DEF NothingSilentlyMissing, MissesNothing, Shown, Label
  <2>3. NoPhantom'
    BY <1>1, <2>1 DEF NoPhantom, TrueStatuses, Label
  <2>4. AccountsBalance'
    BY <1>1, <2>1 DEF AccountsBalance, AddsUp, Label
  <2>5. AnswerInv'
    <3>1. \A k \in DOMAIN Joined : Joined[k].id \in Instance
      <4>1. Joined \in Seq(Found)
        BY <1>1, JoinedIs DEF JoinedOK
      <4>2. \A k \in DOMAIN Joined : Joined[k] \in Found
        BY <4>1
      <4> QED
        BY <4>2 DEF Found
    <3>2. \A i \in Continued : listings[i].token \in Instance
      <4> SUFFICES ASSUME NEW i \in Continued PROVE listings[i].token \in Instance
        OBVIOUS
      <4>1. i \in DOMAIN targets /\ listings[i].token # NoToken
        BY DEF Continued, Listed
      <4>2. listings[i] \in Listing
        BY <1>1, <4>1, TaskFacts
      <4> QED
        BY <4>1, <4>2 DEF Listing
    <3>3. \A a \in DOMAIN Merge.tokens : Merge.tokens[a] \in Instance
      BY <1>1, <3>2, MergeIs
    <3> QED
      BY <1>1, <1>8, <3>1, <3>3, MergeIs DEF AnswerInv
  <2> QED
    BY <1>2, <1>3, <1>4, <1>5, <1>6, <2>2, <2>3, <2>4, <2>5 DEF IInv
<1> QED
  BY <1>1, <1>7, <1>8

-----------------------------------------------------------------------------
(* Every step.                                                             *)

LEMMA StutterInv ==
  ASSUME IInv, UNCHANGED vars
  PROVE  IInv'
<1>1. UNCHANGED <<reg, engine, changes, pc, calls, args, targets, place, ids, listings, result, held, steady>>
  BY DEF vars, world, call, tasks, ghost
<1>2. Ages
  BY <1>1 DEF Ages
<1>3. /\ RegInv' /\ TargetsInv' /\ TasksInv' /\ AnswerInv'
      /\ NothingSilentlyMissing' /\ NoPhantom' /\ AccountsBalance'
  BY <1>1, <1>2, Ageing
<1>4. EngineInv'
  BY <1>1 DEF IInv, EngineInv, Alive
<1>5. TypeOK'
  BY <1>1 DEF IInv, TypeOK
<1> QED
  BY <1>3, <1>4, <1>5 DEF IInv

LEMMA NextInv == IInv /\ [Next]_vars => IInv'
<1> SUFFICES ASSUME IInv, [Next]_vars PROVE IInv'
  OBVIOUS
<1>1. CASE Engines
  <2>1. PICK app \in App, id \in Instance :
          Create(app, id) \/ Complete(app, id) \/ Purge(app, id)
    BY <1>1 DEF Engines
  <2>2. "absent" \in Status \cup {"absent"} /\ "RUNNING" \in Status \cup {"absent"}
        /\ "COMPLETED" \in Status \cup {"absent"}
    BY DEF Status
  <2>3. CASE Create(app, id)
    BY <2>2, <2>3, ChangeInv DEF Create
  <2>4. CASE Complete(app, id)
    BY <2>2, <2>4, ChangeInv DEF Complete
  <2>5. CASE Purge(app, id)
    BY <2>2, <2>5, ChangeInv DEF Purge
  <2> QED
    BY <2>1, <2>3, <2>4, <2>5
<1>2. CASE Client
  BY <1>2, InvokeInv DEF Client
<1>3. CASE \E i \in DOMAIN targets : Task(i)
  BY <1>3, TaskInv
<1>4. CASE Respond
  BY <1>4, RespondInv
<1>5. CASE Quiesce
  BY <1>5, StutterInv DEF Quiesce
<1>6. CASE UNCHANGED vars
  BY <1>6, StutterInv
<1> QED
  BY <1>1, <1>2, <1>3, <1>4, <1>5, <1>6 DEF Next

-----------------------------------------------------------------------------
(* The theorems.                                                           *)

\* The inductive invariant holds of every behaviour of the tool, the engines
\* and the clients.
THEOREM Invariance == Spec => []IInv
<1>1. Init => IInv
  BY InitInv
<1>2. IInv /\ [Next]_vars => IInv'
  BY NextInv
<1> QED
  BY <1>1, <1>2, PTL DEF Spec

\* The variables of the tool and of the engines keep their types: a goroutine
\* never skips more instances than a page can have.
THEOREM TypeCorrect == Spec => []TypeOK
<1>1. IInv => TypeOK
  BY DEF IInv
<1> QED
  BY <1>1, Invariance, PTL

\* An instance that exists during the whole call in an app the call covers is
\* shown, or behind the app's token, or its app has a warning (the merge at the
\* end of handleListWorkflows).
THEOREM NoSilentLoss == Spec => []NothingSilentlyMissing
<1>1. IInv => NothingSilentlyMissing
  BY DEF IInv
<1> QED
  BY <1>1, Invariance, PTL

\* Every status shown is one the instance had during the call, although listApp
\* reads IDs and metadata at different times.
THEOREM StatusesWereTrue == Spec => []NoPhantom
<1>1. IInv => NoPhantom
  BY DEF IInv
<1> QED
  BY <1>1, Invariance, PTL

\* Each target is counted or reported as failed, never both, the counts are the
\* numbers of instances shown, and no instance is shown twice.
THEOREM AnswersAddUp == Spec => []AccountsBalance
<1>1. IInv => AccountsBalance
  BY DEF IInv
<1> QED
  BY <1>1, Invariance, PTL

\* When the server learnt its app-id at its start, no app is listed twice (the
\* promise of Registry.targets, which needs the app-id: without it the run
\* ListWorkflows_unresolved shows a call that lists the server's own app twice).
THEOREM ListedOnce ==
  ASSUME Resolutions = {TRUE}
  PROVE  Spec => []NoAppListedTwice
<1> DEFINE Named == reg.defaultAppID = Own
<1>1. Init => Named
  <2> SUFFICES ASSUME Init PROVE Named
    OBVIOUS
  <2>1. PICK resolved \in Resolutions, pool \in Pools :
          reg = NewRegistry(Own, ServerAppID(resolved), [a \in pool |-> a])
    BY DEF Init
  <2>2. ServerAppID(resolved) = Own /\ Own # NoApp
    BY AppIDAssumption DEF ServerAppID
  <2> QED
    BY <2>1, <2>2 DEF NewRegistry
<1>2. Named /\ [Next]_vars => Named'
  <2> SUFFICES ASSUME Named, [Next]_vars PROVE UNCHANGED reg
    OBVIOUS
  <2> USE DEF vars
  <2>1. CASE Engines
    BY <2>1 DEF Engines, Create, Complete, Purge, Change
  <2>2. CASE Client
    BY <2>2 DEF Client, Invoke
  <2>3. CASE \E i \in DOMAIN targets : Task(i)
    BY <2>3 DEF Task
  <2>4. CASE Respond \/ Quiesce \/ UNCHANGED vars
    BY <2>4 DEF Respond, Quiesce
  <2> QED
    BY <2>1, <2>2, <2>3, <2>4 DEF Next
<1>3. IInv /\ Named => NoAppListedTwice
  <2> SUFFICES ASSUME IInv, Named, NEW i \in DOMAIN targets, NEW j \in DOMAIN targets, i # j
               PROVE  targets[i].client # targets[j].client
    BY DEF NoAppListedTwice
  <2>1. targets = Asked
    BY Empty DEF IInv, TargetsInv
  <2>2. Reaches(targets, reg, Covered)
    BY <2>1, AskedIs DEF IInv
  <2> QED
    BY <2>2 DEF Reaches
<1> QED
  BY <1>1, <1>2, <1>3, Invariance, PTL DEF Spec
=============================================================================
