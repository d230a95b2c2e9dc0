------------------------- MODULE DependsGenProofs -------------------------
(***************************************************************************)
(* Proofs about DependsGen, for every list of packages and every set of    *)
(* select statements DependsAssumption admits.                             *)
(*                                                                         *)
(* The inductive invariant IndInv is the conjunction of the invariants     *)
(* that the run depends_gen checks, with DirsInOrder put in terms of the   *)
(* list (Ordered).  Each part has a step lemma of its own: the types       *)
(* (TypeStep), the path of recursive calls (WalkingStep, PathStep), the    *)
(* search for cycles (ExploredStep), the lists of dependencies             *)
(* (ListedStep), the counts (CountedStep), endless recursion               *)
(* (OverflowStep), the rules (RulesStep) and the order (OrderStep).        *)
(***************************************************************************)
EXTENDS DependsGen, ListLemmas

-----------------------------------------------------------------------------
(* The lists *)

\* kept is the recursive function of Filter.
Filtering(kept, A, list, keep) ==
  /\ kept \in [0..Len(list) -> Seq(A)]
  /\ kept[0] = <<>>
  /\ \A k \in 1..Len(list) :
       kept[k] = IF list[k] \in keep THEN Append(kept[k - 1], list[k]) ELSE kept[k - 1]
  /\ Filter(list, keep) = kept[Len(list)]

\* There is one.
LEMMA FilterIsRecursive ==
  ASSUME NEW A, NEW list \in Seq(A), NEW keep
  PROVE  \E kept : Filtering(kept, A, list, keep)
<1> DEFINE n == Len(list)
           S == Seq(A)
           base == <<>>
           step == [x \in S \X (1..n) |->
                     IF list[x[2]] \in keep THEN Append(x[1], list[x[2]]) ELSE x[1]]
           Next1(g, k) == IF list[k] \in keep THEN Append(g[k - 1], list[k]) ELSE g[k - 1]
           F(g) == [k \in 0..n |-> IF k = 0 THEN <<>> ELSE Next1(g, k)]
<1>0. n \in Nat /\ base \in S /\ \A k \in 1..n : list[k] \in A
  OBVIOUS
<1>1. step \in [S \X (1..n) -> S]
  OBVIOUS
<1>2. PICK g : Computes(g, S, n, base, step)
  <2>1. n \in Nat /\ base \in S /\ step \in [S \X (1..n) -> S]
    BY <1>0, <1>1
  <2> HIDE DEF step, S, n, base
  <2> QED BY <2>1, Recursion
<1>22. g \in [0..n -> S] /\ g[0] = base /\ \A k \in 1..n : g[k] = step[<<g[k - 1], k>>]
  <2> HIDE DEF step, S, n, base
  <2> QED BY <1>2 DEF Computes
<1>3. g = F(g)
  <2>1. ASSUME NEW k \in 1..n PROVE g[k] = Next1(g, k)
    <3>1. k - 1 \in 0..n
      BY <1>0, SMT
    <3>2. g[k - 1] \in S
      BY <3>1, <1>22
    <3>3. step[<<g[k - 1], k>>] = Next1(g, k)
      BY <3>2
    <3> QED BY <3>3, <1>22
  <2>2. \A k \in 0..n : g[k] = F(g)[k]
    <3>1. \A k \in 0..n : k = 0 \/ k \in 1..n
      BY <1>0, SMT
    <3>2. \A k \in 1..n : F(g)[k] = Next1(g, k)
      BY <1>0, SMT
    <3>3. F(g)[0] = <<>>
      BY <1>0, SMT
    <3> HIDE DEF F, Next1
    <3> QED BY <3>1, <3>2, <3>3, <2>1, <1>22
  <2> QED BY <2>2, <1>22
<1>4. PICK kept : kept = F(kept) /\ Filter(list, keep) = kept[n]
  BY <1>3 DEF Filter
<1>5. /\ kept[0] = <<>>
      /\ \A k \in 1..n : kept[k] = Next1(kept, k)
  <2>1. \A k \in 0..n : kept[k] = F(kept)[k]
    <3> HIDE DEF F
    <3> QED BY <1>4
  <2>2. F(kept)[0] = <<>> /\ \A k \in 1..n : F(kept)[k] = Next1(kept, k)
    BY <1>0, SMT
  <2>3. 0 \in 0..n /\ \A k \in 1..n : k \in 0..n
    BY <1>0, SMT
  <2> HIDE DEF F, Next1
  <2> QED BY <2>1, <2>2, <2>3
<1>6. \A k \in 0..n : kept[k] \in S
  <2> DEFINE T == {k \in 0..n : kept[k] \in S}
  <2>1. 0 \in T
    <3>1. 0 \in 0..n
      BY <1>0, SMT
    <3> QED BY <1>0, <1>5, <3>1, Zenon
  <2>2. ASSUME NEW k \in 1..n, k - 1 \in T PROVE k \in T
    <3>1. k \in 0..n /\ list[k] \in A
      BY <1>0, SMT
    <3>2. kept[k - 1] \in S
      BY <2>2
    <3>3. Next1(kept, k) \in S
      BY <3>1, <3>2
    <3> HIDE DEF Next1
    <3> QED BY <1>5, <3>1, <3>3
  <2> HIDE DEF T
  <2>4. \A k \in 0..n : k \in T
    BY <1>0, <2>1, <2>2, UpTo
  <2> QED BY <2>4 DEF T
<1>7. kept \in [0..n -> S]
  BY <1>4, <1>6
<1>8. Filtering(kept, A, list, keep)
  BY <1>4, <1>5, <1>7 DEF Filtering
<1> QED BY <1>8

\* pos says where in list each element of s comes from, up to its k-th.
Selected(s, list, keep, k, pos) ==
  /\ pos \in [1..Len(s) -> 1..k]
  /\ \A j \in 1..Len(s) : s[j] = list[pos[j]] /\ s[j] \in keep
  /\ \A j, l \in 1..Len(s) : j < l => pos[j] < pos[l]
  /\ \A m \in 1..k : list[m] \in keep => \E j \in 1..Len(s) : pos[j] = m

\* One more element.
LEMMA SelectedNext ==
  ASSUME NEW A, NEW list \in Seq(A), NEW keep, NEW k \in 1..Len(list),
         NEW s \in Seq(A), NEW pos, Selected(s, list, keep, k - 1, pos)
  PROVE  \E new : Selected(IF list[k] \in keep THEN Append(s, list[k]) ELSE s,
                           list, keep, k, new)
<1>1. CASE list[k] \in keep
  <2> DEFINE n == Len(s) + 1
             t == Append(s, list[k])
             new == [j \in 1..n |-> IF j = n THEN k ELSE pos[j]]
  <2>1. pos \in [1..Len(s) -> 1..(k - 1)] /\ k \in Nat /\ Len(s) \in Nat /\ list[k] \in A
    BY DEF Selected
  <2>2. Len(t) = n /\ t[n] = list[k] /\ \A j \in 1..Len(s) : t[j] = s[j]
    BY <2>1, SMT
  <2>3. new \in [1..n -> 1..k] /\ new[n] = k /\ \A j \in 1..Len(s) : new[j] = pos[j]
    BY <2>1, SMT
  <2>4. \A j \in 1..n : j = n \/ j \in 1..Len(s)
    BY <2>1, SMT
  <2> HIDE DEF new, t
  <2>5. \A j \in 1..n : t[j] = list[new[j]] /\ t[j] \in keep
    BY <2>2, <2>3, <2>4, <1>1 DEF Selected
  <2>6. ASSUME NEW j \in 1..n, NEW l \in 1..n, j < l PROVE new[j] < new[l]
    <3>1. j \in 1..Len(s)
      BY <2>6, <2>1, SMT
    <3>2. new[j] = pos[j] /\ pos[j] \in 1..(k - 1)
      BY <2>1, <2>3, <3>1
    <3>3. CASE l = n
      BY <3>2, <3>3, <2>3, SMT
    <3>4. CASE l \in 1..Len(s)
      BY <3>1, <3>2, <3>4, <2>3, <2>6 DEF Selected
    <3> QED BY <3>3, <3>4, <2>4
  <2>7. ASSUME NEW m \in 1..k, list[m] \in keep PROVE \E j \in 1..n : new[j] = m
    <3>1. CASE m = k
      BY <3>1, <2>1, <2>3, SMT
    <3>2. CASE m # k
      <4>1. m \in 1..(k - 1)
        BY <3>2, SMT
      <4>2. PICK j \in 1..Len(s) : pos[j] = m
        BY <4>1, <2>7 DEF Selected
      <4>3. j \in 1..n
        BY <2>1, SMT
      <4> QED BY <4>2, <4>3, <2>3
    <3> QED BY <3>1, <3>2
  <2>8. Selected(t, list, keep, k, new)
    BY <2>2, <2>3, <2>5, <2>6, <2>7 DEF Selected
  <2> QED BY <2>8, <1>1 DEF t
<1>2. CASE list[k] \notin keep
  <2>1. 1..(k - 1) \subseteq 1..k /\ \A m \in 1..k : m = k \/ m \in 1..(k - 1)
    BY SMT
  <2>2. pos \in [1..Len(s) -> 1..k]
    BY <2>1 DEF Selected
  <2>3. Selected(s, list, keep, k, pos)
    BY <2>1, <2>2, <1>2 DEF Selected
  <2> QED BY <2>3, <1>2
<1> QED BY <1>1, <1>2

\* Filter takes the elements that are in keep, in their order.
LEMMA FilterSelects ==
  ASSUME NEW A, NEW list \in Seq(A), NEW keep
  PROVE  /\ Filter(list, keep) \in Seq(A)
         /\ \E pos : Selected(Filter(list, keep), list, keep, Len(list), pos)
<1> DEFINE n == Len(list)
           new(s, k) == IF list[k] \in keep THEN Append(s, list[k]) ELSE s
<1>0. PICK kept : Filtering(kept, A, list, keep)
  BY FilterIsRecursive
<1>1. /\ kept \in [0..n -> Seq(A)] /\ kept[0] = <<>>
      /\ \A k \in 1..n : kept[k] = new(kept[k - 1], k)
      /\ Filter(list, keep) = kept[n]
  BY <1>0 DEF Filtering
<1> DEFINE T == {k \in 0..n : \E pos : Selected(kept[k], list, keep, k, pos)}
<1>2. 0 \in T
  <2>1. [j \in 1..0 |-> 1] \in [1..0 -> 1..0] /\ Len(<<>>) = 0 /\ \A j \in 1..0 : FALSE
    BY SMT
  <2>2. Selected(<<>>, list, keep, 0, [j \in 1..0 |-> 1])
    BY <2>1 DEF Selected
  <2>3. 0 \in 0..n
    BY SMT
  <2> QED BY <2>2, <2>3, <1>1, Zenon
<1>3. ASSUME NEW k \in 1..n, k - 1 \in T PROVE k \in T
  <2>1. k - 1 \in 0..n /\ k \in 0..n
    BY SMT
  <2>2. kept[k - 1] \in Seq(A)
    BY <1>1, <2>1
  <2>3. PICK pos : Selected(kept[k - 1], list, keep, k - 1, pos)
    BY <1>3
  <2>4. \E p : Selected(new(kept[k - 1], k), list, keep, k, p)
    BY <2>2, <2>3, SelectedNext
  <2> HIDE DEF new
  <2> QED BY <2>1, <2>4, <1>1
<1>4. n \in Nat /\ n \in 0..n
  BY SMT
<1>5. n \in T
  <2> HIDE DEF T, n
  <2> QED BY <1>2, <1>3, <1>4, UpTo
<1>6. kept[n] \in Seq(A)
  BY <1>1, <1>4
<1> QED BY <1>1, <1>5, <1>6, Zenon

\* The elements that it leaves.
LEMMA FilterElements ==
  ASSUME NEW A, NEW list \in Seq(A), NEW keep
  PROVE  ToSet(Filter(list, keep)) = ToSet(list) \cap keep
<1> DEFINE F == Filter(list, keep)
<1>1. F \in Seq(A) /\ \E pos : Selected(F, list, keep, Len(list), pos)
  BY FilterSelects
<1> HIDE DEF F
<1>2. PICK pos : Selected(F, list, keep, Len(list), pos)
  BY <1>1
<1>3. DOMAIN F = 1..Len(F) /\ DOMAIN list = 1..Len(list)
  BY <1>1
<1>4. ASSUME NEW j \in 1..Len(F) PROVE F[j] \in ToSet(list) \cap keep
  BY <1>2, <1>3 DEF Selected, ToSet
<1>5. ASSUME NEW m \in 1..Len(list), list[m] \in keep PROVE list[m] \in ToSet(F)
  BY <1>2, <1>3, <1>5 DEF Selected, ToSet
<1>6. ToSet(F) = ToSet(list) \cap keep
  BY <1>3, <1>4, <1>5 DEF ToSet
<1> QED BY <1>6 DEF F

-----------------------------------------------------------------------------
(* list_sort *)

\* The counts do not grow along the list.
Sorted(s) == \A j, k \in 1..Len(s) : j < k => numdeps[s[j]] >= numdeps[s[k]]

\* The position at which p goes.
Place(s, p, k) ==
  /\ k \in 1..(Len(s) + 1)
  /\ \A j \in 1..(k - 1) : numdeps[s[j]] >= numdeps[p]
  /\ k <= Len(s) => numdeps[p] > numdeps[s[k]]

\* t is s with p inserted at k.
Inserted(t, s, k, p) ==
  /\ t \in Seq(Packages)
  /\ Len(t) = Len(s) + 1
  /\ \A j \in 1..(Len(s) + 1) :
       t[j] = IF j < k THEN s[j] ELSE IF j = k THEN p ELSE s[j - 1]

\* What InsertAt does.
LEMMA InsertAtElements ==
  ASSUME NEW s \in Seq(Packages), NEW p \in Packages, NEW k \in 1..Len(s)
  PROVE  Inserted(InsertAt(s, k, p), s, k, p)
<1> DEFINE a == SubSeq(s, 1, k - 1)
           b == SubSeq(s, k, Len(s))
<1>1. a \in Seq(Packages) /\ Len(a) = k - 1 /\ \A j \in 1..(k - 1) : a[j] = s[j]
  BY SMT
<1>2. b \in Seq(Packages) /\ Len(b) = Len(s) - k + 1 /\ \A j \in 1..(Len(s) - k + 1) : b[j] = s[k + j - 1]
  BY SMT
<1>3. InsertAt(s, k, p) = a \o <<p>> \o b
  BY DEF InsertAt
<1> HIDE DEF a, b
<1>4. Len(s) \in Nat /\ k \in Int
  BY SMT
<1>5. a \o <<p>> \in Seq(Packages) /\ Len(a \o <<p>>) = k
      /\ \A j \in 1..k : (a \o <<p>>)[j] = IF j < k THEN s[j] ELSE p
  BY <1>1, <1>4, SMT
<1> DEFINE c == a \o <<p>>
<1>8. c \in Seq(Packages) /\ Len(c) = k /\ \A j \in 1..k : c[j] = IF j < k THEN s[j] ELSE p
  BY <1>5
<1> HIDE DEF c
<1>6. c \o b \in Seq(Packages) /\ Len(c \o b) = Len(s) + 1
      /\ \A j \in 1..(Len(s) + 1) : (c \o b)[j] = IF j <= k THEN c[j] ELSE b[j - k]
  <2>1. c \in Seq(Packages) /\ b \in Seq(Packages)
    BY <1>2, <1>8
  <2>2. /\ c \o b \in Seq(Packages) /\ Len(c \o b) = Len(c) + Len(b)
        /\ \A j \in 1..(Len(c) + Len(b)) : (c \o b)[j] = IF j <= Len(c) THEN c[j] ELSE b[j - Len(c)]
    BY <2>1, SMT
  <2>3. Len(c) = k /\ Len(c) + Len(b) = Len(s) + 1
    BY <1>2, <1>4, <1>8, SMT
  <2> QED BY <2>2, <2>3
<1>7. \A j \in 1..(Len(s) + 1) :
         (c \o b)[j] = IF j < k THEN s[j] ELSE IF j = k THEN p ELSE s[j - 1]
  <2> SUFFICES ASSUME NEW j \in 1..(Len(s) + 1)
               PROVE  (c \o b)[j] = IF j < k THEN s[j] ELSE IF j = k THEN p ELSE s[j - 1]
    OBVIOUS
  <2>1. CASE j <= k
    <3>1. j \in 1..k
      BY <2>1, <1>4, SMT
    <3> QED BY <3>1, <2>1, <1>4, <1>8, <1>6, SMT
  <2>2. CASE ~(j <= k)
    <3>1. j - k \in 1..(Len(s) - k + 1) /\ k + (j - k) - 1 = j - 1
      BY <2>2, <1>4, SMT
    <3>2. b[j - k] = s[j - 1]
      BY <3>1, <1>2
    <3> QED BY <3>2, <2>2, <1>4, <1>6, SMT
  <2> QED BY <2>1, <2>2
<1> QED BY <1>3, <1>6, <1>7 DEF c, Inserted

\* InsertSorted puts p where it goes.
LEMMA InsertSortedElements ==
  ASSUME numdeps \in [Packages -> Nat], NEW s \in Seq(Packages), NEW p \in Packages
  PROVE  \E k : Place(s, p, k) /\ Inserted(InsertSorted(s, p), s, k, p)
<1> DEFINE I == {j \in 1..Len(s) : numdeps[p] > numdeps[s[j]]}
           k == IF I # {} THEN Min(I) ELSE 0
<1>0. Len(s) \in Nat /\ numdeps[p] \in Nat /\ \A j \in 1..Len(s) : numdeps[s[j]] \in Nat
  BY SMT
<1>1. InsertSorted(s, p) = IF k = 0 THEN Append(s, p) ELSE InsertAt(s, k, p)
  BY DEF InsertSorted, SelectInSeq
<1>2. CASE I = {}
  <2>1. k = 0 /\ \A j \in 1..Len(s) : numdeps[s[j]] >= numdeps[p]
    BY <1>2, <1>0, SMT
  <2>2. InsertSorted(s, p) = Append(s, p)
    BY <1>1, <2>1
  <2>3. Place(s, p, Len(s) + 1)
    BY <2>1, <1>0, SMT DEF Place
  <2>4. /\ Append(s, p) \in Seq(Packages) /\ Len(Append(s, p)) = Len(s) + 1
        /\ \A j \in 1..(Len(s) + 1) : Append(s, p)[j] =
             IF j < Len(s) + 1 THEN s[j] ELSE IF j = Len(s) + 1 THEN p ELSE s[j - 1]
    BY <1>0, SMT
  <2> QED BY <2>2, <2>3, <2>4 DEF Inserted
<1>3. CASE I # {}
  <2>1. I \in SUBSET Nat
    BY SMT
  <2>2. \E x \in I : \A y \in I : x <= y
    <3> HIDE DEF I
    <3> QED BY <2>1, <1>3, LeastElement
  <2>3. k \in I /\ \A y \in I : k <= y
    <3> HIDE DEF I
    <3> QED BY <2>2, <1>3 DEF Min
  <2>4. k \in 1..Len(s) /\ numdeps[p] > numdeps[s[k]]
    BY <2>3
  <2>5. \A j \in 1..(k - 1) : numdeps[s[j]] >= numdeps[p]
    <3> SUFFICES ASSUME NEW j \in 1..(k - 1) PROVE numdeps[s[j]] >= numdeps[p]
      OBVIOUS
    <3> HIDE DEF k
    <3>1. j \in 1..Len(s) /\ ~(k <= j)
      BY <2>4, <1>0, SMT
    <3> QED BY <3>1, <2>3, <1>0, SMT
  <2> HIDE DEF k, I
  <2>6. Place(s, p, k)
    BY <2>4, <2>5, <1>0, SMT DEF Place
  <2>7. k # 0
    BY <2>4, SMT
  <2>8. InsertSorted(s, p) = InsertAt(s, k, p)
    BY <1>1, <2>7
  <2>9. Inserted(InsertAt(s, k, p), s, k, p)
    BY <2>4, InsertAtElements
  <2> QED BY <2>6, <2>8, <2>9
<1> QED BY <1>2, <1>3

\* So the list stays sorted, with p in it.
LEMMA InsertSortedSorts ==
  ASSUME numdeps \in [Packages -> Nat], NEW s \in Seq(Packages), NEW p \in Packages, Sorted(s)
  PROVE  /\ InsertSorted(s, p) \in Seq(Packages)
         /\ Sorted(InsertSorted(s, p))
         /\ ToSet(InsertSorted(s, p)) = ToSet(s) \cup {p}
         /\ Len(InsertSorted(s, p)) = Len(s) + 1
<1> DEFINE t == InsertSorted(s, p)
           at(k, j) == IF j < k THEN s[j] ELSE IF j = k THEN p ELSE s[j - 1]
<1>0. PICK k : Place(s, p, k) /\ Inserted(t, s, k, p)
  BY InsertSortedElements
<1> HIDE DEF t
<1>1. /\ Place(s, p, k) /\ t \in Seq(Packages) /\ Len(t) = Len(s) + 1
      /\ \A j \in 1..(Len(s) + 1) : t[j] = at(k, j)
  BY <1>0 DEF Inserted
<1>2. /\ Len(s) \in Nat /\ numdeps[p] \in Nat /\ \A j \in 1..Len(s) : numdeps[s[j]] \in Nat
      /\ k \in 1..(Len(s) + 1)
  BY <1>1, SMT DEF Place
<1>3. \A j \in 1..Len(s) : j >= k => numdeps[p] > numdeps[s[j]]
  <2> SUFFICES ASSUME NEW j \in 1..Len(s), j >= k PROVE numdeps[p] > numdeps[s[j]]
    OBVIOUS
  <2>1. k \in 1..Len(s) /\ numdeps[p] > numdeps[s[k]]
    BY <1>1, <1>2, SMT DEF Place
  <2>2. CASE j = k
    BY <2>1, <2>2
  <2>3. CASE k < j
    BY <2>1, <2>3, <1>2, SMT DEF Sorted
  <2> QED BY <2>2, <2>3, <1>2, SMT
<1>4. Sorted(t)
  <2> SUFFICES ASSUME NEW j \in 1..(Len(s) + 1), NEW l \in 1..(Len(s) + 1), j < l
               PROVE  numdeps[at(k, j)] >= numdeps[at(k, l)]
    <3> HIDE DEF at
    <3> QED BY <1>1 DEF Sorted
  <2>1. CASE j < k /\ l < k
    BY <2>1, <1>2, SMT DEF Sorted
  <2>2. CASE j < k /\ l = k
    <3>1. j \in 1..(k - 1)
      BY <2>2, <1>2, SMT
    <3> QED BY <3>1, <2>2, <1>1, SMT DEF Place
  <2>3. CASE j < k /\ l > k
    <3>1. j \in 1..Len(s) /\ l - 1 \in 1..Len(s) /\ j < l - 1
      BY <2>3, <1>2, SMT
    <3>2. numdeps[s[j]] >= numdeps[s[l - 1]]
      BY <3>1 DEF Sorted
    <3> QED BY <3>2, <2>3, <1>2, SMT
  <2>4. CASE j = k
    <3>1. l - 1 \in 1..Len(s) /\ l - 1 >= k
      BY <2>4, <1>2, SMT
    <3>2. numdeps[p] > numdeps[s[l - 1]]
      BY <3>1, <1>3
    <3> QED BY <3>1, <3>2, <2>4, <1>2, SMT
  <2>5. CASE j > k
    <3>1. j - 1 \in 1..Len(s) /\ l - 1 \in 1..Len(s) /\ j - 1 < l - 1
      BY <2>5, <1>2, SMT
    <3>2. numdeps[s[j - 1]] >= numdeps[s[l - 1]]
      BY <3>1 DEF Sorted
    <3> QED BY <3>2, <2>5, <1>2, SMT
  <2> QED BY <2>1, <2>2, <2>3, <2>4, <2>5, <1>2, SMT
<1>5. ToSet(t) = ToSet(s) \cup {p}
  <2>1. DOMAIN t = 1..(Len(s) + 1) /\ DOMAIN s = 1..Len(s)
    BY <1>1
  <2>2. ASSUME NEW j \in 1..(Len(s) + 1) PROVE t[j] \in ToSet(s) \cup {p}
    <3>1. (j < k => j \in 1..Len(s)) /\ (j > k => j - 1 \in 1..Len(s))
      BY <1>2, SMT
    <3>2. t[j] = at(k, j)
      BY <1>1
    <3>3. j < k \/ j = k \/ j > k
      BY <1>2, SMT
    <3>4. j > k => ~(j < k) /\ j # k
      BY <1>2, SMT
    <3> QED BY <3>1, <3>2, <3>3, <3>4, <2>1 DEF ToSet
  <2>3. p \in ToSet(t)
    <3>1. t[k] = p
      BY <1>1, <1>2, SMT
    <3> QED BY <3>1, <2>1, <1>2 DEF ToSet
  <2>4. ASSUME NEW j \in 1..Len(s) PROVE s[j] \in ToSet(t)
    <3>1. CASE j < k
      <4>1. j \in 1..(Len(s) + 1)
        BY <1>2, SMT
      <4>2. t[j] = s[j]
        BY <4>1, <3>1, <1>1
      <4> QED BY <4>1, <4>2, <2>1 DEF ToSet
    <3>2. CASE j >= k
      <4>1. j + 1 \in 1..(Len(s) + 1) /\ ~(j + 1 < k) /\ j + 1 # k /\ (j + 1) - 1 = j
        BY <3>2, <1>2, SMT
      <4>2. t[j + 1] = s[j]
        BY <4>1, <1>1
      <4> QED BY <4>1, <4>2, <2>1 DEF ToSet
    <3> QED BY <3>1, <3>2, <1>2, SMT
  <2>5. \A x \in ToSet(t) : x \in ToSet(s) \cup {p}
    BY <2>1, <2>2 DEF ToSet
  <2>6. \A x \in ToSet(s) : x \in ToSet(t)
    BY <2>1, <2>4 DEF ToSet
  <2> QED BY <2>3, <2>5, <2>6
<1> QED BY <1>1, <1>4, <1>5 DEF t

\* list_sort's result.
LEMMA ListSortSorts ==
  ASSUME numdeps \in [Packages -> Nat], NEW list \in Seq(Packages)
  PROVE  /\ ListSort(list) \in Seq(Packages)
         /\ Sorted(ListSort(list))
         /\ ToSet(ListSort(list)) = ToSet(list)
         /\ Len(ListSort(list)) = Len(list)
<1> DEFINE n == Len(list)
           S == {s \in Seq(Packages) : Sorted(s)}
           base == <<>>
           step == [x \in S \X (1..n) |-> InsertSorted(x[1], list[x[2]])]
           F(g) == [k \in 0..n |-> IF k = 0 THEN <<>> ELSE InsertSorted(g[k - 1], list[k])]
<1>0. n \in Nat /\ \A k \in 1..n : list[k] \in Packages
  OBVIOUS
<1>1. base \in S
  BY Len(<<>>) = 0, SMT DEF Sorted
<1>2. step \in [S \X (1..n) -> S]
  <2>1. ASSUME NEW x \in S, NEW k \in 1..n PROVE InsertSorted(x, list[k]) \in S
    BY <1>0, InsertSortedSorts
  <2> HIDE DEF S, n
  <2> QED BY <2>1
<1>3. PICK g : Computes(g, S, n, base, step)
  <2> HIDE DEF step, S, n, base
  <2> QED BY <1>0, <1>1, <1>2, Recursion
<1>4. g \in [0..n -> S] /\ g[0] = base /\ \A k \in 1..n : g[k] = step[<<g[k - 1], k>>]
  <2> HIDE DEF step, S, n, base
  <2> QED BY <1>3 DEF Computes
<1>5. g = F(g)
  <2>1. ASSUME NEW k \in 1..n PROVE g[k] = InsertSorted(g[k - 1], list[k])
    <3>1. k - 1 \in 0..n
      BY <1>0, SMT
    <3>2. g[k - 1] \in S
      <4> HIDE DEF S, step
      <4> QED BY <3>1, <1>4
    <3>3. step[<<g[k - 1], k>>] = InsertSorted(g[k - 1], list[k])
      <4> HIDE DEF S, n
      <4> QED BY <3>2
    <3> HIDE DEF S, step
    <3> QED BY <3>3, <1>4
  <2>2. ASSUME NEW k \in 0..n PROVE g[k] = F(g)[k]
    <3>1. k = 0 \/ k \in 1..n
      BY <1>0, SMT
    <3>2. k \in 1..n => F(g)[k] = InsertSorted(g[k - 1], list[k])
      BY <1>0, SMT
    <3>3. F(g)[0] = <<>>
      BY <1>0, SMT
    <3> HIDE DEF F, S, step
    <3> QED BY <3>1, <3>2, <3>3, <2>1, <1>4
  <2> HIDE DEF S, step
  <2> QED BY <2>2, <1>4
<1>6. PICK h : h = F(h) /\ ListSort(list) = h[n]
  BY <1>5 DEF ListSort
<1>7. h[0] = <<>> /\ \A k \in 1..n : h[k] = InsertSorted(h[k - 1], list[k])
  <2>1. \A k \in 0..n : h[k] = F(h)[k]
    <3> HIDE DEF F
    <3> QED BY <1>6
  <2>2. F(h)[0] = <<>> /\ \A k \in 1..n : F(h)[k] = InsertSorted(h[k - 1], list[k])
    BY <1>0, SMT
  <2>3. 0 \in 0..n /\ \A k \in 1..n : k \in 0..n
    BY <1>0, SMT
  <2> HIDE DEF F
  <2> QED BY <2>1, <2>2, <2>3
<1> DEFINE Upto(k) == {list[j] : j \in 1..k}
           T == {k \in 0..n : h[k] \in S /\ ToSet(h[k]) = Upto(k) /\ Len(h[k]) = k}
<1>8. 0 \in T
  <2>1. 0 \in 0..n /\ Upto(0) = {} /\ ToSet(<<>>) = {} /\ Len(<<>>) = 0
    BY <1>0, SMT DEF ToSet
  <2> HIDE DEF S, Upto
  <2> QED BY <2>1, <1>1, <1>7
<1>9. ASSUME NEW k \in 1..n, k - 1 \in T PROVE k \in T
  <2>1. k \in 0..n /\ k - 1 \in 0..n /\ (k - 1) + 1 = k
    BY <1>0, SMT
  <2>2. h[k - 1] \in Seq(Packages) /\ Sorted(h[k - 1]) /\ list[k] \in Packages
    BY <1>0, <1>9
  <2>3. h[k] \in S /\ ToSet(h[k]) = ToSet(h[k - 1]) \cup {list[k]} /\ Len(h[k]) = Len(h[k - 1]) + 1
    BY <2>2, <1>7, InsertSortedSorts
  <2>4. Upto(k) = Upto(k - 1) \cup {list[k]}
    <3>1. \A j : j \in 1..k <=> j = k \/ j \in 1..(k - 1)
      BY SMT
    <3> QED BY <3>1
  <2> HIDE DEF Upto, S
  <2> QED BY <2>1, <2>3, <2>4, <1>9
<1>10. n \in T
  <2>1. n \in 0..n
    BY <1>0, SMT
  <2> HIDE DEF T, n
  <2> QED BY <2>1, <1>0, <1>8, <1>9, UpTo
<1>11. Upto(n) = ToSet(list)
  BY DEF ToSet
<1> HIDE DEF Upto
<1> QED BY <1>6, <1>10, <1>11

-----------------------------------------------------------------------------
(* The packages, their statements and what a symbol refers to *)

\* A call on the stack.
Frame == [package : Packages, dep : Nat \ {0}]

\* The list is a list of all packages, each of which has its place.
LEMMA Menu ==
  ASSUME TypeOK
  PROVE  /\ Len(menu) \in Nat /\ DOMAIN menu = 1..Len(menu) /\ i \in 1..Len(menu)
         /\ \A j \in 1..Len(menu) : menu[j] \in Packages
         /\ \A j, k \in 1..Len(menu) : menu[j] = menu[k] => j = k
         /\ \A p \in Packages : \E j \in 1..Len(menu) : menu[j] = p
         /\ IsFiniteSet(Packages)
<1>1. menu \in Seq(Packages) /\ ToSet(menu) = Packages /\ Len(menu) = Cardinality(Packages) /\ i \in DOMAIN menu
  BY DEF TypeOK
<1>2. Len(menu) \in Nat /\ DOMAIN menu = 1..Len(menu) /\ \A j \in 1..Len(menu) : menu[j] \in Packages
  BY <1>1
<1>3. \A j, k \in 1..Len(menu) : menu[j] = menu[k] => j = k
  BY <1>1, FullListIsInjective
<1>4. \A p \in Packages : \E j \in 1..Len(menu) : menu[j] = p
  BY <1>1, <1>2 DEF ToSet
<1>5. IsFiniteSet(Packages)
  BY <1>1, ListIsFinite
<1> QED BY <1>1, <1>2, <1>3, <1>4, <1>5

\* Statements are about packages, and a virtual package's only one is the one
\* that selects its provider.
LEMMA Selects ==
  ASSUME TypeOK, NEW s \in All
  PROVE  /\ s.by \in Packages /\ s.cond \in Packages \cup {Off}
         /\ s.sel \in Packages /\ s.sel \notin Platform
         /\ s.by \in Virtual \/ s.cond \in Virtual => s.by = s.cond /\ s.sel = provider[s.by]
<1>1. /\ selects \subseteq Statements
      /\ provider \in [Virtual -> Packages \ (Virtual \cup Platform)]
  BY DEF TypeOK
<1>2. /\ Virtual \subseteq Packages /\ Off \notin Packages
      /\ \A t \in Statements : /\ t.by \in Packages \ Virtual
                              /\ t.cond \in (Packages \ Virtual) \cup {Off}
                              /\ t.sel \in Packages \ Platform
  BY DependsAssumption
<1>3. \A v \in Virtual : provider[v] \in Packages \ (Virtual \cup Platform)
  BY <1>1
<1>4. CASE s \in selects
  BY <1>4, <1>1, <1>2
<1>5. CASE s \in {[by |-> v, cond |-> v, sel |-> provider[v]] : v \in Virtual}
  <2>1. PICK v \in Virtual : s = [by |-> v, cond |-> v, sel |-> provider[v]]
    BY <1>5
  <2>2. s.by = v /\ s.cond = v /\ s.sel = provider[v]
    BY <2>1
  <2> QED BY <2>2, <1>2, <1>3
<1> QED BY <1>4, <1>5 DEF All

\* A virtual package selects its provider, another package.
LEMMA Providers ==
  ASSUME TypeOK
  PROVE  /\ \A v \in Virtual : /\ provider[v] \in Packages \ (Virtual \cup Platform)
                             /\ \E s \in All : s.by = v /\ s.cond = v /\ s.sel = provider[v]
         /\ Virtual \subseteq Packages /\ Off \notin Packages
<1>1. /\ provider \in [Virtual -> Packages \ (Virtual \cup Platform)]
      /\ Virtual \subseteq Packages /\ Off \notin Packages
  BY DependsAssumption DEF TypeOK
<1>2. ASSUME NEW v \in Virtual PROVE \E s \in All : s.by = v /\ s.cond = v /\ s.sel = provider[v]
  <2> DEFINE s == [by |-> v, cond |-> v, sel |-> provider[v]]
  <2>1. s \in All /\ s.by = v /\ s.cond = v /\ s.sel = provider[v]
    BY DEF All
  <2> QED BY <2>1
<1> QED BY <1>1, <1>2

\* There are finitely many statements.
LEMMA FinitelyMany == TypeOK => IsFiniteSet(All)
<1> SUFFICES ASSUME TypeOK PROVE IsFiniteSet(All)
  OBVIOUS
<1> DEFINE V == {[by |-> v, cond |-> v, sel |-> provider[v]] : v \in Virtual}
           f == [v \in Virtual |-> [by |-> v, cond |-> v, sel |-> provider[v]]]
<1>1. IsFiniteSet(selects)
  BY FS_Subset, DependsAssumption DEF TypeOK
<1>2. IsFiniteSet(Virtual)
  BY Menu, Providers, FS_Subset
<1>3. f \in [Virtual -> V] /\ \A t \in V : \E v \in Virtual : f[v] = t
  OBVIOUS
<1> HIDE DEF f
<1>4. f \in Surjection(Virtual, V)
  <2> HIDE DEF V
  <2> QED BY <1>3 DEF Surjection
<1>5. IsFiniteSet(V)
  BY <1>2, <1>4, FS_Surjection
<1>6. All = selects \cup V
  BY DEF All
<1> HIDE DEF V
<1> QED BY <1>1, <1>5, <1>6, FS_Union

\* Refs lists the packages that a selection of q involves.
LEMMA References ==
  ASSUME TypeOK, NEW q \in Packages
  PROVE  /\ Refs(q) \in Seq(Packages)
         /\ DOMAIN Refs(q) = 1..Len(Refs(q)) /\ Len(Refs(q)) \in Nat
         /\ \A k \in DOMAIN Refs(q) : Refs(q)[k] \in Packages
         /\ \A p \in Packages :
              Selection(<<p, q>>) <=> \E k \in DOMAIN Refs(q) : Refs(q)[k] = p
<1> DEFINE R == (UNION {{s.by, s.cond} : s \in {t \in All : t.sel = q}}) \ {Off}
<1>1. R \subseteq Packages
  <2>1. ASSUME NEW s \in All PROVE {s.by, s.cond} \ {Off} \subseteq Packages
    BY Selects
  <2> QED BY <2>1
<1>2. IsFiniteSet(R)
  <2> HIDE DEF R
  <2> QED BY <1>1, Menu, FS_Subset
<1>3. Refs(q) = SetToSeq(R)
  BY DEF Refs
<1>4. \A p \in Packages : p \in R <=> Selection(<<p, q>>)
  <2>1. \A p \in Packages : p # Off
    BY Providers
  <2>2. \A p : Selection(<<p, q>>) <=> \E s \in All : s.sel = q /\ p \in {s.by, s.cond}
    BY DEF Selection
  <2> QED BY <2>1, <2>2
<1> HIDE DEF R
<1>5. /\ Refs(q) \in Seq(R) /\ Refs(q) \in [1..Cardinality(R) -> R] /\ Len(Refs(q)) = Cardinality(R)
      /\ \A x \in R : \E k \in 1..Cardinality(R) : Refs(q)[k] = x
      /\ Cardinality(R) \in Nat
  BY <1>2, <1>3, SetToSeqElements
<1>6. DOMAIN Refs(q) = 1..Len(Refs(q)) /\ \A k \in DOMAIN Refs(q) : Refs(q)[k] \in R
  BY <1>5
<1>7. Refs(q) \in Seq(Packages)
  <2> DEFINE r == Refs(q)
  <2>1. r \in Seq(R)
    BY <1>5
  <2> HIDE DEF r
  <2>2. r \in Seq(Packages)
    BY <2>1, <1>1
  <2> QED BY <2>2 DEF r
<1> QED BY <1>1, <1>4, <1>5, <1>6, <1>7

\* What is in force is a selection, of no platform; a virtual package uses its
\* provider only.
LEMMA InForceIsSelection ==
  ASSUME TypeOK, NEW q \in Packages, NEW p \in Packages
  PROVE  /\ InForce(<<q, p>>) => Selection(<<q, p>>) /\ p \notin Platform
         /\ q \in Virtual => (InForce(<<q, p>>) <=> p = provider[q])
<1>1. InForce(<<q, p>>) <=> \E s \in All : s.sel = p /\ s.cond # Off /\ q \in {s.by, s.cond}
  BY DEF InForce
<1>2. Selection(<<q, p>>) <=> \E s \in All : s.sel = p /\ q \in {s.by, s.cond}
  BY DEF Selection
<1>3. InForce(<<q, p>>) => Selection(<<q, p>>)
  BY <1>1, <1>2
<1>4. InForce(<<q, p>>) => p \notin Platform
  BY <1>1, Selects
<1>5. ASSUME q \in Virtual, InForce(<<q, p>>) PROVE p = provider[q]
  <2>1. PICK s \in All : s.sel = p /\ q \in {s.by, s.cond}
    BY <1>1, <1>5
  <2>2. s.by \in Virtual \/ s.cond \in Virtual
    BY <2>1, <1>5
  <2>3. s.by = s.cond /\ s.sel = provider[s.by]
    BY <2>2, Selects
  <2> QED BY <2>1, <2>3
<1>6. ASSUME q \in Virtual, p = provider[q] PROVE InForce(<<q, p>>)
  <2>1. PICK s \in All : s.by = q /\ s.cond = q /\ s.sel = provider[q]
    BY <1>6, Providers
  <2>2. q # Off
    BY Providers
  <2> QED BY <1>1, <1>6, <2>1, <2>2
<1> QED BY <1>3, <1>4, <1>5, <1>6

\* What a package is resolved to.
LEMMA Resolved ==
  ASSUME TypeOK, NEW p \in Packages
  PROVE  Resolve(p) \in Packages
BY DEF Resolve, TypeOK

-----------------------------------------------------------------------------
(* The steps on the stack and along the list *)

\* A stack that is not empty.
LEMMA Stack ==
  ASSUME TypeOK
  PROVE  /\ DOMAIN stack = 1..Len(stack) /\ Len(stack) \in Nat
         /\ \A k \in 1..Len(stack) : stack[k].package \in Packages /\ stack[k].dep \in Nat \ {0}
         /\ stack # <<>> => /\ Len(stack) \in 1..Len(stack) /\ Top = stack[Len(stack)]
                            /\ 1 \in 1..Len(stack)
<1>1. stack \in Seq(Frame)
  BY DEF TypeOK, Frame
<1>2. DOMAIN stack = 1..Len(stack) /\ Len(stack) \in Nat
  BY <1>1
<1>3. \A k \in 1..Len(stack) : stack[k] \in Frame
  BY <1>1
<1>4. \A f \in Frame : f.package \in Packages /\ f.dep \in Nat \ {0}
  BY DEF Frame
<1>5. stack # <<>> => Len(stack) \in 1..Len(stack) /\ 1 \in 1..Len(stack)
  BY <1>1
<1> QED BY <1>2, <1>3, <1>4, <1>5 DEF Top

\* A call adds an element.
LEMMA Calling ==
  ASSUME TypeOK, NEW p \in Packages, Call(p)
  PROVE  /\ stack' \in Seq(Frame) /\ Len(stack') = Len(stack) + 1
         /\ DOMAIN stack' = 1..(Len(stack) + 1)
         /\ \A k \in 1..Len(stack) : stack'[k] = stack[k]
         /\ stack'[Len(stack) + 1].package = p /\ stack'[Len(stack) + 1].dep = 1
<1> DEFINE f == [package |-> p, dep |-> 1]
<1>1. stack \in Seq(Frame) /\ f \in Frame /\ f.package = p /\ f.dep = 1
  BY DEF TypeOK, Frame
<1>2. stack' = Append(stack, f)
  BY DEF Call
<1> HIDE DEF f
<1>3. /\ stack' \in Seq(Frame) /\ Len(stack') = Len(stack) + 1
      /\ \A k \in 1..Len(stack) : stack'[k] = stack[k]
      /\ stack'[Len(stack) + 1] = f
  BY <1>1, <1>2
<1> QED BY <1>1, <1>3

\* A return leaves the callers, with the innermost one's position moved on.
LEMMA Returning ==
  ASSUME TypeOK, stack # <<>>, stack' = Callers
  PROVE  /\ stack' \in Seq(Frame) /\ Len(stack') = Len(stack) - 1
         /\ DOMAIN stack' = 1..(Len(stack) - 1)
         /\ (Callers = <<>>) <=> (Len(stack) = 1)
         /\ \A k \in 1..(Len(stack) - 1) :
              /\ stack'[k].package = stack[k].package
              /\ stack'[k].dep = IF k = Len(stack) - 1 THEN stack[k].dep + 1 ELSE stack[k].dep
<1>1. stack \in Seq(Frame) /\ Len(stack) \in Nat \ {0}
  <2>1. stack \in Seq(Frame)
    BY DEF TypeOK, Frame
  <2> QED BY <2>1
<1>2. CASE Len(stack) = 1
  <2>1. stack' = <<>> /\ Callers = <<>>
    BY <1>2 DEF Callers
  <2>2. <<>> \in Seq(Frame) /\ Len(<<>>) = 0 /\ DOMAIN <<>> = 1..0 /\ Len(stack) - 1 = 0
        /\ \A k \in 1..0 : FALSE
    BY <1>2, SMT
  <2> QED BY <2>1, <2>2, <1>2
<1>3. CASE Len(stack) # 1
  <2> DEFINE n == Len(stack) - 1
             t == Front(stack)
             f == [t[n] EXCEPT !.dep = @ + 1]
  <2>0. n \in Nat /\ n \in 1..n /\ n \in 1..Len(stack) /\ n # 0
    <3> DEFINE m == Len(stack)
    <3>1. m \in Nat \ {0} /\ m # 1 /\ n = m - 1
      BY <1>1, <1>3
    <3> HIDE DEF m, n
    <3>2. n \in Nat /\ n \in 1..n /\ n \in 1..m /\ n # 0
      BY <3>1, SMT
    <3> QED BY <3>2 DEF m
  <2>1. t \in Seq(Frame) /\ Len(t) = n /\ \A k \in 1..n : t[k] = stack[k]
    BY <1>1, FrontElements
  <2>2. Callers = [t EXCEPT ![n] = f]
    BY <1>3 DEF Callers
  <2>3. t[n] \in Frame /\ f \in Frame /\ f.package = stack[n].package /\ f.dep = stack[n].dep + 1
    <3>1. t[n] \in Frame /\ t[n] = stack[n]
      BY <2>0, <2>1
    <3>2. f \in Frame /\ f.package = t[n].package /\ f.dep = t[n].dep + 1
      BY <3>1 DEF Frame
    <3> QED BY <3>1, <3>2
  <2> HIDE DEF f, t, n
  <2>4. /\ Callers \in Seq(Frame) /\ Len(Callers) = n /\ DOMAIN Callers = 1..n
        /\ \A k \in 1..n : Callers[k] = IF k = n THEN f ELSE t[k]
    BY <2>0, <2>1, <2>2, <2>3
  <2>5. Callers # <<>>
    BY <2>0, <2>4
  <2>6. \A k \in 1..n : /\ Callers[k].package = stack[k].package
                        /\ Callers[k].dep = IF k = n THEN stack[k].dep + 1 ELSE stack[k].dep
    BY <2>1, <2>3, <2>4
  <2> QED BY <2>4, <2>5, <2>6, <1>3 DEF n
<1> QED BY <1>2, <1>3

\* The next dependency of the innermost call.
LEMMA Skipping ==
  ASSUME TypeOK, stack # <<>>, stack' = [stack EXCEPT ![Len(stack)].dep = @ + 1]
  PROVE  /\ stack' \in Seq(Frame) /\ Len(stack') = Len(stack)
         /\ DOMAIN stack' = 1..Len(stack)
         /\ \A k \in 1..Len(stack) :
              /\ stack'[k].package = stack[k].package
              /\ stack'[k].dep = IF k = Len(stack) THEN stack[k].dep + 1 ELSE stack[k].dep
<1> DEFINE n == Len(stack)
           f == [stack[n] EXCEPT !.dep = @ + 1]
<1>1. stack \in Seq(Frame) /\ n \in 1..n /\ n \in Nat
  BY Stack DEF TypeOK, Frame
<1>2. stack[n] \in Frame
  BY <1>1
<1>3. f \in Frame /\ f.package = stack[n].package /\ f.dep = stack[n].dep + 1
  BY <1>2 DEF Frame
<1>4. stack' = [stack EXCEPT ![n] = f]
  OBVIOUS
<1> HIDE DEF f
<1>5. /\ stack' \in Seq(Frame) /\ Len(stack') = n /\ DOMAIN stack' = 1..n
      /\ \A k \in 1..n : stack'[k] = IF k = n THEN f ELSE stack[k]
  BY <1>1, <1>3, <1>4
<1> QED BY <1>3, <1>5

\* The symbol that sym_check_deps comes to.
LEMMA NextReference ==
  ASSUME TypeOK, stack # <<>>, Top.dep <= Len(Refs(Top.package))
  PROVE  /\ Top.package \in Packages
         /\ Top.dep \in DOMAIN Refs(Top.package)
         /\ Refs(Top.package)[Top.dep] \in Packages
<1>1. Top.package \in Packages /\ Top.dep \in Nat \ {0}
  BY Stack
<1>2. Top.dep \in DOMAIN Refs(Top.package)
  BY <1>1, References
<1> QED BY <1>1, <1>2, References

\* The package that count_package_deps comes to.
LEMMA NextDependency ==
  ASSUME TypeOK, stack # <<>>, Top.dep <= Len(deps[Top.package])
  PROVE  /\ Top.package \in Packages
         /\ Top.dep \in DOMAIN deps[Top.package]
         /\ deps[Top.package][Top.dep] \in Packages
         /\ Resolve(deps[Top.package][Top.dep]) \in Packages
<1> DEFINE d == deps[Top.package]
<1>1. Top.package \in Packages /\ Top.dep \in Nat \ {0} /\ Top.dep <= Len(d)
  BY Stack
<1>2. d \in Seq(Packages)
  BY <1>1 DEF TypeOK
<1> HIDE DEF d
<1>3. Top.dep \in DOMAIN d /\ d[Top.dep] \in Packages
  BY <1>1, <1>2
<1>4. Resolve(d[Top.dep]) \in Packages
  BY <1>3, Resolved
<1> QED BY <1>1, <1>3, <1>4 DEF d

\* The next element of the list, or the next function from its first one on.
LEMMA Advancing ==
  ASSUME TypeOK, NEW next, Advance(next)
  PROVE  /\ i' \in 1..Len(menu)
         /\ i < Len(menu) => i' = i + 1 /\ phase' = phase
         /\ ~(i < Len(menu)) => i = Len(menu) /\ i' = 1 /\ phase' = next
<1>1. Len(menu) \in Nat /\ i \in 1..Len(menu)
  BY Menu
<1>2. CASE i < Len(menu)
  BY <1>1, <1>2, SMT DEF Advance
<1>3. CASE ~(i < Len(menu))
  BY <1>1, <1>3, SMT DEF Advance
<1> QED BY <1>2, <1>3

\* What build_deps adds for the package it is at.
LEMMA Adding ==
  ASSUME TypeOK, BuildDeps
  PROVE  /\ menu[i] \in Packages
         /\ deps' \in [Packages -> Seq(Packages)]
         /\ \A q \in Packages :
              ToSet(deps'[q]) = ToSet(deps[q]) \cup {p \in {menu[i]} : InForce(<<q, p>>)}
<1> DEFINE p == menu[i]
           U(q) == {s \in All : s.sel = p /\ q \in Named(s)}
           more(q) == [k \in 1..Cardinality(U(q)) |-> p]
<1>1. p \in Packages
  BY Menu
<1>2. deps' = [q \in Packages |-> deps[q] \o more(q)]
  BY DEF BuildDeps
<1>3. ASSUME NEW q \in Packages
      PROVE  /\ deps[q] \o more(q) \in Seq(Packages)
             /\ ToSet(deps[q] \o more(q)) = ToSet(deps[q]) \cup {x \in {p} : InForce(<<q, x>>)}
  <2>1. IsFiniteSet(U(q)) /\ Cardinality(U(q)) \in Nat
    <3>1. U(q) \subseteq All
      OBVIOUS
    <3> HIDE DEF U
    <3>2. IsFiniteSet(U(q))
      BY <3>1, FinitelyMany, FS_Subset
    <3> QED BY <3>2, FS_CardinalityType
  <2>2. Cardinality(U(q)) = 0 <=> U(q) = {}
    <3> HIDE DEF U
    <3> QED BY <2>1, FS_EmptySet
  <2>3. U(q) = {} <=> ~InForce(<<q, p>>)
    <3>1. InForce(<<q, p>>) <=> \E s \in All : s.sel = p /\ s.cond # Off /\ q \in {s.by, s.cond}
      BY DEF InForce
    <3>2. \A s : q \in Named(s) <=> s.cond # Off /\ q \in {s.by, s.cond}
      BY DEF Named
    <3> HIDE DEF p
    <3> QED BY <3>1, <3>2
  <2> DEFINE n == Cardinality(U(q))
             m == more(q)
             d == deps[q]
  <2>4. m \in Seq(Packages) /\ Len(m) = n /\ \A k \in 1..n : m[k] = p
    <3> HIDE DEF p, U
    <3> QED BY <1>1, <2>1
  <2>5. d \in Seq(Packages)
    BY DEF TypeOK
  <2> HIDE DEF d, m, n
  <2>6. d \o m \in Seq(Packages) /\ ToSet(d \o m) = ToSet(d) \cup ToSet(m)
    BY <2>4, <2>5, ConcatElements
  <2>7. ToSet(m) = {x \in {p} : InForce(<<q, x>>)}
    <3>1. DOMAIN m = 1..n /\ n \in Nat
      BY <2>1, <2>4 DEF n
    <3>2. CASE n = 0
      <4>1. ~InForce(<<q, p>>)
        BY <3>2, <2>2, <2>3 DEF n
      <4>2. ToSet(m) = {}
        BY <3>1, <3>2, SMT DEF ToSet
      <4> HIDE DEF p
      <4> QED BY <4>1, <4>2
    <3>3. CASE n # 0
      <4>1. InForce(<<q, p>>)
        BY <3>3, <2>2, <2>3 DEF n
      <4>2. 1 \in 1..n
        BY <3>1, <3>3, SMT
      <4> HIDE DEF p
      <4>3. ToSet(m) = {p}
        BY <3>1, <4>2, <2>4 DEF ToSet
      <4> QED BY <4>1, <4>3
    <3> QED BY <3>2, <3>3
  <2> QED BY <2>6, <2>7 DEF d, m
<1> HIDE DEF more
<1>4. deps' \in [Packages -> Seq(Packages)]
  BY <1>2, <1>3
<1>5. \A q \in Packages : deps'[q] = deps[q] \o more(q)
  BY <1>2
<1> QED BY <1>1, <1>3, <1>4, <1>5

\* What resolve_deps makes of the list it is at.
LEMMA Replacing ==
  ASSUME TypeOK, ResolveDeps
  PROVE  /\ menu[i] \in Packages
         /\ deps' \in [Packages -> Seq(Packages)]
         /\ \A q \in Packages : q # menu[i] => deps'[q] = deps[q]
         /\ ToSet(deps'[menu[i]]) = {Resolve(d) : d \in ToSet(deps[menu[i]])} \ {menu[i]}
<1> DEFINE p == menu[i]
           d == deps[p]
           r == [k \in DOMAIN d |-> Resolve(d[k])]
           f == Filter(r, Packages \ {p})
<1>1. p \in Packages /\ d \in Seq(Packages)
  BY Menu DEF TypeOK
<1>2. deps' = [deps EXCEPT ![p] = f]
  BY DEF ResolveDeps
<1>3. deps \in [Packages -> Seq(Packages)]
  BY DEF TypeOK
<1> HIDE DEF d, p
<1>4. r \in Seq(Packages) /\ DOMAIN r = DOMAIN d
  <2>1. DOMAIN d = 1..Len(d) /\ Len(d) \in Nat /\ \A k \in 1..Len(d) : d[k] \in Packages
    BY <1>1
  <2>2. \A k \in 1..Len(d) : Resolve(d[k]) \in Packages
    BY <2>1, Resolved
  <2> QED BY <2>1, <2>2
<1>5. ToSet(r) = {Resolve(x) : x \in ToSet(d)} /\ ToSet(r) \subseteq Packages
  <2>1. ToSet(r) = {Resolve(x) : x \in ToSet(d)}
    BY DEF ToSet
  <2>2. ToSet(r) \subseteq Packages
    <3> HIDE DEF r
    <3> QED BY <1>4, ListIsFinite
  <2> QED BY <2>1, <2>2
<1> HIDE DEF r
<1>6. f \in Seq(Packages) /\ ToSet(f) = ToSet(r) \cap (Packages \ {p})
  BY <1>4, FilterSelects, FilterElements
<1> HIDE DEF f
<1>7. /\ deps' \in [Packages -> Seq(Packages)] /\ deps'[p] = f
      /\ \A q \in Packages : q # p => deps'[q] = deps[q]
  BY <1>1, <1>2, <1>3, <1>6
<1>8. ToSet(deps'[p]) = {Resolve(x) : x \in ToSet(d)} \ {p}
  BY <1>5, <1>6, <1>7
<1> QED BY <1>1, <1>7, <1>8 DEF d, p

\* What write_compat makes of the list.
LEMMA Writing ==
  ASSUME TypeOK, WriteCompat
  PROVE  /\ menu' \in Seq(Packages) /\ ToSet(menu') = Packages /\ Len(menu') = Len(menu)
         /\ dirs' \in Seq(Packages) /\ master' \in Platform \cup {Off}
<1> DEFINE packages  == Filter(menu', Packages \ (Virtual \cup Platform))
           platforms == Filter(menu', Platform \ Parents)
<1>1. menu' \in Seq(Packages) /\ ToSet(menu') = Packages /\ Len(menu') = Len(menu)
  BY ListSortSorts DEF WriteCompat, TypeOK
<1>2. /\ packages \in Seq(Packages)
      /\ platforms \in Seq(Packages) /\ ToSet(platforms) \subseteq Platform
  BY <1>1, FilterSelects, FilterElements
<1>3. dirs' = packages \o platforms /\ master' = IF platforms = <<>> THEN Off ELSE Last(platforms)
  BY DEF WriteCompat
<1> HIDE DEF packages, platforms
<1>4. dirs' \in Seq(Packages)
  BY <1>2, <1>3
<1>5. platforms # <<>> => Last(platforms) \in ToSet(platforms)
  BY <1>2 DEF Last, ToSet
<1> QED BY <1>1, <1>2, <1>3, <1>4, <1>5

-----------------------------------------------------------------------------
(* Types *)

\* The types hold at first.
LEMMA TypeInit == Init => TypeOK
<1> SUFFICES ASSUME Init PROVE TypeOK
  OBVIOUS
<1>1. menu \in Seq(Packages) /\ ToSet(menu) = Packages /\ Len(menu) = Cardinality(Packages)
  BY DependsAssumption DEF Init
<1>2. i \in DOMAIN menu
  <2>1. i = 1 /\ menu # <<>>
    BY <1>1, DependsAssumption DEF Init, ToSet
  <2> QED BY <1>1, <2>1
<1>3. <<>> \in Seq([package : Packages, dep : Nat \ {0}]) /\ <<>> \in Seq(Packages)
  OBVIOUS
<1> QED BY <1>1, <1>2, <1>3 DEF Init, TypeOK, Phases

\* Each step keeps them.
LEMMA TypeStep == TypeOK /\ [Next]_vars => TypeOK'
<1> SUFFICES ASSUME TypeOK, [Next]_vars PROVE TypeOK'
  OBVIOUS
<1> USE DEF input, check, files
<1>0. /\ i \in 1..Len(menu) /\ DOMAIN menu = 1..Len(menu) /\ menu[i] \in Packages
  BY Menu
<1>1. CASE CheckRoot
  <2>1. CASE menu[i] \in checked
    <3>1. Advance("exit?") /\ UNCHANGED <<checked, stack>>
      BY <1>1, <2>1 DEF CheckRoot
    <3>2. i' \in 1..Len(menu) /\ phase' \in Phases
      BY <3>1, Advancing DEF TypeOK, Phases
    <3> QED BY <3>1, <3>2, <1>0, <1>1 DEF CheckRoot, TypeOK
  <2>2. CASE menu[i] \notin checked
    <3>1. stack' \in Seq(Frame)
      BY <1>0, <1>1, <2>2, Calling DEF CheckRoot
    <3> QED BY <3>1, <1>0, <1>1, <2>2 DEF CheckRoot, TypeOK, Frame
  <2> QED BY <2>1, <2>2
<1>2. CASE CheckDep
  <2> DEFINE sym == Refs(Top.package)[Top.dep]
  <2>1. sym \in Packages
    BY <1>2, NextReference DEF CheckDep
  <2>2. CASE OnStack(sym) /\ reported' = TRUE /\ found' = sym /\ UNCHANGED <<checked, stack>>
    BY <2>1, <2>2, <1>2 DEF CheckDep, TypeOK
  <2>3. CASE stack' = [stack EXCEPT ![Len(stack)].dep = @ + 1] /\ UNCHANGED <<checked, found, reported>>
    <3>1. stack' \in Seq(Frame)
      BY <2>3, <1>2, Skipping DEF CheckDep
    <3> QED BY <3>1, <2>3, <1>2 DEF CheckDep, TypeOK, Frame
  <2>4. CASE Call(sym) /\ checked' = checked \cup {sym} /\ UNCHANGED <<found, reported>>
    <3>1. stack' \in Seq(Frame)
      BY <2>1, <2>4, Calling
    <3> QED BY <3>1, <2>1, <2>4, <1>2 DEF CheckDep, TypeOK, Frame
  <2> HIDE DEF sym
  <2> QED BY <2>2, <2>3, <2>4, <1>2 DEF CheckDep, sym
<1>3. CASE CheckReturn
  <2>1. stack' \in Seq(Frame)
    BY <1>3, Returning DEF CheckReturn
  <2>2. CASE Callers = <<>>
    <3>1. nerrs' \in BOOLEAN /\ found' = Off /\ Advance("exit?")
      BY <1>3, <2>2 DEF CheckReturn, TypeOK
    <3>2. i' \in 1..Len(menu) /\ phase' \in Phases
      BY <3>1, Advancing DEF TypeOK, Phases
    <3> QED BY <2>1, <3>1, <3>2, <1>0, <1>3 DEF CheckReturn, TypeOK, Frame
  <2>3. CASE Callers # <<>>
    <3>1. found' \in Packages \cup {Off} /\ UNCHANGED <<nerrs, phase, i>>
      BY <1>3, <2>3 DEF CheckReturn, TypeOK
    <3> QED BY <2>1, <3>1, <1>3 DEF CheckReturn, TypeOK, Frame
  <2> QED BY <2>2, <2>3
<1>4. CASE ExitOnErrors
  BY <1>4 DEF ExitOnErrors, TypeOK, Phases
<1>5. CASE BuildDeps
  <2>1. deps' \in [Packages -> Seq(Packages)]
    BY <1>5, Adding
  <2>2. i' \in 1..Len(menu) /\ phase' \in Phases
    BY <1>5, Advancing DEF BuildDeps, TypeOK, Phases
  <2> QED BY <2>1, <2>2, <1>0, <1>5 DEF BuildDeps, TypeOK
<1>6. CASE CountRoot
  <2>1. stack' \in Seq(Frame)
    BY <1>0, <1>6, Calling DEF CountRoot
  <2> QED BY <2>1, <1>6 DEF CountRoot, TypeOK, Frame
<1>7. CASE CountDep
  <2>5. stack' \in Seq(Frame)
    BY <1>7, NextDependency, Calling DEF CountDep
  <2>6. phase' \in Phases
    BY <1>7 DEF CountDep, TypeOK, Phases
  <2> QED BY <2>5, <2>6, <1>7 DEF CountDep, TypeOK, Frame
<1>8. CASE CountReturn
  <2>1. stack' \in Seq(Frame)
    BY <1>8, Returning DEF CountReturn
  <2>2. CASE Callers = <<>>
    <3>1. Advance("resolve") /\ numdeps' = numdeps
      BY <1>8, <2>2 DEF CountReturn
    <3>2. i' \in 1..Len(menu) /\ phase' \in Phases
      BY <3>1, Advancing DEF TypeOK, Phases
    <3> QED BY <2>1, <3>1, <3>2, <1>0, <1>8 DEF CountReturn, TypeOK, Frame
  <2>3. CASE Callers # <<>>
    <3>1. Top.package \in Packages
      BY <1>8, Stack DEF CountReturn
    <3>2. numdeps' = [numdeps EXCEPT ![Top.package] = @ + 1] /\ UNCHANGED <<phase, i>>
      BY <1>8, <2>3 DEF CountReturn
    <3>3. numdeps' \in [Packages -> Nat]
      BY <3>1, <3>2 DEF TypeOK
    <3> QED BY <2>1, <3>2, <3>3, <1>8 DEF CountReturn, TypeOK, Frame
  <2> QED BY <2>2, <2>3
<1>9. CASE ResolveDeps
  <2>1. deps' \in [Packages -> Seq(Packages)]
    BY <1>9, Replacing
  <2>2. i' \in 1..Len(menu) /\ phase' \in Phases
    BY <1>9, Advancing DEF ResolveDeps, TypeOK, Phases
  <2> QED BY <2>1, <2>2, <1>0, <1>9 DEF ResolveDeps, TypeOK
<1>10. CASE WriteDepends
  BY <1>10 DEF WriteDepends, TypeOK, Phases
<1>11. CASE WriteCompat
  <2>1. /\ menu' \in Seq(Packages) /\ ToSet(menu') = Packages /\ Len(menu') = Len(menu)
        /\ dirs' \in Seq(Packages) /\ master' \in Platform \cup {Off}
    BY <1>11, Writing
  <2>2. DOMAIN menu' = 1..Len(menu)
    BY <2>1
  <2> QED BY <2>1, <2>2, <1>0, <1>11 DEF WriteCompat, TypeOK, Phases
<1>12. CASE UNCHANGED vars
  BY <1>12 DEF vars, TypeOK
<1> QED BY <1>1, <1>2, <1>3, <1>4, <1>5, <1>6, <1>7, <1>8, <1>9, <1>10, <1>11, <1>12 DEF Next

\* The variables stay within their types.
THEOREM TypeCorrect == Spec => []TypeOK
BY TypeInit, TypeStep, PTL DEF Spec

-----------------------------------------------------------------------------
(* The recursions follow dependencies *)

\* What only depends on the configuration stays.
LEMMA Configuration ==
  ASSUME UNCHANGED input
  PROVE  /\ \A p : Refs(p)' = Refs(p)
         /\ \A e : (Selection(e)' <=> Selection(e)) /\ (InForce(e)' <=> InForce(e))
         /\ \A p : Uses(p)' = Uses(p) /\ Edges(p)' = Edges(p) /\ WaitsFor(p)' = WaitsFor(p)
         /\ Circular' <=> Circular
<1>1. \A p : Refs(p)' = Refs(p)
  BY DEF input, Refs, All
<1>2. \A e : Selection(e)' <=> Selection(e)
  BY DEF Selection, input, All
<1>3. \A e : InForce(e)' <=> InForce(e)
  BY DEF InForce, input, All
<1>4. Circular' <=> Circular
  BY <1>2 DEF Circular
<1>5. \A p : Uses(p)' = Uses(p)
  BY <1>3 DEF Uses
<1>6. \A p : Provided(p)' = Provided(p)
  BY DEF Provided, input
<1>7. \A p : Edges(p)' = Edges(p)
  BY <1>5, <1>6 DEF Edges
<1>8. \A p : WaitsFor(p)' = WaitsFor(p)
  BY <1>7 DEF WaitsFor
<1> QED BY <1>1, <1>2, <1>3, <1>4, <1>5, <1>7, <1>8

\* Nor do the lists change but where build_deps and resolve_deps change them.
LEMMA Resolving ==
  ASSUME UNCHANGED deps
  PROVE  \A p : Resolve(p)' = Resolve(p)
BY DEF Resolve

\* The input never changes.
LEMMA InputStays == [Next]_vars => UNCHANGED input
BY DEF Next, vars, CheckRoot, CheckDep, CheckReturn, ExitOnErrors, BuildDeps, CountRoot, CountDep,
       CountReturn, ResolveDeps, WriteDepends, WriteCompat

\* The stack is empty between the recursions, and its outermost call is for the
\* element of the list the loop has come to.
LEMMA WalkingStep == TypeOK /\ Walking /\ [Next]_vars => Walking'
<1> SUFFICES ASSUME TypeOK, Walking, [Next]_vars PROVE Walking'
  OBVIOUS
<1>0. /\ i \in 1..Len(menu) /\ DOMAIN menu = 1..Len(menu) /\ menu[i] \in Packages /\ Len(menu) \in Nat
  BY Menu
<1>1. CASE CheckRoot
  <2>1. CASE menu[i] \in checked
    <3>1. Advance("exit?") /\ UNCHANGED <<menu, stack>> /\ stack = <<>> /\ phase = "conf_parse"
      BY <1>1, <2>1 DEF CheckRoot
    <3> QED BY <3>1, <1>0, Advancing DEF Walking
  <2>2. CASE menu[i] \notin checked
    <3>1. Call(menu[i]) /\ UNCHANGED <<menu, i, phase>> /\ stack = <<>> /\ phase = "conf_parse"
      BY <1>1, <2>2 DEF CheckRoot
    <3>2. stack'[Len(stack) + 1].package = menu[i] /\ Len(stack) = 0
      BY <3>1, <1>0, Calling
    <3> QED BY <3>1, <3>2 DEF Walking
  <2> QED BY <2>1, <2>2
<1>2. CASE CheckDep
  <2>0. /\ stack # <<>> /\ phase = "conf_parse" /\ UNCHANGED <<menu, i, phase>>
        /\ stack[1].package = menu[i] /\ 1 \in 1..Len(stack)
    BY <1>2, Stack DEF CheckDep, Walking
  <2> DEFINE sym == Refs(Top.package)[Top.dep]
  <2>1. sym \in Packages
    BY <1>2, NextReference DEF CheckDep
  <2>2. CASE UNCHANGED stack
    BY <2>0, <2>2 DEF Walking
  <2>3. CASE stack' = [stack EXCEPT ![Len(stack)].dep = @ + 1]
    <3>1. stack'[1].package = stack[1].package
      BY <2>0, <2>3, Skipping
    <3> QED BY <2>0, <3>1 DEF Walking
  <2>4. CASE Call(sym)
    <3>1. stack'[1] = stack[1]
      BY <2>0, <2>1, <2>4, Calling
    <3> QED BY <2>0, <3>1 DEF Walking
  <2> HIDE DEF sym
  <2> QED BY <2>2, <2>3, <2>4, <1>2 DEF CheckDep, sym
<1>3. ASSUME stack # <<>>, stack' = Callers, UNCHANGED menu, phase \in {"conf_parse", "count"},
             IF Callers = <<>> THEN Advance("exit?") \/ Advance("resolve") ELSE UNCHANGED <<phase, i>>
      PROVE  Walking'
  <2>1. CASE Callers = <<>>
    <3>1. (Advance("exit?") \/ Advance("resolve")) /\ stack' = <<>>
      BY <1>3, <2>1
    <3>2. phase' = "exit?" => i' = 1
      BY <3>1, <1>3, <1>0, Advancing
    <3> QED BY <3>1, <3>2 DEF Walking
  <2>2. CASE Callers # <<>>
    <3>1. 1 \in 1..(Len(stack) - 1)
      BY <1>3, <2>2, Returning, Stack
    <3>2. stack'[1].package = stack[1].package
      BY <1>3, <3>1, Returning
    <3> QED BY <1>3, <2>2, <3>2 DEF Walking
  <2> QED BY <2>1, <2>2
<1>4. CASE CheckReturn
  BY <1>3, <1>4 DEF CheckReturn
<1>5. CASE ExitOnErrors
  BY <1>5 DEF ExitOnErrors, Walking
<1>6. CASE BuildDeps
  <2>1. phase = "build_deps" /\ Advance("count") /\ UNCHANGED <<menu, stack>>
    BY <1>6 DEF BuildDeps
  <2>2. phase' \in {"build_deps", "count"}
    BY <2>1, Advancing
  <2> QED BY <2>1, <2>2 DEF Walking
<1>7. CASE CountRoot
  <2>1. Call(menu[i]) /\ UNCHANGED <<menu, i, phase>> /\ stack = <<>> /\ phase = "count"
    BY <1>7 DEF CountRoot
  <2>2. stack'[Len(stack) + 1].package = menu[i] /\ Len(stack) = 0
    BY <2>1, <1>0, Calling
  <2> QED BY <2>1, <2>2 DEF Walking
<1>8. CASE CountDep
  <2>0. /\ stack # <<>> /\ phase = "count" /\ UNCHANGED <<menu, i>> /\ phase' \in {"count", "overflow"}
        /\ stack[1].package = menu[i] /\ 1 \in 1..Len(stack)
    BY <1>8, Stack DEF CountDep, Walking
  <2>5. stack'[1] = stack[1]
    BY <2>0, <1>8, NextDependency, Calling DEF CountDep
  <2> QED BY <2>0, <2>5 DEF Walking
<1>9. CASE CountReturn
  BY <1>3, <1>9 DEF CountReturn
<1>10. CASE ResolveDeps
  <2>1. phase = "resolve" /\ Advance("write_depends") /\ UNCHANGED <<menu, stack>>
    BY <1>10 DEF ResolveDeps
  <2>2. phase' \in {"resolve", "write_depends"}
    BY <2>1, Advancing
  <2> QED BY <2>1, <2>2 DEF Walking
<1>11. CASE WriteDepends
  BY <1>11 DEF WriteDepends, Walking
<1>12. CASE WriteCompat
  BY <1>12 DEF WriteCompat, Walking
<1>13. CASE UNCHANGED vars
  BY <1>13 DEF vars, Walking
<1> QED BY <1>1, <1>2, <1>4, <1>5, <1>6, <1>7, <1>8, <1>9, <1>10, <1>11, <1>12, <1>13 DEF Next

\* Without the types, StackIsPath speaks of every call but the outermost.
Path(k) ==
  LET caller == stack[k - 1]
  IN  IF phase = "conf_parse"
      THEN /\ caller.dep \in DOMAIN Refs(caller.package)
           /\ Refs(caller.package)[caller.dep] = stack[k].package
      ELSE /\ caller.dep \in DOMAIN deps[caller.package]
           /\ Resolve(deps[caller.package][caller.dep]) = stack[k].package

\* A call or a return leaves the path to the calls that were there.
LEMMA PathStays ==
  ASSUME TypeOK, UNCHANGED input, UNCHANGED deps, (phase = "conf_parse") <=> (phase' = "conf_parse"),
         NEW k \in 2..Len(stack'), k <= Len(stack), Path(k),
         stack'[k - 1].package = stack[k - 1].package, stack'[k - 1].dep = stack[k - 1].dep,
         stack'[k].package = stack[k].package
  PROVE  Path(k)'
<1>1. /\ Refs(stack[k - 1].package)' = Refs(stack[k - 1].package)
      /\ Resolve(deps[stack[k - 1].package][stack[k - 1].dep])' = Resolve(deps[stack[k - 1].package][stack[k - 1].dep])
  BY Configuration, Resolving
<1> QED BY <1>1, Configuration, Resolving DEF Path

\* Each step leaves every call the one its caller has come to.
LEMMA PathStep == TypeOK /\ Walking /\ (\A k \in 2..Len(stack) : Path(k)) /\ [Next]_vars
                    => \A k \in 2..Len(stack') : Path(k)'
<1> SUFFICES ASSUME TypeOK, Walking, \A k \in 2..Len(stack) : Path(k), [Next]_vars,
                    NEW k \in 2..Len(stack')
             PROVE  Path(k)'
  OBVIOUS
<1>0. UNCHANGED input /\ Len(stack) \in Nat
  BY InputStays, Stack
<1>1. CASE stack' = <<>>
  BY <1>1
<1>2. ASSUME (phase = "conf_parse") <=> (phase' = "conf_parse"), UNCHANGED deps,
             k <= Len(stack), stack'[k].package = stack[k].package,
             stack'[k - 1].package = stack[k - 1].package, stack'[k - 1].dep = stack[k - 1].dep
      PROVE  Path(k)'
  <2>1. Path(k)
    BY <1>0, <1>2, SMT
  <2> QED BY <1>0, <1>2, <2>1, PathStays
<1>3. CASE UNCHANGED <<stack, phase, deps>>
  BY <1>0, <1>2, <1>3, SMT
<1>4. ASSUME NEW p \in Packages, Call(p), UNCHANGED deps,
             (phase = "conf_parse") <=> (phase' = "conf_parse"),
             stack # <<>> =>
               IF phase = "conf_parse"
               THEN Top.dep \in DOMAIN Refs(Top.package) /\ Refs(Top.package)[Top.dep] = p
               ELSE /\ Top.dep \in DOMAIN deps[Top.package]
                    /\ Resolve(deps[Top.package][Top.dep]) = p
      PROVE  Path(k)'
  <2>0. /\ Len(stack') = Len(stack) + 1 /\ \A j \in 1..Len(stack) : stack'[j] = stack[j]
        /\ stack'[Len(stack) + 1].package = p
    BY <1>4, Calling
  <2>1. CASE k <= Len(stack)
    <3>1. k \in 1..Len(stack) /\ k - 1 \in 1..Len(stack)
      BY <2>0, <2>1, <1>0, SMT
    <3> QED BY <1>2, <1>4, <2>0, <2>1, <3>1
  <2>2. CASE ~(k <= Len(stack))
    <3>1. k = Len(stack) + 1 /\ k - 1 = Len(stack) /\ Len(stack) \in 1..Len(stack)
      BY <2>0, <2>2, <1>0, SMT
    <3>2. Top = stack[Len(stack)] /\ stack # <<>>
      BY <3>1, Stack DEF Top
    <3>3. stack'[k - 1] = Top /\ stack'[k].package = p
      BY <2>0, <3>1, <3>2
    <3>4. \A q : Refs(q)' = Refs(q) /\ Resolve(q)' = Resolve(q)
      BY <1>0, <1>4, Configuration, Resolving
    <3> QED BY <1>4, <3>2, <3>3, <3>4 DEF Path
  <2> QED BY <2>1, <2>2
<1>5. ASSUME stack # <<>>, stack' = Callers, UNCHANGED deps,
             Callers # <<>> => UNCHANGED phase
      PROVE  Path(k)'
  <2>0. /\ Len(stack') = Len(stack) - 1
        /\ \A j \in 1..(Len(stack) - 1) :
              /\ stack'[j].package = stack[j].package
              /\ stack'[j].dep = IF j = Len(stack) - 1 THEN stack[j].dep + 1 ELSE stack[j].dep
    BY <1>5, Returning
  <2>1. CASE Callers # <<>>
    <3>1. k <= Len(stack) /\ k \in 1..(Len(stack) - 1) /\ k - 1 \in 1..(Len(stack) - 1) /\ k - 1 # Len(stack) - 1
      BY <2>0, <1>0, SMT
    <3> QED BY <1>2, <1>5, <2>0, <2>1, <3>1
  <2> QED BY <1>1, <1>5, <2>1
<1>6. CASE CheckRoot
  <2>1. CASE UNCHANGED stack
    <3>1. stack' = <<>>
      BY <1>6, <2>1 DEF CheckRoot
    <3> QED BY <3>1, <1>1
  <2>2. CASE Call(menu[i]) /\ UNCHANGED phase
    <3>1. stack = <<>> /\ UNCHANGED deps /\ menu[i] \in Packages
      BY <1>6, Menu DEF CheckRoot
    <3> QED BY <3>1, <2>2, <1>4
  <2> QED BY <2>1, <2>2, <1>6 DEF CheckRoot
<1>7. CASE CheckDep
  <2> DEFINE sym == Refs(Top.package)[Top.dep]
  <2>1. /\ stack # <<>> /\ phase = "conf_parse" /\ UNCHANGED <<deps, phase>>
        /\ sym \in Packages /\ Top.dep \in DOMAIN Refs(Top.package)
    BY <1>7, NextReference DEF CheckDep
  <2>2. CASE UNCHANGED stack
    BY <2>1, <2>2, <1>3
  <2>3. CASE stack' = [stack EXCEPT ![Len(stack)].dep = @ + 1]
    <3>1. /\ Len(stack') = Len(stack)
          /\ \A j \in 1..Len(stack) :
               /\ stack'[j].package = stack[j].package
               /\ stack'[j].dep = IF j = Len(stack) THEN stack[j].dep + 1 ELSE stack[j].dep
      BY <2>1, <2>3, Skipping
    <3>2. k <= Len(stack) /\ k \in 1..Len(stack) /\ k - 1 \in 1..Len(stack) /\ k - 1 # Len(stack)
      BY <3>1, <1>0, SMT
    <3> HIDE DEF sym
    <3> QED BY <1>2, <2>1, <3>1, <3>2
  <2>4. CASE Call(sym)
    <3> DEFINE p == sym
    <3>1. p \in Packages /\ Call(p) /\ Refs(Top.package)[Top.dep] = p
      BY <2>1, <2>4
    <3> HIDE DEF p, sym
    <3> QED BY <1>4, <2>1, <3>1
  <2> HIDE DEF sym
  <2> QED BY <2>2, <2>3, <2>4, <1>7 DEF CheckDep, sym
<1>8. CASE CheckReturn
  BY <1>5, <1>8 DEF CheckReturn
<1>9. CASE ExitOnErrors \/ BuildDeps \/ ResolveDeps \/ WriteDepends \/ WriteCompat
  <2>1. stack = <<>> /\ UNCHANGED stack
    BY <1>9 DEF ExitOnErrors, BuildDeps, ResolveDeps, WriteDepends, WriteCompat, Walking
  <2> QED BY <2>1, <1>1
<1>10. CASE CountRoot
  <2>1. Call(menu[i]) /\ stack = <<>> /\ UNCHANGED <<deps, phase>> /\ menu[i] \in Packages
    BY <1>10, Menu DEF CountRoot
  <2> QED BY <2>1, <1>4
<1>11. CASE CountDep
  <2> DEFINE p == Resolve(deps[Top.package][Top.dep])
  <2>1. /\ p \in Packages /\ Call(p) /\ Resolve(deps[Top.package][Top.dep]) = p
        /\ Top.dep \in DOMAIN deps[Top.package]
    BY <1>11, NextDependency DEF CountDep
  <2>2. /\ phase = "count" /\ phase' \in {"count", "overflow"} /\ UNCHANGED deps
    BY <1>11 DEF CountDep
  <2> HIDE DEF p
  <2> QED BY <1>4, <2>1, <2>2
<1>12. CASE CountReturn
  BY <1>5, <1>12 DEF CountReturn
<1>13. CASE UNCHANGED vars
  BY <1>3, <1>13 DEF vars
<1> QED BY <1>6, <1>7, <1>8, <1>9, <1>10, <1>11, <1>12, <1>13 DEF Next

\* StackIsPath in terms of Path.
LEMMA PathParts == StackIsPath <=> TypeOK /\ \A k \in 2..Len(stack) : Path(k)
BY DEF StackIsPath, Path

-----------------------------------------------------------------------------
(* The search for cycles *)

\* A call puts its package on the stack.
LEMMA CallingOnStack ==
  ASSUME TypeOK, NEW p \in Packages, Call(p)
  PROVE  \A q : OnStack(q)' <=> OnStack(q) \/ q = p
<1> DEFINE n == Len(stack)
<1>1. /\ DOMAIN stack' = 1..(n + 1) /\ DOMAIN stack = 1..n /\ n \in Nat
      /\ \A k \in 1..n : stack'[k] = stack[k]
      /\ stack'[n + 1].package = p
  BY Calling, Stack
<1> HIDE DEF n
<1>2. \A k : k \in 1..(n + 1) <=> k = n + 1 \/ k \in 1..n
  BY <1>1, SMT
<1> QED BY <1>1, <1>2 DEF OnStack

\* The next dependency of the innermost call.
LEMMA SkippingOnStack ==
  ASSUME TypeOK, stack # <<>>, stack' = [stack EXCEPT ![Len(stack)].dep = @ + 1]
  PROVE  \A q : OnStack(q)' <=> OnStack(q)
BY Skipping, Stack DEF OnStack

\* A return takes its package off the stack.
LEMMA ReturningOnStack ==
  ASSUME TypeOK, stack # <<>>, stack' = Callers, NoneTwice
  PROVE  NoneTwice' /\ \A q : OnStack(q)' <=> OnStack(q) /\ q # Top.package
<1> DEFINE n == Len(stack)
<1>1. /\ DOMAIN stack = 1..n /\ n \in Nat /\ n \in 1..n /\ Top = stack[n]
      /\ DOMAIN stack' = 1..(n - 1)
      /\ \A k \in 1..(n - 1) : stack'[k].package = stack[k].package
  BY Returning, Stack
<1> HIDE DEF n
<1>2. \A k : k \in 1..n <=> k = n \/ k \in 1..(n - 1)
  BY <1>1, SMT
<1>3. \A k \in 1..(n - 1) : k # n
  BY <1>1, SMT
<1>4. NoneTwice'
  BY <1>1, <1>2 DEF NoneTwice
<1> QED BY <1>1, <1>2, <1>3, <1>4 DEF OnStack, NoneTwice

\* A symbol that is found on the stack closes a cycle.
LEMMA CycleOnStack ==
  ASSUME TypeOK, phase = "conf_parse", \A k \in 2..Len(stack) : Path(k), stack # <<>>,
         Top.dep <= Len(Refs(Top.package)), OnStack(Refs(Top.package)[Top.dep])
  PROVE  Circular
<1> DEFINE n == Len(stack)
           sym == Refs(Top.package)[Top.dep]
<1>1. /\ DOMAIN stack = 1..n /\ n \in Nat /\ n \in 1..n /\ Top = stack[n]
      /\ \A k \in 1..n : stack[k].package \in Packages
  BY Stack
<1>2. Top.package \in Packages /\ sym \in Packages /\ Top.dep \in DOMAIN Refs(Top.package)
  BY NextReference
<1>3. PICK k \in 1..n : stack[k].package = sym
  BY <1>1 DEF OnStack
<1>4. Selection(<<sym, Top.package>>)
  BY <1>2, References
<1>5. ASSUME NEW j \in k..n, j # k PROVE Selection(<<stack[j].package, stack[j - 1].package>>)
  <2>1. j \in 2..n /\ j \in 1..n /\ j - 1 \in 1..n
    BY <1>1, <1>5, SMT
  <2>2. Path(j)
    BY <2>1
  <2>3. /\ stack[j - 1].dep \in DOMAIN Refs(stack[j - 1].package)
        /\ Refs(stack[j - 1].package)[stack[j - 1].dep] = stack[j].package
    BY <2>2 DEF Path
  <2> QED BY <2>1, <2>3, <1>1, References
<1> DEFINE S == {stack[j].package : j \in k..n}
<1>6. S \in (SUBSET Packages) \ {{}}
  <2>1. k..n \subseteq 1..n /\ k \in k..n
    BY <1>1, SMT
  <2> QED BY <2>1, <1>1
<1>7. ASSUME NEW p \in S PROVE \E q \in S : Selection(<<p, q>>)
  <2>1. PICK j \in k..n : p = stack[j].package
    BY <1>7
  <2>2. CASE j = k
    <3>1. Top.package \in S
      <4>1. n \in k..n
        BY <1>1, SMT
      <4> QED BY <4>1, <1>1
    <3> HIDE DEF S, sym
    <3> QED BY <3>1, <2>1, <2>2, <1>3, <1>4
  <2>3. CASE j # k
    <3>1. j - 1 \in k..n
      BY <1>1, <2>3, SMT
    <3>2. stack[j - 1].package \in S
      BY <3>1
    <3>3. Selection(<<p, stack[j - 1].package>>)
      BY <2>1, <2>3, <1>5
    <3> HIDE DEF S
    <3> QED BY <3>2, <3>3
  <2> QED BY <2>2, <2>3
<1> HIDE DEF S
<1> QED BY <1>6, <1>7 DEF Circular

\* The steps that finish no symbol.
LEMMA NoCycleStays ==
  ASSUME TypeOK, UNCHANGED input, NoCycleYet, Finished' = Finished, NoneTwice',
         \A k \in DOMAIN stack' : \A m \in DOMAIN Refs(stack'[k].package) :
           m < stack'[k].dep => Refs(stack'[k].package)[m] \in Finished
  PROVE  NoCycleYet'
<1>1. (\A p : Refs(p)' = Refs(p)) /\ (\A e : Selection(e)' <=> Selection(e))
  BY Configuration
<1>2. \A p \in Finished' : ToSet(Refs(p)') \subseteq Finished'
  BY <1>1 DEF NoCycleYet
<1>3. \A k \in DOMAIN stack' : \A m \in DOMAIN Refs(stack'[k].package) :
        m < stack'[k].dep => Refs(stack'[k].package)[m] \in Finished'
  OBVIOUS
<1>4. \A k \in DOMAIN stack' : Refs(stack[k].package)' = Refs(stack'[k].package)
  BY <1>1
<1>5. \A S \in SUBSET Finished' : S # {} => \E p \in S : \A q \in S : ~Selection(<<p, q>>)'
  BY <1>1 DEF NoCycleYet
<1> QED BY <1>2, <1>3, <1>4, <1>5 DEF NoCycleYet

\* The return from a symbol all of whose references are finished.
LEMMA NoCycleReturn ==
  ASSUME TypeOK, UNCHANGED input, UNCHANGED checked, NoCycleYet, \A k \in 2..Len(stack) : Path(k),
         phase = "conf_parse", \A k \in DOMAIN stack : stack[k].package \in checked,
         stack # <<>>, stack' = Callers, Top.dep > Len(Refs(Top.package))
  PROVE  NoCycleYet'
<1> DEFINE n == Len(stack)
           t == Top.package
<1>0. (\A p : Refs(p)' = Refs(p)) /\ (\A e : Selection(e)' <=> Selection(e))
  BY Configuration
<1>1. /\ DOMAIN stack = 1..n /\ n \in Nat /\ n \in 1..n /\ Top = stack[n]
      /\ \A k \in 1..n : stack[k].package \in Packages /\ stack[k].dep \in Nat
  BY Stack
<1>2. /\ DOMAIN stack' = 1..(n - 1)
      /\ \A k \in 1..(n - 1) : /\ stack'[k].package = stack[k].package
                              /\ stack'[k].dep = IF k = n - 1 THEN stack[k].dep + 1 ELSE stack[k].dep
  BY Returning
<1>3. t \in Packages /\ t \in checked /\ OnStack(t) /\ t \notin Finished
  BY <1>1 DEF OnStack, Finished
<1>4. NoneTwice' /\ Finished' = Finished \cup {t}
  <2>1. NoneTwice' /\ \A q : OnStack(q)' <=> OnStack(q) /\ q # t
    BY ReturningOnStack DEF NoCycleYet
  <2> HIDE DEF t
  <2> QED BY <2>1, <1>3 DEF Finished
<1>5. ToSet(Refs(t)) \subseteq Finished
  <2>1. DOMAIN Refs(t) = 1..Len(Refs(t)) /\ Len(Refs(t)) \in Nat
    BY <1>3, References
  <2>2. \A m \in DOMAIN Refs(t) : m < Top.dep
    BY <2>1, <1>1, SMT
  <2>3. \A m \in DOMAIN Refs(t) : Refs(t)[m] \in Finished
    BY <2>2, <1>1 DEF NoCycleYet
  <2> QED BY <2>3 DEF ToSet
<1> HIDE DEF t
<1>6. \A p \in Finished' : ToSet(Refs(p)') \subseteq Finished'
  BY <1>0, <1>4, <1>5 DEF NoCycleYet
<1>7. ASSUME NEW k \in DOMAIN stack', NEW m \in DOMAIN Refs(stack'[k].package), m < stack'[k].dep
      PROVE  Refs(stack'[k].package)[m] \in Finished'
  <2>1. k \in 1..(n - 1) /\ k \in DOMAIN stack /\ k + 1 \in 2..n /\ (k = n - 1 => k + 1 = n)
    BY <1>1, <1>2, SMT
  <2>2. stack'[k].package = stack[k].package /\ stack[k].package \in Packages /\ stack[k].dep \in Nat
    BY <2>1, <1>1, <1>2
  <2>3. m \in Nat
    BY <2>2, References
  <2>4. CASE m < stack[k].dep
    BY <2>1, <2>2, <2>4, <1>4 DEF NoCycleYet
  <2>5. CASE ~(m < stack[k].dep)
    <3>1. k = n - 1 /\ m = stack[k].dep
      <4>1. k = n - 1
        BY <2>1, <2>5, <1>2, <1>7
      <4>2. m < stack[k].dep + 1
        BY <4>1, <2>1, <1>2, <1>7
      <4> QED BY <4>1, <4>2, <2>2, <2>3, <2>5, SMT
    <3>2. Path(n) /\ stack[n].package = t /\ n - 1 = k
      BY <2>1, <3>1, <1>1, SMT DEF t
    <3>3. Refs(stack[k].package)[m] = t
      BY <3>1, <3>2 DEF Path
    <3> QED BY <3>3, <2>2, <1>4
  <2> QED BY <2>4, <2>5
<1>8. \A k \in DOMAIN stack' : Refs(stack[k].package)' = Refs(stack'[k].package)
  BY <1>0
<1>9. ASSUME NEW S \in SUBSET Finished', S # {} PROVE \E p \in S : \A q \in S : ~Selection(<<p, q>>)
  <2>0. ASSUME NEW q \in Finished', NEW p \in Packages, Selection(<<p, q>>) PROVE p \in Finished
    <3>1. q \in Packages
      BY <1>3, <1>4 DEF Finished, TypeOK
    <3>2. p \in ToSet(Refs(q))
      BY <3>1, <2>0, References DEF ToSet
    <3> QED BY <3>2, <1>4, <1>5 DEF NoCycleYet
  <2>1. CASE t \in S
    <3>1. \A q \in S : ~Selection(<<t, q>>)
      BY <2>0, <1>3
    <3> QED BY <2>1, <3>1
  <2>2. CASE t \notin S
    <3>1. S \in SUBSET Finished
      BY <2>2, <1>4
    <3> QED BY <3>1, <1>9 DEF NoCycleYet
  <2> QED BY <2>1, <2>2
<1>10. \A S \in SUBSET Finished' : S # {} => \E p \in S : \A q \in S : ~Selection(<<p, q>>)'
  BY <1>0, <1>9
<1> QED BY <1>4, <1>6, <1>7, <1>8, <1>10 DEF NoCycleYet

\* The end of the search.
LEMMA NoCycleAtAll ==
  ASSUME NEW F, Packages \subseteq F,
         \A S \in SUBSET F : S # {} => \E p \in S : \A q \in S : ~Selection(<<p, q>>)
  PROVE  ~Circular
<1> SUFFICES ASSUME NEW S \in (SUBSET Packages) \ {{}}, \A p \in S : \E q \in S : Selection(<<p, q>>)
             PROVE  FALSE
  BY DEF Circular
<1>1. S \in SUBSET F /\ S # {}
  OBVIOUS
<1> QED BY <1>1

\* The search moves on along the list.
LEMMA ExploredAdvance ==
  ASSUME TypeOK, UNCHANGED <<menu, input, reported>>, stack' = <<>>, phase = "conf_parse",
         Advance("exit?"), found' # Off => reported, checked' \subseteq Packages,
         \A j \in 1..i : menu[j] \in checked',
         reported => Circular, ~reported => NoCycleYet'
  PROVE  Explored' /\ CircularIsReported'
<1>0. /\ i \in 1..Len(menu) /\ Len(menu) \in Nat /\ DOMAIN menu = 1..Len(menu)
      /\ \A p \in Packages : \E j \in 1..Len(menu) : menu[j] = p
      /\ Off \notin Packages
  BY Menu, Providers
<1>1. (Circular' <=> Circular) /\ \A e : Selection(e)' <=> Selection(e)
  BY Configuration
<1>2. CASE i < Len(menu)
  <2>1. i' = i + 1 /\ phase' = "conf_parse"
    BY <1>2, Advancing
  <2>2. \A j \in 1..(i' - 1) : j \in 1..i
    BY <2>1, <1>0, SMT
  <2>3. \A j \in 1..(i' - 1) : menu'[j] \in checked'
    BY <2>2
  <2>4. DOMAIN stack' = {}
    OBVIOUS
  <2> QED BY <1>1, <2>1, <2>3, <2>4 DEF Explored, CircularIsReported
<1>3. CASE ~(i < Len(menu))
  <2>1. i = Len(menu) /\ phase' = "exit?"
    BY <1>3, Advancing
  <2>2. Packages \subseteq checked'
    BY <1>0, <2>1
  <2>3. ASSUME ~reported PROVE ~Circular
    <3>1. Packages \subseteq Finished'
      <4>1. \A p : ~OnStack(p)'
        BY DEF OnStack
      <4> QED BY <2>2, <4>1 DEF Finished
    <3>2. \A S \in SUBSET Finished' : S # {} => \E p \in S : \A q \in S : ~Selection(<<p, q>>)
      BY <2>3, <1>1 DEF NoCycleYet
    <3> DEFINE F == Finished'
    <3> HIDE DEF F
    <3>3. Packages \subseteq F /\ \A S \in SUBSET F : S # {} => \E p \in S : \A q \in S : ~Selection(<<p, q>>)
      BY <3>1, <3>2 DEF F
    <3> QED BY <3>3, NoCycleAtAll
  <2> QED BY <1>1, <2>1, <2>3 DEF Explored, CircularIsReported
<1> QED BY <1>2, <1>3

\* The search marks a symbol as checked before its references are searched; still,
\* what is checked and not on the stack is free of cycles until one is reported,
\* and only cycles are (sym_check_deps, symbol.c:1142-1174).
LEMMA ExploredStep ==
  StackIsPath /\ Walking /\ Explored /\ CircularIsReported /\ [Next]_vars
    => Explored' /\ CircularIsReported'
<1> SUFFICES ASSUME StackIsPath, Walking, Explored, CircularIsReported, [Next]_vars
             PROVE  Explored' /\ CircularIsReported'
  OBVIOUS
<1>0. /\ TypeOK /\ TypeOK' /\ (\A k \in 2..Len(stack) : Path(k)) /\ UNCHANGED input
      /\ (Circular' <=> Circular) /\ \A p : Refs(p)' = Refs(p)
  BY PathParts, TypeStep, InputStays, Configuration
<1>1. ASSUME phase # "conf_parse", phase' # "conf_parse", UNCHANGED reported
      PROVE  Explored' /\ CircularIsReported'
  BY <1>0, <1>1 DEF Explored, CircularIsReported
<1>2. ASSUME phase = "conf_parse"
      PROVE  /\ found # Off => reported
             /\ \A k \in DOMAIN stack : stack[k].package \in checked
             /\ \A j \in 1..(i - 1) : menu[j] \in checked
             /\ reported => Circular
             /\ ~reported => NoCycleYet
             /\ stack # <<>> => stack[1].package = menu[i]
             /\ checked \subseteq Packages
  BY <1>0, <1>2 DEF Explored, Walking, TypeOK
<1>3. /\ i \in 1..Len(menu) /\ Len(menu) \in Nat /\ menu[i] \in Packages
      /\ \A j \in 1..i : j = i \/ j \in 1..(i - 1)
  <2>1. i \in 1..Len(menu) /\ Len(menu) \in Nat /\ menu[i] \in Packages
    BY <1>0, Menu
  <2> QED BY <2>1, SMT
<1>4. CASE CheckRoot
  <2>0. stack = <<>> /\ phase = "conf_parse" /\ UNCHANGED <<menu, input, found, reported>> /\ DOMAIN stack = {}
    BY <1>4 DEF CheckRoot
  <2>1. CASE menu[i] \in checked
    <3>1. Advance("exit?") /\ UNCHANGED <<checked, stack>>
      BY <1>4, <2>1 DEF CheckRoot
    <3>2. \A j \in 1..i : menu[j] \in checked'
      BY <2>0, <2>1, <3>1, <1>2, <1>3
    <3>3. ~reported => NoCycleYet'
      <4>1. Finished' = Finished /\ (NoneTwice' <=> NoneTwice)
        BY <3>1 DEF Finished, OnStack, NoneTwice
      <4>2. DOMAIN stack' = {}
        BY <2>0, <3>1
      <4> QED BY <4>1, <4>2, <1>0, <1>2, <2>0, NoCycleStays DEF NoCycleYet
    <3> QED BY <3>1, <3>2, <3>3, <1>0, <1>2, <2>0, ExploredAdvance
  <2>2. CASE menu[i] \notin checked
    <3>1. Call(menu[i]) /\ checked' = checked \cup {menu[i]} /\ UNCHANGED <<phase, i>>
      BY <1>4, <2>2 DEF CheckRoot
    <3>2. /\ DOMAIN stack' = {1} /\ stack'[1].package = menu[i] /\ stack'[1].dep = 1
      <4>1. Len(stack) = 0 /\ 1..1 = {1}
        BY <2>0
      <4> QED BY <4>1, <3>1, <1>0, <1>3, Calling
    <3>3. Finished' = Finished
      <4>1. \A q : OnStack(q)' <=> OnStack(q) \/ q = menu[i]
        BY <3>1, <1>0, <1>3, CallingOnStack
      <4> QED BY <4>1, <3>1, <2>2 DEF Finished
    <3>4. ~reported => NoCycleYet'
      <4>1. NoneTwice'
        BY <3>2 DEF NoneTwice
      <4>2. \A m \in DOMAIN Refs(menu[i]) : ~(m < 1)
        BY <1>0, <1>3, References
      <4> QED BY <4>1, <4>2, <3>2, <3>3, <1>0, <1>2, <2>0, NoCycleStays
    <3> QED BY <3>1, <3>2, <3>4, <1>0, <1>2, <2>0 DEF Explored, CircularIsReported
  <2> QED BY <2>1, <2>2
<1>5. CASE CheckDep
  <2> DEFINE sym == Refs(Top.package)[Top.dep]
             n == Len(stack)
  <2>1. /\ stack # <<>> /\ phase = "conf_parse" /\ found = Off /\ Top.dep <= Len(Refs(Top.package))
        /\ UNCHANGED <<menu, i, phase>> /\ sym \in Packages /\ Top.dep \in DOMAIN Refs(Top.package)
    BY <1>5, <1>0, NextReference DEF CheckDep
  <2>2. /\ DOMAIN stack = 1..n /\ n \in Nat /\ n \in 1..n /\ Top = stack[n]
        /\ \A k \in 1..n : stack[k].package \in Packages /\ stack[k].dep \in Nat
    BY <2>1, <1>0, Stack
  <2> HIDE DEF n
  <2>3. CASE OnStack(sym) /\ reported' = TRUE /\ found' = sym /\ UNCHANGED <<checked, stack>>
    <3>1. Circular
      BY <1>0, <2>1, <2>3, CycleOnStack
    <3> QED BY <3>1, <1>0, <1>2, <2>1, <2>3 DEF Explored, CircularIsReported
  <2>4. CASE /\ sym \in checked /\ ~OnStack(sym) /\ UNCHANGED <<checked, found, reported>>
             /\ stack' = [stack EXCEPT ![Len(stack)].dep = @ + 1]
    <3>1. /\ DOMAIN stack' = 1..n
          /\ \A k \in 1..n : /\ stack'[k].package = stack[k].package
                            /\ stack'[k].dep = IF k = n THEN stack[k].dep + 1 ELSE stack[k].dep
      BY <1>0, <2>1, <2>4, Skipping DEF n
    <3>2. Finished' = Finished /\ sym \in Finished
      <4>1. \A q : OnStack(q)' <=> OnStack(q)
        BY <1>0, <2>1, <2>4, SkippingOnStack
      <4> HIDE DEF sym
      <4> QED BY <4>1, <2>4 DEF Finished
    <3>3. ASSUME ~reported PROVE NoCycleYet'
      <4>1. NoCycleYet
        BY <3>3, <1>2, <2>1
      <4>2. NoneTwice'
        BY <4>1, <3>1, <2>2 DEF NoCycleYet, NoneTwice
      <4>3. ASSUME NEW k \in DOMAIN stack', NEW m \in DOMAIN Refs(stack'[k].package), m < stack'[k].dep
            PROVE  Refs(stack'[k].package)[m] \in Finished
        <5>1. k \in 1..n /\ stack'[k].package = stack[k].package /\ stack[k].dep \in Nat
          BY <3>1, <2>2
        <5>2. m \in Nat
          BY <5>1, <2>2, <1>0, References
        <5>3. CASE m < stack[k].dep
          BY <5>1, <5>3, <4>1, <2>2 DEF NoCycleYet
        <5>4. CASE ~(m < stack[k].dep)
          <6>1. k = n
            BY <5>1, <5>4, <3>1, <4>3
          <6>2. m < stack[k].dep + 1
            BY <6>1, <5>1, <3>1, <4>3
          <6>3. m = Top.dep
            BY <6>1, <6>2, <5>1, <5>2, <5>4, <2>2, SMT
          <6>4. Refs(stack'[k].package)[m] = sym
            BY <6>1, <6>3, <5>1, <2>2
          <6> QED BY <6>4, <3>2
        <5> QED BY <5>3, <5>4
      <4> QED BY <4>1, <4>2, <4>3, <3>2, <1>0, NoCycleStays
    <3>4. \A k \in DOMAIN stack' : stack'[k].package \in checked'
      BY <3>1, <2>2, <1>2, <2>1, <2>4
    <3> HIDE DEF sym
    <3> QED BY <3>3, <3>4, <1>0, <1>2, <2>1, <2>4 DEF Explored, CircularIsReported
  <2>5. CASE sym \notin checked /\ Call(sym) /\ checked' = checked \cup {sym} /\ UNCHANGED <<found, reported>>
    <3> DEFINE p == sym
    <3>0. p \in Packages /\ p \notin checked /\ Call(p) /\ checked' = checked \cup {p}
      BY <2>1, <2>5
    <3> HIDE DEF p
    <3>1. /\ DOMAIN stack' = 1..(n + 1)
          /\ \A k \in 1..n : stack'[k] = stack[k]
          /\ stack'[n + 1].package = p /\ stack'[n + 1].dep = 1
      BY <1>0, <3>0, Calling DEF n
    <3>2. \A k : k \in 1..(n + 1) <=> k = n + 1 \/ k \in 1..n
      BY <2>2, SMT
    <3>3. Finished' = Finished
      <4>1. \A q : OnStack(q)' <=> OnStack(q) \/ q = p
        BY <1>0, <3>0, CallingOnStack
      <4> QED BY <4>1, <3>0 DEF Finished
    <3>4. ASSUME ~reported PROVE NoCycleYet'
      <4>1. NoCycleYet
        BY <3>4, <1>2, <2>1
      <4>2. NoneTwice'
        <5>1. \A k \in 1..n : stack[k].package # p
          BY <3>0, <2>1, <2>2, <1>2
        <5>2. \A j, k \in 1..n : stack[j].package = stack[k].package => j = k
          BY <4>1, <2>2 DEF NoCycleYet, NoneTwice
        <5> QED BY <5>1, <5>2, <3>1, <3>2 DEF NoneTwice
      <4>3. ASSUME NEW k \in DOMAIN stack', NEW m \in DOMAIN Refs(stack'[k].package), m < stack'[k].dep
            PROVE  Refs(stack'[k].package)[m] \in Finished
        <5>1. CASE k \in 1..n
          BY <5>1, <4>1, <4>3, <3>1, <2>2 DEF NoCycleYet
        <5>2. CASE k = n + 1
          <6>1. m \in DOMAIN Refs(p) /\ m < 1
            BY <5>2, <4>3, <3>1
          <6>2. m \in 1..Len(Refs(p)) /\ Len(Refs(p)) \in Nat
            BY <6>1, <1>0, <3>0, References
          <6> QED BY <6>1, <6>2, SMT
        <5> QED BY <5>1, <5>2, <3>1, <3>2
      <4> QED BY <4>1, <4>2, <4>3, <3>3, <1>0, NoCycleStays
    <3>5. \A k \in DOMAIN stack' : stack'[k].package \in checked'
      BY <3>0, <3>1, <3>2, <2>1, <2>2, <1>2
    <3> HIDE DEF sym
    <3> QED BY <3>0, <3>4, <3>5, <1>0, <1>2, <2>1, <2>5 DEF Explored, CircularIsReported
  <2> HIDE DEF sym
  <2> QED BY <2>3, <2>4, <2>5, <1>5 DEF CheckDep, sym
<1>6. CASE CheckReturn
  <2>1. /\ stack # <<>> /\ phase = "conf_parse" /\ UNCHANGED <<menu, input, checked, reported>>
        /\ (found # Off \/ Top.dep > Len(Refs(Top.package))) /\ stack' = Callers
    BY <1>6 DEF CheckReturn
  <2>2. ASSUME ~reported PROVE NoCycleYet'
    <3>1. NoCycleYet /\ found = Off /\ \A k \in DOMAIN stack : stack[k].package \in checked
      BY <2>2, <1>2, <2>1
    <3> QED BY <3>1, <2>1, <1>0, NoCycleReturn
  <2>3. found' # Off => reported
    BY <1>6, <1>2, <2>1 DEF CheckReturn
  <2>4. stack[1].package \in checked /\ DOMAIN stack = 1..Len(stack)
    BY <2>1, <1>0, <1>2, Stack
  <2>5. CASE Callers = <<>>
    <3>1. Advance("exit?") /\ stack' = <<>>
      BY <1>6, <2>1, <2>5 DEF CheckReturn
    <3>2. \A j \in 1..i : menu[j] \in checked'
      BY <1>2, <1>3, <2>1, <2>4
    <3> QED BY <3>1, <3>2, <2>1, <2>2, <2>3, <1>0, <1>2, ExploredAdvance
  <2>6. CASE Callers # <<>>
    <3>1. UNCHANGED <<phase, i>>
      BY <1>6, <2>6 DEF CheckReturn
    <3>2. /\ DOMAIN stack' = 1..(Len(stack) - 1)
          /\ \A k \in 1..(Len(stack) - 1) : stack'[k].package = stack[k].package
      BY <1>0, <2>1, Returning
    <3>3. \A k \in 1..(Len(stack) - 1) : k \in 1..Len(stack)
      <4>1. Len(stack) \in Nat
        BY <1>0, Stack
      <4> QED BY <4>1, SMT
    <3>4. \A k \in DOMAIN stack' : stack'[k].package \in checked'
      BY <3>2, <3>3, <2>1, <2>4, <1>2
    <3> QED BY <3>1, <3>4, <2>1, <2>2, <2>3, <1>0, <1>2 DEF Explored, CircularIsReported
  <2> QED BY <2>5, <2>6
<1>7. CASE ExitOnErrors
  BY <1>1, <1>7 DEF ExitOnErrors, check
<1>8. CASE BuildDeps
  <2>1. phase = "build_deps" /\ Advance("count") /\ UNCHANGED reported
    BY <1>8 DEF BuildDeps, check
  <2>2. phase' # "conf_parse"
    BY <2>1, <1>0, Advancing
  <2> QED BY <2>1, <2>2, <1>1
<1>9. CASE CountRoot \/ CountDep
  BY <1>1, <1>9 DEF CountRoot, CountDep, check
<1>10. CASE CountReturn
  <2>1. phase = "count" /\ UNCHANGED reported /\ (Advance("resolve") \/ UNCHANGED phase)
    BY <1>10 DEF CountReturn, check
  <2>2. phase' # "conf_parse"
    BY <2>1, <1>0, Advancing
  <2> QED BY <2>1, <2>2, <1>1
<1>11. CASE ResolveDeps
  <2>1. phase = "resolve" /\ Advance("write_depends") /\ UNCHANGED reported
    BY <1>11 DEF ResolveDeps, check
  <2>2. phase' # "conf_parse"
    BY <2>1, <1>0, Advancing
  <2> QED BY <2>1, <2>2, <1>1
<1>12. CASE WriteDepends \/ WriteCompat
  BY <1>1, <1>12 DEF WriteDepends, WriteCompat, check
<1>13. CASE UNCHANGED vars
  <2>1. UNCHANGED <<menu, input, checked, found, reported, phase, i, stack>>
    BY <1>13 DEF vars, check
  <2>2. CASE phase # "conf_parse"
    BY <1>1, <2>1, <2>2
  <2>3. CASE phase = "conf_parse"
    <3>1. (NoneTwice' <=> NoneTwice) /\ Finished' = Finished
      BY <2>1 DEF NoneTwice, Finished, OnStack
    <3>2. ~reported => NoCycleYet'
      BY <3>1, <2>1, <2>3, <1>0, <1>2, NoCycleStays DEF NoCycleYet
    <3> QED BY <3>2, <2>1, <2>3, <1>0, <1>2 DEF Explored, CircularIsReported
  <2> QED BY <2>2, <2>3
<1> QED BY <1>4, <1>5, <1>6, <1>7, <1>8, <1>9, <1>10, <1>11, <1>12, <1>13 DEF Next

-----------------------------------------------------------------------------
(* The lists of dependencies *)

\* What a package uses, and what it waits for, are packages other than
\* platforms; it waits for no virtual package.
LEMMA UsedPackages ==
  ASSUME TypeOK, NEW q \in Packages
  PROVE  /\ Uses(q) \subseteq Packages \ Platform
         /\ Edges(q) \subseteq Packages \ (Virtual \cup Platform)
<1>1. Uses(q) \subseteq Packages \ Platform
  BY InForceIsSelection DEF Uses
<1>2. ASSUME NEW r \in Uses(q) PROVE Provided(r) \in Packages \ (Virtual \cup Platform)
  BY <1>1, Providers DEF Provided
<1> QED BY <1>1, <1>2 DEF Edges

\* A virtual package uses its provider and waits for it.
LEMMA VirtualUses ==
  ASSUME TypeOK, NEW v \in Virtual
  PROVE  Uses(v) = {provider[v]} /\ WaitsFor(v) = {provider[v]}
<1>1. /\ v \in Packages /\ provider[v] \in Packages \ (Virtual \cup Platform)
      /\ provider[v] # v
  BY Providers
<1>2. Uses(v) = {provider[v]}
  BY <1>1, InForceIsSelection DEF Uses
<1>3. Provided(provider[v]) = provider[v]
  BY <1>1 DEF Provided
<1> QED BY <1>1, <1>2, <1>3 DEF WaitsFor, Edges

\* As long as the list of a virtual package names its provider and nothing
\* else, package_resolve_virtual returns what the package stands for.
LEMMA ResolveProvides ==
  ASSUME TypeOK, \A v \in Virtual : ToSet(deps[v]) = {provider[v]}, NEW p \in Packages
  PROVE  Resolve(p) = Provided(p)
<1>1. CASE p \notin Virtual
  BY <1>1 DEF Resolve, Provided
<1>2. CASE p \in Virtual
  <2> DEFINE d == deps[p]
  <2>1. d \in Seq(Packages) /\ ToSet(d) = {provider[p]}
    BY <1>2 DEF TypeOK
  <2> HIDE DEF d
  <2>2. d # <<>>
    <3>1. ToSet(<<>>) = {}
      BY DEF ToSet
    <3> QED BY <2>1, <3>1
  <2>3. Head(d) \in ToSet(d)
    BY <2>1, <2>2 DEF ToSet
  <2>4. Head(d) = provider[p]
    BY <2>1, <2>3
  <2> QED BY <1>2, <2>2, <2>4 DEF Resolve, Provided, d
<1> QED BY <1>1, <1>2

\* That is so when the lists are complete, and while they are resolved.
LEMMA ListedResolves ==
  ASSUME TypeOK, Listed, phase \in {"count", "overflow", "resolve"}, NEW p \in Packages
  PROVE  Resolve(p) = Provided(p)
<1>1. ASSUME NEW v \in Virtual PROVE ToSet(deps[v]) = {provider[v]}
  <2>1. v \in Packages /\ Uses(v) = {provider[v]} /\ WaitsFor(v) = {provider[v]}
    BY VirtualUses, Providers
  <2>2. CASE phase \in {"count", "overflow"}
    BY <2>1, <2>2 DEF Listed
  <2>3. CASE phase = "resolve"
    <3>1. PICK j \in DOMAIN menu : menu[j] = v
      BY <2>1, Menu
    <3> QED BY <2>1, <2>3, <3>1 DEF Listed
  <2> QED BY <2>2, <2>3
<1> QED BY <1>1, ResolveProvides

\* The lists of dependencies are what each phase takes them for.
LEMMA ListedStep == TypeOK /\ Walking /\ Listed /\ [Next]_vars => Listed'
<1> SUFFICES ASSUME TypeOK, Walking, Listed, [Next]_vars PROVE Listed'
  OBVIOUS
<1>0. /\ i \in 1..Len(menu) /\ DOMAIN menu = 1..Len(menu) /\ menu[i] \in Packages /\ Len(menu) \in Nat
      /\ \A j \in 1..Len(menu) : menu[j] \in Packages
      /\ \A p \in Packages : \E j \in 1..Len(menu) : menu[j] = p
      /\ \A j, k \in 1..Len(menu) : menu[j] = menu[k] => j = k
  BY Menu
<1>1. \A p : Uses(p)' = Uses(p) /\ WaitsFor(p)' = WaitsFor(p)
  BY InputStays, Configuration
<1>2. ASSUME UNCHANGED <<menu, deps>>, phase \in {"conf_parse", "exit?"}, phase' \in {"conf_parse", "exit?"}
      PROVE  Listed'
  BY <1>2 DEF Listed
<1>3. CASE CheckRoot \/ CheckDep \/ CheckReturn
  <2>1. UNCHANGED <<menu, deps>> /\ phase = "conf_parse" /\ (Advance("exit?") \/ UNCHANGED phase)
    BY <1>3 DEF CheckRoot, CheckDep, CheckReturn
  <2>2. phase' \in {"conf_parse", "exit?"}
    BY <2>1, Advancing
  <2> QED BY <2>1, <2>2, <1>2
<1>4. CASE ExitOnErrors
  <2>1. phase = "exit?" /\ phase' \in {"exit", "build_deps"} /\ UNCHANGED <<menu, deps, i>> /\ i = 1
    BY <1>4 DEF ExitOnErrors, Walking
  <2>2. \A q \in Packages : deps'[q] = <<>> /\ ToSet(<<>>) = {}
    BY <2>1 DEF Listed, ToSet
  <2>3. \A q \in Packages : ToSet(deps'[q]) = {menu'[j] : j \in 1..(i' - 1)} \cap Uses(q)
    <3>1. 1..(i' - 1) = {}
      BY <2>1, SMT
    <3> QED BY <2>2, <3>1
  <2> QED BY <2>1, <2>3, <1>1 DEF Listed
<1>5. CASE BuildDeps
  <2>1. phase = "build_deps" /\ Advance("count") /\ UNCHANGED menu
    BY <1>5 DEF BuildDeps
  <2>2. ASSUME NEW q \in Packages
        PROVE  ToSet(deps'[q]) = {menu[j] : j \in 1..i} \cap Uses(q)
    <3>1. ToSet(deps'[q]) = ({menu[j] : j \in 1..(i - 1)} \cap Uses(q)) \cup {p \in {menu[i]} : InForce(<<q, p>>)}
      BY <1>5, <2>1, Adding DEF Listed
    <3>2. {menu[j] : j \in 1..i} = {menu[j] : j \in 1..(i - 1)} \cup {menu[i]}
      <4>1. \A j : j \in 1..i <=> j = i \/ j \in 1..(i - 1)
        BY <1>0, SMT
      <4> QED BY <4>1
    <3>3. menu[i] \in Uses(q) <=> InForce(<<q, menu[i]>>)
      BY <1>0 DEF Uses
    <3> QED BY <3>1, <3>2, <3>3
  <2>3. CASE i < Len(menu)
    <3>1. phase' = "build_deps" /\ i' = i + 1
      BY <2>1, <2>3, Advancing
    <3>2. i' - 1 = i
      BY <3>1, <1>0, SMT
    <3> QED BY <2>1, <2>2, <3>1, <3>2, <1>1 DEF Listed
  <2>4. CASE ~(i < Len(menu))
    <3>1. phase' = "count" /\ i = Len(menu)
      BY <2>1, <2>4, Advancing
    <3>2. \A q \in Packages : ToSet(deps'[q]) = Uses(q)
      <4>1. {menu[j] : j \in 1..i} = Packages
        BY <3>1, <1>0
      <4> QED BY <4>1, <2>2, UsedPackages
    <3> QED BY <3>1, <3>2, <1>1 DEF Listed
  <2> QED BY <2>3, <2>4
<1>6. CASE CountRoot \/ CountDep
  <2>1. phase = "count" /\ phase' \in {"count", "overflow"} /\ UNCHANGED deps
    BY <1>6 DEF CountRoot, CountDep
  <2> QED BY <2>1, <1>1 DEF Listed
<1>7. CASE CountReturn
  <2>1. phase = "count" /\ UNCHANGED <<menu, deps>> /\ (Advance("resolve") \/ UNCHANGED phase)
    BY <1>7 DEF CountReturn
  <2>2. phase' = "count" \/ (phase' = "resolve" /\ i' = 1)
    BY <2>1, Advancing
  <2>3. CASE phase' = "count"
    BY <2>1, <2>3, <1>1 DEF Listed
  <2>4. CASE phase' = "resolve" /\ i' = 1
    <3>1. \A j \in DOMAIN menu : ~(j < 1)
      BY <1>0, SMT
    <3>2. \A j \in DOMAIN menu : ToSet(deps[menu[j]]) = Uses(menu[j])
      BY <2>1, <1>0 DEF Listed
    <3> QED BY <2>1, <2>4, <3>1, <3>2, <1>1 DEF Listed
  <2> QED BY <2>2, <2>3, <2>4
<1>8. CASE ResolveDeps
  <2>1. phase = "resolve" /\ Advance("write_depends") /\ UNCHANGED menu
    BY <1>8 DEF ResolveDeps
  <2>2. ToSet(deps'[menu[i]]) = WaitsFor(menu[i])
    <3>1. ToSet(deps[menu[i]]) = Uses(menu[i])
      <4>1. ~(i < i)
        BY <1>0, SMT
      <4> QED BY <4>1, <2>1, <1>0 DEF Listed
    <3>2. ToSet(deps'[menu[i]]) = {Resolve(d) : d \in Uses(menu[i])} \ {menu[i]}
      BY <3>1, <1>8, Replacing
    <3>3. \A d \in Uses(menu[i]) : Resolve(d) = Provided(d)
      BY <2>1, <1>0, UsedPackages, ListedResolves
    <3> QED BY <3>2, <3>3 DEF WaitsFor, Edges
  <2>3. ASSUME NEW j \in 1..Len(menu)
        PROVE  ToSet(deps'[menu[j]]) = IF j < i + 1 THEN WaitsFor(menu[j]) ELSE Uses(menu[j])
    <3>1. CASE j = i
      <4>1. i < i + 1
        BY <1>0, SMT
      <4> QED BY <3>1, <4>1, <2>2
    <3>2. CASE j # i
      <4>1. j < i + 1 <=> j < i
        BY <3>2, <1>0, SMT
      <4>2. deps'[menu[j]] = deps[menu[j]]
        BY <3>2, <1>0, <1>8, Replacing
      <4> QED BY <4>1, <4>2, <2>1, <1>0 DEF Listed
    <3> QED BY <3>1, <3>2
  <2>4. CASE i < Len(menu)
    <3>1. phase' = "resolve" /\ i' = i + 1
      BY <2>1, <2>4, Advancing
    <3> QED BY <3>1, <2>1, <2>3, <1>0, <1>1 DEF Listed
  <2>5. CASE ~(i < Len(menu))
    <3>1. phase' = "write_depends" /\ i = Len(menu)
      BY <2>1, <2>5, Advancing
    <3>2. \A q \in Packages : ToSet(deps'[q]) = WaitsFor(q)
      <4>1. \A j \in 1..Len(menu) : j < i + 1
        BY <3>1, <1>0, SMT
      <4> QED BY <4>1, <2>3, <1>0
    <3> QED BY <3>1, <3>2, <1>1 DEF Listed
  <2> QED BY <2>4, <2>5
<1>9. CASE WriteDepends \/ WriteCompat
  BY <1>9 DEF WriteDepends, WriteCompat, Listed
<1>10. CASE UNCHANGED vars
  BY <1>10, <1>1 DEF vars, Listed
<1> QED BY <1>3, <1>4, <1>5, <1>6, <1>7, <1>8, <1>9, <1>10 DEF Next

-----------------------------------------------------------------------------
(* The counting *)

\* A package that count_package_deps comes to while it counts it closes a
\* cycle of selections, through the virtual packages that were resolved.
LEMMA CycleInCount ==
  ASSUME TypeOK, Listed, phase = "count", \A k \in 2..Len(stack) : Path(k), stack # <<>>,
         Top.dep <= Len(deps[Top.package]), OnStack(Resolve(deps[Top.package][Top.dep]))
  PROVE  Circular
<1> DEFINE n == Len(stack)
           at(j) == stack[j].package
           dep(j) == deps[stack[j].package][stack[j].dep]
           sym == Resolve(dep(n))
<1>1. /\ DOMAIN stack = 1..n /\ n \in Nat /\ n \in 1..n /\ Top = stack[n]
      /\ \A k \in 1..n : at(k) \in Packages
  BY Stack
<1>2. at(n) \in Packages /\ sym \in Packages /\ stack[n].dep \in DOMAIN deps[at(n)]
  BY <1>1, NextDependency
<1>3. PICK k \in 1..n : at(k) = sym
  BY <1>1 DEF OnStack
<1>4. ASSUME NEW q \in Packages, NEW m \in DOMAIN deps[q]
      PROVE  /\ deps[q][m] \in Packages /\ Selection(<<q, deps[q][m]>>)
             /\ deps[q][m] \in Virtual => Selection(<<deps[q][m], Resolve(deps[q][m])>>)
             /\ deps[q][m] \notin Virtual => Resolve(deps[q][m]) = deps[q][m]
  <2> DEFINE d == deps[q][m]
  <2>1. d \in Uses(q)
    <3>1. d \in ToSet(deps[q])
      BY DEF ToSet
    <3> QED BY <3>1 DEF Listed
  <2>2. d \in Packages /\ InForce(<<q, d>>)
    BY <2>1 DEF Uses
  <2> HIDE DEF d
  <2>3. Resolve(d) = Provided(d)
    BY <2>2, ListedResolves
  <2>4. ASSUME d \in Virtual PROVE Selection(<<d, Resolve(d)>>)
    <3>1. Resolve(d) = provider[d] /\ provider[d] \in Packages
      BY <2>3, <2>4, Providers DEF Provided
    <3>2. InForce(<<d, provider[d]>>)
      BY <2>2, <2>4, <3>1, InForceIsSelection
    <3> QED BY <2>2, <3>1, <3>2, InForceIsSelection
  <2>5. d \notin Virtual => Resolve(d) = d
    BY <2>3 DEF Provided
  <2>6. d \in Packages /\ Selection(<<q, d>>)
    BY <2>2, InForceIsSelection
  <2> QED BY <2>4, <2>5, <2>6 DEF d
<1>5. ASSUME NEW j \in k..n
      PROVE  /\ at(j) \in Packages /\ stack[j].dep \in DOMAIN deps[at(j)]
             /\ \E l \in k..n : Resolve(dep(j)) = at(l)
  <2>1. j \in 1..n /\ k \in k..n
    BY <1>1, SMT
  <2>2. CASE j = n
    BY <2>1, <2>2, <1>2, <1>3
  <2>3. CASE j # n
    <3>1. j + 1 \in 2..n /\ j + 1 \in k..n /\ (j + 1) - 1 = j
      BY <2>3, <1>1, SMT
    <3>2. Path(j + 1)
      BY <3>1
    <3>3. stack[j].dep \in DOMAIN deps[at(j)] /\ Resolve(dep(j)) = at(j + 1)
      BY <3>1, <3>2 DEF Path
    <3> QED BY <2>1, <3>1, <3>3, <1>1
  <2> QED BY <2>2, <2>3
<1> DEFINE S == {at(j) : j \in k..n} \cup {dep(j) : j \in k..n}
<1>6. S \in (SUBSET Packages) \ {{}}
  <2>1. k \in k..n
    BY <1>1, SMT
  <2>2. \A j \in k..n : at(j) \in Packages /\ dep(j) \in Packages
    BY <1>4, <1>5
  <2> HIDE DEF at, dep
  <2> QED BY <2>1, <2>2
<1>7. ASSUME NEW j \in k..n PROVE Selection(<<at(j), dep(j)>>) /\ dep(j) \in S
  BY <1>4, <1>5
<1>8. ASSUME NEW j \in k..n PROVE \E q \in S : Selection(<<dep(j), q>>)
  <2>1. PICK l \in k..n : Resolve(dep(j)) = at(l)
    BY <1>5
  <2>2. at(l) \in S
    OBVIOUS
  <2>3. CASE dep(j) \in Virtual
    <3>1. Selection(<<dep(j), at(l)>>)
      BY <2>1, <2>3, <1>4, <1>5
    <3> HIDE DEF S
    <3> QED BY <3>1, <2>2
  <2>4. CASE dep(j) \notin Virtual
    <3>1. dep(j) = at(l)
      BY <2>1, <2>4, <1>4, <1>5
    <3>2. Selection(<<at(l), dep(l)>>) /\ dep(l) \in S
      BY <1>7
    <3> HIDE DEF S, at, dep
    <3> QED BY <3>1, <3>2
  <2> QED BY <2>3, <2>4
<1>9. ASSUME NEW p \in S PROVE \E q \in S : Selection(<<p, q>>)
  <2>1. CASE \E j \in k..n : p = at(j)
    <3> HIDE DEF at, dep
    <3> QED BY <2>1, <1>7
  <2>2. CASE \E j \in k..n : p = dep(j)
    <3> HIDE DEF at, dep
    <3> QED BY <2>2, <1>8
  <2> QED BY <2>1, <2>2
<1> HIDE DEF S
<1> QED BY <1>6, <1>9 DEF Circular

\* The recursion can only be endless after a report.
LEMMA OverflowStep ==
  StackIsPath /\ Listed /\ CircularIsReported /\ OverflowIsReported /\ [Next]_vars
    => OverflowIsReported'
<1> SUFFICES ASSUME StackIsPath, Listed, CircularIsReported, OverflowIsReported, [Next]_vars
             PROVE  OverflowIsReported'
  OBVIOUS
<1>0. TypeOK /\ \A k \in 2..Len(stack) : Path(k)
  BY PathParts
<1>1. CASE CountDep
  <2>1. CASE OnStack(Resolve(deps[Top.package][Top.dep]))
    <3>1. /\ phase = "count" /\ stack # <<>> /\ Top.dep <= Len(deps[Top.package])
          /\ UNCHANGED reported
      BY <1>1 DEF CountDep, check
    <3>2. Circular
      BY <1>0, <2>1, <3>1, CycleInCount
    <3> QED BY <3>1, <3>2 DEF CircularIsReported, OverflowIsReported
  <2>2. CASE ~OnStack(Resolve(deps[Top.package][Top.dep]))
    BY <1>1, <2>2 DEF CountDep, OverflowIsReported
  <2> QED BY <2>1, <2>2
<1>2. CASE CheckRoot \/ CheckReturn \/ BuildDeps \/ CountReturn \/ ResolveDeps
  <2>1. /\ phase # "overflow"
        /\ \/ Advance("exit?") \/ Advance("count") \/ Advance("resolve") \/ Advance("write_depends")
           \/ UNCHANGED phase
    BY <1>2 DEF CheckRoot, CheckReturn, BuildDeps, CountReturn, ResolveDeps
  <2>2. phase' # "overflow"
    BY <2>1, <1>0, Advancing
  <2> QED BY <2>2 DEF OverflowIsReported
<1>3. CASE CheckDep \/ ExitOnErrors \/ CountRoot \/ WriteDepends \/ WriteCompat
  BY <1>3 DEF CheckDep, ExitOnErrors, CountRoot, WriteDepends, WriteCompat, OverflowIsReported
<1>4. CASE UNCHANGED vars
  BY <1>4 DEF vars, check, OverflowIsReported
<1> QED BY <1>1, <1>2, <1>3, <1>4 DEF Next

\* What write_depends writes stays what it is.
LEMMA RulesStep ==
  TypeOK /\ Listed /\ Ruled /\ RulesMatchSelects /\ [Next]_vars => Ruled' /\ RulesMatchSelects'
<1> SUFFICES ASSUME TypeOK, Listed, Ruled, RulesMatchSelects, [Next]_vars
             PROVE  Ruled' /\ RulesMatchSelects'
  OBVIOUS
<1>0. \A p : WaitsFor(p)' = WaitsFor(p)
  BY InputStays, Configuration
<1> DEFINE Written0 == {q \in Packages : Written(q)}
<1>1. ASSUME phase' \notin {"write_compat", "done"} PROVE Ruled' /\ RulesMatchSelects'
  BY <1>1 DEF Ruled, RulesMatchSelects
<1>2. ASSUME phase \in {"write_compat", "done"}, UNCHANGED rules PROVE Ruled' /\ RulesMatchSelects'
  BY <1>0, <1>2 DEF Ruled, RulesMatchSelects
<1>3. CASE WriteDepends
  <2>1. /\ rules' = [p \in Written0 |-> [normal |-> ToSet(deps[p]) \ Stable,
                                         orderOnly |-> ToSet(deps[p]) \cap Stable]]
        /\ \A p \in Packages : ToSet(deps[p]) = WaitsFor(p)
    BY <1>3 DEF WriteDepends, Listed
  <2>2. DOMAIN rules' = Written0 /\ Ruled'
    BY <2>1 DEF Ruled, Written
  <2>3. \A p \in Written0 : /\ rules'[p].normal = ToSet(deps[p]) \ Stable
                            /\ rules'[p].orderOnly = ToSet(deps[p]) \cap Stable
                            /\ p \in Packages
    BY <2>1
  <2> HIDE DEF Written0
  <2>4. RulesMatchSelects'
    BY <2>1, <2>2, <2>3, <1>0 DEF RulesMatchSelects
  <2> QED BY <2>2, <2>4
<1>4. CASE WriteCompat
  BY <1>2, <1>4 DEF WriteCompat
<1>5. CASE CheckRoot \/ CheckReturn \/ BuildDeps \/ CountReturn \/ ResolveDeps
  <2>1. /\ phase \notin {"write_compat", "done"}
        /\ \/ Advance("exit?") \/ Advance("count") \/ Advance("resolve") \/ Advance("write_depends")
           \/ UNCHANGED phase
    BY <1>5 DEF CheckRoot, CheckReturn, BuildDeps, CountReturn, ResolveDeps
  <2>2. phase' \notin {"write_compat", "done"}
    BY <2>1, Advancing
  <2> QED BY <2>2, <1>1
<1>6. CASE CheckDep \/ ExitOnErrors \/ CountRoot \/ CountDep
  BY <1>1, <1>6 DEF CheckDep, ExitOnErrors, CountRoot, CountDep
<1>7. CASE UNCHANGED vars
  BY <1>1, <1>2, <1>7 DEF vars, files
<1> QED BY <1>3, <1>4, <1>5, <1>6, <1>7 DEF Next

\* How far the count of p is ahead of that of q.
Ahead(q, p) ==
  numdeps[p] >= numdeps[q] + (IF RootDone(q) THEN 1 ELSE 0) + (IF Passed(q, p) THEN 1 ELSE 0)

\* Counted in terms of Ahead.
LEMMA CountedPairs ==
  Counted <=>
    /\ phase \in {"conf_parse", "exit?", "build_deps"} => \A q \in Packages : numdeps[q] = 0
    /\ phase = "count" => NoneTwice /\ \A q \in Packages : \A p \in Edges(q) : Ahead(q, p)
    /\ phase \in {"resolve", "write_depends", "write_compat"} =>
         \A q \in Packages : \A p \in Edges(q) : numdeps[p] > numdeps[q]
BY DEF Counted, Ahead

\* The counts are numbers.
LEMMA Counts ==
  ASSUME TypeOK
  PROVE  /\ \A q \in Packages : numdeps[q] \in Nat
         /\ \A q \in Packages : \A p \in Edges(q) : p \in Packages
BY UsedPackages DEF TypeOK

\* A call brings the recursion no further.
LEMMA PassedCalling ==
  ASSUME TypeOK, UNCHANGED deps, NEW t \in Packages, Call(t)
  PROVE  \A q, p \in Packages : Passed(q, p)' => Passed(q, p)
<1> DEFINE n == Len(stack)
<1>1. /\ DOMAIN stack' = 1..(n + 1) /\ DOMAIN stack = 1..n /\ n \in Nat
      /\ \A k \in 1..n : stack'[k] = stack[k]
      /\ stack'[n + 1].dep = 1
  BY Calling, Stack
<1> HIDE DEF n
<1>2. \A k : k \in 1..(n + 1) <=> k = n + 1 \/ k \in 1..n
  BY <1>1, SMT
<1>3. SUFFICES ASSUME NEW q \in Packages, NEW p \in Packages, Passed(q, p)'
               PROVE  Passed(q, p)
  OBVIOUS
<1>4. PICK k \in DOMAIN stack' :
        /\ stack'[k].package = q
        /\ \E m \in DOMAIN deps[q] : m < stack'[k].dep /\ Resolve(deps[q][m])' = p
  BY <1>3 DEF Passed
<1>5. PICK m \in DOMAIN deps[q] : m < stack'[k].dep /\ Resolve(deps[q][m]) = p
  BY <1>4, Resolving
<1>6. k # n + 1
  <2>1. deps[q] \in Seq(Packages)
    BY DEF TypeOK
  <2>2. m \in Nat \ {0}
    <3> DEFINE d == deps[q]
    <3>1. d \in Seq(Packages) /\ m \in DOMAIN d
      BY <2>1
    <3> HIDE DEF d
    <3> QED BY <3>1
  <2>3. ~(m < 1)
    BY <2>2, SMT
  <2> QED BY <2>3, <1>1, <1>5
<1>7. k \in DOMAIN stack /\ stack'[k] = stack[k]
  BY <1>1, <1>2, <1>6
<1> QED BY <1>4, <1>5, <1>7 DEF Passed

\* The return of a call for t brings its caller past t, and the calls for t
\* nowhere.
LEMMA PassedReturning ==
  ASSUME TypeOK, UNCHANGED deps, phase = "count", NoneTwice, \A k \in 2..Len(stack) : Path(k),
         stack # <<>>, stack' = Callers
  PROVE  /\ \A q, p \in Packages : Passed(q, p)' => Passed(q, p) \/ p = Top.package
         /\ \A t, p \in Packages : t = Top.package => ~Passed(t, p)'
<1> DEFINE n == Len(stack)
<1>1. /\ DOMAIN stack = 1..n /\ n \in Nat /\ n \in 1..n /\ Top = stack[n]
      /\ \A k \in 1..n : stack[k].package \in Packages /\ stack[k].dep \in Nat
      /\ DOMAIN stack' = 1..(n - 1)
      /\ \A k \in 1..(n - 1) : /\ stack'[k].package = stack[k].package
                              /\ stack'[k].dep = IF k = n - 1 THEN stack[k].dep + 1 ELSE stack[k].dep
  BY Returning, Stack
<1> HIDE DEF n
<1>2. ASSUME NEW t \in Packages, NEW p \in Packages, t = Top.package, Passed(t, p)' PROVE FALSE
  <2>1. OnStack(t)'
    BY <1>2 DEF Passed, OnStack
  <2> QED BY <2>1, <1>2, ReturningOnStack
<1>3. ASSUME NEW q \in Packages, NEW p \in Packages, Passed(q, p)' PROVE Passed(q, p) \/ p = Top.package
  <2>1. PICK k \in DOMAIN stack' :
          /\ stack'[k].package = q
          /\ \E m \in DOMAIN deps[q] : m < stack'[k].dep /\ Resolve(deps[q][m])' = p
    BY <1>3 DEF Passed
  <2>2. PICK m \in DOMAIN deps[q] : m < stack'[k].dep /\ Resolve(deps[q][m]) = p
    BY <2>1, Resolving
  <2>3. m \in Nat
    <3> DEFINE d == deps[q]
    <3>1. d \in Seq(Packages) /\ m \in DOMAIN d
      BY DEF TypeOK
    <3> HIDE DEF d
    <3> QED BY <3>1
  <2>4. k \in 1..(n - 1) /\ k \in 1..n /\ k + 1 \in 2..n /\ (k = n - 1 => k + 1 = n) /\ (k + 1) - 1 = k
    BY <2>1, <1>1, SMT
  <2>5. CASE m < stack[k].dep
    BY <2>1, <2>2, <2>4, <2>5, <1>1 DEF Passed
  <2>6. CASE ~(m < stack[k].dep)
    <3>1. k = n - 1
      BY <2>2, <2>4, <2>6, <1>1
    <3>2. m < stack[k].dep + 1
      BY <2>2, <2>4, <3>1, <1>1
    <3>3. m = stack[k].dep
      BY <3>2, <2>3, <2>4, <2>6, <1>1, SMT
    <3>4. Path(k + 1)
      BY <2>4 DEF n
    <3>5. Resolve(deps[stack[k].package][stack[k].dep]) = stack[n].package
      BY <3>1, <3>4, <2>4 DEF Path
    <3> QED BY <3>3, <3>5, <2>1, <2>2, <2>4, <1>1
  <2> QED BY <2>5, <2>6
<1> QED BY <1>2, <1>3

\* A call that returns has passed all that its package waits for.
LEMMA PassedAll ==
  ASSUME TypeOK, Listed, phase = "count", stack # <<>>, Top.dep > Len(deps[Top.package])
  PROVE  \A p \in Edges(Top.package) : Passed(Top.package, p)
<1> DEFINE t == Top.package
           d == deps[t]
<1>1. /\ t \in Packages /\ Top.dep \in Nat /\ Len(stack) \in DOMAIN stack
      /\ stack[Len(stack)].package = t /\ stack[Len(stack)].dep = Top.dep
  BY Stack
<1>2. d \in Seq(Packages) /\ ToSet(d) = Uses(t) /\ Top.dep > Len(d)
  BY <1>1 DEF TypeOK, Listed
<1> HIDE DEF d, t
<1> SUFFICES ASSUME NEW p \in Edges(t) PROVE Passed(t, p)
  BY DEF t
<1>3. PICK r \in Uses(t) : p = Provided(r)
  BY DEF Edges
<1>4. PICK m \in DOMAIN d : d[m] = r
  BY <1>2 DEF ToSet
<1>5. m < Top.dep
  <2>1. m \in 1..Len(d) /\ Len(d) \in Nat
    BY <1>2
  <2> QED BY <2>1, <1>1, <1>2, SMT
<1>6. Resolve(r) = p
  BY <1>1, <1>3, UsedPackages, ListedResolves
<1> QED BY <1>1, <1>4, <1>5, <1>6 DEF Passed, d

\* One package more of which resolve_deps has made the outermost call.
LEMMA RootDoneNext ==
  ASSUME TypeOK, UNCHANGED menu
  PROVE  /\ ~RootDone(menu[i])
         /\ i' = i + 1 => \A q \in Packages : RootDone(q)' <=> RootDone(q) \/ q = menu[i]
         /\ i = Len(menu) => \A q \in Packages : RootDone(q) \/ q = menu[i]
<1>1. /\ i \in 1..Len(menu) /\ Len(menu) \in Nat
      /\ \A j, k \in 1..Len(menu) : menu[j] = menu[k] => j = k
      /\ \A p \in Packages : \E j \in 1..Len(menu) : menu[j] = p
  BY Menu
<1>2. \A j : j \in 1..i <=> j = i \/ j \in 1..(i - 1)
  BY <1>1, SMT
<1>3. \A j \in 1..(i - 1) : j \in 1..Len(menu) /\ j # i
  BY <1>1, SMT
<1>4. (i + 1) - 1 = i
  BY <1>1, SMT
<1>5. ~RootDone(menu[i])
  BY <1>1, <1>3 DEF RootDone
<1>6. ASSUME i' = i + 1, NEW q \in Packages PROVE RootDone(q)' <=> RootDone(q) \/ q = menu[i]
  BY <1>2, <1>4, <1>6 DEF RootDone
<1>7. ASSUME i = Len(menu), NEW q \in Packages PROVE RootDone(q) \/ q = menu[i]
  BY <1>1, <1>2, <1>7 DEF RootDone
<1> QED BY <1>5, <1>6, <1>7

\* Nothing changes but the counts and what has been passed.
LEMMA AheadStays ==
  ASSUME TypeOK, UNCHANGED <<numdeps, menu>>, NEW q \in Packages, NEW p \in Packages,
         RootDone(q)' => RootDone(q), Passed(q, p)' => Passed(q, p), Ahead(q, p)
  PROVE  Ahead(q, p)'
<1>1. numdeps[p] \in Nat /\ numdeps[q] \in Nat
  BY DEF TypeOK
<1>2. numdeps[p] >= numdeps[q] + (IF RootDone(q)' THEN 1 ELSE 0) + (IF Passed(q, p)' THEN 1 ELSE 0)
  <2> DEFINE a == numdeps[p]
             b == numdeps[q]
  <2>1. a >= b + (IF RootDone(q) THEN 1 ELSE 0) + (IF Passed(q, p) THEN 1 ELSE 0)
    BY DEF Ahead
  <2> HIDE DEF a, b
  <2>2. a >= b + (IF RootDone(q)' THEN 1 ELSE 0) + (IF Passed(q, p)' THEN 1 ELSE 0)
    BY <1>1, <2>1, SMT DEF a, b
  <2> QED BY <2>2 DEF a, b
<1> QED BY <1>2 DEF Ahead

\* A call for t returns to its caller: t is counted once more, and so far
\* ahead are the packages t waits for.
LEMMA CountedCall ==
  ASSUME StackIsPath, Listed, phase = "count", NoneTwice, stack # <<>>, stack' = Callers,
         Top.dep > Len(deps[Top.package]), UNCHANGED <<menu, i, deps>>,
         numdeps' = [numdeps EXCEPT ![Top.package] = @ + 1],
         NEW q \in Packages, NEW p \in Edges(q), Ahead(q, p)
  PROVE  Ahead(q, p)'
<1> DEFINE t == Top.package
           a == numdeps[p]
           b == numdeps[q]
           aa == numdeps'[p]
           bb == numdeps'[q]
<1>0. TypeOK /\ \A k \in 2..Len(stack) : Path(k)
  BY PathParts
<1>1. p \in Packages /\ t \in Packages /\ a \in Nat /\ b \in Nat
  BY <1>0, Counts, Stack
<1>2. /\ aa = IF p = t THEN a + 1 ELSE a
      /\ bb = IF q = t THEN b + 1 ELSE b
  <2>1. numdeps \in [Packages -> Nat]
    BY <1>0 DEF TypeOK
  <2> HIDE DEF t
  <2> QED BY <1>1, <2>1 DEF t
<1>3. RootDone(q)' <=> RootDone(q)
  BY DEF RootDone
<1>4. /\ Passed(q, p)' => Passed(q, p) \/ p = t
      /\ q = t => ~Passed(q, p)'
  BY <1>0, <1>1, PassedReturning
<1>5. q = t => Passed(q, p)
  BY <1>0, PassedAll
<1>6. a >= b + (IF RootDone(q) THEN 1 ELSE 0) + (IF Passed(q, p) THEN 1 ELSE 0)
  BY DEF Ahead
<1> HIDE DEF a, b, aa, bb, t
<1>7. aa >= bb + (IF RootDone(q)' THEN 1 ELSE 0) + (IF Passed(q, p)' THEN 1 ELSE 0)
  <2>1. CASE q = t
    <3>1. a >= b + (IF RootDone(q) THEN 1 ELSE 0) + 1 /\ aa >= a /\ bb = b + 1
      BY <2>1, <1>1, <1>2, <1>5, <1>6, SMT
    <3> QED BY <3>1, <2>1, <1>1, <1>2, <1>3, <1>4, SMT
  <2>2. CASE q # t
    BY <2>2, <1>1, <1>2, <1>3, <1>4, <1>6, SMT
  <2> QED BY <2>1, <2>2
<1> QED BY <1>7 DEF Ahead, aa, bb

\* The outermost call for menu[i] returns.
LEMMA CountedRoot ==
  ASSUME StackIsPath, Listed, phase = "count", stack # <<>>,
         Top.dep > Len(deps[Top.package]), UNCHANGED <<menu, numdeps>>,
         Top.package = menu[i], stack' = <<>>, NEW q \in Packages, NEW p \in Edges(q), Ahead(q, p)
  PROVE  /\ i' = i + 1 => Ahead(q, p)'
         /\ i = Len(menu) => numdeps[p] > numdeps[q]
<1> DEFINE a == numdeps[p]
           b == numdeps[q]
<1>0. TypeOK
  BY PathParts
<1>1. p \in Packages /\ a \in Nat /\ b \in Nat
  BY <1>0, Counts
<1>2. /\ ~RootDone(menu[i])
      /\ i' = i + 1 => (RootDone(q)' <=> RootDone(q) \/ q = menu[i])
      /\ i = Len(menu) => RootDone(q) \/ q = menu[i]
  BY <1>0, RootDoneNext
<1>3. ~Passed(q, p)'
  BY DEF Passed
<1>4. q = menu[i] => Passed(q, p)
  BY <1>0, PassedAll
<1>5. a >= b + (IF RootDone(q) THEN 1 ELSE 0) + (IF Passed(q, p) THEN 1 ELSE 0)
  BY DEF Ahead
<1> HIDE DEF a, b
<1>6. a >= b + (IF RootDone(q) \/ q = menu[i] THEN 1 ELSE 0)
  <2>1. CASE q = menu[i]
    BY <2>1, <1>1, <1>4, <1>5, SMT
  <2>2. CASE q # menu[i]
    BY <2>2, <1>1, <1>5, SMT
  <2> QED BY <2>1, <2>2
<1>7. ASSUME i' = i + 1 PROVE Ahead(q, p)'
  <2>1. a >= b + (IF RootDone(q)' THEN 1 ELSE 0) + (IF Passed(q, p)' THEN 1 ELSE 0)
    BY <1>1, <1>2, <1>3, <1>6, <1>7, SMT
  <2> QED BY <2>1 DEF Ahead, a, b
<1>8. ASSUME i = Len(menu) PROVE a > b
  BY <1>1, <1>2, <1>6, <1>8, SMT
<1> QED BY <1>7, <1>8 DEF a, b

\* The counts stay ahead of one another.
LEMMA CountedStep == StackIsPath /\ Walking /\ Listed /\ Counted /\ [Next]_vars => Counted'
<1> SUFFICES ASSUME StackIsPath, Walking, Listed, Counted, [Next]_vars PROVE Counted'
  OBVIOUS
<1>0. TypeOK /\ UNCHANGED input /\ \A p : Edges(p)' = Edges(p)
  BY PathParts, InputStays, Configuration
<1> DEFINE Zero   == \A q \in Packages : numdeps[q] = 0
           Apart  == \A q \in Packages : \A p \in Edges(q) : numdeps[p] > numdeps[q]
           Aheads == \A q \in Packages : \A p \in Edges(q) : Ahead(q, p)
<1>1. /\ phase \in {"conf_parse", "exit?", "build_deps"} => Zero
      /\ phase = "count" => NoneTwice /\ Aheads
      /\ phase \in {"resolve", "write_depends", "write_compat"} => Apart
  BY CountedPairs
<1>2. SUFFICES /\ phase' \in {"conf_parse", "exit?", "build_deps"} => Zero'
               /\ phase' = "count" => NoneTwice' /\ Aheads'
               /\ phase' \in {"resolve", "write_depends", "write_compat"} => Apart'
  BY DEF Counted, Ahead
<1>3. /\ i \in 1..Len(menu) /\ menu[i] \in Packages /\ Len(menu) \in Nat
      /\ \A q \in Packages : \A p \in Edges(q) : p \in Packages
  BY <1>0, Menu, Counts
<1>4. CASE CheckRoot \/ CheckDep \/ CheckReturn
  <2>1. phase = "conf_parse" /\ UNCHANGED numdeps /\ (Advance("exit?") \/ UNCHANGED phase)
    BY <1>4 DEF CheckRoot, CheckDep, CheckReturn
  <2>2. phase' \in {"conf_parse", "exit?"}
    BY <2>1, <1>0, Advancing
  <2> QED BY <2>1, <2>2, <1>1
<1>5. CASE ExitOnErrors
  <2>1. phase = "exit?" /\ UNCHANGED numdeps /\ phase' \in {"exit", "build_deps"}
    BY <1>5 DEF ExitOnErrors
  <2> QED BY <2>1, <1>1
<1>6. CASE BuildDeps
  <2>1. phase = "build_deps" /\ UNCHANGED <<menu, stack, numdeps>> /\ Advance("count")
    BY <1>6 DEF BuildDeps
  <2>2. phase' = "build_deps" \/ (phase' = "count" /\ i' = 1)
    BY <2>1, <1>0, Advancing
  <2>3. CASE phase' = "build_deps"
    BY <2>1, <2>3, <1>1
  <2>4. CASE phase' = "count" /\ i' = 1
    <3>1. stack' = <<>>
      BY <2>1 DEF Walking
    <3>2. NoneTwice' /\ \A q, p : ~Passed(q, p)'
      BY <3>1 DEF NoneTwice, Passed
    <3>3. \A q : ~RootDone(q)'
      <4>1. 1..(i' - 1) = {}
        BY <2>4, SMT
      <4> QED BY <4>1 DEF RootDone
    <3>4. \A q \in Packages : \A p \in Packages : Ahead(q, p)'
      <4>1. \A q \in Packages : numdeps'[q] = 0
        BY <2>1, <1>1
      <4> QED BY <4>1, <3>2, <3>3, SMT DEF Ahead
    <3> QED BY <2>4, <3>2, <3>4, <1>0, <1>3
  <2> QED BY <2>2, <2>3, <2>4
<1>7. CASE CountRoot
  <2>1. phase = "count" /\ stack = <<>> /\ Call(menu[i]) /\ UNCHANGED <<phase, menu, i, deps, numdeps>>
    BY <1>7 DEF CountRoot
  <2>2. NoneTwice'
    <3>1. DOMAIN stack' = 1..1
      <4>1. Len(stack) = 0
        BY <2>1
      <4> QED BY <4>1, <2>1, <1>0, <1>3, Calling
    <3>2. \A k \in 1..1 : k = 1
      BY SMT
    <3> QED BY <3>1, <3>2 DEF NoneTwice
  <2>3. \A q, p \in Packages : Passed(q, p)' => Passed(q, p)
    BY <2>1, <1>0, <1>3, PassedCalling
  <2>4. \A q : RootDone(q)' <=> RootDone(q)
    BY <2>1 DEF RootDone
  <2>5. \A q \in Packages : \A p \in Edges(q) : Ahead(q, p)'
    BY <2>1, <2>3, <2>4, <1>0, <1>1, <1>3, AheadStays
  <2> QED BY <2>1, <2>2, <2>5, <1>0
<1>8. CASE CountDep
  <2> DEFINE pkg == Resolve(deps[Top.package][Top.dep])
             n == Len(stack)
  <2>1. /\ phase = "count" /\ stack # <<>> /\ Call(pkg) /\ UNCHANGED <<menu, i, deps, numdeps>>
        /\ phase' = IF OnStack(pkg) THEN "overflow" ELSE phase
        /\ pkg \in Packages
    BY <1>0, <1>8, NextDependency DEF CountDep
  <2> HIDE DEF pkg
  <2>2. CASE OnStack(pkg)
    BY <2>1, <2>2
  <2>3. CASE ~OnStack(pkg)
    <3>1. /\ DOMAIN stack' = 1..(n + 1) /\ DOMAIN stack = 1..n /\ n \in Nat
          /\ \A k \in 1..n : stack'[k] = stack[k]
          /\ stack'[n + 1].package = pkg
      BY <2>1, <1>0, Calling, Stack
    <3>2. \A k : k \in 1..(n + 1) <=> k = n + 1 \/ k \in 1..n
      BY <3>1, SMT
    <3> HIDE DEF n
    <3>3. NoneTwice'
      <4>1. \A k \in 1..n : stack[k].package # pkg
        BY <2>3, <3>1 DEF OnStack
      <4>2. \A j, k \in 1..n : stack[j].package = stack[k].package => j = k
        BY <2>1, <3>1, <1>1 DEF NoneTwice
      <4> QED BY <4>1, <4>2, <3>1, <3>2 DEF NoneTwice
    <3>4. \A q, p \in Packages : Passed(q, p)' => Passed(q, p)
      BY <2>1, <1>0, PassedCalling
    <3>5. \A q : RootDone(q)' <=> RootDone(q)
      BY <2>1 DEF RootDone
    <3>6. \A q \in Packages : \A p \in Edges(q) : Ahead(q, p)'
      BY <2>1, <3>4, <3>5, <1>0, <1>1, <1>3, AheadStays
    <3> QED BY <2>1, <2>3, <3>3, <3>6, <1>0
  <2> QED BY <2>2, <2>3
<1>9. CASE CountReturn
  <2>1. /\ phase = "count" /\ stack # <<>> /\ stack' = Callers /\ UNCHANGED <<menu, deps>>
        /\ Top.dep > Len(deps[Top.package]) /\ NoneTwice /\ Aheads
    BY <1>1, <1>9 DEF CountReturn
  <2>2. NoneTwice'
    BY <2>1, <1>0, ReturningOnStack
  <2>3. CASE Callers # <<>>
    <3>1. numdeps' = [numdeps EXCEPT ![Top.package] = @ + 1] /\ UNCHANGED <<phase, i>>
      BY <1>9, <2>3 DEF CountReturn
    <3>2. \A q \in Packages : \A p \in Edges(q) : Ahead(q, p)'
      BY <2>1, <3>1, CountedCall
    <3> QED BY <2>1, <2>2, <3>1, <3>2, <1>0
  <2>4. CASE Callers = <<>>
    <3>1. UNCHANGED numdeps /\ Advance("resolve") /\ stack' = <<>>
      BY <1>9, <2>1, <2>4 DEF CountReturn
    <3>2. Top.package = menu[i]
      <4>1. Len(stack) = 1
        BY <2>1, <2>4, <1>0, Returning
      <4> QED BY <4>1, <2>1, <1>0, Stack DEF Walking
    <3>3. \A q \in Packages : \A p \in Edges(q) :
             /\ i' = i + 1 => Ahead(q, p)'
             /\ i = Len(menu) => numdeps[p] > numdeps[q]
      BY <2>1, <3>1, <3>2, CountedRoot
    <3>4. CASE i < Len(menu)
      <4>1. i' = i + 1 /\ phase' = phase
        BY <3>1, <3>4, <1>0, Advancing
      <4> QED BY <4>1, <2>1, <2>2, <3>3, <1>0
    <3>5. CASE ~(i < Len(menu))
      <4>1. i = Len(menu) /\ phase' = "resolve"
        BY <3>1, <3>5, <1>0, Advancing
      <4>2. Apart'
        BY <4>1, <3>1, <3>3, <1>0
      <4> QED BY <4>1, <4>2
    <3> QED BY <3>4, <3>5
  <2> QED BY <2>3, <2>4
<1>10. CASE ResolveDeps
  <2>1. phase = "resolve" /\ UNCHANGED numdeps /\ Advance("write_depends")
    BY <1>10 DEF ResolveDeps
  <2>2. phase' \in {"resolve", "write_depends"}
    BY <2>1, <1>0, Advancing
  <2>3. Apart'
    BY <2>1, <1>0, <1>1
  <2> QED BY <2>2, <2>3
<1>11. CASE WriteDepends \/ WriteCompat
  <2>1. /\ phase \in {"write_depends", "write_compat"} /\ UNCHANGED numdeps
        /\ phase' \in {"write_compat", "done"}
    BY <1>11 DEF WriteDepends, WriteCompat
  <2>2. Apart'
    BY <2>1, <1>0, <1>1
  <2> QED BY <2>1, <2>2
<1>12. CASE UNCHANGED vars
  <2>1. UNCHANGED <<menu, deps, numdeps, phase, i, stack>>
    BY <1>12 DEF vars
  <2>2. (Zero' <=> Zero) /\ (Apart' <=> Apart)
    BY <2>1, <1>0
  <2>3. \A q, p : Ahead(q, p)' <=> Ahead(q, p)
    <3>1. \A q, p : Passed(q, p)' <=> Passed(q, p)
      BY <2>1, Resolving DEF Passed
    <3>2. \A q : RootDone(q)' <=> RootDone(q)
      BY <2>1 DEF RootDone
    <3> QED BY <2>1, <3>1, <3>2 DEF Ahead
  <2>4. (Aheads' <=> Aheads) /\ (NoneTwice' <=> NoneTwice)
    BY <2>1, <2>3, <1>0 DEF NoneTwice
  <2> HIDE DEF Zero, Apart, Aheads
  <2> QED BY <2>1, <2>2, <2>4, <1>1
<1> QED BY <1>4, <1>5, <1>6, <1>7, <1>8, <1>9, <1>10, <1>11, <1>12 DEF Next

-----------------------------------------------------------------------------
(* The order *)

\* Filter keeps the list's order, and has nothing twice if the list has not.
LEMMA FilterKeepsOrder ==
  ASSUME numdeps \in [Packages -> Nat], NEW list \in Seq(Packages), Sorted(list), NEW keep,
         \A j, k \in 1..Len(list) : list[j] = list[k] => j = k
  PROVE  /\ Sorted(Filter(list, keep))
         /\ \A j, k \in 1..Len(Filter(list, keep)) : Filter(list, keep)[j] = Filter(list, keep)[k] => j = k
<1> DEFINE F == Filter(list, keep)
<1>1. F \in Seq(Packages) /\ \E pos : Selected(F, list, keep, Len(list), pos)
  BY FilterSelects
<1> HIDE DEF F
<1>2. PICK pos : Selected(F, list, keep, Len(list), pos)
  BY <1>1
<1>3. /\ \A j \in 1..Len(F) : pos[j] \in 1..Len(list) /\ F[j] = list[pos[j]]
      /\ \A j, l \in 1..Len(F) : j < l => pos[j] < pos[l]
  BY <1>2 DEF Selected
<1>4. Sorted(F)
  BY <1>3 DEF Sorted
<1>5. ASSUME NEW j \in 1..Len(F), NEW k \in 1..Len(F), F[j] = F[k] PROVE j = k
  <2>1. pos[j] = pos[k]
    <3>1. pos[j] \in 1..Len(list) /\ pos[k] \in 1..Len(list) /\ list[pos[j]] = list[pos[k]]
      BY <1>3, <1>5
    <3> QED BY <3>1
  <2>2. pos[j] \in Nat /\ pos[k] \in Nat /\ j \in Nat /\ k \in Nat
    BY <1>3, SMT
  <2>3. CASE j < k
    BY <2>1, <2>2, <2>3, <1>3, SMT
  <2>4. CASE k < j
    BY <2>1, <2>2, <2>4, <1>3, SMT
  <2> QED BY <2>2, <2>3, <2>4, SMT
<1> QED BY <1>4, <1>5 DEF F

\* Two lists that share no element have nothing twice together.
LEMMA ConcatIsInjective ==
  ASSUME NEW S, NEW s \in Seq(S), NEW t \in Seq(S),
         \A j, k \in 1..Len(s) : s[j] = s[k] => j = k,
         \A j, k \in 1..Len(t) : t[j] = t[k] => j = k,
         ToSet(s) \cap ToSet(t) = {}
  PROVE  \A j, k \in 1..Len(s \o t) : (s \o t)[j] = (s \o t)[k] => j = k
<1> DEFINE u == s \o t
<1>1. /\ u \in Seq(S) /\ Len(u) = Len(s) + Len(t)
      /\ \A k \in 1..(Len(s) + Len(t)) : u[k] = IF k <= Len(s) THEN s[k] ELSE t[k - Len(s)]
      /\ Len(s) \in Nat /\ Len(t) \in Nat
      /\ DOMAIN s = 1..Len(s) /\ DOMAIN t = 1..Len(t)
  OBVIOUS
<1> HIDE DEF u
<1>2. ASSUME NEW k \in 1..Len(u)
      PROVE  /\ k <= Len(s) => k \in 1..Len(s) /\ u[k] = s[k] /\ u[k] \in ToSet(s)
             /\ ~(k <= Len(s)) => /\ k - Len(s) \in 1..Len(t) /\ u[k] = t[k - Len(s)]
                                  /\ u[k] \in ToSet(t)
  <2>1. /\ k <= Len(s) => k \in 1..Len(s)
        /\ ~(k <= Len(s)) => k - Len(s) \in 1..Len(t)
        /\ k \in 1..(Len(s) + Len(t))
    BY <1>1, SMT
  <2>2. u[k] = IF k <= Len(s) THEN s[k] ELSE t[k - Len(s)]
    BY <2>1, <1>1
  <2> QED BY <2>1, <2>2, <1>1 DEF ToSet
<1>3. ASSUME NEW j \in 1..Len(u), NEW k \in 1..Len(u), u[j] = u[k] PROVE j = k
  <2>1. CASE j <= Len(s) /\ k <= Len(s)
    BY <2>1, <1>2, <1>3
  <2>2. CASE ~(j <= Len(s)) /\ ~(k <= Len(s))
    <3>1. j - Len(s) = k - Len(s)
      BY <2>2, <1>2, <1>3
    <3> QED BY <3>1, <1>1, SMT
  <2>3. CASE j <= Len(s) /\ ~(k <= Len(s))
    BY <2>3, <1>2, <1>3
  <2>4. CASE ~(j <= Len(s)) /\ k <= Len(s)
    BY <2>4, <1>2, <1>3
  <2> QED BY <2>1, <2>2, <2>3, <2>4
<1> QED BY <1>3 DEF u

\* In a list of packages sorted by their counts, followed by platforms, every
\* package comes after those it waits for.
LEMMA SortedInOrder ==
  ASSUME TypeOK, \A q \in Packages : \A p \in Edges(q) : numdeps[p] > numdeps[q],
         NEW s \in Seq(Packages), NEW t \in Seq(Packages), Sorted(s),
         ToSet(t) \subseteq Platform,
         NEW j \in 1..Len(s \o t), NEW k \in 1..Len(s \o t), (s \o t)[j] \in WaitsFor((s \o t)[k])
  PROVE  j < k
<1> DEFINE u == s \o t
<1>1. /\ u \in Seq(Packages) /\ Len(u) = Len(s) + Len(t)
      /\ \A m \in 1..(Len(s) + Len(t)) : u[m] = IF m <= Len(s) THEN s[m] ELSE t[m - Len(s)]
      /\ Len(s) \in Nat /\ Len(t) \in Nat
      /\ DOMAIN s = 1..Len(s) /\ DOMAIN t = 1..Len(t)
  OBVIOUS
<1>2. j \in 1..(Len(s) + Len(t)) /\ k \in 1..(Len(s) + Len(t)) /\ u[j] \in WaitsFor(u[k])
  BY <1>1
<1> HIDE DEF u
<1>3. u[k] \in Packages /\ u[j] \in Edges(u[k]) /\ u[j] \in Packages /\ u[j] \notin Platform
  <2>1. u[k] \in Packages
    BY <1>1, <1>2
  <2> QED BY <2>1, <1>2, UsedPackages DEF WaitsFor
<1>4. numdeps[u[j]] > numdeps[u[k]] /\ numdeps[u[j]] \in Nat /\ numdeps[u[k]] \in Nat
  BY <1>3, Counts
<1>5. j \in 1..Len(s)
  <2>1. CASE j <= Len(s)
    BY <2>1, <1>1, <1>2, SMT
  <2>2. CASE ~(j <= Len(s))
    <3>1. j - Len(s) \in 1..Len(t)
      BY <2>2, <1>1, <1>2, SMT
    <3>2. u[j] = t[j - Len(s)] /\ t[j - Len(s)] \in ToSet(t)
      BY <2>2, <3>1, <1>1, <1>2 DEF ToSet
    <3> QED BY <3>2, <1>3
  <2> QED BY <2>1, <2>2
<1>6. CASE k \in 1..Len(s)
  <2>1. u[j] = s[j] /\ u[k] = s[k]
    <3>1. j <= Len(s) /\ k <= Len(s)
      BY <1>1, <1>5, <1>6, SMT
    <3> QED BY <3>1, <1>1, <1>2
  <2>2. CASE k < j
    <3>1. numdeps[s[k]] >= numdeps[s[j]]
      BY <2>2, <1>5, <1>6 DEF Sorted
    <3> QED BY <3>1, <2>1, <1>4, SMT
  <2>3. CASE j = k
    BY <2>3, <1>4, SMT
  <2> QED BY <2>2, <2>3, <1>1, <1>5, <1>6, SMT
<1>7. CASE k \notin 1..Len(s)
  BY <1>1, <1>2, <1>5, <1>7, SMT
<1> QED BY <1>6, <1>7

\* In terms of the list, without what follows from the rules.
Ordered ==
  phase = "done" =>
    /\ ToSet(dirs) = DOMAIN rules /\ Len(dirs) = Cardinality(DOMAIN rules)
    /\ \A j, k \in DOMAIN dirs : dirs[j] \in RuleOf(dirs[k]) => j < k

\* Every package with a rule is written to depends-dirs, once and in order.
LEMMA OrderStep ==
  TypeOK /\ Counted /\ Ruled /\ RulesMatchSelects /\ Ordered /\ [Next]_vars => Ordered'
<1> SUFFICES ASSUME TypeOK, Counted, Ruled, RulesMatchSelects, Ordered, [Next]_vars
             PROVE  Ordered'
  OBVIOUS
<1>1. CASE WriteCompat
  <2> DEFINE s == Filter(menu', Packages \ (Virtual \cup Platform))
             t == Filter(menu', Platform \ Parents)
             d == s \o t
  <2>1. /\ phase = "write_compat" /\ menu' = ListSort(menu) /\ dirs' = d
        /\ UNCHANGED <<rules, numdeps, input>>
    BY <1>1 DEF WriteCompat
  <2>2. \A q \in Packages : \A p \in Edges(q) : numdeps[p] > numdeps[q]
    BY <2>1 DEF Counted
  <2>3. /\ menu' \in Seq(Packages) /\ Sorted(menu') /\ ToSet(menu') = Packages
        /\ Len(menu') = Cardinality(Packages) /\ numdeps \in [Packages -> Nat]
    BY <2>1, ListSortSorts DEF TypeOK
  <2>4. \A j, k \in 1..Len(menu') : menu'[j] = menu'[k] => j = k
    BY <2>3, FullListIsInjective
  <2>5. /\ s \in Seq(Packages) /\ ToSet(s) = Packages \ (Virtual \cup Platform) /\ Sorted(s)
        /\ \A j, k \in 1..Len(s) : s[j] = s[k] => j = k
    <3>1. s \in Seq(Packages) /\ ToSet(s) = Packages \cap (Packages \ (Virtual \cup Platform))
      BY <2>3, FilterSelects, FilterElements
    <3>2. Sorted(s) /\ \A j, k \in 1..Len(s) : s[j] = s[k] => j = k
      BY <2>3, <2>4, FilterKeepsOrder
    <3> HIDE DEF s
    <3> QED BY <3>1, <3>2
  <2>6. /\ t \in Seq(Packages) /\ ToSet(t) = Platform \ Parents
        /\ \A j, k \in 1..Len(t) : t[j] = t[k] => j = k
    <3>1. t \in Seq(Packages) /\ ToSet(t) = Packages \cap (Platform \ Parents)
      BY <2>3, FilterSelects, FilterElements
    <3>2. \A j, k \in 1..Len(t) : t[j] = t[k] => j = k
      BY <2>3, <2>4, FilterKeepsOrder
    <3>3. Platform \subseteq Packages
      BY DependsAssumption
    <3> HIDE DEF t
    <3> QED BY <3>1, <3>2, <3>3
  <2> HIDE DEF s, t
  <2>7. d \in Seq(Packages) /\ ToSet(d) = ToSet(s) \cup ToSet(t)
    BY <2>5, <2>6, ConcatElements
  <2>8. \A j, k \in 1..Len(d) : d[j] = d[k] => j = k
    BY <2>5, <2>6, ConcatIsInjective
  <2>9. ToSet(d) = DOMAIN rules
    <3>1. DOMAIN rules = {p \in Packages : Written(p)}
      BY <2>1 DEF Ruled
    <3>2. Parents \subseteq Platform /\ Platform \subseteq Packages /\ Virtual \cap Platform = {}
      BY DependsAssumption
    <3> QED BY <3>1, <3>2, <2>5, <2>6, <2>7 DEF Written
  <2>10. \A j, k \in 1..Len(d) : d[j] \in WaitsFor(d[k]) => j < k
    BY <2>2, <2>5, <2>6, SortedInOrder
  <2> HIDE DEF d
  <2>11. Len(d) = Cardinality(DOMAIN rules)
    BY <2>7, <2>8, <2>9, InjectiveListLength
  <2>12. ASSUME NEW j \in DOMAIN d, NEW k \in DOMAIN d,
                d[j] \in RuleOf(d[k])
         PROVE  j < k
    <3>1. j \in 1..Len(d) /\ k \in 1..Len(d)
      BY <2>7
    <3>2. d[k] \in DOMAIN rules
      BY <2>9, <2>12 DEF ToSet
    <3>3. d[j] \in WaitsFor(d[k])
      BY <2>1, <2>12, <3>2 DEF RulesMatchSelects, RuleOf
    <3> QED BY <3>1, <3>3, <2>10
  <2> QED BY <2>1, <2>9, <2>11, <2>12 DEF Ordered, RuleOf
<1>2. CASE CheckRoot \/ CheckReturn \/ BuildDeps \/ CountReturn \/ ResolveDeps
  <2>1. /\ phase # "done"
        /\ \/ Advance("exit?") \/ Advance("count") \/ Advance("resolve") \/ Advance("write_depends")
           \/ UNCHANGED phase
    BY <1>2 DEF CheckRoot, CheckReturn, BuildDeps, CountReturn, ResolveDeps
  <2>2. phase' # "done"
    BY <2>1, Advancing
  <2> QED BY <2>2 DEF Ordered
<1>3. CASE CheckDep \/ ExitOnErrors \/ CountRoot \/ CountDep \/ WriteDepends
  BY <1>3 DEF CheckDep, ExitOnErrors, CountRoot, CountDep, WriteDepends, Ordered
<1>4. CASE UNCHANGED vars
  BY <1>4 DEF vars, files, Ordered, RuleOf
<1> QED BY <1>1, <1>2, <1>3, <1>4 DEF Next

-----------------------------------------------------------------------------
(* The theorems *)

\* The inductive invariant.
IndInv ==
  /\ RecursionInv
  /\ CircularIsReported /\ OverflowIsReported
  /\ RulesMatchSelects /\ Ordered

\* The invariant holds at first.
LEMMA IndInit == Init => IndInv
<1> SUFFICES ASSUME Init PROVE IndInv
  OBVIOUS
<1>1. /\ phase = "conf_parse" /\ stack = <<>> /\ i = 1 /\ found = Off /\ checked = {} /\ reported = FALSE
      /\ deps = [p \in Packages |-> <<>>] /\ numdeps = [p \in Packages |-> 0]
  BY DEF Init
<1>2. StackIsPath /\ Walking
  <2>1. \A k \in 2..Len(stack) : Path(k)
    BY <1>1
  <2> QED BY <1>1, <2>1, TypeInit, PathParts DEF Walking
<1>3. Explored
  <2>1. DOMAIN stack = {} /\ 1..(i - 1) = {}
    BY <1>1, SMT
  <2>2. Finished = {}
    BY <1>1 DEF Finished
  <2>3. NoneTwice
    BY <2>1 DEF NoneTwice
  <2> QED BY <1>1, <2>1, <2>2, <2>3 DEF Explored, NoCycleYet
<1>4. Listed /\ Counted /\ Ruled
  BY <1>1 DEF Listed, Counted, Ruled
<1>5. CircularIsReported /\ OverflowIsReported /\ RulesMatchSelects /\ Ordered
  BY <1>1 DEF CircularIsReported, OverflowIsReported, RulesMatchSelects, Ordered
<1> QED BY <1>2, <1>3, <1>4, <1>5 DEF IndInv, RecursionInv

\* Each step keeps it.
LEMMA IndStep == IndInv /\ [Next]_vars => IndInv'
<1> SUFFICES ASSUME IndInv, [Next]_vars PROVE IndInv'
  OBVIOUS
<1>1. /\ StackIsPath /\ Walking /\ Explored /\ Listed /\ Counted /\ Ruled
      /\ CircularIsReported /\ OverflowIsReported /\ RulesMatchSelects /\ Ordered
  BY DEF IndInv, RecursionInv
<1>2. TypeOK /\ \A k \in 2..Len(stack) : Path(k)
  BY <1>1, PathParts
<1>3. StackIsPath' /\ Walking'
  <2>1. TypeOK' /\ Walking' /\ \A k \in 2..Len(stack') : Path(k)'
    BY <1>1, <1>2, TypeStep, WalkingStep, PathStep
  <2> QED BY <2>1 DEF StackIsPath, Path
<1>4. Explored' /\ CircularIsReported'
  BY <1>1, ExploredStep
<1>5. OverflowIsReported'
  BY <1>1, OverflowStep
<1>6. Listed' /\ Counted'
  BY <1>1, <1>2, ListedStep, CountedStep
<1>7. Ruled' /\ RulesMatchSelects' /\ Ordered'
  BY <1>1, <1>2, RulesStep, OrderStep
<1> QED BY <1>3, <1>4, <1>5, <1>6, <1>7 DEF IndInv, RecursionInv

\* The inductive invariant is one.
THEOREM Invariance == Spec => []IndInv
BY IndInit, IndStep, PTL DEF Spec

\* The recursions follow the dependencies, visit each package once at a time, and
\* leave the marks, lists and counts that the functions after them rely on
\* (symbol.c:1142-1174, deps.c:144-243).
THEOREM RecursionsKeepCourse == Spec => []RecursionInv
<1>1. IndInv => RecursionInv
  BY DEF IndInv
<1> QED BY <1>1, Invariance, PTL

\* A circular dependency is reported, whatever symbol the search starts from and
\* whatever it has marked before, and nothing else is (sym_check_deps).
THEOREM CyclesAreReported == Spec => []CircularIsReported
<1>1. IndInv => CircularIsReported
  BY DEF IndInv
<1> QED BY <1>1, Invariance, PTL

\* When count_package_deps recurses without end, the user was told: resolving
\* virtual packages brings no cycle that sym_check_deps does not see.
THEOREM EndlessRecursionIsReported == Spec => []OverflowIsReported
<1>1. IndInv => OverflowIsReported
  BY DEF IndInv
<1> QED BY <1>1, Invariance, PTL

\* depends.mk has the rules the configuration asks for (write_depends).
THEOREM RulesAreSelects == Spec => []RulesMatchSelects
<1>1. IndInv => RulesMatchSelects
  BY DEF IndInv
<1> QED BY <1>1, Invariance, PTL

\* What the two files say is a plan.
LEMMA OrderedIsPlan ==
  ASSUME TypeOK, Ruled, RulesMatchSelects, Ordered, phase = "done"
  PROVE  WrittenPlan
<1> DEFINE P == DOMAIN rules
           D == [p \in P |-> RuleOf(p)]
           S == Stable \cap P
           R == [p \in P |-> PlaceOf(p)]
<1>1. P = {p \in Packages : Written(p)}
  BY DEF Ruled
<1>2. \A p \in P : RuleOf(p) = WaitsFor(p)
  BY DEF RulesMatchSelects, RuleOf
<1>3. ASSUME NEW p \in P PROVE RuleOf(p) \subseteq P
  <2>1. WaitsFor(p) \subseteq Packages \ (Virtual \cup Platform)
    BY <1>1, UsedPackages DEF WaitsFor
  <2>2. Parents \subseteq Platform
    BY DependsAssumption
  <2> QED BY <2>1, <2>2, <1>1, <1>2 DEF Written
<1>4. /\ ToSet(dirs) = P /\ Len(dirs) = Cardinality(P)
      /\ \A j, k \in DOMAIN dirs : dirs[j] \in RuleOf(dirs[k]) => j < k
  BY DEF Ordered
<1>5. dirs \in Seq(Packages) /\ DOMAIN dirs = 1..Len(dirs) /\ Len(dirs) \in Nat
  BY DEF TypeOK
<1> HIDE DEF P
<1>6. ASSUME NEW p \in P
      PROVE  PlaceOf(p) \in DOMAIN dirs /\ dirs[PlaceOf(p)] = p /\ PlaceOf(p) \in Nat
  <2>1. \E k \in DOMAIN dirs : dirs[k] = p
    BY <1>4 DEF ToSet
  <2>2. PlaceOf(p) \in DOMAIN dirs /\ dirs[PlaceOf(p)] = p
    BY <2>1 DEF PlaceOf
  <2> QED BY <2>2, <1>5, SMT
<1>7. D \in [P -> SUBSET P] /\ S \subseteq P /\ R \in [P -> Nat]
  BY <1>3, <1>6
<1>8. ASSUME NEW p \in P, NEW q \in P, R[p] = R[q] PROVE p = q
  <2>1. PlaceOf(p) = PlaceOf(q)
    BY <1>8
  <2> QED BY <2>1, <1>6
<1>9. ASSUME NEW p \in P, NEW d \in D[p] PROVE R[d] < R[p]
  <2>1. d \in RuleOf(p) /\ d \in P
    BY <1>3
  <2>2. PlaceOf(d) < PlaceOf(p)
    BY <2>1, <1>4, <1>6
  <2> QED BY <2>1, <2>2
<1>10. IsBuildPlan(P, D, S, R)
  <2> HIDE DEF D, S, R
  <2> QED BY <1>7, <1>8, <1>9 DEF IsBuildPlan
<1> QED BY <1>10 DEF WrittenPlan, P

\* depends-dirs has every package with a rule once, and the two files are the
\* plan that PlatformAssumption asks for (list_sort, write_compat).
THEOREM DirectoriesInOrder == Spec => []DirsInOrder
<1>1. IndInv => DirsInOrder
  <2>1. IndInv /\ phase = "done" => WrittenPlan
    BY OrderedIsPlan, PathParts DEF IndInv, RecursionInv
  <2> QED BY <2>1 DEF IndInv, Ordered, DirsInOrder
<1> QED BY <1>1, Invariance, PTL
=============================================================================
