--------------------------- MODULE MenuTreeProofs ---------------------------
(* Proofs about MenuTree: at any time each entry of the menu tree is in one   *)
(* place, and in the finished tree the walk meets them in their order.        *)
EXTENDS MenuTree, ListLemmas

-----------------------------------------------------------------------------
\* The greatest of some numbers up to n.
LEMMA GreatestElement ==
  ASSUME NEW n \in Nat, NEW S \in SUBSET (1 .. n), S # {}
  PROVE  Max(S) \in S /\ \A x \in S : x <= Max(S)
<1> DEFINE T == {n - x : x \in S}
<1>1. T \in SUBSET Nat /\ T # {}
  <2>1. \A x \in S : n - x \in Nat
    OBVIOUS
  <2> QED BY <2>1
<1>2. PICK y \in T : \A z \in T : y <= z
  <2> HIDE DEF T
  <2> QED BY <1>1, LeastElement
<1>3. PICK x \in S : y = n - x
  BY <1>2
<1>4. \A z \in S : n - x <= n - z
  BY <1>2, <1>3
<1>5. \A z \in S : x >= z
  BY <1>4
<1>6. Max(S) \in S /\ \A z \in S : Max(S) >= z
  BY <1>5 DEF Max
<1> QED BY <1>6

-----------------------------------------------------------------------------
\* What the shape says of an entry without a list, and of one with a list.
LEMMA OverIsNumber ==
  ASSUME NEW n \in Nat, NEW u, NEW list, NEW next, Shape(n, u, list, next)
  PROVE  \A m \in 1 .. n : u[m] \in Nat /\ u[m] < m
<1> SUFFICES ASSUME NEW m \in 1 .. n PROVE u[m] \in Nat /\ u[m] < m
  OBVIOUS
<1>1. CASE m = 1
  BY <1>1 DEF Shape, Ordered
<1>2. CASE m # 1
  BY <1>2 DEF Shape, Ordered
<1> QED BY <1>1, <1>2

LEMMA LeafHasNoneBelow ==
  ASSUME NEW n \in Nat, NEW u, NEW list, NEW next, Shape(n, u, list, next),
         NEW p \in 1 .. n, list[p] = 0
  PROVE  \A j \in 1 .. n : u[j] # p
<1> SUFFICES ASSUME NEW j \in 1 .. n, u[j] = p PROVE FALSE
  OBVIOUS
<1>1. j \in 2 .. n /\ p < j /\ p + 1 \in 2 .. n
  BY DEF Shape, Ordered
<1>2. u[p + 1] # p
  BY <1>1 DEF Shape, Lists
<1>3. u[p + 1] \in 1 .. p
  BY <1>1 DEF Shape, Ordered
<1>4. CASE j = p + 1
  BY <1>2, <1>4
<1>5. CASE j # p + 1
  <2>1. u[j] <= u[p + 1]
    BY <1>1, <1>5 DEF Shape, Ordered
  <2> QED BY <2>1, <1>2, <1>3
<1> QED BY <1>4, <1>5

LEMMA FirstIsBelow ==
  ASSUME NEW n \in Nat, NEW u, NEW list, NEW next, Shape(n, u, list, next),
         NEW p \in 1 .. n, list[p] # 0
  PROVE  list[p] = p + 1 /\ p + 1 \in 2 .. n /\ u[p + 1] = p
  BY DEF Shape, Lists

\* A leaf's next entry, when it has siblings behind it, follows at once.
LEMMA SiblingOfLeaf ==
  ASSUME NEW n \in Nat, NEW u, NEW list, NEW next, Shape(n, u, list, next),
         NEW p \in 1 .. n, list[p] = 0, NEW j \in p + 1 .. n, u[j] = u[p]
  PROVE  p # 1 /\ next[p] = p + 1 /\ u[p + 1] = u[p]
<1>0. \A m \in 1 .. n : u[m] \in Nat /\ u[m] < m
  BY OverIsNumber
<1>1. p + 1 \in 2 .. n /\ j \in 2 .. n /\ u[j] # 0 /\ u[1] = 0
  BY DEF Shape, Ordered
<1>2. p # 1 /\ p \in 2 .. n
  BY <1>1
<1>3. u[p + 1] # p
  BY <1>1, LeafHasNoneBelow
<1>4. u[p] < p
  BY <1>2 DEF Shape, Ordered
<1>5. u[p] <= u[p + 1]
  <2>1. CASE j = p + 1
    BY <2>1, <1>0, <1>1
  <2>2. CASE j # p + 1
    BY <2>2, <1>1, <1>4 DEF Shape, Ordered
  <2> QED BY <2>1, <2>2
<1>6. u[p + 1] < p
  BY <1>1, <1>3 DEF Shape, Ordered
<1>7. u[p + 1] <= u[p]
  BY <1>1, <1>2, <1>6 DEF Shape, Ordered
<1>8. u[p + 1] = u[p]
  BY <1>0, <1>5, <1>7, <1>1
<1>9. next[p] # 0 /\ next[p] <= p + 1 /\ next[p] \in p + 1 .. n
  BY <1>8, <1>1 DEF Shape, Nexts
<1> QED BY <1>2, <1>8, <1>9

\* Entries between two siblings that follow each other are below the first.
LEMMA BetweenSiblings ==
  ASSUME NEW n \in Nat, NEW u, NEW list, NEW next, Shape(n, u, list, next),
         NEW a \in 1 .. n, NEW w \in a + 1 .. n, next[a] = w, NEW i \in a + 1 .. w - 1
  PROVE  u[i] >= a
<1>0. \A m \in 1 .. n : u[m] \in Nat /\ u[m] < m
  BY OverIsNumber
<1> SUFFICES ASSUME u[i] < a PROVE FALSE
  BY <1>0
<1>1. w \in 2 .. n /\ i \in 2 .. n /\ u[w] = u[a] /\ w # 0
  BY DEF Shape, Nexts
<1>2. u[1] = 0 /\ u[w] # 0
  BY <1>1 DEF Shape, Ordered
<1>3. a \in 2 .. n
  BY <1>1, <1>2
<1>4. u[a] < a
  BY <1>3 DEF Shape, Ordered
<1>5. u[w] <= u[i]
  BY <1>1, <1>4 DEF Shape, Ordered
<1>6. u[i] <= u[a]
  BY <1>1, <1>3 DEF Shape, Ordered
<1>7. u[i] = u[a]
  BY <1>0, <1>1, <1>5, <1>6
<1>8. i \in a + 1 .. n /\ i < next[a]
  OBVIOUS
<1> QED BY <1>7, <1>8 DEF Shape, Nexts

\* An entry that is not the first of its list is next to a sibling.
LEMMA HasSiblingBefore ==
  ASSUME NEW n \in Nat, NEW u, NEW list, NEW next, Shape(n, u, list, next),
         NEW m \in 2 .. n, u[m] # m - 1
  PROVE  \E a \in 1 .. m - 1 : next[a] = m /\ u[a] = u[m]
<1> DEFINE S == {a \in 1 .. m - 1 : u[a] = u[m]}
           a == Max(S)
           f == u[m] + 1
<1>0. \A x \in 1 .. n : u[x] \in Nat /\ u[x] < x
  BY OverIsNumber
<1>1. u[m] \in 1 .. m - 2 /\ f \in 2 .. n /\ f < m
  BY DEF Shape, Ordered
<1>2. u[f] = u[m]
  <2>1. u[m] <= u[f] /\ u[f] <= u[m]
    BY <1>1 DEF Shape, Ordered
  <2> QED BY <2>1, <1>0, <1>1
<1>3. f \in S
  BY <1>1, <1>2
<1>4. a \in S /\ \A x \in S : x <= a
  <2>1. S \in SUBSET (1 .. m - 1) /\ S # {} /\ m - 1 \in Nat
    BY <1>3
  <2> HIDE DEF S
  <2> QED BY <2>1, GreatestElement
<1> HIDE DEF a
<1>5. next[a] # 0 /\ next[a] <= m /\ next[a] \in a + 1 .. n /\ u[next[a]] = u[m]
  BY <1>4 DEF Shape, Nexts
<1>6. next[a] = m
  <2>1. ASSUME next[a] < m PROVE FALSE
    <3>1. next[a] \in S
      BY <2>1, <1>4, <1>5
    <3> QED BY <3>1, <1>4, <1>5
  <2> QED BY <2>1, <1>5
<1> QED BY <1>4, <1>6

-----------------------------------------------------------------------------
\* A submenu is made: the entries behind a leaf p up to last get below it.
LEMMA AbsorbKeepsShape ==
  ASSUME NEW n \in Nat, NEW u, NEW list, NEW next, Shape(n, u, list, next),
         NEW p \in 1 .. n, list[p] = 0, NEW last \in p + 1 .. n, u[last] = u[p],
         NEW v, NEW l2, NEW n2,
         \A m \in 1 .. n : v[m] = IF p < m /\ m <= last /\ u[m] = u[p] THEN p ELSE u[m],
         \A m \in 1 .. n : l2[m] = IF m = p THEN next[p] ELSE list[m],
         \A m \in 1 .. n : n2[m] = IF m = last THEN 0 ELSE IF m = p THEN next[last] ELSE next[m]
  PROVE  Shape(n, v, l2, n2)
<1> DEFINE Moved(m) == p < m /\ m <= last /\ u[m] = u[p]
<1>1. p \in 2 .. n /\ next[p] = p + 1 /\ u[p + 1] = u[p]
  BY SiblingOfLeaf
<1>2. \A j \in 1 .. n : u[j] # p
  BY LeafHasNoneBelow
<1>0. \A m \in 1 .. n : u[m] \in Nat /\ u[m] < m
  BY OverIsNumber
<1>3. u[p] < p /\ u[1] = 0 /\ \A m \in 2 .. n : u[m] \in 1 .. m - 1
  BY <1>1 DEF Shape, Ordered
<1>4. \A m, i \in 2 .. n : u[m] < i /\ i < m => u[m] <= u[i]
  BY DEF Shape, Ordered
<1>5. \A m \in 1 .. n : list[m] = IF m < n /\ u[m + 1] = m THEN m + 1 ELSE 0
  BY DEF Shape, Lists
<1>6. \A m \in 1 .. n :
        /\ next[m] # 0 => next[m] \in m + 1 .. n /\ u[next[m]] = u[m]
        /\ \A j \in m + 1 .. n : u[j] = u[m] => next[m] # 0 /\ next[m] <= j
  BY DEF Shape, Nexts
<1>7. \A m \in 1 .. n : v[m] = IF Moved(m) THEN p ELSE u[m]
  OBVIOUS
<1>8. Ordered(n, v)
  <2>1. v[1] = 0
    BY <1>1, <1>3
  <2>2. \A m \in 2 .. n : v[m] \in 1 .. m - 1
    BY <1>1, <1>3
  <2>3. ASSUME NEW m \in 2 .. n, NEW i \in 2 .. n, v[m] < i, i < m PROVE v[m] <= v[i]
    <3>1. CASE Moved(m) /\ Moved(i)
      BY <3>1
    <3>2. CASE Moved(m) /\ ~Moved(i)
      <4>1. p < i /\ i <= last /\ v[m] = p /\ v[i] = u[i] /\ u[i] # u[p]
        BY <3>2, <2>3
      <4>2. u[p] <= u[i]
        BY <4>1, <3>2, <1>3, <1>4, <2>3
      <4>3. ASSUME u[i] < p PROVE FALSE
        <5>1. u[i] <= u[p]
          BY <4>1, <4>3, <1>1, <1>4
        <5> QED BY <5>1, <4>1, <4>2, <1>0
      <4> QED BY <4>1, <4>3, <1>0
    <3>3. CASE ~Moved(m) /\ Moved(i)
      <4>1. u[m] <= u[i]
        BY <3>3, <1>4, <2>3
      <4> QED BY <4>1, <3>3, <1>3
    <3>4. CASE ~Moved(m) /\ ~Moved(i)
      BY <3>4, <2>3, <1>4
    <3> QED BY <3>1, <3>2, <3>3, <3>4
  <2> QED BY <2>1, <2>2, <2>3 DEF Ordered
<1>9. Lists(n, v, l2)
  <2> SUFFICES ASSUME NEW m \in 1 .. n PROVE l2[m] = IF m < n /\ v[m + 1] = m THEN m + 1 ELSE 0
    BY DEF Lists
  <2>1. CASE m = p
    BY <2>1, <1>1, <1>7
  <2>2. CASE m # p
    <3>1. ASSUME m < n PROVE v[m + 1] = m <=> u[m + 1] = m
      <4>1. CASE Moved(m + 1)
        BY <4>1, <2>2, <1>3
      <4>2. CASE ~Moved(m + 1)
        BY <4>2, <3>1
      <4> QED BY <4>1, <4>2
    <3> QED BY <3>1, <2>2, <1>5
  <2> QED BY <2>1, <2>2
<1>10. Nexts(n, v, n2)
  <2> SUFFICES ASSUME NEW m \in 1 .. n
               PROVE  /\ n2[m] # 0 => n2[m] \in m + 1 .. n /\ v[n2[m]] = v[m]
                      /\ \A j \in m + 1 .. n : v[j] = v[m] => n2[m] # 0 /\ n2[m] <= j
    BY DEF Nexts
  <2>1. CASE m = p
    <3>1. n2[p] = next[last] /\ v[p] = u[p] /\ u[p] # p
      BY <1>3
    <3>2. n2[p] # 0 => n2[p] \in p + 1 .. n /\ v[n2[p]] = v[p]
      BY <3>1, <1>6
    <3>3. ASSUME NEW j \in p + 1 .. n, v[j] = v[p] PROVE n2[p] # 0 /\ n2[p] <= j
      <4>1. u[j] = u[last] /\ j \in last + 1 .. n
        BY <3>1, <3>3
      <4> QED BY <4>1, <3>1, <1>6
    <3> QED BY <2>1, <3>2, <3>3
  <2>2. CASE m = last
    BY <2>2, <1>2
  <2>3. CASE Moved(m) /\ m < last
    <3>1. n2[m] = next[m] /\ v[m] = p
      BY <2>3
    <3>2. next[m] # 0 /\ next[m] <= last /\ next[m] \in m + 1 .. n /\ u[next[m]] = u[p]
      BY <2>3, <1>6
    <3>3. ASSUME NEW j \in m + 1 .. n, v[j] = p PROVE next[m] <= j
      <4>1. u[j] = u[m]
        BY <3>3, <2>3, <1>2
      <4> QED BY <4>1, <1>6
    <3> QED BY <3>1, <3>2, <3>3, <2>3
  <2>4. CASE ~Moved(m) /\ m # p
    <3>1. n2[m] = next[m] /\ v[m] = u[m] /\ u[m] # p
      BY <2>4, <1>2
    <3>2. ASSUME next[m] # 0 PROVE next[m] \in m + 1 .. n /\ v[next[m]] = v[m]
      <4>1. next[m] \in m + 1 .. n /\ u[next[m]] = u[m]
        BY <3>2, <1>6
      <4>2. ASSUME Moved(next[m]) PROVE FALSE
        <5>1. m < p /\ p \in m + 1 .. n /\ u[p] = u[m]
          BY <4>1, <4>2, <2>4
        <5>2. next[m] <= p
          BY <5>1, <1>6
        <5> QED BY <5>2, <4>1, <4>2
      <4> QED BY <4>1, <4>2, <3>1
    <3>3. ASSUME NEW j \in m + 1 .. n, v[j] = v[m] PROVE next[m] # 0 /\ next[m] <= j
      BY <3>1, <3>3, <1>6
    <3> QED BY <3>1, <3>2, <3>3
  <2> QED BY <2>1, <2>2, <2>3, <2>4
<1> QED BY <1>8, <1>9, <1>10 DEF Shape

\* A list is spliced into the one that its entry m is in.
LEMMA SpliceKeepsShape ==
  ASSUME NEW n \in Nat, NEW u, NEW list, NEW next, Shape(n, u, list, next),
         NEW m \in 2 .. n, list[m] # 0, NEW l \in 1 .. n, u[l] = m, \A c \in 1 .. n : u[c] = m => c <= l,
         NEW v, NEW l2, NEW n2,
         \A c \in 1 .. n : v[c] = IF u[c] = m THEN u[m] ELSE u[c],
         \A c \in 1 .. n : l2[c] = IF c = m THEN 0 ELSE list[c],
         \A c \in 1 .. n : n2[c] = IF c = m THEN list[m] ELSE IF c = l THEN next[m] ELSE next[c]
  PROVE  Shape(n, v, l2, n2)
<1> DEFINE p == u[m]
<1>1. list[m] = m + 1 /\ m + 1 \in 2 .. n /\ u[m + 1] = m
  BY FirstIsBelow
<1>2. \A x \in 1 .. n : u[x] \in Nat /\ u[x] < x
  BY OverIsNumber
<1>3. u[1] = 0 /\ \A c \in 2 .. n : u[c] \in 1 .. c - 1
  BY DEF Shape, Ordered
<1>4. \A j, i \in 2 .. n : u[j] < i /\ i < j => u[j] <= u[i]
  BY DEF Shape, Ordered
<1>5. \A q \in 1 .. n : list[q] = IF q < n /\ u[q + 1] = q THEN q + 1 ELSE 0
  BY DEF Shape, Lists
<1>6. \A q \in 1 .. n :
        /\ next[q] # 0 => next[q] \in q + 1 .. n /\ u[next[q]] = u[q]
        /\ \A j \in q + 1 .. n : u[j] = u[q] => next[q] # 0 /\ next[q] <= j
  BY DEF Shape, Nexts
<1>7. p \in 1 .. m - 1 /\ m < l /\ l \in 2 .. n /\ \A c \in 1 .. n : u[c] = m => m < c /\ c \in 2 .. n
  BY <1>3
<1>8. Ordered(n, v)
  <2>1. v[1] = 0
    BY <1>3
  <2>2. \A c \in 2 .. n : v[c] \in 1 .. c - 1
    BY <1>3, <1>7
  <2>3. ASSUME NEW j \in 2 .. n, NEW i \in 2 .. n, v[j] < i, i < j PROVE v[j] <= v[i]
    <3>1. CASE u[j] = m /\ i > m
      <4>1. m <= u[i]
        BY <3>1, <2>3, <1>4
      <4> QED BY <4>1, <3>1, <1>2, <1>7
    <3>2. CASE u[j] = m /\ i = m
      BY <3>2, <1>7
    <3>3. CASE u[j] = m /\ i < m
      <4>1. p <= u[i] /\ u[i] # m
        BY <3>3, <2>3, <1>4, <1>7
      <4> QED BY <4>1, <3>3
    <3>4. CASE u[j] # m /\ u[i] # m
      BY <3>4, <2>3, <1>4
    <3>5. CASE u[j] # m /\ u[i] = m
      <4>1. u[j] <= m /\ m < i
        BY <3>5, <2>3, <1>4, <1>7
      <4>2. u[j] <= p
        BY <4>1, <3>5, <2>3, <1>4, <1>3
      <4> QED BY <4>2, <3>5
    <3> QED BY <3>1, <3>2, <3>3, <3>4, <3>5
  <2> QED BY <2>1, <2>2, <2>3 DEF Ordered
<1>9. Lists(n, v, l2)
  <2> SUFFICES ASSUME NEW q \in 1 .. n PROVE l2[q] = IF q < n /\ v[q + 1] = q THEN q + 1 ELSE 0
    BY DEF Lists
  <2>1. CASE q = m
    BY <2>1, <1>1, <1>7
  <2>2. CASE q # m
    <3>1. ASSUME q < n PROVE v[q + 1] = q <=> u[q + 1] = q
      BY <2>2, <3>1, <1>7
    <3> QED BY <3>1, <2>2, <1>5
  <2> QED BY <2>1, <2>2
<1>10. Nexts(n, v, n2)
  <2> SUFFICES ASSUME NEW q \in 1 .. n
               PROVE  /\ n2[q] # 0 => n2[q] \in q + 1 .. n /\ v[n2[q]] = v[q]
                      /\ \A j \in q + 1 .. n : v[j] = v[q] => n2[q] # 0 /\ n2[q] <= j
    BY DEF Nexts
  <2>1. CASE q = m
    BY <2>1, <1>1, <1>7
  <2>2. CASE q = l
    <3>1. n2[l] = next[m] /\ v[l] = p
      BY <1>7
    <3>2. ASSUME next[m] # 0 PROVE next[m] \in l + 1 .. n /\ v[next[m]] = p
      <4>1. next[m] \in m + 1 .. n /\ u[next[m]] = p
        BY <3>2, <1>6
      <4>2. ASSUME next[m] < l PROVE FALSE
        <5>1. m <= p
          BY <4>1, <4>2, <1>4, <1>7
        <5> QED BY <5>1, <1>7
      <4> QED BY <4>1, <4>2, <1>7
    <3>3. ASSUME NEW j \in l + 1 .. n, v[j] = p PROVE next[m] # 0 /\ next[m] <= j
      <4>1. u[j] = u[m] /\ j \in m + 1 .. n
        BY <3>3, <1>7
      <4> QED BY <4>1, <1>6
    <3> QED BY <2>2, <3>1, <3>2, <3>3
  <2>3. CASE u[q] = m /\ q # l
    <3>1. q < l /\ n2[q] = next[q] /\ v[q] = p
      BY <2>3, <1>7
    <3>2. next[q] # 0 /\ next[q] \in q + 1 .. n /\ u[next[q]] = m
      BY <3>1, <2>3, <1>6
    <3>3. ASSUME NEW j \in q + 1 .. n, v[j] = p PROVE next[q] <= j
      <4>1. CASE u[j] = m
        BY <4>1, <2>3, <1>6
      <4>2. CASE u[j] # m
        <5>1. ASSUME j < next[q] PROVE FALSE
          <6>1. m <= u[j]
            BY <5>1, <3>2, <1>4, <1>7, <2>3
          <6> QED BY <6>1, <4>2, <3>3, <1>7
        <5> QED BY <5>1, <3>2
      <4> QED BY <4>1, <4>2
    <3> QED BY <3>1, <3>2, <3>3
  <2>4. CASE u[q] # m /\ q # m
    <3>1. n2[q] = next[q] /\ v[q] = u[q]
      BY <2>4
    <3>2. next[q] # 0 => next[q] \in q + 1 .. n /\ v[next[q]] = v[q]
      BY <3>1, <2>4, <1>6
    <3>3. ASSUME NEW j \in q + 1 .. n, v[j] = v[q] PROVE next[q] # 0 /\ next[q] <= j
      <4>1. CASE u[j] # m
        BY <4>1, <3>1, <3>3, <1>6
      <4>2. CASE u[j] = m /\ q < m
        <5>1. m \in q + 1 .. n /\ u[m] = u[q]
          BY <4>2, <3>1, <3>3
        <5>2. next[q] # 0 /\ next[q] <= m /\ next[q] \in q + 1 .. n
          BY <5>1, <1>6
        <5> QED BY <5>2, <4>2, <1>7
      <4>3. CASE u[j] = m /\ q > m
        <5>1. m <= u[q] /\ u[q] = p
          BY <4>3, <3>1, <3>3, <1>4, <1>7
        <5> QED BY <5>1, <1>7
      <4> QED BY <4>1, <4>2, <4>3, <2>4
    <3> QED BY <3>1, <3>2, <3>3
  <2> QED BY <2>1, <2>2, <2>3, <2>4
<1> QED BY <1>8, <1>9, <1>10 DEF Shape

\* The parser makes an entry, below a menu that has none or behind its last.
LEMMA EntryKeepsShape ==
  ASSUME NEW n \in Nat, NEW u, NEW list, NEW next, Shape(n, u, list, next),
         NEW menu \in 1 .. n, \A i \in menu + 1 .. n : u[i] >= menu,
         NEW x, NEW below \in BOOLEAN,
         below => x = n /\ menu = n,
         ~below => x \in menu + 1 .. n /\ u[x] = menu /\ \A i \in x + 1 .. n : u[i] >= x,
         NEW v, NEW l2, NEW n2,
         \A m \in 1 .. n + 1 : v[m] = IF m = n + 1 THEN menu ELSE u[m],
         \A m \in 1 .. n + 1 : l2[m] = IF m = n + 1 THEN 0 ELSE IF below /\ m = x THEN n + 1 ELSE list[m],
         \A m \in 1 .. n + 1 : n2[m] = IF m = n + 1 THEN 0 ELSE IF ~below /\ m = x THEN n + 1 ELSE next[m]
  PROVE  Shape(n + 1, v, l2, n2)
<1>2. \A m \in 1 .. n : u[m] \in Nat /\ u[m] < m
  BY OverIsNumber
<1>3. u[1] = 0 /\ \A c \in 2 .. n : u[c] \in 1 .. c - 1
  BY DEF Shape, Ordered
<1>4. \A j, i \in 2 .. n : u[j] < i /\ i < j => u[j] <= u[i]
  BY DEF Shape, Ordered
<1>5. \A q \in 1 .. n : list[q] = IF q < n /\ u[q + 1] = q THEN q + 1 ELSE 0
  BY DEF Shape, Lists
<1>6. \A q \in 1 .. n :
        /\ next[q] # 0 => next[q] \in q + 1 .. n /\ u[next[q]] = u[q]
        /\ \A j \in q + 1 .. n : u[j] = u[q] => next[q] # 0 /\ next[q] <= j
  BY DEF Shape, Nexts
<1>7. Ordered(n + 1, v)
  <2>1. v[1] = 0 /\ \A c \in 2 .. n + 1 : v[c] \in 1 .. c - 1
    BY <1>3
  <2>2. ASSUME NEW j \in 2 .. n + 1, NEW i \in 2 .. n + 1, v[j] < i, i < j PROVE v[j] <= v[i]
    <3>1. i \in 2 .. n /\ v[i] = u[i]
      BY <2>2
    <3>2. CASE j = n + 1
      BY <3>1, <3>2, <2>2
    <3>3. CASE j # n + 1
      BY <3>1, <3>3, <2>2, <1>4
    <3> QED BY <3>2, <3>3
  <2> QED BY <2>1, <2>2 DEF Ordered
<1>8. Lists(n + 1, v, l2)
  <2> SUFFICES ASSUME NEW q \in 1 .. n + 1
               PROVE l2[q] = IF q < n + 1 /\ v[q + 1] = q THEN q + 1 ELSE 0
    BY DEF Lists
  <2>1. CASE q = n + 1
    BY <2>1
  <2>2. CASE q = n
    <3>1. v[q + 1] = menu /\ list[q] = 0
      BY <2>2, <1>5
    <3> QED BY <3>1, <2>2
  <2>3. CASE q < n
    <3>1. v[q + 1] = u[q + 1] /\ l2[q] = list[q]
      BY <2>3
    <3> QED BY <3>1, <2>3, <1>5
  <2> QED BY <2>1, <2>2, <2>3
<1>9. Nexts(n + 1, v, n2)
  <2> SUFFICES ASSUME NEW q \in 1 .. n + 1
               PROVE  /\ n2[q] # 0 => n2[q] \in q + 1 .. n + 1 /\ v[n2[q]] = v[q]
                      /\ \A j \in q + 1 .. n + 1 : v[j] = v[q] => n2[q] # 0 /\ n2[q] <= j
    BY DEF Nexts
  <2>1. CASE q = n + 1
    BY <2>1
  <2>2. CASE q \in 1 .. n /\ ~below /\ q = x
    <3>1. n2[q] = n + 1 /\ v[q] = menu /\ v[n + 1] = menu
      BY <2>2
    <3>2. \A j \in q + 1 .. n : v[j] # menu
      BY <2>2
    <3> QED BY <3>1, <3>2, <2>2
  <2>3. CASE q \in 1 .. n /\ ~(~below /\ q = x)
    <3>1. n2[q] = next[q] /\ v[q] = u[q]
      BY <2>3
    <3>2. next[q] # 0 => next[q] \in q + 1 .. n + 1 /\ v[next[q]] = v[q]
      BY <2>3, <3>1, <1>6
    <3>3. ASSUME NEW j \in q + 1 .. n + 1, v[j] = v[q] PROVE next[q] # 0 /\ next[q] <= j
      <4>1. CASE j # n + 1
        BY <4>1, <3>1, <3>3, <2>3, <1>6
      <4>2. CASE j = n + 1
        <5>1. u[q] = menu /\ ~below
          BY <4>2, <3>1, <3>3, <2>3, <1>2
        <5>2. q < x /\ x \in q + 1 .. n /\ u[x] = u[q]
          BY <5>1, <2>3
        <5>3. next[q] # 0 /\ next[q] <= x
          BY <5>2, <2>3, <1>6
        <5>4. next[q] \in q + 1 .. n
          BY <5>3, <2>3, <1>6
        <5> QED BY <5>3, <5>4, <4>2
      <4> QED BY <4>1, <4>2
    <3> QED BY <3>1, <3>2, <3>3
  <2> QED BY <2>1, <2>2, <2>3
<1> QED BY <1>7, <1>8, <1>9 DEF Shape

\* Exactly one link leads to an entry, from an entry before it.
LEMMA OneLink ==
  ASSUME NEW n \in Nat, NEW u, NEW list, NEW next, Shape(n, u, list, next), NEW m \in 2 .. n
  PROVE  \/ /\ list[m - 1] = m
            /\ \A a \in 1 .. n : (list[a] = m => a = m - 1) /\ next[a] # m
         \/ \E a \in 1 .. m - 1 :
              /\ next[a] = m
              /\ \A b \in 1 .. n : (next[b] = m => b = a) /\ list[b] # m
<1>2. \A x \in 1 .. n : u[x] \in Nat /\ u[x] < x
  BY OverIsNumber
<1>5. \A q \in 1 .. n : list[q] = IF q < n /\ u[q + 1] = q THEN q + 1 ELSE 0
  BY DEF Shape, Lists
<1>6. \A q \in 1 .. n :
        /\ next[q] # 0 => next[q] \in q + 1 .. n /\ u[next[q]] = u[q]
        /\ \A j \in q + 1 .. n : u[j] = u[q] => next[q] # 0 /\ next[q] <= j
  BY DEF Shape, Nexts
<1>7. \A b \in 1 .. n : next[b] = m => b < m /\ u[b] = u[m]
  BY <1>6
<1>8. \A b \in 1 .. n : list[b] = m => b = m - 1 /\ u[m] = m - 1
  BY <1>5
<1>1. CASE u[m] = m - 1
  <2>1. list[m - 1] = m
    BY <1>1, <1>5
  <2>2. ASSUME NEW b \in 1 .. n, next[b] = m PROVE FALSE
    BY <2>2, <1>7, <1>1, <1>2
  <2> QED BY <2>1, <2>2, <1>8
<1>3. CASE u[m] # m - 1
  <2>1. PICK a \in 1 .. m - 1 : next[a] = m /\ u[a] = u[m]
    BY <1>3, HasSiblingBefore
  <2>2. ASSUME NEW b \in 1 .. n, next[b] = m, b # a PROVE FALSE
    <3>1. b < m /\ u[b] = u[a]
      BY <2>1, <2>2, <1>7
    <3>2. CASE b < a
      <4>1. next[b] <= a
        BY <3>1, <3>2, <1>6
      <4> QED BY <4>1, <2>2
    <3>3. CASE a < b
      <4>1. next[a] <= b
        BY <3>1, <3>3, <1>6
      <4> QED BY <4>1, <2>1, <3>1
    <3> QED BY <3>2, <3>3, <2>2
  <2> QED BY <2>1, <2>2, <1>3, <1>8
<1> QED BY <1>1, <1>3

\* The walk goes on behind the innermost entry that encloses m and has a next.
LEMMA WalkGoesOn ==
  ASSUME NEW n \in Nat, NEW u, NEW list, NEW next, Shape(n, u, list, next),
         NEW m \in 1 .. n, list[m] = 0, NEW S,
         S = {a \in 1 .. m : (\A i \in a + 1 .. m : u[i] >= a) /\ next[a] # 0}
  PROVE  IF m = n THEN S = {} ELSE S # {} /\ next[Max(S)] = m + 1
<1>2. \A x \in 1 .. n : u[x] \in Nat /\ u[x] < x
  BY OverIsNumber
<1>4. \A j, i \in 2 .. n : u[j] < i /\ i < j => u[j] <= u[i]
  BY DEF Shape, Ordered
<1>6. \A q \in 1 .. n :
        /\ next[q] # 0 => next[q] \in q + 1 .. n /\ u[next[q]] = u[q]
        /\ \A j \in q + 1 .. n : u[j] = u[q] => next[q] # 0 /\ next[q] <= j
  BY DEF Shape, Nexts
<1>7. \A a \in S : a \in 1 .. m /\ next[a] \in m + 1 .. n /\ u[next[a]] = u[a] /\ u[a] < a
  <2> SUFFICES ASSUME NEW a \in S
               PROVE a \in 1 .. m /\ next[a] \in m + 1 .. n /\ u[next[a]] = u[a] /\ u[a] < a
    OBVIOUS
  <2>2. a \in 1 .. m /\ next[a] # 0 /\ \A i \in a + 1 .. m : u[i] >= a
    OBVIOUS
  <2>3. a \in 1 .. n /\ next[a] \in a + 1 .. n /\ u[next[a]] = u[a] /\ u[a] < a /\ u[a] \in Nat
    BY <2>2, <1>2, <1>6
  <2>4. ASSUME next[a] \in a + 1 .. m PROVE FALSE
    BY <2>2, <2>3, <2>4
  <2> QED BY <2>2, <2>3, <2>4
<1>8. CASE m = n
  BY <1>7, <1>8
<1>9. CASE m # n
  <2> DEFINE w == m + 1
  <2>1. w \in 2 .. n /\ u[w] # w - 1
    BY <1>9, LeafHasNoneBelow
  <2>2. PICK a \in 1 .. w - 1 : next[a] = w /\ u[a] = u[w]
    BY <2>1, HasSiblingBefore
  <2>3. \A i \in a + 1 .. w - 1 : u[i] >= a
    BY <2>1, <2>2, BetweenSiblings
  <2>4. a \in S
    BY <2>1, <2>2, <2>3
  <2>5. ASSUME NEW b \in S, b > a PROVE FALSE
    <3>1. b \in 1 .. m /\ next[b] \in m + 1 .. n /\ u[next[b]] = u[b] /\ u[b] < b
      BY <1>7
    <3>2. u[b] >= a /\ u[w] < a
      BY <2>3, <2>5, <3>1, <2>2, <1>2
    <3>3. CASE next[b] = w
      BY <3>1, <3>2, <3>3, <1>2, <2>1
    <3>4. CASE next[b] # w
      <4>2. u[b] \in Nat /\ u[w] \in Nat /\ u[b] < w /\ w < next[b] /\ next[b] \in 2 .. n
        BY <3>1, <3>4, <2>1, <1>2
      <4>1. u[next[b]] <= u[w]
        BY <3>1, <4>2, <2>1, <1>4
      <4> QED BY <4>1, <4>2, <3>1, <3>2
    <3> QED BY <3>3, <3>4
  <2>6. Max(S) \in S /\ \A x \in S : x <= Max(S)
    <3>1. S \in SUBSET (1 .. n) /\ S # {}
      BY <2>4, <1>7
    <3> QED BY <3>1, GreatestElement
  <2>7. Max(S) = a
    BY <2>4, <2>5, <2>6, <1>7
  <2> QED BY <2>2, <2>4, <2>7, <1>9
<1> QED BY <1>8, <1>9

-----------------------------------------------------------------------------
\* What the invariant says of the numbers of entries, and of the tree when no
\* call is under way.
TreeRecords == [parent : Seq(Nat), list : Seq(Nat), next : Seq(Nat), menu : Nat, entry : Nat,
                last : Nat \X {"list", "next"}]

LEMMA ElementsOfList ==
  ASSUME NEW s \in Seq(Nat)
  PROVE  /\ Len(s) \in Nat /\ DOMAIN s = 1 .. Len(s) /\ \A i \in 1 .. Len(s) : s[i] \in Nat
         /\ s = [i \in 1 .. Len(s) |-> s[i]]
  OBVIOUS

LEMMA Replaced ==
  ASSUME NEW s \in Seq(Nat), NEW x \in 1 .. Len(s), NEW m \in Nat
  PROVE  /\ [s EXCEPT ![x] = m] \in Seq(Nat) /\ Len([s EXCEPT ![x] = m]) = Len(s)
         /\ \A i \in 1 .. Len(s) : [s EXCEPT ![x] = m][i] = IF i = x THEN m ELSE s[i]
  OBVIOUS

LEMMA Appended ==
  ASSUME NEW s \in Seq(Nat), NEW m \in Nat
  PROVE  /\ Append(s, m) \in Seq(Nat) /\ Len(Append(s, m)) = Len(s) + 1
         /\ \A i \in 1 .. Len(s) + 1 : Append(s, m)[i] = IF i = Len(s) + 1 THEN m ELSE s[i]
  OBVIOUS

LEMMA TreeTypes ==
  ASSUME NEW t, IsTree(t)
  PROVE  /\ t \in TreeRecords /\ Len(t.parent) \in Nat \ {0}
         /\ t.parent \in Seq(Nat) /\ t.list \in Seq(Nat) /\ t.next \in Seq(Nat)
         /\ Len(t.list) = Len(t.parent) /\ Len(t.next) = Len(t.parent)
<1>1. t \in TreeRecords /\ t.parent # <<>> /\ Len(t.list) = Len(t.parent) /\ Len(t.next) = Len(t.parent)
  BY DEF IsTree, TreeRecords
<1>2. t.parent \in Seq(Nat) /\ t.list \in Seq(Nat) /\ t.next \in Seq(Nat)
  BY <1>1 DEF TreeRecords
<1>3. Len(t.parent) \in Nat \ {0}
  <2> DEFINE s == t.parent
  <2>1. s \in Seq(Nat) /\ s # <<>>
    BY <1>1, <1>2
  <2> HIDE DEF s
  <2>2. Len(s) \in Nat \ {0}
    BY <2>1
  <2> QED BY <2>2 DEF s
<1> QED BY <1>1, <1>2, <1>3

LEMMA TreeFacts ==
  ASSUME IsTree(Tree)
  PROVE  /\ Len(Tree.parent) \in Nat \ {0} /\ Places = 1 .. Len(Tree.parent)
         /\ \A m \in Places : Tree.parent[m] \in Nat
<1> DEFINE s == Tree.parent
<1>1. s \in Seq(Nat) /\ Len(s) \in Nat \ {0}
  BY TreeTypes
<1>2. DOMAIN s = 1 .. Len(s) /\ \A i \in 1 .. Len(s) : s[i] \in Nat
  <2> HIDE DEF s
  <2> QED BY <1>1, ElementsOfList
<1> QED BY <1>1, <1>2 DEF Places

LEMMA QuietOver ==
  ASSUME NEW t, IsTree(t)
  PROVE  Over(t, <<>>) = t.parent
<1> DEFINE s == t.parent
<1>1. Gathering(<<>>) = {}
  BY DEF Gathering
<1>2. s \in Seq(Nat)
  BY TreeTypes
<1>3. Over(t, <<>>) = [m \in DOMAIN s |-> s[m]]
  BY <1>1 DEF Over
<1> HIDE DEF s
<1>4. s = [m \in DOMAIN s |-> s[m]]
  BY <1>2
<1> QED BY <1>3, <1>4 DEF s

LEMMA InvMeansOnce == TreeInv => EveryEntryOnce
<1> SUFFICES ASSUME TreeInv PROVE EveryEntryOnce
  OBVIOUS
<1> DEFINE n == Len(Tree.parent)  P == Tree.parent  L == Tree.list  N == Tree.next
<1>1. n \in Nat \ {0} /\ Places = 1 .. n /\ IsTree(Tree)
  BY TreeFacts DEF TreeInv
<1> DEFINE U == Over(Tree, calls)
<1>2. Shape(n, U, L, N)
  BY DEF TreeInv, Sound
<1>3. ASSUME NEW m \in 2 .. n PROVE \E l \in LinksTo(m) : LinksTo(m) = {l} /\ l[1] < m
  <2>0. LinksTo(m) = {l \in (1 .. n) \X {"list", "next"} : Tree[l[2]][l[1]] = m}
    BY <1>1 DEF LinksTo
  <2>1. \A a \in 1 .. n : /\ <<a, "list">> \in LinksTo(m) <=> L[a] = m
                          /\ <<a, "next">> \in LinksTo(m) <=> N[a] = m
    BY <2>0
  <2>2. \A l \in LinksTo(m) : \E a \in 1 .. n : l = <<a, "list">> \/ l = <<a, "next">>
    BY <2>0
  <2> HIDE DEF L, N, n, U
  <2>3. \/ /\ L[m - 1] = m
           /\ \A a \in 1 .. n : (L[a] = m => a = m - 1) /\ N[a] # m
        \/ \E a \in 1 .. m - 1 :
             /\ N[a] = m
             /\ \A b \in 1 .. n : (N[b] = m => b = a) /\ L[b] # m
    BY <1>1, <1>2, OneLink
  <2>4. CASE L[m - 1] = m /\ \A a \in 1 .. n : (L[a] = m => a = m - 1) /\ N[a] # m
    <3>0. m - 1 \in 1 .. n /\ m - 1 < m /\ m \in 1 .. n
      BY <1>1
    <3>1. <<m - 1, "list">> \in LinksTo(m)
      BY <3>0, <2>1, <2>4
    <3>2. LinksTo(m) = {<<m - 1, "list">>}
      BY <3>1, <2>1, <2>2, <2>4
    <3>3. <<m - 1, "list">>[1] < m
      BY <3>0
    <3> QED BY <3>1, <3>2, <3>3
  <2>5. ASSUME NEW a \in 1 .. m - 1, N[a] = m, \A b \in 1 .. n : (N[b] = m => b = a) /\ L[b] # m
        PROVE \E l \in LinksTo(m) : LinksTo(m) = {l} /\ l[1] < m
    <3>0. a \in 1 .. n /\ a < m
      BY <1>1
    <3>1. <<a, "next">> \in LinksTo(m)
      BY <3>0, <2>1, <2>5
    <3>2. LinksTo(m) = {<<a, "next">>}
      <4>1. ASSUME NEW l \in LinksTo(m) PROVE l = <<a, "next">>
        <5>1. PICK b \in 1 .. n : l = <<b, "list">> \/ l = <<b, "next">>
          BY <2>2
        <5>2. l # <<b, "list">>
          BY <2>1, <2>5
        <5>3. l = <<b, "next">> /\ N[b] = m
          BY <5>1, <5>2, <2>1
        <5> QED BY <5>3, <2>5
      <4> QED BY <3>1, <4>1
    <3>3. <<a, "next">>[1] < m
      BY <3>0
    <3> QED BY <3>1, <3>2, <3>3
  <2> QED BY <2>3, <2>4, <2>5
<1>4. ASSUME phase = "ready"
      PROVE  /\ \A m \in 1 .. n : After(m) = IF m = n THEN 0 ELSE m + 1
             /\ \A m \in 2 .. n : P[m] < m /\ Encloses(P[m], m)
  <2>1. calls = <<>> /\ U = P
    BY <1>1, <1>4, QuietOver DEF TreeInv
  <2>2. Shape(n, P, L, N)
    BY <1>2, <2>1
  <2>3. \A x \in 1 .. n : P[x] \in Nat /\ P[x] < x
    <3> HIDE DEF n, P, L, N
    <3> QED BY <1>1, <2>2, OverIsNumber
  <2>4. ASSUME NEW m \in 1 .. n PROVE After(m) = IF m = n THEN 0 ELSE m + 1
    <3>1. CASE L[m] # 0
      <4>1. L[m] = m + 1 /\ m + 1 \in 2 .. n
        <5> HIDE DEF n, P, L, N
        <5> QED BY <1>1, <2>2, <3>1, FirstIsBelow
      <4> QED BY <3>1, <4>1 DEF After
    <3>2. CASE L[m] = 0
      <4>1. Onward(m) = {a \in 1 .. m : (\A i \in a + 1 .. m : P[i] >= a) /\ N[a] # 0}
        BY <1>1 DEF Onward, Encloses
      <4> DEFINE S == Onward(m)
      <4>2. IF m = n THEN S = {} ELSE S # {} /\ N[Max(S)] = m + 1
        <5>1. S = {a \in 1 .. m : (\A i \in a + 1 .. m : P[i] >= a) /\ N[a] # 0}
          BY <4>1
        <5> HIDE DEF n, P, L, N, S
        <5> QED BY <1>1, <2>2, <3>2, <5>1, WalkGoesOn
      <4> QED BY <3>2, <4>2 DEF After
    <3> QED BY <3>1, <3>2
  <2>5. ASSUME NEW m \in 2 .. n PROVE P[m] < m /\ Encloses(P[m], m)
    <3>1. P[m] \in Nat /\ P[m] < m
      BY <2>3
    <3>2. ASSUME NEW i \in P[m] + 1 .. m PROVE P[i] >= P[m]
      <4>1. CASE i = m
        BY <4>1, <3>1
      <4>2. CASE i # m
        <5>1. i \in 2 .. n /\ P[m] < i /\ i < m
          <6>1. P[m] # 0
            BY <2>2 DEF Shape, Ordered
          <6> QED BY <6>1, <3>1, <4>2
        <5>2. P[m] <= P[i]
          BY <5>1, <2>2 DEF Shape, Ordered
        <5> QED BY <5>2, <5>1, <3>1, <2>3
      <4> QED BY <4>1, <4>2
    <3> QED BY <3>1, <3>2 DEF Encloses
  <2> QED BY <2>4, <2>5
<1> QED BY <1>3, <1>4 DEF EveryEntryOnce

-----------------------------------------------------------------------------
\* The parser only adds to the tree behind where it is.
Grows(t) == IsTree(t) /\ Shape(Len(t.parent), t.parent, t.list, t.next) /\ Growing(t)
LEMMA GrowsByEntry ==
  ASSUME NEW t, Grows(t)
  PROVE  Grows(WithEntry(t))
<1> DEFINE n == Len(t.parent)  m == n + 1
           u == t.parent  list == t.list  next == t.next  menu == t.menu  last == t.last  x == last[1]
           below == last[2] = "list"
           l1 == IF below THEN [list EXCEPT ![x] = m] ELSE list
           n1 == IF last[2] = "next" THEN [next EXCEPT ![x] = m] ELSE next
           t2 == WithEntry(t)
           v == t2.parent  l2 == t2.list  n2 == t2.next
<1>1. t \in TreeRecords /\ n \in Nat \ {0} /\ u \in Seq(Nat) /\ list \in Seq(Nat) /\ next \in Seq(Nat)
      /\ Len(u) = n /\ Len(list) = n /\ Len(next) = n
  BY TreeTypes DEF Grows
<1>2. /\ v = Append(u, menu) /\ l2 = Append(l1, 0) /\ n2 = Append(n1, 0)
      /\ t2.menu = menu /\ t2.entry = m /\ t2.last = <<m, "next">>
  BY <1>1 DEF TreeRecords, WithEntry
<1>3. /\ menu \in 1 .. n /\ \A i \in menu + 1 .. n : u[i] >= menu
      /\ \/ last = <<n, "list">> /\ menu = n
         \/ \E y \in menu + 1 .. n : last = <<y, "next">> /\ u[y] = menu /\ \A i \in y + 1 .. n : u[i] >= y
  BY DEF Grows, Growing
<1>4. Shape(n, u, list, next)
  BY DEF Grows
<1>5. t2 = [t EXCEPT !.parent = v, !.list = l2, !.next = n2, !.entry = m, !.last = <<m, "next">>]
  BY <1>1 DEF TreeRecords, WithEntry
<1> HIDE DEF t2, v, l2, n2, u, list, next, menu, last, n
<1>6. /\ below \in BOOLEAN /\ x \in 1 .. n /\ m \in Nat
      /\ below => x = n /\ menu = n
      /\ ~below => last[2] = "next" /\ x \in menu + 1 .. n /\ u[x] = menu /\ \A i \in x + 1 .. n : u[i] >= x
  <2>1. CASE last = <<n, "list">> /\ menu = n
    BY <2>1, <1>1
  <2>2. ASSUME NEW y \in menu + 1 .. n, last = <<y, "next">>, u[y] = menu, \A i \in y + 1 .. n : u[i] >= y
        PROVE  /\ ~below /\ last[2] = "next" /\ x = y
    BY <2>2
  <2>3. ASSUME NEW y \in menu + 1 .. n, last = <<y, "next">>, u[y] = menu, \A i \in y + 1 .. n : u[i] >= y
        PROVE  /\ ~below /\ last[2] = "next" /\ x \in 1 .. n /\ m \in Nat
               /\ x \in menu + 1 .. n /\ u[x] = menu /\ \A i \in x + 1 .. n : u[i] >= x
    <3>1. ~below /\ last[2] = "next" /\ x = y
      BY <2>2, <2>3
    <3>2. y \in 1 .. n /\ m \in Nat
      BY <1>1, <1>3
    <3> HIDE DEF x, below
    <3> QED BY <3>1, <3>2, <2>3
  <2> QED BY <2>1, <2>3, <1>3
<1> HIDE DEF x
<1>7. v \in Seq(Nat) /\ Len(v) = m /\ \A i \in 1 .. n + 1 : v[i] = IF i = n + 1 THEN menu ELSE u[i]
  <2>1. menu \in Nat
    BY <1>1, <1>3
  <2> QED BY <2>1, <1>1, <1>2, Appended
<1>8. /\ l2 \in Seq(Nat) /\ Len(l2) = m
      /\ \A i \in 1 .. n + 1 : l2[i] = IF i = n + 1 THEN 0 ELSE IF below /\ i = x THEN n + 1 ELSE list[i]
  <2>1. l1 \in Seq(Nat) /\ Len(l1) = n /\ \A i \in 1 .. n : l1[i] = IF below /\ i = x THEN m ELSE list[i]
    <3>1. CASE below
      BY <3>1, <1>1, <1>6, Replaced
    <3>2. CASE ~below
      BY <3>2, <1>1
    <3> QED BY <3>1, <3>2
  <2> HIDE DEF l1
  <2>2. 0 \in Nat
    OBVIOUS
  <2>3. \A i \in 1 .. n + 1 : l2[i] = IF i = n + 1 THEN 0 ELSE l1[i]
    BY <2>1, <2>2, <1>2, Appended
  <2>4. l2 \in Seq(Nat) /\ Len(l2) = m
    BY <2>1, <2>2, <1>2, Appended
  <2> HIDE DEF below
  <2> QED BY <2>1, <2>3, <2>4, <1>1
<1>9. /\ n2 \in Seq(Nat) /\ Len(n2) = m
      /\ \A i \in 1 .. n + 1 : n2[i] = IF i = n + 1 THEN 0 ELSE IF ~below /\ i = x THEN n + 1 ELSE next[i]
  <2>1. n1 \in Seq(Nat) /\ Len(n1) = n /\ \A i \in 1 .. n : n1[i] = IF ~below /\ i = x THEN m ELSE next[i]
    <3>1. CASE ~below
      BY <3>1, <1>1, <1>6, Replaced
    <3>2. CASE below
      BY <3>2, <1>1
    <3> QED BY <3>1, <3>2
  <2> HIDE DEF n1
  <2>2. 0 \in Nat
    OBVIOUS
  <2>3. \A i \in 1 .. n + 1 : n2[i] = IF i = n + 1 THEN 0 ELSE n1[i]
    BY <2>1, <2>2, <1>2, Appended
  <2>4. n2 \in Seq(Nat) /\ Len(n2) = m
    BY <2>1, <2>2, <1>2, Appended
  <2> HIDE DEF below
  <2> QED BY <2>1, <2>3, <2>4, <1>1
<1>10. IsTree(t2)
  <2>1. t2 \in TreeRecords
    <3>1. <<m, "next">> \in Nat \X {"list", "next"}
      BY <1>6
    <3> QED BY <3>1, <1>1, <1>5, <1>6, <1>7, <1>8, <1>9 DEF TreeRecords
  <2>2. v # <<>>
    BY <1>7, <1>1
  <2> QED BY <2>1, <2>2, <1>7, <1>8, <1>9 DEF IsTree, TreeRecords, v, l2, n2
<1>11. Shape(n + 1, v, l2, n2)
  <2> HIDE DEF below
  <2>1. n \in Nat
    BY <1>1
  <2>2. below \in BOOLEAN /\ menu \in 1 .. n /\ \A i \in menu + 1 .. n : u[i] >= menu
    BY <1>3, <1>6
  <2>3. below => x = n /\ menu = n
    BY <1>6
  <2>4. ~below => x \in menu + 1 .. n /\ u[x] = menu /\ \A i \in x + 1 .. n : u[i] >= x
    BY <1>6
  <2>5. /\ \A i \in 1 .. n + 1 : v[i] = IF i = n + 1 THEN menu ELSE u[i]
        /\ \A i \in 1 .. n + 1 : l2[i] = IF i = n + 1 THEN 0 ELSE IF below /\ i = x THEN n + 1 ELSE list[i]
        /\ \A i \in 1 .. n + 1 : n2[i] = IF i = n + 1 THEN 0 ELSE IF ~below /\ i = x THEN n + 1 ELSE next[i]
    BY <1>7, <1>8, <1>9
  <2> QED BY <2>1, <2>2, <2>3, <2>4, <2>5, <1>4, EntryKeepsShape
<1>12. Growing(t2)
  <2>1. \A i \in menu + 1 .. m : v[i] >= menu
    <3> SUFFICES ASSUME NEW i \in menu + 1 .. m PROVE v[i] >= menu
      OBVIOUS
    <3>1. i \in 1 .. n + 1 /\ menu \in Nat
      BY <1>1, <1>3
    <3>2. CASE i = n + 1
      BY <3>1, <3>2, <1>7
    <3>3. CASE i # n + 1
      <4>1. i \in menu + 1 .. n
        BY <3>1, <3>3, <1>1
      <4>2. v[i] = u[i]
        BY <3>1, <3>3, <1>7
      <4> QED BY <4>1, <4>2, <1>3
    <3> QED BY <3>2, <3>3
  <2>2. m \in menu + 1 .. m /\ v[m] = menu /\ (\A i \in m + 1 .. m : v[i] >= m) /\ menu \in 1 .. m
    BY <1>1, <1>3, <1>7
  <2> HIDE DEF m
  <2> QED BY <1>2, <1>7, <2>1, <2>2 DEF Growing, v
<1>13. Shape(Len(t2.parent), t2.parent, t2.list, t2.next)
  BY <1>7, <1>11 DEF v, l2, n2
<1> QED BY <1>10, <1>12, <1>13 DEF Grows, t2

LEMMA GrowsByMenu ==
  ASSUME NEW t, Grows(t)
  PROVE  Grows(WithMenu(t))
<1> DEFINE t2 == WithMenu(t)
<1>1. t \in TreeRecords
  BY TreeTypes DEF Grows
<1>2. /\ t2 \in TreeRecords
      /\ t2.parent = t.parent /\ t2.list = t.list /\ t2.next = t.next
      /\ t2.menu = t.entry /\ t2.entry = t.entry /\ t2.last = <<t.entry, "list">>
  BY <1>1 DEF TreeRecords, WithMenu
<1>3. t.entry = Len(t.parent) /\ Len(t.parent) \in Nat \ {0}
  BY TreeTypes DEF Grows, Growing
<1> HIDE DEF t2
<1>4. IsTree(t2)
  BY <1>2 DEF Grows, IsTree, TreeRecords
<1>5. Shape(Len(t2.parent), t2.parent, t2.list, t2.next)
  BY <1>2 DEF Grows
<1>6. Growing(t2)
  <2> DEFINE n == Len(t.parent)
  <2> HIDE DEF n
  <2>1. n \in Nat \ {0} /\ Len(t2.parent) = n /\ t2.entry = n /\ t2.menu = n /\ t2.last = <<n, "list">>
    BY <1>2, <1>3 DEF n
  <2>2. \A i \in n + 1 .. n : t2.parent[i] >= n
    BY <2>1
  <2> QED BY <2>1, <2>2 DEF Growing
<1> QED BY <1>4, <1>5, <1>6 DEF Grows, t2

LEMMA GrowsByEnd ==
  ASSUME NEW t, Grows(t), t.menu # 1
  PROVE  Grows(WithEnd(t))
<1> DEFINE t2 == WithEnd(t)  n == Len(t.parent)  x == t.menu  P == t.parent  y == P[x]
<1>1. t \in TreeRecords /\ n \in Nat \ {0} /\ P \in Seq(Nat) /\ Len(P) = n
  BY TreeTypes DEF Grows
<1>2. t.entry = n /\ x \in 1 .. n /\ \A i \in x + 1 .. n : P[i] >= x
  BY DEF Grows, Growing
<1>3. x # 1
  OBVIOUS
<1>4. Shape(n, P, t.list, t.next)
  BY DEF Grows
<1>5. y \in Nat /\ x \in Nat
  <2> HIDE DEF n, P, x
  <2> QED BY <1>1, <1>2, ElementsOfList
<1>6. /\ t2 \in TreeRecords
      /\ t2.parent = P /\ t2.list = t.list /\ t2.next = t.next
      /\ t2.menu = y /\ t2.entry = t.entry /\ t2.last = <<x, "next">>
  BY <1>1, <1>5 DEF TreeRecords, WithEnd
<1> HIDE DEF t2
<1>7. IsTree(t2)
  BY <1>6 DEF Grows, IsTree, TreeRecords
<1>8. Shape(Len(t2.parent), t2.parent, t2.list, t2.next)
  BY <1>6, <1>4
<1> HIDE DEF n, P, x
<1>9. /\ y \in 1 .. x - 1 /\ x \in 2 .. n
      /\ \A j, i \in 2 .. n : P[j] < i /\ i < j => P[j] <= P[i]
      /\ \A i \in 1 .. n : P[i] \in Nat
  BY <1>1, <1>2, <1>3, <1>4, ElementsOfList DEF Shape, Ordered
<1>10. \A i \in y + 1 .. n : P[i] >= y
  <2> SUFFICES ASSUME NEW i \in y + 1 .. n PROVE P[i] >= y
    OBVIOUS
  <2>1. i \in 2 .. n /\ P[i] \in Nat
    BY <1>1, <1>9
  <2>2. CASE i < x
    BY <2>1, <2>2, <1>9
  <2>3. CASE i = x
    BY <2>3, <1>9
  <2>4. CASE i > x
    BY <2>1, <2>4, <1>2, <1>9
  <2> QED BY <2>1, <2>2, <2>3, <2>4, <1>9
<1>11. Growing(t2)
  <2>1. Len(t2.parent) = n /\ t2.entry = n
    BY <1>1, <1>2, <1>6
  <2>2. y \in 1 .. n /\ x \in y + 1 .. n /\ P[x] = y
    BY <1>1, <1>9
  <2> HIDE DEF y
  <2> QED BY <2>1, <2>2, <1>2, <1>6, <1>10 DEF Growing
<1> QED BY <1>7, <1>8, <1>11 DEF Grows, t2

\* The tree grows while no call is under way.
LEMMA QuietIsSound ==
  ASSUME NEW t, Grows(t)
  PROVE  Sound(t, <<>>) /\ Nested(<<>>) /\ <<>> \in Seq(CallRecords)
<1>1. Over(t, <<>>) = t.parent
  BY QuietOver DEF Grows
<1>2. Sound(t, <<>>)
  BY <1>1 DEF Sound, Grows
<1>3. Nested(<<>>)
  BY DEF Nested
<1> QED BY <1>2, <1>3

LEMMA InitHolds == TreeInit => TreeInv
<1> SUFFICES ASSUME TreeInit PROVE TreeInv
  OBVIOUS
<1> DEFINE t == [parent |-> <<0>>, list |-> <<0>>, next |-> <<0>>, menu |-> 1, entry |-> 1, last |-> <<1, "list">>]
<1>1. Tree = t /\ phase = "parsing" /\ calls = <<>>
  BY DEF TreeInit
<1>2. Len(t.parent) = 1 /\ Len(t.list) = 1 /\ Len(t.next) = 1
      /\ t.parent[1] = 0 /\ t.list[1] = 0 /\ t.next[1] = 0 /\ <<0>> \in Seq(Nat) /\ <<0>> # <<>>
  OBVIOUS
<1>3. IsTree(t)
  <2>1. <<1, "list">> \in Nat \X {"list", "next"}
    OBVIOUS
  <2>2. t \in TreeRecords
    BY <2>1, <1>2 DEF TreeRecords
  <2> QED BY <2>2, <1>2 DEF IsTree, TreeRecords
<1>4. t.entry = 1 /\ t.menu = 1 /\ t.last = <<1, "list">>
  OBVIOUS
<1> HIDE DEF t
<1>5. Shape(1, t.parent, t.list, t.next)
  <2>1. Ordered(1, t.parent)
    BY <1>2 DEF Ordered
  <2>2. Lists(1, t.parent, t.list)
    BY <1>2 DEF Lists
  <2>3. Nexts(1, t.parent, t.next)
    BY <1>2 DEF Nexts
  <2> QED BY <2>1, <2>2, <2>3 DEF Shape
<1>6. Growing(t)
  BY <1>2, <1>4 DEF Growing
<1>7. Grows(t)
  BY <1>2, <1>3, <1>5, <1>6 DEF Grows
<1> QED BY <1>1, <1>3, <1>6, <1>7, QuietIsSound DEF TreeInv

LEMMA ParseKeepsInv == TreeInv /\ Parse => TreeInv'
<1> SUFFICES ASSUME TreeInv, Parse PROVE TreeInv'
  OBVIOUS
<1>1. calls = <<>> /\ calls' = <<>> /\ phase' \in {"parsing", "parsed", "failed"}
  BY DEF TreeInv, Parse
<1>2. Grows(Tree)
  <2>1. Over(Tree, calls) = Tree.parent
    BY <1>1, QuietOver DEF TreeInv
  <2> QED BY <2>1 DEF TreeInv, Sound, Parse, Grows
<1>3. PICK t \in Completions(Tree) : Tree' \in Statement(t)
  BY DEF Parse
<1>4. Grows(t)
  BY <1>2, <1>3, GrowsByEntry, GrowsByMenu DEF Completions
<1>5. Grows(Tree')
  BY <1>3, <1>4, GrowsByEntry, GrowsByEnd DEF Statement
<1> HIDE DEF Tree
<1>6. Sound(Tree', <<>>) /\ Nested(<<>>) /\ <<>> \in Seq(CallRecords)
  BY <1>5, QuietIsSound
<1> QED BY <1>1, <1>5, <1>6 DEF TreeInv, Grows

-----------------------------------------------------------------------------
\* What the invariant says of a tree t and the calls cs under way on it.
Fine(t, cs) == IsTree(t) /\ cs \in Seq(CallRecords) /\ Nested(cs) /\ Sound(t, cs)

LEMMA FineFacts ==
  ASSUME NEW t, NEW cs, Fine(t, cs)
  PROVE  /\ Len(t.parent) \in Nat \ {0} /\ Len(cs) \in Nat /\ DOMAIN t.parent = 1 .. Len(t.parent)
         /\ DOMAIN cs = 1 .. Len(cs) /\ \A i \in 1 .. Len(cs) : cs[i] \in CallRecords
         /\ \A m \in 1 .. Len(t.parent) : t.parent[m] \in Nat /\ t.list[m] \in Nat /\ t.next[m] \in Nat
         /\ Shape(Len(t.parent), Over(t, cs), t.list, t.next)
         /\ \A i \in 1 .. Len(cs) : CallInv(t, Over(t, cs), cs[i])
         /\ \A i, j \in 1 .. Len(cs) : i < j => cs[i].p < cs[j].p
         /\ \A i \in 1 .. Len(cs) - 1 : cs[i].loop # "tidy" /\ cs[i].at = cs[i + 1].p
<1> DEFINE P == t.parent  L == t.list  N == t.next  n == Len(P)
<1>1. P \in Seq(Nat) /\ L \in Seq(Nat) /\ N \in Seq(Nat) /\ Len(L) = n /\ Len(N) = n /\ n \in Nat \ {0}
  BY TreeTypes DEF Fine
<1>2. DOMAIN P = 1 .. n /\ \A m \in 1 .. n : P[m] \in Nat /\ L[m] \in Nat /\ N[m] \in Nat
  <2> HIDE DEF P, L, N
  <2> QED BY <1>1
<1>3. Len(cs) \in Nat /\ DOMAIN cs = 1 .. Len(cs) /\ \A i \in 1 .. Len(cs) : cs[i] \in CallRecords
  <2> DEFINE R == CallRecords
  <2>1. cs \in Seq(R)
    BY DEF Fine
  <2> HIDE DEF R
  <2>2. Len(cs) \in Nat /\ DOMAIN cs = 1 .. Len(cs) /\ \A i \in 1 .. Len(cs) : cs[i] \in R
    BY <2>1
  <2> QED BY <2>2 DEF R
<1>4. Shape(n, Over(t, cs), L, N) /\ \A i \in 1 .. Len(cs) : CallInv(t, Over(t, cs), cs[i])
  BY <1>3 DEF Fine, Sound
<1>5. /\ \A i, j \in 1 .. Len(cs) : i < j => cs[i].p < cs[j].p
      /\ \A i \in 1 .. Len(cs) - 1 : cs[i].loop # "tidy" /\ cs[i].at = cs[i + 1].p
  BY <1>3 DEF Fine, Nested
<1> QED BY <1>1, <1>2, <1>3, <1>4, <1>5

\* Who is gathering.
LEMMA Gatherers ==
  ASSUME NEW cs, DOMAIN cs = 1 .. Len(cs)
  PROVE  \A q : q \in Gathering(cs) <=> \E i \in 1 .. Len(cs) : cs[i].loop = "behind" /\ cs[i].p = q
BY DEF Gathering

LEMMA OverOf ==
  ASSUME NEW t, NEW cs, DOMAIN t.parent = 1 .. Len(t.parent)
  PROVE  \A m \in 1 .. Len(t.parent) :
           Over(t, cs)[m] = IF t.parent[m] \in Gathering(cs) THEN t.parent[t.parent[m]] ELSE t.parent[m]
BY DEF Over

\* An outer call is at most at the entries of the inner ones, and has gathered
\* only entries before.
LEMMA OuterIsBefore ==
  ASSUME NEW t, NEW cs, Fine(t, cs), NEW j \in 1 .. Len(cs), NEW i \in 1 .. j - 1
  PROVE  /\ cs[i].p < cs[j].p /\ cs[i].at # 0 /\ cs[i].at <= cs[j].p /\ i \in 1 .. Len(cs)
         /\ cs[i].loop = "behind" => cs[i].last < cs[i].at
<1> DEFINE n == Len(t.parent)  u == Over(t, cs)  c == cs[i]  N == t.next
<1>1. /\ n \in Nat \ {0} /\ Len(cs) \in Nat /\ Shape(n, u, t.list, N)
      /\ CallInv(t, u, c) /\ CallInv(t, u, cs[j]) /\ cs[i].p < cs[j].p
  BY FineFacts
<1>2. c.at = cs[i + 1].p /\ i + 1 \in 1 .. Len(cs)
  BY FineFacts
<1>3. CallInv(t, u, cs[i + 1])
  BY <1>2, FineFacts
<1>4. cs[i + 1].p \in 1 .. n /\ cs[j].p \in 1 .. n
  BY <1>1, <1>3 DEF CallInv
<1>5. c.at <= cs[j].p
  <2>1. CASE i + 1 = j
    BY <2>1, <1>2, <1>4
  <2>2. CASE i + 1 # j
    <3>1. cs[i + 1].p < cs[j].p
      BY <2>2, <1>1, <1>2, FineFacts
    <3> QED BY <3>1, <1>2, <1>4
  <2> QED BY <2>1, <2>2
<1>6. ASSUME c.loop = "behind" PROVE c.last < c.at
  <2>1. /\ c.p \in 1 .. n /\ c.last \in 0 .. n /\ c.at \in 1 .. n /\ c.p < c.at
        /\ c.at = N[IF c.last = 0 THEN c.p ELSE c.last]
    BY <1>1, <1>2, <1>4, <1>6 DEF CallInv
  <2> HIDE DEF n, c, N, u
  <2>2. CASE c.last = 0
    BY <2>1, <2>2
  <2>3. CASE c.last # 0
    <3>1. c.last \in 1 .. n /\ c.at = N[c.last]
      BY <2>1, <2>3, <1>1
    <3> QED BY <3>1, <2>1, <1>1 DEF Shape, Nexts
  <2> QED BY <2>2, <2>3
<1> QED BY <1>1, <1>2, <1>4, <1>5, <1>6

\* The entry of a call has not been gathered by another one.
LEMMA OwnIsNotGathered ==
  ASSUME NEW t, NEW cs, Fine(t, cs), NEW j \in 1 .. Len(cs)
  PROVE  /\ t.parent[cs[j].p] \notin Gathering(cs)
         /\ Over(t, cs)[cs[j].p] = t.parent[cs[j].p]
<1> DEFINE n == Len(t.parent)  u == Over(t, cs)  p == cs[j].p
<1>1. n \in Nat \ {0} /\ CallInv(t, u, cs[j]) /\ p \in 1 .. n /\ DOMAIN t.parent = 1 .. n /\ DOMAIN cs = 1 .. Len(cs)
  BY FineFacts DEF CallInv
<1>2. ASSUME t.parent[p] \in Gathering(cs) PROVE FALSE
  <2> DEFINE q == t.parent[p]
  <2>0. q \in Gathering(cs) => \E i \in 1 .. Len(cs) : cs[i].loop = "behind" /\ cs[i].p = q
    <3> HIDE DEF q
    <3> QED BY <1>1, Gatherers
  <2>1. PICK i \in 1 .. Len(cs) : cs[i].loop = "behind" /\ cs[i].p = q
    BY <2>0, <1>2
  <2>2. CallInv(t, u, cs[i]) /\ cs[i].p \in 1 .. n /\ cs[i].last \in 0 .. n
    <3>1. CallInv(t, u, cs[i])
      BY FineFacts
    <3> QED BY <3>1 DEF CallInv
  <2>3. cs[i].p < p /\ p <= cs[i].last
    BY <2>1, <2>2, <1>1 DEF CallInv
  <2>4. CASE i < j
    <3>1. cs[i].at <= p /\ cs[i].last < cs[i].at /\ cs[i].at \in 0 .. n
      <4>1. i \in 1 .. j - 1
        BY <2>4, FineFacts
      <4> QED BY <4>1, <2>1, <2>2, OuterIsBefore DEF CallInv
    <3> QED BY <3>1, <2>2, <2>3, <1>1
  <2>5. CASE i >= j
    <3>1. p <= cs[i].p
      <4>1. CASE i = j
        BY <4>1, <1>1
      <4>2. CASE i > j
        <5>1. cs[j].p < cs[i].p
          BY <4>2, FineFacts
        <5> QED BY <5>1, <1>1, <2>2
      <4> QED BY <4>1, <4>2, <2>5, FineFacts
    <3> QED BY <3>1, <2>2, <2>3, <1>1
  <2> QED BY <2>4, <2>5, FineFacts
<1> QED BY <1>1, <1>2, OverOf

\* What happens to the tree happens behind q, and c has gathered the same.
Behind(q, n, t, u, t2, u2) ==
  /\ n = Len(t.parent) /\ n = Len(t2.parent)
  /\ \A j \in 1 .. n : j <= q => u2[j] = u[j]
  /\ \A j \in 1 .. n : j < q => t2.list[j] = t.list[j] /\ t2.next[j] = t.next[j]
GathersSame(c, t, t2) ==
  c.loop = "behind" => \A j \in 1 .. Len(t.parent) : t2.parent[j] = c.p <=> t.parent[j] = c.p

\* A call is not disturbed by what happens behind q, where it is at most.
LEMMA OuterIsKept ==
  ASSUME NEW t, NEW u, NEW t2, NEW u2, NEW n \in Nat, Shape(n, u, t.list, t.next),
         NEW c, CallInv(t, u, c), NEW q \in 1 .. n, c.p < q, c.at # 0, c.at <= q,
         c.loop = "behind" => c.last < c.at, Behind(q, n, t, u, t2, u2), GathersSame(c, t, t2)
  PROVE  CallInv(t2, u2, c)
<1>0. /\ n = Len(t.parent) /\ n = Len(t2.parent)
      /\ \A j \in 1 .. n : j <= q => u2[j] = u[j]
      /\ \A j \in 1 .. n : j < q => t2.list[j] = t.list[j] /\ t2.next[j] = t.next[j]
      /\ c.loop = "behind" => \A j \in 1 .. n : t2.parent[j] = c.p <=> t.parent[j] = c.p
  BY DEF Behind, GathersSame
<1>1. c.p \in 1 .. n /\ c.at \in 1 .. n /\ c.last \in 0 .. n /\ c.p < c.at
  BY <1>0 DEF CallInv
<1>2. c.loop # "behind" => u2[c.at] = c.p
  BY <1>0, <1>1 DEF CallInv
<1>3. ASSUME c.loop = "behind"
      PROVE  /\ t2.list[c.p] = 0
             /\ c.at = t2.next[IF c.last = 0 THEN c.p ELSE c.last]
             /\ c.last # 0 => c.p < c.last /\ u2[c.last] = u2[c.p]
             /\ \A j \in 1 .. n : t2.parent[j] = c.p <=> c.p < j /\ j <= c.last /\ u2[j] = u2[c.p]
  <2>1. /\ t.list[c.p] = 0
        /\ c.at = t.next[IF c.last = 0 THEN c.p ELSE c.last]
        /\ c.last # 0 => c.p < c.last /\ u[c.last] = u[c.p]
        /\ \A j \in 1 .. n : t.parent[j] = c.p <=> c.p < j /\ j <= c.last /\ u[j] = u[c.p]
    BY <1>0, <1>3 DEF CallInv
  <2>2. c.last < q
    BY <1>0, <1>1, <1>3
  <2>3. t2.list[c.p] = 0 /\ u2[c.p] = u[c.p]
    BY <1>0, <1>1, <2>1
  <2>4. c.at = t2.next[IF c.last = 0 THEN c.p ELSE c.last]
    BY <1>0, <1>1, <2>1, <2>2
  <2>5. c.last # 0 => c.p < c.last /\ u2[c.last] = u2[c.p]
    BY <1>0, <1>1, <2>1, <2>2, <2>3
  <2>6. \A j \in 1 .. n : t2.parent[j] = c.p <=> c.p < j /\ j <= c.last /\ u2[j] = u2[c.p]
    <3> SUFFICES ASSUME NEW j \in 1 .. n
                 PROVE t2.parent[j] = c.p <=> c.p < j /\ j <= c.last /\ u2[j] = u2[c.p]
      OBVIOUS
    <3>1. t2.parent[j] = c.p <=> c.p < j /\ j <= c.last /\ u[j] = u[c.p]
      BY <1>0, <1>3, <2>1
    <3>2. j <= c.last => u2[j] = u[j]
      BY <1>0, <1>1, <2>2
    <3> QED BY <1>0, <3>1, <3>2, <2>3
  <2> QED BY <1>0, <2>3, <2>4, <2>5, <2>6
<1> QED BY <1>0, <1>1, <1>2, <1>3 DEF CallInv

\* The calls from h + 2 on are over and the one before them has gone on, with
\* effects only behind its entry q.
LEMMA CallGoesOn ==
  ASSUME NEW t, NEW cs, Fine(t, cs),
         NEW t2, IsTree(t2), NEW cs2 \in Seq(CallRecords), NEW h \in 0 .. Len(cs) - 1,
         Len(cs2) = h + 1, \A i \in 1 .. h : cs2[i] = cs[i],
         NEW q, q = cs[h + 1].p, cs2[h + 1].p = q,
         Shape(Len(t.parent), Over(t2, cs2), t2.list, t2.next),
         Behind(q, Len(t.parent), t, Over(t, cs), t2, Over(t2, cs2)),
         \A i \in 1 .. h : GathersSame(cs[i], t, t2),
         CallInv(t2, Over(t2, cs2), cs2[h + 1])
  PROVE  Fine(t2, cs2)
<1> DEFINE n == Len(t.parent)  u == Over(t, cs)  u2 == Over(t2, cs2)
<1>1. n \in Nat /\ h \in Nat /\ Len(cs) \in Nat /\ h + 1 \in 1 .. Len(cs) /\ DOMAIN cs2 = 1 .. h + 1
  BY FineFacts
<1>2. Shape(n, u, t.list, t.next) /\ CallInv(t, u, cs[h + 1])
  BY <1>1, FineFacts
<1>3. q \in 1 .. n
  BY <1>2 DEF CallInv
<1>4. ASSUME NEW i \in 1 .. h PROVE CallInv(t2, u2, cs2[i])
  <2>1. i \in 1 .. h + 1 - 1 /\ i \in 1 .. Len(cs) /\ cs2[i] = cs[i]
    BY <1>1
  <2>2. /\ cs[i].p < q /\ cs[i].at # 0 /\ cs[i].at <= q
        /\ cs[i].loop = "behind" => cs[i].last < cs[i].at
    BY <1>1, <2>1, OuterIsBefore
  <2>3. CallInv(t, u, cs[i])
    BY <2>1, FineFacts
  <2> DEFINE c == cs[i]
  <2>7. CallInv(t, u, c) /\ c.p < q /\ c.at # 0 /\ c.at <= q /\ (c.loop = "behind" => c.last < c.at)
    BY <2>2, <2>3
  <2>4. GathersSame(c, t, t2) /\ Behind(q, n, t, u, t2, u2)
    OBVIOUS
  <2> HIDE DEF u, u2, n, c
  <2>6. CallInv(t2, u2, c)
    BY <1>1, <1>2, <1>3, <2>4, <2>7, OuterIsKept
  <2> QED BY <2>1, <2>6 DEF c
<1>5. Sound(t2, cs2)
  <2>1. \A i \in DOMAIN cs2 : CallInv(t2, u2, cs2[i])
    <3> SUFFICES ASSUME NEW i \in 1 .. h + 1 PROVE CallInv(t2, u2, cs2[i])
      BY <1>1
    <3>1. i \in 1 .. h \/ i = h + 1
      BY <1>1
    <3> QED BY <3>1, <1>4
  <2>2. Len(t2.parent) = n
    BY DEF Behind
  <2> QED BY <2>1, <2>2 DEF Sound
<1>6. Nested(cs2)
  <2>1. ASSUME NEW i \in 1 .. h + 1, NEW j \in 1 .. h + 1, i < j PROVE cs2[i].p < cs2[j].p
    <3>1. i \in 1 .. h /\ i \in 1 .. Len(cs) /\ j \in 1 .. Len(cs) /\ (j \in 1 .. h \/ j = h + 1)
      BY <1>1, <2>1
    <3>2. cs2[i].p = cs[i].p /\ cs2[j].p = cs[j].p
      BY <3>1
    <3>3. cs[i].p < cs[j].p
      BY <2>1, <3>1, FineFacts
    <3> QED BY <3>2, <3>3
  <2>2. ASSUME NEW i \in 1 .. h PROVE cs2[i].loop # "tidy" /\ cs2[i].at = cs2[i + 1].p
    <3>1. i \in 1 .. Len(cs) - 1 /\ (i + 1 \in 1 .. h \/ i + 1 = h + 1)
      BY <1>1
    <3>2. cs2[i] = cs[i] /\ cs2[i + 1].p = cs[i + 1].p
      BY <3>1
    <3>3. cs[i].loop # "tidy" /\ cs[i].at = cs[i + 1].p
      BY <3>1, FineFacts
    <3> QED BY <3>2, <3>3
  <2>3. Len(cs2) - 1 = h
    BY <1>1
  <2> QED BY <2>1, <2>2, <2>3, <1>1 DEF Nested
<1> QED BY <1>5, <1>6 DEF Fine

LEMMA OverSame ==
  ASSUME NEW t, NEW cs, NEW cs2, DOMAIN t.parent = 1 .. Len(t.parent),
         \A j \in 1 .. Len(t.parent) : t.parent[j] \in Gathering(cs2) <=> t.parent[j] \in Gathering(cs)
  PROVE  Over(t, cs2) = Over(t, cs)
BY DEF Over

LEMMA AppendedCall ==
  ASSUME NEW cs \in Seq(CallRecords), NEW c \in CallRecords
  PROVE  /\ Append(cs, c) \in Seq(CallRecords) /\ Len(Append(cs, c)) = Len(cs) + 1
         /\ \A i \in 1 .. Len(cs) : Append(cs, c)[i] = cs[i]
         /\ Append(cs, c)[Len(cs) + 1] = c
         /\ DOMAIN Append(cs, c) = 1 .. Len(cs) + 1
<1> DEFINE R == CallRecords
<1> HIDE DEF R
<1>1. ASSUME NEW s \in Seq(R), NEW d \in R
      PROVE  /\ Append(s, d) \in Seq(R) /\ Len(Append(s, d)) = Len(s) + 1
             /\ \A i \in 1 .. Len(s) : Append(s, d)[i] = s[i]
             /\ Append(s, d)[Len(s) + 1] = d
             /\ DOMAIN Append(s, d) = 1 .. Len(s) + 1
  OBVIOUS
<1> QED BY <1>1 DEF R

\* menu_finalize is called for m.
LEMMA CallBegins ==
  ASSUME NEW t, NEW cs, Fine(t, cs), NEW m \in 1 .. Len(t.parent), NEW c \in Begun(t, m),
         \/ cs = <<>> /\ m = 1
         \/ Len(cs) \in 1 .. Len(cs) /\ cs[Len(cs)].at = m /\ cs[Len(cs)].loop # "tidy"
  PROVE  Fine(t, Append(cs, c))
<1> DEFINE n == Len(t.parent)  h == Len(cs)  u == Over(t, cs)  cs2 == Append(cs, c)
           P == t.parent  L == t.list  N == t.next
<1>1. /\ n \in Nat \ {0} /\ h \in Nat /\ DOMAIN P = 1 .. n /\ DOMAIN cs = 1 .. h /\ Shape(n, u, L, N)
      /\ cs \in Seq(CallRecords)
      /\ \A j \in 1 .. n : P[j] \in Nat /\ L[j] \in Nat /\ N[j] \in Nat
      /\ \A i \in 1 .. h : CallInv(t, u, cs[i])
      /\ \A i, j \in 1 .. h : i < j => cs[i].p < cs[j].p
      /\ \A i \in 1 .. h - 1 : cs[i].loop # "tidy" /\ cs[i].at = cs[i + 1].p
  BY FineFacts DEF Fine
<1>2. /\ c \in CallRecords /\ c.p = m /\ c.last = 0
      /\ \/ c.loop = "below" /\ L[m] # 0 /\ c.at = L[m]
         \/ c.loop = "behind" /\ L[m] = 0 /\ c.at = N[m]
         \/ c.loop = "tidy" /\ L[m] = 0 /\ c.at = 0
  BY <1>1 DEF Begun, Call, CallRecords
<1>3. /\ cs2 \in Seq(CallRecords) /\ Len(cs2) = h + 1 /\ DOMAIN cs2 = 1 .. h + 1 /\ cs2[h + 1] = c
      /\ \A i \in 1 .. h : cs2[i] = cs[i]
  BY <1>1, <1>2, AppendedCall
<1>0. \/ h = 0
      \/ h \in 1 .. h /\ cs[h].at = m /\ cs[h].loop # "tidy"
  OBVIOUS
<1> HIDE DEF cs2, h
<1>4. ASSUME NEW i \in 1 .. h PROVE cs[i].p \in 1 .. n /\ cs[i].p < m
  <2>1. h # 0 /\ cs[h].at = m /\ h \in 1 .. h
    BY <1>0, <1>1
  <2>2. CallInv(t, u, cs[i]) /\ CallInv(t, u, cs[h])
    BY <1>1, <2>1
  <2>3. cs[i].p \in 1 .. n /\ cs[h].p \in 1 .. n /\ cs[h].p < m
    BY <1>1, <2>1, <2>2 DEF CallInv
  <2>4. CASE i = h
    BY <2>3, <2>4
  <2>5. CASE i # h
    <3>0. i < h
      BY <1>1, <2>5
    <3>1. \A j, l \in 1 .. h : j < l => cs[j].p < cs[l].p
      BY <1>1
    <3>2. cs[i].p < cs[h].p
      BY <3>0, <3>1, <2>1
    <3> QED BY <3>2, <2>3
  <2> QED BY <2>4, <2>5
<1>5. m \notin Gathering(cs)
  <2> SUFFICES ASSUME m \in Gathering(cs) PROVE FALSE
    OBVIOUS
  <2>1. PICK i \in 1 .. h : cs[i].p = m
    BY <1>1, Gatherers DEF h
  <2> QED BY <2>1, <1>1, <1>4
<1>6. ASSUME L[m] = 0, NEW j \in 1 .. n PROVE P[j] # m
  <2>1. u[j] # m
    <3> HIDE DEF n, u, L, N
    <3> QED BY <1>1, <1>6, LeafHasNoneBelow
  <2>2. u[j] = IF P[j] \in Gathering(cs) THEN P[P[j]] ELSE P[j]
    BY <1>1, OverOf
  <2> QED BY <2>1, <2>2, <1>5
<1>7. Over(t, cs2) = u
  <2>1. ASSUME NEW j \in 1 .. n PROVE P[j] \in Gathering(cs2) <=> P[j] \in Gathering(cs)
    <3> DEFINE q == P[j]
    <3>1. c.loop = "behind" => q # m
      BY <1>2, <1>6
    <3> HIDE DEF q
    <3>2. q \in Gathering(cs2) <=> \E i \in 1 .. h + 1 : cs2[i].loop = "behind" /\ cs2[i].p = q
      BY <1>3, Gatherers
    <3>3. q \in Gathering(cs) <=> \E i \in 1 .. h : cs[i].loop = "behind" /\ cs[i].p = q
      BY <1>1, Gatherers DEF h
    <3>4. \A i \in 1 .. h + 1 : i \in 1 .. h \/ i = h + 1
      BY <1>1
    <3>5. \A i \in 1 .. h : i \in 1 .. h + 1
      BY <1>1
    <3>6. q \in Gathering(cs2) <=> q \in Gathering(cs)
      BY <3>1, <3>2, <3>3, <3>4, <3>5, <1>2, <1>3
    <3> QED BY <3>6 DEF q
  <2> QED BY <2>1, <1>1, OverSame
<1>8. CallInv(t, u, c)
  <2>0. n \in Nat /\ Shape(n, u, L, N) /\ m \in 1 .. n
    BY <1>1
  <2>1. CASE L[m] # 0
    <3>1. L[m] = m + 1 /\ m + 1 \in 2 .. n /\ u[m + 1] = m
      <4> HIDE DEF n, u, L, N
      <4> QED BY <2>0, <2>1, FirstIsBelow
    <3>2. c.loop = "below" /\ c.at = m + 1
      BY <1>2, <2>1, <3>1
    <3> QED BY <1>1, <1>2, <3>1, <3>2 DEF CallInv
  <2>2. CASE L[m] = 0 /\ c.loop = "behind"
    <3>1. N[m] # 0 => N[m] \in m + 1 .. n
      BY <1>1 DEF Shape, Nexts
    <3>2. \A j \in 1 .. n : ~(P[j] = c.p) /\ ~(c.p < j /\ j <= c.last)
      BY <1>2, <1>6, <2>2, <1>1
    <3>3. c.at = N[m] /\ c.p = m /\ c.last = 0 /\ L[m] = 0 /\ N[m] \in 0 .. n /\ (N[m] # 0 => m < N[m])
      BY <1>1, <1>2, <2>2, <3>1
    <3> QED BY <1>1, <2>2, <3>2, <3>3 DEF CallInv
  <2>3. CASE L[m] = 0 /\ c.loop = "tidy"
    BY <1>1, <1>2, <2>3 DEF CallInv
  <2> QED BY <1>2, <2>1, <2>2, <2>3
<1>9. Sound(t, cs2)
  <2>1. \A i \in DOMAIN cs2 : CallInv(t, u, cs2[i])
    <3> SUFFICES ASSUME NEW i \in 1 .. h + 1 PROVE CallInv(t, u, cs2[i])
      BY <1>3
    <3>1. i \in 1 .. h \/ i = h + 1
      BY <1>1
    <3> QED BY <3>1, <1>1, <1>3, <1>8
  <2> QED BY <2>1, <1>1, <1>7 DEF Sound
<1>10. Nested(cs2)
  <2>1. ASSUME NEW i \in 1 .. h + 1, NEW j \in 1 .. h + 1, i < j PROVE cs2[i].p < cs2[j].p
    <3>1. i \in 1 .. h /\ (j \in 1 .. h \/ j = h + 1)
      BY <1>1, <2>1
    <3>2. CASE j \in 1 .. h
      BY <2>1, <3>1, <3>2, <1>1, <1>3
    <3>3. CASE j = h + 1
      BY <3>1, <3>3, <1>2, <1>3, <1>4
    <3> QED BY <3>1, <3>2, <3>3
  <2>2. ASSUME NEW i \in 1 .. h PROVE cs2[i].loop # "tidy" /\ cs2[i].at = cs2[i + 1].p
    <3>1. (i \in 1 .. h - 1 /\ i + 1 \in 1 .. h) \/ i = h
      BY <1>1
    <3>2. CASE i \in 1 .. h - 1 /\ i + 1 \in 1 .. h
      BY <3>2, <1>1, <1>3
    <3>3. CASE i = h
      <4>1. cs[h].at = m /\ cs[h].loop # "tidy"
        BY <1>0, <1>1, <3>3
      <4> QED BY <4>1, <3>3, <1>2, <1>3
    <3> QED BY <3>1, <3>2, <3>3
  <2>3. Len(cs2) - 1 = h
    BY <1>1, <1>3
  <2> QED BY <2>1, <2>2, <2>3, <1>3 DEF Nested
<1> QED BY <1>3, <1>9, <1>10 DEF Fine, cs2

\* Who is gathering after the calls from h + 2 on have ended.
LEMMA GatherersAfter ==
  ASSUME NEW cs, NEW cs2, NEW h \in Nat, DOMAIN cs2 = 1 .. h + 1, Len(cs2) = h + 1,
         \A i \in 1 .. h : cs2[i] = cs[i]
  PROVE  \A q : q \in Gathering(cs2) <=>
                  \/ \E i \in 1 .. h : cs[i].loop = "behind" /\ cs[i].p = q
                  \/ cs2[h + 1].loop = "behind" /\ cs2[h + 1].p = q
<1> SUFFICES ASSUME NEW q
             PROVE q \in Gathering(cs2) <=>
                     \/ \E i \in 1 .. h : cs[i].loop = "behind" /\ cs[i].p = q
                     \/ cs2[h + 1].loop = "behind" /\ cs2[h + 1].p = q
  OBVIOUS
<1>1. q \in Gathering(cs2) <=> \E i \in 1 .. h + 1 : cs2[i].loop = "behind" /\ cs2[i].p = q
  BY Gatherers
<1>2. \A i \in 1 .. h + 1 : i \in 1 .. h \/ i = h + 1
  OBVIOUS
<1>3. h + 1 \in 1 .. h + 1 /\ \A i \in 1 .. h : i \in 1 .. h + 1
  OBVIOUS
<1> QED BY <1>1, <1>2, <1>3

LEMMA CallReplaced ==
  ASSUME NEW cs \in Seq(CallRecords), cs # <<>>, NEW c \in CallRecords
  PROVE  /\ Append(Front(cs), c) \in Seq(CallRecords) /\ Len(Append(Front(cs), c)) = Len(cs)
         /\ \A i \in 1 .. Len(cs) - 1 : Append(Front(cs), c)[i] = cs[i]
         /\ Append(Front(cs), c)[Len(cs)] = c
         /\ DOMAIN Append(Front(cs), c) = 1 .. Len(cs) /\ Len(cs) \in Nat \ {0}
<1> DEFINE R == CallRecords  f == Front(cs)  s == Append(f, c)
<1>1. f \in Seq(R) /\ Len(f) = Len(cs) - 1 /\ \A i \in 1 .. Len(cs) - 1 : f[i] = cs[i]
  <2> HIDE DEF R
  <2> QED BY FrontElements DEF R
<1>2. Len(cs) \in Nat \ {0}
  <2> HIDE DEF R, f, s
  <2>1. cs \in Seq(R)
    BY DEF R
  <2> QED BY <2>1
<1> HIDE DEF f
<1>3. s \in Seq(R) /\ Len(s) = Len(f) + 1 /\ (\A i \in 1 .. Len(f) : s[i] = f[i])
      /\ s[Len(f) + 1] = c /\ DOMAIN s = 1 .. Len(f) + 1
  BY <1>1, AppendedCall
<1> HIDE DEF s
<1> QED BY <1>1, <1>2, <1>3 DEF f, s

\* The calls cs2 are those of cs up to h and the one after, which is c now.
Becomes(cs, cs2, h, c) ==
  /\ cs2 \in Seq(CallRecords) /\ c \in CallRecords /\ h \in 0 .. Len(cs) - 1
  /\ Len(cs2) = h + 1 /\ DOMAIN cs2 = 1 .. h + 1
  /\ cs2[h + 1] = c /\ c.p = cs[h + 1].p
  /\ \A i \in 1 .. h : cs2[i] = cs[i]

LEMMA InnerBecomes ==
  ASSUME NEW cs \in Seq(CallRecords), cs # <<>>, NEW c \in CallRecords, c.p = cs[Len(cs)].p
  PROVE  Becomes(cs, Append(Front(cs), c), Len(cs) - 1, c)
BY CallReplaced DEF Becomes

LEMMA CallerBecomes ==
  ASSUME NEW cs \in Seq(CallRecords), Len(cs) > 1, NEW c \in CallRecords, c.p = cs[Len(cs) - 1].p
  PROVE  Becomes(cs, Append(Front(Front(cs)), c), Len(cs) - 2, c)
<1> DEFINE R == CallRecords  f == Front(cs)
<1>1. cs # <<>> /\ Len(cs) \in Nat
  <2> HIDE DEF R
  <2>1. cs \in Seq(R)
    BY DEF R
  <2> QED BY <2>1
<1>2. f \in Seq(R) /\ Len(f) = Len(cs) - 1 /\ \A i \in 1 .. Len(cs) - 1 : f[i] = cs[i]
  <2> HIDE DEF R
  <2> QED BY <1>1, FrontElements DEF R
<1> HIDE DEF f
<1>3. f # <<>>
  BY <1>1, <1>2
<1>4. c.p = f[Len(f)].p
  BY <1>1, <1>2
<1>5. Becomes(f, Append(Front(f), c), Len(f) - 1, c)
  BY <1>2, <1>3, <1>4, InnerBecomes
<1> DEFINE s == Append(Front(f), c)
<1> HIDE DEF s
<1>6. Becomes(f, s, Len(f) - 1, c)
  BY <1>5 DEF s
<1>7. Becomes(cs, s, Len(cs) - 2, c)
  BY <1>1, <1>2, <1>6 DEF Becomes
<1> QED BY <1>7 DEF s, f

LEMMA SameTree ==
  ASSUME NEW t, NEW cs, Fine(t, cs), NEW cs2, NEW h, NEW c, Becomes(cs, cs2, h, c),
         Over(t, cs2) = Over(t, cs), CallInv(t, Over(t, cs), c)
  PROVE  Fine(t, cs2)
<1> DEFINE q == cs[h + 1].p  u == Over(t, cs)  n == Len(t.parent)
<1>1. /\ cs2 \in Seq(CallRecords) /\ h \in 0 .. Len(cs) - 1 /\ Len(cs2) = h + 1
      /\ cs2[h + 1] = c /\ c.p = q /\ \A i \in 1 .. h : cs2[i] = cs[i]
  BY DEF Becomes
<1>2. IsTree(t) /\ Shape(n, u, t.list, t.next)
  BY FineFacts DEF Fine
<1>3. Behind(q, n, t, u, t, u)
  BY DEF Behind
<1>4. \A i \in 1 .. h : GathersSame(cs[i], t, t)
  BY DEF GathersSame
<1> HIDE DEF q, n, u
<1> QED BY <1>1, <1>2, <1>3, <1>4, CallGoesOn DEF q, n, u

LEMMA UpToNext ==
  ASSUME NEW h \in Nat, NEW K \in {h + 1, h + 2}
  PROVE  /\ h + 1 \in 1 .. K /\ \A i \in 1 .. h : i \in 1 .. K
         /\ \A i \in 1 .. K : i \in 1 .. h \/ i = h + 1 \/ (i = h + 2 /\ K = h + 2)
OBVIOUS

LEMMA SameGatherers ==
  ASSUME NEW cs, NEW cs2, NEW h \in Nat, NEW c, Becomes(cs, cs2, h, c),
         NEW K \in {h + 1, h + 2}, Len(cs) = K, DOMAIN cs = 1 .. K,
         K = h + 2 => cs[h + 2].loop # "behind",
         c.loop = "behind" <=> cs[h + 1].loop = "behind"
  PROVE  Gathering(cs2) = Gathering(cs)
<1>1. \A q : q \in Gathering(cs) <=> \E i \in 1 .. K : cs[i].loop = "behind" /\ cs[i].p = q
  BY Gatherers
<1>2. \A q : q \in Gathering(cs2) <=>
               \/ \E i \in 1 .. h : cs[i].loop = "behind" /\ cs[i].p = q
               \/ cs2[h + 1].loop = "behind" /\ cs2[h + 1].p = q
  BY GatherersAfter, SMTT(30) DEF Becomes
<1>3. cs2[h + 1] = c /\ c.p = cs[h + 1].p
  BY DEF Becomes
<1>4. ASSUME NEW q PROVE q \in Gathering(cs2) <=> q \in Gathering(cs)
  <2> DEFINE G(i) == cs[i].loop = "behind" /\ cs[i].p = q
  <2>1. (cs2[h + 1].loop = "behind" /\ cs2[h + 1].p = q) <=> G(h + 1)
    BY <1>3
  <2>2. q \in Gathering(cs2) <=> (\E i \in 1 .. h : G(i)) \/ G(h + 1)
    BY <1>2, <2>1
  <2>3. q \in Gathering(cs) <=> \E i \in 1 .. K : G(i)
    BY <1>1
  <2>4. K = h + 2 => ~G(h + 2)
    OBVIOUS
  <2> HIDE DEF G
  <2>5. (\E i \in 1 .. K : G(i)) <=> (\E i \in 1 .. h : G(i)) \/ G(h + 1)
    BY <2>4, UpToNext
  <2> QED BY <2>2, <2>3, <2>5
<1> QED BY <1>4

\* The loop over the entries below ends, and the one that tidies begins.
LEMMA BelowEnds ==
  ASSUME NEW t, NEW cs, Fine(t, cs), NEW h \in Nat, Len(cs) = h + 1, NEW b, b = cs[h + 1], b.loop = "below",
         NEW cs2, NEW c, Becomes(cs, cs2, h, c), c = [b EXCEPT !.loop = "tidy", !.at = t.list[b.p]]
  PROVE  Fine(t, cs2)
<1> DEFINE n == Len(t.parent)  u == Over(t, cs)  L == t.list
<1>1. /\ n \in Nat \ {0} /\ DOMAIN t.parent = 1 .. n /\ DOMAIN cs = 1 .. h + 1 /\ Shape(n, u, L, t.next)
      /\ b \in CallRecords /\ CallInv(t, u, b)
  BY FineFacts
<1>2. c.p = b.p /\ c.last = b.last /\ c.loop = "tidy" /\ c.at = L[b.p]
  BY <1>1 DEF CallRecords
<1>a. Gathering(cs2) = Gathering(cs)
  BY <1>1, <1>2, SameGatherers, ZenonT(30)
<1>3. Over(t, cs2) = u
  BY <1>1, <1>a, OverSame
<1>4. CallInv(t, u, c)
  <2>1. b.p \in 1 .. n /\ b.last \in 0 .. n
    BY <1>1 DEF CallInv
  <2>2. CASE L[b.p] # 0
    <3>1. L[b.p] = b.p + 1 /\ b.p + 1 \in 2 .. n /\ u[b.p + 1] = b.p
      <4> HIDE DEF n, u, L
      <4> QED BY <1>1, <2>1, <2>2, FirstIsBelow
    <3> QED BY <1>1, <1>2, <2>1, <3>1 DEF CallInv
  <2>3. CASE L[b.p] = 0
    BY <1>1, <1>2, <2>1, <2>3 DEF CallInv
  <2> QED BY <2>2, <2>3
<1> QED BY <1>3, <1>4, SameTree

\* The loop that tidies goes on without a change.
LEMMA TidyGoesOn ==
  ASSUME NEW t, NEW cs, Fine(t, cs), NEW h \in Nat, Len(cs) = h + 1, NEW b, b = cs[h + 1], b.loop = "tidy",
         b.at # 0, NEW cs2, NEW c, Becomes(cs, cs2, h, c), c = [b EXCEPT !.loop = "tidy", !.at = t.next[b.at]]
  PROVE  Fine(t, cs2)
<1> DEFINE n == Len(t.parent)  u == Over(t, cs)  N == t.next
<1>1. /\ n \in Nat \ {0} /\ DOMAIN t.parent = 1 .. n /\ DOMAIN cs = 1 .. h + 1 /\ Shape(n, u, t.list, N)
      /\ b \in CallRecords /\ CallInv(t, u, b)
  BY FineFacts
<1>2. c.p = b.p /\ c.last = b.last /\ c.loop = "tidy" /\ c.at = N[b.at]
  BY <1>1 DEF CallRecords
<1>a. Gathering(cs2) = Gathering(cs)
  BY <1>1, <1>2, SameGatherers
<1>3. Over(t, cs2) = u
  BY <1>1, <1>a, OverSame
<1>4. b.p \in 1 .. n /\ b.last \in 0 .. n /\ b.at \in 1 .. n /\ b.p < b.at /\ u[b.at] = b.p
  BY <1>1 DEF CallInv
<1>5. N[b.at] # 0 => N[b.at] \in b.at + 1 .. n /\ u[N[b.at]] = b.p
  BY <1>1, <1>4 DEF Shape, Nexts
<1>6. c.at \in 0 .. n /\ (c.at # 0 => c.p < c.at /\ u[c.at] = c.p)
  BY <1>1, <1>2, <1>4, <1>5
<1>7. CallInv(t, u, c)
  BY <1>1, <1>2, <1>4, <1>6 DEF CallInv
<1> QED BY <1>3, <1>7, SameTree

\* A call for an entry below ends: the caller goes on with the next one.
LEMMA BelowGoesOn ==
  ASSUME NEW t, NEW cs, Fine(t, cs), NEW h \in Nat, Len(cs) = h + 2, cs[h + 2].loop = "tidy",
         NEW b, b = cs[h + 1], b.loop = "below",
         NEW cs2, NEW c, Becomes(cs, cs2, h, c), c = [b EXCEPT !.at = t.next[b.at]]
  PROVE  Fine(t, cs2)
<1> DEFINE n == Len(t.parent)  u == Over(t, cs)  N == t.next
<1>1. /\ n \in Nat \ {0} /\ DOMAIN t.parent = 1 .. n /\ DOMAIN cs = 1 .. h + 2 /\ Shape(n, u, t.list, N)
      /\ b \in CallRecords /\ CallInv(t, u, b)
  BY FineFacts
<1>2. c.p = b.p /\ c.last = b.last /\ c.loop = "below" /\ c.at = N[b.at]
  BY <1>1 DEF CallRecords
<1>a. Gathering(cs2) = Gathering(cs)
  BY <1>1, <1>2, SameGatherers
<1>3. Over(t, cs2) = u
  BY <1>1, <1>a, OverSame
<1>4. b.at # 0
  <2>1. h + 2 \in 1 .. Len(cs) /\ h + 1 \in 1 .. h + 2 - 1
    OBVIOUS
  <2> QED BY <2>1, OuterIsBefore
<1>5. b.p \in 1 .. n /\ b.last \in 0 .. n /\ b.at \in 1 .. n /\ b.p < b.at /\ u[b.at] = b.p
  BY <1>1, <1>4 DEF CallInv
<1>6. N[b.at] # 0 => N[b.at] \in b.at + 1 .. n /\ u[N[b.at]] = b.p
  BY <1>1, <1>5 DEF Shape, Nexts
<1>7. c.at \in 0 .. n /\ (c.at # 0 => c.p < c.at /\ u[c.at] = c.p)
  BY <1>1, <1>2, <1>5, <1>6, SMTT(30)
<1>8. CallInv(t, u, c)
  BY <1>1, <1>2, <1>5, <1>7 DEF CallInv
<1> QED BY <1>3, <1>8, SameTree

\* A call has done with gathering.
LEMMA GatherersEnd ==
  ASSUME NEW t, NEW cs, Fine(t, cs), NEW h \in Nat, Len(cs) = h + 1, NEW b, b = cs[h + 1], b.loop = "behind",
         NEW cs2, DOMAIN cs2 = 1 .. h + 1, Len(cs2) = h + 1, \A i \in 1 .. h : cs2[i] = cs[i],
         cs2[h + 1].loop = "tidy"
  PROVE  /\ b.p \notin Gathering(cs2)
         /\ \A q : q # b.p => (q \in Gathering(cs2) <=> q \in Gathering(cs))
<1>1. DOMAIN cs = 1 .. h + 1 /\ \A i, j \in 1 .. h + 1 : i < j => cs[i].p < cs[j].p
  BY FineFacts
<1>2. \A q : q \in Gathering(cs2) <=> \E i \in 1 .. h : cs[i].loop = "behind" /\ cs[i].p = q
  BY GatherersAfter
<1>3. \A q : q \in Gathering(cs) <=> \E i \in 1 .. h + 1 : cs[i].loop = "behind" /\ cs[i].p = q
  BY <1>1, Gatherers
<1>4. \A i \in 1 .. h : i \in 1 .. h + 1 /\ h + 1 \in 1 .. h + 1 /\ i < h + 1
  OBVIOUS
<1>5. \A i \in 1 .. h + 1 : i \in 1 .. h \/ i = h + 1
  OBVIOUS
<1>6. \A i \in 1 .. h + 1 : cs[i].p \in Nat
  BY FineFacts DEF CallRecords
<1>7. \A i \in 1 .. h : cs[i].p # cs[h + 1].p
  <2> SUFFICES ASSUME NEW i \in 1 .. h PROVE cs[i].p # cs[h + 1].p
    OBVIOUS
  <2>1. cs[i].p < cs[h + 1].p /\ cs[i].p \in Nat /\ cs[h + 1].p \in Nat
    BY <1>1, <1>4, <1>6
  <2> QED BY <2>1
<1> QED BY <1>2, <1>3, <1>5, <1>7, <1>4

LEMMA NothingGathered ==
  ASSUME NEW t, NEW cs, Fine(t, cs), NEW h \in Nat, Len(cs) = h + 1, NEW b, b = cs[h + 1], b.loop = "behind",
         b.last = 0,
         NEW cs2, NEW c, Becomes(cs, cs2, h, c), c = [b EXCEPT !.loop = "tidy", !.at = t.list[b.p]]
  PROVE  Fine(t, cs2)
<1> DEFINE n == Len(t.parent)  u == Over(t, cs)  L == t.list  P == t.parent
<1>1. /\ n \in Nat \ {0} /\ DOMAIN P = 1 .. n /\ b \in CallRecords /\ CallInv(t, u, b)
  BY FineFacts
<1>2. b.p \in 1 .. n /\ L[b.p] = 0 /\ \A j \in 1 .. n : P[j] = b.p <=> b.p < j /\ j <= 0 /\ u[j] = u[b.p]
  BY <1>1 DEF CallInv
<1>3. c.p = b.p /\ c.last = 0 /\ c.loop = "tidy" /\ c.at = 0
  BY <1>1, <1>2 DEF CallRecords
<1>4. \A j \in 1 .. n : P[j] # b.p
  BY <1>1, <1>2
<1>5. \A q : q # b.p => (q \in Gathering(cs2) <=> q \in Gathering(cs))
  <2> DEFINE G == Gathering(cs)  G2 == Gathering(cs2)
  <2> HIDE DEF G, G2, n, u, L, P
  <2>1. /\ DOMAIN cs2 = 1 .. h + 1 /\ Len(cs2) = h + 1 /\ \A i \in 1 .. h : cs2[i] = cs[i]
        /\ cs2[h + 1].loop = "tidy"
    BY <1>3 DEF Becomes
  <2>2. b.p \notin G2 /\ \A q : q # b.p => (q \in G2 <=> q \in G)
    BY <2>1, GatherersEnd DEF G, G2
  <2> QED BY <2>2 DEF G, G2
<1>6. Over(t, cs2) = u
  BY <1>1, <1>4, <1>5, OverSame
<1>7. CallInv(t, u, c)
  BY <1>1, <1>2, <1>3 DEF CallInv
<1> QED BY <1>6, <1>7, SameTree

LEMMA AbsorbedTree ==
  ASSUME NEW t, IsTree(t), NEW p \in 1 .. Len(t.parent), NEW last \in 1 .. Len(t.parent), p # last
  PROVE  LET t2 == Absorbed(t, p, last)
         IN /\ IsTree(t2) /\ t2.parent = t.parent
            /\ \A m \in 1 .. Len(t.parent) :
                 /\ t2.list[m] = IF m = p THEN t.next[p] ELSE t.list[m]
                 /\ t2.next[m] = IF m = last THEN 0 ELSE IF m = p THEN t.next[last] ELSE t.next[m]
<1> DEFINE t2 == Absorbed(t, p, last)  n == Len(t.parent)  L == t.list  N == t.next
           l2 == [L EXCEPT ![p] = N[p]]  n1 == [N EXCEPT ![p] = N[last]]  n2 == [n1 EXCEPT ![last] = 0]
<1>1. /\ t \in TreeRecords /\ n \in Nat \ {0} /\ L \in Seq(Nat) /\ N \in Seq(Nat) /\ Len(L) = n /\ Len(N) = n
      /\ t.parent # <<>>
  BY TreeTypes DEF IsTree
<1>2. t2.parent = t.parent /\ t2.list = l2 /\ t2.next = n2 /\ t2 = [t EXCEPT !.list = l2, !.next = n2]
  BY <1>1 DEF TreeRecords, Absorbed
<1> HIDE DEF t2, L, N, n
<1>3. N[p] \in Nat /\ N[last] \in Nat /\ p \in 1 .. n /\ last \in 1 .. n
  <2>1. p \in 1 .. n /\ last \in 1 .. n
    BY DEF n
  <2> QED BY <2>1, <1>1, ElementsOfList
<1>4. l2 \in Seq(Nat) /\ Len(l2) = n /\ \A m \in 1 .. n : l2[m] = IF m = p THEN N[p] ELSE L[m]
  BY <1>1, <1>3, Replaced
<1>5. n1 \in Seq(Nat) /\ Len(n1) = n /\ \A m \in 1 .. n : n1[m] = IF m = p THEN N[last] ELSE N[m]
  BY <1>1, <1>3, Replaced
<1> HIDE DEF l2, n1
<1>6. n2 \in Seq(Nat) /\ Len(n2) = n /\ \A m \in 1 .. n : n2[m] = IF m = last THEN 0 ELSE n1[m]
  <2>1. 0 \in Nat
    OBVIOUS
  <2> QED BY <2>1, <1>3, <1>5, Replaced
<1> HIDE DEF n2
<1>7. t2 \in TreeRecords
  BY <1>1, <1>2, <1>4, <1>6 DEF TreeRecords
<1>8. IsTree(t2)
  BY <1>1, <1>2, <1>4, <1>6, <1>7 DEF IsTree, TreeRecords, n
<1>9. \A m \in 1 .. n : n2[m] = IF m = last THEN 0 ELSE IF m = p THEN N[last] ELSE N[m]
  BY <1>5, <1>6
<1> QED BY <1>2, <1>4, <1>8, <1>9 DEF t2, n, L, N

LEMMA BehindEnds ==
  ASSUME NEW t, NEW cs, Fine(t, cs), NEW h \in Nat, Len(cs) = h + 1, NEW b, b = cs[h + 1], b.loop = "behind",
         b.last # 0, NEW t2, t2 = Absorbed(t, b.p, b.last),
         NEW cs2, NEW c, Becomes(cs, cs2, h, c), c = [b EXCEPT !.loop = "tidy", !.at = t2.list[b.p]]
  PROVE  Fine(t2, cs2)
<1> DEFINE n == Len(t.parent)  u == Over(t, cs)  L == t.list  N == t.next  P == t.parent
           p == b.p  last == b.last  v == Over(t2, cs2)  l2 == t2.list  n2 == t2.next
<1>1. /\ n \in Nat \ {0} /\ DOMAIN P = 1 .. n /\ b \in CallRecords /\ CallInv(t, u, b) /\ Shape(n, u, L, N)
      /\ DOMAIN cs = 1 .. h + 1 /\ IsTree(t)
  BY FineFacts DEF Fine
<1>2. /\ p \in 1 .. n /\ last \in 1 .. n /\ p < last /\ L[p] = 0 /\ u[last] = u[p]
      /\ \A j \in 1 .. n : P[j] = p <=> p < j /\ j <= last /\ u[j] = u[p]
  BY <1>1 DEF CallInv
<1>3. /\ IsTree(t2) /\ t2.parent = P
      /\ \A m \in 1 .. n : l2[m] = IF m = p THEN N[p] ELSE L[m]
      /\ \A m \in 1 .. n : n2[m] = IF m = last THEN 0 ELSE IF m = p THEN N[last] ELSE N[m]
  BY <1>1, <1>2, AbsorbedTree
<1>4. c.p = p /\ c.last = last /\ c.loop = "tidy" /\ c.at = N[p]
  BY <1>1, <1>2, <1>3 DEF CallRecords
<1>5. p \notin Gathering(cs2) /\ \A q : q # p => (q \in Gathering(cs2) <=> q \in Gathering(cs))
  <2> DEFINE G == Gathering(cs)  G2 == Gathering(cs2)
  <2> HIDE DEF G, G2, n, u, L, N, P, p, last, v, l2, n2
  <2>1. /\ DOMAIN cs2 = 1 .. h + 1 /\ Len(cs2) = h + 1 /\ \A i \in 1 .. h : cs2[i] = cs[i]
        /\ cs2[h + 1].loop = "tidy"
    BY <1>4 DEF Becomes
  <2>2. b.p \notin G2 /\ \A q : q # b.p => (q \in G2 <=> q \in G)
    BY <2>1, GatherersEnd DEF G, G2
  <2> QED BY <2>2 DEF G, G2, p
<1>6. P[p] \notin Gathering(cs) /\ u[p] = P[p]
  <2>1. h + 1 \in 1 .. Len(cs)
    OBVIOUS
  <2> QED BY <2>1, OwnIsNotGathered
<1>7. \A m \in 1 .. n : v[m] = IF p < m /\ m <= last /\ u[m] = u[p] THEN p ELSE u[m]
  <2> SUFFICES ASSUME NEW m \in 1 .. n PROVE v[m] = IF P[m] = p THEN p ELSE u[m]
    BY <1>2
  <2>1. v[m] = IF P[m] \in Gathering(cs2) THEN P[P[m]] ELSE P[m]
    BY <1>1, <1>3, OverOf
  <2>2. u[m] = IF P[m] \in Gathering(cs) THEN P[P[m]] ELSE P[m]
    BY <1>1, OverOf
  <2> QED BY <2>1, <2>2, <1>5
<1>8. Shape(n, v, l2, n2)
  <2>1. n \in Nat /\ last \in p + 1 .. n
    BY <1>1, <1>2
  <2>2. Shape(n, u, L, N) /\ p \in 1 .. n /\ L[p] = 0 /\ u[last] = u[p]
    BY <1>1, <1>2
  <2>3. /\ \A m \in 1 .. n : v[m] = IF p < m /\ m <= last /\ u[m] = u[p] THEN p ELSE u[m]
        /\ \A m \in 1 .. n : l2[m] = IF m = p THEN N[p] ELSE L[m]
        /\ \A m \in 1 .. n : n2[m] = IF m = last THEN 0 ELSE IF m = p THEN N[last] ELSE N[m]
    BY <1>3, <1>7
  <2> HIDE DEF n, u, L, N, p, last, v, l2, n2
  <2> QED BY <2>1, <2>2, <2>3, AbsorbKeepsShape
<1>9. Behind(p, n, t, u, t2, v)
  <2>1. \A j \in 1 .. n : j <= p => v[j] = u[j]
    BY <1>1, <1>2, <1>7
  <2>2. \A j \in 1 .. n : j < p => l2[j] = L[j] /\ n2[j] = N[j]
    <3> HIDE DEF n, u, L, N, P, p, last, v, l2, n2
    <3> QED BY <1>2, <1>3
  <2> QED BY <2>1, <2>2, <1>3 DEF Behind
<1>10. \A i \in 1 .. h : GathersSame(cs[i], t, t2)
  BY <1>3 DEF GathersSame
<1>11. CallInv(t2, v, c)
  <2>1. N[p] \in p + 1 .. n /\ N[p] <= last /\ u[N[p]] = u[p]
    BY <1>1, <1>2 DEF Shape, Nexts
  <2>2. v[N[p]] = p
    <3> HIDE DEF n, u, L, N, P, p, last, v, l2, n2
    <3> QED BY <1>2, <1>7, <2>1
  <2>3. c.p \in 1 .. n /\ c.at \in 0 .. n /\ c.last \in 0 .. n /\ c.p < c.at /\ v[c.at] = c.p /\ c.loop = "tidy"
    <3> HIDE DEF n, u, L, N, P, p, last, v, l2, n2
    <3>1. N[p] \in 1 .. n /\ p < N[p] /\ last \in 0 .. n
      BY <1>1, <1>2, <2>1
    <3> QED BY <3>1, <1>2, <1>4, <2>2
  <2>4. Len(t2.parent) = n
    BY <1>3
  <2> HIDE DEF n, v
  <2> QED BY <2>3, <2>4 DEF CallInv
<1>12. /\ cs2 \in Seq(CallRecords) /\ h \in 0 .. Len(cs) - 1 /\ Len(cs2) = h + 1
       /\ cs2[h + 1] = c /\ cs2[h + 1].p = p /\ \A i \in 1 .. h : cs2[i] = cs[i]
  BY <1>4 DEF Becomes
<1>15. CallInv(t2, v, cs2[h + 1])
  BY <1>11, <1>12
<1>13. p = cs[h + 1].p
  OBVIOUS
<1> HIDE DEF n, u, v, p, l2, n2
<1>14. Shape(n, v, t2.list, t2.next)
  BY <1>8 DEF l2, n2
<1> QED BY <1>3, <1>9, <1>10, <1>12, <1>13, <1>14, <1>15, CallGoesOn DEF n, u, v

LEMMA FineTypes ==
  ASSUME NEW t, IsTree(t)
  PROVE  DOMAIN t.parent = 1 .. Len(t.parent)
<1> DEFINE s == t.parent
<1>1. s \in Seq(Nat)
  BY TreeTypes
<1> HIDE DEF s
<1>2. DOMAIN s = 1 .. Len(s)
  BY <1>1
<1> QED BY <1>2 DEF s

LastBelow(t, m) == Max({c \in DOMAIN t.parent : t.parent[c] = m})
LEMMA SplicedTree ==
  ASSUME NEW t, IsTree(t), NEW p \in Nat, NEW m \in 1 .. Len(t.parent), NEW l \in 1 .. Len(t.parent), l # m,
         l = LastBelow(t, m)
  PROVE  LET t2 == Spliced(t, p, m)
         IN /\ IsTree(t2) /\ Len(t2.parent) = Len(t.parent)
            /\ \A c \in 1 .. Len(t.parent) :
                 /\ t2.parent[c] = IF t.parent[c] = m THEN p ELSE t.parent[c]
                 /\ t2.list[c] = IF c = m THEN 0 ELSE t.list[c]
                 /\ t2.next[c] = IF c = m THEN t.list[m] ELSE IF c = l THEN t.next[m] ELSE t.next[c]
<1> DEFINE t2 == Spliced(t, p, m)  n == Len(t.parent)  P == t.parent  L == t.list  N == t.next
           below == {c \in DOMAIN P : P[c] = m}
           p2 == [c \in DOMAIN P |-> IF c \in below THEN p ELSE P[c]]
           l2 == [L EXCEPT ![m] = 0]  n1 == [N EXCEPT ![l] = N[m]]  n2 == [n1 EXCEPT ![m] = L[m]]
<1>1. /\ t \in TreeRecords /\ n \in Nat \ {0} /\ P \in Seq(Nat) /\ L \in Seq(Nat) /\ N \in Seq(Nat)
      /\ Len(L) = n /\ Len(N) = n /\ Len(P) = n
  BY TreeTypes DEF IsTree
<1>2. /\ t2.parent = p2 /\ t2.list = l2 /\ t2.next = n2
      /\ t2 = [t EXCEPT !.parent = p2, !.list = l2, !.next = n2]
  BY <1>1 DEF TreeRecords, Spliced, LastBelow
<1> HIDE DEF t2, P, L, N, n
<1>3. m \in 1 .. n /\ l \in 1 .. n
  BY DEF n
<1>4. L[m] \in Nat /\ N[m] \in Nat /\ DOMAIN P = 1 .. n /\ \A c \in 1 .. n : P[c] \in Nat
  BY <1>1, <1>3, ElementsOfList
<1>5. p2 \in Seq(Nat) /\ Len(p2) = n /\ \A c \in 1 .. n : p2[c] = IF P[c] = m THEN p ELSE P[c]
  <2>1. p2 \in [1 .. n -> Nat]
    BY <1>4
  <2>2. \A c \in 1 .. n : p2[c] = IF P[c] = m THEN p ELSE P[c]
    BY <1>4
  <2> HIDE DEF p2
  <2> QED BY <2>1, <2>2, <1>1
<1>6. l2 \in Seq(Nat) /\ Len(l2) = n /\ \A c \in 1 .. n : l2[c] = IF c = m THEN 0 ELSE L[c]
  <2>1. 0 \in Nat
    OBVIOUS
  <2> QED BY <2>1, <1>1, <1>3, Replaced
<1>7. n1 \in Seq(Nat) /\ Len(n1) = n /\ \A c \in 1 .. n : n1[c] = IF c = l THEN N[m] ELSE N[c]
  BY <1>1, <1>3, <1>4, Replaced
<1> HIDE DEF p2, l2, n1
<1>8. n2 \in Seq(Nat) /\ Len(n2) = n /\ \A c \in 1 .. n : n2[c] = IF c = m THEN L[m] ELSE n1[c]
  BY <1>1, <1>3, <1>4, <1>7, Replaced
<1> HIDE DEF n2
<1>9. t2 \in TreeRecords
  BY <1>1, <1>2, <1>5, <1>6, <1>8 DEF TreeRecords
<1>10. p2 # <<>>
  BY <1>1, <1>5
<1>11. IsTree(t2)
  BY <1>2, <1>5, <1>6, <1>8, <1>9, <1>10 DEF IsTree, TreeRecords
<1>12. \A c \in 1 .. n : n2[c] = IF c = m THEN L[m] ELSE IF c = l THEN N[m] ELSE N[c]
  BY <1>7, <1>8
<1> QED BY <1>2, <1>5, <1>6, <1>11, <1>12 DEF t2, n, P, L, N

\* A list is spliced into the one that its entry is in.
LEMMA ListIsSpliced ==
  ASSUME NEW t, NEW cs, Fine(t, cs), NEW h \in Nat, Len(cs) = h + 1, NEW b, b = cs[h + 1], b.loop = "tidy",
         b.at # 0, t.list[b.at] # 0, NEW t2, t2 = Spliced(t, b.p, b.at),
         NEW cs2, NEW c, Becomes(cs, cs2, h, c), c = [b EXCEPT !.loop = "tidy", !.at = t2.next[b.at]]
  PROVE  Fine(t2, cs2)
<1> DEFINE n == Len(t.parent)  u == Over(t, cs)  L == t.list  N == t.next  P == t.parent
           p == b.p  m == b.at  v == Over(t2, cs2)  p2 == t2.parent  l2 == t2.list  n2 == t2.next
           G == Gathering(cs)  S == {x \in DOMAIN P : P[x] = m}  l == Max(S)
<1>1. /\ n \in Nat \ {0} /\ DOMAIN P = 1 .. n /\ b \in CallRecords /\ CallInv(t, u, b) /\ Shape(n, u, L, N)
      /\ DOMAIN cs = 1 .. h + 1 /\ IsTree(t) /\ h + 1 \in 1 .. Len(cs)
      /\ \A i \in 1 .. h + 1 : CallInv(t, u, cs[i])
      /\ \A i, j \in 1 .. h + 1 : i < j => cs[i].p < cs[j].p
      /\ \A x \in 1 .. n : P[x] \in Nat
  BY FineFacts, SMTT(30) DEF Fine
<1>2. p \in 1 .. n /\ m \in 2 .. n /\ p < m /\ u[m] = p /\ b.last \in 0 .. n
  BY <1>1 DEF CallInv
<1>3. n \in Nat /\ \A x \in 1 .. n : u[x] \in Nat /\ u[x] < x
  <2>1. n \in Nat
    BY <1>1
  <2> HIDE DEF n, u, L, N
  <2> QED BY <2>1, <1>1, OverIsNumber
<1>4. \A q \in G : \E i \in 1 .. h : cs[i].loop = "behind" /\ cs[i].p = q
  <2> SUFFICES ASSUME NEW q \in G PROVE \E i \in 1 .. h : cs[i].loop = "behind" /\ cs[i].p = q
    OBVIOUS
  <2>1. PICK i \in 1 .. h + 1 : cs[i].loop = "behind" /\ cs[i].p = q
    BY <1>1, Gatherers
  <2>2. i # h + 1
    BY <2>1
  <2> QED BY <2>1, <2>2
<1>5. \A i \in 1 .. h : cs[i].p \in 1 .. n /\ cs[i].p < p
  <2> SUFFICES ASSUME NEW i \in 1 .. h PROVE cs[i].p \in 1 .. n /\ cs[i].p < p
    OBVIOUS
  <2>1. i \in 1 .. h + 1 /\ h + 1 \in 1 .. h + 1 /\ i < h + 1
    OBVIOUS
  <2>2. cs[i].p < p
    BY <2>1, <1>1
  <2>3. cs[i].p \in 1 .. n
    BY <2>1, <1>1 DEF CallInv
  <2> QED BY <2>2, <2>3
<1>6. \A q \in G : q \in 1 .. n /\ q < p /\ u[q] = P[q]
  <2> SUFFICES ASSUME NEW q \in G PROVE q \in 1 .. n /\ q < p /\ u[q] = P[q]
    OBVIOUS
  <2>1. PICK i \in 1 .. h : cs[i].p = q
    BY <1>4
  <2>2. i \in 1 .. Len(cs)
    OBVIOUS
  <2>3. u[cs[i].p] = P[cs[i].p]
    BY <2>2, OwnIsNotGathered
  <2> QED BY <2>1, <2>3, <1>5
<1>7. \A x \in 1 .. n : u[x] = IF P[x] \in G THEN P[P[x]] ELSE P[x]
  BY <1>1, OverOf
<1>8. p \notin G /\ m \notin G /\ \A q \in G : P[q] # m
  <2>1. ASSUME NEW q \in G PROVE q # p /\ q # m /\ P[q] # m
    <3>1. q \in 1 .. n /\ q < p /\ u[q] = P[q]
      BY <1>6
    <3>2. u[q] \in Nat /\ u[q] < q
      BY <3>1, <1>3
    <3> HIDE DEF p, m, n, u, P
    <3> QED BY <3>1, <3>2, <1>2
  <2> QED BY <2>1
<1>9. \A x \in 1 .. n : P[x] = m <=> u[x] = m
  BY <1>7, <1>8
<1>10. L[m] = m + 1 /\ m + 1 \in 2 .. n /\ u[m + 1] = m
  <2>1. L[m] # 0 /\ m \in 1 .. n
    BY <1>2
  <2> HIDE DEF n, u, L, N, m
  <2> QED BY <2>1, <1>1, <1>3, FirstIsBelow
<1>11. l \in 1 .. n /\ u[l] = m /\ \A x \in 1 .. n : u[x] = m => x <= l
  <2>1. S \in SUBSET (1 .. n) /\ m + 1 \in S
    BY <1>1, <1>9, <1>10
  <2>2. l \in S /\ \A x \in S : x <= l
    <3> HIDE DEF S, n
    <3> QED BY <2>1, <1>3, GreatestElement
  <2> HIDE DEF l
  <2> QED BY <2>2, <1>1, <1>9
<1>12. l # m /\ m < l
  <2>1. u[l] < l
    BY <1>3, <1>11
  <2> HIDE DEF l, m, u, n
  <2> QED BY <2>1, <1>2, <1>11
<1>13. /\ IsTree(t2) /\ Len(p2) = n
       /\ \A x \in 1 .. n : /\ p2[x] = IF P[x] = m THEN p ELSE P[x]
                            /\ l2[x] = IF x = m THEN 0 ELSE L[x]
                            /\ n2[x] = IF x = m THEN L[m] ELSE IF x = l THEN N[m] ELSE N[x]
  <2>1. p \in Nat /\ m \in 1 .. n /\ l = LastBelow(t, m)
    BY <1>2 DEF LastBelow
  <2>2. t2 = Spliced(t, p, m) /\ l \in 1 .. n /\ l # m
    BY <1>11, <1>12
  <2> HIDE DEF p, m, l
  <2> QED BY <2>1, <2>2, <1>1, SplicedTree
<1>14. c.p = p /\ c.last = b.last /\ c.loop = "tidy" /\ c.at = m + 1
  <2>1. n2[m] = m + 1
    <3>1. m \in 1 .. n
      BY <1>2
    <3> HIDE DEF n, m, p, l, n2, l2, p2, L, N, P
    <3> QED BY <3>1, <1>10, <1>13
  <2> QED BY <2>1, <1>1 DEF CallRecords
<1>15. Gathering(cs2) = G
  <2>1. h + 1 \in {h + 1, h + 2} /\ DOMAIN cs = 1 .. h + 1 /\ ~(h + 1 = h + 2)
    BY <1>1
  <2>2. c.loop = "behind" <=> cs[h + 1].loop = "behind"
    BY <1>14
  <2> HIDE DEF p, m, n, u, L, N, P, v, p2, l2, n2, l, S
  <2> QED BY <2>1, <2>2, SameGatherers
<1>16. \A x \in 1 .. n : v[x] = IF u[x] = m THEN u[m] ELSE u[x]
  <2> SUFFICES ASSUME NEW x \in 1 .. n PROVE v[x] = IF u[x] = m THEN p ELSE u[x]
    BY <1>2
  <2>0. DOMAIN p2 = 1 .. n
    BY <1>13, FineTypes, ZenonT(30)
  <2>1. v[x] = IF p2[x] \in G THEN p2[p2[x]] ELSE p2[x]
    <3>1. DOMAIN t2.parent = 1 .. Len(t2.parent) /\ x \in 1 .. Len(t2.parent)
      BY <2>0, <1>13
    <3>2. v[x] = IF t2.parent[x] \in Gathering(cs2) THEN t2.parent[t2.parent[x]] ELSE t2.parent[x]
      BY <3>1, OverOf
    <3> QED BY <3>2, <1>15
  <2>2. CASE P[x] = m
    <3>1. p2[x] = p /\ u[x] = m
      BY <2>2, <1>9, <1>13
    <3> QED BY <3>1, <2>1, <1>8
  <2>3. CASE P[x] # m
    <3>1. p2[x] = P[x] /\ u[x] # m
      BY <2>3, <1>9, <1>13
    <3>2. P[x] \in G => p2[P[x]] = P[P[x]]
      BY <1>6, <1>8, <1>13
    <3> QED BY <3>1, <3>2, <2>1, <1>7
  <2> QED BY <2>2, <2>3
<1>17. Shape(n, v, l2, n2)
  <2>1. /\ \A x \in 1 .. n : l2[x] = IF x = m THEN 0 ELSE L[x]
        /\ \A x \in 1 .. n : n2[x] = IF x = m THEN L[m] ELSE IF x = l THEN N[m] ELSE N[x]
    BY <1>13
  <2>2. Shape(n, u, L, N) /\ m \in 2 .. n /\ L[m] # 0
    BY <1>1, <1>2
  <2> HIDE DEF n, u, L, N, m, l, v, l2, n2
  <2> QED BY <2>1, <2>2, <1>3, <1>11, <1>16, SpliceKeepsShape
<1>18. Behind(p, n, t, u, t2, v)
  <2>1. ASSUME NEW j \in 1 .. n, j <= p PROVE v[j] = u[j]
    <3>1. u[j] \in Nat /\ u[j] < j
      BY <1>3
    <3>2. u[j] # m
      BY <3>1, <2>1, <1>2
    <3> QED BY <3>2, <1>16
  <2>2. ASSUME NEW j \in 1 .. n, j < p PROVE l2[j] = L[j] /\ n2[j] = N[j]
    <3>1. j # m /\ j # l
      BY <2>2, <1>2, <1>11, <1>12
    <3> QED BY <3>1, <1>13
  <2> QED BY <2>1, <2>2, <1>13 DEF Behind
<1>19. ASSUME NEW i \in 1 .. h PROVE GathersSame(cs[i], t, t2)
  <2> DEFINE q == cs[i].p
  <2>1. q # p /\ q # m
    BY <1>2, <1>5
  <2>2. \A j \in 1 .. n : p2[j] = q <=> P[j] = q
    <3> HIDE DEF q
    <3> QED BY <2>1, <1>13
  <2> QED BY <2>2 DEF GathersSame
<1>20. CallInv(t2, v, c)
  <2>1. v[m + 1] = p /\ m + 1 \in 1 .. n /\ p < m + 1
    BY <1>2, <1>10, <1>16
  <2>2. c.p \in 1 .. n /\ c.at \in 0 .. n /\ c.last \in 0 .. n /\ c.p < c.at /\ v[c.at] = c.p /\ c.loop = "tidy"
    <3> HIDE DEF n, u, L, N, P, p, m, v, p2, l2, n2, G, S, l
    <3> QED BY <2>1, <1>2, <1>14
  <2>3. Len(t2.parent) = n
    BY <1>13
  <2> HIDE DEF n, v
  <2> QED BY <2>2, <2>3 DEF CallInv
<1>21. /\ cs2 \in Seq(CallRecords) /\ h \in 0 .. Len(cs) - 1 /\ Len(cs2) = h + 1
       /\ cs2[h + 1] = c /\ cs2[h + 1].p = p /\ \A i \in 1 .. h : cs2[i] = cs[i]
  BY <1>14 DEF Becomes
<1>22. CallInv(t2, v, cs2[h + 1]) /\ p = cs[h + 1].p /\ IsTree(t2)
  BY <1>13, <1>20, <1>21
<1> HIDE DEF n, u, v, p, l2, n2
<1>23. Shape(n, v, t2.list, t2.next)
  BY <1>17 DEF l2, n2
<1> QED BY <1>18, <1>19, <1>21, <1>22, <1>23, CallGoesOn DEF n, u, v

Adopted(t, p, a) == [t EXCEPT !.parent[a] = p]
LEMMA AdoptedTree ==
  ASSUME NEW t, IsTree(t), NEW p \in Nat, NEW a \in 1 .. Len(t.parent), NEW t2, t2 = Adopted(t, p, a)
  PROVE  /\ IsTree(t2) /\ Len(t2.parent) = Len(t.parent) /\ t2.list = t.list /\ t2.next = t.next
         /\ \A c \in 1 .. Len(t.parent) : t2.parent[c] = IF c = a THEN p ELSE t.parent[c]
<1> DEFINE n == Len(t.parent)  P == t.parent  p2 == [P EXCEPT ![a] = p]
<1>1. /\ t \in TreeRecords /\ n \in Nat \ {0} /\ P \in Seq(Nat) /\ Len(P) = n
      /\ t.list \in Seq(Nat) /\ t.next \in Seq(Nat) /\ Len(t.list) = n /\ Len(t.next) = n
  BY TreeTypes DEF IsTree
<1>2. t2.parent = p2 /\ t2.list = t.list /\ t2.next = t.next /\ t2 = [t EXCEPT !.parent = p2]
  BY <1>1 DEF TreeRecords, Adopted
<1> HIDE DEF P, n
<1>3. p2 \in Seq(Nat) /\ Len(p2) = n /\ \A c \in 1 .. n : p2[c] = IF c = a THEN p ELSE P[c]
  <2>1. a \in 1 .. n
    BY DEF n
  <2> QED BY <2>1, <1>1, Replaced
<1> HIDE DEF p2
<1>4. t2 \in TreeRecords /\ p2 # <<>>
  BY <1>1, <1>2, <1>3 DEF TreeRecords
<1>5. IsTree(t2)
  BY <1>1, <1>2, <1>3, <1>4 DEF IsTree, TreeRecords
<1> QED BY <1>2, <1>3, <1>5 DEF n, P

\* A call for an entry behind ends: the entry becomes one of the submenu.
LEMMA BehindGoesOn ==
  ASSUME NEW t, NEW cs, Fine(t, cs), NEW h \in Nat, Len(cs) = h + 2, cs[h + 2].loop = "tidy",
         NEW b, b = cs[h + 1], b.loop = "behind", NEW t2, t2 = Adopted(t, b.p, b.at),
         NEW cs2, NEW c, Becomes(cs, cs2, h, c), c = [b EXCEPT !.at = t.next[@], !.last = b.at]
  PROVE  Fine(t2, cs2)
<1> DEFINE n == Len(t.parent)  u == Over(t, cs)  L == t.list  N == t.next  P == t.parent
           p == b.p  a == b.at  last == b.last  v == Over(t2, cs2)  p2 == t2.parent  G == Gathering(cs)
           x == IF last = 0 THEN p ELSE last
<1>1. /\ n \in Nat \ {0} /\ DOMAIN P = 1 .. n /\ b \in CallRecords /\ CallInv(t, u, b) /\ Shape(n, u, L, N)
      /\ DOMAIN cs = 1 .. h + 2 /\ IsTree(t) /\ b.at = cs[h + 2].p
      /\ \A i \in 1 .. h + 2 : CallInv(t, u, cs[i])
      /\ \A i, j \in 1 .. h + 2 : i < j => cs[i].p < cs[j].p
  <2>1. h + 1 \in 1 .. Len(cs) - 1 /\ h + 1 \in 1 .. Len(cs)
    OBVIOUS
  <2>2. /\ n \in Nat \ {0} /\ DOMAIN P = 1 .. n /\ Shape(n, u, L, N) /\ DOMAIN cs = 1 .. h + 2
        /\ \A i \in 1 .. h + 2 : CallInv(t, u, cs[i])
        /\ \A i, j \in 1 .. h + 2 : i < j => cs[i].p < cs[j].p
    BY FineFacts
  <2>3. b \in CallRecords /\ CallInv(t, u, b)
    BY <2>1, FineFacts
  <2>4. \A i \in 1 .. Len(cs) - 1 : cs[i].at = cs[i + 1].p
    BY FineFacts
  <2>5. b.at = cs[h + 2].p
    <3>1. cs[h + 1].at = cs[h + 1 + 1].p
      BY <2>1, <2>4
    <3> QED BY <3>1
  <2> QED BY <2>2, <2>3, <2>5 DEF Fine
<1>2. n \in Nat /\ \A j \in 1 .. n : u[j] \in Nat /\ u[j] < j
  <2>1. n \in Nat
    BY <1>1
  <2> HIDE DEF n, u, L, N
  <2> QED BY <2>1, <1>1, OverIsNumber
<1>3. a \in 1 .. n /\ p \in 1 .. n /\ p < a /\ last \in 0 .. n
  <2>1. h + 2 \in 1 .. h + 2 /\ h + 1 \in 1 .. h + 2 /\ h + 1 < h + 2
    OBVIOUS
  <2>2. CallInv(t, u, cs[h + 2]) /\ cs[h + 1].p < cs[h + 2].p
    BY <2>1, <1>1
  <2> QED BY <2>2, <1>1 DEF CallInv
<1>4. /\ L[p] = 0 /\ a = N[x] /\ (last # 0 => p < last /\ u[last] = u[p])
      /\ \A j \in 1 .. n : P[j] = p <=> p < j /\ j <= last /\ u[j] = u[p]
  BY <1>1 DEF CallInv
<1>5. x \in 1 .. n /\ p <= x /\ u[x] = u[p] /\ last <= x
  <2>1. CASE last = 0
    <3>1. x = p
      BY <2>1
    <3> HIDE DEF n, u, L, N, P, p, x, last
    <3> QED BY <3>1, <2>1, <1>3
  <2>2. CASE last # 0
    <3>1. x = last
      BY <2>2
    <3> HIDE DEF n, u, L, N, P, p, x, last
    <3> QED BY <3>1, <2>2, <1>3, <1>4
  <2> QED BY <2>1, <2>2
<1>6. x < a /\ u[a] = u[p] /\ \A j \in x + 1 .. n : u[j] = u[p] => a <= j
  <2> HIDE DEF x, a, p, n, u, L, N
  <2>1. N[x] # 0
    BY <1>3, <1>4
  <2>2. N[x] \in x + 1 .. n /\ u[N[x]] = u[x] /\ \A j \in x + 1 .. n : u[j] = u[x] => N[x] <= j
    BY <2>1, <1>1, <1>5 DEF Shape, Nexts
  <2> QED BY <2>2, <1>2, <1>3, <1>4, <1>5
<1>7. P[p] \notin G /\ u[p] = P[p] /\ P[a] \notin G /\ u[a] = P[a]
  <2>1. h + 1 \in 1 .. Len(cs) /\ h + 2 \in 1 .. Len(cs)
    OBVIOUS
  <2>2. P[cs[h + 1].p] \notin G /\ u[cs[h + 1].p] = P[cs[h + 1].p]
    BY <2>1, OwnIsNotGathered
  <2>3. P[cs[h + 2].p] \notin G /\ u[cs[h + 2].p] = P[cs[h + 2].p]
    BY <2>1, OwnIsNotGathered
  <2> QED BY <2>2, <2>3, <1>1
<1>8. \A q \in G : \E i \in 1 .. h + 1 : cs[i].loop = "behind" /\ cs[i].p = q
  <2> SUFFICES ASSUME NEW q \in G PROVE \E i \in 1 .. h + 1 : cs[i].loop = "behind" /\ cs[i].p = q
    OBVIOUS
  <2>1. PICK i \in 1 .. h + 2 : cs[i].loop = "behind" /\ cs[i].p = q
    BY <1>1, Gatherers
  <2>2. i # h + 2
    BY <2>1
  <2> QED BY <2>1, <2>2
<1>9. a \notin G
  <2> SUFFICES ASSUME a \in G PROVE FALSE
    OBVIOUS
  <2>1. PICK i \in 1 .. h + 1 : cs[i].p = a
    BY <1>8
  <2>2. i \in 1 .. h + 2 /\ h + 2 \in 1 .. h + 2 /\ i < h + 2
    OBVIOUS
  <2>3. cs[i].p < cs[h + 2].p
    BY <2>2, <1>1
  <2> QED BY <2>1, <2>3, <1>1, <1>3
<1>10. p \in G
  <2>1. h + 1 \in 1 .. h + 2
    OBVIOUS
  <2> QED BY <2>1, <1>1, Gatherers
<1>11. /\ IsTree(t2) /\ Len(p2) = n /\ t2.list = L /\ t2.next = N
       /\ \A j \in 1 .. n : p2[j] = IF j = a THEN p ELSE P[j]
  <2>1. p \in Nat /\ a \in 1 .. n /\ t2 = Adopted(t, p, a)
    BY <1>3
  <2> HIDE DEF p, a
  <2> QED BY <2>1, <1>1, AdoptedTree
<1>12. c.p = p /\ c.last = a /\ c.loop = "behind" /\ c.at = N[a]
  BY <1>1 DEF CallRecords
<1>13. Gathering(cs2) = G
  <2>1. h + 2 \in {h + 1, h + 2} /\ DOMAIN cs = 1 .. h + 2 /\ cs[h + 2].loop # "behind"
    BY <1>1
  <2>2. c.loop = "behind" <=> cs[h + 1].loop = "behind"
    BY <1>12
  <2> HIDE DEF p, a, last, x, n, u, L, N, P, v, p2
  <2> QED BY <2>1, <2>2, SameGatherers
<1>14. \A j \in 1 .. n : u[j] = IF P[j] \in G THEN P[P[j]] ELSE P[j]
  BY <1>1, OverOf
<1>15. \A q \in G : q \in 1 .. n
  <2> SUFFICES ASSUME NEW q \in G PROVE q \in 1 .. n
    OBVIOUS
  <2>1. PICK i \in 1 .. h + 1 : cs[i].p = q
    BY <1>8
  <2>2. CallInv(t, u, cs[i])
    BY <2>1, <1>1
  <2> QED BY <2>1, <2>2 DEF CallInv
<1>16. \A j \in 1 .. n : v[j] = u[j]
  <2> SUFFICES ASSUME NEW j \in 1 .. n PROVE v[j] = u[j]
    OBVIOUS
  <2>0. DOMAIN p2 = 1 .. n
    BY <1>11, FineTypes
  <2>1. v[j] = IF p2[j] \in G THEN p2[p2[j]] ELSE p2[j]
    <3>1. DOMAIN t2.parent = 1 .. Len(t2.parent) /\ j \in 1 .. Len(t2.parent)
      BY <2>0, <1>11
    <3>3. \A m \in 1 .. Len(t2.parent) :
            Over(t2, cs2)[m] = IF t2.parent[m] \in Gathering(cs2) THEN t2.parent[t2.parent[m]] ELSE t2.parent[m]
      BY <3>1, OverOf
    <3>2. v[j] = IF p2[j] \in Gathering(cs2) THEN p2[p2[j]] ELSE p2[j]
      BY <3>1, <3>3
    <3> HIDE DEF v, p2
    <3> QED BY <3>2, <1>13
  <2>2. CASE j = a
    <3>3. p \in 1 .. n /\ a \in 1 .. n /\ p # a
      BY <1>3
    <3> HIDE DEF v, u, P, p2, p, a, G, n, L, N, x, last
    <3>1. p2[j] = p /\ p2[p] = P[p]
      BY <2>2, <3>3, <1>11
    <3> QED BY <3>1, <2>1, <2>2, <1>6, <1>7, <1>10
  <2>3. CASE j # a
    <3>1. p2[j] = P[j]
      BY <2>3, <1>11
    <3>2. P[j] \in G => p2[P[j]] = P[P[j]]
      BY <1>9, <1>11, <1>15
    <3> QED BY <3>1, <3>2, <2>1, <1>14
  <2> QED BY <2>2, <2>3
<1>17. Shape(n, v, L, N)
  <2>1. Shape(n, u, L, N) /\ 1 \in 1 .. n
    BY <1>1
  <2> HIDE DEF n, u, L, N, v
  <2>2. Ordered(n, v)
    BY <2>1, <1>2, <1>16, SMTT(30) DEF Shape, Ordered
  <2>3. Lists(n, v, L)
    BY <2>1, <1>2, <1>16, SMTT(30) DEF Shape, Lists
  <2>4. Nexts(n, v, N)
    <3> SUFFICES ASSUME NEW m \in 1 .. n
                 PROVE  /\ N[m] # 0 => N[m] \in m + 1 .. n /\ v[N[m]] = v[m]
                        /\ \A j \in m + 1 .. n : v[j] = v[m] => N[m] # 0 /\ N[m] <= j
      BY DEF Nexts
    <3>1. /\ N[m] # 0 => N[m] \in m + 1 .. n /\ u[N[m]] = u[m]
          /\ \A j \in m + 1 .. n : u[j] = u[m] => N[m] # 0 /\ N[m] <= j
      BY <2>1 DEF Shape, Nexts
    <3>2. \A j \in m + 1 .. n : j \in 1 .. n
      BY <1>2
    <3> QED BY <3>1, <3>2, <1>16
  <2> QED BY <2>2, <2>3, <2>4 DEF Shape
<1>18. Behind(p, n, t, u, t2, v)
  BY <1>11, <1>16 DEF Behind
<1>19. ASSUME NEW i \in 1 .. h PROVE GathersSame(cs[i], t, t2)
  <2> SUFFICES ASSUME cs[i].loop = "behind" PROVE \A j \in 1 .. n : p2[j] = cs[i].p <=> P[j] = cs[i].p
    BY DEF GathersSame
  <2> DEFINE q == cs[i].p
  <2>1. i \in 1 .. h + 2 /\ h + 1 \in 1 .. h + 2 /\ i < h + 1
    OBVIOUS
  <2>2. q \in G
    BY <2>1, <1>1, Gatherers
  <2>3. q < p /\ q \in 1 .. n
    BY <2>1, <2>2, <1>1, <1>15
  <2>4. q # p /\ P[a] # q
    BY <2>2, <2>3, <1>3, <1>7
  <2> HIDE DEF q
  <2>5. \A j \in 1 .. n : p2[j] = q <=> P[j] = q
    BY <2>4, <1>11
  <2> QED BY <2>5 DEF q
<1>20. CallInv(t2, v, c)
  <2>1. N[a] = 0 \/ N[a] \in a + 1 .. n
    BY <1>1, <1>3 DEF Shape, Nexts
  <2>2. c.p \in 1 .. n /\ c.at \in 0 .. n /\ c.last \in 0 .. n /\ (c.at # 0 => c.p < c.at)
    BY <2>1, <1>3, <1>12
  <2>3. v[a] = v[p]
    BY <1>3, <1>6, <1>16
  <2>4. \A j \in 1 .. n : p2[j] = p <=> p < j /\ j <= a /\ v[j] = v[p]
    <3> SUFFICES ASSUME NEW j \in 1 .. n PROVE p2[j] = p <=> p < j /\ j <= a /\ u[j] = u[p]
      BY <1>3, <1>16
    <3>1. CASE j = a
      BY <3>1, <1>3, <1>6, <1>11
    <3>2. CASE j # a
      <4>1. p2[j] = p <=> p < j /\ j <= last /\ u[j] = u[p]
        BY <3>2, <1>4, <1>11
      <4>2. j <= last => j <= a
        BY <1>3, <1>5, <1>6
      <4>3. p < j /\ j < a /\ u[j] = u[p] => j <= last
        <5> SUFFICES ASSUME p < j, j < a, u[j] = u[p] PROVE j <= last
          OBVIOUS
        <5>1. ~(j \in x + 1 .. n)
          <6> HIDE DEF x, a, p, n, u
          <6> QED BY <1>3, <1>6
        <5>2. j <= x
          <6> HIDE DEF x, a, p, u, n
          <6> QED BY <5>1, <1>5, <1>2
        <5> QED BY <5>2, <1>3
      <4> QED BY <4>1, <4>2, <4>3, <3>2, <1>3
    <3> QED BY <3>1, <3>2
  <2>5. Len(t2.parent) = n /\ t2.list[c.p] = 0 /\ c.at = t2.next[c.last] /\ c.last # 0 /\ c.p < c.last
        /\ v[c.last] = v[c.p]
    <3>1. a # 0 /\ Len(p2) = n /\ t2.list[p] = 0 /\ N[a] = t2.next[a]
      <4>1. a # 0
        BY <1>3
      <4>2. t2.list = L /\ t2.next = N /\ Len(p2) = n /\ L[p] = 0
        BY <1>4, <1>11
      <4> HIDE DEF a, p, N, L, n
      <4> QED BY <4>1, <4>2
    <3> HIDE DEF n, v, a, p
    <3>2. Len(t2.parent) = n
      BY <3>1
    <3>3. t2.list[c.p] = 0 /\ c.at = t2.next[c.last] /\ c.last # 0
      BY <3>1, <1>12
    <3> QED BY <3>2, <3>3, <2>3, <1>3, <1>12
  <2>6. \A j \in 1 .. n : t2.parent[j] = c.p <=> c.p < j /\ j <= c.last /\ v[j] = v[c.p]
    BY <2>4, <1>12
  <2>7. c.at = t2.next[IF c.last = 0 THEN c.p ELSE c.last] /\ c.loop = "behind"
    <3>1. c.loop = "behind"
      BY <1>12
    <3>2. c.last # 0 /\ c.at = t2.next[c.last]
      BY <2>5
    <3> DEFINE e == c.last  y == IF e = 0 THEN c.p ELSE e
    <3>3. y = e
      <4>1. e # 0
        BY <3>2
      <4> HIDE DEF e
      <4> QED BY <4>1
    <3> HIDE DEF y
    <3>4. t2.next[y] = c.at
      BY <3>2, <3>3
    <3> QED BY <3>1, <3>4 DEF y
  <2> HIDE DEF n, v, a, p, N, p2
  <2> QED BY <2>2, <2>5, <2>6, <2>7 DEF CallInv
<1>21. /\ cs2 \in Seq(CallRecords) /\ h \in 0 .. Len(cs) - 1 /\ Len(cs2) = h + 1
       /\ cs2[h + 1] = c /\ cs2[h + 1].p = p /\ \A i \in 1 .. h : cs2[i] = cs[i]
  BY <1>12 DEF Becomes
<1>22. CallInv(t2, v, cs2[h + 1]) /\ p = cs[h + 1].p /\ IsTree(t2)
  BY <1>11, <1>20, <1>21
<1>23. Shape(n, v, t2.list, t2.next)
  BY <1>11, <1>17
<1> HIDE DEF n, u, v, p
<1> QED BY <1>18, <1>19, <1>21, <1>22, <1>23, CallGoesOn DEF n, u, v

-----------------------------------------------------------------------------
\* While menu_finalize runs.
LEMMA InnerCall ==
  ASSUME TreeInv, calls # <<>>
  PROVE  /\ Fine(Tree, calls) /\ phase = "parsed" /\ Len(calls) \in Nat \ {0} /\ calls \in Seq(CallRecords)
         /\ Inner = calls[Len(calls)] /\ Inner \in CallRecords
         /\ Inner.p \in 1 .. Len(Tree.parent) /\ Inner.at \in 0 .. Len(Tree.parent)
<1>1. Fine(Tree, calls) /\ phase = "parsed" /\ calls \in Seq(CallRecords)
  BY DEF TreeInv, Fine
<1>2. Len(calls) \in Nat \ {0}
  <2> DEFINE R == CallRecords
  <2>1. calls \in Seq(R)
    BY <1>1
  <2> HIDE DEF R
  <2> QED BY <2>1
<1>3. Inner = calls[Len(calls)]
  BY DEF Inner, Last
<1>4. Inner \in CallRecords /\ CallInv(Tree, Over(Tree, calls), Inner)
  <2>1. Len(calls) \in 1 .. Len(calls)
    BY <1>2
  <2> QED BY <2>1, <1>1, <1>3, FineFacts
<1> QED BY <1>1, <1>2, <1>3, <1>4 DEF CallInv

LEMMA FineMeansInv ==
  ASSUME Fine(Tree', calls'), phase' = "parsed"
  PROVE  TreeInv'
BY DEF TreeInv, Fine

LEMMA LinksAreNumbers ==
  ASSUME NEW t, IsTree(t), NEW m \in 1 .. Len(t.parent)
  PROVE  t.parent[m] \in Nat /\ t.list[m] \in Nat /\ t.next[m] \in Nat
<1> DEFINE P == t.parent  L == t.list  N == t.next  n == Len(P)
<1>1. P \in Seq(Nat) /\ L \in Seq(Nat) /\ N \in Seq(Nat) /\ Len(L) = n /\ Len(N) = n /\ n \in Nat \ {0}
  BY TreeTypes DEF IsTree
<1>2. m \in 1 .. n
  OBVIOUS
<1> HIDE DEF P, L, N
<1>3. P[m] \in Nat /\ L[m] \in Nat /\ N[m] \in Nat
  BY <1>1, <1>2
<1> QED BY <1>3 DEF P, L, N

\* The innermost call turns to tidying, or goes on with it.
LEMMA TurnedCall ==
  ASSUME TreeInv, calls # <<>>, NEW at \in Nat, calls' = Append(Front(calls), Turned(Inner, "tidy", at))
  PROVE  Becomes(calls, calls', Len(calls) - 1, Turned(Inner, "tidy", at))
<1>1. Turned(Inner, "tidy", at) \in CallRecords /\ Turned(Inner, "tidy", at).p = Inner.p
  BY InnerCall DEF Turned, CallRecords
<1> QED BY <1>1, InnerCall, InnerBecomes

LEMMA BeginKeepsInv == TreeInv /\ BeginFinalize => TreeInv'
<1> SUFFICES ASSUME TreeInv, BeginFinalize PROVE TreeInv'
  OBVIOUS
<1>1. Fine(Tree, calls) /\ calls = <<>> /\ Tree' = Tree /\ phase' = "parsed"
  BY DEF TreeInv, BeginFinalize, Fine
<1>2. PICK c \in Begun(Tree, 1) : calls' = <<c>>
  BY DEF BeginFinalize
<1>3. 1 \in 1 .. Len(Tree.parent)
  BY <1>1, FineFacts
<1>4. Fine(Tree, Append(calls, c))
  BY <1>1, <1>3, CallBegins
<1>5. calls' = Append(calls, c)
  BY <1>1, <1>2
<1> QED BY <1>1, <1>4, <1>5, FineMeansInv

LEMMA FinalizeKeepsInv == TreeInv /\ FinalizeNext => TreeInv'
<1> SUFFICES ASSUME TreeInv, FinalizeNext PROVE TreeInv'
  OBVIOUS
<1>1. calls # <<>> /\ Inner.loop \in {"below", "behind"} /\ Inner.at # 0 /\ Tree' = Tree /\ phase' = phase
  BY DEF FinalizeNext, Running
<1>2. PICK c \in Begun(Tree, Inner.at) : calls' = Append(calls, c)
  BY DEF FinalizeNext
<1>3. /\ Fine(Tree, calls) /\ phase = "parsed" /\ Len(calls) \in 1 .. Len(calls) /\ Inner = calls[Len(calls)]
      /\ Inner.at \in 1 .. Len(Tree.parent)
  BY <1>1, InnerCall
<1>4. calls[Len(calls)].at = Inner.at /\ calls[Len(calls)].loop # "tidy"
  BY <1>1, <1>3
<1> DEFINE m == Inner.at
<1>5. Fine(Tree, Append(calls, c))
  <2>1. m \in 1 .. Len(Tree.parent) /\ calls[Len(calls)].at = m /\ c \in Begun(Tree, m)
    BY <1>3, <1>4
  <2> HIDE DEF m
  <2> QED BY <2>1, <1>3, <1>4, CallBegins
<1> QED BY <1>1, <1>2, <1>3, <1>5, FineMeansInv

LEMMA EndBelowKeepsInv == TreeInv /\ EndBelow => TreeInv'
<1> SUFFICES ASSUME TreeInv, EndBelow PROVE TreeInv'
  OBVIOUS
<1> DEFINE h == Len(calls) - 1  c == Turned(Inner, "tidy", Tree.list[Inner.p])
<1>1. calls # <<>> /\ Inner.loop = "below" /\ Tree' = Tree /\ phase' = phase /\ calls' = Append(Front(calls), c)
  BY DEF EndBelow, Running, GoesOn
<1>2. Fine(Tree, calls) /\ phase = "parsed" /\ h \in Nat /\ Len(calls) = h + 1 /\ Inner = calls[h + 1]
  BY <1>1, InnerCall
<1>3. Tree.list[Inner.p] \in Nat
  BY <1>1, <1>2, InnerCall, LinksAreNumbers DEF Fine
<1>4. Becomes(calls, calls', h, c)
  BY <1>1, <1>3, TurnedCall
<1>5. c = [Inner EXCEPT !.loop = "tidy", !.at = Tree.list[Inner.p]]
  BY DEF Turned
<1> HIDE DEF h, c
<1>6. Fine(Tree, calls')
  BY <1>1, <1>2, <1>4, <1>5, BelowEnds
<1> QED BY <1>1, <1>2, <1>6, FineMeansInv

LEMMA EndBehindKeepsInv == TreeInv /\ EndBehind => TreeInv'
<1> SUFFICES ASSUME TreeInv, EndBehind PROVE TreeInv'
  OBVIOUS
<1> DEFINE h == Len(calls) - 1  c == Turned(Inner, "tidy", Tree'.list[Inner.p])  t2 == Tree'
<1>1. /\ calls # <<>> /\ Inner.loop = "behind" /\ phase' = phase /\ calls' = Append(Front(calls), c)
      /\ Tree' = IF Inner.last = 0 THEN Tree ELSE Absorbed(Tree, Inner.p, Inner.last)
  BY DEF EndBehind, Running, GoesOn
<1>2. Fine(Tree, calls) /\ phase = "parsed" /\ h \in Nat /\ Len(calls) = h + 1 /\ Inner = calls[h + 1]
  BY <1>1, InnerCall
<1>3. Inner.p \in 1 .. Len(Tree.parent) /\ IsTree(Tree)
  BY <1>1, <1>2, InnerCall DEF Fine
<1>4. IsTree(t2) /\ Len(t2.parent) = Len(Tree.parent)
  <2>1. CASE Inner.last = 0
    BY <2>1, <1>1, <1>3
  <2>2. CASE Inner.last # 0
    <3>1. CallInv(Tree, Over(Tree, calls), Inner)
      <4>1. h + 1 \in 1 .. Len(calls)
        BY <1>2
      <4> QED BY <4>1, <1>2, FineFacts
    <3>2. Inner.last \in 1 .. Len(Tree.parent) /\ Inner.p # Inner.last
      BY <3>1, <2>2, <1>1, <1>3 DEF CallInv
    <3> QED BY <3>2, <2>2, <1>1, <1>3, AbsorbedTree
  <2> QED BY <2>1, <2>2
<1>5. t2.list[Inner.p] \in Nat
  BY <1>3, <1>4, LinksAreNumbers
<1>6. Becomes(calls, calls', h, c)
  BY <1>1, <1>5, TurnedCall
<1>7. c = [Inner EXCEPT !.loop = "tidy", !.at = Tree'.list[Inner.p]]
  BY DEF Turned
<1> HIDE DEF h, c
<1>8. Fine(Tree', calls')
  <2>1. CASE Inner.last = 0
    BY <2>1, <1>1, <1>2, <1>6, <1>7, NothingGathered
  <2>2. CASE Inner.last # 0
    BY <2>2, <1>1, <1>2, <1>6, <1>7, BehindEnds
  <2> QED BY <2>1, <2>2
<1> QED BY <1>1, <1>2, <1>8, FineMeansInv

\* The list of m comes behind m when it is spliced.
LEMMA SplicedNext ==
  ASSUME NEW t, IsTree(t), NEW p, NEW m \in 1 .. Len(t.parent)
  PROVE  Spliced(t, p, m).next[m] = t.list[m]
<1> DEFINE N == t.next  n1 == [N EXCEPT ![LastBelow(t, m)] = N[m]]
<1>1. t \in TreeRecords /\ N \in Seq(Nat) /\ Len(N) = Len(t.parent)
  BY TreeTypes DEF IsTree
<1>2. Spliced(t, p, m).next = [n1 EXCEPT ![m] = t.list[m]]
  BY <1>1 DEF TreeRecords, Spliced, LastBelow
<1> HIDE DEF N
<1>3. m \in DOMAIN N
  BY <1>1
<1> QED BY <1>2, <1>3

LEMMA TidyKeepsInv == TreeInv /\ Tidy => TreeInv'
<1> SUFFICES ASSUME TreeInv, Tidy PROVE TreeInv'
  OBVIOUS
<1> DEFINE h == Len(calls) - 1  c == Turned(Inner, "tidy", Tree'.next[Inner.at])  t2 == Tree'
<1>1. /\ calls # <<>> /\ Inner.loop = "tidy" /\ Inner.at # 0 /\ phase' = phase /\ calls' = Append(Front(calls), c)
      /\ Tree' = Tree \/ (Tree.list[Inner.at] # 0 /\ Tree' = Spliced(Tree, Inner.p, Inner.at))
  BY DEF Tidy, Running, GoesOn
<1>2. Fine(Tree, calls) /\ phase = "parsed" /\ h \in Nat /\ Len(calls) = h + 1 /\ Inner = calls[h + 1]
  BY <1>1, InnerCall
<1>3. Inner.at \in 1 .. Len(Tree.parent) /\ IsTree(Tree)
  BY <1>1, <1>2, InnerCall DEF Fine
<1>4. t2.next[Inner.at] \in Nat
  <2>1. Tree.list[Inner.at] \in Nat /\ Tree.next[Inner.at] \in Nat
    BY <1>3, LinksAreNumbers
  <2>2. Spliced(Tree, Inner.p, Inner.at).next[Inner.at] = Tree.list[Inner.at]
    BY <1>3, SplicedNext
  <2> QED BY <2>1, <2>2, <1>1
<1>5. Becomes(calls, calls', h, c)
  BY <1>1, <1>4, TurnedCall
<1>6. c = [Inner EXCEPT !.loop = "tidy", !.at = Tree'.next[Inner.at]]
  BY DEF Turned
<1> HIDE DEF h, c
<1>7. Fine(Tree', calls')
  <2>1. CASE Tree' = Tree
    BY <2>1, <1>1, <1>2, <1>5, <1>6, TidyGoesOn
  <2>2. CASE Tree.list[Inner.at] # 0 /\ Tree' = Spliced(Tree, Inner.p, Inner.at)
    BY <2>2, <1>1, <1>2, <1>5, <1>6, ListIsSpliced
  <2> QED BY <2>1, <2>2, <1>1
<1> QED BY <1>1, <1>2, <1>7, FineMeansInv

\* Who waits for the innermost call.
LEMMA CallerIsThere ==
  ASSUME TreeInv, Len(calls) > 1
  PROVE  /\ calls # <<>> /\ Len(calls) - 2 \in Nat /\ Caller = calls[Len(calls) - 1] /\ Caller \in CallRecords
         /\ Tree.next[Caller.at] \in Nat /\ Caller.at \in 1 .. Len(Tree.parent)
<1>1. calls # <<>> /\ Caller = calls[Len(calls) - 1]
  BY DEF Caller
<1>2. Fine(Tree, calls) /\ Len(calls) \in Nat /\ Inner = calls[Len(calls)] /\ Inner.p \in 1 .. Len(Tree.parent)
  BY <1>1, InnerCall
<1>3. Caller \in CallRecords /\ Caller.at = Inner.p
  <2>1. Len(calls) - 1 \in 1 .. Len(calls) /\ Len(calls) - 1 \in 1 .. Len(calls) - 1
        /\ Len(calls) - 1 + 1 = Len(calls)
    BY <1>2
  <2> QED BY <2>1, <1>1, <1>2, FineFacts
<1>4. Tree.next[Caller.at] \in Nat
  BY <1>2, <1>3, LinksAreNumbers DEF Fine
<1> QED BY <1>1, <1>2, <1>3, <1>4

LEMMA ReturnBelowKeepsInv == TreeInv /\ ReturnBelow => TreeInv'
<1> SUFFICES ASSUME TreeInv, ReturnBelow PROVE TreeInv'
  OBVIOUS
<1> DEFINE h == Len(calls) - 2  c == [Caller EXCEPT !.at = Tree.next[Caller.at]]
<1>1. /\ calls # <<>> /\ Inner.loop = "tidy" /\ Len(calls) > 1 /\ Caller.loop = "below"
      /\ Tree' = Tree /\ phase' = phase /\ calls' = Append(Front(Front(calls)), c)
  BY DEF ReturnBelow, Running
<1>2. /\ Fine(Tree, calls) /\ phase = "parsed" /\ calls \in Seq(CallRecords) /\ h \in Nat /\ Len(calls) = h + 2
      /\ calls[h + 2].loop = "tidy" /\ Caller = calls[h + 1]
  BY <1>1, InnerCall, CallerIsThere
<1>3. c \in CallRecords /\ c.p = calls[Len(calls) - 1].p
  BY <1>1, CallerIsThere DEF CallRecords
<1>4. Becomes(calls, calls', h, c)
  <2> HIDE DEF c
  <2> QED BY <1>1, <1>2, <1>3, CallerBecomes
<1>5. c = [Caller EXCEPT !.at = Tree.next[Caller.at]]
  OBVIOUS
<1> HIDE DEF h, c
<1>6. Fine(Tree, calls')
  BY <1>1, <1>2, <1>4, <1>5, BelowGoesOn
<1> QED BY <1>1, <1>2, <1>6, FineMeansInv

LEMMA ReturnBehindKeepsInv == TreeInv /\ ReturnBehind => TreeInv'
<1> SUFFICES ASSUME TreeInv, ReturnBehind PROVE TreeInv'
  OBVIOUS
<1> DEFINE h == Len(calls) - 2  c == [Caller EXCEPT !.at = Tree.next[Caller.at], !.last = Caller.at]
<1>1. /\ calls # <<>> /\ Inner.loop = "tidy" /\ Len(calls) > 1 /\ Caller.loop = "behind"
      /\ Tree' = Adopted(Tree, Caller.p, Caller.at) /\ phase' = phase
      /\ calls' = Append(Front(Front(calls)), c)
  BY DEF ReturnBehind, Running, Adopted
<1>2. /\ Fine(Tree, calls) /\ phase = "parsed" /\ calls \in Seq(CallRecords) /\ h \in Nat /\ Len(calls) = h + 2
      /\ calls[h + 2].loop = "tidy" /\ Caller = calls[h + 1]
  BY <1>1, InnerCall, CallerIsThere
<1>3. c \in CallRecords /\ c.p = calls[Len(calls) - 1].p
  BY <1>1, CallerIsThere DEF CallRecords
<1>4. Becomes(calls, calls', h, c)
  <2> HIDE DEF c
  <2> QED BY <1>1, <1>2, <1>3, CallerBecomes
<1>5. c = [Caller EXCEPT !.at = Tree.next[Caller.at], !.last = Caller.at]
  OBVIOUS
<1> HIDE DEF h, c
<1>6. Fine(Tree', calls')
  BY <1>1, <1>2, <1>4, <1>5, BehindGoesOn
<1> QED BY <1>1, <1>2, <1>6, FineMeansInv

\* The call for the root ends: the tree is ready.
LEMMA EndKeepsInv == TreeInv /\ EndFinalize => TreeInv'
<1> SUFFICES ASSUME TreeInv, EndFinalize PROVE TreeInv'
  OBVIOUS
<1>1. /\ calls # <<>> /\ Inner.loop = "tidy" /\ Len(calls) = 1 /\ calls' = <<>> /\ phase' = "ready"
      /\ Tree' = Tree
  BY DEF EndFinalize, Running
<1>2. Fine(Tree, calls) /\ calls[1].loop = "tidy"
  BY <1>1, InnerCall
<1>3. DOMAIN calls = 1 .. 1 /\ DOMAIN Tree.parent = 1 .. Len(Tree.parent) /\ IsTree(Tree)
  BY <1>1, <1>2, FineFacts DEF Fine
<1>4. Gathering(calls) = {}
  BY <1>2, <1>3 DEF Gathering
<1>5. Gathering(<<>>) = {}
  BY DEF Gathering
<1>6. Over(Tree, <<>>) = Over(Tree, calls)
  BY <1>3, <1>4, <1>5, OverSame
<1>7. Sound(Tree, <<>>)
  BY <1>2, <1>6, FineFacts DEF Sound
<1>8. Nested(<<>>) /\ <<>> \in Seq(CallRecords)
  BY DEF Nested
<1> QED BY <1>1, <1>3, <1>7, <1>8 DEF TreeInv

-----------------------------------------------------------------------------
\* Whatever is parsed and in whatever order menu_finalize goes about it, the
\* tree and the calls under way stay sound.
THEOREM TreeInvariance == TreeSpec => []TreeInv
<1>1. TreeInit => TreeInv
  BY InitHolds
<1>2. TreeInv /\ [TreeNext]_treeVars => TreeInv'
  <2> SUFFICES ASSUME TreeInv, [TreeNext]_treeVars PROVE TreeInv'
    OBVIOUS
  <2>1. CASE TreeNext
    BY <2>1, ParseKeepsInv, BeginKeepsInv, FinalizeKeepsInv, EndBelowKeepsInv, EndBehindKeepsInv, TidyKeepsInv,
       ReturnBelowKeepsInv, ReturnBehindKeepsInv, EndKeepsInv DEF TreeNext
  <2>2. CASE UNCHANGED treeVars
    <3>1. k' = k /\ phase' = phase /\ calls' = calls
      BY <2>2 DEF treeVars
    <3>2. Tree' = Tree
      BY <3>1 DEF Tree
    <3> QED BY <3>1, <3>2 DEF TreeInv
  <2> QED BY <2>1, <2>2
<1> QED BY <1>1, <1>2, PTL DEF TreeSpec

\* Nothing of the tree is lost or doubled while menu_finalize rebuilds it, and
\* then the walk of all writers comes by every entry once, in order.
THEOREM EveryEntryIsReached == TreeSpec => []EveryEntryOnce
BY TreeInvariance, InvMeansOnce, PTL
=============================================================================
