---------------------------- MODULE ListLemmas ----------------------------
(***************************************************************************)
(* Facts about numbers, recursive functions and sequences that the proofs  *)
(* about DependsGen rest on.                                               *)
(***************************************************************************)
EXTENDS Naturals, Integers, Sequences, FiniteSets, SequencesExt,
        FiniteSetTheorems, NaturalsInduction, TLAPS

\* A set of numbers has a least one.
LEMMA LeastElement ==
  ASSUME NEW T \in SUBSET Nat, T # {}
  PROVE  \E x \in T : \A y \in T : x <= y
<1> DEFINE Less == OpToRel(<, Nat)
<1>1. IsWellFoundedOn(Less, Nat)
  BY NatLessThanWellFounded
<1>2. \A x, y \in Nat : y < x => <<y, x>> \in Less
  BY DEF OpToRel
<1> HIDE DEF Less
<1>3. \E x \in T : \A y \in T : ~(<<y, x>> \in Less)
  BY <1>1, WFMin
<1>4. PICK x \in T : \A y \in T : ~(y < x)
  BY <1>2, <1>3
<1> QED BY <1>4, SMT

\* Induction from 0 up to n, for membership of a set.
LEMMA UpTo ==
  ASSUME NEW n \in Nat, NEW T, 0 \in T, \A k \in 1..n : k - 1 \in T => k \in T
  PROVE  \A k \in 0..n : k \in T
<1> DEFINE U == (0..n) \ T
<1> SUFFICES ASSUME U # {} PROVE FALSE
  OBVIOUS
<1>0. U \in SUBSET Nat
  OBVIOUS
<1>1. PICK x \in U : \A y \in U : x <= y
  <2> HIDE DEF U
  <2> QED BY <1>0, LeastElement
<1>2. x \in 1..n /\ x - 1 \in 0..n /\ ~(x <= x - 1)
  BY <1>1, SMT
<1> QED BY <1>1, <1>2, SMT

\* g is the function that the recursion from base by step defines up to n.
Computes(g, S, n, base, step) ==
  g \in [0..n -> S] /\ g[0] = base /\ \A k \in 1..n : g[k] = step[<<g[k - 1], k>>]

\* There is one.
LEMMA Recursion ==
  ASSUME NEW S, NEW n \in Nat, NEW base \in S, NEW step \in [S \X (1..n) -> S]
  PROVE  \E g : Computes(g, S, n, base, step)
<1> DEFINE Ok(m) == \E g \in [0..m -> S] : g[0] = base /\ \A k \in 1..m : g[k] = step[<<g[k - 1], k>>]
           T == {m \in 0..n : Ok(m)}
<1>1. 0 \in T
  <2>1. [k \in 0..0 |-> base] \in [0..0 -> S]
    OBVIOUS
  <2>2. Ok(0)
    <3> WITNESS [k \in 0..0 |-> base] \in [0..0 -> S]
    <3> QED BY SMT
  <2> QED BY <2>2
<1>2. ASSUME NEW k \in 1..n, k - 1 \in T PROVE k \in T
  <2>0. k \in 0..n /\ k - 1 \in 0..n
    BY SMT
  <2>1. PICK g \in [0..(k - 1) -> S] : /\ g[0] = base
                                     /\ \A j \in 1..(k - 1) : g[j] = step[<<g[j - 1], j>>]
    BY <1>2, <2>0
  <2> DEFINE h == [j \in 0..k |-> IF j = k THEN step[<<g[k - 1], k>>] ELSE g[j]]
  <2>2. h \in [0..k -> S]
    BY SMT
  <2>3. h[0] = base
    BY <2>1, SMT
  <2>4. \A j \in 1..k : h[j] = step[<<h[j - 1], j>>]
    BY <2>1, SMT
  <2>5. Ok(k)
    <3> HIDE DEF h
    <3> QED BY <2>2, <2>3, <2>4
  <2> QED BY <2>5, <2>0
<1>4. Ok(n)
  <2>1. \A k \in 0..n : k \in T
    <3> HIDE DEF T
    <3> QED BY <1>1, <1>2, UpTo
  <2> QED BY <2>1, SMT
<1> QED BY <1>4 DEF Computes

\* The numbers from 1 to n are n.
LEMMA Interval ==
  ASSUME NEW n \in Nat
  PROVE  IsFiniteSet(1..n) /\ Cardinality(1..n) = n
BY FS_Interval, 1 \in Int, n \in Int

\* SetToSeq lists each element of a finite set.
LEMMA SetToSeqElements ==
  ASSUME NEW S, IsFiniteSet(S)
  PROVE  /\ Cardinality(S) \in Nat
         /\ SetToSeq(S) \in [1..Cardinality(S) -> S]
         /\ SetToSeq(S) \in Seq(S)
         /\ Len(SetToSeq(S)) = Cardinality(S)
         /\ \A x \in S : \E k \in 1..Cardinality(S) : SetToSeq(S)[k] = x
<1> DEFINE n == Cardinality(S)
           f == SetToSeq(S)
<1>1. ExistsBijection(1..n, S) /\ n \in Nat
  BY FS_CardinalityType
<1>2. PICK g \in [1..n -> S] : IsInjective(g)
  BY <1>1 DEF ExistsBijection, Bijection, Injection
<1>3. f \in [1..n -> S] /\ IsInjective(f)
  BY <1>2 DEF SetToSeq
<1>4. f \in Injection(1..n, S)
  BY <1>3 DEF Injection
<1>5. IsFiniteSet(1..n) /\ Cardinality(1..n) = n
  BY <1>1, Interval
<1>6. f \in Surjection(1..n, S)
  BY <1>4, <1>5, FS_Injection
<1>7. \A x \in S : \E k \in 1..n : f[k] = x
  BY <1>6 DEF Surjection
<1> HIDE DEF n, f
<1>8. f \in Seq(S) /\ Len(f) = n
  BY <1>1, <1>3
<1> QED BY <1>1, <1>3, <1>7, <1>8 DEF n, f

\* A list of all of S that is no longer than S has nothing twice.
LEMMA FullListIsInjective ==
  ASSUME NEW S, NEW s \in Seq(S), ToSet(s) = S, Len(s) = Cardinality(S)
  PROVE  \A j, k \in 1..Len(s) : s[j] = s[k] => j = k
<1>1. s \in [1..Len(s) -> S] /\ DOMAIN s = 1..Len(s) /\ Len(s) \in Nat
  OBVIOUS
<1>2. s \in Surjection(1..Len(s), S)
  BY <1>1 DEF ToSet, Surjection
<1>3. IsFiniteSet(1..Len(s)) /\ Cardinality(1..Len(s)) = Len(s)
  BY <1>1, Interval
<1>4. s \in Injection(1..Len(s), S)
  BY <1>2, <1>3, FS_Surjection
<1> QED BY <1>4, <1>1 DEF Injection, IsInjective

\* A list with nothing twice is as long as the set of its elements.
LEMMA InjectiveListLength ==
  ASSUME NEW S, NEW s \in Seq(S), \A j, k \in 1..Len(s) : s[j] = s[k] => j = k
  PROVE  Len(s) = Cardinality(ToSet(s)) /\ IsFiniteSet(ToSet(s))
<1>1. s \in [1..Len(s) -> ToSet(s)] /\ DOMAIN s = 1..Len(s) /\ Len(s) \in Nat
  BY DEF ToSet
<1>2. s \in Injection(1..Len(s), ToSet(s))
  BY <1>1 DEF Injection, IsInjective
<1>3. s \in Surjection(1..Len(s), ToSet(s))
  BY <1>1 DEF ToSet, Surjection
<1>4. IsFiniteSet(1..Len(s)) /\ Cardinality(1..Len(s)) = Len(s)
  BY <1>1, Interval
<1>5. IsFiniteSet(ToSet(s))
  BY <1>3, <1>4, FS_Surjection
<1> QED BY <1>2, <1>3, <1>4, <1>5, FS_Surjection

\* The elements of a list are finitely many.
LEMMA ListIsFinite ==
  ASSUME NEW S, NEW s \in Seq(S)
  PROVE  IsFiniteSet(ToSet(s)) /\ ToSet(s) \subseteq S
<1>1. s \in [1..Len(s) -> ToSet(s)] /\ DOMAIN s = 1..Len(s) /\ Len(s) \in Nat
  BY DEF ToSet
<1>3. s \in Surjection(1..Len(s), ToSet(s))
  BY <1>1 DEF ToSet, Surjection
<1>4. IsFiniteSet(1..Len(s))
  BY <1>1, Interval
<1> QED BY <1>3, <1>4, FS_Surjection DEF ToSet

\* A list without its last element.
LEMMA FrontElements ==
  ASSUME NEW S, NEW s \in Seq(S), s # <<>>
  PROVE  /\ Front(s) \in Seq(S) /\ Len(Front(s)) = Len(s) - 1
         /\ \A k \in 1..(Len(s) - 1) : Front(s)[k] = s[k]
<1>1. Len(s) \in Nat /\ Len(s) # 0
  OBVIOUS
<1>2. \A k \in 1..(Len(s) - 1) : k \in 1..Len(s)
  BY <1>1, SMT
<1>3. \A k \in 1..(Len(s) - 1) : s[k] \in S
  BY <1>2
<1>4. Front(s) = SubSeq(s, 1, Len(s) - 1)
  BY DEF Front
<1> DEFINE n == Len(s) - 1
<1>5. n \in Nat /\ \A k \in 1..n : s[k] \in S
  BY <1>1, <1>3, SMT
<1> HIDE DEF n
<1>6. /\ SubSeq(s, 1, n) \in Seq(S) /\ Len(SubSeq(s, 1, n)) = n
      /\ \A k \in 1..n : SubSeq(s, 1, n)[k] = s[k]
  BY <1>5, SMT
<1> QED BY <1>4, <1>6 DEF n

\* The elements of a concatenation.
LEMMA ConcatElements ==
  ASSUME NEW S, NEW s \in Seq(S), NEW t \in Seq(S)
  PROVE  s \o t \in Seq(S) /\ ToSet(s \o t) = ToSet(s) \cup ToSet(t)
<1> DEFINE u == s \o t
<1>1. /\ u \in Seq(S) /\ Len(u) = Len(s) + Len(t)
      /\ \A k \in 1..(Len(s) + Len(t)) : u[k] = IF k <= Len(s) THEN s[k] ELSE t[k - Len(s)]
  OBVIOUS
<1>2. /\ DOMAIN u = 1..(Len(s) + Len(t)) /\ DOMAIN s = 1..Len(s) /\ DOMAIN t = 1..Len(t)
      /\ Len(s) \in Nat /\ Len(t) \in Nat
  BY <1>1
<1> HIDE DEF u
<1>3. ASSUME NEW k \in DOMAIN u PROVE u[k] \in ToSet(s) \cup ToSet(t)
  <2>1. CASE k <= Len(s)
    <3>1. k \in 1..Len(s)
      BY <2>1, <1>2, SMT
    <3> QED BY <3>1, <2>1, <1>1, <1>2 DEF ToSet
  <2>2. CASE ~(k <= Len(s))
    <3>1. k - Len(s) \in 1..Len(t)
      BY <2>2, <1>2, SMT
    <3> QED BY <3>1, <2>2, <1>1, <1>2 DEF ToSet
  <2> QED BY <2>1, <2>2
<1>4. ASSUME NEW k \in DOMAIN s PROVE s[k] \in ToSet(u)
  <2>1. k \in 1..(Len(s) + Len(t)) /\ k <= Len(s)
    BY <1>2, SMT
  <2> QED BY <2>1, <1>1, <1>2 DEF ToSet
<1>5. ASSUME NEW k \in DOMAIN t PROVE t[k] \in ToSet(u)
  <2>1. k + Len(s) \in 1..(Len(s) + Len(t)) /\ ~(k + Len(s) <= Len(s)) /\ (k + Len(s)) - Len(s) = k
    BY <1>2, SMT
  <2>2. u[k + Len(s)] = t[k]
    BY <2>1, <1>1
  <2> QED BY <2>1, <2>2, <1>2 DEF ToSet
<1>6. ToSet(u) = ToSet(s) \cup ToSet(t)
  BY <1>3, <1>4, <1>5 DEF ToSet
<1> QED BY <1>1, <1>6 DEF u
===========================================================================
