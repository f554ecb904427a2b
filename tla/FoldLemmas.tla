----------------------------- MODULE FoldLemmas ------------------------------
(***************************************************************************)
(* What a fold over a sequence computes, for sequences of every length.    *)
(* Op(done, elt, par) is one turn of the loop; a module that folds takes   *)
(* these facts by INSTANCE, with its own turn for Op.                      *)
(***************************************************************************)
EXTENDS Integers, SequencesExt, SequenceTheorems, WellFoundedInduction, TLAPS

CONSTANT Op(_, _, _)

Folded(s, par, base) == FoldLeft(LAMBDA done, elt : Op(done, elt, par), base, s)

----------------------------------------------------------------------------
(* Induction, in the form of sets. *)

\* A set of naturals that is not empty has a least element.
LEMMA LeastNatural ==
  ASSUME NEW T \in SUBSET Nat, T # {}
  PROVE  \E m \in T : \A k \in T : m <= k
<1>1. \A x, y \in Nat : x < y => <<x, y>> \in OpToRel(<, Nat)
  BY Zenon DEF OpToRel
<1>2. PICK m \in T : \A k \in T : <<k, m>> \notin OpToRel(<, Nat)
  BY NatLessThanWellFounded, WFMin
<1>3. \A k \in T : ~ (k < m)
  BY <1>1, <1>2, Zenon
<1>4. QED
  BY <1>3

\* A set with 0 and with the successor of each of its elements has all naturals.
LEMMA NaturalsBySuccessor ==
  ASSUME NEW T, 0 \in T, \A n \in Nat : n \in T => n + 1 \in T
  PROVE  \A n \in Nat : n \in T
<1>1. SUFFICES ASSUME Nat \ T # {} PROVE FALSE
  OBVIOUS
<1>2. PICK m \in Nat \ T : \A k \in Nat \ T : m <= k
  BY <1>1, LeastNatural
<1>3. m # 0 /\ m - 1 \in Nat
  BY <1>2
<1>4. m - 1 \in T
  BY <1>2, <1>3
<1>5. (m - 1) + 1 = m
  BY <1>2
<1>6. QED
  BY <1>2, <1>3, <1>4, <1>5

\* A set with the empty sequence and with each of its elements made longer has
\* all sequences.
LEMMA SequencesByAppend ==
  ASSUME NEW S, NEW T, <<>> \in T, \A s \in Seq(S), e \in S : s \in T => Append(s, e) \in T
  PROVE  \A s \in Seq(S) : s \in T
<1> DEFINE N == {n \in Nat : \A s \in Seq(S) : Len(s) = n => s \in T}
<1>1. 0 \in N
  BY EmptySeq
<1>2. ASSUME NEW n \in Nat, n \in N PROVE n + 1 \in N
  <2>1. SUFFICES ASSUME NEW s \in Seq(S), Len(s) = n + 1 PROVE s \in T
    OBVIOUS
  <2>2. s # <<>>
    BY <2>1, EmptySeq, <1>2
  <2>3. PICK t \in Seq(S), e \in S : s = Append(t, e)
    BY <2>2, SequenceEmptyOrAppend
  <2>4. Len(t) = n
    BY <2>1, <2>3, LenProperties, AppendProperties, <1>2
  <2>5. QED
    BY <1>2, <2>3, <2>4
<1> HIDE DEF N
<1>3. \A n \in Nat : n \in N
  BY <1>1, <1>2, NaturalsBySuccessor
<1>4. QED
  BY <1>3, LenProperties DEF N

----------------------------------------------------------------------------
(* The recursive function behind the fold, over the subsets of 1 .. n. *)

Iterates(g, s, n, par, base) ==
  g = [t \in SUBSET (1 .. n) |->
         IF t = {} THEN base ELSE Op(g[t \ {Max(t)}], s[Max(t)], par)]

LEMMA MaxInSet ==
  ASSUME NEW n \in Nat, NEW t \in SUBSET (1 .. n), t # {}
  PROVE  /\ Max(t) \in t /\ Max(t) \in 1 .. n
         /\ \A i \in t : i <= Max(t)
<1> DEFINE B == {b \in Nat : \A i \in t : i <= b}
<1>1. n \in B
  OBVIOUS
<1>2. PICK b \in B : \A c \in B : b <= c
  BY <1>1, LeastNatural
<1>3. b \in t
  <2>1. SUFFICES ASSUME b \notin t PROVE FALSE
    OBVIOUS
  <2>2. \A i \in t : i <= b - 1
    BY <1>2, <2>1
  <2>3. b - 1 \in B
    <3>1. PICK i \in t : TRUE
      OBVIOUS
    <3>2. i \in Nat /\ i <= b - 1
      BY <2>2, <3>1
    <3>3. QED
      BY <1>2, <2>2, <3>2
  <2>4. QED
    BY <1>2, <2>3
<1>4. \E x \in t : \A y \in t : x >= y
  BY <1>2, <1>3
<1>5. Max(t) \in t /\ \A y \in t : Max(t) >= y
  BY <1>4 DEF Max
<1>6. QED
  BY <1>5

LEMMA IteratesExists ==
  ASSUME NEW s, NEW par, NEW base
  PROVE  \A n \in Nat : \E g : Iterates(g, s, n, par, base)
<1> DEFINE N == {n \in Nat : \E g : Iterates(g, s, n, par, base)}
<1>1. 0 \in N
  <2> DEFINE g == [t \in SUBSET (1 .. 0) |-> base]
  <2>1. Iterates(g, s, 0, par, base)
    BY DEF Iterates
  <2>2. QED
    BY <2>1
<1>2. ASSUME NEW n \in Nat, n \in N PROVE n + 1 \in N
  <2>0. n + 1 \in Nat
    OBVIOUS
  <2>1. PICK g : Iterates(g, s, n, par, base)
    BY <1>2
  <2> DEFINE h == [t \in SUBSET (1 .. n + 1) |->
                     IF t = {} THEN base
                     ELSE IF n + 1 \in t THEN Op(g[t \ {n + 1}], s[n + 1], par) ELSE g[t]]
  <2>2. \A t \in SUBSET (1 .. n) : t \in SUBSET (1 .. n + 1) /\ n + 1 \notin t
    OBVIOUS
  <2>3. g[{}] = base
    BY <2>1 DEF Iterates
  <2>4. \A t \in SUBSET (1 .. n) : h[t] = g[t]
    BY <2>2, <2>3
  <2>5. ASSUME NEW t \in SUBSET (1 .. n + 1), t # {}
        PROVE  h[t] = Op(h[t \ {Max(t)}], s[Max(t)], par)
    <3>1. Max(t) \in t /\ Max(t) \in 1 .. n + 1 /\ \A i \in t : i <= Max(t)
      BY <2>5, <2>0, MaxInSet
    <3>2. CASE n + 1 \in t
      <4>1. Max(t) = n + 1
        BY <3>1, <3>2
      <4>2. t \ {Max(t)} \in SUBSET (1 .. n)
        BY <4>1
      <4>3. QED
        BY <2>4, <2>5, <3>2, <4>1, <4>2
    <3>3. CASE n + 1 \notin t
      <4>0. \A i \in t : i \in 1 .. n
        BY <3>3, <1>2
      <4>1. t \in SUBSET (1 .. n) /\ t \ {Max(t)} \in SUBSET (1 .. n)
        BY <4>0
      <4>2. g[t] = Op(g[t \ {Max(t)}], s[Max(t)], par)
        BY <2>1, <2>5, <4>1 DEF Iterates
      <4>3. QED
        BY <2>4, <4>1, <4>2
    <3>4. QED
      BY <3>2, <3>3
  <2>6. h[{}] = base
    OBVIOUS
  <2>7. h = [t \in SUBSET (1 .. n + 1) |->
               IF t = {} THEN base ELSE Op(h[t \ {Max(t)}], s[Max(t)], par)]
    <3>1. DOMAIN h = SUBSET (1 .. n + 1)
      OBVIOUS
    <3>2. h = [t \in SUBSET (1 .. n + 1) |-> h[t]]
      BY Zenon
    <3> HIDE DEF h
    <3>3. QED
      BY <2>5, <2>6, <3>2
  <2> HIDE DEF h
  <2>8. Iterates(h, s, n + 1, par, base)
    BY <2>7 DEF Iterates
  <2>9. QED
    BY <2>8
<1> HIDE DEF N
<1>3. \A n \in Nat : n \in N
  BY <1>1, <1>2, NaturalsBySuccessor
<1>4. QED
  BY <1>3 DEF N

LEMMA IteratesAgree ==
  ASSUME NEW par, NEW base, NEW n \in Nat, NEW m \in Nat, n <= m, NEW s, NEW z, NEW g, NEW h,
         Iterates(g, s, n, par, base), Iterates(h, z, m, par, base), \A i \in 1 .. n : s[i] = z[i]
  PROVE  g[1 .. n] = h[1 .. n]
<1> DEFINE N == {k \in Nat : k <= n => \A t \in SUBSET (1 .. k) : g[t] = h[t]}
<1>1. 0 \in N
  <2>1. \A t \in SUBSET (1 .. 0) : t = {}
    OBVIOUS
  <2>2. g[{}] = base /\ h[{}] = base
    BY DEF Iterates
  <2>3. QED
    BY <2>1, <2>2
<1>2. ASSUME NEW k \in Nat, k \in N PROVE k + 1 \in N
  <2>0. k + 1 \in Nat
    OBVIOUS
  <2>1. SUFFICES ASSUME k + 1 <= n, NEW t \in SUBSET (1 .. k + 1) PROVE g[t] = h[t]
    OBVIOUS
  <2>2. CASE t = {}
    BY <2>2 DEF Iterates
  <2>3. CASE t # {}
    <3>1. Max(t) \in t /\ Max(t) \in 1 .. k + 1 /\ \A i \in t : i <= Max(t)
      BY <2>0, <2>3, MaxInSet
    <3>2. t \ {Max(t)} \in SUBSET (1 .. k)
      <4>1. \A i \in t : i <= k + 1 /\ i \in Nat /\ i >= 1
        OBVIOUS
      <4>2. \A i \in t \ {Max(t)} : i <= k
        BY <3>1, <4>1
      <4>3. \A i \in t \ {Max(t)} : i \in 1 .. k
        BY <4>1, <4>2, <1>2
      <4>4. QED
        BY <4>3
    <3>3. g[t \ {Max(t)}] = h[t \ {Max(t)}]
      BY <1>2, <2>1, <3>2
    <3>4. s[Max(t)] = z[Max(t)]
      <4>1. Max(t) \in 1 .. n
        BY <2>1, <3>1
      <4>2. QED
        BY <4>1
    <3>5. t \in SUBSET (1 .. n) /\ t \in SUBSET (1 .. m)
      BY <2>1
    <3>6. g[t] = Op(g[t \ {Max(t)}], s[Max(t)], par) /\ h[t] = Op(h[t \ {Max(t)}], z[Max(t)], par)
      BY <2>3, <3>5 DEF Iterates
    <3>7. QED
      BY <3>3, <3>4, <3>6
  <2>4. QED
    BY <2>2, <2>3
<1> HIDE DEF N
<1>3. n \in N
  BY <1>1, <1>2, NaturalsBySuccessor
<1>4. QED
  BY <1>3 DEF N

LEMMA FoldedIterates ==
  ASSUME NEW S, NEW s \in Seq(S), NEW par, NEW base
  PROVE  \E g : /\ Iterates(g, s, Len(s), par, base)
                /\ Folded(s, par, base) = g[1 .. Len(s)]
<1> DEFINE g == CHOOSE g : Iterates(g, s, Len(s), par, base)
<1>1. DOMAIN s = 1 .. Len(s) /\ Len(s) \in Nat
  BY LenProperties
<1>2. Iterates(g, s, Len(s), par, base)
  BY <1>1, IteratesExists
<1>3. Folded(s, par, base) = g[DOMAIN s]
  BY <1>1 DEF Folded, FoldLeft, MapThenFoldSet, Iterates
<1>4. QED
  BY <1>1, <1>2, <1>3

----------------------------------------------------------------------------
(* The fold. *)

THEOREM FoldedEmpty ==
  ASSUME NEW par, NEW base
  PROVE  Folded(<<>>, par, base) = base
<1>1. <<>> \in Seq({}) /\ Len(<<>>) = 0
  BY EmptySeq
<1>2. PICK g : Iterates(g, <<>>, 0, par, base) /\ Folded(<<>>, par, base) = g[1 .. 0]
  BY <1>1, FoldedIterates
<1>3. g[{}] = base
  BY <1>2 DEF Iterates
<1>4. QED
  BY <1>2, <1>3

THEOREM FoldedAppend ==
  ASSUME NEW S, NEW s \in Seq(S), NEW e \in S, NEW par, NEW base
  PROVE  Folded(Append(s, e), par, base) = Op(Folded(s, par, base), e, par)
<1> DEFINE z == Append(s, e)
           n == Len(s)
<1>1. n \in Nat /\ z \in Seq(S) /\ Len(z) = n + 1 /\ z[n + 1] = e /\ \A i \in 1 .. n : z[i] = s[i]
  BY LenProperties, AppendProperties
<1>2. PICK g : Iterates(g, s, n, par, base) /\ Folded(s, par, base) = g[1 .. n]
  BY FoldedIterates
<1>3. PICK h : Iterates(h, z, n + 1, par, base) /\ Folded(z, par, base) = h[1 .. n + 1]
  BY <1>1, FoldedIterates
<1> HIDE DEF z, n
<1>4. g[1 .. n] = h[1 .. n]
  BY <1>1, <1>2, <1>3, IteratesAgree
<1>5. Max(1 .. n + 1) = n + 1
  <2>1. 1 .. n + 1 # {} /\ n + 1 \in 1 .. n + 1 /\ n + 1 \in Nat
    BY <1>1
  <2>2. QED
    <3>1. Max(1 .. n + 1) \in 1 .. n + 1 /\ \A i \in 1 .. n + 1 : i <= Max(1 .. n + 1)
      BY <2>1, MaxInSet
    <3>2. QED
      BY <2>1, <3>1
<1>6. (1 .. n + 1) \ {n + 1} = 1 .. n
  BY <1>1
<1>7. h[1 .. n + 1] = Op(h[1 .. n], z[n + 1], par)
  <2>1. 1 .. n + 1 \in SUBSET (1 .. n + 1) /\ 1 .. n + 1 # {}
    BY <1>1
  <2>2. h[1 .. n + 1] = Op(h[(1 .. n + 1) \ {Max(1 .. n + 1)}], z[Max(1 .. n + 1)], par)
    BY <1>3, <2>1 DEF Iterates
  <2>3. QED
    BY <1>5, <1>6, <2>2
<1>8. QED
  BY <1>1, <1>2, <1>3, <1>4, <1>7 DEF z
=============================================================================
