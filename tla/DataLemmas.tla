------------------------------ MODULE DataLemmas ------------------------------
(***************************************************************************)
(* Facts about numbers and sequences that the proofs about parsers need.   *)
(* What a recursive definition computes is proved of the least number for   *)
(* which it would fail.                                                     *)
(***************************************************************************)
EXTENDS Integers, SequencesExt, SequenceTheorems, WellFoundedInduction, TLAPS

\* A set of numbers that is not empty has a least member.
LEMMA LeastNumber ==
  ASSUME NEW D \in SUBSET Nat, D # {}
  PROVE  \E k \in D : \A i \in D : k <= i
<1> DEFINE R == {p \in Nat \X Nat : p[1] < p[2]}
<1>1. IsWellFoundedOn(R, Nat)
  BY NatLessThanWellFounded DEF OpToRel
<1>2. PICK k \in D : \A i \in D : ~(<<i, k>> \in R)
  <2> HIDE DEF R
  <2> QED BY <1>1, WFMin
<1>3. \A i \in D : ~(i < k)
  BY <1>2
<1> QED BY <1>3

\* Min of such a set is that member.
LEMMA MinIsLeast ==
  ASSUME NEW D \in SUBSET Nat, D # {}
  PROVE  Min(D) \in D /\ \A i \in D : Min(D) <= i
BY LeastNumber DEF Min

\* Induction: a set that contains a number, and the successor of every number it
\* contains, contains all the numbers that follow, here up to a bound.
LEMMA Induction ==
  ASSUME NEW a \in Nat, NEW b \in Nat, NEW Good,
         a \in Good,
         \A n \in a .. b : n \in Good /\ n < b => n + 1 \in Good
  PROVE  \A n \in a .. b : n \in Good
<1> DEFINE Bad == {n \in a .. b : n \notin Good}
<1> SUFFICES ASSUME Bad # {}
             PROVE  FALSE
  OBVIOUS
<1>1. PICK n \in Bad : \A k \in Bad : n <= k
  <2>1. Bad \in SUBSET Nat
    OBVIOUS
  <2> HIDE DEF Bad
  <2> QED BY <2>1, LeastNumber
<1>2. n # a /\ n - 1 \in a .. b /\ n - 1 < b
  BY <1>1
<1>3. n - 1 \in Good
  BY <1>1, <1>2
<1> QED BY <1>1, <1>2, <1>3

\* A function on the first numbers is a sequence.
LEMMA FunctionIsSeq ==
  ASSUME NEW n \in Nat, NEW T, NEW f \in [1 .. n -> T]
  PROVE  f \in Seq(T) /\ Len(f) = n
<1>1. f \in Seq(T)
  BY SeqDef
<1> QED BY <1>1, LenProperties

\* The first elements of a sequence.
LEMMA FirstOf ==
  ASSUME NEW T, NEW s \in Seq(T), NEW n \in Nat, n <= Len(s)
  PROVE  /\ SubSeq(s, 1, n) \in Seq(T) /\ Len(SubSeq(s, 1, n)) = n
         /\ \A k \in 1 .. n : SubSeq(s, 1, n)[k] = s[k]
<1>1. \A i \in 1 .. n : s[i] \in T
  <2>1. \A i \in 1 .. n : i \in 1 .. Len(s)
    OBVIOUS
  <2> QED BY <2>1, ElementOfSeq
<1> DEFINE r == SubSeq(s, 1, n)
<1>2. /\ r \in Seq(T) /\ Len(r) = IF 1 <= n THEN n - 1 + 1 ELSE 0
      /\ \A i \in 1 .. n - 1 + 1 : r[i] = s[1 + i - 1]
  BY <1>1, SubSeqProperties
<1> HIDE DEF r
<1>3. Len(r) = n
  BY <1>2
<1>4. \A k \in 1 .. n : k \in 1 .. n - 1 + 1 /\ 1 + k - 1 = k
  OBVIOUS
<1>5. \A k \in 1 .. n : r[k] = s[k]
  BY <1>2, <1>4
<1> QED BY <1>2, <1>3, <1>5 DEF r

\* What follows them.
LEMMA TailOf ==
  ASSUME NEW T, NEW s \in Seq(T), NEW n \in Nat
  PROVE  /\ SubSeq(s, n + 1, Len(s)) \in Seq(T)
         /\ Len(SubSeq(s, n + 1, Len(s))) = IF n < Len(s) THEN Len(s) - n ELSE 0
         /\ \A i \in 1 .. Len(SubSeq(s, n + 1, Len(s))) : SubSeq(s, n + 1, Len(s))[i] = s[n + i]
<1>1. \A i \in n + 1 .. Len(s) : s[i] \in T
  BY ElementOfSeq
<1>2. Len(s) \in Nat /\ n + 1 \in Int /\ Len(s) \in Int
  OBVIOUS
<1> DEFINE r == SubSeq(s, n + 1, Len(s))
<1>3. /\ r \in Seq(T)
      /\ Len(r) = IF n + 1 <= Len(s) THEN Len(s) - (n + 1) + 1 ELSE 0
      /\ \A i \in 1 .. Len(s) - (n + 1) + 1 : r[i] = s[(n + 1) + i - 1]
  BY <1>1, <1>2, SubSeqProperties
<1> HIDE DEF r
<1>4. Len(r) = IF n < Len(s) THEN Len(s) - n ELSE 0
  BY <1>2, <1>3
<1>5. ASSUME NEW i \in 1 .. Len(r)
      PROVE  r[i] = s[n + i]
  <2>1. i \in 1 .. Len(s) - (n + 1) + 1 /\ (n + 1) + i - 1 = n + i
    BY <1>2, <1>4
  <2>2. r[i] = s[(n + 1) + i - 1]
    BY <2>1, <1>3
  <2> QED BY <2>1, <2>2
<1> QED BY <1>3, <1>4, <1>5 DEF r

\* A prefix, position by position.
LEMMA PrefixOf ==
  ASSUME NEW T, NEW s \in Seq(T), NEW t \in Seq(T)
  PROVE  IsPrefix(s, t) <=> Len(s) <= Len(t) /\ \A k \in 1 .. Len(s) : s[k] = t[k]
<1>1. Len(s) \in Nat /\ Len(t) \in Nat
  OBVIOUS
<1>2. /\ SubSeq(s, 1, Len(s)) \in Seq(T) /\ Len(SubSeq(s, 1, Len(s))) = Len(s)
      /\ \A k \in 1 .. Len(s) : SubSeq(s, 1, Len(s))[k] = s[k]
  BY <1>1, FirstOf
<1>3. ASSUME Len(s) <= Len(t)
      PROVE  /\ SubSeq(t, 1, Len(s)) \in Seq(T) /\ Len(SubSeq(t, 1, Len(s))) = Len(s)
             /\ \A k \in 1 .. Len(s) : SubSeq(t, 1, Len(s))[k] = t[k]
  BY <1>1, <1>3, FirstOf
<1> DEFINE u == SubSeq(s, 1, Len(s))
           v == SubSeq(t, 1, Len(s))
<1>4. ASSUME Len(s) <= Len(t), \A k \in 1 .. Len(s) : s[k] = t[k]
      PROVE  u = v
  <2>1. u \in Seq(T) /\ v \in Seq(T) /\ Len(u) = Len(v) /\ \A k \in 1 .. Len(u) : u[k] = v[k]
    BY <1>2, <1>3, <1>4
  <2> HIDE DEF u, v
  <2> QED BY <2>1, SeqEqual
<1>5. ASSUME Len(s) <= Len(t), u = v
      PROVE  \A k \in 1 .. Len(s) : s[k] = t[k]
  BY <1>2, <1>3, <1>5
<1> QED BY <1>4, <1>5 DEF IsPrefix

-------------------------------------------------------------------------------
(* FlattenSeq *)

\* FlattenSeq is the last value of a function that joins one sequence more at
\* every number.
LEMMA FlattenUnrolls ==
  ASSUME NEW s, Len(s) \in Nat \ {0}
  PROVE  \E f : /\ f = [i \in 1 .. Len(s) |-> IF i = 1 THEN s[i] ELSE f[i - 1] \o s[i]]
                /\ FlattenSeq(s) = f[Len(s)]
<1> DEFINE Flat(n, f) == f = [i \in 1 .. n |-> IF i = 1 THEN s[i] ELSE f[i - 1] \o s[i]]
<1>1. Flat(0, <<>>)
  BY DEF Flat
<1>2. ASSUME NEW n \in Nat, NEW f, Flat(n, f)
      PROVE  \E g : Flat(n + 1, g)
  <2> DEFINE g == [i \in 1 .. n + 1 |-> IF i <= n THEN f[i] ELSE IF i = 1 THEN s[i] ELSE f[i - 1] \o s[i]]
  <2>0. n + 1 \in Nat
    OBVIOUS
  <2>1. /\ g = [i \in 1 .. n + 1 |-> g[i]]
        /\ \A i \in 1 .. n + 1 : i <= n => g[i] = f[i]
        /\ \A i \in 1 .. n + 1 : ~(i <= n) => g[i] = IF i = 1 THEN s[i] ELSE f[i - 1] \o s[i]
    OBVIOUS
  <2> HIDE DEF g
  <2>2. \A i \in 1 .. n : f[i] = IF i = 1 THEN s[i] ELSE f[i - 1] \o s[i]
    BY <1>2
  <2>3. \A i \in 1 .. n + 1 : g[i] = IF i = 1 THEN s[i] ELSE g[i - 1] \o s[i]
    <3> TAKE i \in 1 .. n + 1
    <3>1. g[i] = IF i = 1 THEN s[i] ELSE f[i - 1] \o s[i]
      <4>1. CASE i <= n
        <5>1. i \in 1 .. n
          BY <4>1
        <5>2. g[i] = f[i]
          BY <4>1, <2>1
        <5>3. f[i] = IF i = 1 THEN s[i] ELSE f[i - 1] \o s[i]
          BY <5>1, <2>2, Zenon
        <5> QED BY <5>2, <5>3, Zenon
      <4>2. CASE ~(i <= n)
        BY <4>2, <2>1
      <4> QED BY <4>1, <4>2
    <3>2. i # 1 => g[i - 1] = f[i - 1]
      <4>1. i # 1 => i - 1 \in 1 .. n + 1 /\ i - 1 <= n
        OBVIOUS
      <4> QED BY <4>1, <2>1
    <3> QED BY <3>1, <3>2
  <2>4. g = [i \in 1 .. n + 1 |-> IF i = 1 THEN s[i] ELSE g[i - 1] \o s[i]]
    BY <2>1, <2>3
  <2> QED BY <2>4
<1>3. \A n \in 0 .. Len(s) : \E f : Flat(n, f)
  <2> DEFINE Good == {n \in Nat : \E f : Flat(n, f)}
  <2> HIDE DEF Flat
  <2>1. 0 \in Good
    BY <1>1
  <2>2. \A n \in 0 .. Len(s) : n \in Good /\ n < Len(s) => n + 1 \in Good
    BY <1>2
  <2>3. \A n \in 0 .. Len(s) : n \in Good
    <3> HIDE DEF Good
    <3> QED BY <2>1, <2>2, Induction
  <2> QED BY <2>3
<1>4. \E f : Flat(Len(s), f)
  <2>1. Len(s) \in 0 .. Len(s)
    OBVIOUS
  <2> HIDE DEF Flat
  <2> QED BY <1>3, <2>1
<1>5. PICK f : f = CHOOSE g : Flat(Len(s), g)
  OBVIOUS
<1>6. Flat(Len(s), f)
  BY <1>4, <1>5
<1>7. FlattenSeq(s) = f[Len(s)]
  BY <1>5 DEF FlattenSeq, Flat
<1> QED BY <1>6, <1>7

\* A sequence of sequences over a set flattens to a sequence over it.
LEMMA FlattenType ==
  ASSUME NEW T, NEW s \in Seq(Seq(T))
  PROVE  FlattenSeq(s) \in Seq(T)
<1>1. CASE Len(s) = 0
  <2>1. s = <<>> /\ <<>> \in Seq(T)
    BY <1>1, EmptySeq
  <2>2. FlattenSeq(s) = s
    BY <1>1 DEF FlattenSeq
  <2> QED BY <2>1, <2>2, Zenon
<1>2. CASE Len(s) # 0
  <2>1. Len(s) \in Nat \ {0}
    BY <1>2
  <2>2. PICK f : /\ f = [i \in 1 .. Len(s) |-> IF i = 1 THEN s[i] ELSE f[i - 1] \o s[i]]
                 /\ FlattenSeq(s) = f[Len(s)]
    BY <2>1, FlattenUnrolls
  <2>3. \A n \in 1 .. Len(s) : f[n] = IF n = 1 THEN s[n] ELSE f[n - 1] \o s[n]
    BY <2>2
  <2>4. \A n \in 1 .. Len(s) : s[n] \in Seq(T)
    OBVIOUS
  <2> DEFINE Good == {n \in 1 .. Len(s) : f[n] \in Seq(T)}
  <2>5. f[1] \in Seq(T)
    <3>1. 1 \in 1 .. Len(s)
      BY <2>1
    <3>2. f[1] = s[1]
      BY <2>3, <3>1
    <3> QED BY <2>4, <3>1, <3>2
  <2>6. ASSUME NEW n \in 1 .. Len(s), n \in Good, n < Len(s)
        PROVE  n + 1 \in Good
    <3>1. n + 1 \in 1 .. Len(s) /\ n + 1 # 1 /\ (n + 1) - 1 = n
      BY <2>6
    <3>2. f[n + 1] = f[n] \o s[n + 1]
      BY <3>1, <2>3
    <3>3. f[n] \in Seq(T) /\ s[n + 1] \in Seq(T)
      BY <2>4, <2>6, <3>1
    <3>4. f[n + 1] \in Seq(T)
      BY <3>2, <3>3, ConcatProperties
    <3> QED BY <3>1, <3>4
  <2>7. 1 \in Good
    BY <2>1, <2>5
  <2>8. \A n \in 1 .. Len(s) : n \in Good
    <3> HIDE DEF Good
    <3> QED BY <2>1, <2>6, <2>7, Induction
  <2>9. Len(s) \in Good
    <3>1. Len(s) \in 1 .. Len(s)
      BY <2>1
    <3> HIDE DEF Good
    <3> QED BY <2>8, <3>1
  <2> QED BY <2>2, <2>9
<1> QED BY <1>1, <1>2

\* Two sequences joined.
LEMMA Join ==
  ASSUME NEW T, NEW s \in Seq(T), NEW t \in Seq(T)
  PROVE  /\ s \o t \in Seq(T)
         /\ Len(s \o t) = Len(s) + Len(t)
         /\ \A p \in 1 .. Len(s) : (s \o t)[p] = s[p]
         /\ \A k \in 1 .. Len(t) : (s \o t)[Len(s) + k] = t[k]
<1>1. Len(s) \in Nat /\ Len(t) \in Nat
  OBVIOUS
<1>2. \A i \in 1 .. Len(s) + Len(t) : (s \o t)[i] = IF i <= Len(s) THEN s[i] ELSE t[i - Len(s)]
  BY ConcatProperties
<1>3. ASSUME NEW k \in 1 .. Len(t)
      PROVE  (s \o t)[Len(s) + k] = t[k]
  <2>1. /\ Len(s) + k \in 1 .. Len(s) + Len(t)
        /\ ~(Len(s) + k <= Len(s)) /\ (Len(s) + k) - Len(s) = k
    BY <1>1
  <2>2. (s \o t)[Len(s) + k] = t[(Len(s) + k) - Len(s)]
    BY <2>1, <1>2
  <2> QED BY <2>1, <2>2
<1>4. ASSUME NEW p \in 1 .. Len(s)
      PROVE  (s \o t)[p] = s[p]
  BY <1>1, <1>2
<1> QED BY <1>3, <1>4, ConcatProperties

\* Where the parts are: part i of the sequence s stands at the positions after
\* P[i - 1] and up to P[i] of the flattened sequence, and nothing else does.
Parts(s, t, P) ==
  /\ P \in [0 .. Len(s) -> Nat]
  /\ P[0] = 0 /\ P[Len(s)] = Len(t)
  /\ \A i \in 1 .. Len(s) : P[i] = P[i - 1] + Len(s[i])
  /\ \A i \in 1 .. Len(s) : \A k \in 1 .. Len(s[i]) :
       P[i - 1] + k \in 1 .. Len(t) /\ t[P[i - 1] + k] = s[i][k]
  /\ \A p \in 1 .. Len(t) : \E i \in 1 .. Len(s) : \E k \in 1 .. Len(s[i]) : p = P[i - 1] + k

\* Where the parts of a flattened sequence begin.
LEMMA FlattenParts ==
  ASSUME NEW T, NEW s \in Seq(Seq(T))
  PROVE  \E P : Parts(s, FlattenSeq(s), P)
<1>1. CASE Len(s) = 0
  <2>1. FlattenSeq(s) = <<>>
    BY <1>1 DEF FlattenSeq
  <2>2. Parts(s, <<>>, [i \in 0 .. 0 |-> 0])
    BY <1>1 DEF Parts
  <2> QED BY <2>1, <2>2
<1>2. CASE Len(s) # 0
  <2> DEFINE N == Len(s)
  <2>1. N \in Nat \ {0}
    BY <1>2
  <2>2. PICK f : /\ f = [i \in 1 .. N |-> IF i = 1 THEN s[i] ELSE f[i - 1] \o s[i]]
                 /\ FlattenSeq(s) = f[N]
    BY <2>1, FlattenUnrolls
  <2>3. \A n \in 1 .. N : s[n] \in Seq(T)
    OBVIOUS
  <2>4. f[1] = s[1]
    BY <2>1, <2>2
  <2>5. ASSUME NEW n \in 1 .. N, n < N
        PROVE  f[n + 1] = f[n] \o s[n + 1]
    <3>1. n + 1 \in 1 .. N /\ n + 1 # 1 /\ (n + 1) - 1 = n
      BY <2>5
    <3> QED BY <2>2, <3>1
  <2> DEFINE P == [i \in 0 .. N |-> IF i = 0 THEN 0 ELSE Len(f[i])]
             Joined(n) ==
               /\ f[n] \in Seq(T)
               /\ \A i \in 1 .. n : P[i] = P[i - 1] + Len(s[i])
               /\ \A i \in 1 .. n : \A k \in 1 .. Len(s[i]) :
                    P[i - 1] + k \in 1 .. Len(f[n]) /\ f[n][P[i - 1] + k] = s[i][k]
               /\ \A p \in 1 .. Len(f[n]) :
                    \E i \in 1 .. n : \E k \in 1 .. Len(s[i]) : p = P[i - 1] + k
             Good == {n \in 1 .. N : Joined(n)}
  <2>6. P[0] = 0 /\ \A n \in 1 .. N : P[n] = Len(f[n])
    BY <2>1
  <2>7. Joined(1)
    <3>1. s[1] \in Seq(T) /\ Len(s[1]) \in Nat /\ P[1] = Len(s[1])
      BY <2>1, <2>3, <2>4, <2>6
    <3> HIDE DEF P
    <3> QED BY <2>4, <2>6, <3>1
  <2>8. ASSUME NEW n \in 1 .. N, n < N, Joined(n)
        PROVE  Joined(n + 1)
    <3> DEFINE a == Len(f[n])
               b == Len(s[n + 1])
    <3>1. n + 1 \in 1 .. N /\ (n + 1) - 1 = n
      BY <2>8
    <3>2. f[n] \in Seq(T) /\ s[n + 1] \in Seq(T) /\ a \in Nat /\ b \in Nat
      <4>1. s[n + 1] \in Seq(T)
        BY <2>3, <3>1
      <4> QED BY <2>8, <4>1
    <3>3. /\ f[n + 1] \in Seq(T)
          /\ Len(f[n + 1]) = a + b
          /\ \A p \in 1 .. a : f[n + 1][p] = f[n][p]
          /\ \A k \in 1 .. b : f[n + 1][a + k] = s[n + 1][k]
      <4>1. f[n + 1] = f[n] \o s[n + 1]
        BY <2>5, <2>8
      <4>2. PICK u \in Seq(T) : u = f[n]
        BY <3>2
      <4>3. PICK v \in Seq(T) : v = s[n + 1]
        BY <3>2
      <4>4. /\ u \o v \in Seq(T)
            /\ Len(u \o v) = Len(u) + Len(v)
            /\ \A p \in 1 .. Len(u) : (u \o v)[p] = u[p]
            /\ \A k \in 1 .. Len(v) : (u \o v)[Len(u) + k] = v[k]
        BY Join
      <4> QED BY <4>1, <4>2, <4>3, <4>4, Zenon
    <3>4. P[n] = a /\ P[n + 1] = a + b
      BY <2>6, <3>1, <3>3
    <3>5. /\ \A i \in 1 .. n : P[i] = P[i - 1] + Len(s[i])
          /\ \A i \in 1 .. n : \A k \in 1 .. Len(s[i]) :
               P[i - 1] + k \in 1 .. a /\ f[n][P[i - 1] + k] = s[i][k]
          /\ \A p \in 1 .. a : \E i \in 1 .. n : \E k \in 1 .. Len(s[i]) : p = P[i - 1] + k
      BY <2>8
    <3>6. \A i \in 1 .. n + 1 : i \in 1 .. n \/ i = n + 1
      OBVIOUS
    <3>7. \A i \in 1 .. n : i \in 1 .. n + 1
      OBVIOUS
    <3> HIDE DEF P, a, b
    <3>8. ASSUME NEW i \in 1 .. n + 1
          PROVE  P[i] = P[i - 1] + Len(s[i])
      <4>1. CASE i = n + 1
        BY <4>1, <3>1, <3>4 DEF b
      <4> QED BY <4>1, <3>5, <3>6
    <3>9. ASSUME NEW i \in 1 .. n + 1, NEW k \in 1 .. Len(s[i])
          PROVE  P[i - 1] + k \in 1 .. Len(f[n + 1]) /\ f[n + 1][P[i - 1] + k] = s[i][k]
      <4>1. CASE i = n + 1
        <5>1. P[i - 1] = a /\ k \in 1 .. b
          BY <4>1, <3>1, <3>4 DEF b
        <5>2. a + k \in 1 .. a + b /\ f[n + 1][a + k] = s[n + 1][k]
          BY <5>1, <3>2, <3>3
        <5> QED BY <5>1, <5>2, <4>1, <3>3
      <4>2. CASE i \in 1 .. n
        <5>1. P[i - 1] + k \in 1 .. a /\ f[n][P[i - 1] + k] = s[i][k]
          BY <4>2, <3>5
        <5>2. f[n + 1][P[i - 1] + k] = f[n][P[i - 1] + k]
          BY <5>1, <3>3
        <5>3. P[i - 1] + k \in 1 .. a + b
          BY <5>1, <3>2
        <5> QED BY <5>1, <5>2, <5>3, <3>3
      <4> QED BY <4>1, <4>2, <3>6
    <3>10. ASSUME NEW p \in 1 .. Len(f[n + 1])
           PROVE  \E i \in 1 .. n + 1 : \E k \in 1 .. Len(s[i]) : p = P[i - 1] + k
      <4>1. CASE p \in 1 .. a
        BY <4>1, <3>5, <3>7
      <4>2. CASE p \notin 1 .. a
        <5>1. p - a \in 1 .. b /\ p = a + (p - a)
          BY <4>2, <3>2, <3>3
        <5>2. n + 1 \in 1 .. n + 1 /\ p = P[(n + 1) - 1] + (p - a)
          BY <3>1, <3>4, <5>1
        <5>3. p - a \in 1 .. Len(s[n + 1])
          BY <5>1 DEF b
        <5> QED BY <5>2, <5>3
      <4> QED BY <4>1, <4>2
    <3> QED BY <3>3, <3>8, <3>9, <3>10, Zenon
  <2>9. \A n \in 1 .. N : n \in Good
    <3>1. 1 \in Good
      BY <2>1, <2>7
    <3>2. ASSUME NEW n \in 1 .. N, n \in Good, n < N
          PROVE  n + 1 \in Good
      <4>1. Joined(n)
        BY <3>2
      <4>2. n + 1 \in 1 .. N
        BY <2>1, <3>2
      <4> HIDE DEF Joined
      <4> QED BY <3>2, <4>1, <4>2, <2>8
    <3> HIDE DEF Good
    <3> QED BY <2>1, <3>1, <3>2, Induction
  <2>10. N \in 1 .. N /\ Joined(N)
    <3>1. N \in 1 .. N
      BY <2>1
    <3> HIDE DEF Joined
    <3> QED BY <2>9, <3>1
  <2>11. P \in [0 .. N -> Nat]
    <3>1. \A n \in 1 .. N : Len(f[n]) \in Nat
      <4>1. \A n \in 1 .. N : f[n] \in Seq(T)
        BY <2>9
      <4> QED BY <4>1
    <3> QED BY <3>1
  <2>12. Parts(s, f[N], P)
    <3> HIDE DEF P
    <3> QED BY <2>1, <2>6, <2>10, <2>11 DEF Parts
  <2> QED BY <2>2, <2>12
<1> QED BY <1>1, <1>2

\* A sequence without its first element.
LEMMA DropFirst ==
  ASSUME NEW T, NEW s \in Seq(T), s # <<>>
  PROVE  /\ SubSeq(s, 2, Len(s)) \in Seq(T)
         /\ Len(SubSeq(s, 2, Len(s))) = Len(s) - 1
         /\ \A k \in 1 .. Len(s) - 1 : SubSeq(s, 2, Len(s))[k] = s[k + 1]
<1>1. PICK r : r = SubSeq(s, 2, Len(s))
  OBVIOUS
<1>2. Len(s) \in Nat \ {0}
  BY EmptySeq
<1>3. \A i \in 2 .. Len(s) : s[i] \in T
  <2>1. \A i \in 2 .. Len(s) : i \in 1 .. Len(s)
    BY <1>2
  <2> QED BY <2>1, ElementOfSeq
<1>4. /\ r \in Seq(T)
      /\ Len(r) = IF 2 <= Len(s) THEN Len(s) - 2 + 1 ELSE 0
      /\ \A k \in 1 .. Len(s) - 2 + 1 : r[k] = s[2 + k - 1]
  <2>1. 2 \in Int /\ Len(s) \in Int
    BY <1>2
  <2> QED BY <1>1, <1>3, <2>1, SubSeqProperties
<1>5. Len(r) = Len(s) - 1
  <2>1. CASE 2 <= Len(s)
    BY <1>2, <1>4, <2>1
  <2>2. CASE ~(2 <= Len(s))
    <3>1. PICK n \in Nat : n = Len(s)
      BY <1>2
    <3>2. n = 1
      BY <1>2, <2>2, <3>1
    <3>3. Len(r) = 0
      BY <1>4, <2>2, Zenon
    <3> QED BY <3>1, <3>2, <3>3
  <2> QED BY <2>1, <2>2
<1>6. \A k \in 1 .. Len(s) - 1 : k \in 1 .. Len(s) - 2 + 1 /\ 2 + k - 1 = k + 1
  BY <1>2
<1> QED BY <1>1, <1>4, <1>5, <1>6

\* A sequence taken apart again: what was joined on, and what it was joined to.
LEMMA PartOfJoin ==
  ASSUME NEW T, NEW s \in Seq(T), NEW t \in Seq(T)
  PROVE  /\ SubSeq(s \o t, 1, Len(s)) = s
         /\ SubSeq(s \o t, Len(s) + 1, Len(s \o t)) = t
<1>1. PICK u : u = s \o t
  OBVIOUS
<1>2. /\ u \in Seq(T) /\ Len(u) = Len(s) + Len(t)
      /\ \A p \in 1 .. Len(s) : u[p] = s[p]
      /\ \A k \in 1 .. Len(t) : u[Len(s) + k] = t[k]
  BY <1>1, Join
<1>3. Len(s) \in Nat /\ Len(t) \in Nat
  OBVIOUS
<1>4. SubSeq(u, 1, Len(s)) = s
  <2>1. Len(s) <= Len(u)
    BY <1>2, <1>3
  <2>2. PICK v : v = SubSeq(u, 1, Len(s))
    OBVIOUS
  <2>3. v \in Seq(T) /\ Len(v) = Len(s) /\ \A k \in 1 .. Len(s) : v[k] = u[k]
    BY <1>2, <1>3, <2>1, <2>2, FirstOf
  <2>4. \A k \in 1 .. Len(v) : v[k] = s[k]
    BY <1>2, <2>3
  <2>5. v = s
    BY <2>3, <2>4, SeqEqual
  <2> QED BY <2>2, <2>5
<1>5. SubSeq(u, Len(s) + 1, Len(u)) = t
  <2>1. PICK v : v = SubSeq(u, Len(s) + 1, Len(u))
    OBVIOUS
  <2>2. /\ v \in Seq(T)
        /\ Len(v) = IF Len(s) < Len(u) THEN Len(u) - Len(s) ELSE 0
        /\ \A k \in 1 .. Len(v) : v[k] = u[Len(s) + k]
    <3>1. \A n \in Nat : /\ SubSeq(u, n + 1, Len(u)) \in Seq(T)
                         /\ Len(SubSeq(u, n + 1, Len(u))) = IF n < Len(u) THEN Len(u) - n ELSE 0
                         /\ \A k \in 1 .. Len(SubSeq(u, n + 1, Len(u))) :
                              SubSeq(u, n + 1, Len(u))[k] = u[n + k]
      <4>1. u \in Seq(T)
        BY <1>2
      <4> QED BY <4>1, TailOf, Zenon
    <3> QED BY <1>3, <2>1, <3>1, Zenon
  <2>3. Len(v) = Len(t)
    BY <1>2, <1>3, <2>2
  <2>4. \A k \in 1 .. Len(v) : v[k] = t[k]
    BY <1>2, <2>2, <2>3
  <2>5. v = t
    BY <2>2, <2>3, <2>4, SeqEqual
  <2> QED BY <2>1, <2>5
<1> QED BY <1>1, <1>4, <1>5

\* A part of a sequence, with the next element.
LEMMA PartGrows ==
  ASSUME NEW T, NEW s \in Seq(T), NEW n \in 1 .. Len(s), NEW m \in 1 .. n
  PROVE  /\ SubSeq(s, m, n) = Append(SubSeq(s, m, n - 1), s[n])
         /\ SubSeq(s, m, n) \in Seq(T) /\ SubSeq(s, m, n - 1) \in Seq(T) /\ s[n] \in T
<1>1. s[n] \in T /\ m \in 1 .. Len(s) /\ n \in m .. Len(s)
  BY ElementOfSeq
<1>2. SubSeq(s, m, n) = SubSeq(s, m, n - 1) \o <<s[n]>>
  BY <1>1, SubSeqRecursiveSecond
<1>3. SubSeq(s, m, n) \in Seq(T) /\ SubSeq(s, m, n - 1) \in Seq(T)
  <2>1. (\A i \in m .. n : s[i] \in T) /\ (\A i \in m .. n - 1 : s[i] \in T)
    BY <1>1, ElementOfSeq
  <2> QED BY <1>1, <2>1, SubSeqProperties
<1>4. SubSeq(s, m, n - 1) \o <<s[n]>> = Append(SubSeq(s, m, n - 1), s[n])
  BY <1>1, <1>3, AppendIsConcat
<1> QED BY <1>1, <1>2, <1>3, <1>4

\* Recursion: there is a function that starts with base and goes on with step.
Recurs(f, T, n, base, step) ==
  f \in [0 .. n -> T] /\ f[0] = base /\ \A i \in 1 .. n : f[i] = step[i][f[i - 1]]

\* A function is defined by its base and its steps.
LEMMA Recursion ==
  ASSUME NEW T, NEW n \in Nat, NEW base \in T, NEW step \in [1 .. n -> [T -> T]]
  PROVE  \E f : Recurs(f, T, n, base, step)
<1> DEFINE Steps(m, f) == f[0] = base /\ \A i \in 1 .. m : f[i] = step[i][f[i - 1]]
           Good == {m \in 0 .. n : \E f \in [0 .. m -> T] : Steps(m, f)}
<1>1. 0 \in Good
  <2>1. PICK f : f = [i \in 0 .. 0 |-> base]
    OBVIOUS
  <2>2. f \in [0 .. 0 -> T] /\ f[0] = base
    BY <2>1
  <2>3. Steps(0, f)
    BY <2>2
  <2>4. 0 \in 0 .. n
    OBVIOUS
  <2> HIDE DEF Steps
  <2> QED BY <2>2, <2>3, <2>4
<1>2. ASSUME NEW m \in 0 .. n, m \in Good, m < n
      PROVE  m + 1 \in Good
  <2>1. PICK f \in [0 .. m -> T] : Steps(m, f)
    BY <1>2
  <2> DEFINE g == [i \in 0 .. m + 1 |-> IF i <= m THEN f[i] ELSE step[m + 1][f[m]]]
  <2>2. m + 1 \in 1 .. n /\ m \in 0 .. m /\ f[m] \in T /\ m + 1 \in 0 .. n
    BY <1>2
  <2>3. step[m + 1][f[m]] \in T
    BY <2>2
  <2>4. /\ g \in [0 .. m + 1 -> T]
        /\ \A i \in 0 .. m : g[i] = f[i]
        /\ g[m + 1] = step[m + 1][f[m]]
    <3>1. \A i \in 0 .. m + 1 : i <= m => i \in 0 .. m
      OBVIOUS
    <3>2. g \in [0 .. m + 1 -> T]
      BY <2>3, <3>1
    <3>3. \A i \in 0 .. m : i \in 0 .. m + 1 /\ i <= m
      OBVIOUS
    <3>4. m + 1 \in 0 .. m + 1 /\ ~(m + 1 <= m)
      OBVIOUS
    <3> QED BY <3>2, <3>3, <3>4
  <2> HIDE DEF g
  <2>5. g[0] = base
    BY <2>1, <2>4
  <2>6. ASSUME NEW i \in 1 .. m + 1
        PROVE  g[i] = step[i][g[i - 1]]
    <3>1. CASE i = m + 1
      <4>1. i - 1 = m
        BY <3>1
      <4>2. g[i - 1] = f[m]
        BY <2>2, <2>4, <4>1
      <4> QED BY <2>4, <3>1, <4>2
    <3>2. CASE i # m + 1
      <4>1. i \in 1 .. m /\ i \in 0 .. m /\ i - 1 \in 0 .. m
        BY <3>2
      <4>2. g[i] = f[i] /\ g[i - 1] = f[i - 1]
        BY <2>4, <4>1
      <4> QED BY <2>1, <4>1, <4>2
    <3> QED BY <3>1, <3>2
  <2> QED BY <2>2, <2>4, <2>5, <2>6
<1>3. n \in Good
  <2>1. \A m \in 0 .. n : m \in Good
    <3> HIDE DEF Good
    <3> QED BY <1>1, <1>2, Induction
  <2> QED BY <2>1
<1> QED BY <1>3 DEF Recurs

\* A sequence of sequences, flattened: its first part, and then the others.
LEMMA FlattenFirst ==
  ASSUME NEW T, NEW s \in Seq(Seq(T)), Len(s) # 0
  PROVE  FlattenSeq(s) = s[1] \o FlattenSeq(SubSeq(s, 2, Len(s)))
<1> DEFINE N == Len(s)
           r == SubSeq(s, 2, N)
<1>0. N \in Nat /\ 1 <= N
  OBVIOUS
<1>1. N \in Nat \ {0} /\ \A n \in 1 .. N : s[n] \in Seq(T)
  OBVIOUS
<1>2. PICK f : /\ f = [i \in 1 .. N |-> IF i = 1 THEN s[i] ELSE f[i - 1] \o s[i]]
               /\ FlattenSeq(s) = f[N]
  BY <1>1, FlattenUnrolls
<1>3. f[1] = s[1]
  BY <1>1, <1>2
<1>4. ASSUME NEW n \in 1 .. N, n < N
      PROVE  f[n + 1] = f[n] \o s[n + 1]
  <2>1. n + 1 \in 1 .. N /\ n + 1 # 1 /\ (n + 1) - 1 = n
    BY <1>4
  <2> QED BY <1>2, <2>1
<1>5. /\ r \in Seq(Seq(T)) /\ Len(r) = N - 1
      /\ \A i \in 1 .. N - 1 : r[i] = s[i + 1]
  <2>1. s # <<>>
    BY <1>0
  <2> QED BY <2>1, DropFirst
<1> HIDE DEF r
<1>6. CASE N = 1
  <2>1. FlattenSeq(r) = <<>>
    <3>1. r = <<>>
      BY <1>5, <1>6, EmptySeq
    <3> QED BY <1>5, <1>6, <3>1 DEF FlattenSeq
  <2>2. s[1] \o <<>> = s[1]
    BY <1>1, ConcatEmptySeq
  <2> QED BY <1>2, <1>3, <1>6, <2>1, <2>2 DEF r
<1>7. CASE N # 1
  <2>1. Len(r) \in Nat \ {0} /\ N - 1 \in Nat
    BY <1>1, <1>5, <1>7
  <2>10. /\ 1 \in 1 .. N /\ 1 < N /\ 1 \in 1 .. N - 1 /\ 2 \in 1 .. N /\ 1 + 1 = 2
         /\ N - 1 \in 1 .. N - 1 /\ (N - 1) + 1 = N
    <3> HIDE DEF N
    <3> QED BY <1>0, <1>7
  <2>2. PICK g : /\ g = [i \in 1 .. Len(r) |-> IF i = 1 THEN r[i] ELSE g[i - 1] \o r[i]]
                 /\ FlattenSeq(r) = g[Len(r)]
    BY <2>1, FlattenUnrolls
  <2>3. g[1] = s[2]
    <3>1. 1 \in 1 .. Len(r) /\ 1 \in 1 .. N - 1 /\ 1 + 1 = 2
      BY <2>1, <1>5
    <3>2. g[1] = r[1]
      BY <2>2, <3>1
    <3> QED BY <1>5, <3>1, <3>2
  <2>4. ASSUME NEW n \in 1 .. N - 1, n < N - 1
        PROVE  g[n + 1] = g[n] \o s[(n + 1) + 1]
    <3>1. n + 1 \in 1 .. Len(r) /\ n + 1 \in 1 .. N - 1 /\ n + 1 # 1 /\ (n + 1) - 1 = n
      BY <1>5, <2>1, <2>4
    <3>2. g[n + 1] = g[(n + 1) - 1] \o r[n + 1]
      BY <2>2, <3>1
    <3> QED BY <1>5, <3>1, <3>2
  <2> DEFINE Good == {n \in 1 .. N - 1 : g[n] \in Seq(T) /\ f[n + 1] = s[1] \o g[n]}
  <2>5. 1 \in Good
    <3>1. 1 \in 1 .. N /\ 1 < N /\ 1 \in 1 .. N - 1 /\ 2 \in 1 .. N /\ 1 + 1 = 2
      BY <2>10
    <3>2. f[1 + 1] = f[1] \o s[1 + 1]
      BY <1>4, <3>1
    <3>3. g[1] \in Seq(T)
      BY <1>1, <2>3, <3>1
    <3> QED BY <1>3, <2>3, <3>1, <3>2, <3>3
  <2>6. ASSUME NEW n \in 1 .. N - 1, n \in Good, n < N - 1
        PROVE  n + 1 \in Good
    <3>1. n + 1 \in 1 .. N /\ n + 1 < N /\ n + 1 \in 1 .. N - 1 /\ (n + 1) + 1 \in 1 .. N
      BY <1>1, <2>6
    <3>2. f[(n + 1) + 1] = f[n + 1] \o s[(n + 1) + 1]
      BY <1>4, <3>1
    <3>3. g[n] \in Seq(T) /\ f[n + 1] = s[1] \o g[n]
      BY <2>6
    <3>4. g[n + 1] = g[n] \o s[(n + 1) + 1]
      BY <2>4, <2>6
    <3>5. PICK u \in Seq(T), v \in Seq(T), w \in Seq(T) :
            u = s[1] /\ v = g[n] /\ w = s[(n + 1) + 1]
      <4>1. s[1] \in Seq(T) /\ s[(n + 1) + 1] \in Seq(T)
        <5>1. 1 \in 1 .. N
          BY <1>1
        <5> QED BY <1>1, <3>1, <5>1
      <4> QED BY <3>3, <4>1
    <3>6. (u \o v) \o w = u \o (v \o w) /\ v \o w \in Seq(T)
      <4>1. (u \o v) \o w = u \o (v \o w)
        BY SMTT(30)
      <4>2. v \o w \in Seq(T)
        BY ConcatProperties
      <4> QED BY <4>1, <4>2
    <3>7. f[(n + 1) + 1] = s[1] \o g[n + 1] /\ g[n + 1] \in Seq(T)
      BY <3>2, <3>3, <3>4, <3>5, <3>6, Zenon
    <3> QED BY <3>1, <3>7
  <2>7. N - 1 \in 1 .. N - 1 /\ (N - 1) + 1 = N
    BY <2>10
  <2>8. N - 1 \in Good
    <3>1. \A n \in 1 .. N - 1 : n \in Good
      <4> HIDE DEF Good
      <4> QED BY <2>1, <2>5, <2>6, Induction
    <3> QED BY <2>7, <3>1
  <2>9. f[N] = s[1] \o g[N - 1]
    BY <2>7, <2>8
  <2> QED BY <1>2, <1>5, <2>2, <2>9 DEF r
<1> QED BY <1>6, <1>7

\* Its last part, and what is before that.
LEMMA FlattenLast ==
  ASSUME NEW T, NEW s \in Seq(Seq(T)), Len(s) # 0
  PROVE  \E u \in Seq(T) : FlattenSeq(s) = u \o s[Len(s)]
<1> DEFINE N == Len(s)
<1>1. N \in Nat \ {0} /\ N \in 1 .. N /\ s[N] \in Seq(T) /\ N <= N
  <2>1. N \in Nat \ {0}
    OBVIOUS
  <2>2. N \in 1 .. N
    BY <2>1
  <2> QED BY <2>1, <2>2, ElementOfSeq
<1>2. PICK f : /\ f = [i \in 1 .. N |-> IF i = 1 THEN s[i] ELSE f[i - 1] \o s[i]]
               /\ FlattenSeq(s) = f[N]
  BY <1>1, FlattenUnrolls
<1>3. f[N] = IF N = 1 THEN s[N] ELSE f[N - 1] \o s[N]
  BY <1>1, <1>2
<1>4. CASE N = 1
  <2>1. <<>> \in Seq(T) /\ <<>> \o s[N] = s[N]
    BY <1>1, ConcatEmptySeq, EmptySeq
  <2> QED BY <1>2, <1>3, <1>4, <2>1
<1>5. CASE N # 1
  <2> DEFINE Good == {n \in 1 .. N : f[n] \in Seq(T)}
  <2>1. N - 1 \in 1 .. N /\ 1 \in 1 .. N
    <3> HIDE DEF N
    <3> QED BY <1>1, <1>5
  <2>2. 1 \in Good
    <3>1. f[1] = s[1] /\ s[1] \in Seq(T)
      BY <1>2, <2>1
    <3> QED BY <2>1, <3>1
  <2>3. ASSUME NEW n \in 1 .. N, n \in Good, n < N
        PROVE  n + 1 \in Good
    <3>1. n + 1 \in 1 .. N /\ n + 1 # 1 /\ (n + 1) - 1 = n
      BY <2>3
    <3>2. f[n + 1] = f[n] \o s[n + 1]
      BY <1>2, <3>1
    <3>3. f[n] \in Seq(T) /\ s[n + 1] \in Seq(T)
      BY <2>3, <3>1
    <3>4. f[n] \o s[n + 1] \in Seq(T)
      BY <3>3, ConcatProperties
    <3> QED BY <3>1, <3>2, <3>4
  <2>4. N - 1 \in Good
    <3>1. \A n \in 1 .. N : n \in Good
      <4> HIDE DEF Good
      <4> QED BY <1>1, <2>2, <2>3, Induction
    <3> QED BY <2>1, <3>1
  <2> QED BY <1>2, <1>3, <1>5, <2>4
<1> QED BY <1>4, <1>5
===============================================================================
