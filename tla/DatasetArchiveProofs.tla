------------------------- MODULE DatasetArchiveProofs -------------------------
(***************************************************************************)
(* Lemmas about the operators that archives are read and written with: for *)
(* any sequences, sets and numbers.                                        *)
(*                                                                         *)
(* A fact about a recursive function (Only, Normal, FlattenSeq) is proved  *)
(* with AllNumbers: the positions up to which it holds are a set with 0    *)
(* and the successors of its members.                                      *)
(***************************************************************************)
EXTENDS DatasetArchive, SequenceTheorems, FiniteSetTheorems, WellFoundedInduction, TLAPS

-----------------------------------------------------------------------------
(* Numbers.                                                                 *)

\* A set of numbers with 0 and the successors of its members has them all.
LEMMA AllNumbers ==
  ASSUME NEW S, 0 \in S, \A n \in Nat : n \in S => n + 1 \in S
  PROVE  Nat \subseteq S
<1> DEFINE Less == OpToRel(<, Nat)
           T == Nat \ S
<1> SUFFICES ASSUME T # {} PROVE FALSE
  OBVIOUS
<1>1. PICK x \in T : \A y \in T : ~ (<<y, x>> \in Less)
  <2>1. IsWellFoundedOn(Less, Nat)
    BY NatLessThanWellFounded
  <2>2. T \subseteq Nat
    OBVIOUS
  <2> HIDE DEF T, Less
  <2> QED BY <2>1, <2>2, WFMin
<1>2. \A y \in T : ~ (y < x)
  BY <1>1 DEF OpToRel
<1>3. x \in Nat /\ x # 0 /\ x - 1 \in Nat /\ x - 1 \notin T
  BY <1>2
<1> QED BY <1>3

\* A set of numbers that is not empty has a least one; a bounded one a greatest.
LEMMA Smallest ==
  ASSUME NEW T \in SUBSET Nat, T # {}
  PROVE  \E x \in T : \A y \in T : x <= y
<1> DEFINE Less == OpToRel(<, Nat)
<1>1. PICK x \in T : \A y \in T : ~ (<<y, x>> \in Less)
  <2>1. IsWellFoundedOn(Less, Nat)
    BY NatLessThanWellFounded
  <2> HIDE DEF Less
  <2> QED BY <2>1, WFMin
<1>2. \A y \in T : ~ (y < x)
  BY <1>1 DEF OpToRel
<1> QED BY <1>2

LEMMA Greatest ==
  ASSUME NEW n \in Nat, NEW D \in SUBSET (0..n), D # {}
  PROVE  \E v \in D : \A w \in D : w <= v
<1> DEFINE T == {n - v : v \in D}
<1>1. \A v \in D : v \in 0..n /\ n - v \in Nat
  OBVIOUS
<1>2. T \in SUBSET Nat /\ T # {}
  BY <1>1
<1>3. PICK x \in T : \A y \in T : x <= y
  <2> HIDE DEF T
  <2> QED BY <1>2, Smallest
<1>4. PICK v \in D : x = n - v
  OBVIOUS
<1>5. ASSUME NEW w \in D PROVE w <= v
  <2>1. n - w \in T
    OBVIOUS
  <2>2. n - v <= n - w
    BY <1>3, <1>4, <2>1
  <2>3. v \in 0..n /\ w \in 0..n
    OBVIOUS
  <2> HIDE DEF T
  <2> QED BY <2>2, <2>3
<1> QED BY <1>5

LEMMA GreatestPosition ==
  ASSUME NEW n \in Nat, NEW D \in SUBSET (1..n), D # {}
  PROVE  \E v \in D : \A w \in D : w <= v
<1>1. D \in SUBSET (0..n)
  OBVIOUS
<1> QED BY <1>1, Greatest

\* A finite set of integers that is not empty has a greatest one.
LEMMA Highest ==
  ASSUME NEW S \in SUBSET Int, IsFiniteSet(S), S # {}
  PROVE  \E v \in S : \A w \in S : w <= v
<1>1. PICK n \in Nat : ExistsSurjection(1..n, S)
  BY FS_NatSurjection
<1>2. PICK f : f \in [1..n -> S] /\ \A w \in S : \E i \in 1..n : f[i] = w
  BY <1>1 DEF ExistsSurjection, Surjection
<1> DEFINE Top(m) == \E v \in S : \A i \in 1..m : f[i] <= v
           T == {m \in Nat : m <= n => Top(m)}
<1>3. 0 \in T
  <2>1. PICK v : v \in S
    OBVIOUS
  <2>2. Top(0)
    BY <2>1
  <2> QED BY <2>2
<1>4. ASSUME NEW m \in Nat, m \in T PROVE m + 1 \in T
  <2> SUFFICES ASSUME m + 1 <= n PROVE Top(m + 1)
    OBVIOUS
  <2>1. PICK v \in S : \A i \in 1..m : f[i] <= v
    BY <1>4
  <2>2. f[m + 1] \in S /\ f[m + 1] \in Int /\ v \in Int /\ \A i \in 1..m : f[i] \in Int
    <3>1. \A i \in 1..(m + 1) : i \in 1..n
      OBVIOUS
    <3>2. \A i \in 1..n : f[i] \in S /\ f[i] \in Int
      BY <1>2
    <3> QED BY <3>1, <3>2
  <2>3. \A i \in 1..(m + 1) : i \in 1..m \/ i = m + 1
    OBVIOUS
  <2>4. CASE f[m + 1] <= v
    BY <2>1, <2>3, <2>4
  <2>5. CASE v <= f[m + 1]
    <3>1. \A i \in 1..m : f[i] <= f[m + 1]
      BY <2>1, <2>2, <2>5
    <3> QED BY <2>2, <2>3, <3>1
  <2> QED BY <2>2, <2>4, <2>5
<1>5. n \in T
  <2> HIDE DEF T
  <2> QED BY <1>3, <1>4, AllNumbers
<1> QED BY <1>2, <1>5

-----------------------------------------------------------------------------
(* What Only keeps.                                                         *)

\* The function that Only is defined with exists.
LEMMA OnlyDefined ==
  ASSUME NEW s, Len(s) \in Nat, NEW S
  PROVE  \E f : /\ f = [i \in 0..Len(s) |-> IF i = 0 THEN << >> ELSE IF s[i] \in S
                                             THEN Append(f[i - 1], s[i]) ELSE f[i - 1]]
                /\ Only(s, S) = f[Len(s)]
<1> DEFINE n == Len(s)
           More(f, i) == IF s[i] \in S THEN Append(f[i - 1], s[i]) ELSE f[i - 1]
           Rec(f, m) == f = [i \in 0..m |-> IF i = 0 THEN << >> ELSE More(f, i)]
           T == {m \in Nat : \E f : Rec(f, m)}
<1>1. 0 \in T
  <2> DEFINE g == [i \in 0..0 |-> << >>]
             h == [i \in 0..0 |-> IF i = 0 THEN << >> ELSE More(g, i)]
  <2>1. \A i \in 0..0 : h[i] = << >>
    OBVIOUS
  <2>2. g = h
    <3> HIDE DEF More
    <3> QED BY <2>1
  <2>3. Rec(g, 0)
    <3> HIDE DEF g, More
    <3> QED BY <2>2
  <2> HIDE DEF Rec, g
  <2> QED BY <2>3
<1>2. ASSUME NEW m \in Nat, m \in T PROVE m + 1 \in T
  <2>1. PICK f : Rec(f, m)
    BY <1>2
  <2> DEFINE e == [i \in 0..m |-> IF i = 0 THEN << >> ELSE More(f, i)]
             g == [i \in 0..m+1 |-> IF i = 0 THEN << >> ELSE More(f, i)]
  <2>2. \A i \in 0..m : g[i] = e[i]
    <3> HIDE DEF More
    <3> QED OBVIOUS
  <2>3. f = e
    BY <2>1, Zenon
  <2>4. \A i \in 0..m+1 : i # 0 => i - 1 \in 0..m
    OBVIOUS
  <2>5. \A i \in 0..m+1 : i # 0 => f[i-1] = g[i-1]
    <3> HIDE DEF e, g
    <3> QED BY <2>2, <2>3, <2>4
  <2>6. Rec(g, m + 1)
    <3>1. \A i \in 0..m+1 : (IF i = 0 THEN << >> ELSE More(f, i))
                              = (IF i = 0 THEN << >> ELSE More(g, i))
      <4> HIDE DEF g
      <4> QED BY <2>5, Zenon
    <3> DEFINE h == [i \in 0..m+1 |-> IF i = 0 THEN << >> ELSE More(g, i)]
    <3>2. g = h
      <4> SUFFICES ASSUME NEW i \in 0..m+1 PROVE g[i] = h[i]
        BY Zenon
      <4>1. g[i] = IF i = 0 THEN << >> ELSE More(f, i)
        BY Zenon
      <4>2. h[i] = IF i = 0 THEN << >> ELSE More(g, i)
        BY Zenon
      <4> HIDE DEF g, h
      <4> QED BY <3>1, <4>1, <4>2, Zenon
    <3> HIDE DEF g, More
    <3> QED BY <3>2
  <2> HIDE DEF Rec, g
  <2> QED BY <2>6 DEF T
<1>3. n \in T
  <2> HIDE DEF T
  <2> QED BY <1>1, <1>2, AllNumbers
<1>4. PICK f : f = CHOOSE h : Rec(h, n)
  OBVIOUS
<1>5. Rec(f, n)
  BY <1>3, <1>4
<1>6. Only(s, S) = f[n]
  BY <1>4 DEF Only
<1> QED BY <1>5, <1>6

LEMMA SequenceIs ==
  ASSUME NEW s, IsSequence(s)
  PROVE  /\ Len(s) \in Nat /\ DOMAIN s = 1..Len(s)
         /\ \A x : x \in ToSet(s) <=> \E i \in 1..Len(s) : x = s[i]
<1>1. Len(s) \in Nat /\ DOMAIN s = 1..Len(s)
  BY LenProperties DEF IsSequence
<1> QED BY <1>1 DEF ToSet

LEMMA AppendSet ==
  ASSUME NEW X, NEW t \in Seq(X), NEW x \in X
  PROVE  Append(t, x) \in Seq(X) /\ ToSet(Append(t, x)) = ToSet(t) \cup {x}
<1>1. /\ Append(t, x) \in Seq(X) /\ Len(Append(t, x)) = Len(t) + 1
      /\ \A i \in 1..Len(t) : Append(t, x)[i] = t[i]
      /\ Append(t, x)[Len(t) + 1] = x
  BY AppendProperties
<1>2. Len(t) \in Nat /\ DOMAIN t = 1..Len(t) /\ DOMAIN Append(t, x) = 1..(Len(t) + 1)
  BY <1>1, LenProperties
<1> PICK u : u = Append(t, x)
  OBVIOUS
<1> PICK n : n = Len(t)
  OBVIOUS
<1>3. /\ n \in Nat /\ DOMAIN t = 1..n /\ DOMAIN u = 1..(n + 1) /\ u \in Seq(X)
      /\ \A i \in 1..n : u[i] = t[i]
      /\ u[n + 1] = x
  BY <1>1, <1>2
<1>4. ToSet(u) = ToSet(t) \cup {x}
  <2>1. \A i \in 1..(n + 1) : i \in 1..n \/ i = n + 1
    BY <1>3
  <2>2. n + 1 \in 1..(n + 1) /\ 1..n \subseteq 1..(n + 1)
    BY <1>3
  <2> QED BY <1>3, <2>1, <2>2 DEF ToSet
<1> QED BY <1>3, <1>4

\* Only keeps the elements that are in the set.
LEMMA OnlyKeeps ==
  ASSUME NEW s, IsSequence(s), NEW S
  PROVE  Only(s, S) \in Seq(S) /\ ToSet(Only(s, S)) = ToSet(s) \cap S
<1>0. Len(s) \in Nat
  BY SequenceIs
<1>1. PICK f : /\ f = [i \in 0..Len(s) |-> IF i = 0 THEN << >> ELSE IF s[i] \in S
                                             THEN Append(f[i - 1], s[i]) ELSE f[i - 1]]
               /\ Only(s, S) = f[Len(s)]
  BY <1>0, OnlyDefined
<1> PICK n : n = Len(s)
  OBVIOUS
<1>2. n \in Nat
  BY <1>0
<1>3. f[0] = << >>
  BY <1>1, <1>0
<1>4. \A i \in 1..n : f[i] = IF s[i] \in S THEN Append(f[i - 1], s[i]) ELSE f[i - 1]
  <2> DEFINE e == [i \in 0..Len(s) |-> IF i = 0 THEN << >> ELSE IF s[i] \in S
                                             THEN Append(f[i - 1], s[i]) ELSE f[i - 1]]
  <2>1. f = e
    BY <1>1, Zenon
  <2> SUFFICES ASSUME NEW i \in 1..n
               PROVE  f[i] = IF s[i] \in S THEN Append(f[i - 1], s[i]) ELSE f[i - 1]
    OBVIOUS
  <2>2. i \in 0..Len(s) /\ i # 0
    BY <1>0
  <2>3. e[i] = IF s[i] \in S THEN Append(f[i - 1], s[i]) ELSE f[i - 1]
    BY <2>2
  <2> HIDE DEF e
  <2> QED BY <2>1, <2>3
<1> DEFINE Up(i) == {s[j] : j \in 1..i} \cap S
           T == {m \in Nat : m <= n => f[m] \in Seq(S) /\ ToSet(f[m]) = Up(m)}
<1>5. 0 \in T
  <2>1. ToSet(<< >>) = {}
    BY DEF ToSet
  <2>2. Up(0) = {}
    OBVIOUS
  <2> HIDE DEF Up
  <2> QED BY <1>3, <2>1, <2>2, EmptySeq
<1>6. ASSUME NEW m \in Nat, m \in T PROVE m + 1 \in T
  <2> SUFFICES ASSUME m + 1 <= n PROVE f[m + 1] \in Seq(S) /\ ToSet(f[m + 1]) = Up(m + 1)
    OBVIOUS
  <2>1. f[m] \in Seq(S) /\ ToSet(f[m]) = Up(m)
    BY <1>2, <1>6
  <2>2. f[m + 1] = IF s[m + 1] \in S THEN Append(f[m], s[m + 1]) ELSE f[m]
    BY <1>2, <1>4
  <2>3. Up(m + 1) = IF s[m + 1] \in S THEN Up(m) \cup {s[m + 1]} ELSE Up(m)
    <3>1. 1..(m + 1) = 1..m \cup {m + 1}
      OBVIOUS
    <3> QED BY <3>1
  <2> HIDE DEF Up
  <2>4. CASE s[m + 1] \in S
    <3> PICK x, t : x = s[m + 1] /\ t = f[m]
      OBVIOUS
    <3>1. Append(t, x) \in Seq(S) /\ ToSet(Append(t, x)) = ToSet(t) \cup {x}
      BY <2>1, <2>4, AppendSet
    <3> QED BY <2>1, <2>2, <2>3, <2>4, <3>1
  <2>5. CASE s[m + 1] \notin S
    BY <2>1, <2>2, <2>3, <2>5
  <2> QED BY <2>4, <2>5
<1>7. n \in T
  <2> HIDE DEF T
  <2> QED BY <1>2, <1>5, <1>6, AllNumbers
<1>8. f[n] \in Seq(S) /\ ToSet(f[n]) = Up(n)
  BY <1>2, <1>7
<1>9. {s[j] : j \in 1..n} = ToSet(s)
  BY SequenceIs
<1> QED BY <1>1, <1>8, <1>9

-----------------------------------------------------------------------------
(* Sequences one after the other.                                           *)

\* The positions of a sequence u from k + 1 on have the elements of t.
After(u, k, t) == \A i \in 1..Len(t) : u[k + i] = t[i]

LEMMA Joined ==
  ASSUME NEW X, NEW s \in Seq(X), NEW t \in Seq(X)
  PROVE  /\ s \o t \in Seq(X) /\ Len(s \o t) = Len(s) + Len(t)
         /\ After(s \o t, 0, s) /\ After(s \o t, Len(s), t)
<1>1. Len(s) \in Nat /\ Len(t) \in Nat
  BY LenProperties
<1>2. PICK u : u = s \o t
  OBVIOUS
<1>3. /\ u \in Seq(X) /\ Len(u) = Len(s) + Len(t)
      /\ \A i \in 1..Len(s) + Len(t) : u[i] = IF i <= Len(s) THEN s[i] ELSE t[i - Len(s)]
  BY <1>2, ConcatProperties
<1>4. ASSUME NEW i \in 1..Len(s) PROVE u[0 + i] = s[i]
  BY <1>1, <1>3
<1>5. ASSUME NEW i \in 1..Len(t) PROVE u[Len(s) + i] = t[i]
  <2>1. PICK x : x = Len(s) + i
    OBVIOUS
  <2>2. x \in 1..Len(s) + Len(t) /\ ~ (x <= Len(s)) /\ x - Len(s) = i
    BY <1>1, <2>1
  <2>3. u[x] = t[i]
    BY <1>3, <2>2
  <2> QED BY <2>1, <2>3
<1> QED BY <1>2, <1>3, <1>4, <1>5 DEF After

\* The function that FlattenSeq is defined with exists.
LEMMA FlattenDefined ==
  ASSUME NEW seqs, Len(seqs) \in Nat, Len(seqs) # 0
  PROVE  \E f : /\ f = [i \in 1..Len(seqs) |-> IF i = 1 THEN seqs[i] ELSE f[i-1] \o seqs[i]]
                /\ FlattenSeq(seqs) = f[Len(seqs)]
<1> DEFINE n == Len(seqs)
           Rec(f, m) == f = [i \in 1..m |-> IF i = 1 THEN seqs[i] ELSE f[i-1] \o seqs[i]]
           S == {m \in Nat : \E f : Rec(f, m)}
<1>1. 0 \in S
  <2>1. Rec([i \in {} |-> seqs[i]], 0)
    OBVIOUS
  <2> QED BY <2>1
<1>2. ASSUME NEW m \in Nat, m \in S PROVE m + 1 \in S
  <2>1. PICK f : Rec(f, m)
    BY <1>2
  <2> DEFINE e == [i \in 1..m |-> IF i = 1 THEN seqs[i] ELSE f[i-1] \o seqs[i]]
             g == [i \in 1..m+1 |-> IF i = 1 THEN seqs[i] ELSE f[i-1] \o seqs[i]]
  <2>2. \A i \in 1..m : g[i] = e[i]
    OBVIOUS
  <2>3. f = e
    BY <2>1, Zenon
  <2>4. \A i \in 1..m+1 : i # 1 => i - 1 \in 1..m
    OBVIOUS
  <2>5. \A i \in 1..m+1 : i # 1 => f[i-1] = g[i-1]
    <3> HIDE DEF e, g
    <3> QED BY <2>2, <2>3, <2>4
  <2>6. Rec(g, m + 1)
    <3>1. \A i \in 1..m+1 : (IF i = 1 THEN seqs[i] ELSE f[i-1] \o seqs[i])
                              = (IF i = 1 THEN seqs[i] ELSE g[i-1] \o seqs[i])
      <4> HIDE DEF g
      <4> QED BY <2>5, Zenon
    <3> DEFINE h == [i \in 1..m+1 |-> IF i = 1 THEN seqs[i] ELSE g[i-1] \o seqs[i]]
    <3>2. g = h
      <4> SUFFICES ASSUME NEW i \in 1..m+1 PROVE g[i] = h[i]
        BY Zenon
      <4>1. g[i] = IF i = 1 THEN seqs[i] ELSE f[i-1] \o seqs[i]
        BY Zenon
      <4>2. h[i] = IF i = 1 THEN seqs[i] ELSE g[i-1] \o seqs[i]
        BY Zenon
      <4> HIDE DEF g, h
      <4> QED BY <3>1, <4>1, <4>2, Zenon
    <3> HIDE DEF g
    <3> QED BY <3>2
  <2> HIDE DEF Rec, g
  <2> QED BY <2>6 DEF S
<1>3. n \in S
  <2> HIDE DEF S
  <2> QED BY <1>1, <1>2, AllNumbers
<1>4. PICK f : f = CHOOSE h : Rec(h, n)
  OBVIOUS
<1>5. Rec(f, n)
  BY <1>3, <1>4
<1>6. FlattenSeq(seqs) = f[n]
  BY <1>4 DEF FlattenSeq
<1> QED BY <1>5, <1>6

\* The files of every sample, two for each, one after the other.
Alternates(s, n, a, b) == \A i \in 1..n : s[2 * i - 1] = a[i] /\ s[2 * i] = b[i]

LEMMA FlattenPairs ==
  ASSUME NEW n \in Nat, NEW X, NEW a \in [1..n -> X], NEW b \in [1..n -> X],
         NEW seqs \in [1..n -> Seq(X)], \A i \in 1..n : seqs[i] = <<a[i], b[i]>>
  PROVE  /\ FlattenSeq(seqs) \in Seq(X) /\ Len(FlattenSeq(seqs)) = 2 * n
         /\ Alternates(FlattenSeq(seqs), n, a, b)
<1>1. seqs \in Seq(Seq(X)) /\ Len(seqs) = n
  <2>1. seqs \in Seq(Seq(X))
    BY IsASeq
  <2>2. Len(seqs) = n
    BY <2>1, LenProperties
  <2> QED BY <2>1, <2>2
<1>2. CASE n = 0
  <2>1. seqs = << >>
    BY <1>1, <1>2, EmptySeq
  <2>2. FlattenSeq(seqs) = seqs
    BY <1>1, <1>2 DEF FlattenSeq
  <2>3. << >> \in Seq(X) /\ Len(<< >>) = 0
    BY EmptySeq
  <2>4. 2 * n = 0 /\ Alternates(<< >>, n, a, b)
    BY <1>2 DEF Alternates
  <2> HIDE DEF FlattenSeq
  <2> QED BY <2>1, <2>2, <2>3, <2>4
<1>3. CASE n # 0
  <2>1. PICK f : /\ f = [i \in 1..n |-> IF i = 1 THEN seqs[i] ELSE f[i-1] \o seqs[i]]
                 /\ FlattenSeq(seqs) = f[n]
    BY <1>1, <1>3, FlattenDefined
  <2>2. \A i \in 1..n : f[i] = IF i = 1 THEN seqs[i] ELSE f[i-1] \o seqs[i]
    <3> DEFINE e == [i \in 1..n |-> IF i = 1 THEN seqs[i] ELSE f[i-1] \o seqs[i]]
    <3>1. \A i \in 1..n : e[i] = IF i = 1 THEN seqs[i] ELSE f[i-1] \o seqs[i]
      BY Zenon
    <3>2. f = e
      BY <2>1, Zenon
    <3> HIDE DEF e
    <3> QED BY <3>1, <3>2, Zenon
  <2> DEFINE Good(m) == /\ f[m] \in Seq(X) /\ Len(f[m]) = 2 * m /\ Alternates(f[m], m, a, b)
             S == {m \in Nat : m \in 1..n => Good(m)}
  <2>3. 0 \in S
    OBVIOUS
  <2>4. ASSUME NEW m \in Nat, m \in S PROVE m + 1 \in S
    <3> SUFFICES ASSUME m + 1 \in 1..n PROVE Good(m + 1)
      OBVIOUS
    <3>1. seqs[m + 1] = <<a[m + 1], b[m + 1]>> /\ a[m + 1] \in X /\ b[m + 1] \in X
      BY <1>1
    <3>2. CASE m = 0
      <4>1. f[1] = <<a[1], b[1]>>
        BY <2>2, <3>1, <3>2
      <4>2. f[1] \in Seq(X) /\ Len(f[1]) = 2 /\ f[1][1] = a[1] /\ f[1][2] = b[1]
        BY <3>1, <3>2, <4>1
      <4> QED BY <3>2, <4>2 DEF Alternates
    <3>3. CASE m # 0
      <4>1. m \in 1..n /\ Good(m)
        BY <2>4, <3>3
      <4> DEFINE s == f[m]
                 t == <<a[m + 1], b[m + 1]>>
      <4>2. f[m + 1] = s \o t
        <5>1. m + 1 \in 1..n /\ m + 1 # 1 /\ (m + 1) - 1 = m
          BY <3>3
        <5>2. f[m + 1] = f[(m + 1) - 1] \o seqs[m + 1]
          BY <2>2, <5>1
        <5> QED BY <3>1, <5>1, <5>2
      <4>3. s \in Seq(X) /\ Len(s) = 2 * m
        BY <4>1
      <4>4. t \in Seq(X) /\ Len(t) = 2 /\ t[1] = a[m + 1] /\ t[2] = b[m + 1]
        BY <3>1
      <4>5. \A i \in 1..m : s[2 * i - 1] = a[i] /\ s[2 * i] = b[i]
        BY <4>1 DEF Alternates
      <4> HIDE DEF s, t
      <4>6. /\ s \o t \in Seq(X)
            /\ Len(s \o t) = Len(s) + Len(t)
            /\ \A i \in 1..Len(s) + Len(t) : (s \o t)[i] = IF i <= Len(s) THEN s[i] ELSE t[i - Len(s)]
        BY <4>3, <4>4, ConcatProperties
      <4>7. Len(s \o t) = 2 * (m + 1)
        BY <4>3, <4>4, <4>6
      <4>8. ASSUME NEW i \in 1..m+1
            PROVE  (s \o t)[2 * i - 1] = a[i] /\ (s \o t)[2 * i] = b[i]
        <5>1. CASE i \in 1..m
          <6> DEFINE x == 2 * i - 1
                     y == 2 * i
          <6>1. /\ x \in 1..Len(s) + Len(t) /\ x <= Len(s)
                /\ y \in 1..Len(s) + Len(t) /\ y <= Len(s)
            BY <4>3, <4>4, <5>1
          <6>2. s[x] = a[i] /\ s[y] = b[i]
            BY <4>5, <5>1
          <6> HIDE DEF x, y
          <6>3. (s \o t)[x] = s[x] /\ (s \o t)[y] = s[y]
            BY <4>6, <6>1
          <6> QED BY <6>2, <6>3 DEF x, y
        <5>2. CASE i = m + 1
          <6>1. /\ 2 * i - 1 \in 1..Len(s) + Len(t) /\ ~ (2 * i - 1 <= Len(s))
                /\ 2 * i \in 1..Len(s) + Len(t) /\ ~ (2 * i <= Len(s))
                /\ (2 * i - 1) - Len(s) = 1 /\ 2 * i - Len(s) = 2
            BY <4>3, <4>4, <5>2
          <6>2. /\ (s \o t)[2 * i - 1] = t[(2 * i - 1) - Len(s)]
                /\ (s \o t)[2 * i] = t[2 * i - Len(s)]
            <7> DEFINE x == 2 * i - 1
                       y == 2 * i
            <7>1. x \in 1..Len(s) + Len(t) /\ ~ (x <= Len(s)) /\ y \in 1..Len(s) + Len(t) /\ ~ (y <= Len(s))
              BY <6>1
            <7> HIDE DEF x, y
            <7>2. (s \o t)[x] = t[x - Len(s)] /\ (s \o t)[y] = t[y - Len(s)]
              BY <4>6, <7>1
            <7> QED BY <7>2 DEF x, y
          <6>3. (s \o t)[2 * i - 1] = t[1] /\ (s \o t)[2 * i] = t[2]
            BY <6>1, <6>2
          <6>4. t[1] = a[i] /\ t[2] = b[i]
            BY <4>4, <5>2
          <6> QED BY <6>3, <6>4
        <5>3. i \in 1..m \/ i = m + 1
          OBVIOUS
        <5> QED BY <5>1, <5>2, <5>3, Zenon
      <4> DEFINE u == s \o t
      <4>9. u \in Seq(X) /\ Len(u) = 2 * (m + 1)
        BY <4>6, <4>7
      <4>10. Alternates(u, m + 1, a, b)
        BY <4>8 DEF Alternates
      <4>11. f[m + 1] = u
        BY <4>2
      <4> HIDE DEF u
      <4> QED BY <4>9, <4>10, <4>11
    <3> QED BY <3>2, <3>3
  <2>5. n \in S
    <3> HIDE DEF S
    <3> QED BY <2>3, <2>4, AllNumbers
  <2>6. Good(n)
    BY <1>3, <2>5
  <2> QED BY <2>1, <2>6
<1> QED BY <1>2, <1>3

-----------------------------------------------------------------------------
(* More of what Only keeps.                                                 *)

\* The function f builds, element by element, what is kept of s.
Keeping(f, s, S, n) ==
  /\ f[0] = << >>
  /\ \A i \in 1..n : f[i] = IF s[i] \in S THEN Append(f[i - 1], s[i]) ELSE f[i - 1]

LEMMA OnlySteps ==
  ASSUME NEW s, NEW n \in Nat, n = Len(s), NEW S
  PROVE  \E f : Keeping(f, s, S, n) /\ Only(s, S) = f[n]
<1>1. PICK f : /\ f = [i \in 0..Len(s) |-> IF i = 0 THEN << >> ELSE IF s[i] \in S
                                             THEN Append(f[i - 1], s[i]) ELSE f[i - 1]]
               /\ Only(s, S) = f[Len(s)]
  BY OnlyDefined
<1> DEFINE e == [i \in 0..Len(s) |-> IF i = 0 THEN << >> ELSE IF s[i] \in S
                                       THEN Append(f[i - 1], s[i]) ELSE f[i - 1]]
<1>2. f = e
  BY <1>1, Zenon
<1>3. 0 \in 0..Len(s) /\ \A i \in 1..Len(s) : i \in 0..Len(s) /\ i # 0
  OBVIOUS
<1>4. e[0] = << >> /\ \A i \in 1..Len(s) : e[i] = IF s[i] \in S THEN Append(f[i - 1], s[i]) ELSE f[i - 1]
  BY <1>3
<1> HIDE DEF e
<1>5. f[0] = << >> /\ \A i \in 1..Len(s) : f[i] = IF s[i] \in S THEN Append(f[i - 1], s[i]) ELSE f[i - 1]
  BY <1>2, <1>4
<1> QED BY <1>1, <1>5 DEF Keeping

\* What is all in the set is kept.
LEMMA OnlyAll ==
  ASSUME NEW S, NEW s \in Seq(S)
  PROVE  Only(s, S) = s
<1>1. PICK n : n = Len(s) /\ n \in Nat /\ \A i \in 1..n : s[i] \in S
  BY LenProperties, ElementOfSeq
<1>2. PICK f : Keeping(f, s, S, n) /\ Only(s, S) = f[n]
  BY <1>1, OnlySteps
<1> DEFINE Same(t, m) == t \in Seq(S) /\ Len(t) = m /\ \A i \in 1..m : t[i] = s[i]
           T == {m \in Nat : m <= n => Same(f[m], m)}
<1>3. 0 \in T
  <2>1. \A t : t = << >> => Same(t, 0)
    BY EmptySeq
  <2> HIDE DEF Same
  <2> QED BY <1>2, <2>1 DEF Keeping
<1>4. ASSUME NEW m \in Nat, m \in T PROVE m + 1 \in T
  <2> SUFFICES ASSUME m + 1 <= n
               PROVE  Same(f[m + 1], m + 1)
    OBVIOUS
  <2>0. m <= n
    BY <1>1
  <2>1. PICK t : t = f[m] /\ Same(t, m)
    <3> HIDE DEF Same
    <3> QED BY <1>4, <2>0
  <2>2. PICK k : k = m + 1 /\ k \in 1..n /\ k - 1 = m
    BY <1>1
  <2>3. PICK x : x = s[k] /\ x \in S
    BY <1>1, <2>2
  <2>4. f[k] = Append(t, x)
    BY <1>2, <2>1, <2>2, <2>3 DEF Keeping
  <2>5. PICK u : u = Append(t, x)
    OBVIOUS
  <2>6. u \in Seq(S) /\ Len(u) = k /\ u[k] = x /\ \A i \in 1..m : u[i] = t[i]
    BY <2>1, <2>2, <2>3, <2>5, AppendProperties
  <2>7. \A i \in 1..k : u[i] = s[i]
    BY <2>1, <2>2, <2>3, <2>6
  <2>8. Same(u, k)
    BY <2>6, <2>7
  <2> HIDE DEF Same
  <2> QED BY <2>2, <2>4, <2>5, <2>8
<1>5. n \in T
  <2> HIDE DEF T
  <2> QED BY <1>1, <1>3, <1>4, AllNumbers
<1>6. Same(f[n], n)
  <2>1. n <= n
    BY <1>1
  <2> HIDE DEF Same
  <2> QED BY <1>5, <2>1
<1>7. f[n] = s
  BY <1>1, <1>6, SeqEqual
<1> QED BY <1>2, <1>7

LEMMA OnlyNone ==
  ASSUME NEW X, NEW s \in Seq(X), NEW S, X \cap S = {}
  PROVE  Only(s, S) = << >>
<1>1. PICK n : n = Len(s) /\ n \in Nat /\ \A i \in 1..n : s[i] \in X
  BY LenProperties, ElementOfSeq
<1>2. PICK f : Keeping(f, s, S, n) /\ Only(s, S) = f[n]
  BY <1>1, OnlySteps
<1> DEFINE T == {m \in Nat : m <= n => f[m] = << >>}
<1>3. 0 \in T
  BY <1>2 DEF Keeping
<1>4. ASSUME NEW m \in Nat, m \in T PROVE m + 1 \in T
  <2>1. m + 1 <= n => m + 1 \in 1..n /\ (m + 1) - 1 = m /\ f[m] = << >>
    BY <1>1, <1>4
  <2>2. \A k \in 1..n : s[k] \notin S
    BY <1>1
  <2> QED BY <1>2, <2>1, <2>2 DEF Keeping
<1>5. n \in T
  <2> HIDE DEF T
  <2> QED BY <1>1, <1>3, <1>4, AllNumbers
<1> QED BY <1>1, <1>2, <1>5

\* An element appended to two sequences, one after the other, is appended to the second.
Moves(s, t, x) == Append(s \o t, x) = s \o Append(t, x)
LEMMA AppendJoined ==
  ASSUME NEW X, NEW s \in Seq(X), NEW t \in Seq(X), NEW x \in X
  PROVE  Moves(s, t, x)
<1>0. PICK e : e = <<x>>
  OBVIOUS
<1>1. e = <<x>> /\ e \in Seq(X)
  BY <1>0
<1>2. s \o t \in Seq(X)
  BY ConcatProperties
<1>3. Append(s \o t, x) = (s \o t) \o e /\ Append(t, x) = t \o e
  BY <1>1, <1>2, AppendIsConcat
<1> QED BY <1>1, <1>3, ConcatAssociative DEF Moves

\* What is kept of two sequences, one after the other.
KeptOfJoined(s, t, S) == Only(s \o t, S) = Only(s, S) \o Only(t, S)
LEMMA OnlyJoined ==
  ASSUME NEW X, NEW s \in Seq(X), NEW t \in Seq(X), NEW S
  PROVE  KeptOfJoined(s, t, S)
<1>1. PICK u : u = s \o t
  OBVIOUS
<1>2. PICK k, l : /\ k = Len(s) /\ l = Len(t) /\ k \in Nat /\ l \in Nat
                  /\ \A i \in 1..k : s[i] \in X
                  /\ \A i \in 1..l : t[i] \in X
  BY LenProperties, ElementOfSeq
<1>3. Len(u) = k + l /\ After(u, 0, s) /\ After(u, k, t)
  BY <1>1, <1>2, Joined
<1>4. PICK f : Keeping(f, s, S, k) /\ Only(s, S) = f[k]
  BY <1>2, OnlySteps
<1>5. PICK g : Keeping(g, t, S, l) /\ Only(t, S) = g[l]
  BY <1>2, OnlySteps
<1>6. PICK h : Keeping(h, u, S, k + l) /\ Only(u, S) = h[k + l]
  <2>1. k + l \in Nat
    BY <1>2
  <2> QED BY <1>3, <2>1, OnlySteps
<1>7. h[k] = f[k] /\ f[k] \in Seq(X)
  <2> DEFINE Same(m) == h[m] = f[m] /\ f[m] \in Seq(X)
             T == {m \in Nat : m <= k => Same(m)}
  <2>1. 0 \in T
    BY <1>4, <1>6, EmptySeq DEF Keeping
  <2>2. ASSUME NEW m \in Nat, m \in T PROVE m + 1 \in T
    <3> SUFFICES ASSUME m + 1 <= k PROVE Same(m + 1)
      OBVIOUS
    <3>1. PICK n : n = m + 1 /\ n \in 1..k /\ n \in 1..(k + l) /\ n - 1 = m /\ 0 + n = n
      BY <1>2
    <3>2. Same(m)
      <4>1. m <= k
        BY <1>2
      <4> HIDE DEF Same
      <4> QED BY <2>2, <4>1
    <3>3. u[n] = s[n] /\ s[n] \in X
      BY <1>2, <1>3, <3>1 DEF After
    <3>4. PICK x, p : x = s[n] /\ p = f[m]
      OBVIOUS
    <3>5. f[n] = (IF x \in S THEN Append(p, x) ELSE p) /\ h[n] = (IF x \in S THEN Append(p, x) ELSE p)
      BY <1>4, <1>6, <3>1, <3>2, <3>3, <3>4 DEF Keeping
    <3>6. Append(p, x) \in Seq(X) /\ p \in Seq(X)
      BY <3>2, <3>3, <3>4, AppendProperties
    <3>7. h[n] = f[n] /\ f[n] \in Seq(X)
      BY <3>5, <3>6
    <3> QED BY <3>1, <3>7
  <2>3. k \in T
    <3> HIDE DEF T
    <3> QED BY <1>2, <2>1, <2>2, AllNumbers
  <2> QED BY <1>2, <2>3
<1>8. h[k + l] = f[k] \o g[l]
  <2> DEFINE Same(m) == h[k + m] = f[k] \o g[m] /\ g[m] \in Seq(X)
             T == {m \in Nat : m <= l => Same(m)}
  <2>1. 0 \in T
    <3>1. k + 0 = k
      BY <1>2
    <3>2. f[k] \o << >> = f[k] /\ << >> \in Seq(X)
      BY <1>7, ConcatEmptySeq, EmptySeq
    <3> QED BY <1>5, <1>7, <3>1, <3>2 DEF Keeping
  <2>2. ASSUME NEW m \in Nat, m \in T PROVE m + 1 \in T
    <3> HIDE DEF Same
    <3> SUFFICES ASSUME m + 1 <= l PROVE Same(m + 1)
      OBVIOUS
    <3> USE DEF Same
    <3>1. PICK n : n = m + 1 /\ n \in 1..l /\ n - 1 = m
      BY <1>2
    <3>2. PICK p : p = k + n /\ p \in 1..(k + l) /\ p - 1 = k + m
      BY <1>2, <3>1
    <3>3. Same(m)
      <4>1. m <= l
        BY <1>2
      <4> HIDE DEF Same
      <4> QED BY <2>2, <4>1
    <3>4. PICK x : x = u[p] /\ x = t[n] /\ x \in X
      BY <1>2, <1>3, <3>1, <3>2 DEF After
    <3>5. CASE x \in S
      <4>1. g[n] = Append(g[m], x)
        BY <1>5, <3>1, <3>4, <3>5 DEF Keeping
      <4>2. h[p] = Append(f[k] \o g[m], x)
        BY <1>6, <3>2, <3>3, <3>4, <3>5 DEF Keeping
      <4>3. Append(f[k] \o g[m], x) = f[k] \o Append(g[m], x)
        <5>1. PICK a, b : a = f[k] /\ b = g[m]
          OBVIOUS
        <5>2. a \in Seq(X)
          BY <1>7, <5>1
        <5>3. b \in Seq(X)
          BY <3>3, <5>1
        <5>4. x \in X
          BY <3>4
        <5>5. Moves(a, b, x)
          BY <5>2, <5>3, <5>4, AppendJoined
        <5> QED BY <5>1, <5>5 DEF Moves
      <4>4. Append(g[m], x) \in Seq(X)
        BY <3>3, <3>4, AppendProperties
      <4> QED BY <3>1, <3>2, <4>1, <4>2, <4>3, <4>4
    <3>6. CASE x \notin S
      <4>1. g[n] = g[m]
        BY <1>5, <3>1, <3>4, <3>6 DEF Keeping
      <4>2. h[p] = f[k] \o g[m]
        BY <1>6, <3>2, <3>3, <3>4, <3>6 DEF Keeping
      <4> QED BY <3>1, <3>2, <3>3, <4>1, <4>2
    <3> QED BY <3>5, <3>6
  <2>3. l \in T
    <3> HIDE DEF T
    <3> QED BY <1>2, <2>1, <2>2, AllNumbers
  <2>4. l <= l
    BY <1>2
  <2> QED BY <2>3, <2>4
<1> QED BY <1>1, <1>4, <1>5, <1>6, <1>8 DEF KeptOfJoined

\* Two sets with the same elements of a sequence keep the same of it.
LEMMA OnlySame ==
  ASSUME NEW s, IsSequence(s), NEW S, NEW U, \A x \in ToSet(s) : x \in S <=> x \in U
  PROVE  Only(s, S) = Only(s, U)
<1>1. PICK n : n = Len(s) /\ n \in Nat /\ \A i \in 1..n : s[i] \in ToSet(s)
  BY SequenceIs
<1>2. PICK f : Keeping(f, s, S, n) /\ Only(s, S) = f[n]
  BY <1>1, OnlySteps
<1>3. PICK g : Keeping(g, s, U, n) /\ Only(s, U) = g[n]
  BY <1>1, OnlySteps
<1> DEFINE T == {m \in Nat : m <= n => f[m] = g[m]}
<1>4. 0 \in T
  BY <1>2, <1>3 DEF Keeping
<1>5. ASSUME NEW m \in Nat, m \in T PROVE m + 1 \in T
  <2>1. m + 1 <= n => m + 1 \in 1..n /\ (m + 1) - 1 = m /\ f[m] = g[m]
    BY <1>1, <1>5
  <2>2. \A k \in 1..n : s[k] \in S <=> s[k] \in U
    BY <1>1
  <2> QED BY <1>2, <1>3, <2>1, <2>2 DEF Keeping
<1>6. n \in T
  <2> HIDE DEF T
  <2> QED BY <1>1, <1>4, <1>5, AllNumbers
<1> QED BY <1>1, <1>2, <1>3, <1>6

\* Only the sequence in place i has elements in the set.
OnlyIn(seqs, n, i, S) ==
  /\ seqs[i] \in Seq(S)
  /\ \A j \in 1..n : j # i => \E Y : seqs[j] \in Seq(Y) /\ Y \cap S = {}

LEMMA OnlyOfFlattened ==
  ASSUME NEW X, NEW n \in Nat, NEW seqs \in [1..n -> Seq(X)], NEW i \in 1..n, NEW S,
         OnlyIn(seqs, n, i, S)
  PROVE  FlattenSeq(seqs) \in Seq(X) /\ Only(FlattenSeq(seqs), S) = seqs[i]
<1>1. Len(seqs) = n /\ n # 0
  <2>1. seqs \in Seq(Seq(X))
    BY IsASeq
  <2> QED BY <2>1, LenProperties
<1>2. PICK f : /\ f = [j \in 1..Len(seqs) |-> IF j = 1 THEN seqs[j] ELSE f[j-1] \o seqs[j]]
               /\ FlattenSeq(seqs) = f[Len(seqs)]
  BY <1>1, FlattenDefined
<1>3. f = [j \in 1..n |-> IF j = 1 THEN seqs[j] ELSE f[j-1] \o seqs[j]] /\ FlattenSeq(seqs) = f[n]
  BY <1>1, <1>2
<1>4. f[1] = seqs[1] /\ \A j \in 2..n : f[j] = f[j-1] \o seqs[j]
  <2> DEFINE e == [j \in 1..n |-> IF j = 1 THEN seqs[j] ELSE f[j-1] \o seqs[j]]
  <2>1. f = e
    <3>1. f = [j \in 1..n |-> IF j = 1 THEN seqs[j] ELSE f[j-1] \o seqs[j]]
      BY <1>3, Zenon
    <3> QED BY <3>1, Zenon
  <2>2. e[1] = seqs[1]
    BY <1>1
  <2>3. \A j \in 2..n : e[j] = f[j-1] \o seqs[j]
    <3>1. \A j \in 2..n : j \in 1..n /\ j # 1
      OBVIOUS
    <3> QED BY <3>1, Zenon
  <2> HIDE DEF e
  <2> QED BY <2>1, <2>2, <2>3, Zenon
<1> DEFINE Kept(m) == IF m < i THEN << >> ELSE seqs[i]
           Good(m) == f[m] \in Seq(X) /\ Only(f[m], S) = Kept(m)
           T == {m \in Nat : 1 <= m /\ m <= n => Good(m)}
<1>5. \A j \in 1..n : Only(seqs[j], S) = IF j = i THEN seqs[i] ELSE << >>
  <2>1. Only(seqs[i], S) = seqs[i]
    BY OnlyAll DEF OnlyIn
  <2>2. ASSUME NEW j \in 1..n, j # i PROVE Only(seqs[j], S) = << >>
    BY <2>2, OnlyNone DEF OnlyIn
  <2> QED BY <2>1, <2>2
<1>6. 0 \in T
  OBVIOUS
<1>7. ASSUME NEW m \in Nat, m \in T PROVE m + 1 \in T
  <2> HIDE DEF Good
  <2> SUFFICES ASSUME m + 1 <= n PROVE Good(m + 1)
    OBVIOUS
  <2> USE DEF Good
  <2>1. PICK k : k = m + 1 /\ k \in 1..n /\ k - 1 = m
    BY <1>1
  <2>2. CASE m = 0
    <3>1. k = 1
      BY <2>1, <2>2
    <3>2. f[k] = seqs[k] /\ seqs[k] \in Seq(X)
      BY <1>4, <2>1, <3>1
    <3>3. Only(seqs[k], S) = Kept(k)
      BY <1>5, <2>1, <3>1
    <3> HIDE DEF Kept
    <3> QED BY <2>1, <3>2, <3>3
  <2>3. CASE m # 0
    <3>1. k \in 2..n
      BY <2>1, <2>3
    <3>2. Good(m)
      <4>1. 1 <= m /\ m <= n
        BY <1>1, <2>1, <2>3
      <4> HIDE DEF Good
      <4> QED BY <1>7, <4>1
    <3>3. PICK a, b : a = f[m] /\ b = seqs[k] /\ a \in Seq(X) /\ b \in Seq(X)
      BY <2>1, <3>2
    <3>4. f[k] = a \o b
      BY <1>4, <2>1, <3>1, <3>3
    <3>5. PICK v, w : v = Only(a, S) /\ w = Only(b, S)
      OBVIOUS
    <3>6. v = Kept(m) /\ w = (IF k = i THEN seqs[i] ELSE << >>)
      <4>1. v = Kept(m)
        <5> HIDE DEF Kept
        <5> QED BY <3>2, <3>3, <3>5
      <4>2. w = (IF k = i THEN seqs[i] ELSE << >>)
        BY <1>5, <2>1, <3>3, <3>5
      <4> QED BY <4>1, <4>2
    <3>7. Only(a \o b, S) = v \o w
      <4>1. KeptOfJoined(a, b, S)
        BY <3>3, OnlyJoined
      <4> QED BY <3>5, <4>1 DEF KeptOfJoined
    <3>8. v \o w = Kept(k)
      <4>0. PICK c, d : c = seqs[i] /\ c \in Seq(X) /\ d = << >>
        OBVIOUS
      <4>1. c \o d = c /\ d \o c = c /\ d \o d = d
        BY <4>0, ConcatEmptySeq, EmptySeq
      <4>2. CASE k < i
        <5>1. v = d /\ w = d
          <6>1. m < i /\ k # i
            BY <2>1, <4>2
          <6> QED BY <3>6, <4>0, <6>1
        <5>2. Kept(k) = d
          BY <2>1, <4>0, <4>2
        <5> HIDE DEF Kept
        <5> QED BY <4>1, <5>1, <5>2
      <4>3. CASE k = i
        <5>1. v = d /\ w = c
          BY <2>1, <3>6, <4>0, <4>3
        <5>2. Kept(k) = c
          BY <2>1, <4>0, <4>3
        <5> HIDE DEF Kept
        <5> QED BY <4>1, <5>1, <5>2
      <4>4. CASE k > i
        <5>1. v = c /\ w = d
          BY <2>1, <3>6, <4>0, <4>4
        <5>2. Kept(k) = c
          BY <2>1, <4>0, <4>4
        <5> HIDE DEF Kept
        <5> QED BY <4>1, <5>1, <5>2
      <4> HIDE DEF Kept
      <4> QED BY <2>1, <4>2, <4>3, <4>4
    <3>9. PICK c : c = a \o b
      OBVIOUS
    <3>10. c \in Seq(X) /\ Only(c, S) = Kept(k)
      <4>1. c \in Seq(X)
        BY <3>3, <3>9, ConcatProperties
      <4> HIDE DEF Kept
      <4> QED BY <3>7, <3>8, <3>9, <4>1
    <3>11. f[k] = c
      BY <3>4, <3>9
    <3> HIDE DEF Kept
    <3> QED BY <2>1, <3>10, <3>11
  <2> QED BY <2>2, <2>3
<1>8. n \in T
  <2> HIDE DEF T
  <2> QED BY <1>6, <1>7, AllNumbers
<1>9. Good(n)
  <2>1. 1 <= n /\ n <= n
    BY <1>1
  <2> HIDE DEF Good
  <2> QED BY <1>8, <2>1
<1>10. Kept(n) = seqs[i]
  OBVIOUS
<1> QED BY <1>3, <1>9, <1>10

-----------------------------------------------------------------------------
(* The normal form of a path.                                               *)

\* The function that Normal is defined with exists.
LEMMA NormalDefined ==
  ASSUME NEW s, Len(s) \in Nat
  PROVE  \E f : /\ f = [i \in 0..Len(s) |-> IF i = 0 THEN << >> ELSE Entered(f[i - 1], s[i])]
                /\ Normal(s) = f[Len(s)]
<1> DEFINE n == Len(s)
           More(f, i) == Entered(f[i - 1], s[i])
           Rec(f, m) == f = [i \in 0..m |-> IF i = 0 THEN << >> ELSE More(f, i)]
           T == {m \in Nat : \E f : Rec(f, m)}
<1>1. 0 \in T
  <2> DEFINE g == [i \in 0..0 |-> << >>]
             h == [i \in 0..0 |-> IF i = 0 THEN << >> ELSE More(g, i)]
  <2>1. \A i \in 0..0 : h[i] = << >>
    OBVIOUS
  <2>2. g = h
    <3> HIDE DEF More
    <3> QED BY <2>1
  <2>3. Rec(g, 0)
    <3> HIDE DEF g, More
    <3> QED BY <2>2
  <2> HIDE DEF Rec, g
  <2> QED BY <2>3
<1>2. ASSUME NEW m \in Nat, m \in T PROVE m + 1 \in T
  <2>1. PICK f : Rec(f, m)
    BY <1>2
  <2> DEFINE e == [i \in 0..m |-> IF i = 0 THEN << >> ELSE More(f, i)]
             g == [i \in 0..m+1 |-> IF i = 0 THEN << >> ELSE More(f, i)]
  <2>2. \A i \in 0..m : g[i] = e[i]
    <3> HIDE DEF More
    <3> QED OBVIOUS
  <2>3. f = e
    BY <2>1, Zenon
  <2>4. \A i \in 0..m+1 : i # 0 => i - 1 \in 0..m
    OBVIOUS
  <2>5. \A i \in 0..m+1 : i # 0 => f[i-1] = g[i-1]
    <3> HIDE DEF e, g
    <3> QED BY <2>2, <2>3, <2>4
  <2>6. Rec(g, m + 1)
    <3>1. \A i \in 0..m+1 : (IF i = 0 THEN << >> ELSE More(f, i))
                              = (IF i = 0 THEN << >> ELSE More(g, i))
      <4> HIDE DEF g
      <4> QED BY <2>5, Zenon
    <3> DEFINE h == [i \in 0..m+1 |-> IF i = 0 THEN << >> ELSE More(g, i)]
    <3>2. g = h
      <4> SUFFICES ASSUME NEW i \in 0..m+1 PROVE g[i] = h[i]
        BY Zenon
      <4>1. g[i] = IF i = 0 THEN << >> ELSE More(f, i)
        BY Zenon
      <4>2. h[i] = IF i = 0 THEN << >> ELSE More(g, i)
        BY Zenon
      <4> HIDE DEF g, h, More
      <4> QED BY <3>1, <4>1, <4>2
    <3> HIDE DEF g, More
    <3> QED BY <3>2
  <2> HIDE DEF Rec, g
  <2> QED BY <2>6 DEF T
<1>3. n \in T
  <2> HIDE DEF T
  <2> QED BY <1>1, <1>2, AllNumbers
<1>4. PICK f : f = CHOOSE h : Rec(h, n)
  OBVIOUS
<1>5. Rec(f, n)
  BY <1>3, <1>4
<1>6. Normal(s) = f[n]
  BY <1>4 DEF Normal
<1> QED BY <1>5, <1>6

\* The function f builds, part by part, the normal form of s.
Entering(f, s, n) == f[0] = << >> /\ \A i \in 1..n : f[i] = Entered(f[i - 1], s[i])

LEMMA NormalSteps ==
  ASSUME NEW s, NEW n \in Nat, n = Len(s)
  PROVE  \E f : Entering(f, s, n) /\ Normal(s) = f[n]
<1>1. PICK f : /\ f = [i \in 0..Len(s) |-> IF i = 0 THEN << >> ELSE Entered(f[i - 1], s[i])]
               /\ Normal(s) = f[Len(s)]
  BY NormalDefined
<1> DEFINE e == [i \in 0..Len(s) |-> IF i = 0 THEN << >> ELSE Entered(f[i - 1], s[i])]
<1>2. f = e
  <2>1. f = [i \in 0..Len(s) |-> IF i = 0 THEN << >> ELSE Entered(f[i - 1], s[i])]
    BY <1>1, Zenon
  <2> QED BY <2>1, Zenon
<1>3. 0 \in 0..Len(s) /\ \A i \in 1..Len(s) : i \in 0..Len(s) /\ i # 0
  OBVIOUS
<1>4. e[0] = << >> /\ \A i \in 1..Len(s) : e[i] = Entered(f[i - 1], s[i])
  BY <1>3
<1> HIDE DEF e
<1>5. f[0] = << >> /\ \A i \in 1..Len(s) : f[i] = Entered(f[i - 1], s[i])
  BY <1>2, <1>4
<1> QED BY <1>1, <1>5 DEF Entering

\* A part that is entered leaves a sequence without ".".
LEMMA EnteredPart ==
  ASSUME NEW X, NEW t \in Seq(X), NEW d, d = "." \/ d \in X
  PROVE  Entered(t, d) \in Seq(X)
<1>1. CASE d = "."
  BY <1>1 DEF Entered
<1>2. CASE d # "."
  <2>1. Append(t, d) \in Seq(X)
    BY <1>2, AppendProperties
  <2>2. t # << >> => Front(t) \in Seq(X)
    <3>1. Len(t) \in Nat /\ \A i \in 1..(Len(t) - 1) : t[i] \in X
      BY LenProperties, ElementOfSeq
    <3>2. SubSeq(t, 1, Len(t) - 1) \in Seq(X)
      BY <3>1, SubSeqProperties
    <3> QED BY <3>2 DEF Front
  <2> QED BY <1>2, <2>1, <2>2 DEF Entered
<1> QED BY <1>1, <1>2

LEMMA NormalParts ==
  ASSUME NEW d, IsSequence(d)
  PROVE  Normal(d) \in Seq(ToSet(d) \ {"."})
<1>1. PICK n : n = Len(d) /\ n \in Nat /\ \A i \in 1..n : d[i] \in ToSet(d)
  BY SequenceIs
<1>2. PICK f : Entering(f, d, n) /\ Normal(d) = f[n]
  BY <1>1, NormalSteps
<1> DEFINE X == ToSet(d) \ {"."}
           T == {m \in Nat : m <= n => f[m] \in Seq(X)}
<1>3. 0 \in T
  BY <1>2, EmptySeq DEF Entering
<1>4. ASSUME NEW m \in Nat, m \in T PROVE m + 1 \in T
  <2>1. PICK Y : Y = X
    OBVIOUS
  <2>2. SUFFICES ASSUME m + 1 <= n PROVE f[m + 1] \in Seq(Y)
    BY <2>1
  <2>3. PICK k : k = m + 1 /\ k \in 1..n /\ k - 1 = m /\ f[m] \in Seq(Y)
    BY <1>1, <1>4, <2>1, <2>2
  <2>4. PICK t, p : t = f[m] /\ p = d[k]
    OBVIOUS
  <2>5. p = "." \/ p \in Y
    BY <1>1, <2>1, <2>3, <2>4
  <2>6. Entered(t, p) \in Seq(Y)
    BY <2>3, <2>4, <2>5, EnteredPart
  <2> QED BY <1>2, <2>3, <2>4, <2>6 DEF Entering
<1>5. n \in T
  <2> HIDE DEF T
  <2> QED BY <1>1, <1>3, <1>4, AllNumbers
<1> QED BY <1>1, <1>2, <1>5

\* A normal form is its own.
LEMMA NormalSame ==
  ASSUME NEW d, IsSequence(d), ToSet(d) \cap {".", ".."} = {}
  PROVE  Normal(d) = d
<1>0. PICK X : X = ToSet(d)
  OBVIOUS
<1>1. PICK n : n = Len(d) /\ n \in Nat /\ d \in Seq(X) /\ \A i \in 1..n : d[i] \in X
  BY <1>0, SequenceIs DEF IsSequence
<1>2. PICK f : Entering(f, d, n) /\ Normal(d) = f[n]
  BY <1>1, NormalSteps
<1> DEFINE Same(t, m) == t \in Seq(X) /\ Len(t) = m /\ \A i \in 1..m : t[i] = d[i]
           T == {m \in Nat : m <= n => Same(f[m], m)}
<1>3. 0 \in T
  <2>1. \A t : t = << >> => Same(t, 0)
    BY EmptySeq
  <2> HIDE DEF Same
  <2> QED BY <1>2, <2>1 DEF Entering
<1>4. ASSUME NEW m \in Nat, m \in T PROVE m + 1 \in T
  <2> SUFFICES ASSUME m + 1 <= n
               PROVE  Same(f[m + 1], m + 1)
    OBVIOUS
  <2>0. m <= n
    BY <1>1
  <2>1. PICK t : t = f[m] /\ Same(t, m)
    <3> HIDE DEF Same
    <3> QED BY <1>4, <2>0
  <2>2. PICK k : k = m + 1 /\ k \in 1..n /\ k - 1 = m
    BY <1>1
  <2>3. PICK x : x = d[k] /\ x \in X /\ x # "." /\ x # ".."
    BY <1>0, <1>1, <2>2
  <2>4. f[k] = Append(t, x)
    <3>1. f[k] = Entered(t, x)
      BY <1>2, <2>1, <2>2, <2>3 DEF Entering
    <3> QED BY <2>3, <3>1 DEF Entered
  <2>5. PICK u : u = Append(t, x)
    OBVIOUS
  <2>6. u \in Seq(X) /\ Len(u) = k /\ u[k] = x /\ \A i \in 1..m : u[i] = t[i]
    BY <2>1, <2>2, <2>3, <2>5, AppendProperties
  <2>7. \A i \in 1..k : u[i] = d[i]
    BY <2>1, <2>2, <2>3, <2>6
  <2>8. Same(u, k)
    BY <2>6, <2>7
  <2> HIDE DEF Same
  <2> QED BY <2>2, <2>4, <2>5, <2>8
<1>5. n \in T
  <2> HIDE DEF T
  <2> QED BY <1>1, <1>3, <1>4, AllNumbers
<1>6. Same(f[n], n)
  <2>1. n <= n
    BY <1>1
  <2> HIDE DEF Same
  <2> QED BY <1>5, <2>1
<1>7. f[n] = d
  BY <1>1, <1>6, SeqEqual
<1> QED BY <1>2, <1>7

-----------------------------------------------------------------------------
(* Numbers in groups.                                                       *)

LEMMA GroupsOfPairs ==
  ASSUME NEW X, NEW s \in Seq(X), NEW n \in Nat, Len(s) = 2 * n, NEW a, NEW b,
         Alternates(s, n, a, b)
  PROVE  Groups(s, 2) = [i \in 1..n |-> <<a[i], b[i]>>]
<1>1. Len(s) \div 2 = n
  OBVIOUS
<1>2. ASSUME NEW i \in 1..n PROVE SubSeq(s, 2 * (i - 1) + 1, 2 * i) = <<a[i], b[i]>>
  <2>1. PICK l, k : l = 2 * (i - 1) + 1 /\ k = 2 * i /\ l \in Int /\ k \in Int /\ k - l + 1 = 2
                    /\ l = 2 * i - 1 /\ l \in 1..(2 * n) /\ k \in 1..(2 * n) /\ l <= k
    OBVIOUS
  <2>2. \A j \in l..k : s[j] \in X
    BY <2>1, ElementOfSeq
  <2>3. PICK u : u = SubSeq(s, l, k)
    OBVIOUS
  <2>4. u \in Seq(X) /\ Len(u) = 2 /\ u[1] = s[l] /\ u[2] = s[k]
    <3>1. /\ u \in Seq(X) /\ Len(u) = k - l + 1
          /\ \A j \in 1..(k - l + 1) : u[j] = s[l + j - 1]
      BY <2>1, <2>2, <2>3, SubSeqProperties
    <3>2. l + 1 - 1 = l /\ l + 2 - 1 = k
      BY <2>1
    <3> QED BY <2>1, <3>1, <3>2
  <2>5. u = <<s[l], s[k]>>
    BY <2>4
  <2>6. s[l] = a[i] /\ s[k] = b[i]
    BY <2>1 DEF Alternates
  <2> QED BY <2>1, <2>3, <2>5, <2>6
<1> QED BY <1>1, <1>2 DEF Groups

\* The first four numbers of four.
LEMMA FourNumbers ==
  ASSUME NEW X, NEW s \in [1..4 -> X]
  PROVE  Len(s) = 4 /\ s \in Seq(X) /\ SubSeq(s, 1, 4) = s
<1>1. s \in Seq(X) /\ Len(s) = 4
  <2>1. s \in Seq(X)
    BY SeqDef
  <2> QED BY <2>1, LenProperties
<1>2. /\ SubSeq(s, 1, 4) \in Seq(X) /\ Len(SubSeq(s, 1, 4)) = 4
      /\ \A i \in 1..4 : SubSeq(s, 1, 4)[i] = s[i]
  BY SubSeqProperties
<1>3. PICK u : u = SubSeq(s, 1, 4)
  OBVIOUS
<1>4. u = s
  BY <1>1, <1>2, <1>3, SeqEqual
<1> QED BY <1>1, <1>3, <1>4

=============================================================================
