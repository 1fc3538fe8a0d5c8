-------------------------- MODULE RpcTrafficProofs --------------------------
(***************************************************************************)
(* Lemmas about what a sequence of units means: the payload of packets      *)
(* grows with every packet sent, and a packet that is sent whole leaves     *)
(* packets whole.                                                           *)
(***************************************************************************)
EXTENDS RpcTraffic, SequenceTheorems, WellFoundedInduction, TLAPS

(* Induction over the natural numbers, of a set.                            *)
LEMMA InductionOfSet ==
  ASSUME NEW S, 0 \in S, \A n \in Nat : n \in S => n + 1 \in S
  PROVE  Nat \subseteq S
<1> SUFFICES ASSUME Nat \ S # {} PROVE FALSE
  OBVIOUS
<1> DEFINE Less == OpToRel(<, Nat)
           T == Nat \ S
<1>1. PICK x \in T : \A y \in T : << y, x >> \notin Less
  <2>1. IsWellFoundedOn(Less, Nat)
    BY NatLessThanWellFounded
  <2>2. T \subseteq Nat /\ T # {}
    OBVIOUS
  <2> HIDE DEF Less, T
  <2> QED
    BY <2>1, <2>2, WFMin
<1>2. x - 1 \in Nat /\ x - 1 \in T
  OBVIOUS
<1>3. << x - 1, x >> \in Less
  BY <1>2 DEF OpToRel
<1> QED
  BY <1>1, <1>2, <1>3
-----------------------------------------------------------------------------
(* FlattenSeq is defined by a recursive function: there is one, and it is   *)
(* the only one.                                                            *)

Flattens(g, seqs, n) ==
  g = [i \in 1 .. n |-> IF i = 1 THEN seqs[i] ELSE g[i - 1] \o seqs[i]]

(* There is a function of the partial concatenations, for every length.    *)
LEMMA FlattenExists ==
  ASSUME NEW seqs, NEW n \in Nat
  PROVE  \E g : Flattens(g, seqs, n)
<1> DEFINE S == {m \in Nat : \E g : Flattens(g, seqs, m)}
<1>1. 0 \in S
  <2>1. Flattens([i \in 1 .. 0 |-> << >>], seqs, 0)
    BY DEF Flattens
  <2> QED
    BY <2>1
<1>2. ASSUME NEW m \in Nat, m \in S PROVE m + 1 \in S
  <2>1. PICK g : Flattens(g, seqs, m)
    BY <1>2
  <2> DEFINE h == [i \in 1 .. m + 1 |->
                     IF i = m + 1 THEN IF i = 1 THEN seqs[i] ELSE g[m] \o seqs[i] ELSE g[i]]
             next(i) == IF i = 1 THEN seqs[i] ELSE h[i - 1] \o seqs[i]
  <2>2. ASSUME NEW i \in 1 .. m + 1 PROVE h[i] = next(i)
    <3>1. CASE i = m + 1
      <4>1. CASE i = 1
        BY <3>1, <4>1
      <4>2. CASE i # 1
        <5>1. m \in 1 .. m + 1 /\ m # m + 1 /\ i - 1 = m
          BY <3>1, <4>2
        <5> QED
          BY <3>1, <4>2, <5>1
      <4> QED
        BY <4>1, <4>2
    <3>2. CASE i # m + 1
      <4>1. i \in 1 .. m /\ h[i] = g[i]
        BY <3>2
      <4>2. g[i] = IF i = 1 THEN seqs[i] ELSE g[i - 1] \o seqs[i]
        BY <2>1, <4>1 DEF Flattens
      <4>3. i # 1 => h[i - 1] = g[i - 1]
        BY <4>1
      <4> QED
        BY <4>1, <4>2, <4>3
    <3> QED
      BY <3>1, <3>2
  <2>3. h = [i \in 1 .. m + 1 |-> next(i)]
    <3> HIDE DEF next
    <3> QED
      BY <2>2
  <2>4. Flattens(h, seqs, m + 1)
    BY <2>3 DEF Flattens
  <2> QED
    BY <2>4
<1>3. Nat \subseteq S
  <2> HIDE DEF S
  <2> QED
    BY <1>1, <1>2, InductionOfSet
<1> QED
  BY <1>3

Agree(s, t, n) == \A i \in 1 .. n : s[i] = t[i]

(* It depends on no sequence behind the ones it concatenates.              *)
LEMMA FlattenPrefix ==
  ASSUME NEW s, NEW t, NEW n \in Nat, NEW g, NEW h,
         Flattens(g, s, n), Flattens(h, t, n + 1),
         Agree(s, t, n)
  PROVE  Agree(g, h, n)
<1> DEFINE S == {j \in Nat : j \in 1 .. n => g[j] = h[j]}
<1>1. 0 \in S
  OBVIOUS
<1>2. ASSUME NEW j \in Nat, j \in S PROVE j + 1 \in S
  <2>1. ASSUME j + 1 \in 1 .. n PROVE g[j + 1] = h[j + 1]
    <3>1. /\ j + 1 \in 1 .. n + 1
          /\ s[j + 1] = t[j + 1] /\ (j + 1) - 1 = j
      BY <2>1 DEF Agree
    <3>2. /\ g[j + 1] = IF j + 1 = 1 THEN s[j + 1] ELSE g[j] \o s[j + 1]
          /\ h[j + 1] = IF j + 1 = 1 THEN t[j + 1] ELSE h[j] \o t[j + 1]
      BY <2>1, <3>1 DEF Flattens
    <3>3. j + 1 # 1 => g[j] = h[j]
      BY <1>2, <2>1
    <3> QED
      BY <3>1, <3>2, <3>3
  <2> QED
    BY <2>1
<1>3. Nat \subseteq S
  <2> HIDE DEF S
  <2> QED
    BY <1>1, <1>2, InductionOfSet
<1> QED
  BY <1>3 DEF Agree

(* FlattenSeq is its last value.                                           *)
LEMMA FlattenIs ==
  ASSUME NEW seqs, Len(seqs) \in Nat \ {0}
  PROVE  \E g : Flattens(g, seqs, Len(seqs)) /\ FlattenSeq(seqs) = g[Len(seqs)]
<1> DEFINE P(f) == f = [i \in 1 .. Len(seqs) |-> IF i = 1 THEN seqs[i] ELSE f[i - 1] \o seqs[i]]
           g == CHOOSE f : P(f)
<1>1. FlattenSeq(seqs) = g[Len(seqs)]
  BY DEF FlattenSeq
<1>2. \E f : P(f)
  BY FlattenExists DEF Flattens
<1>3. P(g)
  <2> HIDE DEF P
  <2> QED
    BY <1>2, Zenon
<1> QED
  BY <1>1, <1>3 DEF Flattens

(* The elements of a sequence of sequences in one sequence: one sequence    *)
(* more adds its own.                                                      *)
LEMMA FlattenAppend ==
  ASSUME NEW S, NEW s \in Seq(Seq(S)), NEW e \in Seq(S)
  PROVE  /\ FlattenSeq(s) \in Seq(S)
         /\ FlattenSeq(Append(s, e)) = FlattenSeq(s) \o e
<1> DEFINE n == Len(s)
           t == Append(s, e)
<1>1. /\ n \in Nat /\ t \in Seq(Seq(S)) /\ Len(t) = n + 1 /\ t[n + 1] = e
      /\ \A i \in 1 .. n : t[i] = s[i] /\ s[i] \in Seq(S)
  <2>1. n \in Nat /\ \A i \in 1 .. n : s[i] \in Seq(S)
    BY ElementOfSeq
  <2>2. /\ t \in Seq(Seq(S)) /\ Len(t) = n + 1 /\ t[n + 1] = e
        /\ \A i \in 1 .. n : t[i] = s[i]
    BY AppendProperties
  <2> QED
    BY <2>1, <2>2
<1>2. PICK h : Flattens(h, t, n + 1) /\ FlattenSeq(t) = h[n + 1]
  <2>1. Len(t) \in Nat \ {0}
    BY <1>1
  <2> HIDE DEF t
  <2> QED
    BY <1>1, <2>1, FlattenIs
<1>3. CASE n = 0
  <2>1. s = << >> /\ FlattenSeq(s) = << >>
    BY <1>3 DEF FlattenSeq
  <2>2. h[1] = t[1]
    BY <1>2, <1>3 DEF Flattens
  <2>3. FlattenSeq(t) = e
    BY <1>1, <1>2, <1>3, <2>2
  <2>4. << >> \in Seq(S) /\ << >> \o e = e
    BY ConcatEmptySeq
  <2> QED
    BY <2>1, <2>3, <2>4
<1>4. CASE n # 0
  <2>1. PICK g : Flattens(g, s, n) /\ FlattenSeq(s) = g[n]
    BY <1>1, <1>4, FlattenIs
  <2>2. Agree(g, h, n)
    <3>1. Agree(s, t, n)
      BY <1>1 DEF Agree
    <3>2. n \in Nat
      BY <1>1
    <3> HIDE DEF n, t
    <3> QED
      BY <1>2, <2>1, <3>1, <3>2, FlattenPrefix
  <2>3. h[n + 1] = h[n] \o e
    <3>1. n + 1 \in 1 .. n + 1 /\ n + 1 # 1 /\ (n + 1) - 1 = n
      BY <1>1, <1>4
    <3> HIDE DEF n, t
    <3> QED
      BY <1>1, <1>2, <3>1 DEF Flattens
  <2>4. FlattenSeq(t) = FlattenSeq(s) \o e
    <3>1. g[n] = h[n]
      BY <1>1, <1>4, <2>2 DEF Agree
    <3> QED
      BY <1>2, <2>1, <2>3, <3>1
  <2>5. FlattenSeq(s) \in Seq(S)
    <3> DEFINE T == {j \in Nat : j \in 1 .. n => g[j] \in Seq(S)}
    <3>1. 0 \in T
      OBVIOUS
    <3>2. ASSUME NEW j \in Nat, j \in T PROVE j + 1 \in T
      <4>1. ASSUME j + 1 \in 1 .. n PROVE g[j + 1] \in Seq(S)
        <5>1. g[j + 1] = IF j + 1 = 1 THEN s[j + 1] ELSE g[j] \o s[j + 1]
          <6>1. (j + 1) - 1 = j
            OBVIOUS
          <6> HIDE DEF n
          <6> QED
            BY <2>1, <4>1, <6>1 DEF Flattens
        <5>2. s[j + 1] \in Seq(S)
          BY <1>1, <4>1
        <5>3. j + 1 # 1 => g[j] \in Seq(S)
          BY <3>2, <4>1
        <5> QED
          BY <5>1, <5>2, <5>3, ConcatProperties
      <4> QED
        BY <4>1
    <3>3. Nat \subseteq T
      <4> HIDE DEF T
      <4> QED
        BY <3>1, <3>2, InductionOfSet
    <3> QED
      BY <1>1, <1>4, <2>1, <3>3
  <2> QED
    BY <2>4, <2>5
<1> QED
  BY <1>3, <1>4
-----------------------------------------------------------------------------
(* Sequences: one element more at the end, and the order of additions.      *)

(* What Append adds and what it leaves.                                    *)
LEMMA AppendIs ==
  ASSUME NEW S, NEW s \in Seq(S), NEW e \in S
  PROVE  /\ Append(s, e) \in Seq(S) /\ Len(s) \in Nat
         /\ Len(Append(s, e)) = Len(s) + 1
         /\ \A i \in 1 .. Len(s) : Append(s, e)[i] = s[i]
         /\ Append(s, e)[Len(s) + 1] = e
BY AppendProperties, LenProperties

(* A concatenation, position by position.                                  *)
LEMMA ConcatIs ==
  ASSUME NEW S, NEW s \in Seq(S), NEW t \in Seq(S)
  PROVE  /\ s \o t \in Seq(S) /\ Len(s) \in Nat /\ Len(t) \in Nat
         /\ Len(s \o t) = Len(s) + Len(t)
         /\ \A i \in 1 .. Len(s) : (s \o t)[i] = s[i]
         /\ \A i \in 1 .. Len(t) : (s \o t)[Len(s) + i] = t[i]
<1>1. /\ s \o t \in Seq(S) /\ Len(s \o t) = Len(s) + Len(t)
      /\ \A i \in 1 .. Len(s) + Len(t) :
           (s \o t)[i] = IF i <= Len(s) THEN s[i] ELSE t[i - Len(s)]
  BY ConcatProperties
<1>2. Len(s) \in Nat /\ Len(t) \in Nat
  BY LenProperties
<1>3. ASSUME NEW i \in 1 .. Len(s) PROVE (s \o t)[i] = s[i]
  <2>1. i \in 1 .. Len(s) + Len(t) /\ i <= Len(s)
    BY <1>2, <1>3
  <2> QED
    BY <1>1, <2>1
<1>4. ASSUME NEW i \in 1 .. Len(t) PROVE (s \o t)[Len(s) + i] = t[i]
  <2>1. Len(s) + i \in 1 .. Len(s) + Len(t) /\ ~(Len(s) + i <= Len(s))
        /\ (Len(s) + i) - Len(s) = i
    BY <1>2, <1>4
  <2> QED
    BY <1>1, <2>1
<1> QED
  BY <1>1, <1>2, <1>3, <1>4

(* Appending to the right part appends to the whole.                       *)
LEMMA ConcatAppend ==
  ASSUME NEW S, NEW s \in Seq(S), NEW t \in Seq(S), NEW e \in S
  PROVE  s \o Append(t, e) = Append(s \o t, e)
<1> DEFINE l == s \o Append(t, e)
           r == Append(s \o t, e)
<1>1. /\ Append(t, e) \in Seq(S) /\ Len(t) \in Nat /\ Len(Append(t, e)) = Len(t) + 1
      /\ \A i \in 1 .. Len(t) : Append(t, e)[i] = t[i]
      /\ Append(t, e)[Len(t) + 1] = e
  BY AppendIs
<1>2. /\ s \o t \in Seq(S) /\ Len(s) \in Nat
      /\ Len(s \o t) = Len(s) + Len(t)
      /\ \A i \in 1 .. Len(s) : (s \o t)[i] = s[i]
      /\ \A i \in 1 .. Len(t) : (s \o t)[Len(s) + i] = t[i]
  BY ConcatIs
<1>3. /\ l \in Seq(S) /\ Len(l) = Len(s) + (Len(t) + 1)
      /\ \A i \in 1 .. Len(s) : l[i] = s[i]
      /\ \A i \in 1 .. Len(t) + 1 : l[Len(s) + i] = Append(t, e)[i]
  BY <1>1, ConcatIs
<1>4. /\ r \in Seq(S) /\ Len(r) = Len(s) + Len(t) + 1
      /\ \A i \in 1 .. Len(s) + Len(t) : r[i] = (s \o t)[i]
      /\ r[Len(s) + Len(t) + 1] = e
  BY <1>2, AppendIs
<1>5. ASSUME NEW i \in 1 .. Len(l) PROVE l[i] = r[i]
  <2> HIDE DEF l, r
  <2>1. CASE i \in 1 .. Len(s)
    <3>1. i \in 1 .. Len(s) + Len(t)
      BY <1>1, <1>2, <2>1
    <3> QED
      BY <1>2, <1>3, <1>4, <2>1, <3>1
  <2>2. CASE i \notin 1 .. Len(s)
    <3>1. PICK k \in 1 .. Len(t) + 1 : i = Len(s) + k
      <4>1. i - Len(s) \in 1 .. Len(t) + 1 /\ i = Len(s) + (i - Len(s))
        BY <1>1, <1>2, <1>3, <2>2
      <4> QED
        BY <4>1
    <3>2. CASE k = Len(t) + 1
      <4>1. l[i] = e
        BY <1>1, <1>3, <3>1, <3>2
      <4>2. i = Len(s) + Len(t) + 1
        BY <1>1, <1>2, <3>1, <3>2
      <4> QED
        BY <1>4, <4>1, <4>2
    <3>3. CASE k # Len(t) + 1
      <4>1. k \in 1 .. Len(t) /\ i \in 1 .. Len(s) + Len(t)
        BY <1>1, <1>2, <3>1, <3>3
      <4>2. l[i] = t[k]
        BY <1>1, <1>3, <3>1, <4>1
      <4>3. r[i] = (s \o t)[Len(s) + k]
        BY <1>4, <3>1, <4>1
      <4> QED
        BY <1>2, <4>1, <4>2, <4>3
    <3> QED
      BY <3>2, <3>3
  <2> QED
    BY <2>1, <2>2
<1>6. Len(l) = Len(r)
  BY <1>1, <1>2, <1>3, <1>4
<1> HIDE DEF l, r
<1>7. l = r
  BY <1>3, <1>4, <1>5, <1>6, SeqEqual
<1> QED
  BY <1>7 DEF l, r

(* Concatenating one element is appending it.                              *)
LEMMA ConcatOne ==
  ASSUME NEW S, NEW s \in Seq(S), NEW e \in S
  PROVE  s \o << e >> = Append(s, e)
<1>1. << >> \in Seq(S) /\ << e >> = Append(<< >>, e)
  OBVIOUS
<1>2. s \o Append(<< >>, e) = Append(s \o << >>, e)
  BY <1>1, ConcatAppend
<1>3. s \o << >> = s
  BY ConcatEmptySeq
<1> QED
  BY <1>1, <1>2, <1>3

(* Concatenation is associative.                                           *)
LEMMA DataAssociative ==
  ASSUME NEW s \in Seq(Nat), NEW t \in Seq(Nat), NEW u \in Seq(Nat)
  PROVE  (s \o t) \o u = s \o (t \o u)
<1> DEFINE a == (s \o t) \o u
           b == s \o (t \o u)
<1>1. /\ s \o t \in Seq(Nat) /\ Len(s \o t) = Len(s) + Len(t)
      /\ \A i \in 1 .. Len(s) + Len(t) :
           (s \o t)[i] = IF i <= Len(s) THEN s[i] ELSE t[i - Len(s)]
  BY ConcatProperties
<1>2. /\ t \o u \in Seq(Nat) /\ Len(t \o u) = Len(t) + Len(u)
      /\ \A i \in 1 .. Len(t) + Len(u) :
           (t \o u)[i] = IF i <= Len(t) THEN t[i] ELSE u[i - Len(t)]
  BY ConcatProperties
<1>3. /\ a \in Seq(Nat) /\ Len(a) = Len(s \o t) + Len(u)
      /\ \A i \in 1 .. Len(s \o t) + Len(u) :
           a[i] = IF i <= Len(s \o t) THEN (s \o t)[i] ELSE u[i - Len(s \o t)]
  BY <1>1, ConcatProperties
<1>4. /\ b \in Seq(Nat) /\ Len(b) = Len(s) + Len(t \o u)
      /\ \A i \in 1 .. Len(s) + Len(t \o u) :
           b[i] = IF i <= Len(s) THEN s[i] ELSE (t \o u)[i - Len(s)]
  BY <1>2, ConcatProperties
<1>5. Len(s) \in Nat /\ Len(t) \in Nat /\ Len(u) \in Nat
  OBVIOUS
<1> HIDE DEF a, b
<1>6. Len(a) = Len(s) + Len(t) + Len(u) /\ Len(b) = Len(a)
  BY <1>1, <1>2, <1>3, <1>4, <1>5
<1>7. ASSUME NEW i \in 1 .. Len(s) + Len(t) + Len(u) PROVE a[i] = b[i]
  <2>0. i \in 1 .. Len(s \o t) + Len(u) /\ i \in 1 .. Len(s) + Len(t \o u)
    BY <1>1, <1>2, <1>5
  <2>1. CASE i <= Len(s)
    <3>1. i \in 1 .. Len(s) + Len(t) /\ i <= Len(s \o t)
      BY <1>1, <1>5, <2>1
    <3>2. a[i] = s[i]
      <4>1. a[i] = (s \o t)[i]
        BY ONLY <1>3, <2>0, <3>1
      <4> QED
        BY ONLY <1>1, <2>1, <3>1, <4>1
    <3>3. b[i] = s[i]
      BY <1>2, <1>4, <1>5, <2>1
    <3> QED
      BY <3>2, <3>3
  <2>2. CASE i > Len(s) /\ i <= Len(s) + Len(t)
    <3>1. /\ i \in 1 .. Len(s) + Len(t) /\ i <= Len(s \o t) /\ ~(i <= Len(s))
          /\ i - Len(s) \in 1 .. Len(t) + Len(u) /\ i - Len(s) <= Len(t)
      BY <1>1, <1>5, <2>2
    <3>2. a[i] = t[i - Len(s)]
      <4>1. a[i] = (s \o t)[i]
        BY ONLY <1>3, <2>0, <3>1
      <4> QED
        BY ONLY <1>1, <3>1, <4>1
    <3>3. b[i] = (t \o u)[i - Len(s)]
      BY ONLY <1>4, <2>0, <3>1
    <3>4. (t \o u)[i - Len(s)] = t[i - Len(s)]
      BY <1>2, <3>1
    <3> QED
      BY <3>2, <3>3, <3>4
  <2>3. CASE i > Len(s) + Len(t)
    <3>1. /\ ~(i <= Len(s \o t)) /\ ~(i <= Len(s))
          /\ i - Len(s) \in 1 .. Len(t) + Len(u) /\ ~(i - Len(s) <= Len(t))
          /\ (i - Len(s)) - Len(t) = i - (Len(s) + Len(t))
      BY <1>1, <1>5, <2>3
    <3>2. a[i] = u[i - (Len(s) + Len(t))]
      <4>1. a[i] = u[i - Len(s \o t)]
        BY ONLY <1>3, <2>0, <3>1
      <4>2. Len(s \o t) = Len(s) + Len(t)
        BY ONLY <1>1
      <4> QED
        BY ONLY <4>1, <4>2
    <3>3. b[i] = (t \o u)[i - Len(s)]
      BY ONLY <1>4, <2>0, <3>1
    <3>4. (t \o u)[i - Len(s)] = u[i - (Len(s) + Len(t))]
      BY <1>2, <3>1
    <3> QED
      BY <3>2, <3>3, <3>4
  <2> QED
    BY <1>5, <2>1, <2>2, <2>3
<1>8. a = b
  BY <1>3, <1>4, <1>6, <1>7, SeqEqual
<1> QED
  BY <1>8 DEF a, b

(* The same, where the sequences have long names.                          *)
Associates(s, t, u) == (s \o t) \o u = s \o (t \o u)

LEMMA DataAssociates ==
  ASSUME NEW s \in Seq(Nat), NEW t \in Seq(Nat), NEW u \in Seq(Nat)
  PROVE  Associates(s, t, u)
BY DataAssociative DEF Associates
(* What is moved from one sequence to the one before it leaves what both    *)
(* are together.                                                           *)
LEMMA MoveHead ==
  ASSUME NEW S, NEW s \in Seq(S), NEW t \in Seq(S), t # << >>
  PROVE  /\ Append(s, Head(t)) \in Seq(S) /\ Tail(t) \in Seq(S)
         /\ Append(s, Head(t)) \o Tail(t) = s \o t
<1> DEFINE a == Append(s, Head(t))
           b == Tail(t)
           l == a \o b
           r == s \o t
<1>1. /\ Head(t) \in S /\ Head(t) = t[1] /\ b \in Seq(S)
      /\ Len(t) \in Nat \ {0} /\ Len(b) = Len(t) - 1
      /\ \A i \in 1 .. Len(b) : b[i] = t[i + 1]
  BY HeadTailProperties, LenProperties
<1>2. /\ a \in Seq(S) /\ Len(s) \in Nat /\ Len(a) = Len(s) + 1
      /\ \A i \in 1 .. Len(s) : a[i] = s[i]
      /\ a[Len(s) + 1] = t[1]
  BY <1>1, AppendIs
<1>3. /\ l \in Seq(S) /\ Len(l) = Len(a) + Len(b)
      /\ \A i \in 1 .. Len(a) : l[i] = a[i]
      /\ \A i \in 1 .. Len(b) : l[Len(a) + i] = b[i]
  <2>1. a \in Seq(S) /\ b \in Seq(S)
    BY <1>1, <1>2
  <2> HIDE DEF a, b
  <2> QED
    BY <2>1, ConcatIs
<1>4. /\ r \in Seq(S) /\ Len(r) = Len(s) + Len(t)
      /\ \A i \in 1 .. Len(s) : r[i] = s[i]
      /\ \A i \in 1 .. Len(t) : r[Len(s) + i] = t[i]
  BY ConcatIs
<1> HIDE DEF a, b, l, r
<1>5. Len(l) = Len(r)
  BY <1>1, <1>2, <1>3, <1>4
<1>6. ASSUME NEW i \in 1 .. Len(l) PROVE l[i] = r[i]
  <2>1. CASE i \in 1 .. Len(s)
    <3>1. i \in 1 .. Len(a)
      BY <1>2, <2>1
    <3> QED
      BY <1>2, <1>3, <1>4, <2>1, <3>1
  <2>2. CASE i = Len(s) + 1
    <3>1. i \in 1 .. Len(a) /\ 1 \in 1 .. Len(t)
      BY <1>1, <1>2, <2>2
    <3>2. l[i] = t[1]
      BY <1>2, <1>3, <2>2, <3>1
    <3>3. r[i] = t[1]
      BY <1>4, <2>2, <3>1
    <3> QED
      BY <3>2, <3>3
  <2>3. CASE i \notin 1 .. Len(s) /\ i # Len(s) + 1
    <3> DEFINE k == i - Len(a)
    <3>1. /\ k \in 1 .. Len(b) /\ i = Len(a) + k
          /\ k + 1 \in 1 .. Len(t) /\ i = Len(s) + (k + 1)
      BY <1>1, <1>2, <1>3, <2>3
    <3> HIDE DEF k
    <3>2. l[i] = t[k + 1]
      BY <1>1, <1>3, <3>1
    <3>3. r[i] = t[k + 1]
      BY <1>4, <3>1
    <3> QED
      BY <3>2, <3>3
  <2> QED
    BY <2>1, <2>2, <2>3
<1>7. l = r
  BY <1>3, <1>4, <1>5, <1>6, SeqEqual
<1> QED
  BY <1>1, <1>2, <1>7 DEF a, b, l, r
-----------------------------------------------------------------------------
(* Prefixes.                                                               *)

(* IsPrefix, position by position.                                         *)
LEMMA PrefixIs ==
  ASSUME NEW S, NEW s \in Seq(S), NEW t \in Seq(S)
  PROVE  IsPrefix(s, t) <=> /\ Len(s) <= Len(t)
                            /\ \A i \in 1 .. Len(s) : s[i] = t[i]
<1> DEFINE a == SubSeq(s, 1, Len(s))
           b == SubSeq(t, 1, Len(s))
<1> SUFFICES ASSUME Len(s) <= Len(t)
             PROVE  a = b <=> \A i \in 1 .. Len(s) : s[i] = t[i]
  BY DEF IsPrefix
<1>1. Len(s) \in Nat /\ Len(t) \in Nat
  BY LenProperties
<1>2. /\ a \in Seq(S) /\ Len(a) = Len(s)
      /\ \A i \in 1 .. Len(s) : a[i] = s[i]
  BY <1>1
<1>3. /\ b \in Seq(S) /\ Len(b) = Len(s)
      /\ \A i \in 1 .. Len(s) : b[i] = t[i]
  BY <1>1
<1> HIDE DEF a, b
<1>4. ASSUME \A i \in 1 .. Len(s) : s[i] = t[i] PROVE a = b
  <2>1. \A i \in 1 .. Len(a) : a[i] = b[i]
    BY <1>2, <1>3, <1>4
  <2> QED
    BY <1>2, <1>3, <2>1, SeqEqual
<1> QED
  BY <1>2, <1>3, <1>4

(* A sequence is a prefix of what extends it.                              *)
LEMMA PrefixOfConcat ==
  ASSUME NEW S, NEW s \in Seq(S), NEW t \in Seq(S)
  PROVE  IsPrefix(s, s \o t)
<1>1. /\ s \o t \in Seq(S) /\ Len(s) \in Nat /\ Len(t) \in Nat
      /\ Len(s \o t) = Len(s) + Len(t)
      /\ \A i \in 1 .. Len(s) : (s \o t)[i] = s[i]
  BY ConcatIs
<1> DEFINE u == s \o t
<1>2. u \in Seq(S) /\ Len(s) <= Len(u) /\ \A i \in 1 .. Len(s) : s[i] = u[i]
  BY <1>1
<1> HIDE DEF u
<1>3. IsPrefix(s, u)
  BY <1>2, PrefixIs
<1> QED
  BY <1>3 DEF u

(* A prefix of a prefix is a prefix.                                       *)
LEMMA PrefixTransitive ==
  ASSUME NEW S, NEW s \in Seq(S), NEW t \in Seq(S), NEW u \in Seq(S),
         IsPrefix(s, t), IsPrefix(t, u)
  PROVE  IsPrefix(s, u)
<1>1. Len(s) \in Nat /\ Len(t) \in Nat /\ Len(u) \in Nat
  BY LenProperties
<1>2. Len(s) <= Len(t) /\ \A i \in 1 .. Len(s) : s[i] = t[i]
  BY PrefixIs
<1>3. Len(t) <= Len(u) /\ \A i \in 1 .. Len(t) : t[i] = u[i]
  BY PrefixIs
<1>4. Len(s) <= Len(u) /\ \A i \in 1 .. Len(s) : s[i] = u[i]
  BY <1>1, <1>2, <1>3
<1> QED
  BY <1>4, PrefixIs

(* The bytes of a stream up to one more.                                    *)
LEMMA BytesGrow ==
  ASSUME NEW n \in Nat
  PROVE  /\ Bytes(1, n) \in Seq(Nat)
         /\ Bytes(1, n + 1) = Append(Bytes(1, n), n + 1)
<1> DEFINE s == Bytes(1, n)
           t == Bytes(1, n + 1)
<1>1. s = [i \in 1 .. n |-> i] /\ t = [i \in 1 .. n + 1 |-> i]
  <2>1. n - 1 + 1 = n /\ (n + 1) - 1 + 1 = n + 1
    OBVIOUS
  <2>2. s = [i \in 1 .. n |-> 1 + i - 1] /\ t = [i \in 1 .. n + 1 |-> 1 + i - 1]
    BY <2>1 DEF Bytes
  <2> QED
    BY <2>2
<1>2. s \in Seq(Nat) /\ Len(s) = n /\ t \in Seq(Nat) /\ Len(t) = n + 1
  BY <1>1
<1> DEFINE a == Append(s, n + 1)
<1>3. /\ a \in Seq(Nat) /\ Len(a) = n + 1
      /\ \A i \in 1 .. n : a[i] = s[i]
      /\ a[n + 1] = n + 1
  <2> HIDE DEF s
  <2> QED
    BY <1>2, AppendIs
<1>4. \A i \in 1 .. n + 1 : a[i] = t[i]
  <2> HIDE DEF a, s, t
  <2>1. \A i \in 1 .. n + 1 : i # n + 1 => i \in 1 .. n
    OBVIOUS
  <2>2. \A i \in 1 .. n : s[i] = i
    BY <1>1
  <2>3. \A i \in 1 .. n + 1 : t[i] = i
    BY <1>1
  <2> QED
    BY <1>3, <2>1, <2>2, <2>3
<1>5. a = t
  <2> HIDE DEF a, s, t
  <2> QED
    BY <1>2, <1>3, <1>4, SeqEqual
<1> QED
  BY <1>2, <1>5

(* Before the first byte there is none.                                    *)
LEMMA BytesEmpty == Bytes(1, 0) = << >>
BY DEF Bytes
-----------------------------------------------------------------------------
(* What the payload of packets is, unit by unit.                            *)

Carried(proc, u) == IF u.part = "body" /\ u.proc = proc THEN u.data ELSE << >>

(* A unit carries bytes.                                                   *)
LEMMA CarriedTyped ==
  ASSUME NEW proc, NEW u \in Unit
  PROVE  Carried(proc, u) \in Seq(Nat)
BY DEF Carried, Unit

(* An empty channel carries nothing.                                       *)
LEMMA DataOfEmpty == ASSUME NEW proc PROVE DataOf(proc, << >>) = << >>
<1> DEFINE f == [i \in 1 .. Len(<< >>) |->
                IF << >>[i].part = "body" /\ << >>[i].proc = proc
                THEN << >>[i].data ELSE << >>]
<1>1. f = << >>
  OBVIOUS
<1>2. FlattenSeq(<< >>) = << >>
  BY DEF FlattenSeq
<1> QED
  BY <1>1, <1>2 DEF DataOf

(* One more unit adds what it carries, behind the rest.                    *)
LEMMA DataOfAppend ==
  ASSUME NEW proc, NEW u \in Seq(Unit), NEW x \in Unit
  PROVE  /\ DataOf(proc, u) \in Seq(Nat)
         /\ DataOf(proc, Append(u, x)) \in Seq(Nat)
         /\ DataOf(proc, Append(u, x)) = DataOf(proc, u) \o Carried(proc, x)
<1> DEFINE v == Append(u, x)
           f == [i \in 1 .. Len(u) |-> Carried(proc, u[i])]
           g == [i \in 1 .. Len(v) |-> Carried(proc, v[i])]
           e == Carried(proc, x)
<1>1. DataOf(proc, u) = FlattenSeq(f) /\ DataOf(proc, v) = FlattenSeq(g)
  BY DEF DataOf, Carried
<1>2. /\ v \in Seq(Unit) /\ Len(u) \in Nat /\ Len(v) = Len(u) + 1
      /\ \A i \in 1 .. Len(u) : v[i] = u[i] /\ u[i] \in Unit
      /\ v[Len(u) + 1] = x
  BY AppendIs, ElementOfSeq
<1>3. e \in Seq(Nat)
  BY CarriedTyped
<1>4. f \in Seq(Seq(Nat)) /\ Len(f) = Len(u)
  <2>1. \A i \in 1 .. Len(u) : Carried(proc, u[i]) \in Seq(Nat)
    BY <1>2, CarriedTyped
  <2> QED
    BY <1>2, <2>1
<1>5. g = Append(f, e)
  <2> DEFINE a == Append(f, e)
  <2>1. /\ a \in Seq(Seq(Nat)) /\ Len(a) = Len(u) + 1
        /\ \A i \in 1 .. Len(u) : a[i] = f[i]
        /\ a[Len(u) + 1] = e
    <3> HIDE DEF f, e
    <3> QED
      BY <1>3, <1>4, AppendIs
  <2>2. \A i \in 1 .. Len(u) + 1 : a[i] = Carried(proc, v[i])
    <3>1. \A i \in 1 .. Len(u) : f[i] = Carried(proc, u[i])
      OBVIOUS
    <3>2. e = Carried(proc, x)
      OBVIOUS
    <3>3. \A i \in 1 .. Len(u) + 1 : i # Len(u) + 1 => i \in 1 .. Len(u)
      BY <1>2
    <3> HIDE DEF a, e, f, v
    <3> QED
      BY <1>2, <2>1, <3>1, <3>2, <3>3
  <2>3. g \in Seq(Seq(Nat)) /\ Len(g) = Len(u) + 1
        /\ \A i \in 1 .. Len(u) + 1 : g[i] = a[i]
    <3>1. \A i \in 1 .. Len(u) + 1 : a[i] \in Seq(Nat)
      <4> HIDE DEF a
      <4> QED
        BY <1>2, <2>1, ElementOfSeq
    <3> HIDE DEF a, v
    <3> QED
      BY <1>2, <2>2, <3>1
  <2> HIDE DEF a, g
  <2>4. g = a
    BY <2>1, <2>3, SeqEqual
  <2> QED
    BY <2>4 DEF a
<1>6. FlattenSeq(f) \in Seq(Nat) /\ FlattenSeq(Append(f, e)) = FlattenSeq(f) \o e
  <2> HIDE DEF f, e
  <2> QED
    BY <1>3, <1>4, FlattenAppend
<1>7. FlattenSeq(f) \o e \in Seq(Nat)
  <2> HIDE DEF f, e
  <2> QED
    BY <1>3, <1>6, ConcatProperties
<1> HIDE DEF f, g, e, v
<1>8. DataOf(proc, v) = DataOf(proc, u) \o e /\ DataOf(proc, u) \in Seq(Nat)
      /\ DataOf(proc, v) \in Seq(Nat)
  BY <1>1, <1>5, <1>6, <1>7
<1> QED
  BY <1>8 DEF v, e
-----------------------------------------------------------------------------
(* A byte of the handshake, and a whole packet, at the end of what is sent. *)

LengthUnit(proc) == [part |-> "length", proc |-> proc, data |-> << >>]
BodyUnit(proc, data) == [part |-> "body", proc |-> proc, data |-> data]

Sendable(proc, data) == /\ proc \in Procs /\ data \in Seq(Nat)
                        /\ proc = "EXIT" => data # << >>

(* The three single bytes are units, different ones, and no exit packets.  *)
LEMMA BytesTyped ==
  /\ Wait \in Unit /\ Sync \in Unit /\ Noise \in Unit
  /\ Wait.part = "byte" /\ Sync.part = "byte" /\ Noise.part = "byte"
  /\ Noise # Sync /\ Noise # Wait /\ Wait # Sync
  /\ Wait.proc # "EXIT" /\ Sync.proc # "EXIT" /\ Noise.proc # "EXIT"
<1>1. << >> \in Seq(Nat)
  OBVIOUS
<1> QED
  BY <1>1 DEF Unit, Wait, Sync, Noise, Byte

(* A packet is a length and a body.                                        *)
LEMMA PacketTyped ==
  ASSUME NEW proc, NEW data, Sendable(proc, data)
  PROVE  /\ LengthUnit(proc) \in Unit /\ BodyUnit(proc, data) \in Unit
         /\ Packet(proc, data) = << LengthUnit(proc), BodyUnit(proc, data) >>
         /\ Packet(proc, data) \in Seq(Unit)
<1>1. << >> \in Seq(Nat)
  OBVIOUS
<1>2. LengthUnit(proc) \in Unit /\ BodyUnit(proc, data) \in Unit
  BY <1>1 DEF Sendable, Unit, LengthUnit, BodyUnit
<1>3. Packet(proc, data) = << LengthUnit(proc), BodyUnit(proc, data) >>
  BY DEF Packet, LengthUnit, BodyUnit
<1>4. << LengthUnit(proc), BodyUnit(proc, data) >> \in Seq(Unit)
  BY <1>2
<1> QED
  BY <1>2, <1>3, <1>4

(* Sending a packet appends its length and then its body.                  *)
LEMMA SendPacket ==
  ASSUME NEW u \in Seq(Unit), NEW proc, NEW data, Sendable(proc, data)
  PROVE  u \o Packet(proc, data)
           = Append(Append(u, LengthUnit(proc)), BodyUnit(proc, data))
<1> DEFINE l == LengthUnit(proc)
           b == BodyUnit(proc, data)
<1>1. l \in Unit /\ b \in Unit /\ Packet(proc, data) = << l, b >>
  BY PacketTyped
<1> HIDE DEF l, b
<1>2. << l >> \in Seq(Unit) /\ << >> \in Seq(Unit)
      /\ << l, b >> = Append(<< l >>, b) /\ << l >> = Append(<< >>, l)
  BY <1>1
<1>3. u \o Append(<< l >>, b) = Append(u \o << l >>, b)
  BY <1>1, <1>2, ConcatAppend
<1>4. u \o Append(<< >>, l) = Append(u \o << >>, l)
  BY <1>1, <1>2, ConcatAppend
<1>5. u \o << >> = u
  BY ConcatEmptySeq
<1>6. u \o << l, b >> = Append(Append(u, l), b)
  BY <1>2, <1>3, <1>4, <1>5
<1> QED
  BY <1>1, <1>6 DEF l, b

(* What is no body carries nothing.                                        *)
LEMMA DataOfByte ==
  ASSUME NEW q, NEW u \in Seq(Unit), NEW x \in Unit, x.part # "body"
  PROVE  /\ DataOf(q, Append(u, x)) = DataOf(q, u)
         /\ DataOf(q, u) \in Seq(Nat)
<1>1. Carried(q, x) = << >>
  BY DEF Carried
<1>2. /\ DataOf(q, Append(u, x)) = DataOf(q, u) \o Carried(q, x)
      /\ DataOf(q, u) \in Seq(Nat)
  BY DataOfAppend
<1>3. DataOf(q, u) \o << >> = DataOf(q, u)
  BY <1>2, ConcatEmptySeq
<1> QED
  BY <1>1, <1>2, <1>3

(* A packet adds its payload to the stream it names.                       *)
LEMMA DataOfPacket ==
  ASSUME NEW q, NEW u \in Seq(Unit), NEW proc, NEW data, Sendable(proc, data)
  PROVE  DataOf(q, u \o Packet(proc, data))
           = IF proc = q THEN DataOf(q, u) \o data ELSE DataOf(q, u)
<1> DEFINE l == LengthUnit(proc)
           b == BodyUnit(proc, data)
           v == Append(u, l)
<1>1. l \in Unit /\ b \in Unit /\ l.part = "length"
  BY PacketTyped DEF LengthUnit
<1>2. Carried(q, b) = IF proc = q THEN data ELSE << >>
  BY DEF Carried, BodyUnit
<1>3. v \in Seq(Unit) /\ DataOf(q, v) = DataOf(q, u) /\ DataOf(q, u) \in Seq(Nat)
  <2> HIDE DEF l
  <2> QED
    BY <1>1, DataOfByte, AppendIs
<1>4. DataOf(q, Append(v, b)) = DataOf(q, v) \o Carried(q, b)
  <2> HIDE DEF v, b
  <2> QED
    BY <1>1, <1>3, DataOfAppend
<1>5. u \o Packet(proc, data) = Append(v, b)
  BY SendPacket
<1>6. DataOf(q, u) \o << >> = DataOf(q, u)
  BY <1>3, ConcatEmptySeq
<1> HIDE DEF v, b
<1> QED
  BY <1>2, <1>3, <1>4, <1>5, <1>6

(* What stands in two sequences is what stands in the first, and behind it *)
(* what stands in the second.                                              *)
LEMMA DataOfConcat ==
  ASSUME NEW proc, NEW u \in Seq(Unit), NEW v \in Seq(Unit)
  PROVE  /\ DataOf(proc, u) \in Seq(Nat) /\ DataOf(proc, v) \in Seq(Nat)
         /\ DataOf(proc, u \o v) = DataOf(proc, u) \o DataOf(proc, v)
<1> DEFINE d(w) == DataOf(proc, w)
           T == {n \in Nat : \A w \in Seq(Unit) : Len(w) = n => d(u \o w) = d(u) \o d(w)}
<1>1. ASSUME NEW w \in Seq(Unit) PROVE d(w) \in Seq(Nat)
  BY DataOfAppend, BytesTyped
<1>2. 0 \in T
  <2>1. ASSUME NEW w \in Seq(Unit), Len(w) = 0 PROVE d(u \o w) = d(u) \o d(w)
    <3>1. w = << >> /\ u \o << >> = u
      BY <2>1, ConcatEmptySeq
    <3>2. d(<< >>) = << >> /\ d(u) \in Seq(Nat)
      BY <1>1, DataOfEmpty
    <3> HIDE DEF d
    <3>3. d(u) \o << >> = d(u)
      BY <3>2, ConcatEmptySeq
    <3> QED
      BY <3>1, <3>2, <3>3
  <2> QED
    BY <2>1
<1>3. ASSUME NEW n \in Nat, n \in T PROVE n + 1 \in T
  <2>1. ASSUME NEW w \in Seq(Unit), Len(w) = n + 1 PROVE d(u \o w) = d(u) \o d(w)
    <3> DEFINE f == SubSeq(w, 1, n)
               x == w[n + 1]
    <3>1. f \in Seq(Unit) /\ Len(f) = n /\ x \in Unit
      BY <2>1
    <3>2. w = Append(f, x)
      <4>1. SubSeq(w, 1, n + 1) = SubSeq(w, 1, (n + 1) - 1) \o << w[n + 1] >>
        BY <2>1, SubSeqRecursiveSecond
      <4>2. SubSeq(w, 1, n + 1) = w /\ (n + 1) - 1 = n
        BY <2>1, SubSeqFull
      <4>3. f \o << x >> = Append(f, x)
        <5> HIDE DEF f, x
        <5> QED
          BY <3>1, ConcatOne
      <4> QED
        BY <4>1, <4>2, <4>3
    <3> HIDE DEF f, x
    <3>3. u \o w = Append(u \o f, x) /\ u \o f \in Seq(Unit)
      BY <3>1, <3>2, ConcatAppend, ConcatProperties
    <3>4. d(Append(u \o f, x)) = d(u \o f) \o Carried(proc, x)
          /\ d(Append(f, x)) = d(f) \o Carried(proc, x)
      BY <3>1, <3>3, DataOfAppend
    <3>5. d(u \o f) = d(u) \o d(f)
      BY <1>3, <3>1
    <3>6. d(u) \in Seq(Nat) /\ d(f) \in Seq(Nat) /\ Carried(proc, x) \in Seq(Nat)
      BY <1>1, <3>1, CarriedTyped
    <3> HIDE DEF d
    <3>7. (d(u) \o d(f)) \o Carried(proc, x) = d(u) \o (d(f) \o Carried(proc, x))
      BY <3>6, DataAssociative
    <3> QED
      BY <3>2, <3>3, <3>4, <3>5, <3>7
  <2> QED
    BY <2>1
<1>4. Nat \subseteq T
  <2> HIDE DEF T
  <2> QED
    BY <1>2, <1>3, InductionOfSet
<1>5. Len(v) \in T
  BY <1>4
<1> QED
  BY <1>1, <1>5

(* What the first unit carries comes first.                                *)
LEMMA DataOfHead ==
  ASSUME NEW proc, NEW u \in Seq(Unit), u # << >>
  PROVE  DataOf(proc, u) = Carried(proc, Head(u)) \o DataOf(proc, Tail(u))
<1> DEFINE x == Head(u)
           t == Tail(u)
<1>1. x \in Unit /\ t \in Seq(Unit) /\ << x >> \in Seq(Unit) /\ << >> \in Seq(Unit)
  BY HeadTailProperties
<1>2. Append(<< >>, x) \o t = << >> \o u /\ << >> \o u = u /\ Append(<< >>, x) = << x >>
  BY MoveHead, ConcatEmptySeq
<1> HIDE DEF x, t
<1>3. DataOf(proc, << x >> \o t) = DataOf(proc, << x >>) \o DataOf(proc, t)
  BY <1>1, DataOfConcat
<1>4. DataOf(proc, Append(<< >>, x)) = DataOf(proc, << >>) \o Carried(proc, x)
  BY <1>1, DataOfAppend
<1>5. << >> \o Carried(proc, x) = Carried(proc, x)
  BY <1>1, CarriedTyped, ConcatEmptySeq
<1>6. DataOf(proc, << x >>) = Carried(proc, x)
  BY <1>2, <1>4, <1>5, DataOfEmpty
<1> QED
  BY <1>2, <1>3, <1>6 DEF x, t

(* Units of which none carries anything carry nothing together.            *)
LEMMA DataOfIdle ==
  ASSUME NEW proc, NEW u \in Seq(Unit),
         \A i \in 1 .. Len(u) : Carried(proc, u[i]) = << >>
  PROVE  DataOf(proc, u) = << >>
<1> DEFINE d(w) == DataOf(proc, w)
           T == {n \in Nat : n <= Len(u) => d(SubSeq(u, 1, n)) = << >>}
<1>1. 0 \in T
  <2>1. SubSeq(u, 1, 0) = << >>
    BY SubSeqEmpty
  <2> QED
    BY <2>1, DataOfEmpty
<1>2. ASSUME NEW n \in Nat, n \in T PROVE n + 1 \in T
  <2>1. ASSUME n + 1 <= Len(u) PROVE d(SubSeq(u, 1, n + 1)) = << >>
    <3> DEFINE f == SubSeq(u, 1, n)
               x == u[n + 1]
    <3>1. f \in Seq(Unit) /\ x \in Unit /\ Carried(proc, x) = << >>
      BY <2>1
    <3>2. SubSeq(u, 1, n + 1) = f \o << x >>
      <4>1. SubSeq(u, 1, n + 1) = SubSeq(u, 1, (n + 1) - 1) \o << u[n + 1] >>
        BY <2>1, SubSeqRecursiveSecond
      <4>2. (n + 1) - 1 = n
        OBVIOUS
      <4> QED
        BY <4>1, <4>2
    <3>3. d(f) = << >>
      BY <1>2, <2>1
    <3> HIDE DEF f, x
    <3>4. f \o << x >> = Append(f, x) /\ d(Append(f, x)) = d(f) \o Carried(proc, x)
      BY <3>1, ConcatOne, DataOfAppend
    <3>5. << >> \o << >> = << >>
      OBVIOUS
    <3> QED
      BY <3>1, <3>2, <3>3, <3>4, <3>5
  <2> QED
    BY <2>1
<1>3. Nat \subseteq T
  <2> HIDE DEF T
  <2> QED
    BY <1>1, <1>2, InductionOfSet
<1>4. Len(u) \in T /\ SubSeq(u, 1, Len(u)) = u /\ Len(u) <= Len(u)
  BY <1>3, SubSeqFull
<1> QED
  BY <1>4

(* The next bytes of a stream are behind the first ones.                   *)
LEMMA BytesMore ==
  ASSUME NEW m \in Nat, NEW n \in Nat
  PROVE  /\ Bytes(1, m) \in Seq(Nat) /\ Bytes(m + 1, m + n) \in Seq(Nat)
         /\ Bytes(1, m) \o Bytes(m + 1, m + n) = Bytes(1, m + n)
<1> DEFINE a == Bytes(1, m)
           b == Bytes(m + 1, m + n)
           c == Bytes(1, m + n)
<1>1. /\ a \in Seq(Nat) /\ Len(a) = m /\ \A i \in 1 .. m : a[i] = i
  BY DEF Bytes
<1>2. /\ b \in Seq(Nat) /\ Len(b) = n /\ \A i \in 1 .. n : b[i] = m + i
  BY DEF Bytes
<1>3. /\ c \in Seq(Nat) /\ Len(c) = m + n /\ \A i \in 1 .. m + n : c[i] = i
  BY DEF Bytes
<1> HIDE DEF a, b, c
<1>4. /\ a \o b \in Seq(Nat) /\ Len(a \o b) = m + n
      /\ \A i \in 1 .. m : (a \o b)[i] = a[i]
      /\ \A i \in 1 .. n : (a \o b)[m + i] = b[i]
  <2>1. a \in Seq(Nat) /\ b \in Seq(Nat) /\ Len(a) = m /\ Len(b) = n
    BY <1>1, <1>2
  <2>2. /\ a \o b \in Seq(Nat) /\ Len(a \o b) = Len(a) + Len(b)
        /\ \A i \in 1 .. Len(a) : (a \o b)[i] = a[i]
        /\ \A i \in 1 .. Len(b) : (a \o b)[Len(a) + i] = b[i]
    <3>1. a \in Seq(Nat) /\ b \in Seq(Nat)
      BY <2>1
    <3> QED
      BY ONLY <3>1, ConcatIs
  <2> QED
    BY <2>1, <2>2
<1>5. ASSUME NEW i \in 1 .. m + n PROVE (a \o b)[i] = c[i]
  <2>1. CASE i <= m
    BY <1>1, <1>3, <1>4, <2>1
  <2>2. CASE ~(i <= m)
    <3>1. PICK k \in 1 .. n : i = m + k
      <4>1. i - m \in 1 .. n /\ i = m + (i - m)
        BY <2>2
      <4> QED
        BY <4>1
    <3> QED
      BY <1>2, <1>3, <1>4, <3>1
  <2> QED
    BY <2>1, <2>2
<1>6. a \o b = c
  BY <1>3, <1>4, <1>5, SeqEqual
<1> QED
  BY <1>1, <1>2, <1>6 DEF a, b, c

(* A single byte after packets cuts none of them.                          *)
LEMMA CutByte ==
  ASSUME NEW u \in Seq(Unit), NEW x \in Unit, x.part = "byte", CutOnlyByExit(u)
  PROVE  /\ CutOnlyByExit(Append(u, x))
         /\ CutsShort(Append(u, x)) => CutsShort(u)
<1> DEFINE v == Append(u, x)
           exit == Head(Packet("EXIT", << >>))
<1>1. /\ Len(u) \in Nat /\ Len(v) = Len(u) + 1
      /\ \A i \in 1 .. Len(u) : v[i] = u[i]
      /\ v[Len(u) + 1] = x
  BY AppendIs
<1> HIDE DEF v, exit
<1>2. ASSUME NEW i \in 1 .. Len(v)
      PROVE  /\ v[i].part = "body" => i > 1 /\ Continues(v[i - 1], v[i])
             /\ v[i].part = "length" =>
                  i < Len(v) /\ (Continues(v[i], v[i + 1]) \/ v[i + 1] = exit)
  <2>1. CASE i = Len(u) + 1
    BY <1>1, <2>1
  <2>2. CASE i # Len(u) + 1
    <3>1. i \in 1 .. Len(u) /\ v[i] = u[i]
      BY <1>1, <2>2
    <3>2. i > 1 => i - 1 \in 1 .. Len(u) /\ v[i - 1] = u[i - 1]
      BY <1>1, <3>1
    <3>3. i < Len(u) => i + 1 \in 1 .. Len(u) /\ v[i + 1] = u[i + 1] /\ i < Len(v)
      BY <1>1, <3>1
    <3>4. /\ u[i].part = "body" => i > 1 /\ Continues(u[i - 1], u[i])
          /\ u[i].part = "length" =>
               i < Len(u) /\ (Continues(u[i], u[i + 1]) \/ u[i + 1] = exit)
      BY <3>1 DEF CutOnlyByExit, exit
    <3> QED
      BY <3>1, <3>2, <3>3, <3>4
  <2> QED
    BY <2>1, <2>2
<1>3. CutOnlyByExit(v)
  BY <1>2 DEF CutOnlyByExit, exit
<1>4. ASSUME NEW i \in 2 .. Len(v), v[i - 1].part = "length", v[i].part = "length"
      PROVE  i \in 2 .. Len(u) /\ u[i - 1].part = "length" /\ u[i].part = "length"
  <2>1. i # Len(u) + 1
    BY <1>1, <1>4
  <2>2. i \in 1 .. Len(u) /\ i - 1 \in 1 .. Len(u)
    BY <1>1, <2>1
  <2> QED
    BY <1>1, <1>4, <2>2
<1>5. CutsShort(v) => CutsShort(u)
  BY <1>4 DEF CutsShort
<1> QED
  BY <1>3, <1>5 DEF v

(* A packet behind a sequence, position by position.                       *)
LEMMA PacketAfter ==
  ASSUME NEW u \in Seq(Unit), NEW proc, NEW data, Sendable(proc, data)
  PROVE  LET v == u \o Packet(proc, data)
         IN  /\ v \in Seq(Unit) /\ Len(u) \in Nat /\ Len(v) = Len(u) + 2
             /\ \A i \in 1 .. Len(u) : v[i] = u[i]
             /\ v[Len(u) + 1] = LengthUnit(proc) /\ v[Len(u) + 2] = BodyUnit(proc, data)
<1> DEFINE l == LengthUnit(proc)
           b == BodyUnit(proc, data)
           w == Append(u, l)
           v == Append(w, b)
<1>1. l \in Unit /\ b \in Unit
  BY PacketTyped
<1>2. u \o Packet(proc, data) = v
  BY SendPacket
<1> HIDE DEF l, b
<1>3. /\ w \in Seq(Unit) /\ Len(u) \in Nat /\ Len(w) = Len(u) + 1
      /\ \A i \in 1 .. Len(u) : w[i] = u[i]
      /\ w[Len(u) + 1] = l
  BY <1>1, AppendIs
<1> HIDE DEF w
<1>4. /\ v \in Seq(Unit) /\ Len(v) = Len(w) + 1
      /\ \A i \in 1 .. Len(w) : v[i] = w[i]
      /\ v[Len(w) + 1] = b
  BY <1>1, <1>3, AppendIs
<1> HIDE DEF v
<1>5. \A i \in 1 .. Len(u) : i \in 1 .. Len(w)
  BY <1>3
<1>6. Len(u) + 1 \in 1 .. Len(w) /\ Len(w) + 1 = Len(u) + 2
  BY <1>3
<1>7. /\ v \in Seq(Unit) /\ Len(u) \in Nat /\ Len(v) = Len(u) + 2
      /\ \A i \in 1 .. Len(u) : v[i] = u[i]
      /\ v[Len(u) + 1] = l /\ v[Len(u) + 2] = b
  BY <1>3, <1>4, <1>5, <1>6
<1> QED
  BY <1>2, <1>7 DEF l, b

(* A packet behind those that are out, when all is out or it reports the    *)
(* exit and takes the place of what is left.                               *)
LEMMA CutPacket ==
  ASSUME NEW u \in Seq(Unit), NEW t \in Seq(Unit), NEW proc, NEW data, Sendable(proc, data),
         CutOnlyByExit(u \o t), t = << >> \/ proc = "EXIT"
  PROVE  /\ CutOnlyByExit(u \o Packet(proc, data))
         /\ CutsShort(u \o Packet(proc, data)) => CutsShort(u \o t) \/ t # << >>
<1> DEFINE w == Packet(proc, data)
           v == u \o w
           s == u \o t
           n == Len(u)
           exit == Head(Packet("EXIT", << >>))
<1>1. /\ v \in Seq(Unit) /\ n \in Nat /\ Len(v) = n + 2
      /\ \A i \in 1 .. n : v[i] = u[i]
      /\ v[n + 1] = LengthUnit(proc) /\ v[n + 2] = BodyUnit(proc, data)
  BY PacketAfter
<1>2. /\ Len(t) \in Nat /\ Len(s) = n + Len(t)
      /\ \A i \in 1 .. n : s[i] = u[i]
      /\ t = << >> => Len(t) = 0
  BY ConcatIs
<1>3. exit = LengthUnit("EXIT")
  BY DEF Packet, LengthUnit
<1>4. CutOnlyByExit(s)
  OBVIOUS
<1> HIDE DEF v, s, n, w, exit
<1>5. /\ Continues(v[n + 1], v[n + 2])
      /\ v[n + 1].part = "length" /\ v[n + 2].part = "body"
      /\ proc = "EXIT" => v[n + 1] = exit
  BY <1>1, <1>3 DEF Continues, LengthUnit, BodyUnit
<1>6. ASSUME NEW i \in 1 .. n
      PROVE  /\ s[i] = v[i] /\ i \in 1 .. Len(s)
             /\ i > 1 => i - 1 \in 1 .. n /\ s[i - 1] = v[i - 1]
             /\ i < n => i + 1 \in 1 .. n /\ s[i + 1] = v[i + 1]
  BY <1>1, <1>2
<1>7. ASSUME NEW i \in 1 .. n
      PROVE  /\ v[i].part = "body" => i > 1 /\ Continues(v[i - 1], v[i])
             /\ v[i].part = "length" => \/ i < n /\ Continues(v[i], v[i + 1])
                                        \/ i < n /\ v[i + 1] = exit
                                        \/ i = n /\ proc = "EXIT" /\ t # << >>
  <2>1. /\ s[i].part = "body" => i > 1 /\ Continues(s[i - 1], s[i])
        /\ s[i].part = "length" =>
             i < Len(s) /\ (Continues(s[i], s[i + 1]) \/ s[i + 1] = exit)
    BY <1>4, <1>6 DEF CutOnlyByExit, exit
  <2>2. i < Len(s) => i < n \/ (i = n /\ proc = "EXIT" /\ t # << >>)
    BY <1>1, <1>2
  <2> QED
    BY <1>6, <2>1, <2>2
<1>8. \A i \in 1 .. Len(v) : i \in 1 .. n \/ i = n + 1 \/ i = n + 2
  BY <1>1
<1>9. ASSUME NEW i \in 1 .. Len(v)
      PROVE  /\ v[i].part = "body" => i > 1 /\ Continues(v[i - 1], v[i])
             /\ v[i].part = "length" =>
                  i < Len(v) /\ (Continues(v[i], v[i + 1]) \/ v[i + 1] = exit)
  <2>1. CASE i = n + 1
    <3>1. i + 1 = n + 2 /\ i < Len(v)
      BY <1>1, <2>1
    <3> QED
      BY <1>5, <2>1, <3>1
  <2>2. CASE i = n + 2
    <3>1. i - 1 = n + 1 /\ i > 1
      BY <1>1, <2>2
    <3> QED
      BY <1>5, <2>2, <3>1
  <2>3. CASE i \in 1 .. n
    <3>1. i < Len(v)
      BY <1>1, <2>3
    <3> QED
      BY <1>5, <1>7, <2>3, <3>1
  <2> QED
    BY <1>8, <2>1, <2>2, <2>3
<1>10. CutOnlyByExit(v)
  BY <1>9 DEF CutOnlyByExit, exit
<1>11. ASSUME NEW i \in 2 .. Len(v), v[i - 1].part = "length", v[i].part = "length",
              t = << >>
       PROVE  i \in 2 .. Len(s) /\ s[i - 1].part = "length" /\ s[i].part = "length"
  <2>1. i # n + 2
    BY <1>5, <1>11
  <2>2. i # n + 1
    <3>1. i = n + 1 => i - 1 = n /\ n \in 1 .. n
      BY <1>1, <1>11
    <3>2. n \in 1 .. n => v[n].part # "length"
      BY <1>7, <1>11, <1>1
    <3> QED
      BY <1>11, <3>1, <3>2
  <2>3. i \in 1 .. n /\ i > 1
    BY <1>1, <2>1, <2>2
  <2> QED
    BY <1>2, <1>6, <1>11, <2>3
<1>12. CutsShort(v) => CutsShort(s) \/ t # << >>
  BY <1>11 DEF CutsShort
<1> QED
  BY <1>10, <1>12 DEF v, s, w
=============================================================================
