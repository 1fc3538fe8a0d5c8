---------------------------- MODULE HandOverProofs ----------------------------
(***************************************************************************)
(* Theorems about what virt-sandbox hands over to its guest: for any hosts, *)
(* kernels and options, what the guest sets up is what was asked for.       *)
(*                                                                         *)
(* The order is that of the program: sequences and the choices made of them, *)
(* the names of the devices, the modules, the options, the start, the boot,  *)
(* the mounts, the configuration file, the set-up of the guest.             *)
(***************************************************************************)
EXTENDS HandOver, SequenceTheorems, FiniteSetTheorems, TLAPS

(* The lemmas on sequences that the traffic of the console needed as well. *)
R == INSTANCE RpcTrafficProofs WITH Cap <- 1, toGuest <- << >>, toHost <- << >>

-----------------------------------------------------------------------------
(* Sequences, and what is chosen of them.                                  *)

(* Flattening one sequence more.                                           *)
LEMMA FlattenAppend ==
  ASSUME NEW S, NEW s \in Seq(Seq(S)), NEW e \in Seq(S)
  PROVE  FlattenSeq(s) \in Seq(S) /\ FlattenSeq(Append(s, e)) = FlattenSeq(s) \o e
<1>1. \A x : R!FlattenSeq(x) = FlattenSeq(x)
  BY DEF FlattenSeq, R!FlattenSeq
<1>2. 1 \in Nat \ {0}
  OBVIOUS
<1> QED
  BY <1>1, <1>2, R!FlattenAppend

(* What one element adds to a choice.                                      *)
Piece(e, K) == IF e \in K THEN << e >> ELSE << >>
Pieces(s, K) == [i \in 1 .. Len(s) |-> Piece(s[i], K)]

(* The elements of s that are in K, in their order.                        *)
Chosen(s, K) == FlattenSeq(Pieces(s, K))

(* The pieces of a choice, one for each element.                           *)
LEMMA PiecesTyped ==
  ASSUME NEW S, NEW s \in Seq(S), NEW K
  PROVE  Pieces(s, K) \in Seq(Seq(S)) /\ Len(Pieces(s, K)) = Len(s)
<1>1. Len(s) \in Nat /\ \A i \in 1 .. Len(s) : s[i] \in S
  BY ElementOfSeq
<1>2. ASSUME NEW e \in S PROVE Piece(e, K) \in Seq(S)
  BY DEF Piece
<1>3. Pieces(s, K) \in [1 .. Len(s) -> Seq(S)]
  BY <1>1, <1>2 DEF Pieces
<1>4. Pieces(s, K) \in Seq(Seq(S))
  BY <1>1, <1>3, IsASeq DEF Pieces
<1> QED
  BY <1>1, <1>3, <1>4, LenProperties DEF Pieces

(* Nothing is chosen of nothing.                                           *)
LEMMA ChosenEmpty ==
  ASSUME NEW K PROVE Chosen(<< >>, K) = << >>
<1>1. Pieces(<< >>, K) = << >>
  BY DEF Pieces
<1> QED
  BY <1>1 DEF Chosen, FlattenSeq

(* An element behind the others is chosen behind the others, or not at     *)
(* all.                                                                    *)
LEMMA ChosenAppend ==
  ASSUME NEW S, NEW s \in Seq(S), NEW e \in S, NEW K
  PROVE  /\ Chosen(s, K) \in Seq(S)
         /\ Chosen(Append(s, e), K) = IF e \in K THEN Append(Chosen(s, K), e) ELSE Chosen(s, K)
<1> DEFINE t == Append(s, e)
           p == Pieces(s, K)
           q == Pieces(t, K)
<1>1. /\ t \in Seq(S) /\ Len(s) \in Nat /\ Len(t) = Len(s) + 1 /\ t[Len(s) + 1] = e
      /\ \A i \in 1 .. Len(s) : t[i] = s[i]
  BY AppendProperties, ElementOfSeq
<1>2. p \in Seq(Seq(S)) /\ q \in Seq(Seq(S)) /\ Len(p) = Len(s) /\ Len(q) = Len(t)
  BY <1>1, PiecesTyped
<1>3. Piece(e, K) \in Seq(S)
  <2>1. << e >> \in Seq(S) /\ << >> \in Seq(S)
    OBVIOUS
  <2> QED
    BY ONLY <2>1 DEF Piece
<1>4. q = Append(p, Piece(e, K))
  <2>1. Append(p, Piece(e, K)) \in Seq(Seq(S)) /\ Len(Append(p, Piece(e, K))) = Len(q)
    BY <1>1, <1>2, <1>3, AppendProperties
  <2>2. ASSUME NEW i \in 1 .. Len(q) PROVE q[i] = Append(p, Piece(e, K))[i]
    <3>1. i \in 1 .. Len(t) /\ q[i] = Piece(t[i], K)
      BY <1>1, <1>2 DEF Pieces
    <3>2. CASE i = Len(s) + 1
      BY <1>1, <1>2, <1>3, <3>1, <3>2, AppendProperties
    <3>3. CASE i # Len(s) + 1
      <4>1. i \in 1 .. Len(s) /\ i \in 1 .. Len(p)
        BY <1>1, <1>2, <3>3
      <4>2. p[i] = Piece(s[i], K) /\ Append(p, Piece(e, K))[i] = p[i]
        BY <1>2, <1>3, <4>1, AppendProperties DEF Pieces
      <4> QED
        BY <1>1, <3>1, <4>1, <4>2
    <3> QED
      BY <3>2, <3>3
  <2> HIDE DEF p, q
  <2> QED
    BY <1>2, <2>1, <2>2, SeqEqual
<1>5. FlattenSeq(p) \in Seq(S) /\ FlattenSeq(q) = FlattenSeq(p) \o Piece(e, K)
  <2> HIDE DEF p, q
  <2> QED
    BY <1>2, <1>3, <1>4, FlattenAppend
<1>6. CASE e \in K
  <2>1. Chosen(s, K) \o << e >> = Append(Chosen(s, K), e)
    BY <1>5 DEF Chosen
  <2> QED
    BY <1>5, <1>6, <2>1 DEF Chosen, Piece
<1>7. CASE e \notin K
  <2>1. Chosen(s, K) \o << >> = Chosen(s, K)
    BY <1>5, ConcatEmptySeq DEF Chosen
  <2> QED
    BY <1>5, <1>7, <2>1 DEF Chosen, Piece
<1> QED
  BY <1>5, <1>6, <1>7 DEF Chosen

(* What is chosen of the first j elements.                                 *)
ChosenTo(s, j, K) == Chosen(SubSeq(s, 1, j), K)

(* j is the place after h.                                                 *)
Follows(j, h, s) == h \in Nat /\ j = h + 1 /\ j \in 1 .. Len(s)

(* One element more.                                                       *)
LEMMA ChosenStep ==
  ASSUME NEW S, NEW s \in Seq(S), NEW K, NEW j, NEW h, Follows(j, h, s)
  PROVE  /\ ChosenTo(s, h, K) \in Seq(S) /\ s[j] \in S
         /\ ChosenTo(s, j, K) = IF s[j] \in K THEN Append(ChosenTo(s, h, K), s[j])
                                ELSE ChosenTo(s, h, K)
<1> DEFINE p == SubSeq(s, 1, h)
           q == SubSeq(s, 1, j)
           e == s[j]
<1>1. /\ Len(s) \in Nat /\ \A i \in 1 .. Len(s) : s[i] \in S
      /\ h \in Nat /\ j = h + 1 /\ j \in 1 .. Len(s)
  BY ElementOfSeq, LenProperties DEF Follows
<1>2. e \in S
  BY <1>1
<1>3. \A i \in 1 .. j : s[i] \in S
  BY <1>1
<1>4. p \in Seq(S) /\ Len(p) = h /\ \A i \in 1 .. h : p[i] = s[i]
  <2>1. \A i \in 1 .. h : s[i] \in S
    BY <1>1, <1>3
  <2> QED
    BY <1>1, <2>1, SubSeqProperties
<1>5. q \in Seq(S) /\ Len(q) = j /\ \A i \in 1 .. j : q[i] = s[i]
  BY <1>1, <1>3, SubSeqProperties
<1> HIDE DEF p, q, e
<1>6. q = Append(p, e)
  <2>1. /\ Append(p, e) \in Seq(S) /\ Len(Append(p, e)) = j
        /\ \A i \in 1 .. h : Append(p, e)[i] = p[i]
        /\ Append(p, e)[j] = e
    BY <1>1, <1>2, <1>4, AppendProperties
  <2>2. \A i \in 1 .. j : q[i] = Append(p, e)[i]
    BY <1>1, <1>4, <1>5, <2>1 DEF e
  <2> QED
    BY <1>1, <1>5, <2>1, <2>2, SeqEqual
<1>7. p \in Seq(S) /\ e \in S
  BY <1>2, <1>4
<1>8. /\ Chosen(p, K) \in Seq(S)
      /\ Chosen(Append(p, e), K) = IF e \in K THEN Append(Chosen(p, K), e) ELSE Chosen(p, K)
  BY ONLY <1>7, ChosenAppend, Zenon
<1> QED
  BY <1>2, <1>6, <1>8 DEF ChosenTo, p, q, e

(* The choices from the first elements begin with nothing and end with     *)
(* all.                                                                    *)
LEMMA ChosenToAll ==
  ASSUME NEW S, NEW s \in Seq(S), NEW K
  PROVE  /\ ChosenTo(s, 0, K) = << >>
         /\ ChosenTo(s, Len(s), K) = Chosen(s, K)
         /\ \A j \in 0 .. Len(s) : ChosenTo(s, j, K) \in Seq(S)
<1>1. SubSeq(s, 1, 0) = << >>
  BY SubSeqEmpty
<1>2. SubSeq(s, 1, Len(s)) = s
  BY SubSeqFull
<1>3. ASSUME NEW j \in 0 .. Len(s) PROVE ChosenTo(s, j, K) \in Seq(S)
  <2>1. CASE j = 0
    BY <1>1, <2>1, ChosenEmpty, EmptySeq DEF ChosenTo
  <2>2. CASE j # 0
    <3>1. PICK h \in Nat : Follows(j, h, s)
      <4>1. j - 1 \in Nat /\ j = (j - 1) + 1 /\ j \in 1 .. Len(s)
        BY <2>2, LenProperties
      <4> QED
        BY <4>1 DEF Follows
    <3>2. /\ ChosenTo(s, h, K) \in Seq(S) /\ s[j] \in S
          /\ ChosenTo(s, j, K) = IF s[j] \in K THEN Append(ChosenTo(s, h, K), s[j])
                                 ELSE ChosenTo(s, h, K)
      BY <3>1, ChosenStep
    <3> QED
      BY <3>2, AppendProperties
  <2> QED
    BY <2>1, <2>2
<1> QED
  BY <1>1, <1>2, <1>3, ChosenEmpty DEF ChosenTo

(* An element that is chosen stands behind those chosen before it.         *)
LEMMA ChosenPlace ==
  ASSUME NEW S, NEW s \in Seq(S), NEW K, NEW i \in 1 .. Len(s), s[i] \in K
  PROVE  /\ Len(ChosenTo(s, i - 1, K)) \in Nat
         /\ Len(ChosenTo(s, i - 1, K)) + 1 \in 1 .. Len(Chosen(s, K))
         /\ Chosen(s, K)[Len(ChosenTo(s, i - 1, K)) + 1] = s[i]
<1> DEFINE n == Len(ChosenTo(s, i - 1, K))
           Stands(j) == n + 1 \in 1 .. Len(ChosenTo(s, j, K)) /\ ChosenTo(s, j, K)[n + 1] = s[i]
           T == {j \in Nat : j \in i .. Len(s) => Stands(j)}
<1>1. Len(s) \in Nat /\ i - 1 \in Nat /\ i - 1 \in 0 .. Len(s)
  BY LenProperties
<1>2. n \in Nat
  BY <1>1, ChosenToAll, LenProperties
<1>3. Stands(i)
  <2>1. PICK h \in Nat : h = i - 1 /\ Follows(i, h, s)
    BY <1>1 DEF Follows
  <2>2. /\ ChosenTo(s, h, K) \in Seq(S) /\ s[i] \in S
        /\ ChosenTo(s, i, K) = Append(ChosenTo(s, h, K), s[i])
    BY <2>1, ChosenStep
  <2>3. /\ Len(Append(ChosenTo(s, h, K), s[i])) = Len(ChosenTo(s, h, K)) + 1
        /\ Append(ChosenTo(s, h, K), s[i])[Len(ChosenTo(s, h, K)) + 1] = s[i]
    BY <2>2, AppendProperties
  <2> QED
    BY <1>2, <2>1, <2>2, <2>3
<1> HIDE DEF n
<1>4. ASSUME NEW h \in Nat, h \in T PROVE h + 1 \in T
  <2> DEFINE j == h + 1
  <2> SUFFICES ASSUME j \in i .. Len(s) PROVE Stands(j)
    OBVIOUS
  <2>1. CASE j = i
    BY <1>3, <2>1
  <2>2. CASE j # i
    <3>1. j \in 1 .. Len(s) /\ j = h + 1 /\ h \in i .. Len(s)
      BY <1>1, <2>2
    <3> HIDE DEF j
    <3>2. Stands(h)
      BY <1>4, <3>1
    <3> DEFINE a == ChosenTo(s, h, K)
               e == s[j]
    <3>3. a \in Seq(S) /\ e \in S /\ ChosenTo(s, j, K) \in {Append(a, e), a}
      <4>1. /\ ChosenTo(s, h, K) \in Seq(S) /\ s[j] \in S
            /\ ChosenTo(s, j, K) = IF s[j] \in K THEN Append(ChosenTo(s, h, K), s[j])
                                   ELSE ChosenTo(s, h, K)
        <5>1. Follows(j, h, s)
          BY <3>1 DEF Follows
        <5> QED
          BY <5>1, ChosenStep
      <4> QED
        BY <4>1
    <3>4. n + 1 \in 1 .. Len(a) /\ a[n + 1] = s[i]
      BY <3>2
    <3> HIDE DEF a, e
    <3>5. /\ Len(Append(a, e)) = Len(a) + 1 /\ Len(a) \in Nat
          /\ \A k \in 1 .. Len(a) : Append(a, e)[k] = a[k]
      BY <3>3, AppendProperties, LenProperties
    <3>6. CASE ChosenTo(s, j, K) = a
      BY ONLY <3>4, <3>6
    <3>7. CASE ChosenTo(s, j, K) = Append(a, e)
      <4>1. n + 1 \in 1 .. Len(Append(a, e))
        BY <1>2, <3>4, <3>5
      <4>2. Append(a, e)[n + 1] = s[i]
        BY ONLY <3>4, <3>5
      <4> QED
        BY ONLY <3>7, <4>1, <4>2
    <3> QED
      BY ONLY <3>3, <3>6, <3>7
  <2> QED
    BY <2>1, <2>2
<1>5. 0 \in T
  OBVIOUS
<1>6. Nat \subseteq T
  <2> HIDE DEF T
  <2>1. \A h \in Nat : h \in T => h + 1 \in T
    BY <1>4
  <2> QED
    BY ONLY <1>5, <2>1, R!InductionOfSet
<1>7. Stands(Len(s))
  <2>1. Len(s) \in T /\ Len(s) \in i .. Len(s)
    BY <1>1, <1>6
  <2> HIDE DEF Stands
  <2> QED
    BY <2>1
<1> QED
  BY <1>2, <1>7, ChosenToAll DEF n

(* x is the k-th that is chosen, and one of the first j elements.          *)
Comes(s, K, j, k, x) == \E i \in 1 .. j : s[i] \in K /\ x = s[i] /\ Len(ChosenTo(s, i - 1, K)) = k - 1

(* Whatever is chosen is an element, and stands at its place.              *)
LEMMA ChosenFrom ==
  ASSUME NEW S, NEW s \in Seq(S), NEW K, NEW k \in 1 .. Len(Chosen(s, K))
  PROVE  Comes(s, K, Len(s), k, Chosen(s, K)[k])
<1> DEFINE All(j) == \A m \in 1 .. Len(ChosenTo(s, j, K)) : Comes(s, K, j, m, ChosenTo(s, j, K)[m])
           T == {j \in Nat : j \in 0 .. Len(s) => All(j)}
<1>1. 0 \in T
  <2>1. Len(<< >>) = 0 /\ ChosenTo(s, 0, K) = << >>
    BY ChosenToAll
  <2> QED
    BY <2>1
<1>2. ASSUME NEW h \in Nat, h \in T PROVE h + 1 \in T
  <2> DEFINE j == h + 1
  <2> SUFFICES ASSUME j \in 0 .. Len(s) PROVE All(j)
    OBVIOUS
  <2>1. Follows(j, h, s) /\ h \in 0 .. Len(s) /\ j \in Nat /\ h = j - 1 /\ j \in 1 .. j
    BY LenProperties DEF Follows
  <2>2. All(h)
    BY <1>2, <2>1
  <2>3. \A i \in 1 .. h : i \in 1 .. j
    BY <2>1
  <2> HIDE DEF j
  <2> DEFINE a == ChosenTo(s, h, K)
             e == s[j]
  <2>4. /\ a \in Seq(S) /\ e \in S
        /\ ChosenTo(s, j, K) = IF e \in K THEN Append(a, e) ELSE a
    BY <2>1, ChosenStep
  <2>5. ASSUME NEW m \in 1 .. Len(a) PROVE Comes(s, K, j, m, a[m])
    BY <2>2, <2>3, <2>5 DEF Comes
  <2>6. Len(a) = Len(ChosenTo(s, j - 1, K))
    BY <2>1
  <2> HIDE DEF a
  <2>7. CASE e \in K
    <3>1. /\ Len(Append(a, e)) = Len(a) + 1 /\ Len(a) \in Nat
          /\ \A m \in 1 .. Len(a) : Append(a, e)[m] = a[m]
          /\ Append(a, e)[Len(a) + 1] = e
      BY <2>4, AppendProperties, LenProperties
    <3>2. Comes(s, K, j, Len(a) + 1, e)
      <4>1. Len(ChosenTo(s, j - 1, K)) = (Len(a) + 1) - 1
        BY <2>6, <3>1
      <4> QED
        BY <2>1, <2>7, <4>1 DEF Comes
    <3>3. ASSUME NEW m \in 1 .. Len(Append(a, e)) PROVE Comes(s, K, j, m, Append(a, e)[m])
      <4>1. m = Len(a) + 1 \/ m \in 1 .. Len(a)
        BY <3>1
      <4>2. CASE m = Len(a) + 1
        BY <3>1, <3>2, <4>2
      <4>3. CASE m \in 1 .. Len(a)
        BY <2>5, <3>1, <4>3
      <4> QED
        BY <4>1, <4>2, <4>3
    <3>4. ChosenTo(s, j, K) = Append(a, e)
      BY <2>4, <2>7
    <3> QED
      BY <3>3, <3>4
  <2>8. CASE e \notin K
    BY <2>4, <2>5, <2>8
  <2> QED
    BY <2>7, <2>8
<1>3. Nat \subseteq T
  <2> HIDE DEF T
  <2> QED
    BY <1>1, <1>2, R!InductionOfSet
<1>4. All(Len(s))
  <2>1. Len(s) \in T /\ Len(s) \in 0 .. Len(s)
    BY <1>3, LenProperties
  <2> HIDE DEF All
  <2> QED
    BY <2>1
<1> QED
  BY <1>4, ChosenToAll

(* A choice is a sequence of the same elements.                            *)
LEMMA ChosenTyped ==
  ASSUME NEW S, NEW s \in Seq(S), NEW K
  PROVE  Chosen(s, K) \in Seq(S) /\ Len(Chosen(s, K)) \in Nat
<1>1. Len(s) \in 0 .. Len(s)
  BY LenProperties
<1> QED
  BY <1>1, ChosenToAll, LenProperties

(* The elements of a sequence, with or without a choice.                   *)
LEMMA ChosenElements ==
  ASSUME NEW S, NEW s \in Seq(S), NEW K
  PROVE  /\ \A i \in 1 .. Len(s) : s[i] \in K =>
                \E k \in 1 .. Len(Chosen(s, K)) : Chosen(s, K)[k] = s[i]
         /\ Range(Chosen(s, K)) = {s[i] : i \in 1 .. Len(s)} \cap K
<1>1. ASSUME NEW i \in 1 .. Len(s), s[i] \in K
      PROVE  \E k \in 1 .. Len(Chosen(s, K)) : Chosen(s, K)[k] = s[i]
  BY <1>1, ChosenPlace
<1>2. DOMAIN Chosen(s, K) = 1 .. Len(Chosen(s, K))
  BY ChosenTyped, LenProperties
<1>3. \A k \in 1 .. Len(Chosen(s, K)) : \E i \in 1 .. Len(s) : s[i] \in K /\ Chosen(s, K)[k] = s[i]
  BY ChosenFrom DEF Comes
<1>4. Range(Chosen(s, K)) = {Chosen(s, K)[k] : k \in 1 .. Len(Chosen(s, K))}
  BY <1>2 DEF Range
<1>5. \A x \in Range(Chosen(s, K)) : x \in {s[i] : i \in 1 .. Len(s)} \cap K
  BY <1>3, <1>4
<1>6. \A x \in {s[i] : i \in 1 .. Len(s)} \cap K : x \in Range(Chosen(s, K))
  BY <1>1, <1>4
<1> QED
  BY <1>1, <1>5, <1>6

-----------------------------------------------------------------------------
(* The names of the devices.                                               *)

(* What the options can put into a configuration: the mounts, ...          *)
MountTypes == {"host-bind", "host-image", "guest-bind", "ram"}

(* ... where under a mount an include can go, ...                          *)
Destinations == {RelGuest(m.target, i.guest) : m \in Mounts, i \in Includes}

(* ... the tables of includes, ...                                         *)
IncludeTables ==
  UNION {[D -> {i.host : i \in Includes}] : D \in {X \in SUBSET Destinations : IsFiniteSet(X)}}

(* ... and a mount with them.                                              *)
MountSet == [ type : MountTypes, target : {m.target : m \in Mounts},
              source : {m.source : m \in Mounts},
              usage : {OptionUsage(m.usage) : m \in Mounts}, includes : IncludeTables ]

(* The mounts of one type.                                                 *)
OfKind(t) == {m \in MountSet : m.type = t}

(* Mounts of one kind are counted, or collected, by the same choice.       *)
LEMMA Kinds ==
  ASSUME NEW c, c.mounts \in Seq(MountSet), NEW t
  PROVE  /\ OfType(c, t) = Chosen(c.mounts, OfKind(t))
         /\ \A i \in 1 .. Len(c.mounts) :
               Before(c, i, t) = Len(ChosenTo(c.mounts, i - 1, OfKind(t)))
<1>1. ASSUME NEW s \in Seq(MountSet)
      PROVE  FlattenSeq([i \in DOMAIN s |-> IF s[i].type = t THEN << s[i] >> ELSE << >>])
               = Chosen(s, OfKind(t))
  <2>1. DOMAIN s = 1 .. Len(s) /\ \A i \in 1 .. Len(s) : s[i] \in MountSet
    BY LenProperties, ElementOfSeq
  <2>2. [i \in DOMAIN s |-> IF s[i].type = t THEN << s[i] >> ELSE << >>] = Pieces(s, OfKind(t))
    BY <2>1 DEF Pieces, Piece, OfKind
  <2> QED
    BY <2>2 DEF Chosen
<1>2. OfType(c, t) = Chosen(c.mounts, OfKind(t))
  BY <1>1 DEF OfType, Select
<1>3. ASSUME NEW i \in 1 .. Len(c.mounts)
      PROVE  Before(c, i, t) = Len(ChosenTo(c.mounts, i - 1, OfKind(t)))
  <2> DEFINE p == SubSeq(c.mounts, 1, i - 1)
  <2>1. p \in Seq(MountSet)
    <3>1. \A k \in 1 .. i - 1 : c.mounts[k] \in MountSet
      BY ElementOfSeq, LenProperties
    <3> QED
      BY <3>1, SubSeqProperties
  <2>2. Before(c, i, t) = Len(Select(p, LAMBDA m : m.type = t))
    BY DEF Before
  <2> HIDE DEF p
  <2>3. Select(p, LAMBDA m : m.type = t) = Chosen(p, OfKind(t))
    BY <1>1, <2>1 DEF Select
  <2> QED
    BY <2>2, <2>3 DEF ChosenTo, p
<1> QED
  BY <1>2, <1>3

(* Everything in S has its source in V.                                    *)
Sourced(S, V) == \A x \in S : x.source \in V

(* The sources of a list.                                                  *)
LEMMA SourcesTyped ==
  ASSUME NEW S, NEW V, NEW list \in Seq(S), Sourced(S, V)
  PROVE  /\ Sources(list) \in Seq(V) /\ Len(Sources(list)) = Len(list)
         /\ \A i \in 1 .. Len(list) : Sources(list)[i] = list[i].source
<1>1. /\ Len(list) \in Nat /\ DOMAIN list = 1 .. Len(list)
      /\ \A i \in 1 .. Len(list) : list[i] \in S
  BY LenProperties, ElementOfSeq
<1>2. Sources(list) \in [1 .. Len(list) -> V]
  BY <1>1 DEF Sources, Sourced
<1>3. Sources(list) \in Seq(V)
  BY <1>1, <1>2, SeqDef
<1> QED
  BY <1>1, <1>2, <1>3, LenProperties DEF Sources

(* The device of a name that was counted.                                  *)
LEMMA NumberedAt ==
  ASSUME NEW V, NEW q \in Seq(V), NEW p, NEW n \in 1 .. Len(q)
  PROVE  {x \in Numbered(p, q) : x.dev = << p, n - 1 >>}
           = {[dev |-> << p, n - 1 >>, source |-> q[n]]}
<1>1. DOMAIN q = 1 .. Len(q) /\ Len(q) \in Nat
  BY LenProperties
<1>2. ASSUME NEW x \in Numbered(p, q), x.dev = << p, n - 1 >>
      PROVE  x = [dev |-> << p, n - 1 >>, source |-> q[n]]
  <2>1. PICK i \in 1 .. Len(q) : x = [dev |-> << p, i - 1 >>, source |-> q[i]]
    BY <1>1, <1>2 DEF Numbered
  <2>2. << p, i - 1 >> = << p, n - 1 >>
    BY <1>2, <2>1
  <2>3. i = n
    BY <2>2
  <2> QED
    BY <2>1, <2>3
<1>3. [dev |-> << p, n - 1 >>, source |-> q[n]] \in Numbered(p, q)
  BY <1>1 DEF Numbered
<1>4. [dev |-> << p, n - 1 >>, source |-> q[n]].dev = << p, n - 1 >>
  OBVIOUS
<1> QED
  BY ONLY <1>2, <1>3, <1>4

(* Numbered devices have their prefix.                                     *)
LEMMA NumberedName ==
  ASSUME NEW V, NEW q \in Seq(V), NEW p, NEW x \in Numbered(p, q)
  PROVE  x.dev[1] = p
<1>1. PICK i \in DOMAIN q : x = [dev |-> << p, i - 1 >>, source |-> q[i]]
  BY DEF Numbered
<1> QED
  BY <1>1

(* The sources of mounts and disks, ...                                    *)
AllSources == {m.source : m \in Mounts} \cup {d.source : d \in Disks}

(* ... the network options that are well formed, ...                       *)
Accepted == {p \in Networks : ~ParseNetwork(p).bad}

(* ... and what is made of them.                                           *)
NetSet == {ParseNetwork(p).net : p \in Accepted}

(* The sources of a machine that are counted as /dev/vda, /dev/vdb, ...    *)
DiskSources(c) == Sources(c.disks) \o Sources(OfType(c, "host-image"))

(* ... and as sandbox:mount0, sandbox:mount1, ...                          *)
BindSources(c) == Sources(OfType(c, "host-bind"))

(* The lists of a configuration hold what options can give.                *)
Listed(c) == c.mounts \in Seq(MountSet) /\ c.disks \in Seq(Disks) /\ c.networks \in Seq(NetSet)

(* They are counted disks first, then the images of mounts, in the order   *)
(* of the options.                                                         *)
LEMMA MachineSources ==
  ASSUME NEW c, Listed(c)
  PROVE  /\ DiskSources(c) \in Seq(AllSources) /\ BindSources(c) \in Seq(AllSources)
         /\ Sources(c.networks) \in Seq({n.source : n \in NetSet})
         /\ Len(DiskSources(c)) = Len(c.disks) + Len(OfType(c, "host-image"))
         /\ Len(BindSources(c)) = Len(OfType(c, "host-bind"))
         /\ Len(Sources(c.networks)) = Len(c.networks)
         /\ \A i \in 1 .. Len(c.disks) : DiskSources(c)[i] = c.disks[i].source
         /\ \A i \in 1 .. Len(OfType(c, "host-image")) :
               DiskSources(c)[Len(c.disks) + i] = OfType(c, "host-image")[i].source
         /\ \A i \in 1 .. Len(OfType(c, "host-bind")) :
               BindSources(c)[i] = OfType(c, "host-bind")[i].source
         /\ \A i \in 1 .. Len(c.networks) : Sources(c.networks)[i] = c.networks[i].source
<1> USE DEF Listed
<1>1. OfType(c, "host-image") \in Seq(MountSet) /\ OfType(c, "host-bind") \in Seq(MountSet)
  BY Kinds, ChosenTyped
<1>2. /\ Sourced(MountSet, AllSources) /\ Sourced(Disks, AllSources)
      /\ Sourced(NetSet, {n.source : n \in NetSet})
      /\ c.disks \in Seq(Disks) /\ c.networks \in Seq(NetSet)
  BY DEF MountSet, AllSources, Sourced
<1> DEFINE a == Sources(c.disks)
           b == Sources(OfType(c, "host-image"))
<1>3. /\ a \in Seq(AllSources) /\ Len(a) = Len(c.disks)
      /\ \A i \in 1 .. Len(c.disks) : a[i] = c.disks[i].source
  BY <1>2, SourcesTyped
<1>4. /\ b \in Seq(AllSources) /\ Len(b) = Len(OfType(c, "host-image"))
      /\ \A i \in 1 .. Len(OfType(c, "host-image")) : b[i] = OfType(c, "host-image")[i].source
  BY <1>1, <1>2, SourcesTyped
<1>5. /\ BindSources(c) \in Seq(AllSources) /\ Len(BindSources(c)) = Len(OfType(c, "host-bind"))
      /\ \A i \in 1 .. Len(OfType(c, "host-bind")) :
            BindSources(c)[i] = OfType(c, "host-bind")[i].source
  BY <1>1, <1>2, SourcesTyped DEF BindSources
<1>6. /\ Sources(c.networks) \in Seq({n.source : n \in NetSet})
      /\ Len(Sources(c.networks)) = Len(c.networks)
      /\ \A i \in 1 .. Len(c.networks) : Sources(c.networks)[i] = c.networks[i].source
  BY <1>2, SourcesTyped
<1> HIDE DEF a, b
<1>7. /\ a \o b \in Seq(AllSources) /\ Len(a \o b) = Len(a) + Len(b)
      /\ Len(a) \in Nat /\ Len(b) \in Nat
      /\ \A i \in 1 .. Len(a) + Len(b) :
            (a \o b)[i] = IF i <= Len(a) THEN a[i] ELSE b[i - Len(a)]
  <2>1. a \in Seq(AllSources) /\ b \in Seq(AllSources)
    BY <1>3, <1>4
  <2> QED
    BY ONLY <2>1, ConcatProperties, LenProperties
<1>8. \A i \in 1 .. Len(a) : (a \o b)[i] = a[i]
  BY <1>7
<1>9. ASSUME NEW i \in 1 .. Len(b) PROVE (a \o b)[Len(a) + i] = b[i]
  <2>1. /\ Len(a) + i \in 1 .. Len(a) + Len(b) /\ ~(Len(a) + i <= Len(a))
        /\ (Len(a) + i) - Len(a) = i
    BY <1>7
  <2> QED
    BY <1>7, <2>1
<1>10. DiskSources(c) = a \o b
  BY DEF DiskSources, a, b
<1> QED
  BY <1>3, <1>4, <1>5, <1>6, <1>7, <1>8, <1>9, <1>10

(* The devices of a name, and a device.                                    *)
Named(D, dev) == {x \in D : x.dev = dev}
Device(dev, source) == [dev |-> dev, source |-> source]

(* Each device of a machine is the only one of its name.                   *)
LEMMA MachineNames ==
  ASSUME NEW c, Listed(c)
  PROVE  /\ \A n \in 1 .. Len(DiskSources(c)) :
               Named(Devices(c, "machine"), << "vd", n - 1 >>)
                 = {Device(<< "vd", n - 1 >>, DiskSources(c)[n])}
         /\ \A n \in 1 .. Len(BindSources(c)) :
               Named(Devices(c, "machine"), << "sandbox:mount", n - 1 >>)
                 = {Device(<< "sandbox:mount", n - 1 >>, BindSources(c)[n])}
         /\ \A n \in 1 .. Len(Sources(c.networks)) :
               Named(Devices(c, "machine"), << "eth", n - 1 >>)
                 = {Device(<< "eth", n - 1 >>, Sources(c.networks)[n])}
         /\ ~HasRootMount(c) =>
               Named(Devices(c, "machine"), << "sandbox:root" >>)
                 = {Device(<< "sandbox:root" >>, c.root)}
<1> DEFINE D == Devices(c, "machine")
           q == DiskSources(c)
           b == BindSources(c)
           w == Sources(c.networks)
<1>1. D = UNION {MachineRoot(c), Numbered("vd", q), Numbered("sandbox:mount", b), Numbered("eth", w)}
  BY DEF Devices, MachineDisks, MachineBinds, MachineNetworks, DiskSources, BindSources
<1>2. /\ q \in Seq(AllSources) /\ b \in Seq(AllSources)
      /\ w \in Seq({n.source : n \in NetSet})
  BY MachineSources
<1>3. \A x \in MachineRoot(c) : x.dev[1] = "sandbox:root"
  BY DEF MachineRoot
<1> HIDE DEF D, q, b, w
<1>4. /\ \A x \in Numbered("vd", q) : x.dev[1] = "vd"
      /\ \A x \in Numbered("sandbox:mount", b) : x.dev[1] = "sandbox:mount"
      /\ \A x \in Numbered("eth", w) : x.dev[1] = "eth"
  BY <1>2, NumberedName
<1>5. ASSUME NEW n \in 1 .. Len(q)
      PROVE  Named(D, << "vd", n - 1 >>) = {Device(<< "vd", n - 1 >>, q[n])}
  <2>1. Named(D, << "vd", n - 1 >>) = Named(Numbered("vd", q), << "vd", n - 1 >>)
    BY <1>1, <1>3, <1>4 DEF Named
  <2> QED
    BY <1>2, <2>1, NumberedAt DEF Named, Device
<1>6. ASSUME NEW n \in 1 .. Len(b)
      PROVE  Named(D, << "sandbox:mount", n - 1 >>) = {Device(<< "sandbox:mount", n - 1 >>, b[n])}
  <2>1. Named(D, << "sandbox:mount", n - 1 >>)
          = Named(Numbered("sandbox:mount", b), << "sandbox:mount", n - 1 >>)
    BY <1>1, <1>3, <1>4 DEF Named
  <2> QED
    BY <1>2, <2>1, NumberedAt DEF Named, Device
<1>7. ASSUME NEW n \in 1 .. Len(w)
      PROVE  Named(D, << "eth", n - 1 >>) = {Device(<< "eth", n - 1 >>, w[n])}
  <2>1. Named(D, << "eth", n - 1 >>) = Named(Numbered("eth", w), << "eth", n - 1 >>)
    BY <1>1, <1>3, <1>4 DEF Named
  <2> QED
    BY <1>2, <2>1, NumberedAt DEF Named, Device
<1>8. ASSUME ~HasRootMount(c)
      PROVE  Named(D, << "sandbox:root" >>) = {Device(<< "sandbox:root" >>, c.root)}
  <2>1. MachineRoot(c) = {Device(<< "sandbox:root" >>, c.root)}
    BY <1>8 DEF MachineRoot, Device
  <2>2. Named(D, << "sandbox:root" >>) = Named(MachineRoot(c), << "sandbox:root" >>)
    BY <1>1, <1>4 DEF Named
  <2> QED
    BY <2>1, <2>2 DEF Named, Device
<1> QED
  BY <1>5, <1>6, <1>7, <1>8 DEF D, q, b, w

(* What a mount of a configuration yields in the guest.                    *)
Yields(m) ==
  CASE m.type \in {"host-bind", "host-image"} -> << "host", m.source >>
    [] m.type = "guest-bind" -> << "guest", m.source >>
    [] m.type = "ram" -> << "tmpfs", m.usage \div Kilo >>

(* What a line of mounts.cfg names is the mount the line is for.           *)
LEMMA LineNames ==
  ASSUME NEW c, Listed(c), NEW i \in 1 .. Len(c.mounts)
  PROVE  /\ c.mounts[i] \in MountSet
         /\ c.mounts[i].type \in {"host-bind", "host-image"} =>
               Named(Devices(c, "machine"), LineSource(c, i))
                 = {Device(LineSource(c, i), c.mounts[i].source)}
         /\ c.mounts[i].type = "host-bind" => LineSource(c, i)[1] = "sandbox:mount"
         /\ c.mounts[i].type = "host-image" => LineSource(c, i)[1] = "vd"
         /\ c.mounts[i].type \in {"guest-bind", "ram"} =>
               LineSource(c, i) = Yields(c.mounts[i])
<1> DEFINE m == c.mounts[i]
<1>1. m \in MountSet /\ m.type \in MountTypes /\ c.mounts \in Seq(MountSet)
  <2>1. c.mounts \in Seq(MountSet)
    BY DEF Listed
  <2>2. m \in MountSet
    BY <2>1, ElementOfSeq
  <2> QED
    BY <2>1, <2>2 DEF MountSet
<1>2. /\ m.type = "host-bind" => LineSource(c, i) = << "sandbox:mount", Before(c, i, "host-bind") >>
      /\ m.type = "host-image" =>
           LineSource(c, i) = << "vd", Len(c.disks) + Before(c, i, "host-image") >>
      /\ m.type = "guest-bind" => LineSource(c, i) = << "guest", m.source >>
      /\ m.type = "ram" => LineSource(c, i) = << "tmpfs", m.usage \div Kilo >>
  BY DEF LineSource, FirstImage
<1>3. ASSUME NEW t, m.type = t
      PROVE  /\ Before(c, i, t) \in Nat /\ Before(c, i, t) + 1 \in 1 .. Len(OfType(c, t))
             /\ OfType(c, t)[Before(c, i, t) + 1] = m
  <2> DEFINE s == c.mounts
             K == OfKind(t)
  <2>1. s \in Seq(MountSet) /\ s[i] \in K /\ i \in 1 .. Len(s)
    BY <1>1, <1>3 DEF OfKind
  <2>2. OfType(c, t) = Chosen(s, K) /\ Before(c, i, t) = Len(ChosenTo(s, i - 1, K))
    BY <1>1, Kinds
  <2> HIDE DEF s, K
  <2>3. /\ Len(ChosenTo(s, i - 1, K)) \in Nat
        /\ Len(ChosenTo(s, i - 1, K)) + 1 \in 1 .. Len(Chosen(s, K))
        /\ Chosen(s, K)[Len(ChosenTo(s, i - 1, K)) + 1] = s[i]
    BY <2>1, ChosenPlace
  <2> QED
    BY <2>2, <2>3 DEF s
<1> HIDE DEF m
<1>4. ASSUME m.type = "host-bind"
      PROVE  Named(Devices(c, "machine"), LineSource(c, i)) = {Device(LineSource(c, i), m.source)}
  <2> DEFINE n == Before(c, i, "host-bind") + 1
  <2>1. n \in 1 .. Len(BindSources(c)) /\ BindSources(c)[n] = m.source
    <3>1. n \in 1 .. Len(OfType(c, "host-bind")) /\ OfType(c, "host-bind")[n] = m
      BY <1>3, <1>4
    <3> HIDE DEF n
    <3> QED
      BY <3>1, MachineSources
  <2>2. LineSource(c, i) = << "sandbox:mount", n - 1 >>
    BY <1>2, <1>3, <1>4
  <2> HIDE DEF n
  <2> QED
    BY <2>1, <2>2, MachineNames
<1>5. ASSUME m.type = "host-image"
      PROVE  Named(Devices(c, "machine"), LineSource(c, i)) = {Device(LineSource(c, i), m.source)}
  <2> DEFINE k == Before(c, i, "host-image") + 1
             n == Len(c.disks) + k
  <2>1. k \in 1 .. Len(OfType(c, "host-image")) /\ OfType(c, "host-image")[k] = m
    BY <1>3, <1>5
  <2>2. Len(c.disks) \in Nat
    BY LenProperties DEF Listed
  <2>3. n - 1 = Len(c.disks) + Before(c, i, "host-image")
    <3>1. Before(c, i, "host-image") \in Nat
      BY <1>3, <1>5
    <3> QED
      BY <2>2, <3>1
  <2> HIDE DEF k
  <2>4. DiskSources(c)[n] = m.source
    BY <2>1, MachineSources
  <2>5. n \in 1 .. Len(DiskSources(c))
    <3>1. Len(DiskSources(c)) = Len(c.disks) + Len(OfType(c, "host-image"))
      BY MachineSources
    <3>2. Len(OfType(c, "host-image")) \in Nat
      BY <2>1
    <3> QED
      BY <2>1, <2>2, <3>1
  <2> HIDE DEF n
  <2> QED
    BY <1>2, <1>5, <2>3, <2>4, <2>5, MachineNames
<1>6. m.type \in {"guest-bind", "ram"} => LineSource(c, i) = Yields(m)
  BY <1>2 DEF Yields
<1> QED
  BY <1>1, <1>2, <1>4, <1>5, <1>6 DEF m

-----------------------------------------------------------------------------
(* The modules of a machine.                                               *)

(* The modules that every machine wants, ...                               *)
Common == {"fscache", "virtio", "virtio_ring", "virtio_pci", "9pnet", "9p", "9pnet_virtio",
           "virtio_console", "af_packet", "fscrypto", "mbcache", "jbd2", "crc16", "ext4"}

(* ... those that some machine wants, ...                                  *)
Drivers == Common \cup {"virtio_net", "virtio_blk"}

(* ... and those that a machine of this configuration wants.               *)
Wanted(c) == UNION {Common, IF HasNetworks(c) THEN {"virtio_net"} ELSE {},
                    IF WantsBlk(c) THEN {"virtio_blk"} ELSE {}}

(* The list of modules, as a set.                                          *)
LEMMA NamesWanted ==
  ASSUME NEW c
  PROVE  /\ ModuleNames(c) \in Seq(Drivers)
         /\ {ModuleNames(c)[i] : i \in 1 .. Len(ModuleNames(c))} = Wanted(c)
<1> DEFINE a == FirstModules
           b == IF HasNetworks(c) THEN << "virtio_net" >> ELSE << >>
           d == IF WantsBlk(c) THEN << "virtio_blk" >> ELSE << >>
           e == LastModules
<1>1. a \in Seq(Drivers) /\ b \in Seq(Drivers) /\ d \in Seq(Drivers) /\ e \in Seq(Drivers)
  <2>1. a \in Seq(Drivers)
    BY DEF Drivers, Common, FirstModules, LastModules
  <2>2. << "virtio_net" >> \in Seq(Drivers) /\ << "virtio_blk" >> \in Seq(Drivers)
    BY DEF Drivers
  <2>3. << >> \in Seq(Drivers)
    BY EmptySeq
  <2>4. b \in Seq(Drivers)
    BY <2>2, <2>3
  <2>5. d \in Seq(Drivers)
    BY <2>2, <2>3
  <2>6. e \in Seq(Drivers)
    BY DEF Drivers, Common, FirstModules, LastModules
  <2> HIDE DEF a, b, d, e
  <2> QED
    BY <2>1, <2>4, <2>5, <2>6
<1>2. /\ Range(a) = {"fscache", "virtio", "virtio_ring", "virtio_pci", "9pnet", "9p", "9pnet_virtio"}
      /\ Range(e) = {"virtio_console", "af_packet", "fscrypto", "mbcache", "jbd2", "crc16", "ext4"}
  BY DEF Range, FirstModules, LastModules
<1>3. /\ Range(b) = IF HasNetworks(c) THEN {"virtio_net"} ELSE {}
      /\ Range(d) = IF WantsBlk(c) THEN {"virtio_blk"} ELSE {}
  BY DEF Range
<1>4. ModuleNames(c) = ((a \o b) \o d) \o e
  BY DEF ModuleNames
<1> HIDE DEF a, b, d, e
<1>5. a \o b \in Seq(Drivers) /\ (a \o b) \o d \in Seq(Drivers) /\ ((a \o b) \o d) \o e \in Seq(Drivers)
  BY <1>1, ConcatProperties
<1>6. /\ Range(a \o b) = Range(a) \cup Range(b)
      /\ Range((a \o b) \o d) = Range(a \o b) \cup Range(d)
      /\ Range(((a \o b) \o d) \o e) = Range((a \o b) \o d) \cup Range(e)
  <2>1. Range(a \o b) = Range(a) \cup Range(b)
    BY ONLY <1>1, RangeConcatenation
  <2> DEFINE f == a \o b
             g == f \o d
  <2>2. f \in Seq(Drivers) /\ g \in Seq(Drivers)
    BY <1>5
  <2> HIDE DEF f
  <2>3. Range(f \o d) = Range(f) \cup Range(d)
    BY ONLY <1>1, <2>2, RangeConcatenation
  <2> HIDE DEF g
  <2>4. Range(g \o e) = Range(g) \cup Range(e)
    BY ONLY <1>1, <2>2, RangeConcatenation
  <2> QED
    BY <2>1, <2>3, <2>4 DEF f, g
<1>7. Range(ModuleNames(c)) = {ModuleNames(c)[i] : i \in 1 .. Len(ModuleNames(c))}
  BY <1>4, <1>5, RangeEquality
<1>8. Range(ModuleNames(c)) = Wanted(c)
  BY <1>2, <1>3, <1>4, <1>6 DEF Wanted, Common
<1> QED
  BY <1>4, <1>5, <1>7, <1>8

(* The two parts of the list that are always there.                        *)
LEMMA CommonModules ==
  Range(FirstModules) \cup Range(LastModules) = Common
<1>1. /\ Range(FirstModules)
           = {"fscache", "virtio", "virtio_ring", "virtio_pci", "9pnet", "9p", "9pnet_virtio"}
      /\ Range(LastModules)
           = {"virtio_console", "af_packet", "fscrypto", "mbcache", "jbd2", "crc16", "ext4"}
  BY DEF Range, FirstModules, LastModules
<1> QED
  BY <1>1 DEF Common

(* Of the list, what the tree has is what is put into the image.           *)
LEMMA FoundModules ==
  ASSUME NEW c, NEW tree
  PROVE  Range(FindModules(ModuleNames(c), tree)) = Wanted(c) \cap tree.modules
<1> DEFINE s == ModuleNames(c)
<1>1. /\ s \in Seq(Drivers) /\ {s[i] : i \in 1 .. Len(s)} = Wanted(c)
  BY NamesWanted
<1>2. DOMAIN s = 1 .. Len(s)
  BY <1>1, LenProperties
<1> HIDE DEF s
<1>3. FindModules(s, tree) = Chosen(s, tree.modules)
  BY <1>2 DEF FindModules, Select, Chosen, Pieces, Piece
<1>4. Range(Chosen(s, tree.modules)) = {s[i] : i \in 1 .. Len(s)} \cap tree.modules
  BY <1>1, ChosenElements
<1> QED
  BY <1>1, <1>3, <1>4 DEF s

(* A machine that has loaded its list has every driver it may need.        *)
LEMMA DriversLoaded ==
  ASSUME ModularTrees, NEW c, NEW h, NEW k, KernRelease(c, h) \in DOMAIN Trees,
         NEW image \in InitrdImages(c, h), image # EmptyImage,
         \A n \in DOMAIN image.modules : image.release = k
  PROVE  Wanted(c) \subseteq Builtin(k) \cup Range(image.modules)
<1> DEFINE r == KernRelease(c, h)
<1>1. image.release = r /\ image.modules = FindModules(ModuleNames(c), Trees[r])
  BY DEF InitrdImages
<1>2. Range(image.modules) = Wanted(c) \cap Trees[r].modules
  BY <1>1, FoundModules
<1>3. Common \subseteq Wanted(c) /\ Wanted(c) \subseteq DOMAIN Needs
  BY CommonModules DEF Wanted, ModularTrees
<1>4. Range(image.modules) # {}
  BY <1>2, <1>3, CommonModules DEF ModularTrees
<1>5. DOMAIN image.modules # {}
  BY <1>4 DEF Range
<1>6. k = r
  BY <1>1, <1>5
<1> QED
  BY <1>2, <1>3, <1>6 DEF Builtin

-----------------------------------------------------------------------------
(* What the options build.                                                 *)

(* The fields of a configuration, ...                                      *)
ConfigFields == {"root", "command", "tty", "user", "shell", "kernrelease", "kernpath", "mounts",
                 "envs", "disks", "networks", "label", "dynamic"}

(* ... a hash table, ...                                                   *)
Tabled(t) == t = [k \in DOMAIN t |-> t[k]] /\ IsFiniteSet(DOMAIN t)

(* ... a record of those fields, ...                                       *)
Fielded(c) == c = [f \in ConfigFields |-> c[f]]

(* ... and a configuration that options can build.                         *)
Config(c) == Fielded(c) /\ Listed(c) /\ Tabled(c.envs)

(* The configuration virt-sandbox begins with.                             *)
LEMMA NewConfigTyped ==
  ASSUME NEW o PROVE Config(NewConfig(o))
<1> DEFINE c == NewConfig(o)
<1>1. Fielded(c)
  BY DEF NewConfig, ConfigFields, Fielded
<1>2. c.mounts = << >> /\ c.disks = << >> /\ c.networks = << >> /\ c.envs = << >>
  BY DEF NewConfig
<1>3. << >> \in Seq(MountSet) /\ << >> \in Seq(Disks) /\ << >> \in Seq(NetSet)
  BY EmptySeq
<1>4. Tabled(<< >>)
  <2>1. DOMAIN << >> = {}
    OBVIOUS
  <2>2. << >> = [k \in DOMAIN << >> |-> << >>[k]]
    OBVIOUS
  <2> QED
    BY <2>1, <2>2, FS_EmptySet DEF Tabled
<1> HIDE DEF c
<1>5. Listed(c)
  BY <1>2, <1>3 DEF Listed
<1>6. Tabled(c.envs)
  BY <1>2, <1>4
<1> QED
  BY <1>1, <1>5, <1>6 DEF Config, c

(* Setting a field sets that field alone.                                  *)
LEMMA SetField ==
  ASSUME NEW c, Fielded(c), NEW g \in ConfigFields, NEW v
  PROVE  /\ Fielded([c EXCEPT ![g] = v])
         /\ [c EXCEPT ![g] = v][g] = v
         /\ \A f \in ConfigFields \ {g} : [c EXCEPT ![g] = v][f] = c[f]
  BY DEF Fielded

(* Each option leaves a configuration. A mount: ...                        *)
LEMMA AddMountTyped ==
  ASSUME NEW c, Config(c), NEW m \in MountSet PROVE Config(AddMount(c, m))
<1> DEFINE d == AddMount(c, m)
<1>1. d = [c EXCEPT !["mounts"] = Append(c.mounts, m)]
  BY DEF AddMount
<1>2. /\ Fielded(d) /\ d.mounts = Append(c.mounts, m)
      /\ d.disks = c.disks /\ d.networks = c.networks /\ d.envs = c.envs
  BY <1>1, SetField DEF Config, ConfigFields, Fielded
<1>3. Append(c.mounts, m) \in Seq(MountSet)
  BY AppendProperties DEF Config, Listed
<1> QED
  BY <1>2, <1>3 DEF Config, Listed

(* ... a disk, ...                                                         *)
LEMMA AddDiskTyped ==
  ASSUME NEW c, Config(c), NEW m \in Disks PROVE Config(AddDisk(c, m))
<1> DEFINE d == AddDisk(c, m)
<1>1. d = [c EXCEPT !["disks"] = Append(c.disks, m)]
  BY DEF AddDisk
<1>2. /\ Fielded(d) /\ d.disks = Append(c.disks, m)
      /\ d.mounts = c.mounts /\ d.networks = c.networks /\ d.envs = c.envs
  BY <1>1, SetField DEF Config, ConfigFields, Fielded
<1>3. Append(c.disks, m) \in Seq(Disks)
  BY AppendProperties DEF Config, Listed
<1> QED
  BY <1>2, <1>3 DEF Config, Listed

(* ... a network, ...                                                      *)
LEMMA AddNetworkTyped ==
  ASSUME NEW c, Config(c), NEW m \in NetSet PROVE Config(AddNetwork(c, m))
<1> DEFINE d == AddNetwork(c, m)
<1>1. d = [c EXCEPT !["networks"] = Append(c.networks, m)]
  BY DEF AddNetwork
<1>2. /\ Fielded(d) /\ d.networks = Append(c.networks, m)
      /\ d.mounts = c.mounts /\ d.disks = c.disks /\ d.envs = c.envs
  BY <1>1, SetField DEF Config, ConfigFields, Fielded
<1>3. Append(c.networks, m) \in Seq(NetSet)
  BY AppendProperties DEF Config, Listed
<1> QED
  BY <1>2, <1>3 DEF Config, Listed

(* ... a variable, ...                                                     *)
LEMMA AddEnvTyped ==
  ASSUME NEW c, Config(c), NEW key, NEW value PROVE Config(AddEnv(c, key, value))
<1> DEFINE d == AddEnv(c, key, value)
           t == [k \in DOMAIN c.envs \union {key} |-> IF k = key THEN value ELSE c.envs[k]]
<1>1. d = [c EXCEPT !["envs"] = t]
  BY DEF AddEnv
<1>2. /\ Fielded(d) /\ d.envs = t
      /\ d.mounts = c.mounts /\ d.disks = c.disks /\ d.networks = c.networks
  BY <1>1, SetField DEF Config, ConfigFields, Fielded
<1>3. IsFiniteSet(DOMAIN c.envs \union {key})
  BY FS_AddElement DEF Config, Tabled
<1>4. Tabled(t)
  BY <1>3 DEF Tabled
<1> QED
  BY <1>2, <1>4 DEF Config, Listed

(* ... the security label, ...                                             *)
LEMMA SecurityTyped ==
  ASSUME NEW c, Config(c), NEW mode, NEW label PROVE Config(SetSecurityOpts(c, mode, label))
<1> DEFINE d == SetSecurityOpts(c, mode, label)
<1>1. /\ Fielded(d)
      /\ d.mounts = c.mounts /\ d.disks = c.disks /\ d.networks = c.networks /\ d.envs = c.envs
  BY DEF SetSecurityOpts, Config, ConfigFields, Fielded
<1> QED
  BY <1>1 DEF Config, Listed

(* ... a size that went through a gint, ...                                *)
LEMMA OptionMount ==
  ASSUME NEW m \in Mounts
  PROVE  [m EXCEPT !.usage = OptionUsage(@)] \in MountSet
<1>1. NoIncludes \in IncludeTables
  <2>1. NoIncludes \in [{} -> {i.host : i \in Includes}]
    BY DEF NoIncludes
  <2>2. {} \in SUBSET Destinations
    OBVIOUS
  <2> QED
    BY <2>1, <2>2, FS_EmptySet DEF IncludeTables
<1>2. [m EXCEPT !.usage = OptionUsage(@)]
        = [type |-> m.type, target |-> m.target, source |-> m.source,
           usage |-> OptionUsage(m.usage), includes |-> NoIncludes]
  BY OptionsAssumption
<1>3. m.type \in MountTypes
  BY OptionsAssumption DEF MountTypes
<1> QED
  BY <1>1, <1>2, <1>3 DEF MountSet

(* A set of numbers has a least one.                                       *)
LEMMA LeastOf ==
  ASSUME NEW U \in SUBSET Nat, U # {}
  PROVE  \E k \in U : \A l \in U : k <= l
<1> DEFINE T == {n \in Nat : \A k \in 0 .. n : k \notin U}
<1> SUFFICES ASSUME ~\E k \in U : \A l \in U : k <= l PROVE FALSE
  OBVIOUS
<1>1. 0 \in T
  OBVIOUS
<1>2. ASSUME NEW n \in Nat, n \in T PROVE n + 1 \in T
  <2>1. \A l \in U : l > n
    BY <1>2
  <2>2. n + 1 \notin U
    BY <2>1
  <2> QED
    BY <1>2, <2>2
<1>3. Nat \subseteq T
  <2> HIDE DEF T
  <2> QED
    BY <1>1, <1>2, R!InductionOfSet
<1>4. PICK u \in U : u \in T
  BY <1>3
<1> QED
  BY <1>4

(* ... and an include, under the first mount its path is below.            *)
LEMMA IncludeTyped ==
  ASSUME NEW c, Config(c), NEW i \in Includes, Under(c, i.guest) # {}
  PROVE  Config(AddHostInclude(c, i.guest, i.host))
<1> DEFINE n == CHOOSE k \in Under(c, i.guest) : \A l \in Under(c, i.guest) : k <= l
           m == c.mounts[n]
           dst == RelGuest(m.target, i.guest)
           t == [d \in DOMAIN m.includes \union {dst} |-> IF d = dst THEN i.host ELSE m.includes[d]]
           new == [m EXCEPT !.includes = t]
           d == AddHostInclude(c, i.guest, i.host)
<1>1. c.mounts \in Seq(MountSet)
  BY DEF Config, Listed
<1>2. DOMAIN c.mounts = 1 .. Len(c.mounts) /\ Len(c.mounts) \in Nat
      /\ \A k \in 1 .. Len(c.mounts) : c.mounts[k] \in MountSet
  BY <1>1, LenProperties, ElementOfSeq
<1>3. n \in 1 .. Len(c.mounts)
  <2>1. Under(c, i.guest) \subseteq Nat /\ Under(c, i.guest) \subseteq 1 .. Len(c.mounts)
    BY <1>2 DEF Under
  <2>2. \E k \in Under(c, i.guest) : \A l \in Under(c, i.guest) : k <= l
    BY ONLY <2>1, Under(c, i.guest) # {}, LeastOf
  <2>3. n \in Under(c, i.guest)
    BY ONLY <2>2
  <2> QED
    BY ONLY <2>1, <2>3
<1>4. m \in MountSet
  BY <1>2, <1>3
<1>5. t \in IncludeTables
  <2>1. m.includes \in IncludeTables /\ m.target \in {x.target : x \in Mounts}
    BY <1>4 DEF MountSet
  <2>2. PICK D \in SUBSET Destinations :
           IsFiniteSet(D) /\ m.includes \in [D -> {x.host : x \in Includes}]
    BY <2>1 DEF IncludeTables
  <2>3. dst \in Destinations
    <3>1. PICK x \in Mounts : m.target = x.target
      BY <2>1
    <3>2. dst = RelGuest(x.target, i.guest)
      BY <3>1
    <3> HIDE DEF dst
    <3> QED
      BY <3>2 DEF Destinations
  <2>4. IsFiniteSet(D \union {dst}) /\ D \union {dst} \in SUBSET Destinations
    BY <2>2, <2>3, FS_AddElement
  <2>5. t \in [D \union {dst} -> {x.host : x \in Includes}]
    BY <2>2
  <2> QED
    BY <2>4, <2>5 DEF IncludeTables
<1> HIDE DEF t
<1>6. new \in MountSet
  BY <1>4, <1>5 DEF MountSet
<1>7. d = [c EXCEPT !["mounts"] = [c.mounts EXCEPT ![n] = new]]
  BY DEF AddHostInclude, t
<1> HIDE DEF new, n, m
<1>8. [c.mounts EXCEPT ![n] = new] \in Seq(MountSet)
  BY <1>1, <1>3, <1>6, ExceptSeq
<1>9. /\ Fielded(d) /\ d.mounts = [c.mounts EXCEPT ![n] = new]
      /\ d.networks = c.networks /\ d.disks = c.disks /\ d.envs = c.envs
  BY <1>7, SetField DEF Config, ConfigFields, Fielded
<1> HIDE DEF d
<1> QED
  BY <1>8, <1>9 DEF Config, Listed, d

-----------------------------------------------------------------------------
(* The steps.                                                              *)

(* The stages in which virt-sandbox reads its options, and the steps it    *)
(* takes in them.                                                          *)
Reading == {"envs", "disks", "mounts", "includes", "networks", "security", "start"}

ReadsOptions ==
  \/ NextOptions \/ EnvOption \/ DiskOption \/ MountOption \/ IncludeOption
  \/ NetworkOption \/ SecurityOption \/ MalformedOption

(* They leave a configuration and change nothing that is handed over.      *)
LEMMA OptionSteps ==
  ASSUME Config(config), ReadsOptions
  PROVE  /\ stage \in Reading /\ stage' \in Reading \cup {"refused"}
         /\ Config(config)' /\ UNCHANGED << here, handed, guest >>
<1>1. CASE NextOptions
  <2>1. /\ OptionStages[1] = "envs" /\ OptionStages[2] = "disks" /\ OptionStages[3] = "mounts"
        /\ OptionStages[4] = "includes" /\ OptionStages[5] = "networks"
        /\ OptionStages[6] = "security" /\ OptionStages[7] = "start" /\ Len(OptionStages) = 7
    BY DEF OptionStages
  <2>2. PICK i \in 1 .. 6 : stage = OptionStages[i] /\ stage' = OptionStages[i + 1]
    BY <1>1, <2>1 DEF NextOptions
  <2>3. i \in {1, 2, 3, 4, 5, 6}
    OBVIOUS
  <2>4. stage \in Reading /\ stage' \in Reading
    BY <2>1, <2>2, <2>3 DEF Reading
  <2>5. UNCHANGED << host, handed, guest >>
    BY <1>1 DEF NextOptions
  <2> QED
    BY <2>4, <2>5 DEF host, Config, Listed
<1>2. CASE EnvOption
  <2>1. PICK e \in EnvOptions : Takes(AddEnv(config, e[1], e[2]))
    BY <1>2 DEF EnvOption
  <2>2. Config(config')
    BY <2>1, AddEnvTyped DEF Takes
  <2> QED
    BY <1>2, <2>1, <2>2 DEF EnvOption, Takes, InStage, Reading
<1>3. CASE DiskOption
  <2>1. PICK d \in Disks : Takes(AddDisk(config, d))
    BY <1>3 DEF DiskOption
  <2>2. Config(config')
    BY <2>1, AddDiskTyped DEF Takes
  <2> QED
    BY <1>3, <2>1, <2>2 DEF DiskOption, Takes, InStage, Reading
<1>4. CASE MountOption
  <2>1. PICK m \in Mounts : Takes(AddMount(config, [m EXCEPT !.usage = OptionUsage(@)]))
    BY <1>4 DEF MountOption
  <2>2. [m EXCEPT !.usage = OptionUsage(@)] \in MountSet
    BY OptionMount
  <2>3. Config(config')
    BY <2>1, <2>2, AddMountTyped DEF Takes
  <2> QED
    BY <1>4, <2>1, <2>3 DEF MountOption, Takes, InStage, Reading
<1>5. CASE IncludeOption
  <2>1. PICK i \in Includes : IF Under(config, i.guest) = {} THEN Refuses
                              ELSE Takes(AddHostInclude(config, i.guest, i.host)) /\ UNCHANGED asked
    BY <1>5 DEF IncludeOption
  <2>2. CASE Refuses
    BY <1>5, <2>2 DEF IncludeOption, Refuses, InStage, Reading, host, Config, Listed
  <2>3. CASE ~Refuses
    <3>1. Takes(AddHostInclude(config, i.guest, i.host)) /\ Under(config, i.guest) # {}
      BY <2>1, <2>3
    <3>2. Config(config')
      BY <3>1, IncludeTyped DEF Takes
    <3> QED
      BY <1>5, <3>1, <3>2 DEF IncludeOption, Takes, InStage, Reading
  <2> QED
    BY <2>2, <2>3
<1>6. CASE NetworkOption
  <2>1. PICK p \in Networks : \/ Refuses
                              \/ /\ ~ParseNetwork(p).bad
                                 /\ Takes(AddNetwork(config, ParseNetwork(p).net))
    BY <1>6 DEF NetworkOption
  <2>2. CASE Refuses
    BY <1>6, <2>2 DEF NetworkOption, Refuses, InStage, Reading, host, Config, Listed
  <2>3. CASE ~Refuses
    <3>1. Takes(AddNetwork(config, ParseNetwork(p).net)) /\ ParseNetwork(p).net \in NetSet
      BY <2>1, <2>3 DEF NetSet, Accepted
    <3>2. Config(config')
      BY <3>1, AddNetworkTyped DEF Takes
    <3> QED
      BY <1>6, <3>1, <3>2 DEF NetworkOption, Takes, InStage, Reading
  <2> QED
    BY <2>2, <2>3
<1>7. CASE SecurityOption
  <2>1. PICK m \in Modes : \/ Refuses
                           \/ /\ stage' = "start" /\ config' = SetSecurityOpts(config, m[1], m[2])
                              /\ UNCHANGED << here, asked, handed, guest >>
    BY <1>7 DEF SecurityOption
  <2>2. CASE Refuses
    BY <1>7, <2>2 DEF SecurityOption, Refuses, InStage, Reading, host, Config, Listed
  <2>3. CASE ~Refuses
    <3>1. Config(config')
      BY <2>1, <2>3, SecurityTyped
    <3> QED
      BY <1>7, <2>1, <2>3, <3>1 DEF SecurityOption, InStage, Reading
  <2> QED
    BY <2>2, <2>3
<1>8. CASE MalformedOption
  BY <1>8 DEF MalformedOption, Refuses, InStage, Reading, host, Config, Listed
<1> QED
  BY <1>1, <1>2, <1>3, <1>4, <1>5, <1>6, <1>7, <1>8 DEF ReadsOptions

(* What the start hands over.                                              *)
Handed ==
  /\ Driver \in {"machine", "container"} /\ BootFilesExist(config, Driver, here)
  /\ domain.devices = Devices(config, Driver) /\ domain.filesystems = Filesystems(config, Driver)
  /\ domain.ports = Ports(config, Driver) /\ domain.initrd \in BootImages(config, Driver, here)
  /\ mountsCfg = MountsCfg(config, Driver) /\ disksCfg = DisksCfg(config, Driver)
  /\ file = SaveConfig(config)

(* The start refuses, or hands over what the builder made of the           *)
(* configuration.                                                          *)
LEMMA StartStep ==
  ASSUME StartSandbox
  PROVE  /\ stage = "start" /\ UNCHANGED << host, guest >>
         /\ \/ stage' = "refused" /\ UNCHANGED handed
            \/ /\ Handed'
               /\ Driver = "machine" => stage' = "modules"
               /\ Driver = "container" => stage' = "container"
<1>1. CASE CannotBuild
  BY <1>1 DEF StartSandbox, Refuses
<1>2. CASE ~CannotBuild
  <2>2. CASE Refuses
    BY <2>2 DEF Refuses, StartSandbox
  <2>3. CASE ~Refuses
    <3> PICK d \in Domains(config, Driver, here) :
           /\ stage' = IF Driver = "machine" THEN "modules" ELSE "container"
           /\ file' = SaveConfig(config)
           /\ disksCfg' = DisksCfg(config, Driver)
           /\ mountsCfg' = MountsCfg(config, Driver)
           /\ domain' = d
           /\ UNCHANGED << host, guest >>
      BY <1>2, <2>3 DEF StartSandbox
    <3>1. Driver \in {"machine", "container"} /\ BootFilesExist(config, Driver, here)
      BY <1>2 DEF CannotBuild, Driver, Builder
    <3>2. /\ d.devices = Devices(config, Driver) /\ d.filesystems = Filesystems(config, Driver)
          /\ d.ports = Ports(config, Driver) /\ d.initrd \in BootImages(config, Driver, here)
      BY DEF Domains
    <3>3. config' = config /\ here' = here /\ Driver' = Driver
      BY DEF host, Driver
    <3>4. Handed'
      <4>1. BootFilesExist(config', Driver', here')
        BY <3>1, <3>3
      <4>2. /\ domain'.devices = Devices(config', Driver')
            /\ domain'.filesystems = Filesystems(config', Driver')
            /\ domain'.ports = Ports(config', Driver')
            /\ domain'.initrd \in BootImages(config', Driver', here')
        BY <3>2, <3>3
      <4>3. /\ mountsCfg' = MountsCfg(config', Driver') /\ disksCfg' = DisksCfg(config', Driver')
            /\ file' = SaveConfig(config')
        BY <3>3
      <4> QED
        BY <3>1, <3>3, <4>1, <4>2, <4>3 DEF Handed
    <3> QED
      BY <3>1, <3>4 DEF StartSandbox
  <2> QED
    BY <2>2, <2>3
<1> QED
  BY <1>1, <1>2

(* The steps of the guest.                                                 *)
GuestRuns ==
  \/ InsertModules \/ MountRoot \/ MountLine \/ EnterContainer \/ ExecCommon
  \/ LoadIt \/ SetupDiskTag \/ SetupTagsDone \/ SetupCustomEnv
  \/ SetupNetworkDevice \/ RunInteractive

(* A step is one of the options, the start or one of the guest.            *)
LEMMA Steps ==
  ASSUME Next PROVE ReadsOptions \/ StartSandbox \/ GuestRuns
  BY DEF Next, ReadsOptions, GuestRuns

(* The guest changes nothing that was handed over.                         *)
LEMMA GuestSteps ==
  ASSUME GuestRuns
  PROVE  /\ UNCHANGED << host, handed >>
         /\ stage \in GuestStages /\ stage' \in GuestStages \cup (Ended \ {"refused"})
         /\ stage' # "modules" /\ stage' # "container"
<1> USE DEF GuestStages, Ended, Failures
<1>1. CASE InsertModules
  BY <1>1 DEF InsertModules
<1>2. CASE MountRoot
  BY <1>2 DEF MountRoot
<1>3. CASE MountLine
  BY <1>3 DEF MountLine
<1>4. CASE EnterContainer
  BY <1>4 DEF EnterContainer
<1>5. CASE ExecCommon
  BY <1>5 DEF ExecCommon
<1>6. CASE LoadIt
  BY <1>6 DEF LoadIt
<1>7. CASE SetupDiskTag \/ SetupTagsDone
  BY <1>7 DEF SetupDiskTag, SetupTagsDone
<1>8. CASE SetupCustomEnv \/ SetupNetworkDevice
  BY <1>8 DEF SetupCustomEnv, SetupNetworkDevice
<1>9. CASE RunInteractive
  BY <1>9 DEF RunInteractive
<1> QED
  BY <1>1, <1>2, <1>3, <1>4, <1>5, <1>6, <1>7, <1>8, <1>9 DEF GuestRuns

(* Host and files do not change under the guest.                           *)
LEMMA HandedStays ==
  ASSUME UNCHANGED << host, handed >>
  PROVE  /\ Handed => Handed'
         /\ Driver' = Driver /\ (Config(config) => Config(config)')
  BY DEF host, handed, Handed, Driver, Config, Listed

-----------------------------------------------------------------------------
(* What a machine mounts.                                                  *)

(* Nothing is chosen if no element is wanted.                              *)
LEMMA ChosenNone ==
  ASSUME NEW S, NEW s \in Seq(S), NEW K, \A i \in 1 .. Len(s) : s[i] \notin K
  PROVE  Chosen(s, K) = << >>
<1>1. Chosen(s, K) \in Seq(S) /\ Len(Chosen(s, K)) \in Nat
  BY ChosenTyped
<1>2. \A k \in 1 .. Len(Chosen(s, K)) : \E i \in 1 .. Len(s) : s[i] \in K
  BY ChosenFrom DEF Comes
<1>3. Len(Chosen(s, K)) = 0
  BY <1>1, <1>2
<1> QED
  BY <1>1, <1>3, EmptySeq

(* The first that is wanted is the first that is chosen.                   *)
LEMMA ChosenFirst ==
  ASSUME NEW S, NEW s \in Seq(S), NEW K, NEW i \in 1 .. Len(s), s[i] \in K,
         \A j \in 1 .. i - 1 : s[j] \notin K
  PROVE  Chosen(s, K) # << >> /\ Chosen(s, K)[1] = s[i]
<1> DEFINE p == SubSeq(s, 1, i - 1)
<1>1. Len(s) \in Nat /\ i - 1 \in 0 .. Len(s) /\ \A j \in 1 .. i - 1 : s[j] \in S
  BY LenProperties, ElementOfSeq
<1>2. p \in Seq(S) /\ Len(p) = i - 1 /\ \A j \in 1 .. i - 1 : p[j] = s[j]
  BY <1>1, SubSeqProperties
<1> HIDE DEF p
<1>3. Chosen(p, K) = << >>
  BY <1>2, ChosenNone
<1>4. Len(ChosenTo(s, i - 1, K)) = 0
  BY <1>3, EmptySeq DEF ChosenTo, p
<1>5. 1 \in 1 .. Len(Chosen(s, K)) /\ Chosen(s, K)[1] = s[i]
  BY <1>4, ChosenPlace
<1>6. Len(<< >>) = 0
  BY EmptySeq
<1> QED
  BY <1>5, <1>6

(* A machine that has been handed its devices and has their drivers.       *)
MachineReady ==
  /\ Config(config) /\ Handed /\ Driver = "machine" /\ Wanted(config) \subseteq drivers

(* A device that is reached and alone of its name is what is found.        *)
LEMMA FoundNamed ==
  ASSUME NEW dev, NEW source, Reached(dev), Named(domain.devices, dev) = {Device(dev, source)}
  PROVE  Found(dev) = {<< "host", source >>}
<1>1. {x \in domain.devices : x.dev = dev} = {Device(dev, source)}
  BY DEF Named
<1>2. Device(dev, source).source = source
  BY DEF Device
<1> QED
  BY <1>1, <1>2 DEF Found

(* A line of mounts.cfg mounts what the mount of its number asks for,      *)
(* unless its source is not there.                                         *)
LEMMA LineMounts ==
  ASSUME MachineReady, NEW i \in 1 .. Len(config.mounts)
  PROVE  /\ config.mounts[i] \in MountSet
         /\ mountsCfg[i].target = config.mounts[i].target
         /\ Mounting(mountsCfg[i].source) \subseteq {Yields(config.mounts[i]), << "no source" >>}
<1> DEFINE m == config.mounts[i]
           x == LineSource(config, i)
<1>0. Listed(config) /\ config.mounts \in Seq(MountSet)
  BY DEF MachineReady, Config, Listed
<1>1. /\ m \in MountSet
      /\ m.type \in {"host-bind", "host-image"} =>
            Named(Devices(config, "machine"), x) = {Device(x, m.source)}
      /\ m.type = "host-bind" => x[1] = "sandbox:mount"
      /\ m.type = "host-image" => x[1] = "vd"
      /\ m.type \in {"guest-bind", "ram"} => x = Yields(m)
  BY <1>0, LineNames
<1>2. DOMAIN config.mounts = 1 .. Len(config.mounts)
  BY <1>0, LenProperties
<1>3. mountsCfg[i].source = x /\ mountsCfg[i].target = m.target
  BY <1>2 DEF MachineReady, Handed, MountsCfg
<1>4. m.type \in MountTypes
  BY <1>1 DEF MountSet
<1>5. domain.devices = Devices(config, "machine")
  BY DEF MachineReady, Handed
<1>6. m.type = "host-image" => HasMountsWithType(config, "host-image")
  BY <1>2 DEF HasMountsWithType
<1> HIDE DEF m, x
<1>7. CASE m.type = "host-bind"
  <2>1. Reached(x)
    BY <1>1, <1>7 DEF Reached, DriversOf, MachineReady, Wanted, Common
  <2>2. Found(x) = {<< "host", m.source >>}
    BY <1>1, <1>5, <1>7, <2>1, FoundNamed
  <2> QED
    BY <1>1, <1>3, <1>7, <2>2 DEF Mounting, IsDevice, Yields, m
<1>8. CASE m.type = "host-image"
  <2>1. "virtio_blk" \in Wanted(config)
    BY <1>6, <1>8 DEF Wanted, WantsBlk
  <2>2. Reached(x)
    BY <1>1, <1>8, <2>1 DEF Reached, DriversOf, MachineReady, Wanted, Common
  <2>3. Found(x) = {<< "host", m.source >>}
    BY <1>1, <1>5, <1>8, <2>2, FoundNamed
  <2>4. "ext4" \in drivers
    BY DEF MachineReady, Wanted, Common
  <2> QED
    BY <1>1, <1>3, <1>8, <2>3, <2>4 DEF Mounting, IsDevice, Yields, m
<1>9. CASE m.type \in {"guest-bind", "ram"}
  <2>1. x = Yields(m) /\ Yields(m)[1] \in {"guest", "tmpfs"}
    BY <1>1, <1>9 DEF Yields
  <2> QED
    BY <1>1, <1>3, <2>1 DEF Mounting, IsDevice, m
<1> QED
  BY <1>4, <1>7, <1>8, <1>9 DEF MountTypes

(* The mounts at a target.                                                 *)
AtTarget(t) == {m \in MountSet : m.target = t}

(* What the configuration yields at the root: its first mount there, or   *)
(* the root tree.                                                          *)
RootYields ==
  LET roots == Chosen(config.mounts, AtTarget(Root))
  IN  IF roots = << >> THEN << "host", config.root >> ELSE Yields(roots[1])

(* The root of a machine is that.                                          *)
LEMMA RootMounts ==
  ASSUME MachineReady
  PROVE  Mounting(RootSource) \subseteq {RootYields, << "no source" >>}
<1>1. config.mounts \in Seq(MountSet) /\ Listed(config)
  BY DEF MachineReady, Config, Listed
<1>2. /\ DOMAIN config.mounts = 1 .. Len(config.mounts) /\ Len(config.mounts) \in Nat
      /\ \A i \in 1 .. Len(config.mounts) : config.mounts[i] \in MountSet
  BY <1>1, LenProperties, ElementOfSeq
<1>3. /\ DOMAIN mountsCfg = 1 .. Len(config.mounts)
      /\ \A i \in 1 .. Len(config.mounts) : mountsCfg[i].target = config.mounts[i].target
  BY <1>2, LineMounts DEF MachineReady, Handed, MountsCfg
<1>4. RootLines = {i \in 1 .. Len(config.mounts) : config.mounts[i] \in AtTarget(Root)}
  BY <1>2, <1>3 DEF RootLines, AtTarget
<1>5. CASE RootLines = {}
  <2>1. Chosen(config.mounts, AtTarget(Root)) = << >>
    BY <1>1, <1>4, <1>5, ChosenNone
  <2>2. RootYields = << "host", config.root >>
    BY <2>1 DEF RootYields
  <2>3. ~HasRootMount(config)
    BY <1>2, <1>4, <1>5 DEF HasRootMount, AtTarget
  <2>4. Named(domain.devices, << "sandbox:root" >>) = {Device(<< "sandbox:root" >>, config.root)}
    BY <1>1, <2>3, MachineNames DEF MachineReady, Handed
  <2>5. Reached(<< "sandbox:root" >>)
    BY DEF Reached, DriversOf, MachineReady, Wanted, Common
  <2>6. Found(<< "sandbox:root" >>) = {<< "host", config.root >>}
    BY <2>4, <2>5, FoundNamed
  <2>7. RootSource = << "sandbox:root" >>
    BY <1>5 DEF RootSource
  <2> QED
    BY <2>2, <2>6, <2>7 DEF Mounting, IsDevice
<1>6. CASE RootLines # {}
  <2> DEFINE i == CHOOSE k \in RootLines : \A l \in RootLines : k <= l
  <2>1. i \in RootLines /\ \A l \in RootLines : i <= l
    <3>1. RootLines \in SUBSET Nat
      BY <1>4
    <3> QED
      BY <1>6, <3>1, LeastOf
  <2>2. RootSource = mountsCfg[i].source
    BY <1>6 DEF RootSource
  <2> HIDE DEF i
  <2>3. i \in 1 .. Len(config.mounts) /\ config.mounts[i] \in AtTarget(Root)
    BY <1>4, <2>1
  <2>4. \A j \in 1 .. i - 1 : config.mounts[j] \notin AtTarget(Root)
    BY <1>2, <1>4, <2>1, <2>3
  <2>5. /\ Chosen(config.mounts, AtTarget(Root)) # << >>
        /\ Chosen(config.mounts, AtTarget(Root))[1] = config.mounts[i]
    BY <1>1, <2>3, <2>4, ChosenFirst
  <2>6. RootYields = Yields(config.mounts[i])
    BY <2>5 DEF RootYields
  <2> QED
    BY <2>2, <2>3, <2>6, LineMounts
<1> QED
  BY <1>5, <1>6

-----------------------------------------------------------------------------
(* The boot.                                                               *)

(* The stages before anything is set up in the guest.                      *)
Early == Reading \cup {"refused", "modules", "container", "no init", "no module"}

(* Nothing is set up.                                                      *)
Untouched ==
  /\ drivers = {} /\ line = 1 /\ root = << Nothing >> /\ mounted = << >> /\ links = {}
  /\ environ = << >> /\ ip = << >> /\ ttys = << >>

(* The invariant of the start and the boot: what is built, handed over and *)
(* loaded in which stage.                                                  *)
Base ==
  /\ Config(config)
  /\ stage \in Reading \cup GuestStages \cup Ended
  /\ stage \notin Reading \cup {"refused"} => Handed
  /\ stage \in {"modules", "root"} => Driver = "machine"
  /\ stage = "container" => Driver = "container"
  /\ stage \in Early => Untouched
  /\ stage = "root" => root = << Nothing >> /\ mounted = << >> /\ line = 1
  /\ line \in Nat \ {0}
  /\ stage \notin Early /\ Driver = "machine" => Wanted(config) \subseteq drivers

(* It holds at the beginning, ...                                          *)
LEMMA BaseInit ==
  ASSUME Init PROVE Base
<1>1. Config(config)
  BY NewConfigTyped DEF Init
<1>2. stage = "envs"
  BY DEF Init, OptionStages
<1>3. Untouched
  BY DEF Init, Untouched
<1> QED
  BY <1>1, <1>2, <1>3 DEF Base, Reading, Early, Untouched, GuestStages

(* ... through the options, ...                                            *)
LEMMA BaseOptions ==
  ASSUME Base, ReadsOptions PROVE Base'
<1>1. /\ stage \in Reading /\ stage' \in Reading \cup {"refused"}
      /\ Config(config)' /\ UNCHANGED << here, handed, guest >>
  BY OptionSteps DEF Base
<1>2. Untouched /\ Untouched'
  BY <1>1 DEF Base, Early, Untouched, guest
<1> QED
  BY <1>1, <1>2 DEF Base, Reading, Early, Untouched, GuestStages, Ended

(* ... the start, ...                                                      *)
LEMMA BaseStart ==
  ASSUME Base, StartSandbox PROVE Base'
<1>1. /\ stage = "start" /\ UNCHANGED << host, guest >>
      /\ \/ stage' = "refused" /\ UNCHANGED handed
         \/ /\ Handed'
            /\ Driver = "machine" => stage' = "modules"
            /\ Driver = "container" => stage' = "container"
  BY StartStep
<1>2. Untouched /\ Untouched'
  BY <1>1 DEF Base, Early, Reading, Untouched, guest
<1>3. Config(config)' /\ Driver' = Driver
  BY <1>1 DEF Base, host, Driver, Config, Listed
<1>4. CASE stage' = "refused"
  BY <1>2, <1>3, <1>4 DEF Base, Reading, Early, Untouched, GuestStages, Ended
<1>5. CASE stage' # "refused"
  <2>1. Handed' /\ Driver \in {"machine", "container"}
    BY <1>1, <1>3, <1>5 DEF Handed
  <2>2. (Driver = "machine" /\ stage' = "modules") \/ (Driver = "container" /\ stage' = "container")
    BY <1>1, <1>5, <2>1
  <2> QED
    BY <1>2, <1>3, <2>1, <2>2 DEF Base, Reading, Early, Untouched, GuestStages, Ended
<1> QED
  BY <1>4, <1>5

(* ... the modules of the initrd, ...                                      *)
LEMMA BaseModules ==
  ASSUME ModularTrees, Base, InsertModules PROVE Base'
<1>1. /\ stage = "modules" /\ UNCHANGED << host, handed >> /\ Driver = "machine"
      /\ UNCHANGED << loaded, line, root, mounted, links, environ, ip, ttys >>
  BY DEF InsertModules, Base
<1>2. Handed /\ Handed' /\ Config(config)' /\ Driver' = Driver /\ config' = config /\ here' = here
  BY <1>1, HandedStays DEF Base, Reading, host
<1>3. Untouched
  BY <1>1 DEF Base, Early
<1> DEFINE image == domain.initrd
<1>4. CASE image = EmptyImage
  <2>1. stage' = "no init" /\ drivers' = drivers
    BY <1>4 DEF InsertModules
  <2>2. Untouched'
    BY <1>1, <1>3, <2>1 DEF Untouched
  <2> QED
    BY <1>1, <1>2, <2>1, <2>2 DEF Base, Reading, Early, Untouched, GuestStages, Ended
<1>5. CASE image # EmptyImage /\ \A n \in DOMAIN image.modules : Loads(image, n)
  <2>1. stage' = "root" /\ drivers' = Builtin(domain.kernel) \cup Range(image.modules)
    BY <1>5 DEF InsertModules
  <2>2. image \in InitrdImages(config, here) /\ KernRelease(config, here) \in DOMAIN Trees
    BY <1>1, <1>2 DEF Handed, BootImages, BootFilesExist
  <2>3. \A n \in DOMAIN image.modules : image.release = domain.kernel
    BY <1>5 DEF Loads
  <2> HIDE DEF image
  <2>4. Wanted(config) \subseteq Builtin(domain.kernel) \cup Range(image.modules)
    BY <1>5, <2>2, <2>3, DriversLoaded
  <2>5. Wanted(config') \subseteq drivers'
    BY <1>2, <2>1, <2>4
  <2>6. line' = 1 /\ root' = << Nothing >> /\ mounted' = << >>
    BY <1>1, <1>3 DEF Untouched
  <2> QED
    BY <1>1, <1>2, <2>1, <2>5, <2>6 DEF Base, Reading, Early, GuestStages, Ended
<1>6. CASE image # EmptyImage /\ ~\A n \in DOMAIN image.modules : Loads(image, n)
  <2>1. stage' = "no module" /\ drivers' = drivers
    BY <1>6 DEF InsertModules
  <2>2. Untouched'
    BY <1>1, <1>3, <2>1 DEF Untouched
  <2> QED
    BY <1>1, <1>2, <2>1, <2>2 DEF Base, Reading, Early, Untouched, GuestStages, Ended
<1> QED
  BY <1>4, <1>5, <1>6

(* ... the other steps of the guest ...                                    *)
LEMMA BaseGuest ==
  ASSUME ModularTrees, Base, GuestRuns PROVE Base'
<1>1. /\ UNCHANGED << host, handed >>
      /\ stage \in GuestStages /\ stage' \in GuestStages \cup (Ended \ {"refused"})
      /\ stage' # "modules" /\ stage' # "container"
  BY GuestSteps
<1>2. /\ Handed /\ Handed' /\ Config(config)' /\ Driver' = Driver /\ config' = config
      /\ Driver \in {"machine", "container"}
  BY <1>1, HandedStays DEF Base, Reading, host, GuestStages, Handed
<1>3. CASE InsertModules
  BY <1>3, BaseModules
<1>4. CASE ~InsertModules
  <2>1. /\ drivers' = drivers /\ line' \in Nat \ {0} /\ stage' \notin Early
        /\ stage # "modules" /\ stage' # "root"
    <3>0. line \in Nat \ {0} /\ line + 1 \in Nat \ {0}
      BY DEF Base
    <3> USE <3>0 DEF Early, Reading, Failures
    <3>1. CASE MountRoot
      BY <3>1 DEF MountRoot
    <3>2. CASE MountLine
      BY <3>2 DEF MountLine
    <3>3. CASE EnterContainer
      BY <3>3 DEF EnterContainer
    <3>4. CASE ExecCommon
      BY <3>4 DEF ExecCommon, guest
    <3>5. CASE LoadIt
      BY <3>5 DEF LoadIt
    <3>6. CASE SetupDiskTag \/ SetupTagsDone
      <4>1. /\ stage = "tags" /\ line' \in {line + 1, 1} /\ drivers' = drivers
            /\ stage' \in {"tags", "tag taken", "env"}
        BY <3>6 DEF SetupDiskTag, SetupTagsDone
      <4>2. line' \in Nat \ {0}
        <5>1. 1 \in Nat \ {0}
          OBVIOUS
        <5>2. line' = line + 1 \/ line' = 1
          BY <4>1
        <5> QED
          BY ONLY <3>0, <5>1, <5>2
      <4>3. stage' \notin Early /\ stage # "modules" /\ stage' # "root"
        BY <4>1
      <4> QED
        BY <4>1, <4>2, <4>3
    <3>7. CASE SetupCustomEnv
      BY <3>7 DEF SetupCustomEnv
    <3>8. CASE RunInteractive
      BY <3>8 DEF RunInteractive
    <3>9. CASE SetupNetworkDevice
      <4>1. /\ stage = "net" /\ line' = line + 1 /\ drivers' = drivers
            /\ stage' = stage \/ stage' = "no network"
        BY <3>9 DEF SetupNetworkDevice
      <4> QED
        BY <4>1
    <3> QED
      BY <1>4, <3>1, <3>2, <3>3, <3>4, <3>5, <3>6, <3>7, <3>8, <3>9 DEF GuestRuns
  <2>2. stage \notin Early \/ Driver = "container"
    BY <1>1, <2>1 DEF Base, Early, Reading, GuestStages
  <2>3. Driver = "machine" => Wanted(config) \subseteq drivers
    BY <2>2 DEF Base
  <2>4. Driver' = "machine" => Wanted(config') \subseteq drivers'
    BY <1>2, <2>1, <2>3
  <2> QED
    BY <1>1, <1>2, <2>1, <2>4 DEF Base, Early, Reading
<1> QED
  BY <1>3, <1>4

(* ... and so through every step.                                          *)
LEMMA BaseStep ==
  ASSUME ModularTrees, Base, [Next]_vars PROVE Base'
<1>1. CASE Next
  BY <1>1, Steps, BaseOptions, BaseStart, BaseGuest
<1>2. CASE UNCHANGED vars
  BY <1>2 DEF Base, vars, host, handed, guest, Untouched, Handed, Driver, Config, Listed
<1> QED
  BY <1>1, <1>2

(* A machine that mounts has what it needs to.                             *)
LEMMA AfterMounts ==
  ASSUME Base, stage \notin Early, Driver = "machine" PROVE MachineReady
  BY DEF Base, MachineReady, Early

(* What a mount asks for is never a failure.                               *)
LEMMA Mountable ==
  ASSUME NEW m \in MountSet PROVE Yields(m)[1] \notin Failures
  BY DEF Yields, MountSet, MountTypes, Failures

(* Each line that is mounted is the mount of its number.                   *)
LEMMA LinesFound ==
  ASSUME Base, stage = "mount", line <= Len(mountsCfg)
  PROVE  /\ MachineReady /\ line \in 1 .. Len(config.mounts)
         /\ Mounting(mountsCfg[line].source) \subseteq {Yields(config.mounts[line]), << "no source" >>}
         /\ Yields(config.mounts[line])[1] \notin Failures
         /\ mountsCfg[line].target = config.mounts[line].target
<1>1. Handed /\ line \in Nat \ {0} /\ Config(config)
  BY DEF Base, Reading
<1>2. Driver # "container"
  <2>1. Driver = "container" => mountsCfg = << >>
    BY <1>1 DEF Handed, MountsCfg
  <2>2. Len(<< >>) = 0
    BY EmptySeq
  <2> QED
    BY <1>1, <2>1, <2>2
<1>3. MachineReady
  BY <1>1, <1>2, AfterMounts DEF Handed, Early, Reading
<1>4. Len(mountsCfg) = Len(config.mounts) /\ Len(config.mounts) \in Nat
  <2>1. config.mounts \in Seq(MountSet)
    BY <1>1 DEF Config, Listed
  <2>2. DOMAIN mountsCfg = 1 .. Len(config.mounts) /\ Len(config.mounts) \in Nat
    BY <2>1, <1>2, <1>3, LenProperties DEF MachineReady, Handed, MountsCfg
  <2>3. mountsCfg = [k \in 1 .. Len(config.mounts) |-> mountsCfg[k]]
    BY <2>1, <1>2, <1>3, LenProperties DEF MachineReady, Handed, MountsCfg
  <2>4. mountsCfg \in Seq({mountsCfg[k] : k \in 1 .. Len(config.mounts)})
    BY <2>2, <2>3, SeqDef
  <2> QED
    BY <2>2, <2>4, LenProperties
<1>5. line \in 1 .. Len(config.mounts)
  BY <1>1, <1>4
<1> QED
  BY <1>3, <1>5, LineMounts, Mountable

(* The first element of a sequence.                                        *)
LEMMA FirstOf ==
  ASSUME NEW S, NEW s \in Seq(S), s # << >>
  PROVE  1 \in 1 .. Len(s) /\ s[1] \in S
<1>1. Len(s) \in Nat /\ Len(s) # 0
  BY EmptySeq, LenProperties
<1>2. 1 \in 1 .. Len(s)
  BY <1>1
<1> QED
  BY <1>2, ElementOfSeq

(* No step ends in a device that is missing.                               *)
LEMMA FoundStep ==
  ASSUME Base, BootFindsDevices, [Next]_vars
  PROVE  BootFindsDevices'
<1> USE DEF BootFindsDevices
<1>1. CASE ReadsOptions
  BY <1>1, OptionSteps DEF Base, Reading
<1>2. CASE StartSandbox
  <2>1. CASE stage' = "refused"
    BY <2>1
  <2>2. CASE stage' # "refused"
    <3>1. Handed' /\ Driver' = Driver
      BY <1>2, <2>2, StartStep DEF host, Driver
    <3>2. Driver \in {"machine", "container"}
      BY <3>1 DEF Handed
    <3> QED
      BY <1>2, <2>2, <3>2, StartStep
  <2> QED
    BY <2>1, <2>2
<1>3. CASE MountRoot
  <2>1. MachineReady
    BY <1>3, AfterMounts DEF MountRoot, Base, Early, Reading
  <2>2. Mounting(RootSource) \subseteq {RootYields, << "no source" >>}
    BY <2>1, RootMounts
  <2>3. PICK what \in Mounting(RootSource) :
           IF what[1] \in Failures THEN stage' = what[1] ELSE stage' = "mount"
    BY <1>3 DEF MountRoot
  <2>4. RootYields[1] \notin Failures
    <3> DEFINE roots == Chosen(config.mounts, AtTarget(Root))
    <3>1. roots \in Seq(MountSet)
      BY <2>1, ChosenTyped DEF MachineReady, Config, Listed
    <3>2. RootYields = IF roots = << >> THEN << "host", config.root >> ELSE Yields(roots[1])
      BY DEF RootYields
    <3> HIDE DEF roots
    <3>3. CASE roots = << >>
      BY <3>2, <3>3 DEF Failures
    <3>4. CASE roots # << >>
      <4>1. roots[1] \in MountSet
        BY <3>1, <3>4, FirstOf
      <4> QED
        BY <3>2, <3>4, <4>1, Mountable
    <3> QED
      BY <3>3, <3>4
  <2>5. CASE what = RootYields
    BY <2>3, <2>4, <2>5
  <2>6. CASE what = << "no source" >>
    BY <2>3, <2>6
  <2> QED
    BY <2>2, <2>5, <2>6
<1>4. CASE MountLine
  <2>1. CASE SkipsLine(mountsCfg[line])
    BY <1>4, <2>1 DEF MountLine
  <2>2. CASE ~SkipsLine(mountsCfg[line])
    <3>1. /\ Mounting(mountsCfg[line].source) \subseteq {Yields(config.mounts[line]), << "no source" >>}
          /\ Yields(config.mounts[line])[1] \notin Failures
      BY <1>4, LinesFound DEF MountLine
    <3>2. PICK what \in Mounting(mountsCfg[line].source) :
             IF what[1] \in Failures THEN stage' = what[1] ELSE stage' = stage
      BY <1>4, <2>2 DEF MountLine
    <3>3. CASE what = Yields(config.mounts[line])
      BY <1>4, <3>1, <3>2, <3>3
    <3>4. CASE what = << "no source" >>
      BY <1>4, <3>2, <3>4
    <3> QED
      BY <3>1, <3>3, <3>4
  <2> QED
    BY <2>1, <2>2
<1>5. CASE InsertModules \/ EnterContainer \/ ExecCommon
  BY <1>5 DEF InsertModules, EnterContainer, ExecCommon
<1>6. CASE LoadIt \/ SetupDiskTag \/ SetupTagsDone
  BY <1>6 DEF LoadIt, SetupDiskTag, SetupTagsDone
<1>7. CASE SetupCustomEnv \/ SetupNetworkDevice \/ RunInteractive
  BY <1>7 DEF SetupCustomEnv, SetupNetworkDevice, RunInteractive
<1>8. CASE UNCHANGED vars
  BY <1>8 DEF vars
<1> QED
  BY <1>1, <1>2, <1>3, <1>4, <1>5, <1>6, <1>7, <1>8, Steps DEF GuestRuns

(* No guest looks for a device that its domain does not have: what         *)
(* init-qemu and init-common open (mounts.cfg, disks.cfg, the interfaces)  *)
(* was counted by construct_devices, for any options, kernels and driver.  *)
THEOREM FindsDevices ==
  ASSUME ModularTrees
  PROVE  Spec => []BootFindsDevices
<1>1. Init => Base /\ BootFindsDevices
  BY BaseInit DEF Init, BootFindsDevices, OptionStages
<1>2. Base /\ BootFindsDevices /\ [Next]_vars => (Base /\ BootFindsDevices)'
  BY BaseStep, FoundStep
<1> QED
  BY <1>1, <1>2, PTL DEF Spec

-----------------------------------------------------------------------------
(* The tags of the disks.                                                  *)

(* A line of disks.cfg that is the first of its tag.                       *)
FirstOfTag(l) ==
  \E k \in 1 .. Len(disksCfg) :
     l = disksCfg[k] /\ \A j \in 1 .. k - 1 : disksCfg[j].tag # l.tag

(* The links lead to those, and have been made for every line that was     *)
(* read.                                                                   *)
Tags ==
  /\ \A l \in links : FirstOfTag(l)
  /\ stage = "tags" => \A k \in 1 .. line - 1 : k \in 1 .. Len(disksCfg) => disksCfg[k] \in links

(* The length of a function on a range.                                    *)
LEMMA Length ==
  ASSUME NEW n \in Nat, NEW f, DOMAIN f = 1 .. n, f = [k \in DOMAIN f |-> f[k]]
  PROVE  f \in Seq({f[k] : k \in 1 .. n}) /\ Len(f) = n
<1>1. f \in [1 .. n -> {f[k] : k \in 1 .. n}]
  OBVIOUS
<1>2. f \in Seq({f[k] : k \in 1 .. n})
  BY <1>1, SeqDef
<1> QED
  BY <1>2, LenProperties

(* disks.cfg has a line for each disk.                                     *)
LEMMA DisksLength ==
  ASSUME Handed, config.disks \in Seq(Disks)
  PROVE  Len(disksCfg) = Len(config.disks) /\ Len(disksCfg) \in Nat
<1>1. /\ Len(config.disks) \in Nat /\ DOMAIN disksCfg = 1 .. Len(config.disks)
      /\ disksCfg = [k \in DOMAIN disksCfg |-> disksCfg[k]]
  BY LenProperties DEF Handed, DisksCfg
<1> QED
  BY ONLY <1>1, Length

(* Every step keeps the links.                                             *)
LEMMA TagsStep ==
  ASSUME Base, Tags, [Next]_vars PROVE Tags'
<1>1. CASE ReadsOptions
  <2>1. stage \in Early /\ stage' # "tags" /\ links' = links
    BY <1>1, OptionSteps DEF Base, guest, Reading, Early
  <2>2. links = {}
    BY <2>1 DEF Base, Untouched
  <2> QED
    BY <2>1, <2>2 DEF Tags
<1>2. CASE StartSandbox
  <2>1. stage \in Early /\ links' = links
    BY <1>2, StartStep DEF Base, guest, Reading, Early
  <2>2. links = {} /\ stage' # "tags"
    BY <1>2, <2>1 DEF Base, Untouched, StartSandbox, Refuses
  <2> QED
    BY <2>1, <2>2 DEF Tags
<1>3. CASE GuestRuns /\ ~SetupDiskTag
  <2>1. disksCfg' = disksCfg
    BY <1>3, GuestSteps DEF handed
  <2>2. links' = links /\ (stage' = "tags" => stage = "load" /\ line' = 1)
    <3>1. CASE InsertModules \/ EnterContainer \/ ExecCommon
      BY <3>1 DEF InsertModules, EnterContainer, ExecCommon, guest
    <3>2. CASE MountRoot \/ MountLine
      BY <3>2 DEF MountRoot, MountLine, Failures
    <3>3. CASE LoadIt \/ SetupTagsDone
      BY <3>3 DEF LoadIt, SetupTagsDone
    <3>4. CASE SetupCustomEnv \/ RunInteractive
      BY <3>4 DEF SetupCustomEnv, RunInteractive
    <3>5. CASE SetupNetworkDevice
      BY <3>5 DEF SetupNetworkDevice
    <3> QED
      BY <1>3, <3>1, <3>2, <3>3, <3>4, <3>5 DEF GuestRuns
  <2>3. \A l \in links : FirstOfTag(l)'= FirstOfTag(l)
    BY <2>1 DEF FirstOfTag
  <2>4. 1 .. 1 - 1 = {}
    OBVIOUS
  <2> QED
    BY <2>1, <2>2, <2>3, <2>4 DEF Tags
<1>4. CASE SetupDiskTag
  <2>1. disksCfg' = disksCfg
    BY <1>4, GuestSteps DEF handed, GuestRuns
  <2>2. stage = "tags" /\ line \in 1 .. Len(disksCfg) /\ line \in Nat /\ line' = line + 1
    <3>1. Len(disksCfg) \in Nat
      <4>1. Handed /\ Config(config) /\ config.disks \in Seq(Disks)
        BY <1>4 DEF SetupDiskTag, Base, Reading, Config, Listed
      <4> QED
        BY <4>1, DisksLength
    <3>2. line \in Nat \ {0}
      BY DEF Base
    <3>3. stage = "tags" /\ line <= Len(disksCfg) /\ line' = line + 1
      BY <1>4 DEF SetupDiskTag
    <3> QED
      BY <3>1, <3>2, <3>3
  <2>3. CASE ~TagFree(disksCfg[line].tag)
    <3>1. stage' = "tag taken" /\ links' = links
      BY <1>4, <2>3 DEF SetupDiskTag
    <3>2. \A l \in links : FirstOfTag(l)'= FirstOfTag(l)
      BY <2>1 DEF FirstOfTag
    <3> QED
      BY <3>1, <3>2 DEF Tags
  <2>4. CASE TagFree(disksCfg[line].tag)
    <3>1. links' = links \cup {disksCfg[line]} /\ stage' = "tags"
      BY <1>4, <2>2, <2>4 DEF SetupDiskTag
    <3>2. ASSUME NEW j \in 1 .. line - 1 PROVE disksCfg[j] \in links
      <4>1. j \in 1 .. Len(disksCfg)
        BY <2>2
      <4> QED
        BY <2>2, <4>1 DEF Tags
    <3>3. \A j \in 1 .. line - 1 : disksCfg[j].tag # disksCfg[line].tag
      BY <2>4, <3>2 DEF TagFree
    <3>4. FirstOfTag(disksCfg[line])
      BY <2>2, <3>3 DEF FirstOfTag
    <3>5. \A l \in links' : FirstOfTag(l)
      BY <3>1, <3>4 DEF Tags
    <3>6. \A l \in links' : FirstOfTag(l)'
      BY <2>1, <3>5 DEF FirstOfTag
    <3>7. \A k \in 1 .. line' - 1 : disksCfg'[k] \in links'
      <4>1. \A k \in 1 .. line' - 1 : k \in 1 .. line - 1 \/ k = line
        BY <2>2
      <4> QED
        BY <2>1, <3>1, <3>2, <4>1
    <3> QED
      BY <3>6, <3>7 DEF Tags
  <2> QED
    BY <2>3, <2>4
<1>5. CASE UNCHANGED vars
  BY <1>5 DEF vars, handed, guest, Tags, FirstOfTag
<1> QED
  BY <1>1, <1>2, <1>3, <1>4, <1>5, Steps

(* The device of a disk.                                                   *)
LEMMA DiskFound ==
  ASSUME Base, stage \notin Early, NEW k \in 1 .. Len(config.disks)
  PROVE  Found(<< DiskPrefix(Driver), k - 1 >>) = {<< "host", config.disks[k].source >>}
<1>1. Handed /\ Config(config) /\ Listed(config) /\ config.disks \in Seq(Disks)
  BY DEF Base, Early, Config, Listed
<1>2. CASE Driver = "machine"
  <2>1. Wanted(config) \subseteq drivers /\ DiskPrefix(Driver) = "vd"
    BY <1>2 DEF Base, DiskPrefix
  <2>2. k \in 1 .. Len(DiskSources(config)) /\ DiskSources(config)[k] = config.disks[k].source
    <3>1. /\ Len(DiskSources(config)) = Len(config.disks) + Len(OfType(config, "host-image"))
          /\ DiskSources(config)[k] = config.disks[k].source
      BY <1>1, MachineSources
    <3>2. Len(OfType(config, "host-image")) \in Nat /\ Len(config.disks) \in Nat
      BY <1>1, Kinds, ChosenTyped, LenProperties DEF Listed
    <3> QED
      BY <3>1, <3>2
  <2>3. Named(domain.devices, << "vd", k - 1 >>)
          = {Device(<< "vd", k - 1 >>, config.disks[k].source)}
    BY <1>1, <1>2, <2>2, MachineNames DEF Handed
  <2>4. config.disks # << >>
    <3>1. Len(<< >>) = 0
      BY EmptySeq
    <3> QED
      BY <3>1
  <2>5. "virtio_blk" \in Wanted(config)
    BY <2>4 DEF Wanted, WantsBlk, HasDisks
  <2>6. Reached(<< "vd", k - 1 >>)
    BY <2>1, <2>5 DEF Reached, DriversOf, Wanted, Common
  <2> QED
    BY <2>1, <2>3, <2>6, FoundNamed
<1>3. CASE Driver = "container"
  <2> DEFINE q == Sources(config.disks)
             w == [i \in DOMAIN config.networks |->
                     LET source == config.networks[i].source
                     IN  IF source = NoValue THEN "default" ELSE source]
  <2>1. domain.devices = Numbered("sd", q) \cup Numbered("eth", w)
    BY <1>1, <1>3 DEF Handed, Devices, ContainerDisks, ContainerNetworks
  <2>2. q \in Seq(AllSources) /\ Len(q) = Len(config.disks) /\ q[k] = config.disks[k].source
    <3>1. Sourced(Disks, AllSources)
      BY DEF Sourced, AllSources
    <3> QED
      BY <1>1, <3>1, SourcesTyped
  <2> HIDE DEF q, w
  <2>3. \A x \in Numbered("eth", w) : x.dev[1] = "eth"
    BY DEF Numbered
  <2>4. Named(domain.devices, << "sd", k - 1 >>) = Named(Numbered("sd", q), << "sd", k - 1 >>)
    BY <2>1, <2>3 DEF Named
  <2>5. Named(Numbered("sd", q), << "sd", k - 1 >>)
          = {Device(<< "sd", k - 1 >>, config.disks[k].source)}
    BY <2>2, NumberedAt DEF Named, Device
  <2>6. Reached(<< "sd", k - 1 >>) /\ DiskPrefix(Driver) = "sd"
    BY <1>3 DEF Reached, DiskPrefix
  <2> QED
    BY <2>4, <2>5, <2>6, FoundNamed
<1> QED
  BY <1>1, <1>2, <1>3 DEF Handed

(* The disks of a tag are chosen from all disks.                           *)
LEMMA TagChosen ==
  ASSUME NEW s \in Seq(Disks), NEW t
  PROVE  Select(s, LAMBDA d : d.tag = t) = Chosen(s, {d \in Disks : d.tag = t})
<1>1. DOMAIN s = 1 .. Len(s) /\ \A i \in 1 .. Len(s) : s[i] \in Disks
  BY LenProperties, ElementOfSeq
<1>2. [i \in DOMAIN s |-> IF s[i].tag = t THEN << s[i] >> ELSE << >>]
        = Pieces(s, {d \in Disks : d.tag = t})
  BY <1>1 DEF Pieces, Piece
<1>3. FlattenSeq([i \in DOMAIN s |-> IF s[i].tag = t THEN << s[i] >> ELSE << >>])
        = Chosen(s, {d \in Disks : d.tag = t})
  BY <1>2 DEF Chosen
<1> QED
  BY <1>3 DEF Select

(* Then a link leads to the first disk of its tag.                         *)
LEMMA TagsLead ==
  ASSUME Base, Tags PROVE TagsFindDisks
<1> SUFFICES ASSUME NEW l \in links
             PROVE  LET tagged == Chosen(config.disks, {d \in Disks : d.tag = l.tag})
                    IN  tagged # << >> /\ Found(l.dev) = {<< "host", tagged[1].source >>}
  <2>1. config.disks \in Seq(Disks)
    BY DEF Base, Config, Listed
  <2> QED
    BY <2>1, TagChosen DEF TagsFindDisks
<1>1. stage \notin Early
  BY DEF Base, Untouched
<1>2. Handed /\ Config(config) /\ config.disks \in Seq(Disks)
  BY <1>1 DEF Base, Early, Config, Listed
<1>3. /\ DOMAIN config.disks = 1 .. Len(config.disks) /\ Len(config.disks) \in Nat
      /\ \A k \in 1 .. Len(config.disks) : config.disks[k] \in Disks
  BY <1>2, LenProperties, ElementOfSeq
<1>4. disksCfg = [k \in 1 .. Len(config.disks) |->
                     [tag |-> config.disks[k].tag, dev |-> << DiskPrefix(Driver), k - 1 >>]]
  BY <1>2, <1>3 DEF Handed, DisksCfg
<1>5. Len(disksCfg) = Len(config.disks)
  BY <1>2, DisksLength
<1>6. PICK k \in 1 .. Len(config.disks) :
         l = disksCfg[k] /\ \A j \in 1 .. k - 1 : disksCfg[j].tag # l.tag
  BY <1>5 DEF Tags, FirstOfTag
<1>7. l.tag = config.disks[k].tag /\ l.dev = << DiskPrefix(Driver), k - 1 >>
  BY <1>4, <1>6
<1> DEFINE K == {d \in Disks : d.tag = l.tag}
<1>8. config.disks[k] \in K
  BY <1>3, <1>7
<1>9. ASSUME NEW j \in 1 .. k - 1 PROVE config.disks[j] \notin K
  <2>1. j \in 1 .. Len(config.disks)
    BY <1>3
  <2>2. disksCfg[j].tag = config.disks[j].tag
    BY <1>4, <2>1
  <2> QED
    BY <1>6, <2>2
<1> HIDE DEF K
<1>10. Chosen(config.disks, K) # << >> /\ Chosen(config.disks, K)[1] = config.disks[k]
  BY <1>2, <1>8, <1>9, ChosenFirst
<1> QED
  BY <1>1, <1>7, <1>10, DiskFound DEF K

(* A link under /dev/disk/by-tag leads to the first disk that was given    *)
(* the tag, however many disks, tags and images to mount there are.        *)
THEOREM TagsLeadToDisks ==
  ASSUME ModularTrees
  PROVE  Spec => []TagsFindDisks
<1>1. Init => Base /\ Tags
  BY BaseInit DEF Init, Tags, OptionStages
<1>2. Base /\ Tags /\ [Next]_vars => (Base /\ Tags)'
  BY BaseStep, TagsStep
<1>3. Base /\ Tags => TagsFindDisks
  BY TagsLead
<1> QED
  BY <1>1, <1>2, <1>3, PTL DEF Spec

-----------------------------------------------------------------------------
(* The order of the modules.                                               *)

(* What is chosen of a prefix is among what is chosen of the whole.        *)
LEMMA ChosenBefore ==
  ASSUME NEW S, NEW s \in Seq(S), NEW K, NEW i \in 1 .. Len(s), NEW k \in 1 .. i - 1, s[k] \in K
  PROVE  \E h \in 1 .. Len(ChosenTo(s, i - 1, K)) :
            h \in 1 .. Len(Chosen(s, K)) /\ Chosen(s, K)[h] = s[k]
<1> DEFINE p == SubSeq(s, 1, i - 1)
<1>1. /\ Len(s) \in Nat /\ i - 1 \in 0 .. Len(s) /\ k \in 1 .. Len(s)
      /\ \A j \in 1 .. i - 1 : s[j] \in S
  BY LenProperties, ElementOfSeq
<1>2. p \in Seq(S) /\ Len(p) = i - 1 /\ \A j \in 1 .. i - 1 : p[j] = s[j]
  BY <1>1, SubSeqProperties
<1>3. ASSUME NEW j \in 1 .. i - 1 PROVE SubSeq(p, 1, j - 1) = SubSeq(s, 1, j - 1)
  <2> DEFINE a == SubSeq(p, 1, j - 1)
             b == SubSeq(s, 1, j - 1)
  <2>1. j - 1 \in 0 .. Len(p) /\ j - 1 \in 0 .. Len(s) /\ \A n \in 1 .. j - 1 : n \in 1 .. i - 1
    BY <1>1, <1>2
  <2>2. (\A n \in 1 .. j - 1 : p[n] \in S) /\ (\A n \in 1 .. j - 1 : s[n] \in S)
    BY <1>1, <1>2, <2>1
  <2>3. a \in Seq(S) /\ Len(a) = j - 1 /\ \A n \in 1 .. j - 1 : a[n] = p[n]
    BY <1>2, <2>1, <2>2, SubSeqProperties
  <2>4. b \in Seq(S) /\ Len(b) = j - 1 /\ \A n \in 1 .. j - 1 : b[n] = s[n]
    BY <2>1, <2>2, SubSeqProperties
  <2>5. \A n \in 1 .. j - 1 : a[n] = b[n]
    BY <1>2, <2>1, <2>3, <2>4
  <2> HIDE DEF a, b
  <2>6. a = b
    BY <2>3, <2>4, <2>5, SeqEqual
  <2> QED
    BY <2>6 DEF a, b
<1> HIDE DEF p
<1>4. PICK h \in 1 .. Len(Chosen(p, K)) : Chosen(p, K)[h] = s[k]
  <2>1. k \in 1 .. Len(p) /\ p[k] = s[k]
    BY <1>2
  <2> QED
    BY <1>2, <2>1, ChosenElements
<1>5. PICK j \in 1 .. Len(p) : /\ p[j] \in K /\ Chosen(p, K)[h] = p[j]
                               /\ Len(ChosenTo(p, j - 1, K)) = h - 1
  <2>1. Comes(p, K, Len(p), h, Chosen(p, K)[h])
    BY <1>2, ChosenFrom
  <2> QED
    BY ONLY <2>1 DEF Comes
<1>6. j \in 1 .. Len(s) /\ s[j] \in K /\ s[j] = s[k] /\ Len(ChosenTo(s, j - 1, K)) = h - 1
  <2>1. j \in 1 .. i - 1 /\ p[j] = s[j]
    BY <1>2
  <2>2. j \in 1 .. Len(s)
    BY <1>1, <2>1
  <2>3. ChosenTo(p, j - 1, K) = ChosenTo(s, j - 1, K)
    BY <1>3, <2>1 DEF ChosenTo
  <2> QED
    BY <1>4, <1>5, <2>1, <2>2, <2>3
<1>7. h \in Nat /\ (h - 1) + 1 = h
  BY <1>2, ChosenTyped
<1>8. h \in 1 .. Len(Chosen(s, K)) /\ Chosen(s, K)[h] = s[j]
  <2>1. /\ Len(ChosenTo(s, j - 1, K)) + 1 \in 1 .. Len(Chosen(s, K))
        /\ Chosen(s, K)[Len(ChosenTo(s, j - 1, K)) + 1] = s[j]
    BY ONLY <1>6, s \in Seq(S), ChosenPlace
  <2> QED
    BY ONLY <1>6, <1>7, <2>1
<1>9. h \in 1 .. Len(ChosenTo(s, i - 1, K))
  BY <1>4 DEF ChosenTo, p
<1> QED
  BY <1>6, <1>8, <1>9

(* mkinitrd names what a module depends on before the module.              *)
LEMMA NamesInOrder ==
  ASSUME NeedsInOrder, NEW c, NEW i \in 1 .. Len(ModuleNames(c))
  PROVE  Needs[ModuleNames(c)[i]] \subseteq {ModuleNames(c)[k] : k \in 1 .. i - 1}
<1> DEFINE a == FirstModules
           b == IF HasNetworks(c) THEN << "virtio_net" >> ELSE << >>
           d == IF WantsBlk(c) THEN << "virtio_blk" >> ELSE << >>
           e == LastModules
           m == b \o d
           n == ModuleNames(c)
<1>1. /\ a \in Seq(Drivers) /\ Len(a) = 7 /\ e \in Seq(Drivers) /\ Len(e) = 7
  BY DEF FirstModules, LastModules, Drivers, Common
<1>2. /\ << "virtio_net" >> \in Seq({"virtio_net", "virtio_blk"})
      /\ << "virtio_blk" >> \in Seq({"virtio_net", "virtio_blk"})
      /\ << >> \in Seq({"virtio_net", "virtio_blk"})
  OBVIOUS
<1>3. b \in Seq({"virtio_net", "virtio_blk"}) /\ d \in Seq({"virtio_net", "virtio_blk"})
  BY <1>2
<1> HIDE DEF b, d
<1>4. m \in Seq({"virtio_net", "virtio_blk"})
  BY <1>3, ConcatProperties
<1>5. {"virtio_net", "virtio_blk"} \subseteq Drivers
  BY DEF Drivers
<1>6. /\ b \in Seq(Drivers) /\ d \in Seq(Drivers) /\ m \in Seq(Drivers)
      /\ Len(m) \in Nat
      /\ \A k \in 1 .. Len(m) : m[k] \in {"virtio_net", "virtio_blk"}
  BY <1>3, <1>4, <1>5, SeqMonotonic, LenProperties, ElementOfSeq
<1>7. n = (a \o m) \o e
  <2>1. n = ((a \o b) \o d) \o e
    BY DEF ModuleNames, b, d, a, e
  <2>2. (a \o b) \o d = a \o (b \o d)
    <3>1. a \in Seq(Drivers) /\ b \in Seq(Drivers) /\ d \in Seq(Drivers)
      BY <1>1, <1>6
    <3> HIDE DEF a
    <3> QED
      BY ONLY <3>1, ConcatAssociative
  <2> QED
    BY <2>1, <2>2
<1> HIDE DEF a, e, m, n
<1>8. /\ a \o m \in Seq(Drivers) /\ Len(a \o m) = 7 + Len(m)
      /\ \A k \in 1 .. Len(a) + Len(m) : (a \o m)[k] = IF k <= Len(a) THEN a[k] ELSE m[k - Len(a)]
  <2>1. a \in Seq(Drivers) /\ m \in Seq(Drivers)
    BY <1>1, <1>6
  <2>2. /\ a \o m \in Seq(Drivers) /\ Len(a \o m) = Len(a) + Len(m)
        /\ \A k \in 1 .. Len(a) + Len(m) :
              (a \o m)[k] = IF k <= Len(a) THEN a[k] ELSE m[k - Len(a)]
    BY ONLY <2>1, ConcatProperties
  <2> QED
    BY <1>1, <2>2
<1>9. /\ n \in Seq(Drivers) /\ Len(n) = 14 + Len(m)
      /\ \A k \in 1 .. Len(a \o m) + Len(e) :
            n[k] = IF k <= Len(a \o m) THEN (a \o m)[k] ELSE e[k - Len(a \o m)]
  <2>1. a \o m \in Seq(Drivers) /\ e \in Seq(Drivers)
    BY <1>1, <1>8
  <2>2. /\ (a \o m) \o e \in Seq(Drivers) /\ Len((a \o m) \o e) = Len(a \o m) + Len(e)
        /\ \A k \in 1 .. Len(a \o m) + Len(e) :
              ((a \o m) \o e)[k] = IF k <= Len(a \o m) THEN (a \o m)[k] ELSE e[k - Len(a \o m)]
    BY ONLY <2>1, ConcatProperties
  <2>3. Len((a \o m) \o e) = 14 + Len(m)
    BY <1>1, <1>6, <1>8, <2>2
  <2> QED
    BY <1>7, <2>2, <2>3
<1>10. /\ \A k \in 1 .. 7 : n[k] = a[k]
       /\ \A k \in 8 .. 7 + Len(m) : n[k] \in {"virtio_net", "virtio_blk"}
       /\ \A k \in 1 .. 7 : n[7 + Len(m) + k] = e[k]
  <2>1. ASSUME NEW k \in 1 .. 7 PROVE n[k] = a[k]
    BY <1>1, <1>6, <1>8, <1>9
  <2>2. ASSUME NEW k \in 8 .. 7 + Len(m) PROVE n[k] \in {"virtio_net", "virtio_blk"}
    <3>1. k - 7 \in 1 .. Len(m) /\ k \in 1 .. Len(a) + Len(m) /\ k \in 1 .. Len(a \o m) + Len(e)
          /\ k <= Len(a \o m) /\ ~(k <= Len(a)) /\ k - Len(a) = k - 7
      BY <1>1, <1>6, <1>8
    <3>2. n[k] = (a \o m)[k] /\ (a \o m)[k] = m[k - 7]
      BY <1>8, <1>9, <3>1
    <3> QED
      BY <1>6, <3>1, <3>2
  <2>3. ASSUME NEW k \in 1 .. 7 PROVE n[7 + Len(m) + k] = e[k]
    <3>1. /\ 7 + Len(m) + k \in 1 .. Len(a \o m) + Len(e)
          /\ ~(7 + Len(m) + k <= Len(a \o m)) /\ (7 + Len(m) + k) - Len(a \o m) = k
      BY <1>1, <1>6, <1>8
    <3> QED
      BY <1>9, <3>1
  <2> QED
    BY <2>1, <2>2, <2>3
<1>11. Range(a) = {a[k] : k \in 1 .. 7}
  BY <1>1, RangeEquality
<1>12. i \in 1 .. 14 + Len(m)
  BY <1>9 DEF n
<1>13. CASE i <= 7
  <2>1. i \in 1 .. 7 /\ \A k \in 1 .. i - 1 : k \in 1 .. 7
    BY <1>12, <1>13
  <2>2. Needs[a[i]] \subseteq {a[k] : k \in 1 .. i - 1}
    BY <1>1, <2>1 DEF NeedsInOrder, a
  <2>3. {a[k] : k \in 1 .. i - 1} = {n[k] : k \in 1 .. i - 1} /\ n[i] = a[i]
    <3>1. \A k \in 1 .. i - 1 : n[k] = a[k]
      BY <1>10, <2>1
    <3>2. n[i] = a[i]
      BY <1>10, <2>1
    <3> QED
      BY <3>1, <3>2
  <2>4. Needs[n[i]] \subseteq {n[k] : k \in 1 .. i - 1}
    BY <2>2, <2>3
  <2> QED
    BY <2>4 DEF n
<1>14. CASE i > 7
  <2>1. {a[k] : k \in 1 .. 7} \subseteq {n[k] : k \in 1 .. i - 1}
    <3>1. \A k \in 1 .. 7 : k \in 1 .. i - 1
      BY <1>6, <1>12, <1>14
    <3> QED
      BY <1>10, <3>1
  <2>2. CASE i <= 7 + Len(m)
    <3>1. n[i] \in {"virtio_net", "virtio_blk"}
      BY <1>6, <1>10, <1>12, <1>14, <2>2
    <3>2. Needs[n[i]] \subseteq Range(a)
      BY <3>1 DEF NeedsInOrder, a
    <3>3. Needs[n[i]] \subseteq {n[k] : k \in 1 .. i - 1}
      BY <1>11, <2>1, <3>2
    <3> QED
      BY <3>3 DEF n
  <2>3. CASE i > 7 + Len(m)
    <3>1. PICK h \in 1 .. 7 : i = 7 + Len(m) + h
      <4> DEFINE w == Len(m)
      <4>1. w \in Nat /\ i \in 1 .. 14 + w /\ i > 7 + w
        BY <1>6, <1>12, <2>3
      <4> HIDE DEF w
      <4>2. i - (7 + w) \in 1 .. 7 /\ i = 7 + w + (i - (7 + w))
        BY ONLY <4>1
      <4> QED
        BY ONLY <4>2 DEF w
    <3>2. n[i] = e[h]
      BY <1>10, <3>1
    <3>3. Needs[n[i]] \subseteq Range(a) \cup {e[k] : k \in 1 .. h - 1}
      BY <1>1, <3>1, <3>2 DEF NeedsInOrder, a, e
    <3>4. {e[k] : k \in 1 .. h - 1} \subseteq {n[k] : k \in 1 .. i - 1}
      <4>1. ASSUME NEW k \in 1 .. h - 1 PROVE e[k] \in {n[j] : j \in 1 .. i - 1}
        <5>1. k \in 1 .. 7 /\ 7 + Len(m) + k \in 1 .. i - 1
          BY <1>6, <3>1
        <5> QED
          BY <1>10, <5>1
      <4> QED
        BY <4>1
    <3>5. Needs[n[i]] \subseteq {n[k] : k \in 1 .. i - 1}
      BY <1>11, <2>1, <3>3, <3>4
    <3> QED
      BY <3>5 DEF n
  <2> QED
    BY <1>6, <1>12, <2>2, <2>3
<1> QED
  BY <1>6, <1>12, <1>13, <1>14

(* A list that can be read, of the right kernel, is loaded to its end.     *)
LEMMA ListLoads ==
  ASSUME ModularTrees, NeedsInOrder, Handed, Driver = "machine",
         domain.initrd # EmptyImage, Readable(domain.initrd.suffix),
         domain.initrd.release = domain.kernel,
         NEW j \in DOMAIN domain.initrd.modules
  PROVE  Loads(domain.initrd, j)
<1> DEFINE image == domain.initrd
           r == KernRelease(config, here)
           K == Trees[r].modules
           s == ModuleNames(config)
<1>1. /\ image.release = r /\ image.modules = FindModules(s, Trees[r]) /\ r \in DOMAIN Trees
  BY DEF Handed, BootImages, InitrdImages, BootFilesExist
<1>2. /\ s \in Seq(Drivers) /\ {s[i] : i \in 1 .. Len(s)} = Wanted(config)
      /\ DOMAIN s = 1 .. Len(s)
  BY NamesWanted, LenProperties
<1>3. Wanted(config) \subseteq DOMAIN Needs
  BY CommonModules DEF Wanted, ModularTrees, Drivers
<1> HIDE DEF s
<1>4. image.modules = Chosen(s, K)
  BY <1>1, <1>2 DEF FindModules, Select, Chosen, Pieces, Piece
<1> HIDE DEF K
<1>5. j \in 1 .. Len(Chosen(s, K))
  BY <1>2, <1>4, ChosenTyped, LenProperties
<1>6. PICK i \in 1 .. Len(s) : /\ s[i] \in K /\ Chosen(s, K)[j] = s[i]
                               /\ Len(ChosenTo(s, i - 1, K)) = j - 1
  <2>1. s \in Seq(Drivers)
    BY <1>2
  <2>2. Comes(s, K, Len(s), j, Chosen(s, K)[j])
    BY ONLY <1>5, <2>1, ChosenFrom
  <2> QED
    BY ONLY <2>2 DEF Comes
<1>7. Needs[s[i]] \subseteq {s[k] : k \in 1 .. i - 1}
  BY NamesInOrder DEF s
<1>8. ASSUME NEW k \in 1 .. i - 1
      PROVE  s[k] \in Builtin(domain.kernel) \cup {image.modules[h] : h \in 1 .. j - 1}
  <2>1. CASE s[k] \in K
    <3>1. \E h \in 1 .. Len(ChosenTo(s, i - 1, K)) : Chosen(s, K)[h] = s[k]
      <4>1. s \in Seq(Drivers)
        BY <1>2
      <4>2. \E h \in 1 .. Len(ChosenTo(s, i - 1, K)) :
               h \in 1 .. Len(Chosen(s, K)) /\ Chosen(s, K)[h] = s[k]
        BY ONLY <2>1, <4>1, i \in 1 .. Len(s), k \in 1 .. i - 1, ChosenBefore
      <4> QED
        BY <4>2
    <3> QED
      BY <1>4, <1>6, <3>1
  <2>2. CASE s[k] \notin K
    <3>1. k \in 1 .. Len(s)
      BY <1>2, LenProperties
    <3>2. s[k] \in DOMAIN Needs
      BY <1>2, <1>3, <3>1
    <3> QED
      BY <1>1, <2>2, <3>2 DEF Builtin, K
  <2> QED
    BY <2>1, <2>2
<1>9. Needs[image.modules[j]]
        \subseteq Builtin(domain.kernel) \cup {image.modules[h] : h \in 1 .. j - 1}
  BY <1>4, <1>6, <1>7, <1>8
<1> QED
  BY <1>9 DEF Loads

(* Loading stops only at an image that cannot be read, or of another       *)
(* kernel.                                                                 *)
ModulesRead ==
  stage = "no module" =>
     ~Readable(domain.initrd.suffix) \/ domain.initrd.release # domain.kernel

(* No step breaks it.                                                      *)
LEMMA ReadStep ==
  ASSUME ModularTrees, NeedsInOrder, Base, ModulesRead, [Next]_vars
  PROVE  ModulesRead'
<1>1. CASE ReadsOptions
  BY <1>1, OptionSteps DEF Base, ModulesRead, Reading
<1>2. CASE StartSandbox
  <2>1. stage' \in {"refused", "modules", "container"}
    BY <1>2 DEF StartSandbox, Refuses
  <2> QED
    BY <2>1 DEF ModulesRead
<1>3. CASE InsertModules
  <2>1. Driver = "machine" /\ Handed /\ domain' = domain
    BY <1>3 DEF InsertModules, Base, Reading, handed
  <2>2. SUFFICES ASSUME stage' = "no module", Readable(domain.initrd.suffix),
                        domain.initrd.release = domain.kernel
                 PROVE  FALSE
    BY <2>1 DEF ModulesRead, Readable
  <2>3. domain.initrd # EmptyImage /\ ~\A n \in DOMAIN domain.initrd.modules : Loads(domain.initrd, n)
    BY <1>3, <2>2 DEF InsertModules
  <2> QED
    BY <2>1, <2>2, <2>3, ListLoads
<1>4. CASE GuestRuns /\ ~InsertModules
  <2>1. stage' # "no module"
    <3>1. CASE MountRoot \/ MountLine
      BY <3>1 DEF MountRoot, MountLine, Failures
    <3>2. CASE EnterContainer \/ ExecCommon \/ LoadIt
      BY <3>2 DEF EnterContainer, ExecCommon, LoadIt
    <3>3. CASE SetupDiskTag \/ SetupTagsDone
      BY <3>3 DEF SetupDiskTag, SetupTagsDone
    <3>4. CASE SetupCustomEnv \/ SetupNetworkDevice \/ RunInteractive
      BY <3>4 DEF SetupCustomEnv, SetupNetworkDevice, RunInteractive
    <3> QED
      BY <1>4, <3>1, <3>2, <3>3, <3>4 DEF GuestRuns
  <2> QED
    BY <2>1 DEF ModulesRead
<1>5. CASE UNCHANGED vars
  BY <1>5 DEF vars, handed, ModulesRead, Readable
<1> QED
  BY <1>1, <1>2, <1>3, <1>4, <1>5, Steps

(* A machine that has loaded its list has the drivers of all its devices.  *)
LEMMA AllReached ==
  ASSUME Base, drivers # {}, NEW x \in domain.devices PROVE Reached(x.dev)
<1>1. stage \notin Early
  BY DEF Base, Untouched
<1>2. Handed /\ Config(config) /\ Listed(config)
  BY <1>1 DEF Base, Early, Config
<1>3. CASE Driver = "machine"
  <2> DEFINE q == DiskSources(config)
             b == BindSources(config)
             w == Sources(config.networks)
  <2>1. domain.devices = UNION {MachineRoot(config), Numbered("vd", q),
                                Numbered("sandbox:mount", b), Numbered("eth", w)}
    BY <1>2, <1>3 DEF Handed, Devices, MachineDisks, MachineBinds, MachineNetworks, DiskSources,
                      BindSources
  <2>2. Wanted(config) \subseteq drivers /\ Common \subseteq Wanted(config)
    BY <1>1, <1>3 DEF Base, Wanted
  <2>3. CASE x \in MachineRoot(config)
    BY <2>2, <2>3 DEF MachineRoot, Reached, DriversOf, Common
  <2>4. CASE x \in Numbered("sandbox:mount", b)
    BY <2>2, <2>4 DEF Numbered, Reached, DriversOf, Common
  <2>5. CASE x \in Numbered("eth", w)
    <3>1. x.dev[1] = "eth" /\ DOMAIN w # {}
      BY <2>5 DEF Numbered
    <3>2. config.networks # << >>
      BY <3>1 DEF Sources
    <3>3. "virtio_net" \in Wanted(config)
      BY <3>2 DEF Wanted, HasNetworks
    <3> QED
      BY <2>2, <3>1, <3>3 DEF Reached, DriversOf, Common
  <2>6. CASE x \in Numbered("vd", q)
    <3>1. x.dev[1] = "vd" /\ DOMAIN q # {}
      BY <2>6 DEF Numbered
    <3>2. WantsBlk(config)
      <4>1. CASE config.disks # << >>
        BY <4>1 DEF WantsBlk, HasDisks
      <4>2. CASE config.disks = << >>
        <5>1. q \in Seq(AllSources) /\ Len(q) = Len(config.disks) + Len(OfType(config, "host-image"))
          BY <1>2, MachineSources
        <5>2. Len(<< >>) = 0 /\ Len(config.disks) = 0
          BY <4>2, EmptySeq
        <5>3. config.mounts \in Seq(MountSet) /\ OfType(config, "host-image") \in Seq(MountSet)
              /\ OfType(config, "host-image") = Chosen(config.mounts, OfKind("host-image"))
          BY <1>2, Kinds, ChosenTyped DEF Listed
        <5>4. Len(OfType(config, "host-image")) # 0
          BY <3>1, <5>1, <5>2, <5>3, LenProperties
        <5>5. PICK i \in 1 .. Len(config.mounts) : config.mounts[i] \in OfKind("host-image")
          BY <5>3, <5>4, ChosenNone, EmptySeq
        <5> QED
          BY <5>3, <5>5, LenProperties DEF WantsBlk, HasMountsWithType, OfKind
      <4> QED
        BY <4>1, <4>2
    <3>3. "virtio_blk" \in Wanted(config)
      BY <3>2 DEF Wanted
    <3> QED
      BY <2>2, <3>1, <3>3 DEF Reached, DriversOf, Common
  <2> QED
    BY <2>1, <2>3, <2>4, <2>5, <2>6
<1>4. CASE Driver = "container"
  BY <1>4 DEF Reached
<1> QED
  BY <1>2, <1>3, <1>4 DEF Handed

(* A machine whose initrd is of its kernel and can be unpacked loads all   *)
(* of mkinitrd's list, in an order insmod accepts, and has the drivers of  *)
(* all devices of construct_devices, built in or as modules.               *)
THEOREM LoadsModules ==
  ASSUME ModularTrees, NeedsInOrder
  PROVE  Spec => []ModulesLoad
<1>1. Init => Base /\ ModulesRead
  BY BaseInit DEF Init, ModulesRead, OptionStages
<1>2. Base /\ ModulesRead /\ [Next]_vars => (Base /\ ModulesRead)'
  BY BaseStep, ReadStep
<1>3. Base /\ ModulesRead => ModulesLoad
  BY AllReached DEF ModulesLoad, ModulesRead
<1> QED
  BY <1>1, <1>2, <1>3, PTL DEF Spec

-----------------------------------------------------------------------------
(* The mounts.                                                             *)

(* What can be mounted in the guest.                                       *)
FsSet == [ target : {m.target : m \in Mounts} \cup {Root},
           what : {Yields(m) : m \in MountSet} \cup {<< "host", config.root >>} ]

(* What is mounted at a target.                                            *)
OnTarget(t) == {f \in FsSet : f.target = t}

(* What is mounted at a target is what the last mount asked for.           *)
Given(got, wants) ==
  IF wants = << >> THEN got = << >>
  ELSE got # << >> /\ Last(got).what = Yields(Last(wants))

(* What Select keeps of a list of mounts, at a target and elsewhere.       *)
AtIt(s, t) == FlattenSeq([i \in DOMAIN s |-> IF s[i].target = t THEN << s[i] >> ELSE << >>])

Elsewhere(s, t) == FlattenSeq([i \in DOMAIN s |-> IF s[i].target # t THEN << s[i] >> ELSE << >>])

(* Both are choices: at a target ...                                       *)
LEMMA TargetChosen ==
  ASSUME NEW S, NEW s \in Seq(S), NEW t, NEW K, \A x \in S : x \in K <=> x.target = t
  PROVE  AtIt(s, t) = Chosen(s, K)
<1>1. DOMAIN s = 1 .. Len(s) /\ \A i \in 1 .. Len(s) : s[i] \in S
  BY LenProperties, ElementOfSeq
<1>2. [i \in DOMAIN s |-> IF s[i].target = t THEN << s[i] >> ELSE << >>] = Pieces(s, K)
  BY <1>1 DEF Pieces, Piece
<1> QED
  BY <1>2 DEF Chosen, AtIt

(* ... and elsewhere.                                                      *)
LEMMA ElsewhereChosen ==
  ASSUME NEW S, NEW s \in Seq(S), NEW t, NEW K, \A x \in S : x \in K <=> x.target # t
  PROVE  Elsewhere(s, t) = Chosen(s, K)
<1>1. DOMAIN s = 1 .. Len(s) /\ \A i \in 1 .. Len(s) : s[i] \in S
  BY LenProperties, ElementOfSeq
<1>2. [i \in DOMAIN s |-> IF s[i].target # t THEN << s[i] >> ELSE << >>] = Pieces(s, K)
  BY <1>1 DEF Pieces, Piece
<1> QED
  BY <1>2 DEF Chosen, Elsewhere

(* The last of a sequence that got one more.                               *)
LEMMA LastOf ==
  ASSUME NEW S, NEW s \in Seq(S), NEW e \in S
  PROVE  Append(s, e) # << >> /\ Last(Append(s, e)) = e
<1>1. /\ Len(Append(s, e)) = Len(s) + 1 /\ Append(s, e)[Len(s) + 1] = e /\ Len(s) \in Nat
      /\ Len(<< >>) = 0
  BY AppendProperties, LenProperties, EmptySeq
<1> QED
  BY <1>1 DEF Last

(* One mount more, of the configuration and of the guest.                  *)
LEMMA GivenStep ==
  ASSUME NEW g \in Seq(FsSet), NEW a \in Seq(MountSet), NEW f \in FsSet, NEW m \in MountSet,
         f.target = m.target, f.what = Yields(m), NEW t, Given(Chosen(g, OnTarget(t)), a)
  PROVE  Given(Chosen(Append(g, f), OnTarget(t)), IF m \in AtTarget(t) THEN Append(a, m) ELSE a)
<1>1. f \in OnTarget(t) <=> m \in AtTarget(t)
  BY DEF OnTarget, AtTarget
<1> DEFINE c == Chosen(g, OnTarget(t))
<1>2. /\ c \in Seq(FsSet)
      /\ Chosen(Append(g, f), OnTarget(t)) = IF f \in OnTarget(t) THEN Append(c, f) ELSE c
  BY ChosenAppend
<1> HIDE DEF c
<1>3. CASE m \in AtTarget(t)
  <2>1. Append(c, f) # << >> /\ Last(Append(c, f)) = f /\ Append(a, m) # << >> /\ Last(Append(a, m)) = m
    BY <1>2, LastOf
  <2> QED
    BY <1>1, <1>2, <1>3, <2>1 DEF Given
<1>4. CASE m \notin AtTarget(t)
  BY <1>1, <1>2, <1>4 DEF c
<1> QED
  BY <1>3, <1>4

(* What libvirt mounts of a container: the root tree, unless a mount is    *)
(* there, ...                                                              *)
PreRoot(c) == IF HasRootMount(c) THEN << >> ELSE << [target |-> Root, what |-> << "host", c.root >>] >>

(* ... and what each mount asks for.                                       *)
FsOf(m) == [target |-> m.target, what |-> Yields(m)]

(* The file systems of the domain, one by one.                             *)
LEMMA ContainerFs ==
  ASSUME Config(config), NEW h, h = Len(PreRoot(config))
  PROVE  LET fs == Filesystems(config, "container")
         IN  /\ fs \in Seq(FsSet) /\ Len(fs) = h + Len(config.mounts) /\ h \in {0, 1}
             /\ h = 0 <=> HasRootMount(config)
             /\ h = 1 => fs[1] = [target |-> Root, what |-> << "host", config.root >>]
             /\ \A i \in 1 .. Len(config.mounts) : fs[h + i] = FsOf(config.mounts[i])
<1> DEFINE p == PreRoot(config)
           q == [i \in 1 .. Len(config.mounts) |-> FsOf(config.mounts[i])]
<1>1. config.mounts \in Seq(MountSet)
  BY DEF Config, Listed
<1>2. /\ DOMAIN config.mounts = 1 .. Len(config.mounts) /\ Len(config.mounts) \in Nat
      /\ \A i \in 1 .. Len(config.mounts) : config.mounts[i] \in MountSet
  BY <1>1, LenProperties, ElementOfSeq
<1>3. \A m \in MountSet : FilesysSource(m) = Yields(m) /\ FsOf(m) \in FsSet
  BY DEF FilesysSource, Yields, FsOf, FsSet, MountSet, MountTypes
<1>4. Filesystems(config, "container") = p \o q
  <2>1. [i \in DOMAIN config.mounts |->
            [target |-> config.mounts[i].target, what |-> FilesysSource(config.mounts[i])]] = q
    BY <1>2, <1>3 DEF FsOf
  <2> HIDE DEF q
  <2> QED
    BY <2>1 DEF Filesystems, PreRoot
<1>5. q \in Seq(FsSet) /\ Len(q) = Len(config.mounts)
  <2>1. q \in [1 .. Len(config.mounts) -> FsSet]
    BY <1>2, <1>3
  <2>2. q \in Seq(FsSet)
    BY <1>2, <2>1, SeqDef
  <2> QED
    BY <1>2, <2>1, <2>2, LenProperties
<1>6. /\ p \in Seq(FsSet) /\ h \in {0, 1} /\ (h = 0 <=> HasRootMount(config))
      /\ h = 1 => p[1] = [target |-> Root, what |-> << "host", config.root >>]
  <2> DEFINE r == [target |-> Root, what |-> << "host", config.root >>]
  <2>1. r \in FsSet
    BY DEF FsSet
  <2> HIDE DEF r
  <2>2. << >> \in Seq(FsSet) /\ << r >> \in Seq(FsSet) /\ Len(<< r >>) = 1 /\ Len(<< >>) = 0
        /\ << r >>[1] = r
    BY <2>1
  <2>3. p = IF HasRootMount(config) THEN << >> ELSE << r >>
    BY DEF PreRoot, r
  <2> HIDE DEF p
  <2>4. /\ p \in Seq(FsSet) /\ (Len(p) = 0 <=> HasRootMount(config)) /\ Len(p) \in {0, 1}
        /\ Len(p) = 1 => p[1] = r
    BY <2>2, <2>3
  <2>5. h = Len(p)
    BY DEF p
  <2>6. p \in Seq(FsSet) /\ h \in {0, 1} /\ (h = 0 <=> HasRootMount(config))
    BY ONLY <2>4, <2>5
  <2>7. h = 1 => p[1] = r
    BY ONLY <2>4, <2>5
  <2>8. r = [target |-> Root, what |-> << "host", config.root >>]
    BY DEF r
  <2> QED
    BY ONLY <2>6, <2>7, <2>8
<1>7. \A i \in 1 .. Len(config.mounts) : q[i] = FsOf(config.mounts[i])
  OBVIOUS
<1>8. h = Len(p)
  OBVIOUS
<1> HIDE DEF p, q
<1>9. /\ p \o q \in Seq(FsSet) /\ Len(p \o q) = Len(p) + Len(q)
      /\ \A i \in 1 .. Len(p) + Len(q) : (p \o q)[i] = IF i <= Len(p) THEN p[i] ELSE q[i - Len(p)]
  <2>1. p \in Seq(FsSet) /\ q \in Seq(FsSet)
    BY <1>5, <1>6
  <2> QED
    BY ONLY <2>1, ConcatProperties
<1>10. h = 1 => (p \o q)[1] = p[1]
  BY <1>2, <1>5, <1>8, <1>9
<1>11. ASSUME NEW i \in 1 .. Len(config.mounts) PROVE (p \o q)[h + i] = q[i]
  <2>1. h + i \in 1 .. Len(p) + Len(q) /\ ~(h + i <= Len(p)) /\ (h + i) - Len(p) = i
    BY <1>2, <1>5, <1>6, <1>8
  <2> QED
    BY <1>9, <2>1
<1> QED
  BY <1>4, <1>5, <1>6, <1>7, <1>8, <1>9, <1>10, <1>11

(* The others, in the order of the configuration.                          *)
LEMMA ContainerMounts ==
  ASSUME Config(config), NEW t, t # Root
  PROVE  LET got == Chosen(Filesystems(config, "container"), {f \in FsSet : f.target # Root})
         IN  got \in Seq(FsSet) /\ Given(Chosen(got, OnTarget(t)), Chosen(config.mounts, AtTarget(t)))
<1> DEFINE fs == Filesystems(config, "container")
           N == {f \in FsSet : f.target # Root}
           h == Len(PreRoot(config))
           s == config.mounts
           Step(j) == Given(Chosen(ChosenTo(fs, h + j, N), OnTarget(t)), ChosenTo(s, j, AtTarget(t)))
           T == {j \in Nat : j \in 0 .. Len(s) => Step(j)}
<1>1. /\ fs \in Seq(FsSet) /\ Len(fs) = h + Len(s) /\ h \in {0, 1}
      /\ h = 1 => fs[1] = [target |-> Root, what |-> << "host", config.root >>]
      /\ \A i \in 1 .. Len(s) : fs[h + i] = FsOf(s[i])
  BY ContainerFs
<1>2. s \in Seq(MountSet) /\ Len(s) \in Nat /\ \A i \in 1 .. Len(s) : s[i] \in MountSet
  BY LenProperties, ElementOfSeq DEF Config, Listed
<1> HIDE DEF fs, h, s
<1>3. ChosenTo(fs, h + 0, N) = << >>
  <2>1. ChosenTo(fs, 0, N) = << >>
    BY <1>1, ChosenToAll
  <2>2. CASE h = 0
    BY <2>1, <2>2
  <2>3. CASE h = 1
    <3>1. Follows(1, 0, fs)
      BY <1>1, <1>2, <2>3 DEF Follows
    <3>2. fs[1] \notin N
      BY <1>1, <2>3
    <3>3. fs \in Seq(FsSet)
      BY <1>1
    <3> HIDE DEF N
    <3>4. ChosenTo(fs, 1, N) = IF fs[1] \in N THEN Append(ChosenTo(fs, 0, N), fs[1])
                               ELSE ChosenTo(fs, 0, N)
      BY ONLY <3>1, <3>3, ChosenStep
    <3> QED
      BY <2>1, <2>3, <3>2, <3>4
  <2> QED
    BY <1>1, <2>2, <2>3
<1>4. 0 \in T
  <2>1. ChosenTo(s, 0, AtTarget(t)) = << >>
    BY <1>2, ChosenToAll
  <2> QED
    BY <1>3, <2>1, ChosenEmpty DEF Given
<1>5. ASSUME NEW n \in Nat, n \in T PROVE n + 1 \in T
  <2> DEFINE j == n + 1
  <2> SUFFICES ASSUME j \in 0 .. Len(s) PROVE Step(j)
    OBVIOUS
  <2>1. Follows(j, n, s) /\ n \in 0 .. Len(s) /\ j \in 1 .. Len(s)
    BY <1>2 DEF Follows
  <2>2. Follows(h + j, h + n, fs)
    BY <1>1, <1>2, <2>1 DEF Follows
  <2>3. Step(n)
    BY <1>5, <2>1
  <2> HIDE DEF j, N
  <2> DEFINE g == ChosenTo(fs, h + n, N)
             a == ChosenTo(s, n, AtTarget(t))
             f == fs[h + j]
             m == s[j]
  <2>4. /\ g \in Seq(FsSet) /\ f \in FsSet
        /\ ChosenTo(fs, h + j, N) = IF f \in N THEN Append(g, f) ELSE g
    <3> DEFINE x == h + j
               y == h + n
    <3>1. fs \in Seq(FsSet) /\ Follows(x, y, fs)
      BY <1>1, <2>2
    <3> HIDE DEF x, y
    <3>2. /\ ChosenTo(fs, y, N) \in Seq(FsSet) /\ fs[x] \in FsSet
          /\ ChosenTo(fs, x, N) = IF fs[x] \in N THEN Append(ChosenTo(fs, y, N), fs[x])
                                  ELSE ChosenTo(fs, y, N)
      BY ONLY <3>1, ChosenStep
    <3> QED
      BY <3>2 DEF x, y
  <2>5. /\ a \in Seq(MountSet) /\ m \in MountSet
        /\ ChosenTo(s, j, AtTarget(t)) = IF m \in AtTarget(t) THEN Append(a, m) ELSE a
    <3>1. s \in Seq(MountSet)
      BY <1>2
    <3> QED
      BY ONLY <2>1, <3>1, ChosenStep
  <2>6. f.target = m.target /\ f.what = Yields(m)
    <3>1. f = FsOf(m)
      BY <1>1, <2>1
    <3> HIDE DEF f, m
    <3> QED
      BY <3>1 DEF FsOf
  <2>7. Given(Chosen(g, OnTarget(t)), a)
    BY <2>3
  <2> HIDE DEF g, a, f, m
  <2>8. CASE m.target = Root
    <3>1. f \notin N /\ m \notin AtTarget(t)
      BY <2>6, <2>8 DEF N, AtTarget
    <3> QED
      BY <2>4, <2>5, <2>7, <3>1
  <2>9. CASE m.target # Root
    <3>1. f \in N
      BY <2>4, <2>6, <2>9 DEF N
    <3>2. Given(Chosen(Append(g, f), OnTarget(t)), IF m \in AtTarget(t) THEN Append(a, m) ELSE a)
      BY <2>4, <2>5, <2>6, <2>7, GivenStep
    <3> QED
      BY <2>4, <2>5, <3>1, <3>2
  <2> QED
    BY <2>8, <2>9
<1>6. Nat \subseteq T
  <2> HIDE DEF T
  <2> QED
    BY <1>4, <1>5, R!InductionOfSet
<1>7. Step(Len(s))
  <2>1. Len(s) \in T /\ Len(s) \in 0 .. Len(s)
    BY <1>2, <1>6
  <2> HIDE DEF Step
  <2> QED
    BY <2>1
<1>8. ChosenTo(fs, h + Len(s), N) = Chosen(fs, N) /\ Chosen(fs, N) \in Seq(FsSet)
  <2>1. fs \in Seq(FsSet) /\ Len(fs) = h + Len(s)
    BY <1>1
  <2> HIDE DEF N
  <2> QED
    BY <2>1, ChosenToAll, ChosenTyped
<1>9. ChosenTo(s, Len(s), AtTarget(t)) = Chosen(s, AtTarget(t))
  BY <1>2, ChosenToAll
<1> QED
  BY <1>7, <1>8, <1>9 DEF fs, s

(* The first of them at the root is what was asked for there.              *)
LEMMA ContainerRoot ==
  ASSUME Config(config)
  PROVE  LET roots == Chosen(Filesystems(config, "container"), {f \in FsSet : f.target = Root})
         IN  roots # << >> => roots[1].what = RootYields
<1> DEFINE fs == Filesystems(config, "container")
           N == {f \in FsSet : f.target = Root}
           h == Len(PreRoot(config))
           s == config.mounts
<1>1. /\ fs \in Seq(FsSet) /\ Len(fs) = h + Len(s) /\ h \in {0, 1}
      /\ h = 0 <=> HasRootMount(config)
      /\ h = 1 => fs[1] = [target |-> Root, what |-> << "host", config.root >>]
      /\ \A i \in 1 .. Len(s) : fs[h + i] = FsOf(s[i])
  BY ContainerFs
<1>2. s \in Seq(MountSet) /\ Len(s) \in Nat /\ \A i \in 1 .. Len(s) : s[i] \in MountSet
  BY LenProperties, ElementOfSeq DEF Config, Listed
<1>3. HasRootMount(config) <=> \E i \in 1 .. Len(s) : s[i] \in AtTarget(Root)
  BY <1>2, LenProperties DEF HasRootMount, AtTarget
<1> HIDE DEF fs, h, s
<1>4. CASE ~HasRootMount(config)
  <2>1. h = 1 /\ 1 \in 1 .. Len(fs) /\ fs[1] \in FsSet
    BY <1>1, <1>2, <1>4, ElementOfSeq
  <2>2. fs[1] \in N /\ fs[1].what = << "host", config.root >>
    BY <1>1, <2>1
  <2>3. Chosen(fs, N)[1] = fs[1]
    <3>1. \A j \in 1 .. 1 - 1 : fs[j] \notin N
      OBVIOUS
    <3>2. fs \in Seq(FsSet)
      BY <1>1
    <3> HIDE DEF N
    <3> QED
      BY <2>1, <2>2, <3>1, <3>2, ChosenFirst
  <2>4. Chosen(s, AtTarget(Root)) = << >>
    BY <1>2, <1>3, <1>4, ChosenNone
  <2>5. RootYields = << "host", config.root >>
    BY <2>4 DEF RootYields, s
  <2> QED
    BY <2>2, <2>3, <2>5 DEF fs
<1>5. CASE HasRootMount(config)
  <2> DEFINE U == {i \in 1 .. Len(s) : s[i] \in AtTarget(Root)}
  <2>1. U \in SUBSET Nat /\ U # {}
    BY <1>3, <1>5
  <2>2. PICK i \in U : \A k \in U : i <= k
    BY <2>1, LeastOf
  <2>3. i \in 1 .. Len(s) /\ s[i] \in AtTarget(Root) /\ \A j \in 1 .. i - 1 : s[j] \notin AtTarget(Root)
    BY <1>2, <2>2
  <2>4. h = 0 /\ Len(fs) = Len(s) /\ \A j \in 1 .. Len(s) : fs[j] = FsOf(s[j])
    <3>1. h = 0
      BY <1>1, <1>5
    <3>2. \A j \in 1 .. Len(s) : h + j = j
      BY <3>1
    <3>3. h + Len(s) = Len(s)
      BY <1>2, <3>1
    <3> QED
      BY <1>1, <3>1, <3>2, <3>3
  <2>5. \A j \in 1 .. Len(s) : fs[j] \in N <=> s[j] \in AtTarget(Root)
    <3>1. \A j \in 1 .. Len(s) : fs[j] \in FsSet
      BY <1>1, <2>4, ElementOfSeq
    <3>2. ASSUME NEW j \in 1 .. Len(s) PROVE fs[j] \in N <=> s[j] \in AtTarget(Root)
      <4>1. fs[j].target = s[j].target
        <5>1. fs[j] = FsOf(s[j])
          BY <2>4
        <5> QED
          BY <5>1 DEF FsOf
      <4> QED
        BY <1>2, <3>1, <4>1 DEF AtTarget
    <3> QED
      BY <3>2
  <2>6. Chosen(fs, N)[1] = fs[i]
    <3>1. i \in 1 .. Len(fs) /\ fs[i] \in N /\ fs \in Seq(FsSet)
      BY <1>1, <2>3, <2>4, <2>5
    <3>2. \A j \in 1 .. i - 1 : fs[j] \notin N
      <4>1. \A j \in 1 .. i - 1 : j \in 1 .. Len(s)
        BY <1>2, <2>3
      <4> QED
        BY <2>3, <2>5, <4>1
    <3> HIDE DEF N
    <3> QED
      BY <3>1, <3>2, ChosenFirst
  <2>7. Chosen(s, AtTarget(Root)) # << >> /\ Chosen(s, AtTarget(Root))[1] = s[i]
    BY <1>2, <2>3, ChosenFirst
  <2>8. RootYields = Yields(s[i])
    BY <2>7 DEF RootYields, s
  <2>9. fs[i].what = Yields(s[i])
    <3>1. fs[i] = FsOf(s[i])
      BY <2>3, <2>4
    <3> QED
      BY <3>1 DEF FsOf
  <2> QED
    BY <2>6, <2>8, <2>9 DEF fs
<1> QED
  BY <1>4, <1>5

(* Where the options mount.                                                *)
Targets == {m.target : m \in Mounts}

(* After n mounts the last that is at a target is the last of those n      *)
(* asked for there.                                                        *)
Mounted(n) ==
  \A t \in Targets \ {Root} :
     Given(Chosen(mounted, OnTarget(t)), ChosenTo(config.mounts, n, AtTarget(t)))

(* The root, and how far the mounts have got.                              *)
MountsInv ==
  /\ root # << Nothing >> => root = RootYields
  /\ stage = "mount" /\ Driver = "machine" =>
        /\ mounted \in Seq(FsSet)
        /\ \E n \in 0 .. Len(config.mounts) : line = n + 1 /\ Mounted(n)
  /\ (stage = "mount" /\ Driver = "container") \/ stage = "load" \/ HasLoaded =>
        mounted \in Seq(FsSet) /\ Mounted(Len(config.mounts))

(* mounts.cfg has a line for each mount of a machine.                      *)
LEMMA MountsLength ==
  ASSUME Handed, Config(config)
  PROVE  /\ config.mounts \in Seq(MountSet) /\ Len(config.mounts) \in Nat
         /\ Driver = "machine" => Len(mountsCfg) = Len(config.mounts)
         /\ Driver = "container" => Len(mountsCfg) = 0
<1>1. config.mounts \in Seq(MountSet) /\ Len(config.mounts) \in Nat
  BY LenProperties DEF Config, Listed
<1>2. ASSUME Driver = "machine" PROVE Len(mountsCfg) = Len(config.mounts)
  <2>1. /\ DOMAIN mountsCfg = 1 .. Len(config.mounts)
        /\ mountsCfg = [k \in DOMAIN mountsCfg |-> mountsCfg[k]]
    BY <1>1, <1>2, LenProperties DEF Handed, MountsCfg
  <2> QED
    BY ONLY <1>1, <2>1, Length
<1>3. ASSUME Driver = "container" PROVE Len(mountsCfg) = 0
  BY <1>3, EmptySeq DEF Handed, MountsCfg
<1> QED
  BY <1>1, <1>2, <1>3

(* The same of the next state.                                             *)
LEMMA MountedNext ==
  ASSUME config' = config, NEW CONSTANT n,
         \A t \in Targets \ {Root} :
            Given(Chosen(mounted', OnTarget(t)), ChosenTo(config.mounts, n, AtTarget(t)))
  PROVE  Mounted(n)'
<1>1. \A t : OnTarget(t)' = OnTarget(t)
  BY DEF OnTarget, FsSet
<1> QED
  BY <1>1 DEF Mounted

(* One line of mounts.cfg.                                                 *)
LEMMA MountsLine ==
  ASSUME Base, MountsInv, MountLine PROVE MountsInv'
<1>1. UNCHANGED << host, handed >> /\ config' = config /\ Driver' = Driver /\ root' = root
  BY GuestSteps DEF host, Driver, GuestRuns, MountLine
<1>2. FsSet' = FsSet /\ RootYields' = RootYields
  BY <1>1 DEF FsSet, RootYields
<1>3. stage = "mount" /\ line <= Len(mountsCfg) /\ line' = line + 1
  BY DEF MountLine
<1> DEFINE m == config.mounts[line]
           s == config.mounts
<1>4. /\ MachineReady /\ line \in 1 .. Len(s)
      /\ Mounting(mountsCfg[line].source) \subseteq {Yields(m), << "no source" >>}
      /\ Yields(m)[1] \notin Failures
      /\ mountsCfg[line].target = m.target
  BY <1>3, LinesFound
<1>5. Driver = "machine" /\ s \in Seq(MountSet) /\ Len(s) \in Nat
  BY <1>4, MountsLength DEF MachineReady
<1>6. m \in MountSet
  BY <1>4, <1>5, ElementOfSeq
<1>7. mounted \in Seq(FsSet) /\ \E n \in 0 .. Len(s) : line = n + 1 /\ Mounted(n)
  BY <1>3, <1>5 DEF MountsInv
<1>8. PICK n \in 0 .. Len(s) : line = n + 1 /\ Mounted(n)
  BY <1>7
<1>9. PICK j \in 1 .. Len(s) : j = line
  BY <1>4
<1>10. Follows(j, n, s) /\ j \in 0 .. Len(s) /\ line' = j + 1
  <2>1. j = n + 1 /\ line' = j + 1 /\ Len(s) \in Nat
    BY <1>3, <1>5, <1>8, <1>9
  <2> HIDE DEF s
  <2> QED
    BY ONLY <2>1, <1>8, <1>9 DEF Follows
<1>11. m = s[j]
  BY <1>9
<1>12. root' # << Nothing >> => root' = RootYields'
  BY <1>1, <1>2 DEF MountsInv
<1> HIDE DEF m, s
<1>13. ASSUME NEW t
       PROVE  /\ ChosenTo(s, n, AtTarget(t)) \in Seq(MountSet)
              /\ ChosenTo(s, j, AtTarget(t)) = IF m \in AtTarget(t) THEN Append(ChosenTo(s, n, AtTarget(t)), m)
                                               ELSE ChosenTo(s, n, AtTarget(t))
  <2> DEFINE K == AtTarget(t)
  <2>1. Follows(j, n, s) /\ s \in Seq(MountSet)
    BY <1>5, <1>10
  <2> HIDE DEF K
  <2>2. /\ ChosenTo(s, n, K) \in Seq(MountSet)
        /\ ChosenTo(s, j, K) = IF s[j] \in K THEN Append(ChosenTo(s, n, K), s[j])
                               ELSE ChosenTo(s, n, K)
    BY ONLY <2>1, ChosenStep
  <2> QED
    BY <1>11, <2>2 DEF K
<1>14. stage' # "load" /\ ~HasLoaded'
  BY <1>3 DEF MountLine, Failures, HasLoaded
<1>15. ASSUME stage' = "mount", mounted' \in Seq(FsSet),
              \A t \in Targets \ {Root} :
                 Given(Chosen(mounted', OnTarget(t)), ChosenTo(s, j, AtTarget(t)))
       PROVE  MountsInv'
  <2>1. Mounted(j)'
    BY <1>1, <1>15, MountedNext DEF s
  <2>2. \E k \in 0 .. Len(s) : line' = k + 1 /\ Mounted(k)'
    BY <1>10, <2>1
  <2>3. Driver' # "container"
    BY <1>1, <1>5
  <2> QED
    BY <1>1, <1>2, <1>12, <1>14, <1>15, <2>2, <2>3 DEF MountsInv, s
<1>16. CASE m.target = Root
  <2>1. stage' = stage /\ mounted' = mounted
    BY <1>4, <1>16 DEF MountLine, SkipsLine
  <2>2. \A t \in Targets \ {Root} : m \notin AtTarget(t)
    BY <1>16 DEF AtTarget
  <2>3. \A t \in Targets \ {Root} : Given(Chosen(mounted, OnTarget(t)), ChosenTo(s, j, AtTarget(t)))
    <3>1. \A t \in Targets \ {Root} : Given(Chosen(mounted, OnTarget(t)), ChosenTo(s, n, AtTarget(t)))
      BY <1>8 DEF Mounted, s
    <3>2. \A t \in Targets \ {Root} : ChosenTo(s, j, AtTarget(t)) = ChosenTo(s, n, AtTarget(t))
      BY <1>13, <2>2
    <3> QED
      BY <3>1, <3>2
  <2> QED
    BY <1>3, <1>7, <1>15, <2>1, <2>3
<1>17. CASE m.target # Root
  <2>1. PICK what \in {Yields(m), << "no source" >>} :
           IF what[1] \in Failures THEN stage' = what[1] /\ mounted' = mounted
           ELSE stage' = stage /\ mounted' = Append(mounted, [target |-> m.target, what |-> what])
    BY <1>4, <1>17 DEF MountLine, SkipsLine
  <2>2. CASE what[1] \in Failures
    <3>1. stage' # "mount"
      BY <2>1, <2>2 DEF Failures
    <3> QED
      BY <1>12, <1>14, <3>1 DEF MountsInv
  <2>3. CASE what[1] \notin Failures
    <3> DEFINE f == [target |-> m.target, what |-> Yields(m)]
    <3>0. << "no source" >>[1] \in Failures
      BY DEF Failures
    <3>1. stage' = stage /\ mounted' = Append(mounted, f)
      <4>1. what = Yields(m)
        BY <2>1, <2>3, <3>0
      <4> QED
        BY <2>1, <2>3, <4>1
    <3>2. f \in FsSet /\ f.target = m.target /\ f.what = Yields(m)
      BY <1>6 DEF FsSet, MountSet
    <3> HIDE DEF f
    <3>3. mounted' \in Seq(FsSet)
      BY <1>7, <3>1, <3>2, AppendProperties
    <3>4. ASSUME NEW t \in Targets \ {Root}
          PROVE  Given(Chosen(mounted', OnTarget(t)), ChosenTo(s, j, AtTarget(t)))
      <4> DEFINE a == ChosenTo(s, n, AtTarget(t))
      <4>1. Given(Chosen(mounted, OnTarget(t)), a) /\ a \in Seq(MountSet)
        BY <1>8, <1>13 DEF Mounted, s
      <4>2. ChosenTo(s, j, AtTarget(t)) = IF m \in AtTarget(t) THEN Append(a, m) ELSE a
        BY <1>13
      <4> HIDE DEF a
      <4>3. Given(Chosen(Append(mounted, f), OnTarget(t)), IF m \in AtTarget(t) THEN Append(a, m) ELSE a)
        BY <1>6, <1>7, <3>2, <4>1, GivenStep
      <4> QED
        BY <3>1, <4>2, <4>3
    <3> QED
      BY <1>3, <1>15, <3>1, <3>3, <3>4
  <2> QED
    BY <2>2, <2>3
<1> QED
  BY <1>16, <1>17

(* The root of a machine.                                                  *)
LEMMA MountsRoot ==
  ASSUME Base, MountsInv, MountRoot PROVE MountsInv'
<1>1. /\ config' = config /\ Driver' = Driver /\ mounted' = mounted /\ line' = line
      /\ stage = "root" /\ mounted = << >> /\ root = << Nothing >> /\ line = 1
  BY DEF MountRoot, Base, host, Driver
<1>2. FsSet' = FsSet /\ RootYields' = RootYields
  BY <1>1 DEF FsSet, RootYields
<1>3. MachineReady
  BY <1>1, AfterMounts DEF Base, Early, Reading
<1>4. config.mounts \in Seq(MountSet) /\ Len(config.mounts) \in Nat
  BY <1>3, MountsLength DEF MachineReady
<1>5. mounted \in Seq(FsSet) /\ \A K : Chosen(mounted, K) = << >>
  BY <1>1, ChosenEmpty, EmptySeq
<1>6. ASSUME NEW t \in Targets
      PROVE Given(Chosen(mounted, OnTarget(t)), ChosenTo(config.mounts, 0, AtTarget(t)))
  BY <1>4, <1>5, ChosenToAll DEF Given
<1>7. Mounted(0)'
  <2>1. \A t \in Targets \ {Root} :
           Given(Chosen(mounted', OnTarget(t)), ChosenTo(config.mounts, 0, AtTarget(t)))
    BY <1>1, <1>6
  <2> QED
    BY <1>1, <2>1, MountedNext
<1>8. \E n \in 0 .. Len(config.mounts) : line' = n + 1 /\ Mounted(n)'
  <2>1. Len(config.mounts) \in Nat
    BY <1>4
  <2>2. 0 \in 0 .. Len(config.mounts)
    BY ONLY <2>1
  <2>3. line' = 1
    BY <1>1
  <2>4. line' = 0 + 1
    BY ONLY <2>3
  <2> QED
    BY <1>7, <2>2, <2>4
<1>9. PICK what \in {RootYields, << "no source" >>} :
         IF what[1] \in Failures THEN stage' = what[1] /\ root' = root
         ELSE stage' = "mount" /\ root' = what
  BY <1>3, RootMounts DEF MountRoot
<1>10. root' # << Nothing >> => root' = RootYields
  <2>1. << "no source" >>[1] \in Failures
    BY DEF Failures
  <2>2. CASE what[1] \in Failures
    BY <1>1, <1>9, <2>2
  <2>3. CASE what[1] \notin Failures
    BY <1>9, <2>1, <2>3
  <2> QED
    BY <2>2, <2>3
<1>11. stage' # "load" /\ ~HasLoaded'
  BY <1>9 DEF Failures, HasLoaded
<1>12. Driver' # "container"
  BY <1>1, <1>3 DEF MachineReady
<1> QED
  BY <1>1, <1>2, <1>10, <1>11, <1>5, <1>8, <1>12 DEF MountsInv

(* A container, which libvirt has set up.                                  *)
LEMMA MountsContainer ==
  ASSUME Base, MountsInv, EnterContainer PROVE MountsInv'
<1>1. /\ config' = config /\ Driver' = Driver /\ stage = "container" /\ Driver = "container"
      /\ Handed /\ Config(config) /\ root = << Nothing >>
  BY DEF EnterContainer, Base, host, Driver, Reading, Early, Untouched
<1>2. FsSet' = FsSet /\ RootYields' = RootYields
  BY <1>1 DEF FsSet, RootYields
<1>3. stage' # "load" /\ ~HasLoaded'
  BY DEF EnterContainer, HasLoaded
<1>4. config.mounts \in Seq(MountSet)
  BY <1>1, MountsLength
<1>5. domain.filesystems \in Seq(FsSet) /\ domain.filesystems = Filesystems(config, "container")
  <2>1. Filesystems(config, "container") \in Seq(FsSet)
    BY <1>1, ContainerFs
  <2> QED
    BY <1>1, <2>1 DEF Handed
<1> DEFINE fs == domain.filesystems
           roots == Chosen(fs, {f \in FsSet : f.target = Root})
           rest == Chosen(fs, {f \in FsSet : f.target # Root})
<1>6. \/ roots # << >> /\ stage' = "mount" /\ root' = roots[1].what /\ mounted' = rest
      \/ stage' = "no source" /\ root' = root /\ mounted' = mounted
  <2>0. fs \in Seq(FsSet)
    BY <1>5
  <2> HIDE DEF fs
  <2> DEFINE A == {f \in FsSet : f.target = Root}
             B == {f \in FsSet : f.target # Root}
  <2>1. /\ \A x \in FsSet : x \in A <=> x.target = Root
        /\ \A x \in FsSet : x \in B <=> x.target # Root
    OBVIOUS
  <2> HIDE DEF A, B
  <2>2. AtIt(fs, Root) = Chosen(fs, A) /\ Elsewhere(fs, Root) = Chosen(fs, B)
    BY ONLY <2>0, <2>1, TargetChosen, ElsewhereChosen
  <2>3. AtIt(fs, Root) = roots /\ Elsewhere(fs, Root) = rest
    BY <2>2 DEF A, B
  <2> HIDE DEF roots, rest
  <2> QED
    BY <2>3 DEF EnterContainer, Select, fs, AtIt, Elsewhere
<1>7. CASE stage' = "no source"
  BY <1>1, <1>2, <1>3, <1>6, <1>7 DEF MountsInv
<1>8. CASE stage' # "no source"
  <2>1. root' = RootYields
    BY <1>1, <1>5, <1>6, <1>8, ContainerRoot
  <2>2. rest \in Seq(FsSet)
    BY <1>5, ChosenTyped
  <2>3. ASSUME NEW t \in Targets \ {Root}
        PROVE  Given(Chosen(rest, OnTarget(t)), Chosen(config.mounts, AtTarget(t)))
    BY <1>1, <1>5, ContainerMounts
  <2>4. \A t : ChosenTo(config.mounts, Len(config.mounts), AtTarget(t)) = Chosen(config.mounts, AtTarget(t))
    BY <1>4, ChosenToAll
  <2> HIDE DEF rest
  <2>5. mounted' = rest
    BY <1>6, <1>8
  <2>6. Mounted(Len(config.mounts))'
    BY <1>1, <2>3, <2>4, <2>5, MountedNext
  <2> QED
    BY <1>1, <1>2, <1>3, <2>1, <2>2, <2>5, <2>6 DEF MountsInv
<1> QED
  BY <1>7, <1>8

(* Every step keeps the mounts.                                            *)
LEMMA MountsStep ==
  ASSUME Base, MountsInv, [Next]_vars PROVE MountsInv'
<1>1. CASE ReadsOptions
  <2>1. stage' \notin {"mount", "load"} /\ ~HasLoaded' /\ root' = root /\ stage \in Early
    BY <1>1, OptionSteps DEF Base, Reading, HasLoaded, guest, Early
  <2>2. root = << Nothing >>
    BY <2>1 DEF Base, Untouched
  <2> QED
    BY <2>1, <2>2 DEF MountsInv
<1>2. CASE StartSandbox
  <2>1. stage \in Early /\ root' = root
    BY <1>2, StartStep DEF Base, guest, Reading, Early
  <2>2. root = << Nothing >> /\ stage' \in {"refused", "modules", "container"}
    BY <1>2, <2>1 DEF Base, Untouched, StartSandbox, Refuses
  <2> QED
    BY <2>1, <2>2 DEF MountsInv, HasLoaded
<1>3. CASE MountRoot \/ MountLine \/ EnterContainer
  BY <1>3, MountsRoot, MountsLine, MountsContainer
<1>4. CASE InsertModules
  <2>1. stage = "modules" /\ stage' \notin {"mount", "load"} /\ ~HasLoaded' /\ root' = root
    BY <1>4 DEF InsertModules, HasLoaded
  <2>2. root = << Nothing >>
    BY <2>1 DEF Base, Untouched, Early
  <2> QED
    BY <2>1, <2>2 DEF MountsInv
<1>5. CASE ExecCommon
  <2>1. /\ stage = "mount" /\ line > Len(mountsCfg) /\ config' = config /\ Driver' = Driver
        /\ root' = root /\ mounted' = mounted /\ stage' \in {"no exec", "load"}
    BY <1>5 DEF ExecCommon, host, guest, Driver
  <2>2. FsSet' = FsSet /\ RootYields' = RootYields /\ \A t : OnTarget(t)' = OnTarget(t)
    BY <2>1 DEF FsSet, RootYields, OnTarget
  <2>3. Handed /\ Config(config) /\ line \in Nat \ {0}
    BY <2>1 DEF Base, Reading
  <2>4. mounted \in Seq(FsSet) /\ Mounted(Len(config.mounts))
    <3>1. CASE Driver = "machine"
      <4>1. Len(mountsCfg) = Len(config.mounts) /\ Len(config.mounts) \in Nat
        BY <2>3, <3>1, MountsLength
      <4>2. mounted \in Seq(FsSet)
        BY <2>1, <3>1 DEF MountsInv
      <4>3. PICK n \in 0 .. Len(config.mounts) : line = n + 1 /\ Mounted(n)
        BY <2>1, <3>1 DEF MountsInv
      <4>4. n = Len(config.mounts)
        <5>1. /\ line > Len(mountsCfg) /\ Len(mountsCfg) = Len(config.mounts)
              /\ Len(config.mounts) \in Nat /\ n \in 0 .. Len(config.mounts) /\ line = n + 1
          BY <2>1, <4>1, <4>3
        <5> QED
          BY ONLY <5>1
      <4> QED
        BY <4>2, <4>3, <4>4
    <3>2. CASE Driver = "container"
      BY <2>1, <3>2 DEF MountsInv
    <3> QED
      BY <2>3, <3>1, <3>2 DEF Handed
  <2>5. Mounted(Len(config.mounts))'
    BY <2>1, <2>2, <2>4 DEF Mounted
  <2> QED
    BY <2>1, <2>2, <2>4, <2>5 DEF MountsInv, HasLoaded
<1>6. CASE GuestRuns /\ stage \notin {"modules", "container", "root", "mount"}
  <2>1. /\ config' = config /\ root' = root /\ mounted' = mounted /\ Driver' = Driver
        /\ stage' # "mount" /\ (stage = "load" \/ HasLoaded)
    <3>1. config' = config /\ Driver' = Driver
      BY <1>6, GuestSteps DEF host, Driver
    <3>2. CASE LoadIt \/ SetupDiskTag \/ SetupTagsDone
      BY <3>1, <3>2 DEF LoadIt, SetupDiskTag, SetupTagsDone, HasLoaded
    <3>3. CASE SetupCustomEnv \/ SetupNetworkDevice \/ RunInteractive
      BY <3>1, <3>3 DEF SetupCustomEnv, SetupNetworkDevice, RunInteractive, HasLoaded
    <3>4. ~(InsertModules \/ MountRoot \/ MountLine \/ EnterContainer \/ ExecCommon)
      BY <1>6 DEF InsertModules, MountRoot, MountLine, EnterContainer, ExecCommon
    <3> QED
      BY <1>6, <3>2, <3>3, <3>4 DEF GuestRuns
  <2>2. FsSet' = FsSet /\ RootYields' = RootYields /\ \A t : OnTarget(t)' = OnTarget(t)
    BY <2>1 DEF FsSet, RootYields, OnTarget
  <2>3. mounted \in Seq(FsSet) /\ Mounted(Len(config.mounts))
    BY <2>1 DEF MountsInv
  <2>4. Mounted(Len(config.mounts))'
    BY <2>1, <2>2, <2>3 DEF Mounted
  <2> QED
    BY <2>1, <2>2, <2>3, <2>4 DEF MountsInv
<1>7. CASE UNCHANGED vars
  <2>1. UNCHANGED << stage, config, root, mounted, line, here >>
    BY <1>7 DEF vars, host, guest
  <2>2. /\ FsSet' = FsSet /\ RootYields' = RootYields /\ \A t : OnTarget(t)' = OnTarget(t)
        /\ Driver' = Driver /\ HasLoaded' = HasLoaded
    BY <2>1 DEF FsSet, RootYields, OnTarget, Driver, HasLoaded
  <2>3. \A n : Mounted(n) => Mounted(n)'
    BY <2>1, <2>2 DEF Mounted
  <2> QED
    BY <2>1, <2>2, <2>3 DEF MountsInv
<1>8. GuestRuns => \/ MountRoot \/ MountLine \/ EnterContainer \/ InsertModules \/ ExecCommon
                   \/ stage \notin {"modules", "container", "root", "mount"}
  BY DEF GuestRuns, LoadIt, SetupDiskTag, SetupTagsDone, SetupCustomEnv, SetupNetworkDevice,
         RunInteractive
<1> QED
  BY <1>1, <1>2, <1>3, <1>4, <1>5, <1>6, <1>7, <1>8, Steps

(* Then the guest has, at each target, what its configuration yields there. *)
LEMMA MountsYielded ==
  ASSUME Base, MountsInv, stage = "load" \/ HasLoaded, NEW t \in Targets \ {Root}
  PROVE  /\ AtIt(mounted, t) = Chosen(mounted, OnTarget(t))
         /\ Given(Chosen(mounted, OnTarget(t)), Chosen(config.mounts, AtTarget(t)))
<1> DEFINE s == config.mounts
<1>1. s \in Seq(MountSet)
  BY DEF Base, Config, Listed
<1>2. mounted \in Seq(FsSet) /\ Mounted(Len(s))
  BY DEF MountsInv
<1>3. ChosenTo(s, Len(s), AtTarget(t)) = Chosen(s, AtTarget(t))
  <2> HIDE DEF s
  <2> QED
    BY <1>1, ChosenToAll
<1>4. Given(Chosen(mounted, OnTarget(t)), Chosen(s, AtTarget(t)))
  BY <1>2, <1>3 DEF Mounted
<1>5. mounted \in Seq(FsSet) /\ \A x \in FsSet : x \in OnTarget(t) <=> x.target = t
  BY <1>2 DEF OnTarget
<1>6. AtIt(mounted, t) = Chosen(mounted, OnTarget(t))
  BY ONLY <1>5, TargetChosen
<1> QED
  BY <1>4, <1>6

-----------------------------------------------------------------------------
(* The options of a network.                                               *)

(* FoldLeft is a function on the sets of indices of its sequence, defined  *)
(* recursively. Where the parser of network options begins, ...            *)
NothingTaken == [net |-> NoNetwork, bad |-> FALSE]

(* ... and what it has made of each set of parameters.                     *)
Takings(g, params, n) ==
  g = [s \in SUBSET (1 .. n) |->
         IF s = {} THEN NothingTaken ELSE TakeParam(params[Max(s)], g[s \ {Max(s)}])]

(* The last index of a set.                                                *)
LEMMA GreatestOf ==
  ASSUME NEW n \in Nat, NEW s \in SUBSET (1 .. n + 1), n + 1 \in s
  PROVE  Max(s) = n + 1
<1> DEFINE P(x) == x \in s /\ \A y \in s : x >= y
<1>1. P(n + 1)
  OBVIOUS
<1>2. \A x : P(x) => x = n + 1
  OBVIOUS
<1>3. Max(s) = CHOOSE x : P(x)
  BY DEF Max
<1>4. P(CHOOSE x : P(x))
  <2> HIDE DEF P
  <2> QED
    BY <1>1, Zenon
<1> QED
  BY <1>2, <1>3, <1>4

(* There is such a function, for any number of parameters: it is made from *)
(* the one for one less.                                                   *)
LEMMA TakingsExist ==
  ASSUME NEW params, NEW n \in Nat
  PROVE  \E g : Takings(g, params, n)
<1> DEFINE S == {m \in Nat : \E g : Takings(g, params, m)}
<1>1. 0 \in S
  <2> DEFINE g == [s \in SUBSET (1 .. 0) |-> NothingTaken]
  <2>1. \A s \in SUBSET (1 .. 0) : s = {}
    OBVIOUS
  <2>2. Takings(g, params, 0)
    BY <2>1 DEF Takings
  <2> QED
    BY <2>2
<1>2. ASSUME NEW m \in Nat, m \in S PROVE m + 1 \in S
  <2>1. PICK g : Takings(g, params, m)
    BY <1>2
  <2> DEFINE h == [s \in SUBSET (1 .. m + 1) |->
                     IF m + 1 \in s THEN TakeParam(params[m + 1], g[s \ {m + 1}]) ELSE g[s]]
             next(s) == IF s = {} THEN NothingTaken ELSE TakeParam(params[Max(s)], h[s \ {Max(s)}])
  <2>2. ASSUME NEW s \in SUBSET (1 .. m + 1) PROVE h[s] = next(s)
    <3>1. CASE m + 1 \in s
      <4>1. Max(s) = m + 1
        BY <3>1, GreatestOf
      <4>2. s # {} /\ s \ {m + 1} \in SUBSET (1 .. m + 1) /\ m + 1 \notin s \ {m + 1}
        BY <3>1
      <4>3. h[s \ {m + 1}] = g[s \ {m + 1}]
        BY <4>2
      <4>4. h[s] = TakeParam(params[m + 1], g[s \ {m + 1}])
        BY <3>1
      <4> QED
        BY <4>1, <4>2, <4>3, <4>4
    <3>2. CASE m + 1 \notin s
      <4>1. s \in SUBSET (1 .. m) /\ h[s] = g[s]
        BY <3>2
      <4>2. g[s] = IF s = {} THEN NothingTaken ELSE TakeParam(params[Max(s)], g[s \ {Max(s)}])
        BY <2>1, <4>1 DEF Takings
      <4>3. h[s \ {Max(s)}] = g[s \ {Max(s)}]
        BY <3>2
      <4> QED
        BY <4>1, <4>2, <4>3
    <3> QED
      BY <3>1, <3>2
  <2>3. h = [s \in SUBSET (1 .. m + 1) |-> next(s)]
    <3> HIDE DEF next
    <3> QED
      BY <2>2
  <2>4. Takings(h, params, m + 1)
    BY <2>3 DEF Takings
  <2> QED
    BY <2>4
<1>3. Nat \subseteq S
  <2> HIDE DEF S
  <2> QED
    BY <1>1, <1>2, R!InductionOfSet
<1> QED
  BY <1>3

(* The fold ...                                                            *)
Folded(params) ==
  FoldLeft(LAMBDA acc, p : TakeParam(p, acc), NothingTaken, params)

(* ... is what that function makes of all of them.                         *)
LEMMA FoldIs ==
  ASSUME NEW params, NEW n \in Nat, DOMAIN params = 1 .. n
  PROVE  \E g : Takings(g, params, n) /\ Folded(params) = g[1 .. n]
<1> DEFINE P(f) == f = [s \in SUBSET (1 .. n) |->
                          IF s = {} THEN NothingTaken ELSE TakeParam(params[Max(s)], f[s \ {Max(s)}])]
           g == CHOOSE f : P(f)
<1>1. Folded(params) = g[1 .. n]
  BY DEF Folded, FoldLeft, MapThenFoldSet
<1>2. \E f : P(f)
  <2>1. \A f : Takings(f, params, n) => P(f)
    BY Zenon DEF Takings
  <2>2. \E f : Takings(f, params, n)
    BY TakingsExist
  <2> HIDE DEF P
  <2> QED
    BY <2>1, <2>2
<1>3. P(g)
  <2> HIDE DEF P
  <2> QED
    BY <1>2, Zenon
<1> QED
  BY <1>1, <1>3 DEF Takings

(* The parameters that have a value, ...                                   *)
Valued == {"source", "address", "route"}

(* ... those values, ...                                                   *)
Values ==
  {NoValue} \cup UNION {{p[i][2] : i \in {j \in DOMAIN p : p[j][1] \in Valued}} : p \in Networks}

(* ... and the records made of them.                                       *)
NetworkRecords == [dhcp : BOOLEAN, source : Values, addresses : Seq(Values), routes : Seq(Values)]

(* An interface that takes DHCP has no addresses.                           *)
Parsed(st) ==
  /\ st \in [net : NetworkRecords, bad : BOOLEAN]
  /\ ~st.bad /\ st.net.dhcp => st.net.addresses = << >> /\ st.net.routes = << >>

(* One parameter more.                                                     *)
LEMMA ParamTaken ==
  ASSUME NEW st, Parsed(st), NEW p, p[1] \in Valued => p[2] \in Values
  PROVE  Parsed(TakeParam(p, st))
<1> DEFINE v == p[2]
           k == p[1]
           net == st.net
<1>1. st = [net |-> net, bad |-> st.bad] /\ net \in NetworkRecords /\ st.bad \in BOOLEAN
  BY DEF Parsed
<1>2. k \in Valued =>
        v \in Values /\ Append(net.addresses, v) \in Seq(Values) /\ Append(net.routes, v) \in Seq(Values)
  <2>1. net.addresses \in Seq(Values) /\ net.routes \in Seq(Values)
    BY <1>1 DEF NetworkRecords
  <2>2. SUFFICES ASSUME k \in Valued
                 PROVE  v \in Values /\ Append(net.addresses, v) \in Seq(Values)
                                     /\ Append(net.routes, v) \in Seq(Values)
    OBVIOUS
  <2>3. v \in Values
    BY <2>2
  <2> HIDE DEF v
  <2> QED
    BY <2>1, <2>3
<1>3. CASE st.bad
  BY <1>3 DEF TakeParam
<1>4. CASE ~st.bad /\ k = "dhcp"
  <2>1. TakeParam(p, st) = [net |-> [net EXCEPT !.dhcp = TRUE], bad |-> ~TakesDhcp(net)]
    BY <1>4 DEF TakeParam
  <2>2. [net EXCEPT !.dhcp = TRUE] \in NetworkRecords
    BY <1>1 DEF NetworkRecords
  <2> QED
    BY <1>1, <2>1, <2>2 DEF Parsed, TakesDhcp, NetworkRecords
<1>5. CASE ~st.bad /\ k = "address"
  <2> DEFINE new == [net EXCEPT !.addresses = Append(@, v), !.dhcp = FALSE]
  <2>1. TakeParam(p, st) = [net |-> new, bad |-> ~TakesStatic(net)]
    BY <1>5 DEF TakeParam
  <2>2. new \in NetworkRecords /\ new.dhcp = FALSE
    BY <1>1, <1>2, <1>5 DEF NetworkRecords, Valued
  <2> HIDE DEF new
  <2> QED
    BY <2>1, <2>2 DEF Parsed, TakesStatic
<1>6. CASE ~st.bad /\ k = "route"
  <2> DEFINE new == [net EXCEPT !.routes = Append(@, v), !.dhcp = FALSE]
  <2>1. TakeParam(p, st) = [net |-> new, bad |-> ~TakesStatic(net)]
    BY <1>6 DEF TakeParam
  <2>2. new \in NetworkRecords /\ new.dhcp = FALSE
    BY <1>1, <1>2, <1>6 DEF NetworkRecords, Valued
  <2> HIDE DEF new
  <2> QED
    BY <2>1, <2>2 DEF Parsed, TakesStatic
<1>7. CASE ~st.bad /\ k = "source"
  <2> DEFINE new == [net EXCEPT !.source = v]
  <2>1. TakeParam(p, st) = [st EXCEPT !.net.source = v]
    BY <1>7 DEF TakeParam
  <2>2. TakeParam(p, st) = [net |-> new, bad |-> FALSE]
    BY <1>1, <1>7, <2>1
  <2>3. new \in NetworkRecords /\ new.dhcp = net.dhcp /\ new.addresses = net.addresses
        /\ new.routes = net.routes
    BY <1>1, <1>2, <1>7 DEF NetworkRecords, Valued
  <2> HIDE DEF new
  <2> QED
    BY <1>7, <2>2, <2>3 DEF Parsed
<1>8. CASE ~st.bad /\ k \notin {"dhcp", "address", "route", "source"}
  <2>1. TakeParam(p, st) = [st EXCEPT !.bad = TRUE]
    BY <1>8 DEF TakeParam
  <2> QED
    BY <1>1, <2>1 DEF Parsed
<1> QED
  BY <1>1, <1>3, <1>4, <1>5, <1>6, <1>7, <1>8

(* A network option that is accepted has routes only with addresses, and   *)
(* neither with DHCP.                                                      *)
LEMMA NetworkParsed ==
  ASSUME NEW params \in Networks
  PROVE  /\ ParseNetwork(params).net \in NetworkRecords
         /\ ~ParseNetwork(params).bad =>
               /\ ParseNetwork(params).net.routes # << >> => ParseNetwork(params).net.addresses # << >>
               /\ ParseNetwork(params).net.dhcp =>
                     ParseNetwork(params).net.addresses = << >> /\ ParseNetwork(params).net.routes = << >>
<1>1. PICK n \in Nat : DOMAIN params = 1 .. n
  <2>1. params \in Seq(Range(params))
    BY OptionsAssumption
  <2> QED
    BY <2>1, LenProperties
<1>2. PICK g : Takings(g, params, n) /\ Folded(params) = g[1 .. n]
  BY <1>1, FoldIs
<1> DEFINE S == {m \in Nat : m \in 0 .. n => Parsed(g[1 .. m])}
<1>3. 0 \in S
  <2>1. 1 .. 0 = {}
    OBVIOUS
  <2>2. g[{}] = NothingTaken
    BY <1>2 DEF Takings
  <2>3. NoNetwork \in NetworkRecords
    BY DEF NoNetwork, NetworkRecords, Values
  <2>4. Parsed(NothingTaken)
    BY <2>3 DEF NothingTaken, Parsed, NoNetwork
  <2> QED
    BY <2>1, <2>2, <2>4
<1>4. ASSUME NEW m \in Nat, m \in S PROVE m + 1 \in S
  <2> SUFFICES ASSUME m + 1 \in 0 .. n PROVE Parsed(g[1 .. m + 1])
    OBVIOUS
  <2>1. Max(1 .. m + 1) = m + 1
    BY GreatestOf
  <2>2. (1 .. m + 1) \ {m + 1} = 1 .. m /\ 1 .. m + 1 # {} /\ 1 .. m + 1 \in SUBSET (1 .. n)
    <3>1. 1 .. m + 1 # {}
      <4>1. 1 \in 1 .. m + 1
        OBVIOUS
      <4> QED
        BY <4>1
    <3>2. \A k : k \in 1 .. m <=> k \in (1 .. m + 1) \ {m + 1}
      OBVIOUS
    <3>3. \A k \in 1 .. m + 1 : k \in 1 .. n
      OBVIOUS
    <3> QED
      BY <3>1, <3>2, <3>3
  <2>3. g[1 .. m + 1] = TakeParam(params[m + 1], g[1 .. m])
    BY <1>2, <2>1, <2>2 DEF Takings
  <2>4. Parsed(g[1 .. m])
    BY <1>4
  <2>5. params[m + 1][1] \in Valued => params[m + 1][2] \in Values
    BY <1>1 DEF Values
  <2> QED
    BY <2>3, <2>4, <2>5, ParamTaken
<1>5. Nat \subseteq S
  <2> HIDE DEF S
  <2> QED
    BY <1>3, <1>4, R!InductionOfSet
<1>6. Parsed(Folded(params))
  BY <1>2, <1>5
<1>7. /\ ParseNetwork(params).net = Folded(params).net
      /\ ~ParseNetwork(params).bad => ~Folded(params).bad /\ RoutesTaken(Folded(params).net)
  <2>1. ParseNetwork(params)
          = [Folded(params) EXCEPT !.bad = Folded(params).bad \/ ~RoutesTaken(Folded(params).net)]
    BY DEF ParseNetwork, Folded, NothingTaken
  <2> QED
    BY <1>6, <2>1 DEF Parsed
<1> QED
  BY <1>6, <1>7 DEF Parsed, RoutesTaken

-----------------------------------------------------------------------------
(* The configuration file.                                                 *)

(* A set in some order: all of it.                                         *)
LEMMA SetInOrder ==
  ASSUME NEW S, IsFiniteSet(S)
  PROVE  /\ SetToSeq(S) \in [1 .. Cardinality(S) -> S] /\ Cardinality(S) \in Nat
         /\ \A x \in S : \E i \in 1 .. Cardinality(S) : SetToSeq(S)[i] = x
<1> DEFINE n == Cardinality(S)
           P(f) == f \in [1 .. n -> S] /\ IsInjective(f)
           f == SetToSeq(S)
<1>1. n \in Nat /\ ExistsBijection(1 .. n, S)
  BY FS_CardinalityType
<1>2. \E g : P(g)
  <2>1. PICK g : g \in Bijection(1 .. n, S)
    BY <1>1 DEF ExistsBijection
  <2>2. g \in [1 .. n -> S] /\ IsInjective(g)
    BY <2>1 DEF Bijection, Injection
  <2> QED
    BY <2>2
<1>3. P(f)
  <2>1. f = CHOOSE g : P(g)
    BY DEF SetToSeq
  <2> HIDE DEF P, f
  <2> QED
    BY <1>2, <2>1, Zenon
<1>4. f \in Injection(1 .. n, S)
  BY <1>3 DEF Injection
<1>5. Cardinality(1 .. n) = n
  <2>1. 1 \in Int /\ n \in Int /\ n >= 0
    BY <1>1
  <2>2. Cardinality(1 .. n) = IF 1 > n THEN 0 ELSE n - 1 + 1
    BY <2>1, FS_Interval
  <2> HIDE DEF n
  <2> QED
    BY <1>1, <2>2
<1>6. f \in Surjection(1 .. n, S)
  <2> HIDE DEF f
  <2> QED
    BY <1>4, <1>5, FS_Injection
<1> QED
  BY <1>1, <1>3, <1>6 DEF Surjection

(* A hash table, written in any order, is read back.                       *)
LEMMA TableKept ==
  ASSUME NEW t, Tabled(t)
  PROVE  /\ Entries(t) \in Seq({<< k, t[k] >> : k \in DOMAIN t})
         /\ Len(Entries(t)) = Cardinality(DOMAIN t)
         /\ Table(Entries(t)) = t
<1> DEFINE D == DOMAIN t
           n == Cardinality(D)
           f == SetToSeq(D)
           e == Entries(t)
           V == {<< k, t[k] >> : k \in D}
<1>1. /\ f \in [1 .. n -> D] /\ n \in Nat /\ t = [k \in D |-> t[k]]
      /\ \A x \in D : \E i \in 1 .. n : f[i] = x
  BY SetInOrder DEF Tabled
<1>2. e = [i \in 1 .. n |-> << f[i], t[f[i]] >>]
  BY DEF Entries
<1> HIDE DEF e, f, n, D
<1>3. e \in [1 .. n -> V]
  BY <1>1, <1>2
<1>4. e \in Seq(V) /\ Len(e) = n
  <2>1. e \in Seq(V)
    BY <1>1, <1>3, SeqDef
  <2> QED
    BY <1>1, <1>3, <2>1, LenProperties
<1>5. DOMAIN e = 1 .. n /\ \A i \in 1 .. n : e[i][1] = f[i] /\ e[i][2] = t[f[i]]
  BY <1>2
<1>6. {e[i][1] : i \in DOMAIN e} = D
  <2>1. ASSUME NEW x \in D PROVE x \in {e[i][1] : i \in DOMAIN e}
    <3>1. PICK i \in 1 .. n : f[i] = x
      BY <1>1
    <3>2. i \in DOMAIN e /\ e[i][1] = x
      BY <1>5, <3>1
    <3> QED
      BY <3>2
  <2>2. ASSUME NEW i \in DOMAIN e PROVE e[i][1] \in D
    BY <1>1, <1>5
  <2> QED
    BY <2>1, <2>2
<1>7. ASSUME NEW k \in D PROVE e[CHOOSE i \in DOMAIN e : e[i][1] = k][2] = t[k]
  <2>1. \E i \in DOMAIN e : e[i][1] = k
    <3>1. PICK i \in 1 .. n : f[i] = k
      BY <1>1
    <3>2. i \in DOMAIN e /\ e[i][1] = k
      BY <1>5, <3>1
    <3> QED
      BY <3>2
  <2>2. PICK i \in DOMAIN e : i = CHOOSE j \in DOMAIN e : e[j][1] = k
    BY <2>1
  <2>3. e[i][1] = k
    BY <2>1, <2>2
  <2> QED
    BY <1>5, <2>2, <2>3
<1>8. Table(e) = [k \in D |-> e[CHOOSE i \in DOMAIN e : e[i][1] = k][2]]
  BY <1>6 DEF Table
<1>9. Table(e) = t
  BY <1>1, <1>7, <1>8
<1> QED
  BY <1>4, <1>9 DEF e, n, D, V

(* So is a list within the limit.                                          *)
LEMMA ListKept ==
  ASSUME NEW S, NEW s \in Seq(S), NEW limit \in Nat, Len(s) <= limit
  PROVE  LoadList(s, limit) = s
<1>1. Len(s) \in Nat /\ \A i \in 1 .. Len(s) : s[i] \in S
  BY LenProperties, ElementOfSeq
<1>2. LoadList(s, limit) = SubSeq(s, 1, Len(s))
  <2>1. (IF Len(s) < limit THEN Len(s) ELSE limit) = Len(s)
    BY <1>1
  <2> QED
    BY <2>1 DEF LoadList
<1> DEFINE r == SubSeq(s, 1, Len(s))
<1>3. r \in Seq(S) /\ Len(r) = Len(s) /\ \A i \in 1 .. Len(s) : r[i] = s[i]
  BY <1>1, SubSeqProperties
<1> HIDE DEF r
<1>4. r = s
  BY <1>3, SeqEqual
<1> QED
  BY <1>2, <1>4 DEF r

(* Nothing is cut off a number that fits.                                  *)
LEMMA Remainder ==
  ASSUME NEW a \in Nat, NEW b \in Nat, a < b PROVE a % b = a
  OBVIOUS

(* So is a size that fits into a gint.                                     *)
LEMMA UsageKept ==
  ASSUME NEW n \in Nat, n < 2^(Width - 1)
  PROVE  ToGuint64(ToInt(Strtol(n))) = n
<1> DEFINE a == 2^(Width - 1)
           b == 2^Width
           c == 2^(2 * Width - 1)
           d == 2^(2 * Width)
<1>1. a \in Nat /\ b \in Nat /\ c \in Nat /\ d \in Nat /\ n < a /\ a <= b /\ a <= c /\ c <= d
  BY PowersAssumption
<1>2. Strtol(n) = IF n < c THEN n ELSE c - 1
  BY DEF Strtol
<1>3. ToInt(n) = IF n % b < a THEN n % b ELSE (n % b) - b
  BY DEF ToInt
<1>4. ToGuint64(n) = n % d
  BY DEF ToGuint64
<1> HIDE DEF a, b, c, d
<1>5. n < c /\ n < b /\ n < d
  BY <1>1
<1>6. n % b = n /\ n % d = n
  BY <1>1, <1>5, Remainder
<1> QED
  BY <1>1, <1>2, <1>3, <1>4, <1>5, <1>6

(* The size of a mount is a guint64.                                       *)
LEMMA UsageTyped ==
  ASSUME NEW m \in MountSet
  PROVE  m.usage \in 0 .. 2^(2 * Width) - 1
<1>1. PICK x \in Mounts : m.usage = OptionUsage(x.usage)
  BY DEF MountSet
<1> DEFINE n == x.usage
           a == 2^(Width - 1)
           b == 2^Width
           d == 2^(2 * Width)
           i == ToInt(n)
<1>2. n \in Int /\ a \in Nat /\ b \in Nat \ {0} /\ d \in Nat \ {0}
  BY PowersAssumption, OptionsAssumption
<1>3. i = IF n % b < a THEN n % b ELSE (n % b) - b
  BY DEF ToInt
<1>4. OptionUsage(n) = i % d
  BY DEF OptionUsage, ToGuint64
<1> HIDE DEF n, a, b, d, i
<1>5. n % b \in Nat
  BY <1>2
<1>6. i \in Int
  BY <1>2, <1>3, <1>5
<1>7. i % d \in 0 .. d - 1
  BY <1>2, <1>6
<1> QED
  BY <1>1, <1>4, <1>7 DEF n, d

(* A mount is read back, ...                                               *)
LEMMA MountKept ==
  ASSUME NEW m \in MountSet,
         Cardinality(DOMAIN m.includes) <= ListLimit, m.usage < 2^(Width - 1)
  PROVE  LoadMount(SaveMount(m)) = m
<1> DEFINE t == m.includes
           e == Entries(t)
           u == m.usage
           s == SaveMount(m)
<1>1. m = [type |-> m.type, target |-> m.target, source |-> m.source, usage |-> u, includes |-> t]
  BY DEF MountSet
<1>2. Tabled(t)
  <2>1. PICK D \in SUBSET Destinations : IsFiniteSet(D) /\ t \in [D -> {i.host : i \in Includes}]
    BY DEF MountSet, IncludeTables
  <2> HIDE DEF t
  <2> QED
    BY <2>1 DEF Tabled
<1>3. u \in Nat /\ u < 2^(Width - 1)
  <2>1. u \in 0 .. 2^(2 * Width) - 1
    BY UsageTyped
  <2> QED
    BY <2>1
<1>4. ToGuint64(ToInt(Strtol(u))) = u
  <2> HIDE DEF u
  <2> QED
    BY <1>3, UsageKept
<1>5. Table(LoadList(e, ListLimit)) = t
  <2> DEFINE V == {<< k, t[k] >> : k \in DOMAIN t}
  <2>1. e \in Seq(V) /\ Len(e) <= ListLimit /\ Table(e) = t
    <3>1. Cardinality(DOMAIN t) <= ListLimit
      OBVIOUS
    <3> HIDE DEF t
    <3> QED
      BY <1>2, <3>1, TableKept
  <2>2. ListLimit \in Nat
    BY LimitsAssumption
  <2> HIDE DEF e, V
  <2>3. LoadList(e, ListLimit) = e
    BY <2>1, <2>2, ListKept
  <2> QED
    BY <2>1, <2>3
<1>6. s = [type |-> m.type, target |-> m.target, source |-> m.source, usage |-> u, includes |-> e]
  <2> HIDE DEF e, t, u
  <2>1. s = [m EXCEPT !.includes = e]
    BY DEF SaveMount, e, t
  <2> HIDE DEF s
  <2> QED
    BY <1>1, <2>1
<1> HIDE DEF t, e, u, s
<1>7. LoadMount(s) = [s EXCEPT !.usage = IF s.type = "ram" THEN ToGuint64(ToInt(Strtol(s.usage))) ELSE s.usage,
                               !.includes = Table(LoadList(s.includes, ListLimit))]
  BY DEF LoadMount
<1>8. s.usage = u /\ s.includes = e
  BY <1>6
<1>9. LoadMount(s) = [s EXCEPT !.usage = u, !.includes = t]
  BY <1>4, <1>5, <1>7, <1>8
<1>10. LoadMount(s) = m
  BY <1>1, <1>6, <1>9
<1> QED
  BY <1>10 DEF s

(* ... and a network.                                                      *)
LEMMA NetworkKept ==
  ASSUME NEW n \in NetworkRecords,
         Len(n.addresses) <= NetworkLimit, Len(n.routes) <= NetworkLimit
  PROVE  LoadNetwork(n) = n
<1>1. /\ n = [dhcp |-> n.dhcp, source |-> n.source, addresses |-> n.addresses, routes |-> n.routes]
      /\ n.addresses \in Seq(Values) /\ n.routes \in Seq(Values)
  BY DEF NetworkRecords
<1>2. NetworkLimit \in Nat
  BY LimitsAssumption
<1>3. LoadList(n.addresses, NetworkLimit) = n.addresses /\ LoadList(n.routes, NetworkLimit) = n.routes
  BY <1>1, <1>2, ListKept
<1> QED
  BY <1>1, <1>3 DEF LoadNetwork

(* The words of the commands.                                              *)
Words == UNION {Range(c.options.command) : c \in Clients}

(* A configuration within the limits is read back as it was written.       *)
LEMMA RoundTrips ==
  ASSUME NEW c, Config(c), c.command \in Seq(Words), FitsLimits(c)
  PROVE  LoadConfig(SaveConfig(c)) = c
<1> DEFINE f == SaveConfig(c)
           r == LoadConfig(f)
           ms == [i \in DOMAIN c.mounts |-> SaveMount(c.mounts[i])]
<1>1. /\ c.mounts \in Seq(MountSet) /\ c.disks \in Seq(Disks) /\ c.networks \in Seq(NetSet)
      /\ Tabled(c.envs) /\ Fielded(c) /\ c.command \in Seq(Words)
  BY DEF Config, Listed
<1>2. /\ Len(c.mounts) <= ListLimit /\ Len(c.disks) <= ListLimit /\ Len(c.command) <= ListLimit
      /\ Cardinality(DOMAIN c.envs) <= ListLimit /\ Len(c.networks) <= NetworkLimit
  BY DEF FitsLimits
<1>3. /\ \A i \in DOMAIN c.networks :
            Len(c.networks[i].addresses) <= NetworkLimit /\ Len(c.networks[i].routes) <= NetworkLimit
      /\ \A i \in DOMAIN c.mounts :
            Cardinality(DOMAIN c.mounts[i].includes) <= ListLimit /\ c.mounts[i].usage < 2^(Width - 1)
  BY DEF FitsLimits
<1>4. ListLimit \in Nat /\ NetworkLimit \in Nat
  BY LimitsAssumption
<1>5. /\ Fielded(f) /\ f.mounts = ms /\ f.envs = Entries(c.envs)
      /\ \A x \in ConfigFields \ {"mounts", "envs"} : f[x] = c[x]
  <2>1. f = [c EXCEPT !["mounts"] = ms, !["envs"] = Entries(c.envs)]
    BY DEF SaveConfig
  <2> HIDE DEF ms, f
  <2> QED
    BY <1>1, <2>1 DEF Fielded, ConfigFields
<1> HIDE DEF f
<1> DEFINE nets == LoadList(f.networks, NetworkLimit)
           found == LoadList(f.mounts, ListLimit)
           gotNets == [i \in DOMAIN nets |-> LoadNetwork(nets[i])]
           gotMounts == [i \in DOMAIN found |-> LoadMount(found[i])]
<1>6. r = [f EXCEPT !["networks"] = gotNets, !["mounts"] = gotMounts,
                    !["envs"] = LoadEnvs(f.envs), !["disks"] = LoadDisks(f.disks),
                    !["command"] = LoadCommand(f.command)]
  BY DEF LoadConfig
<1> HIDE DEF r, gotNets, gotMounts
<1>7. /\ Fielded(r) /\ r.networks = gotNets /\ r.mounts = gotMounts /\ r.envs = LoadEnvs(f.envs)
      /\ r.disks = LoadDisks(f.disks) /\ r.command = LoadCommand(f.command)
      /\ \A x \in ConfigFields \ {"networks", "mounts", "envs", "disks", "command"} : r[x] = f[x]
  BY <1>5, <1>6 DEF Fielded, ConfigFields
<1>8. f.networks = c.networks /\ f.disks = c.disks /\ f.command = c.command
  BY <1>5 DEF ConfigFields
<1>9. r.disks = c.disks /\ r.command = c.command
  BY <1>1, <1>2, <1>4, <1>7, <1>8, ListKept DEF LoadDisks, LoadCommand
<1>10. r.envs = c.envs
  <2> DEFINE e == Entries(c.envs)
             V == {<< k, c.envs[k] >> : k \in DOMAIN c.envs}
  <2>1. e \in Seq(V) /\ Len(e) <= ListLimit /\ Table(e) = c.envs
    BY <1>1, <1>2, TableKept
  <2> HIDE DEF e, V
  <2>2. LoadList(e, ListLimit) = e
    BY <1>4, <2>1, ListKept
  <2>3. f.envs = e
    BY <1>5 DEF e
  <2> QED
    BY <1>7, <2>1, <2>2, <2>3 DEF LoadEnvs
<1>11. r.networks = c.networks
  <2>1. nets = c.networks
    BY <1>1, <1>2, <1>4, <1>8, ListKept
  <2>2. /\ DOMAIN c.networks = 1 .. Len(c.networks)
        /\ \A i \in 1 .. Len(c.networks) : c.networks[i] \in NetSet
        /\ c.networks = [i \in DOMAIN c.networks |-> c.networks[i]]
    BY <1>1, LenProperties, ElementOfSeq
  <2>3. NetSet \subseteq NetworkRecords
    BY NetworkParsed DEF NetSet, Accepted
  <2>4. \A i \in DOMAIN c.networks : LoadNetwork(c.networks[i]) = c.networks[i]
    BY <1>3, <2>2, <2>3, NetworkKept
  <2>5. gotNets = [i \in DOMAIN c.networks |-> LoadNetwork(c.networks[i])]
    <3> HIDE DEF nets
    <3> QED
      BY <2>1 DEF gotNets
  <2>6. gotNets = c.networks
    BY <2>2, <2>4, <2>5
  <2> QED
    BY <1>7, <2>6
<1>12. r.mounts = c.mounts
  <2> DEFINE S == {SaveMount(m) : m \in MountSet}
  <2>1. /\ DOMAIN c.mounts = 1 .. Len(c.mounts) /\ Len(c.mounts) \in Nat
        /\ \A i \in 1 .. Len(c.mounts) : c.mounts[i] \in MountSet
        /\ c.mounts = [i \in DOMAIN c.mounts |-> c.mounts[i]]
    BY <1>1, LenProperties, ElementOfSeq
  <2>2. ms \in [1 .. Len(c.mounts) -> S]
    BY <2>1
  <2>3. ms \in Seq(S)
    <3> HIDE DEF ms, S
    <3> QED
      BY <2>1, <2>2, SeqDef
  <2>4. Len(ms) = Len(c.mounts)
    <3> HIDE DEF ms, S
    <3> QED
      BY <2>1, <2>2, <2>3, LenProperties
  <2>5. found = ms
    <3> HIDE DEF ms, S
    <3>1. LoadList(ms, ListLimit) = ms
      BY <1>2, <1>4, <2>3, <2>4, ListKept
    <3> QED
      BY <1>5, <3>1
  <2>6. \A i \in DOMAIN c.mounts : LoadMount(ms[i]) = c.mounts[i]
    BY <1>3, <2>1, MountKept
  <2>7. DOMAIN ms = DOMAIN c.mounts
    OBVIOUS
  <2>8. gotMounts = [i \in DOMAIN ms |-> LoadMount(ms[i])]
    <3> HIDE DEF found, ms
    <3> QED
      BY <2>5 DEF gotMounts
  <2>9. gotMounts = c.mounts
    <3> HIDE DEF ms
    <3> QED
      BY <2>1, <2>6, <2>7, <2>8
  <2> QED
    BY <1>7, <2>9
<1>13. \A x \in ConfigFields : r[x] = c[x]
  BY <1>5, <1>7, <1>9, <1>10, <1>11, <1>12 DEF ConfigFields
<1>14. r = c
  BY <1>1, <1>7, <1>13 DEF Fielded
<1> QED
  BY <1>14 DEF r, f

-----------------------------------------------------------------------------
(* What the guest loads.                                                   *)

(* What the guest has loaded.                                               *)
Loaded == HasLoaded => loaded = LoadConfig(file)

(* The guest loads its configuration once, ...                             *)
LEMMA AfterLoading ==
  ASSUME GuestRuns, HasLoaded'
  PROVE  \/ LoadIt
         \/ HasLoaded /\ loaded' = loaded
<1>1. ~(InsertModules \/ MountRoot \/ MountLine \/ EnterContainer \/ ExecCommon)
  BY DEF HasLoaded, InsertModules, MountRoot, MountLine, EnterContainer, ExecCommon, Failures
<1>2. CASE SetupDiskTag \/ SetupTagsDone
  BY <1>2 DEF HasLoaded, SetupDiskTag, SetupTagsDone
<1>3. CASE SetupCustomEnv \/ SetupNetworkDevice \/ RunInteractive
  BY <1>3 DEF HasLoaded, SetupCustomEnv, SetupNetworkDevice, RunInteractive
<1> QED
  BY <1>1, <1>2, <1>3 DEF GuestRuns

(* ... and only a guest does.                                              *)
LEMMA BeforeLoading ==
  ASSUME Base, ReadsOptions \/ StartSandbox PROVE ~HasLoaded'
<1>1. CASE ReadsOptions
  <2>1. stage' \in Reading \cup {"refused"}
    BY <1>1, OptionSteps DEF Base
  <2> QED
    BY <2>1 DEF HasLoaded, Reading
<1>2. CASE StartSandbox
  <2>1. stage' \in {"refused", "modules", "container"}
    BY <1>2 DEF StartSandbox, Refuses
  <2> QED
    BY <2>1 DEF HasLoaded
<1> QED
  BY <1>1, <1>2

(* What it has loaded stays.                                               *)
LEMMA LoadedStep ==
  ASSUME Base, Loaded, [Next]_vars PROVE Loaded'
<1>1. CASE ReadsOptions \/ StartSandbox
  BY <1>1, BeforeLoading DEF Loaded
<1>2. CASE GuestRuns
  <2>1. file' = file
    BY <1>2, GuestSteps DEF handed
  <2>2. CASE LoadIt
    BY <2>1, <2>2 DEF LoadIt, Loaded
  <2>3. CASE ~LoadIt
    BY <1>2, <2>1, <2>3, AfterLoading DEF Loaded
  <2> QED
    BY <2>2, <2>3
<1>3. CASE UNCHANGED vars
  BY <1>3 DEF vars, handed, guest, Loaded, HasLoaded
<1> QED
  BY <1>1, <1>2, <1>3, Steps

(* No option sets the command again.                                        *)
Worded == config.command \in Seq(Words)

(* Words at the beginning, ...                                             *)
LEMMA WordedInit ==
  ASSUME Init PROVE Worded
<1>1. PICK c \in Clients : config = NewConfig(c.options)
  BY DEF Init
<1> DEFINE w == c.options.command
<1>2. w \in Seq(Range(w)) /\ Range(w) \subseteq Words
  BY OptionsAssumption DEF Words
<1> HIDE DEF w
<1>3. w \in Seq(Words)
  BY <1>2, SeqMonotonic
<1>4. config.command = w
  BY <1>1 DEF NewConfig, w
<1> QED
  BY <1>3, <1>4 DEF Worded

(* ... no option touches them ...                                          *)
LEMMA SameCommand ==
  ASSUME Config(config), ReadsOptions PROVE config'.command = config.command
<1>0. Fielded(config)
  BY DEF Config
<1>1. CASE NextOptions \/ MalformedOption
  BY <1>1 DEF NextOptions, MalformedOption, Refuses, host
<1>2. CASE EnvOption
  BY <1>0, <1>2 DEF EnvOption, Takes, AddEnv, Fielded, ConfigFields
<1>3. CASE DiskOption
  BY <1>0, <1>3 DEF DiskOption, Takes, AddDisk, Fielded, ConfigFields
<1>4. CASE MountOption
  BY <1>0, <1>4 DEF MountOption, Takes, AddMount, Fielded, ConfigFields
<1>5. CASE IncludeOption
  <2>1. PICK i \in Includes : IF Under(config, i.guest) = {} THEN Refuses
                              ELSE Takes(AddHostInclude(config, i.guest, i.host))
    BY <1>5 DEF IncludeOption
  <2>2. \A g, f : AddHostInclude(config, g, f).command = config.command
    BY <1>0 DEF AddHostInclude, Fielded, ConfigFields
  <2> QED
    BY <2>1, <2>2 DEF Refuses, Takes, host
<1>6. CASE NetworkOption
  BY <1>0, <1>6 DEF NetworkOption, Takes, Refuses, host, AddNetwork, Fielded, ConfigFields
<1>7. CASE SecurityOption
  BY <1>0, <1>7 DEF SecurityOption, Refuses, host, SetSecurityOpts, Fielded, ConfigFields
<1> QED
  BY <1>1, <1>2, <1>3, <1>4, <1>5, <1>6, <1>7 DEF ReadsOptions

(* ... and no step does.                                                   *)
LEMMA WordedStep ==
  ASSUME Base, Worded, [Next]_vars PROVE Worded'
<1>1. CASE ReadsOptions
  BY <1>1, SameCommand DEF Base, Worded
<1>2. CASE StartSandbox \/ GuestRuns \/ UNCHANGED vars
  <2>1. config' = config
    BY <1>2, StartStep, GuestSteps DEF host, vars
  <2> QED
    BY <2>1 DEF Worded
<1> QED
  BY <1>1, <1>2, Steps

(* The guest has the configuration of the host.                            *)
LEMMA LoadsWhatWasSaved ==
  ASSUME Base, Loaded, Worded, HasLoaded, FitsLimits(config)
  PROVE  loaded = config
<1>1. file = SaveConfig(config) /\ Config(config)
  BY DEF Base, HasLoaded, Reading, Handed
<1> QED
  BY <1>1, RoundTrips DEF Loaded, Worded

(* What load_config reads in the guest is the configuration save_config    *)
(* wrote on the host, if it is within the limits: lists, hash tables,      *)
(* sizes that went through a gint, for any width of the integers.          *)
THEOREM RoundTripIsLossless ==
  ASSUME ModularTrees
  PROVE  Spec => []RoundTrip
<1>1. Init => Base /\ Loaded /\ Worded
  BY BaseInit, WordedInit DEF Init, Loaded, HasLoaded, OptionStages
<1>2. Base /\ Loaded /\ Worded /\ [Next]_vars => (Base /\ Loaded /\ Worded)'
  BY BaseStep, LoadedStep, WordedStep
<1>3. Base /\ Loaded /\ Worded => RoundTrip
  BY LoadsWhatWasSaved DEF RoundTrip
<1> QED
  BY <1>1, <1>2, <1>3, PTL DEF Spec

-----------------------------------------------------------------------------
(* The environment.                                                        *)

(* The variables that tell who the user is.                                *)
Own == {"USER", "USERNAME", "LOGNAME", "HOME"}

(* Their values.                                                           *)
OwnValue(user, k) == IF k = "HOME" THEN user.home ELSE user.name

(* The environment a configuration asks for.                               *)
EnvGiven(c) ==
  /\ \A k \in DOMAIN c.envs : c.user.name = "root" \/ k \notin Own => environ[k] = c.envs[k]
  /\ c.user.name # "root" => \A k \in Own : environ[k] = OwnValue(c.user, k)

(* The variables that are set, before the user is changed and after.       *)
EnvInv ==
  /\ stage = "net" => \A k \in DOMAIN loaded.envs : k \in DOMAIN environ /\ environ[k] = loaded.envs[k]
  /\ stage = "running" => EnvGiven(loaded)

(* The steps of the guest set them in that order.                          *)
LEMMA EnvGuest ==
  ASSUME EnvInv, GuestRuns PROVE EnvInv'
<1>1. CASE SetupCustomEnv
  <2> DEFINE t == loaded.envs
  <2>1. /\ stage' = "net" /\ loaded' = loaded
        /\ environ' = [k \in DOMAIN t \union DOMAIN environ |-> IF k \in DOMAIN t THEN t[k] ELSE environ[k]]
    BY <1>1 DEF SetupCustomEnv, Setenv
  <2>2. \A k \in DOMAIN t : k \in DOMAIN environ' /\ environ'[k] = t[k]
    BY <2>1
  <2> QED
    BY <2>1, <2>2 DEF EnvInv
<1>2. CASE SetupNetworkDevice
  BY <1>2 DEF SetupNetworkDevice, EnvInv
<1>3. CASE RunInteractive /\ stage' = "running"
  <2> DEFINE user == loaded.user
             id == Identity(user)
  <2>1. stage = "net" /\ loaded' = loaded
    BY <1>3 DEF RunInteractive
  <2>2. environ' = [k \in DOMAIN id \union DOMAIN environ |-> IF k \in DOMAIN id THEN id[k] ELSE environ[k]]
    BY <1>3 DEF RunInteractive, Setenv
  <2>3. CASE user.name = "root"
    <3>1. DOMAIN id = {}
      BY <2>3 DEF Identity
    <3> HIDE DEF id
    <3>2. \A k \in DOMAIN environ : environ'[k] = environ[k]
      BY <2>2, <3>1
    <3>3. \A k \in DOMAIN loaded.envs : environ'[k] = loaded.envs[k]
      BY <2>1, <3>2 DEF EnvInv
    <3> QED
      BY <1>3, <2>1, <2>3, <3>3 DEF EnvInv, EnvGiven
  <2>4. CASE user.name # "root"
    <3>1. id = [k \in Own |-> OwnValue(user, k)]
      BY <2>4 DEF Identity, Own, OwnValue
    <3> HIDE DEF id
    <3>2. DOMAIN id = Own /\ \A k \in Own : id[k] = OwnValue(user, k)
      BY <3>1
    <3>3. \A k \in Own : environ'[k] = OwnValue(user, k)
      BY <2>2, <3>2
    <3>4. \A k \in DOMAIN environ \ Own : environ'[k] = environ[k]
      BY <2>2, <3>2
    <3>5. \A k \in DOMAIN loaded.envs : k \notin Own => environ'[k] = loaded.envs[k]
      BY <2>1, <3>4 DEF EnvInv
    <3> QED
      BY <1>3, <2>1, <2>4, <3>3, <3>5 DEF EnvInv, EnvGiven
  <2> QED
    BY <2>3, <2>4
<1>4. CASE RunInteractive /\ stage' # "running"
  BY <1>4 DEF RunInteractive, EnvInv
<1>5. CASE ~(SetupCustomEnv \/ SetupNetworkDevice \/ RunInteractive)
  <2>1. stage' \notin {"net", "running"}
    <3>1. CASE InsertModules \/ MountRoot \/ MountLine \/ EnterContainer \/ ExecCommon
      BY <3>1 DEF InsertModules, MountRoot, MountLine, EnterContainer, ExecCommon, Failures
    <3>2. CASE LoadIt \/ SetupDiskTag \/ SetupTagsDone
      BY <3>2 DEF LoadIt, SetupDiskTag, SetupTagsDone
    <3> QED
      BY <1>5, <3>1, <3>2 DEF GuestRuns
  <2> QED
    BY <2>1 DEF EnvInv
<1> QED
  BY <1>1, <1>2, <1>3, <1>4, <1>5

(* So does every step.                                                     *)
LEMMA EnvStep ==
  ASSUME Base, EnvInv, [Next]_vars PROVE EnvInv'
<1>1. CASE ReadsOptions \/ StartSandbox
  <2>1. stage' \notin {"net", "running"}
    BY <1>1, BeforeLoading DEF HasLoaded
  <2> QED
    BY <2>1 DEF EnvInv
<1>2. CASE GuestRuns
  BY <1>2, EnvGuest
<1>3. CASE UNCHANGED vars
  BY <1>3 DEF vars, guest, EnvInv, EnvGiven
<1> QED
  BY <1>1, <1>2, <1>3, Steps

(* The application has every variable of --env, and those that tell who    *)
(* the user is from the user, whichever of main, setup_custom_env and      *)
(* change_user set them first.                                             *)
THEOREM EnvironmentIsAsAsked ==
  ASSUME ModularTrees
  PROVE  Spec => []EnvAsAsked
<1>1. Init => Base /\ Loaded /\ Worded /\ EnvInv
  BY BaseInit, WordedInit DEF Init, Loaded, HasLoaded, OptionStages, EnvInv
<1>2. Base /\ Loaded /\ Worded /\ EnvInv /\ [Next]_vars => (Base /\ Loaded /\ Worded /\ EnvInv)'
  BY BaseStep, LoadedStep, WordedStep, EnvStep
<1>3. Base /\ Loaded /\ Worded /\ EnvInv => EnvAsAsked
  <2> SUFFICES ASSUME Base, Loaded, Worded, EnvInv, stage = "running", FitsLimits(config)
               PROVE  EnvAsAsked
    BY DEF EnvAsAsked
  <2>1. loaded = config
    BY LoadsWhatWasSaved DEF HasLoaded
  <2>2. EnvGiven(config)
    BY <2>1 DEF EnvInv
  <2> QED
    BY <2>2 DEF EnvAsAsked, EnvGiven, Own, OwnValue
<1> QED
  BY <1>1, <1>2, <1>3, PTL DEF Spec

-----------------------------------------------------------------------------
(* The networks.                                                           *)

(* The n-th interface of the guest is on the n-th network.                 *)
LEMMA NetworkFound ==
  ASSUME Base, stage \notin Early, NEW k \in 1 .. Len(config.networks)
  PROVE  Found(<< "eth", k - 1 >>) = {<< "host", AskedNetwork(config.networks[k]) >>}
<1>1. Handed /\ Config(config) /\ Listed(config) /\ config.networks \in Seq(NetSet)
  BY DEF Base, Early, Config, Listed
<1>2. CASE Driver = "machine"
  <2>1. Wanted(config) \subseteq drivers
    BY <1>2 DEF Base
  <2>2. /\ k \in 1 .. Len(Sources(config.networks))
        /\ Sources(config.networks)[k] = config.networks[k].source
    BY <1>1, MachineSources
  <2>3. Named(domain.devices, << "eth", k - 1 >>)
          = {Device(<< "eth", k - 1 >>, config.networks[k].source)}
    BY <1>1, <1>2, <2>2, MachineNames DEF Handed
  <2>4. config.networks # << >>
    <3>1. Len(<< >>) = 0
      BY EmptySeq
    <3> QED
      BY <3>1
  <2>5. "virtio_net" \in Wanted(config)
    BY <2>4 DEF Wanted, HasNetworks
  <2>6. Reached(<< "eth", k - 1 >>)
    BY <2>1, <2>5 DEF Reached, DriversOf, Wanted, Common
  <2>7. AskedNetwork(config.networks[k]) = config.networks[k].source
    BY <1>2 DEF AskedNetwork
  <2> QED
    BY <2>3, <2>6, <2>7, FoundNamed
<1>3. CASE Driver = "container"
  <2> DEFINE V == {"default"} \cup {n.source : n \in NetSet}
             q == Sources(config.disks)
             w == [i \in DOMAIN config.networks |->
                     LET source == config.networks[i].source
                     IN  IF source = NoValue THEN "default" ELSE source]
  <2>1. domain.devices = Numbered("sd", q) \cup Numbered("eth", w)
    BY <1>1, <1>3 DEF Handed, Devices, ContainerDisks, ContainerNetworks
  <2>2. /\ DOMAIN config.networks = 1 .. Len(config.networks) /\ Len(config.networks) \in Nat
        /\ \A i \in 1 .. Len(config.networks) : config.networks[i] \in NetSet
    BY <1>1, LenProperties, ElementOfSeq
  <2>3. w \in [1 .. Len(config.networks) -> V] /\ w[k] = AskedNetwork(config.networks[k])
    BY <1>3, <2>2 DEF AskedNetwork
  <2> HIDE DEF q, w, V
  <2>4. w \in Seq(V) /\ Len(w) = Len(config.networks)
    <3>1. w \in Seq(V)
      BY <2>2, <2>3, SeqDef
    <3> QED
      BY <2>2, <2>3, <3>1, LenProperties
  <2>5. \A x \in Numbered("sd", q) : x.dev[1] = "sd"
    BY DEF Numbered
  <2>6. Named(domain.devices, << "eth", k - 1 >>) = Named(Numbered("eth", w), << "eth", k - 1 >>)
    BY <2>1, <2>5 DEF Named
  <2>7. Named(Numbered("eth", w), << "eth", k - 1 >>) = {Device(<< "eth", k - 1 >>, w[k])}
    BY <2>4, NumberedAt DEF Named, Device
  <2>8. Reached(<< "eth", k - 1 >>)
    BY <1>3 DEF Reached
  <2> QED
    BY <2>3, <2>6, <2>7, <2>8, FoundNamed
<1> QED
  BY <1>1, <1>2, <1>3 DEF Handed

(* A list is read up to the limit, an empty one as empty and no other so.  *)
LEMMA ListCut ==
  ASSUME NEW S, NEW s \in Seq(S), NEW limit \in Nat \ {0}
  PROVE  /\ LoadList(s, limit) \in Seq(S)
         /\ Len(LoadList(s, limit)) = IF Len(s) < limit THEN Len(s) ELSE limit
         /\ \A i \in 1 .. Len(LoadList(s, limit)) : i \in 1 .. Len(s) /\ LoadList(s, limit)[i] = s[i]
         /\ LoadList(s, limit) = << >> <=> s = << >>
<1> DEFINE n == IF Len(s) < limit THEN Len(s) ELSE limit
           r == SubSeq(s, 1, n)
<1>1. /\ Len(s) \in Nat /\ n \in Nat /\ n <= Len(s) /\ (n = 0 <=> Len(s) = 0)
      /\ \A i \in 1 .. n : s[i] \in S /\ i \in 1 .. Len(s)
  BY LenProperties, ElementOfSeq
<1> HIDE DEF n
<1>2. r \in Seq(S) /\ Len(r) = n /\ \A i \in 1 .. n : r[i] = s[i]
  BY <1>1, SubSeqProperties
<1>3. LoadList(s, limit) = r
  BY DEF LoadList, n
<1> HIDE DEF r
<1>4. r = << >> <=> s = << >>
  BY <1>1, <1>2, EmptySeq
<1> QED
  BY <1>1, <1>2, <1>3, <1>4 DEF n

(* A network as it is loaded.                                              *)
NetworkRead(n) ==
  /\ n \in NetworkRecords
  /\ n.dhcp => n.addresses = << >> /\ n.routes = << >>
  /\ n.routes # << >> => n.addresses # << >>

(* What was accepted on the host is a network the guest can set up.        *)
LEMMA NetworkIsRead ==
  ASSUME NEW n \in NetSet
  PROVE  /\ NetworkRead(LoadNetwork(n))
         /\ LoadNetwork(n).addresses = LoadList(n.addresses, NetworkLimit)
<1>1. NetworkRead(n)
  <2>1. PICK p \in Networks : ~ParseNetwork(p).bad /\ n = ParseNetwork(p).net
    BY DEF NetSet, Accepted
  <2> QED
    BY <2>1, NetworkParsed DEF NetworkRead
<1> DEFINE a == LoadList(n.addresses, NetworkLimit)
           r == LoadList(n.routes, NetworkLimit)
<1>2. /\ a \in Seq(Values) /\ (a = << >> <=> n.addresses = << >>)
      /\ r \in Seq(Values) /\ (r = << >> <=> n.routes = << >>)
  <2>1. n.addresses \in Seq(Values) /\ n.routes \in Seq(Values) /\ NetworkLimit \in Nat \ {0}
    BY <1>1, LimitsAssumption DEF NetworkRead, NetworkRecords
  <2> QED
    BY <2>1, ListCut
<1> HIDE DEF a, r
<1>3. LoadNetwork(n) = [n EXCEPT !.addresses = a, !.routes = r]
  BY DEF LoadNetwork, a, r
<1>4. LoadNetwork(n) = [dhcp |-> n.dhcp, source |-> n.source, addresses |-> a, routes |-> r]
  BY <1>1, <1>3 DEF NetworkRead, NetworkRecords
<1> QED
  BY <1>1, <1>2, <1>4 DEF NetworkRead, NetworkRecords, a

(* The networks are read in their order, up to the limit.                  *)
LEMMA NetworksLoaded ==
  ASSUME NEW c, Config(c)
  PROVE  LET r == LoadConfig(SaveConfig(c)).networks
         IN  /\ Len(r) = (IF Len(c.networks) < NetworkLimit THEN Len(c.networks) ELSE NetworkLimit)
             /\ Len(r) \in Nat
             /\ \A i \in 1 .. Len(r) : i \in 1 .. Len(c.networks) /\ r[i] = LoadNetwork(c.networks[i])
<1> DEFINE r == LoadConfig(SaveConfig(c)).networks
           l == LoadList(c.networks, NetworkLimit)
<1>1. c.networks \in Seq(NetSet) /\ NetworkLimit \in Nat \ {0}
  BY LimitsAssumption DEF Config, Listed
<1>2. /\ l \in Seq(NetSet)
      /\ Len(l) = IF Len(c.networks) < NetworkLimit THEN Len(c.networks) ELSE NetworkLimit
      /\ \A i \in 1 .. Len(l) : i \in 1 .. Len(c.networks) /\ l[i] = c.networks[i]
  BY <1>1, ListCut
<1>3. SaveConfig(c).networks = c.networks /\ Fielded(SaveConfig(c))
  BY DEF SaveConfig, Config, Fielded, ConfigFields
<1>4. r = [i \in DOMAIN l |-> LoadNetwork(l[i])]
  BY <1>3 DEF LoadConfig, Fielded, ConfigFields
<1> HIDE DEF l, r
<1>5. DOMAIN l = 1 .. Len(l) /\ Len(l) \in Nat
  BY <1>2, LenProperties
<1>6. Len(r) = Len(l)
  BY <1>4, <1>5, Length
<1> QED
  BY <1>2, <1>4, <1>5, <1>6 DEF r

-----------------------------------------------------------------------------
(* The consoles.                                                           *)

(* What sandbox.cfg keeps as it is.                                        *)
LEMMA LoadsSaved ==
  ASSUME NEW c, Config(c)
  PROVE  /\ LoadConfig(SaveConfig(c)).shell = c.shell
         /\ LoadConfig(SaveConfig(c)).user = c.user
  BY DEF LoadConfig, SaveConfig, Config, Fielded, ConfigFields

(* The shell, if one is wanted.                                            *)
Shells == IF config.shell THEN {"shell"} ELSE {}

(* run_interactive can tell a machine from a container.                    *)
ToldApart == Driver = "machine" => LxcName \notin DOMAIN config.envs

(* The port the application is to have.                                    *)
AppPort == IF Driver = "container" /\ config.shell THEN << "console", 2 >> ELSE << "console", 1 >>

(* The environment tells what the guest is.                                *)
Tells == LxcName \in DOMAIN environ <=> Driver = "container"

(* What init-common has opened, in each stage.                             *)
Consoles ==
  ToldApart =>
    /\ stage \in {"tags", "env", "net"} => Tells /\ ttys = [p \in Shells |-> PortOf(ShellNode)]
    /\ stage = "running" =>
          ttys = [p \in Shells \cup {"app"} |-> IF p = "app" THEN AppPort ELSE PortOf(ShellNode)]
    /\ stage # "no console"

(* Nothing is open at the beginning.                                       *)
LEMMA NoneOpen ==
  ASSUME Init PROVE Consoles
  BY DEF Init, OptionStages, Consoles

(* No variable is read that --env did not set.                             *)
LEMMA EnvsRead ==
  ASSUME NEW c, Config(c)
  PROVE  DOMAIN LoadConfig(SaveConfig(c)).envs \subseteq DOMAIN c.envs
<1> DEFINE t == c.envs
           e == Entries(t)
           V == {<< k, t[k] >> : k \in DOMAIN t}
           f == LoadList(e, ListLimit)
<1>1. LoadConfig(SaveConfig(c)).envs = Table(f)
  BY DEF LoadConfig, SaveConfig, LoadEnvs, Config, Fielded, ConfigFields
<1>2. e \in Seq(V) /\ ListLimit \in Nat \ {0}
  BY TableKept, LimitsAssumption DEF Config
<1> HIDE DEF e, V
<1>3. f \in Seq(V)
  BY <1>2, ListCut
<1> HIDE DEF f
<1>4. DOMAIN f = 1 .. Len(f) /\ \A i \in 1 .. Len(f) : f[i] \in V
  BY <1>3, LenProperties, ElementOfSeq
<1>5. \A i \in DOMAIN f : f[i][1] \in DOMAIN t
  BY <1>4 DEF V
<1>6. DOMAIN Table(f) = {f[i][1] : i \in DOMAIN f}
  BY DEF Table
<1> QED
  BY <1>1, <1>5, <1>6

(* The guest reads whether there is a shell.                               *)
LEMMA ShellLoaded ==
  ASSUME Base, HasLoaded, loaded = LoadConfig(file) PROVE loaded.shell = config.shell
<1>1. Handed /\ Config(config)
  BY DEF Base, HasLoaded, Reading
<1> QED
  BY <1>1, LoadsSaved DEF Handed

(* The console of the application is there.                                *)
LEMMA PortThere ==
  ASSUME Base, HasLoaded, loaded = LoadConfig(file), Tells
  PROVE  /\ PortOf(AppNode) = AppPort
         /\ AppPort \in domain.ports /\ Reached(AppPort)
<1>1. loaded.shell = config.shell /\ Handed
  BY ShellLoaded DEF Base, HasLoaded, Reading
<1>2. CASE Driver = "machine"
  <2>1. Wanted(config) \subseteq drivers
    BY <1>2 DEF Base, HasLoaded, Early, Reading
  <2>2. PortOf(AppNode) = << "console", 1 >> /\ AppPort = << "console", 1 >>
    BY <1>2 DEF PortOf, AppNode, AppPort, Tells
  <2>3. << "console", 1 >> \in domain.ports
    BY <1>1, <1>2 DEF Handed, Ports
  <2>4. Reached(<< "console", 1 >>)
    BY <2>1 DEF Reached, DriversOf, Wanted, Common
  <2> QED
    BY <2>2, <2>3, <2>4
<1>3. CASE Driver = "container"
  <2>1. \A port : Reached(port)
    BY <1>3 DEF Reached
  <2>2. domain.ports = {<< "console", i >> : i \in 0 .. (IF config.shell THEN 2 ELSE 1)}
    BY <1>1, <1>3 DEF Handed, Ports
  <2>3. CASE config.shell
    <3>1. PortOf(AppNode) = << "console", 2 >> /\ AppPort = << "console", 2 >>
      BY <1>1, <1>3, <2>3 DEF PortOf, AppNode, AppPort, Tells
    <3>2. 2 \in 0 .. 2
      OBVIOUS
    <3> QED
      BY <2>1, <2>2, <2>3, <3>1, <3>2
  <2>4. CASE ~config.shell
    <3>1. PortOf(AppNode) = << "console", 1 >> /\ AppPort = << "console", 1 >>
      BY <1>1, <1>3, <2>4 DEF PortOf, AppNode, AppPort, Tells
    <3>2. 1 \in 0 .. 1
      OBVIOUS
    <3> QED
      BY <2>1, <2>2, <2>4, <3>1, <3>2
  <2> QED
    BY <2>3, <2>4
<1> QED
  BY <1>1, <1>2, <1>3 DEF Handed

(* The steps of the guest open the consoles in their order.                *)
LEMMA ConsolesGuest ==
  ASSUME Base, Loaded, Consoles, GuestRuns PROVE Consoles'
<1>1. config' = config /\ Driver' = Driver
  BY GuestSteps DEF host, Driver
<1>2. ToldApart' = ToldApart /\ Shells' = Shells /\ ShellNode' = ShellNode /\ AppPort' = AppPort
  BY <1>1 DEF ToldApart, Shells, ShellNode, AppPort
<1>3. \A node : PortOf(node)' = PortOf(node)
  BY <1>1 DEF PortOf
<1> SUFFICES ASSUME ToldApart PROVE Consoles'
  BY <1>2 DEF Consoles
<1>4. CASE InsertModules \/ EnterContainer \/ ExecCommon
  BY <1>4 DEF InsertModules, EnterContainer, ExecCommon, Consoles
<1>5. CASE MountRoot \/ MountLine
  BY <1>5 DEF MountRoot, MountLine, Consoles, Failures
<1>6. CASE LoadIt
  <2>1. /\ stage = "load" /\ stage' = "tags"
        /\ environ' = [k \in {"PATH"} \union (IF Driver = "container" THEN {LxcName} ELSE {}) |->
                           IF k = "PATH" THEN "default" ELSE "sandbox"]
        /\ ttys' = [p \in IF LoadConfig(file).shell THEN {"shell"} ELSE {} |-> PortOf(ShellNode)]
    BY <1>6 DEF LoadIt
  <2>2. Handed /\ Config(config)
    BY <2>1 DEF Base, Reading
  <2>3. LoadConfig(file).shell = config.shell
    BY <2>2, LoadsSaved DEF Handed
  <2>4. ttys' = [p \in Shells' |-> PortOf(ShellNode)']
    BY <1>2, <1>3, <2>1, <2>3 DEF Shells
  <2>5. Tells'
    <3>1. DOMAIN environ' = {"PATH"} \union (IF Driver = "container" THEN {LxcName} ELSE {})
      BY <2>1
    <3>2. LxcName # "PATH"
      BY DEF LxcName
    <3> QED
      BY <1>1, <3>1, <3>2 DEF Tells
  <2> QED
    BY <2>1, <2>4, <2>5 DEF Consoles
<1>7. CASE SetupDiskTag \/ SetupTagsDone \/ SetupNetworkDevice
  <2>1. /\ stage \in {"tags", "env", "net"} /\ ttys' = ttys /\ environ' = environ
        /\ stage' \in {"tags", "env", "net", "tag taken", "no network"}
    BY <1>7 DEF SetupDiskTag, SetupTagsDone, SetupNetworkDevice
  <2>2. Tells /\ ttys = [p \in Shells |-> PortOf(ShellNode)]
    BY <2>1 DEF Consoles
  <2> QED
    BY <1>1, <1>2, <1>3, <2>1, <2>2 DEF Consoles, Tells
<1>8. CASE SetupCustomEnv
  <2>1. /\ stage = "env" /\ stage' = "net" /\ ttys' = ttys
        /\ DOMAIN environ' = DOMAIN loaded.envs \union DOMAIN environ
    BY <1>8 DEF SetupCustomEnv, Setenv
  <2>2. Tells /\ ttys = [p \in Shells |-> PortOf(ShellNode)]
    BY <2>1 DEF Consoles
  <2>3. DOMAIN loaded.envs \subseteq DOMAIN config.envs
    <3>1. Handed /\ Config(config) /\ loaded = LoadConfig(file)
      BY <2>1 DEF Base, Reading, Loaded, HasLoaded
    <3> QED
      BY <3>1, EnvsRead DEF Handed
  <2>4. Driver \in {"machine", "container"}
    BY <2>1 DEF Base, Reading, Handed
  <2>5. Tells'
    BY <1>1, <2>1, <2>2, <2>3, <2>4 DEF Tells, ToldApart
  <2> QED
    BY <1>2, <1>3, <2>1, <2>2, <2>5 DEF Consoles
<1>9. CASE RunInteractive
  <2>1. HasLoaded /\ loaded = LoadConfig(file) /\ stage = "net"
    BY <1>9 DEF RunInteractive, Loaded, HasLoaded
  <2>2. Tells /\ ttys = [p \in Shells |-> PortOf(ShellNode)]
    BY <2>1 DEF Consoles
  <2>3. PortOf(AppNode) = AppPort /\ AppPort \in domain.ports /\ Reached(AppPort)
    BY <2>1, <2>2, PortThere
  <2>4. /\ stage' = "running"
        /\ ttys' = [p \in DOMAIN ttys \cup {"app"} |-> IF p = "app" THEN AppPort ELSE ttys[p]]
    BY <1>9, <2>3 DEF RunInteractive
  <2>5. ttys' = [p \in Shells \cup {"app"} |-> IF p = "app" THEN AppPort ELSE PortOf(ShellNode)]
    BY <2>2, <2>4 DEF Shells
  <2> QED
    BY <1>2, <1>3, <2>4, <2>5 DEF Consoles
<1> QED
  BY <1>4, <1>5, <1>6, <1>7, <1>8, <1>9 DEF GuestRuns

(* So does every step.                                                     *)
LEMMA ConsolesStep ==
  ASSUME Base, Loaded, Consoles, [Next]_vars PROVE Consoles'
<1>1. CASE ReadsOptions \/ StartSandbox
  <2>1. ~HasLoaded'
    BY <1>1, BeforeLoading
  <2>2. stage' \notin {"tags", "env", "net", "running", "no console"}
    <3>1. stage' \notin {"tags", "env", "net", "running"}
      BY <2>1 DEF HasLoaded
    <3>2. stage' # "no console"
      BY <1>1, OptionSteps DEF StartSandbox, Refuses, Base, Reading
    <3> QED
      BY <3>1, <3>2
  <2> QED
    BY <2>2 DEF Consoles
<1>2. CASE UNCHANGED vars
  <2>1. Driver' = Driver /\ config' = config /\ UNCHANGED << stage, environ, ttys >>
    BY <1>2 DEF vars, host, guest, Driver
  <2>2. /\ ToldApart' = ToldApart /\ Tells' = Tells /\ Shells' = Shells /\ AppPort' = AppPort
        /\ PortOf(ShellNode)' = PortOf(ShellNode)
    BY <2>1 DEF ToldApart, Tells, Shells, ShellNode, AppPort, PortOf
  <2> QED
    BY <2>1, <2>2 DEF Consoles
<1> QED
  BY <1>1, <1>2, ConsolesGuest, Steps

(* Then client and guest mean the same consoles.                           *)
LEMMA ConsolesAgree ==
  ASSUME Base, Loaded, Consoles PROVE ConsolesMeet
<1> SUFFICES ASSUME ToldApart, stage = "running"
             PROVE  /\ ttys["app"] = AppConsole
                    /\ config.shell => ttys["shell"] = ShellConsole
                    /\ LogConsole \in domain.ports \ Range(ttys)
                    /\ Range(ttys) \subseteq domain.ports
                    /\ config.shell => AppConsole # ShellConsole
  BY DEF ConsolesMeet, Consoles, ToldApart
<1>1. Handed
  BY DEF Base, Reading
<1>2. ttys = [p \in Shells \cup {"app"} |-> IF p = "app" THEN AppPort ELSE PortOf(ShellNode)]
  BY DEF Consoles
<1>3. /\ ttys["app"] = AppPort
      /\ config.shell => ttys["shell"] = PortOf(ShellNode)
      /\ Range(ttys) = {AppPort} \cup (IF config.shell THEN {PortOf(ShellNode)} ELSE {})
  BY <1>2 DEF Shells, Range
<1>4. CASE Driver = "machine"
  <2>1. ~OnLxc
    BY <1>4 DEF Driver, Builder, OnLxc
  <2>2. AppPort = << "console", 1 >> /\ PortOf(ShellNode) = << "serial", 1 >>
    BY <1>4 DEF PortOf, AppPort, ShellNode
  <2>3. domain.ports = {<< "console", 0 >>, << "serial", 0 >>, << "console", 1 >>}
                         \cup (IF config.shell THEN {<< "serial", 1 >>} ELSE {})
    BY <1>1, <1>4 DEF Handed, Ports
  <2>4. /\ AppConsole = << "console", 1 >> /\ ShellConsole = << "serial", 1 >>
        /\ LogConsole = << "serial", 0 >>
    BY <2>1 DEF AppConsole, ShellConsole, LogConsole
  <2>5. LogConsole # AppConsole /\ LogConsole # ShellConsole /\ AppConsole # ShellConsole
    BY <2>4
  <2> QED
    BY <1>3, <2>2, <2>3, <2>4, <2>5
<1>5. CASE Driver = "container"
  <2>1. OnLxc
    BY <1>5 DEF Driver, Builder, OnLxc, NoValue
  <2>2. /\ AppPort = IF config.shell THEN << "console", 2 >> ELSE << "console", 1 >>
        /\ PortOf(ShellNode) = << "console", 1 >>
    BY <1>1, <1>5 DEF PortOf, AppPort, ShellNode
  <2>3. domain.ports = {<< "console", i >> : i \in 0 .. (IF config.shell THEN 2 ELSE 1)}
    BY <1>1, <1>5 DEF Handed, Ports
  <2>4. /\ 0 \in 0 .. 1 /\ 1 \in 0 .. 1 /\ 0 \in 0 .. 2 /\ 1 \in 0 .. 2 /\ 2 \in 0 .. 2
    OBVIOUS
  <2>5. /\ << "console", 0 >> \in domain.ports /\ << "console", 1 >> \in domain.ports
        /\ config.shell => << "console", 2 >> \in domain.ports
    BY <2>3, <2>4
  <2>6. /\ AppConsole = IF config.shell THEN << "console", 2 >> ELSE << "console", 1 >>
        /\ ShellConsole = << "console", 1 >> /\ LogConsole = << "console", 0 >>
    BY <2>1 DEF AppConsole, ShellConsole, LogConsole
  <2>7. << "console", 0 >> # << "console", 1 >> /\ << "console", 0 >> # << "console", 2 >>
        /\ << "console", 1 >> # << "console", 2 >>
    OBVIOUS
  <2> QED
    BY <1>3, <2>2, <2>5, <2>6, <2>7
<1> QED
  BY <1>1, <1>4, <1>5 DEF Handed

(* The client talks to the application's console and shell, and the guest  *)
(* has opened the same ones: the order of the builders' consoles, the      *)
(* nodes of init-common and the names of the contexts agree for both       *)
(* drivers, unless --env gives a machine the variable of a container.      *)
THEOREM ConsolesAreMet ==
  ASSUME ModularTrees
  PROVE  Spec => []ConsolesMeet
<1> DEFINE Inv == Base /\ Loaded /\ Consoles
<1>1. Init => Inv
  BY BaseInit, NoneOpen DEF Init, Loaded, HasLoaded, OptionStages
<1>2. Inv /\ [Next]_vars => Inv'
  BY BaseStep, LoadedStep, ConsolesStep
<1>3. Inv => ConsolesMeet
  BY ConsolesAgree
<1> QED
  BY <1>1, <1>2, <1>3, PTL DEF Spec

-----------------------------------------------------------------------------
(* The number of options.                                                  *)

(* A mount with an include more.                                           *)
Including(m, dst, hostfile) ==
  [m EXCEPT !.includes =
     [d \in DOMAIN m.includes \union {dst} |-> IF d = dst THEN hostfile ELSE m.includes[d]]]

(* An include goes to the first mount its path is below, and changes       *)
(* nothing else.                                                           *)
LEMMA IncludeAdded ==
  ASSUME NEW c, Config(c), NEW i \in Includes, Under(c, i.guest) # {}
  PROVE  \E n \in 1 .. Len(c.mounts) :
            /\ n \in Under(c, i.guest) /\ \A l \in Under(c, i.guest) : n <= l
            /\ AddHostInclude(c, i.guest, i.host)
                 = [c EXCEPT !["mounts"] =
                     [c.mounts EXCEPT ![n] =
                        Including(c.mounts[n], RelGuest(c.mounts[n].target, i.guest), i.host)]]
<1> DEFINE n == CHOOSE k \in Under(c, i.guest) : \A l \in Under(c, i.guest) : k <= l
           m == c.mounts[n]
           dst == RelGuest(m.target, i.guest)
           t == [d \in DOMAIN m.includes \union {dst} |-> IF d = dst THEN i.host ELSE m.includes[d]]
           new == [m EXCEPT !.includes = t]
           d == AddHostInclude(c, i.guest, i.host)
<1>1. c.mounts \in Seq(MountSet)
  BY DEF Config, Listed
<1>2. DOMAIN c.mounts = 1 .. Len(c.mounts) /\ Len(c.mounts) \in Nat
  BY <1>1, LenProperties
<1>3. n \in 1 .. Len(c.mounts) /\ n \in Under(c, i.guest) /\ \A l \in Under(c, i.guest) : n <= l
  <2>1. Under(c, i.guest) \subseteq Nat /\ Under(c, i.guest) \subseteq 1 .. Len(c.mounts)
    BY <1>2 DEF Under
  <2> DEFINE U == Under(c, i.guest)
  <2>2. U \in SUBSET Nat /\ U # {}
    BY <2>1
  <2>3. n = CHOOSE k \in U : \A l \in U : k <= l
    OBVIOUS
  <2> HIDE DEF U, n
  <2>4. \E k \in U : \A l \in U : k <= l
    BY ONLY <2>2, LeastOf
  <2>5. n \in U /\ \A l \in U : n <= l
    BY ONLY <2>3, <2>4
  <2> QED
    BY ONLY <2>1, <2>5 DEF U
<1> HIDE DEF t
<1>4. d = [c EXCEPT !["mounts"] = [c.mounts EXCEPT ![n] = new]]
  BY DEF AddHostInclude, t
<1>5. new = Including(m, dst, i.host)
  BY DEF Including, t
<1> HIDE DEF new, n, d
<1> QED
  BY <1>3, <1>4, <1>5 DEF d

(* A configuration with one list changed.                                  *)
With(c, f, v) == [c EXCEPT ![f] = v]

(* The other lists are what they were.                                     *)
LEMMA SetList ==
  ASSUME NEW c, Fielded(c), NEW v
  PROVE  /\ /\ With(c, "mounts", v).mounts = v
            /\ With(c, "mounts", v).disks = c.disks
            /\ With(c, "mounts", v).networks = c.networks
         /\ /\ With(c, "disks", v).disks = v
            /\ With(c, "disks", v).mounts = c.mounts
            /\ With(c, "disks", v).networks = c.networks
         /\ /\ With(c, "networks", v).networks = v
            /\ With(c, "networks", v).mounts = c.mounts
            /\ With(c, "networks", v).disks = c.disks
  BY DEF Fielded, ConfigFields, With

(* An include makes no list longer.                                        *)
LEMMA IncludeLength ==
  ASSUME NEW c, Config(c), NEW i \in Includes, Under(c, i.guest) # {}
  PROVE  LET d == AddHostInclude(c, i.guest, i.host)
         IN  Len(d.mounts) = Len(c.mounts) /\ d.disks = c.disks /\ d.networks = c.networks
<1>1. PICK n \in 1 .. Len(c.mounts) :
         AddHostInclude(c, i.guest, i.host)
                 = [c EXCEPT !["mounts"] =
                     [c.mounts EXCEPT ![n] =
                        Including(c.mounts[n], RelGuest(c.mounts[n].target, i.guest), i.host)]]
  BY IncludeAdded
<1> DEFINE s == c.mounts
           new == Including(c.mounts[n], RelGuest(c.mounts[n].target, i.guest), i.host)
           d == AddHostInclude(c, i.guest, i.host)
           q == [s EXCEPT ![n] = new]
<1>2. s \in Seq(MountSet) /\ DOMAIN s = 1 .. Len(s) /\ Len(s) \in Nat
  BY LenProperties DEF Config, Listed
<1>3. Config(d) /\ d.mounts \in Seq(MountSet)
  BY IncludeTyped DEF Config, Listed
<1>4. d = With(c, "mounts", q)
  BY <1>1 DEF With
<1> HIDE DEF q, d, new, s
<1>5. d.mounts = q /\ d.disks = c.disks /\ d.networks = c.networks
  BY <1>4, SetList DEF Config
<1>6. DOMAIN q = DOMAIN s
  BY DEF q
<1>7. Len(q) = Len(s)
  BY <1>2, <1>3, <1>5, <1>6, LenProperties
<1> QED
  BY <1>5, <1>7 DEF d, s

(* Every element of the lists, and every line read, was an option.         *)
Counted ==
  /\ given \in 0 .. MaxOptions
  /\ Len(config.mounts) \in 0 .. given /\ Len(config.disks) \in 0 .. given
  /\ Len(config.networks) \in 0 .. given
  /\ line \in 1 .. given + 1

(* None at the beginning.                                                  *)
LEMMA CountedInit ==
  ASSUME Init PROVE Counted
<1>1. PICK c \in Clients : config = NewConfig(c.options)
  BY DEF Init
<1>2. Len(config.mounts) = 0 /\ Len(config.disks) = 0 /\ Len(config.networks) = 0
  BY <1>1, EmptySeq DEF NewConfig
<1>3. given = 0 /\ line = 1 /\ MaxOptions \in Nat
  BY HandOverAssumption DEF Init
<1> QED
  BY <1>2, <1>3 DEF Counted

(* No list is more than one longer.                                        *)
Lengthened(c, d) ==
  /\ Len(d.mounts) \in {Len(c.mounts), Len(c.mounts) + 1}
  /\ Len(d.disks) \in {Len(c.disks), Len(c.disks) + 1}
  /\ Len(d.networks) \in {Len(c.networks), Len(c.networks) + 1}

(* Each option makes one list longer, if any.                              *)
LEMMA OneMore ==
  ASSUME NEW c, Config(c)
  PROVE  /\ \A m \in MountSet : Lengthened(c, AddMount(c, m))
         /\ \A m \in Disks : Lengthened(c, AddDisk(c, m))
         /\ \A m \in NetSet : Lengthened(c, AddNetwork(c, m))
         /\ \A k, v : Lengthened(c, AddEnv(c, k, v))
         /\ \A k, v : Lengthened(c, SetSecurityOpts(c, k, v))
         /\ \A i \in Includes : Under(c, i.guest) # {} => Lengthened(c, AddHostInclude(c, i.guest, i.host))
<1>1. /\ Fielded(c) /\ c.mounts \in Seq(MountSet) /\ c.disks \in Seq(Disks)
      /\ c.networks \in Seq(NetSet)
  BY DEF Config, Listed
<1>2. ASSUME NEW m \in MountSet PROVE Lengthened(c, AddMount(c, m))
  <2> DEFINE v == Append(c.mounts, m)
  <2>1. AddMount(c, m) = With(c, "mounts", v)
    BY DEF AddMount, With
  <2> HIDE DEF v
  <2>2. /\ AddMount(c, m).mounts = v
        /\ AddMount(c, m).disks = c.disks /\ AddMount(c, m).networks = c.networks
    BY <1>1, <2>1, SetList
  <2> QED
    BY <1>1, <2>2, AppendProperties DEF Lengthened, v
<1>3. ASSUME NEW m \in Disks PROVE Lengthened(c, AddDisk(c, m))
  <2> DEFINE v == Append(c.disks, m)
  <2>1. AddDisk(c, m) = With(c, "disks", v)
    BY DEF AddDisk, With
  <2> HIDE DEF v
  <2>2. /\ AddDisk(c, m).disks = v
        /\ AddDisk(c, m).mounts = c.mounts /\ AddDisk(c, m).networks = c.networks
    BY <1>1, <2>1, SetList
  <2> QED
    BY <1>1, <2>2, AppendProperties DEF Lengthened, v
<1>4. ASSUME NEW m \in NetSet PROVE Lengthened(c, AddNetwork(c, m))
  <2> DEFINE v == Append(c.networks, m)
  <2>1. AddNetwork(c, m) = With(c, "networks", v)
    BY DEF AddNetwork, With
  <2> HIDE DEF v
  <2>2. /\ AddNetwork(c, m).networks = v
        /\ AddNetwork(c, m).mounts = c.mounts /\ AddNetwork(c, m).disks = c.disks
    BY <1>1, <2>1, SetList
  <2> QED
    BY <1>1, <2>2, AppendProperties DEF Lengthened, v
<1>5. ASSUME NEW k, NEW v PROVE Lengthened(c, AddEnv(c, k, v))
  BY <1>1 DEF AddEnv, Lengthened, Fielded, ConfigFields
<1>6. ASSUME NEW k, NEW v PROVE Lengthened(c, SetSecurityOpts(c, k, v))
  BY <1>1 DEF SetSecurityOpts, Lengthened, Fielded, ConfigFields
<1>7. ASSUME NEW i \in Includes, Under(c, i.guest) # {}
      PROVE Lengthened(c, AddHostInclude(c, i.guest, i.host))
  BY <1>7, IncludeLength DEF Lengthened
<1> QED
  BY <1>2, <1>3, <1>4, <1>5, <1>6, <1>7

(* So the options count them.                                              *)
LEMMA CountedOptions ==
  ASSUME Base, Counted, ReadsOptions PROVE Counted'
<1>1. Config(config) /\ line' = line /\ MaxOptions \in Nat
  BY OptionSteps, HandOverAssumption DEF Base, guest
<1>2. CASE given' = given /\ config' = config
  BY <1>1, <1>2 DEF Counted
<1>3. CASE given < MaxOptions /\ given' = given + 1 /\ Lengthened(config, config')
  <2> DEFINE a == Len(config.mounts)
             b == Len(config.disks)
             d == Len(config.networks)
             x == Len(config'.mounts)
             y == Len(config'.disks)
             z == Len(config'.networks)
  <2>1. a \in 0 .. given /\ b \in 0 .. given /\ d \in 0 .. given
    BY DEF Counted
  <2>2. x \in {a, a + 1} /\ y \in {b, b + 1} /\ z \in {d, d + 1}
    BY <1>3 DEF Lengthened
  <2> HIDE DEF a, b, d, x, y, z
  <2>3. given \in 0 .. MaxOptions /\ line \in 1 .. given + 1
    BY DEF Counted
  <2>4. x \in 0 .. given + 1 /\ y \in 0 .. given + 1 /\ z \in 0 .. given + 1
    BY <2>1, <2>2, <2>3
  <2>5. given + 1 \in 0 .. MaxOptions /\ line \in 1 .. (given + 1) + 1
    BY <1>1, <1>3, <2>3
  <2> QED
    BY <1>1, <1>3, <2>4, <2>5 DEF Counted, x, y, z
<1>4. CASE NextOptions \/ MalformedOption
  BY <1>2, <1>4 DEF NextOptions, MalformedOption, Refuses, host
<1>5. CASE EnvOption
  BY <1>1, <1>3, <1>5, OneMore DEF EnvOption, Takes, InStage
<1>6. CASE DiskOption
  BY <1>1, <1>3, <1>6, OneMore DEF DiskOption, Takes, InStage
<1>7. CASE MountOption
  <2>1. PICK m \in Mounts : Takes(AddMount(config, [m EXCEPT !.usage = OptionUsage(@)]))
    BY <1>7 DEF MountOption
  <2>2. [m EXCEPT !.usage = OptionUsage(@)] \in MountSet
    BY OptionMount
  <2>3. Lengthened(config, config')
    BY <1>1, <2>1, <2>2, OneMore DEF Takes
  <2> QED
    BY <1>3, <1>7, <2>1, <2>3 DEF MountOption, Takes, InStage
<1>8. CASE IncludeOption
  <2>1. PICK i \in Includes : IF Under(config, i.guest) = {} THEN Refuses
                              ELSE Takes(AddHostInclude(config, i.guest, i.host))
    BY <1>8 DEF IncludeOption
  <2>2. CASE Refuses
    BY <1>2, <2>2 DEF Refuses, host
  <2>3. CASE ~Refuses
    BY <1>1, <1>3, <1>8, <2>1, <2>3, OneMore DEF IncludeOption, Takes, InStage
  <2> QED
    BY <2>2, <2>3
<1>9. CASE NetworkOption
  <2>1. PICK p \in Networks : \/ Refuses
                              \/ /\ ~ParseNetwork(p).bad
                                 /\ Takes(AddNetwork(config, ParseNetwork(p).net))
    BY <1>9 DEF NetworkOption
  <2>2. CASE Refuses
    BY <1>2, <2>2 DEF Refuses, host
  <2>3. CASE ~Refuses
    <3>1. ParseNetwork(p).net \in NetSet /\ Takes(AddNetwork(config, ParseNetwork(p).net))
      BY <2>1, <2>3 DEF NetSet, Accepted
    <3> QED
      BY <1>1, <1>3, <1>9, <3>1, OneMore DEF NetworkOption, Takes, InStage
  <2> QED
    BY <2>2, <2>3
<1>10. CASE SecurityOption
  <2>1. CASE Refuses
    BY <1>2, <2>1 DEF Refuses, host
  <2>2. CASE ~Refuses
    <3>1. given' = given + 1 /\ \E k, v : config' = SetSecurityOpts(config, k, v)
      BY <1>10, <2>2 DEF SecurityOption
    <3>2. given < MaxOptions
      BY <1>10 DEF SecurityOption, InStage
    <3>3. Lengthened(config, config')
      BY <1>1, <3>1, OneMore
    <3> QED
      BY <1>3, <3>1, <3>2, <3>3
  <2> QED
    BY <2>1, <2>2
<1> QED
  BY <1>4, <1>5, <1>6, <1>7, <1>8, <1>9, <1>10 DEF ReadsOptions

(* The guest reads no further than the lists.                              *)
LEMMA CountedGuest ==
  ASSUME Base, Loaded, Counted, GuestRuns PROVE Counted'
<1>1. UNCHANGED << host, handed >> /\ MaxOptions \in Nat
  BY GuestSteps, HandOverAssumption
<1>2. config' = config /\ given' = given
  BY <1>1 DEF host
<1>3. line \in 1 .. given + 1 /\ given \in Nat
  BY <1>1 DEF Counted
<1>4. ASSUME line' \in 1 .. given + 1 PROVE Counted'
  BY <1>2, <1>4 DEF Counted
<1>5. CASE line' = line \/ line' = 1
  <2>1. 1 \in 1 .. given + 1
    BY <1>3
  <2> QED
    BY <1>3, <1>4, <1>5, <2>1
<1>6. ASSUME NEW n \in 0 .. given, line <= n, line' = line + 1 PROVE Counted'
  <2>1. line' \in 1 .. given + 1
    BY <1>3, <1>6
  <2> QED
    BY <1>4, <2>1
<1>7. CASE MountLine
  <2>1. stage = "mount" /\ line <= Len(mountsCfg) /\ line' = line + 1
    BY <1>7 DEF MountLine
  <2>2. Handed /\ Config(config)
    BY <2>1 DEF Base, Reading
  <2>3. Len(mountsCfg) \in {Len(config.mounts), 0}
    BY <2>2, MountsLength DEF Handed
  <2>4. Len(mountsCfg) \in 0 .. given
    BY <1>3, <2>3 DEF Counted
  <2> QED
    BY <1>6, <2>1, <2>4
<1>8. CASE SetupDiskTag
  <2>1. stage = "tags" /\ line <= Len(disksCfg) /\ line' = line + 1
    BY <1>8 DEF SetupDiskTag
  <2>2. Handed /\ config.disks \in Seq(Disks)
    BY <2>1 DEF Base, Reading, Config, Listed
  <2>3. Len(disksCfg) \in 0 .. given
    BY <2>2, DisksLength DEF Counted
  <2> QED
    BY <1>6, <2>1, <2>3
<1>9. CASE SetupNetworkDevice
  <2> DEFINE r == LoadConfig(SaveConfig(config)).networks
             w == config.networks
  <2>1. stage = "net" /\ line <= Len(loaded.networks) /\ line' = line + 1
    BY <1>9 DEF SetupNetworkDevice
  <2>2. Handed /\ Config(config)
    BY <2>1 DEF Base, Reading
  <2>3. loaded.networks = r
    BY <2>1, <2>2 DEF Loaded, HasLoaded, Handed
  <2>4. Len(r) = (IF Len(w) < NetworkLimit THEN Len(w) ELSE NetworkLimit) /\ Len(r) \in Nat
    BY <2>2, NetworksLoaded
  <2>5. Len(w) \in 0 .. given /\ NetworkLimit \in Nat
    BY LimitsAssumption DEF Counted
  <2> HIDE DEF r, w
  <2>6. Len(r) \in 0 .. given
    BY <1>3, <2>4, <2>5
  <2> QED
    BY <1>6, <2>1, <2>3, <2>6
<1>10. CASE ~(MountLine \/ SetupDiskTag \/ SetupNetworkDevice)
  <2>1. CASE InsertModules \/ MountRoot \/ EnterContainer \/ ExecCommon
    BY <1>5, <2>1 DEF InsertModules, MountRoot, EnterContainer, ExecCommon, guest
  <2>2. CASE LoadIt \/ SetupTagsDone \/ SetupCustomEnv \/ RunInteractive
    BY <1>5, <2>2 DEF LoadIt, SetupTagsDone, SetupCustomEnv, RunInteractive
  <2> QED
    BY <1>10, <2>1, <2>2 DEF GuestRuns
<1> QED
  BY <1>7, <1>8, <1>9, <1>10

(* So does every step.                                                     *)
LEMMA CountedStep ==
  ASSUME Base, Loaded, Counted, [Next]_vars PROVE Counted'
<1>1. CASE StartSandbox \/ UNCHANGED vars
  <2>1. UNCHANGED << host, guest >>
    BY <1>1, StartStep DEF vars
  <2> QED
    BY <2>1 DEF host, guest, Counted
<1> QED
  BY <1>1, CountedOptions, CountedGuest, Steps

(* Nothing is mounted where no option asked for it.                        *)
Targeted == {mounted[i].target : i \in DOMAIN mounted} \subseteq Targets

(* Every step keeps that.                                                  *)
LEMMA TargetedStep ==
  ASSUME Base, MountsInv, Targeted, [Next]_vars PROVE Targeted'
<1>1. CASE mounted' = mounted
  BY <1>1 DEF Targeted
<1>2. CASE MountLine
  <2>1. /\ stage = "mount" /\ line <= Len(mountsCfg)
        /\ \/ mounted' = mounted
           \/ \E what : mounted' = Append(mounted, [target |-> mountsCfg[line].target, what |-> what])
    BY <1>2 DEF MountLine
  <2>2. MachineReady /\ line \in 1 .. Len(config.mounts)
        /\ mountsCfg[line].target = config.mounts[line].target
    BY <2>1, LinesFound
  <2>3. config.mounts[line] \in MountSet /\ Driver = "machine"
    BY <2>2, ElementOfSeq DEF MachineReady, Config, Listed
  <2>4. config.mounts[line].target \in Targets
    BY <2>3 DEF MountSet, Targets
  <2>5. mounted \in Seq(FsSet)
    BY <2>1, <2>3 DEF MountsInv
  <2>6. CASE mounted' # mounted
    <3>1. PICK what : mounted' = Append(mounted, [target |-> mountsCfg[line].target, what |-> what])
      BY <2>1, <2>6
    <3> DEFINE e == [target |-> mountsCfg[line].target, what |-> what]
    <3>2. e.target \in Targets /\ mounted' = Append(mounted, e)
      BY <2>2, <2>4, <3>1
    <3> HIDE DEF e
    <3>3. mounted \in Seq(FsSet \cup {e}) /\ e \in FsSet \cup {e}
      BY <2>5, SeqMonotonic
    <3>4. /\ DOMAIN mounted' = 1 .. Len(mounted) + 1 /\ mounted'[Len(mounted) + 1] = e
          /\ \A i \in 1 .. Len(mounted) : mounted'[i] = mounted[i]
          /\ DOMAIN mounted = 1 .. Len(mounted) /\ Len(mounted) \in Nat
      BY <3>2, <3>3, AppendProperties, LenProperties
    <3>5. ASSUME NEW i \in DOMAIN mounted' PROVE mounted'[i].target \in Targets
      <4>1. i = Len(mounted) + 1 \/ i \in 1 .. Len(mounted)
        BY <3>4
      <4> QED
        BY <3>2, <3>4, <4>1 DEF Targeted
    <3> QED
      BY <3>5 DEF Targeted
  <2> QED
    BY <1>1, <2>6
<1>3. CASE EnterContainer
  <2>1. Handed /\ Config(config) /\ stage = "container" /\ Driver = "container"
    BY <1>3 DEF EnterContainer, Base, Reading
  <2> DEFINE fs == domain.filesystems
             B == {f \in FsSet : f.target # Root}
  <2>2. fs \in Seq(FsSet)
    BY <2>1, ContainerFs DEF Handed
  <2> HIDE DEF fs
  <2>3. \A x \in FsSet : x \in B <=> x.target # Root
    OBVIOUS
  <2>4. B \subseteq FsSet /\ \A x \in B : x.target \in Targets
    BY DEF FsSet, Targets
  <2> HIDE DEF B
  <2>5. Elsewhere(fs, Root) = Chosen(fs, B)
    BY ONLY <2>2, <2>3, ElsewhereChosen
  <2>6. mounted' \in {mounted, Elsewhere(fs, Root)}
    BY <1>3 DEF EnterContainer, Select, fs, Elsewhere
  <2>7. Chosen(fs, B) \in Seq(FsSet) /\ Range(Chosen(fs, B)) \subseteq B
    BY <2>2, ChosenTyped, ChosenElements
  <2>8. CASE mounted' = Chosen(fs, B)
    BY <2>4, <2>7, <2>8 DEF Targeted, Range
  <2> QED
    BY <1>1, <2>5, <2>6, <2>8
<1>4. CASE ~(MountLine \/ EnterContainer)
  <2>1. CASE ReadsOptions \/ StartSandbox
    <3>1. UNCHANGED guest
      BY <2>1, OptionSteps, StartStep DEF Base
    <3> QED
      BY <1>1, <3>1 DEF guest
  <2>2. CASE UNCHANGED vars
    BY <1>1, <2>2 DEF vars, guest
  <2>3. CASE InsertModules \/ MountRoot \/ ExecCommon
    BY <1>1, <2>3 DEF InsertModules, MountRoot, ExecCommon, guest
  <2>4. CASE LoadIt \/ SetupDiskTag \/ SetupTagsDone \/ SetupCustomEnv
    BY <1>1, <2>4 DEF LoadIt, SetupDiskTag, SetupTagsDone, SetupCustomEnv
  <2>5. CASE SetupNetworkDevice \/ RunInteractive
    BY <1>1, <2>5 DEF SetupNetworkDevice, RunInteractive
  <2> QED
    BY <1>4, <2>1, <2>2, <2>3, <2>4, <2>5, Steps DEF GuestRuns
<1> QED
  BY <1>2, <1>3, <1>4

(* Together they give the types.                                           *)
LEMMA TypeHolds ==
  ASSUME Base, Counted, Tags, Targeted PROVE TypeOK
<1>1. stage \in Range(OptionStages) \union GuestStages \union Ended
  <2>1. Reading \subseteq Range(OptionStages)
    <3>1. DOMAIN OptionStages = 1 .. 7
      BY DEF OptionStages
    <3>2. \A i \in 1 .. 7 : OptionStages[i] \in Range(OptionStages)
      BY <3>1 DEF Range
    <3> QED
      BY <3>2 DEF Reading, OptionStages
  <2> QED
    BY <2>1 DEF Base
<1>2. given \in 0 .. MaxOptions /\ line \in 1 .. MaxOptions + 1
  BY HandOverAssumption DEF Counted
<1>3. ASSUME NEW i \in DOMAIN config.mounts
      PROVE  config.mounts[i].usage \in 0 .. 2^(2 * Width) - 1
  <2>1. config.mounts \in Seq(MountSet)
    BY DEF Base, Config, Listed
  <2>2. config.mounts[i] \in MountSet
    BY <2>1, ElementOfSeq, LenProperties
  <2> QED
    BY <2>2, UsageTyped
<1>4. ASSUME NEW l \in links PROVE l.dev[1] = DiskPrefix(Driver)
  <2>1. PICK k \in 1 .. Len(disksCfg) : l = disksCfg[k]
    BY DEF Tags, FirstOfTag
  <2>2. stage \notin Early
    BY DEF Base, Untouched
  <2>3. Handed /\ config.disks \in Seq(Disks)
    BY <2>2 DEF Base, Early, Config, Listed
  <2>4. k \in DOMAIN config.disks
    BY <2>1, <2>3, DisksLength, LenProperties
  <2>5. disksCfg[k].dev = << DiskPrefix(Driver), k - 1 >>
    BY <2>3, <2>4 DEF Handed, DisksCfg
  <2> QED
    BY <2>1, <2>5
<1>5. {m.target : m \in Range(mounted)} \subseteq {m.target : m \in Mounts}
  BY DEF Range, Targeted, Targets
<1> QED
  BY <1>1, <1>2, <1>3, <1>4, <1>5 DEF TypeOK

(* Every state is well typed: in particular the lists stay within the      *)
(* number of options, sizes within a guint64, and a link or a mount only   *)
(* has names that options gave.                                            *)
THEOREM TypesAreKept ==
  ASSUME ModularTrees
  PROVE  Spec => []TypeOK
<1> DEFINE Inv == Base /\ Loaded /\ Counted /\ Tags /\ MountsInv /\ Targeted
<1>1. Init => Inv
  <2> SUFFICES ASSUME Init PROVE Inv
    OBVIOUS
  <2>1. /\ stage = "envs" /\ links = {} /\ mounted = << >> /\ root = << Nothing >>
    BY DEF Init, OptionStages
  <2>2. Base /\ Counted
    BY BaseInit, CountedInit
  <2> QED
    BY <2>1, <2>2 DEF Loaded, HasLoaded, Tags, MountsInv, Targeted
<1>2. Inv /\ [Next]_vars => Inv'
  BY BaseStep, LoadedStep, CountedStep, TagsStep, MountsStep, TargetedStep
<1>3. Inv => TypeOK
  BY TypeHolds
<1> QED
  BY <1>1, <1>2, <1>3, PTL DEF Spec

-----------------------------------------------------------------------------
(* The addresses of the interfaces.                                        *)

(* The commands that set up interfaces.                                    *)
CommandSet == [dev : Nat, cmd : {"dhclient", "address", "route"}, arg : Values]

(* A route comes after an address of its interface, and not with DHCP.     *)
RoutesFollow(s) ==
  \A i \in DOMAIN s :
     s[i].cmd = "route" =>
        /\ \E k \in 1 .. i - 1 : s[k].dev = s[i].dev /\ s[k].cmd = "address"
        /\ ~\E k \in DOMAIN s : s[k].dev = s[i].dev /\ s[k].cmd = "dhclient"

(* Commands for interfaces before the n-th, and for one alone.             *)
Below(s, n) == \A i \in DOMAIN s : s[i].dev < n
Only(s, n) == \A i \in DOMAIN s : s[i].dev = n

(* The addresses that an interface was given.                              *)
Args(s, d) == {c.arg : c \in {x \in Range(s) : x.dev = d /\ x.cmd = "address"}}

(* One of them.                                                            *)
ArgOf(s, d, a) == \E i \in DOMAIN s : s[i].dev = d /\ s[i].cmd = "address" /\ s[i].arg = a

(* The two say the same.                                                   *)
LEMMA ArgIs ==
  ASSUME NEW s, NEW d, NEW a
  PROVE  a \in Args(s, d) <=> ArgOf(s, d, a)
<1>1. ASSUME a \in Args(s, d) PROVE ArgOf(s, d, a)
  <2>1. PICK x \in Range(s) : x.dev = d /\ x.cmd = "address" /\ x.arg = a
    BY <1>1 DEF Args
  <2>2. PICK i \in DOMAIN s : x = s[i]
    BY <2>1 DEF Range
  <2> QED
    BY <2>1, <2>2 DEF ArgOf
<1>2. ASSUME ArgOf(s, d, a) PROVE a \in Args(s, d)
  <2>1. PICK i \in DOMAIN s : s[i].dev = d /\ s[i].cmd = "address" /\ s[i].arg = a
    BY <1>2 DEF ArgOf
  <2>2. s[i] \in Range(s)
    BY DEF Range
  <2> QED
    BY <2>1, <2>2 DEF Args
<1> QED
  BY <1>1, <1>2

(* The commands of one interface more.                                     *)
LEMMA Joined ==
  ASSUME NEW p \in Seq(CommandSet), NEW q \in Seq(CommandSet), NEW n \in Nat,
         RoutesFollow(p), RoutesFollow(q), Below(p, n), Only(q, n)
  PROVE  /\ p \o q \in Seq(CommandSet)
         /\ RoutesFollow(p \o q) /\ Below(p \o q, n + 1)
         /\ Args(p \o q, n) = Args(q, n)
         /\ \A d \in Nat : d < n => Args(p \o q, d) = Args(p, d)
<1> DEFINE s == p \o q
           a == Len(p)
           b == Len(q)
<1>1. /\ s \in Seq(CommandSet) /\ Len(s) = a + b /\ a \in Nat /\ b \in Nat
      /\ \A i \in 1 .. a + b : s[i] = IF i <= a THEN p[i] ELSE q[i - a]
  BY ConcatProperties, LenProperties
<1>2. DOMAIN s = 1 .. a + b /\ DOMAIN p = 1 .. a /\ DOMAIN q = 1 .. b
  BY <1>1, LenProperties
<1> HIDE DEF s, a, b
<1>3. ASSUME NEW i \in 1 .. a PROVE i \in DOMAIN s /\ s[i] = p[i] /\ p[i].dev < n
  BY <1>1, <1>2, <1>3 DEF Below
<1>4. ASSUME NEW i \in 1 .. b PROVE a + i \in DOMAIN s /\ s[a + i] = q[i] /\ q[i].dev = n
  <2>1. a + i \in 1 .. a + b /\ ~(a + i <= a) /\ (a + i) - a = i
    BY <1>1, <1>4
  <2>2. s[a + i] = q[i]
    BY <1>1, <2>1
  <2> QED
    BY <1>2, <2>1, <2>2 DEF Only
<1>5. ASSUME NEW i \in DOMAIN s
      PROVE  i \in 1 .. a \/ \E j \in 1 .. b : i = a + j
  <2>1. i \in 1 .. a \/ i - a \in 1 .. b
    BY <1>1, <1>2
  <2>2. i = a + (i - a)
    BY <1>1, <1>2
  <2> QED
    BY <2>1, <2>2
<1>6. Below(s, n + 1)
  <2>1. ASSUME NEW i \in DOMAIN s PROVE s[i].dev < n + 1
    <3>1. s[i] \in CommandSet
      BY <1>1, <1>2, ElementOfSeq, LenProperties
    <3>2. s[i].dev \in Nat
      BY <3>1 DEF CommandSet
    <3>3. s[i].dev < n \/ s[i].dev = n
      BY <1>3, <1>4, <1>5
    <3> QED
      BY <3>2, <3>3
  <2> QED
    BY <2>1 DEF Below
<1>7. ASSUME NEW x PROVE x \in Args(s, n) <=> x \in Args(q, n)
  <2>1. ASSUME ArgOf(s, n, x) PROVE ArgOf(q, n, x)
    <3>1. PICK i \in DOMAIN s : s[i].dev = n /\ s[i].cmd = "address" /\ s[i].arg = x
      BY <2>1 DEF ArgOf
    <3>2. i \notin 1 .. a
      <4>1. ASSUME i \in 1 .. a PROVE FALSE
        <5>1. s[i].dev < n
          BY <1>3, <4>1
        <5> QED
          BY <3>1, <5>1
      <4> QED
        BY <4>1
    <3>3. PICK j \in 1 .. b : i = a + j
      BY <1>5, <3>2
    <3> QED
      BY <1>2, <1>4, <3>1, <3>3 DEF ArgOf
  <2>2. ASSUME ArgOf(q, n, x) PROVE ArgOf(s, n, x)
    <3>1. PICK j \in DOMAIN q : q[j].dev = n /\ q[j].cmd = "address" /\ q[j].arg = x
      BY <2>2 DEF ArgOf
    <3>2. a + j \in DOMAIN s /\ s[a + j] = q[j]
      BY <1>2, <1>4
    <3> QED
      BY <3>1, <3>2 DEF ArgOf
  <2> QED
    BY <2>1, <2>2, ArgIs
<1>8. ASSUME NEW d \in Nat, d < n, NEW x PROVE x \in Args(s, d) <=> x \in Args(p, d)
  <2>1. ASSUME ArgOf(s, d, x) PROVE ArgOf(p, d, x)
    <3>1. PICK i \in DOMAIN s : s[i].dev = d /\ s[i].cmd = "address" /\ s[i].arg = x
      BY <2>1 DEF ArgOf
    <3>2. ASSUME NEW j \in 1 .. b, i = a + j PROVE FALSE
      <4>1. s[i].dev = n
        BY <1>4, <3>2
      <4> QED
        BY <1>8, <3>1, <4>1
    <3>3. i \in 1 .. a
      BY <1>5, <3>2
    <3> QED
      BY <1>2, <1>3, <3>1, <3>3 DEF ArgOf
  <2>2. ASSUME ArgOf(p, d, x) PROVE ArgOf(s, d, x)
    BY <1>2, <1>3, <2>2 DEF ArgOf
  <2> QED
    BY <2>1, <2>2, ArgIs
<1>9. RoutesFollow(s)
  <2> SUFFICES ASSUME NEW i \in DOMAIN s, s[i].cmd = "route"
               PROVE  /\ \E k \in 1 .. i - 1 : s[k].dev = s[i].dev /\ s[k].cmd = "address"
                      /\ \A k \in DOMAIN s : s[k].dev = s[i].dev => s[k].cmd # "dhclient"
    BY DEF RoutesFollow
  <2>1. CASE i \in 1 .. a
    <3>1. s[i] = p[i] /\ p[i].dev < n /\ i \in DOMAIN p
      BY <1>2, <1>3, <2>1
    <3>2. PICK k \in 1 .. i - 1 : p[k].dev = p[i].dev /\ p[k].cmd = "address"
      BY <3>1 DEF RoutesFollow
    <3>3. k \in 1 .. a
      BY <1>1, <2>1
    <3>4. s[k] = p[k]
      BY <1>3, <3>3
    <3>5. ASSUME NEW h \in DOMAIN s, s[h].dev = s[i].dev PROVE s[h].cmd # "dhclient"
      <4>1. ASSUME NEW j \in 1 .. b, h = a + j PROVE FALSE
        <5>1. s[h].dev = n
          BY <1>4, <4>1
        <5> QED
          BY <3>1, <3>5, <5>1
      <4>2. h \in 1 .. a
        BY <1>5, <4>1
      <4>3. s[h] = p[h] /\ h \in DOMAIN p
        BY <1>2, <1>3, <4>2
      <4> QED
        BY <3>1, <3>5, <4>3 DEF RoutesFollow
    <3> QED
      BY <3>1, <3>2, <3>4, <3>5
  <2>2. ASSUME NEW j \in 1 .. b, i = a + j
        PROVE  /\ \E k \in 1 .. i - 1 : s[k].dev = s[i].dev /\ s[k].cmd = "address"
               /\ \A k \in DOMAIN s : s[k].dev = s[i].dev => s[k].cmd # "dhclient"
    <3>1. s[i] = q[j] /\ q[j].dev = n /\ j \in DOMAIN q
      BY <1>2, <1>4, <2>2
    <3>2. PICK k \in 1 .. j - 1 : q[k].dev = q[j].dev /\ q[k].cmd = "address"
      BY <3>1 DEF RoutesFollow
    <3>3. k \in 1 .. b /\ a + k \in 1 .. i - 1
      <4>1. a \in Nat /\ b \in Nat /\ j \in 1 .. b /\ i = a + j
        BY <1>1, <2>2
      <4> QED
        BY ONLY <4>1, k \in 1 .. j - 1
    <3>4. s[a + k] = q[k]
      BY <1>4, <3>3
    <3>5. ASSUME NEW h \in DOMAIN s, s[h].dev = s[i].dev PROVE s[h].cmd # "dhclient"
      <4>1. h \notin 1 .. a
        <5>1. ASSUME h \in 1 .. a PROVE FALSE
          <6>1. s[h].dev < n
            BY <1>3, <5>1
          <6> QED
            BY <3>1, <3>5, <6>1
        <5> QED
          BY <5>1
      <4>2. PICK l \in 1 .. b : h = a + l
        BY <1>5, <4>1
      <4>3. s[h] = q[l] /\ l \in DOMAIN q
        BY <1>2, <1>4, <4>2
      <4> QED
        BY <3>1, <3>5, <4>3 DEF RoutesFollow
    <3> QED
      BY <3>1, <3>2, <3>3, <3>4, <3>5
  <2> QED
    BY <1>5, <2>1, <2>2
<1> QED
  BY <1>1, <1>6, <1>7, <1>8, <1>9 DEF s

(* A command for each of a list.                                           *)
LEMMA CommandedList ==
  ASSUME NEW dev \in Nat, NEW what \in {"address", "route"}, NEW list \in Seq(Values)
  PROVE  LET s == Commanded(dev, what, list)
         IN  /\ s \in Seq(CommandSet) /\ Len(s) = Len(list)
             /\ \A i \in 1 .. Len(list) :
                   s[i].dev = dev /\ s[i].cmd = what /\ s[i].arg = list[i]
<1> DEFINE s == Commanded(dev, what, list)
<1>1. DOMAIN list = 1 .. Len(list) /\ Len(list) \in Nat /\ \A i \in 1 .. Len(list) : list[i] \in Values
  BY LenProperties, ElementOfSeq
<1>2. s = [i \in 1 .. Len(list) |-> [dev |-> dev, cmd |-> what, arg |-> list[i]]]
  BY <1>1 DEF Commanded
<1>3. s \in [1 .. Len(list) -> CommandSet]
  BY <1>1, <1>2 DEF CommandSet
<1> HIDE DEF s
<1>4. s \in Seq(CommandSet)
  BY <1>1, <1>3, SeqDef
<1>5. Len(s) = Len(list)
  BY <1>1, <1>3, <1>4, LenProperties
<1> QED
  BY <1>2, <1>4, <1>5 DEF s

(* What is run for one interface.                                          *)
LEMMA InterfaceCommands ==
  ASSUME NEW net, NetworkRead(net), NEW dev \in Nat
  PROVE  LET s == IpCommands(net, dev)
         IN  /\ s \in Seq(CommandSet) /\ RoutesFollow(s) /\ Only(s, dev)
             /\ Args(s, dev) = Range(net.addresses)
<1> DEFINE s == IpCommands(net, dev)
<1>1. net.addresses \in Seq(Values) /\ net.routes \in Seq(Values) /\ net.dhcp \in BOOLEAN
  BY DEF NetworkRead, NetworkRecords
<1>2. CASE net.dhcp
  <2> DEFINE e == [dev |-> dev, cmd |-> "dhclient", arg |-> NoValue]
  <2>1. s = << e >>
    BY <1>2 DEF IpCommands
  <2>2. e \in CommandSet /\ e.cmd = "dhclient" /\ e.dev = dev
    BY DEF CommandSet, Values
  <2> HIDE DEF e, s
  <2>3. s \in Seq(CommandSet) /\ DOMAIN s = {1} /\ s[1] = e
    BY <2>1, <2>2
  <2>4. RoutesFollow(s) /\ Only(s, dev)
    BY <2>2, <2>3 DEF RoutesFollow, Only
  <2>5. ASSUME NEW x PROVE x \notin Args(s, dev)
    BY <2>2, <2>3, ArgIs DEF ArgOf
  <2>6. Range(net.addresses) = {}
    <3>1. net.addresses = << >>
      BY <1>2 DEF NetworkRead
    <3> QED
      BY <3>1 DEF Range
  <2> QED
    BY <2>3, <2>4, <2>5, <2>6 DEF s
<1>3. CASE ~net.dhcp
  <2> DEFINE l == net.addresses
             m == net.routes
             p == Commanded(dev, "address", l)
             q == Commanded(dev, "route", m)
             a == Len(l)
             b == Len(m)
  <2>1. s = p \o q
    BY <1>3 DEF IpCommands
  <2>2. /\ p \in Seq(CommandSet) /\ Len(p) = a
        /\ \A i \in 1 .. a : p[i].dev = dev /\ p[i].cmd = "address" /\ p[i].arg = l[i]
    BY <1>1, CommandedList
  <2>3. /\ q \in Seq(CommandSet) /\ Len(q) = b
        /\ \A i \in 1 .. b : q[i].dev = dev /\ q[i].cmd = "route" /\ q[i].arg = m[i]
    BY <1>1, CommandedList
  <2>4. /\ a \in Nat /\ b \in Nat /\ DOMAIN l = 1 .. a
        /\ b # 0 => a # 0
    <3>1. m # << >> => l # << >>
      BY DEF NetworkRead
    <3> HIDE DEF l, m
    <3>2. (a = 0 <=> l = << >>) /\ (b = 0 <=> m = << >>)
      BY <1>1, EmptySeq DEF l, m
    <3> QED
      BY <1>1, <3>1, <3>2, LenProperties DEF l, m
  <2> HIDE DEF l, m, p, q, s
  <2>5. /\ s \in Seq(CommandSet) /\ DOMAIN s = 1 .. a + b
        /\ \A i \in 1 .. a + b : s[i] = IF i <= a THEN p[i] ELSE q[i - a]
    <3> HIDE DEF a, b
    <3>0. p \in Seq(CommandSet) /\ q \in Seq(CommandSet) /\ Len(p) = a /\ Len(q) = b
      BY <2>2, <2>3
    <3>1. s \in Seq(CommandSet) /\ Len(s) = a + b
          /\ \A i \in 1 .. a + b : s[i] = IF i <= a THEN p[i] ELSE q[i - a]
      <4>1. /\ p \o q \in Seq(CommandSet) /\ Len(p \o q) = Len(p) + Len(q)
            /\ \A i \in 1 .. Len(p) + Len(q) :
                  (p \o q)[i] = IF i <= Len(p) THEN p[i] ELSE q[i - Len(p)]
        BY ONLY <3>0, ConcatProperties
      <4> QED
        BY ONLY <2>1, <3>0, <4>1
    <3> QED
      BY <3>1, LenProperties
  <2> HIDE DEF a, b
  <2>6. ASSUME NEW i \in 1 .. a
        PROVE  i \in DOMAIN s /\ s[i].dev = dev /\ s[i].cmd = "address" /\ s[i].arg = l[i]
    BY <2>2, <2>4, <2>5
  <2>7. ASSUME NEW i \in DOMAIN s, i \notin 1 .. a
        PROVE  1 \in 1 .. a /\ 1 \in 1 .. i - 1 /\ s[i].dev = dev /\ s[i].cmd = "route"
    <3>1. i - a \in 1 .. b /\ s[i] = q[i - a]
      BY <2>4, <2>5, <2>7
    <3>2. b # 0
      BY <2>4, <3>1
    <3>3. 1 \in 1 .. a
      BY <2>4, <3>2
    <3>4. i \in 1 .. a + b
      BY <2>5, <2>7
    <3>5. 1 \in 1 .. i - 1
      BY <2>4, <2>7, <3>3, <3>4
    <3> QED
      BY <2>3, <3>1, <3>3, <3>5
  <2>8. ASSUME NEW i \in DOMAIN s
        PROVE  s[i].dev = dev /\ s[i].cmd # "dhclient"
    BY <2>6, <2>7
  <2>9. RoutesFollow(s) /\ Only(s, dev)
    <3>1. ASSUME NEW i \in DOMAIN s, s[i].cmd = "route"
          PROVE  \E k \in 1 .. i - 1 : s[k].dev = s[i].dev /\ s[k].cmd = "address"
      <4>1. i \notin 1 .. a
        BY <2>6, <3>1
      <4>2. 1 \in 1 .. a /\ 1 \in 1 .. i - 1
        BY <2>7, <4>1
      <4>3. s[1].dev = dev /\ s[1].cmd = "address"
        BY <2>6, <4>2
      <4> QED
        BY <2>8, <4>2, <4>3
    <3> QED
      BY <2>8, <3>1 DEF RoutesFollow, Only
  <2>10. ASSUME NEW x PROVE x \in Args(s, dev) <=> x \in Range(l)
    <3>1. ASSUME ArgOf(s, dev, x) PROVE x \in Range(l)
      <4>1. PICK i \in DOMAIN s : s[i].cmd = "address" /\ s[i].arg = x
        BY <3>1 DEF ArgOf
      <4>2. i \in 1 .. a
        BY <2>7, <4>1
      <4> QED
        BY <2>4, <2>6, <4>1, <4>2 DEF Range
    <3>2. ASSUME x \in Range(l) PROVE ArgOf(s, dev, x)
      <4>1. PICK i \in 1 .. a : x = l[i]
        BY <2>4, <3>2 DEF Range
      <4> QED
        BY <2>6, <4>1 DEF ArgOf
    <3> QED
      BY <3>1, <3>2, ArgIs
  <2> QED
    BY <2>5, <2>9, <2>10 DEF s, l
<1> QED
  BY <1>1, <1>2, <1>3

(* The interfaces set up so far.                                           *)
SetUp(s, nets, n) ==
  Below(s, n) /\ \A i \in 1 .. n : Args(s, i - 1) = Range(nets[i].addresses)

(* One interface more.                                                     *)
LEMMA OneMoreSetUp ==
  ASSUME NEW s \in Seq(CommandSet), RoutesFollow(s), NEW nets, NEW n \in Nat, SetUp(s, nets, n),
         NetworkRead(nets[n + 1])
  PROVE  LET t == s \o IpCommands(nets[n + 1], n)
         IN  t \in Seq(CommandSet) /\ RoutesFollow(t) /\ SetUp(t, nets, n + 1)
<1> DEFINE q == IpCommands(nets[n + 1], n)
           t == s \o q
<1>1. q \in Seq(CommandSet) /\ RoutesFollow(q) /\ Only(q, n) /\ Args(q, n) = Range(nets[n + 1].addresses)
  BY InterfaceCommands
<1> HIDE DEF q
<1>2. Below(s, n)
  BY DEF SetUp
<1>3. /\ t \in Seq(CommandSet) /\ RoutesFollow(t) /\ Below(t, n + 1) /\ Args(t, n) = Args(q, n)
      /\ \A d \in Nat : d < n => Args(t, d) = Args(s, d)
  BY <1>1, <1>2, Joined
<1> HIDE DEF t
<1>4. ASSUME NEW i \in 1 .. n + 1 PROVE Args(t, i - 1) = Range(nets[i].addresses)
  <2>1. CASE i = n + 1
    <3>1. i - 1 = n
      BY <2>1
    <3> QED
      BY <1>1, <1>3, <2>1, <3>1
  <2>2. CASE i # n + 1
    <3>1. i \in 1 .. n /\ i - 1 \in Nat /\ i - 1 < n
      BY <2>2
    <3> QED
      BY <1>3, <3>1 DEF SetUp
  <2> QED
    BY <2>1, <2>2
<1> QED
  BY <1>3, <1>4 DEF SetUp, t, q

(* The first commands of several are well formed if all are.               *)
LEMMA FirstCommands ==
  ASSUME NEW s \in Seq(CommandSet), NEW n \in 0 .. Len(s), RoutesFollow(s)
  PROVE  /\ SubSeq(s, 1, n) \in Seq(CommandSet) /\ RoutesFollow(SubSeq(s, 1, n))
         /\ \A d : Only(s, d) => Only(SubSeq(s, 1, n), d)
<1> DEFINE p == SubSeq(s, 1, n)
<1>1. Len(s) \in Nat /\ DOMAIN s = 1 .. Len(s) /\ \A i \in 1 .. Len(s) : s[i] \in CommandSet
  BY LenProperties, ElementOfSeq
<1>2. n \in Nat /\ \A i \in 1 .. n : i \in DOMAIN s /\ s[i] \in CommandSet
  BY <1>1
<1>3. p \in Seq(CommandSet) /\ Len(p) = n /\ \A i \in 1 .. n : p[i] = s[i]
  BY <1>2, SubSeqProperties
<1> HIDE DEF p
<1>4. DOMAIN p = 1 .. n
  BY <1>3, LenProperties
<1>5. RoutesFollow(p)
  <2>1. ASSUME NEW i \in DOMAIN p, p[i].cmd = "route"
        PROVE  /\ \E k \in 1 .. i - 1 : p[k].dev = p[i].dev /\ p[k].cmd = "address"
               /\ ~\E k \in DOMAIN p : p[k].dev = p[i].dev /\ p[k].cmd = "dhclient"
    <3>1. i \in DOMAIN s /\ p[i] = s[i] /\ \A k \in 1 .. i - 1 : k \in 1 .. n
      BY <1>2, <1>3, <1>4
    <3>2. /\ \E k \in 1 .. i - 1 : s[k].dev = s[i].dev /\ s[k].cmd = "address"
          /\ ~\E k \in DOMAIN s : s[k].dev = s[i].dev /\ s[k].cmd = "dhclient"
      BY <2>1, <3>1 DEF RoutesFollow
    <3> QED
      BY <1>2, <1>3, <1>4, <3>1, <3>2
  <2> QED
    BY <2>1 DEF RoutesFollow
<1>6. ASSUME NEW d, Only(s, d) PROVE Only(p, d)
  BY <1>2, <1>3, <1>4, <1>6 DEF Only
<1> QED
  BY <1>3, <1>5, <1>6 DEF p

(* What has been run for the interfaces, in each stage.                    *)
Interfaces ==
  /\ ip \in Seq(CommandSet) /\ RoutesFollow(ip)
  /\ stage \notin {"net", "running", "no network", "no console"} => ip = << >>
  /\ stage = "env" => line = 1
  /\ stage = "net" =>
        \E n \in 0 .. Len(loaded.networks) : line = n + 1 /\ SetUp(ip, loaded.networks, n)
  /\ stage = "running" => SetUp(ip, loaded.networks, Len(loaded.networks))

(* The networks the guest has are those that were asked for.               *)
LEMMA NetworksRead ==
  ASSUME Base, Loaded, HasLoaded
  PROVE  /\ Len(loaded.networks) \in Nat
         /\ Len(loaded.networks) = (IF Len(config.networks) < NetworkLimit
                                    THEN Len(config.networks) ELSE NetworkLimit)
         /\ \A i \in 1 .. Len(loaded.networks) :
               /\ i \in 1 .. Len(config.networks) /\ NetworkRead(loaded.networks[i])
               /\ loaded.networks[i].addresses = LoadList(config.networks[i].addresses, NetworkLimit)
<1> DEFINE w == config.networks
           r == LoadConfig(SaveConfig(config)).networks
<1>1. Handed /\ Config(config) /\ w \in Seq(NetSet)
  BY DEF Base, HasLoaded, Reading, Config, Listed
<1>2. loaded.networks = r
  BY <1>1 DEF Loaded, Handed
<1>3. /\ Len(r) = (IF Len(w) < NetworkLimit THEN Len(w) ELSE NetworkLimit) /\ Len(r) \in Nat
      /\ \A i \in 1 .. Len(r) : i \in 1 .. Len(w) /\ r[i] = LoadNetwork(w[i])
  BY <1>1, NetworksLoaded
<1> HIDE DEF r, w
<1>4. \A i \in 1 .. Len(w) : w[i] \in NetSet
  BY <1>1, ElementOfSeq
<1> QED
  BY <1>2, <1>3, <1>4, NetworkIsRead DEF w

(* Every step keeps the interfaces.                                        *)
LEMMA InterfacesStep ==
  ASSUME Base, Loaded, Interfaces, [Next]_vars PROVE Interfaces'
<1>1. CASE ReadsOptions \/ StartSandbox
  <2>1. UNCHANGED guest /\ stage' \notin {"env", "net", "running"} /\ stage \in Reading
    <3>1. CASE ReadsOptions
      BY <3>1, OptionSteps DEF Base, Reading
    <3>2. CASE StartSandbox
      BY <3>2, StartStep DEF StartSandbox, Refuses, Reading
    <3> QED
      BY <1>1, <3>1, <3>2
  <2>2. ip' = ip /\ ip = << >>
    BY <2>1 DEF guest, Base, Early, Untouched
  <2> QED
    BY <2>1, <2>2 DEF Interfaces
<1>2. CASE UNCHANGED vars
  BY <1>2 DEF vars, guest, Interfaces
<1>3. CASE SetupNetworkDevice
  <2> DEFINE r == loaded.networks
  <2>1. stage = "net" /\ line <= Len(r) /\ line' = line + 1 /\ loaded' = loaded
    BY <1>3 DEF SetupNetworkDevice
  <2>2. PICK n \in 0 .. Len(r) : line = n + 1 /\ SetUp(ip, r, n)
    BY <2>1 DEF Interfaces
  <2>3. HasLoaded
    BY <2>1 DEF HasLoaded
  <2>4. Len(r) \in Nat /\ \A i \in 1 .. Len(r) : NetworkRead(r[i])
    BY <2>3, NetworksRead
  <2>5. /\ n \in Nat /\ n + 1 \in 0 .. Len(r) /\ n + 1 \in 1 .. Len(r) /\ line - 1 = n
        /\ line' = (n + 1) + 1
    BY <2>1, <2>2, <2>4
  <2> DEFINE q == IpCommands(r[n + 1], n)
  <2>6. \E m \in 0 .. Len(q) :
           /\ ip' = ip \o SubSeq(q, 1, m)
           /\ IF m = Len(q) THEN UNCHANGED stage ELSE stage' = "no network"
    BY <1>3, <2>2, <2>5 DEF SetupNetworkDevice
  <2>7. ip \in Seq(CommandSet) /\ RoutesFollow(ip) /\ NetworkRead(r[n + 1])
    BY <2>4, <2>5 DEF Interfaces
  <2> HIDE DEF r
  <2>8. CASE stage' = "no network"
    <3>1. q \in Seq(CommandSet) /\ RoutesFollow(q) /\ Only(q, n)
      BY <2>5, <2>7, InterfaceCommands
    <3>2. Below(ip, n)
      BY <2>2 DEF SetUp
    <3> HIDE DEF q
    <3>3. PICK m \in 0 .. Len(q) : ip' = ip \o SubSeq(q, 1, m)
      BY <2>6
    <3> DEFINE p == SubSeq(q, 1, m)
    <3>4. p \in Seq(CommandSet) /\ RoutesFollow(p) /\ Only(p, n)
      BY <3>1, FirstCommands
    <3> HIDE DEF p
    <3>5. ip \o p \in Seq(CommandSet) /\ RoutesFollow(ip \o p)
      BY <2>5, <2>7, <3>2, <3>4, Joined
    <3>6. ip' \in Seq(CommandSet) /\ RoutesFollow(ip')
      BY ONLY <3>3, <3>5 DEF p
    <3> QED
      BY ONLY <2>8, <3>6 DEF Interfaces
  <2>9. CASE stage' # "no network"
    <3>1. ip' = ip \o q /\ stage' = stage
      <4>1. q \in Seq(CommandSet)
        BY <2>5, <2>7, InterfaceCommands
      <4> HIDE DEF q
      <4>2. SubSeq(q, 1, Len(q)) = q
        BY <4>1, SubSeqFull
      <4> QED
        BY <2>6, <2>9, <4>2
    <3>2. ip' \in Seq(CommandSet) /\ RoutesFollow(ip') /\ SetUp(ip', r, n + 1)
      BY <2>2, <2>5, <2>7, <3>1, OneMoreSetUp
    <3>3. \E k \in 0 .. Len(r) : line' = k + 1 /\ SetUp(ip', r, k)
      BY <2>5, <3>2
    <3>4. loaded'.networks = r /\ stage' = "net"
      BY <2>1, <3>1 DEF r
    <3>5. \E k \in 0 .. Len(loaded'.networks) : line' = k + 1 /\ SetUp(ip', loaded'.networks, k)
      BY ONLY <3>3, <3>4
    <3> QED
      BY ONLY <3>2, <3>4, <3>5, Zenon DEF Interfaces
  <2> QED
    BY <2>8, <2>9
<1>4. CASE SetupCustomEnv
  <2>1. stage = "env" /\ stage' = "net" /\ UNCHANGED << loaded, line, ip >>
    BY <1>4 DEF SetupCustomEnv
  <2>2. HasLoaded
    BY <2>1 DEF HasLoaded
  <2>3. Len(loaded.networks) \in Nat
    BY <2>2, NetworksRead
  <2>4. ip = << >> /\ line = 1
    BY <2>1 DEF Interfaces
  <2>5. SetUp(ip, loaded.networks, 0)
    BY <2>4 DEF SetUp, Below
  <2>6. 0 \in 0 .. Len(loaded.networks) /\ line = 0 + 1
    BY <2>3, <2>4
  <2> QED
    BY <2>1, <2>5, <2>6 DEF Interfaces
<1>5. CASE RunInteractive
  <2> DEFINE r == loaded.networks
  <2>1. /\ stage = "net" /\ line > Len(r) /\ stage' \in {"running", "no console"}
        /\ UNCHANGED << loaded, line, ip >>
    BY <1>5 DEF RunInteractive
  <2>2. PICK n \in 0 .. Len(r) : line = n + 1 /\ SetUp(ip, r, n)
    BY <2>1 DEF Interfaces
  <2>3. HasLoaded
    BY <2>1 DEF HasLoaded
  <2>4. Len(r) \in Nat
    BY <2>3, NetworksRead
  <2> HIDE DEF r
  <2>5. n = Len(r)
    <3>1. line > Len(r) /\ line = n + 1
      BY <2>1, <2>2
    <3> QED
      BY ONLY <2>4, <3>1
  <2> QED
    BY <2>1, <2>2, <2>5 DEF Interfaces, r
<1>6. CASE SetupTagsDone
  BY <1>6 DEF SetupTagsDone, Interfaces
<1>7. CASE InsertModules \/ MountRoot \/ MountLine \/ EnterContainer \/ ExecCommon \/ LoadIt \/ SetupDiskTag
  <2>1. /\ ip' = ip /\ stage \notin {"net", "running", "no network", "no console"}
        /\ stage' \notin {"env", "net", "running", "no network", "no console"}
    <3>1. CASE InsertModules \/ EnterContainer \/ ExecCommon
      BY <3>1 DEF InsertModules, EnterContainer, ExecCommon, guest
    <3>2. CASE MountRoot \/ MountLine
      BY <3>2 DEF MountRoot, MountLine, Failures
    <3>3. CASE LoadIt \/ SetupDiskTag
      BY <3>3 DEF LoadIt, SetupDiskTag
    <3> QED
      BY <1>7, <3>1, <3>2, <3>3
  <2> QED
    BY <2>1 DEF Interfaces
<1> QED
  BY <1>1, <1>2, <1>3, <1>4, <1>5, <1>6, <1>7, Steps DEF GuestRuns

(* Then they have what was asked for.                                      *)
LEMMA AddressesGiven ==
  ASSUME Base, Loaded, Interfaces PROVE AddressesCommanded
<1>1. RoutesFollow(ip)
  BY DEF Interfaces
<1>2. ASSUME stage = "running", NEW i \in 1 .. Len(config.networks), i <= NetworkLimit
      PROVE  /\ Found(<<"eth", i - 1>>) = {<<"host", AskedNetwork(config.networks[i])>>}
             /\ Args(ip, i - 1) = Range(LoadList(config.networks[i].addresses, NetworkLimit))
  <2>1. stage \notin Early /\ HasLoaded
    BY <1>2 DEF Early, Reading, HasLoaded
  <2>2. Found(<<"eth", i - 1>>) = {<<"host", AskedNetwork(config.networks[i])>>}
    BY <2>1, NetworkFound
  <2> DEFINE n == Len(loaded.networks)
             w == Len(config.networks)
  <2>3. n = (IF w < NetworkLimit THEN w ELSE NetworkLimit)
        /\ \A k \in 1 .. n : loaded.networks[k].addresses = LoadList(config.networks[k].addresses, NetworkLimit)
    BY <2>1, NetworksRead
  <2>4. SetUp(ip, loaded.networks, n)
    BY <1>2 DEF Interfaces
  <2>5. config.networks \in Seq(NetSet) /\ NetworkLimit \in Nat
    BY LimitsAssumption DEF Base, Config, Listed
  <2>6. w \in Nat /\ i \in 1 .. w
    BY <2>5, LenProperties
  <2> HIDE DEF n, w
  <2>7. i \in 1 .. n
    BY <1>2, <2>3, <2>5, <2>6
  <2> QED
    BY <2>2, <2>3, <2>4, <2>7 DEF SetUp
<1> QED
  BY <1>1, <1>2 DEF AddressesCommanded, RoutesFollow, Args

(* Interface n of a running guest is on the n-th network, and the commands *)
(* run for it are those for the addresses asked for it, up to the limit of *)
(* load_config; none is for a route before an address or beside DHCP.      *)
THEOREM AddressesAreCommanded ==
  ASSUME ModularTrees
  PROVE  Spec => []AddressesCommanded
<1>1. Init => Base /\ Loaded /\ Interfaces
  <2> SUFFICES ASSUME Init PROVE Base /\ Loaded /\ Interfaces
    OBVIOUS
  <2>1. stage = "envs" /\ ip = << >>
    BY DEF Init, OptionStages
  <2>2. ip \in Seq(CommandSet) /\ DOMAIN ip = {}
    BY <2>1
  <2> QED
    BY <2>1, <2>2, BaseInit DEF Loaded, HasLoaded, Interfaces, RoutesFollow
<1>2. Base /\ Loaded /\ Interfaces /\ [Next]_vars => (Base /\ Loaded /\ Interfaces)'
  BY BaseStep, LoadedStep, InterfacesStep
<1>3. Base /\ Loaded /\ Interfaces => AddressesCommanded
  BY AddressesGiven
<1> QED
  BY <1>1, <1>2, <1>3, PTL DEF Spec

-----------------------------------------------------------------------------
(* The mounts that were asked for.                                         *)

(* m is the mount that the option a became.                                *)
Same(m, a) ==
  /\ m.type = a.type /\ m.target = a.target /\ m.source = a.source
  /\ m.usage = OptionUsage(a.usage)

(* Each mount of a configuration is the option of its place.               *)
Remember(mounts, options) ==
  /\ options \in Seq(Mounts) /\ Len(options) = Len(mounts)
  /\ \A i \in 1 .. Len(options) : Same(mounts[i], options[i])

Remembered == Remember(config.mounts, asked)

(* No mount at the beginning.                                              *)
LEMMA RememberedInit ==
  ASSUME Init PROVE Remembered
<1>1. PICK c \in Clients : config = NewConfig(c.options)
  BY DEF Init
<1>2. config.mounts = << >> /\ asked = << >>
  BY <1>1 DEF NewConfig, Init
<1>3. Len(<< >>) = 0 /\ << >> \in Seq(Mounts)
  BY EmptySeq
<1> QED
  BY <1>2, <1>3 DEF Remembered, Remember

(* A mount more.                                                           *)
LEMMA RememberMore ==
  ASSUME NEW s \in Seq(MountSet), NEW w, Remember(s, w),
         NEW m \in MountSet, NEW a \in Mounts, Same(m, a)
  PROVE  Remember(Append(s, m), Append(w, a))
<1>1. /\ w \in Seq(Mounts) /\ Len(w) = Len(s) /\ Len(w) \in Nat
      /\ \A i \in 1 .. Len(w) : Same(s[i], w[i])
  BY LenProperties DEF Remember
<1>2. /\ Len(Append(s, m)) = Len(s) + 1 /\ Append(s, m)[Len(s) + 1] = m
      /\ \A i \in 1 .. Len(s) : Append(s, m)[i] = s[i]
  BY AppendProperties
<1>3. /\ Append(w, a) \in Seq(Mounts) /\ Len(Append(w, a)) = Len(w) + 1
      /\ Append(w, a)[Len(w) + 1] = a
      /\ \A i \in 1 .. Len(w) : Append(w, a)[i] = w[i]
  BY <1>1, AppendProperties
<1>4. ASSUME NEW i \in 1 .. Len(w) + 1 PROVE Same(Append(s, m)[i], Append(w, a)[i])
  <2>1. CASE i = Len(w) + 1
    BY <1>1, <1>2, <1>3, <2>1
  <2>2. CASE i \in 1 .. Len(w)
    BY <1>1, <1>2, <1>3, <2>2
  <2> QED
    BY <1>1, <2>1, <2>2
<1> QED
  BY <1>1, <1>2, <1>3, <1>4 DEF Remember

(* The options remember the mounts, ...                                    *)
LEMMA RememberedOptions ==
  ASSUME Base, Remembered, ReadsOptions PROVE Remembered'
<1>1. Config(config) /\ Fielded(config) /\ config.mounts \in Seq(MountSet)
  BY DEF Base, Config, Listed
<1>2. CASE config'.mounts = config.mounts /\ asked' = asked
  BY <1>2 DEF Remembered, Remember
<1>3. CASE NextOptions \/ MalformedOption
  BY <1>2, <1>3 DEF NextOptions, MalformedOption, Refuses, host
<1>4. CASE EnvOption
  <2>1. \A k, v : AddEnv(config, k, v).mounts = config.mounts
    BY <1>1 DEF AddEnv, Fielded, ConfigFields
  <2> QED
    BY <1>2, <1>4, <2>1 DEF EnvOption, Takes
<1>5. CASE DiskOption
  <2>1. \A d : AddDisk(config, d).mounts = config.mounts
    BY <1>1 DEF AddDisk, Fielded, ConfigFields
  <2> QED
    BY <1>2, <1>5, <2>1 DEF DiskOption, Takes
<1>6. CASE MountOption
  <2>1. PICK a \in Mounts : /\ Takes(AddMount(config, [a EXCEPT !.usage = OptionUsage(@)]))
                            /\ asked' = Append(asked, a)
    BY <1>6 DEF MountOption
  <2> DEFINE m == [a EXCEPT !.usage = OptionUsage(@)]
  <2>2. m \in MountSet
    BY OptionMount
  <2>3. Same(m, a)
    <3>1. a = [type |-> a.type, target |-> a.target, source |-> a.source, usage |-> a.usage,
               includes |-> NoIncludes]
      BY OptionsAssumption
    <3> QED
      BY <3>1 DEF Same
  <2>4. config' = AddMount(config, m)
    BY <2>1 DEF Takes
  <2> HIDE DEF m
  <2>5. config'.mounts = Append(config.mounts, m)
    BY <1>1, <2>4 DEF AddMount, Fielded, ConfigFields
  <2>6. Remember(config.mounts, asked)
    BY DEF Remembered
  <2>7. Remember(Append(config.mounts, m), Append(asked, a))
    BY ONLY <1>1, <2>2, <2>3, <2>6, RememberMore
  <2> QED
    BY <2>1, <2>5, <2>7 DEF Remembered
<1>7. CASE IncludeOption
  <2>1. PICK i \in Includes : IF Under(config, i.guest) = {} THEN Refuses
                              ELSE Takes(AddHostInclude(config, i.guest, i.host)) /\ UNCHANGED asked
    BY <1>7 DEF IncludeOption
  <2>2. CASE Under(config, i.guest) = {}
    BY <1>2, <2>1, <2>2 DEF Refuses, host
  <2>3. CASE Under(config, i.guest) # {}
    <3> DEFINE s == config.mounts
    <3>1. asked' = asked /\ config' = AddHostInclude(config, i.guest, i.host)
      BY <2>1, <2>3 DEF Takes
    <3>2. PICK n \in 1 .. Len(s) :
             config' = [config EXCEPT !["mounts"] =
                           [s EXCEPT ![n] = Including(s[n], RelGuest(s[n].target, i.guest), i.host)]]
      BY <1>1, <2>3, <3>1, IncludeAdded
    <3> DEFINE new == Including(s[n], RelGuest(s[n].target, i.guest), i.host)
    <3>3. s[n] \in MountSet
      BY <1>1, ElementOfSeq
    <3>4. new.type = s[n].type /\ new.target = s[n].target /\ new.source = s[n].source
             /\ new.usage = s[n].usage
      BY <3>3 DEF Including, MountSet
    <3>5. config'.mounts = [s EXCEPT ![n] = new] /\ Len(config'.mounts) = Len(s)
      <4>1. Len(config'.mounts) = Len(s)
        BY <1>1, <2>3, <3>1, IncludeLength
      <4>2. config' = With(config, "mounts", [s EXCEPT ![n] = new])
        BY <3>2 DEF With
      <4> HIDE DEF new, s
      <4>3. config'.mounts = [s EXCEPT ![n] = new]
        BY <1>1, <4>2, SetList
      <4> QED
        BY <4>1, <4>3
    <3> HIDE DEF new
    <3>6. ASSUME NEW k \in 1 .. Len(s) PROVE Same(config'.mounts[k], asked[k])
      <4>1. k \in DOMAIN s /\ Same(s[k], asked[k])
        BY <1>1, LenProperties DEF Remembered, Remember
      <4>2. CASE k = n
        BY <3>4, <3>5, <4>1, <4>2 DEF Same
      <4>3. CASE k # n
        BY <3>5, <4>1, <4>3
      <4> QED
        BY <4>2, <4>3
    <3> QED
      BY <3>1, <3>5, <3>6 DEF Remembered, Remember
  <2> QED
    BY <2>2, <2>3
<1>8. CASE NetworkOption
  <2>1. \A d : AddNetwork(config, d).mounts = config.mounts
    BY <1>1 DEF AddNetwork, Fielded, ConfigFields
  <2> QED
    BY <1>2, <1>8, <2>1 DEF NetworkOption, Refuses, Takes, host
<1>9. CASE SecurityOption
  <2>1. \A k, v : SetSecurityOpts(config, k, v).mounts = config.mounts
    BY <1>1 DEF SetSecurityOpts, Fielded, ConfigFields
  <2> QED
    BY <1>2, <1>9, <2>1 DEF SecurityOption, Refuses, host
<1> QED
  BY <1>3, <1>4, <1>5, <1>6, <1>7, <1>8, <1>9 DEF ReadsOptions

(* ... and so does every step.                                             *)
LEMMA RememberedStep ==
  ASSUME Base, Remembered, [Next]_vars PROVE Remembered'
<1>1. CASE StartSandbox \/ GuestRuns \/ UNCHANGED vars
  <2>1. UNCHANGED host
    BY <1>1, StartStep, GuestSteps DEF vars
  <2> QED
    BY <2>1 DEF host, Remembered, Remember
<1> QED
  BY <1>1, RememberedOptions, Steps

(* Some index is the last of which P holds, if there is one at all.        *)
LEMMA GreatestIndex ==
  ASSUME NEW n \in Nat, NEW U \in SUBSET (1 .. n), U # {}
  PROVE  \E k \in U : \A l \in U : l <= k
<1> DEFINE above == {k \in Nat : \A l \in U : l <= k}
<1>1. above \in SUBSET Nat /\ n \in above
  OBVIOUS
<1>2. PICK k \in above : \A b \in above : k <= b
  BY <1>1, LeastOf
<1>3. k \in U
  <2> SUFFICES ASSUME k \notin U PROVE FALSE
    OBVIOUS
  <2>1. k - 1 \in above
    <3>1. PICK l \in U : l \in 1 .. n
      OBVIOUS
    <3>2. k - 1 \in Nat
      BY <1>2, <3>1
    <3>3. ASSUME NEW j \in U PROVE j <= k - 1
      <4>1. j \in 1 .. n /\ j <= k /\ j # k /\ k \in Nat
        BY <1>2
      <4> QED
        BY <4>1
    <3> QED
      BY <3>2, <3>3
  <2> QED
    BY <1>2, <2>1
<1> QED
  BY <1>2, <1>3

(* The last that is chosen is the last of those to choose.                 *)
LEMMA ChosenLast ==
  ASSUME NEW S, NEW s \in Seq(S), NEW K, NEW i \in 1 .. Len(s), s[i] \in K,
         \A j \in i + 1 .. Len(s) : s[j] \notin K
  PROVE  Chosen(s, K) # << >> /\ Last(Chosen(s, K)) = s[i]
<1> DEFINE T == {j \in Nat : j \in i .. Len(s) => ChosenTo(s, j, K) = ChosenTo(s, i, K)}
<1>1. Len(s) \in Nat
  BY LenProperties
<1>2. 0 \in T
  OBVIOUS
<1>3. ASSUME NEW h \in Nat, h \in T PROVE h + 1 \in T
  <2> DEFINE j == h + 1
  <2> SUFFICES ASSUME j \in i .. Len(s) PROVE ChosenTo(s, j, K) = ChosenTo(s, i, K)
    OBVIOUS
  <2>1. CASE j = i
    BY <2>1
  <2>2. CASE j # i
    <3>1. Follows(j, h, s) /\ h \in i .. Len(s) /\ s[j] \notin K
      BY <1>1, <2>2 DEF Follows
    <3> HIDE DEF j
    <3> QED
      BY <1>3, <3>1, ChosenStep
  <2> QED
    BY <2>1, <2>2
<1>4. Nat \subseteq T
  <2> HIDE DEF T
  <2>1. \A h \in Nat : h \in T => h + 1 \in T
    BY <1>3
  <2> QED
    BY ONLY <1>2, <2>1, R!InductionOfSet
<1>5. ChosenTo(s, i, K) = Chosen(s, K)
  <2>1. Len(s) \in T /\ Len(s) \in i .. Len(s)
    BY <1>1, <1>4
  <2> QED
    BY <2>1, ChosenToAll
<1> DEFINE before == ChosenTo(s, i - 1, K)
<1>6. before \in Seq(S) /\ s[i] \in S /\ ChosenTo(s, i, K) = Append(before, s[i])
  <2>1. Follows(i, i - 1, s)
    BY <1>1 DEF Follows
  <2> QED
    BY <2>1, ChosenStep
<1> HIDE DEF before
<1>7. /\ Len(Append(before, s[i])) = Len(before) + 1 /\ Len(before) \in Nat
      /\ Append(before, s[i])[Len(before) + 1] = s[i]
  BY <1>6, AppendProperties, LenProperties
<1>8. Len(<< >>) = 0
  BY EmptySeq
<1> QED
  BY <1>5, <1>6, <1>7, <1>8 DEF Last

(* A size of a gint is kept.                                               *)
LEMMA SizeKept ==
  ASSUME NEW n \in 0 .. 2^(Width - 1) - 1
  PROVE  OptionUsage(n) = n
<1> DEFINE a == 2^(Width - 1)
           b == 2^Width
           c == 2^(2 * Width - 1)
           d == 2^(2 * Width)
<1>1. a \in Nat /\ b \in Nat /\ c \in Nat /\ d \in Nat /\ n < a /\ a <= b /\ a <= c /\ c <= d
  BY PowersAssumption
<1>2. ToInt(n) = IF n % b < a THEN n % b ELSE (n % b) - b
  BY DEF ToInt
<1>3. ToGuint64(n) = n % d /\ OptionUsage(n) = ToGuint64(ToInt(n))
  BY DEF ToGuint64, OptionUsage
<1>4. n \in Nat /\ n \in 0 .. a - 1
  OBVIOUS
<1> HIDE DEF a, b, c, d
<1>5. n < b /\ n < d
  BY <1>1, <1>4
<1>6. n % b = n /\ n % d = n
  BY <1>1, <1>4, <1>5, Remainder
<1> QED
  BY <1>1, <1>2, <1>3, <1>4, <1>6

(* What a mount yields is what its option promises.                        *)
LEMMA YieldsGives ==
  ASSUME NEW m, NEW a \in Mounts, Same(m, a)
  PROVE  Gives(Yields(m), a)
<1>1. a.type \in {"host-bind", "host-image", "guest-bind", "ram"}
  BY OptionsAssumption
<1>2. CASE a.type # "ram"
  BY <1>1, <1>2 DEF Gives, Yields, Same
<1>3. CASE a.type = "ram"
  <2>1. Yields(m) = << "tmpfs", OptionUsage(a.usage) \div Kilo >>
    BY <1>3 DEF Yields, Same
  <2>2. ASSUME a.usage \in 0 .. 2^(Width - 1) - 1
        PROVE  Yields(m)[2] * Kilo <= a.usage /\ a.usage < (Yields(m)[2] + 1) * Kilo
    <3>1. Yields(m)[2] = a.usage \div Kilo
      BY <2>1, <2>2, SizeKept
    <3> DEFINE u == a.usage
    <3>2. u \in Nat /\ Kilo \in Nat \ {0}
      BY <2>2, BuilderAssumption, PowersAssumption
    <3> HIDE DEF u
    <3>3. (u \div Kilo) * Kilo <= u /\ u < ((u \div Kilo) + 1) * Kilo
      BY ONLY <3>2
    <3> QED
      BY <3>1, <3>3 DEF u
  <2>3. Yields(m)[1] = "tmpfs"
    BY <2>1
  <2> QED
    BY <1>3, <2>2, <2>3 DEF Gives
<1> QED
  BY <1>2, <1>3

(* What the options ask for at a target.                                   *)
AskedAt(t) == {m \in Mounts : m.target = t}

(* The options at a target and the mounts at it stand at the same places.  *)
LEMMA SamePlaces ==
  ASSUME Base, Remembered, NEW t
  PROVE  /\ config.mounts \in Seq(MountSet) /\ asked \in Seq(Mounts)
         /\ Len(asked) \in Nat /\ Len(config.mounts) = Len(asked)
         /\ \A i \in 1 .. Len(asked) :
               /\ asked[i] \in Mounts /\ config.mounts[i] \in MountSet
               /\ Same(config.mounts[i], asked[i])
               /\ config.mounts[i] \in AtTarget(t) <=> asked[i] \in AskedAt(t)
         /\ AtIt(asked, t) = Chosen(asked, AskedAt(t))
<1>1. config.mounts \in Seq(MountSet)
  BY DEF Base, Config, Listed
<1>2. /\ asked \in Seq(Mounts) /\ Len(config.mounts) = Len(asked)
      /\ \A i \in 1 .. Len(asked) : Same(config.mounts[i], asked[i])
  BY DEF Remembered, Remember
<1>3. /\ Len(asked) \in Nat
      /\ \A i \in 1 .. Len(asked) : asked[i] \in Mounts /\ config.mounts[i] \in MountSet
  BY <1>1, <1>2, ElementOfSeq, LenProperties
<1>4. \A i \in 1 .. Len(asked) : config.mounts[i] \in AtTarget(t) <=> asked[i] \in AskedAt(t)
  BY <1>2, <1>3 DEF Same, AtTarget, AskedAt
<1>5. \A x \in Mounts : x \in AskedAt(t) <=> x.target = t
  BY DEF AskedAt
<1>6. AtIt(asked, t) = Chosen(asked, AskedAt(t))
  BY ONLY <1>2, <1>5, TargetChosen
<1> QED
  BY <1>1, <1>2, <1>3, <1>4, <1>6

(* The root is what the first option there promises, or the root tree.     *)
LEMMA RootGiven ==
  ASSUME Base, Remembered, root = RootYields
  PROVE  IF AtIt(asked, Root) = << >> THEN root = << "host", config.root >>
         ELSE Gives(root, AtIt(asked, Root)[1])
<1> DEFINE s == config.mounts
           U == {i \in 1 .. Len(asked) : asked[i] \in AskedAt(Root)}
<1>1. /\ s \in Seq(MountSet) /\ asked \in Seq(Mounts)
      /\ Len(asked) \in Nat /\ Len(s) = Len(asked)
      /\ \A i \in 1 .. Len(asked) :
            /\ asked[i] \in Mounts /\ Same(s[i], asked[i])
            /\ s[i] \in AtTarget(Root) <=> asked[i] \in AskedAt(Root)
      /\ AtIt(asked, Root) = Chosen(asked, AskedAt(Root))
  BY SamePlaces
<1> HIDE DEF s
<1>2. RootYields = IF Chosen(s, AtTarget(Root)) = << >> THEN << "host", config.root >>
                   ELSE Yields(Chosen(s, AtTarget(Root))[1])
  BY DEF RootYields, s
<1>3. CASE U = {}
  <2>1. Chosen(s, AtTarget(Root)) = << >> /\ Chosen(asked, AskedAt(Root)) = << >>
    <3>1. /\ \A i \in 1 .. Len(s) : s[i] \notin AtTarget(Root)
          /\ \A i \in 1 .. Len(asked) : asked[i] \notin AskedAt(Root)
      BY <1>1, <1>3
    <3> QED
      BY <1>1, <3>1, ChosenNone
  <2> QED
    BY <1>1, <1>2, <2>1
<1>4. CASE U # {}
  <2>1. U \in SUBSET Nat
    OBVIOUS
  <2>2. PICK i \in U : \A l \in U : i <= l
    BY ONLY <1>4, <2>1, LeastOf
  <2>3. /\ i \in 1 .. Len(asked) /\ asked[i] \in AskedAt(Root) /\ i \in 1 .. Len(s)
        /\ s[i] \in AtTarget(Root)
        /\ \A j \in 1 .. i - 1 : asked[j] \notin AskedAt(Root) /\ s[j] \notin AtTarget(Root)
    BY <1>1, <2>2
  <2>4. Chosen(s, AtTarget(Root)) # << >> /\ Chosen(s, AtTarget(Root))[1] = s[i]
    BY <1>1, <2>3, ChosenFirst
  <2>5. Chosen(asked, AskedAt(Root)) # << >> /\ Chosen(asked, AskedAt(Root))[1] = asked[i]
    BY <1>1, <2>3, ChosenFirst
  <2>6. Gives(Yields(s[i]), asked[i])
    BY <1>1, <2>3, YieldsGives
  <2> QED
    BY <1>1, <1>2, <2>4, <2>5, <2>6
<1> QED
  BY <1>3, <1>4

(* On top at another target is what the last option there promises.        *)
LEMMA TopGiven ==
  ASSUME Base, MountsInv, Remembered, stage = "load" \/ HasLoaded,
         NEW t \in {m.target : m \in Range(asked)} \ {Root}
  PROVE  /\ AtIt(mounted, t) # << >>
         /\ Gives(Last(AtIt(mounted, t)).what, Last(AtIt(asked, t)))
<1> DEFINE s == config.mounts
           U == {i \in 1 .. Len(asked) : asked[i] \in AskedAt(t)}
<1>1. /\ s \in Seq(MountSet) /\ asked \in Seq(Mounts)
      /\ Len(asked) \in Nat /\ Len(s) = Len(asked)
      /\ \A i \in 1 .. Len(asked) :
            /\ asked[i] \in Mounts /\ Same(s[i], asked[i])
            /\ s[i] \in AtTarget(t) <=> asked[i] \in AskedAt(t)
      /\ AtIt(asked, t) = Chosen(asked, AskedAt(t))
  BY SamePlaces
<1>2. DOMAIN asked = 1 .. Len(asked)
  BY <1>1, LenProperties
<1>3. t \in Targets \ {Root} /\ U # {}
  <2>1. PICK k \in 1 .. Len(asked) : asked[k].target = t
    BY <1>2 DEF Range
  <2> QED
    BY <1>1, <2>1 DEF Targets, AskedAt
<1>4. /\ AtIt(mounted, t) = Chosen(mounted, OnTarget(t))
      /\ Given(Chosen(mounted, OnTarget(t)), Chosen(s, AtTarget(t)))
  BY <1>3, MountsYielded
<1> HIDE DEF s
<1>5. PICK i \in U : \A l \in U : l <= i
  <2>1. U \in SUBSET (1 .. Len(asked))
    OBVIOUS
  <2> HIDE DEF U
  <2> QED
    BY ONLY <1>1, <1>3, <2>1, GreatestIndex
<1>6. /\ i \in 1 .. Len(asked) /\ asked[i] \in AskedAt(t) /\ i \in 1 .. Len(s)
      /\ s[i] \in AtTarget(t)
      /\ \A j \in i + 1 .. Len(asked) : asked[j] \notin AskedAt(t) /\ s[j] \notin AtTarget(t)
  BY <1>1, <1>5
<1>7. Chosen(s, AtTarget(t)) # << >> /\ Last(Chosen(s, AtTarget(t))) = s[i]
  BY <1>1, <1>6, ChosenLast
<1>8. Last(Chosen(asked, AskedAt(t))) = asked[i]
  BY <1>1, <1>6, ChosenLast
<1>9. Gives(Yields(s[i]), asked[i])
  BY <1>1, <1>6, YieldsGives
<1> QED
  BY <1>1, <1>4, <1>7, <1>8, <1>9 DEF Given

(* Then everything is mounted as asked for.                                *)
LEMMA MountsGiven ==
  ASSUME Base, MountsInv, Remembered PROVE MountsAsAsked
<1>1. \A t : At(t, asked) = AtIt(asked, t) /\ At(t, mounted) = AtIt(mounted, t)
  BY DEF At, AtIt, Select
<1>2. root # << Nothing >> =>
         IF At(Root, asked) = << >> THEN root = << "host", config.root >>
         ELSE Gives(root, At(Root, asked)[1])
  BY <1>1, RootGiven DEF MountsInv
<1>3. ASSUME stage = "load" \/ HasLoaded, NEW t \in {m.target : m \in Range(asked)} \ {Root}
      PROVE  /\ At(t, mounted) # << >>
             /\ Gives(Last(At(t, mounted)).what, Last(At(t, asked)))
  BY <1>1, <1>3, TopGiven
<1> QED
  BY <1>2, <1>3 DEF MountsAsAsked

(* The root of the guest is what the first --mount at "/" promises, or the  *)
(* root tree, and on top at each other target is what the last --mount     *)
(* there promises, for both drivers, any mounts and any width of a gint: a *)
(* size that fits reaches the guest to the KiB, and the names that         *)
(* write_mount_cfg counts denote the devices construct_devices counts.     *)
THEOREM MountsAreAsAsked ==
  ASSUME ModularTrees
  PROVE  Spec => []MountsAsAsked
<1> DEFINE Inv == Base /\ MountsInv /\ Remembered
<1>1. Init => Inv
  BY BaseInit, RememberedInit DEF Init, MountsInv, OptionStages, HasLoaded
<1>2. Inv /\ [Next]_vars => Inv'
  BY BaseStep, MountsStep, RememberedStep
<1>3. Inv => MountsAsAsked
  BY MountsGiven
<1> QED
  BY <1>1, <1>2, <1>3, PTL DEF Spec
=============================================================================
