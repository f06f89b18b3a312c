--------------------------- MODULE EnvelopeProofs ---------------------------
(***************************************************************************)
(* Theorems about the envelope, for any keys, texts, names, moments and    *)
(* caps and versions of one digit.  Strings of the canonical form: none    *)
(* is the beginning of another one, and names are ordered as RFC 8785      *)
(* orders them.  Envelopes: no two contents are written as the same bytes, *)
(* so what verifies is what was signed.                                    *)
(*                                                                         *)
(* What FlattenSeq computes is a recursive function: that it exists, and   *)
(* what it is for any number of pieces, follows by induction, which is     *)
(* drawn from the least member of a set of numbers (lemma Upwards).  Two   *)
(* writings are told apart at the first place in which they differ         *)
(* (operator Apart), piece by piece.                                       *)
(***************************************************************************)
EXTENDS Envelope, WellFoundedInduction, FiniteSetTheorems, TLAPS

-----------------------------------------------------------------------------
(* Induction: no set of numbers is without a least one. *)

LEMMA Least ==
    ASSUME NEW T, T \subseteq Nat, T # {}
    PROVE  \E n \in T : \A m \in T : n <= m
<1>1. IsWellFoundedOn(OpToRel(<, Nat), Nat)
  BY NatLessThanWellFounded, Zenon
<1> DEFINE R == OpToRel(<, Nat)
<1>2. \A x, y \in Nat : x < y => <<x, y>> \in R
  BY DEF OpToRel
<1>3. IsWellFoundedOn(R, Nat)
  BY <1>1, Zenon
<1> HIDE DEF R
<1>4. \E x \in T : \A y \in T : ~(<<y, x>> \in R)
  BY <1>3, WFMin
<1>5. PICK n \in T : \A y \in T : ~(<<y, n>> \in R)
  BY <1>4
<1>6. \A m \in T : n <= m
  <2> SUFFICES ASSUME NEW m \in T, ~(n <= m)
               PROVE  FALSE
    OBVIOUS
  <2>1. m < n /\ m \in Nat /\ n \in Nat
    OBVIOUS
  <2>2. QED
    BY <1>2, <1>5, <2>1
<1>7. QED
  BY <1>6

\* A set that has m, and with every number below n the next one, has m .. n.
LEMMA Upwards ==
    ASSUME NEW T, T \subseteq Int, NEW m \in T, NEW n \in Int,
           \A i \in T : i < n => i + 1 \in T
    PROVE  m .. n \subseteq T
<1> DEFINE Bad == {k \in Nat : m + k \in m .. n /\ m + k \notin T}
<1>0. m \in Int
  OBVIOUS
<1> SUFFICES ASSUME NEW i \in m .. n, i \notin T
             PROVE  FALSE
  OBVIOUS
<1>1. i - m \in Bad
  BY <1>0
<1>2. PICK k \in Bad : \A j \in Bad : k <= j
  BY <1>1, Least
<1>3. k \in Nat /\ k # 0 /\ m + k \in m .. n /\ m + k \notin T
  BY <1>0, <1>2
<1>4. m + (k - 1) \in T
  <2>1. k - 1 \in Nat /\ k - 1 \notin Bad /\ m + (k - 1) \in m .. n
    BY <1>0, <1>2, <1>3
  <2>2. QED
    BY <2>1
<1>5. m + k \in T
  <2>1. m + (k - 1) < n /\ (m + (k - 1)) + 1 = m + k
    BY <1>0, <1>3
  <2>2. QED
    BY <1>4, <2>1
<1>6. QED
  BY <1>3, <1>5

-----------------------------------------------------------------------------
(* Flattening. *)

\* G[i] is what the first i members of s come to, one after another.
Joins(G, n, s) ==
    /\ G \in [0 .. n -> Seq(Nat)]
    /\ G[0] = <<>>
    /\ \A i \in 1 .. n : G[i] = G[i - 1] \o s[i]

LEMMA JoinsExist ==
    ASSUME NEW n \in Nat, NEW s \in [1 .. n -> Seq(Nat)]
    PROVE  \E G : Joins(G, n, s)
<1> DEFINE T == {m \in 0 .. n : \E G : Joins(G, m, s)}
<1>1. 0 \in T
  <2>1. Joins([i \in 0 .. 0 |-> <<>>], 0, s)
    BY DEF Joins
  <2>2. QED
    BY <2>1
<1>2. ASSUME NEW m \in T, m < n
      PROVE  m + 1 \in T
  <2>0. m \in 0 .. n - 1 /\ m \in Nat /\ m + 1 \in 1 .. n /\ s[m + 1] \in Seq(Nat)
    BY <1>2
  <2>1. PICK G : Joins(G, m, s)
    BY <1>2
  <2> DEFINE H == [i \in 0 .. m + 1 |-> IF i = m + 1 THEN G[m] \o s[m + 1] ELSE G[i]]
  <2>2. \A i \in 0 .. m : G[i] \in Seq(Nat)
    BY <2>1 DEF Joins
  <2>3. G[m] \o s[m + 1] \in Seq(Nat)
    BY <2>0, <2>2
  <2>4. H \in [0 .. m + 1 -> Seq(Nat)]
    BY <2>0, <2>2, <2>3
  <2>5. H[0] = <<>> /\ H[m + 1] = H[m] \o s[m + 1]
    <3>1. 0 \in 0 .. m + 1 /\ 0 # m + 1 /\ m \in 0 .. m + 1 /\ m # m + 1
      BY <2>0
    <3>2. H[0] = G[0] /\ H[m] = G[m] /\ H[m + 1] = G[m] \o s[m + 1]
      <4>1. H[0] = G[0]
        BY <3>1
      <4>2. H[m] = G[m]
        BY <3>1
      <4>3. H[m + 1] = G[m] \o s[m + 1]
        <5>1. m + 1 \in 0 .. m + 1
          BY <2>0
        <5>2. QED
          BY <5>1
      <4>4. QED
        BY <4>1, <4>2, <4>3
    <3> HIDE DEF H
    <3>3. QED
      BY <2>1, <3>2 DEF Joins
  <2>6. ASSUME NEW i \in 1 .. m
        PROVE  H[i] = H[i - 1] \o s[i]
    <3>1. H[i] = G[i] /\ H[i - 1] = G[i - 1]
      BY <2>0
    <3>2. QED
      BY <3>1, <2>1 DEF Joins
  <2> HIDE DEF H
  <2>7. \A i \in 1 .. m + 1 : H[i] = H[i - 1] \o s[i]
    <3> TAKE i \in 1 .. m + 1
    <3>1. CASE i = m + 1
      <4>1. i - 1 = m
        BY <2>0, <3>1
      <4>2. QED
        BY <2>5, <3>1, <4>1
    <3>2. CASE i # m + 1
      <4>1. i \in 1 .. m
        BY <2>0, <3>2
      <4>2. QED
        BY <2>6, <4>1
    <3>3. QED
      BY <3>1, <3>2
  <2>8. Joins(H, m + 1, s)
    BY <2>4, <2>5, <2>7 DEF Joins
  <2>9. QED
    BY <2>0, <2>8
<1>3. n \in T
  <2>1. T \subseteq Int
    OBVIOUS
  <2> HIDE DEF T
  <2>2. \A i \in T : i < n => i + 1 \in T
    BY <1>2
  <2>3. 0 .. n \subseteq T
    BY <1>1, <2>1, <2>2, n \in Int, Upwards, Zenon
  <2>4. QED
    BY <2>3
<1>4. QED
  BY <1>3

\* FlattenSeq does come to that, its recursive function included.
LEMMA FlattenJoins ==
    ASSUME NEW n \in Nat, NEW s \in [1 .. n -> Seq(Nat)],
           NEW G, Joins(G, n, s)
    PROVE  FlattenSeq(s) = G[n]
<1>0. Len(s) = n
  OBVIOUS
<1>1. CASE n = 0
  BY <1>0, <1>1 DEF FlattenSeq, Joins
<1>2. CASE n # 0
  <2> DEFINE Fix(f) == f = [i \in 1 .. n |-> IF i = 1 THEN s[i] ELSE f[i - 1] \o s[i]]
             flatten == CHOOSE f : Fix(f)
             F == [i \in 1 .. n |-> G[i]]
  <2>1. ASSUME NEW i \in 1 .. n
        PROVE  F[i] = IF i = 1 THEN s[i] ELSE F[i - 1] \o s[i]
    <3>1. CASE i = 1
      <4>1. 1 \in 1 .. n /\ 1 - 1 = 0
        BY <1>2
      <4>2. G[1] = G[0] \o s[1] /\ G[0] = <<>> /\ s[1] \in Seq(Nat)
        BY <4>1 DEF Joins
      <4>3. QED
        BY <3>1, <4>1, <4>2
    <3>2. CASE i # 1
      <4>1. F[i - 1] = G[i - 1] /\ F[i] = G[i]
        BY <3>2
      <4>2. QED
        BY <3>2, <4>1 DEF Joins
    <3>3. QED
      BY <3>1, <3>2
  <2>2. Fix(F)
    BY <2>1
  <2>3. FlattenSeq(s) = flatten[n]
    BY <1>0, <1>2 DEF FlattenSeq
  <2>4. Fix(flatten)
    <3> HIDE DEF Fix, F
    <3>1. QED
      BY <2>2
  <2>5. \A i \in 1 .. n : flatten[i] = IF i = 1 THEN s[i] ELSE flatten[i - 1] \o s[i]
    <3> HIDE DEF flatten
    <3>1. QED
      BY <2>4
  <2> HIDE DEF flatten, Fix, F
  <2> DEFINE T == {i \in 1 .. n : flatten[i] = G[i]}
  <2>6. 1 \in T
    <3>0. 1 \in 1 .. n /\ 1 - 1 = 0
      BY <1>2
    <3>1. G[1] = G[0] \o s[1] /\ G[0] = <<>> /\ s[1] \in Seq(Nat)
      BY <3>0 DEF Joins
    <3>2. flatten[1] = s[1]
      BY <1>2, <2>5
    <3>3. QED
      BY <3>0, <3>1, <3>2
  <2>7. ASSUME NEW i \in T, i < n
        PROVE  i + 1 \in T
    <3>1. i + 1 \in 1 .. n /\ i + 1 # 1 /\ (i + 1) - 1 = i
      BY <2>7
    <3>2. flatten[i + 1] = flatten[i] \o s[i + 1]
      BY <2>5, <3>1
    <3>3. G[i + 1] = G[i] \o s[i + 1]
      BY <3>1 DEF Joins
    <3>4. QED
      BY <2>7, <3>1, <3>2, <3>3
  <2>8. n \in T
    <3>1. T \subseteq Int
      OBVIOUS
    <3> HIDE DEF T
    <3>2. \A i \in T : i < n => i + 1 \in T
      BY <2>7
    <3>3. 1 .. n \subseteq T
      BY <2>6, <3>1, <3>2, n \in Int, Upwards, Zenon
    <3>4. QED
      BY <1>2, <3>3
  <2>9. QED
    BY <2>3, <2>8
<1>3. QED
  BY <1>1, <1>2

LEMMA JoinsType ==
    ASSUME NEW n \in Nat, NEW s \in [1 .. n -> Seq(Nat)],
           NEW G, Joins(G, n, s)
    PROVE  /\ \A i \in 0 .. n : G[i] \in Seq(Nat)
           /\ \A i \in 1 .. n : s[i] \in Seq(Nat) /\ G[i] = G[i - 1] \o s[i]
  BY DEF Joins

LEMMA JoinsAt ==
    ASSUME NEW n \in Nat, NEW s \in [1 .. n -> Seq(Nat)],
           NEW G, Joins(G, n, s), NEW i \in 1 .. n
    PROVE  /\ G[i - 1] \in Seq(Nat) /\ G[i] \in Seq(Nat) /\ s[i] \in Seq(Nat)
           /\ G[i] = G[i - 1] \o s[i]
<1>1. i - 1 \in 0 .. n /\ i \in 0 .. n
  OBVIOUS
<1>2. QED
  BY <1>1, JoinsType

\* p begins q.
Begins(p, q) == Len(p) <= Len(q) /\ \A k \in 1 .. Len(p) : q[k] = p[k]

LEMMA BeginsJoin ==
    ASSUME NEW p \in Seq(Nat), NEW q \in Seq(Nat), NEW r \in Seq(Nat), Begins(p, q)
    PROVE  Begins(p, q \o r)
<1>1. Len(q \o r) = Len(q) + Len(r) /\ Len(r) \in Nat /\ Len(q) \in Nat /\ Len(p) \in Nat
  OBVIOUS
<1>2. \A k \in 1 .. Len(q) : (q \o r)[k] = q[k]
  OBVIOUS
<1> DEFINE w == q \o r
<1>3. Len(p) <= Len(w) /\ \A k \in 1 .. Len(q) : w[k] = q[k]
  BY <1>1, <1>2 DEF Begins
<1> HIDE DEF w
<1>4. \A k \in 1 .. Len(p) : k \in 1 .. Len(q) /\ q[k] = p[k]
  BY <1>1 DEF Begins
<1>5. Begins(p, w)
  BY <1>3, <1>4 DEF Begins
<1>6. QED
  BY <1>5 DEF w

LEMMA JoinsBegin ==
    ASSUME NEW n \in Nat, NEW s \in [1 .. n -> Seq(Nat)],
           NEW G, Joins(G, n, s), NEW i \in 0 .. n
    PROVE  Begins(G[i], G[n])
<1> DEFINE T == {j \in i .. n : Begins(G[i], G[j])}
<1>1. i \in T
  BY JoinsType DEF Begins
<1>2. ASSUME NEW j \in T, j < n
      PROVE  j + 1 \in T
  <2>1. j \in 0 .. n /\ j + 1 \in 1 .. n /\ (j + 1) - 1 = j /\ j + 1 \in i .. n
    BY <1>2
  <2>2. /\ G[i] \in Seq(Nat) /\ G[j] \in Seq(Nat) /\ s[j + 1] \in Seq(Nat)
        /\ G[j + 1] = G[j] \o s[j + 1]
    <3>1. G[i] \in Seq(Nat) /\ G[j] \in Seq(Nat)
      BY <2>1, JoinsType
    <3>2. s[j + 1] \in Seq(Nat) /\ G[j + 1] = G[(j + 1) - 1] \o s[j + 1]
      BY <2>1, JoinsAt
    <3>3. QED
      BY <2>1, <3>1, <3>2
  <2>3. Begins(G[i], G[j + 1])
    BY <2>2, BeginsJoin
  <2>4. QED
    BY <2>1, <2>3
<1>3. T \subseteq Int /\ n \in Int
  OBVIOUS
<1>4. n \in T
  <2> HIDE DEF T
  <2>1. \A j \in T : j < n => j + 1 \in T
    BY <1>2
  <2>2. i .. n \subseteq T
    BY <1>1, <1>3, <2>1, Upwards, Zenon
  <2>3. QED
    BY <2>2
<1>5. QED
  BY <1>4

LEMMA JoinedTail ==
    ASSUME NEW p \in Seq(Nat), NEW r \in Seq(Nat)
    PROVE  /\ Len(p \o r) = Len(p) + Len(r)
           /\ \A k \in 1 .. Len(r) :
                Len(p) + k \in 1 .. Len(p \o r) /\ (p \o r)[Len(p) + k] = r[k]
<1>1. Len(p) \in Nat /\ Len(r) \in Nat /\ Len(p \o r) = Len(p) + Len(r)
  OBVIOUS
<1>2. ASSUME NEW k \in 1 .. Len(r)
      PROVE  Len(p) + k \in 1 .. Len(p \o r) /\ (p \o r)[Len(p) + k] = r[k]
  BY <1>1
<1>3. QED
  BY <1>1, <1>2

\* What follows the first c members.
LEMMA JoinsNext ==
    ASSUME NEW n \in Nat, NEW s \in [1 .. n -> Seq(Nat)],
           NEW G, Joins(G, n, s), NEW c \in Nat, c < n
    PROVE  /\ Begins(G[c], G[n])
           /\ Len(G[c]) + Len(s[c + 1]) <= Len(G[n])
           /\ \A k \in 1 .. Len(s[c + 1]) : G[n][Len(G[c]) + k] = s[c + 1][k]
<1> DEFINE i == c + 1
<1>1. c \in 0 .. n /\ i \in 0 .. n /\ i \in 1 .. n /\ i - 1 = c
  OBVIOUS
<1> HIDE DEF i
<1>2. Begins(G[c], G[n]) /\ Begins(G[i], G[n])
  BY <1>1, JoinsBegin
<1>3. /\ G[c] \in Seq(Nat) /\ G[n] \in Seq(Nat) /\ s[i] \in Seq(Nat)
      /\ G[i] = G[c] \o s[i]
  <2>1. n \in 0 .. n /\ G \in [0 .. n -> Seq(Nat)]
    BY DEF Joins
  <2>2. G[n] \in Seq(Nat)
    BY <2>1
  <2>3. G[i - 1] \in Seq(Nat) /\ s[i] \in Seq(Nat) /\ G[i] = G[i - 1] \o s[i]
    BY <1>1, JoinsType
  <2>4. QED
    BY <1>1, <2>2, <2>3, Zenon
<1>4. /\ Len(G[i]) = Len(G[c]) + Len(s[i])
      /\ \A k \in 1 .. Len(s[i]) :
           Len(G[c]) + k \in 1 .. Len(G[i]) /\ G[i][Len(G[c]) + k] = s[i][k]
  <2> DEFINE p == G[c]
             r == s[i]
  <2>1. p \in Seq(Nat) /\ r \in Seq(Nat) /\ G[i] = p \o r
    BY <1>3
  <2> HIDE DEF p, r
  <2>2. /\ Len(p \o r) = Len(p) + Len(r)
        /\ \A k \in 1 .. Len(r) :
             Len(p) + k \in 1 .. Len(p \o r) /\ (p \o r)[Len(p) + k] = r[k]
    BY <2>1, JoinedTail
  <2>3. QED
    BY <2>1, <2>2 DEF p, r
<1>5. QED
  BY <1>2, <1>4 DEF Begins, i

-----------------------------------------------------------------------------
(* Two sequences of pieces, flattened. *)

Pieces == Seq(Seq(Nat))

LEMMA PiecesAre ==
    ASSUME NEW s \in Pieces
    PROVE  Len(s) \in Nat /\ s \in [1 .. Len(s) -> Seq(Nat)]
  BY DEF Pieces

LEMMA PiecesFrom ==
    ASSUME NEW n \in Nat, NEW s \in [1 .. n -> Seq(Nat)]
    PROVE  s \in Pieces /\ Len(s) = n
  BY DEF Pieces

LEMMA FlattenIs ==
    ASSUME NEW s \in Pieces
    PROVE  /\ \E G : Joins(G, Len(s), s) /\ FlattenSeq(s) = G[Len(s)]
           /\ FlattenSeq(s) \in Seq(Nat)
<1>1. Len(s) \in Nat /\ s \in [1 .. Len(s) -> Seq(Nat)]
  BY PiecesAre
<1>2. PICK G : Joins(G, Len(s), s)
  BY <1>1, JoinsExist
<1>3. FlattenSeq(s) = G[Len(s)]
  BY <1>1, <1>2, FlattenJoins
<1>4. FlattenSeq(s) \in Seq(Nat)
  <2>1. Len(s) \in 0 .. Len(s) /\ G \in [0 .. Len(s) -> Seq(Nat)]
    BY <1>1, <1>2 DEF Joins
  <2>2. QED
    BY <1>3, <2>1
<1>5. QED
  BY <1>2, <1>3, <1>4

\* p is what the first c pieces come to; the next one follows it.
SplitAt(s, c, p) ==
    /\ Begins(p, FlattenSeq(s))
    /\ c = Len(s) => FlattenSeq(s) = p
    /\ c < Len(s) =>
         /\ Len(p) + Len(s[c + 1]) <= Len(FlattenSeq(s))
         /\ \A k \in 1 .. Len(s[c + 1]) : FlattenSeq(s)[Len(p) + k] = s[c + 1][k]

LEMMA JoinsSplit ==
    ASSUME NEW s \in Pieces, NEW c \in Nat, c <= Len(s),
           NEW G, Joins(G, Len(s), s), FlattenSeq(s) = G[Len(s)]
    PROVE  SplitAt(s, c, G[c]) /\ G[c] \in Seq(Nat)
<1> DEFINE n == Len(s)
<1>1. n \in Nat /\ s \in [1 .. n -> Seq(Nat)] /\ Joins(G, n, s) /\ FlattenSeq(s) = G[n]
  BY PiecesAre
<1>2. c <= n /\ (c = Len(s) <=> c = n) /\ (c < Len(s) <=> c < n)
  OBVIOUS
<1> HIDE DEF n
<1>3. G[c] \in Seq(Nat)
  <2>1. c \in 0 .. n
    BY <1>1, <1>2
  <2>2. QED
    BY <1>1, <2>1 DEF Joins
<1>4. CASE c = n
  <2>1. FlattenSeq(s) = G[c] /\ ~(c < Len(s))
    BY <1>1, <1>2, <1>4
  <2>2. Begins(G[c], G[c])
    BY <1>3 DEF Begins
  <2>3. QED
    BY <1>3, <2>1, <2>2 DEF SplitAt
<1>5. CASE c < n
  <2>1. /\ Begins(G[c], G[n])
        /\ Len(G[c]) + Len(s[c + 1]) <= Len(G[n])
        /\ \A k \in 1 .. Len(s[c + 1]) : G[n][Len(G[c]) + k] = s[c + 1][k]
    BY <1>1, <1>5, JoinsNext
  <2>2. c # n
    BY <1>1, <1>5
  <2>3. QED
    BY <1>1, <1>2, <1>3, <1>5, <2>1, <2>2 DEF SplitAt
<1>6. QED
  BY <1>1, <1>2, <1>4, <1>5

\* What begins with the same pieces begins the same.
LEMMA FlattenSplit ==
    ASSUME NEW s \in Pieces, NEW r \in Pieces, NEW c \in Nat,
           c <= Len(s), c <= Len(r), \A i \in 1 .. c : s[i] = r[i]
    PROVE  \E p \in Seq(Nat) : SplitAt(s, c, p) /\ SplitAt(r, c, p)
<1> DEFINE n == Len(s)
           m == Len(r)
<1>1. PICK G : Joins(G, n, s) /\ FlattenSeq(s) = G[n]
  BY FlattenIs
<1>2. PICK H : Joins(H, m, r) /\ FlattenSeq(r) = H[m]
  BY FlattenIs
<1>3. SplitAt(s, c, G[c]) /\ G[c] \in Seq(Nat)
  BY <1>1, JoinsSplit
<1>4. SplitAt(r, c, H[c])
  BY <1>2, JoinsSplit
<1>5. n \in Nat /\ c <= n /\ m \in Nat /\ c <= m
  BY PiecesAre
<1> HIDE DEF n, m
<1>7. G[c] = H[c]
  <2> DEFINE T == {j \in 0 .. c : G[j] = H[j]}
  <2>1. 0 \in T
    BY <1>1, <1>2 DEF Joins
  <2>2. ASSUME NEW j \in T, j < c
        PROVE  j + 1 \in T
    <3>1. j + 1 \in 1 .. n /\ j + 1 \in 1 .. m /\ j + 1 \in 1 .. c /\ (j + 1) - 1 = j
      BY <1>5, <2>2
    <3>2. G[j + 1] = G[(j + 1) - 1] \o s[j + 1]
      BY <1>1, <3>1 DEF Joins
    <3>3. H[j + 1] = H[(j + 1) - 1] \o r[j + 1]
      BY <1>2, <3>1 DEF Joins
    <3>4. G[j] = H[j] /\ s[j + 1] = r[j + 1]
      BY <3>1
    <3>5. G[j + 1] = G[j] \o s[j + 1] /\ H[j + 1] = H[j] \o r[j + 1]
      BY <3>1, <3>2, <3>3
    <3>6. G[j + 1] = H[j + 1]
      BY <3>4, <3>5
    <3>7. QED
      BY <3>1, <3>6
  <2>3. T \subseteq Int /\ c \in Int
    OBVIOUS
  <2>4. c \in T
    <3> HIDE DEF T
    <3>1. \A j \in T : j < c => j + 1 \in T
      BY <2>2
    <3>2. 0 .. c \subseteq T
      BY <2>1, <2>3, <3>1, Upwards, Zenon
    <3>3. QED
      BY <3>2
  <2>5. QED
    BY <2>4
<1>8. QED
  BY <1>3, <1>4, <1>7

-----------------------------------------------------------------------------
(* Sequences that differ at a place both have. *)

Apart(u, w) == \E k \in 1 .. Len(u) : k <= Len(w) /\ u[k] # w[k]

LEMMA ApartSwapped ==
    ASSUME NEW u \in Seq(Nat), NEW w \in Seq(Nat), Apart(u, w)
    PROVE  Apart(w, u)
<1>1. PICK k \in 1 .. Len(u) : k <= Len(w) /\ u[k] # w[k]
  BY DEF Apart
<1>2. k \in 1 .. Len(w) /\ k <= Len(u)
  BY <1>1
<1>3. QED
  BY <1>1, <1>2 DEF Apart

LEMMA ApartAfter ==
    ASSUME NEW p \in Seq(Nat), NEW u \in Seq(Nat), NEW w \in Seq(Nat), Apart(u, w)
    PROVE  Apart(p \o u, p \o w)
<1>1. PICK k \in 1 .. Len(u) : k <= Len(w) /\ u[k] # w[k]
  BY DEF Apart
<1>2. k \in 1 .. Len(w)
  BY <1>1
<1> DEFINE i == Len(p) + k
           pu == p \o u
           pw == p \o w
<1>3. i \in 1 .. Len(pu) /\ pu[i] = u[k]
  BY JoinedTail
<1>4. i \in 1 .. Len(pw) /\ pw[i] = w[k]
  BY <1>2, JoinedTail
<1> HIDE DEF i, pu, pw
<1>5. i <= Len(pw)
  BY <1>4
<1>6. Apart(pu, pw)
  BY <1>1, <1>3, <1>4, <1>5 DEF Apart
<1>7. QED
  BY <1>6 DEF pu, pw

LEMMA ApartBefore ==
    ASSUME NEW u \in Seq(Nat), NEW w \in Seq(Nat), Apart(u, w),
           NEW x \in Seq(Nat), NEW y \in Seq(Nat)
    PROVE  Apart(u \o x, w \o y)
<1>1. PICK k \in 1 .. Len(u) : k <= Len(w) /\ u[k] # w[k]
  BY DEF Apart
<1> DEFINE ux == u \o x
           wy == w \o y
<1>2. k \in 1 .. Len(ux) /\ ux[k] = u[k]
  OBVIOUS
<1>3. k <= Len(wy) /\ wy[k] = w[k]
  BY <1>1
<1> HIDE DEF ux, wy
<1>4. Apart(ux, wy)
  BY <1>1, <1>2, <1>3 DEF Apart
<1>5. QED
  BY <1>4 DEF ux, wy

\* What was apart before and is begun is apart after.
LEMMA ApartBegun ==
    ASSUME NEW u \in Seq(Nat), NEW w \in Seq(Nat), Apart(u, w),
           NEW x \in Seq(Nat), NEW y \in Seq(Nat), Begins(u, x), Begins(w, y)
    PROVE  Apart(x, y)
<1>1. PICK k \in 1 .. Len(u) : k <= Len(w) /\ u[k] # w[k]
  BY DEF Apart
<1>2. k \in 1 .. Len(x) /\ x[k] = u[k]
  BY DEF Begins
<1>3. k <= Len(y) /\ y[k] = w[k]
  BY <1>1 DEF Begins
<1>4. QED
  BY <1>1, <1>2, <1>3 DEF Apart

\* Pieces that are apart set apart what is flattened.
LEMMA FlattenApart ==
    ASSUME NEW s \in Pieces, NEW r \in Pieces,
           NEW c \in Nat, c < Len(s), c < Len(r),
           \A i \in 1 .. c : s[i] = r[i], Apart(s[c + 1], r[c + 1])
    PROVE  Apart(FlattenSeq(s), FlattenSeq(r))
<1> DEFINE fs == FlattenSeq(s)
           fr == FlattenSeq(r)
           u == s[c + 1]
           w == r[c + 1]
<1>1. /\ Len(s) \in Nat /\ Len(r) \in Nat
      /\ fs \in Seq(Nat) /\ fr \in Seq(Nat) /\ u \in Seq(Nat) /\ w \in Seq(Nat)
  <2>1. c + 1 \in 1 .. Len(s) /\ c + 1 \in 1 .. Len(r)
    BY PiecesAre
  <2>2. QED
    BY <2>1, PiecesAre, FlattenIs
<1>2. PICK p \in Seq(Nat) : SplitAt(s, c, p) /\ SplitAt(r, c, p)
  <2>1. c <= Len(s) /\ c <= Len(r)
    BY <1>1
  <2>2. QED
    BY <2>1, FlattenSplit
<1>3. /\ Len(p) + Len(u) <= Len(fs) /\ \A k \in 1 .. Len(u) : fs[Len(p) + k] = u[k]
      /\ Len(p) + Len(w) <= Len(fr) /\ \A k \in 1 .. Len(w) : fr[Len(p) + k] = w[k]
  BY <1>2 DEF SplitAt
<1>4. Apart(u, w)
  OBVIOUS
<1> HIDE DEF fs, fr, u, w
<1>5. PICK k \in 1 .. Len(u) : k <= Len(w) /\ u[k] # w[k]
  BY <1>4 DEF Apart
<1> DEFINE i == Len(p) + k
<1>6. k \in 1 .. Len(w) /\ i \in 1 .. Len(fs) /\ i <= Len(fr)
  <2>1. /\ Len(p) \in Nat /\ Len(u) \in Nat /\ Len(w) \in Nat
        /\ Len(fs) \in Nat /\ Len(fr) \in Nat
    BY <1>1
  <2>2. Len(p) + Len(u) <= Len(fs) /\ Len(p) + Len(w) <= Len(fr)
    BY <1>3
  <2>3. QED
    BY <1>5, <2>1, <2>2
<1>7. fs[i] = u[k] /\ fr[i] = w[k]
  BY <1>3, <1>6
<1> HIDE DEF i
<1>8. Apart(fs, fr)
  BY <1>5, <1>6, <1>7 DEF Apart
<1>9. QED
  BY <1>8 DEF fs, fr

\* So does a mark at the end with which no piece begins.
LEMMA FlattenEnds ==
    ASSUME NEW s \in Pieces, NEW r \in Pieces, Len(s) < Len(r),
           \A i \in 1 .. Len(s) : s[i] = r[i],
           NEW z \in Nat, Len(r[Len(s) + 1]) > 0, r[Len(s) + 1][1] # z
    PROVE  Apart(FlattenSeq(s) \o <<z>>, FlattenSeq(r) \o <<z>>)
<1> DEFINE c == Len(s)
           fs == FlattenSeq(s)
           fr == FlattenSeq(r)
           w == r[c + 1]
<1>1. /\ c \in Nat /\ Len(r) \in Nat
      /\ fs \in Seq(Nat) /\ fr \in Seq(Nat) /\ w \in Seq(Nat)
  <2>1. Len(s) + 1 \in 1 .. Len(r)
    BY PiecesAre
  <2>2. QED
    BY <2>1, PiecesAre, FlattenIs
<1>2. PICK p \in Seq(Nat) : SplitAt(s, c, p) /\ SplitAt(r, c, p)
  <2>1. c \in Nat /\ c <= Len(s) /\ c <= Len(r) /\ \A i \in 1 .. c : s[i] = r[i]
    BY <1>1
  <2> HIDE DEF c
  <2>2. QED
    BY <2>1, FlattenSplit
<1>3. /\ fs = p
      /\ Len(p) + Len(w) <= Len(fr) /\ \A k \in 1 .. Len(w) : fr[Len(p) + k] = w[k]
  BY <1>2 DEF SplitAt
<1>4. Len(w) > 0 /\ w[1] # z
  OBVIOUS
<1> HIDE DEF c, fs, fr, w
<1> DEFINE i == Len(p) + 1
           us == fs \o <<z>>
           ur == fr \o <<z>>
<1>5. i \in 1 .. Len(us) /\ us[i] = z
  BY <1>3
<1>6. i \in 1 .. Len(fr) /\ fr[i] = w[1]
  <2>1. Len(p) \in Nat /\ Len(w) \in Nat /\ Len(fr) \in Nat /\ Len(w) > 0
    BY <1>1, <1>4
  <2>2. Len(p) + Len(w) <= Len(fr)
    BY <1>3
  <2>3. i \in 1 .. Len(fr)
    BY <2>1, <2>2
  <2>4. 1 \in 1 .. Len(w)
    BY <2>1
  <2>5. fr[i] = w[1]
    BY <1>3, <2>4
  <2>6. QED
    BY <2>3, <2>5
<1>7. i <= Len(ur) /\ ur[i] = w[1]
  BY <1>1, <1>6
<1> HIDE DEF i, us, ur
<1>8. Apart(us, ur)
  BY <1>4, <1>5, <1>7 DEF Apart
<1>9. QED
  BY <1>8 DEF us, ur, fs, fr

-----------------------------------------------------------------------------
(* Texts. *)

Unicode == Seq(ScalarValue)

\* After c characters, which they share, a and b differ or one of them ends.
PartAt(a, b, c) ==
    /\ c \in Nat /\ c <= Len(a) /\ c <= Len(b)
    /\ \A i \in 1 .. c : a[i] = b[i]
    /\ c < Len(a) \/ c < Len(b)
    /\ c < Len(a) /\ c < Len(b) => a[c + 1] # b[c + 1]

LEMMA PartAnywhere ==
    ASSUME NEW S, NEW a \in Seq(S), NEW b \in Seq(S), a # b
    PROVE  \E c : PartAt(a, b, c)
<1> DEFINE T == {i \in Nat : \/ i >= Len(a) \/ i >= Len(b)
                            \/ a[i + 1] # b[i + 1]}
<1>1. /\ Len(a) \in Nat /\ Len(b) \in Nat
      /\ a = [i \in 1 .. Len(a) |-> a[i]] /\ b = [i \in 1 .. Len(b) |-> b[i]]
  OBVIOUS
<1>2. T # {} /\ T \subseteq Nat
  <2>1. Len(a) \in T
    BY <1>1
  <2>2. QED
    BY <2>1
<1>3. PICK c \in T : \A i \in T : c <= i
  BY <1>2, Least
<1>4. c <= Len(a) /\ c <= Len(b) /\ c \in Nat
  <2>1. Len(a) \in T /\ Len(b) \in T
    BY <1>1
  <2>2. QED
    BY <1>3, <2>1
<1>5. ASSUME NEW i \in 1 .. c
      PROVE  a[i] = b[i]
  <2>1. i - 1 \in Nat /\ ~(c <= i - 1) /\ (i - 1) + 1 = i
    BY <1>4
  <2>2. i - 1 \notin T
    <3> HIDE DEF T
    <3>1. QED
      BY <1>3, <2>1
  <2>3. QED
    BY <2>1, <2>2
<1>6. c < Len(a) \/ c < Len(b)
  <2> SUFFICES ASSUME c = Len(a), c = Len(b)
               PROVE  FALSE
    BY <1>1, <1>4
  <2>1. \A i \in 1 .. c : a[i] = b[i]
    BY <1>5
  <2>2. a = b
    BY <1>1, <2>1
  <2>3. QED
    BY <2>2
<1>7. c < Len(a) /\ c < Len(b) => a[c + 1] # b[c + 1]
  BY <1>1, <1>3
<1>8. QED
  BY <1>4, <1>5, <1>6, <1>7 DEF PartAt

LEMMA PartSomewhere ==
    ASSUME NEW a \in Unicode, NEW b \in Unicode, a # b
    PROVE  \E c : PartAt(a, b, c)
  BY PartAnywhere DEF Unicode

-----------------------------------------------------------------------------
(* Code units. *)

LEMMA UTF16IsUnits ==
    ASSUME NEW r \in ScalarValue
    PROVE  /\ UTF16(r) \in Seq(Nat)
           /\ Len(UTF16(r)) \in 1 .. 2 /\ Len(UTF16(r)) \in Nat /\ Len(UTF16(r)) > 0
<1>1. r \in Nat
  BY DEF ScalarValue
<1>2. CASE r < 65536
  <2>1. UTF16(r) = <<r>>
    BY <1>2 DEF UTF16
  <2>2. QED
    BY <1>1, <2>1
<1>3. CASE ~(r < 65536)
  <2> DEFINE h == 55296 + ((r - 65536) \div 1024)
             l == 56320 + ((r - 65536) % 1024)
  <2>1. h \in Nat /\ l \in Nat
    BY <1>1, <1>3
  <2>2. UTF16(r) = <<h, l>>
    BY <1>3 DEF UTF16
  <2> HIDE DEF h, l
  <2>3. QED
    BY <2>1, <2>2
<1>4. QED
  BY <1>2, <1>3

\* What a text is encoded as, character by character.
Encoded(t) == [i \in DOMAIN t |-> UTF16(t[i])]

LEMMA TextIs ==
    ASSUME NEW t \in Unicode
    PROVE  /\ Len(t) \in Nat /\ t \in [1 .. Len(t) -> ScalarValue]
           /\ \A i \in 1 .. Len(t) : t[i] \in ScalarValue
  BY DEF Unicode

LEMMA EncodedIs ==
    ASSUME NEW t \in Unicode
    PROVE  /\ Encoded(t) \in Pieces /\ Len(Encoded(t)) = Len(t)
           /\ \A i \in 1 .. Len(t) : Encoded(t)[i] = UTF16(t[i])
           /\ Units(t) = FlattenSeq(Encoded(t)) /\ Units(t) \in Seq(Nat)
<1>1. Len(t) \in Nat /\ DOMAIN t = 1 .. Len(t)
  BY DEF Unicode
<1>2. \A i \in 1 .. Len(t) : UTF16(t[i]) \in Seq(Nat)
  BY TextIs, UTF16IsUnits
<1>3. /\ Encoded(t) \in [1 .. Len(t) -> Seq(Nat)]
      /\ \A i \in 1 .. Len(t) : Encoded(t)[i] = UTF16(t[i])
  BY <1>1, <1>2 DEF Encoded
<1>4. Encoded(t) \in Pieces /\ Len(Encoded(t)) = Len(t)
  BY <1>1, <1>3 DEF Pieces
<1>5. Units(t) = FlattenSeq(Encoded(t))
  BY DEF Units, Encoded
<1>6. QED
  BY <1>3, <1>4, <1>5, FlattenIs

LEMMA UnitsSplit ==
    ASSUME NEW a \in Unicode, NEW b \in Unicode, NEW c \in Nat,
           c <= Len(a), c <= Len(b), \A i \in 1 .. c : a[i] = b[i]
    PROVE  \E p \in Seq(Nat) : SplitAt(Encoded(a), c, p) /\ SplitAt(Encoded(b), c, p)
<1> DEFINE s == Encoded(a)
           r == Encoded(b)
<1>1. s \in Pieces /\ r \in Pieces /\ c <= Len(s) /\ c <= Len(r)
  BY EncodedIs
<1>2. \A i \in 1 .. c : s[i] = r[i]
  <2> TAKE i \in 1 .. c
  <2>1. i \in 1 .. Len(a) /\ i \in 1 .. Len(b) /\ a[i] = b[i]
    BY TextIs
  <2>2. QED
    BY <2>1, EncodedIs
<1> HIDE DEF s, r
<1>3. \E p \in Seq(Nat) : SplitAt(s, c, p) /\ SplitAt(r, c, p)
  BY <1>1, <1>2, FlattenSplit
<1>4. QED
  BY <1>3 DEF s, r

\* utf16.Encode tells any two characters apart, and in the order of their ranks.
LEMMA UnitsRank ==
    ASSUME NEW x \in ScalarValue, NEW y \in ScalarValue, x # y
    PROVE  \E q \in 1 .. 2 :
             /\ q <= Len(UTF16(x)) /\ q <= Len(UTF16(y))
             /\ \A k \in 1 .. q - 1 : UTF16(x)[k] = UTF16(y)[k]
             /\ UTF16(x)[q] # UTF16(y)[q]
             /\ UTF16(x)[q] < UTF16(y)[q] <=> Rank(x) < Rank(y)
<1> DEFINE h(r) == 55296 + ((r - 65536) \div 1024)
           l(r) == 56320 + ((r - 65536) % 1024)
<1>1. /\ x \in Nat /\ x < 17 * 65536 /\ (x < 55296 \/ x >= 57344)
      /\ y \in Nat /\ y < 17 * 65536 /\ (y < 55296 \/ y >= 57344)
  BY DEF ScalarValue
<1>2. ASSUME NEW r \in {x, y}, r >= 65536
      PROVE  /\ h(r) \in Nat /\ l(r) \in Nat
             /\ h(r) >= 55296 /\ h(r) < 57344
             /\ UTF16(r) = <<h(r), l(r)>>
  <2>1. r \in Nat /\ r < 17 * 65536
    BY <1>1
  <2>2. h(r) \in Nat /\ l(r) \in Nat /\ h(r) >= 55296 /\ h(r) < 57344
    BY <1>2, <2>1
  <2>3. UTF16(r) = <<h(r), l(r)>>
    BY <1>2, <2>1 DEF UTF16
  <2>4. QED
    BY <2>2, <2>3
<1>3. ASSUME NEW r \in {x, y}, r < 65536
      PROVE  UTF16(r) = <<r>>
  BY <1>3 DEF UTF16
<1>4. ASSUME x >= 65536, y >= 65536
      PROVE  /\ h(x) = h(y) => (l(x) < l(y) <=> x < y) /\ l(x) # l(y)
             /\ h(x) # h(y) => (h(x) < h(y) <=> x < y)
  BY <1>1, <1>4
<1> HIDE DEF h, l
<1>5. CASE x < 65536 /\ y < 65536
  <2>1. UTF16(x) = <<x>> /\ UTF16(y) = <<y>>
    BY <1>3, <1>5
  <2>2. x < y <=> Rank(x) < Rank(y)
    BY <1>1, <1>5 DEF Rank
  <2>3. QED
    BY <2>1, <2>2
<1>6. CASE x < 65536 /\ y >= 65536
  <2>1. UTF16(x) = <<x>> /\ UTF16(y) = <<h(y), l(y)>>
    BY <1>2, <1>3, <1>6
  <2>2. x # h(y) /\ (x < h(y) <=> Rank(x) < Rank(y))
    BY <1>1, <1>2, <1>6 DEF Rank
  <2>3. QED
    BY <2>1, <2>2
<1>7. CASE x >= 65536 /\ y < 65536
  <2>1. UTF16(y) = <<y>> /\ UTF16(x) = <<h(x), l(x)>>
    BY <1>2, <1>3, <1>7
  <2>2. h(x) # y /\ (h(x) < y <=> Rank(x) < Rank(y))
    BY <1>1, <1>2, <1>7 DEF Rank
  <2>3. QED
    BY <2>1, <2>2
<1>8. CASE x >= 65536 /\ y >= 65536
  <2>1. UTF16(x) = <<h(x), l(x)>> /\ UTF16(y) = <<h(y), l(y)>>
    BY <1>2, <1>8
  <2>2. Rank(x) = x /\ Rank(y) = y
    BY <1>1, <1>8 DEF Rank
  <2>3. CASE h(x) = h(y)
    BY <1>4, <1>8, <2>1, <2>2, <2>3
  <2>4. CASE h(x) # h(y)
    BY <1>4, <1>8, <2>1, <2>2, <2>4
  <2>5. QED
    BY <2>3, <2>4
<1>9. QED
  BY <1>1, <1>5, <1>6, <1>7, <1>8

LEMMA RanksAtParting ==
    ASSUME NEW a \in Unicode, NEW b \in Unicode, NEW c, PartAt(a, b, c)
    PROVE  RanksBefore(a, b) <=>
             c < Len(b) /\ (c < Len(a) => Rank(a[c + 1]) < Rank(b[c + 1]))
<1>1. Len(a) \in Nat /\ Len(b) \in Nat
  BY TextIs
<1>2. /\ c \in Nat /\ c <= Len(a) /\ c <= Len(b)
      /\ \A i \in 1 .. c : a[i] = b[i]
      /\ c < Len(a) /\ c < Len(b) => a[c + 1] # b[c + 1]
  BY DEF PartAt
<1>3. ASSUME RanksBefore(a, b)
      PROVE  c < Len(b) /\ (c < Len(a) => Rank(a[c + 1]) < Rank(b[c + 1]))
  <2>1. PICK n \in 0 .. Len(a) :
          /\ n <= Len(b) /\ \A i \in 1 .. n : a[i] = b[i]
          /\ n < Len(b) /\ (n < Len(a) => Rank(a[n + 1]) < Rank(b[n + 1]))
    BY <1>3 DEF RanksBefore
  <2>2. ~(c < n)
    <3> SUFFICES ASSUME c < n
                 PROVE  FALSE
      OBVIOUS
    <3>1. c + 1 \in 1 .. n /\ c < Len(a) /\ c < Len(b)
      BY <1>1, <1>2, <2>1
    <3>2. QED
      BY <1>2, <2>1, <3>1
  <2>3. ~(n < c)
    <3> SUFFICES ASSUME n < c
                 PROVE  FALSE
      OBVIOUS
    <3>1. n + 1 \in 1 .. c /\ n < Len(a)
      BY <1>1, <1>2, <2>1
    <3>2. a[n + 1] = b[n + 1] /\ Rank(a[n + 1]) < Rank(b[n + 1])
      BY <1>2, <2>1, <3>1
    <3>3. Rank(a[n + 1]) \in Int
      <4>1. n + 1 \in 1 .. Len(a)
        BY <1>1, <2>1, <3>1
      <4>2. a[n + 1] \in Nat
        BY <4>1, TextIs DEF ScalarValue
      <4>3. QED
        BY <4>2 DEF Rank
    <3>4. QED
      BY <3>2, <3>3
  <2>4. n = c
    BY <1>2, <2>1, <2>2, <2>3
  <2>5. QED
    BY <2>1, <2>4
<1>4. ASSUME c < Len(b), c < Len(a) => Rank(a[c + 1]) < Rank(b[c + 1])
      PROVE  RanksBefore(a, b)
  <2>1. c \in 0 .. Len(a)
    BY <1>1, <1>2
  <2>2. QED
    BY <1>2, <1>4, <2>1 DEF RanksBefore
<1>5. QED
  BY <1>3, <1>4

-----------------------------------------------------------------------------
(* What CompareUTF16 answers. *)

LEMMA CompareAtDifference ==
    ASSUME NEW a, NEW b, Units(a) \in Seq(Nat), Units(b) \in Seq(Nat),
           NEW d \in 1 .. Len(Units(a)), d <= Len(Units(b)),
           \A k \in 1 .. d - 1 : Units(a)[k] = Units(b)[k],
           Units(a)[d] # Units(b)[d]
    PROVE  CompareUTF16(a, b) = Units(a)[d] - Units(b)[d]
<1> DEFINE ua == Units(a)
           ub == Units(b)
           n == IF Len(ua) < Len(ub) THEN Len(ua) ELSE Len(ub)
           differ == {i \in 1 .. n : ua[i] # ub[i]}
           i == CHOOSE j \in differ : \A k \in differ : j <= k
<1>1. d \in differ
  OBVIOUS
<1>2. \A k \in differ : d <= k
  <2> SUFFICES ASSUME NEW k \in differ, k < d
               PROVE  FALSE
    OBVIOUS
  <2>1. k \in 1 .. d - 1
    OBVIOUS
  <2>2. QED
    BY <2>1
<1>3. differ \subseteq Int
  OBVIOUS
<1>4. CompareUTF16(a, b) = IF differ = {} THEN Len(ua) - Len(ub) ELSE ua[i] - ub[i]
  BY DEF CompareUTF16
<1> HIDE DEF differ
<1>5. i \in differ /\ \A k \in differ : i <= k
  BY <1>1, <1>2
<1> HIDE DEF i
<1>6. i = d
  BY <1>1, <1>2, <1>3, <1>5
<1>7. QED
  BY <1>1, <1>4, <1>6

LEMMA CompareBegun ==
    ASSUME NEW a, NEW b, Units(a) \in Seq(Nat), Units(b) \in Seq(Nat),
           Begins(Units(a), Units(b)) \/ Begins(Units(b), Units(a))
    PROVE  CompareUTF16(a, b) = Len(Units(a)) - Len(Units(b))
<1> DEFINE ua == Units(a)
           ub == Units(b)
           n == IF Len(ua) < Len(ub) THEN Len(ua) ELSE Len(ub)
           differ == {i \in 1 .. n : ua[i] # ub[i]}
           i == CHOOSE j \in differ : \A k \in differ : j <= k
<1>1. differ = {}
  BY DEF Begins
<1>2. CompareUTF16(a, b) = IF differ = {} THEN Len(ua) - Len(ub) ELSE ua[i] - ub[i]
  BY DEF CompareUTF16
<1>3. QED
  BY <1>1, <1>2

\* Where one of two texts ends.
LEMMA CompareAtEnd ==
    ASSUME NEW a \in Unicode, NEW b \in Unicode, NEW c, PartAt(a, b, c), c = Len(a)
    PROVE  /\ Begins(Units(a), Units(b)) /\ Len(Units(a)) < Len(Units(b))
           /\ CompareUTF16(a, b) < 0 /\ CompareUTF16(b, a) > 0
<1>1. /\ c \in Nat /\ c < Len(b) /\ c <= Len(a) /\ c <= Len(b)
      /\ \A i \in 1 .. c : a[i] = b[i]
  BY DEF PartAt
<1>2. PICK p \in Seq(Nat) : SplitAt(Encoded(a), c, p) /\ SplitAt(Encoded(b), c, p)
  BY <1>1, UnitsSplit
<1>3. /\ Units(a) = p /\ Begins(p, Units(b))
      /\ Len(p) + Len(UTF16(b[c + 1])) <= Len(Units(b))
  <2>1. /\ Len(Encoded(a)) = Len(a) /\ Units(a) = FlattenSeq(Encoded(a))
        /\ Len(Encoded(b)) = Len(b) /\ Units(b) = FlattenSeq(Encoded(b))
    BY EncodedIs
  <2>2. Encoded(b)[c + 1] = UTF16(b[c + 1])
    <3>1. c + 1 \in 1 .. Len(b)
      BY <1>1, TextIs
    <3>2. QED
      BY <3>1, EncodedIs
  <2>3. QED
    BY <1>1, <1>2, <2>1, <2>2 DEF SplitAt
<1>4. Len(UTF16(b[c + 1])) \in Nat /\ Len(UTF16(b[c + 1])) > 0
  <2> DEFINE y == b[c + 1]
  <2>1. c + 1 \in 1 .. Len(b)
    BY <1>1, TextIs
  <2>2. y \in ScalarValue
    BY <2>1, TextIs
  <2> HIDE DEF y
  <2>3. Len(UTF16(y)) \in Nat /\ Len(UTF16(y)) > 0
    BY <2>2, UTF16IsUnits
  <2>4. QED
    BY <2>3 DEF y
<1>5. Units(a) \in Seq(Nat) /\ Units(b) \in Seq(Nat)
  BY EncodedIs
<1>6. Begins(Units(a), Units(b)) /\ Len(Units(a)) < Len(Units(b))
  <2>1. Len(Units(a)) + Len(UTF16(b[c + 1])) <= Len(Units(b))
    BY <1>3
  <2>2. Len(Units(a)) \in Nat /\ Len(Units(b)) \in Nat
    BY <1>5
  <2>3. Len(Units(a)) < Len(Units(b))
    <3> DEFINE l == Len(UTF16(b[c + 1]))
    <3>1. l \in Nat /\ l > 0 /\ Len(Units(a)) + l <= Len(Units(b))
      BY <1>4, <2>1
    <3> HIDE DEF l
    <3>2. QED
      BY <2>2, <3>1
  <2>4. QED
    BY <1>3, <2>3
<1>7. /\ CompareUTF16(a, b) = Len(Units(a)) - Len(Units(b))
      /\ CompareUTF16(b, a) = Len(Units(b)) - Len(Units(a))
  BY <1>5, <1>6, CompareBegun
<1>8. QED
  BY <1>5, <1>6, <1>7

\* Where two texts have different characters.
LEMMA CompareAtCharacter ==
    ASSUME NEW a \in Unicode, NEW b \in Unicode, NEW c, PartAt(a, b, c),
           c < Len(a), c < Len(b)
    PROVE  /\ CompareUTF16(a, b) < 0 <=> Rank(a[c + 1]) < Rank(b[c + 1])
           /\ CompareUTF16(a, b) \in Int /\ CompareUTF16(a, b) # 0
<1> DEFINE x == a[c + 1]
           y == b[c + 1]
           ua == Units(a)
           ub == Units(b)
<1>1. c \in Nat /\ c <= Len(a) /\ c <= Len(b) /\ x # y /\ \A i \in 1 .. c : a[i] = b[i]
  BY DEF PartAt
<1>2. PICK p \in Seq(Nat) : SplitAt(Encoded(a), c, p) /\ SplitAt(Encoded(b), c, p)
  BY <1>1, UnitsSplit
<1>3. /\ Begins(p, ua) /\ Len(p) + Len(UTF16(x)) <= Len(ua)
      /\ \A k \in 1 .. Len(UTF16(x)) : ua[Len(p) + k] = UTF16(x)[k]
      /\ Begins(p, ub) /\ Len(p) + Len(UTF16(y)) <= Len(ub)
      /\ \A k \in 1 .. Len(UTF16(y)) : ub[Len(p) + k] = UTF16(y)[k]
  <2>1. /\ Len(Encoded(a)) = Len(a) /\ ua = FlattenSeq(Encoded(a))
        /\ Len(Encoded(b)) = Len(b) /\ ub = FlattenSeq(Encoded(b))
    BY EncodedIs
  <2>2. Encoded(a)[c + 1] = UTF16(x) /\ Encoded(b)[c + 1] = UTF16(y)
    <3>1. c + 1 \in 1 .. Len(a) /\ c + 1 \in 1 .. Len(b)
      BY <1>1, TextIs
    <3>2. QED
      BY <3>1, EncodedIs
  <2>3. c < Len(Encoded(a)) /\ c < Len(Encoded(b))
    BY <2>1
  <2> HIDE DEF x, y, ua, ub
  <2>4. QED
    BY <1>2, <2>1, <2>2, <2>3 DEF SplitAt
<1>4. x \in ScalarValue /\ y \in ScalarValue
  <2>1. c + 1 \in 1 .. Len(a) /\ c + 1 \in 1 .. Len(b)
    BY <1>1, TextIs
  <2>2. QED
    BY <2>1, TextIs
<1>5. ua \in Seq(Nat) /\ ub \in Seq(Nat)
  BY EncodedIs
<1> HIDE DEF x, y, ua, ub
<1>6. PICK q \in 1 .. 2 :
         /\ q <= Len(UTF16(x)) /\ q <= Len(UTF16(y))
         /\ \A k \in 1 .. q - 1 : UTF16(x)[k] = UTF16(y)[k]
         /\ UTF16(x)[q] # UTF16(y)[q]
         /\ UTF16(x)[q] < UTF16(y)[q] <=> Rank(x) < Rank(y)
  BY <1>1, <1>4, UnitsRank
<1>7. /\ Len(p) \in Nat /\ Len(ua) \in Nat /\ Len(ub) \in Nat
      /\ Len(UTF16(x)) \in 1 .. 2 /\ Len(UTF16(y)) \in 1 .. 2
  BY <1>4, <1>5, UTF16IsUnits
<1> DEFINE d == Len(p) + q
<1>8. ua[d] = UTF16(x)[q] /\ ub[d] = UTF16(y)[q]
  <2>1. q \in 1 .. Len(UTF16(x)) /\ q \in 1 .. Len(UTF16(y))
    BY <1>6, <1>7
  <2>2. QED
    BY <1>3, <2>1
<1>9. d \in 1 .. Len(ua) /\ d <= Len(ub) /\ d \in 1 .. Len(ub)
  BY <1>3, <1>6, <1>7
<1>10. ASSUME NEW k \in 1 .. d - 1
       PROVE  ua[k] = ub[k]
  <2>1. CASE k <= Len(p)
    <3>1. k \in 1 .. Len(p)
      BY <1>7, <2>1
    <3>2. QED
      BY <1>3, <3>1 DEF Begins
  <2>2. CASE ~(k <= Len(p))
    <3> DEFINE l == k - Len(p)
    <3>1. /\ l \in 1 .. q - 1 /\ Len(p) + l = k
          /\ l \in 1 .. Len(UTF16(x)) /\ l \in 1 .. Len(UTF16(y))
      BY <1>6, <1>7, <2>2
    <3> HIDE DEF l
    <3>2. ua[Len(p) + l] = UTF16(x)[l] /\ ub[Len(p) + l] = UTF16(y)[l]
      BY <1>3, <3>1
    <3>3. UTF16(x)[l] = UTF16(y)[l]
      BY <1>6, <3>1
    <3>4. QED
      BY <3>1, <3>2, <3>3
  <2>3. QED
    BY <2>1, <2>2
<1> HIDE DEF d
<1>11. ua[d] # ub[d]
  BY <1>6, <1>8
<1>12. CompareUTF16(a, b) = ua[d] - ub[d]
  BY <1>5, <1>9, <1>10, <1>11, CompareAtDifference DEF ua, ub
<1>13. ua[d] \in Nat /\ ub[d] \in Nat
  BY <1>5, <1>9
<1>14. CompareUTF16(a, b) < 0 <=> ua[d] < ub[d]
  BY <1>12, <1>13
<1>15. CompareUTF16(a, b) \in Int /\ CompareUTF16(a, b) # 0
  BY <1>11, <1>12, <1>13
<1>16. QED
  BY <1>6, <1>8, <1>14, <1>15 DEF x, y

-----------------------------------------------------------------------------
(* The order of names: theorems. *)

\* For all texts, comparing UTF-16 code units is the order of RFC 8785.
THEOREM UnitsOrderIsRankOrder ==
    \A a, b \in Unicode : CompareUTF16(a, b) < 0 <=> RanksBefore(a, b)
<1> TAKE a, b \in Unicode
<1>1. Len(a) \in Nat /\ Len(b) \in Nat
  BY TextIs
<1>2. CASE a = b
  <2>1. CompareUTF16(a, b) = 0
    <3>1. Units(a) \in Seq(Nat)
      BY EncodedIs
    <3>2. QED
      BY <1>2, <3>1, CompareBegun DEF Begins
  <2>2. ~RanksBefore(a, b)
    <3> SUFFICES ASSUME NEW n \in 0 .. Len(a), n < Len(a), Rank(a[n + 1]) < Rank(a[n + 1])
                 PROVE  FALSE
      BY <1>2 DEF RanksBefore
    <3>1. n + 1 \in 1 .. Len(a)
      BY <1>1
    <3>2. a[n + 1] \in Nat
      BY <3>1, TextIs DEF ScalarValue
    <3>3. QED
      BY <3>2 DEF Rank
  <2>3. QED
    BY <2>1, <2>2
<1>3. CASE a # b
  <2>1. PICK c : PartAt(a, b, c)
    BY <1>3, PartSomewhere
  <2>2. RanksBefore(a, b) <=>
          c < Len(b) /\ (c < Len(a) => Rank(a[c + 1]) < Rank(b[c + 1]))
    BY <2>1, RanksAtParting
  <2>3. /\ c \in Nat /\ c <= Len(a) /\ c <= Len(b)
        /\ c < Len(a) \/ c < Len(b)
    BY <2>1 DEF PartAt
  <2>4. CASE c = Len(a)
    <3>1. CompareUTF16(a, b) < 0
      BY <2>1, <2>4, CompareAtEnd
    <3>2. QED
      BY <1>1, <2>2, <2>3, <2>4, <3>1
  <2>5. CASE c = Len(b)
    <3>1. PartAt(b, a, c)
      BY <2>1 DEF PartAt
    <3>2. CompareUTF16(a, b) > 0
      BY <2>5, <3>1, CompareAtEnd
    <3>3. ~(CompareUTF16(a, b) < 0)
      <4>1. Units(a) \in Seq(Nat) /\ Units(b) \in Seq(Nat) /\ Begins(Units(b), Units(a))
        BY <2>5, <3>1, CompareAtEnd, EncodedIs
      <4>2. CompareUTF16(a, b) = Len(Units(a)) - Len(Units(b))
        BY <4>1, CompareBegun
      <4>3. QED
        BY <3>2, <4>1, <4>2
    <3>4. QED
      BY <1>1, <2>2, <2>3, <2>5, <3>3
  <2>6. CASE c < Len(a) /\ c < Len(b)
    BY <2>1, <2>2, <2>6, CompareAtCharacter
  <2>7. QED
    BY <1>1, <2>3, <2>4, <2>5, <2>6
<1>4. QED
  BY <1>2, <1>3

\* The order of names is a strict total order: sorting them, by whatever
\* algorithm, has one result.
THEOREM UnitsOrderStrictTotal ==
    \A a, b, d \in Unicode :
      /\ ~(CompareUTF16(a, a) < 0)
      /\ CompareUTF16(a, b) < 0 \/ a = b \/ CompareUTF16(b, a) < 0
      /\ CompareUTF16(a, b) < 0 /\ CompareUTF16(b, d) < 0 => CompareUTF16(a, d) < 0
<1> TAKE a, b, d \in Unicode
<1>1. \A t \in Unicode : Len(t) \in Nat /\ \A i \in 1 .. Len(t) : Rank(t[i]) \in Nat
  <2>1. \A r \in ScalarValue : Rank(r) \in Nat
    BY DEF Rank, ScalarValue
  <2>2. QED
    BY <2>1, TextIs
<1>2. ~RanksBefore(a, a)
  <2> SUFFICES ASSUME NEW n \in 0 .. Len(a), n < Len(a), Rank(a[n + 1]) < Rank(a[n + 1])
               PROVE  FALSE
    BY DEF RanksBefore
  <2>1. n + 1 \in 1 .. Len(a)
    BY <1>1
  <2>2. QED
    BY <1>1, <2>1
<1>3. RanksBefore(a, b) \/ a = b \/ RanksBefore(b, a)
  <2> SUFFICES ASSUME a # b
               PROVE  RanksBefore(a, b) \/ RanksBefore(b, a)
    OBVIOUS
  <2>1. PICK c : PartAt(a, b, c)
    BY PartSomewhere
  <2>2. PartAt(b, a, c)
    BY <2>1 DEF PartAt
  <2>3. /\ RanksBefore(a, b) <=>
             c < Len(b) /\ (c < Len(a) => Rank(a[c + 1]) < Rank(b[c + 1]))
        /\ RanksBefore(b, a) <=>
             c < Len(a) /\ (c < Len(b) => Rank(b[c + 1]) < Rank(a[c + 1]))
    BY <2>1, <2>2, RanksAtParting
  <2>4. c < Len(a) /\ c < Len(b) =>
          Rank(a[c + 1]) < Rank(b[c + 1]) \/ Rank(b[c + 1]) < Rank(a[c + 1])
    <3> SUFFICES ASSUME c < Len(a), c < Len(b)
                 PROVE  Rank(a[c + 1]) < Rank(b[c + 1]) \/ Rank(b[c + 1]) < Rank(a[c + 1])
      OBVIOUS
    <3>1. c + 1 \in 1 .. Len(a) /\ c + 1 \in 1 .. Len(b) /\ a[c + 1] # b[c + 1]
      BY <1>1, <2>1 DEF PartAt
    <3>2. a[c + 1] \in ScalarValue /\ b[c + 1] \in ScalarValue
      BY <3>1, TextIs
    <3>3. \A x, y \in ScalarValue : x # y => Rank(x) < Rank(y) \/ Rank(y) < Rank(x)
      BY DEF ScalarValue, Rank
    <3>4. QED
      BY <3>1, <3>2, <3>3
  <2>5. c < Len(a) \/ c < Len(b)
    BY <2>1 DEF PartAt
  <2>6. QED
    BY <2>3, <2>4, <2>5
<1>4. ASSUME RanksBefore(a, b), RanksBefore(b, d)
      PROVE  RanksBefore(a, d)
  <2>1. PICK n \in 0 .. Len(a) :
          /\ n <= Len(b) /\ \A i \in 1 .. n : a[i] = b[i]
          /\ n < Len(b) /\ (n < Len(a) => Rank(a[n + 1]) < Rank(b[n + 1]))
    BY <1>4 DEF RanksBefore
  <2>2. PICK m \in 0 .. Len(b) :
          /\ m <= Len(d) /\ \A i \in 1 .. m : b[i] = d[i]
          /\ m < Len(d) /\ (m < Len(b) => Rank(b[m + 1]) < Rank(d[m + 1]))
    BY <1>4 DEF RanksBefore
  <2>3. CASE n < m
    <3>1. n + 1 \in 1 .. m /\ n < Len(d) /\ n <= Len(d)
      BY <1>1, <2>1, <2>2, <2>3
    <3>2. b[n + 1] = d[n + 1]
      BY <2>2, <3>1
    <3>3. \A i \in 1 .. n : a[i] = d[i]
      BY <2>1, <2>2, <2>3
    <3>4. QED
      BY <2>1, <3>1, <3>2, <3>3 DEF RanksBefore
  <2>4. CASE ~(n < m)
    <3>1. m <= n /\ m \in 0 .. Len(a) /\ m < Len(b) /\ m \in Nat /\ n \in Nat
      BY <1>1, <2>1, <2>2, <2>4
    <3>2. \A i \in 1 .. m : a[i] = d[i]
      BY <2>1, <2>2, <3>1
    <3>3. m < Len(a) => Rank(a[m + 1]) < Rank(d[m + 1])
      <4> SUFFICES ASSUME m < Len(a)
                   PROVE  Rank(a[m + 1]) < Rank(d[m + 1])
        OBVIOUS
      <4>1. /\ m + 1 \in 1 .. Len(a) /\ m + 1 \in 1 .. Len(b) /\ m + 1 \in 1 .. Len(d)
        BY <1>1, <2>2, <3>1
      <4>2. /\ Rank(a[m + 1]) \in Nat /\ Rank(b[m + 1]) \in Nat /\ Rank(d[m + 1]) \in Nat
        BY <1>1, <4>1
      <4>3. Rank(b[m + 1]) < Rank(d[m + 1])
        BY <2>2, <3>1
      <4>4. CASE m = n
        BY <2>1, <4>2, <4>3, <4>4
      <4>5. CASE m < n
        <5>1. m + 1 \in 1 .. n
          BY <3>1, <4>5
        <5>2. a[m + 1] = b[m + 1]
          BY <2>1, <5>1
        <5>3. QED
          BY <4>3, <5>2
      <4>6. QED
        BY <3>1, <4>4, <4>5
    <3>4. QED
      BY <2>2, <3>1, <3>2, <3>3 DEF RanksBefore
  <2>5. QED
    BY <2>3, <2>4
<1>5. QED
  BY <1>2, <1>3, <1>4, UnitsOrderIsRankOrder

-----------------------------------------------------------------------------
(* Strings. *)

\* Escapes are not empty, and none begins as a string ends.
LEMMA EscapeIs ==
    ASSUME NEW r \in ScalarValue
    PROVE  /\ Escape(r) \in Seq(Nat)
           /\ Len(Escape(r)) \in Nat /\ Len(Escape(r)) > 0 /\ Escape(r)[1] # 34
<1>1. r \in Nat
  BY DEF ScalarValue
<1>2. CASE r \in DOMAIN ShortEscape
  <2>1. Escape(r) = <<92, ShortEscape[r]>>
    BY <1>2 DEF Escape
  <2>2. ShortEscape[r] \in Nat
    BY <1>1, <1>2 DEF ShortEscape
  <2>3. QED
    BY <2>1, <2>2
<1>3. CASE r \notin DOMAIN ShortEscape /\ r < 32
  <2> DEFINE h == HexDigit(r \div 16)
             l == HexDigit(r % 16)
  <2>1. h \in Nat /\ l \in Nat
    BY <1>1, <1>3 DEF HexDigit
  <2>2. Escape(r) = <<92, 117, 48, 48, h, l>>
    BY <1>3 DEF Escape
  <2> HIDE DEF h, l
  <2>3. QED
    BY <2>1, <2>2
<1>4. CASE r \notin DOMAIN ShortEscape /\ ~(r < 32)
  <2>1. Escape(r) = <<r>> /\ r # 34
    BY <1>4 DEF Escape, ShortEscape
  <2>2. QED
    BY <1>1, <2>1
<1>5. QED
  BY <1>2, <1>3, <1>4

\* Two escapes differ at a place both have.
LEMMA EscapesDiffer ==
    ASSUME NEW x \in ScalarValue, NEW y \in ScalarValue, x # y
    PROVE  \E q \in Nat \ {0} :
             /\ q <= Len(Escape(x)) /\ q <= Len(Escape(y))
             /\ Escape(x)[q] # Escape(y)[q]
<1> DEFINE Short == {34, 92, 8, 12, 10, 13, 9}
           h(r) == HexDigit(r \div 16)
           l(r) == HexDigit(r % 16)
<1>1. x \in Nat /\ y \in Nat
  BY DEF ScalarValue
<1>2. ASSUME NEW r \in {x, y}
      PROVE  /\ r \in Short => Escape(r) = <<92, ShortEscape[r]>>
             /\ r \notin Short /\ r < 32 => Escape(r) = <<92, 117, 48, 48, h(r), l(r)>>
             /\ r \notin Short /\ ~(r < 32) => Escape(r) = <<r>> /\ r # 92
  BY DEF Escape, ShortEscape
<1>3. /\ x \in Short => ShortEscape[x] # 117
      /\ y \in Short => ShortEscape[y] # 117
      /\ x \in Short /\ y \in Short => ShortEscape[x] # ShortEscape[y]
  BY DEF ShortEscape
<1>4. x < 32 /\ y < 32 => h(x) # h(y) \/ l(x) # l(y)
  <2> SUFFICES ASSUME x < 32, y < 32, h(x) = h(y), l(x) = l(y)
               PROVE  FALSE
    OBVIOUS
  <2>1. x \div 16 \in 0 .. 1 /\ y \div 16 \in 0 .. 1 /\ x % 16 \in 0 .. 15 /\ y % 16 \in 0 .. 15
    BY <1>1
  <2>2. \A m, n \in 0 .. 15 : HexDigit(m) = HexDigit(n) => m = n
    BY DEF HexDigit
  <2>3. x \div 16 = y \div 16 /\ x % 16 = y % 16
    BY <2>1, <2>2
  <2>4. QED
    BY <1>1, <2>3
<1> HIDE DEF h, l
<1>5. CASE x \in Short /\ y \in Short
  <2>1. Escape(x) = <<92, ShortEscape[x]>> /\ Escape(y) = <<92, ShortEscape[y]>>
    BY <1>2, <1>5
  <2>2. QED
    BY <1>3, <1>5, <2>1
<1>6. CASE x \in Short /\ y \notin Short
  <2>1. Escape(x) = <<92, ShortEscape[x]>>
    BY <1>2, <1>6
  <2>2. Escape(y) = <<92, 117, 48, 48, h(y), l(y)>> \/ (Escape(y) = <<y>> /\ y # 92)
    BY <1>2, <1>6
  <2>3. ShortEscape[x] # 117
    BY <1>3, <1>6
  <2> HIDE DEF Short
  <2>4. CASE Escape(y) = <<92, 117, 48, 48, h(y), l(y)>>
    <3>1. Escape(x)[2] # Escape(y)[2] /\ Len(Escape(x)) = 2 /\ Len(Escape(y)) = 6
      BY <2>1, <2>3, <2>4
    <3>2. QED
      BY <3>1
  <2>5. CASE Escape(y) = <<y>> /\ y # 92
    <3>1. Escape(x)[1] # Escape(y)[1] /\ Len(Escape(x)) = 2 /\ Len(Escape(y)) = 1
      BY <2>1, <2>5
    <3>2. QED
      BY <3>1
  <2>6. QED
    BY <2>2, <2>4, <2>5
<1>7. CASE x \notin Short /\ y \in Short
  <2>1. Escape(y) = <<92, ShortEscape[y]>>
    BY <1>2, <1>7
  <2>2. Escape(x) = <<92, 117, 48, 48, h(x), l(x)>> \/ (Escape(x) = <<x>> /\ x # 92)
    BY <1>2, <1>7
  <2>3. ShortEscape[y] # 117
    BY <1>3, <1>7
  <2> HIDE DEF Short
  <2>4. CASE Escape(x) = <<92, 117, 48, 48, h(x), l(x)>>
    <3>1. Escape(y)[2] # Escape(x)[2] /\ Len(Escape(y)) = 2 /\ Len(Escape(x)) = 6
      BY <2>1, <2>3, <2>4
    <3>2. QED
      BY <3>1
  <2>5. CASE Escape(x) = <<x>> /\ x # 92
    <3>1. Escape(y)[1] # Escape(x)[1] /\ Len(Escape(y)) = 2 /\ Len(Escape(x)) = 1
      BY <2>1, <2>5
    <3>2. QED
      BY <3>1
  <2>6. QED
    BY <2>2, <2>4, <2>5
<1>8. CASE x \notin Short /\ y \notin Short
  <2>1. \/ x < 32 /\ Escape(x) = <<92, 117, 48, 48, h(x), l(x)>>
        \/ Escape(x) = <<x>> /\ x # 92
    BY <1>2, <1>8
  <2>2. \/ y < 32 /\ Escape(y) = <<92, 117, 48, 48, h(y), l(y)>>
        \/ Escape(y) = <<y>> /\ y # 92
    BY <1>2, <1>8
  <2> HIDE DEF Short
  <2>3. CASE Escape(x) = <<x>> /\ x # 92
    <3>1. Escape(x)[1] # Escape(y)[1] /\ Len(Escape(x)) = 1 /\ Len(Escape(y)) >= 1
      BY <2>2, <2>3
    <3>2. QED
      BY <3>1
  <2>4. CASE Escape(y) = <<y>> /\ y # 92
    <3>1. Escape(x)[1] # Escape(y)[1] /\ Len(Escape(x)) >= 1 /\ Len(Escape(y)) = 1
      BY <2>1, <2>4
    <3>2. QED
      BY <3>1
  <2>5. CASE /\ x < 32 /\ Escape(x) = <<92, 117, 48, 48, h(x), l(x)>>
             /\ y < 32 /\ Escape(y) = <<92, 117, 48, 48, h(y), l(y)>>
    <3>1. /\ Escape(x)[5] # Escape(y)[5] \/ Escape(x)[6] # Escape(y)[6]
          /\ Len(Escape(x)) = 6 /\ Len(Escape(y)) = 6
      BY <1>4, <2>5
    <3>2. QED
      BY <3>1
  <2>6. QED
    BY <2>1, <2>2, <2>3, <2>4, <2>5
<1>9. QED
  BY <1>5, <1>6, <1>7, <1>8

Escaped(t) == [i \in DOMAIN t |-> Escape(t[i])]

LEMMA EscapedIs ==
    ASSUME NEW t \in Unicode
    PROVE  /\ Escaped(t) \in Pieces /\ Len(Escaped(t)) = Len(t)
           /\ \A i \in 1 .. Len(t) : Escaped(t)[i] = Escape(t[i])
<1>1. Len(t) \in Nat /\ DOMAIN t = 1 .. Len(t)
  BY DEF Unicode
<1>2. \A i \in 1 .. Len(t) : Escape(t[i]) \in Seq(Nat)
  BY TextIs, EscapeIs
<1>3. /\ Escaped(t) \in [1 .. Len(t) -> Seq(Nat)]
      /\ \A i \in 1 .. Len(t) : Escaped(t)[i] = Escape(t[i])
  BY <1>1, <1>2 DEF Escaped
<1>4. QED
  BY <1>1, <1>3 DEF Pieces

\* A string is its escapes between quotes.
LEMMA AppendStringIs ==
    ASSUME NEW t \in Unicode
    PROVE  LET w == AppendString(t)
               f == FlattenSeq(Escaped(t))
           IN  /\ f \in Seq(Nat) /\ Len(w) = Len(f) + 2
               /\ w[Len(f) + 2] = 34
               /\ \A k \in 1 .. Len(f) : w[k + 1] = f[k]
<1> DEFINE f == FlattenSeq(Escaped(t))
<1>1. f \in Seq(Nat) /\ AppendString(t) = <<34>> \o f \o <<34>>
  BY EscapedIs, FlattenIs DEF AppendString, Escaped
<1> HIDE DEF f
<1> DEFINE w == <<34>> \o f \o <<34>>
<1>2. Len(f) \in Nat /\ Len(w) = Len(f) + 2
  BY <1>1
<1>3. w[Len(f) + 2] = 34
  BY <1>1
<1>4. \A k \in 1 .. Len(f) : w[k + 1] = f[k]
  BY <1>1
<1> HIDE DEF w
<1>5. AppendString(t) = w
  BY <1>1 DEF w
<1>6. QED
  BY <1>1, <1>2, <1>3, <1>4, <1>5 DEF f

LEMMA EscapesApart ==
    ASSUME NEW x \in ScalarValue, NEW y \in ScalarValue, x # y
    PROVE  Apart(Escape(x), Escape(y))
<1>1. PICK q \in Nat \ {0} : /\ q <= Len(Escape(x)) /\ q <= Len(Escape(y))
                             /\ Escape(x)[q] # Escape(y)[q]
  BY EscapesDiffer
<1>2. q \in 1 .. Len(Escape(x))
  BY <1>1, EscapeIs
<1>3. QED
  BY <1>1, <1>2 DEF Apart

\* Two different strings differ at a place both have.
LEMMA StringsDiffer ==
    ASSUME NEW a \in Unicode, NEW b \in Unicode, NEW c, PartAt(a, b, c)
    PROVE  Apart(AppendString(a), AppendString(b))
<1> DEFINE s == Escaped(a)
           r == Escaped(b)
           fs == FlattenSeq(s)
           fr == FlattenSeq(r)
<1>1. /\ c \in Nat /\ c <= Len(a) /\ c <= Len(b)
      /\ Len(a) \in Nat /\ Len(b) \in Nat /\ (c < Len(a) \/ c < Len(b))
      /\ c < Len(a) /\ c < Len(b) => a[c + 1] # b[c + 1]
  BY TextIs DEF PartAt
<1>2. /\ s \in Pieces /\ Len(s) = Len(a) /\ fs \in Seq(Nat)
      /\ r \in Pieces /\ Len(r) = Len(b) /\ fr \in Seq(Nat)
  BY EscapedIs, FlattenIs
<1>3. ASSUME NEW i \in 1 .. c
      PROVE  s[i] = r[i]
  <2>1. i \in 1 .. Len(a) /\ i \in 1 .. Len(b) /\ a[i] = b[i]
    BY <1>1 DEF PartAt
  <2>2. QED
    BY <2>1, EscapedIs
<1>4. \A t \in {a, b} : c < Len(t) =>
        t[c + 1] \in ScalarValue /\ Escaped(t)[c + 1] = Escape(t[c + 1])
  <2> TAKE t \in {a, b}
  <2> HAVE c < Len(t)
  <2>1. c + 1 \in 1 .. Len(t)
    BY <1>1
  <2>2. QED
    BY <2>1, TextIs, EscapedIs
<1>5. Apart(fs \o <<34>>, fr \o <<34>>)
  <2> HIDE DEF s, r
  <2>1. CASE c < Len(a) /\ c < Len(b)
    <3>1. s[c + 1] = Escape(a[c + 1]) /\ r[c + 1] = Escape(b[c + 1])
      BY <1>4, <2>1 DEF s, r
    <3>2. Apart(s[c + 1], r[c + 1])
      BY <1>1, <1>4, <2>1, <3>1, EscapesApart
    <3>3. Apart(fs, fr)
      BY <1>1, <1>2, <1>3, <2>1, <3>2, FlattenApart
    <3>4. <<34>> \in Seq(Nat)
      OBVIOUS
    <3> HIDE DEF fs, fr
    <3>5. QED
      BY <1>2, <3>3, <3>4, ApartBefore
  <2>2. CASE c = Len(a)
    <3>1. r[c + 1] = Escape(b[c + 1]) /\ b[c + 1] \in ScalarValue
      BY <1>1, <1>4, <2>2 DEF r
    <3>2. Len(r[c + 1]) > 0 /\ r[c + 1][1] # 34
      BY <3>1, EscapeIs
    <3>3. Len(s) = c /\ Len(s) < Len(r)
      BY <1>1, <1>2, <2>2
    <3>4. QED
      BY <1>2, <1>3, <3>2, <3>3, FlattenEnds
  <2>3. CASE c = Len(b)
    <3>1. s[c + 1] = Escape(a[c + 1]) /\ a[c + 1] \in ScalarValue
      BY <1>1, <1>4, <2>3 DEF s
    <3>2. Len(s[c + 1]) > 0 /\ s[c + 1][1] # 34
      BY <3>1, EscapeIs
    <3>3. Len(r) = c /\ Len(r) < Len(s)
      BY <1>1, <1>2, <2>3
    <3>4. Apart(fr \o <<34>>, fs \o <<34>>)
      BY <1>2, <1>3, <3>2, <3>3, FlattenEnds
    <3> DEFINE u == fr \o <<34>>
               w == fs \o <<34>>
    <3>5. u \in Seq(Nat) /\ w \in Seq(Nat)
      BY <1>2
    <3> HIDE DEF u, w
    <3>6. Apart(u, w)
      BY <3>4 DEF u, w
    <3>7. Apart(w, u)
      BY <3>5, <3>6, ApartSwapped
    <3>8. QED
      BY <3>7 DEF u, w
  <2>4. QED
    BY <1>1, <2>1, <2>2, <2>3
<1> DEFINE u == fs \o <<34>>
           w == fr \o <<34>>
<1>6. /\ u \in Seq(Nat) /\ w \in Seq(Nat) /\ <<34>> \in Seq(Nat)
      /\ AppendString(a) = <<34>> \o u /\ AppendString(b) = <<34>> \o w
  <2>1. /\ AppendString(a) = <<34>> \o fs \o <<34>>
        /\ AppendString(b) = <<34>> \o fr \o <<34>>
    BY DEF AppendString, Escaped
  <2>2. \A f \in Seq(Nat) : /\ f \o <<34>> \in Seq(Nat)
                           /\ <<34>> \o f \o <<34>> = <<34>> \o (f \o <<34>>)
    OBVIOUS
  <2>3. <<34>> \in Seq(Nat)
    OBVIOUS
  <2> HIDE DEF fs, fr
  <2>4. QED
    BY <1>2, <2>1, <2>2, <2>3
<1> HIDE DEF u, w
<1>7. Apart(u, w)
  BY <1>5 DEF u, w
<1>8. Apart(<<34>> \o u, <<34>> \o w)
  BY <1>6, <1>7, ApartAfter
<1>9. QED
  BY <1>6, <1>8

LEMMA StringsApart ==
    ASSUME NEW a \in Unicode, NEW b \in Unicode, a # b
    PROVE  Apart(AppendString(a), AppendString(b))
  BY PartSomewhere, StringsDiffer

\* No string is the beginning of another one, so that none is two texts and its
\* end needs no separator.
THEOREM StringsReadable ==
    \A a, b \in Unicode : Begins(AppendString(a), AppendString(b)) => a = b
<1> SUFFICES ASSUME NEW a \in Unicode, NEW b \in Unicode, a # b,
                    Begins(AppendString(a), AppendString(b))
             PROVE  FALSE
  OBVIOUS
<1>1. Apart(AppendString(a), AppendString(b))
  BY StringsApart
<1>2. QED
  BY <1>1 DEF Apart, Begins

-----------------------------------------------------------------------------
(* The names of an object, in order. *)

Before(a, b) == CompareUTF16(a, b) < 0

LEMMA BeforeOrders ==
    ASSUME NEW a \in Unicode, NEW b \in Unicode, NEW d \in Unicode
    PROVE  /\ ~Before(a, a)
           /\ Before(a, b) \/ a = b \/ Before(b, a)
           /\ Before(a, b) /\ Before(b, d) => Before(a, d)
  BY UnitsOrderStrictTotal DEF Before

\* An enumeration of K in the order of its names.
Ascending(K, s) ==
    /\ s \in [1 .. Cardinality(K) -> K]
    /\ \A i, j \in DOMAIN s : i < j => Before(s[i], s[j])

\* A finite set of names has one: each name stands where the names before it
\* have been counted.
LEMMA NamesAscend ==
    ASSUME NEW K, K \subseteq Unicode, IsFiniteSet(K)
    PROVE  \E s : Ascending(K, s)
<1> DEFINE n == Cardinality(K)
           Less(k) == {j \in K : Before(j, k)}
           place == [k \in K |-> Cardinality(Less(k)) + 1]
<1>1. n \in Nat /\ Cardinality(1 .. n) = n /\ IsFiniteSet(1 .. n)
  BY FS_CardinalityType, FS_Interval
<1>2. ASSUME NEW k \in K
      PROVE  /\ IsFiniteSet(Less(k)) /\ Cardinality(Less(k)) \in Nat
             /\ Cardinality(Less(k)) < n
  <2>1. Less(k) \in SUBSET K /\ k \notin Less(k)
    BY BeforeOrders
  <2> HIDE DEF Less
  <2>2. /\ IsFiniteSet(Less(k)) /\ Cardinality(Less(k)) <= n
        /\ n = Cardinality(Less(k)) => K = Less(k)
    BY <2>1, FS_Subset
  <2>3. Cardinality(Less(k)) \in Nat
    BY <2>2, FS_CardinalityType
  <2> HIDE DEF n
  <2>4. Cardinality(Less(k)) # n
    BY <2>1, <2>2
  <2>5. QED
    BY <1>1, <2>2, <2>3, <2>4
<1>3. ASSUME NEW j \in K, NEW k \in K, Before(j, k)
      PROVE  Cardinality(Less(j)) < Cardinality(Less(k))
  <2>1. Less(j) \in SUBSET Less(k)
    BY <1>3, BeforeOrders
  <2>2. j \in Less(k) /\ j \notin Less(j)
    BY <1>3, BeforeOrders
  <2>3. /\ IsFiniteSet(Less(k)) /\ Cardinality(Less(k)) \in Nat
        /\ Cardinality(Less(j)) \in Nat
    BY <1>2
  <2> HIDE DEF Less
  <2>4. /\ Cardinality(Less(j)) <= Cardinality(Less(k))
        /\ Cardinality(Less(k)) = Cardinality(Less(j)) => Less(k) = Less(j)
    BY <2>1, <2>3, FS_Subset
  <2>5. Cardinality(Less(k)) # Cardinality(Less(j))
    BY <2>2, <2>4
  <2>6. QED
    BY <2>3, <2>4, <2>5
<1>4. /\ place \in [K -> 1 .. n]
      /\ \A j, k \in K : Before(j, k) => place[j] < place[k]
  <2> HIDE DEF Less, n
  <2>1. \A k \in K : Cardinality(Less(k)) + 1 \in 1 .. n
    BY <1>1, <1>2
  <2>2. \A j, k \in K : Before(j, k) => Cardinality(Less(j)) + 1 < Cardinality(Less(k)) + 1
    BY <1>2, <1>3
  <2>3. QED
    BY <2>1, <2>2
<1> HIDE DEF place
<1>5. \A j, k \in K : place[j] = place[k] => j = k
  <2> SUFFICES ASSUME NEW j \in K, NEW k \in K, place[j] = place[k], j # k
               PROVE  FALSE
    OBVIOUS
  <2>1. Before(j, k) \/ Before(k, j)
    BY BeforeOrders
  <2>2. place[j] \in Int /\ place[k] \in Int
    BY <1>1, <1>4
  <2>3. QED
    BY <1>4, <2>1, <2>2
<1>6. place \in Surjection(K, 1 .. n)
  <2>1. place \in Injection(K, 1 .. n)
    BY <1>4, <1>5 DEF Injection, IsInjective
  <2> HIDE DEF n
  <2>2. Cardinality(K) = Cardinality(1 .. n)
    BY <1>1 DEF n
  <2>3. QED
    BY <1>1, <2>1, <2>2, FS_Injection
<1>7. \A i \in 1 .. n : \E k \in K : place[k] = i
  BY <1>6 DEF Surjection
<1> DEFINE s == [i \in 1 .. n |-> CHOOSE k \in K : place[k] = i]
<1>8. s \in [1 .. n -> K] /\ \A i \in 1 .. n : place[s[i]] = i
  <2> HIDE DEF n
  <2>1. QED
    BY <1>7
<1> HIDE DEF s
<1>9. ASSUME NEW i \in 1 .. n, NEW j \in 1 .. n, i < j
      PROVE  Before(s[i], s[j])
  <2>1. s[i] \in K /\ s[j] \in K /\ place[s[i]] = i /\ place[s[j]] = j
    BY <1>8
  <2>2. i \in Int /\ j \in Int
    BY <1>1
  <2>3. s[i] # s[j] /\ ~Before(s[j], s[i])
    BY <1>4, <1>9, <2>1, <2>2
  <2>4. QED
    BY <2>1, <2>3, BeforeOrders
<1>10. Ascending(K, s)
  BY <1>8, <1>9 DEF Ascending
<1>11. QED
  BY <1>10

\* An object's names are finitely many.
LEMMA KeysFinite ==
    ASSUME NEW V, NEW members \in Seq(Unicode \X V)
    PROVE  Keys(members) \subseteq Unicode /\ IsFiniteSet(Keys(members))
<1> DEFINE n == Len(members)
           f == [i \in 1 .. n |-> members[i][1]]
<1>1. n \in Nat /\ DOMAIN members = 1 .. n /\ \A i \in 1 .. n : members[i][1] \in Unicode
  OBVIOUS
<1>2. Keys(members) = {members[i][1] : i \in 1 .. n}
  BY <1>1 DEF Keys
<1>3. f \in Surjection(1 .. n, Keys(members))
  <2> HIDE DEF n
  <2>1. f \in [1 .. n -> Keys(members)]
    BY <1>2
  <2>2. \A k \in Keys(members) : \E i \in 1 .. n : f[i] = k
    BY <1>2
  <2> HIDE DEF f
  <2>3. QED
    BY <2>1, <2>2 DEF Surjection
<1>4. IsFiniteSet(1 .. n)
  BY <1>1, FS_Interval
<1>5. QED
  BY <1>1, <1>2, <1>3, <1>4, FS_Surjection

LEMMA SortedKeysAscend ==
    ASSUME NEW V, NEW members \in Seq(Unicode \X V)
    PROVE  Ascending(Keys(members), SortedKeys(members))
<1> DEFINE K == Keys(members)
           Fits(s) == \A i, j \in DOMAIN s : i < j => CompareUTF16(s[i], s[j]) < 0
<1>1. SortedKeys(members) = CHOOSE s \in [1 .. Cardinality(K) -> K] : Fits(s)
  BY DEF SortedKeys
<1>2. \E s \in [1 .. Cardinality(K) -> K] : Fits(s)
  <2>1. K \subseteq Unicode /\ IsFiniteSet(K)
    BY KeysFinite
  <2>2. PICK s : Ascending(K, s)
    BY <2>1, NamesAscend
  <2>3. QED
    BY <2>2 DEF Ascending, Before
<1>3. SortedKeys(members) \in [1 .. Cardinality(K) -> K] /\ Fits(SortedKeys(members))
  <2> HIDE DEF K, Fits
  <2>1. QED
    BY <1>1, <1>2
<1>4. QED
  BY <1>3 DEF Ascending, Before

-----------------------------------------------------------------------------
(* The documents: theorem. *)

\* A document that is an object has names, each with a value.
DocumentInv == left.kind = "object" => left.members \in Seq(Name \X Small)

LEMMA DocumentHolds == Spec => []DocumentInv
<1>1. Init => DocumentInv
  <2> SUFFICES ASSUME Init, left.kind = "object"
               PROVE  left.members \in Seq(Name \X Small)
    BY DEF DocumentInv
  <2>1. CASE left \in Scalar
    <3>1. left.kind \in {"word", "string", "number"}
      BY <2>1, DocumentAssumption
    <3>2. QED
      BY <3>1
  <2>2. CASE left = Arr(<<>>)
    BY <2>2 DEF Arr
  <2>3. CASE left = Obj(<<>>)
    BY <2>3 DEF Obj
  <2>4. QED
    BY <2>1, <2>2, <2>3 DEF Init
<1>2. DocumentInv /\ [Next]_vars => DocumentInv'
  <2> SUFFICES ASSUME DocumentInv, [Next]_vars
               PROVE  DocumentInv'
    OBVIOUS
  <2>1. CASE left' = left
    BY <2>1 DEF DocumentInv
  <2>2. CASE left' \in Longer(left)
    <3>1. CASE left.kind = "array"
      <4>1. left'.kind = "array"
        BY <2>2, <3>1 DEF Longer, Arr
      <4>2. QED
        BY <4>1 DEF DocumentInv
    <3>2. CASE left.kind = "object"
      <4>1. PICK k \in Name, v \in Small : left' = Obj(Append(left.members, <<k, v>>))
        <5> DEFINE Wider == {Obj(Append(left.members, <<k, v>>)) : k \in Name, v \in Small}
        <5>1. left.kind # "array"
          BY <3>2
        <5>2. Longer(left) = IF Len(left.members) < MaxMembers THEN Wider ELSE {}
          BY <3>2, <5>1 DEF Longer
        <5> HIDE DEF Wider
        <5>3. left' \in Wider
          BY <2>2, <5>2
        <5>4. QED
          BY <5>3 DEF Wider
      <4>2. left.members \in Seq(Name \X Small)
        BY <3>2 DEF DocumentInv
      <4>3. Append(left.members, <<k, v>>) \in Seq(Name \X Small)
        BY <4>2
      <4>4. QED
        BY <4>1, <4>3 DEF DocumentInv, Obj
    <3>3. QED
      BY <2>2, <3>1, <3>2 DEF Longer
  <2>3. QED
    BY <2>1, <2>2 DEF Next, Write, Exchange, vars
<1>3. QED
  BY <1>1, <1>2, PTL DEF Spec

\* Whatever the names, and in whatever order they were written: the order they
\* are signed in is that of RFC 8785.
THEOREM MembersInUTF16OrderCorrect == Spec => []MembersInUTF16Order
<1>1. DocumentInv => MembersInUTF16Order
  <2> SUFFICES ASSUME DocumentInv, left.kind = "object"
               PROVE  LET keys == SortedKeys(left.members)
                      IN  \A i, j \in DOMAIN keys : i < j => RanksBefore(keys[i], keys[j])
    BY DEF MembersInUTF16Order
  <2> DEFINE keys == SortedKeys(left.members)
             K == Keys(left.members)
  <2>1. left.members \in Seq(Unicode \X Small)
    <3>1. left.members \in Seq(Name \X Small) /\ Name \subseteq Unicode
      BY DocumentAssumption DEF DocumentInv, Unicode
    <3>2. Name \X Small \subseteq Unicode \X Small
      BY <3>1
    <3>3. QED
      BY <3>1, <3>2
  <2>2. Ascending(K, keys) /\ K \subseteq Unicode
    BY <2>1, SortedKeysAscend, KeysFinite
  <2> HIDE DEF keys, K
  <2>3. ASSUME NEW i \in DOMAIN keys, NEW j \in DOMAIN keys, i < j
        PROVE  RanksBefore(keys[i], keys[j])
    <3>1. keys[i] \in Unicode /\ keys[j] \in Unicode /\ CompareUTF16(keys[i], keys[j]) < 0
      BY <2>2, <2>3 DEF Ascending, Before
    <3>2. QED
      BY <3>1, UnitsOrderIsRankOrder
  <2>4. QED
    BY <2>3 DEF keys
<1>2. QED
  BY <1>1, DocumentHolds, PTL

-----------------------------------------------------------------------------
(* Lists and objects. *)

\* The texts Joined flattens: a comma before each but the first.
Listed(texts) == [i \in DOMAIN texts |-> IF i > 1 THEN <<44>> \o texts[i] ELSE texts[i]]

LEMMA ListedIs ==
    ASSUME NEW texts \in Pieces
    PROVE  /\ Listed(texts) \in Pieces /\ Len(Listed(texts)) = Len(texts)
           /\ Joined(texts) = FlattenSeq(Listed(texts)) /\ Joined(texts) \in Seq(Nat)
           /\ \A i \in 1 .. Len(texts) :
                Listed(texts)[i] = IF i > 1 THEN <<44>> \o texts[i] ELSE texts[i]
<1>1. /\ Len(texts) \in Nat /\ DOMAIN texts = 1 .. Len(texts)
      /\ \A i \in 1 .. Len(texts) : texts[i] \in Seq(Nat)
  BY DEF Pieces
<1>2. \A i \in 1 .. Len(texts) : <<44>> \o texts[i] \in Seq(Nat)
  <2> TAKE i \in 1 .. Len(texts)
  <2>1. texts[i] \in Seq(Nat) /\ <<44>> \in Seq(Nat)
    BY <1>1
  <2>2. QED
    BY <2>1
<1>3. /\ Listed(texts) \in [1 .. Len(texts) -> Seq(Nat)]
      /\ \A i \in 1 .. Len(texts) :
           Listed(texts)[i] = IF i > 1 THEN <<44>> \o texts[i] ELSE texts[i]
  <2> DEFINE member(i) == IF i > 1 THEN <<44>> \o texts[i] ELSE texts[i]
  <2>1. \A i \in 1 .. Len(texts) : member(i) \in Seq(Nat)
    BY <1>1, <1>2
  <2>2. Listed(texts) = [i \in 1 .. Len(texts) |-> member(i)]
    BY <1>1 DEF Listed
  <2> HIDE DEF member
  <2>3. /\ Listed(texts) \in [1 .. Len(texts) -> Seq(Nat)]
        /\ \A i \in 1 .. Len(texts) : Listed(texts)[i] = member(i)
    BY <2>1, <2>2
  <2>4. QED
    BY <2>3 DEF member
<1>4. Listed(texts) \in Pieces /\ Len(Listed(texts)) = Len(texts)
  <2>1. Listed(texts) \in [1 .. Len(texts) -> Seq(Nat)]
    BY <1>3
  <2>2. Len(texts) \in Nat
    BY <1>1
  <2>3. QED
    BY <2>1, <2>2, PiecesFrom
<1>5. Joined(texts) = FlattenSeq(Listed(texts))
  BY DEF Joined, Listed
<1>6. QED
  BY <1>3, <1>4, <1>5, FlattenIs

\* Members that are apart set the lists of them apart.
LEMMA JoinedApart ==
    ASSUME NEW s \in Pieces, NEW r \in Pieces,
           NEW c \in Nat, c < Len(s), c < Len(r),
           \A i \in 1 .. c : s[i] = r[i], Apart(s[c + 1], r[c + 1])
    PROVE  Apart(Joined(s), Joined(r))
<1>1. /\ Listed(s) \in Pieces /\ Len(Listed(s)) = Len(s) /\ Len(s) \in Nat
      /\ Listed(r) \in Pieces /\ Len(Listed(r)) = Len(r) /\ Len(r) \in Nat
      /\ Joined(s) = FlattenSeq(Listed(s)) /\ Joined(r) = FlattenSeq(Listed(r))
  BY ListedIs, PiecesAre
<1>2. ASSUME NEW i \in 1 .. c
      PROVE  Listed(s)[i] = Listed(r)[i]
  <2>1. i \in 1 .. Len(s) /\ i \in 1 .. Len(r) /\ s[i] = r[i]
    BY <1>1
  <2>2. QED
    BY <2>1, ListedIs
<1> DEFINE u == s[c + 1]
           w == r[c + 1]
<1>3. Apart(Listed(s)[c + 1], Listed(r)[c + 1])
  <2>1. c + 1 \in 1 .. Len(s) /\ c + 1 \in 1 .. Len(r)
    BY <1>1
  <2>2. /\ Listed(s)[c + 1] = IF c + 1 > 1 THEN <<44>> \o u ELSE u
        /\ Listed(r)[c + 1] = IF c + 1 > 1 THEN <<44>> \o w ELSE w
    BY <2>1, ListedIs
  <2>3. u \in Seq(Nat) /\ w \in Seq(Nat) /\ <<44>> \in Seq(Nat) /\ Apart(u, w)
    BY <2>1, PiecesAre
  <2> HIDE DEF u, w
  <2>4. Apart(<<44>> \o u, <<44>> \o w)
    BY <2>3, ApartAfter
  <2>5. QED
    BY <2>2, <2>3, <2>4
<1>4. c < Len(Listed(s)) /\ c < Len(Listed(r))
  BY <1>1
<1>5. Apart(FlattenSeq(Listed(s)), FlattenSeq(Listed(r)))
  <2> DEFINE ls == Listed(s)
             lr == Listed(r)
  <2>1. /\ ls \in Pieces /\ lr \in Pieces /\ c < Len(ls) /\ c < Len(lr)
        /\ \A i \in 1 .. c : ls[i] = lr[i]
        /\ Apart(ls[c + 1], lr[c + 1])
    BY <1>1, <1>2, <1>3, <1>4
  <2> HIDE DEF ls, lr
  <2>2. Apart(FlattenSeq(ls), FlattenSeq(lr))
    BY <2>1, FlattenApart
  <2>3. QED
    BY <2>2 DEF ls, lr
<1>6. QED
  BY <1>1, <1>5

-----------------------------------------------------------------------------
(* The canonical form of an envelope's parts. *)

Strings(parts) == [i \in DOMAIN parts |-> AppendString(parts[i])]

LEMMA StringIs ==
    ASSUME NEW t \in Unicode
    PROVE  /\ AppendString(t) \in Seq(Nat)
           /\ Len(AppendString(t)) > 0 /\ AppendString(t)[1] = 34
<1> DEFINE f == FlattenSeq(Escaped(t))
<1>1. f \in Seq(Nat) /\ AppendString(t) = <<34>> \o f \o <<34>>
  BY EscapedIs, FlattenIs DEF AppendString, Escaped
<1> HIDE DEF f
<1>2. QED
  BY <1>1

LEMMA StringsAre ==
    ASSUME NEW p \in Seq(Unicode)
    PROVE  /\ Strings(p) \in Pieces /\ Len(Strings(p)) = Len(p) /\ Len(p) \in Nat
           /\ \A i \in 1 .. Len(p) : p[i] \in Unicode /\ Strings(p)[i] = AppendString(p[i])
<1>1. /\ Len(p) \in Nat /\ DOMAIN p = 1 .. Len(p)
      /\ \A i \in 1 .. Len(p) : p[i] \in Unicode
  OBVIOUS
<1>2. \A i \in 1 .. Len(p) : AppendString(p[i]) \in Seq(Nat)
  BY <1>1, StringIs
<1>3. /\ Strings(p) \in [1 .. Len(p) -> Seq(Nat)]
      /\ \A i \in 1 .. Len(p) : Strings(p)[i] = AppendString(p[i])
  BY <1>1, <1>2 DEF Strings
<1>4. QED
  BY <1>1, <1>3 DEF Pieces

\* What follows the opening bracket.
PartsBody(parts) == Joined(Strings(parts)) \o <<93>>

PartsForm(parts) == <<91>> \o PartsBody(parts)

LEMMA PartsBodyIs ==
    ASSUME NEW p \in Seq(Unicode)
    PROVE  /\ Joined(Strings(p)) \in Seq(Nat) /\ PartsBody(p) \in Seq(Nat)
           /\ PartsForm(p) \in Seq(Nat)
           /\ PartsForm(p) = <<91>> \o Joined(Strings(p)) \o <<93>>
<1>1. Joined(Strings(p)) \in Seq(Nat)
  BY StringsAre, ListedIs
<1>2. QED
  BY <1>1 DEF PartsBody, PartsForm

\* Where one of two lists of texts ends.
LEMMA PartsEnd ==
    ASSUME NEW p \in Seq(Unicode), NEW q \in Seq(Unicode), Len(p) < Len(q),
           \A i \in 1 .. Len(p) : p[i] = q[i]
    PROVE  Apart(PartsBody(p), PartsBody(q))
<1> DEFINE s == Strings(p)
           r == Strings(q)
           c == Len(p)
<1>1. /\ s \in Pieces /\ Len(s) = Len(p) /\ Len(p) \in Nat
      /\ r \in Pieces /\ Len(r) = Len(q) /\ Len(q) \in Nat
  BY StringsAre
<1>2. /\ Listed(s) \in Pieces /\ Len(Listed(s)) = c /\ Joined(s) = FlattenSeq(Listed(s))
      /\ Listed(r) \in Pieces /\ Len(Listed(r)) = Len(q) /\ Joined(r) = FlattenSeq(Listed(r))
  BY <1>1, ListedIs
<1>3. ASSUME NEW i \in 1 .. c
      PROVE  Listed(s)[i] = Listed(r)[i]
  <2>1. i \in 1 .. Len(p) /\ i \in 1 .. Len(q) /\ p[i] = q[i]
    BY <1>1
  <2>2. s[i] = r[i]
    BY <2>1, StringsAre
  <2>3. QED
    BY <1>1, <2>1, <2>2, ListedIs
<1>4. Len(Listed(r)[c + 1]) > 0 /\ Listed(r)[c + 1][1] # 93
  <2> DEFINE w == r[c + 1]
  <2>1. c + 1 \in 1 .. Len(q)
    BY <1>1
  <2>2. q[c + 1] \in Unicode /\ w = AppendString(q[c + 1])
    BY <2>1, StringsAre
  <2>3. w \in Seq(Nat) /\ Len(w) > 0 /\ w[1] = 34
    BY <2>2, StringIs
  <2>4. Listed(r)[c + 1] = IF c + 1 > 1 THEN <<44>> \o w ELSE w
    BY <1>1, <2>1, ListedIs
  <2> HIDE DEF w
  <2>5. Len(<<44>> \o w) > 0 /\ (<<44>> \o w)[1] = 44
    BY <2>3
  <2>6. QED
    BY <2>3, <2>4, <2>5
<1>5. Apart(FlattenSeq(Listed(s)) \o <<93>>, FlattenSeq(Listed(r)) \o <<93>>)
  <2> DEFINE ls == Listed(s)
             lr == Listed(r)
  <2>1. /\ ls \in Pieces /\ lr \in Pieces /\ Len(ls) < Len(lr)
        /\ \A i \in 1 .. Len(ls) : ls[i] = lr[i]
        /\ Len(lr[Len(ls) + 1]) > 0 /\ lr[Len(ls) + 1][1] # 93
    BY <1>2, <1>3, <1>4
  <2> HIDE DEF ls, lr
  <2>2. Apart(FlattenSeq(ls) \o <<93>>, FlattenSeq(lr) \o <<93>>)
    BY <2>1, 93 \in Nat, FlattenEnds
  <2>3. QED
    BY <2>2 DEF ls, lr
<1>6. QED
  BY <1>2, <1>5 DEF PartsBody

\* No list of texts is written like another one, wherever the cuts are.
LEMMA PartsApart ==
    ASSUME NEW p \in Seq(Unicode), NEW q \in Seq(Unicode), p # q
    PROVE  Apart(PartsForm(p), PartsForm(q))
<1> DEFINE s == Strings(p)
           r == Strings(q)
           js == Joined(s)
           jr == Joined(r)
<1>1. PICK c : PartAt(p, q, c)
  BY PartAnywhere
<1>2. /\ c \in Nat /\ c <= Len(p) /\ c <= Len(q)
      /\ Len(p) \in Nat /\ Len(q) \in Nat /\ (c < Len(p) \/ c < Len(q))
      /\ c < Len(p) /\ c < Len(q) => p[c + 1] # q[c + 1]
      /\ \A i \in 1 .. c : p[i] = q[i]
  BY <1>1, StringsAre DEF PartAt
<1>3. /\ s \in Pieces /\ Len(s) = Len(p) /\ js \in Seq(Nat)
      /\ r \in Pieces /\ Len(r) = Len(q) /\ jr \in Seq(Nat)
  BY StringsAre, ListedIs
<1>4. ASSUME NEW i \in 1 .. c
      PROVE  s[i] = r[i]
  <2>1. i \in 1 .. Len(p) /\ i \in 1 .. Len(q) /\ p[i] = q[i]
    BY <1>2
  <2>2. QED
    BY <2>1, StringsAre
<1>5. ASSUME c < Len(p), c < Len(q)
      PROVE  Apart(PartsBody(p), PartsBody(q))
  <2>1. c + 1 \in 1 .. Len(p) /\ c + 1 \in 1 .. Len(q)
    BY <1>2, <1>5
  <2>2. /\ s[c + 1] = AppendString(p[c + 1]) /\ p[c + 1] \in Unicode
        /\ r[c + 1] = AppendString(q[c + 1]) /\ q[c + 1] \in Unicode
    BY <2>1, StringsAre
  <2>3. Apart(s[c + 1], r[c + 1])
    BY <1>2, <1>5, <2>2, StringsApart
  <2> HIDE DEF s, r
  <2>4. Apart(js, jr)
    BY <1>2, <1>3, <1>4, <1>5, <2>3, JoinedApart
  <2>5. <<93>> \in Seq(Nat)
    OBVIOUS
  <2> HIDE DEF js, jr
  <2>6. Apart(js \o <<93>>, jr \o <<93>>)
    BY <1>3, <2>4, <2>5, ApartBefore
  <2>7. QED
    BY <2>6 DEF js, jr, s, r, PartsBody
<1>6. PartsBody(p) \in Seq(Nat) /\ PartsBody(q) \in Seq(Nat) /\ <<91>> \in Seq(Nat)
  BY PartsBodyIs
<1>7. Apart(PartsBody(p), PartsBody(q))
  <2>1. CASE c = Len(p)
    BY <1>2, <2>1, PartsEnd
  <2>2. CASE c = Len(q)
    <3>1. Apart(PartsBody(q), PartsBody(p))
      BY <1>2, <2>2, PartsEnd
    <3>2. QED
      BY <1>6, <3>1, ApartSwapped
  <2>3. QED
    BY <1>2, <1>5, <2>1, <2>2
<1>8. QED
  BY <1>6, <1>7, ApartAfter DEF PartsForm

-----------------------------------------------------------------------------
(* The canonical form of an envelope. *)

\* Its members' names.
Names == {<<98>>, <<115>>, <<116>>, <<118>>}

InOrder == << <<98>>, <<115>>, <<116>>, <<118>> >>

LEMMA NamesAre ==
    /\ Names \subseteq Unicode /\ IsFiniteSet(Names) /\ Cardinality(Names) = 4
    /\ \A k, l \in {98, 115, 116, 118} : Before(<<k>>, <<l>>) => k < l
<1>1. \A k \in {98, 115, 116, 118} : <<k>> \in Unicode /\ Rank(k) = k
  <2> TAKE k \in {98, 115, 116, 118}
  <2>1. k \in ScalarValue /\ Rank(k) = k
    BY DEF ScalarValue, Rank
  <2>2. QED
    BY <2>1 DEF Unicode
<1>2. Names \subseteq Unicode
  BY <1>1 DEF Names
<1>3. IsFiniteSet(Names) /\ Cardinality(Names) = 4
  <2> DEFINE A == {<<98>>}
             B == A \cup {<<115>>}
             C == B \cup {<<116>>}
             D == C \cup {<<118>>}
  <2>0. <<98>> # <<115>> /\ <<98>> # <<116>> /\ <<98>> # <<118>>
        /\ <<115>> # <<116>> /\ <<115>> # <<118>> /\ <<116>> # <<118>>
    OBVIOUS
  <2>1. IsFiniteSet(A) /\ Cardinality(A) = 1
    BY FS_Singleton
  <2>2. IsFiniteSet(B) /\ Cardinality(B) = 2
    <3>1. <<115>> \notin A
      BY <2>0
    <3> HIDE DEF A
    <3>2. QED
      BY <2>1, <3>1, FS_AddElement
  <2>3. IsFiniteSet(C) /\ Cardinality(C) = 3
    <3>1. <<116>> \notin B
      BY <2>0
    <3> HIDE DEF B
    <3>2. QED
      BY <2>2, <3>1, FS_AddElement
  <2>4. IsFiniteSet(D) /\ Cardinality(D) = 4
    <3>1. <<118>> \notin C
      BY <2>0
    <3> HIDE DEF C
    <3>2. QED
      BY <2>3, <3>1, FS_AddElement
  <2>5. Names = D
    BY DEF Names
  <2>6. QED
    BY <2>4, <2>5
<1>4. ASSUME NEW k \in {98, 115, 116, 118}, NEW l \in {98, 115, 116, 118},
             Before(<<k>>, <<l>>)
      PROVE  k < l
  <2>1. RanksBefore(<<k>>, <<l>>)
    BY <1>1, <1>4, UnitsOrderIsRankOrder DEF Before
  <2> DEFINE a == <<k>>
             b == <<l>>
  <2>2. Len(a) = 1 /\ Len(b) = 1 /\ a[1] = k /\ b[1] = l
    OBVIOUS
  <2> HIDE DEF a, b
  <2>3. PICK n \in 0 .. Len(a) : n < Len(b) /\ (n < Len(a) => Rank(a[n + 1]) < Rank(b[n + 1]))
    BY <2>1 DEF RanksBefore, a, b
  <2>4. n = 0
    BY <2>2, <2>3
  <2>5. Rank(a[1]) < Rank(b[1])
    BY <2>2, <2>3, <2>4
  <2>6. QED
    BY <1>1, <2>2, <2>5
<1>5. QED
  BY <1>2, <1>3, <1>4

LEMMA NamesSorted ==
    ASSUME NEW s, Ascending(Names, s)
    PROVE  s = InOrder
<1>1. s \in [1 .. 4 -> Names] /\ \A i, j \in 1 .. 4 : i < j => Before(s[i], s[j])
  BY NamesAre DEF Ascending
<1> DEFINE L == {98, 115, 116, 118}
<1>2. \A i \in 1 .. 4 : s[i] \in Names
  BY <1>1
<1>3. PICK h1 \in L, h2 \in L, h3 \in L, h4 \in L :
         s[1] = <<h1>> /\ s[2] = <<h2>> /\ s[3] = <<h3>> /\ s[4] = <<h4>>
  <2>1. \A x \in Names : \E k \in L : x = <<k>>
    BY DEF Names
  <2>2. s[1] \in Names /\ s[2] \in Names /\ s[3] \in Names /\ s[4] \in Names
    BY <1>2
  <2> HIDE DEF L
  <2>3. QED
    BY <2>1, <2>2
<1>4. Before(<<h1>>, <<h2>>) /\ Before(<<h2>>, <<h3>>) /\ Before(<<h3>>, <<h4>>)
  <2>1. Before(s[1], s[2]) /\ Before(s[2], s[3]) /\ Before(s[3], s[4])
    BY <1>1
  <2>2. QED
    BY <1>3, <2>1
<1>5. h1 < h2 /\ h2 < h3 /\ h3 < h4
  BY <1>4, NamesAre
<1>6. h1 = 98 /\ h2 = 115 /\ h3 = 116 /\ h4 = 118
  BY <1>5
<1>7. s[1] = InOrder[1] /\ s[2] = InOrder[2] /\ s[3] = InOrder[3] /\ s[4] = InOrder[4]
  BY <1>3, <1>6 DEF InOrder
<1>8. InOrder \in [1 .. 4 -> Names]
  BY DEF InOrder, Names
<1>9. \A i \in 1 .. 4 : s[i] = InOrder[i]
  <2>1. \A i \in 1 .. 4 : i = 1 \/ i = 2 \/ i = 3 \/ i = 4
    OBVIOUS
  <2>2. QED
    BY <1>7, <2>1
<1>10. QED
  BY <1>1, <1>8, <1>9

-----------------------------------------------------------------------------
(* What the members' values are written as. *)

LEMMA StrForm ==
    ASSUME NEW t
    PROVE  AppendScalar(Str(t)) = AppendString(t) /\ AppendInner(Str(t)) = AppendString(t)
  BY DEF AppendScalar, AppendInner, AppendLevel, Str

LEMMA PartsFormIs ==
    ASSUME NEW p \in Seq(Unicode)
    PROVE  AppendInner(Arr([i \in DOMAIN p |-> Str(p[i])])) = PartsForm(p)
<1> DEFINE vs == [i \in DOMAIN p |-> Str(p[i])]
<1>1. AppendInner(Arr(vs))
        = <<91>> \o Joined([i \in DOMAIN vs |-> AppendScalar(vs[i])]) \o <<93>>
  BY DEF AppendInner, AppendLevel, Arr
<1>2. [i \in DOMAIN vs |-> AppendScalar(vs[i])] = Strings(p)
  <2>1. DOMAIN vs = DOMAIN p /\ \A i \in DOMAIN p : AppendScalar(vs[i]) = AppendString(p[i])
    BY StrForm
  <2> HIDE DEF vs
  <2>2. QED
    BY <2>1 DEF Strings
<1>3. QED
  BY <1>1, <1>2, PartsBodyIs

LEMMA DigitForm ==
    ASSUME NEW v \in 0 .. 9
    PROVE  AppendInner(Num(FALSE, <<v>>, 1)) = <<48 + v>>
<1> DEFINE num == Num(FALSE, <<v>>, 1)
<1>1. AppendInner(num) = FormatFloatES(num)
  BY DEF AppendInner, AppendLevel, Num
<1>2. num.digits = <<v>> /\ num.point = 1 /\ num.neg = FALSE /\ DOMAIN num.digits = {1}
  BY DEF Num
<1> HIDE DEF num
<1> DEFINE nonzero == {i \in DOMAIN num.digits : num.digits[i] # 0}
           first == CHOOSE i \in nonzero : \A j \in nonzero : i <= j
           last == CHOOSE i \in nonzero : \A j \in nonzero : j <= i
<1>3. Shortest(num) = IF nonzero = {} THEN [digits |-> <<>>, point |-> 0]
                      ELSE [digits |-> SubSeq(num.digits, first, last),
                            point |-> num.point - first + 1]
  BY DEF Shortest
<1>4. CASE v = 0
  <2>1. nonzero = {}
    BY <1>2, <1>4
  <2> HIDE DEF nonzero
  <2>2. Shortest(num).digits = <<>>
    BY <1>3, <2>1
  <2>3. Digits(Shortest(num).digits) = <<>>
    BY <2>2 DEF Digits
  <2>4. FormatFloatES(num) = <<48>>
    BY <2>3 DEF FormatFloatES
  <2>5. AppendInner(num) = <<48 + v>>
    BY <1>1, <1>4, <2>4
  <2>6. QED
    BY <2>5 DEF num
<1>5. CASE v # 0
  <2>1. nonzero = {1}
    BY <1>2, <1>5
  <2> HIDE DEF nonzero
  <2>2. first = 1 /\ last = 1
    BY <2>1
  <2>3. SubSeq(num.digits, 1, 1) = <<v>>
    <3> DEFINE d == <<v>>
    <3>1. d \in Seq(Nat) /\ Len(d) = 1
      OBVIOUS
    <3> HIDE DEF d
    <3>2. SubSeq(d, 1, 1) = d
      BY <3>1
    <3>3. QED
      BY <1>2, <3>2 DEF d
  <2> HIDE DEF first, last
  <2>4. Shortest(num).digits = <<v>> /\ Shortest(num).point = 1
    BY <1>2, <1>3, <2>1, <2>2, <2>3
  <2>5. Digits(<<v>>) = <<48 + v>>
    BY DEF Digits
  <2>6. Fixed(<<48 + v>>, 1) = <<48 + v>>
    <3>1. Len(<<48 + v>>) = 1
      OBVIOUS
    <3>2. Zeros(0) = <<>>
      BY DEF Zeros
    <3>3. <<48 + v>> \o <<>> = <<48 + v>>
      OBVIOUS
    <3> DEFINE w == <<48 + v>>
    <3>4. Len(w) = 1 /\ w \o <<>> = w
      BY <3>1, <3>3
    <3> HIDE DEF w
    <3>5. Fixed(w, 1) = w \o Zeros(1 - 1)
      BY <3>4 DEF Fixed
    <3>6. QED
      BY <3>2, <3>4, <3>5 DEF w
  <2>7. <<48 + v>> # <<>> /\ <<>> \o <<48 + v>> = <<48 + v>>
    OBVIOUS
  <2> DEFINE w == <<48 + v>>
  <2>8. w # <<>> /\ Digits(Shortest(num).digits) = w /\ Fixed(w, 1) = w /\ <<>> \o w = w
    BY <2>4, <2>5, <2>6, <2>7
  <2> HIDE DEF w
  <2>9. FormatFloatES(num) = w
    <3> DEFINE sh == Shortest(num)
               digits == Digits(sh.digits)
    <3>1. FormatFloatES(num) =
            IF digits = <<>> THEN <<48>>
            ELSE (IF num.neg THEN <<45>> ELSE <<>>)
                   \o (IF sh.point > -6 /\ sh.point <= 21
                        THEN Fixed(digits, sh.point) ELSE Exponential(digits, sh.point))
      BY DEF FormatFloatES
    <3>2. digits = w /\ sh.point = 1
      BY <2>4, <2>8
    <3> HIDE DEF digits, sh
    <3>3. FormatFloatES(num) = <<>> \o Fixed(w, 1)
      <4>1. digits # <<>> /\ sh.point > -6 /\ sh.point <= 21 /\ ~num.neg
        BY <1>2, <2>8, <3>2
      <4>2. FormatFloatES(num) = <<>> \o Fixed(digits, sh.point)
        BY <3>1, <4>1
      <4>3. QED
        BY <3>2, <4>2
    <3>4. QED
      BY <2>8, <3>3
  <2>10. QED
    BY <1>1, <2>9 DEF w, num
<1>6. QED
  BY <1>4, <1>5

\* The members of an envelope as they are signed.
MemberTexts(e) ==
    << AppendString(<<98>>) \o <<58>> \o PartsForm(e.parts),
       AppendString(<<115>>) \o <<58>> \o AppendString(e.sentAt),
       AppendString(<<116>>) \o <<58>> \o AppendString(e.to),
       AppendString(<<118>>) \o <<58>> \o <<48 + e.v>> >>

LEMMA ContentsAre ==
    ASSUME NEW e \in Contents
    PROVE  /\ e.v \in 0 .. 9 /\ e.to \in Unicode /\ e.sentAt \in Unicode
           /\ e.parts \in Seq(Unicode) /\ Content(e) = e
<1>1. /\ e.v \in VersionSeen /\ e.to \in Text /\ e.sentAt \in Moment
      /\ e.parts \in BoundedSeq(Text, MaxParts + 1) /\ e.sig = NoSig
  BY DEF Contents
<1>2. PICK n \in 0 .. MaxParts + 1 : e.parts \in [1 .. n -> Text]
  BY <1>1 DEF BoundedSeq, SeqOf
<1>3. e.parts \in Seq(Unicode)
  <2>1. n \in Nat /\ e.parts \in [1 .. n -> Unicode]
    BY <1>2, BoundAssumption, ContentAssumption DEF Unicode
  <2> DEFINE p == e.parts
  <2>2. p \in [1 .. n -> Unicode]
    BY <2>1
  <2> HIDE DEF p
  <2>3. p \in Seq(Unicode)
    BY <2>1, <2>2
  <2>4. QED
    BY <2>3 DEF p
<1>4. Content(e) = e
  BY <1>1 DEF Content, Contents
<1>5. QED
  BY <1>1, <1>3, <1>4, ContentAssumption DEF Unicode

\* An object with these names, each once, and what its members come to.
Members(v, t, s, b) ==
    << <<<<118>>, v>>, <<<<116>>, t>>, <<<<115>>, s>>, <<<<98>>, b>> >>

SortedMembers(v, t, s, b) ==
    << AppendString(<<98>>) \o <<58>> \o AppendInner(b),
       AppendString(<<115>>) \o <<58>> \o AppendInner(s),
       AppendString(<<116>>) \o <<58>> \o AppendInner(t),
       AppendString(<<118>>) \o <<58>> \o AppendInner(v) >>

LEMMA MembersForm ==
    ASSUME NEW v, NEW t, NEW s, NEW b
    PROVE  AppendCanonical(Obj(Members(v, t, s, b)))
             = <<123>> \o Joined(SortedMembers(v, t, s, b)) \o <<125>>
<1> DEFINE M == Members(v, t, s, b)
           keys == SortedKeys(M)
<1>1. /\ DOMAIN M = 1 .. 4
      /\ M[1] = <<<<118>>, v>> /\ M[2] = <<<<116>>, t>>
      /\ M[3] = <<<<115>>, s>> /\ M[4] = <<<<98>>, b>>
  BY DEF Members
<1> HIDE DEF M
<1>2. \A i \in 1 .. 4 : i = 1 \/ i = 2 \/ i = 3 \/ i = 4
  OBVIOUS
<1>3. Keys(M) = Names
  <2>1. Keys(M) = {M[i][1] : i \in 1 .. 4}
    BY <1>1 DEF Keys
  <2>2. /\ M[1][1] = <<118>> /\ M[2][1] = <<116>> /\ M[3][1] = <<115>> /\ M[4][1] = <<98>>
    BY <1>1
  <2>3. \A i \in 1 .. 4 : M[i][1] \in Names
    BY <1>2, <2>2 DEF Names
  <2>4. \A k \in Names : \E i \in 1 .. 4 : M[i][1] = k
    BY <2>2 DEF Names
  <2>5. QED
    BY <2>1, <2>3, <2>4
<1>4. keys = InOrder
  <2> DEFINE V == {v, t, s, b}
  <2>1. M \in Seq(Unicode \X V)
    <3>1. \A i \in 1 .. 4 : M[i] \in Unicode \X V
      <4>1. /\ <<118>> \in Unicode /\ <<116>> \in Unicode
            /\ <<115>> \in Unicode /\ <<98>> \in Unicode
        BY NamesAre DEF Names
      <4>2. v \in V /\ t \in V /\ s \in V /\ b \in V
        OBVIOUS
      <4> HIDE DEF V
      <4>3. /\ M[1] \in Unicode \X V /\ M[2] \in Unicode \X V
            /\ M[3] \in Unicode \X V /\ M[4] \in Unicode \X V
        BY <1>1, <4>1, <4>2
      <4>4. QED
        BY <1>2, <4>3
    <3> DEFINE S == Unicode \X V
    <3>2. M \in Seq(S)
      <4> DEFINE m1 == <<<<118>>, v>>
                 m2 == <<<<116>>, t>>
                 m3 == <<<<115>>, s>>
                 m4 == <<<<98>>, b>>
      <4>1. M[1] = m1 /\ M[2] = m2 /\ M[3] = m3 /\ M[4] = m4
        BY <1>1
      <4>2. M = <<m1, m2, m3, m4>>
        BY DEF M, Members
      <4> HIDE DEF S, V, m1, m2, m3, m4
      <4>3. m1 \in S /\ m2 \in S /\ m3 \in S /\ m4 \in S
        BY <3>1, <4>1 DEF S
      <4>4. <<m1, m2, m3, m4>> \in Seq(S)
        BY <4>3
      <4>5. QED
        BY <4>2, <4>4
    <3>3. QED
      BY <3>2
  <2> HIDE DEF V
  <2>2. Ascending(Keys(M), SortedKeys(M))
    BY <2>1, SortedKeysAscend
  <2>3. QED
    BY <1>3, <2>2, NamesSorted
<1>5. /\ Lookup(M, <<98>>) = b /\ Lookup(M, <<115>>) = s
      /\ Lookup(M, <<116>>) = t /\ Lookup(M, <<118>>) = v
  <2>1. ASSUME NEW k, NEW n \in 1 .. 4, M[n][1] = k,
               \A i \in 1 .. 4 : M[i][1] = k => i = n
        PROVE  Lookup(M, k) = M[n][2]
    <3> DEFINE Final(i) == M[i][1] = k /\ \A j \in DOMAIN M : M[j][1] = k => j <= i
               last == CHOOSE i \in DOMAIN M : Final(i)
    <3>1. n \in DOMAIN M /\ Final(n) /\ \A i \in DOMAIN M : Final(i) => i = n
      BY <1>1, <2>1
    <3>2. Lookup(M, k) = M[last][2]
      BY DEF Lookup
    <3> HIDE DEF Final
    <3>3. last = n
      BY <3>1
    <3>4. QED
      BY <3>2, <3>3
  <2>2. /\ M[1][1] = <<118>> /\ M[2][1] = <<116>> /\ M[3][1] = <<115>> /\ M[4][1] = <<98>>
        /\ M[1][2] = v /\ M[2][2] = t /\ M[3][2] = s /\ M[4][2] = b
    BY <1>1
  <2>3. /\ <<98>> # <<115>> /\ <<98>> # <<116>> /\ <<98>> # <<118>>
        /\ <<115>> # <<116>> /\ <<115>> # <<118>> /\ <<116>> # <<118>>
    OBVIOUS
  <2>4. Lookup(M, <<118>>) = v
    <3>1. \A i \in 1 .. 4 : M[i][1] = <<118>> => i = 1
      BY <1>2, <2>2, <2>3
    <3>2. Lookup(M, <<118>>) = M[1][2]
      BY <2>1, <2>2, <3>1, 1 \in 1 .. 4
    <3>3. QED
      BY <2>2, <3>2
  <2>5. Lookup(M, <<116>>) = t
    <3>1. \A i \in 1 .. 4 : M[i][1] = <<116>> => i = 2
      BY <1>2, <2>2, <2>3
    <3>2. Lookup(M, <<116>>) = M[2][2]
      BY <2>1, <2>2, <3>1, 2 \in 1 .. 4
    <3>3. QED
      BY <2>2, <3>2
  <2>6. Lookup(M, <<115>>) = s
    <3>1. \A i \in 1 .. 4 : M[i][1] = <<115>> => i = 3
      BY <1>2, <2>2, <2>3
    <3>2. Lookup(M, <<115>>) = M[3][2]
      BY <2>1, <2>2, <3>1, 3 \in 1 .. 4
    <3>3. QED
      BY <2>2, <3>2
  <2>7. Lookup(M, <<98>>) = b
    <3>1. \A i \in 1 .. 4 : M[i][1] = <<98>> => i = 4
      BY <1>2, <2>2, <2>3
    <3>2. Lookup(M, <<98>>) = M[4][2]
      BY <2>1, <2>2, <3>1, 4 \in 1 .. 4
    <3>3. QED
      BY <2>2, <3>2
  <2>8. QED
    BY <2>4, <2>5, <2>6, <2>7
<1> DEFINE member(key) == AppendString(key) \o <<58>> \o AppendInner(Lookup(M, key))
<1>6. AppendCanonical(Obj(M))
        = <<123>> \o Joined([i \in DOMAIN keys |-> member(keys[i])]) \o <<125>>
  BY DEF AppendCanonical, AppendLevel, Obj
<1> HIDE DEF member, keys
<1>7. [i \in DOMAIN keys |-> member(keys[i])]
        = << member(<<98>>), member(<<115>>), member(<<116>>), member(<<118>>) >>
  <2> DEFINE F == [i \in DOMAIN keys |-> member(keys[i])]
             x1 == member(<<98>>)
             x2 == member(<<115>>)
             x3 == member(<<116>>)
             x4 == member(<<118>>)
  <2>1. /\ DOMAIN InOrder = 1 .. 4
        /\ InOrder[1] = <<98>> /\ InOrder[2] = <<115>>
        /\ InOrder[3] = <<116>> /\ InOrder[4] = <<118>>
    BY DEF InOrder
  <2>2. F = [i \in 1 .. 4 |-> member(InOrder[i])]
    BY <1>4, <2>1
  <2>3. F[1] = x1 /\ F[2] = x2 /\ F[3] = x3 /\ F[4] = x4
    <3> HIDE DEF F
    <3>1. /\ F[1] = member(InOrder[1]) /\ F[2] = member(InOrder[2])
          /\ F[3] = member(InOrder[3]) /\ F[4] = member(InOrder[4])
      BY <2>2
    <3>2. QED
      BY <2>1, <3>1
  <2> HIDE DEF F, x1, x2, x3, x4
  <2>4. F = <<x1, x2, x3, x4>>
    BY <2>2, <2>3
  <2>5. QED
    BY <2>4 DEF F, x1, x2, x3, x4
<1>8. /\ member(<<98>>) = AppendString(<<98>>) \o <<58>> \o AppendInner(b)
      /\ member(<<115>>) = AppendString(<<115>>) \o <<58>> \o AppendInner(s)
      /\ member(<<116>>) = AppendString(<<116>>) \o <<58>> \o AppendInner(t)
      /\ member(<<118>>) = AppendString(<<118>>) \o <<58>> \o AppendInner(v)
  BY <1>5 DEF member
<1>9. SortedMembers(v, t, s, b)
        = << member(<<98>>), member(<<115>>), member(<<116>>), member(<<118>>) >>
  BY <1>8, Zenon DEF SortedMembers
<1>10. QED
  BY <1>6, <1>7, <1>9, Zenon DEF M

LEMMA CanonicalIs ==
    ASSUME NEW e \in Contents
    PROVE  Canonical(e) = <<123>> \o Joined(MemberTexts(e)) \o <<125>>
<1> DEFINE v == Num(FALSE, <<e.v>>, 1)
           t == Str(e.to)
           s == Str(e.sentAt)
           b == Arr([i \in DOMAIN e.parts |-> Str(e.parts[i])])
<1>1. Marshal(e) = Obj(Members(v, t, s, b))
  <2>1. e.sig = NoSig
    BY DEF Contents
  <2>2. Marshal(e) = Obj(Members(v, t, s, b) \o <<>>)
    BY <2>1 DEF Marshal, Members
  <2> HIDE DEF v, t, s, b
  <2>3. Members(v, t, s, b) \o <<>> = Members(v, t, s, b)
    BY DEF Members
  <2>4. QED
    BY <2>2, <2>3
<1>2. /\ AppendInner(b) = PartsForm(e.parts) /\ AppendInner(s) = AppendString(e.sentAt)
      /\ AppendInner(t) = AppendString(e.to) /\ AppendInner(v) = <<48 + e.v>>
  BY ContentsAre, PartsFormIs, StrForm, DigitForm
<1> HIDE DEF v, t, s, b
<1>3. AppendCanonical(Obj(Members(v, t, s, b)))
        = <<123>> \o Joined(SortedMembers(v, t, s, b)) \o <<125>>
  BY MembersForm
<1>4. SortedMembers(v, t, s, b) = MemberTexts(e)
  BY <1>2 DEF SortedMembers, MemberTexts
<1>5. QED
  BY <1>1, <1>3, <1>4, ContentsAre DEF Canonical

Named(k, w) == AppendString(k) \o <<58>> \o w

\* The members' values, in the order of their names.
Values(e) ==
    << PartsForm(e.parts), AppendString(e.sentAt), AppendString(e.to), <<48 + e.v>> >>

LEMMA ValuesAre ==
    ASSUME NEW e \in Contents
    PROVE  \A i \in 1 .. 4 : Values(e)[i] \in Seq(Nat)
<1>1. /\ PartsForm(e.parts) \in Seq(Nat) /\ AppendString(e.sentAt) \in Seq(Nat)
      /\ AppendString(e.to) \in Seq(Nat)
  BY ContentsAre, PartsBodyIs, StringIs
<1>2. <<48 + e.v>> \in Seq(Nat)
  <2>1. 48 + e.v \in Nat
    BY ContentsAre
  <2>2. QED
    BY <2>1
<1>3. \A i \in 1 .. 4 : i = 1 \/ i = 2 \/ i = 3 \/ i = 4
  OBVIOUS
<1>4. /\ Values(e)[1] = PartsForm(e.parts) /\ Values(e)[2] = AppendString(e.sentAt)
      /\ Values(e)[3] = AppendString(e.to) /\ Values(e)[4] = <<48 + e.v>>
  BY DEF Values
<1>5. QED
  BY <1>1, <1>2, <1>3, <1>4

LEMMA MemberTextsAre ==
    ASSUME NEW e \in Contents
    PROVE  /\ MemberTexts(e) \in Pieces /\ Len(MemberTexts(e)) = 4
           /\ \A i \in 1 .. 4 :
                InOrder[i] \in Names /\ MemberTexts(e)[i] = Named(InOrder[i], Values(e)[i])
<1>1. \A i \in 1 .. 4 : i = 1 \/ i = 2 \/ i = 3 \/ i = 4
  OBVIOUS
<1>2. \A i \in 1 .. 4 : InOrder[i] \in Names
  <2>1. InOrder[1] \in Names /\ InOrder[2] \in Names /\ InOrder[3] \in Names /\ InOrder[4] \in Names
    BY DEF InOrder, Names
  <2>2. QED
    BY <1>1, <2>1
<1> DEFINE a == Named(<<98>>, PartsForm(e.parts))
           b == Named(<<115>>, AppendString(e.sentAt))
           c == Named(<<116>>, AppendString(e.to))
           d == Named(<<118>>, <<48 + e.v>>)
<1>3. MemberTexts(e) = <<a, b, c, d>>
  BY DEF MemberTexts, Named
<1>4. /\ a = Named(InOrder[1], Values(e)[1]) /\ b = Named(InOrder[2], Values(e)[2])
      /\ c = Named(InOrder[3], Values(e)[3]) /\ d = Named(InOrder[4], Values(e)[4])
  BY DEF InOrder, Values
<1> HIDE DEF a, b, c, d
<1>5. \A i \in 1 .. 4 : MemberTexts(e)[i] = Named(InOrder[i], Values(e)[i])
  <2>1. /\ MemberTexts(e)[1] = a /\ MemberTexts(e)[2] = b
        /\ MemberTexts(e)[3] = c /\ MemberTexts(e)[4] = d
    BY <1>3
  <2>2. QED
    BY <1>1, <1>4, <2>1
<1>6. \A k \in Names, w \in Seq(Nat) : Named(k, w) \in Seq(Nat)
  <2> TAKE k \in Names, w \in Seq(Nat)
  <2>1. AppendString(k) \in Seq(Nat) /\ <<58>> \in Seq(Nat)
    BY NamesAre, StringIs
  <2>2. QED
    BY <2>1 DEF Named
<1>7. MemberTexts(e) \in Pieces /\ Len(MemberTexts(e)) = 4
  <2> DEFINE S == Seq(Nat)
  <2>1. \A i \in 1 .. 4 : Named(InOrder[i], Values(e)[i]) \in Seq(Nat)
    BY <1>2, <1>6, ValuesAre
  <2>2. a \in S /\ b \in S /\ c \in S /\ d \in S
    BY <1>4, <2>1
  <2> HIDE DEF S
  <2>3. <<a, b, c, d>> \in Seq(S) /\ Len(<<a, b, c, d>>) = 4
    BY <2>2
  <2>4. QED
    BY <1>3, <2>3 DEF S, Pieces
<1>8. QED
  BY <1>2, <1>5, <1>7

\* What is different under one name stays different behind it.
LEMMA NamedApart ==
    ASSUME NEW k \in Names, NEW u \in Seq(Nat), NEW w \in Seq(Nat), Apart(u, w)
    PROVE  Apart(Named(k, u), Named(k, w))
<1> DEFINE p == AppendString(k) \o <<58>>
<1>1. p \in Seq(Nat)
  <2>1. AppendString(k) \in Seq(Nat) /\ <<58>> \in Seq(Nat)
    BY NamesAre, StringIs
  <2>2. QED
    BY <2>1
<1> HIDE DEF p
<1>2. Apart(p \o u, p \o w)
  BY <1>1, ApartAfter
<1>3. QED
  BY <1>2 DEF p, Named

\* The first member that differs sets two envelopes apart.
LEMMA ValuesApart ==
    ASSUME NEW e \in Contents, NEW f \in Contents, e # f
    PROVE  \E c \in 0 .. 3 : /\ \A i \in 1 .. c : Values(e)[i] = Values(f)[i]
                             /\ Apart(Values(e)[c + 1], Values(f)[c + 1])
<1> DEFINE s == Values(e)
           r == Values(f)
<1>1. e.parts # f.parts \/ e.sentAt # f.sentAt \/ e.to # f.to \/ e.v # f.v
  BY DEF Contents
<1>2. /\ s[1] = PartsForm(e.parts) /\ r[1] = PartsForm(f.parts)
      /\ s[2] = AppendString(e.sentAt) /\ r[2] = AppendString(f.sentAt)
      /\ s[3] = AppendString(e.to) /\ r[3] = AppendString(f.to)
      /\ s[4] = <<48 + e.v>> /\ r[4] = <<48 + f.v>>
  BY DEF Values
<1> HIDE DEF s, r
<1> DEFINE Goal(c) == (\A i \in 1 .. c : s[i] = r[i]) /\ Apart(s[c + 1], r[c + 1])
<1>3. CASE e.parts # f.parts
  <2>1. Apart(s[1], r[1])
    BY <1>2, <1>3, ContentsAre, PartsApart
  <2>2. Goal(0)
    BY <2>1
  <2> HIDE DEF Goal
  <2>3. \E c \in 0 .. 3 : Goal(c)
    BY <2>2
  <2>4. QED
    BY <2>3 DEF Goal, s, r
<1>4. CASE e.parts = f.parts /\ e.sentAt # f.sentAt
  <2>1. Apart(s[2], r[2])
    BY <1>2, <1>4, ContentsAre, StringsApart
  <2>2. s[1] = r[1]
    BY <1>2, <1>4
  <2>3. Goal(1)
    BY <2>1, <2>2
  <2> HIDE DEF Goal
  <2>4. \E c \in 0 .. 3 : Goal(c)
    BY <2>3
  <2>5. QED
    BY <2>4 DEF Goal, s, r
<1>5. CASE e.parts = f.parts /\ e.sentAt = f.sentAt /\ e.to # f.to
  <2>1. Apart(s[3], r[3])
    BY <1>2, <1>5, ContentsAre, StringsApart
  <2>2. s[1] = r[1] /\ s[2] = r[2]
    BY <1>2, <1>5
  <2>3. Goal(2)
    BY <2>1, <2>2
  <2> HIDE DEF Goal
  <2>4. \E c \in 0 .. 3 : Goal(c)
    BY <2>3
  <2>5. QED
    BY <2>4 DEF Goal, s, r
<1>6. CASE e.parts = f.parts /\ e.sentAt = f.sentAt /\ e.to = f.to /\ e.v # f.v
  <2>1. Apart(s[4], r[4])
    <3>1. 48 + e.v # 48 + f.v
      <4> DEFINE m == e.v
                 n == f.v
      <4>1. m \in 0 .. 9 /\ n \in 0 .. 9 /\ m # n
        BY <1>6, ContentsAre
      <4> HIDE DEF m, n
      <4>2. 48 + m # 48 + n
        BY <4>1
      <4>3. QED
        BY <4>2 DEF m, n
    <3>2. Apart(<<48 + e.v>>, <<48 + f.v>>)
      <4>1. \A x, y : x # y => Apart(<<x>>, <<y>>)
        BY DEF Apart
      <4>2. QED
        BY <3>1, <4>1
    <3>3. QED
      BY <1>2, <3>2
  <2>2. s[1] = r[1] /\ s[2] = r[2] /\ s[3] = r[3]
    BY <1>2, <1>6
  <2>3. Goal(3)
    BY <2>1, <2>2
  <2> HIDE DEF Goal
  <2>4. \E c \in 0 .. 3 : Goal(c)
    BY <2>3
  <2>5. QED
    BY <2>4 DEF Goal, s, r
<1>7. QED
  BY <1>1, <1>3, <1>4, <1>5, <1>6

LEMMA ContentsApart ==
    ASSUME NEW e \in Contents, NEW f \in Contents, e # f
    PROVE  Apart(Joined(MemberTexts(e)), Joined(MemberTexts(f)))
<1> DEFINE s == MemberTexts(e)
           r == MemberTexts(f)
<1>1. /\ s \in Pieces /\ r \in Pieces /\ Len(s) = 4 /\ Len(r) = 4
      /\ \A i \in 1 .. 4 : /\ InOrder[i] \in Names
                           /\ s[i] = Named(InOrder[i], Values(e)[i])
                           /\ r[i] = Named(InOrder[i], Values(f)[i])
  BY MemberTextsAre
<1> HIDE DEF s, r
<1>2. PICK c \in 0 .. 3 : /\ \A i \in 1 .. c : Values(e)[i] = Values(f)[i]
                          /\ Apart(Values(e)[c + 1], Values(f)[c + 1])
  BY ValuesApart
<1>3. c + 1 \in 1 .. 4 /\ c \in Nat /\ c < Len(s) /\ c < Len(r)
  BY <1>1
<1>4. \A i \in 1 .. c : s[i] = r[i]
  BY <1>1, <1>2
<1>5. Apart(s[c + 1], r[c + 1])
  <2>1. Values(e)[c + 1] \in Seq(Nat) /\ Values(f)[c + 1] \in Seq(Nat)
    BY <1>3, ValuesAre
  <2>2. QED
    BY <1>1, <1>2, <1>3, <2>1, NamedApart
<1>6. Apart(Joined(s), Joined(r))
  BY <1>1, <1>3, <1>4, <1>5, JoinedApart
<1>7. QED
  BY <1>6 DEF s, r

\* No two contents of envelopes are signed as the same bytes: no text ends a
\* string early, no part passes for two, none for a member.
THEOREM ContentsToldApart ==
    \A e, f \in Contents : Canonical(e) = Canonical(f) => e = f
<1> SUFFICES ASSUME NEW e \in Contents, NEW f \in Contents,
                    Canonical(e) = Canonical(f), e # f
             PROVE  FALSE
  OBVIOUS
<1> DEFINE u == Joined(MemberTexts(e))
           w == Joined(MemberTexts(f))
<1>1. u \in Seq(Nat) /\ w \in Seq(Nat) /\ Apart(u, w)
  BY MemberTextsAre, ListedIs, ContentsApart
<1>2. Canonical(e) = <<123>> \o u \o <<125>> /\ Canonical(f) = <<123>> \o w \o <<125>>
  BY CanonicalIs
<1> HIDE DEF u, w
<1> DEFINE lu == <<123>> \o u
           lw == <<123>> \o w
<1>3. lu \in Seq(Nat) /\ lw \in Seq(Nat) /\ <<123>> \in Seq(Nat) /\ <<125>> \in Seq(Nat)
  BY <1>1
<1>4. Apart(lu, lw)
  BY <1>1, <1>3, ApartAfter
<1> HIDE DEF lu, lw
<1>5. Apart(lu \o <<125>>, lw \o <<125>>)
  BY <1>3, <1>4, ApartBefore
<1>6. lu \o <<125>> = lw \o <<125>>
  BY <1>2 DEF lu, lw
<1>7. QED
  BY <1>5, <1>6 DEF Apart

-----------------------------------------------------------------------------
(* Envelopes and their contents. *)

Parts == BoundedSeq(Text, MaxParts + 1)

\* What some key's owner may have produced.
Signature == {NoSig} \cup {<<key, Canonical(c)>> : key \in Key, c \in Contents}

Envelopes ==
    [v: VersionSeen, to: Text, sentAt: Moment, parts: Parts, sig: Signature]

LEMMA PartsAre ==
    /\ \A p \in Parts : p \in Seq(Text) /\ Len(p) <= MaxParts + 1
    /\ \A p \in Seq(Text) : Len(p) <= MaxParts + 1 => p \in Parts
<1>1. ASSUME NEW p \in Parts
      PROVE  p \in Seq(Text) /\ Len(p) <= MaxParts + 1
  <2>1. PICK n \in 0 .. MaxParts + 1 : p \in [1 .. n -> Text]
    BY <1>1 DEF Parts, BoundedSeq, SeqOf
  <2>2. n \in Nat
    BY <2>1, BoundAssumption
  <2>3. p \in Seq(Text) /\ Len(p) = n
    BY <2>1, <2>2
  <2>4. QED
    BY <2>1, <2>3, BoundAssumption
<1>2. ASSUME NEW p \in Seq(Text), Len(p) <= MaxParts + 1
      PROVE  p \in Parts
  <2>1. Len(p) \in 0 .. MaxParts + 1 /\ p \in [1 .. Len(p) -> Text]
    BY <1>2, BoundAssumption
  <2>2. QED
    BY <2>1 DEF Parts, BoundedSeq, SeqOf
<1>3. QED
  BY <1>1, <1>2

\* The content of an envelope is an envelope without a signature, and says
\* what the envelope says.
LEMMA ContentOf ==
    ASSUME NEW e \in Envelopes
    PROVE  /\ Content(e) \in Contents
           /\ Content(e).v = e.v /\ Content(e).parts = e.parts
           /\ Content(e).to = e.to /\ Content(e).sentAt = e.sentAt
  BY DEF Content, Contents, Envelopes, Parts

\* The content of a content is itself.
LEMMA ContentWritten ==
    ASSUME NEW e \in Envelopes
    PROVE  Canonical(Content(e)) = Canonical(e)
  BY ContentOf, ContentsAre DEF Canonical

\* Signing an envelope changes nothing that is signed or measured.
LEMMA SigningKeepsContent ==
    ASSUME NEW e \in Envelopes, NEW key \in Key
    PROVE  LET s == [e EXCEPT !.sig = <<key, Canonical(e)>>] IN
           /\ s \in Envelopes
           /\ s.sig = <<key, Canonical(e)>>
           /\ Content(s) = Content(e)
           /\ Canonical(s) = Canonical(e)
           /\ Check(s) = Check(e)
<1> DEFINE s == [e EXCEPT !.sig = <<key, Canonical(e)>>]
<1>1. <<key, Canonical(e)>> \in Signature
  BY ContentOf, ContentWritten DEF Signature
<1>2. /\ s \in Envelopes /\ s.sig = <<key, Canonical(e)>>
      /\ s.v = e.v /\ s.parts = e.parts /\ s.to = e.to /\ s.sentAt = e.sentAt
  BY <1>1 DEF Envelopes
<1>3. Content(s) = Content(e)
  BY DEF Content, Envelopes
<1>4. Canonical(s) = Canonical(e)
  BY <1>3 DEF Canonical
<1>5. BodySize(s) = BodySize(e)
  BY <1>2 DEF BodySize
<1> HIDE DEF s
<1>6. Check(s) = Check(e)
  BY <1>2, <1>4, <1>5 DEF Check
<1>7. QED
  BY <1>2, <1>3, <1>4, <1>6 DEF s

-----------------------------------------------------------------------------
(* The invariant. *)

\* There is one envelope at a time, and everything signed is a content.
TypeInv ==
    /\ envelope \in Envelopes \cup {None}
    /\ genuine \in BOOLEAN
    /\ signed \subseteq Key \X Contents

\* Whatever an envelope has become, its signature is one that was made.
MadeInv ==
    envelope \in Envelopes /\ envelope.sig # NoSig =>
        \E made \in signed : envelope.sig = <<made[1], Canonical(made[2])>>

\* Nothing has come between a genuine envelope and its signature.
GenuineInv ==
    genuine =>
        /\ envelope \in Envelopes
        /\ Check(envelope) = "ok"
        /\ \E key \in Key : envelope.sig = <<key, Canonical(envelope)>>

SigningInv == TypeInv /\ MadeInv /\ GenuineInv

LEMMA NewStep ==
    ASSUME SigningInv, NEW v \in VersionSeen, NEW to \in Text,
           NEW at \in Moment, NEW text \in Text, New(v, to, at, text)
    PROVE  SigningInv'
<1>1. <<text>> \in Parts
  <2>1. <<text>> \in Seq(Text) /\ Len(<<text>>) = 1
    OBVIOUS
  <2>2. 1 <= MaxParts + 1
    BY BoundAssumption
  <2>3. QED
    BY <2>1, <2>2, PartsAre
<1>2. envelope' \in Envelopes /\ envelope'.sig = NoSig
  BY <1>1 DEF New, Envelopes, Signature
<1>3. envelope = None /\ UNCHANGED <<genuine, signed>>
  BY DEF New
<1>4. ~genuine
  <2> SUFFICES ASSUME genuine
               PROVE  FALSE
    OBVIOUS
  <2>1. None \in Envelopes
    BY <1>3 DEF SigningInv, GenuineInv
  <2>2. DOMAIN None = {"v"} /\ "to" \in DOMAIN None
    BY <2>1 DEF None, Envelopes
  <2>3. QED
    BY <2>2
<1>5. QED
  BY <1>2, <1>3, <1>4 DEF SigningInv, TypeInv, MadeInv, GenuineInv

LEMMA SignStep ==
    ASSUME SigningInv, NEW key \in Key, Sign(key)
    PROVE  SigningInv'
<1>1. envelope \in Envelopes /\ signed \subseteq Key \X Contents
  BY DEF Sign, SigningInv, TypeInv
<1> DEFINE s == [envelope EXCEPT !.sig = <<key, Canonical(envelope)>>]
<1>2. /\ s \in Envelopes /\ s.sig = <<key, Canonical(envelope)>>
      /\ Content(s) = Content(envelope) /\ Canonical(s) = Canonical(envelope)
      /\ Check(s) = Check(envelope)
  BY <1>1, SigningKeepsContent
<1>3. /\ envelope' = s /\ genuine' = TRUE /\ Check(envelope) = "ok"
      /\ signed' = signed \cup {<<key, Content(envelope)>>}
  BY DEF Sign
<1> HIDE DEF s
<1>4. TypeInv'
  BY <1>1, <1>2, <1>3, ContentOf DEF TypeInv
<1>5. MadeInv'
  <2>1. <<key, Content(envelope)>> \in signed'
    BY <1>3
  <2>2. envelope'.sig = <<key, Canonical(Content(envelope))>>
    BY <1>1, <1>2, <1>3, ContentWritten
  <2>3. QED
    BY <2>1, <2>2 DEF MadeInv
<1>6. GenuineInv'
  <2>1. Check(envelope') = "ok" /\ envelope'.sig = <<key, Canonical(envelope')>>
    BY <1>2, <1>3
  <2>2. QED
    BY <1>2, <1>3, <2>1 DEF GenuineInv
<1>7. QED
  BY <1>4, <1>5, <1>6 DEF SigningInv

\* What is changed stays an envelope with the signature it had.
LEMMA ChangesKeepSig ==
    ASSUME NEW e \in Envelopes, NEW changed \in Changes(e)
    PROVE  changed \in Envelopes /\ changed.sig = e.sig
<1>1. ASSUME NEW t \in Text, changed = [e EXCEPT !.to = t]
      PROVE  changed \in Envelopes /\ changed.sig = e.sig
  BY <1>1 DEF Envelopes
<1>2. ASSUME NEW m \in Moment, changed = [e EXCEPT !.sentAt = m]
      PROVE  changed \in Envelopes /\ changed.sig = e.sig
  BY <1>2 DEF Envelopes
<1>3. ASSUME NEW v \in VersionSeen, changed = [e EXCEPT !.v = v]
      PROVE  changed \in Envelopes /\ changed.sig = e.sig
  BY <1>3 DEF Envelopes
<1>4. e.parts \in Seq(Text) /\ Len(e.parts) <= MaxParts + 1
  BY PartsAre DEF Envelopes
<1>5. ASSUME NEW t \in Text, ~(Len(e.parts) > MaxParts),
             changed = [e EXCEPT !.parts = Append(@, t)]
      PROVE  changed \in Envelopes /\ changed.sig = e.sig
  <2>1. /\ Append(e.parts, t) \in Seq(Text)
        /\ Len(Append(e.parts, t)) <= MaxParts + 1
    BY <1>4, <1>5, BoundAssumption
  <2>2. Append(e.parts, t) \in Parts
    BY <2>1, PartsAre
  <2>3. QED
    BY <1>5, <2>2 DEF Envelopes
<1>6. ASSUME e.parts # <<>>, changed = [e EXCEPT !.parts = Tail(@)]
      PROVE  changed \in Envelopes /\ changed.sig = e.sig
  <2>1. Tail(e.parts) \in Seq(Text) /\ Len(Tail(e.parts)) <= MaxParts + 1
    BY <1>4, <1>6, BoundAssumption
  <2>2. Tail(e.parts) \in Parts
    BY <2>1, PartsAre
  <2>3. QED
    BY <1>6, <2>2 DEF Envelopes
<1>7. QED
  BY <1>1, <1>2, <1>3, <1>5, <1>6 DEF Changes

LEMMA ChangeStep ==
    ASSUME SigningInv, envelope # None,
           NEW changed \in Changes(envelope), Change(changed)
    PROVE  SigningInv'
<1>1. envelope \in Envelopes
  BY DEF SigningInv, TypeInv
<1>2. /\ envelope' \in Envelopes /\ envelope'.sig = envelope.sig
      /\ genuine' = FALSE /\ signed' = signed
  BY <1>1, ChangesKeepSig DEF Change
<1>3. QED
  BY <1>1, <1>2 DEF SigningInv, TypeInv, MadeInv, GenuineInv

LEMMA DecodeStep ==
    ASSUME SigningInv, Decode
    PROVE  SigningInv'
<1>1. envelope' = None /\ genuine' = FALSE /\ signed' = signed
  BY DEF Decode
<1>2. None \notin Envelopes
  <2> SUFFICES ASSUME None \in Envelopes
               PROVE  FALSE
    OBVIOUS
  <2>1. DOMAIN None = {"v"} /\ "to" \in DOMAIN None
    BY DEF None, Envelopes
  <2>2. QED
    BY <2>1
<1>3. QED
  BY <1>1, <1>2 DEF SigningInv, TypeInv, MadeInv, GenuineInv

LEMMA NextSigning == SigningInv /\ [SigningNext]_signingVars => SigningInv'
<1> SUFFICES ASSUME SigningInv, [SigningNext]_signingVars
             PROVE  SigningInv'
  OBVIOUS
<1>1. CASE UNCHANGED signingVars
  BY <1>1 DEF signingVars, SigningInv, TypeInv, MadeInv, GenuineInv
<1>2. QED
  BY <1>1, NewStep, SignStep, ChangeStep, DecodeStep DEF SigningNext

LEMMA InitSigning == SigningInit => SigningInv
<1>1. None \notin Envelopes
  <2> SUFFICES ASSUME None \in Envelopes
               PROVE  FALSE
    OBVIOUS
  <2>1. DOMAIN None = {"v"} /\ "to" \in DOMAIN None
    BY DEF None, Envelopes
  <2>2. QED
    BY <2>1
<1>2. QED
  BY <1>1 DEF SigningInit, SigningInv, TypeInv, MadeInv, GenuineInv

LEMMA SigningHolds == SigningSpec => []SigningInv
  BY InitSigning, NextSigning, PTL DEF SigningSpec

-----------------------------------------------------------------------------
(* Signatures: theorems. *)

LEMMA SpecSigns == Spec => SigningSpec
<1>1. Init => SigningInit
  BY DEF Init
<1>2. [Next]_vars => [SigningNext]_signingVars
  BY DEF Next, Write, Exchange, vars
<1>3. QED
  BY <1>1, <1>2, PTL DEF Spec, SigningSpec

\* Whatever happens to envelopes, in whatever order: what verifies under a key
\* says what the key's owner signed, to the last part.
THEOREM VerifiedIsSignedCorrect == Spec => []VerifiedIsSigned
<1>1. SigningInv => VerifiedIsSigned
  <2> SUFFICES ASSUME SigningInv, envelope # None, NEW key \in Key,
                      Verify(envelope, key) = "ok"
               PROVE  <<key, Content(envelope)>> \in signed
    BY DEF VerifiedIsSigned
  <2>1. envelope \in Envelopes /\ signed \subseteq Key \X Contents
    BY DEF SigningInv, TypeInv
  <2>2. envelope.sig = <<key, Canonical(Content(envelope))>>
    BY <2>1, ContentWritten DEF Verify
  <2>3. envelope.sig # NoSig
    BY <2>2 DEF NoSig
  <2>4. PICK made \in signed : envelope.sig = <<made[1], Canonical(made[2])>>
    BY <2>1, <2>3 DEF SigningInv, MadeInv
  <2>5. /\ made = <<made[1], made[2]>> /\ made[2] \in Contents
        /\ made[1] = key /\ Canonical(made[2]) = Canonical(Content(envelope))
    BY <2>1, <2>2, <2>4
  <2>6. made[2] = Content(envelope)
    BY <2>1, <2>5, ContentOf, ContentsToldApart
  <2>7. QED
    BY <2>5, <2>6
<1>2. QED
  BY <1>1, SigningHolds, SpecSigns, PTL

\* The verifier comes to the signer's answer at every cap, for every content.
THEOREM SignedVerifiesCorrect == Spec => []SignedVerifies
<1>1. SigningInv => SignedVerifies
  BY DEF SigningInv, GenuineInv, SignedVerifies, Verify
<1>2. QED
  BY <1>1, SigningHolds, SpecSigns, PTL

=============================================================================
