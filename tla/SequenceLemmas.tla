--------------------------- MODULE SequenceLemmas ---------------------------
(* What the operators on sequences that the components use return. *)
EXTENDS Integers, Sequences, SequencesExt, SequenceTheorems, WellFoundedInduction, TLAPS

(* InsertAt puts one element in and moves the later ones up. *)
LEMMA InsertAtIs ==
    ASSUME NEW S, NEW s \in Seq(S), NEW i \in 1 .. Len(s) + 1, NEW e \in S
    PROVE  /\ InsertAt(s, i, e) \in Seq(S)
           /\ Len(InsertAt(s, i, e)) = Len(s) + 1
           /\ \A j \in 1 .. Len(s) + 1 : InsertAt(s, i, e)[j] =
                 IF j < i THEN s[j] ELSE IF j = i THEN e ELSE s[j - 1]
<1> DEFINE a == SubSeq(s, 1, i - 1)
           c == SubSeq(s, i, Len(s))
<1>1. a \in Seq(S) /\ Len(a) = i - 1 /\ \A j \in 1 .. i - 1 : a[j] = s[j]
  OBVIOUS
<1>2. c \in Seq(S) /\ Len(c) = Len(s) - i + 1
      /\ \A j \in 1 .. Len(s) - i + 1 : c[j] = s[i + j - 1]
  OBVIOUS
<1>3. InsertAt(s, i, e) = (a \o <<e>>) \o c
  BY DEF InsertAt
<1>4. a \o <<e>> \in Seq(S) /\ Len(a \o <<e>>) = i
      /\ \A j \in 1 .. i : (a \o <<e>>)[j] = IF j < i THEN s[j] ELSE e
  <2> HIDE DEF a
  <2> QED BY <1>1
<1> HIDE DEF a, c
<1> DEFINE b == a \o <<e>>
<1>5. b \in Seq(S) /\ Len(b) = i /\ \A j \in 1 .. i : b[j] = IF j < i THEN s[j] ELSE e
  BY <1>4
<1> HIDE DEF b
<1>6. b \o c \in Seq(S) /\ Len(b \o c) = Len(s) + 1
  BY <1>2, <1>5
<1>7. ASSUME NEW j \in 1 .. Len(s) + 1
      PROVE  (b \o c)[j] = IF j < i THEN s[j] ELSE IF j = i THEN e ELSE s[j - 1]
  <2>1. CASE j <= i
    BY <1>2, <1>5, <2>1
  <2>2. CASE j > i
    <3>1. (b \o c)[j] = c[j - i]
      BY <1>2, <1>5, <2>2
    <3>2. j - i \in 1 .. Len(s) - i + 1 /\ i + (j - i) - 1 = j - 1
      BY <2>2
    <3>3. c[j - i] = s[i + (j - i) - 1]
      BY <1>2, <3>2
    <3> QED
      BY <3>1, <3>2, <3>3, <2>2
  <2>3. j <= i \/ j > i
    OBVIOUS
  <2> QED
    BY <2>1, <2>2, <2>3, Zenon
<1> QED
  BY <1>3, <1>6, <1>7 DEF b

(* RemoveAt takes one element out and moves the later ones down. *)
LEMMA RemoveAtIs ==
    ASSUME NEW S, NEW s \in Seq(S), NEW i \in 1 .. Len(s)
    PROVE  /\ RemoveAt(s, i) \in Seq(S)
           /\ Len(RemoveAt(s, i)) = Len(s) - 1
           /\ \A j \in 1 .. Len(s) - 1 : RemoveAt(s, i)[j] =
                 IF j < i THEN s[j] ELSE s[j + 1]
<1> DEFINE a == SubSeq(s, 1, i - 1)
           c == SubSeq(s, i + 1, Len(s))
<1>1. a \in Seq(S) /\ Len(a) = i - 1 /\ \A j \in 1 .. i - 1 : a[j] = s[j]
  OBVIOUS
<1>2. c \in Seq(S) /\ Len(c) = Len(s) - i
      /\ \A j \in 1 .. Len(s) - i : c[j] = s[i + j]
  OBVIOUS
<1>3. RemoveAt(s, i) = a \o c
  BY DEF RemoveAt
<1> HIDE DEF a, c
<1>4. a \o c \in Seq(S) /\ Len(a \o c) = Len(s) - 1
  <2>1. a \in Seq(S) /\ c \in Seq(S) /\ Len(a) = i - 1 /\ Len(c) = Len(s) - i
    BY <1>1, <1>2, Zenon
  <2>2. a \o c \in Seq(S) /\ Len(a \o c) = Len(a) + Len(c)
    BY <2>1
  <2>3. (i - 1) + (Len(s) - i) = Len(s) - 1
    OBVIOUS
  <2> QED
    BY <2>1, <2>2, <2>3
<1>5. ASSUME NEW j \in 1 .. Len(s) - 1
      PROVE  (a \o c)[j] = IF j < i THEN s[j] ELSE s[j + 1]
  <2>1. CASE j < i
    BY <1>1, <1>2, <2>1
  <2>2. CASE ~(j < i)
    <3>1. (a \o c)[j] = c[j - (i - 1)]
      BY <1>1, <1>2, <2>2
    <3>2. j - (i - 1) \in 1 .. Len(s) - i /\ i + (j - (i - 1)) = j + 1
      BY <2>2
    <3>3. c[j - (i - 1)] = s[i + (j - (i - 1))]
      BY <1>2, <3>2
    <3> QED
      BY <3>1, <3>2, <3>3, <2>2
  <2> QED
    BY <2>1, <2>2, Zenon
<1> QED
  BY <1>3, <1>4, <1>5
(* A set of naturals that is not empty has a least element: induction over *)
(* data, as a statement about sets.                                        *)
LEMMA LeastNatural ==
    ASSUME NEW T, T \subseteq Nat, T # {}
    PROVE  \E m \in T : \A k \in T : m <= k
<1> DEFINE R == OpToRel(<, Nat)
<1>1. IsWellFoundedOn(R, Nat)
  BY NatLessThanWellFounded
<1>2. \A k, m \in Nat : k < m => <<k, m>> \in R
  BY DEF OpToRel
<1> HIDE DEF R
<1>3. PICK m \in T : \A k \in T : <<k, m>> \notin R
  BY <1>1, WFMin, Zenon
<1>4. \A k \in T : ~(k < m)
  BY <1>2, <1>3, Zenon
<1> QED
  BY <1>4

(* Induction up to n, for a property given as the set G of the numbers     *)
(* that have it.                                                           *)
LEMMA InductionUpto ==
    ASSUME NEW n \in Nat, NEW G, n > 0 => 1 \in G,
           \A i \in 1 .. n - 1 : i \in G => i + 1 \in G
    PROVE  \A i \in 1 .. n : i \in G
<1> DEFINE T == {i \in 1 .. n : i \notin G}
<1> SUFFICES ASSUME T # {} PROVE FALSE
  OBVIOUS
<1>1. T \subseteq Nat
  OBVIOUS
<1>2. PICK m \in T : \A k \in T : m <= k
  <2> HIDE DEF T
  <2> QED
    BY <1>1, LeastNatural
<1>3. m \in 1 .. n /\ m \notin G
  OBVIOUS
<1>4. m # 1
  BY <1>3
<1>5. m - 1 \in 1 .. n - 1 /\ m - 1 \in 1 .. n /\ ~(m <= m - 1)
  BY <1>3, <1>4
<1>6. m - 1 \in G
  BY <1>2, <1>5
<1>7. (m - 1) + 1 = m
  BY <1>3
<1> QED
  BY <1>3, <1>5, <1>6, <1>7

(* What FlattenSeq sums up from the left: f[i] is the first i sequences.   *)
Sums(f, s) == \A i \in 1 .. Len(s) : f[i] = IF i = 1 THEN s[i] ELSE f[i - 1] \o s[i]

(* There are such sums. *)
LEMMA SumsExist ==
    ASSUME NEW S, NEW s \in Seq(Seq(S))
    PROVE  \E f \in [1 .. Len(s) -> Seq(S)] : Sums(f, s)
<1> DEFINE Upto(f, n) == \A i \in 1 .. n : f[i] = IF i = 1 THEN s[i] ELSE f[i - 1] \o s[i]
           T == {n \in 0 .. Len(s) : ~ \E f \in [1 .. n -> Seq(S)] : Upto(f, n)}
<1>1. SUFFICES ASSUME T # {} PROVE FALSE
  <2>1. Len(s) \in 0 .. Len(s)
    OBVIOUS
  <2>2. T = {} => \E f \in [1 .. Len(s) -> Seq(S)] : Upto(f, Len(s))
    <3> HIDE DEF Upto
    <3> QED
      BY <2>1, Zenon
  <2> QED
    BY <2>2, Zenon DEF Sums
<1>2. PICK m \in T : \A k \in T : m <= k
  <2> HIDE DEF T
  <2>1. T \subseteq Nat
    BY DEF T
  <2> QED
    BY <1>1, <2>1, LeastNatural
<1>3. m # 0
  <2>1. [i \in 1 .. 0 |-> s[i]] \in [1 .. 0 -> Seq(S)] /\ Upto([i \in 1 .. 0 |-> s[i]], 0)
    OBVIOUS
  <2> QED
    BY <2>1
<1>4. m \in 1 .. Len(s) /\ m - 1 \in 0 .. Len(s) /\ m - 1 \notin T
  <2>1. m \in 0 .. Len(s)
    OBVIOUS
  <2> HIDE DEF T
  <2> QED
    BY <1>2, <1>3, <2>1
<1>5. PICK f \in [1 .. m - 1 -> Seq(S)] : Upto(f, m - 1)
  BY <1>4
<1> DEFINE last == IF m = 1 THEN s[m] ELSE f[m - 1] \o s[m]
           g == [i \in 1 .. m |-> IF i < m THEN f[i] ELSE last]
<1>6. last \in Seq(S)
  <2>1. s[m] \in Seq(S)
    BY <1>4
  <2>2. CASE m = 1
    BY <2>1, <2>2
  <2>3. CASE m # 1
    <3>1. f[m - 1] \in Seq(S)
      BY <1>4, <1>5, <2>3
    <3> QED
      BY <2>1, <2>3, <3>1
  <2> QED
    BY <2>2, <2>3
<1> HIDE DEF last
<1>7. g \in [1 .. m -> Seq(S)]
  BY <1>4, <1>5, <1>6
<1>8. ASSUME NEW i \in 1 .. m PROVE g[i] = IF i = 1 THEN s[i] ELSE g[i - 1] \o s[i]
  <2>1. CASE i < m
    <3>1. g[i] = f[i] /\ (i # 1 => g[i - 1] = f[i - 1]) /\ i \in 1 .. m - 1
      BY <1>4, <2>1
    <3> HIDE DEF g
    <3> QED
      BY <1>5, <3>1
  <2>2. CASE i = m
    <3>1. g[i] = last /\ (i # 1 => g[i - 1] = f[i - 1])
      BY <1>4, <2>2
    <3> HIDE DEF g
    <3> QED
      BY <2>2, <3>1 DEF last
  <2> QED
    BY <1>4, <2>1, <2>2
<1>9. m \notin T
  <2> HIDE DEF g
  <2> QED
    BY <1>7, <1>8
<1> QED
  BY <1>9

(* FlattenSeq is the last of them. *)
LEMMA FlattenIsSum ==
    ASSUME NEW S, NEW s \in Seq(Seq(S)), s # <<>>
    PROVE  \E f \in [1 .. Len(s) -> Seq(S)] : Sums(f, s) /\ FlattenSeq(s) = f[Len(s)]
<1> DEFINE IsFlatten(f) == f = [i \in 1 .. Len(s) |-> IF i = 1 THEN s[i] ELSE f[i - 1] \o s[i]]
           flatten == CHOOSE f : IsFlatten(f)
<1>1. PICK f \in [1 .. Len(s) -> Seq(S)] : Sums(f, s)
  BY SumsExist
<1>2. IsFlatten(f)
  BY <1>1 DEF Sums
<1>3. IsFlatten(flatten)
  <2> HIDE DEF IsFlatten
  <2> QED
    BY <1>2
<1>4. FlattenSeq(s) = flatten[Len(s)]
  <2>1. Len(s) # 0
    OBVIOUS
  <2> QED
    BY <2>1, Zenon DEF FlattenSeq
<1> HIDE DEF flatten
<1>5. Sums(flatten, s) /\ DOMAIN flatten = 1 .. Len(s)
  BY <1>3 DEF Sums
<1>6. flatten = [i \in 1 .. Len(s) |-> flatten[i]]
  BY <1>3
<1> HIDE DEF IsFlatten
<1>7. \A i \in 1 .. Len(s) : flatten[i] = f[i]
  <2> DEFINE T == {i \in 1 .. Len(s) : flatten[i] # f[i]}
  <2> SUFFICES ASSUME T # {} PROVE FALSE
    OBVIOUS
  <2>1. PICK m \in T : \A k \in T : m <= k
    <3>1. T \subseteq Nat
      OBVIOUS
    <3> HIDE DEF T
    <3> QED
      BY <3>1, LeastNatural
  <2>2. m = 1 \/ (m - 1 \in 1 .. Len(s) /\ flatten[m - 1] = f[m - 1])
    BY <2>1
  <2> QED
    BY <1>1, <1>5, <2>2 DEF Sums
<1>8. flatten = f
  BY <1>1, <1>6, <1>7
<1> QED
  BY <1>1, <1>4, <1>8
LEMMA FlattenType ==
    ASSUME NEW S, NEW s \in Seq(Seq(S))
    PROVE  FlattenSeq(s) \in Seq(S)
<1>1. CASE s = <<>>
  BY <1>1 DEF FlattenSeq
<1>2. CASE s # <<>>
  <2>1. PICK f \in [1 .. Len(s) -> Seq(S)] : Sums(f, s) /\ FlattenSeq(s) = f[Len(s)]
    BY <1>2, FlattenIsSum
  <2> QED
    BY <1>2, <2>1
<1> QED
  BY <1>1, <1>2

(* A sequence that is put at the end comes last. *)
LEMMA FlattenAppend ==
    ASSUME NEW S, NEW s \in Seq(Seq(S)), NEW x \in Seq(S)
    PROVE  FlattenSeq(Append(s, x)) = FlattenSeq(s) \o x
<1> DEFINE t == Append(s, x)
<1>1. t \in Seq(Seq(S)) /\ t # <<>> /\ Len(t) = Len(s) + 1
      /\ (\A i \in 1 .. Len(s) : t[i] = s[i]) /\ t[Len(s) + 1] = x
  BY AppendProperties
<1> HIDE DEF t
<1>2. PICK g \in [1 .. Len(t) -> Seq(S)] : Sums(g, t) /\ FlattenSeq(t) = g[Len(t)]
  BY <1>1, FlattenIsSum
<1>3. CASE s = <<>>
  <2>1. Len(t) = 1 /\ g[1] = x
    BY <1>1, <1>2, <1>3 DEF Sums
  <2>2. FlattenSeq(s) = <<>>
    BY <1>3 DEF FlattenSeq
  <2> QED
    BY <1>2, <2>1, <2>2 DEF t
<1>4. CASE s # <<>>
  <2>1. PICK f \in [1 .. Len(s) -> Seq(S)] : Sums(f, s) /\ FlattenSeq(s) = f[Len(s)]
    BY <1>4, FlattenIsSum
  <2>2. \A i \in 1 .. Len(s) : g[i] = f[i]
    <3> DEFINE G == {i \in 1 .. Len(s) : g[i] = f[i]}
    <3>1. 1 \in G
      <4>1. 1 \in 1 .. Len(s) /\ 1 \in 1 .. Len(t)
        BY <1>1, <1>4
      <4>2. g[1] = t[1] /\ f[1] = s[1]
        BY <1>2, <2>1, <4>1, Zenon DEF Sums
      <4> QED
        BY <1>1, <4>1, <4>2
    <3>2. ASSUME NEW i \in 1 .. Len(s) - 1, i \in G PROVE i + 1 \in G
      <4>1. i + 1 \in 1 .. Len(s) /\ i + 1 \in 1 .. Len(t) /\ i + 1 # 1 /\ (i + 1) - 1 = i
        BY <1>1
      <4>2. g[i + 1] = g[i] \o t[i + 1] /\ f[i + 1] = f[i] \o s[i + 1]
        BY <1>2, <2>1, <4>1 DEF Sums
      <4> QED
        BY <1>1, <3>2, <4>1, <4>2
    <3>3. Len(s) \in Nat
      OBVIOUS
    <3> HIDE DEF G
    <3>4. \A i \in 1 .. Len(s) : i \in G
      BY <3>1, <3>2, <3>3, InductionUpto
    <3> QED
      BY <3>4 DEF G
  <2>3. Len(s) \in 1 .. Len(s) /\ Len(t) # 1 /\ Len(t) \in 1 .. Len(t) /\ Len(t) - 1 = Len(s)
    BY <1>1, <1>4
  <2>4. g[Len(t)] = g[Len(s)] \o x
    BY <1>1, <1>2, <2>3 DEF Sums
  <2> QED
    BY <1>2, <2>1, <2>2, <2>3, <2>4 DEF t
<1> QED
  BY <1>3, <1>4

(* The first sequence comes first. *)
LEMMA FlattenTail ==
    ASSUME NEW S, NEW s \in Seq(Seq(S)), s # <<>>
    PROVE  FlattenSeq(s) = Head(s) \o FlattenSeq(Tail(s))
<1> DEFINE t == Tail(s)
<1>1. t \in Seq(Seq(S)) /\ Len(t) = Len(s) - 1
      /\ (\A i \in 1 .. Len(s) - 1 : t[i] = s[i + 1]) /\ Head(s) = s[1] /\ s[1] \in Seq(S)
  BY HeadTailProperties
<1> HIDE DEF t
<1>2. PICK f \in [1 .. Len(s) -> Seq(S)] : Sums(f, s) /\ FlattenSeq(s) = f[Len(s)]
  BY FlattenIsSum
<1>3. CASE Len(s) = 1
  <2>1. FlattenSeq(s) = s[1]
    BY <1>2, <1>3 DEF Sums
  <2>2. FlattenSeq(t) = <<>>
    BY <1>1, <1>3 DEF FlattenSeq
  <2> QED
    BY <1>1, <2>1, <2>2 DEF t
<1>4. CASE Len(s) # 1
  <2>0. t # <<>> /\ Len(s) - 1 \in 1 .. Len(s) - 1
    BY <1>1, <1>4
  <2>1. PICK g \in [1 .. Len(t) -> Seq(S)] : Sums(g, t) /\ FlattenSeq(t) = g[Len(t)]
    BY <1>1, <2>0, FlattenIsSum
  <2>2. \A i \in 1 .. Len(s) - 1 : f[i + 1] = s[1] \o g[i]
    <3> DEFINE G == {i \in 1 .. Len(s) - 1 : f[i + 1] = s[1] \o g[i]}
    <3>0. ASSUME NEW i \in 1 .. Len(s) - 1
          PROVE  f[i + 1] = f[i] \o s[i + 1] /\ s[i + 1] \in Seq(S) /\ s[i + 1] = t[i]
      <4>1. i + 1 \in 1 .. Len(s) /\ i + 1 # 1 /\ (i + 1) - 1 = i
        OBVIOUS
      <4>2. f[i + 1] = f[i] \o s[i + 1]
        BY <1>2, <4>1 DEF Sums
      <4> QED
        BY <1>1, <4>1, <4>2
    <3>1. 1 \in G
      <4>1. 1 \in 1 .. Len(s) - 1 /\ 1 \in 1 .. Len(s) /\ 1 \in 1 .. Len(t)
        BY <1>1, <2>0
      <4>3. f[1] = s[1] /\ g[1] = t[1]
        BY <1>2, <2>1, <4>1, Zenon DEF Sums
      <4>2. f[1 + 1] = f[1] \o s[1 + 1] /\ s[1 + 1] = t[1]
        BY <3>0, <4>1
      <4> QED
        BY <4>1, <4>2, <4>3
    <3>2. ASSUME NEW i \in 1 .. (Len(s) - 1) - 1, i \in G PROVE i + 1 \in G
      <4>1. i + 1 \in 1 .. Len(s) - 1 /\ i + 1 \in 1 .. Len(t) /\ i \in 1 .. Len(t)
            /\ i + 1 # 1 /\ (i + 1) - 1 = i
        BY <1>1
      <4>2. f[(i + 1) + 1] = f[i + 1] \o s[(i + 1) + 1] /\ s[(i + 1) + 1] = t[i + 1]
            /\ t[i + 1] \in Seq(S)
        BY <3>0, <4>1
      <4>3. g[i + 1] = g[i] \o t[i + 1] /\ g[i] \in Seq(S)
        BY <2>1, <4>1 DEF Sums
      <4>4. f[i + 1] = s[1] \o g[i]
        BY <3>2
      <4>5. (s[1] \o g[i]) \o t[i + 1] = s[1] \o (g[i] \o t[i + 1])
        <5>1. ASSUME NEW a \in Seq(S), NEW b \in Seq(S), NEW c \in Seq(S)
              PROVE  (a \o b) \o c = a \o (b \o c)
          OBVIOUS
        <5> QED
          BY <1>1, <4>2, <4>3, <5>1
      <4> QED
        BY <4>1, <4>2, <4>3, <4>4, <4>5
    <3>3. Len(s) - 1 \in Nat
      BY <2>0
    <3> HIDE DEF G
    <3>4. \A i \in 1 .. Len(s) - 1 : i \in G
      BY <3>1, <3>2, <3>3, InductionUpto
    <3> QED
      BY <3>4 DEF G
  <2>3. (Len(s) - 1) + 1 = Len(s) /\ Len(t) = Len(s) - 1
    BY <1>1
  <2>4. f[(Len(s) - 1) + 1] = s[1] \o g[Len(s) - 1]
    BY <2>0, <2>2
  <2> QED
    BY <1>1, <1>2, <2>1, <2>3, <2>4 DEF t
<1> QED
  BY <1>3, <1>4
(* Concatenation is associative, in the form that the provers instantiate. *)
LEMMA Associative ==
    ASSUME NEW S, NEW a \in Seq(S), NEW b \in Seq(S), NEW c \in Seq(S)
    PROVE  (a \o b) \o c = a \o (b \o c)
OBVIOUS

(* The same under a name, for terms that are not to be looked into. *)
Associates(a, b, c) == (a \o b) \o c = a \o (b \o c)

LEMMA ConcatAssociates ==
    ASSUME NEW S, NEW a \in Seq(S), NEW b \in Seq(S), NEW c \in Seq(S)
    PROVE  Associates(a, b, c)
BY Associative DEF Associates

(* The first element of b goes to the end of a. *)
LEMMA HeadMoves ==
    ASSUME NEW S, NEW a \in Seq(S), NEW b \in Seq(S), b # <<>>
    PROVE  Append(a, Head(b)) \o Tail(b) = a \o b
<1> DEFINE l == Append(a, Head(b)) \o Tail(b)
           r == a \o b
<1>1. Head(b) \in S /\ Head(b) = b[1] /\ Tail(b) \in Seq(S) /\ Len(Tail(b)) = Len(b) - 1
      /\ \A i \in 1 .. Len(b) - 1 : Tail(b)[i] = b[i + 1]
  OBVIOUS
<1>2. Append(a, Head(b)) \in Seq(S) /\ Len(Append(a, Head(b))) = Len(a) + 1
      /\ (\A i \in 1 .. Len(a) : Append(a, Head(b))[i] = a[i])
      /\ Append(a, Head(b))[Len(a) + 1] = b[1]
  BY <1>1, AppendProperties
<1>3. l \in Seq(S) /\ r \in Seq(S) /\ Len(l) = Len(a) + Len(b) /\ Len(r) = Len(a) + Len(b)
  BY <1>1, <1>2
<1>4. ASSUME NEW i \in 1 .. Len(a) + Len(b) PROVE l[i] = r[i]
  <2>1. CASE i <= Len(a)
    BY <1>1, <1>2, <2>1
  <2>2. CASE i = Len(a) + 1
    BY <1>1, <1>2, <2>2
  <2>3. CASE i > Len(a) + 1
    <3>1. l[i] = Tail(b)[i - (Len(a) + 1)] /\ r[i] = b[i - Len(a)]
      BY <1>1, <1>2, <2>3
    <3>2. i - (Len(a) + 1) \in 1 .. Len(b) - 1 /\ (i - (Len(a) + 1)) + 1 = i - Len(a)
      BY <2>3
    <3> HIDE DEF l, r
    <3> QED
      BY <1>1, <3>1, <3>2
  <2> QED
    BY <2>1, <2>2, <2>3
<1> HIDE DEF l, r
<1>5. l = r
  BY <1>3, <1>4, SeqEqual
<1> QED
  BY <1>5 DEF l, r

(* Appending to a concatenation. *)
LEMMA AppendInConcat ==
    ASSUME NEW S, NEW a \in Seq(S), NEW b \in Seq(S), NEW x \in S
    PROVE  a \o Append(b, x) = Append(a \o b, x)
<1>1. Append(b, x) = b \o <<x>> /\ <<x>> \in Seq(S) /\ a \o b \in Seq(S)
  OBVIOUS
<1>2. Append(a \o b, x) = (a \o b) \o <<x>>
  BY <1>1, AppendIsConcat
<1> QED
  BY <1>1, <1>2, Associative

(* A sequence without its last element. *)
LEMMA FrontIs ==
    ASSUME NEW S, NEW s \in Seq(S), s # <<>>
    PROVE  /\ Front(s) \in Seq(S) /\ Len(Front(s)) = Len(s) - 1 /\ Len(Front(s)) \in Nat
           /\ \A i \in 1 .. Len(s) - 1 : Front(s)[i] = s[i]
<1> DEFINE n == Len(s) - 1
           d == SubSeq(s, 1, n)
<1>1. Len(s) \in Nat /\ Len(s) > 0
  OBVIOUS
<1>2. n \in Nat /\ n <= Len(s)
  BY <1>1
<1>3. Front(s) = d
  BY DEF Front
<1> HIDE DEF n
<1>4. \A i \in 1 .. n : s[i] \in S
  BY <1>1, <1>2, ElementOfSeq
<1>5. d \in Seq(S) /\ Len(d) = n
  BY <1>2, <1>4
<1>6. \A i \in 1 .. n : d[i] = s[i]
  BY <1>2
<1> HIDE DEF d
<1> QED
  BY <1>2, <1>3, <1>5, <1>6 DEF n

(* What is left of a sequence. *)
LEMMA DropIs ==
    ASSUME NEW S, NEW s \in Seq(S), NEW k \in 0 .. Len(s)
    PROVE  LET d == SubSeq(s, k + 1, Len(s)) IN
           /\ d \in Seq(S) /\ Len(d) = Len(s) - k /\ Len(d) \in Nat
           /\ \A i \in 1 .. Len(s) - k : d[i] = s[k + i]
BY SubSeqProperties

(* What is left of a concatenation after some of its first part. *)
LEMMA DropFromConcat ==
    ASSUME NEW S, NEW a \in Seq(S), NEW b \in Seq(S), NEW k \in 0 .. Len(a)
    PROVE  SubSeq(a \o b, k + 1, Len(a \o b)) = SubSeq(a, k + 1, Len(a)) \o b
<1> DEFINE l == SubSeq(a \o b, k + 1, Len(a \o b))
           d == SubSeq(a, k + 1, Len(a))
           r == d \o b
<1>1. a \o b \in Seq(S) /\ Len(a \o b) = Len(a) + Len(b)
      /\ \A i \in 1 .. Len(a) + Len(b) : (a \o b)[i] = IF i <= Len(a) THEN a[i] ELSE b[i - Len(a)]
  BY ConcatProperties
<1>2. l \in Seq(S) /\ Len(l) = Len(a) + Len(b) - k
      /\ \A i \in 1 .. Len(a) + Len(b) - k : l[i] = (a \o b)[k + i]
  BY <1>1, SubSeqProperties
<1>3. d \in Seq(S) /\ Len(d) = Len(a) - k /\ \A i \in 1 .. Len(a) - k : d[i] = a[k + i]
  BY DropIs
<1> HIDE DEF l, d
<1>4. r \in Seq(S) /\ Len(r) = Len(d) + Len(b)
      /\ \A i \in 1 .. Len(d) + Len(b) : r[i] = IF i <= Len(d) THEN d[i] ELSE b[i - Len(d)]
  BY <1>3, ConcatProperties
<1> HIDE DEF r
<1>5. Len(a) \in Nat /\ Len(b) \in Nat /\ k \in Nat /\ Len(l) = Len(r)
  BY <1>2, <1>3, <1>4
<1>6. ASSUME NEW i \in 1 .. Len(l) PROVE l[i] = r[i]
  <2>1. l[i] = (a \o b)[k + i] /\ k + i \in 1 .. Len(a) + Len(b)
    BY <1>2, <1>5
  <2>2. CASE i <= Len(d)
    <3>1. r[i] = d[i] /\ d[i] = a[k + i] /\ k + i <= Len(a)
      BY <1>2, <1>3, <1>4, <1>5, <2>2
    <3> QED
      BY <1>1, <2>1, <3>1
  <2>3. CASE i > Len(d)
    <3>1. r[i] = b[i - Len(d)] /\ i - Len(d) = k + i - Len(a) /\ ~ (k + i <= Len(a))
      BY <1>2, <1>3, <1>4, <1>5, <2>3
    <3> QED
      BY <1>1, <2>1, <3>1
  <2> QED
    BY <1>3, <1>5, <2>2, <2>3
<1>7. l = r
  BY <1>2, <1>4, <1>5, <1>6, SeqEqual
<1> QED
  BY <1>7 DEF l, r, d

(* What is left of a sequence, in two pieces. *)
LEMMA DropInTwo ==
    ASSUME NEW S, NEW s \in Seq(S), NEW k \in 0 .. Len(s), NEW w \in 0 .. Len(s) - k
    PROVE  LET d == SubSeq(s, k + 1, Len(s)) IN
           d = SubSeq(d, 1, w) \o SubSeq(s, k + w + 1, Len(s))
<1> DEFINE d == SubSeq(s, k + 1, Len(s))
           a == SubSeq(d, 1, w)
           c == SubSeq(s, k + w + 1, Len(s))
           r == a \o c
<1>1. d \in Seq(S) /\ Len(d) = Len(s) - k /\ \A i \in 1 .. Len(s) - k : d[i] = s[k + i]
  BY SubSeqProperties
<1>2. a \in Seq(S) /\ Len(a) = w /\ \A i \in 1 .. w : a[i] = d[i]
  <2> HIDE DEF d
  <2> QED
    BY <1>1, SubSeqProperties
<1>3. c \in Seq(S) /\ Len(c) = Len(s) - k - w /\ \A i \in 1 .. Len(s) - k - w : c[i] = s[k + w + i]
  BY SubSeqProperties
<1> HIDE DEF d, a, c
<1>4. r \in Seq(S) /\ Len(r) = Len(s) - k
      /\ \A i \in 1 .. Len(s) - k : r[i] = IF i <= w THEN a[i] ELSE c[i - w]
  <2>1. r \in Seq(S) /\ Len(r) = Len(a) + Len(c)
        /\ \A i \in 1 .. Len(a) + Len(c) : r[i] = IF i <= Len(a) THEN a[i] ELSE c[i - Len(a)]
    BY <1>2, <1>3, ConcatProperties
  <2>2. Len(a) + Len(c) = Len(s) - k
    BY <1>2, <1>3
  <2> QED
    BY <1>2, <2>1, <2>2
<1> HIDE DEF r
<1>5. ASSUME NEW i \in 1 .. Len(d) PROVE d[i] = r[i]
  <2>1. CASE i <= w
    BY <1>1, <1>2, <1>4, <2>1
  <2>2. CASE i > w
    <3>1. i - w \in 1 .. Len(s) - k - w /\ k + w + (i - w) = k + i /\ i \in 1 .. Len(s) - k
      BY <1>1, <2>2
    <3>2. c[i - w] = s[k + w + (i - w)] /\ r[i] = c[i - w] /\ d[i] = s[k + i]
      BY <1>1, <1>3, <1>4, <2>2, <3>1
    <3> QED
      BY <3>1, <3>2
  <2> QED
    BY <1>1, <2>1, <2>2
<1>6. d = r
  BY <1>1, <1>4, <1>5, SeqEqual
<1> QED
  BY <1>6 DEF r, a, c, d

(* What is left of the first string, and the strings after it. *)
LEMMA DropFromFlatten ==
    ASSUME NEW S, NEW s \in Seq(Seq(S)), s # <<>>, NEW k \in 0 .. Len(Head(s))
    PROVE  /\ SubSeq(FlattenSeq(s), k + 1, Len(FlattenSeq(s)))
              = SubSeq(Head(s), k + 1, Len(Head(s))) \o FlattenSeq(Tail(s))
           /\ k <= Len(FlattenSeq(s))
<1>1. Head(s) \in Seq(S) /\ Tail(s) \in Seq(Seq(S))
  BY HeadTailProperties
<1>2. FlattenSeq(s) = Head(s) \o FlattenSeq(Tail(s))
  BY FlattenTail
<1>3. FlattenSeq(Tail(s)) \in Seq(S)
  BY <1>1, FlattenType
<1>4. Len(FlattenSeq(s)) = Len(Head(s)) + Len(FlattenSeq(Tail(s)))
  BY <1>1, <1>2, <1>3, ConcatProperties
<1>5. Len(Head(s)) \in Nat /\ Len(FlattenSeq(Tail(s))) \in Nat
  BY <1>1, <1>3
<1>6. SubSeq(Head(s) \o FlattenSeq(Tail(s)), k + 1, Len(Head(s) \o FlattenSeq(Tail(s))))
      = SubSeq(Head(s), k + 1, Len(Head(s))) \o FlattenSeq(Tail(s))
  BY <1>1, <1>3, DropFromConcat
<1>7. k <= Len(FlattenSeq(s))
  BY <1>4, <1>5
<1> QED
  BY <1>2, <1>6, <1>7

(* The numbers up to m, and n more. *)
LEMMA Numbered ==
    ASSUME NEW m \in Nat, NEW n \in Nat
    PROVE  /\ [i \in 1 .. m |-> i] \o [i \in 1 .. n |-> m + i] = [i \in 1 .. m + n |-> i]
           /\ [i \in 1 .. n |-> m + i] \in Seq(Nat)
           /\ Len([i \in 1 .. n |-> m + i]) = n
<1> DEFINE a == [i \in 1 .. m |-> i]
           b == [i \in 1 .. n |-> m + i]
           c == [i \in 1 .. m + n |-> i]
           r == a \o b
<1>1. a \in Seq(Nat) /\ Len(a) = m /\ \A i \in 1 .. m : a[i] = i
  OBVIOUS
<1>2. b \in Seq(Nat) /\ Len(b) = n /\ \A i \in 1 .. n : b[i] = m + i
  <2>1. \A i \in 1 .. n : m + i \in Nat
    OBVIOUS
  <2> QED
    BY <2>1
<1>3. c \in Seq(Nat) /\ Len(c) = m + n /\ \A i \in 1 .. m + n : c[i] = i
  OBVIOUS
<1> HIDE DEF a, b, c
<1>4. r \in Seq(Nat) /\ Len(r) = m + n
      /\ \A i \in 1 .. m + n : r[i] = IF i <= m THEN a[i] ELSE b[i - m]
  BY <1>1, <1>2, ConcatProperties
<1> HIDE DEF r
<1>5. ASSUME NEW i \in 1 .. Len(r) PROVE r[i] = c[i]
  <2>1. i \in 1 .. m + n /\ c[i] = i
    BY <1>3, <1>4
  <2>2. CASE i <= m
    BY <1>1, <1>4, <2>1, <2>2
  <2>3. CASE i > m
    <3>1. i - m \in 1 .. n /\ m + (i - m) = i
      BY <2>1, <2>3
    <3> QED
      BY <1>2, <1>4, <2>1, <2>3, <3>1
  <2> QED
    BY <2>1, <2>2, <2>3
<1>6. r = c
  BY <1>3, <1>4, <1>5, SeqEqual
<1> QED
  BY <1>2, <1>6 DEF r, a, b, c

(* Of two ways to cut the same sequence in two, the first part of the      *)
(* longer cut begins with that of the shorter.                             *)
Cuts(a, x, b, y) ==
    /\ SubSeq(a, 1, Len(b)) = b
    /\ SubSeq(a, Len(b) + 1, Len(a)) \o x = y

LEMMA TwoCuts ==
    ASSUME NEW S, NEW a \in Seq(S), NEW x \in Seq(S), NEW b \in Seq(S), NEW y \in Seq(S),
           a \o x = b \o y, Len(b) <= Len(a)
    PROVE  Cuts(a, x, b, y)
<1>1. Len(a) \in Nat /\ Len(b) \in Nat /\ Len(b) \in 0 .. Len(a)
  OBVIOUS
<1>2. \A i \in 1 .. Len(b) : a[i] = b[i]
  <2> TAKE i \in 1 .. Len(b)
  <2>1. (a \o x)[i] = a[i]
    BY <1>1, ConcatProperties
  <2>2. (b \o y)[i] = b[i]
    BY <1>1, ConcatProperties
  <2> QED
    BY <2>1, <2>2
<1>3. SubSeq(a, 1, Len(b)) = b
  <2> DEFINE c == SubSeq(a, 1, Len(b))
  <2>1. c \in Seq(S) /\ Len(c) = Len(b) /\ \A i \in 1 .. Len(b) : c[i] = a[i]
    BY <1>1, SubSeqProperties
  <2> HIDE DEF c
  <2>2. c = b
    BY <1>2, <2>1, SeqEqual
  <2> QED
    BY <2>2 DEF c
<1>4. SubSeq(a \o x, Len(b) + 1, Len(a \o x)) = SubSeq(a, Len(b) + 1, Len(a)) \o x
  BY <1>1, DropFromConcat
<1>5. SubSeq(b \o y, Len(b) + 1, Len(b \o y)) = SubSeq(b, Len(b) + 1, Len(b)) \o y
  BY <1>1, DropFromConcat
<1>6. SubSeq(b, Len(b) + 1, Len(b)) \o y = y
  <2>1. SubSeq(b, Len(b) + 1, Len(b)) = <<>>
    BY <1>1
  <2> QED
    BY <2>1, ConcatEmptySeq
<1> QED
  BY <1>3, <1>4, <1>5, <1>6 DEF Cuts

(* The greatest number of a set of numbers up to n. *)
LEMMA MaxUpto ==
    ASSUME NEW n \in Nat, NEW s \in SUBSET (1 .. n), s # {}
    PROVE  Max(s) \in s /\ \A k \in s : k <= Max(s)
<1> DEFINE T == {n - k : k \in s}
<1>1. T \subseteq Nat
  OBVIOUS
<1>2. T # {}
  <2>1. PICK k \in s : TRUE
    OBVIOUS
  <2>2. n - k \in T
    BY <2>1
  <2> QED
    BY <2>2
<1>3. PICK m \in T : \A k \in T : m <= k
  <2> HIDE DEF T
  <2> QED
    BY <1>1, <1>2, LeastNatural
<1>4. PICK x \in s : m = n - x
  BY <1>3
<1>5. ASSUME NEW y \in s PROVE x >= y
  <2>1. n - y \in T /\ x \in 1 .. n /\ y \in 1 .. n
    OBVIOUS
  <2>2. m <= n - y
    BY <1>3, <2>1
  <2> QED
    BY <1>4, <2>1, <2>2
<1>6. \E z \in s : \A y \in s : z >= y
  BY <1>5
<1>7. Max(s) \in s /\ \A y \in s : Max(s) >= y
  BY <1>6 DEF Max
<1>8. s \subseteq Int
  OBVIOUS
<1> QED
  BY <1>7, <1>8

LEMMA MaxIs ==
    ASSUME NEW n \in Nat, NEW s \in SUBSET (1 .. n), NEW m \in s, \A k \in s : k <= m
    PROVE  Max(s) = m
<1>1. s # {} /\ s \subseteq Int
  OBVIOUS
<1>2. Max(s) \in s /\ m <= Max(s)
  BY <1>1, MaxUpto
<1>3. Max(s) <= m /\ Max(s) \in Int /\ m \in Int
  BY <1>1, <1>2
<1> QED
  BY <1>2, <1>3

(* What the folds of sequences of length n go through: every set of places *)
(* is folded by taking its last place off.                                 *)
Folds(g, b, step, n) ==
    \A s \in SUBSET (1 .. n) : g[s] = IF s = {} THEN b ELSE step[Max(s)][g[s \ {Max(s)}]]

LEMMA FoldExists ==
    ASSUME NEW S, NEW n \in Nat, NEW b \in S, NEW step \in [1 .. n -> [S -> S]]
    PROVE  \E g \in [SUBSET (1 .. n) -> S] : Folds(g, b, step, n)
<1> DEFINE T == {k \in 0 .. n : ~ \E g \in [SUBSET (1 .. k) -> S] : Folds(g, b, step, k)}
<1>1. SUFFICES ASSUME T # {} PROVE FALSE
  <2>1. n \in 0 .. n
    OBVIOUS
  <2> QED
    BY <2>1, Zenon
<1>2. PICK m \in T : \A k \in T : m <= k
  <2> HIDE DEF T
  <2>1. T \subseteq Nat
    BY DEF T
  <2> QED
    BY <1>1, <2>1, LeastNatural
<1>3. m # 0
  <2> DEFINE g == [s \in SUBSET (1 .. 0) |-> b]
  <2>1. g \in [SUBSET (1 .. 0) -> S] /\ Folds(g, b, step, 0)
    BY DEF Folds
  <2> QED
    BY <2>1, Zenon
<1>4. m \in 1 .. n /\ m - 1 \in 0 .. n /\ m - 1 \notin T
  <2>1. m \in 0 .. n
    OBVIOUS
  <2> HIDE DEF T
  <2> QED
    BY <1>2, <1>3, <2>1
<1>5. PICK g \in [SUBSET (1 .. m - 1) -> S] : Folds(g, b, step, m - 1)
  BY <1>4, Zenon
<1> DEFINE h == [s \in SUBSET (1 .. m) |-> IF m \in s THEN step[m][g[s \ {m}]] ELSE g[s]]
<1>6. ASSUME NEW s \in SUBSET (1 .. m)
      PROVE  /\ s \ {m} \in SUBSET (1 .. m - 1)
             /\ m \notin s => s \in SUBSET (1 .. m - 1)
  BY <1>4
<1>7. h \in [SUBSET (1 .. m) -> S]
  BY <1>4, <1>5, <1>6
<1>8. ASSUME NEW s \in SUBSET (1 .. m)
      PROVE  h[s] = IF s = {} THEN b ELSE step[Max(s)][h[s \ {Max(s)}]]
  <2>1. CASE m \in s
    <3>1. s # {} /\ m \in Nat
      BY <1>4, <2>1
    <3>2. Max(s) = m
      <4>1. \A k \in s : k <= m
        BY <1>4
      <4> QED
        BY <2>1, <3>1, <4>1, MaxIs
    <3>3. s \ {m} \in SUBSET (1 .. m) /\ m \notin s \ {m}
      OBVIOUS
    <3>4. h[s] = step[m][g[s \ {m}]] /\ h[s \ {m}] = g[s \ {m}]
      BY <2>1, <3>3, Zenon
    <3> QED
      BY <3>1, <3>2, <3>4, Zenon
  <2>2. CASE m \notin s
    <3>1. s \in SUBSET (1 .. m - 1)
      BY <1>6, <2>2
    <3>2. h[s] = g[s]
      BY <2>2, Zenon
    <3>3. CASE s = {}
      BY <1>5, <3>1, <3>2, <3>3, Zenon DEF Folds
    <3>4. CASE s # {}
      <4> DEFINE t == s \ {Max(s)}
      <4>1. t \in SUBSET (1 .. m) /\ m \notin t
        BY <2>2
      <4>2. h[t] = g[t]
        BY <4>1, Zenon
      <4>3. g[s] = step[Max(s)][g[t]]
        BY <1>5, <3>1, <3>4, Zenon DEF Folds
      <4> QED
        BY <3>2, <3>4, <4>2, <4>3, Zenon
    <3> QED
      BY <3>3, <3>4
  <2> QED
    BY <2>1, <2>2
<1>9. m \notin T
  <2>1. Folds(h, b, step, m)
    BY <1>8, Zenon DEF Folds
  <2> QED
    BY <1>7, <2>1, Zenon
<1> QED
  BY <1>9

(* Such a fold, where its values are known to be in S, goes over all places *)
(* from the first to the last.                                             *)
FoldsIn(S, g, b, step, n) ==
    /\ g[{}] = b
    /\ \A s \in SUBSET (1 .. n) : s # {} /\ g[s \ {Max(s)}] \in S
                                  => g[s] = step[Max(s)][g[s \ {Max(s)}]]

Along(f, b, step, n) == f[0] = b /\ \A i \in 1 .. n : f[i] = step[i][f[i - 1]]

LEMMA FoldAlong ==
    ASSUME NEW S, NEW n \in Nat, NEW b \in S, NEW step \in [1 .. n -> [S -> S]], NEW g,
           FoldsIn(S, g, b, step, n)
    PROVE  \E f \in [0 .. n -> S] : Along(f, b, step, n) /\ f[n] = g[1 .. n]
<1> DEFINE f == [i \in 0 .. n |-> g[1 .. i]]
<1>1. f[0] = b
  <2>1. 1 .. 0 = {} /\ 0 \in 0 .. n
    OBVIOUS
  <2> QED
    BY <2>1, Zenon DEF FoldsIn
<1>2. f[n] = g[1 .. n]
  <2>1. n \in 0 .. n
    OBVIOUS
  <2> QED
    BY <2>1, Zenon
<1>3. ASSUME NEW i \in 1 .. n, f[i - 1] \in S
      PROVE  f[i] = step[i][f[i - 1]] /\ f[i] \in S
  <2> DEFINE s == 1 .. i
  <2>1. i \in Nat /\ i > 0 /\ i <= n /\ i \in 0 .. n /\ i - 1 \in 0 .. n
    OBVIOUS
  <2>2. s \in SUBSET (1 .. n) /\ s # {} /\ i \in s /\ \A k \in s : k <= i
    <3>1. i \in s /\ \A k \in s : k <= i
      BY <2>1
    <3>2. \A k \in s : k \in 1 .. n
      BY <2>1
    <3> QED
      BY <3>1, <3>2
  <2>3. Max(s) = i
    <3>1. s \in SUBSET (1 .. i)
      OBVIOUS
    <3> HIDE DEF s
    <3> QED
      BY <2>1, <2>2, <3>1, MaxIs
  <2>4. s \ {i} = 1 .. i - 1
    OBVIOUS
  <2>5. f[i] = g[s] /\ f[i - 1] = g[s \ {i}]
    BY <2>1, <2>4, Zenon
  <2> HIDE DEF f, s
  <2>6. g[s] = step[i][g[s \ {i}]]
    BY <1>3, <2>2, <2>3, <2>5, Zenon DEF FoldsIn
  <2>7. step[i] \in [S -> S]
    OBVIOUS
  <2> QED
    BY <1>3, <2>5, <2>6, <2>7
<1> DEFINE G == {i \in 1 .. n : f[i] \in S}
<1> HIDE DEF f
<1>4. n > 0 => 1 \in G
  <2>1. (n > 0 => 1 \in 1 .. n) /\ 1 - 1 = 0
    OBVIOUS
  <2> QED
    BY <1>1, <1>3, <2>1
<1>5. ASSUME NEW i \in 1 .. n - 1, i \in G PROVE i + 1 \in G
  <2>1. i + 1 \in 1 .. n /\ (i + 1) - 1 = i
    OBVIOUS
  <2>2. f[i + 1] \in S
    BY <1>3, <1>5, <2>1
  <2> QED
    BY <2>1, <2>2
<1> HIDE DEF G
<1>6. \A i \in 1 .. n : i \in G
  BY <1>4, <1>5, InductionUpto
<1>7. \A i \in 0 .. n : f[i] \in S
  <2> SUFFICES ASSUME NEW i \in 0 .. n PROVE f[i] \in S
    OBVIOUS
  <2>1. i = 0 \/ i \in 1 .. n
    OBVIOUS
  <2> QED
    BY <1>1, <1>6, <2>1 DEF G
<1>8. ASSUME NEW i \in 1 .. n PROVE f[i] = step[i][f[i - 1]]
  <2>1. i - 1 \in 0 .. n
    OBVIOUS
  <2> QED
    BY <1>3, <1>7, <2>1
<1>9. f \in [0 .. n -> S]
  BY <1>7 DEF f
<1> QED
  BY <1>1, <1>2, <1>8, <1>9 DEF Along

(* So the values of step after step exist. *)
LEMMA StepsExist ==
    ASSUME NEW S, NEW n \in Nat, NEW b \in S, NEW step \in [1 .. n -> [S -> S]]
    PROVE  \E f \in [0 .. n -> S] : Along(f, b, step, n)
<1>1. PICK g \in [SUBSET (1 .. n) -> S] : Folds(g, b, step, n)
  BY FoldExists
<1>2. FoldsIn(S, g, b, step, n)
  <2>1. {} \in SUBSET (1 .. n)
    OBVIOUS
  <2> QED
    BY <1>1, <2>1, Zenon DEF Folds, FoldsIn
<1> QED
  BY <1>2, FoldAlong
=============================================================================
