----------------------------- MODULE PathProofs -----------------------------
(* canonicalize leaves a path leading to where it led.                     *)
EXTENDS Path, SequenceLemmas

NameChars == Letters \cup {"."}
Chars == NameChars \cup {"/"}
Words == Seq(NameChars)
Places == [up : Nat, down : Seq(Words)]

-----------------------------------------------------------------------------
(* The folds by which a path means a place, step by step                   *)

AddsFrom(f, b, q) == f[0] = b /\ \A i \in 1 .. Len(q) : f[i] = AddChar(f[i - 1], q[i])

Added(b, q) == FoldLeft(AddChar, b, q)

(* The names of a path come from one character after the other. *)
LEMMA NamesFold ==
    ASSUME NEW S, NEW E, NEW b \in S, NEW q \in Seq(E),
           \A p \in S, e \in E : AddChar(p, e) \in S
    PROVE  \E f \in [0 .. Len(q) -> S] :
              AddsFrom(f, b, q) /\ f[Len(q)] = Added(b, q)
<1> DEFINE n == Len(q)
           Unfolds(g) == g = [s \in SUBSET (DOMAIN q) |->
                        IF s = {} THEN b ELSE AddChar(g[s \ {Max(s)}], q[Max(s)])]
           fold == CHOOSE g : Unfolds(g)
           step == [i \in 1 .. n |-> [p \in S |-> AddChar(p, q[i])]]
<1>1. n \in Nat /\ DOMAIN q = 1 .. n /\ \A i \in 1 .. n : q[i] \in E
  OBVIOUS
<1>2. step \in [1 .. n -> [S -> S]]
  BY <1>1
<1>3. \E g : Unfolds(g)
  <2>1. PICK g \in [SUBSET (1 .. n) -> S] : Folds(g, b, step, n)
    <3> HIDE DEF step, n
    <3> QED
      BY <1>1, <1>2, FoldExists
  <2>2. ASSUME NEW s \in SUBSET (1 .. n), s # {}
        PROVE  g[s] = AddChar(g[s \ {Max(s)}], q[Max(s)])
    <3>1. Max(s) \in 1 .. n
      BY <1>1, <2>2, MaxUpto
    <3>2. g[s \ {Max(s)}] \in S
      BY <2>1
    <3>3. g[s] = step[Max(s)][g[s \ {Max(s)}]]
      BY <2>1, <2>2, Zenon DEF Folds
    <3> QED
      BY <3>1, <3>2, <3>3, Zenon
  <2>3. ASSUME NEW s \in SUBSET (1 .. n)
        PROVE  g[s] = IF s = {} THEN b ELSE AddChar(g[s \ {Max(s)}], q[Max(s)])
    <3>1. CASE s = {}
      BY <2>1, <3>1, Zenon DEF Folds
    <3> QED
      BY <2>2, <3>1, Zenon
  <2>4. g = [s \in SUBSET (1 .. n) |->
               IF s = {} THEN b ELSE AddChar(g[s \ {Max(s)}], q[Max(s)])]
    BY <2>1, <2>3, Zenon
  <2> QED
    BY <1>1, <2>4, Zenon
<1>4. Unfolds(fold)
  <2> HIDE DEF Unfolds
  <2> QED
    BY <1>3
<1>5. Added(b, q) = fold[1 .. n]
  <2>1. Added(b, q) = fold[DOMAIN q]
    BY Zenon DEF Added, FoldLeft, MapThenFoldSet
  <2> HIDE DEF fold, n
  <2> QED
    BY <1>1, <2>1, Zenon
<1> HIDE DEF fold, n
<1>6. \A s \in SUBSET (1 .. n) :
         fold[s] = IF s = {} THEN b ELSE AddChar(fold[s \ {Max(s)}], q[Max(s)])
  BY <1>1, <1>4, Zenon
<1>7. fold[{}] = b
  <2>1. {} \in SUBSET (1 .. n)
    OBVIOUS
  <2> QED
    BY <1>6, <2>1, Zenon
<1>8. ASSUME NEW s \in SUBSET (1 .. n), s # {}, fold[s \ {Max(s)}] \in S
      PROVE  fold[s] = step[Max(s)][fold[s \ {Max(s)}]]
  <2>1. Max(s) \in 1 .. n
    BY <1>1, <1>8, MaxUpto
  <2> QED
    BY <1>6, <1>8, <2>1, Zenon
<1> HIDE DEF step
<1>9. FoldsIn(S, fold, b, step, n)
  BY <1>7, <1>8, Zenon DEF FoldsIn
<1>10. PICK f \in [0 .. n -> S] : Along(f, b, step, n) /\ f[n] = fold[1 .. n]
  BY <1>1, <1>2, <1>9, FoldAlong
<1>11. ASSUME NEW i \in 1 .. n PROVE f[i] = AddChar(f[i - 1], q[i])
  <2>1. i - 1 \in 0 .. n
    BY <1>1
  <2>2. f[i - 1] \in S
    BY <2>1
  <2> QED
    BY <1>10, <2>2, Zenon DEF step, Along
<1> QED
  BY <1>5, <1>10, <1>11, Zenon DEF n, Along, AddsFrom

WalksFrom(f, b, q) == f[0] = b /\ \A i \in 1 .. Len(q) : f[i] = Walk(f[i - 1], q[i])

Walked(b, q) == FoldLeft(Walk, b, q)

(* A walk goes along one name after the other. *)
LEMMA WalkFold ==
    ASSUME NEW S, NEW E, NEW b \in S, NEW q \in Seq(E),
           \A p \in S, e \in E : Walk(p, e) \in S
    PROVE  \E f \in [0 .. Len(q) -> S] :
              WalksFrom(f, b, q) /\ f[Len(q)] = Walked(b, q)
<1> DEFINE n == Len(q)
           Unfolds(g) == g = [s \in SUBSET (DOMAIN q) |->
                        IF s = {} THEN b ELSE Walk(g[s \ {Max(s)}], q[Max(s)])]
           fold == CHOOSE g : Unfolds(g)
           step == [i \in 1 .. n |-> [p \in S |-> Walk(p, q[i])]]
<1>1. n \in Nat /\ DOMAIN q = 1 .. n /\ \A i \in 1 .. n : q[i] \in E
  OBVIOUS
<1>2. step \in [1 .. n -> [S -> S]]
  BY <1>1
<1>3. \E g : Unfolds(g)
  <2>1. PICK g \in [SUBSET (1 .. n) -> S] : Folds(g, b, step, n)
    <3> HIDE DEF step, n
    <3> QED
      BY <1>1, <1>2, FoldExists
  <2>2. ASSUME NEW s \in SUBSET (1 .. n), s # {}
        PROVE  g[s] = Walk(g[s \ {Max(s)}], q[Max(s)])
    <3>1. Max(s) \in 1 .. n
      BY <1>1, <2>2, MaxUpto
    <3>2. g[s \ {Max(s)}] \in S
      BY <2>1
    <3>3. g[s] = step[Max(s)][g[s \ {Max(s)}]]
      BY <2>1, <2>2, Zenon DEF Folds
    <3> QED
      BY <3>1, <3>2, <3>3, Zenon
  <2>3. ASSUME NEW s \in SUBSET (1 .. n)
        PROVE  g[s] = IF s = {} THEN b ELSE Walk(g[s \ {Max(s)}], q[Max(s)])
    <3>1. CASE s = {}
      BY <2>1, <3>1, Zenon DEF Folds
    <3> QED
      BY <2>2, <3>1, Zenon
  <2>4. g = [s \in SUBSET (1 .. n) |->
               IF s = {} THEN b ELSE Walk(g[s \ {Max(s)}], q[Max(s)])]
    BY <2>1, <2>3, Zenon
  <2> QED
    BY <1>1, <2>4, Zenon
<1>4. Unfolds(fold)
  <2> HIDE DEF Unfolds
  <2> QED
    BY <1>3
<1>5. Walked(b, q) = fold[1 .. n]
  <2>1. Walked(b, q) = fold[DOMAIN q]
    BY Zenon DEF Walked, FoldLeft, MapThenFoldSet
  <2> HIDE DEF fold, n
  <2> QED
    BY <1>1, <2>1, Zenon
<1> HIDE DEF fold, n
<1>6. \A s \in SUBSET (1 .. n) :
         fold[s] = IF s = {} THEN b ELSE Walk(fold[s \ {Max(s)}], q[Max(s)])
  BY <1>1, <1>4, Zenon
<1>7. fold[{}] = b
  <2>1. {} \in SUBSET (1 .. n)
    OBVIOUS
  <2> QED
    BY <1>6, <2>1, Zenon
<1>8. ASSUME NEW s \in SUBSET (1 .. n), s # {}, fold[s \ {Max(s)}] \in S
      PROVE  fold[s] = step[Max(s)][fold[s \ {Max(s)}]]
  <2>1. Max(s) \in 1 .. n
    BY <1>1, <1>8, MaxUpto
  <2> QED
    BY <1>6, <1>8, <2>1, Zenon
<1> HIDE DEF step
<1>9. FoldsIn(S, fold, b, step, n)
  BY <1>7, <1>8, Zenon DEF FoldsIn
<1>10. PICK f \in [0 .. n -> S] : Along(f, b, step, n) /\ f[n] = fold[1 .. n]
  BY <1>1, <1>2, <1>9, FoldAlong
<1>11. ASSUME NEW i \in 1 .. n PROVE f[i] = Walk(f[i - 1], q[i])
  <2>1. i - 1 \in 0 .. n
    BY <1>1
  <2>2. f[i - 1] \in S
    BY <2>1
  <2> QED
    BY <1>10, <2>2, Zenon DEF step, Along
<1> QED
  BY <1>5, <1>10, <1>11, Zenon DEF n, Along, WalksFrom

-----------------------------------------------------------------------------
(* A name that a walk goes down by *)
IsName(n) == n # <<>> /\ n # <<".">> /\ n # <<".", ".">>

LEMMA WalkIs ==
    ASSUME NEW P \in Places, NEW n \in Words
    PROVE  /\ Walk(P, n) \in Places
           /\ n = <<>> \/ n = <<".">> => Walk(P, n) = P
           /\ n = <<".", ".">> /\ P.down = <<>> => Walk(P, n) = [up |-> P.up + 1, down |-> <<>>]
           /\ n = <<".", ".">> /\ P.down # <<>> => Walk(P, n) = [up |-> P.up, down |-> Front(P.down)]
           /\ IsName(n) => Walk(P, n) = [up |-> P.up, down |-> Append(P.down, n)]
<1>1. P = [up |-> P.up, down |-> P.down] /\ P.up \in Nat /\ P.down \in Seq(Words)
  BY DEF Places
<1>2. <<".">> # <<>> /\ <<".", ".">> # <<>> /\ <<".">> # <<".", ".">>
  OBVIOUS
<1>3. CASE n = <<>> \/ n = <<".">>
  <2>1. Walk(P, n) = P
    BY <1>3 DEF Walk
  <2> QED
    BY <1>2, <1>3, <2>1 DEF IsName
<1>4. CASE n = <<".", ".">>
  <2>1. Walk(P, n) = IF P.down = <<>> THEN [P EXCEPT !.up = @ + 1] ELSE [P EXCEPT !.down = Front(@)]
    BY <1>2, <1>4 DEF Walk
  <2>2. CASE P.down = <<>>
    <3>1. Walk(P, n) = [up |-> P.up + 1, down |-> <<>>]
      BY <1>1, <2>1, <2>2
    <3>2. P.up + 1 \in Nat /\ <<>> \in Seq(Words)
      BY <1>1
    <3> QED
      BY <1>2, <1>4, <2>2, <3>1, <3>2 DEF IsName, Places
  <2>3. CASE P.down # <<>>
    <3>1. Walk(P, n) = [up |-> P.up, down |-> Front(P.down)]
      BY <1>1, <2>1, <2>3
    <3>2. Front(P.down) \in Seq(Words)
      BY <1>1, <2>3, FrontIs
    <3> QED
      BY <1>1, <1>2, <1>4, <2>3, <3>1, <3>2 DEF IsName, Places
  <2> QED
    BY <2>2, <2>3
<1>5. CASE IsName(n)
  <2>1. Walk(P, n) = [P EXCEPT !.down = Append(@, n)]
    BY <1>5 DEF Walk, IsName
  <2>2. Walk(P, n) = [up |-> P.up, down |-> Append(P.down, n)]
    BY <1>1, <2>1
  <2>3. Append(P.down, n) \in Seq(Words)
    BY <1>1
  <2> QED
    BY <1>1, <1>5, <2>2, <2>3 DEF IsName, Places
<1> QED
  BY <1>3, <1>4, <1>5 DEF IsName

(* Walking the names q from where the path starts *)
Base == [up |-> 0, down |-> <<>>]

LEMMA WalkedIs ==
    ASSUME NEW q \in Seq(Words)
    PROVE  \E f \in [0 .. Len(q) -> Places] :
              f[0] = Base /\ f[Len(q)] = Walked(Base, q) /\ \A i \in 1 .. Len(q) : f[i] = Walk(f[i - 1], q[i])
<1>1. Base \in Places
  BY DEF Base, Places
<1>2. \A P \in Places, n \in Words : Walk(P, n) \in Places
  BY WalkIs
<1> HIDE DEF Base, Words, Places
<1>3. \E f \in [0 .. Len(q) -> Places] : WalksFrom(f, Base, q) /\ f[Len(q)] = Walked(Base, q)
  BY <1>1, <1>2, WalkFold
<1> QED
  BY <1>3, Zenon DEF WalksFrom

LEMMA WalkedNothing ==
    Walked(Base, <<>>) = Base
<1>1. <<>> \in Seq(Words) /\ Len(<<>>) = 0
  OBVIOUS
<1> QED
  BY <1>1, WalkedIs

(* The names of q and then x *)
LEMMA WalkedOn ==
    ASSUME NEW q \in Seq(Words), NEW x \in Words
    PROVE  Walked(Base, q) \in Places /\ Walked(Base, Append(q, x)) = Walk(Walked(Base, q), x)
<1> DEFINE n == Len(q)
           r == Append(q, x)
<1>1. r \in Seq(Words) /\ Len(r) = n + 1 /\ n \in Nat /\ r[n + 1] = x /\ \A i \in 1 .. n : r[i] = q[i]
  BY AppendProperties
<1>2. PICK f \in [0 .. n -> Places] :
         f[0] = Base /\ f[n] = Walked(Base, q) /\ \A i \in 1 .. n : f[i] = Walk(f[i - 1], q[i])
  BY WalkedIs
<1>3. PICK g \in [0 .. n + 1 -> Places] :
         g[0] = Base /\ g[n + 1] = Walked(Base, r) /\ \A i \in 1 .. n + 1 : g[i] = Walk(g[i - 1], r[i])
  <2> HIDE DEF r
  <2>1. r \in Seq(Words) /\ Len(r) = n + 1
    BY <1>1
  <2>2. PICK g \in [0 .. Len(r) -> Places] :
           g[0] = Base /\ g[Len(r)] = Walked(Base, r) /\ \A i \in 1 .. Len(r) : g[i] = Walk(g[i - 1], r[i])
    BY <2>1, WalkedIs
  <2> HIDE DEF n
  <2> QED
    BY <2>1, <2>2
<1> DEFINE G == {i \in 1 .. n : f[i] = g[i]}
<1> HIDE DEF n, r
<1>4. ASSUME NEW i \in 1 .. n, f[i - 1] = g[i - 1] PROVE f[i] = g[i]
  BY <1>1, <1>2, <1>3, <1>4
<1>5. n > 0 => 1 \in G
  <2>1. (n > 0 => 1 \in 1 .. n) /\ 1 - 1 = 0
    BY <1>1
  <2> QED
    BY <1>2, <1>3, <1>4, <2>1
<1>6. ASSUME NEW i \in 1 .. n - 1, i \in G PROVE i + 1 \in G
  <2>1. i + 1 \in 1 .. n /\ (i + 1) - 1 = i
    BY <1>1
  <2> QED
    BY <1>4, <1>6, <2>1
<1> HIDE DEF G
<1>7. \A i \in 1 .. n : i \in G
  BY <1>1, <1>5, <1>6, InductionUpto
<1>8. f[n] = g[n]
  <2>1. n = 0 \/ n \in 1 .. n
    BY <1>1
  <2> QED
    BY <1>2, <1>3, <1>7, <2>1 DEF G
<1>9. g[n + 1] = Walk(g[n], x)
  <2>1. n + 1 \in 1 .. n + 1 /\ (n + 1) - 1 = n
    BY <1>1
  <2> QED
    BY <1>1, <1>3, <2>1
<1>10. f[n] \in Places
  <2>1. n \in 0 .. n
    BY <1>1
  <2> QED
    BY <1>2, <2>1
<1> QED
  BY <1>2, <1>3, <1>8, <1>9, <1>10 DEF r
-----------------------------------------------------------------------------
(* Reading a path character by character: the place walked to so far, and  *)
(* the name that is being read                                             *)
States == [place : Places, name : Words]

Start == [place |-> Base, name |-> <<>>]

(* Where a path leads that ends here *)
End(st) == Walk(st.place, st.name)

Read(st, c) ==
    IF c = "/" THEN [place |-> End(st), name |-> <<>>]
    ELSE [place |-> st.place, name |-> Append(st.name, c)]

Reads(h, p) ==
    /\ h \in [0 .. Len(p) -> States]
    /\ h[0] = Start
    /\ \A i \in 1 .. Len(p) : h[i] = Read(h[i - 1], p[i])

LEMMA StartIs == Base \in Places /\ Start \in States
<1>1. <<>> \in Words /\ <<>> \in Seq(Words)
  BY DEF Words
<1> QED
  BY <1>1 DEF Base, Start, Places, States

LEMMA ReadIs ==
    ASSUME NEW st \in States, NEW c \in Chars
    PROVE  /\ End(st) \in Places /\ Read(st, c) \in States
           /\ c = "/" => Read(st, c).place = End(st) /\ Read(st, c).name = <<>>
           /\ c # "/" => Read(st, c).place = st.place /\ Read(st, c).name = Append(st.name, c)
<1>1. st.place \in Places /\ st.name \in Words
  BY DEF States
<1>2. End(st) \in Places
  BY <1>1, WalkIs DEF End
<1>3. <<>> \in Words
  BY DEF Words
<1>4. c # "/" => Append(st.name, c) \in Words
  BY <1>1 DEF Words, Chars
<1> QED
  BY <1>1, <1>2, <1>3, <1>4 DEF Read, States

LEMMA ReadsExist ==
    ASSUME NEW p \in Seq(Chars)
    PROVE  \E h : Reads(h, p)
<1> DEFINE n == Len(p)
           step == [i \in 1 .. n |-> [st \in States |-> Read(st, p[i])]]
<1>1. n \in Nat /\ \A i \in 1 .. n : p[i] \in Chars
  OBVIOUS
<1>2. step \in [1 .. n -> [States -> States]]
  BY <1>1, ReadIs
<1>3. \A i \in 1 .. n, st \in States : step[i][st] = Read(st, p[i])
  OBVIOUS
<1> HIDE DEF step, n
<1>4. PICK h \in [0 .. n -> States] : Along(h, Start, step, n)
  BY <1>1, <1>2, StartIs, StepsExist
<1>5. ASSUME NEW i \in 1 .. n PROVE h[i] = Read(h[i - 1], p[i])
  <2>1. i - 1 \in 0 .. n
    BY <1>1
  <2>2. h[i - 1] \in States
    BY <2>1
  <2> QED
    BY <1>3, <1>4, <2>2, Zenon DEF Along
<1>6. Reads(h, p)
  BY <1>4, <1>5, Zenon DEF Reads, Along, n
<1> QED
  BY <1>6

-----------------------------------------------------------------------------
(* Where the reading of a path ends is where its names lead to.            *)

NameLists == {names \in Seq(Words) : names # <<>>}

LEMMA AddCharIs ==
    ASSUME NEW names \in NameLists, NEW c \in Chars
    PROVE  /\ AddChar(names, c) \in NameLists
           /\ c = "/" => Front(AddChar(names, c)) = names /\ Last(AddChar(names, c)) = <<>>
           /\ c # "/" => /\ Front(AddChar(names, c)) = Front(names)
                         /\ Last(AddChar(names, c)) = Append(Last(names), c)
<1> DEFINE new == AddChar(names, c)
           n == Len(names)
<1>1. names \in Seq(Words) /\ n \in Nat /\ n > 0 /\ n \in 1 .. n
  BY DEF NameLists
<1>2. CASE c = "/"
  <2>1. new = Append(names, <<>>) /\ <<>> \in Words
    BY <1>2 DEF AddChar, Words
  <2>2. new \in Seq(Words) /\ new # <<>> /\ Len(new) = n + 1 /\ (\A i \in 1 .. n : new[i] = names[i]) /\ new[n + 1] = <<>>
    BY <1>1, <2>1, AppendProperties
  <2> HIDE DEF new
  <2>3. Front(new) \in Seq(Words) /\ Len(Front(new)) = n /\ \A i \in 1 .. n : Front(new)[i] = new[i]
    BY <1>1, <2>2, FrontIs
  <2>4. Front(new) = names
    BY <1>1, <2>2, <2>3, SeqEqual
  <2>5. Last(new) = <<>>
    BY <2>2 DEF Last
  <2> QED
    BY <1>2, <2>2, <2>4, <2>5 DEF NameLists, new
<1>3. CASE c # "/"
  <2>1. new = [names EXCEPT ![n] = Append(names[n], c)] /\ Last(names) = names[n] /\ names[n] \in Words
    BY <1>1, <1>3 DEF AddChar, Last
  <2>2. Append(names[n], c) \in Words
    BY <1>3, <2>1 DEF Words, Chars
  <2>3. new \in Seq(Words) /\ Len(new) = n /\ (\A i \in 1 .. n - 1 : new[i] = names[i]) /\ new[n] = Append(names[n], c)
    BY <1>1, <2>1, <2>2, ExceptSeq
  <2> HIDE DEF new
  <2>4. new # <<>>
    BY <1>1, <2>3
  <2>5. Front(new) \in Seq(Words) /\ Len(Front(new)) = n - 1 /\ \A i \in 1 .. n - 1 : Front(new)[i] = new[i]
    BY <1>1, <2>3, <2>4, FrontIs
  <2>6. Front(names) \in Seq(Words) /\ Len(Front(names)) = n - 1 /\ \A i \in 1 .. n - 1 : Front(names)[i] = names[i]
    BY <1>1, FrontIs
  <2>7. Front(new) = Front(names)
    <3> DEFINE a == Front(new)
               b == Front(names)
    <3>1. a \in Seq(Words) /\ b \in Seq(Words) /\ Len(a) = Len(b)
      BY <2>5, <2>6
    <3>2. \A i \in 1 .. n - 1 : a[i] = b[i]
      BY <2>3, <2>5, <2>6
    <3>3. \A i \in 1 .. Len(a) : a[i] = b[i]
      BY <2>5, <3>2
    <3> HIDE DEF a, b
    <3>4. a = b
      BY <3>1, <3>3, SeqEqual
    <3> QED
      BY <3>4 DEF a, b
  <2>8. Last(new) = Append(Last(names), c)
    BY <2>1, <2>3 DEF Last
  <2> QED
    BY <1>3, <2>3, <2>4, <2>7, <2>8 DEF NameLists, new
<1> QED
  BY <1>2, <1>3

LEMMA FrontAndLast ==
    ASSUME NEW S, NEW s \in Seq(S), s # <<>>
    PROVE  Front(s) \in Seq(S) /\ Last(s) \in S /\ s = Append(Front(s), Last(s))
<1> DEFINE n == Len(s)
           f == Front(s)
           r == Append(f, s[n])
<1>1. n \in Nat /\ n > 0 /\ s[n] \in S /\ Last(s) = s[n]
  BY DEF Last
<1>2. f \in Seq(S) /\ Len(f) = n - 1 /\ \A i \in 1 .. n - 1 : f[i] = s[i]
  BY FrontIs
<1> HIDE DEF f
<1>3. r \in Seq(S) /\ Len(r) = n /\ (\A i \in 1 .. n - 1 : r[i] = f[i]) /\ r[n] = s[n]
  BY <1>1, <1>2, AppendProperties
<1> HIDE DEF r
<1>4. ASSUME NEW i \in 1 .. n PROVE r[i] = s[i]
  <2>1. i = n \/ i \in 1 .. n - 1
    BY <1>1
  <2> QED
    BY <1>2, <1>3, <2>1
<1>5. r = s
  BY <1>3, <1>4, SeqEqual
<1> QED
  BY <1>1, <1>2, <1>5 DEF r, f

LEMMA ReadsThePlace ==
    ASSUME NEW p \in Seq(Chars), NEW h, Reads(h, p)
    PROVE  Walked(Base, Names(p)) = End(h[Len(p)])
<1> DEFINE n == Len(p)
           b == << <<>> >>
           Meets(q, st) == /\ q \in NameLists /\ Walked(Base, Front(q)) = st.place
                           /\ Last(q) = st.name
<1>1. n \in Nat /\ \A i \in 1 .. n : p[i] \in Chars
  OBVIOUS
<1>2. b \in NameLists /\ Front(b) = <<>> /\ Last(b) = <<>>
  BY DEF NameLists, Words, Front, Last
<1>3. \A q \in NameLists, c \in Chars : AddChar(q, c) \in NameLists
  BY AddCharIs
<1>4. PICK f \in [0 .. n -> NameLists] : AddsFrom(f, b, p) /\ f[n] = Added(b, p)
  <2> HIDE DEF b
  <2> QED
    BY <1>2, <1>3, NamesFold
<1>5. Names(p) = f[n]
  BY <1>4, Zenon DEF Names, Added
<1>6. h \in [0 .. n -> States] /\ h[0] = Start /\ \A i \in 1 .. n : h[i] = Read(h[i - 1], p[i])
  BY DEF Reads
<1>7. f[0] = b /\ \A i \in 1 .. n : f[i] = AddChar(f[i - 1], p[i])
  BY <1>4 DEF AddsFrom
<1>8. Meets(f[0], h[0])
  BY <1>2, <1>6, <1>7, WalkedNothing DEF Start
<1>9. ASSUME NEW i \in 1 .. n, Meets(f[i - 1], h[i - 1]) PROVE Meets(f[i], h[i])
  <2> DEFINE q == f[i - 1]
             st == h[i - 1]
             c == p[i]
  <2>1. q \in NameLists /\ st \in States /\ c \in Chars /\ f[i] = AddChar(q, c) /\ h[i] = Read(st, c)
    <3>1. i - 1 \in 0 .. n
      BY <1>1
    <3> QED
      BY <1>1, <1>6, <1>7, <3>1
  <2>2. Walked(Base, Front(q)) = st.place /\ Last(q) = st.name
    BY <1>9
  <2> HIDE DEF q, st, c
  <2>3. q \in Seq(Words) /\ q # <<>>
    BY <2>1 DEF NameLists
  <2>4. CASE c = "/"
    <3>1. f[i] \in NameLists /\ Front(f[i]) = q /\ Last(f[i]) = <<>>
      BY <2>1, <2>4, AddCharIs
    <3>2. h[i].place = End(st) /\ h[i].name = <<>>
      BY <2>1, <2>4, ReadIs
    <3>3. Front(q) \in Seq(Words) /\ Last(q) \in Words /\ q = Append(Front(q), Last(q))
      BY <2>3, FrontAndLast
    <3>4. Walked(Base, q) = Walk(Walked(Base, Front(q)), Last(q))
      BY <3>3, WalkedOn
    <3> QED
      BY <2>2, <3>1, <3>2, <3>4 DEF End
  <2>5. CASE c # "/"
    <3>1. f[i] \in NameLists /\ Front(f[i]) = Front(q) /\ Last(f[i]) = Append(Last(q), c)
      BY <2>1, <2>5, AddCharIs
    <3>2. h[i].place = st.place /\ h[i].name = Append(st.name, c)
      BY <2>1, <2>5, ReadIs
    <3> QED
      BY <2>2, <3>1, <3>2
  <2> QED
    BY <2>4, <2>5
<1> DEFINE G == {i \in 1 .. n : Meets(f[i], h[i])}
<1> HIDE DEF Meets, n
<1>10. n > 0 => 1 \in G
  <2>1. (n > 0 => 1 \in 1 .. n) /\ 1 - 1 = 0
    BY <1>1
  <2> QED
    BY <1>8, <1>9, <2>1
<1>11. ASSUME NEW i \in 1 .. n - 1, i \in G PROVE i + 1 \in G
  <2>1. i + 1 \in 1 .. n /\ (i + 1) - 1 = i
    BY <1>1
  <2> QED
    BY <1>9, <1>11, <2>1
<1> HIDE DEF G
<1>12. \A i \in 1 .. n : i \in G
  BY <1>1, <1>10, <1>11, InductionUpto
<1>13. Meets(f[n], h[n])
  <2>1. n = 0 \/ n \in 1 .. n
    BY <1>1
  <2> QED
    BY <1>8, <1>12, <2>1 DEF G
<1>14. f[n] \in Seq(Words) /\ f[n] # <<>> /\ Walked(Base, Front(f[n])) = h[n].place /\ Last(f[n]) = h[n].name
  BY <1>13 DEF Meets, NameLists
<1>15. Walked(Base, f[n]) = Walk(Walked(Base, Front(f[n])), Last(f[n]))
  <2>1. Front(f[n]) \in Seq(Words) /\ Last(f[n]) \in Words /\ f[n] = Append(Front(f[n]), Last(f[n]))
    BY <1>14, FrontAndLast
  <2> QED
    BY <2>1, WalkedOn
<1> QED
  BY <1>5, <1>14, <1>15 DEF End, n
-----------------------------------------------------------------------------
(* Two paths that differ in a part that leads nowhere                      *)

LEMMA ReadsType ==
    ASSUME NEW p \in Seq(Chars), NEW h, Reads(h, p), NEW i \in 0 .. Len(p)
    PROVE  h[i] \in States
BY DEF Reads

LEMMA ReadsStep ==
    ASSUME NEW p \in Seq(Chars), NEW h, Reads(h, p), NEW i \in 0 .. Len(p) - 1
    PROVE  h[i + 1] = Read(h[i], p[i + 1]) /\ p[i + 1] \in Chars /\ h[i] \in States /\ h[i + 1] \in States
<1>1. i + 1 \in 1 .. Len(p) /\ (i + 1) - 1 = i /\ i \in 0 .. Len(p) /\ i + 1 \in 0 .. Len(p)
  OBVIOUS
<1>2. h[i + 1] = Read(h[i], p[i + 1])
  BY <1>1 DEF Reads
<1> QED
  BY <1>1, <1>2, ReadsType

(* Places that are the same for a path that is absolute or not: there is   *)
(* nothing above the root                                                  *)
Alike(abs, P, Q) == P.down = Q.down /\ (~abs => P.up = Q.up)

LEMMA WalkAlike ==
    ASSUME NEW abs, NEW P \in Places, NEW Q \in Places, NEW n \in Words, Alike(abs, P, Q)
    PROVE  Alike(abs, Walk(P, n), Walk(Q, n))
<1>1. P.up \in Nat /\ Q.up \in Nat /\ P.down = Q.down /\ (~abs => P.up = Q.up)
  BY DEF Places, Alike
<1>2. CASE n = <<>> \/ n = <<".">>
  BY <1>1, <1>2, WalkIs DEF Alike
<1>3. CASE n = <<".", ".">> /\ P.down = <<>>
  <2>1. Walk(P, n) = [up |-> P.up + 1, down |-> <<>>] /\ Walk(Q, n) = [up |-> Q.up + 1, down |-> <<>>]
    BY <1>1, <1>3, WalkIs
  <2> QED
    BY <1>1, <2>1 DEF Alike
<1>4. CASE n = <<".", ".">> /\ P.down # <<>>
  <2>1. Walk(P, n) = [up |-> P.up, down |-> Front(P.down)] /\ Walk(Q, n) = [up |-> Q.up, down |-> Front(P.down)]
    BY <1>1, <1>4, WalkIs
  <2> QED
    BY <1>1, <2>1 DEF Alike
<1>5. CASE IsName(n)
  <2>1. Walk(P, n) = [up |-> P.up, down |-> Append(P.down, n)] /\ Walk(Q, n) = [up |-> Q.up, down |-> Append(P.down, n)]
    BY <1>1, <1>5, WalkIs
  <2> QED
    BY <1>1, <2>1 DEF Alike
<1> QED
  BY <1>2, <1>3, <1>4, <1>5 DEF IsName

StatesAlike(abs, s, t) == s.name = t.name /\ Alike(abs, s.place, t.place)

LEMMA ReadAlike ==
    ASSUME NEW abs, NEW s \in States, NEW t \in States, NEW c \in Chars, StatesAlike(abs, s, t)
    PROVE  StatesAlike(abs, Read(s, c), Read(t, c)) /\ Alike(abs, End(s), End(t))
<1>1. s.place \in Places /\ t.place \in Places /\ s.name \in Words /\ s.name = t.name /\ Alike(abs, s.place, t.place)
  BY DEF States, StatesAlike
<1>2. Alike(abs, End(s), End(t))
  BY <1>1, WalkAlike DEF End
<1>3. CASE c = "/"
  BY <1>2, <1>3, ReadIs DEF StatesAlike
<1>4. CASE c # "/"
  <2>1. Read(s, c).place = s.place /\ Read(s, c).name = Append(s.name, c)
    BY <1>4, ReadIs
  <2>2. Read(t, c).place = t.place /\ Read(t, c).name = Append(t.name, c)
    BY <1>4, ReadIs
  <2> QED
    BY <1>1, <1>2, <2>1, <2>2 DEF StatesAlike
<1> QED
  BY <1>2, <1>3, <1>4

(* The rest of p after a is the rest of q after b. *)
SameRest(p, a, q, b) ==
    Len(p) - a = Len(q) - b /\ \A i \in 1 .. Len(p) - a : p[a + i] = q[b + i]

LEMMA ReadsAlike ==
    ASSUME NEW abs, NEW p \in Seq(Chars), NEW q \in Seq(Chars), NEW h, NEW g, Reads(h, p), Reads(g, q),
           NEW a \in 0 .. Len(p), NEW b \in 0 .. Len(q), SameRest(p, a, q, b), StatesAlike(abs, h[a], g[b])
    PROVE  StatesAlike(abs, h[Len(p)], g[Len(q)])
<1> DEFINE n == Len(p) - a
           G == {i \in 1 .. n : StatesAlike(abs, h[a + i], g[b + i])}
<1>1. n \in Nat /\ Len(p) = a + n /\ Len(q) = b + n /\ a \in Nat /\ b \in Nat
  BY DEF SameRest
<1>2. ASSUME NEW i \in 0 .. n - 1, StatesAlike(abs, h[a + i], g[b + i])
      PROVE  StatesAlike(abs, h[a + (i + 1)], g[b + (i + 1)])
  <2>1. a + i \in 0 .. Len(p) - 1 /\ b + i \in 0 .. Len(q) - 1 /\ i + 1 \in 1 .. n
        /\ (a + i) + 1 = a + (i + 1) /\ (b + i) + 1 = b + (i + 1)
    BY <1>1
  <2>2. p[a + (i + 1)] = q[b + (i + 1)]
    BY <2>1 DEF SameRest
  <2>3. h[(a + i) + 1] = Read(h[a + i], p[(a + i) + 1]) /\ h[a + i] \in States /\ p[(a + i) + 1] \in Chars
    BY <2>1, ReadsStep
  <2>4. g[(b + i) + 1] = Read(g[b + i], q[(b + i) + 1]) /\ g[b + i] \in States
    BY <2>1, ReadsStep
  <2>5. StatesAlike(abs, Read(h[a + i], p[(a + i) + 1]), Read(g[b + i], p[(a + i) + 1]))
    BY <1>2, <2>3, <2>4, ReadAlike
  <2> QED
    BY <2>1, <2>2, <2>3, <2>4, <2>5
<1>3. a + 0 = a /\ b + 0 = b
  BY <1>1
<1> HIDE DEF n
<1>4. n > 0 => 1 \in G
  <2>1. n > 0 => (0 \in 0 .. n - 1 /\ 0 + 1 = 1 /\ 1 \in 1 .. n)
    BY <1>1
  <2> QED
    BY <1>2, <1>3, <2>1
<1>5. ASSUME NEW i \in 1 .. n - 1, i \in G PROVE i + 1 \in G
  <2>1. i \in 0 .. n - 1 /\ i + 1 \in 1 .. n
    BY <1>1
  <2> QED
    BY <1>2, <1>5, <2>1
<1> HIDE DEF G
<1>6. \A i \in 1 .. n : i \in G
  BY <1>1, <1>4, <1>5, InductionUpto
<1>7. n = 0 \/ n \in 1 .. n
  BY <1>1
<1> QED
  BY <1>1, <1>3, <1>6, <1>7 DEF G

(* What is read first is read the same. *)
LEMMA ReadsFirst ==
    ASSUME NEW p \in Seq(Chars), NEW q \in Seq(Chars), NEW h, NEW g, Reads(h, p), Reads(g, q),
           NEW k \in 0 .. Len(p), k <= Len(q), \A i \in 1 .. k : p[i] = q[i]
    PROVE  h[k] = g[k]
<1> DEFINE G == {i \in 1 .. k : h[i] = g[i]}
<1>1. k \in Nat /\ k \in 0 .. Len(q)
  OBVIOUS
<1>2. h[0] = g[0]
  BY DEF Reads
<1>3. ASSUME NEW i \in 0 .. k - 1, h[i] = g[i] PROVE h[i + 1] = g[i + 1]
  <2>1. i \in 0 .. Len(p) - 1 /\ i \in 0 .. Len(q) - 1 /\ i + 1 \in 1 .. k
    BY <1>1
  <2>2. h[i + 1] = Read(h[i], p[i + 1]) /\ g[i + 1] = Read(g[i], q[i + 1])
    BY <2>1, ReadsStep
  <2> QED
    BY <1>3, <2>1, <2>2
<1>4. k > 0 => 1 \in G
  <2>1. k > 0 => (0 \in 0 .. k - 1 /\ 0 + 1 = 1 /\ 1 \in 1 .. k)
    BY <1>1
  <2> QED
    BY <1>2, <1>3, <2>1
<1>5. ASSUME NEW i \in 1 .. k - 1, i \in G PROVE i + 1 \in G
  <2>1. i \in 0 .. k - 1 /\ i + 1 \in 1 .. k
    BY <1>1
  <2> QED
    BY <1>3, <1>5, <2>1
<1> HIDE DEF G
<1>6. \A i \in 1 .. k : i \in G
  BY <1>1, <1>4, <1>5, InductionUpto
<1>7. k = 0 \/ k \in 1 .. k
  BY <1>1
<1> QED
  BY <1>2, <1>6, <1>7 DEF G

(* A name ends before what follows k. *)
EndsAt(p, k) == k = Len(p) \/ p[k + 1] = "/"

(* Where a name ends in both paths, at places that are alike, and the rest *)
(* is the same, both lead to places that are alike.                        *)
LEMMA RestLeads ==
    ASSUME NEW abs, NEW p \in Seq(Chars), NEW q \in Seq(Chars), NEW h, NEW g, Reads(h, p), Reads(g, q),
           NEW a \in 0 .. Len(p), NEW b \in 0 .. Len(q), SameRest(p, a, q, b), EndsAt(p, a),
           Alike(abs, End(h[a]), End(g[b]))
    PROVE  Alike(abs, End(h[Len(p)]), End(g[Len(q)]))
<1>1. Len(p) \in Nat /\ Len(q) \in Nat /\ a \in Nat /\ b \in Nat /\ Len(p) - a = Len(q) - b
  BY DEF SameRest
<1>2. CASE a = Len(p)
  <2>1. b = Len(q)
    BY <1>1, <1>2
  <2> QED
    BY <1>2, <2>1
<1>3. CASE a # Len(p)
  <2>1. a \in 0 .. Len(p) - 1 /\ b \in 0 .. Len(q) - 1 /\ a + 1 \in 0 .. Len(p) /\ b + 1 \in 0 .. Len(q)
        /\ 1 \in 1 .. Len(p) - a
    BY <1>1, <1>3
  <2>2. p[a + 1] = "/" /\ q[b + 1] = "/"
    BY <1>3, <2>1 DEF EndsAt, SameRest
  <2>3. h[a + 1] = Read(h[a], "/") /\ h[a] \in States /\ h[a + 1] \in States /\ "/" \in Chars
    BY <2>1, <2>2, ReadsStep
  <2>4. g[b + 1] = Read(g[b], "/") /\ g[b] \in States /\ g[b + 1] \in States
    BY <2>1, <2>2, ReadsStep
  <2>5. StatesAlike(abs, h[a + 1], g[b + 1])
    BY <2>3, <2>4, ReadIs DEF StatesAlike
  <2>6. SameRest(p, a + 1, q, b + 1)
    <3>1. Len(p) - (a + 1) = Len(q) - (b + 1)
      BY <1>1
    <3>2. ASSUME NEW i \in 1 .. Len(p) - (a + 1) PROVE p[(a + 1) + i] = q[(b + 1) + i]
      <4>1. i + 1 \in 1 .. Len(p) - a /\ a + (i + 1) = (a + 1) + i /\ b + (i + 1) = (b + 1) + i
        BY <1>1
      <4>2. p[a + (i + 1)] = q[b + (i + 1)]
        BY <4>1 DEF SameRest
      <4> QED
        BY <4>1, <4>2
    <3> QED
      BY <3>1, <3>2 DEF SameRest
  <2>7. StatesAlike(abs, h[Len(p)], g[Len(q)])
    BY <2>1, <2>5, <2>6, ReadsAlike
  <2>8. h[Len(p)] \in States /\ g[Len(q)] \in States
    <3>1. Len(p) \in 0 .. Len(p) /\ Len(q) \in 0 .. Len(q)
      BY <1>1
    <3> QED
      BY <3>1, ReadsType
  <2> QED
    BY <2>3, <2>7, <2>8, ReadAlike
<1> QED
  BY <1>2, <1>3
(* A walk never undoes how far it climbed above where it starts. *)
LEMMA WalkClimbs ==
    ASSUME NEW P \in Places, NEW w \in Words
    PROVE  P.up \in Nat /\ Walk(P, w).up \in Nat /\ P.up <= Walk(P, w).up
<1>1. P.up \in Nat
  BY DEF Places
<1>2. CASE w = <<>> \/ w = <<".">>
  BY <1>1, <1>2, WalkIs
<1>3. CASE w = <<".", ".">> /\ P.down = <<>>
  BY <1>1, <1>3, WalkIs
<1>4. CASE w = <<".", ".">> /\ P.down # <<>>
  BY <1>1, <1>4, WalkIs
<1>5. CASE IsName(w)
  BY <1>1, <1>5, WalkIs
<1> QED
  BY <1>2, <1>3, <1>4, <1>5 DEF IsName

(* Nor does what is read later of a path change how far it climbed. *)
LEMMA UpGrows ==
    ASSUME NEW p \in Seq(Chars), NEW h, Reads(h, p), NEW a \in 0 .. Len(p)
    PROVE  h[a].place.up <= h[Len(p)].place.up
<1> DEFINE n == Len(p) - a
           G == {i \in 1 .. n : h[a].place.up <= h[a + i].place.up}
<1>1. n \in Nat /\ Len(p) = a + n /\ a \in Nat
  OBVIOUS
<1>2. \A i \in 0 .. Len(p) : h[i] \in States /\ h[i].place \in Places /\ h[i].name \in Words /\ h[i].place.up \in Nat
  BY ReadsType DEF States, Places
<1>3. ASSUME NEW P \in Places, NEW w \in Words PROVE P.up <= Walk(P, w).up
  BY WalkClimbs
<1>4. ASSUME NEW i \in 0 .. n - 1 PROVE h[a + i].place.up <= h[a + (i + 1)].place.up
  <2> DEFINE m == a + i
  <2>1. m \in 0 .. Len(p) - 1 /\ m \in 0 .. Len(p) /\ a + (i + 1) = m + 1
    BY <1>1
  <2> HIDE DEF m
  <2>2. h[m + 1] = Read(h[m], p[m + 1]) /\ p[m + 1] \in Chars /\ h[m] \in States
    BY <2>1, ReadsStep
  <2>3. h[m].place \in Places /\ h[m].name \in Words /\ h[m].place.up \in Nat
    BY <1>2, <2>1
  <2>4. CASE p[m + 1] = "/"
    <3>0. Read(h[m], p[m + 1]).place = End(h[m])
      BY <2>2, <2>4, ReadIs
    <3>1. h[m + 1].place = Walk(h[m].place, h[m].name)
      BY <2>2, <3>0 DEF End
    <3> QED
      BY <1>3, <2>1, <2>3, <3>1 DEF m
  <2>5. CASE p[m + 1] # "/"
    <3>1. h[m + 1].place = h[m].place
      BY <2>2, <2>5, ReadIs
    <3> QED
      BY <2>1, <2>3, <3>1 DEF m
  <2> QED
    BY <2>4, <2>5
<1>5. ASSUME NEW i \in 0 .. n PROVE h[a + i].place.up \in Nat /\ a + 0 = a
  <2>1. a + i \in 0 .. Len(p)
    BY <1>1
  <2> QED
    BY <1>1, <1>2, <2>1
<1>6. h[a].place.up \in Nat /\ a + 0 = a
  BY <1>1, <1>2
<1> HIDE DEF n
<1>7. n > 0 => 1 \in G
  <2>1. n > 0 => (0 \in 0 .. n - 1 /\ 0 + 1 = 1 /\ 1 \in 1 .. n)
    BY <1>1
  <2> QED
    BY <1>4, <1>6, <2>1
<1>8. ASSUME NEW i \in 1 .. n - 1, i \in G PROVE i + 1 \in G
  <2>1. i \in 0 .. n - 1 /\ i \in 0 .. n /\ i + 1 \in 1 .. n /\ i + 1 \in 0 .. n
    BY <1>1
  <2>2. h[a + i].place.up \in Nat /\ h[a + (i + 1)].place.up \in Nat
    BY <1>5, <2>1
  <2>3. h[a + i].place.up <= h[a + (i + 1)].place.up /\ h[a].place.up <= h[a + i].place.up
    BY <1>4, <1>8, <2>1
  <2>4. h[a].place.up <= h[a + (i + 1)].place.up
    BY <1>6, <2>2, <2>3
  <2> QED
    BY <2>1, <2>4
<1> HIDE DEF G
<1>9. \A i \in 1 .. n : i \in G
  BY <1>1, <1>7, <1>8, InductionUpto
<1>10. CASE n = 0
  BY <1>1, <1>6, <1>10
<1>11. CASE n # 0
  <2>1. n \in 1 .. n
    BY <1>1, <1>11
  <2> QED
    BY <1>1, <1>9, <2>1 DEF G
<1> QED
  BY <1>10, <1>11

LEMMA UpStays ==
    ASSUME NEW p \in Seq(Chars), NEW h, Reads(h, p), NEW a \in 0 .. Len(p), EndsAt(p, a)
    PROVE  End(h[a]).up <= End(h[Len(p)]).up
<1>1. Len(p) \in Nat /\ Len(p) \in 0 .. Len(p) /\ a \in Nat
  OBVIOUS
<1>2. h[Len(p)] \in States /\ h[a] \in States
  BY <1>1, ReadsType
<1>3. h[Len(p)].place.up \in Nat /\ End(h[Len(p)]).up \in Nat /\ h[Len(p)].place.up <= End(h[Len(p)]).up
      /\ End(h[a]).up \in Nat
  BY <1>2, WalkClimbs DEF End, States
<1>4. CASE a = Len(p)
  BY <1>3, <1>4
<1>5. CASE a # Len(p)
  <2>1. a \in 0 .. Len(p) - 1 /\ a + 1 \in 0 .. Len(p) /\ p[a + 1] = "/"
    BY <1>1, <1>5 DEF EndsAt
  <2>2. h[a + 1] = Read(h[a], "/") /\ "/" \in Chars
    BY <2>1, ReadsStep
  <2>3. h[a + 1].place = End(h[a])
    BY <1>2, <2>2, ReadIs
  <2>4. h[a + 1].place.up <= h[Len(p)].place.up
    BY <2>1, UpGrows
  <2> QED
    BY <1>3, <2>3, <2>4
<1> QED
  BY <1>4, <1>5

(* Characters without a slash are read into one name. *)
LEMMA NameIsRead ==
    ASSUME NEW p \in Seq(Chars), NEW h, Reads(h, p), NEW a \in 0 .. Len(p), NEW b \in a .. Len(p),
           h[a].name = <<>>, \A i \in a + 1 .. b : p[i] # "/"
    PROVE  /\ h[b].place = h[a].place /\ Len(h[b].name) = b - a
           /\ \A i \in 1 .. b - a : h[b].name[i] = p[a + i]
<1> DEFINE n == b - a
           Holds(m) == /\ h[a + m].place = h[a].place /\ Len(h[a + m].name) = m
                       /\ \A i \in 1 .. m : h[a + m].name[i] = p[a + i]
           G == {m \in 1 .. n : Holds(m)}
<1>1. n \in Nat /\ a \in Nat /\ b = a + n /\ b <= Len(p) /\ Len(p) \in Nat /\ a + 0 = a
  OBVIOUS
<1>2. Holds(0)
  BY <1>1
<1>3. ASSUME NEW m \in 0 .. n - 1, Holds(m) PROVE Holds(m + 1)
  <2> DEFINE k == a + m
  <2>1. k \in 0 .. Len(p) - 1 /\ a + (m + 1) = k + 1 /\ k + 1 \in a + 1 .. b /\ m \in Nat
    <3>1. m \in Nat /\ m + 1 <= n
      BY <1>1
    <3> HIDE DEF n, Holds
    <3> QED
      BY <1>1, <3>1
  <2>2. Len(h[k].name) = m /\ h[k].place = h[a].place /\ \A i \in 1 .. m : h[k].name[i] = p[a + i]
    BY <1>3
  <2> HIDE DEF k
  <2>3. h[k + 1] = Read(h[k], p[k + 1]) /\ p[k + 1] \in Chars /\ h[k] \in States /\ p[k + 1] # "/"
    BY <2>1, ReadsStep
  <2>4. /\ h[k + 1].place = h[k].place /\ h[k + 1].name = Append(h[k].name, p[k + 1])
        /\ h[k].name \in Seq(NameChars) /\ p[k + 1] \in NameChars
    <3> DEFINE st == h[k]
               c == p[k + 1]
    <3>1. st \in States /\ c \in Chars /\ c # "/" /\ h[k + 1] = Read(st, c)
      BY <2>3
    <3> HIDE DEF st, c
    <3>2. Read(st, c).place = st.place /\ Read(st, c).name = Append(st.name, c)
      BY <3>1, ReadIs
    <3>3. st.name \in Seq(NameChars)
      BY <3>1 DEF States, Words
    <3>4. c \in NameChars
      BY <3>1 DEF Chars
    <3> QED
      BY <3>1, <3>2, <3>3, <3>4 DEF st, c
  <2>5. /\ Len(h[k + 1].name) = m + 1 /\ (\A i \in 1 .. m : h[k + 1].name[i] = h[k].name[i])
        /\ h[k + 1].name[m + 1] = p[k + 1]
    <3> DEFINE nm == h[k].name
               c == p[k + 1]
    <3>1. nm \in Seq(NameChars) /\ c \in NameChars /\ Len(nm) = m
      BY <2>2, <2>4
    <3>2. h[k + 1].name = Append(nm, c)
      BY <2>4
    <3> HIDE DEF nm, c
    <3>3. /\ Len(Append(nm, c)) = Len(nm) + 1 /\ (\A i \in 1 .. Len(nm) : Append(nm, c)[i] = nm[i])
          /\ Append(nm, c)[Len(nm) + 1] = c
      BY <3>1, AppendProperties
    <3>4. /\ Len(Append(nm, c)) = m + 1 /\ (\A i \in 1 .. m : Append(nm, c)[i] = nm[i])
          /\ Append(nm, c)[m + 1] = c
      BY <3>1, <3>3
    <3> QED
      BY <3>2, <3>4 DEF nm, c
  <2>6. ASSUME NEW i \in 1 .. m + 1 PROVE h[k + 1].name[i] = p[a + i]
    <3>1. i \in 1 .. m \/ i = m + 1
      BY <2>1
    <3> QED
      BY <2>1, <2>2, <2>5, <3>1
  <2> QED
    BY <2>1, <2>2, <2>4, <2>5, <2>6
<1> HIDE DEF Holds, n
<1>4. n > 0 => 1 \in G
  <2>1. n > 0 => (0 \in 0 .. n - 1 /\ 0 + 1 = 1 /\ 1 \in 1 .. n)
    BY <1>1
  <2> QED
    BY <1>2, <1>3, <2>1
<1>5. ASSUME NEW i \in 1 .. n - 1, i \in G PROVE i + 1 \in G
  <2>1. i \in 0 .. n - 1 /\ i + 1 \in 1 .. n
    BY <1>1
  <2> QED
    BY <1>3, <1>5, <2>1
<1> HIDE DEF G
<1>6. \A i \in 1 .. n : i \in G
  BY <1>1, <1>4, <1>5, InductionUpto
<1>7. n = 0 \/ n \in 1 .. n
  BY <1>1
<1>8. Holds(n)
  BY <1>2, <1>6, <1>7 DEF G
<1> QED
  BY <1>1, <1>8 DEF Holds, n
-----------------------------------------------------------------------------
(* What a cut does                                                         *)

LEMMA PlaceIs ==
    ASSUME NEW p \in Seq(Chars), NEW h, Reads(h, p)
    PROVE  /\ End(h[Len(p)]) \in Places
           /\ Place(p) = IF Absolute(p) THEN [up |-> 0, down |-> End(h[Len(p)]).down] ELSE End(h[Len(p)])
<1> DEFINE P == End(h[Len(p)])
<1>1. P \in Places
  <2>1. Len(p) \in 0 .. Len(p)
    OBVIOUS
  <2>2. h[Len(p)] \in States /\ "/" \in Chars
    BY <2>1, ReadsType DEF Chars
  <2> QED
    BY <2>2, ReadIs
<1>2. FoldLeft(Walk, [up |-> 0, down |-> <<>>], Names(p)) = P
  <2>1. Walked(Base, Names(p)) = P
    BY ReadsThePlace
  <2> QED
    BY <2>1, Zenon DEF Walked, Base
<1> HIDE DEF P
<1>3. Place(p) = IF Absolute(p) THEN [P EXCEPT !.up = 0] ELSE P
  BY <1>2, Zenon DEF Place
<1>4. [P EXCEPT !.up = 0] = [up |-> 0, down |-> P.down]
  BY <1>1 DEF Places
<1> QED
  BY <1>1, <1>3, <1>4 DEF P

(* The path without its characters from first to last - 1 *)
Without(p, first, last) == SubSeq(p, 1, first) \o SubSeq(p, last + 1, Len(p))

LEMMA WithoutIs ==
    ASSUME NEW p \in Seq(Chars), NEW first \in 0 .. Len(p), NEW last \in first .. Len(p)
    PROVE  LET q == Without(p, first, last) IN
           /\ q \in Seq(Chars) /\ Len(q) = Len(p) - (last - first) /\ Len(q) >= first
           /\ \A i \in 1 .. first : q[i] = p[i]
           /\ SameRest(p, last, q, first)
           /\ EndsAt(p, last) => EndsAt(q, first)
<1> DEFINE a == SubSeq(p, 1, first)
           c == SubSeq(p, last + 1, Len(p))
           q == a \o c
<1>1. Len(p) \in Nat /\ first \in Nat /\ last \in Nat /\ first <= last /\ last <= Len(p)
  OBVIOUS
<1>2. a \in Seq(Chars) /\ Len(a) = first /\ \A i \in 1 .. first : a[i] = p[i]
  BY <1>1, SubSeqProperties
<1>3. c \in Seq(Chars) /\ Len(c) = Len(p) - last /\ \A i \in 1 .. Len(p) - last : c[i] = p[last + i]
  BY <1>1, DropIs
<1> HIDE DEF a, c
<1>4. q \in Seq(Chars) /\ Len(q) = first + (Len(p) - last)
      /\ \A i \in 1 .. first + (Len(p) - last) : q[i] = IF i <= first THEN a[i] ELSE c[i - first]
  <2>1. /\ a \o c \in Seq(Chars) /\ Len(a \o c) = Len(a) + Len(c)
        /\ \A i \in 1 .. Len(a) + Len(c) : (a \o c)[i] = IF i <= Len(a) THEN a[i] ELSE c[i - Len(a)]
    BY <1>2, <1>3, ConcatProperties
  <2> QED
    BY <1>2, <1>3, <2>1, Zenon
<1> HIDE DEF q
<1>5. \A i \in 1 .. first : q[i] = p[i]
  BY <1>1, <1>2, <1>4
<1>6. ASSUME NEW i \in 1 .. Len(p) - last PROVE p[last + i] = q[first + i]
  <2>1. first + i \in 1 .. first + (Len(p) - last) /\ ~(first + i <= first) /\ (first + i) - first = i
    BY <1>1
  <2> QED
    BY <1>3, <1>4, <2>1
<1>7. SameRest(p, last, q, first)
  BY <1>1, <1>4, <1>6 DEF SameRest
<1>8. EndsAt(p, last) => EndsAt(q, first)
  <2>1. CASE last = Len(p)
    BY <1>1, <1>4, <2>1 DEF EndsAt
  <2>2. CASE last # Len(p)
    <3>1. 1 \in 1 .. Len(p) - last
      BY <1>1, <2>2
    <3> QED
      BY <1>6, <2>2, <3>1 DEF EndsAt
  <2> QED
    BY <2>1, <2>2
<1>9. Len(q) = Len(p) - (last - first) /\ Len(q) >= first
  BY <1>1, <1>4
<1>10. Without(p, first, last) = q
  BY DEF Without, q, a, c
<1> QED
  BY <1>4, <1>5, <1>7, <1>8, <1>9, <1>10

(* A path that is not empty, does not lead to the root, and does not climb *)
Descends(p) == p # <<>> /\ (Absolute(p) => Place(p).down # <<>>) /\ Place(p).up = 0

(* What leads nowhere may be cut out. *)
LEMMA CutLeads ==
    ASSUME NEW p \in Seq(Chars), NEW first \in 0 .. Len(p), NEW last \in first + 1 .. Len(p),
           Descends(p), p[first + 1] = "/", EndsAt(p, last),
           NEW h, Reads(h, p), Alike(Absolute(p), End(h[last]), End(h[first]))
    PROVE  LET q == Without(p, first, last) IN
           q # <<>> /\ Absolute(q) = Absolute(p) /\ Place(q) = Place(p)
<1> DEFINE q == Without(p, first, last)
<1>1. Len(p) \in Nat /\ first \in Nat /\ last \in Nat /\ first < last /\ last <= Len(p) /\ last \in first .. Len(p)
      /\ last \in 0 .. Len(p)
  OBVIOUS
<1>2. q \in Seq(Chars) /\ Len(q) = Len(p) - (last - first) /\ Len(q) >= first /\ SameRest(p, last, q, first)
      /\ \A i \in 1 .. first : q[i] = p[i]
  BY <1>1, WithoutIs
<1> HIDE DEF q
<1>3. PICK g : Reads(g, q)
  BY <1>2, ReadsExist
<1>4. first \in 0 .. Len(q)
  BY <1>1, <1>2
<1>5. h[first] = g[first]
  BY <1>2, <1>3, ReadsFirst
<1>6. Alike(Absolute(p), End(h[Len(p)]), End(g[Len(q)]))
  BY <1>1, <1>2, <1>3, <1>4, <1>5, RestLeads
<1>7. /\ End(h[Len(p)]) \in Places
      /\ Place(p) = IF Absolute(p) THEN [up |-> 0, down |-> End(h[Len(p)]).down] ELSE End(h[Len(p)])
  BY PlaceIs
<1>8. /\ End(g[Len(q)]) \in Places
      /\ Place(q) = IF Absolute(q) THEN [up |-> 0, down |-> End(g[Len(q)]).down] ELSE End(g[Len(q)])
  BY <1>2, <1>3, PlaceIs
<1>9. q # <<>> /\ Absolute(q) = Absolute(p)
  <2>1. CASE first # 0
    <3>1. 1 \in 1 .. first
      BY <1>1, <2>1
    <3>2. q[1] = p[1] /\ q # <<>> /\ p # <<>>
      BY <1>1, <1>2, <2>1, <3>1
    <3> QED
      BY <3>2 DEF Absolute
  <2>2. CASE first = 0
    <3>1. Absolute(p) /\ p # <<>>
      BY <1>1, <2>2 DEF Absolute
    <3>2. last # Len(p)
      <4>1. SUFFICES ASSUME last = Len(p) PROVE FALSE
        OBVIOUS
      <4>2. End(h[0]) = Base
        <5>1. <<>> \in Words
          BY DEF Words
        <5> QED
          BY <5>1, StartIs, WalkIs DEF Reads, Start, End
      <4>3. End(h[Len(p)]).down = <<>>
        BY <2>2, <4>1, <4>2 DEF Alike, Base
      <4>4. Place(p).down = <<>>
        BY <1>7, <3>1, <4>3
      <4> QED
        BY <3>1, <4>4 DEF Descends
    <3>3. p[last + 1] = "/" /\ 1 \in 1 .. Len(p) - last
      BY <1>1, <3>2 DEF EndsAt
    <3>4. q[1] = "/" /\ Len(q) > 0
      BY <1>1, <1>2, <2>2, <3>2, <3>3 DEF SameRest
    <3>5. q # <<>>
      BY <3>4
    <3> QED
      BY <3>1, <3>4, <3>5 DEF Absolute
  <2> QED
    BY <2>1, <2>2
<1>10. Place(q) = Place(p)
  <2>1. CASE Absolute(p)
    BY <1>6, <1>7, <1>8, <1>9, <2>1 DEF Alike
  <2>2. CASE ~Absolute(p)
    <3>1. End(h[Len(p)]) = End(g[Len(q)])
      BY <1>6, <1>7, <1>8, <2>2 DEF Alike, Places
    <3> QED
      BY <1>7, <1>8, <1>9, <2>2, <3>1
  <2> QED
    BY <2>1, <2>2
<1> QED
  BY <1>9, <1>10 DEF q
(* What is at k, in the positions of the code: a slash that another one    *)
(* follows, "/." and "/.."                                                 *)
DoubleIn(p, k) == k + 2 <= Len(p) /\ p[k + 1] = "/" /\ p[k + 2] = "/"

SelfIn(p, k) == k + 2 <= Len(p) /\ p[k + 1] = "/" /\ p[k + 2] = "." /\ EndsAt(p, k + 2)

ParentIn(p, k) ==
    k + 3 <= Len(p) /\ p[k + 1] = "/" /\ p[k + 2] = "." /\ p[k + 3] = "." /\ EndsAt(p, k + 3)

(* What the loop has passed: none of them, but for a parent of what the    *)
(* path starts with                                                        *)
CleanTo(p, c) ==
    \A k \in Nat : k < c => /\ ~DoubleIn(p, k) /\ ~SelfIn(p, k)
                            /\ ParentIn(p, k) => \A m \in 1 .. k : p[m] # "/"

LEMMA SlashLeads ==
    ASSUME NEW p \in Seq(Chars), NEW h, Reads(h, p), NEW k \in 0 .. Len(p) - 1, p[k + 1] = "/"
    PROVE  /\ End(h[k]) \in Places /\ h[k + 1].place = End(h[k]) /\ h[k + 1].name = <<>>
           /\ End(h[k + 1]) = End(h[k])
<1>1. h[k + 1] = Read(h[k], "/") /\ h[k] \in States /\ "/" \in Chars
  BY ReadsStep
<1>2. End(h[k]) \in Places /\ h[k + 1].place = End(h[k]) /\ h[k + 1].name = <<>>
  BY <1>1, ReadIs
<1>3. <<>> \in Words
  BY DEF Words
<1>4. Walk(End(h[k]), <<>>) = End(h[k])
  BY <1>2, <1>3, WalkIs
<1> QED
  BY <1>2, <1>4 DEF End

LEMMA DotIsRead ==
    ASSUME NEW p \in Seq(Chars), NEW h, Reads(h, p), NEW k \in 0 .. Len(p) - 1, p[k + 1] = "."
    PROVE  h[k + 1].place = h[k].place /\ h[k + 1].name = Append(h[k].name, ".")
<1>1. h[k + 1] = Read(h[k], ".") /\ h[k] \in States /\ "." \in Chars /\ "." # "/"
  BY ReadsStep
<1> QED
  BY <1>1, ReadIs

LEMMA SelfLeads ==
    ASSUME NEW p \in Seq(Chars), NEW h, Reads(h, p), NEW k \in 0 .. Len(p) - 2,
           p[k + 1] = "/", p[k + 2] = "."
    PROVE  End(h[k + 2]) = End(h[k])
<1>1. k \in 0 .. Len(p) - 1 /\ k + 1 \in 0 .. Len(p) - 1 /\ (k + 1) + 1 = k + 2
  OBVIOUS
<1>2. End(h[k]) \in Places /\ h[k + 1].place = End(h[k]) /\ h[k + 1].name = <<>>
  BY <1>1, SlashLeads
<1>3. h[(k + 1) + 1].place = h[k + 1].place /\ h[(k + 1) + 1].name = Append(h[k + 1].name, ".")
  BY <1>1, DotIsRead
<1>4. Append(<<>>, ".") = <<".">> /\ <<".">> \in Words
  BY DEF Words, NameChars
<1>5. Walk(End(h[k]), <<".">>) = End(h[k])
  BY <1>2, <1>4, WalkIs
<1> QED
  BY <1>1, <1>2, <1>3, <1>4, <1>5 DEF End

LEMMA FrontOfAppend ==
    ASSUME NEW S, NEW s \in Seq(S), NEW x \in S
    PROVE  Front(Append(s, x)) = s
<1> DEFINE r == Append(s, x)
<1>1. r \in Seq(S) /\ r # <<>> /\ Len(r) = Len(s) + 1 /\ \A i \in 1 .. Len(s) : r[i] = s[i]
  BY AppendProperties
<1> HIDE DEF r
<1>2. Front(r) \in Seq(S) /\ Len(Front(r)) = Len(s) /\ \A i \in 1 .. Len(s) : Front(r)[i] = r[i]
  BY <1>1, FrontIs
<1>3. Front(r) = s
  BY <1>1, <1>2, SeqEqual
<1> QED
  BY <1>3 DEF r

(* Down by a name and back *)
LEMMA ThereAndBack ==
    ASSUME NEW P \in Places, NEW w \in Words, IsName(w)
    PROVE  Walk(Walk(P, w), <<".", ".">>) = P
<1> DEFINE Q == Walk(P, w)
<1>1. Q \in Places /\ Q = [up |-> P.up, down |-> Append(P.down, w)]
  BY WalkIs
<1>2. P = [up |-> P.up, down |-> P.down] /\ P.down \in Seq(Words)
  BY DEF Places
<1>3. Append(P.down, w) # <<>> /\ Front(Append(P.down, w)) = P.down
  BY <1>2, AppendProperties, FrontOfAppend
<1>4. <<".", ".">> \in Words
  BY DEF Words, NameChars
<1> HIDE DEF Q
<1>5. Q.up = P.up /\ Q.down = Append(P.down, w)
  BY <1>1
<1>6. Walk(Q, <<".", ".">>) = [up |-> Q.up, down |-> Front(Q.down)]
  BY <1>1, <1>3, <1>4, <1>5, WalkIs
<1> QED
  BY <1>2, <1>3, <1>5, <1>6 DEF Q

(* One name, and up twice, is above the start. *)
LEMMA TwiceUpClimbs ==
    ASSUME NEW w \in Words, w # <<>>
    PROVE  Walk(Walk(Walk(Base, w), <<".", ".">>), <<".", ".">>).up > 0
<1> DEFINE up == <<".", ".">>
           P == Walk(Base, w)
           Q == Walk(P, up)
           R == Walk(Q, up)
<1>1. up \in Words /\ Base \in Places /\ Base.up = 0 /\ Base.down = <<>>
  BY StartIs DEF Words, NameChars, Base
<1>2. P \in Places /\ Q \in Places
  BY <1>1, WalkIs
<1>3. Base.up <= P.up /\ P.up <= Q.up /\ Q.up <= R.up /\ P.up \in Nat /\ Q.up \in Nat /\ R.up \in Nat
  BY <1>1, <1>2, WalkClimbs
<1>4. CASE IsName(w)
  <2>1. Q = Base
    BY <1>1, <1>4, ThereAndBack
  <2>2. R = [up |-> Base.up + 1, down |-> <<>>]
    BY <1>1, <2>1, WalkIs
  <2> QED
    BY <1>1, <2>2
<1>5. CASE w = <<".">>
  <2>1. P = Base
    BY <1>1, <1>5, WalkIs
  <2>2. Q = [up |-> Base.up + 1, down |-> <<>>]
    BY <1>1, <2>1, WalkIs
  <2>3. Q.up = 1
    BY <1>1, <2>2
  <2> QED
    BY <1>3, <2>3
<1>6. CASE w = up
  <2>1. P = [up |-> Base.up + 1, down |-> <<>>]
    BY <1>1, <1>6, WalkIs
  <2>2. P.up = 1
    BY <1>1, <2>1
  <2> QED
    BY <1>3, <2>2
<1> QED
  BY <1>4, <1>5, <1>6 DEF IsName
(* A name, where it is not one of those the loop has taken out, and the    *)
(* parent behind it lead nowhere.                                          *)
LEMMA ParentLeads ==
    ASSUME NEW p \in Seq(Chars), NEW h, Reads(h, p), Descends(p), NEW i \in Nat, ParentIn(p, i), CleanTo(p, i),
           NEW j \in 0 .. i - 1, p[j + 1] = "/", \A m \in j + 2 .. i : p[m] # "/"
    PROVE  Alike(Absolute(p), End(h[i + 3]), End(h[j]))
<1> DEFINE P == End(h[j])
           w == h[i].name
           up == <<".", ".">>
<1>1. i + 3 <= Len(p) /\ p[i + 1] = "/" /\ p[i + 2] = "." /\ p[i + 3] = "." /\ EndsAt(p, i + 3) /\ Len(p) \in Nat
      /\ i + 3 \in 0 .. Len(p) /\ i \in 0 .. Len(p) - 1 /\ i \in 0 .. Len(p)
      /\ i + 1 \in 0 .. Len(p) - 1 /\ i + 2 \in 0 .. Len(p) - 1 /\ (i + 1) + 1 = i + 2 /\ (i + 2) + 1 = i + 3
  BY DEF ParentIn
<1>2. j \in Nat /\ j < i /\ j \in 0 .. Len(p) - 1 /\ j + 1 \in 0 .. Len(p) /\ i \in j + 1 .. Len(p)
      /\ (j + 1) + 1 = j + 2 /\ j \in 0 .. Len(p)
  BY <1>1
<1>3. P \in Places /\ h[j + 1].place = P /\ h[j + 1].name = <<>>
  BY <1>2, SlashLeads
<1>4. h[i].place = P /\ Len(w) = i - (j + 1) /\ w \in Words
      /\ \A m \in 1 .. i - (j + 1) : w[m] = p[(j + 1) + m]
  <2> DEFINE a == j + 1
  <2>1. a \in 0 .. Len(p) /\ i \in a .. Len(p)
    BY <1>2
  <2>2. \A m \in a + 1 .. i : p[m] # "/"
    BY <1>2
  <2>3. h[a].name = <<>> /\ h[a].place = P
    BY <1>3
  <2> HIDE DEF a, P, w
  <2>4. /\ h[i].place = h[a].place /\ Len(h[i].name) = i - a
        /\ \A m \in 1 .. i - a : h[i].name[m] = p[a + m]
    <3>1. h[a].name = <<>>
      BY <2>3
    <3> QED
      BY <2>1, <2>2, <3>1, NameIsRead
  <2>5. h[i] \in States
    BY <1>1, ReadsType
  <2>6. h[i].name \in Words
    BY <2>5 DEF States
  <2> QED
    BY <2>3, <2>4, <2>6 DEF a, w
<1>5. End(h[i + 3]) = Walk(Walk(P, w), up) /\ up \in Words
  <2>1. h[i + 1].place = End(h[i]) /\ h[i + 1].name = <<>>
    <3>1. i \in 0 .. Len(p) - 1 /\ p[i + 1] = "/"
      BY <1>1
    <3> QED
      BY <3>1, SlashLeads
  <2>2. h[i + 2].place = End(h[i]) /\ h[i + 2].name = Append(<<>>, ".")
    <3>1. h[(i + 1) + 1].place = h[i + 1].place /\ h[(i + 1) + 1].name = Append(h[i + 1].name, ".")
      <4> DEFINE k == i + 1
      <4>1. k \in 0 .. Len(p) - 1 /\ p[k + 1] = "."
        BY <1>1
      <4> HIDE DEF k
      <4>2. h[k + 1].place = h[k].place /\ h[k + 1].name = Append(h[k].name, ".")
        BY <4>1, DotIsRead
      <4> QED
        BY <4>2 DEF k
    <3> QED
      BY <1>1, <2>1, <3>1
  <2>3. h[i + 3].place = End(h[i]) /\ h[i + 3].name = Append(Append(<<>>, "."), ".")
    <3>1. h[(i + 2) + 1].place = h[i + 2].place /\ h[(i + 2) + 1].name = Append(h[i + 2].name, ".")
      <4> DEFINE k == i + 2
      <4>1. k \in 0 .. Len(p) - 1 /\ p[k + 1] = "."
        BY <1>1
      <4> HIDE DEF k
      <4>2. h[k + 1].place = h[k].place /\ h[k + 1].name = Append(h[k].name, ".")
        BY <4>1, DotIsRead
      <4> QED
        BY <4>2 DEF k
    <3> QED
      BY <1>1, <2>2, <3>1
  <2>4. Append(Append(<<>>, "."), ".") = up
    <3>1. Append(<<>>, ".") = <<".">>
      OBVIOUS
    <3>2. Append(<<".">>, ".") = <<".", ".">>
      <4> DEFINE one == <<".">>
                 r == Append(one, ".")
      <4>1. one \in Seq({"."}) /\ Len(one) = 1 /\ one[1] = "."
        OBVIOUS
      <4> HIDE DEF one
      <4>2. r \in Seq({"."}) /\ Len(r) = 2 /\ r[1] = "." /\ r[2] = "."
        <5>1. "." \in {"."} /\ 1 \in 1 .. Len(one) /\ Len(one) + 1 = 2
          BY <4>1
        <5>2. /\ r \in Seq({"."}) /\ Len(r) = Len(one) + 1 /\ r[Len(one) + 1] = "."
              /\ \A m \in 1 .. Len(one) : r[m] = one[m]
          <6>1. one \in Seq({"."}) /\ "." \in {"."}
            BY <4>1, <5>1
          <6> QED
            BY <6>1, AppendProperties
        <5> HIDE DEF r
        <5> QED
          BY <4>1, <5>1, <5>2
      <4>3. up \in Seq({"."}) /\ Len(up) = 2 /\ up[1] = "." /\ up[2] = "."
        OBVIOUS
      <4> HIDE DEF r, up
      <4>4. \A m \in 1 .. Len(r) : r[m] = up[m]
        BY <4>2, <4>3
      <4>5. r = up
        BY <4>2, <4>3, <4>4, SeqEqual
      <4> QED
        BY <4>5 DEF r, up, one
    <3> QED
      BY <3>1, <3>2
  <2>5. End(h[i]) = Walk(P, w)
    BY <1>4 DEF End
  <2>6. up \in Words
    BY DEF Words, NameChars
  <2> QED
    BY <2>3, <2>4, <2>5, <2>6 DEF End
<1> HIDE DEF P, w
<1>6. ~DoubleIn(p, j) /\ ~SelfIn(p, j) /\ (ParentIn(p, j) => \A m \in 1 .. j : p[m] # "/")
  BY <1>2 DEF CleanTo
<1>7. w # <<>>
  <2> SUFFICES ASSUME w = <<>> PROVE FALSE
    OBVIOUS
  <2>1. i = j + 1
    BY <1>2, <1>4
  <2> QED
    BY <1>1, <1>2, <1>6, <2>1 DEF DoubleIn
<1>8. w # <<".">>
  <2> SUFFICES ASSUME w = <<".">> PROVE FALSE
    OBVIOUS
  <2>1. Len(w) = 1 /\ w[1] = "."
    OBVIOUS
  <2>2. i = j + 2 /\ p[(j + 1) + 1] = "."
    BY <1>2, <1>4, <2>1
  <2> QED
    BY <1>1, <1>2, <1>6, <2>2 DEF SelfIn, EndsAt
<1>9. CASE w # up
  <2>1. Walk(Walk(P, w), up) = P
    BY <1>3, <1>4, <1>7, <1>8, <1>9, ThereAndBack DEF IsName
  <2> QED
    BY <1>5, <2>1 DEF Alike, P
<1>10. CASE w = up
  <2>1. Len(w) = 2 /\ w[1] = "." /\ w[2] = "."
    BY <1>10
  <2>2. i = j + 3 /\ p[(j + 1) + 1] = "." /\ p[(j + 1) + 2] = "."
    <3>0. i - (j + 1) = 2 /\ i \in Nat /\ j \in Nat
      BY <1>2, <1>4, <2>1
    <3>1. i = j + 3 /\ 1 \in 1 .. i - (j + 1) /\ 2 \in 1 .. i - (j + 1)
      BY <3>0
    <3> QED
      BY <1>4, <2>1, <3>1
  <2>3. ParentIn(p, j)
    BY <1>1, <1>2, <2>2 DEF ParentIn, EndsAt
  <2>4. \A m \in 1 .. j : p[m] # "/"
    BY <1>6, <2>3
  <2>5. p # <<>> /\ h[0] = Start
    BY <1>1 DEF Reads
  <2>6. CASE j = 0
    <3>1. Absolute(p)
      BY <2>5, <2>6 DEF Absolute
    <3>2. P = Base
      <4>1. Start.place = Base /\ Start.name = <<>> /\ <<>> \in Words
        BY DEF Start, Words
      <4> QED
        BY <2>5, <2>6, <4>1, StartIs, WalkIs DEF P, End
    <3>3. Base.down = <<>> /\ Base \in Places
      BY StartIs DEF Base
    <3>4. Walk(P, w).down = <<>> /\ Walk(P, w) \in Places
      BY <1>4, <1>10, <3>2, <3>3, WalkIs
    <3>5. Walk(Walk(P, w), up).down = <<>>
      BY <1>5, <3>4, WalkIs
    <3> QED
      BY <1>5, <3>1, <3>2, <3>3, <3>5 DEF Alike, P
  <2>7. CASE j # 0
    <3>1. ~Absolute(p)
      BY <1>2, <2>4, <2>7 DEF Absolute
    <3>2. h[j].place = Base /\ h[j].name \in Words /\ h[j].name # <<>>
      <4>1. 0 \in 0 .. Len(p) /\ j \in 0 .. Len(p) /\ 0 + 1 = 1 /\ j - 0 = j
        BY <1>1, <1>2
      <4>2. h[0].name = <<>> /\ h[0].place = Base
        BY <2>5 DEF Start
      <4>3. h[j].place = h[0].place /\ Len(h[j].name) = j
        BY <2>4, <4>1, <4>2, NameIsRead
      <4>4. h[j] \in States
        BY <4>1, ReadsType
      <4> QED
        BY <2>7, <4>2, <4>3, <4>4 DEF States
    <3>3. P = Walk(Base, h[j].name)
      BY <3>2 DEF P, End
    <3>4. End(h[i + 3]).up > 0
      BY <1>5, <1>10, <3>2, <3>3, TwiceUpClimbs
    <3>5. End(h[i + 3]).up <= End(h[Len(p)]).up
      BY <1>1, UpStays
    <3>6. End(h[Len(p)]) \in Places /\ Place(p) = End(h[Len(p)])
      BY <3>1, PlaceIs
    <3>7. End(h[i + 3]).up \in Nat /\ End(h[Len(p)]).up \in Nat
      <4>1. Walk(P, w) \in Places
        BY <1>3, <1>4, WalkIs
      <4>2. Walk(Walk(P, w), up) \in Places
        BY <1>5, <4>1, WalkIs
      <4> QED
        BY <1>5, <3>6, <4>2 DEF Places
    <3> QED
      BY <3>4, <3>5, <3>6, <3>7 DEF Descends
  <2> QED
    BY <2>6, <2>7
<1> QED
  BY <1>9, <1>10
-----------------------------------------------------------------------------
(* The loop                                                                *)

(* What is clean before a cut stays clean. *)
LEMMA CleanStays ==
    ASSUME NEW p \in Seq(Chars), NEW q \in Seq(Chars), NEW first \in 0 .. Len(p) - 1, first <= Len(q),
           \A i \in 1 .. first : q[i] = p[i], p[first + 1] = "/", EndsAt(q, first),
           NEW c \in Int, CleanTo(p, c), NEW d \in Int, d <= first, d <= c
    PROVE  CleanTo(q, d)
<1> SUFFICES ASSUME NEW k \in Nat, k < d
             PROVE  /\ ~DoubleIn(q, k) /\ ~SelfIn(q, k)
                    /\ ParentIn(q, k) => \A m \in 1 .. k : q[m] # "/"
  BY DEF CleanTo
<1>1. Len(p) \in Nat /\ Len(q) \in Nat /\ first \in Nat /\ k < first /\ k < c /\ first + 1 <= Len(p)
  OBVIOUS
<1>2. ~DoubleIn(p, k) /\ ~SelfIn(p, k) /\ (ParentIn(p, k) => \A m \in 1 .. k : p[m] # "/")
  BY <1>1 DEF CleanTo
<1>3. first + 1 <= Len(q) => q[first + 1] = "/"
  BY <1>1 DEF EndsAt
<1>4. ~DoubleIn(q, k)
  <2> SUFFICES ASSUME DoubleIn(q, k) PROVE FALSE
    OBVIOUS
  <2>1. k + 2 <= Len(q) /\ q[k + 1] = "/" /\ q[k + 2] = "/"
    BY DEF DoubleIn
  <2>2. p[k + 1] = "/" /\ k + 2 <= Len(p)
    BY <1>1, <2>1
  <2>3. k + 2 \in 1 .. first \/ k + 2 = first + 1
    BY <1>1
  <2>4. p[k + 2] = "/"
    BY <2>1, <2>3
  <2> QED
    BY <1>2, <2>2, <2>4 DEF DoubleIn
<1>5. ASSUME NEW m \in 1 .. Len(q), k < m, q[m] = ".", m <= first + 1
      PROVE  m \in 1 .. first /\ p[m] = "."
  <2>1. m # first + 1
    BY <1>1, <1>3, <1>5
  <2> QED
    BY <1>1, <1>5, <2>1
<1>6. ASSUME NEW m \in 1 .. first, EndsAt(q, m) PROVE EndsAt(p, m)
  <2>1. CASE m = first
    BY <2>1 DEF EndsAt
  <2>2. CASE m # first
    <3>1. m + 1 \in 1 .. first /\ m # Len(q)
      BY <1>1, <2>2
    <3> QED
      BY <1>6, <3>1 DEF EndsAt
  <2> QED
    BY <2>1, <2>2
<1>7. ~SelfIn(q, k)
  <2> SUFFICES ASSUME SelfIn(q, k) PROVE FALSE
    OBVIOUS
  <2>1. k + 2 <= Len(q) /\ q[k + 1] = "/" /\ q[k + 2] = "." /\ EndsAt(q, k + 2)
    BY DEF SelfIn
  <2>2. k + 2 \in 1 .. Len(q) /\ k < k + 2 /\ k + 2 <= first + 1 /\ k + 1 \in 1 .. first
    BY <1>1, <2>1
  <2>3. k + 2 \in 1 .. first /\ p[k + 2] = "."
    BY <1>5, <2>1, <2>2
  <2>4. EndsAt(p, k + 2) /\ p[k + 1] = "/" /\ k + 2 <= Len(p)
    BY <1>1, <1>6, <2>1, <2>2, <2>3
  <2> QED
    BY <1>2, <2>3, <2>4 DEF SelfIn
<1>8. ASSUME ParentIn(q, k) PROVE \A m \in 1 .. k : q[m] # "/"
  <2>1. k + 3 <= Len(q) /\ q[k + 1] = "/" /\ q[k + 2] = "." /\ q[k + 3] = "." /\ EndsAt(q, k + 3)
    BY <1>8 DEF ParentIn
  <2>2. k + 2 \in 1 .. Len(q) /\ k < k + 2 /\ k + 2 <= first + 1 /\ k + 1 \in 1 .. first
    BY <1>1, <2>1
  <2>3. k + 2 \in 1 .. first /\ p[k + 2] = "."
    BY <1>5, <2>1, <2>2
  <2>4. k + 3 \in 1 .. Len(q) /\ k < k + 3 /\ k + 3 <= first + 1
    BY <1>1, <2>1, <2>3
  <2>5. k + 3 \in 1 .. first /\ p[k + 3] = "."
    BY <1>5, <2>1, <2>4
  <2>6. EndsAt(p, k + 3) /\ p[k + 1] = "/" /\ k + 3 <= Len(p)
    BY <1>1, <1>6, <2>1, <2>2, <2>5
  <2>7. \A m \in 1 .. k : p[m] # "/"
    BY <1>2, <2>3, <2>5, <2>6 DEF ParentIn
  <2> QED
    BY <1>1, <2>7
<1> QED
  BY <1>4, <1>7, <1>8

(* The words of the code *)
LEMMA WordsAre ==
    ASSUME path \in Seq(Chars), NEW i \in Nat
    PROVE  (ParentAt(i) <=> ParentIn(path, i)) /\ (SelfAt(i) <=> SelfIn(path, i))
<1>1. Len(path) \in Nat
  OBVIOUS
<1>2. ParentAt(i) <=> ParentIn(path, i)
  <2> DEFINE word == <<"/", ".", ".">>
  <2>1. Len(word) = 3 /\ word[0 + 1] = "/" /\ word[1 + 1] = "." /\ word[2 + 1] = "."
    OBVIOUS
  <2>2. ParentAt(i) <=> /\ i + 3 <= Len(path)
                        /\ \A k \in 0 .. 3 - 1 : path[(i + k) + 1] = word[k + 1]
                        /\ i + 3 < Len(path) => path[(i + 3) + 1] = "/"
    BY <2>1 DEF ParentAt, WordAt, Char
  <2> HIDE DEF word
  <2>3. (\A k \in 0 .. 3 - 1 : path[(i + k) + 1] = word[k + 1])
        <=> path[i + 1] = "/" /\ path[i + 2] = "." /\ path[i + 3] = "."
    <3>1. (i + 0) + 1 = i + 1 /\ (i + 1) + 1 = i + 2 /\ (i + 2) + 1 = i + 3
      OBVIOUS
    <3>2. 0 .. 3 - 1 = {0, 1, 2}
      OBVIOUS
    <3>3. (\A k \in 0 .. 3 - 1 : path[(i + k) + 1] = word[k + 1])
          <=> /\ path[(i + 0) + 1] = word[0 + 1] /\ path[(i + 1) + 1] = word[1 + 1]
              /\ path[(i + 2) + 1] = word[2 + 1]
      BY <3>2, Zenon
    <3> QED
      BY <2>1, <3>1, <3>3
  <2>4. i + 3 <= Len(path) => ((i + 3 < Len(path) => path[(i + 3) + 1] = "/") <=> EndsAt(path, i + 3))
    BY <1>1 DEF EndsAt
  <2> QED
    BY <2>2, <2>3, <2>4 DEF ParentIn
<1>3. SelfAt(i) <=> SelfIn(path, i)
  <2> DEFINE word == <<"/", ".">>
  <2>1. Len(word) = 2 /\ word[0 + 1] = "/" /\ word[1 + 1] = "."
    OBVIOUS
  <2>2. SelfAt(i) <=> /\ i + 2 <= Len(path)
                      /\ \A k \in 0 .. 2 - 1 : path[(i + k) + 1] = word[k + 1]
                      /\ i + 2 < Len(path) => path[(i + 2) + 1] = "/"
    BY <2>1 DEF SelfAt, WordAt, Char
  <2> HIDE DEF word
  <2>3. (\A k \in 0 .. 2 - 1 : path[(i + k) + 1] = word[k + 1]) <=> path[i + 1] = "/" /\ path[i + 2] = "."
    <3>1. (i + 0) + 1 = i + 1 /\ (i + 1) + 1 = i + 2
      OBVIOUS
    <3>2. 0 .. 2 - 1 = {0, 1}
      OBVIOUS
    <3>3. (\A k \in 0 .. 2 - 1 : path[(i + k) + 1] = word[k + 1])
          <=> path[(i + 0) + 1] = word[0 + 1] /\ path[(i + 1) + 1] = word[1 + 1]
      BY <3>2, Zenon
    <3> QED
      BY <2>1, <3>1, <3>3
  <2>4. i + 2 <= Len(path) => ((i + 2 < Len(path) => path[(i + 2) + 1] = "/") <=> EndsAt(path, i + 2))
    BY <1>1 DEF EndsAt
  <2> QED
    BY <2>2, <2>3, <2>4 DEF SelfIn
<1> QED
  BY <1>2, <1>3
(* The inductive invariant: the loop has passed nothing that it takes out, *)
(* and for the paths that the property is about, the path still leads      *)
(* where it led.                                                           *)
Leads(p) == p # <<>> /\ Absolute(p) = Absolute(original) /\ Place(p) = Place(original)

PathInv ==
    /\ original \in Seq(Chars) /\ path \in Seq(Chars) /\ cursor \in Int
    /\ canon = "loop" => CleanTo(path, cursor)
    /\ Descends(original) => canon # "undefined" /\ Leads(path)

LEMMA LeadsDown ==
    ASSUME Descends(original), NEW p, Leads(p)
    PROVE  Descends(p)
BY DEF Descends, Leads

(* A round that cuts out what leads nowhere and goes back to d *)
LEMMA CutKeeps ==
    ASSUME PathInv, InLoop, NEW first \in 0 .. Len(path), NEW last \in first + 1 .. Len(path),
           path[first + 1] = "/", EndsAt(path, last),
           Descends(path) => \A h : Reads(h, path) => Alike(Absolute(path), End(h[last]), End(h[first])),
           NEW d \in Int, d <= first, d <= cursor, Cut(first, last), Advance(d - 1), original' = original
    PROVE  PathInv'
<1> DEFINE q == Without(path, first, last)
<1>1. path \in Seq(Chars) /\ original \in Seq(Chars) /\ cursor \in Int /\ Len(path) \in Nat /\ canon = "loop"
      /\ first \in 0 .. Len(path) - 1 /\ last \in first .. Len(path) /\ CleanTo(path, cursor)
  BY DEF PathInv, InLoop
<1>2. path' = q
  BY DEF Cut, Without
<1>3. q \in Seq(Chars) /\ Len(q) >= first /\ Len(q) \in Nat /\ (\A i \in 1 .. first : q[i] = path[i]) /\ EndsAt(q, first)
  <2>1. first \in 0 .. Len(path) /\ last \in first .. Len(path)
    BY <1>1
  <2>2. /\ q \in Seq(Chars) /\ Len(q) = Len(path) - (last - first) /\ Len(q) >= first
        /\ \A i \in 1 .. first : q[i] = path[i]
        /\ EndsAt(path, last) => EndsAt(q, first)
    BY <1>1, <2>1, WithoutIs
  <2> HIDE DEF q
  <2> QED
    BY <1>1, <2>1, <2>2
<1>4. cursor' = d /\ canon' \in {"loop", "undefined"} /\ (path' # <<>> => canon' = "loop")
  BY DEF Advance
<1> HIDE DEF q
<1>5. CleanTo(q, d)
  BY <1>1, <1>3, CleanStays
<1>6. ASSUME Descends(original) PROVE q # <<>> /\ Absolute(q) = Absolute(original) /\ Place(q) = Place(original)
  <2>1. Leads(path)
    BY <1>6 DEF PathInv
  <2>2. Descends(path)
    BY <1>6, <2>1, LeadsDown
  <2>3. PICK h : Reads(h, path)
    BY <1>1, ReadsExist
  <2>4. Alike(Absolute(path), End(h[last]), End(h[first]))
    BY <2>2, <2>3
  <2>5. q # <<>> /\ Absolute(q) = Absolute(path) /\ Place(q) = Place(path)
    BY <1>1, <2>2, <2>3, <2>4, CutLeads DEF q
  <2> QED
    BY <2>1, <2>5 DEF Leads
<1>7. CleanTo(path', cursor')
  BY <1>2, <1>4, <1>5
<1>8. Descends(original)' => canon' # "undefined" /\ Leads(path)'
  <2>1. Descends(original)' = Descends(original)
    BY DEF Descends, Absolute, Place, Names
  <2>2. ASSUME Descends(original) PROVE canon' # "undefined" /\ Leads(path)'
    <3>1. q # <<>> /\ Absolute(q) = Absolute(original) /\ Place(q) = Place(original)
      BY <1>6, <2>2
    <3>2. canon' = "loop"
      BY <1>2, <1>4, <3>1
    <3>3. Leads(path)'
      BY <1>2, <3>1 DEF Leads
    <3> QED
      BY <3>2, <3>3
  <2> QED
    BY <2>1, <2>2
<1> QED
  BY <1>1, <1>2, <1>3, <1>4, <1>7, <1>8 DEF PathInv

(* A round that leaves the path as it is *)
LEMMA SkipKeeps ==
    ASSUME PathInv, InLoop, ~DoubleIn(path, cursor), ~SelfIn(path, cursor),
           ParentIn(path, cursor) => \A m \in 1 .. cursor : path[m] # "/",
           UNCHANGED <<original, path>>, Advance(cursor)
    PROVE  PathInv'
<1>1. path \in Seq(Chars) /\ cursor \in Nat /\ cursor \in 0 .. Len(path) - 2 /\ canon = "loop" /\ CleanTo(path, cursor)
  BY DEF PathInv, InLoop
<1>2. path # <<>>
  BY <1>1
<1>3. cursor' = cursor + 1 /\ canon' = "loop" /\ path' = path /\ original' = original
  BY <1>2 DEF Advance
<1>4. CleanTo(path, cursor + 1)
  <2> SUFFICES ASSUME NEW k \in Nat, k < cursor + 1
               PROVE  /\ ~DoubleIn(path, k) /\ ~SelfIn(path, k)
                      /\ ParentIn(path, k) => \A m \in 1 .. k : path[m] # "/"
    BY DEF CleanTo
  <2>1. k < cursor \/ k = cursor
    BY <1>1
  <2> QED
    BY <1>1, <2>1 DEF CleanTo
<1> QED
  BY <1>1, <1>3, <1>4 DEF PathInv, Leads

LEMMA CutParentKeeps ==
    ASSUME PathInv, CutParent
    PROVE  PathInv'
<1> DEFINE i == cursor
           js == Slashes(i)
           j == CHOOSE k \in js : \A other \in js : other <= k
<1>1. path \in Seq(Chars) /\ i \in Nat /\ InLoop /\ i \in 0 .. Len(path) - 2 /\ CleanTo(path, i) /\ Len(path) \in Nat
  BY DEF PathInv, CutParent, InLoop
<1>2. ParentIn(path, i)
  BY <1>1, WordsAre DEF CutParent
<1>3. i + 3 <= Len(path) /\ path[i + 1] = "/" /\ path[i + 2] = "." /\ path[i + 3] = "." /\ EndsAt(path, i + 3)
  BY <1>2 DEF ParentIn
<1>4. js = {k \in 0 .. i - 1 : path[k + 1] = "/"}
  BY DEF Slashes, Char
<1>5. CASE js = {}
  <2>1. UNCHANGED <<original, path>> /\ Advance(i)
    BY <1>5 DEF CutParent
  <2>2. ~DoubleIn(path, i) /\ ~SelfIn(path, i)
    BY <1>1, <1>3 DEF DoubleIn, SelfIn, EndsAt
  <2>3. ASSUME NEW m \in 1 .. i PROVE path[m] # "/"
    <3>1. m - 1 \in 0 .. i - 1 /\ (m - 1) + 1 = m
      BY <1>1
    <3> QED
      BY <1>4, <1>5, <3>1
  <2> QED
    BY <1>1, <2>1, <2>2, <2>3, SkipKeeps
<1>6. CASE js # {}
  <2>1. j \in js /\ \A other \in js : other <= j
    <3> DEFINE T == {k + 1 : k \in js}
    <3>1. T \in SUBSET (1 .. i) /\ T # {}
      BY <1>1, <1>4, <1>6
    <3>2. Max(T) \in T /\ \A k \in T : k <= Max(T)
      BY <1>1, <3>1, MaxUpto
    <3>3. PICK k \in js : Max(T) = k + 1
      BY <3>2
    <3>4. \A other \in js : other <= k
      <4> SUFFICES ASSUME NEW other \in js PROVE other <= k
        OBVIOUS
      <4>1. other + 1 <= k + 1
        BY <3>2, <3>3
      <4> QED
        BY <1>4, <4>1
    <3> QED
      BY <3>4
  <2>2. Cut(j, i + 3) /\ Advance(j - 3) /\ original' = original
    BY <1>6 DEF CutParent
  <2> HIDE DEF js, j
  <2>3. j \in 0 .. i - 1 /\ path[j + 1] = "/"
    BY <1>4, <2>1
  <2>4. ASSUME NEW m \in j + 2 .. i PROVE path[m] # "/"
    <3>1. m - 1 \in 0 .. i - 1 /\ (m - 1) + 1 = m /\ ~(m - 1 <= j)
      BY <1>1, <2>3
    <3> QED
      BY <1>4, <2>1, <3>1
  <2>5. ASSUME Descends(path), NEW h, Reads(h, path)
        PROVE  Alike(Absolute(path), End(h[i + 3]), End(h[j]))
    BY <1>1, <1>2, <2>3, <2>4, <2>5, ParentLeads
  <2>6. j \in 0 .. Len(path) /\ i + 3 \in j + 1 .. Len(path) /\ j - 2 \in Int /\ j - 2 <= j /\ j - 2 <= i
        /\ (j - 2) - 1 = j - 3
    BY <1>1, <1>3, <2>3
  <2> QED
    BY <1>1, <1>3, <2>2, <2>3, <2>5, <2>6, CutKeeps
<1> QED
  BY <1>5, <1>6

LEMMA CutSelfKeeps ==
    ASSUME PathInv, CutSelf
    PROVE  PathInv'
<1> DEFINE i == cursor
<1>1. path \in Seq(Chars) /\ i \in Nat /\ InLoop /\ i \in 0 .. Len(path) - 2 /\ Len(path) \in Nat
  BY DEF PathInv, CutSelf, InLoop
<1>2. path[i + 1] = "/" /\ path[i + 2] = "." /\ EndsAt(path, i + 2)
  BY <1>1, WordsAre DEF CutSelf, SelfIn
<1>3. Cut(i, i + 2) /\ Advance(i - 2) /\ original' = original
  BY DEF CutSelf
<1>4. ASSUME NEW h, Reads(h, path) PROVE Alike(Absolute(path), End(h[i + 2]), End(h[i]))
  BY <1>1, <1>2, <1>4, SelfLeads DEF Alike
<1>5. i \in 0 .. Len(path) /\ i + 2 \in i + 1 .. Len(path) /\ i - 1 \in Int /\ i - 1 <= i /\ (i - 1) - 1 = i - 2
  BY <1>1
<1> QED
  BY <1>1, <1>2, <1>3, <1>4, <1>5, CutKeeps

LEMMA CutSlashKeeps ==
    ASSUME PathInv, CutSlash
    PROVE  PathInv'
<1> DEFINE i == cursor
<1>1. path \in Seq(Chars) /\ i \in Nat /\ InLoop /\ i \in 0 .. Len(path) - 2 /\ i \in 0 .. Len(path) - 1 /\ Len(path) \in Nat
  BY DEF PathInv, CutSlash, InLoop
<1>2. path[i + 1] = "/" /\ path[(i + 1) + 1] = "/" /\ EndsAt(path, i + 1)
  BY <1>1 DEF CutSlash, Char, EndsAt
<1>3. Cut(i, i + 1) /\ Advance(i - 1) /\ original' = original
  BY DEF CutSlash
<1>4. ASSUME NEW h, Reads(h, path) PROVE Alike(Absolute(path), End(h[i + 1]), End(h[i]))
  BY <1>1, <1>2, <1>4, SlashLeads DEF Alike
<1>5. i \in 0 .. Len(path) /\ i + 1 \in i + 1 .. Len(path) /\ i \in Int /\ i <= i
  BY <1>1
<1> QED
  BY <1>1, <1>2, <1>3, <1>4, <1>5, CutKeeps

LEMMA SkipCharKeeps ==
    ASSUME PathInv, SkipChar
    PROVE  PathInv'
<1>1. path \in Seq(Chars) /\ cursor \in Nat /\ InLoop
  BY DEF PathInv, SkipChar, InLoop
<1>2. ~ParentIn(path, cursor) /\ ~SelfIn(path, cursor)
  BY <1>1, WordsAre DEF SkipChar
<1>3. ~DoubleIn(path, cursor)
  <2>1. path[cursor + 1] = "/" => path[(cursor + 1) + 1] # "/"
    BY DEF SkipChar, Char
  <2>2. (cursor + 1) + 1 = cursor + 2
    BY <1>1
  <2> QED
    BY <2>1, <2>2 DEF DoubleIn
<1> QED
  BY <1>1, <1>2, <1>3, SkipKeeps DEF SkipChar

LEMMA TrailingSlashKeeps ==
    ASSUME PathInv, TrailingSlash
    PROVE  PathInv'
<1> DEFINE n == Len(path)
<1>1. path \in Seq(Chars) /\ original \in Seq(Chars) /\ n \in Nat /\ original' = original /\ cursor' = cursor
      /\ cursor \in Int /\ canon' = IF path = <<>> THEN "undefined" ELSE "done"
  BY DEF PathInv, TrailingSlash
<1>2. Descends(original)' = Descends(original)
  BY <1>1 DEF Descends, Absolute, Place, Names
<1>3. CASE path = <<>> \/ (path # <<>> /\ Last(path) # "/")
  <2>1. path' = path
    BY <1>3 DEF TrailingSlash
  <2>2. Leads(path)' <=> Leads(path)
    BY <1>1, <2>1 DEF Leads
  <2> QED
    BY <1>1, <1>2, <2>1, <2>2 DEF PathInv, Leads
<1>4. CASE path # <<>> /\ Last(path) = "/"
  <2> DEFINE q == Front(path)
  <2>1. path' = q /\ path[n] = "/" /\ n > 0 /\ canon' = "done"
    BY <1>1, <1>4 DEF TrailingSlash, Last
  <2>2. q \in Seq(Chars)
    BY <1>4, <1>1, FrontIs
  <2>3. Without(path, n - 1, n) = q
    <3>1. SubSeq(path, n + 1, n) = <<>>
      BY <1>1, SubSeqEmpty
    <3>2. q = SubSeq(path, 1, n - 1)
      BY DEF Front
    <3> QED
      BY <2>2, <3>1, <3>2, ConcatEmptySeq DEF Without
  <2> HIDE DEF q
  <2>4. ASSUME Descends(original) PROVE q # <<>> /\ Absolute(q) = Absolute(original) /\ Place(q) = Place(original)
    <3>1. Leads(path)
      BY <2>4 DEF PathInv
    <3>2. Descends(path)
      BY <2>4, <3>1, LeadsDown
    <3>3. PICK h : Reads(h, path)
      BY <1>1, ReadsExist
    <3>4. n - 1 \in 0 .. n /\ n \in (n - 1) + 1 .. n /\ n - 1 \in 0 .. n - 1 /\ (n - 1) + 1 = n /\ EndsAt(path, n)
      BY <1>1, <2>1 DEF EndsAt
    <3>5. Alike(Absolute(path), End(h[n]), End(h[n - 1]))
      <4>1. End(h[(n - 1) + 1]) = End(h[n - 1])
        BY <1>1, <2>1, <3>3, <3>4, SlashLeads
      <4> QED
        BY <3>4, <4>1 DEF Alike
    <3>6. q # <<>> /\ Absolute(q) = Absolute(path) /\ Place(q) = Place(path)
      BY <1>1, <2>1, <2>3, <3>2, <3>3, <3>4, <3>5, CutLeads
    <3> QED
      BY <3>1, <3>6 DEF Leads
  <2>5. Descends(original) => Leads(path)'
    BY <1>1, <2>1, <2>4 DEF Leads
  <2> QED
    BY <1>1, <1>2, <2>1, <2>2, <2>5 DEF PathInv
<1> QED
  BY <1>3, <1>4

LEMMA PathStep ==
    ASSUME PathInv, [PathNext]_canonVars
    PROVE  PathInv'
<1>1. CASE UNCHANGED canonVars
  BY <1>1 DEF canonVars, PathInv, Leads
<1> QED
  BY <1>1, CutParentKeeps, CutSelfKeeps, CutSlashKeeps, SkipCharKeeps, TrailingSlashKeeps DEF PathNext

LEMMA PathStart ==
    ASSUME PathInit
    PROVE  PathInv
<1>1. PICK n \in 0 .. MaxPath : original \in [1 .. n -> Letters \cup {"/", "."}]
  BY Zenon DEF PathInit
<1>2. n \in Nat
  BY <1>1, PathAssumption
<1>3. original \in Seq(Chars)
  BY <1>1, <1>2 DEF Chars, NameChars
<1>4. path = original /\ cursor = 0 /\ (original # <<>> => canon = "loop")
  BY DEF PathInit
<1>5. CleanTo(path, cursor)
  BY <1>4 DEF CleanTo
<1>6. Descends(original) => canon # "undefined" /\ Leads(path)
  BY <1>4 DEF Descends, Leads
<1> QED
  BY <1>3, <1>4, <1>5, <1>6 DEF PathInv

(* canonicalize never reads outside a path that neither is empty, nor the  *)
(* root, nor climbs above where it starts, and the path it leaves is       *)
(* absolute where the original is and leads to the same place (Path.cpp    *)
(* 194-238), for such paths of any length over any letters.                *)
THEOREM CanonicalLeadsTheSame == PathSpec => []SamePlace
<1>1. PathInit => PathInv
  BY PathStart
<1>2. PathInv /\ [PathNext]_canonVars => PathInv'
  BY PathStep
<1>3. PathInv => SamePlace
  BY DEF PathInv, SamePlace, Descends, Leads
<1> QED
  BY <1>1, <1>2, <1>3, PTL DEF PathSpec
=============================================================================
