-------------------------- MODULE ConnectionProofs --------------------------
(***************************************************************************)
(* The theorems of Connection.  The stack of frames is looked at through   *)
(* Push: what an invariant says of a stack follows from what it says of    *)
(* its first frame, of the frame below that, and of the rest.              *)
(***************************************************************************)
EXTENDS Connection, SequenceLemmas

Octets == Nat \X Nat

Base == Frame("base")

Frames == [at : Places \cup {"base"}, data : Seq(Octets), total : Nat, goal : Nat,
           mode : SUBSET {"Read", "Write"}]

Push(f, s) == <<f>> \o s

(* The frames from the innermost on, and the outermost. *)
First(s)  == IF s = <<>> THEN Base ELSE Head(s)
Second(s) == IF s = <<>> THEN Base ELSE First(Tail(s))
Third(s)  == IF s = <<>> THEN Base ELSE Second(Tail(s))
Bottom(s) == IF s = <<>> THEN Base ELSE s[Len(s)]

Has(s, P) == \E k \in 1 .. Len(s) : s[k].at \in P

(* The socket will be closed; somebody is about to be told, or is being    *)
(* told, that it is lost.                                                  *)
Doomed(s)  == Has(s, {"fail"})
Telling(s) == Has(s, {"connectFailed", "mDisconnected"})
Tells(s)   == Has(s, {"connectFailed", "mDisconnected", "disconnected", "error"})

Writing == {"writeTo", "flush", "flushed", "direct", "store"}
Senders == {"base", "mConnected", "mNewMessage", "mFinished"}

(* Which frame is called by which. *)
Fits(f, g) ==
    /\ f.at # "base"
    /\ f.at \in {"read", "readDone", "writable", "connectFailed"} => g.at = "base"
    /\ f.at \in Writing => g.at \in Senders \/ (g.at = "send" /\ f.data # <<>>)
    /\ f.at = "writeTo" => f.total = 0
    /\ f.at = "fail" => g.at \in Senders \cup {"send", "connectFailed"}
    /\ f.at = "send" => g.at \in Senders /\ f.data # <<>>
    /\ f.at \in {"bytesWritten", "mSendFinished"} => g.at \in {"flush", "direct"}
    /\ f.at \in {"connected", "mConnected"} => g.at = "base" \/ (g.at = "writeTo" /\ g.data = <<>>)
    /\ f.at \in {"mNewMessage", "mFinished"} => g.at = "readyRead"
    /\ f.at = "readyRead" => g.at \in {"base", "readDone", "disconnected"}
    /\ f.at = "disconnected" => g.at = "fail"
    /\ f.at = "error" => g.at \in {"fail", "connectFailed"}
    /\ f.at = "mError" => g.at = "mDisconnected"
    /\ f.at = "mDisconnected" => g.at \in {"base", "fail", "connectFailed"}

Chain(s) == \A k \in 1 .. Len(s) : Fits(s[k], IF k = Len(s) THEN Base ELSE s[k + 1])

LEMMA BaseIsFrame == Base \in Frames
<1>1. <<>> \in Seq(Octets)
  BY EmptySeq
<1> QED
  BY <1>1 DEF Base, Frame, Frames

LEMMA PushIs ==
    ASSUME NEW f \in Frames, NEW s \in Seq(Frames)
    PROVE  /\ Push(f, s) \in Seq(Frames) /\ Push(f, s) # <<>> /\ Len(Push(f, s)) = Len(s) + 1
           /\ Push(f, s)[1] = f /\ \A k \in 1 .. Len(s) : Push(f, s)[k + 1] = s[k]
           /\ Head(Push(f, s)) = f /\ Tail(Push(f, s)) = s
<1>1. <<f>> \in Seq(Frames) /\ Len(<<f>>) = 1 /\ <<f>>[1] = f
  OBVIOUS
<1>2. Push(f, s) \in Seq(Frames) /\ Len(Push(f, s)) = Len(s) + 1
      /\ Push(f, s)[1] = f /\ \A k \in 1 .. Len(s) : Push(f, s)[k + 1] = s[k]
  BY <1>1, ConcatProperties DEF Push
<1>3. Push(f, s) # <<>>
  BY <1>2
<1>4. Tail(Push(f, s)) \in Seq(Frames) /\ Len(Tail(Push(f, s))) = Len(s)
      /\ \A k \in 1 .. Len(s) : Tail(Push(f, s))[k] = s[k]
  BY <1>2, <1>3, HeadTailProperties
<1>5. Tail(Push(f, s)) = s
  BY <1>4, SeqEqual
<1> QED
  BY <1>2, <1>3, <1>5, HeadTailProperties

(* A stack that is not empty is its first frame on the rest. *)
LEMMA Pushed ==
    ASSUME NEW s \in Seq(Frames), s # <<>>
    PROVE  Head(s) \in Frames /\ Tail(s) \in Seq(Frames) /\ s = Push(Head(s), Tail(s))
<1>1. Head(s) \in Frames /\ Tail(s) \in Seq(Frames) /\ Head(s) = s[1]
      /\ Len(Tail(s)) = Len(s) - 1 /\ \A k \in 1 .. Len(s) - 1 : Tail(s)[k] = s[k + 1]
  BY HeadTailProperties
<1> DEFINE h == Head(s)
           t == Tail(s)
<1> HIDE DEF h, t
<1>2. Push(h, t) \in Seq(Frames) /\ Len(Push(h, t)) = Len(t) + 1
      /\ Push(h, t)[1] = h /\ \A k \in 1 .. Len(t) : Push(h, t)[k + 1] = t[k]
  BY <1>1, PushIs DEF h, t
<1>3. \A k \in 1 .. Len(s) : Push(h, t)[k] = s[k]
  <2> TAKE k \in 1 .. Len(s)
  <2>1. k = 1 \/ k - 1 \in 1 .. Len(s) - 1
    OBVIOUS
  <2>2. CASE k = 1
    BY <1>1, <1>2, <2>2 DEF h
  <2>3. CASE k - 1 \in 1 .. Len(s) - 1
    <3>1. Push(h, t)[(k - 1) + 1] = t[k - 1] /\ t[k - 1] = s[(k - 1) + 1]
      BY <1>1, <1>2, <2>3 DEF t
    <3> QED
      BY <3>1
  <2> QED
    BY <2>1, <2>2, <2>3
<1>4. Len(Push(h, t)) = Len(s)
  BY <1>1, <1>2 DEF t
<1>5. s = Push(h, t)
  BY <1>2, <1>3, <1>4, SeqEqual
<1> QED
  BY <1>1, <1>5 DEF h, t

(* The forms in which the actions push frames. *)
PushesOf(f, g, h, s) ==
    /\ <<f>> \o s = Push(f, s)
    /\ <<f>> = Push(f, <<>>)
    /\ <<>> \o s = s
    /\ <<f, g>> \o s = Push(f, Push(g, s))
    /\ (<<f>> \o <<g>>) \o s = Push(f, Push(g, s))
    /\ (<<>> \o <<g>>) \o s = Push(g, s)
    /\ ((<<f>> \o <<g>>) \o <<h>>) \o s = Push(f, Push(g, Push(h, s)))
    /\ ((<<>> \o <<g>>) \o <<h>>) \o s = Push(g, Push(h, s))
    /\ ((<<>> \o <<>>) \o <<h>>) \o s = Push(h, s)

LEMMA PushForms ==
    ASSUME NEW f \in Frames, NEW g \in Frames, NEW h \in Frames, NEW s \in Seq(Frames)
    PROVE  PushesOf(f, g, h, s)
<1>1. <<f>> \in Seq(Frames) /\ <<g>> \in Seq(Frames) /\ <<h>> \in Seq(Frames) /\ <<>> \in Seq(Frames)
  OBVIOUS
<1> DEFINE a == <<f>>
           b == <<g>>
           c == <<h>>
<1>2. a \in Seq(Frames) /\ b \in Seq(Frames) /\ c \in Seq(Frames)
  BY <1>1
<1>3. <<f, g>> = <<f>> \o <<g>>
  <2>1. <<f, g>> \in Seq(Frames) /\ Len(<<f, g>>) = 2 /\ <<f, g>>[1] = f /\ <<f, g>>[2] = g
    OBVIOUS
  <2>2. Len(<<f>>) = 1 /\ <<f>>[1] = f /\ Len(<<g>>) = 1 /\ <<g>>[1] = g
    OBVIOUS
  <2> DEFINE x == <<f>>
             y == <<g>>
             p == <<f, g>>
  <2>3. x \in Seq(Frames) /\ y \in Seq(Frames) /\ Len(x) = 1 /\ x[1] = f /\ Len(y) = 1 /\ y[1] = g
    BY <1>1, <2>2
  <2>4. p \in Seq(Frames) /\ Len(p) = 2 /\ p[1] = f /\ p[2] = g
    BY <2>1
  <2> HIDE DEF x, y, p
  <2>5. x \o y \in Seq(Frames) /\ Len(x \o y) = 2 /\ (x \o y)[1] = f /\ (x \o y)[2] = g
    BY <2>3, ConcatProperties
  <2> DEFINE q == x \o y
  <2>6. q \in Seq(Frames) /\ Len(q) = 2 /\ q[1] = f /\ q[2] = g
    BY <2>5
  <2> HIDE DEF q
  <2>7. Len(p) = Len(q) /\ \A i \in 1 .. Len(p) : p[i] = q[i]
    BY <2>4, <2>6
  <2>8. p = q
    BY <2>4, <2>6, <2>7, SeqEqual
  <2> QED
    BY <2>8 DEF p, q, x, y
<1>4. <<>> \o s = s /\ <<>> \o b = b /\ a \o <<>> = a /\ <<>> \o <<>> = <<>>
  BY <1>1, ConcatEmptySeq
<1>0. <<f, g>> = a \o b
  BY <1>3
<1> DEFINE d == c \o s
<1> HIDE DEF a, b, c, d
<1>5. (a \o b) \o s = a \o (b \o s)
  <2>1. a \in Seq(Frames) /\ b \in Seq(Frames) /\ s \in Seq(Frames)
    BY <1>2
  <2>2. Associates(a, b, s)
    BY <2>1, ConcatAssociates
  <2> QED
    BY <2>2 DEF Associates
<1>6. a \o b \in Seq(Frames) /\ d \in Seq(Frames)
  BY <1>2, ConcatProperties DEF d
<1>7. ((a \o b) \o c) \o s = (a \o b) \o d
  <2>1. a \o b \in Seq(Frames) /\ c \in Seq(Frames) /\ s \in Seq(Frames)
    BY <1>2, <1>6
  <2> DEFINE e == a \o b
  <2>2. e \in Seq(Frames)
    BY <2>1
  <2> HIDE DEF e
  <2>3. Associates(e, c, s)
    BY <2>1, <2>2, ConcatAssociates
  <2> QED
    BY <2>3 DEF Associates, d, e
<1>8. (a \o b) \o d = a \o (b \o d)
  <2>1. a \in Seq(Frames) /\ b \in Seq(Frames) /\ d \in Seq(Frames)
    BY <1>2, <1>6
  <2>2. Associates(a, b, d)
    BY <2>1, ConcatAssociates
  <2> QED
    BY <2>2 DEF Associates
<1>9. (b \o c) \o s = b \o d
  <2>1. b \in Seq(Frames) /\ c \in Seq(Frames) /\ s \in Seq(Frames)
    BY <1>2
  <2>2. Associates(b, c, s)
    BY <2>1, ConcatAssociates
  <2> QED
    BY <2>2 DEF Associates, d
<1>10. Push(f, s) = a \o s /\ Push(g, s) = b \o s /\ Push(h, s) = d
       /\ Push(f, Push(g, s)) = a \o (b \o s) /\ Push(g, Push(h, s)) = b \o d
       /\ Push(f, Push(g, Push(h, s))) = a \o (b \o d) /\ Push(f, <<>>) = a \o <<>>
  BY DEF Push, a, b, c, d
<1>11. <<f>> = a /\ <<g>> = b /\ <<h>> = c
  BY DEF a, b, c
<1>12. <<f>> \o s = Push(f, s) /\ <<f>> = Push(f, <<>>)
  BY <1>4, <1>10, <1>11
<1>13. <<f, g>> \o s = Push(f, Push(g, s)) /\ (<<f>> \o <<g>>) \o s = Push(f, Push(g, s))
  BY <1>0, <1>5, <1>10, <1>11
<1>14. (<<>> \o <<g>>) \o s = Push(g, s) /\ ((<<>> \o <<>>) \o <<h>>) \o s = Push(h, s)
  <2>1. <<>> \o c = c
    BY <1>2, ConcatEmptySeq
  <2> QED
    BY <1>4, <1>10, <1>11, <2>1 DEF d
<1>15. ((<<f>> \o <<g>>) \o <<h>>) \o s = Push(f, Push(g, Push(h, s)))
  BY <1>7, <1>8, <1>10, <1>11
<1>16. ((<<>> \o <<g>>) \o <<h>>) \o s = Push(g, Push(h, s))
  BY <1>4, <1>9, <1>10, <1>11
<1> QED
  BY <1>4, <1>12, <1>13, <1>14, <1>15, <1>16 DEF PushesOf

(* What is said of a pushed frame. *)
LEMMA OfPush ==
    ASSUME NEW f \in Frames, NEW s \in Seq(Frames)
    PROVE  /\ Push(f, s) \in Seq(Frames) /\ Push(f, s) # <<>>
           /\ First(Push(f, s)) = f /\ Second(Push(f, s)) = First(s) /\ Third(Push(f, s)) = Second(s)
           /\ Bottom(Push(f, s)) = (IF s = <<>> THEN f ELSE Bottom(s))
           /\ Doomed(Push(f, s)) <=> f.at = "fail" \/ Doomed(s)
           /\ Telling(Push(f, s)) <=> f.at \in {"connectFailed", "mDisconnected"} \/ Telling(s)
           /\ Tells(Push(f, s)) <=>
                 f.at \in {"connectFailed", "mDisconnected", "disconnected", "error"} \/ Tells(s)
           /\ Chain(Push(f, s)) <=> Fits(f, First(s)) /\ Chain(s)
<1> DEFINE p == Push(f, s)
<1>1. /\ p \in Seq(Frames) /\ p # <<>> /\ Len(p) = Len(s) + 1
      /\ p[1] = f /\ \A k \in 1 .. Len(s) : p[k + 1] = s[k]
      /\ Head(p) = f /\ Tail(p) = s
  BY PushIs
<1> HIDE DEF p
<1>2. Len(s) \in Nat /\ (s = <<>> <=> Len(s) = 0)
  BY LenProperties, EmptySeq
<1>3. First(p) = f /\ Second(p) = First(s) /\ Third(p) = Second(s)
  BY <1>1 DEF First, Second, Third
<1>4. Bottom(p) = (IF s = <<>> THEN f ELSE Bottom(s))
  <2>1. CASE s = <<>>
    BY <1>1, <1>2, <2>1 DEF Bottom
  <2>2. CASE s # <<>>
    <3>1. Len(s) \in 1 .. Len(s)
      BY <1>2, <2>2
    <3> QED
      BY <1>1, <2>2, <3>1 DEF Bottom
  <2> QED
    BY <2>1, <2>2
<1>5. \A k \in 1 .. Len(s) + 1 : k = 1 \/ (k - 1 \in 1 .. Len(s) /\ p[k] = s[k - 1])
  <2> TAKE k \in 1 .. Len(s) + 1
  <2>1. k = 1 \/ k - 1 \in 1 .. Len(s)
    BY <1>2
  <2>2. ASSUME k - 1 \in 1 .. Len(s) PROVE p[(k - 1) + 1] = s[k - 1]
    BY <1>1, <2>2
  <2> QED
    BY <2>1, <2>2
<1>6. \A k \in 1 .. Len(s) : k + 1 \in 1 .. Len(s) + 1
  BY <1>2
<1>7. 1 \in 1 .. Len(s) + 1
  BY <1>2
<1>8. ASSUME NEW P PROVE Has(p, P) <=> f.at \in P \/ Has(s, P)
  <2>1. ASSUME NEW k \in 1 .. Len(s) + 1, p[k].at \in P PROVE f.at \in P \/ Has(s, P)
    BY <1>1, <1>5, <2>1 DEF Has
  <2>2. ASSUME f.at \in P PROVE Has(p, P)
    BY <1>1, <1>7, <2>2 DEF Has
  <2>3. ASSUME NEW k \in 1 .. Len(s), s[k].at \in P PROVE Has(p, P)
    BY <1>1, <1>6, <2>3 DEF Has
  <2> QED
    BY <1>1, <2>1, <2>2, <2>3 DEF Has
<1>9. Doomed(p) <=> f.at = "fail" \/ Doomed(s)
  BY <1>8 DEF Doomed
<1>10. Telling(p) <=> f.at \in {"connectFailed", "mDisconnected"} \/ Telling(s)
  BY <1>8 DEF Telling
<1>11. Tells(p) <=> f.at \in {"connectFailed", "mDisconnected", "disconnected", "error"} \/ Tells(s)
  BY <1>8 DEF Tells
<1>12. Chain(p) <=> Fits(f, First(s)) /\ Chain(s)
  <2> DEFINE U(q, k) == IF k = Len(q) THEN Base ELSE q[k + 1]
  <2>1. U(p, 1) = First(s)
    <3>1. CASE s = <<>>
      BY <1>1, <1>2, <3>1 DEF First
    <3>2. CASE s # <<>>
      <4>1. 1 \in 1 .. Len(s) /\ Len(p) # 1
        BY <1>1, <1>2, <3>2
      <4>2. p[1 + 1] = s[1]
        BY <1>1, <4>1
      <4>3. Head(s) = s[1]
        BY <3>2
      <4> QED
        BY <3>2, <4>1, <4>2, <4>3 DEF First
    <3> QED
      BY <3>1, <3>2
  <2>2. \A k \in 1 .. Len(s) : p[k + 1] = s[k] /\ U(p, k + 1) = U(s, k)
    <3> TAKE k \in 1 .. Len(s)
    <3>1. p[k + 1] = s[k] /\ Len(p) = Len(s) + 1
      BY <1>1
    <3>2. CASE k = Len(s)
      BY <3>1, <3>2
    <3>3. CASE k # Len(s)
      <4>1. k + 1 \in 1 .. Len(s) /\ k + 1 # Len(p)
        BY <1>2, <3>1, <3>3
      <4>2. p[(k + 1) + 1] = s[k + 1]
        BY <1>1, <4>1
      <4> QED
        BY <3>1, <3>3, <4>1, <4>2
    <3> QED
      BY <3>2, <3>3
  <2> HIDE DEF U
  <2>3. Chain(p) <=> \A k \in 1 .. Len(s) + 1 : Fits(p[k], U(p, k))
    BY <1>1 DEF Chain, U
  <2>4. Chain(s) <=> \A k \in 1 .. Len(s) : Fits(s[k], U(s, k))
    BY DEF Chain, U
  <2>5. ASSUME Chain(p) PROVE Fits(f, First(s)) /\ Chain(s)
    BY <1>1, <1>6, <1>7, <2>1, <2>2, <2>3, <2>4, <2>5
  <2>6. ASSUME Fits(f, First(s)), Chain(s), NEW k \in 1 .. Len(s) + 1 PROVE Fits(p[k], U(p, k))
    <3>1. CASE k = 1
      BY <1>1, <2>1, <2>6, <3>1
    <3>2. CASE k # 1
      <4>1. k - 1 \in 1 .. Len(s) /\ (k - 1) + 1 = k
        BY <1>5, <3>2
      <4>2. p[(k - 1) + 1] = s[k - 1] /\ U(p, (k - 1) + 1) = U(s, k - 1)
        BY <2>2, <4>1
      <4>3. Fits(s[k - 1], U(s, k - 1))
        BY <2>4, <2>6, <4>1
      <4> QED
        BY <4>1, <4>2, <4>3
    <3> QED
      BY <3>1, <3>2
  <2> QED
    BY <2>3, <2>5, <2>6
<1> QED
  BY <1>1, <1>3, <1>4, <1>9, <1>10, <1>11, <1>12 DEF p

LEMMA OfEmpty ==
    /\ <<>> \in Seq(Frames) /\ First(<<>>) = Base /\ Second(<<>>) = Base /\ Third(<<>>) = Base
    /\ Bottom(<<>>) = Base
    /\ ~Doomed(<<>>) /\ ~Telling(<<>>) /\ ~Tells(<<>>) /\ Chain(<<>>)
BY DEF First, Second, Third, Bottom, Has, Doomed, Telling, Tells, Chain

(* The innermost frame and what is below it. *)
On(s, f, t) ==
    /\ f \in Frames /\ t \in Seq(Frames) /\ s = Push(f, t) /\ s # <<>> /\ Head(s) = f /\ Tail(s) = t
    /\ First(s) = f /\ Second(s) = First(t) /\ Third(s) = Second(t)
    /\ First(t) \in Frames /\ Fits(f, First(t)) /\ Chain(t)
    /\ Bottom(s) = (IF t = <<>> THEN f ELSE Bottom(t))
    /\ t = <<>> <=> First(t).at = "base"
    /\ Doomed(s) <=> f.at = "fail" \/ Doomed(t)
    /\ Telling(s) <=> f.at \in {"connectFailed", "mDisconnected"} \/ Telling(t)
    /\ Tells(s) <=> f.at \in {"connectFailed", "mDisconnected", "disconnected", "error"} \/ Tells(t)

LEMMA TopAndBelow ==
    ASSUME NEW s \in Seq(Frames), Chain(s), s # <<>>
    PROVE  On(s, Head(s), Tail(s))
<1> DEFINE f == Head(s)
           t == Tail(s)
<1>1. f \in Frames /\ t \in Seq(Frames) /\ s = Push(f, t)
  BY Pushed
<1> HIDE DEF f, t
<1>2. /\ First(s) = f /\ Second(s) = First(t) /\ Third(s) = Second(t)
      /\ Bottom(s) = (IF t = <<>> THEN f ELSE Bottom(t))
      /\ Doomed(s) <=> f.at = "fail" \/ Doomed(t)
      /\ Telling(s) <=> f.at \in {"connectFailed", "mDisconnected"} \/ Telling(t)
      /\ Tells(s) <=> f.at \in {"connectFailed", "mDisconnected", "disconnected", "error"} \/ Tells(t)
      /\ Fits(f, First(t)) /\ Chain(t)
  BY <1>1, OfPush
<1>3. First(t) \in Frames /\ (t = <<>> <=> First(t).at = "base")
  <2>1. CASE t = <<>>
    BY <2>1, BaseIsFrame DEF First, Base, Frame
  <2>2. CASE t # <<>>
    <3>1. Head(t) \in Frames /\ Tail(t) \in Seq(Frames) /\ t = Push(Head(t), Tail(t))
      BY <1>1, <2>2, Pushed
    <3>2. Fits(Head(t), First(Tail(t)))
      <4>1. Chain(Push(Head(t), Tail(t))) <=> Fits(Head(t), First(Tail(t))) /\ Chain(Tail(t))
        BY <3>1, OfPush
      <4>2. Chain(Push(Head(t), Tail(t)))
        BY <1>2, <3>1
      <4> QED
        BY <4>1, <4>2, Zenon
    <3> QED
      BY <2>2, <3>1, <3>2 DEF First, Fits
  <2> QED
    BY <2>1, <2>2
<1> QED
  BY <1>1, <1>2, <1>3 DEF On, f, t

LEMMA OnPush ==
    ASSUME NEW f \in Frames, NEW t \in Seq(Frames), Chain(t), Fits(f, First(t))
    PROVE  On(Push(f, t), f, t) /\ Push(f, t) \in Seq(Frames) /\ Chain(Push(f, t))
<1>1. Push(f, t) \in Seq(Frames) /\ Push(f, t) # <<>> /\ Chain(Push(f, t))
  BY OfPush
<1>2. Head(Push(f, t)) = f /\ Tail(Push(f, t)) = t
  BY PushIs
<1> QED
  BY <1>1, <1>2, TopAndBelow
-----------------------------------------------------------------------------
(* The frame that writes, also when a slot of bytesWritten is above it.    *)
Notes  == {"bytesWritten", "mSendFinished"}
Cur(s) == IF First(s).at \in Notes THEN Second(s) ELSE First(s)
Nxt(s) == IF First(s).at \in Notes THEN Third(s) ELSE Second(s)

Linked == stack \in Seq(Frames) /\ Chain(stack)

OutTypes ==
    /\ mWriteBuffer \in Seq(Octets) /\ mWriteOffset \in Nat /\ mWriteOffset <= Len(mWriteBuffer)
    /\ accepted \in Seq(Octets) /\ drained \in Nat /\ sent \in Seq(Octets)
    /\ mPendingWrite \in Int /\ sends \in Nat

InTypes ==
    /\ plan \in Seq(Kinds) /\ toCome \in Seq(Octets) /\ incoming \in Seq(Octets)
    /\ mReadBuffer \in Seq(Octets) /\ mBuffers \in Seq(Octets)
    /\ mPendingRead \in Nat /\ parsed \in Seq(Nat)

(* What the loops around ::write and ::read count. *)
Counts ==
    /\ Cur(stack).at = "flush" =>
          Cur(stack).goal = Len(mWriteBuffer) - mWriteOffset /\ Cur(stack).total <= Cur(stack).goal
    /\ Cur(stack).at = "direct" => mWriteBuffer = <<>>
    /\ Cur(stack).at \in {"direct", "store"} => Cur(stack).total <= Len(Cur(stack).data)
    /\ First(stack).at = "read" => Len(mReadBuffer) = First(stack).total

(* Nothing has happened before connect. *)
Fresh ==
    peer = "none" =>
        /\ stack = <<>> /\ ~mSocketClient /\ ~mTimeoutTimer /\ ~mCheckTimer
        /\ ~Open /\ mSocketState = "Disconnected" /\ ~mWriteWait
        /\ sent = <<>> /\ accepted = <<>> /\ mWriteBuffer = <<>> /\ mPendingWrite = 0
        /\ incoming = <<>>

(* A socket whose loss is being told of, and which is open, is going to be *)
(* closed.                                                                 *)
Reports == Open /\ Telling(stack) => Doomed(stack)

(* What is still to be written, by the buffer, the frame that writes and   *)
(* the send that called it.                                                *)
Failing    == {"error", "mError", "mDisconnected", "fail"}
Skip(c)    == IF c.at = "flush" THEN c.total ELSE 0
Left(c)    == IF c.at \in {"direct", "store"} THEN SubSeq(c.data, c.total + 1, Len(c.data))
              ELSE IF c.at \in {"writeTo", "flush", "flushed", "send"} THEN c.data ELSE <<>>
More(c, n) == IF c.at \in Writing /\ n.at = "send" THEN n.data ELSE <<>>

PendingOf(buffer, offset, left, more) ==
    (SubSeq(buffer, offset + 1, Len(buffer)) \o left) \o more

Pending ==
    PendingOf(mWriteBuffer, mWriteOffset + Skip(Cur(stack)), Left(Cur(stack)),
              More(Cur(stack), Nxt(stack)))

Untold(f) == IF f.at = "bytesWritten" THEN f.total ELSE 0

Books ==
    /\ IsPrefix(accepted, sent)
    /\ Open /\ First(stack).at \notin Failing =>
          accepted \o Pending = sent /\ mPendingWrite = Len(Pending) + Untold(First(stack))
    /\ First(stack).at = "bytesWritten" => Open
    /\ First(stack).at = "mSendFinished" => accepted = sent
    /\ First(stack).at = "send" /\ Open => ret
    /\ ~attached => sent = <<>>

(* Whoever loses the connection hears of it, or knows. *)
Losses == attached /\ peer # "none" /\ (~Open \/ Doomed(stack)) => quiet \/ told \/ Tells(stack)

(* The rest of this callback writes what there is to be written. *)
Comes(f) == f.at = "fail" \/ (f.at \in {"read", "readDone", "writable"} /\ "Write" \in f.mode)

Armed ==
    Open =>
        /\ mWriteWait => interest \in {"readwrite", "disarmed"}
        /\ ~mWriteWait => interest = "read"
        /\ interest = "disarmed" => Bottom(stack).at \in {"read", "readDone", "fail"}
        /\ ~mWriteWait /\ mSocketState = "Connecting" => Comes(Bottom(stack))
        /\ ~mWriteWait /\ mWriteOffset < Len(mWriteBuffer) =>
              Comes(Bottom(stack)) \/ Bottom(stack).at \in {"writeTo", "flush"}
        /\ Cur(stack).at = "flushed" /\ mWriteBuffer # <<>> => mWriteWait
        /\ Cur(stack).at = "store" => mWriteWait
        /\ interest = "readwrite" /\ Writable => queued
        /\ interest \in {"read", "readwrite"} /\ Readable =>
              queued \/ Bottom(stack).at \in {"read", "fail", "connectFailed"}

Inv ==
    /\ Linked /\ OutTypes /\ InTypes /\ Counts /\ Fresh /\ Reports
    /\ Books /\ Losses /\ Armed
-----------------------------------------------------------------------------
(* What is still to be written, as a sequence. *)

LEMMA PrefixOfConcat ==
    ASSUME NEW a \in Seq(Octets), NEW b \in Seq(Octets)
    PROVE  IsPrefix(a, a \o b)
<1>1. Len(a) \in Nat /\ Len(b) \in Nat /\ Len(a \o b) = Len(a) + Len(b) /\ a \o b \in Seq(Octets)
      /\ \A i \in 1 .. Len(a) : (a \o b)[i] = a[i]
  BY ConcatProperties
<1> DEFINE c == a \o b
           l == SubSeq(a, 1, Len(a))
           r == SubSeq(c, 1, Len(a))
<1>2. l \in Seq(Octets) /\ Len(l) = Len(a) /\ \A i \in 1 .. Len(a) : l[i] = a[i]
  OBVIOUS
<1>3. c \in Seq(Octets) /\ Len(a) <= Len(c) /\ \A i \in 1 .. Len(a) : c[i] = a[i]
  BY <1>1
<1> HIDE DEF c
<1>4. r \in Seq(Octets) /\ Len(r) = Len(a) /\ \A i \in 1 .. Len(a) : r[i] = c[i]
  BY <1>1, <1>3, SubSeqProperties
<1> HIDE DEF l, r
<1>5. l = r
  BY <1>2, <1>3, <1>4, SeqEqual
<1> QED
  BY <1>3, <1>5 DEF IsPrefix, c, l, r

LEMMA PendingIs ==
    ASSUME NEW s \in Seq(Octets), NEW k \in 0 .. Len(s), NEW l \in Seq(Octets), NEW m \in Seq(Octets)
    PROVE  /\ PendingOf(s, k, l, m) \in Seq(Octets)
           /\ Len(PendingOf(s, k, l, m)) = (Len(s) - k) + Len(l) + Len(m)
<1> DEFINE d == SubSeq(s, k + 1, Len(s))
<1>1. d \in Seq(Octets) /\ Len(d) = Len(s) - k
  BY DropIs
<1> HIDE DEF d
<1>2. d \o l \in Seq(Octets) /\ Len(d \o l) = Len(d) + Len(l)
  BY <1>1, ConcatProperties
<1>3. (d \o l) \o m \in Seq(Octets) /\ Len((d \o l) \o m) = Len(d \o l) + Len(m)
  BY <1>2, ConcatProperties
<1> QED
  BY <1>1, <1>2, <1>3 DEF PendingOf, d

LEMMA DirectPendingIs ==
    ASSUME NEW l \in Seq(Octets), NEW m \in Seq(Octets)
    PROVE  PendingOf(<<>>, 0, l, m) \in Seq(Octets) /\ Len(PendingOf(<<>>, 0, l, m)) = Len(l) + Len(m)
<1>1. <<>> \in Seq(Octets) /\ Len(<<>>) = 0 /\ 0 \in 0 .. Len(<<>>)
  OBVIOUS
<1> DEFINE s == <<>>
           k == 0
<1>2. s \in Seq(Octets) /\ k \in 0 .. Len(s) /\ Len(s) - k = 0
  BY <1>1
<1> HIDE DEF s, k
<1>3. PendingOf(s, k, l, m) \in Seq(Octets) /\ Len(PendingOf(s, k, l, m)) = (Len(s) - k) + Len(l) + Len(m)
  BY <1>2, PendingIs
<1>4. Len(l) \in Nat /\ Len(m) \in Nat
  OBVIOUS
<1> QED
  BY <1>2, <1>3, <1>4 DEF s, k

(* A sequence in three. *)
LEMMA CutInTwo ==
    ASSUME NEW s \in Seq(Octets), NEW k \in 0 .. Len(s), NEW e \in 0 .. Len(s) - k
    PROVE  /\ SubSeq(s, k + 1, k + e) \in Seq(Octets) /\ Len(SubSeq(s, k + 1, k + e)) = e
           /\ SubSeq(s, k + e + 1, Len(s)) \in Seq(Octets)
           /\ SubSeq(s, k + 1, Len(s)) = SubSeq(s, k + 1, k + e) \o SubSeq(s, k + e + 1, Len(s))
<1> DEFINE d == SubSeq(s, k + 1, Len(s))
           a == SubSeq(d, 1, e)
           b == SubSeq(s, k + 1, k + e)
           c == SubSeq(s, k + e + 1, Len(s))
<1>1. d = a \o c
  BY DropInTwo
<1>2. d \in Seq(Octets) /\ Len(d) = Len(s) - k /\ \A i \in 1 .. Len(s) - k : d[i] = s[k + i]
  BY DropIs
<1>3. b \in Seq(Octets) /\ Len(b) = e /\ \A i \in 1 .. e : b[i] = s[k + i]
  BY SubSeqProperties
<1>4. k + e \in 0 .. Len(s)
  OBVIOUS
<1>5. c \in Seq(Octets)
  BY <1>4, DropIs
<1> HIDE DEF d
<1>6. a \in Seq(Octets) /\ Len(a) = e /\ \A i \in 1 .. e : a[i] = d[i]
  BY <1>2, SubSeqProperties
<1> HIDE DEF a, b, c
<1>7. a = b
  <2>1. ASSUME NEW i \in 1 .. e PROVE a[i] = b[i]
    <3>1. i \in 1 .. Len(s) - k
      OBVIOUS
    <3>2. d[i] = s[k + i]
      BY <1>2, <3>1
    <3> QED
      BY <1>3, <1>6, <3>2
  <2> QED
    BY <1>3, <1>6, <2>1, SeqEqual
<1> QED
  BY <1>1, <1>3, <1>5, <1>7 DEF b, c, d

(* ::write takes bytes of the buffer, *)
Taken(x, s, k, e, l, m) ==
    (x \o SubSeq(s, k + 1, k + e)) \o PendingOf(s, k + e, l, m) = x \o PendingOf(s, k, l, m)

LEMMA TakenFromBuffer ==
    ASSUME NEW x \in Seq(Octets), NEW s \in Seq(Octets), NEW k \in 0 .. Len(s), NEW e \in 0 .. Len(s) - k,
           NEW l \in Seq(Octets), NEW m \in Seq(Octets)
    PROVE  Taken(x, s, k, e, l, m)
<1> DEFINE b == SubSeq(s, k + 1, k + e)
           c == SubSeq(s, k + e + 1, Len(s))
           d == SubSeq(s, k + 1, Len(s))
           p == (c \o l) \o m
           q == c \o l
<1>1. b \in Seq(Octets) /\ c \in Seq(Octets) /\ d = b \o c
  BY CutInTwo
<1>2. PendingOf(s, k, l, m) = (d \o l) \o m /\ PendingOf(s, k + e, l, m) = p
  BY DEF PendingOf
<1> HIDE DEF b, c, d
<1>3. q \in Seq(Octets)
  BY <1>1, ConcatProperties
<1>4. (b \o c) \o l = b \o q
  <2>1. b \in Seq(Octets) /\ c \in Seq(Octets) /\ l \in Seq(Octets)
    BY <1>1
  <2>2. Associates(b, c, l)
    BY <2>1, ConcatAssociates
  <2> QED
    BY <2>2 DEF Associates
<1> HIDE DEF q
<1>5. (b \o q) \o m = b \o (q \o m)
  <2>1. b \in Seq(Octets) /\ q \in Seq(Octets) /\ m \in Seq(Octets)
    BY <1>1, <1>3
  <2>2. Associates(b, q, m)
    BY <2>1, ConcatAssociates
  <2> QED
    BY <2>2 DEF Associates
<1>6. p = q \o m /\ p \in Seq(Octets)
  BY <1>3, ConcatProperties DEF q
<1> HIDE DEF p
<1>7. (x \o b) \o p = x \o (b \o p)
  <2>1. x \in Seq(Octets) /\ b \in Seq(Octets) /\ p \in Seq(Octets)
    BY <1>1, <1>6
  <2>2. Associates(x, b, p)
    BY <2>1, ConcatAssociates
  <2> QED
    BY <2>2 DEF Associates
<1> QED
  BY <1>1, <1>2, <1>4, <1>5, <1>6, <1>7 DEF b, Taken

(* or, the buffer being empty, of the data. *)
LEMMA TakenFromData ==
    ASSUME NEW x \in Seq(Octets), NEW s \in Seq(Octets), NEW k \in 0 .. Len(s), NEW e \in 0 .. Len(s) - k,
           NEW m \in Seq(Octets)
    PROVE  (x \o SubSeq(s, k + 1, k + e)) \o PendingOf(<<>>, 0, SubSeq(s, k + e + 1, Len(s)), m)
              = x \o PendingOf(<<>>, 0, SubSeq(s, k + 1, Len(s)), m)
<1> DEFINE b == SubSeq(s, k + 1, k + e)
           c == SubSeq(s, k + e + 1, Len(s))
           d == SubSeq(s, k + 1, Len(s))
           p == c \o m
<1>1. b \in Seq(Octets) /\ c \in Seq(Octets) /\ d = b \o c
  BY CutInTwo
<1>2. b \o c \in Seq(Octets)
  BY <1>1, ConcatProperties
<1>3. \A y \in Seq(Octets) : PendingOf(<<>>, 0, y, m) = y \o m
  <2>1. SubSeq(<<>>, 0 + 1, Len(<<>>)) = <<>>
    OBVIOUS
  <2>2. \A y \in Seq(Octets) : <<>> \o y = y
    BY ConcatEmptySeq
  <2> QED
    BY <2>1, <2>2 DEF PendingOf
<1> HIDE DEF b, c, d
<1>4. PendingOf(<<>>, 0, c, m) = p /\ PendingOf(<<>>, 0, d, m) = (b \o c) \o m
  BY <1>1, <1>2, <1>3
<1>5. (b \o c) \o m = b \o p
  <2>1. b \in Seq(Octets) /\ c \in Seq(Octets) /\ m \in Seq(Octets)
    BY <1>1
  <2>2. Associates(b, c, m)
    BY <2>1, ConcatAssociates
  <2> QED
    BY <2>2 DEF Associates
<1>6. p \in Seq(Octets)
  BY <1>1, ConcatProperties
<1> HIDE DEF p
<1>7. (x \o b) \o p = x \o (b \o p)
  <2>1. x \in Seq(Octets) /\ b \in Seq(Octets) /\ p \in Seq(Octets)
    BY <1>1, <1>6
  <2>2. Associates(x, b, p)
    BY <2>1, ConcatAssociates
  <2> QED
    BY <2>2 DEF Associates
<1> QED
  BY <1>4, <1>5, <1>7 DEF b, c, d

(* What is stored is behind what is in the buffer. *)
LEMMA StoredPending ==
    ASSUME NEW s \in Seq(Octets), NEW k \in 0 .. Len(s), NEW l \in Seq(Octets), NEW m \in Seq(Octets)
    PROVE  PendingOf(s \o l, k, m, <<>>) = PendingOf(s, k, l, m)
<1> DEFINE d == SubSeq(s, k + 1, Len(s))
<1>1. SubSeq(s \o l, k + 1, Len(s \o l)) = d \o l
  BY DropFromConcat
<1>2. d \in Seq(Octets)
  BY DropIs
<1> HIDE DEF d
<1>3. d \o l \in Seq(Octets)
  BY <1>2, ConcatProperties
<1>4. (d \o l) \o m \in Seq(Octets)
  BY <1>3, ConcatProperties
<1>5. ((d \o l) \o m) \o <<>> = (d \o l) \o m
  BY <1>4, ConcatEmptySeq
<1> QED
  BY <1>1, <1>5 DEF PendingOf, d

(* A frame that has nothing left returns to its caller. *)
LEMMA ReturnedPending ==
    ASSUME NEW s \in Seq(Octets), NEW k \in 0 .. Len(s), NEW m \in Seq(Octets)
    PROVE  PendingOf(s, k, m, <<>>) = PendingOf(s, k, <<>>, m)
<1> DEFINE d == SubSeq(s, k + 1, Len(s))
<1>1. d \in Seq(Octets)
  BY DropIs
<1> HIDE DEF d
<1>2. d \o m \in Seq(Octets)
  BY <1>1, ConcatProperties
<1>3. (d \o m) \o <<>> = d \o m /\ d \o <<>> = d
  BY <1>1, <1>2, ConcatEmptySeq
<1> QED
  BY <1>3 DEF PendingOf, d

(* A buffer that is written is empty. *)
LEMMA EmptiedPending ==
    ASSUME NEW s \in Seq(Octets), NEW l, NEW m
    PROVE  PendingOf(s, Len(s), l, m) = PendingOf(<<>>, 0, l, m)
<1>1. SubSeq(s, Len(s) + 1, Len(s)) = <<>>
  BY Len(s) \in Nat, EmptySeq
<1>2. SubSeq(<<>>, 0 + 1, Len(<<>>)) = <<>>
  OBVIOUS
<1> QED
  BY <1>1, <1>2 DEF PendingOf

(* A message that is sent is behind everything else. *)
Joins(x, s, k, l, m) ==
    (x \o PendingOf(s, k, <<>>, <<>>)) \o (l \o m) = x \o PendingOf(s, k, l, m)

LEMMA SentPending ==
    ASSUME NEW x \in Seq(Octets), NEW s \in Seq(Octets), NEW k \in 0 .. Len(s),
           NEW l \in Seq(Octets), NEW m \in Seq(Octets)
    PROVE  Joins(x, s, k, l, m)
<1> DEFINE d == SubSeq(s, k + 1, Len(s))
           p == l \o m
<1>1. d \in Seq(Octets)
  BY DropIs
<1>2. p \in Seq(Octets)
  BY ConcatProperties
<1>3. PendingOf(s, k, l, m) = (d \o l) \o m /\ PendingOf(s, k, <<>>, <<>>) = (d \o <<>>) \o <<>>
  BY DEF PendingOf
<1> HIDE DEF d
<1>4. (d \o <<>>) \o <<>> = d
  BY <1>1, ConcatEmptySeq
<1>5. (d \o l) \o m = d \o p
  <2>1. d \in Seq(Octets) /\ l \in Seq(Octets) /\ m \in Seq(Octets)
    BY <1>1
  <2>2. Associates(d, l, m)
    BY <2>1, ConcatAssociates
  <2> QED
    BY <2>2 DEF Associates
<1> HIDE DEF p
<1>6. (x \o d) \o p = x \o (d \o p)
  <2>1. x \in Seq(Octets) /\ d \in Seq(Octets) /\ p \in Seq(Octets)
    BY <1>1, <1>2
  <2>2. Associates(x, d, p)
    BY <2>1, ConcatAssociates
  <2> QED
    BY <2>2 DEF Associates
<1> QED
  BY <1>3, <1>4, <1>5, <1>6 DEF p, Joins
-----------------------------------------------------------------------------
USE DEF outVars, linkVars, pollVars, kernelVars, connVars, timerVars, inVars, sendVars, peerVars, toldVars, Open

(* Within a call. *)
LEMMA Inside ==
    ASSUME Inv, NEW p, At(p)
    PROVE  On(stack, Top, Below) /\ Top.at = p
BY TopAndBelow DEF Inv, Linked, At, Top, Below

(* Nothing is written and nothing sent. *)
LEMMA BooksKept ==
    ASSUME Books, Open' => Open,
           UNCHANGED <<mWriteBuffer, accepted, sent, mPendingWrite>>,
           Open' /\ First(stack').at \notin Failing =>
              /\ First(stack).at \notin Failing
              /\ Untold(First(stack')) = Untold(First(stack))
              /\ mWriteOffset' + Skip(Cur(stack')) = mWriteOffset + Skip(Cur(stack))
              /\ Left(Cur(stack')) = Left(Cur(stack))
              /\ More(Cur(stack'), Nxt(stack')) = More(Cur(stack), Nxt(stack)),
           First(stack').at \notin Notes,
           First(stack').at = "send" /\ Open' => ret',
           attached => attached'
    PROVE  Books'
<1>1. Open' /\ First(stack').at \notin Failing => Pending' = Pending
  BY DEF Pending
<1> QED
  BY <1>1 DEF Books, Notes

LEMMA WriteToKeeps ==
    ASSUME Inv, WriteTo, UNCHANGED connVars
    PROVE  Inv'
<1> DEFINE f == Top
           t == Below
           n == [Top EXCEPT !.at = IF mWriteWait THEN "store"
                                   ELSE IF mWriteBuffer # <<>> THEN "flush" ELSE "flushed",
                            !.goal = Len(Unwritten)]
<1>1. On(stack, f, t) /\ f.at = "writeTo"
  BY Inside DEF WriteTo
<1>2. Len(Unwritten) = Len(mWriteBuffer) - mWriteOffset /\ Len(Unwritten) \in Nat
  BY DropIs DEF Inv, OutTypes, Unwritten
<1>3. f \in Frames /\ f.total = 0
  BY <1>1 DEF On, Fits
<1>0. Len(f.data) \in Nat
  BY <1>3 DEF Frames
<1>4. n \in Frames
  BY <1>2, <1>3 DEF Frames, Places
<1>5. n.at = (IF mWriteWait THEN "store" ELSE IF mWriteBuffer # <<>> THEN "flush" ELSE "flushed")
      /\ n.goal = Len(mWriteBuffer) - mWriteOffset /\ n.data = f.data /\ n.total = 0 /\ n.mode = f.mode
  BY <1>2, <1>3 DEF Frames
<1>6. stack' = Push(n, t)
  BY DEF WriteTo, Goto, Push
<1>7. UNCHANGED <<outVars, linkVars, pollVars, kernelVars, mReadBuffer, attached, ret, connVars>>
  BY DEF WriteTo
<1> HIDE DEF n, f, t
<1>8. On(stack', n, t) /\ Linked'
  BY <1>1, <1>4, <1>5, <1>6, OnPush DEF On, Fits, Linked, Writing
<1>9. Cur(stack) = f /\ Cur(stack') = n /\ Nxt(stack) = First(t) /\ Nxt(stack') = First(t)
      /\ First(stack) = f /\ First(stack') = n
  BY <1>1, <1>5, <1>8 DEF On, Cur, Nxt, Notes
<1>10. OutTypes' /\ InTypes' /\ Fresh' /\ Reports' /\ Losses'
  BY <1>1, <1>5, <1>7, <1>8 DEF Inv, OutTypes, InTypes, Fresh, Reports, Losses, On
<1>11. Counts'
  BY <1>0, <1>1, <1>5, <1>7, <1>9 DEF Inv, Counts, OutTypes, On
<1>12. Books'
  <2>1. Left(n) = Left(f)
    BY <1>1, <1>3, <1>5 DEF Left, Frames
  <2> QED
    BY <1>1, <1>5, <1>7, <1>9, <2>1, BooksKept DEF Inv, Skip, More, Writing, Untold, Failing, Notes
<1>13. Armed'
  BY <1>1, <1>5, <1>7, <1>8, <1>9
     DEF Inv, Armed, On, Comes, OutTypes, Writable, Readable, Room
<1> QED
  BY <1>8, <1>10, <1>11, <1>12, <1>13 DEF Inv

LEMMA FrameIs ==
    ASSUME NEW p \in Places
    PROVE  /\ Frame(p) \in Frames /\ Frame(p).at = p /\ Frame(p).data = <<>>
           /\ Frame(p).total = 0 /\ Frame(p).goal = 0 /\ Frame(p).mode = {}
<1>1. <<>> \in Seq(Octets)
  BY EmptySeq
<1> QED
  BY <1>1 DEF Frame, Frames

(* Signals push frames if slots are connected to them. *)
LEMMA EmitOn ==
    ASSUME NEW f \in Frames, NEW g \in Frames, NEW s \in Seq(Frames)
    PROVE  (Emit(f) \o <<g>>) \o s = IF attached THEN Push(f, Push(g, s)) ELSE Push(g, s)
<1>1. (<<f>> \o <<g>>) \o s = Push(f, Push(g, s)) /\ (<<>> \o <<g>>) \o s = Push(g, s)
  <2>1. PushesOf(f, g, f, s)
    BY PushForms
  <2> QED
    BY <2>1 DEF PushesOf
<1> QED
  BY <1>1 DEF Emit

EmitsTwo(b, f, g, h, s) ==
    (((IF b THEN Emit(f) ELSE <<>>) \o Emit(g)) \o <<h>>) \o s
      = IF attached THEN (IF b THEN Push(f, Push(g, Push(h, s))) ELSE Push(g, Push(h, s)))
        ELSE Push(h, s)

LEMMA EmitTwoOn ==
    ASSUME NEW f \in Frames, NEW g \in Frames, NEW h \in Frames, NEW s \in Seq(Frames), NEW b
    PROVE  EmitsTwo(b, f, g, h, s)
<1>1. PushesOf(f, g, h, s)
  BY PushForms
<1> QED
  BY <1>1 DEF PushesOf, Emit, EmitsTwo

(* In one of the loops around ::write. *)
LEMMA Looping ==
    ASSUME Inv, InLoop
    PROVE  /\ On(stack, Top, Below) /\ Top.at \in {"flush", "direct"} /\ Top.total < Goal
           /\ Cur(stack) = Top /\ Nxt(stack) = First(Below) /\ First(stack) = Top
           /\ Top.at = "flush" => Goal = Top.goal
           /\ Top.at = "direct" => Goal = Len(Top.data)
<1>1. On(stack, Top, Below)
  BY TopAndBelow DEF Inv, Linked, InLoop, Top, Below
<1> QED
  BY <1>1 DEF InLoop, Loops, Goal, On, Cur, Nxt, Notes

LEMMA BlockedKeeps ==
    ASSUME Inv, Blocked, UNCHANGED connVars
    PROVE  Inv'
<1> DEFINE f == Top
           t == Below
           n == [Top EXCEPT !.at = IF Top.at = "flush" THEN "flushed" ELSE "store"]
<1>1. On(stack, f, t) /\ f.at \in {"flush", "direct"} /\ Cur(stack) = f /\ Nxt(stack) = First(t) /\ First(stack) = f
  BY Looping DEF Blocked
<1>2. f \in Frames /\ f.total \in Nat
  BY <1>1 DEF On, Frames
<1>3. n \in Frames /\ n.at = (IF f.at = "flush" THEN "flushed" ELSE "store")
      /\ n.data = f.data /\ n.total = f.total /\ n.mode = f.mode
  BY <1>2 DEF Frames, Places
<1>4. stack' = Push(n, t)
  BY DEF Blocked, Goto, Push
<1>5. /\ mWriteBuffer' = mWriteBuffer
      /\ f.at = "flush" => mWriteOffset' = mWriteOffset + f.total /\ f.total < f.goal
      /\ f.at = "direct" => mWriteOffset' = mWriteOffset
  BY <1>1, Looping DEF Blocked, Settle
<1>6. /\ mWriteWait' = TRUE /\ interest' = "readwrite" /\ queued' = (Ready("readwrite") # {})
      /\ UNCHANGED <<linkVars, kernelVars, mReadBuffer, attached, ret, connVars>>
  BY DEF Blocked, Arm
<1> HIDE DEF n, f, t
<1>7. On(stack', n, t) /\ Linked'
  BY <1>1, <1>3, <1>4, OnPush DEF On, Fits, Linked, Writing
<1>8. Cur(stack') = n /\ Nxt(stack') = First(t) /\ First(stack') = n
  BY <1>3, <1>7 DEF On, Cur, Nxt, Notes
<1>0. f.at = "flush" => f.goal = Len(mWriteBuffer) - mWriteOffset
  BY <1>1 DEF Inv, Counts
<1>9. OutTypes' /\ InTypes' /\ Fresh' /\ Reports' /\ Losses'
  <2>1. OutTypes'
    BY <1>0, <1>1, <1>2, <1>5, <1>6 DEF Inv, OutTypes
  <2> QED
    BY <1>1, <1>3, <1>5, <1>6, <1>7, <2>1 DEF Inv, InTypes, Fresh, Reports, Losses, On
<1>10. Counts'
  BY <1>1, <1>3, <1>5, <1>6, <1>8 DEF Inv, Counts
<1>11. Books'
  <2>1. Left(n) = Left(f) /\ mWriteOffset' + Skip(n) = mWriteOffset + Skip(f)
    BY <1>1, <1>2, <1>3, <1>5 DEF Left, Skip, Inv, OutTypes
  <2> QED
    BY <1>1, <1>3, <1>5, <1>6, <1>8, <2>1, BooksKept DEF Inv, More, Writing, Untold, Failing, Notes
<1>12. Armed'
  <2>1. Writable \/ Readable => Ready("readwrite") # {}
    BY DEF Ready
  <2> QED
    BY <1>3, <1>6, <1>8, <2>1 DEF Armed, Writable, Readable, Room
<1> QED
  BY <1>7, <1>9, <1>10, <1>11, <1>12 DEF Inv

LEMMA WriteFailedKeeps ==
    ASSUME Inv, WriteFailed, UNCHANGED connVars
    PROVE  Inv'
<1> DEFINE f == Top
           t == Below
           n == Frame("fail")
           e == Frame("error")
           u == Push(n, t)
<1>1. On(stack, f, t) /\ f.at \in {"flush", "direct"} /\ Cur(stack) = f /\ First(stack) = f
  BY Looping DEF WriteFailed
<1>2. t \in Seq(Frames) /\ n \in Frames /\ n.at = "fail" /\ e \in Frames /\ e.at = "error"
  BY <1>1, FrameIs DEF On, Places
<1>3. stack' = IF attached THEN Push(e, u) ELSE u
  BY <1>2, EmitOn DEF WriteFailed
<1>4. UNCHANGED <<outVars, linkVars, pollVars, kernelVars, mReadBuffer, attached, ret, connVars>>
  BY DEF WriteFailed
<1> HIDE DEF n, e, f, t
<1>5. On(u, n, t) /\ u \in Seq(Frames) /\ Chain(u)
  BY <1>1, <1>2, OnPush DEF On, Fits, Writing
<1> HIDE DEF u
<1>6. On(Push(e, u), e, u) /\ Push(e, u) \in Seq(Frames) /\ Chain(Push(e, u))
  BY <1>2, <1>5, OnPush DEF On, Fits, Writing, Senders
<1>7. /\ Linked' /\ First(stack').at \in {"error", "fail"} /\ Cur(stack') = First(stack')
      /\ Bottom(stack') = Bottom(u) /\ Doomed(stack') /\ (attached => Tells(stack'))
      /\ Telling(stack') => Telling(stack)
  BY <1>1, <1>2, <1>3, <1>5, <1>6 DEF On, Linked, Cur, Notes
<1>8. OutTypes' /\ InTypes' /\ Fresh' /\ Reports' /\ Losses' /\ Counts'
  BY <1>1, <1>4, <1>7 DEF Inv, OutTypes, InTypes, Fresh, Reports, Losses, Counts, On
<1>9. Books'
  BY <1>4, <1>7, BooksKept DEF Inv, Failing, Notes
<1>10. Armed'
  <2>1. Bottom(u) = IF t = <<>> THEN n ELSE Bottom(stack)
    BY <1>1, <1>5 DEF On
  <2>2. t = <<>> => Bottom(stack).at \in {"flush", "direct"}
    BY <1>1 DEF On
  <2> QED
    BY <1>2, <1>4, <1>7, <2>1, <2>2 DEF Inv, Armed, Comes, Writable, Readable, Room
<1> QED
  BY <1>7, <1>8, <1>9, <1>10 DEF Inv

LEMMA FailKeeps ==
    ASSUME Inv, Fail, UNCHANGED connVars
    PROVE  Inv'
<1> DEFINE f == Top
           t == Below
<1>1. On(stack, f, t) /\ f.at = "fail"
  BY Inside DEF Fail
<1>2. stack' = t /\ mFd' = NoFd /\ UNCHANGED <<outVars, kernelVars, mReadBuffer, attached, connVars>>
  BY DEF Fail, Return, Close
<1> HIDE DEF f, t
<1>3. First(t).at \in Senders \cup {"send", "connectFailed"} /\ Cur(t) = First(t)
  BY <1>1 DEF On, Fits, Cur, Notes, Senders
<1>4. Linked' /\ OutTypes' /\ InTypes' /\ Fresh' /\ Reports' /\ Losses' /\ Counts' /\ Armed'
  BY <1>1, <1>2, <1>3
     DEF Inv, Linked, OutTypes, InTypes, Fresh, Reports, Losses, Counts, Armed, On, Senders
<1>5. Books'
  BY <1>2, <1>3, BooksKept DEF Inv, Notes, Senders
<1> QED
  BY <1>4, <1>5 DEF Inv

LEMMA FlushEndKeeps ==
    ASSUME Inv, FlushEnd, UNCHANGED connVars
    PROVE  Inv'
<1> DEFINE f == Top
           t == Below
           n == [Top EXCEPT !.at = "flushed"]
<1>1. On(stack, f, t) /\ f.at = "flush"
  BY Inside DEF FlushEnd
<1>2. f \in Frames /\ f.total \in Nat /\ f.goal \in Nat
  BY <1>1 DEF On, Frames
<1>3. Cur(stack) = f /\ Nxt(stack) = First(t) /\ First(stack) = f
  BY <1>1 DEF On, Cur, Nxt, Notes
<1>4. f.total = f.goal /\ f.goal = Len(mWriteBuffer) - mWriteOffset
  <2>1. f.total <= f.goal /\ f.goal = Len(mWriteBuffer) - mWriteOffset
    BY <1>1, <1>3 DEF Inv, Counts
  <2>2. ~(f.total < f.goal)
    BY <1>1 DEF FlushEnd, InLoop, Loops, Goal, On
  <2> QED
    BY <1>2, <2>1, <2>2
<1>5. n \in Frames /\ n.at = "flushed" /\ n.data = f.data /\ n.mode = f.mode
  BY <1>2 DEF Frames, Places
<1>6. stack' = Push(n, t)
  BY DEF FlushEnd, Goto, Push
<1>7. mWriteBuffer' = <<>> /\ mWriteOffset' = 0
  BY <1>2, <1>4 DEF FlushEnd, Settle
<1>8. UNCHANGED <<mWriteWait, linkVars, pollVars, kernelVars, mReadBuffer, attached, ret, connVars>>
  BY DEF FlushEnd
<1> HIDE DEF n, f, t
<1>9. On(stack', n, t) /\ Linked'
  BY <1>1, <1>5, <1>6, OnPush DEF On, Fits, Linked, Writing
<1>10. Cur(stack') = n /\ Nxt(stack') = First(t) /\ First(stack') = n
  BY <1>5, <1>9 DEF On, Cur, Nxt, Notes
<1>11. OutTypes' /\ InTypes' /\ Fresh' /\ Reports' /\ Losses' /\ Counts'
  BY <1>1, <1>5, <1>7, <1>8, <1>9, <1>10 DEF Inv, OutTypes, InTypes, Fresh, Reports, Losses, Counts, On
<1>12. Books'
  <2>1. mWriteOffset + Skip(f) = Len(mWriteBuffer) /\ mWriteOffset' + Skip(n) = 0
    BY <1>1, <1>4, <1>5, <1>7 DEF Skip, Inv, OutTypes
  <2>2. Left(n) = Left(f) /\ More(n, First(t)) = More(f, First(t)) /\ Untold(n) = Untold(f)
    BY <1>1, <1>5 DEF Left, More, Writing, Untold
  <2>3. PendingOf(mWriteBuffer, Len(mWriteBuffer), Left(f), More(f, First(t)))
          = PendingOf(<<>>, 0, Left(f), More(f, First(t)))
    BY EmptiedPending DEF Inv, OutTypes
  <2>4. Pending' = Pending
    BY <1>3, <1>7, <1>10, <2>1, <2>2, <2>3 DEF Pending
  <2> QED
    BY <1>1, <1>3, <1>5, <1>8, <1>10, <2>2, <2>4 DEF Inv, Books, Failing
<1>13. Armed'
  BY <1>1, <1>5, <1>7, <1>8, <1>9, <1>10 DEF Inv, Armed, On, Comes, Writable, Readable, Room
<1> QED
  BY <1>9, <1>11, <1>12, <1>13 DEF Inv

(* What a call of writeTo returns to. *)
LEMMA CallerOfWrite ==
    ASSUME NEW s, NEW f, NEW t, On(s, f, t), f.at \in Writing
    PROVE  /\ Cur(s) = f /\ Nxt(s) = First(t) /\ Cur(t) = First(t) /\ Nxt(t) = Second(t)
           /\ First(t).at \in Senders \cup {"send"}
           /\ Skip(First(t)) = 0 /\ Left(First(t)) = More(f, First(t)) /\ More(First(t), Second(t)) = <<>>
           /\ Untold(f) = 0 /\ Untold(First(t)) = 0
           /\ More(f, First(t)) \in Seq(Octets)
           /\ Comes(f) <=> FALSE
<1>1. First(t).at \in Senders \cup {"send"} /\ First(t) \in Frames
  BY DEF On, Fits
<1>2. More(f, First(t)) \in Seq(Octets)
  BY <1>1, EmptySeq DEF More, Frames
<1> QED
  BY <1>1, <1>2 DEF On, Writing, Senders, Cur, Nxt, Notes, Skip, Left, More, Untold, Comes

LEMMA FlushedKeeps ==
    ASSUME Inv, Flushed, UNCHANGED connVars
    PROVE  Inv'
<1> DEFINE f == Top
           t == Below
           n == [Top EXCEPT !.total = 0, !.at = IF mWriteBuffer = <<>> THEN "direct" ELSE "store"]
<1>1. On(stack, f, t) /\ f.at = "flushed"
  BY Inside DEF Flushed
<1>2. f \in Frames /\ Len(f.data) \in Nat /\ f.data \in Seq(Octets)
  BY <1>1 DEF On, Frames
<1>3. /\ Cur(stack) = f /\ Nxt(stack) = First(t) /\ Cur(t) = First(t) /\ Nxt(t) = Second(t) /\ First(stack) = f
      /\ First(t).at \in Senders \cup {"send"}
      /\ Skip(First(t)) = 0 /\ Left(First(t)) = More(f, First(t)) /\ More(First(t), Second(t)) = <<>>
      /\ Untold(f) = 0 /\ Untold(First(t)) = 0 /\ ~Comes(f)
  BY <1>1, CallerOfWrite DEF Writing, On
<1>4. UNCHANGED <<outVars, linkVars, pollVars, kernelVars, mReadBuffer, attached, connVars>>
  BY DEF Flushed
<1>5. CASE mFd = NoFd \/ f.data = <<>>
  <2>1. stack' = t /\ ret' = (mFd # NoFd)
    BY <1>5 DEF Flushed, Return
  <2> HIDE DEF f, t
  <2>0. Linked' /\ OutTypes' /\ InTypes' /\ Counts'
    BY <1>1, <1>3, <1>4, <2>1 DEF Inv, Linked, OutTypes, InTypes, Counts, On, Senders
  <2>2. Fresh' /\ Reports' /\ Losses'
    BY <1>1, <1>4, <2>1 DEF Inv, Fresh, Reports, Losses, On
  <2>3. Books'
    <3>1. Open => First(t).at \in Senders
      BY <1>1, <1>5 DEF On, Fits, Writing
    <3>2. Open => More(f, First(t)) = <<>> /\ Left(f) = <<>> /\ Skip(f) = 0
      BY <1>1, <1>5, <3>1 DEF More, Left, Skip, Senders
    <3> QED
      BY <1>1, <1>3, <1>4, <2>1, <3>1, <3>2, BooksKept DEF Inv, Failing, Notes, Senders
  <2>4. Armed'
    <3>1. Bottom(stack) = IF t = <<>> THEN f ELSE Bottom(t)
      BY <1>1 DEF On
    <3>2. Open /\ mWriteOffset < Len(mWriteBuffer) /\ t = <<>> => mWriteWait
      BY <1>1, <1>3, <3>1 DEF Inv, Armed
    <3> QED
      BY <1>1, <1>3, <1>4, <2>1, <3>1, <3>2 DEF Inv, Armed, On, Senders, Comes, Writable, Readable, Room
  <2> QED
    BY <2>0, <2>2, <2>3, <2>4 DEF Inv
<1>6. CASE mFd # NoFd /\ f.data # <<>>
  <2>1. stack' = Push(n, t) /\ ret' = ret
    BY <1>6 DEF Flushed, Goto, Push
  <2>2. n \in Frames /\ n.at = (IF mWriteBuffer = <<>> THEN "direct" ELSE "store")
        /\ n.data = f.data /\ n.total = 0 /\ n.mode = f.mode
    BY <1>2 DEF Frames, Places
  <2> HIDE DEF f, t, n
  <2>3. On(stack', n, t) /\ Linked'
    BY <1>1, <1>6, <2>1, <2>2, OnPush DEF On, Fits, Linked, Writing
  <2>4. Cur(stack') = n /\ Nxt(stack') = First(t) /\ First(stack') = n
    BY <2>2, <2>3 DEF On, Cur, Nxt, Notes
  <2>5. OutTypes' /\ InTypes' /\ Fresh' /\ Reports' /\ Losses' /\ Counts'
    BY <1>1, <1>2, <1>4, <2>2, <2>3, <2>4 DEF Inv, OutTypes, InTypes, Fresh, Reports, Losses, Counts, On
  <2>6. Books'
    <3>1. Left(n) = Left(f) /\ Skip(n) = Skip(f) /\ More(n, First(t)) = More(f, First(t)) /\ Untold(n) = 0
      BY <1>1, <1>2, <2>2 DEF Left, Skip, More, Writing, Untold
    <3> QED
      BY <1>1, <1>3, <1>4, <2>1, <2>2, <2>4, <3>1, BooksKept DEF Inv, Failing, Notes
  <2>7. Armed'
    <3>1. Open /\ mWriteBuffer # <<>> => mWriteWait
      BY <1>1, <1>3 DEF Inv, Armed
    <3>2. mWriteOffset < Len(mWriteBuffer) => mWriteBuffer # <<>>
      BY DEF Inv, OutTypes
    <3>3. Bottom(stack) = (IF t = <<>> THEN f ELSE Bottom(t)) /\ Bottom(stack') = (IF t = <<>> THEN n ELSE Bottom(t))
      BY <1>1, <2>3 DEF On
    <3> QED
      BY <1>1, <1>3, <1>4, <2>2, <2>4, <3>1, <3>2, <3>3 DEF Inv, Armed, Comes, Writable, Readable, Room
  <2> QED
    BY <2>3, <2>5, <2>6, <2>7 DEF Inv
<1> QED
  BY <1>5, <1>6

LEMMA DirectEndKeeps ==
    ASSUME Inv, DirectEnd, UNCHANGED connVars
    PROVE  Inv'
<1> DEFINE f == Top
           t == Below
           m == More(f, First(t))
<1>1. On(stack, f, t) /\ f.at = "direct"
  BY Inside DEF DirectEnd
<1>2. f \in Frames /\ f.total \in Nat /\ f.data \in Seq(Octets) /\ Len(f.data) \in Nat
  BY <1>1 DEF On, Frames
<1>3. /\ Cur(stack) = f /\ Nxt(stack) = First(t) /\ Cur(t) = First(t) /\ Nxt(t) = Second(t) /\ First(stack) = f
      /\ First(t).at \in Senders \cup {"send"}
      /\ Skip(First(t)) = 0 /\ Left(First(t)) = m /\ More(First(t), Second(t)) = <<>>
      /\ Untold(f) = 0 /\ Untold(First(t)) = 0 /\ ~Comes(f) /\ m \in Seq(Octets)
  BY <1>1, CallerOfWrite DEF Writing, On
<1>4. UNCHANGED <<outVars, linkVars, pollVars, kernelVars, mReadBuffer, attached, connVars>>
      /\ stack' = t /\ ret' = TRUE
  BY DEF DirectEnd, Return
<1>5. f.total = Len(f.data) /\ mWriteBuffer = <<>>
  <2>1. f.total <= Len(f.data) /\ mWriteBuffer = <<>>
    BY <1>1, <1>3 DEF Inv, Counts
  <2>2. ~(f.total < Len(f.data))
    BY <1>1 DEF DirectEnd, InLoop, Loops, Goal, On
  <2> QED
    BY <1>2, <2>1, <2>2
<1> HIDE DEF f, t, m
<1>6. Linked' /\ OutTypes' /\ InTypes' /\ Counts'
  BY <1>1, <1>3, <1>4 DEF Inv, Linked, OutTypes, InTypes, Counts, On, Senders
<1>7. Fresh' /\ Reports' /\ Losses'
  BY <1>1, <1>4 DEF Inv, Fresh, Reports, Losses, On
<1>8. Books'
  <2>1. Left(f) = <<>> /\ Skip(f) = 0
    BY <1>1, <1>2, <1>5 DEF Left, Skip
  <2>2. mWriteOffset \in 0 .. Len(mWriteBuffer) /\ mWriteBuffer \in Seq(Octets)
    BY DEF Inv, OutTypes
  <2>3. PendingOf(mWriteBuffer, mWriteOffset, m, <<>>) = PendingOf(mWriteBuffer, mWriteOffset, <<>>, m)
    BY <1>3, <2>2, ReturnedPending
  <2>4. Pending = PendingOf(mWriteBuffer, mWriteOffset, <<>>, m)
    BY <1>3, <2>1, <2>2 DEF Pending, m
  <2>5. Pending' = PendingOf(mWriteBuffer, mWriteOffset, m, <<>>)
    BY <1>3, <1>4, <2>2 DEF Pending
  <2>6. Pending' = Pending
    BY <2>3, <2>4, <2>5
  <2> QED
    BY <1>1, <1>3, <1>4, <2>6 DEF Inv, Books, Failing, Senders
<1>9. Armed'
  <2>1. Bottom(stack) = IF t = <<>> THEN f ELSE Bottom(t)
    BY <1>1 DEF On
  <2>2. ~(mWriteOffset < Len(mWriteBuffer))
    BY <1>5 DEF Inv, OutTypes
  <2> QED
    BY <1>1, <1>3, <1>4, <2>1, <2>2 DEF Inv, Armed, Senders, Writable, Readable, Room
<1> QED
  BY <1>6, <1>7, <1>8, <1>9 DEF Inv

LEMMA StoreKeeps ==
    ASSUME Inv, StoreRest
    PROVE  Inv'
<1> DEFINE f == Top
           t == Below
           m == More(f, First(t))
           r == Rest
<1>1. On(stack, f, t) /\ f.at = "store"
  BY Inside DEF StoreRest, Store
<1>2. f \in Frames /\ f.total \in Nat /\ f.data \in Seq(Octets) /\ Len(f.data) \in Nat
  BY <1>1 DEF On, Frames
<1>3. /\ Cur(stack) = f /\ Nxt(stack) = First(t) /\ Cur(t) = First(t) /\ Nxt(t) = Second(t) /\ First(stack) = f
      /\ First(t).at \in Senders \cup {"send"}
      /\ Skip(First(t)) = 0 /\ Left(First(t)) = m /\ More(First(t), Second(t)) = <<>>
      /\ Untold(f) = 0 /\ Untold(First(t)) = 0 /\ ~Comes(f) /\ m \in Seq(Octets)
  BY <1>1, CallerOfWrite DEF Writing, On
<1>4. UNCHANGED <<mWriteOffset, mWriteWait, kernelVars, mReadBuffer, attached, timerVars, inVars, sendVars,
                  peerVars, mIsConnected, mSocketClient, told>>
      /\ stack' = t /\ (quiet' <=> quiet \/ mFd' # mFd)
  BY DEF StoreRest, Store, Return
<1>5. f.total <= Len(f.data)
  BY <1>1, <1>3 DEF Inv, Counts
<1>6. r = Left(f) /\ r \in Seq(Octets)
  <2>1. r \in Seq(Octets)
    BY <1>2, <1>5, DropIs DEF Rest
  <2> QED
    BY <1>1, <2>1 DEF Left, Rest
<1>7. mWriteBuffer \in Seq(Octets) /\ mWriteOffset \in 0 .. Len(mWriteBuffer)
  BY DEF Inv, OutTypes
<1>8. CASE r # <<>> /\ Overflows
  <2>1. mFd' = NoFd /\ mWriteBuffer' = mWriteBuffer
    BY <1>8 DEF StoreRest, Store, Close
  <2> HIDE DEF f, t, m, r
  <2>2. Linked' /\ OutTypes' /\ InTypes' /\ Counts'
    BY <1>1, <1>3, <1>4, <2>1 DEF Inv, Linked, OutTypes, InTypes, Counts, On, Senders
  <2>3. Fresh' /\ Reports' /\ Losses' /\ Armed'
    BY <1>1, <1>4, <2>1 DEF Inv, Fresh, Reports, Losses, Armed, On
  <2>4. Books'
    BY <1>3, <1>4, <2>1, BooksKept DEF Inv, Notes, Senders
  <2> QED
    BY <2>2, <2>3, <2>4 DEF Inv
<1>9. CASE ~(r # <<>> /\ Overflows)
  <2>1. mWriteBuffer' = mWriteBuffer \o r /\ ret' = TRUE /\ UNCHANGED <<linkVars, pollVars>>
    BY <1>9 DEF StoreRest, Store, Return
  <2> HIDE DEF f, t, m, r
  <2>2. mWriteBuffer' \in Seq(Octets) /\ Len(mWriteBuffer') = Len(mWriteBuffer) + Len(r) /\ Len(r) \in Nat
    BY <1>6, <1>7, <2>1, ConcatProperties
  <2>3. OutTypes'
    BY <1>4, <1>7, <2>2 DEF Inv, OutTypes
  <2>4. Linked' /\ InTypes' /\ Counts'
    BY <1>1, <1>3, <1>4 DEF Inv, Linked, InTypes, Counts, On, Senders
  <2>5. Fresh' /\ Reports' /\ Losses'
    BY <1>1, <1>4, <2>1 DEF Inv, Fresh, Reports, Losses, On
  <2>6. Books'
    <3>1. PendingOf(mWriteBuffer \o r, mWriteOffset, m, <<>>) = PendingOf(mWriteBuffer, mWriteOffset, r, m)
      BY <1>3, <1>6, <1>7, StoredPending
    <3>2. Skip(f) = 0
      BY <1>1 DEF Skip
    <3>3. Pending = PendingOf(mWriteBuffer, mWriteOffset, r, m)
      BY <1>3, <1>6, <1>7, <3>2 DEF Pending, m
    <3>4. Pending' = PendingOf(mWriteBuffer \o r, mWriteOffset, m, <<>>)
      BY <1>3, <1>4, <1>7, <2>1 DEF Pending
    <3>5. Pending' = Pending
      BY <3>1, <3>3, <3>4
    <3> QED
      BY <1>1, <1>3, <1>4, <2>1, <3>5 DEF Inv, Books, Failing, Senders
  <2>7. Armed'
    <3>1. Bottom(stack) = IF t = <<>> THEN f ELSE Bottom(t)
      BY <1>1 DEF On
    <3>2. Open => mWriteWait
      BY <1>1, <1>3 DEF Inv, Armed
    <3> QED
      BY <1>1, <1>3, <1>4, <2>1, <3>1, <3>2 DEF Inv, Armed, Senders, Writable, Readable, Room
  <2> QED
    BY <2>3, <2>4, <2>5, <2>6, <2>7 DEF Inv
<1> QED
  BY <1>8, <1>9

LEMMA WroteKeeps ==
    ASSUME Inv, NEW e \in 1 .. Capacity, Wrote(e), UNCHANGED connVars
    PROVE  Inv'
<1> DEFINE f == Top
           t == Below
           n == [Top EXCEPT !.total = @ + e]
           b == [Frame("bytesWritten") EXCEPT !.total = e]
           u == Push(n, t)
           m == More(f, First(t))
<1>1. /\ On(stack, f, t) /\ f.at \in {"flush", "direct"} /\ f.total < Goal
      /\ Cur(stack) = f /\ Nxt(stack) = First(t) /\ First(stack) = f
      /\ f.at = "flush" => Goal = f.goal
      /\ f.at = "direct" => Goal = Len(f.data)
  BY Looping DEF Wrote
<1>2. f \in Frames /\ t \in Seq(Frames) /\ f.total \in Nat /\ f.goal \in Nat /\ f.data \in Seq(Octets)
      /\ Len(f.data) \in Nat
  BY <1>1 DEF On, Frames
<1>3. e \in Nat /\ e > 0 /\ f.total + e <= Goal
  BY CapacityAssumption DEF Wrote
<1>4. n \in Frames /\ n.at = f.at /\ n.data = f.data /\ n.total = f.total + e /\ n.goal = f.goal /\ n.mode = f.mode
  <2>1. f.total + e \in Nat
    BY <1>2, <1>3
  <2>2. n = [f EXCEPT !.total = f.total + e]
    OBVIOUS
  <2> HIDE DEF f, n
  <2> QED
    BY <1>2, <2>1, <2>2 DEF Frames
<1>5. b \in Frames /\ b.at = "bytesWritten" /\ b.total = e
  <2>1. Frame("bytesWritten") \in Frames /\ Frame("bytesWritten").at = "bytesWritten"
    BY FrameIs DEF Places
  <2> QED
    BY <1>3, <2>1 DEF Frames
<1>6. stack' = IF attached THEN Push(b, u) ELSE u
  BY <1>2, <1>4, <1>5, EmitOn DEF Wrote
<1>7. /\ mFd # NoFd /\ accepted' = accepted \o Source(f.total + 1, f.total + e)
      /\ UNCHANGED <<outVars, linkVars, pollVars, drained, incoming, peer, mReadBuffer, attached, ret, connVars>>
  BY DEF Wrote
<1>8. f.at = "flush" => Source(f.total + 1, f.total + e)
                        = SubSeq(mWriteBuffer, mWriteOffset + (f.total + 1), mWriteOffset + (f.total + e))
  BY DEF Source
<1>9. f.at = "direct" => Source(f.total + 1, f.total + e) = SubSeq(f.data, f.total + 1, f.total + e)
  BY DEF Source
<1>10. /\ Left(f) \in Seq(Octets) /\ m \in Seq(Octets)
       /\ accepted \in Seq(Octets) /\ mWriteBuffer \in Seq(Octets) /\ sent \in Seq(Octets)
       /\ mWriteOffset \in 0 .. Len(mWriteBuffer) /\ Len(mWriteBuffer) \in Nat
       /\ accepted \o Pending = sent /\ mPendingWrite = Len(Pending)
  <2>1. m \in Seq(Octets) /\ Untold(f) = 0
    BY <1>1, CallerOfWrite DEF Writing
  <2>2. Left(f) \in Seq(Octets)
    <3>1. f.at = "direct" => f.total \in 0 .. Len(f.data)
      BY <1>1, <1>2
    <3>2. f.at = "direct" => SubSeq(f.data, f.total + 1, Len(f.data)) \in Seq(Octets)
      BY <1>2, <3>1, DropIs
    <3> QED
      BY <1>1, <1>2, <3>2 DEF Left
  <2>3. accepted \in Seq(Octets) /\ mWriteBuffer \in Seq(Octets) /\ sent \in Seq(Octets)
       /\ mWriteOffset \in 0 .. Len(mWriteBuffer) /\ Len(mWriteBuffer) \in Nat /\ mPendingWrite \in Int
    BY DEF Inv, OutTypes
  <2>4. accepted \o Pending = sent /\ mPendingWrite = Len(Pending) + 0
    BY <1>1, <1>7, <2>1 DEF Inv, Books, Failing
  <2>5. Len(Pending) \in Int
    <3>1. f.at = "flush" => mWriteOffset + Skip(f) \in 0 .. Len(mWriteBuffer)
      BY <1>1, <1>2, <2>3 DEF Inv, Counts, Skip
    <3>2. f.at = "direct" => mWriteOffset + Skip(f) \in 0 .. Len(mWriteBuffer)
      BY <2>3 DEF Skip
    <3>3. PendingOf(mWriteBuffer, mWriteOffset + Skip(f), Left(f), m) \in Seq(Octets)
      BY <1>1, <2>1, <2>2, <2>3, <3>1, <3>2, PendingIs
    <3> QED
      BY <1>1, <3>3 DEF Pending
  <2> QED
    BY <2>1, <2>2, <2>3, <2>4, <2>5
<1> HIDE DEF f, t, n, b, m
<1>11. On(u, n, t) /\ u \in Seq(Frames) /\ Chain(u)
  BY <1>1, <1>4, OnPush DEF On, Fits, Writing
<1> HIDE DEF u
<1> DEFINE q == PendingOf(mWriteBuffer, mWriteOffset + Skip(n), Left(n), m)
<1>12. /\ accepted' \in Seq(Octets) /\ Len(accepted') = Len(accepted) + e /\ q \in Seq(Octets)
       /\ accepted' \o q = sent /\ mPendingWrite = Len(q) + e
  <2> DEFINE x == Source(f.total + 1, f.total + e)
  <2>1. Pending = PendingOf(mWriteBuffer, mWriteOffset + Skip(f), Left(f), m)
    BY <1>1 DEF Pending, m
  <2>2. CASE f.at = "flush"
    <3> DEFINE k == mWriteOffset + f.total
    <3>1. f.goal = Len(mWriteBuffer) - mWriteOffset
      BY <1>1, <2>2 DEF Inv, Counts
    <3>2. k \in 0 .. Len(mWriteBuffer) /\ e \in 0 .. Len(mWriteBuffer) - k /\ k + e \in 0 .. Len(mWriteBuffer)
      <4>1. f.total + e <= Len(mWriteBuffer) - mWriteOffset
        BY <1>1, <1>3, <2>2, <3>1
      <4> DEFINE a == mWriteOffset
                 g == f.total
                 l == Len(mWriteBuffer)
      <4>2. a \in Nat /\ l \in Nat /\ g \in Nat /\ e \in Nat /\ g + e <= l - a
        BY <1>2, <1>3, <1>10, <4>1
      <4> HIDE DEF a, g, l
      <4>3. a + g \in 0 .. l /\ e \in 0 .. l - (a + g) /\ (a + g) + e \in 0 .. l
        BY <4>2
      <4> QED
        BY <4>3 DEF a, g, l
    <3>3. mWriteOffset + Skip(f) = k /\ mWriteOffset + Skip(n) = k + e /\ Left(n) = Left(f)
      BY <1>2, <1>3, <1>4, <1>10, <2>2 DEF Skip, Left
    <3>4. x = SubSeq(mWriteBuffer, k + 1, k + e)
      <4>1. mWriteOffset + (f.total + 1) = k + 1 /\ mWriteOffset + (f.total + e) = k + e
        BY <1>2, <1>3, <1>10
      <4> QED
        BY <1>8, <2>2, <4>1
    <3> HIDE DEF k
    <3>0. mWriteBuffer \in Seq(Octets) /\ Left(f) \in Seq(Octets) /\ m \in Seq(Octets) /\ accepted \in Seq(Octets)
      BY <1>10
    <3>5. x \in Seq(Octets) /\ Len(x) = e
      <4>1. SubSeq(mWriteBuffer, k + 1, k + e) \in Seq(Octets) /\ Len(SubSeq(mWriteBuffer, k + 1, k + e)) = e
        BY <3>0, <3>2, CutInTwo
      <4> QED
        BY <3>4, <4>1
    <3>6. (accepted \o SubSeq(mWriteBuffer, k + 1, k + e)) \o PendingOf(mWriteBuffer, k + e, Left(f), m)
            = accepted \o PendingOf(mWriteBuffer, k, Left(f), m)
      <4> DEFINE a == accepted
                 s == mWriteBuffer
                 l == Left(f)
      <4>1. a \in Seq(Octets) /\ s \in Seq(Octets) /\ l \in Seq(Octets) /\ m \in Seq(Octets)
            /\ k \in 0 .. Len(s) /\ e \in 0 .. Len(s) - k
        BY <3>0, <3>2
      <4> HIDE DEF a, s, l
      <4>2. Taken(a, s, k, e, l, m)
        BY <4>1, TakenFromBuffer
      <4> QED
        BY <4>2 DEF Taken, a, s, l
    <3>7. q = PendingOf(mWriteBuffer, k + e, Left(f), m) /\ Pending = PendingOf(mWriteBuffer, k, Left(f), m)
      BY <2>1, <3>3
    <3>8. accepted' \o q = sent
      BY <1>7, <1>10, <3>4, <3>6, <3>7
    <3>9. q \in Seq(Octets) /\ Len(q) = (Len(mWriteBuffer) - (k + e)) + Len(Left(f)) + Len(m)
          /\ Len(Pending) = (Len(mWriteBuffer) - k) + Len(Left(f)) + Len(m)
      <4>1. PendingOf(mWriteBuffer, k + e, Left(f), m) \in Seq(Octets)
            /\ Len(PendingOf(mWriteBuffer, k + e, Left(f), m)) = (Len(mWriteBuffer) - (k + e)) + Len(Left(f)) + Len(m)
        BY <3>0, <3>2, PendingIs
      <4>2. Len(PendingOf(mWriteBuffer, k, Left(f), m)) = (Len(mWriteBuffer) - k) + Len(Left(f)) + Len(m)
        BY <3>0, <3>2, PendingIs
      <4> QED
        BY <3>7, <4>1, <4>2
    <3>10. Len(Left(f)) \in Nat /\ Len(m) \in Nat /\ k \in Nat
      BY <1>10, <3>2
    <3>11. mPendingWrite = Len(q) + e
      BY <1>3, <1>10, <3>9, <3>10
    <3>12. accepted' \in Seq(Octets) /\ Len(accepted') = Len(accepted) + e
      BY <1>7, <1>10, <3>5, ConcatProperties
    <3> QED
      BY <3>8, <3>9, <3>11, <3>12
  <2>3. CASE f.at = "direct"
    <3> DEFINE k == f.total
               s == f.data
               y == SubSeq(s, k + 1, Len(s))
               z == SubSeq(s, k + e + 1, Len(s))
    <3>1. mWriteBuffer = <<>> /\ mWriteOffset = 0
      <4>1. mWriteBuffer = <<>>
        BY <1>1, <2>3 DEF Inv, Counts
      <4> QED
        BY <1>10, <4>1
    <3>2. k \in 0 .. Len(s) /\ e \in 0 .. Len(s) - k /\ k + e \in 0 .. Len(s) /\ s \in Seq(Octets)
      BY <1>1, <1>2, <1>3, <2>3
    <3>3. mWriteOffset + Skip(f) = 0 /\ mWriteOffset + Skip(n) = 0 /\ Left(f) = y /\ Left(n) = z
      <4>1. Left(f) = SubSeq(f.data, f.total + 1, Len(f.data)) /\ Skip(f) = 0
        BY <2>3 DEF Left, Skip
      <4>2. Left(n) = SubSeq(f.data, f.total + e + 1, Len(f.data)) /\ Skip(n) = 0
        BY <1>4, <2>3 DEF Left, Skip
      <4> QED
        BY <3>1, <4>1, <4>2
    <3>4. x = SubSeq(s, k + 1, k + e)
      BY <1>9, <2>3
    <3> HIDE DEF k, s
    <3>5. x \in Seq(Octets) /\ Len(x) = e
      <4>1. SubSeq(s, k + 1, k + e) \in Seq(Octets) /\ Len(SubSeq(s, k + 1, k + e)) = e
        BY <3>2, CutInTwo
      <4> QED
        BY <3>4, <4>1
    <3>0. accepted \in Seq(Octets) /\ m \in Seq(Octets)
      BY <1>10
    <3>6. (accepted \o SubSeq(s, k + 1, k + e)) \o PendingOf(<<>>, 0, z, m) = accepted \o PendingOf(<<>>, 0, y, m)
      BY <3>0, <3>2, TakenFromData
    <3>7. y \in Seq(Octets) /\ Len(y) = Len(s) - k /\ z \in Seq(Octets) /\ Len(z) = Len(s) - (k + e)
      BY <3>2, DropIs
    <3> HIDE DEF y, z
    <3>8. q = PendingOf(<<>>, 0, z, m) /\ Pending = PendingOf(<<>>, 0, y, m)
      BY <2>1, <3>1, <3>3
    <3>9. accepted' \o q = sent
      BY <1>7, <1>10, <3>4, <3>6, <3>8
    <3>11. q \in Seq(Octets) /\ Len(q) = Len(z) + Len(m) /\ Len(Pending) = Len(y) + Len(m)
      <4>1. /\ PendingOf(<<>>, 0, z, m) \in Seq(Octets)
            /\ Len(PendingOf(<<>>, 0, z, m)) = Len(z) + Len(m)
            /\ Len(PendingOf(<<>>, 0, y, m)) = Len(y) + Len(m)
        BY <3>0, <3>7, DirectPendingIs
      <4> QED
        BY <3>8, <4>1
    <3>12. mPendingWrite = Len(q) + e
      <4>1. Len(m) \in Nat /\ k \in Nat /\ Len(s) \in Nat
        BY <1>10, <3>2
      <4> QED
        BY <1>3, <1>10, <3>7, <3>11, <4>1
    <3>13. accepted' \in Seq(Octets) /\ Len(accepted') = Len(accepted) + e
      BY <1>7, <1>10, <3>5, ConcatProperties
    <3> QED
      BY <3>9, <3>11, <3>12, <3>13
  <2> QED
    BY <1>1, <2>2, <2>3
<1> HIDE DEF q
<1>13. attached
  <2>1. SUFFICES ASSUME ~attached PROVE FALSE
    OBVIOUS
  <2>2. sent = <<>>
    BY <2>1 DEF Inv, Books
  <2>3. Len(accepted' \o q) = Len(accepted') + Len(q)
    BY <1>12, ConcatProperties
  <2>4. Len(accepted) \in Nat /\ Len(q) \in Nat /\ Len(<<>>) = 0
    BY <1>10, <1>12
  <2> QED
    BY <1>3, <1>12, <2>2, <2>3, <2>4
<1>14. On(stack', b, u) /\ Linked'
  BY <1>1, <1>4, <1>5, <1>6, <1>11, <1>13, OnPush DEF On, Fits, Linked, Writing, Senders
<1>15. Cur(stack') = n /\ Nxt(stack') = First(t) /\ First(stack') = b
  BY <1>5, <1>11, <1>14 DEF On, Cur, Nxt, Notes
<1>16. OutTypes' /\ InTypes'
  BY <1>7, <1>12 DEF Inv, OutTypes, InTypes
<1>17. Fresh' /\ Reports' /\ Losses'
  BY <1>1, <1>4, <1>5, <1>7, <1>11, <1>14 DEF Inv, Fresh, Reports, Losses, On
<1>18. Counts'
  BY <1>1, <1>2, <1>3, <1>4, <1>5, <1>7, <1>15 DEF Inv, Counts
<1>19. Books'
  <2>1. m = More(n, First(t))
    BY <1>1, <1>4 DEF More, Writing, m
  <2>2. Pending' = q
    BY <1>7, <1>15, <2>1 DEF Pending, q
  <2>3. IsPrefix(accepted', sent)
    BY <1>12, PrefixOfConcat
  <2> QED
    BY <1>5, <1>7, <1>12, <1>13, <1>15, <2>2, <2>3 DEF Books, Untold
<1>20. Armed'
  <2>1. Writable' => Writable
    <3>1. Capacity \in Nat /\ Len(accepted) \in Nat /\ drained \in Nat
      BY <1>10, CapacityAssumption DEF Inv, OutTypes
    <3> QED
      BY <1>3, <1>7, <1>12, <3>1 DEF Writable, Room
  <2>2. Bottom(stack') = (IF t = <<>> THEN n ELSE Bottom(t)) /\ Bottom(stack) = (IF t = <<>> THEN f ELSE Bottom(t))
    BY <1>1, <1>11, <1>14 DEF On
  <2> QED
    BY <1>1, <1>4, <1>7, <1>15, <2>1, <2>2 DEF Inv, Armed, Comes, Readable
<1> QED
  BY <1>14, <1>16, <1>17, <1>18, <1>19, <1>20 DEF Inv
-----------------------------------------------------------------------------
(* socketCallback. *)

(* Frames that do not write. *)
Plain(f) == f.at \notin Writing \cup Notes \cup {"send"}

(* Whatever happens outside of writeTo and send. *)
LEMMA PlainStep ==
    ASSUME Inv, UNCHANGED <<mWriteBuffer, mWriteOffset, accepted, sent, mPendingWrite>>,
           attached => attached', Open' => Open, Plain(First(stack)), Plain(First(stack')),
           Open' /\ First(stack').at \notin Failing => First(stack).at \notin Failing
    PROVE  Books' /\ Cur(stack) = First(stack) /\ Cur(stack') = First(stack')
<1>1. /\ Cur(stack) = First(stack) /\ Cur(stack') = First(stack')
      /\ Nxt(stack) = Second(stack) /\ Nxt(stack') = Second(stack')
  BY DEF Plain, Cur, Nxt
<1>2. \A f, g : Plain(f) => Skip(f) = 0 /\ Left(f) = <<>> /\ More(f, g) = <<>> /\ Untold(f) = 0
  BY DEF Plain, Skip, Left, More, Untold, Writing, Notes
<1>3. First(stack').at \notin Notes /\ First(stack').at # "send"
  BY DEF Plain
<1>4. Books'
  BY <1>1, <1>2, <1>3, BooksKept DEF Inv
<1> QED
  BY <1>1, <1>4

LEMMA ReadSomeKeeps ==
    ASSUME Inv, NEW e \in 1 .. Len(incoming), ReadSome(e), UNCHANGED connVars
    PROVE  Inv'
<1> DEFINE f == Top
           t == Below
           n == [Top EXCEPT !.total = @ + e]
<1>1. On(stack, f, t) /\ f.at = "read"
  BY Inside DEF ReadSome
<1>2. f \in Frames /\ t \in Seq(Frames) /\ f.total \in Nat /\ First(stack) = f
  BY <1>1 DEF On, Frames
<1>3. /\ incoming \in Seq(Octets) /\ Len(incoming) \in Nat /\ mReadBuffer \in Seq(Octets)
      /\ Len(mReadBuffer) = f.total
  BY <1>1, <1>2 DEF Inv, InTypes, Counts
<1>4. n \in Frames /\ n.at = "read" /\ n.total = f.total + e /\ n.mode = f.mode
  <2>1. f.total + e \in Nat
    BY <1>2, <1>3
  <2>2. n = [f EXCEPT !.total = f.total + e]
    OBVIOUS
  <2> HIDE DEF f, n
  <2> QED
    BY <1>1, <1>2, <2>1, <2>2 DEF Frames
<1>5. /\ stack' = Push(n, t)
      /\ mReadBuffer' = SubSeq(mReadBuffer \o incoming, 1, f.total + e)
      /\ incoming' = SubSeq(incoming, e + 1, Len(incoming))
      /\ UNCHANGED <<outVars, linkVars, pollVars, accepted, drained, peer, attached, ret, connVars>>
  BY DEF ReadSome, Goto, Push
<1> HIDE DEF f, t, n
<1>6. incoming' \in Seq(Octets)
  BY <1>3, <1>5, DropIs
<1>7. mReadBuffer' \in Seq(Octets) /\ Len(mReadBuffer') = f.total + e
  <2> DEFINE a == mReadBuffer \o incoming
             k == f.total + e
  <2>1. a \in Seq(Octets) /\ Len(a) = f.total + Len(incoming)
    BY <1>3, ConcatProperties
  <2>2. k \in 0 .. Len(a)
    BY <1>2, <1>3, <2>1
  <2> HIDE DEF a, k
  <2>3. SubSeq(a, 1, k) \in Seq(Octets) /\ Len(SubSeq(a, 1, k)) = k
    BY <2>1, <2>2, SubSeqProperties
  <2> QED
    BY <1>5, <2>3 DEF a, k
<1>8. On(stack', n, t) /\ Linked' /\ First(stack') = n
  BY <1>1, <1>4, <1>5, OnPush DEF On, Fits, Linked, Writing
<1>9. Books' /\ Cur(stack) = f /\ Cur(stack') = n
  BY <1>1, <1>2, <1>4, <1>5, <1>8, PlainStep DEF Plain, Writing, Notes, Failing
<1>10. OutTypes' /\ InTypes' /\ Counts'
  BY <1>4, <1>5, <1>6, <1>7, <1>8, <1>9 DEF Inv, OutTypes, InTypes, Counts
<1>11. Fresh' /\ Reports' /\ Losses'
  BY <1>1, <1>4, <1>5, <1>8 DEF Inv, Fresh, Reports, Losses, On
<1>12. Armed'
  <2>1. t = <<>> /\ Bottom(stack) = f /\ Bottom(stack') = n
    BY <1>1, <1>8 DEF On, Fits
  <2> QED
    BY <1>1, <1>4, <1>5, <1>9, <2>1 DEF Inv, Armed, Comes, Writable, Room
<1> QED
  BY <1>8, <1>9, <1>10, <1>11, <1>12 DEF Inv

LEMMA ReadAllKeeps ==
    ASSUME Inv, ReadAll, UNCHANGED connVars
    PROVE  Inv'
<1> DEFINE f == Top
           t == Below
           n == [Top EXCEPT !.at = "readDone"]
           r == Frame("readyRead")
           u == Push(n, t)
<1>1. On(stack, f, t) /\ f.at = "read"
  BY Inside DEF ReadAll
<1>2. f \in Frames /\ t \in Seq(Frames) /\ First(stack) = f
  BY <1>1 DEF On
<1>3. n \in Frames /\ n.at = "readDone" /\ n.mode = f.mode /\ r \in Frames /\ r.at = "readyRead"
  <2>1. r \in Frames /\ r.at = "readyRead"
    BY FrameIs DEF Places
  <2> QED
    BY <1>2, <2>1 DEF Frames, Places
<1>4. stack' = IF attached THEN Push(r, u) ELSE u
  BY <1>2, <1>3, EmitOn DEF ReadAll
<1>5. ~Readable /\ UNCHANGED <<outVars, linkVars, pollVars, kernelVars, mReadBuffer, attached, ret, connVars>>
  BY DEF ReadAll
<1> HIDE DEF f, t, n, r
<1>6. On(u, n, t) /\ u \in Seq(Frames) /\ Chain(u)
  BY <1>1, <1>3, OnPush DEF On, Fits, Writing
<1> HIDE DEF u
<1>7. On(Push(r, u), r, u) /\ Push(r, u) \in Seq(Frames) /\ Chain(Push(r, u))
  BY <1>3, <1>6, OnPush DEF On, Fits, Writing
<1>8. /\ Linked' /\ First(stack').at \in {"readyRead", "readDone"}
      /\ t = <<>> /\ Bottom(stack) = f /\ Bottom(stack') = n
      /\ Doomed(stack') <=> Doomed(stack)
      /\ Telling(stack') <=> Telling(stack)
      /\ Tells(stack') <=> Tells(stack)
  BY <1>1, <1>3, <1>4, <1>6, <1>7 DEF On, Linked, Fits
<1>9. Books' /\ Cur(stack) = f /\ Cur(stack') = First(stack')
  BY <1>1, <1>2, <1>5, <1>8, PlainStep DEF Plain, Writing, Notes, Failing
<1>10. OutTypes' /\ InTypes' /\ Counts'
  BY <1>5, <1>8, <1>9 DEF Inv, OutTypes, InTypes, Counts
<1>11. Fresh' /\ Reports' /\ Losses'
  BY <1>1, <1>5, <1>8 DEF Inv, Fresh, Reports, Losses, On
<1>12. Armed'
  BY <1>1, <1>3, <1>5, <1>8, <1>9 DEF Inv, Armed, Comes, Writable, Readable, Room
<1> QED
  BY <1>8, <1>9, <1>10, <1>11, <1>12 DEF Inv

(* A connection that has failed is about to be closed, and this is told. *)
LEMMA Failed ==
    ASSUME Inv, Plain(First(stack)), First(stack).at \notin {"fail", "bytesWritten"},
           stack # <<>>, stack' \in Seq(Frames), Chain(stack'),
           UNCHANGED <<outVars, linkVars, pollVars, kernelVars, mReadBuffer, attached, ret, connVars>>,
           First(stack').at \in {"fail", "error", "disconnected", "readyRead"},
           First(stack').at \notin Failing => First(stack).at \notin Failing,
           Bottom(stack').at = "fail", Doomed(stack'), attached => Tells(stack'),
           Telling(stack') => Telling(stack), Bottom(stack).at \in {"read", "writable"}
    PROVE  Inv'
<1>1. Books' /\ Cur(stack') = First(stack')
  BY PlainStep DEF Plain, Writing, Notes
<1>2. Linked' /\ OutTypes' /\ InTypes' /\ Counts'
  BY <1>1 DEF Inv, Linked, OutTypes, InTypes, Counts
<1>3. Fresh' /\ Reports' /\ Losses'
  BY DEF Inv, Fresh, Reports, Losses
<1>4. Armed'
  BY <1>1 DEF Inv, Armed, Comes, Writable, Readable, Room
<1> QED
  BY <1>1, <1>2, <1>3, <1>4 DEF Inv

LEMMA ReadEndKeeps ==
    ASSUME Inv, ReadEnd, UNCHANGED connVars
    PROVE  Inv'
<1> DEFINE f == Top
           t == Below
           n == Frame("fail")
           d == Frame("disconnected")
           r == Frame("readyRead")
           u == Push(n, t)
           v == Push(d, u)
<1>1. On(stack, f, t) /\ f.at = "read"
  BY Inside DEF ReadEnd
<1>2. f \in Frames /\ t \in Seq(Frames) /\ First(stack) = f /\ stack # <<>>
  BY <1>1 DEF On
<1>3. n \in Frames /\ n.at = "fail" /\ d \in Frames /\ d.at = "disconnected" /\ r \in Frames /\ r.at = "readyRead"
  BY FrameIs DEF Places
<1>4. stack' = IF attached THEN (IF f.total > 0 THEN Push(r, v) ELSE v) ELSE u
  <2> DEFINE b == f.total > 0
  <2>1. stack' = (((IF b THEN Emit(r) ELSE <<>>) \o Emit(d)) \o <<n>>) \o t
    BY DEF ReadEnd
  <2> HIDE DEF b, r, d, n, t
  <2>2. EmitsTwo(b, r, d, n, t)
    BY <1>2, <1>3, EmitTwoOn
  <2> QED
    BY <2>1, <2>2 DEF EmitsTwo, b
<1>5. UNCHANGED <<outVars, linkVars, pollVars, kernelVars, mReadBuffer, attached, ret, connVars>>
  BY DEF ReadEnd
<1> HIDE DEF f, t, n, d, r
<1>6. On(u, n, t) /\ u \in Seq(Frames) /\ Chain(u)
  BY <1>1, <1>3, OnPush DEF On, Fits, Writing, Senders
<1> HIDE DEF u
<1>7. On(v, d, u) /\ v \in Seq(Frames) /\ Chain(v)
  BY <1>3, <1>6, OnPush DEF On, Fits, Writing
<1> HIDE DEF v
<1>8. On(Push(r, v), r, v) /\ Push(r, v) \in Seq(Frames) /\ Chain(Push(r, v))
  BY <1>3, <1>7, OnPush DEF On, Fits, Writing
<1>9. /\ stack' \in Seq(Frames) /\ Chain(stack') /\ First(stack').at \in {"fail", "disconnected", "readyRead"}
      /\ Bottom(stack).at = "read" /\ Bottom(stack').at = "fail"
      /\ Doomed(stack') /\ (attached => Tells(stack'))
      /\ Telling(stack') => Telling(stack)
  BY <1>1, <1>3, <1>4, <1>6, <1>7, <1>8 DEF On, Fits
<1> QED
  BY <1>1, <1>2, <1>5, <1>9, Failed DEF Plain, Writing, Notes, Failing

LEMMA ReadFailedKeeps ==
    ASSUME Inv, ReadFailed, UNCHANGED connVars
    PROVE  Inv'
<1> DEFINE f == Top
           t == Below
           n == Frame("fail")
           e == Frame("error")
           u == Push(n, t)
<1>1. On(stack, f, t) /\ f.at = "read"
  BY Inside DEF ReadFailed
<1>2. f \in Frames /\ t \in Seq(Frames) /\ First(stack) = f /\ stack # <<>>
  BY <1>1 DEF On
<1>3. n \in Frames /\ n.at = "fail" /\ e \in Frames /\ e.at = "error"
  BY FrameIs DEF Places
<1>4. stack' = IF attached THEN Push(e, u) ELSE u
  BY <1>2, <1>3, EmitOn DEF ReadFailed
<1>5. UNCHANGED <<outVars, linkVars, pollVars, kernelVars, mReadBuffer, attached, ret, connVars>>
  BY DEF ReadFailed
<1> HIDE DEF f, t, n, e
<1>6. On(u, n, t) /\ u \in Seq(Frames) /\ Chain(u)
  BY <1>1, <1>3, OnPush DEF On, Fits, Writing, Senders
<1> HIDE DEF u
<1>7. On(Push(e, u), e, u) /\ Push(e, u) \in Seq(Frames) /\ Chain(Push(e, u))
  BY <1>3, <1>6, OnPush DEF On, Fits, Writing
<1>8. /\ stack' \in Seq(Frames) /\ Chain(stack') /\ First(stack').at \in {"fail", "error"}
      /\ Bottom(stack).at = "read" /\ Bottom(stack').at = "fail"
      /\ Doomed(stack') /\ (attached => Tells(stack'))
      /\ Telling(stack') => Telling(stack)
  BY <1>1, <1>3, <1>4, <1>6, <1>7 DEF On, Fits
<1> QED
  BY <1>1, <1>2, <1>5, <1>8, Failed DEF Plain, Writing, Notes, Failing

LEMMA ReadDoneKeeps ==
    ASSUME Inv, ReadDone, UNCHANGED connVars
    PROVE  Inv'
<1> DEFINE f == Top
           t == Below
           n == [Top EXCEPT !.at = "writable"]
<1>1. On(stack, f, t) /\ f.at = "readDone"
  BY Inside DEF ReadDone
<1>2. f \in Frames /\ t \in Seq(Frames) /\ First(stack) = f
  BY <1>1 DEF On
<1>3. n \in Frames /\ n.at = "writable" /\ n.mode = f.mode
  BY <1>2 DEF Frames, Places
<1>4. stack' = Push(n, t) /\ UNCHANGED <<outVars, linkVars, kernelVars, mReadBuffer, attached, ret, connVars>>
  BY DEF ReadDone, Goto, Push
<1>5. IF mWriteWait /\ Open THEN interest' = "readwrite" /\ queued' = (Ready("readwrite") # {})
      ELSE UNCHANGED pollVars
  BY DEF ReadDone, Arm
<1> HIDE DEF f, t, n
<1>6. On(stack', n, t) /\ Linked' /\ First(stack') = n
  BY <1>1, <1>3, <1>4, OnPush DEF On, Fits, Linked, Writing
<1>7. Books' /\ Cur(stack) = f /\ Cur(stack') = n
  BY <1>1, <1>2, <1>3, <1>4, <1>6, PlainStep DEF Plain, Writing, Notes, Failing
<1>8. OutTypes' /\ InTypes' /\ Counts'
  BY <1>3, <1>4, <1>6, <1>7 DEF Inv, OutTypes, InTypes, Counts
<1>9. Fresh' /\ Reports' /\ Losses'
  BY <1>1, <1>3, <1>4, <1>6 DEF Inv, Fresh, Reports, Losses, On
<1>10. Armed'
  <2>1. Bottom(stack) = f /\ Bottom(stack') = n
    BY <1>1, <1>6 DEF On, Fits
  <2>2. Writable \/ Readable => Ready("readwrite") # {}
    BY DEF Ready
  <2>3. (Writable' <=> Writable) /\ (Readable' <=> Readable)
    BY <1>4 DEF Writable, Readable, Room
  <2>4. CASE mWriteWait /\ Open
    BY <1>3, <1>4, <1>5, <1>7, <2>1, <2>2, <2>3, <2>4 DEF Armed
  <2>5. CASE ~(mWriteWait /\ Open)
    BY <1>1, <1>3, <1>4, <1>5, <1>7, <2>1, <2>3, <2>5 DEF Inv, Armed, Comes
  <2> QED
    BY <2>4, <2>5
<1> QED
  BY <1>6, <1>7, <1>8, <1>9, <1>10 DEF Inv

(* The call of writeTo at the end of socketCallback. *)
LEMMA EmptyWriteCall ==
    /\ WriteCall(<<>>) \in Frames /\ WriteCall(<<>>).at = "writeTo" /\ WriteCall(<<>>).data = <<>>
    /\ WriteCall(<<>>).total = 0
<1>1. Frame("writeTo") \in Frames /\ Frame("writeTo").at = "writeTo" /\ Frame("writeTo").total = 0
  BY FrameIs DEF Places
<1>2. <<>> \in Seq(Octets)
  BY EmptySeq
<1> QED
  BY <1>1, <1>2 DEF WriteCall, Frames

LEMMA WritePartKeeps ==
    ASSUME Inv, WritePart, UNCHANGED connVars
    PROVE  Inv'
<1> DEFINE f == Top
           t == Below
           n == Frame("fail")
           e == Frame("error")
           c == Frame("connected")
           w == WriteCall(<<>>)
           u == Push(n, t)
           v == Push(w, t)
<1>1. On(stack, f, t) /\ f.at = "writable"
  BY Inside DEF WritePart
<1>2. f \in Frames /\ t \in Seq(Frames) /\ First(stack) = f /\ stack # <<>> /\ t = <<>> /\ Bottom(stack) = f
  BY <1>1 DEF On, Fits
<1>3. /\ n \in Frames /\ n.at = "fail" /\ e \in Frames /\ e.at = "error" /\ c \in Frames /\ c.at = "connected"
      /\ w \in Frames /\ w.at = "writeTo" /\ w.data = <<>> /\ w.total = 0
  BY FrameIs, EmptyWriteCall DEF Places
<1>4. UNCHANGED <<mFd, outVars, pollVars, kernelVars, mReadBuffer, attached, ret, connVars>>
  BY DEF WritePart
<1>5. \/ "Write" \notin f.mode /\ stack' = t /\ mSocketState' = mSocketState
      \/ mSocketState # "Connecting" /\ stack' = v /\ mSocketState' = mSocketState
      \/ stack' = (IF attached THEN Push(e, u) ELSE u) /\ mSocketState' = mSocketState
      \/ mSocketState' = "Connected" /\ stack' = (IF attached THEN Push(c, v) ELSE v)
  <2>1. \/ "Write" \notin f.mode /\ stack' = t /\ mSocketState' = mSocketState
        \/ mSocketState # "Connecting" /\ stack' = <<w>> \o t /\ mSocketState' = mSocketState
        \/ stack' = (Emit(e) \o <<n>>) \o t /\ mSocketState' = mSocketState
        \/ mSocketState' = "Connected" /\ stack' = (Emit(c) \o <<w>>) \o t
    BY DEF WritePart, Goto
  <2> HIDE DEF f, t, n, e, c, w
  <2>0. e \in Frames /\ n \in Frames /\ c \in Frames /\ w \in Frames /\ t \in Seq(Frames)
    BY <1>2, <1>3
  <2>2. (Emit(e) \o <<n>>) \o t = (IF attached THEN Push(e, u) ELSE u)
    BY <2>0, EmitOn
  <2>3. (Emit(c) \o <<w>>) \o t = (IF attached THEN Push(c, v) ELSE v)
    BY <2>0, EmitOn
  <2>4. <<w>> \o t = v
    BY DEF Push
  <2> HIDE DEF u, v
  <2> QED
    BY <2>1, <2>2, <2>3, <2>4
<1> HIDE DEF f, t, n, e, c, w
<1>6. On(u, n, t) /\ u \in Seq(Frames) /\ Chain(u)
  BY <1>1, <1>3, OnPush DEF On, Fits, Writing, Senders
<1>7. On(v, w, t) /\ v \in Seq(Frames) /\ Chain(v)
  BY <1>1, <1>3, OnPush DEF On, Fits, Writing, Senders
<1> HIDE DEF u, v
<1>8. On(Push(e, u), e, u) /\ Push(e, u) \in Seq(Frames) /\ Chain(Push(e, u))
  BY <1>3, <1>6, OnPush DEF On, Fits, Writing
<1>9. On(Push(c, v), c, v) /\ Push(c, v) \in Seq(Frames) /\ Chain(Push(c, v))
  BY <1>3, <1>7, OnPush DEF On, Fits, Writing
<1>10. CASE "Write" \notin f.mode /\ stack' = t /\ mSocketState' = mSocketState
  <2>1. stack' = <<>> /\ First(stack') = Base /\ Bottom(stack') = Base /\ Base.at = "base"
        /\ ~Doomed(stack') /\ ~Telling(stack') /\ ~Tells(stack') /\ Linked'
    BY <1>2, <1>10, OfEmpty DEF Linked, Base, Frame
  <2>2. Books' /\ Cur(stack) = f /\ Cur(stack') = Base
    BY <1>1, <1>2, <1>4, <2>1, PlainStep DEF Plain, Writing, Notes, Failing
  <2>3. OutTypes' /\ InTypes' /\ Counts'
    BY <1>4, <2>1, <2>2 DEF Inv, OutTypes, InTypes, Counts
  <2>4. Fresh' /\ Reports' /\ Losses'
    <3>1. (Doomed(stack) <=> FALSE) /\ (Tells(stack) <=> FALSE)
      BY <1>1, <1>2, OfEmpty DEF On
    <3> QED
      BY <1>2, <1>4, <1>10, <2>1, <3>1 DEF Inv, Fresh, Reports, Losses
  <2>5. Armed'
    BY <1>1, <1>2, <1>4, <1>10, <2>1, <2>2 DEF Inv, Armed, Comes, Writable, Readable, Room
  <2> QED
    BY <2>1, <2>2, <2>3, <2>4, <2>5 DEF Inv
<1>11. CASE \/ mSocketState # "Connecting" /\ stack' = v /\ mSocketState' = mSocketState
            \/ mSocketState' = "Connected" /\ stack' = (IF attached THEN Push(c, v) ELSE v)
  <2>1. /\ Linked' /\ Cur(stack') = First(stack') /\ First(stack') \in {w, c}
        /\ Bottom(stack') = w
        /\ mSocketState' # "Connecting"
        /\ ~Doomed(stack') /\ ~Telling(stack') /\ ~Tells(stack')
    <3>1. CASE stack' = v
      BY <1>2, <1>3, <1>7, <1>11, <3>1, OfEmpty DEF On, Linked, Cur, Notes
    <3>2. CASE stack' = Push(c, v)
      BY <1>2, <1>3, <1>7, <1>9, <1>11, <3>2, OfEmpty DEF On, Linked, Cur, Notes
    <3> QED
      BY <1>11, <3>1, <3>2
  <2>2. Books' /\ Cur(stack) = f
    <3>1. Skip(f) = 0 /\ Left(f) = <<>> /\ More(f, Nxt(stack)) = <<>> /\ Untold(f) = 0 /\ Cur(stack) = f
      BY <1>1, <1>2 DEF Skip, Left, More, Writing, Untold, Cur, Notes
    <3>2. Left(First(stack')) = <<>> /\ Skip(First(stack')) = 0 /\ Untold(First(stack')) = 0
      BY <1>3, <2>1 DEF Left, Skip, Untold
    <3>3. More(First(stack'), Nxt(stack')) = <<>>
      <4>1. CASE stack' = v
        <5>1. Nxt(stack') = First(t) /\ First(t).at = "base"
          BY <1>1, <1>2, <1>3, <1>7, <4>1 DEF On, Nxt, Notes
        <5> QED
          BY <5>1 DEF More
      <4>2. CASE stack' = Push(c, v)
        BY <1>3, <1>9, <4>2 DEF On, More, Writing
      <4> QED
        BY <1>11, <4>1, <4>2
    <3> QED
      BY <1>1, <1>2, <1>3, <1>4, <2>1, <3>1, <3>2, <3>3, BooksKept DEF Inv, Failing, Notes
  <2>3. OutTypes' /\ InTypes' /\ Counts'
    BY <1>3, <1>4, <2>1, <2>2 DEF Inv, OutTypes, InTypes, Counts
  <2>4. Fresh' /\ Reports' /\ Losses'
    <3>1. (Doomed(stack) <=> FALSE) /\ (Tells(stack) <=> FALSE)
      BY <1>1, <1>2, OfEmpty DEF On
    <3> QED
      BY <1>2, <1>4, <2>1, <3>1 DEF Inv, Fresh, Reports, Losses
  <2>5. Armed'
    BY <1>1, <1>2, <1>3, <1>4, <2>1, <2>2 DEF Inv, Armed, Comes, Writable, Readable, Room
  <2> QED
    BY <2>1, <2>2, <2>3, <2>4, <2>5 DEF Inv
<1>12. CASE stack' = (IF attached THEN Push(e, u) ELSE u) /\ mSocketState' = mSocketState
  <2>1. /\ stack' \in Seq(Frames) /\ Chain(stack') /\ First(stack').at \in {"fail", "error"}
        /\ Bottom(stack).at = "writable" /\ Bottom(stack').at = "fail"
        /\ Doomed(stack') /\ (attached => Tells(stack'))
        /\ Telling(stack') => Telling(stack)
    BY <1>1, <1>2, <1>3, <1>6, <1>8, <1>12, OfEmpty DEF On
  <2> QED
    BY <1>1, <1>2, <1>4, <1>12, <2>1, Failed DEF Plain, Writing, Notes, Failing
<1> QED
  BY <1>5, <1>10, <1>11, <1>12

(* At rest. *)
LEMMA Resting ==
    ASSUME Inv, AtRest
    PROVE  /\ stack = <<>> /\ First(stack) = Base /\ Second(stack) = Base /\ Bottom(stack) = Base
           /\ Base.at = "base" /\ Base \in Frames
           /\ Cur(stack) = Base /\ Plain(Base) /\ ~Doomed(stack) /\ ~Telling(stack) /\ ~Tells(stack)
BY OfEmpty, BaseIsFrame DEF AtRest, Base, Frame, Cur, Notes, Plain, Writing

LEMMA OnEventKeeps ==
    ASSUME Inv, OnEvent, UNCHANGED connVars
    PROVE  Inv'
<1> DEFINE mode == Ready(interest)
           n == Callback(mode)
<1>1. /\ stack = <<>> /\ First(stack) = Base /\ Bottom(stack) = Base /\ Base.at = "base" /\ Plain(Base)
      /\ Cur(stack) = Base /\ ~Doomed(stack) /\ ~Tells(stack)
  BY Resting DEF OnEvent
<1>2. /\ mode \in SUBSET {"Read", "Write"} /\ mode # {}
      /\ "Read" \in mode <=> Readable /\ interest \in {"read", "readwrite"}
      /\ "Write" \in mode <=> Writable /\ interest = "readwrite"
  BY DEF OnEvent, Ready
<1>3. /\ Open /\ mReadBuffer = <<>>
      /\ UNCHANGED <<mWriteBuffer, mWriteOffset, linkVars, kernelVars, mReadBuffer, attached, ret>>
      /\ stack' = <<n>>
  BY DEF OnEvent, Claimed
<1>4. \/ /\ mWriteWait /\ "Write" \in mode
         /\ interest' = "read" /\ queued' = (Ready("read") # {}) /\ mWriteWait' = FALSE
      \/ /\ ~(mWriteWait /\ "Write" \in mode)
         /\ interest' = IF interest = "readwrite" THEN "disarmed" ELSE interest
         /\ queued' = FALSE /\ mWriteWait' = mWriteWait
  BY DEF OnEvent, Arm
<1> HIDE DEF mode
<1>5. /\ n \in Frames /\ n.mode = mode /\ n.total = 0
      /\ n.at = (IF "Read" \in mode THEN "read" ELSE "writable")
  <2>1. Frame("read") \in Frames /\ Frame("read").at = "read" /\ Frame("read").total = 0
    BY FrameIs DEF Places
  <2>2. Frame("writable") \in Frames /\ Frame("writable").at = "writable" /\ Frame("writable").total = 0
    BY FrameIs DEF Places
  <2> QED
    BY <1>2, <2>1, <2>2 DEF Callback, Frames
<1> HIDE DEF n
<1>6. stack' = Push(n, <<>>)
  <2>1. n \in Frames /\ <<>> \in Seq(Frames)
    BY <1>5, OfEmpty
  <2>2. <<n>> = Push(n, <<>>)
    <3>1. PushesOf(n, n, n, <<>>)
      BY <2>1, PushForms
    <3> QED
      BY <3>1 DEF PushesOf
  <2> QED
    BY <1>3, <2>2
<1>7. /\ On(stack', n, <<>>) /\ Linked' /\ First(stack') = n /\ Bottom(stack') = n
      /\ ~Doomed(stack') /\ ~Telling(stack') /\ ~Tells(stack')
  <2>1. <<>> \in Seq(Frames) /\ Chain(<<>>) /\ First(<<>>) = Base /\ Fits(n, First(<<>>))
    BY <1>1, <1>5, OfEmpty DEF Fits, Writing
  <2> DEFINE e == <<>>
  <2>2. e \in Seq(Frames) /\ Chain(e) /\ Fits(n, First(e)) /\ stack' = Push(n, e)
    BY <1>6, <2>1
  <2> HIDE DEF e
  <2>3. On(stack', n, e) /\ Linked'
    BY <1>5, <2>2, OnPush DEF Linked
  <2> QED
    BY <1>5, <2>3, OfEmpty DEF On, e
<1>8. Books' /\ Cur(stack') = n
  BY <1>1, <1>3, <1>5, <1>7, PlainStep DEF Plain, Writing, Notes, Failing
<1>9. OutTypes' /\ InTypes' /\ Counts'
  BY <1>3, <1>5, <1>7, <1>8 DEF Inv, OutTypes, InTypes, Counts
<1>10. Fresh' /\ Reports' /\ Losses'
  BY <1>1, <1>3, <1>7 DEF Inv, Fresh, Reports, Losses
<1>11. Armed'
  <2>1. (Writable' <=> Writable) /\ (Readable' <=> Readable)
    BY <1>3 DEF Writable, Readable, Room
  <2>2. Readable => Ready("read") # {}
    BY DEF Ready
  <2>3. /\ mWriteWait => interest \in {"readwrite", "disarmed"}
        /\ ~mWriteWait => interest = "read"
        /\ interest # "disarmed"
        /\ ~mWriteWait => mSocketState # "Connecting" /\ ~(mWriteOffset < Len(mWriteBuffer))
    BY <1>1, <1>3 DEF Inv, Armed, Comes
  <2> QED
    BY <1>2, <1>3, <1>4, <1>5, <1>7, <1>8, <2>1, <2>2, <2>3 DEF Armed, Comes
<1> QED
  BY <1>7, <1>8, <1>9, <1>10, <1>11 DEF Inv
-----------------------------------------------------------------------------
(* The kernel and the peer. *)

(* The stack stays as it is. *)
LEMMA StackKept ==
    ASSUME Inv, stack' = stack
    PROVE  /\ Linked' /\ First(stack') = First(stack) /\ Bottom(stack') = Bottom(stack)
           /\ Cur(stack') = Cur(stack) /\ Nxt(stack') = Nxt(stack)
           /\ Doomed(stack') <=> Doomed(stack)
           /\ Telling(stack') <=> Telling(stack)
           /\ Tells(stack') <=> Tells(stack)
BY DEF Inv, Linked

(* The kernel takes part in nothing but what Armed is about. *)
LEMMA KernelStep ==
    ASSUME Inv, peer # "none", peer' # "none",
           UNCHANGED <<outVars, linkVars, interest, accepted, mReadBuffer, attached, stack, ret,
                       timerVars, inVars, sendVars, plan, toldVars>>,
           drained' \in Nat, incoming' \in Seq(Octets), toCome' \in Seq(Octets),
           queued' \in BOOLEAN, queued => queued',
           Open /\ interest = "readwrite" /\ Writable' => Writable \/ queued',
           Open /\ interest \in {"read", "readwrite"} /\ Readable' => Readable \/ queued'
    PROVE  Inv'
<1>1. /\ Linked' /\ First(stack') = First(stack) /\ Bottom(stack') = Bottom(stack)
      /\ Cur(stack') = Cur(stack) /\ Nxt(stack') = Nxt(stack)
      /\ Doomed(stack') <=> Doomed(stack)
      /\ Telling(stack') <=> Telling(stack)
      /\ Tells(stack') <=> Tells(stack)
  BY StackKept
<1>2. OutTypes' /\ InTypes' /\ Counts' /\ Fresh' /\ Reports' /\ Losses'
  BY <1>1 DEF Inv, OutTypes, InTypes, Counts, Fresh, Reports, Losses
<1>3. Books'
  BY <1>1 DEF Inv, Books, Pending
<1>4. Armed'
  BY <1>1 DEF Inv, Armed
<1> QED
  BY <1>1, <1>2, <1>3, <1>4 DEF Inv

LEMMA DrainKeeps ==
    ASSUME Inv, Drain, UNCHANGED connVars
    PROVE  Inv'
<1>1. /\ peer = "open" /\ UNCHANGED <<outVars, linkVars, interest, accepted, incoming, peer,
                                     mReadBuffer, attached, stack, ret, connVars>>
      /\ queued' = (queued \/ interest = "readwrite")
  BY DEF Drain, Notice
<1>2. drained' \in Nat
  BY DEF Inv, OutTypes, Drain
<1>3. Readable' => Readable
  BY <1>1 DEF Readable
<1>4. incoming' \in Seq(Octets) /\ toCome' \in Seq(Octets)
  BY <1>1 DEF Inv, InTypes
<1> QED
  BY <1>1, <1>2, <1>3, <1>4, KernelStep

LEMMA PeerMovesKeeps ==
    ASSUME Inv, PeerMoves, UNCHANGED connVars
    PROVE  Inv'
<1>1. /\ peer # "none" /\ peer' # "none"
      /\ UNCHANGED <<outVars, linkVars, interest, accepted, drained, incoming,
                     mReadBuffer, attached, stack, ret, connVars>>
      /\ queued' = (queued \/ interest \in {"read", "readwrite"})
  BY DEF PeerMoves, Notice
<1>2. drained' \in Nat /\ incoming' \in Seq(Octets) /\ toCome' \in Seq(Octets)
  BY <1>1 DEF Inv, OutTypes, InTypes
<1> QED
  BY <1>1, <1>2, KernelStep

LEMMA ArriveKeeps ==
    ASSUME Inv, Arrive
    PROVE  Inv'
<1>1. /\ peer = "open" /\ UNCHANGED <<outVars, linkVars, interest, accepted, drained, peer,
                                     mReadBuffer, attached, stack, ret, timerVars, inVars, sendVars, plan, toldVars>>
      /\ queued' = (queued \/ interest \in {"read", "readwrite"})
  BY DEF Arrive, Notice
<1>2. incoming' \in Seq(Octets) /\ toCome' \in Seq(Octets)
  BY HeadTailProperties, AppendProperties DEF Arrive, Inv, InTypes
<1>3. drained' \in Nat
  BY <1>1 DEF Inv, OutTypes
<1> QED
  BY <1>1, <1>2, <1>3, KernelStep
-----------------------------------------------------------------------------
(* Making the connection. *)

LEMMA OneFrame ==
    ASSUME NEW f \in Frames, Fits(f, Base)
    PROVE  /\ <<f>> = Push(f, <<>>) /\ <<f>> \in Seq(Frames) /\ Chain(<<f>>)
           /\ First(<<f>>) = f /\ Second(<<f>>) = Base /\ Bottom(<<f>>) = f
           /\ Doomed(<<f>>) <=> f.at = "fail"
           /\ Telling(<<f>>) <=> f.at \in {"connectFailed", "mDisconnected"}
           /\ Tells(<<f>>) <=> f.at \in {"connectFailed", "mDisconnected", "disconnected", "error"}
<1> DEFINE e == <<>>
           s == <<f>>
<1>1. e \in Seq(Frames) /\ Chain(e) /\ First(e) = Base /\ e = <<>>
      /\ ~Doomed(e) /\ ~Telling(e) /\ ~Tells(e)
  BY OfEmpty
<1> HIDE DEF e
<1>2. s = Push(f, e)
  <2>1. <<f>> = Push(f, <<>>)
    <3>1. PushesOf(f, f, f, <<>>)
      BY <1>1, PushForms
    <3> QED
      BY <3>1 DEF PushesOf
  <2> QED
    BY <1>1, <2>1
<1> HIDE DEF s
<1>3. On(s, f, e) /\ s \in Seq(Frames) /\ Chain(s)
  BY <1>1, <1>2, OnPush
<1>4. /\ s = Push(f, e) /\ s \in Seq(Frames) /\ Chain(s)
      /\ First(s) = f /\ Second(s) = Base /\ Bottom(s) = f
      /\ Doomed(s) <=> f.at = "fail"
      /\ Telling(s) <=> f.at \in {"connectFailed", "mDisconnected"}
      /\ Tells(s) <=> f.at \in {"connectFailed", "mDisconnected", "disconnected", "error"}
  BY <1>1, <1>2, <1>3 DEF On
<1> QED
  BY <1>4 DEF s, e

(* There is nothing to be written before the first message. *)
LEMMA NothingPending ==
    ASSUME NEW o \in Nat, o = 0
    PROVE  PendingOf(<<>>, o, <<>>, <<>>) = <<>> /\ <<>> \o <<>> = <<>> /\ Len(<<>>) = 0
<1>1. <<>> \in Seq(Octets) /\ <<>> \o <<>> = <<>> /\ Len(<<>>) = 0 /\ SubSeq(<<>>, 1, 0) = <<>>
  BY EmptySeq, ConcatEmptySeq
<1> QED
  BY <1>1 DEF PendingOf

LEMMA ConnectToKeeps ==
    ASSUME Inv, NEW outcome, NEW timeout,
           outcome \in {"connected", "inProgress", "fails", "unresolved", "noSocket"},
           ConnectTo(outcome, timeout)
    PROVE  Inv'
<1> DEFINE c == Frame("connected")
           e == Frame("error")
           n == Frame("fail")
           k == Frame("connectFailed")
           t == <<k>>
           u == Push(n, t)
<1>1. /\ peer = "none" /\ stack = <<>> /\ ~Open /\ mSocketState = "Disconnected" /\ ~mWriteWait
      /\ sent = <<>> /\ accepted = <<>> /\ mWriteBuffer = <<>> /\ mPendingWrite = 0 /\ incoming = <<>>
      /\ mWriteOffset = 0
  <2>1. peer = "none"
    BY DEF ConnectTo, Connect
  <2> QED
    BY <2>1 DEF Inv, Fresh, OutTypes
<1>2. /\ c \in Frames /\ c.at = "connected" /\ e \in Frames /\ e.at = "error"
      /\ n \in Frames /\ n.at = "fail" /\ k \in Frames /\ k.at = "connectFailed" /\ Base.at = "base"
  BY FrameIs DEF Places, Base, Frame
<1>3. UNCHANGED <<mWriteBuffer, mWriteOffset, accepted, drained, incoming, mReadBuffer, attached, ret,
                  mCheckTimer, inVars, sendVars, peerVars, mIsConnected, quiet, told>>
  BY DEF ConnectTo, Connect
<1>4. \/ /\ Open' /\ mSocketState' = "Connected" /\ peer' = "open" /\ interest' = "read"
         /\ mWriteWait' = mWriteWait /\ stack' = <<c>>
      \/ /\ Open' /\ mSocketState' = "Connecting" /\ peer' = "connecting" /\ interest' = "readwrite"
         /\ mWriteWait' = TRUE /\ stack' = <<>>
      \/ /\ Open' /\ peer' = "refused" /\ interest' = "read" /\ stack' = Push(e, u)
         /\ UNCHANGED <<mSocketState, mWriteWait>>
      \/ /\ peer' = "refused" /\ stack' \in {Push(e, t), t}
         /\ UNCHANGED <<mFd, mSocketState, mWriteWait, pollVars>>
  <2> DEFINE C == Connect(outcome, <<Frame("connectFailed")>>)
  <2>1. C
    BY DEF ConnectTo
  <2>2. AnFd # NoFd
    BY DEF AnFd, NoFd
  <2>3. CASE outcome = "connected"
    BY <2>1, <2>2, <2>3 DEF Connect
  <2>4. CASE outcome = "inProgress"
    BY <2>1, <2>2, <2>4 DEF Connect
  <2>5. CASE outcome = "fails"
    <3>1. /\ mFd' = AnFd /\ peer' = "refused" /\ interest' = "read"
          /\ stack' = <<e, n>> \o t /\ UNCHANGED <<mSocketState, mWriteWait>>
      BY <2>1, <2>5 DEF Connect
    <3>2. t \in Seq(Frames)
      BY <1>2
    <3> HIDE DEF e, n, t
    <3>3. <<e, n>> \o t = Push(e, Push(n, t))
      <4>1. PushesOf(e, n, n, t)
        BY <1>2, <3>2, PushForms
      <4> QED
        BY <4>1 DEF PushesOf
    <3> QED
      BY <2>2, <3>1, <3>3
  <2>6. CASE outcome \in {"unresolved", "noSocket"}
    <3>1. /\ peer' = "refused" /\ UNCHANGED <<mFd, mSocketState, mWriteWait, pollVars>>
          /\ stack' = (IF outcome = "unresolved" THEN <<e>> ELSE <<>>) \o t
      BY <2>1, <2>6 DEF Connect
    <3>2. t \in Seq(Frames)
      BY <1>2
    <3> HIDE DEF e, n, t
    <3>3. <<e>> \o t = Push(e, t) /\ <<>> \o t = t
      <4>1. PushesOf(e, e, e, t)
        BY <1>2, <3>2, PushForms
      <4> QED
        BY <4>1 DEF PushesOf
    <3> QED
      BY <3>1, <3>3
  <2> QED
    BY <2>3, <2>4, <2>5, <2>6
<1> HIDE DEF c, e, n, k
<1>5. /\ <<c>> \in Seq(Frames) /\ Chain(<<c>>) /\ First(<<c>>) = c /\ Bottom(<<c>>) = c
      /\ Second(<<c>>) = Base
      /\ ~Doomed(<<c>>) /\ ~Telling(<<c>>) /\ ~Tells(<<c>>)
  <2>1. Fits(c, Base)
    BY <1>2 DEF Fits, Writing
  <2> QED
    BY <1>2, <2>1, OneFrame
<1>6. /\ t \in Seq(Frames) /\ Chain(t) /\ First(t) = k /\ Bottom(t) = k /\ t # <<>>
      /\ ~Doomed(t) /\ Telling(t) /\ Tells(t)
  <2>1. Fits(k, Base)
    BY <1>2 DEF Fits, Writing
  <2> QED
    BY <1>2, <2>1, OneFrame
<1> HIDE DEF t
<1>7. On(u, n, t) /\ u \in Seq(Frames) /\ Chain(u)
  <2>1. Fits(n, First(t))
    BY <1>2, <1>6 DEF Fits, Writing
  <2> QED
    BY <1>2, <1>6, <2>1, OnPush
<1> HIDE DEF u
<1>8. On(Push(e, u), e, u) /\ Push(e, u) \in Seq(Frames) /\ Chain(Push(e, u))
  <2>1. Fits(e, First(u))
    BY <1>2, <1>7 DEF On, Fits, Writing
  <2> QED
    BY <1>2, <1>7, <2>1, OnPush
<1>9. On(Push(e, t), e, t) /\ Push(e, t) \in Seq(Frames) /\ Chain(Push(e, t))
  <2>1. Fits(e, First(t))
    BY <1>2, <1>6 DEF Fits, Writing
  <2> QED
    BY <1>2, <1>6, <2>1, OnPush
<1>10. /\ Linked' /\ Cur(stack') = First(stack')
       /\ First(stack').at \in {"connected", "base", "error", "connectFailed"}
       /\ Open' /\ First(stack').at \notin Failing => stack' \in {<<>>, <<c>>}
       /\ Bottom(stack').at = First(stack').at \/ Bottom(stack').at = "connectFailed"
       /\ Open' /\ Telling(stack') => Doomed(stack')
       /\ Tells(stack') \/ (Open' /\ ~Doomed(stack'))
  <2>1. CASE stack' = <<c>> /\ Open'
    BY <1>2, <1>5, <2>1 DEF Linked, Cur, Notes
  <2>2. CASE stack' = <<>> /\ Open'
    BY <1>2, <2>2, OfEmpty DEF Linked, Cur, Notes
  <2>3. CASE stack' = Push(e, u)
    BY <1>2, <1>6, <1>7, <1>8, <2>3 DEF On, Linked, Cur, Notes, Failing
  <2>4. CASE stack' = Push(e, t) /\ ~Open'
    BY <1>2, <1>6, <1>9, <2>4 DEF On, Linked, Cur, Notes, Failing
  <2>5. CASE stack' = t /\ ~Open'
    BY <1>2, <1>6, <2>5 DEF Linked, Cur, Notes, Failing
  <2> QED
    BY <1>1, <1>4, <2>1, <2>2, <2>3, <2>4, <2>5
<1>11. OutTypes' /\ InTypes' /\ Counts'
  BY <1>1, <1>3, <1>10 DEF Inv, OutTypes, InTypes, Counts
<1>12. Fresh' /\ Reports' /\ Losses'
  BY <1>4, <1>10 DEF Fresh, Reports, Losses
<1>13. Books'
  <2>1. IsPrefix(accepted', sent')
    BY <1>3 DEF Inv, Books
  <2>2. ASSUME Open', First(stack').at \notin Failing
        PROVE  accepted' \o Pending' = sent' /\ mPendingWrite' = Len(Pending') + Untold(First(stack'))
    <3>1. Nxt(stack') = Base
      BY <1>2, <1>5, <1>10, <2>2, OfEmpty DEF Nxt, Notes
    <3>2. Pending' = PendingOf(<<>>, 0, <<>>, <<>>)
      BY <1>1, <1>3, <1>10, <2>2, <3>1 DEF Pending, Skip, Left, More, Writing
    <3>3. Pending' = <<>> /\ <<>> \o <<>> = <<>> /\ Len(<<>>) = 0
      BY <3>2, NothingPending
    <3>4. Untold(First(stack')) = 0
      BY <1>10 DEF Untold
    <3> QED
      BY <1>1, <1>3, <3>3, <3>4
  <2> QED
    BY <1>1, <1>3, <1>10, <2>1, <2>2 DEF Inv, Books
<1>14. Armed'
  <2>1. incoming' = <<>> /\ mWriteBuffer' = <<>> /\ ~(mWriteOffset' < Len(mWriteBuffer'))
    BY <1>1, <1>3
  <2>2. CASE Open' /\ mSocketState' = "Connected"
    BY <1>1, <1>4, <1>10, <2>1, <2>2 DEF Armed, Comes, Readable
  <2>3. CASE Open' /\ mSocketState' = "Connecting"
    BY <1>1, <1>4, <1>10, <2>1, <2>3 DEF Armed, Comes, Readable, Writable
  <2>4. CASE Open' /\ mSocketState' = "Disconnected"
    <3>1. stack' = Push(e, u) /\ interest' = "read" /\ ~mWriteWait' /\ Bottom(stack') = k
      BY <1>1, <1>4, <1>6, <1>7, <1>8, <2>4 DEF On
    <3> QED
      BY <1>2, <1>10, <2>1, <2>4, <3>1 DEF Armed, Comes
  <2> QED
    BY <1>1, <1>4, <2>2, <2>3, <2>4 DEF Armed
<1> QED
  BY <1>10, <1>11, <1>12, <1>13, <1>14 DEF Inv

LEMMA ConnectFailedKeeps ==
    ASSUME Inv, ConnectFailed
    PROVE  Inv'
<1> DEFINE f == Top
           t == Below
<1>1. On(stack, f, t) /\ f.at = "connectFailed"
  BY Inside DEF ConnectFailed
<1>2. /\ stack' = t /\ quiet' = TRUE /\ mSocketClient' = FALSE
      /\ UNCHANGED <<outVars, linkVars, pollVars, kernelVars, mReadBuffer, attached, ret,
                     timerVars, inVars, sendVars, peerVars, mIsConnected, told>>
  BY DEF ConnectFailed
<1> HIDE DEF f, t
<1>3. First(stack) = f /\ stack # <<>> /\ t = <<>>
  BY <1>1 DEF On, Fits
<1>4. ~Open
  BY <1>1, <1>3, OfEmpty DEF Inv, Reports, On
<1>5. First(t).at = "base" /\ Linked'
  BY <1>2, <1>3, OfEmpty DEF Linked, Base, Frame
<1>6. Books' /\ Cur(stack') = First(stack')
  BY <1>1, <1>2, <1>3, <1>4, <1>5, PlainStep DEF Plain, Writing, Notes
<1>7. OutTypes' /\ InTypes' /\ Counts' /\ Fresh' /\ Reports' /\ Losses' /\ Armed'
  BY <1>2, <1>3, <1>4, <1>5, <1>6
     DEF Inv, OutTypes, InTypes, Counts, Fresh, Reports, Losses, Armed
<1> QED
  BY <1>5, <1>6, <1>7 DEF Inv

LEMMA AttachKeeps ==
    ASSUME Inv, Attach
    PROVE  Inv'
<1>1. /\ stack' = stack /\ attached' = TRUE /\ mFd # NoFd
      /\ UNCHANGED <<outVars, linkVars, pollVars, kernelVars, mReadBuffer, stack, ret,
                     mTimeoutTimer, inVars, sendVars, peerVars, mSocketClient, quiet, told>>
  BY DEF Attach
<1>2. ~Doomed(stack)
  BY Resting DEF Attach
<1>3. /\ Linked' /\ First(stack') = First(stack) /\ Bottom(stack') = Bottom(stack)
      /\ Cur(stack') = Cur(stack) /\ Nxt(stack') = Nxt(stack)
      /\ Doomed(stack') <=> Doomed(stack)
      /\ Telling(stack') <=> Telling(stack)
  BY <1>1, StackKept
<1>4. OutTypes' /\ InTypes' /\ Counts' /\ Fresh' /\ Reports' /\ Losses'
  BY <1>1, <1>2, <1>3 DEF Inv, OutTypes, InTypes, Counts, Fresh, Reports, Losses
<1>5. Books'
  BY <1>1, <1>3 DEF Inv, Books, Pending
<1>6. Armed'
  BY <1>1, <1>3 DEF Inv, Armed, Writable, Readable, Room
<1> QED
  BY <1>3, <1>4, <1>5, <1>6 DEF Inv

LEMMA CheckDataKeeps ==
    ASSUME Inv, CheckData
    PROVE  Inv'
<1> DEFINE r == Frame("readyRead")
<1>1. /\ stack = <<>> /\ First(stack) = Base /\ Bottom(stack) = Base /\ Base.at = "base" /\ Plain(Base)
      /\ Cur(stack) = Base /\ ~Doomed(stack) /\ ~Telling(stack) /\ ~Tells(stack)
  BY Resting DEF CheckData
<1>2. r \in Frames /\ r.at = "readyRead"
  BY FrameIs DEF Places
<1>3. /\ mCheckTimer /\ stack' \in {<<r>>, <<>>}
      /\ UNCHANGED <<outVars, linkVars, pollVars, kernelVars, mReadBuffer, attached, ret,
                     mTimeoutTimer, inVars, sendVars, peerVars, toldVars>>
  BY DEF CheckData
<1> HIDE DEF r
<1>4. Fits(r, Base)
  BY <1>1, <1>2 DEF Fits, Writing
<1>5. /\ Linked' /\ First(stack').at \in {"base", "readyRead"} /\ Bottom(stack').at \in {"base", "readyRead"}
      /\ ~Doomed(stack') /\ ~Telling(stack') /\ ~Tells(stack')
  <2>1. CASE stack' = <<>>
    BY <1>1, <2>1, OfEmpty DEF Linked
  <2>2. CASE stack' = <<r>>
    BY <1>2, <1>4, <2>2, OneFrame DEF Linked
  <2> QED
    BY <1>3, <2>1, <2>2
<1>6. Books' /\ Cur(stack') = First(stack')
  BY <1>1, <1>3, <1>5, PlainStep DEF Plain, Writing, Notes, Failing
<1>7. OutTypes' /\ InTypes' /\ Counts'
  BY <1>3, <1>5, <1>6 DEF Inv, OutTypes, InTypes, Counts
<1>8. Fresh' /\ Reports' /\ Losses'
  BY <1>1, <1>3, <1>5 DEF Inv, Fresh, Reports, Losses
<1>9. Armed'
  BY <1>1, <1>3, <1>5, <1>6 DEF Inv, Armed, Comes, Writable, Readable, Room
<1> QED
  BY <1>5, <1>6, <1>7, <1>8, <1>9 DEF Inv

(* The socket is closed, or was. *)
LEMMA ClosedNow ==
    ASSUME Inv, ~Open', Linked', First(stack').at \notin Notes, peer # "none", peer' = peer,
           OutTypes', InTypes', Counts',
           attached' = attached, told' = told, quiet => quiet', quiet' \/ Tells(stack'),
           UNCHANGED <<accepted, sent>>
    PROVE  Inv'
<1>1. Fresh' /\ Reports' /\ Losses' /\ Armed'
  BY DEF Inv, Fresh, Reports, Losses, Armed
<1>2. Books'
  BY DEF Inv, Books, Notes
<1> QED
  BY <1>1, <1>2 DEF Inv

LEMMA TimeoutFiresKeeps ==
    ASSUME Inv, TimeoutFires
    PROVE  Inv'
<1> DEFINE d == Frame("mDisconnected")
<1>1. /\ stack = <<>> /\ First(stack) = Base /\ Cur(stack) = Base /\ Base.at = "base"
  BY Resting DEF TimeoutFires
<1>2. d \in Frames /\ d.at = "mDisconnected"
  BY FrameIs DEF Places, Slots
<1>3. peer # "none"
  BY DEF TimeoutFires, Inv, Fresh
<1>4. UNCHANGED <<outVars, kernelVars, mReadBuffer, attached, ret, mCheckTimer, inVars,
                  sendVars, peerVars, mIsConnected, quiet, told>>
  BY DEF TimeoutFires
<1>5. \/ UNCHANGED <<linkVars, pollVars, mSocketClient, stack>>
      \/ mFd' = NoFd /\ stack' = <<d>>
  BY DEF TimeoutFires, Close
<1> HIDE DEF d
<1>6. CASE UNCHANGED <<linkVars, pollVars, mSocketClient, stack>>
  <2>1. /\ Linked' /\ First(stack') = First(stack) /\ Bottom(stack') = Bottom(stack)
        /\ Cur(stack') = Cur(stack) /\ Nxt(stack') = Nxt(stack)
        /\ Doomed(stack') <=> Doomed(stack)
        /\ Telling(stack') <=> Telling(stack)
        /\ Tells(stack') <=> Tells(stack)
    BY <1>6, StackKept
  <2>2. OutTypes' /\ InTypes' /\ Counts' /\ Fresh' /\ Reports' /\ Losses'
    BY <1>3, <1>4, <1>6, <2>1 DEF Inv, OutTypes, InTypes, Counts, Fresh, Reports, Losses
  <2>3. Books'
    BY <1>4, <1>6, <2>1 DEF Inv, Books, Pending
  <2>4. Armed'
    BY <1>4, <1>6, <2>1 DEF Inv, Armed, Writable, Readable, Room
  <2> QED
    BY <2>1, <2>2, <2>3, <2>4 DEF Inv
<1>7. CASE mFd' = NoFd /\ stack' = <<d>>
  <2>1. Fits(d, Base)
    BY <1>1, <1>2 DEF Fits, Writing
  <2>2. Linked' /\ First(stack') = d /\ Tells(stack') /\ Cur(stack') = d
    BY <1>2, <1>7, <2>1, OneFrame DEF Linked, Cur, Notes
  <2>3. OutTypes' /\ InTypes' /\ Counts'
    BY <1>2, <1>4, <2>2 DEF Inv, OutTypes, InTypes, Counts
  <2> QED
    BY <1>2, <1>3, <1>4, <1>7, <2>2, <2>3, ClosedNow DEF Notes
<1> QED
  BY <1>5, <1>6, <1>7
-----------------------------------------------------------------------------
(* The slots of SocketClient's signals. *)

(* What the frame below says of the stack. *)
LEMMA FirstIn ==
    ASSUME NEW t \in Seq(Frames), Chain(t)
    PROVE  /\ First(t).at = "fail" => Doomed(t)
           /\ First(t).at \in {"connectFailed", "mDisconnected"} => Telling(t) /\ Tells(t)
           /\ First(t).at = "connectFailed" => ~Doomed(t)
           /\ First(t) \in Frames
<1>1. CASE t = <<>>
  <2>1. First(t) = Base /\ Base.at = "base"
    BY <1>1 DEF First, Base, Frame
  <2> QED
    BY <2>1, BaseIsFrame
<1>2. CASE t # <<>>
  <2> DEFINE f == Head(t)
             r == Tail(t)
  <2>1. On(t, f, r)
    BY <1>2, TopAndBelow
  <2> HIDE DEF f, r
  <2>2. First(t).at = "connectFailed" => r = <<>>
    BY <2>1 DEF On, Fits
  <2> QED
    BY <2>1, <2>2, OfEmpty DEF On
<1> QED
  BY <1>1, <1>2

LEMMA OnClientConnectedKeeps ==
    ASSUME Inv, OnClientConnected
    PROVE  Inv'
<1> DEFINE f == Top
           t == Below
           n == Frame("mConnected")
<1>1. On(stack, f, t) /\ f.at = "connected"
  BY Inside DEF OnClientConnected
<1>2. n \in Frames /\ n.at = "mConnected"
  BY FrameIs DEF Places, Slots
<1>3. /\ stack' = Push(n, t)
      /\ UNCHANGED <<outVars, linkVars, pollVars, kernelVars, mReadBuffer, attached, ret,
                     timerVars, inVars, sendVars, peerVars, mSocketClient, quiet, told>>
  BY DEF OnClientConnected, Goto, Push
<1> HIDE DEF f, t, n
<1>4. On(stack', n, t) /\ Linked'
  BY <1>1, <1>2, <1>3, OnPush DEF On, Fits, Linked, Writing
<1>5. First(stack) = f /\ First(stack') = n
  BY <1>1, <1>4 DEF On
<1>6. Books' /\ Cur(stack) = f /\ Cur(stack') = n
  BY <1>1, <1>2, <1>3, <1>5, PlainStep DEF Plain, Writing, Notes, Failing
<1>7. OutTypes' /\ InTypes' /\ Counts'
  BY <1>2, <1>3, <1>5, <1>6 DEF Inv, OutTypes, InTypes, Counts
<1>8. Fresh' /\ Reports' /\ Losses'
  BY <1>1, <1>2, <1>3, <1>4 DEF Inv, Fresh, Reports, Losses, On
<1>9. Armed'
  <2>1. Bottom(stack) = (IF t = <<>> THEN f ELSE Bottom(t)) /\ Bottom(stack') = (IF t = <<>> THEN n ELSE Bottom(t))
    BY <1>1, <1>4 DEF On
  <2> QED
    BY <1>1, <1>2, <1>3, <1>6, <2>1 DEF Inv, Armed, Comes, Writable, Readable, Room
<1> QED
  BY <1>4, <1>6, <1>7, <1>8, <1>9 DEF Inv

LEMMA OnClientDisconnectedKeeps ==
    ASSUME Inv, OnClientDisconnected
    PROVE  Inv'
<1> DEFINE f == Top
           t == Below
           n == Frame("mDisconnected")
<1>1. On(stack, f, t) /\ f.at = "disconnected"
  BY Inside DEF OnClientDisconnected
<1>2. n \in Frames /\ n.at = "mDisconnected"
  BY FrameIs DEF Places, Slots
<1>3. /\ stack' = Push(n, t)
      /\ UNCHANGED <<outVars, linkVars, pollVars, kernelVars, mReadBuffer, attached, ret,
                     timerVars, inVars, sendVars, peerVars, mSocketClient, quiet, told>>
  BY DEF OnClientDisconnected, Goto, Push
<1> HIDE DEF f, t, n
<1>4. On(stack', n, t) /\ Linked'
  BY <1>1, <1>2, <1>3, OnPush DEF On, Fits, Linked, Writing
<1>5. First(stack) = f /\ First(stack') = n
  BY <1>1, <1>4 DEF On
<1>6. Books' /\ Cur(stack) = f /\ Cur(stack') = n
  BY <1>1, <1>2, <1>3, <1>5, PlainStep DEF Plain, Writing, Notes, Failing
<1>7. OutTypes' /\ InTypes' /\ Counts'
  BY <1>2, <1>3, <1>5, <1>6 DEF Inv, OutTypes, InTypes, Counts
<1>8. Fresh' /\ Reports' /\ Losses'
  <2>1. Doomed(t)
    BY <1>1, FirstIn DEF On, Fits
  <2> QED
    BY <1>1, <1>2, <1>3, <1>4, <2>1 DEF Inv, Fresh, Reports, Losses, On
<1>9. Armed'
  <2>1. Bottom(stack) = (IF t = <<>> THEN f ELSE Bottom(t)) /\ Bottom(stack') = (IF t = <<>> THEN n ELSE Bottom(t))
    BY <1>1, <1>4 DEF On
  <2> QED
    BY <1>1, <1>2, <1>3, <1>6, <2>1 DEF Inv, Armed, Comes, Writable, Readable, Room
<1> QED
  BY <1>4, <1>6, <1>7, <1>8, <1>9 DEF Inv

LEMMA OnSocketErrorKeeps ==
    ASSUME Inv, OnSocketError
    PROVE  Inv'
<1> DEFINE f == Top
           t == Below
           e == Frame("mError")
           d == Frame("mDisconnected")
           u == Push(d, t)
<1>1. On(stack, f, t) /\ f.at = "error"
  BY Inside DEF OnSocketError
<1>2. e \in Frames /\ e.at = "mError" /\ d \in Frames /\ d.at = "mDisconnected" /\ t \in Seq(Frames)
  BY <1>1, FrameIs DEF Places, Slots, On
<1>3. UNCHANGED <<outVars, linkVars, pollVars, kernelVars, mReadBuffer, attached, ret, connVars>>
      /\ stack' = <<e, d>> \o t
  BY DEF OnSocketError
<1> HIDE DEF f, t, e, d
<1>4. stack' = Push(e, u)
  <2>1. <<e, d>> \o t = Push(e, Push(d, t))
    <3>1. PushesOf(e, d, d, t)
      BY <1>2, PushForms
    <3> QED
      BY <3>1 DEF PushesOf
  <2> QED
    BY <1>3, <2>1
<1>5. On(u, d, t) /\ u \in Seq(Frames) /\ Chain(u)
  BY <1>1, <1>2, OnPush DEF On, Fits, Writing
<1> HIDE DEF u
<1>6. On(stack', e, u) /\ Linked'
  BY <1>2, <1>4, <1>5, OnPush DEF On, Fits, Linked, Writing
<1>7. First(stack) = f /\ First(stack') = e
  BY <1>1, <1>6 DEF On
<1>8. Books' /\ Cur(stack) = f /\ Cur(stack') = e
  BY <1>1, <1>2, <1>3, <1>7, PlainStep DEF Plain, Writing, Notes, Failing
<1>9. OutTypes' /\ InTypes' /\ Counts'
  BY <1>2, <1>3, <1>7, <1>8 DEF Inv, OutTypes, InTypes, Counts
<1>10. Fresh' /\ Reports' /\ Losses'
  <2>1. First(t).at \in {"fail", "connectFailed"}
    BY <1>1 DEF On, Fits
  <2>2. First(t).at = "fail" => Doomed(t)
    BY <1>1, FirstIn DEF On
  <2>3. First(t).at = "connectFailed" => Telling(t)
    BY <1>1, FirstIn DEF On
  <2> QED
    BY <1>1, <1>2, <1>3, <1>5, <1>6, <2>1, <2>2, <2>3 DEF Inv, Fresh, Reports, Losses, On
<1>11. Armed'
  <2>1. Bottom(stack) = Bottom(t) /\ Bottom(stack') = Bottom(t)
    BY <1>1, <1>5, <1>6 DEF On, Fits
  <2> QED
    BY <1>1, <1>2, <1>3, <1>8, <2>1 DEF Inv, Armed, Comes, Writable, Readable, Room
<1> QED
  BY <1>6, <1>8, <1>9, <1>10, <1>11 DEF Inv

(* The frames that the invariants look at, and what is to be written. *)
LEMMA PendingType ==
    ASSUME Inv
    PROVE  /\ First(stack) \in Frames /\ Second(stack) \in Frames /\ Third(stack) \in Frames
           /\ Pending \in Seq(Octets) /\ Len(Pending) \in Nat
<1>1. ASSUME NEW s \in Seq(Frames) PROVE First(s) \in Frames /\ (s # <<>> => Tail(s) \in Seq(Frames))
  <2>1. CASE s = <<>>
    BY <2>1, BaseIsFrame DEF First
  <2>2. CASE s # <<>>
    BY <2>2, Pushed DEF First
  <2> QED
    BY <2>1, <2>2
<1>2. ASSUME NEW s \in Seq(Frames) PROVE Second(s) \in Frames
  BY <1>1, BaseIsFrame DEF Second
<1>3. ASSUME NEW s \in Seq(Frames) PROVE Third(s) \in Frames
  BY <1>1, <1>2, BaseIsFrame DEF Third
<1>4. First(stack) \in Frames /\ Second(stack) \in Frames /\ Third(stack) \in Frames
  BY <1>1, <1>2, <1>3 DEF Inv, Linked
<1> DEFINE c == Cur(stack)
           n == Nxt(stack)
<1>5. c \in Frames /\ n \in Frames
  BY <1>4 DEF Cur, Nxt
<1>6. /\ c.at = "flush" => c.goal = Len(mWriteBuffer) - mWriteOffset /\ c.total <= c.goal
      /\ c.at \in {"direct", "store"} => c.total <= Len(c.data)
  BY DEF Inv, Counts
<1>7. mWriteBuffer \in Seq(Octets) /\ Len(mWriteBuffer) \in Nat /\ mWriteOffset \in Nat
      /\ mWriteOffset <= Len(mWriteBuffer)
  BY DEF Inv, OutTypes
<1> HIDE DEF c, n
<1>8. c.data \in Seq(Octets) /\ Len(c.data) \in Nat /\ c.total \in Nat /\ n.data \in Seq(Octets)
  BY <1>5 DEF Frames
<1>9. mWriteOffset + Skip(c) \in 0 .. Len(mWriteBuffer)
  BY <1>6, <1>7, <1>8 DEF Skip
<1>10. Left(c) \in Seq(Octets)
  <2>1. ASSUME c.at \in {"direct", "store"} PROVE SubSeq(c.data, c.total + 1, Len(c.data)) \in Seq(Octets)
    <3>1. c.total \in 0 .. Len(c.data)
      BY <1>6, <1>8, <2>1
    <3> QED
      BY <1>8, <3>1, DropIs
  <2> QED
    BY <1>8, <2>1, EmptySeq DEF Left
<1>11. More(c, n) \in Seq(Octets)
  BY <1>8, EmptySeq DEF More
<1>12. PendingOf(mWriteBuffer, mWriteOffset + Skip(c), Left(c), More(c, n)) \in Seq(Octets)
  BY <1>7, <1>9, <1>10, <1>11, PendingIs
<1>13. Pending \in Seq(Octets)
  BY <1>12 DEF Pending, c, n
<1> QED
  BY <1>4, <1>13

LEMMA OnDataWrittenKeeps ==
    ASSUME Inv, OnDataWritten
    PROVE  Inv'
<1> DEFINE f == Top
           t == Below
           n == Frame("mSendFinished")
<1>1. On(stack, f, t) /\ f.at = "bytesWritten"
  BY Inside DEF OnDataWritten
<1>2. n \in Frames /\ n.at = "mSendFinished" /\ t \in Seq(Frames) /\ f \in Frames /\ f.total \in Nat
  BY <1>1, FrameIs DEF Places, Slots, On, Frames
<1>3. /\ mPendingWrite' = mPendingWrite - f.total
      /\ stack' = (IF mPendingWrite' = 0 THEN <<n>> ELSE <<>>) \o t
      /\ UNCHANGED <<outVars, linkVars, pollVars, kernelVars, mReadBuffer, attached, ret,
                     timerVars, inVars, sent, sends, peerVars, toldVars>>
  BY DEF OnDataWritten
<1> HIDE DEF f, t, n
<1>4. stack' = IF mPendingWrite' = 0 THEN Push(n, t) ELSE t
  <2>1. <<n>> \o t = Push(n, t) /\ <<>> \o t = t
    <3>1. PushesOf(n, n, n, t)
      BY <1>2, PushForms
    <3> QED
      BY <3>1 DEF PushesOf
  <2> QED
    BY <1>3, <2>1
<1>5. First(t).at \in {"flush", "direct"}
  BY <1>1 DEF On, Fits
<1>6. On(Push(n, t), n, t) /\ Push(n, t) \in Seq(Frames) /\ Chain(Push(n, t))
  BY <1>1, <1>2, <1>5, OnPush DEF On, Fits, Writing
<1>7. /\ Linked' /\ Cur(stack) = First(t) /\ Nxt(stack) = Second(t) /\ First(stack) = f
      /\ Cur(stack') = First(t) /\ Nxt(stack') = Second(t)
      /\ First(stack') = IF mPendingWrite' = 0 THEN n ELSE First(t)
      /\ t # <<>> /\ Bottom(stack) = Bottom(t) /\ Bottom(stack') = Bottom(t)
      /\ Doomed(stack') <=> Doomed(stack)
      /\ Telling(stack') <=> Telling(stack)
      /\ Tells(stack') <=> Tells(stack)
  <2>1. t # <<>> /\ Chain(t)
    BY <1>1, <1>5 DEF On
  <2>2. CASE mPendingWrite' = 0
    BY <1>1, <1>2, <1>4, <1>5, <1>6, <2>1, <2>2 DEF On, Linked, Cur, Nxt, Notes
  <2>3. CASE mPendingWrite' # 0
    BY <1>1, <1>2, <1>4, <1>5, <2>1, <2>3 DEF On, Linked, Cur, Nxt, Notes
  <2> QED
    BY <2>2, <2>3
<1>8. OutTypes' /\ InTypes' /\ Counts'
  <2>1. OutTypes' /\ InTypes'
    BY <1>2, <1>3 DEF Inv, OutTypes, InTypes
  <2>2. First(stack').at # "read" /\ Cur(stack') = Cur(stack)
    BY <1>2, <1>5, <1>7
  <2>3. Counts'
    BY <1>3, <2>2 DEF Inv, Counts
  <2> QED
    BY <2>1, <2>3
<1>9. Fresh' /\ Reports' /\ Losses'
  BY <1>1, <1>3, <1>7 DEF Inv, Fresh, Reports, Losses, On
<1>10. Books'
  <2>1. Open /\ accepted \o Pending = sent /\ mPendingWrite = Len(Pending) + f.total
        /\ IsPrefix(accepted, sent) /\ (~attached => sent = <<>>)
    BY <1>1, <1>7 DEF Inv, Books, Failing, Untold
  <2>2. Pending' = Pending
    BY <1>3, <1>7 DEF Pending
  <2>3. Len(Pending) \in Nat /\ Pending \in Seq(Octets) /\ accepted \in Seq(Octets)
    BY PendingType DEF Inv, OutTypes
  <2>4. mPendingWrite' = Len(Pending)
    BY <1>2, <1>3, <2>1, <2>3
  <2>5. mPendingWrite' = 0 => accepted = sent
    <3>1. Len(Pending) = 0 => Pending = <<>>
      BY <2>3, EmptySeq
    <3>2. accepted \o <<>> = accepted
      BY <2>3, ConcatEmptySeq
    <3> QED
      BY <2>1, <2>4, <3>1, <3>2
  <2>6. Untold(First(stack')) = 0
    BY <1>2, <1>5, <1>7 DEF Untold
  <2>7. Len(Pending) + 0 = Len(Pending)
    BY <2>3
  <2>8. First(stack').at \notin {"bytesWritten", "send"} /\ (First(stack').at = "mSendFinished" => mPendingWrite' = 0)
    BY <1>2, <1>5, <1>7
  <2> HIDE DEF Pending
  <2>9. sent' = sent /\ accepted' = accepted /\ attached' = attached
    BY <1>3
  <2> QED
    BY <2>1, <2>2, <2>4, <2>5, <2>6, <2>7, <2>8, <2>9 DEF Books
<1>11. Armed'
  BY <1>3, <1>7 DEF Inv, Armed, Writable, Readable, Room
<1> QED
  BY <1>7, <1>8, <1>9, <1>10, <1>11 DEF Inv
-----------------------------------------------------------------------------
(* Receiving. *)

LEMMA InputType ==
    ASSUME Inv
    PROVE  Input.length \in Nat /\ Input.bytes \in Seq(Octets) /\ Len(Input.bytes) \in Nat
<1> DEFINE all == mBuffers \o mReadBuffer
<1>1. all \in Seq(Octets) /\ Len(all) \in Nat
  BY ConcatProperties DEF Inv, InTypes
<1>2. HeaderSize \in Nat
  BY ConnectionAssumption
<1> HIDE DEF all
<1>3. Len(all) >= HeaderSize => SubSeq(all, HeaderSize + 1, Len(all)) \in Seq(Octets)
  <2>1. Len(all) >= HeaderSize => HeaderSize \in 0 .. Len(all)
    BY <1>1, <1>2
  <2> QED
    BY <1>1, <2>1, DropIs
<1>4. \A bytes : Length(bytes) \in Nat
  BY DEF Length, BodySize
<1>5. mPendingRead \in Nat
  BY DEF Inv, InTypes
<1>6. Input.length \in Nat
  BY <1>4, <1>5 DEF Input
<1>7. Input.bytes \in Seq(Octets)
  BY <1>1, <1>3 DEF Input, all
<1> QED
  BY <1>6, <1>7

LEMMA OnDataAvailableKeeps ==
    ASSUME Inv, OnDataAvailable
    PROVE  Inv'
<1> DEFINE f == Top
           t == Below
           body == SubSeq(Input.bytes, 1, Input.length)
           i == MessageOf(body)
<1>1. On(stack, f, t) /\ f.at = "readyRead"
  BY Inside DEF OnDataAvailable
<1>2. f \in Frames /\ t \in Seq(Frames) /\ First(stack) = f /\ Cur(stack) = f /\ stack \in Seq(Frames) /\ Chain(stack)
      /\ stack # <<>>
  BY <1>1 DEF On, Cur, Notes, Inv, Linked
<1>3. /\ mReadBuffer' = <<>>
      /\ UNCHANGED <<outVars, kernelVars, attached, ret, timerVars, sendVars, peerVars,
                     mIsConnected, mSocketClient, told>>
  BY DEF OnDataAvailable
<1>4. Input.length \in Nat /\ Input.bytes \in Seq(Octets) /\ Len(Input.bytes) \in Nat
  BY InputType
<1>5. peer # "none"
  BY <1>2 DEF Inv, Fresh
<1>6. OutTypes'
  BY <1>3 DEF Inv, OutTypes
<1>7. CASE Incomplete(Input)
  <2>1. /\ mPendingRead' = Input.length /\ mBuffers' = Input.bytes /\ stack' = t
        /\ UNCHANGED <<linkVars, pollVars, parsed, quiet>>
    BY <1>7 DEF OnDataAvailable
  <2> HIDE DEF f, t
  <2>2. Linked' /\ First(t).at \in {"base", "readDone", "disconnected"} /\ First(stack') = First(t)
    BY <1>1, <2>1 DEF On, Fits, Linked
  <2>3. Books' /\ Cur(stack') = First(t)
    BY <1>1, <1>2, <1>3, <2>1, <2>2, PlainStep DEF Plain, Writing, Notes, Failing
  <2>4. InTypes' /\ Counts'
    BY <1>3, <1>4, <2>1, <2>2, <2>3, EmptySeq DEF Inv, InTypes, Counts
  <2>5. Fresh' /\ Reports' /\ Losses'
    BY <1>1, <1>3, <1>5, <2>1 DEF Inv, Fresh, Reports, Losses, On
  <2>6. Armed'
    <3>1. Bottom(stack) = (IF t = <<>> THEN f ELSE Bottom(t)) /\ (t = <<>> => Bottom(t) = Base) /\ Base.at = "base"
      BY <1>1, OfEmpty DEF On, Base, Frame
    <3> QED
      BY <1>1, <1>2, <1>3, <2>1, <2>2, <2>3, <3>1 DEF Inv, Armed, Comes, Writable, Readable, Room
  <2> QED
    BY <1>6, <2>2, <2>3, <2>4, <2>5, <2>6 DEF Inv
<1>8. CASE ~Incomplete(Input)
  <2>1. /\ mPendingRead' = 0 /\ mBuffers' = SubSeq(Input.bytes, Input.length + 1, Len(Input.bytes))
        /\ parsed' = Append(parsed, i) /\ stack' = Slot(i) \o stack
        /\ IF Slot(i) = <<>> THEN Close /\ quiet' = TRUE ELSE UNCHANGED <<linkVars, pollVars, quiet>>
    BY <1>8 DEF OnDataAvailable
  <2>2. Input.length \in 0 .. Len(Input.bytes) /\ Input.length # 0
    BY <1>4, <1>8 DEF Incomplete
  <2>3. body \in Seq(Octets) /\ Len(body) = Input.length
    BY <1>4, <2>2, SubSeqProperties
  <2>4. i \in Nat
    <3> HIDE DEF body
    <3>1. 1 \in 1 .. Len(body)
      BY <1>4, <2>2, <2>3
    <3>2. body[1] \in Octets
      BY <2>3, <3>1
    <3>3. body[1][1] \in Nat
      BY <3>2 DEF Octets
    <3> QED
      BY <3>3 DEF MessageOf
  <2>5. mBuffers' \in Seq(Octets)
    BY <1>4, <2>1, <2>2, DropIs
  <2> HIDE DEF i, f, t
  <2>6. parsed' \in Seq(Nat)
    BY <2>1, <2>4, AppendProperties DEF Inv, InTypes
  <2>7. InTypes'
    BY <1>3, <2>1, <2>5, <2>6, EmptySeq DEF Inv, InTypes
  <2>8. CASE Slot(i) = <<>>
    <3>1. stack' = stack /\ mFd' = NoFd /\ quiet' = TRUE
      <4>1. <<>> \o stack = stack
        BY <1>2, ConcatEmptySeq
      <4> QED
        BY <2>1, <2>8, <4>1 DEF Close
    <3>2. Linked' /\ First(stack') = f /\ Cur(stack') = f
      BY <1>2, <3>1, StackKept
    <3>3. Counts'
      BY <1>1, <3>2 DEF Counts
    <3> QED
      BY <1>1, <1>3, <1>5, <1>6, <2>7, <3>1, <3>2, <3>3, ClosedNow DEF Notes
  <2>9. CASE Slot(i) # <<>>
    <3>1. PICK p \in {"mFinished", "mNewMessage"} : Slot(i) = <<Frame(p)>>
      BY <2>9 DEF Slot
    <3> DEFINE n == Frame(p)
    <3>2. n \in Frames /\ n.at \in {"mFinished", "mNewMessage"}
      BY FrameIs DEF Places, Slots
    <3>3. Slot(i) = <<n>>
      BY <3>1
    <3> HIDE DEF n
    <3>4. stack' = Push(n, stack) /\ UNCHANGED <<linkVars, pollVars, quiet>>
      BY <2>1, <2>9, <3>3 DEF Push
    <3>5. Fits(n, First(stack))
      BY <1>1, <1>2, <3>2 DEF Fits, Writing
    <3>6. On(stack', n, stack) /\ Linked' /\ First(stack') = n /\ Bottom(stack') = Bottom(stack)
      BY <1>2, <3>2, <3>4, <3>5, OnPush DEF On, Linked
    <3>7. Books' /\ Cur(stack') = n
      BY <1>1, <1>2, <1>3, <3>2, <3>4, <3>6, PlainStep DEF Plain, Writing, Notes, Failing
    <3>8. Counts'
      BY <3>2, <3>6, <3>7 DEF Counts
    <3>9. Fresh' /\ Reports' /\ Losses'
      BY <1>3, <1>5, <3>2, <3>4, <3>6 DEF Inv, Fresh, Reports, Losses, On
    <3>10. Armed'
      BY <1>1, <1>2, <1>3, <3>2, <3>4, <3>6, <3>7 DEF Inv, Armed, Writable, Readable, Room
    <3> QED
      BY <1>6, <2>7, <3>6, <3>7, <3>8, <3>9, <3>10 DEF Inv
  <2> QED
    BY <2>8, <2>9
<1> QED
  BY <1>7, <1>8
-----------------------------------------------------------------------------
(* Sending. *)

(* A message added to what is to be written, in its two parts. *)
Adds(a, b, o, x, y) ==
    /\ PendingOf(b, o, x, y) \in Seq(Octets)
    /\ (a \o PendingOf(b, o, <<>>, <<>>)) \o (x \o y) = a \o PendingOf(b, o, x, y)
    /\ Len(PendingOf(b, o, x, y)) = Len(PendingOf(b, o, <<>>, <<>>)) + Len(x) + Len(y)
    /\ Len(PendingOf(b, o, <<>>, <<>>)) \in Nat

LEMMA MessageAdds ==
    ASSUME NEW a \in Seq(Octets), NEW b \in Seq(Octets), NEW o \in 0 .. Len(b),
           NEW x \in Seq(Octets), NEW y \in Seq(Octets)
    PROVE  Adds(a, b, o, x, y)
<1> DEFINE e == <<>>
<1>1. e \in Seq(Octets) /\ Len(e) = 0
  BY EmptySeq
<1>0. e = <<>>
  OBVIOUS
<1> HIDE DEF e
<1>2. PendingOf(b, o, x, y) \in Seq(Octets) /\ Len(PendingOf(b, o, x, y)) = (Len(b) - o) + Len(x) + Len(y)
  BY PendingIs
<1>3. Len(PendingOf(b, o, e, e)) = (Len(b) - o) + Len(e) + Len(e)
  <2>1. \A l, m \in Seq(Octets) : Len(PendingOf(b, o, l, m)) = (Len(b) - o) + Len(l) + Len(m)
    BY PendingIs
  <2> QED
    BY <1>1, <2>1, Zenon
<1>4. Joins(a, b, o, x, y)
  BY SentPending
<1>5. Len(b) \in Nat /\ Len(x) \in Nat /\ Len(y) \in Nat
  OBVIOUS
<1>6. /\ Len(PendingOf(b, o, x, y)) = Len(PendingOf(b, o, e, e)) + Len(x) + Len(y)
      /\ Len(PendingOf(b, o, e, e)) \in Nat
  <2>1. o \in Nat /\ o <= Len(b)
    BY <1>5
  <2> QED
    BY <1>1, <1>2, <1>3, <1>5, <2>1
<1> QED
  BY <1>0, <1>2, <1>4, <1>6 DEF Adds, Joins

LEMMA SendKeeps ==
    ASSUME Inv, SlotSends = FALSE, NEW size \in BodySizes, Send(size)
    PROVE  Inv'
<1> DEFINE m == Bytes(sends + 1, HeaderSize + size)
           h == SubSeq(m, 1, HeaderSize)
           d == SubSeq(m, HeaderSize + 1, Len(m))
           w == WriteCall(h)
           c == [Frame("send") EXCEPT !.data = d]
           u == Push(c, stack)
<1>1. HeaderSize \in Nat /\ HeaderSize > 0 /\ size \in Nat /\ size > 0
  BY ConnectionAssumption
<1>2. /\ sends \in Nat /\ accepted \in Seq(Octets) /\ sent \in Seq(Octets) /\ mWriteBuffer \in Seq(Octets)
      /\ mWriteOffset \in 0 .. Len(mWriteBuffer) /\ Len(mWriteBuffer) \in Nat /\ mPendingWrite \in Int
  BY DEF Inv, OutTypes
<1>3. m \in Seq(Octets) /\ Len(m) = HeaderSize + size
  <2>1. HeaderSize + size \in Nat
    BY <1>1
  <2>2. m = [k \in 1 .. HeaderSize + size |-> <<sends + 1, k>>]
    BY DEF Bytes
  <2>3. \A k \in 1 .. HeaderSize + size : <<sends + 1, k>> \in Octets
    BY <1>1, <1>2 DEF Octets
  <2> QED
    BY <2>1, <2>2, <2>3
<1>4. /\ Open /\ attached /\ mSocketClient
      /\ UNCHANGED <<outVars, linkVars, pollVars, kernelVars, mReadBuffer, attached, ret,
                     timerVars, inVars, peerVars, toldVars>>
      /\ sends' = sends + 1 /\ sent' = sent \o m /\ mPendingWrite' = mPendingWrite + Len(m)
      /\ stack' = <<w, c>> \o stack
  BY DEF Send
<1>5. /\ stack \in Seq(Frames) /\ Chain(stack) /\ First(stack).at \in Senders /\ First(stack) \in Frames
      /\ stack = <<>> => First(stack) = Base /\ Bottom(stack) = Base
  <2>1. stack \in Seq(Frames) /\ Chain(stack)
    BY DEF Inv, Linked
  <2>2. CASE AtRest
    BY <2>1, <2>2, Resting DEF Senders
  <2>3. ASSUME NEW p \in {"mConnected", "mNewMessage", "mFinished"}, At(p)
        PROVE  First(stack) = Top /\ Top.at = p /\ stack # <<>> /\ Top \in Frames
    BY <2>3, Inside DEF On
  <2>4. AtRest \/ At("mConnected") \/ At("mNewMessage") \/ At("mFinished")
    BY DEF Send, MaySend
  <2> QED
    BY <2>1, <2>2, <2>3, <2>4 DEF Senders
<1> HIDE DEF m
<1>6. /\ h \in Seq(Octets) /\ Len(h) = HeaderSize /\ h # <<>>
      /\ d \in Seq(Octets) /\ Len(d) = size /\ d # <<>> /\ h \o d = m
  <2>1. HeaderSize \in 0 .. Len(m) /\ 0 \in 0 .. Len(m) /\ HeaderSize \in 0 .. Len(m) - 0
    BY <1>1, <1>3
  <2>2. h \in Seq(Octets) /\ Len(h) = HeaderSize
    BY <1>3, <2>1, SubSeqProperties
  <2>3. d \in Seq(Octets) /\ Len(d) = Len(m) - HeaderSize
    BY <1>3, <2>1, DropIs
  <2>4. SubSeq(m, 0 + 1, Len(m)) = SubSeq(m, 0 + 1, 0 + HeaderSize) \o SubSeq(m, 0 + HeaderSize + 1, Len(m))
    BY <1>3, <2>1, CutInTwo
  <2>5. SubSeq(m, 0 + 1, Len(m)) = m
    BY <1>3
  <2>6. 0 + 1 = 1 /\ 0 + HeaderSize = HeaderSize /\ 0 + HeaderSize + 1 = HeaderSize + 1
    BY <1>1
  <2>7. h \o d = m
    BY <2>4, <2>5, <2>6
  <2>8. Len(d) = size
    BY <1>1, <1>3, <2>3
  <2> HIDE DEF h, d
  <2>9. h # <<>> /\ d # <<>>
    BY <1>1, <2>2, <2>3, <2>8
  <2> QED
    BY <2>2, <2>3, <2>7, <2>8, <2>9
<1> HIDE DEF h, d
<1>7. w \in Frames /\ w.at = "writeTo" /\ w.data = h /\ w.total = 0
  <2>1. Frame("writeTo") \in Frames /\ Frame("writeTo").at = "writeTo" /\ Frame("writeTo").total = 0
    BY FrameIs DEF Places
  <2> QED
    BY <1>6, <2>1 DEF WriteCall, Frames
<1>8. c \in Frames /\ c.at = "send" /\ c.data = d
  <2>1. Frame("send") \in Frames /\ Frame("send").at = "send"
    BY FrameIs DEF Places
  <2> QED
    BY <1>6, <2>1 DEF Frames
<1> HIDE DEF w, c
<1>9. stack' = Push(w, u)
  <2>1. <<w, c>> \o stack = Push(w, Push(c, stack))
    <3>1. PushesOf(w, c, c, stack)
      BY <1>5, <1>7, <1>8, PushForms
    <3> QED
      BY <3>1 DEF PushesOf
  <2> QED
    BY <1>4, <2>1
<1>10. On(u, c, stack) /\ u \in Seq(Frames) /\ Chain(u)
  <2>1. Fits(c, First(stack))
    BY <1>5, <1>6, <1>8 DEF Fits, Writing
  <2> QED
    BY <1>5, <1>8, <2>1, OnPush
<1> HIDE DEF u
<1>11. On(stack', w, u) /\ Linked'
  <2>1. Fits(w, First(u))
    BY <1>6, <1>7, <1>8, <1>10 DEF On, Fits, Writing
  <2> QED
    BY <1>7, <1>9, <1>10, <2>1, OnPush DEF Linked
<1>12. /\ First(stack') = w /\ Cur(stack') = w /\ Nxt(stack') = c
       /\ Cur(stack) = First(stack) /\ Nxt(stack) = Second(stack)
       /\ Bottom(stack') = (IF stack = <<>> THEN c ELSE Bottom(stack))
       /\ Doomed(stack') <=> Doomed(stack)
       /\ Telling(stack') <=> Telling(stack)
       /\ Tells(stack') <=> Tells(stack)
  BY <1>5, <1>7, <1>8, <1>10, <1>11 DEF On, Cur, Nxt, Notes, Senders
<1>13. OutTypes' /\ InTypes'
  <2>1. sent' \in Seq(Octets)
    BY <1>2, <1>3, <1>4, ConcatProperties
  <2>2. mPendingWrite' \in Int /\ sends' \in Nat
    BY <1>1, <1>2, <1>3, <1>4
  <2> QED
    BY <1>4, <2>1, <2>2 DEF Inv, OutTypes, InTypes
<1>14. Counts'
  BY <1>7, <1>12 DEF Counts
<1>15. Fresh' /\ Reports' /\ Losses'
  BY <1>4, <1>12 DEF Inv, Fresh, Reports, Losses
<1>16. Books'
  <2> DEFINE b == mWriteBuffer
             o == mWriteOffset
             a == accepted
             x == sent
  <2>1. First(stack).at \notin Failing /\ Untold(First(stack)) = 0
    BY <1>5 DEF Senders, Failing, Untold
  <2>2. Pending = PendingOf(mWriteBuffer, mWriteOffset + 0, <<>>, <<>>)
    BY <1>5, <1>12 DEF Pending, Skip, Left, More, Senders, Writing
  <2>3. Pending = PendingOf(b, o, <<>>, <<>>)
    BY <1>2, <2>2
  <2>4. a \o Pending = x /\ mPendingWrite = Len(Pending) + 0
    BY <1>4, <2>1 DEF Inv, Books
  <2>5. Pending' = PendingOf(mWriteBuffer, mWriteOffset + 0, h, d)
    BY <1>4, <1>7, <1>8, <1>12 DEF Pending, Skip, Left, More, Writing
  <2>6. Pending' = PendingOf(b, o, h, d)
    BY <1>2, <2>5
  <2>7. b \in Seq(Octets) /\ a \in Seq(Octets) /\ o \in 0 .. Len(b) /\ Len(b) \in Nat /\ mPendingWrite \in Int
        /\ h \in Seq(Octets) /\ d \in Seq(Octets) /\ Len(h) \in Nat /\ Len(d) \in Nat /\ <<>> \in Seq(Octets)
        /\ Len(<<>>) = 0
    BY <1>2, <1>6
  <2>8. accepted' = a /\ sent' = x \o m /\ mPendingWrite' = mPendingWrite + Len(m) /\ Len(m) = Len(h) + Len(d)
    BY <1>1, <1>3, <1>4, <1>6
  <2> DEFINE y == PendingOf(b, o, <<>>, <<>>)
             z == PendingOf(b, o, h, d)
  <2>9. a \in Seq(Octets) /\ b \in Seq(Octets) /\ o \in 0 .. Len(b) /\ h \in Seq(Octets) /\ d \in Seq(Octets)
    BY <2>7
  <2>10. Len(<<>>) = 0 /\ <<>> \in Seq(Octets)
    BY <2>7
  <2> HIDE DEF a, b, o, x
  <2>11. Adds(a, b, o, h, d)
    BY <2>9, MessageAdds
  <2>12. (a \o y) \o (h \o d) = a \o z
    BY <2>11 DEF Adds
  <2>13. z \in Seq(Octets) /\ Len(z) = Len(y) + Len(h) + Len(d) /\ Len(y) \in Nat
    BY <2>11 DEF Adds
  <2>14. Pending = y /\ Pending' = z
    BY <2>3, <2>6
  <2> HIDE DEF y, z, Pending
  <2>15. accepted' \o Pending' = sent'
    BY <1>6, <2>4, <2>8, <2>12, <2>14
  <2>16. mPendingWrite' = Len(Pending') + 0
    BY <2>4, <2>7, <2>8, <2>13, <2>14
  <2>17. IsPrefix(accepted', sent')
    <3>1. IsPrefix(a, a \o z)
      BY <2>7, <2>13, PrefixOfConcat
    <3> QED
      BY <2>8, <2>14, <2>15, <3>1
  <2>18. Untold(First(stack')) = 0 /\ First(stack').at = "writeTo" /\ attached'
    BY <1>4, <1>7, <1>12 DEF Untold
  <2> QED
    BY <2>15, <2>16, <2>17, <2>18 DEF Books
<1>17. Armed'
  BY <1>4, <1>5, <1>7, <1>8, <1>12 DEF Inv, Armed, Comes, Base, Frame, Senders, Writable, Readable, Room
<1> QED
  BY <1>11, <1>13, <1>14, <1>15, <1>16, <1>17 DEF Inv

LEMMA SendValueKeeps ==
    ASSUME Inv, SendValue
    PROVE  Inv'
<1> DEFINE f == Top
           t == Below
           w == WriteCall(Top.data)
<1>1. On(stack, f, t) /\ f.at = "send"
  BY Inside DEF SendValue
<1>2. f \in Frames /\ t \in Seq(Frames) /\ f.data \in Seq(Octets) /\ f.data # <<>> /\ First(t).at \in Senders
      /\ First(stack) = f /\ Cur(stack) = f /\ Nxt(stack) = First(t)
  BY <1>1 DEF On, Frames, Fits, Cur, Nxt, Notes
<1>3. w \in Frames /\ w.at = "writeTo" /\ w.data = f.data /\ w.total = 0
  <2>1. Frame("writeTo") \in Frames /\ Frame("writeTo").at = "writeTo" /\ Frame("writeTo").total = 0
    BY FrameIs DEF Places
  <2> QED
    BY <1>2, <2>1 DEF WriteCall, Frames
<1>4. /\ stack' = (IF ret THEN <<w>> ELSE <<>>) \o t
      /\ UNCHANGED <<outVars, linkVars, pollVars, kernelVars, mReadBuffer, attached, ret, connVars>>
  BY DEF SendValue
<1> HIDE DEF f, t, w
<1>5. stack' = IF ret THEN Push(w, t) ELSE t
  <2>1. <<w>> \o t = Push(w, t) /\ <<>> \o t = t
    <3>1. PushesOf(w, w, w, t)
      BY <1>2, <1>3, PushForms
    <3> QED
      BY <3>1 DEF PushesOf
  <2> QED
    BY <1>4, <2>1
<1>6. Open => ret
  BY <1>1, <1>2 DEF Inv, Books
<1>7. On(Push(w, t), w, t) /\ Push(w, t) \in Seq(Frames) /\ Chain(Push(w, t))
  <2>1. Fits(w, First(t))
    BY <1>2, <1>3 DEF Fits, Writing
  <2> QED
    BY <1>1, <1>3, <2>1, OnPush DEF On
<1>8. /\ Linked' /\ First(stack') = (IF ret THEN w ELSE First(t))
      /\ Cur(stack') = First(stack')
      /\ ret => Nxt(stack') = First(t) /\ Bottom(stack') = IF t = <<>> THEN w ELSE Bottom(t)
      /\ Doomed(stack') <=> Doomed(stack)
      /\ Telling(stack') <=> Telling(stack)
      /\ Tells(stack') <=> Tells(stack)
  <2>1. CASE ret
    BY <1>1, <1>3, <1>5, <1>7, <2>1 DEF On, Linked, Cur, Nxt, Notes
  <2>2. CASE ~ret
    BY <1>1, <1>2, <1>5, <2>2 DEF On, Linked, Cur, Notes, Senders
  <2> QED
    BY <2>1, <2>2
<1>9. First(stack').at \in Senders \cup {"writeTo"}
  BY <1>2, <1>3, <1>8
<1>10. OutTypes' /\ InTypes' /\ Counts'
  BY <1>4, <1>8, <1>9 DEF Inv, OutTypes, InTypes, Counts, Senders
<1>11. Fresh' /\ Reports' /\ Losses'
  BY <1>1, <1>4, <1>8 DEF Inv, Fresh, Reports, Losses, On
<1>12. Books'
  <2>1. Open => /\ First(stack).at \notin Failing
                /\ Untold(First(stack')) = Untold(First(stack))
                /\ Skip(Cur(stack')) = Skip(Cur(stack))
                /\ Left(Cur(stack')) = Left(Cur(stack))
                /\ More(Cur(stack'), Nxt(stack')) = More(Cur(stack), Nxt(stack))
    BY <1>1, <1>2, <1>3, <1>6, <1>8 DEF Failing, Untold, Skip, Left, More, Senders, Writing
  <2>2. First(stack').at \notin Notes \cup {"send"}
    BY <1>9 DEF Senders, Notes
  <2> QED
    BY <1>4, <2>1, <2>2, BooksKept DEF Inv
<1>13. Armed'
  <2>1. Bottom(stack) = IF t = <<>> THEN f ELSE Bottom(t)
    BY <1>1 DEF On
  <2> QED
    BY <1>1, <1>2, <1>3, <1>4, <1>6, <1>8, <1>9, <2>1 DEF Inv, Armed, Comes, Senders, Writable, Readable, Room
<1> QED
  BY <1>8, <1>10, <1>11, <1>12, <1>13 DEF Inv
-----------------------------------------------------------------------------
(* The user. *)

LEMMA UserCloseKeeps ==
    ASSUME Inv, UserClose
    PROVE  Inv'
<1>1. /\ mFd # NoFd /\ mFd' = NoFd /\ quiet' = TRUE /\ stack' = stack
      /\ UNCHANGED <<outVars, kernelVars, mReadBuffer, attached, stack, ret, timerVars, inVars,
                     sendVars, peerVars, mIsConnected, mSocketClient, told>>
  BY DEF UserClose, Close
<1>2. First(stack).at \notin Notes \ {"mSendFinished"}
  <2>1. CASE AtRest
    BY <2>1, Resting DEF Notes
  <2>2. CASE InSlot
    <3>1. PICK p \in Slots : At(p)
      BY <2>2 DEF InSlot
    <3>2. First(stack).at = p
      BY <3>1, Inside DEF On
    <3> QED
      BY <3>2 DEF Slots, Notes
  <2> QED
    BY <2>1, <2>2 DEF UserClose
<1>3. /\ Linked' /\ First(stack') = First(stack) /\ Cur(stack') = Cur(stack)
  BY <1>1, StackKept
<1>4. OutTypes' /\ InTypes' /\ Counts'
  BY <1>1, <1>3 DEF Inv, OutTypes, InTypes, Counts
<1>5. Fresh' /\ Reports' /\ Losses' /\ Armed'
  BY <1>1 DEF Inv, Fresh, Reports, Losses, Armed
<1>6. Books'
  BY <1>1, <1>2, <1>3 DEF Inv, Books, Notes
<1> QED
  BY <1>3, <1>4, <1>5, <1>6 DEF Inv

LEMMA DestroyKeeps ==
    ASSUME Inv, Destroy
    PROVE  Inv'
<1>1. /\ mFd' = NoFd /\ quiet' = TRUE /\ stack' = stack /\ (mSocketClient \/ mTimeoutTimer)
      /\ UNCHANGED <<outVars, kernelVars, mReadBuffer, attached, stack, ret, inVars, sendVars,
                     peerVars, mIsConnected, told>>
  BY DEF Destroy, Close
<1>2. First(stack).at \notin Notes
  BY Resting DEF Notes, Destroy
<1>3. Linked' /\ First(stack') = First(stack) /\ Cur(stack') = Cur(stack)
  BY <1>1, StackKept
<1>4. OutTypes' /\ InTypes' /\ Counts'
  BY <1>1, <1>3 DEF Inv, OutTypes, InTypes, Counts
<1>5. peer # "none"
  BY <1>1 DEF Inv, Fresh
<1> QED
  BY <1>1, <1>2, <1>3, <1>4, <1>5, ClosedNow

(* What the slots of the user return to. *)
LEMMA SlotCaller ==
    ASSUME NEW s, NEW f, NEW t, On(s, f, t), f.at \in Slots \ {"mSendFinished"}
    PROVE  /\ f.at \in Failing => First(t).at \in Failing \cup {"base", "connectFailed"}
           /\ f.at \notin Failing => First(t).at \in {"base", "writeTo", "readyRead"}
           /\ Cur(s) = f /\ Cur(t) = First(t) /\ Untold(f) = 0 /\ Untold(First(t)) = 0
           /\ Skip(f) = 0 /\ Skip(First(t)) = 0
           /\ Left(f) = <<>> /\ Left(First(t)) = <<>>
           /\ More(f, Nxt(s)) = <<>> /\ More(First(t), Nxt(t)) = <<>>
<1>1. /\ f.at \in Failing => First(t).at \in Failing \cup {"base", "connectFailed"}
      /\ f.at \notin Failing => First(t).at \in {"base", "writeTo", "readyRead"}
  BY DEF On, Fits, Slots, Failing
<1>2. Cur(s) = f /\ Cur(t) = First(t) /\ Nxt(t) = Second(t) /\ Untold(f) = 0 /\ Untold(First(t)) = 0
  BY <1>1 DEF On, Cur, Nxt, Notes, Slots, Failing, Untold
<1>3. Skip(f) = 0 /\ Skip(First(t)) = 0 /\ Left(f) = <<>> /\ More(f, Nxt(s)) = <<>>
  BY <1>1 DEF Skip, Left, More, Slots, Failing, Writing
<1>4. First(t).at # "writeTo" => Left(First(t)) = <<>> /\ More(First(t), Nxt(t)) = <<>>
  BY <1>1 DEF Left, More, Failing, Writing
<1>5. ASSUME First(t).at = "writeTo" PROVE Left(First(t)) = <<>> /\ More(First(t), Nxt(t)) = <<>>
  <2> DEFINE g == Head(t)
             r == Tail(t)
  <2>1. t \in Seq(Frames) /\ Chain(t) /\ t # <<>>
    BY <1>5 DEF On
  <2>2. On(t, g, r)
    BY <2>1, TopAndBelow
  <2> HIDE DEF g, r
  <2>3. First(t) = g /\ g.data = <<>> /\ Second(t) = First(r)
    BY <1>1, <1>5, <2>2 DEF On, Fits, Slots, Failing
  <2>4. First(r).at # "send"
    BY <1>5, <2>2, <2>3 DEF On, Fits, Writing, Senders
  <2> QED
    BY <1>2, <1>5, <2>3, <2>4 DEF Left, More
<1> QED
  BY <1>1, <1>2, <1>3, <1>4, <1>5

LEMMA SlotReturnsKeeps ==
    ASSUME Inv, SlotReturns
    PROVE  Inv'
<1> DEFINE f == Top
           t == Below
<1>1. On(stack, f, t) /\ f.at \in Slots
  <2>1. PICK p \in Slots : At(p)
    BY DEF SlotReturns, InSlot
  <2> QED
    BY <2>1, Inside
<1>2. /\ told' = (told \/ f.at = "mDisconnected") /\ stack' = t
      /\ UNCHANGED <<outVars, linkVars, pollVars, kernelVars, mReadBuffer, attached, ret,
                     timerVars, inVars, sendVars, peerVars, mIsConnected, mSocketClient, quiet>>
  BY DEF SlotReturns
<1> HIDE DEF f, t
<1>3. Linked' /\ First(stack) = f /\ First(stack') = First(t) /\ peer # "none"
  BY <1>1, <1>2 DEF On, Linked, Inv, Fresh
<1>4. OutTypes' /\ InTypes'
  BY <1>2 DEF Inv, OutTypes, InTypes
<1>5. Fresh' /\ Reports' /\ Losses'
  <2>1. f.at # "fail" /\ f.at \notin {"connectFailed", "disconnected", "error"}
    BY <1>1 DEF Slots
  <2> QED
    BY <1>1, <1>2, <1>3, <2>1 DEF Inv, Fresh, Reports, Losses, On
<1>6. Bottom(stack) = (IF t = <<>> THEN f ELSE Bottom(t)) /\ (t = <<>> => Bottom(t) = Base) /\ Base.at = "base"
      /\ t \in Seq(Frames) /\ Chain(t)
  BY <1>1, OfEmpty DEF On, Base, Frame
<1>7. CASE f.at = "mSendFinished"
  <2>1. First(t).at \in {"flush", "direct"}
    BY <1>1, <1>7 DEF On, Fits
  <2>2. Cur(stack) = First(t) /\ Cur(stack') = First(t) /\ Nxt(stack) = Second(t) /\ Nxt(stack') = Second(t)
        /\ Untold(f) = 0 /\ Untold(First(t)) = 0 /\ t # <<>>
    BY <1>1, <1>2, <1>7, <2>1, <1>6, OfEmpty DEF On, Cur, Nxt, Notes, Untold
  <2>3. Counts'
    BY <1>2, <1>3, <2>1, <2>2 DEF Inv, Counts
  <2>4. Books'
    BY <1>2, <1>3, <1>7, <2>1, <2>2, BooksKept DEF Inv, Failing, Notes
  <2>5. Armed'
    BY <1>2, <1>6, <2>2 DEF Inv, Armed, Writable, Readable, Room
  <2> QED
    BY <1>3, <1>4, <1>5, <2>3, <2>4, <2>5 DEF Inv
<1>8. CASE f.at # "mSendFinished"
  <2>1. /\ f.at \in Failing => First(t).at \in Failing \cup {"base", "connectFailed"}
        /\ f.at \notin Failing => First(t).at \in {"base", "writeTo", "readyRead"}
        /\ Cur(stack) = f /\ Cur(t) = First(t) /\ Untold(f) = 0 /\ Untold(First(t)) = 0
        /\ Skip(f) = 0 /\ Skip(First(t)) = 0
        /\ Left(f) = <<>> /\ Left(First(t)) = <<>>
        /\ More(f, Nxt(stack)) = <<>> /\ More(First(t), Nxt(t)) = <<>>
    BY <1>1, <1>8, SlotCaller
  <2>2. Open /\ f.at \in Failing => First(t).at \in Failing
    <3>1. SUFFICES ASSUME Open, f.at \in Failing, First(t).at \in {"base", "connectFailed"} PROVE FALSE
      BY <2>1
    <3>2. f.at = "mDisconnected"
      BY <1>1, <3>1 DEF On, Fits, Slots, Failing
    <3>3. Doomed(t)
      BY <1>1, <3>1, <3>2 DEF Inv, Reports, On
    <3>4. First(t).at = "base" => t = <<>>
      BY <1>1 DEF On
    <3> QED
      BY <1>6, <3>1, <3>3, <3>4, FirstIn, OfEmpty
  <2>3. Counts'
    BY <1>2, <1>3, <2>1 DEF Counts, Failing
  <2>4. Books'
    <3>1. First(stack').at \notin Notes \cup {"send"}
      BY <1>3, <2>1 DEF Notes, Failing
    <3> QED
      BY <1>2, <1>3, <2>1, <2>2, <3>1, BooksKept DEF Inv
  <2>5. Armed'
    <3>1. f.at \notin {"read", "readDone", "fail", "writable", "writeTo", "flush", "connectFailed"}
      BY <1>1 DEF Slots
    <3>2. First(t).at \notin {"flushed", "store"}
      BY <2>1 DEF Failing
    <3> QED
      BY <1>2, <1>6, <2>1, <3>1, <3>2 DEF Inv, Armed, Comes, Writable, Readable, Room
  <2> QED
    BY <1>3, <1>4, <1>5, <2>3, <2>4, <2>5 DEF Inv
<1> QED
  BY <1>7, <1>8
-----------------------------------------------------------------------------
(* The beginning, and every step. *)

LEMMA StreamType ==
    ASSUME NEW n \in Nat
    PROVE  Stream(n) \in Seq(Octets)
<1> DEFINE s == [i \in 1 .. n |-> MessageBytes(i)]
<1>1. ASSUME NEW i \in 1 .. n PROVE MessageBytes(i) \in Seq(Octets)
  <2> DEFINE size == HeaderSize + BodySize(plan[i])
  <2>1. size \in Nat
    BY ConnectionAssumption DEF BodySize
  <2>2. MessageBytes(i) = [k \in 1 .. size |-> <<i, k>>]
    BY DEF MessageBytes, Bytes
  <2> HIDE DEF size
  <2>3. \A k \in 1 .. size : <<i, k>> \in Octets
    BY <2>1 DEF Octets
  <2> QED
    BY <2>1, <2>2, <2>3
<1>2. s \in Seq(Seq(Octets))
  BY <1>1
<1> HIDE DEF s
<1>3. FlattenSeq(s) \in Seq(Octets)
  BY <1>2, FlattenType
<1> QED
  BY <1>3 DEF Stream, s

LEMMA InitHolds == Init => Inv
<1> SUFFICES ASSUME Init PROVE Inv
  OBVIOUS
<1>1. /\ stack = <<>> /\ mWriteBuffer = <<>> /\ mWriteOffset = 0 /\ mReadBuffer = <<>> /\ mWriteWait = FALSE
      /\ accepted = <<>> /\ drained = 0 /\ incoming = <<>> /\ sent = <<>> /\ sends = 0
      /\ mPendingRead = 0 /\ mPendingWrite = 0 /\ mBuffers = <<>> /\ parsed = <<>>
      /\ mTimeoutTimer = FALSE /\ mCheckTimer = FALSE
  BY DEF Init, SocketInit
<1>2. \/ Open /\ mSocketState = "Connected" /\ peer = "open" /\ interest = "read"
      \/ ~Open /\ mSocketState = "Disconnected" /\ peer = "none" /\ ~mSocketClient
  <2>1. AnFd # NoFd
    BY DEF AnFd, NoFd
  <2> QED
    BY <2>1 DEF Init, SocketInit
<1>3. plan \in Seq(Kinds) /\ toCome \in Seq(Octets)
  <2>1. plan \in Seq(Kinds)
    BY ConnectionAssumption DEF Init
  <2>2. Len(plan) \in Nat
    BY <2>1
  <2> QED
    BY <2>1, <2>2, StreamType DEF Init
<1>4. /\ First(stack) = Base /\ Second(stack) = Base /\ Bottom(stack) = Base /\ Base.at = "base"
      /\ Cur(stack) = Base /\ Nxt(stack) = Base /\ Linked
      /\ ~Doomed(stack) /\ ~Telling(stack) /\ ~Tells(stack)
  BY <1>1, OfEmpty DEF Base, Frame, Cur, Nxt, Notes, Linked
<1>5. <<>> \in Seq(Octets) /\ <<>> \in Seq(Nat) /\ Len(<<>>) = 0
  BY EmptySeq
<1>6. OutTypes /\ InTypes
  BY <1>1, <1>3, <1>5 DEF OutTypes, InTypes
<1>7. Counts /\ Fresh /\ Reports /\ Losses
  BY <1>1, <1>2, <1>4 DEF Counts, Fresh, Reports, Losses
<1>8. Books
  <2>1. IsPrefix(<<>>, <<>>)
    <3>1. IsPrefix(<<>>, <<>> \o <<>>)
      BY <1>5, PrefixOfConcat
    <3> QED
      BY <3>1, <1>5, NothingPending
  <2>2. Pending = PendingOf(<<>>, 0, <<>>, <<>>)
    BY <1>1, <1>4 DEF Pending, Skip, Left, More, Writing
  <2>3. Pending = <<>> /\ <<>> \o <<>> = <<>>
    BY <2>2, NothingPending
  <2>4. Untold(First(stack)) = 0
    BY <1>4 DEF Untold
  <2> QED
    BY <1>1, <1>4, <1>5, <2>1, <2>3, <2>4 DEF Books
<1>9. Armed
  BY <1>1, <1>2, <1>4, <1>5 DEF Armed, Readable
<1> QED
  BY <1>4, <1>6, <1>7, <1>8, <1>9 DEF Inv

LEMMA SocketStepKeeps ==
    ASSUME Inv, SocketStep, UNCHANGED connVars
    PROVE  Inv'
<1>1. ASSUME NEW e \in 1 .. Capacity, Wrote(e) PROVE Inv'
  BY <1>1, WroteKeeps
<1>2. ASSUME NEW e \in 1 .. Len(incoming), ReadSome(e) PROVE Inv'
  BY <1>2, ReadSomeKeeps
<1> QED
  BY <1>1, <1>2, WriteToKeeps, BlockedKeeps, WriteFailedKeeps, FailKeeps, FlushEndKeeps, FlushedKeeps,
     DirectEndKeeps, ReadAllKeeps, ReadEndKeeps, ReadFailedKeeps, ReadDoneKeeps, WritePartKeeps
     DEF SocketStep

LEMMA StepKeeps ==
    ASSUME Inv, Step
    PROVE  Inv'
BY SocketStepKeeps, StoreKeeps, SendValueKeeps, ConnectFailedKeeps, OnClientConnectedKeeps,
   OnClientDisconnectedKeeps, OnSocketErrorKeeps, OnDataWrittenKeeps, OnDataAvailableKeeps,
   SlotReturnsKeeps
   DEF Step

LEMMA UserKeeps ==
    ASSUME Inv, SlotSends = FALSE, User
    PROVE  Inv'
<1>1. ASSUME NEW size \in BodySizes, Send(size) PROVE Inv'
  BY <1>1, SendKeeps
<1>2. ASSUME NEW o \in {"connected", "inProgress", "fails", "unresolved", "noSocket"}, NEW t \in Timeouts,
             ConnectTo(o, t)
      PROVE  Inv'
  BY <1>2, ConnectToKeeps
<1> QED
  BY <1>1, <1>2, AttachKeeps, UserCloseKeeps, DestroyKeeps DEF User

LEMMA NextKeeps ==
    ASSUME Inv, SlotSends = FALSE, [Next]_vars
    PROVE  Inv'
<1>1. CASE Step
  BY <1>1, StepKeeps
<1>2. CASE Event
  BY <1>2, OnEventKeeps DEF Event
<1>3. CASE Kernel
  BY <1>3, DrainKeeps, PeerMovesKeeps DEF Kernel
<1>4. CASE Arrive
  BY <1>4, ArriveKeeps
<1>5. CASE CheckData
  BY <1>5, CheckDataKeeps
<1>6. CASE TimeoutFires
  BY <1>6, TimeoutFiresKeeps
<1>7. CASE User
  BY <1>7, UserKeeps
<1>8. CASE UNCHANGED vars
  <2>1. UNCHANGED <<socketVars, connVars>>
    BY <1>8 DEF vars
  <2>2. UNCHANGED <<outVars, linkVars, pollVars, kernelVars, mReadBuffer, attached, stack, ret, connVars>>
    BY <2>1 DEF socketVars
  <2>3. /\ Linked' /\ First(stack') = First(stack) /\ Bottom(stack') = Bottom(stack)
        /\ Cur(stack') = Cur(stack) /\ Nxt(stack') = Nxt(stack)
        /\ Doomed(stack') <=> Doomed(stack)
        /\ Telling(stack') <=> Telling(stack)
        /\ Tells(stack') <=> Tells(stack)
    BY <2>2, StackKept
  <2>4. OutTypes' /\ InTypes' /\ Counts' /\ Fresh' /\ Reports' /\ Losses'
    BY <2>2, <2>3 DEF Inv, OutTypes, InTypes, Counts, Fresh, Reports, Losses
  <2>5. Books'
    BY <2>2, <2>3 DEF Inv, Books, Pending
  <2>6. Armed'
    BY <2>2, <2>3 DEF Inv, Armed, Writable, Readable, Room
  <2> QED
    BY <2>3, <2>4, <2>5, <2>6 DEF Inv
<1> QED
  BY <1>1, <1>2, <1>3, <1>4, <1>5, <1>6, <1>7, <1>8 DEF Next
-----------------------------------------------------------------------------
(* Inv is inductive as long as slots of sendFinished do not send: such a   *)
(* slot is called from within the loops of writeTo, whose locals a nested  *)
(* writeTo does not know of.                                               *)
THEOREM ConnectionInvariant ==
    ASSUME SlotSends = FALSE
    PROVE  Spec => []Inv
<1>1. Inv /\ [Next]_vars => Inv'
  BY NextKeeps
<1> QED
  BY <1>1, InitHolds, PTL DEF Spec

(* The bytes that ::write takes are those of the messages, in the order of *)
(* the calls of send, none twice and none left out (writeTo).              *)
THEOREM StreamAlwaysIntact ==
    ASSUME SlotSends = FALSE
    PROVE  Spec => []StreamIntact
<1>1. Inv => StreamIntact
  BY DEF Inv, Books, StreamIntact
<1> QED
  BY <1>1, ConnectionInvariant, PTL

(* At rest the buffer holds what was sent and is not yet written, and      *)
(* mPendingWrite is the number of its bytes (send, writeTo,                *)
(* onDataWritten).                                                         *)
THEOREM NothingEverLost ==
    ASSUME SlotSends = FALSE
    PROVE  Spec => []NothingLost
<1>1. ASSUME Inv, AtRest, Open
      PROVE  accepted \o Unwritten = sent /\ mPendingWrite = Len(Unwritten)
  <2>1. First(stack) = Base /\ Cur(stack) = Base /\ Nxt(stack) = Base /\ Base.at = "base"
    BY <1>1, Resting, OfEmpty DEF Nxt, Notes
  <2>2. Pending = PendingOf(mWriteBuffer, mWriteOffset + 0, <<>>, <<>>)
    BY <2>1 DEF Pending, Skip, Left, More, Writing
  <2>3. Unwritten \in Seq(Octets) /\ mWriteOffset \in Nat
    BY <1>1, DropIs DEF Inv, OutTypes, Unwritten
  <2>4. (Unwritten \o <<>>) \o <<>> = Unwritten
    BY <2>3, ConcatEmptySeq
  <2>5. Pending = Unwritten
    BY <2>2, <2>3, <2>4 DEF PendingOf, Unwritten
  <2>6. accepted \o Pending = sent /\ mPendingWrite = Len(Pending) + 0
    BY <1>1, <2>1 DEF Inv, Books, Failing, Untold
  <2>7. Len(Unwritten) \in Nat
    BY <2>3
  <2> QED
    BY <2>5, <2>6, <2>7
<1>2. Inv => NothingLost
  BY <1>1 DEF NothingLost
<1> QED
  BY <1>2, ConnectionInvariant, PTL

(* Whoever is told of sendFinished can rely on it: everything sent is with *)
(* the kernel (onDataWritten).                                             *)
THEOREM SendFinishedAlwaysTrue ==
    ASSUME SlotSends = FALSE
    PROVE  Spec => []SendFinishedIsTrue
<1>1. ASSUME Inv, At("mSendFinished") PROVE accepted = sent
  <2>1. First(stack).at = "mSendFinished"
    BY <1>1, Inside DEF On
  <2> QED
    BY <1>1, <2>1 DEF Inv, Books
<1>2. Inv => SendFinishedIsTrue
  BY <1>1 DEF SendFinishedIsTrue
<1> QED
  BY <1>2, ConnectionInvariant, PTL

(* Bytes that wait, and a connection attempt, have epoll watching for      *)
(* them: the one-shot registration is renewed on every path through        *)
(* socketCallback and writeTo.                                             *)
THEOREM WriteAlwaysArmed ==
    ASSUME SlotSends = FALSE
    PROVE  Spec => []WriteArmed
<1>1. ASSUME Inv, AtRest, Open, Unwritten # <<>> \/ mSocketState = "Connecting"
      PROVE  mWriteWait /\ interest = "readwrite" /\ (Writable => queued)
  <2>1. Bottom(stack) = Base /\ Base.at = "base"
    BY <1>1, Resting
  <2>2. Unwritten # <<>> => mWriteOffset < Len(mWriteBuffer)
    <3>1. Unwritten \in Seq(Octets) /\ Len(Unwritten) = Len(mWriteBuffer) - mWriteOffset
          /\ mWriteOffset \in Nat /\ Len(mWriteBuffer) \in Nat /\ mWriteOffset <= Len(mWriteBuffer)
      BY <1>1, DropIs DEF Inv, OutTypes, Unwritten
    <3>2. Unwritten # <<>> => Len(Unwritten) # 0
      BY <3>1, EmptySeq
    <3> QED
      BY <3>1, <3>2
  <2> QED
    BY <1>1, <2>1, <2>2 DEF Inv, Armed, Comes
<1>2. Inv => WriteArmed
  BY <1>1 DEF WriteArmed
<1> QED
  BY <1>2, ConnectionInvariant, PTL

(* What the peer has sent, or its end, and nobody has read is going to be  *)
(* reported: no edge is lost between the reads and the registrations of    *)
(* socketCallback.                                                         *)
THEOREM ReadAlwaysArmed ==
    ASSUME SlotSends = FALSE
    PROVE  Spec => []ReadArmed
<1>1. ASSUME Inv, AtRest, Open, Readable PROVE queued /\ interest \in {"read", "readwrite"}
  <2>1. Bottom(stack) = Base /\ Base.at = "base"
    BY <1>1, Resting
  <2> QED
    BY <1>1, <2>1 DEF Inv, Armed
<1>2. Inv => ReadArmed
  BY <1>1 DEF ReadArmed
<1> QED
  BY <1>2, ConnectionInvariant, PTL

(* A connection that is lost is reported, unless the program closed it or  *)
(* was told by a return value (socketCallback, writeTo, onSocketError,     *)
(* onClientDisconnected, checkTimer of connectTcp).                        *)
THEOREM LossAlwaysReported ==
    ASSUME SlotSends = FALSE
    PROVE  Spec => []LossIsReported
<1>1. ASSUME Inv, AtRest, ~Open, attached, peer # "none" PROVE quiet \/ told
  <2>1. ~Tells(stack)
    BY <1>1, Resting
  <2> QED
    BY <1>1, <2>1 DEF Inv, Losses
<1>2. Inv => LossIsReported
  BY <1>1 DEF LossIsReported
<1> QED
  BY <1>2, ConnectionInvariant, PTL
-----------------------------------------------------------------------------
(* What is read: the parts of a message, and what comes behind the first n *)
(* messages of the peer.                                                   *)
Header(i) == SubSeq(MessageBytes(i), 1, HeaderSize)
Body(i)   == SubSeq(MessageBytes(i), HeaderSize + 1, Len(MessageBytes(i)))

Suffix(n) == FlattenSeq([i \in 1 .. Len(plan) - n |-> MessageBytes(n + i)])

LEMMA MessageIs ==
    ASSUME NEW i \in Nat
    PROVE  /\ MessageBytes(i) \in Seq(Octets)
           /\ Len(MessageBytes(i)) = HeaderSize + BodySize(plan[i])
           /\ \A k \in 1 .. HeaderSize + BodySize(plan[i]) : MessageBytes(i)[k] = <<i, k>>
           /\ HeaderSize \in Nat \ {0} /\ BodySize(plan[i]) \in Nat \ {0}
<1> DEFINE size == HeaderSize + BodySize(plan[i])
<1>1. HeaderSize \in Nat \ {0} /\ BodySize(plan[i]) \in Nat \ {0} /\ size \in Nat
  BY ConnectionAssumption DEF BodySize
<1>2. MessageBytes(i) = [k \in 1 .. size |-> <<i, k>>]
  BY DEF MessageBytes, Bytes
<1> HIDE DEF size
<1>3. \A k \in 1 .. size : <<i, k>> \in Octets
  BY <1>1 DEF Octets
<1>4. MessageBytes(i) \in Seq(Octets) /\ Len(MessageBytes(i)) = size
      /\ \A k \in 1 .. size : MessageBytes(i)[k] = <<i, k>>
  BY <1>1, <1>2, <1>3
<1> QED
  BY <1>1, <1>4 DEF size

(* A message is its header and its body, and both begin with its index. *)
LEMMA PartsOfMessage ==
    ASSUME NEW i \in Nat
    PROVE  /\ Header(i) \in Seq(Octets) /\ Len(Header(i)) = HeaderSize
           /\ Body(i) \in Seq(Octets) /\ Len(Body(i)) = BodySize(plan[i])
           /\ MessageBytes(i) = Header(i) \o Body(i)
           /\ Header(i)[1][1] = i /\ Body(i)[1][1] = i
<1> DEFINE m == MessageBytes(i)
           h == HeaderSize
           l == BodySize(plan[i])
<1>1. m \in Seq(Octets) /\ Len(m) = h + l /\ h \in Nat \ {0} /\ l \in Nat \ {0}
      /\ \A k \in 1 .. h + l : m[k] = <<i, k>>
  BY MessageIs
<1> DEFINE a == SubSeq(m, 1, h)
           b == SubSeq(m, h + 1, Len(m))
<1> HIDE DEF m, h, l
<1>2. a \in Seq(Octets) /\ Len(a) = h /\ \A k \in 1 .. h : a[k] = m[k]
  <2>1. h <= Len(m)
    BY <1>1
  <2> QED
    BY <1>1, <2>1, SubSeqProperties
<1>3. b \in Seq(Octets) /\ Len(b) = l /\ \A k \in 1 .. l : b[k] = m[h + k]
  <2>1. h \in 0 .. Len(m) /\ Len(m) - h = l
    BY <1>1
  <2> QED
    BY <1>1, <2>1, DropIs
<1>4. m = a \o b
  <2>1. 0 \in 0 .. Len(m) /\ h \in 0 .. Len(m) - 0
    BY <1>1
  <2>2. SubSeq(m, 0 + 1, Len(m)) = SubSeq(m, 0 + 1, 0 + h) \o SubSeq(m, 0 + h + 1, Len(m))
    BY <1>1, <2>1, CutInTwo
  <2>3. SubSeq(m, 1, Len(m)) = m
    BY <1>1
  <2>4. 0 + 1 = 1 /\ 0 + h = h /\ 0 + h + 1 = h + 1
    BY <1>1
  <2> QED
    BY <2>2, <2>3, <2>4
<1>5. a[1][1] = i /\ b[1][1] = i
  <2>1. 1 \in 1 .. h /\ 1 \in 1 .. l /\ 1 \in 1 .. h + l /\ h + 1 \in 1 .. h + l
    BY <1>1
  <2>2. a[1] = <<i, 1>> /\ b[1] = <<i, h + 1>>
    BY <1>1, <1>2, <1>3, <2>1
  <2>3. <<i, 1>>[1] = i /\ <<i, h + 1>>[1] = i
    OBVIOUS
  <2> QED
    BY <2>2, <2>3
<1> HIDE DEF a, b
<1>6. Header(i) = a /\ Body(i) = b
  BY DEF Header, Body, a, b, m, h
<1> QED
  BY <1>2, <1>3, <1>4, <1>5, <1>6 DEF m, h, l

(* What comes behind n messages begins with the next one. *)
LEMMA SuffixIs ==
    ASSUME NEW n \in Nat, Len(plan) \in Nat, n <= Len(plan)
    PROVE  /\ Suffix(n) \in Seq(Octets)
           /\ n = Len(plan) => Suffix(n) = <<>>
           /\ n < Len(plan) => Suffix(n) = MessageBytes(n + 1) \o Suffix(n + 1)
<1> DEFINE l == Len(plan) - n
           s == [i \in 1 .. l |-> MessageBytes(n + i)]
<1>0. l \in Nat
  OBVIOUS
<1>1. \A i \in 1 .. l : MessageBytes(n + i) \in Seq(Octets)
  <2> TAKE i \in 1 .. l
  <2>1. n + i \in Nat
    BY <1>0
  <2> QED
    BY <2>1, MessageIs
<1> HIDE DEF l
<1>2. s \in Seq(Seq(Octets)) /\ Len(s) = l /\ \A i \in 1 .. l : s[i] = MessageBytes(n + i)
  BY <1>0, <1>1
<1>3. Suffix(n) = FlattenSeq(s)
  BY DEF Suffix, l
<1> HIDE DEF s
<1>4. Suffix(n) \in Seq(Octets)
  BY <1>2, <1>3, FlattenType
<1>5. ASSUME n = Len(plan) PROVE Suffix(n) = <<>>
  <2>1. l = 0
    BY <1>5 DEF l
  <2>2. s = <<>>
    BY <1>2, <2>1
  <2> QED
    BY <1>3, <2>2 DEF FlattenSeq
<1>6. ASSUME n < Len(plan) PROVE Suffix(n) = MessageBytes(n + 1) \o Suffix(n + 1)
  <2> DEFINE k == Len(plan) - (n + 1)
             t == [i \in 1 .. k |-> MessageBytes((n + 1) + i)]
  <2>1. k \in Nat /\ k = l - 1 /\ l > 0
    BY <1>0, <1>6 DEF l
  <2>2. s # <<>> /\ Head(s) = s[1] /\ Tail(s) \in Seq(Seq(Octets)) /\ Len(Tail(s)) = l - 1
        /\ \A i \in 1 .. l - 1 : Tail(s)[i] = s[i + 1]
    BY <1>2, <2>1, HeadTailProperties
  <2>3. Suffix(n + 1) = FlattenSeq(t)
    BY DEF Suffix
  <2>4. \A i \in 1 .. k : i + 1 \in 1 .. l /\ n + (i + 1) = (n + 1) + i
    BY <1>0, <2>1
  <2>5. \A i \in 1 .. k : Tail(s)[i] = MessageBytes((n + 1) + i)
    BY <1>2, <2>1, <2>2, <2>4
  <2> HIDE DEF k
  <2>6. \A i \in 1 .. k : Tail(s)[i] \in Seq(Octets)
    BY <2>1, <2>2
  <2>7. t \in Seq(Seq(Octets)) /\ Len(t) = k /\ \A i \in 1 .. k : t[i] = MessageBytes((n + 1) + i)
    <3>1. \A i \in 1 .. k : MessageBytes((n + 1) + i) \in Seq(Octets)
      BY <2>5, <2>6
    <3> QED
      BY <2>1, <3>1
  <2> HIDE DEF t
  <2>8. Tail(s) = t
    BY <2>1, <2>2, <2>5, <2>7, SeqEqual
  <2>9. Head(s) = MessageBytes(n + 1)
    BY <1>2, <2>1, <2>2
  <2>10. FlattenSeq(s) = Head(s) \o FlattenSeq(Tail(s))
    BY <1>2, <2>2, FlattenTail
  <2> QED
    BY <1>3, <2>3, <2>8, <2>9, <2>10
<1> QED
  BY <1>4, <1>5, <1>6

LEMMA SuffixOfNothing ==
    ASSUME Len(plan) \in Nat
    PROVE  Suffix(0) = Stream(Len(plan))
<1>1. Len(plan) - 0 = Len(plan) /\ \A i \in 1 .. Len(plan) : 0 + i = i
  OBVIOUS
<1>2. [i \in 1 .. Len(plan) - 0 |-> MessageBytes(0 + i)] = [i \in 1 .. Len(plan) |-> MessageBytes(i)]
  BY <1>1
<1> QED
  BY <1>2 DEF Suffix, Stream

Have   == mBuffers \o mReadBuffer
ToRead == incoming \o toCome

(* What has been cut off the input is the first messages of the peer, and  *)
(* the length of the next one if it is known; the rest follows.            *)
Cut ==
    LET n == Len(parsed) IN
    /\ n <= Len(plan) /\ parsed = [i \in 1 .. n |-> i]
    /\ mPendingRead = 0 => Have \o ToRead = Suffix(n)
    /\ mPendingRead # 0 =>
          /\ n < Len(plan) /\ mPendingRead = BodySize(plan[n + 1])
          /\ Have \o ToRead = Body(n + 1) \o Suffix(n + 1)

(* The input can be looked at: whose length is known. *)
Announced(n, in) ==
    /\ n < Len(plan) /\ in.length = BodySize(plan[n + 1])
    /\ in.bytes \o ToRead = Body(n + 1) \o Suffix(n + 1)

LEMMA ReadTypes ==
    ASSUME Inv
    PROVE  /\ Have \in Seq(Octets) /\ ToRead \in Seq(Octets) /\ Len(Have) \in Nat /\ Len(ToRead) \in Nat
           /\ Len(Have) = Len(mBuffers) + Len(mReadBuffer) /\ Len(mBuffers) \in Nat
           /\ Have \o ToRead \in Seq(Octets) /\ Len(Have \o ToRead) = Len(Have) + Len(ToRead)
           /\ Len(parsed) \in Nat /\ Len(plan) \in Nat
<1>1. /\ mBuffers \in Seq(Octets) /\ mReadBuffer \in Seq(Octets)
      /\ incoming \in Seq(Octets) /\ toCome \in Seq(Octets)
      /\ parsed \in Seq(Nat) /\ plan \in Seq(Kinds)
  BY DEF Inv, InTypes
<1>2. Have \in Seq(Octets) /\ ToRead \in Seq(Octets) /\ Len(Have) = Len(mBuffers) + Len(mReadBuffer)
  BY <1>1, ConcatProperties DEF Have, ToRead
<1>3. Len(Have) \in Nat /\ Len(ToRead) \in Nat /\ Len(mBuffers) \in Nat
  BY <1>1, <1>2
<1> HIDE DEF Have, ToRead
<1>4. Have \o ToRead \in Seq(Octets) /\ Len(Have \o ToRead) = Len(Have) + Len(ToRead)
  BY <1>2, ConcatProperties
<1> QED
  BY <1>1, <1>2, <1>3, <1>4

(* What onDataAvailable makes of the bytes it has. *)
LEMMA InputIs ==
    ASSUME Inv, Cut
    PROVE  \/ /\ mPendingRead = 0 /\ Input.length = 0 /\ Input.bytes = Have
              /\ Len(Have) < HeaderSize
           \/ Announced(Len(parsed), Input)
<1> DEFINE n == Len(parsed)
<1>1. /\ n \in Nat /\ Len(plan) \in Nat /\ n <= Len(plan)
      /\ Have \in Seq(Octets) /\ ToRead \in Seq(Octets) /\ Len(Have) \in Nat /\ Len(ToRead) \in Nat
      /\ Len(Have \o ToRead) = Len(Have) + Len(ToRead)
  BY ReadTypes DEF Cut
<1>2. HeaderSize \in Nat \ {0}
  BY ConnectionAssumption
<1>3. CASE mPendingRead # 0
  BY <1>3 DEF Cut, Input, Announced, Have
<1>4. CASE mPendingRead = 0 /\ Len(Have) < HeaderSize
  <2>1. ~(Len(Have) >= HeaderSize)
    BY <1>1, <1>2, <1>4
  <2> QED
    BY <1>4, <2>1 DEF Input, Have
<1>5. CASE mPendingRead = 0 /\ Len(Have) >= HeaderSize
  <2> DEFINE h == Header(n + 1)
             b == Body(n + 1)
             r == Suffix(n + 1)
             in == SubSeq(Have, HeaderSize + 1, Len(Have))
  <2>1. Have \o ToRead = Suffix(n)
    BY <1>5 DEF Cut
  <2>2. n < Len(plan)
    <3>1. Len(<<>>) = 0
      OBVIOUS
    <3>2. Len(Suffix(n)) > 0
      BY <1>1, <1>2, <1>5, <2>1
    <3> QED
      BY <1>1, <3>1, <3>2, SuffixIs
  <2>3. n + 1 \in Nat /\ n + 1 <= Len(plan)
    BY <1>1, <2>2
  <2>4. Suffix(n) = MessageBytes(n + 1) \o r /\ r \in Seq(Octets)
    <3>1. Suffix(n) = MessageBytes(n + 1) \o r
      BY <1>1, <2>2, SuffixIs
    <3>2. r \in Seq(Octets)
      BY <1>1, <2>3, SuffixIs
    <3> QED
      BY <3>1, <3>2
  <2>5. /\ h \in Seq(Octets) /\ Len(h) = HeaderSize /\ b \in Seq(Octets)
        /\ MessageBytes(n + 1) = h \o b /\ h[1][1] = n + 1
    BY <2>3, PartsOfMessage
  <2>6. h = SubSeq(MessageBytes(n + 1), 1, HeaderSize)
    BY DEF Header
  <2> HIDE DEF h, b, r
  <2> DEFINE y == b \o r
  <2>7. y \in Seq(Octets)
    BY <2>4, <2>5, ConcatProperties
  <2>8. (h \o b) \o r = h \o y
    <3>1. Associates(h, b, r)
      BY <2>4, <2>5, ConcatAssociates
    <3> QED
      BY <3>1 DEF Associates
  <2>9. Have \o ToRead = h \o y
    BY <2>1, <2>4, <2>5, <2>8
  <2> HIDE DEF y, in
  <2>10. Len(h) <= Len(Have)
    BY <1>5, <2>5
  <2>11. Cuts(Have, ToRead, h, y)
    BY <1>1, <2>5, <2>7, <2>9, <2>10, TwoCuts
  <2>12. SubSeq(Have, 1, HeaderSize) = h /\ in \o ToRead = y
    BY <2>5, <2>11 DEF Cuts, in
  <2>13. Length(h) = BodySize(plan[n + 1])
    BY <2>5, <2>6 DEF Length
  <2>14. Input.length = Length(SubSeq(Have, 1, HeaderSize)) /\ Input.bytes = in
    BY <1>5 DEF Input, Have, in
  <2>15. Input.length = BodySize(plan[n + 1]) /\ Input.bytes \o ToRead = y
    BY <2>12, <2>13, <2>14
  <2> QED
    BY <2>2, <2>15 DEF Announced, y, b, r
<1> QED
  BY <1>1, <1>2, <1>3, <1>4, <1>5

(* The first bytes of a body that is there are the message. *)
LEMMA BodyIs ==
    ASSUME Inv, NEW n \in Nat, Announced(n, Input), Len(Input.bytes) >= Input.length
    PROVE  /\ MessageOf(SubSeq(Input.bytes, 1, Input.length)) = n + 1
           /\ SubSeq(Input.bytes, Input.length + 1, Len(Input.bytes)) \in Seq(Octets)
           /\ SubSeq(Input.bytes, Input.length + 1, Len(Input.bytes)) \o ToRead = Suffix(n + 1)
<1> DEFINE a == Input.bytes
           b == Body(n + 1)
           r == Suffix(n + 1)
           l == Input.length
<1>1. n + 1 \in Nat /\ n + 1 <= Len(plan) /\ Len(plan) \in Nat /\ ToRead \in Seq(Octets)
  BY ReadTypes DEF Announced
<1>2. r \in Seq(Octets)
  BY <1>1, SuffixIs
<1>3. b \in Seq(Octets) /\ Len(b) = l /\ b[1][1] = n + 1
  BY <1>1, PartsOfMessage DEF Announced
<1>4. b = SubSeq(MessageBytes(n + 1), HeaderSize + 1, Len(MessageBytes(n + 1)))
  BY DEF Body
<1>5. a \in Seq(Octets) /\ a \o ToRead = b \o r /\ l \in Nat /\ Len(a) \in Nat
  BY InputType DEF Announced
<1>6. Len(b) <= Len(a)
  BY <1>3, <1>5
<1> HIDE DEF a, b, r, l
<1>7. Cuts(a, ToRead, b, r)
  BY <1>1, <1>2, <1>3, <1>5, <1>6, TwoCuts
<1>8. SubSeq(a, 1, l) = b /\ SubSeq(a, l + 1, Len(a)) \o ToRead = r
  BY <1>3, <1>7 DEF Cuts
<1>9. MessageOf(b) = n + 1
  BY <1>3, <1>4 DEF MessageOf
<1>10. SubSeq(a, l + 1, Len(a)) \in Seq(Octets)
  <2>1. l \in 0 .. Len(a)
    BY <1>3, <1>5, <1>6
  <2> QED
    BY <1>5, <2>1, DropIs
<1> QED
  BY <1>8, <1>9, <1>10 DEF a, b, r, l

(* Some frame with a name of P is somewhere on the stack. *)
Reads(s)  == Has(s, {"read", "readyRead"})
Parses(s) == Has(s, {"readyRead"})

(* The bytes of a callback whose ::read failed are lost with it. *)
Dropped == peer = "reset" /\ (~Open \/ Doomed(stack))

(* Nothing lies in mReadBuffer but while it is filled or looked at, and    *)
(* no message is left in mBuffers.                                         *)
Emptied ==
    /\ peer \in {"none", "connecting", "refused"} => incoming = <<>> /\ mReadBuffer = <<>>
    /\ attached /\ mSocketClient /\ ~mCheckTimer /\ ~Reads(stack) /\ ~Dropped => mReadBuffer = <<>>
    /\ ~Parses(stack) => Len(mBuffers) < IF mPendingRead = 0 THEN HeaderSize ELSE mPendingRead

InputInv == Cut /\ Emptied

(* Nothing of the input is touched, and nobody who takes care of it goes. *)
LEMMA InputKept ==
    ASSUME InputInv,
           UNCHANGED <<plan, parsed, mPendingRead, mBuffers, mReadBuffer, incoming, toCome>>,
           peer' = peer \/ peer' \notin {"none", "connecting", "refused"}
             \/ peer \in {"none", "connecting", "refused"},
           peer = "reset" => peer' = "reset",
           attached' /\ mSocketClient' /\ ~mCheckTimer' =>
              (attached /\ mSocketClient /\ ~mCheckTimer) \/ mReadBuffer = <<>> \/ Reads(stack'),
           Reads(stack) => Reads(stack') \/ mReadBuffer = <<>> \/ ~attached' \/ Dropped',
           Parses(stack) => Parses(stack'),
           ~Open \/ Doomed(stack) => ~Open' \/ Doomed(stack') \/ peer # "reset"
    PROVE  InputInv'
<1>1. \A n : Suffix(n)' = Suffix(n) /\ Body(n)' = Body(n)
  BY DEF Suffix, Body, MessageBytes, Bytes, BodySize
<1>2. Have' = Have /\ ToRead' = ToRead
  BY DEF Have, ToRead
<1>3. Cut'
  BY <1>1, <1>2 DEF InputInv, Cut, BodySize
<1>4. Emptied'
  BY DEF InputInv, Emptied, Dropped
<1> QED
  BY <1>3, <1>4 DEF InputInv

(* Bytes move on. *)
LEMMA CutMoves ==
    ASSUME Cut, Have' \o ToRead' = Have \o ToRead, UNCHANGED <<plan, parsed, mPendingRead>>
    PROVE  Cut'
<1>1. \A n : Suffix(n)' = Suffix(n) /\ Body(n)' = Body(n)
  BY DEF Suffix, Body, MessageBytes, Bytes, BodySize
<1> QED
  BY <1>1 DEF Cut, BodySize

(* What is pushed on t leaves what t has. *)
Above(s, t) == \A P : Has(t, P) => Has(s, P)

AboveAll(f, g, h, t) ==
    /\ Above(t, t) /\ Above(<<>> \o t, t) /\ Above(<<f>> \o t, t) /\ Above(<<f, g>> \o t, t)
    /\ Above((<<f>> \o <<g>>) \o t, t) /\ Above((<<>> \o <<g>>) \o t, t)
    /\ Above(((<<f>> \o <<g>>) \o <<h>>) \o t, t) /\ Above(((<<>> \o <<g>>) \o <<h>>) \o t, t)
    /\ Above(((<<>> \o <<>>) \o <<h>>) \o t, t)

LEMMA HasBelow ==
    ASSUME NEW S, NEW x \in Seq(S), NEW t \in Seq(S)
    PROVE  Above(x \o t, t)
<1> SUFFICES ASSUME NEW P, NEW k \in 1 .. Len(t), t[k].at \in P
             PROVE  \E j \in 1 .. Len(x \o t) : (x \o t)[j].at \in P
  BY DEF Above, Has
<1>1. Len(x) \in Nat /\ Len(t) \in Nat /\ Len(x \o t) = Len(x) + Len(t)
      /\ \A i \in 1 .. Len(x) + Len(t) : (x \o t)[i] = IF i <= Len(x) THEN x[i] ELSE t[i - Len(x)]
  BY ConcatProperties
<1>2. Len(x) + k \in 1 .. Len(x) + Len(t) /\ ~(Len(x) + k <= Len(x)) /\ (Len(x) + k) - Len(x) = k
  BY <1>1
<1>3. (x \o t)[Len(x) + k] = t[k]
  BY <1>1, <1>2
<1> QED
  BY <1>1, <1>2, <1>3

LEMMA AboveForms ==
    ASSUME NEW T, NEW f, NEW g, NEW h, NEW t \in Seq(T)
    PROVE  AboveAll(f, g, h, t)
<1> DEFINE S == T \cup {f, g, h}
           a == <<f>>
           b == <<g>>
           c == <<h>>
           p == <<f, g>>
           e == <<>>
<1>1. t \in Seq(S) /\ a \in Seq(S) /\ b \in Seq(S) /\ c \in Seq(S) /\ p \in Seq(S) /\ e \in Seq(S)
  <2>1. f \in S /\ g \in S /\ h \in S /\ T \subseteq S
    OBVIOUS
  <2> HIDE DEF S
  <2> QED
    BY <2>1
<1>2. Above(t, t)
  BY DEF Above
<1> HIDE DEF S, a, b, c, p, e
<1>3. a \o b \in Seq(S) /\ e \o b \in Seq(S) /\ e \o e \in Seq(S)
  BY <1>1, ConcatProperties
<1>4. (a \o b) \o c \in Seq(S) /\ (e \o b) \o c \in Seq(S) /\ (e \o e) \o c \in Seq(S)
  BY <1>1, <1>3, ConcatProperties
<1>5. Above(e \o t, t) /\ Above(a \o t, t) /\ Above(p \o t, t)
  BY <1>1, HasBelow
<1>6. Above((a \o b) \o t, t) /\ Above((e \o b) \o t, t)
  BY <1>1, <1>3, HasBelow
<1>7. Above(((a \o b) \o c) \o t, t) /\ Above(((e \o b) \o c) \o t, t) /\ Above(((e \o e) \o c) \o t, t)
  BY <1>1, <1>4, HasBelow
<1> QED
  BY <1>2, <1>5, <1>6, <1>7 DEF AboveAll, a, b, c, p, e

LEMMA HasTail ==
    ASSUME NEW s \in Seq(Frames), s # <<>>, NEW P, Has(s, P), Head(s).at \notin P
    PROVE  Has(Tail(s), P)
<1>1. Len(s) \in Nat /\ Head(s) = s[1] /\ Len(Tail(s)) = Len(s) - 1
      /\ \A k \in 1 .. Len(s) - 1 : Tail(s)[k] = s[k + 1]
  BY HeadTailProperties
<1>2. PICK k \in 1 .. Len(s) : s[k].at \in P
  BY DEF Has
<1>3. k # 1
  BY <1>1, <1>2
<1>4. k - 1 \in 1 .. Len(s) - 1 /\ (k - 1) + 1 = k
  BY <1>1, <1>3
<1>5. Tail(s)[k - 1] = s[k]
  BY <1>1, <1>4
<1> QED
  BY <1>1, <1>2, <1>4, <1>5 DEF Has

LEMMA HasHead ==
    ASSUME NEW S, NEW s \in Seq(S), s # <<>>, NEW P, Head(s).at \in P
    PROVE  Has(s, P)
<1>1. Len(s) \in Nat /\ Head(s) = s[1] /\ 1 \in 1 .. Len(s)
  OBVIOUS
<1> QED
  BY <1>1 DEF Has

(* Steps that take a frame off and push others, but do not read. *)
LEMMA FrameStep ==
    ASSUME Inv, InputInv, stack # <<>>, Top.at \notin {"read", "readyRead"}, Above(stack', Below),
           Top.at = "fail" => ~Open',
           UNCHANGED <<plan, parsed, mPendingRead, mBuffers, mReadBuffer, incoming, toCome,
                       peer, attached, mCheckTimer>>,
           mSocketClient' => mSocketClient, ~Open => ~Open'
    PROVE  InputInv'
<1>1. \A P : Has(stack, P) => Top.at \in P \/ Has(Below, P)
  BY HasTail DEF Inv, Linked, Top, Below
<1>2. \A P : Has(stack, P) => Top.at \in P \/ Has(stack', P)
  BY <1>1 DEF Above
<1>3. Parses(stack) => Parses(stack')
  BY <1>2 DEF Parses
<1>4. Reads(stack) => Reads(stack')
  BY <1>2 DEF Reads
<1>5. Doomed(stack) => Doomed(stack') \/ ~Open'
  BY <1>2 DEF Doomed
<1> QED
  BY <1>3, <1>4, <1>5, InputKept

(* The forms of stack' in the actions. *)
LEMMA StackForms ==
    ASSUME Inv, stack # <<>>, NEW f, NEW g, NEW h
    PROVE  AboveAll(f, g, h, Below)
<1>1. Below \in Seq(Frames)
  BY Pushed DEF Inv, Linked, Below
<1> QED
  BY <1>1, AboveForms

LEMMA WriteToReads ==
    ASSUME Inv, InputInv, WriteTo, UNCHANGED connVars
    PROVE  InputInv'
<1> DEFINE f == [Top EXCEPT !.at = IF mWriteWait THEN "store"
                                   ELSE IF mWriteBuffer # <<>> THEN "flush" ELSE "flushed",
                            !.goal = Len(Unwritten)]
<1>1. stack # <<>> /\ Top.at = "writeTo" /\ stack' = <<f>> \o Below
      /\ UNCHANGED <<linkVars, kernelVars, mReadBuffer, attached, connVars>>
  BY DEF WriteTo, At, Top, Goto
<1> HIDE DEF f
<1>2. AboveAll(f, f, f, Below)
  BY <1>1, StackForms
<1> QED
  BY <1>1, <1>2, FrameStep DEF AboveAll, Open, linkVars, kernelVars, connVars, timerVars, inVars, peerVars, toldVars

LEMMA LoopReads ==
    ASSUME Inv, InputInv, Blocked \/ WriteFailed \/ FlushEnd \/ \E e \in 1 .. Capacity : Wrote(e),
           UNCHANGED connVars
    PROVE  InputInv'
<1>1. CASE Blocked
  <2> DEFINE f == [Top EXCEPT !.at = IF Top.at = "flush" THEN "flushed" ELSE "store"]
  <2>1. stack # <<>> /\ Top.at \in {"flush", "direct"} /\ stack' = <<f>> \o Below
        /\ UNCHANGED <<linkVars, kernelVars, mReadBuffer, attached, connVars>>
    BY <1>1 DEF Blocked, InLoop, Loops, Goto
  <2> HIDE DEF f
  <2>2. AboveAll(f, f, f, Below)
    BY <2>1, StackForms
  <2> QED
    BY <2>1, <2>2, FrameStep DEF AboveAll
<1>2. CASE WriteFailed
  <2> DEFINE f == Frame("error")
             g == Frame("fail")
  <2>1. stack # <<>> /\ Top.at \in {"flush", "direct"}
        /\ (stack' = (<<f>> \o <<g>>) \o Below \/ stack' = (<<>> \o <<g>>) \o Below)
        /\ UNCHANGED <<linkVars, kernelVars, mReadBuffer, attached, connVars>>
    BY <1>2 DEF WriteFailed, InLoop, Loops, Emit
  <2> HIDE DEF f, g
  <2>2. AboveAll(f, g, f, Below)
    BY <2>1, StackForms
  <2>3. Above(stack', Below)
    BY <2>1, <2>2 DEF AboveAll
  <2> QED
    BY <2>1, <2>3, FrameStep
<1>3. CASE FlushEnd
  <2> DEFINE f == [Top EXCEPT !.at = "flushed"]
  <2>1. stack # <<>> /\ Top.at = "flush" /\ stack' = <<f>> \o Below
        /\ UNCHANGED <<linkVars, kernelVars, mReadBuffer, attached, connVars>>
    BY <1>3 DEF FlushEnd, At, Top, Goto
  <2> HIDE DEF f
  <2>2. AboveAll(f, f, f, Below)
    BY <2>1, StackForms
  <2> QED
    BY <2>1, <2>2, FrameStep DEF AboveAll
<1>4. ASSUME NEW e \in 1 .. Capacity, Wrote(e) PROVE InputInv'
  <2> DEFINE f == [Frame("bytesWritten") EXCEPT !.total = e]
             g == [Top EXCEPT !.total = @ + e]
  <2>1. stack # <<>> /\ Top.at \in {"flush", "direct"}
        /\ (stack' = (<<f>> \o <<g>>) \o Below \/ stack' = (<<>> \o <<g>>) \o Below)
        /\ UNCHANGED <<linkVars, incoming, peer, mReadBuffer, attached, connVars>>
    BY <1>4 DEF Wrote, InLoop, Loops, Emit
  <2> HIDE DEF f, g
  <2>2. AboveAll(f, g, f, Below)
    BY <2>1, StackForms
  <2>3. Above(stack', Below)
    BY <2>1, <2>2 DEF AboveAll
  <2> QED
    BY <2>1, <2>3, FrameStep
<1> QED
  BY <1>1, <1>2, <1>3, <1>4

LEMMA ReturnReads ==
    ASSUME Inv, InputInv, Fail \/ Flushed \/ DirectEnd, UNCHANGED connVars
    PROVE  InputInv'
<1>1. CASE Fail
  <2>1. stack # <<>> /\ Top.at = "fail" /\ stack' = Below /\ ~Open'
        /\ UNCHANGED <<kernelVars, mReadBuffer, attached, connVars>>
    BY <1>1 DEF Fail, At, Top, Return, Close
  <2> QED
    BY <2>1, FrameStep DEF Above
<1>2. CASE Flushed
  <2> DEFINE f == [Top EXCEPT !.total = 0, !.at = IF mWriteBuffer = <<>> THEN "direct" ELSE "store"]
  <2>1. stack # <<>> /\ Top.at = "flushed" /\ (stack' = <<f>> \o Below \/ stack' = Below)
        /\ UNCHANGED <<linkVars, kernelVars, mReadBuffer, attached, connVars>>
    BY <1>2 DEF Flushed, At, Top, Goto, Return
  <2> HIDE DEF f
  <2>2. AboveAll(f, f, f, Below)
    BY <2>1, StackForms
  <2>3. Above(stack', Below)
    BY <2>1, <2>2 DEF AboveAll
  <2> QED
    BY <2>1, <2>3, FrameStep
<1>3. CASE DirectEnd
  <2>1. stack # <<>> /\ Top.at = "direct" /\ stack' = Below
        /\ UNCHANGED <<linkVars, kernelVars, mReadBuffer, attached, connVars>>
    BY <1>3 DEF DirectEnd, At, Top, Return
  <2> QED
    BY <2>1, FrameStep DEF Above
<1> QED
  BY <1>1, <1>2, <1>3

LEMMA CallbackReads ==
    ASSUME Inv, InputInv, ReadDone \/ WritePart, UNCHANGED connVars
    PROVE  InputInv'
<1>1. CASE ReadDone
  <2> DEFINE f == [Top EXCEPT !.at = "writable"]
  <2>1. stack # <<>> /\ Top.at = "readDone" /\ stack' = <<f>> \o Below
        /\ UNCHANGED <<linkVars, kernelVars, mReadBuffer, attached, connVars>>
    BY <1>1 DEF ReadDone, At, Top, Goto
  <2> HIDE DEF f
  <2>2. AboveAll(f, f, f, Below)
    BY <2>1, StackForms
  <2> QED
    BY <2>1, <2>2, FrameStep DEF AboveAll
<1>2. CASE WritePart
  <2> DEFINE e == Frame("error")
             c == Frame("connected")
             n == Frame("fail")
             w == WriteCall(<<>>)
  <2>1. stack # <<>> /\ Top.at = "writable"
        /\ UNCHANGED <<mFd, kernelVars, mReadBuffer, attached, connVars>>
    BY <1>2 DEF WritePart, At, Top
  <2>2. \/ stack' = Below \/ stack' = <<w>> \o Below
        \/ stack' = (<<e>> \o <<n>>) \o Below \/ stack' = (<<>> \o <<n>>) \o Below
        \/ stack' = (<<c>> \o <<w>>) \o Below \/ stack' = (<<>> \o <<w>>) \o Below
    BY <1>2 DEF WritePart, Goto, Emit
  <2> HIDE DEF e, c, n, w
  <2>3. AboveAll(w, n, w, Below) /\ AboveAll(e, n, w, Below) /\ AboveAll(c, w, w, Below)
    BY <2>1, StackForms
  <2>4. Above(stack', Below)
    BY <2>2, <2>3 DEF AboveAll
  <2> QED
    BY <2>1, <2>4, FrameStep
<1> QED
  BY <1>1, <1>2

LEMMA SendReads ==
    ASSUME Inv, InputInv, StoreRest \/ SendValue
    PROVE  InputInv'
<1>1. CASE StoreRest
  <2>1. stack # <<>> /\ Top.at = "store" /\ stack' = Below /\ (~Open => ~Open')
        /\ UNCHANGED <<kernelVars, mReadBuffer, attached, timerVars, inVars, peerVars, mSocketClient>>
    BY <1>1 DEF StoreRest, Store, At, Top, Return, Close
  <2> QED
    BY <2>1, FrameStep DEF Above
<1>2. CASE SendValue
  <2> DEFINE w == WriteCall(Top.data)
  <2>1. stack # <<>> /\ Top.at = "send"
        /\ (stack' = <<w>> \o Below \/ stack' = <<>> \o Below)
        /\ UNCHANGED <<linkVars, kernelVars, mReadBuffer, attached, connVars>>
    BY <1>2 DEF SendValue, At, Top
  <2> HIDE DEF w
  <2>2. AboveAll(w, w, w, Below)
    BY <2>1, StackForms
  <2> QED
    BY <2>1, <2>2, FrameStep DEF AboveAll
<1> QED
  BY <1>1, <1>2

LEMMA SlotsRead ==
    ASSUME Inv, InputInv,
           \/ ConnectFailed \/ OnClientConnected \/ OnClientDisconnected \/ OnSocketError
           \/ OnDataWritten \/ SlotReturns
    PROVE  InputInv'
<1>1. CASE ConnectFailed
  <2>1. stack # <<>> /\ Top.at = "connectFailed" /\ stack' = Below /\ mSocketClient' = FALSE
        /\ UNCHANGED <<linkVars, kernelVars, mReadBuffer, attached, timerVars, inVars, peerVars>>
    BY <1>1 DEF ConnectFailed, At, Top
  <2> QED
    BY <2>1, FrameStep DEF Above
<1>2. CASE OnClientConnected \/ OnClientDisconnected
  <2> DEFINE c == Frame("mConnected")
             d == Frame("mDisconnected")
  <2>1. stack # <<>> /\ Top.at \in {"connected", "disconnected"}
        /\ (stack' = <<c>> \o Below \/ stack' = <<d>> \o Below)
        /\ UNCHANGED <<linkVars, kernelVars, mReadBuffer, attached, timerVars, inVars, peerVars, mSocketClient>>
    BY <1>2 DEF OnClientConnected, OnClientDisconnected, At, Top, Goto
  <2> HIDE DEF c, d
  <2>2. AboveAll(c, c, c, Below) /\ AboveAll(d, d, d, Below)
    BY <2>1, StackForms
  <2>3. Above(stack', Below)
    BY <2>1, <2>2 DEF AboveAll
  <2> QED
    BY <2>1, <2>3, FrameStep
<1>3. CASE OnSocketError
  <2> DEFINE e == Frame("mError")
             d == Frame("mDisconnected")
  <2>1. stack # <<>> /\ Top.at = "error" /\ stack' = <<e, d>> \o Below
        /\ UNCHANGED <<linkVars, kernelVars, mReadBuffer, attached, connVars>>
    BY <1>3 DEF OnSocketError, At, Top
  <2> HIDE DEF e, d
  <2>2. AboveAll(e, d, d, Below)
    BY <2>1, StackForms
  <2>3. Above(stack', Below)
    BY <2>1, <2>2 DEF AboveAll
  <2> QED
    BY <2>1, <2>3, FrameStep
<1>4. CASE OnDataWritten
  <2> DEFINE f == Frame("mSendFinished")
  <2>1. stack # <<>> /\ Top.at = "bytesWritten"
        /\ (stack' = <<f>> \o Below \/ stack' = <<>> \o Below)
        /\ UNCHANGED <<linkVars, kernelVars, mReadBuffer, attached, timerVars, inVars, peerVars, toldVars>>
    BY <1>4 DEF OnDataWritten, At, Top
  <2> HIDE DEF f
  <2>2. AboveAll(f, f, f, Below)
    BY <2>1, StackForms
  <2> QED
    BY <2>1, <2>2, FrameStep DEF AboveAll
<1>5. CASE SlotReturns
  <2>1. stack # <<>> /\ Top.at \in Slots /\ stack' = Below
        /\ UNCHANGED <<linkVars, kernelVars, mReadBuffer, attached, timerVars, inVars, peerVars, mSocketClient>>
    BY <1>5 DEF SlotReturns, InSlot, At, Top
  <2>2. Top.at \notin {"read", "readyRead", "fail"}
    BY <2>1 DEF Slots
  <2> QED
    BY <2>1, <2>2, FrameStep DEF Above
<1> QED
  BY <1>1, <1>2, <1>3, <1>4, <1>5

(* The read frame is alone on the stack. *)
LEMMA Reading ==
    ASSUME Inv, At("read")
    PROVE  /\ stack # <<>> /\ Below = <<>> /\ ~Parses(stack) /\ ~Doomed(stack)
           /\ Len(mReadBuffer) = Top.total /\ Top.total \in Nat
<1>1. On(stack, Top, Below) /\ Top.at = "read"
  BY Inside
<1>2. Below = <<>> /\ First(stack) = Top /\ Top \in Frames
  BY <1>1 DEF On, Fits
<1>3. stack \in Seq(Frames) /\ stack # <<>> /\ Head(stack) = Top /\ Tail(stack) = Below
  BY <1>1 DEF On, Inv, Linked, Top, Below
<1>4. \A P : ~Has(<<>>, P)
  BY DEF Has
<1>5. ~Has(stack, {"readyRead"}) /\ ~Has(stack, {"fail"})
  BY <1>1, <1>2, <1>3, <1>4, HasTail
<1> QED
  BY <1>1, <1>2, <1>3, <1>5 DEF Parses, Doomed, Inv, Counts, Frames

(* e bytes move from the kernel into mReadBuffer. *)
LEMMA ReadSomeReads ==
    ASSUME Inv, InputInv, NEW e \in 1 .. Len(incoming), ReadSome(e), UNCHANGED connVars
    PROVE  InputInv'
<1> DEFINE f == [Top EXCEPT !.total = @ + e]
           a == mReadBuffer
           b == incoming
           x == SubSeq(b, 1, e)
           y == SubSeq(b, e + 1, Len(b))
<1>1. /\ stack # <<>> /\ Below = <<>> /\ ~Parses(stack) /\ Len(a) = Top.total /\ Top.total \in Nat
      /\ Top.at = "read"
  BY Reading DEF ReadSome, At, Top
<1>2. /\ stack' = <<f>> \o Below /\ a' = SubSeq(a \o b, 1, Len(a) + e) /\ b' = y
      /\ peer \notin {"reset", "refused"}
      /\ UNCHANGED <<linkVars, peer, attached, connVars>>
  BY <1>1 DEF ReadSome, Goto
<1>3. a \in Seq(Octets) /\ b \in Seq(Octets) /\ toCome \in Seq(Octets) /\ mBuffers \in Seq(Octets)
      /\ Len(a) \in Nat /\ Len(b) \in Nat /\ e \in 0 .. Len(b) /\ b # <<>>
  <2>1. a \in Seq(Octets) /\ b \in Seq(Octets) /\ toCome \in Seq(Octets) /\ mBuffers \in Seq(Octets)
    BY DEF Inv, InTypes
  <2>2. Len(a) \in Nat /\ Len(b) \in Nat /\ e \in 0 .. Len(b) /\ Len(b) > 0
    BY <2>1
  <2> QED
    BY <2>1, <2>2
<1>4. x \in Seq(Octets) /\ y \in Seq(Octets) /\ b = x \o y /\ Len(x) = e
  <2>1. 0 \in 0 .. Len(b) /\ e \in 0 .. Len(b) - 0
    BY <1>3
  <2>2. /\ SubSeq(b, 0 + 1, 0 + e) \in Seq(Octets) /\ Len(SubSeq(b, 0 + 1, 0 + e)) = e
        /\ SubSeq(b, 0 + e + 1, Len(b)) \in Seq(Octets)
        /\ SubSeq(b, 0 + 1, Len(b)) = SubSeq(b, 0 + 1, 0 + e) \o SubSeq(b, 0 + e + 1, Len(b))
    BY <1>3, <2>1, CutInTwo
  <2>3. 0 + 1 = 1 /\ 0 + e = e /\ 0 + e + 1 = e + 1
    BY <1>3
  <2>4. SubSeq(b, 1, Len(b)) = b
    BY <1>3
  <2> QED
    BY <2>2, <2>3, <2>4
<1> HIDE DEF f, a, b, x, y
<1>5. a' = a \o x
  <2> DEFINE c == a \o x
  <2>1. c \in Seq(Octets) /\ Len(c) = Len(a) + e
    BY <1>3, <1>4, ConcatProperties
  <2>2. a \o b = c \o y
    <3>1. Associates(a, x, y)
      BY <1>3, <1>4, ConcatAssociates
    <3> QED
      BY <1>4, <3>1 DEF Associates
  <2> HIDE DEF c
  <2>3. SubSeq(c \o y, 1, Len(c)) = c
    <3> DEFINE d == c \o y
    <3>1. d \in Seq(Octets) /\ Len(d) = Len(c) + Len(y) /\ Len(c) \in Nat /\ Len(y) \in Nat
      BY <1>4, <2>1, ConcatProperties, LenProperties
    <3>3. y \in Seq(Octets) /\ c \in Seq(Octets) /\ d = c \o y
      BY <1>4, <2>1
    <3>2. Len(c) <= Len(d)
      BY <3>1
    <3> HIDE DEF d
    <3>4. <<>> \in Seq(Octets) /\ d \o <<>> = d
      BY <3>1, ConcatEmptySeq, EmptySeq
    <3>5. Cuts(d, <<>>, c, y)
      BY <3>1, <3>2, <3>3, <3>4, TwoCuts
    <3> QED
      BY <3>5 DEF Cuts, d
  <2> QED
    BY <1>2, <2>1, <2>2, <2>3 DEF c
<1>6. Have' \o ToRead' = Have \o ToRead
  <2> DEFINE t == toCome
             m == mBuffers
  <2>0. t \in Seq(Octets) /\ m \in Seq(Octets) /\ t' = t /\ m' = m
    BY <1>2, <1>3
  <2> HIDE DEF t, m
  <2>1. Have = m \o a /\ ToRead = b \o t /\ Have' = m \o (a \o x) /\ ToRead' = y \o t
    BY <1>2, <1>5, <2>0 DEF Have, ToRead, a, b, m, t
  <2> DEFINE h == m \o a
             r == y \o t
  <2>2. h \in Seq(Octets) /\ r \in Seq(Octets)
    BY <1>3, <1>4, <2>0, ConcatProperties
  <2>3. m \o (a \o x) = h \o x
    <3>1. Associates(m, a, x)
      BY <1>3, <1>4, <2>0, ConcatAssociates
    <3> QED
      BY <3>1 DEF Associates
  <2>4. b \o t = x \o r
    <3>1. Associates(x, y, t)
      BY <1>4, <2>0, ConcatAssociates
    <3> QED
      BY <1>4, <3>1 DEF Associates
  <2> HIDE DEF h, r
  <2>5. (h \o x) \o r = h \o (x \o r)
    <3>1. Associates(h, x, r)
      BY <1>4, <2>2, ConcatAssociates
    <3> QED
      BY <3>1 DEF Associates
  <2>6. Have = h /\ ToRead' = r
    BY <2>1 DEF h, r
  <2> QED
    BY <2>1, <2>3, <2>4, <2>5, <2>6
<1>7. Cut'
  BY <1>2, <1>6, CutMoves DEF InputInv
<1>8. Reads(stack')
  <2>1. <<f>> \in Seq({f}) /\ <<f>> # <<>> /\ Head(<<f>>) = f
    OBVIOUS
  <2>2. stack' = <<f>>
    BY <1>1, <1>2, <2>1, ConcatEmptySeq
  <2>3. f.at = "read"
    <3>1. Top \in Frames
      BY Inside DEF ReadSome, On
    <3> QED
      BY <1>1, <3>1 DEF f, Frames
  <2>4. Has(<<f>>, {"read", "readyRead"})
    BY <2>1, <2>3, HasHead
  <2> QED
    BY <2>2, <2>4 DEF Reads
<1>9. Emptied'
  BY <1>1, <1>2, <1>3, <1>8 DEF InputInv, Emptied, b
<1> QED
  BY <1>7, <1>9 DEF InputInv

(* The end of the read loop, on each of the ways out of it. *)
LEMMA ReadEndsReads ==
    ASSUME Inv, InputInv, ReadAll \/ ReadEnd \/ ReadFailed, UNCHANGED connVars
    PROVE  InputInv'
<1> DEFINE r == Frame("readyRead")
           n == [Top EXCEPT !.at = "readDone"]
           d == Frame("disconnected")
           e == Frame("error")
           c == Frame("fail")
<1>1. /\ stack # <<>> /\ Below = <<>> /\ ~Parses(stack) /\ ~Doomed(stack)
      /\ Len(mReadBuffer) = Top.total /\ Top.total \in Nat
      /\ UNCHANGED <<linkVars, kernelVars, mReadBuffer, attached, connVars>>
  BY Reading DEF ReadAll, ReadEnd, ReadFailed
<1>2. \A f, g : Has(<<f>>, {"readyRead"}) <=> f.at = "readyRead"
  BY DEF Has
<1>3. ASSUME NEW S, NEW s \in Seq(S), NEW t \in Seq(S), s # <<>>, Head(s).at = "readyRead", stack' = s \o t
      PROVE  Reads(stack')
  <2>1. s \o t \in Seq(S) /\ s \o t # <<>> /\ Head(s \o t) = Head(s)
    BY <1>3, HeadTailProperties, ConcatProperties
  <2> QED
    BY <1>3, <2>1, HasHead DEF Reads
<1>4. r.at = "readyRead"
  BY DEF Frame
<1>5. CASE ReadAll
  <2>1. attached => stack' = (<<r>> \o <<n>>) \o Below
    BY <1>5 DEF ReadAll, Emit
  <2>2. Reads(stack') \/ ~attached'
    <3> DEFINE S == {r, n}
               q == <<r>> \o <<n>>
    <3>1. <<r>> \in Seq(S) /\ <<n>> \in Seq(S) /\ <<r>> # <<>> /\ Head(<<r>>) = r
      OBVIOUS
    <3> HIDE DEF r, n
    <3>2. q \in Seq(S) /\ q \o Below = q
      BY <1>1, <3>1, ConcatProperties, ConcatEmptySeq
    <3> QED
      BY <1>1, <1>3, <1>4, <2>1, <3>1, <3>2
  <2> QED
    BY <1>1, <2>2, InputKept
<1>6. CASE ReadEnd
  <2>1. attached /\ Top.total > 0 => stack' = ((<<r>> \o <<d>>) \o <<c>>) \o Below
    BY <1>6 DEF ReadEnd, Emit
  <2>2. ASSUME attached, Top.total > 0 PROVE Reads(stack')
    <3> DEFINE S == {r, d, c}
               q == <<d>> \o <<c>>
    <3>1. <<r>> \in Seq(S) /\ <<d>> \in Seq(S) /\ <<c>> \in Seq(S) /\ <<r>> # <<>> /\ Head(<<r>>) = r
      OBVIOUS
    <3> HIDE DEF r, d, c, S
    <3>2. q \in Seq(S) /\ (<<r>> \o <<d>>) \o <<c>> = <<r>> \o q /\ <<r>> \o q \in Seq(S)
      BY <3>1, ConcatProperties, Associative
    <3>3. (<<r>> \o q) \o Below = <<r>> \o q
      BY <1>1, <3>2, ConcatEmptySeq
    <3>4. stack' = <<r>> \o q
      BY <2>1, <2>2, <3>2, <3>3
    <3> HIDE DEF q
    <3> QED
      BY <1>3, <1>4, <3>1, <3>2, <3>4
  <2>3. ASSUME ~(Top.total > 0) PROVE mReadBuffer = <<>>
    <3>1. mReadBuffer \in Seq(Octets) /\ Len(mReadBuffer) = 0
      BY <1>1, <2>3 DEF Inv, InTypes
    <3> QED
      BY <3>1
  <2> QED
    BY <1>1, <2>2, <2>3, InputKept
<1>7. CASE ReadFailed
  <2>1. peer \in {"reset", "refused"}
    BY <1>7 DEF ReadFailed
  <2>2. CASE peer = "refused"
    BY <1>1, <2>2, InputKept DEF InputInv, Emptied
  <2>3. CASE peer = "reset"
    <3>1. stack' = (<<e>> \o <<c>>) \o Below \/ stack' = (<<>> \o <<c>>) \o Below
      BY <1>7 DEF ReadFailed, Emit
    <3> DEFINE T == {e, c}
    <3>2. <<e>> \in Seq(T) /\ <<c>> \in Seq(T) /\ <<>> \in Seq(T) /\ <<c>> # <<>> /\ Head(<<c>>) = c /\ c.at = "fail"
      BY DEF Frame
    <3> HIDE DEF e, c, T
    <3>3. <<e>> \o <<c>> \in Seq(T) /\ <<>> \o <<c>> \in Seq(T)
      BY <3>2, ConcatProperties
    <3>4. stack' = <<e>> \o <<c>> \/ stack' = <<>> \o <<c>>
      BY <1>1, <3>1, <3>3, ConcatEmptySeq
    <3>5. Has(<<c>>, {"fail"})
      BY <3>2, HasHead
    <3>6. Doomed(stack')
      BY <3>2, <3>4, <3>5, HasBelow DEF Above, Doomed
    <3>7. Dropped'
      BY <1>1, <2>3, <3>6 DEF Dropped
    <3> QED
      BY <1>1, <3>6, <3>7, InputKept
  <2> QED
    BY <2>1, <2>2, <2>3
<1> QED
  BY <1>5, <1>6, <1>7

(* Nothing is on the stack at rest. *)
LEMMA RestHas ==
    ASSUME AtRest
    PROVE  ~Parses(stack) /\ ~Reads(stack) /\ ~Doomed(stack)
BY DEF AtRest, Parses, Reads, Doomed, Has

LEMMA OnEventReads ==
    ASSUME Inv, InputInv, OnEvent, UNCHANGED connVars
    PROVE  InputInv'
<1>1. UNCHANGED <<linkVars, kernelVars, mReadBuffer, attached, connVars>> /\ AtRest
  BY DEF OnEvent
<1>2. ~Parses(stack) /\ ~Reads(stack) /\ ~Doomed(stack)
  BY <1>1, RestHas
<1> QED
  BY <1>1, <1>2, InputKept

LEMMA KernelReads ==
    ASSUME Inv, InputInv, Drain \/ PeerMoves, UNCHANGED connVars
    PROVE  InputInv'
<1>1. UNCHANGED <<linkVars, incoming, mReadBuffer, attached, stack, connVars>>
  BY DEF Drain, PeerMoves
<1>2. peer' = peer \/ peer' \notin {"none", "connecting", "refused"} \/ peer \in {"none", "connecting", "refused"}
  <2>1. CASE Drain
    BY <2>1 DEF Drain
  <2>2. CASE PeerMoves
    BY <2>2 DEF PeerMoves
  <2> QED
    BY <2>1, <2>2
<1>3. peer = "reset" => peer' = "reset"
  <2>1. CASE Drain
    BY <2>1 DEF Drain
  <2>2. CASE PeerMoves
    BY <2>2 DEF PeerMoves
  <2> QED
    BY <2>1, <2>2
<1>4. attached' /\ mSocketClient' /\ ~mCheckTimer' => attached /\ mSocketClient /\ ~mCheckTimer
  BY <1>1
<1>5. /\ Parses(stack) => Parses(stack')
      /\ Reads(stack) => Reads(stack')
      /\ Doomed(stack) => Doomed(stack')
  BY <1>1
<1> QED
  BY <1>1, <1>2, <1>3, <1>4, <1>5, InputKept

LEMMA ArriveReads ==
    ASSUME Inv, InputInv, Arrive
    PROVE  InputInv'
<1> DEFINE b == incoming
           t == toCome
<1>1. /\ peer = "open" /\ t # <<>> /\ b' = Append(b, Head(t)) /\ t' = Tail(t)
      /\ UNCHANGED <<linkVars, peer, mReadBuffer, attached, stack, timerVars, inVars, plan, toldVars>>
  BY DEF Arrive
<1>2. b \in Seq(Octets) /\ t \in Seq(Octets)
  BY DEF Inv, InTypes
<1> HIDE DEF b, t
<1>3. Append(b, Head(t)) \o Tail(t) = b \o t
  BY <1>1, <1>2, HeadMoves
<1>4. ToRead' = ToRead /\ Have' = Have
  BY <1>1, <1>3 DEF ToRead, Have, b, t
<1>5. Cut'
  BY <1>1, <1>4, CutMoves DEF InputInv
<1>6. Emptied'
  BY <1>1 DEF InputInv, Emptied, Dropped
<1> QED
  BY <1>5, <1>6 DEF InputInv

LEMMA TimersRead ==
    ASSUME Inv, InputInv, CheckData \/ TimeoutFires
    PROVE  InputInv'
<1>1. ~Parses(stack) /\ ~Reads(stack) /\ ~Doomed(stack)
  BY RestHas DEF CheckData, TimeoutFires
<1>2. CASE CheckData
  <2> DEFINE r == Frame("readyRead")
  <2>1. UNCHANGED <<linkVars, kernelVars, mReadBuffer, attached, inVars, peerVars, toldVars>>
        /\ (mReadBuffer # <<>> => stack' = <<r>>)
    BY <1>2 DEF CheckData
  <2>2. r.at = "readyRead"
    BY DEF Frame
  <2> HIDE DEF r
  <2>3. <<r>> \in Seq({r}) /\ <<r>> # <<>> /\ Head(<<r>>) = r
    OBVIOUS
  <2>4. Reads(stack') \/ mReadBuffer = <<>>
    BY <2>1, <2>2, <2>3, HasHead DEF Reads
  <2> QED
    BY <1>1, <2>1, <2>4, InputKept
<1>3. CASE TimeoutFires
  <2>1. /\ UNCHANGED <<kernelVars, mReadBuffer, attached, mCheckTimer, inVars, peerVars>>
        /\ mSocketClient' => mSocketClient
        /\ ~Open => ~Open'
    BY <1>3 DEF TimeoutFires, Close
  <2> QED
    BY <1>1, <2>1, InputKept
<1> QED
  BY <1>2, <1>3

LEMMA UserReads ==
    ASSUME Inv, InputInv, Attach \/ UserClose \/ Destroy
    PROVE  InputInv'
<1>1. /\ UNCHANGED <<kernelVars, mReadBuffer, stack, inVars, peerVars>>
      /\ ~Open => ~Open'
  BY DEF Attach, UserClose, Destroy, Close
<1>2. attached' /\ mSocketClient' /\ ~mCheckTimer' => attached /\ mSocketClient /\ ~mCheckTimer
  BY DEF Attach, UserClose, Destroy
<1>3. /\ Parses(stack) => Parses(stack')
      /\ Reads(stack) => Reads(stack')
      /\ Doomed(stack) => Doomed(stack')
  BY <1>1
<1> QED
  BY <1>1, <1>2, <1>3, InputKept

LEMMA ConnectToReads ==
    ASSUME Inv, InputInv, NEW outcome, NEW timeout, ConnectTo(outcome, timeout)
    PROVE  InputInv'
<1>1. /\ peer = "none" /\ UNCHANGED <<incoming, mReadBuffer, attached, mCheckTimer, inVars, peerVars>>
  BY DEF ConnectTo, Connect
<1>2. stack = <<>>
  BY <1>1 DEF Inv, Fresh
<1>3. ~Parses(stack) /\ ~Reads(stack) /\ ~Doomed(stack)
  BY <1>2, RestHas DEF AtRest
<1>4. mReadBuffer = <<>>
  BY <1>1 DEF InputInv, Emptied
<1> QED
  BY <1>1, <1>3, <1>4, InputKept

LEMMA SendCallReads ==
    ASSUME Inv, InputInv, NEW size \in BodySizes, Send(size)
    PROVE  InputInv'
<1>1. UNCHANGED <<linkVars, kernelVars, mReadBuffer, attached, timerVars, inVars, peerVars, toldVars>>
  BY DEF Send
<1>2. PICK f, g : stack' = <<f, g>> \o stack
  BY DEF Send
<1>3. stack \in Seq(Frames)
  BY DEF Inv, Linked
<1>4. AboveAll(f, g, g, stack)
  BY <1>3, AboveForms
<1>5. /\ Parses(stack) => Parses(stack')
      /\ Reads(stack) => Reads(stack')
      /\ Doomed(stack) => Doomed(stack')
  BY <1>2, <1>4 DEF AboveAll, Above, Parses, Reads, Doomed
<1> QED
  BY <1>1, <1>5, InputKept

(* onDataAvailable. *)
LEMMA OnDataAvailableReads ==
    ASSUME Inv, InputInv, OnDataAvailable
    PROVE  InputInv'
<1> DEFINE n == Len(parsed)
           in == Input
           l == in.length
           b == in.bytes
           r == SubSeq(b, l + 1, Len(b))
           i == MessageOf(SubSeq(b, 1, l))
<1>1. /\ stack \in Seq(Frames) /\ stack # <<>> /\ Head(stack).at = "readyRead" /\ mReadBuffer' = <<>>
      /\ UNCHANGED <<kernelVars, attached, timerVars, peerVars, mSocketClient>>
  BY DEF OnDataAvailable, Inv, Linked, At
<1>2. /\ n \in Nat /\ Len(plan) \in Nat /\ n <= Len(plan) /\ parsed = [k \in 1 .. n |-> k]
      /\ l \in Nat /\ b \in Seq(Octets) /\ Len(b) \in Nat
      /\ Have \in Seq(Octets) /\ ToRead \in Seq(Octets)
  BY ReadTypes, InputType DEF InputInv, Cut
<1>3. \A k : Suffix(k)' = Suffix(k) /\ Body(k)' = Body(k) /\ BodySize(plan'[k]) = BodySize(plan[k])
  BY <1>1 DEF Suffix, Body, MessageBytes, Bytes, BodySize
<1>4. ToRead' = ToRead
  BY <1>1 DEF ToRead
<1>5. Have' = mBuffers' \o <<>>
  BY <1>1 DEF Have
<1>6. \/ mPendingRead = 0 /\ l = 0 /\ b = Have /\ Len(Have) < HeaderSize
      \/ Announced(n, in)
  BY InputIs DEF InputInv
<1>7. HeaderSize \in Nat \ {0} /\ \A k : BodySize(k) \in Nat \ {0}
  BY ConnectionAssumption DEF BodySize
<1>8. CASE Incomplete(in)
  <2>1. mPendingRead' = l /\ mBuffers' = b /\ parsed' = parsed
    BY <1>8 DEF OnDataAvailable
  <2>2. Have' = b
    BY <1>2, <1>5, <2>1, ConcatEmptySeq
  <2>3. l = 0 \/ Len(b) < l
    BY <1>8 DEF Incomplete
  <2>4. CASE mPendingRead = 0 /\ l = 0 /\ b = Have /\ Len(Have) < HeaderSize
    <3>1. Cut'
      BY <1>2, <1>3, <1>4, <1>1, <2>1, <2>2, <2>4 DEF InputInv, Cut
    <3>2. Emptied'
      BY <1>1, <2>1, <2>4 DEF InputInv, Emptied
    <3> QED
      BY <3>1, <3>2 DEF InputInv
  <2>5. CASE Announced(n, in)
    <3>1. l # 0 /\ Len(b) < l
      BY <1>7, <2>3, <2>5 DEF Announced
    <3>2. Cut'
      BY <1>2, <1>3, <1>4, <1>1, <2>1, <2>2, <2>5, <3>1 DEF Cut, Announced
    <3>3. Emptied'
      BY <1>1, <2>1, <3>1 DEF InputInv, Emptied
    <3> QED
      BY <3>2, <3>3 DEF InputInv
  <2> QED
    BY <1>6, <2>4, <2>5
<1>9. CASE ~Incomplete(in)
  <2>1. l # 0 /\ Len(b) >= l
    BY <1>2, <1>9 DEF Incomplete
  <2>2. Announced(n, in)
    BY <1>6, <2>1
  <2>3. i = n + 1 /\ r \in Seq(Octets) /\ r \o ToRead = Suffix(n + 1)
    BY <1>2, <2>1, <2>2, BodyIs
  <2>4. mPendingRead' = 0 /\ mBuffers' = r /\ parsed' = Append(parsed, i) /\ stack' = Slot(i) \o stack
    BY <1>9 DEF OnDataAvailable
  <2> HIDE DEF in, l, b, r, i
  <2>5. Have' = r
    BY <1>5, <2>3, <2>4, ConcatEmptySeq
  <2>6. Len(parsed') = n + 1 /\ parsed' = [k \in 1 .. n + 1 |-> k]
    <3> DEFINE p == [k \in 1 .. n |-> k]
               q == [k \in 1 .. n + 1 |-> k]
    <3> HIDE DEF n
    <3>1. p \in Seq(Nat) /\ Len(p) = n /\ (\A k \in 1 .. n : p[k] = k)
          /\ q \in Seq(Nat) /\ Len(q) = n + 1 /\ (\A k \in 1 .. n + 1 : q[k] = k)
      BY <1>2
    <3>2. parsed = p /\ parsed' = Append(p, n + 1)
      BY <1>2, <2>3, <2>4
    <3> HIDE DEF p, q
    <3> DEFINE s == Append(p, n + 1)
    <3>3. s \in Seq(Nat) /\ Len(s) = n + 1 /\ (\A k \in 1 .. n : s[k] = p[k]) /\ s[n + 1] = n + 1
      <4>1. n + 1 \in Nat
        BY <1>2
      <4> QED
        BY <3>1, <4>1, AppendProperties
    <3> HIDE DEF s
    <3>4. \A k \in 1 .. n + 1 : s[k] = q[k]
      <4> TAKE k \in 1 .. n + 1
      <4>1. k \in 1 .. n \/ k = n + 1
        BY <1>2
      <4> QED
        BY <3>1, <3>3, <4>1
    <3>5. s = q
      BY <1>2, <3>1, <3>3, <3>4, SeqEqual
    <3> QED
      BY <3>2, <3>3, <3>5 DEF s, q
  <2>7. n + 1 <= Len(plan)
    BY <1>2, <2>2 DEF Announced
  <2>8. Cut'
    BY <1>1, <1>3, <1>4, <2>3, <2>4, <2>5, <2>6, <2>7 DEF Cut
  <2>9. Parses(stack')
    <3>1. Parses(stack)
      BY <1>1, HasHead DEF Parses
    <3>2. Slot(i) = <<>> \/ \E f : Slot(i) = <<f>>
      BY DEF Slot
    <3>3. stack' = <<>> \o stack \/ \E f : stack' = <<f>> \o stack
      BY <2>4, <3>2
    <3>4. Above(<<>> \o stack, stack) /\ \A f : Above(<<f>> \o stack, stack)
      BY <1>1, AboveForms DEF AboveAll
    <3> QED
      BY <3>1, <3>3, <3>4 DEF Above, Parses
  <2>10. Emptied'
    BY <1>1, <2>9 DEF InputInv, Emptied
  <2> QED
    BY <2>8, <2>10 DEF InputInv
<1> QED
  BY <1>8, <1>9

LEMMA SocketStepReads ==
    ASSUME Inv, InputInv, SocketStep, UNCHANGED connVars
    PROVE  InputInv'
<1>1. ASSUME NEW e \in 1 .. Len(incoming), ReadSome(e) PROVE InputInv'
  BY <1>1, ReadSomeReads
<1>2. ASSUME Blocked \/ WriteFailed \/ FlushEnd \/ \E e \in 1 .. Capacity : Wrote(e) PROVE InputInv'
  BY <1>2, LoopReads
<1>3. ASSUME Fail \/ Flushed \/ DirectEnd PROVE InputInv'
  BY <1>3, ReturnReads
<1>4. ASSUME ReadDone \/ WritePart PROVE InputInv'
  BY <1>4, CallbackReads
<1>5. ASSUME ReadAll \/ ReadEnd \/ ReadFailed PROVE InputInv'
  BY <1>5, ReadEndsReads
<1> QED
  BY <1>1, <1>2, <1>3, <1>4, <1>5, WriteToReads DEF SocketStep

LEMMA NextReads ==
    ASSUME Inv, InputInv, [Next]_vars
    PROVE  InputInv'
<1>1. CASE Step
  <2>1. ASSUME StoreRest \/ SendValue PROVE InputInv'
    BY <2>1, SendReads
  <2>2. ASSUME \/ ConnectFailed \/ OnClientConnected \/ OnClientDisconnected \/ OnSocketError
               \/ OnDataWritten \/ SlotReturns
        PROVE  InputInv'
    BY <2>2, SlotsRead
  <2>3. ASSUME SocketStep, UNCHANGED connVars PROVE InputInv'
    BY <2>3, SocketStepReads
  <2>4. ASSUME OnDataAvailable PROVE InputInv'
    BY <2>4, OnDataAvailableReads
  <2> QED
    BY <1>1, <2>1, <2>2, <2>3, <2>4 DEF Step
<1>2. CASE Event
  BY <1>2, OnEventReads DEF Event
<1>3. CASE Kernel
  BY <1>3, KernelReads DEF Kernel
<1>4. CASE Arrive
  BY <1>4, ArriveReads
<1>5. CASE CheckData \/ TimeoutFires
  BY <1>5, TimersRead
<1>6. CASE User
  <2>1. ASSUME NEW size \in BodySizes, Send(size) PROVE InputInv'
    BY <2>1, SendCallReads
  <2>2. ASSUME NEW o \in {"connected", "inProgress", "fails", "unresolved", "noSocket"}, NEW t \in Timeouts,
               ConnectTo(o, t)
        PROVE  InputInv'
    BY <2>2, ConnectToReads
  <2>3. ASSUME Attach \/ UserClose \/ Destroy PROVE InputInv'
    BY <2>3, UserReads
  <2> QED
    BY <1>6, <2>1, <2>2, <2>3 DEF User
<1>7. CASE UNCHANGED vars
  <2>1. UNCHANGED <<socketVars, connVars>>
    BY <1>7 DEF vars
  <2>2. UNCHANGED <<linkVars, kernelVars, mReadBuffer, attached, stack, connVars>>
    BY <2>1 DEF socketVars
  <2>3. /\ Parses(stack) => Parses(stack')
        /\ Reads(stack) => Reads(stack')
        /\ Doomed(stack) => Doomed(stack')
    BY <2>2
  <2> QED
    BY <2>2, <2>3, InputKept
<1> QED
  BY <1>1, <1>2, <1>3, <1>4, <1>5, <1>6, <1>7 DEF Next

LEMMA InitReads == Init => InputInv
<1> SUFFICES ASSUME Init PROVE InputInv
  OBVIOUS
<1>1. /\ incoming = <<>> /\ mReadBuffer = <<>> /\ mBuffers = <<>> /\ mPendingRead = 0 /\ parsed = <<>>
      /\ toCome = Stream(Len(plan))
  BY DEF Init, SocketInit
<1>2. Len(plan) \in Nat
  BY ConnectionAssumption DEF Init
<1>3. Stream(Len(plan)) \in Seq(Octets) /\ Suffix(0) = Stream(Len(plan))
  BY <1>2, StreamType, SuffixOfNothing
<1>4. Have = <<>> /\ ToRead = toCome
  BY <1>1, <1>3, ConcatEmptySeq, EmptySeq DEF Have, ToRead
<1>5. Have \o ToRead = Suffix(0)
  BY <1>1, <1>3, <1>4, ConcatEmptySeq
<1>6. Len(parsed) = 0 /\ parsed = [i \in 1 .. 0 |-> i]
  BY <1>1
<1>7. Cut
  BY <1>1, <1>2, <1>5, <1>6 DEF Cut
<1>8. HeaderSize \in Nat \ {0} /\ Len(mBuffers) = 0
  BY <1>1, ConnectionAssumption
<1>9. Emptied
  BY <1>1, <1>8 DEF Emptied
<1> QED
  BY <1>7, <1>9 DEF InputInv

(* What is cut off the input is the messages of the peer, in their order,  *)
(* wherever the reads ended (onDataAvailable).                             *)
THEOREM MessagesAlwaysIntact ==
    ASSUME SlotSends = FALSE
    PROVE  Spec => []MessagesIntact
<1>1. InputInv => MessagesIntact
  BY DEF InputInv, Cut, MessagesIntact
<1>2. Init => InputInv
  BY InitReads
<1>3. Inv /\ InputInv /\ [Next]_vars => InputInv'
  BY NextReads
<1> QED
  BY <1>1, <1>2, <1>3, ConnectionInvariant, PTL DEF Spec

(* A stream is as long as its messages. *)
LEMMA StreamGrows ==
    ASSUME NEW n \in Nat
    PROVE  /\ Len(Stream(0)) = 0 /\ Len(Stream(n)) \in Nat
           /\ Len(Stream(n + 1)) = Len(Stream(n)) + HeaderSize + BodySize(plan[n + 1])
<1> DEFINE s == [i \in 1 .. n |-> MessageBytes(i)]
           t == [i \in 1 .. n + 1 |-> MessageBytes(i)]
           m == MessageBytes(n + 1)
<1>1. \A i \in 1 .. n + 1 : MessageBytes(i) \in Seq(Octets)
  <2> TAKE i \in 1 .. n + 1
  <2>1. i \in Nat
    OBVIOUS
  <2> QED
    BY <2>1, MessageIs
<1>2. n + 1 \in Nat /\ \A i \in 1 .. n : i \in 1 .. n + 1
  OBVIOUS
<1>3. s \in Seq(Seq(Octets)) /\ Len(s) = n /\ \A i \in 1 .. n : s[i] = MessageBytes(i)
  BY <1>1, <1>2
<1>4. t \in Seq(Seq(Octets)) /\ Len(t) = n + 1 /\ \A i \in 1 .. n + 1 : t[i] = MessageBytes(i)
  BY <1>1, <1>2
<1>5. m \in Seq(Octets) /\ Len(m) = HeaderSize + BodySize(plan[n + 1])
      /\ HeaderSize \in Nat /\ BodySize(plan[n + 1]) \in Nat
  BY <1>2, MessageIs
<1>6. Stream(n) = FlattenSeq(s) /\ Stream(n + 1) = FlattenSeq(t)
  BY DEF Stream
<1>7. t[n + 1] = m
  BY <1>2, <1>4
<1> HIDE DEF s, t, m
<1> DEFINE u == Append(s, m)
<1>8. u \in Seq(Seq(Octets)) /\ Len(u) = n + 1 /\ (\A i \in 1 .. n : u[i] = s[i]) /\ u[n + 1] = m
  BY <1>3, <1>5, AppendProperties
<1> HIDE DEF u
<1>9. \A i \in 1 .. n + 1 : u[i] = t[i]
  <2> TAKE i \in 1 .. n + 1
  <2>1. i \in 1 .. n \/ i = n + 1
    OBVIOUS
  <2> QED
    BY <1>3, <1>4, <1>7, <1>8, <2>1
<1>10. u = t
  BY <1>2, <1>4, <1>8, <1>9, SeqEqual
<1>11. FlattenSeq(t) = FlattenSeq(s) \o m
  BY <1>3, <1>5, <1>10, FlattenAppend DEF u
<1>12. FlattenSeq(s) \in Seq(Octets)
  BY <1>3, FlattenType
<1>13. Len(FlattenSeq(t)) = Len(FlattenSeq(s)) + Len(m) /\ Len(FlattenSeq(s)) \in Nat
  <2> DEFINE f == FlattenSeq(s)
             g == FlattenSeq(t)
  <2>1. f \in Seq(Octets) /\ m \in Seq(Octets) /\ g = f \o m
    BY <1>5, <1>11, <1>12
  <2> HIDE DEF f, g
  <2>2. Len(g) = Len(f) + Len(m) /\ Len(f) \in Nat
    BY <2>1, ConcatProperties
  <2> QED
    BY <2>2 DEF f, g
<1>14. Len(Stream(0)) = 0
  <2>1. [i \in 1 .. 0 |-> MessageBytes(i)] = <<>>
    OBVIOUS
  <2> QED
    BY <2>1 DEF Stream, FlattenSeq
<1> DEFINE p == Len(FlattenSeq(t))
           q == Len(FlattenSeq(s))
           l == BodySize(plan[n + 1])
<1>15. p = q + (HeaderSize + l) /\ q \in Nat /\ HeaderSize \in Nat /\ l \in Nat
  BY <1>5, <1>13
<1> HIDE DEF p, q, l
<1>16. p = q + HeaderSize + l
  BY <1>15
<1> QED
  BY <1>6, <1>13, <1>14, <1>16 DEF p, q, l

(* All of the stream is the first n messages and what comes behind them. *)
LEMMA StreamInTwo ==
    ASSUME Len(plan) \in Nat, NEW n \in 0 .. Len(plan)
    PROVE  Len(Stream(Len(plan))) = Len(Stream(n)) + Len(Suffix(n))
<1> DEFINE l == Len(plan)
           Holds(k) == Len(Stream(l)) = Len(Stream(k)) + Len(Suffix(k))
           G == {k \in 1 .. l : Holds(k)}
<1>1. Holds(0)
  <2>1. Suffix(0) = Stream(l) /\ Len(Stream(0)) = 0 /\ Len(Stream(l)) \in Nat
    BY SuffixOfNothing, StreamGrows
  <2> QED
    BY <2>1
<1>2. ASSUME NEW k \in 0 .. l - 1, Holds(k) PROVE Holds(k + 1)
  <2>1. k \in Nat /\ k + 1 \in Nat /\ k < l /\ k + 1 <= l
    OBVIOUS
  <2> DEFINE m == MessageBytes(k + 1)
             r == Suffix(k + 1)
             c == HeaderSize
             d == BodySize(plan[k + 1])
             x == Len(Stream(k))
             y == Len(Stream(k + 1))
             z == Len(Stream(l))
             v == Len(Suffix(k))
             w == Len(r)
  <2>2. m \in Seq(Octets) /\ Len(m) = c + d /\ c \in Nat /\ d \in Nat
    BY <2>1, MessageIs
  <2>3. Suffix(k) = m \o r
    BY <2>1, SuffixIs
  <2>4. r \in Seq(Octets)
    BY <2>1, SuffixIs
  <2>5. v = Len(m) + w /\ w \in Nat
    <3> HIDE DEF m, r
    <3> QED
      BY <2>2, <2>3, <2>4, ConcatProperties
  <2>6. y = x + c + d /\ x \in Nat
    BY <2>1, StreamGrows
  <2>7. z = x + v
    BY <1>2
  <2> HIDE DEF c, d, x, y, z, v, w
  <2>8. z = y + w
    BY <2>2, <2>5, <2>6, <2>7
  <2> QED
    BY <2>8 DEF y, z, w
<1>3. l \in Nat
  OBVIOUS
<1>4. l > 0 => 1 \in G
  <2>1. l > 0 => 0 \in 0 .. l - 1 /\ 0 + 1 = 1 /\ 1 \in 1 .. l
    BY <1>3
  <2> HIDE DEF l, Holds
  <2>2. l > 0 => Holds(0 + 1)
    BY <1>1, <1>2, <2>1
  <2> QED
    BY <2>1, <2>2
<1>5. ASSUME NEW k \in 1 .. l - 1, k \in G PROVE k + 1 \in G
  <2>1. k \in 0 .. l - 1 /\ k + 1 \in 1 .. l
    BY <1>3
  <2> HIDE DEF l, Holds
  <2> QED
    BY <1>2, <1>5, <2>1
<1> HIDE DEF G
<1>6. \A k \in 1 .. l : k \in G
  BY <1>3, <1>4, <1>5, InductionUpto
<1>7. n = 0 \/ n \in 1 .. l
  OBVIOUS
<1> HIDE DEF l
<1>8. Holds(n)
  BY <1>1, <1>6, <1>7 DEF G
<1> QED
  BY <1>8 DEF l

(* More messages are more bytes. *)
LEMMA StreamRises ==
    ASSUME NEW k \in Nat \ {0}, NEW m \in Nat, k <= m
    PROVE  Len(Stream(k)) <= Len(Stream(m))
<1> DEFINE G == {i \in 1 .. m : k <= i => Len(Stream(k)) <= Len(Stream(i))}
<1>1. m > 0 => 1 \in G
  <2>1. k <= 1 => k = 1
    OBVIOUS
  <2>2. Len(Stream(k)) \in Nat
    BY StreamGrows
  <2>3. k <= 1 => Len(Stream(k)) <= Len(Stream(1))
    BY <2>1, <2>2
  <2>4. m > 0 => 1 \in 1 .. m
    OBVIOUS
  <2> QED
    BY <2>3, <2>4
<1>2. ASSUME NEW i \in 1 .. m - 1, i \in G PROVE i + 1 \in G
  <2>1. i + 1 \in 1 .. m /\ i \in Nat /\ i + 1 \in Nat
    OBVIOUS
  <2> DEFINE x == Len(Stream(k))
             y == Len(Stream(i))
             z == Len(Stream(i + 1))
             c == HeaderSize
             d == BodySize(plan[i + 1])
  <2>2. z = y + c + d /\ y \in Nat /\ x \in Nat
    BY <2>1, StreamGrows
  <2>3. c \in Nat /\ d \in Nat
    BY <2>1, MessageIs
  <2>4. k <= i => x <= y
    BY <1>2
  <2>5. k <= i + 1 => k <= i \/ k = i + 1
    BY <2>1
  <2>6. k = i + 1 => x = z
    OBVIOUS
  <2> HIDE DEF x, y, z, c, d
  <2>7. k <= i + 1 => x <= z
    BY <2>2, <2>3, <2>4, <2>5, <2>6
  <2> QED
    BY <2>1, <2>7 DEF x, z
<1> HIDE DEF G
<1>3. \A i \in 1 .. m : i \in G
  BY <1>1, <1>2, InductionUpto
<1>4. m \in 1 .. m
  OBVIOUS
<1> QED
  BY <1>3, <1>4 DEF G

(* A message that has been read is handed out: nothing complete is left in *)
(* mReadBuffer or mBuffers when the callback returns (onDataAvailable).    *)
THEOREM NothingEverHeld ==
    ASSUME SlotSends = FALSE
    PROVE  Spec => []NoHeldMessage
<1>1. ASSUME Inv, InputInv, AtRest, attached, ~mCheckTimer, mSocketClient, Open \/ peer # "reset",
             NEW m \in Complete(ReadBytes)
      PROVE  m \in 1 .. Len(parsed)
  <2> DEFINE n == Len(parsed)
             a == Len(Have)
             b == Len(ToRead)
             c == HeaderSize
             d == BodySize(plan[n + 1])
             v == Len(Suffix(n))
             w == Len(Suffix(n + 1))
             x == Len(Stream(n))
             y == Len(Stream(n + 1))
             z == Len(Stream(m))
  <2>1. n \in Nat /\ Len(plan) \in Nat /\ n <= Len(plan) /\ a \in Nat /\ b \in Nat
        /\ Len(Have \o ToRead) = a + b
    BY <1>1, ReadTypes DEF InputInv, Cut
  <2>2. m \in 1 .. Len(plan) /\ z <= ReadBytes
    BY <1>1 DEF Complete, Inv, InTypes
  <2> SUFFICES ASSUME n < m PROVE FALSE
    BY <2>1, <2>2
  <2>3. n \in 0 .. Len(plan) /\ n < Len(plan) /\ n + 1 \in Nat \ {0} /\ n + 1 <= Len(plan)
        /\ n + 1 <= m /\ m \in Nat
    BY <2>1, <2>2
  <2>4. ReadBytes = x + v - b /\ x \in Nat
    <3> DEFINE i == Len(incoming)
               t == Len(toCome)
               s == Len(Stream(Len(plan)))
    <3>1. b = i + t /\ i \in Nat /\ t \in Nat
      BY <1>1, ConcatProperties DEF ToRead, Inv, InTypes
    <3>2. s = x + v /\ s \in Nat /\ x \in Nat
      BY <2>1, <2>3, StreamInTwo, StreamGrows
    <3>3. ReadBytes = s - t - i
      BY DEF ReadBytes
    <3>4. v \in Nat
      BY <2>1, SuffixIs
    <3> HIDE DEF b, i, t, s, x, v
    <3> QED
      BY <3>1, <3>2, <3>3, <3>4
  <2>5. y = x + c + d /\ y <= z /\ z \in Nat
    <3>1. y = x + c + d
      BY <2>1, StreamGrows
    <3>2. y <= z
      BY <2>3, StreamRises
    <3>3. z \in Nat
      BY <2>3, StreamGrows
    <3> QED
      BY <3>1, <3>2, <3>3
  <2>6. v = c + d + w /\ w \in Nat /\ c \in Nat \ {0} /\ d \in Nat \ {0}
    <3>1. MessageBytes(n + 1) \in Seq(Octets) /\ Len(MessageBytes(n + 1)) = c + d
          /\ c \in Nat \ {0} /\ d \in Nat \ {0}
      BY <2>3, MessageIs
    <3>2. Suffix(n) = MessageBytes(n + 1) \o Suffix(n + 1)
      BY <2>1, <2>3, SuffixIs
    <3>3. Suffix(n + 1) \in Seq(Octets)
      BY <2>1, <2>3, SuffixIs
    <3>4. v = Len(MessageBytes(n + 1)) + w /\ w \in Nat
      BY <3>1, <3>2, <3>3, ConcatProperties
    <3> QED
      BY <3>1, <3>4
  <2>7. ~Parses(stack) /\ ~Reads(stack) /\ ~Doomed(stack)
    BY <1>1, RestHas
  <2>8. mReadBuffer = <<>> /\ Len(mBuffers) < IF mPendingRead = 0 THEN c ELSE mPendingRead
    BY <1>1, <2>7 DEF InputInv, Emptied, Dropped
  <2>9. a = Len(mBuffers)
    <3>1. Len(mReadBuffer) = 0 /\ a = Len(mBuffers) + Len(mReadBuffer) /\ Len(mBuffers) \in Nat
      BY <1>1, <2>8, ReadTypes
    <3> QED
      BY <3>1
  <2>10. CASE mPendingRead = 0
    <3>1. v = a + b /\ a < c
      BY <1>1, <2>1, <2>8, <2>9, <2>10 DEF InputInv, Cut
    <3> HIDE DEF n, a, b, c, d, v, w, x, y, z
    <3> QED
      BY <2>1, <2>2, <2>4, <2>5, <2>6, <3>1
  <2>11. CASE mPendingRead # 0
    <3>1. Have \o ToRead = Body(n + 1) \o Suffix(n + 1) /\ a < d
      BY <1>1, <2>8, <2>9, <2>11 DEF InputInv, Cut
    <3>2. Body(n + 1) \in Seq(Octets) /\ Len(Body(n + 1)) = d
      BY <2>3, PartsOfMessage
    <3>3. Suffix(n + 1) \in Seq(Octets)
      BY <2>1, <2>3, SuffixIs
    <3>4. a + b = d + w
      BY <2>1, <3>1, <3>2, <3>3, ConcatProperties
    <3> HIDE DEF n, a, b, c, d, v, w, x, y, z
    <3> QED
      BY <2>1, <2>2, <2>4, <2>5, <2>6, <3>1, <3>4
  <2> QED
    BY <2>10, <2>11
<1>2. Inv /\ InputInv => NoHeldMessage
  BY <1>1 DEF NoHeldMessage
<1>3. Init => InputInv
  BY InitReads
<1>4. Inv /\ InputInv /\ [Next]_vars => InputInv'
  BY NextReads
<1> QED
  BY <1>2, <1>3, <1>4, ConnectionInvariant, PTL DEF Spec
=============================================================================
