------------------------- MODULE SocketClientProofs -------------------------
(***************************************************************************)
(* Proofs about SocketClient, for any proxies, calls and bounds.           *)
(*                                                                         *)
(* Why it implements SpdzConnection: the connection's part of a queue is   *)
(* what Within takes out of it, and Within commutes with adding and taking *)
(* a message (first part).  An action of SocketClient is then an action of *)
(* SpdzConnection on those parts or leaves them alone, and what is proved  *)
(* of SpdzConnection holds here (Own).                                     *)
(*                                                                         *)
(* Why masks are fresh: an engine's rounds ascend along its events and the *)
(* share zip (Sorted), so each joined share list is later than all before  *)
(* it.                                                                     *)
(*                                                                         *)
(* Why engines take in the same: all engines are on one history of         *)
(* requests, and each is where its own queue begins (History).             *)
(*                                                                         *)
(* Why masks fit: when every session began with nothing left over and no   *)
(* input has been dropped, what waits in the client and on the wire are    *)
(* the next rounds of the engines' session, in order and none missing      *)
(* (InSession).                                                            *)
(***************************************************************************)
EXTENDS SocketClient, FiniteSetTheorems, SequenceTheorems,
        WellFoundedInduction, TLAPS

-----------------------------------------------------------------------------
(* The elements of a sequence in a set.                                    *)

\* Induction over the naturals, as a fact about sets of them
LEMMA Induction ==
  ASSUME NEW S \in SUBSET Nat, 0 \in S, \A n \in Nat : n \in S => n + 1 \in S
  PROVE  S = Nat
<1> SUFFICES ASSUME Nat \ S # {} PROVE FALSE
  OBVIOUS
<1>1. IsWellFoundedOn(OpToRel(<, Nat), Nat)
  BY NatLessThanWellFounded
<1>2. \A x, y \in Nat : <<y, x>> \in OpToRel(<, Nat) <=> y < x
  BY DEF OpToRel
<1>3. \E x \in Nat \ S : \A y \in Nat \ S : ~(<<y, x>> \in OpToRel(<, Nat))
  BY <1>1, WFMin
<1>4. \E x \in Nat \ S : \A y \in Nat \ S : ~(y < x)
  BY <1>2, <1>3, Zenon
<1>5. PICK x \in Nat \ S : \A y \in Nat \ S : ~(y < x)
  BY <1>4
<1>6. x # 0 /\ x - 1 \in Nat
  BY <1>5
<1>7. x - 1 \in S
  BY <1>5, <1>6
<1>8. (x - 1) + 1 \in S
  BY <1>6, <1>7
<1> QED
  BY <1>5, <1>6, <1>8

\* What kept of Within is, for the first m elements of q
Keeps(f, q, S, m) ==
  f = [n \in 0..m |->
         IF n = 0 THEN <<>>
         ELSE IF q[n] \in S THEN Append(f[n - 1], q[n])
         ELSE f[n - 1]]

LEMMA KeptExists ==
  ASSUME NEW q, NEW S, NEW m \in Nat
  PROVE  \E f : Keeps(f, q, S, m)
<1> DEFINE G == {n \in Nat : \E f : Keeps(f, q, S, n)}
<1>1. 0 \in G
  <2>1. Keeps([n \in 0..0 |-> <<>>], q, S, 0)
    BY DEF Keeps
  <2> QED
    BY <2>1
<1>2. ASSUME NEW n \in Nat, n \in G PROVE n + 1 \in G
  <2>1. PICK f : Keeps(f, q, S, n)
    BY <1>2
  <2> DEFINE last == IF q[n + 1] \in S THEN Append(f[n], q[n + 1]) ELSE f[n]
             g == [i \in 0..(n + 1) |-> IF i = n + 1 THEN last ELSE f[i]]
             h == [i \in 0..(n + 1) |->
                     IF i = 0 THEN <<>>
                     ELSE IF q[i] \in S THEN Append(g[i - 1], q[i])
                     ELSE g[i - 1]]
  <2>2. ASSUME NEW i \in 0..(n + 1) PROVE g[i] = h[i]
    <3>1. CASE i = 0
      BY <2>1, <3>1 DEF Keeps
    <3>2. CASE i = n + 1
      BY <3>2
    <3>3. CASE i \in 1..n
      <4>1. i \in 0..n /\ i - 1 \in 0..n /\ i # 0 /\ i # n + 1 /\ i - 1 # n + 1
        BY <3>3
      <4>2. f[i] = IF q[i] \in S THEN Append(f[i - 1], q[i]) ELSE f[i - 1]
        BY <2>1, <4>1 DEF Keeps
      <4>3. g[i - 1] = f[i - 1] /\ g[i] = f[i]
        BY <4>1
      <4>4. h[i] = IF q[i] \in S THEN Append(g[i - 1], q[i]) ELSE g[i - 1]
        BY <4>1
      <4> QED
        BY <4>2, <4>3, <4>4
    <3> QED
      BY <3>1, <3>2, <3>3
  <2>3. g = h
    BY <2>2
  <2>4. Keeps(g, q, S, n + 1)
    BY <2>3 DEF Keeps
  <2> QED
    BY <2>4
<1>3. G = Nat
  <2> HIDE DEF G
  <2>1. G \in SUBSET Nat
    BY DEF G
  <2> QED
    BY <1>1, <1>2, <2>1, Induction
<1> QED
  BY <1>3

\* Any function that keeps S agrees with Within
LEMMA KeptUnique ==
  ASSUME NEW q, NEW S, NEW m \in Nat, NEW f, NEW g,
         Keeps(f, q, S, m), Keeps(g, q, S, m)
  PROVE  f[m] = g[m]
<1> DEFINE G == {n \in Nat : n <= m => f[n] = g[n]}
<1>1. 0 \in G
  BY DEF Keeps
<1>2. ASSUME NEW n \in Nat, n \in G PROVE n + 1 \in G
  <2> SUFFICES ASSUME n + 1 <= m PROVE f[n + 1] = g[n + 1]
    OBVIOUS
  <2>1. n + 1 \in 0..m /\ n + 1 # 0 /\ (n + 1) - 1 = n /\ f[n] = g[n]
    BY <1>2
  <2>2. f[n + 1] = IF q[n + 1] \in S THEN Append(f[n], q[n + 1]) ELSE f[n]
    BY <2>1 DEF Keeps
  <2>3. g[n + 1] = IF q[n + 1] \in S THEN Append(g[n], q[n + 1]) ELSE g[n]
    BY <2>1 DEF Keeps
  <2> QED
    BY <2>1, <2>2, <2>3
<1>3. G = Nat
  <2> HIDE DEF G
  <2>1. G \in SUBSET Nat
    BY DEF G
  <2> QED
    BY <1>1, <1>2, <2>1, Induction
<1> QED
  BY <1>3

LEMMA WithinIs ==
  ASSUME NEW q, NEW S, Len(q) \in Nat, NEW f, Keeps(f, q, S, Len(q))
  PROVE  Within(q, S) = f[Len(q)]
<1> DEFINE kept == CHOOSE g : Keeps(g, q, S, Len(q))
<1>1. Within(q, S) = kept[Len(q)]
  BY DEF Within, Keeps
<1>2. Keeps(kept, q, S, Len(q))
  BY KeptExists
<1> HIDE DEF kept
<1> QED
  BY <1>1, <1>2, KeptUnique

LEMMA WithinType ==
  ASSUME NEW T, NEW q \in Seq(T), NEW S
  PROVE  Within(q, S) \in Seq(S \cap T)
<1>0. Len(q) \in Nat
  OBVIOUS
<1>1. PICK f : Keeps(f, q, S, Len(q))
  BY <1>0, KeptExists
<1> DEFINE G == {n \in Nat : n <= Len(q) => f[n] \in Seq(S \cap T)}
<1>2. 0 \in G
  BY <1>1 DEF Keeps
<1>3. ASSUME NEW n \in Nat, n \in G PROVE n + 1 \in G
  <2> SUFFICES ASSUME n + 1 <= Len(q) PROVE f[n + 1] \in Seq(S \cap T)
    OBVIOUS
  <2>1. /\ n + 1 \in 0..Len(q) /\ n + 1 # 0 /\ (n + 1) - 1 = n
        /\ f[n] \in Seq(S \cap T) /\ q[n + 1] \in T
    BY <1>3
  <2>2. f[n + 1] = IF q[n + 1] \in S THEN Append(f[n], q[n + 1]) ELSE f[n]
    BY <1>1, <2>1 DEF Keeps
  <2>3. q[n + 1] \in S => Append(f[n], q[n + 1]) \in Seq(S \cap T)
    BY <2>1, AppendProperties
  <2> QED
    BY <2>1, <2>2, <2>3
<1>4. G = Nat
  <2> HIDE DEF G
  <2>1. G \in SUBSET Nat
    BY DEF G
  <2> QED
    BY <1>2, <1>3, <2>1, Induction
<1>5. f[Len(q)] \in Seq(S \cap T)
  BY <1>4
<1> QED
  BY <1>1, <1>5, WithinIs

LEMMA ConcatAppend ==
  ASSUME NEW T, NEW a \in Seq(T), NEW b \in Seq(T), NEW x \in T
  PROVE  a \o Append(b, x) = Append(a \o b, x)
<1>1. /\ Append(b, x) \in Seq(T) /\ Len(Append(b, x)) = Len(b) + 1
      /\ \A i \in 1..Len(b) : Append(b, x)[i] = b[i]
      /\ Append(b, x)[Len(b) + 1] = x
  BY AppendProperties
<1>2. /\ a \o b \in Seq(T) /\ Len(a \o b) = Len(a) + Len(b)
      /\ \A i \in 1..Len(a) : (a \o b)[i] = a[i]
      /\ \A i \in (Len(a) + 1)..(Len(a) + Len(b)) : (a \o b)[i] = b[i - Len(a)]
  BY ConcatProperties
<1>3. /\ Append(a \o b, x) \in Seq(T)
      /\ Len(Append(a \o b, x)) = Len(a) + Len(b) + 1
      /\ \A i \in 1..(Len(a) + Len(b)) : Append(a \o b, x)[i] = (a \o b)[i]
      /\ Append(a \o b, x)[Len(a) + Len(b) + 1] = x
  BY <1>2, AppendProperties
<1>4. /\ a \o Append(b, x) \in Seq(T)
      /\ Len(a \o Append(b, x)) = Len(a) + Len(b) + 1
      /\ \A i \in 1..Len(a) : (a \o Append(b, x))[i] = a[i]
      /\ \A i \in (Len(a) + 1)..(Len(a) + Len(b) + 1) :
           (a \o Append(b, x))[i] = Append(b, x)[i - Len(a)]
  <2>1. PICK c \in Seq(T) : c = Append(b, x) /\ Len(c) = Len(b) + 1
    BY <1>1
  <2>2. /\ a \o c \in Seq(T) /\ Len(a \o c) = Len(a) + Len(c)
        /\ \A i \in 1..Len(a) : (a \o c)[i] = a[i]
        /\ \A i \in (Len(a) + 1)..(Len(a) + Len(c)) :
             (a \o c)[i] = c[i - Len(a)]
    BY ConcatProperties
  <2>3. Len(a) + Len(c) = Len(a) + Len(b) + 1
    BY <2>1
  <2> QED
    BY <2>1, <2>2, <2>3
<1>5. ASSUME NEW i \in 1..(Len(a) + Len(b) + 1)
      PROVE  (a \o Append(b, x))[i] = Append(a \o b, x)[i]
  <2>1. CASE i \in 1..Len(a)
    BY <1>2, <1>3, <1>4, <2>1
  <2>2. CASE i \in (Len(a) + 1)..(Len(a) + Len(b))
    <3>1. i - Len(a) \in 1..Len(b)
      BY <2>2
    <3> QED
      BY <1>1, <1>2, <1>3, <1>4, <2>2, <3>1
  <2>3. CASE i = Len(a) + Len(b) + 1
    <3>1. i - Len(a) = Len(b) + 1
      BY <2>3
    <3> QED
      BY <1>1, <1>3, <1>4, <2>3, <3>1
  <2> QED
    BY <2>1, <2>2, <2>3
<1> QED
  BY <1>3, <1>4, <1>5, SeqEqual

LEMMA WithinConcat ==
  ASSUME NEW T, NEW a \in Seq(T), NEW b \in Seq(T), NEW S
  PROVE  Within(a \o b, S) = Within(a, S) \o Within(b, S)
<1>0. Len(a) \in Nat /\ Len(b) \in Nat
  OBVIOUS
<1>1. PICK f : Keeps(f, a, S, Len(a))
  BY <1>0, KeptExists
<1>2. PICK g : Keeps(g, b, S, Len(b))
  BY <1>0, KeptExists
<1> DEFINE q == a \o b
           W == Within(a, S)
           h == [n \in 0..Len(q) |->
                   IF n <= Len(a) THEN f[n] ELSE W \o g[n - Len(a)]]
           k == [n \in 0..Len(q) |->
                   IF n = 0 THEN <<>>
                   ELSE IF q[n] \in S THEN Append(h[n - 1], q[n])
                   ELSE h[n - 1]]
<1>3. /\ q \in Seq(T) /\ Len(q) = Len(a) + Len(b)
      /\ \A i \in 1..Len(a) : q[i] = a[i]
      /\ \A i \in (Len(a) + 1)..(Len(a) + Len(b)) : q[i] = b[i - Len(a)]
  BY ConcatProperties
<1>4. W = f[Len(a)] /\ W \in Seq(S \cap T) /\ Within(b, S) = g[Len(b)]
  BY <1>1, <1>2, WithinIs, WithinType
<1>5. \A n \in 0..Len(b) : g[n] \in Seq(S \cap T)
  <2> DEFINE G == {n \in Nat : n <= Len(b) => g[n] \in Seq(S \cap T)}
  <2>1. 0 \in G
    BY <1>2 DEF Keeps
  <2>2. ASSUME NEW n \in Nat, n \in G PROVE n + 1 \in G
    <3> SUFFICES ASSUME n + 1 <= Len(b) PROVE g[n + 1] \in Seq(S \cap T)
      OBVIOUS
    <3>1. /\ n + 1 \in 0..Len(b) /\ n + 1 # 0 /\ (n + 1) - 1 = n
          /\ g[n] \in Seq(S \cap T) /\ b[n + 1] \in T
      BY <2>2
    <3>2. g[n + 1] = IF b[n + 1] \in S THEN Append(g[n], b[n + 1]) ELSE g[n]
      BY <1>2, <3>1 DEF Keeps
    <3>3. b[n + 1] \in S => Append(g[n], b[n + 1]) \in Seq(S \cap T)
      BY <3>1, AppendProperties
    <3> QED
      BY <3>1, <3>2, <3>3
  <2>3. G = Nat
    <3> HIDE DEF G
    <3>1. G \in SUBSET Nat
      BY DEF G
    <3> QED
      BY <2>1, <2>2, <3>1, Induction
  <2> QED
    BY <2>3
<1> HIDE DEF W, q
<1>6. ASSUME NEW n \in 0..Len(q) PROVE h[n] = k[n]
  <2>1. CASE n = 0
    BY <1>1, <2>1 DEF Keeps
  <2>2. CASE n \in 1..Len(a)
    <3>1. /\ n \in 0..Len(a) /\ n # 0 /\ n - 1 \in 0..Len(a)
          /\ n - 1 \in 0..Len(q) /\ n - 1 <= Len(a) /\ n <= Len(a)
      BY <1>3, <2>2
    <3>2. f[n] = IF a[n] \in S THEN Append(f[n - 1], a[n]) ELSE f[n - 1]
      BY <1>1, <3>1 DEF Keeps
    <3>3. h[n] = f[n] /\ h[n - 1] = f[n - 1] /\ q[n] = a[n]
      BY <1>3, <2>2, <3>1
    <3> QED
      BY <3>1, <3>2, <3>3
  <2>3. CASE n \in (Len(a) + 1)..(Len(a) + Len(b))
    <3> DEFINE i == n - Len(a)
    <3>1. /\ i \in 1..Len(b) /\ i \in 0..Len(b) /\ i # 0
          /\ i - 1 \in 0..Len(b) /\ n # 0 /\ ~(n <= Len(a))
          /\ n - 1 \in 0..Len(q) /\ (n - 1) - Len(a) = i - 1
      BY <1>3, <2>3
    <3>2. g[i] = IF b[i] \in S THEN Append(g[i - 1], b[i]) ELSE g[i - 1]
      BY <1>2, <3>1 DEF Keeps
    <3>3. h[n - 1] = W \o g[i - 1]
      <4>1. CASE n - 1 <= Len(a)
        <5>1. n - 1 = Len(a) /\ i - 1 = 0
          BY <2>3, <4>1
        <5>2. g[0] = <<>>
          BY <1>2 DEF Keeps
        <5>3. W \o <<>> = W
          BY <1>4, ConcatEmptySeq
        <5> QED
          BY <1>4, <3>1, <4>1, <5>1, <5>2, <5>3
      <4>2. CASE ~(n - 1 <= Len(a))
        BY <3>1, <4>2
      <4> QED
        BY <4>1, <4>2
    <3>4. h[n] = W \o g[i] /\ q[n] = b[i]
      BY <1>3, <2>3, <3>1
    <3>5. b[i] \in T /\ g[i - 1] \in Seq(S \cap T)
      BY SMTT(30), <1>5, <3>1
    <3> HIDE DEF i, h
    <3>6. CASE b[i] \in S
      <4>1. W \o Append(g[i - 1], b[i]) = Append(W \o g[i - 1], b[i])
        <5>1. PICK U : W \in Seq(U) /\ g[i - 1] \in Seq(U) /\ b[i] \in U
          BY <1>4, <3>5, <3>6
        <5> QED
          BY SMTT(30), <5>1, ConcatAppend
      <4> QED
        BY <3>1, <3>2, <3>3, <3>4, <3>6, <4>1
    <3>7. CASE b[i] \notin S
      BY <3>1, <3>2, <3>3, <3>4, <3>7
    <3> QED
      BY <3>6, <3>7
  <2> QED
    BY <1>3, <2>1, <2>2, <2>3
<1>7. h = k
  BY <1>6
<1>8. Keeps(h, q, S, Len(q))
  BY <1>7 DEF Keeps
<1>9. h[Len(q)] = W \o g[Len(b)]
  <2>1. CASE Len(b) = 0
    <3>1. g[0] = <<>> /\ W \o <<>> = W
      BY <1>2, <1>4, ConcatEmptySeq DEF Keeps
    <3> QED
      BY <1>3, <1>4, <2>1, <3>1
  <2>2. CASE Len(b) # 0
    BY <1>3, <2>2
  <2> QED
    BY <2>1, <2>2
<1>10. Within(q, S) = h[Len(q)]
  <2>1. Len(q) \in Nat
    BY <1>3
  <2> HIDE DEF h, k
  <2> QED
    BY <1>8, <2>1, WithinIs
<1> QED
  BY <1>4, <1>9, <1>10 DEF W, q

LEMMA Singleton ==
  ASSUME NEW T, NEW x \in T
  PROVE  <<x>> \in Seq(T) /\ Len(<<x>>) = 1 /\ <<x>>[1] = x
OBVIOUS

LEMMA WithinFew ==
  ASSUME NEW S
  PROVE  /\ Within(<<>>, S) = <<>>
         /\ \A x : Within(<<x>>, S) = IF x \in S THEN <<x>> ELSE <<>>
<1>1. Within(<<>>, S) = <<>>
  <2> DEFINE f == [n \in 0..0 |-> <<>>]
  <2>1. Keeps(f, <<>>, S, 0)
    BY DEF Keeps
  <2> QED
    BY <2>1, WithinIs
<1>2. ASSUME NEW x PROVE Within(<<x>>, S) = IF x \in S THEN <<x>> ELSE <<>>
  <2>0. PICK o : o = <<x>> /\ Len(o) = 1 /\ o[1] = x
    BY Singleton
  <2>1. PICK f : Keeps(f, o, S, Len(o))
    BY <2>0, KeptExists
  <2>2. f[0] = <<>> /\ f[1] = IF x \in S THEN Append(f[0], x) ELSE f[0]
    <3>1. 0 \in 0..Len(o) /\ 1 \in 0..Len(o) /\ 1 # 0 /\ 1 - 1 = 0
      BY <2>0
    <3>2. f[0] = <<>>
      BY <2>1, <3>1 DEF Keeps
    <3>3. f[1] = IF o[1] \in S THEN Append(f[1 - 1], o[1]) ELSE f[1 - 1]
      BY <2>1, <3>1 DEF Keeps
    <3> QED
      BY <2>0, <3>1, <3>2, <3>3
  <2>3. Append(<<>>, x) = <<x>>
    OBVIOUS
  <2>4. Within(o, S) = f[1]
    BY <2>0, <2>1, WithinIs
  <2> QED
    BY <2>0, <2>2, <2>3, <2>4
<1> QED
  BY <1>1, <1>2

LEMMA WithinAppend ==
  ASSUME NEW T, NEW q \in Seq(T), NEW x \in T, NEW S
  PROVE  Within(Append(q, x), S) =
           IF x \in S THEN Append(Within(q, S), x) ELSE Within(q, S)
<1>1. <<x>> \in Seq(T) /\ Append(q, x) = q \o <<x>>
  BY AppendIsConcat
<1>2. Within(Append(q, x), S) = Within(q, S) \o Within(<<x>>, S)
  <2>1. PICK o \in Seq(T) : o = <<x>>
    BY <1>1
  <2>2. Within(q \o o, S) = Within(q, S) \o Within(o, S)
    BY WithinConcat
  <2> QED
    BY <1>1, <2>1, <2>2
<1>3. PICK w \in Seq(S \cap T) : w = Within(q, S)
  BY WithinType
<1>4. CASE x \in S
  <2>1. PICK U : w \in Seq(U) /\ x \in U
    BY <1>3, <1>4
  <2>2. Append(w, x) = w \o <<x>>
    BY <2>1, AppendIsConcat
  <2> QED
    BY <1>2, <1>3, <1>4, <2>2, WithinFew
<1>5. CASE x \notin S
  <2>1. w \o <<>> = w
    BY ConcatEmptySeq
  <2>2. Within(<<x>>, S) = <<>>
    BY <1>5, WithinFew
  <2> QED
    BY <1>2, <1>3, <1>5, <2>1, <2>2
<1> QED
  BY <1>4, <1>5

\* Taking the first element of q takes the first of those in S, or none
LEMMA WithinTail ==
  ASSUME NEW T, NEW q \in Seq(T), q # <<>>, NEW S
  PROVE  /\ Head(q) \in S =>
              /\ Within(q, S) # <<>> /\ Head(Within(q, S)) = Head(q)
              /\ Within(Tail(q), S) = Tail(Within(q, S))
              /\ Len(Within(q, S)) = Len(Within(Tail(q), S)) + 1
         /\ Head(q) \notin S => Within(Tail(q), S) = Within(q, S)
<1>1. PICK h \in T, t \in Seq(T) : h = Head(q) /\ t = Tail(q)
  BY HeadTailProperties
<1>2. q = <<h>> \o t
  <2>1. /\ Len(q) \in Nat \ {0} /\ Len(t) = Len(q) - 1 /\ h = q[1]
        /\ \A i \in 1..Len(t) : t[i] = q[i + 1]
    BY <1>1, HeadTailProperties
  <2>2. <<h>> \in Seq(T) /\ Len(<<h>>) = 1 /\ <<h>>[1] = h
    OBVIOUS
  <2>3. PICK o \in Seq(T) : o = <<h>>
    BY <2>2
  <2>4. /\ o \o t \in Seq(T) /\ Len(o \o t) = Len(o) + Len(t)
        /\ \A i \in 1..(Len(o) + Len(t)) :
             (o \o t)[i] = IF i <= Len(o) THEN o[i] ELSE t[i - Len(o)]
    BY ConcatProperties
  <2>5. Len(o) = 1 /\ o[1] = h
    BY <2>2, <2>3
  <2>6. ASSUME NEW i \in 1..Len(q) PROVE (o \o t)[i] = q[i]
    <3>1. CASE i = 1
      BY <2>1, <2>4, <2>5, <3>1
    <3>2. CASE i # 1
      <4>1. i - 1 \in 1..Len(t) /\ (i - 1) + 1 = i
        BY <2>1, <3>2
      <4> QED
        BY <2>1, <2>4, <2>5, <3>2, <4>1
    <3> QED
      BY <3>1, <3>2
  <2>7. Len(o \o t) = Len(q)
    BY <2>1, <2>4, <2>5
  <2> QED
    BY <2>3, <2>4, <2>6, <2>7, SeqEqual
<1>3. Within(q, S) = Within(<<h>>, S) \o Within(t, S)
  <2>1. PICK o \in Seq(T) : o = <<h>>
    BY Singleton
  <2>2. Within(o \o t, S) = Within(o, S) \o Within(t, S)
    BY WithinConcat
  <2> QED
    BY <1>2, <2>1, <2>2
<1>4. PICK w \in Seq(S \cap T) : w = Within(t, S)
  BY WithinType
<1>5. CASE h \in S
  <2>1. PICK U : w \in Seq(U) /\ h \in U
    BY <1>4, <1>5
  <2>2. PICK o \in Seq(U) : o = <<h>> /\ Len(o) = 1 /\ o[1] = h
    BY <2>1, Singleton
  <2>3. /\ o \o w \in Seq(U) /\ Len(o \o w) = Len(o) + Len(w)
        /\ \A i \in 1..(Len(o) + Len(w)) :
             (o \o w)[i] = IF i <= Len(o) THEN o[i] ELSE w[i - Len(o)]
    BY <2>1, ConcatProperties
  <2>4. PICK c \in Seq(U) : c = o \o w
    BY <2>3
  <2>5. c = Within(q, S)
    BY <1>3, <1>4, <1>5, <2>2, <2>4, WithinFew
  <2>6. Len(c) = 1 + Len(w) /\ c[1] = h /\ c # <<>>
    BY <2>2, <2>3, <2>4, EmptySeq
  <2>7. /\ Head(c) = c[1] /\ Tail(c) \in Seq(U) /\ Len(Tail(c)) = Len(c) - 1
        /\ \A i \in 1..Len(Tail(c)) : Tail(c)[i] = c[i + 1]
    BY <2>6, HeadTailProperties
  <2>8. Tail(c) = w
    <3>1. ASSUME NEW i \in 1..Len(w) PROVE Tail(c)[i] = w[i]
      <4>1. /\ i + 1 \in 1..(Len(o) + Len(w)) /\ ~(i + 1 <= Len(o))
            /\ (i + 1) - Len(o) = i /\ i \in 1..Len(Tail(c))
        BY <2>2, <2>6, <2>7
      <4> QED
        BY <2>3, <2>4, <2>7, <4>1
    <3>2. Len(Tail(c)) = Len(w)
      BY <2>6, <2>7
    <3> QED
      BY <2>1, <2>7, <3>1, <3>2, SeqEqual
  <2> QED
    BY <1>1, <1>4, <1>5, <2>5, <2>6, <2>7, <2>8
<1>6. CASE h \notin S
  <2>1. <<>> \o w = w
    BY ConcatEmptySeq
  <2>2. Within(<<h>>, S) = <<>>
    BY <1>6, WithinFew
  <2> QED
    BY <1>1, <1>3, <1>4, <1>6, <2>1, <2>2
<1> QED
  BY <1>1, <1>5, <1>6

\* What is within is in the set and comes from q
LEMMA WithinElements ==
  ASSUME NEW T, NEW q \in Seq(T), NEW S
  PROVE  \A i \in 1..Len(Within(q, S)) :
           /\ Within(q, S)[i] \in S
           /\ \E j \in 1..Len(q) : q[j] = Within(q, S)[i]
<1> DEFINE U == {q[j] : j \in 1..Len(q)}
<1>1. q \in Seq(U)
  OBVIOUS
<1>2. PICK w \in Seq(S \cap U) : w = Within(q, S)
  <2> HIDE DEF U
  <2> QED
    BY <1>1, WithinType
<1>3. \A i \in 1..Len(w) : w[i] \in S \cap U
  OBVIOUS
<1> QED
  BY <1>2, <1>3

-----------------------------------------------------------------------------
(* The connection is that of SpdzConnection.                               *)

Own == INSTANCE SpdzConnectionProofs WITH
  events <- OwnEvents, requests <- OwnRequests, buffered <- OwnBuffered

\* Messages with shares and requests with inputs are not the connection's
LEMMA OwnQueues ==
  /\ Client!EventType = {Client!PROXY_CONNECT, Client!SPDZ_CONNECT}
  /\ SPDZ_MESSAGE \notin Client!EventType
  /\ \A e \in Event : e \in Client!Event <=> e.eventType \in Client!EventType
  /\ \A e \in Event : e \in Message <=> e.eventType = SPDZ_MESSAGE
  /\ "sendData" \notin Client!Request
BY DEF Client!EventType, Client!PROXY_CONNECT, Client!SPDZ_CONNECT,
       SPDZ_MESSAGE, Event, Message, Client!Event, Client!Request

LEMMA PushOwn ==
  ASSUME TypeOK, NEW r \in Client!Request, Client!Push(r)
  PROVE  Connection!Push(r)
<1>1. ASSUME NEW p \in Proxies
      PROVE  /\ OwnRequests'[p] = Connection!emit(p, r)[1]
             /\ OwnBuffered'[p] = Connection!emit(p, r)[2]
  <2>1. /\ requests[p] \in Seq(Request) /\ buffered[p] \in Seq(Request)
        /\ r \in Request
    BY DEF TypeOK, Request
  <2>2. /\ Within(Append(requests[p], r), Client!Request)
             = Append(OwnRequests[p], r)
        /\ Within(Append(buffered[p], r), Client!Request)
             = Append(OwnBuffered[p], r)
    BY <2>1, WithinAppend DEF OwnRequests, OwnBuffered
  <2>3. /\ OwnRequests'[p] = Within(Client!emit(p, r)[1], Client!Request)
        /\ OwnBuffered'[p] = Within(Client!emit(p, r)[2], Client!Request)
    BY DEF OwnRequests, OwnBuffered, Client!Push
  <2> QED
    BY <2>2, <2>3
    DEF Client!emit, Connection!emit, OwnRequests, OwnBuffered,
        Client!PROXY_CONNECT, Connection!PROXY_CONNECT
<1> QED
  BY <1>1 DEF Connection!Push, OwnRequests, OwnBuffered

LEMMA PushSend ==
  ASSUME TypeOK, Client!Push("sendData")
  PROVE  UNCHANGED <<OwnRequests, OwnBuffered>>
<1>1. ASSUME NEW p \in Proxies
      PROVE  /\ OwnRequests'[p] = OwnRequests[p]
             /\ OwnBuffered'[p] = OwnBuffered[p]
  <2> DEFINE r == "sendData"
  <2>1. /\ requests[p] \in Seq(Request) /\ buffered[p] \in Seq(Request)
        /\ r \in Request
    BY DEF TypeOK, Request
  <2>2. /\ Within(Append(requests[p], r), Client!Request) = OwnRequests[p]
        /\ Within(Append(buffered[p], r), Client!Request) = OwnBuffered[p]
    BY <2>1, WithinAppend, OwnQueues DEF OwnRequests, OwnBuffered
  <2>3. /\ OwnRequests'[p] = Within(Client!emit(p, r)[1], Client!Request)
        /\ OwnBuffered'[p] = Within(Client!emit(p, r)[2], Client!Request)
    BY DEF OwnRequests, OwnBuffered, Client!Push
  <2> QED
    BY <2>2, <2>3 DEF Client!emit, OwnRequests, OwnBuffered
<1> QED
  BY <1>1 DEF OwnRequests, OwnBuffered

LEMMA ReportOwn ==
  ASSUME TypeOK, NEW p \in Proxies, NEW t \in Client!EventType,
         NEW s \in BOOLEAN, Client!Report(p, t, s)
  PROVE  Connection!Report(p, t, s)
<1> DEFINE e == [eventType |-> t, status |-> s]
<1>1. e \in Client!Event /\ e \in Event
  BY DEF Client!Event, Event
<1>2. Within(Append(events[p], e), Client!Event) = Append(OwnEvents[p], e)
  BY <1>1, WithinAppend DEF TypeOK, OwnEvents
<1>3. events' = [events EXCEPT ![p] = Append(events[p], e)]
  BY DEF Client!Report
<1> HIDE DEF e
<1>4. OwnEvents' = [OwnEvents EXCEPT ![p] = Append(OwnEvents[p], e)]
  BY <1>2, <1>3 DEF OwnEvents, TypeOK
<1> QED
  BY <1>4 DEF Connection!Report, e

LEMMA HandleOwn ==
  ASSUME TypeOK, NEW p \in Proxies, NEW r, Client!Handle(p, r)
  PROVE  /\ r \in Client!Request => Connection!Handle(p, r)
         /\ r = "sendData" => UNCHANGED <<OwnRequests, OwnBuffered>>
<1>1. /\ requests[p] \in Seq(Request) /\ requests[p] # <<>>
      /\ Head(requests[p]) = r /\ buffered' = buffered
      /\ requests' = [requests EXCEPT ![p] = Tail(requests[p])]
      /\ requests \in [Proxies -> Seq(Request)]
  BY DEF Client!Handle, TypeOK
<1>2. OwnBuffered' = OwnBuffered
  BY <1>1 DEF OwnBuffered
<1>3. CASE r \in Client!Request
  <2>1. /\ OwnRequests[p] # <<>> /\ Head(OwnRequests[p]) = r
        /\ Within(Tail(requests[p]), Client!Request) = Tail(OwnRequests[p])
    BY <1>1, <1>3, WithinTail DEF OwnRequests
  <2>2. OwnRequests' = [OwnRequests EXCEPT ![p] = Tail(OwnRequests[p])]
    BY <1>1, <2>1 DEF OwnRequests
  <2> QED
    BY <1>2, <1>3, <2>1, <2>2, OwnQueues
    DEF Client!Handle, Connection!Handle, Client!client, Connection!client,
        Client!PROXY_CONNECT, Connection!PROXY_CONNECT
<1>4. CASE r = "sendData"
  <2>1. Within(Tail(requests[p]), Client!Request) = OwnRequests[p]
    BY <1>1, <1>4, WithinTail, OwnQueues DEF OwnRequests
  <2>2. OwnRequests' = OwnRequests
    BY <1>1, <2>1 DEF OwnRequests
  <2> QED
    BY <1>2, <1>4, <2>2, OwnQueues
<1> QED
  BY <1>3, <1>4

LEMMA DeliverOwn ==
  ASSUME TypeOK, NEW p \in Proxies, DeliverConnection(p)
  PROVE  Connection!Deliver(p)
<1> DEFINE e == Head(events[p])
<1>1. /\ events[p] \in Seq(Event) /\ events[p] # <<>>
      /\ events \in [Proxies -> Seq(Event)]
      /\ requests \in [Proxies -> Seq(Request)]
      /\ buffered \in [Proxies -> Seq(Request)]
      /\ e \in Client!Event /\ Client!Deliver(p)
      /\ e.eventType \in Client!EventType
  <2>1. events[p] \in Seq(Event) /\ events[p] # <<>>
    BY DEF TypeOK, DeliverConnection
  <2>2. e \in Event
    BY <2>1, HeadTailProperties
  <2> QED
    BY <2>1, <2>2, OwnQueues DEF TypeOK, DeliverConnection
<1>2. /\ OwnEvents[p] # <<>> /\ Head(OwnEvents[p]) = e
      /\ Within(Tail(events[p]), Client!Event) = Tail(OwnEvents[p])
  BY <1>1, WithinTail DEF OwnEvents
<1>3. OwnEvents' = [OwnEvents EXCEPT ![p] = Tail(OwnEvents[p])]
  BY <1>1, <1>2 DEF Client!Deliver, OwnEvents
<1>4. Within(requests[p] \o buffered[p], Client!Request)
        = OwnRequests[p] \o OwnBuffered[p]
  <2>1. PICK a \in Seq(Request), b \in Seq(Request) :
          a = requests[p] /\ b = buffered[p]
    BY <1>1
  <2>2. Within(a \o b, Client!Request)
          = Within(a, Client!Request) \o Within(b, Client!Request)
    BY WithinConcat
  <2> QED
    BY <2>1, <2>2 DEF OwnRequests, OwnBuffered
<1>5. Within(<<>>, Client!Request) = <<>>
  BY WithinFew
<1>6. /\ requests' = [requests EXCEPT ![p] = requests[p] \o buffered[p]]
           => OwnRequests' =
                [OwnRequests EXCEPT ![p] = OwnRequests[p] \o OwnBuffered[p]]
      /\ buffered' = [buffered EXCEPT ![p] = <<>>]
           => OwnBuffered' = [OwnBuffered EXCEPT ![p] = <<>>]
      /\ requests' = requests => OwnRequests' = OwnRequests
      /\ buffered' = buffered => OwnBuffered' = OwnBuffered
  BY <1>1, <1>4, <1>5 DEF OwnRequests, OwnBuffered
<1> HIDE DEF e
<1>7. LET t == e.eventType
          reconnects == t = Client!PROXY_CONNECT /\ e.status IN
      /\ heard' = [heard EXCEPT ![t] = @ \union {p}]
      /\ up' = [up EXCEPT ![t] = Client!latest(t, p, e.status)]
      /\ Client!Combined(t)
      /\ answered' = [c \in Calls |->
           IF promise[c] = "pending" /\ t = Client!SPDZ_CONNECT /\ e.status
             THEN answered[c] \union {p} ELSE answered[c]]
      /\ IF reconnects /\ p \in link[Client!PROXY_CONNECT]
           THEN /\ requests' = [requests EXCEPT ![p] = @ \o buffered[p]]
                /\ buffered' = [buffered EXCEPT ![p] = <<>>]
         ELSE IF reconnects
           THEN /\ buffered' = [buffered EXCEPT ![p] = <<>>]
                /\ UNCHANGED requests
         ELSE UNCHANGED <<requests, buffered>>
      /\ UNCHANGED <<opened, link, kind, troubles>>
  BY <1>1 DEF Client!Deliver, e
<1>8. Client!Combined(e.eventType) => Connection!Combined(e.eventType)
  BY DEF Client!Combined, Connection!Combined, Client!combinedStatus,
         Connection!combinedStatus, Client!Resolves, Connection!Resolves,
         Client!PROXY_CONNECT, Connection!PROXY_CONNECT,
         Client!SPDZ_CONNECT, Connection!SPDZ_CONNECT
<1> QED
  BY <1>2, <1>3, <1>6, <1>7, <1>8
  DEF Connection!Deliver, Client!latest, Connection!latest,
      Client!PROXY_CONNECT, Connection!PROXY_CONNECT,
      Client!SPDZ_CONNECT, Connection!SPDZ_CONNECT

\* A message with shares is none of the connection's
LEMMA MessageOwn ==
  ASSUME TypeOK, NEW p \in Proxies
  PROVE  /\ events[p] # <<>> /\ Head(events[p]).eventType = SPDZ_MESSAGE
              /\ events' = [events EXCEPT ![p] = Tail(events[p])]
              => OwnEvents' = OwnEvents
         /\ \A m \in Message :
              events' = [events EXCEPT ![p] = Append(events[p], m)]
              => OwnEvents' = OwnEvents
<1>1. events[p] \in Seq(Event) /\ events \in [Proxies -> Seq(Event)]
  BY DEF TypeOK
<1>2. ASSUME events[p] # <<>>, Head(events[p]).eventType = SPDZ_MESSAGE,
             events' = [events EXCEPT ![p] = Tail(events[p])]
      PROVE  OwnEvents' = OwnEvents
  <2>1. Head(events[p]) \in Event
    BY <1>1, <1>2, HeadTailProperties
  <2>2. Head(events[p]) \notin Client!Event
    BY <1>2, <2>1, OwnQueues
  <2>3. Within(Tail(events[p]), Client!Event) = OwnEvents[p]
    BY <1>1, <1>2, <2>2, WithinTail DEF OwnEvents
  <2> QED
    BY <1>1, <1>2, <2>3 DEF OwnEvents
<1>3. ASSUME NEW m \in Message,
             events' = [events EXCEPT ![p] = Append(events[p], m)]
      PROVE  OwnEvents' = OwnEvents
  <2>1. m \in Event /\ m \notin Client!Event
    BY OwnQueues DEF Event
  <2>2. Within(Append(events[p], m), Client!Event) = OwnEvents[p]
    BY <1>1, <2>1, WithinAppend DEF OwnEvents
  <2> QED
    BY <1>1, <1>3, <2>2 DEF OwnEvents
<1> QED
  BY <1>2, <1>3

LEMMA EmitOwn ==
  ASSUME TypeOK, NEW n, NEW m, Emit(n, m)
  PROVE  UNCHANGED <<OwnRequests, OwnBuffered>>
BY PushSend DEF Emit

\* An input that meets a share list goes out or changes no queue of a socket
LEMMA MeetSends ==
  ASSUME NEW n, NEW m, Meet(n, m)
  PROVE  Emit(n, m) \/ UNCHANGED <<wire, requests, buffered>>
BY DEF Meet, Drop

\* The variables of the connection as the client's own messages leave them
Untouched ==
  UNCHANGED <<opened, link, OwnRequests, OwnBuffered, OwnEvents, heard, up,
              connected, kind, promise, answered, troubles>>

LEMMA UntouchedStutters == Untouched => UNCHANGED Connection!vars
BY DEF Untouched, Connection!vars

LEMMA InputsUntouched ==
  ASSUME TypeOK,
         \/ SendSecret
         \/ \E p \in Proxies : \/ DeliverShare(p) \/ EngineShares(p)
  PROVE  Untouched
<1>1. ASSUME requests' = requests, buffered' = buffered
      PROVE  UNCHANGED <<OwnRequests, OwnBuffered>>
  BY <1>1 DEF OwnRequests, OwnBuffered
<1>2. CASE SendSecret
  <2>1. UNCHANGED <<OwnRequests, OwnBuffered>>
    BY <1>1, <1>2, EmitOwn, MeetSends DEF SendSecret
  <2>2. OwnEvents' = OwnEvents
    BY <1>2 DEF SendSecret, OwnEvents
  <2> QED
    BY <1>2, <2>1, <2>2 DEF SendSecret, Untouched
<1>3. ASSUME NEW p \in Proxies, DeliverShare(p) PROVE Untouched
  <2>1. UNCHANGED <<OwnRequests, OwnBuffered>>
    BY <1>1, <1>3, EmitOwn, MeetSends DEF DeliverShare, ShareList
  <2>2. OwnEvents' = OwnEvents
    BY <1>3, MessageOwn DEF DeliverShare, afterMessage
  <2> QED
    BY <1>3, <2>1, <2>2 DEF DeliverShare, Untouched
<1>4. ASSUME NEW p \in Proxies, EngineShares(p) PROVE Untouched
  <2>1. [eventType |-> SPDZ_MESSAGE, round |-> <<session[p], produced[p] + 1>>]
          \in Message
    <3>1. produced[p] + 1 \in 1..MaxRounds /\ session[p] \in Nat
      BY <1>4, SendsAssumption DEF EngineShares, TypeOK
    <3>2. <<session[p], produced[p] + 1>> \in Rounds
      BY <3>1 DEF Rounds
    <3> QED
      BY <3>2 DEF Message
  <2>2. OwnEvents' = OwnEvents
    BY <1>4, <2>1, MessageOwn DEF EngineShares
  <2>3. UNCHANGED <<OwnRequests, OwnBuffered>>
    BY <1>1, <1>4 DEF EngineShares
  <2> QED
    BY <1>4, <2>2, <2>3 DEF EngineShares, Untouched
<1> QED
  BY <1>2, <1>3, <1>4

\* A call asks of the connection what it would ask on its own
LEMMA CallOwn ==
  ASSUME TypeOK, NEW c \in Calls, CallConnect(c) \/ CallOther(c)
  PROVE  Connection!ApplicationStep(c)
<1>1. UNCHANGED events => OwnEvents' = OwnEvents
  BY DEF OwnEvents
<1>2. UNCHANGED <<requests, buffered>>
        => UNCHANGED <<OwnRequests, OwnBuffered>>
  BY DEF OwnRequests, OwnBuffered
<1>3. ASSUME NEW k \in {"connect", "disconnect"}, Client!CallParty(c, k)
      PROVE  Connection!CallParty(c, k)
  <2>1. Client!requestOf(k) = Connection!requestOf(k)
        /\ Client!requestOf(k) \in Client!Request
    BY DEF Client!requestOf, Connection!requestOf, Client!Request
  <2>2. Client!requestGuard(k) <=> Connection!requestGuard(k)
    BY DEF Client!requestGuard, Connection!requestGuard,
           Client!PROXY_CONNECT, Connection!PROXY_CONNECT,
           Client!SPDZ_CONNECT, Connection!SPDZ_CONNECT
  <2>3. CASE Client!requestGuard(k)
    <3>1. Client!Push(Client!requestOf(k))
      BY <1>3, <2>3 DEF Client!CallParty
    <3>2. Connection!Push(Connection!requestOf(k))
      BY <2>1, <3>1, PushOwn
    <3> QED
      BY <1>1, <1>3, <2>2, <2>3, <3>2
      DEF Client!CallParty, Connection!CallParty, Client!Start,
          Connection!Start
  <2>4. CASE ~Client!requestGuard(k)
    BY <1>1, <1>2, <1>3, <2>2, <2>4
    DEF Client!CallParty, Connection!CallParty, Client!Start,
        Connection!Start
  <2> QED
    BY <2>3, <2>4
<1>4. CASE CallConnect(c)
  BY <1>3, <1>4
  DEF CallConnect, Client!CallConnect, Connection!ApplicationStep,
      Connection!CallConnect
<1>5. CASE CallOther(c)
  <2>1. CASE Client!CallDisconnect(c)
    BY <1>3, <2>1
    DEF Client!CallDisconnect, Connection!ApplicationStep,
        Connection!CallDisconnect
  <2>2. CASE Client!CallProxies(c)
    BY <1>1, <1>2, <2>2
    DEF Client!CallProxies, Client!Start, Connection!ApplicationStep,
        Connection!CallProxies, Connection!Start
  <2>3. CASE Client!Timeout(c)
    BY <1>1, <1>2, <2>3
    DEF Client!Timeout, Connection!ApplicationStep, Connection!Timeout
  <2> QED
    BY <1>5, <2>1, <2>2, <2>3 DEF CallOther
<1> QED
  BY <1>4, <1>5

\* So does the environment, and it is answered alike
LEMMA LinksOwn ==
  ASSUME TypeOK, NEW p \in Proxies, HandleConnect(p) \/ LinkChanges(p)
  PROVE  Connection!EnvironmentStep(p)
<1> DEFINE pc == Client!PROXY_CONNECT
           sc == Client!SPDZ_CONNECT
<1>1. /\ pc = Connection!PROXY_CONNECT /\ sc = Connection!SPDZ_CONNECT
      /\ pc \in Client!EventType /\ sc \in Client!EventType
      /\ Client!Trouble <=> Connection!Trouble
      /\ "connectToSpdz" \in Client!Request
      /\ "disconnectFromSpdz" \in Client!Request
  BY DEF Client!EventType, Client!Request, Client!Trouble,
         Connection!Trouble, Client!PROXY_CONNECT, Client!SPDZ_CONNECT,
         Connection!PROXY_CONNECT, Connection!SPDZ_CONNECT
<1>2. \A t \in Client!EventType, s \in BOOLEAN :
        Client!Report(p, t, s) => Connection!Report(p, t, s)
  BY ReportOwn
<1>3. \A r \in Client!Request : Client!Handle(p, r) => Connection!Handle(p, r)
  BY HandleOwn
<1>4. UNCHANGED Client!client <=> UNCHANGED Connection!client
  BY DEF Client!client, Connection!client
<1>5. UNCHANGED events => OwnEvents' = OwnEvents
  BY DEF OwnEvents
<1>6. UNCHANGED <<requests, buffered>>
        => UNCHANGED <<OwnRequests, OwnBuffered>>
  BY DEF OwnRequests, OwnBuffered
<1>7. Client!Attempting(p) => Connection!Attempting(p)
  <2> SUFFICES ASSUME Client!Attempting(p), NEW i \in 1..Len(OwnEvents[p])
               PROVE  OwnEvents[p][i].eventType # pc
    BY <1>1 DEF Client!Attempting, Connection!Attempting
  <2>1. events[p] \in Seq(Event)
    BY DEF TypeOK
  <2>2. PICK j \in 1..Len(events[p]) : events[p][j] = OwnEvents[p][i]
    BY <2>1, WithinElements DEF OwnEvents
  <2> QED
    BY <2>2 DEF Client!Attempting
<1>8. CASE Client!EngineAccepts(p)
  BY <1>1, <1>2, <1>3, <1>8
  DEF Client!EngineAccepts, Connection!EngineAccepts,
      Connection!EnvironmentStep
<1>9. CASE Client!EngineRefuses(p)
  BY <1>1, <1>2, <1>3, <1>9
  DEF Client!EngineRefuses, Connection!EngineRefuses,
      Connection!EnvironmentStep
<1>10. CASE Client!EngineLeaves(p)
  BY <1>1, <1>2, <1>3, <1>10
  DEF Client!EngineLeaves, Connection!EngineLeaves,
      Connection!EnvironmentStep
<1>11. CASE Client!WebConnect(p)
  BY <1>1, <1>2, <1>4, <1>6, <1>7, <1>11
  DEF Client!WebConnect, Connection!WebConnect, Connection!EnvironmentStep
<1>12. CASE Client!WebConnectFails(p)
  BY <1>1, <1>2, <1>4, <1>6, <1>7, <1>12
  DEF Client!WebConnectFails, Connection!WebConnectFails,
      Connection!EnvironmentStep
<1>13. CASE Client!EngineCloses(p)
  BY <1>1, <1>2, <1>4, <1>5, <1>6, <1>13
  DEF Client!EngineCloses, Connection!EngineCloses,
      Connection!EnvironmentStep
<1> QED
  BY <1>8, <1>9, <1>10, <1>11, <1>12, <1>13 DEF HandleConnect, LinkChanges

\* An input handled by its engine leaves the connection alone
LEMMA SendUntouched ==
  ASSUME TypeOK, NEW p \in Proxies, HandleSend(p)
  PROVE  Untouched
<1>1. UNCHANGED <<OwnRequests, OwnBuffered>>
  BY HandleOwn DEF HandleSend
<1>2. OwnEvents' = OwnEvents
  BY DEF HandleSend, OwnEvents
<1> QED
  BY <1>1, <1>2 DEF HandleSend, Untouched, Client!Handle, Client!client

LEMMA NextOwn ==
  TypeOK /\ [Next]_vars => [Connection!Next]_(Connection!vars)
<1> SUFFICES ASSUME TypeOK, [Next]_vars
             PROVE  Connection!Next \/ UNCHANGED Connection!vars
  OBVIOUS
<1>1. ASSUME NEW c \in Calls, CallConnect(c) \/ CallOther(c)
      PROVE  Connection!Next
  BY <1>1, CallOwn DEF Connection!Next
<1>2. ASSUME NEW p \in Proxies,
             \/ DeliverConnection(p) \/ HandleConnect(p) \/ LinkChanges(p)
      PROVE  Connection!Next
  BY <1>2, DeliverOwn, LinksOwn DEF Connection!Next
<1>3. ASSUME \/ SendSecret
             \/ \E p \in Proxies : \/ DeliverShare(p) \/ EngineShares(p)
                                  \/ HandleSend(p)
      PROVE  UNCHANGED Connection!vars
  BY <1>3, InputsUntouched, SendUntouched, UntouchedStutters
<1>4. CASE UNCHANGED vars
  <2>1. Untouched
    BY <1>4 DEF vars, connection, Untouched, OwnRequests, OwnBuffered,
                OwnEvents
  <2> QED
    BY <2>1, UntouchedStutters
<1> QED
  BY <1>1, <1>2, <1>3, <1>4 DEF Next

LEMMA InitOwn == Init => Connection!Init
<1> SUFFICES ASSUME Init PROVE Connection!Init
  OBVIOUS
<1>1. /\ OwnEvents = [p \in Proxies |-> <<>>]
      /\ OwnRequests = [p \in Proxies |-> <<>>]
      /\ OwnBuffered = [p \in Proxies |-> <<>>]
  BY WithinFew DEF Init, Client!Init, OwnEvents, OwnRequests, OwnBuffered
<1> QED
  BY <1>1
  DEF Init, Client!Init, Connection!Init, Client!EventType,
      Connection!EventType, Client!PROXY_CONNECT, Connection!PROXY_CONNECT,
      Client!SPDZ_CONNECT, Connection!SPDZ_CONNECT

\* Own and Connection say the same, so that what SpdzConnectionProofs shows of
\* SpdzConnection holds of the connection here
LEMMA SameNext ==
  [Connection!Next]_(Connection!vars) <=> [Own!Next]_(Own!vars)
BY
DEF Own!vars, Connection!vars, Own!client, Connection!client, Own!Next,
    Connection!Next, Own!ApplicationStep, Connection!ApplicationStep,
    Own!CallProxies, Connection!CallProxies, Own!CallConnect,
    Connection!CallConnect, Own!CallDisconnect, Connection!CallDisconnect,
    Own!CallParty, Connection!CallParty, Own!Timeout, Connection!Timeout,
    Own!Start, Connection!Start, Own!Push, Connection!Push, Own!emit,
    Connection!emit, Own!requestGuard, Connection!requestGuard, Own!requestOf,
    Connection!requestOf, Own!Deliver, Connection!Deliver, Own!Combined,
    Connection!Combined, Own!combinedStatus, Connection!combinedStatus,
    Own!Resolves, Connection!Resolves, Own!latest, Connection!latest,
    Own!EnvironmentStep, Connection!EnvironmentStep, Own!WebConnect,
    Connection!WebConnect, Own!WebConnectFails, Connection!WebConnectFails,
    Own!WebDrop, Connection!WebDrop, Own!EngineAccepts,
    Connection!EngineAccepts, Own!EngineRefuses, Connection!EngineRefuses,
    Own!EngineLeaves, Connection!EngineLeaves, Own!EngineCloses,
    Connection!EngineCloses, Own!Handle, Connection!Handle, Own!Attempting,
    Connection!Attempting, Own!Report, Connection!Report, Own!Trouble,
    Connection!Trouble, Own!PROXY_CONNECT, Connection!PROXY_CONNECT,
    Own!SPDZ_CONNECT, Connection!SPDZ_CONNECT, Own!EventType,
    Connection!EventType

LEMMA InitInherits == Init => Own!IInv
<1>1. Connection!Init => Own!Init
  BY DEF Own!Init, Connection!Init, Own!EventType, Connection!EventType,
         Own!PROXY_CONNECT, Own!SPDZ_CONNECT, Connection!PROXY_CONNECT,
         Connection!SPDZ_CONNECT
<1> QED
  BY <1>1, InitOwn, Own!InitInv, ProxiesAssumption, TroublesAssumption,
     NoDropsAssumption

LEMMA NextInherits == TypeOK /\ Own!IInv /\ [Next]_vars => Own!IInv'
BY NextOwn, SameNext, Own!NextInv, ProxiesAssumption, TroublesAssumption,
   NoDropsAssumption

-----------------------------------------------------------------------------
(* Types, and requests that reach every proxy.                             *)

\* Nothing waits for a reconnection; each sendData on its way has its input;
\* inputs have been sent, which takes all web sockets
Ready ==
  /\ \A p \in Proxies : buffered[p] = <<>>
  /\ \A p \in Proxies :
       Len(wire[p]) = Len(Within(requests[p], {"sendData"}))
  /\ \A i \in 1..Len(inputs) : inputs[i] <= sends
  /\ sends # 0 => up[Client!PROXY_CONNECT] = Proxies

Base == TypeOK /\ Own!IInv /\ Ready

\* What the connection's invariant says in the names of this module
LEMMA Inherited ==
  ASSUME Own!IInv
  PROVE  /\ link \in [Client!EventType -> SUBSET Proxies]
         /\ up \in [Client!EventType -> SUBSET Proxies]
         /\ connected \in [Client!EventType -> BOOLEAN]
         /\ troubles \in Nat
         /\ \A t \in Client!EventType : connected[t] <=> up[t] = Proxies
         /\ Client!PROXY_CONNECT \in Client!EventType
         /\ Client!SPDZ_CONNECT \in Client!EventType
         /\ Client!PROXY_CONNECT # Client!SPDZ_CONNECT
BY DEF Own!IInv, Own!TypeOK, Own!FlagsFollow, Own!EventType,
       Client!EventType, Own!PROXY_CONNECT, Client!PROXY_CONNECT,
       Own!SPDZ_CONNECT, Client!SPDZ_CONNECT

\* A web socket known to be up is up, and no news of it are on their way
LEMMA KnownUp ==
  ASSUME Own!IInv, NEW p \in up[Client!PROXY_CONNECT], p \in Proxies
  PROVE  /\ p \in link[Client!PROXY_CONNECT]
         /\ \A i \in 1..Len(OwnEvents[p]) :
              OwnEvents[p][i].eventType # Client!PROXY_CONNECT
<1> DEFINE pc == Own!PROXY_CONNECT
<1>1. pc = Client!PROXY_CONNECT /\ pc \in Own!EventType
  BY DEF Own!PROXY_CONNECT, Client!PROXY_CONNECT, Own!EventType
<1>2. Own!Queued(p, pc) = {}
  BY <1>1, NoDropsAssumption
  DEF Own!IInv, Own!Steady, Own!SocketsFirst, Own!SocketFirst
<1>3. p \in link[pc]
  BY <1>1, <1>2 DEF Own!IInv, Own!Tracking, Own!Tracks, Own!Reliable
<1>4. \A i \in 1..Len(OwnEvents[p]) : OwnEvents[p][i].eventType # pc
  BY <1>2 DEF Own!Queued
<1> QED
  BY <1>1, <1>3, <1>4

LEMMA GuardReaches ==
  ASSUME Own!IInv, NEW k \in {"connect", "disconnect"}, Client!requestGuard(k)
  PROVE  up[Client!PROXY_CONNECT] = Proxies
<1>1. Own!requestGuard(k) /\ Own!PROXY_CONNECT = Client!PROXY_CONNECT
  BY DEF Own!requestGuard, Client!requestGuard, Own!PROXY_CONNECT,
         Own!SPDZ_CONNECT, Client!PROXY_CONNECT, Client!SPDZ_CONNECT
<1>2. \A q \in Proxies : q \in up[Own!PROXY_CONNECT]
  BY <1>1, Own!RequestsReachAll, NoDropsAssumption, ProxiesAssumption,
     TroublesAssumption
  DEF Own!IInv, Own!Steady
<1> QED
  BY <1>1, <1>2, Inherited

LEMMA PushReaches ==
  ASSUME TypeOK, Own!IInv, up[Client!PROXY_CONNECT] = Proxies,
         NEW r, Client!Push(r)
  PROVE  /\ requests' = [p \in Proxies |-> Append(requests[p], r)]
         /\ buffered' = buffered
<1>1. \A p \in Proxies : Client!emit(p, r) =
                          <<Append(requests[p], r), buffered[p]>>
  BY KnownUp DEF Client!emit
<1> QED
  BY <1>1 DEF Client!Push, TypeOK

\* Web sockets known to be up stay so
LEMMA UpStays ==
  ASSUME TypeOK, Own!IInv, [Next]_vars, up[Client!PROXY_CONNECT] = Proxies
  PROVE  up'[Client!PROXY_CONNECT] = Proxies
<1>1. CASE up' = up
  BY <1>1
<1>2. ASSUME NEW p \in Proxies, DeliverConnection(p)
      PROVE  up'[Client!PROXY_CONNECT] = Proxies
  <2>1. Connection!Deliver(p)
    BY <1>2, DeliverOwn
  <2> DEFINE e == Head(OwnEvents[p])
  <2>2. /\ OwnEvents[p] # <<>>
        /\ up' = [up EXCEPT ![e.eventType] =
                     Connection!latest(e.eventType, p, e.status)]
    BY <2>1 DEF Connection!Deliver
  <2>3. OwnEvents[p] \in Seq(Client!Event \cap Event)
    BY WithinType DEF OwnEvents, TypeOK
  <2>4. Len(OwnEvents[p]) \in Nat \ {0} /\ e = OwnEvents[p][1]
    BY <2>2, <2>3, HeadTailProperties
  <2>5. e.eventType # Client!PROXY_CONNECT
    BY <2>4, KnownUp
  <2> HIDE DEF e
  <2> QED
    BY <2>2, <2>5, Inherited
<1>3. ASSUME ~(\E p \in Proxies : DeliverConnection(p))
      PROVE  up' = up
  BY <1>3 DEF Next, vars, connection, CallConnect, CallOther,
    Client!CallConnect, Client!CallDisconnect, Client!CallParty,
    Client!CallProxies, Client!Timeout, SendSecret, DeliverShare,
    HandleConnect, LinkChanges, EngineShares, HandleSend, Client!Handle,
    Client!client, Client!EngineAccepts, Client!EngineRefuses,
    Client!EngineLeaves, Client!EngineCloses, Client!WebConnect,
    Client!WebConnectFails
<1> QED
  BY <1>1, <1>2, <1>3

\* The queues have their types and wire goes with requests
Sending == {"sendData"}

Queues ==
  /\ requests \in [Proxies -> Seq(Request)]
  /\ buffered = [p \in Proxies |-> <<>>]
  /\ wire \in [Proxies -> Seq(Masked)]
  /\ \A p \in Proxies : Len(wire[p]) = Len(Within(requests[p], Sending))

LEMMA BaseQueues == Base => Queues
BY DEF Base, TypeOK, Ready, Queues, Sending

LEMMA PushQueues ==
  ASSUME Base, NEW r \in Request, up[Client!PROXY_CONNECT] = Proxies,
         Client!Push(r),
         \/ r # "sendData" /\ wire' = wire
         \/ /\ r = "sendData"
            /\ \E x \in Masked :
                 wire' = [p \in Proxies |-> Append(wire[p], x)]
  PROVE  Queues'
<1>1. /\ requests' = [p \in Proxies |-> Append(requests[p], r)]
      /\ buffered' = buffered /\ Queues
  BY PushReaches, BaseQueues DEF Base
<1>2. requests' \in [Proxies -> Seq(Request)]
  BY <1>1, AppendProperties DEF Queues
<1>3. wire' \in [Proxies -> Seq(Masked)]
  <2>1. ASSUME NEW x \in Masked,
               wire' = [p \in Proxies |-> Append(wire[p], x)]
        PROVE  wire' \in [Proxies -> Seq(Masked)]
    BY <1>1, <2>1, AppendProperties DEF Queues
  <2> QED
    BY <1>1, <2>1 DEF Queues
<1>4. ASSUME NEW p \in Proxies
      PROVE  Len(wire'[p]) = Len(Within(requests'[p], Sending))
  <2>1. PICK q \in Seq(Request) : q = requests[p]
    BY <1>1 DEF Queues
  <2>2. PICK w \in Seq(Sending \cap Request) : w = Within(q, Sending)
    BY WithinType
  <2>3. Within(Append(q, r), Sending) =
          IF r \in Sending THEN Append(w, r) ELSE w
    BY <2>2, WithinAppend
  <2>4. r \in Sending => Len(Append(w, r)) = Len(w) + 1
    <3>1. r \in Sending => r \in Sending \cap Request
      OBVIOUS
    <3> QED
      BY <3>1, AppendProperties
  <2>5. \A x \in Masked : Len(Append(wire[p], x)) = Len(wire[p]) + 1
    BY <1>1, AppendProperties DEF Queues
  <2>6. requests'[p] = Append(q, r) /\ Len(wire[p]) = Len(w)
    BY <1>1, <2>1, <2>2 DEF Queues
  <2> QED
    BY <2>3, <2>4, <2>5, <2>6 DEF Sending
<1> QED
  BY <1>1, <1>2, <1>3, <1>4 DEF Queues

LEMMA HandleQueues ==
  ASSUME Base, NEW p \in Proxies, NEW r \in Request, Client!Handle(p, r)
  PROVE  /\ r # "sendData" /\ wire' = wire => Queues'
         /\ r = "sendData" => wire[p] # <<>>
         /\ r = "sendData" /\ wire' = [wire EXCEPT ![p] = Tail(@)] => Queues'
<1>1. /\ Queues /\ requests[p] # <<>> /\ Head(requests[p]) = r
      /\ requests' = [requests EXCEPT ![p] = Tail(requests[p])]
      /\ buffered' = buffered
  BY BaseQueues DEF Client!Handle
<1>2. PICK q \in Seq(Request) : q = requests[p] /\ q # <<>> /\ Head(q) = r
  BY <1>1 DEF Queues
<1>3. requests' \in [Proxies -> Seq(Request)] /\ requests'[p] = Tail(q)
      /\ \A x \in Proxies \ {p} : requests'[x] = requests[x]
  BY <1>1, <1>2, HeadTailProperties DEF Queues
<1>4. PICK w \in Seq(Masked) : w = wire[p] /\ Len(w) = Len(Within(q, Sending))
  BY <1>1, <1>2 DEF Queues
<1>5. PICK n \in Nat : n = Len(Within(Tail(q), Sending))
  <2>1. Tail(q) \in Seq(Request)
    BY <1>2, HeadTailProperties
  <2>2. Within(Tail(q), Sending) \in Seq(Sending \cap Request)
    BY <2>1, WithinType
  <2> QED
    BY <2>2
<1>6. CASE r # "sendData"
  <2>1. Len(w) = n
    BY <1>2, <1>4, <1>5, <1>6, WithinTail DEF Sending
  <2> QED
    BY <1>1, <1>3, <1>4, <1>5, <1>6, <2>1 DEF Queues
<1>7. CASE r = "sendData"
  <2>1. Len(w) = n + 1
    BY <1>2, <1>4, <1>5, <1>7, WithinTail DEF Sending
  <2>2. w # <<>> /\ Tail(w) \in Seq(Masked) /\ Len(Tail(w)) = n
    BY <2>1, HeadTailProperties
  <2>3. ASSUME wire' = [wire EXCEPT ![p] = Tail(@)] PROVE Queues'
    <3>1. wire' = [wire EXCEPT ![p] = Tail(w)]
      BY <1>4, <2>3
    <3>2. wire' \in [Proxies -> Seq(Masked)] /\ wire'[p] = Tail(w)
          /\ \A x \in Proxies \ {p} : wire'[x] = wire[x]
      BY <1>1, <2>2, <3>1 DEF Queues
    <3>3. ASSUME NEW x \in Proxies
          PROVE  Len(wire'[x]) = Len(Within(requests'[x], Sending))
      BY <1>1, <1>3, <1>5, <2>2, <3>2 DEF Queues
    <3> QED
      BY <1>1, <1>3, <3>2, <3>3 DEF Queues
  <2> QED
    BY <1>4, <1>7, <2>2, <2>3
<1> QED
  BY <1>6, <1>7

LEMMA EventQueues ==
  ASSUME TypeOK, NEW p \in Proxies
  PROVE  /\ \A e \in Event :
              events' = [events EXCEPT ![p] = Append(@, e)]
                => events' \in [Proxies -> Seq(Event)]
         /\ events[p] # <<>> /\ events' = [events EXCEPT ![p] = Tail(@)]
              => /\ events' \in [Proxies -> Seq(Event)]
                 /\ Head(events[p]) \in Event
         /\ \A t \in Client!EventType, s \in BOOLEAN :
              Client!Report(p, t, s) => events' \in [Proxies -> Seq(Event)]
<1>1. /\ events[p] \in Seq(Event) /\ events \in [Proxies -> Seq(Event)]
  BY DEF TypeOK
<1>2. ASSUME NEW e \in Event, events' = [events EXCEPT ![p] = Append(@, e)]
      PROVE  events' \in [Proxies -> Seq(Event)]
  BY <1>1, <1>2, AppendProperties
<1>3. ASSUME events[p] # <<>>, events' = [events EXCEPT ![p] = Tail(@)]
      PROVE  /\ events' \in [Proxies -> Seq(Event)]
             /\ Head(events[p]) \in Event
  BY <1>1, <1>3, HeadTailProperties
<1>4. ASSUME NEW t \in Client!EventType, NEW s \in BOOLEAN,
             Client!Report(p, t, s)
      PROVE  events' \in [Proxies -> Seq(Event)]
  <2>1. [eventType |-> t, status |-> s] \in Event
    BY DEF Event, Client!Event
  <2> QED
    BY <1>2, <1>4, <2>1 DEF Client!Report
<1> QED
  BY <1>2, <1>3, <1>4

LEMMA EmitQueues ==
  ASSUME Base, NEW n \in Sends, NEW m \in Rounds,
         up[Client!PROXY_CONNECT] = Proxies, Emit(n, m)
  PROVE  Queues'
<1>1. [send |-> n, mask |-> m] \in Masked /\ "sendData" \in Request
  BY DEF Masked, Request
<1>2. \E x \in Masked : wire' = [p \in Proxies |-> Append(wire[p], x)]
  BY <1>1 DEF Emit
<1> QED
  BY <1>1, <1>2, PushQueues DEF Emit

\* The joining of share lists and inputs, which sends and share messages do
LEMMA ListsType ==
  ASSUME Base, NEW mask \in Rounds, ShareList(mask)
  PROVE  /\ inputs' \in Seq(Sends) /\ shareLists' \in Seq(Rounds)
         /\ sends' = sends => \A i \in 1..Len(inputs') : inputs'[i] <= sends'
         /\ Queues' /\ clean' \in BOOLEAN
<1>1. /\ inputs \in Seq(Sends) /\ shareLists \in Seq(Rounds)
      /\ sends \in Nat /\ \A i \in 1..Len(inputs) : inputs[i] <= sends
  BY SendsAssumption DEF Base, TypeOK, Ready
<1>4. clean' \in BOOLEAN
  BY DEF ShareList, Meet, Drop, Base, TypeOK
<1>2. CASE inputs = <<>>
  <2>1. Append(shareLists, mask) \in Seq(Rounds)
    BY <1>1, AppendProperties
  <2>2. Queues'
    BY <1>2, BaseQueues DEF ShareList, Queues
  <2> QED
    BY <1>1, <1>2, <1>4, <2>1, <2>2 DEF ShareList
<1>3. CASE inputs # <<>>
  <2>1. /\ Head(inputs) \in Sends /\ Head(inputs) = inputs[1]
        /\ Len(inputs) \in Nat \ {0}
        /\ Tail(inputs) \in Seq(Sends) /\ Len(Tail(inputs)) = Len(inputs) - 1
        /\ \A i \in 1..Len(Tail(inputs)) : Tail(inputs)[i] = inputs[i + 1]
    BY <1>1, <1>3, HeadTailProperties
  <2>2. sends # 0
    <3>1. 1 \in 1..Len(inputs) /\ inputs[1] \in Nat \ {0}
      BY <2>1, SendsAssumption DEF Sends
    <3> QED
      BY <1>1, <3>1
  <2>3. Meet(Head(inputs), mask) /\ inputs' = Tail(inputs)
        /\ shareLists' = shareLists
    BY <1>3 DEF ShareList
  <2>4. Queues'
    <3>1. CASE Emit(Head(inputs), mask)
      BY <2>1, <2>2, <3>1, EmitQueues DEF Base, Ready
    <3>2. CASE UNCHANGED <<wire, requests, buffered>>
      BY <3>2, BaseQueues DEF Queues
    <3> QED
      BY <2>3, <3>1, <3>2, MeetSends
  <2>5. \A i \in 1..Len(Tail(inputs)) : Tail(inputs)[i] <= sends
    BY <1>1, <2>1
  <2> QED
    BY <1>1, <2>1, <2>3, <2>4, <2>5, <1>4
<1> QED
  BY <1>2, <1>3

\* What is typed and ready besides the queues
Rest ==
  /\ events \in [Proxies -> Seq(Event)]
  /\ sends \in 0..MaxSends
  /\ inputs \in Seq(Sends)
  /\ shareLists \in Seq(Rounds)
  /\ shareZip \in [Proxies -> Seq(Rounds)]
  /\ session \in [Proxies -> Nat]
  /\ produced \in [Proxies -> 0..MaxRounds]
  /\ taken \in [Proxies -> Seq(Taken)]
  /\ clean \in BOOLEAN
  /\ \A i \in 1..Len(inputs) : inputs[i] <= sends
  /\ sends # 0 => up[Client!PROXY_CONNECT] = Proxies

LEMMA BaseIs == Base <=> Queues /\ Rest /\ Own!IInv
<1>1. Base => Queues /\ Rest /\ Own!IInv
  BY BaseQueues DEF Base, TypeOK, Ready, Rest
<1>2. ASSUME Queues, Rest, Own!IInv PROVE Base
  <2>1. buffered \in [Proxies -> Seq(Request)]
        /\ \A p \in Proxies : buffered[p] = <<>>
    BY <1>2, EmptySeq DEF Queues
  <2>2. TypeOK
    BY <1>2, <2>1 DEF TypeOK, Queues, Rest
  <2>3. Ready
    BY <1>2, <2>1 DEF Ready, Queues, Rest, Sending
  <2> QED
    BY <1>2, <2>2, <2>3 DEF Base
<1> QED
  BY <1>1, <1>2

LEMMA BaseCalls ==
  ASSUME Base, NEW c \in Calls, CallConnect(c) \/ CallOther(c), up' = up
  PROVE  Queues' /\ Rest'
<1>1. Queues /\ Rest /\ Own!IInv
  BY BaseIs
<1>2. /\ UNCHANGED <<pairing, engines>> /\ events' = events
      /\ clean' \in BOOLEAN
  BY <1>1 DEF Rest, CallConnect, CallOther, Client!CallConnect,
    Client!CallDisconnect, Client!CallParty, Client!CallProxies,
    Client!Timeout
<1>3. Rest'
  BY <1>1, <1>2 DEF Rest, pairing, engines
<1>4. ASSUME requests' = requests, buffered' = buffered PROVE Queues'
  BY <1>1, <1>2, <1>4 DEF Queues, pairing
<1>5. ASSUME NEW k \in {"connect", "disconnect"}, Client!CallParty(c, k)
      PROVE  Queues'
  <2>1. CASE Client!requestGuard(k)
    <3>1. up[Client!PROXY_CONNECT] = Proxies
      BY <1>1, <2>1, GuardReaches
    <3>2. /\ Client!requestOf(k) \in Request
          /\ Client!requestOf(k) # "sendData"
          /\ Client!Push(Client!requestOf(k)) /\ wire' = wire
      BY <1>2, <1>5, <2>1
      DEF Client!CallParty, Client!requestOf, Request, Client!Request, pairing
    <3> QED
      BY <3>1, <3>2, PushQueues
  <2>2. CASE ~Client!requestGuard(k)
    BY <1>4, <1>5, <2>2 DEF Client!CallParty
  <2> QED
    BY <2>1, <2>2
<1>6. Queues'
  BY <1>4, <1>5 DEF CallConnect, CallOther, Client!CallConnect,
    Client!CallDisconnect, Client!CallProxies, Client!Timeout
<1> QED
  BY <1>3, <1>6

LEMMA BaseSends ==
  ASSUME Base, SendSecret
  PROVE  Queues' /\ Rest'
<1>1. /\ Queues /\ Rest /\ Own!IInv
      /\ inputs \in Seq(Sends) /\ shareLists \in Seq(Rounds)
      /\ sends' = sends + 1 /\ sends' \in Sends /\ sends' \in 0..MaxSends
      /\ sends \in Nat
  BY BaseIs, SendsAssumption DEF SendSecret, Rest, Sends
<1>5. clean' \in BOOLEAN
  BY DEF SendSecret, Meet, Drop, Base, TypeOK
<1>2. up[Client!PROXY_CONNECT] = Proxies
  BY <1>1, Inherited DEF SendSecret
<1>a. \A i \in 1..Len(inputs) : inputs[i] \in Nat /\ inputs[i] <= sends
  <2>1. Sends \subseteq Nat
    BY SendsAssumption DEF Sends
  <2>2. \A i \in 1..Len(inputs) : inputs[i] \in Sends
    BY <1>1
  <2> QED
    BY <1>1, <2>1, <2>2 DEF Rest
<1>3. CASE /\ shareLists = <<>> /\ inputs' = Append(inputs, sends')
           /\ UNCHANGED <<shareLists, wire, requests, buffered>>
  <2>1. /\ inputs' \in Seq(Sends) /\ Len(inputs') = Len(inputs) + 1
        /\ \A i \in 1..Len(inputs) : inputs'[i] = inputs[i]
        /\ inputs'[Len(inputs) + 1] = sends'
    BY <1>1, <1>3, AppendProperties
  <2>2. \A i \in 1..Len(inputs') : inputs'[i] <= sends'
    <3> SUFFICES ASSUME NEW i \in 1..Len(inputs') PROVE inputs'[i] <= sends'
      OBVIOUS
    <3>1. CASE i \in 1..Len(inputs)
      <4>1. inputs[i] <= sends /\ inputs[i] \in Nat
        BY <1>a, <3>1
      <4> QED
        BY <1>1, <2>1, <3>1, <4>1
    <3>2. CASE i = Len(inputs) + 1
      BY <1>1, <2>1, <3>2
    <3> QED
      BY <1>1, <2>1, <3>1, <3>2
  <2>3. Queues'
    BY <1>1, <1>3 DEF Queues
  <2> QED
    BY <1>1, <1>2, <1>3, <1>5, <2>1, <2>2, <2>3
    DEF SendSecret, Rest, engines
<1>4. CASE /\ shareLists # <<>> /\ Meet(sends', Head(shareLists))
           /\ shareLists' = Tail(shareLists) /\ UNCHANGED inputs
  <2>1. Head(shareLists) \in Rounds /\ Tail(shareLists) \in Seq(Rounds)
    BY <1>1, <1>4, HeadTailProperties
  <2>2. Queues'
    <3>1. CASE Emit(sends', Head(shareLists))
      BY <1>1, <1>2, <2>1, <3>1, EmitQueues
    <3>2. CASE UNCHANGED <<wire, requests, buffered>>
      BY <1>1, <3>2 DEF Queues
    <3> QED
      BY <1>4, <3>1, <3>2, MeetSends
  <2>3. \A i \in 1..Len(inputs') : inputs'[i] <= sends'
    <3> SUFFICES ASSUME NEW i \in 1..Len(inputs) PROVE inputs[i] <= sends + 1
      BY <1>1, <1>4
    <3>1. inputs[i] <= sends /\ inputs[i] \in Nat
      BY <1>a
    <3> QED
      BY <1>1, <3>1
  <2> QED
    BY <1>1, <1>2, <1>4, <1>5, <2>1, <2>2, <2>3
    DEF SendSecret, Rest, engines
<1> QED
  BY <1>3, <1>4 DEF SendSecret, listsLeft

LEMMA BaseShares ==
  ASSUME Base, NEW p \in Proxies, DeliverShare(p)
  PROVE  Queues' /\ Rest'
<1>1. /\ Queues /\ Rest /\ Own!IInv /\ shareZip \in [Proxies -> Seq(Rounds)]
      /\ inputs \in Seq(Sends) /\ shareLists \in Seq(Rounds)
  BY BaseIs DEF Rest
<1>2. events' \in [Proxies -> Seq(Event)] /\ Head(events[p]).round \in Rounds
  <2>1. /\ events' \in [Proxies -> Seq(Event)] /\ Head(events[p]) \in Event
        /\ Head(events[p]).eventType = SPDZ_MESSAGE
    BY EventQueues DEF DeliverShare, afterMessage, Base
  <2> QED
    BY <2>1, OwnQueues DEF Message
<1> DEFINE zip == [shareZip EXCEPT ![p] =
                    Append(shareZip[p], Head(events[p]).round)]
           mask == Head(zip[p])
<1>3. zip \in [Proxies -> Seq(Rounds)]
  BY <1>1, <1>2, AppendProperties
<1>4. CASE \E q \in Proxies : zip[q] = <<>>
  <2>1. /\ shareZip' = zip
        /\ UNCHANGED <<inputs, shareLists, wire, requests, buffered, clean>>
    BY <1>4 DEF DeliverShare
  <2>2. Queues'
    BY <1>1, <2>1 DEF Queues
  <2> QED
    BY <1>1, <1>2, <1>3, <2>1, <2>2 DEF DeliverShare, Rest, engines
<1>5. CASE \A q \in Proxies : zip[q] # <<>>
  <2> HIDE DEF zip
  <2>1. mask \in Rounds
    BY <1>3, <1>5, HeadTailProperties
  <2>2. /\ shareZip' = [q \in Proxies |-> Tail(zip[q])]
        /\ \/ ShareList(mask)
           \/ UNCHANGED <<inputs, shareLists, wire, requests, buffered,
                          clean>>
        /\ sends' = sends
    BY <1>5 DEF DeliverShare, zip
  <2>3. shareZip' \in [Proxies -> Seq(Rounds)]
    <3>1. \A q \in Proxies : Tail(zip[q]) \in Seq(Rounds)
      BY <1>3, <1>5, HeadTailProperties
    <3> QED
      BY <2>2, <3>1
  <2>4. /\ inputs' \in Seq(Sends) /\ shareLists' \in Seq(Rounds)
        /\ \A i \in 1..Len(inputs') : inputs'[i] <= sends'
        /\ Queues' /\ clean' \in BOOLEAN
    <3>1. CASE ShareList(mask)
      <4> HIDE DEF mask
      <4> QED
        BY <2>1, <2>2, <3>1, ListsType
    <3>2. CASE UNCHANGED <<inputs, shareLists, wire, requests, buffered,
                           clean>>
      BY <1>1, <2>2, <3>2 DEF Queues, Rest
    <3> QED
      BY <2>2, <3>1, <3>2
  <2> QED
    BY <1>1, <1>2, <2>2, <2>3, <2>4 DEF DeliverShare, Rest, engines
<1> QED
  BY <1>4, <1>5

LEMMA BaseDelivers ==
  ASSUME Base, NEW p \in Proxies, DeliverConnection(p),
         up[Client!PROXY_CONNECT] = Proxies
           => up'[Client!PROXY_CONNECT] = Proxies
  PROVE  Queues' /\ Rest'
<1>1. Queues /\ Rest
  BY BaseIs
<1>2. events' \in [Proxies -> Seq(Event)]
  BY EventQueues DEF DeliverConnection, Client!Deliver, Base
<1>3. UNCHANGED <<requests, buffered>>
  <2>1. requests[p] \in Seq(Request) /\ buffered[p] = <<>>
    BY <1>1 DEF Queues
  <2>2. requests[p] \o buffered[p] = requests[p]
    BY <2>1, ConcatEmptySeq
  <2> QED
    BY <1>1, <2>1, <2>2 DEF DeliverConnection, Client!Deliver, Queues
<1>4. Queues'
  BY <1>1, <1>3 DEF DeliverConnection, Queues, pairing
<1> QED
  BY <1>1, <1>2, <1>4 DEF DeliverConnection, Rest, pairing, engines

LEMMA BaseLinks ==
  ASSUME Base, NEW p \in Proxies, HandleConnect(p) \/ LinkChanges(p)
  PROVE  Queues' /\ Rest'
<1>1. Queues /\ Rest /\ TypeOK
  BY BaseIs DEF Base
<1>2. Client!PROXY_CONNECT \in Client!EventType
      /\ Client!SPDZ_CONNECT \in Client!EventType
  BY OwnQueues
<1>3. events' \in [Proxies -> Seq(Event)]
  <2>1. \A t \in Client!EventType, s \in BOOLEAN :
          Client!Report(p, t, s) => events' \in [Proxies -> Seq(Event)]
    BY <1>1, EventQueues
  <2>2. UNCHANGED events => events' \in [Proxies -> Seq(Event)]
    BY <1>1 DEF Rest
  <2> QED
    BY <1>2, <2>1, <2>2
    DEF HandleConnect, LinkChanges, Client!EngineAccepts,
        Client!EngineRefuses, Client!EngineLeaves, Client!EngineCloses,
        Client!WebConnect, Client!WebConnectFails
<1>4. up' = up /\ wire' = wire
  BY DEF HandleConnect, LinkChanges, Client!EngineAccepts,
    Client!EngineRefuses, Client!EngineLeaves, Client!EngineCloses,
    Client!WebConnect, Client!WebConnectFails, Client!Handle, Client!client,
    pairing
<1>5. Queues'
  <2>1. \A r \in Client!Request : Client!Handle(p, r) => Queues'
    <3>1. \A r \in Client!Request : r \in Request /\ r # "sendData"
      BY OwnQueues DEF Request
    <3> QED
      BY <1>4, <3>1, HandleQueues
  <2>2. "connectToSpdz" \in Client!Request
        /\ "disconnectFromSpdz" \in Client!Request
    BY DEF Client!Request
  <2>3. UNCHANGED <<requests, buffered>> => Queues'
    BY <1>1, <1>4 DEF Queues
  <2> QED
    BY <2>1, <2>2, <2>3
    DEF HandleConnect, LinkChanges, Client!EngineAccepts,
        Client!EngineRefuses, Client!EngineLeaves, Client!EngineCloses,
        Client!WebConnect, Client!WebConnectFails
<1>6. /\ session' \in [Proxies -> Nat]
      /\ produced' \in [Proxies -> 0..MaxRounds]
      /\ taken' = taken /\ clean' = clean /\ UNCHANGED pairing
  <2>1. CASE HandleConnect(p)
    <3>1. session[p] + 1 \in Nat /\ 0 \in 0..MaxRounds
      BY <1>1, SendsAssumption DEF Rest
    <3> QED
      BY <1>1, <2>1, <3>1 DEF HandleConnect, Rest
  <2>2. CASE LinkChanges(p)
    BY <1>1, <2>2 DEF LinkChanges, Rest, engines
  <2> QED
    BY <2>1, <2>2
<1> QED
  BY <1>1, <1>3, <1>4, <1>5, <1>6 DEF Rest, pairing

LEMMA BaseEngines ==
  ASSUME Base, NEW p \in Proxies, EngineShares(p) \/ HandleSend(p)
  PROVE  Queues' /\ Rest'
<1>1. Queues /\ Rest /\ TypeOK
  BY BaseIs DEF Base
<1>2. CASE EngineShares(p)
  <2>1. <<session[p], produced[p] + 1>> \in Rounds
        /\ produced[p] + 1 \in 0..MaxRounds
    <3>1. produced[p] + 1 \in 1..MaxRounds /\ session[p] \in Nat
      BY SMTT(30), <1>1, <1>2, SendsAssumption DEF EngineShares, TypeOK
    <3> QED
      BY <3>1 DEF Rounds
  <2>2. [eventType |-> SPDZ_MESSAGE,
         round |-> <<session[p], produced[p] + 1>>] \in Event
    BY <2>1 DEF Event, Message
  <2>3. events' \in [Proxies -> Seq(Event)]
    BY <1>1, <1>2, <2>2, EventQueues DEF EngineShares
  <2>4. produced' \in [Proxies -> 0..MaxRounds]
    BY <1>1, <1>2, <2>1 DEF EngineShares, Rest
  <2>5. Queues'
    BY <1>1, <1>2 DEF EngineShares, Queues, pairing
  <2> QED
    BY <1>1, <1>2, <2>3, <2>4, <2>5 DEF EngineShares, Rest, pairing
<1>3. CASE HandleSend(p)
  <2>1. Client!Handle(p, "sendData") /\ "sendData" \in Request
    BY <1>3 DEF HandleSend, Request
  <2>2. Queues' /\ wire[p] # <<>>
    BY <1>3, <2>1, HandleQueues DEF HandleSend
  <2>3. Head(wire[p]) \in Masked
    BY <1>1, <2>2, HeadTailProperties DEF Queues
  <2>4. taken' \in [Proxies -> Seq(Taken)]
    <3> DEFINE n == Cardinality(TakenNow(p))
               x == [send |-> Head(wire[p]).send, mask |-> Head(wire[p]).mask,
                     session |-> session[p], nth |-> n + 1]
    <3>1. n \in Nat
      <4>1. IsFiniteSet(1..Len(taken[p]))
        BY <1>1, FS_Interval DEF Rest
      <4>2. TakenNow(p) \subseteq 1..Len(taken[p])
        BY DEF TakenNow
      <4> QED
        BY <4>1, <4>2, FS_Subset, FS_CardinalityType
    <3>2. session[p] \in Nat /\ taken \in [Proxies -> Seq(Taken)]
      BY <1>1 DEF Rest
    <3> HIDE DEF n
    <3>3. x \in Taken
      BY <2>3, <3>1, <3>2 DEF Taken, Masked
    <3>4. \/ taken' = taken
          \/ taken' = [taken EXCEPT ![p] = Append(taken[p], x)]
      BY <1>3 DEF HandleSend, n
    <3> HIDE DEF x
    <3>5. Append(taken[p], x) \in Seq(Taken)
      BY <3>2, <3>3, AppendProperties
    <3> QED
      BY <3>2, <3>4, <3>5
  <2> QED
    BY <1>1, <1>3, <2>1, <2>2, <2>4
    DEF HandleSend, Client!Handle, Client!client, Rest
<1> QED
  BY <1>2, <1>3

LEMMA NextBase == Base /\ [Next]_vars => Base'
<1> SUFFICES ASSUME Base, [Next]_vars PROVE Base'
  OBVIOUS
<1>1. Own!IInv'
  BY NextInherits DEF Base
<1>2. up[Client!PROXY_CONNECT] = Proxies => up'[Client!PROXY_CONNECT] = Proxies
  BY UpStays DEF Base
<1>3. ASSUME NEW c \in Calls, CallConnect(c) \/ CallOther(c)
      PROVE  Queues' /\ Rest'
  <2>1. up' = up
    BY <1>3 DEF CallConnect, CallOther, Client!CallConnect,
      Client!CallDisconnect, Client!CallParty, Client!CallProxies,
      Client!Timeout
  <2> QED
    BY <1>3, <2>1, BaseCalls
<1>4. ASSUME UNCHANGED vars PROVE Queues' /\ Rest'
  BY <1>4, BaseIs
  DEF vars, connection, pairing, engines, Queues, Rest
<1>5. Queues' /\ Rest'
  BY <1>2, <1>3, <1>4, BaseSends, BaseShares, BaseDelivers, BaseLinks,
     BaseEngines
  DEF Next
<1>6. (Queues /\ Rest /\ Own!IInv => Base)'
  BY BaseIs, PTL
<1> QED
  BY <1>1, <1>5, <1>6

LEMMA InitBase == Init => Base
<1> SUFFICES ASSUME Init PROVE Base
  OBVIOUS
<1>1. Own!IInv
  BY InitInherits
<1>2. /\ <<>> \in Seq(Request) /\ <<>> \in Seq(Masked) /\ <<>> \in Seq(Event)
      /\ <<>> \in Seq(Rounds) /\ <<>> \in Seq(Taken) /\ <<>> \in Seq(Sends)
      /\ Len(<<>>) = 0 /\ 0 \in 0..MaxSends /\ 0 \in 0..MaxRounds
  BY SendsAssumption, EmptySeq
<1>3. Queues
  BY <1>2, WithinFew DEF Init, Client!Init, Queues
<1>4. Rest
  BY <1>2 DEF Init, Client!Init, Rest
<1> QED
  BY <1>1, <1>3, <1>4, BaseIs

\* The connections, share lists, inputs and engines keep their types, even
\* when share lists, inputs and connection requests share the sockets.
THEOREM TypeCorrect == Spec => []TypeOK
<1>1. Spec => []Base
  BY InitBase, NextBase, PTL DEF Spec
<1>2. Base => TypeOK
  BY DEF Base
<1> QED
  BY <1>1, <1>2, PTL

\* Inputs and shares on the same sockets leave the connection as it is: the
\* client implements SpdzConnection (connectSetup.js 154-165 has one emit for
\* all requests), and what SpdzConnectionProofs shows holds of it.
THEOREM Refinement == Spec => ConnectionKept
<1>1. Spec => [](TypeOK /\ Base)
  <2>1. Base => TypeOK
    BY DEF Base
  <2> QED
    BY <2>1, InitBase, NextBase, PTL DEF Spec
<1>2. Init => Connection!Init
  BY InitOwn
<1>3. TypeOK /\ [Next]_vars => [Connection!Next]_(Connection!vars)
  BY NextOwn
<1> QED
  BY <1>1, <1>2, <1>3, PTL DEF Spec, ConnectionKept, Connection!Spec

-----------------------------------------------------------------------------
(* Masks are used once.                                                    *)

\* The inputs that are on their way to an engine or taken in
Carried ==
  {x \in Masked : \E p \in Proxies :
     \/ \E i \in 1..Len(wire[p]) : wire[p][i] = x
     \/ \E i \in 1..Len(taken[p]) : /\ taken[p][i].send = x.send
                                   /\ taken[p][i].mask = x.mask}

\* The rounds whose share list is joined
Spent ==
  {x.mask : x \in Carried}
    \union {shareLists[i] : i \in 1..Len(shareLists)}

Fresh ==
  /\ \A x, y \in Carried : x.send = y.send <=> x.mask = y.mask
  /\ \A x \in Carried : x.send <= sends
  /\ \A x \in Carried : \A i \in 1..Len(inputs) : inputs[i] # x.send
  /\ \A x \in Carried : \A i \in 1..Len(shareLists) : shareLists[i] # x.mask
  /\ \A i, j \in 1..Len(inputs) : inputs[i] = inputs[j] => i = j
  /\ \A i, j \in 1..Len(shareLists) : shareLists[i] = shareLists[j] => i = j

LEMMA MaskedEqual ==
  ASSUME NEW x \in Masked, NEW y \in Masked, x.send = y.send, x.mask = y.mask
  PROVE  x = y
<1>1. x = [send |-> x.send, mask |-> x.mask]
  BY DEF Masked
<1>2. y = [send |-> y.send, mask |-> y.mask]
  BY DEF Masked
<1> QED
  BY <1>1, <1>2

LEMMA CarriedSame ==
  ASSUME wire' = wire, taken' = taken
  PROVE  Carried' = Carried
BY DEF Carried

LEMMA EmitCarries ==
  ASSUME Base, NEW n \in Sends, NEW m \in Rounds, Emit(n, m), taken' = taken
  PROVE  Carried' \subseteq Carried \union {[send |-> n, mask |-> m]}
<1> DEFINE x == [send |-> n, mask |-> m]
<1>1. x \in Masked /\ wire \in [Proxies -> Seq(Masked)]
  BY DEF Masked, Base, TypeOK
<1>2. \A p \in Proxies : wire'[p] = Append(wire[p], x)
  BY DEF Emit
<1> HIDE DEF x
<1>3. ASSUME NEW p \in Proxies, NEW i \in 1..Len(wire'[p])
      PROVE  wire'[p][i] = x \/ \E j \in 1..Len(wire[p]) :
                                 wire[p][j] = wire'[p][i]
  <2>1. wire[p] \in Seq(Masked) /\ wire'[p] = Append(wire[p], x)
    BY <1>1, <1>2
  <2> QED
    BY <1>1, <2>1, AppendProperties
<1>4. ASSUME NEW y \in Carried', y # x PROVE y \in Carried
  BY <1>3, <1>4 DEF Carried
<1> QED
  BY <1>4 DEF x

LEMMA HandleCarries ==
  ASSUME Base, NEW p \in Proxies, HandleSend(p)
  PROVE  Carried' \subseteq Carried
<1>1. wire[p] # <<>>
  <2>1. Client!Handle(p, "sendData") /\ "sendData" \in Request
    BY DEF HandleSend, Request
  <2> QED
    BY <2>1, HandleQueues
<1>2. /\ wire \in [Proxies -> Seq(Masked)] /\ taken \in [Proxies -> Seq(Taken)]
      /\ wire[p] \in Seq(Masked) /\ taken[p] \in Seq(Taken)
  BY DEF Base, TypeOK
<1>3. /\ Len(wire[p]) \in Nat \ {0} /\ Head(wire[p]) = wire[p][1]
      /\ Head(wire[p]) \in Masked
      /\ Len(Tail(wire[p])) = Len(wire[p]) - 1
      /\ \A i \in 1..Len(Tail(wire[p])) : Tail(wire[p])[i] = wire[p][i + 1]
  BY <1>1, <1>2, HeadTailProperties
<1>4. wire' = [wire EXCEPT ![p] = Tail(wire[p])]
  BY DEF HandleSend
<1>5. ASSUME NEW q \in Proxies, NEW i \in 1..Len(wire'[q])
      PROVE  \E j \in 1..Len(wire[q]) : wire[q][j] = wire'[q][i]
  <2>1. CASE q = p
    <3>1. i + 1 \in 1..Len(wire[p]) /\ wire'[q][i] = wire[p][i + 1]
      BY <1>2, <1>3, <1>4, <2>1
    <3> QED
      BY <2>1, <3>1
  <2>2. CASE q # p
    BY <1>2, <1>4, <2>2
  <2> QED
    BY <2>1, <2>2
<1>6. ASSUME NEW q \in Proxies, NEW i \in 1..Len(taken'[q])
      PROVE  \/ \E j \in 1..Len(taken[q]) : taken[q][j] = taken'[q][i]
             \/ /\ taken'[q][i].send = wire[p][1].send
                /\ taken'[q][i].mask = wire[p][1].mask
  <2>1. CASE taken' = taken
    BY <2>1
  <2>2. CASE taken' # taken
    <3>1. PICK n : taken' = [taken EXCEPT ![p] = Append(taken[p],
            [send |-> Head(wire[p]).send, mask |-> Head(wire[p]).mask,
             session |-> session[p], nth |-> n])]
      BY <2>2 DEF HandleSend
    <3>2. PICK x : /\ x.send = wire[p][1].send /\ x.mask = wire[p][1].mask
                   /\ taken' = [taken EXCEPT ![p] = Append(taken[p], x)]
      BY <1>3, <3>1
    <3>3. CASE q # p
      BY <1>2, <3>2, <3>3
    <3>4. CASE q = p
      <4>1. PICK T : taken[p] \in Seq(T) /\ x \in T
        <5>1. taken[p] \in Seq(Taken \union {x})
          BY <1>2
        <5> QED
          BY <5>1
      <4>2. taken'[p] = Append(taken[p], x)
        BY <1>2, <3>2
      <4>3. i <= Len(taken[p]) \/ taken'[p][i] = x
        BY <3>4, <4>1, <4>2, AppendProperties
      <4>4. i <= Len(taken[p]) => taken'[p][i] = taken[p][i]
                                  /\ i \in 1..Len(taken[p])
        BY <3>4, <4>1, <4>2, AppendProperties
      <4> QED
        BY <3>2, <3>4, <4>3, <4>4
    <3> QED
      BY <3>3, <3>4
  <2> QED
    BY <2>1, <2>2
<1>7. ASSUME NEW y \in Carried' PROVE y \in Carried
  <2>1. PICK q \in Proxies :
          \/ \E i \in 1..Len(wire'[q]) : wire'[q][i] = y
          \/ \E i \in 1..Len(taken'[q]) : /\ taken'[q][i].send = y.send
                                         /\ taken'[q][i].mask = y.mask
    BY DEF Carried
  <2>2. y \in Masked
    BY DEF Carried
  <2>3. CASE \E i \in 1..Len(wire'[q]) : wire'[q][i] = y
    BY <1>5, <2>2, <2>3 DEF Carried
  <2>4. CASE \E i \in 1..Len(taken'[q]) : /\ taken'[q][i].send = y.send
                                        /\ taken'[q][i].mask = y.mask
    <3>1. PICK i \in 1..Len(taken'[q]) : /\ taken'[q][i].send = y.send
                                        /\ taken'[q][i].mask = y.mask
      BY <2>4
    <3>2. CASE \E j \in 1..Len(taken[q]) : taken[q][j] = taken'[q][i]
      BY <2>2, <3>1, <3>2 DEF Carried
    <3>3. CASE /\ taken'[q][i].send = wire[p][1].send
               /\ taken'[q][i].mask = wire[p][1].mask
      <4>1. wire[p][1] = y
        BY <1>3, <2>2, <3>1, <3>3, MaskedEqual
      <4>2. 1 \in 1..Len(wire[p])
        BY <1>3
      <4> QED
        BY <2>2, <4>1, <4>2 DEF Carried
    <3> QED
      BY <1>6, <3>2, <3>3
  <2> QED
    BY <2>1, <2>3, <2>4
<1> QED
  BY <1>7

\* A share list that is new meets an input that is carried nowhere
LEMMA ShareListFresh ==
  ASSUME Base, Fresh, NEW mask \in Rounds, mask \notin Spent, ShareList(mask),
         taken' = taken, sends' = sends
  PROVE  Fresh' /\ Spent' \subseteq Spent \union {mask}
<1>1. /\ inputs \in Seq(Sends) /\ shareLists \in Seq(Rounds)
      /\ \A i \in 1..Len(inputs) : inputs[i] <= sends
      /\ \A i \in 1..Len(shareLists) : shareLists[i] # mask
      /\ \A x \in Carried : x.mask # mask
  BY DEF Base, TypeOK, Ready, Spent
<1>2. CASE inputs = <<>>
  <2>1. /\ shareLists' = Append(shareLists, mask) /\ inputs' = inputs
        /\ Carried' = Carried
    BY <1>2, CarriedSame DEF ShareList
  <2>2. /\ Len(shareLists') = Len(shareLists) + 1
        /\ \A i \in 1..Len(shareLists) : shareLists'[i] = shareLists[i]
        /\ shareLists'[Len(shareLists) + 1] = mask
    BY <1>1, <2>1, AppendProperties
  <2>3. \A i \in 1..Len(shareLists') :
          \/ shareLists'[i] = mask /\ i = Len(shareLists) + 1
          \/ i \in 1..Len(shareLists) /\ shareLists'[i] = shareLists[i]
    BY <1>1, <2>2
  <2>4. Fresh'
    BY <1>1, <2>1, <2>3 DEF Fresh
  <2>5. Spent' \subseteq Spent \union {mask}
    BY <2>1, <2>3 DEF Spent
  <2> QED
    BY <2>4, <2>5
<1>3. CASE inputs # <<>>
  <2> DEFINE n == Head(inputs)
             x == [send |-> n, mask |-> mask]
  <2>1. /\ n \in Sends /\ n = inputs[1] /\ Len(inputs) \in Nat \ {0}
        /\ Len(Tail(inputs)) = Len(inputs) - 1
        /\ \A i \in 1..Len(Tail(inputs)) : Tail(inputs)[i] = inputs[i + 1]
    BY <1>1, <1>3, HeadTailProperties
  <2>2. /\ Meet(n, mask) /\ inputs' = Tail(inputs) /\ shareLists' = shareLists
    BY <1>3 DEF ShareList
  <2>3. Carried' \subseteq Carried \union {x}
    BY <2>1, <2>2, MeetSends, EmitCarries, CarriedSame
  <2>4. x.send = n /\ x.mask = mask
    OBVIOUS
  <2> HIDE DEF x, n
  <2>5. \A y \in Carried : y.send # n
    BY <2>1 DEF Fresh
  <2>6. \A y, z \in Carried' : y.send = z.send <=> y.mask = z.mask
    BY <1>1, <2>3, <2>4, <2>5 DEF Fresh
  <2>7. \A y \in Carried' : y.send <= sends'
    BY <1>1, <2>1, <2>3, <2>4 DEF Fresh
  <2>8. \A i \in 1..Len(inputs') :
          /\ i + 1 \in 1..Len(inputs) /\ inputs'[i] = inputs[i + 1]
          /\ inputs'[i] # n
    <3> SUFFICES ASSUME NEW i \in 1..Len(inputs')
                 PROVE  /\ i + 1 \in 1..Len(inputs)
                        /\ inputs'[i] = inputs[i + 1] /\ inputs'[i] # n
      OBVIOUS
    <3>1. /\ i + 1 \in 1..Len(inputs) /\ inputs'[i] = inputs[i + 1]
          /\ 1 \in 1..Len(inputs) /\ i + 1 # 1
      BY <2>1, <2>2
    <3> QED
      BY <2>1, <3>1 DEF Fresh
  <2>9. \A y \in Carried' : \A i \in 1..Len(inputs') : inputs'[i] # y.send
    <3> SUFFICES ASSUME NEW y \in Carried', NEW i \in 1..Len(inputs')
                 PROVE  inputs'[i] # y.send
      OBVIOUS
    <3>1. CASE y = x
      BY <2>4, <2>8, <3>1
    <3>2. CASE y \in Carried
      <4>1. i + 1 \in 1..Len(inputs) /\ inputs'[i] = inputs[i + 1]
        BY <2>8
      <4> QED
        BY <3>2, <4>1 DEF Fresh
    <3> QED
      BY <2>3, <3>1, <3>2
  <2>10. \A y \in Carried' : \A i \in 1..Len(shareLists') :
           shareLists'[i] # y.mask
    BY <1>1, <2>2, <2>3, <2>4 DEF Fresh
  <2>11. \A i, j \in 1..Len(inputs') : inputs'[i] = inputs'[j] => i = j
    <3> SUFFICES ASSUME NEW i \in 1..Len(inputs'), NEW j \in 1..Len(inputs'),
                        inputs'[i] = inputs'[j]
                 PROVE  i = j
      OBVIOUS
    <3>1. i + 1 = j + 1
      BY <2>8 DEF Fresh
    <3> QED
      BY <3>1
  <2>12. Fresh'
    BY <2>2, <2>6, <2>7, <2>9, <2>10, <2>11 DEF Fresh
  <2>13. Spent' \subseteq Spent \union {mask}
    BY <2>2, <2>3, <2>4 DEF Spent
  <2> QED
    BY <2>12, <2>13
<1> QED
  BY <1>2, <1>3

LEMMA SendFresh ==
  ASSUME Base, Fresh, SendSecret
  PROVE  Fresh' /\ Spent' \subseteq Spent
<1>1. /\ inputs \in Seq(Sends) /\ shareLists \in Seq(Rounds)
      /\ \A i \in 1..Len(inputs) : inputs[i] \in Nat /\ inputs[i] <= sends
      /\ sends \in Nat /\ sends' = sends + 1 /\ sends' \in Sends
      /\ taken' = taken
      /\ \A x \in Carried : x.send \in Nat /\ x.send <= sends
  <2>1. Sends \subseteq Nat
    BY SendsAssumption DEF Sends
  <2>2. inputs \in Seq(Sends) /\ shareLists \in Seq(Rounds) /\ sends \in Nat
    BY SendsAssumption DEF Base, TypeOK
  <2>3. \A x \in Carried : x.send \in Sends
    BY DEF Carried, Masked
  <2>4. \A i \in 1..Len(inputs) : inputs[i] \in Sends
    BY <2>2
  <2> QED
    BY <2>1, <2>2, <2>3, <2>4, SendsAssumption
    DEF Base, Ready, Fresh, SendSecret, engines, Sends
<1>2. CASE /\ inputs' = Append(inputs, sends')
           /\ UNCHANGED <<shareLists, wire, requests, buffered>>
  <2>1. Carried' = Carried
    BY <1>1, <1>2, CarriedSame
  <2>2. /\ Len(inputs') = Len(inputs) + 1
        /\ \A i \in 1..Len(inputs) : inputs'[i] = inputs[i]
        /\ inputs'[Len(inputs) + 1] = sends'
    BY <1>1, <1>2, AppendProperties
  <2>3. \A i \in 1..Len(inputs') :
          \/ inputs'[i] = sends' /\ i = Len(inputs) + 1
          \/ /\ i \in 1..Len(inputs) /\ inputs'[i] = inputs[i]
             /\ inputs'[i] # sends'
    BY <1>1, <2>2
  <2>4. \A x \in Carried : x.send # sends' /\ x.send <= sends'
    BY <1>1
  <2>5. Fresh'
    BY <1>2, <2>1, <2>3, <2>4 DEF Fresh
  <2>6. Spent' = Spent
    BY <1>2, <2>1 DEF Spent
  <2> QED
    BY <2>5, <2>6
<1>3. CASE /\ shareLists # <<>> /\ Meet(sends', Head(shareLists))
           /\ shareLists' = Tail(shareLists) /\ UNCHANGED inputs
  <2> DEFINE m == Head(shareLists)
             x == [send |-> sends', mask |-> m]
  <2>1. /\ m \in Rounds /\ m = shareLists[1] /\ Len(shareLists) \in Nat \ {0}
        /\ Len(Tail(shareLists)) = Len(shareLists) - 1
        /\ \A i \in 1..Len(Tail(shareLists)) :
             Tail(shareLists)[i] = shareLists[i + 1]
    BY <1>1, <1>3, HeadTailProperties
  <2>2. Carried' \subseteq Carried \union {x}
    BY <1>1, <1>3, <2>1, MeetSends, EmitCarries, CarriedSame
  <2>3. x.send = sends' /\ x.mask = m /\ 1 \in 1..Len(shareLists)
    BY <2>1
  <2> HIDE DEF x, m
  <2>4. \A y \in Carried : y.send # sends' /\ y.send <= sends' /\ y.mask # m
    BY <1>1, <2>1, <2>3 DEF Fresh
  <2>5. \A y, z \in Carried' : y.send = z.send <=> y.mask = z.mask
    BY <2>2, <2>3, <2>4 DEF Fresh
  <2>6. \A y \in Carried' : y.send <= sends'
    BY <1>1, <2>2, <2>3, <2>4
  <2>7. \A y \in Carried' : \A i \in 1..Len(inputs') : inputs'[i] # y.send
    BY <1>1, <1>3, <2>2, <2>3 DEF Fresh
  <2>8. \A i \in 1..Len(shareLists') :
          /\ i + 1 \in 1..Len(shareLists)
          /\ shareLists'[i] = shareLists[i + 1] /\ shareLists'[i] # m
    <3> SUFFICES ASSUME NEW i \in 1..Len(shareLists')
                 PROVE  /\ i + 1 \in 1..Len(shareLists)
                        /\ shareLists'[i] = shareLists[i + 1]
                        /\ shareLists'[i] # m
      OBVIOUS
    <3>1. /\ i + 1 \in 1..Len(shareLists) /\ i + 1 # 1
          /\ shareLists'[i] = shareLists[i + 1]
      BY <1>3, <2>1
    <3> QED
      BY <2>1, <2>3, <3>1 DEF Fresh
  <2>9. \A y \in Carried' : \A i \in 1..Len(shareLists') :
          shareLists'[i] # y.mask
    BY <2>2, <2>3, <2>8 DEF Fresh
  <2>10. \A i, j \in 1..Len(shareLists') :
           shareLists'[i] = shareLists'[j] => i = j
    <3> SUFFICES ASSUME NEW i \in 1..Len(shareLists'),
                        NEW j \in 1..Len(shareLists'),
                        shareLists'[i] = shareLists'[j]
                 PROVE  i = j
      OBVIOUS
    <3>1. i + 1 = j + 1
      BY <2>8 DEF Fresh
    <3> QED
      BY <3>1
  <2>11. Fresh'
    BY <1>3, <2>5, <2>6, <2>7, <2>9, <2>10 DEF Fresh
  <2>12. Spent' \subseteq Spent
    BY <2>1, <2>2, <2>3, <2>8 DEF Spent
  <2> QED
    BY <2>11, <2>12
<1> QED
  BY <1>2, <1>3 DEF SendSecret, listsLeft

\* Rounds in the order an engine sends them
Before(a, b) == a[1] < b[1] \/ (a[1] = b[1] /\ a[2] < b[2])

\* An engine has sent the round in this session or one before
Issued(p, r) == r[1] < session[p] \/ (r[1] = session[p] /\ r[2] <= produced[p])

\* The share messages of p that are still to be handled
Coming == [p \in Proxies |-> Within(events[p], Message)]

\* A queue of rounds and one of messages behind it are in order, after all of S
Sorted(zip, msgs, S) ==
  /\ \A i, j \in 1..Len(zip) : i < j => Before(zip[i], zip[j])
  /\ \A i, j \in 1..Len(msgs) : i < j => Before(msgs[i].round, msgs[j].round)
  /\ \A i \in 1..Len(zip), j \in 1..Len(msgs) : Before(zip[i], msgs[j].round)
  /\ \A s \in S : /\ \A i \in 1..Len(zip) : Before(s, zip[i])
                  /\ \A j \in 1..Len(msgs) : Before(s, msgs[j].round)

AllIssued(p) ==
  /\ \A s \in Spent : Issued(p, s)
  /\ \A i \in 1..Len(shareZip[p]) : Issued(p, shareZip[p][i])
  /\ \A i \in 1..Len(Coming[p]) : Issued(p, Coming[p][i].round)

InOrder ==
  \A p \in Proxies : Sorted(shareZip[p], Coming[p], Spent) /\ AllIssued(p)

LEMMA BeforeOrder ==
  /\ \A a \in Rounds : ~Before(a, a)
  /\ \A a, b, c \in Rounds : Before(a, b) /\ Before(b, c) => Before(a, c)
  /\ \A a \in Rounds : a[1] \in Nat /\ a[2] \in Nat
BY SendsAssumption DEF Rounds, Before

LEMMA ComingType ==
  ASSUME TypeOK
  PROVE  /\ Coming \in [Proxies -> Seq(Message)]
         /\ \A p \in Proxies : \A i \in 1..Len(Coming[p]) :
              Coming[p][i].round \in Rounds
<1>1. ASSUME NEW p \in Proxies PROVE Coming[p] \in Seq(Message)
  <2>1. Within(events[p], Message) \in Seq(Message \cap Event)
    BY WithinType DEF TypeOK
  <2> QED
    BY <2>1 DEF Coming
<1>2. \A m \in Message : m.round \in Rounds
  BY DEF Message
<1> QED
  BY <1>1, <1>2 DEF Coming

\* What the handling and sending of events does to the messages coming
LEMMA ComingMoves ==
  ASSUME TypeOK, NEW p \in Proxies
  PROVE  /\ events[p] # <<>> /\ Head(events[p]).eventType = SPDZ_MESSAGE
              /\ events' = [events EXCEPT ![p] = Tail(events[p])]
              => /\ Coming[p] # <<>> /\ Head(Coming[p]) = Head(events[p])
                 /\ Coming' = [Coming EXCEPT ![p] = Tail(Coming[p])]
         /\ events[p] # <<>> /\ Head(events[p]).eventType # SPDZ_MESSAGE
              /\ events' = [events EXCEPT ![p] = Tail(events[p])]
              => Coming' = Coming
         /\ \A m \in Message :
              events' = [events EXCEPT ![p] = Append(events[p], m)]
              => Coming' = [Coming EXCEPT ![p] = Append(Coming[p], m)]
         /\ \A t \in Client!EventType, s \in BOOLEAN :
              Client!Report(p, t, s) => Coming' = Coming
         /\ UNCHANGED events => Coming' = Coming
<1>1. events[p] \in Seq(Event) /\ events \in [Proxies -> Seq(Event)]
  BY DEF TypeOK
<1>2. ASSUME events[p] # <<>>,
             events' = [events EXCEPT ![p] = Tail(events[p])]
      PROVE  /\ Head(events[p]).eventType = SPDZ_MESSAGE
                  => /\ Coming[p] # <<>> /\ Head(Coming[p]) = Head(events[p])
                     /\ Coming' = [Coming EXCEPT ![p] = Tail(Coming[p])]
             /\ Head(events[p]).eventType # SPDZ_MESSAGE => Coming' = Coming
  <2>1. Head(events[p]) \in Event
    BY <1>1, <1>2, HeadTailProperties
  <2>2. Head(events[p]).eventType = SPDZ_MESSAGE <=> Head(events[p]) \in Message
    BY <2>1, OwnQueues
  <2>3. CASE Head(events[p]) \in Message
    <3>1. /\ Within(Tail(events[p]), Message) = Tail(Coming[p])
          /\ Coming[p] # <<>> /\ Head(Coming[p]) = Head(events[p])
      BY <1>1, <1>2, <2>3, WithinTail DEF Coming
    <3>2. Coming' = [Coming EXCEPT ![p] = Tail(Coming[p])]
      BY <1>1, <1>2, <3>1 DEF Coming
    <3> QED
      BY <2>2, <2>3, <3>1, <3>2
  <2>4. CASE Head(events[p]) \notin Message
    <3>1. Within(Tail(events[p]), Message) = Coming[p]
      BY <1>1, <1>2, <2>4, WithinTail DEF Coming
    <3>2. Coming' = Coming
      BY <1>1, <1>2, <3>1 DEF Coming
    <3> QED
      BY <2>2, <2>4, <3>2
  <2> QED
    BY <2>3, <2>4
<1>3. ASSUME NEW m \in Message,
             events' = [events EXCEPT ![p] = Append(events[p], m)]
      PROVE  Coming' = [Coming EXCEPT ![p] = Append(Coming[p], m)]
  <2>1. m \in Event
    BY DEF Event
  <2>2. Within(Append(events[p], m), Message) = Append(Coming[p], m)
    BY <1>1, <2>1, WithinAppend DEF Coming
  <2> QED
    BY <1>1, <1>3, <2>2 DEF Coming
<1>4. ASSUME NEW t \in Client!EventType, NEW s \in BOOLEAN,
             Client!Report(p, t, s)
      PROVE  Coming' = Coming
  <2> DEFINE e == [eventType |-> t, status |-> s]
  <2>1. e \in Event /\ e.eventType = t /\ t # SPDZ_MESSAGE
    BY OwnQueues DEF Event, Client!Event
  <2>2. e \notin Message
    BY <2>1, OwnQueues
  <2>3. events' = [events EXCEPT ![p] = Append(events[p], e)]
    BY <1>4 DEF Client!Report
  <2> HIDE DEF e
  <2>4. Within(Append(events[p], e), Message) = Coming[p]
    BY <1>1, <2>1, <2>2, WithinAppend DEF Coming
  <2> QED
    BY <1>1, <2>3, <2>4 DEF Coming
<1>5. UNCHANGED events => Coming' = Coming
  BY DEF Coming
<1> QED
  BY <1>2, <1>3, <1>4, <1>5

LEMMA SortedMoves ==
  ASSUME NEW zip \in Seq(Rounds), NEW msgs \in Seq(Message), msgs # <<>>,
         NEW S, Sorted(zip, msgs, S)
  PROVE  Sorted(Append(zip, Head(msgs).round), Tail(msgs), S)
<1>0. /\ Head(msgs) = msgs[1] /\ Head(msgs) \in Message
      /\ Tail(msgs) \in Seq(Message)
      /\ Len(msgs) \in Nat \ {0} /\ Len(Tail(msgs)) = Len(msgs) - 1
      /\ \A i \in 1..Len(Tail(msgs)) : Tail(msgs)[i] = msgs[i + 1]
  BY HeadTailProperties
<1>1. PICK h : h = Head(msgs).round /\ h \in Rounds /\ h = msgs[1].round
  BY <1>0 DEF Message
<1>2. PICK t \in Seq(Message) :
        /\ t = Tail(msgs) /\ Len(msgs) \in Nat \ {0} /\ Len(t) = Len(msgs) - 1
        /\ \A i \in 1..Len(t) : t[i] = msgs[i + 1]
  BY <1>0
<1>3. PICK z \in Seq(Rounds) :
        /\ z = Append(zip, h) /\ Len(z) = Len(zip) + 1
        /\ \A i \in 1..Len(zip) : z[i] = zip[i]
        /\ z[Len(zip) + 1] = h
  BY <1>1, AppendProperties
<1>4. \A i \in 1..Len(z) : \/ i \in 1..Len(zip) /\ z[i] = zip[i]
                           \/ i = Len(zip) + 1 /\ z[i] = h
  BY <1>3
<1>5. 1 \in 1..Len(msgs) /\ \A i \in 1..Len(t) :
        i + 1 \in 1..Len(msgs) /\ 1 < i + 1 /\ t[i] = msgs[i + 1]
  BY <1>2
<1>6. ASSUME NEW i \in 1..Len(z), NEW j \in 1..Len(z), i < j
      PROVE  Before(z[i], z[j])
  <2>1. i \in 1..Len(zip) /\ z[i] = zip[i]
    BY <1>3, <1>6
  <2>2. CASE j \in 1..Len(zip) /\ z[j] = zip[j]
    BY <1>6, <2>1, <2>2 DEF Sorted
  <2>3. CASE z[j] = h
    BY <1>1, <1>5, <2>1, <2>3 DEF Sorted
  <2> QED
    BY <1>4, <2>2, <2>3
<1>7. ASSUME NEW i \in 1..Len(t), NEW j \in 1..Len(t), i < j
      PROVE  Before(t[i].round, t[j].round)
  <2>1. i + 1 \in 1..Len(msgs) /\ j + 1 \in 1..Len(msgs) /\ i + 1 < j + 1
    BY <1>5, <1>7
  <2> QED
    BY <1>5, <2>1 DEF Sorted
<1>8. ASSUME NEW i \in 1..Len(z), NEW j \in 1..Len(t)
      PROVE  Before(z[i], t[j].round)
  <2>1. CASE i \in 1..Len(zip) /\ z[i] = zip[i]
    BY <1>5, <2>1 DEF Sorted
  <2>2. CASE z[i] = h
    BY <1>1, <1>5, <2>2 DEF Sorted
  <2> QED
    BY <1>4, <2>1, <2>2
<1>9. ASSUME NEW s \in S
      PROVE  /\ \A i \in 1..Len(z) : Before(s, z[i])
             /\ \A j \in 1..Len(t) : Before(s, t[j].round)
  BY <1>1, <1>4, <1>5, <1>9 DEF Sorted
<1>10. Sorted(z, t, S)
  BY <1>6, <1>7, <1>8, <1>9 DEF Sorted
<1> QED
  BY <1>1, <1>2, <1>3, <1>10

LEMMA SortedTakes ==
  ASSUME NEW zip \in Seq(Rounds), zip # <<>>, NEW msgs, NEW S,
         Sorted(zip, msgs, S)
  PROVE  /\ Sorted(Tail(zip), msgs, S \union {Head(zip)})
         /\ S \subseteq Rounds => Head(zip) \notin S
         /\ Head(zip) = zip[1] /\ 1 \in 1..Len(zip)
<1>0. /\ Tail(zip) \in Seq(Rounds)
      /\ Len(zip) \in Nat \ {0} /\ Len(Tail(zip)) = Len(zip) - 1
      /\ Head(zip) = zip[1] /\ Head(zip) \in Rounds
      /\ \A i \in 1..Len(Tail(zip)) : Tail(zip)[i] = zip[i + 1]
  BY HeadTailProperties
<1>1. PICK t \in Seq(Rounds) :
        /\ t = Tail(zip) /\ Len(zip) \in Nat \ {0} /\ Len(t) = Len(zip) - 1
        /\ Head(zip) = zip[1] /\ Head(zip) \in Rounds
        /\ \A i \in 1..Len(t) : t[i] = zip[i + 1]
  BY <1>0
<1>2. 1 \in 1..Len(zip) /\ \A i \in 1..Len(t) :
        i + 1 \in 1..Len(zip) /\ 1 < i + 1 /\ t[i] = zip[i + 1]
  BY <1>1
<1>3. ASSUME NEW i \in 1..Len(t), NEW j \in 1..Len(t), i < j
      PROVE  Before(t[i], t[j])
  <2>1. i + 1 < j + 1
    BY <1>3
  <2> QED
    BY <1>2, <2>1 DEF Sorted
<1>4. Sorted(t, msgs, S \union {zip[1]})
  BY <1>2, <1>3 DEF Sorted
<1>5. S \subseteq Rounds => zip[1] \notin S
  BY <1>1, <1>2, BeforeOrder DEF Sorted
<1> QED
  BY <1>1, <1>2, <1>4, <1>5

LEMMA SortedGrows ==
  ASSUME NEW zip, NEW msgs \in Seq(Message), NEW S, Sorted(zip, msgs, S),
         NEW m \in Message,
         \A i \in 1..Len(zip) : Before(zip[i], m.round),
         \A i \in 1..Len(msgs) : Before(msgs[i].round, m.round),
         \A s \in S : Before(s, m.round)
  PROVE  Sorted(zip, Append(msgs, m), S)
<1>1. PICK a \in Seq(Message) :
        /\ a = Append(msgs, m) /\ Len(a) = Len(msgs) + 1
        /\ \A i \in 1..Len(msgs) : a[i] = msgs[i]
        /\ a[Len(msgs) + 1] = m
  BY AppendProperties
<1>2. \A i \in 1..Len(a) : \/ i \in 1..Len(msgs) /\ a[i] = msgs[i]
                           \/ i = Len(msgs) + 1 /\ a[i] = m
  BY <1>1
<1>3. ASSUME NEW i \in 1..Len(a), NEW j \in 1..Len(a), i < j
      PROVE  Before(a[i].round, a[j].round)
  <2>1. i \in 1..Len(msgs) /\ a[i] = msgs[i]
    BY <1>1, <1>3
  <2>2. CASE j \in 1..Len(msgs) /\ a[j] = msgs[j]
    BY <1>3, <2>1, <2>2 DEF Sorted
  <2>3. CASE a[j] = m
    BY <2>1, <2>3
  <2> QED
    BY <1>2, <2>2, <2>3
<1>4. Sorted(zip, a, S)
  <2>1. \A i \in 1..Len(zip), j \in 1..Len(a) : Before(zip[i], a[j].round)
    BY <1>2 DEF Sorted
  <2>2. \A s \in S : \A j \in 1..Len(a) : Before(s, a[j].round)
    BY <1>2 DEF Sorted
  <2> QED
    BY <1>3, <2>1, <2>2 DEF Sorted
<1> QED
  BY <1>1, <1>4

LEMMA SpentType == TypeOK => Spent \subseteq Rounds
BY DEF Spent, Carried, Masked, TypeOK

LEMMA SharesInOrder ==
  ASSUME Base, Fresh, InOrder, NEW p \in Proxies, DeliverShare(p)
  PROVE  Fresh' /\ InOrder'
<1> DEFINE h == Head(events[p]).round
           zip == [shareZip EXCEPT ![p] = Append(shareZip[p], h)]
           mask == Head(zip[p])
<1>1. /\ TypeOK /\ shareZip \in [Proxies -> Seq(Rounds)]
      /\ Spent \subseteq Rounds /\ Coming \in [Proxies -> Seq(Message)]
  BY SpentType, ComingType DEF Base, TypeOK
<1>2. /\ Coming[p] # <<>> /\ Head(Coming[p]) = Head(events[p])
      /\ Coming' = [Coming EXCEPT ![p] = Tail(Coming[p])]
  BY <1>1, ComingMoves DEF DeliverShare, afterMessage
<1>3. /\ Coming[p] \in Seq(Message) /\ h = Coming[p][1].round /\ h \in Rounds
      /\ Len(Coming[p]) \in Nat \ {0}
      /\ Len(Tail(Coming[p])) = Len(Coming[p]) - 1
      /\ \A i \in 1..Len(Tail(Coming[p])) :
           Tail(Coming[p])[i] = Coming[p][i + 1]
  <2>1. PICK c \in Seq(Message) : c = Coming[p]
    BY <1>1
  <2>2. /\ Head(c) = c[1] /\ Head(c) \in Message
        /\ Len(c) \in Nat \ {0} /\ Len(Tail(c)) = Len(c) - 1
        /\ \A i \in 1..Len(Tail(c)) : Tail(c)[i] = c[i + 1]
    BY <1>2, <2>1, HeadTailProperties
  <2>3. h = c[1].round /\ h \in Rounds
    BY <1>2, <2>1, <2>2 DEF Message
  <2> HIDE DEF h
  <2> QED
    BY <2>1, <2>2, <2>3
<1> HIDE DEF h
<1>4. /\ zip \in [Proxies -> Seq(Rounds)] /\ zip[p] = Append(shareZip[p], h)
      /\ \A q \in Proxies \ {p} : zip[q] = shareZip[q]
  BY <1>1, <1>3, AppendProperties
<1>5. UNCHANGED <<sends, taken, session, produced>>
  BY DEF DeliverShare, engines
<1> DEFINE Heard(q) == /\ \A i \in 1..Len(zip[q]) : Issued(q, zip[q][i])
                       /\ \A i \in 1..Len(Coming'[q]) :
                            Issued(q, Coming'[q][i].round)
<1>6. ASSUME NEW q \in Proxies
      PROVE  Sorted(zip[q], Coming'[q], Spent) /\ Heard(q)
  <2>1. CASE q # p
    BY <1>1, <1>2, <1>4, <2>1 DEF InOrder, AllIssued
  <2>2. CASE q = p
    <3>1. zip[p] = Append(shareZip[p], Head(Coming[p]).round)
          /\ Coming'[p] = Tail(Coming[p])
      BY <1>1, <1>2, <1>4 DEF h
    <3>2. Sorted(zip[p], Coming'[p], Spent)
      BY <1>1, <1>2, <1>3, <3>1, SortedMoves DEF InOrder
    <3>3. ASSUME NEW i \in 1..Len(zip[p]) PROVE Issued(p, zip[p][i])
      <4>1. CASE i \in 1..Len(shareZip[p])
        <5>1. zip[p][i] = shareZip[p][i]
          BY <1>1, <1>3, <1>4, <4>1, AppendProperties
        <5> QED
          BY <4>1, <5>1 DEF InOrder, AllIssued
      <4>2. CASE i = Len(shareZip[p]) + 1
        <5>1. zip[p][i] = h /\ 1 \in 1..Len(Coming[p])
          BY <1>1, <1>3, <1>4, <4>2, AppendProperties
        <5> QED
          BY <1>3, <5>1 DEF InOrder, AllIssued
      <4>3. Len(zip[p]) = Len(shareZip[p]) + 1
        BY <1>1, <1>3, <1>4, AppendProperties
      <4>4. Len(shareZip[p]) \in Nat
        BY <1>1
      <4> QED
        BY <4>1, <4>2, <4>3, <4>4
    <3>4. ASSUME NEW i \in 1..Len(Tail(Coming[p]))
          PROVE  Issued(p, Tail(Coming[p])[i].round)
      <4>1. i + 1 \in 1..Len(Coming[p])
        BY <1>3
      <4> QED
        BY <1>3, <4>1 DEF InOrder, AllIssued
    <3> QED
      BY <2>2, <3>1, <3>2, <3>3, <3>4
  <2> QED
    BY <2>1, <2>2
<1>7. \A q \in Proxies : \A r : Issued(q, r)' <=> Issued(q, r)
  BY <1>5 DEF Issued
<1>8. CASE \E q \in Proxies : zip[q] = <<>>
  <2>1. /\ shareZip' = zip
        /\ UNCHANGED <<inputs, shareLists, wire, requests, buffered>>
    BY <1>8 DEF DeliverShare, h
  <2>2. Carried' = Carried
    BY <1>5, <2>1, CarriedSame
  <2>3. Fresh' /\ Spent' = Spent
    BY <1>5, <2>1, <2>2 DEF Fresh, Spent
  <2> HIDE DEF zip
  <2>4. InOrder'
    BY <1>6, <1>7, <2>1, <2>3 DEF InOrder, AllIssued
  <2> QED
    BY <2>3, <2>4
<1>9. CASE \A q \in Proxies : zip[q] # <<>>
  <2>1. /\ shareZip' = [q \in Proxies |-> Tail(zip[q])]
        /\ IF \A q \in Proxies : Head(zip[q]) = mask
             THEN ShareList(mask)
             ELSE UNCHANGED <<inputs, shareLists, wire, requests, buffered>>
    BY <1>9 DEF DeliverShare, h
  <2> HIDE DEF zip
  <2>2. ASSUME NEW q \in Proxies
        PROVE  /\ Sorted(Tail(zip[q]), Coming'[q], Spent \union {Head(zip[q])})
               /\ Head(zip[q]) \notin Spent /\ Head(zip[q]) \in Rounds
               /\ Issued(q, Head(zip[q]))
               /\ \A i \in 1..Len(Tail(zip[q])) : Issued(q, Tail(zip[q])[i])
    <3>1. /\ Sorted(Tail(zip[q]), Coming'[q], Spent \union {Head(zip[q])})
          /\ Head(zip[q]) \notin Spent /\ Head(zip[q]) = zip[q][1]
          /\ 1 \in 1..Len(zip[q])
      BY <1>1, <1>4, <1>6, <1>9, SortedTakes
    <3>2. /\ Head(zip[q]) \in Rounds /\ Len(zip[q]) \in Nat \ {0}
          /\ Len(Tail(zip[q])) = Len(zip[q]) - 1
          /\ \A i \in 1..Len(Tail(zip[q])) : Tail(zip[q])[i] = zip[q][i + 1]
      BY <1>4, <1>9, HeadTailProperties
    <3>3. \A i \in 1..Len(zip[q]) : Issued(q, zip[q][i])
      BY <1>6
    <3>4. \A i \in 1..Len(Tail(zip[q])) : i + 1 \in 1..Len(zip[q])
      BY <3>2
    <3> QED
      BY <3>1, <3>2, <3>3, <3>4
  <2>3. CASE \A q \in Proxies : Head(zip[q]) = mask
    <3>1. ShareList(mask) /\ mask \in Rounds /\ mask \notin Spent
      BY <2>1, <2>2, <2>3
    <3> HIDE DEF mask
    <3>2. Fresh' /\ Spent' \subseteq Spent \union {mask}
      BY <1>5, <3>1, ShareListFresh
    <3>3. ASSUME NEW q \in Proxies
          PROVE  Sorted(shareZip'[q], Coming'[q], Spent') /\ AllIssued(q)'
      <4>1. Sorted(Tail(zip[q]), Coming'[q], Spent \union {mask})
            /\ shareZip'[q] = Tail(zip[q])
        BY <2>1, <2>2, <2>3
      <4>2. Sorted(shareZip'[q], Coming'[q], Spent')
        BY <3>2, <4>1 DEF Sorted
      <4>3. \A s \in Spent' : Issued(q, s)
        BY <2>2, <2>3, <3>2 DEF InOrder, AllIssued
      <4> QED
        BY <1>6, <1>7, <2>2, <4>1, <4>2, <4>3 DEF AllIssued
    <3> QED
      BY <3>2, <3>3 DEF InOrder
  <2>4. CASE ~(\A q \in Proxies : Head(zip[q]) = mask)
    <3>1. UNCHANGED <<inputs, shareLists, wire, requests, buffered>>
      BY <2>1, <2>4
    <3>2. Carried' = Carried
      BY <1>5, <3>1, CarriedSame
    <3>3. Fresh' /\ Spent' = Spent
      BY <1>5, <3>1, <3>2 DEF Fresh, Spent
    <3>4. ASSUME NEW q \in Proxies
          PROVE  Sorted(shareZip'[q], Coming'[q], Spent') /\ AllIssued(q)'
      <4>1. Sorted(Tail(zip[q]), Coming'[q], Spent \union {Head(zip[q])})
            /\ shareZip'[q] = Tail(zip[q])
        BY <2>1, <2>2
      <4>2. Sorted(shareZip'[q], Coming'[q], Spent')
        BY <3>3, <4>1 DEF Sorted
      <4>3. \A s \in Spent' : Issued(q, s)
        BY <3>3 DEF InOrder, AllIssued
      <4> QED
        BY <1>6, <1>7, <2>2, <4>1, <4>2, <4>3 DEF AllIssued
    <3> QED
      BY <3>3, <3>4 DEF InOrder
  <2> QED
    BY <2>3, <2>4
<1> QED
  BY <1>8, <1>9

\* What an engine has issued is behind whatever it issues next
LEMMA OrderKept ==
  ASSUME TypeOK, InOrder, Spent' \subseteq Spent, shareZip' = shareZip,
         Coming' = Coming,
         \A q \in Proxies : \A r \in Rounds : Issued(q, r) => Issued(q, r)'
  PROVE  InOrder'
<1>1. ASSUME NEW q \in Proxies
      PROVE  Sorted(shareZip'[q], Coming'[q], Spent') /\ AllIssued(q)'
  <2>1. Sorted(shareZip[q], Coming[q], Spent) /\ AllIssued(q)
    BY DEF InOrder
  <2>2. Sorted(shareZip[q], Coming[q], Spent')
    BY <2>1 DEF Sorted
  <2>3. /\ Spent \subseteq Rounds
        /\ \A i \in 1..Len(shareZip[q]) : shareZip[q][i] \in Rounds
        /\ \A i \in 1..Len(Coming[q]) : Coming[q][i].round \in Rounds
    <3>1. shareZip[q] \in Seq(Rounds)
      BY DEF TypeOK
    <3> QED
      BY <3>1, SpentType, ComingType
  <2>4. AllIssued(q)'
    BY <2>1, <2>3 DEF AllIssued
  <2> QED
    BY <2>2, <2>4
<1> QED
  BY <1>1 DEF InOrder

LEMMA FreshKept ==
  ASSUME Fresh, Carried' \subseteq Carried,
         UNCHANGED <<sends, inputs, shareLists>>
  PROVE  Fresh' /\ Spent' \subseteq Spent
BY DEF Fresh, Spent

LEMMA IssuedKept ==
  ASSUME session' = session, produced' = produced
  PROVE  \A q \in Proxies : \A r \in Rounds : Issued(q, r) => Issued(q, r)'
BY DEF Issued

\* An engine issues its rounds in their order
LEMMA IssuesInOrder ==
  ASSUME Base, Fresh, InOrder, NEW p \in Proxies, EngineShares(p)
  PROVE  Fresh' /\ InOrder'
<1>0. PICK r, m : /\ r = <<session[p], produced[p] + 1>>
                  /\ m = [eventType |-> SPDZ_MESSAGE, round |-> r]
  OBVIOUS
<1>1. /\ TypeOK /\ shareZip \in [Proxies -> Seq(Rounds)]
      /\ session \in [Proxies -> Nat] /\ produced \in [Proxies -> 0..MaxRounds]
      /\ Spent \subseteq Rounds /\ Coming \in [Proxies -> Seq(Message)]
      /\ \A q \in Proxies : \A i \in 1..Len(Coming[q]) :
           Coming[q][i].round \in Rounds
  BY SpentType, ComingType DEF Base, TypeOK
<1>2. /\ produced[p] + 1 \in 1..MaxRounds /\ produced[p] \in Nat
      /\ session[p] \in Nat
  BY <1>1, SendsAssumption DEF EngineShares
<1>3. r \in Rounds /\ m \in Message /\ m.round = r
  BY <1>0, <1>2 DEF Rounds, Message
<1>4. events' = [events EXCEPT ![p] = Append(events[p], m)]
  BY <1>0 DEF EngineShares
<1>5. Coming' = [Coming EXCEPT ![p] = Append(Coming[p], m)]
  BY <1>1, <1>3, <1>4, ComingMoves
<1>6. /\ UNCHANGED <<session, sends, inputs, shareLists, shareZip>>
      /\ produced' = [produced EXCEPT ![p] = produced[p] + 1]
      /\ Carried' = Carried
  BY CarriedSame DEF EngineShares, pairing
<1>7. Fresh' /\ Spent' = Spent
  BY <1>6 DEF Fresh, Spent
<1>8. \A a \in Rounds : Issued(p, a) => Before(a, r)
  <2> SUFFICES ASSUME NEW a \in Rounds, Issued(p, a) PROVE Before(a, r)
    OBVIOUS
  <2>1. a[1] \in Nat /\ a[2] \in Nat
    BY BeforeOrder
  <2> QED
    BY <1>0, <1>2, <2>1 DEF Issued, Before
<1>9. /\ \A q \in Proxies : \A a \in Rounds : Issued(q, a) => Issued(q, a)'
      /\ Issued(p, r)'
  <2>1. ASSUME NEW q \in Proxies, NEW a \in Rounds, Issued(q, a)
        PROVE  Issued(q, a)'
    <3>1. a[2] \in Nat /\ produced[q] \in Nat
          /\ session'[q] = session[q]
          /\ produced'[q] \in {produced[q], produced[q] + 1}
      BY <1>1, <1>6, BeforeOrder, SendsAssumption
    <3>2. a[2] <= produced[q] => a[2] <= produced'[q]
      BY <3>1
    <3> QED
      BY <2>1, <3>1, <3>2 DEF Issued
  <2>2. session'[p] = session[p] /\ produced'[p] = produced[p] + 1
    BY <1>1, <1>6
  <2>3. Issued(p, r)'
    BY <1>0, <1>2, <2>2 DEF Issued
  <2> QED
    BY <2>1, <2>3
<1>10. ASSUME NEW q \in Proxies
       PROVE  Sorted(shareZip'[q], Coming'[q], Spent') /\ AllIssued(q)'
  <2>1. /\ Sorted(shareZip[q], Coming[q], Spent) /\ AllIssued(q)
        /\ Coming[q] \in Seq(Message) /\ shareZip[q] \in Seq(Rounds)
        /\ shareZip' = shareZip
        /\ \A i \in 1..Len(shareZip[q]) : shareZip[q][i] \in Rounds
    BY <1>1, <1>6 DEF InOrder
  <2>2. CASE q # p
    <3>1. Coming'[q] = Coming[q]
      BY <1>1, <1>5, <2>2
    <3>2. AllIssued(q)'
      BY <1>1, <1>7, <1>9, <2>1, <3>1 DEF AllIssued
    <3> QED
      BY <1>7, <2>1, <3>1, <3>2
  <2>3. CASE q = p
    <3>1. Coming'[q] = Append(Coming[q], m)
      BY <1>1, <1>5, <2>3
    <3>2. Sorted(shareZip[q], Append(Coming[q], m), Spent)
      <4>1. /\ \A i \in 1..Len(shareZip[q]) : Before(shareZip[q][i], m.round)
            /\ \A i \in 1..Len(Coming[q]) : Before(Coming[q][i].round, m.round)
            /\ \A s \in Spent : Before(s, m.round)
        BY <1>1, <1>3, <1>8, <2>1, <2>3 DEF AllIssued
      <4> QED
        BY <1>3, <2>1, <4>1, SortedGrows
    <3>3. ASSUME NEW i \in 1..Len(Coming'[q])
          PROVE  Issued(q, Coming[q][i].round)'
      <4>1. /\ Len(Coming'[q]) = Len(Coming[q]) + 1
            /\ \A j \in 1..Len(Coming[q]) : Coming'[q][j] = Coming[q][j]
            /\ Coming'[q][Len(Coming[q]) + 1] = m
            /\ Len(Coming[q]) \in Nat
        BY <1>3, <2>1, <3>1, AppendProperties
      <4>2. CASE i \in 1..Len(Coming[q])
        BY <1>1, <1>9, <2>1, <4>1, <4>2 DEF AllIssued
      <4>3. CASE i = Len(Coming[q]) + 1
        BY <1>3, <1>9, <2>3, <4>1, <4>3
      <4> QED
        BY <4>1, <4>2, <4>3
    <3>4. AllIssued(q)'
      BY <1>1, <1>7, <1>9, <2>1, <3>3 DEF AllIssued
    <3> QED
      BY <1>7, <2>1, <3>1, <3>2, <3>4
  <2> QED
    BY <2>2, <2>3
<1> QED
  BY <1>7, <1>10 DEF InOrder

\* A new session begins behind all that was issued in those before
LEMMA SessionsInOrder ==
  ASSUME Base, Fresh, InOrder, NEW p \in Proxies,
         HandleConnect(p) \/ LinkChanges(p)
  PROVE  Fresh' /\ InOrder'
<1>1. TypeOK
  BY DEF Base
<1>2. Coming' = Coming
  <2>1. /\ \A t \in Client!EventType, s \in BOOLEAN :
             Client!Report(p, t, s) => Coming' = Coming
        /\ UNCHANGED events => Coming' = Coming
    BY <1>1, ComingMoves
  <2>2. /\ Client!PROXY_CONNECT \in Client!EventType
        /\ Client!SPDZ_CONNECT \in Client!EventType
    BY OwnQueues
  <2> QED
    BY <2>1, <2>2
    DEF HandleConnect, LinkChanges, Client!EngineAccepts,
        Client!EngineRefuses, Client!EngineLeaves, Client!EngineCloses,
        Client!WebConnect, Client!WebConnectFails
<1>3. UNCHANGED pairing /\ taken' = taken
  BY DEF HandleConnect, LinkChanges, engines
<1>4. Fresh' /\ Spent' \subseteq Spent
  BY <1>3, CarriedSame, FreshKept DEF pairing
<1>5. ASSUME NEW q \in Proxies, NEW r \in Rounds, Issued(q, r)
      PROVE  Issued(q, r)'
  <2>1. CASE LinkChanges(p)
    BY <1>5, <2>1 DEF LinkChanges, engines, Issued
  <2>2. CASE HandleConnect(p) /\ q # p
    BY <1>1, <1>5, <2>2 DEF HandleConnect, TypeOK, Issued
  <2>3. CASE HandleConnect(p) /\ q = p
    <3>1. session'[q] = session[q] + 1 /\ session[q] \in Nat
      BY <1>1, <2>3 DEF HandleConnect, TypeOK
    <3>2. r[1] \in Nat /\ r[1] <= session[q]
      BY <1>5, <3>1, BeforeOrder DEF Issued
    <3> QED
      BY <3>1, <3>2 DEF Issued
  <2> QED
    BY <2>1, <2>2, <2>3
<1> QED
  BY <1>1, <1>2, <1>3, <1>4, <1>5, OrderKept DEF pairing

LEMMA NextInOrder ==
  Base /\ Fresh /\ InOrder /\ [Next]_vars => Fresh' /\ InOrder'
<1> SUFFICES ASSUME Base, Fresh, InOrder, [Next]_vars PROVE Fresh' /\ InOrder'
  OBVIOUS
<1>1. TypeOK
  BY DEF Base
<1>2. ASSUME UNCHANGED <<session, produced, shareZip>>, Coming' = Coming,
             Spent' \subseteq Spent
      PROVE  InOrder'
  BY <1>1, <1>2, IssuedKept, OrderKept
<1>3. ASSUME NEW c \in Calls, CallConnect(c) \/ CallOther(c)
      PROVE  Fresh' /\ InOrder'
  <2>1. UNCHANGED <<pairing, engines, events>>
    BY <1>3 DEF CallConnect, CallOther, Client!CallConnect,
      Client!CallDisconnect, Client!CallParty, Client!CallProxies,
      Client!Timeout
  <2>2. Fresh' /\ Spent' \subseteq Spent /\ Coming' = Coming
    BY <2>1, CarriedSame, FreshKept DEF pairing, engines, Coming
  <2> QED
    BY <1>2, <2>1, <2>2 DEF pairing, engines
<1>4. CASE SendSecret
  <2>1. Fresh' /\ Spent' \subseteq Spent
    BY <1>4, SendFresh
  <2>2. UNCHANGED <<events, shareZip, session, produced>>
    BY <1>4 DEF SendSecret, engines
  <2>3. Coming' = Coming
    BY <2>2 DEF Coming
  <2> QED
    BY <1>2, <2>1, <2>2, <2>3
<1>5. ASSUME NEW p \in Proxies, DeliverConnection(p)
      PROVE  Fresh' /\ InOrder'
  <2>1. /\ UNCHANGED <<pairing, engines>> /\ events[p] # <<>>
        /\ Head(events[p]).eventType \in Client!EventType
        /\ events' = [events EXCEPT ![p] = Tail(events[p])]
    BY <1>5 DEF DeliverConnection, Client!Deliver
  <2>2. Head(events[p]).eventType # SPDZ_MESSAGE
    BY <2>1 DEF Client!EventType, Client!PROXY_CONNECT, Client!SPDZ_CONNECT,
      SPDZ_MESSAGE
  <2>3. Coming' = Coming
    BY <1>1, <2>1, <2>2, ComingMoves
  <2>4. Fresh' /\ Spent' \subseteq Spent
    BY <2>1, CarriedSame, FreshKept DEF pairing, engines
  <2> QED
    BY <1>2, <2>1, <2>3, <2>4 DEF pairing, engines
<1>6. ASSUME NEW p \in Proxies, HandleSend(p)
      PROVE  Fresh' /\ InOrder'
  <2>1. UNCHANGED <<events, sends, inputs, shareLists, shareZip, session,
                    produced>>
    BY <1>6 DEF HandleSend
  <2>2. Fresh' /\ Spent' \subseteq Spent
    BY <1>6, <2>1, HandleCarries, FreshKept
  <2>3. Coming' = Coming
    BY <2>1 DEF Coming
  <2> QED
    BY <1>2, <2>1, <2>2, <2>3
<1>7. ASSUME UNCHANGED vars PROVE Fresh' /\ InOrder'
  <2>1. UNCHANGED <<pairing, engines, events>>
    BY <1>7 DEF vars, connection
  <2>2. Fresh' /\ Spent' \subseteq Spent /\ Coming' = Coming
    BY <2>1, CarriedSame, FreshKept DEF pairing, engines, Coming
  <2> QED
    BY <1>2, <2>1, <2>2 DEF pairing, engines
<1> QED
  BY <1>3, <1>4, <1>5, <1>6, <1>7, SharesInOrder, IssuesInOrder,
     SessionsInOrder
  DEF Next

LEMMA InitInOrder == Init => Fresh /\ InOrder
<1> SUFFICES ASSUME Init PROVE Fresh /\ InOrder
  OBVIOUS
<1>1. /\ inputs = <<>> /\ shareLists = <<>>
      /\ wire = [p \in Proxies |-> <<>>] /\ taken = [p \in Proxies |-> <<>>]
      /\ shareZip = [p \in Proxies |-> <<>>]
      /\ events = [p \in Proxies |-> <<>>]
      /\ Len(<<>>) = 0 /\ 1..0 = {}
  BY EmptySeq DEF Init, Client!Init
<1>2. Carried = {} /\ Spent = {}
  BY <1>1 DEF Carried, Spent
<1>3. \A p \in Proxies : Coming[p] = <<>>
  BY <1>1, WithinFew DEF Coming
<1>4. Fresh
  BY <1>1, <1>2 DEF Fresh
<1>5. InOrder
  BY <1>1, <1>2, <1>3 DEF InOrder, Sorted, AllIssued
<1> QED
  BY <1>4, <1>5

\* No two inputs carry the same round to an engine and none carries two,
\* whatever sessions of the engines come and go (transform.js 213-245): the
\* rounds reach every queue in the order in which their engine sent them, so
\* that a joined share list is never one that was joined before.
THEOREM MasksAreFresh == Spec => []MasksOnce
<1>1. Base /\ Fresh => MasksOnce
  <2> SUFFICES ASSUME Base, Fresh,
                      NEW p \in Proxies, NEW q \in Proxies,
                      NEW i \in 1..Len(taken[p]), NEW j \in 1..Len(taken[q])
               PROVE  (taken[p][i].send = taken[q][j].send)
                        <=> (taken[p][i].mask = taken[q][j].mask)
    BY DEF MasksOnce
  <2>1. taken[p][i] \in Taken /\ taken[q][j] \in Taken
    <3>1. taken[p] \in Seq(Taken) /\ taken[q] \in Seq(Taken)
      BY DEF Base, TypeOK
    <3> QED
      BY <3>1
  <2>2. \A x \in Taken : /\ [send |-> x.send, mask |-> x.mask] \in Masked
    BY DEF Taken, Masked
  <2>3. PICK a \in Masked, b \in Masked :
          /\ a = [send |-> taken[p][i].send, mask |-> taken[p][i].mask]
          /\ b = [send |-> taken[q][j].send, mask |-> taken[q][j].mask]
    BY <2>1, <2>2
  <2>4. a \in Carried /\ b \in Carried
    BY <2>3 DEF Carried
  <2> QED
    BY <2>3, <2>4 DEF Fresh
<1>2. Spec => [](Base /\ Fresh /\ InOrder)
  BY InitBase, NextBase, InitInOrder, NextInOrder, PTL DEF Spec
<1> QED
  BY <1>1, <1>2, PTL

-----------------------------------------------------------------------------
(* Engines take the same.                                                  *)

\* What an engine knows of its client
Now(p) ==
  [linked |-> IF p \in link[Client!SPDZ_CONNECT] THEN "yes" ELSE "no",
   session |-> session[p], taken |-> taken[p]]

\* What it knows once request r is handled, with the input m if r carries one
After(s, r, m) ==
  [linked |-> IF r = "connectToSpdz" THEN "yes"
              ELSE IF r = "disconnectFromSpdz" THEN "no" ELSE s.linked,
   session |-> IF r = "connectToSpdz" THEN s.session + 1 ELSE s.session,
   taken |-> IF r = "sendData" /\ s.linked = "yes"
               THEN Append(s.taken,
                      [send |-> m.send, mask |-> m.mask, session |-> s.session,
                       nth |-> Cardinality({i \in 1..Len(s.taken) :
                                 s.taken[i].session = s.session}) + 1])
               ELSE s.taken]

\* A queue is what follows the first a of the n elements of h
Segment(q, n, a, h) ==
  /\ a <= n /\ Len(q) = n - a
  /\ \A i \in 1..Len(q) : q[i] = h[a + i]

\* The n requests so far: h[i] is the i-th, the inputs W are those of the
\* sends, C[i] of them among the first i requests, and S[i] is what an engine
\* knows when it has handled i requests, k[p] of them in the case of p
History(n, h, W, C, S, k) ==
  /\ n \in Nat /\ C \in [Nat -> Nat] /\ k \in [Proxies -> Nat]
  /\ \A i \in Nat : i < n =>
       /\ S[i + 1] = After(S[i], h[i + 1], W[C[i] + 1])
       /\ C[i + 1] = IF h[i + 1] = "sendData" THEN C[i] + 1 ELSE C[i]
  /\ \A i \in Nat : i <= n => C[i] <= C[n]
  /\ \A p \in Proxies : /\ Segment(requests[p], n, k[p], h)
                        /\ Segment(wire[p], C[n], C[k[p]], W)
                        /\ Now(p) = S[k[p]]

Alike == \E n, h, W, C, S, k : History(n, h, W, C, S, k)

\* A request to all, which carries x if it is a send
AskAll(r, x) ==
  /\ requests' = [p \in Proxies |-> Append(requests[p], r)]
  /\ wire' = IF r = "sendData" THEN [p \in Proxies |-> Append(wire[p], x)]
             ELSE wire
  /\ \A p \in Proxies : Now(p)' = Now(p)

\* Proxy p handles request r
Answer(p, r) ==
  /\ requests[p] # <<>> /\ r = Head(requests[p])
  /\ requests' = [requests EXCEPT ![p] = Tail(requests[p])]
  /\ r = "sendData" => wire[p] # <<>>
  /\ wire' = IF r = "sendData" THEN [wire EXCEPT ![p] = Tail(wire[p])]
             ELSE wire
  /\ Now(p)' = After(Now(p), r, Head(wire[p]))
  /\ \A q \in Proxies \ {p} : Now(q)' = Now(q)

LEMMA SegmentSame ==
  ASSUME NEW T, NEW q \in Seq(T), NEW n \in Nat, NEW a \in Nat,
         NEW h, NEW g, Segment(q, n, a, h),
         \A i \in Nat : i <= n => g[i] = h[i]
  PROVE  Segment(q, n, a, g)
<1>1. a <= n /\ Len(q) = n - a /\ \A i \in 1..Len(q) : q[i] = h[a + i]
  BY DEF Segment
<1>2. PICK l \in Nat : l = Len(q)
  OBVIOUS
<1>3. \A i \in 1..l : q[i] = g[a + i]
  <2> SUFFICES ASSUME NEW i \in 1..l PROVE q[i] = g[a + i]
    OBVIOUS
  <2>1. a + i \in Nat /\ a + i <= n
    BY <1>1, <1>2
  <2> QED
    BY <1>1, <1>2, <2>1
<1> QED
  BY <1>1, <1>2, <1>3 DEF Segment

LEMMA SegmentGrows ==
  ASSUME NEW T, NEW q \in Seq(T), NEW x \in T, NEW n \in Nat, NEW a \in Nat,
         NEW h, NEW g, Segment(q, n, a, h),
         \A i \in Nat : i <= n => g[i] = h[i], g[n + 1] = x
  PROVE  Segment(Append(q, x), n + 1, a, g)
<1>0. Segment(q, n, a, g)
  BY SegmentSame
<1>1. /\ a <= n /\ Len(q) = n - a
      /\ \A i \in 1..Len(q) : q[i] = g[a + i]
  BY <1>0 DEF Segment
<1>2. PICK l \in Nat, s \in Seq(T) : l = Len(q) /\ s = Append(q, x)
  <2>1. Len(q) \in Nat /\ Append(q, x) \in Seq(T)
    BY AppendProperties
  <2> QED
    BY <2>1
<1>3. /\ Len(s) = l + 1 /\ s[l + 1] = x
      /\ \A i \in 1..l : s[i] = q[i]
  BY <1>2, AppendProperties
<1>4. a + (l + 1) = n + 1 /\ l + 1 = (n + 1) - a /\ a <= n + 1
  BY <1>1, <1>2
<1>5. \A i \in 1..(l + 1) : s[i] = g[a + i]
  <2> SUFFICES ASSUME NEW i \in 1..(l + 1) PROVE s[i] = g[a + i]
    OBVIOUS
  <2>1. i \in 1..l \/ i = l + 1
    OBVIOUS
  <2> QED
    BY <1>1, <1>2, <1>3, <1>4, <2>1
<1> QED
  BY <1>2, <1>3, <1>4, <1>5 DEF Segment

LEMMA SegmentShrinks ==
  ASSUME NEW T, NEW q \in Seq(T), q # <<>>, NEW n \in Nat, NEW a \in Nat,
         NEW h, Segment(q, n, a, h)
  PROVE  /\ a < n /\ Head(q) = h[a + 1]
         /\ Segment(Tail(q), n, a + 1, h)
<1>1. a <= n /\ Len(q) = n - a /\ \A i \in 1..Len(q) : q[i] = h[a + i]
  BY DEF Segment
<1>2. /\ Head(q) = q[1] /\ Tail(q) \in Seq(T)
      /\ Len(q) \in Nat \ {0} /\ Len(Tail(q)) = Len(q) - 1
      /\ \A i \in 1..Len(Tail(q)) : Tail(q)[i] = q[i + 1]
  BY HeadTailProperties
<1>3. PICK l \in Nat, s \in Seq(T) : Len(q) = l + 1 /\ s = Tail(q)
                                     /\ Len(s) = l
  <2>1. Len(q) - 1 \in Nat /\ Len(q) = (Len(q) - 1) + 1
    BY <1>2
  <2> QED
    BY <1>2, <2>1
<1>4. a < n /\ a + 1 <= n /\ l = n - (a + 1) /\ 1 \in 1..(l + 1)
  BY <1>1, <1>3
<1>5. \A i \in 1..l : s[i] = h[(a + 1) + i]
  <2> SUFFICES ASSUME NEW i \in 1..l PROVE s[i] = h[(a + 1) + i]
    OBVIOUS
  <2>1. i + 1 \in 1..(l + 1) /\ a + (i + 1) = (a + 1) + i
    OBVIOUS
  <2> QED
    BY <1>1, <1>2, <1>3, <2>1
<1> QED
  BY <1>1, <1>2, <1>3, <1>4, <1>5 DEF Segment

LEMMA AskedAlike ==
  ASSUME TypeOK, Alike, NEW r \in Request, NEW x, AskAll(r, x),
         r = "sendData" => x \in Masked
  PROVE  Alike'
<1>1. PICK n, h, W, C, S, k : History(n, h, W, C, S, k)
  BY DEF Alike
<1>2. /\ n \in Nat /\ C \in [Nat -> Nat] /\ k \in [Proxies -> Nat]
      /\ requests \in [Proxies -> Seq(Request)]
      /\ wire \in [Proxies -> Seq(Masked)]
      /\ \A i \in Nat : C[i] \in Nat
      /\ \A i \in Nat : i <= n => C[i] <= C[n]
  BY <1>1 DEF History, TypeOK
<1>3. PICK d \in Nat : /\ d = IF r = "sendData" THEN C[n] + 1 ELSE C[n]
                       /\ C[n] <= d
  BY <1>2
<1>4. PICK h2 : h2 = [i \in Nat |-> IF i = n + 1 THEN r ELSE h[i]]
  OBVIOUS
<1>5. PICK W2 : W2 = [i \in Nat |-> IF i = C[n] + 1 THEN x ELSE W[i]]
  OBVIOUS
<1>6. PICK C2 : C2 = [i \in Nat |-> IF i = n + 1 THEN d ELSE C[i]]
  OBVIOUS
<1>7. PICK S2 : S2 = [i \in Nat |-> IF i = n + 1
                                    THEN After(S[n], r, x) ELSE S[i]]
  OBVIOUS
<1>8. /\ \A i \in Nat : i <= n => h2[i] = h[i] /\ C2[i] = C[i]
                                  /\ S2[i] = S[i]
      /\ h2[n + 1] = r /\ C2[n + 1] = d /\ S2[n + 1] = After(S[n], r, x)
  BY <1>2, <1>4, <1>6, <1>7
<1>9. /\ \A i \in Nat : i <= C[n] => W2[i] = W[i]
      /\ W2[C[n] + 1] = x
  <2>1. PICK c \in Nat : c = C[n]
    BY <1>2
  <2> QED
    BY <1>5, <2>1
<1>10. ASSUME NEW i \in Nat, i < n + 1
       PROVE  /\ S2[i + 1] = After(S2[i], h2[i + 1], W2[C2[i] + 1])
              /\ C2[i + 1] = IF h2[i + 1] = "sendData" THEN C2[i] + 1
                             ELSE C2[i]
  <2>1. CASE i = n
    <3>1. S2[n] = S[n] /\ C2[n] = C[n] /\ n \in Nat
      <4>1. n \in Nat /\ n <= n
        BY <1>2
      <4> QED
        BY <1>8, <4>1, Zenon
    <3> QED
      BY <1>3, <1>8, <1>9, <2>1, <3>1
  <2>2. CASE i # n
    <3>1. i < n /\ i + 1 \in Nat /\ i + 1 <= n /\ i <= n
      BY <1>2, <1>10, <2>2
    <3>2. C[i + 1] <= C[n] /\ C[i] \in Nat
      BY <1>2, <3>1
    <3>3. /\ S[i + 1] = After(S[i], h[i + 1], W[C[i] + 1])
          /\ C[i + 1] = IF h[i + 1] = "sendData" THEN C[i] + 1 ELSE C[i]
      BY <1>1, <3>1 DEF History
    <3>4. /\ S2[i + 1] = S[i + 1] /\ S2[i] = S[i] /\ h2[i + 1] = h[i + 1]
          /\ C2[i] = C[i] /\ C2[i + 1] = C[i + 1]
      BY <1>8, <3>1
    <3>5. CASE h[i + 1] = "sendData"
      <4>1. C[i] + 1 <= C[n] /\ C[i] + 1 \in Nat
        BY <3>2, <3>3, <3>5
      <4>2. W2[C[i] + 1] = W[C[i] + 1]
        BY <1>9, <4>1
      <4> QED
        BY <3>3, <3>4, <4>2
    <3>6. CASE h[i + 1] # "sendData"
      <4>1. \A m, l : After(S[i], h[i + 1], m) = After(S[i], h[i + 1], l)
        BY <3>6 DEF After
      <4> QED
        BY <3>3, <3>4, <3>6, <4>1
    <3> QED
      BY <3>5, <3>6
  <2> QED
    BY <2>1, <2>2
<1>11. \A i \in Nat : i <= n + 1 => C2[i] <= C2[n + 1]
  <2> SUFFICES ASSUME NEW i \in Nat, i <= n + 1 PROVE C2[i] <= C2[n + 1]
    OBVIOUS
  <2>1. i <= n \/ i = n + 1
    BY <1>2
  <2>2. i <= n => C[i] <= d
    <3>1. C[i] \in Nat /\ C[n] \in Nat
      BY <1>2
    <3> QED
      BY <1>2, <1>3, <3>1
  <2> QED
    BY <1>3, <1>8, <2>1, <2>2
<1>12. ASSUME NEW p \in Proxies
       PROVE  /\ Segment(requests'[p], n + 1, k[p], h2)
              /\ Segment(wire'[p], C2[n + 1], C2[k[p]], W2)
              /\ Now(p)' = S2[k[p]]
  <2>1. /\ Segment(requests[p], n, k[p], h)
        /\ Segment(wire[p], C[n], C[k[p]], W)
        /\ Now(p) = S[k[p]] /\ k[p] \in Nat
    BY <1>1 DEF History
  <2>2. /\ k[p] <= n /\ C[k[p]] \in Nat /\ C[n] \in Nat
    BY <1>2, <2>1 DEF Segment
  <2>3. PICK a \in Nat, b \in Nat, c \in Nat :
          a = k[p] /\ b = C[a] /\ c = C[n] /\ a <= n
    BY <2>1, <2>2
  <2>4. PICK q \in Seq(Request), w \in Seq(Masked) :
          q = requests[p] /\ w = wire[p]
    BY <1>2
  <2>5. Segment(q, n, a, h) /\ Segment(w, c, b, W)
    BY <2>1, <2>3, <2>4
  <2>6. Segment(Append(q, r), n + 1, a, h2)
    <3>1. /\ \A i \in Nat : i <= n => h2[i] = h[i]
          /\ h2[n + 1] = r /\ n \in Nat
      BY <1>2, <1>8
    <3>2. Segment(q, n, a, h)
      BY <2>5
    <3> QED
      BY <3>1, <3>2, SegmentGrows
  <2>7. requests'[p] = Append(q, r)
    BY <2>4 DEF AskAll
  <2>8. Now(p)' = S2[a] /\ C2[a] = b
    BY <1>8, <2>1, <2>3 DEF AskAll
  <2>9. Segment(wire'[p], d, b, W2)
    <3>1. CASE r = "sendData"
      <4>1. wire'[p] = Append(w, x) /\ d = c + 1 /\ x \in Masked
        BY <1>3, <2>3, <2>4, <3>1 DEF AskAll
      <4>2. Segment(Append(w, x), c + 1, b, W2)
        BY <1>9, <2>3, <2>5, <4>1, SegmentGrows
      <4> QED
        BY <4>1, <4>2
    <3>2. CASE r # "sendData"
      <4>1. wire'[p] = w /\ d = c
        BY <1>3, <2>3, <2>4, <3>2 DEF AskAll
      <4>2. Segment(w, c, b, W2)
        BY <1>9, <2>3, <2>5, SegmentSame
      <4> QED
        BY <4>1, <4>2
    <3> QED
      BY <3>1, <3>2
  <2> QED
    BY <1>8, <2>3, <2>6, <2>7, <2>8, <2>9
<1>13. n + 1 \in Nat /\ C2 \in [Nat -> Nat]
  BY SMTT(30), <1>2, <1>3, <1>6
<1>14. History(n + 1, h2, W2, C2, S2, k)'
  BY <1>2, <1>10, <1>11, <1>12, <1>13 DEF History
<1> QED
  BY <1>14 DEF Alike

LEMMA AnsweredAlike ==
  ASSUME TypeOK, Alike, NEW p \in Proxies, NEW r, Answer(p, r)
  PROVE  Alike'
<1>1. PICK n, h, W, C, S, k : History(n, h, W, C, S, k)
  BY DEF Alike
<1>2. /\ n \in Nat /\ C \in [Nat -> Nat] /\ k \in [Proxies -> Nat]
      /\ requests \in [Proxies -> Seq(Request)]
      /\ wire \in [Proxies -> Seq(Masked)]
      /\ \A i \in Nat : C[i] \in Nat
  BY <1>1 DEF History, TypeOK
<1>3. PICK a \in Nat, b \in Nat, c \in Nat :
        /\ a = k[p] /\ b = C[a] /\ c = C[n]
        /\ Segment(requests[p], n, a, h) /\ Segment(wire[p], c, b, W)
        /\ Now(p) = S[a]
  BY <1>1, <1>2 DEF History
<1>4. PICK q \in Seq(Request), w \in Seq(Masked) :
        q = requests[p] /\ w = wire[p] /\ q # <<>>
  BY <1>2 DEF Answer
<1>5. /\ a < n /\ r = h[a + 1] /\ Segment(Tail(q), n, a + 1, h)
      /\ requests'[p] = Tail(q)
  <2>1. n \in Nat /\ Segment(q, n, a, h)
    BY <1>2, <1>3, <1>4
  <2>2. a < n /\ Head(q) = h[a + 1] /\ Segment(Tail(q), n, a + 1, h)
    BY <1>4, <2>1, SegmentShrinks
  <2> QED
    BY <1>2, <1>4, <2>2 DEF Answer
<1>6. /\ S[a + 1] = After(S[a], r, W[b + 1])
      /\ C[a + 1] = IF r = "sendData" THEN b + 1 ELSE b
  BY <1>1, <1>3, <1>5 DEF History
<1>7. PICK k2 : k2 = [k EXCEPT ![p] = a + 1]
  OBVIOUS
<1>8. /\ k2 \in [Proxies -> Nat] /\ k2[p] = a + 1
      /\ \A o \in Proxies \ {p} : k2[o] = k[o]
  BY <1>2, <1>7
<1>9. Segment(wire'[p], c, C[a + 1], W) /\ Now(p)' = S[a + 1]
  <2>1. Now(p)' = After(S[a], r, Head(w))
    BY <1>3, <1>4 DEF Answer
  <2>2. CASE r = "sendData"
    <3>1. w # <<>> /\ wire'[p] = Tail(w)
      BY <1>2, <1>4, <2>2 DEF Answer
    <3>2. Head(w) = W[b + 1] /\ Segment(Tail(w), c, b + 1, W)
      BY <1>3, <1>4, <3>1, SegmentShrinks
    <3> QED
      BY <1>6, <2>1, <2>2, <3>1, <3>2
  <2>3. CASE r # "sendData"
    <3>1. \A m, l : After(S[a], r, m) = After(S[a], r, l)
      BY <2>3 DEF After
    <3>2. wire' = wire
      BY <2>3 DEF Answer
    <3> QED
      BY <1>3, <1>6, <2>1, <2>3, <3>1, <3>2
  <2> QED
    BY <2>2, <2>3
<1>10. ASSUME NEW o \in Proxies
       PROVE  /\ Segment(requests'[o], n, k2[o], h)
              /\ Segment(wire'[o], C[n], C[k2[o]], W)
              /\ Now(o)' = S[k2[o]]
  <2>1. CASE o # p
    <3>1. /\ requests'[o] = requests[o] /\ wire'[o] = wire[o]
          /\ Now(o)' = Now(o) /\ k2[o] = k[o]
      BY <1>2, <1>8, <2>1 DEF Answer
    <3>2. /\ Segment(requests[o], n, k[o], h)
          /\ Segment(wire[o], C[n], C[k[o]], W)
          /\ Now(o) = S[k[o]]
      BY <1>1 DEF History
    <3> QED
      BY <3>1, <3>2
  <2>2. CASE o = p
    BY <1>3, <1>5, <1>8, <1>9, <2>2
  <2> QED
    BY <2>1, <2>2
<1>11. History(n, h, W, C, S, k2)'
  BY <1>1, <1>8, <1>10 DEF History
<1> QED
  BY <1>11 DEF Alike

LEMMA UnaskedAlike ==
  ASSUME Alike, UNCHANGED <<requests, wire>>,
         \A p \in Proxies : Now(p)' = Now(p)
  PROVE  Alike'
<1>1. PICK n, h, W, C, S, k : History(n, h, W, C, S, k)
  BY DEF Alike
<1>2. History(n, h, W, C, S, k)'
  BY <1>1 DEF History
<1> QED
  BY <1>2 DEF Alike

LEMMA NowSame ==
  ASSUME link'[Client!SPDZ_CONNECT] = link[Client!SPDZ_CONNECT],
         session' = session, taken' = taken
  PROVE  \A p \in Proxies : Now(p)' = Now(p)
<1>1. (Client!SPDZ_CONNECT)' = Client!SPDZ_CONNECT
  BY DEF Client!SPDZ_CONNECT
<1> QED
  BY <1>1 DEF Now

\* What waits for a share list has been sent, with all web sockets up
LEMMA InputsReach ==
  ASSUME Base, inputs # <<>>
  PROVE  up[Client!PROXY_CONNECT] = Proxies /\ Head(inputs) \in Sends
<1>1. /\ inputs \in Seq(Sends) /\ sends \in Nat
      /\ \A i \in 1..Len(inputs) : inputs[i] <= sends
  BY SendsAssumption DEF Base, TypeOK, Ready
<1>2. /\ Head(inputs) \in Sends /\ Head(inputs) = inputs[1]
      /\ Len(inputs) \in Nat \ {0}
  BY <1>1, HeadTailProperties
<1>3. 1 \in 1..Len(inputs) /\ inputs[1] \in Nat \ {0}
  BY <1>2, SendsAssumption DEF Sends
<1>4. sends # 0
  BY <1>1, <1>3
<1> QED
  BY <1>2, <1>4 DEF Base, Ready

LEMMA CallsAlike ==
  ASSUME Base, Alike, NEW c \in Calls, CallConnect(c) \/ CallOther(c)
  PROVE  Alike'
<1>1. /\ wire' = wire /\ \A p \in Proxies : Now(p)' = Now(p)
  <2>1. wire' = wire /\ link' = link /\ session' = session /\ taken' = taken
    BY DEF CallConnect, CallOther, Client!CallConnect,
      Client!CallDisconnect, Client!CallParty, Client!CallProxies,
      Client!Timeout, pairing, engines
  <2> QED
    BY <2>1, NowSame DEF Client!SPDZ_CONNECT
<1>2. ASSUME requests' = requests PROVE Alike'
  BY <1>1, <1>2, UnaskedAlike
<1>3. ASSUME NEW k \in {"connect", "disconnect"}, Client!CallParty(c, k)
      PROVE  Alike'
  <2>1. CASE Client!requestGuard(k)
    <3>1. PICK r \in Request : r = Client!requestOf(k) /\ r # "sendData"
      BY DEF Client!requestOf, Request, Client!Request
    <3>2. requests' = [p \in Proxies |-> Append(requests[p], r)]
      BY <1>3, <2>1, <3>1, GuardReaches, PushReaches
      DEF Base, Client!CallParty
    <3>3. AskAll(r, r)
      BY <1>1, <3>1, <3>2 DEF AskAll
    <3> QED
      BY <3>1, <3>3, AskedAlike DEF Base
  <2>2. CASE ~Client!requestGuard(k)
    BY <1>2, <1>3, <2>2 DEF Client!CallParty
  <2> QED
    BY <2>1, <2>2
<1> QED
  BY <1>2, <1>3 DEF CallConnect, CallOther, Client!CallConnect,
    Client!CallDisconnect, Client!CallProxies, Client!Timeout

LEMMA EmitAlike ==
  ASSUME Base, Alike, NEW n \in Sends, NEW m \in Rounds, Emit(n, m),
         up[Client!PROXY_CONNECT] = Proxies,
         \A p \in Proxies : Now(p)' = Now(p)
  PROVE  Alike'
<1>1. PICK x \in Masked : x = [send |-> n, mask |-> m]
  BY DEF Masked
<1>2. requests' = [p \in Proxies |-> Append(requests[p], "sendData")]
  BY PushReaches DEF Base, Emit
<1>3. wire' = [p \in Proxies |-> Append(wire[p], x)]
  BY <1>1 DEF Emit
<1>4. AskAll("sendData", x) /\ "sendData" \in Request
  BY <1>2, <1>3 DEF AskAll, Request
<1> QED
  BY <1>4, AskedAlike DEF Base

LEMMA SendsAlike ==
  ASSUME Base, Alike, SendSecret
  PROVE  Alike'
<1>1. \A p \in Proxies : Now(p)' = Now(p)
  BY NowSame DEF SendSecret, engines, Client!SPDZ_CONNECT
<1>2. CASE UNCHANGED <<wire, requests>>
  BY <1>1, <1>2, UnaskedAlike
<1>3. CASE shareLists # <<>> /\ Emit(sends', Head(shareLists))
  <2>1. sends' \in Sends /\ Head(shareLists) \in Rounds
    <3>1. shareLists \in Seq(Rounds) /\ sends \in 0..MaxSends
      BY DEF Base, TypeOK
    <3>2. Head(shareLists) \in Rounds
      BY <1>3, <3>1, HeadTailProperties
    <3> QED
      BY <3>1, <3>2, SendsAssumption DEF SendSecret, Sends
  <2>2. up[Client!PROXY_CONNECT] = Proxies
    BY Inherited DEF Base, SendSecret
  <2> QED
    BY <1>1, <1>3, <2>1, <2>2, EmitAlike
<1> QED
  BY <1>2, <1>3, MeetSends DEF SendSecret

LEMMA SharesAlike ==
  ASSUME Base, Alike, NEW p \in Proxies, DeliverShare(p)
  PROVE  Alike'
<1>1. \A q \in Proxies : Now(q)' = Now(q)
  BY NowSame DEF DeliverShare, engines, Client!SPDZ_CONNECT
<1>2. CASE UNCHANGED <<wire, requests>>
  BY <1>1, <1>2, UnaskedAlike
<1>3. ASSUME NEW mask \in Rounds, ShareList(mask) PROVE Alike'
  <2>1. CASE inputs = <<>>
    BY <1>2, <1>3, <2>1 DEF ShareList
  <2>2. CASE inputs # <<>>
    BY <1>1, <1>2, <1>3, <2>2, MeetSends, InputsReach, EmitAlike
    DEF ShareList
  <2> QED
    BY <2>1, <2>2
<1> DEFINE zip == [shareZip EXCEPT ![p] =
                    Append(shareZip[p], Head(events[p]).round)]
           mask == Head(zip[p])
<1>4. zip \in [Proxies -> Seq(Rounds)]
  <2>1. /\ shareZip \in [Proxies -> Seq(Rounds)]
        /\ Head(events[p]) \in Event
        /\ Head(events[p]).eventType = SPDZ_MESSAGE
    BY EventQueues DEF DeliverShare, afterMessage, Base, TypeOK
  <2>2. Head(events[p]).round \in Rounds
    BY <2>1, OwnQueues DEF Message
  <2> QED
    BY <2>1, <2>2, AppendProperties
<1>5. CASE \E q \in Proxies : zip[q] = <<>>
  BY <1>2, <1>5 DEF DeliverShare
<1>6. CASE \A q \in Proxies : zip[q] # <<>>
  <2>1. \/ ShareList(mask)
        \/ UNCHANGED <<inputs, shareLists, wire, requests, buffered>>
    BY <1>6 DEF DeliverShare
  <2> HIDE DEF zip
  <2>2. mask \in Rounds
    BY <1>4, <1>6, HeadTailProperties
  <2> HIDE DEF mask
  <2> QED
    BY <1>2, <1>3, <2>1, <2>2
<1> QED
  BY <1>5, <1>6

LEMMA DeliversAlike ==
  ASSUME Base, Alike, NEW p \in Proxies, DeliverConnection(p)
  PROVE  Alike'
<1>1. requests' = requests
  <2>1. /\ requests \in [Proxies -> Seq(Request)] /\ buffered[p] = <<>>
        /\ requests[p] \in Seq(Request)
    BY DEF Base, TypeOK, Ready
  <2>2. requests[p] \o buffered[p] = requests[p]
    BY <2>1, ConcatEmptySeq
  <2> QED
    BY <2>1, <2>2 DEF DeliverConnection, Client!Deliver
<1>2. /\ link' = link /\ wire' = wire /\ session' = session /\ taken' = taken
  BY DEF DeliverConnection, Client!Deliver, pairing, engines
<1>3. \A q \in Proxies : Now(q)' = Now(q)
  BY <1>2, NowSame DEF Client!SPDZ_CONNECT
<1> QED
  BY <1>1, <1>2, <1>3, UnaskedAlike

LEMMA LinksAlike ==
  ASSUME Base, Alike, NEW p \in Proxies, HandleConnect(p) \/ LinkChanges(p),
         ~Client!Trouble
  PROVE  Alike'
<1>1. /\ link \in [Client!EventType -> SUBSET Proxies]
      /\ Client!SPDZ_CONNECT \in Client!EventType
      /\ Client!PROXY_CONNECT # Client!SPDZ_CONNECT
      /\ session \in [Proxies -> Nat]
      /\ (Client!SPDZ_CONNECT)' = Client!SPDZ_CONNECT
  BY Inherited DEF Base, TypeOK, Client!SPDZ_CONNECT
<1>2. taken' = taken /\ wire' = wire
  BY DEF HandleConnect, LinkChanges, engines, pairing
<1>3. CASE HandleConnect(p)
  <2>1. /\ Client!EngineAccepts(p)
        /\ session' = [session EXCEPT ![p] = session[p] + 1]
    BY <1>3 DEF HandleConnect, Client!EngineRefuses
  <2>2. /\ requests[p] # <<>> /\ Head(requests[p]) = "connectToSpdz"
        /\ requests' = [requests EXCEPT ![p] = Tail(requests[p])]
        /\ link' = [link EXCEPT ![Client!SPDZ_CONNECT] =
                     link[Client!SPDZ_CONNECT] \union {p}]
    BY <2>1 DEF Client!EngineAccepts, Client!Handle
  <2>3. /\ \A q \in Proxies \ {p} : Now(q)' = Now(q)
        /\ Now(p)' = [linked |-> "yes", session |-> session[p] + 1,
                      taken |-> taken[p]]
    BY <1>1, <1>2, <2>1, <2>2 DEF Now
  <2>4. Now(p)' = After(Now(p), "connectToSpdz", Head(wire[p]))
    BY <2>3 DEF Now, After
  <2>5. Answer(p, "connectToSpdz")
    BY <1>2, <2>2, <2>3, <2>4 DEF Answer
  <2> QED
    BY <2>5, AnsweredAlike DEF Base
<1>4. CASE Client!EngineLeaves(p) /\ session' = session
  <2>1. /\ requests[p] # <<>> /\ Head(requests[p]) = "disconnectFromSpdz"
        /\ requests' = [requests EXCEPT ![p] = Tail(requests[p])]
        /\ link' = [link EXCEPT ![Client!SPDZ_CONNECT] =
                     link[Client!SPDZ_CONNECT] \ {p}]
    BY <1>4 DEF Client!EngineLeaves, Client!Handle
  <2>2. /\ \A q \in Proxies \ {p} : Now(q)' = Now(q)
        /\ Now(p)' = [linked |-> "no", session |-> session[p],
                      taken |-> taken[p]]
    BY <1>1, <1>2, <1>4, <2>1 DEF Now
  <2>3. Now(p)' = After(Now(p), "disconnectFromSpdz", Head(wire[p]))
    BY <2>2 DEF Now, After
  <2>4. Answer(p, "disconnectFromSpdz")
    BY <1>2, <2>1, <2>2, <2>3 DEF Answer
  <2> QED
    BY <2>4, AnsweredAlike DEF Base
<1>5. CASE Client!WebConnect(p) /\ session' = session
  <2>1. link'[Client!SPDZ_CONNECT] = link[Client!SPDZ_CONNECT]
        /\ requests' = requests
    BY <1>1, <1>5 DEF Client!WebConnect
  <2> QED
    BY <1>2, <1>5, <2>1, NowSame, UnaskedAlike
<1> QED
  BY <1>3, <1>4, <1>5
  DEF LinkChanges, engines, Client!WebConnectFails, Client!EngineCloses

LEMMA EnginesAlike ==
  ASSUME Base, Alike, NEW p \in Proxies, EngineShares(p) \/ HandleSend(p)
  PROVE  Alike'
<1>1. CASE EngineShares(p)
  <2>1. /\ link' = link /\ wire' = wire /\ session' = session
        /\ taken' = taken /\ requests' = requests
    BY <1>1 DEF EngineShares, pairing
  <2>2. \A q \in Proxies : Now(q)' = Now(q)
    BY <2>1, NowSame DEF Client!SPDZ_CONNECT
  <2> QED
    BY <2>1, <2>2, UnaskedAlike
<1>2. CASE HandleSend(p)
  <2>1. wire[p] # <<>>
    <3>1. Client!Handle(p, "sendData") /\ "sendData" \in Request
      BY <1>2 DEF HandleSend, Request
    <3> QED
      BY <3>1, HandleQueues
  <2>2. /\ requests[p] # <<>> /\ Head(requests[p]) = "sendData"
        /\ requests' = [requests EXCEPT ![p] = Tail(requests[p])]
        /\ wire' = [wire EXCEPT ![p] = Tail(wire[p])]
        /\ link' = link /\ session' = session
    BY <1>2 DEF HandleSend, Client!Handle
  <2>3. taken \in [Proxies -> Seq(Taken)]
        /\ (Client!SPDZ_CONNECT)' = Client!SPDZ_CONNECT
    BY DEF Base, TypeOK, Client!SPDZ_CONNECT
  <2>4. \A q \in Proxies \ {p} : Now(q)' = Now(q)
    BY <1>2, <2>2, <2>3 DEF HandleSend, Now
  <2>5. Now(p)' = After(Now(p), "sendData", Head(wire[p]))
    BY <1>2, <2>2, <2>3 DEF HandleSend, Now, After, TakenNow
  <2>6. Answer(p, "sendData")
    BY <2>1, <2>2, <2>4, <2>5 DEF Answer
  <2> QED
    BY <2>6, AnsweredAlike DEF Base
<1> QED
  BY <1>1, <1>2

\* Failures are counted, so that without any there never was one
LEMMA TroublesGrow ==
  ASSUME Base, [Next]_vars, troubles' = 0
  PROVE  troubles = 0 /\ ~Client!Trouble
<1>1. troubles \in Nat
  BY Inherited DEF Base
<1>2. troubles' = troubles \/ troubles' = troubles + 1
  BY DEF Next, vars, connection, CallConnect, CallOther,
    Client!CallConnect, Client!CallDisconnect, Client!CallParty,
    Client!CallProxies, Client!Timeout, SendSecret, DeliverConnection,
    Client!Deliver, DeliverShare, HandleConnect, LinkChanges, EngineShares,
    HandleSend, Client!EngineAccepts, Client!EngineRefuses,
    Client!EngineLeaves, Client!EngineCloses, Client!WebConnect,
    Client!WebConnectFails, Client!Trouble
<1> QED
  BY <1>1, <1>2 DEF Client!Trouble

LEMMA NextAlike ==
  Base /\ (troubles = 0 => Alike) /\ [Next]_vars => (troubles = 0 => Alike)'
<1> SUFFICES ASSUME Base, troubles = 0 => Alike, [Next]_vars, troubles' = 0
             PROVE  Alike'
  OBVIOUS
<1>1. Alike /\ ~Client!Trouble
  BY TroublesGrow
<1>2. ASSUME UNCHANGED vars PROVE Alike'
  <2>1. /\ link' = link /\ wire' = wire /\ session' = session
        /\ taken' = taken /\ requests' = requests
    BY <1>2 DEF vars, connection, pairing, engines
  <2>2. \A q \in Proxies : Now(q)' = Now(q)
    BY <2>1, NowSame DEF Client!SPDZ_CONNECT
  <2> QED
    BY <1>1, <2>1, <2>2, UnaskedAlike
<1> QED
  BY <1>1, <1>2, CallsAlike, SendsAlike, SharesAlike, DeliversAlike,
     LinksAlike, EnginesAlike
  DEF Next

LEMMA InitAlike == Init => Alike
<1> SUFFICES ASSUME Init PROVE Alike
  OBVIOUS
<1>1. PICK C, k, S :
        /\ C = [i \in Nat |-> 0] /\ k = [p \in Proxies |-> 0]
        /\ S = [i \in Nat |-> [linked |-> "no", session |-> 0,
                               taken |-> <<>>]]
  OBVIOUS
<1>2. ASSUME NEW p \in Proxies
      PROVE  /\ Segment(requests[p], 0, k[p], C)
             /\ Segment(wire[p], C[0], C[k[p]], C)
             /\ Now(p) = S[k[p]]
  <2>1. /\ requests[p] = <<>> /\ wire[p] = <<>> /\ Len(<<>>) = 0
        /\ k[p] = 0 /\ C[0] = 0
    BY <1>1, EmptySeq DEF Init, Client!Init
  <2>2. \A h : Segment(<<>>, 0, 0, h)
    BY EmptySeq DEF Segment
  <2>3. Now(p) = [linked |-> "no", session |-> 0, taken |-> <<>>]
    BY DEF Init, Client!Init, Now, Client!EventType, Client!SPDZ_CONNECT
  <2> QED
    BY <1>1, <2>1, <2>2, <2>3
<1>3. History(0, C, C, C, S, k)
  BY <1>1, <1>2 DEF History
<1> QED
  BY <1>3 DEF Alike

\* While nothing fails, the engines have taken in the same inputs once all
\* requests are handled (connectSetup.js 154-165): all of them are on one
\* history of requests, and each is where its own queue begins.
THEOREM EnginesAgree == Spec => []EnginesTakeSame
<1>1. Base /\ (troubles = 0 => Alike) => EnginesTakeSame
  <2> SUFFICES ASSUME Base, Alike, \A p \in Proxies : requests[p] = <<>>,
                      NEW p \in Proxies, NEW q \in Proxies
               PROVE  taken[p] = taken[q]
    BY DEF EnginesTakeSame
  <2>1. PICK n, h, W, C, S, k : History(n, h, W, C, S, k)
    BY DEF Alike
  <2>2. ASSUME NEW o \in Proxies PROVE k[o] = n /\ Now(o) = S[n]
    <3>1. /\ Segment(requests[o], n, k[o], h) /\ n \in Nat /\ k[o] \in Nat
          /\ Now(o) = S[k[o]] /\ requests[o] = <<>>
      BY <2>1 DEF History
    <3>2. 0 = n - k[o]
      BY <3>1, EmptySeq DEF Segment
    <3> QED
      BY <3>1, <3>2
  <2>3. Now(p) = Now(q)
    BY <2>2
  <2> QED
    BY <2>3 DEF Now
<1>2. Spec => [](Base /\ (troubles = 0 => Alike))
  BY InitBase, NextBase, InitAlike, NextAlike, PTL DEF Spec
<1> QED
  BY <1>1, <1>2, PTL

-----------------------------------------------------------------------------
(* Masks are those of the session.                                         *)

Linked == link[Client!SPDZ_CONNECT]

\* The rounds of a session, and the messages that bring them
Round(s) == [i \in Nat |-> <<s, i>>]
Sharing(s) == [i \in Nat |-> [eventType |-> SPDZ_MESSAGE, round |-> <<s, i>>]]

\* Rounds that wait and messages behind them are what follows the first e of
\* the n rounds of session s
Hearing(zip, msgs, n, s, e) ==
  \E z \in Nat : Segment(zip, z, e, Round(s)) /\ Segment(msgs, n, z, Sharing(s))

\* The last request to connect is still to be handled, and no send after it
Asked(q) ==
  \E i \in 1..Len(q) :
    /\ q[i] = "connectToSpdz"
    /\ \A j \in 1..Len(q) : /\ q[j] = "connectToSpdz" => j = i
                            /\ i < j => q[j] # "sendData"

\* Proxy p has yet to begin session s
Waiting(p, s) ==
  /\ session[p] + 1 = s /\ p \notin Linked
  /\ shareZip[p] = <<>> /\ Coming[p] = <<>>
  /\ Asked(requests[p])

\* It has begun, and the client has joined e of its rounds
Hears(p, s, e) ==
  session[p] = s /\ Hearing(shareZip[p], Coming[p], produced[p], s, e)

\* Proxy p is sent the b inputs W of the session and no other
Feeds(p, s, b, W) ==
  /\ session[p] = s
  /\ \A i \in 1..Len(requests[p]) : requests[p][i] # "connectToSpdz"
  /\ \E t \in Nat : /\ Segment(wire[p], b, t, W)
                    /\ p \in Linked => Cardinality(TakenNow(p)) = t

\* The client is in session s: e share lists of it are joined and b sent
InSession(s, e, b, W) ==
  /\ s \in Nat /\ e \in Nat /\ b \in Nat
  /\ Segment(shareLists, e, b, Round(s))
  /\ inputs = <<>> \/ shareLists = <<>>
  /\ \A i \in Nat : 0 < i /\ i <= b => W[i].mask = <<s, i>>
  /\ \A p \in Proxies : \/ Waiting(p, s) /\ e = 0
                        \/ Hears(p, s, e) /\ Feeds(p, s, b, W)

Conform ==
  \A p \in Proxies : \A i \in 1..Len(taken[p]) :
    /\ taken[p][i].mask = <<taken[p][i].session, taken[p][i].nth>>
    /\ taken[p][i].session <= session[p]

Masking == Conform /\ \E s, e, b, W : InSession(s, e, b, W)

LEMMA LinkedIs ==
  ASSUME Base
  PROVE  Linked' = link'[Client!SPDZ_CONNECT] /\ Linked \subseteq Proxies
BY Inherited DEF Base, Linked, Client!SPDZ_CONNECT

LEMMA WithinNone ==
  ASSUME NEW T, NEW q \in Seq(T), NEW S, \A i \in 1..Len(q) : q[i] \notin S
  PROVE  Within(q, S) = <<>>
<1>1. PICK w \in Seq(S \cap T) : w = Within(q, S)
  BY WithinType
<1>2. \A i \in 1..Len(w) : FALSE
  BY <1>1, WithinElements
<1>3. Len(w) = 0
  <2>1. Len(w) \in Nat
    OBVIOUS
  <2>2. Len(w) # 0 => 1 \in 1..Len(w)
    BY <2>1
  <2> QED
    BY <1>2, <2>2
<1> QED
  BY <1>1, <1>3, EmptySeq

LEMMA SegmentOfNone ==
  ASSUME NEW n \in Nat
  PROVE  \A h : Segment(<<>>, n, n, h)
BY EmptySeq DEF Segment

LEMMA RoundIs ==
  ASSUME NEW s, NEW i \in Nat
  PROVE  /\ Round(s)[i + 1] = <<s, i + 1>>
         /\ Sharing(s)[i + 1].round = <<s, i + 1>>
<1>1. PICK n \in Nat : n = i + 1
  OBVIOUS
<1>2. Round(s)[n] = <<s, n>>
  BY DEF Round
<1>3. Sharing(s)[n] = [eventType |-> SPDZ_MESSAGE, round |-> <<s, n>>]
  BY DEF Sharing
<1> QED
  BY <1>1, <1>2, <1>3

LEMMA HearingMoves ==
  ASSUME NEW zip \in Seq(Rounds), NEW msgs \in Seq(Message), msgs # <<>>,
         NEW n \in Nat, NEW s, NEW e \in Nat, Hearing(zip, msgs, n, s, e),
         Head(msgs).round \in Rounds
  PROVE  Hearing(Append(zip, Head(msgs).round), Tail(msgs), n, s, e)
<1>1. PICK z \in Nat : /\ Segment(zip, z, e, Round(s))
                       /\ Segment(msgs, n, z, Sharing(s))
  BY DEF Hearing
<1>2. /\ Head(msgs) = Sharing(s)[z + 1]
      /\ Segment(Tail(msgs), n, z + 1, Sharing(s))
  BY <1>1, SegmentShrinks
<1>3. PICK r \in Rounds : r = Head(msgs).round
  OBVIOUS
<1>4. Round(s)[z + 1] = r
  BY <1>2, <1>3, RoundIs
<1>5. Segment(Append(zip, r), z + 1, e, Round(s))
  BY <1>1, <1>4, SegmentGrows
<1> QED
  BY <1>2, <1>3, <1>5 DEF Hearing

LEMMA HearingJoins ==
  ASSUME NEW zip \in Seq(Rounds), zip # <<>>, NEW msgs,
         NEW n, NEW s, NEW e \in Nat, Hearing(zip, msgs, n, s, e)
  PROVE  Head(zip) = <<s, e + 1>> /\ Hearing(Tail(zip), msgs, n, s, e + 1)
<1>1. PICK z \in Nat : /\ Segment(zip, z, e, Round(s))
                       /\ Segment(msgs, n, z, Sharing(s))
  BY DEF Hearing
<1>2. Head(zip) = Round(s)[e + 1] /\ Segment(Tail(zip), z, e + 1, Round(s))
  BY <1>1, SegmentShrinks
<1>3. Head(zip) = <<s, e + 1>>
  BY <1>2, RoundIs
<1> QED
  BY <1>1, <1>2, <1>3 DEF Hearing

LEMMA HearingGrows ==
  ASSUME NEW zip, NEW msgs \in Seq(Message), NEW n \in Nat, NEW s, NEW e,
         Hearing(zip, msgs, n, s, e),
         NEW m \in Message, m = [eventType |-> SPDZ_MESSAGE,
                                 round |-> <<s, n + 1>>]
  PROVE  Hearing(zip, Append(msgs, m), n + 1, s, e)
<1>1. PICK z \in Nat : /\ Segment(zip, z, e, Round(s))
                       /\ Segment(msgs, n, z, Sharing(s))
  BY DEF Hearing
<1>2. Sharing(s)[n + 1] = m
  BY DEF Sharing
<1>3. Segment(Append(msgs, m), n + 1, z, Sharing(s))
  BY <1>1, <1>2, SegmentGrows
<1> QED
  BY <1>1, <1>3 DEF Hearing

LEMMA AppendIs ==
  ASSUME NEW T, NEW q \in Seq(T), NEW x \in T
  PROVE  /\ Len(q) \in Nat /\ Len(Append(q, x)) = Len(q) + 1
         /\ \A i \in 1..(Len(q) + 1) :
              Append(q, x)[i] = IF i = Len(q) + 1 THEN x ELSE q[i]
BY AppendProperties

LEMMA AppendOther ==
  ASSUME NEW T, NEW q \in Seq(T), NEW x \in T, NEW v, x # v,
         \A i \in 1..Len(q) : q[i] # v
  PROVE  \A i \in 1..Len(Append(q, x)) : Append(q, x)[i] # v
<1>1. \A i \in 1..(Len(q) + 1) : i = Len(q) + 1 \/ i \in 1..Len(q)
  OBVIOUS
<1> QED
  BY <1>1, AppendIs

LEMMA AskedMoves ==
  ASSUME NEW q \in Seq(Request), Asked(q)
  PROVE  /\ \A r \in Request : r \notin {"connectToSpdz", "sendData"}
              => Asked(Append(q, r))
         /\ q # <<>> /\ Head(q) # "connectToSpdz" => Asked(Tail(q))
         /\ q # <<>> /\ Head(q) = "connectToSpdz" =>
              \A j \in 1..Len(Tail(q)) :
                Tail(q)[j] \notin {"connectToSpdz", "sendData"}
<1>1. PICK i \in 1..Len(q) :
        /\ q[i] = "connectToSpdz"
        /\ \A j \in 1..Len(q) : /\ q[j] = "connectToSpdz" => j = i
                                /\ i < j => q[j] # "sendData"
  BY DEF Asked
<1>2. ASSUME NEW r \in Request, r \notin {"connectToSpdz", "sendData"}
      PROVE  Asked(Append(q, r))
  <2>1. PICK a \in Seq(Request) : a = Append(q, r)
    BY AppendProperties
  <2>2. /\ Len(a) = Len(q) + 1 /\ a[Len(q) + 1] = r
        /\ \A j \in 1..Len(q) : a[j] = q[j]
    BY <2>1, AppendProperties
  <2>3. \A j \in 1..Len(a) : j \in 1..Len(q) \/ j = Len(q) + 1
    BY <2>2
  <2>4. i \in 1..Len(a) /\ a[i] = "connectToSpdz"
    BY <1>1, <2>2
  <2>5. \A j \in 1..Len(a) : /\ a[j] = "connectToSpdz" => j = i
                             /\ i < j => a[j] # "sendData"
    BY <1>1, <1>2, <2>2, <2>3
  <2> QED
    BY <2>1, <2>4, <2>5 DEF Asked
<1>3. ASSUME q # <<>>
      PROVE  /\ Head(q) # "connectToSpdz" => Asked(Tail(q))
             /\ Head(q) = "connectToSpdz" =>
                  \A j \in 1..Len(Tail(q)) :
                    Tail(q)[j] \notin {"connectToSpdz", "sendData"}
  <2>1. /\ Tail(q) \in Seq(Request) /\ Head(q) = q[1]
        /\ Len(q) \in Nat \ {0} /\ Len(Tail(q)) = Len(q) - 1
        /\ \A j \in 1..Len(Tail(q)) : Tail(q)[j] = q[j + 1]
    BY <1>3, HeadTailProperties
  <2>2. PICK t \in Seq(Request) : t = Tail(q) /\ Len(t) = Len(q) - 1
    BY <2>1
  <2>3. \A j \in 1..Len(t) : j + 1 \in 1..Len(q) /\ t[j] = q[j + 1]
    BY <2>1, <2>2
  <2>4. ASSUME Head(q) # "connectToSpdz" PROVE Asked(t)
    <3>1. i # 1
      BY <1>1, <2>1, <2>4
    <3>2. i - 1 \in 1..Len(t) /\ (i - 1) + 1 = i
      BY <2>1, <2>2, <3>1
    <3>3. t[i - 1] = "connectToSpdz"
      BY <1>1, <2>3, <3>2
    <3>4. ASSUME NEW j \in 1..Len(t)
          PROVE  /\ t[j] = "connectToSpdz" => j = i - 1
                 /\ i - 1 < j => t[j] # "sendData"
      <4>1. j + 1 \in 1..Len(q) /\ t[j] = q[j + 1]
        BY <2>3
      <4>2. q[j + 1] = "connectToSpdz" => j + 1 = i
        BY <1>1, <4>1
      <4>3. i < j + 1 => q[j + 1] # "sendData"
        BY <1>1, <4>1
      <4> QED
        BY <4>1, <4>2, <4>3
    <3> QED
      BY <3>2, <3>3, <3>4 DEF Asked
  <2>5. ASSUME Head(q) = "connectToSpdz", NEW j \in 1..Len(t)
        PROVE  t[j] \notin {"connectToSpdz", "sendData"}
    <3>1. 1 \in 1..Len(q) /\ i = 1
      BY <1>1, <2>1, <2>5
    <3>2. j + 1 \in 1..Len(q) /\ t[j] = q[j + 1] /\ j + 1 # 1 /\ 1 < j + 1
      BY <2>3
    <3> QED
      BY <1>1, <3>1, <3>2
  <2> QED
    BY <2>2, <2>4, <2>5
<1> QED
  BY <1>2, <1>3

LEMMA WaitingKept ==
  ASSUME NEW p \in Proxies, NEW s, Waiting(p, s), session'[p] = session[p],
         requests'[p] = requests[p] \/ Asked(requests'[p]),
         shareZip'[p] = shareZip[p], Coming'[p] = Coming[p],
         p \in Linked' => p \in Linked
  PROVE  Waiting(p, s)'
BY DEF Waiting

LEMMA HearsKept ==
  ASSUME NEW p \in Proxies, NEW s, NEW e, Hears(p, s, e),
         session'[p] = session[p], produced'[p] = produced[p],
         shareZip'[p] = shareZip[p], Coming'[p] = Coming[p]
  PROVE  Hears(p, s, e)'
BY DEF Hears

LEMMA FeedsKept ==
  ASSUME NEW p \in Proxies, NEW s, NEW b, NEW W, Feeds(p, s, b, W),
         session'[p] = session[p], taken'[p] = taken[p], wire'[p] = wire[p],
         \A i \in 1..Len(requests'[p]) : requests'[p][i] # "connectToSpdz",
         p \in Linked' => p \in Linked
  PROVE  Feeds(p, s, b, W)'
<1>1. TakenNow(p)' = TakenNow(p)
  BY DEF TakenNow
<1> QED
  BY <1>1 DEF Feeds

LEMMA ConformKept ==
  ASSUME Base, Conform, taken' = taken,
         \A p \in Proxies : session'[p] \in {session[p], session[p] + 1}
  PROVE  Conform'
<1> SUFFICES ASSUME NEW p \in Proxies, NEW i \in 1..Len(taken[p])
             PROVE  /\ taken[p][i].mask =
                         <<taken[p][i].session, taken[p][i].nth>>
                    /\ taken[p][i].session <= session'[p]
  BY DEF Conform
<1>1. taken[p] \in Seq(Taken) /\ session[p] \in Nat
  BY DEF Base, TypeOK
<1>2. taken[p][i] \in Taken
  BY <1>1
<1>3. taken[p][i].session \in Nat
  BY <1>2 DEF Taken
<1>4. taken[p][i].session <= session[p]
  BY DEF Conform
<1>5. taken[p][i].session <= session'[p]
  BY <1>1, <1>3, <1>4
<1> QED
  BY <1>5 DEF Conform

\* What leaves the queues and engines alone, or ends links, is of no account
LEMMA SessionKept ==
  ASSUME NEW s, NEW e, NEW b, NEW W, InSession(s, e, b, W),
         UNCHANGED <<requests, wire, shareZip, shareLists, session, produced,
                     taken>>,
         Coming' = Coming, inputs' = <<>> \/ shareLists' = <<>>,
         Linked' \subseteq Linked
  PROVE  InSession(s, e, b, W)'
<1>1. ASSUME NEW p \in Proxies
      PROVE  \/ Waiting(p, s)' /\ e = 0
             \/ Hears(p, s, e)' /\ Feeds(p, s, b, W)'
  <2>1. CASE Waiting(p, s) /\ e = 0
    BY <2>1, WaitingKept
  <2>2. CASE Hears(p, s, e) /\ Feeds(p, s, b, W)
    <3>1. \A i \in 1..Len(requests[p]) : requests[p][i] # "connectToSpdz"
      BY <2>2 DEF Feeds
    <3> QED
      BY <2>2, <3>1, HearsKept, FeedsKept
  <2> QED
    BY <2>1, <2>2 DEF InSession
<1> QED
  BY <1>1 DEF InSession

\* A request to disconnect does not disturb the order of the others
LEMMA SessionAsked ==
  ASSUME TypeOK, NEW s, NEW e, NEW b, NEW W, InSession(s, e, b, W),
         UNCHANGED <<wire, shareZip, shareLists, inputs, session, produced,
                     taken>>,
         Coming' = Coming, Linked' = Linked,
         requests' = [p \in Proxies |->
                       Append(requests[p], "disconnectFromSpdz")]
  PROVE  InSession(s, e, b, W)'
<1>1. ASSUME NEW p \in Proxies
      PROVE  \/ Waiting(p, s)' /\ e = 0
             \/ Hears(p, s, e)' /\ Feeds(p, s, b, W)'
  <2>1. PICK q \in Seq(Request), r \in Request :
          /\ q = requests[p] /\ r = "disconnectFromSpdz"
          /\ requests'[p] = Append(q, r)
    BY DEF TypeOK, Request, Client!Request
  <2>2. CASE Waiting(p, s) /\ e = 0
    <3>1. Asked(Append(q, r))
      BY <2>1, <2>2, AskedMoves DEF Waiting
    <3> QED
      BY <2>1, <2>2, <3>1, WaitingKept
  <2>3. CASE Hears(p, s, e) /\ Feeds(p, s, b, W)
    <3>1. \A i \in 1..Len(q) : q[i] # "connectToSpdz"
      BY <2>1, <2>3 DEF Feeds
    <3>2. \A i \in 1..Len(Append(q, r)) : Append(q, r)[i] # "connectToSpdz"
      BY <2>1, <3>1, AppendOther
    <3> QED
      BY <2>1, <2>3, <3>2, HearsKept, FeedsKept
  <2> QED
    BY <2>2, <2>3 DEF InSession
<1> QED
  BY <1>1 DEF InSession

\* A session begins: nothing of the one before is left
LEMMA SessionBegins ==
  ASSUME TypeOK, NEW s, NEW e, NEW b, NEW W, InSession(s, e, b, W), ~LeftOver,
         UNCHANGED <<wire, shareZip, shareLists, inputs, session, produced,
                     taken>>,
         Coming' = Coming, Linked' = Linked,
         requests' = [p \in Proxies |-> Append(requests[p], "connectToSpdz")]
  PROVE  InSession(s + 1, 0, 0, W)'
<1>1. inputs = <<>> /\ shareLists = <<>> /\ s \in Nat
  BY DEF LeftOver, InSession
<1>2. ASSUME NEW p \in Proxies PROVE Waiting(p, s + 1)'
  <2>1. PICK q \in Seq(Request), r \in Request :
          /\ q = requests[p] /\ r = "connectToSpdz"
          /\ requests'[p] = Append(q, r)
    BY DEF TypeOK, Request, Client!Request
  <2>2. /\ p \notin Linked /\ shareZip[p] = <<>> /\ Messages(p) = {}
        /\ \A i \in 1..Len(q) : q[i] # "connectToSpdz"
    BY <2>1 DEF LeftOver, Linked
  <2>3. session[p] = s
    <3>1. ~Waiting(p, s)
      BY <2>1, <2>2 DEF Waiting, Asked
    <3> QED
      BY <3>1 DEF InSession, Hears
  <2>4. Coming[p] = <<>>
    <3>1. events[p] \in Seq(Event)
      BY DEF TypeOK
    <3>2. \A i \in 1..Len(events[p]) : events[p][i] \notin Message
      BY <2>2 DEF Messages, Message
    <3> QED
      BY <3>1, <3>2, WithinNone DEF Coming
  <2>5. Asked(Append(q, r))
    <3>1. /\ Len(q) \in Nat /\ Len(Append(q, r)) = Len(q) + 1
          /\ \A i \in 1..(Len(q) + 1) :
               Append(q, r)[i] = IF i = Len(q) + 1 THEN r ELSE q[i]
      BY AppendIs
    <3>2. \A i \in 1..(Len(q) + 1) : i = Len(q) + 1 \/ i \in 1..Len(q)
      OBVIOUS
    <3>3. PICK a : a = Append(q, r)
      OBVIOUS
    <3>4. PICK l \in Nat : l = Len(q) + 1 /\ l \in 1..l
      BY <3>1
    <3>5. /\ Len(a) = l /\ a[l] = "connectToSpdz"
          /\ \A j \in 1..Len(a) : /\ a[j] = "connectToSpdz" => j = l
                                  /\ ~(l < j)
      BY <2>1, <2>2, <3>1, <3>2, <3>3, <3>4
    <3>6. Asked(a)
      BY <3>4, <3>5 DEF Asked
    <3> QED
      BY <3>3, <3>6
  <2> QED
    BY <2>1, <2>2, <2>3, <2>4, <2>5 DEF Waiting
<1>3. Segment(shareLists, 0, 0, Round(s + 1))
  BY <1>1, SegmentOfNone
<1> QED
  BY <1>1, <1>2, <1>3 DEF InSession

\* An input goes out with the next round of the session
LEMMA SessionEmits ==
  ASSUME Base, NEW s, NEW b \in Nat, NEW W,
         \A i \in Nat : 0 < i /\ i <= b => W[i].mask = <<s, i>>,
         \A p \in Proxies : Feeds(p, s, b, W),
         NEW n \in Sends, NEW m \in Rounds, m = <<s, b + 1>>, Emit(n, m),
         up[Client!PROXY_CONNECT] = Proxies,
         UNCHANGED <<session, taken>>, Linked' = Linked
  PROVE  \E W2 :
           /\ \A i \in Nat : 0 < i /\ i <= b + 1 => W2[i].mask = <<s, i>>
           /\ \A p \in Proxies : Feeds(p, s, b + 1, W2)'
<1>1. PICK x \in Masked : x = [send |-> n, mask |-> m] /\ x.mask = m
  <2>1. [send |-> n, mask |-> m] \in Masked
    BY DEF Masked
  <2> QED
    BY <2>1
<1>2. requests' = [p \in Proxies |-> Append(requests[p], "sendData")]
  BY PushReaches DEF Base, Emit
<1>3. wire' = [p \in Proxies |-> Append(wire[p], x)]
  BY <1>1 DEF Emit
<1>4. PICK W2 : W2 = [i \in Nat |-> IF i = b + 1 THEN x ELSE W[i]]
  OBVIOUS
<1>5. /\ W2[b + 1] = x
      /\ \A i \in Nat : i <= b => W2[i] = W[i]
  BY <1>4
<1>6. \A i \in Nat : 0 < i /\ i <= b + 1 => W2[i].mask = <<s, i>>
  <2> SUFFICES ASSUME NEW i \in Nat, 0 < i, i <= b + 1
               PROVE  W2[i].mask = <<s, i>>
    OBVIOUS
  <2>1. i <= b \/ i = b + 1
    OBVIOUS
  <2> QED
    BY <1>1, <1>5, <2>1
<1>7. ASSUME NEW p \in Proxies PROVE Feeds(p, s, b + 1, W2)'
  <2>1. PICK q \in Seq(Request), r \in Request, w \in Seq(Masked) :
          /\ q = requests[p] /\ r = "sendData" /\ w = wire[p]
          /\ requests'[p] = Append(q, r) /\ wire'[p] = Append(w, x)
    BY <1>2, <1>3 DEF Base, TypeOK, Request
  <2>2. \A i \in 1..Len(q) : q[i] # "connectToSpdz"
    BY <2>1 DEF Feeds
  <2>3. \A i \in 1..Len(Append(q, r)) : Append(q, r)[i] # "connectToSpdz"
    BY <2>1, <2>2, AppendOther
  <2>4. PICK t \in Nat : /\ Segment(w, b, t, W)
                         /\ p \in Linked => Cardinality(TakenNow(p)) = t
    BY <2>1 DEF Feeds
  <2>5. Segment(Append(w, x), b + 1, t, W2)
    BY <1>5, <2>4, SegmentGrows
  <2>6. TakenNow(p)' = TakenNow(p) /\ session[p] = s
    BY DEF TakenNow, Feeds
  <2> QED
    BY <2>1, <2>3, <2>4, <2>5, <2>6 DEF Feeds
<1> QED
  BY <1>6, <1>7

\* A joined share list, which is the next of the session
LEMMA SessionLists ==
  ASSUME Base, NEW s \in Nat, NEW e \in Nat, NEW b \in Nat, NEW W,
         Segment(shareLists, e, b, Round(s)),
         inputs = <<>> \/ shareLists = <<>>,
         \A i \in Nat : 0 < i /\ i <= b => W[i].mask = <<s, i>>,
         \A p \in Proxies : Feeds(p, s, b, W),
         \A p \in Proxies : Hears(p, s, e + 1)',
         NEW m \in Rounds, m = <<s, e + 1>>, ShareList(m), clean',
         UNCHANGED <<session, taken>>, Linked' = Linked
  PROVE  \E c, V : InSession(s, e + 1, c, V)'
<1>1. CASE inputs = <<>>
  <2>1. /\ shareLists' = Append(shareLists, m) /\ inputs' = <<>>
        /\ UNCHANGED <<wire, requests>>
    BY <1>1 DEF ShareList
  <2>2. Segment(Append(shareLists, m), e + 1, b, Round(s))
    <3>1. shareLists \in Seq(Rounds) /\ Round(s)[e + 1] = m
      BY RoundIs DEF Base, TypeOK
    <3> QED
      BY <3>1, SegmentGrows
  <2>3. \A p \in Proxies : Feeds(p, s, b, W)'
    <3>1. ASSUME NEW p \in Proxies PROVE Feeds(p, s, b, W)'
      <4>1. \A i \in 1..Len(requests[p]) : requests[p][i] # "connectToSpdz"
        BY DEF Feeds
      <4> QED
        BY <2>1, <4>1, FeedsKept
    <3> QED
      BY <3>1
  <2>4. InSession(s, e + 1, b, W)'
    BY <2>1, <2>2, <2>3 DEF InSession
  <2> QED
    BY <2>4
<1>2. CASE inputs # <<>>
  <2>1. /\ shareLists = <<>> /\ shareLists' = <<>>
        /\ Emit(Head(inputs), m) /\ Head(inputs) \in Sends
        /\ up[Client!PROXY_CONNECT] = Proxies
    BY <1>2, InputsReach DEF ShareList, Meet, Drop
  <2>2. b = e
    BY <2>1, EmptySeq DEF Segment
  <2>3. PICK V :
          /\ \A i \in Nat : 0 < i /\ i <= b + 1 => V[i].mask = <<s, i>>
          /\ \A p \in Proxies : Feeds(p, s, b + 1, V)'
    <3>1. m = <<s, b + 1>>
      BY <2>2
    <3> QED
      BY <2>1, <3>1, SessionEmits
  <2>4. Segment(shareLists', e + 1, b + 1, Round(s))
    BY <2>1, <2>2, SegmentOfNone
  <2>5. InSession(s, e + 1, b + 1, V)'
    BY <2>1, <2>3, <2>4 DEF InSession
  <2> QED
    BY <2>5
<1> QED
  BY <1>1, <1>2

LEMMA SharesMask ==
  ASSUME Base, Masking, NEW p \in Proxies, DeliverShare(p), clean'
  PROVE  Masking'
<1> DEFINE h == Head(events[p]).round
           zip == [shareZip EXCEPT ![p] = Append(shareZip[p], h)]
           mask == Head(zip[p])
<1>1. PICK s, e, b, W : InSession(s, e, b, W)
  BY DEF Masking
<1>2. /\ TypeOK /\ shareZip \in [Proxies -> Seq(Rounds)]
      /\ Coming \in [Proxies -> Seq(Message)]
      /\ \A q \in Proxies : produced[q] \in Nat
      /\ s \in Nat /\ e \in Nat /\ b \in Nat
  <2>1. TypeOK /\ shareZip \in [Proxies -> Seq(Rounds)]
    BY DEF Base, TypeOK
  <2>2. \A q \in Proxies : produced[q] \in Nat
    BY <2>1, SendsAssumption DEF TypeOK
  <2> QED
    BY <1>1, <2>1, <2>2, ComingType DEF InSession
<1>3. /\ Coming[p] # <<>> /\ Head(Coming[p]) = Head(events[p])
      /\ Coming' = [Coming EXCEPT ![p] = Tail(Coming[p])]
  BY <1>2, ComingMoves DEF DeliverShare, afterMessage
<1>4. h = Head(Coming[p]).round /\ h \in Rounds
  <2>1. PICK c \in Seq(Message) : c = Coming[p]
    BY <1>2
  <2>2. Head(c) \in Message
    BY <1>3, <2>1, HeadTailProperties
  <2> QED
    BY <1>3, <2>1, <2>2 DEF Message
<1> HIDE DEF h
<1>5. /\ zip \in [Proxies -> Seq(Rounds)] /\ zip[p] = Append(shareZip[p], h)
      /\ \A q \in Proxies \ {p} : zip[q] = shareZip[q]
  BY <1>2, <1>4, AppendProperties
<1>6. /\ UNCHANGED <<taken, session, produced, link>>
      /\ Linked' = Linked
  BY LinkedIs DEF DeliverShare, engines, Linked
<1>7. Conform'
  BY <1>6, ConformKept DEF Masking
<1>8. ASSUME NEW q \in Proxies, Hears(q, s, e)
      PROVE  Hearing(zip[q], Coming'[q], produced[q], s, e)
  <2>1. Hearing(shareZip[q], Coming[q], produced[q], s, e)
    BY <1>8 DEF Hears
  <2>2. CASE q # p
    BY <1>2, <1>3, <1>5, <2>1, <2>2
  <2>3. CASE q = p
    <3>1. PICK c \in Seq(Message), o \in Seq(Rounds) :
            c = Coming[p] /\ o = shareZip[p]
      BY <1>2
    <3>2. Hearing(Append(o, Head(c).round), Tail(c), produced[p], s, e)
      BY <1>2, <1>3, <1>4, <2>1, <2>3, <3>1, HearingMoves
    <3>3. Coming'[p] = Tail(c) /\ zip[p] = Append(o, Head(c).round)
      BY <1>2, <1>3, <1>4, <1>5, <3>1
    <3> QED
      BY <2>3, <3>2, <3>3
  <2> QED
    BY <2>2, <2>3
<1>9. ~Waiting(p, s)
  BY <1>3 DEF Waiting
<1>10. CASE \E q \in Proxies : zip[q] = <<>>
  <2>1. /\ shareZip' = zip
        /\ UNCHANGED <<inputs, shareLists, wire, requests, buffered>>
    BY <1>10 DEF DeliverShare, h
  <2> HIDE DEF zip
  <2>2. ASSUME NEW q \in Proxies
        PROVE  \/ Waiting(q, s)' /\ e = 0
               \/ Hears(q, s, e)' /\ Feeds(q, s, b, W)'
    <3>1. CASE Waiting(q, s) /\ e = 0
      <4>1. q # p
        BY <1>9, <3>1
      <4>2. shareZip'[q] = shareZip[q] /\ Coming'[q] = Coming[q]
        BY <1>2, <1>3, <1>5, <2>1, <4>1
      <4> QED
        BY <1>6, <2>1, <3>1, <4>2, WaitingKept
    <3>2. CASE Hears(q, s, e) /\ Feeds(q, s, b, W)
      <4>1. Hears(q, s, e)'
        BY <1>6, <1>8, <2>1, <3>2 DEF Hears
      <4>2. \A i \in 1..Len(requests[q]) : requests[q][i] # "connectToSpdz"
        BY <3>2 DEF Feeds
      <4> QED
        BY <1>6, <2>1, <3>2, <4>1, <4>2, FeedsKept
    <3> QED
      BY <1>1, <3>1, <3>2 DEF InSession
  <2>3. InSession(s, e, b, W)'
    BY <1>1, <2>1, <2>2 DEF InSession
  <2> QED
    BY <1>7, <2>3 DEF Masking
<1>11. CASE \A q \in Proxies : zip[q] # <<>>
  <2>1. /\ shareZip' = [q \in Proxies |-> Tail(zip[q])]
        /\ IF \A q \in Proxies : Head(zip[q]) = mask
             THEN ShareList(mask)
             ELSE UNCHANGED <<inputs, shareLists, wire, requests, buffered>>
    BY <1>11 DEF DeliverShare, h
  <2> HIDE DEF zip
  <2>2. ASSUME NEW q \in Proxies
        PROVE  Hears(q, s, e) /\ Feeds(q, s, b, W)
    <3>1. ~Waiting(q, s)
      BY <1>5, <1>9, <1>11 DEF Waiting
    <3> QED
      BY <1>1, <3>1 DEF InSession
  <2>3. ASSUME NEW q \in Proxies
        PROVE  Head(zip[q]) = <<s, e + 1>> /\ Hears(q, s, e + 1)'
    <3>1. PICK o \in Seq(Rounds) : o = zip[q] /\ o # <<>>
      BY <1>5, <1>11
    <3>2. Hearing(o, Coming'[q], produced[q], s, e)
      BY <1>8, <2>2, <3>1
    <3>3. Head(o) = <<s, e + 1>>
          /\ Hearing(Tail(o), Coming'[q], produced[q], s, e + 1)
      <4>1. PICK c : c = Coming'[q]
        OBVIOUS
      <4> QED
        BY <1>2, <3>1, <3>2, <4>1, HearingJoins
    <3>4. session[q] = s
      BY <2>2 DEF Hears
    <3> QED
      BY <1>6, <2>1, <3>1, <3>3, <3>4 DEF Hears
  <2>4. ShareList(mask) /\ mask = <<s, e + 1>>
    BY <2>1, <2>3
  <2>5. mask \in Rounds
    BY <1>5, <1>11, HeadTailProperties
  <2> HIDE DEF mask
  <2>6. \E c, V : InSession(s, e + 1, c, V)'
    <3>1. PICK m \in Rounds : m = <<s, e + 1>> /\ ShareList(m)
      BY <2>4, <2>5
    <3>2. /\ Segment(shareLists, e, b, Round(s))
          /\ inputs = <<>> \/ shareLists = <<>>
          /\ \A i \in Nat : 0 < i /\ i <= b => W[i].mask = <<s, i>>
      BY <1>1 DEF InSession
    <3> QED
      BY <1>2, <1>6, <2>2, <2>3, <3>1, <3>2, SessionLists
  <2> QED
    BY <1>7, <2>6 DEF Masking
<1> QED
  BY <1>10, <1>11

LEMMA SendsMask ==
  ASSUME Base, Masking, SendSecret, clean'
  PROVE  Masking'
<1>1. PICK s, e, b, W : InSession(s, e, b, W)
  BY DEF Masking
<1>2. /\ s \in Nat /\ e \in Nat /\ b \in Nat
      /\ Segment(shareLists, e, b, Round(s))
      /\ inputs = <<>> \/ shareLists = <<>>
      /\ \A i \in Nat : 0 < i /\ i <= b => W[i].mask = <<s, i>>
      /\ shareLists \in Seq(Rounds) /\ sends \in 0..MaxSends
  BY <1>1 DEF InSession, Base, TypeOK
<1>3. /\ UNCHANGED <<link, events, shareZip, session, produced, taken>>
      /\ sends' = sends + 1 /\ sends < MaxSends
  BY DEF SendSecret, engines
<1>4. Linked' = Linked /\ Coming' = Coming
  BY <1>3, LinkedIs DEF Linked, Coming
<1>5. Conform'
  BY <1>3, ConformKept DEF Masking
<1>6. CASE shareLists = <<>> /\ UNCHANGED <<shareLists, wire, requests>>
  <2>1. InSession(s, e, b, W)'
    BY <1>1, <1>3, <1>4, <1>6, SessionKept
  <2> QED
    BY <1>5, <2>1 DEF Masking
<1>7. CASE /\ shareLists # <<>> /\ Emit(sends', Head(shareLists))
           /\ shareLists' = Tail(shareLists) /\ inputs' = inputs
  <2>1. /\ b < e /\ Head(shareLists) = Round(s)[b + 1]
        /\ Segment(Tail(shareLists), e, b + 1, Round(s))
    BY <1>2, <1>7, SegmentShrinks
  <2>2. PICK n \in Sends, m \in Rounds :
          /\ n = sends' /\ m = Head(shareLists) /\ m = <<s, b + 1>>
    <3>1. sends' \in Sends
      BY <1>2, <1>3, SendsAssumption DEF Sends
    <3>2. Head(shareLists) \in Rounds
      BY <1>2, <1>7, HeadTailProperties
    <3>3. Head(shareLists) = <<s, b + 1>>
      BY <1>2, <2>1, RoundIs
    <3> QED
      BY <3>1, <3>2, <3>3
  <2>3. ASSUME NEW p \in Proxies PROVE Hears(p, s, e) /\ Feeds(p, s, b, W)
    <3>1. e # 0
      BY <1>2, <2>1
    <3> QED
      BY <1>1, <3>1 DEF InSession
  <2>4. up[Client!PROXY_CONNECT] = Proxies
    BY Inherited DEF Base, SendSecret
  <2>5. PICK V :
          /\ \A i \in Nat : 0 < i /\ i <= b + 1 => V[i].mask = <<s, i>>
          /\ \A p \in Proxies : Feeds(p, s, b + 1, V)'
    <3>1. Emit(n, m) /\ UNCHANGED <<session, taken>>
      BY <1>3, <1>7, <2>2
    <3> QED
      BY <1>2, <1>4, <2>2, <2>3, <2>4, <3>1, SessionEmits
  <2>6. \A p \in Proxies : Hears(p, s, e)'
    BY <1>3, <1>4, <2>3, HearsKept
  <2>7. inputs' = <<>>
    BY <1>2, <1>7
  <2>8. InSession(s, e, b + 1, V)'
    BY <1>2, <1>7, <2>1, <2>5, <2>6, <2>7 DEF InSession
  <2> QED
    BY <1>5, <2>8 DEF Masking
<1> QED
  BY <1>6, <1>7 DEF SendSecret, listsLeft, Meet, Drop

LEMMA CallsMask ==
  ASSUME Base, Masking, NEW c \in Calls, CallConnect(c) \/ CallOther(c),
         clean'
  PROVE  Masking'
<1>1. PICK s, e, b, W : InSession(s, e, b, W)
  BY DEF Masking
<1>2. /\ UNCHANGED <<wire, shareZip, shareLists, inputs, session, produced,
                     taken>>
      /\ UNCHANGED <<link, events>> /\ TypeOK
  BY DEF CallConnect, CallOther, Client!CallConnect,
    Client!CallDisconnect, Client!CallParty, Client!CallProxies,
    Client!Timeout, pairing, engines, Base
<1>3. Linked' = Linked /\ Coming' = Coming
  BY <1>2, LinkedIs DEF Linked, Coming
<1>4. Conform'
  BY <1>2, ConformKept DEF Masking
<1>5. ASSUME requests' = requests PROVE Masking'
  <2>1. inputs = <<>> \/ shareLists = <<>>
    BY <1>1 DEF InSession
  <2>2. InSession(s, e, b, W)'
    BY <1>1, <1>2, <1>3, <1>5, <2>1, SessionKept
  <2> QED
    BY <1>4, <2>2 DEF Masking
<1>6. ASSUME NEW k \in {"connect", "disconnect"}, Client!CallParty(c, k),
             Client!requestGuard(k)
      PROVE  requests' = [p \in Proxies |->
                           Append(requests[p], Client!requestOf(k))]
  BY <1>6, GuardReaches, PushReaches DEF Base, Client!CallParty
<1>7. CASE CallConnect(c) /\ Client!requestGuard("connect")
  <2>1. /\ ~LeftOver
        /\ requests' = [p \in Proxies |-> Append(requests[p], "connectToSpdz")]
    BY <1>6, <1>7 DEF CallConnect, Client!CallConnect, Client!requestOf
  <2>2. InSession(s + 1, 0, 0, W)'
    BY <1>1, <1>2, <1>3, <2>1, SessionBegins
  <2> QED
    BY <1>4, <2>2 DEF Masking
<1>8. CASE Client!CallDisconnect(c) /\ Client!requestGuard("disconnect")
  <2>1. requests' = [p \in Proxies |->
                      Append(requests[p], "disconnectFromSpdz")]
    BY <1>6, <1>8 DEF Client!CallDisconnect, Client!requestOf
  <2>2. InSession(s, e, b, W)'
    BY <1>1, <1>2, <1>3, <2>1, SessionAsked
  <2> QED
    BY <1>4, <2>2 DEF Masking
<1> QED
  BY <1>5, <1>7, <1>8 DEF CallConnect, CallOther, Client!CallConnect,
    Client!CallDisconnect, Client!CallParty, Client!CallProxies,
    Client!Timeout

LEMMA DeliversMask ==
  ASSUME Base, Masking, NEW p \in Proxies, DeliverConnection(p)
  PROVE  Masking'
<1>1. PICK s, e, b, W : InSession(s, e, b, W)
  BY DEF Masking
<1>2. requests' = requests
  <2>1. /\ requests \in [Proxies -> Seq(Request)] /\ buffered[p] = <<>>
        /\ requests[p] \in Seq(Request)
    BY DEF Base, TypeOK, Ready
  <2>2. requests[p] \o buffered[p] = requests[p]
    BY <2>1, ConcatEmptySeq
  <2> QED
    BY <2>1, <2>2 DEF DeliverConnection, Client!Deliver
<1>3. /\ UNCHANGED <<link, wire, shareZip, shareLists, inputs, session,
                     produced, taken>>
      /\ events[p] # <<>> /\ Head(events[p]).eventType \in Client!EventType
      /\ events' = [events EXCEPT ![p] = Tail(events[p])]
  BY DEF DeliverConnection, Client!Deliver, pairing, engines
<1>4. Head(events[p]).eventType # SPDZ_MESSAGE
  BY <1>3 DEF Client!EventType, Client!PROXY_CONNECT, Client!SPDZ_CONNECT,
    SPDZ_MESSAGE
<1>5. Linked' = Linked /\ Coming' = Coming
  BY <1>3, <1>4, LinkedIs, ComingMoves DEF Base, Linked
<1>6. inputs = <<>> \/ shareLists = <<>>
  BY <1>1 DEF InSession
<1>7. InSession(s, e, b, W)'
  BY <1>1, <1>2, <1>3, <1>5, <1>6, SessionKept
<1> QED
  BY <1>3, <1>7, ConformKept DEF Masking

\* A request handled, by its proxy alone
LEMMA SessionAnswers ==
  ASSUME TypeOK, NEW s, NEW e, NEW b, NEW W, InSession(s, e, b, W),
         NEW p \in Proxies, requests[p] # <<>>,
         requests' = [requests EXCEPT ![p] = Tail(requests[p])],
         Coming' = Coming, UNCHANGED <<shareZip, shareLists, inputs>>,
         \A q \in Proxies \ {p} :
           /\ session'[q] = session[q] /\ produced'[q] = produced[q]
           /\ taken'[q] = taken[q] /\ wire'[q] = wire[q]
           /\ q \in Linked' => q \in Linked,
         \/ Waiting(p, s)' /\ e = 0
         \/ Hears(p, s, e)' /\ Feeds(p, s, b, W)'
  PROVE  InSession(s, e, b, W)'
<1>1. ASSUME NEW q \in Proxies \ {p}
      PROVE  \/ Waiting(q, s)' /\ e = 0
             \/ Hears(q, s, e)' /\ Feeds(q, s, b, W)'
  <2>1. requests'[q] = requests[q]
    BY DEF TypeOK
  <2>2. CASE Waiting(q, s) /\ e = 0
    BY <2>1, <2>2, WaitingKept
  <2>3. CASE Hears(q, s, e) /\ Feeds(q, s, b, W)
    <3>1. \A i \in 1..Len(requests[q]) : requests[q][i] # "connectToSpdz"
      BY <2>3 DEF Feeds
    <3> QED
      BY <2>1, <2>3, <3>1, HearsKept, FeedsKept
  <2> QED
    BY <2>2, <2>3 DEF InSession
<1> QED
  BY <1>1 DEF InSession

\* The rest of a queue without a connect has none
LEMMA NoneInTail ==
  ASSUME NEW T, NEW q \in Seq(T), q # <<>>, NEW v,
         \A i \in 1..Len(q) : q[i] # v
  PROVE  /\ \A i \in 1..Len(Tail(q)) : Tail(q)[i] # v
         /\ Head(q) # v
<1>1. /\ Head(q) = q[1] /\ Len(q) \in Nat \ {0}
      /\ Len(Tail(q)) = Len(q) - 1
      /\ \A i \in 1..Len(Tail(q)) : Tail(q)[i] = q[i + 1]
  BY HeadTailProperties
<1>2. 1 \in 1..Len(q) /\ \A i \in 1..Len(Tail(q)) : i + 1 \in 1..Len(q)
  BY <1>1
<1> QED
  BY <1>1, <1>2

\* A session begins at one engine, which has taken nothing in it
LEMMA ConnectsMask ==
  ASSUME Base, Base', Masking, NEW p \in Proxies, HandleConnect(p)
  PROVE  Masking'
<1>1. PICK s, e, b, W : InSession(s, e, b, W)
  BY DEF Masking
<1>2. /\ requests[p] # <<>> /\ Head(requests[p]) = "connectToSpdz"
      /\ requests' = [requests EXCEPT ![p] = Tail(requests[p])]
      /\ UNCHANGED <<wire, shareZip, shareLists, inputs, taken>>
      /\ session' = [session EXCEPT ![p] = session[p] + 1]
      /\ produced' = [produced EXCEPT ![p] = 0]
  BY DEF HandleConnect, Client!EngineAccepts, Client!EngineRefuses,
    Client!Handle, pairing
<1>3. /\ TypeOK /\ session \in [Proxies -> Nat]
      /\ produced \in [Proxies -> 0..MaxRounds]
      /\ s \in Nat /\ e \in Nat /\ b \in Nat /\ b <= e
  BY <1>1 DEF Base, TypeOK, InSession, Segment
<1>4. PICK q \in Seq(Request) : q = requests[p] /\ q # <<>>
                                /\ requests'[p] = Tail(q)
  BY <1>2 DEF Base, TypeOK
<1>5. Coming' = Coming
  <2>1. \E t \in Client!EventType, v \in BOOLEAN : Client!Report(p, t, v)
    BY Inherited DEF Base, HandleConnect, Client!EngineAccepts,
      Client!EngineRefuses
  <2> QED
    BY <1>3, <2>1, ComingMoves
<1>6. \A o \in Proxies \ {p} : o \in Linked' => o \in Linked
  <2>1. link' \in {[link EXCEPT ![Client!SPDZ_CONNECT] = @ \union {p}],
                   [link EXCEPT ![Client!SPDZ_CONNECT] = @ \ {p}]}
    BY DEF HandleConnect, Client!EngineAccepts, Client!EngineRefuses
  <2> QED
    BY <2>1, Inherited, LinkedIs DEF Base, Linked
<1>7. Waiting(p, s) /\ e = 0 /\ b = 0
  <2>1. ~Feeds(p, s, b, W)
    <3>1. Head(q) = "connectToSpdz"
      BY <1>2, <1>4
    <3> QED
      BY <1>4, <3>1, NoneInTail DEF Feeds
  <2> QED
    BY <1>1, <1>3, <2>1 DEF InSession
<1>8. \A j \in 1..Len(Tail(q)) : Tail(q)[j] \notin {"connectToSpdz", "sendData"}
  BY <1>2, <1>4, <1>7, AskedMoves DEF Waiting
<1>9. wire'[p] = <<>>
  <2>1. Tail(q) \in Seq(Request)
    BY <1>4, HeadTailProperties
  <2>2. Within(Tail(q), {"sendData"}) = <<>>
    BY <1>8, <2>1, WithinNone
  <2>3. Len(wire'[p]) = Len(Within(requests'[p], {"sendData"}))
        /\ wire'[p] \in Seq(Masked)
    BY DEF Base, Ready, TypeOK
  <2>4. Len(wire'[p]) = 0
    BY <1>4, <2>2, <2>3, EmptySeq
  <2> QED
    BY <2>3, <2>4, EmptySeq
<1>10. session'[p] = s /\ produced'[p] = 0
  BY <1>2, <1>3, <1>7 DEF Waiting
<1>11. Hears(p, s, e)'
  <2>1. /\ Segment(<<>>, 0, 0, Round(s)) /\ Segment(<<>>, 0, 0, Sharing(s))
    BY SegmentOfNone
  <2>2. shareZip'[p] = <<>> /\ Coming'[p] = <<>>
    BY <1>2, <1>5, <1>7 DEF Waiting
  <2> QED
    BY <1>7, <1>10, <2>1, <2>2 DEF Hears, Hearing
<1>12. Feeds(p, s, b, W)'
  <2>1. Segment(wire'[p], b, 0, W)
    BY <1>7, <1>9, SegmentOfNone
  <2>2. TakenNow(p)' = {}
    <3>1. ASSUME NEW i \in 1..Len(taken[p]) PROVE taken[p][i].session # s
      <4>1. taken[p] \in Seq(Taken)
        BY <1>3 DEF TypeOK
      <4>2. taken[p][i] \in Taken
        BY <4>1
      <4>3. taken[p][i].session \in Nat /\ taken[p][i].session <= session[p]
        BY <4>2 DEF Taken, Masking, Conform
      <4> QED
        BY <1>3, <1>7, <4>3 DEF Waiting
    <3> QED
      BY <1>2, <1>10, <3>1 DEF TakenNow
  <2>3. Cardinality(TakenNow(p)') = 0
    BY <2>2, FS_EmptySet
  <2>4. Cardinality(TakenNow(p))' = Cardinality(TakenNow(p)')
    OBVIOUS
  <2> QED
    BY <1>4, <1>8, <1>10, <2>1, <2>3, <2>4 DEF Feeds
<1>13. InSession(s, e, b, W)'
  BY <1>1, <1>2, <1>3, <1>5, <1>6, <1>11, <1>12, SessionAnswers
<1>14. Conform'
  <2>1. \A o \in Proxies : session'[o] \in {session[o], session[o] + 1}
    BY <1>2, <1>3
  <2> QED
    BY <1>2, <2>1, ConformKept DEF Masking
<1> QED
  BY <1>13, <1>14 DEF Masking

LEMMA LinksMask ==
  ASSUME Base, Masking, NEW p \in Proxies, LinkChanges(p)
  PROVE  Masking'
<1>1. PICK s, e, b, W : InSession(s, e, b, W)
  BY DEF Masking
<1>2. /\ UNCHANGED <<wire, shareZip, shareLists, inputs, session, produced,
                     taken>>
      /\ TypeOK
      /\ inputs = <<>> \/ shareLists = <<>>
  BY <1>1 DEF LinkChanges, pairing, engines, InSession, Base
<1>3. Conform'
  BY <1>2, ConformKept DEF Masking
<1>4. Coming' = Coming
  <2>1. \/ \E t \in Client!EventType, v \in BOOLEAN : Client!Report(p, t, v)
        \/ events' = events
    BY Inherited DEF Base, LinkChanges, Client!WebConnect,
      Client!WebConnectFails, Client!EngineLeaves, Client!EngineCloses
  <2> QED
    BY <1>2, <2>1, ComingMoves
<1>5. Linked' \subseteq Linked
      /\ (Client!EngineLeaves(p) => p \notin Linked')
  <2>1. link' \in {[link EXCEPT ![Client!PROXY_CONNECT] = @ \union {p}],
                   [link EXCEPT ![Client!SPDZ_CONNECT] = @ \ {p}], link}
    BY DEF LinkChanges, Client!WebConnect,
      Client!WebConnectFails, Client!EngineLeaves, Client!EngineCloses
  <2>2. Client!EngineLeaves(p) =>
          link' = [link EXCEPT ![Client!SPDZ_CONNECT] = @ \ {p}]
    BY DEF Client!EngineLeaves
  <2> QED
    BY <2>1, <2>2, Inherited, LinkedIs DEF Base, Linked
<1>6. CASE requests' = requests
  <2>1. InSession(s, e, b, W)'
    BY <1>1, <1>2, <1>4, <1>5, <1>6, SessionKept
  <2> QED
    BY <1>3, <2>1 DEF Masking
<1>7. CASE Client!EngineLeaves(p)
  <2>1. /\ requests[p] # <<>> /\ Head(requests[p]) = "disconnectFromSpdz"
        /\ requests' = [requests EXCEPT ![p] = Tail(requests[p])]
    BY <1>7 DEF Client!EngineLeaves, Client!Handle
  <2>2. PICK q \in Seq(Request) : q = requests[p] /\ q # <<>>
                                  /\ requests'[p] = Tail(q)
    BY <1>2, <2>1 DEF TypeOK
  <2>3. \/ Waiting(p, s)' /\ e = 0
        \/ Hears(p, s, e)' /\ Feeds(p, s, b, W)'
    <3>1. ASSUME Waiting(p, s) /\ e = 0 PROVE Waiting(p, s)' /\ e = 0
      <4>1. Asked(requests'[p])
        BY <2>1, <2>2, <3>1, AskedMoves DEF Waiting
      <4> QED
        BY <1>2, <1>4, <1>5, <3>1, <4>1, WaitingKept
    <3>2. ASSUME Hears(p, s, e) /\ Feeds(p, s, b, W)
          PROVE  Hears(p, s, e)' /\ Feeds(p, s, b, W)'
      <4>1. \A i \in 1..Len(requests'[p]) : requests'[p][i] # "connectToSpdz"
        BY <2>2, <3>2, NoneInTail DEF Feeds
      <4> QED
        BY <1>2, <1>4, <1>5, <3>2, <4>1, HearsKept, FeedsKept
    <3> QED
      BY <1>1, <3>1, <3>2 DEF InSession
  <2>4. InSession(s, e, b, W)'
    BY <1>1, <1>2, <1>4, <1>5, <2>1, <2>3, SessionAnswers
  <2> QED
    BY <1>3, <2>4 DEF Masking
<1> QED
  BY <1>6, <1>7
  DEF LinkChanges, Client!WebConnect, Client!WebConnectFails,
      Client!EngineCloses

\* The engine of p sends the next round of the session
LEMMA IssuesMask ==
  ASSUME Base, Masking, NEW p \in Proxies, EngineShares(p)
  PROVE  Masking'
<1>1. PICK s, e, b, W : InSession(s, e, b, W)
  BY DEF Masking
<1>2. /\ UNCHANGED <<requests, wire, shareZip, shareLists, inputs, session,
                     taken, link>>
      /\ produced' = [produced EXCEPT ![p] = produced[p] + 1]
      /\ p \in Linked /\ TypeOK
      /\ s \in Nat
  BY <1>1 DEF EngineShares, pairing, Base, InSession, Linked
<1>3. produced[p] \in Nat /\ produced[p] + 1 \in 1..MaxRounds
  BY <1>2, SendsAssumption DEF EngineShares, TypeOK
<1>4. Linked' = Linked
  BY <1>2, LinkedIs DEF Linked
<1>5. PICK r \in Rounds, m \in Message :
        /\ r = <<session[p], produced[p] + 1>>
        /\ m = [eventType |-> SPDZ_MESSAGE, round |-> r]
  <2>1. <<session[p], produced[p] + 1>> \in Rounds
    BY <1>2, <1>3 DEF Rounds, TypeOK
  <2>2. \A r \in Rounds : [eventType |-> SPDZ_MESSAGE, round |-> r] \in Message
    BY DEF Message
  <2> QED
    BY <2>1, <2>2
<1>6. Coming' = [Coming EXCEPT ![p] = Append(Coming[p], m)]
  <2>1. events' = [events EXCEPT ![p] = Append(events[p], m)]
    BY <1>5 DEF EngineShares
  <2> QED
    BY <1>2, <2>1, ComingMoves
<1>7. Coming \in [Proxies -> Seq(Message)]
  BY <1>2, ComingType
<1>8. Hears(p, s, e) /\ Feeds(p, s, b, W)
  BY <1>1, <1>2 DEF InSession, Waiting
<1>9. Hears(p, s, e)'
  <2>1. session[p] = s /\ Hearing(shareZip[p], Coming[p], produced[p], s, e)
    BY <1>8 DEF Hears
  <2>2. PICK c \in Seq(Message), n \in Nat : c = Coming[p] /\ n = produced[p]
    BY <1>3, <1>7
  <2>3. m = [eventType |-> SPDZ_MESSAGE, round |-> <<s, n + 1>>]
    BY <1>5, <2>1, <2>2
  <2>4. Hearing(shareZip[p], Append(c, m), n + 1, s, e)
    BY <2>1, <2>2, <2>3, HearingGrows
  <2>5. Coming'[p] = Append(c, m) /\ produced'[p] = n + 1
    BY <1>2, <1>6, <1>7, <2>2 DEF TypeOK
  <2> QED
    BY <1>2, <2>1, <2>4, <2>5 DEF Hears
<1>10. ASSUME NEW q \in Proxies
       PROVE  \/ Waiting(q, s)' /\ e = 0
              \/ Hears(q, s, e)' /\ Feeds(q, s, b, W)'
  <2>1. \A i \in 1..Len(requests[q]) :
          Feeds(q, s, b, W) => requests[q][i] # "connectToSpdz"
    BY DEF Feeds
  <2>2. Feeds(q, s, b, W) => Feeds(q, s, b, W)'
    BY <1>2, <1>4, <2>1, FeedsKept
  <2>3. CASE q = p
    BY <1>8, <1>9, <2>2, <2>3
  <2>4. CASE q # p
    <3>1. Coming'[q] = Coming[q] /\ produced'[q] = produced[q]
      BY <1>2, <1>6, <1>7, <2>4 DEF TypeOK
    <3>2. Hears(q, s, e) => Hears(q, s, e)'
      BY <1>2, <3>1, HearsKept
    <3>3. Waiting(q, s) => Waiting(q, s)'
      BY <1>2, <1>4, <3>1, WaitingKept
    <3> QED
      BY <1>1, <2>2, <3>2, <3>3 DEF InSession
  <2> QED
    BY <2>3, <2>4
<1>11. InSession(s, e, b, W)'
  BY <1>1, <1>2, <1>10 DEF InSession
<1>12. Conform'
  BY <1>2, ConformKept DEF Masking
<1> QED
  BY <1>11, <1>12 DEF Masking

\* An engine takes in the input whose mask is the next round it expects
LEMMA TakesMask ==
  ASSUME Base, Masking, NEW p \in Proxies, HandleSend(p)
  PROVE  Masking'
<1>1. PICK s, e, b, W : InSession(s, e, b, W)
  BY DEF Masking
<1>2. /\ requests[p] # <<>> /\ Head(requests[p]) = "sendData"
      /\ requests' = [requests EXCEPT ![p] = Tail(requests[p])]
      /\ wire' = [wire EXCEPT ![p] = Tail(wire[p])]
      /\ UNCHANGED <<link, events, shareZip, shareLists, inputs, session,
                     produced>>
  BY DEF HandleSend, Client!Handle
<1>3. /\ TypeOK /\ s \in Nat /\ b \in Nat
      /\ wire \in [Proxies -> Seq(Masked)] /\ taken \in [Proxies -> Seq(Taken)]
  BY <1>1 DEF Base, TypeOK, InSession
<1>4. wire[p] # <<>>
  <2>1. Client!Handle(p, "sendData") /\ "sendData" \in Request
    BY DEF HandleSend, Request
  <2> QED
    BY <2>1, HandleQueues
<1>5. Linked' = Linked /\ Coming' = Coming
  BY <1>2, LinkedIs DEF Linked, Coming
<1>6. PICK q \in Seq(Request), w \in Seq(Masked), l \in Seq(Taken) :
        /\ q = requests[p] /\ q # <<>> /\ requests'[p] = Tail(q)
        /\ w = wire[p] /\ w # <<>> /\ wire'[p] = Tail(w)
        /\ l = taken[p]
  BY <1>2, <1>3, <1>4 DEF TypeOK
<1>7. CASE p \notin Linked
  <2>1. taken' = taken
    BY <1>7 DEF HandleSend, Linked
  <2>2. ASSUME Waiting(p, s), e = 0 PROVE Waiting(p, s)'
    <3>1. Asked(requests'[p])
      BY <1>2, <1>6, <2>2, AskedMoves DEF Waiting
    <3> QED
      BY <1>2, <1>5, <2>2, <3>1, WaitingKept
  <2>3. ASSUME Hears(p, s, e), Feeds(p, s, b, W)
        PROVE  Hears(p, s, e)' /\ Feeds(p, s, b, W)'
    <3>1. \A i \in 1..Len(requests'[p]) : requests'[p][i] # "connectToSpdz"
      BY <1>6, <2>3, NoneInTail DEF Feeds
    <3>2. PICK t \in Nat : Segment(w, b, t, W)
      BY <1>6, <2>3 DEF Feeds
    <3>3. Segment(Tail(w), b, t + 1, W)
      BY <1>3, <1>6, <3>2, SegmentShrinks
    <3>4. Feeds(p, s, b, W)'
      BY <1>2, <1>5, <1>6, <1>7, <2>3, <3>1, <3>3 DEF Feeds
    <3> QED
      BY <1>2, <1>5, <2>3, <3>4, HearsKept
  <2>4. InSession(s, e, b, W)'
    <3>1. \/ Waiting(p, s)' /\ e = 0
          \/ Hears(p, s, e)' /\ Feeds(p, s, b, W)'
      BY <1>1, <2>2, <2>3 DEF InSession
    <3> QED
      BY <1>1, <1>2, <1>3, <1>5, <2>1, <3>1, SessionAnswers
  <2> QED
    BY <1>2, <2>1, <2>4, ConformKept DEF Masking
<1>8. CASE p \in Linked
  <2>1. Hears(p, s, e) /\ Feeds(p, s, b, W)
    BY <1>1, <1>8 DEF InSession, Waiting
  <2>2. PICK t \in Nat : Segment(w, b, t, W) /\ Cardinality(TakenNow(p)) = t
    BY <1>6, <1>8, <2>1 DEF Feeds
  <2>3. t < b /\ Head(w) = W[t + 1] /\ Segment(Tail(w), b, t + 1, W)
    BY <1>3, <1>6, <2>2, SegmentShrinks
  <2>4. Head(w).mask = <<s, t + 1>> /\ Head(w) \in Masked
    <3>1. t + 1 \in Nat /\ 0 < t + 1 /\ t + 1 <= b
      BY <1>3, <2>3
    <3>2. W[t + 1].mask = <<s, t + 1>>
      BY <1>1, <3>1 DEF InSession
    <3> QED
      BY <1>6, <2>3, <3>2, HeadTailProperties
  <2>5. session[p] = s
    BY <2>1 DEF Feeds
  <2>6. PICK x \in Taken :
          /\ x.mask = <<s, t + 1>> /\ x.session = s /\ x.nth = t + 1
          /\ taken' = [taken EXCEPT ![p] = Append(l, x)]
    <3> DEFINE y == [send |-> Head(w).send, mask |-> Head(w).mask,
                     session |-> s, nth |-> t + 1]
    <3>1. y \in Taken
      BY <1>3, <2>4 DEF Taken, Masked
    <3>2. y.mask = <<s, t + 1>> /\ y.session = s /\ y.nth = t + 1
      BY <2>4
    <3>3. taken' = [taken EXCEPT ![p] = Append(l, y)]
      BY <1>6, <1>8, <2>2, <2>5 DEF HandleSend, Linked
    <3> HIDE DEF y
    <3> QED
      BY <3>1, <3>2, <3>3
  <2>7. PICK a \in Seq(Taken), n \in Nat :
          /\ a = Append(l, x) /\ taken'[p] = a /\ n = Len(l)
          /\ Len(a) = n + 1 /\ a[n + 1] = x
          /\ \A i \in 1..n : a[i] = l[i]
    <3>1. /\ Append(l, x) \in Seq(Taken) /\ Len(l) \in Nat
          /\ Len(Append(l, x)) = Len(l) + 1 /\ Append(l, x)[Len(l) + 1] = x
          /\ \A i \in 1..Len(l) : Append(l, x)[i] = l[i]
      BY AppendProperties
    <3>2. taken'[p] = Append(l, x)
      BY <1>3, <2>6
    <3> QED
      BY <3>1, <3>2
  <2>8. \A i \in 1..(n + 1) : i \in 1..n \/ i = n + 1
    OBVIOUS
  <2>9. Cardinality(TakenNow(p)') = t + 1
    <3>1. TakenNow(p) = {i \in 1..n : l[i].session = s}
      BY <1>6, <2>5, <2>7 DEF TakenNow
    <3>2. TakenNow(p)' = {i \in 1..(n + 1) : a[i].session = s}
      BY <1>2, <2>5, <2>7 DEF TakenNow
    <3>3. n + 1 \in 1..(n + 1) /\ n + 1 \notin 1..n
      OBVIOUS
    <3>4. TakenNow(p)' = TakenNow(p) \union {n + 1}
      BY <2>6, <2>7, <2>8, <3>1, <3>2, <3>3
    <3>5. IsFiniteSet(TakenNow(p)) /\ n + 1 \notin TakenNow(p)
      <4>1. IsFiniteSet(1..n)
        BY FS_Interval
      <4>2. TakenNow(p) \subseteq 1..n
        BY <3>1
      <4> QED
        BY <3>3, <4>1, <4>2, FS_Subset
    <3>6. Cardinality(TakenNow(p) \union {n + 1})
            = Cardinality(TakenNow(p)) + 1
      BY <3>5, FS_AddElement
    <3> QED
      BY <2>2, <3>4, <3>6
  <2>10. Feeds(p, s, b, W)'
    <3>1. \A i \in 1..Len(requests'[p]) : requests'[p][i] # "connectToSpdz"
      BY <1>6, <2>1, NoneInTail DEF Feeds
    <3>2. Cardinality(TakenNow(p))' = Cardinality(TakenNow(p)')
      OBVIOUS
    <3> QED
      BY <1>2, <1>6, <2>3, <2>5, <2>9, <3>1, <3>2 DEF Feeds
  <2>11. Hears(p, s, e)'
    BY <1>2, <1>5, <2>1, HearsKept
  <2>12. InSession(s, e, b, W)'
    <3>1. \A o \in Proxies \ {p} : taken'[o] = taken[o] /\ wire'[o] = wire[o]
      BY <1>2, <1>3, <2>6
    <3> QED
      BY <1>1, <1>2, <1>3, <1>5, <2>10, <2>11, <3>1, SessionAnswers
  <2>13. Conform'
    <3>1. ASSUME NEW o \in Proxies, NEW i \in 1..Len(taken'[o])
          PROVE  /\ taken'[o][i].mask =
                      <<taken'[o][i].session, taken'[o][i].nth>>
                 /\ taken'[o][i].session <= session[o]
      <4>1. CASE o # p
        BY <1>3, <2>6, <4>1 DEF Masking, Conform
      <4>2. CASE o = p /\ i \in 1..n
        BY ZenonT(40), <1>6, <2>7, <4>2 DEF Masking, Conform
      <4>3. CASE o = p /\ i = n + 1
        BY <1>3, <2>5, <2>6, <2>7, <4>3
      <4> QED
        BY <2>7, <2>8, <4>1, <4>2, <4>3
    <3> QED
      BY <1>2, <3>1 DEF Conform
  <2> QED
    BY <2>12, <2>13 DEF Masking
<1> QED
  BY <1>7, <1>8

LEMMA NextMasking ==
  Base /\ (clean => Masking) /\ [Next]_vars => (clean => Masking)'
<1> SUFFICES ASSUME Base, clean => Masking, [Next]_vars, clean'
             PROVE  Masking'
  OBVIOUS
<1>1. clean
  BY DEF Next, vars, CallConnect, CallOther, SendSecret, DeliverConnection,
    DeliverShare, ShareList, Meet, Drop, HandleConnect, LinkChanges,
    EngineShares, HandleSend
<1>2. Base'
  BY NextBase
<1>3. ASSUME UNCHANGED vars PROVE Masking'
  <2>1. PICK s, e, b, W : InSession(s, e, b, W)
    BY <1>1 DEF Masking
  <2>2. /\ UNCHANGED <<requests, wire, shareZip, shareLists, inputs, session,
                       produced, taken, events, link>>
        /\ inputs = <<>> \/ shareLists = <<>>
    BY <1>3, <2>1 DEF vars, connection, pairing, engines, InSession
  <2>3. Linked' = Linked /\ Coming' = Coming
    BY <2>2, LinkedIs DEF Linked, Coming
  <2>4. InSession(s, e, b, W)'
    BY <2>1, <2>2, <2>3, SessionKept
  <2> QED
    BY <1>1, <2>2, <2>4, ConformKept DEF Masking
<1> QED
  BY <1>1, <1>2, <1>3, CallsMask, SendsMask, DeliversMask, SharesMask,
     ConnectsMask, LinksMask, IssuesMask, TakesMask
  DEF Next

LEMMA InitMasking == Init => Masking
<1> SUFFICES ASSUME Init PROVE Masking
  OBVIOUS
<1>1. \A h : Segment(<<>>, 0, 0, h)
  BY SegmentOfNone
<1>2. ASSUME NEW p \in Proxies PROVE Hears(p, 0, 0) /\ Feeds(p, 0, 0, p)
  <2>1. /\ session[p] = 0 /\ produced[p] = 0 /\ shareZip[p] = <<>>
        /\ requests[p] = <<>> /\ wire[p] = <<>> /\ events[p] = <<>>
        /\ p \notin Linked
    BY DEF Init, Client!Init, Linked, Client!EventType, Client!SPDZ_CONNECT
  <2>2. Coming[p] = <<>>
    BY <2>1, WithinFew DEF Coming
  <2>3. Hears(p, 0, 0)
    BY <1>1, <2>1, <2>2 DEF Hears, Hearing
  <2>4. \A W : Feeds(p, 0, 0, W)
    BY <1>1, <2>1, EmptySeq DEF Feeds
  <2> QED
    BY <2>3, <2>4
<1>3. \A W : InSession(0, 0, 0, W)
  <2>1. \A p \in Proxies : \A W : Feeds(p, 0, 0, W)
    <3>1. ASSUME NEW p \in Proxies PROVE \A W : Feeds(p, 0, 0, W)
      <4>1. /\ session[p] = 0 /\ requests[p] = <<>> /\ wire[p] = <<>>
            /\ p \notin Linked
        BY DEF Init, Client!Init, Linked, Client!EventType,
          Client!SPDZ_CONNECT
      <4> QED
        BY SMTT(30), <1>1, <4>1, EmptySeq DEF Feeds
    <3> QED
      BY <3>1
  <2>2. inputs = <<>> /\ shareLists = <<>>
    BY DEF Init
  <2> QED
    BY <1>1, <1>2, <2>1, <2>2 DEF InSession
<1>4. Conform
  BY EmptySeq DEF Init, Conform
<1> QED
  BY <1>3, <1>4 DEF Masking

\* If every session of the engines began with nothing left of the one before
\* and no input has been dropped for its size or for what is no number of the
\* field (either takes a round with it), each input an engine takes in carries
\* the mask that the engine takes off (transform.js 213-245): what waits in
\* the client and travels to an engine are the next rounds of the engine's own
\* session, in their order.
THEOREM MasksFit == Spec => []MasksOfSession
<1>1. (clean => Masking) => MasksOfSession
  BY DEF MasksOfSession, Masking, Conform
<1>2. Spec => [](Base /\ (clean => Masking))
  BY InitBase, NextBase, InitMasking, NextMasking, PTL DEF Spec
<1> QED
  BY <1>1, <1>2, PTL
=============================================================================
