--------------------------- MODULE SmlFrameProofs ---------------------------
(***************************************************************************)
(* Proofs about the CheckingReader at the end of the line, for any         *)
(* payloads, any length of frame and any number of faults.  The two        *)
(* buffers are in order whatever words arrive.  A frame that ends without  *)
(* an error was sent: escaping maps no two payloads to the same words, so  *)
(* the sum in the footer, which is over the escaped words and the number   *)
(* of fill bytes, tells which payload was sent; the reader has digested    *)
(* the payload it returns.  And on a good line what has been digested and  *)
(* what is still on the line are together the frame, so that the reader    *)
(* returns its payload in order and ends with it.                          *)
(***************************************************************************)
EXTENDS SmlFrame, SequenceTheorems, WellFoundedInduction, TLAPS

-----------------------------------------------------------------------------
(* Numbers, and sequences joined one by one.                               *)

(* A set of numbers that is not empty has a least one: what is proved      *)
(* below by induction is proved from it.                                   *)
LEMMA LeastNumber ==
    ASSUME NEW S \in SUBSET Nat, S # {}
    PROVE  \E m \in S : \A k \in S : m <= k
<1> DEFINE Less == {p \in Nat \X Nat : p[1] < p[2]}
<1>1. IsWellFoundedOn(Less, Nat)
  BY NatLessThanWellFounded, Zenon DEF OpToRel
<1> HIDE DEF Less
<1>2. PICK m \in S : \A k \in S : ~(<<k, m>> \in Less)
  BY <1>1, WFMin
<1>3. \A k \in S : ~(k < m)
  BY <1>2 DEF Less
<1>4. QED
  BY <1>3

(* Induction on the elements of a set.                                     *)
LEMMA AllNumbers ==
    ASSUME NEW S, 0 \in S, \A n \in Nat : n \in S => n + 1 \in S
    PROVE  Nat \subseteq S
<1> SUFFICES ASSUME ~(Nat \subseteq S) PROVE FALSE
  OBVIOUS
<1>1. PICK m \in Nat \ S : \A k \in Nat \ S : m <= k
  BY LeastNumber
<1>2. m - 1 \in Nat /\ m - 1 \notin S
  BY <1>1
<1>3. QED
  BY <1>1, <1>2

(* g joins the sequences of ss from the left, m of them.                   *)
Joins(g, ss, m) ==
    g = [i \in 1 .. m |-> IF i = 1 THEN ss[i] ELSE g[i - 1] \o ss[i]]

(* Its first value ...                                                     *)
LEMMA JoinsFirst ==
    ASSUME NEW ss, NEW m \in Nat, NEW g, Joins(g, ss, m), m # 0
    PROVE  g[1] = ss[1]
<1>1. \A i \in 1 .. m : g[i] = IF i = 1 THEN ss[i] ELSE g[i - 1] \o ss[i]
  BY DEF Joins
<1>2. 1 \in 1 .. m
  OBVIOUS
<1>3. QED
  BY <1>1, <1>2

(* ... and the next one.                                                   *)
LEMMA JoinsNext ==
    ASSUME NEW ss, NEW m \in Nat, NEW g, Joins(g, ss, m),
           NEW i \in 1 .. m, i + 1 <= m
    PROVE  g[i + 1] = g[i] \o ss[i + 1]
<1>1. \A j \in 1 .. m : g[j] = IF j = 1 THEN ss[j] ELSE g[j - 1] \o ss[j]
  BY DEF Joins
<1>2. i + 1 \in 1 .. m /\ i + 1 # 1 /\ (i + 1) - 1 = i
  OBVIOUS
<1>3. QED
  BY <1>1, <1>2

(* There are such functions.                                               *)
LEMMA JoinsExists ==
    ASSUME NEW ss, NEW m \in Nat
    PROVE  \E g : Joins(g, ss, m)
<1> DEFINE S == {n \in Nat : \E g : Joins(g, ss, n)}
<1>1. 0 \in S
  <2>1. Joins([i \in 1 .. 0 |-> 0], ss, 0)
    BY DEF Joins
  <2>2. QED
    BY <2>1
<1>2. ASSUME NEW n \in Nat, n \in S PROVE n + 1 \in S
  <2>1. PICK g : Joins(g, ss, n)
    BY <1>2
  <2> DEFINE h == [i \in 1 .. n + 1 |->
                     IF i = 1 THEN ss[i] ELSE g[i - 1] \o ss[i]]
  <2>2. \A i \in 1 .. n : h[i] = g[i]
    <3>1. \A i \in 1 .. n : g[i] = IF i = 1 THEN ss[i] ELSE g[i - 1] \o ss[i]
      <4> HIDE DEF h
      <4>1. QED
        BY <2>1 DEF Joins
    <3>2. \A i \in 1 .. n : h[i] = IF i = 1 THEN ss[i] ELSE g[i - 1] \o ss[i]
      OBVIOUS
    <3> HIDE DEF h
    <3>3. QED
      BY <3>1, <3>2
  <2>3. \A i \in 1 .. n + 1 :
          (IF i = 1 THEN ss[i] ELSE g[i - 1] \o ss[i])
            = (IF i = 1 THEN ss[i] ELSE h[i - 1] \o ss[i])
    <3> HIDE DEF h
    <3>1. \A i \in 1 .. n + 1 : i # 1 => i - 1 \in 1 .. n
      OBVIOUS
    <3>2. QED
      BY <2>2, <3>1
  <2>4. h = [i \in 1 .. n + 1 |-> IF i = 1 THEN ss[i] ELSE h[i - 1] \o ss[i]]
    BY <2>3
  <2>5. \E f : Joins(f, ss, n + 1)
    <3> HIDE DEF h
    <3>1. QED
      BY <2>4 DEF Joins
  <2>6. QED
    BY <2>5
<1>3. Nat \subseteq S
  <2> HIDE DEF S
  <2>1. QED
    BY <1>1, <1>2, AllNumbers
<1>4. QED
  BY <1>3

(* The first m elements are the same.                                      *)
SameUpTo(s, t, m) == \A i \in 1 .. m : s[i] = t[i]

(* Its value depends on the sequences so far only.                         *)
LEMMA JoinsAgree ==
    ASSUME NEW ss, NEW tt, NEW m \in Nat, NEW n \in Nat, m <= n,
           SameUpTo(ss, tt, m),
           NEW g, Joins(g, ss, m), NEW h, Joins(h, tt, n)
    PROVE  SameUpTo(g, h, m)
<1> DEFINE S == {i \in Nat : i \in 1 .. m => g[i] = h[i]}
<1>1. 0 \in S
  OBVIOUS
<1>2. ASSUME NEW i \in Nat, i \in S PROVE i + 1 \in S
  <2> SUFFICES ASSUME i + 1 \in 1 .. m PROVE g[i + 1] = h[i + 1]
    OBVIOUS
  <2>1. CASE i = 0
    <3>1. m # 0 /\ n # 0 /\ 1 \in 1 .. m
      BY <2>1
    <3> HIDE DEF S
    <3>2. g[1] = ss[1]
      BY <3>1, JoinsFirst
    <3>5. h[1] = tt[1]
      BY <3>1, JoinsFirst
    <3>3. ss[1] = tt[1]
      BY <3>1 DEF SameUpTo
    <3>4. QED
      BY <2>1, <3>2, <3>5, <3>3
  <2>2. CASE i # 0
    <3>1. i \in 1 .. m /\ i \in 1 .. n /\ i + 1 <= m /\ i + 1 <= n
      BY <2>2
    <3>2. g[i + 1] = g[i] \o ss[i + 1] /\ h[i + 1] = h[i] \o tt[i + 1]
      BY <3>1, JoinsNext
    <3>3. g[i] = h[i]
      BY <1>2, <3>1
    <3>4. ss[i + 1] = tt[i + 1]
      BY DEF SameUpTo
    <3>5. QED
      BY <3>2, <3>3, <3>4
  <2>3. QED
    BY <2>1, <2>2
<1>3. Nat \subseteq S
  <2> HIDE DEF S
  <2>1. QED
    BY <1>1, <1>2, AllNumbers
<1>4. QED
  BY <1>3 DEF SameUpTo

(* FlattenSeq is the last of the joins.                                    *)
LEMMA FlattenSeqJoins ==
    ASSUME NEW ss, Len(ss) \in Nat \ {0}
    PROVE  \E g : Joins(g, ss, Len(ss)) /\ FlattenSeq(ss) = g[Len(ss)]
<1> DEFINE g == CHOOSE g : g = [i \in 1 .. Len(ss) |-> IF i = 1 THEN ss[i] ELSE g[i - 1] \o ss[i]]
<1>1. Joins(g, ss, Len(ss))
  BY JoinsExists DEF Joins
<1>2. FlattenSeq(ss) = g[Len(ss)]
  BY DEF FlattenSeq
<1>3. QED
  BY <1>1, <1>2

(* One more sequence to flatten.                                           *)
LEMMA FlattenSeqAppend ==
    ASSUME NEW X, NEW ss \in Seq(Seq(X)), NEW t \in Seq(X)
    PROVE  FlattenSeq(Append(ss, t)) = FlattenSeq(ss) \o t
<1> DEFINE tt == Append(ss, t)
<1>1. tt \in Seq(Seq(X)) /\ Len(tt) = Len(ss) + 1 /\ tt[Len(tt)] = t
      /\ \A i \in 1 .. Len(ss) : tt[i] = ss[i]
  OBVIOUS
<1> HIDE DEF tt
<1>2. Len(ss) \in Nat /\ Len(tt) \in Nat \ {0}
  BY <1>1
<1>6. PICK h : Joins(h, tt, Len(tt)) /\ FlattenSeq(tt) = h[Len(tt)]
  BY <1>2, FlattenSeqJoins
<1>3. CASE Len(ss) = 0
  <2>1. FlattenSeq(ss) = << >>
    BY <1>3 DEF FlattenSeq
  <2>2. FlattenSeq(tt) = t
    <3>0. Len(tt) \in Nat /\ Len(tt) # 0 /\ Len(tt) = 1
      BY <1>1, <1>2, <1>3
    <3>1. FlattenSeq(tt) = h[1] /\ h[1] = tt[1]
      BY <3>0, <1>6, JoinsFirst
    <3>2. QED
      BY <1>1, <1>3, <3>1
  <2>3. ss = << >>
    BY <1>3
  <2>4. QED
    BY <2>1, <2>2, <2>3 DEF tt
<1>4. CASE Len(ss) # 0
  <2>0. Len(ss) \in Nat \ {0} /\ Len(ss) <= Len(tt) /\ Len(ss) \in 1 .. Len(ss)
        /\ Len(ss) \in 1 .. Len(tt) /\ Len(ss) + 1 <= Len(tt)
    BY <1>1, <1>2, <1>4
  <2>1. PICK g : Joins(g, ss, Len(ss)) /\ FlattenSeq(ss) = g[Len(ss)]
    BY <2>0, FlattenSeqJoins
  <2>2. \A i \in 1 .. Len(ss) : g[i] = h[i]
    <3> DEFINE m == Len(ss)
               n == Len(tt)
    <3>2. m \in Nat /\ n \in Nat /\ m <= n
      BY <1>2, <2>0
    <3>4. Joins(g, ss, m) /\ Joins(h, tt, n)
      BY <1>6, <2>1
    <3>5. SameUpTo(ss, tt, m)
      BY <1>1 DEF SameUpTo
    <3> HIDE DEF m, n
    <3>3. SameUpTo(g, h, m)
      BY <3>2, <3>4, <3>5, JoinsAgree
    <3>6. QED
      BY <3>3 DEF m, SameUpTo
  <2>3. h[Len(ss) + 1] = h[Len(ss)] \o tt[Len(ss) + 1]
    BY <1>2, <1>6, <2>0, JoinsNext
  <2>4. QED
    BY <1>1, <1>6, <2>0, <2>1, <2>2, <2>3 DEF tt
<1>5. QED
  BY <1>3, <1>4 DEF tt

-----------------------------------------------------------------------------
(* Escaping.                                                               *)

(* The words that stand for w on the line.                                 *)
Pair(w) == IF w = Esc THEN <<Esc, Esc>> ELSE <<w>>

(* One word or two, and every one of them is w.                            *)
LEMMA PairType ==
    ASSUME NEW W, Esc \in W, NEW w \in W
    PROVE  /\ Pair(w) \in Seq(W)
           /\ Pair(w) # << >>
           /\ Len(Pair(w)) \in {1, 2}
           /\ Pair(w)[1] = w
           /\ Pair(w)[Len(Pair(w))] = w
<1>1. CASE w = Esc
  BY <1>1 DEF Pair
<1>2. CASE w # Esc
  BY <1>2 DEF Pair
<1>3. QED
  BY <1>1, <1>2

(* Escaping nothing gives nothing ...                                      *)
LEMMA EscapedEmpty == Escaped(<< >>) = << >>
<1> DEFINE ss == [i \in 1 .. Len(<< >>) |->
                    IF << >>[i] = Esc THEN <<Esc, Esc>> ELSE << << >>[i]>>]
<1>1. ss = << >>
  OBVIOUS
<1>2. FlattenSeq(<< >>) = << >>
  BY DEF FlattenSeq
<1>3. Escaped(<< >>) = FlattenSeq(ss)
  BY DEF Escaped
<1>4. QED
  BY <1>1, <1>2, <1>3

(* ... and escaping is word by word.                                       *)
LEMMA EscapedAppend ==
    ASSUME NEW W, Esc \in W, NEW D \in Seq(W), NEW w \in W
    PROVE  Escaped(Append(D, w)) = Escaped(D) \o Pair(w)
<1> DEFINE pairs(E) == [i \in 1 .. Len(E) |->
                          IF E[i] = Esc THEN <<Esc, Esc>> ELSE <<E[i]>>]
<1>1. \A E \in Seq(W) : pairs(E) \in Seq(Seq(W)) /\ Len(pairs(E)) = Len(E)
  <2>1. ASSUME NEW E \in Seq(W)
        PROVE  pairs(E) \in Seq(Seq(W)) /\ Len(pairs(E)) = Len(E)
    <3>1. \A i \in 1 .. Len(E) : E[i] \in W
      OBVIOUS
    <3>2. \A i \in 1 .. Len(E) : (IF E[i] = Esc THEN <<Esc, Esc>> ELSE <<E[i]>>) \in Seq(W)
      BY <3>1
    <3>3. QED
      BY <3>2
  <2>2. QED
    BY <2>1
<1>2. pairs(Append(D, w)) = Append(pairs(D), Pair(w))
  <2>1. /\ Append(D, w) \in Seq(W) /\ Len(Append(D, w)) = Len(D) + 1
        /\ \A i \in 1 .. Len(D) : Append(D, w)[i] = D[i]
        /\ Append(D, w)[Len(D) + 1] = w
    OBVIOUS
  <2>2. /\ Append(pairs(D), Pair(w)) \in Seq(Seq(W))
        /\ Len(Append(pairs(D), Pair(w))) = Len(D) + 1
        /\ \A i \in 1 .. Len(D) : Append(pairs(D), Pair(w))[i] = pairs(D)[i]
        /\ Append(pairs(D), Pair(w))[Len(D) + 1] = Pair(w)
    <3>1. pairs(D) \in Seq(Seq(W)) /\ Len(pairs(D)) = Len(D) /\ Pair(w) \in Seq(W)
      BY <1>1, PairType
    <3> HIDE DEF pairs
    <3>2. QED
      BY <3>1, AppendProperties
  <2>3. \A i \in 1 .. Len(D) : pairs(Append(D, w))[i] = pairs(D)[i]
    BY <2>1
  <2>4. pairs(Append(D, w))[Len(D) + 1] = Pair(w)
    BY <2>1 DEF Pair
  <2>5. \A i \in 1 .. Len(D) + 1 :
          pairs(Append(D, w))[i] = Append(pairs(D), Pair(w))[i]
    <3> HIDE DEF pairs
    <3>1. QED
      BY <2>2, <2>3, <2>4
  <2>6. pairs(Append(D, w)) \in Seq(Seq(W)) /\ Len(pairs(Append(D, w))) = Len(D) + 1
    <3> HIDE DEF pairs
    <3>1. QED
      BY <1>1, <2>1
  <2>7. QED
    <3> HIDE DEF pairs
    <3>1. QED
      BY <2>2, <2>5, <2>6, SeqEqual
<1>3. FlattenSeq(Append(pairs(D), Pair(w))) = FlattenSeq(pairs(D)) \o Pair(w)
  <2>1. pairs(D) \in Seq(Seq(W)) /\ Pair(w) \in Seq(W)
    BY <1>1, PairType
  <2> HIDE DEF pairs
  <2>2. QED
    BY <2>1, FlattenSeqAppend
<1>4. \A E : Escaped(E) = FlattenSeq(pairs(E))
  BY DEF Escaped
<1>5. QED
  <2> HIDE DEF pairs
  <2>1. QED
    BY <1>2, <1>3, <1>4

(* The last element of a concatenation.                                    *)
LEMMA LastOfConcat ==
    ASSUME NEW W, NEW X \in Seq(W), NEW Y \in Seq(W), Y # << >>
    PROVE  X \o Y # << >> /\ (X \o Y)[Len(X \o Y)] = Y[Len(Y)]
<1>1. Len(X) \in Nat /\ Len(Y) \in Nat \ {0} /\ Len(X \o Y) = Len(X) + Len(Y)
  OBVIOUS
<1>2. (X \o Y)[Len(X) + Len(Y)] = Y[Len(Y)]
  BY <1>1, ConcatProperties
<1>3. QED
  BY <1>1, <1>2

(* Concatenation under a name of its own: where it stays opaque, the       *)
(* provers use the lemmas below and nothing else about it.                 *)
Cat(s, t) == s \o t

(* It is associative.                                                      *)
LEMMA CatRegroups ==
    ASSUME NEW W, NEW s \in Seq(W), NEW t \in Seq(W), NEW u \in Seq(W)
    PROVE  Cat(Cat(s, t), u) = Cat(s, Cat(t, u))
BY ConcatAssociative DEF Cat

(* A payload of one word more.                                             *)
LEMMA Shorter ==
    ASSUME NEW W, NEW n \in Nat, NEW D \in Seq(W), Len(D) = n + 1
    PROVE  \E E \in Seq(W) : Len(E) = n /\ D[n + 1] \in W /\ D = Append(E, D[n + 1])
<1>1. D # << >>
  OBVIOUS
<1>2. PICK E \in Seq(W), w \in W : D = Append(E, w)
  BY <1>1, SequenceEmptyOrAppend
<1>3. QED
  BY <1>2

(* What is escaped is of the same words.                                   *)
LEMMA EscapedType ==
    ASSUME NEW W, Esc \in W
    PROVE  \A D \in Seq(W) : Escaped(D) \in Seq(W)
<1> DEFINE S == {n \in Nat : \A D \in Seq(W) : Len(D) = n => Escaped(D) \in Seq(W)}
<1>1. 0 \in S
  <2>1. \A D \in Seq(W) : Len(D) = 0 => D = << >>
    OBVIOUS
  <2>2. QED
    BY <2>1, EscapedEmpty
<1>2. ASSUME NEW n \in Nat, n \in S PROVE n + 1 \in S
  <2>1. ASSUME NEW D \in Seq(W), Len(D) = n + 1 PROVE Escaped(D) \in Seq(W)
    <3>1. PICK E \in Seq(W) : Len(E) = n /\ D[n + 1] \in W /\ D = Append(E, D[n + 1])
      BY <2>1, Shorter
    <3>2. Escaped(E) \in Seq(W)
      BY <1>2, <3>1
    <3>3. Pair(D[n + 1]) \in Seq(W)
      BY <3>1, PairType
    <3>4. Escaped(D) = Escaped(E) \o Pair(D[n + 1])
      BY <3>1, EscapedAppend
    <3>5. QED
      BY <3>2, <3>3, <3>4
  <2>2. QED
    BY <2>1
<1>3. Nat \subseteq S
  <2> HIDE DEF S
  <2>1. QED
    BY <1>1, <1>2, AllNumbers
<1>4. QED
  BY <1>3

(* No two payloads are escaped alike.                                      *)
LEMMA EscapedInjective ==
    ASSUME NEW W, Esc \in W
    PROVE  \A A, B \in Seq(W) : Escaped(A) = Escaped(B) => A = B
<1> DEFINE S == {n \in Nat : \A A, B \in Seq(W) :
                   Len(A) = n /\ Escaped(A) = Escaped(B) => A = B}
(* Only nothing is escaped to nothing.                                     *)
<1>1. \A B \in Seq(W) : Escaped(B) = << >> => B = << >>
  <2>1. ASSUME NEW B \in Seq(W), B # << >> PROVE Escaped(B) # << >>
    <3>1. PICK E \in Seq(W), w \in W : B = Append(E, w)
      BY <2>1, SequenceEmptyOrAppend
    <3>2. Escaped(B) = Escaped(E) \o Pair(w)
      BY <3>1, EscapedAppend
    <3>3. Escaped(E) \in Seq(W) /\ Pair(w) \in Seq(W) /\ Pair(w) # << >>
      BY EscapedType, PairType
    <3>4. QED
      BY <3>2, <3>3, LastOfConcat
  <2>2. QED
    BY <2>1
<1>2. 0 \in S
  <2>1. \A A \in Seq(W) : Len(A) = 0 => A = << >>
    OBVIOUS
  <2>2. QED
    BY <1>1, <2>1, EscapedEmpty
<1>3. ASSUME NEW n \in Nat, n \in S PROVE n + 1 \in S
  <2>1. ASSUME NEW A \in Seq(W), NEW B \in Seq(W), Len(A) = n + 1,
               Escaped(A) = Escaped(B)
        PROVE  A = B
    <3>1. PICK E \in Seq(W) : Len(E) = n /\ A[n + 1] \in W /\ A = Append(E, A[n + 1])
      BY <2>1, Shorter
    <3> DEFINE a == A[n + 1]
    <3>2. Escaped(A) = Escaped(E) \o Pair(a)
      BY <3>1, EscapedAppend
    <3>3. B # << >>
      <4>0. Escaped(E) \in Seq(W) /\ Pair(a) \in Seq(W) /\ Pair(a) # << >>
        BY <3>1, EscapedType, PairType
      <4>1. Escaped(A) # << >>
        BY <3>2, <4>0, LastOfConcat
      <4>2. QED
        BY <2>1, <4>1, EscapedEmpty
    <3>4. PICK F \in Seq(W), b \in W : B = Append(F, b)
      BY <3>3, SequenceEmptyOrAppend
    <3>5. Escaped(B) = Escaped(F) \o Pair(b)
      BY <3>4, EscapedAppend
    <3> HIDE DEF a
    <3>6. Escaped(E) \in Seq(W) /\ Escaped(F) \in Seq(W)
          /\ Pair(a) \in Seq(W) /\ Pair(b) \in Seq(W) /\ a \in W
      BY <3>1, EscapedType, PairType DEF a
    <3>7. a = b
      <4> DEFINE X == Escaped(A)
      <4>0. /\ Pair(a) # << >> /\ Pair(a)[Len(Pair(a))] = a
            /\ Pair(b) # << >> /\ Pair(b)[Len(Pair(b))] = b
        BY <3>6, PairType
      <4>1. X[Len(X)] = a
        BY <3>2, <3>6, <4>0, LastOfConcat DEF a
      <4>2. X[Len(X)] = b
        BY <2>1, <3>5, <3>6, <4>0, LastOfConcat
      <4>3. QED
        BY <4>1, <4>2
    <3>8. Escaped(E) = Escaped(F)
      BY <2>1, <3>2, <3>5, <3>6, <3>7, ConcatSimplifications
    <3>9. E = F
      BY <1>3, <3>1, <3>8
    <3>10. QED
      BY <3>1, <3>4, <3>7, <3>9 DEF a
  <2>2. QED
    BY <2>1
<1>4. Nat \subseteq S
  <2> HIDE DEF S
  <2>1. QED
    BY <1>2, <1>3, AllNumbers
<1>5. QED
  BY <1>4

(* What a part of the payload is escaped to comes first.                   *)
LEMMA EscapedPrefix ==
    ASSUME NEW W, Esc \in W
    PROVE  \A A \in Seq(W), k \in Nat : k <= Len(A) =>
             \E R \in Seq(W) : Escaped(A) = Escaped(SubSeq(A, 1, k)) \o R
<1> DEFINE S == {n \in Nat : \A A \in Seq(W), k \in Nat : Len(A) = n /\ k <= n =>
                   \E R \in Seq(W) : Escaped(A) = Escaped(SubSeq(A, 1, k)) \o R}
<1>1. \A A \in Seq(W), k \in Nat : k = Len(A) =>
         \E R \in Seq(W) : Escaped(A) = Escaped(SubSeq(A, 1, k)) \o R
  <2>1. ASSUME NEW A \in Seq(W)
        PROVE  Escaped(A) = Escaped(SubSeq(A, 1, Len(A))) \o << >>
    <3>1. SubSeq(A, 1, Len(A)) = A
      BY SubSeqFull
    <3>2. Escaped(A) \in Seq(W)
      BY EscapedType
    <3>3. QED
      BY <3>1, <3>2, ConcatEmptySeq
  <2>2. << >> \in Seq(W)
    OBVIOUS
  <2>3. QED
    BY <2>1, <2>2
<1>2. 0 \in S
  <2>1. \A k \in Nat : k <= 0 => k = 0
    OBVIOUS
  <2>2. QED
    BY <1>1, <2>1
<1>3. ASSUME NEW n \in Nat, n \in S PROVE n + 1 \in S
  <2>1. ASSUME NEW A \in Seq(W), NEW k \in Nat, Len(A) = n + 1, k <= n
        PROVE  \E R \in Seq(W) : Escaped(A) = Escaped(SubSeq(A, 1, k)) \o R
    <3>1. PICK E \in Seq(W) : Len(E) = n /\ A[n + 1] \in W /\ A = Append(E, A[n + 1])
      BY <2>1, Shorter
    <3> DEFINE a == A[n + 1]
    <3>2. Escaped(A) = Escaped(E) \o Pair(a)
      BY <3>1, EscapedAppend
    <3>3. PICK R \in Seq(W) : Escaped(E) = Escaped(SubSeq(E, 1, k)) \o R
      BY <1>3, <2>1, <3>1
    <3>4. SubSeq(A, 1, k) = SubSeq(E, 1, k)
      BY <2>1, <3>1
    <3>5. SubSeq(E, 1, k) \in Seq(W)
      BY <2>1, <3>1
    <3>6. Escaped(SubSeq(E, 1, k)) \in Seq(W) /\ Pair(a) \in Seq(W)
      BY <3>1, <3>5, EscapedType, PairType
    <3> HIDE DEF a
    <3>7. Escaped(A) = Escaped(SubSeq(A, 1, k)) \o (R \o Pair(a))
      <4>1. Escaped(A) = (Escaped(SubSeq(E, 1, k)) \o R) \o Pair(a)
        BY <3>2, <3>3 DEF a
      <4>2. Escaped(SubSeq(E, 1, k)) \in Seq(W) /\ Pair(a) \in Seq(W) /\ R \in Seq(W)
        BY <3>4, <3>6
      <4>3. Escaped(A) = Cat(Cat(Escaped(SubSeq(E, 1, k)), R), Pair(a))
        BY <4>1 DEF Cat
      <4> HIDE DEF S
      <4>4. Escaped(A) = Cat(Escaped(SubSeq(E, 1, k)), Cat(R, Pair(a)))
        BY <4>2, <4>3, CatRegroups
      <4>5. QED
        BY <3>4, <4>4 DEF Cat
    <3>8. R \o Pair(a) \in Seq(W)
      BY <3>6
    <3>9. QED
      BY <3>7, <3>8
  <2>2. \A k \in Nat : k <= n + 1 => k <= n \/ k = n + 1
    OBVIOUS
  <2>3. ASSUME NEW A \in Seq(W), NEW k \in Nat, Len(A) = n + 1, k <= n + 1
        PROVE  \E R \in Seq(W) : Escaped(A) = Escaped(SubSeq(A, 1, k)) \o R
    <3>1. CASE k <= n
      BY <2>1, <2>3, <3>1
    <3>2. CASE k = n + 1
      BY <1>1, <2>3, <3>2
    <3>3. QED
      BY <2>2, <2>3, <3>1, <3>2
  <2>4. QED
    BY <2>3
<1>4. Nat \subseteq S
  <2> HIDE DEF S
  <2>1. QED
    BY <1>2, <1>3, AllNumbers
<1>5. QED
  BY <1>4

(* The word of the payload that comes next stands at the head of what is left. *)
LEMMA EscapedNext ==
    ASSUME NEW W, Esc \in W, NEW A \in Seq(W), NEW k \in Nat, k < Len(A)
    PROVE  \E R \in Seq(W) :
             Escaped(A) = Escaped(SubSeq(A, 1, k)) \o (Pair(A[k + 1]) \o R)
<1>1. PICK R \in Seq(W) : Escaped(A) = Escaped(SubSeq(A, 1, k + 1)) \o R
  <2>1. k + 1 \in Nat /\ k + 1 <= Len(A)
    OBVIOUS
  <2>2. QED
    BY <2>1, EscapedPrefix
<1>2. SubSeq(A, 1, k) \in Seq(W) /\ A[k + 1] \in W
      /\ SubSeq(A, 1, k + 1) = Append(SubSeq(A, 1, k), A[k + 1])
  OBVIOUS
<1>3. Escaped(SubSeq(A, 1, k + 1)) = Escaped(SubSeq(A, 1, k)) \o Pair(A[k + 1])
  BY <1>2, EscapedAppend
<1>4. Escaped(SubSeq(A, 1, k)) \in Seq(W) /\ Pair(A[k + 1]) \in Seq(W)
  BY <1>2, EscapedType, PairType
<1>5. Escaped(A) = (Escaped(SubSeq(A, 1, k)) \o Pair(A[k + 1])) \o R
  BY <1>1, <1>3
<1>6. Escaped(A) = Escaped(SubSeq(A, 1, k)) \o (Pair(A[k + 1]) \o R)
  <2>1. Escaped(A) = Cat(Cat(Escaped(SubSeq(A, 1, k)), Pair(A[k + 1])), R)
    BY <1>5 DEF Cat
  <2>2. Escaped(A) = Cat(Escaped(SubSeq(A, 1, k)), Cat(Pair(A[k + 1]), R))
    BY <1>4, <2>1, CatRegroups
  <2>3. QED
    BY <2>2 DEF Cat
<1>7. QED
  BY <1>6

-----------------------------------------------------------------------------
(* The bytes of a payload.                                                 *)

(* The first m bytes of the words D.                                       *)
Bytes(D, m) ==
    [i \in 1 .. m |-> <<D[((i - 1) \div WordLen) + 1], ((i - 1) % WordLen) + 1>>]

(* One of them.                                                            *)
LEMMA BytesAt ==
    ASSUME NEW D, NEW n, NEW j \in 1 .. n
    PROVE  Bytes(D, n)[j]
             = <<D[((j - 1) \div WordLen) + 1], ((j - 1) % WordLen) + 1>>
BY DEF Bytes

(* When a function on the first numbers is a sequence of X.                *)
LEMMA ListedSeq ==
    ASSUME NEW X, NEW n \in Nat, NEW s, s = [i \in 1 .. n |-> s[i]],
           \A i \in 1 .. n : s[i] \in X
    PROVE  s \in Seq(X) /\ Len(s) = n
OBVIOUS

(* Bytes of a word from the one behind the first r on.                     *)
Part(w, r, c) == [i \in 1 .. c |-> <<w, r + i>>]

(* Bytes of the next word follow.                                          *)
LEMMA BytesGrow ==
    ASSUME NEW D, NEW k \in Nat, NEW r \in Nat, NEW c \in Nat, r + c <= WordLen
    PROVE  Cat(Bytes(D, WordLen * k + r), Part(D[k + 1], r, c))
             = Bytes(D, WordLen * k + r + c)
<1> DEFINE m == WordLen * k + r
           more == Part(D[k + 1], r, c)
           X == {Bytes(D, m + c)[i] : i \in 1 .. m + c}
<1>1. m \in Nat /\ m + c \in Nat
  BY DEF WordLen
<1>2. \A i \in 1 .. c : more[i] = Bytes(D, m + c)[m + i]
  <2>1. ASSUME NEW i \in 1 .. c PROVE more[i] = Bytes(D, m + c)[m + i]
    <3> DEFINE j == m + i
               n == m + c
               b == r + i
    <3>1. b \in 1 .. WordLen /\ j \in 1 .. n /\ j = WordLen * k + b
      BY DEF WordLen
    <3>2. more[i] = <<D[k + 1], b>>
      BY DEF Part
    <3> HIDE DEF j, n, b
    <3>3. Bytes(D, n)[j] = <<D[((j - 1) \div WordLen) + 1], ((j - 1) % WordLen) + 1>>
      BY <3>1, BytesAt
    <3>4. ((j - 1) \div WordLen) + 1 = k + 1 /\ ((j - 1) % WordLen) + 1 = b
      BY <3>1 DEF WordLen
    <3>5. more[i] = Bytes(D, n)[j]
      BY <3>2, <3>3, <3>4
    <3>6. QED
      BY <3>5 DEF j, n
  <2>2. QED
    BY <2>1
<1>3. \A i \in 1 .. m : Bytes(D, m)[i] = Bytes(D, m + c)[i]
  <2> HIDE DEF m
  <2>1. \A i \in 1 .. m : i \in 1 .. m + c
    BY <1>1
  <2>2. QED
    BY <2>1, BytesAt
<1>4. Bytes(D, m) \in Seq(X) /\ Len(Bytes(D, m)) = m
  <2>1. \A i \in 1 .. m : Bytes(D, m)[i] \in X
    <3> HIDE DEF m
    <3>1. \A i \in 1 .. m : i \in 1 .. m + c
      BY <1>1
    <3>2. QED
      BY <1>3, <3>1
  <2>2. Bytes(D, m) = [i \in 1 .. m |-> Bytes(D, m)[i]]
    BY DEF Bytes
  <2> HIDE DEF m, X
  <2>3. QED
    BY <1>1, <2>1, <2>2
<1>5. more \in Seq(X) /\ Len(more) = c
  <2>1. \A i \in 1 .. c : more[i] \in X
    <3>1. \A i \in 1 .. c : m + i \in 1 .. m + c
      BY <1>1
    <3> HIDE DEF m, more
    <3>2. QED
      BY <1>1, <1>2, <3>1
  <2>2. more = [i \in 1 .. c |-> more[i]]
    BY DEF Part
  <2> HIDE DEF more, X
  <2>3. QED
    BY <2>1, <2>2
<1>6. Bytes(D, m + c) \in Seq(X) /\ Len(Bytes(D, m + c)) = m + c
  <2>1. Bytes(D, m + c) = [i \in 1 .. m + c |-> Bytes(D, m + c)[i]]
    BY DEF Bytes
  <2> HIDE DEF m
  <2>2. \A i \in 1 .. m + c : Bytes(D, m + c)[i] \in X
    OBVIOUS
  <2> DEFINE n == m + c
  <2> HIDE DEF X, n
  <2>3. n \in Nat
    BY <1>1 DEF n
  <2>4. Bytes(D, n) = [i \in 1 .. n |-> Bytes(D, n)[i]] /\ \A i \in 1 .. n : Bytes(D, n)[i] \in X
    BY <2>1, <2>2 DEF n
  <2>5. Bytes(D, n) \in Seq(X) /\ Len(Bytes(D, n)) = n
    BY <2>3, <2>4, ListedSeq
  <2>6. QED
    BY <2>5 DEF n
<1> HIDE DEF m, more, X
<1>7. Bytes(D, m) \o more \in Seq(X) /\ Len(Bytes(D, m) \o more) = m + c
      /\ \A i \in 1 .. m + c : (Bytes(D, m) \o more)[i] =
              IF i <= m THEN Bytes(D, m)[i] ELSE more[i - m]
  <2>1. /\ Bytes(D, m) \o more \in Seq(X)
        /\ Len(Bytes(D, m) \o more) = Len(Bytes(D, m)) + Len(more)
        /\ \A i \in 1 .. Len(Bytes(D, m)) + Len(more) : (Bytes(D, m) \o more)[i] =
              IF i <= Len(Bytes(D, m)) THEN Bytes(D, m)[i] ELSE more[i - Len(Bytes(D, m))]
    <3>1. Bytes(D, m) \in Seq(X) /\ more \in Seq(X)
      BY <1>4, <1>5
    <3>2. QED
      BY <3>1, ConcatProperties, Zenon
  <2>2. QED
    BY <1>4, <1>5, <2>1
<1>8. \A i \in 1 .. m + c : (Bytes(D, m) \o more)[i] = Bytes(D, m + c)[i]
  <2>1. ASSUME NEW i \in 1 .. m + c
        PROVE  (Bytes(D, m) \o more)[i] = Bytes(D, m + c)[i]
    <3>1. CASE i <= m
      BY <1>1, <1>3, <1>7, <3>1
    <3>2. CASE ~(i <= m)
      <4>1. i - m \in 1 .. c /\ m + (i - m) = i
        BY <1>1, <3>2
      <4>2. more[i - m] = Bytes(D, m + c)[m + (i - m)]
        BY <1>2, <4>1
      <4>3. QED
        BY <1>7, <3>2, <4>1, <4>2
    <3>3. QED
      BY <3>1, <3>2
  <2>2. QED
    BY <2>1
<1>9. Bytes(D, m) \o more = Bytes(D, m + c)
  BY <1>6, <1>7, <1>8, SeqEqual
<1>10. Cat(Bytes(D, m), more) = Bytes(D, m + c)
  BY <1>9 DEF Cat
<1>11. QED
  BY <1>10 DEF m, more

(* The bytes are a sequence ...                                            *)
LEMMA BytesType ==
    ASSUME NEW D, NEW m \in Nat, NEW X, \A i \in 1 .. m : Bytes(D, m)[i] \in X
    PROVE  Bytes(D, m) \in Seq(X) /\ Len(Bytes(D, m)) = m
<1>1. Bytes(D, m) = [i \in 1 .. m |-> Bytes(D, m)[i]]
  BY DEF Bytes
<1>2. QED
  BY <1>1, ListedSeq

(* ... of m elements.                                                      *)
LEMMA BytesLen ==
    ASSUME NEW D, NEW m \in Nat
    PROVE  Len(Bytes(D, m)) = m
<1> DEFINE X == {Bytes(D, m)[i] : i \in 1 .. m}
<1>1. \A i \in 1 .. m : Bytes(D, m)[i] \in X
  OBVIOUS
<1> HIDE DEF X
<1>2. QED
  BY <1>1, BytesType

(* The bytes of the first part of a payload come first.                    *)
LEMMA BytesPrefix ==
    ASSUME NEW W, NEW A \in Seq(W), NEW D \in Seq(W),
           Len(D) <= Len(A), D = SubSeq(A, 1, Len(D)),
           NEW m \in Nat, NEW n \in Nat, m <= n, m <= WordLen * Len(D)
    PROVE  IsPrefix(Bytes(D, m), Bytes(A, n))
<1> DEFINE X == {Bytes(A, n)[i] : i \in 1 .. n}
<1>1. \A i \in 1 .. m : Bytes(D, m)[i] = Bytes(A, n)[i]
  <2>1. ASSUME NEW i \in 1 .. m PROVE Bytes(D, m)[i] = Bytes(A, n)[i]
    <3> DEFINE k == ((i - 1) \div WordLen) + 1
    <3>1. k \in 1 .. Len(D)
      BY DEF WordLen
    <3>2. i \in 1 .. n
      OBVIOUS
    <3> HIDE DEF k
    <3>3. Bytes(D, m)[i] = <<D[k], ((i - 1) % WordLen) + 1>>
      BY BytesAt DEF k
    <3>4. Bytes(A, n)[i] = <<A[k], ((i - 1) % WordLen) + 1>>
      BY <3>2, BytesAt DEF k
    <3>5. D[k] = A[k]
      BY <3>1
    <3>6. QED
      BY <3>3, <3>4, <3>5
  <2>2. QED
    BY <2>1
<1>2. \A i \in 1 .. n : Bytes(A, n)[i] \in X
  OBVIOUS
<1>3. \A i \in 1 .. m : i \in 1 .. n
  OBVIOUS
<1> HIDE DEF X
<1>4. Bytes(A, n) \in Seq(X) /\ Len(Bytes(A, n)) = n
  BY <1>2, BytesType
<1>5. Bytes(D, m) \in Seq(X) /\ Len(Bytes(D, m)) = m
  BY <1>1, <1>2, <1>3, BytesType
<1>6. SubSeq(Bytes(D, m), 1, m) = SubSeq(Bytes(A, n), 1, m)
  BY <1>1, <1>4, <1>5
<1>7. QED
  BY <1>4, <1>5, <1>6 DEF IsPrefix

-----------------------------------------------------------------------------
(* Lines as concatenations.                                                *)

(* Its type and length.                                                    *)
LEMMA CatType ==
    ASSUME NEW W, NEW s \in Seq(W), NEW t \in Seq(W)
    PROVE  /\ Cat(s, t) \in Seq(W)
           /\ Len(Cat(s, t)) = Len(s) + Len(t)
BY DEF Cat

(* The elements of the first sequence ...                                  *)
LEMMA CatLeft ==
    ASSUME NEW W, NEW s \in Seq(W), NEW t \in Seq(W), NEW i \in 1 .. Len(s)
    PROVE  Cat(s, t)[i] = s[i]
BY ConcatProperties DEF Cat

(* ... and those of the second.                                            *)
LEMMA CatRight ==
    ASSUME NEW W, NEW s \in Seq(W), NEW t \in Seq(W), NEW i \in 1 .. Len(t)
    PROVE  Cat(s, t)[Len(s) + i] = t[i]
<1>1. Len(s) \in Nat /\ Len(t) \in Nat
  OBVIOUS
<1>2. Len(s) + i \in 1 .. Len(s) + Len(t) /\ ~(Len(s) + i <= Len(s))
      /\ (Len(s) + i) - Len(s) = i
  BY <1>1
<1>3. QED
  BY <1>2, ConcatProperties DEF Cat

(* Nothing to concatenate.                                                 *)
LEMMA CatNothing ==
    ASSUME NEW W, NEW s \in Seq(W)
    PROVE  Cat(s, << >>) = s /\ Cat(<< >>, s) = s
BY ConcatEmptySeq DEF Cat

(* It can be cancelled on both sides.                                      *)
LEMMA CatCancelsLeft ==
    ASSUME NEW W, NEW s \in Seq(W), NEW t \in Seq(W), NEW u \in Seq(W)
    PROVE  Cat(s, t) = Cat(s, u) => t = u
BY ConcatSimplifications DEF Cat

(* The other side.                                                         *)
LEMMA CatCancelsRight ==
    ASSUME NEW W, NEW s \in Seq(W), NEW t \in Seq(W), NEW u \in Seq(W)
    PROVE  Cat(s, u) = Cat(t, u) => s = t
BY ConcatSimplifications DEF Cat

(* An escape sequence has two words.                                       *)
LEMMA TwoWords ==
    ASSUME NEW W, NEW a \in W, NEW b \in W
    PROVE  /\ <<a, b>> \in Seq(W) /\ Len(<<a, b>>) = 2
           /\ <<a, b>>[1] = a /\ <<a, b>>[2] = b
OBVIOUS

(* It stands behind what precedes it.                                      *)
LEMMA LastTwo ==
    ASSUME NEW W, NEW X \in Seq(W), NEW s \in Seq(W), Len(s) = 2
    PROVE  /\ Len(Cat(X, s)) = Len(X) + 2
           /\ Cat(X, s)[Len(X) + 1] = s[1]
           /\ Cat(X, s)[Len(X) + 2] = s[2]
<1>1. Len(Cat(X, s)) = Len(X) + 2
  BY CatType
<1>2. \A i \in 1 .. Len(s) : Cat(X, s)[Len(X) + i] = s[i]
  BY CatRight
<1>3. 1 \in 1 .. Len(s) /\ 2 \in 1 .. Len(s)
  OBVIOUS
<1>4. QED
  BY <1>1, <1>2, <1>3

(* Two lines that end in two words are the same only if both parts are.    *)
LEMMA SameEnd ==
    ASSUME NEW W, NEW X \in Seq(W), NEW Y \in Seq(W), NEW s \in Seq(W),
           NEW t \in Seq(W), Len(s) = 2, Len(t) = 2
    PROVE  Cat(X, s) = Cat(Y, t) => X = Y /\ s = t
<1> DEFINE l == Cat(X, s)
           r == Cat(Y, t)
<1>1. Len(l) = Len(X) + 2 /\ l[Len(X) + 1] = s[1] /\ l[Len(X) + 2] = s[2]
  BY LastTwo
<1>2. Len(r) = Len(Y) + 2 /\ r[Len(Y) + 1] = t[1] /\ r[Len(Y) + 2] = t[2]
  BY LastTwo
<1>3. Len(X) \in Nat /\ Len(Y) \in Nat
  OBVIOUS
<1>4. s[1] = t[1] /\ s[2] = t[2] => s = t
  OBVIOUS
<1> HIDE DEF l, r
<1>5. l = r => s = t
  BY <1>1, <1>2, <1>3, <1>4
<1>6. Cat(X, s) = Cat(Y, s) => X = Y
  BY CatCancelsRight
<1>7. QED
  BY <1>5, <1>6 DEF l, r

(* What is known of the whole line is known of what is left of it.         *)
LEMMA Rest ==
    ASSUME NEW W, NEW X \in Seq(W), NEW e \in Seq(W), NEW rest \in Seq(W),
           NEW Y \in Seq(W), NEW T \in Seq(W),
           Cat(Cat(X, e), rest) = Cat(Cat(X, Y), T)
    PROVE  Cat(e, rest) = Cat(Y, T)
<1>1. Cat(X, Cat(e, rest)) = Cat(X, Cat(Y, T))
  BY CatRegroups
<1>2. Cat(e, rest) \in Seq(W) /\ Cat(Y, T) \in Seq(W)
  BY CatType
<1>3. QED
  BY <1>1, <1>2, CatCancelsLeft

(* The first word of a line.                                               *)
LEMMA HeadOfCat ==
    ASSUME NEW W, NEW Y \in Seq(W), NEW T \in Seq(W), Y # << >>
    PROVE  Cat(Y, T) # << >> /\ Head(Cat(Y, T)) = Y[1]
<1>1. 1 \in 1 .. Len(Y)
  OBVIOUS
<1>2. Cat(Y, T) \in Seq(W) /\ Len(Cat(Y, T)) = Len(Y) + Len(T) /\ Cat(Y, T)[1] = Y[1]
  BY <1>1, CatType, CatLeft
<1> DEFINE Z == Cat(Y, T)
<1> HIDE DEF Z
<1>3. Z \in Seq(W) /\ Len(Z) >= 1 /\ Z[1] = Y[1]
  BY <1>1, <1>2 DEF Z
<1>4. Z # << >> /\ Head(Z) = Y[1]
  BY <1>3
<1>5. QED
  BY <1>4 DEF Z

(* What a good line brings next ...                                        *)
LEMMA RestBegins ==
    ASSUME NEW W, NEW e \in Seq(W), NEW rest \in Seq(W), NEW Y \in Seq(W),
           NEW T \in Seq(W), e # << >>, Len(e) <= 1, Y # << >>,
           Cat(e, rest) = Cat(Y, T)
    PROVE  /\ e[1] = Y[1]
           /\ Len(Y) >= 2 => rest # << >> /\ Head(rest) = Y[2]
<1>1. /\ Len(e) \in Nat \ {0} /\ Len(rest) \in Nat
      /\ Len(Y) \in Nat \ {0} /\ Len(T) \in Nat
      /\ (rest # << >> <=> Len(rest) # 0) /\ (rest # << >> => Head(rest) = rest[1])
  OBVIOUS
<1>2. Len(e) + Len(rest) = Len(Y) + Len(T)
  <2>1. Len(Cat(e, rest)) = Len(e) + Len(rest) /\ Len(Cat(Y, T)) = Len(Y) + Len(T)
    BY CatType
  <2>2. QED
    BY <2>1
<1>3. e[1] = Y[1]
  <2>1. 1 \in 1 .. Len(e) /\ 1 \in 1 .. Len(Y)
    BY <1>1
  <2>2. Cat(e, rest)[1] = e[1] /\ Cat(Y, T)[1] = Y[1]
    BY <2>1, CatLeft
  <2>3. QED
    BY <2>2
<1>4. ASSUME Len(Y) >= 2 PROVE rest # << >> /\ Head(rest) = Y[2]
  <2>1. 1 \in 1 .. Len(rest) /\ 2 \in 1 .. Len(Y) /\ Len(e) + 1 \in {2}
    BY <1>1, <1>2, <1>4
  <2>2. Cat(e, rest)[Len(e) + 1] = rest[1]
    BY <2>1, CatRight
  <2>3. Cat(Y, T)[2] = Y[2]
    BY <2>1, CatLeft
  <2>4. rest[1] = Y[2]
    BY <2>1, <2>2, <2>3
  <2>5. QED
    BY <1>1, <2>1, <2>4
<1>5. QED
  BY <1>3, <1>4

(* Inside the payload, half of a pair read or not ...                      *)
LEMMA AheadInside ==
    ASSUME NEW W, Esc \in W, NEW A \in Seq(W), NEW k \in Nat, k < Len(A),
           NEW e \in Seq(W), NEW rest \in Seq(W), NEW T \in Seq(W)
    PROVE  Cat(Cat(Escaped(SubSeq(A, 1, k)), e), rest) = Cat(Escaped(A), T) =>
             /\ e = << >> => rest # << >> /\ Head(rest) = A[k + 1]
             /\ e = <<Esc>> => A[k + 1] = Esc /\ rest # << >> /\ Head(rest) = Esc
<1> DEFINE a == A[k + 1]
           X == Escaped(SubSeq(A, 1, k))
<1>1. PICK R \in Seq(W) : Escaped(A) = Cat(X, Cat(Pair(a), R))
  BY EscapedNext DEF Cat
<1>2. a \in W
  OBVIOUS
<1>3. X \in Seq(W)
  <2>1. SubSeq(A, 1, k) \in Seq(W)
    OBVIOUS
  <2>2. QED
    BY <2>1, EscapedType
<1> DEFINE P == Pair(a)
           Y == Cat(P, R)
<1> HIDE DEF X, a
<1>4. P \in Seq(W) /\ Len(P) \in {1, 2} /\ P[1] = a
  BY <1>2, PairType
<1>5. a = Esc => P[2] = Esc /\ Len(P) >= 2
  BY DEF Pair
<1> HIDE DEF P
<1>6. Y \in Seq(W) /\ Len(Y) >= 1 /\ Len(Y) >= Len(P)
  <2>1. Y \in Seq(W) /\ Len(Y) = Len(P) + Len(R)
    BY <1>4, CatType
  <2>2. Len(R) \in Nat
    OBVIOUS
  <2>3. QED
    BY <1>4, <2>1, <2>2
<1>7. Y[1] = a
  <2>1. 1 \in 1 .. Len(P)
    BY <1>4
  <2>2. QED
    BY <1>4, <2>1, CatLeft
<1>8. a = Esc => Y[2] = Esc /\ Len(Y) >= 2
  <2>1. a = Esc => 2 \in 1 .. Len(P)
    <3>1. Len(P) \in Nat
      BY <1>4
    <3>2. QED
      BY <1>5, <3>1
  <2>2. a = Esc => Y[2] = P[2]
    BY <1>4, <2>1, CatLeft
  <2>3. QED
    BY <1>5, <1>6, <2>2
<1> HIDE DEF Y
<1>10. Y # << >>
  BY <1>6
<1> SUFFICES ASSUME Cat(Cat(X, e), rest) = Cat(Escaped(A), T)
             PROVE  /\ e = << >> => rest # << >> /\ Head(rest) = a
                    /\ e = <<Esc>> => a = Esc /\ rest # << >> /\ Head(rest) = Esc
  BY DEF X, a
<1>9. Cat(e, rest) = Cat(Y, T)
  <2>1. Cat(Cat(X, e), rest) = Cat(Cat(X, Y), T)
    BY <1>1 DEF P, Y
  <2>2. QED
    BY <1>3, <1>6, <2>1, Rest
<1>11. e = << >> => rest # << >> /\ Head(rest) = Y[1]
  <2>1. e = << >> => Cat(e, rest) = rest
    BY CatNothing
  <2>2. Cat(Y, T) # << >> /\ Head(Cat(Y, T)) = Y[1]
    BY <1>6, <1>10, HeadOfCat
  <2>3. QED
    BY <1>9, <2>1, <2>2
<1>12. ASSUME e = <<Esc>>
       PROVE  a = Esc /\ rest # << >> /\ Head(rest) = Esc
  <2>1. e # << >> /\ Len(e) <= 1 /\ e[1] = Esc
    BY <1>12
  <2>2. e[1] = Y[1]
    BY <1>6, <1>9, <1>10, <2>1, RestBegins
  <2>3. a = Esc /\ Len(Y) >= 2 /\ Y[2] = Esc
    BY <1>7, <1>8, <2>1, <2>2
  <2>4. rest # << >> /\ Head(rest) = Y[2]
    BY <1>6, <1>9, <1>10, <2>1, <2>3, RestBegins
  <2>5. QED
    BY <2>3, <2>4
<1>13. QED
  BY <1>7, <1>11, <1>12

(* ... and behind it.                                                      *)
LEMMA AheadBehind ==
    ASSUME NEW W, Esc \in W, NEW A \in Seq(W),
           NEW e \in Seq(W), NEW rest \in Seq(W), NEW T \in Seq(W), Len(T) >= 2
    PROVE  Cat(Cat(Escaped(A), e), rest) = Cat(Escaped(A), T) =>
             /\ e = << >> => rest # << >> /\ Head(rest) = T[1]
             /\ e = <<Esc>> => rest # << >> /\ Head(rest) = T[2]
<1> DEFINE X == Escaped(A)
           N == << >>
<1>1. X \in Seq(W)
  BY EscapedType
<1>2. N \in Seq(W)
  OBVIOUS
<1>3. Cat(X, N) = X /\ Cat(N, T) = T /\ Cat(T, N) = T /\ Cat(N, rest) = rest
  BY <1>1, CatNothing
<1>4. T # << >> /\ Head(T) = T[1]
  OBVIOUS
<1>5. Len(<<Esc>>) <= 1 /\ <<Esc>> # << >>
  OBVIOUS
<1> HIDE DEF X
<1> SUFFICES ASSUME Cat(Cat(X, e), rest) = Cat(X, T)
             PROVE  /\ e = << >> => rest # << >> /\ Head(rest) = T[1]
                    /\ e = <<Esc>> => rest # << >> /\ Head(rest) = T[2]
  BY DEF X
<1>6. Cat(e, rest) = T
  <2> HIDE DEF N
  <2>1. Cat(Cat(X, e), rest) = Cat(Cat(X, N), T)
    BY <1>3
  <2>2. Cat(e, rest) = Cat(N, T)
    BY <1>1, <1>2, <2>1, Rest
  <2>3. QED
    BY <1>3, <2>2
<1>7. e = << >> => rest # << >> /\ Head(rest) = T[1]
  BY <1>3, <1>4, <1>6
<1>8. ASSUME e = <<Esc>> PROVE rest # << >> /\ Head(rest) = T[2]
  <2> HIDE DEF N
  <2>1. e # << >> /\ Len(e) <= 1
    BY <1>5, <1>8
  <2>2. Cat(e, rest) = Cat(T, N)
    BY <1>3, <1>6
  <2>3. QED
    BY <1>2, <1>4, <2>1, <2>2, RestBegins
<1>9. QED
  BY <1>7, <1>8

(* A word moves from the line to the digest.                               *)
LEMMA Moved ==
    ASSUME NEW W, NEW s \in Seq(W), NEW t \in Seq(W), t # << >>
    PROVE  Cat(Append(s, Head(t)), Tail(t)) = Cat(s, t)
<1> DEFINE h == <<Head(t)>>
           u == Tail(t)
<1>1. h \in Seq(W) /\ u \in Seq(W) /\ Cat(h, u) = t
  BY DEF Cat
<1>2. Append(s, Head(t)) = Cat(s, h)
  BY DEF Cat
<1> HIDE DEF h, u
<1>3. Cat(Cat(s, h), u) = Cat(s, t)
  BY <1>1, CatRegroups
<1>4. QED
  BY <1>2, <1>3 DEF u

(* The fields of a frame.                                                  *)
LEMMA FrameFields ==
    ASSUME NEW f \in Frame
    PROVE  f.words \in Seq(PayloadWord) /\ f.fill \in 0 .. 4
BY DEF Frame, BoundedSeq, SeqOf

(* What the reader has digested when a frame of the words D ends.          *)
SumOf(D, n) == Append(Cat(Escaped(D), <<Esc>>), Trailer(n))

(* It is what the sender sums up.                                          *)
LEMMA SumIsCat ==
    ASSUME NEW V, Esc \in V, NEW D \in Seq(V), NEW n
    PROVE  SumOf(D, n) = Cat(Escaped(D), <<Esc, Trailer(n)>>)
<1> DEFINE W == V \cup {Trailer(n)}
           X == Escaped(D)
           u == Trailer(n)
<1>1. X \in Seq(V)
  BY EscapedType
<1>2. V \subseteq W /\ Esc \in W /\ u \in W
  OBVIOUS
<1> HIDE DEF W, X, u
<1>3. X \in Seq(W)
  BY <1>1, <1>2, SeqMonotonic
<1>4. Append(X \o <<Esc>>, u) = X \o <<Esc, u>>
  BY <1>2, <1>3
<1>5. QED
  BY <1>4 DEF SumOf, Cat, X, u

(* The sum tells which words it is of, and how many fill bytes.            *)
LEMMA SumTellsFrame ==
    ASSUME NEW V, Esc \in V, NEW D \in Seq(V), NEW A \in Seq(V), NEW m, NEW n
    PROVE  SumOf(D, m) = SumOf(A, n) => D = A /\ m = n
<1> SUFFICES ASSUME SumOf(D, m) = SumOf(A, n) PROVE D = A /\ m = n
  OBVIOUS
<1> DEFINE W == V \cup {Trailer(m), Trailer(n)}
           X == Escaped(D)
           Y == Escaped(A)
           s == <<Esc, Trailer(m)>>
           t == <<Esc, Trailer(n)>>
<1>1. X \in Seq(V) /\ Y \in Seq(V)
  BY EscapedType
<1>2. V \subseteq W /\ Esc \in W /\ Trailer(m) \in W /\ Trailer(n) \in W
  OBVIOUS
<1>5. Cat(X, s) = Cat(Y, t)
  <2>1. SumOf(D, m) = Cat(X, s)
    BY SumIsCat
  <2>2. SumOf(A, n) = Cat(Y, t)
    BY SumIsCat
  <2>3. QED
    BY <2>1, <2>2
<1> HIDE DEF W, X, Y
<1>3. X \in Seq(W) /\ Y \in Seq(W)
  BY <1>1, <1>2, SeqMonotonic
<1>4. s \in Seq(W) /\ t \in Seq(W) /\ Len(s) = 2 /\ Len(t) = 2
      /\ s[2] = Trailer(m) /\ t[2] = Trailer(n)
  BY <1>2, TwoWords
<1> HIDE DEF s, t
<1>7. X = Y /\ s = t
  BY <1>3, <1>4, <1>5, SameEnd
<1>8. m = n
  <2>1. Trailer(m) = Trailer(n)
    BY <1>4, <1>7
  <2>2. QED
    BY <2>1 DEF Trailer
<1>9. D = A
  BY <1>7, EscapedInjective DEF X, Y
<1>10. QED
  BY <1>8, <1>9

-----------------------------------------------------------------------------
(* The two buffers.                                                        *)

(* The inductive invariant: while the reader reads, the first buffer has   *)
(* room and the second holds a whole word or nothing; while it returns, it *)
(* has not returned more than there is.                                    *)
BufferInv ==
    /\ state \in {"ReadBuf", "ReturnBuf", "End"}
    /\ returned \in 0 .. WordLen
    /\ read \in [{0, 1} -> 0 .. WordLen]
    /\ NeverReadsNothing
    /\ LastWordHeldBack
    /\ state = "ReadBuf" => read[Second] \in {0, WordLen}
    /\ state = "ReturnBuf" => returned <= read[First]

(* A new reader satisfies the invariant.                                   *)
LEMMA InitBufferInv == ReaderInit => BufferInv
BY DEF ReaderInit, BufferInv, NeverReadsNothing, LastWordHeldBack,
       First, Second, WordLen

(* BufferList::swap_buffers exchanges the two indices.                     *)
LEMMA Swapping ==
    ASSUME swapped' = ~swapped
    PROVE  First' = Second /\ Second' = First
<1>1. CASE swapped
  BY <1>1 DEF First, Second
<1>2. CASE ~swapped
  BY <1>2 DEF First, Second
<1>3. QED
  BY <1>1, <1>2

(* get(0) and get(1) are two different buffers.                            *)
LEMMA Indices == First \in {0, 1} /\ Second \in {0, 1} /\ First # Second
BY DEF First, Second

(* Whatever word completes, the invariant survives.                        *)
LEMMA ReadWordInv ==
    ASSUME NEW w, BufferInv, ReadWord(w)
    PROVE  BufferInv'
<1> USE Indices DEF BufferInv, NeverReadsNothing, LastWordHeldBack, WordLen, CanRead
(* A whole word in the first buffer, then swap_buffers.                    *)
<1>1. ASSUME state = "ReadBuf", FirstHolds(w, WordLen), ReturnPrevious
      PROVE  BufferInv'
  <2>1. First' = Second /\ Second' = First
    BY <1>1, Swapping DEF ReturnPrevious
  <2>2. read' = [read EXCEPT ![First] = 4]
    BY <1>1 DEF FirstHolds
  <2>3. CASE read[Second] > 0
    BY <1>1, <2>1, <2>2, <2>3 DEF ReturnPrevious
  <2>4. CASE ~(read[Second] > 0)
    BY <1>1, <2>1, <2>2, <2>4 DEF ReturnPrevious
  <2>5. QED
    BY <2>3, <2>4
<1>2. CASE ReadEscape(w)
  <2>1. First' = First /\ Second' = Second
    BY <1>2 DEF ReadEscape, First, Second
  <2>2. QED
    BY <1>2, <2>1 DEF ReadEscape, FirstHolds
<1>3. CASE ReadData(w) \/ ReadEscapedEscape(w)
  BY <1>1, <1>3 DEF ReadData, ReadEscapedEscape
<1>4. CASE ReadBadFooter(w) \/ ReadUnsupported(w)
  <2>1. state' = "End" /\ returned' = returned
    BY <1>4 DEF ReadBadFooter, ReadUnsupported, Fail
  <2>2. read' \in [{0, 1} -> 0 .. 4]
    BY <1>4 DEF ReadBadFooter, ReadUnsupported, FirstHolds
  <2>3. QED
    BY <2>1, <2>2
<1>5. CASE ReadGoodFooter(w)
  <2>1. First' = Second /\ Second' = First
    BY <1>5, Swapping DEF ReadGoodFooter
  <2>2. w.fill \in 0 .. 3 /\ w.fill <= read[Second]
    <3>1. w.fill \in 0 .. 255 /\ w.fill <= 3 /\ w.fill <= read[Second]
      BY <1>5, ZenonT(30) DEF ReadGoodFooter, IsFooter
    <3>2. QED
      BY <3>1
  <2>3. /\ read' = [read EXCEPT ![First] = 0, ![Second] = read[Second] - w.fill]
        /\ state' = "ReturnBuf" /\ returned' = 0 /\ lastone'
    BY <1>5 DEF ReadGoodFooter
  <2>4. QED
    BY <2>1, <2>2, <2>3
<1>6. QED
  BY <1>2, <1>3, <1>4, <1>5 DEF ReadWord

(* The other steps of the reader.                                          *)
LEMMA ReturnInv ==
    ASSUME NEW n \in 1 .. WordLen, BufferInv,
           ReadPart(n) \/ ReadError \/ Return(n) \/ Returned
    PROVE  BufferInv'
<1> USE DEF BufferInv, NeverReadsNothing, LastWordHeldBack, First,
            Second, WordLen, CanRead
<1>1. CASE ReadPart(n)
  BY <1>1 DEF ReadPart
<1>2. CASE ReadError
  BY <1>2 DEF ReadError, Fail
<1>3. CASE Return(n)
  BY <1>3 DEF Return
<1>4. CASE Returned
  BY <1>4 DEF Returned
<1>5. QED
  BY <1>1, <1>2, <1>3, <1>4

(* Every step keeps the invariant.                                         *)
LEMMA StepBufferInv == BufferInv /\ [Next]_vars => BufferInv'
<1> SUFFICES ASSUME BufferInv, [Next]_vars PROVE BufferInv'
  OBVIOUS
<1>1. ASSUME UNCHANGED reader PROVE BufferInv'
  BY <1>1 DEF reader, BufferInv, NeverReadsNothing, LastWordHeldBack,
              First, Second
<1>2. CASE Arrive \/ Garble
  BY <1>2, ReadWordInv DEF Arrive, Garble
<1>3. CASE ArrivePart
  BY <1>3, ReturnInv DEF ArrivePart
<1>4. CASE Break
  BY <1>4, ReturnInv DEF Break, WordLen
<1>5. CASE Consume
  BY <1>5, ReturnInv DEF Consume, WordLen
<1>6. CASE NextAttempt
  BY <1>6 DEF NextAttempt, BufferInv, NeverReadsNothing,
              LastWordHeldBack, First, Second, WordLen
<1>7. CASE SendNext \/ Lose \/ UNCHANGED vars
  BY <1>1, <1>7 DEF SendNext, Lose, vars
<1>8. QED
  BY <1>2, <1>3, <1>4, <1>5, <1>6, <1>7 DEF Next

(* So it always holds.                                                     *)
LEMMA AlwaysBufferInv == Spec => []BufferInv
<1>1. Init => BufferInv
  BY InitBufferInv DEF Init
<1>2. QED
  BY <1>1, StepBufferInv, PTL DEF Spec

(* The inner reader is never handed an empty buffer.                       *)
THEOREM NoEmptyRead == Spec => []NeverReadsNothing
<1>1. BufferInv => NeverReadsNothing
  BY DEF BufferInv
<1>2. QED
  BY <1>1, AlwaysBufferInv, PTL

(* Data is returned only while a later word of data is held back.          *)
THEOREM OneWordBehind == Spec => []LastWordHeldBack
<1>1. BufferInv => LastWordHeldBack
  BY DEF BufferInv
<1>2. QED
  BY <1>1, AlwaysBufferInv, PTL

-----------------------------------------------------------------------------
(* What has been read and returned.                                        *)

(* The words that can be on the line: what the meter sends in this attempt *)
(* and the noise.                                                          *)
OnLine == Noise \cup {Footer(f.fill, Summed(f)) : f \in Range(sent)}

(* Half of an escape sequence that has been read.                          *)
Half == IF in_esc THEN <<Esc>> ELSE << >>

(* D are the words of payload that have arrived since the start marker ... *)
Digested(D) ==
    /\ D \in Seq(OnLine)
    /\ digest = Cat(Escaped(D), Half)

(* ... the last of which the second buffer keeps.                          *)
HeldBack(D) ==
    IF D = << >> THEN read[Second] = 0
    ELSE read[Second] = WordLen /\ inner[Second] = D[Len(D)]

(* While the reader reads, all words but the last have been returned.      *)
Reading(D) ==
    /\ HeldBack(D)
    /\ out = Bytes(D, IF D = << >> THEN 0 ELSE WordLen * (Len(D) - 1))

(* While the word before it is returned, both buffers are full.            *)
Returning(D) ==
    /\ Len(D) >= 2 /\ ~in_esc
    /\ HeldBack(D)
    /\ read[First] = WordLen /\ inner[First] = D[Len(D) - 1]
    /\ out = Bytes(D, WordLen * (Len(D) - 2) + returned)

(* On a good line D is a part of the frame, and the line brings the rest.  *)
OnTrack(D) ==
    /\ Len(D) <= Len(sent[1].words)
    /\ D = SubSeq(sent[1].words, 1, Len(D))
    /\ Cat(digest, line) = Encode(sent[1])

(* An attempt whose footer has not arrived.                                *)
Underway(D) ==
    /\ Digested(D)
    /\ state = "ReadBuf" => Reading(D)
    /\ state = "ReturnBuf" => Returning(D)
    /\ faults = 0 => OnTrack(D)

(* The last word of f is being returned, without its fill bytes.           *)
ReturningLast(f) ==
    /\ state = "ReturnBuf"
    /\ Valid(f)
    /\ faults = 0 => f = sent[1]
    /\ IF f.words = << >>
       THEN read[First] = 0 /\ out = << >>
       ELSE /\ read[First] = WordLen - f.fill
            /\ returned < read[First]
            /\ inner[First] = f.words[Len(f.words)]
            /\ out = Bytes(f.words, WordLen * (Len(f.words) - 1) + returned)

(* The types of the line ...                                               *)
LineInv ==
    /\ sent \in Seq(Frame) /\ sent # << >>
    /\ line \in Seq(OnLine)
    /\ faults \in Nat

(* ... and of the fields of the reader that BufferInv leaves out.          *)
ReaderInv ==
    /\ in_esc \in BOOLEAN /\ lastone \in BOOLEAN /\ swapped \in BOOLEAN
    /\ inner = [i \in {0, 1} |-> inner[i]]

(* What the attempt has come to.                                           *)
AttemptInv ==
    /\ state # "End" => verdict = "open"
    /\ state # "End" /\ ~lastone => \E D : Underway(D)
    /\ state # "End" /\ lastone => \E f \in Range(sent) : ReturningLast(f)
    /\ CleanIsSent
    /\ faults = 0 /\ Valid(sent[1]) /\ state = "End" => out = Payload(sent[1])

(* The inductive invariant of the frame layer.                             *)
FrameInv == BufferInv /\ LineInv /\ ReaderInv /\ AttemptInv

(* Payload words are among them.                                           *)
LEMMA EscOnLine == Esc \in OnLine /\ PayloadWord \subseteq OnLine
BY DEF OnLine, Noise, PayloadWord

(* The fields of a frame that was sent.                                    *)
LEMMA SentFields ==
    ASSUME LineInv, NEW f \in Range(sent)
    PROVE  /\ f \in Frame
           /\ f.words \in Seq(OnLine) /\ f.words \in Seq(PayloadWord)
           /\ f.fill \in 0 .. 4
<1>1. f \in Frame
  BY RangeOfSeq DEF LineInv
<1>2. f.words \in Seq(PayloadWord) /\ f.fill \in 0 .. 4
  BY <1>1, FrameFields
<1>3. f.words \in Seq(OnLine)
  BY <1>2, EscOnLine, SeqMonotonic
<1>4. QED
  BY <1>1, <1>2, <1>3

(* The attempt's own frame is one of those.                                *)
LEMMA FirstSent ==
    ASSUME LineInv
    PROVE  sent[1] \in Range(sent) /\ Footer(sent[1].fill, Summed(sent[1])) \in OnLine
<1>1. 1 \in 1 .. Len(sent) /\ DOMAIN sent = 1 .. Len(sent)
  BY DEF LineInv
<1>2. sent[1] \in Range(sent)
  BY <1>1 DEF Range
<1>3. QED
  BY <1>2 DEF OnLine

(* The line as a concatenation.                                            *)
LEMMA EncodeIsCat ==
    \A f : Encode(f) = Cat(Escaped(f.words), <<Esc, Footer(f.fill, Summed(f))>>)
BY DEF Encode, Cat

(* Escaping word by word.                                                  *)
LEMMA DigestData ==
    ASSUME NEW W, Esc \in W, NEW D \in Seq(W), NEW w \in W, w # Esc
    PROVE  Append(Cat(Escaped(D), << >>), w) = Cat(Escaped(Append(D, w)), << >>)
<1> DEFINE X == Escaped(D)
           Y == Escaped(Append(D, w))
<1>1. X \in Seq(W) /\ Append(D, w) \in Seq(W)
  BY EscapedType
<1>2. Y \in Seq(W)
  BY <1>1, EscapedType
<1>3. Y = X \o <<w>>
  BY EscapedAppend DEF Pair
<1> HIDE DEF X, Y
<1>4. Cat(X, << >>) = X /\ Cat(Y, << >>) = Y
  BY <1>1, <1>2, CatNothing
<1>5. Append(X, w) = X \o <<w>>
  BY <1>1
<1>6. QED
  BY <1>3, <1>4, <1>5 DEF X, Y

(* The first half of an escaped escape word ...                            *)
LEMMA DigestEscape ==
    ASSUME NEW W, Esc \in W, NEW D \in Seq(W)
    PROVE  Append(Cat(Escaped(D), << >>), Esc) = Cat(Escaped(D), <<Esc>>)
<1> DEFINE X == Escaped(D)
<1>1. X \in Seq(W)
  BY EscapedType
<1> HIDE DEF X
<1>2. Append(X, Esc) = X \o <<Esc>>
  BY <1>1
<1>3. QED
  BY <1>1, <1>2, CatNothing DEF X, Cat

(* ... and the second.                                                     *)
LEMMA DigestPair ==
    ASSUME NEW W, Esc \in W, NEW D \in Seq(W)
    PROVE  Append(Cat(Escaped(D), <<Esc>>), Esc) = Cat(Escaped(Append(D, Esc)), << >>)
<1> DEFINE X == Escaped(D)
           Y == Escaped(Append(D, Esc))
<1>1. X \in Seq(W) /\ Append(D, Esc) \in Seq(W)
  BY EscapedType
<1>2. Y \in Seq(W)
  BY <1>1, EscapedType
<1>3. Y = X \o <<Esc, Esc>>
  BY EscapedAppend DEF Pair
<1> HIDE DEF X, Y
<1>4. Cat(Y, << >>) = Y
  BY <1>2, CatNothing
<1>5. Append(X \o <<Esc>>, Esc) = X \o <<Esc, Esc>>
  BY <1>1
<1>6. QED
  BY <1>3, <1>4, <1>5 DEF X, Y, Cat

(* What a longer payload begins with.                                      *)
LEMMA BytesOfMore ==
    ASSUME NEW W, NEW D \in Seq(W), NEW w \in W, NEW m \in Nat, m <= WordLen * Len(D)
    PROVE  Bytes(Append(D, w), m) = Bytes(D, m)
<1>1. ASSUME NEW i \in 1 .. m
      PROVE  Append(D, w)[((i - 1) \div WordLen) + 1] = D[((i - 1) \div WordLen) + 1]
  <2> DEFINE k == ((i - 1) \div WordLen) + 1
  <2>1. k \in 1 .. Len(D)
    BY DEF WordLen
  <2> HIDE DEF k
  <2>2. Append(D, w)[k] = D[k]
    BY <2>1
  <2>3. QED
    BY <2>2 DEF k
<1>2. QED
  BY <1>1 DEF Bytes

(* No bytes.                                                               *)
LEMMA NoBytes == \A D : Bytes(D, 0) = << >>
BY DEF Bytes

(* Half is one word or none.                                               *)
LEMMA HalfType == Half \in Seq(OnLine) /\ (~in_esc => Half = << >>) /\ (in_esc => Half = <<Esc>>)
BY EscOnLine DEF Half

(* The word a good line brings next.                                       *)
LEMMA NextOnTrack ==
    ASSUME LineInv, NEW D, Digested(D), OnTrack(D)
    PROVE  /\ line # << >>
           /\ Len(D) < Len(sent[1].words) =>
                /\ ~in_esc => Head(line) = sent[1].words[Len(D) + 1]
                /\ in_esc => sent[1].words[Len(D) + 1] = Esc /\ Head(line) = Esc
           /\ Len(D) = Len(sent[1].words) =>
                /\ D = sent[1].words
                /\ ~in_esc => Head(line) = Esc
                /\ in_esc => Head(line) = Footer(sent[1].fill, Summed(sent[1]))
<1> DEFINE A == sent[1].words
           T == <<Esc, Footer(sent[1].fill, Summed(sent[1]))>>
           k == Len(D)
           e == Half
<1>1. sent[1] \in Range(sent)
  BY FirstSent
<1>2. A \in Seq(OnLine)
  BY <1>1, SentFields
<1>3. T \in Seq(OnLine) /\ Len(T) >= 2 /\ T[1] = Esc
      /\ T[2] = Footer(sent[1].fill, Summed(sent[1]))
  <2> DEFINE u == Footer(sent[1].fill, Summed(sent[1]))
  <2>1. u \in OnLine /\ Esc \in OnLine
    BY FirstSent, EscOnLine
  <2> HIDE DEF u
  <2>2. QED
    BY <2>1, TwoWords DEF u
<1>4. e \in Seq(OnLine) /\ (~in_esc => e = << >>) /\ (in_esc => e = <<Esc>>)
  BY HalfType
<1>5. line \in Seq(OnLine) /\ Esc \in OnLine
  BY EscOnLine DEF LineInv
<1>6. Cat(Cat(Escaped(D), e), line) = Cat(Escaped(A), T)
  BY EncodeIsCat DEF Digested, OnTrack
<1>7. k \in Nat /\ k <= Len(A) /\ D = SubSeq(A, 1, k)
  BY DEF Digested, OnTrack
<1> HIDE DEF A, T, k, e
<1>8. CASE k < Len(A)
  <2>1. Cat(Cat(Escaped(SubSeq(A, 1, k)), e), line) = Cat(Escaped(A), T)
    BY <1>6, <1>7
  <2>2. /\ e = << >> => line # << >> /\ Head(line) = A[k + 1]
        /\ e = <<Esc>> => A[k + 1] = Esc /\ line # << >> /\ Head(line) = Esc
    BY <1>2, <1>3, <1>4, <1>5, <1>7, <1>8, <2>1, AheadInside
  <2>3. in_esc \/ ~in_esc
    OBVIOUS
  <2>4. Len(A) \in Nat
    BY <1>2
  <2>5. ~(k = Len(A))
    BY <1>7, <1>8, <2>4
  <2>6. QED
    BY <1>4, <1>8, <2>2, <2>3, <2>5 DEF A, k
<1>9. CASE k = Len(A)
  <2>0. D = A
    BY <1>2, <1>7, <1>9, SubSeqFull
  <2>1. Cat(Cat(Escaped(A), e), line) = Cat(Escaped(A), T)
    BY <1>6, <2>0
  <2>2. /\ e = << >> => line # << >> /\ Head(line) = T[1]
        /\ e = <<Esc>> => line # << >> /\ Head(line) = T[2]
    BY <1>2, <1>3, <1>4, <1>5, <2>1, AheadBehind
  <2>3. in_esc \/ ~in_esc
    OBVIOUS
  <2>4. Len(A) \in Nat
    BY <1>2
  <2>5. ~(k < Len(A))
    BY <1>7, <1>9, <2>4
  <2>6. QED
    BY <1>3, <1>4, <1>9, <2>0, <2>2, <2>3, <2>5 DEF A, k
<1>10. QED
  <2>1. Len(A) \in Nat
    BY <1>2
  <2>2. k < Len(A) \/ k = Len(A)
    BY <1>7, <2>1
  <2>3. QED
    BY <1>8, <1>9, <2>2

(* The payload grows along the frame.                                      *)
LEMMA FurtherOnTrack ==
    ASSUME NEW W, NEW A \in Seq(W), NEW D \in Seq(W), Len(D) < Len(A),
           D = SubSeq(A, 1, Len(D))
    PROVE  /\ Len(Append(D, A[Len(D) + 1])) <= Len(A)
           /\ Append(D, A[Len(D) + 1]) =
                SubSeq(A, 1, Len(Append(D, A[Len(D) + 1])))
<1> DEFINE k == Len(D)
<1>1. k \in Nat /\ Len(A) \in Nat /\ k < Len(A) /\ D = SubSeq(A, 1, k)
  OBVIOUS
<1>2. A[k + 1] \in W /\ Len(Append(D, A[k + 1])) = k + 1
  BY <1>1
<1> HIDE DEF k
<1>3. Append(SubSeq(A, 1, k), A[k + 1]) = SubSeq(A, 1, k + 1)
  BY <1>1
<1>4. QED
  BY <1>1, <1>2, <1>3 DEF k

(* What the sender sums up is what the reader has digested by then.        *)
LEMMA SummedIsSumOf ==
    ASSUME LineInv, NEW f \in Range(sent)
    PROVE  Summed(f) = SumOf(f.words, f.fill)
<1>1. f.words \in Seq(OnLine) /\ Esc \in OnLine
  BY SentFields, EscOnLine
<1>2. SumOf(f.words, f.fill) = Cat(Escaped(f.words), <<Esc, Trailer(f.fill)>>)
  BY <1>1, SumIsCat
<1>3. QED
  BY <1>2 DEF Summed, Cat

-----------------------------------------------------------------------------
(* Words arrive.                                                           *)

(* A step in which a word completes, garbled or not.                       *)
Delivers(w) ==
    /\ w \in OnLine
    /\ sent' = sent
    /\ line' \in Seq(OnLine)
    /\ faults' \in Nat
    /\ faults' = 0 =>
          faults = 0 /\ line # << >> /\ w = Head(line) /\ line' = Tail(line)

(* It leaves the line a line ...                                           *)
LEMMA DeliveredLine ==
    ASSUME LineInv, NEW w, Delivers(w)
    PROVE  LineInv' /\ OnLine' = OnLine
<1>1. OnLine' = OnLine
  BY DEF Delivers, OnLine
<1>2. QED
  BY <1>1 DEF Delivers, LineInv

(* ... and if it is not garbled, nothing is lost: digest and line together *)
(* are still the frame.                                                    *)
LEMMA DeliveredTrack ==
    ASSUME LineInv, NEW w, Delivers(w), NEW D, Digested(D), OnTrack(D),
           digest' = Append(digest, w), faults' = 0
    PROVE  Cat(digest', line') = Encode(sent'[1])
<1>1. line \in Seq(OnLine) /\ line # << >> /\ w = Head(line) /\ line' = Tail(line)
  BY DEF LineInv, Delivers
<1>2. digest \in Seq(OnLine)
  <2>1. Escaped(D) \in Seq(OnLine)
    BY EscOnLine, EscapedType DEF Digested
  <2>2. QED
    BY <2>1, HalfType, CatType DEF Digested
<1>3. Cat(Append(digest, Head(line)), Tail(line)) = Cat(digest, line)
  BY <1>1, <1>2, Moved
<1>4. sent' = sent /\ Cat(digest, line) = Encode(sent[1])
  BY DEF Delivers, OnTrack
<1>5. QED
  BY <1>1, <1>3, <1>4

(* While the reader reads, the attempt is under way.                       *)
LEMMA ReadingUnderway ==
    ASSUME FrameInv, state = "ReadBuf"
    PROVE  ~lastone /\ \E D : Underway(D)
<1>1. lastone => FALSE
  BY DEF FrameInv, AttemptInv, ReturningLast
<1>2. QED
  BY <1>1 DEF FrameInv, AttemptInv, ReaderInv

(* One more word of payload: the word before it is returned.               *)
LEMMA WordArrives ==
    ASSUME FrameInv, NEW w \in OnLine, CanRead, FirstHolds(w, WordLen), ReturnPrevious,
           ~in_esc', OnLine' = OnLine, sent' = sent, out' = out, verdict' = verdict,
           NEW D, Digested(D), Reading(D),
           digest' = Cat(Escaped(Append(D, w)), << >>),
           faults' = 0 => OnTrack(Append(D, w))'
    PROVE  AttemptInv'
<1> DEFINE E == Append(D, w)
<1>1. /\ state = "ReadBuf" /\ ~lastone /\ D \in Seq(OnLine)
      /\ read \in [{0, 1} -> 0 .. WordLen]
      /\ read[Second] \in {0, WordLen}
  BY ReadingUnderway DEF FrameInv, BufferInv, CanRead, Digested
<1>2. E \in Seq(OnLine) /\ Len(E) = Len(D) + 1 /\ E[Len(E)] = w /\ E # << >>
      /\ (D # << >> => Len(D) >= 1 /\ E[Len(E) - 1] = D[Len(D)])
      /\ Len(D) \in Nat
  BY <1>1
<1>3. First' = Second /\ Second' = First
  BY Swapping DEF ReturnPrevious
<1>4. /\ read' = [read EXCEPT ![First] = WordLen]
      /\ inner' = [inner EXCEPT ![First] = w]
      /\ inner = [i \in {0, 1} |-> inner[i]]
  BY DEF FirstHolds, FrameInv, ReaderInv
<1>5. read'[First] = WordLen /\ inner'[First] = w
      /\ read'[Second] = read[Second] /\ inner'[Second] = inner[Second]
  BY <1>1, <1>4, Indices
<1>6. Half' = << >>
  BY DEF Half
<1> HIDE DEF E
<1>7. Digested(E)'
  BY <1>2, <1>6 DEF Digested, E
<1>8. HeldBack(E)'
  BY <1>2, <1>3, <1>5 DEF HeldBack
<1>9. CASE D = << >>
  <2>1. read[Second] = 0 /\ out = << >>
    BY <1>9, NoBytes DEF Reading, HeldBack
  <2>2. state' = "ReadBuf" /\ lastone' = lastone
    BY <1>1, <2>1 DEF ReturnPrevious
  <2>3. Len(E) - 1 = 0
    BY <1>2, <1>9
  <2>4. Bytes(E, WordLen * (Len(E) - 1)) = << >>
    <3>1. \A n \in Int : n = 0 => WordLen * n = 0
      BY DEF WordLen
    <3>3. Len(E) - 1 \in Int
      BY <1>2
    <3>4. WordLen * (Len(E) - 1) = 0
      BY <2>3, <3>1, <3>3
    <3>2. QED
      BY <3>4, NoBytes
  <2>5. Reading(E)'
    BY <1>2, <1>8, <2>1, <2>4 DEF Reading
  <2>6. Underway(E)'
    BY <1>7, <2>2, <2>5 DEF Underway, E
  <2>7. verdict = "open"
    BY <1>1 DEF FrameInv, AttemptInv
  <2>8. QED
    BY <1>1, <2>2, <2>6, <2>7 DEF AttemptInv, CleanIsSent
<1>10. CASE D # << >>
  <2>1. read[Second] = WordLen /\ inner[Second] = D[Len(D)]
        /\ out = Bytes(D, WordLen * (Len(D) - 1))
    BY <1>10 DEF Reading, HeldBack
  <2>2. state' = "ReturnBuf" /\ returned' = 0 /\ lastone' = FALSE
    BY <2>1 DEF ReturnPrevious, WordLen
  <2>3. out' = Bytes(E, WordLen * (Len(E) - 2) + returned')
    <3>1. WordLen * (Len(E) - 2) + 0 = WordLen * (Len(D) - 1)
      BY <1>2 DEF WordLen
    <3>2. Bytes(E, WordLen * (Len(D) - 1)) = Bytes(D, WordLen * (Len(D) - 1))
      <4>1. WordLen * (Len(D) - 1) \in Nat /\ WordLen * (Len(D) - 1) <= WordLen * Len(D)
        BY <1>2, <1>10 DEF WordLen
      <4>2. QED
        BY <1>1, <4>1, BytesOfMore DEF E
    <3>3. QED
      BY <2>1, <2>2, <3>1, <3>2
  <2>4. Len(E) >= 2
    BY <1>2, <1>10
  <2>5. Returning(E)'
    BY <1>2, <1>3, <1>5, <1>8, <1>10, <2>1, <2>2, <2>3, <2>4 DEF Returning
  <2>6. Underway(E)'
    BY <1>7, <2>2, <2>5 DEF Underway, E
  <2>7. verdict = "open"
    BY <1>1 DEF FrameInv, AttemptInv
  <2>8. QED
    BY <1>1, <2>2, <2>6, <2>7 DEF AttemptInv, CleanIsSent
<1>11. QED
  BY <1>9, <1>10

(* A word of data, or the second half of an escaped escape word.           *)
LEMMA DataArrives ==
    ASSUME FrameInv, NEW w, Delivers(w), ReadData(w) \/ ReadEscapedEscape(w)
    PROVE  AttemptInv'
<1>1. PICK D : Underway(D)
  BY ReadingUnderway DEF ReadData, ReadEscapedEscape, CanRead
<1>2. Digested(D) /\ Reading(D) /\ (faults = 0 => OnTrack(D)) /\ D \in Seq(OnLine)
  BY <1>1 DEF ReadData, ReadEscapedEscape, CanRead, Underway, Digested
<1>3. LineInv /\ w \in OnLine /\ Esc \in OnLine /\ OnLine' = OnLine /\ sent' = sent
  BY DeliveredLine, EscOnLine DEF FrameInv, Delivers
<1>4. /\ CanRead /\ FirstHolds(w, WordLen) /\ ReturnPrevious
      /\ out' = out /\ verdict' = verdict /\ digest' = Append(digest, w)
  BY DEF ReadData, ReadEscapedEscape
<1>5. ~in_esc'
  BY DEF ReadData, ReadEscapedEscape, FrameInv, ReaderInv
<1>6. in_esc <=> w = Esc
  BY DEF ReadData, ReadEscapedEscape
<1>7. digest' = Cat(Escaped(Append(D, w)), << >>)
  <2>1. CASE ~in_esc
    <3>1. digest = Cat(Escaped(D), << >>)
      BY <1>2, <2>1, HalfType DEF Digested
    <3>2. w # Esc
      BY <1>6, <2>1
    <3>3. Append(Cat(Escaped(D), << >>), w) = Cat(Escaped(Append(D, w)), << >>)
      BY <1>2, <1>3, <3>2, DigestData
    <3>4. QED
      BY <1>4, <3>1, <3>3
  <2>2. CASE in_esc
    <3>1. digest = Cat(Escaped(D), <<Esc>>)
      BY <1>2, <2>2, HalfType DEF Digested
    <3>2. w = Esc
      BY <1>6, <2>2
    <3>3. Append(Cat(Escaped(D), <<Esc>>), Esc) = Cat(Escaped(Append(D, Esc)), << >>)
      BY <1>2, <1>3, DigestPair
    <3>4. QED
      BY <1>4, <3>1, <3>2, <3>3
  <2>3. QED
    BY <2>1, <2>2
<1>8. ASSUME faults' = 0 PROVE OnTrack(Append(D, w))'
  <2> DEFINE A == sent[1].words
  <2>1. OnTrack(D) /\ w = Head(line)
    BY <1>2, <1>8 DEF Delivers
  <2>2. A \in Seq(OnLine) /\ Len(A) \in Nat /\ Len(D) \in Nat /\ Len(D) <= Len(A)
        /\ D = SubSeq(A, 1, Len(D))
    BY <1>2, <1>3, <2>1, FirstSent, SentFields DEF OnTrack
  <2>3. Footer(sent[1].fill, Summed(sent[1])) # Esc
    BY DEF Footer, Esc
  <2>4. Len(D) # Len(A)
    BY <1>2, <1>3, <1>6, <2>1, <2>3, NextOnTrack
  <2>5. Len(D) < Len(A)
    BY <2>2, <2>4
  <2>6. w = A[Len(D) + 1]
    BY <1>2, <1>3, <1>6, <2>1, <2>5, NextOnTrack
  <2>7. Cat(digest', line') = Encode(sent'[1])
    BY <1>2, <1>3, <1>4, <1>8, <2>1, DeliveredTrack
  <2> HIDE DEF A
  <2>8. Len(Append(D, w)) <= Len(A) /\ Append(D, w) = SubSeq(A, 1, Len(Append(D, w)))
    BY <1>2, <2>2, <2>5, <2>6, FurtherOnTrack
  <2>9. QED
    BY <1>3, <2>7, <2>8 DEF OnTrack, A
<1>9. QED
  BY <1>2, <1>3, <1>4, <1>5, <1>7, <1>8, WordArrives

(* The first half of an escape sequence.                                   *)
LEMMA EscapeArrives ==
    ASSUME FrameInv, NEW w, Delivers(w), ReadEscape(w)
    PROVE  AttemptInv'
<1>1. PICK D : Underway(D)
  BY ReadingUnderway DEF ReadEscape, CanRead
<1>2. /\ Digested(D) /\ Reading(D) /\ (faults = 0 => OnTrack(D)) /\ D \in Seq(OnLine)
      /\ state = "ReadBuf" /\ ~lastone /\ verdict = "open"
  BY <1>1, ReadingUnderway DEF ReadEscape, CanRead, Underway, Digested, FrameInv, AttemptInv
<1>3. LineInv /\ w = Esc /\ Esc \in OnLine /\ OnLine' = OnLine /\ sent' = sent
  BY DeliveredLine, EscOnLine DEF FrameInv, Delivers, ReadEscape
<1>4. /\ state' = state /\ lastone' = lastone /\ swapped' = swapped
      /\ out' = out /\ verdict' = verdict /\ digest' = Append(digest, w)
      /\ read' = [read EXCEPT ![First] = 0] /\ inner' = [inner EXCEPT ![First] = w]
      /\ in_esc' /\ ~in_esc
  BY DEF ReadEscape, FirstHolds
<1>5. read'[Second] = read[Second] /\ inner'[Second] = inner[Second]
      /\ First' = First /\ Second' = Second
  BY <1>4, Indices DEF FrameInv, BufferInv, ReaderInv, First, Second
<1>6. Digested(D)'
  <2>1. digest = Cat(Escaped(D), << >>)
    BY <1>2, <1>4, HalfType DEF Digested
  <2>2. Append(Cat(Escaped(D), << >>), Esc) = Cat(Escaped(D), <<Esc>>)
    BY <1>2, <1>3, DigestEscape
  <2>3. Half' = <<Esc>>
    BY <1>4 DEF Half
  <2>4. QED
    BY <1>2, <1>3, <1>4, <2>1, <2>2, <2>3 DEF Digested
<1>7. Reading(D)'
  BY <1>2, <1>4, <1>5 DEF Reading, HeldBack
<1>8. ASSUME faults' = 0 PROVE OnTrack(D)'
  <2>1. OnTrack(D)
    BY <1>2, <1>8 DEF Delivers
  <2>2. Cat(digest', line') = Encode(sent'[1])
    BY <1>2, <1>3, <1>4, <1>8, <2>1, DeliveredTrack
  <2>3. QED
    BY <1>3, <2>1, <2>2 DEF OnTrack
<1>9. Underway(D)'
  BY <1>2, <1>4, <1>6, <1>7, <1>8 DEF Underway
<1>10. QED
  BY <1>2, <1>4, <1>9 DEF AttemptInv, CleanIsSent

(* The words that can look like a footer with a sum that matches.          *)
LEMMA HonestFooter ==
    ASSUME LineInv, NEW w \in OnLine, NEW D, Digested(D), in_esc, IsFooter(w),
           w.crc = Append(digest, Trailer(w.fill))
    PROVE  \E f \in Range(sent) : f.words = D /\ f.fill = w.fill
<1>1. digest = Cat(Escaped(D), <<Esc>>) /\ D \in Seq(OnLine)
  BY HalfType DEF Digested
<1>2. CASE w \in Noise
  <2>1. w = Footer(0, << >>)
    BY <1>2 DEF Noise, PayloadWord, IsFooter, Esc, DataWord, Start, Footer
  <2>2. w.crc = << >>
    BY <2>1 DEF Footer
  <2>3. Cat(Escaped(D), <<Esc>>) \in Seq(OnLine)
    <3>1. Escaped(D) \in Seq(OnLine) /\ <<Esc>> \in Seq(OnLine)
      BY <1>1, EscOnLine, EscapedType
    <3>2. QED
      BY <3>1, CatType
  <2>4. digest \in Seq(OnLine)
    BY <1>1, <2>3
  <2>5. Append(digest, Trailer(w.fill)) # << >>
    BY <2>4
  <2>6. QED
    BY <2>2, <2>5
<1>3. CASE w \notin Noise
  <2>1. PICK f \in Range(sent) : w = Footer(f.fill, Summed(f))
    BY <1>3 DEF OnLine
  <2>2. w.fill = f.fill /\ w.crc = Summed(f)
    BY <2>1 DEF Footer
  <2>3. Append(digest, Trailer(w.fill)) = SumOf(D, w.fill)
    BY <1>1 DEF SumOf
  <2>4. f.words \in Seq(OnLine) /\ Esc \in OnLine
    BY SentFields, EscOnLine
  <2>5. SumOf(D, w.fill) = SumOf(f.words, f.fill)
    BY <2>2, <2>3, SummedIsSumOf
  <2>6. D = f.words
    BY <1>1, <2>4, <2>5, SumTellsFrame
  <2>7. QED
    BY <2>2, <2>6
<1>4. QED
  BY <1>2, <1>3

(* On a good line a footer that arrives is the frame's.                    *)
LEMMA FooterOnTrack ==
    ASSUME LineInv, NEW D, Digested(D), OnTrack(D), in_esc, NEW w, w = Head(line), w # Esc
    PROVE  D = sent[1].words /\ w = Footer(sent[1].fill, Summed(sent[1]))
<1>1. Len(sent[1].words) \in Nat /\ Len(D) \in Nat /\ Len(D) <= Len(sent[1].words)
  <2>1. sent[1].words \in Seq(OnLine) /\ D \in Seq(OnLine)
    BY FirstSent, SentFields DEF Digested
  <2>2. QED
    BY <2>1 DEF OnTrack
<1>2. ~(Len(D) < Len(sent[1].words))
  BY NextOnTrack
<1>3. Len(D) = Len(sent[1].words)
  BY <1>1, <1>2
<1>4. QED
  BY <1>3, NextOnTrack

(* A good footer: the last word is returned without the fill bytes.        *)
LEMMA GoodFooterArrives ==
    ASSUME FrameInv, NEW w, Delivers(w), ReadGoodFooter(w)
    PROVE  AttemptInv'
<1>1. PICK D : Underway(D)
  BY ReadingUnderway DEF ReadGoodFooter, CanRead
<1>2. /\ Digested(D) /\ Reading(D) /\ (faults = 0 => OnTrack(D)) /\ D \in Seq(OnLine)
      /\ state = "ReadBuf" /\ verdict = "open" /\ LineInv /\ w \in OnLine
      /\ sent' = sent
  BY <1>1 DEF ReadGoodFooter, CanRead, Underway, Digested, FrameInv, AttemptInv, Delivers
<1>3. /\ in_esc /\ IsFooter(w) /\ w.crc = Append(digest, Trailer(w.fill))
      /\ w.fill <= 3 /\ w.fill <= read[Second]
      /\ swapped' = ~swapped
      /\ inner' = [inner EXCEPT ![First] = w]
      /\ read' = [read EXCEPT ![First] = 0, ![Second] = read[Second] - w.fill]
      /\ state' = "ReturnBuf" /\ returned' = 0 /\ lastone' = TRUE
      /\ verdict' = verdict /\ out' = out
  BY DEF ReadGoodFooter
<1>4. PICK f \in Range(sent) : f.words = D /\ f.fill = w.fill
  BY <1>2, <1>3, HonestFooter
<1>5. f \in Frame /\ f.fill \in 0 .. 4 /\ f.words \in Seq(OnLine)
  BY <1>2, SentFields
<1>6. First' = Second /\ Second' = First
  BY <1>3, Swapping
<1>7. /\ read'[Second] = read[Second] - f.fill /\ inner'[Second] = inner[Second]
      /\ read[Second] \in 0 .. WordLen
  BY <1>3, <1>4, Indices DEF FrameInv, BufferInv, ReaderInv
<1>8. f.fill \in 0 .. 3 /\ f.fill <= read[Second]
  BY <1>3, <1>4, <1>5
<1>9. ASSUME faults' = 0 PROVE f = sent[1]
  <2>1. OnTrack(D) /\ w = Head(line)
    BY <1>2, <1>9 DEF Delivers
  <2>2. w # Esc
    BY <1>3 DEF IsFooter, Esc
  <2>3. D = sent[1].words /\ w = Footer(sent[1].fill, Summed(sent[1]))
    BY <1>2, <1>3, <2>1, <2>2, FooterOnTrack
  <2>4. w.fill = sent[1].fill
    BY <2>3 DEF Footer
  <2>5. sent[1] \in Frame
    BY <1>2, FirstSent, SentFields
  <2>6. QED
    BY <1>4, <1>5, <2>3, <2>4, <2>5 DEF Frame
<1>10. ReturningLast(f)'
  <2>1. CASE D = << >>
    <3>1. read[Second] = 0 /\ out = << >>
      BY <1>2, <2>1, NoBytes DEF Reading, HeldBack
    <3>2. f.fill = 0 /\ f.words = << >>
      BY <1>4, <1>8, <2>1, <3>1
    <3>3. Valid(f)
      BY <3>2 DEF Valid, WordLen
    <3>4. read'[Second] = 0
      BY <1>7, <3>1, <3>2
    <3>5. QED
      BY <1>2, <1>3, <1>6, <1>9, <3>1, <3>2, <3>3, <3>4 DEF ReturningLast, Valid
  <2>2. CASE D # << >>
    <3>1. read[Second] = WordLen /\ inner[Second] = D[Len(D)]
          /\ out = Bytes(D, WordLen * (Len(D) - 1))
      BY <1>2, <2>2 DEF Reading, HeldBack
    <3>2. Len(D) \in Nat \ {0}
      BY <1>2, <2>2
    <3>3. Valid(f)
      BY <1>4, <1>8, <3>2 DEF Valid, WordLen
    <3>4. WordLen * (Len(D) - 1) + 0 = WordLen * (Len(D) - 1)
      BY <3>2 DEF WordLen
    <3>5. read'[Second] = WordLen - f.fill /\ 0 < WordLen - f.fill
      BY <1>7, <1>8, <3>1 DEF WordLen
    <3>6. f.words # << >>
      BY <1>4, <2>2
    <3>7. out' = Bytes(f.words, WordLen * (Len(f.words) - 1) + returned')
      BY <1>3, <1>4, <3>1, <3>4
    <3>8. inner'[First'] = f.words[Len(f.words)]
      BY <1>4, <1>6, <1>7, <3>1
    <3>9. QED
      BY <1>2, <1>3, <1>6, <1>9, <3>3, <3>5, <3>6, <3>7, <3>8
         DEF ReturningLast, Valid
  <2>3. QED
    BY <2>1, <2>2
<1>11. f \in Range(sent')
  BY <1>2
<1>12. \E g \in Range(sent)' : ReturningLast(g)'
  BY <1>10, <1>11 DEF Range
<1>13. QED
  BY <1>2, <1>3, <1>12 DEF AttemptInv, CleanIsSent

(* A bad footer ends the attempt, and a good line brings none to a valid   *)
(* frame.                                                                  *)
LEMMA BadFooterArrives ==
    ASSUME FrameInv, NEW w, Delivers(w), ReadBadFooter(w)
    PROVE  AttemptInv'
<1>1. PICK D : Underway(D)
  BY ReadingUnderway DEF ReadBadFooter, CanRead
<1>2. /\ Digested(D) /\ Reading(D) /\ (faults = 0 => OnTrack(D)) /\ D \in Seq(OnLine)
      /\ LineInv /\ w \in OnLine /\ sent' = sent
  BY <1>1 DEF ReadBadFooter, CanRead, Underway, Digested, FrameInv, Delivers
<1>3. /\ in_esc /\ IsFooter(w) /\ state' = "End"
      /\ digest' = Append(digest, Trailer(w.fill))
      /\ \/ w.crc # digest' /\ verdict' = "crc"
         \/ (w.fill > 3 \/ read[Second] < w.fill) /\ verdict' = "fill"
  BY DEF ReadBadFooter
<1>4. ASSUME faults' = 0, Valid(sent[1]) PROVE FALSE
  <2> DEFINE A == sent[1].words
             n == sent[1].fill
  <2>1. OnTrack(D) /\ w = Head(line) /\ w # Esc
    BY <1>2, <1>3, <1>4 DEF Delivers, IsFooter, Esc
  <2>2. D = A /\ w = Footer(n, Summed(sent[1]))
    BY <1>2, <1>3, <2>1, FooterOnTrack
  <2>3. w.fill = n /\ w.crc = Summed(sent[1])
    BY <2>2 DEF Footer
  <2>4. Summed(sent[1]) = SumOf(D, n)
    BY <1>2, <2>2, FirstSent, SummedIsSumOf
  <2>5. digest' = SumOf(D, n)
    BY <1>2, <1>3, <2>3, HalfType DEF SumOf, Digested
  <2>6. n > 3 \/ read[Second] < n
    BY <1>3, <2>3, <2>4, <2>5
  <2>7. n <= 3 /\ n <= WordLen * Len(A) /\ n \in 0 .. 4
    BY <1>2, <1>4, FirstSent, SentFields DEF Valid
  <2>8. read[Second] \in 0 .. WordLen
    BY Indices DEF FrameInv, BufferInv
  <2> HIDE DEF A, n
  <2>9. CASE D = << >>
    <3>1. Len(A) = 0
      BY <2>2, <2>9
    <3>2. n <= 0
      BY <2>7, <3>1 DEF WordLen
    <3>3. read[Second] = 0
      BY <1>2, <2>9 DEF Reading, HeldBack
    <3>4. QED
      BY <2>6, <2>7, <3>2, <3>3
  <2>10. CASE D # << >>
    <3>1. read[Second] = WordLen
      BY <1>2, <2>10 DEF Reading, HeldBack
    <3>2. QED
      BY <2>6, <2>7, <3>1 DEF WordLen
  <2>11. QED
    BY <2>9, <2>10
<1>5. verdict' # "clean"
  BY <1>3
<1>6. QED
  BY <1>2, <1>3, <1>4, <1>5 DEF AttemptInv, CleanIsSent, Valid

(* Any other escape sequence ends the attempt; a good line brings none.    *)
LEMMA UnsupportedArrives ==
    ASSUME FrameInv, NEW w, Delivers(w), ReadUnsupported(w)
    PROVE  AttemptInv'
<1>1. PICK D : Underway(D)
  BY ReadingUnderway DEF ReadUnsupported, CanRead
<1>2. /\ Digested(D) /\ (faults = 0 => OnTrack(D)) /\ LineInv
  BY <1>1 DEF Underway, FrameInv
<1>3. /\ in_esc /\ w # Esc /\ ~IsFooter(w) /\ state' = "End" /\ verdict' = "unsupported"
  BY DEF ReadUnsupported, Fail
<1>4. ASSUME faults' = 0 PROVE FALSE
  <2>1. OnTrack(D) /\ w = Head(line)
    BY <1>2, <1>4 DEF Delivers
  <2>2. w = Footer(sent[1].fill, Summed(sent[1]))
    BY <1>2, <1>3, <2>1, FooterOnTrack
  <2>3. sent[1].fill \in 0 .. 4
    BY <1>2, FirstSent, SentFields
  <2>4. IsFooter(w)
    BY <2>2, <2>3 DEF IsFooter, Footer
  <2>5. QED
    BY <1>3, <2>4
<1>5. QED
  BY <1>3, <1>4 DEF AttemptInv, CleanIsSent

-----------------------------------------------------------------------------
(* The whole invariant.                                                    *)

(* The fields of the reader keep their types.                              *)
LEMMA StepReaderInv == ReaderInv /\ [Next]_vars => ReaderInv'
<1> SUFFICES ASSUME ReaderInv, [Next]_vars PROVE ReaderInv'
  OBVIOUS
<1> USE Indices DEF ReaderInv
<1>1. ASSUME NEW w, ReadWord(w) PROVE ReaderInv'
  <2>1. CASE ReadData(w)
    BY <2>1 DEF ReadData, FirstHolds, ReturnPrevious
  <2>2. CASE ReadEscape(w)
    BY <2>2 DEF ReadEscape, FirstHolds
  <2>3. CASE ReadEscapedEscape(w)
    BY <2>3 DEF ReadEscapedEscape, FirstHolds, ReturnPrevious
  <2>4. CASE ReadBadFooter(w)
    BY <2>4 DEF ReadBadFooter, FirstHolds
  <2>5. CASE ReadGoodFooter(w)
    BY <2>5 DEF ReadGoodFooter
  <2>6. CASE ReadUnsupported(w)
    BY <2>6 DEF ReadUnsupported, FirstHolds, Fail
  <2>7. QED
    BY <1>1, <2>1, <2>2, <2>3, <2>4, <2>5, <2>6 DEF ReadWord
<1>2. CASE Arrive \/ Garble
  BY <1>1, <1>2 DEF Arrive, Garble
<1>3. CASE ArrivePart
  BY <1>3 DEF ArrivePart, ReadPart
<1>4. CASE Break
  BY <1>4 DEF Break, ReadError, Fail
<1>5. CASE Consume
  BY <1>5 DEF Consume, Return, Returned
<1>6. CASE NextAttempt
  BY <1>6 DEF NextAttempt
<1>7. CASE SendNext \/ Lose \/ UNCHANGED vars
  BY <1>7 DEF SendNext, Lose, vars, reader
<1>8. QED
  BY <1>2, <1>3, <1>4, <1>5, <1>6, <1>7 DEF Next

(* Where the line begins.                                                  *)
LEMMA EncodeType ==
    ASSUME NEW f \in Frame
    PROVE  Encode(f) \in Seq(Noise \cup {Footer(f.fill, Summed(f))})
<1> DEFINE W == Noise \cup {Footer(f.fill, Summed(f))}
           X == Escaped(f.words)
           u == Footer(f.fill, Summed(f))
<1>1. Esc \in W /\ u \in W /\ PayloadWord \subseteq W
  BY DEF Noise, PayloadWord
<1>2. f.words \in Seq(W)
  BY <1>1, FrameFields, SeqMonotonic
<1>3. X \in Seq(W)
  BY <1>1, <1>2, EscapedType
<1> HIDE DEF W, X, u
<1>4. <<Esc, u>> \in Seq(W)
  BY <1>1
<1>5. Cat(X, <<Esc, u>>) \in Seq(W)
  BY <1>3, <1>4, CatType
<1>6. QED
  BY <1>5, EncodeIsCat DEF X, u, W

(* A new attempt: nothing of the payload has arrived, all of it is on the  *)
(* line.                                                                   *)
LEMMA InitFrameInv == Init => FrameInv
<1> SUFFICES ASSUME Init PROVE FrameInv
  OBVIOUS
<1>1. PICK f \in Frame : sent = <<f>> /\ line = Encode(f)
  BY DEF Init
<1>2. ReaderInit /\ faults = 0
  BY DEF Init
<1>3. sent[1] = f /\ sent # << >> /\ sent \in Seq(Frame) /\ Range(sent) = {f}
  BY <1>1 DEF Range
<1>4. OnLine = Noise \cup {Footer(f.fill, Summed(f))}
  BY <1>3 DEF OnLine
<1>5. line \in Seq(OnLine)
  BY <1>1, <1>4, EncodeType
<1>6. LineInv
  BY <1>2, <1>3, <1>5 DEF LineInv
<1>7. ReaderInv /\ BufferInv
  BY <1>2, InitBufferInv DEF ReaderInit, ReaderInv
<1> DEFINE D == << >>
<1>8. Digested(D)
  <2>1. Half = << >> /\ Escaped(D) = << >>
    BY <1>2, EscapedEmpty DEF ReaderInit, Half
  <2>2. digest = << >>
    BY <1>2 DEF ReaderInit
  <2>3. << >> \in Seq(OnLine)
    OBVIOUS
  <2>4. Cat(<< >>, << >>) = << >>
    BY <2>3, CatNothing
  <2>5. QED
    BY <2>1, <2>2, <2>3, <2>4 DEF Digested
<1>9. Reading(D)
  BY <1>2, NoBytes DEF Reading, HeldBack, ReaderInit, Second
<1>10. OnTrack(D)
  <2>1. f.words \in Seq(PayloadWord)
    BY FrameFields
  <2>2. Len(D) <= Len(f.words) /\ D = SubSeq(f.words, 1, Len(D))
    <3>1. Len(D) = 0
      OBVIOUS
    <3>2. Len(f.words) \in Nat /\ SubSeq(f.words, 1, 0) = << >>
      BY <2>1
    <3>3. QED
      BY <3>1, <3>2
  <2>3. Cat(<< >>, line) = line
    BY <1>5, CatNothing
  <2>4. digest = << >>
    BY <1>2 DEF ReaderInit
  <2>5. QED
    BY <1>1, <1>3, <2>2, <2>3, <2>4 DEF OnTrack
<1>11. state = "ReadBuf" /\ ~lastone /\ verdict = "open"
  BY <1>2 DEF ReaderInit
<1> HIDE DEF D
<1>12. Underway(D)
  BY <1>8, <1>9, <1>10, <1>11 DEF Underway
<1>13. AttemptInv
  BY <1>11, <1>12 DEF AttemptInv, CleanIsSent
<1>14. QED
  BY <1>6, <1>7, <1>13 DEF FrameInv

(* And another one, from any state.                                        *)
LEMMA NewAttempt == NextAttempt => FrameInv'
<1>1. NextAttempt => Init'
  BY DEF NextAttempt, Init, ReaderInit
<1>2. QED
  BY <1>1, InitFrameInv, PTL

(* Whatever word completes.                                                *)
LEMMA WordFrameInv ==
    ASSUME FrameInv, NEW w, Delivers(w), ReadWord(w)
    PROVE  LineInv' /\ AttemptInv'
<1>1. LineInv'
  BY DeliveredLine DEF FrameInv
<1>2. AttemptInv'
  BY DataArrives, EscapeArrives, GoodFooterArrives, BadFooterArrives,
     UnsupportedArrives DEF ReadWord
<1>3. QED
  BY <1>1, <1>2

(* Whole words, as they were sent or garbled.                              *)
LEMMA ArriveFrameInv ==
    ASSUME FrameInv, Arrive \/ Garble
    PROVE  LineInv' /\ AttemptInv'
<1>1. /\ line \in Seq(OnLine) /\ line # << >> /\ faults \in Nat
      /\ Head(line) \in OnLine /\ Tail(line) \in Seq(OnLine)
  BY DEF FrameInv, LineInv, Arrive, Garble
<1>2. CASE Arrive
  <2>1. Delivers(Head(line)) /\ ReadWord(Head(line))
    BY <1>1, <1>2 DEF Arrive, Delivers
  <2>2. QED
    BY <2>1, WordFrameInv
<1>3. CASE Garble
  <2>1. PICK w \in Noise \cup {Head(line)} : ReadWord(w)
    BY <1>3 DEF Garble
  <2>2. w \in OnLine
    BY <1>1, <2>1 DEF OnLine
  <2>3. faults' \in Nat /\ faults' # 0
    BY <1>1, <1>3 DEF Garble
  <2>4. Delivers(w)
    BY <1>1, <1>3, <2>2, <2>3 DEF Garble, Delivers
  <2>5. QED
    BY <2>1, <2>4, WordFrameInv
<1>4. QED
  BY <1>2, <1>3

(* Part of a word: none of what the attempt has come to depends on it.     *)
LEMMA PartFrameInv ==
    ASSUME FrameInv, ArrivePart
    PROVE  LineInv' /\ AttemptInv'
<1>1. PICK n \in 1 .. WordLen : ReadPart(n)
  BY DEF ArrivePart
<1>2. /\ state = "ReadBuf" /\ line' = line /\ sent' = sent /\ faults' = faults
      /\ UNCHANGED <<state, returned, lastone, in_esc, inner, swapped, digest, verdict, out>>
      /\ read' = [read EXCEPT ![First] = @ + n]
  BY <1>1 DEF ArrivePart, ReadPart, CanRead
<1>3. OnLine' = OnLine /\ Half' = Half /\ Second' = Second /\ First' = First
  BY <1>2 DEF OnLine, Half, First, Second
<1>4. read'[Second] = read[Second]
  BY <1>2, Indices DEF FrameInv, BufferInv
<1>5. LineInv'
  BY <1>2, <1>3 DEF FrameInv, LineInv
<1>6. PICK D : Underway(D)
  BY <1>2, ReadingUnderway
<1>7. Digested(D)'
  BY <1>2, <1>3, <1>6 DEF Digested, Underway
<1>8. Reading(D)'
  BY <1>2, <1>3, <1>4, <1>6 DEF Underway, Reading, HeldBack
<1>9. faults' = 0 => OnTrack(D)'
  BY <1>2, <1>6 DEF Underway, OnTrack
<1>10. Underway(D)'
  BY <1>2, <1>7, <1>8, <1>9 DEF Underway
<1>11. ~lastone /\ verdict = "open"
  BY <1>2, ReadingUnderway DEF FrameInv, AttemptInv
<1>12. QED
  BY <1>2, <1>5, <1>10, <1>11 DEF AttemptInv, CleanIsSent

(* The optical head fails.                                                 *)
LEMMA BreakFrameInv ==
    ASSUME FrameInv, Break
    PROVE  LineInv' /\ AttemptInv'
<1>1. /\ state' = "End" /\ verdict' = "io" /\ line' = line /\ sent' = sent
      /\ faults' = faults + 1 /\ faults \in Nat
  BY DEF Break, ReadError, Fail, FrameInv, LineInv
<1>2. LineInv'
  BY <1>1 DEF FrameInv, LineInv, OnLine
<1>3. QED
  BY <1>1, <1>2 DEF AttemptInv, CleanIsSent

(* The line or the sender moves and the reader stands still.               *)
LEMMA StandsStill ==
    ASSUME FrameInv, UNCHANGED reader, sent' \in Seq(Frame),
           Range(sent) \subseteq Range(sent'), sent'[1] = sent[1],
           line' \in Seq(OnLine'), faults' \in Nat,
           faults' = 0 => faults = 0,
           faults' = 0 /\ state # "End" /\ ~lastone => line' = line
    PROVE  LineInv' /\ AttemptInv'
<1>1. UNCHANGED <<state, returned, lastone, in_esc, inner, read, swapped, digest, verdict, out>>
  BY DEF reader
<1>2. OnLine \subseteq OnLine'
  BY DEF OnLine
<1>3. sent' # << >>
  <2>1. sent[1] \in Range(sent')
    BY FirstSent DEF FrameInv
  <2>2. Range(<< >>) = {}
    BY DEF Range
  <2>3. QED
    BY <2>1, <2>2
<1>4. LineInv'
  BY <1>3 DEF LineInv
<1>5. Half' = Half /\ First' = First /\ Second' = Second
  BY <1>1 DEF Half, First, Second
<1>6. ASSUME state # "End", ~lastone PROVE \E D : Underway(D)'
  <2>1. PICK D : Underway(D)
    BY <1>6 DEF FrameInv, AttemptInv
  <2>2. Digested(D)'
    <3>1. D \in Seq(OnLine')
      BY <1>2, <2>1, SeqMonotonic DEF Underway, Digested
    <3>2. QED
      BY <1>1, <1>5, <2>1, <3>1 DEF Underway, Digested
  <2>3. (state = "ReadBuf" => Reading(D)') /\ (state = "ReturnBuf" => Returning(D)')
    BY <1>1, <1>5, <2>1 DEF Underway, Reading, Returning, HeldBack
  <2>4. faults' = 0 => OnTrack(D)'
    BY <1>1, <1>6, <2>1 DEF Underway, OnTrack
  <2>5. Underway(D)'
    BY <1>1, <2>2, <2>3, <2>4 DEF Underway
  <2>6. QED
    BY <2>5
<1>7. ASSUME state # "End", lastone PROVE \E f \in Range(sent)' : ReturningLast(f)'
  <2>1. PICK f \in Range(sent) : ReturningLast(f)
    BY <1>7 DEF FrameInv, AttemptInv
  <2>2. ReturningLast(f)'
    BY <1>1, <1>5, <2>1 DEF ReturningLast, Valid
  <2>3. f \in Range(sent)'
    OBVIOUS
  <2>4. QED
    BY <2>2, <2>3
<1>8. CleanIsSent'
  <2>1. CASE verdict = "clean"
    <3>1. PICK f \in Range(sent) : Valid(f) /\ out = Payload(f)
      BY <2>1 DEF FrameInv, AttemptInv, CleanIsSent
    <3>2. f \in Range(sent') /\ out' = Payload(f)
      BY <1>1, <3>1
    <3>3. QED
      BY <3>1, <3>2 DEF CleanIsSent, Valid, Payload
  <2>2. CASE verdict # "clean"
    BY <1>1, <2>2 DEF CleanIsSent
  <2>3. QED
    BY <2>1, <2>2
<1>9. faults' = 0 /\ Valid(sent[1]) /\ state = "End" => out = Payload(sent[1])
  BY DEF FrameInv, AttemptInv
<1>10. (state # "End" => verdict = "open")
  BY DEF FrameInv, AttemptInv
<1>11. AttemptInv'
  BY <1>1, <1>6, <1>7, <1>8, <1>9, <1>10 DEF AttemptInv, Valid, Payload
<1>12. QED
  BY <1>4, <1>11

(* The meter sends another frame, a word is lost, or nothing happens.      *)
LEMMA LineFrameInv ==
    ASSUME FrameInv, SendNext \/ Lose \/ UNCHANGED vars
    PROVE  LineInv' /\ AttemptInv'
<1>1. line \in Seq(OnLine) /\ sent \in Seq(Frame) /\ faults \in Nat /\ sent # << >>
  BY DEF FrameInv, LineInv
<1>2. CASE SendNext
  <2>1. PICK f \in Frame : line' = <<Esc, Start>> \o Encode(f) /\ sent' = Append(sent, f)
    BY <1>2 DEF SendNext
  <2>2. UNCHANGED <<reader, faults>> /\ line = << >>
    BY <1>2 DEF SendNext
  <2>3. /\ sent' \in Seq(Frame) /\ sent'[1] = sent[1]
        /\ Range(sent) \subseteq Range(sent') /\ f \in Range(sent')
    <3>1. Len(sent) \in Nat \ {0} /\ Len(sent') = Len(sent) + 1
          /\ sent' \in Seq(Frame) /\ sent'[Len(sent) + 1] = f
          /\ \A i \in 1 .. Len(sent) : sent'[i] = sent[i]
          /\ DOMAIN sent = 1 .. Len(sent) /\ DOMAIN sent' = 1 .. Len(sent')
      BY <1>1, <2>1
    <3>2. \A i \in 1 .. Len(sent) : i \in 1 .. Len(sent')
      BY <3>1
    <3>3. 1 \in 1 .. Len(sent) /\ Len(sent) + 1 \in 1 .. Len(sent')
      BY <3>1
    <3>4. QED
      BY <3>1, <3>2, <3>3 DEF Range
  <2>4. line' \in Seq(OnLine')
    <3>1. Encode(f) \in Seq(Noise \cup {Footer(f.fill, Summed(f))})
      BY EncodeType
    <3>2. Noise \cup {Footer(f.fill, Summed(f))} \subseteq OnLine'
      BY <2>3 DEF OnLine
    <3>3. Encode(f) \in Seq(OnLine')
      BY <3>1, <3>2, SeqMonotonic
    <3>4. <<Esc, Start>> \in Seq(OnLine')
      BY DEF OnLine, Noise, PayloadWord
    <3>5. Cat(<<Esc, Start>>, Encode(f)) \in Seq(OnLine')
      BY <3>3, <3>4, CatType
    <3>6. QED
      BY <2>1, <3>5 DEF Cat
  <2>5. ASSUME faults' = 0, state # "End", ~lastone PROVE FALSE
    <3>1. PICK D : Underway(D)
      BY <2>5 DEF FrameInv, AttemptInv
    <3>2. Digested(D) /\ OnTrack(D) /\ LineInv
      BY <2>2, <2>5, <3>1 DEF Underway, FrameInv
    <3>3. line # << >>
      BY <3>2, NextOnTrack
    <3>4. QED
      BY <2>2, <3>3
  <2>6. QED
    BY <1>1, <2>2, <2>3, <2>4, <2>5, StandsStill
<1>3. CASE Lose
  <2>1. UNCHANGED <<reader, sent>> /\ line' = Tail(line) /\ faults' = faults + 1 /\ line # << >>
    BY <1>3 DEF Lose
  <2>2. OnLine' = OnLine
    BY <2>1 DEF OnLine
  <2>3. line' \in Seq(OnLine') /\ faults' \in Nat /\ faults' # 0
    BY <1>1, <2>1, <2>2
  <2>4. QED
    BY <1>1, <2>1, <2>3, StandsStill
<1>4. CASE UNCHANGED vars
  <2>1. UNCHANGED <<reader, line, sent, faults>>
    BY <1>4 DEF vars
  <2>2. OnLine' = OnLine
    BY <2>1 DEF OnLine
  <2>3. QED
    BY <1>1, <2>1, <2>2, StandsStill
<1>5. QED
  BY <1>2, <1>3, <1>4

-----------------------------------------------------------------------------
(* Bytes are returned.                                                     *)

(* Payload under the name that the lemmas on bytes know.                   *)
PayloadIsBytes == \A f : Payload(f) = Bytes(f.words, WordLen * Len(f.words) - f.fill)

(* A payload is bytes of words, the fill bytes left out.                   *)
LEMMA PayloadBytes == PayloadIsBytes
BY DEF PayloadIsBytes, Payload, Bytes

(* Bytes of the buffer are handed out.                                     *)
LEMMA ReturnFrameInv ==
    ASSUME FrameInv, NEW len \in 1 .. WordLen, Return(len), UNCHANGED <<line, sent, faults>>
    PROVE  LineInv' /\ AttemptInv'
<1> DEFINE left == read[First] - returned
           copysize == IF len < left THEN len ELSE left
           over == lastone /\ copysize = left
           more == Part(inner[First], returned, copysize)
<1>1. /\ state = "ReturnBuf" /\ returned < read[First]
      /\ out' = Cat(out, more)
      /\ returned' = returned + copysize
      /\ read' = (IF over THEN [read EXCEPT ![First] = 0] ELSE read)
      /\ state' = (IF over THEN "End" ELSE state)
      /\ verdict' = (IF over THEN "clean" ELSE verdict)
      /\ UNCHANGED <<lastone, in_esc, inner, swapped, digest>>
  BY DEF Return, Cat, Part
<1>2. read[First] \in 0 .. WordLen /\ returned \in 0 .. WordLen
  BY Indices DEF FrameInv, BufferInv
<1>3. copysize \in Nat /\ copysize <= left /\ returned + copysize <= WordLen
      /\ (copysize # left => returned + copysize < read[First])
  BY <1>1, <1>2 DEF WordLen
<1>4. OnLine' = OnLine /\ Half' = Half /\ First' = First /\ Second' = Second
  BY <1>1 DEF OnLine, Half, First, Second
<1>5. LineInv'
  BY <1>4 DEF FrameInv, LineInv
<1>6. verdict = "open"
  BY <1>1 DEF FrameInv, AttemptInv
<1> HIDE DEF left, copysize, more
(* The words are before the last one ...                                   *)
<1>7. CASE ~lastone
  <2>1. PICK D : Underway(D)
    BY <1>1, <1>7 DEF FrameInv, AttemptInv
  <2>2. read' = read /\ state' = state /\ verdict' = verdict
    BY <1>1, <1>7
  <2>3. /\ Digested(D) /\ Len(D) \in Nat /\ Len(D) >= 2 /\ inner[First] = D[Len(D) - 1]
        /\ out = Bytes(D, WordLen * (Len(D) - 2) + returned)
    BY <1>1, <2>1 DEF Underway, Digested, Returning
  <2>4. out' = Bytes(D, WordLen * (Len(D) - 2) + returned')
    <3> DEFINE k == Len(D) - 2
    <3>1. k \in Nat /\ k + 1 = Len(D) - 1
      BY <2>3
    <3>2. more = Part(D[k + 1], returned, copysize)
      BY <2>3, <3>1 DEF more
    <3>4. out = Bytes(D, WordLen * k + returned)
      BY <2>3
    <3> HIDE DEF k
    <3>3. Cat(Bytes(D, WordLen * k + returned), Part(D[k + 1], returned, copysize))
            = Bytes(D, WordLen * k + returned + copysize)
      <4>1. returned \in Nat /\ copysize \in Nat /\ returned + copysize <= WordLen
        BY <1>2, <1>3 DEF WordLen
      <4>2. k \in Nat
        BY <3>1
      <4>3. QED
        BY <4>1, <4>2, BytesGrow
    <3>5. WordLen * k + returned + copysize = WordLen * k + returned'
      BY <1>1, <1>2, <1>3, <3>1 DEF WordLen
    <3>6. QED
      BY <1>1, <3>2, <3>3, <3>4, <3>5 DEF k
  <2>5. Digested(D)'
    BY <1>1, <1>4, <2>3 DEF Digested
  <2>6. Returning(D)'
    BY <1>1, <1>4, <2>1, <2>2, <2>4 DEF Underway, Returning, HeldBack
  <2>7. faults' = 0 => OnTrack(D)'
    BY <1>1, <2>1 DEF Underway, OnTrack
  <2>8. Underway(D)'
    BY <1>1, <2>2, <2>5, <2>6, <2>7 DEF Underway
  <2>9. QED
    BY <1>1, <1>5, <1>6, <1>7, <2>2, <2>8 DEF AttemptInv, CleanIsSent
(* ... or the word is the last one.                                        *)
<1>8. CASE lastone
  <2>1. PICK f \in Range(sent) : ReturningLast(f)
    BY <1>1, <1>8 DEF FrameInv, AttemptInv
  <2>2. f.words \in Seq(OnLine) /\ f.fill \in 0 .. 4 /\ f.fill <= 3
    BY <2>1, SentFields DEF FrameInv, ReturningLast, Valid
  <2>3. /\ f.words # << >>
        /\ read[First] = WordLen - f.fill
        /\ inner[First] = f.words[Len(f.words)]
        /\ out = Bytes(f.words, WordLen * (Len(f.words) - 1) + returned)
    BY <1>1, <1>2, <2>1 DEF ReturningLast
  <2>4. out' = Bytes(f.words, WordLen * (Len(f.words) - 1) + returned')
    <3> DEFINE D == f.words
               k == Len(D) - 1
    <3>1. k \in Nat /\ k + 1 = Len(D)
      BY <2>2, <2>3
    <3>2. more = Part(D[k + 1], returned, copysize)
      BY <2>3, <3>1 DEF more
    <3>4. out = Bytes(D, WordLen * k + returned)
      BY <2>3
    <3> HIDE DEF k, D
    <3>3. Cat(Bytes(D, WordLen * k + returned), Part(D[k + 1], returned, copysize))
            = Bytes(D, WordLen * k + returned + copysize)
      <4>1. returned \in Nat /\ copysize \in Nat /\ returned + copysize <= WordLen
        BY <1>2, <1>3 DEF WordLen
      <4>2. k \in Nat
        BY <3>1
      <4>3. QED
        BY <4>1, <4>2, BytesGrow
    <3>5. WordLen * k + returned + copysize = WordLen * k + returned'
      BY <1>1, <1>2, <1>3, <3>1 DEF WordLen
    <3>6. QED
      BY <1>1, <3>2, <3>3, <3>4, <3>5 DEF k, D
  <2>5. Range(sent)' = Range(sent)
    OBVIOUS
  <2>6. CASE ~over
    <3>1. returned' < read'[First]
      BY <1>1, <1>2, <1>3, <1>8, <2>6
    <3>2. ReturningLast(f)'
      BY <1>1, <1>4, <1>8, <2>1, <2>3, <2>4, <2>6, <3>1 DEF ReturningLast, Valid
    <3>3. QED
      BY <1>1, <1>5, <1>6, <1>8, <2>5, <2>6, <3>2 DEF AttemptInv, CleanIsSent
  <2>7. CASE over
    <3>1. returned' = WordLen - f.fill
      BY <1>1, <1>2, <1>3, <2>3, <2>7 DEF left
    <3>2. WordLen * (Len(f.words) - 1) + returned' = WordLen * Len(f.words) - f.fill
      BY <2>2, <2>3, <3>1 DEF WordLen
    <3>3. out' = Payload(f)
      BY <2>4, <3>2, PayloadBytes DEF PayloadIsBytes
    <3>4. Valid(f) /\ (faults = 0 => f = sent[1])
      BY <2>1 DEF ReturningLast
    <3>5. state' = "End" /\ verdict' = "clean"
      BY <1>1, <2>7
    <3>6. CleanIsSent'
      BY <3>3, <3>4 DEF CleanIsSent, Valid, Payload
    <3>7. QED
      BY <1>5, <3>3, <3>4, <3>5, <3>6 DEF AttemptInv, Valid, Payload
  <2>8. QED
    BY <2>6, <2>7
<1>9. QED
  BY <1>7, <1>8

(* A buffer has been handed out.                                           *)
LEMMA ReturnedFrameInv ==
    ASSUME FrameInv, Returned, UNCHANGED <<line, sent, faults>>
    PROVE  LineInv' /\ AttemptInv'
<1>1. /\ state = "ReturnBuf" /\ returned = read[First]
      /\ read' = [read EXCEPT ![First] = 0]
      /\ state' = (IF lastone THEN "End" ELSE "ReadBuf")
      /\ verdict' = (IF lastone THEN "clean" ELSE verdict)
      /\ UNCHANGED <<returned, lastone, in_esc, inner, swapped, digest, out>>
  BY DEF Returned
<1>2. OnLine' = OnLine /\ Half' = Half /\ First' = First /\ Second' = Second
  BY <1>1 DEF OnLine, Half, First, Second
<1>3. LineInv'
  BY <1>2 DEF FrameInv, LineInv
<1>4. verdict = "open" /\ read'[Second] = read[Second]
  BY <1>1, Indices DEF FrameInv, AttemptInv, BufferInv
<1>5. CASE ~lastone
  <2>1. PICK D : Underway(D)
    BY <1>1, <1>5 DEF FrameInv, AttemptInv
  <2>2. /\ Digested(D) /\ Len(D) \in Nat /\ Len(D) >= 2 /\ HeldBack(D)
        /\ read[First] = WordLen
        /\ out = Bytes(D, WordLen * (Len(D) - 2) + returned)
    BY <1>1, <2>1 DEF Underway, Digested, Returning
  <2>3. WordLen * (Len(D) - 2) + returned = WordLen * (Len(D) - 1)
    BY <1>1, <2>2 DEF WordLen
  <2>4. D # << >>
    BY <2>2
  <2>5. Reading(D)'
    BY <1>1, <1>2, <1>4, <2>2, <2>3, <2>4 DEF Reading, HeldBack
  <2>6. Digested(D)'
    BY <1>1, <1>2, <2>2 DEF Digested
  <2>7. faults' = 0 => OnTrack(D)'
    BY <1>1, <2>1 DEF Underway, OnTrack
  <2>8. state' = "ReadBuf" /\ ~lastone' /\ verdict' = "open"
    BY <1>1, <1>4, <1>5
  <2>9. Underway(D)'
    BY <2>5, <2>6, <2>7, <2>8 DEF Underway
  <2>10. QED
    BY <1>3, <2>8, <2>9 DEF AttemptInv, CleanIsSent
(* Only an empty frame ends without a byte to return.                      *)
<1>6. CASE lastone
  <2>1. PICK f \in Range(sent) : ReturningLast(f)
    BY <1>1, <1>6 DEF FrameInv, AttemptInv
  <2>2. f.words = << >> /\ out = << >>
    <3>1. read[First] \in Int
      BY Indices DEF FrameInv, BufferInv, WordLen
    <3>2. QED
      BY <1>1, <2>1, <3>1 DEF ReturningLast
  <2>3. f.fill = 0
    <3>1. f.fill \in 0 .. 4 /\ f.fill <= WordLen * 0
      BY <2>1, <2>2, SentFields DEF FrameInv, ReturningLast, Valid
    <3>2. QED
      BY <3>1 DEF WordLen
  <2>4. Payload(f) = << >>
    <3>1. WordLen * Len(f.words) - f.fill = 0
      BY <2>2, <2>3 DEF WordLen
    <3>2. QED
      BY <3>1, PayloadBytes, NoBytes DEF PayloadIsBytes
  <2>5. out' = Payload(f) /\ Valid(f) /\ (faults = 0 => f = sent[1])
    BY <1>1, <2>1, <2>2, <2>4 DEF ReturningLast
  <2>6. CleanIsSent'
    BY <2>5 DEF CleanIsSent, Valid, Payload
  <2>7. QED
    BY <1>1, <1>3, <1>6, <2>5, <2>6 DEF AttemptInv, Valid, Payload
<1>7. QED
  BY <1>5, <1>6

(* Every step keeps the invariant.                                         *)
LEMMA StepFrameInv == FrameInv /\ [Next]_vars => FrameInv'
<1> SUFFICES ASSUME FrameInv, [Next]_vars PROVE FrameInv'
  OBVIOUS
<1>1. BufferInv' /\ ReaderInv'
  BY StepBufferInv, StepReaderInv DEF FrameInv
<1>2. CASE Arrive \/ Garble
  BY <1>1, <1>2, ArriveFrameInv DEF FrameInv
<1>3. CASE ArrivePart
  BY <1>1, <1>3, PartFrameInv DEF FrameInv
<1>4. CASE Break
  BY <1>1, <1>4, BreakFrameInv DEF FrameInv
<1>5. CASE Consume
  BY <1>1, <1>5, ReturnFrameInv, ReturnedFrameInv DEF Consume, FrameInv
<1>6. CASE NextAttempt
  BY <1>6, NewAttempt
<1>7. CASE SendNext \/ Lose \/ UNCHANGED vars
  BY <1>1, <1>7, LineFrameInv DEF FrameInv
<1>8. QED
  BY <1>2, <1>3, <1>4, <1>5, <1>6, <1>7 DEF Next

(* So it always holds.                                                     *)
LEMMA AlwaysFrameInv == Spec => []FrameInv
BY InitFrameInv, StepFrameInv, PTL DEF Spec

(* A frame that ends without an error is the payload of a frame that was   *)
(* sent, whatever happened to the words in between.                        *)
THEOREM CleanFramesWereSent == Spec => []CleanIsSent
<1>1. FrameInv => CleanIsSent
  BY DEF FrameInv, AttemptInv
<1>2. QED
  BY <1>1, AlwaysFrameInv, PTL

(* What the consumer has seen is bytes of words.                           *)
OutIs(D, m) ==
    /\ D \in Seq(OnLine) /\ m \in Nat /\ m <= WordLen * Len(D)
    /\ out = Bytes(D, m)

(* On a good line, before the end: a part of the payload, and not all of it *)
(* if there is any.                                                        *)
LEMMA OutOnTrack ==
    ASSUME FrameInv, faults = 0, Valid(sent[1]), state # "End"
    PROVE  \E D, m : /\ OutIs(D, m)
                     /\ Len(D) <= Len(sent[1].words)
                     /\ D = SubSeq(sent[1].words, 1, Len(D))
                     /\ m <= WordLen * Len(sent[1].words) - sent[1].fill
                     /\ m = WordLen * Len(sent[1].words) - sent[1].fill => m = 0
<1> DEFINE A == sent[1].words
           n == sent[1].fill
<1>1. A \in Seq(OnLine) /\ Len(A) \in Nat /\ n \in 0 .. 3 /\ n <= WordLen * Len(A)
      /\ sent[1] \in Range(sent)
  <2>1. sent[1] \in Range(sent) /\ A \in Seq(OnLine) /\ n \in 0 .. 4
    BY FirstSent, SentFields DEF FrameInv
  <2>2. n <= 3 /\ n <= WordLen * Len(A)
    BY DEF Valid
  <2>3. QED
    BY <2>1, <2>2
<1>2. state \in {"ReadBuf", "ReturnBuf"} /\ returned \in 0 .. WordLen
  BY DEF FrameInv, BufferInv
<1>3. read[First] \in 0 .. WordLen
  BY Indices DEF FrameInv, BufferInv
<1>4. ASSUME NEW D, Digested(D), OnTrack(D)
      PROVE  D \in Seq(OnLine) /\ Len(D) \in Nat /\ Len(D) <= Len(A)
             /\ D = SubSeq(A, 1, Len(D))
  <2>1. D \in Seq(OnLine)
    BY <1>4 DEF Digested
  <2>2. QED
    BY <1>4, <2>1 DEF OnTrack
<1> SUFFICES \E D, m : /\ OutIs(D, m)
                       /\ Len(D) <= Len(A) /\ D = SubSeq(A, 1, Len(D))
                       /\ m <= WordLen * Len(A) - n
                       /\ m = WordLen * Len(A) - n => m = 0
  OBVIOUS
<1> HIDE DEF A, n
<1>5. CASE state = "ReadBuf"
  <2>1. PICK D : Underway(D)
    BY <1>5, ReadingUnderway
  <2>2. Reading(D) /\ Digested(D) /\ OnTrack(D)
    BY <1>5, <2>1 DEF Underway
  <2>3. D \in Seq(OnLine) /\ Len(D) \in Nat /\ Len(D) <= Len(A) /\ D = SubSeq(A, 1, Len(D))
    BY <1>4, <2>2
  <2>4. CASE D = << >>
    <3>1. out = Bytes(D, 0)
      BY <2>2, <2>4 DEF Reading
    <3>2. OutIs(D, 0)
      BY <2>3, <3>1 DEF OutIs, WordLen
    <3>3. 0 <= WordLen * Len(A) - n
      BY <1>1 DEF WordLen
    <3>4. QED
      BY <2>3, <3>2, <3>3
  <2>5. CASE D # << >>
    <3>1. Len(D) >= 1 /\ out = Bytes(D, WordLen * (Len(D) - 1))
      BY <2>2, <2>3, <2>5 DEF Reading
    <3>2. OutIs(D, WordLen * (Len(D) - 1))
      BY <2>3, <3>1 DEF OutIs, WordLen
    <3>3. WordLen * (Len(D) - 1) < WordLen * Len(A) - n
      BY <1>1, <2>3 DEF WordLen
    <3>4. WordLen * (Len(D) - 1) \in Int /\ WordLen * Len(A) - n \in Int
      BY <1>1, <2>3 DEF WordLen
    <3>5. QED
      BY <2>3, <3>2, <3>3, <3>4
  <2>6. QED
    BY <2>4, <2>5
<1>6. CASE state = "ReturnBuf" /\ ~lastone
  <2>1. PICK D : Underway(D)
    BY <1>6 DEF FrameInv, AttemptInv
  <2>2. Returning(D) /\ Digested(D) /\ OnTrack(D)
    BY <1>6, <2>1 DEF Underway
  <2>3. D \in Seq(OnLine) /\ Len(D) \in Nat /\ Len(D) <= Len(A) /\ D = SubSeq(A, 1, Len(D))
    BY <1>4, <2>2
  <2> DEFINE m == WordLen * (Len(D) - 2) + returned
  <2>4. Len(D) >= 2 /\ out = Bytes(D, m)
    BY <2>2 DEF Returning
  <2>5. m \in Nat /\ m <= WordLen * Len(D) /\ m < WordLen * Len(A) - n
    BY <1>1, <1>2, <2>3, <2>4 DEF WordLen
  <2>6. WordLen * Len(A) - n \in Int
    BY <1>1 DEF WordLen
  <2> HIDE DEF m
  <2>7. OutIs(D, m)
    BY <2>3, <2>4, <2>5 DEF OutIs
  <2>8. QED
    BY <2>3, <2>5, <2>6, <2>7
<1>7. CASE state = "ReturnBuf" /\ lastone
  <2>1. ReturningLast(sent[1])
    BY <1>7 DEF FrameInv, AttemptInv, ReturningLast
  <2>2. A = SubSeq(A, 1, Len(A))
    BY <1>1, SubSeqFull
  <2>3. CASE A = << >>
    <3>1. out = Bytes(A, 0)
      BY <2>1, <2>3, NoBytes DEF ReturningLast, A
    <3>2. OutIs(A, 0)
      BY <1>1, <3>1 DEF OutIs, WordLen
    <3>3. 0 <= WordLen * Len(A) - n
      BY <1>1 DEF WordLen
    <3>4. QED
      BY <1>1, <2>2, <3>2, <3>3
  <2>4. CASE A # << >>
    <3> DEFINE m == WordLen * (Len(A) - 1) + returned
    <3>1. out = Bytes(A, m) /\ returned < WordLen - n
      BY <2>1, <2>4 DEF ReturningLast, A, n
    <3>2. Len(A) >= 1
      BY <1>1, <2>4
    <3>3. m \in Nat /\ m <= WordLen * Len(A) /\ m < WordLen * Len(A) - n
      BY <1>1, <1>2, <3>1, <3>2 DEF WordLen
    <3>4. WordLen * Len(A) - n \in Int
      BY <1>1 DEF WordLen
    <3> HIDE DEF m
    <3>5. OutIs(A, m)
      BY <1>1, <3>1, <3>3 DEF OutIs
    <3>6. QED
      BY <1>1, <2>2, <3>3, <3>4, <3>5
  <2>5. QED
    BY <2>3, <2>4
<1>8. QED
  BY <1>2, <1>5, <1>6, <1>7

(* The payload as bytes.                                                   *)
LEMMA PayloadLen ==
    ASSUME LineInv, NEW f \in Range(sent), Valid(f)
    PROVE  /\ WordLen * Len(f.words) - f.fill \in Nat
           /\ Payload(f) = Bytes(f.words, WordLen * Len(f.words) - f.fill)
           /\ Len(Payload(f)) = WordLen * Len(f.words) - f.fill
<1>1. f.words \in Seq(OnLine) /\ f.fill \in 0 .. 4
  BY SentFields
<1>2. WordLen * Len(f.words) - f.fill \in Nat
  BY <1>1 DEF Valid, WordLen
<1>3. QED
  BY <1>2, PayloadBytes, BytesLen DEF PayloadIsBytes

(* On a good line the consumer sees a part of the payload and no fill      *)
(* byte.                                                                   *)
THEOREM FillBytesStayHidden == Spec => []NoFillByteLeaks
<1>1. ASSUME FrameInv, faults = 0, Valid(sent[1])
      PROVE  IsPrefix(out, Payload(sent[1]))
  <2> DEFINE A == sent[1].words
             n == WordLen * Len(sent[1].words) - sent[1].fill
  <2>1. sent[1] \in Range(sent) /\ A \in Seq(OnLine)
    BY <1>1, FirstSent, SentFields DEF FrameInv
  <2>2. n \in Nat /\ Payload(sent[1]) = Bytes(A, n)
    BY <1>1, <2>1, PayloadLen DEF FrameInv
  <2>3. CASE state = "End"
    <3>1. out = Payload(sent[1])
      BY <1>1, <2>3 DEF FrameInv, AttemptInv
    <3> DEFINE b == Bytes(A, n)
               X == {b[i] : i \in 1 .. n}
    <3>2. \A i \in 1 .. n : b[i] \in X
      OBVIOUS
    <3> HIDE DEF X, A, n
    <3>3. b \in Seq(X) /\ Len(b) = n
      BY <2>2, <3>2, BytesType
    <3> HIDE DEF b
    <3>4. IsPrefix(b, b)
      BY <3>3 DEF IsPrefix
    <3>5. QED
      BY <2>2, <3>1, <3>4 DEF b
  <2>4. CASE state # "End"
    <3>1. PICK D, m : /\ OutIs(D, m)
                      /\ Len(D) <= Len(A) /\ D = SubSeq(A, 1, Len(D))
                      /\ m <= n
      BY <1>1, <2>4, OutOnTrack
    <3>2. /\ D \in Seq(OnLine) /\ m \in Nat /\ m <= WordLen * Len(D)
          /\ out = Bytes(D, m)
      BY <3>1 DEF OutIs
    <3> HIDE DEF A, n
    <3>3. IsPrefix(Bytes(D, m), Bytes(A, n))
      BY <2>1, <2>2, <3>1, <3>2, BytesPrefix
    <3>4. QED
      BY <2>2, <3>2, <3>3
  <2>5. QED
    BY <2>3, <2>4
<1>2. FrameInv => NoFillByteLeaks
  BY <1>1 DEF NoFillByteLeaks
<1>3. QED
  BY <1>2, AlwaysFrameInv, PTL

(* On a good line the reader ends with the last byte of the payload.       *)
THEOREM FramesEndExactly == Spec => []EndIsExact
<1>1. ASSUME FrameInv, faults = 0, Valid(sent[1]), Payload(sent[1]) # << >>
      PROVE  has_ended <=> out = Payload(sent[1])
  <2>1. CASE state = "End"
    BY <1>1, <2>1 DEF FrameInv, AttemptInv, has_ended
  <2>2. CASE state # "End"
    <3>1. PICK D, m :
            /\ OutIs(D, m)
            /\ m = WordLen * Len(sent[1].words) - sent[1].fill => m = 0
      BY <1>1, <2>2, OutOnTrack
    <3>2. Len(out) = m
      BY <3>1, BytesLen DEF OutIs
    <3>3. ASSUME out = Payload(sent[1]) PROVE FALSE
      <4>1. Len(Payload(sent[1])) = WordLen * Len(sent[1].words) - sent[1].fill
        BY <1>1, FirstSent, PayloadLen DEF FrameInv
      <4>2. m = 0
        BY <3>1, <3>2, <3>3, <4>1
      <4>3. out = << >>
        BY <3>1, <4>2, NoBytes DEF OutIs
      <4>4. QED
        BY <1>1, <3>3, <4>3
    <3>4. QED
      BY <2>2, <3>3 DEF has_ended
  <2>3. QED
    BY <2>1, <2>2
<1>2. FrameInv => EndIsExact
  BY <1>1 DEF EndIsExact
<1>3. QED
  BY <1>2, AlwaysFrameInv, PTL
=============================================================================
