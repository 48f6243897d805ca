--------------------------- MODULE TlvReaderProofs ---------------------------
(***************************************************************************)
(* The reader of SML's items stays in step with the document, whatever     *)
(* documents there are and however the program walks them.                 *)
(*                                                                         *)
(* TypeCorrect holds of any bytes.  The other theorems are about           *)
(* well-formed documents and rest on Placed: skipping what is owed, from   *)
(* where the reader is, leads to where the innermost list has got to.      *)
(* The induction over positions, bytes of a header and messages that this  *)
(* needs is done with sets (LeastNumber, AllNumbers, FromTheEnd).          *)
(***************************************************************************)
EXTENDS TlvReader, SequenceTheorems, WellFoundedInduction, TLAPS

-----------------------------------------------------------------------------
(* A set of numbers that is not empty has a least one: what is proved      *)
(* below by induction is proved from it.                                   *)
LEMMA LeastNumber ==
    ASSUME NEW S \in SUBSET Nat, S # {}
    PROVE  \E m \in S : \A k \in S : m <= k
<1> DEFINE Less == {p \in Nat \X Nat : p[1] < p[2]}
<1>1. IsWellFoundedOn(Less, Nat)
  BY NatLessThanWellFounded, Zenon DEF OpToRel
<1> HIDE DEF Less
<1>2. PICK m \in S : \A k \in S : ~(<<k, m>> \in Less)
  BY <1>1, WFMin
<1>3. \A k \in S : ~(k < m)
  BY <1>2 DEF Less
<1> QED
  BY <1>3

(* Induction on the elements of a set.                                     *)
LEMMA AllNumbers ==
    ASSUME NEW S, 0 \in S, \A n \in Nat : n \in S => n + 1 \in S
    PROVE  Nat \subseteq S
<1> SUFFICES ASSUME ~(Nat \subseteq S) PROVE FALSE
  OBVIOUS
<1>1. PICK m \in Nat \ S : \A k \in Nat \ S : m <= k
  BY LeastNumber
<1>2. m - 1 \in Nat /\ m - 1 \notin S
  BY <1>1
<1> QED
  BY <1>1, <1>2

(* What holds at a position if it holds at all behind it holds everywhere. *)
LEMMA FromTheEnd ==
    ASSUME NEW end \in Nat, NEW S,
           \A p \in 1 .. end : (\A q \in p + 1 .. end : q \in S) => p \in S
    PROVE  1 .. end \subseteq S
<1> SUFFICES ASSUME ~(1 .. end \subseteq S) PROVE FALSE
  OBVIOUS
<1> DEFINE T == {k \in Nat : end - k \in (1 .. end) \ S}
<1>1. T # {}
  <2>1. PICK p \in 1 .. end : p \notin S
    OBVIOUS
  <2>2. end - p \in Nat /\ end - (end - p) = p
    BY <2>1
  <2> QED
    BY <2>1, <2>2
<1>2. PICK m \in T : \A k \in T : m <= k
  BY <1>1, LeastNumber
<1>3. \A q \in end - m + 1 .. end : q \in S
  <2> SUFFICES ASSUME NEW q \in end - m + 1 .. end, q \notin S PROVE FALSE
    OBVIOUS
  <2>1. end - q \in Nat /\ end - (end - q) = q /\ q \in 1 .. end /\ end - q < m
    BY <1>2
  <2> QED
    BY <1>2, <2>1
<1> QED
  BY <1>2, <1>3

-----------------------------------------------------------------------------
(* A function whose values follow from one another is there, and has the   *)
(* values one expects: st is given the value before and the place.         *)
Follows(f, st, p, e) == f = [q \in p .. e |-> st[<<IF q = p THEN 0 ELSE f[q - 1], q>>]]

LEMMA FollowsAt ==
    ASSUME NEW p \in Nat, NEW e \in Nat, NEW st, NEW f, Follows(f, st, p, e)
    PROVE  \A q \in p .. e : f[q] = st[<<IF q = p THEN 0 ELSE f[q - 1], q>>]
BY Zenon DEF Follows

LEMMA FollowsExists ==
    ASSUME NEW p \in Nat, NEW n \in Nat, NEW st
    PROVE  \E f : Follows(f, st, p, p + n)
<1> DEFINE S == {k \in Nat : \E f : Follows(f, st, p, p + k)}
<1>1. 0 \in S
  <2> DEFINE f == [q \in p .. p + 0 |-> st[<<0, q>>]]
  <2>1. f = [q \in p .. p + 0 |-> st[<<IF q = p THEN 0 ELSE f[q - 1], q>>]]
    <3>1. \A q \in p .. p + 0 : q = p
      OBVIOUS
    <3> QED
      BY <3>1
  <2> HIDE DEF f
  <2> QED
    BY <2>1 DEF Follows
<1>2. ASSUME NEW k \in Nat, k \in S PROVE k + 1 \in S
  <2>1. PICK f : Follows(f, st, p, p + k)
    BY <1>2
  <2> DEFINE next(g, q) == st[<<IF q = p THEN 0 ELSE g[q - 1], q>>]
             h == [q \in p .. p + (k + 1) |-> next(f, q)]
  <2>2. \A q \in p .. p + k : h[q] = f[q]
    <3>1. \A q \in p .. p + k : f[q] = next(f, q)
      BY <2>1, FollowsAt
    <3>2. \A q \in p .. p + k : q \in p .. p + (k + 1)
      OBVIOUS
    <3> HIDE DEF next
    <3>3. \A q \in p .. p + k : h[q] = next(f, q)
      BY <3>2
    <3> HIDE DEF h
    <3> QED
      BY <3>1, <3>3
  <2>3. \A q \in p .. p + (k + 1) : next(f, q) = next(h, q)
    <3> HIDE DEF h
    <3>1. \A q \in p .. p + (k + 1) : q # p => q - 1 \in p .. p + k
      OBVIOUS
    <3> QED
      BY <2>2, <3>1
  <2>4. h = [q \in p .. p + (k + 1) |-> next(h, q)]
    <3>1. \A g : (\A q \in p .. p + (k + 1) : next(f, q) = next(g, q))
                    => [q \in p .. p + (k + 1) |-> next(f, q)]
                         = [q \in p .. p + (k + 1) |-> next(g, q)]
      <4> HIDE DEF next
      <4> QED
        OBVIOUS
    <3> QED
      BY <2>3, <3>1
  <2>5. \E g : Follows(g, st, p, p + (k + 1))
    <3> HIDE DEF h
    <3> QED
      BY <2>4 DEF Follows
  <2> QED
    BY <2>5
<1>3. Nat \subseteq S
  <2> HIDE DEF S
  <2> QED
    BY <1>1, <1>2, AllNumbers
<1> QED
  BY <1>3

(* The parts of a byte.                                                    *)
LEMMA ByteParts ==
    ASSUME NEW b \in Byte
    PROVE  /\ Nibble(b) \in 0 .. 15 /\ TyRaw(b) \in 0 .. 7
           /\ b = 0 => Nibble(b) = 0 /\ TyRaw(b) = 0 /\ ~HasMore(b)
<1>1. Nibble(b) \in 0 .. 15
  BY DEF Byte, Nibble
<1>2. TyRaw(b) \in 0 .. 7
  BY DEF Byte, TyRaw
<1>3. b = 0 => Nibble(b) = 0 /\ TyRaw(b) = 0 /\ ~HasMore(b)
  BY DEF Nibble, TyRaw, HasMore
<1> QED
  BY <1>1, <1>2, <1>3

(* Such a function has numbers for values if st gives numbers.             *)
LEMMA FollowsNat ==
    ASSUME NEW p \in Nat, NEW e \in Nat, NEW st, NEW f, Follows(f, st, p, e),
           \A x \in Nat : \A q \in p .. e : st[<<x, q>>] \in Nat
    PROVE  \A q \in p .. e : f[q] \in Nat
<1> DEFINE S == {k \in Nat : p + k <= e => f[p + k] \in Nat}
<1>1. 0 \in S
  <2>1. p + 0 <= e => p + 0 = p /\ p \in p .. e
    OBVIOUS
  <2>2. p \in p .. e => f[p] = st[<<0, p>>]
    BY FollowsAt
  <2> QED
    BY <2>1, <2>2
<1>2. ASSUME NEW k \in Nat, k \in S, p + (k + 1) <= e PROVE f[p + (k + 1)] \in Nat
  <2>1. f[p + k] \in Nat
    BY <1>2
  <2>2. /\ p + (k + 1) \in p .. e /\ p + (k + 1) # p /\ (p + (k + 1)) - 1 = p + k
    BY <1>2
  <2>3. f[p + (k + 1)] = st[<<f[p + k], p + (k + 1)>>]
    BY <2>2, FollowsAt
  <2> QED
    BY <2>1, <2>2, <2>3
<1>3. Nat \subseteq S
  <2>1. \A k \in Nat : k \in S => k + 1 \in S
    BY <1>2
  <2> HIDE DEF S
  <2> QED
    BY <1>1, <2>1, AllNumbers
<1> SUFFICES ASSUME NEW q \in p .. e PROVE f[q] \in Nat
  OBVIOUS
<1>4. q - p \in Nat /\ p + (q - p) = q
  OBVIOUS
<1> QED
  BY <1>3, <1>4

(* The number a header announces.                                          *)
Numbers(f, s, p, e) ==
    f = [q \in p .. e |-> 16 * (IF q = p THEN 0 ELSE f[q - 1]) + Nibble(s[q])]

LEMMA NumbersNat ==
    ASSUME NEW s \in Seq(Byte), NEW p \in Nat \ {0}, NEW e \in p .. Len(s)
    PROVE  /\ \E f : Numbers(f, s, p, e)
           /\ \A f : Numbers(f, s, p, e) => \A q \in p .. e : f[q] \in Nat
<1> DEFINE st == [x \in Int \X (p .. e) |-> 16 * x[1] + Nibble(s[x[2]])]
<1>1. \A q \in p .. e : Nibble(s[q]) \in 0 .. 15
  <2>1. \A q \in p .. e : s[q] \in Byte
    BY ElementOfSeq
  <2> QED
    BY <2>1, ByteParts
<1>7. \A x \in Nat : \A y \in 0 .. 15 : 16 * x + y \in Nat
  OBVIOUS
<1>2. \A x \in Int : \A q \in p .. e : st[<<x, q>>] = 16 * x + Nibble(s[q])
  OBVIOUS
<1> HIDE DEF st
<1>3. \A x \in Nat : \A q \in p .. e : st[<<x, q>>] \in Nat
  <2> SUFFICES ASSUME NEW x \in Nat, NEW q \in p .. e PROVE st[<<x, q>>] \in Nat
    OBVIOUS
  <2>1. st[<<x, q>>] = 16 * x + Nibble(s[q])
    BY <1>2
  <2> QED
    BY <1>1, <1>7, <2>1
<1>4. e - p \in Nat /\ p + (e - p) = e /\ e \in Nat /\ p \in Nat
  OBVIOUS
<1>5. \E f : Numbers(f, s, p, e)
  <2>1. PICK f : Follows(f, st, p, e)
    BY <1>4, FollowsExists
  <2>2. \A q \in p .. e : f[q] \in Nat
    BY <1>3, <1>4, <2>1, FollowsNat
  <2>3. \A q \in p .. e : q # p => q - 1 \in p .. e
    OBVIOUS
  <2>4. \A q \in p .. e :
            st[<<IF q = p THEN 0 ELSE f[q - 1], q>>]
              = 16 * (IF q = p THEN 0 ELSE f[q - 1]) + Nibble(s[q])
    BY <1>2, <2>2, <2>3
  <2>5. f = [q \in p .. e |-> st[<<IF q = p THEN 0 ELSE f[q - 1], q>>]]
    BY <2>1 DEF Follows
  <2> QED
    BY <2>4, <2>5, ZenonT(60) DEF Numbers
<1>6. ASSUME NEW f, Numbers(f, s, p, e), NEW q \in p .. e PROVE f[q] \in Nat
  <2> DEFINE S == {k \in Nat : p + k <= e => f[p + k] \in Nat}
  <2>1. \A r \in p .. e : f[r] = 16 * (IF r = p THEN 0 ELSE f[r - 1]) + Nibble(s[r])
    BY <1>6, Zenon DEF Numbers
  <2>2. 0 \in S
    <3>1. p + 0 <= e => p + 0 \in p .. e /\ p + 0 = p
      OBVIOUS
    <3> QED
      BY <1>1, <2>1, <3>1, SMTT(60)
  <2>3. ASSUME NEW k \in Nat, k \in S, p + (k + 1) <= e PROVE f[p + (k + 1)] \in Nat
    <3>1. f[p + k] \in Nat
      BY <2>3
    <3>2. p + (k + 1) \in p .. e /\ p + (k + 1) # p /\ (p + (k + 1)) - 1 = p + k
      BY <2>3
    <3>3. f[p + (k + 1)] = 16 * f[p + k] + Nibble(s[p + (k + 1)])
      BY <2>1, <3>2
    <3> QED
      BY <1>1, <1>7, <3>1, <3>2, <3>3
  <2>4. Nat \subseteq S
    <3>1. \A k \in Nat : k \in S => k + 1 \in S
      BY <2>3
    <3> HIDE DEF S
    <3> QED
      BY <2>2, <3>1, AllNumbers
  <2>5. q - p \in Nat /\ p + (q - p) = q
    OBVIOUS
  <2> QED
    BY <2>4, <2>5
<1> QED
  BY <1>5, <1>6

(* A header's end is its first byte without more behind it.                *)
LEMMA HeaderEndIs ==
    ASSUME NEW s \in Seq(Byte), NEW p \in Nat \ {0}, Ends(s, p) # {}
    PROVE  /\ HeaderEnd(s, p) \in p .. Len(s) /\ ~HasMore(s[HeaderEnd(s, p)])
           /\ \A q \in p .. HeaderEnd(s, p) - 1 : HasMore(s[q])
<1>1. Ends(s, p) \in SUBSET Nat
  BY DEF Ends
<1>2. PICK m \in Ends(s, p) : \A k \in Ends(s, p) : m <= k
  BY <1>1, LeastNumber
<1>3. HeaderEnd(s, p) \in Ends(s, p) /\ \A k \in Ends(s, p) : HeaderEnd(s, p) <= k
  BY <1>2 DEF HeaderEnd, Min
<1>4. HeaderEnd(s, p) \in p .. Len(s) /\ ~HasMore(s[HeaderEnd(s, p)]) /\ Len(s) \in Nat
  BY <1>3 DEF Ends
<1>5. ASSUME NEW q \in p .. HeaderEnd(s, p) - 1, ~HasMore(s[q]) PROVE FALSE
  <2>1. q \in p .. Len(s) /\ q < HeaderEnd(s, p)
    BY <1>4
  <2>2. q \in Ends(s, p)
    BY <1>5, <2>1 DEF Ends
  <2> QED
    BY <1>3, <1>4, <2>1, <2>2
<1> QED
  BY <1>4, <1>5

LEMMA DeclaredIs ==
    ASSUME NEW s \in Seq(Byte), NEW p \in Nat \ {0}, Ends(s, p) # {}
    PROVE  \E f : /\ Declared(s, p) = f[HeaderEnd(s, p)]
                  /\ \A q \in p .. HeaderEnd(s, p) :
                        /\ f[q] \in Nat
                        /\ f[q] = 16 * (IF q = p THEN 0 ELSE f[q - 1]) + Nibble(s[q])
<1> DEFINE e == HeaderEnd(s, p)
           f == CHOOSE f : f = [q \in p .. e |-> 16 * (IF q = p THEN 0 ELSE f[q - 1]) + Nibble(s[q])]
<1>1. Declared(s, p) = f[e]
  BY DEF Declared
<1>2. e \in p .. Len(s)
  BY HeaderEndIs
<1>3. f = CHOOSE g : Numbers(g, s, p, e)
  BY DEF Numbers
<1> HIDE DEF f, e
<1>4. Numbers(f, s, p, e)
  BY <1>2, <1>3, NumbersNat
<1>5. \A q \in p .. e : f[q] \in Nat
  BY <1>2, <1>4, NumbersNat
<1>6. \A q \in p .. e : f[q] = 16 * (IF q = p THEN 0 ELSE f[q - 1]) + Nibble(s[q])
  BY <1>4, Zenon DEF Numbers
<1> QED
  BY <1>1, <1>5, <1>6 DEF e

LEMMA Modulo ==
    ASSUME NEW a \in Nat, NEW u \in Nat \ {0}
    PROVE  a % u \in Nat /\ (a < u => a % u = a)
OBVIOUS

(* What the reader makes of it is a number, too ...                        *)
Lens(f, s, p, e) == f = [q \in p .. e |-> ShiftIn(IF q = p THEN 0 ELSE f[q - 1], s[q])]

LEMMA ShiftInNat ==
    ASSUME NEW x \in Nat, NEW b \in Byte
    PROVE  /\ ShiftIn(x, b) \in Nat
           /\ 16 * x < UsizeRange => ShiftIn(x, b) = 16 * x + Nibble(b)
<1>1. Nibble(b) \in Nat
  BY ByteParts
<1>2. x * 16 \in Nat /\ UsizeRange \in Nat \ {0}
  BY TlvReaderAssumption
<1>3. (x * 16) % UsizeRange \in Nat /\ (x * 16 < UsizeRange => (x * 16) % UsizeRange = x * 16)
  BY <1>2, Modulo
<1> QED
  BY <1>1, <1>3 DEF ShiftIn

LEMMA LensNat ==
    ASSUME NEW s \in Seq(Byte), NEW p \in Nat \ {0}, NEW e \in p .. Len(s)
    PROVE  /\ \E f : Lens(f, s, p, e)
           /\ \A f : Lens(f, s, p, e) => \A q \in p .. e : f[q] \in Nat
<1> DEFINE st == [x \in Int \X (p .. e) |-> ShiftIn(x[1], s[x[2]])]
<1>1. \A q \in p .. e : s[q] \in Byte
  BY ElementOfSeq
<1>2. \A x \in Int : \A q \in p .. e : st[<<x, q>>] = ShiftIn(x, s[q])
  OBVIOUS
<1> HIDE DEF st
<1>3. \A x \in Nat : \A q \in p .. e : ShiftIn(x, s[q]) \in Nat
  BY <1>1, ShiftInNat
<1>4. \A x \in Nat : \A q \in p .. e : st[<<x, q>>] \in Nat
  <2>1. Nat \subseteq Int
    OBVIOUS
  <2> QED
    BY <1>2, <1>3, <2>1
<1>5. e - p \in Nat /\ p + (e - p) = e /\ e \in Nat /\ p \in Nat
  OBVIOUS
<1>6. \E f : Lens(f, s, p, e)
  <2>1. PICK f : Follows(f, st, p, e)
    BY <1>5, FollowsExists
  <2>2. \A q \in p .. e : f[q] \in Nat
    BY <1>4, <1>5, <2>1, FollowsNat
  <2>3. \A q \in p .. e : q # p => q - 1 \in p .. e
    OBVIOUS
  <2>4. \A q \in p .. e :
            st[<<IF q = p THEN 0 ELSE f[q - 1], q>>]
              = ShiftIn(IF q = p THEN 0 ELSE f[q - 1], s[q])
    <3> SUFFICES ASSUME NEW q \in p .. e, NEW x, x = (IF q = p THEN 0 ELSE f[q - 1])
                 PROVE  st[<<x, q>>] = ShiftIn(x, s[q])
      OBVIOUS
    <3>1. x \in Int
      BY <2>2, <2>3
    <3> QED
      BY <1>2, <3>1
  <2>5. f = [q \in p .. e |-> st[<<IF q = p THEN 0 ELSE f[q - 1], q>>]]
    BY <2>1 DEF Follows
  <2> QED
    BY <2>4, <2>5 DEF Lens
<1>7. ASSUME NEW f, Lens(f, s, p, e), NEW q \in p .. e PROVE f[q] \in Nat
  <2> DEFINE S == {k \in Nat : p + k <= e => f[p + k] \in Nat}
  <2>1. \A r \in p .. e : f[r] = ShiftIn(IF r = p THEN 0 ELSE f[r - 1], s[r])
    BY <1>7, Zenon DEF Lens
  <2>2. 0 \in S
    <3>1. p + 0 <= e => p + 0 \in p .. e /\ p + 0 = p
      OBVIOUS
    <3>2. p \in p .. e => f[p] = ShiftIn(0, s[p])
      BY <2>1
    <3> QED
      BY <1>3, <3>1, <3>2
  <2>3. ASSUME NEW k \in Nat, k \in S, p + (k + 1) <= e PROVE f[p + (k + 1)] \in Nat
    <3>1. f[p + k] \in Nat
      BY <2>3
    <3>2. p + (k + 1) \in p .. e /\ p + (k + 1) # p /\ (p + (k + 1)) - 1 = p + k
      BY <2>3
    <3>3. f[p + (k + 1)] = ShiftIn(f[p + k], s[p + (k + 1)])
      BY <2>1, <3>2
    <3> QED
      BY <1>3, <3>1, <3>2, <3>3
  <2>4. Nat \subseteq S
    <3>1. \A k \in Nat : k \in S => k + 1 \in S
      BY <2>3
    <3> HIDE DEF S
    <3> QED
      BY <2>2, <3>1, AllNumbers
  <2>5. q - p \in Nat /\ p + (q - p) = q
    OBVIOUS
  <2> QED
    BY <2>4, <2>5
<1> QED
  BY <1>6, <1>7

LEMMA HeaderLenIs ==
    ASSUME stream \in Seq(Byte), NEW p \in Nat \ {0}, NEW e \in p .. Len(stream)
    PROVE  \E f : /\ HeaderLen(p, e) = f[e]
                  /\ \A q \in p .. e :
                        /\ f[q] \in Nat
                        /\ f[q] = ShiftIn(IF q = p THEN 0 ELSE f[q - 1], stream[q])
<1> DEFINE f == CHOOSE f : f = [q \in p .. e |-> ShiftIn(IF q = p THEN 0 ELSE f[q - 1], stream[q])]
<1>1. HeaderLen(p, e) = f[e]
  BY DEF HeaderLen
<1>2. f = CHOOSE g : Lens(g, stream, p, e)
  BY DEF Lens
<1> HIDE DEF f
<1>3. Lens(f, stream, p, e)
  BY <1>2, LensNat
<1>4. \A q \in p .. e : f[q] \in Nat
  BY <1>3, LensNat
<1>5. \A q \in p .. e : f[q] = ShiftIn(IF q = p THEN 0 ELSE f[q - 1], stream[q])
  BY <1>3, Zenon DEF Lens
<1> QED
  BY <1>1, <1>4, <1>5

(* ... and the same one if a usize can hold it.                            *)
LEMMA HeaderLenExact ==
    ASSUME stream \in Seq(Byte), NEW p \in Nat \ {0}, Ends(stream, p) # {},
           Declared(stream, p) < UsizeRange
    PROVE  HeaderLen(p, HeaderEnd(stream, p)) = Declared(stream, p)
<1> DEFINE e == HeaderEnd(stream, p)
<1>1. e \in p .. Len(stream)
  BY HeaderEndIs
<1>2. PICK d : /\ Declared(stream, p) = d[e]
               /\ \A q \in p .. e :
                    /\ d[q] \in Nat
                    /\ d[q] = 16 * (IF q = p THEN 0 ELSE d[q - 1]) + Nibble(stream[q])
  BY DeclaredIs
<1>3. PICK f : /\ HeaderLen(p, e) = f[e]
               /\ \A q \in p .. e :
                    /\ f[q] \in Nat
                    /\ f[q] = ShiftIn(IF q = p THEN 0 ELSE f[q - 1], stream[q])
  BY <1>1, HeaderLenIs
<1>4. d[e] < UsizeRange
  BY <1>2
<1> HIDE DEF e
<1>5. \A q \in p .. e : stream[q] \in Byte /\ Nibble(stream[q]) \in Nat
  <2>1. \A q \in p .. e : stream[q] \in Byte
    BY <1>1, ElementOfSeq
  <2> QED
    BY <2>1, ByteParts
<1>6. \A q \in p .. e : d[q] < UsizeRange
  <2> DEFINE S == {k \in Nat : e - k >= p => d[e - k] < UsizeRange}
  <2>1. 0 \in S
    BY <1>1, <1>4
  <2>2. ASSUME NEW k \in Nat, k \in S, e - (k + 1) >= p PROVE d[e - (k + 1)] < UsizeRange
    <3>1. /\ e - k \in p .. e /\ e - k # p /\ (e - k) - 1 = e - (k + 1)
          /\ e - (k + 1) \in p .. e
      BY <1>1, <2>2
    <3>2. d[e - k] = 16 * d[e - (k + 1)] + Nibble(stream[e - k])
      BY <1>2, <3>1
    <3>3. d[e - k] < UsizeRange
      BY <2>2, <3>1
    <3>4. d[e - k] \in Nat /\ d[e - (k + 1)] \in Nat /\ Nibble(stream[e - k]) \in Nat
      BY <1>2, <1>5, <3>1
    <3> QED
      BY <3>2, <3>3, <3>4, TlvReaderAssumption
  <2>3. Nat \subseteq S
    <3>1. \A k \in Nat : k \in S => k + 1 \in S
      BY <2>2
    <3> HIDE DEF S
    <3> QED
      BY <2>1, <3>1, AllNumbers
  <2>4. \A q \in p .. e : e - q \in Nat /\ e - (e - q) = q
    BY <1>1
  <2> QED
    BY <2>3, <2>4
<1>7. \A q \in p .. e : f[q] = d[q]
  <2> DEFINE S == {k \in Nat : p + k <= e => f[p + k] = d[p + k]}
  <2>1. 0 \in S
    <3>1. p + 0 = p /\ p \in p .. e
      BY <1>1
    <3>2. f[p] = ShiftIn(0, stream[p]) /\ d[p] = 16 * 0 + Nibble(stream[p])
      BY <1>2, <1>3, <3>1
    <3>3. ShiftIn(0, stream[p]) = 16 * 0 + Nibble(stream[p])
      BY <1>5, <3>1, ShiftInNat, TlvReaderAssumption
    <3> QED
      BY <3>1, <3>2, <3>3
  <2>2. ASSUME NEW k \in Nat, k \in S, p + (k + 1) <= e
        PROVE  f[p + (k + 1)] = d[p + (k + 1)]
    <3>1. /\ p + (k + 1) \in p .. e /\ p + (k + 1) # p /\ (p + (k + 1)) - 1 = p + k
          /\ p + k \in p .. e
      BY <1>1, <2>2
    <3>2. f[p + (k + 1)] = ShiftIn(f[p + k], stream[p + (k + 1)])
      BY <1>3, <3>1
    <3>3. d[p + (k + 1)] = 16 * d[p + k] + Nibble(stream[p + (k + 1)])
      BY <1>2, <3>1
    <3>4. f[p + k] = d[p + k]
      BY <2>2, <3>1
    <3>5. 16 * d[p + k] < UsizeRange
      <4>1. d[p + (k + 1)] < UsizeRange /\ d[p + (k + 1)] \in Nat
        BY <1>2, <1>6, <3>1
      <4>2. d[p + k] \in Nat /\ Nibble(stream[p + (k + 1)]) \in Nat
        BY <1>2, <1>5, <3>1
      <4> QED
        BY <3>3, <4>1, <4>2, TlvReaderAssumption
    <3>6. ShiftIn(d[p + k], stream[p + (k + 1)]) = 16 * d[p + k] + Nibble(stream[p + (k + 1)])
      <4>1. d[p + k] \in Nat /\ stream[p + (k + 1)] \in Byte
        BY <1>2, <1>5, <3>1
      <4> QED
        BY <3>5, <4>1, ShiftInNat
    <3> QED
      BY <3>2, <3>3, <3>4, <3>6
  <2>3. Nat \subseteq S
    <3>1. \A k \in Nat : k \in S => k + 1 \in S
      BY <2>2
    <3> HIDE DEF S
    <3> QED
      BY <2>1, <3>1, AllNumbers
  <2>4. \A q \in p .. e : q - p \in Nat /\ p + (q - p) = q
    OBVIOUS
  <2> QED
    BY <2>3, <2>4
<1>8. e \in p .. e
  BY <1>1
<1> QED
  BY <1>2, <1>3, <1>7, <1>8 DEF e

-----------------------------------------------------------------------------
(* read_tlv_inner.                                                         *)

Stops(p, q) == ~HasMore(stream[q]) \/ (q > p /\ TyRaw(stream[q]) # 0)

LEMMA HeaderStopIs ==
    ASSUME NEW end \in Nat, NEW p \in 1 .. end + 1
    PROVE  /\ HeaderStop(p, end) \in p .. end + 1
           /\ HeaderStop(p, end) <= end => Stops(p, HeaderStop(p, end))
           /\ \A r \in p .. HeaderStop(p, end) - 1 : ~Stops(p, r)
<1> DEFINE S == {q \in p .. end + 1 : q <= end => Stops(p, q)}
           Is(q) == /\ q <= end => ~HasMore(stream[q]) \/ (q > p /\ TyRaw(stream[q]) # 0)
                    /\ \A r \in p .. q - 1 :
                          HasMore(stream[r]) /\ (r > p => TyRaw(stream[r]) = 0)
<1>1. PICK m \in S : \A k \in S : m <= k
  <2>1. end + 1 \in S
    OBVIOUS
  <2>2. S \in SUBSET Nat
    OBVIOUS
  <2> HIDE DEF S
  <2> QED
    BY <2>1, <2>2, LeastNumber
<1>2. Is(m)
  <2>1. m <= end => Stops(p, m)
    BY <1>1
  <2>2. \A r \in p .. m - 1 : ~Stops(p, r)
    <3> SUFFICES ASSUME NEW r \in p .. m - 1, Stops(p, r) PROVE FALSE
      OBVIOUS
    <3>1. r \in S /\ r < m
      BY <1>1
    <3> QED
      BY <1>1, <3>1
  <2> QED
    BY <2>1, <2>2 DEF Stops
<1>3. HeaderStop(p, end) = CHOOSE q \in p .. end + 1 : Is(q)
  BY DEF HeaderStop
<1>4. m \in p .. end + 1
  BY <1>1
<1>5. HeaderStop(p, end) \in p .. end + 1 /\ Is(HeaderStop(p, end))
  <2> HIDE DEF Is
  <2> QED
    BY <1>2, <1>3, <1>4
<1> QED
  BY <1>5 DEF Stops

(* Whatever the bytes are.                                                 *)
LEMMA AnyHeader ==
    ASSUME stream \in Seq(Byte), arrived \in 0 .. Len(stream), NEW p \in 1 .. arrived + 1
    PROVE  LET r == ReadTlvInner(p) IN
             /\ r.result \in {"ok", "Io", "MultibyteTlvReservedType", "EndOfSmlMessage",
                              "ShortTlvLength"}
             /\ r.len \in Nat /\ r.next \in p .. arrived + 1
             /\ r.result \in {"ok", "EndOfSmlMessage"} => r.next > p
             /\ p = arrived + 1 => r.result = "Io"
<1> DEFINE stop == HeaderStop(p, arrived)
           len == HeaderLen(p, stop)
           size == stop - p + 1
<1>1. stop \in p .. arrived + 1
  <2>1. arrived \in Nat
    OBVIOUS
  <2> QED
    BY <2>1, HeaderStopIs
<1>2. CASE stop > arrived
  <2>1. ReadTlvInner(p) = Outcome("Io", "Other", 0, p)
    BY <1>2 DEF ReadTlvInner
  <2> QED
    BY <2>1 DEF Outcome
<1>3. CASE stop \in p .. arrived
  <2>1. len \in Nat
    <3>1. stop \in p .. Len(stream) /\ p \in Nat \ {0}
      BY <1>3
    <3>2. PICK f : HeaderLen(p, stop) = f[stop] /\ \A q \in p .. stop : f[q] \in Nat
      BY <3>1, HeaderLenIs
    <3> QED
      BY <3>1, <3>2
  <2>2. size \in Nat /\ stop + 1 \in p .. arrived + 1 /\ stop + 1 > p /\ p # arrived + 1
    BY <1>3
  <2>3. \E ty : \/ \E e \in {"MultibyteTlvReservedType", "EndOfSmlMessage", "ShortTlvLength"} :
                     ReadTlvInner(p) = Outcome(e, ty, 0, stop + 1)
                \/ ReadTlvInner(p) = Outcome("ok", ty, len, stop + 1)
                \/ len >= size /\ ReadTlvInner(p) = Outcome("ok", ty, len - size, stop + 1)
    <3>1. len < size \/ len >= size
      BY <2>1, <2>2
    <3>2. ~(stop > arrived)
      BY <1>3
    <3> HIDE DEF len
    <3> QED
      BY <3>1, <3>2, Zenon DEF ReadTlvInner, len
  <2> HIDE DEF len, size, stop
  <2> QED
    BY <2>1, <2>2, <2>3 DEF Outcome
<1> QED
  BY <1>1, <1>2, <1>3

LEMMA TlvTypeIs ==
    ASSUME NEW raw \in 0 .. 7
    PROVE  /\ TlvType[raw] = "List" <=> raw = 7
           /\ raw = 0 => TlvType[raw] = "String"
<1>1. TlvType[raw] = CASE raw = 0 -> "String" [] raw = 4 -> "Boolean"
                       [] raw = 5 -> "Integer" [] raw = 6 -> "Unsigned"
                       [] raw = 7 -> "List" [] OTHER -> "Other"
  BY DEF TlvType
<1> QED
  BY <1>1

(* The header of an end marker.                                            *)
LEMMA EndMarkHeader ==
    ASSUME stream \in Seq(Byte), arrived \in 0 .. Len(stream), NEW p \in 1 .. arrived,
           stream[p] = 0
    PROVE  LET r == ReadTlvInner(p)
           IN  r.result = "EndOfSmlMessage" /\ r.next = p + 1
<1>1. Nibble(stream[p]) = 0 /\ TyRaw(stream[p]) = 0 /\ ~HasMore(stream[p]) /\ 0 \in Byte
  BY ByteParts DEF Byte
<1>2. HeaderStop(p, arrived) = p
  <2>1. arrived \in Nat /\ p \in 1 .. arrived + 1
    OBVIOUS
  <2>2. /\ HeaderStop(p, arrived) \in p .. arrived + 1
        /\ \A r \in p .. HeaderStop(p, arrived) - 1 : ~Stops(p, r)
    BY <2>1, HeaderStopIs
  <2>3. Stops(p, p)
    BY <1>1 DEF Stops
  <2> QED
    BY <2>2, <2>3
<1>3. HeaderLen(p, p) = 0
  <2>1. p \in Nat \ {0} /\ p \in p .. Len(stream) /\ p \in p .. p
    OBVIOUS
  <2>2. PICK f : /\ HeaderLen(p, p) = f[p]
                 /\ \A q \in p .. p :
                       f[q] = ShiftIn(IF q = p THEN 0 ELSE f[q - 1], stream[q])
    BY <2>1, HeaderLenIs
  <2>3. f[p] = ShiftIn(0, stream[p])
    BY <2>1, <2>2
  <2>4. ShiftIn(0, stream[p]) = 16 * 0 + Nibble(stream[p])
    <3>1. 16 * 0 < UsizeRange
      BY TlvReaderAssumption
    <3> QED
      BY <1>1, <3>1, ShiftInNat
  <2> QED
    BY <1>1, <2>2, <2>3, <2>4
<1>4. TlvType[TyRaw(stream[p])] = "String"
  BY <1>1, TlvTypeIs
<1>5. ReadTlvInner(p) = Outcome("EndOfSmlMessage", "String", 0, p + 1)
  <2>1. ~(p > arrived) /\ ~(p - p + 1 > 1)
    OBVIOUS
  <2> QED
    BY <1>2, <1>3, <1>4, <2>1 DEF ReadTlvInner
<1> QED
  BY <1>5 DEF Outcome

(* How long the value of an item is, or how many items its list has.       *)
Amount(s, p) == IF IsList(s, p) THEN Declared(s, p) ELSE ValueLen(s, p)

(* A header SML allows is read as what it says.                            *)
LEMMA KnownHeader ==
    ASSUME stream \in Seq(Byte), arrived \in 0 .. Len(stream), NEW p \in 1 .. arrived + 1,
           HeaderAllowed(stream, p)
    PROVE  LET r == ReadTlvInner(p) IN
             /\ r.result \in {"ok", "Io"}
             /\ r.result = "ok" =>
                  /\ r.ty # "Other" /\ (r.ty = "List" <=> IsList(stream, p))
                  /\ HeaderEnd(stream, p) <= arrived
                  /\ r.next = HeaderEnd(stream, p) + 1
                  /\ r.len = Amount(stream, p)
<1> DEFINE e == HeaderEnd(stream, p)
           ty == TlvType[TyRaw(stream[p])]
           h == HeaderStop(p, arrived)
<1>1. p \in Nat \ {0} /\ arrived \in Nat /\ Len(stream) \in Nat /\ p <= Len(stream)
  BY DEF HeaderAllowed
<1>2. Ends(stream, p) # {} /\ ty # "Other" /\ \A q \in p + 1 .. e : TyRaw(stream[q]) = 0
  BY DEF HeaderAllowed
<1>3. /\ e \in p .. Len(stream) /\ ~HasMore(stream[e])
      /\ \A q \in p .. e - 1 : HasMore(stream[q])
  BY <1>1, <1>2, HeaderEndIs
<1>4. /\ h \in p .. arrived + 1 /\ (h <= arrived => Stops(p, h))
      /\ \A r \in p .. h - 1 : ~Stops(p, r)
  BY <1>1, HeaderStopIs
<1>5. h = e \/ h > arrived
  <2>1. Stops(p, e)
    BY <1>3 DEF Stops
  <2>2. \A q \in p .. e - 1 : ~Stops(p, q)
    <3>1. \A q \in p .. e - 1 : q > p => q \in p + 1 .. e
      BY <1>1, <1>3
    <3> QED
      BY <1>2, <1>3, <3>1 DEF Stops
  <2>3. ~(e \in p .. h - 1)
    BY <1>4, <2>1
  <2>4. ~(h <= arrived /\ h \in p .. e - 1)
    BY <1>4, <2>2
  <2> HIDE DEF e, h
  <2> QED
    BY <1>1, <1>3, <1>4, <2>3, <2>4
<1>6. CASE h > arrived
  <2>1. ReadTlvInner(p) = Outcome("Io", "Other", 0, p)
    BY <1>6 DEF ReadTlvInner
  <2> QED
    BY <2>1 DEF Outcome
<1>7. CASE h = e /\ ~(h > arrived)
  <2>1. TyRaw(stream[p]) \in 0 .. 7
    <3>1. stream[p] \in Byte
      BY <1>1, ElementOfSeq
    <3> QED
      BY <3>1, ByteParts
  <2>2. ty = "List" <=> IsList(stream, p)
    BY <2>1, TlvTypeIs DEF IsList
  <2>3. e - p + 1 > 1 => TyRaw(stream[e]) = 0
    BY <1>1, <1>2, <1>3
  <2>4. Declared(stream, p) \in Nat /\ (e = p => Declared(stream, p) = Nibble(stream[p]))
    <3>1. PICK f : /\ Declared(stream, p) = f[e]
                   /\ \A q \in p .. e :
                         /\ f[q] \in Nat
                         /\ f[q] = 16 * (IF q = p THEN 0 ELSE f[q - 1]) + Nibble(stream[q])
      BY <1>1, <1>2, DeclaredIs
    <3>2. e \in p .. e
      BY <1>3
    <3>3. e = p => f[e] = 16 * 0 + Nibble(stream[p])
      BY <3>1, <3>2
    <3>4. Nibble(stream[p]) \in Nat
      BY <1>1, ElementOfSeq, ByteParts, SMTT(60)
    <3> HIDE DEF e
    <3> QED
      BY <3>1, <3>2, <3>3, <3>4
  <2>5. HeaderSize(stream, p) = e - p + 1
    BY DEF HeaderSize
  <2>6. CASE IsList(stream, p)
    <3>1. e = p
      BY <2>6 DEF HeaderAllowed
    <3>2. Declared(stream, p) < UsizeRange
      <4>1. Nibble(stream[p]) \in 0 .. 15
        BY <1>1, ElementOfSeq, ByteParts
      <4>2. UsizeRange >= 16
        BY TlvReaderAssumption
      <4> QED
        BY <2>4, <3>1, <4>1, <4>2, TlvReaderAssumption
    <3>3. HeaderLen(p, e) = Declared(stream, p)
      BY <1>1, <1>2, <3>2, HeaderLenExact
    <3>4. ReadTlvInner(p) = Outcome("ok", ty, HeaderLen(p, e), e + 1)
      <4>1. ~(e - p + 1 > 1) /\ stream[e] = stream[p]
        BY <1>1, <3>1
      <4> HIDE DEF e
      <4> QED
        BY <1>7, <2>2, <2>6, <4>1 DEF ReadTlvInner
    <3> QED
      BY <1>2, <1>3, <1>7, <2>2, <2>6, <3>3, <3>4 DEF Outcome, Amount
  <2>7. CASE ~IsList(stream, p)
    <3>1. Declared(stream, p) \in e - p + 1 .. UsizeRange - 1
      BY <2>5, <2>7 DEF HeaderAllowed
    <3>2. HeaderLen(p, e) = Declared(stream, p)
      BY <1>1, <1>2, <2>4, <3>1, HeaderLenExact, TlvReaderAssumption
    <3>3. TlvType[TyRaw(stream[e])] # "List"
      <4>1. CASE e = p
        BY <2>2, <2>7, <4>1
      <4>2. CASE e - p + 1 > 1
        BY <2>3, <4>2, TlvTypeIs
      <4> QED
        BY <1>3, <4>1, <4>2
    <3>4. ~(HeaderLen(p, e) < e - p + 1) /\ HeaderLen(p, e) # 0
      BY <1>1, <1>3, <2>4, <3>1, <3>2
    <3>5. ReadTlvInner(p) = Outcome("ok", ty, HeaderLen(p, e) - (e - p + 1), e + 1)
      <4> HIDE DEF e
      <4> QED
        BY <1>7, <2>3, <3>3, <3>4 DEF ReadTlvInner
    <3> QED
      BY <1>2, <1>3, <1>7, <2>2, <2>5, <2>7, <3>2, <3>5 DEF Outcome, Amount, ValueLen
  <2> QED
    BY <2>6, <2>7
<1> QED
  BY <1>5, <1>6, <1>7

-----------------------------------------------------------------------------
(* Counting items.                                                         *)

(* Where the item at p ends, and what Behind says of p, by what a function *)
(* b says of the positions behind p.                                       *)
ItemEnd(s, b, p) == IF IsList(s, p) THEN b[p + 1][Declared(s, p)] ELSE p + Declared(s, p)

Row(s, b, p) ==
    [n \in Nat |->
       IF n = 0 THEN p
       ELSE IF ~HeaderAllowed(s, p) THEN 0
       ELSE IF ItemEnd(s, b, p) \in p + 1 .. Len(s) + 1 THEN b[ItemEnd(s, b, p)][n - 1] ELSE 0]

Rows(s, b, first) == b = [p \in first .. Len(s) + 1 |-> Row(s, b, p)]

LEMMA RowIsLocal ==
    ASSUME NEW s \in Seq(Byte), NEW p \in 1 .. Len(s) + 1, NEW b, NEW c,
           \A q \in p + 1 .. Len(s) + 1 : b[q] = c[q]
    PROVE  Row(s, b, p) = Row(s, c, p)
<1>1. CASE ~HeaderAllowed(s, p)
  BY <1>1 DEF Row
<1>2. CASE HeaderAllowed(s, p)
  <2>1. p + 1 \in p + 1 .. Len(s) + 1
    <3>1. p <= Len(s)
      BY <1>2 DEF HeaderAllowed
    <3> QED
      BY <3>1
  <2>2. ItemEnd(s, b, p) = ItemEnd(s, c, p)
    BY <2>1 DEF ItemEnd
  <2>3. \A n \in Nat :
            (IF ItemEnd(s, b, p) \in p + 1 .. Len(s) + 1 THEN b[ItemEnd(s, b, p)][n - 1] ELSE 0)
          = (IF ItemEnd(s, c, p) \in p + 1 .. Len(s) + 1 THEN c[ItemEnd(s, c, p)][n - 1] ELSE 0)
    BY <2>2
  <2> QED
    BY <2>3 DEF Row
<1> QED
  BY <1>1, <1>2

LEMMA RowsExist ==
    ASSUME NEW s \in Seq(Byte), NEW k \in 0 .. Len(s)
    PROVE  \E b : Rows(s, b, Len(s) + 1 - k)
<1> DEFINE L == Len(s)
           S == {j \in Nat : j <= L => \E b : Rows(s, b, L + 1 - j)}
<1>1. L \in Nat
  OBVIOUS
<1>2. 0 \in S
  <2> DEFINE b == [p \in L + 1 .. L + 1 |-> Row(s, << >>, p)]
  <2>1. \A p \in L + 1 .. L + 1 : Row(s, << >>, p) = Row(s, b, p)
    <3> SUFFICES ASSUME NEW p \in L + 1 .. L + 1 PROVE Row(s, << >>, p) = Row(s, b, p)
      OBVIOUS
    <3>1. p \in 1 .. L + 1 /\ \A q \in p + 1 .. L + 1 : FALSE
      BY <1>1
    <3> HIDE DEF b
    <3> QED
      BY <3>1, RowIsLocal
  <2>2. b = [p \in L + 1 .. L + 1 |-> Row(s, b, p)]
    <3>1. \A c : (\A p \in L + 1 .. L + 1 : Row(s, << >>, p) = Row(s, c, p))
                    => [p \in L + 1 .. L + 1 |-> Row(s, << >>, p)]
                         = [p \in L + 1 .. L + 1 |-> Row(s, c, p)]
      OBVIOUS
    <3> QED
      BY <2>1, <3>1
  <2>3. \E c : Rows(s, c, L + 1 - 0)
    <3>1. L + 1 - 0 = L + 1
      BY <1>1
    <3> HIDE DEF b
    <3> QED
      BY <2>2, <3>1 DEF Rows
  <2> QED
    BY <2>3
<1>3. ASSUME NEW j \in Nat, j \in S PROVE j + 1 \in S
  <2> SUFFICES ASSUME j + 1 <= L PROVE \E c : Rows(s, c, L + 1 - (j + 1))
    OBVIOUS
  <2>1. PICK b : Rows(s, b, L + 1 - j)
    BY <1>1, <1>3
  <2> DEFINE lo == L + 1 - (j + 1)
             h == [p \in lo .. L + 1 |-> Row(s, b, p)]
  <2>2. lo \in 1 .. L /\ L + 1 - j = lo + 1
    BY <1>1
  <2>3. \A q \in lo + 1 .. L + 1 : h[q] = b[q]
    <3>1. \A q \in lo + 1 .. L + 1 : b[q] = Row(s, b, q)
      BY <2>1, <2>2, Zenon DEF Rows
    <3>2. \A q \in lo + 1 .. L + 1 : q \in lo .. L + 1
      BY <1>1, <2>2
    <3> HIDE DEF lo
    <3> QED
      BY <3>1, <3>2
  <2>4. \A p \in lo .. L + 1 : Row(s, b, p) = Row(s, h, p)
    <3> SUFFICES ASSUME NEW p \in lo .. L + 1 PROVE Row(s, b, p) = Row(s, h, p)
      OBVIOUS
    <3> HIDE DEF h
    <3>1. p \in 1 .. L + 1 /\ \A q \in p + 1 .. L + 1 : q \in lo + 1 .. L + 1
      BY <1>1, <2>2
    <3>2. \A q \in p + 1 .. L + 1 : b[q] = h[q]
      BY <2>3, <3>1
    <3> QED
      BY <3>1, <3>2, RowIsLocal
  <2>5. h = [p \in lo .. L + 1 |-> Row(s, h, p)]
    <3>1. \A c : (\A p \in lo .. L + 1 : Row(s, b, p) = Row(s, c, p))
                    => [p \in lo .. L + 1 |-> Row(s, b, p)] = [p \in lo .. L + 1 |-> Row(s, c, p)]
      OBVIOUS
    <3> QED
      BY <2>4, <3>1
  <2> HIDE DEF h
  <2> QED
    BY <2>5 DEF Rows
<1>4. Nat \subseteq S
  <2>1. \A j \in Nat : j \in S => j + 1 \in S
    BY <1>3
  <2> HIDE DEF S
  <2> QED
    BY <1>2, <2>1, AllNumbers
<1> QED
  BY <1>4

(* Behind, at one position and the positions behind it.                    *)
LEMMA BehindIs ==
    ASSUME NEW s \in Seq(Byte), NEW p \in 1 .. Len(s) + 1
    PROVE  Behind(s)[p] = Row(s, Behind(s), p)
<1>1. Behind(s) = CHOOSE b : Rows(s, b, 1)
  BY DEF Behind, Rows, Row, ItemEnd
<1>2. \E b : Rows(s, b, 1)
  <2>1. Len(s) \in 0 .. Len(s) /\ Len(s) + 1 - Len(s) = 1
    OBVIOUS
  <2> QED
    BY <2>1, RowsExist
<1>3. Rows(s, Behind(s), 1)
  BY <1>1, <1>2
<1> QED
  BY <1>3, Zenon DEF Rows

ItemEndOf(s, p) == ItemEnd(s, Behind(s), p)

LEMMA BehindAt ==
    ASSUME NEW s \in Seq(Byte), NEW p \in 1 .. Len(s) + 1
    PROVE  /\ Behind(s)[p][0] = p
           /\ \A n \in Nat \ {0} : Behind(s)[p][n] =
                IF HeaderAllowed(s, p) /\ ItemEndOf(s, p) \in p + 1 .. Len(s) + 1
                  THEN Behind(s)[ItemEndOf(s, p)][n - 1] ELSE 0
<1>1. Behind(s)[p] = Row(s, Behind(s), p)
  BY BehindIs
<1> QED
  BY <1>1 DEF Row, ItemEndOf

LEMMA BehindRange ==
    ASSUME NEW s \in Seq(Byte), NEW p \in 1 .. Len(s) + 1, NEW n \in Nat
    PROVE  Behind(s)[p][n] \in {0} \cup (p + n .. Len(s) + 1)
<1> DEFINE S == {q \in 1 .. Len(s) + 1 :
                   \A m \in Nat : Behind(s)[q][m] \in {0} \cup (q + m .. Len(s) + 1)}
<1>1. Len(s) + 1 \in Nat
  OBVIOUS
<1>2. ASSUME NEW q \in 1 .. Len(s) + 1, \A r \in q + 1 .. Len(s) + 1 : r \in S
      PROVE  q \in S
  <2> SUFFICES ASSUME NEW m \in Nat
               PROVE  Behind(s)[q][m] \in {0} \cup (q + m .. Len(s) + 1)
    OBVIOUS
  <2>1. CASE m = 0
    BY <2>1, BehindAt
  <2>2. CASE m \in Nat \ {0} /\ Behind(s)[q][m] = 0
    BY <2>2
  <2>3. CASE m \in Nat \ {0} /\ Behind(s)[q][m] # 0
    <3> DEFINE next == ItemEndOf(s, q)
    <3>1. next \in q + 1 .. Len(s) + 1 /\ Behind(s)[q][m] = Behind(s)[next][m - 1]
      BY <2>3, BehindAt
    <3>2. next \in S /\ m - 1 \in Nat
      BY <1>2, <2>3, <3>1
    <3> HIDE DEF next
    <3>3. Behind(s)[next][m - 1] \in {0} \cup (next + (m - 1) .. Len(s) + 1)
      BY <3>2
    <3> QED
      BY <1>1, <3>1, <3>3
  <2> QED
    BY <2>1, <2>2, <2>3
<1>3. 1 .. Len(s) + 1 \subseteq S
  <2>1. \A q \in 1 .. Len(s) + 1 : (\A r \in q + 1 .. Len(s) + 1 : r \in S) => q \in S
    BY <1>2
  <2> HIDE DEF S
  <2> QED
    BY <1>1, <2>1, FromTheEnd
<1> QED
  BY <1>3

(* Items are counted on from where others end.                             *)
LEMMA BehindBehind ==
    ASSUME NEW s \in Seq(Byte), NEW p \in 1 .. Len(s) + 1, NEW a \in Nat, NEW b \in Nat
    PROVE  Behind(s)[p][a + b] = IF Behind(s)[p][a] = 0 THEN 0 ELSE Behind(s)[Behind(s)[p][a]][b]
<1> DEFINE B == Behind(s)
           S == {q \in 1 .. Len(s) + 1 : \A m, n \in Nat :
                   B[q][m + n] = IF B[q][m] = 0 THEN 0 ELSE B[B[q][m]][n]}
<1>1. Len(s) + 1 \in Nat
  OBVIOUS
<1>2. ASSUME NEW q \in 1 .. Len(s) + 1, \A r \in q + 1 .. Len(s) + 1 : r \in S
      PROVE  q \in S
  <2> SUFFICES ASSUME NEW m \in Nat, NEW n \in Nat
               PROVE  B[q][m + n] = IF B[q][m] = 0 THEN 0 ELSE B[B[q][m]][n]
    OBVIOUS
  <2>1. CASE m = 0
    <3>1. B[q][m] = q /\ q # 0 /\ m + n = n
      BY <2>1, BehindAt
    <3> QED
      BY <3>1
  <2>2. CASE m # 0
    <3> DEFINE next == ItemEndOf(s, q)
               going == HeaderAllowed(s, q) /\ next \in q + 1 .. Len(s) + 1
    <3>1. m \in Nat \ {0} /\ m + n \in Nat \ {0} /\ m - 1 \in Nat /\ m + n - 1 = (m - 1) + n
      BY <2>2
    <3>2. /\ B[q][m] = IF going THEN B[next][m - 1] ELSE 0
          /\ B[q][m + n] = IF going THEN B[next][(m - 1) + n] ELSE 0
      BY <3>1, BehindAt
    <3>3. going => next \in S
      BY <1>2
    <3>4. going => B[next][(m - 1) + n] = IF B[next][m - 1] = 0 THEN 0 ELSE B[B[next][m - 1]][n]
      BY <3>1, <3>3
    <3> HIDE DEF going, next, B
    <3> QED
      BY <3>2, <3>4
  <2> QED
    BY <2>1, <2>2
<1>3. 1 .. Len(s) + 1 \subseteq S
  <2>1. \A q \in 1 .. Len(s) + 1 : (\A r \in q + 1 .. Len(s) + 1 : r \in S) => q \in S
    BY <1>2
  <2> HIDE DEF S
  <2> QED
    BY <1>1, <2>1, FromTheEnd
<1> QED
  BY <1>3

(* An item that counts has a header SML allows, and ends where it says.    *)
LEMMA ItemThatCounts ==
    ASSUME NEW s \in Seq(Byte), NEW p \in 1 .. Len(s) + 1, NEW n \in Nat \ {0},
           Behind(s)[p][n] # 0
    PROVE  /\ HeaderAllowed(s, p)
           /\ ItemEndOf(s, p) \in p + 1 .. Len(s) + 1
           /\ Behind(s)[p][1] = ItemEndOf(s, p)
           /\ Behind(s)[p][n] = Behind(s)[ItemEndOf(s, p)][n - 1]
<1>1. HeaderAllowed(s, p) /\ ItemEndOf(s, p) \in p + 1 .. Len(s) + 1
  BY BehindAt
<1>2. Behind(s)[p][n] = Behind(s)[ItemEndOf(s, p)][n - 1]
  BY <1>1, BehindAt
<1>3. Behind(s)[p][1] = ItemEndOf(s, p)
  <2>1. 1 \in Nat \ {0} /\ 1 - 1 = 0
    OBVIOUS
  <2>2. Behind(s)[p][1] = Behind(s)[ItemEndOf(s, p)][0]
    BY <1>1, <2>1, BehindAt
  <2>3. ItemEndOf(s, p) \in 1 .. Len(s) + 1
    BY <1>1
  <2> QED
    BY <2>2, <2>3, BehindAt
<1> QED
  BY <1>1, <1>2, <1>3

LEMMA DeclaredNat ==
    ASSUME NEW s \in Seq(Byte), NEW p \in Nat \ {0}, Ends(s, p) # {}
    PROVE  Declared(s, p) \in Nat /\ Amount(s, p) \in Int
<1>1. HeaderEnd(s, p) \in p .. Len(s) /\ HeaderEnd(s, p) \in p .. HeaderEnd(s, p)
  BY HeaderEndIs
<1>2. Declared(s, p) \in Nat
  BY <1>1, DeclaredIs
<1>3. HeaderSize(s, p) \in Int
  BY <1>1 DEF HeaderSize
<1> QED
  BY <1>2, <1>3 DEF Amount, ValueLen

-----------------------------------------------------------------------------
(* Messages.                                                               *)

Messages(f, s, k) == f = [i \in 1 .. k |-> IF i = 1 THEN 1 ELSE EndMark(s, f[i - 1]) + 1]

LEMMA MessagesExist ==
    ASSUME NEW s, NEW k \in Nat
    PROVE  \E f : Messages(f, s, k)
<1> DEFINE S == {j \in Nat : \E f : Messages(f, s, j)}
           next(f, i) == IF i = 1 THEN 1 ELSE EndMark(s, f[i - 1]) + 1
<1>1. 0 \in S
  <2> DEFINE f == [i \in 1 .. 0 |-> next(<< >>, i)]
  <2>1. f = [i \in 1 .. 0 |-> next(f, i)]
    <3>1. \A i \in 1 .. 0 : FALSE
      OBVIOUS
    <3>2. \A c : [i \in 1 .. 0 |-> next(<< >>, i)] = [i \in 1 .. 0 |-> next(c, i)]
      <4> HIDE DEF next
      <4> QED
        BY <3>1
    <3> QED
      BY <3>2
  <2>2. \E g : Messages(g, s, 0)
    <3> HIDE DEF f
    <3> QED
      BY <2>1 DEF Messages
  <2> QED
    BY <2>2
<1>2. ASSUME NEW j \in Nat, j \in S PROVE j + 1 \in S
  <2>1. PICK f : Messages(f, s, j)
    BY <1>2
  <2> DEFINE h == [i \in 1 .. j + 1 |-> next(f, i)]
  <2>2. \A i \in 1 .. j : h[i] = f[i]
    <3>1. \A i \in 1 .. j : f[i] = next(f, i)
      BY <2>1, Zenon DEF Messages
    <3>2. \A i \in 1 .. j : i \in 1 .. j + 1
      OBVIOUS
    <3> HIDE DEF next
    <3> QED
      BY <3>1, <3>2
  <2>3. \A i \in 1 .. j + 1 : next(f, i) = next(h, i)
    <3> HIDE DEF h
    <3>1. \A i \in 1 .. j + 1 : i # 1 => i - 1 \in 1 .. j
      OBVIOUS
    <3> QED
      BY <2>2, <3>1
  <2>4. h = [i \in 1 .. j + 1 |-> next(h, i)]
    <3>1. \A g : (\A i \in 1 .. j + 1 : next(f, i) = next(g, i))
                    => [i \in 1 .. j + 1 |-> next(f, i)] = [i \in 1 .. j + 1 |-> next(g, i)]
      <4> HIDE DEF next
      <4> QED
        OBVIOUS
    <3> QED
      BY <2>3, <3>1
  <2>5. \E g : Messages(g, s, j + 1)
    <3> HIDE DEF h
    <3> QED
      BY <2>4 DEF Messages
  <2> QED
    BY <2>5
<1>3. Nat \subseteq S
  <2> HIDE DEF S
  <2> QED
    BY <1>1, <1>2, AllNumbers
<1> QED
  BY <1>3

(* Messages follow each other.                                             *)
LEMMA MessageIs ==
    ASSUME NEW s, NEW k \in Nat \ {0}
    PROVE  /\ Message(s, 1) = 1
           /\ Message(s, k + 1) = EndMark(s, Message(s, k)) + 1
<1> DEFINE M(j) == CHOOSE f : f = [i \in 1 .. j |-> IF i = 1 THEN 1 ELSE EndMark(s, f[i - 1]) + 1]
<1>1. \A j : Message(s, j) = M(j)[j]
  BY DEF Message
<1>2. \A j \in Nat : Messages(M(j), s, j)
  <2>1. \A j : M(j) = CHOOSE f : Messages(f, s, j)
    BY DEF Messages
  <2> HIDE DEF M
  <2> QED
    BY <2>1, MessagesExist
<1> HIDE DEF M
<1>3. \A j \in Nat : \A i \in 1 .. j : M(j)[i] = IF i = 1 THEN 1 ELSE EndMark(s, M(j)[i - 1]) + 1
  <2> SUFFICES ASSUME NEW j \in Nat, NEW i \in 1 .. j
               PROVE  M(j)[i] = IF i = 1 THEN 1 ELSE EndMark(s, M(j)[i - 1]) + 1
    OBVIOUS
  <2>1. Messages(M(j), s, j)
    BY <1>2
  <2> QED
    BY <2>1, Zenon DEF Messages
<1>4. Message(s, 1) = 1
  BY <1>1, <1>3
<1>5. M(k + 1)[k] = M(k)[k]
  <2> DEFINE S == {j \in Nat : j + 1 <= k => M(k + 1)[j + 1] = M(k)[j + 1]}
  <2>1. 0 \in S
    <3>1. 1 \in 1 .. k /\ 1 \in 1 .. k + 1 /\ k + 1 \in Nat /\ 0 + 1 = 1
      OBVIOUS
    <3> QED
      BY <1>3, <3>1
  <2>2. ASSUME NEW j \in Nat, j \in S, (j + 1) + 1 <= k
        PROVE  M(k + 1)[(j + 1) + 1] = M(k)[(j + 1) + 1]
    <3>1. /\ (j + 1) + 1 \in 1 .. k /\ (j + 1) + 1 \in 1 .. k + 1 /\ k + 1 \in Nat
          /\ (j + 1) + 1 # 1 /\ (j + 1) + 1 - 1 = j + 1
      BY <2>2
    <3>2. M(k + 1)[j + 1] = M(k)[j + 1]
      BY <2>2
    <3>3. /\ M(k)[(j + 1) + 1] = EndMark(s, M(k)[j + 1]) + 1
          /\ M(k + 1)[(j + 1) + 1] = EndMark(s, M(k + 1)[j + 1]) + 1
      BY <1>3, <3>1
    <3> QED
      BY <3>2, <3>3
  <2>3. Nat \subseteq S
    <3>1. \A j \in Nat : j \in S => j + 1 \in S
      BY <2>2
    <3> HIDE DEF S
    <3> QED
      BY <2>1, <3>1, AllNumbers
  <2>4. k - 1 \in Nat /\ (k - 1) + 1 = k
    OBVIOUS
  <2> QED
    BY <2>3, <2>4
<1>6. k + 1 \in Nat /\ k + 1 \in 1 .. k + 1 /\ k + 1 # 1 /\ k + 1 - 1 = k
  OBVIOUS
<1>7. M(k + 1)[k + 1] = EndMark(s, M(k + 1)[k]) + 1
  BY <1>3, <1>6
<1> QED
  BY <1>1, <1>4, <1>5, <1>7

-----------------------------------------------------------------------------
(* The open lists.                                                         *)

OpenLists(lists) == lists \in Seq(OpenList) /\ \A i \in 1 .. Len(lists) : lists[i].len <= lists[i].size

LEMMA LessItemsIs ==
    ASSUME OpenLists(open), open # << >>, NEW n \in Nat, n <= Innermost.len
    PROVE  /\ OpenLists(LessItems(n)) /\ Len(LessItems(n)) = Len(open)
           /\ \A i \in 1 .. Len(open) : /\ LessItems(n)[i].at = open[i].at
                                        /\ LessItems(n)[i].size = open[i].size
           /\ \A i \in 1 .. Len(open) - 1 : LessItems(n)[i] = open[i]
           /\ LessItems(n)[Len(open)].len = Innermost.len - n
<1> DEFINE last == Len(open)
           shorter == [open[last] EXCEPT !.len = @ - n]
<1>1. open \in Seq(OpenList) /\ last \in 1 .. Len(open) /\ open[last] \in OpenList
  BY ElementOfSeq, EmptySeq DEF OpenLists
<1>2. /\ shorter \in OpenList /\ shorter.len <= shorter.size /\ shorter.at = open[last].at
      /\ shorter.size = open[last].size /\ shorter.len = open[last].len - n
  <2>1. open[last].len <= open[last].size /\ n <= open[last].len
    BY <1>1 DEF OpenLists, Innermost
  <2>2. open[last].len \in Nat
    BY <1>1 DEF OpenList
  <2>3. open[last].len - n \in Nat /\ open[last].len - n <= open[last].len
    BY <2>1, <2>2
  <2>4. open[last].len - n <= open[last].size
    BY <1>1, <2>1, <2>3 DEF OpenList
  <2>5. shorter = [at |-> open[last].at, size |-> open[last].size, len |-> open[last].len - n]
    BY <1>1 DEF OpenList
  <2> HIDE DEF last
  <2> QED
    BY <1>1, <2>3, <2>4, <2>5 DEF OpenList
<1>3. LessItems(n) = [open EXCEPT ![last] = shorter]
  BY DEF LessItems
<1> HIDE DEF shorter, last
<1>4. /\ LessItems(n) \in Seq(OpenList) /\ Len(LessItems(n)) = Len(open)
      /\ \A i \in 1 .. Len(open) : LessItems(n)[i] = IF i = last THEN shorter ELSE open[i]
  BY <1>1, <1>2, <1>3, ExceptSeq
<1>5. Len(open) \in Nat
  BY <1>1
<1> QED
  BY <1>1, <1>2, <1>4, <1>5 DEF OpenLists, Innermost, last

LEMMA ClosedIs ==
    ASSUME NEW lists, OpenLists(lists), lists # << >>
    PROVE  LET rest == SubSeq(lists, 1, Len(lists) - 1)
           IN  /\ OpenLists(rest) /\ Len(rest) = Len(lists) - 1
               /\ \A i \in 1 .. Len(lists) - 1 : rest[i] = lists[i]
<1> DEFINE rest == SubSeq(lists, 1, Len(lists) - 1)
<1>1. lists \in Seq(OpenList) /\ Len(lists) \in Nat /\ Len(lists) >= 1
  BY EmptySeq DEF OpenLists
<1>2. /\ rest \in Seq(OpenList) /\ Len(rest) = Len(lists) - 1
      /\ \A i \in 1 .. Len(lists) - 1 : rest[i] = lists[i]
  BY <1>1
<1> HIDE DEF rest
<1> QED
  BY <1>1, <1>2 DEF OpenLists, rest

LEMMA OpenedIs ==
    ASSUME NEW lists, OpenLists(lists), NEW r, r.len \in Nat, pos \in Nat
    PROVE  LET more == Append(lists, Opened(r))
           IN  /\ OpenLists(more) /\ Len(more) = Len(lists) + 1
               /\ \A i \in 1 .. Len(lists) : more[i] = lists[i]
               /\ more[Len(lists) + 1] = Opened(r)
<1> DEFINE more == Append(lists, Opened(r))
<1>1. Opened(r) \in OpenList /\ Opened(r).len <= Opened(r).size
  BY DEF Opened, OpenList
<1>2. lists \in Seq(OpenList) /\ Len(lists) \in Nat
  BY DEF OpenLists
<1>3. /\ more \in Seq(OpenList) /\ Len(more) = Len(lists) + 1
      /\ \A i \in 1 .. Len(lists) : more[i] = lists[i]
      /\ more[Len(lists) + 1] = Opened(r)
  BY <1>1, <1>2, AppendProperties
<1> HIDE DEF more
<1>4. OpenLists(more)
  <2> SUFFICES ASSUME NEW i \in 1 .. Len(lists) + 1 PROVE more[i].len <= more[i].size
    BY <1>3 DEF OpenLists
  <2>1. CASE i \in 1 .. Len(lists)
    BY <1>3, <2>1 DEF OpenLists
  <2>2. CASE i = Len(lists) + 1
    BY <1>1, <1>3, <2>2
  <2> QED
    BY <1>2, <2>1, <2>2
<1> QED
  BY <1>3, <1>4 DEF more

-----------------------------------------------------------------------------
(* Type correctness.  A call is only served under the conditions it was    *)
(* made under: List::next has an item left to give.                        *)

Serving ==
    /\ pc \in {"skip_bytes", "skip_tlvs"} =>
         /\ item = NoItem /\ call # "none"
         /\ call \in {"next", "next_end"} => open # << >> /\ Innermost.len > 0
         /\ call = "read_list" => open = << >>
    /\ pc = "skip_tlvs" => remaining_bytes = 0

Typed == TypeOK /\ Serving

LEMMA TypedFacts ==
    ASSUME Typed
    PROVE  /\ stream \in Seq(Byte) /\ arrived \in 0 .. Len(stream) /\ arrived \in Nat
           /\ pos \in 1 .. arrived + 1 /\ pos \in Nat /\ OpenLists(open)
           /\ Len(open) \in Nat /\ (open # << >> => Innermost.len \in Nat /\ Len(open) > 0)
<1>1. stream \in Seq(Byte)
  BY TlvReaderAssumption DEF Typed, TypeOK
<1>2. arrived \in 0 .. Len(stream) /\ pos \in 1 .. arrived + 1
  BY DEF Typed, TypeOK
<1>3. OpenLists(open) /\ open \in Seq(OpenList)
  BY DEF Typed, TypeOK, OpenLists
<1>4. open # << >> => Innermost.len \in Nat /\ Len(open) > 0
  <2> SUFFICES ASSUME open # << >> PROVE Innermost.len \in Nat /\ Len(open) > 0
    OBVIOUS
  <2>1. Len(open) \in 1 .. Len(open) /\ Len(open) > 0
    BY <1>3, EmptySeq
  <2>2. open[Len(open)] \in OpenList
    BY <1>3, <2>1, ElementOfSeq
  <2> QED
    BY <2>1, <2>2 DEF OpenList, Innermost
<1> QED
  BY <1>1, <1>2, <1>3, <1>4

LEMMA TypedCall ==
    ASSUME Typed, ReadList \/ ListNext \/ NextEnd \/ SkipNow
    PROVE  Typed'
<1>1. \E c \in {"read_list", "next", "next_end", "skip_now"} :
          /\ Call(c)
          /\ c \in {"next", "next_end"} => open # << >> /\ Innermost.len > 0
          /\ c = "read_list" => open = << >>
  BY DEF ReadList, ListNext, NextEnd, SkipNow
<1> QED
  BY <1>1 DEF Typed, TypeOK, Serving, Call, reader, Innermost

LEMMA TypedProgram ==
    ASSUME Typed, (\E n \in 1 .. 2 : Skip(n)) \/ ReadItem \/ DropItem \/ DropList
    PROVE  Typed'
<1>1. ASSUME NEW n \in 1 .. 2, Skip(n) PROVE Typed'
  <2>1. open # << >> /\ n \in Nat /\ n <= Innermost.len /\ OpenLists(open)
    BY <1>1, TypedFacts DEF Skip
  <2>2. OpenLists(open')
    BY <1>1, <2>1, LessItemsIs DEF Skip
  <2>3. open' \in Seq(OpenList) /\ \A i \in 1 .. Len(open') : open'[i].len <= open'[i].size
    BY <2>2 DEF OpenLists
  <2>4. remaining_tlvs' \in Nat /\ pc' = "program"
    BY <1>1 DEF Skip, Typed, TypeOK
  <2> QED
    BY <1>1, <2>3, <2>4 DEF Typed, TypeOK, Serving, Skip
<1>2. CASE ReadItem
  <2>1. item.len \in Nat /\ item.at \in Nat
    BY DEF Typed, TypeOK
  <2>2. item' \in [at : Nat, len : Nat] /\ pos' \in 1 .. arrived + 1
    <3>1. CASE pos + item.len - 1 <= arrived
      <4>1. pos' = pos + item.len /\ item' = [item EXCEPT !.len = 0]
        BY <1>2, <3>1 DEF ReadItem
      <4>2. item' = [at |-> item.at, len |-> 0]
        BY <4>1 DEF Typed, TypeOK
      <4>3. pos \in 1 .. arrived + 1 /\ arrived \in Nat
        BY TypedFacts
      <4>4. pos' \in 1 .. arrived + 1
        BY <2>1, <3>1, <4>1, <4>3
      <4> QED
        BY <2>1, <4>2, <4>4
    <3>2. CASE ~(pos + item.len - 1 <= arrived)
      BY <1>2, <3>2 DEF ReadItem, Typed, TypeOK
    <3> QED
      BY <3>1, <3>2
  <2>3. pc' \in {"program", "failed"} /\ result' \in Results
    BY <1>2 DEF ReadItem, Typed, TypeOK, Results
  <2> QED
    BY <1>2, <2>2, <2>3 DEF Typed, TypeOK, Serving, ReadItem
<1>3. CASE DropItem
  <2>1. remaining_bytes' \in Nat /\ item' \in [at : Nat, len : Nat] /\ pc' = "program"
    BY <1>3 DEF DropItem, NoItem, Typed, TypeOK
  <2> QED
    BY <1>3, <2>1 DEF Typed, TypeOK, Serving, DropItem
<1>4. CASE DropList
  <2>1. open # << >> /\ OpenLists(open) /\ Innermost.len \in Nat
    BY <1>4, TypedFacts DEF DropList
  <2>2. OpenLists(open')
    BY <1>4, <2>1, ClosedIs DEF DropList
  <2>3. open' \in Seq(OpenList) /\ \A i \in 1 .. Len(open') : open'[i].len <= open'[i].size
    BY <2>2 DEF OpenLists
  <2>4. remaining_tlvs' \in Nat /\ pc' = "program"
    BY <1>4, <2>1 DEF DropList, Typed, TypeOK
  <2> QED
    BY <1>4, <2>3, <2>4 DEF Typed, TypeOK, Serving, DropList
<1> QED
  BY <1>1, <1>2, <1>3, <1>4

LEMMA TypedSkips ==
    ASSUME Typed, SkipBytes \/ SkipTlv \/ SkipNowEnds
    PROVE  Typed'
<1> DEFINE r == ReadTlvInner(pos)
           valueEnd == IF r.ty = "List" THEN r.next - 1 ELSE r.next + r.len - 1
<1>1. /\ r.result \in Results /\ r.len \in Nat /\ r.next \in pos .. arrived + 1
      /\ r.result \in {"ok", "EndOfSmlMessage"} => r.next > pos
  BY TypedFacts, AnyHeader DEF Results
<1> HIDE DEF r
<1>2. ASSUME NEW e \in Results, Fail(e), UNCHANGED <<stream, arrived, call>> PROVE Typed'
  BY <1>2 DEF Typed, TypeOK, Serving, Fail, reader
<1>3. CASE SkipBytes
  <2>1. CASE pos + remaining_bytes - 1 <= arrived
    <3>1. pos' \in 1 .. arrived + 1 /\ remaining_bytes' = 0 /\ num' \in Nat /\ pc' = "skip_tlvs"
      BY <1>3, <2>1, TypedFacts DEF SkipBytes, Typed, TypeOK
    <3> QED
      BY <1>3, <2>1, <3>1 DEF Typed, TypeOK, Serving, SkipBytes, Innermost
  <2>2. CASE ~(pos + remaining_bytes - 1 <= arrived)
    BY <1>2, <1>3, <2>2 DEF SkipBytes, Results
  <2> QED
    BY <2>1, <2>2
<1>4. CASE SkipTlv
  <2>1. \/ /\ r.result = "ok" /\ valueEnd <= arrived
           /\ num' = num - 1 + (IF r.ty = "List" THEN r.len ELSE 0)
           /\ pos' = valueEnd + 1
           /\ UNCHANGED <<remaining_bytes, remaining_tlvs, open, item, pc, result, messages>>
        \/ call = "next_end" /\ EndMarker(r) /\ UNCHANGED remaining_tlvs
             /\ r.result = "EndOfSmlMessage"
        \/ \E e \in Results : Fail(e)
    BY <1>1, <1>4 DEF SkipTlv, r, Results
  <2>2. pc = "skip_tlvs" /\ num > 0 /\ UNCHANGED <<stream, arrived, call>>
    BY <1>4 DEF SkipTlv
  <2>3. CASE /\ r.result = "ok" /\ valueEnd <= arrived
             /\ num' = num - 1 + (IF r.ty = "List" THEN r.len ELSE 0)
             /\ pos' = valueEnd + 1
             /\ UNCHANGED <<remaining_bytes, remaining_tlvs, open, item, pc, result, messages>>
    <3>1. num' \in Nat
      BY <1>1, <2>2, <2>3 DEF Typed, TypeOK
    <3>2. pos' \in 1 .. arrived + 1
      BY <1>1, <2>3, TypedFacts
    <3> QED
      BY <2>2, <2>3, <3>1, <3>2 DEF Typed, TypeOK, Serving, Innermost
  <2>4. CASE call = "next_end" /\ EndMarker(r) /\ UNCHANGED remaining_tlvs
               /\ r.result = "EndOfSmlMessage"
    <3>1. open # << >> /\ Innermost.len > 0 /\ item = NoItem
      BY <2>2, <2>4 DEF Typed, Serving
    <3>2. OpenLists(open')
      BY <2>4, <3>1, TypedFacts, LessItemsIs DEF EndMarker
    <3>3. open' \in Seq(OpenList) /\ \A i \in 1 .. Len(open') : open'[i].len <= open'[i].size
      BY <3>2 DEF OpenLists
    <3>4. pos' \in 1 .. arrived + 1 /\ pc' = "program" /\ result' \in Results
      BY <1>1, <2>4, TypedFacts DEF EndMarker, Results
    <3> QED
      BY <2>2, <2>4, <3>3, <3>4 DEF Typed, TypeOK, Serving, EndMarker
  <2> QED
    BY <1>2, <2>1, <2>2, <2>3, <2>4
<1>5. CASE SkipNowEnds
  BY <1>5 DEF SkipNowEnds, Typed, TypeOK, Serving, Results
<1> QED
  BY <1>3, <1>4, <1>5

LEMMA TypedReadHeader ==
    ASSUME Typed, ReadHeader
    PROVE  Typed'
<1> DEFINE r == ReadTlvInner(pos)
<1>1. /\ r.result \in Results /\ r.len \in Nat /\ r.next \in pos .. arrived + 1
  BY TypedFacts, AnyHeader DEF Results
<1>2. \/ GiveMessage(r) /\ remaining_tlvs' = 0
      \/ GiveItem(r) /\ remaining_tlvs' = 0
      \/ RefuseItem(r) /\ remaining_tlvs' = (IF r.ty = "List" THEN r.len ELSE 0)
      \/ call = "next_end" /\ EndMarker(r) /\ remaining_tlvs' = 0
      \/ \E e \in Results : Fail(e)
  BY <1>1 DEF ReadHeader, Results
<1>3. /\ pc = "skip_tlvs" /\ UNCHANGED <<stream, arrived, call>> /\ remaining_bytes = 0
      /\ item = NoItem /\ (call \in {"next", "next_end"} => open # << >> /\ Innermost.len > 0)
  BY DEF ReadHeader, Typed, Serving
<1>4. r.next \in 1 .. arrived + 1 /\ pos \in Nat
  BY <1>1, TypedFacts
<1> HIDE DEF r
<1>5. ASSUME call \in {"next", "next_end"}
      PROVE  OpenLists(LessItems(1))
  BY <1>3, <1>5, TypedFacts, LessItemsIs
<1>6. CASE GiveMessage(r) /\ remaining_tlvs' = 0
  <2>1. OpenLists(<< >>) /\ Len(<< >>) = 0
    BY DEF OpenLists
  <2>2. Append(<< >>, Opened(r)) = <<Opened(r)>>
    OBVIOUS
  <2>3. OpenLists(open')
    BY <1>1, <1>4, <1>6, <2>1, <2>2, OpenedIs DEF GiveMessage
  <2>4. open' \in Seq(OpenList) /\ \A i \in 1 .. Len(open') : open'[i].len <= open'[i].size
    BY <2>3 DEF OpenLists
  <2> QED
    BY <1>3, <1>4, <1>6, <2>4 DEF GiveMessage, Typed, TypeOK, Serving, Results
<1>7. CASE GiveItem(r) /\ remaining_tlvs' = 0
  <2>0. OpenLists(LessItems(1)) /\ OpenLists(Append(LessItems(1), Opened(r)))
    BY <1>1, <1>4, <1>5, <1>7, OpenedIs DEF GiveItem
  <2>1. OpenLists(open') /\ item' \in [at : Nat, len : Nat]
    <3>1. CASE r.ty = "List"
      <4>1. open' = Append(LessItems(1), Opened(r)) /\ item' = NoItem
        BY <1>3, <1>7, <3>1 DEF GiveItem
      <4> QED
        BY <2>0, <4>1 DEF NoItem
    <3>2. CASE r.ty # "List"
      <4>1. open' = LessItems(1) /\ item' = [at |-> pos, len |-> r.len]
        BY <1>7, <3>2 DEF GiveItem
      <4> QED
        BY <1>1, <1>4, <2>0, <4>1
    <3> QED
      BY <3>1, <3>2
  <2>2. open' \in Seq(OpenList) /\ \A i \in 1 .. Len(open') : open'[i].len <= open'[i].size
    BY <2>1 DEF OpenLists
  <2> QED
    BY <1>3, <1>4, <1>7, <2>1, <2>2 DEF GiveItem, Typed, TypeOK, Serving, Results
<1>8. CASE RefuseItem(r) /\ remaining_tlvs' = (IF r.ty = "List" THEN r.len ELSE 0)
  <2>1. OpenLists(open') /\ remaining_tlvs' \in Nat /\ remaining_bytes' \in Nat
    BY <1>1, <1>5, <1>8 DEF RefuseItem
  <2>2. open' \in Seq(OpenList) /\ \A i \in 1 .. Len(open') : open'[i].len <= open'[i].size
    BY <2>1 DEF OpenLists
  <2> QED
    BY <1>3, <1>4, <1>8, <2>1, <2>2 DEF RefuseItem, Typed, TypeOK, Serving, Results
<1>9. CASE call = "next_end" /\ EndMarker(r) /\ remaining_tlvs' = 0
  <2>1. OpenLists(open')
    BY <1>5, <1>9 DEF EndMarker
  <2>2. open' \in Seq(OpenList) /\ \A i \in 1 .. Len(open') : open'[i].len <= open'[i].size
    BY <2>1 DEF OpenLists
  <2> QED
    BY <1>3, <1>4, <1>9, <2>2 DEF EndMarker, Typed, TypeOK, Serving, Results
<1>10. CASE \E e \in Results : Fail(e)
  BY <1>3, <1>10 DEF Typed, TypeOK, Serving, Fail, reader
<1> QED
  BY <1>2, <1>6, <1>7, <1>8, <1>9, <1>10

LEMMA TypedInit == Init => Typed
<1> SUFFICES ASSUME Init PROVE Typed
  OBVIOUS
<1>1. << >> \in Seq(OpenList) /\ \A i \in 1 .. Len(<< >>) : FALSE
  OBVIOUS
<1>2. stream \in Seq(Byte)
  BY TlvReaderAssumption DEF Init
<1>3. pos \in 1 .. arrived + 1
  BY <1>2 DEF Init
<1> QED
  BY <1>1, <1>3 DEF Init, Typed, TypeOK, Serving, NoItem, Results

LEMMA TypedStep == Typed /\ [Next]_vars => Typed'
<1> SUFFICES ASSUME Typed, [Next]_vars PROVE Typed'
  OBVIOUS
<1>1. CASE UNCHANGED vars
  BY <1>1 DEF Typed, TypeOK, Serving, vars, reader, Innermost
<1> QED
  BY <1>1, TypedCall, TypedProgram, TypedSkips, TypedReadHeader DEF Next

(* The reader's state has its type, whatever bytes arrive: it never points *)
(* behind what has arrived, and no list owes more items than it announced. *)
THEOREM TypeCorrect == Spec => []TypeOK
<1>1. Spec => []Typed
  BY TypedInit, TypedStep, PTL DEF Spec
<1>2. Typed => TypeOK
  BY DEF Typed
<1> QED
  BY <1>1, <1>2, PTL

-----------------------------------------------------------------------------
(* Documents that are well formed.                                         *)

MessageCount(s) ==
    CHOOSE n \in 0 .. Len(s) : /\ \A k \in 1 .. n : IsMessage(s, Message(s, k))
                               /\ Message(s, n + 1) = Len(s) + 1

LEMMA MessageCountIs ==
    ASSUME NEW s \in Seq(Byte), IsWellFormed(s)
    PROVE  /\ MessageCount(s) \in 0 .. Len(s)
           /\ Message(s, MessageCount(s) + 1) = Len(s) + 1
           /\ \A k \in 1 .. MessageCount(s) :
                 /\ IsMessage(s, Message(s, k)) /\ Message(s, k) \in 1 .. Len(s)
                 /\ EndMark(s, Message(s, k)) \in 1 .. Len(s)
                 /\ s[EndMark(s, Message(s, k))] = 0
                 /\ Message(s, k + 1) = EndMark(s, Message(s, k)) + 1
<1> DEFINE n == MessageCount(s)
<1>1. /\ n \in 0 .. Len(s)
      /\ \A k \in 1 .. n : IsMessage(s, Message(s, k))
      /\ Message(s, n + 1) = Len(s) + 1
  BY Zenon DEF IsWellFormed, MessageCount
<1> HIDE DEF n
<1>2. DOMAIN s = 1 .. Len(s) /\ Len(s) \in Nat
  OBVIOUS
<1>3. \A k \in 1 .. n : /\ EndMark(s, Message(s, k)) \in 1 .. Len(s)
                        /\ s[EndMark(s, Message(s, k))] = 0
                        /\ Message(s, k) <= Len(s)
  BY <1>1, <1>2 DEF IsMessage, HeaderAllowed
<1>4. \A k \in 1 .. n : Message(s, k + 1) = EndMark(s, Message(s, k)) + 1
  BY <1>1, MessageIs
<1>5. \A k \in 1 .. n : Message(s, k) \in 1 .. Len(s)
  <2> SUFFICES ASSUME NEW k \in 1 .. n PROVE Message(s, k) \in 1 .. Len(s)
    OBVIOUS
  <2>1. CASE k = 1
    <3>1. Message(s, 1) = 1
      BY MessageIs
    <3> QED
      BY <1>2, <1>3, <2>1, <3>1
  <2>2. CASE k # 1
    <3>1. k - 1 \in 1 .. n /\ (k - 1) + 1 = k
      BY <1>1, <2>2
    <3>2. Message(s, k) = EndMark(s, Message(s, k - 1)) + 1
      BY <1>4, <3>1
    <3>3. EndMark(s, Message(s, k - 1)) \in 1 .. Len(s)
      BY <1>3, <3>1
    <3> QED
      BY <1>2, <1>3, <3>2, <3>3
  <2> QED
    BY <2>1, <2>2
<1> QED
  BY <1>1, <1>3, <1>4, <1>5 DEF n

(* An end marker is not an item that counts.                               *)
LEMMA EndMarkIsNoItem ==
    ASSUME NEW s \in Seq(Byte), NEW p \in 1 .. Len(s), s[p] = 0
    PROVE  ~HeaderAllowed(s, p)
<1> SUFFICES ASSUME HeaderAllowed(s, p) PROVE FALSE
  OBVIOUS
<1>1. Nibble(s[p]) = 0 /\ TyRaw(s[p]) = 0 /\ ~HasMore(s[p])
  BY ByteParts DEF Byte
<1>2. Ends(s, p) # {} /\ p \in Nat \ {0}
  BY DEF HeaderAllowed
<1>3. HeaderEnd(s, p) = p
  <2>1. HeaderEnd(s, p) \in p .. Len(s) /\ \A q \in p .. HeaderEnd(s, p) - 1 : HasMore(s[q])
    BY <1>2, HeaderEndIs
  <2> QED
    BY <1>1, <2>1
<1>4. Declared(s, p) = 0
  <2>1. PICK f : /\ Declared(s, p) = f[HeaderEnd(s, p)]
                 /\ \A q \in p .. HeaderEnd(s, p) :
                       f[q] = 16 * (IF q = p THEN 0 ELSE f[q - 1]) + Nibble(s[q])
    BY <1>2, DeclaredIs
  <2>2. p \in p .. HeaderEnd(s, p)
    BY <1>3
  <2>3. f[p] = 16 * 0 + Nibble(s[p])
    BY <2>1, <2>2
  <2> QED
    BY <1>1, <1>3, <2>1, <2>3
<1>5. ~IsList(s, p) /\ HeaderSize(s, p) = 1
  BY <1>1, <1>3 DEF IsList, HeaderSize
<1>6. Declared(s, p) \in 1 .. UsizeRange - 1
  BY <1>5 DEF HeaderAllowed
<1> QED
  BY <1>4, <1>6

(* As many items as there are, there are fewer of them as well.            *)
LEMMA FewerItems ==
    ASSUME NEW s \in Seq(Byte), NEW p \in 1 .. Len(s) + 1, NEW n \in Nat, NEW t \in 0 .. n,
           Behind(s)[p][n] # 0
    PROVE  /\ Behind(s)[p][t] # 0 /\ Behind(s)[p][t] \in 1 .. Len(s) + 1
           /\ Behind(s)[p][n] = Behind(s)[Behind(s)[p][t]][n - t]
<1>1. t \in Nat /\ n - t \in Nat /\ t + (n - t) = n
  OBVIOUS
<1>2. Behind(s)[p][t + (n - t)] =
        IF Behind(s)[p][t] = 0 THEN 0 ELSE Behind(s)[Behind(s)[p][t]][n - t]
  BY <1>1, BehindBehind
<1>3. Behind(s)[p][t] \in {0} \cup (p + t .. Len(s) + 1)
  BY <1>1, BehindRange
<1> QED
  BY <1>1, <1>2, <1>3

(* A message's items are all there but the last, which is its end marker.  *)
LEMMA MessageItems ==
    ASSUME NEW s \in Seq(Byte), NEW p \in 1 .. Len(s), IsMessage(s, p),
           NEW t \in 0 .. Declared(s, p)
    PROVE  /\ Declared(s, p) \in Nat \ {0}
           /\ t < Declared(s, p) => Behind(s)[p + 1][t] # 0
           /\ Behind(s)[p + 1][Declared(s, p)] = 0
<1> DEFINE d == Declared(s, p)
           mark == EndMark(s, p)
<1>1. d \in Nat \ {0} /\ Len(s) \in Nat
  <2>1. Ends(s, p) # {} /\ d > 0 /\ p \in Nat \ {0}
    BY DEF IsMessage, HeaderAllowed
  <2> QED
    BY <2>1, DeclaredNat
<1>2. mark \in 1 .. Len(s) /\ s[mark] = 0 /\ mark = Behind(s)[p + 1][d - 1]
  BY DEF IsMessage, EndMark
<1> HIDE DEF d, mark
<1>3. p + 1 \in 1 .. Len(s) + 1 /\ d - 1 \in Nat /\ (d - 1) + 1 = d
  BY <1>1
<1>4. t \in 0 .. d
  BY DEF d
<1>5. t < d => t \in 0 .. d - 1
  BY <1>1, <1>4
<1>6. t < d => Behind(s)[p + 1][t] # 0
  BY <1>2, <1>3, <1>5, FewerItems
<1>7. Behind(s)[p + 1][d] = 0
  <2>1. \A n \in Nat : mark = Behind(s)[p + 1][n] => Behind(s)[p + 1][n + 1] = Behind(s)[mark][1]
    <3>1. mark # 0
      BY <1>1, <1>2
    <3>2. \A m, n \in Nat : Behind(s)[p + 1][m + n] =
            IF Behind(s)[p + 1][m] = 0 THEN 0 ELSE Behind(s)[Behind(s)[p + 1][m]][n]
      BY <1>3, BehindBehind
    <3>3. 1 \in Nat
      OBVIOUS
    <3> QED
      BY <3>1, <3>2, <3>3, Zenon
  <2>2. mark \in 1 .. Len(s) + 1 /\ 1 \in Nat \ {0}
    BY <1>1, <1>2
  <2>3. ~HeaderAllowed(s, mark)
    BY <1>2, EndMarkIsNoItem
  <2> QED
    <3>1. Behind(s)[p + 1][d] = Behind(s)[mark][1]
      BY <1>2, <1>3, <2>1
    <3> QED
      BY <2>2, <2>3, <3>1, BehindAt
<1> QED
  BY <1>1, <1>6, <1>7 DEF d

-----------------------------------------------------------------------------
(* Where the reader is.                                                    *)

(* Where the list open at level i has got to.                              *)
Reached(i) == Behind(stream)[open[i].at + 1][Taken(i)]

ListsInPlace ==
    /\ messages \in 0 .. MessageCount(stream)
    /\ open # << >> => messages > 0 /\ open[1].at = Message(stream, messages)
    /\ \A i \in 1 .. Len(open) :
          /\ open[i].at \in 1 .. Len(stream)
          /\ HeaderAllowed(stream, open[i].at) /\ IsList(stream, open[i].at)
          /\ open[i].size = Declared(stream, open[i].at)
    /\ \A i \in 2 .. Len(open) :
          open[i].at = Child(open[i - 1].at, Taken(i - 1)) /\ Taken(i - 1) > 0 /\ Reached(i - 1) # 0

ItemInPlace ==
    /\ item # NoItem => open # << >> /\ item.at = Child(Innermost.at, Taken(Len(open)))
    /\ item.len > 0 => pos = HeaderEnd(stream, item.at) + 1
                        /\ item.len = ValueLen(stream, item.at)

(* From where, and how many items, have to be skipped.                     *)
From == pos + remaining_bytes + item.len
Owed == IF pc = "skip_tlvs" THEN num ELSE remaining_tlvs

(* Skipping them leads to where the innermost list has got to; or the      *)
(* message is over and its end marker read; or it is over, its end marker  *)
(* is the last thing to skip, and the next call will fail on it.           *)
Inside ==
    open # << >> /\ Reached(Len(open)) # 0 /\ Behind(stream)[From][Owed] = Reached(Len(open))

AtTheEnd == (open # << >> => Len(open) = 1 /\ Innermost.len = 0) /\ item = NoItem

Between == AtTheEnd /\ From = Message(stream, messages + 1) /\ Owed = 0

MarkOwed ==
    /\ AtTheEnd /\ messages > 0 /\ Owed > 0
    /\ Behind(stream)[From][Owed - 1] = EndMark(stream, Message(stream, messages))

Somewhere == From \in 1 .. Len(stream) + 1 /\ (Inside \/ Between \/ MarkOwed)

NoAlarm == result \in {"ok", "UnexpectedValue", "Io", "EndOfSmlMessage"}

Placed == ListsInPlace /\ ItemInPlace /\ NoAlarm /\ (pc # "failed" => Somewhere)

-----------------------------------------------------------------------------
LEMMA LevelFacts ==
    ASSUME Typed, NEW i \in 1 .. Len(open)
    PROVE  /\ open[i].at \in Nat /\ open[i].size \in Nat /\ open[i].len \in 0 .. open[i].size
           /\ Taken(i) \in 0 .. open[i].size /\ Len(open) \in Nat
           /\ open[i].size - Taken(i) = open[i].len
<1>1. open \in Seq(OpenList) /\ open[i].len <= open[i].size
  BY DEF Typed, TypeOK
<1>2. open[i] \in OpenList
  BY <1>1, ElementOfSeq
<1>3. open[i].at \in Nat /\ open[i].size \in Nat /\ open[i].len \in Nat
  BY <1>2 DEF OpenList
<1> QED
  BY <1>1, <1>3 DEF Taken

(* How far an open list goes.  A message's ends in its end marker, any     *)
(* other where the list around it goes on.                                 *)
LEMMA Room ==
    ASSUME Typed, IsWellFormed(stream), ListsInPlace,
           NEW i \in 1 .. Len(open), NEW t \in 0 .. open[i].size
    PROVE  LET after == Behind(stream)[open[i].at + 1]
           IN  /\ open[i].at + 1 \in 1 .. Len(stream) + 1
               /\ i = 1 => /\ open[i].size > 0 /\ (t < open[i].size => after[t] # 0)
                           /\ after[open[i].size] = 0
                           /\ after[open[i].size - 1] = EndMark(stream, Message(stream, messages))
               /\ i # 1 => after[t] # 0 /\ after[open[i].size] = Reached(i - 1)
<1> DEFINE p == open[i].at
           d == Declared(stream, p)
<1>1. /\ stream \in Seq(Byte) /\ Len(stream) \in Nat /\ Len(open) \in Nat
      /\ p \in 1 .. Len(stream) /\ p + 1 \in 1 .. Len(stream) + 1
      /\ HeaderAllowed(stream, p) /\ IsList(stream, p) /\ open[i].size = d
      /\ d \in Nat
  <2>1. stream \in Seq(Byte) /\ Len(open) \in Nat
    BY TypedFacts
  <2>2. Len(stream) \in Nat
    BY <2>1
  <2>3. /\ p \in 1 .. Len(stream) /\ HeaderAllowed(stream, p) /\ IsList(stream, p)
        /\ open[i].size = d
    BY DEF ListsInPlace
  <2>4. open[i].size \in Nat
    BY LevelFacts
  <2> HIDE DEF p, d
  <2> QED
    BY <2>1, <2>2, <2>3, <2>4
<1>2. ASSUME i = 1
      PROVE  /\ d > 0 /\ (t < d => Behind(stream)[p + 1][t] # 0)
             /\ Behind(stream)[p + 1][d] = 0
             /\ Behind(stream)[p + 1][d - 1] = EndMark(stream, Message(stream, messages))
  <2>1. open # << >>
    BY <1>1
  <2>2. p = Message(stream, messages) /\ messages \in 1 .. MessageCount(stream)
    BY <1>2, <2>1, <1>1, MessageCountIs DEF ListsInPlace
  <2>3. IsMessage(stream, p)
    BY <1>1, <2>2, MessageCountIs
  <2>4. EndMark(stream, Message(stream, messages)) = Behind(stream)[p + 1][d - 1]
    BY <2>2 DEF EndMark
  <2>5. t \in 0 .. d
    BY <1>1
  <2> HIDE DEF p, d
  <2> QED
    BY <1>1, <2>3, <2>4, <2>5, MessageItems DEF d
<1>3. ASSUME i # 1
      PROVE  Behind(stream)[p + 1][t] # 0 /\ Behind(stream)[p + 1][d] = Reached(i - 1)
  <2> DEFINE q == open[i - 1].at
             n == Taken(i - 1)
  <2>1. i \in 2 .. Len(open) /\ i - 1 \in 1 .. Len(open)
    BY <1>1, <1>3
  <2>2. q + 1 \in 1 .. Len(stream) + 1
    <3>1. q \in 1 .. Len(stream)
      BY <2>1 DEF ListsInPlace
    <3>2. Len(stream) \in Nat
      BY <1>1
    <3> HIDE DEF q
    <3> QED
      BY <3>1, <3>2
  <2>3. /\ p = Behind(stream)[q + 1][n - 1] /\ n > 0 /\ Reached(i - 1) # 0
        /\ Reached(i - 1) = Behind(stream)[q + 1][n]
    BY <2>1 DEF ListsInPlace, Child, Reached
  <2>4. n \in Nat
    BY <2>1, LevelFacts
  <2> HIDE DEF p, q, n, d
  <2>5. n - 1 \in Nat /\ (n - 1) + 1 = n
    BY <2>3, <2>4
  <2>6. Reached(i - 1) = Behind(stream)[p][1]
    <3>1. \A m \in Nat : Behind(stream)[q + 1][m + 1] =
            IF Behind(stream)[q + 1][m] = 0 THEN 0
            ELSE Behind(stream)[Behind(stream)[q + 1][m]][1]
      <4>1. stream \in Seq(Byte) /\ 1 \in Nat
        BY <1>1
      <4>2. \A s \in Seq(Byte) : \A x \in 1 .. Len(s) + 1 : \A m, l \in Nat :
              Behind(s)[x][m + l] =
                IF Behind(s)[x][m] = 0 THEN 0 ELSE Behind(s)[Behind(s)[x][m]][l]
        BY BehindBehind
      <4> QED
        BY <2>2, <4>1, <4>2
    <3> QED
      BY <1>1, <2>3, <2>5, <3>1
  <2>7. Behind(stream)[p][1] = Behind(stream)[p + 1][d]
    <3>1. 1 \in Nat \ {0} /\ p \in 1 .. Len(stream) + 1
      BY <1>1
    <3>2. Behind(stream)[p][1] = ItemEndOf(stream, p)
      BY <1>1, <2>3, <2>6, <3>1, ItemThatCounts
    <3> QED
      BY <1>1, <3>2 DEF ItemEndOf, ItemEnd, d
  <2>8. t \in 0 .. d
    BY <1>1
  <2> QED
    BY <1>1, <2>3, <2>6, <2>7, <2>8, FewerItems
<1> QED
  BY <1>1, <1>2, <1>3

(* A round of skip_tlvs keeps where the items to skip end.                 *)
LEMMA SkipKeepsTheEnd ==
    ASSUME Typed, pos \in 1 .. Len(stream) + 1, NEW k \in Nat \ {0},
           Behind(stream)[pos][k] # 0
    PROVE  LET r == ReadTlvInner(pos)
               list == r.ty = "List"
               next == IF list THEN r.next ELSE r.next + r.len
           IN  /\ r.result \in {"ok", "Io"}
               /\ r.result = "ok" =>
                    /\ next \in 1 .. Len(stream) + 1
                    /\ k - 1 + (IF list THEN r.len ELSE 0) \in Nat
                    /\ Behind(stream)[next][k - 1 + (IF list THEN r.len ELSE 0)]
                         = Behind(stream)[pos][k]
<1> DEFINE r == ReadTlvInner(pos)
           d == Declared(stream, pos)
           end == ItemEndOf(stream, pos)
<1>1. stream \in Seq(Byte) /\ arrived \in 0 .. Len(stream) /\ pos \in 1 .. arrived + 1
  BY TypedFacts
<1>2. /\ HeaderAllowed(stream, pos) /\ end \in pos + 1 .. Len(stream) + 1
      /\ Behind(stream)[pos][k] = Behind(stream)[end][k - 1]
  BY <1>1, ItemThatCounts
<1>3. Ends(stream, pos) # {} /\ pos \in Nat \ {0}
  BY <1>1, <1>2 DEF HeaderAllowed
<1>4. d \in Nat /\ HeaderEnd(stream, pos) \in Nat /\ pos \in Nat /\ Len(stream) \in Nat
  BY <1>1, <1>3, DeclaredNat, HeaderEndIs
<1>5. /\ r.result \in {"ok", "Io"}
      /\ r.result = "ok" =>
           /\ r.ty = "List" <=> IsList(stream, pos)
           /\ r.next = HeaderEnd(stream, pos) + 1
           /\ r.len = Amount(stream, pos)
  BY <1>1, <1>2, KnownHeader
<1> HIDE DEF r, d, end
<1>6. ASSUME r.result = "ok", r.ty = "List"
      PROVE  /\ r.next \in 1 .. Len(stream) + 1 /\ k - 1 + r.len \in Nat
             /\ Behind(stream)[r.next][k - 1 + r.len] = Behind(stream)[pos][k]
  <2>1. IsList(stream, pos) /\ r.len = d /\ r.next = pos + 1
    BY <1>2, <1>5, <1>6 DEF Amount, HeaderAllowed, d
  <2>2. end = Behind(stream)[r.next][r.len]
    BY <2>1 DEF end, ItemEndOf, ItemEnd, d
  <2>3. r.next \in 1 .. Len(stream) + 1 /\ r.len \in Nat /\ k - 1 \in Nat /\ end # 0
    BY <1>2, <1>4, <2>1
  <2>4. Behind(stream)[r.next][r.len + (k - 1)] = Behind(stream)[end][k - 1]
    <3>1. \A m, n \in Nat : Behind(stream)[r.next][m + n] =
            IF Behind(stream)[r.next][m] = 0 THEN 0 ELSE Behind(stream)[Behind(stream)[r.next][m]][n]
      BY <1>1, <2>3, BehindBehind
    <3> QED
      BY <2>2, <2>3, <3>1
  <2>5. r.len + (k - 1) = k - 1 + r.len /\ k - 1 + r.len \in Nat
    BY <2>3
  <2> QED
    BY <1>2, <2>3, <2>4, <2>5
<1>7. ASSUME r.result = "ok", r.ty # "List"
      PROVE  /\ r.next + r.len \in 1 .. Len(stream) + 1 /\ k - 1 + 0 \in Nat
             /\ Behind(stream)[r.next + r.len][k - 1 + 0] = Behind(stream)[pos][k]
  <2>1. r.len = d - (HeaderEnd(stream, pos) - pos + 1) /\ end = pos + d
    BY <1>5, <1>7 DEF Amount, ValueLen, HeaderSize, end, ItemEndOf, ItemEnd, d
  <2>2. r.next + r.len = end
    BY <1>4, <1>5, <1>7, <2>1
  <2> QED
    BY <1>2, <1>4, <2>2
<1> QED
  BY <1>5, <1>6, <1>7 DEF r

(* The lists stay in place when the innermost one takes items or closes.   *)
LEMMA ListsKept ==
    ASSUME ListsInPlace, UNCHANGED <<stream, messages>>, Len(open) \in Nat,
           Len(open') \in 0 .. Len(open), open' # << >> => Len(open') > 0,
           open = << >> => Len(open) = 0,
           \A i \in 1 .. Len(open') : open'[i].at = open[i].at /\ open'[i].size = open[i].size,
           \A i \in 1 .. Len(open') - 1 : open'[i] = open[i]
    PROVE  ListsInPlace'
<1>1. messages' \in 0 .. MessageCount(stream')
  BY DEF ListsInPlace
<1>2. open' # << >> => messages' > 0 /\ open'[1].at = Message(stream', messages')
  <2> SUFFICES ASSUME open' # << >>
               PROVE  messages > 0 /\ open'[1].at = Message(stream, messages)
    OBVIOUS
  <2>1. 1 \in 1 .. Len(open') /\ open # << >>
    OBVIOUS
  <2> QED
    BY <2>1 DEF ListsInPlace
<1>3. \A i \in 1 .. Len(open') :
          /\ open'[i].at \in 1 .. Len(stream')
          /\ HeaderAllowed(stream', open'[i].at) /\ IsList(stream', open'[i].at)
          /\ open'[i].size = Declared(stream', open'[i].at)
  <2>1. \A i \in 1 .. Len(open') : i \in 1 .. Len(open)
    OBVIOUS
  <2> QED
    BY <2>1 DEF ListsInPlace
<1>4. \A i \in 2 .. Len(open') :
          /\ open'[i].at = Child(open[i - 1].at, Taken(i - 1))'
          /\ Taken(i - 1)' > 0 /\ Reached(i - 1)' # 0
  <2> SUFFICES ASSUME NEW i \in 2 .. Len(open')
               PROVE  /\ open'[i].at = Child(open[i - 1].at, Taken(i - 1))'
                      /\ Taken(i - 1)' > 0 /\ Reached(i - 1)' # 0
    OBVIOUS
  <2>1. i \in 2 .. Len(open) /\ i \in 1 .. Len(open') /\ i - 1 \in 1 .. Len(open') - 1
    OBVIOUS
  <2>2. open'[i].at = open[i].at /\ open'[i - 1] = open[i - 1]
    BY <2>1
  <2>3. open[i].at = Child(open[i - 1].at, Taken(i - 1)) /\ Taken(i - 1) > 0 /\ Reached(i - 1) # 0
    BY <2>1 DEF ListsInPlace
  <2> QED
    BY <2>2, <2>3 DEF Child, Taken, Reached
<1> QED
  BY <1>1, <1>2, <1>3, <1>4 DEF ListsInPlace

(* A failure leaves everything where it was.                               *)
LEMMA PlacedFail ==
    ASSUME Placed, NEW e \in {"Io", "EndOfSmlMessage"},
           Fail(e), UNCHANGED <<stream, arrived, call>>
    PROVE  Placed' /\ pc' = "failed"
<1>1. UNCHANGED <<stream, pos, open, item, messages>> /\ pc' = "failed" /\ result' = e
  BY DEF Fail, reader
<1> QED
  BY <1>1 DEF Placed, ListsInPlace, ItemInPlace, NoAlarm, Reached, Taken, Child, Innermost

LEMMA PlacedStays ==
    ASSUME Placed, UNCHANGED <<stream, open, item, messages>>, item = NoItem, result' \in {result, "ok"}
    PROVE  ListsInPlace' /\ ItemInPlace' /\ NoAlarm'
BY DEF Placed, ListsInPlace, ItemInPlace, NoAlarm, Reached, Taken, Child, Innermost, NoItem

LEMMA PlacedCall ==
    ASSUME Typed, Placed, ReadList \/ ListNext \/ NextEnd \/ SkipNow
    PROVE  Placed'
<1>1. PICK c : Call(c)
  BY DEF ReadList, ListNext, NextEnd, SkipNow
<1>2. /\ UNCHANGED <<stream, open, item, messages>> /\ item = NoItem /\ result' = result
      /\ UNCHANGED <<pos, remaining_bytes, remaining_tlvs>>
      /\ pc = "program" /\ pc' = "skip_bytes"
  BY <1>1 DEF Call, reader
<1>3. Somewhere'
  BY <1>2 DEF Placed, Somewhere, Inside, Between, MarkOwed, AtTheEnd, From, Owed, Reached, Taken,
              Innermost
<1> QED
  BY <1>2, <1>3, PlacedStays DEF Placed

LEMMA PlacedItem ==
    ASSUME Typed, Placed, ReadItem \/ DropItem
    PROVE  Placed'
<1>1. item.len \in Nat /\ pos \in Nat /\ remaining_bytes \in Nat /\ item \in [at : Nat, len : Nat]
  BY TypedFacts DEF Typed, TypeOK
<1>2. pc = "program" /\ UNCHANGED <<stream, open, messages, remaining_tlvs>> /\ item # NoItem
  BY DEF ReadItem, DropItem, NoItem
<1>3. ListsInPlace'
  BY <1>2 DEF Placed, ListsInPlace, Reached, Taken, Child
<1>4. Inside
  BY <1>2 DEF Placed, Somewhere, Between, MarkOwed, AtTheEnd
<1>5. CASE ReadItem /\ pc' = "failed"
  <2>1. UNCHANGED <<pos, item>> /\ result' = "Io"
    BY <1>2, <1>5 DEF ReadItem
  <2> QED
    BY <1>2, <1>3, <1>5, <2>1 DEF Placed, ItemInPlace, NoAlarm, Taken, Child, Innermost
<1>6. CASE pc' = "program"
  <2>1. From' = From /\ result' = result
    <3>1. CASE ReadItem
      <4>1. /\ pos' = pos + item.len /\ item' = [item EXCEPT !.len = 0] /\ result' = result
            /\ remaining_bytes' = remaining_bytes
        BY <1>6, <3>1 DEF ReadItem
      <4>2. item'.len = 0
        BY <1>1, <4>1
      <4> QED
        BY <1>1, <4>1, <4>2 DEF From
    <3>2. CASE DropItem
      <4>1. item' = NoItem /\ remaining_bytes' = remaining_bytes + item.len
        BY <3>2 DEF DropItem
      <4>2. item'.len = 0
        BY <4>1 DEF NoItem
      <4> QED
        BY <1>1, <3>2, <4>1, <4>2 DEF From, DropItem
    <3> QED
      BY <3>1, <3>2
  <2>2. item'.len = 0 /\ (item' # NoItem => item'.at = item.at)
    <3>1. CASE ReadItem
      <4>1. item' = [item EXCEPT !.len = 0]
        BY <1>6, <3>1 DEF ReadItem
      <4> QED
        BY <1>1, <4>1
    <3>2. CASE DropItem
      BY <3>2 DEF DropItem, NoItem
    <3> QED
      BY <3>1, <3>2
  <2>3. ItemInPlace'
    BY <1>2, <2>2 DEF Placed, ItemInPlace, Innermost, Taken, Child
  <2>4. Somewhere'
    <3>1. From' \in 1 .. Len(stream') + 1
      BY <1>2, <2>1 DEF Placed, Somewhere
    <3>2. Inside'
      BY <1>2, <1>4, <1>6, <2>1 DEF Inside, Owed, Reached, Taken
    <3> QED
      BY <3>1, <3>2 DEF Somewhere
  <2> QED
    BY <1>3, <2>1, <2>3, <2>4 DEF Placed, NoAlarm
<1>7. pc' \in {"program", "failed"} /\ (DropItem => pc' = "program")
  BY <1>2 DEF ReadItem, DropItem
<1> QED
  BY <1>5, <1>6, <1>7

LEMMA PlacedSkip ==
    ASSUME Typed, Placed, IsWellFormed(stream), NEW n \in 1 .. 2, Skip(n)
    PROVE  Placed'
<1> DEFINE last == Len(open)
           size == open[last].size
           at == open[last].at
           t == Taken(last)
<1>1. /\ open # << >> /\ n <= Innermost.len /\ open' = LessItems(n) /\ item = NoItem
      /\ remaining_tlvs' = remaining_tlvs + n
      /\ UNCHANGED <<stream, pos, remaining_bytes, item, pc, result, messages>>
      /\ pc = "program"
  BY DEF Skip
<1>2. OpenLists(open) /\ last \in Nat /\ last > 0 /\ stream \in Seq(Byte)
  BY <1>1, TypedFacts
<1>3. last \in 1 .. Len(open) /\ n \in Nat /\ n > 0
  BY <1>2
<1>4. size \in Nat /\ t \in 0 .. size /\ open[last].len = size - t /\ open[last].len \in Nat
  BY <1>3, LevelFacts
<1>5. /\ Len(open') = last /\ \A i \in 1 .. last : open'[i].at = open[i].at /\ open'[i].size = open[i].size
      /\ \A i \in 1 .. last - 1 : open'[i] = open[i]
      /\ open'[last].len = open[last].len - n
  BY <1>1, <1>2, <1>3, LessItemsIs DEF Innermost
<1>6. ListsInPlace'
  BY <1>1, <1>2, <1>5, ListsKept DEF Placed
<1>7. ItemInPlace' /\ NoAlarm'
  BY <1>1 DEF Placed, ItemInPlace, NoAlarm, NoItem
<1>8. Inside /\ From \in 1 .. Len(stream) + 1
  BY <1>1, <1>3, <1>4 DEF Placed, Somewhere, Between, MarkOwed, AtTheEnd, Innermost
<1>9. From' = From /\ Owed' = Owed + n /\ Owed \in Nat
  BY <1>1 DEF From, Owed, Typed, TypeOK
<1>10. /\ Behind(stream)[From][Owed] = Behind(stream)[at + 1][t]
       /\ Behind(stream)[at + 1][t] # 0
  BY <1>8 DEF Inside, Reached
<1>11. n <= open[last].len
  BY <1>1 DEF Innermost
<1>12. Taken(last)' = t + n /\ Reached(Len(open))' = Behind(stream)[at + 1][t + n]
  <2>1. open'[last].size = size /\ open'[last].at = at
    BY <1>3, <1>5
  <2>2. Taken(last)' = t + n
    <3>1. Taken(last)' = open'[last].size - open'[last].len
      BY <1>5 DEF Taken
    <3>2. t = size - open[last].len
      BY DEF Taken
    <3> HIDE DEF last, size, at, t
    <3> QED
      BY <1>4, <1>3, <1>5, <2>1, <3>1, <3>2
  <2> QED
    BY <1>1, <1>5, <2>1, <2>2 DEF Reached
<1> HIDE DEF last, size, at, t
<1>13. t + n \in 0 .. size /\ t \in Nat
  BY <1>3, <1>4, <1>11
<1>14. at + 1 \in 1 .. Len(stream) + 1
  BY <1>3, <1>4, Room DEF Placed, at, size
<1>15. \A m \in Nat : Behind(stream)[From][Owed + m] = Behind(stream)[at + 1][t + m]
  <2>1. stream \in Seq(Byte) /\ From \in 1 .. Len(stream) + 1 /\ Owed \in Nat /\ t \in Nat
    BY <1>2, <1>8, <1>9, <1>13
  <2> QED
    <3>1. \A m \in Nat : Behind(stream)[From][Owed + m] =
            IF Behind(stream)[From][Owed] = 0 THEN 0
            ELSE Behind(stream)[Behind(stream)[From][Owed]][m]
      BY <2>1, BehindBehind
    <3>2. \A m \in Nat : Behind(stream)[at + 1][t + m] =
            IF Behind(stream)[at + 1][t] = 0 THEN 0
            ELSE Behind(stream)[Behind(stream)[at + 1][t]][m]
      BY <1>14, <2>1, BehindBehind
    <3> QED
      BY <1>10, <3>1, <3>2
<1>16. CASE Behind(stream)[at + 1][t + n] # 0
  <2>1. Behind(stream)[From][Owed + n] = Behind(stream)[at + 1][t + n]
    BY <1>3, <1>15
  <2>2. Inside'
    <3>1. open' # << >>
      BY <1>2, <1>5
    <3> QED
      BY <1>1, <1>9, <1>12, <1>16, <2>1, <3>1 DEF Inside
  <2> QED
    BY <1>1, <1>6, <1>7, <1>8, <1>9, <2>2 DEF Placed, Somewhere
<1>17. CASE Behind(stream)[at + 1][t + n] = 0
  <2>1. last = 1 /\ ~(t + n < size)
    BY <1>3, <1>13, <1>17, Room DEF Placed, at, size
  <2>2. t + n = size
    BY <1>3, <1>13, <1>4, <2>1
  <2>3. /\ Behind(stream)[at + 1][size - 1] = EndMark(stream, Message(stream, messages))
    BY <1>3, <1>13, <2>1, Room DEF Placed, at, size
  <2>4. n - 1 \in Nat /\ t + (n - 1) = size - 1 /\ Owed + (n - 1) = Owed + n - 1
    BY <1>3, <1>4, <1>9, <2>2
  <2>5. Behind(stream)[From][Owed + n - 1] = EndMark(stream, Message(stream, messages))
    <3>1. Behind(stream)[From][Owed + (n - 1)] = Behind(stream)[at + 1][t + (n - 1)]
      BY <1>15, <2>4
    <3> QED
      BY <2>3, <2>4, <3>1
  <2>6. AtTheEnd'
    <3>1. Len(open') = 1 /\ open'[1].len = 0
      BY <1>4, <1>5, <2>1, <2>2 DEF last
    <3> QED
      BY <1>1, <3>1 DEF AtTheEnd, Innermost
  <2>7. MarkOwed'
    <3>1. messages > 0
      BY <1>1 DEF Placed, ListsInPlace
    <3>2. Owed' > 0
      BY <1>3, <1>9
    <3> QED
      BY <1>1, <1>9, <2>5, <2>6, <3>1, <3>2 DEF MarkOwed
  <2> QED
    BY <1>1, <1>6, <1>7, <1>8, <1>9, <2>7 DEF Placed, Somewhere
<1> QED
  BY <1>16, <1>17

LEMMA PlacedDropList ==
    ASSUME Typed, Placed, IsWellFormed(stream), DropList
    PROVE  Placed'
<1> DEFINE last == Len(open)
           size == open[last].size
           at == open[last].at
           t == Taken(last)
           left == Innermost.len
<1>1. /\ open # << >> /\ open' = SubSeq(open, 1, last - 1) /\ item = NoItem
      /\ remaining_tlvs' = remaining_tlvs + left
      /\ UNCHANGED <<stream, pos, remaining_bytes, item, pc, result, messages>>
      /\ pc = "program"
  BY DEF DropList
<1>2. OpenLists(open) /\ last \in Nat /\ last > 0 /\ stream \in Seq(Byte)
  BY <1>1, TypedFacts
<1>3. last \in 1 .. Len(open)
  BY <1>2
<1>4. size \in Nat /\ t \in 0 .. size /\ left = size - t /\ left \in Nat /\ at \in Nat
  BY <1>3, LevelFacts DEF Innermost
<1>5. OpenLists(open') /\ Len(open') = last - 1 /\ \A i \in 1 .. last - 1 : open'[i] = open[i]
  BY <1>1, <1>2, ClosedIs
<1>6. ListsInPlace'
  BY <1>1, <1>2, <1>5, EmptySeq, ListsKept DEF Placed, OpenLists
<1>7. ItemInPlace' /\ NoAlarm'
  BY <1>1 DEF Placed, ItemInPlace, NoAlarm, NoItem
<1>8. From \in 1 .. Len(stream) + 1
  BY <1>1 DEF Placed, Somewhere
<1>9. From' = From /\ Owed' = Owed + left /\ Owed \in Nat
  BY <1>1 DEF From, Owed, Typed, TypeOK
<1>10. messages > 0
  BY <1>1 DEF Placed, ListsInPlace
<1>11. last = 1 => open' = << >>
  BY <1>5, EmptySeq DEF OpenLists
<1>12. Inside => /\ Behind(stream)[From][Owed] = Behind(stream)[at + 1][t]
                 /\ Behind(stream)[at + 1][t] # 0
  BY DEF Inside, Reached
<1>13. t \in Nat /\ t + left = size /\ size \in 0 .. size
  BY <1>4
<1> HIDE DEF t, left
<1>14. /\ at + 1 \in 1 .. Len(stream) + 1
       /\ last = 1 => size > 0 /\ Behind(stream)[at + 1][size] = 0
                      /\ Behind(stream)[at + 1][size - 1] = EndMark(stream, Message(stream, messages))
       /\ last # 1 => /\ Behind(stream)[at + 1][size] # 0
                      /\ Behind(stream)[at + 1][size] = Reached(last - 1)
  BY <1>3, <1>13, Room DEF Placed
<1>15. Inside =>
         \A m \in Nat : Behind(stream)[From][Owed + m] = Behind(stream)[at + 1][t + m]
  <2>1. stream \in Seq(Byte) /\ From \in 1 .. Len(stream) + 1 /\ Owed \in Nat /\ t \in Nat
    BY <1>2, <1>8, <1>9, <1>13
  <2>2. at + 1 \in 1 .. Len(stream) + 1
    BY <1>14
  <2> HIDE DEF at
  <2> QED
    <3>1. \A m \in Nat : Behind(stream)[From][Owed + m] =
            IF Behind(stream)[From][Owed] = 0 THEN 0
            ELSE Behind(stream)[Behind(stream)[From][Owed]][m]
      BY <2>1, BehindBehind
    <3>2. \A m \in Nat : Behind(stream)[at + 1][t + m] =
            IF Behind(stream)[at + 1][t] = 0 THEN 0
            ELSE Behind(stream)[Behind(stream)[at + 1][t]][m]
      BY <2>1, <2>2, BehindBehind
    <3> QED
      BY <1>12, <3>1, <3>2, Zenon
<1>16. CASE last # 1
  <2>1. Inside
    BY <1>1, <1>16 DEF Placed, Somewhere, Between, MarkOwed, AtTheEnd
  <2>2. Behind(stream)[From][Owed + left] = Behind(stream)[at + 1][t + left]
    BY <1>4, <1>15, <2>1
  <2>3. last - 1 \in 1 .. last - 1 /\ Len(open') > 0
    BY <1>2, <1>5, <1>16
  <2>4. Reached(Len(open))' = Reached(last - 1)
    BY <1>1, <1>5, <2>3 DEF Reached, Taken
  <2>5. Inside'
    <3>1. open' # << >>
      BY <2>3
    <3> HIDE DEF last
    <3> QED
      BY <1>1, <1>9, <1>13, <1>14, <1>16, <2>2, <2>4, <3>1 DEF Inside
  <2> QED
    BY <1>1, <1>6, <1>7, <1>8, <1>9, <2>5 DEF Placed, Somewhere
<1>17. CASE last = 1 /\ Inside
  <2>1. left > 0 /\ left - 1 \in Nat /\ t + (left - 1) = size - 1 /\ Owed + (left - 1) = Owed + left - 1
    <3>1. t # size
      BY <1>12, <1>14, <1>17
    <3> HIDE DEF size
    <3> QED
      BY <1>4, <1>9, <1>13, <3>1
  <2>2. Behind(stream)[From][Owed + left - 1] = EndMark(stream, Message(stream, messages))
    <3>1. Behind(stream)[From][Owed + (left - 1)] = Behind(stream)[at + 1][t + (left - 1)]
      BY <1>15, <1>17, <2>1
    <3> QED
      BY <1>14, <1>17, <2>1, <3>1
  <2>3. Owed' > 0
    BY <1>4, <1>9, <2>1
  <2>4. AtTheEnd'
    <3>1. open' = << >> /\ item' = NoItem
      BY <1>1, <1>11, <1>17 DEF NoItem
    <3> QED
      BY <3>1 DEF AtTheEnd, NoItem
  <2>5. MarkOwed'
    <3>1. messages' > 0 /\ stream' = stream /\ messages' = messages
      BY <1>1, <1>10
    <3>2. Behind(stream)[From'][Owed' - 1] = EndMark(stream, Message(stream, messages))
      <4>1. Owed' - 1 = Owed + left - 1
        BY <1>4, <1>9
      <4> QED
        BY <1>9, <2>2, <4>1
    <3> QED
      BY <2>3, <2>4, <3>1, <3>2 DEF MarkOwed
  <2> QED
    BY <1>1, <1>6, <1>7, <1>8, <1>9, <2>5 DEF Placed, Somewhere
<1>18. CASE last = 1 /\ ~Inside
  <2>1. Between \/ MarkOwed
    BY <1>1, <1>18 DEF Placed, Somewhere
  <2>2. left = 0 /\ Owed' = Owed
    <3>1. left = 0
      BY <1>1, <2>1 DEF Between, MarkOwed, AtTheEnd, left
    <3> QED
      BY <1>9, <3>1
  <2>3. AtTheEnd'
    BY <1>1, <1>11, <1>18 DEF AtTheEnd
  <2>4. Between' \/ MarkOwed'
    <3>1. CASE Between
      BY <1>1, <1>9, <2>2, <2>3, <3>1 DEF Between
    <3>2. CASE MarkOwed
      BY <1>1, <1>9, <2>2, <2>3, <3>2 DEF MarkOwed
    <3> QED
      BY <2>1, <3>1, <3>2
  <2> QED
    BY <1>1, <1>6, <1>7, <1>8, <1>9, <2>4 DEF Placed, Somewhere
<1> QED
  BY <1>16, <1>17, <1>18

(* The message there is when one has been given out.                       *)
LEMMA CurrentMark ==
    ASSUME Typed, IsWellFormed(stream), ListsInPlace, messages > 0
    PROVE  LET mark == EndMark(stream, Message(stream, messages))
           IN  /\ mark \in 1 .. Len(stream) /\ stream[mark] = 0
               /\ Message(stream, messages + 1) = mark + 1
<1>1. stream \in Seq(Byte)
  BY TypedFacts
<1>2. messages \in 1 .. MessageCount(stream)
  BY <1>1, MessageCountIs DEF ListsInPlace
<1> QED
  BY <1>1, <1>2, MessageCountIs

LEMMA PlacedSkipBytes ==
    ASSUME Typed, Placed, SkipBytes
    PROVE  Placed'
<1>1. pc = "skip_bytes" /\ item = NoItem /\ UNCHANGED <<stream, arrived, call>>
  BY DEF SkipBytes, Typed, Serving
<1>2. CASE Fail("Io")
  BY <1>1, <1>2, PlacedFail
<1>3. CASE /\ pos' = pos + remaining_bytes /\ remaining_bytes' = 0
           /\ num' = remaining_tlvs /\ pc' = "skip_tlvs"
           /\ UNCHANGED <<remaining_tlvs, open, item, result, messages>>
  <2>1. ListsInPlace' /\ ItemInPlace' /\ NoAlarm'
    BY <1>1, <1>3, PlacedStays
  <2>2. From' = From /\ Owed' = Owed
    BY <1>1, <1>3 DEF From, Owed, NoItem, Typed, TypeOK
  <2>3. Somewhere
    BY <1>1 DEF Placed
  <2>4. Somewhere'
    BY <1>1, <1>3, <2>2, <2>3 DEF Somewhere, Inside, Between, MarkOwed, AtTheEnd, Reached, Taken,
                                  Innermost
  <2> QED
    BY <2>1, <2>4 DEF Placed
<1> QED
  BY <1>2, <1>3 DEF SkipBytes

LEMMA ServingFrom ==
    ASSUME Typed, Placed, pc = "skip_tlvs"
    PROVE  /\ From = pos /\ Owed = num /\ Somewhere /\ num \in Nat /\ pos \in Nat
           /\ remaining_bytes = 0 /\ item = NoItem
           /\ pos \in 1 .. Len(stream) + 1
<1>1. remaining_bytes = 0 /\ item = NoItem /\ num \in Nat
  BY DEF Typed, Serving, TypeOK
<1>2. pos \in Nat
  BY TypedFacts
<1>3. From = pos /\ Owed = num
  BY <1>1, <1>2 DEF From, Owed, NoItem
<1>4. Somewhere
  BY DEF Placed
<1>5. pos \in 1 .. Len(stream) + 1
  BY <1>3, <1>4 DEF Somewhere
<1> QED
  BY <1>1, <1>2, <1>3, <1>4, <1>5

(* At the end marker that is owed the reader says so, or that the bytes    *)
(* are at an end.                                                          *)
LEMMA AtMark ==
    ASSUME Typed, pos \in 1 .. Len(stream), stream[pos] = 0
    PROVE  LET r == ReadTlvInner(pos)
           IN  /\ r.result \in {"Io", "EndOfSmlMessage"}
               /\ r.result = "EndOfSmlMessage" => r.next = pos + 1
<1>1. stream \in Seq(Byte) /\ arrived \in 0 .. Len(stream) /\ pos \in 1 .. arrived + 1
  BY TypedFacts
<1>2. CASE pos \in 1 .. arrived
  BY <1>1, <1>2, EndMarkHeader
<1>3. CASE pos = arrived + 1
  BY <1>1, <1>3, AnyHeader
<1> QED
  BY <1>1, <1>2, <1>3

LEMMA PlacedSkipTlv ==
    ASSUME Typed, Placed, IsWellFormed(stream), SkipTlv
    PROVE  Placed' /\ pc' # "program"
<1> DEFINE r == ReadTlvInner(pos)
           valueEnd == IF r.ty = "List" THEN r.next - 1 ELSE r.next + r.len - 1
           moved == /\ r.result = "ok"
                    /\ num' = num - 1 + (IF r.ty = "List" THEN r.len ELSE 0)
                    /\ pos' = valueEnd + 1
                    /\ UNCHANGED <<remaining_bytes, remaining_tlvs, open, item, pc, result, messages>>
<1>1. pc = "skip_tlvs" /\ num > 0 /\ UNCHANGED <<stream, arrived, call>>
  BY DEF SkipTlv
<1>2. /\ From = pos /\ Owed = num /\ Somewhere /\ num \in Nat /\ pos \in Nat
      /\ remaining_bytes = 0 /\ item = NoItem /\ pos \in 1 .. Len(stream) + 1
  BY <1>1, ServingFrom
<1>3. \/ moved
      \/ r.result = "ok" /\ Fail("Io")
      \/ r.result = "EndOfSmlMessage" /\ num = 1 /\ call = "next_end"
      \/ r.result = "EndOfSmlMessage" /\ num > 1
      \/ r.result # "ok" /\ Fail(r.result) /\ (r.result = "EndOfSmlMessage" => num = 1)
  BY DEF SkipTlv
<1>4. r.next \in Nat /\ r.len \in Nat
  BY TypedFacts, AnyHeader
<1>5. ASSUME moved
      PROVE  /\ pos' = (IF r.ty = "List" THEN r.next ELSE r.next + r.len)
             /\ num' = num - 1 + (IF r.ty = "List" THEN r.len ELSE 0)
             /\ From' = pos' /\ Owed' = num' /\ item' = NoItem
             /\ ListsInPlace' /\ ItemInPlace' /\ NoAlarm' /\ pc' = "skip_tlvs"
  <2>1. pos' = (IF r.ty = "List" THEN r.next ELSE r.next + r.len)
    <3> HIDE DEF r
    <3> QED
      BY <1>4, <1>5
  <2>2. pos' \in Nat
    <3> HIDE DEF r
    <3> QED
      BY <1>4, <2>1
  <2>3. ListsInPlace' /\ ItemInPlace' /\ NoAlarm'
    <3> HIDE DEF r
    <3> QED
      BY <1>1, <1>2, <1>5, PlacedStays
  <2>4. From' = pos' /\ Owed' = num'
    <3> HIDE DEF r
    <3> QED
      BY <1>1, <1>2, <1>5, <2>2 DEF From, Owed, NoItem
  <2> HIDE DEF r
  <2> QED
    BY <1>1, <1>2, <1>5, <2>1, <2>3, <2>4
<1>6. ASSUME NEW k \in Nat \ {0}, Behind(stream)[pos][k] # 0
      PROVE  /\ r.result \in {"ok", "Io"}
             /\ moved => LET more == k - 1 + (IF r.ty = "List" THEN r.len ELSE 0)
                         IN  /\ pos' \in 1 .. Len(stream) + 1 /\ more \in Nat
                             /\ Behind(stream)[pos'][more] = Behind(stream)[pos][k]
  <2>1. /\ r.result \in {"ok", "Io"}
        /\ r.result = "ok" =>
             LET next == IF r.ty = "List" THEN r.next ELSE r.next + r.len
                 more == k - 1 + (IF r.ty = "List" THEN r.len ELSE 0)
             IN  /\ next \in 1 .. Len(stream) + 1 /\ more \in Nat
                 /\ Behind(stream)[next][more] = Behind(stream)[pos][k]
    BY <1>2, <1>6, SkipKeepsTheEnd
  <2>2. moved => pos' = (IF r.ty = "List" THEN r.next ELSE r.next + r.len) /\ r.result = "ok"
    BY <1>5
  <2> HIDE DEF r, moved
  <2> QED
    BY <2>1, <2>2
<1> HIDE DEF r, valueEnd
<1>7. CASE Inside
  <2>1. Behind(stream)[pos][num] = Reached(Len(open)) /\ Reached(Len(open)) # 0 /\ open # << >>
    BY <1>2, <1>7 DEF Inside
  <2>2. num \in Nat \ {0}
    BY <1>1, <1>2
  <2>3. r.result \in {"ok", "Io"}
    BY <1>6, <2>1, <2>2
  <2>4. CASE moved
    <3>1. pos' \in 1 .. Len(stream) + 1 /\ Behind(stream)[pos'][num'] = Behind(stream)[pos][num]
      BY <1>5, <1>6, <2>1, <2>2, <2>4
    <3>2. UNCHANGED <<open, stream>> /\ From' = pos' /\ Owed' = num'
      BY <1>1, <1>5, <2>4
    <3>3. Inside' /\ From' \in 1 .. Len(stream') + 1
      BY <2>1, <3>1, <3>2 DEF Inside, Reached, Taken
    <3> QED
      BY <1>5, <2>4, <3>3 DEF Placed, Somewhere
  <2>5. CASE Fail("Io")
    BY <1>1, <2>5, PlacedFail
  <2> HIDE DEF moved
  <2> QED
    BY <1>3, <2>3, <2>4, <2>5
<1>8. CASE MarkOwed
  <2> DEFINE mark == EndMark(stream, Message(stream, messages))
  <2>1. Behind(stream)[pos][num - 1] = mark /\ messages > 0 /\ AtTheEnd
    BY <1>2, <1>8 DEF MarkOwed
  <2>2. mark \in 1 .. Len(stream) /\ stream[mark] = 0
    BY <2>1, CurrentMark DEF Placed
  <2> HIDE DEF mark
  <2>3. CASE num = 1
    <3>1. pos = mark
      <4>1. Behind(stream)[pos][0] = pos
        BY <1>2, TypedFacts, BehindAt
      <4> QED
        BY <2>1, <2>3, <4>1
    <3>2. r.result \in {"Io", "EndOfSmlMessage"}
      BY <2>2, <3>1, AtMark DEF r
    <3>3. call # "next_end"
      BY <1>1, <2>1 DEF AtTheEnd, Typed, Serving
    <3>4. Fail(r.result)
      BY <1>3, <2>3, <3>2, <3>3
    <3> QED
      BY <1>1, <3>2, <3>4, PlacedFail
  <2>4. CASE num # 1
    <3>1. num - 1 \in Nat \ {0} /\ Behind(stream)[pos][num - 1] # 0
      BY <1>1, <1>2, <2>1, <2>2, <2>4
    <3>2. r.result \in {"ok", "Io"}
      BY <1>6, <3>1
    <3>3. CASE moved
      <4> DEFINE more == (num - 1) - 1 + (IF r.ty = "List" THEN r.len ELSE 0)
      <4>1. /\ pos' \in 1 .. Len(stream) + 1 /\ more \in Nat
            /\ Behind(stream)[pos'][more] = mark
        BY <1>6, <2>1, <3>1, <3>3
      <4>2. /\ UNCHANGED <<open, stream, messages>> /\ From' = pos' /\ Owed' = num'
            /\ item' = NoItem
        BY <1>1, <1>5, <3>3
      <4>3. num' = more + 1 /\ num' - 1 = more
        BY <1>2, <1>4, <1>5, <3>3, <4>1
      <4>4. MarkOwed'
        <5>1. AtTheEnd'
          BY <2>1, <4>2 DEF AtTheEnd, Innermost, NoItem
        <5>2. num' > 0
          <6> HIDE DEF more
          <6> QED
            BY <4>1, <4>3
        <5> QED
          BY <2>1, <4>1, <4>2, <4>3, <5>1, <5>2 DEF MarkOwed, mark
      <4>5. From' \in 1 .. Len(stream') + 1
        BY <4>1, <4>2
      <4> QED
        BY <1>5, <3>3, <4>4, <4>5 DEF Placed, Somewhere
    <3>4. CASE Fail("Io")
      BY <1>1, <3>4, PlacedFail
    <3> HIDE DEF moved
    <3> QED
      BY <1>3, <3>2, <3>3, <3>4
  <2> QED
    BY <2>3, <2>4
<1>9. ~Between
  BY <1>1, <1>2 DEF Between
<1> QED
  BY <1>2, <1>7, <1>8, <1>9 DEF Somewhere

LEMMA PlacedSkipNowEnds ==
    ASSUME Typed, Placed, SkipNowEnds
    PROVE  Placed'
<1>1. /\ pc = "skip_tlvs" /\ num = 0 /\ remaining_tlvs' = 0 /\ pc' = "program" /\ result' = "ok"
      /\ UNCHANGED <<stream, arrived, pos, remaining_bytes, num, open, item, call, messages>>
  BY DEF SkipNowEnds
<1>2. From = pos /\ Owed = 0 /\ Somewhere /\ item = NoItem
  BY <1>1, ServingFrom
<1>3. ListsInPlace' /\ ItemInPlace' /\ NoAlarm'
  BY <1>1, <1>2, PlacedStays
<1>4. From' = From /\ Owed' = Owed
  BY <1>1, <1>2 DEF From, Owed
<1>5. Somewhere'
  BY <1>1, <1>2, <1>4 DEF Somewhere, Inside, Between, MarkOwed, AtTheEnd, Reached, Taken, Innermost
<1> QED
  BY <1>3, <1>5 DEF Placed

(* A call on the innermost list meets its next item, or the message's end  *)
(* marker.                                                                 *)
LEMMA AtNextItem ==
    ASSUME Typed, Placed, IsWellFormed(stream), Inside, pc = "skip_tlvs", num = 0,
           Innermost.len > 0
    PROVE  LET last == Len(open)
               next == Behind(stream)[open[last].at + 1][Taken(last) + 1]
           IN  /\ pos = Reached(last)
               /\ \/ /\ HeaderAllowed(stream, pos) /\ next = ItemEndOf(stream, pos)
                     /\ next \in pos + 1 .. Len(stream) + 1
                  \/ /\ last = 1 /\ open[last].len = 1 /\ messages > 0
                     /\ pos = EndMark(stream, Message(stream, messages))
<1> DEFINE last == Len(open)
           at == open[last].at
           t == Taken(last)
           size == open[last].size
<1>1. From = pos /\ Owed = 0 /\ pos \in 1 .. Len(stream) + 1
  BY ServingFrom
<1>2. /\ open # << >> /\ last \in 1 .. Len(open) /\ stream \in Seq(Byte)
  <2>1. open # << >>
    BY DEF Inside
  <2> QED
    BY <2>1, TypedFacts
<1>3. pos = Reached(last) /\ Reached(last) # 0 /\ Reached(last) = Behind(stream)[at + 1][t]
  <2>1. Behind(stream)[pos][0] = pos
    BY <1>1, <1>2, BehindAt
  <2> QED
    BY <1>1, <2>1 DEF Inside, Reached
<1>4. /\ size \in Nat /\ t \in 0 .. size /\ size - t = open[last].len /\ open[last].len > 0
  BY <1>2, LevelFacts DEF Innermost
<1>5. t \in Nat /\ t + 1 \in 0 .. size /\ size - t \in Nat
  BY <1>4
<1> HIDE DEF t
<1>6. /\ at + 1 \in 1 .. Len(stream) + 1
      /\ last = 1 => /\ (t + 1 < size => Behind(stream)[at + 1][t + 1] # 0)
                     /\ Behind(stream)[at + 1][size - 1] = EndMark(stream, Message(stream, messages))
      /\ last # 1 => Behind(stream)[at + 1][t + 1] # 0
  BY <1>2, <1>5, Room DEF Placed
<1> HIDE DEF last, at, size
<1>7. CASE Behind(stream)[at + 1][t + 1] # 0
  <2>1. Behind(stream)[at + 1][t + 1] = Behind(stream)[pos][1]
    <3>1. \A m \in Nat : Behind(stream)[at + 1][t + m] =
            IF Behind(stream)[at + 1][t] = 0 THEN 0 ELSE Behind(stream)[Behind(stream)[at + 1][t]][m]
      BY <1>2, <1>5, <1>6, BehindBehind
    <3> QED
      BY <1>3, <3>1
  <2>2. /\ HeaderAllowed(stream, pos) /\ Behind(stream)[pos][1] = ItemEndOf(stream, pos)
        /\ ItemEndOf(stream, pos) \in pos + 1 .. Len(stream) + 1
    <3>1. 1 \in Nat \ {0} /\ Behind(stream)[pos][1] # 0
      BY <1>7, <2>1
    <3> QED
      BY <1>1, <1>2, <3>1, ItemThatCounts
  <2> QED
    BY <1>3, <2>1, <2>2 DEF last, at, t
<1>8. CASE Behind(stream)[at + 1][t + 1] = 0
  <2>1. last = 1 /\ ~(t + 1 < size)
    BY <1>6, <1>8
  <2>2. t = size - 1 /\ open[last].len = 1
    <3>1. size - t \in Nat /\ size - t > 0
      BY <1>4, <1>5
    <3>2. size - t = 1
      BY <1>4, <1>5, <2>1, <3>1
    <3> QED
      BY <1>4, <1>5, <3>2
  <2>3. messages > 0
    BY <1>2 DEF Placed, ListsInPlace
  <2> QED
    BY <1>3, <1>6, <2>1, <2>2, <2>3 DEF last, at, t
<1> QED
  BY <1>7, <1>8

(* How the innermost list looks after giving one item.                     *)
LEMMA OneTaken ==
    ASSUME Typed, Placed, open # << >>, Innermost.len > 0
    PROVE  LET last == Len(open)
               less == LessItems(1)
           IN  /\ last \in 1 .. Len(open) /\ Len(less) = last /\ less # << >> /\ OpenLists(less)
               /\ \A i \in 1 .. last : less[i].at = open[i].at /\ less[i].size = open[i].size
               /\ \A i \in 1 .. last - 1 : less[i] = open[i]
               /\ less[last].len = open[last].len - 1
               /\ less[last].size - less[last].len = Taken(last) + 1
<1> DEFINE last == Len(open)
           less == LessItems(1)
<1>1. OpenLists(open) /\ last \in Nat /\ last > 0 /\ last \in 1 .. Len(open) /\ Innermost.len \in Nat
  BY TypedFacts
<1>2. 1 \in Nat /\ 1 <= Innermost.len
  BY <1>1
<1>3. /\ OpenLists(less) /\ Len(less) = last
      /\ \A i \in 1 .. last : less[i].at = open[i].at /\ less[i].size = open[i].size
      /\ \A i \in 1 .. last - 1 : less[i] = open[i]
      /\ less[last].len = open[last].len - 1
  BY <1>1, <1>2, LessItemsIs DEF Innermost
<1>4. open[last].size \in Nat /\ open[last].len \in Nat /\ Taken(last) = open[last].size - open[last].len
  BY <1>1, LevelFacts DEF Taken
<1>5. less[last].size = open[last].size
  BY <1>1, <1>3
<1> HIDE DEF less, last
<1>6. less # << >>
  BY <1>1, <1>3
<1> QED
  BY <1>1, <1>3, <1>4, <1>5, <1>6 DEF less, last

(* What it is then that has been reached, whoever took the item.           *)
LEMMA TakenReached ==
    ASSUME Typed, Placed, open # << >>, Innermost.len > 0, stream' = stream, messages' = messages,
           open' = LessItems(1)
    PROVE  /\ ListsInPlace' /\ open' # << >> /\ Len(open') = Len(open)
           /\ Reached(Len(open))' = Behind(stream)[open[Len(open)].at + 1][Taken(Len(open)) + 1]
           /\ Innermost.at' = open[Len(open)].at /\ Taken(Len(open))' = Taken(Len(open)) + 1
           /\ Innermost.len' = Innermost.len - 1
<1> DEFINE last == Len(open)
<1>1. /\ last \in 1 .. Len(open) /\ Len(open') = last /\ open' # << >>
      /\ \A i \in 1 .. last : open'[i].at = open[i].at /\ open'[i].size = open[i].size
      /\ \A i \in 1 .. last - 1 : open'[i] = open[i]
      /\ open'[last].len = open[last].len - 1
      /\ open'[last].size - open'[last].len = Taken(last) + 1
  BY OneTaken
<1>2. Len(open) \in Nat
  BY TypedFacts
<1>3. ListsInPlace'
  BY <1>1, <1>2, ListsKept DEF Placed
<1>4. Taken(Len(open))' = Taken(last) + 1
  BY <1>1 DEF Taken
<1>5. Reached(Len(open))' = Behind(stream)[open'[last].at + 1][Taken(Len(open))']
  BY <1>1 DEF Reached
<1> QED
  BY <1>1, <1>3, <1>4, <1>5 DEF Innermost

(* The header of an item that counts, when all of it has arrived.          *)
LEMMA ItemHeader ==
    ASSUME Typed, HeaderAllowed(stream, pos),
           ItemEndOf(stream, pos) \in pos + 1 .. Len(stream) + 1
    PROVE  LET r == ReadTlvInner(pos)
               end == ItemEndOf(stream, pos)
           IN  /\ r.result \in {"ok", "Io"}
               /\ r.result = "ok" =>
                    /\ r.ty # "Other" /\ (r.ty = "List" <=> IsList(stream, pos))
                    /\ r.next = HeaderEnd(stream, pos) + 1 /\ r.next \in Nat
                    /\ r.len \in Nat
                    /\ r.ty = "List" => /\ r.next = pos + 1 /\ r.len = Declared(stream, pos)
                                        /\ end = Behind(stream)[r.next][r.len]
                    /\ r.ty # "List" => r.len = ValueLen(stream, pos) /\ end = r.next + r.len
<1> DEFINE r == ReadTlvInner(pos)
           end == ItemEndOf(stream, pos)
           d == Declared(stream, pos)
           e == HeaderEnd(stream, pos)
<1>1. stream \in Seq(Byte) /\ arrived \in 0 .. Len(stream) /\ pos \in 1 .. arrived + 1
  BY TypedFacts
<1>2. Ends(stream, pos) # {} /\ pos \in Nat \ {0}
  BY <1>1 DEF HeaderAllowed
<1>3. d \in Nat /\ e \in Nat /\ pos \in Nat
  BY <1>1, <1>2, DeclaredNat, HeaderEndIs
<1>4. /\ r.result \in {"ok", "Io"}
      /\ r.result = "ok" => /\ r.ty # "Other" /\ (r.ty = "List" <=> IsList(stream, pos))
                            /\ r.next = e + 1 /\ r.len = Amount(stream, pos)
      /\ r.len \in Nat
  BY <1>1, KnownHeader, AnyHeader
<1> HIDE DEF r
<1>5. ASSUME r.result = "ok", r.ty = "List"
      PROVE  r.next = pos + 1 /\ r.len = d /\ end = Behind(stream)[r.next][r.len]
  <2>1. IsList(stream, pos) /\ e = pos /\ r.len = d
    BY <1>4, <1>5 DEF HeaderAllowed, Amount
  <2>2. r.next = pos + 1
    BY <1>4, <1>5, <2>1
  <2>3. end = Behind(stream)[pos + 1][d]
    BY <2>1 DEF ItemEndOf, ItemEnd
  <2> QED
    BY <2>1, <2>2, <2>3
<1>6. ASSUME r.result = "ok", r.ty # "List"
      PROVE  r.len = ValueLen(stream, pos) /\ end = r.next + r.len
  <2>1. r.len = ValueLen(stream, pos) /\ ValueLen(stream, pos) = d - (e - pos + 1) /\ end = pos + d
    BY <1>4, <1>6 DEF Amount, ValueLen, HeaderSize, ItemEndOf, ItemEnd
  <2> HIDE DEF e, d, end
  <2> QED
    BY <1>3, <1>4, <1>6, <2>1
<1> QED
  BY <1>3, <1>4, <1>5, <1>6 DEF r

(* Giving a list opens it where it begins.                                 *)
LEMMA ListOpened ==
    ASSUME Typed, Placed, IsWellFormed(stream), open # << >>, Innermost.len > 0,
           HeaderAllowed(stream, pos), IsList(stream, pos), pos = Reached(Len(open)),
           Behind(stream)[open[Len(open)].at + 1][Taken(Len(open)) + 1] # 0,
           NEW r, r.len = Declared(stream, pos), r.len \in Nat,
           open' = Append(LessItems(1), Opened(r)), stream' = stream, messages' = messages
    PROVE  ListsInPlace' /\ Reached(Len(open))' = Behind(stream)[pos + 1][0] /\ open' # << >>
<1> DEFINE last == Len(open)
           less == LessItems(1)
<1>1. /\ last \in 1 .. Len(open) /\ Len(less) = last /\ OpenLists(less)
      /\ \A i \in 1 .. last : less[i].at = open[i].at /\ less[i].size = open[i].size
      /\ \A i \in 1 .. last - 1 : less[i] = open[i]
      /\ less[last].size - less[last].len = Taken(last) + 1
  BY OneTaken
<1>2. stream \in Seq(Byte) /\ Len(open) \in Nat /\ pos \in Nat /\ pos > 0
  BY TypedFacts
<1>3. /\ Len(open') = last + 1 /\ \A i \in 1 .. last : open'[i] = less[i]
      /\ open'[last + 1] = Opened(r)
  BY <1>1, <1>2, OpenedIs
<1>4. Taken(last) \in Nat
  <2>1. Taken(last) \in 0 .. open[last].size /\ open[last].size \in Nat
    BY <1>1, LevelFacts
  <2> QED
    BY <2>1
<1> HIDE DEF last, less
<1>5. /\ Opened(r).at = pos /\ Opened(r).size = Declared(stream, pos)
      /\ Opened(r).size - Opened(r).len = 0
  BY DEF Opened
<1>6. /\ messages' \in 0 .. MessageCount(stream')
      /\ open' # << >> => messages' > 0 /\ open'[1].at = Message(stream', messages')
  <2>1. 1 \in 1 .. last
    BY <1>1, <1>2 DEF last
  <2>2. open'[1].at = open[1].at
    BY <1>1, <1>3, <2>1
  <2> QED
    BY <2>2 DEF Placed, ListsInPlace
<1>7. \A i \in 1 .. Len(open') :
          /\ open'[i].at \in 1 .. Len(stream)
          /\ HeaderAllowed(stream, open'[i].at) /\ IsList(stream, open'[i].at)
          /\ open'[i].size = Declared(stream, open'[i].at)
  <2> SUFFICES ASSUME NEW i \in 1 .. Len(open')
               PROVE  /\ open'[i].at \in 1 .. Len(stream)
                      /\ HeaderAllowed(stream, open'[i].at) /\ IsList(stream, open'[i].at)
                      /\ open'[i].size = Declared(stream, open'[i].at)
    OBVIOUS
  <2>1. CASE i \in 1 .. last
    <3>1. open'[i].at = open[i].at /\ open'[i].size = open[i].size
      BY <1>1, <1>3, <2>1
    <3>2. i \in 1 .. Len(open)
      BY <2>1 DEF last
    <3> QED
      BY <3>1, <3>2 DEF Placed, ListsInPlace
  <2>2. CASE i = last + 1
    <3>1. open'[i].at = pos /\ open'[i].size = Declared(stream, pos)
      BY <1>3, <1>5, <2>2
    <3>2. pos \in 1 .. Len(stream)
      BY <1>2 DEF HeaderAllowed
    <3> QED
      BY <3>1, <3>2
  <2> QED
    BY <1>2, <1>3, <2>1, <2>2 DEF last
<1>8. \A i \in 2 .. Len(open') :
          /\ open'[i].at = Child(open[i - 1].at, Taken(i - 1))'
          /\ Taken(i - 1)' > 0 /\ Reached(i - 1)' # 0
  <2> SUFFICES ASSUME NEW i \in 2 .. Len(open')
               PROVE  /\ open'[i].at = Child(open[i - 1].at, Taken(i - 1))'
                      /\ Taken(i - 1)' > 0 /\ Reached(i - 1)' # 0
    OBVIOUS
  <2>1. CASE i \in 2 .. last
    <3>1. i \in 1 .. last /\ i - 1 \in 1 .. last /\ i - 1 \in 1 .. last - 1 /\ i \in 2 .. Len(open)
      BY <1>2, <2>1 DEF last
    <3>2. open'[i].at = open[i].at /\ open'[i - 1] = open[i - 1]
      BY <1>1, <1>3, <3>1
    <3>3. /\ open[i].at = Child(open[i - 1].at, Taken(i - 1)) /\ Taken(i - 1) > 0
          /\ Reached(i - 1) # 0
      BY <3>1 DEF Placed, ListsInPlace
    <3> QED
      BY <3>2, <3>3 DEF Child, Taken, Reached
  <2>2. CASE i = last + 1
    <3>1. i - 1 = last /\ last \in 1 .. last
      BY <1>1, <1>2, <2>2 DEF last
    <3>2. /\ open'[i - 1].at = open[last].at
          /\ open'[i - 1].size - open'[i - 1].len = Taken(last) + 1
      BY <1>1, <1>3, <3>1
    <3>3. Taken(i - 1)' = Taken(last) + 1
      BY <3>2 DEF Taken
    <3>4. /\ pos = Behind(stream)[open[last].at + 1][Taken(last)]
          /\ Behind(stream)[open[last].at + 1][Taken(last) + 1] # 0
      BY DEF Reached, last
    <3>5. Child(open[i - 1].at, Taken(i - 1))' = pos
      <4>1. Taken(i - 1)' - 1 = Taken(last)
        BY <1>4, <3>3
      <4>2. Child(open[i - 1].at, Taken(i - 1))'
              = Behind(stream)[open'[i - 1].at + 1][Taken(i - 1)' - 1]
        BY DEF Child
      <4> QED
        BY <3>2, <3>4, <4>1, <4>2
    <3>6. Reached(i - 1)' # 0
      <4>1. Reached(i - 1)' = Behind(stream)[open'[i - 1].at + 1][Taken(i - 1)']
        BY DEF Reached
      <4> QED
        BY <3>2, <3>3, <3>4, <4>1
    <3>7. open'[i].at = pos
      BY <1>3, <1>5, <2>2
    <3> QED
      BY <1>4, <3>3, <3>5, <3>6, <3>7
  <2> QED
    BY <1>2, <1>3, <2>1, <2>2 DEF last
<1>9. ListsInPlace'
  BY <1>6, <1>7, <1>8 DEF ListsInPlace
<1>10. Reached(Len(open))' = Behind(stream)[pos + 1][0]
  <2>1. Taken(Len(open))' = 0
    BY <1>3, <1>5 DEF Taken
  <2>2. Reached(Len(open))' = Behind(stream)[open'[last + 1].at + 1][Taken(Len(open))']
    BY <1>3 DEF Reached
  <2> QED
    BY <1>3, <1>5, <2>1, <2>2
<1>11. open' # << >>
  BY <1>1, <1>2, <1>3 DEF last
<1> QED
  BY <1>9, <1>10, <1>11

(* Where next_end leaves the reader when it succeeds.                      *)
AtNextMessage ==
    /\ Len(open) = 1 /\ open[1].len = 0
    /\ pos = Message(stream, messages + 1)
    /\ remaining_bytes = 0 /\ remaining_tlvs = 0

LEMMA PlacedReadItem ==
    ASSUME Typed, Placed, IsWellFormed(stream), ReadHeader, Inside
    PROVE  /\ Placed'
           /\ call = "next_end" /\ pc' = "program" /\ result' = "ok" => AtNextMessage'
<1> DEFINE r == ReadTlvInner(pos)
           last == Len(open)
           at == open[last].at
           t == Taken(last)
           next == Behind(stream)[at + 1][t + 1]
<1>1. /\ pc = "skip_tlvs" /\ num = 0 /\ call \in {"next", "next_end"}
      /\ UNCHANGED <<stream, arrived, call>> /\ open # << >>
  BY DEF ReadHeader, Inside, Typed, Serving, TypeOK
<1>2. /\ From = pos /\ Owed = 0 /\ pos \in Nat /\ remaining_bytes = 0 /\ item = NoItem
      /\ pos \in 1 .. Len(stream) + 1
  BY <1>1, ServingFrom
<1>3. Innermost.len > 0 /\ stream \in Seq(Byte)
  BY <1>1, TypedFacts DEF Typed, Serving
<1>4. /\ pos = Reached(last)
      /\ \/ /\ HeaderAllowed(stream, pos) /\ next = ItemEndOf(stream, pos)
            /\ next \in pos + 1 .. Len(stream) + 1
         \/ /\ last = 1 /\ open[last].len = 1 /\ messages > 0
            /\ pos = EndMark(stream, Message(stream, messages))
  BY <1>1, <1>3, AtNextItem
<1>5. \/ GiveItem(r) /\ remaining_tlvs' = 0 /\ r.result = "ok"
      \/ /\ RefuseItem(r) /\ remaining_tlvs' = (IF r.ty = "List" THEN r.len ELSE 0)
         /\ r.result = "ok"
      \/ /\ call = "next_end" /\ EndMarker(r) /\ remaining_tlvs' = 0
         /\ r.result = "EndOfSmlMessage"
      \/ r.result = "ok" /\ r.ty = "Other"
      \/ r.result # "ok" /\ Fail(r.result)
  BY <1>1 DEF ReadHeader, GiveMessage
<1>6. open' = LessItems(1) =>
        (messages' = messages =>
           /\ ListsInPlace' /\ open' # << >> /\ Len(open') = last
           /\ Reached(Len(open))' = next
           /\ Innermost.at' = at /\ Taken(Len(open))' = t + 1
           /\ Innermost.len' = Innermost.len - 1)
  BY <1>1, <1>3, TakenReached
<1>7. t \in Nat /\ Reached(last) = Behind(stream)[at + 1][t]
  <2>1. last \in 1 .. Len(open)
    BY <1>1, <1>3, OneTaken
  <2>2. t \in 0 .. open[last].size /\ open[last].size \in Nat
    BY <2>1, LevelFacts
  <2> QED
    BY <2>2 DEF Reached
<1>8. CASE /\ HeaderAllowed(stream, pos) /\ next = ItemEndOf(stream, pos)
           /\ next \in pos + 1 .. Len(stream) + 1
  <2>1. /\ r.result \in {"ok", "Io"}
        /\ r.result = "ok" =>
             /\ r.ty # "Other" /\ (r.ty = "List" <=> IsList(stream, pos))
             /\ r.next = HeaderEnd(stream, pos) + 1 /\ r.next \in Nat /\ r.len \in Nat
             /\ r.ty = "List" => /\ r.next = pos + 1 /\ r.len = Declared(stream, pos)
                                 /\ next = Behind(stream)[r.next][r.len]
             /\ r.ty # "List" => r.len = ValueLen(stream, pos) /\ next = r.next + r.len
    BY <1>8, ItemHeader
  <2> HIDE DEF r, next, t, at, last
  <2>2. next \in 1 .. Len(stream) + 1 /\ next # 0 /\ Behind(stream)[next][0] = next
    <3>1. next \in 1 .. Len(stream) + 1 /\ next # 0
      BY <1>2, <1>8
    <3> QED
      BY <1>3, <3>1, BehindAt
  <2>3. CASE r.result = "ok" /\ r.ty = "List" /\ GiveItem(r) /\ remaining_tlvs' = 0
    <3>1. /\ pos' = pos + 1 /\ open' = Append(LessItems(1), Opened(r)) /\ item' = NoItem
          /\ pc' = "program" /\ result' = "ok" /\ remaining_bytes' = 0 /\ messages' = messages
          /\ call = "next"
      BY <1>2, <2>1, <2>3 DEF GiveItem
    <3>2. /\ ListsInPlace' /\ Reached(Len(open))' = Behind(stream)[pos + 1][0]
          /\ open' # << >>
      BY <1>1, <1>3, <1>4, <1>8, <2>1, <2>2, <2>3, <3>1, ListOpened DEF next, t, at, last
    <3>3. pos + 1 \in 1 .. Len(stream) + 1
      BY <1>2, <1>8
    <3>4. Behind(stream)[pos + 1][0] = pos + 1
      BY <1>3, <3>3, BehindAt
    <3>5. From' = pos + 1 /\ Owed' = 0
      BY <1>2, <2>3, <3>1 DEF From, Owed, NoItem
    <3>6. Somewhere'
      BY <1>1, <1>2, <3>2, <3>3, <3>4, <3>5 DEF Somewhere, Inside
    <3>7. ItemInPlace' /\ NoAlarm'
      BY <3>1 DEF ItemInPlace, NoAlarm, NoItem
    <3> QED
      BY <3>1, <3>2, <3>6, <3>7 DEF Placed
  <2>4. CASE r.result = "ok" /\ r.ty # "List" /\ GiveItem(r) /\ remaining_tlvs' = 0
    <3>1. /\ pos' = r.next /\ open' = LessItems(1) /\ item' = [at |-> pos, len |-> r.len]
          /\ pc' = "program" /\ result' = "ok" /\ remaining_bytes' = 0 /\ messages' = messages
          /\ call = "next"
      BY <1>2, <2>4 DEF GiveItem
    <3>2. /\ ListsInPlace' /\ open' # << >> /\ Len(open') = last
          /\ Reached(Len(open))' = next
          /\ Innermost.at' = at /\ Taken(Len(open))' = t + 1
      BY <1>6, <3>1
    <3>3. item'.at = pos /\ item'.len = r.len
      BY <3>1
    <3>4. From' = next /\ Owed' = 0
      BY <2>1, <2>4, <3>1, <3>3 DEF From, Owed
    <3>5. Somewhere'
      BY <1>1, <2>2, <3>2, <3>4 DEF Somewhere, Inside
    <3>6. ItemInPlace'
      <4>1. pos = Child(Innermost.at, Taken(Len(open)))'
        <5>1. t + 1 - 1 = t
          BY <1>7
        <5>2. Child(Innermost.at, Taken(Len(open)))'
                = Behind(stream)[Innermost.at' + 1][Taken(Len(open))' - 1]
          BY <1>1 DEF Child
        <5> QED
          BY <1>4, <1>7, <3>2, <5>1, <5>2
      <4> QED
        BY <1>1, <2>1, <2>4, <3>1, <3>2, <3>3, <4>1 DEF ItemInPlace
    <3>7. NoAlarm'
      BY <3>1 DEF NoAlarm
    <3> QED
      BY <3>1, <3>2, <3>5, <3>6, <3>7 DEF Placed
  <2>5. CASE /\ r.result = "ok" /\ RefuseItem(r)
             /\ remaining_tlvs' = (IF r.ty = "List" THEN r.len ELSE 0)
    <3>1. /\ pos' = r.next /\ open' = LessItems(1) /\ item' = NoItem
          /\ pc' = "program" /\ result' = "UnexpectedValue" /\ messages' = messages
          /\ remaining_bytes' = (IF r.ty = "List" THEN 0 ELSE r.len)
      BY <1>2, <2>5 DEF RefuseItem
    <3>2. /\ ListsInPlace' /\ open' # << >> /\ Len(open') = last
          /\ Reached(Len(open))' = next
      BY <1>6, <3>1
    <3>3. From' = pos' + remaining_bytes' /\ Owed' = remaining_tlvs'
      <4>1. item'.len = 0
        BY <3>1 DEF NoItem
      <4>2. pos' \in Nat /\ remaining_bytes' \in Nat
        BY <2>1, <2>5, <3>1
      <4> QED
        BY <3>1, <4>1, <4>2 DEF From, Owed
    <3>4. Behind(stream)[From'][Owed'] = next /\ From' \in 1 .. Len(stream) + 1
      <4>1. CASE r.ty = "List"
        <5>1. From' = pos + 1 /\ Owed' = r.len
          BY <1>2, <2>1, <2>5, <3>1, <3>3, <4>1
        <5> QED
          BY <1>2, <1>8, <2>1, <2>5, <4>1, <5>1
      <4>2. CASE r.ty # "List"
        <5>1. From' = next /\ Owed' = 0
          BY <1>2, <2>1, <2>5, <3>1, <3>3, <4>2
        <5> QED
          BY <2>2, <5>1
      <4> QED
        BY <4>1, <4>2
    <3>5. Somewhere'
      BY <1>1, <2>2, <3>2, <3>4 DEF Somewhere, Inside
    <3>6. ItemInPlace' /\ NoAlarm'
      BY <3>1 DEF ItemInPlace, NoAlarm, NoItem
    <3> QED
      BY <3>1, <3>2, <3>5, <3>6 DEF Placed
  <2>6. CASE Fail("Io")
    BY <1>1, <2>6, PlacedFail
  <2> QED
    BY <1>5, <2>1, <2>3, <2>4, <2>5, <2>6
<1>9. CASE /\ last = 1 /\ open[last].len = 1 /\ messages > 0
           /\ pos = EndMark(stream, Message(stream, messages))
  <2>1. /\ pos \in 1 .. Len(stream) /\ stream[pos] = 0
        /\ Message(stream, messages + 1) = pos + 1
    BY <1>9, CurrentMark DEF Placed
  <2>2. /\ r.result \in {"Io", "EndOfSmlMessage"}
        /\ r.result = "EndOfSmlMessage" => r.next = pos + 1
    BY <2>1, AtMark
  <2> HIDE DEF r, next, t, at
  <2>3. CASE /\ call = "next_end" /\ EndMarker(r) /\ remaining_tlvs' = 0
             /\ r.result = "EndOfSmlMessage"
    <3>1. /\ pos' = pos + 1 /\ open' = LessItems(1) /\ pc' = "program" /\ result' = "ok"
          /\ remaining_bytes' = 0 /\ item' = NoItem /\ messages' = messages
      BY <1>2, <2>2, <2>3 DEF EndMarker
    <3>2. /\ ListsInPlace' /\ open' # << >> /\ Len(open') = 1
          /\ Innermost.len' = Innermost.len - 1
      BY <1>6, <1>9, <3>1
    <3>3. Innermost.len' = 0 /\ open'[1].len = 0
      BY <1>9, <3>2 DEF Innermost
    <3>4. AtTheEnd'
      BY <3>1, <3>2, <3>3 DEF AtTheEnd, NoItem
    <3>5. From' = pos + 1 /\ Owed' = 0
      BY <1>2, <2>3, <3>1 DEF From, Owed, NoItem
    <3>6. Somewhere'
      <4>1. pos + 1 \in 1 .. Len(stream) + 1
        BY <1>2, <2>1
      <4>2. Between'
        BY <1>1, <2>1, <3>1, <3>4, <3>5 DEF Between
      <4> QED
        BY <1>1, <3>5, <4>1, <4>2 DEF Somewhere
    <3>7. ItemInPlace' /\ NoAlarm'
      BY <3>1 DEF ItemInPlace, NoAlarm, NoItem
    <3>8. AtNextMessage'
      BY <1>1, <2>1, <2>3, <3>1, <3>2, <3>3 DEF AtNextMessage
    <3> QED
      BY <3>1, <3>2, <3>6, <3>7, <3>8 DEF Placed
  <2>4. CASE Fail(r.result)
    BY <1>1, <2>2, <2>4, PlacedFail
  <2> QED
    BY <1>5, <2>2, <2>3, <2>4
<1> QED
  BY <1>4, <1>8, <1>9

LEMMA PlacedReadMessage ==
    ASSUME Typed, Placed, IsWellFormed(stream), ReadHeader, ~Inside
    PROVE  /\ Placed'
           /\ call = "next_end" /\ pc' = "program" /\ result' = "ok" => AtNextMessage'
<1> DEFINE r == ReadTlvInner(pos)
<1>1. /\ pc = "skip_tlvs" /\ num = 0 /\ call \in {"next", "next_end", "read_list"}
      /\ UNCHANGED <<stream, arrived, call>>
  BY DEF ReadHeader, Typed, Serving, TypeOK
<1>2. /\ From = pos /\ Owed = 0 /\ pos \in Nat /\ remaining_bytes = 0 /\ item = NoItem
      /\ pos \in 1 .. Len(stream) + 1 /\ Somewhere
  BY <1>1, ServingFrom
<1>3. Between
  BY <1>2 DEF Somewhere, MarkOwed
<1>4. call = "read_list" /\ open = << >> /\ pos = Message(stream, messages + 1)
  BY <1>1, <1>2, <1>3 DEF Between, AtTheEnd, Typed, Serving
<1>5. /\ stream \in Seq(Byte) /\ arrived \in 0 .. Len(stream) /\ pos \in 1 .. arrived + 1
  BY TypedFacts
<1>6. \/ GiveMessage(r) /\ remaining_tlvs' = 0 /\ r.result = "ok"
      \/ r.result = "ok" /\ r.ty # "List"
      \/ r.result # "ok" /\ Fail(r.result)
  BY <1>4 DEF ReadHeader, GiveItem, RefuseItem
<1>7. messages \in 0 .. MessageCount(stream)
  BY DEF Placed, ListsInPlace
<1>8. CASE messages = MessageCount(stream)
  <2>1. pos = Len(stream) + 1
    BY <1>4, <1>5, <1>8, MessageCountIs
  <2>2. pos = arrived + 1
    BY <1>5, <2>1
  <2>3. r.result = "Io"
    BY <1>5, <2>2, AnyHeader
  <2> HIDE DEF r
  <2>4. Fail("Io")
    BY <1>6, <2>3
  <2> QED
    BY <1>1, <2>4, PlacedFail
<1>9. CASE messages # MessageCount(stream)
  <2>1. messages + 1 \in 1 .. MessageCount(stream) /\ messages \in Nat
    <3>1. MessageCount(stream) \in Nat
      BY <1>5, MessageCountIs
    <3> QED
      BY <1>7, <1>9, <3>1
  <2>2. IsMessage(stream, pos) /\ pos \in 1 .. Len(stream)
    BY <1>4, <1>5, <2>1, MessageCountIs
  <2>3. HeaderAllowed(stream, pos) /\ IsList(stream, pos)
    BY <2>2 DEF IsMessage
  <2>4. /\ r.result \in {"ok", "Io"}
        /\ r.result = "ok" =>
             r.ty = "List" /\ r.next = pos + 1 /\ r.len = Declared(stream, pos)
    BY <1>5, <2>3, KnownHeader DEF Amount, HeaderAllowed
  <2> HIDE DEF r
  <2>5. CASE GiveMessage(r) /\ remaining_tlvs' = 0 /\ r.result = "ok"
    <3>1. /\ pos' = pos + 1 /\ open' = <<Opened(r)>> /\ messages' = messages + 1
          /\ pc' = "program" /\ result' = "ok" /\ remaining_bytes' = 0 /\ item' = NoItem
      BY <1>2, <2>4, <2>5 DEF GiveMessage
    <3>2. /\ Len(open') = 1 /\ open' # << >> /\ open'[1].at = pos
          /\ open'[1].size = Declared(stream, pos) /\ open'[1].size - open'[1].len = 0
      <4>1. Len(open') = 1 /\ open'[1] = Opened(r)
        BY <3>1
      <4>2. /\ Opened(r).at = pos /\ Opened(r).size = Declared(stream, pos)
            /\ Opened(r).size - Opened(r).len = 0
        <5>1. Declared(stream, pos) \in Nat
          BY <1>2, <1>5, <2>2, <2>3, DeclaredNat DEF HeaderAllowed
        <5> QED
          BY <2>4, <2>5, <5>1 DEF Opened
      <4> QED
        BY <4>1, <4>2
    <3>3. ListsInPlace'
      <4>1. messages' \in 0 .. MessageCount(stream') /\ messages' > 0
        BY <1>1, <2>1, <3>1
      <4>2. open'[1].at = Message(stream', messages')
        BY <1>1, <1>4, <3>1, <3>2
      <4>3. /\ \A i \in 1 .. Len(open') : i = 1
            /\ \A i \in 2 .. Len(open') : FALSE
        BY <3>2
      <4> QED
        BY <1>1, <2>2, <2>3, <3>2, <4>1, <4>2, <4>3 DEF ListsInPlace
    <3>4. From' = pos + 1 /\ Owed' = 0
      BY <1>2, <2>5, <3>1 DEF From, Owed, NoItem
    <3>5. pos + 1 \in 1 .. Len(stream) + 1
      BY <1>5, <2>2
    <3>6. Reached(Len(open))' = pos + 1
      <4>1. Taken(Len(open))' = 0
        BY <3>2 DEF Taken
      <4>2. Reached(Len(open))' = Behind(stream)[open'[1].at + 1][Taken(Len(open))']
        BY <1>1, <3>2 DEF Reached
      <4>3. Behind(stream)[pos + 1][0] = pos + 1
        BY <1>5, <3>5, BehindAt
      <4> QED
        BY <3>2, <4>1, <4>2, <4>3
    <3>7. Somewhere'
      <4>1. Behind(stream)[pos + 1][0] = pos + 1
        BY <1>5, <3>5, BehindAt
      <4> QED
        BY <1>1, <1>2, <3>2, <3>4, <3>5, <3>6, <4>1 DEF Somewhere, Inside
    <3>8. ItemInPlace' /\ NoAlarm'
      BY <3>1 DEF ItemInPlace, NoAlarm, NoItem
    <3> QED
      BY <1>4, <3>1, <3>3, <3>7, <3>8 DEF Placed
  <2>6. CASE Fail("Io")
    BY <1>1, <2>6, PlacedFail
  <2> QED
    BY <1>6, <2>4, <2>5, <2>6
<1> QED
  BY <1>8, <1>9

WellPlaced == Typed /\ (IsWellFormed(stream) => Placed)

LEMMA PlacedInit == Init => WellPlaced
<1> SUFFICES ASSUME Init, IsWellFormed(stream) PROVE Placed
  BY TypedInit DEF WellPlaced
<1>1. Typed
  BY TypedInit
<1>2. stream \in Seq(Byte)
  BY <1>1, TypedFacts
<1>3. MessageCount(stream) \in 0 .. Len(stream) /\ 0 \in 0 .. MessageCount(stream)
  BY <1>2, MessageCountIs
<1>4. /\ pos = 1 /\ remaining_bytes = 0 /\ remaining_tlvs = 0 /\ open = << >> /\ item = NoItem
      /\ pc = "program" /\ result = "ok" /\ messages = 0
  BY DEF Init
<1>5. ListsInPlace
  BY <1>3, <1>4 DEF ListsInPlace
<1>6. ItemInPlace /\ NoAlarm
  BY <1>4 DEF ItemInPlace, NoAlarm, NoItem
<1>7. From = 1 /\ Owed = 0
  BY <1>4 DEF From, Owed, NoItem
<1>8. Message(stream, messages + 1) = 1
  BY <1>4, MessageIs
<1>9. Somewhere
  <2>1. 1 \in 1 .. Len(stream) + 1
    BY <1>2
  <2> QED
    BY <1>4, <1>7, <1>8, <2>1 DEF Somewhere, Between, AtTheEnd
<1> QED
  BY <1>5, <1>6, <1>9 DEF Placed

LEMMA StreamStays ==
    ASSUME [Next]_vars
    PROVE  stream' = stream
BY DEF Next, vars, ReadList, ListNext, NextEnd, SkipNow, Call, Skip, ReadItem, DropItem, DropList,
       SkipBytes, SkipTlv, SkipNowEnds, ReadHeader

LEMMA PlacedStep ==
    ASSUME Typed, IsWellFormed(stream), Placed, [Next]_vars
    PROVE  /\ Placed'
           /\ call = "next_end" /\ pc = "skip_tlvs" /\ pc' = "program" /\ result' = "ok"
                => AtNextMessage'
<1>1. CASE UNCHANGED vars
  BY <1>1 DEF Placed, ListsInPlace, ItemInPlace, NoAlarm, Somewhere, Inside, Between, MarkOwed,
              AtTheEnd, From, Owed, Reached, Taken, Child, Innermost, vars, reader
<1>2. CASE ReadList \/ ListNext \/ NextEnd \/ SkipNow
  <2>1. pc # "skip_tlvs"
    BY <1>2 DEF ReadList, ListNext, NextEnd, SkipNow, Call
  <2> QED
    BY <1>2, <2>1, PlacedCall
<1>3. CASE (\E n \in 1 .. 2 : Skip(n)) \/ ReadItem \/ DropItem \/ DropList
  <2>1. pc # "skip_tlvs"
    BY <1>3 DEF Skip, ReadItem, DropItem, DropList
  <2> QED
    BY <1>3, <2>1, PlacedSkip, PlacedItem, PlacedDropList
<1>4. CASE SkipBytes
  <2>1. pc # "skip_tlvs"
    BY <1>4 DEF SkipBytes
  <2> QED
    BY <1>4, <2>1, PlacedSkipBytes
<1>5. CASE SkipTlv
  BY <1>5, PlacedSkipTlv
<1>6. CASE SkipNowEnds
  <2>1. call = "skip_now"
    BY <1>6 DEF SkipNowEnds
  <2> QED
    BY <1>6, <2>1, PlacedSkipNowEnds
<1>7. CASE ReadHeader
  BY <1>7, PlacedReadItem, PlacedReadMessage
<1> QED
  BY <1>1, <1>2, <1>3, <1>4, <1>5, <1>6, <1>7 DEF Next

LEMMA WellPlacedStep == WellPlaced /\ [Next]_vars => WellPlaced'
<1> SUFFICES ASSUME WellPlaced, [Next]_vars PROVE WellPlaced'
  OBVIOUS
<1>1. Typed' /\ stream' = stream
  BY TypedStep, StreamStays DEF WellPlaced
<1>2. IsWellFormed(stream) => Placed'
  BY PlacedStep DEF WellPlaced
<1> QED
  BY <1>1, <1>2 DEF WellPlaced

LEMMA AlwaysWellPlaced == Spec => []WellPlaced
BY PlacedInit, WellPlacedStep, PTL DEF Spec

LEMMA WellFormedIs == stream \in WellFormed => IsWellFormed(stream)
BY DEF WellFormed

(* Of a well-formed document, whatever the program reads, skips, refuses   *)
(* or drops, it is given the items it asks for: nothing Drop, List::skip,  *)
(* skip_now or skip_tlvs do moves the reader off the item structure.       *)
THEOREM ReadsInOrder == Spec => []ItemsInOrder
<1>1. WellPlaced => ItemsInOrder
  BY WellFormedIs DEF WellPlaced, Placed, ListsInPlace, ItemInPlace, ItemsInOrder
<1> QED
  BY <1>1, AlwaysWellPlaced, PTL

(* Nor does it ever get an error that blames the document.                 *)
THEOREM GoodDocumentsPass == Spec => []NoFalseAlarm
<1>1. WellPlaced => NoFalseAlarm
  BY WellFormedIs DEF WellPlaced, Placed, NoAlarm, NoFalseAlarm
<1> QED
  BY <1>1, AlwaysWellPlaced, PTL

(* next_end succeeds at the end marker of a message and nowhere else, and  *)
(* then nothing is left to skip.                                           *)
THEOREM MessagesEndTogether == Spec => EndIsTheEnd
<1> DEFINE ends == (stream \in WellFormed /\ call = "next_end" /\ pc = "skip_tlvs"
                     /\ pc' = "program" /\ result' = "ok")
                   => /\ Len(open') = 1 /\ open'[1].len = 0
                      /\ pos' = Message(stream, messages + 1)
                      /\ remaining_bytes' = 0 /\ remaining_tlvs' = 0
<1>1. WellPlaced /\ [Next]_vars => [ends]_vars
  <2> SUFFICES ASSUME WellPlaced, [Next]_vars,
                      stream \in WellFormed, call = "next_end", pc = "skip_tlvs",
                      pc' = "program", result' = "ok"
               PROVE  /\ Len(open') = 1 /\ open'[1].len = 0
                      /\ pos' = Message(stream, messages + 1)
                      /\ remaining_bytes' = 0 /\ remaining_tlvs' = 0
    OBVIOUS
  <2>1. IsWellFormed(stream)
    BY WellFormedIs
  <2>2. AtNextMessage' /\ stream' = stream
    BY <2>1, PlacedStep, StreamStays DEF WellPlaced
  <2>3. messages' = messages
    <3>1. ReadHeader \/ SkipTlv
      BY DEF Next, vars, ReadList, ListNext, NextEnd, SkipNow, Call, Skip, ReadItem, DropItem,
             DropList, SkipBytes, SkipNowEnds
    <3> QED
      BY <3>1 DEF ReadHeader, GiveMessage, GiveItem, RefuseItem, EndMarker, SkipTlv, Fail
  <2> QED
    BY <2>2, <2>3 DEF AtNextMessage
<1> HIDE DEF ends
<1>2. Spec => [][ends]_vars
  BY <1>1, AlwaysWellPlaced, PTL DEF Spec
<1> QED
  BY <1>2 DEF EndIsTheEnd, ends
=============================================================================
