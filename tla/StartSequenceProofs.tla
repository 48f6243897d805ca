------------------------ MODULE StartSequenceProofs ------------------------
(***************************************************************************)
(* Proofs about StartSequence, for any alphabet of bytes.                  *)
(***************************************************************************)
EXTENDS StartSequence, TLAPS

(* What the automaton has made of the beginning of a marker that does not  *)
(* follow a byte 01: all of it, from the first byte of the second half on; *)
(* in the first half surplus escape bytes may have taken it further.       *)
Keeps ==
    \A n \in 1 .. 8 : EndsWithMarker(n) /\ seen[n + 1] # One => count >= n

IInv == TypeOK /\ Sound /\ Keeps

(* Nothing has been read, nothing is claimed.                              *)
LEMMA InitIInv == Init => IInv
BY StartSequenceAssumption
   DEF Init, IInv, TypeOK, Sound, Keeps, EndsWithMarker, Marker, Window

(* A byte read by wait_for_start_sequence keeps the invariant.             *)
LEMMA ReadIInv ==
    ASSUME NEW byte \in Byte, IInv, Read(byte)
    PROVE  IInv'
<1> USE StartSequenceAssumption DEF Window, Marker
<1>1. /\ count \in 0 .. 7 /\ count' = Advance(count, byte)
      /\ seen \in [Window -> Byte \cup {None}]
      /\ seen' \in [Window -> Byte \cup {None}]
      /\ seen'[1] = byte
      /\ \A i \in 1 .. 8 : seen'[i + 1] = seen[i]
  BY DEF IInv, TypeOK, Read
<1>2. TypeOK'
  BY <1>1 DEF TypeOK, Advance
<1>3. Sound'
  <2>1. \A i \in 1 .. count : seen[i] = Marker(count + 1 - i)
    BY DEF IInv, Sound, EndsWithMarker
  <2>2. ASSUME NEW i \in 1 .. count' PROVE seen'[i] = Marker(count' + 1 - i)
    <3>1. CASE i = 1
      BY <1>1, <2>2, <3>1 DEF Advance
    <3>2. CASE i # 1
      <4>1. i - 1 \in 1 .. 8 /\ seen'[i] = seen[i - 1]
        BY <1>1, <1>2, <2>2, <3>2 DEF TypeOK
      <4>2. i - 1 \in 1 .. count
        BY <1>1, <2>2, <3>2 DEF Advance
      <4>3. seen[i - 1] = Marker(count + 1 - (i - 1))
        BY <2>1, <4>2
      <4>4. QED
        BY <1>1, <2>2, <4>1, <4>2, <4>3 DEF Advance
    <3>3. QED
      BY <3>1, <3>2
  <2>3. QED
    BY <2>2 DEF Sound, EndsWithMarker
<1>4. Keeps'
  <2> SUFFICES ASSUME NEW n \in 1 .. 8, EndsWithMarker(n)', seen'[n + 1] # One
               PROVE  count' >= n
    BY DEF Keeps
  <2>1. byte = Marker(n)
    BY <1>1 DEF EndsWithMarker
  (* Sound: only after a 01 can the automaton be beyond state 4.           *)
  <2>2. count >= 5 => seen[1] = One
    BY <1>1 DEF IInv, Sound, EndsWithMarker
  <2>3. CASE n = 1
    BY <1>1, <2>1, <2>2, <2>3 DEF Advance
  <2>4. CASE n > 1
    <3>1. \A i \in 1 .. n - 1 : seen[i] = Marker(n - 1 + 1 - i)
      <4> SUFFICES ASSUME NEW i \in 1 .. n - 1 PROVE seen[i] = Marker(n - 1 + 1 - i)
        OBVIOUS
      <4>1. seen'[i + 1] = seen[i] /\ i + 1 \in 1 .. n
        BY <1>1
      <4>2. QED
        BY <4>1 DEF EndsWithMarker
    <3>2. seen[n] # One
      BY <1>1
    <3>3. count >= n - 1
      <4>1. n - 1 \in 1 .. 8 /\ n - 1 + 1 = n
        BY <2>4
      <4>2. EndsWithMarker(n - 1)
        BY <3>1 DEF EndsWithMarker
      <4>3. QED
        BY <3>2, <4>1, <4>2 DEF IInv, Keeps
    <3>4. CASE n <= 4
      <4>1. seen[1] = Esc
        BY <2>4, <3>1, <3>4
      <4>2. QED
        BY <1>1, <2>1, <2>2, <3>3, <3>4, <4>1 DEF Advance
    <3>5. CASE n >= 5
      BY <1>1, <2>1, <3>3, <3>5 DEF Advance
    <3>6. QED
      BY <3>4, <3>5
  <2>5. QED
    BY <2>3, <2>4
<1>5. QED
  BY <1>2, <1>3, <1>4 DEF IInv

(* The invariant always holds.                                             *)
LEMMA AlwaysIInv == Spec => []IInv
<1>1. ASSUME IInv, Restart PROVE IInv'
  BY <1>1, StartSequenceAssumption
     DEF Restart, IInv, TypeOK, Sound, Keeps, EndsWithMarker, Marker, Window
<1>2. ASSUME IInv, UNCHANGED vars PROVE IInv'
  BY <1>2 DEF vars, IInv, TypeOK, Sound, Keeps, EndsWithMarker
<1>3. IInv /\ [Next]_vars => IInv'
  BY <1>1, <1>2, ReadIInv DEF Next
<1>4. QED
  BY <1>3, InitIInv, PTL DEF Spec

(* wait_for_start_sequence returns only right after a whole start marker.  *)
THEOREM StartSound == Spec => []Sound
<1>1. IInv => Sound
  BY DEF IInv
<1>2. QED
  BY <1>1, AlwaysIInv, PTL

(* A start marker that does not follow a byte 01 is always found.          *)
THEOREM StartFound == Spec => []FindsMarkerAfterOther
<1>1. IInv => FindsMarkerAfterOther
  BY DEF IInv, TypeOK, Keeps, FindsMarkerAfterOther
<1>2. QED
  BY <1>1, AlwaysIInv, PTL
=============================================================================
