--------------------------- MODULE StartSequence ---------------------------
(***************************************************************************)
(* wait_for_start_sequence of modules/rust/sml/src/frame.rs: the automaton *)
(* that looks for the start marker of an SML frame, four escape bytes 1B   *)
(* followed by four bytes 01, in a stream that may begin anywhere.         *)
(***************************************************************************)
EXTENDS Naturals

CONSTANTS Byte,       \* the bytes that are told apart
          Esc,        \* 1B
          One,        \* 01
          None        \* no byte yet

ASSUME StartSequenceAssumption ==
    /\ Esc \in Byte /\ One \in Byte /\ Esc # One
    /\ None \notin Byte

VARIABLES count,      \* the automaton's state: how much of the marker it has seen
          seen        \* history: the bytes read by this call, seen[1] the latest

vars == <<count, seen>>

Marker(i) == IF i <= 4 THEN Esc ELSE One

Window == 1 .. 9

TypeOK ==
    /\ count \in 0 .. 8
    /\ seen \in [Window -> Byte \cup {None}]

Init ==
    /\ count = 0
    /\ seen = [i \in Window |-> None]

(* Mutant: any state of the second half survives another escape byte.      *)
AdvanceKeeps(c, byte) ==
    IF (c < 4 /\ byte = Esc) \/ (c >= 4 /\ byte = One) THEN c + 1
    ELSE IF c >= 4 /\ byte = Esc THEN c
    ELSE 0

(* Mutant: a fifth escape byte starts over.                                *)
AdvanceForgets(c, byte) ==
    IF (c < 4 /\ byte = Esc) \/ (c >= 4 /\ byte = One) THEN c + 1 ELSE 0

(* The automaton's transition on one byte.                                 *)
Advance(c, byte) ==
    IF (c < 4 /\ byte = Esc) \/ (c >= 4 /\ byte = One) THEN c + 1
    ELSE IF c = 4 /\ byte = Esc THEN c
    ELSE 0

(* One turn of the loop, read_u8 and the transition, while count < 8.      *)
Read(byte) ==
    /\ count < 8
    /\ count' = Advance(count, byte)
    /\ seen' = [i \in Window |-> IF i = 1 THEN byte ELSE seen[i - 1]]

(* The call returned; once the frame is read, or has failed, the task      *)
(* calls it again.                                                         *)
Restart ==
    /\ count = 8
    /\ count' = 0
    /\ seen' = [i \in Window |-> None]

Next == Restart \/ \E byte \in Byte : Read(byte)

Spec == Init /\ [][Next]_vars

-----------------------------------------------------------------------------
(* The latest n bytes are the first n bytes of the marker.                 *)
EndsWithMarker(n) == \A i \in 1 .. n : seen[i] = Marker(n + 1 - i)

(* The automaton never claims more than it has seen: in state n the latest *)
(* n bytes are the first n of the marker.  So wait_for_start_sequence      *)
(* returns only right after a whole start marker.                          *)
Sound == EndsWithMarker(count)

(* A marker that does not follow a byte 01 is always found, whatever came  *)
(* before it, any number of surplus escape bytes included.                 *)
FindsMarkerAfterOther == EndsWithMarker(8) /\ seen[9] # One => count = 8

(* A marker is always found ("deterministic finite automata waiting for    *)
(* the start marker", frame.rs:342).                                       *)
FindsMarker == EndsWithMarker(8) => count = 8
=============================================================================
