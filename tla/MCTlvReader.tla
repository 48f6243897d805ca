----------------------------- MODULE MCTlvReader -----------------------------
(***************************************************************************)
(* TlvReader on two well-formed documents of two messages each and five    *)
(* others, all cut off anywhere.                                           *)
(* Values hold bytes that would pass for end markers and headers, so that  *)
(* a reader that is off by one byte reads nonsense.                        *)
(***************************************************************************)
EXTENDS TlvReader

(* A nested list between two strings, one of them longer than the four     *)
(* bytes skip_bytes reads at a time; then a boolean.                       *)
Nested == << 117,  6, 0, 114, 5, 1, 0,  114, 98, 113, 1,  2, 0,  82, 127,  0,
             114,  66, 1,  0 >>

(* Lists in lists, an empty list, and a header of two bytes.               *)
Deep == << 115,  114, 113, 99, 0, 0, 112,  128, 5, 0, 113, 1,  0,
           115, 1, 114, 98, 9, 1,  0 >>

ASSUME IsWellFormed(Nested) /\ IsWellFormed(Deep)

(* An end marker in the middle of a message, a value shorter than its      *)
(* header, a type SML does not have, and a header that goes on with a type.*)
MCDocuments == {Nested, Deep} \cup
    { << 116, 98, 5, 0, 1, 114, 1, 0 >>, << 115, 1, 96, 0 >>, << 115, 1, 17, 0 >>,
      << 115, 1, 128, 80, 0 >>, << 1, 0 >> }

(* A list of 16 null strings, its header F1 00.                            *)
LongList == { << 241, 0 >> \o [i \in 1 .. 16 |-> 1] }

(* A string whose header of four bytes announces 4096 + 6 bytes.           *)
HugeString == { << 114, 129, 128, 128, 6, 1, 2, 0 >> }
=============================================================================
