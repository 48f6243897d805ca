------------------------------ MODULE MCSmlTask ------------------------------
(***************************************************************************)
(* SmlTask with every frame of up to two messages: one of up to two        *)
(* entries and one of up to one, or a single one of up to three.           *)
(***************************************************************************)
EXTENDS SmlTask, SequencesExt

CONSTANTS v, w

MCNumbers == {v, w}

(* Each way an entry can fare; power and energy with one value that is good*)
(* at least.                                                               *)
Sampled ==
    [name : {"power"}, value : {v, w, "negative", "unreadable"}]
      \cup [name : {"energy"}, value : {v, "text"}]
      \cup [name : {"other"}, value : {"text", "unreadable"}]
      \cup [name : {"long"}, value : {"unreadable"}]

Lists(n) == [kind : {"list"}, entries : BoundedSeq(Sampled, n), intact : BOOLEAN]
Others == [kind : {"other", "unknown"}, entries : {<< >>}, intact : BOOLEAN]

MCFrames ==
    LET Small == Lists(1) \cup Others
        Payloads == {<< >>} \cup {<<x>> : x \in Lists(3)}
                      \cup {<<x, y>> : x \in Lists(2) \cup Others, y \in Small}
                      \cup {<<x, y>> : x \in Small, y \in Lists(2)}
    IN  [messages : Payloads, intact : BOOLEAN]
=============================================================================
