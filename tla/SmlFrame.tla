------------------------------ MODULE SmlFrame ------------------------------
(***************************************************************************)
(* Frames of a meter on their way to read_frame: a sender that encodes     *)
(* payloads as SML frames, an optical line that garbles, loses, repeats    *)
(* and inserts words, and the CheckingReader at its end.  A behaviour is a *)
(* series of frame attempts, each with a reader of its own, which begins   *)
(* right behind a start marker.                                            *)
(***************************************************************************)
EXTENDS CheckingReader, SequencesExt

CONSTANTS Data,       \* words of payload other than 1B 1B 1B 1B
          MaxWords,   \* bound: words of a frame's payload
          MaxFaults   \* bound: faults of the line per attempt

VARIABLES line,       \* the words still to arrive
          sent,       \* history: the attempt's frame and those sent behind it
          faults      \* the faults of the line in this attempt

vars == <<reader, line, sent, faults>>

PayloadWord == {Esc} \cup {DataWord(d) : d \in Data}

(* A payload is a whole number of words of which the footer declares fill  *)
(* bytes to be cut off.  Senders that declare nonsense are among them.     *)
Frame == [words : BoundedSeq(PayloadWord, MaxWords), fill : 0 .. 4]

Escaped(words) ==
    FlattenSeq([i \in 1 .. Len(words) |->
                  IF words[i] = Esc THEN <<Esc, Esc>> ELSE <<words[i]>>])

Summed(f) == Escaped(f.words) \o <<Esc, Trailer(f.fill)>>

(* What follows the start marker.                                          *)
Encode(f) == Escaped(f.words) \o <<Esc, Footer(f.fill, Summed(f))>>

Noise == PayloadWord \cup {Start, Footer(0, << >>)}

Init ==
    /\ ReaderInit
    /\ \E f \in Frame : sent = <<f>> /\ line = Encode(f)
    /\ faults = 0

(* Behind a frame the next one follows, start marker first.                *)
SendNext ==
    /\ line = << >> /\ ~has_ended
    /\ \E f \in Frame :
          /\ Len(f.words) <= 1 /\ f.fill = 0
          /\ line' = <<Esc, Start>> \o Encode(f)
          /\ sent' = Append(sent, f)
    /\ UNCHANGED <<reader, faults>>

(* The rest of a word that arrives as it was sent ...                      *)
Arrive ==
    /\ line # << >>
    /\ ReadWord(Head(line))
    /\ line' = Tail(line)
    /\ UNCHANGED <<sent, faults>>

(* ... is garbled, or makes place for an inserted or a repeated word.      *)
Garble ==
    /\ line # << >> /\ faults < MaxFaults
    /\ \E w \in Noise \cup {Head(line)} : ReadWord(w)
    /\ line' \in {line, Tail(line)}
    /\ faults' = faults + 1
    /\ UNCHANGED sent

Lose ==
    /\ line # << >> /\ faults < MaxFaults
    /\ line' = Tail(line)
    /\ faults' = faults + 1
    /\ UNCHANGED <<reader, sent>>

(* Part of a word arrives.                                                 *)
ArrivePart ==
    /\ line # << >>
    /\ \E n \in 1 .. WordLen : ReadPart(n)
    /\ UNCHANGED <<line, sent, faults>>

Break ==
    /\ faults < MaxFaults
    /\ ReadError
    /\ faults' = faults + 1
    /\ UNCHANGED <<line, sent>>

(* The consumer asks for up to len bytes.                                  *)
Consume ==
    /\ Returned \/ \E len \in 1 .. WordLen : Return(len)
    /\ UNCHANGED <<line, sent, faults>>

(* read_frame is over, with an error or without; after the next start      *)
(* marker a new CheckingReader reads the next frame.                       *)
NextAttempt ==
    /\ has_ended
    /\ state' = "ReadBuf"
    /\ returned' = 0 /\ lastone' = FALSE
    /\ in_esc' = FALSE
    /\ inner' = [i \in {0, 1} |-> NoWord]
    /\ read' = [i \in {0, 1} |-> 0]
    /\ swapped' = FALSE
    /\ digest' = << >>
    /\ verdict' = "open"
    /\ out' = << >>
    /\ \E f \in Frame : sent' = <<f>> /\ line' = Encode(f)
    /\ faults' = 0

Next ==
    SendNext \/ Arrive \/ Garble \/ Lose \/ ArrivePart \/ Break \/ Consume
      \/ NextAttempt

Spec == Init /\ [][Next]_vars

(* The meter goes on sending, and the task polls the reader as bytes come. *)
Fairness == WF_vars(SendNext) /\ WF_vars(Arrive) /\ WF_vars(Consume)

FairSpec == Spec /\ Fairness

-----------------------------------------------------------------------------
(* Properties.                                                             *)

Valid(f) == f.fill <= 3 /\ f.fill <= WordLen * Len(f.words)

(* The bytes a frame carries: its words without the fill bytes.            *)
Payload(f) ==
    [i \in 1 .. WordLen * Len(f.words) - f.fill |->
       <<f.words[((i - 1) \div WordLen) + 1], ((i - 1) % WordLen) + 1>>]

(* Whatever the line did to the words, a frame that poll_read ends without *)
(* an error is, byte for byte, the payload of a frame that was sent: two   *)
(* frames are never spliced into one, escapes are undone, fill bytes cut.  *)
CleanIsSent ==
    verdict = "clean" => \E f \in Range(sent) : Valid(f) /\ out = Payload(f)

(* As long as the line is good, the consumer sees only bytes of the        *)
(* payload, in order, and never a fill byte, although the footer that      *)
(* tells how many there are arrives after the word that holds them.        *)
NoFillByteLeaks ==
    faults = 0 /\ Valid(sent[1]) => IsPrefix(out, Payload(sent[1]))

(* has_ended becomes true with the last byte of the payload, no earlier    *)
(* and no later: read_frame's loop neither misses the last message nor     *)
(* tries to read one behind the end.                                       *)
EndIsExact ==
    faults = 0 /\ Valid(sent[1]) /\ Payload(sent[1]) # << >> =>
        (has_ended <=> out = Payload(sent[1]))

(* The inner reader is never asked to read nothing: sml_read_cb would      *)
(* return no byte and poll_read would be Pending for ever.                 *)
NeverReadsNothing == state = "ReadBuf" => read[First] < WordLen

(* Nothing is returned from a word that a footer may yet shorten: data     *)
(* that has arrived last stays in the second buffer until the next word is *)
(* known.                                                                  *)
LastWordHeldBack ==
    state = "ReturnBuf" /\ ~lastone => read[Second] = WordLen

(* Every attempt ends, whatever word got lost: at the latest the start     *)
(* marker of the next frame, being no known escape sequence, stops it.     *)
AttemptEnds == ~has_ended ~> has_ended
=============================================================================
