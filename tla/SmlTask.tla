------------------------------- MODULE SmlTask -------------------------------
(***************************************************************************)
(* The SML task: task (sml/src/lib.rs) looks for a start marker, read_frame*)
(* (sml/src/frame.rs) reads the frame's messages and compares their        *)
(* checksums, MessageCallback (smartmeter/src/lib.rs) picks two values out *)
(* of them and calls the application once the frame has proved valid.      *)
(*                                                                         *)
(* StartSequence, SmlFrame and TlvReader say how a frame is found, checked *)
(* and taken apart; here a frame is a sequence of messages, and damage is  *)
(* something a checksum notices: the frame's before the last word is given *)
(* out, a message's when it is compared.                                   *)
(***************************************************************************)
EXTENDS Integers, Sequences

CONSTANTS Numbers,  \* values with their scaler that fit the application's u64
          Frames,   \* frames that may arrive
          NoValue   \* Option::None

(* How an entry's value reads: as a number, as one below zero, as a string *)
(* or boolean, or not at all, like a scaler or a value of no known type.   *)
Value == Numbers \cup {"negative", "text", "unreadable"}
Entry == [name : {"power", "energy", "other", "long"}, value : Value]

(* A message body: a list response, another response, or no known one.     *)
Message == [kind : {"list", "other", "unknown"}, entries : Seq(Entry), intact : BOOLEAN]
Frame == [messages : Seq(Message), intact : BOOLEAN]

ASSUME SmlTaskAssumption ==
    /\ Frames \subseteq Frame
    /\ NoValue \notin Numbers /\ "unreadable" \notin Numbers

NoFrame == [messages |-> << >>, intact |-> FALSE]

VARIABLES pc,             \* where the task is
          frame,          \* the frame being read
          m, e,           \* the message in it, the entry in that
          digest,         \* what the message's CheckingReader has summed up
          crc_calc,       \* what its last sum was taken over
          active_power, active_energy,   \* of MessageCallback
          reported        \* history: the application's callback, this frame

callback == <<active_power, active_energy>>
vars == <<pc, frame, m, e, digest, crc_calc, callback, reported>>

Optional == Numbers \cup {NoValue}
Reading == {"message", "entries", "body", "skipped", "trailer"}

(* Message k up to its body's tag, the rest of the body, what is behind.   *)
Part == (Nat \ {0}) \X {"head", "rest", "trailer"}

TypeOK ==
    /\ pc \in Reading \cup {"wait", "valid", "invalid", "finished"}
    /\ frame \in Frame
    /\ m \in 1 .. Len(frame.messages) + 1 /\ e \in Nat \ {0}
    /\ digest \subseteq Part /\ crc_calc \subseteq Part
    /\ active_power \in Optional /\ active_energy \in Optional
    /\ reported \in Seq([power : Numbers, energy : Numbers])

Init ==
    /\ pc = "wait"
    /\ frame = NoFrame
    /\ m = 1 /\ e = 1
    /\ digest = {} /\ crc_calc = {}
    /\ active_power = NoValue /\ active_energy = NoValue
    /\ reported = << >>

message == frame.messages[m]
entry == message.entries[e]

-----------------------------------------------------------------------------
(* Mutant: the values of an earlier frame are kept.                        *)
FrameStartKeeps ==
    /\ pc = "wait"
    /\ frame' \in Frames
    /\ pc' = "message"
    /\ m' = 1 /\ e' = 1
    /\ digest' = {} /\ crc_calc' = {}
    /\ UNCHANGED <<callback, reported>>

(* wait_for_start_sequence has found a marker: MessageCallback::frame_start*)
(* and read_frame with new readers.                                        *)
FrameStart ==
    /\ pc = "wait"
    /\ frame' \in Frames
    /\ pc' = "message"
    /\ m' = 1 /\ e' = 1
    /\ digest' = {} /\ crc_calc' = {}
    /\ active_power' = NoValue /\ active_energy' = NoValue
    /\ UNCHANGED reported

(* The fields before the body, and its tag: message_received looks into    *)
(* list responses only.                                                    *)
ReadHead ==
    /\ pc = "message" /\ m <= Len(frame.messages)
    /\ digest' = digest \cup {<<m, "head">>}
    /\ pc' = [list |-> "entries", other |-> "body", unknown |-> "invalid"][message.kind]
    /\ e' = 1
    /\ UNCHANGED <<frame, m, crc_calc, callback, reported>>

Readable == entry.value # "unreadable"
Fits == entry.value \in Numbers

(* An entry that is passed over: its name is too long for the buffer and   *)
(* its value is not even read, or its name is none of the two.             *)
PassOver ==
    /\ entry.name = "long" \/ (entry.name = "other" /\ Readable)
    /\ e' = e + 1
    /\ UNCHANGED <<pc, callback>>

TakePower ==
    /\ entry.name = "power" /\ Fits /\ active_power = NoValue
    /\ active_power' = entry.value
    /\ e' = e + 1
    /\ UNCHANGED <<pc, active_energy>>

TakeEnergy ==
    /\ entry.name = "energy" /\ Fits /\ active_energy = NoValue
    /\ active_energy' = entry.value
    /\ e' = e + 1
    /\ UNCHANGED <<pc, active_power>>

(* A value that cannot be read, even one nobody asked for; one of the two  *)
(* that is no number or negative; or either of them a second time.         *)
RefuseEntry ==
    /\ \/ entry.name # "long" /\ ~Readable
       \/ entry.name = "power" /\ (~Fits \/ active_power # NoValue)
       \/ entry.name = "energy" /\ (~Fits \/ active_energy # NoValue)
    /\ pc' = "invalid"
    /\ UNCHANGED <<e, callback>>

ReadEntry ==
    /\ pc = "entries" /\ e <= Len(message.entries)
    /\ PassOver \/ TakePower \/ TakeEnergy \/ RefuseEntry
    /\ UNCHANGED <<frame, m, digest, crc_calc, reported>>

(* The list's end: message_received returns, with the list's signature and *)
(* the gateway's time behind it still unread.                              *)
EntriesEnd ==
    /\ pc = "entries" /\ e > Len(message.entries)
    /\ pc' = "body"
    /\ UNCHANGED <<frame, m, e, digest, crc_calc, callback, reported>>

(* Mutant: read_frame takes the sum of what message_received has read.     *)
SkipNowOmitted ==
    /\ pc = "body"
    /\ pc' = "skipped"
    /\ UNCHANGED <<frame, m, e, digest, crc_calc, callback, reported>>

(* skip_now reads through the digest whatever the callback left.           *)
SkipNow ==
    /\ pc = "body"
    /\ digest' = digest \cup {<<m, "rest">>}
    /\ pc' = "skipped"
    /\ UNCHANGED <<frame, m, e, crc_calc, callback, reported>>

(* The sum is taken, which starts the digest anew.                         *)
FinalizeBody ==
    /\ pc = "skipped"
    /\ crc_calc' = digest
    /\ digest' = {}
    /\ pc' = "trailer"
    /\ UNCHANGED <<frame, m, e, callback, reported>>

(* Mutant: the digest goes on behind the message.                          *)
ReadTrailerNoReset ==
    /\ pc = "trailer"
    /\ frame.intact \/ m < Len(frame.messages)
    /\ digest' = digest \cup {<<m, "trailer">>}
    /\ pc' = "message" /\ m' = m + 1
    /\ UNCHANGED <<frame, e, crc_calc, callback, reported>>

(* The message's checksum and its end, which the digest sums up as well,   *)
(* the comparison, and the reset for the next message.                     *)
ReadTrailer ==
    /\ pc = "trailer"
    /\ frame.intact \/ m < Len(frame.messages)
    /\ IF message.intact /\ crc_calc = {<<m, "head">>, <<m, "rest">>}
         THEN pc' = "message" /\ m' = m + 1 /\ digest' = {}
         ELSE /\ pc' = "invalid"
              /\ digest' = digest \cup {<<m, "trailer">>}
              /\ UNCHANGED m
    /\ UNCHANGED <<frame, e, crc_calc, callback, reported>>

(* A read fails: the frame's checksum is wrong, an escape is, the payload  *)
(* ends early, or what was garbled in a message makes no sense.            *)
ReadFails ==
    /\ pc \in Reading \ {"skipped"}
    /\ \/ ~frame.intact
       \/ m <= Len(frame.messages) /\ ~message.intact
       \/ frame.messages = << >>
    /\ pc' = "invalid"
    /\ UNCHANGED <<frame, m, e, digest, crc_calc, callback, reported>>

(* has_ended: there is nothing behind the last message.                    *)
FrameEnds ==
    /\ pc = "message" /\ m > Len(frame.messages)
    /\ frame.intact /\ frame.messages # << >>
    /\ pc' = "valid"
    /\ UNCHANGED <<frame, m, e, digest, crc_calc, callback, reported>>

-----------------------------------------------------------------------------
(* Mutant: one value is enough for a report.                               *)
FrameFinishedHalf ==
    /\ pc = "valid"
    /\ pc' = "finished"
    /\ active_power' = NoValue /\ active_energy' = NoValue
    /\ reported' = (IF active_power # NoValue \/ active_energy # NoValue
                    THEN Append(reported, [power |-> active_power, energy |-> active_energy])
                    ELSE reported)
    /\ UNCHANGED <<frame, m, e, digest, crc_calc>>

(* frame_finished(true) takes both values, also if it can use neither.     *)
FrameFinished ==
    /\ pc = "valid"
    /\ pc' = "finished"
    /\ active_power' = NoValue /\ active_energy' = NoValue
    /\ reported' = (IF active_power # NoValue /\ active_energy # NoValue
                    THEN Append(reported, [power |-> active_power, energy |-> active_energy])
                    ELSE reported)
    /\ UNCHANGED <<frame, m, e, digest, crc_calc>>

(* frame_finished(false) leaves the values for frame_start to clear.       *)
FrameFailed ==
    /\ pc = "invalid"
    /\ pc' = "finished"
    /\ UNCHANGED <<frame, m, e, digest, crc_calc, callback, reported>>

(* Back to wait_for_start_sequence; the history is about one frame.        *)
Wait ==
    /\ pc = "finished"
    /\ pc' = "wait"
    /\ frame' = NoFrame
    /\ m' = 1 /\ e' = 1
    /\ digest' = {} /\ crc_calc' = {}
    /\ reported' = << >>
    /\ UNCHANGED callback

Next ==
    \/ FrameStart \/ ReadHead \/ ReadEntry \/ EntriesEnd \/ SkipNow \/ FinalizeBody
    \/ ReadTrailer \/ ReadFails \/ FrameEnds \/ FrameFinished \/ FrameFailed \/ Wait

Spec == Init /\ [][Next]_vars

-----------------------------------------------------------------------------
(* What a frame should lead to, said of the frame as a whole.              *)

(* Where entries stand that message_received looks at: message, entry.     *)
Places(f) ==
    UNION {{<<i, j>> : j \in 1 .. Len(f.messages[i].entries)} :
             i \in {i \in 1 .. Len(f.messages) : f.messages[i].kind = "list"}}

At(f, p) == f.messages[p[1]].entries[p[2]]

Named(f, name) == {p \in Places(f) : At(f, p).name = name}

Acceptable(x) ==
    /\ x.name = "other" => x.value # "unreadable"
    /\ x.name \in {"power", "energy"} => x.value \in Numbers

(* Nothing is damaged or unreadable, and both values stand exactly once.   *)
Complete(f) ==
    /\ f.intact /\ f.messages # << >>
    /\ \A i \in 1 .. Len(f.messages) :
          f.messages[i].intact /\ f.messages[i].kind # "unknown"
    /\ \A p \in Places(f) : Acceptable(At(f, p))
    /\ \A name \in {"power", "energy"} : \E p \in Places(f) : Named(f, name) = {p}

(* The application's callback is called once for a frame in which nothing  *)
(* is damaged or unreadable and both values stand exactly once, with these *)
(* values; for any other frame, and before a frame has ended, not at all.  *)
(* Values of a frame that failed late never get into the next report.      *)
ReportsWhatWasSent ==
    IF pc = "finished" /\ Complete(frame)
    THEN \E p \in Named(frame, "power"), q \in Named(frame, "energy") :
            reported = <<[power |-> At(frame, p).value, energy |-> At(frame, q).value]>>
    ELSE reported = << >>

(* What a message's checksum is compared with covers that message up to    *)
(* the checksum, all of it and nothing else: whatever the callback left    *)
(* unread, and whatever stood behind the message before.                   *)
ChecksumCoversMessage ==
    pc = "trailer" => crc_calc = {<<m, "head">>, <<m, "rest">>}
=============================================================================
