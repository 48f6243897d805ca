---------------------------- MODULE SmlTaskProofs ----------------------------
(***************************************************************************)
(* Proofs about SmlTask, for any frames of any number of messages: first   *)
(* the types and the checksums, then what the callback's options tell of   *)
(* the entries read so far, from which follows what is reported.           *)
(***************************************************************************)
EXTENDS SmlTask, TLAPS

(* The digest at each point of read_frame's loop: it starts empty with     *)
(* every message and grows by the message's own parts.                     *)
DigestInv ==
    /\ pc \in {"entries", "body", "skipped", "trailer"} => m <= Len(frame.messages)
    /\ pc = "message" => digest = {}
    /\ pc = "entries" => digest = {<<m, "head">>}
    /\ pc = "body" => digest = {<<m, "head">>}
    /\ pc = "skipped" => digest = {<<m, "head">>, <<m, "rest">>}
    /\ pc = "trailer" => digest = {}
    /\ ChecksumCoversMessage

(* Every message behind the reader has passed its comparison, and a valid  *)
(* frame has nothing but such messages.                                    *)
Passed ==
    /\ pc \in Reading => \A i \in 1 .. m - 1 : frame.messages[i].intact
    /\ pc = "valid" => /\ frame.intact
                       /\ \A i \in 1 .. Len(frame.messages) : frame.messages[i].intact

(* What a call of the application's callback stands for: frame_finished    *)
(* calls it, and only for a frame whose own checksum and whose messages'   *)
(* checksums were all right.                                               *)
ReportMeansIntact ==
    reported # << >> =>
        /\ pc = "finished" /\ frame.intact
        /\ \A i \in 1 .. Len(frame.messages) : frame.messages[i].intact

IInv == TypeOK /\ DigestInv /\ Passed /\ ReportMeansIntact

(* What is known of the message and the entry the task is looking at.      *)
LEMMA CurrentTypes ==
    ASSUME TypeOK
    PROVE  /\ frame.messages \in Seq(Message) /\ Len(frame.messages) \in Nat
           /\ m \in Nat /\ m >= 1
           /\ m <= Len(frame.messages) =>
                /\ message \in Message
                /\ message.entries \in Seq(Entry)
                /\ e <= Len(message.entries) => entry \in Entry
<1>1. frame.messages \in Seq(Message) /\ Len(frame.messages) \in Nat
  BY DEF TypeOK, Frame
<1>2. m \in Nat /\ m >= 1 /\ e \in Nat /\ e >= 1
  BY <1>1 DEF TypeOK
<1>3. ASSUME m <= Len(frame.messages) PROVE message \in Message
  BY <1>1, <1>2, <1>3 DEF message
<1>4. ASSUME m <= Len(frame.messages)
      PROVE  /\ message.entries \in Seq(Entry)
             /\ e <= Len(message.entries) => entry \in Entry
  <2>1. message.entries \in Seq(Entry)
    BY <1>3, <1>4 DEF Message
  <2>2. QED
    BY <1>2, <2>1 DEF entry
<1>5. QED
  BY <1>1, <1>2, <1>3, <1>4

(* Before the first frame nothing is summed up and nothing reported.       *)
LEMMA InitIInv == Init => IInv
BY DEF Init, IInv, TypeOK, NoFrame, Frame, Reading, Optional, DigestInv,
       ChecksumCoversMessage, Passed, ReportMeansIntact

-----------------------------------------------------------------------------
(* Every step keeps the types.                                             *)
LEMMA NextTypeOK == TypeOK /\ DigestInv /\ [Next]_vars => TypeOK'
<1> SUFFICES ASSUME TypeOK, DigestInv, [Next]_vars PROVE TypeOK'
  OBVIOUS
<1> USE DEF TypeOK, Reading
<1>0. /\ frame.messages \in Seq(Message) /\ Len(frame.messages) \in Nat
      /\ m \in Nat /\ m >= 1
  BY CurrentTypes
<1>1. CASE FrameStart
  <2>1. frame' \in Frame
    BY <1>1, SmlTaskAssumption DEF FrameStart
  <2>2. frame'.messages \in Seq(Message) /\ 1 \in 1 .. Len(frame'.messages) + 1
    BY <2>1 DEF Frame
  <2>3. QED
    BY <1>1, <2>1, <2>2 DEF FrameStart, Optional
<1>2. CASE ReadHead
  <2>1. message \in Message
    BY <1>2, CurrentTypes DEF ReadHead
  <2>2. pc' \in {"entries", "body", "invalid"}
    BY <1>2, <2>1 DEF ReadHead, Message
  <2>3. digest' \subseteq Part
    BY <1>0, <1>2 DEF ReadHead, Part
  <2>4. QED
    BY <1>2, <2>2, <2>3 DEF ReadHead, callback
<1>3. CASE ReadEntry
  <2>1. active_power' \in Optional /\ active_energy' \in Optional
    BY <1>3 DEF ReadEntry, PassOver, TakePower, TakeEnergy, RefuseEntry, Fits, Optional,
                callback
  <2>2. e' \in Nat \ {0} /\ pc' \in {"entries", "invalid"}
    BY <1>3 DEF ReadEntry, PassOver, TakePower, TakeEnergy, RefuseEntry
  <2>3. QED
    BY <1>3, <2>1, <2>2 DEF ReadEntry
<1>4. CASE EntriesEnd
  BY <1>0, <1>4 DEF EntriesEnd, Part, callback
<1>5. CASE SkipNow \/ FinalizeBody
  BY <1>0, <1>5 DEF SkipNow, FinalizeBody, Part, callback
<1>6. CASE ReadTrailer
  <2>1. digest' \subseteq Part /\ pc' \in {"message", "invalid"}
    BY <1>0, <1>6 DEF ReadTrailer, Part
  <2>2. m' \in 1 .. Len(frame'.messages) + 1
    BY <1>0, <1>6 DEF ReadTrailer, DigestInv
  <2>3. QED
    BY <1>6, <2>1, <2>2 DEF ReadTrailer, callback
<1>7. CASE ReadFails
  BY <1>7 DEF ReadFails, callback
<1>8. CASE FrameEnds
  BY <1>8 DEF FrameEnds, callback
<1>9. CASE FrameFinished
  <2>1. reported' \in Seq([power : Numbers, energy : Numbers])
    <3> DEFINE call == [power |-> active_power, energy |-> active_energy]
    <3>1. CASE active_power # NoValue /\ active_energy # NoValue
      <4>1. call \in [power : Numbers, energy : Numbers]
        BY <3>1 DEF Optional
      <4>2. reported' = Append(reported, call)
        BY <1>9, <3>1 DEF FrameFinished
      <4> HIDE DEF call
      <4>3. QED
        BY <4>1, <4>2
    <3>2. CASE ~(active_power # NoValue /\ active_energy # NoValue)
      BY <1>9, <3>2 DEF FrameFinished
    <3>3. QED
      BY <3>1, <3>2
  <2>2. QED
    BY <1>9, <2>1 DEF FrameFinished, Optional
<1>10. CASE FrameFailed
  BY <1>10 DEF FrameFailed, callback
<1>11. CASE Wait
  BY <1>11 DEF Wait, NoFrame, Frame, callback
<1>12. CASE UNCHANGED vars
  BY <1>12 DEF vars, callback
<1>13. QED
  BY <1>1, <1>2, <1>3, <1>4, <1>5, <1>6, <1>7, <1>8, <1>9, <1>10, <1>11, <1>12 DEF Next

(* Every step keeps the digest to the message being read.                  *)
LEMMA NextDigestInv == TypeOK /\ DigestInv /\ [Next]_vars => DigestInv'
<1> SUFFICES ASSUME TypeOK, DigestInv, [Next]_vars PROVE DigestInv'
  OBVIOUS
<1> USE DEF DigestInv, ChecksumCoversMessage
<1>0. m \in Nat /\ Len(frame.messages) \in Nat
  BY CurrentTypes
<1>1. CASE FrameStart
  BY <1>1 DEF FrameStart
<1>2. CASE ReadHead
  <2>1. pc' \in {"entries", "body", "invalid"}
    <3>1. message \in Message
      BY <1>2, CurrentTypes DEF ReadHead
    <3>2. QED
      BY <1>2, <3>1 DEF ReadHead, Message
  <2>2. digest' = {<<m, "head">>} /\ m' = m /\ frame' = frame /\ m <= Len(frame.messages)
    BY <1>2 DEF ReadHead
  <2>3. QED
    BY <2>1, <2>2
<1>3. CASE ReadEntry
  <2>1. pc' \in {"entries", "invalid"}
    BY <1>3 DEF ReadEntry, PassOver, TakePower, TakeEnergy, RefuseEntry
  <2>2. QED
    BY <1>3, <2>1 DEF ReadEntry
<1>4. CASE EntriesEnd
  BY <1>4 DEF EntriesEnd
<1>5. CASE SkipNow \/ FinalizeBody
  BY <1>5 DEF SkipNow, FinalizeBody
<1>6. CASE ReadTrailer
  BY <1>6 DEF ReadTrailer
<1>7. CASE ReadFails
  BY <1>7 DEF ReadFails
<1>8. CASE FrameEnds
  BY <1>8 DEF FrameEnds
<1>9. CASE FrameFinished
  BY <1>9 DEF FrameFinished
<1>10. CASE FrameFailed
  BY <1>10 DEF FrameFailed
<1>11. CASE Wait
  BY <1>11 DEF Wait
<1>12. CASE UNCHANGED vars
  BY <1>12 DEF vars
<1>13. QED
  BY <1>1, <1>2, <1>3, <1>4, <1>5, <1>6, <1>7, <1>8, <1>9, <1>10, <1>11, <1>12 DEF Next

(* Every step forward passes a comparison, and only a valid frame is       *)
(* reported.                                                               *)
LEMMA NextPassed == IInv /\ [Next]_vars => Passed' /\ ReportMeansIntact'
<1> SUFFICES ASSUME IInv, [Next]_vars PROVE Passed' /\ ReportMeansIntact'
  OBVIOUS
<1> USE DEF IInv, Passed, ReportMeansIntact, Reading
<1>0. m \in Nat /\ Len(frame.messages) \in Nat /\ m <= Len(frame.messages) + 1
  BY CurrentTypes DEF TypeOK
<1>1. CASE FrameStart
  BY <1>1 DEF FrameStart
<1>2. CASE ReadHead
  <2>1. pc' # "valid"
    <3>1. message \in Message
      BY <1>2, CurrentTypes DEF ReadHead
    <3>2. QED
      BY <1>2, <3>1 DEF ReadHead, Message
  <2>2. QED
    BY <1>2, <2>1 DEF ReadHead
<1>3. CASE ReadEntry
  BY <1>3 DEF ReadEntry, PassOver, TakePower, TakeEnergy, RefuseEntry
<1>4. CASE EntriesEnd
  BY <1>4 DEF EntriesEnd
<1>5. CASE SkipNow \/ FinalizeBody
  BY <1>5 DEF SkipNow, FinalizeBody
<1>6. CASE ReadTrailer
  <2>1. reported' = << >> /\ frame' = frame /\ pc' \in {"message", "invalid"}
    BY <1>6 DEF ReadTrailer
  <2>2. ASSUME pc' = "message", NEW i \in 1 .. m' - 1
        PROVE  frame.messages[i].intact
    <3>1. m' = m + 1 /\ frame.messages[m].intact
      BY <1>6, <2>2 DEF ReadTrailer, message
    <3>2. i \in 1 .. m - 1 \/ i = m
      BY <1>0, <2>2, <3>1
    <3>3. QED
      BY <1>6, <3>1, <3>2 DEF ReadTrailer
  <2>3. QED
    BY <2>1, <2>2
<1>7. CASE ReadFails
  BY <1>7 DEF ReadFails
<1>8. CASE FrameEnds
  <2>1. m - 1 = Len(frame.messages)
    BY <1>0, <1>8 DEF FrameEnds
  <2>2. QED
    BY <1>8, <2>1 DEF FrameEnds
<1>9. CASE FrameFinished
  BY <1>9 DEF FrameFinished
<1>10. CASE FrameFailed
  BY <1>10 DEF FrameFailed
<1>11. CASE Wait
  BY <1>11 DEF Wait
<1>12. CASE UNCHANGED vars
  BY <1>12 DEF vars
<1>13. QED
  BY <1>1, <1>2, <1>3, <1>4, <1>5, <1>6, <1>7, <1>8, <1>9, <1>10, <1>11, <1>12 DEF Next

-----------------------------------------------------------------------------
(* The inductive invariant holds in every behaviour of the task.           *)
LEMMA AlwaysIInv == Spec => []IInv
<1>1. IInv /\ [Next]_vars => IInv'
  BY NextTypeOK, NextDigestInv, NextPassed DEF IInv
<1>2. QED
  BY InitIInv, <1>1, PTL DEF Spec

(* The task's variables keep their types, for any frames and values.       *)
THEOREM TypeCorrect == Spec => []TypeOK
<1>1. IInv => TypeOK
  BY DEF IInv
<1>2. QED
  BY <1>1, AlwaysIInv, PTL

(* A message's checksum is taken over exactly that message, however little *)
(* of it message_received has read (skip_now, finalize, reset).            *)
THEOREM OwnChecksum == Spec => []ChecksumCoversMessage
<1>1. IInv => ChecksumCoversMessage
  BY DEF IInv, DigestInv
<1>2. QED
  BY <1>1, AlwaysIInv, PTL

(* The application hears only of frames that passed every checksum.        *)
THEOREM ReportsAreIntact == Spec => []ReportMeansIntact
<1>1. IInv => ReportMeansIntact
  BY DEF IInv
<1>2. QED
  BY <1>1, AlwaysIInv, PTL

-----------------------------------------------------------------------------
(* The entries the callback has been given so far.                         *)
Behind ==
    {p \in Places(frame) :
        \/ p[1] < m
        \/ p[1] = m /\ (pc \in {"body", "skipped", "trailer"} \/ (pc = "entries" /\ p[2] < e))}

(* An option of MessageCallback holds the value of the only one of these   *)
(* entries, or there is none.                                              *)
Tells(option, seen) ==
    \/ option = NoValue /\ seen = {}
    \/ \E p \in seen : seen = {p} /\ option = At(frame, p).value

Holds(option, name) == Tells(option, Behind \cap Named(frame, name))

(* While the frame is good so far: everything behind the reader is, and    *)
(* the two options tell what has been seen of the two values.              *)
SoFar ==
    /\ \A i \in 1 .. Len(frame.messages) :
          i < m => frame.messages[i].kind # "unknown"
    /\ pc = "entries" => message.kind = "list"
    /\ pc \in {"body", "skipped", "trailer"} => message.kind # "unknown"
    /\ \A p \in Behind : Acceptable(At(frame, p))
    /\ Holds(active_power, "power")
    /\ Holds(active_energy, "energy")

(* A frame that is given up deserves it.                                   *)
ValueInv ==
    /\ pc \in Reading \cup {"valid"} => SoFar
    /\ pc = "valid" => m = Len(frame.messages) + 1 /\ frame.messages # << >>
    /\ pc = "invalid" => ~Complete(frame)
    /\ pc # "finished" => reported = << >>
    /\ ReportsWhatWasSent

(* A place is a message that is a list and an entry of it.                 *)
LEMMA PlaceIs ==
    /\ \A f, i, j : <<i, j>> \in Places(f) <=>
         /\ i \in 1 .. Len(f.messages) /\ f.messages[i].kind = "list"
         /\ j \in 1 .. Len(f.messages[i].entries)
    /\ \A f : \A p \in Places(f) :
         /\ p = <<p[1], p[2]>>
         /\ p[1] \in 1 .. Len(f.messages) /\ f.messages[p[1]].kind = "list"
         /\ p[2] \in 1 .. Len(f.messages[p[1]].entries)
BY DEF Places

(* Where the reader moves past no entry, what it knows remains true.       *)
LEMMA NothingNew ==
    ASSUME SoFar, frame' = frame, Behind' = Behind,
           active_power' = active_power, active_energy' = active_energy,
           \A i \in 1 .. Len(frame.messages) : i < m' => frame.messages[i].kind # "unknown",
           pc' = "entries" => message'.kind = "list",
           pc' \in {"body", "skipped", "trailer"} => message'.kind # "unknown"
    PROVE  SoFar'
<1>1. Holds(active_power, "power")' /\ Holds(active_energy, "energy")'
  BY DEF SoFar, Holds, Tells
<1>2. \A p \in Behind' : Acceptable(At(frame, p))'
  BY DEF SoFar, Acceptable
<1>3. QED
  BY <1>1, <1>2 DEF SoFar

(* One entry more: an option that takes it had none of its name, and one   *)
(* that does not is not named by it.                                       *)
LEMMA OneMore ==
    ASSUME NEW option, NEW taken, NEW name, NEW place \in Places(frame),
           place \notin Behind, Holds(option, name),
           frame' = frame, Behind' = Behind \cup {place},
           IF At(frame, place).name = name
           THEN option = NoValue /\ taken = At(frame, place).value /\ NoValue # taken
           ELSE taken = option,
           \A p \in Behind : Acceptable(At(frame, p)), name \in {"power", "energy"}
    PROVE  Tells(taken, Behind' \cap Named(frame, name))
<1>1. CASE At(frame, place).name = name
  <2>1. Behind \cap Named(frame, name) = {}
    <3>1. ASSUME NEW p \in Behind \cap Named(frame, name) PROVE At(frame, p).value # NoValue
      BY SmlTaskAssumption DEF Acceptable, Named
    <3>2. QED
      BY <1>1, <3>1 DEF Holds, Tells
  <2>2. Behind' \cap Named(frame, name) = {place}
    BY <1>1, <2>1 DEF Named
  <2>3. QED
    BY <1>1, <2>2 DEF Tells
<1>2. CASE At(frame, place).name # name
  <2>1. Behind' \cap Named(frame, name) = Behind \cap Named(frame, name)
    BY <1>2 DEF Named
  <2>2. QED
    BY <1>2, <2>1 DEF Holds
<1>3. QED
  BY <1>1, <1>2

(* Where the task looks at an entry, message_received takes it, passes it  *)
(* over, or gives the frame up because it is not acceptable or the second  *)
(* of its name.                                                            *)
LEMMA EntryRead ==
    ASSUME TypeOK, DigestInv, ValueInv, ReadEntry
    PROVE  ValueInv'
<1> DEFINE here == <<m, e>>
<1>1. /\ pc = "entries" /\ e <= Len(message.entries) /\ frame' = frame /\ m' = m
      /\ reported' = reported /\ reported = << >> /\ SoFar /\ message.kind = "list"
  BY DEF ReadEntry, ValueInv, Reading, SoFar
<1>2. /\ m \in 1 .. Len(frame.messages) /\ e \in 1 .. Len(message.entries)
      /\ message \in Message /\ entry \in Entry /\ e \in Nat /\ m \in Nat
      /\ message.entries \in Seq(Entry)
  <2>1. m <= Len(frame.messages)
    BY <1>1 DEF DigestInv
  <2>2. m \in Nat /\ m >= 1 /\ Len(frame.messages) \in Nat /\ e \in Nat /\ e >= 1
        /\ message \in Message /\ message.entries \in Seq(Entry)
        /\ entry \in Entry
    BY <1>1, <2>1, CurrentTypes DEF TypeOK
  <2>3. QED
    BY <1>1, <2>1, <2>2
<1>3. here \in Places(frame) /\ At(frame, here) = entry /\ here \notin Behind
  <2>1. here \in Places(frame)
    BY <1>1, <1>2, PlaceIs DEF message
  <2>2. At(frame, here) = entry
    BY DEF At, entry, message
  <2>3. here \notin Behind
    BY <1>1, <1>2 DEF Behind
  <2>4. QED
    BY <2>1, <2>2, <2>3
<1>4. ASSUME NEW name \in {"power", "energy"}, NEW option, option # NoValue,
             Holds(option, name), entry.name = name
      PROVE  ~Complete(frame)
  <2>1. PICK p \in Behind \cap Named(frame, name) : TRUE
    BY <1>4 DEF Holds, Tells
  <2>2. here \in Named(frame, name) /\ p # here /\ p \in Named(frame, name)
    BY <1>3, <1>4, <2>1 DEF Named
  <2>3. QED
    BY <2>2 DEF Complete
<1>5. CASE PassOver \/ TakePower \/ TakeEnergy
  <2>1. pc' = "entries" /\ e' = e + 1
    BY <1>1, <1>5 DEF PassOver, TakePower, TakeEnergy
  <2>2. Behind' = Behind \cup {here}
    <3>1. ASSUME NEW p \in Places(frame) PROVE p \in Behind' <=> p \in Behind \/ p = here
      <4>1. p = <<p[1], p[2]>> /\ p[1] \in Nat /\ p[2] \in Nat
        BY <3>1, PlaceIs
      <4>2. p \in Behind' <=> p[1] < m \/ (p[1] = m /\ p[2] < e + 1)
        BY <1>1, <2>1, <3>1 DEF Behind
      <4>3. p \in Behind <=> p[1] < m \/ (p[1] = m /\ p[2] < e)
        BY <1>1, <3>1 DEF Behind
      <4>4. p = here <=> p[1] = m /\ p[2] = e
        BY <4>1
      <4>5. p[2] < e + 1 <=> p[2] < e \/ p[2] = e
        BY <1>2, <4>1
      <4>6. QED
        BY <4>2, <4>3, <4>4, <4>5
    <3>2. Behind \subseteq Places(frame) /\ Behind' \subseteq Places(frame)
      BY <1>1 DEF Behind
    <3>3. QED
      BY <1>3, <3>1, <3>2
  <2>3. Acceptable(entry)
    BY <1>2, <1>5 DEF PassOver, TakePower, TakeEnergy, Acceptable, Readable, Fits
  <2>4. \A p \in Behind' : Acceptable(At(frame, p))
    BY <1>1, <1>3, <2>2, <2>3 DEF SoFar
  <2>5. NoValue # entry.value \/ entry.value \notin Numbers
    BY SmlTaskAssumption
  <2>6. Holds(active_power, "power")'
    <3>1. IF At(frame, here).name = "power"
          THEN active_power = NoValue /\ active_power' = At(frame, here).value
               /\ NoValue # active_power'
          ELSE active_power' = active_power
      BY <1>3, <1>5, <2>5 DEF PassOver, TakePower, TakeEnergy, Fits, callback
    <3>2. Holds(active_power, "power") /\ \A p \in Behind : Acceptable(At(frame, p))
      BY <1>1 DEF SoFar
    <3>3. Tells(active_power', Behind' \cap Named(frame, "power"))
      <4> HIDE DEF here
      <4>1. QED
        BY <1>1, <1>3, <2>2, <3>1, <3>2, OneMore
    <3>4. QED
      BY <1>1, <3>3 DEF Holds, Tells
  <2>7. Holds(active_energy, "energy")'
    <3>1. IF At(frame, here).name = "energy"
          THEN active_energy = NoValue /\ active_energy' = At(frame, here).value
               /\ NoValue # active_energy'
          ELSE active_energy' = active_energy
      BY <1>3, <1>5, <2>5 DEF PassOver, TakePower, TakeEnergy, Fits, callback
    <3>2. Holds(active_energy, "energy") /\ \A p \in Behind : Acceptable(At(frame, p))
      BY <1>1 DEF SoFar
    <3>3. Tells(active_energy', Behind' \cap Named(frame, "energy"))
      <4> HIDE DEF here
      <4>1. QED
        BY <1>1, <1>3, <2>2, <3>1, <3>2, OneMore
    <3>4. QED
      BY <1>1, <3>3 DEF Holds, Tells
  <2>8. message' = message
    BY <1>1 DEF message
  <2>9. SoFar'
    BY <1>1, <2>1, <2>4, <2>6, <2>7, <2>8 DEF SoFar, Acceptable
  <2>10. QED
    BY <1>1, <2>1, <2>9 DEF ValueInv, ReportsWhatWasSent
<1>6. CASE RefuseEntry
  <2>1. pc' = "invalid"
    BY <1>6 DEF RefuseEntry
  <2>2. ~Complete(frame)
    <3>1. CASE ~Acceptable(entry)
      BY <1>3, <3>1 DEF Complete
    <3>2. CASE Acceptable(entry)
      <4>1. \/ entry.name = "power" /\ active_power # NoValue
            \/ entry.name = "energy" /\ active_energy # NoValue
        BY <1>2, <1>6, <3>2, SmlTaskAssumption
           DEF RefuseEntry, Acceptable, Readable, Fits, Entry
      <4>2. QED
        BY <1>1, <1>4, <4>1 DEF SoFar
    <3>3. QED
      BY <3>1, <3>2
  <2>3. QED
    BY <1>1, <2>1, <2>2 DEF ValueInv, Reading, ReportsWhatWasSent
<1>7. QED
  BY <1>5, <1>6 DEF ReadEntry

(* A frame is complete only if nothing in it is broken.                    *)
LEMMA CompleteMeans ==
    \A f : Complete(f) =>
      /\ f.intact /\ f.messages # << >>
      /\ \A i \in 1 .. Len(f.messages) :
           f.messages[i].intact /\ f.messages[i].kind # "unknown"
BY DEF Complete

(* A valid frame: everything is behind the reader, so its options tell     *)
(* what the frame has.                                                     *)
LEMMA ValidIsComplete ==
    ASSUME TypeOK, Passed, SoFar, pc = "valid", m = Len(frame.messages) + 1,
           frame.messages # << >>
    PROVE  IF active_power # NoValue /\ active_energy # NoValue
           THEN /\ Complete(frame)
                /\ \E p \in Named(frame, "power"), q \in Named(frame, "energy") :
                     active_power = At(frame, p).value /\ active_energy = At(frame, q).value
           ELSE ~Complete(frame)
<1>1. frame.messages \in Seq(Message) /\ Len(frame.messages) \in Nat
  BY CurrentTypes
<1>2. Behind = Places(frame)
  <2>1. \A p \in Places(frame) : p[1] \in 1 .. Len(frame.messages)
    BY PlaceIs
  <2>2. \A p \in Places(frame) : p[1] < m
    BY <1>1, <2>1
  <2>3. QED
    BY <2>2 DEF Behind
<1>3. \A name : Behind \cap Named(frame, name) = Named(frame, name)
  BY <1>2 DEF Named
<1>4. Tells(active_power, Named(frame, "power")) /\ Tells(active_energy, Named(frame, "energy"))
  BY <1>3 DEF SoFar, Holds
<1>5. CASE active_power # NoValue /\ active_energy # NoValue
  <2>1. PICK p \in Named(frame, "power") :
          Named(frame, "power") = {p} /\ active_power = At(frame, p).value
    BY <1>4, <1>5 DEF Tells
  <2>2. PICK q \in Named(frame, "energy") :
          Named(frame, "energy") = {q} /\ active_energy = At(frame, q).value
    BY <1>4, <1>5 DEF Tells
  <2>3. \A name \in {"power", "energy"} : \E r \in Places(frame) : Named(frame, name) = {r}
    <3>1. p \in Places(frame) /\ q \in Places(frame)
      BY DEF Named
    <3>2. QED
      BY <2>1, <2>2, <3>1
  <2>4. \A i \in 1 .. Len(frame.messages) :
          frame.messages[i].intact /\ frame.messages[i].kind # "unknown"
    BY <1>1 DEF Passed, SoFar
  <2>5. frame.intact /\ \A r \in Places(frame) : Acceptable(At(frame, r))
    BY <1>2 DEF Passed, SoFar
  <2>6. Complete(frame)
    BY <2>3, <2>4, <2>5 DEF Complete
  <2>7. QED
    BY <1>5, <2>1, <2>2, <2>6
<1>6. CASE ~(active_power # NoValue /\ active_energy # NoValue)
  <2>1. ASSUME NEW name, Tells(NoValue, Named(frame, name)),
               \A p \in Behind : Acceptable(At(frame, p)), name \in {"power", "energy"}
        PROVE  ~Complete(frame)
    <3>1. \A p \in Named(frame, name) : At(frame, p).value # NoValue
      BY <1>2, <2>1, SmlTaskAssumption DEF Acceptable, Named
    <3>2. Named(frame, name) = {}
      BY <2>1, <3>1 DEF Tells
    <3>3. QED
      BY <2>1, <3>2 DEF Complete
  <2>2. QED
    BY <1>4, <1>6, <2>1 DEF SoFar
<1>7. QED
  BY <1>5, <1>6

(* Every step keeps track of the values.                                   *)
LEMMA NextValueInv == IInv /\ ValueInv /\ [Next]_vars => ValueInv'
<1> SUFFICES ASSUME IInv, ValueInv, [Next]_vars PROVE ValueInv'
  OBVIOUS
<1>0. /\ TypeOK /\ DigestInv /\ Passed
      /\ m \in Nat /\ m >= 1 /\ Len(frame.messages) \in Nat /\ e \in Nat
      /\ m <= Len(frame.messages) + 1
  BY CurrentTypes DEF IInv, TypeOK
<1> USE DEF Reading
<1>1. CASE FrameStart
  <2>1. pc' = "message" /\ m' = 1 /\ reported' = << >>
        /\ active_power' = NoValue /\ active_energy' = NoValue
    BY <1>1 DEF FrameStart, ValueInv
  <2>2. Behind' = {}
    <3>1. \A p \in Places(frame') : p[1] \in 1 .. Len(frame'.messages)
      BY PlaceIs
    <3>2. \A p \in Places(frame') : ~(p[1] < 1)
      BY <3>1
    <3>3. QED
      BY <2>1, <3>2 DEF Behind
  <2>3. \A i \in 1 .. Len(frame'.messages) : ~(i < m')
    BY <2>1
  <2>4. SoFar'
    BY <2>1, <2>2, <2>3 DEF SoFar, Holds, Tells
  <2>5. QED
    BY <2>1, <2>4 DEF ValueInv, ReportsWhatWasSent
<1>2. CASE ReadHead
  <2>1. /\ pc = "message" /\ m <= Len(frame.messages) /\ frame' = frame /\ m' = m
        /\ e' = 1 /\ reported' = reported /\ reported = << >> /\ SoFar
        /\ active_power' = active_power /\ active_energy' = active_energy
    BY <1>2 DEF ReadHead, ValueInv, callback
  <2>2. message \in Message /\ message' = message
    BY <1>0, <2>1, CurrentTypes DEF message
  <2>3. /\ message.kind = "list" => pc' = "entries"
        /\ message.kind = "other" => pc' = "body"
        /\ message.kind = "unknown" => pc' = "invalid"
    BY <1>2, <2>2 DEF ReadHead, Message
  <2>4. message.kind \in {"list", "other", "unknown"}
    BY <2>2 DEF Message
  <2>5. CASE message.kind = "unknown"
    <3>1. ~Complete(frame)
      BY <1>0, <2>1, <2>5, CompleteMeans DEF message
    <3>2. QED
      BY <2>1, <2>3, <2>5, <3>1 DEF ValueInv, ReportsWhatWasSent
  <2>6. CASE message.kind # "unknown"
    <3>1. Behind' = Behind
      <4>1. ASSUME NEW p \in Places(frame) PROVE p \in Behind' <=> p \in Behind
        <5>1. p[2] \in Nat /\ p[2] >= 1 /\ frame.messages[p[1]].kind = "list"
          BY PlaceIs
        <5>2. ~(p[2] < 1)
          BY <5>1
        <5>3. pc' = "body" => p[1] # m
          BY <2>3, <2>4, <5>1 DEF message
        <5>4. QED
          BY <2>1, <2>3, <2>4, <2>6, <5>2, <5>3 DEF Behind
      <4>2. Behind \subseteq Places(frame) /\ Behind' \subseteq Places(frame)
        BY <2>1 DEF Behind
      <4>3. QED
        BY <4>1, <4>2
    <3>2. \A i \in 1 .. Len(frame.messages) : i < m' => frame.messages[i].kind # "unknown"
      BY <2>1 DEF SoFar
    <3>3. /\ pc' = "entries" => message'.kind = "list"
          /\ pc' \in {"body", "skipped", "trailer"} => message'.kind # "unknown"
          /\ pc' \in {"entries", "body"}
      BY <2>2, <2>3, <2>4, <2>6
    <3>4. SoFar'
      BY <2>1, <3>1, <3>2, <3>3, NothingNew
    <3>5. QED
      BY <2>1, <3>3, <3>4 DEF ValueInv, ReportsWhatWasSent
  <2>7. QED
    BY <2>5, <2>6
<1>3. CASE ReadEntry
  BY <1>0, <1>3, EntryRead
<1>4. CASE EntriesEnd
  <2>1. /\ pc = "entries" /\ pc' = "body" /\ frame' = frame /\ m' = m
        /\ reported' = reported /\ reported = << >> /\ SoFar
        /\ active_power' = active_power /\ active_energy' = active_energy
        /\ e > Len(message.entries) /\ message' = message
    BY <1>4 DEF EntriesEnd, ValueInv, callback, message
  <2>2. Behind' = Behind
    <3>1. ASSUME NEW p \in Places(frame) PROVE p \in Behind' <=> p \in Behind
      <4>1. p[1] = m => p[2] \in 1 .. Len(message.entries)
        BY PlaceIs DEF message
      <4>2. m <= Len(frame.messages)
        BY <1>0, <2>1 DEF DigestInv
      <4>3. Len(message.entries) \in Nat
        BY <1>0, <4>2, CurrentTypes
      <4>4. p[1] = m => p[2] < e
        BY <1>0, <2>1, <4>1, <4>3
      <4>5. QED
        BY <2>1, <4>4 DEF Behind
    <3>2. Behind \subseteq Places(frame) /\ Behind' \subseteq Places(frame)
      BY <2>1 DEF Behind
    <3>3. QED
      BY <3>1, <3>2
  <2>3. message.kind # "unknown"
    BY <2>1 DEF SoFar
  <2>4. \A i \in 1 .. Len(frame.messages) : i < m' => frame.messages[i].kind # "unknown"
    BY <2>1 DEF SoFar
  <2>5. SoFar'
    BY <2>1, <2>2, <2>3, <2>4, NothingNew
  <2>6. QED
    BY <2>1, <2>5 DEF ValueInv, ReportsWhatWasSent
<1>5. CASE SkipNow \/ FinalizeBody
  <2>1. /\ \/ pc = "body" /\ pc' = "skipped"
           \/ pc = "skipped" /\ pc' = "trailer"
        /\ frame' = frame /\ m' = m
        /\ reported' = reported /\ reported = << >> /\ SoFar
        /\ active_power' = active_power /\ active_energy' = active_energy
        /\ message' = message
    BY <1>5 DEF SkipNow, FinalizeBody, ValueInv, callback, message
  <2>2. Behind' = Behind
    BY <2>1 DEF Behind
  <2>3. message.kind # "unknown"
    BY <2>1 DEF SoFar
  <2>4. \A i \in 1 .. Len(frame.messages) : i < m' => frame.messages[i].kind # "unknown"
    BY <2>1 DEF SoFar
  <2>5. SoFar'
    BY <2>1, <2>2, <2>3, <2>4, NothingNew
  <2>6. QED
    BY <2>1, <2>5 DEF ValueInv, ReportsWhatWasSent
<1>6. CASE ReadTrailer
  <2>1. /\ pc = "trailer" /\ frame' = frame
        /\ reported' = reported /\ reported = << >> /\ SoFar
        /\ active_power' = active_power /\ active_energy' = active_energy
    BY <1>6 DEF ReadTrailer, ValueInv, callback
  <2>2. m <= Len(frame.messages) /\ crc_calc = {<<m, "head">>, <<m, "rest">>}
    BY <1>0, <2>1 DEF DigestInv, ChecksumCoversMessage
  <2>3. CASE message.intact
    <3>1. pc' = "message" /\ m' = m + 1
      BY <1>6, <2>2, <2>3 DEF ReadTrailer
    <3>2. Behind' = Behind
      <4>1. ASSUME NEW p \in Places(frame) PROVE p \in Behind' <=> p \in Behind
        <5>1. p[1] \in Nat
          BY PlaceIs
        <5>2. p[1] < m + 1 <=> p[1] < m \/ p[1] = m
          BY <1>0, <5>1
        <5>3. QED
          BY <2>1, <3>1, <5>2 DEF Behind
      <4>2. Behind \subseteq Places(frame) /\ Behind' \subseteq Places(frame)
        BY <2>1 DEF Behind
      <4>3. QED
        BY <4>1, <4>2
    <3>3. \A i \in 1 .. Len(frame.messages) : i < m' => frame.messages[i].kind # "unknown"
      <4>1. message.kind # "unknown"
        BY <2>1 DEF SoFar
      <4>2. ASSUME NEW i \in 1 .. Len(frame.messages), i < m + 1
            PROVE  frame.messages[i].kind # "unknown"
        <5>1. i < m \/ i = m
          BY <1>0, <4>2
        <5>2. QED
          BY <2>1, <4>1, <5>1 DEF SoFar, message
      <4>3. QED
        BY <3>1, <4>2
    <3>4. SoFar'
      BY <2>1, <3>1, <3>2, <3>3, NothingNew
    <3>5. QED
      BY <2>1, <3>1, <3>4 DEF ValueInv, ReportsWhatWasSent
  <2>4. CASE ~message.intact
    <3>1. pc' = "invalid"
      BY <1>6, <2>4 DEF ReadTrailer
    <3>2. ~Complete(frame)
      BY <1>0, <2>2, <2>4, CompleteMeans DEF message
    <3>3. QED
      BY <2>1, <3>1, <3>2 DEF ValueInv, ReportsWhatWasSent
  <2>5. QED
    BY <2>3, <2>4
<1>7. CASE ReadFails
  <2>1. ~Complete(frame)
    BY <1>0, <1>7, CompleteMeans DEF ReadFails, message
  <2>2. pc' = "invalid" /\ frame' = frame /\ reported' = << >>
    BY <1>7 DEF ReadFails, ValueInv
  <2>3. QED
    BY <2>1, <2>2 DEF ValueInv, ReportsWhatWasSent
<1>8. CASE FrameEnds
  <2>1. /\ pc = "message" /\ pc' = "valid" /\ frame' = frame /\ m' = m
        /\ reported' = reported /\ reported = << >> /\ SoFar
        /\ active_power' = active_power /\ active_energy' = active_energy
        /\ m = Len(frame.messages) + 1 /\ frame.messages # << >>
    BY <1>0, <1>8 DEF FrameEnds, ValueInv, callback
  <2>2. Behind' = Behind
    BY <2>1 DEF Behind
  <2>3. \A i \in 1 .. Len(frame.messages) : i < m' => frame.messages[i].kind # "unknown"
    BY <2>1 DEF SoFar
  <2>4. SoFar'
    BY <2>1, <2>2, <2>3, NothingNew
  <2>5. QED
    BY <2>1, <2>4 DEF ValueInv, ReportsWhatWasSent
<1>9. CASE FrameFinished
  <2>1. /\ pc = "valid" /\ pc' = "finished" /\ frame' = frame /\ reported = << >> /\ SoFar
        /\ m = Len(frame.messages) + 1 /\ frame.messages # << >>
        /\ reported' = (IF active_power # NoValue /\ active_energy # NoValue
                        THEN <<[power |-> active_power, energy |-> active_energy]>>
                        ELSE << >>)
    BY <1>9 DEF FrameFinished, ValueInv
  <2>2. IF active_power # NoValue /\ active_energy # NoValue
        THEN /\ Complete(frame)
             /\ \E p \in Named(frame, "power"), q \in Named(frame, "energy") :
                  active_power = At(frame, p).value /\ active_energy = At(frame, q).value
        ELSE ~Complete(frame)
    BY <1>0, <2>1, ValidIsComplete
  <2>3. ReportsWhatWasSent'
    BY <2>1, <2>2 DEF ReportsWhatWasSent
  <2>4. QED
    BY <2>1, <2>3 DEF ValueInv
<1>10. CASE FrameFailed
  BY <1>10 DEF FrameFailed, ValueInv, ReportsWhatWasSent
<1>11. CASE Wait
  BY <1>11 DEF Wait, ValueInv, ReportsWhatWasSent
<1>12. CASE UNCHANGED vars
  <2>1. /\ pc' = pc /\ frame' = frame /\ m' = m /\ e' = e /\ reported' = reported
        /\ active_power' = active_power /\ active_energy' = active_energy
    BY <1>12 DEF vars, callback
  <2>2. Behind' = Behind /\ message' = message
    BY <2>1 DEF Behind, message
  <2>3. SoFar => SoFar'
    BY <2>1, <2>2 DEF SoFar, Holds, Tells, Acceptable
  <2>4. QED
    BY <2>1, <2>3 DEF ValueInv, ReportsWhatWasSent
<1>13. QED
  BY <1>1, <1>2, <1>3, <1>4, <1>5, <1>6, <1>7, <1>8, <1>9, <1>10, <1>11, <1>12 DEF Next

(* frame_finished calls the application exactly for the frames it should,  *)
(* with exactly the values that stand in them.                             *)
THEOREM ReportsAreExact == Spec => []ReportsWhatWasSent
<1>1. Init => ValueInv
  BY DEF Init, ValueInv, ReportsWhatWasSent, Reading
<1>2. ValueInv => ReportsWhatWasSent
  BY DEF ValueInv
<1>3. QED
  BY <1>1, <1>2, AlwaysIInv, NextValueInv, PTL DEF Spec
=============================================================================
