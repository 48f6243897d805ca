--------------------------- MODULE CheckingReader ---------------------------
(***************************************************************************)
(* frame::CheckingReader of modules/rust/sml/src/frame.rs: the reader that *)
(* undoes the escaping of an SML frame, checks its CRC and cuts off its    *)
(* footer and fill bytes.  The frame is read in words of four bytes.       *)
(*                                                                         *)
(* One step is one turn of poll_read's loop, so a step is also what lies   *)
(* between two places where poll_read may return Pending and be called     *)
(* again.  A word is a record; the CRC is ideal: the sum of a frame is the *)
(* sequence of what was digested.                                          *)
(***************************************************************************)
EXTENDS Integers, Sequences

WordLen == 4          \* bytes of a Buffer

Esc == [kind |-> "esc"]                          \* 1B 1B 1B 1B
Start == [kind |-> "start"]                      \* 01 01 01 01
DataWord(d) == [kind |-> "data", data |-> d]
Footer(fill, crc) == [kind |-> "footer", fill |-> fill, crc |-> crc]
Trailer(fill) == [kind |-> "trailer", fill |-> fill]   \* 1A and fill, digested

IsFooter(w) == w.kind = "footer" /\ w.fill \in 0 .. 255   \* fill is one byte

VARIABLES state,      \* ReaderState: "ReadBuf", "ReturnBuf" or "End"
          returned,   \* of ReturnBuf: bytes of the buffer already handed out
          lastone,    \* of ReturnBuf: the buffer is the frame's last
          in_esc,     \* the last word was an escape
          inner,      \* BufferList.buffers: the words of the two buffers
          read,       \* and how many bytes of each are in use
          swapped,    \* BufferList.buffers_swapped
          digest,     \* what the CRC has digested since the start marker
          verdict,    \* "open" until poll_read has ended: "clean" or the error
          out         \* history: the bytes handed to the caller

reader == <<state, returned, lastone, in_esc, inner, read, swapped, digest, verdict, out>>

(* The indices behind BufferList::get(0) and get(1).                       *)
First == IF swapped THEN 1 ELSE 0
Second == IF swapped THEN 0 ELSE 1

NoWord == [kind |-> "none"]

(* CheckingReader::new.                                                    *)
ReaderInit ==
    /\ state = "ReadBuf"
    /\ returned = 0
    /\ lastone = FALSE
    /\ in_esc = FALSE
    /\ inner = [i \in {0, 1} |-> NoWord]
    /\ read = [i \in {0, 1} |-> 0]
    /\ swapped = FALSE
    /\ digest = << >>
    /\ verdict = "open"
    /\ out = << >>

(* ReturnBuf with what get(0) holds, or on to the next read if that is     *)
(* nothing.                                                                *)
ReturnPrevious ==
    /\ swapped' = ~swapped
    /\ IF read[Second] > 0
       THEN state' = "ReturnBuf" /\ returned' = 0 /\ lastone' = FALSE
       ELSE UNCHANGED <<state, returned, lastone>>

FirstHolds(w, n) ==
    /\ inner' = [inner EXCEPT ![First] = w]
    /\ read' = [read EXCEPT ![First] = n]

(* The inner reader can deliver only where there is room.                  *)
CanRead == state = "ReadBuf" /\ read[First] < WordLen

Fail(error) ==
    /\ state' = "End"
    /\ verdict' = error
    /\ UNCHANGED <<returned, lastone, in_esc, swapped, out>>

(* The inner reader delivers n bytes, not yet the whole word.              *)
ReadPart(n) ==
    /\ CanRead /\ read[First] + n < WordLen
    /\ read' = [read EXCEPT ![First] = @ + n]
    /\ UNCHANGED <<state, returned, lastone, in_esc, inner, swapped, digest, verdict, out>>

(* The inner reader fails.                                                 *)
ReadError ==
    /\ CanRead
    /\ Fail("io")
    /\ UNCHANGED <<inner, read, digest>>

(* The word w is complete and is data.  The word before it is not the last *)
(* one and can be returned.                                                *)
ReadData(w) ==
    /\ CanRead /\ ~in_esc /\ w # Esc
    /\ digest' = Append(digest, w)
    /\ FirstHolds(w, WordLen)
    /\ ReturnPrevious
    /\ UNCHANGED <<in_esc, verdict, out>>

(* Mutant: an escape word stays in the buffer.                             *)
ReadEscapeKeeps(w) ==
    /\ CanRead /\ ~in_esc /\ w = Esc
    /\ digest' = Append(digest, w)
    /\ FirstHolds(w, WordLen)
    /\ in_esc' = TRUE
    /\ UNCHANGED <<state, returned, lastone, swapped, verdict, out>>

(* The word w begins an escape sequence.                                   *)
ReadEscape(w) ==
    /\ CanRead /\ ~in_esc /\ w = Esc
    /\ digest' = Append(digest, w)
    /\ FirstHolds(w, 0)
    /\ in_esc' = TRUE
    /\ UNCHANGED <<state, returned, lastone, swapped, verdict, out>>

(* A second escape word: the payload itself holds 1B 1B 1B 1B.             *)
ReadEscapedEscape(w) ==
    /\ CanRead /\ in_esc /\ w = Esc
    /\ in_esc' = FALSE
    /\ digest' = Append(digest, w)
    /\ FirstHolds(w, WordLen)
    /\ ReturnPrevious
    /\ UNCHANGED <<verdict, out>>

(* Mutant: a CRC mismatch is only logged.                                  *)
ReadGoodFooterTrusts(w) ==
    /\ CanRead /\ in_esc /\ IsFooter(w)
    /\ w.fill <= 3 /\ w.fill <= read[Second]
    /\ digest' = Append(digest, Trailer(w.fill))
    /\ swapped' = ~swapped
    /\ inner' = [inner EXCEPT ![First] = w]
    /\ read' = [read EXCEPT ![First] = 0, ![Second] = @ - w.fill]
    /\ state' = "ReturnBuf" /\ returned' = 0 /\ lastone' = TRUE
    /\ UNCHANGED <<in_esc, verdict, out>>

(* Mutant: the fill bytes are left in place.                               *)
ReadGoodFooterKeepsFill(w) ==
    /\ CanRead /\ in_esc /\ IsFooter(w)
    /\ w.crc = Append(digest, Trailer(w.fill))
    /\ digest' = w.crc
    /\ swapped' = ~swapped
    /\ FirstHolds(w, 0)
    /\ state' = "ReturnBuf" /\ returned' = 0 /\ lastone' = TRUE
    /\ UNCHANGED <<in_esc, verdict, out>>

(* The footer.  If its CRC does not match, or it declares more fill bytes  *)
(* than three or than the last word of data has, the frame is bad.         *)
ReadBadFooter(w) ==
    /\ CanRead /\ in_esc /\ IsFooter(w)
    /\ digest' = Append(digest, Trailer(w.fill))
    /\ FirstHolds(w, 0)
    /\ state' = "End"
    /\ \/ w.crc # digest' /\ verdict' = "crc" /\ UNCHANGED swapped
       \/ /\ w.crc = digest'
          /\ w.fill > 3 \/ read[Second] < w.fill
          /\ verdict' = "fill"
          /\ swapped' = ~swapped
    /\ UNCHANGED <<returned, lastone, in_esc, out>>

(* Otherwise the fill bytes are cut off the last word of data, which is    *)
(* then returned as the last one.                                          *)
ReadGoodFooter(w) ==
    /\ CanRead /\ in_esc /\ IsFooter(w)
    /\ digest' = Append(digest, Trailer(w.fill))
    /\ w.crc = digest'
    /\ w.fill <= 3 /\ w.fill <= read[Second]
    /\ swapped' = ~swapped
    /\ inner' = [inner EXCEPT ![First] = w]
    /\ read' = [read EXCEPT ![First] = 0, ![Second] = @ - w.fill]
    /\ state' = "ReturnBuf" /\ returned' = 0 /\ lastone' = TRUE
    /\ UNCHANGED <<in_esc, verdict, out>>

(* Any other escape sequence, the second half of a start marker included.  *)
ReadUnsupported(w) ==
    /\ CanRead /\ in_esc /\ w # Esc /\ ~IsFooter(w)
    /\ Fail("unsupported")
    /\ FirstHolds(w, WordLen)
    /\ UNCHANGED digest

ReadWord(w) ==
    ReadData(w) \/ ReadEscape(w) \/ ReadEscapedEscape(w)
      \/ ReadBadFooter(w) \/ ReadGoodFooter(w) \/ ReadUnsupported(w)

(* Mutant: the end shows only at the next call.                            *)
ReturnLate(len) ==
    /\ state = "ReturnBuf" /\ returned < read[First]
    /\ LET left == read[First] - returned
           copysize == IF len < left THEN len ELSE left
       IN  /\ out' = out \o [i \in 1 .. copysize |-> <<inner[First], returned + i>>]
           /\ returned' = returned + copysize
    /\ UNCHANGED <<state, lastone, in_esc, inner, read, swapped, digest, verdict>>

(* ReturnBuf: the caller's buffer has room for len bytes.  The last byte   *)
(* of the last word ends the frame at once, so that has_ended is true      *)
(* before the caller asks again.                                           *)
Return(len) ==
    /\ state = "ReturnBuf" /\ returned < read[First]
    /\ LET left == read[First] - returned
           copysize == IF len < left THEN len ELSE left
           over == lastone /\ copysize = left
       IN  /\ out' = out \o [i \in 1 .. copysize |-> <<inner[First], returned + i>>]
           /\ returned' = returned + copysize
           /\ read' = (IF over THEN [read EXCEPT ![First] = 0] ELSE read)
           /\ state' = (IF over THEN "End" ELSE state)
           /\ verdict' = (IF over THEN "clean" ELSE verdict)
    /\ UNCHANGED <<lastone, in_esc, inner, swapped, digest>>

(* Nothing is left to return: the buffer is free for the next word.        *)
Returned ==
    /\ state = "ReturnBuf" /\ returned = read[First]
    /\ read' = [read EXCEPT ![First] = 0]
    /\ state' = (IF lastone THEN "End" ELSE "ReadBuf")
    /\ verdict' = (IF lastone THEN "clean" ELSE verdict)
    /\ UNCHANGED <<returned, lastone, in_esc, inner, swapped, digest, out>>

has_ended == state = "End"
=============================================================================
