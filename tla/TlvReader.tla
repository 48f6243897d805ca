------------------------------ MODULE TlvReader ------------------------------
(***************************************************************************)
(* modules/rust/sml/src/tlv.rs: the reader of SML's type-length-value      *)
(* items and the program that walks a document with it.                    *)
(*                                                                         *)
(* The program may do whatever the borrow checker allows: use the          *)
(* innermost open list, read, refuse or drop the item it was given, drop a *)
(* list with items unread.  Dropping moves nothing in the stream; it only  *)
(* adds to remaining_bytes or remaining_tlvs, which the next read skips.   *)
(* What is read is what the item's type and length announce; the           *)
(* conversion of values (into_u8 ...) either takes an item or refuses it.  *)
(***************************************************************************)
EXTENDS Integers, SequencesExt

CONSTANTS Documents,   \* byte sequences that may arrive
          UsizeRange   \* bound: 2^32 on the device, scaled down here

Byte == 0 .. 255

ASSUME TlvReaderAssumption ==
    /\ Documents \subseteq Seq(Byte)
    /\ UsizeRange \in Nat \ {0} /\ UsizeRange % 16 = 0

VARIABLES stream,           \* the document
          arrived,          \* bytes of it before the frame ends
          pos,              \* the next byte
          remaining_bytes,
          remaining_tlvs,
          num,              \* the items skip_tlvs has yet to skip
          open,             \* the open lists, the innermost last
          item,             \* the item handed out, or NoItem
          pc,               \* "program", "skip_bytes", "skip_tlvs", "failed"
          call,             \* the call that is being or was last served
          result,           \* its result
          messages          \* history: lists given out by read_list

reader == <<pos, remaining_bytes, remaining_tlvs, num>>
vars == <<stream, arrived, reader, open, item, pc, call, result, messages>>

-----------------------------------------------------------------------------
(* Headers.                                                                *)

HasMore(b) == b >= 128
TyRaw(b) == (b \div 16) % 8
Nibble(b) == b % 16

TlvType == [raw \in 0 .. 7 |->
    CASE raw = 0 -> "String"   [] raw = 4 -> "Boolean" [] raw = 5 -> "Integer"
      [] raw = 6 -> "Unsigned" [] raw = 7 -> "List"    [] OTHER -> "Other"]

(* The byte the header at p ends with: the first without more behind it or *)
(* with a type where none may be; or that behind the end of what arrived.  *)
HeaderStop(p, end) ==
    CHOOSE q \in p .. end + 1 :
        /\ q <= end => ~HasMore(stream[q]) \/ (q > p /\ TyRaw(stream[q]) # 0)
        /\ \A r \in p .. q - 1 : HasMore(stream[r]) /\ (r > p => TyRaw(stream[r]) = 0)

(* checked_shl tests the distance of the shift, not the bits it drops, and *)
(* behind it there is always room for four bits.                           *)
ShiftIn(len, b) == ((len * 16) % UsizeRange) + Nibble(b)

HeaderLen(p, stop) ==
    LET len[q \in p .. stop] == ShiftIn(IF q = p THEN 0 ELSE len[q - 1], stream[q])
    IN  len[stop]

Outcome(res, ty, len, next) == [result |-> res, ty |-> ty, len |-> len, next |-> next]

(* read_tlv_inner: which bytes the length counts is decided by the type of *)
(* the header's last byte.                                                 *)
ReadTlvInner(p) ==
    LET stop == HeaderStop(p, arrived)
        size == stop - p + 1
        ty == TlvType[TyRaw(stream[p])]
        last == TlvType[TyRaw(stream[stop])]
        len == HeaderLen(p, stop)
        error(e) == Outcome(e, ty, 0, stop + 1)
    IN  IF stop > arrived THEN Outcome("Io", "Other", 0, p)
        ELSE IF size > 1 /\ TyRaw(stream[stop]) # 0 THEN error("MultibyteTlvReservedType")
        ELSE IF last = "List" THEN Outcome("ok", ty, len, stop + 1)
        ELSE IF last = "String" /\ len = 0 THEN error("EndOfSmlMessage")
        ELSE IF len < size THEN error("ShortTlvLength")
        ELSE Outcome("ok", ty, len - size, stop + 1)

-----------------------------------------------------------------------------
NoItem == [at |-> 0, len |-> 0]

Results == {"ok", "UnexpectedValue", "Io", "MultibyteTlvReservedType", "EndOfSmlMessage",
            "ShortTlvLength", "MidMessageEndMarker", "UnsupportedTlvType", "UnexpectedTlv"}

OpenList == [at : Nat, size : Nat, len : Nat]

TypeOK ==
    /\ stream \in Documents /\ arrived \in 0 .. Len(stream)
    /\ pos \in 1 .. arrived + 1
    /\ remaining_bytes \in Nat /\ remaining_tlvs \in Nat /\ num \in Nat
    /\ open \in Seq(OpenList)
    /\ \A i \in 1 .. Len(open) : open[i].len <= open[i].size
    /\ item \in [at : Nat, len : Nat]
    /\ pc \in {"program", "skip_bytes", "skip_tlvs", "failed"}
    /\ call \in {"none", "read_list", "next", "next_end", "skip_now"}
    /\ result \in Results
    /\ messages \in Nat

Init ==
    /\ stream \in Documents
    /\ arrived \in 0 .. Len(stream)
    /\ pos = 1
    /\ remaining_bytes = 0 /\ remaining_tlvs = 0 /\ num = 0
    /\ open = << >> /\ item = NoItem
    /\ pc = "program" /\ call = "none" /\ result = "ok"
    /\ messages = 0

Innermost == open[Len(open)]
LessItems(n) == [open EXCEPT ![Len(open)].len = @ - n]

-----------------------------------------------------------------------------
(* The program's calls.                                                    *)

Call(c) ==
    /\ pc = "program" /\ item = NoItem
    /\ pc' = "skip_bytes"
    /\ call' = c
    /\ UNCHANGED <<stream, arrived, reader, open, item, result, messages>>

(* Nothing that borrows the reader is alive.                               *)
ReadList == open = << >> /\ Call("read_list")

(* With no item left List::next touches nothing.                           *)
ListNext == open # << >> /\ Innermost.len > 0 /\ Call("next")
NextEnd == open # << >> /\ Innermost.len > 0 /\ Call("next_end")

(* read_frame reaches for the reader below an open list.                   *)
SkipNow == open # << >> /\ Call("skip_now")

(* Mutant: the skipped items still count as unread.                        *)
SkipCountsTwice(n) ==
    /\ pc = "program" /\ item = NoItem /\ open # << >>
    /\ n <= Innermost.len
    /\ remaining_tlvs' = remaining_tlvs + n
    /\ UNCHANGED <<stream, arrived, pos, remaining_bytes, num, open, item, pc, call,
                   result, messages>>

(* List::skip only counts.                                                 *)
Skip(n) ==
    /\ pc = "program" /\ item = NoItem /\ open # << >>
    /\ n <= Innermost.len
    /\ remaining_tlvs' = remaining_tlvs + n
    /\ open' = LessItems(n)
    /\ UNCHANGED <<stream, arrived, pos, remaining_bytes, num, item, pc, call, result,
                   messages>>

(* Mutant: a value the frame ends in is taken for whole.                   *)
ReadItemPastEnd ==
    /\ pc = "program" /\ item.len > 0
    /\ pos' = pos + item.len
    /\ item' = [item EXCEPT !.len = 0]
    /\ UNCHANGED <<stream, arrived, remaining_bytes, remaining_tlvs, num, open, pc, call,
                   result, messages>>

(* String::read and the into_ conversions, when they accept the length.    *)
ReadItem ==
    /\ pc = "program" /\ item.len > 0
    /\ IF pos + item.len - 1 <= arrived
         THEN /\ pos' = pos + item.len
              /\ item' = [item EXCEPT !.len = 0]
              /\ UNCHANGED <<pc, result>>
         ELSE /\ pc' = "failed" /\ result' = "Io"
              /\ UNCHANGED <<pos, item>>
    /\ UNCHANGED <<stream, arrived, remaining_bytes, remaining_tlvs, num, open, call,
                   messages>>

(* Drop of an item, read, refused or ignored.                              *)
DropItem ==
    /\ pc = "program" /\ item # NoItem
    /\ item' = NoItem
    /\ remaining_bytes' = remaining_bytes + item.len
    /\ UNCHANGED <<stream, arrived, pos, remaining_tlvs, num, open, pc, call, result,
                   messages>>

(* Mutant: the items a dropped list leaves replace those already counted.  *)
DropListReplaces ==
    /\ pc = "program" /\ item = NoItem /\ open # << >>
    /\ remaining_tlvs' = Innermost.len
    /\ open' = SubSeq(open, 1, Len(open) - 1)
    /\ UNCHANGED <<stream, arrived, pos, remaining_bytes, num, item, pc, call, result,
                   messages>>

DropList ==
    /\ pc = "program" /\ item = NoItem /\ open # << >>
    /\ remaining_tlvs' = remaining_tlvs + Innermost.len
    /\ open' = SubSeq(open, 1, Len(open) - 1)
    /\ UNCHANGED <<stream, arrived, pos, remaining_bytes, num, item, pc, call, result,
                   messages>>

-----------------------------------------------------------------------------
(* Serving a call: skip_now, then the header.                              *)

Fail(e) ==
    /\ pc' = "failed" /\ result' = e
    /\ UNCHANGED <<reader, open, item, messages>>

SkipBytes ==
    /\ pc = "skip_bytes"
    /\ IF pos + remaining_bytes - 1 <= arrived
         THEN /\ pos' = pos + remaining_bytes
              /\ remaining_bytes' = 0
              /\ num' = remaining_tlvs
              /\ pc' = "skip_tlvs"
              /\ UNCHANGED <<remaining_tlvs, open, item, result, messages>>
         ELSE Fail("Io")
    /\ UNCHANGED <<stream, arrived, call>>

(* next_end: an end marker, read or met while skipping, is the last item.  *)
(* The latter leaves remaining_tlvs as it is.                              *)
EndMarker(r) ==
    /\ pos' = r.next
    /\ open' = LessItems(1)
    /\ pc' = "program" /\ result' = "ok"
    /\ UNCHANGED <<remaining_bytes, num, item, messages>>

(* Mutant: the items of a skipped list are taken for its bytes.            *)
SkipTlvFlat ==
    /\ pc = "skip_tlvs" /\ num > 0
    /\ LET r == ReadTlvInner(pos) IN
         /\ r.result = "ok" /\ r.next + r.len - 1 <= arrived
         /\ num' = num - 1
         /\ pos' = r.next + r.len
    /\ UNCHANGED <<stream, arrived, remaining_bytes, remaining_tlvs, open, item, pc, call,
                   result, messages>>

(* One round of skip_tlvs; a list's items join those to skip.              *)
SkipTlv ==
    /\ pc = "skip_tlvs" /\ num > 0
    /\ LET r == ReadTlvInner(pos)
           valueEnd == IF r.ty = "List" THEN r.next - 1 ELSE r.next + r.len - 1
       IN  \/ /\ r.result = "ok" /\ valueEnd <= arrived
              /\ num' = num - 1 + (IF r.ty = "List" THEN r.len ELSE 0)
              /\ pos' = valueEnd + 1
              /\ UNCHANGED <<remaining_bytes, remaining_tlvs, open, item, pc, result, messages>>
           \/ r.result = "ok" /\ valueEnd > arrived /\ Fail("Io")
           \/ /\ r.result = "EndOfSmlMessage" /\ num = 1 /\ call = "next_end"
              /\ EndMarker(r) /\ UNCHANGED remaining_tlvs
           \/ r.result = "EndOfSmlMessage" /\ num > 1 /\ Fail("MidMessageEndMarker")
           \/ /\ r.result # "ok"
              /\ r.result = "EndOfSmlMessage" => num = 1 /\ call # "next_end"
              /\ Fail(r.result)
    /\ UNCHANGED <<stream, arrived, call>>

SkipNowEnds ==
    /\ pc = "skip_tlvs" /\ num = 0 /\ call = "skip_now"
    /\ remaining_tlvs' = 0
    /\ pc' = "program" /\ result' = "ok"
    /\ UNCHANGED <<stream, arrived, pos, remaining_bytes, num, open, item, call, messages>>

Opened(r) == [at |-> pos, size |-> r.len, len |-> r.len]

GiveMessage(r) ==
    /\ call = "read_list" /\ r.ty = "List"
    /\ pos' = r.next
    /\ open' = <<Opened(r)>>
    /\ messages' = messages + 1
    /\ pc' = "program" /\ result' = "ok"
    /\ UNCHANGED <<remaining_bytes, num, item>>

GiveItem(r) ==
    /\ call = "next"
    /\ pos' = r.next
    /\ IF r.ty = "List" THEN open' = Append(LessItems(1), Opened(r)) /\ UNCHANGED item
                        ELSE open' = LessItems(1) /\ item' = [at |-> pos, len |-> r.len]
    /\ pc' = "program" /\ result' = "ok"
    /\ UNCHANGED <<remaining_bytes, num, messages>>

(* next_end gets something else, drops it at once and says so.             *)
RefuseItem(r) ==
    /\ call = "next_end"
    /\ pos' = r.next
    /\ open' = LessItems(1)
    /\ remaining_bytes' = (IF r.ty = "List" THEN 0 ELSE r.len)
    /\ pc' = "program" /\ result' = "UnexpectedValue"
    /\ UNCHANGED <<num, item, messages>>

ReadHeader ==
    /\ pc = "skip_tlvs" /\ num = 0 /\ call # "skip_now"
    /\ LET r == ReadTlvInner(pos)
           usable == r.result = "ok" /\ r.ty # "Other"
       IN  \/ usable /\ GiveMessage(r) /\ remaining_tlvs' = 0
           \/ usable /\ GiveItem(r) /\ remaining_tlvs' = 0
           \/ /\ usable /\ RefuseItem(r)
              /\ remaining_tlvs' = (IF r.ty = "List" THEN r.len ELSE 0)
           \/ /\ r.result = "EndOfSmlMessage" /\ call = "next_end"
              /\ EndMarker(r) /\ remaining_tlvs' = 0
           \/ /\ r.result = "ok" /\ call = "read_list" /\ r.ty # "List"
              /\ Fail("UnexpectedTlv")
           \/ /\ r.result = "ok" /\ call # "read_list" /\ r.ty = "Other"
              /\ Fail("UnsupportedTlvType")
           \/ /\ r.result # "ok"
              /\ ~(r.result = "EndOfSmlMessage" /\ call = "next_end")
              /\ Fail(r.result)
    /\ UNCHANGED <<stream, arrived, call>>

-----------------------------------------------------------------------------
Next ==
    \/ ReadList \/ ListNext \/ NextEnd \/ SkipNow
    \/ \E n \in 1 .. 2 : Skip(n)
    \/ ReadItem \/ DropItem \/ DropList
    \/ SkipBytes \/ SkipTlv \/ SkipNowEnds \/ ReadHeader

Spec == Init /\ [][Next]_vars

-----------------------------------------------------------------------------
(* What SML says of a document s: what the reader is compared to.          *)

Ends(s, p) == {q \in p .. Len(s) : ~HasMore(s[q])}
HeaderEnd(s, p) == Min(Ends(s, p))
HeaderSize(s, p) == HeaderEnd(s, p) - p + 1

Declared(s, p) ==
    LET number[q \in p .. HeaderEnd(s, p)] ==
          16 * (IF q = p THEN 0 ELSE number[q - 1]) + Nibble(s[q])
    IN  number[HeaderEnd(s, p)]

IsList(s, p) == TyRaw(s[p]) = 7

(* A value's declared length includes its header, so that an end marker is *)
(* none.  A list's header may have more than a byte in SML, not here.      *)
ValueLen(s, p) == Declared(s, p) - HeaderSize(s, p)

HeaderAllowed(s, p) ==
    /\ p <= Len(s) /\ Ends(s, p) # {}
    /\ TlvType[TyRaw(s[p])] # "Other"
    /\ \A q \in p + 1 .. HeaderEnd(s, p) : TyRaw(s[q]) = 0
    /\ IF IsList(s, p) THEN HeaderEnd(s, p) = p
                       ELSE Declared(s, p) \in HeaderSize(s, p) .. UsizeRange - 1

(* The position behind n items from p on; 0 if there are not as many.      *)
Behind(s) ==
    LET behind[p \in 1 .. Len(s) + 1] ==
          [n \in Nat |->
             IF n = 0 THEN p
             ELSE IF ~HeaderAllowed(s, p) THEN 0
             ELSE LET next == IF IsList(s, p) THEN behind[p + 1][Declared(s, p)]
                                              ELSE p + Declared(s, p)
                  IN  IF next \in p + 1 .. Len(s) + 1 THEN behind[next][n - 1] ELSE 0]
    IN  behind

(* A message is a list whose last item, and none before it, is an end      *)
(* marker.                                                                 *)
EndMark(s, p) == Behind(s)[p + 1][Declared(s, p) - 1]

IsMessage(s, p) ==
    /\ HeaderAllowed(s, p) /\ IsList(s, p) /\ Declared(s, p) > 0
    /\ EndMark(s, p) \in DOMAIN s /\ s[EndMark(s, p)] = 0

Message(s, k) ==
    LET message[i \in 1 .. k] == IF i = 1 THEN 1 ELSE EndMark(s, message[i - 1]) + 1
    IN  message[k]

IsWellFormed(s) ==
    \E n \in 0 .. Len(s) :
        /\ \A k \in 1 .. n : IsMessage(s, Message(s, k))
        /\ Message(s, n + 1) = Len(s) + 1

WellFormed == {s \in Documents : IsWellFormed(s)}

Child(list, k) == Behind(stream)[list + 1][k - 1]
Taken(i) == open[i].size - open[i].len

(* Every list and every item handed out is the next one the enclosing list *)
(* has, whatever the program has read, skipped, refused or dropped before, *)
(* and every message list is the next message: Drop, skip, skip_now and    *)
(* skip_tlvs together put the reader where reading everything would have.  *)
(* A value handed out is read from its first byte and at its full length.  *)
ItemsInOrder ==
    stream \in WellFormed =>
        /\ open # << >> => open[1].at = Message(stream, messages)
        /\ \A i \in 2 .. Len(open) : open[i].at = Child(open[i - 1].at, Taken(i - 1))
        /\ item # NoItem => item.at = Child(Innermost.at, Taken(Len(open)))
        /\ item.len > 0 => pos = HeaderEnd(stream, item.at) + 1
                            /\ item.len = ValueLen(stream, item.at)

(* Walking a well-formed document never produces an error that blames the  *)
(* document: read_frame would throw the whole frame away.                  *)
NoFalseAlarm ==
    stream \in WellFormed => result \in {"ok", "UnexpectedValue", "Io", "EndOfSmlMessage"}

(* next_end succeeds exactly at the end of a message: its list is used up  *)
(* and the next read begins with the next message's first byte.            *)
EndIsTheEnd ==
    [][(stream \in WellFormed /\ call = "next_end" /\ pc = "skip_tlvs"
          /\ pc' = "program" /\ result' = "ok")
         => /\ Len(open') = 1 /\ open'[1].len = 0
            /\ pos' = Message(stream, messages + 1)
            /\ remaining_bytes' = 0 /\ remaining_tlvs' = 0]_vars

(* What tlv.rs:357 says: "for lists the length doesn't include the header".*)
ListLengthIsItemCount ==
    \A i \in 1 .. Len(open) : open[i].size = Declared(stream, open[i].at)

(* What error.rs:20 says: a "TLV lengths field [that] doesn't fit into our *)
(* datatype for it" is an error, so an item given out has one that fits.   *)
LengthFits == item # NoItem => Declared(stream, item.at) < UsizeRange
=============================================================================
