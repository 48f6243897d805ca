--------------------------- MODULE MessageParser ---------------------------
(***************************************************************************)
(* modules/rust/sml/templates/messages.rs: the parser that is generated    *)
(* from the types SpecParser read, and a program that walks through one    *)
(* message with it, by any sequence of calls the borrow checker allows.    *)
(*                                                                         *)
(* A document is the tree of items a message consists of.  How the reader  *)
(* finds the next item of a list in the bytes, also behind items that were *)
(* not read to their end, is TlvReader.  An object of the generated code   *)
(* borrows the list of the object it came from, so that only the youngest  *)
(* can be used: the objects are a stack.                                   *)
(*                                                                         *)
(* An end mark stands nowhere but at the end of a message, though it may   *)
(* come too early, and a program that asks there for a field it parses is  *)
(* not followed any further: in the code the mark is then read but not     *)
(* counted (List::next), so that the list's next item is one from behind   *)
(* the message.                                                            *)
(***************************************************************************)
EXTENDS SpecParser

CONSTANTS Items,        \* what a list may contain
          Documents,    \* messages, as sequences of items
          Sent,         \* what a meter sends and as what: <<item, type's name>>
          NoDocument,
          Nothing       \* where there is no item

(* An item: value is its value if a tag, items are those of a list.        *)
Item(ty, len, value, items) == [ty |-> ty, len |-> len, value |-> value, items |-> items]

None == Item("String", 0, 0, << >>)      \* 0x01, an absent OPTIONAL
EndMark == Item("End", 0, 0, << >>)      \* 0x00, only where a message ends

(* Lists contain items, as deep as they are nested; end marks are not in   *)
(* them, and the last item of a message if in it.                          *)
ASSUME ItemsAssumption ==
    /\ Documents \subseteq Seq(Items) /\ NoDocument \notin Documents
    /\ \A item \in Items : item.items \in Seq(Items) /\ item.len \in AnyLength
    /\ Nothing \notin Items
    /\ \A item \in Items : \A i \in DOMAIN item.items : item.items[i] # EndMark
    /\ \A d \in Documents : \A i \in DOMAIN d : d[i] = EndMark => i = Len(d)

VARIABLES document,     \* the message
          stack,        \* the objects the program holds, youngest last
          last          \* the last item asked for, what it was and the result

walkvars == <<document, stack, last>>
vars == <<genvars, walkvars>>

IsNumber(ty) == ty \in Primitives
IsList(ty) == ~HasItsOwnItem(ty) /\ ty \in DOMAIN types /\ ~IsImplicit(ty)

(* kind "FIELD" is a ...Complex struct, which stands before a field.       *)
Object(kind, type, items) ==
    [kind |-> kind, type |-> type, id |-> 1, items |-> items, next |-> 1, parsed |-> FALSE]

Fields(o) == types[o.type].fields
ListLen(o) == Len(o.items) - o.next + 1

Top == Last(stack)
Under == Front(stack)
Replace(objects) == stack' = Under \o objects

Call(ty, item, error) == [asked |-> ty, read |-> item, error |-> error]

InitWalk ==
    /\ document = NoDocument
    /\ stack = << >>
    /\ last = Call("none", Nothing, "none")

Using(kind) == genpc = "done" /\ stack # << >> /\ Top.kind = kind

-----------------------------------------------------------------------------
(* What parse_field and the functions of smlfn do with the next item.      *)

NextItem(o) == IF ListLen(o) = 0 THEN Nothing ELSE o.items[o.next]

(* Mutant: an item is counted that is not there.                           *)
ConsumedPastEnd(o) == [o EXCEPT !.next = @ + 1]

Consumed(o) == [o EXCEPT !.next = @ + (IF ListLen(o) = 0 THEN 0 ELSE 1)]

NumberError(ty, item) ==
    CASE item = None -> "NoneTlv"
      [] item.ty # Variant(ty) -> "UnexpectedValue"
      [] OTHER -> IF item.len \in (IF ty = "Boolean" THEN {1} ELSE Lengths(ty))
                  THEN "none" ELSE "UnsupportedLen"

ListError(ty, item) ==
    CASE item = None -> "NoneTlv"
      [] item.ty # "List" -> "UnexpectedValue"
      [] OTHER -> IF types[ty].kind = "CHOICE" /\ Len(item.items) # 2
                  THEN "UnsupportedLen" ELSE "none"

StringError(item) ==
    CASE item = None -> "NoneTlv"
      [] item.ty # "String" -> "UnexpectedValue"
      [] OTHER -> "none"

ParseError(ty, item) ==
    CASE item = Nothing -> "EndOfList"
      [] item = EndMark -> "EndOfSmlMessage"
      [] OTHER -> IF IsNumber(ty) THEN NumberError(ty, item)
                  ELSE IF IsList(ty) THEN ListError(ty, item)
                  ELSE IF ty = "Octet_String" THEN StringError(item)
                  ELSE "none"

(* A number, a flag or a string is no object to go on with.                *)
Child(ty, item) ==
    CASE IsList(ty) -> <<Object(types[ty].kind, ty, item.items)>>
      [] IsImplicit(ty) -> <<Object("IMPLICIT_CHOICE", ty, <<item>>)>>
      [] OTHER -> << >>

(* The object o asks for the next item as a ty: on success o continues as  *)
(* `then` and the item's object, if it has one, is on top of it.           *)
ParseField(o, ty, then, failed) ==
    LET item  == NextItem(o)
        error == ParseError(ty, item)
    IN  /\ last' = Call(ty, item, error)
        /\ Replace(IF error = "none" THEN then \o Child(ty, item) ELSE failed)

-----------------------------------------------------------------------------
(* The fields of a sequence.                                               *)

(* The structs name the types of their fields.  A sequence has a struct for *)
(* each of its fields, so that the crate does not compile when it names    *)
(* one that has none.                                                      *)
FieldTypes(type) == {Resolve(type.fields[i].ty) : i \in DOMAIN type.fields}
Named == {"SML_Message"} \union UNION {FieldTypes(types[n]) : n \in DOMAIN types}

HasFields(ty) == types[ty].kind = "SEQUENCE" => types[ty].fields # << >>

(* What a field, an entry or a variant may be: ParseField and FromTlvItem  *)
(* are implemented for it.  A SEQUENCE OF several types is left out here,  *)
(* as its parse_field only says that it is not implemented.                *)
HasParser(kind, ty) ==
    \/ ty = "Octet_String"
    \/ IsNumber(ty) /\ kind # "SEQUENCE_OF"
    \/ ty = "EndOfSmlMsg" /\ kind = "SEQUENCE"
    \/ /\ ty \in DOMAIN types
       /\ kind = "IMPLICIT_CHOICE" => types[ty].kind \in {"SEQUENCE", "CHOICE"}
       /\ types[ty].kind = "SEQUENCE_OF" => DOMAIN types[ty].fields = {1}

(* read_frame names the struct of a message.                               *)
Compiles ==
    /\ "SML_Message" \in DOMAIN types /\ types["SML_Message"].kind = "SEQUENCE"
    /\ \A ty \in Named : IsList(ty) => HasFields(ty)
    /\ \A n \in DOMAIN types :
          \A ty \in FieldTypes(types[n]) : HasParser(types[n].kind, ty)

(* read_frame: Message::from_tlv_list.                                     *)
OpenMessage ==
    /\ genpc = "done" /\ document = NoDocument /\ Compiles
    /\ document' \in Documents
    /\ stack' = <<Object("SEQUENCE", "SML_Message", document')>>
    /\ UNCHANGED last

(* The struct of the field behind field id, unless that was the last one.  *)
Behind(o) ==
    IF o.id = Len(Fields(o)) THEN << >>
    ELSE <<[o EXCEPT !.kind = "SEQUENCE", !.id = @ + 1, !.parsed = FALSE]>>

NumberField(o, ty, optional) ==
    IF optional /\ NextItem(o) = None
    THEN last' = Call(ty, None, "none") /\ Replace(Behind(Consumed(o)))
    ELSE ParseField(o, ty, Behind(Consumed(o)), << >>)

NextEnd(o) ==
    /\ last' = Call("EndOfSmlMsg", NextItem(o),
                    IF NextItem(o) = EndMark THEN "none" ELSE "UnexpectedValue")
    /\ Replace(<< >>)

(* List::skip is given the number of fields that were left out.            *)
CallField ==
    /\ Using("SEQUENCE")
    /\ \E id2 \in Top.id .. Len(Fields(Top)) :
          LET num_skip == id2 - Top.id
              field    == Fields(Top)[id2]
              ty       == Resolve(field.ty)
              o        == [Top EXCEPT !.id = id2, !.next = @ + num_skip]
          IN  \/ /\ num_skip > ListLen(Top)
                 /\ last' = Call("skip", Nothing, "EndOfList")
                 /\ Replace(<< >>)
              \/ /\ num_skip <= ListLen(Top)
                 /\ \/ IsNumber(ty) /\ NumberField(o, ty, field.optional)
                    \/ ty = "EndOfSmlMsg" /\ NextEnd(o)
                    \/ /\ ~IsNumber(ty) /\ ty # "EndOfSmlMsg"
                       /\ Replace(<<[o EXCEPT !.kind = "FIELD"]>>)
                       /\ UNCHANGED last
    /\ UNCHANGED <<genvars, document>>

FieldType(o) == Resolve(Fields(o)[o.id].ty)

(* Complex::parse may be called once, whether it fails or not.  A program  *)
(* that has met an end mark instead is not followed.                       *)
Parse ==
    /\ Using("FIELD")
    /\ \/ /\ Top.parsed
          /\ last' = Call(FieldType(Top), Nothing, "CantParseTwice")
          /\ UNCHANGED stack
       \/ /\ ~Top.parsed
          /\ LET o == <<[Consumed(Top) EXCEPT !.parsed = TRUE]>>
             IN  ParseField(Top, FieldType(Top), o,
                            IF NextItem(Top) = EndMark THEN << >> ELSE o)
    /\ UNCHANGED <<genvars, document>>

(* Mutant: a field that was not parsed is not parsed by finish either.     *)
FinishForgets ==
    /\ Using("FIELD")
    /\ Replace(Behind(Top))
    /\ UNCHANGED <<genvars, document, last>>

(* Complex::finish parses the field if that was not done and drops it.     *)
Finish ==
    /\ Using("FIELD")
    /\ LET ty    == FieldType(Top)
           item  == NextItem(Top)
           error == ParseError(ty, item)
       IN  \/ /\ Top.parsed
              /\ Replace(Behind(Top))
              /\ UNCHANGED last
           \/ /\ ~Top.parsed
              /\ Replace(IF error = "none" THEN Behind(Consumed(Top)) ELSE << >>)
              /\ last' = Call(ty, item, error)
    /\ UNCHANGED <<genvars, document>>

-----------------------------------------------------------------------------
(* The other kinds.                                                        *)

(* next() of a SEQUENCE OF with one type.                                  *)
NextEntry ==
    /\ Using("SEQUENCE_OF") /\ DOMAIN Fields(Top) = {1}
    /\ LET ty == FieldType(Top)
           o  == <<Consumed(Top)>>
       IN  IF ListLen(Top) = 0 THEN UNCHANGED <<stack, last>>
           ELSE ParseField(Top, ty, o, o)
    /\ UNCHANGED <<genvars, document>>

(* next_unsigned and into_u32_relaxed.                                     *)
TagError(item) ==
    CASE item = Nothing -> "EndOfList"
      [] item = EndMark -> "EndOfSmlMessage"
      [] item = None -> "NoneTlv"
      [] item.ty # "Unsigned" -> "UnexpectedValue"
      [] OTHER -> IF item.len \in 1 .. 4 THEN "none" ELSE "UnsupportedLen"

ReadChoice ==
    /\ Using("CHOICE")
    /\ LET tag      == NextItem(Top)
           error    == TagError(tag)
           o        == [Consumed(Top) EXCEPT !.parsed = TRUE]
           variants == {i \in DOMAIN Fields(Top) : Fields(Top)[i].tag = tag.value}
       IN  \/ /\ Top.parsed
              /\ last' = Call("tag", Nothing, "CantParseTwice")
              /\ UNCHANGED stack
           \/ /\ ~Top.parsed /\ error # "none"
              /\ last' = Call("tag", tag, error)
              /\ Replace(<<o>>)
           \/ /\ ~Top.parsed /\ error = "none" /\ variants = {}
              /\ last' = Call("tag", tag, "UnsupportedTag")
              /\ Replace(<<o>>)
           \/ /\ ~Top.parsed /\ error = "none"
              /\ \E i \in variants :
                    ParseField(o, Resolve(Fields(Top)[i].ty), <<Consumed(o)>>, <<Consumed(o)>>)
    /\ UNCHANGED <<genvars, document>>

(* from_tlv_item of a variant whose arm was taken: only flags can fail.    *)
FromItem(ty, item) ==
    /\ last' = Call(ty, item, IF ty = "Boolean" /\ item.len # 1
                              THEN "UnsupportedLen" ELSE "none")
    /\ Replace(Child(ty, item))

ReadImplicitChoice ==
    /\ Using("IMPLICIT_CHOICE")
    /\ LET item == Top.items[1]
           arms == {i \in DOMAIN Fields(Top) :
                       item # None /\ <<item.ty, item.len>> \in TlvTypes[Fields(Top)[i].ty]}
       IN  \/ \E i \in arms : FromItem(Resolve(Fields(Top)[i].ty), item)
           \/ /\ arms = {}
              /\ last' = Call("variant", item, "UnexpectedValue")
              /\ Replace(<< >>)
    /\ UNCHANGED <<genvars, document>>

(* What is not read of it is skipped when the list below is read on.       *)
DropTop ==
    /\ genpc = "done" /\ stack # << >>
    /\ Replace(<< >>)
    /\ UNCHANGED <<genvars, document, last>>

Walk ==
    \/ OpenMessage /\ UNCHANGED genvars
    \/ CallField \/ Parse \/ Finish
    \/ NextEntry \/ ReadChoice \/ ReadImplicitChoice
    \/ DropTop

Init == GenInit /\ InitWalk

Next ==
    \/ Generate /\ UNCHANGED walkvars
    \/ Walk

Spec == Init /\ [][Next]_vars

-----------------------------------------------------------------------------
Errors == {"none", "EndOfList", "EndOfSmlMessage", "NoneTlv", "UnexpectedValue", "UnsupportedLen",
           "UnsupportedTag", "CantParseTwice"}

(* Everything is of its type; an object belongs to a type that was read.   *)
TypeOK ==
    /\ GenTypeOK
    /\ document \in Documents \union {NoDocument}
    /\ last.error \in Errors
    /\ \A i \in DOMAIN stack :
          LET o == stack[i] IN
          /\ o.type \in DOMAIN types
          /\ o.kind \in {types[o.type].kind, "FIELD"}
          /\ o.next \in 1 .. Len(o.items) + 1
          /\ o.kind \in {"SEQUENCE", "FIELD"} => o.id \in DOMAIN Fields(o)

(* A function of a field reads that field's item, whichever fields were    *)
(* left out (skip), finished without being parsed (finish) or dropped half *)
(* read before it: the type of the struct says where its list stands.      *)
FieldIsItsItem ==
    \A i \in DOMAIN stack :
        LET o    == stack[i]
            seen == o.id + (IF o.kind = "FIELD" /\ o.parsed THEN 1 ELSE 0)
        IN  o.kind \in {"SEQUENCE", "FIELD"} => o.next = Min({seen, Len(o.items) + 1})

-----------------------------------------------------------------------------
(* Messages that follow the specification.  What a list contains must be   *)
(* among what is sent itself, so that one rule for each kind is enough.    *)

As(item, name) == <<item, Resolve(name)>> \in Sent

(* A number may be sent without leading zeros, as far as tlv.rs takes it.  *)
Width(ty) == CASE ty \in {"Unsigned8", "Integer8", "Boolean"} -> 1
               [] ty \in {"Unsigned16", "Integer16"} -> 2
               [] ty \in {"Unsigned32", "Integer32"} -> 4
               [] ty \in {"Unsigned64", "Integer64"} -> 8

FitsNumber(item, ty) ==
    item.ty = Variant(ty) /\ item.len \in Width(ty) \div 2 + 1 .. Width(ty)

FitsField(item, field) ==
    \/ field.optional /\ item = None
    \/ IF Resolve(field.ty) = "EndOfSmlMsg" THEN item = EndMark ELSE As(item, field.ty)

FitsFields(items, fields) ==
    /\ Len(items) = Len(fields)
    /\ \A i \in DOMAIN fields : FitsField(items[i], fields[i])

FitsEntries(items, fields) ==
    \A i \in DOMAIN items, j \in DOMAIN fields : As(items[i], fields[j].ty)

FitsChoice(items, fields) ==
    LET variants == {i \in DOMAIN fields : fields[i].tag = items[1].value}
    IN  /\ Len(items) = 2 /\ items[1].ty = "Unsigned" /\ items[1].len \in 1 .. 4
        /\ variants # {} /\ \A i \in variants : As(items[2], fields[i].ty)

(* A variant that is a typedef is not covered, see VariantsToldApart.      *)
FitsVariant(item, fields) ==
    /\ \A i \in DOMAIN fields : fields[i].ty \notin DOMAIN typedefs
    /\ \E i \in DOMAIN fields : As(item, fields[i].ty)

FitsType(item, type) ==
    \/ type.kind = "IMPLICIT_CHOICE" /\ FitsVariant(item, type.fields)
    \/ /\ item.ty = "List"
       /\ \/ type.kind = "SEQUENCE" /\ FitsFields(item.items, type.fields)
          \/ type.kind = "SEQUENCE_OF" /\ FitsEntries(item.items, type.fields)
          \/ type.kind = "CHOICE" /\ FitsChoice(item.items, type.fields)

Fits(item, ty) ==
    CASE IsNumber(ty) -> FitsNumber(item, ty)
      [] ty = "Octet_String" -> item.ty = "String"
      [] OTHER -> ty \in DOMAIN types /\ FitsType(item, types[ty])

Faithful == \A s \in Sent : Fits(s[1], s[2])
Conforming == Faithful /\ FitsFields(document, types["SML_Message"].fields)

(* Only a field that is no number cannot be asked for when it is absent.   *)
Refused ==
    /\ last.error \notin {"none", "CantParseTwice"}
    /\ last.read = None => IsNumber(last.asked)

(* A message that follows the specification is never refused, in whatever  *)
(* order and however far it is read.                                       *)
NoFalseRefusal == document # NoDocument /\ Conforming => ~Refused
=============================================================================
