------------------------ MODULE MessageParserProofs ------------------------
(***************************************************************************)
(* Theorems about build.rs and the parser it generates, for every          *)
(* specification and every document, whether the one follows the other or  *)
(* not: everything is of its type, the list of items never gets out of     *)
(* step with the fields, and no item fits two variants of a choice that    *)
(* passed the validation.  A document that does follow the types that were *)
(* read is never refused, and the types that were read are the ones the    *)
(* text of the specification lays out.                                     *)
(***************************************************************************)
EXTENDS MessageParser, SequenceTheorems, TLAPS

-----------------------------------------------------------------------------
(* The types that are read.                                                *)

(* What is known of the block that is being read and of the types that     *)
(* were: their fields are ones a line can define.                          *)
WellFormed(b) ==
    /\ b = [name |-> b.name, kind |-> b.kind, fields |-> b.fields]
    /\ b.kind \in Kinds
    /\ b.fields \in Seq(SchemaField)

FieldsTyped == \A n \in DOMAIN types : types[n].fields \in Seq(SchemaField)

GenInv ==
    /\ GenTypeOK
    /\ WellFormed(block)
    /\ FieldsTyped
    /\ genpc = "comment" => pending \in SchemaField

(* A line that is left is one of the text.                                 *)
LEMMA LineTyped ==
    ASSUME GenInv, Left(1)
    PROVE  /\ Line(1) \in TextLine /\ line + 1 \in 1 .. Len(spec.lines) + 2
<1>1. spec.lines \in Seq(TextLine) /\ line \in Nat \ {0} /\ Len(spec.lines) \in Nat
  BY SpecificationsAssumption DEF GenInv, GenTypeOK
<1>2. line \in 1 .. Len(spec.lines) /\ line + 1 - 1 = line
  BY <1>1 DEF Left
<1>3. spec.lines[line] \in TextLine
  BY <1>1, <1>2, ElementOfSeq
<1> QED
  BY <1>1, <1>2, <1>3 DEF Line

(* A field is appended to those before it or takes the place of one.       *)
LEMMA PutTyped ==
    ASSUME NEW fields \in Seq(SchemaField), NEW f \in SchemaField
    PROVE  Put(fields, f) \in Seq(SchemaField)
<1>1. Append(fields, f) \in Seq(SchemaField)
  OBVIOUS
<1>2. ASSUME NEW g, g = [i \in DOMAIN fields |-> IF fields[i].name = f.name THEN f ELSE fields[i]]
      PROVE  g \in Seq(SchemaField)
  <2>1. Len(fields) \in Nat /\ DOMAIN fields = 1 .. Len(fields)
    BY LenProperties
  <2>2. \A i \in 1 .. Len(fields) : fields[i] \in SchemaField
    BY ElementOfSeq
  <2>3. g \in [1 .. Len(fields) -> SchemaField]
    BY <1>2, <2>1, <2>2
  <2> QED
    BY <2>1, <2>3, SeqDef
<1> QED
  BY <1>1, <1>2 DEF Put

(* A field is added to those before it.                                    *)
LEMMA AddFieldTypes ==
    ASSUME GenInv, NEW f \in SchemaField, AddField(f), Left(1), genpc # "done"
    PROVE  GenInv'
<1>1. CASE FieldPanics(block.kind, f)
  <2>1. UNCHANGED <<spec, line, block, types>> /\ genpc' = "panic"
    BY <1>1 DEF AddField, Panic
  <2> QED
    BY <2>1 DEF GenInv, GenTypeOK, WellFormed, FieldsTyped
<1>2. CASE ~FieldPanics(block.kind, f)
  <2>1. /\ UNCHANGED <<spec, types>> /\ genpc' = "fields"
        /\ line' = line + 1 /\ block' = WithField(f)
    BY <1>2 DEF AddField
  <2>2. line + 1 \in 1 .. Len(spec.lines) + 2
    BY LineTyped
  <2>3. WellFormed(WithField(f))
    <3>1. /\ block = [name |-> block.name, kind |-> block.kind, fields |-> block.fields]
          /\ block.kind \in Kinds /\ block.fields \in Seq(SchemaField)
      BY DEF GenInv, WellFormed
    <3>2. CASE WithField(f) = block
      BY <3>1, <3>2 DEF WellFormed
    <3>3. CASE WithField(f) = [block EXCEPT !.fields = Put(block.fields, f)]
      <4> DEFINE fields == Put(block.fields, f)
      <4>1. fields \in Seq(SchemaField)
        BY <3>1, PutTyped
      <4>2. WithField(f) = [block EXCEPT !.fields = fields]
        BY <3>3
      <4> HIDE DEF fields
      <4>3. WithField(f) = [name |-> block.name, kind |-> block.kind, fields |-> fields]
        BY <3>1, <4>2
      <4> QED
        BY <3>1, <4>1, <4>3 DEF WellFormed
    <3> QED
      BY <3>2, <3>3 DEF WithField
  <2> QED
    BY <2>1, <2>2, <2>3 DEF GenInv, GenTypeOK, FieldsTyped, WellFormed
<1> QED
  BY <1>1, <1>2

(* A block that ends becomes a type.                                       *)
LEMMA CloseBlockTypes ==
    ASSUME GenInv, CloseBlock, Left(1)
    PROVE  GenInv'
<1>1. UNCHANGED <<spec, block>> /\ line' = line + 1 /\ genpc' = "outside"
  BY DEF CloseBlock
<1>2. line + 1 \in 1 .. Len(spec.lines) + 2
  BY LineTyped
<1>3. ASSUME NEW n \in DOMAIN types'
      PROVE  types'[n].kind \in Kinds /\ types'[n].fields \in Seq(SchemaField)
  <2>1. CASE types' = types
    BY <2>1 DEF GenInv, GenTypeOK, FieldsTyped
  <2>2. CASE types' = Inserted(types, block.name, [kind |-> block.kind, fields |-> block.fields])
    <3>1. DOMAIN types' = DOMAIN types \union {block.name}
      BY <2>2 DEF Inserted
    <3>2. types'[n] = IF n = block.name THEN [kind |-> block.kind, fields |-> block.fields]
                      ELSE types[n]
      BY <2>2, <3>1 DEF Inserted
    <3> QED
      BY <3>1, <3>2 DEF GenInv, GenTypeOK, FieldsTyped, WellFormed
  <2> QED
    BY <2>1, <2>2 DEF CloseBlock
<1> QED
  BY <1>1, <1>2, <1>3 DEF GenInv, GenTypeOK, FieldsTyped, WellFormed

(* Every step that reads a line keeps what is known.                       *)
LEMMA GenerateTypes ==
    ASSUME GenInv, Generate
    PROVE  GenInv'
<1>a. spec.lines \in Seq(TextLine) /\ Len(spec.lines) \in Nat
  BY SpecificationsAssumption DEF GenInv, GenTypeOK
<1>1. CASE OtherLine
  BY <1>1, <1>a DEF OtherLine, GenInv, GenTypeOK, Left, FieldsTyped, WellFormed
<1>2. CASE Typedef
  BY <1>2, <1>a DEF Typedef, GenInv, GenTypeOK, Left, FieldsTyped, WellFormed
<1>3. CASE OpenBlock
  <2>1. CASE Line(1).ty \in Kinds
    <3>1. /\ block' = [name |-> Line(1).name, kind |-> Line(1).ty, fields |-> << >>]
          /\ line' = line + 2 /\ genpc' = "fields" /\ UNCHANGED <<spec, types>> /\ Left(2)
      BY <1>3, <2>1 DEF OpenBlock, NewBlock
    <3>2. << >> \in Seq(SchemaField)
      BY EmptySeq
    <3>3. WellFormed(block')
      BY <2>1, <3>1, <3>2 DEF WellFormed
    <3>4. line' \in 1 .. Len(spec.lines) + 2
      BY <1>a, <3>1 DEF Left, GenInv, GenTypeOK
    <3> QED
      BY <2>1, <3>1, <3>3, <3>4 DEF GenInv, GenTypeOK, FieldsTyped
  <2> QED
    BY <1>3, <2>1 DEF OpenBlock, Panic, GenInv, GenTypeOK, FieldsTyped, WellFormed
<1>4. CASE EndOfText
  BY <1>4 DEF EndOfText, GenInv, GenTypeOK, FieldsTyped, WellFormed
<1>5. CASE FieldLine
  <2>1. CASE CloseBlock
    BY <1>5, <2>1, CloseBlockTypes DEF FieldLine
  <2>2. CASE AddField(Line(1).field)
    <3>1. Left(1) /\ genpc # "done"
      BY <1>5 DEF FieldLine
    <3>2. Line(1).field \in SchemaField
      BY <3>1, LineTyped DEF TextLine
    <3> QED
      BY <2>2, <3>1, <3>2, AddFieldTypes
  <2>3. CASE ~CloseBlock /\ ~AddField(Line(1).field)
    <3>1. /\ UNCHANGED <<spec, block, types>> /\ line' \in {line, line + 1}
          /\ genpc' \in {"fields", "comment", "panic"} /\ Left(1)
          /\ genpc' = "comment" => pending' = Line(1).field
      BY <1>5, <2>3 DEF FieldLine, Panic
    <3>2. Line(1).field \in SchemaField
      BY <3>1, LineTyped DEF TextLine
    <3> QED
      BY <1>a, <3>1, <3>2 DEF Left, GenInv, GenTypeOK, FieldsTyped, WellFormed
  <2> QED
    BY <2>1, <2>2, <2>3
<1>6. CASE CommentLine
  <2>1. CASE CloseBlock
    BY <1>6, <2>1, CloseBlockTypes DEF CommentLine
  <2>2. CASE AddField(pending)
    BY <1>6, <2>2, AddFieldTypes DEF CommentLine, GenInv
  <2>3. CASE ~CloseBlock /\ ~AddField(pending)
    <3>1. UNCHANGED <<spec, block, types, genpc, pending>> /\ line' = line + 1 /\ Left(1)
      BY <1>6, <2>3 DEF CommentLine
    <3> QED
      BY <1>a, <3>1 DEF Left, GenInv, GenTypeOK, FieldsTyped, WellFormed
  <2> QED
    BY <2>1, <2>2, <2>3
<1>7. CASE TextTooShort
  BY <1>7 DEF TextTooShort, Panic, GenInv, GenTypeOK, FieldsTyped, WellFormed
<1>8. CASE Validate
  BY <1>8 DEF Validate, GenInv, GenTypeOK, FieldsTyped, WellFormed
<1> QED
  BY <1>1, <1>2, <1>3, <1>4, <1>5, <1>6, <1>7, <1>8 DEF Generate

-----------------------------------------------------------------------------
(* The objects of the program.                                             *)

(* What an object may be once the types were read.                         *)
ObjectKinds == {types[n].kind : n \in DOMAIN types} \union {"SEQUENCE", "FIELD"}

Objects ==
    [kind : ObjectKinds,
     type : DOMAIN types, id : Nat \ {0}, items : Seq(Items), next : Nat \ {0},
     parsed : BOOLEAN]

(* The item the next function of a sequence's object will read.            *)
Seen(o) == o.id + (IF o.kind = "FIELD" /\ o.parsed = TRUE THEN 1 ELSE 0)

(* next is behind the list's last item when the list is too short.         *)
InStep(o) ==
    /\ o.next <= Len(o.items) + 1
    /\ o.kind = "IMPLICIT_CHOICE" => Len(o.items) = 1
    /\ o.kind = "SEQUENCE" => o.parsed = FALSE
    /\ o.kind \in {"SEQUENCE", "FIELD"} =>
         o.next = (IF Seen(o) <= Len(o.items) THEN Seen(o) ELSE Len(o.items) + 1)

(* An object is of its type's kind, or stands before one of its fields.    *)
OfItsType(o) ==
    IF o.kind \in {"SEQUENCE", "FIELD"}
    THEN types[o.type].kind = "SEQUENCE" /\ o.id \in 1 .. Len(Fields(o))
    ELSE types[o.type].kind = o.kind /\ o.id = 1

Aligned == {o \in Objects : InStep(o) /\ OfItsType(o)}

(* Nothing is parsed before the parser was generated.                      *)
IInv ==
    /\ GenInv
    /\ stack \in Seq(Aligned)
    /\ stack # << >> => genpc = "done" /\ Compiles

-----------------------------------------------------------------------------
(* The smaller of two numbers.                                             *)
LEMMA MinOfTwo ==
    ASSUME NEW a \in Nat, NEW b \in Nat
    PROVE  Min({a, b}) = IF a <= b THEN a ELSE b
BY DEF Min

(* The youngest object is replaced, the others stay as they are.           *)
LEMMA Replacing ==
    ASSUME NEW S, stack \in Seq(S), stack # << >>,
           NEW objects \in Seq(S), Replace(objects)
    PROVE  stack' \in Seq(S)
<1>1. /\ Len(stack) \in Nat \ {0}
      /\ \A i \in 1 .. Len(stack) - 1 : stack[i] \in S
  BY EmptySeq, ElementOfSeq
<1>2. Under \in Seq(S)
  BY <1>1, SubSeqProperties DEF Under, Front
<1> QED
  BY <1>2, ConcatProperties DEF Replace

LEMMA Singleton ==
    ASSUME NEW S, NEW x \in S
    PROVE  <<x>> \in Seq(S)
OBVIOUS

LEMMA TopAligned ==
    ASSUME IInv, stack # << >>
    PROVE  Top \in Aligned
<1>1. Len(stack) \in 1 .. Len(stack)
  BY EmptySeq DEF IInv
<1> QED
  BY <1>1, ElementOfSeq DEF IInv, Top, Last

(* The parts of an object.                                                 *)
LEMMA Parts ==
    ASSUME NEW o \in Objects
    PROVE  /\ o.kind \in ObjectKinds /\ o.type \in DOMAIN types
           /\ o.id \in Nat \ {0} /\ o.next \in Nat \ {0}
           /\ o.items \in Seq(Items) /\ Len(o.items) \in Nat
           /\ o.parsed \in BOOLEAN
<1>1. o.items \in Seq(Items)
  BY DEF Objects
<1> QED
  BY <1>1, LenProperties DEF Objects

LEMMA NewKinds == {"SEQUENCE", "FIELD"} \subseteq ObjectKinds
BY DEF ObjectKinds

(* An item that is there is one of the items a document may contain.       *)
LEMMA ItemRead ==
    ASSUME NEW o \in Aligned, NextItem(o) # Nothing
    PROVE  NextItem(o) \in Items
<1>1. o.items \in Seq(Items) /\ o.next \in Nat \ {0} /\ o.next <= Len(o.items) + 1
  BY DEF Aligned, Objects, InStep
<1>2. Len(o.items) \in Nat
  BY <1>1, LenProperties
<1>3. o.next \in 1 .. Len(o.items)
  BY <1>1, <1>2 DEF NextItem, ListLen
<1> QED
  BY <1>1, <1>3, ElementOfSeq DEF NextItem

(* The fields of a type are numbered.                                      *)
LEMMA FieldsNumbered ==
    ASSUME GenInv, NEW ty \in DOMAIN types
    PROVE  /\ Len(types[ty].fields) \in Nat
           /\ DOMAIN types[ty].fields = 1 .. Len(types[ty].fields)
           /\ types[ty].fields # << >> => 1 \in 1 .. Len(types[ty].fields)
<1>1. types[ty].fields \in Seq(SchemaField)
  BY DEF GenInv, FieldsTyped
<1>2. /\ Len(types[ty].fields) \in Nat
      /\ DOMAIN types[ty].fields = 1 .. Len(types[ty].fields)
  BY <1>1, LenProperties
<1>3. types[ty].fields # << >> => Len(types[ty].fields) # 0
  BY <1>1, EmptySeq
<1> QED
  BY <1>2, <1>3

(* A new object begins with the first field and the first item.            *)
LEMMA NewAligned ==
    ASSUME GenInv, NEW ty \in DOMAIN types, NEW kind, kind = types[ty].kind,
           NEW items \in Seq(Items),
           kind = "IMPLICIT_CHOICE" => Len(items) = 1,
           HasFields(ty)
    PROVE  Object(kind, ty, items) \in Aligned
<1>1. ASSUME NEW o, o = Object(kind, ty, items) PROVE o \in Aligned
  <2>1. 1 \in Nat \ {0} /\ FALSE \in BOOLEAN
    OBVIOUS
  <2>2. kind \in ObjectKinds /\ kind # "FIELD"
    BY DEF ObjectKinds, GenInv, GenTypeOK, Kinds
  <2>3. o \in Objects
    BY <1>1, <2>1, <2>2, Zenon DEF Objects, Object
  <2>4. /\ o.id = 1 /\ o.next = 1 /\ o.items = items /\ o.parsed = FALSE /\ o.kind = kind
        /\ o.type = ty
    BY <1>1 DEF Object
  <2>5. Len(items) \in Nat
    BY LenProperties
  <2>6. InStep(o)
    BY <2>4, <2>5 DEF InStep, Seen
  <2>7. CASE kind = "SEQUENCE"
    <3>1. o.id \in 1 .. Len(types[o.type].fields)
      BY <2>4, <2>7, FieldsNumbered DEF HasFields
    <3> QED
      BY <2>3, <2>4, <2>6, <2>7, <3>1 DEF Aligned, OfItsType, Fields
  <2>8. CASE kind # "SEQUENCE"
    BY <2>2, <2>3, <2>4, <2>6, <2>8 DEF Aligned, OfItsType
  <2> QED
    BY <2>7, <2>8
<1> QED
  BY <1>1

(* The type of a field is one the generated code names.                    *)
LEMMA FieldNamed ==
    ASSUME NEW n \in DOMAIN types, NEW i \in DOMAIN types[n].fields
    PROVE  Resolve(types[n].fields[i].ty) \in Named
BY DEF Named, FieldTypes

(* So is an object that a field, an entry or a variant was parsed to.      *)
LEMMA ChildAligned ==
    ASSUME GenInv, Compiles, NEW ty \in Named, NEW item \in Items
    PROVE  Child(ty, item) \in Seq(Aligned)
<1>1. CASE IsList(ty)
  <2>1. item.items \in Seq(Items) /\ types[ty].kind # "IMPLICIT_CHOICE"
    BY <1>1, ItemsAssumption DEF IsList, IsImplicit
  <2>2. ty \in DOMAIN types /\ HasFields(ty)
    BY <1>1 DEF Compiles, IsList
  <2>3. Child(ty, item) = <<Object(types[ty].kind, ty, item.items)>>
    BY <1>1 DEF Child, IsList
  <2> QED
    BY <2>1, <2>2, <2>3, NewAligned, Singleton
<1>2. CASE IsImplicit(ty)
  <2>1. <<item>> \in Seq(Items) /\ Len(<<item>>) = 1
    OBVIOUS
  <2>2. ty \in DOMAIN types /\ types[ty].kind = "IMPLICIT_CHOICE" /\ HasFields(ty)
    BY <1>2 DEF IsImplicit, HasFields
  <2>3. Child(ty, item) = <<Object("IMPLICIT_CHOICE", ty, <<item>>)>>
    BY <1>2 DEF Child, IsList
  <2> QED
    BY <2>1, <2>2, <2>3, NewAligned, Singleton
<1>3. CASE ~IsList(ty) /\ ~IsImplicit(ty)
  BY <1>3, EmptySeq DEF Child
<1> QED
  BY <1>1, <1>2, <1>3

(* Reading the next item of a list, if there is one.                       *)
LEMMA Consuming ==
    ASSUME NEW o \in Aligned
    PROVE  /\ Consumed(o) \in Objects
           /\ Consumed(o).kind = o.kind /\ Consumed(o).id = o.id /\ Consumed(o).type = o.type
           /\ Consumed(o).items = o.items /\ Consumed(o).parsed = o.parsed
           /\ Consumed(o).next = IF o.next <= Len(o.items) THEN o.next + 1 ELSE o.next
           /\ Len(o.items) \in Nat
<1>1. o \in Objects /\ InStep(o)
  BY DEF Aligned
<1>2. Len(o.items) \in Nat
  BY <1>1, LenProperties DEF Objects
<1>3. ListLen(o) = 0 <=> ~(o.next <= Len(o.items))
  <2>1. o.next \in Nat /\ o.next <= Len(o.items) + 1
    BY <1>1, Parts DEF InStep
  <2> QED
    BY <1>2, <2>1 DEF ListLen
<1> QED
  BY <1>1, <1>2, <1>3 DEF Consumed, Objects

(* An object may be marked as parsed.                                      *)
LEMMA Marking ==
    ASSUME NEW o \in Objects,
           NEW p, p = [o EXCEPT !.parsed = TRUE]
    PROVE  /\ p \in Objects /\ p.next = o.next /\ p.items = o.items
           /\ p.kind = o.kind /\ p.id = o.id /\ p.type = o.type /\ p.parsed = TRUE
BY DEF Objects

(* Of a list of a type or of a choice any item may be the next one.        *)
LEMMA AnyInStep ==
    ASSUME NEW o \in Objects, o.kind \notin {"SEQUENCE", "FIELD"},
           o.next <= Len(o.items) + 1,
           o.kind = "IMPLICIT_CHOICE" => Len(o.items) = 1,
           OfItsType(o)
    PROVE  o \in Aligned
<1>1. InStep(o)
  BY Parts DEF InStep
<1> QED
  BY <1>1 DEF Aligned

LEMMA ConsumedAligned ==
    ASSUME NEW o \in Aligned, o.kind \notin {"SEQUENCE", "FIELD"}
    PROVE  /\ Consumed(o) \in Aligned
           /\ [Consumed(o) EXCEPT !.parsed = TRUE] \in Aligned
<1>1. /\ o.next \in Nat /\ o.next <= Len(o.items) + 1
      /\ o.kind = "IMPLICIT_CHOICE" => Len(o.items) = 1
      /\ types[o.type].kind = o.kind /\ o.id = 1
  BY Parts DEF Aligned, InStep, OfItsType
<1>2. ASSUME NEW c, c = Consumed(o) PROVE c \in Aligned
  <2>1. OfItsType(c)
    BY <1>1, <1>2, Consuming DEF OfItsType
  <2> QED
    BY <1>1, <1>2, <2>1, Consuming, AnyInStep
<1>3. ASSUME NEW p, p = [Consumed(o) EXCEPT !.parsed = TRUE] PROVE p \in Aligned
  <2> DEFINE c == Consumed(o)
  <2>a. /\ c \in Objects /\ c.items = o.items /\ c.kind = o.kind
        /\ c.type = o.type /\ c.id = o.id
        /\ c.next = IF o.next <= Len(o.items) THEN o.next + 1 ELSE o.next
        /\ Len(o.items) \in Nat
    BY Consuming
  <2>b. p = [c EXCEPT !.parsed = TRUE]
    BY <1>3 DEF c
  <2> HIDE DEF c
  <2>1. /\ p \in Objects /\ p.items = o.items /\ p.kind = o.kind
        /\ p.type = o.type /\ p.id = o.id
        /\ p.next = IF o.next <= Len(o.items) THEN o.next + 1 ELSE o.next
        /\ Len(o.items) \in Nat
    BY <2>a, <2>b, Marking
  <2>2. p.next <= Len(p.items) + 1 /\ OfItsType(p)
    BY <1>1, <2>1 DEF OfItsType
  <2> QED
    BY <1>1, <2>1, <2>2, AnyInStep
<1> QED
  BY <1>2, <1>3

(* parse of a field that was not parsed yet.                               *)
LEMMA ParsedAligned ==
    ASSUME NEW o \in Aligned, o.kind = "FIELD", o.parsed = FALSE
    PROVE  [Consumed(o) EXCEPT !.parsed = TRUE] \in Aligned
<1>1. /\ o.id \in Nat
      /\ o.next = IF o.id <= Len(o.items) THEN o.id ELSE Len(o.items) + 1
  BY Parts DEF Aligned, InStep, Seen
<1>2. ASSUME NEW p, p = [Consumed(o) EXCEPT !.parsed = TRUE] PROVE p \in Aligned
  <2>1. /\ p \in Objects /\ p.items = o.items /\ p.kind = "FIELD" /\ p.id = o.id
        /\ p.parsed = TRUE /\ p.type = o.type
        /\ p.next = IF o.next <= Len(o.items) THEN o.next + 1 ELSE o.next
        /\ Len(o.items) \in Nat
    <3>1. /\ Consumed(o) \in Objects /\ Consumed(o).kind = "FIELD" /\ Consumed(o).id = o.id
          /\ Consumed(o).type = o.type
      BY Consuming
    <3>2. /\ p \in Objects /\ p.next = Consumed(o).next /\ p.items = Consumed(o).items
          /\ p.kind = Consumed(o).kind /\ p.id = Consumed(o).id /\ p.parsed = TRUE
          /\ p.type = Consumed(o).type
      BY <1>2, <3>1, Marking
    <3> QED
      BY <3>1, <3>2, Consuming
  <2>2. Seen(p) = o.id + 1
    BY <2>1 DEF Seen
  <2>3. p.next = IF o.id + 1 <= Len(o.items) THEN o.id + 1 ELSE Len(o.items) + 1
    BY <1>1, <2>1
  <2>4. InStep(p)
    <3>1. p.next <= Len(p.items) + 1
      BY <1>1, <2>1, <2>3
    <3>2. p.next = (IF Seen(p) <= Len(p.items) THEN Seen(p) ELSE Len(p.items) + 1)
      BY <2>1, <2>2, <2>3
    <3> QED
      BY <2>1, <3>1, <3>2, Zenon DEF InStep
  <2>5. OfItsType(p)
    BY <2>1 DEF Aligned, OfItsType, Fields
  <2> QED
    BY <2>1, <2>4, <2>5 DEF Aligned
<1> QED
  BY <1>2

(* The object that stands behind a field whose item was read.              *)
LEMMA BehindAligned ==
    ASSUME GenInv, NEW o \in Objects, OfItsType(o), o.kind \in {"SEQUENCE", "FIELD"},
           o.next = IF o.id + 1 <= Len(o.items) THEN o.id + 1 ELSE Len(o.items) + 1
    PROVE  Behind(o) \in Seq(Aligned)
<1>1. CASE o.id = Len(Fields(o))
  BY <1>1 DEF Behind
<1>2. CASE o.id # Len(Fields(o))
  <2> DEFINE p == [o EXCEPT !.kind = "SEQUENCE", !.id = o.id + 1, !.parsed = FALSE]
  <2>1. Len(o.items) \in Nat
    BY LenProperties DEF Objects
  <2>2. /\ p \in Objects /\ p.next = o.next /\ p.items = o.items
        /\ p.kind = "SEQUENCE" /\ p.id = o.id + 1 /\ p.parsed = FALSE /\ p.type = o.type
    <3>1. "SEQUENCE" \in ObjectKinds /\ o.id + 1 \in Nat \ {0}
      BY NewKinds, Parts
    <3> QED
      BY <3>1 DEF Objects
  <2>3. o.id \in Nat
    BY Parts
  <2>5. Behind(o) = <<p>>
    BY <1>2 DEF Behind
  <2> HIDE DEF p
  <2>4. InStep(p)
    BY <2>1, <2>2, <2>3 DEF InStep, Seen
  <2>6. /\ types[o.type].kind = "SEQUENCE" /\ o.id \in 1 .. Len(Fields(o))
        /\ o.type \in DOMAIN types
    BY Parts DEF OfItsType
  <2>7. Len(Fields(o)) \in Nat
    BY <2>6, FieldsNumbered DEF Fields
  <2>8. o.id + 1 \in 1 .. Len(Fields(o))
    BY <1>2, <2>6, <2>7
  <2>9. OfItsType(p)
    BY <2>2, <2>6, <2>8 DEF OfItsType, Fields
  <2> QED
    BY <2>2, <2>4, <2>5, <2>9 DEF Aligned
<1> QED
  BY <1>1, <1>2

(* skip: as many items are left out as fields.                             *)
LEMMA SkippingAligned ==
    ASSUME NEW o \in Aligned, o.kind = "SEQUENCE",
           NEW id2 \in 1 .. Len(Fields(o)), o.id <= id2, id2 - o.id <= ListLen(o),
           NEW p, p = [o EXCEPT !.id = id2, !.next = o.next + (id2 - o.id)]
    PROVE  /\ p \in Aligned /\ p.kind = "SEQUENCE"
           /\ [p EXCEPT !.kind = "FIELD"] \in Aligned
<1>1. /\ o.id \in Nat \ {0} /\ o.next \in Nat \ {0} /\ Len(o.items) \in Nat
      /\ o.parsed = FALSE
      /\ o.next = IF o.id <= Len(o.items) THEN o.id ELSE Len(o.items) + 1
  BY Parts DEF Aligned, InStep, Seen
<1>2. o.next + (id2 - o.id) = IF id2 <= Len(o.items) THEN id2 ELSE Len(o.items) + 1
  BY <1>1 DEF ListLen
<1>3. id2 \in Nat \ {0} /\ o.next + (id2 - o.id) \in Nat \ {0}
  BY <1>1, <1>2
<1>4. ASSUME NEW kind \in {"SEQUENCE", "FIELD"},
             NEW q, q = [p EXCEPT !.kind = kind]
      PROVE  q \in Aligned
  <2>1. o \in Objects /\ kind \in ObjectKinds
    BY NewKinds DEF Aligned
  <2>2. /\ q \in Objects /\ q.items = o.items /\ q.kind = kind /\ q.id = id2
        /\ q.parsed = FALSE /\ q.next = o.next + (id2 - o.id) /\ q.type = o.type
    BY <1>1, <1>3, <1>4, <2>1 DEF Objects
  <2>3. Seen(q) = id2
    BY <1>3, <2>2 DEF Seen
  <2>4. q.next = (IF Seen(q) <= Len(q.items) THEN Seen(q) ELSE Len(q.items) + 1)
    BY <1>2, <2>2, <2>3
  <2>5. q.next <= Len(q.items) + 1
    BY <1>1, <1>3, <2>2, <2>3, <2>4
  <2>6. q.kind # "IMPLICIT_CHOICE"
    BY <1>4, <2>2
  <2> QED
    <3>1. InStep(q)
      BY <2>2, <2>4, <2>5, <2>6, Zenon DEF InStep
    <3>2. OfItsType(q)
      BY <2>2 DEF Aligned, OfItsType, Fields
    <3> QED
      BY <2>2, <3>1, <3>2 DEF Aligned
<1>5. p.kind = "SEQUENCE" /\ p = [p EXCEPT !.kind = "SEQUENCE"]
  BY DEF Aligned, Objects
<1> QED
  BY <1>4, <1>5

LEMMA BehindConsumed ==
    ASSUME GenInv, NEW o \in Aligned, o.kind \in {"SEQUENCE", "FIELD"}, o.parsed = FALSE
    PROVE  Behind(Consumed(o)) \in Seq(Aligned)
<1>1. /\ o.id \in Nat \ {0} /\ Len(o.items) \in Nat
      /\ o.next = IF o.id <= Len(o.items) THEN o.id ELSE Len(o.items) + 1
  BY Parts DEF Aligned, InStep, Seen
<1>2. ASSUME NEW c, c = Consumed(o) PROVE Behind(c) \in Seq(Aligned)
  <2>1. /\ c \in Objects /\ c.kind = o.kind /\ c.id = o.id /\ c.items = o.items
        /\ c.type = o.type
        /\ c.next = IF o.next <= Len(o.items) THEN o.next + 1 ELSE o.next
    BY <1>2, Consuming
  <2>2. c.next = IF c.id + 1 <= Len(c.items) THEN c.id + 1 ELSE Len(c.items) + 1
    BY <1>1, <2>1
  <2>3. OfItsType(c)
    BY <2>1 DEF Aligned, OfItsType, Fields
  <2> QED
    BY <2>1, <2>2, <2>3, BehindAligned
<1> QED
  BY <1>2

-----------------------------------------------------------------------------
(* The steps of the program.                                               *)

LEMMA UsingTop ==
    ASSUME IInv, NEW kind, Using(kind)
    PROVE  /\ stack # << >> /\ stack \in Seq(Aligned) /\ Top \in Aligned /\ Top.kind = kind
           /\ GenInv /\ Compiles
BY TopAligned DEF Using, IInv

(* Whether the next item is the right one or not, the objects that are     *)
(* left are in step.                                                       *)
LEMMA ParseFieldAligned ==
    ASSUME IInv, stack # << >>,
           NEW o \in Aligned, NEW ty \in Named,
           NEW then \in Seq(Aligned), NEW failed \in Seq(Aligned),
           ParseField(o, ty, then, failed)
    PROVE  stack' \in Seq(Aligned)
<1> USE DEF IInv
<1>1. CASE ParseError(ty, NextItem(o)) = "none"
  <2>1. NextItem(o) \in Items
    BY <1>1, ItemRead DEF ParseError
  <2>2. then \o Child(ty, NextItem(o)) \in Seq(Aligned)
    BY <2>1, ChildAligned, ConcatProperties
  <2>3. Replace(then \o Child(ty, NextItem(o)))
    BY <1>1 DEF ParseField
  <2> QED
    BY <2>2, <2>3, Replacing
<1>2. CASE ParseError(ty, NextItem(o)) # "none"
  <2>1. Replace(failed)
    BY <1>2 DEF ParseField
  <2> QED
    BY <2>1, Replacing
<1> QED
  BY <1>1, <1>2

LEMMA CallFieldAligned ==
    ASSUME IInv, CallField
    PROVE  stack' \in Seq(Aligned)
<1>1. /\ stack # << >> /\ stack \in Seq(Aligned) /\ Top \in Aligned /\ Top.kind = "SEQUENCE"
      /\ GenInv /\ Compiles
  BY UsingTop DEF CallField
<1>2. << >> \in Seq(Aligned)
  BY EmptySeq
<1>3. PICK id2 \in Top.id .. Len(Fields(Top)) :
          LET num_skip == id2 - Top.id
              field    == Fields(Top)[id2]
              ty       == Resolve(field.ty)
              o        == [Top EXCEPT !.id = id2, !.next = @ + num_skip]
          IN  \/ Replace(<< >>)
              \/ /\ num_skip <= ListLen(Top)
                 /\ \/ NumberField(o, ty, field.optional)
                    \/ Replace(<<[o EXCEPT !.kind = "FIELD"]>>)
  <2>1. ASSUME NEW o, NextEnd(o) PROVE Replace(<< >>)
    BY <2>1 DEF NextEnd
  <2> QED
    BY <2>1, Zenon DEF CallField
<1>4. CASE Replace(<< >>)
  BY <1>1, <1>2, <1>4, Replacing
<1>5. /\ Len(Fields(Top)) \in Nat /\ Top.id \in 1 .. Len(Fields(Top))
      /\ DOMAIN Fields(Top) = 1 .. Len(Fields(Top))
  BY <1>1, Parts, FieldsNumbered DEF Aligned, OfItsType, Fields
<1>6. /\ id2 \in 1 .. Len(Fields(Top)) /\ Top.id <= id2
       /\ Resolve(Fields(Top)[id2].ty) \in Named
  <2>1. id2 \in 1 .. Len(Fields(Top)) /\ Top.id <= id2
    BY <1>5
  <2>2. Top.type \in DOMAIN types
    BY <1>1, Parts DEF Aligned
  <2> QED
    BY <1>5, <2>1, <2>2, FieldNamed DEF Fields
<1>7. ASSUME id2 - Top.id <= ListLen(Top),
             NEW p, p = [Top EXCEPT !.id = id2, !.next = @ + (id2 - Top.id)]
      PROVE  /\ p \in Aligned /\ p.kind = "SEQUENCE" /\ p.parsed = FALSE
             /\ [p EXCEPT !.kind = "FIELD"] \in Aligned
  <2>3. p = [Top EXCEPT !.id = id2, !.next = Top.next + (id2 - Top.id)]
    BY <1>7
  <2>4. p \in Aligned /\ p.kind = "SEQUENCE" /\ [p EXCEPT !.kind = "FIELD"] \in Aligned
    BY <1>1, <1>7, <1>6, <2>3, SkippingAligned
  <2> QED
    BY <2>4 DEF Aligned, InStep
<1>8. ASSUME NEW o \in Aligned, o.kind = "SEQUENCE", o.parsed = FALSE, NEW ty \in Named, NEW opt,
             NumberField(o, ty, opt)
      PROVE  stack' \in Seq(Aligned)
  <2>1. Behind(Consumed(o)) \in Seq(Aligned)
    BY <1>1, <1>8, BehindConsumed
  <2>2. CASE Replace(Behind(Consumed(o)))
    BY <1>1, <2>1, <2>2, Replacing
  <2>3. CASE ParseField(o, ty, Behind(Consumed(o)), << >>)
    BY <1>1, <1>2, <2>1, <2>3, ParseFieldAligned
  <2> QED
    BY <1>8, <2>2, <2>3 DEF NumberField
<1>9. ASSUME NEW o \in Aligned, Replace(<<o>>) PROVE stack' \in Seq(Aligned)
  BY <1>1, <1>9, Singleton, Replacing
<1> DEFINE p == [Top EXCEPT !.id = id2, !.next = @ + (id2 - Top.id)]
<1>10. CASE ~Replace(<< >>)
  <2>1. /\ id2 - Top.id <= ListLen(Top)
        /\ \/ \E opt : NumberField(p, Resolve(Fields(Top)[id2].ty), opt)
           \/ Replace(<<[p EXCEPT !.kind = "FIELD"]>>)
    BY <1>3, <1>10, Zenon
  <2>2. /\ p \in Aligned /\ p.kind = "SEQUENCE" /\ p.parsed = FALSE
        /\ [p EXCEPT !.kind = "FIELD"] \in Aligned
    BY <1>7, <2>1, Zenon
  <2> HIDE DEF p
  <2> QED
    BY <1>8, <1>9, <1>6, <2>1, <2>2
<1> QED
  BY <1>4, <1>10

(* A field's object stands before a field of its type.                     *)
LEMMA FieldTypeNamed ==
    ASSUME GenInv, NEW o \in Aligned, o.kind = "FIELD"
    PROVE  FieldType(o) \in Named
<1>1. o.type \in DOMAIN types /\ types[o.type].kind = "SEQUENCE" /\ o.id \in 1 .. Len(Fields(o))
  BY Parts DEF Aligned, OfItsType
<1>2. o.id \in DOMAIN types[o.type].fields
  BY <1>1, FieldsNumbered DEF Fields
<1> QED
  BY <1>1, <1>2, FieldNamed DEF FieldType, Fields

LEMMA ParseAligned ==
    ASSUME IInv, Parse
    PROVE  stack' \in Seq(Aligned)
<1>1. /\ stack # << >> /\ stack \in Seq(Aligned) /\ Top \in Aligned /\ Top.kind = "FIELD"
      /\ GenInv /\ Compiles
  BY UsingTop DEF Parse
<1>2. CASE stack' = stack
  BY <1>1, <1>2
<1>3. CASE ~Top.parsed
  <2> DEFINE p == [Consumed(Top) EXCEPT !.parsed = TRUE]
  <2>1. Top.parsed = FALSE
    BY <1>1, <1>3, Parts DEF Aligned
  <2>2. <<p>> \in Seq(Aligned)
    BY <1>1, <2>1, ParsedAligned, Singleton
  <2>3. << >> \in Seq(Aligned)
    BY EmptySeq
  <2>4. PICK failed \in {<<p>>, << >>} : ParseField(Top, FieldType(Top), <<p>>, failed)
    BY <1>3, Zenon DEF Parse
  <2> HIDE DEF p
  <2>5. failed \in Seq(Aligned)
    BY <2>2, <2>3
  <2> QED
    BY <1>1, <2>2, <2>4, <2>5, FieldTypeNamed, ParseFieldAligned
<1> QED
  BY <1>2, <1>3 DEF Parse

LEMMA FinishAligned ==
    ASSUME IInv, Finish
    PROVE  stack' \in Seq(Aligned)
<1>1. /\ stack # << >> /\ stack \in Seq(Aligned) /\ Top \in Aligned /\ Top.kind = "FIELD"
      /\ GenInv /\ Compiles
  BY UsingTop DEF Finish
<1>2. CASE Top.parsed
  <2>1. Top.parsed = TRUE
    BY <1>1, <1>2, Parts DEF Aligned
  <2>2. /\ Top \in Objects
        /\ Top.next = IF Top.id + 1 <= Len(Top.items) THEN Top.id + 1 ELSE Len(Top.items) + 1
        /\ OfItsType(Top)
    BY <1>1, <2>1, Parts DEF Aligned, InStep, Seen
  <2>3. Replace(Behind(Top))
    BY <1>2 DEF Finish
  <2> QED
    BY <1>1, <2>2, <2>3, BehindAligned, Replacing
<1>3. CASE ~Top.parsed
  <2>1. Top.parsed = FALSE
    BY <1>1, <1>3, Parts DEF Aligned
  <2>2. Replace(Behind(Consumed(Top))) \/ Replace(<< >>)
    BY <1>3 DEF Finish
  <2>3. Behind(Consumed(Top)) \in Seq(Aligned) /\ << >> \in Seq(Aligned)
    BY <1>1, <2>1, BehindConsumed, EmptySeq
  <2> QED
    BY <1>1, <2>2, <2>3, Replacing
<1> QED
  BY <1>2, <1>3

LEMMA NextEntryAligned ==
    ASSUME IInv, NextEntry
    PROVE  stack' \in Seq(Aligned)
<1>1. /\ stack # << >> /\ stack \in Seq(Aligned) /\ Top \in Aligned /\ Top.kind = "SEQUENCE_OF"
      /\ GenInv /\ Compiles
  BY UsingTop DEF NextEntry
<1>2. <<Consumed(Top)>> \in Seq(Aligned)
  BY <1>1, ConsumedAligned, Singleton
<1>3. \/ ParseField(Top, FieldType(Top), <<Consumed(Top)>>, <<Consumed(Top)>>)
      \/ stack' = stack
  BY DEF NextEntry
<1>4. FieldType(Top) \in Named
  <2>1. Top.type \in DOMAIN types /\ Top.id = 1
    BY <1>1, Parts DEF Aligned, OfItsType
  <2>2. 1 \in DOMAIN types[Top.type].fields
    BY DEF NextEntry, Fields
  <2> QED
    BY <2>1, <2>2, FieldNamed DEF FieldType, Fields
<1> QED
  BY <1>1, <1>2, <1>3, <1>4, ParseFieldAligned

(* read of a choice: the tag, then the variant.                            *)
LEMMA ReadChoiceAligned ==
    ASSUME IInv, ReadChoice
    PROVE  stack' \in Seq(Aligned)
<1>1. /\ stack # << >> /\ stack \in Seq(Aligned) /\ Top \in Aligned /\ Top.kind = "CHOICE"
      /\ GenInv /\ Compiles
  BY UsingTop DEF ReadChoice
<1> DEFINE p == [Consumed(Top) EXCEPT !.parsed = TRUE]
<1>2. p \in Aligned /\ p.kind = "CHOICE"
  <2>1. p \in Aligned
    BY <1>1, ConsumedAligned
  <2>2. Consumed(Top) \in Objects /\ Consumed(Top).kind = "CHOICE"
    BY <1>1, Consuming
  <2> QED
    BY <2>1, <2>2, Marking
<1>3. \/ stack' = stack \/ Replace(<<p>>)
      \/ \E i \in DOMAIN Fields(Top) :
            ParseField(p, Resolve(Fields(Top)[i].ty), <<Consumed(p)>>, <<Consumed(p)>>)
  BY Zenon DEF ReadChoice
<1>5. \A i \in DOMAIN Fields(Top) : Resolve(Fields(Top)[i].ty) \in Named
  BY <1>1, Parts, FieldNamed DEF Aligned, Fields
<1> HIDE DEF p
<1>4. <<p>> \in Seq(Aligned) /\ <<Consumed(p)>> \in Seq(Aligned)
  BY <1>2, ConsumedAligned, Singleton
<1> QED
  BY <1>1, <1>2, <1>3, <1>4, <1>5, Replacing, ParseFieldAligned

LEMMA ReadImplicitChoiceAligned ==
    ASSUME IInv, ReadImplicitChoice
    PROVE  stack' \in Seq(Aligned)
<1>1. /\ stack # << >> /\ stack \in Seq(Aligned) /\ Top \in Aligned /\ Top.kind = "IMPLICIT_CHOICE"
      /\ GenInv /\ Compiles
  BY UsingTop DEF ReadImplicitChoice
<1>2. Top.items[1] \in Items
  <2>1. Top.items \in Seq(Items) /\ Len(Top.items) = 1
    BY <1>1, Parts DEF Aligned, InStep
  <2> QED
    BY <2>1, ElementOfSeq
<1>3. \/ Replace(<< >>)
      \/ \E i \in DOMAIN Fields(Top) : Replace(Child(Resolve(Fields(Top)[i].ty), Top.items[1]))
  BY Zenon DEF ReadImplicitChoice, FromItem
<1>4. \A i \in DOMAIN Fields(Top) : Resolve(Fields(Top)[i].ty) \in Named
  BY <1>1, Parts, FieldNamed DEF Aligned, Fields
<1> QED
  BY <1>1, <1>2, <1>3, <1>4, EmptySeq, ChildAligned, Replacing

LEMMA OpenMessageAligned ==
    ASSUME GenInv, OpenMessage
    PROVE  stack' \in Seq(Aligned)
<1>1. document' \in Seq(Items)
  BY ItemsAssumption DEF OpenMessage
<1>2. /\ "SML_Message" \in DOMAIN types /\ types["SML_Message"].kind = "SEQUENCE"
      /\ "SML_Message" \in Named
  BY DEF OpenMessage, Compiles, Named
<1>3. HasFields("SML_Message")
  <2>1. IsList("SML_Message")
    BY <1>2 DEF IsList, IsImplicit, HasItsOwnItem, Primitives, Unsigneds, Signeds
  <2> QED
    BY <1>2, <2>1 DEF OpenMessage, Compiles
<1>4. Object("SEQUENCE", "SML_Message", document') \in Aligned
  BY <1>1, <1>2, <1>3, NewAligned
<1> QED
  BY <1>4, Singleton DEF OpenMessage

LEMMA WalkAligned ==
    ASSUME IInv, Walk
    PROVE  /\ stack' \in Seq(Aligned)
           /\ genpc = "done" /\ Compiles /\ UNCHANGED genvars
<1>1. CASE DropTop
  BY <1>1, EmptySeq, Replacing DEF DropTop, IInv
<1>2. CASE OpenMessage /\ UNCHANGED genvars
  BY <1>2, OpenMessageAligned DEF OpenMessage, IInv
<1>3. CASE CallField \/ Parse \/ Finish
  BY <1>3, CallFieldAligned, ParseAligned, FinishAligned
     DEF CallField, Parse, Finish, Using, IInv
<1>4. CASE NextEntry \/ ReadChoice \/ ReadImplicitChoice
  BY <1>4, NextEntryAligned, ReadChoiceAligned, ReadImplicitChoiceAligned
     DEF NextEntry, ReadChoice, ReadImplicitChoice, Using, IInv
<1> QED
  BY <1>1, <1>2, <1>3, <1>4 DEF Walk

-----------------------------------------------------------------------------
(* The generator stops where the program begins.                           *)
LEMMA GenerateGuard ==
    ASSUME Generate
    PROVE  genpc # "done"
BY DEF Generate, OtherLine, Typedef, OpenBlock, EndOfText, FieldLine, CommentLine,
       TextTooShort, Validate

(* What is known of the objects depends on the types only.                 *)
LEMMA SameTypes ==
    ASSUME UNCHANGED genvars
    PROVE  Aligned' = Aligned /\ Compiles' = Compiles /\ GenInv' = GenInv
<1>1. Aligned' = Aligned
  BY DEF genvars, Aligned, Objects, ObjectKinds, InStep, Seen, OfItsType, Fields
<1>2. Compiles' = Compiles
  BY DEF genvars, Compiles, Named, FieldTypes, HasParser, HasFields, IsList, IsImplicit,
         HasItsOwnItem, Resolve
<1>3. GenInv' = GenInv
  BY DEF genvars, GenInv, GenTypeOK, WellFormed, FieldsTyped
<1> QED
  BY <1>1, <1>2, <1>3

(* Every step of the program keeps its objects in step; the generator has  *)
(* none yet.                                                               *)
LEMMA Inductive ==
    ASSUME IInv, [Next]_vars
    PROVE  IInv'
<1>1. CASE Walk
  <2>1. stack' \in Seq(Aligned) /\ genpc = "done" /\ Compiles /\ UNCHANGED genvars
    BY <1>1, WalkAligned
  <2> QED
    BY <2>1, SameTypes DEF genvars, IInv
<1>2. CASE Generate /\ UNCHANGED walkvars
  <2>1. stack = << >> /\ stack' = << >>
    BY <1>2, GenerateGuard DEF IInv, walkvars
  <2>2. << >> \in Seq(Aligned')
    BY EmptySeq
  <2>3. GenInv'
    BY <1>2, GenerateTypes DEF IInv
  <2> QED
    BY <2>1, <2>2, <2>3 DEF IInv
<1>3. CASE UNCHANGED vars
  <2>1. UNCHANGED genvars /\ stack' = stack /\ genpc' = genpc
    BY <1>3 DEF vars, walkvars, genvars
  <2> QED
    BY <2>1, SameTypes DEF IInv
<1> QED
  BY <1>1, <1>2, <1>3 DEF Next

(* The generator starts with nothing.                                      *)
LEMMA Starts ==
    ASSUME Init
    PROVE  IInv
<1>1. GenInv
  <2>1. block = [name |-> "none", kind |-> "SEQUENCE", fields |-> << >>]
    BY DEF Init, GenInit, NewBlock
  <2>2. WellFormed(block) /\ block.kind \in Kinds
    BY <2>1, EmptySeq DEF WellFormed, Kinds
  <2>3. DOMAIN types = {}
    BY DEF Init, GenInit
  <2>4. spec \in Specifications /\ line = 1 /\ genpc = "outside"
    BY DEF Init, GenInit
  <2>5. line \in 1 .. Len(spec.lines) + 2
    <3>1. Len(spec.lines) \in Nat
      BY <2>4, SpecificationsAssumption, LenProperties
    <3> QED
      BY <2>4, <3>1
  <2> QED
    BY <2>2, <2>3, <2>4, <2>5 DEF GenInv, GenTypeOK, FieldsTyped
<1> QED
  BY <1>1, EmptySeq DEF Init, InitWalk, IInv

LEMMA InStepMeans ==
    ASSUME IInv
    PROVE  FieldIsItsItem
<1> SUFFICES ASSUME NEW i \in DOMAIN stack, NEW o, o = stack[i],
                    o.kind \in {"SEQUENCE", "FIELD"},
                    NEW seen, seen = o.id + (IF o.kind = "FIELD" /\ o.parsed THEN 1 ELSE 0)
             PROVE  o.next = Min({seen, Len(o.items) + 1})
  BY DEF FieldIsItsItem
<1>1. o \in Objects /\ InStep(o)
  <2>1. stack \in Seq(Aligned)
    BY DEF IInv
  <2>2. i \in 1 .. Len(stack)
    BY <2>1, LenProperties
  <2>3. o \in Aligned
    BY <2>1, <2>2, ElementOfSeq
  <2> QED
    BY <2>3 DEF Aligned
<1>2. o.id \in Nat /\ Len(o.items) \in Nat /\ o.parsed \in BOOLEAN
  BY <1>1, Parts
<1>3. seen = Seen(o) /\ seen \in Nat
  BY <1>2 DEF Seen
<1>4. Min({seen, Len(o.items) + 1}) = IF seen <= Len(o.items) + 1 THEN seen ELSE Len(o.items) + 1
  BY <1>2, <1>3, MinOfTwo
<1> QED
  BY <1>1, <1>2, <1>3, <1>4 DEF InStep

(* The parser's functions of a field always read that field's item, or     *)
(* find the list at its end, whatever specification build.rs accepted,     *)
(* whatever document arrived and whichever functions were called before.   *)
THEOREM FieldsStayInStep == Spec => []FieldIsItsItem
<1>1. Init => IInv
  BY Starts
<1>2. IInv /\ [Next]_vars => IInv'
  BY Inductive
<1>3. IInv => FieldIsItsItem
  BY InStepMeans
<1> QED
  BY <1>1, <1>2, <1>3, PTL DEF Spec

-----------------------------------------------------------------------------
(* What a call returns, and the types of everything.                       *)

(* The errors a call may end with.                                         *)
CallInv == document \in Documents \union {NoDocument} /\ last.error \in Errors

(* The errors of parse_field and of the functions of smlfn.                *)
LEMMA ErrorsOfParsing ==
    ASSUME NEW ty, NEW item
    PROVE  ParseError(ty, item) \in Errors
<1>1. NumberError(ty, item) \in Errors
  BY DEF NumberError, Errors
<1>2. ListError(ty, item) \in Errors
  BY DEF ListError, Errors
<1>3. StringError(item) \in Errors
  BY DEF StringError, Errors
<1>4. {"none", "EndOfList", "EndOfSmlMessage"} \subseteq Errors
  BY DEF Errors
<1> QED
  BY <1>1, <1>2, <1>3, <1>4 DEF ParseError

(* The error of a call.                                                    *)
LEMMA CallIs ==
    ASSUME NEW ty, NEW item, NEW error, last' = Call(ty, item, error)
    PROVE  last'.error = error
BY DEF Call

LEMMA ParsingCalls ==
    ASSUME NEW o, NEW ty, NEW then, NEW failed, ParseField(o, ty, then, failed)
    PROVE  last'.error \in Errors
BY ErrorsOfParsing, CallIs DEF ParseField

(* Whatever is called, the result is one of the errors or none.            *)
LEMMA CallsAreTyped ==
    ASSUME CallInv, [Next]_vars
    PROVE  CallInv'
<1> USE DEF CallInv
<1>1. CASE UNCHANGED <<document, last>>
  BY <1>1
<1>2. CASE OpenMessage
  BY <1>2 DEF OpenMessage
<1>3. {"none", "EndOfList", "NoneTlv", "UnexpectedValue", "UnsupportedLen",
       "UnsupportedTag", "CantParseTwice"} \subseteq Errors
  BY DEF Errors
<1>4. CASE CallField
  <2>1. ASSUME NEW o, NextEnd(o) PROVE last'.error \in Errors
    BY <1>3, <2>1, CallIs DEF NextEnd
  <2>2. ASSUME NEW o, NEW ty, NEW opt, NumberField(o, ty, opt) PROVE last'.error \in Errors
    BY <1>3, <2>2, CallIs, ParsingCalls DEF NumberField
  <2>3. \/ last' = Call("skip", Nothing, "EndOfList")
        \/ \E o : NextEnd(o)
        \/ \E o, ty, opt : NumberField(o, ty, opt)
        \/ UNCHANGED last
    BY <1>4, Zenon DEF CallField
  <2>4. last'.error \in Errors
    BY <1>3, <2>1, <2>2, <2>3, CallIs
  <2> QED
    BY <1>4, <2>4 DEF CallField
<1>5. CASE Parse
  <2>1. \/ last' = Call(FieldType(Top), Nothing, "CantParseTwice")
        \/ \E then, failed : ParseField(Top, FieldType(Top), then, failed)
    BY <1>5, Zenon DEF Parse
  <2> QED
    BY <1>3, <1>5, <2>1, CallIs, ParsingCalls DEF Parse
<1>6. CASE Finish
  <2>1. \/ UNCHANGED last
        \/ last' = Call(FieldType(Top), NextItem(Top), ParseError(FieldType(Top), NextItem(Top)))
    BY <1>6 DEF Finish
  <2> QED
    BY <1>6, <2>1, CallIs, ErrorsOfParsing DEF Finish
<1>7. CASE NextEntry
  <2>1. UNCHANGED last \/ \E o : ParseField(Top, FieldType(Top), o, o)
    BY <1>7, Zenon DEF NextEntry
  <2> QED
    BY <1>7, <2>1, ParsingCalls DEF NextEntry
<1>8. CASE ReadChoice
  <2>1. \/ \E item : \E error \in {"CantParseTwice", "UnsupportedTag",
                                    TagError(NextItem(Top))} :
              last' = Call("tag", item, error)
        \/ \E o, ty, then : ParseField(o, ty, then, then)
    BY <1>8, Zenon DEF ReadChoice
  <2>2. TagError(NextItem(Top)) \in Errors
    BY DEF TagError, Errors
  <2>3. last'.error \in Errors
    BY <1>3, <2>1, <2>2, CallIs, ParsingCalls
  <2> QED
    BY <1>8, <2>3 DEF ReadChoice
<1>9. CASE ReadImplicitChoice
  <2>1. \/ last' = Call("variant", Top.items[1], "UnexpectedValue")
        \/ \E ty : FromItem(ty, Top.items[1])
    BY <1>9, Zenon DEF ReadImplicitChoice
  <2>2. ASSUME NEW ty, FromItem(ty, Top.items[1]) PROVE last'.error \in Errors
    BY <1>3, <2>2, CallIs DEF FromItem
  <2>3. last'.error \in Errors
    BY <1>3, <2>1, <2>2, CallIs
  <2> QED
    BY <1>9, <2>3 DEF ReadImplicitChoice
<1>10. CASE DropTop
  BY <1>10 DEF DropTop
<1> QED
  BY <1>1, <1>2, <1>4, <1>5, <1>6, <1>7, <1>8, <1>9, <1>10 DEF Next, Walk, walkvars, vars

LEMMA TypesFollow ==
    ASSUME IInv, CallInv
    PROVE  TypeOK
<1> SUFFICES ASSUME NEW i \in DOMAIN stack, NEW o, o = stack[i]
             PROVE  /\ o.type \in DOMAIN types
                    /\ o.kind \in {types[o.type].kind, "FIELD"}
                    /\ o.next \in 1 .. Len(o.items) + 1
                    /\ o.kind \in {"SEQUENCE", "FIELD"} => o.id \in DOMAIN Fields(o)
  BY DEF TypeOK, IInv, CallInv, GenInv
<1>1. o \in Objects /\ InStep(o) /\ OfItsType(o)
  <2>1. stack \in Seq(Aligned)
    BY DEF IInv
  <2>2. i \in 1 .. Len(stack)
    BY <2>1, LenProperties
  <2>3. o \in Aligned
    BY <2>1, <2>2, ElementOfSeq
  <2> QED
    BY <2>3 DEF Aligned
<1>2. o.type \in DOMAIN types /\ o.next \in Nat \ {0} /\ Len(o.items) \in Nat
  BY <1>1, Parts
<1>3. o.next \in 1 .. Len(o.items) + 1
  BY <1>1, <1>2 DEF InStep
<1>4. o.kind \in {types[o.type].kind, "FIELD"}
  BY <1>1 DEF OfItsType
<1>5. ASSUME o.kind \in {"SEQUENCE", "FIELD"} PROVE o.id \in DOMAIN Fields(o)
  BY <1>1, <1>2, <1>5, FieldsNumbered DEF OfItsType, Fields, IInv
<1> QED
  BY <1>2, <1>3, <1>4, <1>5

(* Everything the generator reads and the program holds is of its type,    *)
(* whatever the specification: above all, an object stands before a field  *)
(* that its type has and before an item of its list or at the list's end.  *)
THEOREM TypeCorrect == Spec => []TypeOK
<1>1. Init => IInv /\ CallInv
  BY Starts DEF Init, InitWalk, CallInv, Call, Errors
<1>2. IInv /\ CallInv /\ [Next]_vars => IInv' /\ CallInv'
  BY Inductive, CallsAreTyped
<1>3. IInv /\ CallInv => TypeOK
  BY TypesFollow
<1> QED
  BY <1>1, <1>2, <1>3, PTL DEF Spec

-----------------------------------------------------------------------------
(* Variants of an implicit choice.                                         *)

(* Two numbers of the same sign have no length in common.                  *)
LEMMA LengthsDiffer ==
    /\ \A a, b \in Unsigneds : a # b => Lengths(a) \cap Lengths(b) = {}
    /\ \A a, b \in Signeds : a # b => Lengths(a) \cap Lengths(b) = {}
<1>1. /\ Lengths("Unsigned8") = 1 .. 1 /\ Lengths("Unsigned16") = 2 .. 2
      /\ Lengths("Unsigned32") = 3 .. 4 /\ Lengths("Unsigned64") = 5 .. 8
  BY DEF Lengths
<1>2. /\ Lengths("Integer8") = 1 .. 1 /\ Lengths("Integer16") = 2 .. 2
      /\ Lengths("Integer32") = 3 .. 4 /\ Lengths("Integer64") = 5 .. 8
  BY DEF Lengths
<1>3. /\ \A x : x \in 1 .. 1 => x \notin 2 .. 2 /\ x \notin 3 .. 4 /\ x \notin 5 .. 8
      /\ \A x : x \in 2 .. 2 => x \notin 3 .. 4 /\ x \notin 5 .. 8
      /\ \A x : x \in 3 .. 4 => x \notin 5 .. 8
  OBVIOUS
<1>4. ASSUME NEW a \in Unsigneds, NEW b \in Unsigneds, a # b,
             NEW x \in Lengths(a), x \in Lengths(b)
      PROVE  FALSE
  <2>1. CASE a = "Unsigned8"
    BY <1>1, <1>3, <1>4, <2>1 DEF Unsigneds
  <2>2. CASE a = "Unsigned16"
    BY <1>1, <1>3, <1>4, <2>2 DEF Unsigneds
  <2>3. CASE a = "Unsigned32"
    BY <1>1, <1>3, <1>4, <2>3 DEF Unsigneds
  <2>4. CASE a = "Unsigned64"
    BY <1>1, <1>3, <1>4, <2>4 DEF Unsigneds
  <2> QED
    BY <2>1, <2>2, <2>3, <2>4 DEF Unsigneds
<1>5. ASSUME NEW a \in Signeds, NEW b \in Signeds, a # b,
             NEW x \in Lengths(a), x \in Lengths(b)
      PROVE  FALSE
  <2>1. CASE a = "Integer8"
    BY <1>2, <1>3, <1>5, <2>1 DEF Signeds
  <2>2. CASE a = "Integer16"
    BY <1>2, <1>3, <1>5, <2>2 DEF Signeds
  <2>3. CASE a = "Integer32"
    BY <1>2, <1>3, <1>5, <2>3 DEF Signeds
  <2>4. CASE a = "Integer64"
    BY <1>2, <1>3, <1>5, <2>4 DEF Signeds
  <2> QED
    BY <2>1, <2>2, <2>3, <2>4 DEF Signeds
<1> QED
  BY <1>4, <1>5

(* The item a type is sent as.                                             *)
ItemOf(ty) ==
    CASE ty \in Unsigneds -> "Unsigned" [] ty \in Signeds -> "Integer"
      [] ty = "Boolean" -> "Boolean" [] ty = "Octet_String" -> "String"
      [] OTHER -> "List"

(* They are given with the lengths they may have.                          *)
LEMMA DirectIs ==
    ASSUME NEW ty
    PROVE  \E lens : /\ DirectTypes(ty) = {ItemOf(ty)} \X lens
                     /\ ty \in Unsigneds \union Signeds => lens = Lengths(ty)
<1>1. CASE ty \in Unsigneds
  <2>1. ItemOf(ty) = "Unsigned" /\ Variant(ty) = "Unsigned"
    BY <1>1 DEF ItemOf, Variant, Unsigneds, Signeds
  <2>2. DirectTypes(ty) = {Variant(ty)} \X Lengths(ty)
    BY <1>1 DEF DirectTypes, Unsigneds, Signeds
  <2> QED
    BY <2>1, <2>2
<1>2. CASE ty \in Signeds
  <2>1. ItemOf(ty) = "Integer" /\ Variant(ty) = "Integer"
    BY <1>2 DEF ItemOf, Variant, Unsigneds, Signeds
  <2>2. DirectTypes(ty) = {Variant(ty)} \X Lengths(ty)
    BY <1>2 DEF DirectTypes, Unsigneds, Signeds
  <2> QED
    BY <2>1, <2>2
<1>3. CASE ty \notin Unsigneds \union Signeds
  <2>1. DirectTypes(ty) = {ItemOf(ty)} \X AnyLength
    BY <1>3 DEF DirectTypes, ItemOf, Unsigneds, Signeds
  <2> QED
    BY <1>3, <2>1
<1> QED
  BY <1>1, <1>2, <1>3

(* Types that have an item of their own never share one.                   *)
LEMMA DirectDiffer ==
    ASSUME NEW a, NEW b, a # b,
           HasItsOwnItem(a) \/ HasItsOwnItem(b)
    PROVE  DirectTypes(a) \cap DirectTypes(b) = {}
<1>1. PICK A : /\ DirectTypes(a) = {ItemOf(a)} \X A
               /\ a \in Unsigneds \union Signeds => A = Lengths(a)
  BY DirectIs
<1>2. PICK B : /\ DirectTypes(b) = {ItemOf(b)} \X B
               /\ b \in Unsigneds \union Signeds => B = Lengths(b)
  BY DirectIs
<1>3. CASE ItemOf(a) # ItemOf(b)
  BY <1>1, <1>2, <1>3
<1>4. CASE ItemOf(a) = ItemOf(b)
  <2>1. \/ a \in Unsigneds /\ b \in Unsigneds
        \/ a \in Signeds /\ b \in Signeds
    BY <1>4 DEF ItemOf, HasItsOwnItem, Primitives, Unsigneds, Signeds
  <2>2. A \cap B = {}
    BY <1>1, <1>2, <2>1, LengthsDiffer
  <2> QED
    BY <1>1, <1>2, <2>2
<1> QED
  BY <1>3, <1>4

(* What passed the validation.                                             *)
Validated == genpc = "done" => \A n \in DOMAIN types : ~Ambiguous(types[n]) /\ ~Unsendable(types[n])

(* The program that reads a message changes nothing of the parser.         *)
LEMMA WalkKeeps ==
    ASSUME Walk
    PROVE  UNCHANGED genvars
BY DEF Walk, OpenMessage, CallField, Parse, Finish, NextEntry, ReadChoice,
       ReadImplicitChoice, DropTop

(* Only the validation starts the program.                                 *)
LEMMA ValidatedKept ==
    ASSUME Validated, [Next]_vars
    PROVE  Validated'
<1>1. CASE UNCHANGED genvars
  BY <1>1 DEF genvars, Validated, Ambiguous, Unsendable, TellsApart, SameName, BothDefined,
              Resolve, HasItsOwnItem
<1>2. CASE Generate
  <2>1. CASE Validate
    <3>1. UNCHANGED <<types, typedefs>>
      BY <2>1 DEF Validate
    <3>2. genpc' = "done" => \A n \in DOMAIN types : ~(Ambiguous(types[n]) \/ Unsendable(types[n]))
      BY <2>1, Zenon DEF Validate
    <3> QED
      BY <3>1, <3>2 DEF Validated, Ambiguous, Unsendable, TellsApart, SameName, BothDefined,
              Resolve, HasItsOwnItem
  <2>2. CASE ~Validate
    <3>1. genpc' # "done"
      BY <1>2, <2>2 DEF Generate, OtherLine, Typedef, OpenBlock, EndOfText, FieldLine, AddField,
          CloseBlock, CommentLine, TextTooShort, Panic
    <3> QED
      BY <3>1 DEF Validated
  <2> QED
    BY <2>1, <2>2
<1> QED
  BY <1>1, <1>2, WalkKeeps DEF Next, vars

(* Of two variants at most one is sent as a list.                          *)
LEMMA ValidatedMeans ==
    ASSUME Validated
    PROVE  VariantsToldApart
<1> SUFFICES ASSUME genpc = "done", NEW n \in DOMAIN types, types[n].kind = "IMPLICIT_CHOICE",
                    NEW i \in DOMAIN types[n].fields, NEW j \in DOMAIN types[n].fields,
                    NEW a, a = types[n].fields[i].ty, NEW b, b = types[n].fields[j].ty,
                    a \notin DOMAIN typedefs, b \notin DOMAIN typedefs,
                    i # j
             PROVE  DirectTypes(a) \cap DirectTypes(b) = {}
  BY DEF VariantsToldApart
<1>1. ~Ambiguous(types[n]) /\ ~Unsendable(types[n])
  BY DEF Validated
<1>2. a # b /\ ~({a, b} \subseteq DOMAIN types)
  BY <1>1 DEF Ambiguous, TellsApart, SameName, BothDefined
<1>3. /\ HasItsOwnItem(a) \/ a \in DOMAIN types
      /\ HasItsOwnItem(b) \/ b \in DOMAIN types
  BY <1>1 DEF Unsendable, Resolve
<1>4. HasItsOwnItem(a) \/ HasItsOwnItem(b)
  BY <1>2, <1>3
<1> QED
  BY <1>2, <1>4, DirectDiffer

(* No item that is received fits two variants of an implicit choice, in    *)
(* no specification that main accepts, unless one of the two variants is a *)
(* typedef or an implicit choice itself.                                   *)
THEOREM VariantsAreToldApart == Spec => []VariantsToldApart
<1>1. Init => Validated
  BY DEF Init, GenInit, Validated
<1>2. Validated /\ [Next]_vars => Validated'
  BY ValidatedKept
<1>3. Validated => VariantsToldApart
  BY ValidatedMeans
<1> QED
  BY <1>1, <1>2, <1>3, PTL DEF Spec
-----------------------------------------------------------------------------
(* Messages that follow the specification.                                 *)

(* What is sent for a type is one of five kinds of items.                  *)
Sendable == {"Unsigned", "Integer", "Boolean", "String", "List"}

LEMMA NamesDiffer ==
    /\ ~IsNumber("Octet_String") /\ HasItsOwnItem("Octet_String")
    /\ \A ty : HasItsOwnItem(ty) <=> IsNumber(ty) \/ ty = "Octet_String"
    /\ \A ty : IsNumber(ty) => Variant(ty) \in {"Unsigned", "Integer", "Boolean"}
    /\ "SML_Message" \notin Primitives
BY DEF IsNumber, HasItsOwnItem, Primitives, Unsigneds, Signeds, Variant

(* The lengths of a number are those the function of its type converts.    *)
LEMMA WidthIsLengths ==
    ASSUME NEW ty, IsNumber(ty)
    PROVE  Width(ty) \div 2 + 1 .. Width(ty) = IF ty = "Boolean" THEN {1} ELSE Lengths(ty)
<1>1. /\ 1 \div 2 + 1 = 1 /\ 2 \div 2 + 1 = 2 /\ 4 \div 2 + 1 = 3 /\ 8 \div 2 + 1 = 5
      /\ 1 .. 1 = {1}
  OBVIOUS
<1>2. CASE ty \in {"Unsigned8", "Integer8", "Boolean"}
  <2>1. Width(ty) = 1 /\ (ty # "Boolean" => Lengths(ty) = 1 .. 1)
    BY <1>2 DEF Width, Lengths
  <2> QED
    BY <1>1, <2>1
<1>3. CASE ty \in {"Unsigned16", "Integer16"}
  <2>1. Width(ty) = 2 /\ Lengths(ty) = 2 .. 2 /\ ty # "Boolean"
    BY <1>3 DEF Width, Lengths
  <2> QED
    BY <1>1, <2>1
<1>4. CASE ty \in {"Unsigned32", "Integer32"}
  <2>1. Width(ty) = 4 /\ Lengths(ty) = 3 .. 4 /\ ty # "Boolean"
    BY <1>4 DEF Width, Lengths
  <2> QED
    BY <1>1, <2>1
<1>5. CASE ty \in {"Unsigned64", "Integer64"}
  <2>1. Width(ty) = 8 /\ Lengths(ty) = 5 .. 8 /\ ty # "Boolean"
    BY <1>5 DEF Width, Lengths
  <2> QED
    BY <1>1, <2>1
<1> QED
  BY <1>2, <1>3, <1>4, <1>5 DEF IsNumber, Primitives, Unsigneds, Signeds

(* The items that are none of those.                                       *)
LEMMA MarksDiffer ==
    ASSUME NEW item, item.ty \in Sendable
    PROVE  item # EndMark /\ (item.ty # "String" => item # None)
<1>1. EndMark.ty = "End" /\ None.ty = "String"
  BY DEF EndMark, None, Item
<1> QED
  BY <1>1 DEF Sendable

(* What was sent fits the rule of its type.                                *)
LEMMA AsFits ==
    ASSUME Faithful, NEW item, NEW name, As(item, name)
    PROVE  Fits(item, Resolve(name))
<1> DEFINE ty == Resolve(name)
<1>1. <<item, ty>> \in Sent
  BY DEF As
<1> HIDE DEF ty
<1>2. Fits(<<item, ty>>[1], <<item, ty>>[2])
  BY <1>1, Zenon DEF Faithful
<1>3. <<item, ty>>[1] = item /\ <<item, ty>>[2] = ty
  OBVIOUS
<1>4. Fits(item, ty)
  BY <1>2, <1>3
<1> QED
  BY <1>4 DEF ty

(* The rule of a number, of a string and of the other types.               *)
LEMMA RuleOf ==
    ASSUME NEW item, NEW ty, Fits(item, ty)
    PROVE  /\ IsNumber(ty) => FitsNumber(item, ty)
           /\ ty = "Octet_String" => item.ty = "String"
           /\ ~HasItsOwnItem(ty) => ty \in DOMAIN types /\ FitsType(item, types[ty])
BY NamesDiffer DEF Fits

(* A type that is no implicit choice says what kind of item is sent.       *)
LEMMA ItemKind ==
    ASSUME NEW item, NEW ty, Fits(item, ty), ~IsImplicit(ty)
    PROVE  /\ item.ty \in Sendable
           /\ IsNumber(ty) => item.ty = Variant(ty)
           /\ ~HasItsOwnItem(ty) => item.ty = "List" /\ IsList(ty)
<1>1. CASE IsNumber(ty)
  BY <1>1, RuleOf, NamesDiffer DEF FitsNumber, Sendable
<1>2. CASE ty = "Octet_String"
  BY <1>2, RuleOf, NamesDiffer DEF Sendable
<1>3. CASE ~HasItsOwnItem(ty)
  <2>1. ty \in DOMAIN types /\ FitsType(item, types[ty])
    BY <1>3, RuleOf
  <2>2. types[ty].kind # "IMPLICIT_CHOICE"
    BY <1>3, <2>1 DEF IsImplicit
  <2> QED
    BY <1>3, <2>1, <2>2, NamesDiffer DEF FitsType, IsList, Sendable
<1> QED
  BY <1>1, <1>2, <1>3, NamesDiffer

(* The variants of an implicit choice are none.                            *)
LEMMA VariantDirect ==
    ASSUME Compiles, NEW n \in DOMAIN types, types[n].kind = "IMPLICIT_CHOICE",
           NEW i \in DOMAIN types[n].fields
    PROVE  ~IsImplicit(Resolve(types[n].fields[i].ty))
<1> DEFINE ty == Resolve(types[n].fields[i].ty)
<1>1. HasParser("IMPLICIT_CHOICE", ty)
  BY DEF Compiles, FieldTypes
<1> HIDE DEF ty
<1>2. ~IsImplicit(ty)
  BY <1>1, NamesDiffer DEF HasParser, IsImplicit
<1> QED
  BY <1>2 DEF ty

(* So an implicit choice is sent as an item of one of those kinds, too.    *)
LEMMA FitsSendable ==
    ASSUME Faithful, Compiles, NEW item, NEW ty, Fits(item, ty)
    PROVE  item.ty \in Sendable
<1>1. CASE ~IsImplicit(ty)
  BY <1>1, ItemKind
<1>2. CASE IsImplicit(ty)
  <2>1. ty \in DOMAIN types /\ types[ty].kind = "IMPLICIT_CHOICE" /\ FitsType(item, types[ty])
    BY <1>2, RuleOf DEF IsImplicit
  <2>2. PICK i \in DOMAIN types[ty].fields : As(item, types[ty].fields[i].ty)
    BY <2>1 DEF FitsType, FitsVariant
  <2>3. Fits(item, Resolve(types[ty].fields[i].ty))
    BY <2>2, AsFits
  <2> QED
    BY <2>1, <2>3, VariantDirect, ItemKind
<1> QED
  BY <1>1, <1>2

(* An item that fits is parsed, unless it is absent.                       *)
LEMMA FitsParses ==
    ASSUME Faithful, Compiles, NEW item \in Items, NEW ty, Fits(item, ty)
    PROVE  \/ ParseError(ty, item) = "none"
           \/ item = None /\ ~IsNumber(ty)
<1>1. item # Nothing /\ item # EndMark /\ (item.ty # "String" => item # None)
  BY FitsSendable, MarksDiffer, ItemsAssumption
<1>2. CASE IsNumber(ty)
  <2>1. item.ty = Variant(ty) /\ item.len \in Width(ty) \div 2 + 1 .. Width(ty)
    BY <1>2, RuleOf DEF FitsNumber
  <2>2. item.len \in IF ty = "Boolean" THEN {1} ELSE Lengths(ty)
    BY <1>2, <2>1, WidthIsLengths
  <2>3. NumberError(ty, item) = "none"
    BY <1>1, <1>2, <2>1, <2>2, NamesDiffer DEF NumberError
  <2> QED
    BY <1>1, <1>2, <2>3 DEF ParseError
<1>3. CASE ty = "Octet_String"
  <2>1. item.ty = "String"
    BY <1>3, RuleOf
  <2>2. item # None => StringError(item) = "none"
    BY <2>1 DEF StringError
  <2>3. ~IsNumber(ty) /\ ~IsList(ty)
    BY <1>3, NamesDiffer DEF IsList
  <2> QED
    BY <1>1, <1>3, <2>2, <2>3 DEF ParseError
<1>4. CASE ~HasItsOwnItem(ty)
  <2>1. ~IsNumber(ty) /\ ty # "Octet_String" /\ ty \in DOMAIN types
    BY <1>4, NamesDiffer, RuleOf
  <2>2. CASE IsList(ty)
    <3>1. item.ty = "List" /\ FitsType(item, types[ty]) /\ types[ty].kind # "IMPLICIT_CHOICE"
      BY <1>4, <2>2, RuleOf, ItemKind DEF IsList, IsImplicit
    <3>2. types[ty].kind = "CHOICE" => Len(item.items) = 2
      BY <3>1 DEF FitsType, FitsChoice
    <3>3. ListError(ty, item) = "none"
      BY <1>1, <3>1, <3>2 DEF ListError
    <3> QED
      BY <1>1, <2>1, <2>2, <3>3 DEF ParseError
  <2>3. CASE ~IsList(ty)
    BY <1>1, <2>1, <2>3 DEF ParseError
  <2> QED
    BY <2>2, <2>3
<1> QED
  BY <1>2, <1>3, <1>4, NamesDiffer

LEMMA ElementOfSingleton ==
    ASSUME NEW S, NEW x, <<x>> \in Seq(S)
    PROVE  x \in S
<1>1. <<x>>[1] = x /\ 1 \in 1 .. Len(<<x>>)
  OBVIOUS
<1> QED
  BY <1>1, ElementOfSeq

(* What the items of an object are, when the message follows the           *)
(* specification: those its functions ask for.                             *)
Holds(o) ==
    /\ o.kind \in {"SEQUENCE", "FIELD"} => FitsFields(o.items, Fields(o))
    /\ o.kind = "FIELD" => FieldType(o) # "EndOfSmlMsg" /\ ~IsNumber(FieldType(o))
    /\ o.kind = "SEQUENCE_OF" => FitsEntries(o.items, Fields(o))
    /\ o.kind = "CHOICE" => FitsChoice(o.items, Fields(o)) /\ (o.parsed = FALSE => o.next = 1)
    /\ o.kind = "IMPLICIT_CHOICE" => o.items[1] = None \/ FitsVariant(o.items[1], Fields(o))

Holding == {o \in Aligned : Holds(o)}

(* A new object of a list that fits its type.                              *)
LEMMA NewHolds ==
    ASSUME NEW ty, NEW items, NEW kind, kind = types[ty].kind,
           Object(kind, ty, items) \in Aligned,
           kind = "SEQUENCE" => FitsFields(items, types[ty].fields),
           kind = "SEQUENCE_OF" => FitsEntries(items, types[ty].fields),
           kind = "CHOICE" => FitsChoice(items, types[ty].fields),
           kind = "IMPLICIT_CHOICE" => items[1] = None \/ FitsVariant(items[1], types[ty].fields),
           kind # "FIELD"
    PROVE  Object(kind, ty, items) \in Holding
<1>1. ASSUME NEW o, o = Object(kind, ty, items) PROVE Holds(o)
  <2>1. o.kind = kind /\ o.type = ty /\ o.items = items /\ o.next = 1
    BY <1>1 DEF Object
  <2>2. Fields(o) = types[ty].fields
    BY <2>1 DEF Fields
  <2> QED
    BY <2>1, <2>2, Zenon DEF Holds
<1> QED
  BY <1>1 DEF Holding

(* An item that fits is parsed to an object that holds what it asks for.   *)
LEMMA ChildHolds ==
    ASSUME GenInv, Compiles, Faithful, NEW ty \in Named, NEW item \in Items,
           Fits(item, ty) \/ (item = None /\ ~IsList(ty))
    PROVE  Child(ty, item) \in Seq(Holding)
<1>1. Child(ty, item) \in Seq(Aligned)
  BY ChildAligned
<1>2. CASE IsList(ty)
  <2> DEFINE kind == types[ty].kind
  <2>1. Child(ty, item) = <<Object(kind, ty, item.items)>>
    BY <1>2 DEF Child, IsList
  <2>2. ~HasItsOwnItem(ty) /\ Fits(item, ty) /\ ty \in DOMAIN types /\ kind # "IMPLICIT_CHOICE"
    BY <1>2 DEF IsList, IsImplicit
  <2>3. FitsType(item, types[ty])
    BY <2>2, RuleOf
  <2>4. kind # "FIELD"
    BY <2>2 DEF GenInv, GenTypeOK, Kinds
  <2>5. /\ kind = "SEQUENCE" => FitsFields(item.items, types[ty].fields)
        /\ kind = "SEQUENCE_OF" => FitsEntries(item.items, types[ty].fields)
        /\ kind = "CHOICE" => FitsChoice(item.items, types[ty].fields)
    BY <2>2, <2>3 DEF FitsType
  <2> HIDE DEF kind
  <2>6. Object(kind, ty, item.items) \in Aligned
    BY <1>1, <2>1, ElementOfSingleton
  <2>7. Object(kind, ty, item.items) \in Holding
    BY <2>2, <2>4, <2>5, <2>6, NewHolds DEF kind
  <2> QED
    BY <2>1, <2>7, Singleton
<1>3. CASE IsImplicit(ty)
  <2> DEFINE items == <<item>>
  <2>1. Child(ty, item) = <<Object("IMPLICIT_CHOICE", ty, items)>>
    BY <1>3 DEF Child, IsList
  <2>2. ~HasItsOwnItem(ty) /\ ty \in DOMAIN types /\ types[ty].kind = "IMPLICIT_CHOICE"
    BY <1>3 DEF IsImplicit
  <2>3. item = None \/ FitsVariant(item, types[ty].fields)
    BY <2>2, RuleOf DEF FitsType
  <2>4. items[1] = item
    OBVIOUS
  <2> HIDE DEF items
  <2>5. Object("IMPLICIT_CHOICE", ty, items) \in Aligned
    BY <1>1, <2>1, ElementOfSingleton
  <2>6. Object("IMPLICIT_CHOICE", ty, items) \in Holding
    BY <2>2, <2>3, <2>4, <2>5, NewHolds
  <2> QED
    BY <2>1, <2>6, Singleton
<1>4. CASE ~IsList(ty) /\ ~IsImplicit(ty)
  BY <1>4, EmptySeq DEF Child
<1> QED
  BY <1>2, <1>3, <1>4

(* Reading an item or marking the object changes nothing of its items.     *)
LEMMA SameItems ==
    ASSUME NEW o, Holds(o), NEW p, p \in Aligned,
           p.items = o.items, p.type = o.type, p.kind = o.kind, p.id = o.id,
           p.kind = "CHOICE" => p.parsed = TRUE
    PROVE  p \in Holding
<1>1. Fields(p) = Fields(o) /\ FieldType(p) = FieldType(o)
  BY DEF Fields, FieldType
<1>2. Holds(p)
  BY <1>1, Zenon DEF Holds
<1> QED
  BY <1>2 DEF Holding

LEMMA BehindHolds ==
    ASSUME NEW o \in Objects, Behind(o) \in Seq(Aligned), FitsFields(o.items, Fields(o))
    PROVE  Behind(o) \in Seq(Holding)
<1>1. CASE o.id = Len(Fields(o))
  BY <1>1, EmptySeq DEF Behind
<1>2. CASE o.id # Len(Fields(o))
  <2> DEFINE p == [o EXCEPT !.kind = "SEQUENCE", !.id = @ + 1, !.parsed = FALSE]
  <2>1. Behind(o) = <<p>>
    BY <1>2 DEF Behind
  <2>2. p.kind = "SEQUENCE" /\ p.items = o.items /\ p.type = o.type
    BY DEF Objects
  <2> HIDE DEF p
  <2>3. p \in Aligned
    BY <2>1, ElementOfSingleton
  <2>4. Holds(p)
    BY <2>2 DEF Holds, Fields
  <2>5. p \in Holding
    BY <2>3, <2>4 DEF Holding
  <2> QED
    BY <2>1, <2>5, Singleton
<1> QED
  BY <1>1, <1>2

(* The item a sequence's object stands before is that of its field.        *)
LEMMA NextOfField ==
    ASSUME NEW o \in Aligned, o.kind \in {"SEQUENCE", "FIELD"}, o.parsed = FALSE,
           GenInv, FitsFields(o.items, Fields(o))
    PROVE  /\ o.id \in DOMAIN Fields(o) /\ o.id \in Nat /\ o.id <= Len(Fields(o))
           /\ o.next = o.id /\ Len(o.items) = Len(Fields(o)) /\ Len(o.items) \in Nat
           /\ NextItem(o) = o.items[o.id]
           /\ NextItem(o) \in Items
           /\ FitsField(NextItem(o), Fields(o)[o.id])
<1>1. /\ o.id \in Nat \ {0} /\ Len(o.items) \in Nat
      /\ o.id \in 1 .. Len(Fields(o)) /\ o.type \in DOMAIN types
      /\ o.next = IF o.id <= Len(o.items) THEN o.id ELSE Len(o.items) + 1
  BY Parts DEF Aligned, InStep, Seen, OfItsType
<1>2. Len(o.items) = Len(Fields(o))
  BY DEF FitsFields
<1>3. o.id \in DOMAIN Fields(o)
  BY <1>1, FieldsNumbered DEF Fields
<1>4. o.next = o.id /\ o.id <= Len(o.items)
  BY <1>1, <1>2
<1>5. NextItem(o) = o.items[o.id]
  BY <1>1, <1>4 DEF NextItem, ListLen
<1>6. o.items[o.id] \in Items
  <2>1. o.items \in Seq(Items) /\ o.id \in 1 .. Len(o.items)
    BY <1>1, <1>4 DEF Aligned, Objects
  <2> QED
    BY <2>1, ElementOfSeq
<1>7. FitsField(o.items[o.id], Fields(o)[o.id])
  BY <1>3 DEF FitsFields
<1> QED
  BY <1>1, <1>2, <1>3, <1>4, <1>5, <1>6, <1>7

-----------------------------------------------------------------------------
(* The steps of a program that reads such a message.                       *)

(* A call that asks for an item that fits.                                 *)
LEMMA ParseFieldHolds ==
    ASSUME IInv, Faithful, stack # << >>, stack \in Seq(Holding),
           NEW o, NextItem(o) \in Items, NEW ty \in Named,
           Fits(NextItem(o), ty) \/ (NextItem(o) = None /\ ~IsNumber(ty)),
           NEW then \in Seq(Holding), NEW failed \in Seq(Holding),
           ParseField(o, ty, then, failed)
    PROVE  stack' \in Seq(Holding) /\ ~Refused'
<1> DEFINE item == NextItem(o)  error == ParseError(ty, item)
<1>1. /\ last' = Call(ty, item, error)
      /\ Replace(IF error = "none" THEN then \o Child(ty, item) ELSE failed)
  BY DEF ParseField
<1>2. GenInv /\ Compiles /\ item \in Items /\ (Fits(item, ty) \/ (item = None /\ ~IsNumber(ty)))
  BY DEF IInv
<1>3. item = None /\ IsList(ty) => error # "none"
  <2>1. IsList(ty) => ~IsNumber(ty)
    BY NamesDiffer DEF IsList
  <2>2. None # EndMark
    BY DEF None, EndMark, Item
  <2> QED
    BY <2>1, <2>2 DEF ParseError, ListError
<1> HIDE DEF item, error
<1>4. error = "none" \/ (item = None /\ ~IsNumber(ty))
  BY <1>2, FitsParses DEF error
<1>5. ~Refused'
  <2>1. last'.error = error /\ last'.read = item /\ last'.asked = ty
    BY <1>1 DEF Call
  <2> QED
    BY <1>4, <2>1 DEF Refused, IsNumber
<1>6. CASE error = "none"
  <2>a. Fits(item, ty) \/ (item = None /\ ~IsList(ty))
    BY <1>2, <1>3, <1>6
  <2>1. Child(ty, item) \in Seq(Holding)
    BY <1>2, <2>a, ChildHolds
  <2>2. then \o Child(ty, item) \in Seq(Holding)
    BY <2>1, ConcatProperties
  <2> QED
    BY <1>1, <1>5, <1>6, <2>2, Replacing
<1>7. CASE error # "none"
  BY <1>1, <1>5, <1>7, Replacing
<1> QED
  BY <1>6, <1>7

LEMMA ReplaceHolds ==
    ASSUME stack \in Seq(Holding), stack # << >>, NEW objects \in Seq(Holding), Replace(objects)
    PROVE  stack' \in Seq(Holding)
BY Replacing

(* What a call that fails for no reason of the message's leaves.           *)
LEMMA CallIsFine ==
    ASSUME NEW asked, NEW item, NEW error, last' = Call(asked, item, error),
           error \in {"none", "CantParseTwice"} \/ (item = None /\ ~IsNumber(asked))
    PROVE  ~Refused'
<1>1. last'.error = error /\ last'.read = item /\ last'.asked = asked
  BY DEF Call
<1> QED
  BY <1>1 DEF Refused, IsNumber

LEMMA SameCall ==
    ASSUME ~Refused, UNCHANGED last
    PROVE  ~Refused'
BY DEF Refused, IsNumber

LEMMA TopHolding ==
    ASSUME IInv, stack # << >>, stack \in Seq(Holding)
    PROVE  Top \in Aligned /\ Holds(Top)
<1>1. Len(stack) \in 1 .. Len(stack)
  BY EmptySeq
<1> QED
  BY <1>1, ElementOfSeq DEF Top, Last, Holding

(* A field's function, whichever fields before it are left out.            *)
LEMMA CallFieldHolds ==
    ASSUME IInv, Faithful, ~Refused, stack \in Seq(Holding), CallField
    PROVE  stack' \in Seq(Holding) /\ ~Refused'
<1>1. /\ stack # << >> /\ Top \in Aligned /\ Holds(Top) /\ Top.kind = "SEQUENCE"
      /\ GenInv /\ Compiles
  BY UsingTop, TopHolding DEF CallField
<1>2. FitsFields(Top.items, Fields(Top)) /\ Top.parsed = FALSE
  BY <1>1 DEF Holds, Aligned, InStep
<1> DEFINE at(id2) == [Top EXCEPT !.id = id2, !.next = @ + (id2 - Top.id)]
           asked(id2) == Resolve(Fields(Top)[id2].ty)
<1>3. PICK id2 \in Top.id .. Len(Fields(Top)) :
          \/ id2 - Top.id > ListLen(Top)
          \/ /\ id2 - Top.id <= ListLen(Top)
             /\ \/ /\ IsNumber(asked(id2))
                   /\ NumberField(at(id2), asked(id2), Fields(Top)[id2].optional)
                \/ asked(id2) = "EndOfSmlMsg" /\ NextEnd(at(id2))
                \/ /\ ~IsNumber(asked(id2)) /\ asked(id2) # "EndOfSmlMsg"
                   /\ Replace(<<[at(id2) EXCEPT !.kind = "FIELD"]>>)
                   /\ UNCHANGED last
  BY Zenon DEF CallField
<1>4. /\ Top.id \in Nat \ {0} /\ Top.next = Top.id /\ Len(Top.items) \in Nat
      /\ Len(Top.items) = Len(Fields(Top))
      /\ DOMAIN Fields(Top) = 1 .. Len(Fields(Top)) /\ Top.type \in DOMAIN types
      /\ Top.id \in 1 .. Len(Fields(Top))
  BY <1>1, <1>2, NextOfField, FieldsNumbered, Parts DEF Aligned, OfItsType, Fields
<1>5. /\ id2 \in 1 .. Len(Fields(Top)) /\ Top.id <= id2
      /\ id2 - Top.id <= ListLen(Top) /\ ~(id2 - Top.id > ListLen(Top))
  BY <1>4 DEF ListLen
<1>6. asked(id2) \in Named /\ id2 \in DOMAIN Fields(Top)
  BY <1>4, <1>5, FieldNamed DEF Fields
<1> DEFINE o == at(id2)  ty == asked(id2)  field == Fields(Top)[id2]
<1>7. o = [Top EXCEPT !.id = id2, !.next = Top.next + (id2 - Top.id)]
  OBVIOUS
<1>8. o \in Aligned /\ o.kind = "SEQUENCE" /\ [o EXCEPT !.kind = "FIELD"] \in Aligned
  BY <1>1, <1>5, <1>7, SkippingAligned
<1>9. o.items = Top.items /\ o.type = Top.type /\ o.id = id2 /\ o.parsed = FALSE
  BY <1>1, <1>2 DEF Aligned, Objects
<1>10. \/ IsNumber(ty) /\ NumberField(o, ty, field.optional)
       \/ ty = "EndOfSmlMsg" /\ NextEnd(o)
       \/ /\ ~IsNumber(ty) /\ ty # "EndOfSmlMsg"
          /\ Replace(<<[o EXCEPT !.kind = "FIELD"]>>)
          /\ UNCHANGED last
  BY <1>3, <1>5
<1>11. ty = Resolve(field.ty) /\ ty \in Named
  BY <1>6
<1> HIDE DEF at, asked, o, ty
<1>12. Fields(o) = Fields(Top)
  BY <1>9 DEF Fields
<1>13. FitsFields(o.items, Fields(o))
  BY <1>2, <1>9, <1>12
<1>14. NextItem(o) \in Items /\ FitsField(NextItem(o), field)
  BY <1>1, <1>8, <1>9, <1>12, <1>13, NextOfField
<1>15. << >> \in Seq(Holding)
  BY EmptySeq
<1>16. CASE IsNumber(ty) /\ NumberField(o, ty, field.optional)
  <2>1. Behind(Consumed(o)) \in Seq(Holding)
    <3>1. Behind(Consumed(o)) \in Seq(Aligned)
      BY <1>1, <1>8, <1>9, BehindConsumed
    <3>2. /\ Consumed(o) \in Objects /\ Consumed(o).items = o.items
          /\ Consumed(o).type = o.type
      BY <1>8, Consuming
    <3>3. Fields(Consumed(o)) = Fields(o)
      BY <3>2 DEF Fields
    <3> QED
      BY <1>13, <3>1, <3>2, <3>3, BehindHolds
  <2>2. CASE field.optional /\ NextItem(o) = None
    <3>1. last' = Call(ty, None, "none") /\ Replace(Behind(Consumed(o)))
      BY <1>16, <2>2 DEF NumberField
    <3> QED
      BY <1>1, <2>1, <3>1, CallIsFine, ReplaceHolds
  <2>3. CASE ~(field.optional /\ NextItem(o) = None)
    <3>1. ParseField(o, ty, Behind(Consumed(o)), << >>)
      BY <1>16, <2>3 DEF NumberField
    <3>2. ty # "EndOfSmlMsg"
      BY <1>16 DEF IsNumber, Primitives, Unsigneds, Signeds
    <3>3. As(NextItem(o), field.ty)
      BY <1>11, <1>14, <2>3, <3>2 DEF FitsField
    <3>4. Fits(NextItem(o), ty)
      BY <1>11, <3>3, AsFits
    <3> QED
      BY <1>1, <1>11, <1>14, <1>15, <2>1, <3>1, <3>4, ParseFieldHolds
  <2> QED
    BY <2>2, <2>3
<1>17. CASE ty = "EndOfSmlMsg" /\ NextEnd(o)
  <2>1. NextItem(o) = None \/ NextItem(o) = EndMark
    BY <1>11, <1>14, <1>17 DEF FitsField
  <2>2. ~IsNumber("EndOfSmlMsg")
    BY DEF IsNumber, Primitives, Unsigneds, Signeds
  <2>3. ~Refused'
    BY <1>17, <2>1, <2>2, CallIsFine DEF NextEnd
  <2> QED
    BY <1>1, <1>15, <1>17, <2>3, ReplaceHolds DEF NextEnd
<1>18. CASE /\ ~IsNumber(ty) /\ ty # "EndOfSmlMsg"
            /\ Replace(<<[o EXCEPT !.kind = "FIELD"]>>) /\ UNCHANGED last
  <2> DEFINE p == [o EXCEPT !.kind = "FIELD"]
  <2>1. p.kind = "FIELD" /\ p.items = o.items /\ p.type = o.type /\ p.id = id2
    BY <1>8, <1>9 DEF Aligned, Objects
  <2>2. p \in Aligned /\ Replace(<<p>>)
    BY <1>8, <1>18
  <2> HIDE DEF p
  <2>3. FieldType(p) = ty /\ Fields(p) = Fields(o)
    BY <1>11, <1>12, <2>1 DEF FieldType, Fields
  <2>4. Holds(p)
    BY <1>13, <1>18, <2>1, <2>3 DEF Holds
  <2>5. <<p>> \in Seq(Holding)
    BY <2>2, <2>4, Singleton DEF Holding
  <2> QED
    BY <1>1, <1>18, <2>2, <2>5, ReplaceHolds, SameCall
<1> QED
  BY <1>10, <1>16, <1>17, <1>18

(* The item of a field that may be parsed.                                 *)
LEMMA FieldItem ==
    ASSUME IInv, Faithful, NEW o \in Aligned, Holds(o), o.kind = "FIELD", o.parsed = FALSE
    PROVE  /\ NextItem(o) \in Items /\ FieldType(o) \in Named
           /\ \/ Fits(NextItem(o), FieldType(o))
              \/ NextItem(o) = None /\ ~IsNumber(FieldType(o))
<1>1. /\ GenInv /\ FitsFields(o.items, Fields(o))
      /\ FieldType(o) # "EndOfSmlMsg" /\ ~IsNumber(FieldType(o))
  BY DEF IInv, Holds
<1>2. NextItem(o) \in Items /\ FitsField(NextItem(o), Fields(o)[o.id])
  BY <1>1, NextOfField
<1>3. FieldType(o) \in Named
  BY <1>1, FieldTypeNamed
<1>4. NextItem(o) = None \/ As(NextItem(o), Fields(o)[o.id].ty)
  BY <1>1, <1>2 DEF FitsField, FieldType
<1>5. ASSUME As(NextItem(o), Fields(o)[o.id].ty)
      PROVE  Fits(NextItem(o), FieldType(o))
  <2>1. Fits(NextItem(o), Resolve(Fields(o)[o.id].ty))
    BY <1>5, AsFits
  <2> QED
    BY <2>1 DEF FieldType
<1> QED
  BY <1>1, <1>2, <1>3, <1>4, <1>5

LEMMA ParseHolds ==
    ASSUME IInv, Faithful, ~Refused, stack \in Seq(Holding), Parse
    PROVE  stack' \in Seq(Holding) /\ ~Refused'
<1>1. /\ stack # << >> /\ Top \in Aligned /\ Holds(Top) /\ Top.kind = "FIELD"
      /\ Top.parsed \in BOOLEAN
  BY UsingTop, TopHolding, Parts DEF Parse, Aligned
<1>2. CASE Top.parsed
  <2>1. UNCHANGED stack /\ last' = Call(FieldType(Top), Nothing, "CantParseTwice")
    BY <1>2 DEF Parse
  <2> QED
    BY <2>1, CallIsFine
<1>3. CASE ~Top.parsed
  <2> DEFINE p == [Consumed(Top) EXCEPT !.parsed = TRUE]
  <2>1. PICK failed \in {<<p>>, << >>} : ParseField(Top, FieldType(Top), <<p>>, failed)
    BY <1>3, Zenon DEF Parse
  <2>2. Top.parsed = FALSE
    BY <1>1, <1>3
  <2>3. p \in Aligned
    BY <1>1, <2>2, ParsedAligned
  <2>4. p.items = Top.items /\ p.type = Top.type /\ p.kind = "FIELD" /\ p.id = Top.id
    <3>1. Consumed(Top) \in Objects
      BY <1>1, Consuming
    <3> QED
      BY <1>1, <3>1, Consuming, Marking
  <2> HIDE DEF p
  <2>5. p \in Holding
    BY <1>1, <2>3, <2>4, SameItems
  <2>6. <<p>> \in Seq(Holding) /\ failed \in Seq(Holding)
    BY <2>5, Singleton, EmptySeq
  <2>7. /\ NextItem(Top) \in Items /\ FieldType(Top) \in Named
        /\ \/ Fits(NextItem(Top), FieldType(Top))
           \/ NextItem(Top) = None /\ ~IsNumber(FieldType(Top))
    BY <1>1, <2>2, FieldItem
  <2> QED
    BY <1>1, <2>1, <2>6, <2>7, ParseFieldHolds
<1> QED
  BY <1>2, <1>3

LEMMA FinishHolds ==
    ASSUME IInv, Faithful, ~Refused, stack \in Seq(Holding), Finish
    PROVE  stack' \in Seq(Holding) /\ ~Refused'
<1>1. /\ stack # << >> /\ Top \in Aligned /\ Holds(Top) /\ Top.kind = "FIELD"
      /\ Top.parsed \in BOOLEAN /\ Top \in Objects /\ GenInv /\ Compiles
  BY UsingTop, TopHolding, Parts DEF Finish, Aligned
<1>2. FitsFields(Top.items, Fields(Top))
  BY <1>1 DEF Holds
<1>3. CASE Top.parsed
  <2>1. Top.parsed = TRUE
    BY <1>1, <1>3
  <2>2. Top.next = IF Top.id + 1 <= Len(Top.items) THEN Top.id + 1 ELSE Len(Top.items) + 1
    BY <1>1, <2>1 DEF Aligned, InStep, Seen
  <2>3. OfItsType(Top)
    BY <1>1 DEF Aligned
  <2>4. Behind(Top) \in Seq(Aligned)
    BY <1>1, <2>2, <2>3, BehindAligned
  <2>5. Behind(Top) \in Seq(Holding)
    BY <1>1, <1>2, <2>4, BehindHolds
  <2>6. Replace(Behind(Top)) /\ UNCHANGED last
    BY <1>3 DEF Finish
  <2> QED
    BY <1>1, <2>5, <2>6, ReplaceHolds, SameCall
<1>4. CASE ~Top.parsed
  <2> DEFINE ty == FieldType(Top)  item == NextItem(Top)  error == ParseError(ty, item)
  <2>1. Top.parsed = FALSE
    BY <1>1, <1>4
  <2>2. /\ Replace(IF error = "none" THEN Behind(Consumed(Top)) ELSE << >>)
        /\ last' = Call(ty, item, error)
    BY <1>4 DEF Finish
  <2>3. /\ item \in Items
        /\ \/ Fits(item, ty)
           \/ item = None /\ ~IsNumber(ty)
    BY <1>1, <2>1, FieldItem
  <2>4. error = "none" \/ (item = None /\ ~IsNumber(ty))
    BY <1>1, <2>3, FitsParses
  <2>5. Behind(Consumed(Top)) \in Seq(Holding)
    <3>1. Behind(Consumed(Top)) \in Seq(Aligned)
      BY <1>1, <2>1, BehindConsumed
    <3>2. /\ Consumed(Top) \in Objects /\ Consumed(Top).items = Top.items
          /\ Consumed(Top).type = Top.type
      BY <1>1, Consuming
    <3>3. Fields(Consumed(Top)) = Fields(Top)
      BY <3>2 DEF Fields
    <3> QED
      BY <1>2, <3>1, <3>2, <3>3, BehindHolds
  <2> HIDE DEF ty, item, error
  <2>6. ~Refused'
    BY <2>2, <2>4, CallIsFine
  <2>7. << >> \in Seq(Holding)
    BY EmptySeq
  <2> QED
    BY <1>1, <2>2, <2>5, <2>6, <2>7, ReplaceHolds
<1> QED
  BY <1>3, <1>4

LEMMA NextEntryHolds ==
    ASSUME IInv, Faithful, ~Refused, stack \in Seq(Holding), NextEntry
    PROVE  stack' \in Seq(Holding) /\ ~Refused'
<1>1. /\ stack # << >> /\ Top \in Aligned /\ Holds(Top) /\ Top.kind = "SEQUENCE_OF"
      /\ GenInv /\ Compiles
  BY UsingTop, TopHolding DEF NextEntry
<1>2. CASE ListLen(Top) = 0
  BY <1>2, SameCall DEF NextEntry
<1>3. CASE ListLen(Top) # 0
  <2> DEFINE c == Consumed(Top)  ty == FieldType(Top)  item == NextItem(Top)
  <2>1. ParseField(Top, ty, <<c>>, <<c>>)
    BY <1>3 DEF NextEntry
  <2>2. c \in Aligned
    BY <1>1, ConsumedAligned
  <2>3. c.items = Top.items /\ c.type = Top.type /\ c.kind = Top.kind /\ c.id = Top.id
    BY <1>1, Consuming
  <2>4. /\ Top.next \in Nat \ {0} /\ Top.next <= Len(Top.items) + 1 /\ Len(Top.items) \in Nat
        /\ Top.items \in Seq(Items) /\ Top.id = 1 /\ Top.type \in DOMAIN types
    BY <1>1, Parts DEF Aligned, InStep, OfItsType
  <2>5. Top.next \in 1 .. Len(Top.items) /\ item = Top.items[Top.next]
    BY <1>3, <2>4 DEF ListLen, NextItem
  <2>6. item \in Items /\ Top.next \in DOMAIN Top.items
    BY <2>4, <2>5, ElementOfSeq
  <2>7. 1 \in DOMAIN Fields(Top)
    BY DEF NextEntry
  <2>8. As(item, Fields(Top)[1].ty)
    BY <1>1, <2>5, <2>6, <2>7 DEF Holds, FitsEntries
  <2>9. ty = Resolve(Fields(Top)[1].ty)
    BY <2>4 DEF FieldType
  <2>10. ty \in Named
    BY <2>4, <2>7, <2>9, FieldNamed DEF Fields
  <2> HIDE DEF c, ty, item
  <2>11. Fits(item, ty)
    BY <2>8, <2>9, AsFits
  <2>12. <<c>> \in Seq(Holding)
    BY <1>1, <2>2, <2>3, SameItems, Singleton
  <2> QED
    BY <1>1, <2>1, <2>6, <2>10, <2>11, <2>12, ParseFieldHolds DEF item
<1> QED
  BY <1>2, <1>3

(* The tag is there and is one of a variant, whose item follows.           *)
LEMMA ReadChoiceHolds ==
    ASSUME IInv, Faithful, ~Refused, stack \in Seq(Holding), ReadChoice
    PROVE  stack' \in Seq(Holding) /\ ~Refused'
<1>1. /\ stack # << >> /\ Top \in Aligned /\ Holds(Top) /\ Top.kind = "CHOICE"
      /\ GenInv /\ Compiles /\ Top.parsed \in BOOLEAN /\ Top.type \in DOMAIN types
  BY UsingTop, TopHolding, Parts DEF ReadChoice, Aligned
<1>2. CASE Top.parsed
  <2>1. UNCHANGED stack /\ last' = Call("tag", Nothing, "CantParseTwice")
    BY <1>2 DEF ReadChoice
  <2> QED
    BY <2>1, CallIsFine
<1>3. CASE ~Top.parsed
  <2> DEFINE tag == NextItem(Top)  p == [Consumed(Top) EXCEPT !.parsed = TRUE]
             variants == {i \in DOMAIN Fields(Top) : Fields(Top)[i].tag = tag.value}
  <2>1. /\ FitsChoice(Top.items, Fields(Top)) /\ Top.next = 1 /\ Len(Top.items) = 2
        /\ Top.items \in Seq(Items)
    BY <1>1, <1>3 DEF Holds, FitsChoice, Aligned, Objects
  <2>2. tag = Top.items[1] /\ Top.items[1] \in Items /\ Top.items[2] \in Items
    BY <2>1, ElementOfSeq DEF NextItem, ListLen
  <2>3. /\ tag.ty = "Unsigned" /\ tag.len \in 1 .. 4
        /\ variants # {} /\ \A i \in variants : As(Top.items[2], Fields(Top)[i].ty)
    BY <2>1, <2>2 DEF FitsChoice
  <2>4. TagError(tag) = "none"
    <3>1. tag # Nothing /\ tag # None /\ tag # EndMark
      BY <2>2, <2>3, ItemsAssumption, MarksDiffer DEF Sendable
    <3> QED
      BY <2>3, <3>1 DEF TagError
  <2>5. PICK i \in variants :
          ParseField(p, Resolve(Fields(Top)[i].ty), <<Consumed(p)>>, <<Consumed(p)>>)
    BY <1>3, <2>3, <2>4 DEF ReadChoice
  <2>6. p \in Aligned
    BY <1>1, ConsumedAligned
  <2>7. /\ p.kind = "CHOICE" /\ p.items = Top.items /\ p.type = Top.type /\ p.id = Top.id
        /\ p.next = 2 /\ p.parsed = TRUE
    <3>1. /\ Consumed(Top) \in Objects /\ Consumed(Top).kind = "CHOICE"
          /\ Consumed(Top).items = Top.items /\ Consumed(Top).type = Top.type
          /\ Consumed(Top).id = Top.id
          /\ Consumed(Top).next = IF Top.next <= Len(Top.items) THEN Top.next + 1 ELSE Top.next
      BY <1>1, Consuming
    <3>2. Consumed(Top).next = 2
      BY <2>1, <3>1
    <3> QED
      BY <3>1, <3>2, Marking
  <2>8. As(Top.items[2], Fields(Top)[i].ty) /\ i \in DOMAIN Fields(Top)
    BY <2>3
  <2> HIDE DEF p, tag, variants
  <2>9. NextItem(p) = Top.items[2]
    BY <2>1, <2>7 DEF NextItem, ListLen
  <2>10. Consumed(p) \in Aligned /\ Consumed(p).parsed = TRUE /\ Consumed(p).kind = "CHOICE"
         /\ Consumed(p).items = Top.items /\ Consumed(p).type = Top.type
         /\ Consumed(p).id = Top.id
    BY <2>6, <2>7, ConsumedAligned, Consuming
  <2>11. Consumed(p) \in Holding
    BY <1>1, <2>10, SameItems
  <2>12. <<Consumed(p)>> \in Seq(Holding)
    BY <2>11, Singleton
  <2>13. Resolve(Fields(Top)[i].ty) \in Named
    BY <1>1, <2>8, FieldNamed DEF Fields
  <2>14. Fits(NextItem(p), Resolve(Fields(Top)[i].ty))
    BY <2>8, <2>9, AsFits
  <2> QED
    BY <1>1, <2>2, <2>5, <2>9, <2>12, <2>13, <2>14, ParseFieldHolds
<1> QED
  BY <1>2, <1>3

-----------------------------------------------------------------------------
(* Implicit choices: the arm of the item's type is the variant's that was  *)
(* sent, so that what follows is read as what it is.                       *)

(* The types of the items of a variant, which is no implicit choice.       *)
LEMMA TypesOfVariant ==
    ASSUME GenInv, Compiles, NEW n \in DOMAIN types, types[n].kind = "IMPLICIT_CHOICE",
           NEW i \in DOMAIN types[n].fields
    PROVE  TlvTypes[types[n].fields[i].ty] = DirectTypes(Resolve(types[n].fields[i].ty))
<1> DEFINE Of(f, name) ==
               IF IsImplicit(Resolve(name))
               THEN UNION {f[types[Resolve(name)].fields[j].ty] :
                               j \in DOMAIN types[Resolve(name)].fields}
               ELSE DirectTypes(Resolve(name))
           Direct == [name \in STRING |-> DirectTypes(Resolve(name))]
           All == [name \in STRING |-> Of(Direct, name)]
<1>1. ASSUME NEW m \in DOMAIN types, types[m].kind = "IMPLICIT_CHOICE",
             NEW j \in DOMAIN types[m].fields
      PROVE  types[m].fields[j].ty \in STRING /\ ~IsImplicit(Resolve(types[m].fields[j].ty))
  <2>1. types[m].fields \in Seq(SchemaField)
    BY DEF GenInv, FieldsTyped
  <2>2. j \in 1 .. Len(types[m].fields)
    BY <2>1, LenProperties
  <2>3. types[m].fields[j] \in SchemaField
    BY <2>1, <2>2, ElementOfSeq
  <2> QED
    BY <1>1, <2>3, VariantDirect DEF SchemaField
<1>2. ASSUME NEW name \in STRING PROVE Of(All, name) = Of(Direct, name)
  <2>1. CASE IsImplicit(Resolve(name))
    <3> DEFINE m == Resolve(name)
    <3>1. m \in DOMAIN types /\ types[m].kind = "IMPLICIT_CHOICE"
      BY <2>1 DEF IsImplicit
    <3>2. ASSUME NEW j \in DOMAIN types[m].fields
          PROVE  All[types[m].fields[j].ty] = Direct[types[m].fields[j].ty]
      BY <1>1, <3>1
    <3> HIDE DEF All, Direct
    <3> QED
      BY <3>2
  <2>2. CASE ~IsImplicit(Resolve(name))
    BY <2>2
  <2> QED
    BY <2>1, <2>2
<1>3. All = [name \in STRING |-> Of(All, name)]
  <2> HIDE DEF Of, Direct
  <2> QED
    BY <1>2
<1>4. TlvTypes = [name \in STRING |-> Of(TlvTypes, name)]
  <2> HIDE DEF All
  <2> QED
    BY <1>3 DEF TlvTypes
<1>5. types[n].fields[i].ty \in STRING /\ ~IsImplicit(Resolve(types[n].fields[i].ty))
  BY <1>1
<1> QED
  BY <1>4, <1>5

(* The item of a variant is of one of the types of its arm.                *)
LEMMA ItemOfVariant ==
    ASSUME NEW item \in Items, NEW ty, Fits(item, ty), ~IsImplicit(ty)
    PROVE  /\ <<item.ty, item.len>> \in DirectTypes(ty)
           /\ ty = "Boolean" => item.len = 1
<1>1. item.len \in AnyLength
  BY ItemsAssumption
<1>2. CASE IsNumber(ty)
  <2>1. item.ty = Variant(ty) /\ item.len \in Width(ty) \div 2 + 1 .. Width(ty)
    BY <1>2, RuleOf DEF FitsNumber
  <2>2. item.len \in IF ty = "Boolean" THEN {1} ELSE Lengths(ty)
    BY <1>2, <2>1, WidthIsLengths
  <2>3. CASE ty = "Boolean"
    <3>1. Variant(ty) = "Boolean" /\ DirectTypes(ty) = {"Boolean"} \X AnyLength
      BY <2>3 DEF Variant, DirectTypes, Unsigneds, Signeds
    <3> QED
      BY <1>1, <2>1, <2>2, <2>3, <3>1
  <2>4. CASE ty # "Boolean"
    <3>1. ty \in Unsigneds \union Signeds
      BY <1>2, <2>4 DEF IsNumber, Primitives
    <3>2. DirectTypes(ty) = {Variant(ty)} \X Lengths(ty)
      <4>1. CASE ty \in Unsigneds
        BY <4>1 DEF DirectTypes, Unsigneds, Signeds
      <4>2. CASE ty \in Signeds
        BY <4>2 DEF DirectTypes, Unsigneds, Signeds
      <4> QED
        BY <3>1, <4>1, <4>2
    <3> QED
      BY <2>1, <2>2, <2>4, <3>2
  <2> QED
    BY <2>3, <2>4
<1>3. CASE ty = "Octet_String"
  <2>1. item.ty = "String"
    BY <1>3, RuleOf
  <2>2. DirectTypes(ty) = {"String"} \X AnyLength /\ ty # "Boolean"
    BY <1>3 DEF DirectTypes, Unsigneds, Signeds
  <2> QED
    BY <1>1, <2>1, <2>2
<1>4. CASE ~HasItsOwnItem(ty)
  <2>1. item.ty = "List"
    BY <1>4, ItemKind
  <2>2. DirectTypes(ty) = {"List"} \X AnyLength /\ ty # "Boolean"
    BY <1>4 DEF DirectTypes, HasItsOwnItem, Primitives
  <2> QED
    BY <1>1, <2>1, <2>2
<1> QED
  BY <1>2, <1>3, <1>4, NamesDiffer

(* So there is an arm for the item that was sent, and no other one.        *)
LEMMA ArmOfVariant ==
    ASSUME GenInv, Compiles, Faithful, Validated, genpc = "done",
           NEW n \in DOMAIN types, types[n].kind = "IMPLICIT_CHOICE",
           NEW item \in Items, FitsVariant(item, types[n].fields)
    PROVE  \E k \in DOMAIN types[n].fields :
              /\ Fits(item, Resolve(types[n].fields[k].ty))
              /\ ~IsImplicit(Resolve(types[n].fields[k].ty))
              /\ <<item.ty, item.len>> \in TlvTypes[types[n].fields[k].ty]
              /\ \A i \in DOMAIN types[n].fields :
                    <<item.ty, item.len>> \in TlvTypes[types[n].fields[i].ty] => i = k
<1> DEFINE fields == types[n].fields
<1>1. PICK k \in DOMAIN fields : As(item, fields[k].ty)
  BY DEF FitsVariant
<1>2. ASSUME NEW i \in DOMAIN fields
      PROVE  /\ fields[i].ty \notin DOMAIN typedefs /\ Resolve(fields[i].ty) = fields[i].ty
             /\ ~IsImplicit(fields[i].ty)
             /\ TlvTypes[fields[i].ty] = DirectTypes(fields[i].ty)
  <2>1. fields[i].ty \notin DOMAIN typedefs
    BY DEF FitsVariant
  <2>2. Resolve(fields[i].ty) = fields[i].ty
    BY <2>1 DEF Resolve
  <2>3. ~IsImplicit(Resolve(fields[i].ty))
    BY VariantDirect
  <2>4. TlvTypes[fields[i].ty] = DirectTypes(Resolve(fields[i].ty))
    BY TypesOfVariant
  <2> QED
    BY <2>1, <2>2, <2>3, <2>4
<1>3. Fits(item, Resolve(fields[k].ty))
  BY <1>1, AsFits
<1>4. Fits(item, fields[k].ty) /\ ~IsImplicit(fields[k].ty)
  BY <1>2, <1>3
<1>5. <<item.ty, item.len>> \in DirectTypes(fields[k].ty)
  BY <1>4, ItemOfVariant
<1>6. ASSUME NEW i \in DOMAIN fields, i # k
      PROVE  DirectTypes(fields[i].ty) \cap DirectTypes(fields[k].ty) = {}
  <2>1. VariantsToldApart
    BY ValidatedMeans
  <2> QED
    BY <1>2, <1>6, <2>1 DEF VariantsToldApart
<1> HIDE DEF fields
<1>7. \A i \in DOMAIN fields : <<item.ty, item.len>> \in TlvTypes[fields[i].ty] => i = k
  BY <1>2, <1>5, <1>6
<1> QED
  BY <1>2, <1>3, <1>4, <1>5, <1>7 DEF fields

LEMMA ReadImplicitChoiceHolds ==
    ASSUME IInv, Faithful, Validated, ~Refused, stack \in Seq(Holding), ReadImplicitChoice
    PROVE  stack' \in Seq(Holding) /\ ~Refused'
<1>1. /\ stack # << >> /\ Top \in Aligned /\ Holds(Top) /\ Top.kind = "IMPLICIT_CHOICE"
      /\ GenInv /\ Compiles /\ genpc = "done"
  BY UsingTop, TopHolding DEF ReadImplicitChoice, Using
<1> DEFINE item == Top.items[1]
           arms == {i \in DOMAIN Fields(Top) :
                       item # None /\ <<item.ty, item.len>> \in TlvTypes[Fields(Top)[i].ty]}
<1>2. \/ \E i \in arms : FromItem(Resolve(Fields(Top)[i].ty), item)
      \/ arms = {} /\ last' = Call("variant", item, "UnexpectedValue") /\ Replace(<< >>)
  BY Zenon DEF ReadImplicitChoice
<1>3. item \in Items
  <2>1. Top.items \in Seq(Items) /\ Len(Top.items) = 1
    BY <1>1, Parts DEF Aligned, InStep
  <2> QED
    BY <2>1, ElementOfSeq
<1>4. Top.type \in DOMAIN types /\ types[Top.type].kind = "IMPLICIT_CHOICE"
  BY <1>1, Parts DEF Aligned, OfItsType
<1>5. item = None \/ FitsVariant(item, types[Top.type].fields)
  BY <1>1 DEF Holds, Fields
<1>6. Fields(Top) = types[Top.type].fields
  BY DEF Fields
<1> HIDE DEF item
<1>7. CASE item = None
  <2>1. arms = {}
    BY <1>7
  <2> HIDE DEF arms
  <2>2. last' = Call("variant", item, "UnexpectedValue") /\ Replace(<< >>)
    BY <1>2, <2>1
  <2>3. ~IsNumber("variant")
    BY DEF IsNumber, Primitives, Unsigneds, Signeds
  <2>4. << >> \in Seq(Holding)
    BY EmptySeq
  <2> QED
    BY <1>1, <1>7, <2>2, <2>3, <2>4, CallIsFine, ReplaceHolds
<1>8. CASE item # None
  <2>1. PICK k \in DOMAIN Fields(Top) :
              /\ Fits(item, Resolve(Fields(Top)[k].ty))
              /\ ~IsImplicit(Resolve(Fields(Top)[k].ty))
              /\ <<item.ty, item.len>> \in TlvTypes[Fields(Top)[k].ty]
              /\ \A i \in DOMAIN Fields(Top) :
                    <<item.ty, item.len>> \in TlvTypes[Fields(Top)[i].ty] => i = k
    BY <1>1, <1>3, <1>4, <1>5, <1>6, <1>8, ArmOfVariant
  <2>2. k \in arms /\ \A i \in arms : i = k
    BY <1>8, <2>1
  <2> HIDE DEF arms
  <2> DEFINE ty == Resolve(Fields(Top)[k].ty)
  <2>3. FromItem(ty, item)
    BY <1>2, <2>2
  <2>4. ty \in Named
    BY <1>4, <1>6, FieldNamed
  <2>5. Fits(item, ty) /\ ~IsImplicit(ty)
    BY <2>1
  <2> HIDE DEF ty
  <2>6. ty = "Boolean" => item.len = 1
    BY <1>3, <2>5, ItemOfVariant
  <2>7. last' = Call(ty, item, "none") /\ Replace(Child(ty, item))
    BY <2>3, <2>6 DEF FromItem
  <2>8. Child(ty, item) \in Seq(Holding)
    BY <1>1, <1>3, <2>4, <2>5, ChildHolds
  <2> QED
    BY <1>1, <2>7, <2>8, CallIsFine, ReplaceHolds
<1> QED
  BY <1>7, <1>8

-----------------------------------------------------------------------------
(* The message as a whole.                                                 *)

(* What fits depends on the types only.                                    *)
LEMMA SameRules ==
    ASSUME UNCHANGED genvars
    PROVE  Holding' = Holding /\ Faithful' = Faithful
<1>1. types' = types /\ typedefs' = typedefs
  BY DEF genvars
<1>2. Aligned' = Aligned
  BY SameTypes
<1>3. Holding' = Holding
  BY <1>1, <1>2 DEF Holding, Holds, FitsFields, FitsField, FitsEntries, FitsChoice,
        FitsVariant, As, Resolve, Fields, FieldType, IsNumber
<1>4. Faithful' = Faithful
  BY <1>1 DEF Faithful, Fits, FitsType, FitsFields, FitsField, FitsEntries, FitsChoice,
        FitsVariant, As, Resolve, FitsNumber, Width, Variant, IsNumber
<1> QED
  BY <1>3, <1>4

LEMMA OpenMessageHolds ==
    ASSUME GenInv, OpenMessage, FitsFields(document', types["SML_Message"].fields)
    PROVE  stack' \in Seq(Holding)
<1> DEFINE o == Object("SEQUENCE", "SML_Message", document')
<1>1. stack' = <<o>> /\ types["SML_Message"].kind = "SEQUENCE"
  BY DEF OpenMessage, Compiles
<1>2. stack' \in Seq(Aligned)
  BY OpenMessageAligned
<1> HIDE DEF o
<1>3. o \in Aligned
  BY <1>1, <1>2, ElementOfSingleton
<1>4. o \in Holding
  BY <1>1, <1>3, NewHolds DEF o
<1> QED
  BY <1>1, <1>4, Singleton

(* A program that reads a message of the specification has only objects    *)
(* whose items are what their functions ask for.                           *)
Reading ==
    /\ document = NoDocument => stack = << >> /\ last.error = "none"
    /\ document # NoDocument => genpc = "done" /\ Compiles
    /\ document # NoDocument /\ Conforming => stack \in Seq(Holding) /\ ~Refused

LEMMA ReadsOn ==
    ASSUME IInv, Validated, Faithful, ~Refused, stack \in Seq(Holding),
           CallField \/ Parse \/ Finish \/ NextEntry \/ ReadChoice \/ ReadImplicitChoice \/ DropTop
    PROVE  stack' \in Seq(Holding) /\ ~Refused'
<1>1. CASE CallField \/ Parse \/ Finish
  BY <1>1, CallFieldHolds, ParseHolds, FinishHolds
<1>2. CASE NextEntry \/ ReadChoice \/ ReadImplicitChoice
  BY <1>2, NextEntryHolds, ReadChoiceHolds, ReadImplicitChoiceHolds
<1>3. CASE DropTop
  <2>1. stack # << >> /\ Replace(<< >>) /\ UNCHANGED last
    BY <1>3 DEF DropTop
  <2> QED
    BY <2>1, EmptySeq, ReplaceHolds, SameCall
<1> QED
  BY <1>1, <1>2, <1>3

LEMMA ReadingKept ==
    ASSUME IInv, Validated, Reading, [Next]_vars
    PROVE  Reading'
<1>1. CASE UNCHANGED genvars /\ UNCHANGED document /\ UNCHANGED stack /\ UNCHANGED last
  <2>1. Compiles' = Compiles /\ Holding' = Holding /\ Faithful' = Faithful /\ genpc' = genpc
        /\ types' = types
    BY <1>1, SameTypes, SameRules DEF genvars
  <2>2. Conforming' = Conforming
    BY <1>1, <2>1, SameRules DEF Conforming, FitsFields, FitsField, As, Resolve, genvars
  <2>3. Refused' = Refused
    BY <1>1 DEF Refused, IsNumber
  <2> QED
    BY <1>1, <2>1, <2>2, <2>3 DEF Reading
<1>2. CASE Generate /\ UNCHANGED walkvars
  <2>1. document = NoDocument /\ document' = document /\ stack' = stack /\ last' = last
    BY <1>2, GenerateGuard DEF Reading, walkvars
  <2> QED
    BY <2>1 DEF Reading
<1>3. CASE OpenMessage /\ UNCHANGED genvars
  <2>1. /\ document = NoDocument /\ document' \in Documents /\ UNCHANGED last
        /\ genpc = "done" /\ Compiles
    BY <1>3 DEF OpenMessage
  <2>2. document' # NoDocument
    BY <2>1, ItemsAssumption
  <2>3. genpc' = "done" /\ Compiles' /\ types' = types
    BY <1>3, <2>1, SameTypes DEF genvars
  <2>4. ~Refused'
    BY <2>1 DEF Reading, Refused, IsNumber
  <2>5. ASSUME Conforming'
        PROVE  stack' \in Seq(Holding')
    <3>1. FitsFields(document', types["SML_Message"].fields)
      BY <1>3, <2>5 DEF Conforming, FitsFields, FitsField, As, Resolve, genvars
    <3>2. stack' \in Seq(Holding)
      BY <1>3, <3>1, OpenMessageHolds DEF IInv
    <3> QED
      BY <1>3, <3>2, SameRules
  <2> QED
    BY <2>2, <2>3, <2>4, <2>5 DEF Reading
<1>4. CASE CallField \/ Parse \/ Finish \/ NextEntry \/ ReadChoice \/ ReadImplicitChoice \/ DropTop
  <2>1. UNCHANGED genvars /\ UNCHANGED document /\ stack # << >>
    BY <1>4, Zenon DEF CallField, Parse, Finish, NextEntry, ReadChoice,
                       ReadImplicitChoice, DropTop, Using
  <2>2. document # NoDocument
    BY <2>1 DEF Reading
  <2>3. genpc' = "done" /\ Compiles'
    BY <2>1, <2>2, SameTypes DEF Reading, genvars
  <2>4. ASSUME Conforming'
        PROVE  stack' \in Seq(Holding') /\ ~Refused'
    <3>1. Faithful /\ Conforming
      BY <2>1, <2>4, SameRules DEF Conforming, FitsFields, FitsField, As, Resolve, genvars
    <3>2. stack \in Seq(Holding) /\ ~Refused
      BY <2>2, <3>1 DEF Reading
    <3>3. stack' \in Seq(Holding) /\ ~Refused'
      BY <1>4, <3>1, <3>2, ReadsOn
    <3> QED
      BY <2>1, <3>3, SameRules
  <2> QED
    BY <2>1, <2>2, <2>3, <2>4 DEF Reading
<1> QED
  BY <1>1, <1>2, <1>3, <1>4 DEF Next, Walk, vars, walkvars

(* A message whose items are what the generated types say is read to its   *)
(* end without an error, whatever the types are, whichever of its fields   *)
(* are asked for and however far each of them is read: no length of a      *)
(* number, no variant and no end of a list is refused.                     *)
THEOREM NeverRefused == Spec => []NoFalseRefusal
<1>1. Init => IInv /\ Validated /\ Reading
  BY Starts DEF Init, InitWalk, GenInit, Validated, Reading, Call
<1>2. IInv /\ Validated /\ Reading /\ [Next]_vars => IInv' /\ Validated' /\ Reading'
  BY Inductive, ValidatedKept, ReadingKept
<1>3. Reading => NoFalseRefusal
  BY DEF Reading, NoFalseRefusal
<1> QED
  BY <1>1, <1>2, <1>3, PTL DEF Spec

-----------------------------------------------------------------------------
(* The text of the specification.                                          *)

(* What a text and its parts are made of.                                  *)
LEMMA TextTyped ==
    ASSUME GenInv
    PROVE  /\ spec.lines \in Seq(TextLine) /\ Len(spec.lines) \in Nat
           /\ spec.parts \in Seq(TextPart) /\ Len(spec.parts) \in Nat
           /\ DOMAIN spec.parts = 1 .. Len(spec.parts) /\ line \in Nat \ {0}
           /\ At(Len(spec.parts) + 1) = Len(spec.lines) + 1
<1>1. /\ spec.lines \in Seq(TextLine) /\ spec.parts \in Seq(TextPart)
      /\ line \in 1 .. Len(spec.lines) + 2
  BY SpecificationsAssumption DEF GenInv, GenTypeOK
<1>2. /\ Len(spec.lines) \in Nat /\ Len(spec.parts) \in Nat
      /\ DOMAIN spec.parts = 1 .. Len(spec.parts)
  BY <1>1, LenProperties
<1>3. ~(Len(spec.parts) + 1 <= Len(spec.parts))
  BY <1>2
<1>4. At(Len(spec.parts) + 1) = Len(spec.lines) + 1
  BY <1>3 DEF At
<1> QED
  BY <1>1, <1>2, <1>4

(* A part of the text.                                                     *)
LEMMA PartTyped ==
    ASSUME GenInv, NEW k \in 1 .. Len(spec.parts)
    PROVE  /\ At(k) = spec.parts[k].at /\ At(k) \in Nat \ {0}
           /\ Type(k) \in [name : STRING, kind : STRING, fields : Seq(SchemaField)]
<1>1. spec.parts \in Seq(TextPart) /\ Len(spec.parts) \in Nat
  BY TextTyped
<1>2. spec.parts[k] \in TextPart /\ k <= Len(spec.parts)
  BY <1>1, ElementOfSeq
<1> QED
  BY <1>2 DEF At, Type, TextPart

(* A part with everything that is known of its place.                      *)
Placed(k, first, end) ==
    /\ k \in 1 .. Len(spec.parts) /\ At(k) = first /\ At(k + 1) = end + 1
    /\ first \in 1 .. Len(spec.lines) + 1 /\ end \in 0 .. Len(spec.lines)
    /\ spec.parts[k].is = "defect" => k = Len(spec.parts)

(* Behind the first k parts there is another one or the end of the text.   *)
LEMMA NextPart ==
    ASSUME GenInv, LaidOut, NEW k \in 0 .. Len(spec.parts)
    PROVE  \/ k = Len(spec.parts) /\ At(k + 1) = Len(spec.lines) + 1 /\ ~Inside(k)
           \/ \E end : /\ Placed(k + 1, At(k + 1), end)
                        /\ IF Inside(k) THEN IsInside(k + 1, At(k + 1), end)
                                        ELSE IsOutside(k + 1, At(k + 1), end)
<1>1. /\ Len(spec.lines) \in Nat /\ Len(spec.parts) \in Nat
      /\ DOMAIN spec.parts = 1 .. Len(spec.parts)
      /\ At(Len(spec.parts) + 1) = Len(spec.lines) + 1
  BY TextTyped
<1>2. CASE k = Len(spec.parts)
  BY <1>1, <1>2 DEF LaidOut
<1>3. CASE k # Len(spec.parts)
  <2> DEFINE m == k + 1  first == At(m)  end == At(m + 1) - 1
  <2>1. /\ m \in 1 .. Len(spec.parts) /\ m - 1 = k
        /\ m + 1 \in 1 .. Len(spec.parts) \/ m = Len(spec.parts)
    BY <1>1, <1>3
  <2> HIDE DEF m
  <2>2. /\ first \in 1 .. Len(spec.lines) + 1
        /\ spec.parts[m].is = "defect" => m = Len(spec.parts)
        /\ IF Inside(m - 1) THEN IsInside(m, first, end) ELSE IsOutside(m, first, end)
    BY <1>1, <2>1 DEF LaidOut
  <2>3. At(m + 1) \in 1 .. Len(spec.lines) + 1
    <3>1. CASE m = Len(spec.parts)
      BY <1>1, <3>1
    <3>2. CASE m + 1 \in 1 .. Len(spec.parts)
      BY <1>1, <3>2 DEF LaidOut
    <3> QED
      BY <2>1, <3>1, <3>2
  <2>4. end \in 0 .. Len(spec.lines) /\ At(m + 1) = end + 1
    BY <1>1, <2>3
  <2> HIDE DEF end
  <2>5. Placed(m, first, end)
    BY <2>1, <2>2, <2>4 DEF Placed
  <2> QED
    BY <2>1, <2>2, <2>5 DEF m
<1> QED
  BY <1>2, <1>3

(* What is outside of a block, by its first line.                          *)
LEMMA OutsidePart ==
    ASSUME GenInv, NEW k, NEW first, NEW end, Placed(k, first, end), IsOutside(k, first, end)
    PROVE  /\ first <= Len(spec.lines)
           /\ Is(first) # "start" =>
                spec.parts[k].is = "prose" /\ At(k + 1) = first + 1 /\ ~Inside(k)
           /\ Is(first) = "start" =>
                \/ /\ spec.parts[k].is \in {"typedef", "header"} /\ At(k + 1) = first + 2
                   /\ first < Len(spec.lines)
                   /\ IF Is(first + 1) = "open" THEN Inside(k) /\ Type(k).kind \in Kinds
                                                ELSE ~Inside(k)
                   /\ Type(k) = NewBlock(spec.lines[first].name, spec.lines[first].ty)
                \/ /\ spec.parts[k].is = "defect"
                   /\ \/ first = Len(spec.lines)
                      \/ Is(first + 1) = "open" /\ spec.lines[first].ty \notin Kinds
<1>1. /\ Len(spec.lines) \in Nat /\ k \in Nat /\ first \in Nat /\ end \in Nat
      /\ end <= Len(spec.lines) /\ At(k + 1) = end + 1
  BY TextTyped DEF Placed
<1>2. CASE spec.parts[k].is = "prose" /\ end = first /\ Is(first) # "start"
  BY <1>1, <1>2 DEF Inside
<1>3. CASE /\ spec.parts[k].is \in {"typedef", "header"} /\ end = first + 1 /\ Is(first) = "start"
           /\ IF Is(end) = "open" THEN Inside(k) /\ Type(k).kind \in Kinds ELSE ~Inside(k)
           /\ Type(k) = NewBlock(spec.lines[first].name, spec.lines[first].ty)
  <2>1. /\ end = first + 1 /\ At(k + 1) = first + 2
        /\ first < Len(spec.lines) /\ first <= Len(spec.lines)
    BY <1>1, <1>3
  <2> QED
    BY <1>3, <2>1
<1>4. CASE /\ spec.parts[k].is = "defect" /\ first <= Len(spec.lines) /\ Is(first) = "start"
           /\ \/ first = Len(spec.lines)
              \/ Is(first + 1) = "open" /\ spec.lines[first].ty \notin Kinds
  BY <1>4
<1> QED
  BY <1>2, <1>3, <1>4 DEF IsOutside

(* A comment ends with the first line that can end it.                     *)
LEMMA CommentEnds ==
    ASSUME NEW first \in Nat, NEW m \in Nat, NEW n \in Nat, Comment(first, m), Comment(first, n),
           Is(m) \in {"end_of_comment", "closing_comment"}
    PROVE  n <= m
<1>1. CASE m < n
  <2>1. m \in first + 1 .. n - 1
    BY <1>1 DEF Comment
  <2> QED
    BY <2>1 DEF Comment
<1> QED
  BY <1>1

(* It goes on with every other line.                                       *)
LEMMA CommentGoesOn ==
    ASSUME NEW first \in Nat, NEW n \in Nat, Is(n) \notin {"end_of_comment", "closing_comment"},
           \/ Comment(first, n)
           \/ n = first /\ Is(first) = "field" /\ spec.lines[first].comment = "open"
    PROVE  Comment(first, n + 1)
<1>1. \A m \in first + 1 .. (n + 1) - 1 : m = n \/ m \in first + 1 .. n - 1
  OBVIOUS
<1>2. first < n + 1 /\ first + 1 .. first = {}
  BY DEF Comment
<1> QED
  BY <1>1, <1>2 DEF Comment

(* What is inside of a block, by its first line.                           *)
LEMMA InsidePart ==
    ASSUME GenInv, NEW k, NEW first, NEW end, Placed(k, first, end), IsInside(k, first, end)
    PROVE  /\ first = Len(spec.lines) + 1 => spec.parts[k].is = "defect"
           /\ first # Len(spec.lines) + 1 /\ Is(first) = "close" =>
                spec.parts[k].is = "closing" /\ end = first /\ Type(k) = Type(k - 1)
           /\ first # Len(spec.lines) + 1 /\ Is(first) = "blank" =>
                spec.parts[k].is = "blank" /\ end = first /\ Type(k) = Type(k - 1)
           /\ first # Len(spec.lines) + 1 /\ Is(first) = "field"
                /\ spec.lines[first].comment # "open" =>
                \/ spec.parts[k].is = "field" /\ end = first /\ Adds(k)
                \/ /\ spec.parts[k].is = "defect"
                   /\ FieldPanics(Type(k - 1).kind, spec.lines[first].field)
           /\ first # Len(spec.lines) + 1 /\ Is(first) \notin {"close", "blank", "field"} =>
                spec.parts[k].is = "defect"
<1>1. Len(spec.lines) \in Nat /\ first \in Nat /\ end \in Nat /\ end <= Len(spec.lines)
  BY TextTyped DEF Placed
<1>2. \A n : Comment(first, n) =>
                 Is(first) = "field" /\ spec.lines[first].comment = "open" /\ first < n
  BY DEF Comment
<1>3. CASE spec.parts[k].is = "blank" /\ end = first /\ Is(first) = "blank" /\ Type(k) = Type(k - 1)
  BY <1>1, <1>3
<1>4. CASE /\ spec.parts[k].is = "field" /\ Adds(k)
           /\ \/ end = first /\ Is(first) = "field" /\ spec.lines[first].comment # "open"
              \/ Comment(first, end) /\ Is(end) = "end_of_comment"
  <2>1. first <= end
    BY <1>1, <1>2, <1>4
  <2>2. first # Len(spec.lines) + 1
    BY <1>1, <2>1
  <2> QED
    BY <1>2, <1>4, <2>2
<1>5. CASE /\ spec.parts[k].is = "closing"
           /\ \/ end = first /\ Is(first) = "close" /\ Type(k) = Type(k - 1)
              \/ Comment(first, end) /\ Is(end) = "closing_comment" /\ Adds(k)
  <2>1. first <= end
    BY <1>1, <1>2, <1>5
  <2>2. first # Len(spec.lines) + 1
    BY <1>1, <2>1
  <2> QED
    BY <1>2, <1>5, <2>2
<1>6. CASE /\ spec.parts[k].is = "defect"
           /\ \/ first = Len(spec.lines) + 1
              \/ first <= Len(spec.lines) /\ Is(first) \notin {"close", "blank", "field"}
              \/ Comment(first, Len(spec.lines) + 1)
              \/ /\ first <= Len(spec.lines) /\ Is(first) = "field"
                 /\ FieldPanics(Type(k - 1).kind, spec.lines[first].field)
                 /\ \/ spec.lines[first].comment # "open"
                    \/ \E n \in first .. Len(spec.lines) :
                          Comment(first, n) /\ Is(n) = "end_of_comment"
  BY <1>2, <1>6
<1> QED
  BY <1>3, <1>4, <1>5, <1>6 DEF IsInside

(* A field whose comment goes over several lines, by the line that ends it. *)
LEMMA CommentPart ==
    ASSUME GenInv, NEW k, NEW first, NEW end, Placed(k, first, end), IsInside(k, first, end),
           NEW n \in Nat, Comment(first, n), n <= Len(spec.lines) \/ n = Len(spec.lines) + 1
    PROVE  /\ n = Len(spec.lines) + 1 => spec.parts[k].is = "defect"
           /\ n # Len(spec.lines) + 1 /\ Is(n) = "end_of_comment" =>
                \/ spec.parts[k].is = "field" /\ end = n /\ Adds(k)
                \/ /\ spec.parts[k].is = "defect"
                   /\ FieldPanics(Type(k - 1).kind, spec.lines[first].field)
           /\ n # Len(spec.lines) + 1 /\ Is(n) = "closing_comment" =>
                spec.parts[k].is = "closing" /\ end = n /\ Adds(k)
<1>1. Len(spec.lines) \in Nat /\ first \in Nat /\ end \in Nat /\ end <= Len(spec.lines)
  BY TextTyped DEF Placed
<1>2. Is(first) = "field" /\ spec.lines[first].comment = "open" /\ first < n
  BY DEF Comment
<1>3. \A m \in Nat : Comment(first, m) /\ Is(m) \in {"end_of_comment", "closing_comment"} => n <= m
  BY <1>1, CommentEnds
<1>4. \A m \in Nat : Comment(first, m) /\ Is(n) \in {"end_of_comment", "closing_comment"} => m <= n
  BY <1>1, CommentEnds
<1>5. CASE /\ spec.parts[k].is = "field" /\ Adds(k)
           /\ Comment(first, end) /\ Is(end) = "end_of_comment"
  <2>1. n <= end
    BY <1>1, <1>3, <1>5
  <2>2. Is(n) \in {"end_of_comment", "closing_comment"} => n = end
    BY <1>1, <1>4, <1>5, <2>1
  <2> QED
    BY <1>1, <1>5, <2>1, <2>2
<1>6. CASE /\ spec.parts[k].is = "closing" /\ Adds(k)
           /\ Comment(first, end) /\ Is(end) = "closing_comment"
  <2>1. n <= end
    BY <1>1, <1>3, <1>6
  <2>2. Is(n) \in {"end_of_comment", "closing_comment"} => n = end
    BY <1>1, <1>4, <1>6, <2>1
  <2> QED
    BY <1>1, <1>6, <2>1, <2>2
<1>7. CASE spec.parts[k].is = "defect" /\ Comment(first, Len(spec.lines) + 1)
  <2>1. Is(n) \in {"end_of_comment", "closing_comment"} => Len(spec.lines) + 1 <= n
    BY <1>1, <1>4, <1>7
  <2> QED
    BY <1>1, <1>7, <2>1
<1>8. CASE /\ spec.parts[k].is = "defect"
           /\ FieldPanics(Type(k - 1).kind, spec.lines[first].field)
           /\ \E m \in first .. Len(spec.lines) : Comment(first, m) /\ Is(m) = "end_of_comment"
  <2>1. PICK m \in first .. Len(spec.lines) : Comment(first, m) /\ Is(m) = "end_of_comment"
    BY <1>8
  <2>2. m \in Nat /\ n <= m /\ (Is(n) \in {"end_of_comment", "closing_comment"} => m = n)
    BY <1>1, <1>3, <1>4, <2>1
  <2> QED
    BY <1>1, <1>8, <2>1, <2>2
<1>9. first < Len(spec.lines) + 1
  BY <1>1, <1>2
<1> QED
  BY <1>1, <1>2, <1>5, <1>6, <1>7, <1>8, <1>9 DEF IsInside

-----------------------------------------------------------------------------
(* What the generator knows of the parts it has read.                      *)

Untouched(k) == k > 0 => spec.parts[k].is # "defect"

(* It is behind the first k parts, or in the comment of the next one.      *)
Standing(k) ==
    \/ genpc = "outside" /\ line = At(k + 1) /\ ~Inside(k) /\ Untouched(k)
    \/ genpc = "fields" /\ line = At(k + 1) /\ Inside(k) /\ block = Type(k)
    \/ /\ genpc = "comment" /\ Comment(At(k + 1), line) /\ Inside(k) /\ block = Type(k)
       /\ pending = spec.lines[At(k + 1)].field
    \/ genpc = "validate" /\ k = Len(spec.parts) /\ ~HasDefect
    \/ genpc = "done" /\ k = Len(spec.parts) /\ ~HasDefect /\ ~Refutable
    \/ genpc = "panic" /\ (HasDefect \/ (k = Len(spec.parts) /\ Refutable))

Read(k) == TypedefsRead(k) /\ TypesRead(k)

TextInv == LaidOut => \E k \in 0 .. Len(spec.parts) : Read(k) /\ Standing(k)

(* The text does not change.                                               *)
LEMMA SameText ==
    ASSUME UNCHANGED spec
    PROVE  /\ LaidOut' = LaidOut /\ HasDefect' = HasDefect
           /\ \A k : /\ At(k)' = At(k) /\ Type(k)' = Type(k) /\ Inside(k)' = Inside(k)
                     /\ Untouched(k)' = Untouched(k) /\ Is(k)' = Is(k)
           /\ \A m, n : Comment(m, n)' = Comment(m, n)
<1>1. LaidOut' = LaidOut
  BY DEF LaidOut, IsInside, IsOutside, Inside, Adds, At, Type, Is, Comment
<1> QED
  BY <1>1 DEF HasDefect, At, Type, Inside, Untouched, Is, Comment

(* What is to be read depends on the text, what was read on the maps.      *)
LEMMA SameParts ==
    ASSUME UNCHANGED spec
    PROVE  /\ \A n : Typedefs(n)' = Typedefs(n) /\ Blocks(n)' = Blocks(n)
           /\ \A K : InForce(K)' = InForce(K)
           /\ \A j : Type(j)' = Type(j) /\ (Is(At(j)))' = Is(At(j))
BY DEF Typedefs, Blocks, InForce, Type, Is, At

LEMMA SameTypedefsRead ==
    ASSUME UNCHANGED <<spec, typedefs>>, NEW n
    PROVE  TypedefsRead(n)' = TypedefsRead(n)
BY DEF TypedefsRead, InForce, Typedefs, Type

LEMMA SameTypesRead ==
    ASSUME UNCHANGED <<spec, types>>, NEW n
    PROVE  TypesRead(n)' = TypesRead(n)
BY DEF TypesRead, InForce, Blocks, Type, Is, At

LEMMA SameRead ==
    ASSUME UNCHANGED <<spec, types, typedefs>>
    PROVE  \A k : Read(k)' = Read(k)
BY SameTypedefsRead, SameTypesRead DEF Read

(* A part that defines nothing.                                            *)
LEMMA DefinesNothing ==
    ASSUME NEW k \in Nat, Read(k),
           spec.parts[k + 1].is # "typedef" \/ Type(k + 1).name = "EndOfSmlMsg",
           spec.parts[k + 1].is # "closing" \/ IsLeftOut(Type(k + 1).name)
    PROVE  Read(k + 1)
<1>1. 1 .. k + 1 = 1 .. k \union {k + 1}
  OBVIOUS
<1>2. Typedefs(k + 1) = Typedefs(k) /\ Blocks(k + 1) = Blocks(k)
  BY <1>1, Zenon DEF Typedefs, Blocks
<1> QED
  BY <1>2 DEF Read, TypedefsRead, TypesRead

(* The last part of a name is in force.                                    *)
LEMMA NewInForce ==
    ASSUME NEW k \in Nat, NEW K \in SUBSET (1 .. k)
    PROVE  /\ InForce(K \union {k + 1}) \subseteq InForce(K) \union {k + 1}
           /\ \A j \in InForce(K \union {k + 1}) : j # k + 1 => Type(j).name # Type(k + 1).name
<1>1. \A j \in K : k + 1 > j
  OBVIOUS
<1> QED
  BY <1>1 DEF InForce

(* A definition replaces one of its name.                                  *)
LEMMA TypedefKept ==
    ASSUME NEW k \in Nat, Read(k), UNCHANGED <<spec, types>>,
           spec.parts[k + 1].is = "typedef", Type(k + 1).name # "EndOfSmlMsg",
           typedefs' = Inserted(typedefs, Type(k + 1).name, Type(k + 1).kind)
    PROVE  Read(k + 1)'
<1> DEFINE name == Type(k + 1).name  K == Typedefs(k)
<1>1. 1 .. k + 1 = 1 .. k \union {k + 1}
  OBVIOUS
<1>2. Typedefs(k + 1) = K \union {k + 1} /\ Blocks(k + 1) = Blocks(k) /\ K \in SUBSET (1 .. k)
  BY <1>1, Zenon DEF Typedefs, Blocks
<1>3. TypesRead(k + 1)'
  <2>1. TypesRead(k + 1)
    BY <1>2 DEF Read, TypesRead
  <2> QED
    BY <2>1, SameTypesRead
<1>4. /\ DOMAIN typedefs' = DOMAIN typedefs \union {name}
      /\ typedefs'[name] = Type(k + 1).kind
      /\ \A n \in DOMAIN typedefs : n # name => typedefs'[n] = typedefs[n]
  BY DEF Inserted
<1>5. /\ DOMAIN typedefs = {Type(j).name : j \in K}
      /\ \A j \in InForce(K) : typedefs[Type(j).name] = Type(j).kind
  BY DEF Read, TypedefsRead
<1>6. /\ InForce(K \union {k + 1}) \subseteq InForce(K) \union {k + 1}
      /\ \A j \in InForce(K \union {k + 1}) : j # k + 1 => Type(j).name # Type(k + 1).name
  BY <1>2, NewInForce
<1>7. InForce(K) \subseteq K
  BY DEF InForce
<1> HIDE DEF K
<1>8. DOMAIN typedefs' = {Type(j).name : j \in K \union {k + 1}}
  BY <1>4, <1>5
<1>9. ASSUME NEW j \in InForce(K \union {k + 1})
      PROVE  typedefs'[Type(j).name] = Type(j).kind
  BY <1>4, <1>5, <1>6, <1>7
<1>10. TypedefsRead(k + 1)'
  <2>1. /\ Typedefs(k + 1)' = K \union {k + 1}
        /\ InForce(Typedefs(k + 1))' = InForce(K \union {k + 1})
        /\ \A j : Type(j)' = Type(j)
    BY <1>2, SameParts
  <2>2. {Type(j).name : j \in Typedefs(k + 1)}' = {Type(j).name : j \in K \union {k + 1}}
    BY <2>1, Zenon
  <2>3. (\A j \in InForce(Typedefs(k + 1)) : typedefs[Type(j).name] = Type(j).kind)'
    BY <1>9, <2>1, Zenon
  <2> QED
    BY <1>8, <2>2, <2>3, Zenon DEF TypedefsRead
<1> QED
  BY <1>3, <1>10 DEF Read

(* What a block became is what was read of it.                             *)
LEMMA BlockKept ==
    ASSUME NEW k \in Nat, Read(k), UNCHANGED <<spec, typedefs>>,
           spec.parts[k + 1].is = "closing", ~IsLeftOut(Type(k + 1).name),
           NEW read, types' = Inserted(types, Type(k + 1).name, read), read.kind = Type(k + 1).kind,
           \/ read.fields = Type(k + 1).fields
           \/ Is(At(k + 1)) = "field" /\ read.fields = Front(Type(k + 1).fields)
    PROVE  Read(k + 1)'
<1> DEFINE name == Type(k + 1).name  K == Blocks(k)
           Became(j, type) == /\ type.kind = Type(j).kind
                            /\ \/ type.fields = Type(j).fields
                               \/ Is(At(j)) = "field" /\ type.fields = Front(Type(j).fields)
<1>1. 1 .. k + 1 = 1 .. k \union {k + 1}
  OBVIOUS
<1>2. Blocks(k + 1) = K \union {k + 1} /\ Typedefs(k + 1) = Typedefs(k) /\ K \in SUBSET (1 .. k)
  BY <1>1, Zenon DEF Typedefs, Blocks
<1>3. TypedefsRead(k + 1)'
  <2>1. TypedefsRead(k + 1)
    BY <1>2 DEF Read, TypedefsRead
  <2> QED
    BY <2>1, SameTypedefsRead
<1>4. /\ DOMAIN types' = DOMAIN types \union {name}
      /\ types'[name] = read
      /\ \A n \in DOMAIN types : n # name => types'[n] = types[n]
  BY DEF Inserted
<1>5. /\ DOMAIN types = {Type(j).name : j \in K}
      /\ \A j \in InForce(K) : Became(j, types[Type(j).name])
  BY DEF Read, TypesRead
<1>6. /\ InForce(K \union {k + 1}) \subseteq InForce(K) \union {k + 1}
      /\ \A j \in InForce(K \union {k + 1}) : j # k + 1 => Type(j).name # Type(k + 1).name
  BY <1>2, NewInForce
<1>7. InForce(K) \subseteq K /\ Became(k + 1, read)
  BY DEF InForce
<1> HIDE DEF K, Became
<1>8. DOMAIN types' = {Type(j).name : j \in K \union {k + 1}}
  BY <1>4, <1>5
<1>9. ASSUME NEW j \in InForce(K \union {k + 1})
      PROVE  Became(j, types'[Type(j).name])
  BY <1>4, <1>5, <1>6, <1>7
<1>10. TypesRead(k + 1)'
  <2>1. /\ Blocks(k + 1)' = K \union {k + 1}
        /\ InForce(Blocks(k + 1))' = InForce(K \union {k + 1})
        /\ \A j : Type(j)' = Type(j) /\ (Is(At(j)))' = Is(At(j))
    BY <1>2, SameParts
  <2>2. {Type(j).name : j \in Blocks(k + 1)}' = {Type(j).name : j \in K \union {k + 1}}
    BY <2>1, Zenon
  <2>3. (\A j \in InForce(Blocks(k + 1)) : Became(j, types[Type(j).name]))'
    BY <1>9, <2>1, Zenon DEF Became
  <2> QED
    BY <1>8, <2>2, <2>3, Zenon DEF TypesRead, Became
<1> QED
  BY <1>3, <1>10 DEF Read

(* The front of a sequence is what its last element was appended to.       *)
LEMMA FrontAppend ==
    ASSUME NEW S, NEW fields \in Seq(S), NEW f \in S
    PROVE  Front(Append(fields, f)) = fields
<1>1. /\ Append(fields, f) \in Seq(S)
      /\ Len(Append(fields, f)) = Len(fields) + 1 /\ Len(fields) \in Nat
  OBVIOUS
<1>2. Front(Append(fields, f)) = SubSeq(Append(fields, f), 1, Len(fields))
  BY <1>1 DEF Front
<1>3. /\ SubSeq(Append(fields, f), 1, Len(fields)) \in Seq(S)
      /\ Len(SubSeq(Append(fields, f), 1, Len(fields))) = Len(fields)
      /\ \A i \in 1 .. Len(fields) : SubSeq(Append(fields, f), 1, Len(fields))[i] = fields[i]
  BY <1>1
<1> QED
  BY <1>2, <1>3, SeqEqual

(* What a field adds to the type before it.                                *)
LEMMA AddsMeans ==
    ASSUME NEW k, Adds(k), NEW old, old = Type(k - 1), NEW f, f = spec.lines[At(k)].field
    PROVE  /\ ~FieldPanics(old.kind, f)
           /\ IsUnsupported(old.kind, f) => Type(k) = old
           /\ ~IsUnsupported(old.kind, f) => Type(k) = [old EXCEPT !.fields = Append(old.fields, f)]
           /\ ~IsUnsupported(old.kind, f) /\ old.kind # "SEQUENCE" =>
                \A i \in DOMAIN old.fields : old.fields[i].name # f.name
<1>1. ~FieldPanics(old.kind, f)
  BY DEF Adds
<1>2. ASSUME IsUnsupported(old.kind, f)
      PROVE  Type(k) = old
  BY <1>2 DEF Adds
<1>3. ASSUME ~IsUnsupported(old.kind, f)
      PROVE  Type(k) = [old EXCEPT !.fields = Append(old.fields, f)]
  BY <1>3 DEF Adds
<1>4. ASSUME ~IsUnsupported(old.kind, f)
      PROVE  old.kind # "SEQUENCE" => \A i \in DOMAIN old.fields : old.fields[i].name # f.name
  BY <1>4 DEF Adds
<1> QED
  BY <1>1, <1>2, <1>3, <1>4

(* A field is put behind those before it.                                  *)
LEMMA FieldAdded ==
    ASSUME GenInv, NEW k \in 1 .. Len(spec.parts), NEW m, m - 1 = k, block = Type(k), Adds(m),
           NEW f \in SchemaField, f = spec.lines[At(m)].field
    PROVE  /\ ~FieldPanics(block.kind, f) /\ WithField(f) = Type(m)
           /\ Type(m).name = block.name /\ Type(m).kind = block.kind
           /\ block.fields = Type(m).fields \/ block.fields = Front(Type(m).fields)
<1> DEFINE fields == Append(block.fields, f)
<1>1. /\ block.fields \in Seq(SchemaField)
      /\ block = [name |-> block.name, kind |-> block.kind, fields |-> block.fields]
  BY DEF GenInv, WellFormed
<1>2. ~FieldPanics(block.kind, f) /\ (IsUnsupported(block.kind, f) => Type(m) = block)
  BY AddsMeans
<1>3. CASE IsUnsupported(block.kind, f)
  BY <1>2, <1>3 DEF WithField
<1>4. CASE ~IsUnsupported(block.kind, f)
  <2>1. Type(m) = [block EXCEPT !.fields = Append(block.fields, f)]
    BY <1>4, AddsMeans
  <2>2. block.kind # "SEQUENCE" => \A i \in DOMAIN block.fields : block.fields[i].name # f.name
    BY <1>4, AddsMeans
  <2>3. Put(block.fields, f) = fields
    BY <2>2 DEF Put
  <2>4. Front(fields) = block.fields
    BY <1>1, FrontAppend
  <2>5. /\ WithField(f) = [block EXCEPT !.fields = fields]
        /\ Type(m) = [block EXCEPT !.fields = fields]
    BY <1>4, <2>1, <2>3 DEF WithField
  <2> HIDE DEF fields
  <2>6. /\ [block EXCEPT !.fields = fields].name = block.name
        /\ [block EXCEPT !.fields = fields].kind = block.kind
        /\ [block EXCEPT !.fields = fields].fields = fields
    BY <1>1
  <2> QED
    BY <1>2, <2>4, <2>5, <2>6
<1> QED
  BY <1>3, <1>4

-----------------------------------------------------------------------------
(* The steps of the generator, each by the part of the text it is at.      *)

(* A panic is right where the text has a defect.                           *)
LEMMA PanicRight ==
    ASSUME NEW k \in 0 .. Len(spec.parts), Read(k), Panic, HasDefect
    PROVE  Read(k)' /\ Standing(k)'
<1>1. Read(k)' = Read(k) /\ HasDefect' = HasDefect
  BY SameRead, SameText DEF Panic
<1> QED
  BY <1>1 DEF Panic, Standing

(* Where a line is left, and where two are.                                *)
LEMMA LinesLeft ==
    ASSUME GenInv
    PROVE  /\ Left(1) <=> line <= Len(spec.lines)
           /\ Left(2) <=> line + 1 <= Len(spec.lines)
           /\ Line(1) = spec.lines[line] /\ Line(2) = spec.lines[line + 1]
           /\ line \in Nat \ {0} /\ Len(spec.lines) \in Nat
<1>1. line \in Nat \ {0} /\ Len(spec.lines) \in Nat
  BY TextTyped
<1>2. line + 1 - 1 = line /\ line + 2 - 1 = line + 1
  BY <1>1
<1> QED
  BY <1>1, <1>2 DEF Left, Line

(* The next part, for a generator that is behind the first k.              *)
LEMMA PartRead ==
    ASSUME GenInv, LaidOut, NEW k \in 0 .. Len(spec.parts), NEW n, n = At(k + 1),
           Inside(k) \/ n <= Len(spec.lines)
    PROVE  \E end : /\ Placed(k + 1, n, end) /\ k + 1 \in 0 .. Len(spec.parts) /\ k + 1 - 1 = k
                    /\ spec.parts[k + 1].is = "defect" => HasDefect
                    /\ IF Inside(k) THEN IsInside(k + 1, n, end) ELSE IsOutside(k + 1, n, end)
<1>1. Len(spec.lines) \in Nat /\ DOMAIN spec.parts = 1 .. Len(spec.parts) /\ Len(spec.parts) \in Nat
  BY TextTyped
<1>2. ~(k = Len(spec.parts) /\ At(k + 1) = Len(spec.lines) + 1 /\ ~Inside(k))
  BY <1>1
<1>3. PICK end : /\ Placed(k + 1, At(k + 1), end)
                 /\ IF Inside(k) THEN IsInside(k + 1, At(k + 1), end)
                                 ELSE IsOutside(k + 1, At(k + 1), end)
  BY <1>2, NextPart
<1>4. k + 1 \in DOMAIN spec.parts /\ k + 1 \in 0 .. Len(spec.parts) /\ k + 1 - 1 = k
  BY <1>1, <1>3 DEF Placed
<1>5. spec.parts[k + 1].is = "defect" => HasDefect
  BY <1>4 DEF HasDefect
<1> QED
  BY <1>3, <1>4, <1>5

(* A line without meaning.                                                 *)
LEMMA OtherLineStands ==
    ASSUME GenInv, LaidOut, NEW k \in 0 .. Len(spec.parts), Read(k), Standing(k), OtherLine
    PROVE  Read(k + 1)' /\ Standing(k + 1)' /\ k + 1 \in 0 .. Len(spec.parts)
<1>1. /\ line = At(k + 1) /\ ~Inside(k) /\ line <= Len(spec.lines) /\ Is(line) # "start"
      /\ line' = line + 1 /\ genpc' = "outside" /\ UNCHANGED <<spec, types, typedefs>>
  BY LinesLeft DEF OtherLine, Standing, Is
<1>2. PICK end : /\ Placed(k + 1, line, end) /\ k + 1 \in 0 .. Len(spec.parts)
                 /\ IsOutside(k + 1, line, end)
  BY <1>1, PartRead
<1> DEFINE m == k + 1
<1>3. m \in Nat
  BY <1>2
<1> HIDE DEF m
<1>4. spec.parts[m].is = "prose" /\ At(m + 1) = line + 1 /\ ~Inside(m)
  BY <1>1, <1>2, OutsidePart DEF m
<1>5. Read(m)
  BY <1>4, DefinesNothing DEF m
<1>6. Read(m)' /\ At(m + 1)' = At(m + 1) /\ Inside(m)' = Inside(m) /\ Untouched(m)'
  BY <1>1, <1>4, <1>5, SameRead, SameText DEF Untouched
<1>7. Standing(m)'
  BY <1>1, <1>4, <1>6 DEF Standing
<1> QED
  BY <1>2, <1>6, <1>7 DEF m

(* A definition without a block.                                           *)
LEMMA TypedefStands ==
    ASSUME GenInv, LaidOut, NEW k \in 0 .. Len(spec.parts), Read(k), Standing(k), Typedef
    PROVE  Read(k + 1)' /\ Standing(k + 1)' /\ k + 1 \in 0 .. Len(spec.parts)
<1>0. line \in Nat /\ Len(spec.lines) \in Nat
  BY LinesLeft
<1>1. /\ line = At(k + 1) /\ ~Inside(k) /\ line + 1 <= Len(spec.lines)
      /\ Is(line) = "start" /\ Is(line + 1) # "open"
      /\ line' = line + 2 /\ genpc' = "outside" /\ UNCHANGED <<spec, types>>
      /\ typedefs' = IF spec.lines[line].name = "EndOfSmlMsg" THEN typedefs
                     ELSE Inserted(typedefs, spec.lines[line].name, spec.lines[line].ty)
  BY LinesLeft DEF Typedef, Standing, Is
<1>2. line <= Len(spec.lines) /\ line # Len(spec.lines)
  BY <1>0, <1>1
<1>3. PICK end : /\ Placed(k + 1, line, end) /\ k + 1 \in 0 .. Len(spec.parts)
                 /\ IsOutside(k + 1, line, end)
  BY <1>1, <1>2, PartRead
<1> DEFINE m == k + 1
<1>4. /\ spec.parts[m].is \in {"typedef", "header"} /\ At(m + 1) = line + 2 /\ ~Inside(m)
      /\ Type(m) = NewBlock(spec.lines[line].name, spec.lines[line].ty)
  BY <1>1, <1>2, <1>3, OutsidePart
<1>5. m \in Nat \ {0} /\ k \in Nat
  BY <1>3
<1> HIDE DEF m
<1>6. spec.parts[m].is = "typedef"
  BY <1>4, <1>5 DEF Inside
<1>7. Type(m).name = spec.lines[line].name /\ Type(m).kind = spec.lines[line].ty
  BY <1>4 DEF NewBlock
<1>8. Read(m)'
  <2>1. CASE Type(m).name = "EndOfSmlMsg"
    <3>1. UNCHANGED typedefs
      BY <1>1, <1>7, <2>1
    <3>2. Read(m)
      BY <1>5, <1>6, <2>1, DefinesNothing DEF m
    <3> QED
      BY <1>1, <3>1, <3>2, SameRead
  <2>2. CASE Type(m).name # "EndOfSmlMsg"
    <3>1. typedefs' = Inserted(typedefs, Type(m).name, Type(m).kind)
      BY <1>1, <1>7, <2>2
    <3> QED
      BY <1>1, <1>5, <1>6, <2>2, <3>1, TypedefKept DEF m
  <2> QED
    BY <2>1, <2>2
<1>9. At(m + 1)' = At(m + 1) /\ Inside(m)' = Inside(m) /\ Untouched(m)'
  BY <1>1, <1>6, SameText DEF Untouched
<1>10. Standing(m)'
  BY <1>1, <1>4, <1>9 DEF Standing
<1> QED
  BY <1>3, <1>8, <1>10 DEF m

(* A block begins, if its kind is known.                                   *)
LEMMA OpenBlockStands ==
    ASSUME GenInv, LaidOut, NEW k \in 0 .. Len(spec.parts), Read(k), Standing(k), OpenBlock
    PROVE  \E m \in 0 .. Len(spec.parts) : Read(m)' /\ Standing(m)'
<1>0. line \in Nat /\ Len(spec.lines) \in Nat
  BY LinesLeft
<1>1. /\ line = At(k + 1) /\ ~Inside(k) /\ line + 1 <= Len(spec.lines)
      /\ Is(line) = "start" /\ Is(line + 1) = "open"
  BY LinesLeft DEF OpenBlock, Standing, Is
<1>2. line <= Len(spec.lines) /\ line # Len(spec.lines)
  BY <1>0, <1>1
<1>3. PICK end : /\ Placed(k + 1, line, end) /\ k + 1 \in 0 .. Len(spec.parts)
                 /\ spec.parts[k + 1].is = "defect" => HasDefect
                 /\ IsOutside(k + 1, line, end)
  BY <1>1, <1>2, PartRead
<1>4. CASE spec.lines[line].ty \in Kinds
  <2> DEFINE m == k + 1
  <2>1. /\ line' = line + 2 /\ genpc' = "fields" /\ UNCHANGED <<spec, types, typedefs>>
        /\ block' = NewBlock(spec.lines[line].name, spec.lines[line].ty)
    BY <1>4, LinesLeft DEF OpenBlock
  <2>2. /\ At(m + 1) = line + 2 /\ Inside(m) /\ spec.parts[m].is \in {"typedef", "header"}
        /\ Type(m) = NewBlock(spec.lines[line].name, spec.lines[line].ty)
    BY <1>1, <1>2, <1>3, <1>4, OutsidePart
  <2> HIDE DEF m
  <2>3. spec.parts[m].is = "header"
    BY <2>2 DEF Inside
  <2>4. Read(m)
    BY <2>3, DefinesNothing DEF m
  <2>5. Read(m)' /\ At(m + 1)' = At(m + 1) /\ Inside(m)' = Inside(m) /\ Type(m)' = Type(m)
    BY <2>1, <2>4, SameRead, SameText
  <2>6. Standing(m)'
    BY <2>1, <2>2, <2>5 DEF Standing
  <2> QED
    BY <1>3, <2>5, <2>6 DEF m
<1>5. CASE spec.lines[line].ty \notin Kinds
  <2>1. Panic
    BY <1>5, LinesLeft DEF OpenBlock
  <2>2. Type(k + 1) = NewBlock(spec.lines[line].name, spec.lines[line].ty) =>
            Type(k + 1).kind \notin Kinds
    BY <1>5 DEF NewBlock
  <2>3. HasDefect
    BY <1>1, <1>2, <1>3, <2>2, OutsidePart
  <2> QED
    BY <2>1, <2>3, PanicRight
<1> QED
  BY <1>4, <1>5

(* The whole text was read.                                                *)
LEMMA EndOfTextStands ==
    ASSUME GenInv, LaidOut, NEW k \in 0 .. Len(spec.parts), Read(k), Standing(k), EndOfText
    PROVE  Read(k)' /\ Standing(k)'
<1>1. /\ line = At(k + 1) /\ ~Inside(k) /\ Untouched(k) /\ ~(line <= Len(spec.lines))
      /\ genpc' = "validate" /\ UNCHANGED <<spec, types, typedefs>>
  BY LinesLeft DEF EndOfText, Standing
<1>2. k = Len(spec.parts)
  BY <1>1, NextPart, OutsidePart
<1>3. ~HasDefect
  <2>1. \A j \in DOMAIN spec.parts : spec.parts[j].is = "defect" => j = Len(spec.parts) /\ j > 0
    BY TextTyped DEF LaidOut
  <2> QED
    BY <1>1, <1>2, <2>1 DEF HasDefect, Untouched
<1>4. Read(k)' /\ HasDefect' = HasDefect
  BY <1>1, SameRead, SameText
<1> QED
  BY <1>1, <1>2, <1>3, <1>4 DEF Standing

(* A part inside of a block that adds what it should.                      *)
LEMMA AddFieldStands ==
    ASSUME GenInv, NEW k \in 1 .. Len(spec.parts), NEW m \in 1 .. Len(spec.parts),
           m - 1 = k, m = k + 1,
           Read(k), block = Type(k), spec.parts[m].is = "field", Adds(m), At(m + 1) = line + 1,
           NEW f \in SchemaField, f = spec.lines[At(m)].field, AddField(f)
    PROVE  Read(m)' /\ Standing(m)'
<1>1. ~FieldPanics(block.kind, f) /\ WithField(f) = Type(m)
  BY FieldAdded
<1>2. /\ block' = Type(m) /\ line' = At(m + 1) /\ genpc' = "fields"
      /\ UNCHANGED <<spec, types, typedefs>>
  BY <1>1 DEF AddField
<1>3. Read(m)
  BY DefinesNothing
<1>4. Inside(m)
  BY DEF Inside
<1>5. Read(m)' /\ At(m + 1)' = At(m + 1) /\ Inside(m)' = Inside(m) /\ Type(m)' = Type(m)
  BY <1>2, <1>3, SameRead, SameText
<1> QED
  BY <1>2, <1>4, <1>5 DEF Standing

(* A field that may not be there.                                          *)
LEMMA AddFieldPanics ==
    ASSUME NEW k \in 0 .. Len(spec.parts), Read(k), HasDefect,
           NEW f, FieldPanics(block.kind, f), AddField(f)
    PROVE  Read(k)' /\ Standing(k)'
BY PanicRight DEF AddField

(* A block ends with what was read of it.                                  *)
LEMMA CloseBlockStands ==
    ASSUME GenInv, NEW k \in 1 .. Len(spec.parts), NEW m \in 1 .. Len(spec.parts),
           m - 1 = k, m = k + 1,
           Read(k), block = Type(k), spec.parts[m].is = "closing", At(m + 1) = line + 1, CloseBlock,
           \/ Type(m) = Type(k)
           \/ Adds(m) /\ Is(At(m)) = "field" /\ spec.lines[At(m)].field \in SchemaField
    PROVE  Read(m)' /\ Standing(m)'
<1> DEFINE read == [kind |-> block.kind, fields |-> block.fields]
<1>1. /\ line' = At(m + 1) /\ genpc' = "outside" /\ UNCHANGED <<spec, typedefs>>
      /\ types' = IF IsLeftOut(block.name) THEN types ELSE Inserted(types, block.name, read)
  BY DEF CloseBlock
<1>2. /\ Type(m).name = block.name /\ Type(m).kind = block.kind
      /\ \/ block.fields = Type(m).fields
         \/ Is(At(m)) = "field" /\ block.fields = Front(Type(m).fields)
  BY FieldAdded
<1>3. read.kind = block.kind /\ read.fields = block.fields
  OBVIOUS
<1> HIDE DEF read
<1>4. ASSUME IsLeftOut(block.name)
      PROVE  Read(m)'
  <2>1. Read(m) /\ UNCHANGED types
    BY <1>1, <1>2, <1>4, DefinesNothing
  <2> QED
    BY <1>1, <2>1, SameRead
<1>5. ASSUME ~IsLeftOut(block.name)
      PROVE  Read(m)'
  <2>1. /\ types' = Inserted(types, Type(m).name, read) /\ ~IsLeftOut(Type(m).name)
        /\ read.kind = Type(m).kind
        /\ \/ read.fields = Type(m).fields
           \/ Is(At(m)) = "field" /\ read.fields = Front(Type(m).fields)
    BY <1>1, <1>2, <1>3, <1>5
  <2> QED
    BY <1>1, <2>1, BlockKept
<1>6. Read(m)'
  BY <1>4, <1>5
<1>7. ~Inside(m) /\ Untouched(m)
  BY DEF Inside, Untouched
<1>8. At(m + 1)' = At(m + 1) /\ Inside(m)' = Inside(m) /\ Untouched(m)' = Untouched(m)
  BY <1>1, SameText
<1> QED
  BY <1>1, <1>6, <1>7, <1>8 DEF Standing

(* A line of the text is typed.                                            *)
LEMMA FieldOfLine ==
    ASSUME GenInv, NEW n \in 1 .. Len(spec.lines)
    PROVE  spec.lines[n].field \in SchemaField
<1>1. spec.lines \in Seq(TextLine) /\ Len(spec.lines) \in Nat
  BY TextTyped
<1>2. spec.lines[n] \in TextLine
  BY <1>1, ElementOfSeq
<1> QED
  BY <1>2 DEF TextLine

(* A line in a block.                                                      *)
LEMMA FieldLineStands ==
    ASSUME GenInv, LaidOut, NEW k \in 0 .. Len(spec.parts), Read(k), Standing(k), FieldLine
    PROVE  \E m \in 0 .. Len(spec.parts) : Read(m)' /\ Standing(m)'
<1>1. /\ genpc = "fields" /\ line = At(k + 1) /\ Inside(k) /\ block = Type(k)
      /\ line \in Nat \ {0} /\ Len(spec.lines) \in Nat /\ line <= Len(spec.lines)
      /\ Line(1) = spec.lines[line] /\ Line(1).is = Is(line)
  BY LinesLeft DEF FieldLine, Standing, Is
<1>2. PICK end : /\ Placed(k + 1, line, end) /\ k + 1 \in 0 .. Len(spec.parts) /\ k + 1 - 1 = k
                 /\ spec.parts[k + 1].is = "defect" => HasDefect
                 /\ IsInside(k + 1, line, end)
  BY <1>1, PartRead
<1>3. /\ k \in 1 .. Len(spec.parts) /\ k + 1 \in 1 .. Len(spec.parts)
      /\ At(k + 2) = end + 1 /\ k + 1 + 1 = k + 2
  <2>1. Len(spec.parts) \in Nat
    BY TextTyped
  <2>2. k # 0
    BY <1>1 DEF Inside
  <2>3. At(k + 1 + 1) = end + 1 /\ k + 1 + 1 = k + 2
    BY <1>2 DEF Placed
  <2> QED
    BY <1>2, <2>1, <2>2, <2>3
<1>4. line # Len(spec.lines) + 1 /\ spec.lines[line].field \in SchemaField
  BY <1>1, FieldOfLine
<1>5. PICK m : /\ m = k + 1 /\ m - 1 = k /\ m \in 0 .. Len(spec.parts) /\ m \in 1 .. Len(spec.parts)
               /\ Placed(m, line, end) /\ IsInside(m, line, end)
               /\ At(m) = line /\ At(m + 1) = end + 1
               /\ spec.parts[m].is = "defect" => HasDefect
  BY <1>1, <1>2, <1>3
<1>6. CASE Is(line) = "close" /\ CloseBlock
  <2>1. spec.parts[m].is = "closing" /\ end = line /\ Type(m) = Type(k)
    BY <1>4, <1>5, <1>6, InsidePart
  <2> QED
    BY <1>1, <1>3, <1>5, <1>6, <2>1, CloseBlockStands
<1>7. CASE /\ Is(line) = "blank" /\ line' = line + 1
           /\ UNCHANGED <<spec, block, pending, types, typedefs, genpc>>
  <2>1. spec.parts[m].is = "blank" /\ end = line /\ Type(m) = Type(k)
    BY <1>4, <1>5, <1>7, InsidePart
  <2>2. Read(m) /\ Inside(m)
    BY <1>5, <2>1, DefinesNothing DEF Inside
  <2>3. Read(m)' /\ At(m + 1)' = At(m + 1) /\ Inside(m)' = Inside(m) /\ Type(m)' = Type(m)
    BY <1>7, <2>2, SameRead, SameText
  <2>4. Standing(m)'
    BY <1>1, <1>5, <1>7, <2>1, <2>2, <2>3 DEF Standing
  <2> QED
    BY <1>5, <2>3, <2>4
<1>8. CASE /\ Is(line) = "field" /\ spec.lines[line].comment # "open"
           /\ AddField(spec.lines[line].field)
  <2> DEFINE f == spec.lines[line].field
  <2>1. CASE spec.parts[m].is = "field" /\ end = line /\ Adds(m)
    BY <1>1, <1>3, <1>4, <1>5, <1>8, <2>1, AddFieldStands
  <2>2. CASE spec.parts[m].is = "defect" /\ FieldPanics(Type(k).kind, f)
    BY <1>1, <1>5, <1>8, <2>2, AddFieldPanics
  <2> QED
    BY <1>4, <1>5, <1>8, <2>1, <2>2, InsidePart
<1>9. CASE /\ Is(line) = "field" /\ spec.lines[line].comment = "open"
           /\ pending' = spec.lines[line].field
           /\ line' = line + 1 /\ genpc' = "comment" /\ UNCHANGED <<spec, block, types, typedefs>>
  <2>a. PICK first : first = line
    OBVIOUS
  <2>1. Comment(first, first + 1)
    BY <1>1, <1>9, <2>a, CommentGoesOn
  <2>2. Read(k)' /\ At(k + 1)' = At(k + 1) /\ Inside(k)' = Inside(k) /\ Type(k)' = Type(k)
    BY <1>9, SameRead, SameText
  <2>3. Comment(first, first + 1)' /\ At(k + 1)' = first /\ line' = first + 1
    BY <1>1, <1>9, <2>a, <2>1, <2>2, SameText
  <2>4. Comment(At(k + 1), line)'
    BY <2>3 DEF Comment, Is
  <2>5. pending' = spec'.lines[At(k + 1)'].field
    BY <1>1, <1>9, <2>2
  <2>6. Standing(k)'
    BY <1>1, <1>9, <2>2, <2>4, <2>5 DEF Standing
  <2> QED
    BY <2>2, <2>6
<1>10. CASE Is(line) \notin {"close", "blank", "field"} /\ Panic
  <2>1. HasDefect
    BY <1>4, <1>5, <1>10, InsidePart
  <2> QED
    BY <1>10, <2>1, PanicRight
<1> QED
  BY <1>1, <1>6, <1>7, <1>8, <1>9, <1>10 DEF FieldLine

(* A line in a comment.                                                    *)
LEMMA CommentLineStands ==
    ASSUME GenInv, LaidOut, NEW k \in 0 .. Len(spec.parts), Read(k), Standing(k), CommentLine
    PROVE  \E m \in 0 .. Len(spec.parts) : Read(m)' /\ Standing(m)'
<1>1. /\ genpc = "comment" /\ Comment(At(k + 1), line) /\ Inside(k) /\ block = Type(k)
      /\ pending = spec.lines[At(k + 1)].field
      /\ line \in Nat \ {0} /\ Len(spec.lines) \in Nat /\ line <= Len(spec.lines)
      /\ Line(1).is = Is(line)
  BY LinesLeft DEF CommentLine, Standing, Is
<1>2. PICK first : first = At(k + 1)
  OBVIOUS
<1>3. PICK end : /\ Placed(k + 1, first, end) /\ k + 1 \in 0 .. Len(spec.parts) /\ k + 1 - 1 = k
                 /\ spec.parts[k + 1].is = "defect" => HasDefect
                 /\ IsInside(k + 1, first, end)
  BY <1>1, <1>2, PartRead
<1>4. /\ Len(spec.parts) \in Nat /\ k # 0 /\ k + 1 \in 1 .. Len(spec.parts)
      /\ At(k + 1 + 1) = end + 1
      /\ first \in Nat /\ end \in Nat
  BY <1>1, <1>3, TextTyped DEF Inside, Placed
<1>5. PICK m : /\ m = k + 1 /\ m - 1 = k /\ m \in 0 .. Len(spec.parts) /\ m \in 1 .. Len(spec.parts)
               /\ Placed(m, first, end) /\ IsInside(m, first, end)
               /\ At(m) = first /\ At(m + 1) = end + 1 /\ k \in 1 .. Len(spec.parts)
               /\ spec.parts[m].is = "defect" => HasDefect
  BY <1>2, <1>3, <1>4
<1>6. line # Len(spec.lines) + 1 /\ Comment(first, line) /\ Is(first) = "field"
  BY <1>1, <1>2 DEF Comment
<1>7. pending \in SchemaField /\ pending = spec.lines[first].field
  BY <1>1, <1>2 DEF GenInv
<1>8. CASE /\ Is(line) \notin {"end_of_comment", "closing_comment"} /\ line' = line + 1
           /\ UNCHANGED <<spec, block, pending, types, typedefs, genpc>>
  <2>1. PICK n : n = line
    OBVIOUS
  <2>2. Comment(first, n + 1)
    BY <1>1, <1>4, <1>6, <1>8, <2>1, CommentGoesOn
  <2>3. /\ Read(k)' /\ At(k + 1)' = At(k + 1) /\ Inside(k)' = Inside(k) /\ Type(k)' = Type(k)
        /\ Comment(first, n + 1)'
    BY <1>8, <2>2, SameRead, SameText
  <2>4. Comment(At(k + 1), line)'
    BY <1>2, <1>8, <2>1, <2>3 DEF Comment, Is
  <2>5. pending' = spec'.lines[At(k + 1)'].field
    BY <1>1, <1>8, <2>3
  <2>6. Standing(k)'
    BY <1>1, <1>8, <2>3, <2>4, <2>5 DEF Standing
  <2> QED
    BY <2>3, <2>6
<1>9. CASE Is(line) = "end_of_comment" /\ AddField(pending)
  <2>1. \/ spec.parts[m].is = "field" /\ end = line /\ Adds(m)
        \/ spec.parts[m].is = "defect" /\ FieldPanics(Type(k).kind, pending)
    BY <1>1, <1>5, <1>6, <1>7, <1>9, CommentPart
  <2>2. CASE spec.parts[m].is = "field" /\ end = line /\ Adds(m)
    <3>1. Read(m)' /\ Standing(m)'
      BY <1>1, <1>5, <1>7, <1>9, <2>2, AddFieldStands
    <3> QED
      BY <1>5, <3>1
  <2>3. CASE spec.parts[m].is = "defect" /\ FieldPanics(Type(k).kind, pending)
    <3>1. Read(k)' /\ Standing(k)'
      BY <1>1, <1>5, <1>9, <2>3, AddFieldPanics
    <3> QED
      BY <3>1
  <2> QED
    BY <2>1, <2>2, <2>3
<1>10. CASE Is(line) = "closing_comment" /\ CloseBlock
  <2>1. spec.parts[m].is = "closing" /\ end = line /\ Adds(m)
    BY <1>1, <1>5, <1>6, <1>10, CommentPart
  <2>2. Read(m)' /\ Standing(m)'
    BY <1>1, <1>5, <1>6, <1>7, <1>10, <2>1, CloseBlockStands
  <2> QED
    BY <1>5, <2>2
<1> QED
  BY <1>1, <1>8, <1>9, <1>10 DEF CommentLine

(* No line is left where there must be one: the last part is a defect.     *)
LEMMA TextTooShortStands ==
    ASSUME GenInv, LaidOut, NEW k \in 0 .. Len(spec.parts), Read(k), Standing(k), TextTooShort
    PROVE  Read(k)' /\ Standing(k)'
<1>1. Panic /\ line \in Nat \ {0} /\ Len(spec.lines) \in Nat
  BY LinesLeft DEF TextTooShort
<1>2. CASE genpc = "fields" /\ ~(line <= Len(spec.lines))
  <2>1. line = At(k + 1) /\ Inside(k)
    BY <1>2 DEF Standing
  <2>2. PICK end : /\ Placed(k + 1, line, end) /\ IsInside(k + 1, line, end)
                   /\ spec.parts[k + 1].is = "defect" => HasDefect
    BY <2>1, PartRead
  <2>3. line = Len(spec.lines) + 1
    BY <1>1, <1>2, <2>2 DEF Placed
  <2>4. HasDefect
    BY <2>2, <2>3, InsidePart
  <2> QED
    BY <1>1, <2>4, PanicRight
<1>3. CASE genpc = "comment" /\ ~(line <= Len(spec.lines))
  <2>1. Comment(At(k + 1), line) /\ Inside(k)
    BY <1>3 DEF Standing
  <2>2. PICK first : first = At(k + 1)
    OBVIOUS
  <2>3. PICK end : /\ Placed(k + 1, first, end) /\ IsInside(k + 1, first, end)
                   /\ spec.parts[k + 1].is = "defect" => HasDefect
    BY <2>1, <2>2, PartRead
  <2>4. HasDefect
    <3>1. /\ first \in Nat /\ Len(spec.lines) + 1 \in Nat /\ Comment(first, line)
          /\ Len(spec.lines) + 1 <= line
      BY <1>1, <1>3, <2>1, <2>2, <2>3 DEF Placed
    <3>2. CASE first < Len(spec.lines) + 1
      <4>1. \A n : n \in first + 1 .. Len(spec.lines) + 1 - 1 => n \in first + 1 .. line - 1
        BY <1>1, <3>1
      <4>2. Comment(first, Len(spec.lines) + 1)
        BY <3>1, <3>2, <4>1 DEF Comment
      <4> QED
        BY <2>3, <3>1, <4>2, CommentPart
    <3>3. CASE ~(first < Len(spec.lines) + 1)
      <4>1. first = Len(spec.lines) + 1
        BY <1>1, <2>3, <3>1, <3>3 DEF Placed
      <4> QED
        BY <2>3, <4>1, InsidePart
    <3> QED
      BY <3>2, <3>3
  <2> QED
    BY <1>1, <2>4, PanicRight
<1>4. CASE /\ genpc = "outside" /\ line <= Len(spec.lines)
           /\ ~(line + 1 <= Len(spec.lines)) /\ Is(line) = "start"
  <2>1. line = At(k + 1) /\ ~Inside(k)
    BY <1>4 DEF Standing
  <2>2. PICK end : /\ Placed(k + 1, line, end) /\ IsOutside(k + 1, line, end)
                   /\ spec.parts[k + 1].is = "defect" => HasDefect
    BY <1>4, <2>1, PartRead
  <2>3. ~(line < Len(spec.lines))
    BY <1>1, <1>4
  <2>4. HasDefect
    BY <1>4, <2>2, <2>3, OutsidePart
  <2> QED
    BY <1>1, <2>4, PanicRight
<1> QED
  BY <1>2, <1>3, <1>4, LinesLeft DEF TextTooShort, Is

(* What can be refuted depends on the maps.                                *)
LEMMA SameRefutable ==
    ASSUME UNCHANGED <<types, typedefs>>
    PROVE  Refutable' = Refutable
BY DEF Refutable, Ambiguous, Unsendable, TellsApart, SameName, BothDefined, Resolve, HasItsOwnItem

(* The types are refuted or not.                                           *)
LEMMA ValidateStands ==
    ASSUME NEW k \in 0 .. Len(spec.parts), Read(k), Standing(k), Validate
    PROVE  Read(k)' /\ Standing(k)'
<1>1. /\ k = Len(spec.parts) /\ ~HasDefect /\ UNCHANGED <<spec, types, typedefs>>
      /\ genpc' = IF Refutable THEN "panic" ELSE "done"
  BY DEF Validate, Standing, Refutable
<1>2. Read(k)' /\ HasDefect' = HasDefect /\ Refutable' = Refutable
  BY <1>1, SameRead, SameText, SameRefutable
<1>3. k = Len(spec'.parts)
  BY <1>1
<1> QED
  BY <1>1, <1>2, <1>3 DEF Standing

(* Every step that reads a line keeps track of the parts.                  *)
LEMMA TextRead ==
    ASSUME GenInv, TextInv, Generate
    PROVE  TextInv'
<1>1. UNCHANGED spec
  BY DEF Generate, OtherLine, Typedef, OpenBlock, EndOfText, FieldLine, AddField, CloseBlock,
         CommentLine, TextTooShort, Validate, Panic
<1>2. LaidOut' = LaidOut
  BY <1>1, SameText
<1>3. ASSUME LaidOut
      PROVE  \E m \in 0 .. Len(spec.parts) : Read(m)' /\ Standing(m)'
  <2>1. PICK k \in 0 .. Len(spec.parts) : Read(k) /\ Standing(k)
    BY <1>3 DEF TextInv
  <2>2. CASE OtherLine
    BY <1>3, <2>1, <2>2, OtherLineStands
  <2>3. CASE Typedef
    BY <1>3, <2>1, <2>3, TypedefStands
  <2>4. CASE OpenBlock
    BY <1>3, <2>1, <2>4, OpenBlockStands
  <2>5. CASE EndOfText
    BY <1>3, <2>1, <2>5, EndOfTextStands
  <2>6. CASE FieldLine
    BY <1>3, <2>1, <2>6, FieldLineStands
  <2>7. CASE CommentLine
    BY <1>3, <2>1, <2>7, CommentLineStands
  <2>8. CASE TextTooShort
    BY <1>3, <2>1, <2>8, TextTooShortStands
  <2>9. CASE Validate
    BY <2>1, <2>9, ValidateStands
  <2> QED
    BY <2>2, <2>3, <2>4, <2>5, <2>6, <2>7, <2>8, <2>9 DEF Generate
<1>4. Len(spec'.parts) = Len(spec.parts)
  BY <1>1
<1> QED
  BY <1>2, <1>3, <1>4 DEF TextInv

(* And no other step touches what was read.                                *)
LEMMA TextKept ==
    ASSUME GenInv, TextInv, [Next]_vars
    PROVE  TextInv'
<1>1. CASE UNCHANGED genvars
  <2>1. UNCHANGED <<spec, types, typedefs, line, block, pending, genpc>>
    BY <1>1 DEF genvars
  <2>2. LaidOut' = LaidOut /\ HasDefect' = HasDefect /\ Refutable' = Refutable
    BY <2>1, SameText, SameRefutable
  <2>3. ASSUME NEW k
        PROVE  Read(k)' = Read(k) /\ Standing(k)' = Standing(k)
    <3>1. /\ At(k + 1)' = At(k + 1) /\ Inside(k)' = Inside(k) /\ Type(k)' = Type(k)
          /\ Untouched(k)' = Untouched(k) /\ Read(k)' = Read(k)
      BY <2>1, SameText, SameRead
    <3>2. Comment(At(k + 1), line)' = Comment(At(k + 1), line)
      BY <2>1, <3>1 DEF Comment, Is
    <3> QED
      BY <2>1, <2>2, <3>1, <3>2 DEF Standing
  <2> QED
    BY <2>1, <2>2, <2>3 DEF TextInv
<1>2. CASE Generate
  BY <1>2, TextRead
<1> QED
  BY <1>1, <1>2, WalkKeeps DEF Next, vars

(* Nothing is read yet.                                                    *)
LEMMA TextStarts ==
    ASSUME Init
    PROVE  TextInv
<1>1. /\ types = << >> /\ typedefs = << >> /\ line = 1 /\ genpc = "outside"
      /\ DOMAIN types = {} /\ DOMAIN typedefs = {}
  BY DEF Init, GenInit
<1>2. 1 .. 0 = {} /\ 0 + 1 = 1
  OBVIOUS
<1>3. Typedefs(0) = {} /\ Blocks(0) = {} /\ InForce({}) = {}
  BY <1>2 DEF Typedefs, Blocks, InForce
<1>4. Read(0)
  BY <1>1, <1>3 DEF Read, TypedefsRead, TypesRead
<1>5. LaidOut => Standing(0)
  BY <1>1, <1>2 DEF Standing, LaidOut, Inside, Untouched
<1>6. 0 \in 0 .. Len(spec.parts)
  BY Starts, TextTyped DEF IInv
<1> QED
  BY <1>4, <1>5, <1>6 DEF TextInv

(* The types that are generated are the ones the text lays out, and the    *)
(* build stops only for a text with a defect or types that cannot be told  *)
(* apart: for every text, however long, wherever its blank lines are and   *)
(* its comments end, and whatever follows a defect.                        *)
THEOREM SchemaIsRead == Spec => []SchemaIsSpecification
<1>1. Init => IInv /\ TextInv
  BY Starts, TextStarts
<1>2. IInv /\ TextInv /\ [Next]_vars => IInv' /\ TextInv'
  BY Inductive, TextKept DEF IInv
<1>3. TextInv => SchemaIsSpecification
  BY DEF TextInv, Read, Standing, SchemaIsSpecification
<1> QED
  BY <1>1, <1>2, <1>3, PTL DEF Spec
=============================================================================
