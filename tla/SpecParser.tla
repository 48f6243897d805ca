----------------------------- MODULE SpecParser -----------------------------
(***************************************************************************)
(* modules/rust/sml/build.rs: reads the type definitions of SML from the   *)
(* text of the specification, line by line, and checks that a parser can   *)
(* tell their variants apart.  What is generated from them is in           *)
(* MessageParser.                                                          *)
(*                                                                         *)
(* A line is what the regular expressions make of it; a name stands for    *)
(* itself.  The text is the environment's: it comes from pdftotext.        *)
(***************************************************************************)
EXTENDS Integers, SequencesExt

CONSTANTS
    Specifications,     \* texts: their lines, and the parts these are laid out in
    MaxLength           \* of an item

SchemaField == [name : STRING, tag : Int, ty : STRING, optional : BOOLEAN]
TextLine == [is : STRING, name : STRING, ty : STRING, field : SchemaField, comment : STRING]

(* A part begins with line `at`; type is what the block defines so far.    *)
TextPart == [is : STRING, at : Nat \ {0},
             type : [name : STRING, kind : STRING, fields : Seq(SchemaField)]]

(* The text ends.                                                          *)
ASSUME SpecificationsAssumption ==
    \A s \in Specifications : s.lines \in Seq(TextLine) /\ s.parts \in Seq(TextPart)

VARIABLES spec,         \* the specification on disk
          line,         \* the next line
          block,        \* the type being read
          pending,      \* the field whose comment is being read
          types,        \* what was read: a function on type names
          typedefs,
          genpc         \* "outside", "fields", "comment", "validate", "done", "panic"

genvars == <<spec, line, block, pending, types, typedefs, genpc>>

Kinds == {"CHOICE", "IMPLICIT_CHOICE", "SEQUENCE", "SEQUENCE_OF"}
NoTag == -1

Unsigneds == {"Unsigned8", "Unsigned16", "Unsigned32", "Unsigned64"}
Signeds == {"Integer8", "Integer16", "Integer32", "Integer64"}
Primitives == Unsigneds \union Signeds \union {"Boolean"}

(* Names that are matched by their beginning.                              *)
IsCosem(name) == name \in {"SML_CosemValue", "SML_GetCosemResponse"}
IsLeftOut(name) == name = "..." \/ name \in Primitives \/ IsCosem(name)

NewBlock(name, kind) == [name |-> name, kind |-> kind, fields |-> << >>]

GenInit ==
    /\ spec \in Specifications
    /\ line = 1
    /\ block = NewBlock("none", "SEQUENCE") /\ pending = << >>
    /\ types = << >> /\ typedefs = << >>
    /\ genpc = "outside"

Left(n) == line + n - 1 <= Len(spec.lines)
Line(n) == spec.lines[line + n - 1]

(* insert of a map: a value that was there is replaced.                    *)
Inserted(map, name, value) ==
    [n \in DOMAIN map \union {name} |-> IF n = name THEN value ELSE map[n]]

Panic ==
    /\ genpc' = "panic"
    /\ UNCHANGED <<spec, line, block, pending, types, typedefs>>

-----------------------------------------------------------------------------
(* Outside of a block.                                                     *)

OtherLine ==
    /\ genpc = "outside" /\ Left(1) /\ Line(1).is # "start"
    /\ line' = line + 1
    /\ UNCHANGED <<spec, block, pending, types, typedefs, genpc>>

(* A definition without a block takes the line behind it with it.          *)
Typedef ==
    /\ genpc = "outside" /\ Left(2) /\ Line(1).is = "start" /\ Line(2).is # "open"
    /\ line' = line + 2
    /\ typedefs' = (IF Line(1).name = "EndOfSmlMsg" THEN typedefs
                    ELSE Inserted(typedefs, Line(1).name, Line(1).ty))
    /\ UNCHANGED <<spec, block, pending, types, genpc>>

OpenBlock ==
    /\ genpc = "outside" /\ Left(2) /\ Line(1).is = "start" /\ Line(2).is = "open"
    /\ IF Line(1).ty \in Kinds
         THEN /\ block' = NewBlock(Line(1).name, Line(1).ty)
              /\ line' = line + 2
              /\ genpc' = "fields"
              /\ UNCHANGED <<spec, pending, types, typedefs>>
         ELSE Panic

EndOfText ==
    /\ genpc = "outside" /\ ~Left(1)
    /\ genpc' = "validate"
    /\ UNCHANGED <<spec, line, block, pending, types, typedefs>>

-----------------------------------------------------------------------------
(* Inside of a block.                                                      *)

(* What a field may not have, for the kind of the block.                   *)
FieldPanics(kind, f) ==
    IF kind = "CHOICE" THEN f.optional \/ f.tag = NoTag
    ELSE f.tag # NoTag \/ (f.optional /\ kind # "SEQUENCE")

IsUnsupported(kind, f) ==
    kind = "CHOICE" /\ (f.name = "SetProcParameterResponse" \/ IsCosem(f.ty))

(* Only a sequence keeps its fields in order and may repeat a name; the    *)
(* others are maps, in which the last one stays.                           *)
Put(fields, f) ==
    IF block.kind # "SEQUENCE" /\ \E i \in DOMAIN fields : fields[i].name = f.name
    THEN [i \in DOMAIN fields |-> IF fields[i].name = f.name THEN f ELSE fields[i]]
    ELSE Append(fields, f)

WithField(f) ==
    IF IsUnsupported(block.kind, f) THEN block ELSE [block EXCEPT !.fields = Put(@, f)]

AddField(f) ==
    IF FieldPanics(block.kind, f) THEN Panic
    ELSE /\ block' = WithField(f)
         /\ line' = line + 1
         /\ genpc' = "fields"
         /\ UNCHANGED <<spec, pending, types, typedefs>>

CloseBlock ==
    /\ types' = (IF IsLeftOut(block.name) THEN types
                 ELSE Inserted(types, block.name,
                               [kind |-> block.kind, fields |-> block.fields]))
    /\ line' = line + 1
    /\ genpc' = "outside"
    /\ UNCHANGED <<spec, block, pending, typedefs>>

FieldLine ==
    /\ genpc = "fields" /\ Left(1)
    /\ \/ Line(1).is = "close" /\ CloseBlock
       \/ /\ Line(1).is = "blank"
          /\ line' = line + 1
          /\ UNCHANGED <<spec, block, pending, types, typedefs, genpc>>
       \/ Line(1).is = "field" /\ Line(1).comment # "open" /\ AddField(Line(1).field)
       \/ /\ Line(1).is = "field" /\ Line(1).comment = "open"
          /\ pending' = Line(1).field
          /\ line' = line + 1
          /\ genpc' = "comment"
          /\ UNCHANGED <<spec, block, types, typedefs>>
       \/ Line(1).is \notin {"close", "blank", "field"} /\ Panic

(* Mutant: a comment is taken to end with its second line.                 *)
CommentLineOnce ==
    /\ genpc = "comment" /\ Left(1)
    /\ IF Line(1).is = "closing_comment" THEN CloseBlock ELSE AddField(pending)

(* A comment of several lines ends with a parenthesis.  If the brace that  *)
(* closes the block is on that line, the field before it is lost.          *)
CommentLine ==
    /\ genpc = "comment" /\ Left(1)
    /\ \/ /\ Line(1).is \notin {"end_of_comment", "closing_comment"}
          /\ line' = line + 1
          /\ UNCHANGED <<spec, block, pending, types, typedefs, genpc>>
       \/ Line(1).is = "end_of_comment" /\ AddField(pending)
       \/ Line(1).is = "closing_comment" /\ CloseBlock

(* lines.next() has no line where there must be one.                       *)
TextTooShort ==
    /\ \/ genpc \in {"fields", "comment"} /\ ~Left(1)
       \/ genpc = "outside" /\ Left(1) /\ ~Left(2) /\ Line(1).is = "start"
    /\ Panic

-----------------------------------------------------------------------------
Resolve(name) == IF name \in DOMAIN typedefs THEN typedefs[name] ELSE name

Variant(ty) == CASE ty \in Unsigneds -> "Unsigned" [] ty \in Signeds -> "Integer"
                 [] ty = "Boolean" -> "Boolean"

(* Mutant: a number has all of its bytes.                                  *)
LengthsExact(ty) == CASE ty \in {"Unsigned8", "Integer8"} -> 1 .. 1
                      [] ty \in {"Unsigned16", "Integer16"} -> 2 .. 2
                      [] ty \in {"Unsigned32", "Integer32"} -> 4 .. 4
                      [] ty \in {"Unsigned64", "Integer64"} -> 8 .. 8

(* The lengths a number may have on the wire.                              *)
Lengths(ty) == CASE ty \in {"Unsigned8", "Integer8"} -> 1 .. 1
                 [] ty \in {"Unsigned16", "Integer16"} -> 2 .. 2
                 [] ty \in {"Unsigned32", "Integer32"} -> 3 .. 4
                 [] ty \in {"Unsigned64", "Integer64"} -> 5 .. 8

AnyLength == 0 .. MaxLength

(* type_to_tlvtypes: the items a type may be sent as.                      *)
HasItsOwnItem(ty) == ty \in Primitives \union {"Octet_String"}

IsImplicit(ty) ==
    ~HasItsOwnItem(ty) /\ ty \in DOMAIN types /\ types[ty].kind = "IMPLICIT_CHOICE"

DirectTypes(ty) ==
    CASE ty \in Unsigneds \union Signeds -> {Variant(ty)} \X Lengths(ty)
      [] ty = "Boolean" -> {"Boolean"} \X AnyLength
      [] ty = "Octet_String" -> {"String"} \X AnyLength
      [] OTHER -> {"List"} \X AnyLength

TlvTypes[name \in STRING] ==
    LET ty == Resolve(name)
    IN  IF IsImplicit(ty)
        THEN UNION {TlvTypes[types[ty].fields[i].ty] : i \in DOMAIN types[ty].fields}
        ELSE DirectTypes(ty)

-----------------------------------------------------------------------------
(* The two kinds whose variants are told apart by the item's type.         *)
TellsApart(type) == type.kind \in {"IMPLICIT_CHOICE", "SEQUENCE_OF"}

SameName(type, i, j) == type.fields[i].ty = type.fields[j].ty
BothDefined(type, i, j) == {type.fields[i].ty, type.fields[j].ty} \subseteq DOMAIN types

(* Mutant: only variants of the very same type are found.                  *)
AmbiguousNames(type) ==
    /\ TellsApart(type)
    /\ \E i, j \in DOMAIN type.fields : i # j /\ SameName(type, i, j)

Ambiguous(type) ==
    /\ TellsApart(type)
    /\ \E i, j \in DOMAIN type.fields :
          i # j /\ (SameName(type, i, j) \/ BothDefined(type, i, j))

(* The template has no item for a variant that was defined nowhere.        *)
Unsendable(type) ==
    /\ type.kind = "IMPLICIT_CHOICE"
    /\ \E i \in DOMAIN type.fields :
          LET ty == Resolve(type.fields[i].ty)
          IN  ~HasItsOwnItem(ty) /\ ty \notin DOMAIN types

Validate ==
    /\ genpc = "validate"
    /\ genpc' = (IF \E n \in DOMAIN types : Ambiguous(types[n]) \/ Unsendable(types[n])
                 THEN "panic" ELSE "done")
    /\ UNCHANGED <<spec, line, block, pending, types, typedefs>>

Generate ==
    \/ OtherLine \/ Typedef \/ OpenBlock \/ EndOfText
    \/ FieldLine \/ CommentLine \/ TextTooShort
    \/ Validate

-----------------------------------------------------------------------------
GenTypeOK ==
    /\ spec \in Specifications
    /\ line \in 1 .. Len(spec.lines) + 2
    /\ block.kind \in Kinds
    /\ \A n \in DOMAIN types : types[n].kind \in Kinds
    /\ genpc \in {"outside", "fields", "comment", "validate", "done", "panic"}

(* Whatever passes the validation can be told apart when it is received:   *)
(* no item fits two variants of an implicit choice, whose arms are in the  *)
(* order of a hash map.  The validation compares names, so variants that   *)
(* are typedefs or implicit choices themselves are not covered.            *)
VariantsToldApart ==
    genpc = "done" =>
        \A n \in DOMAIN types : types[n].kind = "IMPLICIT_CHOICE" =>
            LET direct == {i \in DOMAIN types[n].fields :
                              LET ty == types[n].fields[i].ty
                              IN  ty \notin DOMAIN typedefs /\ ~IsImplicit(ty)}
            IN  \A i, j \in direct :
                    i # j => DirectTypes(types[n].fields[i].ty)
                               \cap DirectTypes(types[n].fields[j].ty) = {}

-----------------------------------------------------------------------------
(* How a text is laid out: in parts of one line or several.                *)

At(k) == IF k <= Len(spec.parts) THEN spec.parts[k].at ELSE Len(spec.lines) + 1
Is(n) == spec.lines[n].is
Type(k) == spec.parts[k].type
Inside(k) == k > 0 /\ spec.parts[k].is \in {"header", "blank", "field"}

(* A field whose comment has not ended before a line.                      *)
Comment(first, last) ==
    /\ Is(first) = "field" /\ spec.lines[first].comment = "open" /\ first < last
    /\ \A n \in first + 1 .. last - 1 : Is(n) \notin {"end_of_comment", "closing_comment"}

(* What a field adds to the type; no variant may have the name of another. *)
Adds(k) ==
    LET old == Type(k - 1)
        f   == spec.lines[At(k)].field
    IN  /\ ~FieldPanics(old.kind, f)
        /\ IF IsUnsupported(old.kind, f) THEN Type(k) = old
           ELSE /\ Type(k) = [old EXCEPT !.fields = Append(@, f)]
                /\ old.kind # "SEQUENCE" =>
                     \A i \in DOMAIN old.fields : old.fields[i].name # f.name

(* Outside and inside of a block; a defect is the end of what can be read. *)
IsOutside(k, first, last) ==
    \/ spec.parts[k].is = "prose" /\ last = first /\ Is(first) # "start"
    \/ /\ spec.parts[k].is \in {"typedef", "header"} /\ last = first + 1 /\ Is(first) = "start"
       /\ IF Is(last) = "open" THEN Inside(k) /\ Type(k).kind \in Kinds ELSE ~Inside(k)
       /\ Type(k) = NewBlock(spec.lines[first].name, spec.lines[first].ty)
    \/ /\ spec.parts[k].is = "defect" /\ first <= Len(spec.lines) /\ Is(first) = "start"
       /\ \/ first = Len(spec.lines)
          \/ Is(first + 1) = "open" /\ spec.lines[first].ty \notin Kinds

IsInside(k, first, last) ==
    \/ spec.parts[k].is = "blank" /\ last = first /\ Is(first) = "blank" /\ Type(k) = Type(k - 1)
    \/ /\ spec.parts[k].is = "field" /\ Adds(k)
       /\ \/ last = first /\ Is(first) = "field" /\ spec.lines[first].comment # "open"
          \/ Comment(first, last) /\ Is(last) = "end_of_comment"
    \/ /\ spec.parts[k].is = "closing"
       /\ \/ last = first /\ Is(first) = "close" /\ Type(k) = Type(k - 1)
          \/ Comment(first, last) /\ Is(last) = "closing_comment" /\ Adds(k)
    \/ /\ spec.parts[k].is = "defect"
       /\ \/ first = Len(spec.lines) + 1
          \/ first <= Len(spec.lines) /\ Is(first) \notin {"close", "blank", "field"}
          \/ Comment(first, Len(spec.lines) + 1)
          \/ /\ first <= Len(spec.lines) /\ Is(first) = "field"
             /\ FieldPanics(Type(k - 1).kind, spec.lines[first].field)
             /\ \/ spec.lines[first].comment # "open"
                \/ \E n \in first .. Len(spec.lines) :
                      Comment(first, n) /\ Is(n) = "end_of_comment"

LaidOut ==
    /\ At(1) = 1
    /\ \A k \in DOMAIN spec.parts :
          /\ At(k) \in 1 .. Len(spec.lines) + 1
          /\ spec.parts[k].is = "defect" => k = Len(spec.parts)
          /\ IF Inside(k - 1) THEN IsInside(k, At(k), At(k + 1) - 1)
                              ELSE IsOutside(k, At(k), At(k + 1) - 1)
    /\ ~Inside(Len(spec.parts))

(* What the first parts define, and which of them is in force.             *)
Typedefs(n) == {k \in 1 .. n : spec.parts[k].is = "typedef" /\ Type(k).name # "EndOfSmlMsg"}
Blocks(n) == {k \in 1 .. n : spec.parts[k].is = "closing" /\ ~IsLeftOut(Type(k).name)}
InForce(K) == {k \in K : \A j \in K : j > k => Type(j).name # Type(k).name}

TypedefsRead(n) ==
    /\ DOMAIN typedefs = {Type(k).name : k \in Typedefs(n)}
    /\ \A k \in InForce(Typedefs(n)) : typedefs[Type(k).name] = Type(k).kind

TypesRead(n) ==
    /\ DOMAIN types = {Type(k).name : k \in Blocks(n)}
    /\ \A k \in InForce(Blocks(n)) :
          LET read == types[Type(k).name]
          IN  /\ read.kind = Type(k).kind
              /\ \/ read.fields = Type(k).fields
                 \/ Is(At(k)) = "field" /\ read.fields = Front(Type(k).fields)

HasDefect == \E k \in DOMAIN spec.parts : spec.parts[k].is = "defect"
Refutable == \E n \in DOMAIN types : Ambiguous(types[n]) \/ Unsendable(types[n])

(* However the specification is laid out, with blank lines and comments of *)
(* several lines, a parser is generated for the types it defines: all      *)
(* fields, in order, with their types and whether they are optional.  Only *)
(* a last field may be missing, where its comment also closes the block.   *)
(* The build stops for a defect, or for types that cannot be told apart.   *)
SchemaIsSpecification ==
    LaidOut =>
        LET read == TypedefsRead(Len(spec.parts)) /\ TypesRead(Len(spec.parts))
        IN  /\ genpc = "panic" => HasDefect \/ (read /\ Refutable)
            /\ genpc = "done" => read /\ ~HasDefect /\ ~Refutable

=============================================================================
