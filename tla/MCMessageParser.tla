-------------------------- MODULE MCMessageParser --------------------------
(* A specification like the one of the meters, small: one type of each     *)
(* kind, in several layouts, with defects; messages that follow it or not. *)
EXTENDS MessageParser

Field(name, tag, ty) == [name |-> name, tag |-> tag, ty |-> ty, optional |-> FALSE]
Opt(name, ty) == [name |-> name, tag |-> NoTag, ty |-> ty, optional |-> TRUE]
F(name, ty) == Field(name, NoTag, ty)

L(is, name, ty, field, comment) ==
    [is |-> is, name |-> name, ty |-> ty, field |-> field, comment |-> comment]
Plain(is) == L(is, "", "", F("", ""), "none")
Start(name, ty) == L("start", name, ty, F("", ""), "none")
InField(f, comment) == L("field", "", "", f, comment)

-----------------------------------------------------------------------------
MessageT == <<F("transactionId", "Octet_String"), F("messageBody", "SML_Body"),
              F("crc16", "Unsigned16"), F("endOfSmlMsg", "EndOfSmlMsg")>>
BodyT == <<Field("open", 1, "SML_Signature"), Field("getList", 2, "SML_List")>>
ListT == <<F("entry", "SML_Entry")>>
EntryT == <<F("objName", "Octet_String"), Opt("status", "SML_Status"),
            Opt("scaler", "Integer8"), F("value", "SML_Value")>>
StatusT == <<F("a", "Unsigned8"), F("b", "Unsigned32")>>
ValueT == <<F("flag", "Boolean"), F("bytes", "Octet_String"), F("u8", "Unsigned8"),
            F("u32", "Unsigned32"), F("list", "SML_Time")>>
TimeT == <<Field("secIndex", 1, "Unsigned32"), Field("flag", 2, "Boolean")>>

(* A part of a text: its lines, and the fields they define.                *)
Part(is, lines, fields) == [is |-> is, lines |-> lines, fields |-> fields]
Other == <<Part("prose", <<Plain("other")>>, << >>)>>
Blank == <<Part("blank", <<Plain("blank")>>, << >>)>>
Close == <<Part("closing", <<Plain("close")>>, << >>)>>
Typed(name, ty) == <<Part("typedef", <<Start(name, ty), Plain("other")>>, << >>)>>
Open(name, kind) == <<Part("header", <<Start(name, kind), Plain("open")>>, << >>)>>
Dense(fields) == [i \in DOMAIN fields |-> Part("field", <<InField(fields[i], "none")>>, <<fields[i]>>)]
LeftOut(f) == <<Part("field", <<InField(f, "none")>>, << >>)>>
Commented(f, is, end) ==
    <<Part(is, <<InField(f, "open"), InField(F("siehe", "unten"), "none"), Plain(end)>>, <<f>>)>>
Block(name, kind, fields) == Open(name, kind) \o Dense(fields) \o Close
(* The text of parts.                                                      *)
TypeOf(old, p) ==
    IF p.is \in {"typedef", "header"} THEN NewBlock(p.lines[1].name, p.lines[1].ty)
    ELSE [old EXCEPT !.fields = @ \o p.fields]

Add(text, p) ==
    LET old == IF text.parts = << >> THEN NewBlock("none", "SEQUENCE") ELSE Last(text.parts).type
    IN  [lines |-> text.lines \o p.lines,
         parts |-> Append(text.parts, [is |-> p.is, at |-> Len(text.lines) + 1, type |-> TypeOf(old, p)])]

Text(parts) == FoldLeft(Add, [lines |-> << >>, parts |-> << >>], parts)

-----------------------------------------------------------------------------
Rest ==
    Block("SML_Status", "IMPLICIT_CHOICE", StatusT)
    \o Block("SML_Value", "IMPLICIT_CHOICE", ValueT)
    \o Block("SML_Time", "CHOICE", TimeT)
    \o Block("SML_List", "SEQUENCE_OF", ListT)
    \o Typed("SML_Signature", "Octet_String")

Entry == Block("SML_Entry", "SEQUENCE", EntryT)
Body == Block("SML_Body", "CHOICE", BodyT)
Message == Block("SML_Message", "SEQUENCE", MessageT)
Plainly == Message \o Body \o Entry \o Rest

(* Comments, blank lines, what is not supported, and what is left out; a   *)
(* type that is defined twice.                                             *)
Roomy ==
    LET body == Open("SML_Body", "CHOICE") \o Blank
                  \o <<Part("field", <<InField(BodyT[1], "closed")>>, <<BodyT[1]>>)>>
                  \o LeftOut(Field("SetProcParameterResponse", 7, "SML_Tree"))
                  \o LeftOut(Field("cosem", 8, "SML_GetCosemResponse"))
                  \o Commented(BodyT[2], "field", "end_of_comment") \o Close
        boolean == Open("Boolean", "SEQUENCE") \o Dense(<<F("true", "byte")>>)
                     \o Commented(F("false", "byte"), "closing", "closing_comment")
    IN  Other \o Message \o Typed("EndOfSmlMsg", "0x00") \o Block("SML_Body", "SEQUENCE", ListT)
        \o body \o boolean \o Entry \o Block("SML_CosemValue", "SEQUENCE_OF", ListT) \o Rest

(* The comment of SML_Entry's last field also closes the block.            *)
Closed ==
    Message \o Body \o Open("SML_Entry", "SEQUENCE") \o Dense(EntryT)
    \o Commented(Opt("sign", "SML_Signature"), "closing", "closing_comment") \o Rest

Cut(lines) == <<Part("defect", lines, << >>)>>
Defect(lines) == Cut(lines \o Text(Plainly).lines)

(* What the build refuses: a line, a kind and a field that cannot be, and  *)
(* a text that ends too early.                                             *)
Broken ==
    {Open("SML_Odd", "CHOICE") \o Defect(Dense(<<F("a", "Boolean")>>)[1].lines),
     Open("SML_Odd", "SEQUENCE") \o Defect(Dense(<<Field("a", 1, "Boolean")>>)[1].lines),
     Open("SML_Odd", "CHOICE") \o Defect(Commented(F("a", "Boolean"), "", "end_of_comment")[1].lines),
     Open("SML_Odd", "SEQUENCE") \o Defect(Other[1].lines),
     Open("SML_Odd", "SEQUENCE") \o Defect(<<InField(F("a", "Boolean"), "open")>>),
     Defect(Open("SML_Odd", "SET")[1].lines),
     Plainly \o Cut(<<Start("SML_Odd", "CHOICE")>>),
     Plainly \o SubSeq(Message, 1, 2) \o Cut(<< >>)}

(* Types that cannot be told apart, or are defined nowhere.                *)
Ambiguity(kind, fields) == Block("SML_Odd", kind, fields) \o Plainly

Ambiguities ==
    {Ambiguity(kind, <<F("a", "SML_Time"), F("b", "SML_List")>>) :
        kind \in {"IMPLICIT_CHOICE", "SEQUENCE_OF"}}
    \union {Ambiguity("IMPLICIT_CHOICE", <<F("a", "Boolean"), F("b", "Boolean")>>),
            Ambiguity("IMPLICIT_CHOICE", <<F("a", "Boolean"), F("b", "SML_Nowhere")>>)}

Sound == {Plainly, Roomy, Closed}

MCSpecifications == {Text(parts) : parts \in Sound \union Broken \union Ambiguities}

-----------------------------------------------------------------------------
U(len, value) == Item("Unsigned", len, value, << >>)
I(len) == Item("Integer", len, 0, << >>)
S(len) == Item("String", len, 0, << >>)
B(len) == Item("Boolean", len, 0, << >>)
ListOf(items) == Item("List", Len(items), 0, items)

Time == ListOf(<<U(1, 1), U(3, 0)>>)

Msg(body) == <<S(2), body, U(2, 0), EndMark>>
WithEntries(entries) == Msg(ListOf(<<U(1, 2), ListOf(entries)>>))
Short(value) == ListOf(<<S(6), None, None, value>>)
Full(value) == ListOf(<<S(6), U(3, 0), I(1), value>>)

Good == {Msg(ListOf(<<U(1, 1), S(1)>>)),
         WithEntries(<<Full(U(4, 0)), Short(Time)>>),
         WithEntries(<<Short(B(1)), Full(S(3))>>)}

(* Cut short, with no end or an early one, and with the wrong item in every*)
(* place.                                                                  *)
Bad == {<<S(2)>>, <<U(1, 0), S(2), U(1, 0), U(1, 0)>>,
        <<None, None, None, EndMark>>,
        Msg(ListOf(<<U(1, 2)>>)), Msg(ListOf(<<None, S(1)>>)), Msg(ListOf(<<S(1), S(1)>>)),
        Msg(ListOf(<<U(8, 2), S(1)>>)), Msg(ListOf(<<U(4, 3), S(1)>>)),
        Msg(ListOf(<<U(2, 1), U(1, 0)>>)), <<S(2), EndMark>>,
        WithEntries(<<S(1), None, ListOf(<<S(6), None>>)>>),
        WithEntries(<<Short(U(2, 0)), Full(None)>>),
        WithEntries(<<Full(B(2)), Full(ListOf(<< >>))>>),
        WithEntries(<<Full(ListOf(<<U(1, 1), U(2, 0)>>)), ListOf(<<S(6), S(1), I(4), I(1)>>)>>)}

MCDocuments == Good \union Bad

Within(items) == UNION {Range(x.items) : x \in items}
MCItems ==
    LET top     == UNION {Range(d) : d \in MCDocuments}
        bodies  == Within(top)
        entries == Within(bodies)
        fields  == Within(entries)
    IN  UNION {top, bodies, entries, fields, Within(fields)}

(* What the good messages are made of.                                     *)
Times == {Time, ListOf(<<U(1, 2), B(1)>>)}
Values == {B(1), S(3), U(4, 0)} \union Times
Entries == {Short(v) : v \in Values} \union {Full(v) : v \in Values}
Lists == {ListOf(<<Full(U(4, 0)), Short(Time)>>), ListOf(<<Short(B(1)), Full(S(3))>>)}
Bodies == {ListOf(<<U(1, 1), S(1)>>)} \union {ListOf(<<U(1, 2), l>>) : l \in Lists}

MCSent ==
    UNION {{S(1), S(2), S(3), S(6)} \X {"Octet_String"},
           {U(1, 0)} \X {"Unsigned8"}, {U(2, 0)} \X {"Unsigned16"},
           {U(3, 0), U(4, 0)} \X {"Unsigned32"}, {I(1)} \X {"Integer8"},
           {B(1)} \X {"Boolean"},
           {U(3, 0)} \X {"SML_Status"}, Times \X {"SML_Time"}, Values \X {"SML_Value"},
           Entries \X {"SML_Entry"}, Lists \X {"SML_List"}, Bodies \X {"SML_Body"}}
=============================================================================
