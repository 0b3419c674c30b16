---------------------------------- MODULE Lion ----------------------------------
(***************************************************************************)
(* The LION text format in which diagrams are shown to the language model  *)
(* and in which it answers: LionEncoder (lib/lion/encoder.py) and          *)
(* LionDecoder (lib/lion/decoder.py).                                      *)
(*                                                                         *)
(* A text is a sequence of tokens.  Blanks separate them and mean nothing  *)
(* else, so the pretty and the compact form are the same text here.        *)
(* Numbers are integers; keys are identifiers, as those of every           *)
(* dictionary the application encodes.                                     *)
(***************************************************************************)
EXTENDS Naturals, Sequences, SequencesExt, TLC

CONSTANTS
    KeyOrder,   \* the keys, sorted
    Words,      \* strings that are identifiers, neither keywords nor keys
    Numerals,   \* strings of digits
    Dashed,     \* strings that begin like an identifier and go on with a dash
    Dates,      \* strings that begin with a number and go on with a dash
    Spaced      \* strings with a blank, a bracket or a comma

VARIABLES
    data,       \* what is encoded
    text,       \* what dumps returns for it
    back        \* what loads returns for that

lionVars == <<data, text, back>>

-----------------------------------------------------------------------------
\* Values.
Str(s) == [str |-> s]
Num(n) == [num |-> n]
Bool(b) == [bool |-> b]
Null == [null |-> TRUE]
List(s) == [list |-> s]
Dict(f) == [dict |-> f]
Error == [error |-> TRUE]

Is(v, kind) == kind \in DOMAIN v
Keys(v) == SelectSeq(KeyOrder, LAMBDA k : k \in DOMAIN v.dict)

\* Tokens: punctuation, identifiers, numbers, quoted text, and what follows the
\* head of a string that starts like an identifier or a number.
P(c) == <<"punctuation", c>>
W(s) == <<"word", s>>
N(s) == <<"number", s>>
Q(s) == <<"quoted", s>>
Rest(s) == <<"rest", s>>
Colon == P(":")
Comma == P(",")
End == P("")

Commas(parts) ==
    FoldLeft(LAMBDA acc, s : IF acc = <<>> THEN s ELSE acc \o <<Comma>> \o s, <<>>, parts)
Braces(s) == <<P("{")>> \o s \o <<P("}")>>
Brackets(s) == <<P("[")>> \o s \o <<P("]")>>
Parens(s) == <<P("(")>> \o s \o <<P(")")>>

-----------------------------------------------------------------------------
(* The encoder *)

\* A string without special characters as the decoder will see it; Stem stands
\* for what comes before its dash.
Stem == "..."
Bare(s) ==
    CASE s \in Numerals -> <<N(s)>>
      [] s \in Dashed -> <<W(Stem), Rest(s)>>
      [] s \in Dates -> <<N(Stem), Rest(s)>>
      [] OTHER -> <<W(s)>>

\* Variant for RoundTrip: a text that spells null is not quoted.
PrimitiveUnquoted(v) ==
    CASE Is(v, "null") -> <<W("null")>>
      [] Is(v, "bool") -> <<W(IF v.bool THEN "true" ELSE "false")>>
      [] Is(v, "num") -> <<N(v.num)>>
      [] OTHER -> IF v.str \in {""} \cup Spaced THEN <<Q(v.str)>> ELSE Bare(v.str)

Primitive(v) ==
    CASE Is(v, "null") -> <<W("null")>>
      [] Is(v, "bool") -> <<W(IF v.bool THEN "true" ELSE "false")>>
      [] Is(v, "num") -> <<N(v.num)>>
      [] OTHER -> IF v.str \in {"", "null"} \cup Spaced THEN <<Q(v.str)>> ELSE Bare(v.str)

\* A list of dictionaries with the same keys, written as a header and rows.
IsTable(v) ==
    /\ Is(v, "list") /\ v.list # <<>>
    /\ \A i \in DOMAIN v.list :
          Is(v.list[i], "dict") /\ DOMAIN v.list[i].dict = DOMAIN v.list[1].dict

\* How the column k of a table is written, and the keys its header names.
Schema(v, k) ==
    LET cell(i) == v.list[i].dict[k]
        all(kind) == \A i \in DOMAIN v.list : Is(cell(i), kind)
        full == {i \in DOMAIN v.list : Is(cell(i), "list") /\ cell(i).list # <<>>}
        same(S, keys(_)) == \A i, j \in S : keys(i) = keys(j)
        plain == [kind |-> "plain", keys |-> <<>>]
    IN  IF all("dict") /\ same(DOMAIN v.list, LAMBDA i : Keys(cell(i)))
           /\ Keys(cell(1)) # <<>>
        THEN [kind |-> "dict", keys |-> Keys(cell(1))]
        ELSE IF /\ all("list") /\ full # {} /\ \A i \in full : IsTable(cell(i))
                /\ same(full, LAMBDA i : Keys(cell(i).list[1]))
                /\ \A i \in full : Keys(cell(i).list[1]) # <<>>
             THEN [kind |-> "rows", keys |-> Keys(cell(CHOOSE i \in full : TRUE).list[1])]
             ELSE plain

Names(keys) == Commas([i \in DOMAIN keys |-> <<W(keys[i])>>])

Header(v) ==
    LET keys == Keys(v.list[1])
        sub(k) == IF Schema(v, k).kind = "plain" THEN <<>> ELSE Parens(Names(Schema(v, k).keys))
    IN  Parens(Commas([i \in DOMAIN keys |-> <<W(keys[i])>> \o sub(keys[i])]))

RECURSIVE Object(_), Plain(_), Body(_), SubRows(_, _)

Table(v) == Header(v) \o <<Colon>> \o Body(v)

Field(k, v) == <<W(k)>> \o (IF IsTable(v) THEN Table(v) ELSE <<Colon>> \o Plain(v))

Fields(v) == LET keys == Keys(v) IN Commas([i \in DOMAIN keys |-> Field(keys[i], v.dict[keys[i]])])

Object(v) == Braces(Fields(v))

\* _encode_list_standard, with a table as an element
Plain(v) ==
    CASE Is(v, "dict") -> Object(v)
      [] Is(v, "list") -> Brackets(Commas([i \in DOMAIN v.list |->
            IF IsTable(v.list[i]) THEN Table(v.list[i]) ELSE Plain(v.list[i])]))
      [] OTHER -> Primitive(v)

\* A cell without a schema of its own.
Cell(k, v, table) == IF IsTable(v) THEN <<W(k)>> \o table ELSE Plain(v)

Values(cells) == Braces(Commas(cells))

\* _encode_schematized_list_body, whose rows have a plain header
SubRows(v, keys) ==
    LET inner(c) == Keys(c.list[1])
        cell(i, k) == LET c == v.list[i].dict[k]
                      IN  Cell(k, c, Parens(Names(inner(c))) \o <<Colon>> \o SubRows(c, inner(c)))
    IN  Brackets(Commas([i \in DOMAIN v.list |-> Values([j \in DOMAIN keys |-> cell(i, keys[j])])]))

\* _encode_schematized_list_body2
Body(v) ==
    LET cell(i, k) ==
            LET c == v.list[i].dict[k]
                s == Schema(v, k)
            IN  CASE s.kind = "rows" -> SubRows(c, s.keys)
                  [] s.kind = "dict" -> Values([j \in DOMAIN s.keys |-> Plain(c.dict[s.keys[j]])])
                  [] OTHER -> Cell(k, c, Table(c))
        keys == Keys(v.list[1])
    IN  Brackets(Commas([i \in DOMAIN v.list |-> Values([j \in DOMAIN keys |-> cell(i, keys[j])])]))

\* A dictionary at the root has no braces, unless its only value is one itself.
Dumps(v) ==
    LET keys == Keys(v)
        only == v.dict[keys[1]]
    IN  IF keys = <<>> THEN Braces(<<>>)
        ELSE IF Len(keys) = 1 /\ Is(only, "dict") THEN <<W(keys[1])>> \o Object(only)
        ELSE Fields(v)

-----------------------------------------------------------------------------
(* The decoder.  A parser returns a value and the position after it, or Fail *)
(* for an exception, which nobody but the caller of loads catches.           *)

Fail == [v |-> Error, p |-> 0]
Got(v, p) == [v |-> v, p |-> p]

At(T, p) == IF p \in DOMAIN T THEN T[p] ELSE End
Skip(T, p) == IF At(T, p) = Comma THEN p + 1 ELSE p

Keyword(s) ==
    CASE s = "null" -> Null [] s = "true" -> Bool(TRUE) [] s = "false" -> Bool(FALSE)
      [] OTHER -> Str(s)

KeyAt(T, p) == IF At(T, p)[1] \in {"word", "quoted"} THEN T[p][2] ELSE ""

\* _parse_unquoted_value: everything up to one of , ] } :
Unquoted(T, p) ==
    LET stops == {i \in p..Len(T) : T[i] \in {Comma, Colon, P("]"), P("}")}} \cup {Len(T) + 1}
        stop == CHOOSE i \in stops : \A j \in stops : i <= j
        run == SubSeq(T, p, stop - 1)
        t == T[p]
        spelt == {s \in Dashed \cup Dates : run = Bare(s)}
    IN  CASE run = <<>> -> Fail
          [] run = <<N(t[2])>> -> Got(Num(t[2]), stop)
          [] run = <<W(t[2])>> -> Got(Keyword(t[2]), stop)
          [] spelt # {} -> Got(Str(CHOOSE s \in spelt : TRUE), stop)
          [] OTHER -> Got([raw |-> run], stop)

\* _parse_header; nested headers are read and forgotten by _reconstruct_from_schema
RECURSIVE HeaderFrom(_, _, _)
HeaderFrom(T, p, keys) ==
    LET t == At(T, p)
        q == IF At(T, p + 1) = P("(") THEN HeaderFrom(T, p + 2, <<>>).p ELSE p + 1
    IN  CASE t = P(")") -> Got(keys, p + 1)
          [] t[1] = "word" -> HeaderFrom(T, Skip(T, q), Append(keys, t[2]))
          [] OTHER -> Fail

\* _reconstruct_from_schema.  Its branch for dictionaries none of whose keys is in
\* the header is taken by empty ones only: dumps writes no others as rows.
Reconstruct(rows, keys) ==
    LET named(s) == Dict([k \in ToSet(keys) |->
                        LET i == CHOOSE i \in DOMAIN keys : keys[i] = k
                        IN  IF i <= Len(s) THEN s[i] ELSE Null])
        row(v) == CASE Is(v, "list") -> named(v.list)
                    [] Is(v, "dict") -> IF DOMAIN v.dict = {} THEN named(<<>>) ELSE v
                    [] OTHER -> IF keys = <<>> THEN v ELSE Dict(keys[1] :> v)
    IN  List([i \in DOMAIN rows |-> row(rows[i])])

\* The rules below call one another through Parse; acc is what a loop has read.
RECURSIVE Parse(_, _, _, _)

ArrayAt(T, p) == IF At(T, p) = P("[") THEN Parse("array", T, p + 1, <<>>) ELSE Fail

\* A header at p, a colon, which some callers may omit, and rows.
Rows(rows, keys) == IF rows.p = 0 THEN Fail ELSE Got(Reconstruct(rows.v.list, keys), rows.p)
AfterHeader(T, h, strict) ==
    CASE At(T, h.p) = Colon -> Rows(ArrayAt(T, h.p + 1), h.v)
      [] strict -> Fail
      [] OTHER -> Rows(ArrayAt(T, h.p), h.v)
TableAt(T, p, strict) == AfterHeader(T, HeaderFrom(T, p + 1, <<>>), strict)

\* What follows a key.
Entry(T, p) ==
    CASE At(T, p) = P("(") -> TableAt(T, p, TRUE)
      [] At(T, p) = Colon -> Parse("value", T, p + 1, <<>>)
      [] OTHER -> Fail

\* _parse_identifier_or_named
Identifier(T, p) ==
    LET s == T[p][2]
        t == At(T, p + 1)
        e == CASE t = P("{") -> Parse("object", T, p + 1, <<>>)
               [] t = P("(") -> TableAt(T, p + 1, FALSE)
               [] OTHER -> Parse("value", T, p + 2, <<>>)
    IN  IF Keyword(s) # Str(s) \/ t \notin {P("{"), P("("), Colon} THEN Got(Keyword(s), p + 1)
        ELSE IF e.p = 0 THEN Fail ELSE Got(Dict(s :> e.v), e.p)

Value(T, p) ==
    LET t == At(T, p) IN
    CASE t = End -> Got(Null, p)
      [] t = P("{") -> Parse("object", T, p, <<>>)
      [] t = P("[") -> ArrayAt(T, p)
      [] t = P("(") -> TableAt(T, p, FALSE)
      [] t[1] = "quoted" -> Got(Str(t[2]), p + 1)
      [] t[1] = "number" -> Got(Num(t[2]), p + 1)
      [] t[1] = "word" -> Identifier(T, p)
      [] OTHER -> Fail

ArrayFrom(T, p, acc) ==
    LET r == Parse("element", T, p, <<>>) IN
    CASE At(T, p) = P("]") -> Got(List(acc), p + 1)
      [] At(T, p) = End -> Fail
      [] OTHER -> IF r.p = 0 THEN Fail ELSE Parse("array", T, Skip(T, r.p), Append(acc, r.v))

ArrayValue(T, p) ==
    LET t == At(T, p) IN
    CASE t = End -> Got(Null, p)
      [] t[1] = "quoted" -> Got(Str(t[2]), p + 1)
      [] t = P("[") -> ArrayAt(T, p)
      [] t = P("{") -> Parse("object", T, p, <<>>)
      [] OTHER -> Unquoted(T, p)

\* Braces hold the cells of a row when the first thing in them is a number, or a
\* name that no colon follows.
ObjectAt(T, p) ==
    LET t == At(T, p + 1)
        k == KeyAt(T, p + 1)
        r == Parse("element", T, p + 1, <<>>)
    IN  CASE t = P("}") -> Got(Dict(<<>>), p + 2)
          [] t[1] = "number" -> IF r.p = 0 THEN Fail ELSE Parse("tuple", T, r.p, <<r.v>>)
          [] k # "" /\ At(T, p + 2) \in {Comma, P("}")} -> Parse("tuple", T, p + 2, <<Str(k)>>)
          [] OTHER -> Parse("fields", T, p + 1, <<>>)

TupleFrom(T, p, acc) ==
    LET r == Parse("element", T, p + 1, <<>>)
        q == Skip(T, p)
    IN  IF At(T, p) = Comma /\ At(T, q) \notin {P("}"), End}
        THEN IF r.p = 0 THEN Fail ELSE Parse("tuple", T, r.p, Append(acc, r.v))
        ELSE IF At(T, q) = P("}") THEN Got(List(acc), q + 1) ELSE Fail

FieldsFrom(T, p, acc) ==
    LET k == KeyAt(T, p)
        e == Entry(T, p + 1)
    IN  IF At(T, p) = P("}") THEN Got(Dict(acc), p + 1)
        ELSE IF k = "" \/ e.p = 0 THEN Fail
        ELSE Parse("fields", T, Skip(T, e.p), (k :> e.v) @@ acc)

Parse(rule, T, p, acc) ==
    CASE rule = "value" -> Value(T, p)
      [] rule = "array" -> ArrayFrom(T, p, acc)
      [] rule = "element" -> ArrayValue(T, p)
      [] rule = "object" -> ObjectAt(T, p)
      [] rule = "tuple" -> TupleFrom(T, p, acc)
      [] rule = "fields" -> FieldsFrom(T, p, acc)

\* The fields of a root without braces.  A character that no key begins with
\* ends the text: what follows it is ignored.
RECURSIVE More(_, _, _)
More(T, p, acc) ==
    LET q == Skip(T, p)
        k == KeyAt(T, q)
        e == Entry(T, q + 1)
    IN  IF q > Len(T) \/ k = "" THEN Dict(acc)
        ELSE IF e.p = 0 THEN Error ELSE More(T, e.p, (k :> e.v) @@ acc)

Loads(T) ==
    LET r == Value(T, 1) IN
    IF Is(r.v, "dict") /\ r.p # 0 THEN More(T, r.p, r.v.dict) ELSE r.v

-----------------------------------------------------------------------------
LionInit(inputs) == data \in inputs /\ text = <<>> /\ back = Null

Encode == text = <<>> /\ text' = Dumps(data) /\ UNCHANGED <<data, back>>

Decode == text # <<>> /\ back = Null /\ back' = Loads(text) /\ UNCHANGED <<data, text>>

LionNext == Encode \/ Decode

-----------------------------------------------------------------------------
(* Properties *)

\* Where a string or a literal stands decides what becomes of it.
Bent == {"true", "false"} \cup Numerals
Survives(v, place) ==
    CASE place = "field" -> ~(Is(v, "str") /\ v.str \in Bent \cup Dashed \cup Dates)
      [] place = "element" -> ~(Is(v, "str") /\ v.str \in Bent)
      [] place = "first" -> \/ Is(v, "num")
                            \/ Is(v, "str") /\ v.str \notin {""} \cup Dashed \cup Numerals

RECURSIVE Safe(_, _), SafeRows(_)
SafeRows(v) ==
    LET keys == ToSet(Keys(v.list[1]))
        first == Keys(v.list[1])[1]
    IN  /\ \A k \in keys : Schema(v, k).kind = "plain"
        /\ keys # {} => \A i \in DOMAIN v.list :
              LET c == v.list[i].dict IN
              \/ \A k \in keys : IsTable(c[k]) /\ SafeRows(c[k])
              \/ \A k \in keys : ~IsTable(c[k]) /\ Safe(c[k], IF k = first THEN "first" ELSE "element")

Safe(v, place) ==
    CASE place = "first" /\ (Is(v, "dict") \/ Is(v, "list")) -> FALSE
      [] Is(v, "dict") -> \A k \in DOMAIN v.dict : Safe(v.dict[k], "field")
      [] Is(v, "list") -> IF place = "field" /\ IsTable(v) THEN SafeRows(v)
                          ELSE \A i \in DOMAIN v.list :
                                  ~IsTable(v.list[i]) /\ Safe(v.list[i], "element")
      [] OTHER -> Survives(v, place)

\* What loads makes of a text of dumps is what was encoded precisely when the data
\* are Safe (LionEncoder.dumps, LionDecoder.loads), which is to say that
\*   - the value of a field is no string of digits, "true" or "false", and none with
\*     a dash; an element of a list, or a cell behind the first column of a table,
\*     is no string of digits, "true" or "false" (a dash does no harm there);
\*   - a list of dictionaries with the same keys, a table, is the value of a field or
\*     stands in a row of tables only, and is never an element of a list;
\*   - no column of a table has keys of its own: its cells are not all dictionaries
\*     with the same keys, of which there are some, nor all lists, of which some hold
\*     such dictionaries and the others are empty;
\*   - in each row of a table all cells are tables or none is, and then the first is
\*     a number or a string that is not empty, of digits, or an identifier followed
\*     by a dash ("true" is read as a string there, while null, truth values, lists
\*     and dictionaries do not come back).
RoundTrip == back # Null => (back = data <=> Safe(data, "field"))
=============================================================================
