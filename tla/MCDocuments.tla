------------------------------ MODULE MCDocuments ------------------------------
(***************************************************************************)
(* The documents that go to the tutor and what comes back: the LION codec, *)
(* the diagram with its validator, the canvas, the replies of the service. *)
(* They have no state in common; one moves in a behaviour, the others are  *)
(* where they began.                                                       *)
(***************************************************************************)
EXTENDS Lion, Validator, Canvas, Replies

-----------------------------------------------------------------------------
(* Data to encode *)

TwoKeys == <<"a", "b">>

Cells ==
    {Str(s) : s \in Words \cup Numerals \cup Dashed \cup Dates \cup Spaced \cup {"true", "null", ""}}
    \cup {Num("7"), Bool(TRUE), Null}
Nested ==
    {List(<<>>), List(<<Str("a-b")>>), List(<<List(<<Str("ab")>>)>>),
     Dict(<<>>), Dict("a" :> Str("ab")),
     List(<<Dict("a" :> Str("ab"))>>), List(<<Dict("a" :> Num("7")), Dict("a" :> Str("x y"))>>),
     List(<<Dict("a" :> Bool(TRUE)), Num("7")>>), List(<<List(<<Dict("a" :> Str("ab"))>>)>>),
     List(<<Dict(<<>>)>>)}
Few ==
    {Str("ab"), Null, Num("7"), Dict("a" :> Str("ab")), Dict("b" :> Num("7")), List(<<>>),
     List(<<Dict("a" :> Str("ab"))>>)}
DictsOf(S) == {Dict(f) : f \in UNION {[K -> S] : K \in SUBSET ToSet(TwoKeys)}}

\* Fields of every kind, tables of one row with cells of every kind, tables of two
\* rows, and a table followed by a field.
Inputs ==
    DictsOf(Cells \cup Nested)
    \cup {Dict("a" :> List(<<r>>)) : r \in DictsOf(Cells \cup Nested)}
    \cup {Dict("b" :> List(<<r, s>>)) : r, s \in DictsOf(Few)}
    \cup {Dict("a" :> List(<<r>>) @@ "b" :> Str("ab")) : r \in DictsOf(Few)}

-----------------------------------------------------------------------------
(* Diagrams *)

CONSTANTS p1, p2, n1, n2, n3
ThreeIds == <<n1, n2, n3>>

PoolAs(drawn, lanes) == [named |-> TRUE, drawn |-> drawn, lanes |-> lanes]
SomeLayouts ==
    {[p \in {p1, p2} |-> PoolAs("expanded", <<>>)],
     [p \in {p1, p2} |-> IF p = p1 THEN PoolAs("", <<TRUE, FALSE>>) ELSE PoolAs("collapsed", <<>>)],
     [p \in {p1} |-> [named |-> FALSE, drawn |-> "", lanes |-> <<TRUE>>]]}

Draw(tag, at, named, def) == [tag |-> tag, at |-> at, named |-> named, def |-> def, host |-> n2]
SomeElements ==
    {Draw("startEvent", p1, TRUE, "none"), Draw("endEvent", p1, TRUE, "none"),
     Draw("receiveTask", p2, TRUE, "none"), Draw("task", p1, TRUE, "none"),
     Draw("exclusiveGateway", p1, FALSE, "none"), Draw("boundaryEvent", p1, TRUE, "full"),
     Draw("intermediateCatchEvent", p1, TRUE, "bare"), Draw("subProcess", p1, TRUE, "none"),
     Draw("callActivity", p1, TRUE, "none"), Draw("subProcess", n1, TRUE, "none"),
     Draw("startEvent", n2, TRUE, "none")}

-----------------------------------------------------------------------------
(* Batches of operations and reports for the canvas *)

CONSTANTS s1, s2

Do(op, id) == [op |-> op, id |-> id, to |-> <<>>]
Into(op, id, to) == [op |-> op, id |-> id, to |-> to]
SomeBatches ==
    {[array |-> <<Into("draw", s1, <<s2>>), Do("participate", s2)>>],
     [array |-> <<Do("update", s1), Do("delete", <<s1, s2>>), Do("connect", <<s2, s1>>), Do("draw", s1)>>],
     [groups |-> [remove |-> <<Do("remove", s2)>>, connect |-> <<Do("connect", <<s1, s2>>)>>]],
     [groups |-> [draw |-> <<>>]],
     [groups |-> [clear |-> <<Do("clear", s1)>>, create |-> <<Into("create", s2, <<s2>>)>>]]}

Told(el, n) == [el |-> el, text |-> n]
SomeReports == {<<>>, <<Told(s1, 1), Told(s2, 2)>>, <<Told(<<s1, s2>>, 3)>>}

-----------------------------------------------------------------------------
(* Answers of the service *)

Said(key, form) == [key |-> key, form |-> form]
Menu ==
    {Said("message", "quoted"), Said("message", "bare"), Said("phase", "bare"), Said("", "more"),
     Said("issues", "quoted"), Said("complete", "quoted"), Said("bpmn_ops", "quoted")}

Raw(form, el, severity) == [form |-> form, el |-> el, severity |-> severity]
RawIssues ==
    {<<Raw("row", "a", "info"), Raw("object", "a", "major"), Raw("row", "a", "critical"),
       Raw("object", "", "syntax"), Raw("row", "b", "odd"), Raw("other", "b", "syntax")>>,
     <<Raw("object", "a", "semantic"), Raw("row", "b", "syntax"), Raw("row", "a", "warning")>>}

SomeAnswers == [lines : UNION {[1..n -> Menu] : n \in 1..3}, issues : RawIssues]

-----------------------------------------------------------------------------
VARIABLE part   \* the part that moves

documentsVars == <<lionVars, doc, canvasVars, repliesVars, part>>

DocumentsInit ==
    /\ part \in {"lion", "diagram", "canvas", "replies"}
    /\ LionInit(IF part = "lion" THEN Inputs ELSE {Null})
    /\ DiagramInit /\ (part # "diagram" => doc.pools = [p \in {p1, p2} |-> PoolAs("expanded", <<>>)])
    /\ CanvasInit /\ RepliesInit

DocumentsNext ==
    /\ UNCHANGED part
    /\ IF part = "lion" THEN LionNext ELSE UNCHANGED lionVars
    /\ IF part = "diagram" THEN DiagramNext ELSE UNCHANGED doc
    /\ IF part = "canvas" THEN CanvasNext ELSE UNCHANGED canvasVars
    /\ IF part = "replies" THEN RepliesNext ELSE UNCHANGED repliesVars

DocumentsSpec == DocumentsInit /\ [][DocumentsNext]_documentsVars
=============================================================================
