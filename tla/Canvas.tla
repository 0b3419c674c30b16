--------------------------------- MODULE Canvas ---------------------------------
(***************************************************************************)
(* The student's canvas (static/js/bpmn.js, the listeners of task.js): the *)
(* operations the tutor sends are carried out one timer at a time while    *)
(* the student goes on modelling, and the issues the tutor reports are     *)
(* marked on the elements until they are dismissed.                        *)
(*                                                                         *)
(* One page, one session kept in memory.  The rules of bpmn-js and what a  *)
(* pool contains are left open: an operation may be refused or fail, and   *)
(* the removal of a pool may take any other shapes along.  That bpmn-js    *)
(* joins the flows of an element removed from between two others is left   *)
(* out: a flow is named by its ends.                                       *)
(***************************************************************************)
EXTENDS Naturals, SequencesExt

CONSTANTS
    Shapes,         \* identifiers of shapes
    Pools,          \* those of pools and sub-processes
    Batches,        \* the bpmn_ops of an answer
    Reports,        \* the issues of an answer: sequences of [el |-> ..., text |-> ...]
    MaxAnswers,     \* bound: answers
    MaxTouches,     \* bound: edits of the student
    NoBadge

ASSUME CanvasAssumption == MaxAnswers \in Nat /\ MaxTouches \in Nat /\ Pools \subseteq Shapes

\* What the tutor sends, whatever it means: lists of operations and of issues.
Links == Shapes \X Shapes
Targets == Shapes \cup Links
ORDER == <<"clear", "participate", "draw", "create", "rename", "update", "resize", "move",
           "replace", "connect", "delete", "remove">>
Operation == [op : ToSet(ORDER), id : Targets, to : Seq(Shapes)]

ASSUME MessageAssumption ==
    /\ \A raw \in Batches :
          IF "array" \in DOMAIN raw THEN raw.array \in Seq(Operation)
          ELSE \A op \in DOMAIN raw.groups : raw.groups[op] \in Seq(Operation)
    /\ Reports \subseteq Seq([el : Targets, text : Nat])
    /\ Shapes \cap Links = {}

VARIABLES
    shapes, links,  \* the element registry; a link is named by its ends
    jobs,           \* the batches whose timers run
    aiIsModeling,   \* window._aiIsModeling
    current,        \* currentIssues
    badges,         \* the markers on the canvas: [issue, at], at counted from 1
    popup,          \* the badge whose details are open
    last,           \* last_issues of the session
    down, up,       \* messages on their way to the page, indexes to the server
    inStep,         \* for DismissedAlike only: see there
    answers, touches

drawing == <<shapes, links, jobs, aiIsModeling>>
marking == <<current, badges, popup>>
wires == <<last, down, up, inStep>>
counts == <<answers, touches>>
canvasVars == <<drawing, marking, wires, counts>>

LinksAt(S) == {l \in links : l[1] \in S \/ l[2] \in S}

-----------------------------------------------------------------------------
\* The items of a list at the given places, in their order (Array.filter).
Picked(list, places) ==
    LET upto[n \in 0..Len(list)] ==
            IF n = 0 THEN <<>>
            ELSE IF n \in places THEN Append(upto[n - 1], list[n]) ELSE upto[n - 1]
    IN  upto[Len(list)]

-----------------------------------------------------------------------------
(* The order of a batch *)

\* Operations are [op, id, to]; a batch is [array |-> Seq(operations)] or
\* [groups |-> [names -> Seq(operations)]].
NormalizeOps(raw) ==
    IF "array" \in DOMAIN raw THEN raw.array
    ELSE FlattenSeq([i \in DOMAIN ORDER |->
             IF ORDER[i] \in DOMAIN raw.groups THEN raw.groups[ORDER[i]] ELSE <<>>])

ExpandConnectTo(ops) ==
    FlattenSeq([i \in DOMAIN ops |->
        <<ops[i]>> \o
        IF ops[i].op \notin {"draw", "create"} THEN <<>>
        ELSE [j \in DOMAIN ops[i].to |->
                 [op |-> "connect", id |-> <<ops[i].id, ops[i].to[j]>>, to |-> <<>>]]])

IsShapeOp(o) == o.op \in {"participate", "draw", "create"}
IsAfterOp(o) == ~IsShapeOp(o)

\* Variant for BatchBuilt: in the order in which they come.
AsTheyCome(raw) == ExpandConnectTo(NormalizeOps(raw))

Ordered(raw) ==
    LET expanded == ExpandConnectTo(NormalizeOps(raw))
        shapeOps == {i \in DOMAIN expanded : IsShapeOp(expanded[i])}
    IN  Picked(expanded, shapeOps) \o Picked(expanded, DOMAIN expanded \ shapeOps)

-----------------------------------------------------------------------------
(* Issues *)

ShowIssues(issues) ==
    /\ current' = issues
    /\ badges' = {[issue |-> issues[i], at |-> i] :
                    i \in {j \in DOMAIN issues : issues[j].el \in shapes \cup links}}
    /\ popup' = NoBadge

Without(gone) == Picked(current, {i \in DOMAIN current : current[i].el \notin gone})

\* Variant for MarkersLive: only the list is filtered.
ListOnly(gone) == current' = Without(gone) /\ UNCHANGED <<badges, popup>>

\* clearIssueForElement, for each of the elements: what stays keeps its index,
\* and the open details stay open as long as any issue stays.
ClearIssuesFor(gone) ==
    /\ current' = Without(gone)
    /\ badges' = {b \in badges : b.issue.el \notin gone}
    /\ popup' = IF current' = <<>> /\ gone # {} THEN NoBadge ELSE popup

-----------------------------------------------------------------------------
(* What the operations do *)

\* The shapes an operation removes: a shape drawn again is removed first.
Targeted(o) ==
    CASE o.op = "clear" -> shapes
      [] IsShapeOp(o) \/ o.op \in {"delete", "remove"} -> {o.id} \cap shapes
      [] OTHER -> {}

\* What may go along with them.
Contents(o) ==
    IF Targeted(o) \cap Pools = {} THEN {{}} ELSE SUBSET (shapes \ Targeted(o))

\* The elements an operation removes, those inside the shapes among them.
Removed(o, inside) ==
    LET those == Targeted(o) \cup inside
    IN  those \cup LinksAt(those) \cup
        (IF o.op \in {"delete", "remove"} THEN {o.id} \cap links ELSE {})

\* A flow is drawn when both its ends are there; one that exists is left alone.
Added(o) ==
    CASE IsShapeOp(o) /\ o.id \in Shapes -> {o.id}
      [] (IsShapeOp(o) \/ o.op = "connect") /\ o.id \in Links ->
             {l \in {o.id} : l[1] \in shapes /\ l[2] \in shapes}
      [] OTHER -> {}

\* What an operation is to draw or connect.
Asked(o) == IF IsShapeOp(o) \/ o.op = "connect" THEN {o.id} ELSE {}

Relabelled(o) == IF o.op \in {"rename", "update"} THEN {o.id} \cap (shapes \cup links) ELSE {}

\* The listeners of task.js clear the markers of what is removed or relabelled.
Change(gone, new, relabelled) ==
    LET all == ((shapes \cup links) \ gone) \cup new
    IN  /\ shapes' = all \cap Shapes
        /\ links' = all \cap Links
        /\ ClearIssuesFor(gone \cup relabelled)
        /\ inStep' = (inStep /\ current' = current)

ExecOne(o, inside) == Change(Removed(o, inside), Added(o), Relabelled(o))

\* The catch of execOne, a flow that modeling.connect refuses, a label that is not
\* given: nothing comes of the operation, but what it removes first may be gone.
Failed(o, inside) ==
    \/ inside = {} /\ Change({}, {}, {})
    \/ IsShapeOp(o) /\ Change(Removed(o, inside), {}, {})

-----------------------------------------------------------------------------
CanvasInit ==
    /\ shapes = {} /\ links = {} /\ jobs = <<>> /\ aiIsModeling = FALSE
    /\ current = <<>> /\ badges = {} /\ popup = NoBadge
    /\ last = <<>> /\ down = <<>> /\ up = <<>> /\ inStep = TRUE /\ answers = 0 /\ touches = 0

\* The server: an answer with issues replaces last_issues, one without leaves them.
Answer(issues, sent) ==
    /\ down = <<>> /\ answers < MaxAnswers
    /\ last' = IF issues = <<>> THEN last ELSE issues
    /\ down' = (IF issues = <<>> THEN <<>> ELSE <<[issues |-> issues]>>) \o sent
    /\ answers' = answers + 1
    /\ inStep' = IF issues = <<>> THEN inStep ELSE up = <<>>
    /\ UNCHANGED <<drawing, marking, up, touches>>

\* The page runs one handler or timer at a time; without the cursor the drawing
\* of a batch is part of the handler.
Drawing == {i \in DOMAIN jobs : /\ jobs[i].atOnce /\ jobs[i].todo # <<>>
                                /\ IsShapeOp(Head(jobs[i].todo))}
Free == Drawing = {}

ReceiveIssues ==
    /\ Free /\ down # <<>> /\ "issues" \in DOMAIN Head(down)
    /\ ShowIssues(Head(down).issues)
    /\ down' = Tail(down)
    /\ UNCHANGED <<drawing, last, up, inStep, counts>>

\* executeBpmnOps: the operations are put on timers.  For the properties only:
\* undisturbed, nothing else has changed the canvas since; lost, what has gone along
\* with a shape the batch removed, and what it failed to draw or connect.
ReceiveOps(cursor) ==
    LET ops == Ordered(Head(down).ops)
        job == [asked |-> Head(down).ops, todo |-> ops, atOnce |-> ~cursor,
                undisturbed |-> jobs = <<>>, lost |-> {}]
    IN  /\ Free /\ down # <<>> /\ "ops" \in DOMAIN Head(down)
        /\ aiIsModeling' = TRUE
        /\ jobs' = IF ops = <<>> THEN jobs
                   ELSE Append([i \in DOMAIN jobs |-> [jobs[i] EXCEPT !.undisturbed = FALSE]], job)
        /\ down' = Tail(down)
        /\ UNCHANGED <<shapes, links, marking, last, up, inStep, counts>>

Advance(i, lost) ==
    LET job == jobs[i]
    IN  jobs' = [jobs EXCEPT ![i] = [job EXCEPT !.todo = Tail(job.todo), !.lost = lost]]

\* Whatever becomes of an operation, the next one has its turn.
RunTimer(i) ==
    /\ jobs[i].todo # <<>> /\ Drawing \subseteq {i}
    /\ LET o == Head(jobs[i].todo) IN \E inside \in Contents(o) :
          \/ ExecOne(o, inside) /\ Advance(i, (jobs[i].lost \cup inside) \ Added(o))
          \/ Failed(o, inside) /\ Advance(i, jobs[i].lost \cup inside \cup Asked(o))
    /\ UNCHANGED <<aiIsModeling, last, down, up, counts>>

\* Variant for OwnOpsStamped: the flag falls as soon as the shapes are drawn.
FallsEarly(i) ==
    /\ Free
    /\ jobs[i].todo = <<>> \/ (IsAfterOp(Head(jobs[i].todo)) /\ aiIsModeling)
    /\ aiIsModeling' = FALSE
    /\ jobs' = IF jobs[i].todo = <<>> THEN RemoveAt(jobs, i) ELSE jobs
    /\ UNCHANGED <<shapes, links, marking, wires, counts>>

\* The timer behind the last operation.
Settle(i) ==
    /\ Free /\ jobs[i].todo = <<>>
    /\ aiIsModeling' = FALSE
    /\ jobs' = RemoveAt(jobs, i)
    /\ UNCHANGED <<shapes, links, marking, wires, counts>>

\* The student draws, connects, removes or relabels.
Touch(o) ==
    /\ Free /\ touches < MaxTouches
    /\ IsShapeOp(o) => o.id \notin shapes
    /\ \E inside \in Contents(o) : ExecOne(o, inside)
    /\ jobs' = [i \in DOMAIN jobs |-> [jobs[i] EXCEPT !.undisturbed = FALSE]]
    /\ touches' = touches + 1
    /\ UNCHANGED <<aiIsModeling, last, down, up, answers>>

OpenBadge(b) ==
    /\ Free /\ popup = NoBadge
    /\ popup' = b
    /\ UNCHANGED <<drawing, current, badges, wires, counts>>

CloseBadge ==
    /\ Free /\ popup # NoBadge
    /\ popup' = NoBadge
    /\ UNCHANGED <<drawing, current, badges, wires, counts>>

\* dismissIssue goes by the index that the badge was given.
DismissIssue ==
    /\ Free /\ popup # NoBadge /\ popup.at \in DOMAIN current /\ up = <<>>
    /\ up' = <<popup.at>>
    /\ ShowIssues(RemoveAt(current, popup.at))
    /\ inStep' = (inStep /\ \A i \in DOMAIN down : "issues" \notin DOMAIN down[i])
    /\ UNCHANGED <<drawing, last, down, counts>>

\* Variant for DismissedAlike: the first index counts as none.
ZeroIsNone ==
    /\ up # <<>>
    /\ last' = IF Head(up) \in DOMAIN last \ {1} THEN RemoveAt(last, Head(up)) ELSE last
    /\ up' = Tail(up)
    /\ UNCHANGED <<drawing, marking, down, inStep, counts>>

\* handle_dismiss_issue, at the server.
DismissAtServer ==
    /\ up # <<>>
    /\ last' = IF Head(up) \in DOMAIN last THEN RemoveAt(last, Head(up)) ELSE last
    /\ up' = Tail(up)
    /\ UNCHANGED <<drawing, marking, down, inStep, counts>>

Touchable ==
    {[op |-> "draw", id |-> s, to |-> <<>>] : s \in Shapes} \cup
    {[op |-> o, id |-> x, to |-> <<>>] : o \in {"delete", "rename"}, x \in shapes \cup links} \cup
    {[op |-> "connect", id |-> l, to |-> <<>>] : l \in (shapes \X shapes) \ links}

CanvasNext ==
    \/ \E issues \in Reports, sent \in {<<>>} \cup {<<[ops |-> raw]>> : raw \in Batches} :
           issues \o sent # <<>> /\ Answer(issues, sent)
    \/ ReceiveIssues
    \/ \E cursor \in BOOLEAN : ReceiveOps(cursor)
    \/ \E i \in DOMAIN jobs : RunTimer(i) \/ Settle(i)
    \/ \E o \in Touchable : Touch(o)
    \/ \E b \in badges : OpenBadge(b)
    \/ CloseBadge \/ DismissIssue \/ DismissAtServer

CanvasSpec == CanvasInit /\ [][CanvasNext]_canvasVars

-----------------------------------------------------------------------------
(* Properties *)

Operations(job) == ToSet(ExpandConnectTo(NormalizeOps(job.asked)))
Deleted(job) == {o.id : o \in {p \in Operations(job) : p.op \in {"delete", "remove"}}}
Clears(job) == \E o \in Operations(job) : o.op = "clear"
Exempt(job) == Deleted(job) \cup job.lost
Drawn(job) == {o.id : o \in {p \in Operations(job) : IsShapeOp(p)}} \cap (Shapes \ Exempt(job))
Connected(job) ==
    {o.id : o \in {p \in Operations(job) : p.op = "connect"}} \cap
        ((Drawn(job) \X Drawn(job)) \ Exempt(job))
Built(job) == Drawn(job) \subseteq shapes /\ Connected(job) \subseteq links

\* In whatever order and form the tutor names its operations: a batch that
\* nothing else disturbs leaves behind the shapes and the flows between them
\* that it asks for.  Excepted are what it deletes itself, what goes along with a
\* pool that it deletes or draws anew, and what fails or is refused: each of these
\* takes nothing away from the rest of the batch (executeBpmnOps, execOne).
BatchBuilt ==
    \A i \in DOMAIN jobs :
        jobs[i].undisturbed /\ jobs[i].todo = <<>> /\ ~Clears(jobs[i]) => Built(jobs[i])

\* Of a batch no other one meets, every operation is recorded as the tutor's
\* (the flag that the listeners of task.js read).
OwnOpsStamped ==
    jobs # <<>> /\ (\A i \in DOMAIN jobs : jobs[i].undisturbed) => aiIsModeling

\* Every marker is on an element that exists and belongs to an issue that is
\* still listed, whoever removes elements or answers meanwhile (task.js, "Clear
\* issue markers only for elements that are actually removed").
MarkersLive == \A b \in badges : b.issue.el \in shapes \cup links /\ b.issue \in ToSet(current)

\* The page and the session list the same issues whenever no message is on its
\* way, so that one that is dismissed is not raised again; unless since the last
\* report an edit has cleared an issue in the page alone or a dismissal has
\* crossed a report (~inStep).
DismissedAlike == inStep /\ down = <<>> /\ up = <<>> => current = last
=============================================================================
