--------------------------------- MODULE Diagram ---------------------------------
(***************************************************************************)
(* A BPMN document as the student's editor exports it, and the model of it *)
(* that the tutor is shown (BPMNParser, app/services/bpmn_parser.py).      *)
(*                                                                         *)
(* Each process has at most one pool; a flow is named by its ends, and the *)
(* references of an element to its flows are those flows.  Data objects    *)
(* and annotations, to which no flow leads, are left out.                  *)
(***************************************************************************)
EXTENDS Naturals, FiniteSets, Sequences, TLC

CONSTANTS
    Processes,
    Layouts,    \* what the pools of a document may look like
    Elements,   \* elements that may be drawn
    Ids,        \* the identifiers of the elements, in the order they are used
    Missing,    \* an identifier of nothing
    MaxFlows    \* bound: flows of a document

VARIABLE
    doc         \* the document

-----------------------------------------------------------------------------
TaskTags == {"task", "userTask", "serviceTask", "sendTask", "receiveTask",
             "manualTask", "businessRuleTask", "scriptTask"}
EventTags == {"startEvent", "endEvent", "intermediateCatchEvent",
              "intermediateThrowEvent", "boundaryEvent"}
GatewayTags == {"exclusiveGateway", "parallelGateway", "inclusiveGateway",
                "eventBasedGateway", "complexGateway"}
FlowNodeTags == TaskTags \cup EventTags \cup GatewayTags

\* What bpmn-js draws and flows lead to, and the parser has no list for: the
\* activities that have elements of their own, and the call of another process.
Containers == {"subProcess", "transaction", "adHocSubProcess"}
Unlisted == Containers \cup {"callActivity"}

\* The pool of a process: how it is drawn ("expanded", "collapsed", or "" when
\* the shape does not say), and whether each of its lanes has a name.
Pool == [named : BOOLEAN, drawn : {"expanded", "collapsed", ""}, lanes : Seq(BOOLEAN)]

\* at: the process or sub-process it lies in; def: the definition of an event,
\* of the kinds its rule asks for ("bare" without an element inside, "full"),
\* or of "another" kind; host: what a boundary event is attached to.
Known == {Ids[i] : i \in DOMAIN Ids}
Element == [tag : FlowNodeTags \cup Unlisted, at : Processes \cup Known, named : BOOLEAN,
            def : {"none", "bare", "full", "another"}, host : Known]

ASSUME DiagramAssumption ==
    /\ MaxFlows \in Nat
    /\ \A pools \in Layouts : DOMAIN pools \subseteq Processes
    /\ Elements \subseteq Element

\* pools: [the processes with a pool -> Pool]; nodes: [the first identifiers -> Element];
\* flows, messages: [src, tgt, named]
NoNodes == [pools |-> <<>>, nodes |-> <<>>, flows |-> {}, messages |-> {}]

Nodes == DOMAIN doc.nodes
Tag(n) == IF n \in Nodes THEN doc.nodes[n].tag ELSE ""
Own(n) == n \in Nodes /\ doc.nodes[n].at \in Processes      \* a child of a process
Of(p) == {n \in Nodes : doc.nodes[n].at = p}

\* Everything in a process, in its sub-processes and in theirs too: .// finds
\* every level.
Inside(p) ==
    LET upto[k \in 0..Cardinality(Nodes)] ==
            IF k = 0 THEN Of(p) ELSE upto[k - 1] \cup UNION {Of(n) : n \in upto[k - 1]}
    IN  upto[Cardinality(Nodes)]

In(n) == {f \in doc.flows : f.tgt = n}
Out(n) == {f \in doc.flows : f.src = n}
OwnFlows == {f \in doc.flows : Own(f.src)}

-----------------------------------------------------------------------------
(* What the tutor is shown *)

\* A pool is shown expanded when its shape says so, or when it says nothing and
\* its process has a child.
ShownExpanded(p) ==
    IF doc.pools[p].drawn # "" THEN doc.pools[p].drawn = "expanded" ELSE Of(p) # {}

\* Variant for ShownFlowsEnd: an event at the border of a task is no node.
ShownWithoutBoundary == {n \in Nodes : Own(n) /\ Tag(n) \in FlowNodeTags \ {"boundaryEvent"}}

ShownNodes == {n \in Nodes : Own(n) /\ Tag(n) \in FlowNodeTags}
ShownFlows == OwnFlows \cup doc.messages
Shown ==
    [pools |-> {[pool |-> p, expanded |-> ShownExpanded(p)] : p \in DOMAIN doc.pools},
     nodes |-> {[id |-> n, tag |-> Tag(n), parent |-> doc.nodes[n].at] : n \in ShownNodes},
     flows |-> ShownFlows]

-----------------------------------------------------------------------------
DiagramInit == \E pools \in Layouts : doc = [NoNodes EXCEPT !.pools = pools]

Insert(e) ==
    /\ Cardinality(Nodes) < Len(Ids)
    /\ e.at \in Processes \/ Tag(e.at) \in Containers
    /\ LET id == Ids[Cardinality(Nodes) + 1] IN
       doc' = [doc EXCEPT !.nodes =
                 [n \in Nodes \cup {id} |-> IF n = id THEN e ELSE doc.nodes[n]]]

Size == Cardinality(doc.flows \cup doc.messages)

\* Only of a flow that leaves a gateway does a rule ask for its name.
Link(a, b, named) ==
    /\ Size < MaxFlows
    /\ named \/ Tag(a) \in GatewayTags
    /\ \A f \in doc.flows : <<f.src, f.tgt>> # <<a, b>>
    /\ doc' = [doc EXCEPT !.flows = @ \cup {[src |-> a, tgt |-> b, named |-> named]}]

\* Between an element and a pool.
Send(a, b) ==
    /\ doc.messages = {} /\ Size < MaxFlows
    /\ doc' = [doc EXCEPT !.messages = {[src |-> a, tgt |-> b, named |-> TRUE]}]

DiagramNext ==
    \/ \E e \in Elements : Insert(e)
    \/ \E a \in Nodes, b \in Nodes \cup {Missing}, named \in BOOLEAN : Link(a, b, named)
    \/ \E n \in Nodes, p \in DOMAIN doc.pools : Send(n, p) \/ Send(p, n)

DiagramSpec == DiagramInit /\ [][DiagramNext]_doc
=============================================================================
