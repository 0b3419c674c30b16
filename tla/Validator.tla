-------------------------------- MODULE Validator --------------------------------
(***************************************************************************)
(* BPMNValidator (lib/bpmn/validator.py): the issues of a document and the *)
(* report of them that is put into a prompt.                               *)
(***************************************************************************)
EXTENDS Diagram

Critical == 1
Major == 2
Minor == 3

Issue(el, severity, what) == [el |-> el, severity |-> severity, what |-> what]
Each(S, severity, what) == {Issue(x, severity, what) : x \in S}
Tagged(tags) == {n \in Nodes : Tag(n) \in tags}
Unnamed(S) == {n \in S : ~doc.nodes[n].named}

-----------------------------------------------------------------------------
\* _is_expanded_pool: unlike the parser it looks for flow nodes.
IsExpanded(p) ==
    IF doc.pools[p].drawn # "" THEN doc.pools[p].drawn = "expanded"
    ELSE \E n \in Of(p) : Tag(n) \in FlowNodeTags

PoolIssues ==
    LET pools == DOMAIN doc.pools
        expanded == {p \in pools : IsExpanded(p)}
        within(p, tag) == {n \in Inside(p) : Tag(n) = tag}
    IN  Each({p \in pools : ~doc.pools[p].named}, Minor, "no name")
        \cup Each({p \in expanded : within(p, "startEvent") = {}}, Critical, "no start event")
        \cup Each({p \in expanded : Cardinality(within(p, "startEvent")) > 1}, Major, "start events")
        \cup Each({p \in expanded : within(p, "endEvent") = {}}, Critical, "no end event")
        \cup Each({p \in pools \ expanded : \E n \in Of(p) : Tag(n) \in FlowNodeTags},
                  Critical, "collapsed")

LaneIssues ==
    LET lanes(p) == doc.pools[p].lanes IN
    UNION {Each({[pool |-> p, lane |-> i] : i \in {j \in DOMAIN lanes(p) : ~lanes(p)[j]}}, Minor, "no name")
           \cup Each(IF Len(lanes(p)) = 1 THEN {[pool |-> p, lane |-> 1]} ELSE {}, Major, "only lane")
           : p \in DOMAIN doc.pools}

\* A definition is looked up with any([...find...]), and an element that has no
\* element inside counts as false.
EventIssues ==
    LET starts == Tagged({"startEvent"})
        ends == Tagged({"endEvent"})
        between == Tagged({"intermediateCatchEvent", "intermediateThrowEvent"})
    IN  Each({n \in starts : Out(n) = {}} \cup {n \in between : Out(n) = {}}, Critical, "no outgoing")
        \cup Each({n \in ends : In(n) = {}} \cup {n \in between : In(n) = {}}, Critical, "no incoming")
        \cup Each({n \in starts : In(n) # {}}, Critical, "incoming")
        \cup Each({n \in ends : Out(n) # {}}, Critical, "outgoing")
        \cup Each(Unnamed(starts \cup ends), Minor, "no name")
        \cup Each({n \in between : doc.nodes[n].def # "full"}, Major, "no definition")

\* A complex gateway is never looked at.
GatewayIssues ==
    LET gateways == Tagged(GatewayTags \ {"complexGateway"})
        splitting == {n \in Tagged({"exclusiveGateway", "inclusiveGateway"}) : Cardinality(Out(n)) > 1}
        parallel(p) == {n \in Of(p) : Tag(n) = "parallelGateway"}
        splits(p) == {n \in parallel(p) : Cardinality(Out(n)) > 1}
        joins(p) == {n \in parallel(p) : Cardinality(In(n)) > 1}
        wrong(f) == Own(f.src) /\ Tag(f.tgt) \notin {"intermediateCatchEvent", "receiveTask"}
    IN  Each({n \in gateways : Cardinality(In(n)) + Cardinality(Out(n)) <= 2}, Major, "few flows")
        \cup Each({n \in gateways : In(n) = {}}, Critical, "no incoming")
        \cup Each({n \in gateways : Out(n) = {}}, Critical, "no outgoing")
        \cup Each(Unnamed(splitting), Minor, "no name")
        \cup Each({f \in UNION {Out(n) : n \in splitting} : ~f.named}, Minor, "no name")
        \cup Each({n \in Tagged({"parallelGateway", "eventBasedGateway"}) : doc.nodes[n].named},
                  Minor, "name")
        \cup Each({n \in Tagged({"eventBasedGateway"}) : \E f \in Out(n) : wrong(f)},
                  Major, "successor")
        \cup UNION {Each(IF Cardinality(splits(p)) > Cardinality(joins(p)) THEN splits(p) ELSE {},
                         Major, "no join") : p \in Processes}

TaskIssues ==
    LET tasks == Tagged(TaskTags) IN
    Each(Unnamed(tasks), Major, "no name")
    \cup Each({n \in tasks : In(n) = {}}, Critical, "no incoming")
    \cup Each({n \in tasks : Out(n) = {}}, Critical, "no outgoing")
    \cup Each({n \in Tagged({"sendTask"}) : \A m \in doc.messages : m.src # n} \cup
              {n \in Tagged({"receiveTask"}) : \A m \in doc.messages : m.tgt # n},
              Major, "no message flow")

ProcessOf(n) == IF Own(n) THEN {doc.nodes[n].at} ELSE {}

\* Variant for CleanPoolRuns: no flow is said to cross a boundary.
FlowEndsOnly ==
    Each({f \in doc.flows : {f.src, f.tgt} \ Nodes # {}}, Critical, "not found")

SequenceFlowIssues ==
    Each({f \in doc.flows : {f.src, f.tgt} \ Nodes # {}}, Critical, "not found")
    \cup Each({f \in doc.flows : \E p \in ProcessOf(f.src), q \in ProcessOf(f.tgt) : p # q},
              Critical, "crosses pools")

MessageFlowIssues ==
    LET side(x) == IF x \in DOMAIN doc.pools THEN {x} ELSE ProcessOf(x) IN
    Each({m \in doc.messages : {m.src, m.tgt} \ (Nodes \cup DOMAIN doc.pools) # {}},
         Critical, "not found")
    \cup Each({m \in doc.messages : \E p \in side(m.src) : p \in side(m.tgt)}, Critical, "same pool")

-----------------------------------------------------------------------------
(* Reachability *)

\* One turn of the loop of _validate_reachability that visits something; the order
\* of its queue does not matter.
Visit(search) ==
    LET current == CHOOSE n \in search.queue : TRUE
        next == {f.tgt : f \in {g \in OwnFlows : g.src = current}}
        visited == search.visited \cup {current}
    IN  [visited |-> visited, queue |-> (search.queue \cup next) \ visited]

\* What the loop visits, until its queue is empty: each turn something else.
Ends == Nodes \cup {f.tgt : f \in OwnFlows}
Visited(starts) ==
    LET after[n \in 0..Cardinality(Ends)] ==
            IF n = 0 THEN [visited |-> {}, queue |-> starts]
            ELSE IF after[n - 1].queue = {} THEN after[n - 1] ELSE Visit(after[n - 1])
    IN  after[Cardinality(Ends)].visited

StartsOf(p) == {n \in Of(p) : Tag(n) = "startEvent"}

\* Variant for UnreachableExact: only one start event is followed.
FirstStartOnly(p) ==
    IF StartsOf(p) = {} THEN {}
    ELSE {n \in Of(p) : Tag(n) \in FlowNodeTags} \ Visited({CHOOSE n \in StartsOf(p) : TRUE})

\* Sub-processes and what they contain are not among the elements looked at.
Unreachable(p) ==
    IF StartsOf(p) = {} THEN {}
    ELSE {n \in Of(p) : Tag(n) \in FlowNodeTags} \ Visited(StartsOf(p))

ReachabilityIssues == UNION {Each(Unreachable(p), Critical, "not reachable") : p \in Processes}

Issues ==
    PoolIssues \cup LaneIssues \cup EventIssues \cup GatewayIssues \cup TaskIssues
    \cup SequenceFlowIssues \cup MessageFlowIssues \cup ReachabilityIssues

\* format_for_prompt: of each element the most severe issue.  (Of several that
\* are equally severe only the first; here all of them.)
Report ==
    LET issues == Issues
    IN  {i \in issues : \A j \in issues : j.el = i.el => i.severity <= j.severity}

-----------------------------------------------------------------------------
(* Properties *)

\* A path of flows from a to b inside S; whatever is connected is connected by a
\* path that is no longer than S is large.
Leads(a, b, S) ==
    \E k \in 1..Cardinality(S) : \E path \in [1..k -> S] :
        /\ path[1] = a /\ path[k] = b
        /\ \A i \in 1..(k - 1) : \E f \in OwnFlows : f.src = path[i] /\ f.tgt = path[i + 1]

\* The search calls an element unreachable exactly when no path of flows leads to
\* it from a start event of its process, through whichever pools the path goes
\* (_validate_reachability).
UnreachableExact ==
    \A p \in {q \in Processes : StartsOf(q) # {}} : \A n \in Of(p) :
        Issue(n, Critical, "not reachable") \in Issues <=>
            Tag(n) \in FlowNodeTags /\ ~\E s \in StartsOf(p) : Leads(s, n, Ends)

\* An issue of the pool, of an element in it or of a flow at one of them.
Touches(el, p) ==
    \/ el = p
    \/ el \in Of(p)
    \/ el \in doc.flows /\ {el.src, el.tgt} \cap Of(p) # {}

\* No rule says so alone: when the report finds nothing critical in a pool that
\* has a start and an end event of its own, each of its elements lies on a path
\* that begins in the pool and stays in it, an end event as well (validate,
\* format_for_prompt).
CleanPoolRuns ==
    \A p \in DOMAIN doc.pools :
        StartsOf(p) # {} /\ (\A i \in Report : Touches(i.el, p) => i.severity # Critical) =>
            \A n \in Of(p) : Tag(n) \in FlowNodeTags => \E s \in StartsOf(p) : Leads(s, n, Of(p))

\* A flow the tutor is shown ends at elements and pools he is shown as well.  There
\* are three exceptions: an activity the parser has no list for (a sub-process, a
\* transaction, a call), a part of one, and an end that the report he is given
\* calls not found (BPMNParser.parse, _validate_sequence_flows).
ShownFlowsEnd ==
    \A f \in Shown.flows : \A x \in {f.src, f.tgt} :
        \/ x \in {e.id : e \in Shown.nodes} \cup {e.pool : e \in Shown.pools}
        \/ Tag(x) \in Unlisted \/ (x \in Nodes /\ ~Own(x))
        \/ Issue(f, Critical, "not found") \in Report
=============================================================================
