--------------------------------- MODULE Replies ---------------------------------
(***************************************************************************)
(* What becomes of an answer of the LLM service: AIService (app/services/  *)
(* ai_service.py) asks, once more when the answer is unusable, counts and  *)
(* logs, and LIONParser (lion_parser.py) takes the answer apart.           *)
(*                                                                         *)
(* An answer is a sequence of lines between braces.  A line starts a field *)
(* ("key"), with its value in quotation marks or bare, or it goes on with  *)
(* the text of the one before ("more").                                    *)
(***************************************************************************)
EXTENDS Integers, FiniteSets, SequencesExt

CONSTANTS
    Answers,    \* what the service may say, taken apart or not
    MaxCalls    \* bound: answers of the service

Line == [key : {"", "message", "phase", "issues", "complete", "bpmn_ops"},
         form : {"quoted", "bare", "more"}]
RawIssue == [form : {"row", "object", "other"}, el : STRING, severity : STRING]

ASSUME RepliesAssumption ==
    /\ MaxCalls \in Nat
    /\ Answers \subseteq [lines : Seq(Line), issues : Seq(RawIssue)]

VARIABLES
    request,    \* what is asked: its kind, the number of the attempt
    outcome,    \* what the caller of the service gets
    tokens,     \* calls recorded by task_tracker.record_llm_call
    log,        \* llm_prompt_log of the submission
    served      \* the answers so far: all, with usage figures, with a log that was saved

repliesVars == <<request, outcome, tokens, log, served>>

None == [kind |-> "none"]

-----------------------------------------------------------------------------
(* Taking an answer apart *)

ScalarKeys == {"message", "phase", "title", "details", "shortDesc", "longDesc"}

\* Variant for ReplyKept: a bare value takes in a line that names complete.
WithoutComplete == ScalarKeys \cup {"issues", "elementId", "severity", "category"}
Delimiters == ScalarKeys \cup {"issues", "complete", "elementId", "severity", "category"}

\* preprocess: a bare scalar takes in every line up to the next delimiter.
Swallowed(lines) ==
    {j \in DOMAIN lines : \E i \in 1..(j - 1) :
        /\ lines[i].key \in ScalarKeys /\ lines[i].form = "bare"
        /\ \A k \in (i + 1)..j : lines[k].key \notin Delimiters}

\* parse: text that belongs to no value is an error.
Kept(lines) == DOMAIN lines \ Swallowed(lines)
Named(lines) == {lines[i].key : i \in DOMAIN lines} \ {""}
Parsed(lines) ==
    IF \E i \in Kept(lines) : lines[i].form = "more" THEN {}
    ELSE {lines[i].key : i \in Kept(lines)}

Rank(severity) == CASE severity = "syntax" -> 0 [] severity = "semantic" -> 1 [] OTHER -> 2
Normal(severity) ==
    CASE severity \in {"syntax", "critical"} -> "syntax"
      [] severity \in {"semantic", "warning", "major"} -> "semantic"
      [] OTHER -> "info"

\* An entry is a row, an object with or without its elementId, or something else
\* that is passed over.
Usable(e) == e.form = "row" \/ (e.form = "object" /\ e.el # "")
Normalised(e) == [el |-> e.el, severity |-> Normal(e.severity)]

KeptOne(best, issue) ==
    LET at == {i \in DOMAIN best : best[i].el = issue.el} IN
    IF at = {} THEN Append(best, issue)
    ELSE [i \in DOMAIN best |->
             IF i \in at /\ Rank(issue.severity) < Rank(best[i].severity) THEN issue ELSE best[i]]

\* parse_issues keeps one issue of an element, in the place of its first.
ParseIssues(raw) ==
    LET best[n \in 0..Len(raw)] ==
            IF n = 0 THEN <<>>
            ELSE IF Usable(raw[n]) THEN KeptOne(best[n - 1], Normalised(raw[n]))
            ELSE best[n - 1]
    IN  best[Len(raw)]

\* handle_mentor_response: without a phase only the message is taken, by a search.
Structured(answer) ==
    LET fields == Parsed(answer.lines) IN
    IF "phase" \notin fields
    THEN [kind |-> "reply", answer |-> answer, fields |-> {"message"}, issues |-> <<>>]
    ELSE [kind |-> "reply", answer |-> answer, fields |-> fields \cup {"message"},
          issues |-> IF "issues" \in fields THEN ParseIssues(answer.issues) ELSE <<>>]

-----------------------------------------------------------------------------
(* Asking *)

Kinds == {"mentor", "greeting", "grading"}

RepliesInit ==
    /\ request = None /\ outcome = None
    /\ tokens = 0 /\ log = <<>> /\ served = [all |-> 0, usage |-> 0, written |-> 0]

Ask(kind) ==
    /\ request = None
    /\ request' = [kind |-> kind, attempt |-> 1]
    /\ outcome' = None
    /\ UNCHANGED <<tokens, log, served>>

\* usage: does the answer say what it cost?  written: is the log of the submission
\* saved?  (_log_llm_io goes on when it is not.)
One(b) == IF b THEN 1 ELSE 0
Serve(usage, written) ==
    /\ served.all < MaxCalls
    /\ served' = [all |-> served.all + 1, usage |-> served.usage + One(usage),
                  written |-> served.written + One(written)]
Record(usage, written) ==
    /\ tokens' = tokens + One(usage)
    /\ log' = IF written THEN Append(log, request.kind) ELSE log

Finish(result) == request' = None /\ outcome' = result

Accepted(answer) == Parsed(answer.lines) \cap {"phase", "issues"} # {}

\* Variant for AnswersCounted: only what is used is recorded.
RecordedWhenUsed(answer, usage, written) ==
    /\ request.kind = "mentor" /\ Serve(usage, written)
    /\ IF Accepted(answer) \/ request.attempt = 2
       THEN Record(usage, written) /\ Finish(Structured(answer))
       ELSE request' = [request EXCEPT !.attempt = 2] /\ UNCHANGED <<outcome, tokens, log>>

\* get_mentor_response, one attempt.
MentorAnswered(answer, usage, written) ==
    /\ request.kind = "mentor" /\ Serve(usage, written) /\ Record(usage, written)
    /\ IF Accepted(answer) \/ request.attempt = 2 THEN Finish(Structured(answer))
       ELSE request' = [request EXCEPT !.attempt = 2] /\ UNCHANGED outcome

\* generate_greeting: the message, or the whole answer when there is none.
Greeted(answer, usage, written) ==
    /\ request.kind = "greeting" /\ Serve(usage, written) /\ Record(usage, written)
    /\ Finish([kind |-> "greeting", whole |-> "message" \notin Parsed(answer.lines)])

\* generate_grade_suggestion takes JSON; it counts and logs nothing.
Graded(valid) ==
    /\ request.kind = "grading"
    /\ Finish([kind |-> IF valid THEN "grade" ELSE "no grade"])
    /\ UNCHANGED <<tokens, log, served>>

\* _chat_completion: a time-out, a broken connection or a status that tells of an
\* error is raised as an AIServiceError, whichever attempt it is.
ServiceFails ==
    /\ request # None
    /\ Finish([kind |-> IF request.kind = "grading" THEN "no grade" ELSE "raised"])
    /\ UNCHANGED <<tokens, log, served>>

\* An answer that is no completion: the exception is turned into a message.
Unreadable ==
    /\ request # None
    /\ Finish([kind |-> IF request.kind = "grading" THEN "no grade" ELSE "excuse"])
    /\ UNCHANGED <<tokens, log, served>>

RepliesNext ==
    \/ \E kind \in Kinds : Ask(kind)
    \/ \E answer \in Answers, usage, written \in BOOLEAN :
           MentorAnswered(answer, usage, written) \/ Greeted(answer, usage, written)
    \/ \E valid \in BOOLEAN : Graded(valid)
    \/ ServiceFails \/ Unreadable

RepliesSpec == RepliesInit /\ [][RepliesNext]_repliesVars

-----------------------------------------------------------------------------
(* Properties *)

\* Every answer that says what it cost is counted, and every one that could be
\* logged is in the log: also the first of two and the one whose turn ends in an
\* error (get_mentor_response).
AnswersCounted == tokens = served.usage /\ Len(log) = served.written

\* Parts of ReplyKept.
FieldsKept ==
    "phase" \in Parsed(outcome.answer.lines) =>
        Named(outcome.answer.lines) \ {"bpmn_ops"} \subseteq outcome.fields
OneOfEach ==
    \A i, j \in DOMAIN outcome.issues : outcome.issues[i].el = outcome.issues[j].el => i = j
MostSevere ==
    \A i \in DOMAIN outcome.issues : \A e \in ToSet(outcome.answer.issues) :
        Usable(e) /\ e.el = outcome.issues[i].el =>
            Rank(outcome.issues[i].severity) <= Rank(Normal(e.severity))

\* A field that the tutor names reaches the page wherever in the answer it
\* stands, if the answer can be taken apart and a phase is in it (preprocess);
\* bpmn_ops are no delimiter and are lost behind a bare value.  Of the issues of
\* an element the page gets one, and none was more severe (parse_issues).
ReplyKept == outcome.kind = "reply" => FieldsKept /\ OneOfEach /\ MostSevere
=============================================================================
