------------------------------ MODULE Submissions ------------------------------
(***************************************************************************)
(* What everybody is promised of one task's submissions, whatever happens  *)
(* to tabs, sockets, sessions, LLM calls and worker processes: the rows of *)
(* task_submissions as the student's canvas and the administrator's view   *)
(* show them.  There are no sessions, sockets or handlers here.            *)
(*                                                                         *)
(* A user starts a submission only when none of theirs is open; only an    *)
(* open one takes a draft; a completion freezes the draft and the owner,   *)
(* and nothing reopens or removes it.  The final BPMN is replaced only as  *)
(* a whole, by handing in again.  A chat log holds its owner's words only. *)
(***************************************************************************)
EXTENDS Integers

CONSTANTS
    Users, Anon,    \* accounts; visitors without one are all Anon
    Xmls,           \* contents of the BPMN canvas
    MaxSubs,        \* bound: submissions
    NoUser, NoXml

VARIABLE subs       \* [Subs -> what can be seen of the submission]

Subs == 1..MaxSubs

NotStarted == [state |-> "none", user |-> NoUser, draft |-> NoXml, final |-> NoXml,
               voices |-> {}]

Opened(u) == [state |-> "open", user |-> u, draft |-> NoXml, final |-> NoXml,
              voices |-> {}]

\* Owner and draft stay; V are those whose words the chat log holds.
HandedIn(sub, x, V) == [state |-> "done", user |-> sub.user, draft |-> sub.draft,
                        final |-> x, voices |-> V]

Started == {i \in Subs : subs[i].state # "none"}

Init == subs = [i \in Subs |-> NotStarted]

\* The user has no open submission; submissions are numbered as they start.
Start(i, u) ==
    /\ i \notin Started
    /\ \A j \in 1..(i-1) : j \in Started
    /\ u # Anon => \A j \in Subs : ~(subs[j].state = "open" /\ subs[j].user = u)
    /\ subs' = [subs EXCEPT ![i] = Opened(u)]

Draft(i, x) ==
    /\ subs[i].state = "open"
    /\ subs' = [subs EXCEPT ![i].draft = x]

\* The chat log is written again, also after the completion.
Talk(i, V) ==
    /\ i \in Started /\ V \subseteq {subs[i].user}
    /\ subs' = [subs EXCEPT ![i].voices = V]

\* One save hands the same canvas in for some of the submissions, those that
\* are completed already included, and writes their chat logs with it.
HandIn(S, x) ==
    /\ S \subseteq Started
    /\ \E heard \in [S -> SUBSET Users] :
          /\ \A i \in S : heard[i] \subseteq {subs[i].user}
          /\ subs' = [i \in Subs |->
                        IF i \in S THEN HandedIn(subs[i], x, heard[i]) ELSE subs[i]]

Next ==
    \/ \E i \in Subs, u \in Users : Start(i, u)
    \/ \E i \in Subs, x \in Xmls : Draft(i, x)
    \/ \E i \in Subs, V \in SUBSET Users : Talk(i, V)
    \/ \E S \in SUBSET Subs, x \in Xmls : HandIn(S, x)

Spec == Init /\ [][Next]_subs
=============================================================================
