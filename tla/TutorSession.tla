----------------------------- MODULE TutorSession -----------------------------
(***************************************************************************)
(* One database task worked on in several browser tabs: the Socket.IO      *)
(* handlers of app/sockets/chat_handler.py, the session store they keep    *)
(* the live conversation in, the task tracker, the submission rows and the *)
(* two HTTP routes (autosave and save) that write the same rows.           *)
(*                                                                         *)
(* The server is one gevent worker.  A handler gives up the processor only *)
(* while it waits for the LLM service or, with the Redis session store,    *)
(* for Redis; everything between two waits is one action.  Time, the       *)
(* wording of messages and the mentor's issue list are abstracted away.    *)
(***************************************************************************)
EXTENDS Integers, FiniteSets, SequencesExt

CONSTANTS
    Users,      \* accounts; Anon may be one of them
    Anon,       \* the visitor without an account
    Sids,       \* socket ids; every (re)connection gets a fresh one
    Turns,      \* greenlets running a handler that waits for the LLM
    Xmls,       \* contents of the BPMN canvas
    Backend,    \* "memory" or "redis", the class behind session_store.store
    Delegant,   \* does the task's agent loop on its own?
    FullApi,    \* also the events no shipped page sends (clear_chat, request_analysis)
    MaxMsgs,    \* bound: messages exchanged in a behaviour
    MaxSubs,    \* bound: submission rows
    NoUser, NoSid, NoCell, NoXml

ASSUME BackendAssumption == Backend \in {"memory", "redis"}
ASSUME BoundsAssumption == MaxMsgs \in Nat /\ MaxSubs \in Nat
ASSUME SwitchAssumption == Delegant \in BOOLEAN /\ FullApi \in BOOLEAN
ASSUME NullAssumption ==
    /\ NoUser \notin Users /\ NoSid \notin Sids
    /\ NoCell \notin Sids \cup Turns /\ NoXml \notin Xmls

VARIABLES
    sock,       \* [Sids -> state of the page that owns the socket]
    owner,      \* [Sids -> current_user of the connection]
    store,      \* [Sids -> session held by session_store.store]
    heap,       \* [Cells -> chat_history list of a conversation object]
    tracker,    \* [Sids -> task_tracker._state entry]
    rows,       \* [Subs -> task_submissions row]
    turns,      \* [Turns -> handler waiting for Redis or the LLM]
    next        \* id of the next message

vars == <<sock, owner, store, heap, tracker, rows, turns, next>>

-----------------------------------------------------------------------------
Subs == 1..MaxSubs

\* Identities of conversation objects: there are never more of them than
\* sessions and waiting handlers.
Cells == Sids \cup Turns

\* "greet": joined, no chat yet; "greeting": waiting for the greeting;
\* "ready": input enabled; "busy": input locked until a reply;
\* "leaving": saved and navigating away; "dropped": page open, connection lost.
PageStates == {"new", "open", "joining", "greet", "greeting", "ready", "busy",
               "leaving", "dropped", "closed"}
Connected == {"open", "joining", "greet", "greeting", "ready", "busy", "leaving"}

Message == [id : 1..MaxMsgs, from : {"user", "ai", "system"}, by : Users]

\* The session dict.  Its mentor_state lives and dies with chat_history and is
\* not represented separately: both are the object the cell names.
Session == [live : BOOLEAN, stopped : BOOLEAN, sub : Subs \cup {0},
            cell : Cells \cup {NoCell}]
NoSession == [live |-> FALSE, stopped |-> FALSE, sub |-> 0, cell |-> NoCell]

\* Token counters are abstracted to "none recorded" (0) and "some" (1).
NoStats == -1
Stats == {NoStats, 0, 1}

Row == [state : {"none", "open", "done"}, user : Users \cup {NoUser},
        sid : Sids \cup {NoSid}, chat : Seq(Message),
        draft : Xmls \cup {NoXml}, final : Xmls \cup {NoXml},
        interactions : Nat, tokens : {0, 1}]
NoRow == [state |-> "none", user |-> NoUser, sid |-> NoSid, chat |-> <<>>,
          draft |-> NoXml, final |-> NoXml, interactions |-> 0, tokens |-> 0]

\* What a waiting handler has captured: the session it read (the object itself
\* in memory, a private copy with Redis), its conversation object, and whether
\* the first of the two attempts of get_mentor_response is already spent.
Kinds == {"greeting", "message", "completion", "analysis"}
Turn == [pc : {"idle", "joining", "llm"}, sid : Sids \cup {NoSid},
         kind : Kinds \cup {"none"}, cell : Cells \cup {NoCell},
         stopped : BOOLEAN, sub : Subs \cup {0}, retried : BOOLEAN]
Idle == [pc |-> "idle", sid |-> NoSid, kind |-> "none", cell |-> NoCell,
         stopped |-> FALSE, sub |-> 0, retried |-> FALSE]

-----------------------------------------------------------------------------
InMemory == Backend = "memory"

\* Without Redis nothing runs between the two halves of join_task.
Yielded == InMemory => \A t \in Turns : turns[t].pc # "joining"

\* Where a new conversation object may go, given the identities in use.
Fresh(preferred, used) == IF preferred \notin used THEN {preferred} ELSE Cells \ used
InUse == {store[s].cell : s \in Sids} \cup {turns[t].cell : t \in Turns}

\* The heap after a step that leaves contents h: objects nobody refers to go.
Collect(h) ==
    heap' = [c \in Cells |->
               IF \/ \E s \in Sids : store'[s].cell = c
                  \/ \E t \in Turns : turns'[t].cell = c
               THEN h[c] ELSE <<>>]

\* Variant for ChatIsolation: the query forgets its user filter.
AnyOpenRows(u) == {i \in Subs : rows[i].state = "open"}

OpenRows(u) == {i \in Subs : rows[i].state = "open" /\ rows[i].user = u}
\* ORDER BY started_at DESC LIMIT 1: rows are numbered in the order they start.
Latest(S) == {i \in S : \A j \in S : j <= i}
FirstFree == {i \in Subs : rows[i].state = "none" /\ \A j \in 1..(i-1) : rows[j].state # "none"}

\* Variant for OneOpenSubmission: resume by socket instead of by user.
ResumableBySocket(u, s) == {i \in Subs : rows[i].state = "open" /\ rows[i].sid = s}

\* The submissions join_task may resume: none for an anonymous visitor.
Resumable(u, s) == IF u = Anon THEN {} ELSE OpenRows(u)

\* Variant for LateAutosaveIsDropped: the route forgets completed_at IS NULL.
DraftRowsAnyState(s) == {i \in Subs : rows[i].state # "none" /\ rows[i].sid = s}

\* The submissions auto_save_bpmn may write: those the socket joined last.
DraftRows(s) == {i \in Subs : rows[i].state = "open" /\ rows[i].sid = s}

UserMessages(chat) == Cardinality({k \in DOMAIN chat : chat[k].from = "user"})

\* session.get('stopped'): the shared object while it is in the in-memory
\* store, else what the handler holds.
StoppedFor(t) ==
    IF InMemory /\ store[turns[t].sid].live
    THEN store[turns[t].sid].stopped ELSE turns[t].stopped

\* The handlers of the removed sessions keep the object they captured.
Detach(S) ==
    [t \in Turns |-> IF turns[t].pc = "llm" /\ turns[t].sid \in S
                     THEN [turns[t] EXCEPT !.stopped = StoppedFor(t)] ELSE turns[t]]

Without(S) == [s \in Sids |-> IF s \in S THEN NoSession ELSE store[s]]

\* Redis makes two commands of store.get and set_field: a call of the page that
\* had read its session before the removal writes it back after it.
Undone(S) ==
    IF InMemory THEN {{}}
    ELSE SUBSET {s \in S : store[s].live /\ sock[s] \in Connected}

\* The stores that store.remove may leave behind.
Removed(S) == {Without(S \ back) : back \in Undone(S)}

\* Variant for StatsFollowSession: the handlers forget cleanup_task.
StillTracked(S) == tracker

Untracked(S) == [s \in Sids |-> IF s \in S THEN NoStats ELSE tracker[s]]

\* The page enables its input again on a final reply, an error or a stop.
Unlock(s) == IF sock[s] \in {"greeting", "busy"} THEN [sock EXCEPT ![s] = "ready"] ELSE sock

\* Variant for TypeOK: record_llm_call without its membership test and cap.
SpendAlways(s) == [tracker EXCEPT ![s] = @ + 1]

Spend(s) == IF tracker[s] = NoStats THEN tracker ELSE [tracker EXCEPT ![s] = 1]

-----------------------------------------------------------------------------
Init ==
    /\ sock = [s \in Sids |-> "new"]
    /\ owner = [s \in Sids |-> NoUser]
    /\ store = [s \in Sids |-> NoSession]
    /\ heap = [c \in Cells |-> <<>>]
    /\ tracker = [s \in Sids |-> NoStats]
    /\ rows = [i \in Subs |-> NoRow]
    /\ turns = [t \in Turns |-> Idle]
    /\ next = 1

-----------------------------------------------------------------------------
(* Connections *)

\* A page of user u opens a socket.
Connect(s, u) ==
    /\ Yielded
    /\ sock[s] = "new"
    /\ sock' = [sock EXCEPT ![s] = "open"]
    /\ owner' = [owner EXCEPT ![s] = u]
    /\ UNCHANGED <<store, heap, tracker, rows, turns, next>>

\* The client library reopens a lost connection under a new sid.
Reconnect(old, s) ==
    /\ Yielded
    /\ sock[old] = "dropped" /\ sock[s] = "new"
    /\ sock' = [sock EXCEPT ![old] = "closed", ![s] = "open"]
    /\ owner' = [owner EXCEPT ![s] = owner[old]]
    /\ UNCHANGED <<store, heap, tracker, rows, turns, next>>

\* handle_disconnect: the session and its statistics go, handlers that wait
\* for the LLM go on.
Disconnect(s) ==
    /\ Yielded
    /\ sock[s] \in Connected
    /\ \E after \in IF sock[s] = "leaving" THEN {"closed"} ELSE {"dropped", "closed"} :
          sock' = [sock EXCEPT ![s] = after]
    /\ turns' = Detach({s})
    /\ store' \in Removed({s})
    /\ tracker' = IF store[s].live THEN Untracked({s}) ELSE tracker
    /\ Collect(heap)
    /\ UNCHANGED <<owner, rows, next>>

\* _session_cleanup_loop: idle for 30 minutes, counted from the last chat event.
\* Only a turn that loops can last that long (two attempts of 300 s per call).
StaleCleanup(s) ==
    /\ Yielded
    /\ store[s].live
    /\ \A t \in Turns : turns[t].sid = s =>
          Delegant /\ turns[t].kind \in {"message", "completion"}
    /\ turns' = Detach({s})
    /\ store' \in Removed({s})
    /\ tracker' = Untracked({s})
    /\ Collect(heap)
    /\ UNCHANGED <<sock, owner, rows, next>>

\* Redis runs without persistence and evicts under memory pressure.
RedisEvict(s) ==
    /\ ~InMemory
    /\ store[s].live
    /\ store' = Without({s})
    /\ turns' = turns
    /\ Collect(heap)
    /\ UNCHANGED <<sock, owner, tracker, rows, next>>

\* The worker process is replaced: greenlets, tracker and in-memory sessions are gone.
WorkerRestart ==
    /\ \E s \in Sids : sock[s] \in Connected
    /\ sock' = [s \in Sids |-> IF sock[s] = "leaving" THEN "closed"
                               ELSE IF sock[s] \in Connected THEN "dropped" ELSE sock[s]]
    /\ turns' = [t \in Turns |-> Idle]
    /\ tracker' = [s \in Sids |-> NoStats]
    /\ store' = IF InMemory THEN Without(Sids) ELSE store
    /\ Collect(heap)
    /\ UNCHANGED <<owner, rows, next>>

-----------------------------------------------------------------------------
(* Joining the task *)

\* handle_join_task up to the first wait: a fresh session replaces any other.
JoinCreate(t, s) ==
    /\ Yielded
    /\ sock[s] = "open" /\ turns[t].pc = "idle"
    /\ \E c \in Fresh(s, InUse) :
          store' = [store EXCEPT ![s] =
                      [live |-> TRUE, stopped |-> FALSE, sub |-> 0, cell |-> c]]
    /\ turns' = [turns EXCEPT ![t] = [Idle EXCEPT !.pc = "joining", !.sid = s]]
    /\ sock' = [sock EXCEPT ![s] = "joining"]
    /\ Collect(heap)
    /\ UNCHANGED <<owner, tracker, rows, next>>

\* The rest of handle_join_task: start_task, then take over the user's open
\* submission or create one.  set_field does nothing if the session is gone.
JoinBind(t) ==
    LET s == turns[t].sid
        u == owner[s]
        resumed == Resumable(u, s) # {}
    IN /\ turns[t].pc = "joining"
       /\ \E i \in IF resumed THEN Latest(Resumable(u, s)) ELSE FirstFree :
            LET restored == resumed /\ rows[i].chat # <<>> /\ store[s].live
            IN /\ rows' = [rows EXCEPT ![i] =
                             IF resumed THEN [rows[i] EXCEPT !.sid = s]
                             ELSE [NoRow EXCEPT !.state = "open", !.user = u, !.sid = s]]
               /\ store' = IF store[s].live THEN [store EXCEPT ![s].sub = i] ELSE store
               /\ turns' = [turns EXCEPT ![t] = Idle]
               /\ Collect(IF restored THEN [heap EXCEPT ![store[s].cell] = rows[i].chat]
                          ELSE heap)
               /\ sock' = IF sock[s] = "joining"
                          THEN [sock EXCEPT ![s] = IF restored THEN "ready" ELSE "greet"]
                          ELSE sock
       /\ tracker' = IF tracker[s] = NoStats THEN [tracker EXCEPT ![s] = 0] ELSE tracker
       /\ UNCHANGED <<owner, next>>

-----------------------------------------------------------------------------
(* Turns: one chat event and the LLM calls it waits for *)

\* Variant for ChatLogExtends: every handler works on a copy, as Redis gives it.
CopiedConversation(t, s) == Fresh(t, InUse)

\* The conversation object store.get hands to a handler.
Conversation(t, s) == IF InMemory THEN {store[s].cell} ELSE Fresh(t, InUse)

\* store.get, the entries the handler appends at once, and the first LLM call.
\* In memory the handler shares the stored objects; with Redis it has copies.
Begin(t, s, kind, entries) ==
    LET sess == store[s]
    IN /\ turns[t].pc = "idle" /\ sess.live
       /\ \E c \in Conversation(t, s) :
             /\ turns' = [turns EXCEPT ![t] =
                            [Idle EXCEPT !.pc = "llm", !.sid = s, !.kind = kind,
                                         !.cell = c, !.sub = sess.sub]]
             /\ store' = IF InMemory /\ kind # "analysis"
                         THEN [store EXCEPT ![s].stopped = FALSE] ELSE store
             /\ Collect([heap EXCEPT ![c] = heap[sess.cell] \o entries])

\* Nobody answers: the handler returns when the session is gone.
Unanswered(s) == ~store[s].live /\ UNCHANGED <<store, heap, turns, next>>

SendGreeting(t, s) ==
    /\ Yielded
    /\ sock[s] = "greet"
    /\ sock' = [sock EXCEPT ![s] = "greeting"]
    /\ \/ Begin(t, s, "greeting", <<>>) /\ UNCHANGED next
       \/ Unanswered(s)
    /\ UNCHANGED <<owner, tracker, rows>>

SendMessage(t, s) ==
    /\ Yielded
    /\ sock[s] = "ready"
    /\ sock' = [sock EXCEPT ![s] = "busy"]
    /\ \/ /\ next <= MaxMsgs
          /\ Begin(t, s, "message", <<[id |-> next, from |-> "user", by |-> owner[s]]>>)
          /\ next' = next + 1
       \/ Unanswered(s)
    /\ UNCHANGED <<owner, tracker, rows>>

\* handle_request_completion delegates to handle_send_message; the input stays
\* enabled, only the completion button waits for the answer.
RequestCompletion(t, s) ==
    /\ Yielded
    /\ sock[s] = "ready" /\ next <= MaxMsgs
    /\ \A t2 \in Turns : turns[t2].sid = s => turns[t2].kind # "completion"
    /\ Begin(t, s, "completion", <<[id |-> next, from |-> "system", by |-> owner[s]]>>)
    /\ next' = next + 1
    /\ UNCHANGED <<sock, owner, tracker, rows>>

RequestAnalysis(t, s) ==
    /\ FullApi /\ Yielded
    /\ sock[s] \in {"ready", "busy"}
    /\ Begin(t, s, "analysis", <<>>)
    /\ UNCHANGED <<sock, owner, tracker, rows, next>>

\* handle_stop_ai: the flag is set on whatever store.get returned, so with
\* Redis only the page notices.
StopAI(s) ==
    /\ Yielded
    /\ sock[s] = "busy"
    /\ sock' = [sock EXCEPT ![s] = "ready"]
    /\ store' = IF InMemory /\ store[s].live THEN [store EXCEPT ![s].stopped = TRUE] ELSE store
    /\ UNCHANGED <<owner, heap, tracker, rows, turns, next>>

\* handle_clear_chat rebinds the session's lists; with Redis those of a copy.
ClearChat(s) ==
    /\ FullApi /\ Yielded
    /\ sock[s] \in {"ready", "busy"} /\ store[s].live /\ InMemory
    /\ \E c \in Fresh(s, InUse) :
          /\ store' = [store EXCEPT ![s].cell = c]
          /\ turns' = turns
          /\ Collect([heap EXCEPT ![c] = <<>>])
    /\ UNCHANGED <<sock, owner, tracker, rows, next>>

\* The service answers.  The reply is appended to the captured conversation
\* and, except after request_analysis, the whole conversation is written over
\* the row's.  A Delegant turn goes round again while nothing stops it.
Reply(t, more) ==
    LET h == turns[t]
        s == h.sid
        chat == Append(heap[h.cell], [id |-> next, from |-> "ai", by |-> owner[s]])
        loops == /\ Delegant /\ more /\ ~StoppedFor(t)
                 /\ h.kind \in {"message", "completion"}
    IN /\ Yielded
       /\ h.pc = "llm" /\ next <= MaxMsgs
       /\ turns' = [turns EXCEPT ![t] = IF loops THEN [h EXCEPT !.retried = FALSE] ELSE Idle]
       /\ store' = store
       /\ Collect([heap EXCEPT ![h.cell] = chat])
       /\ rows' = IF h.kind = "analysis" \/ h.sub = 0 THEN rows
                  ELSE [rows EXCEPT ![h.sub].chat = chat]
       /\ tracker' = Spend(s)
       /\ sock' = IF loops THEN sock ELSE Unlock(s)
       /\ next' = next + 1
       /\ UNCHANGED owner

\* An answer that is not valid LION is asked for once more; greetings are not.
Malformed(t) ==
    LET h == turns[t]
    IN /\ Yielded
       /\ h.pc = "llm" /\ h.kind # "greeting" /\ ~h.retried
       /\ turns' = [turns EXCEPT ![t].retried = TRUE]
       /\ tracker' = Spend(h.sid)
       /\ UNCHANGED <<sock, owner, store, heap, rows, next>>

\* AIServiceError: nothing of the turn is written to the row.
ServiceError(t) ==
    LET h == turns[t]
    IN /\ Yielded
       /\ h.pc = "llm"
       /\ turns' = [turns EXCEPT ![t] = Idle]
       /\ store' = store
       /\ Collect(heap)
       /\ sock' = Unlock(h.sid)
       /\ UNCHANGED <<owner, tracker, rows, next>>

-----------------------------------------------------------------------------
(* The HTTP routes *)

\* auto_save_bpmn finds the open row by the socket that joined it last.
AutoSave(s, x) ==
    /\ Yielded
    /\ sock[s] \in {"greet", "greeting", "ready", "busy", "leaving"}
    /\ \E i \in Latest(DraftRows(s)) :
          rows[i].draft # x /\ rows' = [rows EXCEPT ![i].draft = x]
    /\ UNCHANGED <<sock, owner, store, heap, tracker, turns, next>>

\* Variant for KeepsSubmissions: the completion also writes the draft.
PersistedTwice(r, sess, x, stats) ==
    [r EXCEPT !.state = "done", !.final = x, !.draft = x, !.chat = heap[sess.cell]]

\* _persist_submission: the tracker entry has been popped by save_task_report,
\* so get_task_stats finds nothing and the token counts are written as zero.
Persisted(r, sess, x, stats) ==
    [r EXCEPT !.state = "done", !.final = x, !.chat = heap[sess.cell],
              !.interactions = UserMessages(heap[sess.cell]),
              !.tokens = IF stats = 1 THEN 1 ELSE 0]

\* Variant for SaveLeavesNothingOpen: no fallback.
NoFallback(rws, u, x) == rws

\* save_bpmn's fallback: complete the user's latest open row from the database.
Fallback(rws, u, x) ==
    [i \in Subs |-> IF u # Anon /\ i \in Latest(OpenRows(u))
                    THEN [rws[i] EXCEPT !.state = "done", !.final = x] ELSE rws[i]]

\* complete_and_upload removes the session and its statistics, then writes.
SaveBpmn(s, x) ==
    LET sess == store[s]
        gone == Untracked({s})
    IN /\ Yielded
       /\ sock[s] \in {"ready", "busy"}
       /\ sock' = [sock EXCEPT ![s] = "leaving"]
       /\ turns' = Detach({s})
       /\ store' \in Removed({s})
       /\ tracker' = IF sess.live THEN gone ELSE tracker
       /\ rows' = IF sess.live /\ sess.sub # 0
                  THEN [rows EXCEPT ![sess.sub] = Persisted(@, sess, x, gone[s])]
                  ELSE Fallback(rows, owner[s], x)
       /\ Collect(heap)
       /\ UNCHANGED <<owner, next>>

\* A page that has lost its connection has no socket.id to send: with an empty
\* sid complete_and_upload finishes every session of the task, in any order.
SaveNoSid(s, x) ==
    LET all == {q \in Sids : store[q].live}
        bound == {q \in all : store[q].sub # 0}
        gone == Untracked(all)
    IN /\ Yielded
       /\ sock[s] = "dropped"
       /\ sock' = [sock EXCEPT ![s] = "closed"]
       /\ turns' = Detach(all)
       /\ store' \in Removed(all)
       /\ tracker' = gone
       /\ \E last \in [{store[q].sub : q \in bound} -> bound] :
            /\ \A i \in DOMAIN last : store[last[i]].sub = i
            /\ rows' = IF bound = {} THEN Fallback(rows, owner[s], x)
                       ELSE [i \in Subs |->
                               IF i \in DOMAIN last
                               THEN Persisted(rows[i], store[last[i]], x, gone[last[i]])
                               ELSE rows[i]]
       /\ Collect(heap)
       /\ UNCHANGED <<owner, next>>

-----------------------------------------------------------------------------
Next ==
    \/ \E s \in Sids, u \in Users : Connect(s, u)
    \/ \E old, s \in Sids : Reconnect(old, s)
    \/ \E s \in Sids : Disconnect(s)
    \/ \E s \in Sids : StaleCleanup(s)
    \/ \E s \in Sids : RedisEvict(s)
    \/ WorkerRestart
    \/ \E t \in Turns, s \in Sids : JoinCreate(t, s)
    \/ \E t \in Turns : JoinBind(t)
    \/ \E t \in Turns, s \in Sids : SendGreeting(t, s)
    \/ \E t \in Turns, s \in Sids : SendMessage(t, s)
    \/ \E t \in Turns, s \in Sids : RequestCompletion(t, s)
    \/ \E t \in Turns, s \in Sids : RequestAnalysis(t, s)
    \/ \E s \in Sids : StopAI(s)
    \/ \E s \in Sids : ClearChat(s)
    \/ \E t \in Turns, more \in BOOLEAN : Reply(t, more)
    \/ \E t \in Turns : Malformed(t)
    \/ \E t \in Turns : ServiceError(t)
    \/ \E s \in Sids, x \in Xmls : AutoSave(s, x)
    \/ \E s \in Sids, x \in Xmls : SaveBpmn(s, x)
    \/ \E s \in Sids, x \in Xmls : SaveNoSid(s, x)

Spec == Init /\ [][Next]_vars

-----------------------------------------------------------------------------
(* Properties *)

\* Type invariant.
TypeOK ==
    /\ sock \in [Sids -> PageStates]
    /\ owner \in [Sids -> Users \cup {NoUser}]
    /\ store \in [Sids -> Session]
    /\ heap \in [Cells -> Seq(Message)]
    /\ tracker \in [Sids -> Stats]
    /\ rows \in [Subs -> Row]
    /\ turns \in [Turns -> Turn]
    /\ next \in 1..(MaxMsgs + 1)

\* A user never has two open submissions for the task, whatever tabs, reloads,
\* restarts and saves overlap (handle_join_task resumes, save_bpmn completes).
OneOpenSubmission ==
    \A i, j \in Subs :
        /\ rows[i].state = "open" /\ rows[j].state = "open"
        /\ rows[i].user = rows[j].user /\ rows[i].user # Anon
        => i = j

\* "Concurrent users on the same task get fully isolated state"
\* (session_store.py): a row's chat log only holds what its own user exchanged.
ChatIsolation ==
    \A i \in Subs : \A m \in ToSet(rows[i].chat) : m.by = rows[i].user

\* A completed submission stays completed and a late autosave, still on its
\* way when the save arrived, does not touch its draft (auto_save_bpmn).
LateAutosaveIsDropped ==
    [][\A i \in Subs : rows[i].state = "done" =>
          rows'[i].state = "done" /\ rows'[i].draft = rows[i].draft]_vars

Voices(chat) == {chat[k].by : k \in DOMAIN chat}

\* What can be seen of a row from outside the server.
Visible(r) ==
    [state |-> r.state, user |-> r.user, draft |-> r.draft, final |-> r.final,
     voices |-> Voices(r.chat)]

Promised == INSTANCE Submissions WITH subs <- [i \in Subs |-> Visible(rows[i])]

\* Sockets, sessions, turns, losses and restarts, with either store, show
\* outside only what Submissions allows (handle_join_task, auto_save_bpmn,
\* save_bpmn, complete_and_upload and the writes of the chat log).
KeepsSubmissions == Promised!Spec

\* "Entries are removed by cleanup_task() or save_task_report()"
\* (task_tracker.py): no entry outlives its session.
StatsHaveSession == \A s \in Sids : tracker[s] # NoStats => store[s].live

\* With the in-memory store statistics are tracked exactly for the sessions
\* that exist: no removal path leaks an entry or loses a live one.
StatsFollowSession ==
    /\ StatsHaveSession
    /\ \A s \in Sids : store[s].live /\ sock[s] # "joining" => tracker[s] # NoStats

\* What an administrator has once seen in a submission's chat log is still
\* there after any later write: turns that overlap, a stop, a failed call,
\* the completion (persist_chat_log, persist_mentor_state, _persist_submission).
ChatLogExtends ==
    [][\A i \in Subs : IsPrefix(rows[i].chat, rows'[i].chat)]_vars

\* A save from a connected page leaves its user no open submission, also when
\* the session is already gone, unless another tab had completed the
\* submission this page works on (complete_and_upload, save_bpmn's fallback).
SaveLeavesNothingOpen ==
    [][\A s \in Sids :
          /\ sock[s] # "leaving" /\ sock'[s] = "leaving" /\ owner[s] # Anon
          /\ store[s].sub # 0 => rows[store[s].sub].state = "open"
          => \A i \in Subs : ~(rows'[i].state = "open" /\ rows'[i].user = owner[s])]_vars

\* Nobody's submission is completed by a step of somebody else's page.
CompletedByItsUser ==
    [][\A i \in Subs : rows[i].state = "open" /\ rows'[i].state = "done" =>
          \E s \in Sids : owner[s] = rows[i].user /\ sock'[s] # sock[s]]_vars
=============================================================================
