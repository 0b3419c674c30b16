-------------------------- MODULE TutorSessionProofs --------------------------
(***************************************************************************)
(* Proofs about TutorSession, for all users, sockets, handlers and bounds  *)
(* and for both session stores.                                            *)
(***************************************************************************)
EXTENDS TutorSession, FiniteSetTheorems, SequenceTheorems, WellFoundedInduction, TLAPS

\* What ties sockets, sessions and waiting handlers together.
Attached ==
    /\ \A s \in Sids : sock[s] # "new" => owner[s] \in Users
    /\ \A s \in Sids : ~store[s].live => store[s] = NoSession
    /\ \A s \in Sids : store[s].live => sock[s] # "new" /\ store[s].cell \in Cells
    /\ \A t \in Turns : turns[t].pc # "idle" =>
          turns[t].sid \in Sids /\ sock[turns[t].sid] # "new"
    /\ \A t \in Turns : turns[t].pc = "llm" => turns[t].cell \in Cells

\* A live session and a waiting handler write rows of their socket's user only.
BoundRows ==
    /\ \A s \in Sids : store[s].sub # 0 =>
          /\ rows[store[s].sub].state # "none"
          /\ rows[store[s].sub].user = owner[s]
    /\ \A t \in Turns : turns[t].sub # 0 =>
          /\ turns[t].pc = "llm"
          /\ rows[turns[t].sub].state # "none"
          /\ rows[turns[t].sub].user = owner[turns[t].sid]

IInv == TypeOK /\ Attached

-----------------------------------------------------------------------------
(* Facts about the operators of the model *)

\* Only contents of existing objects survive a step, so the heap stays typed.
LEMMA CollectType ==
    ASSUME NEW h \in [Cells -> Seq(Message)], Collect(h)
    PROVE  heap' \in [Cells -> Seq(Message)]
  BY SMTT(20) DEF Collect

\* A restored or taken-over row is a row of the user, and an open one.
LEMMA LatestInside == ASSUME NEW S PROVE Latest(S) \subseteq S
  BY DEF Latest

\* The number of user messages of a chat is a number.
LEMMA UserMessagesType ==
    ASSUME NEW chat \in Seq(Message) PROVE UserMessages(chat) \in Nat
<1>1. IsFiniteSet(1..Len(chat)) BY FS_Interval
<1>2. IsFiniteSet({k \in DOMAIN chat : chat[k].from = "user"})
  <2>1. {k \in DOMAIN chat : chat[k].from = "user"} \subseteq 1..Len(chat) OBVIOUS
  <2>2. QED BY <1>1, <2>1, FS_Subset
<1>3. QED BY <1>2, FS_CardinalityType DEF UserMessages

-----------------------------------------------------------------------------
\* No session yet.
LEMMA InitIInv == Init => IInv
  BY NullAssumption, BoundsAssumption
     DEF Init, IInv, TypeOK, Attached, PageStates, NoSession, Session, NoStats, Stats,
         NoRow, Row, Subs, Idle, Turn, Cells

\* Waiting handlers that keep what they captured stay well formed.
LEMMA DetachType ==
    ASSUME TypeOK, Attached, NEW S
    PROVE  /\ Detach(S) \in [Turns -> Turn]
           /\ \A t \in Turns : /\ Detach(S)[t].pc = turns[t].pc
                               /\ Detach(S)[t].sid = turns[t].sid
                               /\ Detach(S)[t].cell = turns[t].cell
                               /\ Detach(S)[t].sub = turns[t].sub
<1>1. ASSUME NEW t \in Turns, turns[t].pc = "llm" PROVE StoppedFor(t) \in BOOLEAN
  <2>1. turns[t] \in Turn /\ turns[t].sid \in Sids BY <1>1 DEF TypeOK, Attached
  <2>2. store[turns[t].sid] \in Session BY <2>1 DEF TypeOK
  <2>3. QED BY <2>1, <2>2 DEF StoppedFor, Turn, Session
<1>2. ASSUME NEW t \in Turns
      PROVE  /\ Detach(S)[t] \in Turn
             /\ Detach(S)[t].pc = turns[t].pc
             /\ Detach(S)[t].sid = turns[t].sid
             /\ Detach(S)[t].cell = turns[t].cell
             /\ Detach(S)[t].sub = turns[t].sub
  <2>1. turns[t] \in Turn BY DEF TypeOK
  <2>2. CASE turns[t].pc = "llm" /\ turns[t].sid \in S
    <3>1. Detach(S)[t] = [turns[t] EXCEPT !.stopped = StoppedFor(t)] BY <2>2 DEF Detach
    <3>2. StoppedFor(t) \in BOOLEAN BY <1>1, <2>2
    <3>3. QED BY <2>1, <3>1, <3>2 DEF Turn
  <2>3. CASE ~(turns[t].pc = "llm" /\ turns[t].sid \in S)
    BY <2>1, <2>3 DEF Detach
  <2>4. QED BY <2>2, <2>3
<1>3. QED BY <1>2 DEF Detach

\* Removing sessions and statistics keeps both maps well formed.
LEMMA RemovalType ==
    ASSUME TypeOK, NEW S
    PROVE  /\ Without(S) \in [Sids -> Session]
           /\ Untracked(S) \in [Sids -> Stats]
           /\ \A s \in Sids : Without(S)[s] = IF s \in S THEN NoSession ELSE store[s]
<1>1. NoSession \in Session BY DEF NoSession, Session
<1>2. NoStats \in Stats BY DEF NoStats, Stats
<1>3. QED BY <1>1, <1>2 DEF TypeOK, Without, Untracked

\* A removal takes some of the sessions, and all of them out of memory.
LEMMA RemovedSome ==
    ASSUME NEW S, NEW st \in Removed(S)
    PROVE  (\E R : st = Without(R)) /\ (InMemory => st = Without(S))
<1>1. PICK back \in Undone(S) : st = Without(S \ back) BY DEF Removed
<1>2. S \ {} = S OBVIOUS
<1>3. QED BY <1>1, <1>2 DEF Undone

\* Replacing fields of a submission by values of their types gives a submission.
LEMMA RowUpdates ==
    ASSUME NEW r \in Row
    PROVE  /\ \A s \in Sids : [r EXCEPT !.sid = s] \in Row
           /\ \A c \in Seq(Message) : [r EXCEPT !.chat = c] \in Row
           /\ \A x \in Xmls : [r EXCEPT !.draft = x] \in Row
           /\ \A x \in Xmls : [r EXCEPT !.state = "done", !.final = x] \in Row
           /\ \A u \in Users, s \in Sids :
                 [r EXCEPT !.state = "open", !.user = u, !.sid = s] \in Row
  BY DEF Row

\* Unlocking pages and spending tokens keep the types.
LEMMA PageType ==
    ASSUME TypeOK, NEW s \in Sids
    PROVE  /\ Unlock(s) \in [Sids -> PageStates]
           /\ \A q \in Sids : sock[q] # "new" <=> Unlock(s)[q] # "new"
           /\ Spend(s) \in [Sids -> Stats]
  BY DEF TypeOK, Unlock, Spend, PageStates, Stats, NoStats

\* The idle turn, the missing session and the empty row have their types.
LEMMA Constants ==
    /\ Idle \in Turn /\ NoSession \in Session /\ NoRow \in Row /\ NoStats \in Stats
    /\ Sids \subseteq Cells /\ Turns \subseteq Cells /\ 0 \in Stats
    /\ Idle.pc = "idle" /\ Idle.sub = 0 /\ ~NoSession.live /\ NoSession.sub = 0
  BY DEF Idle, Turn, NoSession, Session, NoRow, Row, NoStats, Stats, Cells

-----------------------------------------------------------------------------
(* IInv is preserved by every action. *)

\* on_connect.
LEMMA ConnectStep ==
    ASSUME IInv, NEW s \in Sids, NEW u \in Users, Connect(s, u) \/ (\E old \in Sids : Reconnect(old, s))
    PROVE  IInv'
<1>1. sock' \in [Sids -> PageStates] /\ owner' \in [Sids -> Users \cup {NoUser}]
  BY DEF IInv, TypeOK, Attached, Connect, Reconnect, PageStates
<1>2. \A q \in Sids : sock[q] # "new" => owner'[q] = owner[q] /\ sock'[q] # "new"
  BY DEF IInv, TypeOK, Connect, Reconnect, PageStates
<1>3. \A q \in Sids : sock'[q] # "new" => owner'[q] \in Users
  BY DEF IInv, TypeOK, Attached, Connect, Reconnect, PageStates
<1>4. UNCHANGED <<store, heap, tracker, rows, turns, next>>
  BY DEF Connect, Reconnect
<1>5. QED BY <1>1, <1>2, <1>3, <1>4 DEF IInv, TypeOK, Attached

\* Removing sessions: disconnect, cleanup, eviction and restart.
LEMMA RemovalStep ==
    ASSUME IInv, NEW S,
           (\E R : store' = Without(R)) \/ store' = store,
           turns' = Detach(S) \/ turns' = turns \/ turns' = [t \in Turns |-> Idle],
           tracker' = Untracked(S) \/ tracker' = tracker \/ tracker' = [s \in Sids |-> NoStats],
           sock' \in [Sids -> PageStates],
           \A q \in Sids : sock'[q] = "new" <=> sock[q] = "new",
           rows' \in [Subs -> Row],
           Collect(heap), UNCHANGED <<owner, next>>
    PROVE  IInv'
<1> USE DEF IInv
<1>1. store' \in [Sids -> Session] BY RemovalType DEF TypeOK
<1>2. turns' \in [Turns -> Turn] BY DetachType, Constants DEF TypeOK
<1>3. tracker' \in [Sids -> Stats] BY RemovalType, Constants DEF TypeOK
<1>4. heap' \in [Cells -> Seq(Message)] BY CollectType DEF TypeOK
<1>5. TypeOK' BY <1>1, <1>2, <1>3, <1>4 DEF TypeOK
<1>6. \A s \in Sids : store'[s] = store[s] \/ store'[s] = NoSession
  BY RemovalType
<1>7. \A t \in Turns : \/ /\ turns'[t].pc = turns[t].pc
                          /\ turns'[t].sid = turns[t].sid
                          /\ turns'[t].cell = turns[t].cell
                       \/ turns'[t].pc = "idle"
  BY DetachType, Constants
<1>8. Attached' BY <1>6, <1>7, Constants DEF Attached
<1>9. QED BY <1>5, <1>8

\* on_join_task creates the row's session.
LEMMA JoinCreateStep ==
    ASSUME IInv, NEW t \in Turns, NEW s \in Sids, JoinCreate(t, s)
    PROVE  IInv'
<1> USE DEF IInv
<1>1. PICK c \in Cells : store' = [store EXCEPT ![s] =
                      [live |-> TRUE, stopped |-> FALSE, sub |-> 0, cell |-> c]]
  BY Constants DEF JoinCreate, Fresh
<1>2. store' \in [Sids -> Session] BY <1>1 DEF TypeOK, Session
<1>3. [Idle EXCEPT !.pc = "joining", !.sid = s] \in Turn
      /\ [Idle EXCEPT !.pc = "joining", !.sid = s].sid = s
      /\ [Idle EXCEPT !.pc = "joining", !.sid = s].pc = "joining"
  BY DEF Idle, Turn
<1>4. turns' \in [Turns -> Turn] BY <1>3 DEF TypeOK, JoinCreate
<1>5. heap' \in [Cells -> Seq(Message)] BY CollectType DEF TypeOK, JoinCreate
<1>6. sock' \in [Sids -> PageStates] BY DEF TypeOK, JoinCreate, PageStates
<1>7. TypeOK' BY <1>2, <1>4, <1>5, <1>6 DEF TypeOK, JoinCreate
<1>8. \A q \in Sids : sock'[q] # "new" <=> sock[q] # "new"
  BY DEF JoinCreate, TypeOK
<1>9. turns' = [turns EXCEPT ![t] = [Idle EXCEPT !.pc = "joining", !.sid = s]]
      /\ sock[s] # "new" /\ owner' = owner
  BY DEF JoinCreate
<1>10. Attached' BY <1>1, <1>3, <1>8, <1>9 DEF Attached, TypeOK
<1>11. QED BY <1>7, <1>10

\* on_join_task joins the session.
LEMMA JoinBindStep ==
    ASSUME IInv, NEW t \in Turns, JoinBind(t)
    PROVE  IInv'
<1> USE DEF IInv
<1> DEFINE s == turns[t].sid
           u == owner[s]
           resumed == Resumable(u, s) # {}
<1>1. s \in Sids /\ u \in Users /\ sock[s] # "new"
  BY DEF JoinBind, Attached
<1>2. PICK i \in Subs :
        LET restored == resumed /\ rows[i].chat # <<>> /\ store[s].live
        IN /\ rows' = [rows EXCEPT ![i] =
                         IF resumed THEN [rows[i] EXCEPT !.sid = s]
                         ELSE [NoRow EXCEPT !.state = "open", !.user = u, !.sid = s]]
           /\ store' = IF store[s].live THEN [store EXCEPT ![s].sub = i] ELSE store
           /\ turns' = [turns EXCEPT ![t] = Idle]
           /\ Collect(IF restored THEN [heap EXCEPT ![store[s].cell] = rows[i].chat]
                      ELSE heap)
           /\ sock' = IF sock[s] = "joining"
                      THEN [sock EXCEPT ![s] = IF restored THEN "ready" ELSE "greet"]
                      ELSE sock
  BY DEF JoinBind, Latest, Resumable, OpenRows, FirstFree
<1> HIDE DEF resumed, s, u
<1>3. rows' \in [Subs -> Row]
  <2>1. [rows[i] EXCEPT !.sid = s] \in Row BY <1>1, RowUpdates DEF TypeOK
  <2>2. [NoRow EXCEPT !.state = "open", !.user = u, !.sid = s] \in Row
    BY <1>1, RowUpdates, Constants
  <2>3. QED BY <1>2, <2>1, <2>2 DEF TypeOK
<1>4. store' \in [Sids -> Session]
      /\ \A q \in Sids : store'[q].live = store[q].live /\ store'[q].cell = store[q].cell
                         /\ (~store[q].live => store'[q] = store[q])
  <2>1. store[s] \in Session BY <1>1 DEF TypeOK
  <2>2. [store[s] EXCEPT !.sub = i] \in Session
        /\ [store[s] EXCEPT !.sub = i].live = store[s].live
        /\ [store[s] EXCEPT !.sub = i].cell = store[s].cell
    BY <2>1 DEF Session
  <2>3. QED BY <1>1, <1>2, <2>2 DEF TypeOK
<1>5. turns' \in [Turns -> Turn] BY <1>2, Constants DEF TypeOK
<1>6. heap' \in [Cells -> Seq(Message)]
  <2>1. rows[i].chat \in Seq(Message) BY DEF TypeOK, Row
  <2>2. [heap EXCEPT ![store[s].cell] = rows[i].chat] \in [Cells -> Seq(Message)]
    BY <2>1 DEF TypeOK
  <2>3. QED BY <1>2, <2>2, CollectType DEF TypeOK
<1>7. sock' \in [Sids -> PageStates] /\ \A q \in Sids : sock'[q] # "new" <=> sock[q] # "new"
  BY <1>1, <1>2 DEF TypeOK, PageStates
<1>8. tracker' \in [Sids -> Stats] /\ UNCHANGED <<owner, next>>
  BY Constants DEF JoinBind, TypeOK
<1>9. TypeOK' BY <1>3, <1>4, <1>5, <1>6, <1>7, <1>8 DEF TypeOK
<1>10. \A r \in Turns : turns'[r] = turns[r] \/ turns'[r].pc = "idle"
  BY <1>2, Constants DEF TypeOK
<1>11. Attached' BY <1>4, <1>7, <1>8, <1>10 DEF Attached
<1>12. QED BY <1>9, <1>11

\* Starting a turn: only the captured conversation and the turn change.
LEMMA BeginStep ==
    ASSUME IInv, NEW t \in Turns, NEW s \in Sids, NEW kind \in Kinds,
           NEW entries \in Seq(Message), Begin(t, s, kind, entries),
           sock' \in [Sids -> PageStates],
           \A q \in Sids : sock'[q] = "new" <=> sock[q] = "new",
           next' \in 1..(MaxMsgs + 1),
           UNCHANGED <<owner, tracker, rows>>
    PROVE  IInv'
<1> USE DEF IInv
<1>1. store[s].live /\ sock[s] # "new" /\ store[s].cell \in Cells
  BY DEF Begin, Attached
<1>2. PICK c \in Cells :
        /\ turns' = [turns EXCEPT ![t] = [Idle EXCEPT !.pc = "llm", !.sid = s, !.kind = kind,
                                            !.cell = c, !.sub = store[s].sub]]
        /\ Collect([heap EXCEPT ![c] = heap[store[s].cell] \o entries])
  BY <1>1, Constants DEF Begin, Conversation, Fresh
<1>3. store[s] \in Session BY DEF TypeOK
<1>4. [Idle EXCEPT !.pc = "llm", !.sid = s, !.kind = kind, !.cell = c, !.sub = store[s].sub]
        \in [pc : {"llm"}, sid : {s}, kind : Kinds \cup {"none"}, cell : {c},
            stopped : BOOLEAN, sub : Subs \cup {0}, retried : BOOLEAN]
  BY <1>3 DEF Idle, Session, Kinds
<1> DEFINE new == [Idle EXCEPT !.pc = "llm", !.sid = s, !.kind = kind, !.cell = c,
                               !.sub = store[s].sub]
<1>5. new \in Turn /\ new.pc = "llm" /\ new.sid = s /\ new.cell = c
  BY <1>4 DEF Turn
<1>6. turns' = [turns EXCEPT ![t] = new] BY <1>2
<1> HIDE DEF new
<1>7. turns' \in [Turns -> Turn] BY <1>5, <1>6 DEF TypeOK
<1>8. heap' \in [Cells -> Seq(Message)]
  <2>1. heap[store[s].cell] \o entries \in Seq(Message) BY <1>1 DEF TypeOK
  <2>2. [heap EXCEPT ![c] = heap[store[s].cell] \o entries] \in [Cells -> Seq(Message)]
    BY <2>1 DEF TypeOK
  <2>3. QED BY <1>2, <2>2, CollectType
<1>9. store' = store \/ store' = [store EXCEPT ![s].stopped = FALSE]
  BY DEF Begin
<1>10. store' \in [Sids -> Session]
       /\ \A q \in Sids : store'[q].live = store[q].live /\ store'[q].cell = store[q].cell
                          /\ (~store[q].live => store'[q] = store[q])
  <2>1. [store[s] EXCEPT !.stopped = FALSE] \in Session
        /\ [store[s] EXCEPT !.stopped = FALSE].live = store[s].live
        /\ [store[s] EXCEPT !.stopped = FALSE].cell = store[s].cell
    BY <1>3 DEF Session
  <2>2. QED BY <1>1, <1>9, <2>1 DEF TypeOK
<1>11. TypeOK' BY <1>7, <1>8, <1>10 DEF TypeOK
<1>12. Attached' BY <1>1, <1>5, <1>6, <1>10 DEF Attached, TypeOK
<1>13. QED BY <1>11, <1>12

\* A chat event nobody answers only changes the page.
LEMMA UnansweredStep ==
    ASSUME IInv, NEW s \in Sids, Unanswered(s), sock' \in [Sids -> PageStates],
           \A q \in Sids : sock'[q] = "new" <=> sock[q] = "new",
           UNCHANGED <<owner, tracker, rows>>
    PROVE  IInv'
  BY DEF IInv, TypeOK, Attached, Unanswered

\* on_user_message.
LEMMA SendStep ==
    ASSUME IInv, NEW t \in Turns, NEW s \in Sids,
           \/ SendGreeting(t, s) \/ SendMessage(t, s)
           \/ RequestCompletion(t, s) \/ RequestAnalysis(t, s)
    PROVE  IInv'
<1>1. sock' \in [Sids -> PageStates] /\ \A q \in Sids : sock'[q] = "new" <=> sock[q] = "new"
  BY DEF IInv, TypeOK, PageStates, SendGreeting, SendMessage, RequestCompletion, RequestAnalysis
<1>2. UNCHANGED <<owner, tracker, rows>>
  BY DEF SendGreeting, SendMessage, RequestCompletion, RequestAnalysis
<1>3. next \in 1..(MaxMsgs + 1) BY DEF IInv, TypeOK
<1>4. CASE Unanswered(s) BY <1>1, <1>2, <1>4, UnansweredStep
<1>5. ASSUME next' = next, Begin(t, s, "greeting", <<>>) \/ Begin(t, s, "analysis", <<>>)
      PROVE  IInv'
  <2>1. next' \in 1..(MaxMsgs + 1) /\ <<>> \in Seq(Message) BY <1>3, <1>5
  <2>2. "greeting" \in Kinds /\ "analysis" \in Kinds BY DEF Kinds
  <2>3. CASE Begin(t, s, "greeting", <<>>) BY <1>1, <1>2, <2>1, <2>2, <2>3, BeginStep
  <2>4. CASE Begin(t, s, "analysis", <<>>) BY <1>1, <1>2, <2>1, <2>2, <2>4, BeginStep
  <2>5. QED BY <1>5, <2>3, <2>4
<1>6. ASSUME sock[s] # "new", next <= MaxMsgs, next' = next + 1,
             NEW from \in {"user", "system"}, NEW kind \in {"message", "completion"},
             Begin(t, s, kind, <<[id |-> next, from |-> from, by |-> owner[s]]>>)
      PROVE  IInv'
  <2>1. <<[id |-> next, from |-> from, by |-> owner[s]]>> \in Seq(Message)
    BY <1>3, <1>6, BoundsAssumption DEF IInv, Attached, Message
  <2>2. next' \in 1..(MaxMsgs + 1) /\ kind \in Kinds
    BY <1>3, <1>6, BoundsAssumption DEF Kinds
  <2>3. QED BY <1>1, <1>2, <1>6, <2>1, <2>2, BeginStep
<1>7. QED BY <1>4, <1>5, <1>6 DEF SendGreeting, SendMessage, RequestCompletion, RequestAnalysis

\* on_stop_ai.
LEMMA StopAIStep ==
    ASSUME IInv, NEW s \in Sids, StopAI(s) PROVE IInv'
<1>1. store[s] \in Session BY DEF IInv, TypeOK
<1>2. [store[s] EXCEPT !.stopped = TRUE] \in Session
      /\ [store[s] EXCEPT !.stopped = TRUE].live = store[s].live
      /\ [store[s] EXCEPT !.stopped = TRUE].cell = store[s].cell
  BY <1>1 DEF Session
<1>3. store' \in [Sids -> Session]
      /\ \A q \in Sids : store'[q].live = store[q].live /\ store'[q].cell = store[q].cell
                         /\ (~store[q].live => store'[q] = store[q])
  BY <1>2 DEF IInv, TypeOK, StopAI
<1>4. sock' \in [Sids -> PageStates] /\ \A q \in Sids : sock'[q] = "new" <=> sock[q] = "new"
  BY DEF IInv, TypeOK, PageStates, StopAI
<1>5. UNCHANGED <<owner, heap, tracker, rows, turns, next>> BY DEF StopAI
<1>6. QED BY <1>3, <1>4, <1>5 DEF IInv, TypeOK, Attached

\* on_clear_chat.
LEMMA ClearChatStep ==
    ASSUME IInv, NEW s \in Sids, ClearChat(s) PROVE IInv'
<1>1. PICK c \in Cells : store' = [store EXCEPT ![s].cell = c] /\ turns' = turns
                        /\ Collect([heap EXCEPT ![c] = <<>>])
  BY Constants DEF ClearChat, Fresh
<1>2. store[s] \in Session /\ store[s].live BY DEF IInv, TypeOK, ClearChat
<1>3. [store[s] EXCEPT !.cell = c] \in Session
      /\ [store[s] EXCEPT !.cell = c].live = store[s].live
      /\ [store[s] EXCEPT !.cell = c].cell = c
  BY <1>2 DEF Session
<1>4. store' \in [Sids -> Session]
      /\ \A q \in Sids : store'[q].live = store[q].live
                         /\ (store'[q].cell = store[q].cell \/ store'[q].cell = c)
                         /\ (~store[q].live => store'[q] = store[q])
  BY <1>1, <1>2, <1>3 DEF IInv, TypeOK
<1>5. heap' \in [Cells -> Seq(Message)]
  <2>1. [heap EXCEPT ![c] = <<>>] \in [Cells -> Seq(Message)] BY DEF IInv, TypeOK
  <2>2. QED BY <1>1, <2>1, CollectType
<1>6. UNCHANGED <<sock, owner, tracker, rows, turns, next>> BY <1>1 DEF ClearChat
<1>7. QED BY <1>4, <1>5, <1>6 DEF IInv, TypeOK, Attached

\* The end or the continuation of a turn: same handler, or none.
LEMMA TurnStep ==
    ASSUME IInv, NEW t \in Turns, NEW h \in Turn,
           turns' = [turns EXCEPT ![t] = h],
           \/ h.pc = "idle"
           \/ turns[t].pc = "llm" /\ h.pc = "llm" /\ h.sid = turns[t].sid /\ h.cell = turns[t].cell,
           store' = store, heap' \in [Cells -> Seq(Message)], rows' \in [Subs -> Row],
           tracker' \in [Sids -> Stats], sock' \in [Sids -> PageStates],
           \A q \in Sids : sock'[q] = "new" <=> sock[q] = "new",
           next' \in 1..(MaxMsgs + 1), owner' = owner
    PROVE  IInv'
  BY DEF IInv, TypeOK, Attached

\* The turn's reply.
LEMMA ReplyStep ==
    ASSUME IInv, NEW t \in Turns, NEW more \in BOOLEAN, Reply(t, more) PROVE IInv'
<1> DEFINE h == turns[t]
           chat == Append(heap[h.cell], [id |-> next, from |-> "ai", by |-> owner[h.sid]])
<1>1. h \in Turn /\ h.pc = "llm" /\ h.cell \in Cells /\ h.sid \in Sids
      /\ owner[h.sid] \in Users /\ next \in 1..MaxMsgs /\ next' = next + 1
  BY BoundsAssumption DEF IInv, TypeOK, Attached, Reply
<1>2. chat \in Seq(Message)
  <2>1. heap[h.cell] \in Seq(Message) BY <1>1 DEF IInv, TypeOK
  <2>2. [id |-> next, from |-> "ai", by |-> owner[h.sid]] \in Message BY <1>1 DEF Message
  <2>3. QED BY <2>1, <2>2
<1>3. rows' \in [Subs -> Row]
  <2>1. rows' = rows \/ rows' = [rows EXCEPT ![h.sub].chat = chat]
    BY DEF Reply
  <2>2. h.sub \in Subs => [rows[h.sub] EXCEPT !.chat = chat] \in Row
    BY <1>2, RowUpdates DEF IInv, TypeOK
  <2>3. QED BY <2>1, <2>2 DEF IInv, TypeOK
<1>4. heap' \in [Cells -> Seq(Message)]
  <2>1. [heap EXCEPT ![h.cell] = chat] \in [Cells -> Seq(Message)]
    BY <1>2 DEF IInv, TypeOK
  <2>2. QED BY <2>1, CollectType DEF Reply
<1>5. tracker' \in [Sids -> Stats] /\ sock' \in [Sids -> PageStates]
      /\ (\A q \in Sids : sock'[q] = "new" <=> sock[q] = "new")
  BY <1>1, PageType DEF IInv, Reply, TypeOK
<1>6. [h EXCEPT !.retried = FALSE] \in Turn /\ [h EXCEPT !.retried = FALSE].pc = h.pc
      /\ [h EXCEPT !.retried = FALSE].sid = h.sid /\ [h EXCEPT !.retried = FALSE].cell = h.cell
  BY <1>1 DEF Turn
<1>7. next' \in 1..(MaxMsgs + 1) BY <1>1, BoundsAssumption
<1>8. CASE turns' = [turns EXCEPT ![t] = Idle]
  BY <1>3, <1>4, <1>5, <1>7, <1>8, Constants, TurnStep DEF Reply
<1>9. CASE turns' = [turns EXCEPT ![t] = [h EXCEPT !.retried = FALSE]]
  <2>1. PICK again \in Turn : again = [h EXCEPT !.retried = FALSE] BY <1>6
  <2>2. /\ turns' = [turns EXCEPT ![t] = again]
        /\ turns[t].pc = "llm" /\ again.pc = "llm"
        /\ again.sid = turns[t].sid /\ again.cell = turns[t].cell
    BY <1>1, <1>6, <1>9, <2>1
  <2>3. store' = store /\ owner' = owner BY DEF Reply
  <2>4. QED BY <1>3, <1>4, <1>5, <1>7, <2>2, <2>3, TurnStep
<1>10. QED BY <1>8, <1>9 DEF Reply

\* Another attempt of the turn.
LEMMA RetryStep ==
    ASSUME IInv, NEW t \in Turns, Malformed(t) \/ ServiceError(t) PROVE IInv'
<1>1. turns[t] \in Turn /\ turns[t].pc = "llm" /\ turns[t].sid \in Sids
  BY DEF IInv, TypeOK, Attached, Malformed, ServiceError
<1>2. rows \in [Subs -> Row] /\ next \in 1..(MaxMsgs + 1) /\ heap \in [Cells -> Seq(Message)]
      /\ tracker \in [Sids -> Stats] /\ sock \in [Sids -> PageStates]
  BY DEF IInv, TypeOK
<1>3. CASE Malformed(t)
  <2>1. [turns[t] EXCEPT !.retried = TRUE] \in Turn
        /\ [turns[t] EXCEPT !.retried = TRUE].pc = "llm"
        /\ [turns[t] EXCEPT !.retried = TRUE].sid = turns[t].sid
        /\ [turns[t] EXCEPT !.retried = TRUE].cell = turns[t].cell
    BY <1>1 DEF Turn
  <2>2. tracker' \in [Sids -> Stats] BY <1>1, <1>3, PageType DEF IInv, Malformed
  <2>3. QED BY <1>1, <1>2, <1>3, <2>1, <2>2, TurnStep DEF Malformed
<1>4. CASE ServiceError(t)
  <2>1. sock' \in [Sids -> PageStates] /\ \A q \in Sids : sock'[q] = "new" <=> sock[q] = "new"
    BY <1>1, <1>4, PageType DEF IInv, ServiceError
  <2>2. heap' \in [Cells -> Seq(Message)] BY <1>2, <1>4, CollectType DEF ServiceError
  <2>3. QED BY <1>2, <1>4, <2>1, <2>2, Constants, TurnStep DEF ServiceError
<1>5. QED BY <1>3, <1>4
\* auto_save.
LEMMA AutoSaveStep ==
    ASSUME IInv, NEW s \in Sids, NEW x \in Xmls, AutoSave(s, x) PROVE IInv'
<1>1. PICK i \in Subs : rows' = [rows EXCEPT ![i].draft = x]
  BY LatestInside DEF AutoSave, DraftRows
<1>2. [rows[i] EXCEPT !.draft = x] \in Row BY RowUpdates DEF IInv, TypeOK
<1>3. rows' \in [Subs -> Row] BY <1>1, <1>2 DEF IInv, TypeOK
<1>4. UNCHANGED <<sock, owner, store, heap, tracker, turns, next>> BY DEF AutoSave
<1>5. QED BY <1>3, <1>4 DEF IInv, TypeOK, Attached

\* A completed row is a row.
LEMMA PersistedType ==
    ASSUME IInv, NEW r \in Row, NEW q \in Sids, store[q].live, NEW x \in Xmls, NEW stats
    PROVE  Persisted(r, store[q], x, stats) \in Row
<1>1. heap[store[q].cell] \in Seq(Message) BY DEF IInv, TypeOK, Attached
<1>2. UserMessages(heap[store[q].cell]) \in Nat BY <1>1, UserMessagesType
<1>3. QED BY <1>1, <1>2 DEF Persisted, Row

\* The row saved without a session.
LEMMA FallbackType ==
    ASSUME TypeOK, NEW u, NEW x \in Xmls PROVE Fallback(rows, u, x) \in [Subs -> Row]
  BY RowUpdates DEF TypeOK, Fallback

\* save_bpmn.
LEMMA SaveStep ==
    ASSUME IInv, NEW s \in Sids, NEW x \in Xmls, SaveBpmn(s, x) \/ SaveNoSid(s, x)
    PROVE  IInv'
<1>1. sock' \in [Sids -> PageStates] /\ \A q \in Sids : sock'[q] = "new" <=> sock[q] = "new"
  BY DEF IInv, TypeOK, PageStates, SaveBpmn, SaveNoSid
<1>2. Collect(heap) /\ UNCHANGED <<owner, next>> BY DEF SaveBpmn, SaveNoSid
<1>3. CASE SaveBpmn(s, x)
  <2>1. rows' \in [Subs -> Row]
    <3>1. CASE store[s].live /\ store[s].sub # 0
      <4>1. rows' = [rows EXCEPT ![store[s].sub] =
                       Persisted(@, store[s], x, Untracked({s})[s])]
        BY <1>3, <3>1 DEF SaveBpmn
      <4>2. store[s].sub \in Subs BY <3>1 DEF IInv, TypeOK, Session
      <4>3. QED BY <3>1, <4>1, <4>2, PersistedType DEF IInv, TypeOK
    <3>2. CASE ~(store[s].live /\ store[s].sub # 0)
      BY <1>3, <3>2, FallbackType DEF IInv, SaveBpmn
    <3>3. QED BY <3>1, <3>2
  <2>2. /\ \E R : store' = Without(R)
        /\ turns' = Detach({s})
        /\ tracker' = Untracked({s}) \/ tracker' = tracker
    BY <1>3, RemovedSome DEF SaveBpmn
  <2>3. QED BY <1>1, <1>2, <2>1, <2>2, RemovalStep
<1>4. CASE SaveNoSid(s, x)
  <2> DEFINE all == {q \in Sids : store[q].live}
             bound == {q \in all : store[q].sub # 0}
  <2>1. PICK last \in [{store[q].sub : q \in bound} -> bound] :
          rows' = IF bound = {} THEN Fallback(rows, owner[s], x)
                  ELSE [i \in Subs |->
                          IF i \in DOMAIN last
                          THEN Persisted(rows[i], store[last[i]], x, Untracked(all)[last[i]])
                          ELSE rows[i]]
    BY <1>4 DEF SaveNoSid
  <2>2. ASSUME NEW i \in Subs, i \in DOMAIN last
        PROVE  Persisted(rows[i], store[last[i]], x, Untracked(all)[last[i]]) \in Row
    <3>1. last[i] \in Sids /\ store[last[i]].live BY <2>2
    <3>2. rows[i] \in Row BY DEF IInv, TypeOK
    <3>3. QED BY <3>1, <3>2, PersistedType
  <2>3. rows' \in [Subs -> Row]
    <3>1. CASE bound = {} BY <2>1, <3>1, FallbackType DEF IInv
    <3>2. CASE bound # {} BY <2>1, <2>2, <3>2 DEF IInv, TypeOK
    <3>3. QED BY <3>1, <3>2
  <2>4. (\E R : store' = Without(R)) /\ turns' = Detach(all) /\ tracker' = Untracked(all)
    BY <1>4, RemovedSome DEF SaveNoSid
  <2> HIDE DEF all
  <2>5. QED BY <1>1, <1>2, <2>3, <2>4, RemovalStep
<1>5. QED BY <1>3, <1>4

\* Disconnecting, and losing the store.
LEMMA LossStep ==
    ASSUME IInv, \/ \E s \in Sids : Disconnect(s) \/ StaleCleanup(s) \/ RedisEvict(s)
                 \/ WorkerRestart
    PROVE  IInv'
<1>1. rows' \in [Subs -> Row] /\ Collect(heap) /\ UNCHANGED <<owner, next>>
  BY DEF IInv, TypeOK, Disconnect, StaleCleanup, RedisEvict, WorkerRestart
<1>2. sock' \in [Sids -> PageStates]
  BY DEF IInv, TypeOK, PageStates, Disconnect, StaleCleanup, RedisEvict, WorkerRestart
<1>3. \A q \in Sids : sock'[q] = "new" <=> sock[q] = "new"
  BY DEF IInv, TypeOK, Connected, Disconnect, StaleCleanup, RedisEvict, WorkerRestart
<1>4. ASSUME NEW s \in Sids, Disconnect(s) \/ StaleCleanup(s) \/ RedisEvict(s) PROVE IInv'
  <2>1. /\ \E R : store' = Without(R)
        /\ turns' = Detach({s}) \/ turns' = turns
        /\ tracker' = Untracked({s}) \/ tracker' = tracker
    BY <1>4, RemovedSome DEF Disconnect, StaleCleanup, RedisEvict
  <2>2. QED BY <1>1, <1>2, <1>3, <2>1, RemovalStep
<1>5. CASE WorkerRestart
  <2>1. /\ store' = Without(Sids) \/ store' = store
        /\ turns' = [t \in Turns |-> Idle] /\ tracker' = [s \in Sids |-> NoStats]
    BY <1>5 DEF WorkerRestart
  <2>2. QED BY <1>1, <1>2, <1>3, <2>1, RemovalStep
<1>6. QED BY <1>4, <1>5

\* Every step keeps the types and rows.
LEMMA StepIInv == IInv /\ [Next]_vars => IInv'
<1> SUFFICES ASSUME IInv, [Next]_vars PROVE IInv' OBVIOUS
<1>1. CASE UNCHANGED vars BY <1>1 DEF vars, IInv, TypeOK, Attached
<1>2. CASE \E s \in Sids, u \in Users : Connect(s, u) BY <1>2, ConnectStep
<1>3. CASE \E old, s \in Sids : Reconnect(old, s)
  <2>1. PICK old \in Sids, s \in Sids : Reconnect(old, s) BY <1>3
  <2>2. owner[old] \in Users BY <2>1 DEF Reconnect, IInv, Attached
  <2>3. QED BY <2>1, <2>2, ConnectStep
<1>4. CASE \/ \E s \in Sids : Disconnect(s) \/ StaleCleanup(s) \/ RedisEvict(s)
          \/ WorkerRestart
  BY <1>4, LossStep
<1>5. CASE \E t \in Turns, s \in Sids : JoinCreate(t, s) BY <1>5, JoinCreateStep
<1>6. CASE \E t \in Turns : JoinBind(t) BY <1>6, JoinBindStep
<1>7. CASE \E t \in Turns, s \in Sids :
            \/ SendGreeting(t, s) \/ SendMessage(t, s)
            \/ RequestCompletion(t, s) \/ RequestAnalysis(t, s)
  BY <1>7, SendStep
<1>8. CASE \E s \in Sids : StopAI(s) BY <1>8, StopAIStep
<1>9. CASE \E s \in Sids : ClearChat(s) BY <1>9, ClearChatStep
<1>10. CASE \E t \in Turns, more \in BOOLEAN : Reply(t, more) BY <1>10, ReplyStep
<1>11. CASE \E t \in Turns : Malformed(t) \/ ServiceError(t) BY <1>11, RetryStep
<1>12. CASE \E s \in Sids, x \in Xmls : AutoSave(s, x) BY <1>12, AutoSaveStep
<1>13. CASE \E s \in Sids, x \in Xmls : SaveBpmn(s, x) \/ SaveNoSid(s, x) BY <1>13, SaveStep
<1>14. QED
  BY <1>1, <1>2, <1>3, <1>4, <1>5, <1>6, <1>7, <1>8, <1>9, <1>10, <1>11, <1>12, <1>13 DEF Next

\* Every variable keeps its type and no handler loses its socket or its
\* conversation object, in every behaviour of the server.
THEOREM TypeCorrect == Spec => []TypeOK
<1>1. Init => IInv BY InitIInv
<1>2. IInv /\ [Next]_vars => IInv' BY StepIInv
<1>3. IInv => TypeOK BY DEF IInv
<1>4. QED BY <1>1, <1>2, <1>3, PTL DEF Spec

-----------------------------------------------------------------------------
(* One open submission per user *)

SInv == IInv /\ BoundRows /\ OneOpenSubmission

\* The part of a row that OneOpenSubmission and BoundRows depend on.
SameBinding(r1, r2) ==
    /\ r1.user = r2.user
    /\ r1.state = "none" <=> r2.state = "none"
    /\ r2.state = "open" => r1.state = "open"

\* No session yet.
LEMMA InitSInv == Init => SInv
  BY InitIInv, Constants DEF Init, SInv, BoundRows, OneOpenSubmission, NoRow

\* Updates of a row that leave its user alone and do not open it.
LEMMA BindingUpdates ==
    ASSUME NEW r \in Row
    PROVE  /\ \A s : SameBinding(r, [r EXCEPT !.sid = s])
           /\ \A c : SameBinding(r, [r EXCEPT !.chat = c])
           /\ \A x : SameBinding(r, [r EXCEPT !.draft = x])
           /\ \A x : r.state = "open" =>
                 SameBinding(r, [r EXCEPT !.state = "done", !.final = x])
           /\ \A q \in Sids : \A x, n : r.state # "none" =>
                 SameBinding(r, Persisted(r, store[q], x, n))
  BY DEF Row, SameBinding, Persisted

\* Steps that open no row and bind no session or handler to another row.
LEMMA NothingOpened ==
    ASSUME SInv, IInv',
           \A i \in Subs : SameBinding(rows[i], rows'[i]),
           \A s \in Sids : sock[s] # "new" => owner'[s] = owner[s],
           \A s \in Sids : store'[s].sub = store[s].sub \/ store'[s].sub = 0,
           \A t \in Turns : \/ turns'[t].sub = 0
                            \/ /\ turns'[t].sub = turns[t].sub /\ turns'[t].sid = turns[t].sid
                               /\ turns'[t].pc = turns[t].pc
                            \/ /\ turns'[t].pc = "llm" /\ turns'[t].sid \in Sids
                               /\ turns'[t].sub = store[turns'[t].sid].sub
    PROVE  SInv'
<1>1. OneOpenSubmission' BY DEF SInv, OneOpenSubmission, SameBinding
<1>2. ASSUME NEW s \in Sids, store'[s].sub # 0
      PROVE  /\ rows'[store'[s].sub].state # "none"
             /\ rows'[store'[s].sub].user = owner'[s]
  <2>1. store[s].sub # 0 /\ store'[s].sub = store[s].sub BY <1>2
  <2>2. store[s].live BY <2>1, Constants DEF SInv, IInv, Attached
  <2>3. store[s].sub \in Subs /\ sock[s] # "new"
    BY <2>1, <2>2 DEF SInv, IInv, TypeOK, Attached, Session
  <2>4. QED BY <2>1, <2>3 DEF SInv, BoundRows, SameBinding
<1>3. ASSUME NEW t \in Turns, turns'[t].sub # 0
      PROVE  /\ turns'[t].pc = "llm"
             /\ rows'[turns'[t].sub].state # "none"
             /\ rows'[turns'[t].sub].user = owner'[turns'[t].sid]
  <2>1. CASE turns'[t].sub = turns[t].sub /\ turns'[t].sid = turns[t].sid
             /\ turns'[t].pc = turns[t].pc
    <3>1. turns[t].pc = "llm" /\ turns[t].sid \in Sids /\ sock[turns[t].sid] # "new"
      BY <1>3, <2>1 DEF SInv, IInv, BoundRows, Attached
    <3>2. turns[t].sub \in Subs BY <1>3, <2>1 DEF SInv, IInv, TypeOK, Turn
    <3>3. QED BY <1>3, <2>1, <3>1, <3>2 DEF SInv, BoundRows, SameBinding
  <2>2. CASE turns'[t].pc = "llm" /\ turns'[t].sid \in Sids
             /\ turns'[t].sub = store[turns'[t].sid].sub
    <3>1. store[turns'[t].sid].live
      BY <1>3, <2>2, Constants DEF SInv, IInv, Attached
    <3>2. store[turns'[t].sid].sub \in Subs /\ sock[turns'[t].sid] # "new"
      BY <1>3, <2>2, <3>1 DEF SInv, IInv, TypeOK, Attached, Session
    <3>3. QED BY <1>3, <2>2, <3>2 DEF SInv, BoundRows, SameBinding
  <2>3. QED BY <1>3, <2>1, <2>2
<1>4. QED BY <1>1, <1>2, <1>3 DEF SInv, BoundRows

\* Joining opens a row only for a user who has none to resume.
LEMMA JoinOpensOne ==
    ASSUME SInv, IInv', NEW t \in Turns, JoinBind(t) PROVE SInv'
<1> DEFINE s == turns[t].sid
           u == owner[s]
           resumed == Resumable(u, s) # {}
<1>1. s \in Sids /\ u \in Users /\ turns[t].sub = 0
  BY DEF JoinBind, Attached, SInv, IInv, BoundRows
<1>2. PICK i \in IF resumed THEN Latest(Resumable(u, s)) ELSE FirstFree :
        /\ rows' = [rows EXCEPT ![i] =
                      IF resumed THEN [rows[i] EXCEPT !.sid = s]
                      ELSE [NoRow EXCEPT !.state = "open", !.user = u, !.sid = s]]
        /\ store' = IF store[s].live THEN [store EXCEPT ![s].sub = i] ELSE store
        /\ turns' = [turns EXCEPT ![t] = Idle]
  BY DEF JoinBind
<1>3. i \in Subs /\ (resumed => rows[i].state = "open" /\ rows[i].user = u)
      /\ (~resumed => rows[i].state = "none")
  BY <1>2 DEF Latest, Resumable, OpenRows, FirstFree
<1>4. ~resumed /\ u # Anon => \A j \in Subs : ~(rows[j].state = "open" /\ rows[j].user = u)
  BY DEF Resumable, OpenRows
<1>5. rows'[i].state = "open" /\ rows'[i].user = u
      /\ \A j \in Subs : j # i => rows'[j] = rows[j]
  <2>1. CASE resumed
    <3>1. rows[i] \in Row BY <1>3 DEF SInv, IInv, TypeOK
    <3>2. rows'[i] = [rows[i] EXCEPT !.sid = s] BY <1>2, <1>3, <2>1 DEF SInv, IInv, TypeOK
    <3>3. rows'[i].state = "open" /\ rows'[i].user = u BY <1>3, <2>1, <3>1, <3>2 DEF Row
    <3>4. QED BY <1>2, <1>3, <2>1, <3>3 DEF SInv, IInv, TypeOK
  <2>2. CASE ~resumed
    BY <1>2, <1>3, <2>2 DEF SInv, IInv, TypeOK, NoRow
  <2>3. QED BY <2>1, <2>2
<1> HIDE DEF resumed
<1>6. OneOpenSubmission' BY <1>3, <1>4, <1>5 DEF SInv, OneOpenSubmission
<1>7. \A q \in Sids : \/ store'[q].sub = store[q].sub /\ (q = s => store[q].sub = 0)
                      \/ q = s /\ store'[q].sub = i
  <2>1. store \in [Sids -> Session] BY DEF SInv, IInv, TypeOK
  <2>2. ~store[s].live => store[s].sub = 0 BY <1>1, Constants DEF SInv, IInv, Attached
  <2>3. QED BY <1>1, <1>2, <2>1, <2>2 DEF Session
<1>8. owner' = owner BY DEF JoinBind
<1>9. ASSUME NEW q \in Sids, store'[q].sub # 0
      PROVE  rows'[store'[q].sub].state # "none" /\ rows'[store'[q].sub].user = owner'[q]
  <2>1. store'[q].sub \in Subs BY <1>9 DEF IInv, TypeOK, Session
  <2>2. QED BY <1>3, <1>5, <1>7, <1>8, <1>9, <2>1 DEF SInv, BoundRows
<1>10. ASSUME NEW r \in Turns, turns'[r].sub # 0
       PROVE  /\ turns'[r].pc = "llm" /\ rows'[turns'[r].sub].state # "none"
              /\ rows'[turns'[r].sub].user = owner'[turns'[r].sid]
  <2>1. turns'[r] = turns[r]
    BY <1>2, <1>10, Constants DEF SInv, IInv, TypeOK
  <2>2. turns[r].sub \in Subs BY <1>10, <2>1 DEF SInv, IInv, TypeOK, Turn
  <2>3. QED BY <1>3, <1>5, <1>8, <1>10, <2>1, <2>2 DEF SInv, BoundRows
<1>11. QED BY <1>6, <1>9, <1>10 DEF SInv, BoundRows

\* What the record constants and the updates of a turn or a session leave in place.
LEMMA Untouched ==
    /\ \A h \in Turn : \A b : LET g == [h EXCEPT !.retried = b]
                              IN g.sub = h.sub /\ g.sid = h.sid /\ g.pc = h.pc
    /\ \A e \in Session : \A b : /\ [e EXCEPT !.stopped = b].sub = e.sub
                                 /\ [e EXCEPT !.cell = b].sub = e.sub
    /\ \A s : [Idle EXCEPT !.pc = "joining", !.sid = s].sub = 0
    /\ \A s, k, c, i : LET g == [Idle EXCEPT !.pc = "llm", !.sid = s, !.kind = k,
                                            !.cell = c, !.sub = i]
                      IN g.pc = "llm" /\ g.sid = s /\ g.sub = i
  BY DEF Turn, Session, Idle

\* Connections and removals leave the rows alone.
LEMMA LossKeeps ==
    ASSUME SInv, IInv',
           \/ \E s \in Sids, u \in Users : Connect(s, u)
           \/ \E old, s \in Sids : Reconnect(old, s)
           \/ \E s \in Sids : Disconnect(s) \/ StaleCleanup(s) \/ RedisEvict(s)
           \/ WorkerRestart
    PROVE  SInv'
<1>1. rows' = rows
  BY DEF Connect, Reconnect, Disconnect, StaleCleanup, RedisEvict, WorkerRestart
<1>2. \A s \in Sids : sock[s] # "new" => owner'[s] = owner[s]
  BY DEF SInv, IInv, TypeOK, Connect, Reconnect, Disconnect, StaleCleanup, RedisEvict, WorkerRestart
<1>3. (\E S : store' = Without(S)) \/ store' = store
  BY RemovedSome DEF Connect, Reconnect, Disconnect, StaleCleanup, RedisEvict, WorkerRestart
<1>4. (\E S : turns' = Detach(S)) \/ turns' = turns \/ turns' = [t \in Turns |-> Idle]
  BY DEF Connect, Reconnect, Disconnect, StaleCleanup, RedisEvict, WorkerRestart
<1>5. \A s \in Sids : store'[s].sub = store[s].sub \/ store'[s].sub = 0
  BY <1>3, RemovalType, Constants DEF SInv, IInv
<1>6. \A t \in Turns : \/ turns'[t].sub = 0
                       \/ /\ turns'[t].sub = turns[t].sub /\ turns'[t].sid = turns[t].sid
                          /\ turns'[t].pc = turns[t].pc
  BY <1>4, DetachType, Constants DEF SInv, IInv
<1>7. QED BY <1>1, <1>2, <1>5, <1>6, NothingOpened DEF SameBinding

\* A stop and a cleared chat change a session's flag or lists.
LEMMA StopKeeps ==
    ASSUME SInv, IInv', NEW s \in Sids, StopAI(s) \/ ClearChat(s) PROVE SInv'
<1>1. rows' = rows /\ owner' = owner /\ turns' = turns BY DEF StopAI, ClearChat
<1>2. store \in [Sids -> Session] BY DEF SInv, IInv, TypeOK
<1>3. \A q \in Sids : store'[q].sub = store[q].sub
  <2>1. CASE StopAI(s) BY <1>2, <2>1 DEF StopAI, Session
  <2>2. CASE ClearChat(s)
    <3>1. PICK c : store' = [store EXCEPT ![s].cell = c] BY <2>2 DEF ClearChat
    <3>2. QED BY <1>2, <3>1 DEF Session
  <2>3. QED BY <2>1, <2>2
<1>4. QED BY <1>1, <1>3, NothingOpened DEF SameBinding

\* Chat events write no row and hand a turn the row of its session.
LEMMA SendKeeps ==
    ASSUME SInv, IInv', NEW t \in Turns, NEW s \in Sids,
           \/ JoinCreate(t, s) \/ SendGreeting(t, s) \/ SendMessage(t, s)
           \/ RequestCompletion(t, s) \/ RequestAnalysis(t, s)
    PROVE  SInv'
<1>1. rows' = rows /\ owner' = owner
  BY DEF JoinCreate, SendGreeting, SendMessage, RequestCompletion, RequestAnalysis
<1>2. store \in [Sids -> Session] /\ turns \in [Turns -> Turn] BY DEF SInv, IInv, TypeOK
<1>3. CASE Unanswered(s)
  BY <1>1, <1>3, NothingOpened DEF SameBinding, Unanswered
<1>4. CASE JoinCreate(t, s)
  <2>1. \A q \in Sids : store'[q].sub = store[q].sub \/ store'[q].sub = 0
    BY <1>2, <1>4 DEF JoinCreate
  <2>2. \A r \in Turns : turns'[r].sub = 0 \/ turns'[r] = turns[r]
    BY <1>2, <1>4, Untouched DEF JoinCreate
  <2>3. QED BY <1>1, <2>1, <2>2, NothingOpened DEF SameBinding
<1>5. ASSUME NEW kind, NEW entries, Begin(t, s, kind, entries) PROVE SInv'
  <2>1. PICK c : turns' = [turns EXCEPT ![t] =
                    [Idle EXCEPT !.pc = "llm", !.sid = s, !.kind = kind,
                                 !.cell = c, !.sub = store[s].sub]]
    BY <1>5 DEF Begin
  <2>2. \A r \in Turns : \/ turns'[r] = turns[r]
                         \/ /\ turns'[r].pc = "llm" /\ turns'[r].sid = s
                            /\ turns'[r].sub = store[s].sub
    BY <1>2, <2>1, Untouched
  <2>3. \A q \in Sids : store'[q].sub = store[q].sub
    BY <1>2, <1>5, Untouched DEF Begin
  <2>4. QED BY <1>1, <2>2, <2>3, NothingOpened DEF SameBinding
<1>6. QED
  BY <1>3, <1>4, <1>5 DEF SendGreeting, SendMessage, RequestCompletion, RequestAnalysis

\* Answers and autosaves change a row's chat or draft.
LEMMA AnswerKeeps ==
    ASSUME SInv, IInv',
           \/ \E t \in Turns, more \in BOOLEAN : Reply(t, more)
           \/ \E t \in Turns : Malformed(t) \/ ServiceError(t)
           \/ \E s \in Sids, x \in Xmls : AutoSave(s, x)
    PROVE  SInv'
<1>1. store' = store /\ owner' = owner
  BY DEF Reply, Malformed, ServiceError, AutoSave
<1>2. rows \in [Subs -> Row] /\ turns \in [Turns -> Turn] BY DEF SInv, IInv, TypeOK
<1>3. \A i \in Subs : SameBinding(rows[i], rows'[i])
  <2>1. CASE rows' = rows BY <2>1 DEF SameBinding
  <2>2. ASSUME NEW i, NEW c, rows' = [rows EXCEPT ![i].chat = c]
        PROVE  \A j \in Subs : SameBinding(rows[j], rows'[j])
    BY <1>2, <2>2, BindingUpdates DEF SameBinding
  <2>3. ASSUME NEW i, NEW x, rows' = [rows EXCEPT ![i].draft = x]
        PROVE  \A j \in Subs : SameBinding(rows[j], rows'[j])
    BY <1>2, <2>3, BindingUpdates DEF SameBinding
  <2>4. QED BY <2>1, <2>2, <2>3 DEF Reply, Malformed, ServiceError, AutoSave
<1>4. \A t \in Turns : \/ turns'[t].sub = 0
                       \/ /\ turns'[t].sub = turns[t].sub /\ turns'[t].sid = turns[t].sid
                          /\ turns'[t].pc = turns[t].pc
  <2>1. CASE turns' = turns BY <2>1
  <2>2. ASSUME NEW t, \/ turns' = [turns EXCEPT ![t] = Idle]
                      \/ turns' = [turns EXCEPT ![t] = [turns[t] EXCEPT !.retried = FALSE]]
                      \/ turns' = [turns EXCEPT ![t].retried = TRUE]
        PROVE  \A r \in Turns :
                  \/ turns'[r].sub = 0
                  \/ /\ turns'[r].sub = turns[r].sub /\ turns'[r].sid = turns[r].sid
                     /\ turns'[r].pc = turns[r].pc
    <3>1. CASE turns' = [turns EXCEPT ![t] = Idle] BY <1>2, <3>1, Constants
    <3>2. CASE turns' = [turns EXCEPT ![t] = [turns[t] EXCEPT !.retried = FALSE]]
      BY <1>2, <3>2 DEF Turn
    <3>3. CASE turns' = [turns EXCEPT ![t].retried = TRUE] BY <1>2, <3>3 DEF Turn
    <3>4. QED BY <2>2, <3>1, <3>2, <3>3
  <2>3. QED BY <2>1, <2>2 DEF Reply, Malformed, ServiceError, AutoSave
<1>5. QED BY <1>1, <1>3, <1>4, NothingOpened

\* A save completes open rows of the sessions it removes, or the user's latest.
LEMMA SaveKeeps ==
    ASSUME SInv, IInv', NEW s \in Sids, NEW x \in Xmls, SaveBpmn(s, x) \/ SaveNoSid(s, x)
    PROVE  SInv'
<1>1. \A S : /\ \A q \in Sids : Without(S)[q].sub = store[q].sub \/ Without(S)[q].sub = 0
            /\ \A t \in Turns : /\ Detach(S)[t].sub = turns[t].sub
                                /\ Detach(S)[t].sid = turns[t].sid
                                /\ Detach(S)[t].pc = turns[t].pc
  BY RemovalType, DetachType, Constants DEF SInv, IInv
<1>2. rows \in [Subs -> Row] /\ store \in [Sids -> Session] BY DEF SInv, IInv, TypeOK
<1>3. \A u : \A i \in Subs : SameBinding(rows[i], Fallback(rows, u, x)[i])
  <2>1. ASSUME NEW u, NEW i \in Subs PROVE SameBinding(rows[i], Fallback(rows, u, x)[i])
    <3>1. CASE u # Anon /\ i \in Latest(OpenRows(u))
      <4>1. rows[i].state = "open" BY <3>1, LatestInside DEF OpenRows
      <4>2. Fallback(rows, u, x)[i] = [rows[i] EXCEPT !.state = "done", !.final = x]
        BY <3>1 DEF Fallback
      <4>3. SameBinding(rows[i], [rows[i] EXCEPT !.state = "done", !.final = x])
        BY <1>2, <4>1 DEF Row, SameBinding
      <4>4. QED BY <4>2, <4>3
    <3>2. CASE ~(u # Anon /\ i \in Latest(OpenRows(u)))
      BY <3>2 DEF Fallback, SameBinding
    <3>3. QED BY <3>1, <3>2
  <2>2. QED BY <2>1
<1>4. ASSUME NEW q \in Sids, NEW n, NEW i \in Subs, store[q].sub = i
      PROVE  SameBinding(rows[i], Persisted(rows[i], store[q], x, n))
  <2>1. rows[i] \in Row /\ rows[i].state # "none"
    BY <1>2, <1>4 DEF SInv, BoundRows, Subs
  <2>2. QED BY <2>1, BindingUpdates
<1>5. \A i \in Subs : SameBinding(rows[i], rows'[i])
  <2>1. CASE SaveBpmn(s, x)
    <3>1. CASE store[s].live /\ store[s].sub # 0
      <4>1. rows' = [rows EXCEPT ![store[s].sub] =
                       Persisted(@, store[s], x, Untracked({s})[s])]
        BY <2>1, <3>1 DEF SaveBpmn
      <4>2. QED BY <1>2, <1>4, <4>1 DEF SameBinding
    <3>2. CASE ~(store[s].live /\ store[s].sub # 0)
      BY <1>3, <2>1, <3>2 DEF SaveBpmn
    <3>3. QED BY <3>1, <3>2
  <2>2. CASE SaveNoSid(s, x)
    <3> DEFINE all == {q \in Sids : store[q].live}
               bound == {q \in all : store[q].sub # 0}
    <3>1. PICK last \in [{store[q].sub : q \in bound} -> bound] :
            /\ \A i \in DOMAIN last : store[last[i]].sub = i
            /\ rows' = IF bound = {} THEN Fallback(rows, owner[s], x)
                       ELSE [i \in Subs |->
                               IF i \in DOMAIN last
                               THEN Persisted(rows[i], store[last[i]], x, Untracked(all)[last[i]])
                               ELSE rows[i]]
      BY <2>2 DEF SaveNoSid
    <3>2. CASE bound = {} BY <1>3, <3>1, <3>2
    <3>3. CASE bound # {}
      <4>1. ASSUME NEW i \in Subs PROVE SameBinding(rows[i], rows'[i])
        <5>1. CASE i \in DOMAIN last
          <6>1. last[i] \in Sids /\ store[last[i]].sub = i BY <3>1, <5>1
          <6>2. rows'[i] = Persisted(rows[i], store[last[i]], x, Untracked(all)[last[i]])
            BY <3>1, <3>3, <5>1
          <6>3. QED BY <1>4, <6>1, <6>2
        <5>2. CASE i \notin DOMAIN last
          <6>1. rows'[i] = rows[i] BY <3>1, <3>3, <5>2
          <6>2. QED BY <6>1 DEF SameBinding
        <5>3. QED BY <5>1, <5>2
      <4>2. QED BY <4>1
    <3>4. QED BY <3>2, <3>3
  <2>3. QED BY <2>1, <2>2
<1>6. owner' = owner /\ (\E S : store' = Without(S)) /\ (\E S : turns' = Detach(S))
  BY RemovedSome DEF SaveBpmn, SaveNoSid
<1>7. QED BY <1>1, <1>5, <1>6, NothingOpened

\* Every step keeps the sessions apart.
LEMMA StepSInv == SInv /\ [Next]_vars => SInv'
<1> SUFFICES ASSUME SInv, [Next]_vars PROVE SInv' OBVIOUS
<1>1. IInv' BY StepIInv DEF SInv
<1>2. CASE UNCHANGED vars
  <2>1. BoundRows' /\ OneOpenSubmission'
    BY <1>2 DEF vars, SInv, BoundRows, OneOpenSubmission
  <2>2. QED BY <1>1, <2>1 DEF SInv
<1>3. CASE \/ \E s \in Sids, u \in Users : Connect(s, u)
           \/ \E old, s \in Sids : Reconnect(old, s)
           \/ \E s \in Sids : Disconnect(s) \/ StaleCleanup(s) \/ RedisEvict(s)
           \/ WorkerRestart
  BY <1>1, <1>3, LossKeeps
<1>4. CASE \E t \in Turns, s \in Sids :
            \/ JoinCreate(t, s) \/ SendGreeting(t, s) \/ SendMessage(t, s)
            \/ RequestCompletion(t, s) \/ RequestAnalysis(t, s)
  BY <1>1, <1>4, SendKeeps
<1>5. CASE \E s \in Sids : StopAI(s) \/ ClearChat(s)
  BY <1>1, <1>5, StopKeeps
<1>6. CASE \E t \in Turns : JoinBind(t) BY <1>1, <1>6, JoinOpensOne
<1>7. CASE \/ \E t \in Turns, more \in BOOLEAN : Reply(t, more)
           \/ \E t \in Turns : Malformed(t) \/ ServiceError(t)
           \/ \E s \in Sids, x \in Xmls : AutoSave(s, x)
  BY <1>1, <1>7, AnswerKeeps
<1>8. CASE \E s \in Sids, x \in Xmls : SaveBpmn(s, x) \/ SaveNoSid(s, x)
  BY <1>1, <1>8, SaveKeeps
<1>9. QED BY <1>2, <1>3, <1>4, <1>5, <1>6, <1>7, <1>8 DEF Next

\* However tabs, reconnections, restarts and saves overlap, no account ever has
\* two open submissions for the task (handle_join_task, save_bpmn).
THEOREM OneOpen == Spec => []OneOpenSubmission
<1>1. Init => SInv BY InitSInv
<1>2. SInv /\ [Next]_vars => SInv' BY StepSInv
<1>3. SInv => OneOpenSubmission BY DEF SInv
<1>4. QED BY <1>1, <1>2, <1>3, PTL DEF Spec

\* A save from a connected page completes the one row its user has open: the
\* row of the session or, when the session is gone, the one the fallback finds.
LEMMA SaveCloses ==
    ASSUME SInv, [Next]_vars, NEW s \in Sids,
           sock[s] # "leaving", sock'[s] = "leaving", owner[s] # Anon,
           store[s].sub # 0 => rows[store[s].sub].state = "open",
           NEW i \in Subs, rows'[i].state = "open", rows'[i].user = owner[s]
    PROVE  FALSE
<1>1. rows \in [Subs -> Row] /\ store[s] \in Session BY DEF SInv, IInv, TypeOK
<1>2. PICK x \in Xmls : SaveBpmn(s, x)
  <2>1. sock \in [Sids -> PageStates] BY DEF SInv, IInv, TypeOK
  <2>2. PICK q \in Sids, x \in Xmls : SaveBpmn(q, x)
    BY <2>1 DEF Next, vars, Connect, Reconnect, Disconnect, StaleCleanup, RedisEvict,
      WorkerRestart, JoinCreate, JoinBind, SendGreeting, SendMessage, RequestCompletion,
      RequestAnalysis, StopAI, ClearChat, Reply, Unlock, Malformed, ServiceError,
      AutoSave, SaveNoSid
  <2>3. q = s BY <2>1, <2>2 DEF SaveBpmn
  <2>4. QED BY <2>2, <2>3
<1>3. CASE store[s].live /\ store[s].sub # 0
  <2>1. rows' = [rows EXCEPT ![store[s].sub] = Persisted(@, store[s], x, Untracked({s})[s])]
    BY <1>2, <1>3 DEF SaveBpmn
  <2>2. store[s].sub \in Subs /\ rows[store[s].sub].user = owner[s]
        /\ rows[store[s].sub].state = "open"
    BY <1>1, <1>3 DEF Session, SInv, BoundRows
  <2>3. rows'[store[s].sub].state = "done"
    BY <1>1, <2>1, <2>2 DEF Persisted, Row
  <2>4. i # store[s].sub /\ rows'[i] = rows[i] BY <1>1, <2>1, <2>3
  <2>5. QED BY <2>2, <2>4 DEF SInv, OneOpenSubmission
<1>4. CASE ~(store[s].live /\ store[s].sub # 0)
  <2>1. rows' = Fallback(rows, owner[s], x) BY <1>2, <1>4 DEF SaveBpmn
  <2>2. CASE i \in Latest(OpenRows(owner[s]))
    BY <1>1, <2>1, <2>2 DEF Fallback, Row
  <2>3. CASE i \notin Latest(OpenRows(owner[s]))
    <3>1. rows'[i] = rows[i] BY <2>1, <2>3 DEF Fallback
    <3>2. i \in OpenRows(owner[s]) BY <3>1 DEF OpenRows
    <3>3. OpenRows(owner[s]) \subseteq {i}
      BY <3>2 DEF OpenRows, SInv, OneOpenSubmission
    <3>4. i <= i BY DEF Subs
    <3>5. QED BY <2>3, <3>2, <3>3, <3>4 DEF Latest
  <2>4. QED BY <2>2, <2>3
<1>5. QED BY <1>3, <1>4

\* After a save from a connected page its user has no open submission left, for
\* any number of tabs and any interleaving with turns, losses and other saves.
THEOREM SaveClosesEverything == Spec => SaveLeavesNothingOpen
<1> DEFINE Closes == \A s \in Sids :
          /\ sock[s] # "leaving" /\ sock'[s] = "leaving" /\ owner[s] # Anon
          /\ store[s].sub # 0 => rows[store[s].sub].state = "open"
          => \A i \in Subs : ~(rows'[i].state = "open" /\ rows'[i].user = owner[s])
<1>1. Init => SInv BY InitSInv
<1>2. SInv /\ [Next]_vars => SInv' BY StepSInv
<1>3. SInv /\ [Next]_vars => [Closes]_vars BY SaveCloses
<1>4. Spec => [][Closes]_vars BY <1>1, <1>2, <1>3, PTL DEF Spec
<1>5. QED BY <1>4 DEF SaveLeavesNothingOpen

-----------------------------------------------------------------------------
(* The late autosave *)

\* A completed row stays as it is, its chat log and its score apart.
Settled(r1, r2) == r1.state = "done" => r2.state = "done" /\ r2.draft = r1.draft

\* What the handlers do to a row settles it or leaves it settled.
LEMMA SettledUpdates ==
    ASSUME NEW r \in Row
    PROVE  /\ \A c : Settled(r, [r EXCEPT !.chat = c])
           /\ \A x : Settled(r, [r EXCEPT !.state = "done", !.final = x])
           /\ \A e, x, n : Settled(r, Persisted(r, e, x, n))
  BY DEF Row, Settled, Persisted

\* join_task and auto_save_bpmn choose rows that are not completed; everybody
\* else writes other columns, or completes.
LEMMA StepSettles ==
    ASSUME TypeOK, [Next]_vars, NEW i \in Subs PROVE Settled(rows[i], rows'[i])
<1>1. rows \in [Subs -> Row] BY DEF TypeOK
<1>2. CASE rows' = rows BY <1>2 DEF Settled
<1>3. CASE \E t \in Turns : JoinBind(t)
  <2>1. PICK t \in Turns : JoinBind(t) BY <1>3
  <2>2. PICK j \in Subs : /\ rows[j].state # "done"
                          /\ \E r : rows' = [rows EXCEPT ![j] = r]
    BY <2>1 DEF JoinBind, Latest, Resumable, OpenRows, FirstFree
  <2>3. QED BY <1>1, <2>2 DEF Settled
<1>4. CASE \E t \in Turns, more \in BOOLEAN : Reply(t, more)
  <2>1. rows' = rows \/ \E j, c : rows' = [rows EXCEPT ![j].chat = c] BY <1>4 DEF Reply
  <2>2. rows'[i] = rows[i] \/ \E c : rows'[i] = [rows[i] EXCEPT !.chat = c] BY <1>1, <2>1
  <2>3. rows[i] \in Row BY <1>1
  <2>4. \A c : Settled(rows[i], [rows[i] EXCEPT !.chat = c]) BY <2>3, SettledUpdates
  <2>5. Settled(rows[i], rows[i]) BY DEF Settled
  <2>6. QED BY <2>2, <2>4, <2>5
<1>5. CASE \E s \in Sids, x \in Xmls : AutoSave(s, x)
  <2>1. PICK j \in Subs, x \in Xmls : rows[j].state = "open" /\ rows' = [rows EXCEPT ![j].draft = x]
    BY <1>5 DEF AutoSave, Latest, DraftRows
  <2>2. QED BY <1>1, <2>1 DEF Settled
<1>6. \A u, x : Settled(rows[i], Fallback(rows, u, x)[i])
  BY <1>1, SettledUpdates DEF Fallback, Settled
<1>7. CASE \E s \in Sids, x \in Xmls : SaveBpmn(s, x)
  <2>1. PICK s \in Sids, x \in Xmls : SaveBpmn(s, x) BY <1>7
  <2>2. \/ \E n : rows' = [rows EXCEPT ![store[s].sub] = Persisted(@, store[s], x, n)]
        \/ rows' = Fallback(rows, owner[s], x)
    BY <2>1 DEF SaveBpmn
  <2>3. QED BY <1>1, <1>6, <2>2, SettledUpdates DEF Settled
<1>8. CASE \E s \in Sids, x \in Xmls : SaveNoSid(s, x)
  <2>1. PICK s \in Sids, x \in Xmls : SaveNoSid(s, x) BY <1>8
  <2>2. \/ rows' = Fallback(rows, owner[s], x)
        \/ rows'[i] = rows[i]
        \/ \E e, n : rows'[i] = Persisted(rows[i], e, x, n)
    BY <2>1 DEF SaveNoSid
  <2>3. QED BY <1>1, <1>6, <2>2, SettledUpdates DEF Settled
<1>9. QED
  BY <1>2, <1>3, <1>4, <1>5, <1>7, <1>8
     DEF Next, vars, Connect, Reconnect, Disconnect, StaleCleanup, RedisEvict, WorkerRestart,
         JoinCreate, SendGreeting, SendMessage, RequestCompletion, RequestAnalysis, StopAI,
         ClearChat, Malformed, ServiceError

\* A completed submission stays completed and its draft stays what it was, for
\* every order of saves, autosaves, joins, answers and restarts (auto_save_bpmn).
THEOREM CompletedStays == Spec => LateAutosaveIsDropped
<1>1. TypeOK /\ [Next]_vars => [\A i \in Subs : rows[i].state = "done" =>
          rows'[i].state = "done" /\ rows'[i].draft = rows[i].draft]_vars
  BY StepSettles DEF Settled
<1>2. QED BY <1>1, TypeCorrect, PTL DEF Spec, LateAutosaveIsDropped

-----------------------------------------------------------------------------
(* Statistics *)

\* Only a session that is being joined is not counted yet.
Counting ==
    /\ StatsFollowSession
    /\ \A t \in Turns : turns[t].pc = "joining" => store[turns[t].sid].live

\* Removing sessions together with their entries.
LEMMA RemovalCounts ==
    ASSUME IInv, Counting, NEW S,
           store' = Without(S),
           \A s \in Sids : s \in S => tracker'[s] = NoStats,
           \A s \in Sids : s \notin S => tracker'[s] = tracker[s],
           \A s \in Sids : s \notin S /\ sock'[s] # "joining" => sock[s] # "joining" \/ ~store[s].live,
           \A t \in Turns : turns'[t].pc # "joining"
    PROVE  Counting'
  BY RemovalType, Constants DEF IInv, Counting, StatsFollowSession, StatsHaveSession

\* Steps that neither remove a session nor end a join.
LEMMA SessionsCount ==
    ASSUME IInv, Counting,
           \A s \in Sids : store'[s].live <=> store[s].live,
           \A s \in Sids : tracker'[s] = NoStats <=> tracker[s] = NoStats,
           \A s \in Sids : sock'[s] # "joining" => sock[s] # "joining" \/ ~store[s].live,
           \A t \in Turns : turns'[t].pc = "joining" => turns[t].pc = "joining" /\ turns'[t].sid = turns[t].sid
    PROVE  Counting'
  BY DEF IInv, Attached, Counting, StatsFollowSession, StatsHaveSession

\* Every step of a server that keeps its sessions in memory.
LEMMA StepCounts ==
    ASSUME InMemory, IInv, IInv', Counting, [Next]_vars PROVE Counting'
<1> USE DEF IInv
<1>1. store \in [Sids -> Session] /\ turns \in [Turns -> Turn] /\ tracker \in [Sids -> Stats]
      /\ sock \in [Sids -> PageStates]
  BY DEF TypeOK
<1>2. \A s \in Sids : store[s] \in Session BY <1>1
<1>3. CASE UNCHANGED vars
  BY <1>3 DEF vars, Counting, StatsFollowSession, StatsHaveSession
<1>4. CASE \/ \E s \in Sids, u \in Users : Connect(s, u)
           \/ \E old, s \in Sids : Reconnect(old, s)
  <2>1. store' = store /\ tracker' = tracker /\ turns' = turns BY <1>4 DEF Connect, Reconnect
  <2>2. \A q \in Sids : sock'[q] # "joining" => sock[q] # "joining"
    BY <1>1, <1>4 DEF Connect, Reconnect
  <2>3. QED BY <2>1, <2>2, SessionsCount
<1>5. ASSUME NEW s \in Sids, Disconnect(s) \/ StaleCleanup(s) \/ (\E x \in Xmls : SaveBpmn(s, x))
      PROVE  Counting'
  <2>1. store' = Without({s}) /\ turns' = Detach({s})
    BY <1>5, RemovedSome DEF Disconnect, StaleCleanup, SaveBpmn
  <2>2. tracker' = IF store[s].live THEN Untracked({s}) ELSE tracker
    BY <1>5 DEF Disconnect, StaleCleanup, SaveBpmn
  <2>3. ~store[s].live => tracker[s] = NoStats
    BY DEF Counting, StatsFollowSession, StatsHaveSession
  <2>4. \A t \in Turns : turns[t].pc # "joining"
    BY <1>5 DEF Disconnect, StaleCleanup, SaveBpmn, Yielded
  <2>5. \A t \in Turns : turns'[t].pc # "joining" BY <2>1, <2>4, DetachType
  <2>6. \A q \in Sids : q # s => sock'[q] = sock[q]
    BY <1>1, <1>5 DEF Disconnect, StaleCleanup, SaveBpmn
  <2>7. \A q \in Sids : q = s => tracker'[q] = NoStats
    BY <2>2, <2>3 DEF Untracked
  <2>8. \A q \in Sids : q # s => tracker'[q] = tracker[q]
    BY <1>1, <2>2 DEF Untracked
  <2>9. QED BY <2>1, <2>5, <2>6, <2>7, <2>8, RemovalCounts
<1>6. CASE \E s \in Sids, x \in Xmls : SaveNoSid(s, x)
  <2>1. PICK s \in Sids, x \in Xmls : SaveNoSid(s, x) BY <1>6
  <2> DEFINE all == {q \in Sids : store[q].live}
  <2>2. store' = Without(all) /\ turns' = Detach(all) /\ tracker' = Untracked(all)
    BY <2>1, RemovedSome DEF SaveNoSid
  <2>3. \A t \in Turns : turns'[t].pc # "joining"
    BY <2>1, <2>2, DetachType DEF SaveNoSid, Yielded
  <2>4. \A q \in Sids : q \in all => tracker'[q] = NoStats BY <2>2 DEF Untracked
  <2>5. \A q \in Sids : q \notin all => tracker'[q] = tracker[q] BY <2>2 DEF Untracked
  <2>6. \A q \in Sids : q \notin all => ~store[q].live OBVIOUS
  <2> HIDE DEF all
  <2>7. QED BY <2>2, <2>3, <2>4, <2>5, <2>6, RemovalCounts
<1>7. CASE WorkerRestart
  <2>1. store' = Without(Sids) BY <1>7 DEF WorkerRestart
  <2>2. \A s \in Sids : tracker'[s] = NoStats BY <1>7 DEF WorkerRestart
  <2>3. \A t \in Turns : turns'[t].pc # "joining" BY <1>7, Constants DEF WorkerRestart
  <2>4. QED BY <2>1, <2>2, <2>3, RemovalCounts
<1>8. CASE \E t \in Turns, s \in Sids : JoinCreate(t, s)
  <2>1. PICK t \in Turns, s \in Sids : JoinCreate(t, s) BY <1>8
  <2>2. PICK c : store' = [store EXCEPT ![s] =
                    [live |-> TRUE, stopped |-> FALSE, sub |-> 0, cell |-> c]]
    BY <2>1 DEF JoinCreate
  <2>3. turns' = [turns EXCEPT ![t] = [Idle EXCEPT !.pc = "joining", !.sid = s]]
        /\ sock' = [sock EXCEPT ![s] = "joining"] /\ tracker' = tracker
    BY <2>1 DEF JoinCreate
  <2>4. [Idle EXCEPT !.pc = "joining", !.sid = s].sid = s BY DEF Idle
  <2>5. \A q \in Sids : store[q].live => store'[q].live BY <1>1, <2>2
  <2>6. \A q \in Sids : q # s => store'[q] = store[q] /\ sock'[q] = sock[q]
    BY <1>1, <2>2, <2>3
  <2>7. store'[s].live /\ sock'[s] = "joining" BY <1>1, <2>2, <2>3
  <2>8. StatsFollowSession'
    BY <2>3, <2>5, <2>6, <2>7 DEF Counting, StatsFollowSession, StatsHaveSession
  <2>9. \A r \in Turns : turns'[r].pc = "joining" => store'[turns'[r].sid].live
    BY <1>1, <2>3, <2>4, <2>5, <2>7 DEF Counting, Attached
  <2>10. QED BY <2>8, <2>9 DEF Counting
<1>9. CASE \E t \in Turns : JoinBind(t)
  <2>1. PICK t \in Turns : JoinBind(t) BY <1>9
  <2> DEFINE s == turns[t].sid
  <2>2. s \in Sids /\ store[s].live BY <2>1 DEF JoinBind, Counting, Attached
  <2>3. \E i \in Subs : store' = [store EXCEPT ![s].sub = i]
    BY <2>1, <2>2 DEF JoinBind, Latest, Resumable, OpenRows, FirstFree
  <2>4. \A q \in Sids : store'[q].live = store[q].live BY <1>1, <1>2, <2>2, <2>3 DEF Session
  <2>5. tracker' = IF tracker[s] = NoStats THEN [tracker EXCEPT ![s] = 0] ELSE tracker
    BY <2>1 DEF JoinBind
  <2>6. tracker'[s] # NoStats /\ \A q \in Sids : q # s => tracker'[q] = tracker[q]
    BY <1>1, <2>2, <2>5 DEF NoStats
  <2>7. \A q \in Sids : q # s => sock'[q] = sock[q] BY <1>1, <2>1 DEF JoinBind
  <2>8. \A r \in Turns : turns'[r].pc = "joining" => turns'[r] = turns[r]
    BY <1>1, <2>1, Constants DEF JoinBind
  <2> HIDE DEF s
  <2>9. StatsFollowSession'
    BY <2>2, <2>4, <2>6, <2>7 DEF Counting, StatsFollowSession, StatsHaveSession
  <2>10. QED BY <2>4, <2>8, <2>9 DEF Counting, Attached
<1>10. ASSUME NEW s \in Sids, NEW t \in Turns,
              \/ SendGreeting(t, s) \/ SendMessage(t, s)
              \/ RequestCompletion(t, s) \/ RequestAnalysis(t, s)
       PROVE  Counting'
  <2>1. tracker' = tracker BY <1>10 DEF SendGreeting, SendMessage, RequestCompletion, RequestAnalysis
  <2>2. \A q \in Sids : sock'[q] # "joining" => sock[q] # "joining"
    BY <1>1, <1>10 DEF SendGreeting, SendMessage, RequestCompletion, RequestAnalysis
  <2>3. (\E kind, entries : Begin(t, s, kind, entries)) \/ Unanswered(s)
    BY <1>10 DEF SendGreeting, SendMessage, RequestCompletion, RequestAnalysis
  <2>4. store' = store \/ store' = [store EXCEPT ![s].stopped = FALSE]
    BY <2>3 DEF Begin, Unanswered
  <2>5. \A q \in Sids : store'[q].live <=> store[q].live BY <1>1, <1>2, <2>4 DEF Session
  <2>6. turns' = turns \/ \E c : turns' = [turns EXCEPT ![t] = c] /\ c.pc = "llm"
    <3>1. CASE Unanswered(s) BY <3>1 DEF Unanswered
    <3>2. ASSUME NEW kind, NEW entries, Begin(t, s, kind, entries)
          PROVE  \E c : turns' = [turns EXCEPT ![t] = c] /\ c.pc = "llm"
      <4>1. PICK c : turns' = [turns EXCEPT ![t] =
                        [Idle EXCEPT !.pc = "llm", !.sid = s, !.kind = kind,
                                     !.cell = c, !.sub = store[s].sub]]
        BY <3>2 DEF Begin
      <4>2. [Idle EXCEPT !.pc = "llm", !.sid = s, !.kind = kind,
                         !.cell = c, !.sub = store[s].sub].pc = "llm"
        BY Untouched
      <4>3. QED BY <4>1, <4>2
    <3>3. QED BY <2>3, <3>1, <3>2
  <2>7. \A r \in Turns : turns'[r].pc = "joining" => turns'[r] = turns[r] BY <1>1, <2>6
  <2>8. QED BY <2>1, <2>2, <2>5, <2>7, SessionsCount
<1>11. ASSUME NEW s \in Sids, StopAI(s) \/ ClearChat(s) PROVE Counting'
  <2>1. tracker' = tracker /\ turns' = turns BY <1>11 DEF StopAI, ClearChat
  <2>2. \A q \in Sids : sock'[q] # "joining" => sock[q] # "joining"
    BY <1>1, <1>11 DEF StopAI, ClearChat
  <2>3. \/ store' = store \/ store' = [store EXCEPT ![s].stopped = TRUE]
        \/ \E c : store' = [store EXCEPT ![s].cell = c]
    BY <1>11 DEF StopAI, ClearChat
  <2>4. \A q \in Sids : store'[q].live <=> store[q].live BY <1>1, <1>2, <2>3 DEF Session
  <2>5. QED BY <2>1, <2>2, <2>4, SessionsCount
<1>12. ASSUME NEW t \in Turns, (\E more \in BOOLEAN : Reply(t, more)) \/ Malformed(t) \/ ServiceError(t)
       PROVE  Counting'
  <2>1. store' = store /\ turns[t].sid \in Sids
    BY <1>12 DEF Reply, Malformed, ServiceError, Attached
  <2>2. tracker' = tracker \/ tracker' = Spend(turns[t].sid)
    BY <1>12 DEF Reply, Malformed, ServiceError
  <2>3. \A q \in Sids : tracker'[q] = NoStats <=> tracker[q] = NoStats
    BY <1>1, <2>1, <2>2 DEF Spend, NoStats
  <2>4. sock' = sock \/ sock' = Unlock(turns[t].sid) BY <1>12 DEF Reply, Malformed, ServiceError
  <2>5. \A q \in Sids : sock'[q] # "joining" => sock[q] # "joining"
    BY <1>1, <2>1, <2>4 DEF Unlock
  <2>6. turns[t].pc = "llm" /\ turns[t] \in Turn
    BY <1>1, <1>12 DEF Reply, Malformed, ServiceError
  <2>7. \/ turns' = [turns EXCEPT ![t] = Idle]
        \/ turns' = [turns EXCEPT ![t] = [turns[t] EXCEPT !.retried = FALSE]]
        \/ turns' = [turns EXCEPT ![t] = [turns[t] EXCEPT !.retried = TRUE]]
    BY <1>12 DEF Reply, Malformed, ServiceError
  <2>8. \A r \in Turns : turns'[r].pc = "joining" => turns'[r] = turns[r]
    <3>1. \A b : [turns[t] EXCEPT !.retried = b].pc = "llm" BY <2>6 DEF Turn
    <3>2. turns'[t].pc # "joining" BY <1>1, <2>7, <3>1, Constants
    <3>3. \A r \in Turns : r # t => turns'[r] = turns[r] BY <1>1, <2>7
    <3>4. QED BY <3>2, <3>3
  <2>9. QED BY <2>1, <2>3, <2>5, <2>8, SessionsCount
<1>13. CASE \E s \in Sids, x \in Xmls : AutoSave(s, x)
  BY <1>13 DEF AutoSave, Counting, StatsFollowSession, StatsHaveSession
<1>14. ~\E s \in Sids : RedisEvict(s) BY DEF RedisEvict
<1>15. QED
  BY <1>3, <1>4, <1>5, <1>6, <1>7, <1>8, <1>9, <1>10, <1>11, <1>12, <1>13, <1>14 DEF Next

\* With the in-memory store the tracker holds an entry for every session in use
\* and none that is left over, whichever of the five ways a session takes to end
\* (cleanup_task, save_task_report).
THEOREM StatsFollow == InMemory => (Spec => []StatsFollowSession)
<1>1. Init => IInv /\ Counting
  BY InitIInv, Constants DEF Init, Counting, StatsFollowSession, StatsHaveSession
<1>2. InMemory /\ IInv /\ Counting /\ [Next]_vars => (IInv /\ Counting)'
  BY StepIInv, StepCounts
<1>3. Counting => StatsFollowSession BY DEF Counting
<1>4. SUFFICES ASSUME InMemory PROVE Spec => []StatsFollowSession OBVIOUS
<1>5. IInv /\ Counting /\ [Next]_vars => (IInv /\ Counting)' BY <1>2, <1>4
<1>6. QED BY <1>1, <1>3, <1>5, PTL DEF Spec

-----------------------------------------------------------------------------
(* Isolation of the conversations *)

\* All of a conversation is one user's.
By(chat, u) == \A k \in DOMAIN chat : chat[k].by = u

\* A user works with a conversation through a live session or a waiting handler.
Holds(c, u) ==
    \/ \E s \in Sids : store[s].live /\ store[s].cell = c /\ owner[s] = u
    \/ \E t \in Turns : turns[t].pc = "llm" /\ turns[t].cell = c /\ owner[turns[t].sid] = u

\* No two users work with the same conversation, and all in it is that user's.
OwnConversations ==
    /\ \A c \in Cells : \A u, v : Holds(c, u) /\ Holds(c, v) => u = v
    /\ \A c \in Cells : \A u : Holds(c, u) => By(heap[c], u)

OwnRows == \A i \in Subs : By(rows[i].chat, rows[i].user)

\* What nobody works with any more is empty.
NothingLeft == \A c \in Cells : c \notin InUse => heap[c] = <<>>

ChatInv == SInv /\ NothingLeft /\ OwnConversations /\ OwnRows

\* The invariant of the runs, in the words of the proof.
LEMMA OwnRowsIsolate == OwnRows <=> ChatIsolation
  BY DEF OwnRows, ChatIsolation, By, ToSet

\* A conversation that goes on is still one user's.
LEMMA ByAppend ==
    ASSUME NEW chat \in Seq(Message), NEW m \in Message, NEW u, By(chat, u), m.by = u
    PROVE  By(Append(chat, m), u)
  BY DEF By

\* Nor does one that begins with an older one have another's words.
LEMMA ByConcat ==
    ASSUME NEW a \in Seq(Message), NEW b \in Seq(Message), NEW u, By(a, u), By(b, u)
    PROVE  By(a \o b, u)
  BY DEF By

\* Nobody gets hold of a conversation when sessions and handlers end or go on.
LEMMA NobodyNew ==
    ASSUME IInv,
           \A s \in Sids : store'[s].live => store[s].live /\ store'[s].cell = store[s].cell,
           \A t \in Turns : turns'[t].pc = "llm" =>
               turns[t].pc = "llm" /\ turns'[t].cell = turns[t].cell /\ turns'[t].sid = turns[t].sid,
           \A s \in Sids : sock[s] # "new" => owner'[s] = owner[s],
           NEW c, NEW u, Holds(c, u)'
    PROVE  Holds(c, u)
  BY DEF IInv, Attached, Holds

\* Steps after which a conversation is held by those who held it before and at
\* most one, n, has changed, which only w holds.
LEMMA ConversationsStay ==
    ASSUME ChatInv, NEW n, NEW w,
           \A c \in Cells : \A u : Holds(c, u)' => (Holds(c, u) /\ c # n) \/ (c = n /\ u = w),
           \A c \in Cells : c # n => heap'[c] = heap[c] \/ heap'[c] = <<>>,
           n \in Cells => By(heap'[n], w)
    PROVE  OwnConversations'
<1>1. \A u : By(<<>>, u) BY DEF By
<1>2. QED BY <1>1 DEF ChatInv, OwnConversations

\* Steps after which nobody holds a conversation that he did not hold before.
LEMMA ConversationsEnd ==
    ASSUME ChatInv,
           \A c \in Cells : \A u : Holds(c, u)' => Holds(c, u),
           \A c \in Cells : heap'[c] = heap[c] \/ heap'[c] = <<>>
    PROVE  OwnConversations'
<1>1. \A u : By(<<>>, u) BY DEF By
<1>2. QED BY <1>1 DEF ChatInv, OwnConversations

\* What is collected is left or gone.
LEMMA CollectKeeps ==
    ASSUME NEW h, Collect(h) PROVE \A c \in Cells : heap'[c] = h[c] \/ heap'[c] = <<>>
  BY DEF Collect

\* What a save writes into a row is its user's.
LEMMA PersistedBy ==
    ASSUME ChatInv, NEW q \in Sids, store[q].live, NEW r \in Row, r.user = owner[q], NEW x, NEW n
    PROVE  By(Persisted(r, store[q], x, n).chat, Persisted(r, store[q], x, n).user)
<1>1. store[q].cell \in Cells /\ Holds(store[q].cell, owner[q])
  BY DEF ChatInv, SInv, IInv, Attached, Holds
<1>2. By(heap[store[q].cell], owner[q]) BY <1>1 DEF ChatInv, OwnConversations
<1>3. Persisted(r, store[q], x, n).chat = heap[store[q].cell]
      /\ Persisted(r, store[q], x, n).user = r.user
  BY DEF Persisted, Row
<1>4. QED BY <1>2, <1>3

\* Connections, losses, stops and failures write no chat log.
LEMMA EndsIsolate ==
    ASSUME ChatInv, SInv', NothingLeft',
           \/ \E s \in Sids, u \in Users : Connect(s, u)
           \/ \E old, s \in Sids : Reconnect(old, s)
           \/ \E s \in Sids : Disconnect(s) \/ StaleCleanup(s) \/ RedisEvict(s) \/ StopAI(s)
           \/ WorkerRestart
           \/ \E t \in Turns : Malformed(t) \/ ServiceError(t)
           \/ \E s \in Sids, x \in Xmls : AutoSave(s, x)
    PROVE  ChatInv'
<1> USE DEF ChatInv, SInv, IInv
<1>1. store \in [Sids -> Session] /\ turns \in [Turns -> Turn] /\ rows \in [Subs -> Row]
  BY DEF TypeOK
<1>2. \A s \in Sids : store[s] \in Session BY <1>1
<1>3. \A s \in Sids : sock[s] # "new" => owner'[s] = owner[s]
  BY DEF TypeOK, Connect, Reconnect, Disconnect, StaleCleanup, RedisEvict, WorkerRestart,
         StopAI, Malformed, ServiceError, AutoSave
<1>4. \/ store' = store \/ \E S : store' = Without(S)
      \/ \E s \in Sids : store' = [store EXCEPT ![s].stopped = TRUE]
  BY RemovedSome DEF Connect, Reconnect, Disconnect, StaleCleanup, RedisEvict, WorkerRestart,
         StopAI, Malformed, ServiceError, AutoSave
<1>5. \A s \in Sids : store'[s].live => store[s].live /\ store'[s].cell = store[s].cell
  <2>1. CASE store' = store BY <2>1
  <2>2. CASE \E S : store' = Without(S) BY <2>2, RemovalType, Constants
  <2>3. CASE \E s \in Sids : store' = [store EXCEPT ![s].stopped = TRUE]
    BY <1>1, <1>2, <2>3 DEF Session
  <2>4. QED BY <1>4, <2>1, <2>2, <2>3
<1>6. \/ turns' = turns \/ (\E S : turns' = Detach(S)) \/ turns' = [t \in Turns |-> Idle]
      \/ \E t \in Turns : \/ turns' = [turns EXCEPT ![t] = Idle]
                          \/ turns' = [turns EXCEPT ![t].retried = TRUE]
  BY DEF Connect, Reconnect, Disconnect, StaleCleanup, RedisEvict, WorkerRestart,
         StopAI, Malformed, ServiceError, AutoSave
<1>7. \A t \in Turns : turns'[t].pc = "llm" =>
         turns[t].pc = "llm" /\ turns'[t].cell = turns[t].cell /\ turns'[t].sid = turns[t].sid
  <2>1. CASE turns' = turns BY <2>1
  <2>2. CASE \E S : turns' = Detach(S) BY <2>2, DetachType
  <2>3. CASE turns' = [t \in Turns |-> Idle] \/ \E t \in Turns : turns' = [turns EXCEPT ![t] = Idle]
    BY <1>1, <2>3, Constants
  <2>4. CASE \E t \in Turns : turns' = [turns EXCEPT ![t].retried = TRUE]
    BY <1>1, <2>4 DEF Turn
  <2>5. QED BY <1>6, <2>1, <2>2, <2>3, <2>4
<1>8. heap' = heap \/ Collect(heap)
  BY DEF Connect, Reconnect, Disconnect, StaleCleanup, RedisEvict, WorkerRestart,
         StopAI, Malformed, ServiceError, AutoSave
<1>9. \A c \in Cells : heap'[c] = heap[c] \/ heap'[c] = <<>> BY <1>8, CollectKeeps
<1>10. \A c \in Cells : \A u : Holds(c, u)' => Holds(c, u) BY <1>3, <1>5, <1>7, NobodyNew
<1>11. OwnConversations' BY <1>9, <1>10, ConversationsEnd
<1>12. rows' = rows \/ \E j, x : rows' = [rows EXCEPT ![j].draft = x]
  BY DEF Connect, Reconnect, Disconnect, StaleCleanup, RedisEvict, WorkerRestart,
         StopAI, Malformed, ServiceError, AutoSave
<1>13. ASSUME NEW i \in Subs PROVE rows'[i].chat = rows[i].chat /\ rows'[i].user = rows[i].user
  <2>1. rows[i] \in Row BY <1>1
  <2>2. rows'[i] = rows[i] \/ \E x : rows'[i] = [rows[i] EXCEPT !.draft = x]
    BY <1>1, <1>12
  <2>3. QED BY <2>1, <2>2 DEF Row
<1>14. OwnRows' BY <1>13 DEF OwnRows
<1>15. QED BY <1>11, <1>14

\* Saves write the conversation of the sessions they end.
LEMMA SavesIsolate ==
    ASSUME ChatInv, SInv', NothingLeft', NEW s \in Sids, NEW x \in Xmls, SaveBpmn(s, x) \/ SaveNoSid(s, x)
    PROVE  ChatInv'
<1> USE DEF ChatInv, SInv, IInv
<1>1. store \in [Sids -> Session] /\ rows \in [Subs -> Row] BY DEF TypeOK
<1>2. (\E S : store' = Without(S)) /\ (\E S : turns' = Detach(S)) /\ Collect(heap) /\ owner' = owner
  BY RemovedSome DEF SaveBpmn, SaveNoSid
<1>3. \A q \in Sids : store'[q].live => store[q].live /\ store'[q].cell = store[q].cell
  BY <1>2, RemovalType, Constants
<1>4. \A t \in Turns : turns'[t].pc = "llm" =>
         turns[t].pc = "llm" /\ turns'[t].cell = turns[t].cell /\ turns'[t].sid = turns[t].sid
  BY <1>2, DetachType
<1>5. \A c \in Cells : \A u : Holds(c, u)' => Holds(c, u) BY <1>2, <1>3, <1>4, NobodyNew
<1>6. OwnConversations' BY <1>2, <1>5, CollectKeeps, ConversationsEnd
<1>7. \A i \in Subs : \A u : By(Fallback(rows, u, x)[i].chat, Fallback(rows, u, x)[i].user)
  <2>1. ASSUME NEW i \in Subs, NEW u
        PROVE  Fallback(rows, u, x)[i].chat = rows[i].chat /\ Fallback(rows, u, x)[i].user = rows[i].user
    BY <1>1 DEF Fallback, Row
  <2>2. QED BY <2>1 DEF OwnRows
<1>8. ASSUME NEW q \in Sids, store[q].live, store[q].sub # 0, NEW n
      PROVE  LET r == Persisted(rows[store[q].sub], store[q], x, n) IN By(r.chat, r.user)
  <2>1. store[q].sub \in Subs BY <1>1, <1>8 DEF Session
  <2>2. rows[store[q].sub] \in Row /\ rows[store[q].sub].user = owner[q]
    BY <1>1, <1>8, <2>1 DEF BoundRows
  <2>3. QED BY <1>8, <2>2, PersistedBy
<1>9. OwnRows'
  <2>1. CASE SaveBpmn(s, x)
    <3>1. CASE store[s].live /\ store[s].sub # 0
      <4>1. rows' = [rows EXCEPT ![store[s].sub] =
                       Persisted(rows[store[s].sub], store[s], x, Untracked({s})[s])]
        BY <2>1, <3>1 DEF SaveBpmn
      <4>2. QED BY <1>1, <1>8, <3>1, <4>1 DEF OwnRows
    <3>2. CASE ~(store[s].live /\ store[s].sub # 0)
      BY <1>7, <2>1, <3>2 DEF SaveBpmn, OwnRows
    <3>3. QED BY <3>1, <3>2
  <2>2. CASE SaveNoSid(s, x)
    <3> DEFINE all == {q \in Sids : store[q].live}
               bound == {q \in all : store[q].sub # 0}
    <3>1. PICK last \in [{store[q].sub : q \in bound} -> bound] :
            /\ \A i \in DOMAIN last : store[last[i]].sub = i
            /\ rows' = IF bound = {} THEN Fallback(rows, owner[s], x)
                       ELSE [i \in Subs |->
                               IF i \in DOMAIN last
                               THEN Persisted(rows[i], store[last[i]], x, Untracked(all)[last[i]])
                               ELSE rows[i]]
      BY <2>2 DEF SaveNoSid
    <3>2. CASE bound = {} BY <1>7, <3>1, <3>2 DEF OwnRows
    <3>3. CASE bound # {}
      <4>1. ASSUME NEW i \in Subs PROVE By(rows'[i].chat, rows'[i].user)
        <5>1. CASE i \in DOMAIN last
          <6>1. last[i] \in bound /\ store[last[i]].sub = i BY <3>1, <5>1
          <6>2. rows'[i] = Persisted(rows[store[last[i]].sub], store[last[i]], x, Untracked(all)[last[i]])
            BY <3>1, <3>3, <5>1, <6>1
          <6>3. QED BY <1>8, <6>1, <6>2
        <5>2. CASE i \notin DOMAIN last
          <6>1. rows'[i] = rows[i] BY <3>1, <3>3, <5>2
          <6>2. QED BY <6>1 DEF OwnRows
        <5>3. QED BY <5>1, <5>2
      <4>2. QED BY <4>1 DEF OwnRows
    <3>4. QED BY <3>2, <3>3
  <2>3. QED BY <2>1, <2>2
<1>10. QED BY <1>6, <1>9

\* A new session or a cleared chat begins a conversation that nobody holds.
LEMMA FreshIsolates ==
    ASSUME ChatInv, SInv', NothingLeft', NEW s \in Sids, ClearChat(s) \/ \E t \in Turns : JoinCreate(t, s)
    PROVE  ChatInv'
<1> USE DEF ChatInv, SInv, IInv
<1>1. store \in [Sids -> Session] /\ turns \in [Turns -> Turn] BY DEF TypeOK
<1>2. PICK n \in Cells : /\ n \notin InUse
                         /\ \/ store' = [store EXCEPT ![s].cell = n]
                            \/ store' = [store EXCEPT ![s] =
                                 [live |-> TRUE, stopped |-> FALSE, sub |-> 0, cell |-> n]]
                         /\ Collect([heap EXCEPT ![n] = <<>>]) \/ Collect(heap)
  BY Constants DEF ClearChat, JoinCreate, Fresh
<1>3. store'[s].cell = n /\ \A q \in Sids : q # s => store'[q] = store[q]
  <2>1. store[s] \in Session BY <1>1
  <2>2. QED BY <1>1, <1>2, <2>1 DEF Session
<1>4. owner' = owner /\ rows' = rows BY DEF ClearChat, JoinCreate
<1>5. \A t \in Turns : turns'[t].pc = "llm" => turns'[t] = turns[t]
  <2>1. CASE ClearChat(s) BY <2>1 DEF ClearChat
  <2>2. CASE \E t \in Turns : JoinCreate(t, s)
    <3>1. [Idle EXCEPT !.pc = "joining", !.sid = s].pc = "joining" BY DEF Idle
    <3>2. QED BY <1>1, <2>2, <3>1 DEF JoinCreate
  <2>3. QED BY <2>1, <2>2
<1>6. \A u : ~Holds(n, u) BY <1>2 DEF InUse, Holds
<1>7. ASSUME NEW c \in Cells, NEW u, Holds(c, u)'
      PROVE  (Holds(c, u) /\ c # n) \/ (c = n /\ u = owner[s])
  <2>1. CASE \E q \in Sids : store'[q].live /\ store'[q].cell = c /\ owner'[q] = u
    <3>1. PICK q \in Sids : store'[q].live /\ store'[q].cell = c /\ owner'[q] = u BY <2>1
    <3>2. CASE q = s BY <1>3, <1>4, <3>1, <3>2
    <3>3. CASE q # s
      <4>1. Holds(c, u) BY <1>3, <1>4, <3>1, <3>3 DEF Holds
      <4>2. QED BY <1>6, <4>1
    <3>4. QED BY <3>2, <3>3
  <2>2. CASE \E t \in Turns : turns'[t].pc = "llm" /\ turns'[t].cell = c /\ owner'[turns'[t].sid] = u
    <3>1. Holds(c, u) BY <1>4, <1>5, <2>2 DEF Holds
    <3>2. QED BY <1>6, <3>1
  <2>3. QED BY <1>7, <2>1, <2>2 DEF Holds
<1>8. heap[n] = <<>> BY <1>2 DEF NothingLeft
<1>9. \A c \in Cells : heap'[c] = heap[c] \/ heap'[c] = <<>>
  <2>1. [heap EXCEPT ![n] = <<>>] = heap BY <1>2, <1>8 DEF TypeOK
  <2>2. Collect(heap) BY <1>2, <2>1
  <2>3. QED BY <2>2, CollectKeeps
<1>10. By(heap'[n], owner[s]) BY <1>2, <1>8, <1>9 DEF By
<1>11. OwnConversations' BY <1>7, <1>9, <1>10, ConversationsStay
<1>12. OwnRows' BY <1>4 DEF OwnRows
<1>13. QED BY <1>11, <1>12

\* Joining restores a conversation of the same user.
LEMMA JoinIsolates ==
    ASSUME ChatInv, SInv', NothingLeft', NEW t \in Turns, JoinBind(t)
    PROVE  ChatInv'
<1> USE DEF ChatInv, SInv, IInv
<1> DEFINE s == turns[t].sid
           u == owner[s]
           resumed == Resumable(u, s) # {}
<1>1. s \in Sids BY DEF JoinBind, Attached
<1>2. PICK i \in IF resumed THEN Latest(Resumable(u, s)) ELSE FirstFree :
        LET restored == resumed /\ rows[i].chat # <<>> /\ store[s].live
        IN /\ rows' = [rows EXCEPT ![i] =
                         IF resumed THEN [rows[i] EXCEPT !.sid = s]
                         ELSE [NoRow EXCEPT !.state = "open", !.user = u, !.sid = s]]
           /\ store' = IF store[s].live THEN [store EXCEPT ![s].sub = i] ELSE store
           /\ turns' = [turns EXCEPT ![t] = Idle]
           /\ Collect(IF restored THEN [heap EXCEPT ![store[s].cell] = rows[i].chat]
                      ELSE heap)
  BY DEF JoinBind
<1>3. i \in Subs /\ (resumed => rows[i].user = u)
  BY <1>2 DEF Latest, Resumable, OpenRows, FirstFree
<1>4. store \in [Sids -> Session] /\ turns \in [Turns -> Turn] /\ rows \in [Subs -> Row]
  BY DEF TypeOK
<1>5. owner' = owner BY DEF JoinBind
<1>6. \A q \in Sids : store'[q].live => store[q].live /\ store'[q].cell = store[q].cell
  <2>1. store[s] \in Session BY <1>1, <1>4
  <2>2. [store[s] EXCEPT !.sub = i].live = store[s].live
        /\ [store[s] EXCEPT !.sub = i].cell = store[s].cell
    BY <2>1 DEF Session
  <2>3. QED BY <1>1, <1>2, <1>4, <2>2
<1>7. \A r \in Turns : turns'[r].pc = "llm" => turns'[r] = turns[r]
  BY <1>2, <1>4, Constants
<1>8. \A c \in Cells : \A v : Holds(c, v)' => Holds(c, v) BY <1>5, <1>6, <1>7, NobodyNew
<1>9. OwnRows'
  <2>1. CASE resumed
    <3>1. rows[i] \in Row BY <1>3, <1>4
    <3>2. rows'[i] = [rows[i] EXCEPT !.sid = s] BY <1>2, <1>3, <1>4, <2>1
    <3>3. rows'[i].chat = rows[i].chat /\ rows'[i].user = rows[i].user BY <3>1, <3>2 DEF Row
    <3>4. QED BY <1>2, <1>3, <1>4, <3>3 DEF OwnRows
  <2>2. CASE ~resumed
    <3>1. rows'[i] = [NoRow EXCEPT !.state = "open", !.user = u, !.sid = s]
      BY <1>2, <1>3, <1>4, <2>2
    <3>2. rows'[i].chat = <<>> BY <3>1 DEF NoRow
    <3>3. By(rows'[i].chat, rows'[i].user) BY <3>2 DEF By
    <3>4. QED BY <1>2, <1>3, <1>4, <3>3 DEF OwnRows
  <2>3. QED BY <2>1, <2>2
<1>10. CASE resumed /\ rows[i].chat # <<>> /\ store[s].live
  <2> DEFINE n == store[s].cell
  <2>1. n \in Cells /\ Holds(n, u) BY <1>1, <1>10 DEF Attached, Holds
  <2>2. Collect([heap EXCEPT ![n] = rows[i].chat]) BY <1>2, <1>10
  <2>3. \A c \in Cells : heap'[c] = [heap EXCEPT ![n] = rows[i].chat][c] \/ heap'[c] = <<>>
    BY <2>2, CollectKeeps
  <2>4. \A c \in Cells : c # n => heap'[c] = heap[c] \/ heap'[c] = <<>>
    BY <2>3 DEF TypeOK
  <2>5. heap'[n] = rows[i].chat \/ heap'[n] = <<>> BY <2>1, <2>3 DEF TypeOK
  <2>6. By(heap'[n], u)
    <3>1. By(rows[i].chat, u) BY <1>3, <1>10 DEF OwnRows
    <3>2. By(<<>>, u) BY DEF By
    <3>3. QED BY <2>5, <3>1, <3>2
  <2>7. \A c \in Cells : \A v : Holds(c, v)' => (Holds(c, v) /\ c # n) \/ (c = n /\ v = u)
    BY <1>8, <2>1 DEF OwnConversations
  <2> HIDE DEF n, u
  <2>8. OwnConversations' BY <2>4, <2>6, <2>7, ConversationsStay
  <2>9. QED BY <1>9, <2>8
<1>11. CASE ~(resumed /\ rows[i].chat # <<>> /\ store[s].live)
  <2>1. Collect(heap) BY <1>2, <1>11
  <2>2. OwnConversations' BY <1>8, <2>1, CollectKeeps, ConversationsEnd
  <2>3. QED BY <1>9, <2>2
<1>12. QED BY <1>10, <1>11

\* A turn gets the conversation of its session, or a copy of it.
LEMMA BeginIsolates ==
    ASSUME ChatInv, SInv', NothingLeft', NEW t \in Turns, NEW s \in Sids, NEW kind,
           NEW entries \in Seq(Message), By(entries, owner[s]),
           Begin(t, s, kind, entries), UNCHANGED <<owner, rows>>
    PROVE  ChatInv'
<1> USE DEF ChatInv, SInv, IInv
<1>1. store \in [Sids -> Session] /\ turns \in [Turns -> Turn] BY DEF TypeOK
<1>2. store[s].live /\ store[s].cell \in Cells /\ Holds(store[s].cell, owner[s])
  BY DEF Begin, Attached, Holds
<1>3. PICK n \in Conversation(t, s) :
        /\ turns' = [turns EXCEPT ![t] = [Idle EXCEPT !.pc = "llm", !.sid = s, !.kind = kind,
                                            !.cell = n, !.sub = store[s].sub]]
        /\ Collect([heap EXCEPT ![n] = heap[store[s].cell] \o entries])
  BY DEF Begin
<1>4. n \in Cells /\ (n = store[s].cell \/ n \notin InUse)
  BY <1>2, <1>3, Constants DEF Conversation, Fresh
<1>5. \A v : Holds(n, v) => v = owner[s]
  <2>1. CASE n = store[s].cell BY <1>2, <2>1 DEF OwnConversations
  <2>2. CASE n \notin InUse BY <2>2 DEF InUse, Holds
  <2>3. QED BY <1>4, <2>1, <2>2
<1>6. \A q \in Sids : store'[q].live => store[q].live /\ store'[q].cell = store[q].cell
  <2>1. store' = store \/ store' = [store EXCEPT ![s].stopped = FALSE] BY DEF Begin
  <2>2. store[s] \in Session BY <1>1
  <2>3. QED BY <1>1, <2>1, <2>2 DEF Session
<1>7. turns'[t].cell = n /\ turns'[t].sid = s /\ \A r \in Turns : r # t => turns'[r] = turns[r]
  <2>1. [Idle EXCEPT !.pc = "llm", !.sid = s, !.kind = kind, !.cell = n, !.sub = store[s].sub].cell = n
        /\ [Idle EXCEPT !.pc = "llm", !.sid = s, !.kind = kind, !.cell = n, !.sub = store[s].sub].sid = s
    BY DEF Idle
  <2>2. QED BY <1>1, <1>3, <2>1
<1>8. ASSUME NEW c \in Cells, NEW v, Holds(c, v)'
      PROVE  (Holds(c, v) /\ c # n) \/ (c = n /\ v = owner[s])
  <2>1. Holds(c, v) \/ (c = n /\ v = owner[s])
    <3>1. CASE \E q \in Sids : store'[q].live /\ store'[q].cell = c /\ owner'[q] = v
      BY <1>6, <3>1 DEF Holds
    <3>2. CASE \E r \in Turns : turns'[r].pc = "llm" /\ turns'[r].cell = c /\ owner'[turns'[r].sid] = v
      BY <1>7, <3>2 DEF Holds
    <3>3. QED BY <1>8, <3>1, <3>2 DEF Holds
  <2>2. QED BY <1>5, <2>1
<1>9. \A c \in Cells : \/ heap'[c] = [heap EXCEPT ![n] = heap[store[s].cell] \o entries][c]
                       \/ heap'[c] = <<>>
  BY <1>3, CollectKeeps
<1>10. \A c \in Cells : c # n => heap'[c] = heap[c] \/ heap'[c] = <<>>
  BY <1>9 DEF TypeOK
<1>11. By(heap'[n], owner[s])
  <2>1. heap'[n] = heap[store[s].cell] \o entries \/ heap'[n] = <<>>
    BY <1>4, <1>9 DEF TypeOK
  <2>2. heap[store[s].cell] \in Seq(Message) /\ By(heap[store[s].cell], owner[s])
    BY <1>2 DEF TypeOK, OwnConversations
  <2>3. By(heap[store[s].cell] \o entries, owner[s]) BY <2>2, ByConcat
  <2>4. By(<<>>, owner[s]) BY DEF By
  <2>5. QED BY <2>1, <2>3, <2>4
<1>12. OwnConversations' BY <1>8, <1>10, <1>11, ConversationsStay
<1>13. OwnRows' BY DEF OwnRows
<1>14. QED BY <1>12, <1>13

\* Every chat event enters the conversation in the name of its socket's user.
LEMMA SendIsolates ==
    ASSUME ChatInv, SInv', NothingLeft', NEW t \in Turns, NEW s \in Sids,
           \/ SendGreeting(t, s) \/ SendMessage(t, s)
           \/ RequestCompletion(t, s) \/ RequestAnalysis(t, s)
    PROVE  ChatInv'
<1>1. owner' = owner /\ rows' = rows
  BY DEF SendGreeting, SendMessage, RequestCompletion, RequestAnalysis
<1>2. CASE Unanswered(s)
  <2>1. store' = store /\ heap' = heap /\ turns' = turns BY <1>2 DEF Unanswered
  <2>2. \A c \in Cells : \A v : Holds(c, v)' => Holds(c, v) BY <1>1, <2>1 DEF Holds
  <2>3. OwnConversations' BY <2>1, <2>2, ConversationsEnd
  <2>4. OwnRows' BY <1>1 DEF ChatInv, OwnRows
  <2>5. QED BY <2>3, <2>4 DEF ChatInv
<1>3. ASSUME NEW kind, Begin(t, s, kind, <<>>) PROVE ChatInv'
  <2>1. <<>> \in Seq(Message) /\ By(<<>>, owner[s]) BY DEF By
  <2>2. QED BY <1>1, <1>3, <2>1, BeginIsolates
<1>4. ASSUME NEW kind, NEW from \in {"user", "system"}, next <= MaxMsgs, sock[s] # "new",
             Begin(t, s, kind, <<[id |-> next, from |-> from, by |-> owner[s]]>>)
      PROVE  ChatInv'
  <2>1. next \in 1..MaxMsgs /\ owner[s] \in Users
    BY <1>4, BoundsAssumption DEF ChatInv, SInv, IInv, TypeOK, Attached
  <2>2. <<[id |-> next, from |-> from, by |-> owner[s]]>> \in Seq(Message)
    BY <2>1 DEF Message
  <2>3. By(<<[id |-> next, from |-> from, by |-> owner[s]]>>, owner[s]) BY DEF By
  <2>4. QED BY <1>1, <1>4, <2>2, <2>3, BeginIsolates
<1>5. QED BY <1>2, <1>3, <1>4 DEF SendGreeting, SendMessage, RequestCompletion, RequestAnalysis

\* A reply enters the conversation of the turn and the row of its user.
LEMMA ReplyIsolates ==
    ASSUME ChatInv, SInv', NothingLeft', NEW t \in Turns, NEW more \in BOOLEAN, Reply(t, more)
    PROVE  ChatInv'
<1> USE DEF ChatInv, SInv, IInv
<1> DEFINE h == turns[t]
           w == owner[h.sid]
           n == h.cell
           chat == Append(heap[n], [id |-> next, from |-> "ai", by |-> w])
<1>1. h.pc = "llm" /\ next <= MaxMsgs /\ owner' = owner /\ store' = store
      /\ Collect([heap EXCEPT ![n] = chat])
  BY DEF Reply
<1>2. h.sid \in Sids /\ n \in Cells /\ w \in Users /\ Holds(n, w)
  BY <1>1 DEF Attached, Holds
<1>3. next \in 1..MaxMsgs BY <1>1, BoundsAssumption DEF TypeOK
<1>4. heap[n] \in Seq(Message) /\ By(heap[n], w) BY <1>2 DEF TypeOK, OwnConversations
<1>5. [id |-> next, from |-> "ai", by |-> w] \in Message BY <1>2, <1>3 DEF Message
<1>6. By(chat, w) BY <1>4, <1>5, ByAppend
<1>7. turns \in [Turns -> Turn] /\ h \in Turn /\ rows \in [Subs -> Row] BY DEF TypeOK
<1>8. turns' = [turns EXCEPT ![t] = [h EXCEPT !.retried = FALSE]]
      \/ turns' = [turns EXCEPT ![t] = Idle]
  BY DEF Reply
<1>9. \A r \in Turns : turns'[r].pc = "llm" =>
         turns[r].pc = "llm" /\ turns'[r].cell = turns[r].cell /\ turns'[r].sid = turns[r].sid
  <2>1. CASE turns' = [turns EXCEPT ![t] = Idle] BY <1>7, <2>1, Constants
  <2>2. CASE turns' = [turns EXCEPT ![t] = [h EXCEPT !.retried = FALSE]]
    BY <1>7, <2>2 DEF Turn
  <2>3. QED BY <1>8, <2>1, <2>2
<1>10. rows' = rows \/ (h.sub # 0 /\ rows' = [rows EXCEPT ![h.sub].chat = chat])
  BY DEF Reply
<1> HIDE DEF h, w, n, chat
<1>11. \A c \in Cells : \A v : Holds(c, v)' => Holds(c, v) BY <1>1, <1>9, NobodyNew
<1>12. \A c \in Cells : heap'[c] = [heap EXCEPT ![n] = chat][c] \/ heap'[c] = <<>>
  BY <1>1, CollectKeeps
<1>13. \A c \in Cells : c # n => heap'[c] = heap[c] \/ heap'[c] = <<>>
  BY <1>12 DEF TypeOK
<1>14. By(heap'[n], w)
  <2>1. heap'[n] = chat \/ heap'[n] = <<>> BY <1>2, <1>12 DEF TypeOK
  <2>2. By(<<>>, w) BY DEF By
  <2>3. QED BY <1>6, <2>1, <2>2
<1>15. \A c \in Cells : \A v : Holds(c, v)' => (Holds(c, v) /\ c # n) \/ (c = n /\ v = w)
  BY <1>2, <1>11 DEF OwnConversations
<1>16. OwnConversations' BY <1>13, <1>14, <1>15, ConversationsStay
<1>17. OwnRows'
  <2>1. CASE rows' = rows BY <2>1 DEF OwnRows
  <2>2. CASE h.sub # 0 /\ rows' = [rows EXCEPT ![h.sub].chat = chat]
    <3>1. h.sub \in Subs /\ rows[h.sub].user = w
      BY <1>7, <2>2 DEF Turn, BoundRows, h, w
    <3>2. rows[h.sub] \in Row BY <1>7, <3>1
    <3>3. rows'[h.sub] = [rows[h.sub] EXCEPT !.chat = chat] BY <1>7, <2>2, <3>1
    <3>4. rows'[h.sub].chat = chat /\ rows'[h.sub].user = w BY <3>1, <3>2, <3>3 DEF Row
    <3>5. QED BY <1>6, <1>7, <2>2, <3>4 DEF OwnRows
  <2>3. QED BY <1>10, <2>1, <2>2
<1>18. QED BY <1>16, <1>17

\* What nobody holds any more goes in the step in which it is let go.
LEMMA StepLeavesNothing ==
    ASSUME IInv, NothingLeft, [Next]_vars PROVE NothingLeft'
<1>1. ASSUME NEW h, Collect(h) PROVE NothingLeft' BY <1>1 DEF Collect, NothingLeft, InUse
<1>2. store \in [Sids -> Session] /\ turns \in [Turns -> Turn] BY DEF IInv, TypeOK
<1>3. ASSUME heap' = heap, \A s \in Sids : store'[s].cell = store[s].cell,
             \A t \in Turns : turns'[t].cell = turns[t].cell
      PROVE  NothingLeft'
  BY <1>3 DEF NothingLeft, InUse
<1>4. CASE UNCHANGED <<store, heap, turns>> BY <1>3, <1>4
<1>5. ASSUME NEW s \in Sids, StopAI(s) PROVE NothingLeft'
  <2>1. \A q \in Sids : store'[q].cell = store[q].cell BY <1>2, <1>5 DEF StopAI, Session
  <2>2. QED BY <1>3, <1>5, <2>1 DEF StopAI
<1>6. ASSUME NEW t \in Turns, Malformed(t) PROVE NothingLeft'
  <2>1. \A r \in Turns : turns'[r].cell = turns[r].cell BY <1>2, <1>6 DEF Malformed, Turn
  <2>2. QED BY <1>3, <1>6, <2>1 DEF Malformed
<1>7. \/ UNCHANGED <<store, heap, turns>> \/ \E h : Collect(h)
      \/ (\E s \in Sids : StopAI(s)) \/ (\E t \in Turns : Malformed(t))
  BY DEF Next, vars, Connect, Reconnect, Disconnect, StaleCleanup, RedisEvict, WorkerRestart,
         JoinCreate, JoinBind, SendGreeting, SendMessage, RequestCompletion, RequestAnalysis,
         Begin, Unanswered, ClearChat, Reply, ServiceError, AutoSave, SaveBpmn, SaveNoSid
<1>8. QED BY <1>1, <1>4, <1>5, <1>6, <1>7

\* Every step keeps the conversations apart.
LEMMA StepIsolates == ChatInv /\ [Next]_vars => ChatInv'
<1> SUFFICES ASSUME ChatInv, [Next]_vars PROVE ChatInv' OBVIOUS
<1>1. SInv' /\ NothingLeft' BY StepSInv, StepLeavesNothing DEF ChatInv, SInv
<1>2. CASE UNCHANGED vars
  <2>1. OwnConversations' /\ OwnRows'
    BY <1>2 DEF vars, ChatInv, OwnConversations, OwnRows, Holds
  <2>2. QED BY <1>1, <2>1 DEF ChatInv
<1>3. CASE \/ \E s \in Sids, u \in Users : Connect(s, u)
           \/ \E old, s \in Sids : Reconnect(old, s)
           \/ \E s \in Sids : Disconnect(s) \/ StaleCleanup(s) \/ RedisEvict(s) \/ StopAI(s)
           \/ WorkerRestart
           \/ \E t \in Turns : Malformed(t) \/ ServiceError(t)
           \/ \E s \in Sids, x \in Xmls : AutoSave(s, x)
  BY <1>1, <1>3, EndsIsolate
<1>4. CASE \E t \in Turns, s \in Sids :
            \/ SendGreeting(t, s) \/ SendMessage(t, s)
            \/ RequestCompletion(t, s) \/ RequestAnalysis(t, s)
  BY <1>1, <1>4, SendIsolates
<1>5. CASE \E s \in Sids : ClearChat(s) \/ \E t \in Turns : JoinCreate(t, s)
  BY <1>1, <1>5, FreshIsolates
<1>6. CASE \E t \in Turns : JoinBind(t) BY <1>1, <1>6, JoinIsolates
<1>7. CASE \E t \in Turns, more \in BOOLEAN : Reply(t, more) BY <1>1, <1>7, ReplyIsolates
<1>8. CASE \E s \in Sids, x \in Xmls : SaveBpmn(s, x) \/ SaveNoSid(s, x)
  BY <1>1, <1>8, SavesIsolate
<1>9. QED BY <1>2, <1>3, <1>4, <1>5, <1>6, <1>7, <1>8 DEF Next

\* Nobody has said anything yet.
LEMMA InitChatInv == Init => ChatInv
<1>1. ASSUME Init PROVE ChatInv
  <2>1. SInv BY <1>1, InitSInv
  <2>2. NothingLeft /\ \A c \in Cells : heap[c] = <<>> BY <1>1 DEF Init, NothingLeft
  <2>3. OwnRows BY <1>1 DEF Init, OwnRows, NoRow, By
  <2>4. \A c \in Cells : \A u : ~Holds(c, u)
    BY <1>1, Constants DEF Init, Holds
  <2>5. QED BY <2>1, <2>2, <2>3, <2>4 DEF ChatInv, OwnConversations
<1>2. QED BY <1>1

\* "Concurrent users on the same task get fully isolated state"
\* (session_store.py): for any number of users, tabs and turns, with either store,
\* a row's chat log never holds what another user exchanged.
THEOREM ChatsIsolated == Spec => []ChatIsolation
<1>1. Init => ChatInv BY InitChatInv
<1>2. ChatInv /\ [Next]_vars => ChatInv' BY StepIsolates
<1>3. ChatInv => ChatIsolation BY OwnRowsIsolate DEF ChatInv
<1>4. QED BY <1>1, <1>2, <1>3, PTL DEF Spec

-----------------------------------------------------------------------------
(* The chat log of one page *)

OneTab == \E s : Sids = {s}

\* No turn begins before the page has joined, and none while it joins.
Joined ==
    /\ \A s \in Sids : sock[s] \in {"new", "open"} =>
          ~store[s].live /\ \A t \in Turns : turns[t].pc = "idle"
    /\ \A t \in Turns : turns[t].pc = "joining" =>
          /\ sock[turns[t].sid] = "joining" /\ store[turns[t].sid].live
          /\ store[turns[t].sid].sub = 0
          /\ \A r \in Turns : r # t => turns[r].pc = "idle"

Talks(c) == (\E s \in Sids : store[s].live /\ store[s].cell = c)
            \/ (\E t \in Turns : turns[t].pc = "llm" /\ turns[t].cell = c)

\* All turns that overlap work with the conversation of the session.
OneTalk == \A c, d : Talks(c) /\ Talks(d) => c = d

\* What is in the row has been said in the conversation of whoever may write it.
LogInTalk ==
    /\ \A s \in Sids : store[s].sub # 0 =>
          IsPrefix(rows[store[s].sub].chat, heap[store[s].cell])
    /\ \A t \in Turns : turns[t].sub # 0 =>
          IsPrefix(rows[turns[t].sub].chat, heap[turns[t].cell])

Unwritten == \A i \in Subs : rows[i].state = "none" => rows[i].chat = <<>>

LogInv == SInv /\ Joined /\ OneTalk /\ LogInTalk /\ Unwritten

Extended == \A i \in Subs : IsPrefix(rows[i].chat, rows'[i].chat)

\* A prefix agrees with the longer sequence as far as it goes.
LEMMA PrefixIs ==
    ASSUME NEW S, NEW a \in Seq(S), NEW b \in Seq(S)
    PROVE  IsPrefix(a, b) <=> Len(a) <= Len(b) /\ \A k \in 1..Len(a) : a[k] = b[k]
<1>1. SubSeq(a, 1, Len(a)) = a OBVIOUS
<1>2. ASSUME Len(a) <= Len(b)
      PROVE  /\ SubSeq(b, 1, Len(a)) \in Seq(S)
             /\ Len(SubSeq(b, 1, Len(a))) = Len(a)
             /\ \A k \in 1..Len(a) : SubSeq(b, 1, Len(a))[k] = b[k]
  BY <1>2
<1>3. ASSUME Len(a) <= Len(b), \A k \in 1..Len(a) : a[k] = b[k]
      PROVE  SubSeq(b, 1, Len(a)) = a
  BY <1>2, <1>3
<1>4. QED BY <1>1, <1>2, <1>3 DEF IsPrefix

\* A chat is the beginning of itself and of what is added to it.
LEMMA PrefixGrows ==
    ASSUME NEW S, NEW a \in Seq(S), NEW b \in Seq(S)
    PROVE  /\ IsPrefix(a, a) /\ IsPrefix(<<>>, a)
           /\ \A m \in S : IsPrefix(a, b) => IsPrefix(a, Append(b, m))
           /\ \A e \in Seq(S) : IsPrefix(a, b) => IsPrefix(a, b \o e)
<1>1. IsPrefix(a, a) /\ IsPrefix(<<>>, a)
  <2>1. IsPrefix(a, a) BY PrefixIs
  <2>2. <<>> \in Seq(S) /\ Len(<<>>) = 0 /\ Len(a) \in Nat OBVIOUS
  <2>3. Len(<<>>) <= Len(a) /\ \A k \in 1..Len(<<>>) : <<>>[k] = a[k] BY <2>2
  <2>4. QED BY <2>1, <2>2, <2>3, PrefixIs
<1>2. ASSUME NEW m \in S, IsPrefix(a, b) PROVE IsPrefix(a, Append(b, m))
  <2>1. Len(a) <= Len(b) /\ \A k \in 1..Len(a) : a[k] = b[k] BY <1>2, PrefixIs
  <2>2. Append(b, m) \in Seq(S) /\ Len(Append(b, m)) = Len(b) + 1
        /\ \A k \in 1..Len(b) : Append(b, m)[k] = b[k]
    OBVIOUS
  <2>3. Len(a) <= Len(Append(b, m)) /\ \A k \in 1..Len(a) : a[k] = Append(b, m)[k]
    BY <2>1, <2>2
  <2>4. QED BY <2>2, <2>3, PrefixIs
<1>3. ASSUME NEW e \in Seq(S), IsPrefix(a, b) PROVE IsPrefix(a, b \o e)
  <2>1. Len(a) <= Len(b) /\ \A k \in 1..Len(a) : a[k] = b[k] BY <1>3, PrefixIs
  <2>2. b \o e \in Seq(S) /\ Len(b \o e) = Len(b) + Len(e)
        /\ \A k \in 1..Len(b) : (b \o e)[k] = b[k]
    OBVIOUS
  <2>3. Len(a) <= Len(b \o e) /\ \A k \in 1..Len(a) : a[k] = (b \o e)[k]
    BY <2>1, <2>2
  <2>4. QED BY <2>2, <2>3, PrefixIs
<1>4. QED BY <1>1, <1>2, <1>3

\* The chats of rows and the conversations are sequences of messages.
LEMMA ChatsTyped ==
    ASSUME TypeOK
    PROVE  /\ \A i \in Subs : rows[i].chat \in Seq(Message)
           /\ \A c \in Cells : heap[c] \in Seq(Message)
           /\ \A s \in Sids : store[s] \in Session
           /\ \A t \in Turns : turns[t] \in Turn
  BY DEF TypeOK, Row

\* A conversation that somebody still works with is not collected.
LEMMA CollectHeld ==
    ASSUME NEW h, Collect(h)
    PROVE  /\ \A s \in Sids : store'[s].cell \in Cells => heap'[store'[s].cell] = h[store'[s].cell]
           /\ \A t \in Turns : turns'[t].cell \in Cells => heap'[turns'[t].cell] = h[turns'[t].cell]
  BY DEF Collect

\* Who may write a row works with a conversation.
LEMMA WritersTalk ==
    ASSUME SInv
    PROVE  /\ \A s \in Sids : store[s].sub # 0 =>
                 store[s].live /\ store[s].cell \in Cells /\ store[s].sub \in Subs
           /\ \A t \in Turns : turns[t].sub # 0 =>
                 turns[t].pc = "llm" /\ turns[t].cell \in Cells /\ turns[t].sub \in Subs
<1>1. \A s \in Sids : store[s].sub # 0 => store[s].live
  BY Constants DEF SInv, IInv, Attached
<1>2. QED BY <1>1, ChatsTyped DEF SInv, IInv, Attached, BoundRows, Session, Turn

\* Sessions end and turns end or go on, with the conversation they had.
Ends ==
    /\ \A s \in Sids : \/ ~store'[s].live /\ store'[s].sub = 0
                       \/ /\ store'[s].live = store[s].live /\ store'[s].sub = store[s].sub
                          /\ store'[s].cell = store[s].cell
    /\ \A t \in Turns : \/ turns'[t] = Idle
                        \/ /\ turns'[t].pc = turns[t].pc /\ turns'[t].cell = turns[t].cell
                           /\ turns'[t].sub = turns[t].sub /\ turns'[t].sid = turns[t].sid

\* Then nobody works with another conversation than before.
LEMMA EndsTalk ==
    ASSUME OneTalk, Ends
    PROVE  OneTalk'
<1>1. \A c : Talks(c)' => Talks(c) BY Constants DEF Ends, Talks
<1>2. QED BY <1>1 DEF OneTalk

\* Then what is in the rows remains in the conversations, when rows get no
\* chat but that of a conversation.
LEMMA EndsLog ==
    ASSUME SInv, SInv', OneTalk, LogInTalk, Ends, heap' = heap \/ Collect(heap),
           \A i \in Subs : \/ rows'[i].chat = rows[i].chat
                           \/ \E c \in Cells : Talks(c) /\ rows'[i].chat = heap[c]
    PROVE  LogInTalk'
<1>1. /\ \A s \in Sids : store'[s].cell \in Cells => heap'[store'[s].cell] = heap[store'[s].cell]
      /\ \A t \in Turns : turns'[t].cell \in Cells => heap'[turns'[t].cell] = heap[turns'[t].cell]
  BY CollectHeld
<1>2. \A c \in Cells : IsPrefix(heap[c], heap[c])
  BY ChatsTyped, PrefixGrows DEF SInv, IInv
<1>3. ASSUME NEW s \in Sids, store'[s].sub # 0
      PROVE  IsPrefix(rows'[store'[s].sub].chat, heap'[store'[s].cell])
  <2>1. store[s].sub = store'[s].sub /\ store[s].cell = store'[s].cell BY <1>3 DEF Ends
  <2>2. store[s].live /\ store[s].cell \in Cells /\ store[s].sub \in Subs
    BY <1>3, <2>1, WritersTalk
  <2>3. heap'[store'[s].cell] = heap[store[s].cell] BY <1>1, <2>1, <2>2
  <2>4. IsPrefix(rows[store[s].sub].chat, heap[store[s].cell]) BY <1>3, <2>1 DEF LogInTalk
  <2>5. Talks(store[s].cell) BY <2>2 DEF Talks
  <2>6. IsPrefix(rows'[store[s].sub].chat, heap[store[s].cell])
    BY <1>2, <2>2, <2>4, <2>5 DEF OneTalk
  <2>7. QED BY <2>1, <2>3, <2>6
<1>4. ASSUME NEW t \in Turns, turns'[t].sub # 0
      PROVE  IsPrefix(rows'[turns'[t].sub].chat, heap'[turns'[t].cell])
  <2>1. turns[t].sub = turns'[t].sub /\ turns[t].cell = turns'[t].cell
    BY <1>4, Constants DEF Ends
  <2>2. turns[t].pc = "llm" /\ turns[t].cell \in Cells /\ turns[t].sub \in Subs
    BY <1>4, <2>1, WritersTalk
  <2>3. heap'[turns'[t].cell] = heap[turns[t].cell] BY <1>1, <2>1, <2>2
  <2>4. IsPrefix(rows[turns[t].sub].chat, heap[turns[t].cell]) BY <1>4, <2>1 DEF LogInTalk
  <2>5. Talks(turns[t].cell) BY <2>2 DEF Talks
  <2>6. IsPrefix(rows'[turns[t].sub].chat, heap[turns[t].cell])
    BY <1>2, <2>2, <2>4, <2>5 DEF OneTalk
  <2>7. QED BY <2>1, <2>3, <2>6
<1>5. QED BY <1>3, <1>4 DEF LogInTalk

\* Connections, losses, stops and failures leave the log as it is.
LEMMA LossLogs ==
    ASSUME OneTab, InMemory, LogInv, SInv',
           \/ \E s \in Sids, u \in Users : Connect(s, u)
           \/ \E old, s \in Sids : Reconnect(old, s)
           \/ \E s \in Sids : Disconnect(s) \/ StaleCleanup(s) \/ StopAI(s)
           \/ WorkerRestart
           \/ \E t \in Turns : Malformed(t) \/ ServiceError(t)
           \/ \E s \in Sids, x \in Xmls : AutoSave(s, x)
    PROVE  LogInv' /\ Extended
<1> USE DEF LogInv
<1>1. store \in [Sids -> Session] /\ turns \in [Turns -> Turn] /\ rows \in [Subs -> Row]
      /\ sock \in [Sids -> PageStates]
  BY DEF SInv, IInv, TypeOK
<1>2. Ends
  <2>1. \/ store' = store \/ \E S : store' = Without(S)
        \/ \E s \in Sids : store' = [store EXCEPT ![s].stopped = TRUE]
    BY RemovedSome DEF Connect, Reconnect, Disconnect, StaleCleanup, WorkerRestart,
           StopAI, Malformed, ServiceError, AutoSave
  <2>2. \A s \in Sids : store[s] \in Session BY <1>1
  <2>3. \A s \in Sids : \/ ~store'[s].live /\ store'[s].sub = 0
                        \/ /\ store'[s].live = store[s].live /\ store'[s].sub = store[s].sub
                           /\ store'[s].cell = store[s].cell
    <3>1. CASE \E S : store' = Without(S)
      BY <3>1, RemovalType, Constants DEF SInv, IInv
    <3>2. CASE \E s \in Sids : store' = [store EXCEPT ![s].stopped = TRUE]
      BY <1>1, <2>2, <3>2 DEF Session
    <3>3. QED BY <2>1, <3>1, <3>2
  <2>4. \/ turns' = turns \/ (\E S : turns' = Detach(S)) \/ turns' = [t \in Turns |-> Idle]
        \/ \E t \in Turns : \/ turns' = [turns EXCEPT ![t] = Idle]
                            \/ turns' = [turns EXCEPT ![t].retried = TRUE]
    BY DEF Connect, Reconnect, Disconnect, StaleCleanup, WorkerRestart,
           StopAI, Malformed, ServiceError, AutoSave
  <2>5. \A t \in Turns : \/ turns'[t] = Idle
                         \/ /\ turns'[t].pc = turns[t].pc /\ turns'[t].cell = turns[t].cell
                            /\ turns'[t].sub = turns[t].sub /\ turns'[t].sid = turns[t].sid
    <3>1. CASE \E S : turns' = Detach(S) BY <3>1, DetachType DEF SInv, IInv
    <3>2. CASE turns' = [t \in Turns |-> Idle] \/ \E t \in Turns : turns' = [turns EXCEPT ![t] = Idle]
      BY <1>1, <3>2
    <3>3. CASE \E t \in Turns : turns' = [turns EXCEPT ![t].retried = TRUE]
      BY <1>1, <3>3 DEF Turn
    <3>4. QED BY <2>4, <3>1, <3>2, <3>3
  <2>6. QED BY <2>3, <2>5 DEF Ends
<1>3. heap' = heap \/ Collect(heap)
  BY DEF Connect, Reconnect, Disconnect, StaleCleanup, WorkerRestart,
         StopAI, Malformed, ServiceError, AutoSave
<1>4. rows' = rows \/ \E j, x : rows' = [rows EXCEPT ![j].draft = x]
  BY DEF Connect, Reconnect, Disconnect, StaleCleanup, WorkerRestart,
         StopAI, Malformed, ServiceError, AutoSave
<1>5. ASSUME NEW i \in Subs PROVE rows'[i].chat = rows[i].chat /\ rows'[i].state = rows[i].state
  <2>1. rows[i] \in Row BY <1>1
  <2>2. rows'[i] = rows[i] \/ \E x : rows'[i] = [rows[i] EXCEPT !.draft = x]
    BY <1>1, <1>4
  <2>3. QED BY <2>1, <2>2 DEF Row
<1>6. OneTalk' BY <1>2, EndsTalk
<1>7. LogInTalk' BY <1>2, <1>3, <1>5, EndsLog
<1>8. Unwritten' BY <1>5 DEF Unwritten
<1>9. Extended
  <2>1. \A i \in Subs : IsPrefix(rows[i].chat, rows[i].chat)
    BY ChatsTyped, PrefixGrows DEF SInv, IInv
  <2>2. QED BY <1>5, <2>1 DEF Extended
<1>10. Joined'
  <2>1. ~\E old, s \in Sids : Reconnect(old, s) BY DEF OneTab, Reconnect
  <2>2. \A s \in Sids : sock'[s] \in {"new", "open"} => sock[s] \in {"new", "open"}
    BY <1>1, <2>1 DEF Connect, Disconnect, StaleCleanup, WorkerRestart, StopAI, Malformed,
                     ServiceError, Unlock, AutoSave, Connected
  <2>3. \A t \in Turns : turns'[t].pc # "joining"
    <3>1. CASE WorkerRestart BY <3>1, Constants DEF WorkerRestart
    <3>2. CASE ~WorkerRestart
      <4>1. Yielded
        BY <2>1, <3>2 DEF Connect, Disconnect, StaleCleanup, StopAI, Malformed, ServiceError, AutoSave
      <4>2. QED BY <1>2, <4>1, Constants DEF Yielded, Ends
    <3>3. QED BY <3>1, <3>2
  <2>4. QED BY <1>2, <2>2, <2>3, Constants DEF Joined, Ends
<1>11. QED BY <1>6, <1>7, <1>8, <1>9, <1>10

\* A save writes the whole conversation.
LEMMA SaveLogs ==
    ASSUME InMemory, LogInv, SInv', NEW s \in Sids, NEW x \in Xmls, SaveBpmn(s, x) \/ SaveNoSid(s, x)
    PROVE  LogInv' /\ Extended
<1> USE DEF LogInv
<1>1. store \in [Sids -> Session] /\ turns \in [Turns -> Turn] /\ rows \in [Subs -> Row]
      /\ sock \in [Sids -> PageStates]
  BY DEF SInv, IInv, TypeOK
<1>2. (\E S : store' = Without(S)) /\ (\E S : turns' = Detach(S)) /\ Collect(heap) /\ Yielded
  BY RemovedSome DEF SaveBpmn, SaveNoSid
<1>3. Ends
  <2>1. \A q \in Sids : store'[q] = store[q] \/ store'[q] = NoSession BY <1>2, RemovalType DEF SInv, IInv
  <2>2. \A t \in Turns : /\ turns'[t].pc = turns[t].pc /\ turns'[t].cell = turns[t].cell
                         /\ turns'[t].sub = turns[t].sub /\ turns'[t].sid = turns[t].sid
    BY <1>2, DetachType DEF SInv, IInv
  <2>3. QED BY <2>1, <2>2, Constants DEF Ends
<1>4. \A u : \A i \in Subs :
         /\ Fallback(rows, u, x)[i].chat = rows[i].chat
         /\ Fallback(rows, u, x)[i].state = "none" => rows[i].state = "none"
  <2>1. \A u : \A i \in Latest(OpenRows(u)) : rows[i].state = "open"
    BY LatestInside DEF OpenRows
  <2>2. \A i \in Subs : rows[i] \in Row BY <1>1
  <2>3. \A r \in Row :
           /\ [r EXCEPT !.state = "done", !.final = x].chat = r.chat
           /\ [r EXCEPT !.state = "done", !.final = x].state = "done"
    BY DEF Row
  <2>4. QED BY <2>1, <2>2, <2>3 DEF Fallback
<1>5. \A q \in Sids : \A n : store[q].sub # 0 =>
        LET r == Persisted(rows[store[q].sub], store[q], x, n)
        IN r.chat = heap[store[q].cell] /\ r.state = "done"
  <2>1. \A r \in Row : \A e, n :
           /\ Persisted(r, e, x, n).chat = heap[e.cell]
           /\ Persisted(r, e, x, n).state = "done"
    BY DEF Persisted, Row
  <2>2. \A q \in Sids : store[q].sub # 0 => rows[store[q].sub] \in Row BY <1>1, WritersTalk
  <2>3. QED BY <2>1, <2>2
<1>6. ASSUME NEW i \in Subs
      PROVE  \/ rows'[i].chat = rows[i].chat /\ (rows'[i].state = "none" => rows[i].state = "none")
             \/ /\ rows'[i].state = "done"
                /\ \E q \in Sids : store[q].sub = i /\ rows'[i].chat = heap[store[q].cell]
  <2>1. CASE SaveBpmn(s, x)
    <3>1. CASE store[s].live /\ store[s].sub # 0
      <4>1. rows' = [rows EXCEPT ![store[s].sub] =
                       Persisted(rows[store[s].sub], store[s], x, Untracked({s})[s])]
        BY <2>1, <3>1 DEF SaveBpmn
      <4>2. QED BY <1>1, <1>5, <3>1, <4>1
    <3>2. CASE ~(store[s].live /\ store[s].sub # 0)
      BY <1>4, <2>1, <3>2 DEF SaveBpmn
    <3>3. QED BY <3>1, <3>2
  <2>2. CASE SaveNoSid(s, x)
    <3> DEFINE all == {q \in Sids : store[q].live}
               bound == {q \in all : store[q].sub # 0}
    <3>1. PICK last \in [{store[q].sub : q \in bound} -> bound] :
            /\ \A j \in DOMAIN last : store[last[j]].sub = j
            /\ rows' = IF bound = {} THEN Fallback(rows, owner[s], x)
                       ELSE [j \in Subs |->
                               IF j \in DOMAIN last
                               THEN Persisted(rows[j], store[last[j]], x, Untracked(all)[last[j]])
                               ELSE rows[j]]
      BY <2>2 DEF SaveNoSid
    <3>2. CASE bound = {} BY <1>4, <3>1, <3>2
    <3>3. CASE bound # {} /\ i \in DOMAIN last
      <4>1. last[i] \in Sids /\ store[last[i]].sub = i /\ store[last[i]].sub # 0
        BY <3>1, <3>3
      <4>2. rows'[i] = Persisted(rows[store[last[i]].sub], store[last[i]], x, Untracked(all)[last[i]])
        BY <3>1, <3>3, <4>1
      <4> DEFINE q == last[i]
                 n == Untracked(all)[q]
      <4>3. rows'[i] = Persisted(rows[store[q].sub], store[q], x, n) /\ q \in Sids /\ store[q].sub # 0
        BY <4>1, <4>2
      <4> HIDE DEF q, n
      <4>4. rows'[i].chat = heap[store[q].cell] /\ rows'[i].state = "done"
        BY <1>5, <4>3
      <4>5. QED BY <4>1, <4>3, <4>4 DEF q
    <3>4. CASE bound # {} /\ i \notin DOMAIN last BY <3>1, <3>4
    <3>5. QED BY <3>2, <3>3, <3>4
  <2>3. QED BY <2>1, <2>2
<1>7. \A q \in Sids : store[q].sub # 0 => Talks(store[q].cell) /\ store[q].cell \in Cells
  BY WritersTalk DEF Talks
<1>8. 0 \notin Subs BY DEF Subs
<1>9. LogInTalk'
  <2>1. \A i \in Subs : \/ rows'[i].chat = rows[i].chat
                        \/ \E c \in Cells : Talks(c) /\ rows'[i].chat = heap[c]
    BY <1>6, <1>7, <1>8
  <2>2. QED BY <1>2, <1>3, <2>1, EndsLog
<1>10. Extended
  <2>1. \A i \in Subs : IsPrefix(rows[i].chat, rows[i].chat)
    BY ChatsTyped, PrefixGrows DEF SInv, IInv
  <2>2. QED BY <1>6, <1>8, <2>1 DEF Extended, LogInTalk
<1>11. Unwritten' BY <1>6 DEF Unwritten
<1>12. OneTalk' BY <1>3, EndsTalk
<1>13. Joined'
  <2>1. \A q \in Sids : sock'[q] \in {"new", "open"} => sock[q] \in {"new", "open"}
    BY <1>1 DEF SaveBpmn, SaveNoSid
  <2>2. \A t \in Turns : turns'[t].pc # "joining"
    BY <1>2, <1>3, Constants DEF Yielded, Ends
  <2>3. QED BY <1>3, <2>1, <2>2, Constants DEF Joined, Ends
<1>14. QED BY <1>9, <1>10, <1>11, <1>12, <1>13

\* Joining begins the only conversation, and the row's log is what it begins with.
LEMMA CreateLogs ==
    ASSUME OneTab, InMemory, LogInv, SInv', NEW t \in Turns, NEW s \in Sids, JoinCreate(t, s)
    PROVE  LogInv' /\ Extended
<1> USE DEF LogInv
<1>1. store \in [Sids -> Session] /\ turns \in [Turns -> Turn] /\ sock \in [Sids -> PageStates]
  BY DEF SInv, IInv, TypeOK
<1>2. Sids = {s} BY DEF OneTab
<1>3. \A r \in Turns : turns[r].pc = "idle" BY DEF Joined, JoinCreate
<1>4. PICK c : store' = [store EXCEPT ![s] = [live |-> TRUE, stopped |-> FALSE, sub |-> 0, cell |-> c]]
  BY DEF JoinCreate
<1>5. store'[s].live /\ store'[s].sub = 0 /\ store'[s].cell = c /\ sock'[s] = "joining" /\ rows' = rows
  BY <1>1, <1>4 DEF JoinCreate
<1>6. [Idle EXCEPT !.pc = "joining", !.sid = s].pc = "joining"
      /\ [Idle EXCEPT !.pc = "joining", !.sid = s].sid = s
  BY DEF Idle
<1>7. turns'[t].pc = "joining" /\ turns'[t].sid = s
      /\ \A r \in Turns : r # t => turns'[r].pc = "idle"
  BY <1>1, <1>3, <1>6 DEF JoinCreate
<1>8. \A r \in Turns : turns'[r].sub = 0 BY <1>7 DEF SInv, BoundRows
<1>9. Joined' BY <1>2, <1>5, <1>7 DEF Joined
<1>10. OneTalk' BY <1>2, <1>5, <1>7 DEF OneTalk, Talks
<1>11. LogInTalk' BY <1>2, <1>5, <1>8 DEF LogInTalk
<1>12. Unwritten' BY <1>5 DEF Unwritten
<1>13. Extended
  <2>1. \A i \in Subs : IsPrefix(rows[i].chat, rows[i].chat)
    BY ChatsTyped, PrefixGrows DEF SInv, IInv
  <2>2. QED BY <1>5, <2>1 DEF Extended
<1>14. QED BY <1>9, <1>10, <1>11, <1>12, <1>13

\* A resumed conversation is the row's log; a new row has none.
LEMMA BindLogs ==
    ASSUME OneTab, InMemory, LogInv, SInv', NEW t \in Turns, JoinBind(t)
    PROVE  LogInv' /\ Extended
<1> USE DEF LogInv
<1> DEFINE s == turns[t].sid
           u == owner[s]
           resumed == Resumable(u, s) # {}
<1>1. s \in Sids /\ turns[t].pc = "joining" BY DEF JoinBind, SInv, IInv, Attached
<1>2. PICK i \in IF resumed THEN Latest(Resumable(u, s)) ELSE FirstFree :
        LET restored == resumed /\ rows[i].chat # <<>> /\ store[s].live
        IN /\ rows' = [rows EXCEPT ![i] =
                         IF resumed THEN [rows[i] EXCEPT !.sid = s]
                         ELSE [NoRow EXCEPT !.state = "open", !.user = u, !.sid = s]]
           /\ store' = IF store[s].live THEN [store EXCEPT ![s].sub = i] ELSE store
           /\ turns' = [turns EXCEPT ![t] = Idle]
           /\ Collect(IF restored THEN [heap EXCEPT ![store[s].cell] = rows[i].chat]
                      ELSE heap)
           /\ sock' = IF sock[s] = "joining"
                      THEN [sock EXCEPT ![s] = IF restored THEN "ready" ELSE "greet"]
                      ELSE sock
  BY DEF JoinBind
<1>3. i \in Subs /\ (resumed => rows[i].state = "open") /\ (~resumed => rows[i].state = "none")
  BY <1>2 DEF Latest, Resumable, OpenRows, FirstFree
<1>4. store \in [Sids -> Session] /\ turns \in [Turns -> Turn] /\ rows \in [Subs -> Row]
      /\ sock \in [Sids -> PageStates] /\ heap \in [Cells -> Seq(Message)]
  BY DEF SInv, IInv, TypeOK
<1>5. Sids = {s} BY <1>1 DEF OneTab
<1>6. sock[s] = "joining" /\ store[s].live /\ store[s].cell \in Cells
      /\ \A r \in Turns : r # t => turns[r].pc = "idle"
  BY <1>1 DEF Joined, SInv, IInv, Attached
<1>7. store'[s].live /\ store'[s].sub = i /\ store'[s].cell = store[s].cell
  <2>1. store[s] \in Session BY <1>1, <1>4
  <2>2. [store[s] EXCEPT !.sub = i].live = store[s].live
        /\ [store[s] EXCEPT !.sub = i].cell = store[s].cell /\ [store[s] EXCEPT !.sub = i].sub = i
    BY <2>1 DEF Session
  <2>3. QED BY <1>1, <1>2, <1>4, <1>6, <2>2
<1>8. \A r \in Turns : turns'[r].pc = "idle" BY <1>2, <1>4, <1>6, Constants
<1>9. \A r \in Turns : turns'[r].sub = 0 BY <1>8 DEF SInv, BoundRows
<1>10. rows'[i].chat = rows[i].chat /\ rows'[i].state = "open" /\ \A j \in Subs : j # i => rows'[j] = rows[j]
  <2>1. CASE resumed
    <3>1. rows[i] \in Row BY <1>3, <1>4
    <3>2. rows'[i] = [rows[i] EXCEPT !.sid = s] BY <1>2, <1>3, <1>4, <2>1
    <3>3. QED BY <1>2, <1>3, <1>4, <2>1, <3>1, <3>2 DEF Row
  <2>2. CASE ~resumed
    <3>1. rows'[i] = [NoRow EXCEPT !.state = "open", !.user = u, !.sid = s]
      BY <1>2, <1>3, <1>4, <2>2
    <3>2. rows'[i].chat = <<>> /\ rows'[i].state = "open" BY <3>1 DEF NoRow
    <3>3. QED BY <1>2, <1>3, <1>4, <2>2, <3>2 DEF Unwritten
  <2>3. QED BY <2>1, <2>2
<1>11. sock'[s] \in {"ready", "greet"}
  <2>1. sock' = [sock EXCEPT ![s] = "ready"] \/ sock' = [sock EXCEPT ![s] = "greet"]
    BY <1>2, <1>6
  <2>2. QED BY <1>1, <1>4, <2>1
<1>12. rows[i].chat \in Seq(Message) /\ heap[store[s].cell] \in Seq(Message)
  BY <1>3, <1>6, ChatsTyped DEF SInv, IInv
<1>13. IsPrefix(rows'[i].chat, heap'[store'[s].cell])
  <2>1. CASE resumed /\ rows[i].chat # <<>>
    <3>1. PICK h : h = [heap EXCEPT ![store[s].cell] = rows[i].chat] /\ Collect(h)
      BY <1>2, <1>6, <2>1
    <3>2. heap'[store[s].cell] = h[store[s].cell] BY <1>1, <1>6, <1>7, <3>1 DEF Collect
    <3>3. heap'[store'[s].cell] = rows[i].chat BY <1>4, <1>6, <1>7, <3>1, <3>2
    <3>4. QED BY <1>10, <1>12, <3>3, PrefixGrows
  <2>2. CASE ~(resumed /\ rows[i].chat # <<>>)
    <3>1. Collect(heap) BY <1>2, <2>2
    <3>2. heap'[store'[s].cell] = heap[store[s].cell] BY <1>5, <1>6, <1>7, <3>1, CollectHeld
    <3>3. rows[i].chat = <<>> BY <1>3, <2>2 DEF Unwritten
    <3>4. QED BY <1>10, <1>12, <3>2, <3>3, PrefixGrows
  <2>3. QED BY <2>1, <2>2
<1> HIDE DEF s, u, resumed
<1>14. Joined' BY <1>5, <1>8, <1>11 DEF Joined
<1>15. OneTalk' BY <1>5, <1>8 DEF OneTalk, Talks
<1>16. LogInTalk' BY <1>5, <1>7, <1>9, <1>13 DEF LogInTalk
<1>17. Unwritten' BY <1>10 DEF Unwritten
<1>18. Extended
  <2>1. \A j \in Subs : IsPrefix(rows[j].chat, rows[j].chat)
    BY ChatsTyped, PrefixGrows DEF SInv, IInv
  <2>2. QED BY <1>10, <2>1 DEF Extended
<1>19. QED BY <1>14, <1>15, <1>16, <1>17, <1>18

\* A turn begins with what the session's conversation holds and adds to it.
LEMMA BeginLogs ==
    ASSUME OneTab, InMemory, LogInv, SInv', NEW t \in Turns, NEW s \in Sids, NEW kind,
           NEW entries \in Seq(Message), Yielded, sock[s] \in {"greet", "ready", "busy"},
           Begin(t, s, kind, entries), rows' = rows,
           sock'[s] \in {"greeting", "ready", "busy"}
    PROVE  LogInv' /\ Extended
<1> USE DEF LogInv
<1> DEFINE n == store[s].cell
<1>1. store \in [Sids -> Session] /\ turns \in [Turns -> Turn] /\ heap \in [Cells -> Seq(Message)]
  BY DEF SInv, IInv, TypeOK
<1>2. store[s] \in Session /\ store[s].live /\ n \in Cells /\ Sids = {s}
  BY <1>1 DEF Begin, SInv, IInv, Attached, OneTab
<1>3. PICK h : /\ h = [heap EXCEPT ![n] = heap[n] \o entries] /\ Collect(h)
               /\ turns' = [turns EXCEPT ![t] =
                      [Idle EXCEPT !.pc = "llm", !.sid = s, !.kind = kind,
                                   !.cell = n, !.sub = store[s].sub]]
  BY DEF Begin, Conversation
<1>4. store'[s].live /\ store'[s].sub = store[s].sub /\ store'[s].cell = n
  <2>1. store' = store \/ store' = [store EXCEPT ![s].stopped = FALSE] BY DEF Begin
  <2>2. QED BY <1>1, <1>2, <2>1 DEF Session
<1>5. /\ turns'[t].pc = "llm" /\ turns'[t].cell = n /\ turns'[t].sub = store[s].sub
      /\ \A r \in Turns : r # t => turns'[r] = turns[r]
  <2> DEFINE g == [Idle EXCEPT !.pc = "llm", !.sid = s, !.kind = kind, !.cell = n, !.sub = store[s].sub]
  <2>1. g.pc = "llm" /\ g.cell = n /\ g.sub = store[s].sub BY DEF Idle
  <2>2. turns' = [turns EXCEPT ![t] = g] BY <1>3
  <2> HIDE DEF g
  <2>3. QED BY <1>1, <2>1, <2>2
<1>6. \A r \in Turns : turns[r].pc # "joining" BY DEF Yielded
<1>7. Talks(n) BY <1>2 DEF Talks
<1>8. Joined' BY <1>2, <1>5, <1>6 DEF Joined
<1>9. OneTalk'
  <2>1. \A c : Talks(c)' => c = n
    <3>1. \A r \in Turns : turns[r].pc = "llm" => turns[r].cell = n
      BY <1>7 DEF OneTalk, Talks
    <3>2. QED BY <1>2, <1>4, <1>5, <3>1 DEF Talks
  <2>2. QED BY <2>1 DEF OneTalk
<1>10. heap'[n] = heap[n] \o entries /\ heap[n] \in Seq(Message)
  <2>1. heap'[store'[s].cell] = h[store'[s].cell] BY <1>2, <1>3, <1>4, CollectHeld
  <2>2. QED BY <1>1, <1>2, <1>3, <1>4, <2>1
<1>11. \A a \in Seq(Message) : IsPrefix(a, heap[n]) => IsPrefix(a, heap'[n])
  BY <1>10, PrefixGrows
<1>12. store[s].sub # 0 => IsPrefix(rows[store[s].sub].chat, heap'[n])
  BY <1>2, <1>11, WritersTalk, ChatsTyped DEF LogInTalk, SInv, IInv
<1>13. ASSUME NEW r \in Turns, turns'[r].sub # 0
       PROVE  IsPrefix(rows'[turns'[r].sub].chat, heap'[turns'[r].cell])
  <2>1. CASE r = t BY <1>5, <1>12, <1>13, <2>1
  <2>2. CASE r # t
    <3>1. turns'[r] = turns[r] BY <1>5, <2>2
    <3>2. turns[r].pc = "llm" /\ turns[r].sub \in Subs BY <1>13, <3>1, WritersTalk
    <3>3. turns[r].cell = n BY <1>7, <3>2 DEF OneTalk, Talks
    <3>4. rows[turns[r].sub].chat \in Seq(Message) BY <3>2, ChatsTyped DEF SInv, IInv
    <3>5. IsPrefix(rows[turns[r].sub].chat, heap[n]) BY <1>13, <3>1, <3>3 DEF LogInTalk
    <3>6. QED BY <1>11, <3>1, <3>3, <3>4, <3>5
  <2>3. QED BY <2>1, <2>2
<1>14. LogInTalk' BY <1>2, <1>4, <1>12, <1>13 DEF LogInTalk
<1>15. Unwritten' BY DEF Unwritten
<1>16. Extended
  <2>1. \A j \in Subs : IsPrefix(rows[j].chat, rows[j].chat)
    BY ChatsTyped, PrefixGrows DEF SInv, IInv
  <2>2. QED BY <2>1 DEF Extended
<1>17. QED BY <1>8, <1>9, <1>14, <1>15, <1>16

\* Chat events of the shipped page.
LEMMA SendLogs ==
    ASSUME OneTab, InMemory, ~FullApi, LogInv, SInv', NEW t \in Turns, NEW s \in Sids,
           \/ SendGreeting(t, s) \/ SendMessage(t, s)
           \/ RequestCompletion(t, s) \/ RequestAnalysis(t, s)
    PROVE  LogInv' /\ Extended
<1>1. rows' = rows /\ Yielded /\ ~RequestAnalysis(t, s)
  BY DEF SendGreeting, SendMessage, RequestCompletion, RequestAnalysis
<1>2. sock \in [Sids -> PageStates] BY DEF LogInv, SInv, IInv, TypeOK
<1>3. sock[s] \in {"greet", "ready", "busy"} /\ sock'[s] \in {"greeting", "ready", "busy"}
      /\ \A q \in Sids : q # s => sock'[q] = sock[q]
  BY <1>1, <1>2 DEF SendGreeting, SendMessage, RequestCompletion
<1>4. CASE Unanswered(s)
  <2>1. UNCHANGED <<store, heap, turns, rows>> BY <1>1, <1>4 DEF Unanswered
  <2>2. OneTalk' /\ LogInTalk' /\ Unwritten'
    BY <2>1 DEF LogInv, OneTalk, Talks, LogInTalk, Unwritten
  <2>3. \A r \in Turns : turns[r].pc # "joining" BY <1>1 DEF Yielded
  <2>4. Joined' BY <1>3, <2>1, <2>3 DEF LogInv, Joined
  <2>5. \A j \in Subs : IsPrefix(rows[j].chat, rows[j].chat)
    BY ChatsTyped, PrefixGrows DEF LogInv, SInv, IInv
  <2>6. QED BY <2>1, <2>2, <2>4, <2>5 DEF LogInv, Extended
<1>5. ASSUME NEW kind, Begin(t, s, kind, <<>>) PROVE LogInv' /\ Extended
  <2>1. <<>> \in Seq(Message) OBVIOUS
  <2>2. QED BY <1>1, <1>3, <1>5, <2>1, BeginLogs
<1>6. ASSUME NEW kind, NEW from \in {"user", "system"}, next <= MaxMsgs,
             Begin(t, s, kind, <<[id |-> next, from |-> from, by |-> owner[s]]>>)
      PROVE  LogInv' /\ Extended
  <2>1. next \in 1..MaxMsgs /\ owner[s] \in Users
    BY <1>3, <1>6, BoundsAssumption DEF LogInv, SInv, IInv, TypeOK, Attached
  <2>2. <<[id |-> next, from |-> from, by |-> owner[s]]>> \in Seq(Message)
    BY <2>1 DEF Message
  <2>3. QED BY <1>1, <1>3, <1>6, <2>2, BeginLogs
<1>7. QED BY <1>1, <1>4, <1>5, <1>6 DEF SendGreeting, SendMessage, RequestCompletion

\* A reply goes to the one conversation and, with all that it holds, to the row.
LEMMA ReplyLogs ==
    ASSUME OneTab, InMemory, LogInv, SInv', NEW t \in Turns, NEW more \in BOOLEAN, Reply(t, more)
    PROVE  LogInv' /\ Extended
<1> USE DEF LogInv
<1> DEFINE w == turns[t]
           n == w.cell
           m == [id |-> next, from |-> "ai", by |-> owner[w.sid]]
           chat == Append(heap[n], m)
<1>1. w.pc = "llm" /\ next <= MaxMsgs /\ store' = store /\ Yielded
  BY DEF Reply
<1>2. store \in [Sids -> Session] /\ turns \in [Turns -> Turn] /\ w \in Turn
      /\ rows \in [Subs -> Row] /\ heap \in [Cells -> Seq(Message)] /\ sock \in [Sids -> PageStates]
  BY DEF SInv, IInv, TypeOK
<1>3. w.sid \in Sids /\ n \in Cells /\ owner[w.sid] \in Users
  BY <1>1 DEF SInv, IInv, Attached
<1>4. m \in Message
  <2>1. next \in 1..MaxMsgs BY <1>1, BoundsAssumption DEF SInv, IInv, TypeOK
  <2>2. QED BY <1>3, <2>1 DEF Message
<1>5. heap[n] \in Seq(Message) /\ chat \in Seq(Message) BY <1>2, <1>3, <1>4
<1>6. PICK h : h = [heap EXCEPT ![n] = chat] /\ Collect(h) BY DEF Reply
<1>7. rows' = rows \/ (w.sub # 0 /\ rows' = [rows EXCEPT ![w.sub].chat = chat])
  BY DEF Reply
<1>8. Talks(n) BY <1>1 DEF Talks
<1>9. w.sub # 0 => w.sub \in Subs /\ rows[w.sub].state # "none"
                   /\ IsPrefix(rows[w.sub].chat, heap[n])
  BY WritersTalk DEF SInv, BoundRows, LogInTalk
<1>10. Ends
  <2>1. turns' = [turns EXCEPT ![t] = [w EXCEPT !.retried = FALSE]] \/ turns' = [turns EXCEPT ![t] = Idle]
    BY DEF Reply
  <2>2. \A r \in Turns : \/ turns'[r] = Idle
                         \/ /\ turns'[r].pc = turns[r].pc /\ turns'[r].cell = turns[r].cell
                            /\ turns'[r].sub = turns[r].sub /\ turns'[r].sid = turns[r].sid
    <3>1. CASE turns' = [turns EXCEPT ![t] = Idle] BY <1>2, <3>1
    <3>2. CASE turns' = [turns EXCEPT ![t] = [w EXCEPT !.retried = FALSE]]
      BY <1>2, <3>2 DEF Turn
    <3>3. QED BY <2>1, <3>1, <3>2
  <2>3. QED BY <1>1, <2>2 DEF Ends
<1>11. \A q \in Sids : sock'[q] \in {"new", "open"} => sock[q] \in {"new", "open"}
  BY <1>2 DEF Reply, Unlock
<1> HIDE DEF w, m, chat, n
<1>12. IsPrefix(chat, chat) /\ \A a \in Seq(Message) : IsPrefix(a, heap[n]) => IsPrefix(a, chat)
  BY <1>4, <1>5, PrefixGrows DEF chat
<1>13. \A i \in Subs : \/ rows'[i].chat = rows[i].chat /\ rows'[i].state = rows[i].state
                       \/ /\ rows'[i].chat = chat /\ IsPrefix(rows[i].chat, heap[n])
                          /\ rows'[i].state # "none"
  <2>1. CASE rows' = rows BY <2>1
  <2>2. CASE w.sub # 0 /\ rows' = [rows EXCEPT ![w.sub].chat = chat]
    <3>1. rows[w.sub] \in Row BY <1>2, <1>9, <2>2
    <3>2. rows'[w.sub] = [rows[w.sub] EXCEPT !.chat = chat] BY <1>2, <1>9, <2>2
    <3>3. rows'[w.sub].chat = chat /\ rows'[w.sub].state = rows[w.sub].state
      BY <3>1, <3>2 DEF Row
    <3>4. QED BY <1>2, <1>9, <2>2, <3>3
  <2>3. QED BY <1>7, <2>1, <2>2
<1>14. \A i \in Subs : rows[i].chat \in Seq(Message) BY ChatsTyped DEF SInv, IInv
<1>15. Extended
  <2>1. \A j \in Subs : IsPrefix(rows[j].chat, rows[j].chat) BY <1>14, PrefixGrows
  <2>2. QED BY <1>12, <1>13, <1>14, <2>1 DEF Extended
<1>16. Unwritten' BY <1>13 DEF Unwritten
<1>17. OneTalk' BY <1>10, EndsTalk
<1>18. Joined'
  <2>1. \A r \in Turns : turns'[r].pc # "joining"
    BY <1>1, <1>10, Constants DEF Yielded, Ends
  <2>2. QED BY <1>10, <1>11, <2>1, Constants DEF Joined, Ends
<1>19. h[n] = chat BY <1>2, <1>3, <1>6
<1>20. ASSUME NEW i \in Subs, IsPrefix(rows[i].chat, heap[n]) PROVE IsPrefix(rows'[i].chat, chat)
  BY <1>12, <1>13, <1>14, <1>20
<1>21. ASSUME NEW q \in Sids, store'[q].sub # 0
       PROVE  IsPrefix(rows'[store'[q].sub].chat, heap'[store'[q].cell])
  <2>1. store[q].live /\ store[q].sub \in Subs /\ store'[q] = store[q]
    BY <1>1, <1>21, WritersTalk
  <2>2. store[q].cell = n BY <1>8, <2>1 DEF OneTalk, Talks
  <2>3. heap'[n] = chat BY <1>3, <1>6, <1>19, <2>1, <2>2, CollectHeld
  <2>4. IsPrefix(rows[store[q].sub].chat, heap[n]) BY <1>21, <2>1, <2>2 DEF LogInTalk
  <2>5. QED BY <1>20, <2>1, <2>2, <2>3, <2>4
<1>22. ASSUME NEW r \in Turns, turns'[r].sub # 0
       PROVE  IsPrefix(rows'[turns'[r].sub].chat, heap'[turns'[r].cell])
  <2>1. turns'[r].sub = turns[r].sub /\ turns'[r].cell = turns[r].cell
    BY <1>10, <1>22, Constants DEF Ends
  <2>2. turns[r].pc = "llm" /\ turns[r].sub \in Subs BY <1>22, <2>1, WritersTalk
  <2>3. turns[r].cell = n BY <1>8, <2>2 DEF OneTalk, Talks
  <2>4. heap'[n] = chat BY <1>3, <1>6, <1>19, <2>1, <2>3, CollectHeld
  <2>5. IsPrefix(rows[turns[r].sub].chat, heap[n]) BY <1>22, <2>1, <2>3 DEF LogInTalk
  <2>6. QED BY <1>20, <2>1, <2>2, <2>3, <2>4, <2>5
<1>23. LogInTalk' BY <1>21, <1>22 DEF LogInTalk
<1>24. QED BY <1>15, <1>16, <1>17, <1>18, <1>23

\* No step of one page's conversation takes anything out of the log.
LEMMA StepLogs ==
    ASSUME OneTab, InMemory, ~FullApi, LogInv, [Next]_vars PROVE LogInv' /\ Extended
<1>1. SInv' BY StepSInv DEF LogInv
<1>2. CASE UNCHANGED vars
  <2>1. (Joined /\ OneTalk /\ LogInTalk /\ Unwritten)'
    BY <1>2 DEF vars, LogInv, Joined, OneTalk, Talks, LogInTalk, Unwritten
  <2>2. \A j \in Subs : IsPrefix(rows[j].chat, rows[j].chat)
    BY ChatsTyped, PrefixGrows DEF LogInv, SInv, IInv
  <2>3. QED BY <1>1, <1>2, <2>1, <2>2 DEF vars, LogInv, Extended
<1>3. CASE \/ \E s \in Sids, u \in Users : Connect(s, u)
           \/ \E old, s \in Sids : Reconnect(old, s)
           \/ \E s \in Sids : Disconnect(s) \/ StaleCleanup(s) \/ StopAI(s)
           \/ WorkerRestart
           \/ \E t \in Turns : Malformed(t) \/ ServiceError(t)
           \/ \E s \in Sids, x \in Xmls : AutoSave(s, x)
  BY <1>1, <1>3, LossLogs
<1>4. CASE \E t \in Turns, s \in Sids :
            \/ SendGreeting(t, s) \/ SendMessage(t, s)
            \/ RequestCompletion(t, s) \/ RequestAnalysis(t, s)
  BY <1>1, <1>4, SendLogs
<1>5. CASE \E t \in Turns, s \in Sids : JoinCreate(t, s) BY <1>1, <1>5, CreateLogs
<1>6. CASE \E t \in Turns : JoinBind(t) BY <1>1, <1>6, BindLogs
<1>7. CASE \E t \in Turns, more \in BOOLEAN : Reply(t, more) BY <1>1, <1>7, ReplyLogs
<1>8. CASE \E s \in Sids, x \in Xmls : SaveBpmn(s, x) \/ SaveNoSid(s, x)
  BY <1>1, <1>8, SaveLogs
<1>9. CASE \E s \in Sids : RedisEvict(s) \/ ClearChat(s) BY <1>9 DEF RedisEvict, ClearChat
<1>10. QED BY <1>2, <1>3, <1>4, <1>5, <1>6, <1>7, <1>8, <1>9 DEF Next

\* As long as one page works on the task and the sessions are in memory, what an
\* administrator has seen in the chat log stays in it, for any number of turns
\* that overlap, with stops, failed calls, cleanups, restarts and the save
\* (persist_chat_log, persist_mentor_state, _persist_submission).
THEOREM ChatLogsExtend ==
    InMemory /\ OneTab /\ ~FullApi => (Spec => ChatLogExtends)
<1>1. Init => LogInv
  <2>1. ASSUME Init PROVE LogInv
    <3>1. SInv BY <2>1, InitSInv
    <3>2. Joined /\ OneTalk /\ LogInTalk /\ Unwritten
      BY <2>1, Constants DEF Init, Joined, OneTalk, Talks, LogInTalk, Unwritten, NoRow
    <3>3. QED BY <3>1, <3>2 DEF LogInv
  <2>2. QED BY <2>1
<1> SUFFICES ASSUME InMemory, OneTab, ~FullApi PROVE Spec => ChatLogExtends OBVIOUS
<1>2. LogInv /\ [Next]_vars => LogInv' BY StepLogs
<1>3. LogInv /\ [Next]_vars => [\A i \in Subs : IsPrefix(rows[i].chat, rows'[i].chat)]_vars
  BY StepLogs DEF Extended
<1>4. QED BY <1>1, <1>2, <1>3, PTL DEF Spec, ChatLogExtends
-----------------------------------------------------------------------------
(* The tutor implements Submissions *)

View == [i \in Subs |-> Visible(rows[i])]

\* A row starts out unseen.
LEMMA NothingToSee == Visible(NoRow) = Promised!NotStarted
  BY DEF Visible, Voices, NoRow, Promised!NotStarted

\* Each column of a row shows in its own field, the socket in none.
LEMMA TakenOverSeen ==
    ASSUME NEW r \in Row, NEW s PROVE Visible([r EXCEPT !.sid = s]) = Visible(r)
  BY DEF Row, Visible

LEMMA DraftSeen ==
    ASSUME NEW r \in Row, NEW x
    PROVE  Visible([r EXCEPT !.draft = x]) = [Visible(r) EXCEPT !.draft = x]
  BY DEF Row, Visible

LEMMA ChatSeen ==
    ASSUME NEW r \in Row, NEW c
    PROVE  Visible([r EXCEPT !.chat = c]) = [Visible(r) EXCEPT !.voices = Voices(c)]
  BY DEF Row, Visible

LEMMA CompletionSeen ==
    ASSUME NEW r, NEW d, NEW x,
           d.state = "done", d.final = x, d.user = r.user, d.draft = r.draft
    PROVE  Visible(d) = Promised!HandedIn(Visible(r), x, Voices(d.chat))
  BY DEF Visible, Promised!HandedIn

Completed(r, x) == [r EXCEPT !.state = "done", !.final = x]

LEMMA FallbackSeen ==
    ASSUME NEW r \in Row, NEW x, NEW d, d = Completed(r, x)
    PROVE  /\ d.user = r.user
           /\ Visible(d) = Promised!HandedIn(Visible(r), x, Voices(d.chat))
<1>1. d.state = "done" /\ d.final = x /\ d.user = r.user /\ d.draft = r.draft
  BY DEF Row, Completed
<1>2. QED BY <1>1, CompletionSeen

LEMMA PersistedSeen ==
    ASSUME NEW r \in Row, NEW e, NEW x, NEW n, NEW d, d = Persisted(r, e, x, n)
    PROVE  /\ d.user = r.user
           /\ Visible(d) = Promised!HandedIn(Visible(r), x, Voices(d.chat))
<1>1. d.state = "done" /\ d.final = x /\ d.user = r.user /\ d.draft = r.draft
  BY DEF Row, Persisted
<1>2. QED BY <1>1, CompletionSeen

\* What is heard in a row that keeps to its user is its user's.
LEMMA OwnVoices ==
    ASSUME NEW chat, NEW u, By(chat, u) PROVE Voices(chat) \subseteq {u}
  BY DEF By, Voices

NewRow(u, s) == [NoRow EXCEPT !.state = "open", !.user = u, !.sid = s]

\* A new row is one the user could start.
LEMMA StartSeen ==
    ASSUME SInv, NEW u \in Users, NEW i \in FirstFree, u # Anon => OpenRows(u) = {},
           NEW s \in Sids,
           rows' = [rows EXCEPT ![i] = NewRow(u, s)]
    PROVE  Promised!Start(i, u)
<1> USE DEF NewRow
<1>1. i \in Subs /\ rows[i].state = "none" /\ \A j \in 1..(i-1) : j \in Subs /\ rows[j].state # "none"
  BY BoundsAssumption DEF FirstFree, Subs
<1>2. \A j \in Subs : View[j].state = rows[j].state /\ View[j].user = rows[j].user
  BY DEF View, Visible
<1>3. rows \in [Subs -> Row] BY DEF SInv, IInv, TypeOK
<1>4. \A j \in Subs : j # i => View'[j] = View[j] BY <1>3 DEF View
<1>5. View'[i] = Visible([NoRow EXCEPT !.state = "open", !.user = u, !.sid = s])
  <2>1. rows'[i] = [NoRow EXCEPT !.state = "open", !.user = u, !.sid = s] BY <1>1, <1>3
  <2>2. View'[i] = Visible(rows'[i]) BY <1>1 DEF View, Visible
  <2>3. QED BY <2>1, <2>2
<1>6. View'[i] = Promised!Opened(u)
  <2> DEFINE d == [NoRow EXCEPT !.state = "open", !.user = u, !.sid = s]
  <2>1. /\ d.state = "open" /\ d.user = u /\ d.draft = NoXml /\ d.final = NoXml
        /\ d.chat = NoRow.chat
    BY DEF NoRow
  <2>2. Voices(NoRow.chat) = {} BY DEF NoRow, Voices
  <2> HIDE DEF d
  <2>3. Visible(d) = Promised!Opened(u) BY <2>1, <2>2 DEF Visible, Promised!Opened
  <2>4. QED BY <1>5, <2>3 DEF d
<1>7. View' = [View EXCEPT ![i] = Promised!Opened(u)]
  BY <1>1, <1>4, <1>6 DEF View
<1>8. \A j \in Subs : u # Anon => ~(View[j].state = "open" /\ View[j].user = u)
  BY <1>2 DEF OpenRows
<1>9. i \notin {j \in Subs : View[j].state # "none"}
      /\ \A j \in 1..(i-1) : j \in {k \in Subs : View[k].state # "none"}
  BY <1>1, <1>2
<1> DEFINE begun == {k \in Subs : View[k].state # "none"}
<1>10. Promised!Started = begun BY DEF Promised!Started, Promised!Subs, Subs, View
<1>11. i \notin begun /\ \A j \in 1..(i-1) : j \in begun BY <1>9
<1> HIDE DEF begun
<1>12. i \notin Promised!Started /\ \A j \in 1..(i-1) : j \in Promised!Started BY <1>10, <1>11
<1>13. QED BY <1>7, <1>8, <1>12 DEF Promised!Start, Promised!Subs, Subs, View

\* Whose words a row holds after a step, when the isolation still holds then.
LEMMA VoicesAfter ==
    ASSUME ChatInv', NEW i \in Subs
    PROVE  Voices(rows'[i].chat) \subseteq {rows'[i].user} /\ Voices(rows'[i].chat) \in SUBSET Users
<1>1. By(rows'[i].chat, rows'[i].user) BY DEF ChatInv, OwnRows
<1>2. rows'[i].chat \in Seq(Message) BY DEF ChatInv, SInv, IInv, TypeOK, Row
<1>3. ASSUME NEW c \in Seq(Message) PROVE \A k \in DOMAIN c : c[k].by \in Users
  <2>1. \A k \in DOMAIN c : c[k] \in Message BY <1>3, LenProperties, ElementOfSeq
  <2>2. QED BY <2>1 DEF Message
<1>4. Voices(rows'[i].chat) \in SUBSET Users BY <1>2, <1>3 DEF Voices
<1>5. QED BY <1>1, <1>4, OwnVoices

\* Whatever a save completes, it hands in.
LEMMA HandInSeen ==
    ASSUME ChatInv, ChatInv', NEW x \in Xmls, NEW S \in SUBSET Subs,
           \A i \in S : /\ rows[i].state # "none" /\ rows'[i].user = rows[i].user
                        /\ Visible(rows'[i])
                             = Promised!HandedIn(Visible(rows[i]), x, Voices(rows'[i].chat)),
           \A i \in Subs : i \notin S => rows'[i] = rows[i]
    PROVE  Promised!HandIn(S, x)
<1> DEFINE heard == [i \in S |-> Voices(rows'[i].chat)]
<1>1. \A i \in S : Voices(rows'[i].chat) \subseteq {rows[i].user}
                   /\ Voices(rows'[i].chat) \in SUBSET Users
  BY VoicesAfter
<1>2. heard \in [S -> SUBSET Users] BY <1>1
<1>3. \A i \in Subs : View[i].state = rows[i].state /\ View[i].user = rows[i].user
  BY DEF View, Visible
<1>4. \A i \in S : heard[i] \subseteq {View[i].user} BY <1>1, <1>3
<1>5. \A i \in Subs : View'[i] = IF i \in S THEN Promised!HandedIn(View[i], x, heard[i]) ELSE View[i]
  BY DEF View
<1>6. View' = [i \in Subs |-> IF i \in S THEN Promised!HandedIn(View[i], x, heard[i]) ELSE View[i]]
  BY <1>5 DEF View
<1>7. S \subseteq Promised!Started BY <1>3 DEF Promised!Started, Promised!Subs, Subs, View
<1> HIDE DEF heard
<1>8. QED BY <1>2, <1>4, <1>6, <1>7 DEF Promised!HandIn, Promised!Subs, Subs, View

\* A new chat log is talk.
LEMMA TalkSeen ==
    ASSUME ChatInv, ChatInv', NEW i \in Subs, rows[i].state # "none",
           NEW c, rows' = [rows EXCEPT ![i].chat = c]
    PROVE  Promised!Talk(i, Voices(c)) /\ Voices(c) \in SUBSET Users
<1>1. rows \in [Subs -> Row] /\ rows[i] \in Row BY DEF ChatInv, SInv, IInv, TypeOK
<1>2. rows'[i] = [rows[i] EXCEPT !.chat = c] BY <1>1
<1>3. rows'[i].chat = c /\ rows'[i].user = rows[i].user BY <1>1, <1>2 DEF Row
<1>4. Voices(c) \subseteq {rows[i].user} /\ Voices(c) \in SUBSET Users BY <1>3, VoicesAfter
<1>5. Visible(rows'[i]) = [Visible(rows[i]) EXCEPT !.voices = Voices(c)]
  BY <1>1, <1>2, ChatSeen
<1>6. \A j \in Subs : j # i => rows'[j] = rows[j] BY <1>1
<1>7. View' = [View EXCEPT ![i].voices = Voices(c)]
  <2>1. View'[i] = Visible(rows'[i]) /\ View[i] = Visible(rows[i]) BY DEF View, Visible
  <2>2. \A j \in Subs : j # i => View'[j] = View[j] BY <1>6 DEF View
  <2>3. View'[i] = [View[i] EXCEPT !.voices = Voices(c)] BY <1>5, <2>1
  <2>4. QED BY <2>2, <2>3 DEF View
<1>8. View[i].state # "none" /\ View[i].user = rows[i].user BY DEF View, Visible
<1>9. i \in Promised!Started BY <1>8 DEF Promised!Started, Promised!Subs, Subs, View
<1>10. QED BY <1>4, <1>7, <1>8, <1>9 DEF Promised!Talk, View

\* A draft is taken by an open submission.
LEMMA AutoSaveSeen ==
    ASSUME SInv, NEW s \in Sids, NEW x \in Xmls, AutoSave(s, x)
    PROVE  \E i \in Subs : Promised!Draft(i, x)
<1>1. rows \in [Subs -> Row] BY DEF SInv, IInv, TypeOK
<1>2. PICK i \in Subs : rows[i].state = "open" /\ rows' = [rows EXCEPT ![i].draft = x]
  BY DEF AutoSave, Latest, DraftRows
<1>3. rows'[i] = [rows[i] EXCEPT !.draft = x] BY <1>1, <1>2
<1>4. Visible(rows'[i]) = [Visible(rows[i]) EXCEPT !.draft = x] BY <1>1, <1>3, DraftSeen
<1>5. \A j \in Subs : j # i => rows'[j] = rows[j] BY <1>1, <1>2
<1>6. View' = [View EXCEPT ![i].draft = x] BY <1>4, <1>5 DEF View
<1>7. View[i].state = "open" BY <1>2 DEF View, Visible
<1>8. QED BY <1>6, <1>7 DEF Promised!Draft, View

\* Joining takes over the open submission unseen, or starts one.
LEMMA JoinSeen ==
    ASSUME SInv, NEW t \in Turns, JoinBind(t)
    PROVE  View' = View \/ \E i \in Subs, u \in Users : Promised!Start(i, u)
<1> DEFINE s == turns[t].sid
           u == owner[s]
<1>1. s \in Sids /\ u \in Users BY DEF SInv, IInv, Attached, JoinBind
<1>2. rows \in [Subs -> Row] BY DEF SInv, IInv, TypeOK
<1>3. CASE Resumable(u, s) # {}
  <2>1. PICK i \in Latest(Resumable(u, s)) : rows' = [rows EXCEPT ![i] = [rows[i] EXCEPT !.sid = s]]
    BY <1>3 DEF JoinBind
  <2>2. i \in Subs BY LatestInside DEF Resumable, OpenRows
  <2>3. rows'[i] = [rows[i] EXCEPT !.sid = s] /\ rows[i] \in Row BY <1>2, <2>1, <2>2
  <2>4. Visible(rows'[i]) = Visible(rows[i]) BY <2>3, TakenOverSeen
  <2>5. \A j \in Subs : j # i => rows'[j] = rows[j] BY <1>2, <2>1
  <2>6. QED BY <2>4, <2>5 DEF View
<1>4. CASE Resumable(u, s) = {}
  <2>1. PICK i \in FirstFree :
          rows' = [rows EXCEPT ![i] = NewRow(u, s)]
    BY <1>4 DEF JoinBind, NewRow
  <2>2. u # Anon => OpenRows(u) = {} BY <1>4 DEF Resumable
  <2>3. i \in Subs BY DEF FirstFree
  <2> HIDE DEF u, s
  <2>4. Promised!Start(i, u) BY <1>1, <2>1, <2>2, StartSeen
  <2>5. QED BY <1>1, <2>3, <2>4
<1>5. QED BY <1>3, <1>4

\* A save hands in: the fallback the user's open submission, if there is one,
\* and a save with sessions whatever they are bound to.
LEMMA SaveSeen ==
    ASSUME ChatInv, ChatInv', NEW s \in Sids, NEW x \in Xmls, SaveBpmn(s, x) \/ SaveNoSid(s, x)
    PROVE  \E S \in SUBSET Subs : Promised!HandIn(S, x)
<1>1. rows \in [Subs -> Row] /\ store \in [Sids -> Session] BY DEF ChatInv, SInv, IInv, TypeOK
<1>2. \A q \in Sids : store[q].sub # 0 => store[q].sub \in Subs /\ rows[store[q].sub].state # "none"
  BY <1>1 DEF ChatInv, SInv, BoundRows, Session
<1>3. ASSUME NEW i \in Subs, \/ rows'[i] = Completed(rows[i], x)
                            \/ \E q, n : rows'[i] = Persisted(rows[i], store[q], x, n)
      PROVE  /\ rows'[i].user = rows[i].user
             /\ Visible(rows'[i])
                  = Promised!HandedIn(Visible(rows[i]), x, Voices(rows'[i].chat))
  <2>1. rows[i] \in Row BY <1>1
  <2>2. CASE rows'[i] = Completed(rows[i], x) BY <2>1, <2>2, FallbackSeen
  <2>3. ASSUME NEW q, NEW n, rows'[i] = Persisted(rows[i], store[q], x, n)
        PROVE  /\ rows'[i].user = rows[i].user
               /\ Visible(rows'[i])
                    = Promised!HandedIn(Visible(rows[i]), x, Voices(rows'[i].chat))
    BY <2>1, <2>3, PersistedSeen
  <2>4. QED BY <1>3, <2>2, <2>3
<1>4. ASSUME NEW u, rows' = Fallback(rows, u, x) PROVE \E S \in SUBSET Subs : Promised!HandIn(S, x)
  <2> DEFINE S == {i \in Subs : u # Anon /\ i \in Latest(OpenRows(u))}
  <2>1. \A i \in S : rows[i].state # "none" BY LatestInside DEF OpenRows
  <2>2. \A i \in S : rows'[i] = Completed(rows[i], x) BY <1>4 DEF Fallback, Completed
  <2>3. \A i \in Subs : i \notin S => rows'[i] = rows[i] BY <1>4 DEF Fallback
  <2>4. S \in SUBSET Subs OBVIOUS
  <2> HIDE DEF S
  <2>5. \A i \in S : /\ rows'[i].user = rows[i].user
                     /\ Visible(rows'[i])
                          = Promised!HandedIn(Visible(rows[i]), x, Voices(rows'[i].chat))
    BY <1>3, <2>2, <2>4
  <2>6. Promised!HandIn(S, x) BY <2>1, <2>3, <2>4, <2>5, HandInSeen
  <2>7. QED BY <2>4, <2>6
<1>5. CASE SaveBpmn(s, x)
  <2>1. CASE store[s].live /\ store[s].sub # 0
    <3> DEFINE i == store[s].sub
               S == {i}
    <3>1. i \in Subs /\ rows[i].state # "none" BY <1>2, <2>1
    <3>2. rows' = [rows EXCEPT ![i] = Persisted(rows[i], store[s], x, Untracked({s})[s])]
      BY <1>5, <2>1 DEF SaveBpmn
    <3> HIDE DEF i
    <3>3. rows'[i] = Persisted(rows[i], store[s], x, Untracked({s})[s]) BY <1>1, <3>1, <3>2
    <3>4. /\ rows'[i].user = rows[i].user
          /\ Visible(rows'[i])
               = Promised!HandedIn(Visible(rows[i]), x, Voices(rows'[i].chat))
      BY <1>3, <3>1, <3>3
    <3>5. \A j \in Subs : j \notin S => rows'[j] = rows[j] BY <1>1, <3>2
    <3>6. S \in SUBSET Subs BY <3>1
    <3>7. Promised!HandIn(S, x) BY <3>1, <3>4, <3>5, <3>6, HandInSeen
    <3>8. QED BY <3>6, <3>7
  <2>2. CASE ~(store[s].live /\ store[s].sub # 0)
    BY <1>4, <1>5, <2>2 DEF SaveBpmn
  <2>3. QED BY <2>1, <2>2
<1>6. CASE SaveNoSid(s, x)
  <2> DEFINE all == {q \in Sids : store[q].live}
             bound == {q \in all : store[q].sub # 0}
  <2>1. PICK last \in [{store[q].sub : q \in bound} -> bound] :
          /\ \A i \in DOMAIN last : store[last[i]].sub = i
          /\ rows' = IF bound = {} THEN Fallback(rows, owner[s], x)
                     ELSE [i \in Subs |->
                             IF i \in DOMAIN last
                             THEN Persisted(rows[i], store[last[i]], x, Untracked(all)[last[i]])
                             ELSE rows[i]]
    BY <1>6 DEF SaveNoSid
  <2>2. CASE bound = {} BY <1>4, <2>1, <2>2
  <2>3. CASE bound # {}
    <3> DEFINE S == DOMAIN last
    <3>1. ASSUME NEW i \in S
          PROVE  i \in Subs /\ rows[i].state # "none" /\ last[i] \in Sids
      BY <1>2, <2>1
    <3>2. S \in SUBSET Subs BY <3>1
    <3>3. \A i \in S : rows'[i] = Persisted(rows[i], store[last[i]], x, Untracked(all)[last[i]])
      BY <2>1, <2>3, <3>2
    <3>4. \A i \in Subs : i \notin S => rows'[i] = rows[i] BY <2>1, <2>3
    <3> HIDE DEF S
    <3>5. \A i \in S : /\ rows'[i].user = rows[i].user
                       /\ Visible(rows'[i])
                            = Promised!HandedIn(Visible(rows[i]), x, Voices(rows'[i].chat))
      BY <1>3, <3>1, <3>3
    <3>6. Promised!HandIn(S, x) BY <3>1, <3>2, <3>4, <3>5, HandInSeen
    <3>7. QED BY <3>2, <3>6
  <2>4. QED BY <2>2, <2>3
<1>7. QED BY <1>5, <1>6

\* Every step of the tutor is a step of Submissions or is not seen.
LEMMA StepSeen == ChatInv /\ [Next]_vars => [Promised!Next]_View
<1> SUFFICES ASSUME ChatInv, [Next]_vars PROVE Promised!Next \/ View' = View OBVIOUS
<1>1. ChatInv' BY StepIsolates
<1>2. SInv /\ Promised!Subs = Subs BY DEF ChatInv, Promised!Subs, Subs
<1>3. CASE rows' = rows BY <1>3 DEF View, Visible
<1>4. CASE \E t \in Turns : JoinBind(t) BY <1>2, <1>4, JoinSeen DEF Promised!Next
<1>5. CASE \E t \in Turns, more \in BOOLEAN : Reply(t, more)
  <2>1. PICK t \in Turns, more \in BOOLEAN : Reply(t, more) BY <1>5
  <2>2. CASE turns[t].kind = "analysis" \/ turns[t].sub = 0 BY <1>3, <2>1, <2>2 DEF Reply
  <2>3. CASE turns[t].kind # "analysis" /\ turns[t].sub # 0
    <3> DEFINE i == turns[t].sub
    <3>1. turns[t] \in Turn BY DEF ChatInv, SInv, IInv, TypeOK
    <3>2. i \in Subs /\ rows[i].state # "none"
      BY <2>3, <3>1 DEF Turn, ChatInv, SInv, BoundRows
    <3>3. \E c : rows' = [rows EXCEPT ![i].chat = c] BY <2>1, <2>3 DEF Reply
    <3> HIDE DEF i
    <3>4. \E V \in SUBSET Users : Promised!Talk(i, V) BY <1>1, <3>2, <3>3, TalkSeen
    <3>5. QED BY <1>2, <3>2, <3>4 DEF Promised!Next
  <2>4. QED BY <2>2, <2>3
<1>6. CASE \E s \in Sids, x \in Xmls : AutoSave(s, x)
  BY <1>2, <1>6, AutoSaveSeen DEF Promised!Next
<1>7. CASE \E s \in Sids, x \in Xmls : SaveBpmn(s, x) \/ SaveNoSid(s, x)
  BY <1>1, <1>2, <1>7, SaveSeen DEF Promised!Next
<1>8. \/ rows' = rows
      \/ \E t \in Turns : JoinBind(t)
      \/ \E t \in Turns, more \in BOOLEAN : Reply(t, more)
      \/ \E s \in Sids, x \in Xmls : AutoSave(s, x)
      \/ \E s \in Sids, x \in Xmls : SaveBpmn(s, x) \/ SaveNoSid(s, x)
  BY DEF Next, vars, Connect, Reconnect, Disconnect, StaleCleanup, RedisEvict, WorkerRestart,
         JoinCreate, SendGreeting, SendMessage, RequestCompletion, RequestAnalysis, StopAI,
         ClearChat, Malformed, ServiceError
<1>9. QED BY <1>3, <1>4, <1>5, <1>6, <1>7, <1>8

\* The sockets, sessions, turns, losses, restarts and saves of the tutor, with
\* either session store, show outside only what Submissions allows: initial
\* states map to initial states, every step to a step or to none (handle_join_task,
\* auto_save_bpmn, save_bpmn, complete_and_upload).
THEOREM ImplementsSubmissions == Spec => KeepsSubmissions
<1>1. Init => ChatInv BY InitChatInv
<1>2. ChatInv /\ [Next]_vars => ChatInv' BY StepIsolates
<1>3. Init => Promised!Init
  <2>1. ASSUME Init PROVE View = [i \in Promised!Subs |-> Promised!NotStarted]
    <3>1. \A i \in Subs : rows[i] = NoRow BY <2>1 DEF Init
    <3>2. \A i \in Subs : View[i] = Promised!NotStarted BY <3>1, NothingToSee DEF View
    <3>3. QED BY <3>2 DEF View, Promised!Subs, Subs
  <2>2. QED BY <2>1 DEF Promised!Init, View
<1>4. ChatInv /\ [Next]_vars => [Promised!Next]_View BY StepSeen
<1>5. QED BY <1>1, <1>2, <1>3, <1>4, PTL DEF Spec, KeepsSubmissions, Promised!Spec, View
=============================================================================
