# BPM-Tutor: formal models, checks and proofs

BPM-Tutor is a Flask application in which students draw BPMN diagrams while an
AI agent talks to them over Socket.IO, and in which researchers run studies:
sequences of surveys, tasks and agent choices. One gevent worker serves the web
application (`entrypoint.sh`), a Celery worker and a beat process run jobs, the
data lives in one SQLite file, and Redis holds sessions and cached settings
(`docker-compose.yml`). This directory models the parts in which several
requests, sockets, processes or administrators meet on shared state, and the
conversions between diagrams, texts and the canvas.

| module | models | run | proved in |
|---|---|---|---|
| `TutorSession` | one task in several tabs: chat handlers, session store, tracker, submission rows | `session_*` | `TutorSessionProofs` |
| `Submissions` | what everybody is promised of the task's submissions (abstract) | `session_tabs` | `TutorSessionProofs` (refined by `TutorSession`) |
| `StudyFlow` | one standalone study: participants, steps, hand-ins, administration | `study_*` | `StudyFlowProofs` |
| `ResearchProgram` | a programme: conditions, participants, the gates of its studies | `operations` | `ResearchProgramProofs` |
| `Maintenance` | export, import, restore and reset of the live database | `operations` | `DatabaseProofs` |
| `LiveDatabase` | what everybody else is promised of it (abstract) | `operations` | `DatabaseProofs` (refined by `Maintenance`) |
| `SettingsCache` | one setting: its row and the copy in Redis | `operations`, `set_leaves_entry` | `SettingsCacheProofs` |
| `Accounts` | registration, confirmation, log-in, user management, cohorts | `portal` | `AccountsProofs` |
| `Agents` | agents, their prompts, the agent of a session | `portal` | `ContentProofs` |
| `Languages` | languages, interface texts and their caches | `portal` | `ContentProofs` |
| `Curriculum` | levels, tasks, submissions and their grading | `portal` | `ContentProofs` |
| `Backups` | scheduled and manual copies, pruning | `portal` | `DatabaseProofs` |
| `Lion` | the LION encoder and decoder | `documents` | |
| `Diagram`, `Validator` | a BPMN document, what the tutor is shown of it, the validator | `documents` | `DocumentsProofs` |
| `Canvas` | the tutor's operations and issues on the student's canvas | `documents` | `DocumentsProofs` |
| `Replies` | an answer of the LLM service on its way to the page | `documents` | `DocumentsProofs` |

`MCTutorSession`, `MCStudyFlow`, `MCSettingsCache`, `MCOperations`, `MCPortal`
and `MCDocuments` hold the instances. Run a check with
`tlc -workers 2 -config portal.cfg MCPortal`, a proof with
`tlapm StudyFlowProofs.tla`. Definitions carry the source's names; where each
comes from is in `PROJECT.json` under `map`.

## 1. Inventory

### Session, chat, submissions

* **Session store** (`app/services/session_store.py`). One dict per socket id,
  in memory or in Redis. The in-memory `get` hands out the dict itself, so all
  handlers share one conversation; the Redis `get` hands out a copy, and a write
  replaces the whole value. Redis may evict a session and expires it.
* **Chat handlers** (`app/sockets/chat_handler.py`). `join_task` creates or
  resumes a submission and binds it to the session; `send_message`,
  `request_analysis` and `request_completion` wait for the LLM and append to the
  conversation afterwards; the Delegant agent keeps talking on its own until
  `stop_ai`; `clear_chat`, `disconnect` and the cleanup thread (`main.py`) take
  things away meanwhile.
* **Submissions** (`app/models/task.py`, `app/blueprints/main/routes.py`).
  A row is open until a save completes it; the autosave writes its draft; the
  save finds its row by socket id, by task or, as a fallback, by user.
* **Task tracker** (`app/services/task_tracker.py`). Token counts per socket.
* **AI service** (`ai_service.py`, `lion_parser.py`). Asks the LLM, once more
  when the answer is unusable, counts and logs the calls, takes answers apart.
* **Client** (`chat.js`, `task.js`, `bpmn.js`). Decides which events are
  possible when; carries out the tutor's operations, one timer at a time, while
  the student goes on drawing; marks issues until they are dismissed.

Hard here: handlers that overlap a disconnect, a reload, a save or each other;
two tabs; loss of all sessions; batches of operations that meet edits; answers
in any order of fields. Right means: one open submission per user, nobody writes
another one's row, the log an administrator reads only grows, a save leaves
nothing open and stays final, a batch builds what it asks for but for what fails
or is refused, page and server list the same issues, no cost goes uncounted.

### Studies and programmes

* **Participation** (`app/blueprints/study/routes.py`, `app/models/study.py`).
  `current_step` is a position in the list of steps that apply to the
  participant's condition; `step_done` advances it; windows open and close.
* **Hand-ins** (`survey/routes.py`, `main/routes.py`). Response and submission
  rows that `step_done` looks for.
* **Administration** (`app/blueprints/admin/studies.py`). Participants are
  added, removed, reset and moved; the study is archived; saving its form
  deletes and rebuilds every step.
* **Programmes** (`admin/research.py`, `models/research.py`). Studies under
  common conditions; enrolment, exclusion, reinstatement, automatic dropout;
  conditions are deleted and rebuilt whenever the form is saved.

Hard here: pages of old steps in other tabs and in the history, redirects that
are followed twice, steps and conditions rebuilt under the participants (SQLite
hands out ids again), deadlines. Right means: no step lies behind a participant
without its evidence, rows and pages never come to mean another step, groups
stay balanced, a condition never comes to mean another treatment, whoever keeps
going gets through.

### Operation

* **Database maintenance** (`admin/admin_settings.py`, `utils/sqlite_tools.py`).
  Requests that take a lock, keep safety copies and replace the live file while
  others have it open; each step may fail, the process may die.
* **Backups** (`tasks/study_tasks.py`, `celery_app.py`). The hourly job makes
  a copy when the interval has elapsed; administrators make others; both prune
  the same directory.
* **Settings** (`models/settings.py`). `get` asks Redis, then the row, then
  stores the row's text for 120 seconds; `set` commits and deletes the entry.

Right means: imports discard only what they were asked to discard, the live
database is gone only where its file is being replaced or that has failed, and
partial only through a reset, a complete backup survives and is recent, an
outdated setting is answered only for a bounded time.

### Portal

* **Accounts** (`auth/`, `user/`, `admin/users.py`, `admin/cohorts.py`). A link
  confirms an address, a cookie names an id, a membership too; ids come back.
* **Agents** (`admin/agents.py`, `utils/agent_utils.py`, `utils/seeder.py`).
  Built-in and own agents, prompts and their resets, the choice for a session.
* **Languages** (`admin/content.py`, `utils/i18n_helper.py`, `app/__init__.py`).
  Tables that administrators edit, two caches in the web process.
* **Levels and grading** (`models/level.py`, `admin/content.py`,
  `admin/grading.py`). Levels open one after the other; a suggested grade waits
  for the LLM.

Right means: nothing passes from one account to another, an administrator
remains, every session gets an agent that exists, no text outlives its row,
levels stay numbered and what is open stays open.

### Documents

The LION codec (`lib/lion`), the parser (`bpmn_parser.py`) and the validator
(`lib/bpmn/validator.py`) are pure. Right means: what is encoded is decoded, the
validator's search finds what a graph search finds and its report misses no
broken pool, the tutor is shown no
flow without its ends but for activities the parser has no list for and ends
the report calls not found.

The components and their status are in `PROJECT.json`, as are the hazards, each
at its line, with the properties that cover it or why none does.

## 2. The models

### What is one action

Under gevent a handler keeps the processor until it waits on the network. SQLite
is a C library and blocks the whole worker, so database steps do not interleave
inside a worker. Hence in `TutorSession` a handler is cut where it waits for the
LLM, and, with the Redis store, where `join_task` waits for Redis between its
database step and its binding (`JoinCreate`, `JoinBind`). The other calls of the
Redis store are one step each. `get` and `set_field` are two commands, a GET and
a SETEX of the whole session, and what can come between them is a removal: it is
then undone. Every removal from Redis may therefore leave behind some of the
sessions whose page is connected (`Removed`); their statistics are gone all the
same. (A page sends nothing before `join_task` has answered, so no two calls
write different fields of one session at once.) In `StudyFlow`, `ResearchProgram`, `Accounts`, `Agents`
and `Languages` nothing waits, and every request is one action. `Curriculum`
cuts the deletion of a level (it commits twice) and the suggested grade (it
waits for the LLM). In `SettingsCache` and `Backups` the processes are different
ones, and calls are cut at every Redis command and at every file. `Maintenance`
cuts requests where they leave the event loop (`run_blocking`, `subprocess`).
`Canvas` cuts where JavaScript sets a timer.

### TutorSession

`sock` and `owner` are the pages and their accounts; `store` the sessions; `heap`
the conversations, so that two sessions' or turns' references to one list can be
told from copies; `tracker`, `rows`, `turns` (handlers that wait) and `next` the
rest. `Backend` selects the store: with `"redis"` a handler takes its own cell of
the heap (`Conversation`), and a removal leaves a waiting turn with what it had
captured (`Detach`). `Reply`, `Malformed` and `ServiceError` are the three ways
an LLM call ends.

`Submissions` is what is left when sockets, sessions, turns and tracker are
forgotten: submissions that are started, drafted, talked in and handed in.
`KeepsSubmissions` is `Submissions!Spec` with `Visible(rows[i])` for each
submission. A row's socket id is not seen, so a reload or second tab that takes
a row over is a stutter, as are losses, restarts and turns that fail. A save hands in
any set of submissions that have been started: the save without a socket id
needs all of that, and a second tab may hand in a completed one again.

Bounds: `MaxMsgs` messages, `MaxSubs` rows, two sockets, two turns. Two sockets
are two tabs, or a page and its reload; two turns are the smallest overlap; two
rows suffice for a duplicate. A socket id is used once, as in Socket.IO. Token
numbers are reduced to none and some, as the properties tell no more apart.

### StudyFlow

`steps` is the list of step rows with their ids, `phase` the position of each
window relative to now, `part`, `comp`, `answers`, `work` and `choices` the rows
of participants, completions, responses, submissions and agent choices. A choice
row outlives its step, which the row then no longer names (`NoStep`), and nothing
but the end of the study removes it: `RemoveParticipant` fails in the code, and is
not enabled in the model, for a participant who has one. `Empty` surveys have no
questions, `Inactive` ones are switched off, so that a post to them changes nothing.
`pages` holds every page a user has in some tab or in the history: whatever it offers
may be clicked at any later time, any number of times. `EditStudy` rebuilds the
steps with the ids SQLite hands out: one above the largest left in the table.
The deleted steps' ids come back, unless other studies hold larger ones.

Bounds: one participant (participants only meet in the balance of conditions,
which has a run with five), three step ids, plans of at most three steps that
contain every kind of step, conditions and hard deadlines.

### ResearchProgram

`prog`, `conds`, `rp`, `study` and `sp` are the rows of the programme, its
conditions, participants, studies and the participants' rows in these. What
happens inside a study is `StudyFlow`; here a study is entered through the gates
of `study_index`, `task_step` and `_auto_dropout_check`, an agent is chosen in
it, and it is left. `removed` counts removals since the conditions were saved,
for `Balanced` only. Bounds: two users, one study, one agent, two condition ids.

### Maintenance and LiveDatabase

A file is `None`, `Bad` (no readable database), or the writes in it with two
flags: `cur`, its tables have the current columns, and `whole`, none is missing.
`req` holds for each request where it is in its procedure, `reset` how far
`db_reset` is. An action is what SQLite or the file system does as one:

| code | actions |
|---|---|
| `try_lock`, the upload, `validate_db_file` | `Export`, `Import`, `Restore`, then `Checked` |
| `snapshot_db`: remove the older copy, `VACUUM INTO` | `Cleared`, then `Vacuumed` or `VacuumFails` |
| `copy2` to `.broken` after a failed snapshot | `RawCopied`, `RawFails` |
| `restore_into_live`: backup API; locked; file replaced | `Replaced`; `StaysLocked`; `Removed`, then `Swapped` or `SwapFails` |
| `_migrate_schema_after_restore` | `Migrated` |
| `db_reset`: drop, create, seed, error | `Reset`, `Dropped` any number of times, `Created`, `ResetFails` |

A process that dies within a step leaves what a failure of the step leaves, so
`Crash` between any two steps covers it. `owed` is history: the writes nobody has
given up. Given up are

* what only the older safety copy holds, from the moment a later import or restore
  begins with its own (so a second attempt after a failed replacement gives up
  what the first one saved, also if its own snapshot then fails);
* what a reset drops, and what the raw copy of a file misses that has a write-ahead
  log (the comment at `admin_settings.py:775` says that nothing is lost);
* what is written between the safety copy and the replacement.

`LiveDatabase` knows the live database, the copies that can be restored, whether a
replacement is `"copying"` or has taken the file `"away"`, and whether a reset is
at work. The database grows by commits, is updated, or is replaced in one step by
a kept copy or one without writes (an upload counts as such). It is gone only while
its file is away or after that has failed, and partial only through a reset.
`WholeUnlessReplaced` is `LiveDatabase!Spec` of `Seen` and `Restorable`.

The model lets more happen than the code: requests begin while a reset is at work,
which in fact blocks the event loop of its process (Celery and other processes go
on), and with tables missing, where most requests would fail. A reset leaves no
administrator account until the next start, as `step_admin` is imported and not
called; accounts are the matter of `Accounts`. Bounds: two requests, two writes,
one restart; a third write or second restart repeats what one of these does.

### SettingsCache

`row`, `cache`, the entry's `age`, the time `since` the row was last written,
`link` (what `_get_redis` remembers in each process) and `client` (the call in
progress). `Failures` allows lost commands, a Redis that is not there and dying
processes, `Behind` the inspector and the factory reset. Time passes in ticks of
the Redis socket timeout. The model assumes that a Redis command is carried out
or lost within one tick of the database access before it; the bound that is
proved rests on that. The lifetime of 120 ticks is 3 in the runs and arbitrary
in the proofs. Two requests and a Celery task in two processes are the smallest
instance with readers that share a link and a writer that does not.

### Accounts, Agents, Languages, Curriculum, Backups

* `Accounts`: `users` by id, `tabs` (the id each browser's cookie names),
  `mailed` links, `members`, `flags`, and as history `proved` addresses and how
  many users were `born`. Two addresses, browsers and ids, three births: enough
  for an id to come back under a stale cookie, link or membership. Passwords are
  taken to be right.
* `Agents`: built-in agents are never deleted, own ones are; `named` is the
  agent a page asked for, possibly long ago. A prompt is `"seeded"`,
  `"edited"` or `"none"` per language.
* `Languages`: the table, `inMemory` (`_cache`), `fallback` and `list`, the
  cached list of languages with its age. One text stands for all: the 2600 lines
  of `i18n_helper.py` that list them are data. `Shown` is `_t` with its `default`
  argument. Nothing but a start or `db_reset` loads texts, so after any edit every
  text is that default, which often is the formerly seeded text, and the edit is
  not seen; `CachesFollow` says that no text is shown from memory that the table
  no longer has.
* `Curriculum`: levels with their numbers, tasks, one student's submissions,
  a suggestion in progress; the process may die between two commits.
* `Backups`: files by number, partial or whole; the scheduled run, its message
  in the queue (redelivered after a crash) and the manual one; failures. Time is
  the hour of the schedule, the interval two hours, three copies are kept;
  `BackupAssumption` says why fewer would not do: each failure leaves a file that
  counts as a copy.

### Lion, Diagram, Validator, Canvas, Replies

* `Lion` reads and writes sequences of tokens. A string is one of a few kinds
  that the encoder or decoder treats apart: a word, a numeral, a date, with a
  dash, with a blank, a keyword, empty. `RoundTrip` is an equivalence, and
  `Safe` lists the data that survive, by the place of each value: a string of
  digits, `true` and `false` survive nowhere but for the latter two in the first
  column of a table; a dash matters in a field and in the first column; tables come
  back as the value of a field or in a row of tables, without columns that have
  keys of their own; what else stands in the first column is a number or a string
  that is not empty.
* `Diagram` draws a document element by element and flow by flow, sub-processes
  within each other too; `Shown` is what `BPMNParser` tells the tutor. For
  sub-processes, transactions and call activities (`Unlisted`) the parser has no
  list: a flow to one is shown, the activity is not, which `ShownFlowsEnd` says.
  `Validator` has every rule. Its worklist
  (`Visit` is one turn of the loop, `Visited` what it ends with) is compared with
  `Leads`, which says what a path is and nothing of how to find one.
* `Canvas` runs the operations of each batch from its queue, interleaved with
  the student's edits, with further answers and with messages both ways. Every
  operation may also come to nothing (`Failed`): `execOne` catches what it throws
  (an unknown type, an id that is taken), and `modeling.connect` makes no flow
  the rules of bpmn-js refuse; a shape that was to be drawn anew may be gone by
  then. What a pool contains is not kept: whenever one is removed or drawn anew,
  any other shapes may go along (`Contents`). A batch records both in `lost`, and
  `BatchBuilt` says that nothing else is lost.
* `Replies` follows one request through its attempts; an answer is a sequence
  of lines and of raw issues, and `ParseIssues` goes through the latter in order.

Bounds: 5124 texts (fields of every kind, tables of one and two rows); every
document of three elements out of eleven kinds and two flows in three layouts of
pools, which has each rule's smallest case; two answers, one edit and batches
of both forms; two answers of up to three lines.

## 3. Runs

| run | question | bounds |
|---|---|---|
| `session_onetab` | Does the chat log only grow, and do statistics exist exactly for live sessions, with two overlapping turns of a looping agent and the in-memory store? | one tab, 5 messages |
| `session_tabs` | One open submission, completed rows untouched by late autosaves, nothing open after a save, a refinement of `Submissions`, with the Redis store, reloads, lost connections, cleanup, restarts, evictions, removals undone and disconnects in the middle of `join_task`? | two tabs, two turns, 3 messages |
| `session_users` | Isolation with an account and a visitor, the in-memory store and the whole socket API? | two sockets, one turn, 2 messages |
| `study_handins` | Does every step behind a participant have its evidence, is nobody finished early, does the enrolment survey come first? | three steps, any tabs; add, reset, archive |
| `study_admin` | Do pages and rows keep meaning the same step under every administrative operation? | two ids, two conditions |
| `study_finishes` | Do groups differ by at most one, with dropouts and a limit? Does a participant who keeps going reach the end? | five users, two conditions, four places; plans of every kind |
| `operations` | Programme: treatment, balance, removal. Database: nothing discarded, refinement of `LiveDatabase`. Setting: how long can an outdated one be answered? | see section 2 |
| `portal` | Accounts, levels, agents, languages, backups: the nine properties of these modules | see section 2 |
| `documents` | Codec, validator, parser, canvas, replies: the ten properties of these modules | see section 2 |
| `save_completes_others` | violated: a save without a socket id completes other users' submissions | |
| `edit_forgets` | violated: saving a study's form unlinks all completions from their steps | |
| `set_leaves_entry` | violated: a reader overtaken by a set stores the old value after the delete | |

`operations`, `portal` and `documents` put modules side by side that share no
variable. A variable `part` chooses the one that moves in a behaviour, while the
others stay where they began. That loses nothing: each property reads the
variables of one module only, and what these do in a behaviour of all of them is
what they do alone, with stuttering. Symmetry is used for users, requests,
browsers, sockets and turns, which no definition tells apart, and only in runs
of invariants and action properties.

Deadlock is not checked: socket ids, messages, rows, births and restarts are
bounded, so the models stop when they are used up, and a finished study has
nothing more to do.

What the runs leave out because the code does not guarantee it is written where
it matters, and listed among the hazards with its line:

* the chat log with Redis, or after a turn outlives its page: newer messages are
  overwritten (`ChatLogExtends` is stated for one tab and the in-memory store);
* a second tab replaces a completed BPMN; statistics of evicted sessions leak;
* a second post of an agent choice passes the next step (`ProgressBacked` is
  stated for studies without such steps); a withdrawn or archived participant
  still advances; a full reset keeps a draft; a survey without questions,
  or switched off, traps its participant (`Finishes` is stated for others);
* rows written between the safety copy and the replacement of the database are
  in neither; after a failed replacement by file ("current database unchanged",
  `admin_settings.py:709`) there is no database, or part of one, until an
  administrator restores a copy, and a second attempt gives up the first copy;
* the last administrator can be deactivated or locked; another browser's cookie
  opens the account that gets its id next;
* shapes drawn before a `clear` of the same batch are lost, and whatever lies in a
  pool that the batch draws anew or deletes; an operation that fails or is refused
  is only logged in the browser's console; an empty batch, or
  batches that overlap, leave the tutor's flag wrong; a badge keeps its index
  when an issue before it is cleared; a dismissal that crosses a report removes
  another issue;
* the validator takes an event with an empty definition for one without;
* `bpmn_ops` behind a bare message are lost.

### Fairness

Only `study_finishes` needs any. `Fairness` says that windows open in time (they
need not ever close), that redirects are followed (`study_index`, `step_done`,
`task_step` answer every request) and that a participant who is asked for a
survey, a task or a choice eventually hands it in. That is a participant who
keeps going; nothing is assumed of dropouts, administrators, closing windows or
which of several tabs is used, and weak fairness suffices. In `WalkSpec` one
participant walks through a study that has steps while the others stay as they
are, and in the study without steps all of them enrol and leave: nobody's
walk reads another participant's row, and enrolling reads no step.

## 4. Proofs

All for arbitrary constants, checked by TLAPS; TLC checks the same formulas on
the small instances above. The assumptions are the named `ASSUME`s of the
modules: bounds are naturals, users and conditions finite where they are counted,
special values outside the sets they are added to. Those that say more:

* `BackupAssumption`: more copies are kept than there are failures, and one
  more. With fewer, unfinished files push out every finished one.
* `MessageAssumption`, `RepliesAssumption`: what the LLM sends is made of lists of
  operations, issues and lines, in any order, number and combination; the id of
  a flow is not that of a shape.
* `DiagramAssumption`: pools and elements have the kinds bpmn-js can draw and a
  sequence flow can lead to.

**`TutorSessionProofs`**
* `TypeCorrect`: needs `Attached`: a live session has a used socket and a
  conversation, a waiting turn names a used socket.
* `OneOpen`: `OneOpenSubmission`. Two open rows could only come from a
  `join_task` that does not find the first; completing rows needs to know that
  sessions and turns only write their own user's rows (`BoundRows`).
  `SInv == IInv /\ BoundRows /\ OneOpenSubmission` is inductive.
* `SaveClosesEverything`: `SaveLeavesNothingOpen`. With `SInv`, a save either
  completes the one open row or takes the fallback, which completes the latest
  open row; there is no other.
* `CompletedStays`: `LateAutosaveIsDropped`, step by step from `IInv`.
* `ImplementsSubmissions`: `KeepsSubmissions`, the refinement, with either store.
  Initial states map to initial states; `StepSeen` takes the steps that write
  rows one by one (`JoinSeen`, `TalkSeen`, `AutoSaveSeen`, `SaveSeen`), all others
  leave the view alone. `Start` asks for the user to have nothing open, which
  `SInv` gives, and `Talk` and `HandIn` for the chat log to hold its owner's words
  only, which the invariant of the isolation gives.
* `StatsFollow`: `StatsFollowSession` with the in-memory store. Redis may evict
  a session without its entry, so there it does not hold. `Counting` adds that a
  session stays while it is being joined.
* `ChatsIsolated`: `ChatIsolation`, with either store. Rows follow from
  conversations: a cell is held by one user (`OwnConversations`), through sessions
  or turns that may outlive them, and is empty again once nobody holds it
  (`NothingLeft`), or the next holder would inherit it.
* `ChatLogsExtend`: `ChatLogExtends` for one page, the in-memory store and the
  events the shipped pages send, as in its run; for two pages or Redis it is
  false (section 3). All turns that overlap work with one conversation
  (`OneTalk`), and what the row has is a prefix of it (`LogInTalk`).

**`StudyFlowProofs`**
* `StudyTypeCorrect`, `RecordsHangOnRows`: `TypeOK` and `RecordsResolve`,
  whatever administrators do. `FInv == TypeOK /\ RefsOK /\ RowsHang`:
  the steps' references are needed for the pages that show them. That a row keeps
  its step, and is not handed to another one whose id came back, is read off from
  the rows' identities (`OwnIds`, `Records`): steps with a row are numbered apart
  from every later one (`NumberedApart`).
* `EnrollmentComesFirst`: `EnrollSurveyFirst`, if nobody is removed. Stronger
  is what is kept: a participant either has answered the survey as such, not as
  that of a step (a reset would take that answer away), or waits with no page
  open but that survey's.
* `EnrollmentBalances`: `Balanced`, if nobody is removed or moved. The least
  populated condition is the one that grows.
* `CompletionIsThroughout`, `ProgressIsBacked`: `Throughout` and
  `ProgressBacked`, if neither conditions nor the plan change; the latter for
  plans without agent choices. Both rest on `Ranks`: the numbers of steps before
  each step of a condition are all different and leave none out, so there is one
  current step as long as some are left. `NextWalks` then shows that every
  request begins, stays, passes an expired step or passes one handed in, and
  loses no evidence.

**`ResearchProgramProofs`**: `ConditionServes`, `ConditionsBalance`,
`RemovalIsComplete`. `RInv` ties each placed participant to a condition that
exists and to its agent: what replaces the conditions lets go of everybody.

**`DatabaseProofs`**
* `OnlyOneAtWork`: one export, import or restore at a time. A reset asks for no
  lock, and the other theorems hold beside it.
* `NothingDiscarded` (`DiscardsNothing`). Between the safety copy and the
  replacement what is owed is in the copies alone (`Sources`), whichever other
  request writes or resets; before that no copy is removed before what only it
  has is given up.
* `ImplementsLiveDatabase`, the refinement. `Stage` reads the stage of the only
  request at work from `req`, so it rests on `OneAtATime`; that what is put in
  place is an upload found readable or the `.bak` copy rests on `Sources`, because
  a restore writes `.broken` only.
* `BackupKept` (`ABackupSurvives`) and `BackupFresh` (`NoLongGap`), from
  `BackupsHold`. Neither is inductive. Two runs prune one directory from lists
  they made earlier, so a file may be removed that has become the newest whole
  one since. What is kept is that above every file some run has listed there
  are `MaxKeep` that none has (`EnoughKept`), fewer of them unfinished
  (`FewLeftover`), and that a run removes the oldest first: when it meets a file
  already gone, the other run has a newer copy (`OnSchedule`).

**`SettingsCacheProofs`**: `CacheTypeCorrect` and `OutdatedForOneLifetime`
(`StalenessBounded`). Not inductive, because a `Fill` may store a text its
reader found before the row changed. `FillRecent` says that such a change is at
most one tick old, so `TypeOK /\ FillRecent /\ (Stale => since <= age + 1)` is
inductive, and with `age < Ttl` it implies the bound.

**`AccountsProofs`**: `NothingPassesOn` (`NothingInherited`) and
`SomeAdminRemains` (`AdminRemains`, an action property). A membership bars the
deletion of its user from leaving it behind, and a new user's id is free.

**`ContentProofs`**
* `SessionsHaveAgents`, `ResetsSpareOwnTexts`: tasks name only agents that are
  there, and a built-in one is.
* `TextsAndListFollow` (`CachesFollow`). What is shown from memory is current
  because all of it is (`NeverOutdated`), by whichever process it was seeded; when
  the memory is empty the default written in the program is shown. The list may
  be served long after it was read; what is kept is that no language in it has
  been gone for longer than the list is old.
* `LevelsInARow` (`OneGapPerDeath`): positions and numbers increase together, and
  between the two commits of a deletion there may be one gap more (`FewGaps`).
* `LevelsStayOpen` (`OpenStays`, an action property), step by step.

**`DocumentsProofs`**
* `BatchesBuild`, `FlagCoversBatch`, `MarkersStayLive`, `SameIssues`
  (`BatchBuilt`, `OwnOpsStamped`, `MarkersLive`, `DismissedAlike`) from
  `CanvasHolds`. `BatchBuilt` speaks of finished batches only. `Carried` says what one
  under way owes: each operation is still to do, has left behind what it asks
  for, or that is lost (`Becomes` says what may become of an operation), and shapes come before everything else, so that no flow is drawn before
  its ends. For `DismissedAlike`, `InStep` says what is on its way between page
  and session.
* `EveryAnswerCounted`, `RepliesKept` (`AnswersCounted`, `ReplyKept`), for answers
  of any length. `ParseIssues` is a fold; `GoneThrough` gives its value item by
  item, and an invariant of the loop (an element is listed once, with the worst
  of its issues so far) is carried from one item to the next.
* `FlowsEnd` (`ShownFlowsEnd`), `ReachabilityExact` (`UnreachableExact`) and
  `CleanPoolsRun` (`CleanPoolRuns`), for diagrams of any size. Every turn of the
  worklist keeps what it owes either visited or queued, and visits one element
  more (`OneTurn`), so after as many turns as there are elements the visited set is
  the smallest one that flows do not leave (`Reached`). A walk that meets an
  element twice can be cut short (`CutShort`), so the bounded paths of `Leads` are
  all that count. `CleanPoolRuns` then needs three rules together: reachability,
  flows that cross pools, and the report, which shows the worst of an element;
  `FlowsEnd` the report as well (`NotFound`: a missing end is critical, so the
  report shows it).

Some conditions that are not constants limit what is proved: `EnrollmentComesFirst`,
`EnrollmentBalances`, `CompletionIsThroughout` and `ProgressIsBacked` exclude
administrative operations as their runs do, `StatsFollow` and `ChatLogsExtend` choose
the store. Outside them the code does not guarantee the property.

Model-checked only: `Finishes`, which is liveness and needs `ENABLED`; and
`RoundTrip`, whose codec is recursive over its data: `Lion` uses `RECURSIVE`
operators, and what they compute for every text would be an induction over texts.

## 5. Not modelled

* **Analytics, statistics, exports, leaderboards**: only read.
* **E-mail, notifications, audit, crypto**: I/O and conversions whose results
  no modelled step reads. The hourly e-mails keep no state.
* **Survey editor, media, legal and feature pages, exports of content**: one
  row per request, nothing else reads it in between.
* **Studies**: creating, cloning and deleting; the condition editor
  (`study_conditions`), whose rows `StudyFlow` takes as fixed.
* **Accounts**: passwords and their reset, brute-force locks, profile pictures.
* **Maintenance**: the inspector beyond its effect on a cached setting; what
  connections that are open during a replacement by file still write to the file
  that was removed.
* **Canvas**: reset, import and export of a diagram, geometry, the rules of
  bpmn-js and what a pool contains beyond what may become of an operation; dismissals with the Redis store.
* **Never called**: `evict_stale`, `llm_tasks.py` and `check_prerequisites`.
* **Set-up**: registration of blueprints, headers, repair scripts; translations
  and prompt texts (`i18n_helper.py`, `deploy/prompts/defaults.py`) are data.

## 6. Plan

1. The loop of the Delegant agent with its stop flag in `TutorSession` (a stopped
   agent comes to rest). What the two stores do differently, a removal that a late
   write to Redis undoes, is in the model (`Undone`, `Removed`); the store needs
   no module of its own.
2. The condition editor and the cloning of studies in `StudyFlow`.
3. Proofs: the safety half of `Finishes` (at each step of a study, what the
   participant can still do to pass it), and an abstract view of a study beside
   `Submissions` for the chat page and `LiveDatabase` for the maintenance.
