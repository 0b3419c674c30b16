----------------------------- MODULE SettingsCache -----------------------------
(***************************************************************************)
(* One system setting: its row in system_settings and the copy of it that  *)
(* Settings.get and Settings.set (app/models/settings.py) keep in Redis.   *)
(* The web worker and the Celery workers are processes of their own; each  *)
(* request or task is a client.  A client gives way to the others while it *)
(* waits for Redis, so the row may change between its read of the row and  *)
(* its SETEX, and between another one's commit and DELETE.                 *)
(*                                                                         *)
(* Time passes in ticks of the socket timeout (one second).  The model     *)
(* assumes that a command is carried out or lost within a tick of the      *)
(* database access before it.                                              *)
(***************************************************************************)
EXTENDS Integers

CONSTANTS
    Processes,  \* web worker, Celery workers
    Clients,    \* requests and tasks
    ProcessOf,  \* [Clients -> Processes]
    Texts,      \* what the value column may hold
    Default,    \* the text of the setting's default
    Blank,      \* the empty text
    Null,       \* SQL NULL in the value column
    NoRow,      \* the setting has no row
    NoEntry,    \* Redis has no entry
    Ttl,        \* _SETTINGS_CACHE_TTL, in ticks
    Failures,   \* whether Redis may fail to answer in time and processes die
    Behind      \* whether admins use the inspector and the factory reset

ASSUME ConstantsAssumption ==
    /\ ProcessOf \in [Clients -> Processes]
    /\ {Default, Blank} \subseteq Texts
    /\ Null \notin Texts /\ NoRow \notin Texts /\ NoEntry \notin Texts
    /\ Ttl \in Nat \ {0}
    /\ Failures \in BOOLEAN /\ Behind \in BOOLEAN

VARIABLES
    row,        \* the row's value, Null or NoRow
    cache,      \* the entry in Redis
    age,        \* ticks since the entry was stored
    since,      \* ticks since the row was last written, up to Ttl + 1
    link,       \* [Processes -> what _get_redis remembers]
    client      \* [Clients -> the call in progress]

vars == <<row, cache, age, since, link, client>>

-----------------------------------------------------------------------------
Rows == Texts \cup {Null, NoRow}

\* What get stores for a row, and for a setting that has none.
Cached(r) == IF r = NoRow THEN Default ELSE IF r = Null THEN Blank ELSE r

\* "connect", "join": the ping is under way, for a read or after a commit;
\* "get": GET is; "fill": the row has been read and SETEX is under way; "drop":
\* committed, DELETE under way.  late: a tick has passed since.
Call == [pc : {"idle", "connect", "join", "get", "fill", "drop"}, text : Texts, late : BOOLEAN]
At(pc, text) == [pc |-> pc, text |-> text, late |-> FALSE]
Idle == At("idle", Blank)

Linked(c) == link[ProcessOf[c]]

Init ==
    /\ row = Default
    /\ cache \in {NoEntry, Default}
    /\ age = 0
    /\ since = 0
    /\ link = [p \in Processes |-> "unchecked"]
    /\ client = [c \in Clients |-> Idle]

-----------------------------------------------------------------------------
(* _get_redis *)

\* The first caller of a process connects; the flag is set before the ping.
Connect(c) ==
    /\ client[c].pc = "idle" /\ Linked(c) = "unchecked"
    /\ link' = [link EXCEPT ![ProcessOf[c]] = "none"]
    /\ client' = [client EXCEPT ![c] = At("connect", Blank)]
    /\ UNCHANGED <<row, cache, age, since>>

\* The ping is answered, or fails and the process goes without Redis for good.
Connected(c) ==
    /\ client[c].pc \in {"connect", "join"}
    /\ \/ /\ link' = [link EXCEPT ![ProcessOf[c]] = "on"]
          /\ client' = [client EXCEPT ![c] = IF @.pc = "join" THEN At("drop", Blank) ELSE Idle]
       \/ /\ Failures
          /\ link' = link
          /\ client' = [client EXCEPT ![c] = Idle]
    /\ UNCHANGED <<row, cache, age, since>>

-----------------------------------------------------------------------------
(* Settings.get *)

AskCache(c) ==
    /\ client[c].pc = "idle" /\ Linked(c) = "on"
    /\ client' = [client EXCEPT ![c] = At("get", Blank)]
    /\ UNCHANGED <<row, cache, age, since, link>>

\* Variant for StalenessBounded: reading an entry prolongs its life.
HitProlongs(c) ==
    /\ client[c].pc = "get" /\ cache # NoEntry
    /\ age' = 0
    /\ client' = [client EXCEPT ![c] = Idle]
    /\ UNCHANGED <<row, cache, since, link>>

Hit(c) ==
    /\ client[c].pc = "get" /\ cache # NoEntry
    /\ client' = [client EXCEPT ![c] = Idle]
    /\ UNCHANGED <<row, cache, age, since, link>>

\* No entry, or no answer in time: the row is read and stored in the cache.
Miss(c) ==
    /\ client[c].pc = "get" /\ (cache = NoEntry \/ Failures)
    /\ client' = [client EXCEPT ![c] = At("fill", Cached(row))]
    /\ UNCHANGED <<row, cache, age, since, link>>

Fill(c) ==
    /\ client[c].pc = "fill"
    /\ cache' = client[c].text
    /\ age' = 0
    /\ client' = [client EXCEPT ![c] = Idle]
    /\ UNCHANGED <<row, since, link>>

-----------------------------------------------------------------------------
(* Settings.set, set_many, clear_cache *)

\* A process that takes Redis for missing leaves the entry as it is.
Invalidate(c) ==
    \/ /\ Linked(c) = "on"
       /\ client' = [client EXCEPT ![c] = At("drop", Blank)]
       /\ UNCHANGED link
    \/ /\ Linked(c) = "unchecked"
       /\ client' = [client EXCEPT ![c] = At("join", Blank)]
       /\ link' = [link EXCEPT ![ProcessOf[c]] = "none"]
    \/ /\ Linked(c) = "none"
       /\ UNCHANGED <<link, client>>

\* set and set_many commit the row; db_import and db_restore_bak copy another
\* database over the live one, in which the setting may have no row.
Commit(c, r) ==
    /\ client[c].pc = "idle"
    /\ row' = r
    /\ since' = 0
    /\ Invalidate(c)
    /\ UNCHANGED <<cache, age>>

Drop(c) ==
    /\ client[c].pc = "drop"
    /\ cache' = NoEntry
    /\ age' = 0
    /\ client' = [client EXCEPT ![c] = Idle]
    /\ UNCHANGED <<row, since, link>>

\* Redis does not answer in time and the exception is swallowed.
GiveUp(c) ==
    /\ Failures
    /\ client[c].pc \in {"fill", "drop"}
    /\ client' = [client EXCEPT ![c] = Idle]
    /\ UNCHANGED <<row, cache, age, since, link>>

-----------------------------------------------------------------------------
\* db_inspector_update writes the cell and db_reset drops the table; neither
\* knows of the cache.
WriteBehind(r) ==
    /\ Behind
    /\ row' = r
    /\ since' = 0
    /\ UNCHANGED <<cache, age, link, client>>

\* ensure_defaults when the application starts, which its process does afresh.
Restart(p) ==
    /\ Failures
    /\ row' = IF row = NoRow THEN Default ELSE row
    /\ since' = IF row = NoRow THEN 0 ELSE since
    /\ link' = [link EXCEPT ![p] = "unchecked"]
    /\ client' = [c \in Clients |-> IF ProcessOf[c] = p THEN Idle ELSE client[c]]
    /\ UNCHANGED <<cache, age>>

\* Redis is short of memory or restarts; it saves nothing.
Evict ==
    /\ cache' = NoEntry
    /\ age' = 0
    /\ UNCHANGED <<row, since, link, client>>

Expires == cache # NoEntry /\ age + 1 >= Ttl

Tick ==
    /\ \A c \in Clients : ~client[c].late
    /\ cache' = IF Expires THEN NoEntry ELSE cache
    /\ age' = IF Expires \/ cache = NoEntry THEN 0 ELSE age + 1
    /\ since' = IF since > Ttl THEN since ELSE since + 1
    /\ client' = [c \in Clients |->
                    [client[c] EXCEPT !.late = client[c].pc \in {"fill", "drop"}]]
    /\ UNCHANGED <<row, link>>

-----------------------------------------------------------------------------
Next ==
    \/ \E c \in Clients :
        \/ Connect(c) \/ Connected(c)
        \/ AskCache(c) \/ Hit(c) \/ Miss(c) \/ Fill(c)
        \/ Drop(c) \/ GiveUp(c)
        \/ \E r \in Rows : Commit(c, r)
    \/ \E r \in Rows : WriteBehind(r)
    \/ \E p \in Processes : Restart(p)
    \/ Evict
    \/ Tick

Spec == Init /\ [][Next]_vars

-----------------------------------------------------------------------------
TypeOK ==
    /\ row \in Rows
    /\ cache \in Texts \cup {NoEntry}
    /\ age \in 0..(Ttl - 1)
    /\ since \in 0..(Ttl + 1)
    /\ link \in [Processes -> {"unchecked", "none", "on"}]
    /\ client \in [Clients -> Call]

Stale == cache # NoEntry /\ cache # Cached(row)

\* However reads, writes, failures and restarts interleave, and whoever writes
\* the row, Settings.get (app/models/settings.py) answers from an outdated
\* entry only within the cache's lifetime of the row's last change, and the
\* entry was stored at most a tick after that change.
StalenessBounded == Stale => since <= age + 1 /\ since <= Ttl

DropPending == \E c \in Clients : client[c].pc \in {"join", "drop"}

\* app/models/settings.py:259: set persists the value and invalidates its
\* entry.  Where each process makes one call at a time and nothing fails, an
\* outdated entry would then be one whose DELETE is still under way.
SetInvalidates == Stale => DropPending
=============================================================================
