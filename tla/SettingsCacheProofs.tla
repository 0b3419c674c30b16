-------------------------- MODULE SettingsCacheProofs --------------------------
(***************************************************************************)
(* For every set of processes, clients and texts, every lifetime, and with *)
(* or without failures and writes behind the cache: the type invariant and *)
(* the bound on how long Settings.get may answer with an outdated value.   *)
(*                                                                         *)
(* StalenessBounded is not inductive: a late Fill may store what its       *)
(* reader found before the row changed.  FillRecent bounds how long ago    *)
(* that change can be.                                                     *)
(***************************************************************************)
EXTENDS SettingsCache, TLAPS

FillRecent ==
    \A c \in Clients : client[c].pc = "fill" /\ client[c].text # Cached(row)
        => since <= IF client[c].late THEN 1 ELSE 0

StaleRecent == Stale => since <= age + 1

IInv == TypeOK /\ FillRecent /\ StaleRecent

-----------------------------------------------------------------------------
\* What get stores for a row of the table is a text of the cache.
LEMMA CachedIsText == ASSUME NEW r \in Rows PROVE Cached(r) \in Texts
BY ConstantsAssumption DEF Cached, Rows

\* Settings.get and Settings.set (app/models/settings.py) start with a setting
\* that satisfies the invariant: no entry, or an entry for the default row.
LEMMA InitOK == Init => IInv
BY ConstantsAssumption
   DEF Init, IInv, TypeOK, FillRecent, StaleRecent, Stale, Rows, Cached, Call, Idle, At

\* Every step of a client, an admin, a restart, Redis or the clock keeps the
\* types of the row, the entry, its age and the calls (app/models/settings.py).
LEMMA TypeStep == ASSUME TypeOK, [Next]_vars PROVE TypeOK'
<1> USE ConstantsAssumption DEF TypeOK
<1>0. Blank \in Texts /\ Idle \in Call /\ \A pc \in {"connect", "join", "get", "drop"} : At(pc, Blank) \in Call
  BY DEF Call, Idle, At
<1>1. ASSUME NEW c \in Clients, Connect(c) PROVE TypeOK'
  BY <1>1, <1>0 DEF Connect
<1>2. ASSUME NEW c \in Clients, Connected(c) PROVE TypeOK'
  BY <1>2, <1>0 DEF Connected
<1>3. ASSUME NEW c \in Clients, AskCache(c) PROVE TypeOK'
  BY <1>3, <1>0 DEF AskCache
<1>4. ASSUME NEW c \in Clients, Hit(c) PROVE TypeOK'
  BY <1>4, <1>0 DEF Hit
<1>5. ASSUME NEW c \in Clients, Miss(c) PROVE TypeOK'
  <2>1. At("fill", Cached(row)) \in Call
    BY CachedIsText DEF Call, At
  <2> QED BY <1>5, <2>1 DEF Miss
<1>6. ASSUME NEW c \in Clients, Fill(c) PROVE TypeOK'
  <2>1. client[c].text \in Texts
    BY DEF Call
  <2> QED BY <1>6, <1>0, <2>1 DEF Fill
<1>7. ASSUME NEW c \in Clients, Drop(c) PROVE TypeOK'
  BY <1>7, <1>0 DEF Drop
<1>8. ASSUME NEW c \in Clients, GiveUp(c) PROVE TypeOK'
  BY <1>8, <1>0 DEF GiveUp
<1>9. ASSUME NEW c \in Clients, NEW r \in Rows, Commit(c, r) PROVE TypeOK'
  BY <1>9, <1>0 DEF Commit, Invalidate
<1>10. ASSUME NEW r \in Rows, WriteBehind(r) PROVE TypeOK'
  BY <1>10 DEF WriteBehind
<1>11. ASSUME NEW p \in Processes, Restart(p) PROVE TypeOK'
  BY <1>11, <1>0 DEF Restart, Rows
<1>12. CASE Evict
  BY <1>12 DEF Evict
<1>13. CASE Tick
  <2>a. ASSUME NEW c \in Clients
        PROVE  [client[c] EXCEPT !.late = client[c].pc \in {"fill", "drop"}] \in Call
    <3>1. client[c] \in Call
      OBVIOUS
    <3>2. (client[c].pc \in {"fill", "drop"}) \in BOOLEAN
      OBVIOUS
    <3>3. ASSUME NEW b \in BOOLEAN, NEW k \in Call PROVE [k EXCEPT !.late = b] \in Call
      BY DEF Call
    <3> QED BY <3>1, <3>2, <3>3, Zenon
  <2>1. client' \in [Clients -> Call]
    BY <1>13, <2>a DEF Tick
  <2>2. age' \in 0..(Ttl - 1) /\ cache' \in Texts \cup {NoEntry}
    BY <1>13 DEF Tick, Expires
  <2>3. since' \in 0..(Ttl + 1)
    BY <1>13 DEF Tick
  <2> QED BY <1>13, <2>1, <2>2, <2>3 DEF Tick
<1>14. CASE UNCHANGED vars
  BY <1>14 DEF vars
<1> QED
  BY <1>1, <1>2, <1>3, <1>4, <1>5, <1>6, <1>7, <1>8, <1>9, <1>10, <1>11, <1>12, <1>13, <1>14
  DEF Next

-----------------------------------------------------------------------------
\* A reader whose SETEX is under way holds an outdated text only if the row
\* changed after its read (Settings.get, app/models/settings.py): in the same
\* tick, or in the tick before when one has passed.
LEMMA FillStep == ASSUME IInv, [Next]_vars PROVE FillRecent'
<1> USE ConstantsAssumption DEF IInv, TypeOK
<1> SUFFICES ASSUME NEW d \in Clients, client'[d].pc = "fill", client'[d].text # Cached(row')
             PROVE since' <= IF client'[d].late THEN 1 ELSE 0
  BY DEF FillRecent
<1>a. ASSUME row' = row, since' = since, client'[d] = client[d]
      PROVE since' <= IF client'[d].late THEN 1 ELSE 0
  BY <1>a DEF FillRecent
<1>1. ASSUME NEW c \in Clients, Connect(c) PROVE since' <= IF client'[d].late THEN 1 ELSE 0
  BY <1>1, <1>a DEF Connect, At
<1>2. ASSUME NEW c \in Clients, Connected(c) PROVE since' <= IF client'[d].late THEN 1 ELSE 0
  BY <1>2, <1>a DEF Connected, At, Idle
<1>3. ASSUME NEW c \in Clients, AskCache(c) PROVE since' <= IF client'[d].late THEN 1 ELSE 0
  BY <1>3, <1>a DEF AskCache, At
<1>4. ASSUME NEW c \in Clients, Hit(c) PROVE since' <= IF client'[d].late THEN 1 ELSE 0
  BY <1>4, <1>a DEF Hit, At, Idle
<1>5. ASSUME NEW c \in Clients, Miss(c) PROVE since' <= IF client'[d].late THEN 1 ELSE 0
  BY <1>5, <1>a DEF Miss, At
<1>6. ASSUME NEW c \in Clients, Fill(c) PROVE since' <= IF client'[d].late THEN 1 ELSE 0
  BY <1>6, <1>a DEF Fill, At, Idle
<1>7. ASSUME NEW c \in Clients, Drop(c) PROVE since' <= IF client'[d].late THEN 1 ELSE 0
  BY <1>7, <1>a DEF Drop, At, Idle
<1>8. ASSUME NEW c \in Clients, GiveUp(c) PROVE since' <= IF client'[d].late THEN 1 ELSE 0
  BY <1>8, <1>a DEF GiveUp, At, Idle
<1>9. ASSUME NEW c \in Clients, NEW r \in Rows, Commit(c, r)
      PROVE since' <= IF client'[d].late THEN 1 ELSE 0
  BY <1>9 DEF Commit
<1>10. ASSUME NEW r \in Rows, WriteBehind(r) PROVE since' <= IF client'[d].late THEN 1 ELSE 0
  BY <1>10 DEF WriteBehind
<1>11. ASSUME NEW p \in Processes, Restart(p) PROVE since' <= IF client'[d].late THEN 1 ELSE 0
  <2>1. client'[d] = client[d]
    BY <1>11 DEF Restart, At, Idle
  <2>2. CASE row = NoRow
    BY <1>11, <2>2 DEF Restart
  <2>3. CASE row # NoRow
    BY <1>11, <1>a, <2>1, <2>3 DEF Restart
  <2> QED BY <2>2, <2>3
<1>12. CASE Evict
  BY <1>12, <1>a DEF Evict
<1>13. CASE Tick
  <2>1. client[d].pc = "fill" /\ client[d].text # Cached(row) /\ ~client[d].late
    BY <1>13 DEF Tick, Call
  <2>2. since <= 0
    BY <2>1 DEF FillRecent
  <2>3. client'[d].late
    BY <1>13, <2>1 DEF Tick, Call
  <2> QED BY <1>13, <2>2, <2>3 DEF Tick
<1>14. CASE UNCHANGED vars
  BY <1>14, <1>a DEF vars
<1> QED
  BY <1>1, <1>2, <1>3, <1>4, <1>5, <1>6, <1>7, <1>8, <1>9, <1>10, <1>11, <1>12, <1>13, <1>14
  DEF Next

\* An outdated entry was stored at most a tick after the row's last change, if
\* it was not there before (Settings.get and set, app/models/settings.py).
LEMMA StaleStep == ASSUME IInv, [Next]_vars PROVE StaleRecent'
<1> USE ConstantsAssumption DEF IInv, TypeOK
<1> SUFFICES ASSUME cache' # NoEntry, cache' # Cached(row') PROVE since' <= age' + 1
  BY DEF StaleRecent, Stale
<1>0. age \in Nat /\ since \in Nat
  OBVIOUS
<1>a. ASSUME row' = row, since' = since, cache' = cache, age' = age PROVE since' <= age' + 1
  BY <1>a DEF StaleRecent, Stale
<1>1. ASSUME NEW c \in Clients, Connect(c) PROVE since' <= age' + 1
  BY <1>1, <1>a DEF Connect
<1>2. ASSUME NEW c \in Clients, Connected(c) PROVE since' <= age' + 1
  BY <1>2, <1>a DEF Connected
<1>3. ASSUME NEW c \in Clients, AskCache(c) PROVE since' <= age' + 1
  BY <1>3, <1>a DEF AskCache
<1>4. ASSUME NEW c \in Clients, Hit(c) PROVE since' <= age' + 1
  BY <1>4, <1>a DEF Hit
<1>5. ASSUME NEW c \in Clients, Miss(c) PROVE since' <= age' + 1
  BY <1>5, <1>a DEF Miss
<1>6. ASSUME NEW c \in Clients, Fill(c) PROVE since' <= age' + 1
  <2>1. client[c].pc = "fill" /\ client[c].text # Cached(row)
    BY <1>6 DEF Fill
  <2>2. since <= 1
    BY <2>1, <1>0 DEF FillRecent
  <2> QED BY <1>6, <2>2 DEF Fill
<1>7. ASSUME NEW c \in Clients, Drop(c) PROVE since' <= age' + 1
  BY <1>7 DEF Drop
<1>8. ASSUME NEW c \in Clients, GiveUp(c) PROVE since' <= age' + 1
  BY <1>8, <1>a DEF GiveUp
<1>9. ASSUME NEW c \in Clients, NEW r \in Rows, Commit(c, r) PROVE since' <= age' + 1
  BY <1>9, <1>0 DEF Commit
<1>10. ASSUME NEW r \in Rows, WriteBehind(r) PROVE since' <= age' + 1
  BY <1>10, <1>0 DEF WriteBehind
<1>11. ASSUME NEW p \in Processes, Restart(p) PROVE since' <= age' + 1
  <2>1. CASE row = NoRow
    BY <1>11, <2>1, <1>0 DEF Restart
  <2>2. CASE row # NoRow
    BY <1>11, <1>a, <2>2 DEF Restart
  <2> QED BY <2>1, <2>2
<1>12. CASE Evict
  BY <1>12 DEF Evict
<1>13. CASE Tick
  <2>1. cache # NoEntry /\ cache # Cached(row) /\ ~Expires /\ age' = age + 1
    BY <1>13 DEF Tick
  <2>2. since <= age + 1
    BY <2>1 DEF StaleRecent, Stale
  <2> QED BY <1>13, <1>0, <2>1, <2>2 DEF Tick
<1>14. CASE UNCHANGED vars
  BY <1>14, <1>a DEF vars
<1> QED
  BY <1>1, <1>2, <1>3, <1>4, <1>5, <1>6, <1>7, <1>8, <1>9, <1>10, <1>11, <1>12, <1>13, <1>14
  DEF Next

-----------------------------------------------------------------------------
\* The strengthened invariant of the settings cache (app/models/settings.py).
THEOREM CacheInvariant == Spec => []IInv
<1>1. IInv /\ [Next]_vars => IInv'
  BY TypeStep, FillStep, StaleStep DEF IInv
<1> QED BY InitOK, <1>1, PTL DEF Spec

\* The row, the entry and the calls always have their types, and the entry of
\* Settings.get (app/models/settings.py) never outlives its time to live.
THEOREM CacheTypeCorrect == Spec => []TypeOK
<1>1. IInv => TypeOK
  BY DEF IInv
<1> QED BY CacheInvariant, <1>1, PTL

\* Settings.get (app/models/settings.py) answers from an outdated entry only
\* within the cache's lifetime of the row's last change.
THEOREM OutdatedForOneLifetime == Spec => []StalenessBounded
<1>1. IInv => StalenessBounded
  BY ConstantsAssumption DEF IInv, StaleRecent, StalenessBounded, TypeOK
<1> QED BY CacheInvariant, <1>1, PTL
=============================================================================
