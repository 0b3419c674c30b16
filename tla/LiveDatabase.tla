------------------------------ MODULE LiveDatabase ------------------------------
(***************************************************************************)
(* What everybody who has the database open is promised (the head comment  *)
(* of app/utils/sqlite_tools.py and restore_into_live).  It grows by       *)
(* committed writes and is replaced in one step, by a database without any *)
(* writes or by what it was when a copy of it was kept.  It is missing     *)
(* only when a replacement had to take its file away, and incomplete only  *)
(* through a reset; where one of these fails, until the next start.        *)
(***************************************************************************)
CONSTANTS Writes, Gone

VARIABLES
    db,         \* the live database
    copies,     \* earlier states of it that can be brought back
    stage,      \* a replacement is at work on it, or has taken it away
    resetting   \* a reset is at work on it

Content == [writes : SUBSET Writes, cur : BOOLEAN, whole : BOOLEAN]
Without == {f \in Content : f.writes = {}}

\* Nothing is lost, and tables or columns may be added.
Extends(g, f) == g.writes = f.writes /\ (f.cur => g.cur) /\ (f.whole => g.whole)

Init == db \in Without /\ db.whole /\ copies = {} /\ stage = "open" /\ ~resetting

Commit(w) ==
    /\ db \in Content
    /\ db' = [db EXCEPT !.writes = @ \cup {w}]
    /\ UNCHANGED <<copies, stage, resetting>>

Update ==
    /\ db \in Content /\ db' \in Content /\ Extends(db', db)
    /\ UNCHANGED copies
    /\ stage' \in {stage, "open"} /\ resetting' \in {resetting, FALSE}

\* A replacement begins or gives up, and older copies may be given up with it.
Keep ==
    /\ copies' \subseteq copies \cup {db} /\ copies' \subseteq Content
    /\ stage' \in {"open", "copying"}
    /\ UNCHANGED <<db, resetting>>

Replace ==
    /\ stage # "open" /\ stage' = "open"
    /\ db' \in copies \cup Without
    /\ UNCHANGED <<copies, resetting>>

TakeAway ==
    /\ stage = "copying" /\ stage' = "away"
    /\ db' = Gone
    /\ UNCHANGED <<copies, resetting>>

\* The file that was taken away is not brought back.
Lose ==
    /\ stage = "away" /\ stage' = "open"
    /\ db' = Gone
    /\ UNCHANGED <<copies, resetting>>

\* Where there is none, one without tables may appear.
Appear == db = Gone /\ db' \in Without /\ UNCHANGED <<copies, stage, resetting>>

BeginReset == resetting' \in BOOLEAN /\ UNCHANGED <<db, copies, stage>>

Dismantle ==
    /\ resetting /\ db \in Content
    /\ db' \in Content /\ db'.writes \subseteq db.writes /\ ~db'.whole
    /\ UNCHANGED <<copies, stage, resetting>>

\* What is left is made whole again.
Restart ==
    /\ db \in Content => (db' \in Content /\ Extends(db', db) /\ db'.whole)
    /\ db = Gone => (db' = Gone \/ (db' \in Without /\ db'.whole))
    /\ stage' = "open" /\ ~resetting'
    /\ UNCHANGED copies

Next ==
    \/ \E w \in Writes : Commit(w)
    \/ Update \/ Keep \/ Replace \/ TakeAway \/ Lose \/ Appear
    \/ BeginReset \/ Dismantle \/ Restart

Spec == Init /\ [][Next]_<<db, copies, stage, resetting>>
=============================================================================
