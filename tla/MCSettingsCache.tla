---------------------------- MODULE MCSettingsCache ----------------------------
(* One setting, with a process for each client. *)
EXTENDS SettingsCache

CONSTANTS r1, r2, r3

OwnProcess == [c \in Clients |-> c]
=============================================================================
