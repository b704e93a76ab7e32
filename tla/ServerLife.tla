----------------------------- MODULE ServerLife -----------------------------
(***************************************************************************)
(* The life of the server process as its handler threads depend on it: it  *)
(* comes up with a key, and goes down through the end of its database and  *)
(* then the end of its key, or at once.  While the database is open there  *)
(* is a key.                                                               *)
(***************************************************************************)
EXTENDS Naturals

VARIABLES
    stage,   \* "up", "db_closed", "key_wiped" or "down"
    key      \* the key of the process, 0 when there is none

vars == <<stage, key>>

Init == (stage = "down" /\ key = 0) \/ (stage = "up" /\ key # 0)

Start == stage = "down" /\ stage' = "up" /\ key' # 0

CloseDatabase == stage = "up" /\ stage' = "db_closed" /\ UNCHANGED key

WipeKey == stage = "db_closed" /\ stage' = "key_wiped" /\ key' = 0

End == stage' = "down" /\ key' = 0

Next == Start \/ CloseDatabase \/ WipeKey \/ End

Spec == Init /\ [][Next]_vars
=============================================================================
