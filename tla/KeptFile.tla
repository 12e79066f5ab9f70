------------------------------- MODULE KeptFile -------------------------------
(***************************************************************************)
(* What the owner of a cache file may rely on, with no word about timers,  *)
(* temporary files or crashes: the file holds one of the values that were  *)
(* saved, it only ever goes on to a newer one, and after it was removed    *)
(* no value from before the removal comes back.  Values are numbered in    *)
(* the order they were saved; 0 is no file.                                *)
(***************************************************************************)
EXTENDS Naturals

VARIABLES
    saved,      \* the newest value
    value,      \* what the file holds
    gone        \* the newest value that was removed

Init == saved = 0 /\ value = 0 /\ gone = 0

Save ==
    /\ saved' = saved + 1
    /\ UNCHANGED <<value, gone>>

Replace ==
    /\ value' \in 1..saved
    /\ value' > value /\ value' > gone
    /\ UNCHANGED <<saved, gone>>

Remove ==
    /\ gone' \in gone..saved
    /\ value' = 0
    /\ UNCHANGED saved

Next == Save \/ Replace \/ Remove

Spec == Init /\ [][Next]_<<saved, value, gone>>
=============================================================================
