--------------------------- MODULE AlertContract ---------------------------
(***************************************************************************)
(* What the recipients of alerts may rely on, check by check, without runs *)
(* or deliveries: an outage is told at most once, and a recovery is told   *)
(* at most once, after the outage is over and only when the recipients     *)
(* last heard that the check was down.                                     *)
(***************************************************************************)
CONSTANT Checks

VARIABLES
    open,   \* an outage of the check is going on
    heard,  \* the newest outage of the check was told
    last    \* the last message about the check

vars == <<open, heard, last>>

Init ==
    /\ open = [c \in Checks |-> FALSE]
    /\ heard = [c \in Checks |-> FALSE]
    /\ last = [c \in Checks |-> "none"]

Begin(c) ==
    /\ ~open[c]
    /\ open' = [open EXCEPT ![c] = TRUE]
    /\ heard' = [heard EXCEPT ![c] = FALSE]
    /\ UNCHANGED last

End(c) ==
    /\ open[c]
    /\ open' = [open EXCEPT ![c] = FALSE]
    /\ UNCHANGED <<heard, last>>

TellDown(c) ==
    /\ ~heard[c]
    /\ heard' = [heard EXCEPT ![c] = TRUE]
    /\ last' = [last EXCEPT ![c] = "down"]
    /\ UNCHANGED open

TellRecovered(c) ==
    /\ ~open[c] /\ heard[c] /\ last[c] = "down"
    /\ last' = [last EXCEPT ![c] = "recovered"]
    /\ UNCHANGED <<open, heard>>

Next == \E c \in Checks : Begin(c) \/ End(c) \/ TellDown(c) \/ TellRecovered(c)

Spec == Init /\ [][Next]_vars
=============================================================================
