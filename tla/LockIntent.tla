----------------------------- MODULE LockIntent -----------------------------
(***************************************************************************)
(* What "lock the session" promises its callers: an intent is open until   *)
(* one verdict closes it; the daemon locks at most once for it; a good     *)
(* verdict means it did.  A failed verdict is ambiguous: the daemon may    *)
(* have locked, or may still do so, but never a second time.               *)
(***************************************************************************)
EXTENDS Naturals

VARIABLES number,      \* intents so far
          open,        \* the last intent has no verdict yet
          executions,  \* locks the daemon carried out for it
          failed       \* the last verdict still shown is a failure

vars == <<number, open, executions, failed>>

Init == number = 0 /\ open = FALSE /\ executions = 0 /\ failed = FALSE

Request ==
    /\ ~open
    /\ number' = number + 1 /\ open' = TRUE
    /\ executions' = 0 /\ failed' = FALSE

Execute ==
    /\ number > 0 /\ executions = 0
    /\ executions' = 1
    /\ UNCHANGED <<number, open, failed>>

Succeed ==
    /\ open /\ executions = 1
    /\ open' = FALSE /\ failed' = FALSE
    /\ UNCHANGED <<number, executions>>

GiveUp ==
    /\ open
    /\ open' = FALSE /\ failed' = TRUE
    /\ UNCHANGED <<number, executions>>

\* The failure shown makes room for the next command.
Forget ==
    /\ failed' = FALSE
    /\ UNCHANGED <<number, open, executions>>

Next == Request \/ Execute \/ Succeed \/ GiveUp \/ Forget

Spec == Init /\ [][Next]_vars
=============================================================================
