----------------------------- MODULE HeldLock -----------------------------
(***************************************************************************)
(* What the lock program promises to those who suspend the machine: a      *)
(* screen that is locked when they are told so, and that is not unlocked   *)
(* before the last of them has gone.  Only the compositor may reveal it    *)
(* on its own.                                                             *)
(***************************************************************************)
CONSTANT Clients

VARIABLES
    screen,   \* locked, opened by a prompt, or revoked: by the compositor itself
    holders   \* clients that suspend the machine

Init == screen = "open" /\ holders = {}

\* The screen is, or was, locked, and some are told so.
Hold == /\ screen' = "locked"
        /\ holders' \in SUBSET Clients /\ holders \subseteq holders'

Leave == holders' \in SUBSET holders /\ UNCHANGED screen

Unlock == /\ screen = "locked" /\ holders = {}
          /\ screen' = "open" /\ UNCHANGED holders

Revoke == screen' = "revoked" /\ UNCHANGED holders

Next == Hold \/ Leave \/ Unlock \/ Revoke

Spec == Init /\ [][Next]_<<screen, holders>>
===========================================================================
