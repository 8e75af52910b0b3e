---------------------------- MODULE SecurePrompt ----------------------------
(***************************************************************************)
(* The password prompts of the lock program, one per output, and the pool  *)
(* of locked memory they take their buffers from (SecurePrompt,            *)
(* acquireSignalSecretSlot, PamAuthenticator, pamConversation).            *)
(* SecretBuffer has what happens inside a buffer; here it is zero or not.  *)
(* PAM is external: it asks for answers, takes its time and has a verdict, *)
(* and while it does, nothing but a signal happens in this thread.         *)
(***************************************************************************)
EXTENDS Integers, FiniteSets, FiniteSetsExt

CONSTANTS
    PromptIds,
    SlotCount,    \* kSecretSlotCount
    None,
    BaseDelay,    \* 250 ms, in ticks of the clock
    MaxDelay,     \* 8000 ms
    MaxFailures,  \* failures that are counted
    MaxMessages,  \* bound on what PAM asks at once
    MaxTime       \* bound on the clock

ASSUME PromptAssumption ==
    /\ SlotCount \in Nat \ {0} /\ None \notin PromptIds \cup (1..SlotCount)
    /\ BaseDelay \in Nat \ {0} /\ MaxDelay \in Nat /\ MaxFailures \in Nat
    /\ \A n \in 0..MaxFailures : 2^n \in Nat
    /\ MaxMessages \in Nat /\ MaxTime \in Nat

VARIABLES
    slots,        \* signalSecretSlots: used, and not zero
    prompt,       \* prompt -> its buffer, what it shows and its retry
    asking,       \* the prompt whose authenticate is in PAM
    heap,         \* answers with a secret that nobody will wipe
    alive
promptVars == <<slots, prompt, asking, heap, alive>>

Slots == 1..SlotCount
States == {"Idle", "Authenticating", "Accepted", "Rejected", "Error"}

\* since: how long it lives or has not accepted; failed: how often since then;
\* owed: the delays after these failures
Fresh(slot) == [slot |-> slot, state |-> "Idle", shown |-> FALSE, failures |-> 0,
                wait |-> 0, since |-> 0, failed |-> 0, owed |-> 0]
NoPrompt == Fresh(None)

Living == {p \in PromptIds : prompt[p].slot # None}
Free == alive /\ asking = None
Dirty(p) == slots[prompt[p].slot].dirty

\* ------------------------------------------------------------ the pool

Unused == {i \in Slots : ~slots[i].used}

\* The constructor takes the first unused slot; it fails if all are in use.
Create(p) ==
    /\ Free /\ p \notin Living
    /\ \/ Unused = {} /\ UNCHANGED <<slots, prompt>>
       \/ \E i \in Unused :
             /\ \A j \in Unused : i <= j
             /\ slots' = [slots EXCEPT ![i].used = TRUE]
             /\ prompt' = [prompt EXCEPT ![p] = Fresh(i)]
    /\ UNCHANGED <<asking, heap, alive>>

\* Memory that cannot be mapped or locked: the slot is given back.
CreateFails(p) == Free /\ p \notin Living /\ UNCHANGED promptVars

\* The destructors only give the slot back.
MutDestroy(p) ==
    /\ Free /\ p \in Living
    /\ slots' = [slots EXCEPT ![prompt[p].slot].used = FALSE]
    /\ prompt' = [prompt EXCEPT ![p] = NoPrompt]
    /\ UNCHANGED <<asking, heap, alive>>

\* The destructors
Destroy(p) ==
    /\ Free /\ p \in Living
    /\ slots' = [slots EXCEPT ![prompt[p].slot] = [used |-> FALSE, dirty |-> FALSE]]
    /\ prompt' = [prompt EXCEPT ![p] = NoPrompt]
    /\ UNCHANGED <<asking, heap, alive>>

\* ------------------------------------------------------------ input

\* The buffer of a prompt and what it shows
Holds(p, dirty, state) ==
    /\ slots' = [slots EXCEPT ![prompt[p].slot].dirty = dirty]
    /\ prompt' = [prompt EXCEPT ![p].shown = dirty, ![p].state = state]
    /\ UNCHANGED <<asking, heap, alive>>

Type(p) ==
    /\ Free /\ p \in Living
    /\ \/ Holds(p, TRUE, "Idle")
       \/ Dirty(p) /\ Holds(p, TRUE, prompt[p].state)

\* Some of it, or all, is removed.
Erase(p) ==
    /\ Free /\ p \in Living /\ Dirty(p)
    /\ \E rest \in BOOLEAN : Holds(p, rest, "Idle")

\* Escape
Escape(p) == Free /\ p \in Living /\ Holds(p, FALSE, "Idle")

\* clearSecret from QML
ClearSecret(p) == Free /\ p \in Living /\ Holds(p, FALSE, prompt[p].state)

\* aboutToQuit: every prompt clears its secret.
Quit ==
    /\ Free
    /\ slots' = [i \in Slots |-> IF slots[i].used THEN [slots[i] EXCEPT !.dirty = FALSE]
                                 ELSE slots[i]]
    /\ prompt' = [p \in PromptIds |-> [prompt[p] EXCEPT !.shown = FALSE]]
    /\ UNCHANGED <<asking, heap, alive>>

\* ------------------------------------------------------------ PAM

\* What pamConversation is asked for, or cannot be answered
Styles == {"echo off", "echo on", "info", "unknown"}
Messages == UNION {[1..n -> Styles] : n \in 0..MaxMessages}

\* What discard wipes and frees when the i-th answer fails
Discarded(i) == 1..(i - 1)

\* pamConversation: secrets on the heap if the i-th allocation fails (0: none);
\* PAM wipes what it is given.
Leaked(messages, oom) ==
    LET failed == {i \in DOMAIN messages :
                     messages[i] = "unknown"
                       \/ (i = oom /\ messages[i] \in {"echo off", "echo on"})}
        answered == {i \in DOMAIN messages : messages[i] = "echo off"}
    IN  IF failed = {} THEN 0
        ELSE Cardinality((answered \cap (1..(Min(failed) - 1))) \ Discarded(Min(failed)))

\* std::min(failureCount_, 5)
Counted(failures) == Min({failures, MaxFailures})

\* std::min(8000, 250 << failureCount_)
Delay(failures) == Min({MaxDelay, BaseDelay * 2^failures})

\* authenticate without a text, or too early
RejectUnasked(p) ==
    /\ Free /\ p \in Living
    /\ ~Dirty(p) \/ prompt[p].wait > 0
    /\ Holds(p, FALSE, "Rejected")

\* authenticate: PAM is called.
Ask(p) ==
    /\ Free /\ p \in Living /\ Dirty(p) /\ prompt[p].wait = 0
    /\ prompt' = [prompt EXCEPT ![p].state = "Authenticating"]
    /\ asking' = p
    /\ UNCHANGED <<slots, heap, alive>>

\* PAM asks for answers, as often as it likes.
Converse ==
    /\ alive /\ asking # None
    /\ \E messages \in Messages, oom \in 0..MaxMessages :
          heap' = heap + Leaked(messages, oom)
    /\ UNCHANGED <<slots, prompt, asking, alive>>

\* What every verdict does first
Answered(p, after) ==
    /\ alive /\ asking = p /\ p # None
    /\ asking' = None
    /\ slots' = [slots EXCEPT ![prompt[p].slot].dirty = FALSE]
    /\ prompt' = [prompt EXCEPT ![p] = after]
    /\ UNCHANGED <<heap, alive>>

Accepted(p) ==
    Answered(p, [prompt[p] EXCEPT !.shown = FALSE, !.state = "Accepted", !.failures = 0,
                                  !.wait = 0, !.since = 0, !.failed = 0, !.owed = 0])

\* A failure after which the prompt waits; what is owed goes by the failures.
Refused(p, wait) ==
    Answered(p, [prompt[p] EXCEPT !.shown = FALSE, !.state = "Rejected",
                                  !.failures = Counted(@ + 1), !.wait = wait,
                                  !.failed = @ + 1,
                                  !.owed = @ + Delay(Counted(prompt[p].failed + 1))])

\* The delay is that of the failures before.
MutRejected(p) == Refused(p, Delay(prompt[p].failures))

Rejected(p) == Refused(p, Delay(Counted(prompt[p].failures + 1)))

\* The authenticator throws: no failure is counted.
Throws(p) == Answered(p, [prompt[p] EXCEPT !.shown = FALSE, !.state = "Error"])

\* ------------------------------------------------------------ environment

\* Also while PAM takes its time
Tick ==
    /\ alive /\ \A p \in Living : prompt[p].since < MaxTime
    /\ prompt' = [p \in PromptIds |->
                    IF p \notin Living THEN prompt[p]
                    ELSE [prompt[p] EXCEPT !.wait = IF @ > 0 THEN @ - 1 ELSE 0,
                                           !.since = @ + 1]]
    /\ UNCHANGED <<slots, asking, heap, alive>>

\* wipeProcessSecrets
Wiped == [i \in Slots |-> [slots[i] EXCEPT !.dirty = FALSE]]

\* terminationSignalHandler, whatever it interrupts
Signal ==
    /\ alive /\ alive' = FALSE
    /\ slots' = Wiped
    /\ UNCHANGED <<prompt, asking, heap>>

PromptInit ==
    /\ slots = [i \in Slots |-> [used |-> FALSE, dirty |-> FALSE]]
    /\ prompt = [p \in PromptIds |-> NoPrompt]
    /\ asking = None /\ heap = 0 /\ alive = TRUE

PromptNext ==
    \/ \E p \in PromptIds : \/ Create(p) \/ CreateFails(p) \/ Destroy(p)
                          \/ Type(p) \/ Erase(p) \/ Escape(p) \/ ClearSecret(p)
                          \/ RejectUnasked(p) \/ Ask(p)
                          \/ Accepted(p) \/ Rejected(p) \/ Throws(p)
    \/ Quit \/ Converse \/ Tick \/ Signal

PromptSpec == PromptInit /\ [][PromptNext]_promptVars

\* --------------------------------------------------------- properties

PromptTypeOK ==
    /\ slots \in [Slots -> [used : BOOLEAN, dirty : BOOLEAN]]
    /\ prompt \in [PromptIds -> [slot : Slots \cup {None}, state : States, shown : BOOLEAN,
                               failures : 0..MaxFailures, wait : 0..MaxDelay,
                               since : 0..MaxTime, failed : Nat, owed : Nat]]
    /\ asking \in PromptIds \cup {None}
    /\ heap \in Nat /\ alive \in BOOLEAN

\* A slot has one prompt, and is zero when it has none, so that the next one
\* finds nothing (acquireSignalSecretSlot, ~LockedSecretBuffer).
SlotsAreOwned ==
    /\ \A p, q \in Living : prompt[p].slot = prompt[q].slot => p = q
    /\ \A i \in Slots : slots[i].used <=> \E p \in Living : prompt[p].slot = i
    /\ \A i \in Slots : slots[i].dirty => slots[i].used

\* What a prompt shows is what it holds, and as long as it shows a verdict it
\* holds nothing (clearSecret and setAuthState in authenticate, appendText and
\* inputMethodEvent).
VerdictsHoldNothing ==
    alive => \A p \in Living :
        /\ prompt[p].shown = Dirty(p)
        /\ prompt[p].state \in {"Accepted", "Rejected", "Error"} => ~Dirty(p)

\* No copy of a secret is left on the heap, whatever PAM asks and whichever
\* answer fails (pamConversation).
NothingOnTheHeap == heap = 0

\* A process that was told to end leaves no secret in its memory
\* (terminationSignalHandler).
DeadIsWiped == ~alive => \A i \in Slots : ~slots[i].dirty

\* A secret is in the buffer of its prompt and nowhere else: each slot is
\* owned by one prompt, what gave its verdict, the heap, and a process that
\* was told to end hold none.
SecretsHaveOneHome ==
    /\ PromptTypeOK /\ SlotsAreOwned /\ VerdictsHoldNothing
    /\ NothingOnTheHeap /\ DeadIsWiped

\* However often the prompt is used, its failures take as long as the delays
\* that they demand (authenticate).
GuessesAreSpaced ==
    \A p \in Living : prompt[p].since + prompt[p].wait >= prompt[p].owed
=============================================================================
