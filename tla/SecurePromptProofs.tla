------------------------- MODULE SecurePromptProofs -------------------------
(***************************************************************************)
(* Proofs about SecurePrompt, for every number of prompts and slots and    *)
(* every bound, and about SecretBuffer, for all characters and sizes.      *)
(*                                                                         *)
(* A step of a prompt writes its record and the dirty bit of its slot.     *)
(* KeepsItsHome has what such a step must do for the secrets to stay where *)
(* they belong; the delays are about the record alone (Spaced).  A buffer  *)
(* has the text of its user (IsText); its edits take a text apart.         *)
(***************************************************************************)
EXTENDS SecurePrompt, SecretBuffer, FiniteSetTheorems, SequenceTheorems,
    WellFoundedInduction, TLAPS

Record == [slot : Slots \cup {None}, state : States, shown : BOOLEAN,
           failures : 0..MaxFailures, wait : 0..MaxDelay,
           since : 0..MaxTime, failed : Nat, owed : Nat]

Verdicts == {"Accepted", "Rejected", "Error"}

\* The count of failures stops at its limit, and time and delay cover what the
\* failures demand.
Spaced(r) == r.failures = Counted(r.failed) /\ r.since + r.wait >= r.owed

\* PAM is asked by a prompt that lives, and that waits for nothing.
Asker == asking # None => asking \in Living /\ prompt[asking].wait = 0

Timed == Asker /\ \A p \in PromptIds : Spaced(prompt[p])

Invariant == SecretsHaveOneHome /\ Timed

---------------------------------------------------------------------------
(* Delays                                                                  *)

LEMMA MinOfTwo ==
    ASSUME NEW a \in Int, NEW b \in Int
    PROVE  Min({a, b}) = IF a <= b THEN a ELSE b
    <1>1. PICK m \in {a, b} : \A y \in {a, b} : m <= y
        OBVIOUS
    <1> QED BY <1>1 DEF Min

LEMMA Counting ==
    ASSUME NEW n \in Nat
    PROVE  /\ Counted(n) \in 0..MaxFailures
           /\ Counted(0) = 0
           /\ Counted(Counted(n) + 1) = Counted(n + 1)
    <1>1. \A k \in Nat : Counted(k) = IF k <= MaxFailures THEN k ELSE MaxFailures
        BY MinOfTwo, PromptAssumption DEF Counted
    <1> QED BY <1>1, PromptAssumption

LEMMA Delaying ==
    ASSUME NEW n \in 0..MaxFailures
    PROVE  Delay(n) \in 0..MaxDelay
    <1>1. 2^n \in Nat
        BY PromptAssumption
    <1> DEFINE full == BaseDelay * 2^n
    <1>2. full \in Nat
        BY <1>1, PromptAssumption
    <1>3. Delay(n) = Min({MaxDelay, full})
        BY DEF Delay
    <1> HIDE DEF full
    <1> QED BY <1>2, <1>3, MinOfTwo, PromptAssumption

LEMMA NewPrompt ==
    ASSUME NEW slot \in Slots \cup {None}
    PROVE  /\ Fresh(slot) \in Record
           /\ Fresh(slot).slot = slot /\ Fresh(slot).shown = FALSE
           /\ Fresh(slot).state = "Idle"
           /\ Spaced(Fresh(slot))
    <1>1. Counted(0) = 0
        BY Counting
    <1> QED BY <1>1, PromptAssumption DEF Fresh, Record, States, Spaced

\* The fields of a record after what a prompt does to it
LEMMA AcceptedFields ==
    ASSUME NEW r \in Record,
           NEW s, s = [r EXCEPT !.shown = FALSE, !.state = "Accepted", !.failures = 0,
                                !.wait = 0, !.since = 0, !.failed = 0, !.owed = 0]
    PROVE  /\ s \in Record /\ Spaced(s)
           /\ s.slot = r.slot /\ s.shown = FALSE /\ s.state = "Accepted"
    <1>1. Counted(0) = 0
        BY Counting
    <1>2. 0 \in 0..MaxFailures /\ 0 \in 0..MaxDelay /\ 0 \in 0..MaxTime
        BY PromptAssumption
    <1>3. /\ s.slot = r.slot /\ s.shown = FALSE /\ s.state = "Accepted"
          /\ s.failures = 0 /\ s.wait = 0 /\ s.since = 0 /\ s.failed = 0
          /\ s.owed = 0
        BY DEF Record
    <1>4. s \in Record
        BY <1>2 DEF Record, States
    <1> QED BY <1>1, <1>3, <1>4 DEF Spaced

LEMMA RejectedFields ==
    ASSUME NEW r \in Record, Spaced(r), r.wait = 0,
           NEW s,
           s = [r EXCEPT !.shown = FALSE, !.state = "Rejected",
                         !.failures = Counted(@ + 1),
                         !.wait = Delay(Counted(r.failures + 1)),
                         !.failed = @ + 1,
                         !.owed = @ + Delay(Counted(r.failed + 1))]
    PROVE  /\ s \in Record /\ Spaced(s)
           /\ s.slot = r.slot /\ s.shown = FALSE /\ s.state = "Rejected"
    <1> DEFINE failures == Counted(r.failed + 1)
               delay == Delay(failures)
    <1>1. r.failed \in Nat /\ r.owed \in Nat /\ r.since \in 0..MaxTime
        BY DEF Record
    <1>2. failures \in 0..MaxFailures /\ failures = Counted(r.failures + 1)
        BY <1>1, Counting DEF Spaced
    <1>3. delay \in 0..MaxDelay
        BY <1>2, Delaying
    <1>4. s = [r EXCEPT !.shown = FALSE, !.state = "Rejected", !.failures = failures,
                        !.wait = delay, !.failed = r.failed + 1,
                        !.owed = r.owed + delay]
        BY <1>2
    <1>5. s.failures = Counted(s.failed)
        BY <1>4 DEF Record
    <1> HIDE DEF failures, delay
    <1>6. s \in Record /\ s.wait = delay /\ s.owed = r.owed + delay /\ s.since = r.since
        <2>1. r.failed + 1 \in Nat /\ r.owed + delay \in Nat
            BY <1>1, <1>3, PromptAssumption
        <2> QED BY <1>2, <1>3, <1>4, <2>1 DEF Record, States
    <1>7. s.since + s.wait >= s.owed
        BY <1>1, <1>3, <1>6, PromptAssumption DEF Spaced
    <1> QED BY <1>4, <1>5, <1>6, <1>7 DEF Record, Spaced

LEMMA TickFields ==
    ASSUME NEW r \in Record, Spaced(r), r.since < MaxTime,
           NEW s,
           s = [r EXCEPT !.wait = IF @ > 0 THEN @ - 1 ELSE 0, !.since = @ + 1]
    PROVE  /\ s \in Record /\ Spaced(s)
           /\ s.slot = r.slot /\ s.shown = r.shown /\ s.state = r.state
           /\ r.wait = 0 => s.wait = 0
    <1>1. /\ r.wait \in 0..MaxDelay /\ r.since \in 0..MaxTime /\ r.owed \in Nat
        BY DEF Record
    <1> DEFINE wait == IF r.wait > 0 THEN r.wait - 1 ELSE 0
               since == r.since + 1
    <1>2. /\ wait \in 0..MaxDelay /\ since \in 0..MaxTime
          /\ since + wait >= r.since + r.wait
          /\ r.wait = 0 => wait = 0
        BY <1>1, PromptAssumption
    <1>3. s = [r EXCEPT !.wait = wait, !.since = since]
        OBVIOUS
    <1> HIDE DEF wait, since
    <1>4. /\ s.wait = wait /\ s.since = since /\ s.owed = r.owed
          /\ s.failures = r.failures /\ s.failed = r.failed
          /\ s.slot = r.slot /\ s.shown = r.shown /\ s.state = r.state
          /\ s \in Record
        BY <1>2, <1>3 DEF Record
    <1>5. s.since + s.wait >= s.owed
        BY <1>1, <1>2, <1>4, PromptAssumption DEF Spaced
    <1> QED BY <1>2, <1>4, <1>5 DEF Spaced

---------------------------------------------------------------------------
(* Steps                                                                   *)

LEMMA Typed ==
    ASSUME PromptTypeOK
    PROVE  /\ prompt \in [PromptIds -> Record]
           /\ slots \in [Slots -> [used : BOOLEAN, dirty : BOOLEAN]]
           /\ \A p \in Living : prompt[p].slot \in Slots
           /\ Living \subseteq PromptIds
    BY DEF PromptTypeOK, Record, Living

\* Nothing PAM asks for, and no answer that fails, leaves a secret behind.
LEMMA NothingLeaks == \A messages, oom : Leaked(messages, oom) = 0
    <1> SUFFICES ASSUME NEW messages, NEW oom PROVE Leaked(messages, oom) = 0
        OBVIOUS
    <1> DEFINE failed == {i \in DOMAIN messages :
                            messages[i] = "unknown"
                              \/ (i = oom /\ messages[i] \in {"echo off", "echo on"})}
               answered == {i \in DOMAIN messages : messages[i] = "echo off"}
    <1>1. (answered \cap (1..(Min(failed) - 1))) \ Discarded(Min(failed)) = {}
        BY DEF Discarded
    <1>2. Cardinality({}) = 0
        BY FS_EmptySet
    <1>3. Leaked(messages, oom) =
            IF failed = {} THEN 0
            ELSE Cardinality((answered \cap (1..(Min(failed) - 1)))
                               \ Discarded(Min(failed)))
        BY DEF Leaked
    <1> HIDE DEF failed, answered
    <1> QED BY <1>1, <1>2, <1>3

LEMMA UnchangedKeeps ==
    ASSUME Invariant, UNCHANGED promptVars
    PROVE  Invariant'
    BY DEF Invariant, SecretsHaveOneHome, PromptTypeOK, SlotsAreOwned,
           VerdictsHoldNothing, NothingOnTheHeap, DeadIsWiped, Timed, Asker,
           Living, Dirty, promptVars

\* A prompt writes its slot and its record, and PAM is not asked any more.
Rewrites(p, dirty, s) ==
    /\ slots' = [slots EXCEPT ![prompt[p].slot].dirty = dirty]
    /\ prompt' = [prompt EXCEPT ![p] = s]
    /\ asking' = None /\ heap' = heap /\ alive' = alive

LEMMA KeepsItsHome ==
    ASSUME Invariant, alive, NEW p \in Living, NEW dirty \in BOOLEAN,
           NEW s \in Record, Spaced(s), s.slot = prompt[p].slot,
           s.shown = dirty, s.state \in Verdicts => ~dirty,
           Rewrites(p, dirty, s)
    PROVE  Invariant'
    <1>1. /\ PromptTypeOK /\ SlotsAreOwned /\ VerdictsHoldNothing
          /\ NothingOnTheHeap /\ DeadIsWiped /\ Timed
        BY DEF Invariant, SecretsHaveOneHome
    <1>2. /\ prompt \in [PromptIds -> Record]
          /\ slots \in [Slots -> [used : BOOLEAN, dirty : BOOLEAN]]
          /\ \A q \in Living : prompt[q].slot \in Slots
          /\ Living \subseteq PromptIds
        BY <1>1, Typed
    <1> DEFINE own == prompt[p].slot
    <1>3. own \in Slots /\ p \in PromptIds
        BY <1>2
    <1>4. /\ prompt' \in [PromptIds -> Record] /\ prompt'[p] = s
          /\ \A q \in PromptIds : q # p => prompt'[q] = prompt[q]
        BY <1>2, <1>3 DEF Rewrites
    <1>5. /\ slots' \in [Slots -> [used : BOOLEAN, dirty : BOOLEAN]]
          /\ slots'[own].dirty = dirty
          /\ \A i \in Slots : i # own => slots'[i].dirty = slots[i].dirty
          /\ \A i \in Slots : slots'[i].used = slots[i].used
        BY <1>2, <1>3 DEF Rewrites
    <1>6. \A q \in PromptIds : prompt'[q].slot = prompt[q].slot
        BY <1>4
    <1>7. Living' = Living
        BY <1>6 DEF Living
    <1>8. PromptTypeOK'
        BY <1>1, <1>4, <1>5 DEF PromptTypeOK, Record, Rewrites
    <1>9. SlotsAreOwned'
        <2>1. slots[own].used
            BY <1>1, <1>3 DEF SlotsAreOwned
        <2>2. \A i \in Slots : slots'[i].dirty => slots'[i].used
            BY <1>1, <1>5, <2>1 DEF SlotsAreOwned
        <2>3. \A q, r \in Living : prompt'[q].slot = prompt'[r].slot => q = r
            BY <1>1, <1>2, <1>6 DEF SlotsAreOwned
        <2>4. \A i \in Slots :
                slots'[i].used <=> \E q \in Living : prompt'[q].slot = i
            BY <1>1, <1>2, <1>5, <1>6 DEF SlotsAreOwned
        <2> QED BY <1>7, <2>2, <2>3, <2>4 DEF SlotsAreOwned
    <1>10. VerdictsHoldNothing'
        <2> SUFFICES ASSUME NEW q \in Living
                     PROVE  /\ prompt'[q].shown = Dirty(q)'
                            /\ prompt'[q].state \in Verdicts => ~Dirty(q)'
            BY <1>7 DEF VerdictsHoldNothing, Verdicts
        <2>1. CASE q = p
            BY <1>4, <1>5, <2>1 DEF Dirty
        <2>2. CASE q # p
            <3>1. prompt[q].slot # own
                BY <1>1, <2>2 DEF SlotsAreOwned
            <3>2. Dirty(q)' = Dirty(q)
                BY <1>2, <1>5, <1>6, <3>1 DEF Dirty
            <3> QED BY <1>1, <1>2, <1>4, <2>2, <3>2
                    DEF VerdictsHoldNothing, Verdicts
        <2> QED BY <2>1, <2>2
    <1>11. NothingOnTheHeap' /\ DeadIsWiped'
        BY <1>1 DEF NothingOnTheHeap, DeadIsWiped, Rewrites
    <1>12. Timed'
        BY <1>1, <1>4 DEF Timed, Asker, Rewrites
    <1> QED BY <1>8, <1>9, <1>10, <1>11, <1>12 DEF Invariant, SecretsHaveOneHome

LEMMA Shows ==
    ASSUME Invariant, Free, NEW p \in Living, NEW dirty \in BOOLEAN,
           NEW state \in States, state \in Verdicts => ~dirty,
           Holds(p, dirty, state)
    PROVE  Invariant'
    <1> DEFINE s == [prompt[p] EXCEPT !.shown = dirty, !.state = state]
    <1>1. prompt[p] \in Record /\ Spaced(prompt[p]) /\ p \in PromptIds
        BY Typed DEF Invariant, SecretsHaveOneHome, Timed
    <1>2. s = [prompt[p] EXCEPT !.shown = dirty, !.state = state]
        OBVIOUS
    <1>3. prompt' = [prompt EXCEPT ![p] = s]
        BY DEF Holds
    <1> HIDE DEF s
    <1>5. /\ s \in Record /\ Spaced(s)
          /\ s.slot = prompt[p].slot /\ s.shown = dirty /\ s.state = state
        BY <1>1, <1>2 DEF Record, Spaced
    <1>4. Rewrites(p, dirty, s) /\ alive
        BY <1>3 DEF Holds, Rewrites, Free
    <1> QED BY <1>4, <1>5, KeepsItsHome

\* The verdict of PAM, and its failure to have one
LEMMA Answers ==
    ASSUME Invariant, NEW p \in PromptIds, NEW s \in Record, Spaced(s),
           s.slot = prompt[p].slot, s.shown = FALSE, Answered(p, s)
    PROVE  Invariant'
    <1>1. p \in Living /\ alive
        BY DEF Answered, Invariant, Timed, Asker
    <1>2. Rewrites(p, FALSE, s)
        BY DEF Answered, Rewrites
    <1> QED BY <1>1, <1>2, KeepsItsHome

LEMMA Creates ==
    ASSUME Invariant, NEW p \in PromptIds, Create(p)
    PROVE  Invariant'
    <1>1. /\ PromptTypeOK /\ SlotsAreOwned /\ VerdictsHoldNothing
          /\ NothingOnTheHeap /\ DeadIsWiped /\ Timed
        BY DEF Invariant, SecretsHaveOneHome
    <1>2. /\ prompt \in [PromptIds -> Record]
          /\ slots \in [Slots -> [used : BOOLEAN, dirty : BOOLEAN]]
          /\ \A q \in Living : prompt[q].slot \in Slots
          /\ Living \subseteq PromptIds
        BY <1>1, Typed
    <1>3. CASE UNCHANGED promptVars
        BY <1>3, UnchangedKeeps
    <1>4. ASSUME NEW i \in Unused,
                 slots' = [slots EXCEPT ![i].used = TRUE],
                 prompt' = [prompt EXCEPT ![p] = Fresh(i)]
          PROVE  Invariant'
        <2>1. i \in Slots /\ ~slots[i].used /\ ~slots[i].dirty
            BY <1>1 DEF Unused, SlotsAreOwned
        <2>2. /\ Fresh(i) \in Record /\ Fresh(i).slot = i
              /\ Fresh(i).shown = FALSE /\ Fresh(i).state = "Idle"
              /\ Spaced(Fresh(i))
            BY <2>1, NewPrompt
        <2>3. i # None
            BY <2>1, PromptAssumption DEF Slots
        <2>4. /\ prompt' \in [PromptIds -> Record] /\ prompt'[p] = Fresh(i)
              /\ \A q \in PromptIds : q # p => prompt'[q] = prompt[q]
            BY <1>2, <1>4, <2>2
        <2>5. /\ slots' \in [Slots -> [used : BOOLEAN, dirty : BOOLEAN]]
              /\ slots'[i].used
              /\ \A j \in Slots : j # i => slots'[j].used = slots[j].used
              /\ \A j \in Slots : slots'[j].dirty = slots[j].dirty
            BY <1>2, <1>4, <2>1
        <2>6. p \notin Living /\ alive /\ asking = None
            BY DEF Create, Free
        <2>7. asking' = asking /\ heap' = heap /\ alive' = alive
            BY DEF Create
        <2>8. Living' = Living \cup {p}
            BY <2>2, <2>3, <2>4 DEF Living
        <2>9. \A q \in Living : prompt'[q] = prompt[q] /\ prompt[q].slot # i
            BY <1>1, <1>2, <2>1, <2>4, <2>6 DEF SlotsAreOwned
        <2>10. PromptTypeOK'
            BY <1>1, <2>4, <2>5, <2>7 DEF PromptTypeOK, Record
        <2>11. SlotsAreOwned'
            <3>1. \A q, r \in Living' : prompt'[q].slot = prompt'[r].slot => q = r
                BY <1>1, <2>2, <2>4, <2>8, <2>9 DEF SlotsAreOwned
            <3>2. \A j \in Slots :
                    slots'[j].used <=> \E q \in Living' : prompt'[q].slot = j
                BY <1>1, <2>2, <2>4, <2>5, <2>8, <2>9 DEF SlotsAreOwned
            <3>3. \A j \in Slots : slots'[j].dirty => slots'[j].used
                BY <1>1, <2>5 DEF SlotsAreOwned
            <3> QED BY <3>1, <3>2, <3>3 DEF SlotsAreOwned
        <2>12. VerdictsHoldNothing'
            <3>1. ASSUME NEW q \in Living
                  PROVE  /\ prompt'[q].shown = Dirty(q)'
                         /\ prompt'[q].state \in Verdicts => ~Dirty(q)'
                <4>1. Dirty(q)' = Dirty(q)
                    BY <1>2, <2>5, <2>9 DEF Dirty
                <4> QED BY <1>1, <2>6, <2>9, <4>1 DEF VerdictsHoldNothing, Verdicts
            <3>2. /\ prompt'[p].shown = Dirty(p)'
                  /\ prompt'[p].state \in Verdicts => ~Dirty(p)'
                BY <2>1, <2>2, <2>4, <2>5 DEF Dirty, Verdicts
            <3> QED BY <2>8, <3>1, <3>2 DEF VerdictsHoldNothing, Verdicts
        <2>13. NothingOnTheHeap' /\ DeadIsWiped'
            BY <1>1, <2>6, <2>7 DEF NothingOnTheHeap, DeadIsWiped
        <2>14. Timed'
            BY <1>1, <2>2, <2>4, <2>6, <2>7 DEF Timed, Asker
        <2> QED BY <2>10, <2>11, <2>12, <2>13, <2>14
                DEF Invariant, SecretsHaveOneHome
    <1> QED BY <1>3, <1>4 DEF Create, promptVars

LEMMA Destroys ==
    ASSUME Invariant, NEW p \in PromptIds, Destroy(p)
    PROVE  Invariant'
    <1>1. /\ PromptTypeOK /\ SlotsAreOwned /\ VerdictsHoldNothing
          /\ NothingOnTheHeap /\ DeadIsWiped /\ Timed
        BY DEF Invariant, SecretsHaveOneHome
    <1>2. /\ prompt \in [PromptIds -> Record]
          /\ slots \in [Slots -> [used : BOOLEAN, dirty : BOOLEAN]]
          /\ \A q \in Living : prompt[q].slot \in Slots
          /\ Living \subseteq PromptIds
        BY <1>1, Typed
    <1> DEFINE own == prompt[p].slot
    <1>3. p \in Living /\ alive /\ asking = None /\ own \in Slots
        BY <1>2 DEF Destroy, Free
    <1>4. /\ NoPrompt \in Record /\ NoPrompt.slot = None /\ Spaced(NoPrompt)
        BY NewPrompt DEF NoPrompt
    <1>5. /\ prompt' \in [PromptIds -> Record] /\ prompt'[p] = NoPrompt
          /\ \A q \in PromptIds : q # p => prompt'[q] = prompt[q]
        BY <1>2, <1>4 DEF Destroy
    <1>6. /\ slots' \in [Slots -> [used : BOOLEAN, dirty : BOOLEAN]]
          /\ ~slots'[own].used /\ ~slots'[own].dirty
          /\ \A i \in Slots : i # own => slots'[i] = slots[i]
        BY <1>2, <1>3 DEF Destroy
    <1>7. asking' = asking /\ heap' = heap /\ alive' = alive
        BY DEF Destroy
    <1>8. Living' = Living \ {p}
        BY <1>4, <1>5 DEF Living
    <1>9. \A q \in Living \ {p} : prompt'[q] = prompt[q] /\ prompt[q].slot # own
        BY <1>1, <1>2, <1>3, <1>5 DEF SlotsAreOwned
    <1>10. PromptTypeOK'
        BY <1>1, <1>5, <1>6, <1>7 DEF PromptTypeOK, Record
    <1>11. SlotsAreOwned'
        <2>1. \A q, r \in Living' : prompt'[q].slot = prompt'[r].slot => q = r
            BY <1>1, <1>8, <1>9 DEF SlotsAreOwned
        <2>2. \A i \in Slots :
                slots'[i].used <=> \E q \in Living' : prompt'[q].slot = i
            BY <1>1, <1>6, <1>8, <1>9 DEF SlotsAreOwned
        <2>3. \A i \in Slots : slots'[i].dirty => slots'[i].used
            BY <1>1, <1>6 DEF SlotsAreOwned
        <2> QED BY <2>1, <2>2, <2>3 DEF SlotsAreOwned
    <1>12. VerdictsHoldNothing'
        <2> SUFFICES ASSUME NEW q \in Living \ {p}
                     PROVE  /\ prompt'[q].shown = Dirty(q)'
                            /\ prompt'[q].state \in Verdicts => ~Dirty(q)'
            BY <1>8 DEF VerdictsHoldNothing, Verdicts
        <2>1. Dirty(q)' = Dirty(q)
            BY <1>2, <1>6, <1>9 DEF Dirty
        <2> QED BY <1>1, <1>3, <1>9, <2>1 DEF VerdictsHoldNothing, Verdicts
    <1>13. NothingOnTheHeap' /\ DeadIsWiped'
        BY <1>1, <1>3, <1>7 DEF NothingOnTheHeap, DeadIsWiped
    <1>14. Timed'
        BY <1>1, <1>3, <1>4, <1>5, <1>7 DEF Timed, Asker
    <1> QED BY <1>10, <1>11, <1>12, <1>13, <1>14 DEF Invariant, SecretsHaveOneHome

LEMMA Quits ==
    ASSUME Invariant, Quit
    PROVE  Invariant'
    <1>1. /\ PromptTypeOK /\ SlotsAreOwned /\ VerdictsHoldNothing
          /\ NothingOnTheHeap /\ DeadIsWiped /\ Timed
        BY DEF Invariant, SecretsHaveOneHome
    <1>2. /\ prompt \in [PromptIds -> Record]
          /\ slots \in [Slots -> [used : BOOLEAN, dirty : BOOLEAN]]
          /\ \A q \in Living : prompt[q].slot \in Slots
          /\ Living \subseteq PromptIds
        BY <1>1, Typed
    <1>3. asking = None /\ asking' = None /\ heap' = heap /\ alive' = alive
        BY DEF Quit, Free
    <1>4. \A q \in PromptIds :
            /\ prompt'[q] \in Record /\ Spaced(prompt'[q])
            /\ prompt'[q].slot = prompt[q].slot /\ ~prompt'[q].shown
        <2> SUFFICES ASSUME NEW q \in PromptIds
                     PROVE  /\ prompt'[q] \in Record /\ Spaced(prompt'[q])
                            /\ prompt'[q].slot = prompt[q].slot
                            /\ ~prompt'[q].shown
            OBVIOUS
        <2>1. prompt'[q] = [prompt[q] EXCEPT !.shown = FALSE]
            BY DEF Quit
        <2>2. prompt[q] \in Record /\ Spaced(prompt[q])
            BY <1>1, <1>2 DEF Timed
        <2> QED BY <2>1, <2>2 DEF Record, Spaced
    <1>5. \A i \in Slots :
            /\ slots'[i] \in [used : BOOLEAN, dirty : BOOLEAN]
            /\ slots'[i].used = slots[i].used /\ ~slots'[i].dirty
        <2> SUFFICES ASSUME NEW i \in Slots
                     PROVE  /\ slots'[i] \in [used : BOOLEAN, dirty : BOOLEAN]
                            /\ slots'[i].used = slots[i].used /\ ~slots'[i].dirty
            OBVIOUS
        <2>1. slots'[i] = IF slots[i].used THEN [slots[i] EXCEPT !.dirty = FALSE]
                          ELSE slots[i]
            BY DEF Quit
        <2>2. slots[i].dirty => slots[i].used
            BY <1>1 DEF SlotsAreOwned
        <2>3. slots[i] \in [used : BOOLEAN, dirty : BOOLEAN]
            BY <1>2
        <2> QED BY <2>1, <2>2, <2>3
    <1>6. Living' = Living
        BY <1>4 DEF Living
    <1>7. /\ prompt' = [q \in PromptIds |-> prompt'[q]]
          /\ slots' = [i \in Slots |-> slots'[i]]
        BY DEF Quit
    <1>8. PromptTypeOK'
        <2>1. prompt' \in [PromptIds -> Record]
            BY <1>4, <1>7
        <2>2. slots' \in [Slots -> [used : BOOLEAN, dirty : BOOLEAN]]
            BY <1>5, <1>7
        <2> QED BY <1>1, <1>3, <2>1, <2>2 DEF PromptTypeOK, Record
    <1>9. SlotsAreOwned'
        <2>1. \A q, r \in Living : prompt'[q].slot = prompt'[r].slot => q = r
            BY <1>1, <1>2, <1>4 DEF SlotsAreOwned
        <2>2. \A i \in Slots :
                slots'[i].used <=> \E q \in Living : prompt'[q].slot = i
            BY <1>1, <1>2, <1>4, <1>5 DEF SlotsAreOwned
        <2> QED BY <1>5, <1>6, <2>1, <2>2 DEF SlotsAreOwned
    <1>10. VerdictsHoldNothing'
        <2>1. \A q \in Living : ~prompt'[q].shown /\ Dirty(q)' = FALSE
            BY <1>2, <1>4, <1>5 DEF Dirty
        <2>2. \A q \in Living : prompt'[q].shown \in BOOLEAN
            BY <1>2, <1>4 DEF Record
        <2> QED BY <1>6, <2>1, <2>2 DEF VerdictsHoldNothing
    <1>11. NothingOnTheHeap' /\ DeadIsWiped'
        BY <1>1, <1>3, <1>5 DEF NothingOnTheHeap, DeadIsWiped
    <1>12. Timed'
        BY <1>3, <1>4 DEF Timed, Asker
    <1> QED BY <1>8, <1>9, <1>10, <1>11, <1>12 DEF Invariant, SecretsHaveOneHome

LEMMA Asks ==
    ASSUME Invariant, NEW p \in PromptIds, Ask(p)
    PROVE  Invariant'
    <1>1. /\ PromptTypeOK /\ SlotsAreOwned /\ VerdictsHoldNothing
          /\ NothingOnTheHeap /\ DeadIsWiped /\ Timed
        BY DEF Invariant, SecretsHaveOneHome
    <1>2. /\ prompt \in [PromptIds -> Record] /\ Living \subseteq PromptIds
        BY <1>1, Typed
    <1> DEFINE s == [prompt[p] EXCEPT !.state = "Authenticating"]
    <1>3. p \in Living /\ prompt[p].wait = 0 /\ alive
        BY DEF Ask, Free
    <1>4. /\ s \in Record /\ Spaced(s) /\ s.slot = prompt[p].slot
          /\ s.shown = prompt[p].shown /\ s.state = "Authenticating" /\ s.wait = 0
        <2>1. prompt[p] \in Record /\ Spaced(prompt[p])
            BY <1>1, <1>2 DEF Timed
        <2> QED BY <1>3, <2>1 DEF Record, States, Spaced
    <1>5. prompt' = [prompt EXCEPT ![p] = s]
        BY DEF Ask
    <1> HIDE DEF s
    <1>6. /\ prompt' \in [PromptIds -> Record] /\ prompt'[p] = s
          /\ \A q \in PromptIds : q # p => prompt'[q] = prompt[q]
        BY <1>2, <1>4, <1>5
    <1>7. slots' = slots /\ heap' = heap /\ alive' = alive /\ asking' = p
        BY DEF Ask
    <1>8. \A q \in PromptIds : /\ prompt'[q].slot = prompt[q].slot
                               /\ prompt'[q].shown = prompt[q].shown
        BY <1>4, <1>6
    <1>9. Living' = Living
        BY <1>8 DEF Living
    <1>10. PromptTypeOK'
        BY <1>1, <1>6, <1>7 DEF PromptTypeOK, Record
    <1>11. SlotsAreOwned'
        <2>1. \A q \in Living : prompt'[q].slot = prompt[q].slot
            BY <1>2, <1>8
        <2> QED BY <1>1, <1>7, <1>9, <2>1 DEF SlotsAreOwned
    <1>12. VerdictsHoldNothing'
        <2>1. \A q \in Living : /\ Dirty(q)' = Dirty(q)
                                /\ prompt'[q].shown = prompt[q].shown
            BY <1>2, <1>7, <1>8 DEF Dirty
        <2>2. \A q \in Living : prompt'[q].state \in Verdicts =>
                                    prompt[q].state \in Verdicts
            BY <1>2, <1>4, <1>6 DEF Verdicts
        <2> QED BY <1>1, <1>3, <1>9, <2>1, <2>2 DEF VerdictsHoldNothing, Verdicts
    <1>13. NothingOnTheHeap' /\ DeadIsWiped'
        BY <1>1, <1>7 DEF NothingOnTheHeap, DeadIsWiped
    <1>14. Timed'
        BY <1>1, <1>3, <1>4, <1>6, <1>7, <1>9 DEF Timed, Asker
    <1> QED BY <1>10, <1>11, <1>12, <1>13, <1>14 DEF Invariant, SecretsHaveOneHome

LEMMA Ticks ==
    ASSUME Invariant, Tick
    PROVE  Invariant'
    <1>1. /\ PromptTypeOK /\ SlotsAreOwned /\ VerdictsHoldNothing
          /\ NothingOnTheHeap /\ DeadIsWiped /\ Timed
        BY DEF Invariant, SecretsHaveOneHome
    <1>2. /\ prompt \in [PromptIds -> Record] /\ Living \subseteq PromptIds
        BY <1>1, Typed
    <1>3. slots' = slots /\ asking' = asking /\ heap' = heap /\ alive' = alive
        BY DEF Tick
    <1>4. \A q \in PromptIds :
            /\ prompt'[q] \in Record /\ Spaced(prompt'[q])
            /\ prompt'[q].slot = prompt[q].slot
            /\ prompt'[q].shown = prompt[q].shown
            /\ prompt'[q].state = prompt[q].state
            /\ prompt[q].wait = 0 => prompt'[q].wait = 0
        <2> SUFFICES ASSUME NEW q \in PromptIds
                     PROVE  /\ prompt'[q] \in Record /\ Spaced(prompt'[q])
                            /\ prompt'[q].slot = prompt[q].slot
                            /\ prompt'[q].shown = prompt[q].shown
                            /\ prompt'[q].state = prompt[q].state
                            /\ prompt[q].wait = 0 => prompt'[q].wait = 0
            OBVIOUS
        <2>1. prompt[q] \in Record /\ Spaced(prompt[q])
            BY <1>1, <1>2 DEF Timed
        <2>2. CASE q \notin Living
            <3>1. prompt'[q] = prompt[q]
                BY <2>2 DEF Tick
            <3> QED BY <2>1, <3>1
        <2>3. CASE q \in Living
            <3>1. prompt'[q] = [prompt[q] EXCEPT !.wait = IF @ > 0 THEN @ - 1 ELSE 0,
                                                 !.since = @ + 1]
                BY <2>3 DEF Tick
            <3>2. prompt[q].since < MaxTime
                BY <2>3 DEF Tick
            <3> QED BY <2>1, <3>1, <3>2, TickFields
        <2> QED BY <2>2, <2>3
    <1>5. Living' = Living
        BY <1>4 DEF Living
    <1>6. PromptTypeOK'
        <2>1. prompt' = [q \in PromptIds |-> prompt'[q]]
            BY DEF Tick
        <2>2. prompt' \in [PromptIds -> Record]
            BY <1>4, <2>1
        <2> QED BY <1>1, <1>3, <2>2 DEF PromptTypeOK, Record
    <1>7. SlotsAreOwned'
        <2>1. \A q \in Living : prompt'[q].slot = prompt[q].slot
            BY <1>2, <1>4
        <2> QED BY <1>1, <1>3, <1>5, <2>1 DEF SlotsAreOwned
    <1>8. VerdictsHoldNothing'
        <2>1. \A q \in Living : /\ Dirty(q)' = Dirty(q)
                                /\ prompt'[q].shown = prompt[q].shown
                                /\ prompt'[q].state = prompt[q].state
            BY <1>2, <1>3, <1>4 DEF Dirty
        <2> QED BY <1>1, <1>3, <1>5, <2>1 DEF VerdictsHoldNothing
    <1>9. NothingOnTheHeap' /\ DeadIsWiped'
        BY <1>1, <1>3 DEF NothingOnTheHeap, DeadIsWiped
    <1>10. Timed'
        BY <1>1, <1>2, <1>3, <1>4, <1>5 DEF Timed, Asker
    <1> QED BY <1>6, <1>7, <1>8, <1>9, <1>10 DEF Invariant, SecretsHaveOneHome

LEMMA Signals ==
    ASSUME Invariant, Signal
    PROVE  Invariant'
    <1>1. /\ PromptTypeOK /\ SlotsAreOwned /\ VerdictsHoldNothing
          /\ NothingOnTheHeap /\ DeadIsWiped /\ Timed
        BY DEF Invariant, SecretsHaveOneHome
    <1>2. slots \in [Slots -> [used : BOOLEAN, dirty : BOOLEAN]]
        BY <1>1, Typed
    <1>3. /\ ~alive' /\ alive' \in BOOLEAN
          /\ prompt' = prompt /\ asking' = asking /\ heap' = heap
        BY DEF Signal
    <1>4. /\ slots' \in [Slots -> [used : BOOLEAN, dirty : BOOLEAN]]
          /\ \A i \in Slots : slots'[i].used = slots[i].used /\ ~slots'[i].dirty
        BY <1>2 DEF Signal, Wiped
    <1>5. Living' = Living
        BY <1>3 DEF Living
    <1>6. PromptTypeOK'
        BY <1>1, <1>3, <1>4 DEF PromptTypeOK
    <1>7. SlotsAreOwned'
        BY <1>1, <1>3, <1>4, <1>5 DEF SlotsAreOwned
    <1>8. VerdictsHoldNothing' /\ NothingOnTheHeap' /\ DeadIsWiped'
        BY <1>1, <1>3, <1>4 DEF VerdictsHoldNothing, NothingOnTheHeap, DeadIsWiped
    <1>9. Timed'
        BY <1>1, <1>3, <1>5 DEF Timed, Asker
    <1> QED BY <1>6, <1>7, <1>8, <1>9 DEF Invariant, SecretsHaveOneHome

---------------------------------------------------------------------------
(* Invariant                                                               *)

LEMMA InvariantInit == PromptInit => Invariant
    <1> SUFFICES ASSUME PromptInit PROVE Invariant
        OBVIOUS
    <1>1. /\ NoPrompt \in Record /\ NoPrompt.slot = None /\ Spaced(NoPrompt)
        BY NewPrompt DEF NoPrompt
    <1>2. /\ prompt \in [PromptIds -> Record]
          /\ \A p \in PromptIds : prompt[p].slot = None /\ Spaced(prompt[p])
        BY <1>1 DEF PromptInit
    <1>3. Living = {}
        BY <1>2 DEF Living
    <1>4. /\ slots \in [Slots -> [used : BOOLEAN, dirty : BOOLEAN]]
          /\ \A i \in Slots : ~slots[i].used /\ ~slots[i].dirty
          /\ asking = None /\ heap = 0 /\ alive = TRUE
        BY DEF PromptInit
    <1>5. PromptTypeOK
        BY <1>2, <1>4 DEF PromptTypeOK, Record
    <1>6. SlotsAreOwned
        BY <1>3, <1>4 DEF SlotsAreOwned
    <1>7. VerdictsHoldNothing /\ NothingOnTheHeap /\ DeadIsWiped
        BY <1>3, <1>4 DEF VerdictsHoldNothing, NothingOnTheHeap, DeadIsWiped
    <1>8. Timed
        BY <1>2, <1>4 DEF Timed, Asker
    <1> QED BY <1>5, <1>6, <1>7, <1>8 DEF Invariant, SecretsHaveOneHome

LEMMA PromptActs ==
    ASSUME Invariant, NEW p \in PromptIds,
           \/ Create(p) \/ CreateFails(p) \/ Destroy(p)
           \/ Type(p) \/ Erase(p) \/ Escape(p) \/ ClearSecret(p)
           \/ RejectUnasked(p) \/ Ask(p)
           \/ Accepted(p) \/ Rejected(p) \/ Throws(p)
    PROVE  Invariant'
    <1>1. prompt[p] \in Record /\ Spaced(prompt[p])
        BY Typed DEF Invariant, SecretsHaveOneHome, Timed
    <1>2. "Idle" \in States \ Verdicts /\ "Rejected" \in States
        BY DEF States, Verdicts
    <1>3. prompt[p].state \in States
        BY <1>1 DEF Record
    <1>4. CASE Create(p)
        BY <1>4, Creates
    <1>5. CASE CreateFails(p)
        BY <1>5, UnchangedKeeps DEF CreateFails
    <1>6. CASE Destroy(p)
        BY <1>6, Destroys
    <1>7. CASE Type(p)
        <2>1. CASE Holds(p, TRUE, "Idle")
            BY <1>2, <1>7, <2>1, Shows DEF Type
        <2>2. CASE Dirty(p) /\ Holds(p, TRUE, prompt[p].state)
            <3>1. p \in Living /\ Free /\ alive
                BY <1>7 DEF Type, Free
            <3>2. prompt[p].state \notin Verdicts
                BY <2>2, <3>1 DEF Invariant, SecretsHaveOneHome, VerdictsHoldNothing,
                                  Verdicts
            <3> QED BY <1>3, <2>2, <3>1, <3>2, Shows
        <2> QED BY <1>7, <2>1, <2>2 DEF Type
    <1>8. CASE Erase(p)
        BY <1>2, <1>8, Shows DEF Erase
    <1>9. CASE Escape(p)
        BY <1>2, <1>9, Shows DEF Escape
    <1>10. CASE ClearSecret(p)
        BY <1>3, <1>10, Shows DEF ClearSecret
    <1>11. CASE RejectUnasked(p)
        BY <1>2, <1>11, Shows DEF RejectUnasked
    <1>12. CASE Ask(p)
        BY <1>12, Asks
    <1>13. CASE Accepted(p)
        <2> DEFINE s == [prompt[p] EXCEPT !.shown = FALSE, !.state = "Accepted",
                                          !.failures = 0, !.wait = 0, !.since = 0,
                                          !.failed = 0, !.owed = 0]
        <2>1. /\ s \in Record /\ Spaced(s)
              /\ s.slot = prompt[p].slot /\ s.shown = FALSE
            BY <1>1, AcceptedFields
        <2>2. Answered(p, s)
            BY <1>13 DEF Accepted
        <2> HIDE DEF s
        <2> QED BY <2>1, <2>2, Answers
    <1>14. CASE Rejected(p)
        <2> DEFINE s == [prompt[p] EXCEPT
                           !.shown = FALSE, !.state = "Rejected",
                           !.failures = Counted(@ + 1),
                           !.wait = Delay(Counted(prompt[p].failures + 1)),
                           !.failed = @ + 1,
                           !.owed = @ + Delay(Counted(prompt[p].failed + 1))]
        <2>1. Answered(p, s)
            BY <1>14 DEF Rejected, Refused
        <2>2. prompt[p].wait = 0
            BY <2>1 DEF Answered, Invariant, Timed, Asker
        <2>3. /\ s \in Record /\ Spaced(s)
              /\ s.slot = prompt[p].slot /\ s.shown = FALSE
            BY <1>1, <2>2, RejectedFields
        <2> HIDE DEF s
        <2> QED BY <2>1, <2>3, Answers
    <1>15. CASE Throws(p)
        <2> DEFINE s == [prompt[p] EXCEPT !.shown = FALSE, !.state = "Error"]
        <2>1. /\ s \in Record /\ Spaced(s)
              /\ s.slot = prompt[p].slot /\ s.shown = FALSE
            BY <1>1 DEF Record, Spaced, States
        <2>2. Answered(p, s)
            BY <1>15 DEF Throws
        <2> HIDE DEF s
        <2> QED BY <2>1, <2>2, Answers
    <1> QED BY <1>4, <1>5, <1>6, <1>7, <1>8, <1>9, <1>10, <1>11, <1>12, <1>13, <1>14,
               <1>15

LEMMA InvariantNext == Invariant /\ [PromptNext]_promptVars => Invariant'
    <1> SUFFICES ASSUME Invariant, [PromptNext]_promptVars PROVE Invariant'
        OBVIOUS
    <1>1. CASE Converse
        <2>1. heap' = heap
            <3>1. heap \in Nat
                BY DEF Invariant, SecretsHaveOneHome, PromptTypeOK
            <3>2. \E messages \in Messages, oom \in 0..MaxMessages :
                    heap' = heap + Leaked(messages, oom)
                BY <1>1 DEF Converse
            <3> QED BY <3>1, <3>2, NothingLeaks
        <2> QED BY <1>1, <2>1, UnchangedKeeps DEF Converse, promptVars
    <1>2. CASE \E p \in PromptIds :
                 \/ Create(p) \/ CreateFails(p) \/ Destroy(p)
                 \/ Type(p) \/ Erase(p) \/ Escape(p) \/ ClearSecret(p)
                 \/ RejectUnasked(p) \/ Ask(p)
                 \/ Accepted(p) \/ Rejected(p) \/ Throws(p)
        BY <1>2, PromptActs
    <1> QED BY <1>1, <1>2, Quits, Ticks, Signals, UnchangedKeeps DEF PromptNext

\* What the two theorems below need: slots, verdicts and delays, whatever the
\* order of the steps.
THEOREM InvariantHolds == PromptSpec => []Invariant
    BY InvariantInit, InvariantNext, PTL DEF PromptSpec

---------------------------------------------------------------------------
(* SecretBuffer: numbers                                                   *)

\* Among numbers there is a least one.
LEMMA LeastNumber ==
    ASSUME NEW T \in SUBSET Nat, T # {}
    PROVE  \E x \in T : \A y \in T : x <= y
    <1> DEFINE R == OpToRel(<, Nat)
    <1>1. IsWellFoundedOn(R, Nat)
        BY NatLessThanWellFounded
    <1>2. ASSUME NEW x \in Nat, NEW y \in Nat, y < x PROVE <<y, x>> \in R
        BY <1>2 DEF OpToRel
    <1> HIDE DEF R
    <1>3. PICK x \in T : \A y \in T : ~ (<<y, x>> \in R)
        BY <1>1, WFMin
    <1>4. ASSUME NEW y \in T PROVE x <= y
        <2>1. ~ (y < x)
            BY <1>2, <1>3
        <2> QED BY <2>1
    <1> QED BY <1>4

\* Numbers without a least one that is missing are all of them.
LEMMA EveryNumber ==
    ASSUME NEW P \in SUBSET Nat, 0 \in P, \A n \in P : n + 1 \in P
    PROVE  P = Nat
    <1> SUFFICES ASSUME Nat \ P # {} PROVE FALSE
        OBVIOUS
    <1>1. PICK x \in Nat \ P : \A y \in Nat \ P : x <= y
        BY LeastNumber
    <1>2. x - 1 \in P
        BY <1>1
    <1> QED BY <1>2

---------------------------------------------------------------------------
(* SecretBuffer: counting                                                  *)

\* f adds up what the first characters of t count for, up to n of them.
AddsUp(f, t, w, n) ==
    /\ f \in [0 .. n -> Nat] /\ f[0] = 0
    /\ \A k \in 1 .. n : f[k] = f[k - 1] + w[t[k]]

LEMMA OneMoreAddsUp ==
    ASSUME NEW t \in Seq(Chars), NEW w \in [Chars -> Nat], NEW n \in Nat, n + 1 <= Len(t),
           NEW f, AddsUp(f, t, w, n)
    PROVE  \E g : AddsUp(g, t, w, n + 1)
    <1>1. w[t[n + 1]] \in Nat
        OBVIOUS
    <1> DEFINE g == [k \in 0 .. n + 1 |-> IF k <= n THEN f[k] ELSE f[n] + w[t[n + 1]]]
    <1>2. g \in [0 .. n + 1 -> Nat] /\ g[0] = 0
        BY <1>1 DEF AddsUp
    <1>3. ASSUME NEW k \in 1 .. n + 1 PROVE g[k] = g[k - 1] + w[t[k]]
        <2>1. CASE k <= n
            BY <2>1 DEF AddsUp
        <2>2. CASE k = n + 1
            BY <2>2
        <2> QED BY <2>1, <2>2
    <1>4. AddsUp(g, t, w, n + 1)
        BY <1>2, <1>3 DEF AddsUp
    <1> QED BY <1>4

\* What the characters up to each add up to
LEMMA SumsAre ==
    ASSUME NEW t \in Seq(Chars), NEW w \in [Chars -> Nat]
    PROVE  /\ Sums(t, w) \in [0 .. Len(t) -> Nat] /\ Sums(t, w)[0] = 0
           /\ \A n \in 1 .. Len(t) : Sums(t, w)[n] = Sums(t, w)[n - 1] + w[t[n]]
    <1>0. Len(t) \in Nat
        OBVIOUS
    <1> DEFINE P == {n \in Nat : n <= Len(t) => \E f : AddsUp(f, t, w, n)}
    <1>1. 0 \in P
        <2>1. AddsUp([k \in 0 .. 0 |-> 0], t, w, 0)
            BY DEF AddsUp
        <2> QED BY <2>1
    <1>2. ASSUME NEW n \in P PROVE n + 1 \in P
        <2>1. n \in Nat /\ n + 1 \in Nat /\ (n + 1 <= Len(t) => n <= Len(t))
            OBVIOUS
        <2>2. ASSUME n + 1 <= Len(t) PROVE \E f : AddsUp(f, t, w, n + 1)
            <3>1. PICK f : AddsUp(f, t, w, n)
                BY <2>1, <2>2
            <3> QED BY <2>1, <2>2, <3>1, OneMoreAddsUp
        <2> QED BY <2>1, <2>2
    <1>3. P = Nat
        <2> HIDE DEF P
        <2>1. P \in SUBSET Nat
            BY DEF P
        <2> QED BY <1>1, <1>2, <2>1, EveryNumber
    <1>4. \A n \in Nat : n <= Len(t) => \E f : AddsUp(f, t, w, n)
        BY <1>3
    <1>5. PICK f : AddsUp(f, t, w, Len(t))
        BY <1>0, <1>4
    <1>6. f = [n \in 0 .. Len(t) |-> IF n = 0 THEN 0 ELSE f[n - 1] + w[t[n]]]
        BY <1>5 DEF AddsUp
    <1> DEFINE g == Sums(t, w)
    <1>7. g = [n \in 0 .. Len(t) |-> IF n = 0 THEN 0 ELSE g[n - 1] + w[t[n]]]
        BY <1>6 DEF Sums
    <1> HIDE DEF g, P
    <1> DEFINE Q == {n \in Nat : n <= Len(t) => g[n] \in Nat}
    <1>8. 0 \in Q
        BY <1>7
    <1>9. ASSUME NEW n \in Q PROVE n + 1 \in Q
        <2>1. n \in Nat /\ n + 1 \in Nat /\ (n <= Len(t) => g[n] \in Nat)
            OBVIOUS
        <2>2. ASSUME n + 1 <= Len(t) PROVE g[n + 1] \in Nat
            <3>1. w[t[n + 1]] \in Nat
                BY <2>1, <2>2
            <3>2. g[n + 1] = g[n] + w[t[n + 1]]
                BY <1>7, <2>1, <2>2
            <3> QED BY <2>1, <2>2, <3>1, <3>2
        <2> QED BY <2>1, <2>2
    <1>10. Q = Nat
        <2> HIDE DEF Q
        <2>1. Q \in SUBSET Nat
            BY DEF Q
        <2> QED BY <1>8, <1>9, <2>1, EveryNumber
    <1>11. \A n \in 0 .. Len(t) : g[n] \in Nat
        BY <1>10
    <1> HIDE DEF Q
    <1>12. g \in [0 .. Len(t) -> Nat] /\ g[0] = 0
        BY <1>7, <1>11
    <1>13. \A n \in 1 .. Len(t) : g[n] = g[n - 1] + w[t[n]]
        BY <1>0, <1>7
    <1> QED BY <1>12, <1>13 DEF g

\* After its first p characters s has those of t.
Continues(s, t, p) ==
    p + Len(t) <= Len(s) /\ \A k \in 1 .. Len(t) : s[p + k] = t[k]

\* Where two texts have the same characters, they add up to the same.
LEMMA SumsOfParts ==
    ASSUME NEW s \in Seq(Chars), NEW t \in Seq(Chars), NEW w \in [Chars -> Nat],
           NEW p \in Nat, Continues(s, t, p)
    PROVE  \A k \in 0 .. Len(t) : Sums(s, w)[p + k] = Sums(s, w)[p] + Sums(t, w)[k]
    <1>1. PICK f : f = Sums(s, w)
        OBVIOUS
    <1>2. PICK g : g = Sums(t, w)
        OBVIOUS
    <1>3. Len(s) \in Nat /\ Len(t) \in Nat /\ p + Len(t) <= Len(s)
        BY DEF Continues
    <1>4. f \in [0 .. Len(s) -> Nat] /\ g \in [0 .. Len(t) -> Nat] /\ g[0] = 0
        BY <1>1, <1>2, SumsAre
    <1>5. /\ \A n \in 1 .. Len(s) : f[n] = f[n - 1] + w[s[n]]
          /\ \A n \in 1 .. Len(t) : g[n] = g[n - 1] + w[t[n]]
        BY <1>1, <1>2, SumsAre
    <1>6. ASSUME NEW k \in 0 .. Len(t) PROVE f[p + k] \in Nat /\ g[k] \in Nat
        <2>1. p + k \in 0 .. Len(s)
            BY <1>3
        <2> QED BY <1>4, <2>1
    <1> DEFINE P == {k \in Nat : k <= Len(t) => f[p + k] = f[p] + g[k]}
    <1>7. 0 \in P
        <2>1. p + 0 = p /\ 0 \in 0 .. Len(t)
            BY <1>3
        <2>2. f[p] \in Nat
            BY <1>6, <2>1
        <2>3. f[p + 0] = f[p] + g[0]
            BY <1>4, <2>1, <2>2
        <2> QED BY <2>3
    <1>8. ASSUME NEW k \in P PROVE k + 1 \in P
        <2>1. k \in Nat /\ k + 1 \in Nat /\ (k <= Len(t) => f[p + k] = f[p] + g[k])
            OBVIOUS
        <2> HIDE DEF P
        <2>2. ASSUME k + 1 <= Len(t) PROVE f[p + (k + 1)] = f[p] + g[k + 1]
            <3>1. /\ p + (k + 1) \in 1 .. Len(s) /\ p + (k + 1) - 1 = p + k
                  /\ k + 1 \in 1 .. Len(t) /\ k + 1 - 1 = k /\ k \in 0 .. Len(t)
                BY <1>3, <2>1, <2>2
            <3>2. s[p + (k + 1)] = t[k + 1] /\ t[k + 1] \in Chars
                <4>1. PICK x \in 1 .. Len(t) : x = k + 1
                    BY <3>1
                <4>2. s[p + x] = t[x]
                    BY DEF Continues
                <4>3. t[x] \in Chars
                    OBVIOUS
                <4> QED BY <4>1, <4>2, <4>3
            <3>3. f[p + (k + 1)] = f[p + k] + w[t[k + 1]]
                <4>1. PICK x \in 1 .. Len(s) : x = p + (k + 1) /\ x - 1 = p + k
                    BY <3>1
                <4>2. f[x] = f[x - 1] + w[s[x]]
                    BY <1>5, <4>1
                <4> QED BY <3>2, <4>1, <4>2
            <3>4. g[k + 1] = g[k] + w[t[k + 1]]
                <4>1. PICK x \in 1 .. Len(t) : x = k + 1 /\ x - 1 = k
                    BY <3>1
                <4>2. g[x] = g[x - 1] + w[t[x]]
                    BY <1>5, <4>1
                <4> QED BY <4>1, <4>2
            <3>5. w[t[k + 1]] \in Nat
                BY <3>2
            <3>6. f[p + k] \in Nat /\ g[k] \in Nat /\ f[p] \in Nat
                <4>1. p + 0 = p /\ 0 \in 0 .. Len(t)
                    BY <1>3
                <4> QED BY <1>6, <3>1, <4>1
            <3>7. f[p + k] = f[p] + g[k]
                BY <1>3, <2>1, <2>2
            <3> QED BY <3>3, <3>4, <3>5, <3>6, <3>7
        <2> QED BY <2>1, <2>2 DEF P
    <1>9. P = Nat
        <2> HIDE DEF P
        <2>1. P \in SUBSET Nat
            BY DEF P
        <2> QED BY <1>7, <1>8, <2>1, EveryNumber
    <1>10. \A k \in Nat : k <= Len(t) => f[p + k] = f[p] + g[k]
        BY <1>9
    <1> HIDE DEF P
    <1>11. \A k \in 0 .. Len(t) : k \in Nat /\ k <= Len(t)
        BY <1>3
    <1> QED BY <1>1, <1>2, <1>10, <1>11

\* If everything counts, more counts more.
LEMMA SumsGrow ==
    ASSUME NEW t \in Seq(Chars), NEW w \in [Chars -> Nat \ {0}],
           NEW i \in 0 .. Len(t), NEW j \in 0 .. Len(t), i <= j
    PROVE  Sums(t, w)[i] + (j - i) <= Sums(t, w)[j]
    <1>1. PICK f : f = Sums(t, w)
        OBVIOUS
    <1>2. Len(t) \in Nat /\ i \in Nat /\ j \in Nat /\ w \in [Chars -> Nat]
        OBVIOUS
    <1>3. f \in [0 .. Len(t) -> Nat]
        BY <1>1, <1>2, SumsAre
    <1>4. \A n \in 1 .. Len(t) : f[n] = f[n - 1] + w[t[n]]
        BY <1>1, <1>2, SumsAre
    <1> DEFINE P == {n \in Nat : i + n <= Len(t) => f[i] + n <= f[i + n]}
    <1>5. 0 \in P
        <2>1. f[i] \in Nat /\ i + 0 = i
            BY <1>2, <1>3
        <2>2. f[i] + 0 <= f[i + 0]
            BY <2>1
        <2> QED BY <2>2
    <1>6. ASSUME NEW n \in P PROVE n + 1 \in P
        <2>1. n \in Nat /\ n + 1 \in Nat /\ (i + n <= Len(t) => f[i] + n <= f[i + n])
            OBVIOUS
        <2> HIDE DEF P
        <2>2. ASSUME i + (n + 1) <= Len(t) PROVE f[i] + (n + 1) <= f[i + (n + 1)]
            <3>1. i + (n + 1) \in 1 .. Len(t) /\ i + (n + 1) - 1 = i + n
                BY <1>2, <2>1, <2>2
            <3>2. t[i + (n + 1)] \in Chars
                BY <3>1
            <3>3. w[t[i + (n + 1)]] \in Nat \ {0}
                BY <3>2
            <3>4. f[i + (n + 1)] = f[i + n] + w[t[i + (n + 1)]]
                <4>1. PICK x \in 1 .. Len(t) : x = i + (n + 1) /\ x - 1 = i + n
                    BY <2>1, <3>1
                <4>2. f[x] = f[x - 1] + w[t[x]]
                    BY <1>4, <4>1
                <4> QED BY <4>1, <4>2
            <3>5. i + n \in 0 .. Len(t)
                BY <1>2, <2>1, <2>2
            <3>6. f[i] \in Nat /\ f[i + n] \in Nat
                BY <1>3, <3>5
            <3>7. f[i] + n <= f[i + n]
                BY <2>1, <3>5
            <3>8. PICK x \in Nat, y \in Nat, z \in Nat \ {0} :
                      x = f[i] /\ y = f[i + n] /\ z = w[t[i + (n + 1)]]
                BY <3>3, <3>6
            <3>9. x + n <= y /\ f[i + (n + 1)] = y + z
                BY <3>4, <3>7, <3>8
            <3>10. x + (n + 1) <= y + z
                BY <2>1, <3>9
            <3> QED BY <3>8, <3>9, <3>10
        <2> QED BY <2>1, <2>2 DEF P
    <1>7. P = Nat
        <2> HIDE DEF P
        <2>1. P \in SUBSET Nat
            BY DEF P
        <2> QED BY <1>5, <1>6, <2>1, EveryNumber
    <1>8. \A n \in Nat : i + n <= Len(t) => f[i] + n <= f[i + n]
        BY <1>7
    <1> HIDE DEF P
    <1>9. j - i \in Nat /\ i + (j - i) = j /\ j <= Len(t)
        BY <1>2
    <1>10. f[i] + (j - i) <= f[j]
        BY <1>8, <1>9
    <1> QED BY <1>1, <1>10

---------------------------------------------------------------------------
(* SecretBuffer: texts                                                     *)

LEMMA CharactersCount ==
    /\ Width \in [Chars -> Nat \ {0}] /\ Width \in [Chars -> Nat]
    /\ Units \in [Chars -> Nat \ {0}] /\ Units \in [Chars -> Nat]
    /\ \A c \in Chars : Width[c] \in 1 .. 4 /\ Units[c] = IF Width[c] = 4 THEN 2 ELSE 1
    <1>1. Width \in [Chars -> 1 .. 4]
        BY BufferAssumption
    <1>2. \A c \in Chars : Width[c] \in 1 .. 4
        BY <1>1
    <1> QED BY <1>1, <1>2 DEF Units

\* Two texts, one after the other
LEMMA SumsJoin ==
    ASSUME NEW s \in Seq(Chars), NEW t \in Seq(Chars), NEW w \in [Chars -> Nat]
    PROVE  /\ s \o t \in Seq(Chars) /\ Len(s \o t) = Len(s) + Len(t)
           /\ Len(s) \in Nat /\ Len(t) \in Nat
           /\ \A k \in 0 .. Len(s) : Sums(s \o t, w)[k] = Sums(s, w)[k]
           /\ \A k \in 0 .. Len(t) : Sums(s \o t, w)[Len(s) + k] = Sums(s, w)[Len(s)] + Sums(t, w)[k]
    <1>1. s \o t \in Seq(Chars) /\ Len(s \o t) = Len(s) + Len(t) /\ Len(s) \in Nat /\ Len(t) \in Nat
        OBVIOUS
    <1>2. PICK j : j = s \o t
        OBVIOUS
    <1>3. j \in Seq(Chars) /\ Len(j) = Len(s) + Len(t)
        BY <1>1, <1>2
    <1>4. Continues(j, s, 0)
        <2>1. \A k \in 1 .. Len(s) : j[k] = s[k] /\ 0 + k = k
            BY <1>2
        <2>2. 0 + Len(s) <= Len(j)
            BY <1>1, <1>3
        <2> QED BY <2>1, <2>2 DEF Continues
    <1>5. Continues(j, t, Len(s))
        <2>1. \A k \in 1 .. Len(t) : j[Len(s) + k] = t[k]
            BY <1>2
        <2> QED BY <1>1, <1>3, <2>1 DEF Continues
    <1>6. \A k \in 0 .. Len(s) : Sums(j, w)[k] = Sums(s, w)[k]
        <2>1. 0 \in Nat /\ Sums(j, w)[0] = 0 /\ Sums(s, w) \in [0 .. Len(s) -> Nat]
            BY <1>3, SumsAre
        <2>2. \A k \in 0 .. Len(s) : Sums(j, w)[0 + k] = Sums(j, w)[0] + Sums(s, w)[k]
            BY <1>3, <1>4, <2>1, SumsOfParts
        <2>3. ASSUME NEW k \in 0 .. Len(s) PROVE Sums(j, w)[k] = Sums(s, w)[k]
            <3>1. 0 + k = k /\ Sums(s, w)[k] \in Nat
                BY <1>1, <2>1
            <3>2. Sums(j, w)[k] = 0 + Sums(s, w)[k]
                BY <2>1, <2>2, <3>1
            <3> QED BY <3>1, <3>2
        <2> QED BY <2>3
    <1>7. \A k \in 0 .. Len(t) : Sums(j, w)[Len(s) + k] = Sums(s, w)[Len(s)] + Sums(t, w)[k]
        <2>1. \A k \in 0 .. Len(t) : Sums(j, w)[Len(s) + k] = Sums(j, w)[Len(s)] + Sums(t, w)[k]
            <3>1. PICK p \in Nat : p = Len(s)
                BY <1>1
            <3>2. j \in Seq(Chars) /\ Continues(j, t, p)
                BY <1>3, <1>5, <3>1
            <3>3. \A k \in 0 .. Len(t) : Sums(j, w)[p + k] = Sums(j, w)[p] + Sums(t, w)[k]
                BY <3>2, SumsOfParts
            <3> QED BY <3>1, <3>3
        <2>2. Sums(j, w)[Len(s)] = Sums(s, w)[Len(s)]
            BY <1>1, <1>6
        <2> QED BY <2>1, <2>2
    <1> QED BY <1>1, <1>2, <1>6, <1>7

\* A text of one character
LEMMA OneCounts ==
    ASSUME NEW c \in Chars, NEW w \in [Chars -> Nat]
    PROVE  /\ <<c>> \in Seq(Chars) /\ Len(<<c>>) = 1 /\ <<c>>[1] = c
           /\ Sums(<<c>>, w)[0] = 0 /\ Sums(<<c>>, w)[1] = w[c]
    <1>1. <<c>> \in Seq(Chars) /\ Len(<<c>>) = 1 /\ <<c>>[1] = c
        OBVIOUS
    <1>2. PICK t : t = <<c>>
        OBVIOUS
    <1>3. t \in Seq(Chars) /\ Len(t) = 1 /\ t[1] = c
        BY <1>1, <1>2
    <1>4. /\ Sums(t, w)[0] = 0
          /\ \A n \in 1 .. Len(t) : Sums(t, w)[n] = Sums(t, w)[n - 1] + w[t[n]]
        BY <1>3, SumsAre
    <1>5. Sums(t, w)[1] = 0 + w[c]
        <2>1. PICK x \in 1 .. Len(t) : x = 1 /\ x - 1 = 0
            BY <1>3
        <2>2. Sums(t, w)[x] = Sums(t, w)[x - 1] + w[t[x]]
            BY <1>4, <2>1
        <2> QED BY <1>3, <1>4, <2>1, <2>2
    <1>6. w[c] \in Nat
        OBVIOUS
    <1> QED BY <1>1, <1>2, <1>4, <1>5, <1>6

LEMMA TextsAssociate ==
    ASSUME NEW s \in Seq(Chars), NEW t \in Seq(Chars), NEW u \in Seq(Chars)
    PROVE  (s \o t) \o u = s \o (t \o u)
    BY ConcatAssociative

LEMMA TotalsJoin ==
    ASSUME NEW s \in Seq(Chars), NEW t \in Seq(Chars)
    PROVE  /\ BytesOf(s) \in Nat /\ UnitsOf(s) \in Nat
           /\ BytesOf(s \o t) = BytesOf(s) + BytesOf(t)
           /\ UnitsOf(s \o t) = UnitsOf(s) + UnitsOf(t)
    <1>1. Len(s) \in 0 .. Len(s) /\ Len(t) \in 0 .. Len(t)
        OBVIOUS
    <1>2. /\ Len(s \o t) = Len(s) + Len(t)
          /\ Sums(s \o t, Width)[Len(s) + Len(t)]
                 = Sums(s, Width)[Len(s)] + Sums(t, Width)[Len(t)]
        <2>1. Width \in [Chars -> Nat]
            BY CharactersCount
        <2> QED BY <1>1, <2>1, SumsJoin
    <1>3. Sums(s \o t, Units)[Len(s) + Len(t)]
              = Sums(s, Units)[Len(s)] + Sums(t, Units)[Len(t)]
        <2>1. Units \in [Chars -> Nat]
            BY CharactersCount
        <2> QED BY <1>1, <2>1, SumsJoin
    <1>4. Sums(s, Width)[Len(s)] \in Nat /\ Sums(s, Units)[Len(s)] \in Nat
        BY <1>1, CharactersCount, SumsAre
    <1> QED BY <1>2, <1>3, <1>4 DEF BytesOf, UnitsOf, Offsets

LEMMA TotalsOfFew ==
    /\ BytesOf(<<>>) = 0 /\ UnitsOf(<<>>) = 0
    /\ \A c \in Chars : BytesOf(<<c>>) = Width[c] /\ UnitsOf(<<c>>) = Units[c]
    <1>1. <<>> \in Seq(Chars) /\ Len(<<>>) = 0
        OBVIOUS
    <1>2. Sums(<<>>, Width)[0] = 0 /\ Sums(<<>>, Units)[0] = 0
        BY <1>1, CharactersCount, SumsAre
    <1>3. ASSUME NEW c \in Chars
          PROVE  Sums(<<c>>, Width)[1] = Width[c] /\ Sums(<<c>>, Units)[1] = Units[c] /\ Len(<<c>>) = 1
        BY CharactersCount, OneCounts
    <1> QED BY <1>1, <1>2, <1>3 DEF BytesOf, UnitsOf, Offsets

\* The bytes of bs after base are those of t, one character after the other.
LaidOut(bs, t, base) ==
    \A i \in 1 .. Len(t) : \A k \in 1 .. Width[t[i]] : bs[base + Offsets(t)[i - 1] + k] = <<t[i], k>>

\* Where the bytes of a character are
LEMMA WhereBytesAre ==
    ASSUME NEW t \in Seq(Chars), NEW i \in 1 .. Len(t), NEW k \in 1 .. Width[t[i]]
    PROVE  /\ Offsets(t)[i - 1] \in Nat /\ k \in 1 .. 4
           /\ Offsets(t)[i - 1] + k \in 1 .. BytesOf(t)
    <1>1. PICK f : f = Offsets(t)
        OBVIOUS
    <1>2. /\ Len(t) \in Nat /\ i - 1 \in 0 .. Len(t) /\ i \in 0 .. Len(t) /\ Len(t) \in 0 .. Len(t)
          /\ t[i] \in Chars /\ i <= Len(t)
        OBVIOUS
    <1>3. Width[t[i]] \in 1 .. 4
        BY <1>2, CharactersCount
    <1>4. f \in [0 .. Len(t) -> Nat]
        BY <1>1, CharactersCount, SumsAre DEF Offsets
    <1>5. f[i - 1] \in Nat /\ f[i] \in Nat /\ f[Len(t)] \in Nat
        BY <1>2, <1>4
    <1>6. f[i] = f[i - 1] + Width[t[i]]
        BY <1>1, CharactersCount, SumsAre DEF Offsets
    <1>7. f[i] + (Len(t) - i) <= f[Len(t)]
        BY <1>1, <1>2, CharactersCount, SumsGrow DEF Offsets
    <1>8. f[i] <= f[Len(t)]
        BY <1>2, <1>5, <1>7
    <1>9. f[i - 1] + k \in 1 .. f[Len(t)]
        <2>1. k \in Nat /\ 1 <= k /\ k <= Width[t[i]] /\ Width[t[i]] \in Nat
            BY <1>3
        <2> QED BY <1>5, <1>6, <1>8, <2>1
    <1> QED BY <1>1, <1>3, <1>5, <1>9 DEF BytesOf

\* A text that is moved or not touched is the text it was.
LEMMA MovedText ==
    ASSUME NEW t \in Seq(Chars), NEW bs, NEW cs, NEW base \in Nat, NEW there \in Nat,
           LaidOut(bs, t, base),
           \A n \in 1 .. BytesOf(t) : cs[there + n] = bs[base + n]
    PROVE  LaidOut(cs, t, there)
    <1> SUFFICES ASSUME NEW i \in 1 .. Len(t), NEW k \in 1 .. Width[t[i]]
                 PROVE  cs[there + Offsets(t)[i - 1] + k] = <<t[i], k>>
        BY DEF LaidOut
    <1>1. PICK o : o = Offsets(t)[i - 1]
        OBVIOUS
    <1>2. o \in Nat /\ k \in Nat /\ o + k \in 1 .. BytesOf(t)
        BY <1>1, WhereBytesAre
    <1>3. there + o + k = there + (o + k) /\ base + o + k = base + (o + k)
        BY <1>2
    <1>4. cs[there + (o + k)] = bs[base + (o + k)]
        BY <1>2
    <1>5. bs[base + o + k] = <<t[i], k>>
        BY <1>1 DEF LaidOut
    <1> QED BY <1>1, <1>3, <1>4, <1>5

LEMMA TextsJoin ==
    ASSUME NEW s \in Seq(Chars), NEW t \in Seq(Chars), NEW bs, NEW base \in Nat
    PROVE  LaidOut(bs, s \o t, base) <=> LaidOut(bs, s, base) /\ LaidOut(bs, t, base + BytesOf(s))
    <1>1. PICK j : j = s \o t
        OBVIOUS
    <1>2. /\ j \in Seq(Chars) /\ Len(j) = Len(s) + Len(t)
          /\ Len(s) \in Nat /\ Len(t) \in Nat
          /\ \A k \in 0 .. Len(s) : Offsets(j)[k] = Offsets(s)[k]
          /\ \A k \in 0 .. Len(t) : Offsets(j)[Len(s) + k] = BytesOf(s) + Offsets(t)[k]
        BY <1>1, CharactersCount, SumsJoin DEF Offsets, BytesOf
    <1>3. ASSUME NEW i \in 1 .. Len(s)
          PROVE  i \in 1 .. Len(j) /\ j[i] = s[i] /\ Offsets(j)[i - 1] = Offsets(s)[i - 1]
        <2>1. i \in 1 .. Len(j) /\ i - 1 \in 0 .. Len(s)
            BY <1>2
        <2>2. j[i] = s[i]
            BY <1>1
        <2> QED BY <1>2, <2>1, <2>2
    <1>4. ASSUME NEW i \in 1 .. Len(t)
          PROVE  /\ Len(s) + i \in 1 .. Len(j) /\ j[Len(s) + i] = t[i]
                 /\ Offsets(j)[Len(s) + i - 1] = BytesOf(s) + Offsets(t)[i - 1]
        <2>1. Len(s) + i \in 1 .. Len(j) /\ i - 1 \in 0 .. Len(t) /\ Len(s) + i - 1 = Len(s) + (i - 1)
            BY <1>2
        <2>2. j[Len(s) + i] = t[i]
            BY <1>1
        <2>3. Offsets(j)[Len(s) + (i - 1)] = BytesOf(s) + Offsets(t)[i - 1]
            BY <1>2, <2>1
        <2> QED BY <2>1, <2>2, <2>3
    <1>5. BytesOf(s) \in Nat
        BY TotalsJoin
    <1>6. ASSUME LaidOut(bs, j, base) PROVE LaidOut(bs, s, base)
        <2> SUFFICES ASSUME NEW i \in 1 .. Len(s), NEW k \in 1 .. Width[s[i]]
                     PROVE  bs[base + Offsets(s)[i - 1] + k] = <<s[i], k>>
            BY DEF LaidOut
        <2>1. i \in 1 .. Len(j) /\ j[i] = s[i] /\ Offsets(j)[i - 1] = Offsets(s)[i - 1]
            BY <1>3
        <2>2. bs[base + Offsets(j)[i - 1] + k] = <<j[i], k>>
            BY <1>6, <2>1 DEF LaidOut
        <2> QED BY <2>1, <2>2
    <1>7. ASSUME LaidOut(bs, j, base) PROVE LaidOut(bs, t, base + BytesOf(s))
        <2> SUFFICES ASSUME NEW i \in 1 .. Len(t), NEW k \in 1 .. Width[t[i]]
                     PROVE  bs[base + BytesOf(s) + Offsets(t)[i - 1] + k] = <<t[i], k>>
            BY DEF LaidOut
        <2>1. /\ Len(s) + i \in 1 .. Len(j) /\ j[Len(s) + i] = t[i]
              /\ Offsets(j)[Len(s) + i - 1] = BytesOf(s) + Offsets(t)[i - 1]
            BY <1>4
        <2>2. bs[base + Offsets(j)[Len(s) + i - 1] + k] = <<j[Len(s) + i], k>>
            <3>1. PICK x \in 1 .. Len(j) : x = Len(s) + i
                BY <2>1
            <3>2. k \in 1 .. Width[j[x]]
                BY <2>1, <3>1
            <3>3. bs[base + Offsets(j)[x - 1] + k] = <<j[x], k>>
                BY <1>7, <3>1, <3>2 DEF LaidOut
            <3> QED BY <3>1, <3>3
        <2>3. Offsets(t)[i - 1] \in Nat /\ k \in Nat
            BY WhereBytesAre
        <2>4. base + (BytesOf(s) + Offsets(t)[i - 1]) + k = base + BytesOf(s) + Offsets(t)[i - 1] + k
            BY <1>5, <2>3
        <2> QED BY <2>1, <2>2, <2>4
    <1>8. ASSUME LaidOut(bs, s, base), LaidOut(bs, t, base + BytesOf(s)) PROVE LaidOut(bs, j, base)
        <2> SUFFICES ASSUME NEW n \in 1 .. Len(j), NEW k \in 1 .. Width[j[n]]
                     PROVE  bs[base + Offsets(j)[n - 1] + k] = <<j[n], k>>
            BY DEF LaidOut
        <2>1. CASE n \in 1 .. Len(s)
            <3>1. j[n] = s[n] /\ Offsets(j)[n - 1] = Offsets(s)[n - 1]
                BY <1>3, <2>1
            <3>2. bs[base + Offsets(s)[n - 1] + k] = <<s[n], k>>
                BY <1>8, <2>1, <3>1 DEF LaidOut
            <3> QED BY <3>1, <3>2
        <2>2. CASE n \notin 1 .. Len(s)
            <3>1. PICK i \in 1 .. Len(t) : n = Len(s) + i
                <4>1. n - Len(s) \in 1 .. Len(t) /\ n = Len(s) + (n - Len(s))
                    BY <1>2, <2>2
                <4> QED BY <4>1
            <3>2. j[n] = t[i] /\ Offsets(j)[n - 1] = BytesOf(s) + Offsets(t)[i - 1]
                BY <1>4, <3>1
            <3>3. k \in 1 .. Width[t[i]]
                BY <3>2
            <3>4. bs[base + BytesOf(s) + Offsets(t)[i - 1] + k] = <<t[i], k>>
                BY <1>8, <3>1, <3>3 DEF LaidOut
            <3>5. Offsets(t)[i - 1] \in Nat /\ k \in Nat
                BY <3>1, <3>3, WhereBytesAre
            <3>6. base + (BytesOf(s) + Offsets(t)[i - 1]) + k = base + BytesOf(s) + Offsets(t)[i - 1] + k
                BY <1>5, <3>5
            <3> QED BY <3>2, <3>4, <3>6
        <2> QED BY <2>1, <2>2
    <1> QED BY <1>1, <1>6, <1>7, <1>8

LEMMA OneIsLaidOut ==
    ASSUME NEW c \in Chars, NEW bs, NEW base \in Nat
    PROVE  LaidOut(bs, <<c>>, base) <=> \A k \in 1 .. Width[c] : bs[base + k] = <<c, k>>
    <1>1. PICK t : t = <<c>>
        OBVIOUS
    <1>2. Len(t) = 1 /\ t[1] = c /\ Offsets(t)[0] = 0
        BY <1>1, CharactersCount, OneCounts DEF Offsets
    <1>3. \A i \in 1 .. Len(t) : i = 1 /\ i - 1 = 0
        BY <1>2
    <1>4. 1 \in 1 .. Len(t)
        BY <1>2
    <1>5. \A k \in 1 .. Width[c] : base + 0 + k = base + k
        OBVIOUS
    <1>6. LaidOut(bs, t, base) <=> \A k \in 1 .. Width[t[1]] : bs[base + Offsets(t)[1 - 1] + k] = <<t[1], k>>
        BY <1>3, <1>4 DEF LaidOut
    <1>7. 1 - 1 = 0
        OBVIOUS
    <1> QED BY <1>1, <1>2, <1>5, <1>6, <1>7

---------------------------------------------------------------------------
(* SecretBuffer: the buffer                                                *)

ByteValues == {Zero} \cup {<<c, k>> : c \in Chars, k \in 1 .. 4}

ZeroAfter(b) ==
    b.size <= Capacity /\ \A i \in (b.size + 1) .. Capacity : b.bytes[i] = Zero

\* The buffer has this text, counts it, and has nothing else.
IsText(b, t) ==
    /\ b.bytes \in [1 .. Capacity -> ByteValues]
    /\ b.size = BytesOf(t)
    /\ LaidOut(b.bytes, t, 0)
    /\ b.points = Len(t) /\ b.units = UnitsOf(t)
    /\ ZeroAfter(b)

\* What insertAt makes of a buffer for one character
Widened(b, c, at) ==
    [bytes |-> WithCharacter(b, c, at), size |-> b.size + Width[c],
     points |-> b.points + 1, units |-> b.units + Units[c]]

\* cs are the bytes of b with the w bytes of c after m of them.
BytesWidened(cs, b, c, m, n, w) ==
    /\ cs \in [1 .. Capacity -> ByteValues]
    /\ \A i \in 1 .. m : cs[0 + i] = b.bytes[0 + i]
    /\ \A k \in 1 .. w : cs[m + k] = <<c, k>>
    /\ \A i \in 1 .. n : cs[m + w + i] = b.bytes[m + i]
    /\ \A i \in (m + n + w + 1) .. Capacity : cs[i] = Zero

\* The bytes after one was inserted at an offset between two texts
LEMMA WidenedBytes ==
    ASSUME NEW b, NEW c \in Chars, NEW m \in Nat, NEW n \in Nat,
           b.bytes \in [1 .. Capacity -> ByteValues], b.size = m + n,
           Room(b, c), ZeroAfter(b)
    PROVE  BytesWidened(WithCharacter(b, c, m), b, c, m, n, Width[c])
    <1>1. PICK w \in 1 .. 4 : w = Width[c]
        BY CharactersCount
    <1>2. PICK cs : cs = WithCharacter(b, c, m)
        OBVIOUS
    <1>3. PICK bs : bs = b.bytes
        OBVIOUS
    <1>4. cs = [i \in 1 .. Capacity |->
                   IF i <= m \/ i > m + n + w THEN bs[i]
                   ELSE IF i <= m + w THEN <<c, i - m>> ELSE bs[i - w]]
        BY <1>1, <1>2, <1>3 DEF WithCharacter
    <1>5. Capacity \in Nat /\ w \in Nat /\ m + n + w <= Capacity
        BY <1>1, BufferAssumption DEF Room
    <1>6. ASSUME NEW i \in 1 .. Capacity PROVE cs[i] \in ByteValues
        <2>1. bs[i] \in ByteValues
            BY <1>3
        <2>2. CASE i <= m \/ i > m + n + w
            BY <1>4, <2>1, <2>2
        <2>3. CASE ~ (i <= m \/ i > m + n + w) /\ i <= m + w
            <3>1. i - m \in 1 .. 4
                <4>1. i \in Nat /\ i > m /\ i <= m + w /\ w <= 4
                    BY <1>1, <1>5, <2>3
                <4> QED BY <4>1
            <3>2. cs[i] = <<c, i - m>>
                BY <1>4, <2>3
            <3> QED BY <3>1, <3>2 DEF ByteValues
        <2>4. CASE ~ (i <= m \/ i > m + n + w) /\ ~ (i <= m + w)
            <3>1. i - w \in 1 .. Capacity
                BY <1>5, <2>4
            <3>2. cs[i] = bs[i - w]
                BY <1>4, <2>4
            <3> QED BY <1>3, <3>1, <3>2
        <2> QED BY <2>2, <2>3, <2>4
    <1>7. cs \in [1 .. Capacity -> ByteValues]
        BY <1>4, <1>6
    <1>8. ASSUME NEW i \in 1 .. m PROVE cs[0 + i] = bs[0 + i]
        <2>1. i \in 1 .. Capacity /\ i <= m /\ 0 + i = i
            BY <1>5
        <2> QED BY <1>4, <2>1
    <1>9. ASSUME NEW k \in 1 .. w PROVE cs[m + k] = <<c, k>>
        <2>1. PICK i \in 1 .. Capacity : i = m + k /\ i - m = k
            BY <1>5
        <2>2. ~ (i <= m \/ i > m + n + w) /\ i <= m + w
            BY <1>5, <2>1
        <2>3. cs[i] = <<c, i - m>>
            BY <1>4, <2>1, <2>2
        <2> QED BY <2>1, <2>3
    <1>10. ASSUME NEW k \in 1 .. n PROVE cs[m + w + k] = bs[m + k]
        <2>1. PICK i \in 1 .. Capacity : i = m + w + k /\ i - w = m + k
            <3>1. k \in Nat /\ 1 <= k /\ k <= n
                OBVIOUS
            <3>2. m + w + k \in 1 .. Capacity /\ m + w + k - w = m + k
                BY <1>5, <3>1
            <3> QED BY <3>2
        <2>2. ~ (i <= m \/ i > m + n + w) /\ ~ (i <= m + w)
            BY <1>5, <2>1
        <2>3. cs[i] = bs[i - w]
            BY <1>4, <2>1, <2>2
        <2> QED BY <2>1, <2>3
    <1>11. ASSUME NEW i \in (m + n + w + 1) .. Capacity PROVE cs[i] = Zero
        <2>1. i \in 1 .. Capacity /\ i > m + n + w /\ i \in (m + n + 1) .. Capacity
            BY <1>5
        <2>2. cs[i] = bs[i]
            BY <1>4, <2>1
        <2>3. bs[i] = Zero
            BY <1>3, <2>1 DEF ZeroAfter
        <2> QED BY <2>2, <2>3
    <1>12. BytesWidened(cs, b, c, m, n, w)
        BY <1>3, <1>7, <1>8, <1>9, <1>10, <1>11 DEF BytesWidened
    <1> QED BY <1>1, <1>2, <1>12

\* One character more, between two texts
LEMMA CharacterIsInserted ==
    ASSUME NEW b, NEW s \in Seq(Chars), NEW t \in Seq(Chars), NEW c \in Chars,
           IsText(b, s \o t), Room(b, c)
    PROVE  IsText(Widened(b, c, BytesOf(s)), (s \o <<c>>) \o t)
    <1>1. PICK m \in Nat : m = BytesOf(s)
        BY TotalsJoin
    <1>2. PICK n \in Nat : n = BytesOf(t)
        BY TotalsJoin
    <1>3. PICK cs : cs = WithCharacter(b, c, m)
        OBVIOUS
    <1>4. /\ b.bytes \in [1 .. Capacity -> ByteValues] /\ b.size = m + n
          /\ Room(b, c) /\ b.size + Width[c] <= Capacity /\ LaidOut(b.bytes, s \o t, 0)
          /\ b.points = Len(s \o t) /\ b.units = UnitsOf(s \o t)
          /\ ZeroAfter(b)
        BY <1>1, <1>2, TotalsJoin DEF IsText, Room
    <1>5. /\ cs \in [1 .. Capacity -> ByteValues]
          /\ \A i \in 1 .. m : cs[0 + i] = b.bytes[0 + i]
          /\ \A k \in 1 .. Width[c] : cs[m + k] = <<c, k>>
          /\ \A i \in 1 .. n : cs[m + Width[c] + i] = b.bytes[m + i]
          /\ \A i \in (m + n + Width[c] + 1) .. Capacity : cs[i] = Zero
        <2>1. BytesWidened(cs, b, c, m, n, Width[c])
            BY <1>3, <1>4, WidenedBytes
        <2> QED BY <2>1 DEF BytesWidened
    <1>6. LaidOut(b.bytes, s, 0) /\ LaidOut(b.bytes, t, m)
        <2>1. 0 \in Nat /\ 0 + m = m
            OBVIOUS
        <2> QED BY <1>1, <1>4, <2>1, TextsJoin
    <1>7. LaidOut(cs, s, 0)
        BY <1>1, <1>5, <1>6, MovedText
    <1>8. LaidOut(cs, <<c>>, m)
        BY <1>5, OneIsLaidOut
    <1>9. Width[c] \in Nat /\ m + Width[c] \in Nat /\ Units[c] \in Nat
        BY CharactersCount
    <1>10. LaidOut(cs, t, m + Width[c])
        BY <1>2, <1>5, <1>6, <1>9, MovedText
    <1>11. <<c>> \in Seq(Chars) /\ Len(<<c>>) = 1 /\ BytesOf(<<c>>) = Width[c] /\ UnitsOf(<<c>>) = Units[c]
        BY TotalsOfFew
    <1>12. PICK u : u = s \o <<c>>
        OBVIOUS
    <1>13. u \in Seq(Chars) /\ BytesOf(u) = m + Width[c] /\ UnitsOf(u) = UnitsOf(s) + Units[c]
           /\ Len(u) = Len(s) + 1
        <2>1. u \in Seq(Chars) /\ Len(u) = Len(s) + 1
            BY <1>11, <1>12
        <2>2. BytesOf(u) = BytesOf(s) + BytesOf(<<c>>) /\ UnitsOf(u) = UnitsOf(s) + UnitsOf(<<c>>)
            BY <1>11, <1>12, TotalsJoin
        <2> QED BY <1>1, <1>11, <2>1, <2>2
    <1>14. LaidOut(cs, u, 0)
        <2>1. 0 \in Nat /\ 0 + m = m
            OBVIOUS
        <2> QED BY <1>1, <1>7, <1>8, <1>11, <1>12, <2>1, TextsJoin
    <1>15. LaidOut(cs, u \o t, 0)
        <2>1. 0 \in Nat /\ 0 + (m + Width[c]) = m + Width[c]
            BY <1>9
        <2> QED BY <1>10, <1>13, <1>14, <2>1, TextsJoin
    <1>16. /\ BytesOf(u \o t) = m + Width[c] + n
           /\ UnitsOf(u \o t) = UnitsOf(s) + Units[c] + UnitsOf(t)
           /\ Len(u \o t) = Len(s) + 1 + Len(t)
        <2>1. Len(u \o t) = Len(u) + Len(t)
            BY <1>13
        <2>2. BytesOf(u \o t) = BytesOf(u) + BytesOf(t) /\ UnitsOf(u \o t) = UnitsOf(u) + UnitsOf(t)
            BY <1>13, TotalsJoin
        <2> QED BY <1>2, <1>13, <2>1, <2>2
    <1>17. /\ UnitsOf(s \o t) = UnitsOf(s) + UnitsOf(t) /\ UnitsOf(s) \in Nat /\ UnitsOf(t) \in Nat
           /\ Len(s \o t) = Len(s) + Len(t) /\ Len(s) \in Nat /\ Len(t) \in Nat
        BY TotalsJoin
    <1>18. PICK q : q = Widened(b, c, m)
        OBVIOUS
    <1>19. /\ q.bytes = cs /\ q.size = m + n + Width[c] /\ q.points = Len(s) + Len(t) + 1
           /\ q.units = UnitsOf(s) + UnitsOf(t) + Units[c]
        BY <1>3, <1>4, <1>17, <1>18 DEF Widened
    <1>20. /\ q.size = BytesOf(u \o t) /\ q.size <= Capacity
           /\ q.points = Len(u \o t) /\ q.units = UnitsOf(u \o t)
        <2>1. q.size = BytesOf(u \o t)
            BY <1>9, <1>16, <1>19
        <2>2. q.size <= Capacity
            BY <1>4, <1>19
        <2>3. q.points = Len(u \o t)
            BY <1>16, <1>17, <1>19
        <2>4. q.units = UnitsOf(u \o t)
            BY <1>9, <1>16, <1>17, <1>19
        <2> QED BY <2>1, <2>2, <2>3, <2>4
    <1>21. \A i \in (q.size + 1) .. Capacity : q.bytes[i] = Zero
        BY <1>5, <1>19
    <1>22. IsText(q, u \o t)
        BY <1>5, <1>15, <1>19, <1>20, <1>21 DEF IsText, ZeroAfter
    <1> QED BY <1>1, <1>12, <1>18, <1>22

\* cs are the bytes of b without d of them after m.
BytesCut(cs, b, m, d, n) ==
    /\ cs \in [1 .. Capacity -> ByteValues]
    /\ \A i \in 1 .. m : cs[0 + i] = b.bytes[0 + i]
    /\ \A i \in 1 .. n : cs[m + i] = b.bytes[m + d + i]
    /\ \A i \in (m + n + 1) .. Capacity : cs[i] = Zero

\* The bytes after those of a text between two others were cut out
LEMMA CutBytes ==
    ASSUME NEW b, NEW m \in Nat, NEW d \in Nat, NEW n \in Nat,
           b.bytes \in [1 .. Capacity -> ByteValues], b.size = m + d + n,
           ZeroAfter(b)
    PROVE  BytesCut(Cut(b, m, m + d), b, m, d, n)
    <1>1. PICK cs : cs = Cut(b, m, m + d)
        OBVIOUS
    <1>2. PICK bs : bs = b.bytes
        OBVIOUS
    <1>3. m + d - m = d /\ m + d + n - d = m + n
        OBVIOUS
    <1>4. cs = [i \in 1 .. Capacity |->
                   IF i <= m \/ i > m + d + n THEN bs[i]
                   ELSE IF i <= m + n THEN bs[i + d] ELSE Zero]
        BY <1>1, <1>2, <1>3 DEF Cut
    <1>5. Capacity \in Nat /\ m + d + n <= Capacity
        BY BufferAssumption DEF ZeroAfter
    <1>6. ASSUME NEW i \in 1 .. Capacity PROVE cs[i] \in ByteValues
        <2>1. bs[i] \in ByteValues
            BY <1>2
        <2>2. CASE i <= m \/ i > m + d + n
            BY <1>4, <2>1, <2>2
        <2>3. CASE ~ (i <= m \/ i > m + d + n) /\ i <= m + n
            <3>1. i + d \in 1 .. Capacity
                <4>1. i \in Nat /\ i > m /\ i <= m + n
                    BY <1>5, <2>3
                <4> QED BY <1>5, <4>1
            <3>2. cs[i] = bs[i + d]
                BY <1>4, <2>3
            <3> QED BY <1>2, <3>1, <3>2
        <2>4. CASE ~ (i <= m \/ i > m + d + n) /\ ~ (i <= m + n)
            BY <1>4, <2>4 DEF ByteValues
        <2> QED BY <2>2, <2>3, <2>4
    <1>7. cs \in [1 .. Capacity -> ByteValues]
        BY <1>4, <1>6
    <1>8. ASSUME NEW i \in 1 .. m PROVE cs[0 + i] = bs[0 + i]
        <2>1. i \in 1 .. Capacity /\ i <= m /\ 0 + i = i
            BY <1>5
        <2> QED BY <1>4, <2>1
    <1>9. ASSUME NEW k \in 1 .. n PROVE cs[m + k] = bs[m + d + k]
        <2>1. PICK i \in 1 .. Capacity : i = m + k /\ i + d = m + d + k
            BY <1>5
        <2>2. CASE i > m + d + n
            BY <1>5, <2>1, <2>2
        <2>3. CASE ~ (i > m + d + n)
            <3>1. ~ (i <= m \/ i > m + d + n) /\ i <= m + n
                BY <1>5, <2>1, <2>3
            <3>2. cs[i] = bs[i + d]
                BY <1>4, <2>1, <3>1
            <3> QED BY <2>1, <3>2
        <2> QED BY <2>2, <2>3
    <1>10. ASSUME NEW i \in (m + n + 1) .. Capacity PROVE cs[i] = Zero
        <2>1. i \in 1 .. Capacity /\ ~ (i <= m) /\ ~ (i <= m + n)
            BY <1>5
        <2>2. CASE i > m + d + n
            <3>1. i \in (m + d + n + 1) .. Capacity
                BY <1>5, <2>1, <2>2
            <3>2. bs[i] = Zero
                BY <1>2, <3>1 DEF ZeroAfter
            <3> QED BY <1>4, <2>1, <2>2, <3>2
        <2>3. CASE ~ (i > m + d + n)
            BY <1>4, <2>1, <2>3
        <2> QED BY <2>2, <2>3
    <1>11. BytesCut(cs, b, m, d, n)
        BY <1>2, <1>7, <1>8, <1>9, <1>10 DEF BytesCut
    <1> QED BY <1>1, <1>11

\* Characters between two texts are taken out
LEMMA CharactersAreCut ==
    ASSUME NEW b, NEW s \in Seq(Chars), NEW u \in Seq(Chars), NEW t \in Seq(Chars),
           IsText(b, (s \o u) \o t)
    PROVE  IsText([bytes |-> Cut(b, BytesOf(s), BytesOf(s \o u)),
                   size |-> b.size - (BytesOf(s \o u) - BytesOf(s)),
                   points |-> b.points - Len(u), units |-> b.units - UnitsOf(u)],
                  s \o t)
    <1>1. PICK m \in Nat : m = BytesOf(s)
        BY TotalsJoin
    <1>2. PICK d \in Nat : d = BytesOf(u)
        BY TotalsJoin
    <1>3. PICK n \in Nat : n = BytesOf(t)
        BY TotalsJoin
    <1>4. PICK v : v = s \o u
        OBVIOUS
    <1>5. /\ v \in Seq(Chars) /\ Len(v) = Len(s) + Len(u)
          /\ Len(s) \in Nat /\ Len(u) \in Nat /\ Len(t) \in Nat
        BY <1>4
    <1>6. BytesOf(v) = m + d /\ UnitsOf(v) = UnitsOf(s) + UnitsOf(u)
        BY <1>1, <1>2, <1>4, TotalsJoin
    <1>7. /\ Len(v \o t) = Len(v) + Len(t)
          /\ BytesOf(v \o t) = BytesOf(v) + BytesOf(t) /\ UnitsOf(v \o t) = UnitsOf(v) + UnitsOf(t)
        <2>1. v \in Seq(Chars)
            BY <1>5
        <2>2. Len(v \o t) = Len(v) + Len(t)
            BY <2>1
        <2> QED BY <2>1, <2>2, TotalsJoin
    <1>8. PICK cs : cs = Cut(b, m, m + d)
        OBVIOUS
    <1>9. /\ b.bytes \in [1 .. Capacity -> ByteValues] /\ b.size = m + d + n
          /\ LaidOut(b.bytes, v \o t, 0)
          /\ b.points = Len(s) + Len(u) + Len(t) /\ b.units = UnitsOf(s) + UnitsOf(u) + UnitsOf(t)
          /\ ZeroAfter(b)
        <2>1. IsText(b, v \o t)
            BY <1>4
        <2>2. /\ b.bytes \in [1 .. Capacity -> ByteValues]
              /\ LaidOut(b.bytes, v \o t, 0) /\ ZeroAfter(b)
              /\ b.size = BytesOf(v \o t) /\ b.points = Len(v \o t) /\ b.units = UnitsOf(v \o t)
            BY <2>1 DEF IsText
        <2>3. b.size = m + d + n
            BY <1>3, <1>6, <1>7, <2>2
        <2>4. b.points = Len(s) + Len(u) + Len(t) /\ b.units = UnitsOf(s) + UnitsOf(u) + UnitsOf(t)
            BY <1>5, <1>6, <1>7, <2>2
        <2> QED BY <2>2, <2>3, <2>4
    <1>10. /\ cs \in [1 .. Capacity -> ByteValues]
           /\ \A i \in 1 .. m : cs[0 + i] = b.bytes[0 + i]
           /\ \A i \in 1 .. n : cs[m + i] = b.bytes[m + d + i]
           /\ \A i \in (m + n + 1) .. Capacity : cs[i] = Zero
        <2>1. BytesCut(cs, b, m, d, n)
            BY <1>8, <1>9, CutBytes
        <2> QED BY <2>1 DEF BytesCut
    <1>11. 0 \in Nat /\ 0 + m = m /\ 0 + (m + d) = m + d /\ m + d \in Nat
        OBVIOUS
    <1>12. LaidOut(b.bytes, v, 0) /\ LaidOut(b.bytes, t, m + d)
        BY <1>5, <1>6, <1>9, <1>11, TextsJoin
    <1>13. LaidOut(b.bytes, s, 0)
        BY <1>4, <1>11, <1>12, TextsJoin
    <1>14. LaidOut(cs, s, 0)
        BY <1>1, <1>10, <1>11, <1>13, MovedText
    <1>15. LaidOut(cs, t, m)
        BY <1>3, <1>10, <1>11, <1>12, MovedText
    <1>16. LaidOut(cs, s \o t, 0)
        BY <1>1, <1>11, <1>14, <1>15, TextsJoin
    <1>17. /\ Len(s \o t) = Len(s) + Len(t) /\ BytesOf(s \o t) = m + n
           /\ UnitsOf(s \o t) = UnitsOf(s) + UnitsOf(t)
           /\ UnitsOf(s) \in Nat /\ UnitsOf(t) \in Nat /\ UnitsOf(u) \in Nat
        BY <1>1, <1>3, TotalsJoin
    <1>18. PICK q : q = [bytes |-> cs, size |-> b.size - ((m + d) - m),
                         points |-> b.points - Len(u), units |-> b.units - UnitsOf(u)]
        OBVIOUS
    <1>19. q.bytes = cs /\ q.size = m + n
        BY <1>9, <1>18
    <1>20. q.points = Len(s \o t)
        BY <1>5, <1>9, <1>17, <1>18
    <1>21. q.units = UnitsOf(s \o t)
        BY <1>9, <1>17, <1>18
    <1>22. q.size = BytesOf(s \o t) /\ q.size <= Capacity
        <2>1. q.size = BytesOf(s \o t)
            BY <1>17, <1>19
        <2>2. m + d + n <= Capacity
            BY <1>9 DEF ZeroAfter
        <2> QED BY <1>19, <2>1, <2>2, BufferAssumption
    <1>23. IsText(q, s \o t)
        BY <1>10, <1>16, <1>19, <1>20, <1>21, <1>22 DEF IsText, ZeroAfter
    <1> QED BY <1>1, <1>4, <1>6, <1>8, <1>18, <1>23

---------------------------------------------------------------------------
(* SecretBuffer: what comes at once                                        *)

Inputs == Seq(Chars \cup {Dropped})

LEMMA TextsAreInputs ==
    ASSUME NEW text \in Texts
    PROVE  text \in Inputs /\ Len(text) \in Nat
    <1>1. PICK n \in 0 .. MaxInput : text \in [1 .. n -> Chars \cup {Dropped}]
        BY DEF Texts
    <1>2. n \in Nat
        BY BufferAssumption
    <1>3. text \in Seq(Chars \cup {Dropped})
        BY <1>1, <1>2, SeqDef
    <1> QED BY <1>3 DEF Inputs

\* f is what is taken of the first characters of new, up to n of them.
Takes(f, new, n) ==
    /\ f \in [0 .. n -> Seq(Chars)] /\ f[0] = <<>>
    /\ \A k \in 1 .. n : f[k] = IF new[k] = Dropped THEN f[k - 1] ELSE Append(f[k - 1], new[k])

LEMMA OneMoreIsTaken ==
    ASSUME NEW new \in Inputs, NEW n \in Nat, n + 1 <= Len(new), NEW f, Takes(f, new, n)
    PROVE  \E g : Takes(g, new, n + 1)
    <1>1. new[n + 1] \in Chars \cup {Dropped} /\ n + 1 # 0 /\ n \in 0 .. n
        BY DEF Inputs
    <1>2. PICK last : last = IF new[n + 1] = Dropped THEN f[n] ELSE Append(f[n], new[n + 1])
        OBVIOUS
    <1>3. f[n] \in Seq(Chars)
        BY <1>1 DEF Takes
    <1>4. last \in Seq(Chars)
        BY <1>1, <1>2, <1>3
    <1>5. PICK g : g = [k \in 0 .. n + 1 |-> IF k <= n THEN f[k] ELSE last]
        OBVIOUS
    <1>6. ASSUME NEW k \in 0 .. n + 1 PROVE g[k] \in Seq(Chars)
        <2>1. CASE k <= n
            <3>1. f[k] \in Seq(Chars)
                BY <2>1 DEF Takes
            <3> QED BY <1>5, <2>1, <3>1
        <2>2. CASE ~ (k <= n)
            BY <1>4, <1>5, <2>2
        <2> QED BY <2>1, <2>2
    <1>7. g \in [0 .. n + 1 -> Seq(Chars)]
        BY <1>5, <1>6
    <1>8. g[0] = <<>>
        BY <1>5 DEF Takes
    <1>9. ASSUME NEW k \in 1 .. n + 1
          PROVE  g[k] = IF new[k] = Dropped THEN g[k - 1] ELSE Append(g[k - 1], new[k])
        <2>1. g[k - 1] = f[k - 1]
            BY <1>5
        <2>2. CASE k <= n
            <3>1. g[k] = f[k] /\ k \in 1 .. n
                BY <1>5, <2>2
            <3> QED BY <2>1, <3>1 DEF Takes
        <2>3. CASE ~ (k <= n)
            <3>1. g[k] = last /\ k = n + 1 /\ k - 1 = n
                BY <1>5, <2>3
            <3> QED BY <1>2, <2>1, <3>1
        <2> QED BY <2>2, <2>3
    <1>10. Takes(g, new, n + 1)
        BY <1>7, <1>8, <1>9 DEF Takes
    <1> QED BY <1>10

\* What is taken of an input, character by character
LEMMA TakenIs ==
    ASSUME NEW new \in Inputs
    PROVE  Takes(Taken(new), new, Len(new))
    <1>1. Len(new) \in Nat
        BY DEF Inputs
    <1> DEFINE P == {n \in Nat : n <= Len(new) => \E f : Takes(f, new, n)}
    <1>2. 0 \in P
        <2>1. PICK f : f = [k \in 0 .. 0 |-> <<>>]
            OBVIOUS
        <2>2. f \in [0 .. 0 -> Seq(Chars)] /\ f[0] = <<>>
            BY <2>1
        <2>3. Takes(f, new, 0)
            BY <2>2 DEF Takes
        <2> QED BY <2>3
    <1>3. ASSUME NEW n \in P PROVE n + 1 \in P
        <2>1. n \in Nat /\ n + 1 \in Nat /\ (n + 1 <= Len(new) => n <= Len(new))
            BY <1>1
        <2>2. ASSUME n + 1 <= Len(new) PROVE \E f : Takes(f, new, n + 1)
            <3>1. PICK f : Takes(f, new, n)
                BY <2>1, <2>2
            <3> QED BY <2>1, <2>2, <3>1, OneMoreIsTaken
        <2> QED BY <2>1, <2>2
    <1>4. P = Nat
        <2> HIDE DEF P
        <2>1. P \in SUBSET Nat
            BY DEF P
        <2> QED BY <1>2, <1>3, <2>1, EveryNumber
    <1>5. \A n \in Nat : n <= Len(new) => \E f : Takes(f, new, n)
        BY <1>4
    <1> HIDE DEF P
    <1>6. PICK f : Takes(f, new, Len(new))
        BY <1>1, <1>5
    <1>7. f = [n \in 0 .. Len(new) |->
                  IF n = 0 THEN <<>>
                  ELSE IF new[n] = Dropped THEN f[n - 1] ELSE Append(f[n - 1], new[n])]
        <2>1. \A n \in 0 .. Len(new) : n # 0 => n \in 1 .. Len(new)
            BY <1>1
        <2>2. f = [n \in 0 .. Len(new) |-> f[n]] /\ f[0] = <<>>
            BY <1>6 DEF Takes
        <2>3. \A n \in 1 .. Len(new) :
                  f[n] = IF new[n] = Dropped THEN f[n - 1] ELSE Append(f[n - 1], new[n])
            BY <1>6 DEF Takes
        <2>4. \A n \in 0 .. Len(new) :
                  f[n] = IF n = 0 THEN <<>>
                         ELSE IF new[n] = Dropped THEN f[n - 1] ELSE Append(f[n - 1], new[n])
            BY <2>1, <2>2, <2>3
        <2> QED BY <2>2, <2>4
    <1>8. PICK g : g = Taken(new)
        OBVIOUS
    <1>9. g = [n \in 0 .. Len(new) |->
                  IF n = 0 THEN <<>>
                  ELSE IF new[n] = Dropped THEN g[n - 1] ELSE Append(g[n - 1], new[n])]
        BY <1>7, <1>8 DEF Taken
    <1>10. g[0] = <<>>
        BY <1>1, <1>9
    <1>11. ASSUME NEW n \in 1 .. Len(new)
           PROVE  g[n] = IF new[n] = Dropped THEN g[n - 1] ELSE Append(g[n - 1], new[n])
        <2>1. n \in 0 .. Len(new) /\ n # 0
            BY <1>1
        <2>2. g[n] = IF n = 0 THEN <<>>
                     ELSE IF new[n] = Dropped THEN g[n - 1] ELSE Append(g[n - 1], new[n])
            BY <1>9, <2>1
        <2> QED BY <2>1, <2>2
    <1> DEFINE Q == {n \in Nat : n <= Len(new) => g[n] \in Seq(Chars)}
    <1>12. 0 \in Q
        <2>1. g[0] \in Seq(Chars)
            BY <1>10
        <2> QED BY <2>1
    <1>13. ASSUME NEW n \in Q PROVE n + 1 \in Q
        <2>1. n \in Nat /\ n + 1 \in Nat /\ (n <= Len(new) => g[n] \in Seq(Chars))
            OBVIOUS
        <2> HIDE DEF Q
        <2>2. ASSUME n + 1 <= Len(new) PROVE g[n + 1] \in Seq(Chars)
            <3>1. PICK x \in 1 .. Len(new) : x = n + 1 /\ x - 1 = n
                BY <1>1, <2>1, <2>2
            <3>2. new[x] \in Chars \cup {Dropped} /\ g[n] \in Seq(Chars)
                <4>1. g[n] \in Seq(Chars)
                    BY <1>1, <2>1, <2>2
                <4>2. new[x] \in Chars \cup {Dropped}
                    BY <3>1 DEF Inputs
                <4> QED BY <4>1, <4>2
            <3>3. g[x] = IF new[x] = Dropped THEN g[x - 1] ELSE Append(g[x - 1], new[x])
                BY <1>11, <3>1
            <3> QED BY <3>1, <3>2, <3>3
        <2> QED BY <2>1, <2>2 DEF Q
    <1>14. Q = Nat
        <2> HIDE DEF Q
        <2>1. Q \in SUBSET Nat
            BY DEF Q
        <2> QED BY <1>12, <1>13, <2>1, EveryNumber
    <1>15. \A n \in Nat : n <= Len(new) => g[n] \in Seq(Chars)
        BY <1>14
    <1> HIDE DEF Q
    <1>16. g \in [0 .. Len(new) -> Seq(Chars)]
        BY <1>1, <1>9, <1>15
    <1>17. Takes(g, new, Len(new))
        BY <1>10, <1>11, <1>16 DEF Takes
    <1> QED BY <1>8, <1>17

\* What may be inserted, of an input
TakenUpTo(new, n) == BytesOf(Taken(new)[n])

LEMMA TakenGrows ==
    ASSUME NEW new \in Inputs, NEW i \in 0 .. Len(new), NEW j \in 0 .. Len(new), i <= j
    PROVE  /\ TakenUpTo(new, i) \in Nat /\ TakenUpTo(new, j) \in Nat
           /\ TakenUpTo(new, i) <= TakenUpTo(new, j)
    <1>1. PICK f : f = Taken(new)
        OBVIOUS
    <1>2. Len(new) \in Nat /\ i \in Nat /\ j \in Nat
        BY DEF Inputs
    <1>3. Takes(f, new, Len(new))
        BY <1>1, TakenIs
    <1>4. ASSUME NEW n \in 0 .. Len(new) PROVE f[n] \in Seq(Chars) /\ BytesOf(f[n]) \in Nat
        <2>1. f[n] \in Seq(Chars)
            BY <1>3 DEF Takes
        <2> QED BY <2>1, TotalsJoin
    <1>5. ASSUME NEW n \in 1 .. Len(new) PROVE BytesOf(f[n - 1]) <= BytesOf(f[n])
        <2>1. n - 1 \in 0 .. Len(new)
            BY <1>2
        <2>2. f[n - 1] \in Seq(Chars) /\ BytesOf(f[n - 1]) \in Nat
            BY <1>4, <2>1
        <2>3. f[n] = IF new[n] = Dropped THEN f[n - 1] ELSE Append(f[n - 1], new[n])
            BY <1>3 DEF Takes
        <2>4. CASE new[n] = Dropped
            BY <2>2, <2>3, <2>4
        <2>5. CASE new[n] # Dropped
            <3>1. new[n] \in Chars
                BY <2>5 DEF Inputs
            <3>2. f[n] = f[n - 1] \o <<new[n]>>
                BY <2>2, <2>3, <2>5, <3>1, AppendIsConcat
            <3>3. <<new[n]>> \in Seq(Chars) /\ BytesOf(<<new[n]>>) \in Nat
                <4>1. <<new[n]>> \in Seq(Chars)
                    BY <3>1
                <4> QED BY <4>1, TotalsJoin
            <3>4. BytesOf(f[n]) = BytesOf(f[n - 1]) + BytesOf(<<new[n]>>)
                BY <2>2, <3>2, <3>3, TotalsJoin
            <3> QED BY <2>2, <3>3, <3>4
        <2> QED BY <2>4, <2>5
    <1> DEFINE P == {n \in Nat : i + n <= Len(new) => BytesOf(f[i]) <= BytesOf(f[i + n])}
    <1>6. 0 \in P
        <2>1. i + 0 = i
            BY <1>2
        <2>2. BytesOf(f[i]) <= BytesOf(f[i + 0])
            BY <1>4, <2>1
        <2> QED BY <2>2
    <1>7. ASSUME NEW n \in P PROVE n + 1 \in P
        <2>1. n \in Nat /\ n + 1 \in Nat /\ (i + n <= Len(new) => BytesOf(f[i]) <= BytesOf(f[i + n]))
            OBVIOUS
        <2> HIDE DEF P
        <2>2. ASSUME i + (n + 1) <= Len(new) PROVE BytesOf(f[i]) <= BytesOf(f[i + (n + 1)])
            <3>1. PICK x \in 1 .. Len(new) : x = i + (n + 1) /\ x - 1 = i + n /\ x - 1 \in 0 .. Len(new)
                                             /\ x \in 0 .. Len(new)
                BY <1>2, <2>1, <2>2
            <3>2. BytesOf(f[x - 1]) <= BytesOf(f[x])
                BY <1>5, <3>1
            <3>3. BytesOf(f[x - 1]) \in Nat /\ BytesOf(f[x]) \in Nat /\ BytesOf(f[i]) \in Nat
                BY <1>4, <3>1
            <3>4. BytesOf(f[i]) <= BytesOf(f[x - 1])
                <4>1. i + n <= Len(new)
                    BY <1>2, <2>1, <2>2
                <4> QED BY <2>1, <3>1, <4>1
            <3>5. BytesOf(f[i]) <= BytesOf(f[x])
                BY <3>2, <3>3, <3>4
            <3> QED BY <1>2, <2>1, <3>1, <3>5
        <2> QED BY <2>1, <2>2 DEF P
    <1>8. P = Nat
        <2> HIDE DEF P
        <2>1. P \in SUBSET Nat
            BY DEF P
        <2> QED BY <1>6, <1>7, <2>1, EveryNumber
    <1>9. \A n \in Nat : i + n <= Len(new) => BytesOf(f[i]) <= BytesOf(f[i + n])
        BY <1>8
    <1> HIDE DEF P
    <1>10. j - i \in Nat /\ i + (j - i) = j /\ j <= Len(new)
        BY <1>2
    <1>11. BytesOf(f[i]) <= BytesOf(f[j])
        BY <1>9, <1>10
    <1> QED BY <1>1, <1>4, <1>11 DEF TakenUpTo

\* The most there is room for is what comes before the first there is none for.
LEMMA FittingIs ==
    ASSUME NEW new \in Inputs, NEW t \in Seq(Chars), NEW m \in 0 .. Len(new),
           BytesOf(t) + TakenUpTo(new, m) <= Capacity,
           m < Len(new) => ~ (BytesOf(t) + TakenUpTo(new, m + 1) <= Capacity)
    PROVE  Fitting(t, new) = Taken(new)[m]
    <1>1. Len(new) \in Nat /\ m \in Nat /\ Capacity \in Nat /\ BytesOf(t) \in Nat
        BY BufferAssumption, TotalsJoin DEF Inputs
    <1>2. PICK T : T = {n \in 0 .. Len(new) : BytesOf(t) + BytesOf(Taken(new)[n]) <= Capacity}
        OBVIOUS
    <1>3. \A n : n \in T <=> n \in 0 .. Len(new) /\ BytesOf(t) + TakenUpTo(new, n) <= Capacity
        BY <1>2 DEF TakenUpTo
    <1>4. m \in T
        BY <1>3
    <1>5. ASSUME NEW n \in T PROVE n <= m
        <2> SUFFICES ASSUME ~ (n <= m) PROVE FALSE
            OBVIOUS
        <2>1. n \in 0 .. Len(new) /\ BytesOf(t) + TakenUpTo(new, n) <= Capacity
            BY <1>3
        <2>2. m < Len(new) /\ m + 1 \in 0 .. Len(new) /\ m + 1 <= n
            BY <1>1, <2>1
        <2>3. /\ TakenUpTo(new, m + 1) \in Nat /\ TakenUpTo(new, n) \in Nat
              /\ TakenUpTo(new, m + 1) <= TakenUpTo(new, n)
            BY <2>1, <2>2, TakenGrows
        <2> QED BY <1>1, <2>1, <2>2, <2>3
    <1>6. T \in SUBSET Int
        BY <1>1, <1>3
    <1>7. Max(T) = m
        <2>1. Max(T) = CHOOSE x \in T : \A y \in T : x >= y
            BY DEF Max
        <2>2. \A y \in T : m >= y
            BY <1>5, <1>6, <1>1
        <2>3. \A x \in T : (\A y \in T : x >= y) => x = m
            BY <1>4, <1>5, <1>6, <1>1
        <2> QED BY <1>4, <2>1, <2>2, <2>3
    <1> QED BY <1>2, <1>7 DEF Fitting

Started(b, offset) == [b |-> b, at |-> offset, full |-> FALSE]

\* f is how insertAt gets on with the first characters of text, up to n of them.
GetsOn(f, b, offset, text, n) ==
    /\ f = [k \in 0 .. n |-> f[k]] /\ f[0] = Started(b, offset)
    /\ \A k \in 1 .. n : f[k] = Insert(text[k], f[k - 1])

LEMMA InsertionsAre ==
    ASSUME NEW text \in Inputs, NEW b, NEW offset
    PROVE  GetsOn(Insertions(b, offset, text), b, offset, text, Len(text))
    <1>1. Len(text) \in Nat
        BY DEF Inputs
    <1> DEFINE P == {n \in Nat : n <= Len(text) => \E f : GetsOn(f, b, offset, text, n)}
    <1>2. 0 \in P
        <2>1. PICK f : f = [k \in 0 .. 0 |-> Started(b, offset)]
            OBVIOUS
        <2>2. f = [k \in 0 .. 0 |-> f[k]] /\ f[0] = Started(b, offset)
            BY <2>1
        <2>3. GetsOn(f, b, offset, text, 0)
            BY <2>2 DEF GetsOn
        <2> QED BY <2>3
    <1>3. ASSUME NEW n \in P PROVE n + 1 \in P
        <2>1. n \in Nat /\ n + 1 \in Nat /\ (n + 1 <= Len(text) => n <= Len(text))
            BY <1>1
        <2>2. ASSUME n + 1 <= Len(text) PROVE \E f : GetsOn(f, b, offset, text, n + 1)
            <3>1. PICK f : GetsOn(f, b, offset, text, n)
                BY <2>1, <2>2
            <3>2. PICK g : g = [k \in 0 .. n + 1 |-> IF k <= n THEN f[k] ELSE Insert(text[n + 1], f[n])]
                OBVIOUS
            <3>3. g = [k \in 0 .. n + 1 |-> g[k]]
                BY <3>2
            <3>4. g[0] = Started(b, offset)
                BY <2>1, <3>1, <3>2 DEF GetsOn
            <3>5. ASSUME NEW k \in 1 .. n + 1 PROVE g[k] = Insert(text[k], g[k - 1])
                <4>1. g[k - 1] = f[k - 1]
                    BY <2>1, <3>2
                <4>2. CASE k <= n
                    <5>1. g[k] = f[k] /\ k \in 1 .. n
                        BY <2>1, <3>2, <4>2
                    <5>2. f[k] = Insert(text[k], f[k - 1])
                        BY <3>1, <5>1 DEF GetsOn
                    <5> QED BY <4>1, <5>1, <5>2
                <4>3. CASE ~ (k <= n)
                    <5>1. k = n + 1 /\ k - 1 = n
                        BY <2>1, <4>3
                    <5>2. g[k] = Insert(text[n + 1], f[n])
                        BY <3>2, <4>3
                    <5> QED BY <4>1, <5>1, <5>2
                <4> QED BY <4>2, <4>3
            <3>6. GetsOn(g, b, offset, text, n + 1)
                BY <3>3, <3>4, <3>5 DEF GetsOn
            <3> QED BY <3>6
        <2> QED BY <2>1, <2>2
    <1>4. P = Nat
        <2> HIDE DEF P
        <2>1. P \in SUBSET Nat
            BY DEF P
        <2> QED BY <1>2, <1>3, <2>1, EveryNumber
    <1>5. \A n \in Nat : n <= Len(text) => \E f : GetsOn(f, b, offset, text, n)
        BY <1>4
    <1> HIDE DEF P
    <1>6. PICK f : GetsOn(f, b, offset, text, Len(text))
        BY <1>1, <1>5
    <1>7. f = [n \in 0 .. Len(text) |->
                  IF n = 0 THEN Started(b, offset) ELSE Insert(text[n], f[n - 1])]
        <2>1. \A n \in 0 .. Len(text) : n # 0 => n \in 1 .. Len(text)
            BY <1>1
        <2>2. f = [n \in 0 .. Len(text) |-> f[n]] /\ f[0] = Started(b, offset)
            BY <1>6 DEF GetsOn
        <2>3. \A n \in 1 .. Len(text) : f[n] = Insert(text[n], f[n - 1])
            BY <1>6 DEF GetsOn
        <2>4. \A n \in 0 .. Len(text) :
                  f[n] = IF n = 0 THEN Started(b, offset) ELSE Insert(text[n], f[n - 1])
            BY <2>1, <2>2, <2>3
        <2> QED BY <2>2, <2>4
    <1>8. PICK g : g = Insertions(b, offset, text)
        OBVIOUS
    <1>9. g = [n \in 0 .. Len(text) |->
                  IF n = 0 THEN Started(b, offset) ELSE Insert(text[n], g[n - 1])]
        BY <1>7, <1>8 DEF Insertions, Started
    <1>10. g[0] = Started(b, offset)
        <2>1. 0 \in 0 .. Len(text)
            BY <1>1
        <2> QED BY <1>9, <2>1
    <1>11. ASSUME NEW n \in 1 .. Len(text) PROVE g[n] = Insert(text[n], g[n - 1])
        <2>1. n \in 0 .. Len(text) /\ n # 0
            BY <1>1
        <2>2. g[n] = IF n = 0 THEN Started(b, offset) ELSE Insert(text[n], g[n - 1])
            BY <1>9, <2>1
        <2> QED BY <2>1, <2>2
    <1>12. g = [n \in 0 .. Len(text) |-> g[n]]
        BY <1>9
    <1>13. GetsOn(g, b, offset, text, Len(text))
        BY <1>10, <1>11, <1>12 DEF GetsOn
    <1> QED BY <1>8, <1>13

\* The text after another character, taken or not
LEMMA OneIsTaken ==
    ASSUME NEW new \in Inputs, NEW n \in Nat, n + 1 <= Len(new)
    PROVE  /\ Taken(new)[n] \in Seq(Chars)
           /\ new[n + 1] = Dropped => Taken(new)[n + 1] = Taken(new)[n]
           /\ new[n + 1] # Dropped =>
                  /\ new[n + 1] \in Chars
                  /\ Taken(new)[n + 1] = Taken(new)[n] \o <<new[n + 1]>>
                  /\ TakenUpTo(new, n + 1) = TakenUpTo(new, n) + Width[new[n + 1]]
    <1>1. Takes(Taken(new), new, Len(new)) /\ Len(new) \in Nat
        BY TakenIs DEF Inputs
    <1>2. PICK x \in 1 .. Len(new) : x = n + 1 /\ x - 1 = n
        BY <1>1
    <1>3. Taken(new)[x] = IF new[x] = Dropped THEN Taken(new)[x - 1] ELSE Append(Taken(new)[x - 1], new[x])
        BY <1>1, <1>2 DEF Takes
    <1>4. n \in 0 .. Len(new)
        BY <1>1
    <1>5. Taken(new)[n] \in Seq(Chars)
        BY <1>1, <1>4 DEF Takes
    <1>6. new[x] \in Chars \cup {Dropped}
        BY <1>2 DEF Inputs
    <1>7. CASE new[x] = Dropped
        BY <1>2, <1>3, <1>5, <1>7
    <1>8. CASE new[x] # Dropped
        <2>1. new[x] \in Chars
            BY <1>6, <1>8
        <2>2. Taken(new)[x] = Taken(new)[n] \o <<new[x]>>
            BY <1>2, <1>3, <1>5, <1>8, <2>1, AppendIsConcat
        <2>3. <<new[x]>> \in Seq(Chars)
            BY <2>1
        <2>4. BytesOf(Taken(new)[x]) = BytesOf(Taken(new)[n]) + BytesOf(<<new[x]>>)
            BY <1>5, <2>2, <2>3, TotalsJoin
        <2>5. BytesOf(<<new[x]>>) = Width[new[x]]
            BY <2>1, TotalsOfFew
        <2> QED BY <1>2, <1>5, <1>8, <2>1, <2>2, <2>4, <2>5 DEF TakenUpTo
    <1> QED BY <1>7, <1>8

\* insertAt between two texts after n characters: it has taken the first m, and
\* is full only if there is no room for the next.
TakesUpTo(st, s, t, new, n, m) ==
    /\ st = [b |-> st.b, at |-> st.at, full |-> st.full] /\ st.full \in BOOLEAN
    /\ IsText(st.b, (s \o Taken(new)[m]) \o t)
    /\ st.at = BytesOf(s \o Taken(new)[m])
    /\ st.full => m + 1 <= Len(new) /\ ~ (BytesOf(s \o t) + TakenUpTo(new, m + 1) <= Capacity)
    /\ ~ st.full => m = n
TakesSome(st, s, t, new, n) == \E m \in 0 .. n : TakesUpTo(st, s, t, new, n, m)

LEMMA InsertTakesSome ==
    ASSUME NEW new \in Inputs, NEW s \in Seq(Chars), NEW t \in Seq(Chars), NEW st,
           NEW n \in Nat, n + 1 <= Len(new), TakesSome(st, s, t, new, n)
    PROVE  TakesSome(Insert(new[n + 1], st), s, t, new, n + 1)
    <1>1. PICK m \in 0 .. n : TakesUpTo(st, s, t, new, n, m)
        BY DEF TakesSome
    <1>2. PICK c : c = new[n + 1]
        OBVIOUS
    <1>3. m \in 0 .. n + 1 /\ n + 1 \in 0 .. n + 1 /\ n \in 0 .. n + 1
        OBVIOUS
    <1>4. CASE st.full
        <2>1. Insert(c, st) = st
            BY <1>4 DEF Insert
        <2>2. TakesUpTo(st, s, t, new, n + 1, m)
            BY <1>1, <1>4 DEF TakesUpTo
        <2> QED BY <1>2, <1>3, <2>1, <2>2 DEF TakesSome
    <1>5. CASE ~ st.full /\ c = Dropped
        <2>1. Insert(c, st) = st
            BY <1>5 DEF Insert
        <2>2. m = n
            BY <1>1, <1>5 DEF TakesUpTo
        <2>3. Taken(new)[n + 1] = Taken(new)[n]
            BY <1>2, <1>5, OneIsTaken
        <2>4. TakesUpTo(st, s, t, new, n + 1, n + 1)
            BY <1>1, <1>5, <2>2, <2>3 DEF TakesUpTo
        <2> QED BY <1>2, <1>3, <2>1, <2>4 DEF TakesSome
    <1>6. CASE ~ st.full /\ c # Dropped
        <2>1. m = n
            BY <1>1, <1>6 DEF TakesUpTo
        <2>2. PICK taken : taken = Taken(new)[n]
            OBVIOUS
        <2>3. /\ taken \in Seq(Chars) /\ c \in Chars
              /\ Taken(new)[n + 1] = taken \o <<c>>
              /\ TakenUpTo(new, n + 1) = BytesOf(taken) + Width[c]
            BY <1>2, <1>6, <2>2, OneIsTaken DEF TakenUpTo
        <2>4. PICK u : u = s \o taken
            OBVIOUS
        <2>5. u \in Seq(Chars) /\ BytesOf(u) = BytesOf(s) + BytesOf(taken)
            BY <2>3, <2>4, TotalsJoin
        <2>6. /\ st = [b |-> st.b, at |-> st.at, full |-> st.full]
              /\ IsText(st.b, u \o t) /\ st.at = BytesOf(u)
            BY <1>1, <2>1, <2>2, <2>4 DEF TakesUpTo
        <2>7. /\ BytesOf(u \o t) = BytesOf(u) + BytesOf(t)
              /\ BytesOf(s \o t) = BytesOf(s) + BytesOf(t)
              /\ BytesOf(s) \in Nat /\ BytesOf(t) \in Nat /\ BytesOf(taken) \in Nat
              /\ Width[c] \in Nat
            BY <2>3, <2>5, TotalsJoin, CharactersCount
        <2>8. st.b.size = BytesOf(s) + BytesOf(taken) + BytesOf(t)
            BY <2>5, <2>6, <2>7 DEF IsText
        <2>9. CASE ~ Room(st.b, c)
            <3>1. Insert(c, st) = [st EXCEPT !.full = TRUE]
                BY <1>6, <2>9 DEF Insert
            <3>2. PICK after : after = Insert(c, st)
                OBVIOUS
            <3>3. after = [b |-> st.b, at |-> st.at, full |-> TRUE]
                BY <2>6, <3>1, <3>2
            <3>4. ~ (BytesOf(s \o t) + TakenUpTo(new, n + 1) <= Capacity)
                BY <2>3, <2>7, <2>8, <2>9, BufferAssumption DEF Room
            <3>5. after.b = st.b /\ after.at = st.at /\ after.full = TRUE
                BY <3>3
            <3>6. TakesUpTo(after, s, t, new, n + 1, n)
                BY <2>2, <2>4, <2>6, <3>3, <3>4, <3>5 DEF TakesUpTo
            <3> QED BY <1>2, <1>3, <3>2, <3>6 DEF TakesSome
        <2>10. CASE Room(st.b, c)
            <3>1. PICK after : after = Insert(c, st)
                OBVIOUS
            <3>2. after = [b |-> Widened(st.b, c, BytesOf(u)), at |-> BytesOf(u) + Width[c], full |-> FALSE]
                BY <1>6, <2>6, <2>10, <3>1 DEF Insert, Widened
            <3>3. after.b = Widened(st.b, c, BytesOf(u)) /\ after.at = BytesOf(u) + Width[c] /\ after.full = FALSE
                BY <3>2
            <3>4. IsText(after.b, (u \o <<c>>) \o t)
                BY <2>3, <2>5, <2>6, <2>10, <3>3, CharacterIsInserted
            <3>5. <<c>> \in Seq(Chars)
                BY <2>3
            <3>6. u \o <<c>> = s \o (taken \o <<c>>)
                BY <2>3, <2>4, <3>5, TextsAssociate
            <3>7. BytesOf(u \o <<c>>) = BytesOf(u) + Width[c]
                <4>1. BytesOf(u \o <<c>>) = BytesOf(u) + BytesOf(<<c>>)
                    BY <2>5, <3>5, TotalsJoin
                <4>2. BytesOf(<<c>>) = Width[c]
                    BY <2>3, TotalsOfFew
                <4> QED BY <4>1, <4>2
            <3>8. TakesUpTo(after, s, t, new, n + 1, n + 1)
                <4>1. after = [b |-> after.b, at |-> after.at, full |-> after.full]
                    BY <3>2
                <4>2. IsText(after.b, (s \o Taken(new)[n + 1]) \o t)
                    BY <2>3, <3>4, <3>6
                <4>3. after.at = BytesOf(s \o Taken(new)[n + 1])
                    BY <2>3, <3>3, <3>6, <3>7
                <4> QED BY <3>3, <4>1, <4>2, <4>3 DEF TakesUpTo
            <3> QED BY <1>2, <1>3, <3>1, <3>8 DEF TakesSome
        <2> QED BY <2>9, <2>10
    <1> QED BY <1>4, <1>5, <1>6

\* insertAt takes as much as there is room for.
LEMMA TextIsInserted ==
    ASSUME NEW text \in Inputs, NEW s \in Seq(Chars), NEW t \in Seq(Chars), NEW b, IsText(b, s \o t)
    PROVE  /\ IsText(Inserted(b, BytesOf(s), text), (s \o Fitting(s \o t, text)) \o t)
           /\ (s \o Fitting(s \o t, text)) \o t \in Seq(Chars)
    <1>1. Len(text) \in Nat
        BY DEF Inputs
    <1>2. PICK f : f = Insertions(b, BytesOf(s), text)
        OBVIOUS
    <1>3. /\ f[0] = Started(b, BytesOf(s))
          /\ \A k \in 1 .. Len(text) : f[k] = Insert(text[k], f[k - 1])
        BY <1>2, InsertionsAre DEF GetsOn
    <1> DEFINE P == {n \in Nat : n <= Len(text) => TakesSome(f[n], s, t, text, n)}
    <1>4. 0 \in P
        <2>1. Taken(text)[0] = <<>>
            BY TakenIs DEF Takes
        <2>2. s \o <<>> = s
            BY ConcatEmptySeq
        <2>3. PICK st : st = f[0]
            OBVIOUS
        <2>4. st = [b |-> b, at |-> BytesOf(s), full |-> FALSE]
            BY <1>3, <2>3 DEF Started
        <2>5. st.b = b /\ st.at = BytesOf(s) /\ st.full = FALSE
            BY <2>4
        <2>6. TakesUpTo(st, s, t, text, 0, 0)
            BY <2>1, <2>2, <2>4, <2>5 DEF TakesUpTo
        <2>7. 0 \in 0 .. 0
            OBVIOUS
        <2>8. TakesSome(f[0], s, t, text, 0)
            BY <2>3, <2>6, <2>7 DEF TakesSome
        <2> QED BY <2>8
    <1>5. ASSUME NEW n \in P PROVE n + 1 \in P
        <2>1. n \in Nat /\ n + 1 \in Nat /\ (n <= Len(text) => TakesSome(f[n], s, t, text, n))
            OBVIOUS
        <2> HIDE DEF P
        <2>2. ASSUME n + 1 <= Len(text) PROVE TakesSome(f[n + 1], s, t, text, n + 1)
            <3>1. PICK x \in 1 .. Len(text) : x = n + 1 /\ x - 1 = n
                BY <1>1, <2>1, <2>2
            <3>2. f[x] = Insert(text[x], f[x - 1])
                BY <1>3, <3>1
            <3>3. TakesSome(f[n], s, t, text, n)
                BY <1>1, <2>1, <2>2
            <3>4. TakesSome(Insert(text[n + 1], f[n]), s, t, text, n + 1)
                BY <2>1, <2>2, <3>3, InsertTakesSome
            <3> QED BY <3>1, <3>2, <3>4
        <2> QED BY <2>1, <2>2 DEF P
    <1>6. P = Nat
        <2> HIDE DEF P
        <2>1. P \in SUBSET Nat
            BY DEF P
        <2> QED BY <1>4, <1>5, <2>1, EveryNumber
    <1>7. \A n \in Nat : n <= Len(text) => TakesSome(f[n], s, t, text, n)
        BY <1>6
    <1> HIDE DEF P
    <1>8. PICK st : st = f[Len(text)]
        OBVIOUS
    <1>9. TakesSome(st, s, t, text, Len(text))
        BY <1>1, <1>7, <1>8
    <1>10. PICK m \in 0 .. Len(text) : TakesUpTo(st, s, t, text, Len(text), m)
        BY <1>9 DEF TakesSome
    <1>11. m \in Nat /\ m <= Len(text)
        BY <1>1
    <1>12. PICK taken : taken = Taken(text)[m]
        OBVIOUS
    <1>13. taken \in Seq(Chars)
        BY <1>12, TakenIs DEF Takes
    <1>14. IsText(st.b, (s \o taken) \o t)
        BY <1>10, <1>12 DEF TakesUpTo
    <1>15. BytesOf((s \o taken) \o t) <= Capacity
        BY <1>14 DEF IsText, ZeroAfter
    <1>16. s \o taken \in Seq(Chars)
        BY <1>13
    <1>17. /\ BytesOf((s \o taken) \o t) = BytesOf(s \o taken) + BytesOf(t)
           /\ BytesOf(s \o taken) = BytesOf(s) + BytesOf(taken)
           /\ BytesOf(s \o t) = BytesOf(s) + BytesOf(t)
        BY <1>13, <1>16, TotalsJoin
    <1>18. BytesOf(s) \in Nat /\ BytesOf(t) \in Nat /\ BytesOf(taken) \in Nat
        BY <1>13, TotalsJoin
    <1>19. BytesOf(s \o t) + TakenUpTo(text, m) <= Capacity
        <2>1. TakenUpTo(text, m) = BytesOf(taken)
            BY <1>12 DEF TakenUpTo
        <2> QED BY <1>15, <1>17, <1>18, <2>1, BufferAssumption
    <1>20. m < Len(text) => ~ (BytesOf(s \o t) + TakenUpTo(text, m + 1) <= Capacity)
        <2>1. st.full \in BOOLEAN /\ (~ st.full => m = Len(text))
            BY <1>10 DEF TakesUpTo
        <2>2. st.full => ~ (BytesOf(s \o t) + TakenUpTo(text, m + 1) <= Capacity)
            BY <1>10 DEF TakesUpTo
        <2> QED BY <1>1, <1>11, <2>1, <2>2
    <1>21. s \o t \in Seq(Chars)
        OBVIOUS
    <1>22. Fitting(s \o t, text) = taken
        BY <1>12, <1>19, <1>20, <1>21, FittingIs
    <1>23. (s \o taken) \o t \in Seq(Chars)
        BY <1>16
    <1> QED BY <1>2, <1>8, <1>14, <1>22, <1>23 DEF Inserted

---------------------------------------------------------------------------
(* SecretBuffer: positions                                                 *)

\* A text is what is before, between and after two positions.
LEMMA PartsOfText ==
    ASSUME NEW t \in Seq(Chars), NEW i \in 0 .. Len(t), NEW j \in 0 .. Len(t), i <= j
    PROVE  /\ SubSeq(t, 1, i) \in Seq(Chars) /\ Len(SubSeq(t, 1, i)) = i
           /\ SubSeq(t, i + 1, j) \in Seq(Chars) /\ Len(SubSeq(t, i + 1, j)) = j - i
           /\ SubSeq(t, j + 1, Len(t)) \in Seq(Chars)
           /\ SubSeq(t, 1, i) \o SubSeq(t, i + 1, j) = SubSeq(t, 1, j)
           /\ (SubSeq(t, 1, i) \o SubSeq(t, i + 1, j)) \o SubSeq(t, j + 1, Len(t)) = t
    <1>1. Len(t) \in Nat /\ i \in Nat /\ j \in Nat /\ i <= Len(t) /\ j <= Len(t)
        OBVIOUS
    <1>2. SubSeq(t, 1, i) \in Seq(Chars) /\ Len(SubSeq(t, 1, i)) = i
        <2>1. \A k \in 1 .. i : t[k] \in Chars
            BY <1>1
        <2>2. 1 \in Int /\ i \in Int /\ (IF 1 <= i THEN i - 1 + 1 ELSE 0) = i
            BY <1>1
        <2> QED BY <2>1, <2>2, SubSeqProperties
    <1>3. SubSeq(t, i + 1, j) \in Seq(Chars) /\ Len(SubSeq(t, i + 1, j)) = j - i
        <2>1. \A k \in i + 1 .. j : t[k] \in Chars
            BY <1>1
        <2>2. i + 1 \in Int /\ j \in Int /\ (IF i + 1 <= j THEN j - (i + 1) + 1 ELSE 0) = j - i
            BY <1>1
        <2> QED BY <2>1, <2>2, SubSeqProperties
    <1>4. SubSeq(t, j + 1, Len(t)) \in Seq(Chars)
        <2>1. \A k \in j + 1 .. Len(t) : t[k] \in Chars
            BY <1>1
        <2>2. j + 1 \in Int /\ Len(t) \in Int
            BY <1>1
        <2> QED BY <2>1, <2>2, SubSeqProperties
    <1>5. SubSeq(t, 1, i) \o SubSeq(t, i + 1, j) = SubSeq(t, 1, j)
        <2>1. 1 \in 1 .. Len(t) + 1 /\ i \in 1 - 1 .. Len(t) /\ j \in i .. Len(t)
            BY <1>1
        <2> QED BY <2>1, ConcatAdjacentSubSeq
    <1>6. SubSeq(t, 1, j) \o SubSeq(t, j + 1, Len(t)) = SubSeq(t, 1, Len(t))
        <2>1. 1 \in 1 .. Len(t) + 1 /\ j \in 1 - 1 .. Len(t) /\ Len(t) \in j .. Len(t)
            BY <1>1
        <2> QED BY <2>1, ConcatAdjacentSubSeq
    <1>7. SubSeq(t, 1, Len(t)) = t
        BY SubSeqFull
    <1> QED BY <1>2, <1>3, <1>4, <1>5, <1>6, <1>7

\* What is before a position adds up to what the position has.
LEMMA SumsOfStart ==
    ASSUME NEW t \in Seq(Chars), NEW i \in 0 .. Len(t), NEW w \in [Chars -> Nat]
    PROVE  Sums(SubSeq(t, 1, i), w)[i] = Sums(t, w)[i]
    <1>1. Len(t) \in 0 .. Len(t) /\ i <= Len(t) /\ i \in 0 .. i
        OBVIOUS
    <1>2. PICK s : s = SubSeq(t, 1, i)
        OBVIOUS
    <1>3. PICK u : u = SubSeq(t, i + 1, Len(t))
        OBVIOUS
    <1>4. /\ s \in Seq(Chars) /\ Len(s) = i /\ u \in Seq(Chars)
          /\ s \o u = SubSeq(t, 1, Len(t))
        BY <1>1, <1>2, <1>3, PartsOfText
    <1>5. s \o u = t
        BY <1>4, SubSeqFull
    <1>6. \A k \in 0 .. Len(s) : Sums(s \o u, w)[k] = Sums(s, w)[k]
        BY <1>4, SumsJoin
    <1> QED BY <1>1, <1>2, <1>4, <1>5, <1>6

\* Where the walk is after the first i characters of t
Position(t, i) == [offset |-> Offsets(t)[i], points |-> i, units |-> Sums(t, Units)[i]]

\* Two positions have different bytes and different units before them.
LEMMA PositionsDiffer ==
    ASSUME NEW t \in Seq(Chars), NEW i \in 0 .. Len(t), NEW j \in 0 .. Len(t), i < j
    PROVE  /\ Offsets(t)[i] \in Nat /\ Offsets(t)[j] \in Nat
           /\ Sums(t, Units)[i] \in Nat /\ Sums(t, Units)[j] \in Nat
           /\ Offsets(t)[i] < Offsets(t)[j] /\ Sums(t, Units)[i] < Sums(t, Units)[j]
    <1>1. i \in Nat /\ j \in Nat /\ i <= j
        OBVIOUS
    <1>2. Offsets(t)[i] \in Nat /\ Offsets(t)[j] \in Nat
        BY CharactersCount, SumsAre DEF Offsets
    <1>3. Sums(t, Units)[i] \in Nat /\ Sums(t, Units)[j] \in Nat
        BY CharactersCount, SumsAre
    <1>4. Offsets(t)[i] + (j - i) <= Offsets(t)[j]
        BY <1>1, CharactersCount, SumsGrow DEF Offsets
    <1>5. Sums(t, Units)[i] + (j - i) <= Sums(t, Units)[j]
        BY <1>1, CharactersCount, SumsGrow
    <1> QED BY <1>1, <1>2, <1>3, <1>4, <1>5

LEMMA RoundIs ==
    ASSUME NEW t \in Seq(Chars), NEW b, IsText(b, t), NEW i \in 0 .. Len(t)
    PROVE  Round(b, Position(t, i)) = Position(t, IF i < Len(t) THEN i + 1 ELSE i)
    <1>1. Len(t) \in Nat /\ i \in Nat /\ Len(t) \in 0 .. Len(t)
        OBVIOUS
    <1>2. b.size = Offsets(t)[Len(t)]
        BY DEF IsText, BytesOf
    <1>3. PICK p : p = Position(t, i)
        OBVIOUS
    <1>4. p.offset = Offsets(t)[i] /\ p.points = i /\ p.units = Sums(t, Units)[i]
        BY <1>3 DEF Position
    <1>5. CASE i = Len(t)
        <2>1. Offsets(t)[i] \in Nat
            BY CharactersCount, SumsAre DEF Offsets
        <2>2. p.offset >= b.size
            BY <1>2, <1>4, <1>5, <2>1
        <2>3. Round(b, p) = p
            BY <2>2 DEF Round
        <2> QED BY <1>1, <1>3, <1>5, <2>3
    <1>6. CASE i < Len(t)
        <2>1. PICK x \in 1 .. Len(t) : x = i + 1 /\ x - 1 = i
            BY <1>1, <1>6
        <2>2. t[x] \in Chars
            BY <2>1
        <2>3. Width[t[x]] \in 1 .. 4
            BY <2>2, CharactersCount
        <2>4. Offsets(t)[i] \in Nat /\ Offsets(t)[Len(t)] \in Nat /\ Offsets(t)[i] < Offsets(t)[Len(t)]
            BY <1>1, <1>6, PositionsDiffer
        <2>5. ~ (p.offset >= b.size)
            BY <1>2, <1>4, <2>4
        <2>6. b.bytes[0 + Offsets(t)[x - 1] + 1] = <<t[x], 1>>
            <3>1. 1 \in 1 .. Width[t[x]]
                BY <2>3
            <3> QED BY <2>1, <3>1 DEF IsText, LaidOut
        <2>7. 0 + Offsets(t)[x - 1] + 1 = p.offset + 1
            BY <1>4, <2>1, <2>4
        <2>8. b.bytes[p.offset + 1][1] = t[x]
            BY <2>6, <2>7
        <2>9. Round(b, p) = [offset |-> p.offset + Width[t[x]], points |-> p.points + 1,
                               units |-> p.units + Units[t[x]]]
            BY <2>5, <2>8 DEF Round
        <2>10. Offsets(t)[x] = Offsets(t)[x - 1] + Width[t[x]]
            BY <2>1, CharactersCount, SumsAre DEF Offsets
        <2>11. Sums(t, Units)[x] = Sums(t, Units)[x - 1] + Units[t[x]]
            BY <2>1, CharactersCount, SumsAre
        <2>12. Round(b, p) = Position(t, i + 1)
            BY <1>4, <2>1, <2>9, <2>10, <2>11 DEF Position
        <2> QED BY <1>3, <1>6, <2>12
    <1> QED BY <1>1, <1>5, <1>6

\* How many characters n rounds pass
Passed(t, n) == IF n < Len(t) THEN n ELSE Len(t)

\* locateUtf16 stands between two characters at every round.
LEMMA WalkIs ==
    ASSUME NEW t \in Seq(Chars), NEW b, IsText(b, t)
    PROVE  /\ b.size \in Nat /\ Len(t) <= b.size
           /\ \A n \in 0 .. b.size : Walk(b)[n] = Position(t, Passed(t, n))
    <1>1. Len(t) \in Nat /\ 0 \in 0 .. Len(t) /\ Len(t) \in 0 .. Len(t)
        OBVIOUS
    <1>2. b.size \in Nat /\ b.size = Offsets(t)[Len(t)]
        BY TotalsJoin DEF IsText, BytesOf
    <1>3. Len(t) <= b.size
        <2>1. Offsets(t)[0] + (Len(t) - 0) <= Offsets(t)[Len(t)]
            <3>1. 0 <= Len(t)
                BY <1>1
            <3> QED BY <1>1, <3>1, CharactersCount, SumsGrow DEF Offsets
        <2>2. Offsets(t)[0] = 0
            BY CharactersCount, SumsAre DEF Offsets
        <2> QED BY <1>1, <1>2, <2>1, <2>2
    <1>4. PICK start : start = [offset |-> 0, points |-> 0, units |-> 0]
        OBVIOUS
    <1>5. start = Position(t, Passed(t, 0))
        <2>1. Passed(t, 0) = 0
            BY <1>1 DEF Passed
        <2>2. Offsets(t)[0] = 0 /\ Sums(t, Units)[0] = 0
            BY CharactersCount, SumsAre DEF Offsets
        <2> QED BY <1>4, <2>1, <2>2 DEF Position
    <1>6. ASSUME NEW n \in 1 .. b.size
          PROVE  Position(t, Passed(t, n)) = Round(b, Position(t, Passed(t, n - 1)))
        <2>1. PICK i : i = Passed(t, n - 1)
            OBVIOUS
        <2>2. i \in 0 .. Len(t) /\ Passed(t, n) = IF i < Len(t) THEN i + 1 ELSE i
            BY <1>1, <1>2, <2>1 DEF Passed
        <2> QED BY <2>1, <2>2, RoundIs
    <1>7. PICK f : f = [n \in 0 .. b.size |-> Position(t, Passed(t, n))]
        OBVIOUS
    <1>8. f = [n \in 0 .. b.size |-> IF n = 0 THEN start ELSE Round(b, f[n - 1])]
        <2>1. ASSUME NEW n \in 0 .. b.size
              PROVE  f[n] = IF n = 0 THEN start ELSE Round(b, f[n - 1])
            <3>1. CASE n = 0
                BY <1>5, <1>7, <3>1
            <3>2. CASE n # 0
                <4>1. n \in 1 .. b.size /\ n - 1 \in 0 .. b.size
                    BY <1>2, <3>2
                <4>2. f[n - 1] = Position(t, Passed(t, n - 1)) /\ f[n] = Position(t, Passed(t, n))
                    BY <1>7, <4>1
                <4> QED BY <1>6, <3>2, <4>1, <4>2
            <3> QED BY <3>1, <3>2
        <2>2. f = [n \in 0 .. b.size |-> f[n]]
            BY <1>7
        <2> QED BY <2>1, <2>2
    <1>9. PICK g : g = Walk(b)
        OBVIOUS
    <1>10. g = [n \in 0 .. b.size |-> IF n = 0 THEN start ELSE Round(b, g[n - 1])]
        BY <1>4, <1>8, <1>9 DEF Walk
    <1> DEFINE P == {n \in Nat : n <= b.size => g[n] = Position(t, Passed(t, n))}
    <1>11. 0 \in P
        <2>1. 0 \in 0 .. b.size
            BY <1>2
        <2>2. g[0] = start
            BY <1>10, <2>1
        <2>3. g[0] = Position(t, Passed(t, 0))
            BY <1>5, <2>2
        <2> QED BY <2>3
    <1>12. ASSUME NEW n \in P PROVE n + 1 \in P
        <2>1. n \in Nat /\ n + 1 \in Nat /\ (n <= b.size => g[n] = Position(t, Passed(t, n)))
            OBVIOUS
        <2> HIDE DEF P
        <2>2. ASSUME n + 1 <= b.size PROVE g[n + 1] = Position(t, Passed(t, n + 1))
            <3>1. PICK x \in 1 .. b.size : x = n + 1 /\ x - 1 = n /\ x \in 0 .. b.size /\ x # 0
                BY <1>2, <2>1, <2>2
            <3>2. g[x] = Round(b, g[x - 1])
                BY <1>10, <3>1
            <3>3. g[n] = Position(t, Passed(t, n))
                BY <1>2, <2>1, <2>2
            <3>4. Position(t, Passed(t, x)) = Round(b, Position(t, Passed(t, x - 1)))
                BY <1>6
            <3> QED BY <3>1, <3>2, <3>3, <3>4
        <2> QED BY <2>1, <2>2 DEF P
    <1>13. P = Nat
        <2> HIDE DEF P
        <2>1. P \in SUBSET Nat
            BY DEF P
        <2> QED BY <1>11, <1>12, <2>1, EveryNumber
    <1>14. \A n \in Nat : n <= b.size => g[n] = Position(t, Passed(t, n))
        BY <1>13
    <1> HIDE DEF P
    <1>15. \A n \in 0 .. b.size : n \in Nat /\ n <= b.size
        BY <1>2
    <1> QED BY <1>2, <1>3, <1>9, <1>14, <1>15

\* locateUtf16 finds the one position between characters that has so many units
\* before it, or none if there is none.
LEMMA LocatedIs ==
    ASSUME NEW t \in Seq(Chars), NEW b, IsText(b, t), NEW u
    PROVE  /\ Before(t, u) = {} => Located(b, u) = {}
           /\ \A i \in Before(t, u) :
                  /\ i \in 0 .. Len(t) /\ Sums(t, Units)[i] = u
                  /\ Located(b, u) # {} /\ The(Located(b, u)) = Position(t, i)
                  /\ Max(Before(t, u)) = i
    <1>1. Len(t) \in Nat
        OBVIOUS
    <1>2. /\ b.size \in Nat /\ Len(t) <= b.size
          /\ \A n \in 0 .. b.size : Walk(b)[n] = Position(t, Passed(t, n))
        BY WalkIs
    <1>3. \A n \in 0 .. b.size : Passed(t, n) \in 0 .. Len(t)
        BY <1>1, <1>2 DEF Passed
    <1>4. \A i \in 0 .. Len(t) : i \in 0 .. b.size /\ Passed(t, i) = i
        BY <1>1, <1>2 DEF Passed
    <1>5. \A i : Position(t, i).units = Sums(t, Units)[i]
        BY DEF Position
    <1>6. \A p : p \in Located(b, u) <=> \E i \in Before(t, u) : p = Position(t, i)
        <2>1. ASSUME NEW p \in Located(b, u) PROVE \E i \in Before(t, u) : p = Position(t, i)
            <3>1. PICK n \in 0 .. b.size : p = Walk(b)[n] /\ p.units = u
                BY DEF Located
            <3>2. PICK i \in 0 .. Len(t) : i = Passed(t, n)
                BY <1>3, <3>1
            <3>3. p = Position(t, i)
                BY <1>2, <3>1, <3>2
            <3>4. i \in Before(t, u)
                BY <1>5, <3>1, <3>2, <3>3 DEF Before
            <3> QED BY <3>3, <3>4
        <2>2. ASSUME NEW i \in Before(t, u) PROVE Position(t, i) \in Located(b, u)
            <3>1. i \in 0 .. Len(t) /\ Sums(t, Units)[i] = u
                BY DEF Before
            <3>2. i \in 0 .. b.size /\ Walk(b)[i] = Position(t, i)
                BY <1>2, <1>4, <3>1
            <3>3. Position(t, i).units = u
                BY <1>5, <3>1
            <3> QED BY <3>2, <3>3 DEF Located
        <2> QED BY <2>1, <2>2
    <1>7. ASSUME NEW i \in Before(t, u)
          PROVE  /\ i \in 0 .. Len(t) /\ Sums(t, Units)[i] = u
                 /\ Located(b, u) # {} /\ The(Located(b, u)) = Position(t, i)
                 /\ Max(Before(t, u)) = i
        <2>1. i \in 0 .. Len(t) /\ Sums(t, Units)[i] = u /\ i \in Nat
            BY <1>1 DEF Before
        <2>2. ASSUME NEW j \in Before(t, u) PROVE j = i
            <3>1. j \in 0 .. Len(t) /\ Sums(t, Units)[j] = u /\ j \in Nat
                BY <1>1 DEF Before
            <3>2. ASSUME i < j PROVE FALSE
                <4>1. Sums(t, Units)[i] \in Nat /\ Sums(t, Units)[i] < Sums(t, Units)[j]
                    BY <2>1, <3>1, <3>2, PositionsDiffer
                <4> QED BY <2>1, <3>1, <4>1
            <3>3. ASSUME j < i PROVE FALSE
                <4>1. Sums(t, Units)[j] \in Nat /\ Sums(t, Units)[j] < Sums(t, Units)[i]
                    BY <2>1, <3>1, <3>3, PositionsDiffer
                <4> QED BY <2>1, <3>1, <4>1
            <3> QED BY <2>1, <3>1, <3>2, <3>3
        <2>3. Before(t, u) = {i}
            BY <2>2
        <2>4. Located(b, u) = {Position(t, i)}
            BY <1>6, <2>3
        <2>5. The(Located(b, u)) = Position(t, i)
            BY <2>4 DEF The
        <2>6. Max({i}) = i
            BY <2>1 DEF Max
        <2> QED BY <2>1, <2>3, <2>4, <2>5, <2>6
    <1>8. Before(t, u) = {} => Located(b, u) = {}
        BY <1>6
    <1> QED BY <1>7, <1>8

---------------------------------------------------------------------------
(* SecretBuffer: the edits                                                 *)

\* A replacement between two positions is one of the characters between them.
LEMMA TextIsReplaced ==
    ASSUME NEW t \in Seq(Chars), NEW b, IsText(b, t), NEW new \in Inputs,
           NEW i \in 0 .. Len(t), NEW j \in 0 .. Len(t), i <= j
    PROVE  /\ IsText(Inserted([bytes |-> Cut(b, Offsets(t)[i], Offsets(t)[j]),
                               size |-> b.size - (Offsets(t)[j] - Offsets(t)[i]),
                               points |-> b.points - (j - i),
                               units |-> b.units - (Sums(t, Units)[j] - Sums(t, Units)[i])],
                              Offsets(t)[i], new),
                     Spliced(t, i, j, new))
           /\ Spliced(t, i, j, new) \in Seq(Chars)
    <1>1. PICK s : s = SubSeq(t, 1, i)
        OBVIOUS
    <1>2. PICK u : u = SubSeq(t, i + 1, j)
        OBVIOUS
    <1>3. PICK r : r = SubSeq(t, j + 1, Len(t))
        OBVIOUS
    <1>4. /\ s \in Seq(Chars) /\ Len(s) = i /\ u \in Seq(Chars) /\ Len(u) = j - i
          /\ r \in Seq(Chars) /\ s \o u = SubSeq(t, 1, j) /\ (s \o u) \o r = t
        BY <1>1, <1>2, <1>3, PartsOfText
    <1>13. /\ Sums(SubSeq(t, 1, i), Width)[i] = Sums(t, Width)[i]
          /\ Sums(SubSeq(t, 1, i), Units)[i] = Sums(t, Units)[i]
          /\ Sums(SubSeq(t, 1, j), Width)[j] = Sums(t, Width)[j]
          /\ Sums(SubSeq(t, 1, j), Units)[j] = Sums(t, Units)[j]
        BY CharactersCount, SumsOfStart
    <1>5. BytesOf(s) = Offsets(t)[i]
        BY <1>1, <1>4, <1>13 DEF BytesOf, Offsets
    <1>6. /\ Len(s \o u) = j /\ s \o u \in Seq(Chars)
        <2>1. Len(s \o u) = Len(s) + Len(u) /\ i \in Nat /\ j \in Nat
            BY <1>4
        <2> QED BY <1>4, <2>1
    <1>7. BytesOf(s \o u) = Offsets(t)[j]
        BY <1>4, <1>6, <1>13 DEF BytesOf, Offsets
    <1>8. UnitsOf(u) = Sums(t, Units)[j] - Sums(t, Units)[i]
        <2>1. UnitsOf(s) = Sums(t, Units)[i]
            BY <1>1, <1>4, <1>13 DEF UnitsOf
        <2>2. UnitsOf(s \o u) = Sums(t, Units)[j]
            BY <1>4, <1>6, <1>13 DEF UnitsOf
        <2>3. UnitsOf(s \o u) = UnitsOf(s) + UnitsOf(u) /\ UnitsOf(s) \in Nat /\ UnitsOf(u) \in Nat
            BY <1>4, TotalsJoin
        <2> QED BY <2>1, <2>2, <2>3
    <1>9. PICK q : q = [bytes |-> Cut(b, Offsets(t)[i], Offsets(t)[j]),
                        size |-> b.size - (Offsets(t)[j] - Offsets(t)[i]),
                        points |-> b.points - (j - i),
                        units |-> b.units - (Sums(t, Units)[j] - Sums(t, Units)[i])]
        OBVIOUS
    <1>10. IsText(q, s \o r)
        <2>1. IsText(b, (s \o u) \o r)
            BY <1>4
        <2>2. IsText([bytes |-> Cut(b, BytesOf(s), BytesOf(s \o u)),
                      size |-> b.size - (BytesOf(s \o u) - BytesOf(s)),
                      points |-> b.points - Len(u), units |-> b.units - UnitsOf(u)],
                     s \o r)
            BY <1>4, <2>1, CharactersAreCut
        <2> QED BY <1>4, <1>5, <1>7, <1>8, <1>9, <2>2
    <1>11. /\ IsText(Inserted(q, BytesOf(s), new), (s \o Fitting(s \o r, new)) \o r)
           /\ (s \o Fitting(s \o r, new)) \o r \in Seq(Chars)
        BY <1>4, <1>10, TextIsInserted
    <1>12. Spliced(t, i, j, new) = (s \o Fitting(s \o r, new)) \o r
        BY <1>1, <1>3 DEF Spliced
    <1> QED BY <1>5, <1>9, <1>11, <1>12

\* What becomes of the variables of a buffer is what its text becomes.
Keeps == typed \in Seq(Chars) /\ IsText(Buffer, typed)

LEMMA BecomeKeeps ==
    ASSUME NEW b, NEW t \in Seq(Chars), IsText(b, t), Become(b, t)
    PROVE  Keeps'
    BY DEF Keeps, Become, IsText, ZeroAfter, Buffer

LEMMA AppendKeeps ==
    ASSUME Keeps, NEW text \in Texts, AppendText(text)
    PROVE  Keeps'
    <1>1. typed \in Seq(Chars) /\ IsText(Buffer, typed) /\ text \in Inputs
        BY TextsAreInputs DEF Keeps
    <1>2. typed \o <<>> = typed /\ <<>> \in Seq(Chars)
        BY <1>1, ConcatEmptySeq
    <1>3. size = BytesOf(typed)
        BY <1>1 DEF IsText, Buffer
    <1>4. PICK new : new = (typed \o Fitting(typed \o <<>>, text)) \o <<>>
        OBVIOUS
    <1>5. IsText(Inserted(Buffer, size, text), new) /\ new \in Seq(Chars)
        BY <1>1, <1>2, <1>3, <1>4, TextIsInserted
    <1>6. SubSeq(typed, 1, Len(typed)) = typed
        BY <1>1, SubSeqFull
    <1>7. SubSeq(typed, Len(typed) + 1, Len(typed)) = <<>>
        <2>1. Len(typed) + 1 \in Int /\ Len(typed) \in Int /\ Len(typed) < Len(typed) + 1
            BY <1>1
        <2> QED BY <2>1, SubSeqEmpty
    <1>8. Spliced(typed, Len(typed), Len(typed), text) = new
        BY <1>4, <1>6, <1>7 DEF Spliced
    <1>9. Become(Inserted(Buffer, size, text), new)
        BY <1>8 DEF AppendText
    <1> QED BY <1>5, <1>9, BecomeKeeps

LEMMA RemoveLastKeeps ==
    ASSUME Keeps, RemoveLast
    PROVE  Keeps'
    <1>1. typed \in Seq(Chars) /\ IsText(Buffer, typed) /\ size > 0
        BY DEF Keeps, RemoveLast
    <1>2. size = BytesOf(typed)
        BY <1>1 DEF IsText, Buffer
    <1>3. typed # <<>>
        BY <1>1, <1>2, TotalsOfFew
    <1>4. PICK s \in Seq(Chars), c \in Chars : typed = Append(s, c)
        BY <1>1, <1>3, SequenceEmptyOrAppend
    <1>5. typed = s \o <<c>> /\ <<c>> \in Seq(Chars)
        BY <1>4, AppendIsConcat
    <1>6. PICK m \in Nat : m = BytesOf(s)
        BY TotalsJoin
    <1>7. PICK w \in 1 .. 4 : w = Width[c]
        BY CharactersCount
    <1>8. BytesOf(<<c>>) = w /\ UnitsOf(<<c>>) = Units[c] /\ Units[c] = IF w = 4 THEN 2 ELSE 1
        BY <1>7, TotalsOfFew, CharactersCount
    <1>9. size = m + w
        BY <1>2, <1>5, <1>6, <1>8, TotalsJoin
    <1>10. Len(typed) = Len(s) + 1 /\ Len(s) \in Nat /\ typed[Len(s) + 1] = c
        BY <1>4
    <1>11. \A k \in 1 .. w : bytes[m + k] = <<c, k>>
        <2>1. LaidOut(bytes, s \o <<c>>, 0)
            BY <1>1, <1>5 DEF IsText, Buffer
        <2>2. 0 + m = m /\ 0 \in Nat
            OBVIOUS
        <2>3. LaidOut(bytes, <<c>>, m)
            <3>1. LaidOut(bytes, <<c>>, 0 + BytesOf(s))
                BY <1>5, <2>1, <2>2, TextsJoin
            <3> QED BY <1>6, <2>2, <3>1
        <2> QED BY <1>7, <2>3, OneIsLaidOut
    <1>12. LastLead(Buffer) = m + 1
        <2>1. PICK T : T = {i \in 1 .. size : bytes[i][2] = 1}
            OBVIOUS
        <2>2. m + 1 \in T
            <3>1. 1 \in 1 .. w /\ m + 1 \in 1 .. size
                BY <1>9
            <3>2. bytes[m + 1] = <<c, 1>>
                BY <1>11, <3>1
            <3>3. bytes[m + 1][2] = 1
                BY <3>2
            <3> QED BY <2>1, <3>1, <3>3
        <2>3. ASSUME NEW i \in T PROVE i \in Nat /\ i <= m + 1
            <3>1. i \in 1 .. size /\ bytes[i][2] = 1
                BY <2>1
            <3>2. i \in Nat /\ i <= m + w
                BY <1>9, <3>1
            <3> SUFFICES ASSUME i > m + 1 PROVE FALSE
                BY <3>2
            <3>3. PICK k \in 1 .. w : i = m + k /\ k # 1
                <4>1. i - m \in 1 .. w /\ i = m + (i - m) /\ i - m # 1
                    BY <3>2
                <4> QED BY <4>1
            <3>4. bytes[i] = <<c, k>>
                BY <1>11, <3>3
            <3>5. bytes[i][2] = k
                BY <3>4
            <3> QED BY <3>1, <3>3, <3>5
        <2>4. Max(T) = CHOOSE x \in T : \A y \in T : x >= y
            BY DEF Max
        <2>5. \A y \in T : m + 1 >= y
            BY <2>3
        <2>6. \A x \in T : (\A y \in T : x >= y) => x = m + 1
            BY <2>2, <2>3
        <2>7. Max(T) = m + 1
            BY <2>2, <2>4, <2>5, <2>6
        <2> QED BY <2>1, <2>7 DEF LastLead, Buffer
    <1>13. LastLead(Buffer) - 1 = m
        BY <1>12
    <1>14. PICK q : q = [bytes |-> [i \in 1 .. Capacity |->
                                      IF i > m /\ i <= size THEN Zero ELSE bytes[i]],
                         size |-> m, points |-> codePoints - 1,
                         units |-> utf16Units - (IF size - m = 4 THEN 2 ELSE 1)]
        OBVIOUS
    <1>15. Become(q, SubSeq(typed, 1, Len(typed) - 1))
        BY <1>13, <1>14 DEF RemoveLast
    <1>16. SubSeq(typed, 1, Len(typed) - 1) = s
        <2>1. Len(typed) - 1 = Len(s)
            BY <1>10
        <2>2. SubSeq(s \o <<c>>, 1, Len(s)) = s
            BY <1>5
        <2> QED BY <1>5, <2>1, <2>2
    <1>17. (s \o <<c>>) \o <<>> = typed /\ s \o <<>> = s /\ <<>> \in Seq(Chars)
        BY <1>1, <1>5, ConcatEmptySeq
    <1>18. IsText([bytes |-> Cut(Buffer, BytesOf(s), BytesOf(s \o <<c>>)),
                   size |-> Buffer.size - (BytesOf(s \o <<c>>) - BytesOf(s)),
                   points |-> Buffer.points - Len(<<c>>), units |-> Buffer.units - UnitsOf(<<c>>)],
                  s \o <<>>)
        BY <1>1, <1>5, <1>17, CharactersAreCut
    <1>19. BytesOf(s \o <<c>>) = m + w
        BY <1>2, <1>5, <1>9
    <1>20. IsText([bytes |-> Cut(Buffer, m, m + w), size |-> size - (m + w - m),
                   points |-> codePoints - 1, units |-> utf16Units - Units[c]], s)
        <2>1. Len(<<c>>) = 1
            OBVIOUS
        <2> QED BY <1>6, <1>8, <1>17, <1>18, <1>19, <2>1 DEF Buffer
    <1>21. q = [bytes |-> Cut(Buffer, m, m + w), size |-> size - (m + w - m),
                points |-> codePoints - 1, units |-> utf16Units - Units[c]]
        <2>1. size - (m + w - m) = m /\ size - m = w
            BY <1>9
        <2>2. Cut(Buffer, m, m + w) = [i \in 1 .. Capacity |->
                                          IF i > m /\ i <= size THEN Zero ELSE bytes[i]]
            <3>1. Cut(Buffer, m, m + w)
                    = [i \in 1 .. Capacity |->
                          IF i <= m \/ i > size THEN bytes[i]
                          ELSE IF i <= size - (m + w - m) THEN bytes[i + (m + w - m)] ELSE Zero]
                BY DEF Cut, Buffer
            <3>2. \A i \in 1 .. Capacity : i \in Nat
                BY BufferAssumption
            <3>3. m \in Nat /\ w \in Nat
                BY <1>6, <1>7
            <3>4. ASSUME NEW i \in 1 .. Capacity
                  PROVE  (IF i <= m \/ i > size THEN bytes[i]
                          ELSE IF i <= size - (m + w - m) THEN bytes[i + (m + w - m)] ELSE Zero)
                             = IF i > m /\ i <= size THEN Zero ELSE bytes[i]
                <4>1. i \in Nat
                    BY <3>2
                <4> QED BY <1>9, <2>1, <3>3, <4>1
            <3> QED BY <3>1, <3>4
        <2> QED BY <1>8, <1>14, <2>1, <2>2
    <1>22. IsText(q, s) /\ Become(q, s)
        BY <1>15, <1>16, <1>20, <1>21
    <1> QED BY <1>22, BecomeKeeps

\* A buffer that is cleared has the text without characters.
LEMMA ZeroIsText ==
    <<>> \in Seq(Chars) /\ IsText([bytes |-> [i \in 1 .. Capacity |-> Zero], size |-> 0, points |-> 0, units |-> 0], <<>>)
    <1>1. PICK b : b = [bytes |-> [i \in 1 .. Capacity |-> Zero], size |-> 0, points |-> 0, units |-> 0]
        OBVIOUS
    <1>2. b.bytes \in [1 .. Capacity -> ByteValues]
        BY <1>1 DEF ByteValues
    <1>3. b.size = BytesOf(<<>>) /\ b.points = Len(<<>>) /\ b.units = UnitsOf(<<>>)
        BY <1>1, TotalsOfFew
    <1>4. LaidOut(b.bytes, <<>>, 0)
        BY DEF LaidOut
    <1>5. ZeroAfter(b)
        <2>1. b.size = 0 /\ Capacity \in Nat
            BY <1>1, BufferAssumption
        <2>2. \A i \in 0 + 1 .. Capacity : b.bytes[i] = Zero
            BY <1>1, <2>1
        <2> QED BY <2>1, <2>2 DEF ZeroAfter
    <1> QED BY <1>1, <1>2, <1>3, <1>4, <1>5 DEF IsText

LEMMA ClearKeeps ==
    ASSUME Clear
    PROVE  Keeps'
    BY ZeroIsText, BecomeKeeps DEF Clear

LEMMA ReplaceKeeps ==
    ASSUME Keeps, NEW start \in -Capacity .. 1, NEW length \in -1 .. Capacity,
           NEW text \in Texts, Replace(start, length, text)
    PROVE  Keeps'
    <1>1. typed \in Seq(Chars) /\ IsText(Buffer, typed) /\ text \in Inputs
        BY TextsAreInputs DEF Keeps
    <1>2. start \in Int /\ length \in Int /\ UnitsOf(typed) \in Nat /\ Len(typed) \in Nat
        BY <1>1, BufferAssumption, TotalsJoin
    <1>3. utf16Units = UnitsOf(typed)
        BY <1>1 DEF IsText, Buffer
    <1>4. PICK x : x = UnitsOf(typed) + start
        OBVIOUS
    <1>5. PICK y : y = UnitsOf(typed) + start + length
        OBVIOUS
    <1>6. x \in Int /\ y \in Int /\ y = x + length
        BY <1>2, <1>4, <1>5
    <1>7. PICK first : first = Before(typed, x)
        OBVIOUS
    <1>8. PICK last : last = Before(typed, y)
        OBVIOUS
    <1>9. PICK from : from = Located(Buffer, x)
        OBVIOUS
    <1>10. PICK to : to = Located(Buffer, y)
        OBVIOUS
    <1>11. Replaced(start, length, text)
             = IF start > 0 \/ length < 0 \/ from = {} \/ to = {} THEN Buffer
               ELSE Inserted([bytes |-> Cut(Buffer, The(from).offset, The(to).offset),
                              size |-> size - (The(to).offset - The(from).offset),
                              points |-> codePoints - (The(to).points - The(from).points),
                              units |-> utf16Units - length],
                             The(from).offset, text)
        BY <1>3, <1>4, <1>5, <1>9, <1>10 DEF Replaced
    <1>12. Edited(typed, start, length, text)
             = IF length < 0 \/ first = {} \/ last = {} THEN typed
               ELSE Spliced(typed, Max(first), Max(last), text)
        BY <1>4, <1>5, <1>7, <1>8 DEF Edited
    <1>13. ASSUME start > 0 PROVE first = {}
        <2> SUFFICES ASSUME NEW i \in first PROVE FALSE
            OBVIOUS
        <2>1. i \in 0 .. Len(typed) /\ Sums(typed, Units)[i] = x /\ i \in Nat /\ i <= Len(typed)
            BY <1>2, <1>7 DEF Before
        <2>2. Sums(typed, Units)[i] + (Len(typed) - i) <= Sums(typed, Units)[Len(typed)]
            <3>1. Len(typed) \in 0 .. Len(typed)
                BY <1>2
            <3> QED BY <1>1, <2>1, <3>1, CharactersCount, SumsGrow
        <2>3. x + (Len(typed) - i) <= UnitsOf(typed)
            BY <2>1, <2>2 DEF UnitsOf
        <2> QED BY <1>2, <1>4, <1>6, <1>13, <2>1, <2>3
    <1>14. /\ first = {} => from = {}
           /\ last = {} => to = {}
           /\ \A i \in first : /\ i \in 0 .. Len(typed) /\ Sums(typed, Units)[i] = x
                               /\ from # {} /\ The(from) = Position(typed, i) /\ Max(first) = i
           /\ \A j \in last : /\ j \in 0 .. Len(typed) /\ Sums(typed, Units)[j] = y
                              /\ to # {} /\ The(to) = Position(typed, j) /\ Max(last) = j
        BY <1>1, <1>7, <1>8, <1>9, <1>10, LocatedIs
    <1>15. ASSUME length < 0 \/ first = {} \/ last = {}
           PROVE  IsText(Replaced(start, length, text), Edited(typed, start, length, text))
        <2>1. Replaced(start, length, text) = Buffer
            BY <1>11, <1>14, <1>15
        <2>2. Edited(typed, start, length, text) = typed
            BY <1>12, <1>15
        <2> QED BY <1>1, <2>1, <2>2
    <1>16. ASSUME ~ (length < 0 \/ first = {} \/ last = {})
           PROVE  /\ IsText(Replaced(start, length, text), Edited(typed, start, length, text))
                  /\ Edited(typed, start, length, text) \in Seq(Chars)
        <2>1. PICK i \in first : TRUE
            BY <1>16
        <2>2. PICK j \in last : TRUE
            BY <1>16
        <2>3. /\ i \in 0 .. Len(typed) /\ Sums(typed, Units)[i] = x
              /\ from # {} /\ The(from) = Position(typed, i) /\ Max(first) = i
            BY <1>14
        <2>4. /\ j \in 0 .. Len(typed) /\ Sums(typed, Units)[j] = y
              /\ to # {} /\ The(to) = Position(typed, j) /\ Max(last) = j
            BY <1>14
        <2>5. i \in Nat /\ j \in Nat
            BY <1>2, <2>3, <2>4
        <2>6. i <= j
            <3> SUFFICES ASSUME j < i PROVE FALSE
                BY <2>5
            <3>1. Sums(typed, Units)[j] < Sums(typed, Units)[i]
                BY <1>1, <2>3, <2>4, PositionsDiffer
            <3> QED BY <1>2, <1>6, <1>16, <2>3, <2>4, <3>1
        <2>7. y - x = length
            BY <1>2, <1>6
        <2>8. ~ (start > 0 \/ length < 0 \/ from = {} \/ to = {})
            BY <1>13, <1>16, <2>3, <2>4
        <2>9. /\ The(from).offset = Offsets(typed)[i] /\ The(from).points = i
              /\ The(to).offset = Offsets(typed)[j] /\ The(to).points = j
            BY <2>3, <2>4 DEF Position
        <2>10. Replaced(start, length, text)
                 = Inserted([bytes |-> Cut(Buffer, Offsets(typed)[i], Offsets(typed)[j]),
                             size |-> size - (Offsets(typed)[j] - Offsets(typed)[i]),
                             points |-> codePoints - (j - i), units |-> utf16Units - length],
                            Offsets(typed)[i], text)
            BY <1>11, <2>8, <2>9
        <2>11. Edited(typed, start, length, text) = Spliced(typed, i, j, text)
            BY <1>12, <1>16, <2>3, <2>4
        <2>12. /\ IsText(Inserted([bytes |-> Cut(Buffer, Offsets(typed)[i], Offsets(typed)[j]),
                                   size |-> Buffer.size - (Offsets(typed)[j] - Offsets(typed)[i]),
                                   points |-> Buffer.points - (j - i),
                                   units |-> Buffer.units
                                                - (Sums(typed, Units)[j] - Sums(typed, Units)[i])],
                                  Offsets(typed)[i], text),
                         Spliced(typed, i, j, text))
               /\ Spliced(typed, i, j, text) \in Seq(Chars)
            BY <1>1, <2>3, <2>4, <2>6, TextIsReplaced
        <2>13. /\ Buffer.size = size /\ Buffer.points = codePoints /\ Buffer.units = utf16Units
               /\ Sums(typed, Units)[j] - Sums(typed, Units)[i] = length
            BY <2>3, <2>4, <2>7 DEF Buffer
        <2> QED BY <2>10, <2>11, <2>12, <2>13
    <1>17. Edited(typed, start, length, text) \in Seq(Chars)
        BY <1>1, <1>12, <1>16
    <1> QED BY <1>15, <1>16, <1>17, BecomeKeeps DEF Replace

LEMMA BufferStarts ==
    ASSUME BufferInit
    PROVE  Keeps
    BY ZeroIsText DEF BufferInit, Keeps, Buffer

LEMMA BufferSteps ==
    ASSUME Keeps, [BufferNext]_bufferVars
    PROVE  Keeps'
    <1>1. CASE \E text \in Texts : AppendText(text)
        BY <1>1, AppendKeeps
    <1>2. CASE RemoveLast
        BY <1>2, RemoveLastKeeps
    <1>3. CASE \E start \in -Capacity .. 1, length \in -1 .. Capacity, text \in Texts :
                  Replace(start, length, text)
        BY <1>3, ReplaceKeeps
    <1>4. CASE Clear
        BY <1>4, ClearKeeps
    <1>5. CASE UNCHANGED bufferVars
        <2>1. Buffer' = Buffer /\ typed' = typed
            BY <1>5 DEF bufferVars, Buffer
        <2> QED BY <2>1 DEF Keeps, IsText, ZeroAfter
    <1> QED BY <1>1, <1>2, <1>3, <1>4, <1>5 DEF BufferNext

LEMMA KeepsSuffices ==
    ASSUME Keeps
    PROVE  TextsAreKept
    <1>1. /\ typed \in Seq(Chars) /\ bytes \in [1 .. Capacity -> ByteValues]
          /\ size = BytesOf(typed) /\ LaidOut(bytes, typed, 0)
          /\ codePoints = Len(typed) /\ utf16Units = UnitsOf(typed)
          /\ size <= Capacity /\ \A i \in (size + 1) .. Capacity : bytes[i] = Zero
        BY DEF Keeps, IsText, ZeroAfter, Buffer
    <1>2. BytesOf(typed) \in Nat /\ UnitsOf(typed) \in Nat /\ Len(typed) \in Nat /\ Capacity \in Nat
        BY <1>1, BufferAssumption, TotalsJoin
    <1>3. BufferTypeOK
        <2>1. size \in 0 .. Capacity /\ codePoints \in Nat /\ utf16Units \in Nat
            BY <1>1, <1>2
        <2> QED BY <1>1, <2>1 DEF BufferTypeOK, ByteValues
    <1>4. HoldsTheText
        <2>1. ASSUME NEW i \in 1 .. Len(typed), NEW k \in 1 .. Width[typed[i]]
              PROVE  bytes[Offsets(typed)[i - 1] + k] = <<typed[i], k>>
            <3>1. Offsets(typed)[i - 1] \in Nat
                BY <1>1, WhereBytesAre
            <3>2. bytes[0 + Offsets(typed)[i - 1] + k] = <<typed[i], k>>
                BY <1>1 DEF LaidOut
            <3>3. 0 + Offsets(typed)[i - 1] = Offsets(typed)[i - 1]
                BY <3>1
            <3> QED BY <3>2, <3>3
        <2> QED BY <1>1, <2>1 DEF HoldsTheText
    <1>5. CountsTheText /\ NothingIsLeftBehind
        BY <1>1 DEF CountsTheText, NothingIsLeftBehind
    <1> QED BY <1>3, <1>4, <1>5 DEF TextsAreKept

---------------------------------------------------------------------------
(* Theorems                                                                *)

\* Whatever prompts are made, used, asked for and ended, and whatever PAM and
\* the kernel do meanwhile, a secret is in the slot of its prompt or nowhere:
\* not in a slot that was given back, not behind a verdict, not on the heap,
\* and in no slot of a process that was told to end.
THEOREM NoSecretIsLeft == PromptSpec => []SecretsHaveOneHome
    <1>1. Invariant => SecretsHaveOneHome
        BY DEF Invariant
    <1> QED BY <1>1, InvariantHolds, PTL

\* However often and however fast a prompt is used, since it was made or last
\* accepted at least the delays that its failures demand have passed, or the
\* next guess must wait for the rest.
THEOREM GuessesTakeTheirTime == PromptSpec => []GuessesAreSpaced
    <1>1. Invariant => GuessesAreSpaced
        BY DEF Invariant, Timed, Spaced, GuessesAreSpaced, Living
    <1> QED BY <1>1, InvariantHolds, PTL

\* After any keys, edits of the input method and clearings, whatever the
\* characters and however small the buffer: its bytes are those of the text the
\* user means, the counts shown and told to the input method are those of that
\* text, and nothing that was removed is left in memory (insertAt, removeLast,
\* replace and clear of LockedSecretBuffer).
THEOREM TextsStayKept == BufferSpec => []TextsAreKept
    <1>1. BufferInit => Keeps
        BY BufferStarts
    <1>2. Keeps /\ [BufferNext]_bufferVars => Keeps'
        BY BufferSteps
    <1>3. Keeps => TextsAreKept
        BY KeepsSuffices
    <1> QED BY <1>1, <1>2, <1>3, PTL DEF BufferSpec
=============================================================================
