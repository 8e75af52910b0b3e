--------------------------- MODULE ActionFeedback ---------------------------
(***************************************************************************)
(* The feedback a panel gives on the actions of its output: the tracker of *)
(* CoreOutputState.qml on top of the control plane.  It learns of verdicts *)
(* from CommandClient's signals alone, which do not say whose they are.    *)
(***************************************************************************)
EXTENDS CommandControl

VARIABLES
    pendingActionId,   \* "", the tracked lock or another tracked action
    actionFeedback,    \* status per action id
    tracked            \* the intent or request id behind the last action

feedbackVars == <<pendingActionId, actionFeedback, tracked>>
commandAndFeedbackVars == <<commandVars, feedbackVars>>

Actions == {"session:lock", "other"}
Statuses == {"idle", "pending", "succeeded", "rejected"}

FeedbackInit ==
    /\ CommandInit
    /\ pendingActionId = ""
    /\ actionFeedback = [a \in Actions |-> "idle"]
    /\ tracked = [a \in Actions |-> 0]

\* Mut...: the definition after it with a slip; failures are not listened to.
MutReact ==
    /\ \/ /\ pendingActionId # "" /\ emitted' = <<"completed">>
          /\ actionFeedback' = [actionFeedback EXCEPT ![pendingActionId] = "succeeded"]
          /\ pendingActionId' = ""
       \/ /\ pendingActionId = "" \/ emitted' # <<"completed">>
          /\ UNCHANGED <<actionFeedback, pendingActionId>>
    /\ UNCHANGED tracked

\* onCommandCompleted and onCommandFailed, for the signal of this turn; a
\* timeout is a rejection with another wording.
React ==
    /\ \/ /\ pendingActionId # "" /\ emitted' # <<>>
          /\ actionFeedback' = [actionFeedback EXCEPT ![pendingActionId] =
                IF Head(emitted') = "completed" THEN "succeeded" ELSE "rejected"]
          /\ pendingActionId' = ""
       \/ /\ pendingActionId = "" \/ emitted' = <<>>
          /\ UNCHANGED <<actionFeedback, pendingActionId>>
    /\ UNCHANGED tracked

\* sendTrackedAction with a sender that is accepted.
Track(action, ref) ==
    /\ ~ClientBusy
    /\ pendingActionId' = action
    /\ actionFeedback' = [actionFeedback EXCEPT ![action] = "pending"]
    /\ tracked' = [tracked EXCEPT ![action] = ref]

TrackedLock == ready /\ RequestLock /\ Track("session:lock", intent')
TrackedCommand == ready /\ SendCommand /\ Track("other", Len(requests'))

\* sendTrackedAction with a sender that is not.
TrackedRefusal ==
    /\ ~ClientBusy
    /\ actionFeedback' = [actionFeedback EXCEPT !["other"] = "rejected"]
    /\ UNCHANGED <<commandVars, pendingActionId, tracked>>

FeedbackNext ==
    \/ CommandNext /\ React    \* with every command of this and other panels that is not tracked
    \/ TrackedLock
    \/ TrackedCommand
    \/ TrackedRefusal

FeedbackSpec == FeedbackInit /\ [][FeedbackNext]_commandAndFeedbackVars

---------------------------------------------------------------------------
(* Properties                                                              *)

\* An action is only shown as pending while the control plane works on
\* something, so every pending mark goes away.
NothingPendingForever == pendingActionId # "" => ClientBusy

\* An ordinary action is reported as succeeded only if the daemon executed
\* that very command.
CommandFeedbackHonest ==
    [][actionFeedback["other"] = "pending" /\ actionFeedback'["other"] = "succeeded" =>
         requests[tracked["other"]].executions > 0]_commandAndFeedbackVars

\* What the user is told is true: success is only reported of what the daemon did
\* (HonestSuccess), a request has one verdict (OneVerdict), and a panel shows a
\* command as succeeded only if that one was executed (CommandFeedbackHonest).
StepsAreHonest == HonestSuccess /\ OneVerdict /\ CommandFeedbackHonest

\* The lock a user asked for stays pending in the panel until its intent has
\* its own verdict.
LockFeedbackIsItsOwn ==
    lock.pending /\ intent = tracked["session:lock"] =>
        pendingActionId = "session:lock"
=============================================================================
