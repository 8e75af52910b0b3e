----------------------------- MODULE MCDesktop ------------------------------
(***************************************************************************)
(* Small instances of the event stream, of the control plane and of the    *)
(* feedback on it.  They share no state here: each is explored by itself.  *)
(***************************************************************************)
EXTENDS DesktopStream, ActionFeedback, TLC

CONSTANTS
    Parts   \* those of "stream", "commands" and "feedback" that a run explores

TopicSymmetry == Permutations(Topics)

VARIABLES
    part    \* the one that moves

\* Feedback triples the states of the commands, and gets fewer of them.
Few == INSTANCE ActionFeedback WITH MaxRequests <- 2, LastGeneration <- 2

allVars == <<part, vars, commandAndFeedbackVars>>

\* The others wait.
RunInit ==
    /\ part \in Parts
    /\ Init
    /\ part # "stream" => ~up /\ ~enabled
    /\ FeedbackInit

OnlyMoves(p) ==
    /\ part = p /\ part' = p
    /\ IF p = "stream" THEN TRUE ELSE UNCHANGED vars
    /\ IF p \in {"commands", "feedback"} THEN TRUE
       ELSE UNCHANGED commandAndFeedbackVars

RunNext ==
    \/ OnlyMoves("stream") /\ Next
    \/ OnlyMoves("commands") /\ CommandNext /\ UNCHANGED feedbackVars
    \/ OnlyMoves("feedback") /\ Few!FeedbackNext

RunSpec == RunInit /\ [][RunNext]_allVars
=============================================================================
