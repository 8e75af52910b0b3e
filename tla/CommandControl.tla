--------------------------- MODULE CommandControl ---------------------------
(***************************************************************************)
(* The desktop control plane of the shell: one command at a time goes to   *)
(* sleepy-sessiond over desktop-control.sock.  DesktopCommandProtocol.qml  *)
(* correlates the reply, CommandClient.qml owns the socket, and            *)
(* LockRequest.qml turns "lock the session" into an intent that may wait   *)
(* for the event stream and survive one stale generation.                  *)
(*                                                                         *)
(* Every action is one turn of the shell's event loop with the whole       *)
(* cascade of signal handlers it runs.  The daemon and the socket (after   *)
(* tests/socket-contract-plugin.cpp) are external.                         *)
(*                                                                         *)
(* Left out: the memory of observed request ids, which no decision of this *)
(* code reads, and what a command carries besides its id.                  *)
(*                                                                         *)
(* An operator named Mut... is no part of the model: it is the definition  *)
(* after it with a slip, and shows which property would notice.            *)
(***************************************************************************)
EXTENDS Integers, Sequences, FiniteSets

CONSTANTS
    MaxRequests,    \* bound: request ids the shell allocates
    LastGeneration  \* bound: generations of the daemon

ASSUME CommandAssumption ==
    MaxRequests \in Nat /\ LastGeneration \in Nat \ {0}

VARIABLES
    ready,              \* DesktopClient is ready and has its snapshot
    seenGeneration,     \* DesktopClient.generation
    daemonGeneration,
    proto,              \* DesktopCommandProtocol
    lock,               \* LockRequest
    attemptLater,       \* Qt.callLater(attempt) is queued
    controlSocket,      \* phase and target of controlSocket
    daemonClosed,       \* the daemon's end of the transport is gone
    toDaemon,           \* ids written and not yet served, on this transport
    orphans,            \* ids whose transport ended before they were served
    fromDaemon,         \* replies not yet read
    requests,           \* requests[id]: what is known of each id allocated
    intent,             \* number of the last lock intent
    emitted             \* signals CommandClient emitted in the last step

streamVars == <<ready, seenGeneration, daemonGeneration>>
wireVars == <<controlSocket, daemonClosed, toDaemon, orphans, fromDaemon>>
commandVars == <<streamVars, proto, lock, attemptLater, wireVars, requests,
                 intent, emitted>>

None == 0   \* the empty request id
Ids == 1 .. Len(requests)

Proto == [pendingRequestId : Nat, queued : Nat,
          status : {"idle", "loading", "error", "succeeded"},
          responseTimeout : BOOLEAN]
Lock == [pending : BOOLEAN, awaitingReply : BOOLEAN, retried : BOOLEAN,
         suppressFailure : BOOLEAN, minimumGeneration : Nat,
         requestId : Nat, failed : BOOLEAN, deadline : BOOLEAN]
Request == [intent : Nat, expected : Nat, written : Nat, executions : Nat]
Reply == [id : Nat, result : {"executed", "stale", "refused"},
          generation : Nat]

CommandInit ==
    /\ ready = FALSE /\ seenGeneration = 0 /\ daemonGeneration = 1
    /\ proto = [pendingRequestId |-> None, queued |-> None, status |-> "idle",
                responseTimeout |-> FALSE]
    /\ lock = [pending |-> FALSE, awaitingReply |-> FALSE, retried |-> FALSE,
               suppressFailure |-> FALSE, minimumGeneration |-> 0,
               requestId |-> None, failed |-> FALSE, deadline |-> FALSE]
    /\ attemptLater = FALSE
    /\ controlSocket = [phase |-> "idle", target |-> FALSE] /\ daemonClosed = FALSE
    /\ toDaemon = <<>> /\ orphans = {} /\ fromDaemon = <<>>
    /\ requests = <<>> /\ intent = 0 /\ emitted = <<>>

Busy == proto.pendingRequestId # None
ClientBusy == Busy \/ lock.pending    \* CommandClient.busy

\* Ids are unbounded in the code; a pending intent keeps one for its retry.
IdsLeft == MaxRequests - Len(requests)
           - (IF lock.pending /\ ~lock.retried THEN 1 ELSE 0)

---------------------------------------------------------------------------
(* The control socket                                                      *)

Connected == controlSocket.phase \in {"open", "closing"}

\* controlSocket.connected = false
Closing(s) ==
    [phase |-> CASE s.phase = "open" -> "closing"
                 [] s.phase = "opening" -> "failed"
                 [] OTHER -> s.phase,
     target |-> FALSE]

\* controlSocket.connected = true: a transport that exists is kept.
Opening(s) ==
    [phase |-> IF s.phase = "idle" THEN "opening" ELSE s.phase,
     target |-> TRUE]

\* What is written while the transport closes may or may not get through.
Write(id, known) ==
    /\ requests' = [known EXCEPT ![id].written = @ + 1]
    /\ \/ toDaemon' = Append(toDaemon, id) /\ ~daemonClosed
       \/ UNCHANGED toDaemon /\ (daemonClosed \/ controlSocket.phase = "closing")

EndControlTransport ==
    /\ controlSocket' = [phase |-> IF controlSocket.target THEN "opening" ELSE "idle",
                         target |-> controlSocket.target]
    /\ daemonClosed' = FALSE
    /\ orphans' = orphans \cup {toDaemon[i] : i \in 1 .. Len(toDaemon)}
    /\ toDaemon' = <<>> /\ fromDaemon' = <<>>

---------------------------------------------------------------------------
(* DesktopCommandProtocol.qml and LockRequest.qml                          *)

\* A failed intent stays pending and is sent again.
MutFinishedReplays(l, failed) ==
    [l EXCEPT !.pending = failed, !.awaitingReply = FALSE, !.failed = failed]

\* LockRequest.finish
Finished(l, failed) ==
    [l EXCEPT !.pending = FALSE, !.awaitingReply = FALSE, !.deadline = FALSE,
              !.requestId = None, !.failed = failed]

\* Nothing listens to the protocol becoming idle.
MutBusyMayFall == UNCHANGED attemptLater

\* protocolState.onBusyChanged, when pendingRequestId is cleared.
BusyMayFall == attemptLater' = (attemptLater \/ Busy)

\* What DesktopCommandProtocol.fail leaves of the protocol
Failed(p) == [p EXCEPT !.pendingRequestId = None, !.queued = None,
                       !.status = "error", !.responseTimeout = FALSE]

\* DesktopCommandProtocol.fail and the handlers of commandFailed: l and said
\* are the lock request and the signals emitted so far in this turn.
Fail(l, said) ==
    /\ proto' = Failed(proto)
    /\ \/ /\ l.suppressFailure
          /\ lock' = [l EXCEPT !.suppressFailure = FALSE]
          /\ emitted' = said
       \/ /\ ~l.suppressFailure /\ l.pending /\ l.awaitingReply
          /\ lock' = Finished(l, TRUE)
          /\ emitted' = Append(said, "failed")
       \/ /\ ~l.suppressFailure /\ ~(l.pending /\ l.awaitingReply)
          /\ lock' = l
          /\ emitted' = Append(said, "failed")
    /\ BusyMayFall

\* responseTimeout is not restarted.
MutSend(id) ==
    /\ controlSocket' = Opening(controlSocket)
    /\ proto' = [pendingRequestId |-> id,
                 queued |-> IF Connected THEN None ELSE id,
                 status |-> "loading", responseTimeout |-> FALSE]
    /\ attemptLater' = TRUE
    /\ UNCHANGED <<daemonClosed, orphans, fromDaemon>>

\* What flush leaves of the protocol
Flushed(p) == [p EXCEPT !.queued = None]

\* DesktopCommandProtocol.send of an id already in requests, and dispatch.
SendRequest(id) ==
    LET queueing == [pendingRequestId |-> id, queued |-> id,
                     status |-> "loading", responseTimeout |-> TRUE]
    IN
    /\ controlSocket' = Opening(controlSocket)
    /\ proto' = IF Connected THEN Flushed(queueing) ELSE queueing
    /\ attemptLater' = TRUE                        \* onBusyChanged
    /\ UNCHANGED <<daemonClosed, orphans, fromDaemon>>

NewRequest(n) ==
    [intent |-> n, expected |-> 0, written |-> 0, executions |-> 0]

\* The line of request id leaves with the generation known now; on a live
\* connection dispatch flushes it at once.
Dispatch(id, known) ==
    LET stamped == [known EXCEPT ![id].expected = seenGeneration]
    IN  \/ Connected /\ Write(id, stamped)
        \/ ~Connected /\ requests' = stamped /\ UNCHANGED toDaemon

\* CommandClient.send by any caller but a lock request without an id.  With
\* an explicit id a lock is refused while an intent is pending; otherwise it
\* is a command like the others.
SendCommand ==
    LET id == Len(requests) + 1
    IN  /\ ~Busy /\ seenGeneration > 0 /\ IdsLeft >= 1
        /\ SendRequest(id)
        /\ Dispatch(id, Append(requests, NewRequest(0)))
        /\ lock' = [lock EXCEPT !.failed = FALSE]
        /\ emitted' = <<>>
        /\ UNCHANGED <<streamVars, intent>>

\* The guard of LockRequest.attempt
MayAttempt(l) ==
    /\ l.pending /\ ~l.awaitingReply /\ ready /\ ~Busy
    /\ seenGeneration > 0 /\ seenGeneration >= l.minimumGeneration

Attempt(l, known) ==
    /\ MayAttempt(l)
    /\ SendRequest(l.requestId)
    /\ Dispatch(l.requestId, known)
    /\ lock' = [l EXCEPT !.awaitingReply = TRUE]

\* The fresh intent of LockRequest.request
NewIntent(id) ==
    [lock EXCEPT !.failed = FALSE, !.retried = FALSE, !.minimumGeneration = 0,
                 !.requestId = id, !.pending = TRUE, !.deadline = TRUE]

\* CommandClient.session("lock"): a pending intent absorbs the call.
RequestLock ==
    LET id == Len(requests) + 1
        l == NewIntent(id)
        known == Append(requests, NewRequest(intent + 1))
    IN  /\ ~lock.pending /\ IdsLeft >= 2
        /\ intent' = intent + 1
        /\ \/ Attempt(l, known)
           \/ /\ ~MayAttempt(l)
              /\ lock' = l /\ requests' = known
              /\ UNCHANGED <<proto, attemptLater, wireVars>>
        /\ emitted' = <<>>
        /\ UNCHANGED streamVars

\* The queued Qt.callLater(attempt)
RunAttempt ==
    /\ attemptLater
    /\ \/ Attempt(lock, requests)
       \/ /\ ~MayAttempt(lock)
          /\ attemptLater' = FALSE
          /\ UNCHANGED <<proto, lock, wireVars, requests>>
    /\ emitted' = <<>>
    /\ UNCHANGED <<streamVars, intent>>

\* Any reply answers the pending command.
MutCorrelated(reply) == Busy

\* DesktopCommandProtocol.validResult
Correlated(reply) == reply.id = proto.pendingRequestId

\* A reply to another id, which a timeout leaves on the wire, is refused and
\* fails whatever is pending.
RefuseReply(reply) ==
    /\ ~Correlated(reply)
    /\ Fail(lock, <<>>)
    /\ UNCHANGED <<controlSocket, requests>>

\* The lock request after LockRequest.handleResult, for each kind of reply.
RetryLock(reply) ==
    LET id == Len(requests) + 1
    IN  /\ reply.result = "stale" /\ ~lock.retried
        /\ requests' = Append(requests, NewRequest(intent))
        /\ Fail([lock EXCEPT !.awaitingReply = FALSE, !.suppressFailure = TRUE,
                             !.retried = TRUE, !.requestId = id,
                             !.minimumGeneration = reply.generation], <<>>)

RefuseLock(reply) ==
    /\ \/ reply.result = "refused"
       \/ reply.result = "stale" /\ lock.retried
    /\ Fail(Finished([lock EXCEPT !.suppressFailure = TRUE], TRUE), <<"failed">>)
    /\ UNCHANGED requests

\* DesktopCommandProtocol.acceptResponse of the pending id with its cascade:
\* responseAccepted closes the socket and tells LockRequest before the
\* protocol completes or fails.
AcceptReply(reply) ==
    LET mine == lock.pending /\ reply.id = lock.requestId
    IN  /\ Correlated(reply)
        /\ controlSocket' = Closing(controlSocket)
        /\ \/ /\ reply.result = "executed"
              /\ proto' = [pendingRequestId |-> None, queued |-> None,
                           status |-> "succeeded", responseTimeout |-> FALSE]
              /\ lock' = IF mine THEN Finished(lock, FALSE) ELSE lock
              /\ emitted' = <<"completed">>
              /\ attemptLater' = TRUE
              /\ UNCHANGED requests
           \/ /\ reply.result # "executed" /\ ~mine
              /\ Fail(lock, <<>>)
              /\ UNCHANGED requests
           \/ mine /\ (RetryLock(reply) \/ RefuseLock(reply))

ReadReply ==
    /\ Connected /\ fromDaemon # <<>>
    /\ fromDaemon' = Tail(fromDaemon)
    /\ RefuseReply(Head(fromDaemon)) \/ AcceptReply(Head(fromDaemon))
    /\ UNCHANGED <<streamVars, daemonClosed, toDaemon, orphans, intent>>

\* responseTimeout leaves the connection open.
ResponseTimesOut ==
    /\ proto.responseTimeout
    /\ Fail(lock, <<>>)
    /\ UNCHANGED <<streamVars, wireVars, requests, intent>>

DeadlineExpires ==
    /\ lock.deadline
    /\ \/ /\ lock.awaitingReply
          /\ Fail([lock EXCEPT !.deadline = FALSE], <<>>)
       \/ /\ ~lock.awaitingReply
          /\ lock' = Finished(lock, TRUE)
          /\ emitted' = <<"failed">>
          /\ UNCHANGED <<proto, attemptLater>>
    /\ UNCHANGED <<streamVars, wireVars, requests, intent>>

---------------------------------------------------------------------------
(* CommandClient.qml: signals of controlSocket                             *)

\* onConnectionStateChanged with connected true: flush.
ControlConnects ==
    /\ controlSocket.phase = "opening"
    /\ controlSocket' = [phase |-> "open", target |-> FALSE]
    /\ proto' = Flushed(proto)
    /\ \/ proto.queued = None /\ UNCHANGED <<requests, toDaemon>>
       \/ proto.queued # None /\ Write(proto.queued, requests)
    /\ emitted' = <<>>
    /\ UNCHANGED <<streamVars, lock, attemptLater, daemonClosed, orphans,
                   fromDaemon, intent>>

\* onError: CommandClient.fail
SocketError ==
    /\ \/ controlSocket.phase = "opening"
       \/ Connected /\ daemonClosed
    /\ controlSocket' = Closing(controlSocket)
    /\ Fail(lock, <<>>)
    /\ UNCHANGED <<streamVars, daemonClosed, toDaemon, orphans, fromDaemon,
                   requests, intent>>

\* The end of a transport, asked for or not, has no handler of its own.
SocketDisconnected ==
    /\ \/ controlSocket.phase \in {"closing", "failed"}
       \/ controlSocket.phase = "open" /\ daemonClosed
    /\ EndControlTransport
    /\ emitted' = <<>>
    /\ UNCHANGED <<streamVars, proto, lock, attemptLater, requests, intent>>
---------------------------------------------------------------------------
(* The event stream: DesktopClient as the control plane sees it            *)

StreamAdvances ==
    /\ ready /\ seenGeneration < daemonGeneration
    /\ seenGeneration' = seenGeneration + 1
    /\ attemptLater' = TRUE                        \* onGenerationChanged
    /\ emitted' = <<>>
    /\ UNCHANGED <<ready, daemonGeneration, proto, lock, wireVars, requests, intent>>

StreamReady ==
    /\ ~ready
    /\ ready' = TRUE /\ seenGeneration' = daemonGeneration
    /\ attemptLater' = TRUE                        \* onReadyChanged
    /\ emitted' = <<>>
    /\ UNCHANGED <<daemonGeneration, proto, lock, wireVars, requests, intent>>

StreamLost ==
    /\ ready
    /\ ready' = FALSE
    /\ attemptLater' = TRUE
    /\ emitted' = <<>>
    /\ UNCHANGED <<seenGeneration, daemonGeneration, proto, lock, wireVars, requests,
                   intent>>

---------------------------------------------------------------------------
(* sleepy-sessiond                                                         *)

\* A request that names another generation is stale; the others are executed,
\* which publishes a generation, or refused.
Serve(id, result) ==
    /\ requests' = IF result = "executed"
                   THEN [requests EXCEPT ![id].executions = @ + 1]
                   ELSE requests
    /\ (result = "stale") <=> (requests[id].expected # daemonGeneration)
    /\ result = "executed" => daemonGeneration < LastGeneration
    /\ daemonGeneration' = IF result = "executed" THEN daemonGeneration + 1
                                                  ELSE daemonGeneration

ServeRequest(result) ==
    /\ toDaemon # <<>>
    /\ Serve(Head(toDaemon), result)
    /\ toDaemon' = Tail(toDaemon)
    /\ fromDaemon' = IF daemonClosed THEN fromDaemon
                     ELSE Append(fromDaemon, [id |-> Head(toDaemon), result |-> result,
                                              generation |-> daemonGeneration'])
    /\ emitted' = <<>>
    /\ UNCHANGED <<ready, seenGeneration, proto, lock, attemptLater, controlSocket,
                   daemonClosed, orphans, intent>>

\* A request the daemon had read may run after its connection is gone.
ServeOrphan(id, result) ==
    /\ Serve(id, result)
    /\ orphans' = orphans \ {id}
    /\ emitted' = <<>>
    /\ UNCHANGED <<ready, seenGeneration, proto, lock, attemptLater, controlSocket,
                   daemonClosed, toDaemon, fromDaemon, intent>>

LoseOrphan(id) ==
    /\ orphans' = orphans \ {id}
    /\ emitted' = <<>>
    /\ UNCHANGED <<streamVars, proto, lock, attemptLater, controlSocket, daemonClosed,
                   toDaemon, fromDaemon, requests, intent>>

PeerCloses ==
    /\ Connected /\ ~daemonClosed
    /\ daemonClosed' = TRUE
    /\ emitted' = <<>>
    /\ UNCHANGED <<streamVars, proto, lock, attemptLater, controlSocket, toDaemon,
                   orphans, fromDaemon, requests, intent>>

DaemonPublishes ==
    /\ daemonGeneration < LastGeneration
    /\ daemonGeneration' = daemonGeneration + 1
    /\ emitted' = <<>>
    /\ UNCHANGED <<ready, seenGeneration, proto, lock, attemptLater, wireVars,
                   requests, intent>>

Results == {"executed", "stale", "refused"}

CommandDaemon ==
    \/ \E result \in Results : ServeRequest(result)
    \/ \E id \in orphans : (\E result \in Results : ServeOrphan(id, result))
                           \/ LoseOrphan(id)
    \/ PeerCloses
    \/ DaemonPublishes
    \/ StreamAdvances \/ StreamReady \/ StreamLost

CommandClient ==
    \/ SendCommand \/ RequestLock \/ RunAttempt
    \/ ReadReply \/ ResponseTimesOut \/ DeadlineExpires
    \/ ControlConnects \/ SocketError \/ SocketDisconnected

CommandNext == CommandClient \/ CommandDaemon

\* Timers fire and queued calls run; nobody owes the shell anything else.
CommandFairness ==
    /\ WF_commandVars(RunAttempt) /\ WF_commandVars(ResponseTimesOut)
    /\ WF_commandVars(DeadlineExpires)

CommandSpec == CommandInit /\ [][CommandNext]_commandVars
CommandFairSpec == CommandSpec /\ CommandFairness

---------------------------------------------------------------------------
(* Properties                                                              *)

CommandTypeOK ==
    /\ ready \in BOOLEAN /\ seenGeneration \in Nat /\ daemonGeneration \in Nat
    /\ proto \in Proto /\ lock \in Lock /\ attemptLater \in BOOLEAN
    /\ proto.pendingRequestId \in Ids \cup {None}
    /\ proto.queued \in {None, proto.pendingRequestId}
    /\ lock.requestId \in Ids \cup {None}
    /\ controlSocket \in [phase : {"idle", "opening", "open", "closing", "failed"},
                         target : BOOLEAN]
    /\ daemonClosed \in BOOLEAN
    /\ toDaemon \in Seq(Ids) /\ orphans \subseteq Ids
    /\ fromDaemon \in Seq(Reply)
    /\ requests \in Seq(Request) /\ intent \in Nat
    /\ emitted \in Seq({"completed", "failed"})

\* No lost wakeup: an intent that could be sent now has its attempt queued.
NoLostAttempt == MayAttempt(lock) => attemptLater

\* The reply a lock waits for is the one the protocol waits for, so the
\* deadline of an intent and the failures it consumes are never another
\* command's; and a failure to be consumed is never left for a later command.
LockOwnsItsFailures ==
    /\ lock.awaitingReply => /\ lock.pending
                             /\ proto.pendingRequestId = lock.requestId
    /\ ~lock.suppressFailure

\* No command line is written twice, whatever the socket does between its
\* queueing and its reply.
WrittenOnce == \A id \in Ids : requests[id].written <= 1

\* One lock intent never makes the daemon lock twice.
LocksOncePerIntent ==
    \A i, j \in Ids :
        /\ requests[i].intent = requests[j].intent /\ requests[i].intent # 0
        /\ requests[i].executions > 0 /\ requests[j].executions > 0
        => i = j /\ requests[i].executions = 1

\* The retry of a lock is only sent once the shell has seen a newer
\* generation than the one the daemon refused.
RetryIsNewer ==
    \A i, j \in Ids :
        /\ i < j /\ requests[j].written > 0
        /\ requests[i].intent = requests[j].intent /\ requests[i].intent # 0
        => requests[j].expected > requests[i].expected

\* The attempts of a lock hold together, whatever timers, late replies and lost
\* connections do between two of their turns (LockRequest, CommandClient).
AttemptsAreSound ==
    /\ CommandTypeOK /\ NoLostAttempt /\ LockOwnsItsFailures
    /\ WrittenOnce /\ LocksOncePerIntent /\ RetryIsNewer

\* Success is reported only of the command that is pending and that the
\* daemon executed, and an intent only ends well if a lock of it was executed.
HonestSuccess ==
    [][/\ emitted' = <<"completed">> =>
            Busy /\ requests[proto.pendingRequestId].executions > 0
       /\ lock.pending /\ ~lock'.pending /\ ~lock'.failed =>
            \E id \in Ids : /\ requests[id].intent = intent
                            /\ requests[id].executions > 0]_commandVars

\* Callers get one verdict, never none and never two: on every command that
\* ends, except the stale attempt its intent recovers from, and on every
\* intent that ends.
OneVerdict ==
    [][/\ Busy /\ proto'.pendingRequestId # proto.pendingRequestId =>
            Len(emitted') = (IF lock.awaitingReply /\ lock'.pending THEN 0 ELSE 1)
       /\ lock.pending /\ ~lock'.pending => Len(emitted') = 1]_commandVars

\* The times the daemon locked for the intent, each with its request
Runs == UNION {{id} \X (1 .. requests[id].executions) :
                  id \in {i \in Ids : intent > 0 /\ requests[i].intent = intent}}

\* The control plane implements the promise made to whoever locks.
Intent == INSTANCE LockIntent WITH
              number <- intent,
              open <- lock.pending,
              executions <- Cardinality(Runs),
              failed <- lock.failed

ImplementsIntent == Intent!Spec

\* Every command and every lock intent comes to an end: none is the pending one
\* for ever.
EveryCommandEnds == \A id \in 1 .. MaxRequests : []<>(proto.pendingRequestId # id)
EveryIntentEnds == \A n \in 1 .. MaxRequests : []<>~(lock.pending /\ intent = n)
=============================================================================
