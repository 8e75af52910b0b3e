--------------------------- MODULE DesktopStream ---------------------------
(***************************************************************************)
(* The desktop event stream of the shell: sleepy-sessiond publishes one    *)
(* event per generation on desktop.sock; DesktopClient.qml connects,       *)
(* reconnects and reads it; DesktopProtocol.qml decides which lines are    *)
(* accepted and keeps the snapshot that every panel renders;               *)
(* DesktopReconnectPolicy.qml owns the backoff timer.                      *)
(*                                                                         *)
(* The daemon is external.  The socket is Quickshell's Socket, external    *)
(* too, modelled after the behavioural mirror the repository tests         *)
(* against (tests/socket-contract-plugin.cpp): assigning connected = false *)
(* only asks for a disconnection, which is acknowledged later, and an      *)
(* error keeps the transport until then.                                   *)
(*                                                                         *)
(* Left out: the memory of observed request ids, which no decision of this *)
(* code reads, and the field validators, which are one bit of a line.      *)
(*                                                                         *)
(* An operator named Mut... is no part of the model: it is the definition  *)
(* after it with a slip, and shows which property would notice.            *)
(***************************************************************************)
EXTENDS Naturals, Sequences

CONSTANTS
    Topics,          \* domains of the snapshot
    NoTopic,         \* the topic of an event that changes no domain
    NoView,          \* what SnapshotView calls the content of a hidden view
    MaxGeneration,   \* bound: generations the daemon publishes
    MaxRepeats,      \* bound: lines the daemon sends out of turn
    MinimumRetryMs,  \* DesktopClient.minimumRetryMs
    MaximumRetryMs,  \* DesktopClient.maximumRetryMs
    AttemptCap       \* the 16 of DesktopReconnectPolicy.scheduleReconnect

Smaller(a, b) == IF a < b THEN a ELSE b
Larger(a, b) == IF a < b THEN b ELSE a

BoundedRetryDelay(attempt) ==
    LET floor == Larger(1, MinimumRetryMs)
    IN  Smaller(Larger(floor, MaximumRetryMs), floor * 2 ^ attempt)

ASSUME TopicAssumption == NoTopic \notin Topics
ASSUME BoundAssumption ==
    MaxGeneration \in Nat /\ MaxRepeats \in Nat /\ AttemptCap \in Nat
ASSUME RetryAssumption ==
    /\ MinimumRetryMs \in Nat /\ MaximumRetryMs \in Nat
    /\ \A attempt \in 0 .. AttemptCap : BoundedRetryDelay(attempt) \in Nat
    /\ \A attempt \in 1 .. AttemptCap :
          BoundedRetryDelay(attempt - 1) <= BoundedRetryDelay(attempt)

VARIABLES
    \* sleepy-sessiond
    up,                     \* the daemon runs and listens
    published,              \* published[g]: the event of generation g
    repeats,                \* lines sent out of turn so far
    \* the current Socket and the one being destroyed
    sock,                   \* idle, opening, open or closing
    peerClosed,             \* the daemon's end of the transport is gone
    lines,                  \* lines sent and not yet read
    stale,                  \* lines a finished transport may still hand over
    \* DesktopProtocol.qml
    connectionState,
    snapshotReceived,
    generation,
    snapshot,               \* per topic, the generation of the data shown
    \* DesktopClient.qml and DesktopReconnectPolicy.qml
    enabled,
    intentionalDisconnect,
    reconnectAttempt,
    timer,                  \* reconnectTimer: running and interval
    later                   \* Qt.callLater(connectStream) is queued

daemonVars == <<up, published, repeats>>
socketVars == <<sock, peerClosed, lines, stale>>
protocolVars == <<connectionState, snapshotReceived, generation, snapshot>>
policyVars == <<enabled, intentionalDisconnect, reconnectAttempt, timer, later>>
vars == <<daemonVars, socketVars, protocolVars, policyVars>>

Event == [topic : Topics \cup {NoTopic}, garbled : BOOLEAN,
          state : [Topics -> Nat]]
\* A line names the event whose content it carries; the event itself is in
\* published, which never changes behind it.
Line == [type : {"fullSnapshot", "update"}, generation : Nat \ {0}]

FullSnapshot(g) == [type |-> "fullSnapshot", generation |-> g]
Update(g) == [type |-> "update", generation |-> g]

Init ==
    /\ up \in BOOLEAN
    /\ published = <<[topic |-> NoTopic, garbled |-> FALSE,
                      state |-> [t \in Topics |-> 1]]>>
    /\ repeats = 0
    /\ sock = "idle" /\ peerClosed = FALSE
    /\ lines = <<>> /\ stale = <<>>
    /\ connectionState = "offline" /\ snapshotReceived = FALSE
    /\ generation = 0 /\ snapshot = [t \in Topics |-> 0]
    /\ enabled \in BOOLEAN
    /\ intentionalDisconnect = FALSE
    /\ reconnectAttempt = 0
    /\ timer = [running |-> FALSE, interval |-> MinimumRetryMs]
    /\ later = enabled

---------------------------------------------------------------------------
(* DesktopProtocol.qml                                                     *)

BeginConnection ==
    /\ connectionState' = "connecting"
    /\ snapshotReceived' = FALSE
    /\ UNCHANGED <<generation, snapshot>>

Disconnected ==
    /\ connectionState' = "offline"
    /\ snapshotReceived' = FALSE
    /\ UNCHANGED <<generation, snapshot>>

\* A garbled update stands for every line the envelope and payload validators
\* refuse; snapshots of this daemon are always well formed.
ValidLine(line) ==
    line.type = "update" => ~published[line.generation].garbled

\* A live stream takes every valid line, whatever its generation.
MutAcceptableInAnyOrder(line) ==
    /\ ValidLine(line)
    /\ ~snapshotReceived => /\ line.type = "fullSnapshot"
                            /\ line.generation >= generation

\* A replayed snapshot is taken even if it is older than the one shown.
MutAcceptableOldReplay(line) ==
    /\ ValidLine(line)
    /\ ~snapshotReceived => line.type = "fullSnapshot"
    /\ snapshotReceived => line.generation > generation

\* The snapshot of a new connection must be newer than the one shown.
MutAcceptableNewerReplay(line) ==
    /\ ValidLine(line)
    /\ ~snapshotReceived => line.type = "fullSnapshot"
    /\ line.generation > generation

Acceptable(line) ==
    /\ ValidLine(line)
    /\ ~snapshotReceived => /\ line.type = "fullSnapshot"
                            /\ line.generation >= generation
    /\ snapshotReceived => line.generation > generation

ApplyPayload(line) ==
    LET event == published[line.generation]
    IN  IF line.type = "fullSnapshot"
        THEN event.state
        ELSE [t \in Topics |->
                IF t = event.topic THEN event.state[t] ELSE snapshot[t]]

AcceptEnvelope(line) ==
    /\ Acceptable(line)
    /\ generation' = line.generation
    /\ snapshot' = ApplyPayload(line)
    /\ snapshotReceived' = TRUE
    /\ connectionState' = "ready"
    /\ reconnectAttempt' = 0            \* onEventAccepted
    /\ UNCHANGED <<enabled, intentionalDisconnect, timer, later>>

RejectEnvelope(line) ==
    /\ ~Acceptable(line)
    /\ connectionState' = "error"
    /\ UNCHANGED <<snapshotReceived, generation, snapshot, policyVars>>

---------------------------------------------------------------------------
(* DesktopReconnectPolicy.qml                                              *)

StartTimer ==
    IF timer.running
    THEN UNCHANGED <<timer, reconnectAttempt>>
    ELSE /\ timer' = [running |-> TRUE,
                      interval |-> BoundedRetryDelay(reconnectAttempt)]
         /\ reconnectAttempt' = Smaller(AttemptCap, reconnectAttempt + 1)

\* connectStream and stopStream leave a retry running.
MutStopTimer == UNCHANGED timer

StopTimer == timer' = [timer EXCEPT !.running = FALSE]

ScheduleReconnect ==
    /\ Disconnected
    /\ IF intentionalDisconnect \/ ~enabled
       THEN UNCHANGED <<timer, reconnectAttempt>>
       ELSE StartTimer

---------------------------------------------------------------------------
(* DesktopClient.qml                                                       *)

\* replaceDesktopSocket, and equally the end of a transport that keeps its
\* Socket: what it had read but not yet parsed may still be handed over.
EndTransport ==
    /\ sock' = "idle" /\ peerClosed' = FALSE
    /\ lines' = <<>> /\ stale' = stale \o lines

ConnectStream ==
    /\ enabled /\ ~intentionalDisconnect /\ sock \in {"idle", "opening"}
    /\ StopTimer
    /\ BeginConnection
    /\ sock' = "opening"
    /\ UNCHANGED <<peerClosed, lines, stale>>

ConnectRefused ==
    /\ ~enabled \/ intentionalDisconnect \/ sock \in {"open", "closing"}
    /\ UNCHANGED <<protocolVars, socketVars>>

StopStream ==
    /\ StopTimer
    /\ Disconnected
    /\ IF sock \in {"open", "closing"}
       THEN /\ intentionalDisconnect' = TRUE
            /\ sock' = "closing"
            /\ UNCHANGED <<peerClosed, lines, stale>>
       ELSE /\ intentionalDisconnect' = FALSE
            /\ EndTransport

\* onEnabledChanged
SetEnabled(value) ==
    /\ enabled # value
    /\ enabled' = value
    /\ IF value
       THEN /\ later' = TRUE
            /\ UNCHANGED <<intentionalDisconnect, timer, socketVars, protocolVars>>
       ELSE /\ StopStream
            /\ UNCHANGED later
    /\ UNCHANGED <<reconnectAttempt, daemonVars>>

\* The buffer in hand is parsed and a destroyed socket is collected before
\* the event loop runs a posted call or a timer.
LoopIsFree == stale = <<>>

RunLater ==
    /\ later /\ LoopIsFree
    /\ later' = FALSE
    /\ ConnectStream \/ (ConnectRefused /\ UNCHANGED timer)
    /\ UNCHANGED <<enabled, intentionalDisconnect, reconnectAttempt, daemonVars>>

TimerFires ==
    /\ timer.running /\ LoopIsFree
    /\ ConnectStream \/ (ConnectRefused /\ StopTimer)
    /\ UNCHANGED <<enabled, intentionalDisconnect, reconnectAttempt, later, daemonVars>>

\* onConnectionStateChanged with connected true; the daemon greets with a
\* snapshot of its current generation.
AttemptSucceeds ==
    /\ sock = "opening" /\ up /\ LoopIsFree
    /\ sock' = "open" /\ peerClosed' = FALSE
    /\ lines' = <<FullSnapshot(Len(published))>>
    /\ BeginConnection
    /\ UNCHANGED <<stale, policyVars, daemonVars>>

\* onError: nobody listens, or the peer closed a transport.
HandleSocketError ==
    /\ \/ sock = "opening" /\ ~up
       \/ sock \in {"open", "closing"} /\ peerClosed
    /\ ~intentionalDisconnect
    /\ EndTransport
    /\ ScheduleReconnect
    /\ UNCHANGED <<enabled, intentionalDisconnect, later, daemonVars>>

\* onConnectionStateChanged with connected false: the peer closed, or the
\* disconnection the client asked for is acknowledged.
HandleSocketDisconnected ==
    /\ \/ sock = "closing"
       \/ sock = "open" /\ peerClosed
    /\ EndTransport
    /\ IF intentionalDisconnect
       THEN /\ intentionalDisconnect' = FALSE
            /\ StopTimer
            /\ later' = (later \/ enabled)
            /\ UNCHANGED <<reconnectAttempt, protocolVars>>
       ELSE /\ IF enabled
               THEN ScheduleReconnect
               ELSE UNCHANGED <<protocolVars, timer, reconnectAttempt>>
            /\ UNCHANGED <<intentionalDisconnect, later>>
    /\ UNCHANGED <<enabled, daemonVars>>

\* A refused line is skipped instead of ending the connection.
MutReadLine ==
    /\ sock \in {"open", "closing"} /\ lines # <<>>
    /\ lines' = Tail(lines)
    /\ AcceptEnvelope(Head(lines)) \/ RejectEnvelope(Head(lines))
    /\ UNCHANGED <<sock, peerClosed, stale, daemonVars>>

\* SplitParser.onRead on the current socket; a refused line asks for a
\* disconnection but does not empty the buffer.
ReadLine ==
    /\ sock \in {"open", "closing"} /\ lines # <<>>
    /\ lines' = Tail(lines)
    /\ \/ /\ AcceptEnvelope(Head(lines))
          /\ UNCHANGED sock
       \/ /\ RejectEnvelope(Head(lines))
          /\ sock' = "closing"
    /\ UNCHANGED <<peerClosed, stale, daemonVars>>

\* onRead does not ask whether its socket is still the current one.
ReadStaleLine ==
    /\ stale # <<>>
    /\ stale' = Tail(stale)
    /\ AcceptEnvelope(Head(stale)) \/ RejectEnvelope(Head(stale))
    /\ UNCHANGED <<sock, peerClosed, lines, daemonVars>>

CollectSocket ==
    /\ stale # <<>>
    /\ stale' = <<>>
    /\ UNCHANGED <<sock, peerClosed, lines, protocolVars, policyVars, daemonVars>>

---------------------------------------------------------------------------
(* sleepy-sessiond                                                         *)

Listening == up /\ sock \in {"open", "closing"} /\ ~peerClosed

Send(line) ==
    lines' = IF Listening THEN Append(lines, line) ELSE lines

Publish(t, garbled) ==
    LET g == Len(published) + 1
        state == published[Len(published)].state
    IN  /\ up /\ g <= MaxGeneration
        /\ published' = Append(published,
              [topic |-> t, garbled |-> garbled,
               state |-> [u \in Topics |-> IF u = t THEN g ELSE state[u]]])
        /\ Send(Update(g))
        /\ UNCHANGED <<up, repeats, sock, peerClosed, stale, protocolVars, policyVars>>

\* A line the client already had, or a snapshot of an older generation.
SendOutOfTurn(line) ==
    /\ Listening /\ repeats < MaxRepeats
    /\ repeats' = repeats + 1
    /\ Send(line)
    /\ UNCHANGED <<up, published, sock, peerClosed, stale, protocolVars, policyVars>>

Crash ==
    /\ up
    /\ up' = FALSE
    /\ peerClosed' = (peerClosed \/ sock \in {"open", "closing"})
    /\ UNCHANGED <<published, repeats, sock, lines, stale, protocolVars, policyVars>>

Restart ==
    /\ ~up
    /\ up' = TRUE
    /\ UNCHANGED <<published, repeats, socketVars, protocolVars, policyVars>>

Daemon ==
    \/ \E t \in Topics \cup {NoTopic}, garbled \in BOOLEAN : Publish(t, garbled)
    \/ \E g \in 1 .. Len(published) :
          SendOutOfTurn(FullSnapshot(g)) \/ SendOutOfTurn(Update(g))
    \/ Crash
    \/ Restart

Client ==
    \/ RunLater
    \/ TimerFires
    \/ AttemptSucceeds
    \/ HandleSocketError
    \/ HandleSocketDisconnected
    \/ ReadLine
    \/ ReadStaleLine
    \/ CollectSocket

Next == Client \/ Daemon \/ \E value \in BOOLEAN : SetEnabled(value)

\* The event loop of the shell and the kernel's sockets make progress; the
\* daemon owes nothing, and nobody has to toggle the stream.
Fairness ==
    /\ WF_vars(RunLater)
    /\ WF_vars(TimerFires)
    /\ WF_vars(AttemptSucceeds)
    /\ WF_vars(HandleSocketError \/ HandleSocketDisconnected)
    /\ WF_vars(ReadLine)
    /\ WF_vars(ReadStaleLine \/ CollectSocket)

Spec == Init /\ [][Next]_vars
FairSpec == Spec /\ Fairness
---------------------------------------------------------------------------
(* Properties                                                              *)

DaemonTypeOK ==
    /\ up \in BOOLEAN /\ repeats \in Nat
    /\ published \in Seq(Event) /\ published # <<>>
SocketTypeOK ==
    /\ sock \in {"idle", "opening", "open", "closing"} /\ peerClosed \in BOOLEAN
    /\ lines \in Seq(Line) /\ stale \in Seq(Line)
ProtocolTypeOK ==
    /\ connectionState \in {"offline", "connecting", "ready", "error"}
    /\ snapshotReceived \in BOOLEAN
    /\ generation \in Nat /\ snapshot \in [Topics -> Nat]
PolicyTypeOK ==
    /\ enabled \in BOOLEAN /\ intentionalDisconnect \in BOOLEAN
    /\ reconnectAttempt \in 0 .. AttemptCap
    /\ timer \in [running : BOOLEAN, interval : Nat]
    /\ later \in BOOLEAN

\* Every variable of the stream keeps its type; the attempt counter never
\* exceeds the cap that keeps the doubling of the retry delay small.
TypeOK == DaemonTypeOK /\ SocketTypeOK /\ ProtocolTypeOK /\ PolicyTypeOK

\* What the panels render as ready on a connection the client has not given
\* up is what the daemon published at that generation: no event was skipped,
\* applied twice or applied to the wrong base, whatever the reconnections,
\* the lines of earlier sockets and the lines sent out of turn.
CoherentView ==
    sock = "open" /\ connectionState = "ready" =>
        snapshot = published[generation].state

\* An enabled stream is never left without a transport and without a way to
\* get one: a retry is timed or a connectStream call is queued.
NoLostReconnect ==
    enabled /\ sock = "idle" => timer.running \/ later

\* There is one retry loop: the timer never runs beside an attempt, a
\* connection, a stop in progress or a disabled stream.
OneRetryLoop ==
    timer.running => sock = "idle" /\ enabled /\ ~intentionalDisconnect

\* The flag that suppresses reconnection is only up while a disconnection it
\* waits for is outstanding; left behind it would disable the stream for good.
SuppressionIsOutstanding ==
    intentionalDisconnect => sock = "closing"

\* The reconnections hold together, whatever the socket, the timer and the
\* daemon do between two of their turns.
RetriesAreSound ==
    TypeOK /\ NoLostReconnect /\ OneRetryLoop /\ SuppressionIsOutstanding

\* No topic the user sees ever goes back to older data, not even across a
\* restart of the daemon, a replay or a line of a retired socket.
NeverBackwards ==
    [][/\ generation' >= generation
       /\ \A t \in Topics : snapshot'[t] >= snapshot[t]]_vars

\* A retry is never timed sooner than the one before it unless an event was
\* accepted in between.
BackoffNeverShrinks ==
    [][~timer.running /\ timer'.running =>
         timer'.interval >= timer.interval \/ reconnectAttempt = 0]_vars

\* Neither goes back: the view to older data, the delays to shorter ones.
StreamMovesOn == NeverBackwards /\ BackoffNeverShrinks

\* With a daemon that stays up and a stream that stays enabled, the shell ends
\* up connected and showing the daemon's last generation.
UpToDate ==
    /\ sock = "open" /\ connectionState = "ready"
    /\ generation = Len(published)
    /\ snapshot = published[generation].state
Recovers == <>[](up /\ enabled) => <>[]UpToDate

\* A stream that stays disabled lets go of its transport and keeps no retry.
Quiet == sock = "idle" /\ ~timer.running /\ ~intentionalDisconnect
SettlesWhenDisabled == <>[](~enabled) => <>[]Quiet

\* The stream implements the view the panels are promised: live exactly while
\* a connection the client has not given up has delivered its snapshot.
Live == sock = "open" /\ connectionState = "ready"

View == INSTANCE SnapshotView WITH
            history <- [g \in 1 .. Len(published) |-> published[g].state],
            live <- Live,
            shown <- generation,
            view <- IF Live THEN snapshot ELSE NoView

ImplementsView == View!Spec
=============================================================================
