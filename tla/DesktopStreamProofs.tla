------------------------ MODULE DesktopStreamProofs ------------------------
(***************************************************************************)
(* Proofs about DesktopStream, for every set of topics and every bound.    *)
(***************************************************************************)
EXTENDS DesktopStream, SequenceTheorems, TLAPS

\* Every line on its way names an event the daemon has published.
Numbered ==
    /\ \A i \in 1 .. Len(lines) : lines[i].generation <= Len(published)
    /\ \A i \in 1 .. Len(stale) : stale[i].generation <= Len(published)

Typed == TypeOK /\ Numbered

\* Only an idle client waits for the lines of a retired transport, and only a
\* transport that is or was open carries lines.
Transport ==
    /\ stale # <<>> => sock = "idle"
    /\ sock \in {"idle", "opening"} => lines = <<>>

\* The data of a topic is never newer than its event, never older than in an
\* earlier event, and differs from the event before in that event's topic only.
Bounded ==
    \A g \in 1 .. Len(published) : \A t \in Topics : published[g].state[t] <= g
Monotone ==
    \A g, h \in 1 .. Len(published) : \A t \in Topics :
        g <= h => published[g].state[t] <= published[h].state[t]
Successive ==
    \A g \in 1 .. Len(published) - 1 : \A t \in Topics :
        t # published[g + 1].topic =>
            published[g + 1].state[t] = published[g].state[t]
Chain == Bounded /\ Monotone /\ Successive

\* The snapshot is nowhere ahead of the generation it is labelled with.
NotAhead ==
    /\ generation <= Len(published)
    /\ generation = 0 => snapshot = [t \in Topics |-> 0]
    /\ generation > 0 => \A t \in Topics :
          snapshot[t] <= published[generation].state[t]

\* The generation the next line of an open transport builds on.
Base == IF snapshotReceived THEN generation ELSE lines[1].generation

\* On an open transport the client is ready once its snapshot is in; until
\* then the snapshot is the next line.
Greeted ==
    IF snapshotReceived
    THEN /\ connectionState = "ready" /\ generation > 0
         /\ snapshot = published[generation].state
    ELSE /\ connectionState = "connecting"
         /\ lines # <<>>
         /\ lines[1].type = "fullSnapshot"
         /\ lines[1].generation >= generation

\* No line comes before the one it builds on, and none is missing while the
\* daemon holds its end.
InOrder ==
    \A i \in 1 .. Len(lines) :
        lines[i].generation > Base + 1 =>
            \E j \in 1 .. i - 1 : lines[j].generation = lines[i].generation - 1
Complete ==
    ~peerClosed => \A g \in Base + 1 .. Len(published) :
                      \E i \in 1 .. Len(lines) : lines[i].generation = g

Channel == sock = "open" => Greeted /\ InOrder /\ Complete

Data == Transport /\ Chain /\ NotAhead /\ Channel

---------------------------------------------------------------------------
(* Types                                                                   *)

\* Sequence facts of the wire: reading takes the head off, sending appends.
LEMMA Reading ==
    ASSUME NEW s \in Seq(Line), s # <<>>
    PROVE  /\ Head(s) \in Line
           /\ Tail(s) \in Seq(Line)
           /\ Head(s) = s[1]
           /\ Len(s) \in Nat \ {0}
           /\ Len(Tail(s)) = Len(s) - 1
           /\ \A i \in 1 .. Len(s) - 1 : Tail(s)[i] = s[i + 1]
    OBVIOUS

LEMMA Names ==
    ASSUME NEW s \in Seq(Line)
    PROVE  /\ Len(s) \in Nat
           /\ \A i \in 1 .. Len(s) : s[i].generation \in Nat \ {0}
    <1>1. \A i \in 1 .. Len(s) : s[i] \in Line
        OBVIOUS
    <1> QED BY <1>1 DEF Line

LEMMA Joining ==
    ASSUME NEW s \in Seq(Line), NEW u \in Seq(Line)
    PROVE  /\ s \o u \in Seq(Line)
           /\ Len(s \o u) = Len(s) + Len(u)
           /\ \A i \in 1 .. Len(s) + Len(u) :
                 (s \o u)[i] = IF i <= Len(s) THEN s[i] ELSE u[i - Len(s)]
    OBVIOUS

LEMMA TypedInit == Init => Typed
    <1> SUFFICES ASSUME Init PROVE Typed
        OBVIOUS
    <1>1. published \in Seq(Event) /\ published # <<>>
        <2> DEFINE first == [topic |-> NoTopic, garbled |-> FALSE,
                             state |-> [t \in Topics |-> 1]]
        <2>1. first \in Event
            BY DEF Event
        <2>2. published = <<first>>
            BY DEF Init
        <2> HIDE DEF first
        <2> QED BY <2>1, <2>2
    <1>2. lines = <<>> /\ stale = <<>>
        BY DEF Init
    <1>3. DaemonTypeOK
        BY <1>1 DEF Init, DaemonTypeOK
    <1>4. SocketTypeOK
        <2>1. <<>> \in Seq(Line)
            OBVIOUS
        <2>2. sock = "idle" /\ peerClosed = FALSE
            BY DEF Init
        <2> QED BY <1>2, <2>1, <2>2 DEF SocketTypeOK
    <1>5. ProtocolTypeOK
        BY DEF Init, ProtocolTypeOK
    <1>6. PolicyTypeOK
        <2>1. later \in BOOLEAN
            BY Zenon DEF Init
        <2>2. enabled \in BOOLEAN /\ intentionalDisconnect \in BOOLEAN
            BY DEF Init
        <2>3. reconnectAttempt \in 0 .. AttemptCap
            BY BoundAssumption DEF Init
        <2>4. timer \in [running : BOOLEAN, interval : Nat]
            BY RetryAssumption DEF Init
        <2> QED BY <2>1, <2>2, <2>3, <2>4 DEF PolicyTypeOK
    <1>7. Numbered
        BY <1>2 DEF Numbered
    <1> QED BY <1>3, <1>4, <1>5, <1>6, <1>7 DEF Typed, TypeOK

\* Accepting a line takes over the generation and the data it names.
LEMMA AcceptTyped ==
    ASSUME DaemonTypeOK, ProtocolTypeOK, PolicyTypeOK, NEW line \in Line,
           line.generation <= Len(published), AcceptEnvelope(line)
    PROVE  ProtocolTypeOK' /\ PolicyTypeOK'
    <1>1. published[line.generation] \in Event
        BY DEF DaemonTypeOK, Line
    <1>2. ApplyPayload(line) \in [Topics -> Nat]
        BY <1>1 DEF ApplyPayload, ProtocolTypeOK, Event
    <1>3. ProtocolTypeOK'
        BY <1>2 DEF AcceptEnvelope, ProtocolTypeOK, Line
    <1>4. PolicyTypeOK'
        <2>1. reconnectAttempt' \in 0 .. AttemptCap
            BY BoundAssumption DEF AcceptEnvelope
        <2> QED BY <2>1 DEF AcceptEnvelope, PolicyTypeOK
    <1> QED BY <1>3, <1>4

LEMMA RejectTyped ==
    ASSUME ProtocolTypeOK, PolicyTypeOK, NEW line \in Line, RejectEnvelope(line)
    PROVE  ProtocolTypeOK' /\ PolicyTypeOK'
    BY DEF RejectEnvelope, ProtocolTypeOK, PolicyTypeOK, policyVars

\* A retry is timed with a delay that is a number of milliseconds.
LEMMA ScheduleTyped ==
    ASSUME ProtocolTypeOK, PolicyTypeOK, ScheduleReconnect
    PROVE  /\ ProtocolTypeOK'
           /\ reconnectAttempt' \in 0 .. AttemptCap
           /\ timer' \in [running : BOOLEAN, interval : Nat]
    <1>1. ProtocolTypeOK'
        BY DEF ScheduleReconnect, Disconnected, ProtocolTypeOK
    <1>2. Smaller(AttemptCap, reconnectAttempt + 1) \in 0 .. AttemptCap
        BY BoundAssumption DEF PolicyTypeOK, Smaller
    <1>3. BoundedRetryDelay(reconnectAttempt) \in Nat
        BY RetryAssumption DEF PolicyTypeOK
    <1>4. CASE UNCHANGED <<timer, reconnectAttempt>>
        BY <1>1, <1>4 DEF PolicyTypeOK
    <1>5. CASE StartTimer
        <2>1. CASE timer.running
            BY <1>1, <1>4, <1>5, <2>1 DEF StartTimer
        <2>2. CASE ~timer.running
            <3>1. /\ timer' = [running |-> TRUE,
                               interval |-> BoundedRetryDelay(reconnectAttempt)]
                  /\ reconnectAttempt' = Smaller(AttemptCap, reconnectAttempt + 1)
                BY <1>5, <2>2, Zenon DEF StartTimer
            <3> QED BY <1>1, <1>2, <1>3, <3>1
        <2> QED BY <2>1, <2>2
    <1> QED BY <1>4, <1>5 DEF ScheduleReconnect

LEMMA EndTransportTyped ==
    ASSUME SocketTypeOK, Numbered, EndTransport, UNCHANGED published
    PROVE  SocketTypeOK' /\ Numbered'
    <1>1. lines \in Seq(Line) /\ stale \in Seq(Line)
        BY DEF SocketTypeOK
    <1>2. lines' = <<>> /\ stale' = stale \o lines
        BY DEF EndTransport
    <1>3. lines' \in Seq(Line) /\ stale' \in Seq(Line)
        BY <1>1, <1>2, Joining
    <1>4. SocketTypeOK'
        BY <1>3 DEF SocketTypeOK, EndTransport
    <1>5. Numbered'
        BY <1>1, <1>2, Joining DEF Numbered
    <1> QED BY <1>4, <1>5

\* A line sent names a published event and keeps the wire well typed.
LEMMA SendTyped ==
    ASSUME SocketTypeOK, Numbered, NEW line \in Line, Send(line),
           UNCHANGED <<sock, peerClosed, stale>>,
           Len(published) \in Nat, Len(published') \in Nat,
           Len(published) <= Len(published'), line.generation <= Len(published')
    PROVE  SocketTypeOK' /\ Numbered'
    <1> USE DEF Numbered
    <1>1. /\ Len(lines) \in Nat /\ Len(stale) \in Nat
          /\ \A i \in 1 .. Len(lines) : lines[i].generation \in Nat
          /\ \A i \in 1 .. Len(stale) : stale[i].generation \in Nat
        BY Names DEF SocketTypeOK
    <1>2. \A i \in 1 .. Len(lines) : lines[i].generation <= Len(published')
        BY <1>1
    <1>3. \A i \in 1 .. Len(stale) : stale[i].generation <= Len(published')
        BY <1>1
    <1>4. CASE lines' = lines
        BY <1>2, <1>3, <1>4 DEF SocketTypeOK
    <1>5. CASE lines' = Append(lines, line)
        <2>1. SocketTypeOK'
            BY <1>5 DEF SocketTypeOK
        <2>2. /\ Len(lines') = Len(lines) + 1
              /\ \A i \in 1 .. Len(lines') :
                    lines'[i] = IF i <= Len(lines) THEN lines[i] ELSE line
            BY <1>5 DEF SocketTypeOK
        <2>3. \A i \in 1 .. Len(lines') : lines'[i].generation <= Len(published')
            BY <1>1, <1>2, <2>2
        <2> QED BY <1>3, <2>1, <2>3
    <1> QED BY <1>4, <1>5 DEF Send

\* One event more is published; the daemon's state stays well typed.
LEMMA PublishTyped ==
    ASSUME DaemonTypeOK, NEW t \in Topics \cup {NoTopic}, NEW garbled \in BOOLEAN,
           Publish(t, garbled)
    PROVE  /\ DaemonTypeOK'
           /\ Len(published') = Len(published) + 1
           /\ Len(published) \in Nat \ {0}
           /\ \A g \in 1 .. Len(published) : published'[g] = published[g]
           /\ published'[Len(published) + 1] =
                 [topic |-> t, garbled |-> garbled,
                  state |-> [u \in Topics |->
                      IF u = t THEN Len(published) + 1
                      ELSE published[Len(published)].state[u]]]
    <1> DEFINE g == Len(published) + 1
               event == [topic |-> t, garbled |-> garbled,
                         state |-> [u \in Topics |->
                            IF u = t THEN g ELSE published[Len(published)].state[u]]]
    <1>1. Len(published) \in Nat \ {0} /\ published[Len(published)] \in Event
        BY DEF DaemonTypeOK
    <1>2. event \in Event
        BY <1>1 DEF Event
    <1>3. published' = Append(published, event) /\ up' = up /\ repeats' = repeats
        BY DEF Publish
    <1> HIDE DEF event
    <1>4. /\ published' \in Seq(Event) /\ published' # <<>>
          /\ Len(published') = Len(published) + 1
          /\ \A i \in 1 .. Len(published) : published'[i] = published[i]
          /\ published'[Len(published) + 1] = event
        BY <1>1, <1>2, <1>3 DEF DaemonTypeOK
    <1>5. DaemonTypeOK'
        BY <1>3, <1>4 DEF DaemonTypeOK
    <1> QED BY <1>1, <1>4, <1>5 DEF event

LEMMA TypedNext == Typed /\ [Next]_vars => Typed'
    <1> SUFFICES ASSUME Typed, [Next]_vars PROVE Typed'
        OBVIOUS
    <1> USE DEF Typed, TypeOK
    <1>1. ASSUME RunLater PROVE Typed'
        <2>1. CASE ConnectStream
            BY <1>1, <2>1 DEF RunLater, ConnectStream, StopTimer, BeginConnection,
                daemonVars, DaemonTypeOK, SocketTypeOK, ProtocolTypeOK, PolicyTypeOK,
                Numbered
        <2>2. CASE ConnectRefused /\ UNCHANGED timer
            BY ZenonT(40), <1>1, <2>2 DEF RunLater, ConnectRefused, protocolVars, socketVars,
                daemonVars, DaemonTypeOK, SocketTypeOK, ProtocolTypeOK, PolicyTypeOK,
                Numbered
        <2> QED BY <1>1, <2>1, <2>2 DEF RunLater
    <1>2. ASSUME TimerFires PROVE Typed'
        <2>1. CASE ConnectStream
            BY <1>2, <2>1 DEF TimerFires, ConnectStream, StopTimer, BeginConnection,
                daemonVars, DaemonTypeOK, SocketTypeOK, ProtocolTypeOK, PolicyTypeOK,
                Numbered
        <2>2. CASE ConnectRefused /\ StopTimer
            BY ZenonT(40), <1>2, <2>2 DEF TimerFires, ConnectRefused, StopTimer, protocolVars,
                socketVars, daemonVars, DaemonTypeOK, SocketTypeOK, ProtocolTypeOK,
                PolicyTypeOK, Numbered
        <2> QED BY <1>2, <2>1, <2>2 DEF TimerFires
    <1>3. ASSUME AttemptSucceeds PROVE Typed'
        <2>1. FullSnapshot(Len(published)) \in Line
            BY DEF DaemonTypeOK, FullSnapshot, Line
        <2>2. lines' = <<FullSnapshot(Len(published))>> /\ UNCHANGED published
            BY <1>3 DEF AttemptSucceeds, daemonVars
        <2>3. lines' \in Seq(Line)
            BY <2>1, <2>2
        <2>4. Numbered'
            BY <1>3, <2>2 DEF AttemptSucceeds, Numbered, FullSnapshot, DaemonTypeOK
        <2> QED BY <1>3, <2>3, <2>4 DEF AttemptSucceeds, BeginConnection, daemonVars,
                policyVars, DaemonTypeOK, SocketTypeOK, ProtocolTypeOK, PolicyTypeOK
    <1>4. ASSUME HandleSocketError PROVE Typed'
        <2>1. DaemonTypeOK' /\ UNCHANGED published
            BY <1>4 DEF HandleSocketError, daemonVars, DaemonTypeOK
        <2>2. SocketTypeOK' /\ Numbered'
            BY <1>4, <2>1, EndTransportTyped DEF HandleSocketError
        <2>3. ProtocolTypeOK' /\ PolicyTypeOK'
            BY <1>4, ScheduleTyped DEF HandleSocketError, PolicyTypeOK
        <2> QED BY <2>1, <2>2, <2>3
    <1>5. ASSUME HandleSocketDisconnected PROVE Typed'
        <2>1. DaemonTypeOK' /\ UNCHANGED published
            BY <1>5 DEF HandleSocketDisconnected, daemonVars, DaemonTypeOK
        <2>2. SocketTypeOK' /\ Numbered'
            BY <1>5, <2>1, EndTransportTyped DEF HandleSocketDisconnected
        <2>3. ProtocolTypeOK' /\ PolicyTypeOK'
            <3>1. CASE intentionalDisconnect
                BY <1>5, <3>1 DEF HandleSocketDisconnected, StopTimer, protocolVars,
                    ProtocolTypeOK, PolicyTypeOK
            <3>2. CASE ~intentionalDisconnect /\ enabled
                BY <1>5, <3>2, ScheduleTyped DEF HandleSocketDisconnected, PolicyTypeOK
            <3>3. CASE ~intentionalDisconnect /\ ~enabled
                BY <1>5, <3>3 DEF HandleSocketDisconnected, protocolVars,
                    ProtocolTypeOK, PolicyTypeOK
            <3> QED BY <3>1, <3>2, <3>3
        <2> QED BY <2>1, <2>2, <2>3
    <1>6. ASSUME ReadLine PROVE Typed'
        <2> DEFINE line == Head(lines)
        <2>1. lines \in Seq(Line) /\ lines # <<>>
            BY <1>6 DEF ReadLine, SocketTypeOK
        <2>2. line \in Line /\ line.generation <= Len(published)
            BY <2>1, Reading DEF Numbered
        <2>3. DaemonTypeOK' /\ UNCHANGED published
            BY <1>6 DEF ReadLine, daemonVars, DaemonTypeOK
        <2>4. SocketTypeOK' /\ Numbered'
            BY <1>6, <2>1, <2>3, Reading DEF ReadLine, SocketTypeOK, Numbered
        <2>5. AcceptEnvelope(line) \/ RejectEnvelope(line)
            BY <1>6 DEF ReadLine
        <2>6. ProtocolTypeOK' /\ PolicyTypeOK'
            BY <2>2, <2>5, AcceptTyped, RejectTyped
        <2> QED BY <2>3, <2>4, <2>6
    <1>7. ASSUME ReadStaleLine PROVE Typed'
        <2> DEFINE line == Head(stale)
        <2>1. stale \in Seq(Line) /\ stale # <<>>
            BY <1>7 DEF ReadStaleLine, SocketTypeOK
        <2>2. line \in Line /\ line.generation <= Len(published)
            BY <2>1, Reading DEF Numbered
        <2>3. DaemonTypeOK' /\ UNCHANGED published
            BY <1>7 DEF ReadStaleLine, daemonVars, DaemonTypeOK
        <2>4. SocketTypeOK' /\ Numbered'
            BY <1>7, <2>1, <2>3, Reading DEF ReadStaleLine, SocketTypeOK, Numbered
        <2>5. AcceptEnvelope(line) \/ RejectEnvelope(line)
            BY <1>7 DEF ReadStaleLine
        <2>6. ProtocolTypeOK' /\ PolicyTypeOK'
            BY <2>2, <2>5, AcceptTyped, RejectTyped
        <2> QED BY <2>3, <2>4, <2>6
    <1>8. ASSUME CollectSocket PROVE Typed'
        BY <1>8 DEF CollectSocket, daemonVars, protocolVars, policyVars, DaemonTypeOK,
            SocketTypeOK, ProtocolTypeOK, PolicyTypeOK, Numbered
    <1>9. ASSUME NEW t \in Topics \cup {NoTopic}, NEW garbled \in BOOLEAN,
                 Publish(t, garbled)
          PROVE  Typed'
        <2>1. Update(Len(published) + 1) \in Line
            BY DEF Update, Line, DaemonTypeOK
        <2>2. DaemonTypeOK' /\ Len(published) \in Nat /\ Len(published') = Len(published) + 1
            BY <1>9, PublishTyped
        <2>3. SocketTypeOK' /\ Numbered'
            BY <1>9, <2>1, <2>2, SendTyped DEF Publish, Update
        <2>4. ProtocolTypeOK' /\ PolicyTypeOK'
            BY <1>9 DEF Publish, protocolVars, policyVars, ProtocolTypeOK, PolicyTypeOK
        <2> QED BY <2>2, <2>3, <2>4
    <1>10. ASSUME NEW g \in 1 .. Len(published), NEW line \in {FullSnapshot(g), Update(g)},
                  SendOutOfTurn(line)
           PROVE  Typed'
        <2>1. line \in Line /\ line.generation = g
            BY DEF FullSnapshot, Update, Line
        <2>2. DaemonTypeOK' /\ UNCHANGED published /\ Len(published) \in Nat
            BY <1>10 DEF SendOutOfTurn, DaemonTypeOK
        <2>3. SocketTypeOK' /\ Numbered'
            BY <1>10, <2>1, <2>2, SendTyped DEF SendOutOfTurn
        <2>4. ProtocolTypeOK' /\ PolicyTypeOK'
            BY <1>10 DEF SendOutOfTurn, protocolVars, policyVars, ProtocolTypeOK,
                PolicyTypeOK
        <2> QED BY <2>2, <2>3, <2>4
    <1>11. ASSUME Crash PROVE Typed'
        BY <1>11 DEF Crash, protocolVars, policyVars, DaemonTypeOK, SocketTypeOK,
            ProtocolTypeOK, PolicyTypeOK, Numbered
    <1>12. ASSUME Restart PROVE Typed'
        BY <1>12 DEF Restart, socketVars, protocolVars, policyVars, DaemonTypeOK,
            SocketTypeOK, ProtocolTypeOK, PolicyTypeOK, Numbered
    <1>13. ASSUME NEW value \in BOOLEAN, SetEnabled(value) PROVE Typed'
        <2>1. DaemonTypeOK' /\ UNCHANGED published
            BY <1>13 DEF SetEnabled, daemonVars, DaemonTypeOK
        <2>2. CASE value
            BY <1>13, <2>1, <2>2 DEF SetEnabled, socketVars, protocolVars,
                SocketTypeOK, ProtocolTypeOK, PolicyTypeOK, Numbered
        <2>3. CASE ~value
            <3>1. StopStream /\ UNCHANGED <<later, reconnectAttempt>> /\ enabled' = value
                BY <1>13, <2>3 DEF SetEnabled
            <3>2. ProtocolTypeOK' /\ PolicyTypeOK'
                BY <3>1 DEF StopStream, StopTimer, Disconnected, ProtocolTypeOK,
                    PolicyTypeOK
            <3>3. SocketTypeOK' /\ Numbered'
                BY <2>1, <3>1, EndTransportTyped DEF StopStream, SocketTypeOK, Numbered
            <3> QED BY <2>1, <3>2, <3>3
        <2> QED BY <2>2, <2>3
    <1>14. CASE UNCHANGED vars
        BY <1>14 DEF vars, daemonVars, socketVars, protocolVars, policyVars,
            DaemonTypeOK, SocketTypeOK, ProtocolTypeOK, PolicyTypeOK, Numbered
    <1> QED BY <1>1, <1>2, <1>3, <1>4, <1>5, <1>6, <1>7, <1>8, <1>9, <1>10, <1>11,
            <1>12, <1>13, <1>14 DEF Next, Client, Daemon

LEMMA AlwaysTyped == Spec => []Typed
    <1> QED BY TypedInit, TypedNext, PTL DEF Spec

\* Whatever the daemon sends and the user toggles, every variable keeps its
\* type; the attempt counter never exceeds its cap.
THEOREM TypeCorrect == Spec => []TypeOK
    <1>1. Typed => TypeOK
        BY DEF Typed
    <1> QED BY <1>1, AlwaysTyped, PTL

---------------------------------------------------------------------------
(* The reconnect policy                                                    *)

Control == OneRetryLoop /\ SuppressionIsOutstanding /\ NoLostReconnect

LEMMA ControlInit == Init => Control
    BY DEF Init, Control, OneRetryLoop, SuppressionIsOutstanding, NoLostReconnect

\* After a disconnection that was not asked for, an enabled client has its
\* retry timed and a disabled one has not.
LEMMA ScheduleTimes ==
    ASSUME PolicyTypeOK, Control, ScheduleReconnect, ~intentionalDisconnect
    PROVE  timer'.running \in BOOLEAN /\ (timer'.running <=> enabled)
    <1>1. CASE ~enabled
        BY <1>1 DEF ScheduleReconnect, Control, OneRetryLoop, PolicyTypeOK
    <1>2. CASE enabled
        <2>1. StartTimer
            BY <1>2 DEF ScheduleReconnect
        <2>2. CASE timer.running
            BY <1>2, <2>1, <2>2 DEF StartTimer
        <2>3. CASE ~timer.running
            <3>1. timer' = [running |-> TRUE,
                            interval |-> BoundedRetryDelay(reconnectAttempt)]
                BY <2>1, <2>3, Zenon DEF StartTimer
            <3> QED BY <1>2, <3>1
        <2> QED BY <2>2, <2>3
    <1> QED BY <1>1, <1>2 DEF PolicyTypeOK

LEMMA StopTimerStops ==
    ASSUME PolicyTypeOK, StopTimer
    PROVE  timer'.running = FALSE
    BY DEF PolicyTypeOK, StopTimer

\* The daemon only ever touches its own state and the wire.
LEMMA DaemonLeaves ==
    Daemon => UNCHANGED <<sock, stale, protocolVars, policyVars>>
    <1>1. \A t \in Topics \cup {NoTopic}, garbled \in BOOLEAN :
             Publish(t, garbled) => UNCHANGED <<sock, stale, protocolVars, policyVars>>
        BY DEF Publish
    <1>2. \A line : SendOutOfTurn(line) =>
                       UNCHANGED <<sock, stale, protocolVars, policyVars>>
        BY DEF SendOutOfTurn
    <1>3. Crash \/ Restart => UNCHANGED <<sock, stale, protocolVars, policyVars>>
        BY DEF Crash, Restart, socketVars
    <1> QED BY <1>1, <1>2, <1>3 DEF Daemon

LEMMA ControlNext == Typed /\ Control /\ [Next]_vars => Control'
    <1> SUFFICES ASSUME Typed, Control, [Next]_vars PROVE Control'
        OBVIOUS
    <1> USE DEF Control, OneRetryLoop, SuppressionIsOutstanding, NoLostReconnect
    <1>0. PolicyTypeOK /\ SocketTypeOK
        BY DEF Typed, TypeOK
    <1>1. ASSUME RunLater PROVE Control'
        <2>1. CASE ConnectStream
            BY <1>0, <1>1, <2>1, StopTimerStops DEF RunLater, ConnectStream
        <2>2. CASE ConnectRefused /\ UNCHANGED timer
            BY <1>1, <2>2 DEF RunLater, ConnectRefused, socketVars
        <2> QED BY <1>1, <2>1, <2>2 DEF RunLater
    <1>2. ASSUME TimerFires PROVE Control'
        <2>1. CASE ConnectStream
            BY <1>0, <1>2, <2>1, StopTimerStops DEF TimerFires, ConnectStream
        <2>2. CASE ConnectRefused /\ StopTimer
            BY <1>2, <2>2 DEF TimerFires, ConnectRefused
        <2> QED BY <1>2, <2>1, <2>2 DEF TimerFires
    <1>3. ASSUME AttemptSucceeds PROVE Control'
        BY <1>3 DEF AttemptSucceeds, policyVars
    <1>4. ASSUME HandleSocketError PROVE Control'
        BY <1>0, <1>4, ScheduleTimes DEF HandleSocketError, EndTransport
    <1>5. ASSUME HandleSocketDisconnected PROVE Control'
        <2>1. CASE intentionalDisconnect
            <3>1. timer'.running = FALSE
                BY <1>0, <1>5, <2>1, StopTimerStops DEF HandleSocketDisconnected
            <3> QED BY <1>5, <2>1, <3>1 DEF HandleSocketDisconnected, EndTransport
        <2>2. CASE ~intentionalDisconnect /\ enabled
            BY <1>0, <1>5, <2>2, ScheduleTimes DEF HandleSocketDisconnected, EndTransport
        <2>3. CASE ~intentionalDisconnect /\ ~enabled
            BY <1>5, <2>3 DEF HandleSocketDisconnected, EndTransport
        <2> QED BY <2>1, <2>2, <2>3
    <1>6. ASSUME ReadLine PROVE Control'
        BY <1>6 DEF ReadLine, AcceptEnvelope, RejectEnvelope, policyVars
    <1>7. ASSUME ReadStaleLine PROVE Control'
        BY <1>7 DEF ReadStaleLine, AcceptEnvelope, RejectEnvelope, policyVars
    <1>8. ASSUME CollectSocket PROVE Control'
        BY <1>8 DEF CollectSocket, policyVars
    <1>9. ASSUME Daemon PROVE Control'
        BY <1>9, DaemonLeaves DEF policyVars
    <1>10. ASSUME NEW value \in BOOLEAN, SetEnabled(value) PROVE Control'
        <2>1. CASE value
            BY <1>10, <2>1 DEF SetEnabled, socketVars
        <2>2. CASE ~value
            <3>1. StopStream /\ enabled' = FALSE
                BY <1>10, <2>2 DEF SetEnabled
            <3>2. timer'.running = FALSE
                BY <1>0, <3>1, StopTimerStops DEF StopStream
            <3> QED BY <3>1, <3>2 DEF StopStream, EndTransport
        <2> QED BY <2>1, <2>2
    <1>11. CASE UNCHANGED vars
        BY <1>11 DEF vars, socketVars, policyVars
    <1> QED BY <1>1, <1>2, <1>3, <1>4, <1>5, <1>6, <1>7, <1>8, <1>9, <1>10, <1>11
            DEF Next, Client

LEMMA AlwaysControl == Spec => [](Typed /\ Control)
    <1>1. Spec => []Typed
        BY AlwaysTyped
    <1>2. Init => Control
        BY ControlInit
    <1>3. Typed /\ Control /\ [Next]_vars => Control'
        BY ControlNext
    <1> QED BY <1>1, <1>2, <1>3, PTL DEF Spec

\* An enabled stream always has a way back: whatever the order of errors,
\* disconnections, timers and toggles, an idle client has a retry timed or a
\* connectStream call queued.
THEOREM ReconnectNeverLost == Spec => []NoLostReconnect
    <1>1. Typed /\ Control => NoLostReconnect
        BY DEF Control
    <1> QED BY <1>1, AlwaysControl, PTL

\* The retry timer never runs beside an attempt, a connection or a disabled
\* stream.
THEOREM RetryLoopIsSingle == Spec => []OneRetryLoop
    <1>1. Typed /\ Control => OneRetryLoop
        BY DEF Control
    <1> QED BY <1>1, AlwaysControl, PTL

\* The flag that suppresses reconnection never outlives the disconnection it
\* waits for.
THEOREM SuppressionEnds == Spec => []SuppressionIsOutstanding
    <1>1. Typed /\ Control => SuppressionIsOutstanding
        BY DEF Control
    <1> QED BY <1>1, AlwaysControl, PTL

\* The retries hold together: there is always exactly one way back to the daemon,
\* and none for a stream that is disabled.
THEOREM RetriesHoldTogether == Spec => []RetriesAreSound
    <1>1. /\ TypeOK /\ NoLostReconnect
          /\ OneRetryLoop /\ SuppressionIsOutstanding
          => RetriesAreSound
        BY DEF RetriesAreSound
    <1> QED BY <1>1, TypeCorrect, ReconnectNeverLost, RetryLoopIsSingle,
            SuppressionEnds, PTL

---------------------------------------------------------------------------
(* The wire and the snapshot                                               *)

LEMMA DataInit == Init => Data
    <1> SUFFICES ASSUME Init PROVE Data
        OBVIOUS
    <1>1. Transport /\ Channel
        BY DEF Init, Transport, Channel
    <1>2. /\ Len(published) = 1
          /\ published[1].state = [t \in Topics |-> 1]
        BY DEF Init
    <1>3. Chain
        BY <1>2 DEF Chain, Bounded, Monotone, Successive
    <1>4. NotAhead
        BY <1>2 DEF Init, NotAhead
    <1> QED BY <1>1, <1>3, <1>4 DEF Data

LEMMA States ==
    ASSUME DaemonTypeOK
    PROVE  /\ Len(published) \in Nat \ {0}
           /\ \A g \in 1 .. Len(published) :
                 /\ published[g].topic \in Topics \cup {NoTopic}
                 /\ published[g].state \in [Topics -> Nat]
    <1>1. \A g \in 1 .. Len(published) : published[g] \in Event
        BY DEF DaemonTypeOK
    <1> QED BY <1>1 DEF DaemonTypeOK, Event

\* A new event continues the chain.
LEMMA PublishChain ==
    ASSUME DaemonTypeOK, Chain, NEW t \in Topics \cup {NoTopic},
           NEW garbled \in BOOLEAN, Publish(t, garbled)
    PROVE  Chain'
    <1> DEFINE last == Len(published)
    <1>1. /\ last \in Nat \ {0} /\ Len(published') = last + 1
          /\ \A g \in 1 .. last : published'[g] = published[g]
          /\ published'[last + 1].topic = t
          /\ \A u \in Topics : published'[last + 1].state[u] =
                IF u = t THEN last + 1 ELSE published[last].state[u]
        <2>1. published'[last + 1] =
                 [topic |-> t, garbled |-> garbled,
                  state |-> [u \in Topics |->
                      IF u = t THEN last + 1 ELSE published[last].state[u]]]
            BY PublishTyped, Zenon
        <2>2. /\ last \in Nat \ {0} /\ Len(published') = last + 1
              /\ \A g \in 1 .. last : published'[g] = published[g]
            BY PublishTyped, Zenon
        <2> HIDE DEF last
        <2> QED BY <2>1, <2>2
    <1>2. \A g \in 1 .. last : \A u \in Topics : published[g].state[u] \in Nat
        BY States
    <1> HIDE DEF last
    <1>3. \A g \in 1 .. last : \A u \in Topics :
             /\ published[g].state[u] <= g
             /\ published[g].state[u] <= published[last].state[u]
        BY <1>1 DEF Chain, Bounded, Monotone, last
    <1>4. Bounded'
        BY <1>1, <1>2, <1>3 DEF Bounded
    <1>5. Monotone'
        <2> SUFFICES ASSUME NEW g \in 1 .. last + 1, NEW h \in 1 .. last + 1,
                            NEW u \in Topics, g <= h
                     PROVE  published'[g].state[u] <= published'[h].state[u]
            BY <1>1 DEF Monotone
        <2>1. CASE h <= last
            BY <1>1, <2>1 DEF Chain, Monotone, last
        <2>2. CASE h = last + 1 /\ g <= last
            BY <1>1, <1>2, <1>3, <2>2
        <2>3. CASE h = last + 1 /\ g = last + 1
            BY <1>1, <1>2, <2>3
        <2> QED BY <1>1, <2>1, <2>2, <2>3
    <1>6. Successive'
        <2> SUFFICES ASSUME NEW g \in 1 .. last, NEW u \in Topics,
                            u # published'[g + 1].topic
                     PROVE  published'[g + 1].state[u] = published'[g].state[u]
            BY <1>1 DEF Successive
        <2>1. CASE g < last
            BY <1>1, <2>1 DEF Chain, Successive, last
        <2>2. CASE g = last
            BY <1>1, <2>2
        <2> QED BY <1>1, <2>1, <2>2
    <1> QED BY <1>4, <1>5, <1>6 DEF Chain

LEMMA PublishNotAhead ==
    ASSUME DaemonTypeOK, ProtocolTypeOK, NotAhead, NEW t \in Topics \cup {NoTopic},
           NEW garbled \in BOOLEAN, Publish(t, garbled)
    PROVE  NotAhead'
    <1>1. /\ Len(published) \in Nat /\ Len(published') = Len(published) + 1
          /\ \A g \in 1 .. Len(published) : published'[g] = published[g]
        BY PublishTyped
    <1>2. generation' = generation /\ snapshot' = snapshot
        BY DEF Publish, protocolVars
    <1> QED BY <1>1, <1>2 DEF NotAhead, ProtocolTypeOK

\* Accepting a line, whichever socket it comes from, never takes the generation
\* or the data of any topic back.
LEMMA AcceptForward ==
    ASSUME DaemonTypeOK, ProtocolTypeOK, Chain, NotAhead, NEW line \in Line,
           line.generation <= Len(published), AcceptEnvelope(line),
           UNCHANGED published
    PROVE  /\ NotAhead'
           /\ generation' = line.generation
           /\ generation' >= generation
           /\ \A t \in Topics : snapshot'[t] >= snapshot[t]
    <1> DEFINE g == line.generation
               event == published[g]
    <1>1. g \in 1 .. Len(published) /\ g \in Nat \ {0} /\ Len(published) \in Nat
        BY States DEF Line
    <1>2. event.state \in [Topics -> Nat] /\ snapshot \in [Topics -> Nat]
        BY <1>1, States DEF ProtocolTypeOK
    <1>3. generation' = g /\ snapshot' = ApplyPayload(line)
        BY DEF AcceptEnvelope
    <1>4. generation \in Nat /\ g >= generation
        BY <1>1 DEF AcceptEnvelope, Acceptable, ProtocolTypeOK
    <1>5. \A t \in Topics : snapshot[t] <= event.state[t]
        <2>1. CASE generation = 0
            BY <1>2, <2>1 DEF NotAhead
        <2>2. CASE generation > 0
            <3>1. generation \in 1 .. Len(published)
                BY <1>4, <2>2, States DEF NotAhead
            <3>2. \A t \in Topics : snapshot[t] <= published[generation].state[t]
                BY <2>2 DEF NotAhead
            <3>3. \A t \in Topics : published[generation].state[t] <= event.state[t]
                BY <1>1, <1>4, <3>1 DEF Chain, Monotone
            <3>4. published[generation].state \in [Topics -> Nat]
                BY <3>1, States
            <3> QED BY <1>2, <3>2, <3>3, <3>4
        <2> QED BY <1>4, <2>1, <2>2
    <1>6. \A t \in Topics : /\ snapshot'[t] >= snapshot[t]
                             /\ snapshot'[t] <= event.state[t]
        <2>1. CASE line.type = "fullSnapshot"
            BY <1>2, <1>3, <1>5, <2>1 DEF ApplyPayload
        <2>2. CASE line.type # "fullSnapshot"
            BY <1>2, <1>3, <1>5, <2>2 DEF ApplyPayload
        <2> QED BY <2>1, <2>2
    <1>7. NotAhead'
        BY <1>1, <1>3, <1>6 DEF NotAhead
    <1> QED BY <1>3, <1>4, <1>6, <1>7

\* A line sent on an open transport keeps the wire in order and complete.
LEMMA SendChannel ==
    ASSUME Typed, NotAhead, Greeted, InOrder, Complete, sock = "open", up,
           NEW line \in Line, Send(line),
           UNCHANGED <<sock, peerClosed, protocolVars>>,
           Len(published') \in Nat, Len(published) <= Len(published'),
           \A g \in 1 .. Len(published) : published'[g] = published[g],
           \/ published' = published /\ line.generation <= Len(published)
           \/ /\ Len(published') = Len(published) + 1
              /\ line.generation = Len(published')
    PROVE  Greeted' /\ InOrder' /\ Complete'
    <1>1. /\ lines \in Seq(Line) /\ generation \in Nat /\ peerClosed \in BOOLEAN
          /\ snapshotReceived \in BOOLEAN /\ Len(published) \in Nat
        BY States DEF Typed, TypeOK, SocketTypeOK, ProtocolTypeOK
    <1>2. /\ Len(lines) \in Nat
          /\ \A i \in 1 .. Len(lines) : lines[i].generation \in Nat \ {0}
        BY <1>1, Names
    <1>3. line.generation \in Nat \ {0} /\ line.generation <= Len(published) + 1
        BY <1>1 DEF Line
    <1>4. /\ connectionState' = connectionState /\ snapshotReceived' = snapshotReceived
          /\ generation' = generation /\ snapshot' = snapshot
        BY DEF protocolVars
    <1>5. ~snapshotReceived => lines # <<>> /\ Len(lines) >= 1
        BY <1>1, <1>2 DEF Greeted
    <1>6. Base \in Nat
        BY <1>1, <1>2, <1>5 DEF Base
    <1>7. CASE peerClosed
        <2>1. lines' = lines /\ peerClosed'
            BY <1>7 DEF Send, Listening
        <2>2. Base' = Base
            BY <1>4, <2>1 DEF Base
        <2>3. Greeted'
            BY <1>1, <1>4, <2>1 DEF Greeted, NotAhead
        <2> QED BY <2>1, <2>2, <2>3 DEF InOrder, Complete
    <1>8. CASE ~peerClosed
        <2>1. lines' = Append(lines, line)
            BY <1>8 DEF Send, Listening
        <2>2. /\ Len(lines') = Len(lines) + 1
              /\ \A i \in 1 .. Len(lines) : lines'[i] = lines[i]
              /\ lines'[Len(lines) + 1] = line
              /\ lines' # <<>>
            BY <1>1, <2>1
        <2>3. Base' = Base
            BY <1>2, <1>4, <1>5, <2>2 DEF Base
        <2>4. Greeted'
            BY <1>1, <1>2, <1>4, <1>5, <2>2 DEF Greeted, NotAhead
        <2>5. \A g \in Base + 1 .. Len(published) :
                 \E i \in 1 .. Len(lines) : lines[i].generation = g
            BY <1>8 DEF Complete
        <2>6. InOrder'
            <3> SUFFICES ASSUME NEW i \in 1 .. Len(lines) + 1,
                                lines'[i].generation > Base + 1
                         PROVE  \E j \in 1 .. i - 1 :
                                   lines'[j].generation = lines'[i].generation - 1
                BY <2>2, <2>3 DEF InOrder
            <3>1. CASE i <= Len(lines)
                <4>1. i \in 1 .. Len(lines) /\ lines[i].generation > Base + 1
                    BY <1>2, <2>2, <3>1
                <4>2. PICK j \in 1 .. i - 1 : lines[j].generation = lines[i].generation - 1
                    BY <4>1 DEF InOrder
                <4> QED BY <1>2, <2>2, <4>1, <4>2
            <3>2. CASE i = Len(lines) + 1
                <4>1. line.generation - 1 \in Base + 1 .. Len(published)
                    BY <1>1, <1>3, <1>6, <2>2, <3>2
                <4>2. PICK j \in 1 .. Len(lines) :
                         lines[j].generation = line.generation - 1
                    BY <2>5, <4>1
                <4> QED BY <1>2, <2>2, <3>2, <4>2
            <3> QED BY <1>2, <3>1, <3>2
        <2>7. Complete'
            <3> SUFFICES ASSUME NEW g \in Base + 1 .. Len(published')
                         PROVE  \E i \in 1 .. Len(lines) + 1 : lines'[i].generation = g
                BY <2>2, <2>3 DEF Complete
            <3>1. CASE g <= Len(published)
                <4>1. PICK i \in 1 .. Len(lines) : lines[i].generation = g
                    BY <1>1, <1>6, <2>5, <3>1
                <4> QED BY <1>2, <2>2, <4>1
            <3>2. CASE g > Len(published)
                <4>1. g = line.generation
                    BY <1>1, <1>6, <3>2
                <4> QED BY <1>2, <2>2, <4>1
            <3> QED BY <1>1, <1>6, <3>1, <3>2
        <2> QED BY <2>4, <2>6, <2>7
    <1> QED BY <1>7, <1>8

\* An accepted line of an open transport brings exactly the next generation,
\* or the first snapshot, and what is shown is what the daemon published.
LEMMA ReadChannel ==
    ASSUME Typed, Chain, NotAhead, Greeted, InOrder, Complete, sock = "open",
           lines # <<>>, lines' = Tail(lines), AcceptEnvelope(Head(lines)),
           UNCHANGED <<peerClosed, published>>
    PROVE  /\ Greeted' /\ InOrder' /\ Complete'
           /\ snapshotReceived => generation' = generation + 1
    <1> DEFINE line == lines[1]
               g == line.generation
    <1>1. /\ lines \in Seq(Line) /\ generation \in Nat /\ peerClosed \in BOOLEAN
          /\ snapshotReceived \in BOOLEAN /\ Len(published) \in Nat
          /\ DaemonTypeOK /\ snapshot \in [Topics -> Nat]
        BY States DEF Typed, TypeOK, SocketTypeOK, ProtocolTypeOK
    <1>2. /\ Head(lines) = line /\ line \in Line
          /\ Len(lines) \in Nat \ {0} /\ Len(lines') = Len(lines) - 1
          /\ \A i \in 1 .. Len(lines) - 1 : lines'[i] = lines[i + 1]
        BY <1>1, Reading
    <1>3. \A i \in 1 .. Len(lines) : lines[i].generation \in Nat \ {0}
        BY <1>1, Names
    <1>4. g \in 1 .. Len(published) /\ g \in Nat \ {0}
        BY <1>1, <1>2, <1>3 DEF Typed, Numbered
    <1>5. /\ generation' = g /\ snapshot' = ApplyPayload(line)
          /\ snapshotReceived' = TRUE /\ connectionState' = "ready"
        BY <1>2 DEF AcceptEnvelope
    <1>6. snapshotReceived => g = generation + 1
        <2> SUFFICES ASSUME snapshotReceived PROVE g = generation + 1
            OBVIOUS
        <2>1. g > generation
            BY <1>2 DEF AcceptEnvelope, Acceptable
        <2>2. ~(g > generation + 1)
            BY <1>1, <1>2 DEF InOrder, Base
        <2> QED BY <1>1, <1>4, <2>1, <2>2
    <1>7. Base \in Nat /\ Base <= g /\ Base' = g
        BY <1>1, <1>4, <1>5, <1>6 DEF Base
    <1>8. snapshot' = published[g].state
        <2>1. published[g].state \in [Topics -> Nat]
            BY <1>1, <1>4, States
        <2>2. CASE line.type = "fullSnapshot"
            BY <1>5, <2>2 DEF ApplyPayload
        <2>3. CASE line.type # "fullSnapshot"
            <3>1. snapshotReceived
                BY <1>2, <2>3 DEF AcceptEnvelope, Acceptable
            <3>2. generation > 0 /\ snapshot = published[generation].state
                BY <3>1 DEF Greeted
            <3>3. g = generation + 1
                BY <1>6, <3>1
            <3>4. \A t \in Topics : t # published[g].topic =>
                      published[g].state[t] = snapshot[t]
                BY <1>1, <1>4, <3>2, <3>3 DEF Chain, Successive
            <3>5. snapshot' = [t \in Topics |->
                       IF t = published[g].topic THEN published[g].state[t]
                                                 ELSE snapshot[t]]
                BY <1>5, <2>3 DEF ApplyPayload
            <3> QED BY <1>1, <2>1, <3>4, <3>5
        <2> QED BY <2>2, <2>3
    <1>9. Greeted'
        BY <1>4, <1>5, <1>8 DEF Greeted
    <1>10. InOrder'
        <2> SUFFICES ASSUME NEW i \in 1 .. Len(lines) - 1,
                            lines[i + 1].generation > g + 1
                     PROVE  \E j \in 1 .. i - 1 :
                               lines[j + 1].generation = lines[i + 1].generation - 1
            BY <1>2, <1>7 DEF InOrder
        <2>1. i + 1 \in 1 .. Len(lines) /\ lines[i + 1].generation > Base + 1
            BY <1>2, <1>3, <1>4, <1>7
        <2>2. PICK j \in 1 .. i : lines[j].generation = lines[i + 1].generation - 1
            BY <2>1 DEF InOrder
        <2>3. j # 1
            BY <1>3, <1>4, <2>1, <2>2
        <2>4. j - 1 \in 1 .. i - 1 /\ lines[(j - 1) + 1] = lines[j]
            BY <2>2, <2>3
        <2> QED BY <2>2, <2>4
    <1>11. Complete'
        <2> SUFFICES ASSUME ~peerClosed, NEW h \in g + 1 .. Len(published)
                     PROVE  \E i \in 1 .. Len(lines) - 1 : lines[i + 1].generation = h
            BY <1>2, <1>7 DEF Complete
        <2>1. h \in Base + 1 .. Len(published)
            BY <1>1, <1>4, <1>7
        <2>2. PICK i \in 1 .. Len(lines) : lines[i].generation = h
            BY <2>1 DEF Complete
        <2>3. i # 1
            BY <1>4, <2>2
        <2>4. i - 1 \in 1 .. Len(lines) - 1 /\ lines[(i - 1) + 1] = lines[i]
            BY <1>2, <2>2, <2>3
        <2> QED BY <2>2, <2>4
    <1> QED BY <1>5, <1>6, <1>9, <1>10, <1>11

LEMMA DataNext == Typed /\ Control /\ Data /\ [Next]_vars => Data'
    <1> SUFFICES ASSUME Typed, Control, Data, [Next]_vars PROVE Data'
        OBVIOUS
    <1>0. /\ DaemonTypeOK /\ SocketTypeOK /\ ProtocolTypeOK /\ Numbered
          /\ Transport /\ Chain /\ NotAhead /\ Channel
        BY DEF Typed, TypeOK, Data
    <1> USE DEF Data
    \* Steps that neither publish nor accept a line change no data.
    <1>A. UNCHANGED published => Chain'
        BY <1>0 DEF Chain, Bounded, Monotone, Successive
    <1>B. UNCHANGED <<published, generation, snapshot>> => NotAhead'
        BY <1>0 DEF NotAhead
    <1>C. sock' # "open" => Channel'
        BY DEF Channel
    <1>D. UNCHANGED <<sock, peerClosed, lines, published, protocolVars>> => Channel'
        BY <1>0 DEF Channel, Greeted, InOrder, Complete, Base, protocolVars
    <1>1. ASSUME RunLater \/ TimerFires PROVE Data'
        <2>1. UNCHANGED published /\ LoopIsFree
            BY <1>1 DEF RunLater, TimerFires, daemonVars
        <2>2. CASE ConnectStream
            BY <1>0, <1>A, <1>B, <1>C, <2>1, <2>2
                DEF ConnectStream, BeginConnection, Transport, LoopIsFree
        <2>3. CASE ConnectRefused
            BY <1>0, <1>A, <1>B, <1>D, <2>1, <2>3
                DEF ConnectRefused, protocolVars, socketVars, Transport
        <2> QED BY <1>1, <2>2, <2>3 DEF RunLater, TimerFires
    <1>2. ASSUME AttemptSucceeds PROVE Data'
        <2>1. /\ UNCHANGED <<published, generation, snapshot, stale>> /\ LoopIsFree
              /\ lines' = <<FullSnapshot(Len(published))>> /\ sock' = "open"
              /\ connectionState' = "connecting" /\ snapshotReceived' = FALSE
            BY <1>2 DEF AttemptSucceeds, daemonVars, BeginConnection
        <2>2. lines'[1] = FullSnapshot(Len(published)) /\ Len(lines') = 1 /\ lines' # <<>>
            BY <2>1
        <2>3. Len(published) \in Nat \ {0} /\ generation \in Nat
            BY <1>0, States DEF ProtocolTypeOK
        <2>4. Greeted'
            BY <1>0, <2>1, <2>2, <2>3 DEF Greeted, FullSnapshot, NotAhead
        <2>5. Base' = Len(published)
            BY <2>1, <2>2 DEF Base, FullSnapshot
        <2>6. InOrder' /\ Complete'
            BY <2>1, <2>2, <2>3, <2>5 DEF InOrder, Complete, FullSnapshot
        <2>7. Transport'
            BY <2>1 DEF Transport, LoopIsFree
        <2> QED BY <1>A, <1>B, <2>1, <2>4, <2>6, <2>7 DEF Channel
    <1>3. ASSUME HandleSocketError \/ HandleSocketDisconnected PROVE Data'
        <2>1. EndTransport /\ UNCHANGED <<published, generation, snapshot>>
            BY <1>3 DEF HandleSocketError, HandleSocketDisconnected, daemonVars,
                ScheduleReconnect, Disconnected, protocolVars
        <2> QED BY <1>A, <1>B, <1>C, <2>1 DEF EndTransport, Transport
    <1>4. ASSUME ReadLine PROVE Data'
        <2> DEFINE line == Head(lines)
        <2>1. /\ lines \in Seq(Line) /\ lines # <<>> /\ lines' = Tail(lines)
              /\ UNCHANGED <<published, peerClosed, stale>>
              /\ sock \in {"open", "closing"}
            BY <1>0, <1>4 DEF ReadLine, SocketTypeOK, daemonVars
        <2>2. line \in Line /\ line.generation <= Len(published)
            BY <1>0, <2>1, Reading DEF Numbered
        <2>3. CASE AcceptEnvelope(line) /\ UNCHANGED sock
            <3>1. NotAhead'
                BY <1>0, <2>1, <2>2, <2>3, AcceptForward
            <3>2. Transport'
                BY <1>0, <2>1, <2>3 DEF Transport
            <3>3. Channel'
                BY <1>0, <2>1, <2>3, ReadChannel DEF Channel
            <3> QED BY <1>A, <2>1, <3>1, <3>2, <3>3
        <2>4. CASE RejectEnvelope(line) /\ sock' = "closing"
            BY <1>0, <1>A, <1>B, <1>C, <2>1, <2>4 DEF RejectEnvelope, Transport
        <2> QED BY <1>4, <2>3, <2>4 DEF ReadLine
    <1>5. ASSUME ReadStaleLine PROVE Data'
        <2> DEFINE line == Head(stale)
        <2>1. /\ stale \in Seq(Line) /\ stale # <<>>
              /\ UNCHANGED <<published, sock, lines>>
            BY <1>0, <1>5 DEF ReadStaleLine, SocketTypeOK, daemonVars
        <2>2. sock = "idle" /\ lines = <<>>
            BY <1>0, <2>1 DEF Transport
        <2>3. line \in Line /\ line.generation <= Len(published)
            BY <1>0, <2>1, Reading DEF Numbered
        <2>4. CASE AcceptEnvelope(line)
            BY <1>0, <1>A, <1>C, <2>1, <2>2, <2>3, <2>4, AcceptForward DEF Transport
        <2>5. CASE RejectEnvelope(line)
            BY <1>A, <1>B, <1>C, <2>1, <2>2, <2>5 DEF RejectEnvelope, Transport
        <2> QED BY <1>5, <2>4, <2>5 DEF ReadStaleLine
    <1>6. ASSUME CollectSocket PROVE Data'
        BY <1>0, <1>6, <1>A, <1>B, <1>D DEF CollectSocket, daemonVars, protocolVars,
            Transport
    <1>7. ASSUME NEW t \in Topics \cup {NoTopic}, NEW garbled \in BOOLEAN,
                 Publish(t, garbled)
          PROVE  Data'
        <2>1. Chain' /\ NotAhead'
            BY <1>0, <1>7, PublishChain, PublishNotAhead
        <2>2. UNCHANGED <<sock, peerClosed, stale, protocolVars>> /\ up
            BY <1>7 DEF Publish
        <2>3. Send(Update(Len(published) + 1))
            BY <1>7 DEF Publish
        <2>4. Transport'
            BY <1>0, <2>2, <2>3 DEF Transport, Send, Listening
        <2>5. /\ Len(published) \in Nat \ {0} /\ Len(published') = Len(published) + 1
              /\ \A g \in 1 .. Len(published) : published'[g] = published[g]
            BY <1>0, <1>7, PublishTyped
        <2>6. /\ Update(Len(published) + 1) \in Line
              /\ Update(Len(published) + 1).generation = Len(published')
            BY <2>5 DEF Update, Line
        <2>7. ASSUME sock = "open" PROVE Greeted' /\ InOrder' /\ Complete'
            BY <1>0, <2>2, <2>3, <2>5, <2>6, <2>7, SendChannel DEF Channel
        <2> QED BY <2>1, <2>2, <2>4, <2>7 DEF Channel
    <1>8. ASSUME NEW g \in 1 .. Len(published), NEW line \in {FullSnapshot(g), Update(g)},
                 SendOutOfTurn(line)
          PROVE  Data'
        <2>1. /\ UNCHANGED <<published, sock, peerClosed, stale, protocolVars>>
              /\ up /\ Send(line) /\ Len(published) \in Nat
            BY <1>0, <1>8, States DEF SendOutOfTurn, Listening
        <2>2. line \in Line /\ line.generation <= Len(published)
            BY <2>1 DEF FullSnapshot, Update, Line
        <2>3. Transport'
            BY <1>0, <2>1 DEF Transport, Send, Listening
        <2>4. ASSUME sock = "open" PROVE Greeted' /\ InOrder' /\ Complete'
            BY <1>0, <2>1, <2>2, <2>4, SendChannel DEF Channel
        <2> QED BY <1>A, <1>B, <2>1, <2>3, <2>4 DEF Channel, protocolVars
    <1>9. ASSUME Crash PROVE Data'
        <2>1. UNCHANGED <<published, sock, lines, stale, protocolVars>>
            BY <1>9 DEF Crash
        <2>2. sock = "open" => peerClosed'
            BY <1>9 DEF Crash
        <2>3. Channel'
            BY <1>0, <2>1, <2>2 DEF Channel, Greeted, InOrder, Complete, Base, protocolVars
        <2> QED BY <1>0, <1>A, <1>B, <2>1, <2>3 DEF Transport, protocolVars
    <1>10. ASSUME Restart PROVE Data'
        BY <1>0, <1>10, <1>A, <1>B, <1>D DEF Restart, socketVars, protocolVars, Transport
    <1>11. ASSUME NEW value \in BOOLEAN, SetEnabled(value) PROVE Data'
        <2>1. UNCHANGED published
            BY <1>11 DEF SetEnabled, daemonVars
        <2>2. CASE value
            BY <1>0, <1>11, <1>A, <1>B, <1>D, <2>1, <2>2
                DEF SetEnabled, socketVars, protocolVars, Transport
        <2>3. CASE ~value
            <3>1. StopStream
                BY <1>11, <2>3 DEF SetEnabled
            <3>2. UNCHANGED <<generation, snapshot>> /\ sock' \in {"idle", "closing"}
                BY <3>1 DEF StopStream, Disconnected, EndTransport
            <3>3. Transport'
                BY <1>0, <3>1 DEF StopStream, EndTransport, Transport
            <3> QED BY <1>A, <1>B, <1>C, <2>1, <3>2, <3>3
        <2> QED BY <2>2, <2>3
    <1>12. CASE UNCHANGED vars
        BY <1>0, <1>12, <1>A, <1>B, <1>D DEF vars, daemonVars, socketVars, protocolVars,
            Transport
    <1> QED BY <1>1, <1>2, <1>3, <1>4, <1>5, <1>6, <1>7, <1>8, <1>9, <1>10, <1>11, <1>12
            DEF Next, Client, Daemon

LEMMA AlwaysData == Spec => [](Typed /\ Control /\ Data)
    <1>1. Spec => [](Typed /\ Control)
        BY AlwaysControl
    <1>2. Init => Data
        BY DataInit
    <1>3. Typed /\ Control /\ Data /\ [Next]_vars => Data'
        BY DataNext
    <1> QED BY <1>1, <1>2, <1>3, PTL DEF Spec

\* A connection that is shown as ready shows exactly the daemon's state at the
\* generation it carries: nothing was skipped, repeated or put on another base.
THEOREM ViewIsCoherent == Spec => []CoherentView
    <1>1. Typed /\ Control /\ Data => CoherentView
        BY DEF Data, Channel, Greeted, CoherentView
    <1> QED BY <1>1, AlwaysData, PTL

\* Only a line, read from the current or from a retired socket, changes what
\* the protocol knows, and it never takes it back.
LEMMA StepForward ==
    Typed /\ Data /\ [Next]_vars =>
        /\ generation' >= generation
        /\ \A t \in Topics : snapshot'[t] >= snapshot[t]
    <1> DEFINE Forward == /\ generation' >= generation
                         /\ \A t \in Topics : snapshot'[t] >= snapshot[t]
    <1> SUFFICES ASSUME Typed, Data, [Next]_vars PROVE Forward
        OBVIOUS
    <1>0. /\ DaemonTypeOK /\ SocketTypeOK /\ ProtocolTypeOK /\ Numbered
          /\ Chain /\ NotAhead
        BY DEF Typed, TypeOK, Data
    <1>1. UNCHANGED <<generation, snapshot>> => Forward
        BY <1>0 DEF ProtocolTypeOK
    <1>2. ASSUME ReadLine PROVE Forward
        <2>1. Head(lines) \in Line /\ Head(lines).generation <= Len(published)
            BY <1>0, <1>2, Reading DEF ReadLine, SocketTypeOK, Numbered
        <2>2. CASE AcceptEnvelope(Head(lines))
            BY <1>0, <1>2, <2>1, <2>2, AcceptForward DEF ReadLine, daemonVars
        <2>3. CASE RejectEnvelope(Head(lines))
            BY <1>1, <2>3 DEF RejectEnvelope
        <2> QED BY <1>2, <2>2, <2>3 DEF ReadLine
    <1>3. ASSUME ReadStaleLine PROVE Forward
        <2>1. Head(stale) \in Line /\ Head(stale).generation <= Len(published)
            BY <1>0, <1>3, Reading DEF ReadStaleLine, SocketTypeOK, Numbered
        <2>2. CASE AcceptEnvelope(Head(stale))
            BY <1>0, <1>3, <2>1, <2>2, AcceptForward DEF ReadStaleLine, daemonVars
        <2>3. CASE RejectEnvelope(Head(stale))
            BY <1>1, <2>3 DEF RejectEnvelope
        <2> QED BY <1>3, <2>2, <2>3 DEF ReadStaleLine
    <1>4. ASSUME \/ RunLater \/ TimerFires \/ AttemptSucceeds
                 \/ HandleSocketError \/ HandleSocketDisconnected \/ CollectSocket
          PROVE  Forward
        BY <1>1, <1>4 DEF RunLater, TimerFires, AttemptSucceeds, HandleSocketError,
            HandleSocketDisconnected, CollectSocket, ConnectStream, ConnectRefused,
            BeginConnection, ScheduleReconnect, Disconnected, protocolVars
    <1>5. ASSUME Daemon PROVE Forward
        BY <1>1, <1>5, DaemonLeaves DEF protocolVars
    <1>6. ASSUME NEW value \in BOOLEAN, SetEnabled(value) PROVE Forward
        BY <1>1, <1>6 DEF SetEnabled, StopStream, Disconnected, protocolVars
    <1>7. CASE UNCHANGED vars
        BY <1>1, <1>7 DEF vars, protocolVars
    <1> QED BY <1>2, <1>3, <1>4, <1>5, <1>6, <1>7 DEF Next, Client

\* The retry timed last is not longer than the next one.
Backed == reconnectAttempt = 0 \/ timer.interval <= BoundedRetryDelay(reconnectAttempt)

LEMMA TimerMoves ==
    ASSUME [Next]_vars
    PROVE  \/ StartTimer
           \/ /\ UNCHANGED timer \/ StopTimer
              /\ reconnectAttempt' \in {reconnectAttempt, 0}
    <1>1. CASE RunLater \/ TimerFires
        BY <1>1 DEF RunLater, TimerFires, ConnectStream
    <1>2. CASE HandleSocketError
        BY <1>2 DEF HandleSocketError, ScheduleReconnect
    <1>3. CASE HandleSocketDisconnected
        BY <1>3 DEF HandleSocketDisconnected, ScheduleReconnect
    <1>4. CASE AttemptSucceeds \/ ReadLine \/ ReadStaleLine \/ CollectSocket
        BY <1>4 DEF AttemptSucceeds, ReadLine, ReadStaleLine, CollectSocket,
            AcceptEnvelope, RejectEnvelope, policyVars
    <1>5. CASE Daemon
        BY <1>5, DaemonLeaves DEF policyVars
    <1>6. ASSUME NEW value \in BOOLEAN, SetEnabled(value)
          PROVE  (UNCHANGED timer \/ StopTimer) /\ UNCHANGED reconnectAttempt
        BY <1>6 DEF SetEnabled, StopStream
    <1>7. CASE UNCHANGED vars
        BY <1>7 DEF vars, policyVars
    <1> QED BY <1>1, <1>2, <1>3, <1>4, <1>5, <1>6, <1>7 DEF Next, Client

LEMMA BackedNext ==
    ASSUME Typed, Backed, [Next]_vars
    PROVE  /\ Backed'
           /\ ~timer.running /\ timer'.running =>
                 timer'.interval >= timer.interval \/ reconnectAttempt = 0
    <1>1. /\ reconnectAttempt \in 0 .. AttemptCap /\ AttemptCap \in Nat
          /\ timer \in [running : BOOLEAN, interval : Nat]
        BY BoundAssumption DEF Typed, TypeOK, PolicyTypeOK
    <1>2. CASE /\ UNCHANGED timer \/ StopTimer
               /\ reconnectAttempt' \in {reconnectAttempt, 0}
        <2>1. timer'.interval = timer.interval /\ (timer'.running => timer.running)
            BY <1>1, <1>2 DEF StopTimer
        <2> QED BY <1>1, <1>2, <2>1 DEF Backed
    <1>3. CASE StartTimer /\ ~timer.running
        <2> DEFINE a == reconnectAttempt
        <2>1. /\ timer'.interval = BoundedRetryDelay(a)
              /\ reconnectAttempt' = Smaller(AttemptCap, a + 1)
            BY <1>3 DEF StartTimer
        <2>2. BoundedRetryDelay(a) \in Nat
            BY <1>1, RetryAssumption
        <2>3. Backed'
            <3>1. CASE a = AttemptCap
                <4>1. reconnectAttempt' = a
                    BY <1>1, <2>1, <3>1 DEF Smaller
                <4> QED BY <2>1, <2>2, <4>1 DEF Backed
            <3>2. CASE a # AttemptCap
                <4> DEFINE next == a + 1
                <4>1. reconnectAttempt' = next /\ next \in 1 .. AttemptCap /\ next - 1 = a
                    BY <1>1, <2>1, <3>2 DEF Smaller
                <4> HIDE DEF next
                <4>2. BoundedRetryDelay(next - 1) <= BoundedRetryDelay(next)
                    BY <4>1, RetryAssumption
                <4> QED BY <2>1, <4>1, <4>2 DEF Backed
            <3> QED BY <3>1, <3>2
        <2>4. timer'.interval >= timer.interval \/ reconnectAttempt = 0
            BY <1>1, <2>1, <2>2 DEF Backed
        <2> QED BY <2>3, <2>4
    <1>4. CASE StartTimer /\ timer.running
        BY <1>4 DEF StartTimer, Backed
    <1> QED BY <1>2, <1>3, <1>4, TimerMoves

LEMMA AlwaysBacked == Spec => [](Typed /\ Control /\ Data /\ Backed)
    <1>1. Init => Backed
        BY DEF Init, Backed
    <1>2. Typed /\ Backed /\ [Next]_vars => Backed'
        BY BackedNext
    <1> QED BY <1>1, <1>2, AlwaysData, PTL DEF Spec

\* Across crashes, replays and lines of retired sockets, no topic ever goes back
\* to older data; and as long as no event is accepted, no retry comes sooner than
\* the one before it.
THEOREM ViewNeverGoesBack == Spec => StreamMovesOn
    <1>1. Typed /\ Data /\ [Next]_vars =>
             [/\ generation' >= generation
              /\ \A t \in Topics : snapshot'[t] >= snapshot[t]]_vars
        BY StepForward
    <1>2. Typed /\ Backed /\ [Next]_vars =>
             [~timer.running /\ timer'.running =>
                timer'.interval >= timer.interval \/ reconnectAttempt = 0]_vars
        BY BackedNext
    <1> QED BY <1>1, <1>2, AlwaysBacked, PTL
            DEF Spec, StreamMovesOn, NeverBackwards, BackoffNeverShrinks

---------------------------------------------------------------------------
(* The stream implements SnapshotView                                      *)

\* The refinement mapping, by name.
History == [g \in 1 .. Len(published) |-> published[g].state]
Shown == IF Live THEN snapshot ELSE NoView

LEMMA ViewInit == Init => View!Init
    <1> SUFFICES ASSUME Init PROVE View!Init
        OBVIOUS
    <1>1. Len(published) = 1 /\ published[1].state = [t \in Topics |-> 1]
        BY DEF Init
    <1>2. History = <<[t \in Topics |-> 1]>>
        BY <1>1 DEF History
    <1>3. ~Live /\ generation = 0
        BY DEF Init, Live
    <1> QED BY <1>2, <1>3 DEF View!Init, History

\* A step after which the view is not live hides it, whatever it learned.
LEMMA Hiding ==
    ASSUME DaemonTypeOK, ProtocolTypeOK, NotAhead', UNCHANGED published,
           ~Live', generation' \in Nat, generation' >= generation
    PROVE  View!Next
    <1>1. Len(published) \in Nat /\ generation \in Nat
        BY States DEF ProtocolTypeOK
    <1>2. History' = History /\ Len(History) = Len(published)
        BY <1>1 DEF History
    <1>3. generation' \in generation .. Len(published)
        BY <1>1 DEF NotAhead
    <1>4. View!Hide
        BY <1>2, <1>3 DEF View!Hide, History
    <1> QED BY <1>4 DEF View!Next

\* A step that touches neither the daemon's history nor a live view is none.
LEMMA Stuttering ==
    ASSUME UNCHANGED <<published, sock, protocolVars>>
    PROVE  UNCHANGED View!vars
    BY DEF View!vars, Live, protocolVars

\* The first snapshot reveals the view; every later line advances it by one.
LEMMA Showing ==
    ASSUME Typed, Data, Data', sock = "open", lines # <<>>, lines' = Tail(lines),
           AcceptEnvelope(Head(lines)), UNCHANGED <<sock, peerClosed, published>>,
           generation' \in Nat, generation' >= generation
    PROVE  View!Next
    <1>1. DaemonTypeOK /\ ProtocolTypeOK /\ snapshotReceived \in BOOLEAN
        BY DEF Typed, TypeOK, ProtocolTypeOK
    <1>2. Greeted /\ InOrder /\ Complete /\ Chain /\ NotAhead /\ NotAhead'
        BY DEF Data, Channel
    <1>3. /\ Greeted'
          /\ snapshotReceived => generation' = generation + 1
        BY <1>2, ReadChannel
    <1>4. snapshotReceived' /\ Live'
        BY DEF AcceptEnvelope, Live
    <1>5. snapshot' = published[generation'].state /\ generation' > 0
        BY <1>3, <1>4 DEF Greeted
    <1>6. Len(published) \in Nat /\ generation \in Nat
        BY <1>1, States DEF ProtocolTypeOK
    <1>7. generation' <= Len(published)
        BY <1>2 DEF NotAhead
    <1>8. History' = History /\ Len(History) = Len(published)
        BY <1>6 DEF History
    <1>9. Shown' = History[generation']
        BY <1>4, <1>5, <1>6, <1>7 DEF Shown, History
    <1>10. CASE snapshotReceived
        <2>1. Live /\ generation' = generation + 1
            BY <1>2, <1>3, <1>10 DEF Greeted, Live
        <2>2. View!Advance
            BY <1>4, <1>6, <1>7, <1>8, <1>9, <2>1 DEF View!Advance, History, Shown
        <2> QED BY <2>2 DEF View!Next
    <1>11. CASE ~snapshotReceived
        <2>1. ~Live
            BY <1>2, <1>11 DEF Greeted, Live
        <2>2. generation' \in generation .. Len(published)
            BY <1>6, <1>7
        <2>3. View!Reveal
            BY <1>4, <1>8, <1>9, <2>1, <2>2 DEF View!Reveal, History, Shown
        <2> QED BY <2>3 DEF View!Next
    <1> QED BY <1>1, <1>10, <1>11

LEMMA Publishing ==
    ASSUME DaemonTypeOK, NEW t \in Topics \cup {NoTopic}, NEW garbled \in BOOLEAN,
           Publish(t, garbled)
    PROVE  View!Next
    <1>1. /\ DaemonTypeOK' /\ Len(published) \in Nat
          /\ Len(published') = Len(published) + 1
          /\ \A g \in 1 .. Len(published) : published'[g] = published[g]
        BY PublishTyped
    <1>2. \A g \in 1 .. Len(published') : published'[g] \in Event
        BY <1>1 DEF DaemonTypeOK
    <1>3. History' \in Seq([Topics -> Nat])
        <2>1. \A g \in 1 .. Len(published') : published'[g].state \in [Topics -> Nat]
            BY <1>2 DEF Event
        <2>2. History' \in [1 .. Len(published') -> [Topics -> Nat]]
            BY <2>1 DEF History
        <2>3. Len(published') \in Nat
            BY <1>1
        <2> QED BY <2>2, <2>3, SeqDef
    <1>4. /\ Len(History') = Len(History) + 1
          /\ \A g \in 1 .. Len(History) : History'[g] = History[g]
        BY <1>1 DEF History
    <1>5. UNCHANGED <<generation, Live, Shown>>
        BY DEF Publish, Live, Shown, protocolVars
    <1>6. View!Publish
        BY <1>3, <1>4, <1>5 DEF View!Publish, View!States, History, Shown
    <1> QED BY <1>6 DEF View!Next

LEMMA ViewNext ==
    Typed /\ Typed' /\ Data /\ Data' /\ [Next]_vars => [View!Next]_View!vars
    <1> SUFFICES ASSUME Typed, Typed', Data, Data', [Next]_vars
                 PROVE  [View!Next]_View!vars
        OBVIOUS
    <1>0. /\ DaemonTypeOK /\ ProtocolTypeOK /\ NotAhead' /\ Transport
          /\ generation' \in Nat /\ generation' >= generation
        BY StepForward DEF Typed, TypeOK, Data, ProtocolTypeOK
    <1>1. UNCHANGED published /\ sock' # "open" => View!Next
        BY <1>0, Hiding DEF Live
    <1>2. ASSUME RunLater \/ TimerFires PROVE [View!Next]_View!vars
        <2>1. UNCHANGED published
            BY <1>2 DEF RunLater, TimerFires, daemonVars
        <2>2. CASE ConnectStream
            BY <1>1, <2>1, <2>2 DEF ConnectStream
        <2>3. CASE ConnectRefused
            BY <2>1, <2>3, Stuttering DEF ConnectRefused, socketVars
        <2> QED BY <1>2, <2>2, <2>3 DEF RunLater, TimerFires
    <1>3. ASSUME AttemptSucceeds PROVE [View!Next]_View!vars
        <2>1. ~Live' /\ UNCHANGED published
            BY <1>3 DEF AttemptSucceeds, BeginConnection, Live, daemonVars
        <2> QED BY <1>0, <2>1, Hiding
    <1>4. ASSUME HandleSocketError \/ HandleSocketDisconnected PROVE [View!Next]_View!vars
        BY <1>1, <1>4 DEF HandleSocketError, HandleSocketDisconnected, EndTransport, daemonVars
    <1>5. ASSUME ReadLine PROVE [View!Next]_View!vars
        <2>1. /\ lines # <<>> /\ lines' = Tail(lines)
              /\ UNCHANGED <<published, peerClosed>> /\ sock \in {"open", "closing"}
            BY <1>5 DEF ReadLine, daemonVars
        <2>2. CASE AcceptEnvelope(Head(lines)) /\ UNCHANGED sock
            BY <1>0, <1>1, <2>1, <2>2, Showing
        <2>3. CASE sock' = "closing"
            BY <1>1, <2>1, <2>3
        <2> QED BY <1>5, <2>2, <2>3 DEF ReadLine
    <1>6. ASSUME ReadStaleLine PROVE [View!Next]_View!vars
        BY <1>0, <1>1, <1>6 DEF ReadStaleLine, Transport, daemonVars
    <1>7. ASSUME CollectSocket PROVE [View!Next]_View!vars
        BY <1>7, Stuttering DEF CollectSocket, daemonVars
    <1>8. ASSUME NEW t \in Topics \cup {NoTopic}, NEW garbled \in BOOLEAN,
                 Publish(t, garbled)
          PROVE  [View!Next]_View!vars
        BY <1>0, <1>8, Publishing
    <1>9. ASSUME NEW line, SendOutOfTurn(line) PROVE [View!Next]_View!vars
        BY <1>9, Stuttering DEF SendOutOfTurn
    <1>10. ASSUME Crash \/ Restart PROVE [View!Next]_View!vars
        BY <1>10, Stuttering DEF Crash, Restart, socketVars
    <1>11. ASSUME NEW value \in BOOLEAN, SetEnabled(value) PROVE [View!Next]_View!vars
        <2>1. UNCHANGED published
            BY <1>11 DEF SetEnabled, daemonVars
        <2>2. CASE value
            BY <1>11, <2>1, <2>2, Stuttering DEF SetEnabled, socketVars
        <2>3. CASE ~value
            BY <1>1, <1>11, <2>1, <2>3 DEF SetEnabled, StopStream, EndTransport
        <2> QED BY <2>2, <2>3
    <1>12. CASE UNCHANGED vars
        BY <1>12, Stuttering DEF vars, daemonVars, socketVars
    <1> QED BY <1>2, <1>3, <1>4, <1>5, <1>6, <1>7, <1>8, <1>9, <1>10, <1>11, <1>12
            DEF Next, Client, Daemon

\* The desktop stream implements the promise made to the panels: hidden, or
\* the daemon's state generation by generation, never going back.
THEOREM StreamImplementsView == Spec => ImplementsView
    <1>1. Typed /\ Typed' /\ Data /\ Data' /\ [Next]_vars => [View!Next]_View!vars
        BY ViewNext
    <1> QED BY <1>1, ViewInit, AlwaysData, PTL DEF Spec, ImplementsView, View!Spec
=============================================================================
