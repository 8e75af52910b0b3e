---------------------------- MODULE MCCoreGoesOn ----------------------------
(***************************************************************************)
(* What comes to pass in the core: the event stream, the control plane, the *)
(* locker endpoint and the settings in a file, with the fairness of each.  *)
(* They share no state here: each is explored by itself.                   *)
(***************************************************************************)
EXTENDS Naturals, TLC

CONSTANTS
    Parts,   \* those below that a run explores
    t1, NoTopic, NoView, c1, c2, left, plain, list, v,
    Default, Absent, Bad, NoFile, Garbled, Alien, NoWrite

\* An object with a set option and a value that is not decoded, one with a
\* list, and the files that are no object.
FewEdits == {(plain :> v) @@ (list :> Bad), (plain :> Bad) @@ (list :> v),
             Garbled, Alien}

VARIABLES
    part,   \* the one that moves
    \* DesktopStream
    up, published, repeats, sock, peerClosed, lines, stale, connectionState,
    snapshotReceived, generation, snapshot, enabled, intentionalDisconnect,
    reconnectAttempt, timer, later,
    \* CommandControl
    ready, seenGeneration, daemonGeneration, proto, lock, attemptLater,
    controlSocket, daemonClosed, toDaemon, orphans, fromDaemon, requests,
    intent, emitted,
    \* Locker
    conn, told, pending, holds, wl, screen, secret, waiting,
    \* SettingsFile
    dir, disk, watched, fileNotice, dirNotice, lastData, pendingWrite,
    saveDebounce, saveQueued, loadDebounce, loadRetries, tree, dirty, unread,
    unsaved, touched, edits, changes, faults

Stream == INSTANCE DesktopStream WITH
    Topics <- {t1}, MaxGeneration <- 3, MaxRepeats <- 1,
    MinimumRetryMs <- 1, MaximumRetryMs <- 2, AttemptCap <- 1
Control == INSTANCE CommandControl WITH
    MaxRequests <- 2, LastGeneration <- 2
Lock == INSTANCE Locker WITH
    Clients <- {c1, c2}, MaxClients <- 1, Outputs <- {left}
File == INSTANCE SettingsFile WITH
    Options <- {plain, list}, Lists <- {list}, GlobalOnly <- {},
    Values <- {Default, v}, Edits <- FewEdits, MayRemove <- TRUE,
    MaxLoadRetries <- 1, MaxEdits <- 2, MaxChanges <- 1, MaxFaults <- 1

streamVars == <<up, published, repeats, sock, peerClosed, lines, stale,
                connectionState, snapshotReceived, generation, snapshot,
                enabled, intentionalDisconnect, reconnectAttempt, timer,
                later>>
commandVars == <<ready, seenGeneration, daemonGeneration, proto, lock,
                 attemptLater, controlSocket, daemonClosed, toDaemon,
                 orphans, fromDaemon, requests, intent, emitted>>
lockerVars == <<conn, told, pending, holds, wl, screen, secret, waiting>>
settingsVars == <<dir, disk, watched, fileNotice, dirNotice, lastData,
                  pendingWrite, saveDebounce, saveQueued, loadDebounce,
                  loadRetries, tree, dirty, unread, unsaved, touched, edits,
                  changes, faults>>
allVars == <<part, streamVars, commandVars, lockerVars, settingsVars>>

\* The others wait: where nothing of a part is needed, its variables are 0.
RunInit ==
    /\ part \in Parts
    /\ Stream!Init /\ (part # "stream" => ~up /\ ~enabled)
    /\ Control!CommandInit
    /\ Lock!Init
    /\ File!Init /\ (part # "settings" => dir = "missing")

OnlyMoves(p) ==
    /\ part = p /\ part' = p
    /\ IF p = "stream" THEN TRUE ELSE UNCHANGED streamVars
    /\ IF p = "commands" THEN TRUE ELSE UNCHANGED commandVars
    /\ IF p = "locker" THEN TRUE ELSE UNCHANGED lockerVars
    /\ IF p = "settings" THEN TRUE ELSE UNCHANGED settingsVars

RunNext ==
    \/ OnlyMoves("stream") /\ Stream!Next
    \/ OnlyMoves("commands") /\ Control!CommandNext
    \/ OnlyMoves("locker") /\ Lock!Next
    \/ OnlyMoves("settings") /\ File!Next

RunSpec == RunInit /\ [][RunNext]_allVars

\* In the stream queued calls run, the timer fires, a socket that is asked to
\* connect does if the daemon listens, and lines are read.
StreamFairness ==
    /\ WF_streamVars(part = "stream" /\ Stream!RunLater)
    /\ WF_streamVars(part = "stream" /\ Stream!TimerFires)
    /\ WF_streamVars(part = "stream" /\ Stream!AttemptSucceeds)
    /\ WF_streamVars(part = "stream"
                    /\ (Stream!HandleSocketError \/ Stream!HandleSocketDisconnected))
    /\ WF_streamVars(part = "stream" /\ Stream!ReadLine)
    /\ WF_streamVars(part = "stream" /\ (Stream!ReadStaleLine \/ Stream!CollectSocket))

\* In the control plane the queued attempt runs and the timers fire.
CommandFairness ==
    /\ WF_commandVars(part = "commands" /\ Control!RunAttempt)
    /\ WF_commandVars(part = "commands" /\ Control!ResponseTimesOut)
    /\ WF_commandVars(part = "commands" /\ Control!DeadlineExpires)

\* The event loop of the locker serves every client, and its timers fire.
LockerFairness ==
    \A c \in {c1, c2} :
        /\ WF_lockerVars(part = "locker" /\ Lock!AcceptConnection(c))
        /\ WF_lockerVars(part = "locker" /\ Lock!Read(c))
        /\ WF_lockerVars(part = "locker" /\ Lock!WriteError(c))
        /\ WF_lockerVars(part = "locker" /\ Lock!IdleTimeout(c))
        /\ WF_lockerVars(part = "locker" /\ Lock!AnswerTimeout(c))
        /\ WF_lockerVars(part = "locker" /\ Lock!PeerGone(c))

\* In the store queued calls run, timers fire and the watcher reports.
SettingsFairness ==
    /\ WF_settingsVars(part = "settings" /\ File!Flush)
    /\ WF_settingsVars(part = "settings" /\ File!SaveDebounceEnds)
    /\ WF_settingsVars(part = "settings" /\ File!FileChanged)
    /\ WF_settingsVars(part = "settings" /\ File!DirChanged)
    /\ WF_settingsVars(part = "settings" /\ File!LoadDebounceEnds)

FairSpec ==
    /\ RunSpec
    /\ StreamFairness /\ CommandFairness /\ LockerFairness /\ SettingsFairness

---------------------------------------------------------------------------
(* Properties                                                              *)

\* A stream that stays enabled while the daemon runs comes to show what the
\* daemon has (Recovers), one that stays disabled lets go (SettlesWhenDisabled).
StreamGoesOn == Stream!Recovers /\ Stream!SettlesWhenDisabled

\* Commands and lock intents end, whatever becomes of the daemon.
CommandsEnd == Control!EveryCommandEnds /\ Control!EveryIntentEnds

\* A client that is connected to the locker and holds no suspend lock is not
\* connected for ever.
SlotsAreFreed == Lock!SlotsAreFreed

\* Saving, being notified of one's own save and loading come to an end.
SettingsSettle == File!Settles
=============================================================================
