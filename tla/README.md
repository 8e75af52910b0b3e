# sleepy-desktop: a verification project

sleepy-desktop is a Wayland desktop shell: a QML program on Quickshell
(`src/shell.qml`, `src/services`, `src/core`, `src/modules`, `src/panels`), a
C++ plugin (`src/plugin`), a separate lock program (`locker`) and a Python
command line for colours (`appearance-cli`). It owns no desktop state itself:
a daemon, sleepy-sessiond, publishes the state of the desktop as a numbered
stream of events and executes commands. Paths below are relative to the
repository's root.

This directory holds TLA+ models of the parts whose correctness depends on the
order of events, TLC configurations that check them, and TLAPS proofs.

- Part 1 is the inventory of the system.
- Part 2 is the plan and how far it has come.
- Part 3 describes the models, the runs and their bounds, the fairness and the proofs.
- Part 4 says what is left out.

To repeat the checks, from this directory:

    tlc -workers 2 -config MCDesktop_safety.cfg MCDesktop.tla
    tlapm DesktopStreamProofs.tla

## 1. Inventory

### 1.1 Desktop event stream

*Files:* `src/services/DesktopClient.qml`, `DesktopProtocol.qml`,
`DesktopReconnectPolicy.qml`.

*State:* one Socket (idle, opening, open, closing); connection state,
`snapshotReceived`, generation and snapshot of the protocol; the enable switch,
`intentionalDisconnect`, the attempt counter and the reconnect timer; a queued
`Qt.callLater(connectStream)`.

*Operations:* connect, stop, enable and disable, timer, `onRead` per line,
`onError`, `onConnectionStateChanged`. A line is accepted, and then replaces the
snapshot or updates a topic of it, or it is refused, and then the connection is
closed.

*Interactions:* the daemon greets each connection with a full snapshot and then
sends one update per generation. Every panel renders from the snapshot; the
command plane reads `ready` and `generation`.

*Hard:* a disconnection is only requested and acknowledged later; the enable
switch may be toggled in between; lines of a replaced socket still arrive; the
lines behind a refused line are still parsed; the daemon may crash, restart or
repeat lines.

*Correct when* the data shown is what the daemon published at the generation
shown, never goes back, and an enabled stream always comes back.

### 1.2 Desktop command plane

*Files:* `CommandClient.qml`, `DesktopCommandProtocol.qml`, `LockRequest.qml` in
`src/services`.

*State:* the pending request id, the queued line, the status and the response
timeout; the control socket with its target; the lock intent with its request
id, retry and failure flags, minimum generation and deadline.

*Operations:* send (about thirty commands with the same path), flush, reply,
timeout, socket error; request, attempt, retry and finish of a lock intent.

*Interactions:* a command carries the generation of the event stream; the daemon
refuses it as stale if that is not its own. Panels listen to
`commandCompleted` and `commandFailed`, which carry no request id.

*Hard:* late replies after a timeout, a lost connection between write and reply,
a stale generation, a second command while the lock waits, cascades of signal
handlers in which a failure must be consumed once.

*Correct when* every command and intent ends with one honest verdict and one
intent locks at most once.

### 1.3 Output state of the core

*File:* `src/core/CoreOutputState.qml`. *State:* the pending action and the
feedback of each action; the rest is derived from the services. *Operations:*
about thirty tracked and untracked actions. *Interactions:* the signals of the
command plane, once per output. *Hard:* a verdict is only matched by time.
*Correct when* no action is shown pending for ever or succeeded without cause.

### 1.4 Settings store

*Files:* `src/plugin/src/Sleepy/Settings` (`settingsfile.cpp`, `rootnode.cpp`,
`changebatcher.cpp`, `node.cpp`, `objectnode.cpp`, `listnode.cpp`,
`quarantine.cpp`, `codecs.cpp`).

*State:* per option a value, whether this layer overrides it, and a quarantine
of JSON it could not load; a dirty mark with a queued flush; the pending write;
two debounce timers; a retry count; the data last read or written; the paths the
file watcher knows.

Each screen has a layer of its own that falls back to the global one, option by
option, and copies the elements of its lists.

*Operations:* set, edit or reset an option; flush; save, at once or when the
debounce ends; load after a notice, with five outcomes; make a layer; insert,
remove, move and edit elements of a list in either layer.

*Interactions:* a save causes a notice, which causes a load. Other programs
edit, replace or remove the file. A change of the global layer reaches the
screens that do not override it; a screen's write to a global option goes to
the global layer. Panels read the tree.

*Hard:* a save waits while a load is scheduled; a replaced file is not watched
until a notice adds it again; a file is read half written; a save or a load
fails; copies of list elements hold addresses of elements that are replaced.

*Correct when* no edit goes unnoticed, nothing the user did not touch is changed
by a save, memory and file agree at rest or the user was told, and a screen
shows the global value of exactly what it does not override, also after a
restart.

### 1.5 Lock program

*Files:* `locker/main.cpp`, `secureprompt.cpp`, `supervisor.cpp`,
`qml/LockRoot.qml`.

*State:* the clients of the endpoint (at most sixteen), those that wait for the
lock (`pending_`), those that hold it (`suspendHolds_`); whether the session lock
is asked for and secure; per output a prompt with its text and backoff.

*Operations:* accept a client, read its one request (status, lock, suspend),
acknowledge, drop; a two-second and a five-second timer per client; type,
authenticate; lock and unlock.

The text of a prompt is in one of 64 slots of locked memory that a signal
handler wipes; it is edited in bytes and counted in three units.

*Interactions:* clients over a local socket, the compositor through
ext-session-lock, PAM. A supervisor turns every end of the program into a
failure, so that it is started again.

*Hard:* requests arrive while the lock is asked for, granted or released;
clients go away while they are answered; a suspend must keep every prompt from
unlocking until it has gone; the program may crash under a locked screen, or a
signal may come while PAM holds the password.

*Correct when* "locked" is only said under a locked screen, a screen is not
unlocked under a suspend, no client blocks a slot, and a password is in its
buffer or nowhere.

### 1.6 Services of the plugin

*Files:* `src/plugin/src/Sleepy/Services`, and `circularbuffer.cpp` beside it.

| Part | State | Operations and interactions | Hard | Correct when |
|---|---|---|---|---|
| Lyrics (`lyrics.cpp`, `lyriccandidate.cpp`) | track, backend, candidates, selection, offset; replies in flight; choices kept per track; a cache of files | a new track starts a debounced load; local file, LRCLIB and NetEase are asked in turn; the user picks a candidate | `abort()` runs the handlers of a reply inside the loop that cancels it; late replies; a chain of backends that all fail | what is shown and offered is of this track, one backend is asked at a time, loading ends |
| Audio (`service.cpp`, `serviceref.cpp`, `audioprovider.cpp`, `audiocollector.cpp`, `cavaprovider.cpp`) | users of each provider, what is posted to its thread, senders of the collector, the capture thread with two buffers, the bars | reference counts travel over two thread boundaries by posted calls; PipeWire writes, processors read | posted calls outlive their sender; a chunk is copied without a lock; the stop of a stream that does not run | the capture runs for the users there are, a chunk is read whole, bars are as many as asked for |
| Hyprland (`hyprextras.cpp`, `hyprdevices.cpp`) | options, keyboards, a socket per request | an event asks for a refresh, which closes the one before | an answer that is only a part; refreshes under way at once | what is shown never goes back to an older answer, a change of layout is told once |
| GPU (`gpu.cpp`) | the type set and found, name, usage, a generation | programs asked one after another; a sample per tick | programs end late, for a type that is no longer | name and usage are of the type chosen, detection ends |
| Disks (`storage.cpp`, `diskinfo.cpp`, `tickingservice.cpp`) | the disks, the chosen one, the timer | a tick finds what is mounted and follows the slaves of mapped devices; QML is told of changes | the chosen disk goes in the tick that collects anew; two ways to one disk | QML knows the list there is, each file system counts once, ticks go on while used |
| Network usage (`networkusage.cpp`) and histories (`circularbuffer.cpp`) | counters of the tick before, totals, two rings of samples | a tick | interfaces come and go; a ring that is resized after it has wrapped | traffic that is counted was there; a ring holds the latest values in order |

### 1.7 Models, images and items of the plugin

| Part | State | Operations and interactions | Hard | Correct when |
|---|---|---|---|---|
| Lazy list (`Components/lazylistview.cpp`) | a layout record per row, delegates near the viewport, a running sum of known heights | changes of the item model, polish in batches, delayed insertions and removals, measured heights | timers hold the address of an item that was re-indexed, deleted or used again | each delegate shows its row, rows near the viewport are shown when all is settled, polishing ends |
| File system model (`Models/filesystemmodel.cpp`) | sorted entries, scans on worker threads, watched directories | a change of path, of the disk, the callback of a scan | scans overtake each other, a cancelled one still calls back | entries are sorted and are the rows of a view; only the path is watched |
| Applications (`Models/appdb.cpp`) | an entry per id, how often it was started, a database | desktop entries are hidden, come back, are replaced and destroyed; the path of the database changes | an entry destroyed before its application is dropped, or after one of its id took its place | the applications are those of the entries, the list is announced |
| Image cache (`Images/cachingimageprovider.cpp`, `imagecacher.cpp`) | cached images by the hash of the file, jobs in flight | a request hashes, looks and starts a job | the file is replaced between hash and read; several requests at once; a restart in the middle of a save | a cached image is whole, made once, and one the file had |
| Dominant colour (`Images/imageanalyser.cpp`) | source, one analysis, the colour | set a source, show, grab, analyse in the pool | the source changes while the pool reads it; an item that is not shown | at rest the colour is that of what is shown |
| Toasts (`toaster.cpp`, `src/modules/utilities/toasts/Toasts.qml`) | toasts, their locks, the wrappers of each screen | show, click, time out, animate away on each screen | a toast closes while other screens still animate | a toast goes when it was animated away everywhere, and goes |
| Shapes (`Blobs`) | a picture per shape of the neighbours it is drawn with, springs | a change polishes those believed near; a frame steps the springs | a neighbour that is not asked keeps an old picture; a spring that nobody polishes | at rest every picture shows what is there, and rest comes |

### 1.8 Components not modelled

| Component | State and operations | What is hard, and what makes it correct |
|---|---|---|
| Desktop model projection (`DesktopModel.qml`, `DesktopModelProjection.qml`) | pure projection of the snapshot; last known data kept while offline | data of an unavailable topic must be marked, never shown as current |
| Core overlays, IPC router, surfaces (`CoreOverlayState.qml`, `CoreIpcRouter.qml`, `SurfaceController.qml`, `SurfaceRegistry.qml`, `ActionRegistry.qml`, ...) | open surface per output, focus to restore, overlay and prior overlay | one open surface per output, focus goes back to where it came from, also when an output goes away |
| System adapter (`SystemAdapter.qml`, `SystemAdapterCore.qml`, `SessionActions.qml`, `IdleInhibitor.qml`) | reads with timeouts and generations, one mutation at a time | a completion clears a busy flag another command raised; a late read overwrites a newer one |
| Presets and appearance settings (`PresetAdapter*.qml`, `SessionAdapter*.qml`, `SettingsCodec.js`) | apply reports, refreshes, sticky diagnostic | each refresh decides once, a failed apply stays visible |
| Service clients (`ThemeClient.qml`, `DailyClient.qml`, `OsdClient.qml`, `NotificationClient.qml`, `ControlClient.qml` and protocols) | a socket and one request each; theme preview and rollback; OSD sequence numbers | a failed or lost apply must not leave the preview as if it were confirmed |
| Legacy session events (`SessionEventClient.qml`, `WorkspaceEventService.qml`) | the predecessor of 1.1 | as 1.1; superseded |
| Capture jobs (`CaptureJobs.qml`, `CaptureJobState.qml`, `CaptureJob.qml`) | one process, its output stream and a deadline | exit and end of output come in either order; a reply never answers the next request |
| Network and VPN (`Nmcli.qml`, `VPN.qml`) | a process per command around nmcli | replies of overlapping commands |
| Direct integrations (`Audio.qml`, `Players.qml`, `Hypr.qml`, `Notifs.qml`, ...) | bindings on Quickshell services | almost no state of their own |
| Configuration schema (`Config`) | declarations only | - |
| Other native services (`cpu.cpp`, `memory.cpp`, `sensorslib.cpp`, `beattracker.cpp`, `sessionmanager.cpp`) | the last sample | I/O |
| Other native items (`buttonrow.cpp`, `wavyline.cpp`, `visualiserbars.cpp`, ...) and helpers (`cutils.cpp`, `qalculator.cpp`, `requests.cpp`, `iutils.cpp`) | computed from properties; one call each | rendering, I/O |
| Visual shell (`src/modules`, `src/components`, `src/widgets`, `src/panels`, ...) | bindings and animation | presentation |
| Appearance command line (`appearance-cli`) | sequential colour computation and file output | - |

`PROJECT.json` lists the hazards of this code, each at its line, with the
properties that watch it. Those that are nearest to each other are merged there;
3.13 names the ones no property covers.

## 2. Plan

Done:

1. The event stream (`DesktopStream`), the abstract view it implements
   (`SnapshotView`) and the proofs.
2. The command plane (`CommandControl`), the abstract lock intent
   (`LockIntent`), and on top of both the feedback of an output
   (`ActionFeedback`, which extends `CommandControl` by its own state).
3. The settings: one layer and its file (`SettingsFile` over `SettingsTree`),
   several layers (`SettingsLayers` over the same tree), lists in two layers
   (`SettingsList`), the codecs (`Codecs`); proofs of the first two.
4. The lock program (`Locker`), its promise (`HeldLock`) and the proofs; its
   prompts (`SecurePrompt`) and their buffers (`SecretBuffer`).
5. The plugin's services: `Lyrics`, `AudioService`, `AudioCollector`,
   `CavaProvider`, `HyprExtras`, `Gpu`, `Storage`, `PhysicalDisks`,
   `NetworkUsage` over `CircularBuffer`, which implements `SlidingWindow` (proved).
6. The plugin's models and items: `LazyListView`, `FileSystemModel`, `AppDb`,
   `ImageCacher`, `ImageAnalyser`, `Toaster`, `Blobs`.

To come, in this order:

7. **Capture jobs**: process exit, end of output and deadline in any order.
8. **Theme preview and the service clients**: preview, apply, rollback over a
   connection that may fail.
9. **System and preset adapters**, composed with the command plane's signals.
10. **Overlays and surfaces**, **model projection**: mostly sequential.
11. Proofs of the bars of `CavaProvider`, of `Storage`, `PhysicalDisks` and
    `NetworkUsage`, of `FileSystemModel`, `LazyListView` and `Blobs`.

Proved so far: the stream, the command plane with its feedback, the lock
program, its prompts, the settings in one layer and in several, with their lists
and codecs, the ring, the compositor, the applications, lyrics, the capture of
sound and its users, toasts, the image cache, the colours of images and the
GPU (3.11).

## 3. Models, runs and proofs

### 3.1 Common conventions

An action is one turn of an event loop: the handler that starts it with every
signal handler, binding and nested call it runs before it returns. Threads of
the plugin interleave between such turns, and within them where they share
memory without a lock (`AudioCollector`).

The daemon (sleepy-sessiond) and Quickshell's `Socket` are not in the repository.
The socket follows the behavioural mirror the repository's own tests use,
`tests/socket-contract-plugin.cpp`: setting `connected` to false only asks for a
disconnection, which is signalled later; an error keeps the transport until
then. The daemon follows `README.md` and the protocol's validators: one
generation per event, increasing, also across restarts; a full snapshot on each
connection. PAM, PipeWire, the compositors, the programs a GPU is asked with, the
kernel's block devices and Qt's file watcher are external in the same way:
modelled as far as the code relies on them, and marked so in `PROJECT.json`.

Operators whose name starts with `Mut` are not part of the model. Each is a
definition with a plausible slip, and stands before the definition it varies;
put in its place it makes TLC find a property violated.

*Hosts.* A component's module says what it is for any value of its constants.
Six modules give the constants small values for TLC: `MCDesktop`, `MCSecureLock`,
`MCServices` and `MCViews` for safety, `MCCoreGoesOn` and `MCPluginGoesOn` for
liveness. Each holds several instances that share no state; the initial state
picks a part from `Parts`, and only that part moves (`OnlyMoves`). The states of a
run are the sum of those of its parts, not their product, and to look at one
part is to shorten `Parts` in the `.cfg`. A component with theorems is extended by
its host (`MCDesktop` extends the stream, the commands and their feedback,
`MCSecureLock` `Locker`, `SecurePrompt` and `SecretBuffer`, `MCServices` `SettingsFile`, `Codecs`,
`Lyrics`, `AudioService`, `AudioCollector`, `HyprExtras` and `Gpu`, `MCViews`
`SettingsLayers`, `SettingsList`, `Toaster`, `ImageCacher`, `ImageAnalyser` and
`AppDb`), so that the run checks the very definition the theorem names; the others
are instances. Hence the prefixes of some names (`LyricsSpec`,
`CollectorTypeOK`). Properties of a host that speak of
several parts are conjunctions of the components' named properties, guarded by
the part; their comments name them. The components' assumptions are assumed in
each host (`PartsAssumption`), so that TLC evaluates them.

### 3.2 DesktopStream

| Model | Code |
|---|---|
| `sock`, `lines`, `peerClosed` | the current Socket, the bytes on their way, the daemon's end |
| `stale` | lines a finished transport has read but its parser has not handed over; a replaced Socket is destroyed later (`DesktopClient.qml:73-84`), and `onRead` does not ask which socket it belongs to |
| `connectionState`, `snapshotReceived`, `generation`, `snapshot` | the properties of `DesktopProtocol` of that name; the snapshot keeps, per topic, the generation of its data, which is what coherence and order need |
| `timer`, `reconnectAttempt`, `later` | `reconnectTimer`, its counter, the queued `connectStream` |
| `AcceptEnvelope`, `RejectEnvelope` | `acceptEnvelope` with its early returns (`DesktopProtocol.qml:1178-1216`) |
| `ConnectStream`, `StopStream`, `HandleSocketError`, `HandleSocketDisconnected` | the functions of `DesktopClient` of that name |
| `Publish`, `SendOutOfTurn`, `Crash`, `Restart` | the daemon, external |

The 900 lines of field validators are one Boolean of an event, `garbled`: an
update the validators refuse. The daemon of the model may garble any update.
`stale` lines are handed over or collected before a posted call, a timer or a
new connection runs (`LoopIsFree`): the parser's loop over its buffer and the
deferred deletion come first in Qt's event loop.

`SnapshotView` is the abstract specification: a view that is either hidden or
exactly the daemon's state at one generation, advances one generation at a time
while it is live and never returns to an earlier one. The refinement maps "live"
to an open transport and a ready protocol.

### 3.3 CommandControl, LockIntent and ActionFeedback

| Model | Code |
|---|---|
| `proto` | `pendingRequestId`, `queued`, `status` of `DesktopCommandProtocol` and its `responseTimeout` timer |
| `lock`, `attemptLater` | the properties of `LockRequest`, its deadline and its queued `attempt` |
| `sock` | `controlSocket`: phase of the transport, and the target, the value last assigned to `connected` |
| `requests`, `orphans`, `toDaemon`, `fromDaemon` | per request id: whose intent, the generation it names, how often it was written and executed; requests of ended connections; the wire |
| `emitted` | the signals `CommandClient` emits in this turn |
| `Fail`, `AcceptReply`, `RetryLock`, `RefuseLock` | `fail`, `acceptResponse` and `handleResult`, with the signal cascade between the protocol and the lock request: `suppressFailure` is set by the handler of `responseAccepted` and consumed by that of `commandFailed` in the same turn |
| `pendingActionId`, `actionFeedback` | the tracker of `CoreOutputState` |

A command is its id: payloads differ in no way the properties tell apart. A
request that is on the wire when its connection ends may be executed or lost.
`LockIntent` states the promise: one verdict per intent, at most one lock for
it, and a good verdict only if the daemon locked.

`ActionFeedback` adds the tracker to every step of the command plane (`Next /\
React`) and replaces the steps that start a tracked action.

### 3.4 SettingsTree and SettingsFile

| Model | Code |
|---|---|
| `tree`: `value`, `override`, `kept` | the resolved value of a `Node`, `m_overridden`, the quarantine |
| `Synced`, `Rejected`, `Json`, `Written`, `Reset` | `syncJson` with `loadFromJson` and `resetUnvisited`, `toJson`, `recordWrite`, `resetOption` |
| `dirty` | `m_dirty` with the queued `flush` of `ChangeBatcher` |
| `pendingWrite`, `lastData`, `loadRetries` | the members of `SettingsFile` |
| `saveDebounce`, `saveQueued` | `m_saveDebounce` is active; `save` is connected to its timeout, once (`settingsfile.cpp:156-161`) |
| `loadDebounce` | `m_loadDebounce` is active |
| `dir`, `disk`, `watched`, `fileNotice`, `dirNotice` | the file system, the paths of `QFileSystemWatcher` and its signals, external |
| `unread`, `unsaved` | `readFailed` or `writeFailed` was the last the user heard |
| `touched` | what the user changed since the tree was loaded; no code reads it |

An option stands for a path, so that nesting is gone; a list is an option whose
reset and quarantine behave as `ListNode` does. Content is abstract: absent, a
value, or a value that is not decoded. A file may also be malformed (`Garbled`)
or an array (`Alien`).

The watcher's signals are delayed and merged. A path whose file is replaced or
removed is reported once and then no longer watched, which is Qt's behaviour on
inotify; between the two the file at the path is a different one (`gone`), and
an edit of that file is only seen because the notice of the replacement is
still to come. The two timers fire in any order, which is more than 500 ms and
50 ms allow.

### 3.5 SettingsLayers, SettingsList and Codecs

`SettingsLayers` uses the same `SettingsTree` once per layer; the global layer
falls back to nothing, that of a screen to the global one.

| Model | Code |
|---|---|
| `created`, `CreateLayer` | `LayerRegistry`, `forScreen`: a layer is made and loaded when a screen first asks |
| `trees`, `files`, `dirty` | the layers, their files, and those that are still to be saved |
| `Write`, `ResetOption`, `ResetSubtree` | the setters with `forwardGlobalWrite`, `resetOption`, `reset` |
| `Reload`, `Save` | a load after an edit by another program, a save, both at once: how they wait for each other is `SettingsFile`'s |

`RestartKeepsValues` asks of each layer that is saved whether loading its file
anew would bring back every value and every override.

`SettingsList` is one list in two layers: `global` and `overlay` are sequences, an
element of the overlay holds the identity of the global element it falls back to
(`fallback`). Each mutation of the global list tells the overlay which indices
it changed, and the overlay repeats it on its copies (`onFallbackListNotify`);
the first mutation of the overlay makes it an override and detaches the copies.
`FallbacksAreLive` would notice an address of an element that was deleted.

`Codecs` translates every codec of `codecs.cpp`: JSON values are pairs of a type
and a content; decoding yields the set of the decoded value, empty for an error.
Numbers count halves, and the range of an int is -2..1, so that values that are not
integers, round to one, or are just outside the range all occur.

### 3.6 Locker and HeldLock

| Model | Code |
|---|---|
| `conn` | the sockets: phase, what the read buffer holds, the request accepted, whether the client has closed its end |
| `clients_`, `pending`, `holds` | `clients_`, `pending_`, `suspendHolds_` |
| `wl` | `sessionLock` of `LockRoot.qml`; `endpoint.secure` and `locked` are bound to it and to `lockRequested`, and change in the same turn |
| `screen` | what the compositor shows, external; it outlives the program |
| `secret`, `waiting` | per prompt: empty, right or wrong; whether `retryAfterMs_` is still to come |
| `told` | the last line a client got, external |
| `AcknowledgePending`, `Drop` | `acknowledgePending` with its failing branches; the handler of `disconnected` |

A request is one of the three words, something else, a part of a line, a line
with more behind it, or too many bytes. An error is written after the handler,
so the connection stays (`closing`) and may be read once more
(`main.cpp:175-179` leaves `readyRead` connected). The two timers need no state:
their handlers look at what the client has reached. The compositor may refuse a
lock, and may reveal the screen by itself (`revoked`). A crash and the start of
the new process are one step; the screen stays as it is, which
ext-session-lock demands, and the new process says "unlocked" until it is asked
to lock.

`HeldLock` is the promise to those who suspend the machine: who is told "locked"
joins under a locked screen, and the screen is not unlocked before the last of
them has left. It is implemented with `holders` the clients that were told so
and are still connected, whatever `suspendHolds_` says.

### 3.7 SecurePrompt and SecretBuffer

`SecurePrompt` has the prompts of the outputs and the pool they take buffers
from.

| Model | Code |
|---|---|
| `slots` | `signalSecretSlots`: whose a slot is, whether its bytes are zero |
| `prompt` | per prompt its buffer, the state it shows, its failures and how long it waits; `since`, `failed` and `owed` are no state of the program: the time and the failures since the last success, and the sum of the delays that those failures demand, for `GuessesAreSpaced` |
| `asking`, `Ask`, `Converse`, `Accepted`, `Rejected`, `Throws` | `authenticate` in PAM, external: it may ask several times, run out of memory in the middle of an answer, and throw |
| `heap` | answers allocated for PAM that nobody will wipe |
| `Signal` | the handler that wipes every slot in use, at any moment, also while PAM holds the thread |

`SecretsHaveOneHome` says that no verdict is shown over a text it is not about,
that nothing is left on the heap when a conversation fails halfway, and that
nothing is left of a prompt that ended. `GuessesAreSpaced` says that the time since
the last success and what is still to wait add up to what is owed. Both are
checked with the constants of the `.cfg` on one prompt ("backoff"), where the
delays have their real shape: they double from 1 to a cap of 32, which is reached
with the fifth failure; and on three prompts and two slots ("pool") with delays
cut short.

`SecretBuffer` is the text in UTF-8, each byte named by the character it is of
(`<<character, k>>`). Beside it stands `typed`, the sequence of characters the
same edits make for somebody who knows no bytes. The three characters have one,
two and four bytes, the last of them two UTF-16 units; a position of the input
method may fall between the two. `HoldsTheText`, `CountsTheText` and
`NothingIsLeftBehind` compare; `TextsAreKept` is all of them. The loops of the code
are recursive functions of the number of rounds: `Insertions` (the buffer, the
offset and whether there was no more room, after each character of `insertAt`) and
`Walk` (where `locateUtf16` is; it reads the width of a character off its lead
byte, so that a buffer out of order would lead it astray).

### 3.8 The plugin's services

| Module | Model and code |
|---|---|
| `Lyrics` | `inFlight` holds replies that have not finished; `cancelInFlight` runs the handlers of those it aborts one after the other, with the request id that is still the newest, before it takes another (`lyrics.cpp:344`). `debounce` is `m_loadDebounce`, `prefs` what `m_lyricsMap` keeps per track, `cache` the files `writeCachedLrc` has written. `early` is a history: `doLoad` returned because the choice kept for the track is selected already. A song stands for its name and its ids. |
| `AudioService` | `refs`, `inbox`, `posted`, `senders` are the users of a provider, what was posted to its processor, what was posted to the collector, and the users that arrived there. `home` is the thread the collector was made in (`audioprovider.cpp:37`). Providers are destroyed, and replaced at a reload, while calls are on their way; the members of a deleted processor are gone (`crashed` if they are used). |
| `AudioCollector` | two buffers whose samples are named by the chunk they are of, exchanged by the capture thread; the PipeWire loop and its realtime thread write sample by sample, a processor reads sample by sample without a lock. `ReadsAreWhole` is about the reads during which the buffers are not exchanged; those that straddle an exchange may be torn, and nothing in the code keeps them from it. |
| `CavaProvider` | bars posted one way, values the other; `plan` is the number of bars of cava's plan |
| `HyprExtras` | `comp` is the compositor with its own clock; `age` the time of the answers what is shown came from; `Answer(s, whole)` delivers all or the first part |
| `Gpu` | `procs` are programs that run, each with the generation it was asked in; `named` the generation the name was found for |
| `Storage` | `shownDisks`, `shownManual`, `shownPrimary` are what QML saw at the last announcement: a missing announcement is a difference to what there is |
| `PhysicalDisks` | a tick over a graph of block devices, mounts in any order |
| `NetworkUsage` | `counters` of the interfaces there are; `transferred`, external, is what went over all but the loopback since the first tick, and bounds what may be shown |
| `CircularBuffer` | `[capacity, data, head, count]` with `push`, `setCapacity` and `clear`, which leave old values in the cells that do not count; `SlidingWindow` is the sequence of the latest values it stands for |

### 3.9 The plugin's models, images and items

| Module | Model and code |
|---|---|
| `LazyListView` | `list` is the object: `layout` (a record per row), `items` (delegates by address, used again once freed), the running sum of known heights, dying delegates, delays and the polish flag. `RowsInserted`, `RowsRemoved`, `RowsMoved`, `ModelReset`, `DataChanged` are the handlers of the item model's signals with all they call; `Polish`, `RelayoutTimer`, `DelayEnds` what was scheduled. |
| `FileSystemModel` | `scans` know what the entries were when they started; `futures` is the registration the callback looks for; `rows` is what a view made of `beginInsertRows` and its like. Subdirectories are made, removed with their files and made again; `vanished` are those the watcher still has in its list, which is told of the removal before it is told of what came after |
| `AppDb` | `leftOut` are desktop entries no longer among those there are: the user hides an application (`Apps.qml:73`), and its desktop entry lives on and comes back, or it was removed and is destroyed, when ever the timer of `updateApps` fires; `gone` are those destroyed; `dying` are AppEntries deleted later, those `updateApps` erased included. `retained` is a history: the ids whose AppEntry the last `updateApps` kept though it is of another desktop entry. An AppEntry without its desktop entry has no id and no name, and is sorted and counted so; `table` is each database; `shownApps` the list at the last `appsChanged`. What `std::sort` makes of the applications is not computed but named: the list in order, which the proofs show to exist |
| `ImageCacher` | a request hashes, looks and asks in separate steps, a job reads, decodes and saves in separate steps, and a cached image that cannot be read is as one that is not there; the file may be replaced between any two, and a restart ends all of them; `mixed` notes that a job read another content than the one hashed |
| `ImageAnalyser` | `icon` is what the item to analyse shows, `Blank` for an analyser of files; `future` is the watcher's analysis; the pool reads `m_source` when it begins (`imageanalyser.cpp:150`), not when it was asked |
| `Toaster` | `locks` are the wrappers that hold a toast; `leaving` are wrappers that a repeater has removed and that are not destroyed yet; their unlocking comes with the destruction. `fullscreen` is what each screen shows: everything, or, over a fullscreen window, what its setting says of the modes `all`, `important` and `none` |
| `Blobs` | `picture` is what `updatePolish` cached: its place, the neighbours and the frame it saw, the pairs it masks. `MarkShapeDirty` asks those whose place, as last polished, is near that of the shape, with the smoothing as margin. A frame steps the springs once (`m_physicsUpdated`), polishes what is dirty, and posts a call for what stays deformed. Positions count half pixels on one axis, because movements of less than a pixel are collected in `m_pendingDx` and only then polished. |

In `Blobs`, `InSync` is checked where movements are whole pixels and keep pace with
the frames (`KeepsPace`, a conjunct of `Resized`'s use in `Next`): a shape that
jumps farther between two frames than its margins reach is not found by its new
neighbour before it has been polished itself, see 3.12. The instance "drift" has
half-pixel steps and checks that no picture is more than two half pixels behind.

### 3.10 Runs, bounds and fairness

| Run | Question | Parts | Distinct states | Time |
|---|---|---|---|---|
| `desktop` | Whatever daemon, sockets, timers and late replies do: is what the panels show coherent and never older, is a reconnection never lost or doubled, does a lock run at most once and with an honest verdict? Does the stream implement `SnapshotView`, the command plane `LockIntent`? | stream, commands, feedback | 1 831 729 | 4 min |
| `locker` | Clients, timers, surfaces, crashes and the password meet in any order: are answers true, do holds end with their clients, is the password in its buffer or nowhere, are guesses apart? Does the program implement `HeldLock`? | locker, pool, backoff, buffer | 420 184 | 2.5 min |
| `services` | Files, replies, programs and threads the services wait for come late, twice, out of order or not at all: is what is kept that of the present file, track, device and number of bars? | settings, codecs, lyrics, audio, collector, cava, compositor, gpu, disks, ring, traffic, mounts | 1 288 031 | 2.5 min |
| `views` | Are layers, rows, entries, images, applications, toasts and shapes those of what they stand for, after any sequence of changes, moves, scans, jobs and deletions? | layers, elements, list, rows, tree, flat, cacher, jobs, analyser, apps, toasts, blobs, drift | 1 242 727 | 3 min |
| `core_goes_on` | Does the stream recover, does every command and intent end, is every slot of the locker freed, does the settings store come to rest? | stream, commands, locker, settings | 366 313 | 2 min |
| `plugin_goes_on` | Does any service or view of the plugin wait, load, capture, polish or animate for ever? | lyrics, audio, collector, cava, compositor, gpu, disks, list, tree, cacher, analyser, toasts, blobs | 143 781 | 3 min |

Six runs show a statement of the code's comments, or of a declaration,
**violated**; they are described in 3.12: `feedback_lock`, `settings_removed`,
`settings_lists`, `lyrics_picker`, `gpu_none`, `disks_primary`.

Deadlock is checked in `desktop`, and in the violated runs on a module of their
own. The other hosts have parts that may stop (`CHECK_DEADLOCK FALSE`): the
settings store once the user and the other programs have used up their changes,
lists, files and shapes once their events are used up, the prompts once a signal
has ended the process. That they stop in a good state, and only there, is
what the liveness properties and those about states at rest say
(`DifferencesAreReported`, `SettledRowsAreShown`, `InSync`, `QuietIsRight`, ...).

*Bounds.* Every bound is a constant of its module whose comment names it as one,
and most bound the environment: what users, daemons, disks and networks do. The
handlers themselves are not bounded.

- `stream`: three generations are the least with which a snapshot, an update and
  a gap behind a refused update all occur on one connection and a later
  connection still finds something newer. Two topics tell a skipped update of one
  topic from an update of another. One line out of turn reaches each way a line
  can be refused or replayed. `AttemptCap` 2 with a maximum of 4 makes the delay
  double, reach its maximum and the counter reach its cap; the code has 16, 250
  and 10000.
- `commands`: three requests are a lock, its retry and a foreign
  command between or after them; three generations let the lock be stale once,
  the retry be stale again, and a newer one arrive. `feedback` has two of each: two
  actions that are tracked or are not, and a lock that is stale once. A pending intent keeps an id
  for its retry, so that the bound never blocks the retry itself.
- `settings`: one plain option and one list, one value besides the default, and
  four contents another program may write. Three edits are a replacement, an
  edit in the gap in which nothing is watched, and one after the load; two
  changes are one that is saved and one that waits. One fault and one retry
  reach every failing branch (the code retries three times).
- `locker`: three clients and two slots: one holds, one asks, and one is refused
  or takes a freed slot. Two outputs are two prompts that race; one of them at a
  time waits after a failure, for a prompt that waits only keeps its secret a while
  longer. Nothing is counted: clients may come and go and the program may crash for
  ever.
- `pool`: three prompts and two slots, so that one finds none; two messages are a
  conversation that fails after an answer. `backoff`: one prompt, delays up to the
  cap. `buffer`: eight bytes are two of the widest characters, so that an input
  of two may end inside the buffer, at its end or not fit.
- `layers`: two screens, one free and one global option, files that define both,
  decode only one, or are empty. At first at most one layer has
  a file that says something, and at most two of the three layers wait for a save:
  what two files may say at once is met by edits, each save is of its own layer,
  and screens only meet in the global layer. `elements`: lists of up to three, which is the
  least where a move crosses an element.
- `lyrics`: two songs, so that a reply may be of the other; four actions of the
  user are two tracks, a choice and a return.
- `audio`: two providers and two references, three calls posted to a thread.
  `collector`: chunks of two samples and three chunks, so that a read may straddle
  two exchanges. `cava`: from no bars to two.
- `compositor`: three sockets, so that two refreshes overlap and one is closed.
  `gpu`: four generations, each of which supersedes what is under way. `disks`:
  three, of which the chosen one and the first may differ, go and return.
  `mounts`: three mounts over four nodes and a pool make two ways to one disk.
- `ring`: capacities from 0 to 4, set in any order, samples never bounded in
  number. `traffic`: three interfaces, one of them the loopback.
- `list`, `rows`: two or three rows, six addresses, batches of one, a viewport as
  high as one row, so that rows enter and leave it; two events in a row cross
  every pair of changes with whatever is scheduled. One instance has the
  asynchronous, delayed, animated and custom-viewport variants of the code, the
  other has none of them.
- `tree`, `flat`: three files in two directories; three or four changes make two
  scans overtake each other with a change of path between, and a subdirectory go
  and come again while it is searched for. In `plugin_goes_on` the path is one
  directory or none.
- `cacher`, `jobs`: two requests and one worker, and one request and two workers:
  with two of each nothing new meets, since requests only share jobs by key. The
  file is removed only in `jobs`; in both it is replaced.
- `analyser`: four images and a file that is none let an analysis, its successor,
  the source in between and the present one all differ.
- `apps`: two ids, one of them of two desktop entries (a reinstalled one), each
  of which is hidden and comes back at will until it is destroyed; one start per
  application makes one of them come first. `toasts`: two screens, three toasts
  and room for one; in `views` a fullscreen window leaves all or the important
  ones, in `plugin_goes_on` all, the important ones or none, and the theorems are
  of any modes.
- `blobs`, `drift`: two rects and a frame; two or three changes.

Symmetry is used where definitions treat values alike: topics, the locker's
clients and outputs, screens. Runs with liveness use none.

*Fairness.* Weak fairness of turns of an event loop, timers, worker threads and
of the kernel's or compositor's answer to what was asked of it, never of users,
daemons, clients, other programs, or of PAM:

| Part | Weakly fair |
|---|---|
| stream | the queued call, the timer, the answer to a connection attempt, the end of a transport that is ending, reading. Nothing of the daemon: `Recovers` assumes that it stays up and the stream enabled, `SettlesWhenDisabled` that it stays disabled |
| commands | the two single-shot timers and the queued attempt; a command on a transport whose end is never acknowledged still ends by its timeout |
| settings | the queued flush, both timers, both signals of the watcher |
| locker | accepting, reading, writing, both timers and the end of a connection its client has closed, for each client |
| lyrics, gpu, compositor | replies come, fail or time out; programs end; ticks. The property of the compositor speaks of behaviours in which nobody sets options or refreshes any more, and leaves out what a lost or partial answer was about (`lost`) |
| audio, collector, cava | what was posted runs; PipeWire calls while it streams; both threads get on |
| list, tree, cacher, analyser, toasts | polish, timers, scans, jobs, animations and deferred deletions |
| blobs | polishing and posted calls, and strong fairness of a frame in which every spring that nothing moves is imperceptible: a damped spring loses its energy however often it is pushed in between, but not in any particular frame |

Since a part that is not chosen never moves, each liveness property is stated so
that it holds of a part that stands still at its start (`part = "list" => ...`,
or a component's property that its initial state satisfies).

### 3.11 What is proved

`DesktopStreamProofs` proves, for every set of topics and every value of the
bounds, from three assumptions of `DesktopStream`: `NoTopic` is no topic; the
bounds and delays are natural numbers; the delays computed from them are natural
numbers that do not shrink from one attempt to the next (`RetryAssumption`; the
provers know nothing of `^`, TLC evaluates the assumption in each run). That the
*timer* never goes back, whatever resets the counter, is proved.

| Theorem | Statement |
|---|---|
| `TypeCorrect` | `Spec => []TypeOK` |
| `ReconnectNeverLost` | `Spec => []NoLostReconnect` |
| `RetryLoopIsSingle` | `Spec => []OneRetryLoop` |
| `SuppressionEnds` | `Spec => []SuppressionIsOutstanding` |
| `RetriesHoldTogether` | `Spec => []RetriesAreSound`, the three of them, which the run checks |
| `ViewIsCoherent` | `Spec => []CoherentView` |
| `ViewNeverGoesBack` | `Spec => StreamMovesOn`: `NeverBackwards` and `BackoffNeverShrinks` |
| `StreamImplementsView` | `Spec => ImplementsView` |

The inductive invariant has three parts.

- `Typed`: the types, and that every line on its way names a published event.
- `Control`: the three properties of the reconnect policy, which are inductive
  together and not alone: `SuppressionIsOutstanding` is why the timer is started
  by `ScheduleReconnect`, and `OneRetryLoop` is why `ConnectStream` leaves none
  behind.
- `Data`: `CoherentView` says nothing of the lines still to come, so it is not
  inductive. The strengthening says what the wire holds. On an open transport,
  the client is ready with the daemon's state or the greeting snapshot is the
  next line (`Greeted`); no line comes before the one it builds on (`InOrder`);
  while the daemon holds its end no generation is missing (`Complete`). Lines
  out of turn are allowed by all three. `Chain` relates successive events of the
  daemon, `NotAhead` bounds the snapshot of a client that may have skipped
  updates: its data is never newer than its generation claims, which is what
  makes `NeverBackwards` hold on the closing transports where coherence does not.

Each was checked by TLC on the instance of the run before it was proved.
The refinement theorem maps each action to a step of `SnapshotView` or a
stutter: accepting on an open transport is `Advance` or `Reveal`, losing
liveness is `Hide`, publishing is `Publish`.

`CommandProofs` proves, for every bound on the requests and the generations:

| Theorem | Statement |
|---|---|
| `AttemptsHoldTogether` | `CommandSpec => []AttemptsAreSound` |
| `LocksAsPromised` | `CommandSpec => ImplementsIntent` |
| `PendingMarksGoAway` | `FeedbackSpec => []NothingPendingForever` |
| `FeedbackTellsTheTruth` | `FeedbackSpec => StepsAreHonest` |

`AttemptsAreSound` says of a request that it is written once and of an intent that
it locks once, which is true because of what is on the wire. The inductive
invariant has, beside the types:

- `Turns`: what protocol and lock request keep of each other between two turns.
  `awaitingReply` means that the pending request is the lock's, `suppressFailure` is
  never left over, and the response timer runs while a command is pending.
- `Book`: the life of each request. It waits unwritten, is under way once and
  unserved, or has left the wire, answered or lost; what a reply says is what
  happened to its request.
- `Attempts`: of the requests of one intent all but the last were refused for
  good, and each names a newer generation than the one before. That is why a
  retry cannot lock a second time.

A turn writes, stamps and allocates requests and shortens the wire in one step, so
that `Book` and `Attempts` take the state as parameters and a step is proved as a
chain of small changes (`Stamped`, `Written`, `Grown`, `Executed`), each with a
lemma. `LocksAsPromised` counts the executions of an intent (`Runs`) as a set of
requests, with the theorems on finite sets, since a sum over a sequence is a
recursion. The two theorems on the feedback add `Tracks`: what a panel shows as
pending is tracked, and a tracked command is the one the protocol works on. It
does not say so of a lock, and could not (`feedback_lock`).

`LockerProofs` proves, for every set of outputs, every finite set of clients and
every limit (`LockerAssumption`):

| Theorem | Statement |
|---|---|
| `TypeCorrect` | `Spec => []TypeOK` |
| `NobodyWaitsForALockedScreen` | `Spec => []SecureMeansAnswered` |
| `HoldsAreOfLiveClients` | `Spec => []HoldsAreLive` |
| `AnswersAreTrue` | `Spec => LockedIsTrue` |
| `UnlockedByPasswordOnly` | `Spec => OnlyThePasswordOpens` |
| `LockerKeepsItsPromise` | `Spec => ImplementsHeldLock` |

Its inductive invariant adds three facts to the invariants of the run: a client
that is connected and does not hold has been told nothing (`Untold`: every other
answer ends its connection, which is why nobody but a holder can believe in a
hold), nobody waits and holds at once, and a secure session lock means a locked
screen. One lemma per kind of step (a connection ends, is refused, is
acknowledged, ...) proves the invariant, the truth of what is told (`Truthful`)
and that the step is one of `HeldLock` (`Kept`); the theorems read off the parts.

`SecurePromptProofs` proves, for any number of prompts and slots and every bound,
from `PromptAssumption` (powers of two up to the limit of the failures are natural
numbers, for the reason above):

| Theorem | Statement |
|---|---|
| `NoSecretIsLeft` | `PromptSpec => []SecretsHaveOneHome` |
| `GuessesTakeTheirTime` | `PromptSpec => []GuessesAreSpaced` |
| `TextsStayKept` | `BufferSpec => []TextsAreKept`, for every set of characters, every width from one to four and every size of the buffer (`BufferAssumption`) |

The invariant adds `Timed` to the two: the count of failures is the real one as
far as it goes, so that the delay grows with it, and whoever PAM is asked for
waits for nothing, so that a success or a failure never meets a delay that is
still running. What a prompt's step has to do for `SecretsHaveOneHome` is one
definition (`KeepsItsHome`) and one lemma for all steps. The delays themselves
(`MinOfTwo` and the lemmas after it) need no more of `2^n` than the assumption
gives.

What `TextsStayKept` needs is `Keeps`: the bytes lie one character after the other
as `typed` has them (`LaidOut`), both counts are sums over it, and zeros follow
(`IsText`). That every action keeps it rests on what the loops do in any number of
rounds, which is shown as under *Induction* below: the set of the numbers of
rounds after which a loop's invariant holds has all of them. So `SumsAre`,
`TakenIs`, `InsertionsAre` and `WalkIs` show that the recursive functions exist and
obey their equations. A text is then taken apart where an edit bites:
`CharacterIsInserted` is for one character between two texts, `TextIsInserted` for
as many as there is room for (`TakesUpTo`: the loop stops at the first that does
not fit, and `Fitting` is what it took till then), `CharactersAreCut` for the middle
one of three texts, and `LocatedIs` for the walk, which finds the one position
between characters with so many UTF-16 units before it, or none.
`TextIsReplaced` puts them together, and one lemma per action follows.

`SettingsFileProofs` proves, for every schema, every content others may write and
every bound, from the two assumptions on the constants (`TreeAssumption`,
`FileAssumption`: the marks for "no file", "garbled", ... are no contents):

| Theorem | Statement |
|---|---|
| `TypeCorrect` | `Spec => []TypeOK` |
| `WritesAreTried` | `Spec => []NoForgottenWrite` |
| `PendingStaysCurrent` | `Spec => []PendingIsCurrent` |
| `SavesKeepTheRest` | `Spec => SavesOnlyWhatTheUserChanged` |
| `NoEditIsMissed` | `Spec => []EditsAreNoticed` |
| `MemoryAndFileAgree` | `Spec => []DifferencesAreReported` |
| `StoreFollowsItsFile` | `Spec => []FileIsFollowed`, whose conjuncts are the properties the run checks together |
| `NothingIsLostInJson` | `CodecSpec => []CodecsAgree` |

Those of the store but the first two assume `MayRemove = FALSE`: others edit and replace the file as they
like but do not remove it. The assumption is needed: the finding `settings_removed` is
`PendingIsCurrent` without it, and `EditsAreNoticed` fails for a file that is
removed in the moment nobody watches it, where `onDirChanged` does not look.
`MemoryStep` says what a step can do to file and memory (save, give up, queue,
load, change an option, be edited by others, or nothing), and the invariants on
them are proved from it:

- `Present`: a file that was there is still there;
- `Untouched`: off the options the user touched, the tree says what was last read,
  and the waiting write says what the tree says. This is what
  `SavesOnlyWhatTheUserChanged` rests on, which speaks of one step only;
- `Saved`: a difference between the tree and what was last read or written is
  dirty, waits, or was reported;
- `Noticing`: if the file is not what was last read, whichever way the watcher
  stands something will say so. A watched file has a notice, a load or a report
  due, a file that was replaced has its notice due, and for a file nobody
  watches the directory's notice is due.

`Saved` speaks of the store's belief and `Noticing` of whether that belief holds;
`DifferencesAreReported` needs both.

`NothingIsLostInJson` is about `Codecs`, for any units of numbers, any strings and any
enumerators that differ in more than case and whose values are ints
(`CodecAssumption`). The invariant says of what is saved that it is the JSON that
was given or the encoding of a value of the option's type. That the encoding of a
value decodes to that value is `ScalarsAreKept`, and for lists of any length
`ListsAreKept`. The first enumerator of an enum with a given value
or key is one with the least index, which exists by `LeastNumber` (below).

`SettingsLayersProofs` proves, for every schema, any number of screens and
whatever other programs write to the files, and for lists of any length:

| Theorem | Statement |
|---|---|
| `LayersTyped` | `Spec => []TypeOK` |
| `InheritedFollows` | `Spec => []InheritedFollowsGlobal` |
| `GlobalStaysGlobal` | `Spec => []GlobalOnlyIsGlobal` |
| `RestartKeeps` | `Spec => []RestartKeepsValues` |
| `LayersStayInAgreement` | `Spec => []LayersAgree`, the first four, which the run checks together |
| `OverridesAreKept` | `Spec => OverridesStay` |
| `ListsStayShared` | `ElementsSpec => []SettingsAreShared` |
| `EditsStayWithTheirElement` | `ElementsSpec => EditsFollowTheirElement`: `[][KeepsEdits]`, which the run checks as part of `NothingGoesEarly` |

The invariant of the layers has two parts beside the types. `Good` says of one layer's tree
that it has the fallback's value wherever it does not override, overrides nothing
that is global only, and quarantines only what it does not load. `Agrees` says of
a layer that is saved that its file has exactly what its tree overrides.
`InheritedFollowsGlobal` is not inductive without `Good`, because a reset reads
the fallback; `RestartKeepsValues` follows from `Agrees` by `AgreesIsSynced`: a tree
that agrees with a file is what loading that file makes.

The invariant of the lists, `ElementsInvariant`, says that an overlay is either the
copies of the global list in its order, each with the element's value unless it
was edited (`Mirrors`), or has nothing of it (`IsDetached`). An overlay repeats each
insertion, removal and move from the indices it is told, so the lemmas say what
those leave at each index (`InsertedAt`, `RemovedAt`, `MovedAt`), and that doing the same to
two lists that correspond leaves two lists that correspond.

`DeviceProofs` proves, for any samples and any capacities set in any order, for any
number of sockets, keyboards and layouts of the compositor, and for any finite set
of applications (`HyprExtrasAssumption`: there are two sockets, and the
compositor's time is bounded by a positive number; `AppDbAssumption`: applications
are numbers in the order of their names, and what stands for no path, for memory
and for a file are different things):

| Theorem | Statement |
|---|---|
| `RingFits` | `Spec => []TypeOK`: no index leaves the array |
| `RingIsAWindow` | `Spec => IsAWindow`: the ring implements `SlidingWindow` |
| `CompositorStaysFollowed` | `HyprSpec => []CompositorIsFollowed` |
| `CompositorNeverOlder` | `HyprSpec => NeverOlder`, which the run checks as part of `DevicesMoveOn` |
| `AppsStayRight` | `AppsSpec => []AppsAreRight` |
| `ListStaysComplete` | `AppsSpec => []EveryAppIsListedOnce`: the list shown has each application once, and in its place once no AppEntry without its desktop entry is left |

For the ring the types are the invariant: nothing has to be said of the cells that do not
count, since `ValuesOf` never reads them. One lemma per operation shows what it
does to `ValuesOf`; the arithmetic of positions modulo the capacity
(`Position`) has lemmas of its own, and two sequences are shown equal element
by element (`SameElements`).

What the shell shows of the compositor depends on the answers that may still
come. `OneRefresh` says that one socket at most asks for each kind of refresh, and
that it is the current one; hence an answer from a closed socket never arrives.
`AnswersAreNewer` says that such an answer is not older than what is shown, which
`NeverOlder` needs. `ToastsAreCounted` bounds what was told of a keyboard, together
with what the present difference and the answer under way would still make of
it, by what happened to it, which is inductive where "told once" alone is not.

`AppsAreTheEntries` excepts the ids in `retained`, which is what the code does to
them (3.12); without the exception TLC finds the steps told there. The
applications' invariant has the list as it is stated, and facts about what is
under way. `EntriesAreKept`: an application has a living desktop entry of its id
and stays, or has none and will be deleted. `TimerCatchesUp`: once the timer has
fired each desktop entry has its application or an id that was retained.
`AppDestroyed` removes whatever has the id, so that the second alternative of
`EntriesAreKept` is what keeps the other applications. `StartsAreBounded` is there
because an AppEntry without its desktop entry has no id to look its starts up
by, and may be set back to none. `EachOnce` says that the list has each
application once: it is inductive through the steps at which nothing is
announced, while its order is the list's only as long as every application has
a name. `Sorted` is the list that is in
order; that there is one (`AppsCanBeListed`) is an induction over the number of
applications, each of which goes where those before it end (`OneMoreIsListed`), and
that it has each once (`ListsHaveEverything`) follows from the order being strict.

*Induction.* The library's induction theorems take an operator. `LeastNumber` (every
set of natural numbers that is not empty has a least element) follows from its
theorem on well-founded relations, which takes none, and `EveryNumber` (a set with
0 and with n + 1 for each n in it has all) from that. What is to be proved of
every number is then the set of the numbers it holds of.

`PluginProofs` proves, for any songs and offsets, any number of actions of the user,
any size of a chunk, any toasts and any number of screens, any contents of an
image file, any number of requests, jobs, providers and their users, any number
of resolutions and of grabs (`LyricsAssumption`, `CollectorAssumption`,
`ToasterAssumption`, `CacherAssumption`, `ServiceAssumption`, `GpuAssumption`,
`AnalyserAssumption`, which only say that what stands for "none" is not one of the others and that bounds are
natural numbers):

| Theorem | Statement |
|---|---|
| `LyricsFollowTheTrack` | `LyricsSpec => []LyricsAreOfTheTrack` |
| `SoundStaysWhole` | `CollectorSpec => []SoundIsWhole` |
| `ToastsGoWithTheirLocks` | `ToasterSpec => []ToastsAreRight` |
| `ToastsAreAnimated` | `ToasterSpec => GoesWhenAnimated` |
| `ImagesStayRight` | `CacherSpec => []ImagesAreRight` |
| `ImagesStayCached` | `CacherSpec => ImagesAreMadeOnce` |
| `GpuIsOfTheChoice` | `GpuSpec => []GpuIsRight` |
| `CaptureIsForUsers` | `ServiceSpec => []AudioIsUsed` |
| `ColoursStayRight` | `ColourSpec => []ColoursAreRight` |

`LyricsAreOfTheTrack` speaks of what is shown, offered and asked. It holds because
of the replies that may still come, whose number has no bound, and these are
what its invariant is about:

- `RepliesAreKnown`: a reply that `cancelInFlight` did not reach is a search that
  escaped from a handler running inside it; any other has the newest request id.
  Of all that have it, one at most belongs to the chain that loads.
- `OfTheTrack` or `OfTheChoice`: once no load is due, candidates, replies that still
  count and lyrics are of the track, or there is a choice kept for the track,
  nothing is searched, and they are of the choice. One of the two holds as a
  whole; neither is inductive alone, since a choice may be made at any time and
  a load replaces one by the other.

`SoundIsWhole` is about memory that two threads write and a third reads without
a lock:

- `WritersTakeTurns`: PipeWire's thread writes only while the stream streams, and
  then the timer of the loop is off. This is the only thing that keeps the two
  apart.
- `BuffersAreTwo`: a writer writes into the write buffer, which is not the one that
  is read; between the exchange and the store of the other pointer both are
  the same, and the writer holds the second (`old`).
- `ReaderIsTrue`: as far as a reader got, and unless the buffers were exchanged since it
  began, what it copied is what its buffer was, and that buffer has not changed.

`ToastsAreRight` is almost inductive: `ToastInvariant` adds where wrappers come from
(toasts in the list, or that were in it). One lemma (`Shows`) has what a step
must have ready when the screens follow it (`Prepared`), and one (`Closes`) what
`close` does to that; each action is one of the two after its change of the locks.

`ImagesAreRight` and `ImagesAreMadeOnce` need to know what a request and a job have
noted while the file was replaced under them (`ImagesInvariant`):

- `RequestIsTrue`: a request that runs was there when the file had its present content,
  and when it had what was hashed;
- `JobIsTrue`: a job that decodes, saves or commits does so for an image that is not
  cached, since whoever would have cached it would have been the same job
  (`OneJobPerImage`), and makes it from the content its key says, unless the file was
  replaced between hashing and reading (`mixed`);
- `CacheIsOfKeys`: unless such a mixture happened, what is cached under a key is of it.

`GpuIsRight` is about programs that answer for a type the user has left. Its
invariant bounds them: of all that ask on behalf of the newest resolution there is
one exactly while the name is not known, it is one that may find a name for the
present type (`OneAsks`), and there is one sampling program exactly while
`querying` says so (`OneSamples`). An answer for an older resolution is refused
(`Superseded`), which is why their number does not matter. The sets of these
programs have one element at most, which `AtMostOne` turns into what becomes of
them when one ends.

`AudioIsUsed` says what the collector will have been told once everything has
arrived, so it speaks of the last call of a sequence that grows at one end and
shrinks at the other. The lemmas are about that: calls for another processor
change nothing (`OthersAreToldTheSame`), of several calls for one the last counts
(`TheLastCallCounts`). The invariant adds `UsersAreKnown`: a provider counts just the
`ServiceRef`s that have it, and nothing is posted to a processor that is gone.

`ColoursAreRight` speaks of the states in which nothing of an analyser is under
way. Its invariant says the same while something is: `FilesAreFollowed` for an
analyser of files (the analysis that runs, or the result, is of the present source),
`ItemIsFollowed` for one of an item (unless it waits to be shown, a grab or an analysis
that has read its image is to come, or what is known is of what it shows).

Only model-checked:

- everything under fairness: the provers have neither `ENABLED` nor induction over
  a well-founded order of behaviours (`StreamGoesOn`, `CommandsEnd`, `SlotsAreFreed`,
  `SettingsSettle`, `ServicesGoOn`, `ViewsGoOn`);
- `ItemsAreRight`: a merge of directory listings (`FileSystemModel` declares a
  recursive operator), the layout of a list and the neighbours of shapes
  (`LazyListView` and `Blobs` fold over rows and shapes);
- `DevicesAreShown` but for the GPU, and of `DevicesMoveOn` the disks and the mounts:
  the filter of `CavaProvider` and the sums of `NetworkUsage` are folds, and the list of
  `Storage` is sorted by an operator of the community modules.

### 3.12 Findings

`feedback_lock`: `src/core/CoreOutputState.qml:220` and `:223` say that the
protocol owns serialization and that the production client raises busy before it
returns, so that a tracker that gives the next verdict to the tracked action is
descriptive. A tracked lock may stay open while the protocol is idle: it waits
for the event stream, or for the generation of its one retry. Commands that do
not ask the client for busy (`setOsdLevel`, `toggleOsdMuted`, `setBrightness`,
`focusWorkspace`, `activateMenuNode`) are accepted meanwhile, and the verdict of
such a command is shown as the verdict of the lock. The lock itself is not
affected, which `AttemptsAreSound` shows.

`settings_removed`: `settingsfile.cpp:140` says that a pending write is cleared
because what is loaded takes precedence. The branch for a file that is gone
(`:101-108`) resets the tree as well but returns before that line. A change that
waits for the debounce then brings the file back with options that memory no
longer has, and the load its own notice causes finds nothing changed.

`settings_lists`: `node.cpp:194` says that a reset writes to the file. A list
reset by the user is reset in a nested scope of origin `FileReset`
(`listnode.cpp:272`), for which `recordWrite` marks nothing dirty: the file
keeps the list, and the next start brings it back.

`lyrics_picker`: `lyrics.cpp:386` says that the candidates of the picker are
always populated. Where a choice is kept for the track, `setSelectedCandidate`
is called next and cancels the searches that were just begun; the picker stays
empty.

`gpu_none`: `gpu.cpp:310` says that a sample is dropped when the type has moved
out from under it. The check compares generations, and detection sets the type
within a generation: a sample of Nvidia is written to the type None.

`disks_primary`: `storage.hpp:22` declares `primaryDisk` with the signal
`primaryDiskChanged`. When the disk the user chose goes, `tick` forgets the choice
before it takes the primary disk to compare with (`storage.cpp:313`); QML is not
told and keeps the one that was deleted.

Observed while modelling, each true of the model as it is of the code, without a
run of its own because no comment of the code says otherwise:

- A choice kept for a track that is selected already is not loaded again:
  `setSelectedCandidate` returns early (`lyrics.cpp:118`), `doLoad` returns after
  it (`:391-395`), and loading does not end. `LoadingEnds` leaves out this case,
  marked by `early`, and no other.
- A reply for the previous track that comes between the change of track and its
  debounced load still has the newest request id: the candidate it selects is
  stored as the choice of the new track (`lyrics.cpp:553`).
- `updateApps` keeps the AppEntry of an id it knows, also where the desktop entry
  is another one by now (`appdb.cpp:292`), and the AppEntry goes with the desktop entry
  it was made of: `destroyed` removes whatever has its id (`:296`). An application
  that was installed again while its first desktop entry lives is dropped with
  that entry, and is missing until the entries change again. `AppsAreTheEntries`
  excepts these ids (`retained`), and only these.
- In recursive mode a change in a subdirectory is scanned there and compared with
  every entry there is (`filesystemmodel.cpp:82`, `:291`): entries of other directories
  are removed while their files stay.
- The content height of the list counts dying delegates, and is not taken back
  once they are gone if nothing else changes (`lazylistview.cpp:492`, `:968`).
- An entry of the file model may vanish while its file stays: a file is removed
  and made again while the scan that missed it is still to be applied, and the
  next scan compares with entries that still have it (`filesystemmodel.cpp:291`).
- The collector of the capture lives in whichever thread asks for it first
  (`audioprovider.cpp:37`), and its calls run there; `CaptureFollowsUse` assumes
  the main thread.
- A posted `ref` may run after its processor was deleted (`service.cpp:15`); a
  stream that falls off PipeWire while it streams leaves the timer disarmed, so
  that nobody tells the worker to stop (`audiocollector.cpp:137`).
- A shape that jumps farther between two frames than `markShapeDirty` looks
  leaves an old picture with its new neighbour until something else polishes it;
  a movement of less than a pixel may wake a spring that is only polished with
  the next change. Only sixteen rects of a picture are drawn and the mask of
  those excluded has 32 bits (`blobinvertedrect.cpp:125`).

### 3.13 What the properties rest on, and what they leave open

- A daemon that started again from generation one would be refused for ever by
  `acceptEnvelope`; the model's daemon keeps its generations, as `README.md:27`
  requires of it.
- A refused line does not make an incoherent view visible on an open
  transport, but lines behind it in the buffer are still applied while the
  transport closes (`ReadLine` in phase closing, `ReadStaleLine`), and the
  protocol may call itself ready meanwhile. `CoherentView` and the refinement
  speak of the transports the client has not given up; on the others only
  `NeverBackwards` holds.
- `EditsAreNoticed` and `DifferencesAreReported` are checked without removal.
  With it they do not hold: `onDirChanged` (`settingsfile.cpp:58-64`) loads only
  if there is a file, so a file that was created and removed again while it was
  not watched leaves its content in memory.
- `PendingIsCurrent` and `DifferencesAreReported` leave out a list at its
  default, which `ListResetsAreSaved` is about.
- `StopIsNoticed` speaks of streams that settle while connecting, paused or
  streaming; `PausedIsSilent` of timers that are in time.
- `ServedWasThere` asks that a cached image is one the file had, not that it is
  the one whose hash it is under: a job reads the file again
  (`imagecacher.cpp:104`).

Hazards of this code that no property covers: the memory of observed request ids
(`DesktopCommandProtocol.qml:59`); a busy flag shared by several commands
(`SystemAdapter.qml:78`); capture requests (`CaptureJobs.qml:31`); the theme
preview of a lost connection (`ThemeProtocol.qml:129`); a cancelled scan that
takes the registration of its successor (`filesystemmodel.cpp:372`); edits of a
screen's copies that a reload of the global list replaces (`listnode.cpp:318`,
`:441`: `KeepsEdits` says that they go with their element, and no more);
sockets held by what is connected to them (`hyprextras.cpp:207`); the event
socket of Hyprland, which is not connected again (`hyprextras.cpp:161`); a toast
with a timeout that is not positive (`toaster.cpp:16`); a percentage that creeps
(`storage.cpp:319`).

## 4. Not modelled

- The field validators of the protocol and of the replies (one bit of a line).
- The memory of observed request ids (`DesktopProtocol.qml:1196-1202`,
  `DesktopCommandProtocol.qml:52-73`): no decision of the modelled code reads it.
- In the lock program: the lengths of the delays of the endpoint, the exit codes
  of the supervisor, what the input method is told beside the cursor, and
  clients of other users, which the mode of the socket keeps out.
- In the settings: the nesting of nodes, lists inside list elements, lists that
  are global only, the attached `Config` and `Tokens` objects, the reflection of
  the schema.
- Lyrics: the text format, which line is current, a failing write of the
  preferences. Audio: cava, aubio and the tempo. Hyprland: free messages and the
  syntax of requests. GPU: what programs print beyond whether it is an answer.
  Disks: which file systems are pseudo, percentages. Traffic: speeds per second
  and their wording.
- Lists: replacing or losing the model or the delegate component, a delegate that
  cannot be created, compensation of the viewport. Files: filters and the
  properties of an entry, and the removal of the path itself; the settings beside
  the path are constant, as in the shell. Images: requests without a size, which
  return the original, those with one dimension, which read the other from the file,
  scaling, and the arithmetic of colours. Applications: patterns of
  favourites, a database that fails. Shapes: the second axis, corner filling, the
  shader.
- The wording of diagnostics, logging, and the lengths of time: timers fire in
  any order.
- The components of 1.8, for the reasons in `PROJECT.json`; those that keep state
  are in the plan.
