---------------------------- MODULE SettingsFile ----------------------------
(***************************************************************************)
(* The settings store: one settings tree (RootNode), the file it is kept   *)
(* in (SettingsFile) and everybody else who edits that file.  Changes are  *)
(* batched, saved at most once per debounce and loaded after another one;  *)
(* what is loaded takes precedence over what is still to be saved.         *)
(*                                                                         *)
(* Timers fire in any order: 500 ms and 50 ms are not told apart.  The     *)
(* file watcher is Qt's on inotify, external: it reports changes late and  *)
(* merged, and drops a path whose file was replaced or removed.            *)
(*                                                                         *)
(* An operator named Mut... is no part of the model: it is the definition  *)
(* after it with a slip, and shows which property would notice.            *)
(***************************************************************************)
EXTENDS Naturals, SettingsTree

CONSTANTS
    NoFile,          \* there is no file, or no data was read from one
    Garbled,         \* the file is not JSON, e.g. half written
    Alien,           \* the file is JSON, but no object
    NoWrite,         \* m_pendingWrite is empty
    Edits,           \* what others write into the file
    MayRemove,       \* others also remove it
    MaxLoadRetries,  \* kMaxLoadRetries
    MaxEdits,        \* bound: edits of the file by others
    MaxChanges,      \* bound: changes of options by the user
    MaxFaults        \* bound: failing reads and writes

ASSUME FileAssumption ==
    /\ Edits \subseteq Contents \cup {Garbled, Alien}
    /\ NoFile \notin Contents /\ Garbled \notin Contents /\ Alien \notin Contents
    /\ NoWrite \notin Contents
    /\ NoFile # Garbled /\ NoFile # Alien /\ Garbled # Alien
    /\ MayRemove \in BOOLEAN
    /\ MaxLoadRetries \in Nat /\ MaxEdits \in Nat
    /\ MaxChanges \in Nat /\ MaxFaults \in Nat

VARIABLES
    \* the file system and QFileSystemWatcher
    dir,            \* missing, plain or watched
    disk,           \* the file at m_path
    watched,        \* no, yes, or gone: the file watched is not at m_path any more
    fileNotice,     \* fileChanged is to be emitted
    dirNotice,      \* directoryChanged is to be emitted
    \* SettingsFile
    lastData,
    pendingWrite,
    saveDebounce,   \* m_saveDebounce is active
    saveQueued,     \* and save is connected to its timeout
    loadDebounce,   \* m_loadDebounce is active
    loadRetries,
    \* RootNode and its ChangeBatcher
    tree,
    dirty,          \* m_dirty: flush is queued
    \* what the user was told, and did
    unread,         \* readFailed, and nothing was read since
    unsaved,        \* writeFailed, and nothing was saved or loaded since
    touched,        \* options changed by the user since the tree was loaded
    edits, changes, faults

diskVars == <<dir, disk, watched, fileNotice, dirNotice>>
saveVars == <<pendingWrite, saveDebounce, saveQueued, unsaved>>
loadVars == <<lastData, loadDebounce, loadRetries, unread>>
treeVars == <<tree, dirty, touched>>
bounds == <<edits, changes, faults>>
vars == <<diskVars, saveVars, loadVars, treeVars, bounds>>

Loaded(content) == Synced(content, Defaults, FALSE)

\* The constructors, and load() of a file that can be opened.
Init ==
    /\ \/ dir = "missing" /\ disk = NoFile
       \/ dir = "watched" /\ disk \in Edits \cup {NoFile}
    /\ watched = IF disk = NoFile THEN "no" ELSE "yes"
    /\ fileNotice = FALSE /\ dirNotice = FALSE
    /\ lastData = IF disk = Garbled THEN NoFile ELSE disk
    /\ pendingWrite = NoWrite
    /\ saveDebounce = FALSE /\ saveQueued = FALSE
    /\ loadDebounce = FALSE /\ loadRetries = 0
    /\ tree = Loaded(IF disk \in Contents THEN disk ELSE EmptyContent)
    /\ dirty = FALSE /\ touched = {}
    /\ unread = (disk = Garbled) /\ unsaved = FALSE
    /\ edits = 0 /\ changes = 0 /\ faults = 0

---------------------------------------------------------------------------
(* RootNode and ChangeBatcher                                              *)

\* The user sets an option or edits a list.
UserWrites(k, value) ==
    /\ changes < MaxChanges
    /\ tree' = Written(tree, k, value)
    /\ dirty' = (dirty \/ WriteDirties(tree, k, value))
    /\ touched' = touched \cup {k}
    /\ changes' = changes + 1
    /\ UNCHANGED <<diskVars, saveVars, loadVars, edits, faults>>

\* resetOption
UserResets(k) ==
    /\ changes < MaxChanges
    /\ tree' = Reset(tree, k, Defaults)
    /\ dirty' = (dirty \/ ResetDirties(tree, k, Defaults))
    /\ touched' = touched \cup {k}
    /\ changes' = changes + 1
    /\ UNCHANGED <<diskVars, saveVars, loadVars, edits, faults>>

\* reloadFromFile, for the data just read
Reload(data) ==
    /\ tree' = IF data = Alien THEN Rejected(tree)
               ELSE Loaded(IF data = NoFile THEN EmptyContent ELSE data)
    /\ touched' = {}

---------------------------------------------------------------------------
(* SettingsFile: saving                                                    *)

\* initWatcher, where the file watcher has dropped what is not there any more
WatchFile(known) ==
    /\ dir' = IF dir = "missing" THEN "missing" ELSE "watched"
    /\ watched' = IF known = "no" /\ disk # NoFile THEN "yes" ELSE known

\* mkpath, open or commit fails: the write is given up.
SaveFails ==
    /\ faults < MaxFaults
    /\ faults' = faults + 1
    /\ unsaved' = TRUE
    /\ UNCHANGED <<diskVars, lastData, unread>>

\* QSaveFile replaces the file; initWatcher then only adds what is not watched.
SaveSucceeds(data) ==
    /\ disk' = data
    /\ lastData' = data
    /\ unsaved' = FALSE /\ unread' = FALSE
    /\ dir' = "watched"
    /\ dirNotice' = (dirNotice \/ dir = "watched")
    /\ fileNotice' = (fileNotice \/ watched = "yes")
    /\ watched' = IF watched = "no" THEN "yes" ELSE "gone"
    /\ UNCHANGED faults

\* save with a pending write and no debounce to wait for
SaveNow(data) ==
    /\ saveDebounce' = TRUE
    /\ pendingWrite' = NoWrite
    /\ SaveSucceeds(data) \/ SaveFails

QueueSave(data) ==
    /\ pendingWrite' = data
    /\ saveQueued' = TRUE
    /\ UNCHANGED <<saveDebounce, diskVars, unsaved, lastData, unread, faults>>

\* ChangeBatcher.flush: saveToFile
Flush ==
    /\ dirty
    /\ dirty' = FALSE
    /\ \/ saveDebounce /\ QueueSave(Json(tree))
       \/ ~saveDebounce /\ SaveNow(Json(tree)) /\ UNCHANGED saveQueued
    /\ UNCHANGED <<loadDebounce, loadRetries, tree, touched, edits, changes>>

SaveDebounceEnds ==
    /\ saveDebounce
    /\ saveQueued' = FALSE
    /\ \/ saveQueued /\ pendingWrite # NoWrite /\ SaveNow(pendingWrite)
       \/ /\ ~saveQueued \/ pendingWrite = NoWrite
          /\ saveDebounce' = FALSE
          /\ UNCHANGED <<pendingWrite, diskVars, unsaved, lastData, unread, faults>>
    /\ UNCHANGED <<loadDebounce, loadRetries, treeVars, edits, changes>>

---------------------------------------------------------------------------
(* SettingsFile: loading                                                   *)

ScheduleLoad ==
    /\ loadDebounce' = TRUE
    /\ loadRetries' = IF loadDebounce THEN loadRetries ELSE 0

FileChanged ==
    /\ fileNotice
    /\ fileNotice' = FALSE
    /\ WatchFile(IF watched = "gone" THEN "no" ELSE watched)
    /\ ScheduleLoad
    /\ UNCHANGED <<disk, dirNotice, lastData, unread, saveVars, treeVars, bounds>>

DirChanged ==
    /\ dirNotice
    /\ dirNotice' = FALSE
    /\ IF watched = "no" THEN WatchFile("no") ELSE UNCHANGED <<dir, watched>>
    /\ IF watched = "no" /\ disk # NoFile
       THEN ScheduleLoad
       ELSE UNCHANGED <<loadDebounce, loadRetries>>
    /\ UNCHANGED <<disk, fileNotice, lastData, unread, saveVars, treeVars, bounds>>

LoadDone == loadDebounce' = FALSE /\ UNCHANGED loadRetries

\* The file is gone: the tree is reset, a pending write stays.
LoadNothing ==
    /\ disk = NoFile
    /\ lastData' = NoFile /\ unread' = FALSE
    /\ IF lastData = NoFile
       THEN UNCHANGED <<tree, touched, unsaved>>
       ELSE Reload(NoFile) /\ unsaved' = FALSE
    /\ LoadDone
    /\ UNCHANGED <<pendingWrite, faults>>

LoadCannotOpen ==
    /\ disk # NoFile /\ faults < MaxFaults
    /\ faults' = faults + 1
    /\ unread' = TRUE
    /\ LoadDone
    /\ UNCHANGED <<lastData, tree, touched, pendingWrite, unsaved>>

\* A file that stays malformed is retried for ever.
MutLoadGarbled ==
    /\ disk = Garbled
    /\ loadDebounce' = TRUE
    /\ UNCHANGED <<loadRetries, unread, lastData, tree, touched, pendingWrite,
                   unsaved, faults>>

\* Malformed, likely a partial write: retried, and reported in the end.
LoadGarbled ==
    /\ disk = Garbled
    /\ \/ /\ loadRetries < MaxLoadRetries
          /\ loadRetries' = loadRetries + 1
          /\ loadDebounce' = TRUE
          /\ UNCHANGED unread
       \/ /\ loadRetries >= MaxLoadRetries
          /\ unread' = TRUE
          /\ LoadDone
    /\ UNCHANGED <<lastData, tree, touched, pendingWrite, unsaved, faults>>

\* What is loaded does not clear a write that is still pending.
MutLoadChange ==
    /\ disk \notin {NoFile, Garbled, lastData}
    /\ lastData' = disk /\ unread' = FALSE /\ unsaved' = FALSE
    /\ Reload(disk)
    /\ LoadDone
    /\ UNCHANGED <<pendingWrite, faults>>

LoadChange ==
    /\ disk \notin {NoFile, Garbled, lastData}
    /\ pendingWrite' = NoWrite
    /\ lastData' = disk /\ unread' = FALSE /\ unsaved' = FALSE
    /\ Reload(disk)
    /\ LoadDone
    /\ UNCHANGED faults

LoadSame ==
    /\ disk \notin {NoFile, Garbled} /\ disk = lastData
    /\ unread' = FALSE
    /\ LoadDone
    /\ UNCHANGED <<lastData, tree, touched, pendingWrite, unsaved, faults>>

LoadDebounceEnds ==
    /\ loadDebounce
    /\ LoadNothing \/ LoadCannotOpen \/ LoadGarbled \/ LoadChange \/ LoadSame
    /\ UNCHANGED <<diskVars, saveDebounce, saveQueued, dirty, edits, changes>>

---------------------------------------------------------------------------
(* Others who use the file                                                 *)

Elsewhere ==
    /\ edits < MaxEdits
    /\ edits' = edits + 1
    /\ UNCHANGED <<saveVars, loadVars, treeVars, changes, faults>>

\* The file at m_path is not the one it was.
NewFile(data) ==
    /\ disk' = data
    /\ dirNotice' = (dirNotice \/ dir = "watched")
    /\ fileNotice' = (fileNotice \/ watched = "yes")
    /\ watched' = IF watched = "yes" THEN "gone" ELSE watched
    /\ UNCHANGED dir

EditInPlace(data) ==
    /\ disk # NoFile
    /\ disk' = data
    /\ fileNotice' = (fileNotice \/ watched = "yes")
    /\ UNCHANGED <<dir, watched, dirNotice>>
    /\ Elsewhere

Replace(data) == dir # "missing" /\ NewFile(data) /\ Elsewhere

Remove == MayRemove /\ disk # NoFile /\ NewFile(NoFile) /\ Elsewhere

CreateDirectory ==
    /\ dir = "missing"
    /\ dir' = "plain"
    /\ UNCHANGED <<disk, watched, fileNotice, dirNotice>>
    /\ Elsewhere

Editor == \/ \E data \in Edits : EditInPlace(data) \/ Replace(data)
          \/ Remove
          \/ CreateDirectory

User == \E k \in Options : (\E v \in Values : UserWrites(k, v)) \/ UserResets(k)

Store == Flush \/ SaveDebounceEnds \/ FileChanged \/ DirChanged \/ LoadDebounceEnds

Next == Store \/ User \/ Editor

\* Queued calls run, timers fire and the watcher reports.
Fairness == /\ WF_vars(Flush) /\ WF_vars(SaveDebounceEnds)
            /\ WF_vars(FileChanged) /\ WF_vars(DirChanged)
            /\ WF_vars(LoadDebounceEnds)

Spec == Init /\ [][Next]_vars
FairSpec == Spec /\ Fairness

---------------------------------------------------------------------------
(* Properties                                                              *)

\* Every variable keeps its type; a malformed file is retried at most
\* kMaxLoadRetries times.
TypeOK ==
    /\ dir \in {"missing", "plain", "watched"}
    /\ disk \in Contents \cup {NoFile, Garbled, Alien}
    /\ watched \in {"no", "yes", "gone"}
    /\ fileNotice \in BOOLEAN /\ dirNotice \in BOOLEAN
    /\ lastData \in Contents \cup {NoFile, Alien}
    /\ pendingWrite \in Contents \cup {NoWrite}
    /\ saveDebounce \in BOOLEAN /\ saveQueued \in BOOLEAN
    /\ loadDebounce \in BOOLEAN /\ loadRetries \in 0 .. MaxLoadRetries
    /\ tree \in Trees /\ dirty \in BOOLEAN
    /\ unread \in BOOLEAN /\ unsaved \in BOOLEAN
    /\ touched \subseteq Options
    /\ edits \in Nat /\ changes \in Nat /\ faults \in Nat

\* A write that waits is sure to be tried: its save is queued on a debounce
\* that is running.
NoForgottenWrite == pendingWrite # NoWrite => saveDebounce /\ saveQueued

\* No edit of a watched directory is missed: as long as the file is not what
\* the store believes it is, a notice or a load is on its way, or the user was
\* told that the file could not be read.
EditsAreNoticed ==
    dir = "watched" /\ disk # lastData =>
        fileNotice \/ dirNotice \/ loadDebounce \/ unread

\* A write that waits is what the tree says now: what was loaded since it was
\* asked for takes precedence over it.
PendingIsCurrent ==
    pendingWrite # NoWrite /\ ~dirty =>
        \A k \in Options : \/ pendingWrite[k] = Json(tree)[k]
                           \/ k \in Lists /\ ~tree[k].override

Quiet ==
    /\ ~fileNotice /\ ~dirNotice /\ ~loadDebounce
    /\ ~dirty /\ pendingWrite = NoWrite

\* What the file says of option k; the root of an alien file is diagnosed.
OnDisk(k) == IF disk = NoFile THEN Absent ELSE disk[k]
Readable == dir # "plain" /\ disk \notin {Garbled, Alien}

\* Once nothing is under way, memory and file agree on every option or the
\* user was told that a save or a load failed.  (A list at its default may be
\* one that was reset: ListResetsAreSaved.)
DifferencesAreReported ==
    Quiet /\ Readable /\ ~unread /\ ~unsaved =>
        \A k \in Options : \/ Json(tree)[k] = OnDisk(k)
                           \/ k \in Lists /\ ~tree[k].override

\* A list the user has reset is reset in the file, too.
ListResetsAreSaved ==
    Quiet /\ Readable /\ ~unread /\ ~unsaved =>
        \A k \in Lists : Json(tree)[k] = OnDisk(k)

\* A save changes nothing the user did not: options nobody touched, unknown
\* ones and values that could not be decoded stay as they were last read.
SavesOnlyWhatTheUserChanged ==
    [][disk' # disk /\ edits' = edits /\ lastData \in Contents =>
          \A k \in Options \ touched : disk'[k] = lastData[k]]_vars

\* Saving, being notified of one's own save and loading do not feed each
\* other for ever.
Settles == <>[]Quiet

\* The store follows its file: a write that waits is tried and is what the tree
\* says, edits are noticed, and once nothing is under way a difference between
\* memory and file was reported (save, watchPath, onFileChanged, syncFromObject).
FileIsFollowed ==
    /\ TypeOK /\ NoForgottenWrite /\ PendingIsCurrent
    /\ EditsAreNoticed /\ DifferencesAreReported
=============================================================================
