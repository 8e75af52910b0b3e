------------------------ MODULE SettingsFileProofs ------------------------
(***************************************************************************)
(* Proofs about SettingsFile and Codecs, for every schema, every content   *)
(* others may write, every range of an int and every bound.                *)
(***************************************************************************)
EXTENDS SettingsFile, Codecs, WellFoundedInduction, TLAPS

---------------------------------------------------------------------------
(* The operators of SettingsTree                                           *)

\* A tree can always be written, and says what it was loaded from.
LEMMA JsonType ==
    ASSUME NEW t \in Trees
    PROVE  Json(t) \in Contents
BY DEF Json, Trees, Node, Contents

LEMMA LoadedType ==
    ASSUME NEW content \in Contents
    PROVE  /\ Loaded(content) \in Trees
           /\ \A k \in Options : Json(Loaded(content))[k] = content[k]
BY TreeAssumption
   DEF Loaded, Synced, Json, Trees, Node, Contents, Defaults, Overridden, Inherited

LEMMA EmptyType == EmptyContent \in Contents
BY DEF EmptyContent, Contents

LEMMA RejectedType ==
    ASSUME NEW t \in Trees
    PROVE  Rejected(t) \in Trees
BY DEF Rejected, Trees, Node

\* A write changes one option, and is noticed if it changes anything.
LEMMA WrittenType ==
    ASSUME NEW t \in Trees, NEW k \in Options, NEW value \in Values
    PROVE  /\ Written(t, k, value) \in Trees
           /\ \A j \in Options \ {k} : Written(t, k, value)[j] = t[j]
           /\ WriteDirties(t, k, value) \in BOOLEAN
           /\ ~WriteDirties(t, k, value) => Written(t, k, value) = t
BY DEF Written, WriteDirties, Overridden, Trees, Node

\* So is a reset, but for lists.
LEMMA ResetType ==
    ASSUME NEW t \in Trees, NEW k \in Options
    PROVE  /\ Reset(t, k, Defaults) \in Trees
           /\ \A j \in Options \ {k} : Reset(t, k, Defaults)[j] = t[j]
           /\ ResetDirties(t, k, Defaults) \in BOOLEAN
           /\ ~Reset(t, k, Defaults)[k].override
           /\ ~ResetDirties(t, k, Defaults) => k \in Lists \/ Reset(t, k, Defaults) = t
BY TreeAssumption DEF Reset, ResetDirties, Inherited, Defaults, Trees, Node

---------------------------------------------------------------------------
(* Types and queued saves, whether or not files are removed                *)

Typed == TypeOK /\ NoForgottenWrite

\* The parts of a save
LEMMA SaveNowTyped ==
    ASSUME Typed, NEW data \in Contents, SaveNow(data)
    PROVE  /\ dir' \in {"missing", "plain", "watched"}
           /\ disk' \in Contents \cup {NoFile, Garbled, Alien}
           /\ watched' \in {"no", "yes", "gone"}
           /\ fileNotice' \in BOOLEAN /\ dirNotice' \in BOOLEAN
           /\ lastData' \in Contents \cup {NoFile, Alien}
           /\ pendingWrite' = NoWrite /\ saveDebounce' = TRUE
           /\ unread' \in BOOLEAN /\ unsaved' \in BOOLEAN
           /\ faults' \in Nat
<1>1. CASE SaveSucceeds(data)
  BY <1>1 DEF SaveNow, SaveSucceeds, Typed, TypeOK
<1>2. CASE SaveFails
  BY <1>2 DEF SaveNow, SaveFails, Typed, TypeOK, diskVars
<1> QED
  BY <1>1, <1>2 DEF SaveNow

LEMMA FlushTyped ==
    ASSUME Typed, Flush
    PROVE  Typed'
<1>1. Json(tree) \in Contents
  BY JsonType DEF Typed, TypeOK
<1>2. CASE saveDebounce /\ QueueSave(Json(tree))
  <2>1. /\ pendingWrite' \in Contents \cup {NoWrite} /\ saveQueued' \in BOOLEAN
        /\ dirty' \in BOOLEAN /\ NoForgottenWrite'
    BY <1>1, <1>2 DEF Flush, QueueSave, NoForgottenWrite
  <2>2. /\ dir' \in {"missing", "plain", "watched"}
        /\ disk' \in Contents \cup {NoFile, Garbled, Alien}
        /\ watched' \in {"no", "yes", "gone"}
        /\ fileNotice' \in BOOLEAN /\ dirNotice' \in BOOLEAN
        /\ lastData' \in Contents \cup {NoFile, Alien}
        /\ unread' \in BOOLEAN /\ unsaved' \in BOOLEAN
        /\ saveDebounce' \in BOOLEAN /\ faults' \in Nat
    BY <1>2 DEF QueueSave, Typed, TypeOK, diskVars
  <2>3. /\ loadDebounce' \in BOOLEAN /\ loadRetries' \in 0..MaxLoadRetries
        /\ tree' \in Trees /\ touched' \subseteq Options
        /\ edits' \in Nat /\ changes' \in Nat
    BY DEF Flush, Typed, TypeOK
  <2> QED
    BY <2>1, <2>2, <2>3 DEF Typed, TypeOK
<1>3. CASE ~saveDebounce /\ SaveNow(Json(tree)) /\ UNCHANGED saveQueued
  <2>1. /\ dir' \in {"missing", "plain", "watched"}
        /\ disk' \in Contents \cup {NoFile, Garbled, Alien}
        /\ watched' \in {"no", "yes", "gone"}
        /\ fileNotice' \in BOOLEAN /\ dirNotice' \in BOOLEAN
        /\ lastData' \in Contents \cup {NoFile, Alien}
        /\ pendingWrite' = NoWrite /\ saveDebounce' = TRUE
        /\ unread' \in BOOLEAN /\ unsaved' \in BOOLEAN
        /\ faults' \in Nat
    BY <1>1, <1>3, SaveNowTyped
  <2>2. /\ dirty' = FALSE /\ saveQueued' = saveQueued
        /\ loadDebounce' = loadDebounce /\ loadRetries' = loadRetries
        /\ tree' = tree /\ touched' = touched /\ edits' = edits /\ changes' = changes
    BY <1>3 DEF Flush
  <2> QED
    BY <2>1, <2>2 DEF Typed, TypeOK, NoForgottenWrite
<1> QED
  BY <1>2, <1>3 DEF Flush

LEMMA SaveDebounceTyped ==
    ASSUME Typed, SaveDebounceEnds
    PROVE  Typed'
<1>1. CASE saveQueued /\ pendingWrite # NoWrite /\ SaveNow(pendingWrite)
  <2>1. pendingWrite \in Contents
    BY <1>1 DEF Typed, TypeOK
  <2> QED
    BY <1>1, <2>1, SaveNowTyped
       DEF SaveDebounceEnds, treeVars, Typed, TypeOK, NoForgottenWrite
<1>2. CASE /\ ~saveQueued \/ pendingWrite = NoWrite
           /\ saveDebounce' = FALSE
           /\ UNCHANGED <<pendingWrite, diskVars, unsaved, lastData, unread, faults>>
  <2>1. /\ UNCHANGED <<dir, disk, watched, fileNotice, dirNotice>>
        /\ UNCHANGED <<pendingWrite, unsaved, lastData, unread, faults>>
        /\ UNCHANGED <<loadDebounce, loadRetries, tree, dirty, touched, edits, changes>>
        /\ saveQueued' = FALSE /\ saveDebounce' = FALSE
    BY <1>2 DEF SaveDebounceEnds, treeVars, diskVars
  <2>2. pendingWrite = NoWrite
    BY <1>2 DEF Typed, NoForgottenWrite, SaveDebounceEnds
  <2>3. saveQueued' \in BOOLEAN /\ saveDebounce' \in BOOLEAN
    BY <2>1
  <2>4. TypeOK'
    BY <2>1, <2>3 DEF Typed, TypeOK
  <2> QED
    BY <2>1, <2>2, <2>4 DEF Typed, NoForgottenWrite
<1> QED
  BY <1>1, <1>2 DEF SaveDebounceEnds

LEMMA UserTyped ==
    ASSUME Typed, User
    PROVE  Typed'
<1>1. ASSUME NEW k \in Options, NEW value \in Values, UserWrites(k, value)
      PROVE  Typed'
  <2>1. tree' \in Trees /\ dirty' \in BOOLEAN
    BY <1>1, WrittenType DEF UserWrites, Typed, TypeOK
  <2> QED
    BY <1>1, <2>1
       DEF UserWrites, diskVars, saveVars, loadVars, Typed, TypeOK, NoForgottenWrite
<1>2. ASSUME NEW k \in Options, UserResets(k)
      PROVE  Typed'
  <2>1. tree' \in Trees /\ dirty' \in BOOLEAN
    BY <1>2, ResetType DEF UserResets, Typed, TypeOK
  <2> QED
    BY <1>2, <2>1
       DEF UserResets, diskVars, saveVars, loadVars, Typed, TypeOK, NoForgottenWrite
<1> QED
  BY <1>1, <1>2 DEF User

LEMMA WatchFileTyped ==
    ASSUME dir \in {"missing", "plain", "watched"}, NEW known \in {"no", "yes", "gone"},
           WatchFile(known)
    PROVE  dir' \in {"missing", "plain", "watched"} /\ watched' \in {"no", "yes", "gone"}
BY DEF WatchFile

LEMMA ScheduleLoadTyped ==
    ASSUME loadRetries \in 0 .. MaxLoadRetries, ScheduleLoad
    PROVE  loadDebounce' \in BOOLEAN /\ loadRetries' \in 0 .. MaxLoadRetries
BY FileAssumption DEF ScheduleLoad

LEMMA NoticeTyped ==
    ASSUME Typed, FileChanged \/ DirChanged
    PROVE  Typed'
<1>1. CASE FileChanged
  <2>1. dir' \in {"missing", "plain", "watched"} /\ watched' \in {"no", "yes", "gone"}
    BY <1>1, WatchFileTyped DEF FileChanged, Typed, TypeOK
  <2>2. loadDebounce' \in BOOLEAN /\ loadRetries' \in 0 .. MaxLoadRetries
    BY <1>1, ScheduleLoadTyped DEF FileChanged, Typed, TypeOK
  <2>3. /\ UNCHANGED <<disk, lastData, saveVars, treeVars, bounds, unread>>
        /\ fileNotice' \in BOOLEAN /\ dirNotice' \in BOOLEAN
    BY <1>1 DEF FileChanged, Typed, TypeOK
  <2> QED
    BY <2>1, <2>2, <2>3 DEF saveVars, treeVars, bounds, Typed, TypeOK, NoForgottenWrite
<1>2. CASE DirChanged
  <2>1. dir' \in {"missing", "plain", "watched"} /\ watched' \in {"no", "yes", "gone"}
    BY <1>2, WatchFileTyped DEF DirChanged, Typed, TypeOK
  <2>2. loadDebounce' \in BOOLEAN /\ loadRetries' \in 0 .. MaxLoadRetries
    BY <1>2, ScheduleLoadTyped DEF DirChanged, Typed, TypeOK
  <2>3. /\ UNCHANGED <<disk, lastData, saveVars, treeVars, bounds, unread>>
        /\ fileNotice' \in BOOLEAN /\ dirNotice' \in BOOLEAN
    BY <1>2 DEF DirChanged, Typed, TypeOK
  <2> QED
    BY <2>1, <2>2, <2>3 DEF saveVars, treeVars, bounds, Typed, TypeOK, NoForgottenWrite
<1> QED
  BY <1>1, <1>2

LEMMA ReloadTyped ==
    ASSUME tree \in Trees, NEW data \in Contents \cup {NoFile, Alien}, Reload(data)
    PROVE  tree' \in Trees /\ touched' = {}
<1>1. CASE data = Alien
  BY <1>1, RejectedType DEF Reload
<1>2. CASE data # Alien
  <2>1. (IF data = NoFile THEN EmptyContent ELSE data) \in Contents
    BY <1>2, EmptyType
  <2> QED
    BY <1>2, <2>1, LoadedType DEF Reload
<1> QED
  BY <1>1, <1>2

LEMMA LoadTyped ==
    ASSUME Typed, LoadDebounceEnds
    PROVE  Typed'
<1>1. /\ UNCHANGED <<dir, disk, watched, fileNotice, dirNotice>>
      /\ UNCHANGED <<saveDebounce, saveQueued, dirty, edits, changes>>
  BY DEF LoadDebounceEnds, diskVars
<1>2. /\ lastData' \in Contents \cup {NoFile, Alien}
      /\ unread' \in BOOLEAN /\ unsaved' \in BOOLEAN
      /\ loadDebounce' \in BOOLEAN /\ loadRetries' \in 0 .. MaxLoadRetries
      /\ tree' \in Trees /\ touched' \subseteq Options
      /\ pendingWrite' \in {pendingWrite, NoWrite}
      /\ faults' \in Nat
  <2>1. CASE LoadNothing
    BY <2>1, ReloadTyped DEF LoadNothing, LoadDone, Typed, TypeOK
  <2>2. CASE LoadCannotOpen
    <3>1. faults' \in Nat /\ loadDebounce' = FALSE /\ unread' = TRUE
      BY <2>2 DEF LoadCannotOpen, LoadDone, Typed, TypeOK
    <3>2. UNCHANGED <<loadRetries, lastData, tree, touched, pendingWrite, unsaved>>
      BY <2>2 DEF LoadCannotOpen, LoadDone
    <3> QED
      BY <3>1, <3>2 DEF Typed, TypeOK
  <2>3. CASE LoadGarbled
    <3>1. UNCHANGED <<lastData, tree, touched, pendingWrite, unsaved, faults>>
      BY <2>3 DEF LoadGarbled
    <3>2. loadDebounce' \in BOOLEAN /\ unread' \in BOOLEAN
      BY <2>3 DEF LoadGarbled, LoadDone, Typed, TypeOK
    <3>3. loadRetries' \in 0 .. MaxLoadRetries
      BY <2>3, FileAssumption DEF LoadGarbled, LoadDone, Typed, TypeOK
    <3> QED
      BY <3>1, <3>2, <3>3 DEF Typed, TypeOK
  <2>4. CASE LoadChange
    <3>1. disk \in Contents \cup {NoFile, Alien}
      BY <2>4 DEF LoadChange, Typed, TypeOK
    <3> QED
      BY <2>4, <3>1, ReloadTyped DEF LoadChange, LoadDone, Typed, TypeOK
  <2>5. CASE LoadSame
    BY <2>5 DEF LoadSame, LoadDone, Typed, TypeOK
  <2> QED
    BY <2>1, <2>2, <2>3, <2>4, <2>5 DEF LoadDebounceEnds
<1> QED
  BY <1>1, <1>2 DEF Typed, TypeOK, NoForgottenWrite

LEMMA EditorTyped ==
    ASSUME Typed, Editor
    PROVE  Typed'
<1>1. /\ UNCHANGED <<pendingWrite, saveDebounce, saveQueued, unsaved>>
      /\ UNCHANGED <<lastData, loadDebounce, loadRetries, unread>>
      /\ UNCHANGED <<tree, dirty, touched, changes, faults>>
      /\ edits' = edits + 1
  BY DEF Editor, EditInPlace, Replace, Remove, CreateDirectory, Elsewhere,
         saveVars, loadVars, treeVars
<1>2. /\ dir' \in {"missing", "plain", "watched"}
      /\ disk' \in Contents \cup {NoFile, Garbled, Alien}
      /\ watched' \in {"no", "yes", "gone"}
      /\ fileNotice' \in BOOLEAN /\ dirNotice' \in BOOLEAN
  BY FileAssumption
     DEF Editor, EditInPlace, Replace, Remove, CreateDirectory, NewFile, Typed, TypeOK
<1> QED
  BY <1>1, <1>2 DEF Typed, TypeOK, NoForgottenWrite

LEMMA TypedStep == Typed /\ [Next]_vars => Typed'
<1> SUFFICES ASSUME Typed, [Next]_vars PROVE Typed'
  OBVIOUS
<1>1. CASE Next
  BY <1>1, FlushTyped, SaveDebounceTyped, NoticeTyped, LoadTyped, UserTyped, EditorTyped
     DEF Next, Store
<1>2. CASE UNCHANGED vars
  BY <1>2 DEF vars, diskVars, saveVars, loadVars, treeVars, bounds, Typed, TypeOK,
              NoForgottenWrite
<1> QED
  BY <1>1, <1>2

LEMMA TypedInit == Init => Typed
<1> SUFFICES ASSUME Init PROVE Typed
  OBVIOUS
<1>1. disk \in Contents \cup {NoFile, Garbled, Alien}
  BY FileAssumption DEF Init
<1>2. tree \in Trees
  BY EmptyType, LoadedType DEF Init
<1>3. /\ lastData \in Contents \cup {NoFile, Alien}
      /\ loadRetries \in 0 .. MaxLoadRetries
      /\ watched \in {"no", "yes", "gone"}
  BY <1>1, FileAssumption DEF Init
<1>4. unread \in BOOLEAN
  BY DEF Init
<1> QED
  BY <1>1, <1>2, <1>3, <1>4 DEF Init, Typed, TypeOK, NoForgottenWrite

\* Every variable keeps its type, and malformed files are not retried more often
\* than kMaxLoadRetries (onLoadDebounced).
THEOREM TypeCorrect == Spec => []TypeOK
<1>1. Typed => TypeOK
  BY DEF Typed
<1> QED
  BY TypedInit, TypedStep, <1>1, PTL DEF Spec

\* A write that waits for the save debounce (save) is never forgotten: the
\* debounce runs and the save is connected to its end.
THEOREM WritesAreTried == Spec => []NoForgottenWrite
<1>1. Typed => NoForgottenWrite
  BY DEF Typed
<1> QED
  BY TypedInit, TypedStep, <1>1, PTL DEF Spec

---------------------------------------------------------------------------
(* What a step does to the store's memory as long as nobody removes the    *)
(* file                                                                    *)

\* A file that was there stays there.
Present ==
    /\ disk = NoFile => lastData = NoFile
    /\ dir = "missing" => disk = NoFile

\* Steps that leave the file and the memory alone
Aside == UNCHANGED <<disk, lastData, tree, touched, pendingWrite, dirty, unsaved>>

\* The tree, or the older write that waits, is saved.
Saves(data) ==
    /\ \/ data = Json(tree) /\ dirty /\ dirty' = FALSE
       \/ data = pendingWrite /\ pendingWrite # NoWrite /\ dirty' = dirty
    /\ data \in Contents
    /\ disk' = data /\ lastData' = data
    /\ pendingWrite' = NoWrite
    /\ UNCHANGED <<tree, touched, edits>>

\* or is given up
GivesUp ==
    /\ pendingWrite' = NoWrite /\ unsaved' = TRUE
    /\ UNCHANGED <<disk, lastData, tree, touched>>

Queues ==
    /\ dirty' = FALSE /\ pendingWrite' = Json(tree)
    /\ UNCHANGED <<disk, lastData, tree, touched, unsaved>>

\* New content is loaded.
Loads ==
    /\ disk \notin {NoFile, Garbled}
    /\ lastData' = disk /\ pendingWrite' = NoWrite
    /\ Reload(disk)
    /\ UNCHANGED <<disk, dirty>>

\* The user changes option k.
Changes(k) ==
    /\ tree' \in Trees
    /\ \A j \in Options \ {k} : tree'[j] = tree[j]
    /\ tree' = tree \/ dirty' \/ (k \in Lists /\ ~tree'[k].override)
    /\ dirty => dirty'
    /\ touched' = touched \cup {k}
    /\ UNCHANGED <<disk, lastData, pendingWrite, unsaved>>

\* Others change the file.
Edited ==
    /\ disk' # NoFile /\ edits' = edits + 1
    /\ UNCHANGED <<lastData, tree, touched, pendingWrite, dirty, unsaved>>

LEMMA SaveNowEffect ==
    ASSUME NEW data, SaveNow(data)
    PROVE  \/ disk' = data /\ lastData' = data /\ pendingWrite' = NoWrite
           \/ /\ pendingWrite' = NoWrite /\ unsaved' = TRUE
              /\ UNCHANGED <<disk, lastData>>
BY DEF SaveNow, SaveSucceeds, SaveFails, diskVars

LEMMA MemoryStep ==
    ASSUME MayRemove = FALSE, Typed, Present, [Next]_vars
    PROVE  \/ Aside \/ (\E data \in Contents : Saves(data)) \/ GivesUp \/ Queues \/ Loads
           \/ (\E k \in Options : Changes(k)) \/ Edited
<1>1. CASE Flush
  <2>1. dirty /\ dirty' = FALSE /\ UNCHANGED <<tree, touched, edits>>
    BY <1>1 DEF Flush
  <2>2. Json(tree) \in Contents
    BY JsonType DEF Typed, TypeOK
  <2>3. CASE QueueSave(Json(tree))
    BY <2>1, <2>3 DEF QueueSave, Queues, diskVars
  <2>4. CASE SaveNow(Json(tree))
    BY <2>1, <2>2, <2>4, SaveNowEffect DEF Saves, GivesUp
  <2> QED
    BY <1>1, <2>3, <2>4 DEF Flush
<1>2. CASE SaveDebounceEnds
  <2>1. UNCHANGED <<tree, touched, dirty, edits>>
    BY <1>2 DEF SaveDebounceEnds, treeVars
  <2>2. CASE pendingWrite # NoWrite /\ SaveNow(pendingWrite)
    <3>1. pendingWrite \in Contents
      BY <2>2 DEF Typed, TypeOK
    <3> QED
      BY <2>1, <2>2, <3>1, SaveNowEffect DEF Saves, GivesUp
  <2>3. CASE UNCHANGED <<pendingWrite, diskVars, unsaved, lastData, unread, faults>>
    BY <2>1, <2>3 DEF Aside, diskVars
  <2> QED
    BY <1>2, <2>2, <2>3 DEF SaveDebounceEnds
<1>3. CASE FileChanged
  BY <1>3 DEF FileChanged, saveVars, treeVars, Aside
<1>4. CASE DirChanged
  BY <1>4 DEF DirChanged, saveVars, treeVars, Aside
<1>5. CASE LoadDebounceEnds
  <2>1. UNCHANGED <<disk, dirty>>
    BY <1>5 DEF LoadDebounceEnds, diskVars
  <2>2. CASE LoadNothing
    BY <2>1, <2>2 DEF LoadNothing, Present, Aside
  <2>3. CASE LoadCannotOpen \/ LoadGarbled \/ LoadSame
    BY <2>1, <2>3 DEF LoadCannotOpen, LoadGarbled, LoadSame, Aside
  <2>4. CASE LoadChange
    BY <2>1, <2>4 DEF LoadChange, Loads
  <2> QED
    BY <1>5, <2>2, <2>3, <2>4 DEF LoadDebounceEnds
<1>6. ASSUME NEW k \in Options, NEW value \in Values, UserWrites(k, value)
      PROVE  Changes(k)
  <2>1. tree \in Trees /\ dirty \in BOOLEAN
    BY DEF Typed, TypeOK
  <2>2. /\ tree' = Written(tree, k, value)
        /\ dirty' = (dirty \/ WriteDirties(tree, k, value))
        /\ touched' = touched \cup {k}
        /\ UNCHANGED <<disk, lastData, pendingWrite, unsaved>>
    BY <1>6 DEF UserWrites, diskVars, saveVars, loadVars
  <2>3. /\ tree' \in Trees /\ \A j \in Options \ {k} : tree'[j] = tree[j]
        /\ WriteDirties(tree, k, value) \in BOOLEAN
        /\ ~WriteDirties(tree, k, value) => tree' = tree
    BY <2>1, <2>2, WrittenType
  <2>4. tree' = tree \/ dirty'
    BY <2>1, <2>2, <2>3
  <2> QED
    BY <2>1, <2>2, <2>3, <2>4 DEF Changes
<1>7. ASSUME NEW k \in Options, UserResets(k)
      PROVE  Changes(k)
  <2>1. tree \in Trees /\ dirty \in BOOLEAN
    BY DEF Typed, TypeOK
  <2>2. /\ tree' = Reset(tree, k, Defaults)
        /\ dirty' = (dirty \/ ResetDirties(tree, k, Defaults))
        /\ touched' = touched \cup {k}
        /\ UNCHANGED <<disk, lastData, pendingWrite, unsaved>>
    BY <1>7 DEF UserResets, diskVars, saveVars, loadVars
  <2>3. /\ tree' \in Trees /\ \A j \in Options \ {k} : tree'[j] = tree[j]
        /\ ~tree'[k].override
        /\ ResetDirties(tree, k, Defaults) \in BOOLEAN
        /\ ~ResetDirties(tree, k, Defaults) => k \in Lists \/ tree' = tree
    BY <2>1, <2>2, ResetType
  <2>4. tree' = tree \/ dirty' \/ (k \in Lists /\ ~tree'[k].override)
    BY <2>1, <2>2, <2>3
  <2> QED
    BY <2>1, <2>2, <2>3, <2>4 DEF Changes
<1>8. CASE Editor
  <2>1. /\ edits' = edits + 1
        /\ UNCHANGED <<lastData, tree, touched, pendingWrite, dirty, unsaved>>
    BY <1>8 DEF Editor, EditInPlace, Replace, Remove, CreateDirectory, Elsewhere,
                saveVars, loadVars, treeVars
  <2>2. disk' = disk \/ disk' # NoFile
    BY <1>8, MayRemove = FALSE, FileAssumption
       DEF Editor, EditInPlace, Replace, Remove, CreateDirectory, NewFile
  <2> QED
    BY <2>1, <2>2 DEF Edited, Aside
<1>9. CASE UNCHANGED vars
  BY <1>9 DEF vars, diskVars, saveVars, loadVars, treeVars, Aside
<1> QED
  BY <1>1, <1>2, <1>3, <1>4, <1>5, <1>6, <1>7, <1>8, <1>9 DEF Next, Store, User

---------------------------------------------------------------------------
(* Memory and file                                                         *)

\* What the store read or wrote last, option by option
Last(k) == IF lastData = NoFile THEN Absent ELSE lastData[k]

\* A list at its default; the queued or saved one may be another.
ListReset(k) == k \in Lists /\ ~tree[k].override

\* The tree differs from what was read only where the user changed it, and so
\* does a write that waits.
Untouched ==
    /\ lastData \in Contents =>
          \A k \in Options \ touched : Json(tree)[k] = lastData[k]
    /\ pendingWrite # NoWrite =>
          \A k \in Options \ touched : pendingWrite[k] = Json(tree)[k]

\* A difference to the file is dirty, waits to be saved or was reported.
Saved ==
    ~dirty /\ pendingWrite = NoWrite /\ ~unsaved /\ lastData # Alien =>
        \A k \in Options : Json(tree)[k] = Last(k) \/ ListReset(k)

Memory == Present /\ Untouched /\ PendingIsCurrent /\ Saved

LEMMA JsonLocal ==
    ASSUME NEW k \in Options, tree'[k] = tree[k]
    PROVE  Json(tree)'[k] = Json(tree)[k]
BY DEF Json

\* Only a file makes a directory, and only a directory a file.
LEMMA DirectoryStep ==
    ASSUME Present, [Next]_vars, dir' = "missing"
    PROVE  dir = "missing" /\ disk' = disk
<1>1. CASE Flush
  BY <1>1 DEF Flush, QueueSave, SaveNow, SaveSucceeds, SaveFails, diskVars
<1>2. CASE SaveDebounceEnds
  BY <1>2 DEF SaveDebounceEnds, SaveNow, SaveSucceeds, SaveFails, diskVars
<1>3. CASE FileChanged \/ DirChanged
  BY <1>3 DEF FileChanged, DirChanged, WatchFile
<1>4. CASE LoadDebounceEnds
  BY <1>4 DEF LoadDebounceEnds, diskVars
<1>5. CASE User
  BY <1>5 DEF User, UserWrites, UserResets, diskVars
<1>6. CASE Editor
  BY <1>6 DEF Editor, EditInPlace, Replace, Remove, CreateDirectory, NewFile, Present
<1>7. CASE UNCHANGED vars
  BY <1>7 DEF vars, diskVars
<1> QED
  BY <1>1, <1>2, <1>3, <1>4, <1>5, <1>6, <1>7 DEF Next, Store

LEMMA PresentStep ==
    ASSUME MayRemove = FALSE, Typed, Present, [Next]_vars
    PROVE  Present'
<1>1. disk' = NoFile => lastData' = NoFile
  BY MemoryStep, FileAssumption
     DEF Present, Aside, Saves, GivesUp, Queues, Loads, Changes, Edited
<1>2. dir' = "missing" => disk' = NoFile
  BY DirectoryStep DEF Present
<1> QED
  BY <1>1, <1>2 DEF Present

LEMMA UntouchedStep ==
    ASSUME MayRemove = FALSE, Typed, Present, Untouched, [Next]_vars
    PROVE  Untouched'
<1>1. CASE Aside
  BY <1>1 DEF Aside, Untouched, Json
<1>2. ASSUME NEW data \in Contents, Saves(data)
      PROVE  Untouched'
  <2>1. Json(tree)' = Json(tree) /\ touched' = touched
    BY <1>2 DEF Saves, Json
  <2>2. \A k \in Options \ touched : data[k] = Json(tree)[k]
    BY <1>2 DEF Saves, Untouched
  <2> QED
    BY <1>2, <2>1, <2>2 DEF Saves, Untouched
<1>3. CASE GivesUp
  BY <1>3 DEF GivesUp, Untouched, Json
<1>4. CASE Queues
  <2>1. Json(tree)' = Json(tree) /\ touched' = touched
    BY <1>4 DEF Queues, Json
  <2> QED
    BY <1>4, <2>1 DEF Queues, Untouched
<1>5. CASE Loads
  <2>1. lastData' \in Contents => tree' = Loaded(lastData') /\ lastData' # NoFile
    BY <1>5, FileAssumption DEF Loads, Reload
  <2>2. lastData' \in Contents => \A k \in Options : Json(tree')[k] = lastData'[k]
    BY <2>1, LoadedType
  <2>3. pendingWrite' = NoWrite
    BY <1>5 DEF Loads
  <2>4. Json(tree)' = Json(tree')
    BY DEF Json
  <2> QED
    BY <2>2, <2>3, <2>4 DEF Untouched
<1>6. ASSUME NEW k \in Options, Changes(k)
      PROVE  Untouched'
  <2>1. \A j \in Options \ touched' : j \in Options \ touched /\ Json(tree)'[j] = Json(tree)[j]
    BY <1>6, JsonLocal DEF Changes
  <2> QED
    BY <1>6, <2>1 DEF Changes, Untouched
<1>7. CASE Edited
  BY <1>7 DEF Edited, Untouched, Json
<1> QED
  BY <1>1, <1>2, <1>3, <1>4, <1>5, <1>6, <1>7, MemoryStep

LEMMA CurrentStep ==
    ASSUME MayRemove = FALSE, Typed, Present, PendingIsCurrent, [Next]_vars
    PROVE  PendingIsCurrent'
<1>1. CASE Aside
  BY <1>1 DEF Aside, PendingIsCurrent, Json
<1>2. CASE (\E data \in Contents : Saves(data)) \/ GivesUp \/ Loads
  BY <1>2 DEF Saves, GivesUp, Loads, PendingIsCurrent
<1>3. CASE Queues
  <2>1. Json(tree)' = Json(tree)
    BY <1>3 DEF Queues, Json
  <2> QED
    BY <1>3, <2>1 DEF Queues, PendingIsCurrent
<1>4. ASSUME NEW k \in Options, Changes(k)
      PROVE  PendingIsCurrent'
  <2>1. \A j \in Options \ {k} : tree'[j] = tree[j] /\ Json(tree)'[j] = Json(tree)[j]
    BY <1>4, JsonLocal DEF Changes
  <2>2. CASE tree' = tree
    BY <1>4, <2>2 DEF Changes, PendingIsCurrent, Json
  <2>3. CASE dirty'
    BY <2>3 DEF PendingIsCurrent
  <2>4. CASE k \in Lists /\ ~tree'[k].override
    BY <1>4, <2>1, <2>4 DEF Changes, PendingIsCurrent
  <2> QED
    BY <1>4, <2>2, <2>3, <2>4 DEF Changes
<1>5. CASE Edited
  BY <1>5 DEF Edited, PendingIsCurrent, Json
<1> QED
  BY <1>1, <1>2, <1>3, <1>4, <1>5, MemoryStep

LEMMA SavedStep ==
    ASSUME MayRemove = FALSE, Typed, Present, PendingIsCurrent, Saved, [Next]_vars
    PROVE  Saved'
<1>1. CASE Aside
  BY <1>1 DEF Aside, Saved, Json, Last, ListReset
<1>2. ASSUME NEW data \in Contents, Saves(data)
      PROVE  Saved'
  <2>1. /\ Json(tree)' = Json(tree)
        /\ \A k \in Options : ListReset(k)' = ListReset(k) /\ Last(k)' = data[k]
    BY <1>2, FileAssumption DEF Saves, Json, ListReset, Last
  <2>2. CASE dirty'
    BY <2>2 DEF Saved
  <2>3. CASE data = Json(tree)
    BY <2>1, <2>3 DEF Saved
  <2>4. CASE ~dirty /\ data = pendingWrite /\ pendingWrite # NoWrite
    <3>1. \A k \in Options : data[k] = Json(tree)[k] \/ ListReset(k)
      BY <2>4 DEF PendingIsCurrent, ListReset
    <3> QED
      BY <2>1, <3>1 DEF Saved
  <2> QED
    BY <1>2, <2>2, <2>3, <2>4 DEF Saves
<1>3. CASE GivesUp
  BY <1>3 DEF GivesUp, Saved
<1>4. CASE Queues
  <2>1. pendingWrite' # NoWrite
    BY <1>4, JsonType, FileAssumption DEF Queues, Typed, TypeOK
  <2> QED
    BY <2>1 DEF Saved
<1>5. CASE Loads
  <2>1. CASE lastData' = Alien
    BY <2>1 DEF Saved
  <2>2. CASE lastData' # Alien
    <3>1. disk \in Contents /\ disk # NoFile /\ lastData' = disk
      BY <1>5, <2>2, FileAssumption DEF Loads, Typed, TypeOK
    <3>2. tree' = Loaded(disk)
      BY <1>5, <2>2, <3>1 DEF Loads, Reload
    <3>3. \A k \in Options : Json(tree)'[k] = Last(k)'
      BY <3>1, <3>2, LoadedType DEF Last, Json
    <3> QED
      BY <3>3 DEF Saved
  <2> QED
    BY <2>1, <2>2
<1>6. ASSUME NEW k \in Options, Changes(k)
      PROVE  Saved'
  <2>1. \A j \in Options : Last(j)' = Last(j)
    BY <1>6 DEF Changes, Last
  <2>2. CASE dirty'
    BY <2>2 DEF Saved
  <2>3. CASE tree' = tree /\ ~dirty'
    BY <1>6, <2>1, <2>3 DEF Changes, Saved, Json, ListReset
  <2>4. CASE k \in Lists /\ ~tree'[k].override /\ ~dirty'
    <3>1. ListReset(k)'
      BY <2>4 DEF ListReset
    <3>2. \A j \in Options \ {k} : /\ Json(tree)'[j] = Json(tree)[j]
                                  /\ ListReset(j)' = ListReset(j)
      BY <1>6, JsonLocal DEF Changes, ListReset
    <3> QED
      BY <1>6, <2>1, <2>4, <3>1, <3>2 DEF Changes, Saved
  <2> QED
    BY <1>6, <2>2, <2>3, <2>4 DEF Changes
<1>7. CASE Edited
  BY <1>7 DEF Edited, Saved, Json, Last, ListReset
<1> QED
  BY <1>1, <1>2, <1>3, <1>4, <1>5, <1>6, <1>7, MemoryStep

LEMMA MemoryInit == Init => Memory
<1> SUFFICES ASSUME Init PROVE Memory
  OBVIOUS
<1>1. Present /\ PendingIsCurrent
  BY DEF Init, Present, PendingIsCurrent
<1>2. lastData \in Contents => tree = Loaded(lastData)
  BY FileAssumption DEF Init
<1>3. lastData \in Contents => \A k \in Options : Json(tree)[k] = lastData[k]
  BY <1>2, LoadedType
<1>4. Untouched
  BY <1>3 DEF Init, Untouched
<1>5. lastData = NoFile => tree = Loaded(EmptyContent)
  BY FileAssumption DEF Init
<1>6. lastData = NoFile => \A k \in Options : Json(tree)[k] = Last(k)
  BY <1>5, EmptyType, LoadedType DEF Last, EmptyContent
<1>7. lastData \in Contents \cup {NoFile, Alien}
  BY FileAssumption DEF Init
<1>8. Saved
  BY <1>3, <1>6, <1>7, FileAssumption DEF Saved, Last
<1> QED
  BY <1>1, <1>4, <1>8 DEF Memory

LEMMA MemoryHolds ==
    ASSUME MayRemove = FALSE
    PROVE  Spec => [](Typed /\ Memory)
<1>1. Init => Typed /\ Memory
  BY TypedInit, MemoryInit
<1>2. Typed /\ Memory /\ [Next]_vars => Typed' /\ Memory'
  BY MayRemove = FALSE, TypedStep, PresentStep, UntouchedStep, CurrentStep, SavedStep
     DEF Memory
<1> QED
  BY <1>1, <1>2, PTL DEF Spec

\* Unless others remove the file, the write that waits is what the tree says:
\* what load() read since takes precedence over it.
THEOREM PendingStaysCurrent ==
    ASSUME MayRemove = FALSE
    PROVE  Spec => []PendingIsCurrent
<1>1. Typed /\ Memory => PendingIsCurrent
  BY DEF Memory
<1> QED
  BY <1>1, MemoryHolds, MayRemove = FALSE, PTL

\* Unless others remove the file, a save writes what the last load read, but for
\* the options the user has changed since: neither an unknown option nor a value
\* that is not decoded is lost.
THEOREM SavesKeepTheRest ==
    ASSUME MayRemove = FALSE
    PROVE  Spec => SavesOnlyWhatTheUserChanged
<1> DEFINE Keeps == disk' # disk /\ edits' = edits /\ lastData \in Contents =>
                        \A k \in Options \ touched : disk'[k] = lastData[k]
<1>1. Typed /\ Memory /\ [Next]_vars => [Keeps]_vars
  <2> SUFFICES ASSUME Typed, Memory, [Next]_vars, edits' = edits, lastData \in Contents,
                      disk' # disk
               PROVE  \A k \in Options \ touched : disk'[k] = lastData[k]
    OBVIOUS
  <2>1. ~Edited
    BY DEF Typed, TypeOK, Edited
  <2>2. ~Aside /\ ~GivesUp /\ ~Queues /\ ~Loads /\ \A k \in Options : ~Changes(k)
    BY DEF Aside, GivesUp, Queues, Loads, Changes
  <2>3. Present
    BY DEF Memory
  <2>4. PICK data \in Contents : Saves(data)
    BY <2>1, <2>2, <2>3, MayRemove = FALSE, MemoryStep
  <2>5. \A k \in Options \ touched : data[k] = Json(tree)[k]
    BY <2>4 DEF Saves, Memory, Untouched
  <2> QED
    BY <2>4, <2>5 DEF Saves, Memory, Untouched
<1> QED
  BY <1>1, MemoryHolds, MayRemove = FALSE, PTL DEF Spec, SavesOnlyWhatTheUserChanged

---------------------------------------------------------------------------
(* Watching the file                                                       *)

\* A change of the file is under way to the store, or was reported: the watcher
\* knows of it, or the directory's notice will tell of a file nobody watches.
Noticing ==
    /\ watched = "yes" /\ disk # lastData => fileNotice \/ loadDebounce \/ unread
    /\ watched = "gone" => fileNotice
    /\ dir = "watched" /\ watched = "no" /\ disk # NoFile => dirNotice

LEMMA SaveNowNoticing ==
    ASSUME Typed, Noticing, NEW data \in Contents, SaveNow(data), UNCHANGED loadDebounce
    PROVE  Noticing'
<1>1. CASE SaveSucceeds(data)
  BY <1>1 DEF SaveSucceeds, Noticing, Typed, TypeOK
<1>2. CASE SaveFails
  BY <1>2 DEF SaveFails, Noticing, diskVars
<1> QED
  BY <1>1, <1>2 DEF SaveNow

LEMMA NoticingStep ==
    ASSUME Typed, Noticing, [Next]_vars
    PROVE  Noticing'
<1>1. CASE Flush
  <2>1. Json(tree) \in Contents /\ UNCHANGED loadDebounce
    BY <1>1, JsonType DEF Flush, Typed, TypeOK
  <2>2. CASE QueueSave(Json(tree))
    BY <2>1, <2>2 DEF QueueSave, diskVars, Noticing
  <2> QED
    BY <1>1, <2>1, <2>2, SaveNowNoticing DEF Flush
<1>2. CASE SaveDebounceEnds
  <2>1. UNCHANGED loadDebounce
    BY <1>2 DEF SaveDebounceEnds
  <2>2. CASE pendingWrite # NoWrite /\ SaveNow(pendingWrite)
    BY <2>1, <2>2, SaveNowNoticing DEF Typed, TypeOK
  <2>3. CASE UNCHANGED <<pendingWrite, diskVars, unsaved, lastData, unread, faults>>
    BY <2>1, <2>3 DEF diskVars, Noticing
  <2> QED
    BY <1>2, <2>2, <2>3 DEF SaveDebounceEnds
<1>3. CASE FileChanged
  BY <1>3 DEF FileChanged, WatchFile, ScheduleLoad, Noticing, Typed, TypeOK
<1>4. CASE DirChanged
  <2>1. CASE watched = "no"
    BY <1>4, <2>1 DEF DirChanged, WatchFile, ScheduleLoad, Noticing, Typed, TypeOK
  <2>2. CASE watched # "no"
    BY <1>4, <2>2 DEF DirChanged, Noticing
  <2> QED
    BY <2>1, <2>2
<1>5. CASE LoadDebounceEnds
  <2>1. UNCHANGED <<dir, disk, watched, fileNotice, dirNotice>>
    BY <1>5 DEF LoadDebounceEnds, diskVars
  <2>2. disk' # lastData' => loadDebounce' \/ unread'
    BY <1>5 DEF LoadDebounceEnds, LoadNothing, LoadCannotOpen, LoadGarbled, LoadChange,
                LoadSame, LoadDone, diskVars
  <2> QED
    BY <2>1, <2>2 DEF Noticing
<1>6. CASE User
  BY <1>6 DEF User, UserWrites, UserResets, diskVars, loadVars, Noticing
<1>7. CASE Editor
  BY <1>7 DEF Editor, EditInPlace, Replace, Remove, CreateDirectory, NewFile, Elsewhere,
              loadVars, Noticing, Typed, TypeOK
<1>8. CASE UNCHANGED vars
  BY <1>8 DEF vars, diskVars, loadVars, Noticing
<1> QED
  BY <1>1, <1>2, <1>3, <1>4, <1>5, <1>6, <1>7, <1>8 DEF Next, Store

LEMMA NoticingInit == Init => Noticing
BY FileAssumption DEF Init, Noticing

LEMMA NoticingHolds == Spec => []Noticing
<1>1. Typed /\ Noticing /\ [Next]_vars => Typed' /\ Noticing'
  BY TypedStep, NoticingStep
<1> QED
  BY <1>1, TypedInit, NoticingInit, PTL DEF Spec

\* Unless others remove the file, no edit of a watched directory is missed, however
\* replacements, saves, notices and failures follow each other.
THEOREM NoEditIsMissed ==
    ASSUME MayRemove = FALSE
    PROVE  Spec => []EditsAreNoticed
<1>1. Typed /\ Memory /\ Noticing => EditsAreNoticed
  BY DEF Typed, TypeOK, Memory, Present, Noticing, EditsAreNoticed
<1> QED
  BY <1>1, MemoryHolds, NoticingHolds, MayRemove = FALSE, PTL

\* Unless others remove the file, once nothing is under way the settings in memory
\* are those in the file, option by option, or a failing load or save was reported.
THEOREM MemoryAndFileAgree ==
    ASSUME MayRemove = FALSE
    PROVE  Spec => []DifferencesAreReported
<1>1. Typed /\ Memory /\ EditsAreNoticed => DifferencesAreReported
  <2> SUFFICES ASSUME Typed, Memory, EditsAreNoticed, Quiet, Readable, ~unread, ~unsaved,
                      NEW k \in Options
               PROVE  Json(tree)[k] = OnDisk(k) \/ (k \in Lists /\ ~tree[k].override)
    BY DEF DifferencesAreReported
  <2>1. disk = lastData
    BY DEF Typed, TypeOK, Memory, Present, EditsAreNoticed, Quiet, Readable
  <2>2. Json(tree)[k] = Last(k) \/ ListReset(k)
    BY <2>1 DEF Memory, Saved, Quiet, Readable
  <2> QED
    BY <2>1, <2>2 DEF Last, OnDisk, ListReset
<1> QED
  BY <1>1, MemoryHolds, NoEditIsMissed, MayRemove = FALSE, PTL

\* Unless others remove the file, the store follows it: no write, no edit and no
\* difference between memory and file gets lost on the way.
THEOREM StoreFollowsItsFile ==
    ASSUME MayRemove = FALSE
    PROVE  Spec => []FileIsFollowed
<1>1. /\ TypeOK /\ NoForgottenWrite /\ PendingIsCurrent
      /\ EditsAreNoticed /\ DifferencesAreReported
      => FileIsFollowed
  BY DEF FileIsFollowed
<1> QED
  BY <1>1, TypeCorrect, WritesAreTried, PendingStaysCurrent, NoEditIsMissed,
     MemoryAndFileAgree, MayRemove = FALSE, PTL

---------------------------------------------------------------------------
(* Codecs: loading and saving lose nothing                                 *)

\* Among numbers there is a least one.
LEMMA LeastNumber ==
    ASSUME NEW T \in SUBSET Nat, T # {}
    PROVE  \E x \in T : \A y \in T : x <= y
    <1> DEFINE R == OpToRel(<, Nat)
    <1>1. IsWellFoundedOn(R, Nat)
        BY NatLessThanWellFounded
    <1>2. ASSUME NEW x \in Nat, NEW y \in Nat, y < x PROVE <<y, x>> \in R
        BY <1>2 DEF OpToRel
    <1> HIDE DEF R
    <1>3. PICK x \in T : \A y \in T : ~ (<<y, x>> \in R)
        BY <1>1, WFMin
    <1>4. ASSUME NEW y \in T PROVE x <= y
        <2>1. ~ (y < x)
            BY <1>2, <1>3
        <2> QED BY <2>1
    <1> QED BY <1>4

\* Multiplying by a positive number keeps the order.
LEMMA TimesKeepsOrder ==
    ASSUME NEW u \in Nat \ {0}, NEW m \in Int, NEW n \in Int
    PROVE  m * u <= n * u <=> m <= n
    <1>1. m <= n => m * u <= n * u
        <2> SUFFICES ASSUME m <= n PROVE m * u <= n * u
            OBVIOUS
        <2>1. (n - m) * u >= 0
            OBVIOUS
        <2>2. (n - m) * u = n * u - m * u
            OBVIOUS
        <2> QED BY <2>1, <2>2
    <1>2. ~ (m <= n) => ~ (m * u <= n * u)
        <2> SUFFICES ASSUME m >= n + 1 PROVE m * u >= n * u + 1
            OBVIOUS
        <2>1. (m - n) * u >= 1
            OBVIOUS
        <2>2. (m - n) * u = m * u - n * u
            OBVIOUS
        <2> QED BY <2>1, <2>2
    <1> QED BY <1>1, <1>2

\* What is a whole number of units, and how many
LEMMA WholeUnits ==
    ASSUME NEW u \in Nat \ {0}, NEW n \in Int
    PROVE  /\ n % u = 0 => n \div u \in Int /\ (n \div u) * u = n
           /\ (n * u) % u = 0 /\ (n * u) \div u = n
    <1>1. n % u = 0 => n \div u \in Int /\ (n \div u) * u = n
        <2>1. n \div u \in Int
            OBVIOUS
        <2>2. n % u = n - u * (n \div u)
            OBVIOUS
        <2> QED BY <2>1, <2>2
    <1> DEFINE q == (n * u) \div u
               r == (n * u) % u
    <1>2. q \in Int /\ r \in 0 .. u - 1 /\ n * u = u * q + r
        OBVIOUS
    <1> HIDE DEF q, r
    <1>3. (n - q) * u = r
        BY <1>2
    <1>4. n - q <= 0
        <2> SUFFICES ASSUME n - q >= 1 PROVE FALSE
            BY <1>2
        <2>1. 1 * u <= (n - q) * u
            BY <1>2, TimesKeepsOrder
        <2> QED BY <1>2, <1>3, <2>1
    <1>5. n - q >= 0
        <2> SUFFICES ASSUME n - q <= -1 PROVE FALSE
            BY <1>2
        <2>1. (n - q) * u <= (-1) * u
            BY <1>2, TimesKeepsOrder
        <2> QED BY <1>2, <1>3, <2>1
    <1>6. n = q
        BY <1>2, <1>4, <1>5
    <1>7. r = 0
        BY <1>2, <1>6
    <1> QED BY <1>1, <1>6, <1>7 DEF q, r

Types == Scalars \cup ListTypes

\* The enumerators of a value, and those a key may be
Named(v) == {i \in DOMAIN Enum : Enum[i].value = v}
Spelt(key) == {i \in DOMAIN Enum : Folded[Enum[i].key] = Folded[key]}

\* A key is that of one enumerator, or of none.
LEMMA KeysAreUnique ==
    ASSUME NEW i \in DOMAIN Enum
    PROVE  Enum[i].key \in Strings /\ Enum[i].value \in IntMin .. IntMax
           /\ DecodeEnum(Enum[i].key) = {Enum[i].value}
    <1> DEFINE S == [key : Strings, value : IntMin .. IntMax]
    <1>1. Enum[i] \in S
        <2>1. Enum \in Seq(S)
            BY CodecAssumption
        <2> HIDE DEF S
        <2> QED BY <2>1
    <1>2. \A j \in DOMAIN Enum : Folded[Enum[j].key] = Folded[Enum[i].key] <=> j = i
        BY CodecAssumption
    <1> QED BY <1>1, <1>2 DEF DecodeEnum

\* What a key is decoded to, if it is that of an enumerator
LEMMA EnumDecodes ==
    ASSUME NEW key \in Strings
    PROVE  DecodeEnum(key) = {} \/ \E v \in IntMin .. IntMax : DecodeEnum(key) = {v}
    <1>1. CASE Spelt(key) = {}
        BY <1>1 DEF Spelt, DecodeEnum
    <1>2. ASSUME NEW i \in Spelt(key)
          PROVE  \E v \in IntMin .. IntMax : DecodeEnum(key) = {v}
        <2>1. i \in DOMAIN Enum /\ Folded[Enum[i].key] = Folded[key]
            BY DEF Spelt
        <2>2. DecodeEnum(key) = DecodeEnum(Enum[i].key)
            BY <2>1 DEF DecodeEnum
        <2> QED BY <2>1, <2>2, KeysAreUnique
    <1> QED BY <1>1, <1>2

\* The value of an enumerator has the key of one that has the value.
LEMMA EnumEncodes ==
    ASSUME NEW v, Named(v) # {}
    PROVE  \E i \in Named(v) : EncodeEnum(v) = <<"string", Enum[i].key>>
    <1> DEFINE keys == Named(v)
               least == CHOOSE i \in keys : \A j \in keys : i <= j
    <1>1. keys \in SUBSET Nat
        BY CodecAssumption DEF Named
    <1>2. \E i \in keys : \A j \in keys : i <= j
        BY <1>1, LeastNumber
    <1>3. least \in keys
        BY <1>2
    <1>4. EncodeEnum(v) = <<"string", Enum[least].key>>
        BY DEF EncodeEnum, Named
    <1> QED BY <1>3, <1>4

\* There is no result, or it is a value of the type and stands for the JSON.
StandsFor(t, json) ==
    \/ Decode(t, json) = {}
    \/ \E v \in ValuesOf(t) : /\ Decode(t, json) = {v}
                              /\ t # "enum" => Encode(t, v) = json

ScalarStandsFor(t, json) ==
    \/ DecodeScalar(t, json) = {}
    \/ \E v \in ScalarValues(t) : /\ DecodeScalar(t, json) = {v}
                                  /\ t # "enum" => EncodeScalar(t, v) = json

LEMMA ScalarsAreLoaded ==
    ASSUME NEW t \in Scalars, NEW json \in Plain PROVE ScalarStandsFor(t, json)
    <1>1. CASE json = <<"null", 0>>
        BY <1>1 DEF ScalarStandsFor, DecodeScalar
    <1>2. ASSUME NEW x \in BOOLEAN, json = <<"bool", x>> PROVE ScalarStandsFor(t, json)
        BY <1>2 DEF ScalarStandsFor, DecodeScalar, EncodeScalar, ScalarValues, Scalars
    <1>3. ASSUME NEW x \in Strings, json = <<"string", x>> PROVE ScalarStandsFor(t, json)
        <2>1. CASE t = "enum"
            <3>1. DecodeScalar(t, json) = DecodeEnum(x) /\ ScalarValues(t) = IntMin .. IntMax
                BY <1>3, <2>1 DEF DecodeScalar, ScalarValues
            <3> QED BY <2>1, <3>1, EnumDecodes DEF ScalarStandsFor
        <2>2. CASE t # "enum"
            BY <1>3, <2>2 DEF ScalarStandsFor, DecodeScalar, EncodeScalar, ScalarValues, Scalars
        <2> QED BY <2>1, <2>2
    <1>4. ASSUME NEW x \in Numbers, json = <<"number", x>> PROVE ScalarStandsFor(t, json)
        <2>1. CASE t = "int"
            <3>1. DecodeScalar(t, json) = DecodeInt(x)
                BY <1>4, <2>1 DEF DecodeScalar
            <3>2. CASE x % Unit = 0 /\ x >= IntMin * Unit /\ x <= IntMax * Unit
                <4> DEFINE v == x \div Unit
                <4>1. Unit \in Nat \ {0} /\ x \in Int /\ IntMin \in Int /\ IntMax \in Int
                    BY CodecAssumption
                <4>2. v \in Int /\ v * Unit = x
                    BY <3>2, <4>1, WholeUnits
                <4>3. DecodeInt(x) = {v}
                    BY <3>2 DEF DecodeInt
                <4> HIDE DEF v
                <4>4. IntMin * Unit <= v * Unit /\ v * Unit <= IntMax * Unit
                    BY <3>2, <4>1, <4>2
                <4>5. v \in IntMin .. IntMax
                    BY <4>1, <4>2, <4>4, TimesKeepsOrder
                <4>6. /\ ScalarValues(t) = IntMin .. IntMax
                      /\ EncodeScalar(t, v) = <<"number", v * Unit>>
                    BY <2>1 DEF ScalarValues, EncodeScalar
                <4> QED BY <1>4, <3>1, <4>2, <4>3, <4>5, <4>6 DEF ScalarStandsFor
            <3>3. CASE ~ (x % Unit = 0 /\ x >= IntMin * Unit /\ x <= IntMax * Unit)
                BY <3>1, <3>3 DEF DecodeInt, ScalarStandsFor
            <3> QED BY <3>2, <3>3
        <2>2. CASE t # "int"
            BY <1>4, <2>2 DEF ScalarStandsFor, DecodeScalar, EncodeScalar, ScalarValues, Scalars
        <2> QED BY <2>1, <2>2
    <1> QED BY <1>1, <1>2, <1>3, <1>4 DEF Plain

\* A value that can be named is loaded from what it is saved as.
Keeps(t, v) == Decode(t, Encode(t, v)) = {v}

LEMMA ScalarsAreKept ==
    ASSUME NEW t \in Scalars, NEW v \in ScalarValues(t), t # "enum" \/ Named(v) # {}
    PROVE  DecodeScalar(t, EncodeScalar(t, v)) = {v}
    <1>1. CASE t = "int"
        <2>1. Unit \in Nat \ {0} /\ IntMin \in Int /\ IntMax \in Int
            BY CodecAssumption
        <2>2. v \in IntMin .. IntMax
            BY <1>1 DEF ScalarValues
        <2>3. v \in Int /\ IntMin <= v /\ v <= IntMax
            BY <2>1, <2>2
        <2>4. (v * Unit) % Unit = 0 /\ (v * Unit) \div Unit = v
            BY <2>1, <2>3, WholeUnits
        <2>5. IntMin * Unit <= v * Unit /\ v * Unit <= IntMax * Unit
            BY <2>1, <2>3, TimesKeepsOrder
        <2> DEFINE n == v * Unit
        <2>6. DecodeScalar(t, EncodeScalar(t, v)) = DecodeInt(n)
            BY <1>1 DEF DecodeScalar, EncodeScalar
        <2>7. n \in Int /\ IntMin * Unit \in Int /\ IntMax * Unit \in Int
            BY <2>1, <2>3
        <2> HIDE DEF n
        <2>8. n >= IntMin * Unit /\ n <= IntMax * Unit /\ n % Unit = 0 /\ n \div Unit = v
            BY <2>4, <2>5, <2>7 DEF n
        <2> QED BY <2>6, <2>8 DEF DecodeInt
    <1>2. CASE t = "enum"
        <2>1. PICK i \in Named(v) : EncodeEnum(v) = <<"string", Enum[i].key>>
            BY <1>2, EnumEncodes
        <2>2. DecodeScalar(t, EncodeScalar(t, v)) = DecodeEnum(Enum[i].key)
            BY <1>2, <2>1 DEF DecodeScalar, EncodeScalar
        <2>3. i \in DOMAIN Enum /\ Enum[i].value = v
            BY <2>1 DEF Named
        <2> QED BY <2>2, <2>3, KeysAreUnique
    <1>3. CASE t \notin {"int", "enum"}
        BY <1>3 DEF DecodeScalar, EncodeScalar, Scalars
    <1> QED BY <1>1, <1>2, <1>3

\* One value, and the value there is
LEMMA TheOne == ASSUME NEW v PROVE The({v}) = v
    BY DEF The

LEMMA ElementsAreScalars ==
    ASSUME NEW t \in ListTypes
    PROVE  ElementOf(t) \in Scalars /\ ElementOf(t) # "enum" /\ t \notin Scalars
    BY DEF ListTypes, ElementOf, Scalars

LEMMA ListsAreLoaded ==
    ASSUME NEW t \in ListTypes, NEW n \in 0 .. MaxList, NEW array \in [1 .. n -> Plain]
    PROVE  StandsFor(t, <<"array", array>>)
    <1> DEFINE e == ElementOf(t)
               w == [i \in DOMAIN array |-> The(DecodeScalar(e, array[i]))]
    <1>1. e \in Scalars /\ e # "enum"
        BY ElementsAreScalars
    <1>2. Decode(t, <<"array", array>>) = DecodeList(e, array)
        BY DEF Decode
    <1> HIDE DEF e
    <1>3. CASE \E i \in DOMAIN array : DecodeScalar(e, array[i]) = {}
        BY <1>2, <1>3 DEF DecodeList, StandsFor
    <1>4. CASE \A i \in DOMAIN array : DecodeScalar(e, array[i]) # {}
        <2>1. ASSUME NEW i \in 1 .. n
              PROVE  w[i] \in ScalarValues(e) /\ EncodeScalar(e, w[i]) = array[i]
            <3>1. array[i] \in Plain /\ DecodeScalar(e, array[i]) # {}
                BY <1>4
            <3>2. ScalarStandsFor(e, array[i])
                BY <1>1, <3>1, ScalarsAreLoaded
            <3>3. PICK v \in ScalarValues(e) :
                     DecodeScalar(e, array[i]) = {v} /\ EncodeScalar(e, v) = array[i]
                BY <1>1, <3>1, <3>2, Zenon DEF ScalarStandsFor
            <3>4. w[i] = v
                BY <3>3, TheOne
            <3> QED BY <3>3, <3>4
        <2>2. DecodeList(e, array) = {w}
            BY <1>4 DEF DecodeList
        <2>3. w = [i \in 1 .. n |-> w[i]] /\ DOMAIN w = 1 .. n
            OBVIOUS
        <2> HIDE DEF w
        <2>4. w \in [1 .. n -> ScalarValues(e)]
            BY <2>1, <2>3
        <2>5. w \in ValuesOf(t)
            BY <2>4 DEF ValuesOf, e
        <2>6. Encode(t, w) = <<"array", [i \in 1 .. n |-> EncodeScalar(e, w[i])]>>
            BY <2>3, ElementsAreScalars DEF Encode, e
        <2>7. [i \in 1 .. n |-> EncodeScalar(e, w[i])] = array
            BY <2>1
        <2> QED BY <1>2, <2>2, <2>5, <2>6, <2>7 DEF StandsFor
    <1> QED BY <1>3, <1>4

LEMMA ListsAreKept ==
    ASSUME NEW t \in ListTypes, NEW v \in ValuesOf(t) PROVE Keeps(t, v)
    <1> DEFINE e == ElementOf(t)
               array == [i \in DOMAIN v |-> EncodeScalar(e, v[i])]
               w == [i \in DOMAIN array |-> The(DecodeScalar(e, array[i]))]
    <1>1. e \in Scalars /\ e # "enum"
        BY ElementsAreScalars
    <1>2. PICK n \in 0 .. MaxList : v \in [1 .. n -> ScalarValues(e)]
        BY DEF ValuesOf
    <1>3. Encode(t, v) = <<"array", array>>
        BY DEF Encode
    <1>4. Decode(t, <<"array", array>>) = DecodeList(e, array)
        BY DEF Decode
    <1> HIDE DEF e
    <1>5. ASSUME NEW i \in 1 .. n PROVE DecodeScalar(e, array[i]) = {v[i]}
        <2>1. v[i] \in ScalarValues(e) /\ array[i] = EncodeScalar(e, v[i])
            BY <1>2
        <2> QED BY <1>1, <2>1, ScalarsAreKept
    <1>6. DecodeList(e, array) = {w}
        BY <1>2, <1>5 DEF DecodeList
    <1>7. w = v
        <2>1. ASSUME NEW i \in 1 .. n PROVE The(DecodeScalar(e, array[i])) = v[i]
            BY <1>5, TheOne
        <2> QED BY <1>2, <2>1
    <1> QED BY <1>3, <1>4, <1>6, <1>7 DEF Keeps

LEMMA JsonIsLoaded ==
    ASSUME NEW t \in Types, NEW json \in Jsons PROVE StandsFor(t, json)
    <1>1. CASE t \in Scalars /\ json \in Plain
        <2>1. ScalarStandsFor(t, json)
            BY <1>1, ScalarsAreLoaded
        <2>2. t \notin ListTypes
            BY <1>1 DEF Scalars, ListTypes
        <2> QED BY <2>1, <2>2 DEF StandsFor, ScalarStandsFor, Decode, Encode, ValuesOf
    <1>2. ASSUME t \in ListTypes, json \in Plain PROVE StandsFor(t, json)
        <2>1. json[1] # "array"
            BY <1>2 DEF Plain
        <2> QED BY <1>2, <2>1 DEF StandsFor, Decode
    <1>3. ASSUME NEW n \in 0 .. MaxList, NEW array \in [1 .. n -> Plain],
                 json = <<"array", array>>
          PROVE  StandsFor(t, json)
        <2>1. CASE t \in ListTypes
            BY <1>3, <2>1, ListsAreLoaded
        <2>2. CASE t \in Scalars
            <3>1. t \notin ListTypes
                BY <2>2 DEF Scalars, ListTypes
            <3>2. Decode(t, json) = {}
                BY <1>3, <3>1 DEF Decode, DecodeScalar
            <3> QED BY <3>2 DEF StandsFor
        <2> QED BY <2>1, <2>2 DEF Types
    <1> QED BY <1>1, <1>2, <1>3 DEF Types, Jsons

LEMMA ValuesAreKept ==
    ASSUME NEW t \in Types, NEW v \in ValuesOf(t), t # "enum" \/ Named(v) # {}
    PROVE  Keeps(t, v)
    <1>1. CASE t \in ListTypes
        BY <1>1, ListsAreKept
    <1>2. CASE t \in Scalars
        <2>1. t \notin ListTypes /\ v \in ScalarValues(t)
            BY <1>2 DEF Scalars, ListTypes, ValuesOf
        <2> QED BY <1>2, <2>1, ScalarsAreKept DEF Keeps, Decode, Encode
    <1> QED BY <1>1, <1>2 DEF Types

\* A value without a name is saved as null, and null is no value.
LEMMA SavedIsLoadedOrNull ==
    ASSUME NEW t \in Types, NEW v \in ValuesOf(t) PROVE StandsFor(t, Encode(t, v))
    <1>1. CASE t # "enum" \/ Named(v) # {}
        BY <1>1, ValuesAreKept DEF Keeps, StandsFor
    <1>2. CASE t = "enum" /\ Named(v) = {}
        BY <1>2 DEF Named, Encode, EncodeScalar, EncodeEnum, Decode, DecodeScalar, ListTypes,
                    StandsFor
    <1> QED BY <1>1, <1>2

\* What the file says is JSON it was given or what a value was saved as.
CodecInvariant ==
    /\ optionType \in Types
    /\ CodecTypeOK
    /\ saved \in Jsons \/ \E v \in ValuesOf(optionType) : saved = Encode(optionType, v)

LEMMA FileIsLoaded == CodecInvariant => StandsFor(optionType, saved)
    BY JsonIsLoaded, SavedIsLoadedOrNull DEF CodecInvariant

LEMMA CodecSteps == CodecInvariant /\ [CodecNext]_codecVars => CodecInvariant'
    <1> SUFFICES ASSUME CodecInvariant, [CodecNext]_codecVars PROVE CodecInvariant'
        OBVIOUS
    <1>1. CASE LoadOption
        <2>1. StandsFor(optionType, saved) /\ UNCHANGED <<optionType, saved>>
            BY <1>1, FileIsLoaded DEF LoadOption
        <2>2. CodecTypeOK'
            <3>1. CASE Decode(optionType, saved) = {}
                BY <1>1, <2>1, <3>1 DEF CodecInvariant, CodecTypeOK, LoadOption
            <3>2. ASSUME NEW v \in ValuesOf(optionType), Decode(optionType, saved) = {v}
                  PROVE  CodecTypeOK'
                <4>1. memory' = {v} /\ optionType' = optionType
                    BY <1>1, <2>1, <3>2 DEF LoadOption
                <4> QED BY <4>1 DEF CodecTypeOK
            <3> QED BY <2>1, <3>1, <3>2 DEF StandsFor
        <2> QED BY <2>1, <2>2 DEF CodecInvariant
    <1>2. ASSUME NEW value \in ValuesOf(optionType), WriteOption(value) PROVE CodecInvariant'
        BY <1>2 DEF WriteOption, CodecInvariant, CodecTypeOK
    <1>3. CASE SaveOption
        <2>1. The(memory) \in memory
            BY <1>3 DEF SaveOption, The
        <2>2. The(memory) \in ValuesOf(optionType)
            BY <2>1 DEF CodecInvariant, CodecTypeOK
        <2> QED BY <1>3, <2>2 DEF SaveOption, CodecInvariant, CodecTypeOK
    <1>4. CASE UNCHANGED codecVars
        BY <1>4 DEF codecVars, CodecInvariant, CodecTypeOK
    <1> QED BY <1>1, <1>2, <1>3, <1>4 DEF CodecNext

LEMMA CodecSuffices == CodecInvariant => CodecsAgree
    <1> SUFFICES ASSUME CodecInvariant PROVE CodecsAgree
        OBVIOUS
    <1>1. SavedIsLoaded
        <2> SUFFICES ASSUME NEW value \in memory, optionType # "enum" \/ Named(value) # {}
                     PROVE  Decode(optionType, Encode(optionType, value)) = {value}
            BY DEF SavedIsLoaded, Named
        <2>1. optionType \in Types /\ value \in ValuesOf(optionType)
            BY DEF CodecInvariant, CodecTypeOK
        <2> QED BY <2>1, ValuesAreKept DEF Keeps
    <1>2. LoadedIsSaved
        <2> SUFFICES ASSUME NEW value \in Decode(optionType, saved), optionType # "enum"
                     PROVE  Encode(optionType, value) = saved
            BY DEF LoadedIsSaved
        <2>1. PICK v \in ValuesOf(optionType) :
                 Decode(optionType, saved) = {v} /\ Encode(optionType, v) = saved
            BY FileIsLoaded, Zenon DEF StandsFor
        <2> QED BY <2>1
    <1> QED BY <1>1, <1>2 DEF CodecsAgree, CodecInvariant

\* Whatever JSON a file holds, a property gets a value of its type or keeps the
\* one it had, and no value changes by being saved and loaded, or loaded and
\* saved; for every range of an int, enum, set of strings and length of lists
\* (the codecs' encode and decode).
THEOREM NothingIsLostInJson == CodecSpec => []CodecsAgree
    <1>1. CodecInit => CodecInvariant
        BY DEF CodecInit, CodecInvariant, CodecTypeOK, Types
    <1> QED BY <1>1, CodecSteps, CodecSuffices, PTL DEF CodecSpec
===========================================================================
