-------------------------- MODULE FileSystemModel --------------------------
(***************************************************************************)
(* FileSystemModel: the files of a directory as a sorted list model. Scans *)
(* run on worker threads; what a scan found is compared with the entries   *)
(* there were when it started and applied later, on the main thread.       *)
(* Directories are watched, with their subdirectories in recursive mode.   *)
(*                                                                         *)
(* The settings but path are constant, as in the shell. Files are numbers, *)
(* ordered as compareEntries orders them; those that filters leave out are *)
(* not modelled. A scan reads its directory at one moment.                 *)
(***************************************************************************)
EXTENDS Integers, Sequences, SequencesExt

CONSTANTS
    Roots,         \* directories that path may name
    Parent,        \* the root of each subdirectory
    DirOf,         \* the directory of each file
    None,          \* the empty path
    Recursive, WatchChanges, SortReverse,
    MaxEvents      \* bound: changes of path and of the disk

Subdirs == DOMAIN Parent
Files == DOMAIN DirOf

FileSystemModelAssumption ==
    /\ None \notin Roots \cup Subdirs /\ Subdirs \cap Roots = {}
    /\ Parent \in [Subdirs -> Roots] /\ DirOf \in [Files -> Roots \cup Subdirs]
    /\ Files \subseteq Nat /\ MaxEvents \in Nat
    /\ {Recursive, WatchChanges, SortReverse} \subseteq BOOLEAN

VARIABLES
    path, entries,
    futures,       \* m_futures: the scan of a directory
    scans,         \* scans that have not called back
    watched,       \* the directories of m_watcher
    vanished,      \* those of them that were removed, which it has not heard of
    watchScans,    \* searches for subdirectories to watch
    rows,          \* what a view made of the row signals
    dirs, files,   \* the disk
    changed,       \* directories with a notification under way
    used

object == <<path, entries, futures, scans, watched, vanished, watchScans, rows>>
vars == <<object, dirs, files, changed, used>>

Before(a, b) == IF SortReverse THEN a > b ELSE a < b

\* What an iteration over a directory finds
Tree(dir) == {dir} \cup IF Recursive THEN {s \in dirs : Parent[s] = dir} ELSE {}
FilesOf(dir) == {f \in files : DirOf[f] \in Tree(dir)}

Init ==
    /\ path = None /\ entries = << >> /\ rows = << >>
    /\ futures = << >> /\ scans = {} /\ watched = {} /\ vanished = {} /\ watchScans = {}
    /\ dirs \in SUBSET Subdirs
    /\ files \in SUBSET {f \in Files : DirOf[f] \in Roots \cup dirs}
    /\ changed = {} /\ used = 0

---------------------------------------------------------------------------
(* Changes of the entries                                                  *)

Cut(s, first, last) == SubSeq(s, 1, first - 1) \o SubSeq(s, last + 1, Len(s))

RemovedRows(s, first, last) == Cut(s, first, last)

\* Rows removed in runs, from the last to the first; what is signalled is
\* what a view removes.
RECURSIVE RemoveRuns(_, _)
RemoveRuns(s, gone) ==
    LET at == {i \in DOMAIN s.entries : s.entries[i] \in gone}
        last == Max(at)
        first == Min({i \in at : i..last \subseteq at})
    IN  IF at = {} THEN s
        ELSE RemoveRuns([entries |-> Cut(s.entries, first, last), rows |-> RemovedRows(s.rows, first, last)],
                        gone)

LowerBound(s, f) == Cardinality({i \in DOMAIN s : Before(s[i], f)}) + 1

\* The entries of a run stay before the entry at row.
RunLength(new, s, row) ==
    Max({n \in 1..Len(new) : \A k \in 2..n : row > Len(s) \/ Before(new[k], s[row])})

Inserted(s, row, run) == SubSeq(s, 1, row - 1) \o run \o SubSeq(s, row, Len(s))

RECURSIVE InsertRuns(_, _)
InsertRuns(s, new) ==
    LET row == LowerBound(s.entries, new[1])
        n == RunLength(new, s.entries, row)
        run == SubSeq(new, 1, n)
        after == Inserted(s.entries, row, run)
    IN  IF new = << >> THEN s
        ELSE InsertRuns([entries |-> after,
                         rows |-> Inserted(s.rows, row, SubSeq(after, row, row + n - 1))],
                        SubSeq(new, n + 1, Len(new)))

Changed(removed, added) ==
    InsertRuns(RemoveRuns([entries |-> entries, rows |-> rows], removed),
               SetToSortSeq(added, Before))

ApplyChanges(removed, added) ==
    \E s \in {Changed(removed, added)} : entries' = s.entries /\ rows' = s.rows

---------------------------------------------------------------------------
(* Scans and watches                                                       *)

Cancelled(all, ids) == {IF s.id \in ids THEN [s EXCEPT !.cancelled = TRUE] ELSE s : s \in all}

\* updateEntriesForDir: a scan of the same directory is cancelled.
UpdateEntriesForDir(dir, registered, others) ==
    LET id == CHOOSE n \in 1..Cardinality(scans) + 1 : \A s \in scans : s.id # n
        same == {registered[d] : d \in DOMAIN registered \cap {dir}}
    IN  /\ scans' = Cancelled(others, same)
                    \cup {[id |-> id, dir |-> dir, old |-> Range(entries), found |-> {},
                           finished |-> FALSE, cancelled |-> FALSE]}
        /\ futures' = (dir :> id) @@ registered

WatchDirIfRecursive(root, dir) ==
    IF Recursive /\ WatchChanges
    THEN {[root |-> root, dir |-> dir, found |-> {}, finished |-> FALSE]} ELSE {}

---------------------------------------------------------------------------
(* The owner and the disk                                                  *)

Event == used < MaxEvents /\ used' = used + 1

\* update: updateWatcher and updateEntries
SetPath(p) ==
    LET searched == IF WatchChanges /\ p # None THEN WatchDirIfRecursive(p, p) ELSE {} IN
    /\ Event
    /\ p # path
    /\ path' = p
    /\ watched' = IF WatchChanges /\ p # None THEN {p} ELSE {}
    /\ vanished' = {}
    /\ watchScans' = watchScans \cup searched
    /\ changed' = {}
    /\ IF p = None
       THEN entries' = << >> /\ rows' = << >> /\ UNCHANGED <<scans, futures>>
       ELSE /\ UpdateEntriesForDir(p, << >>, Cancelled(scans, Range(futures)))
            /\ UNCHANGED <<entries, rows>>
    /\ UNCHANGED <<dirs, files>>

Notified(dir) == changed \cup ({dir} \cap (watched \ vanished))

FileAppears(f) ==
    /\ Event
    /\ f \notin files /\ DirOf[f] \in Roots \cup dirs
    /\ files' = files \cup {f} /\ changed' = Notified(DirOf[f])
    /\ UNCHANGED <<object, dirs>>

FileDisappears(f) ==
    /\ Event
    /\ f \in files
    /\ files' = files \ {f} /\ changed' = Notified(DirOf[f])
    /\ UNCHANGED <<object, dirs>>

SubdirAppears(s) ==
    /\ Event
    /\ s \notin dirs
    /\ dirs' = dirs \cup {s} /\ changed' = Notified(Parent[s])
    /\ UNCHANGED <<object, files>>

\* A subdirectory is removed with its files. The watcher is told of it, too,
\* and has it in its list until then.
SubdirDisappears(s) ==
    /\ Event
    /\ s \in dirs
    /\ dirs' = dirs \ {s} /\ files' = {f \in files : DirOf[f] # s}
    /\ changed' = Notified(Parent[s]) \cup Notified(s)
    /\ vanished' = vanished \cup ({s} \cap watched)
    /\ UNCHANGED <<path, entries, futures, scans, watched, watchScans, rows>>

---------------------------------------------------------------------------
(* Workers and the main thread                                             *)

ScanFinishes(s) ==
    /\ s \in scans /\ ~s.finished
    /\ scans' = (scans \ {s}) \cup
                {[s EXCEPT !.finished = TRUE, !.found = IF s.cancelled THEN {} ELSE FilesOf(s.dir)]}
    /\ UNCHANGED <<path, entries, futures, watched, vanished, watchScans, rows, dirs, files, changed, used>>

Unregistered(dir) == [d \in DOMAIN futures \ {dir} |-> futures[d]]

\* onCanceled, too, takes the scan of the directory from m_futures.
ScanCallsBack(s) ==
    /\ s \in scans /\ s.finished
    /\ scans' = scans \ {s}
    /\ futures' = Unregistered(s.dir)
    /\ IF s.cancelled THEN UNCHANGED <<entries, rows>>
       ELSE ApplyChanges(s.old \ s.found, s.found \ s.old)
    /\ UNCHANGED <<path, watched, vanished, watchScans, dirs, files, changed, used>>

\* The watcher tells of what went before what came after it, and forgets it.
DirectoryChanged(dir) ==
    /\ dir \in IF vanished = {} THEN changed ELSE vanished
    /\ watched' = watched \ (vanished \cap {dir})
    /\ vanished' = vanished \ {dir}
    /\ changed' = changed \ {dir}
    /\ watchScans' = watchScans \cup WatchDirIfRecursive(path, dir)
    /\ UpdateEntriesForDir(dir, futures, scans)
    /\ UNCHANGED <<path, entries, rows, dirs, files, used>>

WatchScanFinishes(w) ==
    /\ w \in watchScans /\ ~w.finished
    /\ watchScans' = (watchScans \ {w}) \cup
                     {[w EXCEPT !.finished = TRUE, !.found = Tree(w.dir) \ {w.dir}]}
    /\ UNCHANGED <<path, entries, futures, scans, watched, vanished, rows, dirs, files, changed, used>>

StillWanted(w) == w.root = path

WatchScanCallsBack(w) ==
    /\ w \in watchScans /\ w.finished
    /\ watchScans' = watchScans \ {w}
    /\ watched' = IF StillWanted(w) THEN watched \cup (w.found \cap dirs) ELSE watched
    /\ UNCHANGED <<path, entries, futures, scans, vanished, rows, dirs, files, changed, used>>

Scans == \E s \in scans : ScanFinishes(s) \/ ScanCallsBack(s)
Watches == \E w \in watchScans : WatchScanFinishes(w) \/ WatchScanCallsBack(w)
Notifies == \E d \in changed : DirectoryChanged(d)

Next ==
    \/ \E p \in Roots \cup {None} : SetPath(p)
    \/ \E f \in Files : FileAppears(f) \/ FileDisappears(f)
    \/ \E s \in Subdirs : SubdirAppears(s) \/ SubdirDisappears(s)
    \/ Scans \/ Watches \/ Notifies

\* Worker threads and the event loop do not stop.
Fairness == WF_vars(Scans) /\ WF_vars(Watches) /\ WF_vars(Notifies)

Spec == Init /\ [][Next]_vars
FairSpec == Spec /\ Fairness

---------------------------------------------------------------------------
(* Properties                                                              *)

\* What is registered is a scan of that directory that is under way and was
\* not cancelled (types of the members).
TypeOK ==
    /\ path \in Roots \cup {None} /\ Range(entries) \subseteq Files
    /\ watched \subseteq Roots \cup Subdirs
    /\ changed \subseteq watched /\ vanished \subseteq changed \cap Subdirs
    /\ \A d \in DOMAIN futures :
          \E s \in scans : s.id = futures[d] /\ s.dir = d /\ ~s.cancelled
    /\ \A s, t \in scans : s.id = t.id => s = t

\* The entries stay sorted, whichever scans are applied in whichever order,
\* those that find what another one already added included: the runs that
\* applyChanges inserts are where lower_bound wants each of their entries.
EntriesAreSorted ==
    \A i, j \in DOMAIN entries : i < j => ~Before(entries[j], entries[i])

\* A view that follows the row signals has the same rows.
RowsAreTheEntries == rows = entries

\* Nothing but directories of the path is watched: a search for subdirectories
\* that ends behind a change of path adds none.
WatchesAreOfThePath ==
    watched \subseteq {path} \cup {s \in Subdirs : Parent[s] = path}

\* A subdirectory comes to be watched, when ever it was made, one that is made
\* again where another was removed included.
SubdirsGetWatched ==
    \A s \in Subdirs :
        []<>(Recursive /\ s \in dirs /\ path = Parent[s] => s \in watched \ vanished)
=============================================================================
