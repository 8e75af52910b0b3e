------------------------------ MODULE Storage ------------------------------
(***************************************************************************)
(* The disks of the dashboard (Storage, TickingService): each tick finds   *)
(* the disks with mounted file systems, keeps the DiskInfos of those that  *)
(* stay, makes and drops others, and announces what changed.  QML shows    *)
(* the disk that the user has chosen, or the first.                        *)
(***************************************************************************)
EXTENDS Integers, SequencesExt, FiniteSetsExt

CONSTANTS
    Disks,       \* numbers, in the order of the names
    Intervals,   \* that the settings may ask for, in ms
    None

StorageAssumption ==
    /\ Disks \subseteq Nat /\ None \notin Nat /\ Intervals \subseteq Int

\* A DiskInfo: its disk, and which of those made for it
Infos == Disks \X (1..3)
DiskOf(i) == i[1]

VARIABLES
    found, roots,         \* disks with mounted file systems, and with /
    disks, manual,        \* m_disks, m_manualPrimaryDisk
    hasRoot,              \* DiskInfos with m_hasRoot
    dying,                \* DiskInfos that will be deleted
    interval, running, timer,  \* m_interval, m_running, and m_timer's interval or 0
    shownDisks, shownManual, shownPrimary  \* as they were when announced last
external == <<found, roots>>
ticking == <<interval, running, timer>>
vars == <<external, disks, manual, hasRoot, dying, ticking, shownDisks, shownManual, shownPrimary>>

\* primaryDisk
Primary(ds, m) == IF m # None THEN m ELSE IF ds = <<>> THEN None ELSE ds[1]

\* The survivor, or a new DiskInfo
InfoOf(d) ==
    IF \E i \in ToSet(disks) : DiskOf(i) = d THEN CHOOSE i \in ToSet(disks) : DiskOf(i) = d
    ELSE <<d, Min({n \in 1..3 : <<d, n>> \notin dying})>>

\* The choice is forgotten when its disk goes.
Kept(next) == IF manual \in next THEN manual ELSE None

\* sameOrder
SameOrder(a, b) == a = b

\* -------------------------------------------------------------- actions

\* tick.  The primary disk before is asked for when the choice is forgotten.
Refresh ==
    LET next == {InfoOf(d) : d \in found}
        rooted == {i \in next : DiskOf(i) \in roots}
        Before(a, b) == IF (a \in rooted) # (b \in rooted) THEN a \in rooted ELSE DiskOf(a) < DiskOf(b)
        prevPrimary == Primary(disks, Kept(next)) IN
    /\ disks' = SetToSortSeq(next, Before)
    /\ hasRoot' = rooted
    /\ manual' = Kept(next)
    /\ dying' = dying \cup (ToSet(disks) \ next)
    /\ shownDisks' = IF SameOrder(disks, disks') THEN shownDisks ELSE disks'
    /\ shownManual' = IF manual' = manual THEN shownManual ELSE manual'
    /\ shownPrimary' = IF Primary(disks', manual') = prevPrimary THEN shownPrimary
                       ELSE Primary(disks', manual')

\* The timer fires; what was to be deleted has been by then.
Tick ==
    /\ timer > 0 /\ dying = {}
    /\ Refresh
    /\ UNCHANGED <<external, ticking>>

\* start
Start ==
    /\ ~running /\ dying = {}
    /\ running' = TRUE /\ timer' = interval
    /\ Refresh
    /\ UNCHANGED <<external, interval>>

\* stop
Stop ==
    /\ running
    /\ running' = FALSE /\ timer' = 0
    /\ UNCHANGED <<external, disks, manual, hasRoot, dying, interval, shownDisks, shownManual, shownPrimary>>

\* applyInterval: what is not positive is no interval.
ApplyInterval(ms) ==
    /\ ms > 0 /\ ms # interval
    /\ interval' = ms /\ timer' = IF running THEN ms ELSE timer
    /\ UNCHANGED <<external, disks, manual, hasRoot, dying, running, shownDisks, shownManual, shownPrimary>>

\* setManualPrimaryDisk, with a disk from the menu
SetManualPrimaryDisk(i) ==
    /\ manual # i
    /\ manual' = i /\ shownManual' = i /\ shownPrimary' = Primary(disks, i)
    /\ UNCHANGED <<external, disks, hasRoot, dying, ticking, shownDisks>>

\* deleteLater; pointers of QML to it become null.
Delete(i) ==
    /\ i \in dying /\ dying' = dying \ {i}
    /\ manual' = (IF manual = i THEN None ELSE manual)
    /\ shownPrimary' = IF shownPrimary = i THEN None ELSE shownPrimary
    /\ UNCHANGED <<external, disks, hasRoot, ticking, shownDisks, shownManual>>

\* File systems are mounted and unmounted.
Mount(fs, rs) ==
    /\ rs \subseteq fs /\ <<fs, rs>> # external
    /\ found' = fs /\ roots' = rs
    /\ UNCHANGED <<disks, manual, hasRoot, dying, ticking, shownDisks, shownManual, shownPrimary>>

Init ==
    /\ found \in SUBSET Disks /\ roots \in SUBSET found
    /\ disks = <<>> /\ manual = None /\ hasRoot = {} /\ dying = {}
    /\ interval = 1000 /\ running = FALSE /\ timer = 0
    /\ shownDisks = <<>> /\ shownManual = None /\ shownPrimary = None

Chooses == \E i \in ToSet(disks) : SetManualPrimaryDisk(i)

Next ==
    \/ Tick
    \/ Start
    \/ Stop
    \/ Chooses
    \/ \E i \in dying : Delete(i)
    \/ \E ms \in Intervals : ApplyInterval(ms)
    \/ \E fs, rs \in SUBSET Disks : Mount(fs, rs)

Spec == Init /\ [][Next]_vars

\* The timer fires and the loop deletes what was left to it.
FairSpec == Spec /\ WF_vars(Tick) /\ \A i \in Infos : WF_vars(Delete(i))

\* --------------------------------------------------------- properties

\* There is one DiskInfo for a disk, none of those listed or chosen will be
\* deleted, and the timer runs at the interval while the service is used.
TypeOK ==
    /\ ToSet(disks) \subseteq Infos /\ dying \subseteq Infos /\ hasRoot \subseteq Infos
    /\ \A i, j \in ToSet(disks) : DiskOf(i) = DiskOf(j) => i = j
    /\ (ToSet(disks) \cup {manual}) \cap dying = {}
    /\ timer = IF running THEN interval ELSE 0

\* What QML was told of the list and of the choice is what they are, whatever
\* came, went or moved to the front (sameOrder, manualCleared).
ListIsAnnounced == shownDisks = disks /\ shownManual = manual

\* The user's choice is forgotten only when its disk goes: a tick keeps it
\* though all disks are collected anew (existing.take).
KeepsTheChoice ==
    manual # None /\ (\E i \in ToSet(disks') : DiskOf(i) = DiskOf(manual)) /\ ~Chooses
        => manual' = manual
ChoiceSurvives == [][KeepsTheChoice]_vars

\* While the service is used the disks become those that are mounted, those
\* with / first.
DisksArrive ==
    <>[][UNCHANGED external]_vars /\ <>[]running =>
        <>[](/\ {DiskOf(i) : i \in ToSet(disks)} = found
             /\ \A m, n \in 1..Len(disks) :
                  DiskOf(disks[m]) \in roots /\ DiskOf(disks[n]) \notin roots => m < n)

\* primaryDisk is declared with primaryDiskChanged: what QML shows of it is
\* what it is.
PrimaryIsAnnounced == shownPrimary = Primary(disks, manual)
=============================================================================
