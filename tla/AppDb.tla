------------------------------- MODULE AppDb -------------------------------
(***************************************************************************)
(* The applications of the launcher (AppDb, AppEntry): one entry per id of *)
(* the desktop entries, made and dropped a while after these change, with  *)
(* how often it was started from a database, sorted by favourites, starts  *)
(* and name.  An AppEntry whose desktop entry is destroyed is deleted, and *)
(* removed, later.                                                         *)
(***************************************************************************)
EXTENDS Integers, Sequences, FiniteSets

CONSTANTS
    Ids,            \* numbers, in the order of the names
    DesktopEntries,
    IdOf,           \* id of each desktop entry
    Paths,          \* of databases on disk
    Unset, Memory,  \* no path or desktop entry, and :memory:
    MaxStarts       \* bound on starts of an application

ASSUME AppDbAssumption ==
    /\ Ids \subseteq Nat /\ IsFiniteSet(Ids) /\ IdOf \in [DesktopEntries -> Ids]
    /\ {Unset, Memory} \cap (Paths \cup DesktopEntries) = {} /\ Unset # Memory
    /\ MaxStarts \in Nat

VARIABLES
    desktopEntries, \* m_entries
    leftOut,        \* desktop entries no longer among them, hidden or removed,
                    \* that are not destroyed
    gone,           \* those that were destroyed
    appsTimer,      \* m_timer runs
    apps,           \* m_apps: id -> desktop entry and frequency
    dying,          \* ids of AppEntries that will be deleted
    dbPath, table,  \* m_path, and what each database has
    favourites,     \* ids that m_favouriteAppsRegex matches
    shownApps,      \* what apps was at the last appsChanged
    retained        \* history: ids whose AppEntry the last updateApps kept,
                    \* though it is of another desktop entry than there is now
appVars == <<desktopEntries, leftOut, gone, appsTimer, apps, dying, dbPath, table,
             favourites, shownApps, retained>>

Of(es) == {IdOf[e] : e \in es}
Known == DOMAIN apps
Forgotten(as, id) == [i \in DOMAIN as \ {id} |-> as[i]]

\* The database that is open: before a path is set it is in memory, too.
Open(p) == IF p = Unset THEN Memory ELSE p

\* ------------------------------------------------------------ the list

\* An AppEntry whose desktop entry was destroyed has neither id nor name.
Nameless(as, i) == as[i].entry = Unset

\* isFavourite
Favoured(as, favs, i) == i \in favs /\ ~Nameless(as, i)

\* A favourite first, then what was started more often, then by name; of two
\* that have no name any order will do.
Before(as, favs, a, b) ==
    \/ Favoured(as, favs, a) /\ ~Favoured(as, favs, b)
    \/ /\ Favoured(as, favs, a) <=> Favoured(as, favs, b)
       /\ \/ as[a].frequency > as[b].frequency
          \/ /\ as[a].frequency = as[b].frequency
             /\ \/ Nameless(as, a) /\ ~Nameless(as, b)
                \/ (Nameless(as, a) <=> Nameless(as, b)) /\ a < b

\* getSortedApps
Sorted(as, favs) ==
    CHOOSE s \in [1..Cardinality(DOMAIN as) -> DOMAIN as] :
        \A i, j \in DOMAIN s : i < j => Before(as, favs, s[i], s[j])

\* appsChanged
ShowApps(as, favs) == shownApps' = Sorted(as, favs)

\* appsChanged, if the order is not what it was before the frequencies changed
ShowIfMoved(as) ==
    IF Sorted(as, favourites) = Sorted(apps, favourites) THEN UNCHANGED shownApps
    ELSE ShowApps(as, favourites)

\* ------------------------------------------------------------ actions

\* setEntries: what is hidden now lives on and may come back, what was removed
\* may come back as another desktop entry of its id.
SetEntries(es) ==
    /\ es # desktopEntries /\ es \cap gone = {}
    /\ \A e, f \in es : IdOf[e] = IdOf[f] => e = f
    /\ desktopEntries' = es
    /\ leftOut' = (leftOut \cup desktopEntries) \ es
    /\ appsTimer' = TRUE
    /\ UNCHANGED <<gone, apps, dying, dbPath, table, favourites, shownApps, retained>>

\* A desktop entry is destroyed: the AppEntry that is of it is to be deleted.
EntryDestroyed(e) ==
    /\ e \in leftOut
    /\ leftOut' = leftOut \ {e} /\ gone' = gone \cup {e}
    /\ dying' = dying \cup {i \in Known : apps[i].entry = e}
    /\ apps' = [i \in Known |-> IF apps[i].entry = e THEN [apps[i] EXCEPT !.entry = Unset]
                                ELSE apps[i]]
    /\ UNCHANGED <<desktopEntries, appsTimer, dbPath, table, favourites, shownApps, retained>>

\* An AppEntry is deleted and forgotten by nobody.
MutAppDestroyed(id) ==
    /\ id \in dying /\ dying' = dying \ {id}
    /\ UNCHANGED <<desktopEntries, leftOut, gone, appsTimer, dbPath, table,
                   favourites, apps, shownApps, retained>>

\* An AppEntry is deleted: whatever has its id is removed.
AppDestroyed(id) ==
    /\ id \in dying /\ dying' = dying \ {id}
    /\ apps' = Forgotten(apps, id)
    /\ IF id \in Known THEN ShowApps(apps', favourites) ELSE UNCHANGED shownApps
    /\ UNCHANGED <<desktopEntries, leftOut, gone, appsTimer, dbPath, table, favourites,
                   retained>>

\* getFrequency
StartsOf(p, id) == table[Open(p)][id]

\* updateApps, a while after the last change: an id that is known keeps its
\* AppEntry, whichever desktop entry that is of.  What an earlier one erased was
\* deleted in the turns of the loop since.
UpdateApps ==
    /\ appsTimer /\ dying \subseteq Known
    /\ appsTimer' = FALSE
    /\ apps' = [i \in Of(desktopEntries) |->
                  IF i \in Known THEN apps[i]
                  ELSE [entry |-> CHOOSE e \in desktopEntries : IdOf[e] = i,
                        frequency |-> StartsOf(dbPath, i)]]
    /\ dying' = dying \cup (Known \ Of(desktopEntries))
    /\ retained' = {i \in Known \cap Of(desktopEntries) : apps[i].entry \notin desktopEntries}
    /\ IF DOMAIN apps' = Known THEN UNCHANGED shownApps ELSE ShowApps(apps', favourites)
    /\ UNCHANGED <<desktopEntries, leftOut, gone, dbPath, table, favourites>>

\* setPath: what was in memory is lost.  The database knows nothing of an
\* AppEntry that has no id.
SetPath(new) ==
    /\ new # dbPath
    /\ dbPath' = new
    /\ table' = [table EXCEPT ![Memory] = [i \in Ids |-> 0]]
    /\ apps' = [i \in Known |-> [apps[i] EXCEPT !.frequency =
                    IF Nameless(apps, i) THEN 0 ELSE table'[new][i]]]
    /\ ShowIfMoved(apps')
    /\ UNCHANGED <<desktopEntries, leftOut, gone, appsTimer, dying, favourites, retained>>

\* incrementFrequency
Increment(id) ==
    /\ table[Open(dbPath)][id] < MaxStarts
    /\ table' = [table EXCEPT ![Open(dbPath)][id] = @ + 1]
    /\ IF id \notin Known THEN UNCHANGED <<apps, shownApps>>
       ELSE /\ apps' = [apps EXCEPT ![id].frequency = @ + 1]
            /\ ShowIfMoved(apps')
    /\ UNCHANGED <<desktopEntries, leftOut, gone, appsTimer, dying, dbPath, favourites,
                   retained>>

SetFavourites(favs) ==
    /\ favs # favourites /\ favourites' = favs
    /\ ShowApps(apps, favs)
    /\ UNCHANGED <<desktopEntries, leftOut, gone, appsTimer, apps, dying, dbPath, table,
                   retained>>

AppsInit ==
    /\ desktopEntries = {} /\ leftOut = {} /\ gone = {} /\ appsTimer = FALSE
    /\ apps = [i \in {} |-> 0] /\ dying = {}
    /\ dbPath = Unset
    /\ table = [p \in Paths \cup {Memory} |-> [i \in Ids |-> 0]]
    /\ favourites = {} /\ shownApps = <<>> /\ retained = {}

AppsNext ==
    \/ \E es \in SUBSET DesktopEntries : SetEntries(es)
    \/ \E e \in DesktopEntries : EntryDestroyed(e)
    \/ \E id \in Ids : AppDestroyed(id) \/ Increment(id)
    \/ UpdateApps
    \/ \E new \in Paths \cup {Memory} : SetPath(new)
    \/ \E favs \in SUBSET Ids : SetFavourites(favs)

AppsSpec == AppsInit /\ [][AppsNext]_appVars

\* --------------------------------------------------------- properties

AppsTypeOK ==
    /\ desktopEntries \subseteq DesktopEntries /\ leftOut \subseteq DesktopEntries
    /\ gone \subseteq DesktopEntries /\ appsTimer \in BOOLEAN
    /\ Known \subseteq Ids
    /\ \A i \in Known : apps[i] \in [entry : (DesktopEntries \ gone) \cup {Unset},
                                 frequency : 0..MaxStarts]
    /\ dying \subseteq Ids /\ favourites \subseteq Ids
    /\ dbPath \in Paths \cup {Unset, Memory}
    /\ table \in [Paths \cup {Memory} -> [Ids -> 0..MaxStarts]]
    /\ shownApps \in Seq(Ids) /\ retained \subseteq Ids

\* An application is of a desktop entry that lives, or is about to go.  Once the
\* timer has fired there is one for each desktop entry and for nothing else, and
\* it is of that desktop entry, however entries are hidden, come back, are
\* replaced and destroyed: except where updateApps found the id known and kept
\* the AppEntry of another desktop entry, with which the application goes
\* (updateApps, destroyed).
AppsAreTheEntries ==
    /\ \A i \in Known : apps[i].entry \in desktopEntries \cup leftOut \/ i \in dying
    /\ ~appsTimer =>
          /\ Known \subseteq Of(desktopEntries)
          /\ \A e \in desktopEntries :
                IdOf[e] \in retained \/ (IdOf[e] \in Known /\ apps[IdOf[e]].entry = e)

\* An application was started as often as the open database says, however it
\* became known and whichever database was open before (incrementFrequency,
\* updateAppFrequencies).
FrequenciesAgree ==
    \A i \in Known : ~Nameless(apps, i) => apps[i].frequency = table[Open(dbPath)][i]

\* The list that is shown is the list there is (appsChanged), unless an
\* application in it lost its desktop entry and is about to go.
ListIsFresh ==
    (\A i \in Known : ~Nameless(apps, i)) => shownApps = Sorted(apps, favourites)

\* The applications are those of the desktop entries, started as often as the
\* open database says, in a list that is announced.
AppsAreRight == AppsTypeOK /\ AppsAreTheEntries /\ FrequenciesAgree /\ ListIsFresh
=============================================================================
