---------------------------- MODULE LazyListView ----------------------------
(***************************************************************************)
(* LazyListView: a column of delegates that are created for the rows near  *)
(* the viewport only. The layout keeps a height per row, measured when its *)
(* delegate is ready and estimated before; model changes re-index layout   *)
(* and delegates; deletions, insertions and height changes are finished    *)
(* later, by polish, by timers that hold the address of an item and by     *)
(* animations.                                                             *)
(*                                                                         *)
(* list is the object, model its rows and top the edge of the viewport:    *)
(* the custom one of the shell's two lists, or contentY. The address of a  *)
(* deleted item is used again as soon as one is created. Looks (width,     *)
(* visible, adding, removing) are left out; heights are whole numbers.     *)
(***************************************************************************)
EXTENDS Integers, Sequences, SequencesExt

CONSTANTS
    Data,            \* what a row shows
    InitialHeight,   \* preferredHeight of a new delegate, for each of Data
    Heights,         \* heights a delegate may have
    Items,           \* addresses of delegates, numbers
    MaxRows,         \* bound: rows of the model
    MaxEvents,       \* bound: changes of model, heights and viewport
    Spacing, DefaultHeight, CacheBuffer,
    Tops, Height,    \* positions and height of the viewport
    UseCustomViewport, Asynchronous, ReadyDelay, RemoveAnimated,
    BatchCreate, BatchDestroy

LazyListViewAssumption ==
    /\ InitialHeight \in [Data -> Heights] /\ Heights \subseteq Nat
    /\ Items \subseteq Nat /\ Tops \subseteq Int /\ Height \in Nat \ {0}
    /\ {MaxRows, MaxEvents, Spacing, DefaultHeight, CacheBuffer} \subseteq Nat
    /\ {BatchCreate, BatchDestroy} \subseteq Nat \ {0}
    /\ {UseCustomViewport, Asynchronous, ReadyDelay, RemoveAnimated} \subseteq BOOLEAN

VARIABLES model, top, list, used
vars == <<model, top, list, used>>

Rows == UNION {[1..n -> Data] : n \in 0..MaxRows}
ItemRecord == [y |-> 0, height |-> 0, heightKnown |-> FALSE]
contentY == IF UseCustomViewport THEN 0 ELSE top

---------------------------------------------------------------------------
(* Heights and positions                                                   *)

EffectiveEstimatedHeight(v) == IF v.count > 0 THEN v.sum \div v.count ELSE DefaultHeight

LayoutHeights(v) ==
    [i \in DOMAIN v.layout |->
        IF v.layout[i].heightKnown THEN v.layout[i].height ELSE EffectiveEstimatedHeight(v)]
VisibleHeights(v) ==
    [i \in DOMAIN v.layout |->
        IF i \in DOMAIN v.delegates THEN v.items[v.delegates[i].item].visible
        ELSE LayoutHeights(v)[i]]

\* Rows without a height have no spacing.
Spaced(h, n) == {i \in 1..n : h[i] > 0}
Extent(h, n) ==
    MapThenSumSet(LAMBDA i : h[i], Spaced(h, n)) + Spacing * Max({Cardinality(Spaced(h, n)) - 1, 0})
TargetY(h, i) ==
    Extent(h, i - 1) + IF h[i] > 0 /\ Spaced(h, i - 1) # {} THEN Spacing ELSE 0

DyingBottoms(v) ==
    {v.items[d].y + v.items[d].visible : d \in {e \in v.dying : v.items[e].visible > 0}}

Relayout(v) ==
    LET h == LayoutHeights(v) IN
    [v EXCEPT !.layout = [i \in DOMAIN @ |-> [@[i] EXCEPT !.y = TargetY(h, i)]],
              !.layoutHeight = Extent(h, Len(h)),
              !.contentHeight = Max({Extent(VisibleHeights(v), Len(h))} \cup DyingBottoms(v))]

Empty == [top |-> 0, bottom |-> 0]
Clamped(v, vp) ==
    LET clamped == [top |-> Min({vp.top, v.layoutHeight}), bottom |-> Max({vp.bottom, 0})]
    IN  IF v.layoutHeight > 0 /\ clamped.bottom > clamped.top THEN clamped ELSE vp
Trimmed(v, vp) ==
    LET trimmed == [top |-> Max({vp.top, 0}), bottom |-> Min({vp.bottom, v.layoutHeight})]
    IN  IF v.layoutHeight = 0 THEN vp ELSE IF trimmed.top < trimmed.bottom THEN trimmed ELSE Empty
EffectiveViewport(v) ==
    LET vp == [top |-> top, bottom |-> top + Height]
        seen == IF UseCustomViewport THEN vp ELSE Clamped(v, vp)
    IN  Trimmed(v, [top |-> seen.top - CacheBuffer, bottom |-> seen.bottom + CacheBuffer])

VisibleRange(v) ==
    LET vp == EffectiveViewport(v)
        below == {i \in DOMAIN v.layout : v.layout[i].y + LayoutHeights(v)[i] >= vp.top}
        first == Min(below)
    IN  IF vp.top >= vp.bottom \/ below = {} THEN {}
        ELSE {first} \cup {i \in below : \A j \in first..i : v.layout[j].y <= vp.bottom}

---------------------------------------------------------------------------
(* Delegates                                                               *)

CreateDelegate(v, i, item) ==
    LET y == v.layout[i].y - contentY IN
    [v EXCEPT
        !.delegates = (i :> [item |-> item, pendingInsert |-> TRUE, delayed |-> FALSE]) @@ @,
        !.itemToIndex = (item :> i) @@ @,
        !.items = (item :> [data |-> model[i], preferred |-> InitialHeight[model[i]],
                            visible |-> InitialHeight[model[i]], y |-> y, goal |-> y,
                            ready |-> FALSE]) @@ @]

\* The items are gone for the list; a dying one stays until its timer ends.
Without(f, S) == [x \in DOMAIN f \ S |-> f[x]]
Forget(v, rows) ==
    [v EXCEPT !.delegates = Without(@, rows),
              !.itemToIndex = Without(@, {v.delegates[i].item : i \in rows})]
DestroyDelegate(v, gone) == [v EXCEPT !.items = Without(@, gone), !.dying = @ \ gone]

Outside(v) ==
    LET vp == EffectiveViewport(v)
        at(i) == v.items[v.delegates[i].item]
    IN  {i \in DOMAIN v.delegates \ VisibleRange(v) :
            \/ vp.top >= vp.bottom
            \/ at(i).y + at(i).visible < vp.top
            \/ at(i).y > vp.bottom}

Batch(n, size) == IF Asynchronous THEN Min({n, size}) ELSE n

\* Polish is asked for when nothing is left.
MutUnfinishedAlways(created, left) == created > 0 \/ (Asynchronous /\ left >= 0)

Unfinished(created, left) == created > 0 \/ (Asynchronous /\ left > 0)

\* destroyed: a batch of those outside, in the order of a hash
SyncDelegates(v, destroyed) ==
    LET kept == DestroyDelegate(Forget(v, destroyed), {v.delegates[i].item : i \in destroyed})
        missing == SetToSortSeq(VisibleRange(v) \ DOMAIN v.delegates, LAMBDA a, b : a < b)
        unused == SetToSortSeq(Items \ DOMAIN v.items, LAMBDA a, b : a < b)
        created == Batch(Len(missing), BatchCreate)
        filled == FoldSet(LAMBDA n, w : CreateDelegate(w, missing[n], unused[n]), kept, 1..created)
        remaining == Len(missing) - created + Cardinality(Outside(v)) - Cardinality(destroyed)
    IN  [filled EXCEPT !.polish = @ \/ Unfinished(created, remaining)]

\* untrackHeight, trackHeight
TrackedHeight(v, i, h) ==
    [v EXCEPT !.sum = @ + h - IF v.layout[i].heightKnown THEN v.layout[i].height ELSE 0,
              !.count = IF v.layout[i].heightKnown THEN @ ELSE @ + 1,
              !.layout[i].height = h, !.layout[i].heightKnown = TRUE]

\* readyChanged
SetReady(v, i) ==
    LET item == v.delegates[i].item IN
    [TrackedHeight(v, i, v.items[item].preferred) EXCEPT
        !.delegates[i].pendingInsert = FALSE, !.delegates[i].delayed = FALSE,
        !.items[item].ready = TRUE, !.polish = TRUE]

FlushInserts(v) ==
    LET pending == {i \in DOMAIN v.delegates : v.delegates[i].pendingInsert}
        waiting == {i \in pending : ~v.delegates[i].delayed}
    IN  IF ReadyDelay
        THEN [v EXCEPT !.delegates = [i \in DOMAIN @ |->
                            IF i \in waiting THEN [@[i] EXCEPT !.delayed = TRUE] ELSE @[i]],
                       !.delays = @ \cup {v.delegates[i].item : i \in waiting}]
        ELSE FoldSet(LAMBDA i, w : SetReady(w, i), v, pending)

Positioned(v, i) ==
    ~v.delegates[i].pendingInsert /\ ~(v.layout[i].heightKnown /\ v.layout[i].height = 0)
PositionDelegates(v) ==
    [v EXCEPT !.items = [x \in DOMAIN @ |->
        IF x \in DOMAIN v.itemToIndex /\ Positioned(v, v.itemToIndex[x])
        THEN [@[x] EXCEPT !.goal = v.layout[v.itemToIndex[x]].y - contentY] ELSE @[x]]]

---------------------------------------------------------------------------
(* Rows that change their index                                            *)

\* Delegate i of v becomes delegate to[i].
Reindexed(v, to) ==
    [v EXCEPT
        !.delegates = [j \in {to[i] : i \in DOMAIN @} |-> @[CHOOSE i \in DOMAIN @ : to[i] = j]],
        !.itemToIndex = [x \in DOMAIN @ |-> to[@[x]]],
        !.polish = TRUE]

ResetContent(rows) ==
    [layout |-> [i \in DOMAIN rows |-> ItemRecord], delegates |-> << >>, itemToIndex |-> << >>,
     items |-> << >>, dying |-> {}, sum |-> 0, count |-> 0, layoutHeight |-> 0,
     contentHeight |-> 0, polish |-> TRUE, relayoutPending |-> FALSE, delays |-> {}, removals |-> {}]

\* Heights of the content and timers outlive a reset.
Reset(v, rows) ==
    [ResetContent(rows) EXCEPT
        !.layoutHeight = v.layoutHeight, !.contentHeight = v.contentHeight,
        !.relayoutPending = v.relayoutPending, !.delays = v.delays, !.removals = v.removals]

Untracked(v, gone) ==
    LET known == {i \in gone : v.layout[i].heightKnown} IN
    [v EXCEPT !.sum = @ - MapThenSumSet(LAMBDA i : v.layout[i].height, known),
              !.count = @ - Cardinality(known)]

AboutToBeRemoved(v, gone) ==
    LET rows == gone \cap DOMAIN v.delegates
        shown == {v.delegates[i].item : i \in {j \in rows : ~v.delegates[j].pendingInsert}}
        hidden == {v.delegates[i].item : i \in rows} \ shown
        forgotten == Forget(v, rows)
    IN  IF RemoveAnimated
        THEN DestroyDelegate([forgotten EXCEPT !.dying = @ \cup shown, !.removals = @ \cup shown], hidden)
        ELSE DestroyDelegate(forgotten, hidden \cup shown)

\* A row behind the moved ones keeps the gap they leave.
MutMovedTo(i, first, last, dest) ==
    IF i \in first..last THEN dest + (i - first)
    ELSE IF i >= dest THEN i + (last - first + 1) ELSE i

MovedTo(i, first, last, dest) ==
    LET count == last - first + 1
        closed == IF i > last THEN i - count ELSE i
    IN  IF i \in first..last THEN dest + (i - first)
        ELSE IF closed >= dest THEN closed + count ELSE closed

---------------------------------------------------------------------------
(* The model                                                               *)

Init ==
    /\ model \in Rows /\ top \in Tops /\ used = 0
    /\ list = ResetContent(model)

Event == used < MaxEvents /\ used' = used + 1

RowsInserted(first, data) ==
    LET n == Len(data) IN
    /\ Event
    /\ Len(model) + n <= MaxRows
    /\ model' = SubSeq(model, 1, first - 1) \o data \o SubSeq(model, first, Len(model))
    /\ list' = Reindexed(
           [list EXCEPT !.layout = SubSeq(@, 1, first - 1) \o [i \in 1..n |-> ItemRecord]
                                   \o SubSeq(@, first, Len(@))],
           [i \in DOMAIN model |-> IF i >= first THEN i + n ELSE i])
    /\ UNCHANGED top

\* rowsAboutToBeRemoved and rowsRemoved
RowsRemoved(first, last) ==
    LET n == last - first + 1
        rest == Untracked(AboutToBeRemoved(list, first..last), first..last)
        cut(s) == SubSeq(s, 1, first - 1) \o SubSeq(s, last + 1, Len(s))
    IN  /\ Event
        /\ model' = cut(model)
        /\ list' = Reindexed([rest EXCEPT !.layout = cut(@)],
                             [i \in DOMAIN model |-> IF i > last THEN i - n ELSE i])
        /\ UNCHANGED top

\* dest: the index of the first row moved, behind the move
RowsMoved(first, last, dest) ==
    LET n == last - first + 1
        cut(s) == SubSeq(s, 1, first - 1) \o SubSeq(s, last + 1, Len(s))
        move(s) == SubSeq(cut(s), 1, dest - 1) \o SubSeq(s, first, last)
                   \o SubSeq(cut(s), dest, Len(s) - n)
    IN  /\ Event
        /\ dest # first
        /\ model' = move(model)
        /\ list' = Reindexed([list EXCEPT !.layout = move(@)],
                             [i \in DOMAIN model |-> MovedTo(i, first, last, dest)])
        /\ UNCHANGED top

UpdateDelegateData(v, rows, data) ==
    [v EXCEPT !.items = [x \in DOMAIN @ |->
        IF x \in DOMAIN v.itemToIndex /\ v.itemToIndex[x] \in rows
        THEN [@[x] EXCEPT !.data = data[v.itemToIndex[x]]] ELSE @[x]]]

DataChanged(i, d) ==
    /\ Event
    /\ model' = [model EXCEPT ![i] = d]
    /\ list' = UpdateDelegateData(list, {i}, model')
    /\ UNCHANGED top

\* A reset that shows the same rows keeps everything.
ModelReset(rows) ==
    LET same == /\ Len(rows) = Len(list.layout)
                /\ \A i \in DOMAIN list.delegates : list.items[list.delegates[i].item].data = rows[i]
    IN  /\ Event
        /\ model' = rows
        /\ list' = IF same THEN UpdateDelegateData(list, DOMAIN rows, rows) ELSE Reset(list, rows)
        /\ UNCHANGED top

ViewportMoves(t) ==
    /\ Event
    /\ t # top
    /\ top' = t
    /\ list' = [list EXCEPT !.polish = TRUE]
    /\ UNCHANGED model

---------------------------------------------------------------------------
(* Delegates that change, timers, polish                                   *)

\* preferredHeightChanged and implicitHeightChanged; a delegate that is not
\* ready is measured when it is.
HeightChanged(item, h) ==
    LET i == list.itemToIndex[item]
        changed == [list EXCEPT !.items[item].preferred = h]
        measured == /\ list.items[item].ready
                    /\ item \in DOMAIN list.itemToIndex
                    /\ list.layout[i].height # h
    IN  /\ Event
        /\ h # list.items[item].preferred
        /\ list' = IF measured THEN [TrackedHeight(changed, i, h) EXCEPT !.relayoutPending = TRUE]
                   ELSE changed
        /\ UNCHANGED <<model, top>>

VisibleHeightChanged(item, h) ==
    /\ Event
    /\ h # list.items[item].visible
    /\ list' = [list EXCEPT !.items[item].visible = h, !.polish = TRUE]
    /\ UNCHANGED <<model, top>>

\* The Behavior on y of the delegate
ItemMoves(item) ==
    /\ list.items[item].y # list.items[item].goal
    /\ list' = [list EXCEPT !.items[item].y = list.items[item].goal]
    /\ UNCHANGED <<model, top, used>>

RelayoutTimer ==
    /\ list.relayoutPending
    /\ list' = [Relayout(list) EXCEPT !.relayoutPending = FALSE, !.polish = TRUE]
    /\ UNCHANGED <<model, top, used>>

DelayEnds(item) ==
    LET i == list.itemToIndex[item]
        over == [list EXCEPT !.delays = @ \ {item}]
        shown == [SetReady(over, i) EXCEPT
                    !.items[item].y = TargetY(VisibleHeights(list), i) - contentY,
                    !.items[item].goal = list.layout[i].y - contentY]
    IN  /\ item \in list.delays
        /\ list' = IF item \in DOMAIN list.itemToIndex /\ list.delegates[i].pendingInsert
                   THEN shown ELSE over
        /\ UNCHANGED <<model, top, used>>

RemovalEnds(item) ==
    /\ item \in list.removals
    /\ list' = [IF item \in list.dying THEN DestroyDelegate(list, {item}) ELSE list
                EXCEPT !.removals = @ \ {item}]
    /\ UNCHANGED <<model, top, used>>

\* Each \E names the one result of a step, so that TLC computes it once.
Polish ==
    /\ list.polish
    /\ \E flushed \in {FlushInserts([list EXCEPT !.polish = FALSE])} :
       \E laidOut \in {Relayout(flushed)} :
       \E outside \in {Outside(laidOut)} :
       \E gone \in kSubset(Batch(Cardinality(outside), BatchDestroy), outside) :
       \E synced \in {SyncDelegates(laidOut, gone)} :
          list' = PositionDelegates(synced)
    /\ UNCHANGED <<model, top, used>>

Scheduled ==
    \/ Polish
    \/ RelayoutTimer
    \/ \E item \in Items : DelayEnds(item)
    \/ \E item \in Items : RemovalEnds(item)
    \/ \E item \in DOMAIN list.items : ItemMoves(item)

Next ==
    \/ \E first \in 1..Len(model) + 1, data \in Rows \ {<< >>} : RowsInserted(first, data)
    \/ \E first \in DOMAIN model, last \in DOMAIN model : first <= last /\ RowsRemoved(first, last)
    \/ \E first, last \in DOMAIN model :
          \E dest \in 1..Len(model) - (last - first) : first <= last /\ RowsMoved(first, last, dest)
    \/ \E i \in DOMAIN model, d \in Data : DataChanged(i, d)
    \/ \E rows \in Rows : ModelReset(rows)
    \/ \E t \in Tops : ViewportMoves(t)
    \/ \E item \in DOMAIN list.items, h \in Heights :
          HeightChanged(item, h) \/ VisibleHeightChanged(item, h)
    \/ Scheduled

Fairness ==
    /\ WF_vars(Polish) /\ WF_vars(RelayoutTimer)
    /\ WF_vars(\E item \in Items : DelayEnds(item))

Spec == Init /\ [][Next]_vars
FairSpec == Spec /\ Fairness

---------------------------------------------------------------------------
(* Properties                                                              *)

\* The layout has a record per row, items know their delegates, and dying
\* ones are not of the list (types of the header's members).
TypeOK ==
    /\ model \in Rows /\ top \in Tops /\ used \in 0..MaxEvents
    /\ Len(list.layout) = Len(model)
    /\ \A i \in DOMAIN list.layout : list.layout[i].y \in Nat /\ list.layout[i].height \in Heights
    /\ DOMAIN list.delegates \subseteq DOMAIN model
    /\ DOMAIN list.itemToIndex = {list.delegates[i].item : i \in DOMAIN list.delegates}
    /\ DOMAIN list.items = DOMAIN list.itemToIndex \cup list.dying
    /\ DOMAIN list.itemToIndex \cap list.dying = {}

\* After any sequence of insertions, removals, moves and resets each delegate
\* shows the data of its own row, and an item finds the delegate it is of.
DelegatesShowTheirRows ==
    \A i \in DOMAIN list.delegates :
        /\ i \in DOMAIN model
        /\ list.itemToIndex[list.delegates[i].item] = i
        /\ list.items[list.delegates[i].item].data = model[i]

\* The estimate is the average of the heights known now: m_knownHeightSum and
\* m_knownHeightCount follow every row that is measured, moved or removed.
KnownHeightsAreCounted ==
    LET known == {i \in DOMAIN list.layout : list.layout[i].heightKnown} IN
    /\ list.count = Cardinality(known)
    /\ list.sum = MapThenSumSet(LAMBDA i : list.layout[i].height, known)

\* The layout has the height a ready delegate wants, whatever was re-indexed
\* between the measurement and the changes of height.
ReadyDelegatesAreMeasured ==
    \A i \in DOMAIN list.delegates :
        LET item == list.items[list.delegates[i].item] IN
        item.ready => list.layout[i].heightKnown /\ list.layout[i].height = item.preferred

Settled == ~list.polish /\ ~list.relayoutPending /\ list.delays = {}

\* When nothing is scheduled, each row near the viewport has a delegate that is
\* shown and on its way to its place in a layout without gaps: no handler that
\* changes the layout may forget to polish.
SettledRowsAreShown ==
    Settled =>
        /\ list.layoutHeight = Extent(LayoutHeights(list), Len(model))
        /\ \A i \in VisibleRange(list) :
              /\ i \in DOMAIN list.delegates
              /\ ~list.delegates[i].pendingInsert
              /\ Positioned(list, i) =>
                    list.items[list.delegates[i].item].goal
                        = TargetY(LayoutHeights(list), i) - contentY

\* Polishing ends: batches, delays, measurements and the estimates that follow
\* them do not keep asking for another polish.
PolishingEnds == <>[]Settled
=============================================================================
