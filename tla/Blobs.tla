------------------------------- MODULE Blobs -------------------------------
(***************************************************************************)
(* Shapes that flow into one another (BlobGroup, BlobShape, BlobRect and   *)
(* BlobInvertedRect): each is drawn from a picture it took, when it was    *)
(* polished, of its neighbours and of the frame around them, and a change  *)
(* polishes only those it believes to be near.  A shape that moves fast is *)
(* deformed by a spring, frame by frame, until that is at rest.            *)
(*                                                                         *)
(* Geometry is along one axis and in half pixels.  The spring is at rest   *)
(* (0), imperceptible (1) or visible (2).  The GUI thread polishes all     *)
(* items of a window in one go, and runs what they posted before it draws  *)
(* again (external).                                                       *)
(***************************************************************************)
EXTENDS Integers, FiniteSets

CONSTANTS
    Rects, Frame,   \* shapes; the one that is inverted
    Ends, Starts,   \* positions of rects are 0 .. Ends, at first Starts
    Widths, Lengths,   \* of rects, and of the frame
    Steps,          \* of a movement
    Smoothings, Borders, Radii,
    Excluding,      \* pairs that may be excluded
    None,
    MaxEvents       \* bound: changes by QML

BlobsAssumption ==
    /\ Frame \notin Rects /\ Excluding \subseteq Rects \X Rects
    /\ Widths \subseteq Nat /\ Lengths \subseteq Nat /\ Steps \subseteq Int
    /\ {Ends, MaxEvents} \subseteq Nat /\ Starts \subseteq 0 .. Ends
    /\ Smoothings \cup Borders \cup Radii \subseteq Nat

Shapes == Rects \cup {Frame}

VARIABLES
    members,     \* shapes of the group
    smoothing, border, exclude,
    item,        \* of each shape: position, width, radius, m_pendingDx
    physics,     \* of each rect: m_physicsActive, the spring, the centre before
    dirty,       \* polish() was called
    posted,      \* rects whose call of markDirty is queued
    picture,     \* of each shape: what updatePolish cached and is drawn
    used
blobVars == <<members, smoothing, border, exclude, item, physics, dirty,
              posted, picture, used>>

Abs(x) == IF x < 0 THEN -x ELSE x

---------------------------------------------------------------------------
(* The picture                                                             *)

\* Intervals are <<from, to>>; an empty one meets none.
Meets(a, b) == a[1] # a[2] /\ b[1] # b[2] /\ a[1] < b[2] /\ b[1] < a[2]
Wider(a, by) == <<a[1] - by, a[2] + by>>
Place(s) == <<item[s].pos, item[s].pos + item[s].width>>

\* A visible deformation needs a half pixel around.
DeformPadding(r, springs) == IF springs[r].level = 2 THEN 1 ELSE 0

Padded(s, springs) ==
    IF s = Frame THEN Place(s)
    ELSE Wider(Place(s), smoothing + DeformPadding(s, springs))

Nearby(s, springs) ==
    {o \in members \cap Rects :
        /\ item[o].width > 0
        /\ <<s, o>> \notin exclude
        /\ s = Frame \/ Meets(Padded(s, springs), Padded(o, springs))}

\* Pairs the shader must not join
Masks(near) ==
    {p \in near \X near : p \in exclude \/ <<p[2], p[1]>> \in exclude}

FrameSeen(s, springs) ==
    LET padded == Padded(s, springs)
        inner == Wider(Place(Frame), -border)
    IN  IF /\ Frame \in members
           /\ \/ s = Frame
              \/ padded[1] < inner[1] + 2 * smoothing
              \/ padded[2] > inner[2] - 2 * smoothing
        THEN <<Place(Frame), inner, item[Frame].radius>>
        ELSE None

PictureOf(s, springs) ==
    LET near == Nearby(s, springs)
    IN  [at |-> item[s].pos,
         padded |-> Padded(s, springs),
         rects |-> {[shape |-> o, at |-> item[o].pos, width |-> item[o].width,
                     radius |-> item[o].radius,
                     deformed |-> springs[o].level = 2] : o \in near},
         masks |-> Masks(near),
         frame |-> FrameSeen(s, springs)]

NoPicture == [at |-> 0, padded |-> <<0, 0>>, rects |-> {}, masks |-> {},
              frame |-> None]

---------------------------------------------------------------------------
(* Changes                                                                 *)

\* Neighbours are found by the rects of the last polish; the frame is always
\* one.
MarkShapeDirty(s) ==
    dirty' = dirty \cup {s} \cup (members \cap {Frame})
             \cup {o \in members \cap Rects :
                      Meets(Wider(picture[s].padded, 2 * smoothing),
                            picture[o].padded)}

MarkDirty == dirty' = dirty \cup members

Event == used < MaxEvents /\ used' = used + 1

\* Movements of less than a pixel add up.
Drift(s, pos) == item[s].drift + pos - item[s].pos

GeometryChange(s, pos, width) ==
    LET drift == Drift(s, pos)
        marks == Abs(drift) > 1 \/ Abs(width - item[s].width) > 1
    IN  /\ Event
        /\ pos # item[s].pos \/ width # item[s].width
        /\ \/ /\ s \in members
              /\ item' = [item EXCEPT ![s].pos = pos, ![s].width = width,
                                      ![s].drift = IF marks THEN 0 ELSE drift]
              /\ IF marks THEN MarkShapeDirty(s) ELSE UNCHANGED dirty
           \/ /\ s \notin members
              /\ item' = [item EXCEPT ![s].pos = pos, ![s].width = width]
              /\ UNCHANGED dirty
        /\ UNCHANGED <<members, smoothing, border, exclude, physics, posted,
                       picture>>

SetRadius(s, radius) ==
    /\ Event
    /\ item[s].radius # radius
    /\ item' = [item EXCEPT ![s].radius = radius]
    /\ IF s \in members THEN MarkDirty ELSE UNCHANGED dirty
    /\ UNCHANGED <<members, smoothing, border, exclude, physics, posted,
                   picture>>

SetSmoothing(x) ==
    /\ Event
    /\ smoothing # x
    /\ smoothing' = x
    /\ MarkDirty
    /\ UNCHANGED <<members, border, exclude, item, physics, posted, picture>>

SetBorder(x) ==
    /\ Event
    /\ border # x
    /\ border' = x
    /\ IF Frame \in members THEN MarkDirty ELSE UNCHANGED dirty
    /\ UNCHANGED <<members, smoothing, exclude, item, physics, posted, picture>>

\* excludeAppend or excludeRemoveLast of the first of a pair
Exclude(pair) ==
    /\ Event
    /\ exclude' = IF pair \in exclude THEN exclude \ {pair}
                  ELSE exclude \cup {pair}
    /\ IF pair[1] \in members THEN MarkDirty ELSE UNCHANGED dirty
    /\ UNCHANGED <<members, smoothing, border, item, physics, posted, picture>>

\* setGroup: addShape, or setInvertedRect
Join(s) ==
    /\ Event
    /\ s \notin members
    /\ members' = members \cup {s}
    /\ dirty' = dirty \cup members'
    /\ UNCHANGED <<smoothing, border, exclude, item, physics, posted, picture>>

\* setGroup or the destructor: removeShape, or clearInvertedRect
Leave(s) ==
    /\ Event
    /\ s \in members
    /\ members' = members \ {s}
    /\ dirty' = dirty \cup members'
    /\ UNCHANGED <<smoothing, border, exclude, item, physics, posted, picture>>

---------------------------------------------------------------------------
(* Frames                                                                  *)

Centre(r) == 2 * item[r].pos + item[r].width

AtRest == [active |-> FALSE, level |-> 0]

\* The springs after updatePhysics.  Where the time since the frame before is
\* too short or too long, only a spring that is nearly at rest is stopped.  A
\* half pixel within a tenth of a second is fast.
Stepped(r) ==
    LET spring == [active |-> physics[r].active, level |-> physics[r].level]
        moved == Centre(r) # physics[r].before
        skipped == {spring} \cup {s \in {AtRest} : spring.active /\ spring.level = 1}
        timed == IF moved THEN {[active |-> TRUE, level |-> l] : l \in {1, 2}}
                 ELSE IF spring.active
                 THEN {[active |-> l # 0, level |-> l] : l \in 0 .. 2}
                 ELSE {spring}
    IN  {[active |-> s.active, level |-> s.level, before |-> Centre(r)] :
            s \in IF physics[r].before = None THEN {spring}
                  ELSE skipped \cup timed}

Springs == [Rects -> UNION {Stepped(r) \cup {physics[r]} : r \in Rects}]

\* ensurePhysicsUpdated, before the first member is polished
UpdatePhysics(springs) ==
    \A r \in Rects :
        IF r \in members /\ dirty \cap members # {} THEN springs[r] \in Stepped(r)
        ELSE springs[r] = physics[r]

StaysAwake(r, springs) == springs[r].active /\ springs[r].level = 2

\* Then the pictures are taken, and springs that are imperceptible stop.
PolishItems(springs) ==
    /\ dirty # {}
    /\ posted = {}
    /\ UpdatePhysics(springs)
    /\ picture' = [s \in Shapes |-> IF s \in dirty \cap members
                                    THEN PictureOf(s, springs)
                                    ELSE picture[s]]
    /\ physics' = [r \in Rects |->
                      IF r \in dirty \cap members /\ springs[r].level < 2
                      THEN [springs[r] EXCEPT !.active = FALSE, !.level = 0]
                      ELSE springs[r]]
    /\ posted' = {r \in dirty \cap members \cap Rects : StaysAwake(r, springs)}
    /\ dirty' = {}
    /\ UNCHANGED <<members, smoothing, border, exclude, item, used>>

Polishes == \E springs \in Springs : PolishItems(springs)

RunPosted(r) ==
    /\ r \in posted
    /\ posted' = posted \ {r}
    /\ IF physics[r].active /\ r \in members THEN MarkDirty ELSE UNCHANGED dirty
    /\ UNCHANGED <<members, smoothing, border, exclude, item, physics, picture,
                   used>>

---------------------------------------------------------------------------
Init ==
    /\ members = Shapes
    /\ smoothing \in Smoothings /\ border \in Borders
    /\ exclude = {}
    /\ \E radius \in Radii :
          item \in [Shapes -> [pos : {0} \cup Starts, width : Widths \cup Lengths,
                               radius : {radius}, drift : {0}]]
    /\ \A r \in Rects : item[r].pos \in Starts /\ item[r].width \in Widths
    /\ item[Frame].pos = 0 /\ item[Frame].width \in Lengths
    /\ physics = [r \in Rects |-> [active |-> FALSE, level |-> 0, before |-> None]]
    /\ dirty = Shapes
    /\ posted = {}
    /\ picture = [s \in Shapes |-> NoPicture]
    /\ used = 0

\* QML animates: no frame finds a shape farther than MarkShapeDirty looks.
KeepsPace(s, pos, width) ==
    LET seen == Wider(picture[s].padded, 2 * smoothing)
        to == <<pos, pos + width>>
        now == IF s = Frame THEN to ELSE Wider(to, smoothing)
    IN  s \in members /\ picture[s] # NoPicture =>
            seen[1] <= now[1] /\ now[2] <= seen[2]

Resized(s, pos, width) ==
    KeepsPace(s, pos, width) /\ GeometryChange(s, pos, width)

Next ==
    \/ \E r \in Rects, d \in Steps :
          /\ item[r].pos + d \in 0 .. Ends
          /\ Resized(r, item[r].pos + d, item[r].width)
    \/ \E r \in Rects, w \in Widths : Resized(r, item[r].pos, w)
    \/ \E w \in Lengths : Resized(Frame, item[Frame].pos, w)
    \/ \E s \in Shapes : Join(s) \/ Leave(s)
    \/ \E s \in Shapes, x \in Radii : SetRadius(s, x)
    \/ \E x \in Smoothings : SetSmoothing(x)
    \/ \E x \in Borders : SetBorder(x)
    \/ \E pair \in Excluding : Exclude(pair)
    \/ Polishes
    \/ \E r \in Rects : RunPosted(r)

\* A frame in which every spring that is moved by nothing is imperceptible
PolishAtRest ==
    \E springs \in Springs :
        /\ \A r \in members \cap Rects : springs[r].level < 2
        /\ PolishItems(springs)

---------------------------------------------------------------------------
(* Properties                                                              *)

TypeOK ==
    /\ members \subseteq Shapes /\ exclude \subseteq Excluding
    /\ smoothing \in Smoothings /\ border \in Borders
    /\ \A s \in Shapes :
          /\ item[s].pos \in 0 .. Ends /\ item[s].width \in Widths \cup Lengths
          /\ item[s].radius \in Radii /\ item[s].drift \in -1 .. 1
    /\ \A r \in Rects :
          physics[r].active \in BOOLEAN /\ physics[r].level \in 0 .. 2
    /\ dirty \subseteq Shapes /\ posted \subseteq Rects

Quiet == dirty = {} /\ posted = {}

\* When nothing is left to polish every shape shows what is there: no change of a
\* neighbour, of the frame or of what is excluded was missed because only those
\* near were asked (markShapeDirty of blobgroup.cpp).  For movements that keep pace, by
\* whole pixels.
InSync ==
    Quiet => \A s \in members : picture[s] = PictureOf(s, physics)

\* A deformed shape is polished again, or the call that will is posted: none stays
\* deformed (updatePolish and updatePhysics of blobrect.cpp).
ActiveAreAwake ==
    \A r \in members \cap Rects : physics[r].active => r \in dirty \cup posted

\* Movements of less than a pixel never add up to more than one that is not shown,
\* by the shape itself or by a neighbour (geometryChange of blobshape.cpp).
NeverFarBehind ==
    Quiet => \A s \in members :
        /\ Abs(picture[s].at - item[s].pos) <= 2
        /\ \A seen \in picture[s].rects :
              Abs(seen.at - item[seen.shape].pos) <= 2

\* Springs come to rest and polishing ends.
SettlesDown == <>[]Quiet
=============================================================================
