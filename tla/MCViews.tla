------------------------------ MODULE MCViews -------------------------------
(***************************************************************************)
(* Small instances of the layers of settings and of their lists, and of the *)
(* native models and items: the list view, the file model, images,         *)
(* applications, toasts and shapes.  They share no state here: each is     *)
(* explored by itself.                                                     *)
(***************************************************************************)
EXTENDS Integers, SettingsLayers, SettingsList, ImageCacher, ImageAnalyser,
        AppDb, Toaster, TLC

CONSTANTS
    Parts,   \* those below, and "layers", that a run explores
    free, shared, v, left, right, n1, n2, n3, n4, a, b, walls, other, sub,
    wall, text, q1, q2, j1, j2, red, green, blue, grey,
    browser, browserAgain, editor, disk, charger, layout, battery

\* Files that define both options, one well, one badly, or nothing.
FewEdits == {(free :> v) @@ (shared :> v), (free :> Bad) @@ (shared :> v),
             EmptyContent}

Interchangeable == Permutations({left, right})

NoneAndTwo == a :> 0 @@ b :> 2

\* Files of a directory, and of its subdirectory between them
Nested == 1 :> walls @@ 2 :> sub @@ 3 :> walls
Flat == 1 :> walls @@ 2 :> other @@ 3 :> walls
SubOfWalls == sub :> walls

\* A reinstalled application has the id it had.
BrowserTwice == browser :> 1 @@ browserAgain :> 1 @@ editor :> 2

VARIABLES
    part,   \* the one that moves
    \* LazyListView
    model, top, list, used,
    \* FileSystemModel
    path, entries, futures, scans, watched, vanished, watchScans, rows,
    dirs, diskFiles, changed, filesUsed,
    \* Blobs
    members, smoothing, frameBorder, exclude, shapes, physics, shapesDirty,
    shapesPosted, picture, blobsUsed

Listed == INSTANCE LazyListView WITH
    Data <- {a, b}, InitialHeight <- NoneAndTwo, Heights <- {0, 2},
    Items <- 1 .. 6, Spacing <- 1, DefaultHeight <- 1, CacheBuffer <- 0,
    Tops <- {0, 2}, Height <- 2, BatchCreate <- 1, BatchDestroy <- 1,
    UseCustomViewport <- TRUE, Asynchronous <- TRUE, ReadyDelay <- TRUE,
    RemoveAnimated <- TRUE, MaxRows <- 2, MaxEvents <- 2
Rowed == INSTANCE LazyListView WITH
    Data <- {a, b}, InitialHeight <- NoneAndTwo, Heights <- {0, 2},
    Items <- 1 .. 6, Spacing <- 1, DefaultHeight <- 1, CacheBuffer <- 0,
    Tops <- {0, 2}, Height <- 2, BatchCreate <- 1, BatchDestroy <- 1,
    UseCustomViewport <- FALSE, Asynchronous <- FALSE, ReadyDelay <- FALSE,
    RemoveAnimated <- FALSE, MaxRows <- 3, MaxEvents <- 2
Below == INSTANCE FileSystemModel WITH
    Roots <- {walls, other}, WatchChanges <- TRUE, Parent <- SubOfWalls,
    DirOf <- Nested, Recursive <- TRUE, SortReverse <- FALSE, MaxEvents <- 3,
    files <- diskFiles, used <- filesUsed
Beside == INSTANCE FileSystemModel WITH
    Roots <- {walls, other}, WatchChanges <- TRUE, Parent <- << >>,
    DirOf <- Flat, Recursive <- FALSE, SortReverse <- TRUE, MaxEvents <- 4,
    files <- diskFiles, used <- filesUsed
Flow == INSTANCE Blobs WITH
    Rects <- {red, blue}, Frame <- grey, Ends <- 4,
    Excluding <- {<<red, blue>>}, Starts <- {0, 2, 4}, Widths <- {0, 2},
    Lengths <- {6, 8}, Steps <- {-2, 2}, Smoothings <- {1}, Borders <- {0, 1},
    Radii <- {0}, MaxEvents <- 2, border <- frameBorder, item <- shapes,
    dirty <- shapesDirty, posted <- shapesPosted, used <- blobsUsed
Drift == INSTANCE Blobs WITH
    Rects <- {red, blue}, Frame <- grey, Ends <- 4,
    Excluding <- {<<red, blue>>}, Starts <- {1, 2}, Widths <- {2},
    Lengths <- {8}, Steps <- {-1, 1}, Smoothings <- {1, 2}, Borders <- {1},
    Radii <- {0, 1}, MaxEvents <- 3, border <- frameBorder, item <- shapes,
    dirty <- shapesDirty, posted <- shapesPosted, used <- blobsUsed

ASSUME PartsAssumption ==
    /\ Listed!LazyListViewAssumption
    /\ Rowed!LazyListViewAssumption /\ Below!FileSystemModelAssumption
    /\ Beside!FileSystemModelAssumption
    /\ Flow!BlobsAssumption /\ Drift!BlobsAssumption

listVars == <<model, top, list, used>>
fileVars == <<path, entries, futures, scans, watched, vanished, watchScans,
              rows, dirs, diskFiles, changed, filesUsed>>
blobVars == <<members, smoothing, frameBorder, exclude, shapes, physics,
              shapesDirty, shapesPosted, picture, blobsUsed>>
allVars == <<part, vars, elementVars, listVars, fileVars, cacherVars,
              colourVars, appVars, toasterVars, blobVars>>

\* The others wait: where nothing of a part is needed, its variables are 0.
RunInit ==
    /\ part \in Parts
    /\ Init /\ CacherInit /\ ToasterInit
    /\ IF part = "layers"
       THEN \E m \in Layers : \A l \in Layers \ {m} : files[l] = EmptyContent
       ELSE \A l \in Layers : files[l] = EmptyContent
    /\ ElementsInit
    /\ part # "elements" => global[1].node = n1 /\ global[2].node = n2
    /\ \/ part = "list" /\ Listed!Init
       \/ part = "rows" /\ Rowed!Init
       \/ part \notin {"list", "rows"} /\ model = 0 /\ top = 0 /\ list = 0
          /\ used = 0
    /\ \/ part = "tree" /\ Below!Init
       \/ part = "flat" /\ Beside!Init
       \/ part \notin {"tree", "flat"} /\ path = 0 /\ entries = 0
          /\ futures = 0 /\ scans = 0 /\ watched = 0 /\ vanished = 0
          /\ watchScans = 0 /\ rows = 0 /\ dirs = 0 /\ diskFiles = 0 /\ changed = 0
          /\ filesUsed = 0
    /\ part \notin {"cacher", "jobs"} => file = wall
    /\ ColourInit /\ (part # "analyser" => icon = Blank)
    /\ AppsInit
    /\ \/ part = "blobs" /\ Flow!Init
       \/ part = "drift" /\ Drift!Init
       \/ part \notin {"blobs", "drift"} /\ members = 0 /\ smoothing = 0
          /\ frameBorder = 0 /\ exclude = 0 /\ shapes = 0 /\ physics = 0
          /\ shapesDirty = 0 /\ shapesPosted = 0 /\ picture = 0
          /\ blobsUsed = 0

OnlyMoves(p) ==
    /\ part = p /\ part' = p
    /\ IF p = "layers" THEN TRUE ELSE UNCHANGED vars
    /\ IF p = "elements" THEN TRUE ELSE UNCHANGED elementVars
    /\ IF p \in {"list", "rows"} THEN TRUE ELSE UNCHANGED listVars
    /\ IF p \in {"tree", "flat"} THEN TRUE ELSE UNCHANGED fileVars
    /\ IF p \in {"cacher", "jobs"} THEN TRUE ELSE UNCHANGED cacherVars
    /\ IF p = "analyser" THEN TRUE ELSE UNCHANGED colourVars
    /\ IF p = "apps" THEN TRUE ELSE UNCHANGED appVars
    /\ IF p = "toasts" THEN TRUE ELSE UNCHANGED toasterVars
    /\ IF p \in {"blobs", "drift"} THEN TRUE ELSE UNCHANGED blobVars

RunNext ==
    \/ OnlyMoves("layers") /\ Next /\ Cardinality(dirty') <= 2
    \/ OnlyMoves("elements") /\ ElementsNext
    \/ OnlyMoves("list") /\ Listed!Next
    \/ OnlyMoves("rows") /\ Rowed!Next
    \/ OnlyMoves("tree") /\ Below!Next
    \/ OnlyMoves("flat") /\ Beside!Next
    \/ OnlyMoves("cacher") /\ CacherNext /\ job'[j2] = NoJob /\ file' # Nothing
    \/ OnlyMoves("jobs") /\ CacherNext /\ request'[q2] = NoRequest
    \/ OnlyMoves("analyser") /\ ColourNext
    \/ OnlyMoves("apps") /\ AppsNext
    \/ OnlyMoves("toasts") /\ ToasterNext
    \/ OnlyMoves("blobs") /\ Flow!Next
    \/ OnlyMoves("drift") /\ Drift!Next

RunSpec == RunInit /\ [][RunNext]_allVars

---------------------------------------------------------------------------
(* Properties, beside those of SettingsLayers, SettingsList, ImageCacher,   *)
(* ImageAnalyser, AppDb and Toaster                                         *)

\* Delegates show their rows where they belong, whatever was inserted, removed
\* or moved (DelegatesShowTheirRows, SettledRowsAreShown), and the estimates of
\* heights are of what was measured (KnownHeightsAreCounted,
\* ReadyDelegatesAreMeasured).  Shapes are drawn with the neighbours they have
\* (InSync, NeverFarBehind), and none stays deformed (ActiveAreAwake).  However
\* scans overtake each other the entries are sorted, are the rows a view has,
\* and nothing but directories of the path is watched (EntriesAreSorted,
\* RowsAreTheEntries, WatchesAreOfThePath).
ItemsAreRight ==
    /\ part = "list" =>
          /\ Listed!TypeOK /\ Listed!DelegatesShowTheirRows
          /\ Listed!KnownHeightsAreCounted /\ Listed!ReadyDelegatesAreMeasured
          /\ Listed!SettledRowsAreShown
    /\ part = "rows" => Rowed!DelegatesShowTheirRows /\ Rowed!SettledRowsAreShown
    /\ part = "blobs" => Flow!TypeOK /\ Flow!InSync /\ Flow!ActiveAreAwake
    /\ part = "drift" => Drift!NeverFarBehind
    /\ part = "tree" =>
          Below!TypeOK /\ Below!EntriesAreSorted /\ Below!WatchesAreOfThePath
    /\ part = "flat" =>
          Beside!TypeOK /\ Beside!EntriesAreSorted /\ Beside!RowsAreTheEntries

\* What a screen edited goes where its element goes (KeepsEdits), a toast goes
\* when it was animated away on every screen (GoesAnimated), and a cached image
\* stays (MadeOnce).
NothingGoesEarly ==
    [][/\ part = "elements" => KeepsEdits
       /\ part = "toasts" => GoesAnimated
       /\ part \in {"cacher", "jobs"} => MadeOnce]_allVars
=============================================================================
