--------------------------- MODULE MCPluginGoesOn ---------------------------
(***************************************************************************)
(* What comes to pass in the native services and models, with the fairness *)
(* of each.  They share no state here: each is explored by itself.         *)
(***************************************************************************)
EXTENDS Integers, TLC

CONSTANTS
    Parts,   \* those below that a run explores
    s1, s2, cava, beat, r1, laptop, us, Main, a, b, walls, sub, wall,
    text, q1, j1, j2, red, green, blue, left, charger, layout, battery, None

NoneAndTwo == a :> 0 @@ b :> 2
SubOfWalls == sub :> walls
Nested == 1 :> sub

VARIABLES
    part,   \* the one that moves
    \* Lyrics
    track, preferred, backend, selected, candidates, offset, shownLyrics,
    hasLyrics, loading, debounce, inFlight, prefs, cachedLyrics, lyricsUsed, early,
    \* AudioService
    service, living, destroyed, refs, inbox, posted, home, senders, capture,
    crashed,
    \* AudioCollector
    buffer, read, write, writer, reader, chunks, stream, timer, idle,
    stopping, running,
    \* CavaProvider
    bars, values, toProcessor, plan, lastValues, toProvider,
    \* HyprExtras
    comp, changed, events, sockets, current, options, keyboards, age, told,
    lost,
    \* Gpu
    userType, gpuType, gpuName, named, gpuUsage, generation, querying,
    gpuRunning, procs,
    \* Storage
    found, roots, disks, manual, hasRoot, dying, interval, disksRunning,
    disksTimer, shownDisks, shownManual, shownPrimary,
    \* LazyListView
    model, top, list, used,
    \* FileSystemModel
    path, entries, futures, scans, watched, vanished, watchScans, rows,
    dirs, diskFiles, dirsChanged, filesUsed,
    \* ImageCacher
    file, cached, inflight, request, job, mixed,
    \* ImageAnalyser
    source, icon, itemShown, hooked, grabs, future, colour,
    \* Toaster
    toasts, new, closed, timers, locks, fullscreen, wrappers, leaving,
    animated,
    \* Blobs
    members, smoothing, frameBorder, exclude, shapes, physics, shapesDirty,
    shapesPosted, picture, blobsUsed

Words == INSTANCE Lyrics WITH
    Songs <- {s1, s2}, Offsets <- {0}, MaxUser <- 3,
    shown <- shownLyrics, cache <- cachedLyrics, used <- lyricsUsed
Users == INSTANCE AudioService WITH
    Providers <- {cava, beat}, ServiceRefs <- {r1}, MaxPosted <- 2, Nobody <- None
Sound == INSTANCE AudioCollector WITH
    ChunkSize <- 1, MaxChunks <- 1, LateTimers <- FALSE
Spectrum == INSTANCE CavaProvider WITH
    Bars <- {-1, 1, 2}, Peaks <- {0, 81}, MaxPosted <- 2
Hypr == INSTANCE HyprExtras WITH
    Sockets <- {1, 2}, Keyboards <- {laptop}, Keymaps <- {us},
    MaxTime <- 2, MaxEvents <- 1, toasts <- told, Nil <- None
Card == INSTANCE Gpu WITH
    BusyFiles <- FALSE, MaxGenerations <- 2
Drives == INSTANCE Storage WITH
    Disks <- {1, 2}, Intervals <- {0, 1000}, running <- disksRunning,
    timer <- disksTimer
Listed == INSTANCE LazyListView WITH
    Data <- {a, b}, InitialHeight <- NoneAndTwo, Heights <- {0, 2},
    Items <- 1 .. 6, Spacing <- 1, DefaultHeight <- 1, CacheBuffer <- 0,
    Tops <- {0, 2}, Height <- 2, BatchCreate <- 1, BatchDestroy <- 1,
    UseCustomViewport <- TRUE, Asynchronous <- TRUE, ReadyDelay <- TRUE,
    RemoveAnimated <- TRUE, MaxRows <- 2, MaxEvents <- 1
Below == INSTANCE FileSystemModel WITH
    Roots <- {walls}, WatchChanges <- TRUE, Parent <- SubOfWalls,
    DirOf <- Nested, Recursive <- TRUE, SortReverse <- FALSE, MaxEvents <- 3,
    files <- diskFiles, changed <- dirsChanged, used <- filesUsed
Cached == INSTANCE ImageCacher WITH
    FileContents <- {wall, text}, Broken <- {text}, Requests <- {q1},
    Jobs <- {j1, j2}, SavesFail <- FALSE, Nothing <- None
Colours == INSTANCE ImageAnalyser WITH
    ImageFiles <- {red, green, text}, Icons <- {red, green, text},
    NoImages <- {text}, Blank <- None, MaxGrabs <- 2
Toast == INSTANCE Toaster WITH
    Toasts <- {charger, layout, battery}, Important <- {battery},
    ToastScreens <- {left}, MaxToasts <- 1,
    ScreenModes <- {"all", "important", "none"}
Flow == INSTANCE Blobs WITH
    Rects <- {red, blue}, Frame <- text, Ends <- 4,
    Excluding <- {<<red, blue>>}, Starts <- {0, 1, 2}, Widths <- {2},
    Lengths <- {8}, Steps <- {-2, 2}, Smoothings <- {1}, Borders <- {0},
    Radii <- {0}, MaxEvents <- 2, border <- frameBorder, item <- shapes,
    dirty <- shapesDirty, posted <- shapesPosted, used <- blobsUsed

ASSUME PartsAssumption ==
    /\ Words!LyricsAssumption /\ Users!ServiceAssumption
    /\ Sound!CollectorAssumption /\ Spectrum!CavaAssumption
    /\ Hypr!HyprExtrasAssumption /\ Card!GpuAssumption
    /\ Drives!StorageAssumption /\ Listed!LazyListViewAssumption
    /\ Below!FileSystemModelAssumption /\ Cached!CacherAssumption
    /\ Colours!AnalyserAssumption /\ Toast!ToasterAssumption
    /\ Flow!BlobsAssumption

lyricsVars == <<track, preferred, backend, selected, candidates, offset,
                shownLyrics, hasLyrics, loading, debounce, inFlight, prefs,
                cachedLyrics, lyricsUsed, early>>
audioVars == <<service, living, destroyed, refs, inbox, posted, home, senders,
               capture, crashed>>
collectorVars == <<buffer, read, write, writer, reader, chunks, stream,
                   timer, idle, stopping, running>>
cavaVars == <<bars, values, toProcessor, plan, lastValues, toProvider>>
hyprVars == <<comp, changed, events, sockets, current, options, keyboards,
              age, told, lost>>
gpuVars == <<userType, gpuType, gpuName, named, gpuUsage, generation,
             querying, gpuRunning, procs>>
diskInfoVars == <<found, roots, disks, manual, hasRoot, dying, interval,
                  disksRunning, disksTimer, shownDisks, shownManual,
                  shownPrimary>>
listVars == <<model, top, list, used>>
fileVars == <<path, entries, futures, scans, watched, vanished, watchScans,
              rows, dirs, diskFiles, dirsChanged, filesUsed>>
cacherVars == <<file, cached, inflight, request, job, mixed>>
colourVars == <<source, icon, itemShown, hooked, grabs, future, colour>>
toastVars == <<toasts, new, closed, timers, locks, fullscreen, wrappers,
               leaving, animated>>
blobVars == <<members, smoothing, frameBorder, exclude, shapes, physics,
              shapesDirty, shapesPosted, picture, blobsUsed>>
allVars == <<part, lyricsVars, audioVars, collectorVars, cavaVars, hyprVars,
              gpuVars, diskInfoVars, listVars, fileVars, cacherVars,
              colourVars, toastVars, blobVars>>

\* The others wait: where nothing of a part is needed, its variables are 0.
RunInit ==
    /\ part \in Parts
    /\ Words!LyricsInit
    /\ Users!ServiceInit
    /\ Sound!CollectorInit
    /\ Spectrum!Init
    /\ Hypr!HyprInit /\ (part # "compositor" => comp.keyboards = << >>)
    /\ Card!GpuInit /\ (part # "gpu" => userType = "None")
    /\ Drives!Init /\ (part # "disks" => found = {})
    /\ Listed!Init /\ (part # "list" => model = << >> /\ top = 0)
    /\ Below!Init /\ (part # "tree" => dirs = {} /\ diskFiles = {})
    /\ Cached!CacherInit /\ (part # "cacher" => file = text)
    /\ Colours!ColourInit /\ (part # "analyser" => icon = None)
    /\ Toast!ToasterInit
    /\ \/ part = "blobs" /\ Flow!Init
       \/ part # "blobs" /\ members = 0 /\ smoothing = 0 /\ frameBorder = 0
          /\ exclude = 0 /\ shapes = 0 /\ physics = 0 /\ shapesDirty = 0
          /\ shapesPosted = 0 /\ picture = 0 /\ blobsUsed = 0

OnlyMoves(p) ==
    /\ part = p /\ part' = p
    /\ IF p = "lyrics" THEN TRUE ELSE UNCHANGED lyricsVars
    /\ IF p = "audio" THEN TRUE ELSE UNCHANGED audioVars
    /\ IF p = "collector" THEN TRUE ELSE UNCHANGED collectorVars
    /\ IF p = "cava" THEN TRUE ELSE UNCHANGED cavaVars
    /\ IF p = "compositor" THEN TRUE ELSE UNCHANGED hyprVars
    /\ IF p = "gpu" THEN TRUE ELSE UNCHANGED gpuVars
    /\ IF p = "disks" THEN TRUE ELSE UNCHANGED diskInfoVars
    /\ IF p = "list" THEN TRUE ELSE UNCHANGED listVars
    /\ IF p = "tree" THEN TRUE ELSE UNCHANGED fileVars
    /\ IF p = "cacher" THEN TRUE ELSE UNCHANGED cacherVars
    /\ IF p = "analyser" THEN TRUE ELSE UNCHANGED colourVars
    /\ IF p = "toasts" THEN TRUE ELSE UNCHANGED toastVars
    /\ IF p = "blobs" THEN TRUE ELSE UNCHANGED blobVars

RunNext ==
    \/ OnlyMoves("lyrics") /\ Words!LyricsNext
    \/ OnlyMoves("audio") /\ Users!ServiceNext
    \/ OnlyMoves("collector") /\ Sound!CollectorNext
    \/ OnlyMoves("cava") /\ Spectrum!Next
    \/ OnlyMoves("compositor") /\ Hypr!HyprNext
    \/ OnlyMoves("gpu") /\ Card!GpuNext
    \/ OnlyMoves("disks") /\ Drives!Next
    \/ OnlyMoves("list") /\ Listed!Next
    \/ OnlyMoves("tree") /\ Below!Next
    \/ OnlyMoves("cacher") /\ Cached!CacherNext
    \/ OnlyMoves("analyser") /\ Colours!ColourNext
    \/ OnlyMoves("toasts") /\ Toast!ToasterNext
    \/ OnlyMoves("blobs") /\ Flow!Next

RunSpec == RunInit /\ [][RunNext]_allVars

\* Replies come and debounces end; the threads of the audio service do what is
\* posted to them, and the capture thread gets on.
SoundFairness ==
    /\ WF_lyricsVars(part = "lyrics" /\ Words!DoLoad)
    /\ WF_lyricsVars(part = "lyrics" /\ \E r \in inFlight : Words!Finished(r))
    /\ \A p \in {cava, beat} : WF_audioVars(part = "audio" /\ Users!Process(p))
    /\ WF_audioVars(part = "audio" /\ Users!Collect)
    /\ WF_collectorVars(part = "collector" /\ Sound!HandleTimeout)
    /\ WF_collectorVars(part = "collector" /\ Sound!ProcessStream)
    /\ \A t \in Sound!Threads :
          /\ WF_collectorVars(part = "collector" /\ Sound!WriteSample(t))
          /\ WF_collectorVars(part = "collector" /\ Sound!Exchange(t))
          /\ WF_collectorVars(part = "collector" /\ Sound!StoreWriteBuffer(t))
    /\ WF_cavaVars(part = "cava" /\ Spectrum!Reload)
    /\ WF_cavaVars(part = "cava" /\ Spectrum!Process)
    /\ WF_cavaVars(part = "cava" /\ Spectrum!UpdateValues)

\* The compositor answers and its sockets are read; programs end, timers tick,
\* and the loop deletes what was left to it.
DeviceFairness ==
    /\ WF_hyprVars(part = "compositor" /\ Hypr!ReadEvent)
    /\ \A s \in {1, 2} :
          /\ WF_hyprVars(part = "compositor" /\ Hypr!Respond(s))
          /\ WF_hyprVars(part = "compositor"
                           /\ (Hypr!Answer(s, TRUE) \/ Hypr!Answer(s, FALSE)))
    /\ WF_gpuVars(part = "gpu" /\ Card!Ticks)
    /\ \A p \in Card!Asked : WF_gpuVars(part = "gpu" /\ Card!Ends(p))
    /\ WF_diskInfoVars(part = "disks" /\ Drives!Tick)
    /\ \A i \in Drives!Infos : WF_diskInfoVars(part = "disks" /\ Drives!Delete(i))

\* Worker threads and event loops do not stop, what is shown is drawn, timers
\* fire and animations end; images are asked for again, and the springs of
\* shapes that do not move lose their energy.
ViewFairness ==
    /\ WF_listVars(part = "list" /\ Listed!Polish)
    /\ WF_listVars(part = "list" /\ Listed!RelayoutTimer)
    /\ WF_listVars(part = "list" /\ \E item \in 1 .. 6 : Listed!DelayEnds(item))
    /\ WF_fileVars(part = "tree" /\ Below!Scans)
    /\ WF_fileVars(part = "tree" /\ Below!Watches)
    /\ WF_fileVars(part = "tree" /\ Below!Notifies)
    /\ WF_cacherVars(part = "cacher" /\ Cached!StartRequest(q1))
    /\ WF_cacherVars(part = "cacher" /\ Cached!RunRequest(q1))
    /\ \A j \in {j1, j2} : WF_cacherVars(part = "cacher" /\ Cached!RunJob(j))
    /\ WF_colourVars(part = "analyser" /\ Colours!GrabReady)
    /\ WF_colourVars(part = "analyser" /\ Colours!BeginAnalysis)
    /\ WF_colourVars(part = "analyser" /\ Colours!Analyse)
    /\ WF_colourVars(part = "analyser" /\ Colours!AnalysisFinished)
    /\ \A t \in {charger, layout, battery} :
          WF_toastVars(part = "toasts" /\ Toast!Timeout(t))
    /\ \A w \in Toast!Wrappers :
          /\ WF_toastVars(part = "toasts" /\ Toast!Animated(w))
          /\ WF_toastVars(part = "toasts" /\ Toast!Destroyed(w))
    /\ WF_blobVars(part = "blobs" /\ Flow!Polishes)
    /\ SF_blobVars(part = "blobs" /\ Flow!PolishAtRest)
    /\ \A r \in {red, blue} : WF_blobVars(part = "blobs" /\ Flow!RunPosted(r))

FairSpec == RunSpec /\ SoundFairness /\ DeviceFairness /\ ViewFairness

---------------------------------------------------------------------------
(* Properties                                                              *)

\* Loading lyrics ends (LoadingEnds); capture follows use, stops and is silent
\* (CaptureFollowsUse, StopIsNoticed, PausedIsSilent); values come to be those of
\* the number of bars (SettlesOnBars).  What is shown becomes what the
\* compositor has (OptionsAreShown, KeyboardsAreShown), the GPU (NameSettles,
\* SamplesGoOn) and the disks (DisksArrive).
ServicesGoOn ==
    /\ Words!LoadingEnds
    /\ Users!CaptureFollowsUse
    /\ Sound!StopIsNoticed /\ Sound!PausedIsSilent
    /\ Spectrum!SettlesOnBars
    /\ <>[][~(part = "compositor" /\ Hypr!Asks)]_hyprVars =>
          <>[](part = "compositor" => Hypr!OptionsAreShown /\ Hypr!KeyboardsAreShown)
    /\ Card!NameSettles /\ Card!SamplesGoOn
    /\ Drives!DisksArrive

\* Polishing ends (Settled); a subdirectory comes to be watched
\* (SubdirsGetWatched), an image to be cached (ComesToBeCached), a colour to be
\* that of what is shown (ColourFollows), every toast goes (ToastsGo), and shapes
\* come to rest (SettlesDown).
ViewsGoOn ==
    /\ <>[](part = "list" => Listed!Settled)
    /\ Below!SubdirsGetWatched
    /\ Cached!ComesToBeCached
    /\ Colours!ColourFollows
    /\ Toast!ToastsGo
    /\ <>[](part = "blobs" => Flow!Quiet)
=============================================================================
