----------------------------- MODULE MCServices -----------------------------
(***************************************************************************)
(* Small instances of the settings in a file, of the codecs of their       *)
(* values, and of the native services: lyrics, audio, the compositor, GPU  *)
(* and disks.  They share no state here: each is explored by itself.       *)
(***************************************************************************)
EXTENDS Integers, SettingsFile, Codecs, Lyrics, AudioService, AudioCollector, Gpu,
        HyprExtras, TLC

CONSTANTS
    Parts,   \* those below, and "settings", that a run explores
    plain, list, v, s1, s2, cava, beat, r1, r2, laptop, us,
    low, LOW, high, other, lo, eth, wifi

\* An object with a set option and a value that is not decoded, one with a
\* list, and the files that are no object.
FewEdits == {(plain :> v) @@ (list :> Bad), (plain :> Bad) @@ (list :> v),
             Garbled, Alien}

\* Strings, one of them in two cases; two names of one value, and one of the
\* next.  Numbers are in halves, around the range of an int, -2..1.
SmallestInt == -2
FewNumbers == {-6, -5, -4, -1, 0, 2, 3, 4}
FewStrings == {low, LOW, high, other}
WithoutCase == [s \in FewStrings |-> IF s = LOW THEN low ELSE s]
FewKeys == <<[key |-> low, value |-> 0], [key |-> high, value |-> 0],
             [key |-> other, value |-> 1]>>

\* 3 is a partition of 1, 2 and 4 may be mapped; 11 and 12 are data sets.
OnePartition == 3 :> 1
Sizes == [d \in {1, 2, 3, 4} |-> 2^d] @@ 11 :> 5 @@ 12 :> 7

VARIABLES
    part,   \* the one that moves
    \* CavaProvider
    bars, values, toProcessor, plan, lastValues, toProvider,
    \* Storage
    found, roots, disks, manual, hasRoot, dying, interval, disksRunning,
    disksTimer, shownDisks, shownManual, shownPrimary,
    \* CircularBuffer
    ring,
    \* NetworkUsage
    counters, transferred, initialized, prev, total, download, upload,
    \* PhysicalDisks
    slaves, mounts, byDisk

Spectrum == INSTANCE CavaProvider WITH
    Bars <- {-1, 1, 2}, Peaks <- {0, 81}, MaxPosted <- 2
Drives == INSTANCE Storage WITH
    Disks <- {1, 2, 3}, Intervals <- {0, 500, 1000},
    running <- disksRunning, timer <- disksTimer
Ring == INSTANCE CircularBuffer WITH
    Samples <- 0 .. 2, Capacities <- 0 .. 4, buffer <- ring
Traffic == INSTANCE NetworkUsage WITH
    Interfaces <- {lo, eth, wifi}, Loopback <- lo, HistoryLength <- 1,
    MaxDown <- 1, MaxUp <- 1
Mounts == INSTANCE PhysicalDisks WITH
    Nodes <- 1 .. 4, PartitionOf <- OnePartition, Datasets <- {11, 12},
    Pool <- 10, Size <- Sizes, MaxMounts <- 3

ASSUME PartsAssumption ==
    /\ Spectrum!CavaAssumption /\ Drives!StorageAssumption
    /\ Ring!CircularBufferAssumption /\ Traffic!NetworkUsageAssumption
    /\ Mounts!PhysicalDisksAssumption

cavaVars == <<bars, values, toProcessor, plan, lastValues, toProvider>>
diskInfoVars == <<found, roots, disks, manual, hasRoot, dying, interval,
                  disksRunning, disksTimer, shownDisks, shownManual,
                  shownPrimary>>
ringVars == <<ring>>
trafficVars == <<counters, transferred, initialized, prev, total, download,
                 upload>>
mountVars == <<slaves, mounts, byDisk>>
allVars == <<part, vars, codecVars, lyricsVars, audioVars, collectorVars,
              cavaVars, hyprVars, gpuVars, diskInfoVars, ringVars,
              trafficVars, mountVars>>

\* The others wait: where nothing of a part is needed, its variables are 0.
RunInit ==
    /\ part \in Parts
    /\ Init
    /\ part # "settings" => dir = "missing"
    /\ LyricsInit
    /\ ServiceInit
    /\ CollectorInit
    /\ GpuInit /\ (part # "gpu" => userType = "None")
    /\ HyprInit /\ (part # "compositor" => comp.keyboards = << >>)
    /\ CodecInit
    /\ part # "codecs" => optionType = "bool" /\ saved = <<"null", 0>>
    /\ \/ part = "cava" /\ Spectrum!Init
       \/ part # "cava" /\ bars = 0 /\ values = 0 /\ toProcessor = 0
          /\ plan = 0 /\ lastValues = 0 /\ toProvider = 0
    /\ \/ part = "disks" /\ Drives!Init
       \/ part # "disks" /\ found = 0 /\ roots = 0 /\ disks = 0 /\ manual = 0
          /\ hasRoot = 0 /\ dying = 0 /\ interval = 0 /\ disksRunning = 0
          /\ disksTimer = 0 /\ shownDisks = 0 /\ shownManual = 0
          /\ shownPrimary = 0
    /\ \/ part = "ring" /\ Ring!Init
       \/ part # "ring" /\ ring = 0
    /\ \/ part = "traffic" /\ Traffic!Init
       \/ part # "traffic" /\ counters = 0 /\ transferred = 0
          /\ initialized = 0 /\ prev = 0 /\ total = 0 /\ download = 0
          /\ upload = 0
    /\ \/ part = "mounts" /\ Mounts!Init
       \/ part # "mounts" /\ slaves = 0 /\ mounts = 0 /\ byDisk = 0

OnlyMoves(p) ==
    /\ part = p /\ part' = p
    /\ IF p = "settings" THEN TRUE ELSE UNCHANGED vars
    /\ IF p = "codecs" THEN TRUE ELSE UNCHANGED codecVars
    /\ IF p = "lyrics" THEN TRUE ELSE UNCHANGED lyricsVars
    /\ IF p = "audio" THEN TRUE ELSE UNCHANGED audioVars
    /\ IF p = "collector" THEN TRUE ELSE UNCHANGED collectorVars
    /\ IF p = "cava" THEN TRUE ELSE UNCHANGED cavaVars
    /\ IF p = "compositor" THEN TRUE ELSE UNCHANGED hyprVars
    /\ IF p = "gpu" THEN TRUE ELSE UNCHANGED gpuVars
    /\ IF p = "disks" THEN TRUE ELSE UNCHANGED diskInfoVars
    /\ IF p = "ring" THEN TRUE ELSE UNCHANGED ringVars
    /\ IF p = "traffic" THEN TRUE ELSE UNCHANGED trafficVars
    /\ IF p = "mounts" THEN TRUE ELSE UNCHANGED mountVars

RunNext ==
    \/ OnlyMoves("settings") /\ Next
    \/ OnlyMoves("codecs") /\ CodecNext
    \/ OnlyMoves("lyrics") /\ LyricsNext
    \/ OnlyMoves("audio") /\ ServiceNext
    \/ OnlyMoves("collector") /\ CollectorNext
    \/ OnlyMoves("cava") /\ Spectrum!Next
    \/ OnlyMoves("compositor") /\ HyprNext
    \/ OnlyMoves("gpu") /\ GpuNext
    \/ OnlyMoves("disks") /\ Drives!Next
    \/ OnlyMoves("ring") /\ Ring!Next
    \/ OnlyMoves("traffic") /\ Traffic!Next
    \/ OnlyMoves("mounts") /\ Mounts!Next

RunSpec == RunInit /\ [][RunNext]_allVars

---------------------------------------------------------------------------
(* Properties, beside those of SettingsFile, Codecs, Lyrics, AudioService,  *)
(* AudioCollector and HyprExtras                                            *)

\* Peaks spread both ways, and the processor has the number of bars of the
\* provider or will get it (PeaksSpreadBothWays, ProcessorFollows).  The name
\* of the GPU is that of the type the user chose (GpuIsRight), and the list of
\* disks QML knows is the list there is (ListIsAnnounced).  Traffic that is
\* counted was there and no interface's is counted twice (NothingIsInvented),
\* and the two histories are of the same ticks (HistoriesAgree).
DevicesAreShown ==
    /\ part = "gpu" => GpuIsRight
    /\ part = "cava" =>
          Spectrum!TypeOK /\ Spectrum!PeaksSpreadBothWays /\ Spectrum!ProcessorFollows
    /\ part = "disks" => Drives!TypeOK /\ Drives!ListIsAnnounced
    /\ part = "ring" => Ring!TypeOK
    /\ part = "traffic" =>
          /\ Traffic!TypeOK /\ Traffic!NothingIsInvented /\ Traffic!HistoriesAgree

\* What is shown of the compositor never goes back to an older answer
\* (NotOlder), the disk the user chose stays chosen while it is there
\* (KeepsTheChoice), every step of the ring of samples is one of the window of
\* the latest values it stands for (SlidingWindow), and a file system
\* contributes once to its disk, a pool by one representative
\* (CountsOncePerDisk, RepresentsThePool).
DevicesMoveOn ==
    [][/\ part = "compositor" => NotOlder
       /\ part = "disks" => Drives!KeepsTheChoice
       /\ part = "ring" => Ring!IsAWindowStep
       /\ part = "mounts" =>
             Mounts!CountsOncePerDisk /\ Mounts!RepresentsThePool]_allVars
=============================================================================
