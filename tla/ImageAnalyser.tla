--------------------------- MODULE ImageAnalyser ---------------------------
(***************************************************************************)
(* The dominant colour of an image (ImageAnalyser).  It is asked for when  *)
(* the source changes, worked out in the pool, and for an item only once   *)
(* the item is shown and has been grabbed.  The user interface gives an    *)
(* analyser files or one item, never both.  A picture stands for its       *)
(* colour.                                                                 *)
(***************************************************************************)
EXTENDS Naturals

CONSTANTS
    ImageFiles,   \* the sources of an analyser of files
    Icons,        \* what the item of an analyser of an item shows
    NoImages,     \* files that are no image
    Blank,        \* no file, no item and no result
    MaxGrabs      \* bound on grabs asked for

ASSUME AnalyserAssumption ==
    /\ NoImages \subseteq ImageFiles /\ Blank \notin ImageFiles \cup Icons /\ MaxGrabs \in Nat

VARIABLES
    source,       \* m_source
    icon,         \* what the item shows, Blank for an analyser of files
    itemShown,    \* whether the item has a window and a size
    hooked,       \* requestUpdate is connected to what the item lacks
    grabs,        \* grabs that are not ready
    future,       \* of the watcher: where it is, what it is of, and whether it is cancelled
    colour        \* m_dominantColour
colourVars == <<source, icon, itemShown, hooked, grabs, future, colour>>

NoFuture == [at |-> "none", of |-> Blank, cancelled |-> FALSE]
OfItem == icon # Blank

\* setFuture: the watcher forgets the future before.
SetFuture(of) == future' = [at |-> "waiting", of |-> of, cancelled |-> FALSE]

\* What is under way is cancelled.
WithFutureCancelled == [future EXCEPT !.cancelled = TRUE]

\* requestUpdate and update for an item
AskItem(visible) ==
    IF visible THEN /\ grabs < MaxGrabs /\ grabs' = grabs + 1
                    /\ future' = WithFutureCancelled /\ UNCHANGED hooked
    ELSE hooked' = TRUE /\ UNCHANGED <<grabs, future>>

\* An analysis that is under way is not started again.
MutSetSource(file) ==
    /\ ~OfItem /\ file # source
    /\ source' = file
    /\ IF file = Blank \/ future.at # "none" THEN UNCHANGED future ELSE SetFuture(Blank)
    /\ UNCHANGED <<icon, itemShown, hooked, grabs, colour>>

\* setSource
SetSource(file) ==
    /\ ~OfItem /\ file # source
    /\ source' = file
    /\ IF file = Blank THEN UNCHANGED future ELSE SetFuture(Blank)
    /\ UNCHANGED <<icon, itemShown, hooked, grabs, colour>>

\* setRescaleSize
SetRescaleSize ==
    /\ IF OfItem THEN AskItem(itemShown)
       ELSE /\ UNCHANGED <<hooked, grabs>>
            /\ IF source = Blank THEN UNCHANGED future ELSE SetFuture(Blank)
    /\ UNCHANGED <<source, icon, itemShown, colour>>

\* The item shows something else, and asks (ColouredIcon).
SetIcon(new) ==
    /\ OfItem /\ new # icon /\ icon' = new
    /\ AskItem(itemShown)
    /\ UNCHANGED <<source, itemShown, colour>>

\* The item is shown: what was connected to that is called once.
ShowItem ==
    /\ OfItem /\ ~itemShown /\ itemShown' = TRUE
    /\ IF hooked THEN /\ grabs < MaxGrabs /\ grabs' = grabs + 1
                      /\ hooked' = FALSE /\ future' = WithFutureCancelled
       ELSE UNCHANGED <<hooked, grabs, future>>
    /\ UNCHANGED <<source, icon, colour>>

HideItem ==
    /\ OfItem /\ itemShown /\ itemShown' = FALSE
    /\ UNCHANGED <<source, icon, hooked, grabs, future, colour>>

\* A grab is ready: its image is of what is shown then.
GrabReady ==
    /\ grabs > 0 /\ itemShown
    /\ grabs' = grabs - 1
    /\ SetFuture(icon)
    /\ UNCHANGED <<source, icon, itemShown, hooked, colour>>

\* A thread of the pool starts; the file is read from m_source as it is now.
BeginAnalysis ==
    /\ future.at = "waiting"
    /\ future' = [future EXCEPT !.at = "running", !.of = IF OfItem THEN @ ELSE source]
    /\ UNCHANGED <<source, icon, itemShown, hooked, grabs, colour>>

\* analyse; there is no result of what is no image or was cancelled.
Analyse ==
    /\ future.at = "running"
    /\ future' = [future EXCEPT
          !.at = "finished",
          !.of = IF future.cancelled \/ (~OfItem /\ @ \in NoImages) THEN Blank ELSE @]
    /\ UNCHANGED <<source, icon, itemShown, hooked, grabs, colour>>

\* finished
AnalysisFinished ==
    /\ future.at = "finished"
    /\ colour' = IF future.of = Blank THEN colour ELSE future.of
    /\ future' = NoFuture
    /\ UNCHANGED <<source, icon, itemShown, hooked, grabs>>

\* An analyser of an item is given it when it is made.
ColourInit ==
    /\ source = Blank
    /\ icon \in Icons \cup {Blank}
    /\ itemShown = FALSE /\ hooked = OfItem /\ grabs = 0
    /\ future = NoFuture /\ colour = "black"

ColourNext ==
    \/ \E file \in ImageFiles \cup {Blank} : SetSource(file)
    \/ \E new \in Icons : SetIcon(new)
    \/ SetRescaleSize \/ ShowItem \/ HideItem \/ GrabReady
    \/ BeginAnalysis \/ Analyse \/ AnalysisFinished

ColourSpec == ColourInit /\ [][ColourNext]_colourVars

\* What is shown is drawn, and the pool and the loop run.
LiveColourSpec ==
    /\ ColourSpec
    /\ WF_colourVars(GrabReady) /\ WF_colourVars(BeginAnalysis)
    /\ WF_colourVars(Analyse) /\ WF_colourVars(AnalysisFinished)

\* --------------------------------------------------------- properties

ColourTypeOK ==
    /\ source \in ImageFiles \cup {Blank} /\ icon \in Icons \cup {Blank}
    /\ itemShown \in BOOLEAN /\ hooked \in BOOLEAN /\ grabs \in 0..MaxGrabs
    /\ future \in [at : {"none", "waiting", "running", "finished"},
                   of : ImageFiles \cup Icons \cup {Blank}, cancelled : BOOLEAN]
    /\ colour \in ImageFiles \cup Icons \cup {"black"}

\* When nothing is under way or waits for the item to be shown, the colour is
\* that of what there is now, in whatever order grabs and analyses ended
\* (requestUpdate, update, finished).
QuietIsRight ==
    grabs = 0 /\ future.at = "none" /\ ~hooked =>
        /\ source \in ImageFiles \ NoImages => colour = source
        /\ OfItem => colour = icon

\* An analyser only has colours of its files or its item, and at rest that of
\* the present one (QuietIsRight).
ColoursAreRight == ColourTypeOK /\ QuietIsRight

\* A source that stays, or an icon that stays and is shown, gets its colour,
\* unless its size keeps being changed (requestUpdate, update, analyse).
ColourFollows ==
    <>[][~SetRescaleSize]_colourVars =>
        /\ \A file \in ImageFiles \ NoImages : <>[](source = file) => <>[](colour = file)
        /\ \A it \in Icons : <>[](icon = it /\ itemShown) => <>[](colour = it)
=============================================================================
