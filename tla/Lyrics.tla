------------------------------- MODULE Lyrics -------------------------------
(***************************************************************************)
(* The lyrics of the song that plays (class Lyrics): which of the local    *)
(* files, LRCLIB and NetEase they come from, the candidates of the picker, *)
(* the choice kept per track, and the replies that arrive late.            *)
(*                                                                         *)
(* A song stands for its name and for the id a service gives it. Files of  *)
(* the user's lyrics directory come and go. Only replies with the newest   *)
(* request id count: current says that they have it. abort() emits         *)
(* finished before it returns, so the handlers of what is cancelled run    *)
(* inside cancelInFlight, with a request id that is still the newest.      *)
(***************************************************************************)
EXTENDS Naturals

CONSTANTS
    Songs,
    Offsets,       \* offsets of the lyrics
    None,          \* no track, no candidate
    MaxUser        \* bound: actions of the user

ASSUME LyricsAssumption ==
    None \notin Songs /\ 0 \in Offsets /\ MaxUser \in Nat

VARIABLES
    track, preferred, backend, selected, candidates, offset,
    shown,         \* the song of m_lines
    hasLyrics, loading,
    debounce,      \* m_loadDebounce runs
    inFlight,      \* replies that have not finished
    prefs,         \* m_lyricsMap
    cache,         \* the files written by writeCachedLrc
    used,          \* user actions so far
    early          \* history: setSelectedCandidate returned early in the last
                   \* load, and nothing was selected since

view == <<shown, hasLyrics, candidates, offset, selected, backend, loading>>
lyricsVars == <<track, preferred, view, debounce, inFlight, prefs, cache, used,
               early>>

Online == {"LRCLIB", "NetEase"}
Candidate == [backend : Online \cup {"Local"}, song : Songs]
NoCandidate == [backend |-> "Auto", song |-> None]

\* searches of the picker, tryLrclib, tryNetEase, and fetches by id
Kinds == {"searchLRCLIB", "searchNetEase", "get", "find", "LRCLIB", "NetEase"}
Reply(kind, song, tracked) ==
    [kind |-> kind, song |-> song, tracked |-> tracked, current |-> TRUE]
Searches == {Reply("searchLRCLIB", track, TRUE), Reply("searchNetEase", track, TRUE)}

LyricsInit ==
    /\ track = None /\ preferred = "Auto" /\ backend = "Auto"
    /\ selected = NoCandidate /\ candidates = {} /\ offset = 0
    /\ shown = None /\ hasLyrics = FALSE /\ loading = FALSE
    /\ debounce = FALSE /\ inFlight = {}
    /\ prefs = [s \in Songs |-> [offset |-> 0, choice |-> NoCandidate]]
    /\ cache = {} /\ used = 0 /\ early = FALSE

---------------------------------------------------------------------------
(* Requests                                                                *)

\* The reply the chain of backends waits for
Chain == {r \in inFlight : r.tracked /\ r.kind \notin {"searchLRCLIB", "searchNetEase"}}

\* cancelInFlight: a cancelled tryLrclib goes on to NetEase with a reply that
\* is not tracked any more, another one ends the loading.
CancelContinues == preferred = "Auto" /\ \E r \in Chain : r.kind = "get"
CancelEnds == Chain # {} /\ ~CancelContinues
Escaped == IF CancelContinues THEN {Reply("find", track, FALSE)} ELSE {}
Untracked == {r \in inFlight : ~r.tracked} \cup Escaped

\* Nothing is cancelled.
MutOutdated == inFlight

\* newRequestId after cancelInFlight: what is left does not count any more.
Outdated == {[r EXCEPT !.current = FALSE] : r \in Untracked}

Persist(entry, choice) ==
    prefs' = IF track = None THEN prefs
             ELSE [prefs EXCEPT ![track] =
                     [offset |-> entry,
                      choice |-> IF choice = NoCandidate THEN @.choice ELSE choice]]

\* readCachedLrc, writeCachedLrc
Cached(c) == c \in cache
WriteCached(c) == cache' = cache \cup {c}

SetLines(song, source) == shown' = song /\ hasLyrics' = TRUE /\ backend' = source

---------------------------------------------------------------------------
(* The user and the player                                                 *)

UserActs == used < MaxUser /\ used' = used + 1

SetTrack(t) ==
    /\ UserActs
    /\ t # track
    /\ track' = t /\ debounce' = TRUE
    /\ UNCHANGED <<preferred, view, inFlight, prefs, cache, early>>

ClearTrack ==
    /\ UserActs
    /\ inFlight' = Untracked
    /\ backend' = IF CancelContinues THEN "NetEase" ELSE backend
    /\ track' = None /\ candidates' = {} /\ hasLyrics' = FALSE /\ loading' = FALSE
    /\ UNCHANGED <<preferred, selected, offset, shown, debounce, prefs, cache, early>>

\* Also the setting lyricsBackend
SetPreferredBackend(b) ==
    /\ UserActs
    /\ b # preferred
    /\ preferred' = b /\ debounce' = TRUE
    /\ UNCHANGED <<track, view, inFlight, prefs, cache, early>>

\* Also the setting lyricsDir
Refresh ==
    /\ UserActs
    /\ debounce' = TRUE
    /\ UNCHANGED <<track, preferred, view, inFlight, prefs, cache, early>>

SetOffset(value) ==
    /\ UserActs
    /\ value # offset
    /\ offset' = value
    /\ Persist(value, selected)
    /\ UNCHANGED <<track, preferred, shown, hasLyrics, candidates, selected, backend,
                   loading, debounce, inFlight, cache, early>>

\* setSelectedCandidate of another candidate, from the cache, from the network or
\* from a file, which may be gone
ShowSelected(c) ==
    \/ /\ Cached(c) \/ c.backend = "Local"
       /\ SetLines(c.song, c.backend) /\ loading' = FALSE
       /\ inFlight' = Outdated
    \/ /\ ~Cached(c) /\ c.backend \in Online
       /\ inFlight' = Outdated \cup {Reply(c.backend, c.song, TRUE)}
       /\ backend' = IF CancelContinues THEN "NetEase" ELSE c.backend
       /\ loading' = ~CancelEnds
       /\ UNCHANGED <<shown, hasLyrics>>
    \/ /\ c.backend = "Local"
       /\ backend' = IF CancelContinues THEN "NetEase" ELSE c.backend
       /\ loading' = FALSE /\ inFlight' = Outdated
       /\ UNCHANGED <<shown, hasLyrics>>

Select(c) ==
    /\ UserActs
    /\ c \in candidates /\ c # selected
    /\ selected' = c /\ early' = FALSE
    /\ ShowSelected(c)
    /\ Persist(offset, c)
    /\ UNCHANGED <<track, preferred, candidates, offset, debounce, cache>>

---------------------------------------------------------------------------
(* Loading                                                                 *)

\* tryLocal with a file
FoundLocal ==
    LET found == [backend |-> "Local", song |-> track] IN
    /\ SetLines(track, "Local") /\ loading' = FALSE
    /\ candidates' = {found} /\ selected' = found
    /\ Persist(prefs[track].offset, found)
    /\ inFlight' = Outdated \cup Searches

\* and without: the chain goes on, or ends.
NotFoundLocal ==
    /\ hasLyrics' = FALSE /\ candidates' = {}
    /\ \/ /\ preferred = "Auto"
          /\ backend' = "LRCLIB" /\ loading' = TRUE
          /\ inFlight' = Outdated \cup Searches \cup {Reply("get", track, TRUE)}
       \/ /\ preferred = "Local"
          /\ backend' = "Local" /\ loading' = FALSE
          /\ inFlight' = Outdated \cup Searches
    /\ UNCHANGED <<shown, selected, prefs>>

TryOnline ==
    /\ hasLyrics' = FALSE /\ candidates' = {} /\ loading' = TRUE
    /\ backend' = preferred
    /\ inFlight' = Outdated \cup Searches \cup
                   {Reply(IF preferred = "LRCLIB" THEN "get" ELSE "find", track, TRUE)}
    /\ UNCHANGED <<shown, selected, prefs>>

\* setSelectedCandidate of the choice kept for the track cancels the searches, or
\* does nothing if it is selected already.
Restore(c) ==
    /\ candidates' = {}
    /\ selected' = c
    /\ UNCHANGED prefs
    /\ \/ /\ c = selected
          /\ hasLyrics' = FALSE /\ loading' = TRUE
          /\ backend' = IF CancelContinues THEN "NetEase" ELSE backend
          /\ inFlight' = Outdated \cup Searches
          /\ UNCHANGED shown
       \/ /\ c # selected
          /\ \/ /\ Cached(c) \/ c.backend = "Local"
                /\ SetLines(c.song, c.backend) /\ loading' = FALSE
                /\ inFlight' = Outdated
             \/ /\ ~Cached(c) /\ c.backend \in Online
                /\ hasLyrics' = FALSE /\ loading' = TRUE /\ backend' = c.backend
                /\ inFlight' = Outdated \cup {Reply(c.backend, c.song, TRUE)}
                /\ UNCHANGED shown
             \/ /\ c.backend = "Local"
                /\ hasLyrics' = FALSE /\ loading' = FALSE /\ backend' = "Local"
                /\ inFlight' = Outdated
                /\ UNCHANGED shown

DoLoad ==
    /\ debounce
    /\ debounce' = FALSE
    /\ early' = (track # None /\ selected # NoCandidate /\ prefs[track].choice = selected)
    /\ \/ /\ track = None
          /\ hasLyrics' = FALSE /\ candidates' = {} /\ loading' = FALSE
          /\ UNCHANGED <<shown, backend, selected, offset, inFlight, prefs>>
       \/ /\ track # None
          /\ offset' = prefs[track].offset
          /\ \/ prefs[track].choice # NoCandidate /\ Restore(prefs[track].choice)
             \/ /\ prefs[track].choice = NoCandidate
                /\ \/ preferred \in {"Auto", "Local"} /\ (FoundLocal \/ NotFoundLocal)
                   \/ preferred \in Online /\ TryOnline
    /\ UNCHANGED <<track, preferred, cache, used>>

---------------------------------------------------------------------------
(* Replies                                                                 *)

\* The chain stops, but loading goes on.
MutEnd(rest) ==
    inFlight' = rest /\ UNCHANGED <<view, prefs, cache>>

\* setLoading(false) where the chain ends
End(rest) ==
    /\ inFlight' = rest /\ loading' = FALSE
    /\ UNCHANGED <<shown, hasLyrics, candidates, offset, selected, backend, prefs, cache>>

Goes(rest, next, source) ==
    /\ inFlight' = rest \cup {next}
    /\ backend' = source
    /\ UNCHANGED <<shown, hasLyrics, candidates, offset, selected, loading, prefs, cache>>

\* tryLrclib: the song, or chainNext
GetFinished(r, rest) ==
    \/ LET c == [backend |-> "LRCLIB", song |-> r.song] IN
       /\ WriteCached(c) /\ candidates' = candidates \cup {c}
       /\ selected' = c
       /\ SetLines(r.song, "LRCLIB") /\ loading' = FALSE
       /\ Persist(offset, c)
       /\ inFlight' = rest /\ UNCHANGED offset
    \/ preferred = "Auto" /\ Goes(rest, Reply("find", track, TRUE), "NetEase")
    \/ preferred # "Auto" /\ End(rest)

\* tryNetEase: an artist that matches, or the end of the chain
FindFinished(r, rest) ==
    Goes(rest, Reply("NetEase", r.song, TRUE), backend) \/ End(rest)

\* fetchLrclibById, fetchNetEaseLyricsById
FetchFinished(r, rest) ==
    \/ /\ WriteCached([backend |-> r.kind, song |-> r.song])
       /\ SetLines(r.song, r.kind) /\ loading' = FALSE
       /\ inFlight' = rest
       /\ UNCHANGED <<candidates, offset, selected, prefs>>
    \/ End(rest)

SearchFinished(r, rest, source) ==
    /\ candidates' \in {candidates, candidates \cup {[backend |-> source, song |-> r.song]}}
    /\ inFlight' = rest
    /\ UNCHANGED <<shown, hasLyrics, offset, selected, backend, loading, prefs, cache>>

Counts(r) == r.current

Finished(r) ==
    LET rest == inFlight \ {r} IN
    /\ \/ /\ ~Counts(r)
          /\ inFlight' = rest /\ UNCHANGED <<view, prefs, cache>>
       \/ /\ Counts(r)
          /\ \/ r.kind = "get" /\ GetFinished(r, rest)
             \/ r.kind = "find" /\ FindFinished(r, rest)
             \/ r.kind \in Online /\ FetchFinished(r, rest)
             \/ r.kind = "searchLRCLIB" /\ SearchFinished(r, rest, "LRCLIB")
             \/ r.kind = "searchNetEase" /\ SearchFinished(r, rest, "NetEase")
    /\ UNCHANGED <<track, preferred, debounce, used, early>>

UserOrPlayer == \/ \E s \in Songs : SetTrack(s)
        \/ ClearTrack \/ Refresh
        \/ \E b \in Online \cup {"Auto", "Local"} : SetPreferredBackend(b)
        \/ \E o \in Offsets : SetOffset(o)
        \/ \E c \in candidates : Select(c)

LyricsNext == UserOrPlayer \/ DoLoad \/ \E r \in inFlight : Finished(r)

\* The debounce ends and the network answers, fails or times out.
LyricsFairness == WF_lyricsVars(DoLoad) /\ WF_lyricsVars(\E r \in inFlight : Finished(r))

LyricsSpec == LyricsInit /\ [][LyricsNext]_lyricsVars
LyricsFairSpec == LyricsSpec /\ LyricsFairness

---------------------------------------------------------------------------
(* Properties                                                              *)

LyricsTypeOK ==
    /\ track \in Songs \cup {None}
    /\ preferred \in Online \cup {"Auto", "Local"}
    /\ backend \in Online \cup {"Auto", "Local"}
    /\ selected \in Candidate \cup {NoCandidate} /\ candidates \subseteq Candidate
    /\ offset \in Offsets /\ shown \in Songs \cup {None}
    /\ hasLyrics \in BOOLEAN /\ loading \in BOOLEAN /\ debounce \in BOOLEAN
    /\ inFlight \subseteq [kind : Kinds, song : Songs, tracked : BOOLEAN, current : BOOLEAN]
    /\ prefs \in [Songs -> [offset : Offsets, choice : Candidate \cup {NoCandidate}]]
    /\ cache \subseteq Candidate
    /\ used \in Nat

\* The picker offers what was found for this track, whatever replies of an
\* earlier one arrive late.
CandidatesAreOfTheTrack ==
    ~debounce => \A c \in candidates : c.song = track

\* Once the load has begun the lyrics on the screen are those of the track, or of
\* the choice kept for it.
ShownIsOfTheTrack ==
    ~debounce /\ hasLyrics /\ track # None =>
        shown = track \/ shown = prefs[track].choice.song

\* Nothing waits for two answers of the chain of backends at once.
OneChain == \A r, s \in inFlight : r \in Chain /\ s \in Chain => r = s

\* Whatever is late, what is offered and shown is of the track or of the choice
\* kept for it, and one backend is asked at a time.
LyricsAreOfTheTrack ==
    LyricsTypeOK /\ CandidatesAreOfTheTrack /\ ShownIsOfTheTrack /\ OneChain

\* Loading ends, whatever fails, except where the load found the choice kept for
\* the track selected already: setSelectedCandidate returns, load returns after
\* it, and nothing ends the loading, until another candidate is selected.
LoadingEnds == []<>(~loading \/ early)

\* A search for the picker follows each load of a track, whichever backend is
\* preferred, as lyrics.cpp:386 says of those with a saved choice.
PickerIsFilled ==
    [][DoLoad /\ track # None => Searches \subseteq inFlight']_lyricsVars
=============================================================================
