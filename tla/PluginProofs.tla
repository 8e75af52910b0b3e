---------------------------- MODULE PluginProofs ----------------------------
(***************************************************************************)
(* Proofs about Lyrics, AudioCollector, Toaster, ImageCacher, Gpu,         *)
(* AudioService and ImageAnalyser, for every set of songs, of screens and  *)
(* toasts, of requests and jobs, of providers and their users, of files    *)
(* and icons, every number of resolutions and every size of a chunk.       *)
(***************************************************************************)
EXTENDS Lyrics, AudioCollector, Toaster, ImageCacher, Gpu, AudioService,
        ImageAnalyser, SequenceTheorems, FiniteSetTheorems, TLAPS

---------------------------------------------------------------------------
(* Lyrics: what replies may still do                                       *)

\* The replies that count and are not searches of the picker
ChainKinds == Kinds \ {"searchLRCLIB", "searchNetEase"}
Counting(r) == r.current /\ r.kind \in ChainKinds

\* A reply that is not tracked escaped a cancellation; what is tracked counts.
\* At most one reply of the chain counts, and without a track none of a load.
RepliesAreKnown ==
    /\ \A r \in inFlight : IF r.tracked THEN r.current ELSE r.kind = "find"
    /\ \A r, s \in inFlight : Counting(r) /\ Counting(s) => r = s
    /\ track = None => candidates = {}
                       /\ \A r \in inFlight : r.kind \in {"find", "NetEase"}

\* What is loaded is of the track,
OfTheTrack ==
    /\ \A c \in candidates : c.song = track
    /\ \A r \in inFlight : r.current => r.song = track
    /\ hasLyrics => shown = track

\* or is the choice kept for it, and then nothing is searched.
OfTheChoice ==
    LET choice == prefs[track].choice IN
    /\ candidates = {} /\ choice # NoCandidate /\ selected = choice
    /\ \A r \in inFlight : r.current => r.kind \in Online /\ r.song = choice.song
    /\ hasLyrics => shown = choice.song

LyricsInvariant ==
    /\ LyricsTypeOK /\ RepliesAreKnown
    /\ ~debounce /\ track # None => OfTheTrack \/ OfTheChoice

---------------------------------------------------------------------------
(* AudioCollector: who writes where                                        *)

Half == {1, 2}
Writer == [at : 0..ChunkSize, last : 0..ChunkSize, into : 0..2,
           chunk : 0..MaxChunks, old : 0..2]
Reader == [at : 0..ChunkSize + 1, from : 0..2, got : Seq(0..MaxChunks),
           was : Seq(0..MaxChunks), swapped : BOOLEAN]
Held == [1..ChunkSize -> 0..MaxChunks]

\* The buffers and those who use them
BuffersTyped ==
    /\ buffer \in [Half -> Held] /\ read \in Half /\ write \in Half
    /\ writer \in [Threads -> Writer] /\ reader \in Reader

WorkerTyped ==
    /\ chunks \in 0..MaxChunks
    /\ stream \in States /\ timer \in {"off", "fast", "slow"}
    /\ idle \in BOOLEAN /\ stopping \in BOOLEAN /\ running \in BOOLEAN

\* PipeWire calls while the timer of the loop is off, so one thread writes.
WritersTakeTurns ==
    /\ stream = "streaming" => timer = "off"
    /\ timer = "off" => ~Busy("loop")
    /\ Busy("rt") => timer = "off" /\ stream = "streaming"

\* A writer has looked the write buffer up, or is about to store the one it took
\* from the readers.
BuffersAreTwo ==
    /\ (\A t \in Threads : ~Busy(t)) => read # write
    /\ \A t \in Threads :
          IF Busy(t)
          THEN /\ writer[t].into = write
               /\ IF writer[t].old = 0 THEN read # write
                  ELSE /\ read = write /\ writer[t].old # write
                       /\ writer[t].at = writer[t].last
          ELSE writer[t] = NotWriting

\* A reader whose buffer was not exchanged has what it was, as far as it got.
ReaderIsTrue ==
    reader.at > 0 =>
        /\ Len(reader.got) = reader.at - 1 /\ Len(reader.was) = ChunkSize
        /\ reader.from \in Half
        /\ ~reader.swapped =>
              /\ reader.from = read /\ buffer[read] = reader.was
              /\ \A k \in 1..Len(reader.got) : reader.got[k] = reader.was[k]

SoundInvariant ==
    BuffersTyped /\ WorkerTyped /\ WritersTakeTurns /\ BuffersAreTwo /\ ReaderIsTrue

---------------------------------------------------------------------------
(* Lyrics: requests                                                        *)

AnyReply == [kind : Kinds, song : Songs, tracked : BOOLEAN, current : BOOLEAN]
AnyChoice == Candidate \cup {NoCandidate}
Entry == [offset : Offsets, choice : AnyChoice]

LEMMA ReplyFields ==
    ASSUME NEW kind \in Kinds, NEW song \in Songs, NEW tracked \in BOOLEAN
    PROVE  LET r == Reply(kind, song, tracked) IN
           /\ r \in AnyReply /\ r.kind = kind /\ r.song = song
           /\ r.tracked = tracked /\ r.current
    BY DEF Reply, AnyReply

LEMMA KindNames ==
    /\ {"searchLRCLIB", "searchNetEase"} \cap ChainKinds = {}
    /\ ChainKinds = {"get", "find", "LRCLIB", "NetEase"}
    /\ ChainKinds \subseteq Kinds /\ {"searchLRCLIB", "searchNetEase"} \subseteq Kinds
    /\ Online \subseteq ChainKinds /\ Online = {"LRCLIB", "NetEase"}
    BY DEF ChainKinds, Kinds, Online

LEMMA CandidateFields ==
    /\ NoCandidate \notin Candidate /\ NoCandidate.song = None
    /\ \A c \in Candidate : c.song \in Songs /\ c.backend \in Online \cup {"Local"}
    /\ \A b \in Online \cup {"Local"}, song \in Songs :
          LET c == [backend |-> b, song |-> song] IN c \in Candidate /\ c.song = song
    BY DEF NoCandidate, Candidate, Online

\* What is left of the replies when they are cancelled: none is tracked, and
\* the one that goes on is all that may count.
LEMMA LeftOver ==
    ASSUME LyricsTypeOK, RepliesAreKnown
    PROVE  /\ Untracked \subseteq AnyReply
           /\ \A r \in Untracked : ~r.tracked /\ r.kind = "find"
           /\ \A r, s \in Untracked : Counting(r) /\ Counting(s) => r = s
    <1>1. inFlight \subseteq AnyReply
        BY DEF LyricsTypeOK, AnyReply
    <1>2. CASE CancelContinues
        <2>1. PICK g \in inFlight : g.tracked /\ g.kind = "get"
            BY <1>2 DEF CancelContinues, Chain
        <2>2. track \in Songs /\ Counting(g)
            BY <2>1, KindNames DEF RepliesAreKnown, LyricsTypeOK, Counting
        <2>3. \A r \in inFlight : ~r.tracked => ~Counting(r)
            BY <2>1, <2>2 DEF RepliesAreKnown
        <2> DEFINE e == Reply("find", track, FALSE)
        <2>4. e \in AnyReply /\ ~e.tracked /\ e.kind = "find"
            BY <2>2, KindNames, ReplyFields
        <2>5. Untracked = {r \in inFlight : ~r.tracked} \cup {e}
            BY <1>2 DEF Untracked, Escaped
        <2> HIDE DEF e
        <2> QED BY <1>1, <2>3, <2>4, <2>5 DEF RepliesAreKnown
    <1>3. CASE ~CancelContinues
        <2>1. Untracked = {r \in inFlight : ~r.tracked}
            BY <1>3 DEF Untracked, Escaped
        <2> QED BY <1>1, <2>1 DEF RepliesAreKnown
    <1> QED BY <1>2, <1>3

\* A new request id: what is left counts no more.
LEMMA Renewed ==
    ASSUME LyricsTypeOK, RepliesAreKnown,
           NEW S \in SUBSET AnyReply, \A r \in S : r.tracked /\ r.current,
           \A r, s \in S : Counting(r) /\ Counting(s) => r = s,
           inFlight' = Outdated \cup S, track' = track, track # None
    PROVE  /\ inFlight' \subseteq AnyReply /\ RepliesAreKnown'
           /\ \A r \in inFlight' : r.current => r \in S
    <1>1. \A r \in Outdated : r \in AnyReply /\ ~r.tracked /\ ~r.current /\ r.kind = "find"
        <2> SUFFICES ASSUME NEW u \in Untracked
                     PROVE  LET r == [u EXCEPT !.current = FALSE] IN
                            /\ r \in AnyReply /\ ~r.tracked /\ ~r.current
                            /\ r.kind = "find"
            BY DEF Outdated
        <2>1. u \in AnyReply /\ ~u.tracked /\ u.kind = "find"
            BY LeftOver
        <2> QED BY <2>1 DEF AnyReply
    <1>2. \A r \in inFlight' : r \in S \/ (~r.tracked /\ ~r.current /\ r.kind = "find")
        BY <1>1
    <1>3. inFlight' \subseteq AnyReply
        BY <1>1
    <1> HIDE DEF Outdated
    <1> QED BY <1>2, <1>3 DEF RepliesAreKnown, Counting

\* A reply that counts is handled, and may have one after it.
LEMMA Continued ==
    ASSUME LyricsTypeOK, RepliesAreKnown, NEW r \in inFlight, Counting(r),
           NEW next \in AnyReply, next.tracked, next.current,
           track = None => next.kind \in {"find", "NetEase"},
           inFlight' = (inFlight \ {r}) \cup {next}, track' = track,
           candidates' = candidates
    PROVE  inFlight' \subseteq AnyReply /\ RepliesAreKnown'
    <1>1. inFlight' \subseteq AnyReply
        BY DEF LyricsTypeOK, AnyReply
    <1>2. \A s \in inFlight \ {r} : ~Counting(s)
        BY DEF RepliesAreKnown
    <1>3. \A s, t \in inFlight' : Counting(s) /\ Counting(t) => s = t
        BY <1>2
    <1> QED BY <1>1, <1>3 DEF RepliesAreKnown

LEMMA Fewer ==
    ASSUME LyricsTypeOK, RepliesAreKnown, inFlight' \subseteq inFlight, track' = track,
           track = None => candidates' = {}
    PROVE  inFlight' \subseteq AnyReply /\ RepliesAreKnown'
    BY DEF LyricsTypeOK, AnyReply, RepliesAreKnown

LEMMA Persists ==
    ASSUME LyricsTypeOK, NEW entry \in Offsets, NEW choice \in AnyChoice,
           Persist(entry, choice)
    PROVE  /\ prefs' \in [Songs -> Entry]
           /\ track # None => prefs'[track].choice =
                 IF choice = NoCandidate THEN prefs[track].choice ELSE choice
    <1>1. prefs \in [Songs -> Entry] /\ track \in Songs \cup {None}
        BY DEF LyricsTypeOK, Entry, AnyChoice
    <1>2. CASE track = None
        BY <1>1, <1>2 DEF Persist
    <1>3. CASE track # None
        <2> DEFINE kept == IF choice = NoCandidate THEN prefs[track].choice ELSE choice
                   e == [offset |-> entry, choice |-> kept]
        <2>1. track \in Songs /\ kept \in AnyChoice
            BY <1>1, <1>3 DEF Entry
        <2>2. e \in Entry /\ e.choice = kept
            BY <2>1 DEF Entry
        <2>3. prefs' = [prefs EXCEPT ![track] = e]
            BY <1>1, <1>3, <2>1 DEF Persist
        <2> HIDE DEF e, kept
        <2>4. prefs' \in [Songs -> Entry] /\ prefs'[track].choice = kept
            BY <1>1, <2>1, <2>2, <2>3
        <2> QED BY <2>4 DEF kept
    <1> QED BY <1>2, <1>3

---------------------------------------------------------------------------
(* Lyrics: the user and the player                                         *)

\* What happens while a load is due needs only the replies to be known.
LEMMA WaitsForLoad ==
    ASSUME LyricsInvariant, debounce' = TRUE, NEW b \in Online \cup {"Auto", "Local"},
           preferred' = b, track' \in {track} \cup Songs, used' \in Nat,
           UNCHANGED <<view, inFlight, prefs, cache>>
    PROVE  LyricsInvariant'
    <1>1. /\ LyricsTypeOK /\ RepliesAreKnown
          /\ UNCHANGED <<shown, hasLyrics, candidates, offset, selected, backend,
                         loading, inFlight, prefs, cache>>
        BY DEF LyricsInvariant, view
    <1>2. track' = track \/ track' \in Songs
        OBVIOUS
    <1>3. LyricsTypeOK'
        BY <1>1, <1>2 DEF LyricsTypeOK
    <1>4. RepliesAreKnown'
        BY <1>1, <1>2, LyricsAssumption DEF RepliesAreKnown, Counting
    <1> QED BY <1>3, <1>4 DEF LyricsInvariant

LEMMA ClearsTrack ==
    ASSUME LyricsInvariant, ClearTrack
    PROVE  LyricsInvariant'
    <1>1. LyricsTypeOK /\ RepliesAreKnown
        BY DEF LyricsInvariant
    <1>2. /\ track' = None /\ candidates' = {} /\ inFlight' = Untracked
          /\ hasLyrics' = FALSE /\ loading' = FALSE /\ used' \in Nat
          /\ backend' \in {backend, "NetEase"}
          /\ UNCHANGED <<preferred, selected, offset, shown, debounce, prefs, cache>>
        BY <1>1 DEF ClearTrack, UserActs, LyricsTypeOK
    <1>3. /\ inFlight' \subseteq AnyReply
          /\ \A r \in inFlight' : ~r.tracked /\ r.kind = "find"
          /\ \A r, s \in inFlight' : Counting(r) /\ Counting(s) => r = s
        BY <1>1, <1>2, LeftOver
    <1>4. LyricsTypeOK'
        BY <1>1, <1>2, <1>3 DEF LyricsTypeOK, AnyReply, Online
    <1>5. RepliesAreKnown'
        BY <1>2, <1>3 DEF RepliesAreKnown
    <1> QED BY <1>2, <1>4, <1>5 DEF LyricsInvariant

LEMMA SetsOffset ==
    ASSUME LyricsInvariant, NEW value \in Offsets, SetOffset(value)
    PROVE  LyricsInvariant'
    <1>1. LyricsTypeOK /\ RepliesAreKnown /\ selected \in AnyChoice
        BY DEF LyricsInvariant, LyricsTypeOK, AnyChoice
    <1>2. /\ offset' = value /\ used' \in Nat
          /\ UNCHANGED <<track, preferred, shown, hasLyrics, candidates, selected,
                         backend, loading, debounce, inFlight, cache>>
        BY <1>1 DEF SetOffset, UserActs, LyricsTypeOK
    <1>3. /\ prefs' \in [Songs -> Entry]
          /\ track # None => prefs'[track].choice =
                IF selected = NoCandidate THEN prefs[track].choice ELSE selected
        BY <1>1, Persists DEF SetOffset
    <1>4. LyricsTypeOK'
        BY <1>1, <1>2, <1>3 DEF LyricsTypeOK, Entry, AnyChoice
    <1>5. RepliesAreKnown'
        BY <1>1, <1>2 DEF RepliesAreKnown, Counting
    <1>6. ASSUME ~debounce', track' # None PROVE OfTheTrack' \/ OfTheChoice'
        <2>1. CASE OfTheTrack
            BY <1>2, <2>1 DEF OfTheTrack
        <2>2. CASE OfTheChoice
            <3>1. prefs'[track].choice = prefs[track].choice
                BY <1>2, <1>3, <1>6, <2>2 DEF OfTheChoice
            <3> QED BY <1>2, <2>2, <3>1 DEF OfTheChoice
        <2> QED BY <1>2, <1>6, <2>1, <2>2 DEF LyricsInvariant
    <1> QED BY <1>4, <1>5, <1>6 DEF LyricsInvariant

LEMMA Selects ==
    ASSUME LyricsInvariant, NEW c \in candidates, Select(c)
    PROVE  LyricsInvariant'
    <1>1. LyricsTypeOK /\ RepliesAreKnown
        BY DEF LyricsInvariant
    <1>2. /\ selected' = c /\ used' \in Nat
          /\ UNCHANGED <<track, preferred, candidates, offset, debounce, cache>>
          /\ ShowSelected(c) /\ Persist(offset, c)
        BY <1>1 DEF Select, UserActs, LyricsTypeOK
    <1>3. /\ c \in Candidate /\ c.song \in Songs /\ c # NoCandidate
          /\ c.backend \in Online \cup {"Local"}
          /\ track # None /\ track \in Songs /\ offset \in Offsets
        BY <1>1, CandidateFields DEF LyricsTypeOK, RepliesAreKnown
    <1>4. prefs' \in [Songs -> Entry] /\ prefs'[track].choice = c
        BY <1>1, <1>2, <1>3, Persists DEF AnyChoice
    <1> DEFINE fetch == Reply(c.backend, c.song, TRUE)
    <1>5. c.backend \in Online => /\ fetch \in AnyReply /\ fetch.tracked /\ fetch.current
                                  /\ fetch.song = c.song /\ fetch.kind = c.backend
        <2> SUFFICES ASSUME c.backend \in Online
                     PROVE  /\ fetch \in AnyReply /\ fetch.tracked /\ fetch.current
                            /\ fetch.song = c.song /\ fetch.kind = c.backend
            OBVIOUS
        <2>1. c.backend \in Kinds
            BY KindNames
        <2> QED BY <1>3, <2>1 DEF Reply, AnyReply
    <1>6. PICK S \in SUBSET {fetch} :
              /\ inFlight' = Outdated \cup S
              /\ S # {} => c.backend \in Online
        <2>1. CASE inFlight' = Outdated
            <3>1. inFlight' = Outdated \cup {}
                BY <2>1
            <3> QED BY <3>1
        <2>2. CASE c.backend \in Online /\ inFlight' = Outdated \cup {fetch}
            BY <2>2
        <2> QED BY <1>2, <2>1, <2>2 DEF ShowSelected
    <1> HIDE DEF fetch
    <1>7. /\ S \subseteq AnyReply /\ \A r \in S : r.tracked /\ r.current /\ r.song = c.song
          /\ \A r, s \in S : r = s
        BY <1>5, <1>6
    <1>8. /\ inFlight' \subseteq AnyReply /\ RepliesAreKnown'
          /\ \A r \in inFlight' : r.current => r \in S
        BY <1>1, <1>2, <1>3, <1>6, <1>7, Renewed
    <1>9. /\ backend' \in Online \cup {"Auto", "Local"} /\ loading' \in BOOLEAN
          /\ \/ shown' = c.song /\ hasLyrics'= TRUE
             \/ UNCHANGED <<shown, hasLyrics>>
        BY <1>2, <1>3 DEF ShowSelected, SetLines, Online
    <1>10. LyricsTypeOK'
        BY <1>1, <1>2, <1>3, <1>4, <1>8, <1>9 DEF LyricsTypeOK, Entry, AnyChoice, AnyReply
    <1>11. ASSUME ~debounce' PROVE OfTheTrack'
        <2>1. OfTheTrack
            BY <1>2, <1>3, <1>11 DEF LyricsInvariant, OfTheChoice
        <2>2. c.song = track
            BY <2>1 DEF OfTheTrack
        <2> QED BY <1>2, <1>7, <1>8, <1>9, <2>1, <2>2 DEF OfTheTrack
    <1> QED BY <1>8, <1>10, <1>11 DEF LyricsInvariant

---------------------------------------------------------------------------
(* Lyrics: loading                                                         *)

\* A load asks about its track: searches, and one reply of the chain.
LEMMA AsksAboutTheTrack ==
    ASSUME LyricsTypeOK, RepliesAreKnown, track # None, NEW kind \in {"get", "find"},
           NEW S \in SUBSET (Searches \cup {Reply(kind, track, TRUE)}),
           inFlight' = Outdated \cup S, track' = track
    PROVE  /\ inFlight' \subseteq AnyReply /\ RepliesAreKnown'
           /\ \A r \in inFlight' : r.current => r.song = track
    <1>1. track \in Songs
        BY DEF LyricsTypeOK
    <1>2. \A k \in Kinds : /\ Reply(k, track, TRUE) \in AnyReply
                           /\ Reply(k, track, TRUE).tracked
                           /\ Reply(k, track, TRUE).current
                           /\ Reply(k, track, TRUE).song = track
                           /\ Reply(k, track, TRUE).kind = k
        BY <1>1 DEF Reply, AnyReply
    <1>3. \A r \in S : \/ r = Reply("searchLRCLIB", track, TRUE)
                       \/ r = Reply("searchNetEase", track, TRUE)
                       \/ r = Reply(kind, track, TRUE)
        BY DEF Searches
    <1>4. kind \in Kinds
        BY KindNames
    <1>5. \A r \in S : /\ r \in AnyReply /\ r.tracked /\ r.current /\ r.song = track
                       /\ Counting(r) => r = Reply(kind, track, TRUE)
        <2> SUFFICES ASSUME NEW r \in S
                     PROVE  /\ r \in AnyReply /\ r.tracked /\ r.current /\ r.song = track
                            /\ Counting(r) => r = Reply(kind, track, TRUE)
            OBVIOUS
        <2>1. CASE r = Reply("searchLRCLIB", track, TRUE)
            <3>1. r.kind = "searchLRCLIB" /\ r.kind \in Kinds \ ChainKinds
                BY <1>2, <2>1, KindNames
            <3> QED BY <1>2, <2>1, <3>1 DEF Counting
        <2>2. CASE r = Reply("searchNetEase", track, TRUE)
            <3>1. r.kind = "searchNetEase" /\ r.kind \in Kinds \ ChainKinds
                BY <1>2, <2>2, KindNames
            <3> QED BY <1>2, <2>2, <3>1 DEF Counting
        <2>3. CASE r = Reply(kind, track, TRUE)
            BY <1>2, <1>4, <2>3
        <2> QED BY <1>3, <2>1, <2>2, <2>3
    <1>6. /\ inFlight' \subseteq AnyReply /\ RepliesAreKnown'
          /\ \A r \in inFlight' : r.current => r \in S
        BY <1>5, Renewed
    <1> QED BY <1>5, <1>6

LEMMA Restores ==
    ASSUME LyricsInvariant, debounce' = FALSE, track # None,
           prefs[track].choice # NoCandidate, Restore(prefs[track].choice),
           offset' = prefs[track].offset,
           UNCHANGED <<track, preferred, cache, used>>
    PROVE  LyricsInvariant'
    <1> DEFINE c == prefs[track].choice
    <1>1. LyricsTypeOK /\ RepliesAreKnown
        BY DEF LyricsInvariant
    <1>2. track \in Songs /\ prefs \in [Songs -> Entry]
        BY <1>1 DEF LyricsTypeOK, Entry, AnyChoice
    <1>3. c \in Candidate /\ c.song \in Songs /\ c.backend \in Online \cup {"Local"}
        BY <1>2, CandidateFields DEF Entry, AnyChoice
    <1>4. offset' \in Offsets
        BY <1>2 DEF Entry
    <1>5. /\ c # NoCandidate /\ prefs' = prefs /\ candidates' = {} /\ selected' = c
          /\ c \in AnyChoice
        BY <1>3 DEF Restore, AnyChoice
    <1>6. CASE c = selected
        <2>1. /\ hasLyrics' = FALSE /\ loading' = TRUE /\ shown' = shown
              /\ backend' \in {backend, "NetEase"}
              /\ inFlight' = Outdated \cup Searches
            BY <1>6 DEF Restore
        <2>2. /\ inFlight' \subseteq AnyReply /\ RepliesAreKnown'
              /\ \A r \in inFlight' : r.current => r.song = track
            <3>1. Searches \in SUBSET (Searches \cup {Reply("get", track, TRUE)})
                OBVIOUS
            <3> QED BY <1>1, <2>1, <3>1, AsksAboutTheTrack
        <2>3. LyricsTypeOK'
            BY <1>1, <1>3, <1>4, <1>5, <2>1, <2>2 DEF LyricsTypeOK, AnyReply, Online
        <2>4. OfTheTrack'
            BY <1>5, <2>1, <2>2 DEF OfTheTrack
        <2> QED BY <2>2, <2>3, <2>4 DEF LyricsInvariant
    <1>7. CASE c # selected
        <2> DEFINE fetch == Reply(c.backend, c.song, TRUE)
        <2>1. c.backend \in Online =>
                 /\ fetch \in AnyReply /\ fetch.tracked /\ fetch.current
                 /\ fetch.song = c.song /\ fetch.kind = c.backend
            <3> SUFFICES ASSUME c.backend \in Online
                         PROVE  /\ fetch \in AnyReply /\ fetch.tracked /\ fetch.current
                                /\ fetch.song = c.song /\ fetch.kind = c.backend
                OBVIOUS
            <3>1. c.backend \in Kinds
                BY KindNames
            <3> QED BY <1>3, <3>1 DEF Reply, AnyReply
        <2>2. PICK S \in SUBSET {fetch} :
                  /\ inFlight' = Outdated \cup S
                  /\ S # {} => c.backend \in Online
            <3>1. CASE inFlight' = Outdated
                <4>1. inFlight' = Outdated \cup {}
                    BY <3>1
                <4> QED BY <4>1
            <3>2. CASE c.backend \in Online /\ inFlight' = Outdated \cup {fetch}
                BY <3>2
            <3> QED BY <1>7, <3>1, <3>2 DEF Restore
        <2>3. /\ backend' \in Online \cup {"Local"} /\ loading' \in BOOLEAN
              /\ hasLyrics' \in BOOLEAN /\ shown' \in {shown, c.song}
              /\ hasLyrics' => shown' = c.song
            BY <1>3, <1>7 DEF Restore, SetLines, Online
        <2> HIDE DEF fetch
        <2>4. /\ S \subseteq AnyReply /\ \A r, s \in S : r = s
              /\ \A r \in S : /\ r.tracked /\ r.current
                              /\ r.song = c.song /\ r.kind \in Online
            BY <2>1, <2>2
        <2>5. /\ inFlight' \subseteq AnyReply /\ RepliesAreKnown'
              /\ \A r \in inFlight' : r.current => r \in S
            BY <1>1, <2>2, <2>4, Renewed
        <2>6. LyricsTypeOK'
            BY <1>1, <1>3, <1>4, <1>5, <2>3, <2>5 DEF LyricsTypeOK, AnyReply
        <2>7. OfTheChoice'
            <3>1. prefs'[track'].choice = c
                BY <1>5
            <3> HIDE DEF c
            <3> QED BY <1>5, <2>3, <2>4, <2>5, <3>1 DEF OfTheChoice
        <2> QED BY <2>5, <2>6, <2>7 DEF LyricsInvariant
    <1> QED BY <1>6, <1>7

LEMMA LoadsTheTrack ==
    ASSUME LyricsInvariant, debounce' = FALSE, track # None,
           FoundLocal \/ NotFoundLocal \/ (preferred \in Online /\ TryOnline),
           offset' = prefs[track].offset,
           UNCHANGED <<track, preferred, cache, used>>
    PROVE  LyricsInvariant'
    <1>1. LyricsTypeOK /\ RepliesAreKnown
        BY DEF LyricsInvariant
    <1>2. track \in Songs /\ prefs \in [Songs -> Entry] /\ offset' \in Offsets
        BY <1>1 DEF LyricsTypeOK, Entry, AnyChoice
    <1> DEFINE found == [backend |-> "Local", song |-> track]
    <1>3. found \in Candidate /\ found.song = track /\ found \in AnyChoice
        BY <1>2, CandidateFields DEF AnyChoice
    <1>4. /\ prefs' \in [Songs -> Entry] /\ selected' \in AnyChoice
          /\ candidates' \in {{}, {found}} /\ hasLyrics' \in BOOLEAN
          /\ shown' \in {shown, track} /\ loading' \in BOOLEAN
          /\ hasLyrics' => shown' = track
          /\ backend' \in Online \cup {"Local"}
        <2>1. CASE FoundLocal
            <3>1. prefs[track].offset \in Offsets
                BY <1>2 DEF Entry
            <3>2. /\ SetLines(track, "Local") /\ loading' = FALSE
                  /\ candidates' = {found} /\ selected' = found
                  /\ Persist(prefs[track].offset, found)
                BY <2>1 DEF FoundLocal
            <3> HIDE DEF found
            <3>3. prefs' \in [Songs -> Entry]
                BY <1>1, <1>3, <3>1, <3>2, Persists
            <3> QED BY <1>3, <3>2, <3>3 DEF SetLines
        <2>2. CASE NotFoundLocal
            BY <1>1, <1>2, <2>2 DEF NotFoundLocal, LyricsTypeOK, AnyChoice, Online
        <2>3. CASE preferred \in Online /\ TryOnline
            BY <1>1, <1>2, <2>3 DEF TryOnline, LyricsTypeOK, AnyChoice, Online
        <2> QED BY <2>1, <2>2, <2>3
    <1>5. \E kind \in {"get", "find"} :
            \E S \in SUBSET (Searches \cup {Reply(kind, track, TRUE)}) :
                inFlight' = Outdated \cup S
        <2>1. CASE inFlight' = Outdated \cup Searches
            <3>1. Searches \in SUBSET (Searches \cup {Reply("get", track, TRUE)})
                OBVIOUS
            <3> QED BY <2>1, <3>1
        <2>2. ASSUME NEW kind \in {"get", "find"},
                     inFlight' = Outdated \cup Searches \cup {Reply(kind, track, TRUE)}
              PROVE  \E S \in SUBSET (Searches \cup {Reply(kind, track, TRUE)}) :
                         inFlight' = Outdated \cup S
            <3>1. inFlight' = Outdated \cup (Searches \cup {Reply(kind, track, TRUE)})
                BY <2>2
            <3> QED BY <3>1
        <2> HIDE DEF Outdated, Searches
        <2> QED BY <2>1, <2>2 DEF FoundLocal, NotFoundLocal, TryOnline
    <1>6. /\ inFlight' \subseteq AnyReply /\ RepliesAreKnown'
          /\ \A r \in inFlight' : r.current => r.song = track
        BY <1>1, <1>5, AsksAboutTheTrack
    <1> HIDE DEF found
    <1>7. LyricsTypeOK'
        BY <1>1, <1>2, <1>3, <1>4, <1>6 DEF LyricsTypeOK, Entry, AnyChoice, AnyReply
    <1>8. OfTheTrack'
        BY <1>3, <1>4, <1>6 DEF OfTheTrack
    <1> QED BY <1>6, <1>7, <1>8 DEF LyricsInvariant

LEMMA Loads ==
    ASSUME LyricsInvariant, DoLoad
    PROVE  LyricsInvariant'
    <1>1. debounce' = FALSE /\ UNCHANGED <<track, preferred, cache, used>>
        BY DEF DoLoad
    <1>2. CASE track = None
        <2>1. LyricsTypeOK /\ RepliesAreKnown
            BY DEF LyricsInvariant
        <2>2. /\ hasLyrics' = FALSE /\ candidates' = {} /\ loading' = FALSE
              /\ UNCHANGED <<shown, backend, selected, offset, inFlight, prefs>>
            BY <1>2 DEF DoLoad
        <2>3. LyricsTypeOK'
            BY <1>1, <2>1, <2>2 DEF LyricsTypeOK
        <2>4. RepliesAreKnown'
            BY <1>1, <2>1, <2>2 DEF RepliesAreKnown, Counting
        <2> QED BY <1>1, <1>2, <2>3, <2>4 DEF LyricsInvariant
    <1>3. CASE track # None
        <2>1. offset' = prefs[track].offset
            BY <1>3 DEF DoLoad
        <2>2. CASE prefs[track].choice # NoCandidate /\ Restore(prefs[track].choice)
            BY <1>1, <1>3, <2>1, <2>2, Restores
        <2>3. CASE FoundLocal \/ NotFoundLocal \/ (preferred \in Online /\ TryOnline)
            BY <1>1, <1>3, <2>1, <2>3, LoadsTheTrack
        <2> QED BY <1>3, <2>2, <2>3 DEF DoLoad
    <1> QED BY <1>2, <1>3

---------------------------------------------------------------------------
(* Lyrics: replies                                                         *)

LEMMA Ignores ==
    ASSUME LyricsInvariant, NEW r \in inFlight, inFlight' = inFlight \ {r},
           UNCHANGED <<view, prefs, cache, track, preferred, debounce, used>>
    PROVE  LyricsInvariant'
    <1>1. /\ LyricsTypeOK /\ RepliesAreKnown
          /\ UNCHANGED <<shown, hasLyrics, candidates, offset, selected, backend,
                         loading>>
        BY DEF LyricsInvariant, view
    <1>2. inFlight' \subseteq AnyReply /\ RepliesAreKnown'
        BY <1>1, Fewer DEF RepliesAreKnown
    <1>3. LyricsTypeOK'
        BY <1>1, <1>2 DEF LyricsTypeOK, AnyReply
    <1>4. OfTheTrack => OfTheTrack'
        BY <1>1 DEF OfTheTrack
    <1>5. OfTheChoice => OfTheChoice'
        BY <1>1 DEF OfTheChoice
    <1> QED BY <1>2, <1>3, <1>4, <1>5 DEF LyricsInvariant

\* A reply that counts changes what is shown, and what is asked next: by its
\* own song, or the track whose load it belongs to.
Handled(r) ==
    /\ UNCHANGED <<track, debounce>>
    /\ \A s \in inFlight' :
          s \in inFlight \/ (r.kind \notin Online /\ s.song \in {r.song, track})
    /\ \A c \in candidates' :
          c \in candidates \/ (r.kind \notin Online /\ c.song = r.song)
    /\ \/ UNCHANGED <<shown, hasLyrics>>
       \/ shown' = r.song /\ hasLyrics' = TRUE
    /\ r.kind \in Online => UNCHANGED <<selected, prefs>>

LEMMA Handles ==
    ASSUME LyricsInvariant, NEW r \in inFlight, r.current, Handled(r),
           RepliesAreKnown', LyricsTypeOK'
    PROVE  LyricsInvariant'
    <1> SUFFICES ASSUME ~debounce', track' # None
                 PROVE  OfTheTrack' \/ OfTheChoice'
        BY DEF LyricsInvariant
    <1>1. ~debounce /\ track # None
        BY DEF Handled
    <1>2. CASE OfTheTrack
        <2>1. r.song = track
            BY <1>2 DEF OfTheTrack
        <2> QED BY <1>2, <2>1 DEF OfTheTrack, Handled
    <1>3. CASE OfTheChoice
        <2>1. r.kind \in Online /\ r.song = prefs[track].choice.song
            BY <1>3 DEF OfTheChoice
        <2>2. prefs'[track'].choice = prefs[track].choice
            BY <2>1 DEF Handled
        <2> QED BY <1>3, <2>1, <2>2 DEF OfTheChoice, Handled
    <1> QED BY <1>2, <1>3, <1>1 DEF LyricsInvariant

LEMMA GetIsHandled ==
    ASSUME LyricsInvariant, NEW r \in inFlight, r.current, r.kind = "get",
           GetFinished(r, inFlight \ {r}),
           UNCHANGED <<track, preferred, debounce, used>>
    PROVE  LyricsInvariant'
    <1>1. LyricsTypeOK /\ RepliesAreKnown /\ r \in AnyReply /\ r.song \in Songs
        BY DEF LyricsInvariant, LyricsTypeOK, AnyReply
    <1>2. Counting(r) /\ r.kind \notin Online
        BY KindNames DEF Counting, Online
    <1>3. track # None /\ track \in Songs
        BY <1>1 DEF RepliesAreKnown, LyricsTypeOK
    <1> DEFINE c == [backend |-> "LRCLIB", song |-> r.song]
               next == Reply("find", track, TRUE)
    <1>4. c \in Candidate /\ c.song = r.song /\ c \in AnyChoice
        BY <1>1, CandidateFields DEF AnyChoice, Online
    <1>5. /\ next \in AnyReply /\ next.tracked /\ next.current /\ next.kind = "find"
          /\ next.song = track
        BY <1>3, KindNames DEF Reply, AnyReply
    <1> HIDE DEF c, next
    <1>6. CASE /\ WriteCached(c) /\ candidates' = candidates \cup {c}
               /\ selected' = c /\ SetLines(r.song, "LRCLIB") /\ loading' = FALSE
               /\ Persist(offset, c) /\ inFlight' = inFlight \ {r} /\ UNCHANGED offset
        <2>1. inFlight' \subseteq AnyReply /\ RepliesAreKnown'
            BY <1>1, <1>3, <1>6, Fewer
        <2>2. prefs' \in [Songs -> Entry]
            BY <1>1, <1>4, <1>6, Persists DEF LyricsTypeOK
        <2>3. LyricsTypeOK'
            BY <1>1, <1>4, <1>6, <2>1, <2>2
               DEF LyricsTypeOK, WriteCached, SetLines, Entry, AnyChoice, AnyReply, Online
        <2>4. Handled(r)
            BY <1>2, <1>4, <1>6 DEF Handled, SetLines
        <2> QED BY <2>1, <2>3, <2>4, Handles
    <1>7. CASE Goes(inFlight \ {r}, next, "NetEase")
        <2>1. inFlight' \subseteq AnyReply /\ RepliesAreKnown'
            BY <1>1, <1>2, <1>3, <1>5, <1>7, Continued DEF Goes
        <2>2. LyricsTypeOK'
            BY <1>1, <1>7, <2>1 DEF LyricsTypeOK, Goes, AnyReply, Online
        <2>3. Handled(r)
            BY <1>2, <1>5, <1>7 DEF Handled, Goes
        <2> QED BY <2>1, <2>2, <2>3, Handles
    <1>8. CASE End(inFlight \ {r})
        <2>1. inFlight' \subseteq AnyReply /\ RepliesAreKnown'
            BY <1>1, <1>3, <1>8, Fewer DEF End
        <2>2. LyricsTypeOK'
            BY <1>1, <1>8, <2>1 DEF LyricsTypeOK, End, AnyReply
        <2>3. Handled(r)
            BY <1>2, <1>8 DEF Handled, End
        <2> QED BY <2>1, <2>2, <2>3, Handles
    <1> QED BY <1>6, <1>7, <1>8 DEF GetFinished, c, next

LEMMA FindIsHandled ==
    ASSUME LyricsInvariant, NEW r \in inFlight, r.current, r.kind = "find",
           FindFinished(r, inFlight \ {r}),
           UNCHANGED <<track, preferred, debounce, used>>
    PROVE  LyricsInvariant'
    <1>1. LyricsTypeOK /\ RepliesAreKnown /\ r \in AnyReply /\ r.song \in Songs
        BY DEF LyricsInvariant, LyricsTypeOK, AnyReply
    <1>2. Counting(r) /\ r.kind \notin Online
        BY KindNames DEF Counting, Online
    <1> DEFINE next == Reply("NetEase", r.song, TRUE)
    <1>3. /\ next \in AnyReply /\ next.tracked /\ next.current /\ next.kind = "NetEase"
          /\ next.song = r.song
        BY <1>1, KindNames DEF Reply, AnyReply
    <1> HIDE DEF next
    <1>4. CASE Goes(inFlight \ {r}, next, backend)
        <2>1. inFlight' \subseteq AnyReply /\ RepliesAreKnown'
            BY <1>1, <1>2, <1>3, <1>4, Continued DEF Goes
        <2>2. LyricsTypeOK'
            BY <1>1, <1>4, <2>1 DEF LyricsTypeOK, Goes, AnyReply
        <2>3. Handled(r)
            BY <1>2, <1>3, <1>4 DEF Handled, Goes
        <2> QED BY <2>1, <2>2, <2>3, Handles
    <1>5. CASE End(inFlight \ {r})
        <2>1. inFlight' \subseteq AnyReply /\ RepliesAreKnown'
            BY <1>1, <1>5, Fewer DEF End, RepliesAreKnown
        <2>2. LyricsTypeOK'
            BY <1>1, <1>5, <2>1 DEF LyricsTypeOK, End, AnyReply
        <2>3. Handled(r)
            BY <1>2, <1>5 DEF Handled, End
        <2> QED BY <2>1, <2>2, <2>3, Handles
    <1> QED BY <1>4, <1>5 DEF FindFinished, next

LEMMA FetchIsHandled ==
    ASSUME LyricsInvariant, NEW r \in inFlight, r.current, r.kind \in Online,
           FetchFinished(r, inFlight \ {r}),
           UNCHANGED <<track, preferred, debounce, used>>
    PROVE  LyricsInvariant'
    <1>1. LyricsTypeOK /\ RepliesAreKnown /\ r \in AnyReply /\ r.song \in Songs
        BY DEF LyricsInvariant, LyricsTypeOK, AnyReply
    <1>2. inFlight' = inFlight \ {r} /\ UNCHANGED <<candidates, selected, prefs, offset>>
        BY DEF FetchFinished, End
    <1>3. inFlight' \subseteq AnyReply /\ RepliesAreKnown'
        BY <1>1, <1>2, Fewer DEF RepliesAreKnown
    <1>4. /\ loading' = FALSE /\ cache' \subseteq Candidate
          /\ backend' \in Online \cup {backend}
          /\ \/ UNCHANGED <<shown, hasLyrics>>
             \/ shown' = r.song /\ hasLyrics' = TRUE
        <2>1. [backend |-> r.kind, song |-> r.song] \in Candidate
            BY <1>1, CandidateFields
        <2>2. cache \subseteq Candidate
            BY <1>1 DEF LyricsTypeOK
        <2> QED BY <2>1, <2>2 DEF FetchFinished, End, WriteCached, SetLines
    <1>5. LyricsTypeOK'
        BY <1>1, <1>2, <1>3, <1>4 DEF LyricsTypeOK, AnyReply
    <1>6. Handled(r)
        BY <1>2, <1>4 DEF Handled
    <1> QED BY <1>3, <1>5, <1>6, Handles

LEMMA SearchIsHandled ==
    ASSUME LyricsInvariant, NEW r \in inFlight, r.current,
           r.kind \in {"searchLRCLIB", "searchNetEase"}, NEW origin \in Online,
           SearchFinished(r, inFlight \ {r}, origin),
           UNCHANGED <<track, preferred, debounce, used>>
    PROVE  LyricsInvariant'
    <1>1. LyricsTypeOK /\ RepliesAreKnown /\ r \in AnyReply /\ r.song \in Songs
        BY DEF LyricsInvariant, LyricsTypeOK, AnyReply
    <1>2. track # None /\ r.kind \notin Online
        BY <1>1 DEF RepliesAreKnown, Online
    <1> DEFINE c == [backend |-> origin, song |-> r.song]
    <1>3. c \in Candidate /\ c.song = r.song
        BY <1>1, CandidateFields
    <1>4. /\ inFlight' = inFlight \ {r} /\ candidates' \in {candidates, candidates \cup {c}}
          /\ UNCHANGED <<shown, hasLyrics, offset, selected, backend, loading, prefs, cache>>
        BY DEF SearchFinished
    <1> HIDE DEF c
    <1>5. inFlight' \subseteq AnyReply /\ RepliesAreKnown'
        BY <1>1, <1>2, <1>4, Fewer
    <1>6. LyricsTypeOK'
        BY <1>1, <1>3, <1>4, <1>5 DEF LyricsTypeOK, AnyReply
    <1>7. Handled(r)
        BY <1>2, <1>3, <1>4 DEF Handled
    <1> QED BY <1>5, <1>6, <1>7, Handles

LEMMA Finishes ==
    ASSUME LyricsInvariant, NEW r \in inFlight, Finished(r)
    PROVE  LyricsInvariant'
    <1>1. UNCHANGED <<track, preferred, debounce, used>>
        BY DEF Finished
    <1>2. CASE /\ inFlight' = inFlight \ {r} /\ UNCHANGED <<view, prefs, cache>>
        BY <1>1, <1>2, Ignores
    <1>3. CASE r.current /\ r.kind = "get" /\ GetFinished(r, inFlight \ {r})
        BY <1>1, <1>3, GetIsHandled
    <1>4. CASE r.current /\ r.kind = "find" /\ FindFinished(r, inFlight \ {r})
        BY <1>1, <1>4, FindIsHandled
    <1>5. CASE r.current /\ r.kind \in Online /\ FetchFinished(r, inFlight \ {r})
        BY <1>1, <1>5, FetchIsHandled
    <1>6. CASE /\ r.current /\ r.kind = "searchLRCLIB"
               /\ SearchFinished(r, inFlight \ {r}, "LRCLIB")
        BY <1>1, <1>6, KindNames, SearchIsHandled
    <1>7. CASE /\ r.current /\ r.kind = "searchNetEase"
               /\ SearchFinished(r, inFlight \ {r}, "NetEase")
        BY <1>1, <1>7, KindNames, SearchIsHandled
    <1> QED BY <1>2, <1>3, <1>4, <1>5, <1>6, <1>7 DEF Finished, Counts

LEMMA LyricsStarts == LyricsInit => LyricsInvariant
    <1> SUFFICES ASSUME LyricsInit PROVE LyricsInvariant
        OBVIOUS
    <1>1. \A song \in Songs : [offset |-> 0, choice |-> NoCandidate] \in Entry
        BY LyricsAssumption DEF Entry, AnyChoice
    <1>2. prefs \in [Songs -> Entry]
        BY <1>1 DEF LyricsInit
    <1>3. LyricsTypeOK
        BY <1>2, LyricsAssumption DEF LyricsInit, LyricsTypeOK, Entry, AnyChoice
    <1>4. RepliesAreKnown /\ track = None
        BY DEF LyricsInit, RepliesAreKnown
    <1> QED BY <1>3, <1>4 DEF LyricsInvariant

LEMMA LyricsSteps == LyricsInvariant /\ [LyricsNext]_lyricsVars => LyricsInvariant'
    <1> SUFFICES ASSUME LyricsInvariant, [LyricsNext]_lyricsVars PROVE LyricsInvariant'
        OBVIOUS
    <1>1. /\ used \in Nat /\ preferred \in Online \cup {"Auto", "Local"}
        BY DEF LyricsInvariant, LyricsTypeOK
    <1>2. ASSUME NEW t \in Songs, SetTrack(t) PROVE LyricsInvariant'
        <2>1. /\ track' \in {track} \cup Songs /\ debounce' = TRUE /\ used' \in Nat
              /\ preferred' = preferred /\ UNCHANGED <<view, inFlight, prefs, cache>>
            BY <1>1, <1>2 DEF SetTrack, UserActs
        <2> QED BY <1>1, <2>1, WaitsForLoad
    <1>3. ASSUME NEW b \in Online \cup {"Auto", "Local"}, SetPreferredBackend(b)
          PROVE  LyricsInvariant'
        <2>1. /\ track' \in {track} \cup Songs /\ debounce' = TRUE /\ used' \in Nat
              /\ preferred' = b /\ UNCHANGED <<view, inFlight, prefs, cache>>
            BY <1>1, <1>3 DEF SetPreferredBackend, UserActs
        <2> QED BY <2>1, WaitsForLoad
    <1>4. CASE Refresh
        <2>1. /\ track' \in {track} \cup Songs /\ debounce' = TRUE /\ used' \in Nat
              /\ preferred' = preferred /\ UNCHANGED <<view, inFlight, prefs, cache>>
            BY <1>1, <1>4 DEF Refresh, UserActs
        <2> QED BY <1>1, <2>1, WaitsForLoad
    <1>5. CASE UserOrPlayer
        BY <1>2, <1>3, <1>4, <1>5, ClearsTrack, SetsOffset, Selects DEF UserOrPlayer
    <1>6. CASE UNCHANGED lyricsVars
        <2>1. UNCHANGED <<track, preferred, shown, hasLyrics, candidates, offset,
                          selected, backend, loading, debounce, inFlight, prefs,
                          cache, used>>
            BY <1>6 DEF lyricsVars, view
        <2>2. LyricsTypeOK'
            BY <2>1 DEF LyricsInvariant, LyricsTypeOK
        <2>3. RepliesAreKnown'
            BY <2>1 DEF LyricsInvariant, RepliesAreKnown, Counting
        <2>4. (OfTheTrack => OfTheTrack') /\ (OfTheChoice => OfTheChoice')
            BY <2>1 DEF OfTheTrack, OfTheChoice
        <2> QED BY <2>1, <2>2, <2>3, <2>4 DEF LyricsInvariant
    <1> QED BY <1>5, <1>6, Loads, Finishes DEF LyricsNext

\* Whatever the user chooses, whichever track comes next and whichever replies
\* are late, fail or were cancelled: candidates and lyrics are of the track or of
\* the choice kept for it, and one backend is asked at a time.
THEOREM LyricsFollowTheTrack == LyricsSpec => []LyricsAreOfTheTrack
    <1>1. LyricsInvariant => LyricsAreOfTheTrack
        <2> SUFFICES ASSUME LyricsInvariant PROVE LyricsAreOfTheTrack
            OBVIOUS
        <2>1. LyricsTypeOK /\ RepliesAreKnown
            BY DEF LyricsInvariant
        <2>2. CandidatesAreOfTheTrack
            BY <2>1 DEF LyricsInvariant, CandidatesAreOfTheTrack, OfTheTrack,
                        OfTheChoice, RepliesAreKnown
        <2>3. ShownIsOfTheTrack
            BY DEF LyricsInvariant, ShownIsOfTheTrack, OfTheTrack, OfTheChoice
        <2>4. OneChain
            <3>1. \A r \in Chain : r \in inFlight /\ r.kind \in Kinds /\ r.current
                BY <2>1 DEF Chain, LyricsTypeOK, RepliesAreKnown
            <3>2. \A r \in Chain : Counting(r)
                BY <3>1 DEF Chain, Counting, ChainKinds
            <3> QED BY <2>1, <3>1, <3>2 DEF OneChain, RepliesAreKnown
        <2> QED BY <2>1, <2>2, <2>3, <2>4 DEF LyricsAreOfTheTrack
    <1> QED BY <1>1, LyricsStarts, LyricsSteps, PTL DEF LyricsSpec

---------------------------------------------------------------------------
(* AudioCollector: types                                                   *)

LEMMA CollectorTypes == CollectorTypeOK <=> BuffersTyped /\ WorkerTyped
    BY DEF CollectorTypeOK, BuffersTyped, WorkerTyped, Half, Writer, Reader, Held

LEMMA Resting ==
    /\ NotWriting \in Writer /\ NotWriting.into = 0
    /\ NoRead \in Reader /\ NoRead.at = 0
    <1>1. <<>> \in Seq(0..MaxChunks)
        OBVIOUS
    <1>2. 0 \in 0..ChunkSize /\ 0 \in 0..ChunkSize + 1 /\ 0 \in 0..MaxChunks /\ 0 \in 0..2
        BY CollectorAssumption
    <1> QED BY <1>1, <1>2 DEF NotWriting, NoRead, Writer, Reader

LEMMA OneWriter ==
    ASSUME WritersTakeTurns, NEW t \in Threads, NEW u \in Threads, Busy(t), Busy(u)
    PROVE  t = u
    BY DEF WritersTakeTurns, Threads

\* A reader is not disturbed by what leaves its buffer as it is.
LEMMA ReaderKeeps ==
    ASSUME SoundInvariant, read' = read, reader' = reader, buffer'[read] = buffer[read]
    PROVE  ReaderIsTrue'
    BY DEF SoundInvariant, ReaderIsTrue

---------------------------------------------------------------------------
(* AudioCollector: the buffers                                             *)

LEMMA Begins ==
    ASSUME SoundInvariant, \A u \in Threads : ~Busy(u),
           NEW t \in Threads, NEW chunk \in 0..MaxChunks, NEW count \in Nat,
           Begin(t, chunk, count)
    PROVE  /\ BuffersTyped' /\ BuffersAreTwo' /\ ReaderIsTrue'
           /\ \A u \in Threads : u # t => ~Busy(u)'
    <1>1. BuffersTyped /\ BuffersAreTwo
        BY DEF SoundInvariant
    <1> DEFINE w == [NotWriting EXCEPT !.last = Taken(count), !.into = write,
                                       !.chunk = chunk]
    <1>2. Taken(count) \in 0..ChunkSize
        BY CollectorAssumption DEF Taken
    <1>3. /\ w \in Writer /\ w.into = write /\ w.old = 0
        <2>1. write \in 0..2
            BY <1>1 DEF BuffersTyped, Half
        <2> QED BY <1>2, <2>1, Resting DEF NotWriting, Writer
    <1>4. writer' = [writer EXCEPT ![t] = w] /\ UNCHANGED <<buffer, read, write, reader>>
        BY DEF Begin
    <1> HIDE DEF w
    <1>5. /\ writer' \in [Threads -> Writer] /\ writer'[t] = w
          /\ \A u \in Threads : u # t => writer'[u] = writer[u]
        BY <1>1, <1>3, <1>4 DEF BuffersTyped
    <1>6. BuffersTyped'
        BY <1>1, <1>4, <1>5 DEF BuffersTyped
    <1>7. \A u \in Threads : u # t => ~Busy(u)' /\ writer'[u] = NotWriting
        BY <1>1, <1>5 DEF Busy, BuffersAreTwo
    <1>8. Busy(t)' /\ read # write
        BY <1>1, <1>3, <1>5 DEF Busy, BuffersTyped, BuffersAreTwo, Half
    <1>9. BuffersAreTwo'
        BY <1>3, <1>4, <1>5, <1>7, <1>8 DEF BuffersAreTwo
    <1>10. ReaderIsTrue'
        BY <1>4, ReaderKeeps
    <1> QED BY <1>6, <1>7, <1>9, <1>10

LEMMA Writes ==
    ASSUME SoundInvariant, NEW t \in Threads, WriteSample(t)
    PROVE  SoundInvariant'
    <1>1. BuffersTyped /\ WorkerTyped /\ BuffersAreTwo /\ WritersTakeTurns
        BY DEF SoundInvariant
    <1>2. /\ UNCHANGED <<read, write, reader, chunks, worker>>
          /\ writer[t] \in Writer /\ writer[t].at < writer[t].last
        BY <1>1 DEF WriteSample, BuffersTyped
    <1>3. Busy(t) /\ writer[t].old = 0 /\ writer[t].into = write /\ read # write
        <2>1. writer[t].at \in Int /\ writer[t].last \in Int
            BY <1>2, CollectorAssumption DEF Writer
        <2>2. Busy(t)
            <3>1. writer[t] # NotWriting
                BY <1>2 DEF NotWriting
            <3> QED BY <1>1, <3>1 DEF BuffersAreTwo
        <2>3. writer[t].at # writer[t].last
            BY <1>2, <2>1
        <2> QED BY <1>1, <2>2, <2>3 DEF BuffersAreTwo
    <1> DEFINE n == writer[t].at + 1
               w == [writer[t] EXCEPT !.at = n]
    <1>4. n \in 1..ChunkSize
        BY <1>2, CollectorAssumption DEF Writer
    <1>5. /\ w \in Writer /\ w.at = n /\ w.last = writer[t].last
          /\ w.into = writer[t].into /\ w.old = writer[t].old
        <2>1. n \in 0..ChunkSize
            BY <1>4, CollectorAssumption
        <2> HIDE DEF n
        <2> QED BY <1>2, <2>1 DEF Writer
    <1>6. writer' = [writer EXCEPT ![t] = w]
        BY DEF WriteSample
    <1> HIDE DEF w
    <1>7. /\ writer' \in [Threads -> Writer] /\ writer'[t] = w
          /\ \A u \in Threads : u # t => writer'[u] = writer[u]
        BY <1>1, <1>5, <1>6 DEF BuffersTyped
    <1>8. buffer' = [buffer EXCEPT ![write][n] = writer[t].chunk]
        BY <1>3, <1>5, <1>7 DEF WriteSample
    <1> HIDE DEF n
    <1>9. buffer' \in [Half -> Held] /\ buffer'[read] = buffer[read]
        <2>1. writer[t].chunk \in 0..MaxChunks
            BY <1>2 DEF Writer
        <2>2. write \in Half /\ read \in Half /\ buffer \in [Half -> Held]
            BY <1>1 DEF BuffersTyped
        <2>3. [buffer[write] EXCEPT ![n] = writer[t].chunk] \in Held
            BY <1>4, <2>1, <2>2 DEF Held
        <2> QED BY <1>3, <1>8, <2>2, <2>3
    <1>10. BuffersTyped'
        BY <1>1, <1>2, <1>7, <1>9 DEF BuffersTyped
    <1>11. \A u \in Threads : Busy(u)' = Busy(u)
        BY <1>5, <1>7 DEF Busy
    <1>12. BuffersAreTwo'
        BY <1>1, <1>2, <1>3, <1>5, <1>7, <1>11 DEF BuffersAreTwo
    <1>13. ReaderIsTrue'
        BY <1>2, <1>9, ReaderKeeps
    <1>14. WorkerTyped' /\ WritersTakeTurns'
        BY <1>1, <1>2, <1>11 DEF WorkerTyped, WritersTakeTurns, worker, Threads
    <1> QED BY <1>10, <1>12, <1>13, <1>14 DEF SoundInvariant

LEMMA Exchanges ==
    ASSUME SoundInvariant, NEW t \in Threads, Exchange(t)
    PROVE  SoundInvariant'
    <1>1. BuffersTyped /\ WorkerTyped /\ BuffersAreTwo /\ WritersTakeTurns /\ ReaderIsTrue
        BY DEF SoundInvariant
    <1>2. /\ UNCHANGED <<buffer, write, chunks, worker>> /\ Busy(t)
          /\ writer[t].at = writer[t].last /\ writer[t].old = 0
          /\ read' = writer[t].into
        BY DEF Exchange
    <1>3. writer[t] \in Writer /\ writer[t].into = write /\ read # write
        BY <1>1, <1>2 DEF BuffersTyped, BuffersAreTwo
    <1> DEFINE w == [writer[t] EXCEPT !.old = read]
    <1>4. /\ w \in Writer /\ w.old = read /\ w.into = writer[t].into /\ w.at = w.last
        <2>1. read \in 0..2
            BY <1>1 DEF BuffersTyped, Half
        <2> QED BY <1>2, <1>3, <2>1 DEF Writer
    <1>5. writer' = [writer EXCEPT ![t] = w]
        BY DEF Exchange
    <1> HIDE DEF w
    <1>6. /\ writer' \in [Threads -> Writer] /\ writer'[t] = w
          /\ \A u \in Threads : u # t => writer'[u] = writer[u]
        BY <1>1, <1>4, <1>5 DEF BuffersTyped
    <1>7. /\ reader' \in Reader /\ reader'.at = reader.at /\ reader'.got = reader.got
          /\ reader'.was = reader.was /\ reader'.from = reader.from
          /\ reader.at > 0 => reader'.swapped = TRUE
        <2>1. reader' = [reader EXCEPT !.swapped = reader.at > 0]
            BY DEF Exchange
        <2>2. reader \in Reader /\ (reader.at > 0) \in BOOLEAN
            BY <1>1 DEF BuffersTyped
        <2>3. ASSUME reader.at > 0 PROVE reader'.swapped = TRUE
            <3>1. reader' = [reader EXCEPT !.swapped = TRUE]
                BY <2>1, <2>3
            <3> QED BY <2>2, <3>1 DEF Reader
        <2> DEFINE b == reader.at > 0
        <2> HIDE DEF b
        <2>4. /\ reader' \in Reader /\ reader'.at = reader.at /\ reader'.got = reader.got
              /\ reader'.was = reader.was /\ reader'.from = reader.from
            <3>1. b \in BOOLEAN
                BY DEF b
            <3>2. reader' = [reader EXCEPT !.swapped = b]
                BY <2>1 DEF b
            <3> QED BY <2>2, <3>1, <3>2 DEF Reader
        <2> QED BY <2>3, <2>4
    <1>8. BuffersTyped'
        BY <1>1, <1>2, <1>3, <1>6, <1>7 DEF BuffersTyped
    <1>9. \A u \in Threads : Busy(u)' = Busy(u)
        BY <1>4, <1>6 DEF Busy
    <1>10. \A u \in Threads : u # t => ~Busy(u)
        BY <1>1, <1>2, OneWriter
    <1>11. read \in Half /\ read # 0
        BY <1>1 DEF BuffersTyped, Half
    <1>12. BuffersAreTwo'
        BY <1>1, <1>2, <1>3, <1>4, <1>6, <1>9, <1>10, <1>11 DEF BuffersAreTwo
    <1>13. ReaderIsTrue'
        <2> SUFFICES ASSUME reader'.at > 0 PROVE ReaderIsTrue'
            BY DEF ReaderIsTrue
        <2>1. reader.at > 0 /\ reader'.swapped = TRUE
            BY <1>7
        <2>2. /\ Len(reader.got) = reader.at - 1 /\ Len(reader.was) = ChunkSize
              /\ reader.from \in Half
            BY <1>1, <2>1 DEF ReaderIsTrue
        <2> QED BY <1>7, <2>1, <2>2 DEF ReaderIsTrue
    <1>14. WorkerTyped' /\ WritersTakeTurns'
        BY <1>1, <1>2, <1>9 DEF WorkerTyped, WritersTakeTurns, worker, Threads
    <1> QED BY <1>8, <1>12, <1>13, <1>14 DEF SoundInvariant

LEMMA Stores ==
    ASSUME SoundInvariant, NEW t \in Threads, StoreWriteBuffer(t)
    PROVE  SoundInvariant'
    <1>1. BuffersTyped /\ WorkerTyped /\ BuffersAreTwo /\ WritersTakeTurns /\ ReaderIsTrue
        BY DEF SoundInvariant
    <1>2. /\ UNCHANGED <<buffer, read, reader, chunks, worker>>
          /\ writer[t].old # 0 /\ write' = writer[t].old
          /\ writer' = [writer EXCEPT ![t] = NotWriting]
        BY DEF StoreWriteBuffer
    <1>3. Busy(t)
        BY <1>1, <1>2 DEF BuffersAreTwo, NotWriting
    <1>4. /\ writer[t] \in Writer /\ read = write /\ writer[t].old # write
        BY <1>1, <1>2, <1>3 DEF BuffersTyped, BuffersAreTwo
    <1>5. /\ writer' \in [Threads -> Writer] /\ writer'[t] = NotWriting
          /\ \A u \in Threads : u # t => writer'[u] = writer[u]
        BY <1>1, <1>2, Resting DEF BuffersTyped
    <1>6. write' \in Half
        BY <1>2, <1>4 DEF Writer, Half
    <1>7. \A u \in Threads : u # t => ~Busy(u)
        BY <1>1, <1>3, OneWriter
    <1>8. \A u \in Threads : ~Busy(u)' /\ writer'[u] = NotWriting
        BY <1>1, <1>5, <1>7, Resting DEF Busy, BuffersAreTwo
    <1>9. BuffersTyped'
        BY <1>1, <1>2, <1>5, <1>6 DEF BuffersTyped
    <1>10. BuffersAreTwo'
        BY <1>2, <1>4, <1>8 DEF BuffersAreTwo
    <1>11. ReaderIsTrue'
        BY <1>2, ReaderKeeps
    <1>12. WorkerTyped' /\ WritersTakeTurns'
        BY <1>1, <1>2, <1>8 DEF WorkerTyped, WritersTakeTurns, worker, Threads
    <1> QED BY <1>9, <1>10, <1>11, <1>12 DEF SoundInvariant

---------------------------------------------------------------------------
(* AudioCollector: the readers                                             *)

\* Readers only read.
LEMMA Reads ==
    ASSUME SoundInvariant, UNCHANGED <<buffer, read, write, writer, chunks, worker>>,
           reader' \in Reader, ReaderIsTrue'
    PROVE  SoundInvariant'
    <1>1. BuffersTyped /\ WorkerTyped /\ BuffersAreTwo /\ WritersTakeTurns
        BY DEF SoundInvariant
    <1>2. \A u \in Threads : Busy(u)' = Busy(u)
        BY DEF Busy
    <1>3. BuffersTyped' /\ BuffersAreTwo'
        BY <1>1, <1>2 DEF BuffersTyped, BuffersAreTwo
    <1>4. WorkerTyped' /\ WritersTakeTurns'
        BY <1>1, <1>2 DEF WorkerTyped, WritersTakeTurns, worker, Threads
    <1> QED BY <1>3, <1>4 DEF SoundInvariant

LEMMA ReadBegins ==
    ASSUME SoundInvariant, BeginRead
    PROVE  SoundInvariant'
    <1>1. read \in Half /\ buffer[read] \in Held
        BY DEF SoundInvariant, BuffersTyped
    <1>2. buffer[read] \in Seq(0..MaxChunks) /\ Len(buffer[read]) = ChunkSize
        BY <1>1, CollectorAssumption DEF Held
    <1> DEFINE b == buffer[read]
               r == [at |-> 1, from |-> read, got |-> <<>>, was |-> b, swapped |-> FALSE]
    <1>3. reader' = r /\ UNCHANGED <<buffer, read, write, writer, chunks, worker>>
        BY DEF BeginRead
    <1>4. r \in Reader
        <2>1. 1 \in 0..ChunkSize + 1 /\ read \in 0..2 /\ <<>> \in Seq(0..MaxChunks)
            BY <1>1, CollectorAssumption DEF Half
        <2> HIDE DEF b
        <2> QED BY <1>2, <2>1 DEF Reader, b
    <1>5. ReaderIsTrue'
        <2>1. /\ reader'.at = 1 /\ reader'.from = read /\ reader'.was = b
              /\ Len(reader'.got) = 0
            BY <1>3
        <2>2. buffer'[read'] = b /\ read' = read
            BY <1>3
        <2> QED BY <1>1, <1>2, <2>1, <2>2 DEF ReaderIsTrue
    <1> QED BY <1>3, <1>4, <1>5, Reads

LEMMA ReadGoesOn ==
    ASSUME SoundInvariant, ReadSample
    PROVE  SoundInvariant'
    <1>1. reader \in Reader /\ buffer \in [Half -> Held] /\ ReaderIsTrue /\ read \in Half
        BY DEF SoundInvariant, BuffersTyped
    <1>2. /\ reader.at \in 1..ChunkSize /\ reader.at > 0 /\ ChunkSize \in Nat
          /\ UNCHANGED <<buffer, read, write, writer, chunks, worker>>
        BY CollectorAssumption DEF ReadSample
    <1>3. /\ Len(reader.got) = reader.at - 1 /\ Len(reader.was) = ChunkSize
          /\ reader.from \in Half
          /\ ~reader.swapped => /\ reader.from = read /\ buffer[read] = reader.was
                                /\ \A k \in 1..Len(reader.got) : reader.got[k] = reader.was[k]
        BY <1>1, <1>2 DEF ReaderIsTrue
    <1> DEFINE x == buffer[reader.from][reader.at]
               got == Append(reader.got, x)
               n == reader.at + 1
    <1>4. x \in 0..MaxChunks
        BY <1>1, <1>2, <1>3 DEF Held
    <1>5. reader' = [reader EXCEPT !.at = n, !.got = got]
        BY DEF ReadSample
    <1>6. n \in 0..ChunkSize + 1
        BY <1>2
    <1>7. reader.got \in Seq(0..MaxChunks)
        BY <1>1 DEF Reader
    <1>8. /\ got \in Seq(0..MaxChunks) /\ Len(got) = reader.at /\ got[reader.at] = x
          /\ \A k \in 1..(reader.at - 1) : got[k] = reader.got[k]
        <2> HIDE DEF x
        <2> QED BY <1>2, <1>3, <1>4, <1>7
    <1> HIDE DEF n, got
    <1>9. /\ reader' \in Reader /\ reader'.at = n /\ reader'.got = got
          /\ reader'.was = reader.was /\ reader'.from = reader.from
          /\ reader'.swapped = reader.swapped
        BY <1>1, <1>5, <1>6, <1>8 DEF Reader
    <1>10. Len(got) = n - 1
        BY <1>2, <1>8 DEF n
    <1>11. ASSUME ~reader.swapped PROVE \A k \in 1..Len(got) : got[k] = reader.was[k]
        <2>1. x = reader.was[reader.at]
            BY <1>3, <1>11
        <2> SUFFICES ASSUME NEW k \in 1..Len(got) PROVE got[k] = reader.was[k]
            OBVIOUS
        <2>2. k = reader.at \/ k \in 1..(reader.at - 1)
            BY <1>2, <1>8
        <2> HIDE DEF x
        <2> QED BY <1>3, <1>8, <1>11, <2>1, <2>2
    <1> HIDE DEF x
    <1>12. ReaderIsTrue'
        BY <1>2, <1>3, <1>9, <1>10, <1>11 DEF ReaderIsTrue
    <1> QED BY <1>2, <1>9, <1>12, Reads

LEMMA ReadEnds ==
    ASSUME SoundInvariant, EndRead
    PROVE  SoundInvariant'
    <1>1. reader' = NoRead /\ UNCHANGED <<buffer, read, write, writer, chunks, worker>>
        BY DEF EndRead
    <1>2. reader' \in Reader /\ ReaderIsTrue'
        BY <1>1, Resting DEF ReaderIsTrue
    <1> QED BY <1>1, <1>2, Reads

---------------------------------------------------------------------------
(* AudioCollector: the worker                                              *)

\* What leaves the buffers and their users alone, and does not let PipeWire
\* write while the loop does.
LEMMA Waits ==
    ASSUME SoundInvariant, UNCHANGED <<buffer, read, write, writer, reader>>,
           WorkerTyped', stream' = "streaming" => timer' = "off",
           timer' = "off" => ~Busy("loop"),
           Busy("rt") => timer' = "off" /\ stream' = "streaming"
    PROVE  SoundInvariant'
    <1>1. BuffersTyped /\ BuffersAreTwo
        BY DEF SoundInvariant
    <1>2. \A u \in Threads : Busy(u)' = Busy(u)
        BY DEF Busy
    <1>3. BuffersTyped' /\ BuffersAreTwo' /\ ReaderIsTrue'
        BY <1>1, <1>2, ReaderKeeps DEF BuffersTyped, BuffersAreTwo
    <1>4. WritersTakeTurns'
        BY <1>2 DEF WritersTakeTurns, Threads
    <1> QED BY <1>3, <1>4 DEF SoundInvariant

LEMMA QuitsSoundly ==
    ASSUME SoundInvariant, Quits
    PROVE  SoundInvariant'
    <1>1. UNCHANGED <<buffer, read, write, writer, reader, stream, timer>>
        BY DEF Quits
    <1>2. WorkerTyped'
        BY DEF SoundInvariant, WorkerTyped, Quits
    <1> QED BY <1>1, <1>2, Waits DEF SoundInvariant, WritersTakeTurns

LEMMA TimesOut ==
    ASSUME SoundInvariant, HandleTimeout
    PROVE  SoundInvariant'
    <1>1. BuffersTyped /\ WorkerTyped /\ WritersTakeTurns
        BY DEF SoundInvariant
    <1>2. timer # "off" /\ ~Busy("loop") /\ ~Busy("rt") /\ stream # "streaming"
        BY <1>1 DEF HandleTimeout, WritersTakeTurns
    <1>3. CASE Quits
        BY <1>3, QuitsSoundly
    <1>4. CASE /\ UNCHANGED <<chunks, stream, stopping, running>>
               /\ Begin("loop", 0, ChunkSize) /\ UNCHANGED <<timer, idle>>
        <2>1. BuffersTyped' /\ BuffersAreTwo' /\ ReaderIsTrue' /\ ~Busy("rt")'
            <3>1. \A u \in Threads : ~Busy(u)
                BY <1>2 DEF Threads
            <3>2. "loop" \in Threads /\ "rt" \in Threads /\ 0 \in 0..MaxChunks
                  /\ ChunkSize \in Nat
                BY CollectorAssumption DEF Threads
            <3> QED BY <1>4, <3>1, <3>2, Begins
        <2>2. WorkerTyped' /\ WritersTakeTurns'
            BY <1>1, <1>2, <1>4, <2>1 DEF WorkerTyped, WritersTakeTurns
        <2> QED BY <2>1, <2>2 DEF SoundInvariant
    <1>5. CASE /\ UNCHANGED <<chunks, stream, stopping, running>>
               /\ idle' = TRUE /\ timer' = "slow"
               /\ UNCHANGED <<buffer, read, write, writer, reader>>
        <2>1. WorkerTyped'
            BY <1>1, <1>5 DEF WorkerTyped
        <2> QED BY <1>2, <1>5, <2>1, Waits
    <1>6. CASE /\ UNCHANGED <<chunks, stream, stopping, running>>
               /\ UNCHANGED <<buffer, read, write, writer, reader, timer, idle>>
        <2>1. WorkerTyped'
            BY <1>1, <1>6 DEF WorkerTyped
        <2> QED BY <1>2, <1>6, <2>1, Waits
    <1> QED BY <1>3, <1>4, <1>5, <1>6 DEF HandleTimeout

LEMMA StreamChanges ==
    ASSUME SoundInvariant, NEW state \in States \ {"connecting"}, StreamStateChanged(state)
    PROVE  SoundInvariant'
    <1>1. /\ WorkerTyped /\ ~Busy("loop") /\ ~Busy("rt")
          /\ stream' = state /\ idle' = FALSE /\ timer' = TimerOf(state)
          /\ running' = (state # "error")
          /\ UNCHANGED <<buffer, read, write, writer, reader, chunks, stopping>>
        BY DEF SoundInvariant, StreamStateChanged
    <1>2. timer' \in {"off", "fast", "slow"} /\ (stream' = "streaming" => timer' = "off")
        BY <1>1 DEF TimerOf, WorkerTyped
    <1>3. WorkerTyped'
        BY <1>1, <1>2 DEF WorkerTyped
    <1> QED BY <1>1, <1>2, <1>3, Waits

LEMMA StreamIsProcessed ==
    ASSUME SoundInvariant, ProcessStream
    PROVE  SoundInvariant'
    <1>1. CASE Quits
        BY <1>1, QuitsSoundly
    <1>2. ASSUME chunks < MaxChunks, chunks' = chunks + 1,
                 NEW count \in 1..(ChunkSize + 1), Begin("rt", chunks + 1, count),
                 UNCHANGED worker
          PROVE  SoundInvariant'
        <2>1. BuffersTyped /\ WorkerTyped /\ WritersTakeTurns
            BY DEF SoundInvariant
        <2>2. stream = "streaming" /\ timer = "off" /\ ~Busy("rt") /\ ~Busy("loop")
            BY <2>1 DEF ProcessStream, WritersTakeTurns
        <2>3. chunks + 1 \in 0..MaxChunks /\ count \in Nat
            BY <1>2, <2>1, CollectorAssumption DEF WorkerTyped
        <2>4. BuffersTyped' /\ BuffersAreTwo' /\ ReaderIsTrue' /\ ~Busy("loop")'
            <3>1. \A u \in Threads : ~Busy(u)
                BY <2>2 DEF Threads
            <3>2. "rt" \in Threads /\ "loop" \in Threads
                BY DEF Threads
            <3> QED BY <1>2, <2>3, <3>1, <3>2, Begins
        <2>5. UNCHANGED <<stream, timer, idle, stopping, running>>
            BY <1>2 DEF worker
        <2>6. WorkerTyped' /\ WritersTakeTurns'
            BY <1>2, <2>1, <2>2, <2>3, <2>4, <2>5 DEF WorkerTyped, WritersTakeTurns
        <2> QED BY <2>4, <2>6 DEF SoundInvariant
    <1> QED BY <1>1, <1>2 DEF ProcessStream

LEMMA StopIsRequested ==
    ASSUME SoundInvariant, RequestStop
    PROVE  SoundInvariant'
    <1>1. UNCHANGED <<buffer, read, write, writer, reader, stream, timer>>
        BY DEF RequestStop
    <1>2. WorkerTyped'
        BY DEF SoundInvariant, WorkerTyped, RequestStop
    <1> QED BY <1>1, <1>2, Waits DEF SoundInvariant, WritersTakeTurns

LEMMA WorkerStarts ==
    ASSUME SoundInvariant, Start
    PROVE  SoundInvariant'
    <1>1. /\ WorkerTyped /\ ~Busy("rt") /\ ~Busy("loop")
          /\ Begin("loop", 0, ChunkSize) /\ chunks' = chunks
          /\ stream' = "connecting" /\ timer' = "fast" /\ idle' = TRUE
          /\ stopping' = FALSE /\ running' = TRUE
        BY DEF SoundInvariant, Start, Begin
    <1>2. BuffersTyped' /\ BuffersAreTwo' /\ ReaderIsTrue' /\ ~Busy("rt")'
        <2>1. \A u \in Threads : ~Busy(u)
            BY <1>1 DEF Threads
        <2>2. "loop" \in Threads /\ "rt" \in Threads /\ 0 \in 0..MaxChunks /\ ChunkSize \in Nat
            BY CollectorAssumption DEF Threads
        <2> QED BY <1>1, <2>1, <2>2, Begins
    <1>3. WorkerTyped' /\ WritersTakeTurns'
        BY <1>1, <1>2 DEF WorkerTyped, WritersTakeTurns, States
    <1> QED BY <1>2, <1>3 DEF SoundInvariant

LEMMA SoundStarts == CollectorInit => SoundInvariant
    <1> SUFFICES ASSUME CollectorInit PROVE SoundInvariant
        OBVIOUS
    <1>1. [k \in 1..ChunkSize |-> 0] \in Held
        BY CollectorAssumption DEF Held
    <1>2. BuffersTyped
        BY <1>1, Resting DEF CollectorInit, BuffersTyped, Half
    <1>3. \A u \in Threads : writer[u] = NotWriting /\ ~Busy(u)
        BY Resting DEF CollectorInit, Busy
    <1>4. BuffersAreTwo
        BY <1>3 DEF CollectorInit, BuffersAreTwo
    <1>5. ReaderIsTrue
        BY Resting DEF CollectorInit, ReaderIsTrue
    <1>6. WorkerTyped
        <2>1. chunks \in 0..MaxChunks
            BY CollectorAssumption DEF CollectorInit
        <2>2. stream \in States /\ timer \in {"off", "fast", "slow"}
            BY DEF CollectorInit, States
        <2>3. idle = TRUE /\ stopping = FALSE /\ running = TRUE
            BY DEF CollectorInit
        <2> QED BY <2>1, <2>2, <2>3 DEF WorkerTyped
    <1>7. WritersTakeTurns
        <2>1. stream = "connecting" /\ timer = "fast"
            BY DEF CollectorInit
        <2> QED BY <1>3, <2>1 DEF WritersTakeTurns, Threads
    <1> QED BY <1>2, <1>4, <1>5, <1>6, <1>7 DEF SoundInvariant

LEMMA SoundSteps == SoundInvariant /\ [CollectorNext]_collectorVars => SoundInvariant'
    <1> SUFFICES ASSUME SoundInvariant, [CollectorNext]_collectorVars
                 PROVE  SoundInvariant'
        OBVIOUS
    <1>1. CASE UNCHANGED collectorVars
        <2>1. UNCHANGED <<buffer, read, write, writer, reader, chunks, stream, timer,
                          idle, stopping, running>>
            BY <1>1 DEF collectorVars
        <2>2. WorkerTyped'
            BY <2>1 DEF SoundInvariant, WorkerTyped
        <2> QED BY <2>1, <2>2, Waits DEF SoundInvariant, WritersTakeTurns
    <1>2. ASSUME NEW t \in Threads, WriteSample(t) \/ Exchange(t) \/ StoreWriteBuffer(t)
          PROVE  SoundInvariant'
        BY <1>2, Writes, Exchanges, Stores
    <1>3. CASE BeginRead \/ ReadSample \/ EndRead
        BY <1>3, ReadBegins, ReadGoesOn, ReadEnds
    <1>4. ASSUME NEW state \in States \ {"connecting"}, StreamStateChanged(state)
          PROVE  SoundInvariant'
        BY <1>4, StreamChanges
    <1>5. CASE HandleTimeout \/ ProcessStream \/ RequestStop \/ Start
        BY <1>5, TimesOut, StreamIsProcessed, StopIsRequested, WorkerStarts
    <1> QED BY <1>1, <1>2, <1>3, <1>4, <1>5 DEF CollectorNext

\* However the loop, the realtime thread of PipeWire, a restart and a reader
\* interleave, without any lock: the loop and the realtime thread never write at
\* once, the two buffers stay two, and a chunk read while the buffers are not
\* exchanged is the chunk that was shown.
THEOREM SoundStaysWhole == CollectorSpec => []SoundIsWhole
    <1>1. SoundInvariant => SoundIsWhole
        <2> SUFFICES ASSUME SoundInvariant PROVE SoundIsWhole
            OBVIOUS
        <2>1. CollectorTypeOK
            BY CollectorTypes DEF SoundInvariant
        <2>2. BuffersStayApart
            BY DEF SoundInvariant, WritersTakeTurns, BuffersAreTwo, BuffersStayApart
        <2>3. ReadsAreWhole
            <3> SUFFICES ASSUME reader.at > ChunkSize, ~reader.swapped
                         PROVE  reader.got = reader.was
                BY DEF ReadsAreWhole
            <3>1. /\ reader.at \in 0..ChunkSize + 1 /\ ChunkSize \in Nat
                  /\ reader.got \in Seq(0..MaxChunks) /\ reader.was \in Seq(0..MaxChunks)
                BY CollectorAssumption DEF SoundInvariant, BuffersTyped, Reader
            <3>2. reader.at = ChunkSize + 1 /\ reader.at > 0
                BY <3>1
            <3>3. /\ Len(reader.got) = ChunkSize /\ Len(reader.was) = ChunkSize
                  /\ \A k \in 1..Len(reader.got) : reader.got[k] = reader.was[k]
                BY <3>1, <3>2 DEF SoundInvariant, ReaderIsTrue
            <3> QED BY <3>1, <3>3, SeqEqual
        <2> QED BY <2>1, <2>2, <2>3 DEF SoundIsWhole
    <1> QED BY <1>1, SoundStarts, SoundSteps, PTL DEF CollectorSpec

---------------------------------------------------------------------------
(* Toaster: the list                                                       *)

\* A toast to come is locked by nothing and has not closed, and wrappers are of
\* toasts that came; those that are shown, of toasts in the list.
ToastInvariant ==
    /\ ToasterTypeOK /\ NoneLeftOver
    /\ new \subseteq Toasts
    /\ \A t \in new : locks[t] = {} /\ t \notin closed
    /\ wrappers \subseteq Wrappers /\ leaving \subseteq Wrappers
    /\ \A w \in wrappers : w[2] \in ToSet(toasts)
    /\ \A w \in leaving : w[2] \notin new

\* What a step must have ready when the screens are shown: the list ts, the
\* toasts cs that have closed and the locks ls, before new wrappers lock.
Prepared(ts, cs, ls, gone) ==
    /\ ts \in Seq(Toasts \ new') /\ IsInjective(ts) /\ cs \in SUBSET Toasts
    /\ ls \in [Toasts -> SUBSET Wrappers] /\ gone \subseteq leaving
    /\ new' \subseteq new /\ timers' \subseteq Toasts
    /\ \A t \in ToSet(ts) :
          /\ ls[t] \subseteq {w \in wrappers \cup (leaving \ gone) : w[2] = t}
          /\ t \in cs => ls[t] # {}
    /\ \A w \in wrappers : w \notin animated' => w[2] \in ToSet(ts) /\ w \in ls[w[2]]
    /\ \A t \in new' : ls[t] = {} /\ t \notin cs

LEMMA Members ==
    ASSUME NEW S, NEW s \in Seq(S), NEW t
    PROVE  /\ Contains(s, t) <=> t \in ToSet(s)
           /\ ToSet(s) \subseteq S
    BY DEF Contains, ToSet

LEMMA Joined ==
    ASSUME NEW S, NEW s \in Seq(S), NEW t \in Seq(S)
    PROVE  /\ s \o t \in Seq(S) /\ Len(s \o t) = Len(s) + Len(t)
           /\ \A i \in 1..Len(s) : (s \o t)[i] = s[i]
           /\ \A i \in (Len(s) + 1)..(Len(s) + Len(t)) : (s \o t)[i] = t[i - Len(s)]
    OBVIOUS

\* removeOne
LEMMA RemovesOne ==
    ASSUME NEW S, toasts \in Seq(S), IsInjective(toasts), NEW t
    PROVE  /\ Without(t) \in Seq(S) /\ IsInjective(Without(t))
           /\ ToSet(Without(t)) = ToSet(toasts) \ {t}
    <1>1. CASE ~Contains(toasts, t)
        BY <1>1, Members DEF Without
    <1>2. CASE Contains(toasts, t)
        <2> DEFINE k == CHOOSE i \in DOMAIN toasts : toasts[i] = t
                   n == Len(toasts)
                   r == Without(t)
        <2>1. k \in 1..n /\ toasts[k] = t /\ n \in Nat
            BY <1>2 DEF Contains
        <2>2. r = SubSeq(toasts, 1, k - 1) \o SubSeq(toasts, k + 1, n)
            BY <1>2 DEF Without, RemoveAt
        <2> HIDE DEF k
        <2>3. /\ SubSeq(toasts, 1, k - 1) \in Seq(S) /\ Len(SubSeq(toasts, 1, k - 1)) = k - 1
              /\ \A i \in 1..(k - 1) : SubSeq(toasts, 1, k - 1)[i] = toasts[i]
            BY <2>1
        <2>4. /\ SubSeq(toasts, k + 1, n) \in Seq(S) /\ Len(SubSeq(toasts, k + 1, n)) = n - k
              /\ \A i \in 1..(n - k) : SubSeq(toasts, k + 1, n)[i] = toasts[i + k]
            BY <2>1
        <2>5. /\ r \in Seq(S) /\ Len(r) = n - 1
              /\ \A i \in 1..(n - 1) : r[i] = IF i < k THEN toasts[i] ELSE toasts[i + 1]
            <3> DEFINE a == SubSeq(toasts, 1, k - 1)
                       b == SubSeq(toasts, k + 1, n)
            <3>1. r = a \o b
                BY <2>2
            <3>2. /\ a \in Seq(S) /\ b \in Seq(S) /\ Len(a) = k - 1 /\ Len(b) = n - k
                  /\ \A i \in 1..(k - 1) : a[i] = toasts[i]
                  /\ \A i \in 1..(n - k) : b[i] = toasts[i + k]
                BY <2>3, <2>4
            <3> HIDE DEF a, b, r, n
            <3>3. /\ r \in Seq(S) /\ Len(r) = Len(a) + Len(b)
                  /\ \A i \in 1..Len(a) : r[i] = a[i]
                  /\ \A i \in (Len(a) + 1)..(Len(a) + Len(b)) : r[i] = b[i - Len(a)]
                BY <3>1, <3>2, Joined
            <3>4. Len(r) = n - 1
                BY <2>1, <3>2, <3>3
            <3> SUFFICES ASSUME NEW i \in 1..(n - 1)
                         PROVE  r[i] = IF i < k THEN toasts[i] ELSE toasts[i + 1]
                BY <3>3, <3>4
            <3>5. CASE i < k
                BY <2>1, <3>2, <3>3, <3>5
            <3>6. CASE ~(i < k)
                <4>1. /\ i \in (Len(a) + 1)..(Len(a) + Len(b)) /\ i - Len(a) \in 1..(n - k)
                      /\ (i - Len(a)) + k = i + 1
                    BY <2>1, <3>2, <3>6
                <4>2. r[i] = b[i - Len(a)]
                    BY <3>3, <4>1
                <4>3. b[i - Len(a)] = toasts[(i - Len(a)) + k]
                    BY <3>2, <4>1
                <4> QED BY <3>6, <4>1, <4>2, <4>3
            <3> QED BY <3>5, <3>6
        <2> HIDE DEF r, n
        <2>6. IsInjective(r)
            <3> SUFFICES ASSUME NEW i \in 1..(n - 1), NEW j \in 1..(n - 1), r[i] = r[j]
                         PROVE  i = j
                BY <2>1, <2>5 DEF IsInjective
            <3>1. \A p \in 1..n, q \in 1..n : toasts[p] = toasts[q] => p = q
                BY DEF IsInjective, n
            <3> DEFINE p == IF i < k THEN i ELSE i + 1
                       q == IF j < k THEN j ELSE j + 1
            <3>2. p \in 1..n /\ q \in 1..n /\ (p = q => i = j)
                BY <2>1
            <3>3. r[i] = toasts[p] /\ r[j] = toasts[q]
                BY <2>5
            <3> HIDE DEF p, q
            <3> QED BY <3>1, <3>2, <3>3
        <2>7. ASSUME NEW x \in ToSet(r) PROVE x \in ToSet(toasts) \ {t}
            <3>1. PICK i \in 1..(n - 1) : r[i] = x
                BY <2>5, <2>7 DEF ToSet
            <3>2. PICK j \in 1..n : j # k /\ toasts[j] = x
                BY <2>1, <2>5, <3>1
            <3> QED BY <2>1, <3>2 DEF ToSet, IsInjective, n
        <2>8. ASSUME NEW x \in ToSet(toasts) \ {t} PROVE x \in ToSet(r)
            <3>1. PICK j \in 1..n : toasts[j] = x
                BY <2>8 DEF ToSet, n
            <3>2. j # k
                BY <2>1, <2>8, <3>1
            <3>3. PICK i \in 1..(n - 1) : r[i] = x
                <4>1. CASE j < k
                    BY <2>1, <2>5, <3>1, <4>1
                <4>2. CASE j > k
                    <5>1. j - 1 \in 1..(n - 1) /\ ~(j - 1 < k) /\ (j - 1) + 1 = j
                        BY <2>1, <3>1, <4>2
                    <5>2. r[j - 1] = toasts[j]
                        BY <2>5, <5>1
                    <5> QED BY <3>1, <5>1, <5>2
                <4> QED BY <2>1, <3>1, <3>2, <4>1, <4>2
            <3> QED BY <2>5, <3>3 DEF ToSet
        <2>9. ToSet(r) = ToSet(toasts) \ {t}
            BY <2>7, <2>8
        <2> QED BY <2>5, <2>6, <2>9 DEF r
    <1> QED BY <1>1, <1>2

LEMMA OnlyListed ==
    ASSUME NEW S, NEW ts \in Seq(S), NEW s, NEW cs, NEW fs
    PROVE  ModelValues(s, ts, cs, fs) \subseteq ToSet(ts)
    <1> SUFFICES ASSUME NEW x \in ModelValues(s, ts, cs, fs) PROVE x \in ToSet(ts)
        OBVIOUS
    <1>1. PICK i \in 1..Len(ts) : x = ts[i]
        BY DEF ModelValues
    <1> QED BY <1>1 DEF ToSet

LEMMA Shows ==
    ASSUME ToastInvariant, NEW ts, NEW cs, NEW fs, NEW ls, NEW gone,
           Prepared(ts, cs, ls, gone), Show(ts, cs, fs, ls, gone)
    PROVE  ToastInvariant' /\ GoesAnimated
    <1> DEFINE now == UNION {{s} \X ModelValues(s, ts, cs, fs) : s \in ToastScreens}
    <1>1. /\ (now \ wrappers) \cap (leaving \ gone) = {}
          /\ toasts' = ts /\ closed' = cs
          /\ locks' = [t \in Toasts |-> ls[t] \cup {w \in now \ wrappers : w[2] = t}]
          /\ wrappers' = now /\ leaving' = (leaving \ gone) \cup (wrappers \ now)
        BY DEF Show
    <1>2. ToSet(ts) \subseteq Toasts \ new' /\ ToSet(ts) \subseteq Toasts
        BY Members DEF Prepared
    <1>3. now \subseteq Wrappers /\ \A w \in now : w[2] \in ToSet(ts)
        <2> SUFFICES ASSUME NEW s \in ToastScreens, NEW t \in ModelValues(s, ts, cs, fs)
                     PROVE  <<s, t>> \in Wrappers /\ t \in ToSet(ts)
            OBVIOUS
        <2> QED BY <1>2, OnlyListed DEF Prepared, Wrappers
    <1> HIDE DEF now
    <1>4. locks' \in [Toasts -> SUBSET Wrappers]
        BY <1>1, <1>3 DEF Prepared
    <1>5. \A t \in Toasts : locks'[t] = ls[t] \cup {w \in now \ wrappers : w[2] = t}
        BY <1>1
    <1>6. wrappers \cap leaving = {} /\ wrappers' \cap leaving' = {}
        BY <1>1 DEF ToastInvariant, ToasterTypeOK
    <1>7. ASSUME NEW t \in ToSet(ts)
          PROVE  /\ locks'[t] \subseteq {w \in wrappers' \cup leaving' : w[2] = t}
                 /\ {w \in wrappers' \ animated' : w[2] = t} \subseteq locks'[t]
                 /\ t \in cs => locks'[t] # {}
        <2>1. t \in Toasts
            BY <1>2, <1>7
        <2>2. locks'[t] = ls[t] \cup {w \in now \ wrappers : w[2] = t}
            BY <1>5, <2>1
        <2>3. ls[t] \subseteq {w \in wrappers \cup (leaving \ gone) : w[2] = t}
            BY <1>7 DEF Prepared
        <2>4. \A w \in wrappers : w \notin animated' /\ w[2] = t => w \in ls[t]
            BY DEF Prepared
        <2>5. t \in cs => ls[t] # {}
            BY <1>7 DEF Prepared
        <2> QED BY <1>1, <2>2, <2>3, <2>4, <2>5
    <1>8. ToasterTypeOK'
        BY <1>1, <1>4, <1>6, <1>7 DEF ToasterTypeOK, Prepared
    <1>9. NoneLeftOver'
        BY <1>1, <1>7 DEF NoneLeftOver
    <1>10. /\ new' \subseteq Toasts
           /\ \A t \in new' : locks'[t] = {} /\ t \notin closed'
        <2>1. new' \subseteq Toasts
            BY DEF Prepared, ToastInvariant
        <2> SUFFICES ASSUME NEW t \in new' PROVE locks'[t] = {} /\ t \notin closed'
            BY <2>1
        <2>2. ls[t] = {} /\ t \notin cs /\ t \notin ToSet(ts)
            BY <1>2 DEF Prepared
        <2> QED BY <1>1, <1>3, <1>5, <2>1, <2>2
    <1>11. wrappers' \subseteq Wrappers /\ leaving' \subseteq Wrappers
        BY <1>1, <1>3 DEF ToastInvariant
    <1>12. \A w \in wrappers' : w[2] \in ToSet(toasts')
        BY <1>1, <1>3
    <1>13. \A w \in leaving' : w[2] \notin new'
        <2>1. ToSet(toasts) \cap new = {}
            BY Members DEF ToastInvariant, ToasterTypeOK
        <2>2. \A w \in wrappers \cup leaving : w[2] \notin new
            BY <2>1 DEF ToastInvariant
        <2> QED BY <1>1, <2>2 DEF Prepared
    <1>14. GoesAnimated
        <2>1. toasts' \in Seq(Toasts)
            BY <1>1, <1>2 DEF Prepared
        <2> QED BY <1>1, <2>1, Members DEF GoesAnimated, Prepared
    <1> QED BY <1>8, <1>9, <1>10, <1>11, <1>12, <1>13, <1>14 DEF ToastInvariant

\* close, after the locks have become ls
LEMMA Closes ==
    ASSUME ToastInvariant, NEW t \in Toasts, t \notin new, NEW ls, NEW gone,
           Finish(t, closed \cup {t}, ls, gone),
           new' = new, timers' \subseteq Toasts, gone \subseteq leaving,
           ls \in [Toasts -> SUBSET Wrappers], \A u \in Toasts \ {t} : ls[u] = locks[u],
           \A u \in ToSet(toasts) :
               ls[u] \subseteq {w \in wrappers \cup (leaving \ gone) : w[2] = u},
           \A w \in wrappers : w \notin animated' => w \in ls[w[2]]
    PROVE  ToastInvariant' /\ GoesAnimated
    <1> DEFINE cs == closed \cup {t}
    <1>1. /\ toasts \in Seq(Toasts \ new) /\ IsInjective(toasts) /\ closed \subseteq Toasts
          /\ ToSet(toasts) \subseteq Toasts \ new /\ new \subseteq Toasts
          /\ \A w \in wrappers : w[2] \in ToSet(toasts)
        BY Members DEF ToastInvariant, ToasterTypeOK
    <1>2. \A u \in new' : ls[u] = {} /\ u \notin cs
        BY <1>1 DEF ToastInvariant
    <1>3. CASE Over(t, cs, ls)
        <2>1. /\ Without(t) \in Seq(Toasts \ new) /\ IsInjective(Without(t))
              /\ ToSet(Without(t)) = ToSet(toasts) \ {t}
            BY <1>1, RemovesOne
        <2>2. ls[t] = {}
            BY <1>3 DEF Over
        <2>3. Prepared(Without(t), cs, ls, gone)
            <3>1. \A u \in ToSet(Without(t)) : u \in cs => ls[u] # {}
                BY <1>1, <2>1 DEF ToastInvariant, NoneLeftOver
            <3>2. \A w \in wrappers : w \notin animated' =>
                     w[2] \in ToSet(Without(t)) /\ w \in ls[w[2]]
                BY <1>1, <2>1, <2>2
            <3> QED BY <1>1, <1>2, <2>1, <3>1, <3>2 DEF Prepared
        <2>4. Show(Without(t), cs, fullscreen, ls, gone)
            BY <1>3 DEF Finish
        <2> QED BY <2>3, <2>4, Shows
    <1>4. CASE ~Over(t, cs, ls)
        <2>1. \A u \in ToSet(toasts) : u \in cs => ls[u] # {}
            BY <1>1, <1>4 DEF ToastInvariant, NoneLeftOver, Over
        <2>2. Prepared(toasts, cs, ls, gone)
            BY <1>1, <1>2, <2>1 DEF Prepared
        <2>3. Show(toasts, cs, fullscreen, ls, gone)
            BY <1>4 DEF Finish
        <2> QED BY <2>2, <2>3, Shows
    <1> QED BY <1>3, <1>4

\* What was animated is, unless it is made again.
LEMMA StaysAnimated ==
    ASSUME Remade, NEW w \in wrappers
    PROVE  w \in animated' <=> w \in animated
    BY DEF Remade

LEMMA WrapperOf ==
    ASSUME ToastInvariant, NEW w \in wrappers \cup leaving
    PROVE  /\ w \in Wrappers /\ w[2] \in Toasts /\ w[2] \notin new
    <1>1. ToSet(toasts) \subseteq Toasts \ new
        BY Members DEF ToastInvariant, ToasterTypeOK
    <1>2. w \in Wrappers
        BY DEF ToastInvariant
    <1>3. w[2] \in Toasts
        BY <1>2 DEF Wrappers
    <1> QED BY <1>1, <1>2, <1>3 DEF ToastInvariant

\* Every wrapper that is not animated locks its toast.
LEMMA Locked ==
    ASSUME ToastInvariant, NEW w \in wrappers, w \notin animated
    PROVE  w[2] \in ToSet(toasts) /\ w \in locks[w[2]]
    BY DEF ToastInvariant, ToasterTypeOK

LEMMA Toasted ==
    ASSUME ToastInvariant, NEW t \in Toasts, Toast(t)
    PROVE  ToastInvariant' /\ GoesAnimated
    <1> DEFINE ts == <<t>> \o toasts
    <1>1. /\ t \in new /\ new' = new \ {t} /\ timers' = timers \cup {t} /\ Remade
          /\ Show(ts, closed, fullscreen, locks, {})
        BY DEF Toast
    <1>2. /\ toasts \in Seq(Toasts \ new) /\ IsInjective(toasts) /\ closed \subseteq Toasts
          /\ ToSet(toasts) \subseteq Toasts \ new /\ timers \subseteq Toasts
          /\ locks \in [Toasts -> SUBSET Wrappers]
        BY Members DEF ToastInvariant, ToasterTypeOK
    <1>3. toasts \in Seq(Toasts \ new')
        BY <1>1, <1>2
    <1>4. t \in Toasts \ new'
        BY <1>1
    <1>5. /\ ts \in Seq(Toasts \ new') /\ Len(ts) = Len(toasts) + 1 /\ ts[1] = t
          /\ \A i \in 1..Len(toasts) : ts[i + 1] = toasts[i]
        BY <1>3, <1>4
    <1>6. \A i \in 2..Len(ts) : i - 1 \in 1..Len(toasts) /\ ts[i] = toasts[i - 1]
        BY <1>2, <1>5
    <1> HIDE DEF ts
    <1>7. ToSet(ts) = ToSet(toasts) \cup {t}
        <2>1. \A i \in DOMAIN ts : i = 1 \/ i \in 2..Len(ts)
            BY <1>5
        <2>2. ToSet(ts) \subseteq ToSet(toasts) \cup {t}
            <3> SUFFICES ASSUME NEW i \in DOMAIN ts PROVE ts[i] \in ToSet(toasts) \cup {t}
                BY DEF ToSet
            <3>1. CASE i \in 2..Len(ts)
                BY <1>2, <1>6, <3>1 DEF ToSet
            <3> QED BY <1>5, <2>1, <3>1
        <2>3. \A i \in 1..Len(toasts) : i + 1 \in DOMAIN ts
            BY <1>2, <1>5
        <2>4. 1 \in DOMAIN ts
            BY <1>2, <1>5
        <2>5. ToSet(toasts) \subseteq ToSet(ts)
            <3> SUFFICES ASSUME NEW i \in 1..Len(toasts) PROVE toasts[i] \in ToSet(ts)
                BY <1>2 DEF ToSet
            <3> QED BY <1>5, <2>3 DEF ToSet
        <2>6. t \in ToSet(ts)
            BY <1>5, <2>4 DEF ToSet
        <2> QED BY <2>2, <2>5, <2>6
    <1>8. IsInjective(ts)
        <2>1. \A i \in 1..Len(toasts) : toasts[i] # t
            BY <1>1, <1>2 DEF ToSet
        <2>2. \A i \in DOMAIN ts : i = 1 \/ i \in 2..Len(ts)
            BY <1>5
        <2> SUFFICES ASSUME NEW i \in DOMAIN ts, NEW j \in DOMAIN ts, ts[i] = ts[j]
                     PROVE  i = j
            BY DEF IsInjective
        <2>3. CASE i = 1 \/ j = 1
            BY <1>5, <1>6, <2>1, <2>2, <2>3
        <2>4. CASE i \in 2..Len(ts) /\ j \in 2..Len(ts)
            <3>1. toasts[i - 1] = toasts[j - 1] /\ i - 1 \in 1..Len(toasts) /\ j - 1 \in 1..Len(toasts)
                BY <1>6, <2>4
            <3>2. i - 1 = j - 1
                BY <1>2, <3>1 DEF IsInjective
            <3> QED BY <2>4, <3>2
        <2> QED BY <2>2, <2>3, <2>4
    <1>9. locks[t] = {} /\ t \notin closed
        BY <1>1 DEF ToastInvariant
    <1>10. \A u \in ToSet(ts) :
              /\ locks[u] \subseteq {w \in wrappers \cup (leaving \ {}) : w[2] = u}
              /\ u \in closed => locks[u] # {}
        BY <1>7, <1>9 DEF ToastInvariant, ToasterTypeOK, NoneLeftOver
    <1>11. \A w \in wrappers : w \notin animated' => w[2] \in ToSet(ts) /\ w \in locks[w[2]]
        BY <1>1, <1>7, StaysAnimated, Locked
    <1>12. Prepared(ts, closed, locks, {})
        BY <1>1, <1>2, <1>5, <1>8, <1>10, <1>11 DEF Prepared, ToastInvariant
    <1> QED BY <1>1, <1>12, Shows

\* close, by a click or by the timer
LEMMA ClosesUnasked ==
    ASSUME ToastInvariant, NEW t \in Toasts, t \notin new, new' = new,
           timers' \subseteq Toasts, Remade, Finish(t, closed \cup {t}, locks, {})
    PROVE  ToastInvariant' /\ GoesAnimated
    <1>1. /\ locks \in [Toasts -> SUBSET Wrappers]
          /\ \A u \in ToSet(toasts) :
                locks[u] \subseteq {w \in wrappers \cup (leaving \ {}) : w[2] = u}
        BY DEF ToastInvariant, ToasterTypeOK
    <1>2. \A w \in wrappers : w \notin animated' => w \in locks[w[2]]
        BY StaysAnimated, Locked
    <1> QED BY <1>1, <1>2, Closes

\* unlock, by an animation or by the end of a wrapper
LEMMA Unlocks ==
    ASSUME ToastInvariant, NEW w \in wrappers \cup leaving, NEW gone \in SUBSET {w},
           gone \subseteq leaving, w \in leaving => gone = {w}, Unlock(w, gone),
           new' = new, timers' = timers,
           \A x \in wrappers : x \notin animated' => x # w /\ x \notin animated
    PROVE  ToastInvariant' /\ GoesAnimated
    <1> DEFINE t == w[2]
               held == locks[t] \ {w}
               ls == [locks EXCEPT ![t] = held]
    <1>1. t \in Toasts /\ t \notin new
        BY WrapperOf
    <1>2. /\ locks \in [Toasts -> SUBSET Wrappers] /\ timers \subseteq Toasts
          /\ toasts \in Seq(Toasts \ new) /\ IsInjective(toasts) /\ closed \subseteq Toasts
          /\ ToSet(toasts) \subseteq Toasts \ new /\ wrappers \cap leaving = {}
          /\ new \subseteq Toasts
        BY Members DEF ToastInvariant, ToasterTypeOK
    <1>3. /\ ls \in [Toasts -> SUBSET Wrappers] /\ ls[t] = held
          /\ \A u \in Toasts \ {t} : ls[u] = locks[u]
        BY <1>1, <1>2
    <1>4. \/ w \in locks[t] /\ t \in closed /\ Finish(t, closed, ls, gone)
          \/ ~(w \in locks[t] /\ t \in closed) /\ Show(toasts, closed, fullscreen, ls, gone)
        BY DEF Unlock
    <1> HIDE DEF ls
    <1>5. ASSUME NEW u \in ToSet(toasts)
          PROVE  ls[u] \subseteq {x \in wrappers \cup (leaving \ gone) : x[2] = u}
        <2>1. locks[u] \subseteq {x \in wrappers \cup leaving : x[2] = u}
            BY <1>5 DEF ToastInvariant, ToasterTypeOK
        <2>2. u \in Toasts
            BY <1>2, <1>5
        <2>3. ls[u] \subseteq locks[u] \ {w}
            <3>1. CASE u = t
                BY <1>3, <3>1
            <3>2. CASE u # t
                BY <1>3, <2>1, <2>2, <3>2
            <3> QED BY <3>1, <3>2
        <2> QED BY <2>1, <2>3
    <1>6. ASSUME NEW x \in wrappers, x \notin animated'
          PROVE  x[2] \in ToSet(toasts) /\ x \in ls[x[2]]
        <2>1. x # w /\ x \notin animated
            BY <1>6
        <2>2. x[2] \in ToSet(toasts) /\ x \in locks[x[2]] /\ x[2] \in Toasts
            BY <1>2, <2>1, Locked
        <2>3. x \in ls[x[2]]
            <3>1. CASE x[2] = t
                BY <1>3, <2>1, <2>2, <3>1
            <3>2. CASE x[2] # t
                BY <1>3, <2>2, <3>2
            <3> QED BY <3>1, <3>2
        <2> QED BY <2>2, <2>3
    <1>7. CASE t \in closed /\ Finish(t, closed, ls, gone)
        <2>1. closed = closed \cup {t}
            BY <1>7
        <2>2. Finish(t, closed \cup {t}, ls, gone)
            BY <1>7, <2>1
        <2> HIDE DEF t
        <2> QED BY <1>1, <1>2, <1>3, <1>5, <1>6, <2>2, Closes
    <1>8. CASE ~(w \in locks[t] /\ t \in closed) /\ Show(toasts, closed, fullscreen, ls, gone)
        <2>1. \A u \in ToSet(toasts) : u \in closed => ls[u] # {}
            <3> SUFFICES ASSUME NEW u \in ToSet(toasts), u \in closed PROVE ls[u] # {}
                OBVIOUS
            <3>1. locks[u] # {} /\ u \in Toasts
                BY <1>2 DEF ToastInvariant, NoneLeftOver
            <3>2. CASE u = t
                BY <1>3, <1>8, <3>1, <3>2
            <3>3. CASE u # t
                BY <1>3, <3>1, <3>3
            <3> QED BY <3>2, <3>3
        <2>2. \A u \in new : ls[u] = {} /\ u \notin closed
            BY <1>1, <1>2, <1>3 DEF ToastInvariant
        <2>3. Prepared(toasts, closed, ls, gone)
            BY <1>2, <1>3, <1>5, <1>6, <2>1, <2>2 DEF Prepared
        <2> QED BY <1>8, <2>3, Shows
    <1> QED BY <1>4, <1>7, <1>8

LEMMA ModeChanged ==
    ASSUME ToastInvariant, NEW s \in ToastScreens, NEW mode \in ScreenModes,
           ChangeFullscreen(s, mode)
    PROVE  ToastInvariant' /\ GoesAnimated
    <1> DEFINE fs == [fullscreen EXCEPT ![s] = mode]
    <1>1. Show(toasts, closed, fs, locks, {}) /\ Remade /\ UNCHANGED <<new, timers>>
        BY DEF ChangeFullscreen
    <1> HIDE DEF fs
    <1>2. \A w \in wrappers : w \notin animated' => w[2] \in ToSet(toasts) /\ w \in locks[w[2]]
        BY <1>1, StaysAnimated, Locked
    <1>3. Prepared(toasts, closed, locks, {})
        BY <1>1, <1>2 DEF Prepared, ToastInvariant, ToasterTypeOK, NoneLeftOver
    <1> QED BY <1>1, <1>3, Shows

LEMMA ToastsStart == ToasterInit => ToastInvariant
    <1> SUFFICES ASSUME ToasterInit PROVE ToastInvariant
        OBVIOUS
    <1>1. ToSet(toasts) = {} /\ toasts \in Seq(Toasts \ new) /\ IsInjective(toasts)
        BY DEF ToasterInit, ToSet, IsInjective
    <1>2. ToasterTypeOK
        BY <1>1 DEF ToasterInit, ToasterTypeOK
    <1> QED BY <1>1, <1>2 DEF ToasterInit, ToastInvariant, NoneLeftOver

LEMMA ToastsStep ==
    ToastInvariant /\ [ToasterNext]_toasterVars =>
        ToastInvariant' /\ [GoesAnimated]_toasterVars
    <1> SUFFICES ASSUME ToastInvariant, [ToasterNext]_toasterVars
                 PROVE  ToastInvariant' /\ [GoesAnimated]_toasterVars
        OBVIOUS
    <1>1. ASSUME NEW t \in Toasts, Timeout(t) PROVE ToastInvariant' /\ GoesAnimated
        <2>1. /\ Finish(t, closed \cup {t}, locks, {}) /\ Remade /\ new' = new
              /\ timers' \subseteq timers /\ Contains(toasts, t)
            BY <1>1 DEF Timeout
        <2>2. t \notin new
            BY <2>1, Members DEF ToastInvariant, ToasterTypeOK
        <2>3. timers' \subseteq Toasts
            BY <2>1 DEF ToastInvariant, ToasterTypeOK
        <2> QED BY <2>1, <2>2, <2>3, ClosesUnasked
    <1>2. ASSUME NEW w \in Wrappers, Click(w) PROVE ToastInvariant' /\ GoesAnimated
        <2>1. /\ Finish(w[2], closed \cup {w[2]}, locks, {}) /\ Remade /\ new' = new
              /\ timers' = timers /\ w \in wrappers
            BY <1>2 DEF Click
        <2>2. w[2] \in Toasts /\ w[2] \notin new /\ timers \subseteq Toasts
            BY <2>1, WrapperOf DEF ToastInvariant, ToasterTypeOK
        <2> QED BY <2>1, <2>2, ClosesUnasked
    <1>3. ASSUME NEW w \in Wrappers, Animated(w) PROVE ToastInvariant' /\ GoesAnimated
        <2>1. /\ w \in wrappers /\ Unlock(w, {}) /\ new' = new /\ timers' = timers
              /\ animated' = (animated \cup {w}) \ (wrappers' \ wrappers)
            BY <1>3 DEF Animated
        <2>2. w \notin leaving
            BY <2>1 DEF ToastInvariant, ToasterTypeOK
        <2>3. \A x \in wrappers : x \notin animated' => x # w /\ x \notin animated
            BY <2>1
        <2> QED BY <2>1, <2>2, <2>3, Unlocks
    <1>4. ASSUME NEW w \in Wrappers, Destroyed(w) PROVE ToastInvariant' /\ GoesAnimated
        <2>1. w \in leaving /\ Unlock(w, {w}) /\ new' = new /\ timers' = timers /\ Remade
            BY <1>4 DEF Destroyed
        <2>2. \A x \in wrappers : x \notin animated' => x # w /\ x \notin animated
            BY <2>1, StaysAnimated DEF ToastInvariant, ToasterTypeOK
        <2> QED BY <2>1, <2>2, Unlocks
    <1>5. CASE UNCHANGED toasterVars
        <2>1. UNCHANGED <<toasts, new, closed, timers, locks, fullscreen, wrappers,
                          leaving, animated>>
            BY <1>5 DEF toasterVars
        <2>2. ToasterTypeOK' /\ NoneLeftOver'
            BY <2>1 DEF ToastInvariant, ToasterTypeOK, NoneLeftOver
        <2> QED BY <1>5, <2>1, <2>2 DEF ToastInvariant
    <1> QED BY <1>1, <1>2, <1>3, <1>4, <1>5, Toasted, ModeChanged DEF ToasterNext, Changes

\* Whatever wrappers come, go and are made again on whichever screens: a toast is
\* locked by just the wrappers that have not finished with it, and goes with the
\* last of its locks.
THEOREM ToastsGoWithTheirLocks == ToasterSpec => []ToastsAreRight
    <1>1. ToastInvariant => ToastsAreRight
        BY DEF ToastInvariant, ToastsAreRight
    <1> QED BY <1>1, ToastsStart, ToastsStep, PTL DEF ToasterSpec

\* No toast leaves the list while a screen still animates it.
THEOREM ToastsAreAnimated == ToasterSpec => GoesWhenAnimated
    BY ToastsStart, ToastsStep, PTL DEF ToasterSpec, GoesWhenAnimated

---------------------------------------------------------------------------
(* ImageCacher: what threads know of the file and of the cache             *)

Requesting == [at : {"none", "hash", "look", "schedule", "original", "done"},
               key : FileContents \cup {Nothing}, got : FileContents \cup {Nothing, Part},
               seen : SUBSET (FileContents \cup {Nothing})]
Making == [at : {"none", "exists", "decode", "save", "commit", "end"},
           key : FileContents \cup {Nothing}, read : FileContents \cup {Nothing}]

\* A request has seen what it returns; while it runs, what it hashed and what
\* the file has.
RequestIsTrue(r) ==
    /\ r.got # Nothing /\ ~mixed => r.got \in r.seen
    /\ r.at \notin {"none", "done"} =>
          file \in r.seen /\ (r.key # Nothing => r.key \in r.seen)
    /\ r.at = "look" => r.key # Nothing

\* A job makes what is not in the cache yet, from an image that is that of its
\* key unless the file was replaced.
JobIsTrue(j) ==
    /\ j.at = "none" <=> j.key = Nothing
    /\ j.at \in {"decode", "save", "commit"} => cached[j.key] = Nothing
    /\ j.at \in {"save", "commit"} => Image(j.read) /\ (~mixed => j.read = j.key)

CacheIsOfKeys == ~mixed => \A c \in FileContents : cached[c] \in {Nothing, c}

ImagesInvariant ==
    /\ ImagesAreRight /\ CacheIsOfKeys
    /\ \A r \in Requests : RequestIsTrue(request[r])
    /\ \A j \in Jobs : JobIsTrue(job[j])

\* A request goes on by itself.
LEMMA RequestMoves ==
    ASSUME ImagesInvariant, NEW r \in Requests, NEW next \in Requesting,
           RequestIsTrue(next), Request(r, next),
           UNCHANGED <<file, cached, inflight, job, mixed>>
    PROVE  ImagesInvariant' /\ MadeOnce
    <1>1. /\ request \in [Requests -> Requesting]
          /\ request' = [request EXCEPT ![r] = next]
        BY DEF ImagesInvariant, ImagesAreRight, CacherTypeOK, Requesting, Request
    <1>2. /\ request' \in [Requests -> Requesting]
          /\ \A q \in Requests : request'[q] = IF q = r THEN next ELSE request[q]
        BY <1>1
    <1>3. \A q \in Requests : RequestIsTrue(request[q])'
        BY <1>2 DEF ImagesInvariant, RequestIsTrue
    <1>4. ServedWasThere'
        BY <1>3 DEF ServedWasThere, RequestIsTrue
    <1>5. CacherTypeOK' /\ OneJobPerImage' /\ CacheIsWhole' /\ CacheIsOfKeys' /\ MadeOnce
        BY <1>2 DEF ImagesInvariant, ImagesAreRight, CacherTypeOK, Requesting,
                    OneJobPerImage, CacheIsWhole, CacheIsOfKeys, MadeOnce
    <1>6. \A j \in Jobs : JobIsTrue(job[j])'
        BY DEF ImagesInvariant, JobIsTrue
    <1> QED BY <1>3, <1>4, <1>5, <1>6 DEF ImagesInvariant, ImagesAreRight

LEMMA RequestGoesOn ==
    ASSUME ImagesInvariant, NEW r \in Requests,
           StartRequest(r) \/ Hash(r) \/ Look(r) \/ Original(r)
    PROVE  ImagesInvariant' /\ MadeOnce
    <1>1. /\ request[r] \in Requesting /\ RequestIsTrue(request[r])
          /\ file \in FileContents \cup {Nothing}
          /\ cached \in [FileContents -> FileContents \cup {Nothing, Part}]
        BY DEF ImagesInvariant, ImagesAreRight, CacherTypeOK, Requesting
    <1>2. CASE StartRequest(r)
        <2> DEFINE next == [NoRequest EXCEPT !.at = IF file = Nothing THEN "done" ELSE "hash",
                                             !.seen = {file}]
        <2>1. next \in Requesting /\ RequestIsTrue(next)
            BY <1>1 DEF NoRequest, Requesting, RequestIsTrue
        <2>2. Request(r, next) /\ UNCHANGED <<file, cached, inflight, job, mixed>>
            BY <1>2 DEF StartRequest
        <2> HIDE DEF next
        <2> QED BY <2>1, <2>2, RequestMoves
    <1>3. CASE Hash(r)
        <2> DEFINE next == [request[r] EXCEPT
                                !.at = IF file = Nothing THEN "schedule" ELSE "look",
                                !.key = file]
        <2>1. next \in Requesting /\ RequestIsTrue(next)
            BY <1>1, <1>3 DEF Hash, Requesting, RequestIsTrue
        <2>2. Request(r, next) /\ UNCHANGED <<file, cached, inflight, job, mixed>>
            BY <1>3 DEF Hash
        <2> HIDE DEF next
        <2> QED BY <2>1, <2>2, RequestMoves
    <1>4. CASE Look(r)
        <2> DEFINE image == cached[request[r].key]
                   next == IF Image(image) THEN Done(r, image)
                           ELSE [request[r] EXCEPT !.at = "schedule"]
        <2>1. /\ request[r].at = "look" /\ request[r].key \in FileContents
              /\ image \in FileContents \cup {Nothing, Part}
            BY <1>1, <1>4 DEF Look, Requesting, RequestIsTrue
        <2>2. image # Nothing /\ ~mixed => image = request[r].key
            BY <2>1 DEF ImagesInvariant, CacheIsOfKeys
        <2>3. next \in Requesting /\ RequestIsTrue(next)
            <3> HIDE DEF image
            <3> QED BY <1>1, <2>1, <2>2 DEF Done, Requesting, RequestIsTrue
        <2>4. Request(r, next) /\ UNCHANGED <<file, cached, inflight, job, mixed>>
            BY <1>4 DEF Look
        <2> HIDE DEF next
        <2> QED BY <2>3, <2>4, RequestMoves
    <1>5. CASE Original(r)
        <2> DEFINE next == Done(r, IF Image(file) THEN file ELSE Nothing)
        <2>1. next \in Requesting /\ RequestIsTrue(next)
            BY <1>1, <1>5 DEF Original, Done, Requesting, RequestIsTrue
        <2>2. Request(r, next) /\ UNCHANGED <<file, cached, inflight, job, mixed>>
            BY <1>5 DEF Original
        <2> HIDE DEF next
        <2> QED BY <2>1, <2>2, RequestMoves
    <1> QED BY <1>2, <1>3, <1>4, <1>5

\* A job goes on by itself, for the same key.
LEMMA JobMoves ==
    ASSUME ImagesInvariant, NEW j \in Jobs, NEW next \in Making,
           job[j].at # "none", next.at # "none", next.key = job[j].key,
           mixed' \in BOOLEAN, mixed => mixed',
           UNCHANGED <<file, cached, inflight, request>>,
           next.at = "decode" => cached[next.key] = Nothing,
           next.at \in {"save", "commit"} =>
               /\ cached[next.key] = Nothing
               /\ Image(next.read) /\ (~mixed' => next.read = next.key),
           Job(j, next)
    PROVE  ImagesInvariant' /\ MadeOnce
    <1>1. job \in [Jobs -> Making] /\ job' = [job EXCEPT ![j] = next]
        BY DEF ImagesInvariant, ImagesAreRight, CacherTypeOK, Making, Job
    <1>2. /\ job' \in [Jobs -> Making] /\ job'[j] = next
          /\ \A i \in Jobs \ {j} : job'[i] = job[i]
          /\ \A i \in Jobs : job'[i].key = job[i].key
          /\ \A i \in Jobs : job'[i].at = "none" <=> job[i].at = "none"
        BY <1>1
    <1>3. OneJobPerImage'
        BY <1>2 DEF ImagesInvariant, ImagesAreRight, OneJobPerImage
    <1>4. \A i \in Jobs : JobIsTrue(job[i])'
        <2> SUFFICES ASSUME NEW i \in Jobs PROVE JobIsTrue(job[i])'
            OBVIOUS
        <2>1. JobIsTrue(job[i])
            BY DEF ImagesInvariant
        <2>2. CASE i = j
            BY <1>2, <2>1, <2>2 DEF JobIsTrue
        <2>3. CASE i # j
            BY <1>2, <2>1, <2>3 DEF JobIsTrue
        <2> QED BY <2>2, <2>3
    <1>5. CacherTypeOK' /\ CacheIsWhole' /\ CacheIsOfKeys' /\ ServedWasThere' /\ MadeOnce
        BY <1>2 DEF ImagesInvariant, ImagesAreRight, CacherTypeOK, Making, CacheIsWhole,
                    CacheIsOfKeys, ServedWasThere, MadeOnce
    <1>6. \A r \in Requests : RequestIsTrue(request[r])'
        BY DEF ImagesInvariant, RequestIsTrue
    <1> QED BY <1>3, <1>4, <1>5, <1>6 DEF ImagesInvariant, ImagesAreRight

LEMMA JobGoesOn ==
    ASSUME ImagesInvariant, NEW j \in Jobs, Exists(j) \/ Decode(j) \/ SaveImage(j)
    PROVE  ImagesInvariant' /\ MadeOnce
    <1>1. /\ job[j] \in Making /\ JobIsTrue(job[j]) /\ mixed \in BOOLEAN
          /\ file \in FileContents \cup {Nothing}
        BY DEF ImagesInvariant, ImagesAreRight, CacherTypeOK, Making
    <1>2. CASE Exists(j)
        <2> DEFINE next == [job[j] EXCEPT !.at = IF cached[job[j].key] # Nothing THEN "end"
                                                 ELSE "decode"]
        <2>1. /\ next \in Making /\ next.at # "none" /\ next.key = job[j].key
              /\ next.at = "decode" => cached[next.key] = Nothing
              /\ next.at \notin {"save", "commit"}
            BY <1>1 DEF Making
        <2>2. /\ Job(j, next) /\ job[j].at # "none"
              /\ UNCHANGED <<file, cached, inflight, request, mixed>>
            BY <1>2 DEF Exists
        <2> HIDE DEF next
        <2> QED BY <1>1, <2>1, <2>2, JobMoves
    <1>3. CASE Decode(j)
        <2> DEFINE next == [job[j] EXCEPT !.at = IF Image(file) THEN "save" ELSE "end",
                                          !.read = file]
        <2>1. job[j].at = "decode" /\ cached[job[j].key] = Nothing
            BY <1>1, <1>3 DEF Decode, JobIsTrue
        <2>2. /\ next \in Making /\ next.at # "none" /\ next.key = job[j].key
              /\ next.at \notin {"decode", "commit"} /\ next.read = file
              /\ next.at = "save" => Image(file)
            BY <1>1 DEF Making
        <2>3. /\ Job(j, next) /\ UNCHANGED <<file, cached, inflight, request>>
              /\ mixed' = (mixed \/ (Image(file) /\ file # job[j].key))
            BY <1>3 DEF Decode
        <2> HIDE DEF next
        <2>4. mixed' \in BOOLEAN /\ (mixed => mixed')
            BY <1>1, <2>3
        <2>5. next.at = "save" /\ ~mixed' => next.read = next.key
            BY <2>2, <2>3
        <2> QED BY <2>1, <2>2, <2>3, <2>4, <2>5, JobMoves
    <1>4. CASE SaveImage(j)
        <2>1. PICK at \in {"commit", "end"} : Job(j, [job[j] EXCEPT !.at = at])
            BY <1>4 DEF SaveImage
        <2> DEFINE next == [job[j] EXCEPT !.at = at]
        <2>2. /\ next \in Making /\ next.at \in {"commit", "end"} /\ next.key = job[j].key
              /\ next.read = job[j].read
            BY <1>1, <2>1 DEF Making
        <2>3. /\ Job(j, next) /\ job[j].at = "save"
              /\ UNCHANGED <<file, cached, inflight, request, mixed>>
            BY <1>4, <2>1 DEF SaveImage
        <2> HIDE DEF next
        <2>4. /\ cached[next.key] = Nothing
              /\ Image(next.read) /\ (~mixed => next.read = next.key)
            BY <1>1, <2>2, <2>3 DEF JobIsTrue
        <2> QED BY <1>1, <2>2, <2>3, <2>4, JobMoves
    <1> QED BY <1>2, <1>3, <1>4

LEMMA Schedules ==
    ASSUME ImagesInvariant, NEW r \in Requests, NEW j \in Jobs, Schedule(r, j)
    PROVE  ImagesInvariant' /\ MadeOnce
    <1> DEFINE next == [request[r] EXCEPT !.at = "original"]
               key == request[r].key
    <1>1. /\ request \in [Requests -> Requesting] /\ request[r] \in Requesting
          /\ job \in [Jobs -> Making] /\ inflight \subseteq FileContents
          /\ request[r].at = "schedule" /\ Request(r, next)
          /\ UNCHANGED <<file, cached, mixed>>
        BY DEF ImagesInvariant, ImagesAreRight, CacherTypeOK, Requesting, Making, Schedule
    <1>2. next \in Requesting /\ RequestIsTrue(next)
        BY <1>1 DEF ImagesInvariant, Requesting, RequestIsTrue
    <1>3. CASE Skipped(key)
        <2>1. UNCHANGED <<inflight, job>>
            BY <1>3 DEF Schedule
        <2> HIDE DEF next, key
        <2> QED BY <1>1, <1>2, <2>1, RequestMoves
    <1>4. CASE ~Skipped(key)
        <2> DEFINE begun == [NoJob EXCEPT !.at = "exists", !.key = key]
        <2>1. /\ key \in FileContents /\ key \notin inflight /\ job[j].at = "none"
              /\ inflight' = inflight \cup {key} /\ job' = [job EXCEPT ![j] = begun]
            BY <1>1, <1>4 DEF Schedule, Skipped, Job, Requesting
        <2>2. begun \in Making /\ begun.at = "exists" /\ begun.key = key
            BY <2>1 DEF NoJob, Making
        <2> HIDE DEF begun, key
        <2>3. /\ job' \in [Jobs -> Making] /\ job'[j] = begun
              /\ \A i \in Jobs \ {j} : job'[i] = job[i]
            BY <1>1, <2>1, <2>2
        <2>4. /\ request' \in [Requests -> Requesting]
              /\ \A q \in Requests : request'[q] = IF q = r THEN next ELSE request[q]
            BY <1>1, <1>2 DEF Request
        <2> HIDE DEF next
        <2>5. \A i \in Jobs : job[i].at # "none" => job[i].key \in inflight
            BY DEF ImagesInvariant, ImagesAreRight, OneJobPerImage
        <2>6. \A i \in Jobs \ {j} : job[i].key # key
            BY <2>1, <2>5, CacherAssumption DEF ImagesInvariant, JobIsTrue
        <2>7. OneJobPerImage'
            <3>1. \A i, k \in Jobs : job'[i].at # "none" /\ job'[i].key = job'[k].key => i = k
                BY <2>2, <2>3, <2>6 DEF ImagesInvariant, ImagesAreRight, OneJobPerImage
            <3>2. inflight' = {job'[i].key : i \in {i \in Jobs : job'[i].at # "none"}}
                BY <2>1, <2>2, <2>3 DEF ImagesInvariant, ImagesAreRight, OneJobPerImage
            <3> QED BY <3>1, <3>2 DEF OneJobPerImage
        <2>8. \A i \in Jobs : JobIsTrue(job[i])'
            <3> SUFFICES ASSUME NEW i \in Jobs PROVE JobIsTrue(job[i])'
                OBVIOUS
            <3>1. CASE i = j
                BY <1>1, <2>1, <2>2, <2>3, <3>1, CacherAssumption DEF JobIsTrue
            <3>2. CASE i # j
                BY <1>1, <2>3, <3>2 DEF ImagesInvariant, JobIsTrue
            <3> QED BY <3>1, <3>2
        <2>9. \A q \in Requests : RequestIsTrue(request[q])'
            BY <1>1, <1>2, <2>4 DEF ImagesInvariant, RequestIsTrue
        <2>10. ServedWasThere'
            BY <2>9 DEF ServedWasThere, RequestIsTrue
        <2>11. CacherTypeOK' /\ CacheIsWhole' /\ CacheIsOfKeys' /\ MadeOnce
            BY <1>1, <2>1, <2>3, <2>4 DEF ImagesInvariant, ImagesAreRight, CacherTypeOK,
                Requesting, Making, CacheIsWhole, CacheIsOfKeys, MadeOnce
        <2> QED BY <2>7, <2>8, <2>9, <2>10, <2>11 DEF ImagesInvariant, ImagesAreRight
    <1> QED BY <1>3, <1>4

LEMMA Commits ==
    ASSUME ImagesInvariant, NEW j \in Jobs, Commit(j)
    PROVE  ImagesInvariant' /\ MadeOnce
    <1> DEFINE key == job[j].key
               next == [job[j] EXCEPT !.at = "end"]
    <1>1. /\ job \in [Jobs -> Making] /\ job[j] \in Making /\ JobIsTrue(job[j])
          /\ cached \in [FileContents -> FileContents \cup {Nothing, Part}]
          /\ job[j].at = "commit" /\ job' = [job EXCEPT ![j] = next]
          /\ cached' = [cached EXCEPT ![key] = job[j].read]
          /\ UNCHANGED <<file, inflight, request, mixed>>
        BY DEF ImagesInvariant, ImagesAreRight, CacherTypeOK, Making, Commit, Job
    <1>2. /\ key \in FileContents /\ cached[key] = Nothing /\ Image(job[j].read)
          /\ job[j].read \in FileContents /\ (~mixed => job[j].read = key)
        BY <1>1 DEF JobIsTrue, Making, Image
    <1>3. next \in Making /\ next.at = "end" /\ next.key = key
        BY <1>1 DEF Making
    <1>4. /\ job' \in [Jobs -> Making] /\ job'[j] = next
          /\ \A i \in Jobs \ {j} : job'[i] = job[i]
        BY <1>1, <1>3
    <1>5. /\ cached' \in [FileContents -> FileContents \cup {Nothing, Part}]
          /\ cached'[key] = job[j].read
          /\ \A c \in FileContents \ {key} : cached'[c] = cached[c]
        BY <1>1, <1>2
    <1>6. \A i \in Jobs \ {j} : job[i].key # key
        BY <1>1 DEF ImagesInvariant, ImagesAreRight, OneJobPerImage
    <1>7. OneJobPerImage'
        <2>1. /\ \A i \in Jobs : job'[i].key = job[i].key
              /\ \A i \in Jobs : job'[i].at = "none" <=> job[i].at = "none"
            BY <1>1, <1>3, <1>4
        <2> HIDE DEF next, key
        <2> QED BY <1>1, <2>1 DEF ImagesInvariant, ImagesAreRight, OneJobPerImage
    <1> HIDE DEF next, key
    <1>8. \A i \in Jobs : JobIsTrue(job[i])'
        <2> SUFFICES ASSUME NEW i \in Jobs PROVE JobIsTrue(job[i])'
            OBVIOUS
        <2>1. CASE i = j
            BY <1>2, <1>3, <1>4, <2>1, CacherAssumption DEF JobIsTrue
        <2>2. CASE i # j
            <3>1. JobIsTrue(job[i]) /\ job'[i] = job[i] /\ job[i] \in Making
                BY <1>1, <1>4, <2>2 DEF ImagesInvariant
            <3>2. job[i].at # "none" => cached'[job[i].key] = cached[job[i].key]
                BY <1>5, <1>6, <2>2, <3>1 DEF JobIsTrue, Making
            <3> QED BY <1>1, <3>1, <3>2 DEF JobIsTrue
        <2> QED BY <2>1, <2>2
    <1>9. CacheIsWhole' /\ CacheIsOfKeys' /\ MadeOnce
        BY <1>1, <1>2, <1>5 DEF ImagesInvariant, ImagesAreRight, CacheIsWhole, CacheIsOfKeys,
                                MadeOnce, Image
    <1>10. CacherTypeOK' /\ ServedWasThere'
        BY <1>1, <1>4, <1>5 DEF ImagesInvariant, ImagesAreRight, CacherTypeOK, Making,
                                ServedWasThere
    <1>11. \A r \in Requests : RequestIsTrue(request[r])'
        BY <1>1 DEF ImagesInvariant, RequestIsTrue
    <1> QED BY <1>7, <1>8, <1>9, <1>10, <1>11 DEF ImagesInvariant, ImagesAreRight

LEMMA JobEnds ==
    ASSUME ImagesInvariant, NEW j \in Jobs, EndJob(j)
    PROVE  ImagesInvariant' /\ MadeOnce
    <1>1. /\ job \in [Jobs -> Making] /\ NoJob \in Making
          /\ job[j].at = "end" /\ job' = [job EXCEPT ![j] = NoJob]
          /\ inflight' = inflight \ {job[j].key}
          /\ UNCHANGED <<file, cached, request, mixed>>
        BY DEF ImagesInvariant, ImagesAreRight, CacherTypeOK, Making, EndJob, Job, NoJob
    <1>2. /\ job' \in [Jobs -> Making] /\ job'[j] = NoJob
          /\ \A i \in Jobs \ {j} : job'[i] = job[i]
        BY <1>1
    <1>3. /\ NoJob.at = "none" /\ NoJob.key = Nothing
        BY DEF NoJob
    <1>4. \A i \in Jobs \ {j} : job[i].key # job[j].key
        BY <1>1 DEF ImagesInvariant, ImagesAreRight, OneJobPerImage
    <1>5. OneJobPerImage'
        <2>1. \A i, k \in Jobs : job'[i].at # "none" /\ job'[i].key = job'[k].key => i = k
            BY <1>1, <1>2, <1>3 DEF ImagesInvariant, ImagesAreRight, OneJobPerImage, JobIsTrue
        <2>2. inflight' = {job'[i].key : i \in {i \in Jobs : job'[i].at # "none"}}
            BY <1>1, <1>2, <1>3, <1>4 DEF ImagesInvariant, ImagesAreRight, OneJobPerImage
        <2> QED BY <2>1, <2>2 DEF OneJobPerImage
    <1>6. \A i \in Jobs : JobIsTrue(job[i])'
        BY <1>1, <1>2, <1>3 DEF ImagesInvariant, JobIsTrue
    <1>7. CacherTypeOK' /\ CacheIsWhole' /\ CacheIsOfKeys' /\ ServedWasThere' /\ MadeOnce
        BY <1>1, <1>2 DEF ImagesInvariant, ImagesAreRight, CacherTypeOK, Making,
                          CacheIsWhole, CacheIsOfKeys, ServedWasThere, MadeOnce
    <1>8. \A r \in Requests : RequestIsTrue(request[r])'
        BY <1>1 DEF ImagesInvariant, RequestIsTrue
    <1> QED BY <1>5, <1>6, <1>7, <1>8 DEF ImagesInvariant, ImagesAreRight

LEMMA FileIsReplaced ==
    ASSUME ImagesInvariant, NEW content \in FileContents \cup {Nothing}, Replace(content)
    PROVE  ImagesInvariant' /\ MadeOnce
    <1> DEFINE After(r) == IF request[r].at \in {"none", "done"} THEN request[r]
                           ELSE [request[r] EXCEPT !.seen = @ \cup {content}]
    <1>1. /\ request \in [Requests -> Requesting] /\ file' = content
          /\ request' = [r \in Requests |-> After(r)]
          /\ UNCHANGED <<cached, inflight, job, mixed>>
        BY DEF ImagesInvariant, ImagesAreRight, CacherTypeOK, Requesting, Replace
    <1>2. ASSUME NEW r \in Requests
          PROVE  After(r) \in Requesting /\ RequestIsTrue(request[r])'
        <2>1. request[r] \in Requesting /\ RequestIsTrue(request[r]) /\ request'[r] = After(r)
            BY <1>1 DEF ImagesInvariant
        <2>2. CASE request[r].at \in {"none", "done"}
            BY <1>1, <2>1, <2>2 DEF RequestIsTrue
        <2>3. CASE request[r].at \notin {"none", "done"}
            BY <1>1, <2>1, <2>3 DEF RequestIsTrue, Requesting
        <2> QED BY <2>2, <2>3
    <1> HIDE DEF After
    <1>3. request' \in [Requests -> Requesting]
        BY <1>1, <1>2
    <1>4. ServedWasThere'
        BY <1>2 DEF ServedWasThere, RequestIsTrue
    <1>5. CacherTypeOK' /\ OneJobPerImage' /\ CacheIsWhole' /\ CacheIsOfKeys' /\ MadeOnce
        BY <1>1, <1>3 DEF ImagesInvariant, ImagesAreRight, CacherTypeOK, Requesting,
                          OneJobPerImage, CacheIsWhole, CacheIsOfKeys, MadeOnce
    <1>6. \A j \in Jobs : JobIsTrue(job[j])'
        BY <1>1 DEF ImagesInvariant, JobIsTrue
    <1> QED BY <1>2, <1>4, <1>5, <1>6 DEF ImagesInvariant, ImagesAreRight

LEMMA ProgramRestarts ==
    ASSUME ImagesInvariant, Restart
    PROVE  ImagesInvariant' /\ MadeOnce
    <1>1. /\ request' = [r \in Requests |-> NoRequest] /\ NoRequest \in Requesting
          /\ job' = [j \in Jobs |-> NoJob] /\ NoJob \in Making
          /\ inflight' = {} /\ UNCHANGED <<file, cached, mixed>>
        BY DEF Restart, NoRequest, Requesting, NoJob, Making
    <1>2. /\ NoRequest.at = "none" /\ NoRequest.got = Nothing
          /\ NoJob.at = "none" /\ NoJob.key = Nothing
        BY DEF NoRequest, NoJob
    <1>3. /\ \A r \in Requests : RequestIsTrue(request[r])'
          /\ \A j \in Jobs : JobIsTrue(job[j])'
        BY <1>1, <1>2 DEF RequestIsTrue, JobIsTrue
    <1>4. OneJobPerImage' /\ ServedWasThere'
        BY <1>1, <1>2 DEF OneJobPerImage, ServedWasThere
    <1>5. CacherTypeOK' /\ CacheIsWhole' /\ CacheIsOfKeys' /\ MadeOnce
        BY <1>1 DEF ImagesInvariant, ImagesAreRight, CacherTypeOK, Requesting, Making,
                    CacheIsWhole, CacheIsOfKeys, MadeOnce
    <1> QED BY <1>3, <1>4, <1>5 DEF ImagesInvariant, ImagesAreRight

LEMMA ImagesStart == CacherInit => ImagesInvariant
    <1> SUFFICES ASSUME CacherInit PROVE ImagesInvariant
        OBVIOUS
    <1>1. /\ NoRequest \in Requesting /\ NoRequest.at = "none" /\ NoRequest.got = Nothing
          /\ NoJob \in Making /\ NoJob.at = "none" /\ NoJob.key = Nothing
        BY DEF NoRequest, Requesting, NoJob, Making
    <1>2. CacherTypeOK /\ OneJobPerImage /\ CacheIsWhole /\ ServedWasThere
        BY <1>1 DEF CacherInit, CacherTypeOK, Requesting, Making, OneJobPerImage,
                    CacheIsWhole, ServedWasThere
    <1> QED BY <1>1, <1>2 DEF CacherInit, ImagesInvariant, ImagesAreRight, CacheIsOfKeys,
                              RequestIsTrue, JobIsTrue

LEMMA ImagesStep ==
    ImagesInvariant /\ [CacherNext]_cacherVars => ImagesInvariant' /\ [MadeOnce]_cacherVars
    <1> SUFFICES ASSUME ImagesInvariant, [CacherNext]_cacherVars
                 PROVE  ImagesInvariant' /\ [MadeOnce]_cacherVars
        OBVIOUS
    <1>1. CASE CacherNext
        BY <1>1, RequestGoesOn, Schedules, JobGoesOn, Commits, JobEnds, FileIsReplaced,
           ProgramRestarts DEF CacherNext, RunRequest, RunJob
    <1>2. CASE UNCHANGED cacherVars
        BY <1>2 DEF cacherVars, ImagesInvariant, ImagesAreRight, CacherTypeOK, OneJobPerImage,
                    CacheIsWhole, ServedWasThere, CacheIsOfKeys, RequestIsTrue, JobIsTrue
    <1> QED BY <1>1, <1>2

\* However many ask for an image, whenever the file is replaced and whenever the
\* program ends: one job makes it, the cache has whole images, and a request
\* returns what the file had while it ran.
THEOREM ImagesStayRight == CacherSpec => []ImagesAreRight
    <1>1. ImagesInvariant => ImagesAreRight
        BY DEF ImagesInvariant
    <1> QED BY <1>1, ImagesStart, ImagesStep, PTL DEF CacherSpec

\* No image is made twice, however often the program is started.
THEOREM ImagesStayCached == CacherSpec => ImagesAreMadeOnce
    BY ImagesStart, ImagesStep, PTL DEF CacherSpec, ImagesAreMadeOnce

---------------------------------------------------------------------------
(* Gpu: which programs may still answer                                    *)

\* Those that ask on behalf of the newest resolution, and those that sample
Latest == {p \in procs : p.asks \in Sources /\ p.generation = generation}
Samplers == {p \in procs : p.asks = Sample}

GpuTyped ==
    /\ userType \in UserTypes /\ gpuType \in Types /\ gpuUsage \in BOOLEAN
    /\ gpuName \in Sources \cup {Detecting, NoName}
    /\ querying \in BOOLEAN /\ generation \in 1..MaxGenerations
    /\ procs \subseteq Asked

\* While the name is not known, one program that may find it for the type there
\* is asked on behalf of the newest resolution; none was asked for a later one.
OneAsks ==
    /\ \A p \in procs : p.generation <= generation
    /\ \A p, q \in Latest : p = q
    /\ gpuName = Detecting <=> Latest # {}
    /\ \A p \in Latest : /\ userType = "Nvidia" => p.asks = Nvidia
                         /\ userType = "Generic" => p.asks # Nvidia

OneSamples ==
    /\ \A p, q \in Samplers : p = q
    /\ querying <=> Samplers # {}

GpuInvariant == GpuTyped /\ OneAsks /\ OneSamples /\ NameIsOfThisType /\ ChoiceStays

LEMMA AtMostOne ==
    ASSUME NEW S, \A p, q \in S : p = q
    PROVE  Cardinality(S) = IF S = {} THEN 0 ELSE 1
    <1>1. CASE S = {}
        BY <1>1, FS_EmptySet
    <1>2. CASE S # {}
        <2>1. PICK p \in S : TRUE
            BY <1>2
        <2>2. S = {p}
            BY <2>1
        <2> QED BY <2>2, FS_Singleton
    <1> QED BY <1>1, <1>2

LEMMA InvariantSuffices == GpuInvariant => GpuIsRight
    <1> SUFFICES ASSUME GpuInvariant PROVE GpuTypeOK
        BY DEF GpuInvariant, GpuIsRight
    <1>1. /\ Cardinality(Latest) = (IF gpuName = Detecting THEN 1 ELSE 0)
          /\ Cardinality(Samplers) = (IF querying THEN 1 ELSE 0)
        BY AtMostOne DEF GpuInvariant, OneAsks, OneSamples
    <1> QED BY <1>1 DEF GpuInvariant, GpuTyped, GpuTypeOK, Latest, Samplers

LEMMA GpuStarts == GpuInit => GpuInvariant
    <1> SUFFICES ASSUME GpuInit PROVE GpuInvariant
        OBVIOUS
    <1> DEFINE first == Proc(IF userType = "Generic" THEN FirstGeneric ELSE Nvidia, 1)
    <1>1. /\ userType \in UserTypes /\ generation = 1 /\ named = 1
          /\ gpuType = IF userType = "Auto" THEN "None" ELSE userType
          /\ gpuName = IF userType = "None" THEN NoName ELSE Detecting
          /\ procs = IF userType = "None" THEN {} ELSE {first}
          /\ gpuUsage = FALSE /\ querying = FALSE
        BY DEF GpuInit
    <1>2. /\ 1 \in 1..MaxGenerations /\ first \in Asked
          /\ first.asks \in Sources /\ first.asks # Sample /\ first.generation = 1
          /\ userType = "Nvidia" => first.asks = Nvidia
          /\ userType = "Generic" => first.asks # Nvidia
        BY GpuAssumption DEF Asked, Proc, Sources, Sample, Nvidia, FirstGeneric
    <1> HIDE DEF first
    <1>3. GpuTyped
        <2>1. gpuType \in Types
            BY <1>1 DEF UserTypes, Types
        <2> QED BY <1>1, <1>2, <2>1 DEF GpuTyped
    <1>4. Latest = procs /\ Samplers = {}
        BY <1>1, <1>2 DEF Latest, Samplers
    <1>5. OneAsks /\ OneSamples
        BY <1>1, <1>2, <1>4 DEF OneAsks, OneSamples, Detecting, NoName
    <1>6. NameIsOfThisType
        BY <1>1 DEF NameIsOfThisType, Nvidia, Detecting, NoName
    <1>7. ChoiceStays
        BY <1>1 DEF ChoiceStays
    <1> QED BY <1>3, <1>5, <1>6, <1>7 DEF GpuInvariant

LEMMA UserChooses ==
    ASSUME GpuInvariant, NEW user \in UserTypes, SetUserType(user)
    PROVE  GpuInvariant'
    <1> DEFINE g == generation + 1
               first == Proc(IF user = "Generic" THEN FirstGeneric ELSE Nvidia, g)
    <1>1. /\ userType' = user /\ generation' = g /\ querying' = querying
          /\ named' = g /\ generation < MaxGenerations
          /\ gpuName' = IF user = "None" THEN NoName ELSE Detecting
          /\ procs' = IF user = "None" THEN procs ELSE procs \cup {first}
          /\ IF user = "Auto" THEN gpuType' = gpuType /\ gpuUsage' = gpuUsage
             ELSE gpuType' = user /\ gpuUsage' \in {FALSE, gpuUsage}
        BY DEF SetUserType, ResolveGpu, SetName, SetType
    <1>2. /\ g \in 1..MaxGenerations /\ first \in Asked
          /\ first.asks \in Sources /\ first.asks # Sample /\ first.generation = g
          /\ user = "Nvidia" => first.asks = Nvidia
          /\ user = "Generic" => first.asks # Nvidia
        BY <1>1, GpuAssumption
        DEF GpuInvariant, GpuTyped, Asked, Proc, Sources, Sample, Nvidia, FirstGeneric
    <1>3. GpuTyped'
        BY <1>1, <1>2 DEF GpuInvariant, GpuTyped, UserTypes, Types, Detecting, NoName
    <1>4. \A p \in procs : p.generation \in Nat /\ p.generation <= generation
                           /\ p.generation # g
        BY GpuAssumption DEF GpuInvariant, GpuTyped, OneAsks, Asked
    <1> HIDE DEF first, g
    <1>5. Latest' = IF user = "None" THEN {} ELSE {first}
        BY <1>1, <1>2, <1>4 DEF Latest
    <1>6. Samplers' = Samplers
        BY <1>1, <1>2 DEF Samplers
    <1>7. \A p \in procs' : p.generation <= g
        BY <1>1, <1>2, <1>4 DEF GpuInvariant, GpuTyped, g
    <1>8. OneAsks' /\ OneSamples'
        BY <1>1, <1>2, <1>5, <1>6, <1>7
        DEF GpuInvariant, OneAsks, OneSamples, Detecting, NoName
    <1>9. NameIsOfThisType'
        BY <1>1 DEF NameIsOfThisType, Nvidia, Detecting, NoName
    <1>10. ChoiceStays'
        BY <1>1 DEF ChoiceStays
    <1> QED BY <1>3, <1>8, <1>9, <1>10 DEF GpuInvariant

\* What a program that asked does when it ends: it leaves a name, is followed by
\* the next, or is not listened to.
LEMMA ProgramEnds ==
    ASSUME GpuInvariant, NEW p \in procs, NEW answer \in BOOLEAN, FinishNameSource(p, answer)
    PROVE  GpuInvariant'
    <1>1. /\ p.asks \in Sources /\ p \notin Samplers /\ p \in Asked
          /\ UNCHANGED <<userType, generation, querying>>
        BY DEF FinishNameSource, GpuInvariant, GpuTyped, Samplers, Sources, Sample
    <1>2. CASE Superseded(p.generation)
        <2>1. procs' = procs \ {p} /\ UNCHANGED <<gpuType, gpuUsage, gpuName, named>>
            BY <1>2 DEF FinishNameSource
        <2>2. Latest' = Latest /\ Samplers' = Samplers
            BY <1>1, <1>2, <2>1 DEF Latest, Samplers, Superseded
        <2>3. OneAsks' /\ OneSamples'
            BY <1>1, <2>1, <2>2 DEF GpuInvariant, OneAsks, OneSamples
        <2> QED BY <1>1, <2>1, <2>3
            DEF GpuInvariant, GpuTyped, NameIsOfThisType, ChoiceStays
    <1>3. CASE ~Superseded(p.generation)
        <2> DEFINE found == IF Probes(p) THEN Found(answer) ELSE gpuType
                   next == Proc(p.asks + 1, p.generation)
        <2>1. p \in Latest /\ p.generation = generation
            BY <1>1, <1>3 DEF Latest, Superseded
        <2>2. /\ Latest = {p} /\ gpuName = Detecting
              /\ userType = "Nvidia" => p.asks = Nvidia
              /\ userType = "Generic" => p.asks # Nvidia
            BY <2>1 DEF GpuInvariant, OneAsks
        <2>3. found \in Types /\ (found = gpuType \/ userType = "Auto")
            BY DEF GpuInvariant, GpuTyped, Probes, Found, Types
        <2>4. /\ gpuType' = found /\ gpuUsage' \in {FALSE, gpuUsage}
              /\ \/ gpuName' \in {p.asks, NoName} /\ named' = p.generation
                    /\ procs' = procs \ {p}
                 \/ p.asks + 1 < ProbeEnd /\ UNCHANGED <<gpuName, named>>
                    /\ procs' = (procs \ {p}) \cup {next}
            BY <1>3 DEF FinishNameSource, SetType, SetName
        <2>5. userType # "None"
            BY <2>2 DEF GpuInvariant, NameIsOfThisType, Detecting, NoName
        <2> HIDE DEF found
        <2>6. CASE gpuName' \in {p.asks, NoName} /\ named' = p.generation
                   /\ procs' = procs \ {p}
            <3>1. Latest' = {} /\ Samplers' = Samplers
                BY <1>1, <2>2, <2>6 DEF Latest, Samplers
            <3>2. gpuName' # Detecting /\ gpuName' \in Sources \cup {Detecting, NoName}
                BY <1>1, <2>6 DEF Sources, Detecting, NoName
            <3>3. OneAsks' /\ OneSamples'
                BY <1>1, <2>6, <3>1, <3>2 DEF GpuInvariant, OneAsks, OneSamples
            <3>4. NameIsOfThisType' /\ ChoiceStays'
                BY <1>1, <2>1, <2>2, <2>3, <2>4, <2>5, <2>6
                DEF GpuInvariant, NameIsOfThisType, ChoiceStays, Nvidia, NoName
            <3>5. GpuTyped'
                BY <1>1, <2>3, <2>4, <2>6, <3>2 DEF GpuInvariant, GpuTyped
            <3> QED BY <3>3, <3>4, <3>5 DEF GpuInvariant
        <2>7. CASE p.asks + 1 < ProbeEnd /\ UNCHANGED <<gpuName, named>>
                   /\ procs' = (procs \ {p}) \cup {next}
            <3>1. /\ userType # "Nvidia" /\ next.asks \in Sources /\ next.asks # Nvidia
                  /\ next.asks # Sample /\ next.generation = generation /\ next \in Asked
                BY <1>1, <2>1, <2>2, <2>7
                DEF ProbeEnd, FirstGeneric, Proc, Sources, Sample, Nvidia, Asked
            <3> HIDE DEF next
            <3>2. Latest' = {next} /\ Samplers' = Samplers
                BY <1>1, <2>2, <2>7, <3>1 DEF Latest, Samplers
            <3>3. OneAsks' /\ OneSamples'
                BY <1>1, <2>2, <2>7, <3>1, <3>2
                DEF GpuInvariant, GpuTyped, OneAsks, OneSamples
            <3>4. NameIsOfThisType' /\ ChoiceStays'
                BY <1>1, <2>3, <2>4, <2>7
                DEF GpuInvariant, NameIsOfThisType, ChoiceStays
            <3>5. GpuTyped'
                BY <1>1, <2>3, <2>4, <2>7, <3>1 DEF GpuInvariant, GpuTyped
            <3> QED BY <3>3, <3>4, <3>5 DEF GpuInvariant
        <2> QED BY <2>4, <2>6, <2>7
    <1> QED BY <1>2, <1>3

LEMMA SampleEnds ==
    ASSUME GpuInvariant, NEW p \in procs, NEW busy \in BOOLEAN, FinishSample(p, busy)
    PROVE  GpuInvariant'
    <1>1. /\ p \in Samplers /\ p.asks \notin Sources
          /\ procs' = procs \ {p} /\ querying' = FALSE /\ gpuUsage' \in BOOLEAN
          /\ UNCHANGED <<userType, gpuType, gpuName, named, generation>>
        BY DEF FinishSample, Samplers, Sources, Sample, GpuInvariant, GpuTyped
    <1>2. Samplers = {p}
        BY <1>1 DEF GpuInvariant, OneSamples
    <1>3. Latest' = Latest /\ Samplers' = {}
        BY <1>1, <1>2 DEF Latest, Samplers
    <1> QED BY <1>1, <1>3 DEF GpuInvariant, GpuTyped, OneAsks, OneSamples,
                              NameIsOfThisType, ChoiceStays

LEMMA Ticked ==
    ASSUME GpuInvariant, NEW busy \in BOOLEAN, Tick(busy)
    PROVE  GpuInvariant'
    <1>1. UNCHANGED <<userType, gpuType, gpuName, named, generation>>
        BY DEF Tick
    <1>2. CASE ReadGenericUsage(busy) \/ ResetUsage
        <2>1. gpuUsage' \in BOOLEAN /\ UNCHANGED <<querying, procs>>
            BY <1>2 DEF ReadGenericUsage, ResetUsage
        <2>2. Latest' = Latest /\ Samplers' = Samplers
            BY <1>1, <2>1 DEF Latest, Samplers
        <2> QED BY <1>1, <2>1, <2>2 DEF GpuInvariant, GpuTyped, OneAsks, OneSamples,
                                        NameIsOfThisType, ChoiceStays
    <1>3. CASE StartNvidiaUsage
        <2> DEFINE sampler == Proc(Sample, generation)
        <2>1. /\ ~querying /\ querying' = TRUE /\ gpuUsage' = gpuUsage
              /\ procs' = procs \cup {sampler}
            BY <1>3 DEF StartNvidiaUsage, MayQuery
        <2>2. /\ sampler \in Asked /\ sampler.asks = Sample /\ sampler.asks \notin Sources
              /\ sampler.generation = generation
            BY DEF GpuInvariant, GpuTyped, Asked, Proc, Sample, Sources
        <2> HIDE DEF sampler
        <2>3. Latest' = Latest /\ Samplers' = {sampler}
            BY <1>1, <2>1, <2>2 DEF Latest, Samplers, GpuInvariant, OneSamples
        <2>4. \A p \in procs' : p.generation <= generation
            BY <2>1, <2>2 DEF GpuInvariant, GpuTyped, OneAsks
        <2> QED BY <1>1, <2>1, <2>2, <2>3, <2>4
            DEF GpuInvariant, GpuTyped, OneAsks, OneSamples, NameIsOfThisType, ChoiceStays
    <1> QED BY <1>2, <1>3 DEF Tick

LEMMA GpuSteps == GpuInvariant /\ [GpuNext]_gpuVars => GpuInvariant'
    <1> SUFFICES ASSUME GpuInvariant, [GpuNext]_gpuVars PROVE GpuInvariant'
        OBVIOUS
    <1>1. CASE StartOrStop \/ UNCHANGED gpuVars
        <2>1. UNCHANGED <<userType, gpuType, gpuName, named, gpuUsage, generation, querying,
                          procs>>
            BY <1>1 DEF StartOrStop, gpuVars
        <2>2. Latest' = Latest /\ Samplers' = Samplers
            BY <2>1 DEF Latest, Samplers
        <2> QED BY <2>1, <2>2 DEF GpuInvariant, GpuTyped, OneAsks, OneSamples,
                                  NameIsOfThisType, ChoiceStays
    <1> QED BY <1>1, UserChooses, ProgramEnds, SampleEnds, Ticked DEF GpuNext

\* Whatever order the programs end in: one asks for the newest resolution, the
\* name is of the type that is asked for, and a type the user chose stays.
THEOREM GpuIsOfTheChoice == GpuSpec => []GpuIsRight
    BY InvariantSuffices, GpuStarts, GpuSteps, PTL DEF GpuSpec

---------------------------------------------------------------------------
(* AudioService: what is under way to the collector                        *)

Message == {"ref", "unref"} \X Providers

\* A provider knows the ServiceRefs that have it, and a processor that is gone has
\* nothing to do.
UsersAreKnown ==
    /\ \A v \in Providers, r \in ServiceRefs : r \in refs[v] <=> service[r] = v
    /\ \A v \in Providers \ living : inbox[v] = <<>>

AudioInvariant == AudioIsUsed /\ UsersAreKnown

\* q is p with more calls for v.
More(p, q, v) ==
    /\ Len(q) > Len(p)
    /\ \A i \in 1..Len(p) : q[i] = p[i]
    /\ \A i \in Len(p) + 1..Len(q) : q[i][2] = v

LEMMA PostedIsTyped ==
    ASSUME ServiceTypeOK
    PROVE  /\ posted \in Seq(Message) /\ Len(posted) \in Nat
           /\ \A v \in Providers : inbox[v] \in Seq({"start", "stop"}) /\ Len(inbox[v]) \in Nat
BY DEF ServiceTypeOK, Message

\* What is posted for another processor changes nothing.
LEMMA OthersAreToldTheSame ==
    ASSUME NEW v \in Providers, NEW x \in Providers \ {v}, Len(posted) \in Nat,
           Len(posted') \in Nat, More(posted, posted', v), inbox'[x] = inbox[x],
           senders' = senders
    PROVE  Told(x)' <=> Told(x)
    <1>1. /\ \A i \in 1..Len(posted) : i \in 1..Len(posted') /\ posted'[i] = posted[i]
          /\ \A i \in 1..Len(posted') : i \notin 1..Len(posted) => posted'[i][2] # x
        BY DEF More
    <1>2. ASSUME NEW i \in 1..Len(posted)
          PROVE  LastPosted(x, i)' <=> LastPosted(x, i)
        <2>1. (\A k \in i + 1..Len(posted') : posted'[k][2] # x)
                 <=> (\A k \in i + 1..Len(posted) : posted[k][2] # x)
            <3>1. \A k \in i + 1..Len(posted) : k \in 1..Len(posted) /\ k \in i + 1..Len(posted')
                BY DEF More
            <3>2. \A k \in i + 1..Len(posted') :
                     k \in 1..Len(posted') /\ (k \in 1..Len(posted) => k \in i + 1..Len(posted))
                OBVIOUS
            <3> QED BY <1>1, <3>1, <3>2
        <2> QED BY <1>1, <2>1 DEF LastPosted
    <1>3. (\A i \in 1..Len(posted') : posted'[i][2] # x)
             <=> (\A i \in 1..Len(posted) : posted[i][2] # x)
        BY <1>1
    <1>4. \A i \in 1..Len(posted') : LastPosted(x, i)' => i \in 1..Len(posted)
        BY <1>1 DEF LastPosted
    <1>5. (\E i \in 1..Len(posted') : LastPosted(x, i)' /\ posted'[i][1] = "ref")
             <=> (\E i \in 1..Len(posted) : LastPosted(x, i) /\ posted[i][1] = "ref")
        BY <1>1, <1>2, <1>4
    <1> QED BY <1>3, <1>5 DEF Told

\* Once its processor has nothing to do, the last call posted for it counts.
LEMMA TheLastCallCounts ==
    ASSUME NEW v \in Providers, Len(posted) \in Nat, Len(posted') \in Nat,
           More(posted, posted', v), inbox'[v] = <<>>
    PROVE  Told(v)' <=> posted'[Len(posted')][1] = "ref"
    <1>1. PICK n \in Nat : n = Len(posted')
        OBVIOUS
    <1>2. n \in 1..n /\ posted'[n][2] = v
        BY <1>1 DEF More
    <1>3. LastPosted(v, n)'
        BY <1>1, <1>2 DEF LastPosted
    <1>4. ASSUME NEW i \in 1..n, LastPosted(v, i)' PROVE i = n
        <2>1. i < n => n \in i + 1..n
            OBVIOUS
        <2> QED BY <1>1, <1>2, <1>4, <2>1 DEF LastPosted
    <1> QED BY <1>1, <1>2, <1>3, <1>4 DEF Told

\* A call posted to a processor will be the last it forwards.
LEMMA CallsArrive ==
    ASSUME NEW v \in Providers, NEW call, inbox[v] \in Seq({"start", "stop"}),
           inbox'[v] = inbox[v] \o <<call>>
    PROVE  Told(v)' <=> call = "start"
    <1>1. /\ Len(inbox'[v]) = Len(inbox[v]) + 1 /\ inbox'[v][Len(inbox[v]) + 1] = call
          /\ inbox'[v] # <<>>
        OBVIOUS
    <1> QED BY <1>1 DEF Told

LEMMA NothingArrives ==
    ASSUME NEW v \in Providers, inbox'[v] = inbox[v], posted' = posted, senders' = senders
    PROVE  Told(v)' <=> Told(v)
BY DEF Told, LastPosted

LEMMA Chosen ==
    ASSUME AudioInvariant, NEW r \in ServiceRefs, NEW v \in Providers \cup {Nobody},
           SetService(r, v)
    PROVE  AudioInvariant'
    <1> DEFINE calls(x) == CASE x = v -> Ref(x) [] x = service[r] -> Unref(x, r)
                             [] OTHER -> <<>>
    <1>1. /\ v # service[r] /\ v \in living \cup {Nobody}
          /\ service' = [service EXCEPT ![r] = v]
          /\ refs' = [x \in Providers |->
                        IF x = v THEN refs[x] \cup {r} ELSE refs[x] \ {r}]
          /\ inbox' = [x \in Providers |-> inbox[x] \o calls(x)]
          /\ home' \in {home, Instance(Main)}
          /\ UNCHANGED <<living, destroyed, posted, senders, capture, crashed>>
        BY DEF SetService
    <1>2. /\ service \in [ServiceRefs -> living \cup {Nobody}] /\ Nobody \notin Providers
          /\ living \subseteq Providers /\ refs \in [Providers -> SUBSET ServiceRefs]
          /\ \A x \in Providers : inbox[x] \in Seq({"start", "stop"})
        BY ServiceAssumption DEF AudioInvariant, AudioIsUsed, ServiceTypeOK
    <1>3. \A x \in Providers :
             \/ calls(x) = <<"start">> /\ x = v
             \/ calls(x) = <<"stop">> /\ x # v /\ refs[x] = {r}
             \/ /\ calls(x) = <<>> /\ (x = v => refs[x] # {})
                /\ x # v => refs[x] # {r} \/ x # service[r]
        <2> SUFFICES ASSUME NEW x \in Providers
                     PROVE  \/ calls(x) = <<"start">> /\ x = v
                            \/ calls(x) = <<"stop">> /\ x # v /\ refs[x] = {r}
                            \/ /\ calls(x) = <<>> /\ (x = v => refs[x] # {})
                               /\ x # v => refs[x] # {r} \/ x # service[r]
            OBVIOUS
        <2>1. CASE x = v
            <3>1. calls(x) = Ref(x)
                BY <1>1, <2>1
            <3> HIDE DEF calls
            <3> QED BY <2>1, <3>1 DEF Ref
        <2>2. CASE x # v /\ x = service[r]
            <3>1. calls(x) = Unref(x, r)
                BY <2>2
            <3> HIDE DEF calls
            <3> QED BY <2>2, <3>1 DEF Unref
        <2>3. CASE x # v /\ x # service[r]
            <3>1. calls(x) = <<>>
                BY <2>3
            <3> HIDE DEF calls
            <3> QED BY <2>3, <3>1
        <2> QED BY <2>1, <2>2, <2>3
    <1>4. ASSUME NEW x \in Providers
          PROVE  /\ inbox'[x] \in Seq({"start", "stop"})
                 /\ calls(x) = <<>> => inbox'[x] = inbox[x]
        <2>1. inbox'[x] = inbox[x] \o calls(x) /\ inbox[x] \in Seq({"start", "stop"})
            BY <1>1, <1>2
        <2>2. /\ <<"start">> \in Seq({"start", "stop"}) /\ <<"stop">> \in Seq({"start", "stop"})
              /\ <<>> \in Seq({"start", "stop"})
            OBVIOUS
        <2> HIDE DEF calls
        <2>3. calls(x) \in Seq({"start", "stop"})
            BY <1>3, <2>2
        <2> QED BY <2>1, <2>3, ConcatProperties, ConcatEmptySeq
    <1>5. ServiceTypeOK'
        <2>1. home' \in Providers \cup {Nobody, Main}
            BY <1>1 DEF AudioInvariant, AudioIsUsed, ServiceTypeOK, Instance
        <2>2. inbox' \in [Providers -> Seq({"start", "stop"})]
            <3> HIDE DEF calls
            <3> QED BY <1>1, <1>4
        <2>3. service' \in [ServiceRefs -> living' \cup {Nobody}]
              /\ refs' \in [Providers -> SUBSET ServiceRefs]
            BY <1>1, <1>2
        <2> QED BY <1>1, <2>1, <2>2, <2>3 DEF AudioInvariant, AudioIsUsed, ServiceTypeOK
    <1>6. UsersAreKnown'
        <2>1. \A x \in Providers, s \in ServiceRefs : s \in refs'[x] <=> service'[s] = x
            BY <1>1, <1>2 DEF AudioInvariant, UsersAreKnown
        <2>2. ASSUME NEW x \in Providers \ living PROVE inbox'[x] = <<>>
            <3>1. x # v /\ x # service[r] /\ inbox[x] = <<>>
                BY <1>1, <1>2 DEF AudioInvariant, UsersAreKnown
            <3>2. calls(x) = <<>>
                BY <3>1
            <3> QED BY <1>4, <3>1, <3>2
        <2> QED BY <1>1, <2>1, <2>2 DEF UsersAreKnown
    <1>7. ASSUME NEW x \in Providers PROVE Told(x)' <=> refs'[x] # {}
        <2>1. Told(x) <=> refs[x] # {}
            BY DEF AudioInvariant, AudioIsUsed, UsersArrive
        <2>2. r \in refs[x] <=> service[r] = x
            BY DEF AudioInvariant, UsersAreKnown
        <2>3. inbox'[x] = inbox[x] \o calls(x)
            BY <1>1
        <2>4. refs'[x] = IF x = v THEN refs[x] \cup {r} ELSE refs[x] \ {r}
            BY <1>1
        <2>5. CASE calls(x) = <<>>
            <3>1. refs'[x] # {} <=> refs[x] # {}
                <4>1. calls(x) # <<"start">> /\ calls(x) # <<"stop">>
                    BY <2>5
                <4> HIDE DEF calls
                <4> QED BY <1>3, <2>2, <2>4, <4>1
            <3>2. Told(x)' <=> Told(x)
                BY <1>1, <1>4, <2>5, NothingArrives
            <3> QED BY <2>1, <3>1, <3>2
        <2>6. CASE calls(x) = <<"start">>
            <3>1. <<"start">> # <<"stop">> /\ <<"start">> # <<>>
                OBVIOUS
            <3> HIDE DEF calls
            <3>2. refs'[x] # {}
                BY <1>3, <2>4, <2>6, <3>1
            <3> QED BY <1>2, <2>3, <2>6, <3>2, CallsArrive
        <2>7. CASE calls(x) = <<"stop">>
            <3>1. <<"start">> # <<"stop">> /\ <<"stop">> # <<>>
                OBVIOUS
            <3> HIDE DEF calls
            <3>2. refs'[x] = {}
                BY <1>3, <2>4, <2>7, <3>1
            <3> QED BY <1>2, <2>3, <2>7, <3>2, CallsArrive
        <2> QED BY <1>3, <2>5, <2>6, <2>7
    <1> HIDE DEF calls
    <1>8. UsersArrive' /\ CaptureIsUsed'
        BY <1>1, <1>7 DEF UsersArrive, CaptureIsUsed, AudioInvariant, AudioIsUsed
    <1> QED BY <1>5, <1>6, <1>8 DEF AudioInvariant, AudioIsUsed

LEMMA Processed ==
    ASSUME AudioInvariant, NEW v \in Providers, Process(v)
    PROVE  AudioInvariant'
    <1> DEFINE box == inbox[v]
               call == Forwarded(v, Head(box))
    <1>1. /\ v \in living /\ box # <<>>
          /\ posted' = Append(posted, call) /\ inbox' = [inbox EXCEPT ![v] = Tail(box)]
          /\ UNCHANGED <<service, living, destroyed, refs, home, senders, capture, crashed>>
        BY DEF Process
    <1>2. /\ box \in Seq({"start", "stop"}) /\ posted \in Seq(Message) /\ Len(posted) \in Nat
          /\ inbox \in [Providers -> Seq({"start", "stop"})]
        BY PostedIsTyped DEF AudioInvariant, AudioIsUsed, ServiceTypeOK
    <1>3. /\ call \in Message /\ call[2] = v
          /\ call[1] = "ref" <=> Head(box) = "start"
        BY <1>1, <1>2 DEF Forwarded, Message
    <1>4. /\ Tail(box) \in Seq({"start", "stop"})
          /\ Tail(box) = <<>> => Len(box) = 1 /\ box[Len(box)] = Head(box)
          /\ Tail(box) # <<>> => Tail(box)[Len(Tail(box))] = box[Len(box)]
        <2>1. box \in Seq({"start", "stop"}) /\ box # <<>> /\ Len(box) \in Nat
            BY <1>1, <1>2
        <2> HIDE DEF box, call
        <2>2. /\ Tail(box) \in Seq({"start", "stop"}) /\ Len(Tail(box)) = Len(box) - 1
              /\ \A i \in 1..Len(Tail(box)) : Tail(box)[i] = box[i + 1]
            BY <2>1, HeadTailProperties
        <2>3. Len(box) # 0 /\ Head(box) = box[1]
            BY <2>1
        <2>4. Tail(box) = <<>> <=> Len(Tail(box)) = 0
            BY <2>2, EmptySeq
        <2> QED BY <2>1, <2>2, <2>3, <2>4
    <1>5. /\ inbox' \in [Providers -> Seq({"start", "stop"})] /\ inbox'[v] = Tail(box)
          /\ \A x \in Providers \ {v} : inbox'[x] = inbox[x]
        BY <1>1, <1>2, <1>4
    <1> HIDE DEF call
    <1>6. /\ posted' \in Seq(Message) /\ Len(posted') = Len(posted) + 1
          /\ posted'[Len(posted')] = call /\ More(posted, posted', v)
        BY <1>1, <1>2, <1>3 DEF More
    <1>7. ASSUME NEW x \in Providers PROVE Told(x)' <=> Told(x)
        <2>1. CASE x # v
            BY <1>1, <1>2, <1>5, <1>6, <2>1, OthersAreToldTheSame
        <2>2. CASE x = v /\ Tail(box) # <<>>
            BY <1>1, <1>4, <1>5, <2>2 DEF Told
        <2>3. CASE x = v /\ Tail(box) = <<>>
            <3>1. Told(v)' <=> call[1] = "ref"
                <4>1. inbox'[v] = <<>> /\ Len(posted') \in Nat
                    BY <1>2, <1>5, <1>6, <2>3
                <4>2. Told(v)' <=> posted'[Len(posted')][1] = "ref"
                    BY <1>2, <1>6, <4>1, TheLastCallCounts
                <4> QED BY <1>6, <4>2
            <3>2. Told(v) <=> Head(box) = "start"
                BY <1>1, <1>4, <2>3 DEF Told
            <3> QED BY <1>3, <2>3, <3>1, <3>2
        <2> QED BY <2>1, <2>2, <2>3
    <1>8. ServiceTypeOK'
        BY <1>1, <1>5, <1>6 DEF AudioInvariant, AudioIsUsed, ServiceTypeOK, Message
    <1>9. UsersArrive' /\ CaptureIsUsed' /\ UsersAreKnown'
        BY <1>1, <1>5, <1>7
        DEF AudioInvariant, AudioIsUsed, UsersArrive, CaptureIsUsed, UsersAreKnown
    <1> QED BY <1>8, <1>9 DEF AudioInvariant, AudioIsUsed

LEMMA ProviderEnds ==
    ASSUME AudioInvariant, NEW v \in Providers, Destroy(v)
    PROVE  AudioInvariant'
    <1>1. /\ v \in living /\ living' = living \ {v} /\ destroyed' = destroyed \cup {v}
          /\ inbox' = [inbox EXCEPT ![v] = <<>>] /\ refs' = [refs EXCEPT ![v] = {}]
          /\ service' = Forgotten(v) /\ home' = Instance(v)
          /\ UNCHANGED <<senders, capture, crashed>>
        BY DEF Destroy
    <1>2. PICK handled \in 0..Len(inbox[v]) : posted' = posted \o Farewell(v, handled)
        BY DEF Destroy
    <1> DEFINE said == [i \in 1..handled |-> Forwarded(v, inbox[v][i])]
    <1>3. /\ posted \in Seq(Message) /\ Len(posted) \in Nat
          /\ inbox[v] \in Seq({"start", "stop"}) /\ handled \in Nat
          /\ inbox \in [Providers -> Seq({"start", "stop"})]
          /\ refs \in [Providers -> SUBSET ServiceRefs]
          /\ service \in [ServiceRefs -> living \cup {Nobody}]
          /\ Nobody \notin Providers /\ living \subseteq Providers
        BY <1>2, PostedIsTyped, ServiceAssumption DEF AudioInvariant, AudioIsUsed, ServiceTypeOK
    <1>4. said \in Seq(Message) /\ Len(said) = handled /\ \A i \in 1..handled : said[i][2] = v
        <2>1. \A i \in 1..handled : said[i] \in Message /\ said[i][2] = v
            BY <1>3 DEF Forwarded, Message
        <2> QED BY <1>3, <2>1
    <1>5. Farewell(v, handled) = Append(said, <<"unref", v>>)
        BY DEF Farewell
    <1>6. <<"unref", v>> \in Message
        BY DEF Message
    <1> HIDE DEF said
    <1>7. PICK last \in Seq(Message) :
             /\ posted' = posted \o last /\ Len(last) = handled + 1
             /\ \A i \in 1..handled + 1 : last[i][2] = v
             /\ last[handled + 1][1] = "unref"
        <2>1. /\ Farewell(v, handled) \in Seq(Message) /\ Len(Farewell(v, handled)) = handled + 1
              /\ \A i \in 1..handled : Farewell(v, handled)[i] = said[i]
              /\ Farewell(v, handled)[handled + 1] = <<"unref", v>>
            BY <1>4, <1>5, <1>6, AppendProperties
        <2>2. /\ \A i \in 1..handled : Farewell(v, handled)[i][2] = v
              /\ Farewell(v, handled)[handled + 1][2] = v
              /\ Farewell(v, handled)[handled + 1][1] = "unref"
            BY <2>1, <1>4
        <2>3. \A i \in 1..handled + 1 : i \in 1..handled \/ i = handled + 1
            BY <1>3
        <2>4. \A i \in 1..handled + 1 : Farewell(v, handled)[i][2] = v
            BY <2>2, <2>3
        <2>5. posted' = posted \o Farewell(v, handled)
            BY <1>2
        <2> HIDE DEF Farewell
        <2> QED BY <2>1, <2>2, <2>4, <2>5
    <1>8. /\ posted' \in Seq(Message) /\ Len(posted') = Len(posted) + handled + 1
          /\ \A i \in 1..Len(posted) : posted'[i] = posted[i]
          /\ \A i \in Len(posted) + 1..Len(posted') : posted'[i] = last[i - Len(posted)]
        <2>1. /\ Len(posted \o last) = Len(posted) + Len(last) /\ posted \o last \in Seq(Message)
              /\ \A i \in 1..Len(posted) + Len(last) : (posted \o last)[i] =
                     IF i <= Len(posted) THEN posted[i] ELSE last[i - Len(posted)]
            BY <1>3, ConcatProperties
        <2> QED BY <1>3, <1>7, <2>1
    <1>9. More(posted, posted', v) /\ posted'[Len(posted')][1] = "unref"
        BY <1>3, <1>7, <1>8 DEF More
    <1>10. /\ inbox' \in [Providers -> Seq({"start", "stop"})] /\ inbox'[v] = <<>>
           /\ \A x \in Providers \ {v} : inbox'[x] = inbox[x]
           /\ refs' \in [Providers -> SUBSET ServiceRefs] /\ refs'[v] = {}
           /\ \A x \in Providers \ {v} : refs'[x] = refs[x]
        BY <1>1, <1>3
    <1>11. ASSUME NEW x \in Providers PROVE Told(x)' <=> refs'[x] # {}
        <2>1. CASE x = v
            BY <1>3, <1>8, <1>9, <1>10, <2>1, TheLastCallCounts
        <2>2. CASE x # v
            <3>1. Told(x)' <=> Told(x)
                BY <1>1, <1>3, <1>8, <1>9, <1>10, <2>2, OthersAreToldTheSame
            <3> QED BY <1>10, <2>2, <3>1 DEF AudioInvariant, AudioIsUsed, UsersArrive
        <2> QED BY <2>1, <2>2
    <1>12. /\ \A r \in ServiceRefs : service'[r] = IF service[r] = v THEN Nobody ELSE service[r]
           /\ service' \in [ServiceRefs -> living' \cup {Nobody}]
        BY <1>1, <1>3 DEF Forgotten
    <1>13. ServiceTypeOK'
        BY <1>1, <1>8, <1>10, <1>12
        DEF AudioInvariant, AudioIsUsed, ServiceTypeOK, Message, Instance
    <1>14. UsersAreKnown'
        BY <1>1, <1>3, <1>10, <1>12 DEF AudioInvariant, UsersAreKnown
    <1>15. UsersArrive' /\ CaptureIsUsed'
        BY <1>1, <1>11 DEF UsersArrive, CaptureIsUsed, AudioInvariant, AudioIsUsed
    <1> QED BY <1>13, <1>14, <1>15 DEF AudioInvariant, AudioIsUsed

LEMMA Collected ==
    ASSUME AudioInvariant, Collect
    PROVE  AudioInvariant'
    <1> DEFINE kind == posted[1][1]
               v == posted[1][2]
    <1>1. /\ posted # <<>> /\ posted' = Tail(posted)
          /\ UNCHANGED <<service, living, destroyed, refs, inbox, home>>
          /\ IF kind = "ref" THEN CollectRef(v) ELSE CollectUnref(v)
        BY DEF Collect
    <1>2. posted \in Seq(Message) /\ Len(posted) \in Nat
        BY PostedIsTyped DEF AudioInvariant, AudioIsUsed
    <1>3. /\ Len(posted) \in Nat \ {0} /\ posted' \in Seq(Message)
          /\ Len(posted') = Len(posted) - 1
          /\ \A i \in 1..Len(posted') : posted'[i] = posted[i + 1]
        BY <1>1, <1>2
    <1>4. posted[1] \in Message
        BY <1>2, <1>3
    <1>5. v \in Providers
        BY <1>4 DEF Message
    <1>6. /\ senders' = IF kind = "ref" THEN senders \cup {v} ELSE senders \ {v}
          /\ capture' \in {"none", "running", capture} /\ crashed' \in BOOLEAN
          /\ CaptureIsUsed'
        BY <1>1 DEF CollectRef, CollectUnref, AudioInvariant, AudioIsUsed, ServiceTypeOK,
            CaptureIsUsed
    <1> HIDE DEF kind, v
    <1>7. ASSUME NEW x \in Providers PROVE Told(x)' <=> Told(x)
        <2>1. CASE inbox[x] # <<>>
            BY <1>1, <2>1 DEF Told
        <2>2. CASE inbox[x] = <<>>
            <3>1. \A i \in 1..Len(posted') : LastPosted(x, i)' <=> LastPosted(x, i + 1)
                <4> SUFFICES ASSUME NEW i \in 1..Len(posted')
                             PROVE  LastPosted(x, i)' <=> LastPosted(x, i + 1)
                    OBVIOUS
                <4>1. (\A k \in i + 1..Len(posted') : posted'[k][2] # x)
                         <=> (\A k \in i + 2..Len(posted) : posted[k][2] # x)
                    <5>1. ASSUME \A k \in i + 1..Len(posted') : posted'[k][2] # x,
                                 NEW k \in i + 2..Len(posted)
                          PROVE  posted[k][2] # x
                        <6>1. k - 1 \in i + 1..Len(posted') /\ k - 1 \in 1..Len(posted')
                              /\ (k - 1) + 1 = k
                            BY <1>2, <1>3
                        <6>2. posted'[k - 1] = posted[k]
                            BY <1>3, <6>1
                        <6> QED BY <5>1, <6>1, <6>2
                    <5>2. ASSUME \A k \in i + 2..Len(posted) : posted[k][2] # x,
                                 NEW k \in i + 1..Len(posted')
                          PROVE  posted'[k][2] # x
                        <6>1. k + 1 \in i + 2..Len(posted) /\ k \in 1..Len(posted')
                            BY <1>2, <1>3
                        <6> QED BY <1>3, <5>2, <6>1
                    <5> QED BY <5>1, <5>2
                <4>2. /\ posted'[i] = posted[i + 1] /\ i + 1 \in 1..Len(posted)
                      /\ (i + 1) + 1 = i + 2
                    BY <1>2, <1>3
                <4> QED BY <4>1, <4>2 DEF LastPosted
            <3>2. (\E i \in 1..Len(posted') : LastPosted(x, i)' /\ posted'[i][1] = "ref")
                     <=> (\E i \in 2..Len(posted) : LastPosted(x, i) /\ posted[i][1] = "ref")
                <4>1. ASSUME NEW i \in 1..Len(posted'), LastPosted(x, i)', posted'[i][1] = "ref"
                      PROVE  \E k \in 2..Len(posted) : LastPosted(x, k) /\ posted[k][1] = "ref"
                    <5>1. i + 1 \in 2..Len(posted)
                        BY <1>2, <1>3
                    <5> QED BY <1>3, <3>1, <4>1, <5>1
                <4>2. ASSUME NEW i \in 2..Len(posted), LastPosted(x, i), posted[i][1] = "ref"
                      PROVE  \E k \in 1..Len(posted') : LastPosted(x, k)' /\ posted'[k][1] = "ref"
                    <5>1. PICK k \in 1..Len(posted') : k + 1 = i
                        BY <1>2, <1>3
                    <5> QED BY <1>3, <3>1, <4>2, <5>1
                <4> QED BY <4>1, <4>2
            <3>3. (\A i \in 1..Len(posted') : posted'[i][2] # x)
                     <=> (\A i \in 2..Len(posted) : posted[i][2] # x)
                <4>1. ASSUME \A i \in 1..Len(posted') : posted'[i][2] # x,
                             NEW i \in 2..Len(posted)
                      PROVE  posted[i][2] # x
                    <5>1. PICK k \in 1..Len(posted') : k + 1 = i
                        BY <1>2, <1>3
                    <5> QED BY <1>3, <4>1, <5>1
                <4>2. ASSUME \A i \in 2..Len(posted) : posted[i][2] # x,
                             NEW i \in 1..Len(posted')
                      PROVE  posted'[i][2] # x
                    <5>1. i + 1 \in 2..Len(posted)
                        BY <1>2, <1>3
                    <5> QED BY <1>3, <4>2, <5>1
                <4> QED BY <4>1, <4>2
            <3>4. \A i \in 1..Len(posted) : i = 1 \/ i \in 2..Len(posted)
                BY <1>2
            <3>5. 1 \in 1..Len(posted) /\ \A i \in 2..Len(posted) : i \in 1..Len(posted)
                BY <1>3
            <3>6. LastPosted(x, 1) <=> v = x /\ \A i \in 2..Len(posted) : posted[i][2] # x
                BY <3>5 DEF LastPosted, v
            <3>7. \A i \in 2..Len(posted) : LastPosted(x, i) => posted[i][2] = x
                BY DEF LastPosted
            <3>8. CASE \A i \in 2..Len(posted) : posted[i][2] # x
                <4>1. Told(x)' <=> x \in senders'
                    BY <1>1, <2>2, <3>2, <3>3, <3>7, <3>8 DEF Told
                <4>2. Told(x) <=> IF v = x THEN kind = "ref" ELSE x \in senders
                    BY <2>2, <3>4, <3>5, <3>6, <3>7, <3>8 DEF Told, v, kind
                <4> QED BY <1>6, <4>1, <4>2
            <3>9. CASE ~\A i \in 2..Len(posted) : posted[i][2] # x
                <4>1. Told(x)' <=> \E i \in 2..Len(posted) :
                                       LastPosted(x, i) /\ posted[i][1] = "ref"
                    BY <1>1, <2>2, <3>2, <3>3, <3>9 DEF Told
                <4>2. Told(x) <=> \E i \in 2..Len(posted) :
                                       LastPosted(x, i) /\ posted[i][1] = "ref"
                    BY <2>2, <3>4, <3>5, <3>6, <3>9 DEF Told
                <4> QED BY <4>1, <4>2
            <3> QED BY <3>8, <3>9
        <2> QED BY <2>1, <2>2
    <1>8. ServiceTypeOK'
        BY <1>1, <1>3, <1>5, <1>6 DEF AudioInvariant, AudioIsUsed, ServiceTypeOK, Message
    <1>9. UsersArrive' /\ UsersAreKnown'
        BY <1>1, <1>7 DEF AudioInvariant, AudioIsUsed, UsersArrive, UsersAreKnown
    <1> QED BY <1>6, <1>8, <1>9 DEF AudioInvariant, AudioIsUsed

LEMMA AudioStarts == ServiceInit => AudioInvariant
    <1> SUFFICES ASSUME ServiceInit PROVE AudioInvariant
        OBVIOUS
    <1>1. /\ <<>> \in Seq({"start", "stop"}) /\ posted \in Seq({"ref", "unref"} \X Providers)
          /\ Len(posted) = 0
        BY DEF ServiceInit
    <1> USE <1>1
    <1>4. ServiceTypeOK
        BY DEF ServiceInit, ServiceTypeOK
    <1>2. UsersArrive
        <2> SUFFICES ASSUME NEW v \in Providers PROVE ~Told(v) /\ refs[v] = {}
            BY DEF UsersArrive
        <2>1. inbox[v] = <<>> /\ refs[v] = {} /\ senders = {}
            BY DEF ServiceInit
        <2> QED BY <2>1 DEF Told
    <1>3. CaptureIsUsed /\ UsersAreKnown
        BY ServiceAssumption DEF ServiceInit, CaptureIsUsed, UsersAreKnown
    <1> QED BY <1>4, <1>2, <1>3 DEF AudioInvariant, AudioIsUsed

LEMMA AudioSteps == AudioInvariant /\ [ServiceNext]_audioVars => AudioInvariant'
    <1> SUFFICES ASSUME AudioInvariant, [ServiceNext]_audioVars PROVE AudioInvariant'
        OBVIOUS
    <1>1. ASSUME UNCHANGED <<service, refs, inbox, posted, senders>>, ServiceTypeOK',
                 living \subseteq living', CaptureIsUsed'
          PROVE  AudioInvariant'
        <2>1. UsersArrive'
            BY <1>1, NothingArrives DEF AudioInvariant, AudioIsUsed, UsersArrive
        <2>2. UsersAreKnown'
            BY <1>1 DEF AudioInvariant, UsersAreKnown
        <2> QED BY <1>1, <2>1, <2>2 DEF AudioInvariant, AudioIsUsed
    <1>2. ASSUME NEW v \in Providers, Create(v) PROVE AudioInvariant'
        <2>1. ServiceTypeOK' /\ living \subseteq living' /\ CaptureIsUsed'
            BY <1>2 DEF Create, AudioInvariant, AudioIsUsed, ServiceTypeOK, CaptureIsUsed
        <2> QED BY <1>1, <1>2, <2>1 DEF Create
    <1>3. CASE CaptureEnds
        <2>1. ServiceTypeOK' /\ living \subseteq living' /\ CaptureIsUsed'
            BY <1>3 DEF CaptureEnds, AudioInvariant, AudioIsUsed, ServiceTypeOK, CaptureIsUsed
        <2> QED BY <1>1, <1>3, <2>1 DEF CaptureEnds
    <1>4. CASE UNCHANGED audioVars
        <2>1. ServiceTypeOK' /\ living \subseteq living' /\ CaptureIsUsed'
            BY <1>4 DEF audioVars, AudioInvariant, AudioIsUsed, ServiceTypeOK, CaptureIsUsed
        <2> QED BY <1>1, <1>4, <2>1 DEF audioVars
    <1> QED BY <1>2, <1>3, <1>4, Chosen, Processed, ProviderEnds, Collected DEF ServiceNext

\* Whatever was posted and however processors end meanwhile: once it has arrived,
\* the collector captures for just the providers somebody uses.
THEOREM CaptureIsForUsers == ServiceSpec => []AudioIsUsed
    <1>1. AudioInvariant => AudioIsUsed
        BY DEF AudioInvariant
    <1> QED BY <1>1, AudioStarts, AudioSteps, PTL DEF ServiceSpec

---------------------------------------------------------------------------
(* ImageAnalyser: at rest, the colour is that of what there is             *)

\* An analyser of files never grabs; unless the image of its source comes to
\* nothing, what is waiting will read the source, and what runs, has finished
\* or is shown is of it.
FilesAreFollowed ==
    ~OfItem =>
        /\ grabs = 0 /\ ~hooked
        /\ source \in ImageFiles \ NoImages =>
             /\ future.at = "none" => colour = source
             /\ future.at = "waiting" => ~future.cancelled
             /\ future.at = "running" => future.of = source /\ ~future.cancelled
             /\ future.at = "finished" => future.of = source

\* An analyser of an item has no file and, when it waits for nothing, works on
\* what the item shows or has its colour.
ItemIsFollowed ==
    OfItem =>
        /\ source = Blank
        /\ grabs = 0 /\ ~hooked =>
             /\ future.at = "none" => colour = icon
             /\ future.at \in {"waiting", "running"} => future.of = icon /\ ~future.cancelled
             /\ future.at = "finished" => future.of = icon

ColourInvariant == ColourTypeOK /\ FilesAreFollowed /\ ItemIsFollowed

Analysed == ImageFiles \cup Icons \cup {Blank}
Watched == [at : {"none", "waiting", "running", "finished"}, of : Analysed,
            cancelled : BOOLEAN]

LEMMA AnalysesAreTyped ==
    /\ NoFuture \in Watched
    /\ \A what \in Analysed :
          [at |-> "waiting", of |-> what, cancelled |-> FALSE] \in Watched
    /\ future \in Watched => WithFutureCancelled \in Watched
    BY DEF NoFuture, Watched, Analysed, WithFutureCancelled

LEMMA ColourSteps ==
    ColourInvariant /\ [ColourNext]_colourVars => ColourInvariant'
    <1> SUFFICES ASSUME ColourInvariant, [ColourNext]_colourVars PROVE ColourInvariant'
      OBVIOUS
    <1> USE DEF ColourInvariant
    <1>1. ASSUME NEW f \in ImageFiles \cup {Blank}, SetSource(f) PROVE ColourInvariant'
      <2>1. ColourTypeOK'
        <3>1. future \in Watched /\ source \in Analysed /\ Blank \in Analysed
          BY DEF ColourTypeOK, Watched, Analysed
        <3>2. future' \in Watched
          BY <1>1, <3>1, AnalysesAreTyped DEF SetSource, SetFuture
        <3>3. grabs' \in 0 .. MaxGrabs
          BY <1>1, AnalyserAssumption DEF SetSource, SetFuture, ColourTypeOK
        <3> QED BY <1>1, <3>2, <3>3 DEF SetSource, SetFuture, ColourTypeOK, Watched,
                   Analysed
      <2>2. FilesAreFollowed'
        BY <1>1, AnalyserAssumption DEF SetSource, SetFuture, ColourTypeOK, OfItem,
           FilesAreFollowed
      <2>3. ItemIsFollowed'
        BY <1>1, AnalyserAssumption DEF SetSource, SetFuture, ColourTypeOK, OfItem,
           ItemIsFollowed
      <2> QED BY <2>1, <2>2, <2>3
    <1>2. ASSUME NEW i \in Icons, SetIcon(i) PROVE ColourInvariant'
      <2>1. ColourTypeOK'
        <3>1. future \in Watched /\ source \in Analysed /\ Blank \in Analysed
          BY DEF ColourTypeOK, Watched, Analysed
        <3>2. future' \in Watched
          BY <1>2, <3>1, AnalysesAreTyped DEF SetIcon, AskItem
        <3>3. grabs' \in 0 .. MaxGrabs
          BY <1>2, AnalyserAssumption DEF SetIcon, AskItem, ColourTypeOK
        <3> QED BY <1>2, <3>2, <3>3 DEF SetIcon, AskItem, ColourTypeOK, Watched, Analysed
      <2>2. FilesAreFollowed'
        BY <1>2, AnalyserAssumption DEF SetIcon, AskItem, WithFutureCancelled,
           ColourTypeOK, OfItem, FilesAreFollowed
      <2>3. ItemIsFollowed'
        BY <1>2, AnalyserAssumption DEF SetIcon, AskItem, WithFutureCancelled,
           ColourTypeOK, OfItem, ItemIsFollowed
      <2> QED BY <2>1, <2>2, <2>3
    <1>3. CASE SetRescaleSize
      <2>1. ColourTypeOK'
        <3>1. future \in Watched /\ source \in Analysed /\ Blank \in Analysed
          BY DEF ColourTypeOK, Watched, Analysed
        <3>2. future' \in Watched
          BY <1>3, <3>1, AnalysesAreTyped DEF SetRescaleSize, AskItem, SetFuture
        <3>3. grabs' \in 0 .. MaxGrabs
          BY <1>3, AnalyserAssumption DEF SetRescaleSize, AskItem, SetFuture, ColourTypeOK
        <3> QED BY <1>3, <3>2, <3>3 DEF SetRescaleSize, AskItem, SetFuture,
                   ColourTypeOK, Watched, Analysed
      <2>2. FilesAreFollowed'
        BY <1>3, AnalyserAssumption DEF SetRescaleSize, AskItem, WithFutureCancelled,
           SetFuture, ColourTypeOK, OfItem, FilesAreFollowed
      <2>3. ItemIsFollowed'
        BY <1>3, AnalyserAssumption DEF SetRescaleSize, AskItem, WithFutureCancelled,
           SetFuture, ColourTypeOK, OfItem, ItemIsFollowed
      <2> QED BY <2>1, <2>2, <2>3
    <1>4. CASE ShowItem
      <2>1. ColourTypeOK'
        <3>1. future \in Watched /\ source \in Analysed /\ Blank \in Analysed
          BY DEF ColourTypeOK, Watched, Analysed
        <3>2. future' \in Watched
          BY <1>4, <3>1, AnalysesAreTyped DEF ShowItem
        <3>3. grabs' \in 0 .. MaxGrabs
          BY <1>4, AnalyserAssumption DEF ShowItem, ColourTypeOK
        <3> QED BY <1>4, <3>2, <3>3 DEF ShowItem, ColourTypeOK, Watched, Analysed
      <2>2. FilesAreFollowed'
        BY <1>4, AnalyserAssumption DEF ShowItem, WithFutureCancelled, ColourTypeOK,
           OfItem, FilesAreFollowed
      <2>3. ItemIsFollowed'
        BY <1>4, AnalyserAssumption DEF ShowItem, WithFutureCancelled, ColourTypeOK,
           OfItem, ItemIsFollowed
      <2> QED BY <2>1, <2>2, <2>3
    <1>5. CASE HideItem
      <2>1. ColourTypeOK'
        BY <1>5, AnalyserAssumption DEF HideItem, ColourTypeOK, OfItem
      <2>2. FilesAreFollowed'
        BY <1>5, AnalyserAssumption DEF HideItem, ColourTypeOK, OfItem, FilesAreFollowed
      <2>3. ItemIsFollowed'
        BY <1>5, AnalyserAssumption DEF HideItem, ColourTypeOK, OfItem, ItemIsFollowed
      <2> QED BY <2>1, <2>2, <2>3
    <1>6. CASE GrabReady
      <2>1. ColourTypeOK'
        BY <1>6, AnalyserAssumption DEF GrabReady, SetFuture, ColourTypeOK, OfItem
      <2>2. FilesAreFollowed'
        BY <1>6, AnalyserAssumption DEF GrabReady, SetFuture, ColourTypeOK, OfItem,
           FilesAreFollowed
      <2>3. ItemIsFollowed'
        BY <1>6, AnalyserAssumption DEF GrabReady, SetFuture, ColourTypeOK, OfItem,
           ItemIsFollowed
      <2> QED BY <2>1, <2>2, <2>3
    <1>7. CASE BeginAnalysis
      <2>1. ColourTypeOK'
        BY <1>7, AnalyserAssumption DEF BeginAnalysis, ColourTypeOK, OfItem
      <2>2. FilesAreFollowed'
        BY <1>7, AnalyserAssumption DEF BeginAnalysis, ColourTypeOK, OfItem,
           FilesAreFollowed
      <2>3. ItemIsFollowed'
        BY <1>7, AnalyserAssumption DEF BeginAnalysis, ColourTypeOK, OfItem, ItemIsFollowed
      <2> QED BY <2>1, <2>2, <2>3
    <1>8. CASE Analyse
      <2>1. ColourTypeOK'
        BY <1>8, AnalyserAssumption DEF Analyse, ColourTypeOK, OfItem
      <2>2. FilesAreFollowed'
        BY <1>8, AnalyserAssumption DEF Analyse, ColourTypeOK, OfItem, FilesAreFollowed
      <2>3. ItemIsFollowed'
        BY <1>8, AnalyserAssumption DEF Analyse, ColourTypeOK, OfItem, ItemIsFollowed
      <2> QED BY <2>1, <2>2, <2>3
    <1>9. CASE AnalysisFinished
      <2>1. ColourTypeOK'
        BY <1>9, AnalyserAssumption DEF AnalysisFinished, NoFuture, ColourTypeOK, OfItem
      <2>2. FilesAreFollowed'
        BY <1>9, AnalyserAssumption DEF AnalysisFinished, NoFuture, ColourTypeOK,
           OfItem, FilesAreFollowed
      <2>3. ItemIsFollowed'
        BY <1>9, AnalyserAssumption DEF AnalysisFinished, NoFuture, ColourTypeOK,
           OfItem, ItemIsFollowed
      <2> QED BY <2>1, <2>2, <2>3
    <1>10. CASE UNCHANGED colourVars
      BY <1>10 DEF colourVars, ColourTypeOK, OfItem, FilesAreFollowed, ItemIsFollowed
    <1> QED BY <1>1, <1>2, <1>3, <1>4, <1>5, <1>6, <1>7, <1>8, <1>9, <1>10 DEF ColourNext

\* In whatever order grabs and analyses end, an analyser at rest has the colour
\* of the file or the item it has now, for any files and items (requestUpdate,
\* update, finished).
THEOREM ColoursStayRight == ColourSpec => []ColoursAreRight
    <1>1. ColourInit => ColourInvariant
      <2> SUFFICES ASSUME ColourInit PROVE ColourInvariant
        OBVIOUS
      <2>1. ColourTypeOK
        <3>1. future \in Watched
          BY AnalysesAreTyped DEF ColourInit
        <3>2. hooked \in BOOLEAN
          <4>1. OfItem \in BOOLEAN
            BY DEF OfItem
          <4> QED BY <4>1 DEF ColourInit
        <3>3. grabs \in 0 .. MaxGrabs
          BY AnalyserAssumption DEF ColourInit
        <3> QED BY <3>1, <3>2, <3>3 DEF ColourInit, ColourTypeOK, Watched, Analysed
      <2>2. FilesAreFollowed
        BY AnalyserAssumption DEF ColourInit, FilesAreFollowed, OfItem
      <2>3. ItemIsFollowed
        BY DEF ColourInit, ItemIsFollowed
      <2> QED BY <2>1, <2>2, <2>3 DEF ColourInvariant
    <1>2. ColourInvariant => ColoursAreRight
      <2> SUFFICES ASSUME ColourInvariant PROVE QuietIsRight
        BY DEF ColourInvariant, ColoursAreRight
      <2>1. CASE OfItem
        BY <2>1, AnalyserAssumption DEF ColourInvariant, ItemIsFollowed, QuietIsRight
      <2>2. CASE ~OfItem
        BY <2>2 DEF ColourInvariant, FilesAreFollowed, QuietIsRight
      <2> QED BY <2>1, <2>2
    <1> QED BY <1>1, <1>2, ColourSteps, PTL DEF ColourSpec
=============================================================================
