---------------------------- MODULE ImageCacher ----------------------------
(***************************************************************************)
(* Scaled images on disk (CachingImageResponse, ImageCacher).  A request   *)
(* runs in a thread of the pool: it hashes the file, takes the cached      *)
(* image of that hash or starts a job that makes it, and returns the       *)
(* original.  The file may be replaced and the program may end at any      *)
(* time.  One file, one size: the key of a cached image is the content     *)
(* whose hash it has.                                                      *)
(***************************************************************************)
EXTENDS FiniteSets

CONSTANTS
    FileContents, \* what the file may have
    Broken,       \* those that are no image
    Requests, Jobs,
    Nothing,      \* no file, no key, no image
    SavesFail     \* whether saving may fail

ASSUME CacherAssumption ==
    Broken \subseteq FileContents /\ Nothing \notin FileContents /\ SavesFail \in BOOLEAN

VARIABLES
    file,         \* what the file has, Nothing: there is none
    cached,       \* content -> what its cached image is of: nothing, or part, or a content
    inflight,     \* m_inflight
    request,      \* request -> where it is, its key, what it returned
    job,          \* job -> where it is, its key and what it read
    mixed         \* a job read another content than its key
cacherVars == <<file, cached, inflight, request, job, mixed>>

NoRequest == [at |-> "none", key |-> Nothing, got |-> Nothing, seen |-> {}]
NoJob == [at |-> "none", key |-> Nothing, read |-> Nothing]
Part == "part"

Image(content) == content \in FileContents \ Broken

\* process returns with an image.
Done(r, image) == [request[r] EXCEPT !.at = "done", !.key = Nothing, !.got = image]

Request(r, next) == request' = [request EXCEPT ![r] = next]
Job(j, next) == job' = [job EXCEPT ![j] = next]

\* ------------------------------------------------------------ requests

\* requestImageResponse, and whether there is a file
StartRequest(r) ==
    /\ request[r].at \in {"none", "done"}
    /\ Request(r, [NoRequest EXCEPT !.at = IF file = Nothing THEN "done" ELSE "hash",
                                    !.seen = {file}])
    /\ UNCHANGED <<file, cached, inflight, job, mixed>>

\* cachePathFor
Hash(r) ==
    /\ request[r].at = "hash"
    /\ Request(r, [request[r] EXCEPT !.at = IF file = Nothing THEN "schedule" ELSE "look",
                                     !.key = file])
    /\ UNCHANGED <<file, cached, inflight, job, mixed>>

\* The cached image is returned if there is one that can be read.
Look(r) ==
    /\ request[r].at = "look"
    /\ Request(r, IF Image(cached[request[r].key])
                  THEN Done(r, cached[request[r].key])
                  ELSE [request[r] EXCEPT !.at = "schedule"])
    /\ UNCHANGED <<file, cached, inflight, job, mixed>>

\* Nothing to make, or already being made
Skipped(key) == key = Nothing \/ key \in inflight

\* A job is started whatever is under way.
MutSchedule(r, j) ==
    /\ request[r].at = "schedule" /\ job[j].at = "none"
    /\ request[r].key # Nothing
    /\ inflight' = inflight \cup {request[r].key}
    /\ Job(j, [NoJob EXCEPT !.at = "exists", !.key = request[r].key])
    /\ Request(r, [request[r] EXCEPT !.at = "original"])
    /\ UNCHANGED <<file, cached, mixed>>

\* schedule, under the lock
Schedule(r, j) ==
    /\ request[r].at = "schedule"
    /\ Skipped(request[r].key) \/ job[j].at = "none"
    /\ IF Skipped(request[r].key) THEN UNCHANGED <<inflight, job>>
       ELSE /\ inflight' = inflight \cup {request[r].key}
            /\ Job(j, [NoJob EXCEPT !.at = "exists", !.key = request[r].key])
    /\ Request(r, [request[r] EXCEPT !.at = "original"])
    /\ UNCHANGED <<file, cached, mixed>>

\* The original is returned.
Original(r) ==
    /\ request[r].at = "original"
    /\ Request(r, Done(r, IF Image(file) THEN file ELSE Nothing))
    /\ UNCHANGED <<file, cached, inflight, job, mixed>>

\* ------------------------------------------------------------ jobs (runJob)

Exists(j) ==
    /\ job[j].at = "exists"
    /\ Job(j, [job[j] EXCEPT !.at = IF cached[job[j].key] # Nothing THEN "end" ELSE "decode"])
    /\ UNCHANGED <<file, cached, inflight, request, mixed>>

\* The file is read again.
Decode(j) ==
    /\ job[j].at = "decode"
    /\ Job(j, [job[j] EXCEPT !.at = IF Image(file) THEN "save" ELSE "end", !.read = file])
    /\ mixed' = (mixed \/ (Image(file) /\ file # job[j].key))
    /\ UNCHANGED <<file, cached, inflight, request>>

\* The image is written to a file of another name.
SaveImage(j) ==
    /\ job[j].at = "save"
    /\ \E at \in {"commit"} \cup (IF SavesFail THEN {"end"} ELSE {}) :
          Job(j, [job[j] EXCEPT !.at = at])
    /\ UNCHANGED <<file, cached, inflight, request, mixed>>

Commit(j) ==
    /\ job[j].at = "commit"
    /\ Job(j, [job[j] EXCEPT !.at = "end"])
    /\ cached' = [cached EXCEPT ![job[j].key] = job[j].read]
    /\ UNCHANGED <<file, inflight, request, mixed>>

\* runJob has returned.
EndJob(j) ==
    /\ job[j].at = "end"
    /\ Job(j, NoJob)
    /\ inflight' = inflight \ {job[j].key}
    /\ UNCHANGED <<file, cached, request, mixed>>

\* ------------------------------------------------------------ environment

\* The file is replaced or removed, while some requests run.
Replace(content) ==
    /\ content # file /\ file' = content
    /\ request' = [r \in Requests |->
           IF request[r].at \in {"none", "done"} THEN request[r]
           ELSE [request[r] EXCEPT !.seen = @ \cup {content}]]
    /\ UNCHANGED <<cached, inflight, job, mixed>>

\* The program ends and is started again.
Restart ==
    /\ request' = [r \in Requests |-> NoRequest]
    /\ job' = [j \in Jobs |-> NoJob]
    /\ inflight' = {}
    /\ UNCHANGED <<file, cached, mixed>>

CacherInit ==
    /\ file \in FileContents
    /\ cached = [c \in FileContents |-> Nothing]
    /\ inflight = {}
    /\ request = [r \in Requests |-> NoRequest]
    /\ job = [j \in Jobs |-> NoJob]
    /\ mixed = FALSE

RunRequest(r) == Hash(r) \/ Look(r) \/ (\E j \in Jobs : Schedule(r, j)) \/ Original(r)
RunJob(j) == Exists(j) \/ Decode(j) \/ SaveImage(j) \/ Commit(j) \/ EndJob(j)

CacherNext ==
    \/ \E r \in Requests : StartRequest(r) \/ RunRequest(r)
    \/ \E j \in Jobs : RunJob(j)
    \/ \E content \in FileContents \cup {Nothing} : Replace(content)
    \/ Restart

CacherSpec == CacherInit /\ [][CacherNext]_cacherVars

\* Threads of the pool run; images are asked for again.
CacherLiveSpec ==
    /\ CacherSpec
    /\ \A r \in Requests : WF_cacherVars(StartRequest(r)) /\ WF_cacherVars(RunRequest(r))
    /\ \A j \in Jobs : WF_cacherVars(RunJob(j))

\* --------------------------------------------------------- properties

CacherTypeOK ==
    /\ file \in FileContents \cup {Nothing}
    /\ cached \in [FileContents -> FileContents \cup {Nothing, Part}]
    /\ inflight \subseteq FileContents
    /\ request \in [Requests -> [at : {"none", "hash", "look", "schedule", "original", "done"},
                                 key : FileContents \cup {Nothing},
                                 got : FileContents \cup {Nothing, Part},
                                 seen : SUBSET (FileContents \cup {Nothing})]]
    /\ job \in [Jobs -> [at : {"none", "exists", "decode", "save", "commit", "end"},
                         key : FileContents \cup {Nothing},
                         read : FileContents \cup {Nothing}]]
    /\ mixed \in BOOLEAN

\* However many ask at once, an image is made by one job at a time and the
\* list of those under way is right (schedule and what it starts).
OneJobPerImage ==
    /\ \A i, j \in Jobs : job[i].at # "none" /\ job[i].key = job[j].key => i = j
    /\ inflight = {job[j].key : j \in {j \in Jobs : job[j].at # "none"}}

\* Whenever the program ends, what is in the cache is a whole image (QSaveFile
\* in runJob).
CacheIsWhole == \A c \in FileContents : cached[c] = Nothing \/ Image(cached[c])

\* A request returns an image the file had while it ran, unless the file was
\* replaced between a hash and the job for it (process, runJob).
ServedWasThere ==
    \A r \in Requests :
        request[r].got # Nothing /\ ~mixed => request[r].got \in request[r].seen

\* What the cache and the requests of images keep to, together.
ImagesAreRight ==
    CacherTypeOK /\ OneJobPerImage /\ CacheIsWhole /\ ServedWasThere

\* What was cached is not made again (runJob looks for it before the file is
\* decoded, and nobody else makes it meanwhile).
MadeOnce ==
    \A c \in FileContents : cached[c] # Nothing => cached'[c] = cached[c]
ImagesAreMadeOnce == [][MadeOnce]_cacherVars

\* A file that stays comes to be cached, if it can be (the comment "later ones
\* will use cache" in process).
ComesToBeCached ==
    \A c \in FileContents \ Broken :
        <>[](file = c) /\ <>[][~Restart]_cacherVars => <>[](cached[c] # Nothing)
=============================================================================
