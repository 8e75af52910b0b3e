---------------------------- MODULE AudioService ----------------------------
(***************************************************************************)
(* Who keeps the audio capture running (Service, ServiceRef, AudioProvider,*)
(* AudioProcessor, AudioCollector).  A ServiceRef in the user interface    *)
(* starts a provider, which posts to its processor's thread, which posts   *)
(* to the collector, which has one capture thread.  Providers go away when *)
(* the shell is reloaded, while what was posted is still on its way.       *)
(***************************************************************************)
EXTENDS Integers, Sequences

CONSTANTS
    Providers,    \* every provider of every reload, with its processor
    ServiceRefs,
    Nobody, Main,
    MaxPosted     \* bound on what is posted to one thread

ASSUME ServiceAssumption ==
    /\ {Nobody, Main} \cap Providers = {} /\ Nobody # Main /\ MaxPosted \in Nat

VARIABLES
    service,      \* m_service of each ServiceRef
    living,       \* the providers that exist
    destroyed,    \* those that existed
    refs,         \* m_refs of each provider
    inbox,        \* what is posted to each processor
    posted,       \* what is posted to the collector: <<ref or unref, processor>>
    home,         \* the thread the collector lives in
    senders,      \* m_refs of the collector
    capture,      \* m_thread: none, running, or ended and not joined
    crashed
audioVars == <<service, living, destroyed, refs, inbox, posted, home, senders,
               capture, crashed>>

\* The singleton is made by whoever asks first, and lives in that thread.
Instance(thread) == IF home = Nobody THEN thread ELSE home

\* The first user starts a provider and the last one stops it.
MutUnref(v, r) == IF r \in refs[v] THEN <<"stop">> ELSE <<>>

\* What ref and unref post to the processor
Ref(v) == IF refs[v] = {} THEN <<"start">> ELSE <<>>
Unref(v, r) == IF refs[v] = {r} THEN <<"stop">> ELSE <<>>

Calm == /\ ~crashed
        /\ Len(posted) < MaxPosted /\ \A v \in Providers : Len(inbox[v]) < MaxPosted

Create(v) ==
    /\ Calm /\ v \notin living \cup destroyed
    /\ living' = living \cup {v}
    /\ UNCHANGED <<service, destroyed, refs, inbox, posted, home, senders, capture, crashed>>

\* setService, and with Nobody also the end of a ServiceRef (destroyed -> unref)
SetService(r, v) ==
    /\ Calm /\ v # service[r] /\ v \in living \cup {Nobody}
    /\ service' = [service EXCEPT ![r] = v]
    /\ refs' = [x \in Providers |-> IF x = v THEN refs[x] \cup {r} ELSE refs[x] \ {r}]
    /\ inbox' = [x \in Providers |->
                   inbox[x] \o (CASE x = v -> Ref(x) [] x = service[r] -> Unref(x, r)
                                  [] OTHER -> <<>>)]
    /\ home' = IF v # Nobody /\ Ref(v) # <<>> THEN Instance(Main) ELSE home
    /\ UNCHANGED <<living, destroyed, posted, senders, capture, crashed>>

\* What a call of the processor posts to the collector
Forwarded(v, call) == <<IF call = "start" THEN "ref" ELSE "unref", v>>

\* AudioProcessor::start and stop, in the thread of the processor
Process(v) ==
    /\ ~crashed /\ v \in living /\ inbox[v] # <<>>
    /\ posted' = Append(posted, Forwarded(v, Head(inbox[v])))
    /\ inbox' = [inbox EXCEPT ![v] = Tail(@)]
    /\ UNCHANGED <<service, living, destroyed, refs, home, senders, capture, crashed>>

\* What a processor still posts: the calls its thread handles before it quits
\* and the stop of its destructor (and destroyed -> unref, which says the same)
Farewell(v, handled) ==
    Append([i \in 1..handled |-> Forwarded(v, inbox[v][i])], <<"unref", v>>)

\* QPointer
Forgotten(v) == [r \in ServiceRefs |-> IF service[r] = v THEN Nobody ELSE service[r]]

\* ~AudioProvider waits for the thread, which deletes the processor.
Destroy(v) ==
    /\ Calm /\ v \in living
    /\ living' = living \ {v} /\ destroyed' = destroyed \cup {v}
    /\ \E handled \in 0..Len(inbox[v]) : posted' = posted \o Farewell(v, handled)
    /\ inbox' = [inbox EXCEPT ![v] = <<>>]
    /\ refs' = [refs EXCEPT ![v] = {}]
    /\ service' = Forgotten(v)
    /\ home' = Instance(v)
    /\ UNCHANGED <<senders, capture, crashed>>

CollectRef(v) ==
    /\ capture' = IF senders = {} /\ capture = "none" THEN "running" ELSE capture
    /\ senders' = senders \cup {v}
    /\ crashed' \in (IF v \in living THEN {FALSE} ELSE BOOLEAN)

\* unref; stop joins the capture thread.
CollectUnref(v) ==
    /\ senders' = senders \ {v}
    /\ capture' = IF senders = {v} THEN "none" ELSE capture
    /\ UNCHANGED crashed

\* The collector's calls are made by the thread it lives in.
Collect ==
    /\ ~crashed /\ home = Main /\ posted # <<>>
    /\ posted' = Tail(posted)
    /\ IF Head(posted)[1] = "ref" THEN CollectRef(Head(posted)[2])
       ELSE CollectUnref(Head(posted)[2])
    /\ UNCHANGED <<service, living, destroyed, refs, inbox, home>>

\* PipeWire refuses the stream or ends it with an error.
CaptureEnds ==
    /\ ~crashed /\ capture = "running" /\ capture' = "ended"
    /\ UNCHANGED <<service, living, destroyed, refs, inbox, posted, home, senders, crashed>>

ServiceInit ==
    /\ service = [r \in ServiceRefs |-> Nobody]
    /\ living = {} /\ destroyed = {}
    /\ refs = [v \in Providers |-> {}]
    /\ inbox = [v \in Providers |-> <<>>]
    /\ posted = <<>> /\ home = Nobody
    /\ senders = {} /\ capture = "none" /\ crashed = FALSE

ServiceNext ==
    \/ \E v \in Providers : Create(v) \/ Destroy(v) \/ Process(v)
    \/ \E r \in ServiceRefs, v \in Providers \cup {Nobody} : SetService(r, v)
    \/ Collect \/ CaptureEnds

ServiceSpec == ServiceInit /\ [][ServiceNext]_audioVars

\* The loops of the threads do what is posted to them.
ServiceLiveSpec ==
    /\ ServiceSpec
    /\ \A v \in Providers : WF_audioVars(Process(v))
    /\ WF_audioVars(Collect)

\* --------------------------------------------------------- properties

ServiceTypeOK ==
    /\ service \in [ServiceRefs -> living \cup {Nobody}]
    /\ living \subseteq Providers /\ destroyed \subseteq Providers \ living
    /\ refs \in [Providers -> SUBSET ServiceRefs]
    /\ inbox \in [Providers -> Seq({"start", "stop"})]
    /\ posted \in Seq({"ref", "unref"} \X Providers)
    /\ home \in Providers \cup {Nobody, Main}
    /\ senders \subseteq Providers
    /\ capture \in {"none", "running", "ended"} /\ crashed \in BOOLEAN

\* The last call for v that is posted to the collector
LastPosted(v, i) ==
    /\ i \in 1..Len(posted) /\ posted[i][2] = v
    /\ \A k \in i + 1..Len(posted) : posted[k][2] # v

\* What the collector will have been told of a processor once everything
\* under way has arrived: the last call counts.
Told(v) ==
    IF inbox[v] # <<>> THEN inbox[v][Len(inbox[v])] = "start"
    ELSE \/ \E i \in 1..Len(posted) : LastPosted(v, i) /\ posted[i][1] = "ref"
         \/ (\A i \in 1..Len(posted) : posted[i][2] # v) /\ v \in senders

\* Whatever is under way through the two threads, in the end the collector has
\* a processor among its users iff somebody uses its provider; a provider that
\* is gone is no user (Service::ref and unref, ~AudioProcessor).
UsersArrive == \A v \in Providers : Told(v) <=> refs[v] # {}

\* There is a capture thread to join iff the collector has users (start, stop).
CaptureIsUsed == capture # "none" <=> senders # {}

\* What holds of the users of the capture at any time, together.
AudioIsUsed == ServiceTypeOK /\ UsersArrive /\ CaptureIsUsed

\* A provider that stays in use gets its capture, and when nobody uses one any
\* more the capture ends (with a collector in the main thread).
CaptureFollowsUse ==
    /\ <>[](\A v \in Providers : refs[v] = {}) => <>[](crashed \/ capture = "none")
    /\ \A v \in Providers :
          <>[](refs[v] # {} /\ home = Main) => <>[](crashed \/ capture # "none")
=============================================================================
