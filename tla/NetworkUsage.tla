---------------------------- MODULE NetworkUsage ----------------------------
(***************************************************************************)
(* The traffic of the network interfaces (networkusage.cpp): a tick sums   *)
(* the counters of /proc/net/dev, adds what is new to the totals and the   *)
(* speeds to the two histories.  Interfaces come, with counters at zero,   *)
(* and go, whenever they like (external).                                  *)
(***************************************************************************)
EXTENDS Integers, FiniteSetsExt

CONSTANTS
    Interfaces,     \* that may be there
    Loopback,       \* one of them
    HistoryLength,
    MaxDown, MaxUp  \* bounds: bytes that an interface ever receives and sends

NetworkUsageAssumption ==
    Loopback \in Interfaces /\ {HistoryLength, MaxDown, MaxUp} \subseteq Nat

Directions == {"down", "up"}
MaxBytes == [d \in Directions |-> IF d = "down" THEN MaxDown ELSE MaxUp]

VARIABLES
    counters,      \* external: of the interfaces there are, per direction
    transferred,   \* external: by the others than the loopback, since the
                   \* first tick
    initialized,   \* m_initialized
    prev,          \* m_prevRx, m_prevTx
    total,         \* downloadTotal, uploadTotal
    download, upload   \* the buffers of the speeds
netVars == <<counters, transferred, initialized, prev, total, download, upload>>

Download == INSTANCE CircularBuffer WITH
    Samples <- 0 .. MaxDown, Capacities <- {HistoryLength + 1},
    buffer <- download
Upload == INSTANCE CircularBuffer WITH
    Samples <- 0 .. MaxUp, Capacities <- {HistoryLength + 1},
    buffer <- upload

NoBytes == [d \in Directions |-> 0]

Init ==
    /\ counters \in [{Loopback} -> {NoBytes}]
    /\ transferred = NoBytes
    /\ initialized = FALSE
    /\ prev = NoBytes
    /\ total = NoBytes
    /\ download = Download!Resized(Download!Empty(0), HistoryLength + 1)
    /\ upload = Upload!Resized(Upload!Empty(0), HistoryLength + 1)

Appears(i) ==
    /\ i \notin DOMAIN counters
    /\ counters' = [j \in DOMAIN counters \cup {i} |->
                       IF j = i THEN NoBytes ELSE counters[j]]
    /\ UNCHANGED <<transferred, initialized, prev, total, download, upload>>

Disappears(i) ==
    /\ i \in DOMAIN counters \ {Loopback}
    /\ counters' = [j \in DOMAIN counters \ {i} |-> counters[j]]
    /\ UNCHANGED <<transferred, initialized, prev, total, download, upload>>

Transfers(i, d) ==
    /\ i \in DOMAIN counters
    /\ counters[i][d] < MaxBytes[d]
    /\ transferred[d] < MaxBytes[d]
    /\ counters' = [counters EXCEPT ![i][d] = @ + 1]
    /\ transferred' = IF i = Loopback \/ ~initialized THEN transferred
                      ELSE [transferred EXCEPT ![d] = @ + 1]
    /\ UNCHANGED <<initialized, prev, total, download, upload>>

\* Every interface but the loopback
Counted(d) ==
    MapThenSumSet(LAMBDA i : counters[i][d], DOMAIN counters \ {Loopback})

\* Counters go back when an interface goes; then nothing is new.
NewBytes(d) == IF Counted(d) >= prev[d] THEN Counted(d) - prev[d] ELSE 0

FirstTick ==
    /\ ~initialized
    /\ initialized' = TRUE
    /\ prev' = [d \in Directions |-> Counted(d)]
    /\ UNCHANGED <<counters, transferred, total, download, upload>>

\* A speed is the bytes of a second; a tick in the millisecond of the one
\* before has none.
Tick(elapsed) ==
    /\ initialized
    /\ total' = [d \in Directions |-> total[d] + NewBytes(d)]
    /\ \/ elapsed > 0
          /\ Download!Push(NewBytes("down"))
          /\ Upload!Push(NewBytes("up"))
       \/ elapsed = 0 /\ UNCHANGED <<download, upload>>
    /\ prev' = [d \in Directions |-> Counted(d)]
    /\ UNCHANGED <<counters, transferred, initialized>>

Next ==
    \/ \E i \in Interfaces : Appears(i) \/ Disappears(i)
    \/ \E i \in Interfaces, d \in Directions : Transfers(i, d)
    \/ FirstTick
    \/ \E elapsed \in {0, 1} : Tick(elapsed)

---------------------------------------------------------------------------
(* Properties                                                              *)

TypeOK ==
    /\ DOMAIN counters \subseteq Interfaces /\ Loopback \in DOMAIN counters
    /\ \A i \in DOMAIN counters : counters[i] \in [Directions -> Nat]
    /\ initialized \in BOOLEAN
    /\ transferred \in [Directions -> Nat] /\ prev \in [Directions -> Nat]
    /\ total \in [Directions -> Nat]
    /\ Download!TypeOK /\ Upload!TypeOK

\* Interfaces that come and go never make more traffic than there was, and none
\* of it is counted twice: what is shown and what is still to be counted was
\* transferred (tick of networkusage.cpp).
NothingIsInvented ==
    initialized => \A d \in Directions :
        total[d] + NewBytes(d) <= transferred[d]

\* The two lines of the chart have their points at the same ticks, and show no
\* more than the totals.
HistoriesAgree ==
    /\ download.count = upload.count /\ download.head = upload.head
    /\ \A d \in Directions :
          LET b == IF d = "down" THEN download ELSE upload
          IN  MapThenSumSet(LAMBDA i : Download!At(b, i), 0 .. b.count - 1)
                  <= total[d]
=============================================================================
