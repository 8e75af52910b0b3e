---------------------------- MODULE CavaProvider ----------------------------
(***************************************************************************)
(* The bars of the visualiser (CavaProvider, CavaProcessor).  The provider *)
(* tells its processor, in another thread, how many bars there are, and    *)
(* the processor tells it their values; both are posted, so each speaks of *)
(* a number of bars that may have changed.  cava is external: it has some  *)
(* peaks.                                                                  *)
(***************************************************************************)
EXTENDS Integers, SequencesExt, FiniteSetsExt

CONSTANTS
    Bars,         \* the numbers of bars that are set
    Peaks,        \* what cava finds for a bar
    MaxPosted     \* bound on what is posted to one thread

Longest == Max(Bars) + 2

\* Two thirds of a peak, as often as the filter is tried, is a whole number.
CavaAssumption ==
    /\ Bars \subseteq Int /\ Peaks \subseteq Nat /\ 0 \in Peaks /\ MaxPosted \in Nat
    /\ \A p \in Peaks : p % 3^Longest = 0

VARIABLES
    bars, values,       \* of the provider, in the main thread
    toProcessor,        \* bars posted to the processor
    plan,               \* bars of the processor and of its plan, 0: none
    lastValues,         \* m_values of the processor
    toProvider          \* values posted to the provider
vars == <<bars, values, toProcessor, plan, lastValues, toProvider>>

\* ------------------------------------------------------------ the filter

\* One pass: peaks fall off by two thirds from bar to bar.
Carried(peaks) ==
    FoldLeft(LAMBDA passed, p :
                 Append(passed, IF passed = <<>> THEN p
                                ELSE Max({p, (2 * Last(passed)) \div 3})),
             <<>>, peaks)

\* From the left and from the right, and the greater of both
Filtered(peaks) ==
    LET rightwards == Carried(peaks)
        leftwards == Reverse(Carried(Reverse(peaks)))
    IN  [i \in DOMAIN peaks |-> Max({rightwards[i], leftwards[i]})]

\* ------------------------------------------------------------ actions

Resized(v, n) == [i \in 1..n |-> IF i <= Len(v) THEN v[i] ELSE 0]

BarCount(n) == IF n < 0 THEN 0 ELSE n

\* CavaProvider::setBars
SetBars(n) ==
    LET count == BarCount(n)
    IN  /\ Len(toProcessor) < MaxPosted /\ count # bars
        /\ bars' = count
        /\ values' = Resized(values, count)
        /\ toProcessor' = Append(toProcessor, count)
        /\ UNCHANGED <<plan, lastValues, toProvider>>

\* CavaProcessor::setBars and reload
Reload ==
    /\ toProcessor # <<>>
    /\ plan' = Head(toProcessor)
    /\ toProcessor' = Tail(toProcessor)
    /\ UNCHANGED <<bars, values, lastValues, toProvider>>

\* process; what has not changed is not told.
Process ==
    /\ plan > 0 /\ Len(toProvider) < MaxPosted
    /\ \E peaks \in [1..plan -> Peaks] :
          /\ lastValues' = Filtered(peaks)
          /\ toProvider' = IF lastValues' = lastValues THEN toProvider
                           ELSE Append(toProvider, lastValues')
    /\ UNCHANGED <<bars, values, toProcessor, plan>>

\* updateValues
UpdateValues ==
    /\ toProvider # <<>>
    /\ values' = Head(toProvider)
    /\ toProvider' = Tail(toProvider)
    /\ UNCHANGED <<bars, toProcessor, plan, lastValues>>

Init ==
    /\ bars = 0 /\ values = <<>> /\ toProcessor = <<>>
    /\ plan = 0 /\ lastValues = <<>> /\ toProvider = <<>>

Next ==
    \/ \E n \in Bars : SetBars(n)
    \/ Reload \/ Process \/ UpdateValues

Spec == Init /\ [][Next]_vars

\* The loops do what is posted; the processor's timer runs.
LiveSpec == Spec /\ WF_vars(Reload) /\ WF_vars(Process) /\ WF_vars(UpdateValues)

\* --------------------------------------------------------- properties

TypeOK ==
    /\ bars \in Nat /\ plan \in Nat
    /\ values \in Seq(Nat) /\ lastValues \in Seq(Nat)
    /\ toProcessor \in Seq(Nat) /\ toProvider \in Seq(Seq(Nat))

\* Each bar shows the highest of all peaks, faded by their distance: no pass
\* fades what the other has faded (the monstercat filter in process).
PeaksSpreadBothWays ==
    \A n \in 1..Longest :
        \A peaks \in [1..n -> Peaks] : \A i \in 1..n :
            LET Away(k) == IF i < k THEN k - i ELSE i - k
            IN  Filtered(peaks)[i] = Max({(peaks[k] * 2^Away(k)) \div 3^Away(k) : k \in 1..n})

\* The number of bars the processor works with, or will, is that of the
\* provider (setBars, reload).
ProcessorFollows ==
    (IF toProcessor = <<>> THEN plan ELSE Last(toProcessor)) = bars

\* Values of another number of bars do not stay: once the number settles there
\* is one value for each bar, however the two queues overtook each other.
SettlesOnBars ==
    \A n \in Bars : n > 0 /\ <>[](bars = n) => <>[](Len(values) = n)
=============================================================================
