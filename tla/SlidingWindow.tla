--------------------------- MODULE SlidingWindow ---------------------------
(***************************************************************************)
(* What a CircularBuffer promises: the latest values that were pushed, the *)
(* oldest first, as many as its capacity holds.                            *)
(***************************************************************************)
EXTENDS Integers, Sequences

CONSTANTS Samples, Capacities

VARIABLES capacity, values
windowVars == <<capacity, values>>

\* The last n of a sequence, or all of it
Latest(s, n) == IF Len(s) <= n THEN s ELSE SubSeq(s, Len(s) - n + 1, Len(s))

Init == capacity = 0 /\ values = << >>

Push(x) ==
    /\ values' = Latest(Append(values, x), capacity)
    /\ UNCHANGED capacity

SetCapacity(c) ==
    /\ capacity' = c
    /\ values' = Latest(values, c)

Clear == values' = << >> /\ UNCHANGED capacity

Next == \/ \E x \in Samples : Push(x)
        \/ \E c \in Capacities : SetCapacity(c)
        \/ Clear

Spec == Init /\ [][Next]_windowVars
=============================================================================
