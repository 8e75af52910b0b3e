--------------------------- MODULE CircularBuffer ---------------------------
(***************************************************************************)
(* The ring that holds the history of a chart (circularbuffer.cpp): where  *)
(* the next value goes, how many there are, and the values left over from  *)
(* before in the cells that do not count.                                  *)
(***************************************************************************)
EXTENDS Integers, Sequences

CONSTANTS
    Samples,     \* values pushed; 0 is one of them
    Capacities   \* that are set

VARIABLES
    buffer   \* [capacity, data, head, count]

CircularBufferAssumption ==
    Samples \subseteq Nat /\ 0 \in Samples /\ Capacities \subseteq Nat

Rings(c) == [capacity : {c}, data : [0 .. c - 1 -> Samples],
             head : {0} \cup 0 .. c - 1, count : 0 .. c]

Empty(c) == [capacity |-> c, data |-> [i \in 0 .. c - 1 |-> 0], head |-> 0,
             count |-> 0]

At(b, i) ==
    IF i \in 0 .. b.count - 1
    THEN b.data[(b.head - b.count + i + b.capacity) % b.capacity]
    ELSE 0

ValuesOf(b) == [i \in 1 .. b.count |-> At(b, i - 1)]

Pushed(b, x) ==
    IF b.capacity = 0 THEN b
    ELSE [capacity |-> b.capacity,
          data |-> [b.data EXCEPT ![b.head] = x],
          head |-> (b.head + 1) % b.capacity,
          count |-> IF b.count < b.capacity THEN b.count + 1 ELSE b.count]

\* The latest of the old values, from the first cell on
Resized(b, c) ==
    LET kept == IF b.count > c THEN c ELSE b.count
        start == b.count - kept
    IN  IF c = b.capacity THEN b
        ELSE [capacity |-> c,
              data |-> [i \in 0 .. c - 1 |->
                            IF i < kept THEN At(b, start + i) ELSE 0],
              head |-> IF kept = c THEN 0 ELSE kept,
              count |-> kept]

Cleared(b) ==
    IF b.count = 0 THEN b
    ELSE [capacity |-> b.capacity, data |-> b.data, head |-> 0, count |-> 0]

Init == buffer = Empty(0)

Push(x) == buffer' = Pushed(buffer, x)
SetCapacity(c) == buffer' = Resized(buffer, c)
Clear == buffer' = Cleared(buffer)

Next == \/ \E x \in Samples : Push(x)
        \/ \E c \in Capacities : SetCapacity(c)
        \/ Clear

Spec == Init /\ [][Next]_buffer

---------------------------------------------------------------------------
(* Properties                                                              *)

TypeOK == \E c \in Capacities \cup {0} : buffer \in Rings(c)

\* A ring is a window on what was pushed: whatever it wrapped, however its
\* capacity changed and whatever clear() left in its cells, values() are the
\* latest, the oldest first (setCapacity, push, clear and at of
\* circularbuffer.cpp).
Window == INSTANCE SlidingWindow WITH
    capacity <- buffer.capacity, values <- ValuesOf(buffer)

IsAWindow == Window!Spec
IsAWindowStep == [Window!Next]_(Window!windowVars)
=============================================================================
