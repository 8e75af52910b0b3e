---------------------------- MODULE DeviceProofs ----------------------------
(***************************************************************************)
(* For every bound: a CircularBuffer implements a SlidingWindow, for every *)
(* capacity; and what the shell shows of the compositor is never older     *)
(* than what it showed before, and tells each change once; and the         *)
(* applications of the launcher stay those of the desktop entries, each in *)
(* the list once and in its place.                                         *)
(***************************************************************************)
EXTENDS CircularBuffer, HyprExtras, AppDb, WellFoundedInduction, FiniteSetTheorems,
        TLAPS

---------------------------------------------------------------------------
(* CircularBuffer: a window of the latest values                           *)

\* A step around the ring: positions are less than twice the capacity.
LEMMA OnceAround ==
    ASSUME NEW c \in Nat \ {0}, NEW x \in 0 .. 2 * c - 1
    PROVE  x % c = IF x < c THEN x ELSE x - c
BY SMT

\* Sequences are the same when their elements are.
LEMMA SameElements ==
    ASSUME NEW S, NEW s \in Seq(S), NEW t \in Seq(S), Len(s) = Len(t),
           \A i \in 1 .. Len(s) : s[i] = t[i]
    PROVE  s = t
OBVIOUS

\* Where the value at index i is, of n values up to h, in c cells.
Position(c, h, n, i) == IF i >= n - h THEN h - n + i ELSE h - n + i + c

\* Where the value after that goes, and how many there are then
NextHead(c, h) == IF h + 1 < c THEN h + 1 ELSE 0
NextCount(c, n) == IF n < c THEN n + 1 ELSE n

\* While the ring fills, positions stay; once it is full, each is that of the
\* next index.
LEMMA PositionsStay ==
    ASSUME NEW c \in Nat \ {0}, NEW h \in 0 .. c - 1, NEW n \in 0 .. c
    PROVE  /\ \A i \in 0 .. n - 1 : n < c =>
                 /\ Position(c, NextHead(c, h), n + 1, i) = Position(c, h, n, i)
                 /\ Position(c, h, n, i) # h
           /\ \A i \in 0 .. n - 2 : n = c =>
                 /\ Position(c, NextHead(c, h), n, i) = Position(c, h, n, i + 1)
                 /\ Position(c, h, n, i + 1) # h
           /\ n < c => Position(c, NextHead(c, h), n + 1, n) = h
           /\ n = c => Position(c, NextHead(c, h), n, n - 1) = h
BY DEF Position, NextHead

LEMMA PositionIsOne ==
    ASSUME NEW c \in Nat \ {0}, NEW h \in 0 .. c - 1, NEW n \in 0 .. c,
           NEW i \in 0 .. n - 1
    PROVE  /\ Position(c, h, n, i) \in 0 .. c - 1
           /\ (h - n + i + c) % c = Position(c, h, n, i)
<1> DEFINE x == h - n + i + c
<1>1. x \in 0 .. 2 * c - 1
  OBVIOUS
<1> HIDE DEF x
<1>2. x % c = IF x < c THEN x ELSE x - c
  BY <1>1, OnceAround
<1> QED BY <1>1, <1>2 DEF Position, x

\* A ring from its parts
Ring(c, d, h, n) == [capacity |-> c, data |-> d, head |-> h, count |-> n]

LEMMA AtItsPosition ==
    ASSUME NEW c \in Nat \ {0}, NEW d \in [0 .. c - 1 -> Samples],
           NEW h \in 0 .. c - 1, NEW n \in 0 .. c, NEW i \in 0 .. n - 1
    PROVE  /\ At(Ring(c, d, h, n), i) = d[Position(c, h, n, i)]
           /\ At(Ring(c, d, h, n), i) \in Samples
<1>1. At(Ring(c, d, h, n), i) = d[(h - n + i + c) % c]
  BY DEF At, Ring
<1> QED BY <1>1, PositionIsOne

\* values() is a sequence of samples as long as the count.
LEMMA ValuesAreSamples ==
    ASSUME NEW c \in Nat \ {0}, NEW d \in [0 .. c - 1 -> Samples],
           NEW h \in 0 .. c - 1, NEW n \in 0 .. c
    PROVE  /\ ValuesOf(Ring(c, d, h, n)) \in Seq(Samples)
           /\ Len(ValuesOf(Ring(c, d, h, n))) = n
           /\ \A i \in 1 .. n : ValuesOf(Ring(c, d, h, n))[i] =
                                    d[Position(c, h, n, i - 1)]
<1> DEFINE f == [i \in 1 .. n |-> At(Ring(c, d, h, n), i - 1)]
<1>1. ValuesOf(Ring(c, d, h, n)) = f
  BY DEF ValuesOf, Ring
<1>2. \A i \in 1 .. n :
        /\ At(Ring(c, d, h, n), i - 1) = d[Position(c, h, n, i - 1)]
        /\ At(Ring(c, d, h, n), i - 1) \in Samples
  <2> TAKE i \in 1 .. n
  <2>1. i - 1 \in 0 .. n - 1
    OBVIOUS
  <2> QED BY <2>1, AtItsPosition
<1> QED BY <1>1, <1>2

\* A ring that is pushed to: its parts
LEMMA PushedParts ==
    ASSUME NEW c \in Nat \ {0}, NEW d \in [0 .. c - 1 -> Samples],
           NEW h \in 0 .. c - 1, NEW n \in 0 .. c, NEW x \in Samples
    PROVE  Pushed(Ring(c, d, h, n), x) =
             Ring(c, [d EXCEPT ![h] = x], NextHead(c, h), NextCount(c, n))
<1> DEFINE y == h + 1
<1>1. y \in 0 .. 2 * c - 1
  OBVIOUS
<1> HIDE DEF y
<1>2. y % c = IF y < c THEN y ELSE y - c
  BY <1>1, OnceAround
<1>3. (h + 1) % c = NextHead(c, h)
  BY <1>2 DEF y, NextHead
<1> QED BY <1>3 DEF Pushed, Ring, NextCount

\* A value that is pushed comes last; the first goes when the ring is full.
LEMMA PushedIsLast ==
    ASSUME NEW c \in Nat \ {0}, NEW d \in [0 .. c - 1 -> Samples],
           NEW h \in 0 .. c - 1, NEW n \in 0 .. c, NEW x \in Samples
    PROVE  ValuesOf(Pushed(Ring(c, d, h, n), x)) =
             Window!Latest(Append(ValuesOf(Ring(c, d, h, n)), x), c)
<1> DEFINE e == [d EXCEPT ![h] = x]
           g == NextHead(c, h)
           m == NextCount(c, n)
           s == ValuesOf(Ring(c, d, h, n))
           t == ValuesOf(Ring(c, e, g, m))
<1>1. Pushed(Ring(c, d, h, n), x) = Ring(c, e, g, m)
  BY PushedParts
<1>2. e \in [0 .. c - 1 -> Samples] /\ g \in 0 .. c - 1 /\ m \in 0 .. c
  BY DEF NextHead, NextCount
<1>3. /\ s \in Seq(Samples) /\ Len(s) = n
      /\ \A i \in 1 .. n : s[i] = d[Position(c, h, n, i - 1)]
  BY ValuesAreSamples
<1>4. /\ t \in Seq(Samples) /\ Len(t) = m
      /\ \A i \in 1 .. m : t[i] = e[Position(c, g, m, i - 1)]
  <2> HIDE DEF e, g, m
  <2> QED BY <1>2, ValuesAreSamples
<1>5. \A i \in 0 .. n - 1 : Position(c, h, n, i) \in 0 .. c - 1
  BY PositionIsOne
<1>6. /\ \A i \in 0 .. n - 1 : n < c =>
            /\ Position(c, g, n + 1, i) = Position(c, h, n, i)
            /\ Position(c, h, n, i) # h
      /\ \A i \in 0 .. n - 2 : n = c =>
            /\ Position(c, g, n, i) = Position(c, h, n, i + 1)
            /\ Position(c, h, n, i + 1) # h
      /\ n < c => Position(c, g, n + 1, n) = h
      /\ n = c => Position(c, g, n, n - 1) = h
  BY PositionsStay
<1>7. Append(s, x) \in Seq(Samples) /\ Len(Append(s, x)) = n + 1
      /\ \A i \in 1 .. n + 1 : Append(s, x)[i] = IF i = n + 1 THEN x ELSE s[i]
  <2> HIDE DEF s
  <2> QED BY <1>3
<1>8. CASE n < c
  <2>1. \A i \in 1 .. n : t[i] = s[i]
    <3> SUFFICES ASSUME NEW i \in 1 .. n  PROVE t[i] = s[i]
      OBVIOUS
    <3>1. i - 1 \in 0 .. n - 1 /\ i \in 1 .. n + 1 /\ m = n + 1
      BY <1>8 DEF NextCount
    <3>2. t[i] = e[Position(c, g, n + 1, i - 1)]
      BY <1>4, <3>1
    <3>3. /\ Position(c, g, n + 1, i - 1) = Position(c, h, n, i - 1)
          /\ Position(c, h, n, i - 1) # h
          /\ Position(c, h, n, i - 1) \in 0 .. c - 1
      BY <1>5, <1>6, <1>8, <3>1
    <3>4. s[i] = d[Position(c, h, n, i - 1)]
      BY <1>3
    <3> HIDE DEF s, t, g
    <3> QED BY <3>2, <3>3, <3>4
  <2>2. t[n + 1] = x
    <3>1. m = n + 1 /\ n + 1 \in 1 .. n + 1 /\ n + 1 - 1 = n
      BY <1>8 DEF NextCount
    <3> HIDE DEF s, t, e, g, m
    <3> QED BY <1>4, <1>6, <1>8, <3>1 DEF e
  <2>3. Len(t) = n + 1
    BY <1>4, <1>8 DEF NextCount
  <2> HIDE DEF s, t
  <2>4. \A i \in 1 .. n + 1 : t[i] = Append(s, x)[i]
    BY <1>7, <2>1, <2>2
  <2>5. t = Append(s, x)
    BY <1>4, <1>7, <2>3, <2>4, SameElements
  <2>6. Window!Latest(Append(s, x), c) = Append(s, x)
    BY <1>7, <1>8 DEF Window!Latest
  <2> QED BY <1>1, <2>5, <2>6 DEF s, t
<1>9. CASE n = c
  <2> DEFINE u == SubSeq(Append(s, x), 2, c + 1)
  <2>1. /\ u \in Seq(Samples) /\ Len(u) = c
        /\ \A i \in 1 .. c : u[i] = Append(s, x)[i + 1]
    <3> HIDE DEF s
    <3> QED BY <1>7, <1>9
  <2>2. \A i \in 1 .. c - 1 : t[i] = s[i + 1]
    <3> SUFFICES ASSUME NEW i \in 1 .. c - 1  PROVE t[i] = s[i + 1]
      OBVIOUS
    <3>1. /\ i - 1 \in 0 .. n - 2 /\ i \in 1 .. n /\ m = n /\ i - 1 + 1 = i
          /\ i + 1 \in 1 .. n /\ i + 1 - 1 = i /\ i \in 0 .. n - 1
      BY <1>9 DEF NextCount
    <3>2. t[i] = e[Position(c, g, n, i - 1)]
      BY <1>4, <3>1
    <3>3. /\ Position(c, g, n, i - 1) = Position(c, h, n, i)
          /\ Position(c, h, n, i) # h
          /\ Position(c, h, n, i) \in 0 .. c - 1
      BY <1>5, <1>6, <1>9, <3>1
    <3>4. s[i + 1] = d[Position(c, h, n, i)]
      BY <1>3, <3>1
    <3> HIDE DEF s, t, g
    <3> QED BY <3>2, <3>3, <3>4
  <2>3. t[c] = x
    <3>1. m = n /\ n \in 1 .. n
      BY <1>9 DEF NextCount
    <3> HIDE DEF s, t, e, g, m
    <3> QED BY <1>4, <1>6, <1>9, <3>1 DEF e
  <2>4. Len(t) = c
    BY <1>4, <1>9 DEF NextCount
  <2>5. \A i \in 1 .. c : u[i] = IF i = c THEN x ELSE s[i + 1]
    <3> HIDE DEF s, u
    <3> QED BY <1>7, <1>9, <2>1
  <2>6. \A i \in 1 .. c : t[i] = u[i]
    <3> HIDE DEF s, u, t
    <3> QED BY <2>2, <2>3, <2>5
  <2>7. t = u
    <3> HIDE DEF s, u, t
    <3> QED BY <1>4, <2>1, <2>4, <2>6, SameElements
  <2>8. Window!Latest(Append(s, x), c) = u
    <3>1. Len(Append(s, x)) = c + 1
      <4> HIDE DEF s
      <4> QED BY <1>7, <1>9
    <3> DEFINE a == Append(s, x)
    <3> HIDE DEF s, a
    <3>2. ~(Len(a) <= c) /\ Len(a) - c + 1 = 2 /\ Len(a) = c + 1
      BY <3>1 DEF a
    <3>3. Window!Latest(a, c) = SubSeq(a, 2, c + 1)
      BY <3>2 DEF Window!Latest
    <3> QED BY <3>3 DEF a
  <2> QED BY <1>1, <2>7, <2>8
<1> QED BY <1>8, <1>9

\* A ring of any capacity has the values that at() gives.
LEMMA ValuesAreAt ==
    ASSUME CircularBufferAssumption, NEW c \in Nat,
           NEW d \in [0 .. c - 1 -> Samples], NEW h \in {0} \cup 0 .. c - 1,
           NEW n \in 0 .. c
    PROVE  /\ ValuesOf(Ring(c, d, h, n)) \in Seq(Samples)
           /\ Len(ValuesOf(Ring(c, d, h, n))) = n
           /\ \A i \in 1 .. n : ValuesOf(Ring(c, d, h, n))[i] =
                                    At(Ring(c, d, h, n), i - 1)
           /\ \A i \in 0 .. n - 1 : At(Ring(c, d, h, n), i) \in Samples
<1> DEFINE b == Ring(c, d, h, n)
           f == [i \in 1 .. n |-> At(b, i - 1)]
<1>1. ValuesOf(b) = f
  BY DEF ValuesOf, Ring
<1>2. CASE c = 0
  <2>1. n = 0 /\ f = << >>
    BY <1>2
  <2> QED BY <1>1, <2>1
<1>3. CASE c # 0
  <2>1. c \in Nat \ {0} /\ h \in 0 .. c - 1
    BY <1>3
  <2>2. \A i \in 0 .. n - 1 : At(b, i) \in Samples
    BY <2>1, AtItsPosition
  <2> HIDE DEF b
  <2>3. \A i \in 1 .. n : At(b, i - 1) \in Samples
    <3> TAKE i \in 1 .. n
    <3>1. i - 1 \in 0 .. n - 1
      OBVIOUS
    <3> QED BY <2>2, <3>1
  <2>4. f \in Seq(Samples) /\ Len(f) = n
    BY <2>3
  <2> QED BY <1>1, <2>2, <2>4 DEF b
<1> QED BY <1>2, <1>3

\* A ring that is resized keeps the latest of its values.
LEMMA ResizedKeepsLatest ==
    ASSUME CircularBufferAssumption, NEW c \in Nat,
           NEW d \in [0 .. c - 1 -> Samples], NEW h \in {0} \cup 0 .. c - 1,
           NEW n \in 0 .. c, NEW k \in Nat
    PROVE  /\ Resized(Ring(c, d, h, n), k) \in Rings(k)
           /\ ValuesOf(Resized(Ring(c, d, h, n), k)) =
                Window!Latest(ValuesOf(Ring(c, d, h, n)), k)
<1> DEFINE b == Ring(c, d, h, n)
           s == ValuesOf(b)
<1>1. /\ s \in Seq(Samples) /\ Len(s) = n
      /\ \A i \in 1 .. n : s[i] = At(b, i - 1)
      /\ \A i \in 0 .. n - 1 : At(b, i) \in Samples
  BY ValuesAreAt
<1>2. b.capacity = c /\ b.count = n
  BY DEF Ring
<1>3. CASE k = c
  <2>1. Resized(b, k) = b
    BY <1>2, <1>3 DEF Resized
  <2>2. b \in Rings(c)
    BY DEF Ring, Rings
  <2> HIDE DEF s, b
  <2>3. Window!Latest(s, c) = s
    BY <1>1 DEF Window!Latest
  <2> QED BY <1>3, <2>1, <2>2, <2>3 DEF s, b
<1>4. CASE k # c
  <2> DEFINE kept == IF n > k THEN k ELSE n
             e == [i \in 0 .. k - 1 |->
                      IF i < kept THEN At(b, n - kept + i) ELSE 0]
             g == IF kept = k THEN 0 ELSE kept
             t == ValuesOf(Ring(k, e, g, kept))
  <2>1. Resized(b, k) = Ring(k, e, g, kept)
    BY <1>2, <1>4 DEF Resized, Ring
  <2>2. kept \in 0 .. k /\ kept \in 0 .. n /\ g \in {0} \cup 0 .. k - 1
    OBVIOUS
  <2>3. e \in [0 .. k - 1 -> Samples]
    <3> SUFFICES ASSUME NEW i \in 0 .. k - 1, i < kept
                 PROVE  At(b, n - kept + i) \in Samples
      BY DEF CircularBufferAssumption
    <3>1. n - kept + i \in 0 .. n - 1
      BY <2>2
    <3> HIDE DEF b, kept
    <3> QED BY <1>1, <3>1
  <2>4. Ring(k, e, g, kept) \in Rings(k)
    <3> HIDE DEF e, g, kept
    <3> QED BY <2>2, <2>3 DEF Ring, Rings
  <2>5. /\ t \in Seq(Samples) /\ Len(t) = kept
        /\ \A i \in 1 .. kept : t[i] = At(Ring(k, e, g, kept), i - 1)
    <3> HIDE DEF e, g, kept
    <3> QED BY <2>2, <2>3, ValuesAreAt
  <2>6. \A i \in 1 .. kept : t[i] = s[n - kept + i]
    <3> SUFFICES ASSUME NEW i \in 1 .. kept
                 PROVE  t[i] = s[n - kept + i]
      OBVIOUS
    <3>1. /\ k \in Nat \ {0} /\ g \in 0 .. k - 1 /\ i - 1 \in 0 .. kept - 1
          /\ i - 1 \in 0 .. k - 1 /\ i - 1 < kept
          /\ n - kept + i \in 1 .. n
          /\ n - kept + (i - 1) = n - kept + i - 1
      BY <2>2
    <3>2. Position(k, g, kept, i - 1) = i - 1
      BY <2>2, <3>1 DEF Position
    <3>3. At(Ring(k, e, g, kept), i - 1) = e[i - 1]
      <4> HIDE DEF e, g, kept
      <4> QED BY <2>2, <2>3, <3>1, <3>2, AtItsPosition
    <3>4. e[i - 1] = At(b, n - kept + (i - 1))
      <4> HIDE DEF b, kept
      <4> QED BY <3>1
    <3>5. s[n - kept + i] = At(b, n - kept + i - 1)
      <4> HIDE DEF b, s, kept
      <4> QED BY <1>1, <3>1
    <3> HIDE DEF b, e, g, s, t, kept
    <3> QED BY <2>5, <3>1, <3>3, <3>4, <3>5
  <2>7. Window!Latest(s, k) = t
    <3>1. CASE n <= k
      <4>1. kept = n
        BY <3>1
      <4> HIDE DEF b, s, e, g, t, kept
      <4>2. \A i \in 1 .. n : t[i] = s[i]
        BY <2>6, <4>1
      <4>3. t = s
        BY <1>1, <2>5, <4>1, <4>2, SameElements
      <4> QED BY <1>1, <3>1, <4>3 DEF Window!Latest
    <3>2. CASE n > k
      <4>1. kept = k
        BY <3>2
      <4> DEFINE u == SubSeq(s, n - k + 1, n)
      <4> HIDE DEF b, s, e, g, t, kept
      <4>2. /\ u \in Seq(Samples) /\ Len(u) = k
            /\ \A i \in 1 .. k : u[i] = s[n - k + i]
        BY <1>1, <3>2
      <4>3. Window!Latest(s, k) = u
        BY <1>1, <3>2 DEF Window!Latest
      <4> HIDE DEF u
      <4>4. \A i \in 1 .. k : t[i] = u[i]
        BY <2>6, <4>1, <4>2
      <4>5. t = u
        BY <2>5, <4>1, <4>2, <4>4, SameElements
      <4> QED BY <4>3, <4>5
    <3> QED BY <3>1, <3>2
  <2> QED BY <2>1, <2>4, <2>7
<1> QED BY <1>3, <1>4

\* A ring that is pushed to: of the same capacity, with the latest values.
LEMMA PushKeepsLatest ==
    ASSUME CircularBufferAssumption, NEW c \in Nat,
           NEW d \in [0 .. c - 1 -> Samples], NEW h \in {0} \cup 0 .. c - 1,
           NEW n \in 0 .. c, NEW x \in Samples
    PROVE  /\ Pushed(Ring(c, d, h, n), x) \in Rings(c)
           /\ ValuesOf(Pushed(Ring(c, d, h, n), x)) =
                Window!Latest(Append(ValuesOf(Ring(c, d, h, n)), x), c)
<1> DEFINE b == Ring(c, d, h, n)
           s == ValuesOf(b)
<1>1. CASE c = 0
  <2>1. Pushed(b, x) = b /\ b \in Rings(c)
    BY <1>1 DEF Pushed, Ring, Rings
  <2>2. s \in Seq(Samples) /\ Len(s) = n
    BY ValuesAreAt
  <2> HIDE DEF b, s
  <2>3. s = << >> /\ Window!Latest(Append(s, x), 0) = << >>
    BY <1>1, <2>2 DEF Window!Latest
  <2> QED BY <1>1, <2>1, <2>3 DEF b, s
<1>2. CASE c # 0
  <2>1. c \in Nat \ {0} /\ h \in 0 .. c - 1
    BY <1>2
  <2>2. Pushed(b, x) =
          Ring(c, [d EXCEPT ![h] = x], NextHead(c, h), NextCount(c, n))
    BY <2>1, PushedParts
  <2>3. /\ NextHead(c, h) \in {0} \cup 0 .. c - 1
        /\ NextCount(c, n) \in 0 .. c
        /\ [d EXCEPT ![h] = x] \in [0 .. c - 1 -> Samples]
    BY <2>1 DEF NextHead, NextCount
  <2>4. Pushed(b, x) \in Rings(c)
    BY <2>2, <2>3 DEF Ring, Rings
  <2> QED BY <2>1, <2>4, PushedIsLast
<1> QED BY <1>1, <1>2

\* A ring that is cleared has no values.
LEMMA ClearedIsEmpty ==
    ASSUME CircularBufferAssumption, NEW c \in Nat,
           NEW d \in [0 .. c - 1 -> Samples], NEW h \in {0} \cup 0 .. c - 1,
           NEW n \in 0 .. c
    PROVE  /\ Cleared(Ring(c, d, h, n)) \in Rings(c)
           /\ ValuesOf(Cleared(Ring(c, d, h, n))) = << >>
<1>1. \E g \in {0} \cup 0 .. c - 1 : Cleared(Ring(c, d, h, n)) = Ring(c, d, g, 0)
  BY DEF Cleared, Ring
<1>2. PICK g \in {0} \cup 0 .. c - 1 : Cleared(Ring(c, d, h, n)) = Ring(c, d, g, 0)
  BY <1>1
<1>3. Ring(c, d, g, 0) \in Rings(c)
  BY DEF Ring, Rings
<1>4. 0 \in 0 .. c
  OBVIOUS
<1>5. /\ ValuesOf(Ring(c, d, g, 0)) \in Seq(Samples)
      /\ Len(ValuesOf(Ring(c, d, g, 0))) = 0
  BY <1>4, ValuesAreAt
<1> QED BY <1>2, <1>3, <1>5

\* A ring in TypeOK is made of its parts.
LEMMA HasParts ==
    ASSUME TypeOK, CircularBufferAssumption
    PROVE  \E c \in Nat : \E d \in [0 .. c - 1 -> Samples] :
             \E h \in {0} \cup 0 .. c - 1, n \in 0 .. c :
               buffer = Ring(c, d, h, n) /\ c \in Capacities \cup {0}
<1>1. PICK c \in Capacities \cup {0} : buffer \in Rings(c)
  BY DEF TypeOK
<1>2. c \in Nat
  BY DEF CircularBufferAssumption
<1>3. /\ buffer = Ring(c, buffer.data, buffer.head, buffer.count)
      /\ buffer.data \in [0 .. c - 1 -> Samples]
      /\ buffer.head \in {0} \cup 0 .. c - 1 /\ buffer.count \in 0 .. c
  BY <1>1 DEF Rings, Ring
<1> QED BY <1>2, <1>3

\* What a step does to the ring it does to the window on what was pushed.
LEMMA StepsOnTheWindow ==
    ASSUME CircularBufferAssumption, TypeOK, [Next]_buffer
    PROVE  TypeOK' /\ [Window!Next]_(Window!windowVars)
<1>1. PICK c \in Nat : \E d \in [0 .. c - 1 -> Samples] :
             \E h \in {0} \cup 0 .. c - 1, n \in 0 .. c :
               buffer = Ring(c, d, h, n) /\ c \in Capacities \cup {0}
  BY HasParts
<1>2. PICK d \in [0 .. c - 1 -> Samples], h \in {0} \cup 0 .. c - 1,
           n \in 0 .. c : buffer = Ring(c, d, h, n)
  BY <1>1
<1>3. c \in Capacities \cup {0} /\ buffer.capacity = c
  BY <1>1, <1>2 DEF Ring
<1>4. ASSUME NEW x \in Samples, Push(x)
      PROVE  TypeOK' /\ Window!Push(x)
  <2>1. /\ buffer' \in Rings(c)
        /\ ValuesOf(buffer') = Window!Latest(Append(ValuesOf(buffer), x), c)
    BY <1>2, <1>4, PushKeepsLatest DEF Push
  <2>2. buffer'.capacity = c
    BY <2>1 DEF Rings
  <2> QED BY <1>3, <2>1, <2>2 DEF TypeOK, Window!Push
<1>5. ASSUME NEW k \in Capacities, SetCapacity(k)
      PROVE  TypeOK' /\ Window!SetCapacity(k)
  <2>1. /\ buffer' \in Rings(k)
        /\ ValuesOf(buffer') = Window!Latest(ValuesOf(buffer), k)
    BY <1>2, <1>5, ResizedKeepsLatest DEF SetCapacity, CircularBufferAssumption
  <2>2. buffer'.capacity = k
    BY <2>1 DEF Rings
  <2> QED BY <2>1, <2>2 DEF TypeOK, Window!SetCapacity
<1>6. ASSUME Clear
      PROVE  TypeOK' /\ Window!Clear
  <2>1. buffer' \in Rings(c) /\ ValuesOf(buffer') = << >>
    BY <1>2, <1>6, ClearedIsEmpty DEF Clear
  <2>2. buffer'.capacity = c
    BY <2>1 DEF Rings
  <2> QED BY <1>3, <2>1, <2>2 DEF TypeOK, Window!Clear
<1>7. CASE UNCHANGED buffer
  BY <1>7 DEF TypeOK, Window!windowVars, Window!Next
<1> QED BY <1>4, <1>5, <1>6, <1>7 DEF Next, Window!Next

\* A ring starts without a cell, as a window on nothing.
LEMMA StartsAsAWindow ==
    ASSUME CircularBufferAssumption, Init
    PROVE  TypeOK /\ Window!Init
<1>1. buffer = Ring(0, [i \in 0 .. 0 - 1 |-> 0], 0, 0)
  BY DEF Init, Empty, Ring
<1>2. [i \in 0 .. 0 - 1 |-> 0] \in [0 .. 0 - 1 -> Samples]
  OBVIOUS
<1>3. buffer \in Rings(0) /\ buffer.capacity = 0
  BY <1>1, <1>2 DEF Ring, Rings
<1>4. ValuesOf(buffer) \in Seq(Samples) /\ Len(ValuesOf(buffer)) = 0
  <2>1. 0 \in {0} \cup 0 .. 0 - 1 /\ 0 \in 0 .. 0 /\ 0 \in Nat
    OBVIOUS
  <2> QED BY <1>1, <1>2, <2>1, ValuesAreAt
<1> QED BY <1>3, <1>4 DEF TypeOK, Window!Init

\* The parts of a ring fit one another (m_data, m_head, m_count and m_capacity
\* of circularbuffer.hpp): no index leaves the array.
THEOREM RingFits == ASSUME CircularBufferAssumption PROVE Spec => []TypeOK
<1>1. Init => TypeOK
  BY StartsAsAWindow
<1>2. TypeOK /\ [Next]_buffer => TypeOK'
  BY StepsOnTheWindow
<1> QED BY <1>1, <1>2, PTL DEF Spec

\* The ring is a window on the latest values, whatever was pushed, resized and
\* cleared before: circularbuffer.cpp implements the sequence it stands for.
THEOREM RingIsAWindow == ASSUME CircularBufferAssumption PROVE Spec => IsAWindow
<1>1. Init => TypeOK /\ Window!Init
  BY StartsAsAWindow
<1>2. TypeOK /\ [Next]_buffer => TypeOK' /\ [Window!Next]_(Window!windowVars)
  BY StepsOnTheWindow
<1> QED BY <1>1, <1>2, PTL DEF Spec, IsAWindow, Window!Spec

---------------------------------------------------------------------------
(* HyprExtras: answers that are overtaken                                  *)

\* What the compositor has of keyboards, or the shell
IsKeyboards(f) ==
    DOMAIN f \subseteq Keyboards /\ f = [k \in DOMAIN f |-> f[k]]

\* An answer is from some time until now, of what was asked for.
IsAnswer(asks, answer, now) ==
    /\ answer.time \in 1..now
    /\ IF asks = "devices" THEN IsKeyboards(answer.data) ELSE answer.data \in 0..MaxTime

HyprTyped ==
    /\ comp.time \in 1..MaxTime /\ comp.options \in 0..MaxTime /\ IsKeyboards(comp.keyboards)
    /\ comp = [time |-> comp.time, options |-> comp.options, keyboards |-> comp.keyboards]
    /\ changed \in [Keyboards -> Nat] /\ toasts \in [Keyboards -> Nat]
    /\ DOMAIN sockets \subseteq Sockets
    /\ \A s \in DOMAIN sockets :
          /\ sockets[s] = [asks |-> sockets[s].asks, answer |-> sockets[s].answer]
          /\ sockets[s].asks \in RefreshKinds \cup {"apply"}
          /\ sockets[s].answer # Nil => IsAnswer(sockets[s].asks, sockets[s].answer, comp.time)
    /\ current \in [RefreshKinds -> Sockets \cup {Nil}]
    /\ options \in 0..MaxTime /\ IsKeyboards(keyboards)
    /\ age \in [RefreshKinds -> 0..MaxTime] /\ lost \subseteq RefreshKinds

\* One socket at most asks for a refresh of each kind, the current one,
OneRefresh ==
    /\ \A s \in DOMAIN sockets :
          sockets[s].asks \in RefreshKinds => current[sockets[s].asks] = s
    /\ \A kind \in RefreshKinds : current[kind] # Nil =>
          current[kind] \in DOMAIN sockets /\ sockets[current[kind]].asks = kind

\* and its answer is not older than what is shown.
AnswersAreNewer ==
    /\ \A kind \in RefreshKinds : age[kind] <= comp.time
    /\ \A s \in DOMAIN sockets :
          sockets[s].asks \in RefreshKinds /\ sockets[s].answer # Nil =>
              age[sockets[s].asks] <= sockets[s].answer.time

\* How many toasts the difference of two states of a keyboard makes, at most
Gap(f, g, k) == IF k \in DOMAIN f \cap DOMAIN g /\ f[k] # g[k] THEN 2 ELSE 0

\* What was told and what is still to be told happened, by way of the answer
\* that is under way or without it.
ToastsAreCounted ==
    \A k \in Keyboards :
        /\ toasts[k] + Gap(keyboards, comp.keyboards, k) <= 2 * changed[k]
        /\ \A s \in DOMAIN sockets :
              sockets[s].asks = "devices" /\ sockets[s].answer # Nil =>
                  toasts[k] + Gap(keyboards, sockets[s].answer.data, k)
                      + Gap(sockets[s].answer.data, comp.keyboards, k) <= 2 * changed[k]

HyprInvariant == HyprTyped /\ OneRefresh /\ AnswersAreNewer /\ ToastsAreCounted

LEMMA NewSocket ==
    ASSUME NEW ss, NEW kind, \E s \in Sockets : s \notin DOMAIN ss
    PROVE  \E n \in Sockets :
              /\ n \notin DOMAIN ss
              /\ New(ss, kind) = [x \in DOMAIN ss \cup {n} |->
                                    IF x = n THEN [asks |-> kind, answer |-> Nil] ELSE ss[x]]
              /\ (CHOOSE s \in DOMAIN New(ss, kind) : s \notin DOMAIN ss) = n
    <1> DEFINE n == CHOOSE x \in Sockets : x \notin DOMAIN ss
    <1>1. n \in Sockets /\ n \notin DOMAIN ss
        OBVIOUS
    <1>2. New(ss, kind) = [x \in DOMAIN ss \cup {n} |->
                              IF x = n THEN [asks |-> kind, answer |-> Nil] ELSE ss[x]]
        BY DEF New
    <1> HIDE DEF n
    <1>3. DOMAIN New(ss, kind) = DOMAIN ss \cup {n}
        BY <1>2
    <1>4. (CHOOSE s \in DOMAIN New(ss, kind) : s \notin DOMAIN ss) = n
        BY <1>1, <1>3
    <1> QED BY <1>1, <1>2, <1>4

\* Some sockets are left out of those that were open.
Fewer(ss) ==
    /\ DOMAIN ss \subseteq DOMAIN sockets
    /\ \A s \in DOMAIN ss : ss[s] = sockets[s]

LEMMA DropIsFewer ==
    ASSUME NEW ss, NEW s
    PROVE  /\ DOMAIN Drop(ss, s) = DOMAIN ss \ {s}
           /\ \A x \in DOMAIN ss \ {s} : Drop(ss, s)[x] = ss[x]
    BY DEF Drop, Restrict

\* A refresh closes the one before it, whichever other sockets are left out.
LEMMA Refreshes ==
    ASSUME HyprInvariant, NEW ss, Fewer(ss), NEW kind \in RefreshKinds,
           \A s \in DOMAIN sockets \ DOMAIN ss : sockets[s].asks = "apply",
           StartRefresh(ss, kind),
           UNCHANGED <<comp, changed, options, keyboards, age, toasts>>
    PROVE  HyprInvariant' /\ NotOlder
    <1> DEFINE kept == Drop(ss, current[kind])
    <1>1. /\ \E s \in Sockets : s \notin DOMAIN kept
          /\ sockets' = New(kept, kind)
          /\ current' = [current EXCEPT ![kind] = CHOOSE s \in DOMAIN New(kept, kind) : s \notin DOMAIN kept]
          /\ lost' = lost \ {kind}
        BY DEF StartRefresh
    <1>2. /\ DOMAIN kept = DOMAIN ss \ {current[kind]}
          /\ \A s \in DOMAIN kept : kept[s] = sockets[s] /\ s \in DOMAIN sockets
        <2>1. /\ DOMAIN kept = DOMAIN ss \ {current[kind]}
              /\ \A s \in DOMAIN ss \ {current[kind]} : kept[s] = ss[s]
            BY DropIsFewer
        <2> QED BY <2>1 DEF Fewer
    <1> HIDE DEF kept
    <1>3. PICK n \in Sockets :
             /\ n \notin DOMAIN kept
             /\ sockets' = [x \in DOMAIN kept \cup {n} |->
                              IF x = n THEN [asks |-> kind, answer |-> Nil] ELSE kept[x]]
             /\ current' = [current EXCEPT ![kind] = n]
        <2>1. PICK n \in Sockets :
                 /\ n \notin DOMAIN kept
                 /\ New(kept, kind) = [x \in DOMAIN kept \cup {n} |->
                                  IF x = n THEN [asks |-> kind, answer |-> Nil] ELSE kept[x]]
                 /\ (CHOOSE s \in DOMAIN New(kept, kind) : s \notin DOMAIN kept) = n
            BY <1>1, NewSocket
        <2>2. current' = [current EXCEPT ![kind] = n]
            BY <1>1, <2>1
        <2> QED BY <1>1, <2>1, <2>2
    <1>4. /\ DOMAIN sockets' = DOMAIN kept \cup {n}
          /\ sockets'[n] = [asks |-> kind, answer |-> Nil]
          /\ \A s \in DOMAIN kept : sockets'[s] = sockets[s] /\ s \in DOMAIN sockets /\ s # n
        BY <1>2, <1>3
    <1>5. /\ current' \in [RefreshKinds -> Sockets \cup {Nil}] /\ current'[kind] = n
          /\ \A x \in RefreshKinds \ {kind} : current'[x] = current[x]
        BY <1>3 DEF HyprInvariant, HyprTyped
    <1>6. \A s \in DOMAIN kept : sockets[s].asks # kind
        BY <1>2 DEF HyprInvariant, OneRefresh
    <1>7. HyprTyped'
        <2>1. DOMAIN sockets' \subseteq Sockets /\ lost' \subseteq RefreshKinds
            BY <1>1, <1>3, <1>4 DEF HyprInvariant, HyprTyped
        <2>2. ASSUME NEW s \in DOMAIN sockets'
              PROVE  /\ sockets'[s] = [asks |-> sockets'[s].asks, answer |-> sockets'[s].answer]
                     /\ sockets'[s].asks \in RefreshKinds \cup {"apply"}
                     /\ sockets'[s].answer # Nil => IsAnswer(sockets'[s].asks, sockets'[s].answer, comp.time)
            <3>1. CASE s = n
                BY <1>4, <3>1
            <3>2. CASE s # n
                BY <1>4, <3>2 DEF HyprInvariant, HyprTyped, IsAnswer, IsKeyboards
            <3> QED BY <3>1, <3>2
        <2> QED BY <1>5, <2>1, <2>2 DEF HyprInvariant, HyprTyped, IsKeyboards
    <1>8. OneRefresh'
        <2>1. ASSUME NEW s \in DOMAIN sockets', sockets'[s].asks \in RefreshKinds
              PROVE  current'[sockets'[s].asks] = s
            <3>1. CASE s = n
                BY <1>4, <1>5, <3>1
            <3>2. CASE s # n
                BY <1>4, <1>5, <1>6, <2>1, <3>2 DEF HyprInvariant, OneRefresh
            <3> QED BY <3>1, <3>2
        <2>2. ASSUME NEW x \in RefreshKinds, current'[x] # Nil
              PROVE  current'[x] \in DOMAIN sockets' /\ sockets'[current'[x]].asks = x
            <3>1. CASE x = kind
                BY <1>4, <1>5, <3>1
            <3>2. CASE x # kind
                <4>1. current'[x] = current[x] /\ current[x] \in DOMAIN sockets
                      /\ sockets[current[x]].asks = x
                    BY <1>5, <2>2, <3>2 DEF HyprInvariant, OneRefresh
                <4>2. current[x] \in DOMAIN ss /\ current[x] # current[kind]
                    <5>1. x # "apply"
                        BY DEF RefreshKinds
                    <5>2. current[kind] # Nil => sockets[current[kind]].asks = kind
                        BY DEF HyprInvariant, OneRefresh
                    <5> QED BY <2>2, <3>2, <4>1, <5>1, <5>2
                <4> QED BY <1>2, <1>4, <4>1, <4>2
            <3> QED BY <3>1, <3>2
        <2> QED BY <2>1, <2>2 DEF OneRefresh
    <1>9. AnswersAreNewer' /\ ToastsAreCounted'
        BY <1>4 DEF HyprInvariant, AnswersAreNewer, ToastsAreCounted
    <1>10. NotOlder
        BY DEF NotOlder, HyprInvariant, HyprTyped
    <1> QED BY <1>7, <1>8, <1>9, <1>10 DEF HyprInvariant

\* The compositor moves on; what changed of a keyboard is counted.
LEMMA CompositorMoves ==
    ASSUME HyprInvariant,
           comp' = [time |-> comp'.time, options |-> comp'.options, keyboards |-> comp'.keyboards],
           comp'.time \in 1..MaxTime, comp.time <= comp'.time, comp'.options \in 0..MaxTime,
           IsKeyboards(comp'.keyboards), changed' \in [Keyboards -> Nat],
           \A k \in Keyboards :
              \/ /\ changed'[k] = changed[k]
                 /\ \A f : Gap(f, comp'.keyboards, k) = Gap(f, comp.keyboards, k)
              \/ changed'[k] = changed[k] + 1,
           UNCHANGED <<sockets, shell>>
    PROVE  HyprInvariant' /\ NotOlder
    <1>1. UNCHANGED <<sockets, current, options, keyboards, age, toasts, lost>>
        BY DEF shell
    <1>2. HyprTyped'
        <2>1. \A s \in DOMAIN sockets : sockets[s].answer # Nil =>
                 IsAnswer(sockets[s].asks, sockets[s].answer, comp'.time)
            BY DEF HyprInvariant, HyprTyped, IsAnswer
        <2> QED BY <1>1, <2>1 DEF HyprInvariant, HyprTyped, IsKeyboards
    <1>3. OneRefresh'
        BY <1>1 DEF HyprInvariant, OneRefresh
    <1>4. AnswersAreNewer'
        <2>1. \A kind \in RefreshKinds : age[kind] <= comp'.time
            BY DEF HyprInvariant, HyprTyped, AnswersAreNewer
        <2> QED BY <1>1, <2>1 DEF HyprInvariant, AnswersAreNewer
    <1>5. ToastsAreCounted'
        <2>1. ASSUME NEW k \in Keyboards
              PROVE  /\ toasts[k] + Gap(keyboards, comp'.keyboards, k) <= 2 * changed'[k]
                     /\ \A s \in DOMAIN sockets :
                           sockets[s].asks = "devices" /\ sockets[s].answer # Nil =>
                               toasts[k] + Gap(keyboards, sockets[s].answer.data, k)
                                  + Gap(sockets[s].answer.data, comp'.keyboards, k) <= 2 * changed'[k]
            <3>1. /\ toasts[k] + Gap(keyboards, comp.keyboards, k) <= 2 * changed[k]
                  /\ \A s \in DOMAIN sockets :
                        sockets[s].asks = "devices" /\ sockets[s].answer # Nil =>
                            toasts[k] + Gap(keyboards, sockets[s].answer.data, k)
                               + Gap(sockets[s].answer.data, comp.keyboards, k) <= 2 * changed[k]
                BY DEF HyprInvariant, ToastsAreCounted
            <3>2. toasts[k] \in Nat /\ changed[k] \in Nat /\ changed'[k] \in Nat
                BY DEF HyprInvariant, HyprTyped
            <3>3. \A f, g : Gap(f, g, k) \in {0, 2}
                BY DEF Gap
            <3>4. CASE \A f : Gap(f, comp'.keyboards, k) = Gap(f, comp.keyboards, k)
                <4>1. changed[k] <= changed'[k]
                    BY <3>2
                <4>2. Gap(keyboards, comp'.keyboards, k) = Gap(keyboards, comp.keyboards, k)
                    BY <3>4
                <4>3. \A s : Gap(sockets[s].answer.data, comp'.keyboards, k)
                                = Gap(sockets[s].answer.data, comp.keyboards, k)
                    BY <3>4
                <4> HIDE <3>4
                <4> QED BY <3>1, <3>2, <3>3, <4>1, <4>2, <4>3
            <3>5. CASE changed'[k] = changed[k] + 1
                BY <3>1, <3>2, <3>3, <3>5
            <3> QED BY <3>4, <3>5
        <2> QED BY <1>1, <2>1 DEF ToastsAreCounted
    <1>6. NotOlder
        BY <1>1 DEF NotOlder, HyprInvariant, HyprTyped
    <1> QED BY <1>2, <1>3, <1>4, <1>5, <1>6 DEF HyprInvariant

LEMMA TimeFits ==
    ASSUME HyprInvariant, comp.time < MaxTime
    PROVE  /\ comp.time + 1 \in 1..MaxTime /\ comp.time + 1 \in 0..MaxTime
           /\ comp.time <= comp.time + 1 /\ comp.options \in 0..MaxTime
    <1>1. comp.time \in 1..MaxTime /\ MaxTime \in Nat /\ comp.options \in 0..MaxTime
        BY HyprExtrasAssumption DEF HyprInvariant, HyprTyped
    <1> QED BY <1>1

LEMMA ConfigReloads ==
    ASSUME HyprInvariant, ConfigReloaded
    PROVE  HyprInvariant' /\ NotOlder
    <1>1. /\ comp' = [comp EXCEPT !.options = comp.time + 1, !.time = comp.time + 1]
          /\ comp.time < MaxTime /\ changed' = changed /\ UNCHANGED <<sockets, shell>>
        BY DEF ConfigReloaded, Change, HyprInvariant, HyprTyped
    <1>2. comp' = [time |-> comp.time + 1, options |-> comp.time + 1, keyboards |-> comp.keyboards]
        BY <1>1 DEF HyprInvariant, HyprTyped
    <1>3. /\ comp'.time = comp.time + 1 /\ comp'.options = comp.time + 1
          /\ comp'.keyboards = comp.keyboards
          /\ comp' = [time |-> comp'.time, options |-> comp'.options, keyboards |-> comp'.keyboards]
        BY <1>2
    <1>4. /\ comp'.time \in 1..MaxTime /\ comp.time <= comp'.time /\ comp'.options \in 0..MaxTime
          /\ IsKeyboards(comp'.keyboards) /\ changed' \in [Keyboards -> Nat]
        BY <1>1, <1>3, TimeFits DEF HyprInvariant, HyprTyped
    <1> QED BY <1>1, <1>3, <1>4, CompositorMoves

LEMMA KeyboardIsUnplugged ==
    ASSUME HyprInvariant, NEW k \in Keyboards, Unplug(k)
    PROVE  HyprInvariant' /\ NotOlder
    <1>1. /\ comp' = [comp EXCEPT !.keyboards = Drop(comp.keyboards, k), !.time = comp.time + 1]
          /\ comp.time < MaxTime /\ changed' = [changed EXCEPT ![k] = @ + 1]
          /\ UNCHANGED <<sockets, shell>>
        BY DEF Unplug, Change, HyprInvariant, HyprTyped
    <1>2. comp' = [time |-> comp.time + 1, options |-> comp.options,
                   keyboards |-> Drop(comp.keyboards, k)]
        BY <1>1 DEF HyprInvariant, HyprTyped
    <1>3. IsKeyboards(comp'.keyboards)
        BY <1>2, DropIsFewer DEF HyprInvariant, HyprTyped, IsKeyboards, Drop, Restrict
    <1>4. \A x \in Keyboards \ {k} : \A f :
             Gap(f, comp'.keyboards, x) = Gap(f, comp.keyboards, x)
        <2>1. comp'.keyboards = Drop(comp.keyboards, k)
            BY <1>2
        <2>2. /\ DOMAIN comp'.keyboards = DOMAIN comp.keyboards \ {k}
              /\ \A x \in DOMAIN comp.keyboards \ {k} : comp'.keyboards[x] = comp.keyboards[x]
            <3>1. /\ DOMAIN Drop(comp.keyboards, k) = DOMAIN comp.keyboards \ {k}
                  /\ \A x \in DOMAIN comp.keyboards \ {k} :
                        Drop(comp.keyboards, k)[x] = comp.keyboards[x]
                BY DropIsFewer
            <3> HIDE DEF Drop
            <3> QED BY <2>1, <3>1
        <2> QED BY <2>2 DEF Gap
    <1>5. /\ changed' \in [Keyboards -> Nat] /\ changed'[k] = changed[k] + 1
          /\ \A x \in Keyboards \ {k} : changed'[x] = changed[x]
        BY <1>1 DEF HyprInvariant, HyprTyped
    <1>6. \A x \in Keyboards :
              \/ /\ changed'[x] = changed[x]
                 /\ \A f : Gap(f, comp'.keyboards, x) = Gap(f, comp.keyboards, x)
              \/ changed'[x] = changed[x] + 1
        BY <1>4, <1>5
    <1>7. /\ comp'.time \in 1..MaxTime /\ comp.time <= comp'.time /\ comp'.options \in 0..MaxTime
          /\ comp' = [time |-> comp'.time, options |-> comp'.options, keyboards |-> comp'.keyboards]
        <2>1. /\ comp'.time = comp.time + 1 /\ comp'.options = comp.options
              /\ comp'.keyboards = Drop(comp.keyboards, k)
            BY <1>2
        <2> QED BY <1>1, <1>2, <2>1, TimeFits
    <1> QED BY <1>1, <1>3, <1>5, <1>6, <1>7, CompositorMoves

LEMMA KeyboardMoves ==
    ASSUME HyprInvariant, NEW k \in Keyboards, NEW state, KeyboardChanges(k, state)
    PROVE  HyprInvariant' /\ NotOlder
    <1> DEFINE new == [x \in DOMAIN comp.keyboards \cup {k} |->
                          IF x = k THEN state ELSE comp.keyboards[x]]
    <1>1. /\ comp' = [comp EXCEPT !.keyboards = new, !.time = comp.time + 1]
          /\ comp.time < MaxTime /\ changed' = [changed EXCEPT ![k] = @ + 1]
          /\ UNCHANGED <<sockets, shell>>
        BY DEF KeyboardChanges, Change, HyprInvariant, HyprTyped
    <1>2. comp' = [time |-> comp.time + 1, options |-> comp.options, keyboards |-> new]
        BY <1>1 DEF HyprInvariant, HyprTyped
    <1>3. /\ DOMAIN new = DOMAIN comp.keyboards \cup {k}
          /\ \A x \in DOMAIN comp.keyboards \ {k} : new[x] = comp.keyboards[x]
          /\ new = [x \in DOMAIN new |-> new[x]]
        OBVIOUS
    <1> HIDE DEF new
    <1>4. IsKeyboards(comp'.keyboards)
        BY <1>2, <1>3 DEF HyprInvariant, HyprTyped, IsKeyboards
    <1>5. \A x \in Keyboards \ {k} : \A f :
             Gap(f, comp'.keyboards, x) = Gap(f, comp.keyboards, x)
        BY <1>2, <1>3 DEF Gap
    <1>6. /\ changed' \in [Keyboards -> Nat] /\ changed'[k] = changed[k] + 1
          /\ \A x \in Keyboards \ {k} : changed'[x] = changed[x]
        BY <1>1 DEF HyprInvariant, HyprTyped
    <1>7. \A x \in Keyboards :
              \/ /\ changed'[x] = changed[x]
                 /\ \A f : Gap(f, comp'.keyboards, x) = Gap(f, comp.keyboards, x)
              \/ changed'[x] = changed[x] + 1
        BY <1>5, <1>6
    <1>8. /\ comp'.time \in 1..MaxTime /\ comp.time <= comp'.time /\ comp'.options \in 0..MaxTime
          /\ comp' = [time |-> comp'.time, options |-> comp'.options, keyboards |-> comp'.keyboards]
        <2>1. /\ comp'.time = comp.time + 1 /\ comp'.options = comp.options
              /\ comp'.keyboards = new
            BY <1>2
        <2> QED BY <1>1, <1>2, <2>1, TimeFits
    <1> QED BY <1>1, <1>4, <1>6, <1>7, <1>8, CompositorMoves

\* A request is answered as things are.
LEMMA Responds ==
    ASSUME HyprInvariant, NEW s \in Sockets, Respond(s)
    PROVE  HyprInvariant' /\ NotOlder
    <1> DEFINE data == IF sockets[s].asks = "devices" THEN comp.keyboards ELSE comp'.options
    <1>1. /\ s \in DOMAIN sockets
          /\ comp' = IF sockets[s].asks = "apply" /\ comp.time < MaxTime
                     THEN [comp EXCEPT !.time = comp.time + 1, !.options = comp.time + 1] ELSE comp
          /\ sockets' = [sockets EXCEPT ![s].answer = [time |-> comp'.time, data |-> data]]
          /\ UNCHANGED <<changed, events, current, options, keyboards, age, toasts, lost>>
        BY DEF Respond, shell, HyprInvariant, HyprTyped
    <1>2. /\ comp'.time \in 1..MaxTime /\ comp.time <= comp'.time /\ comp'.options \in 0..MaxTime
          /\ comp'.keyboards = comp.keyboards
          /\ comp' = [time |-> comp'.time, options |-> comp'.options, keyboards |-> comp'.keyboards]
        <2>1. CASE sockets[s].asks = "apply" /\ comp.time < MaxTime
            <3>1. comp' = [time |-> comp.time + 1, options |-> comp.time + 1,
                           keyboards |-> comp.keyboards]
                BY <1>1, <2>1 DEF HyprInvariant, HyprTyped
            <3>2. /\ comp'.time = comp.time + 1 /\ comp'.options = comp.time + 1
                  /\ comp'.keyboards = comp.keyboards
                BY <3>1
            <3> QED BY <2>1, <3>1, <3>2, TimeFits
        <2>2. CASE ~(sockets[s].asks = "apply" /\ comp.time < MaxTime)
            <3>1. comp' = comp
                BY <1>1, <2>2
            <3> QED BY <3>1 DEF HyprInvariant, HyprTyped
        <2> QED BY <2>1, <2>2
    <1>3. /\ DOMAIN sockets' = DOMAIN sockets
          /\ sockets'[s] = [asks |-> sockets[s].asks, answer |-> [time |-> comp'.time, data |-> data]]
          /\ \A x \in DOMAIN sockets \ {s} : sockets'[x] = sockets[x]
          /\ \A x \in DOMAIN sockets : sockets'[x].asks = sockets[x].asks
        BY <1>1 DEF HyprInvariant, HyprTyped
    <1>4. HyprTyped'
        <2>1. ASSUME NEW x \in DOMAIN sockets'
              PROVE  /\ sockets'[x] = [asks |-> sockets'[x].asks, answer |-> sockets'[x].answer]
                     /\ sockets'[x].asks \in RefreshKinds \cup {"apply"}
                     /\ sockets'[x].answer # Nil =>
                           IsAnswer(sockets'[x].asks, sockets'[x].answer, comp'.time)
            <3>1. CASE x = s
                <4>1. IsAnswer(sockets[s].asks, [time |-> comp'.time, data |-> data], comp'.time)
                    BY <1>2 DEF HyprInvariant, HyprTyped, IsAnswer
                <4> HIDE DEF data
                <4> QED BY <1>1, <1>3, <3>1, <4>1 DEF HyprInvariant, HyprTyped
            <3>2. CASE x # s
                BY <1>2, <1>3, <3>2 DEF HyprInvariant, HyprTyped, IsAnswer
            <3> QED BY <3>1, <3>2
        <2> QED BY <1>1, <1>2, <1>3, <2>1 DEF HyprInvariant, HyprTyped, IsKeyboards
    <1>5. OneRefresh'
        BY <1>1, <1>3 DEF HyprInvariant, OneRefresh
    <1>6. AnswersAreNewer'
        <2>1. \A kind \in RefreshKinds : age[kind] <= comp'.time
            BY <1>2 DEF HyprInvariant, HyprTyped, AnswersAreNewer
        <2>2. ASSUME NEW x \in DOMAIN sockets', sockets'[x].asks \in RefreshKinds,
                     sockets'[x].answer # Nil
              PROVE  age[sockets'[x].asks] <= sockets'[x].answer.time
            <3>1. CASE x = s
                BY <1>3, <2>1, <2>2, <3>1
            <3>2. CASE x # s
                BY <1>3, <2>2, <3>2 DEF HyprInvariant, AnswersAreNewer
            <3> QED BY <3>1, <3>2
        <2> QED BY <1>1, <2>1, <2>2 DEF AnswersAreNewer
    <1>7. ToastsAreCounted'
        <2>1. ASSUME NEW k \in Keyboards, NEW x \in DOMAIN sockets',
                     sockets'[x].asks = "devices", sockets'[x].answer # Nil
              PROVE  toasts[k] + Gap(keyboards, sockets'[x].answer.data, k)
                        + Gap(sockets'[x].answer.data, comp.keyboards, k) <= 2 * changed[k]
            <3>1. CASE x = s
                <4>1. sockets'[x].answer.data = comp.keyboards
                    BY <1>3, <2>1, <3>1
                <4>2. Gap(comp.keyboards, comp.keyboards, k) = 0 /\ toasts[k] \in Nat
                      /\ Gap(keyboards, comp.keyboards, k) \in Nat
                    BY DEF Gap, HyprInvariant, HyprTyped
                <4> QED BY <4>1, <4>2 DEF HyprInvariant, ToastsAreCounted
            <3>2. CASE x # s
                BY <1>3, <2>1, <3>2 DEF HyprInvariant, ToastsAreCounted
            <3> QED BY <3>1, <3>2
        <2> QED BY <1>1, <1>2, <2>1 DEF HyprInvariant, ToastsAreCounted
    <1>8. NotOlder
        BY <1>1 DEF NotOlder, HyprInvariant, HyprTyped
    <1> QED BY <1>4, <1>5, <1>6, <1>7, <1>8 DEF HyprInvariant

\* A socket is closed, and with it the refresh it asked for.
LEMMA Closes ==
    ASSUME HyprInvariant, NEW s \in DOMAIN sockets, sockets' = Drop(sockets, s),
           current' = IF sockets[s].asks \in RefreshKinds
                      THEN [current EXCEPT ![sockets[s].asks] = Nil] ELSE current,
           lost' \subseteq RefreshKinds, UNCHANGED <<comp, changed>>,
           options' \in 0..MaxTime, IsKeyboards(keyboards'),
           toasts' \in [Keyboards -> Nat], age' \in [RefreshKinds -> 0..MaxTime]
    PROVE  /\ HyprTyped' /\ OneRefresh'
           /\ DOMAIN sockets' \subseteq DOMAIN sockets
           /\ \A x \in DOMAIN sockets' : /\ sockets'[x] = sockets[x]
                                         /\ sockets[s].asks \in RefreshKinds =>
                                              sockets[x].asks # sockets[s].asks
    <1>1. /\ DOMAIN sockets' = DOMAIN sockets \ {s}
          /\ \A x \in DOMAIN sockets \ {s} : sockets'[x] = sockets[x]
        BY DropIsFewer
    <1>2. \A x \in DOMAIN sockets' :
             sockets[s].asks \in RefreshKinds => sockets[x].asks # sockets[s].asks
        BY <1>1 DEF HyprInvariant, OneRefresh
    <1>3. /\ current' \in [RefreshKinds -> Sockets \cup {Nil}]
          /\ \A kind \in RefreshKinds :
                current'[kind] = IF sockets[s].asks = kind THEN Nil ELSE current[kind]
        BY DEF HyprInvariant, HyprTyped
    <1>4. HyprTyped'
        BY <1>1, <1>3 DEF HyprInvariant, HyprTyped, IsKeyboards
    <1>5. OneRefresh'
        BY <1>1, <1>2, <1>3 DEF HyprInvariant, OneRefresh
    <1> QED BY <1>1, <1>2, <1>4, <1>5

LEMMA Fails ==
    ASSUME HyprInvariant, NEW s \in Sockets, Fail(s)
    PROVE  HyprInvariant' /\ NotOlder
    <1>1. /\ s \in DOMAIN sockets /\ sockets' = Drop(sockets, s)
          /\ UNCHANGED <<comp, changed, events, options, keyboards, age, toasts>>
        BY DEF Fail
    <1>2. /\ current' = IF sockets[s].asks \in RefreshKinds
                        THEN [current EXCEPT ![sockets[s].asks] = Nil] ELSE current
          /\ lost' \subseteq RefreshKinds
        <2>1. sockets[s].asks \in RefreshKinds \cup {"apply"} /\ lost \subseteq RefreshKinds
            BY <1>1 DEF HyprInvariant, HyprTyped
        <2>2. CASE sockets[s].asks = "apply"
            BY <2>1, <2>2 DEF Fail, RefreshKinds
        <2>3. CASE sockets[s].asks # "apply"
            BY <2>1, <2>3 DEF Fail, Done
        <2> QED BY <2>2, <2>3
    <1>3. /\ options' \in 0..MaxTime /\ IsKeyboards(keyboards')
          /\ toasts' \in [Keyboards -> Nat] /\ age' \in [RefreshKinds -> 0..MaxTime]
        BY <1>1 DEF HyprInvariant, HyprTyped
    <1>4. /\ HyprTyped' /\ OneRefresh' /\ DOMAIN sockets' \subseteq DOMAIN sockets
          /\ \A x \in DOMAIN sockets' : sockets'[x] = sockets[x]
        BY <1>1, <1>2, <1>3, Closes
    <1>5. AnswersAreNewer' /\ ToastsAreCounted'
        BY <1>1, <1>4 DEF HyprInvariant, AnswersAreNewer, ToastsAreCounted
    <1>6. NotOlder
        BY <1>1 DEF NotOlder, HyprInvariant, HyprTyped
    <1> QED BY <1>4, <1>5, <1>6 DEF HyprInvariant

LEMMA OptionsAreAnswered ==
    ASSUME HyprInvariant, NEW s \in Sockets, NEW whole \in BOOLEAN, Answer(s, whole),
           sockets[s].asks = "options"
    PROVE  HyprInvariant' /\ NotOlder
    <1>1. /\ s \in DOMAIN sockets /\ sockets[s].answer # Nil
          /\ sockets' = Drop(sockets, s) /\ current' = [current EXCEPT !["options"] = Nil]
          /\ UNCHANGED <<comp, changed, events, keyboards, toasts>>
          /\ IF whole
             THEN /\ options' = sockets[s].answer.data
                  /\ age' = [age EXCEPT !["options"] = sockets[s].answer.time] /\ UNCHANGED lost
             ELSE lost' = lost \cup {"options"} /\ UNCHANGED <<options, age>>
        BY DEF Answer, Done
    <1>2. /\ "options" \in RefreshKinds /\ MaxTime \in Nat /\ comp.time \in 1..MaxTime
          /\ sockets[s].answer.time \in 1..comp.time /\ sockets[s].answer.data \in 0..MaxTime
          /\ age["options"] <= sockets[s].answer.time /\ age \in [RefreshKinds -> 0..MaxTime]
          /\ \A kind \in RefreshKinds : age[kind] <= comp.time
          /\ options \in 0..MaxTime /\ lost \subseteq RefreshKinds
        BY <1>1, HyprExtrasAssumption
        DEF HyprInvariant, HyprTyped, AnswersAreNewer, IsAnswer, RefreshKinds
    <1>3. /\ age' \in [RefreshKinds -> 0..MaxTime]
          /\ \A kind \in RefreshKinds : age[kind] <= age'[kind] /\ age'[kind] <= comp.time
          /\ \A kind \in RefreshKinds \ {"options"} : age'[kind] = age[kind]
        <2>1. CASE whole
            BY <1>1, <1>2, <2>1
        <2>2. CASE ~whole
            BY <1>1, <1>2, <2>2
        <2> QED BY <2>1, <2>2
    <1>4. /\ options' \in 0..MaxTime /\ lost' \subseteq RefreshKinds
          /\ IsKeyboards(keyboards') /\ toasts' \in [Keyboards -> Nat]
        BY <1>1, <1>2 DEF HyprInvariant, HyprTyped
    <1>5. /\ HyprTyped' /\ OneRefresh' /\ DOMAIN sockets' \subseteq DOMAIN sockets
          /\ \A x \in DOMAIN sockets' :
                sockets'[x] = sockets[x] /\ sockets[x].asks # "options"
        <2>1. /\ s \in DOMAIN sockets /\ sockets' = Drop(sockets, s)
              /\ UNCHANGED <<comp, changed>>
              /\ current' = IF sockets[s].asks \in RefreshKinds
                            THEN [current EXCEPT ![sockets[s].asks] = Nil] ELSE current
            BY <1>1, <1>2
        <2>2. /\ HyprTyped' /\ OneRefresh'
              /\ DOMAIN sockets' \subseteq DOMAIN sockets
              /\ \A x \in DOMAIN sockets' : /\ sockets'[x] = sockets[x]
                                            /\ sockets[s].asks \in RefreshKinds =>
                                                 sockets[x].asks # sockets[s].asks
            BY <2>1, <1>3, <1>4, Closes
        <2> QED BY <2>2, <1>2
    <1>6. AnswersAreNewer' /\ ToastsAreCounted'
        BY <1>1, <1>3, <1>5 DEF HyprInvariant, AnswersAreNewer, ToastsAreCounted
    <1>7. NotOlder
        BY <1>2, <1>3 DEF NotOlder
    <1> QED BY <1>5, <1>6, <1>7 DEF HyprInvariant

\* The toasts of a keyboard are those of the difference it makes.
LEMMA ToastsAreShown ==
    ASSUME HyprInvariant, NEW new, ShowKeyboards(new)
    PROVE  /\ toasts' \in [Keyboards -> Nat]
           /\ \A k \in Keyboards : toasts'[k] <= toasts[k] + Gap(keyboards, new, k)
    <1>1. toasts \in [Keyboards -> Nat]
        BY DEF HyprInvariant, HyprTyped
    <1>2. \A f, g : Toasted(f, g) \in 0..2
        BY DEF Toasted
    <1>3. \A f, g : f = g => Toasted(f, g) = 0
        BY DEF Toasted
    <1>4. ASSUME NEW k \in Keyboards
          PROVE  toasts'[k] \in Nat /\ toasts'[k] <= toasts[k] + Gap(keyboards, new, k)
        <2>1. toasts'[k] = IF k \notin DOMAIN new \cap DOMAIN keyboards THEN toasts[k]
                           ELSE toasts[k] + Toasted(keyboards[k], new[k])
            BY DEF ShowKeyboards
        <2>2. CASE k \notin DOMAIN new \cap DOMAIN keyboards
            BY <1>1, <2>1, <2>2 DEF Gap
        <2>3. CASE k \in DOMAIN new \cap DOMAIN keyboards
            <3>1. CASE keyboards[k] = new[k]
                BY <1>1, <1>3, <2>1, <2>3, <3>1 DEF Gap
            <3>2. CASE keyboards[k] # new[k]
                <4>1. Gap(keyboards, new, k) = 2
                    BY <2>3, <3>2 DEF Gap
                <4>2. Toasted(keyboards[k], new[k]) \in 0..2 /\ toasts[k] \in Nat
                    BY <1>1, <1>2
                <4> QED BY <2>1, <2>3, <4>1, <4>2
            <3> QED BY <3>1, <3>2
        <2> QED BY <2>2, <2>3
    <1> QED BY <1>4 DEF ShowKeyboards

LEMMA KeyboardsAreAnswered ==
    ASSUME HyprInvariant, NEW s \in Sockets, NEW whole \in BOOLEAN, Answer(s, whole),
           sockets[s].asks = "devices"
    PROVE  HyprInvariant' /\ NotOlder
    <1> DEFINE new == IF whole THEN sockets[s].answer.data ELSE Restrict(sockets[s].answer.data, {})
    <1>1. /\ s \in DOMAIN sockets /\ sockets[s].answer # Nil
          /\ sockets' = Drop(sockets, s) /\ current' = [current EXCEPT !["devices"] = Nil]
          /\ UNCHANGED <<comp, changed, events, options>>
          /\ ShowKeyboards(new) /\ keyboards' = new
          /\ age' = [age EXCEPT !["devices"] = IF whole THEN sockets[s].answer.time ELSE @]
          /\ lost' = IF whole THEN lost ELSE lost \cup {"devices"}
        BY DEF Answer, Done, ShowKeyboards
    <1>2. /\ "devices" \in RefreshKinds /\ MaxTime \in Nat /\ comp.time \in 1..MaxTime
          /\ sockets[s].answer.time \in 1..comp.time /\ IsKeyboards(sockets[s].answer.data)
          /\ age["devices"] <= sockets[s].answer.time /\ age \in [RefreshKinds -> 0..MaxTime]
          /\ \A kind \in RefreshKinds : age[kind] <= comp.time
          /\ options \in 0..MaxTime /\ lost \subseteq RefreshKinds
        BY <1>1, HyprExtrasAssumption
        DEF HyprInvariant, HyprTyped, AnswersAreNewer, IsAnswer, RefreshKinds
    <1>3. /\ age' \in [RefreshKinds -> 0..MaxTime]
          /\ \A kind \in RefreshKinds : age[kind] <= age'[kind] /\ age'[kind] <= comp.time
          /\ \A kind \in RefreshKinds \ {"devices"} : age'[kind] = age[kind]
        <2>1. CASE whole
            BY <1>1, <1>2, <2>1
        <2>2. CASE ~whole
            BY <1>1, <1>2, <2>2
        <2> QED BY <2>1, <2>2
    <1>4. IsKeyboards(new)
        BY <1>2 DEF IsKeyboards, Restrict
    <1>5. whole \/ DOMAIN new = {}
        BY DEF Restrict
    <1>6. whole => new = sockets[s].answer.data
        OBVIOUS
    <1> HIDE DEF new
    <1>7. /\ toasts' \in [Keyboards -> Nat]
          /\ \A k \in Keyboards : toasts'[k] <= toasts[k] + Gap(keyboards, new, k)
        BY <1>1, ToastsAreShown
    <1>8. /\ options' \in 0..MaxTime /\ lost' \subseteq RefreshKinds /\ IsKeyboards(keyboards')
        BY <1>1, <1>2, <1>4
    <1>9. /\ HyprTyped' /\ OneRefresh' /\ DOMAIN sockets' \subseteq DOMAIN sockets
          /\ \A x \in DOMAIN sockets' :
                sockets'[x] = sockets[x] /\ sockets[x].asks # "devices"
        <2>1. /\ s \in DOMAIN sockets /\ sockets' = Drop(sockets, s)
              /\ UNCHANGED <<comp, changed>>
              /\ current' = IF sockets[s].asks \in RefreshKinds
                            THEN [current EXCEPT ![sockets[s].asks] = Nil] ELSE current
            BY <1>1, <1>2
        <2>2. /\ HyprTyped' /\ OneRefresh'
              /\ DOMAIN sockets' \subseteq DOMAIN sockets
              /\ \A x \in DOMAIN sockets' : /\ sockets'[x] = sockets[x]
                                            /\ sockets[s].asks \in RefreshKinds =>
                                                 sockets[x].asks # sockets[s].asks
            BY <2>1, <1>3, <1>7, <1>8, Closes
        <2> QED BY <2>2, <1>2
    <1>10. AnswersAreNewer'
        BY <1>1, <1>3, <1>9 DEF HyprInvariant, AnswersAreNewer
    <1>11. ASSUME NEW k \in Keyboards
           PROVE  toasts'[k] + Gap(keyboards', comp.keyboards, k) <= 2 * changed[k]
        <2>1. /\ toasts[k] \in Nat /\ toasts'[k] \in Nat /\ changed[k] \in Nat
              /\ \A f, g : Gap(f, g, k) \in {0, 2}
            BY <1>7 DEF Gap, HyprInvariant, HyprTyped
        <2>2. toasts'[k] <= toasts[k] + Gap(keyboards, new, k)
            BY <1>7
        <2>3. CASE whole
            <3>1. toasts[k] + Gap(keyboards, new, k) + Gap(new, comp.keyboards, k)
                     <= 2 * changed[k]
                BY <1>1, <1>6, <2>3 DEF HyprInvariant, ToastsAreCounted
            <3> QED BY <1>1, <2>1, <2>2, <3>1
        <2>4. CASE ~whole
            <3>1. Gap(keyboards, new, k) = 0 /\ Gap(new, comp.keyboards, k) = 0
                BY <1>5, <2>4 DEF Gap
            <3>2. toasts[k] + Gap(keyboards, comp.keyboards, k) <= 2 * changed[k]
                BY DEF HyprInvariant, ToastsAreCounted
            <3> QED BY <1>1, <2>1, <2>2, <3>1, <3>2
        <2> QED BY <2>3, <2>4
    <1>12. ToastsAreCounted'
        BY <1>1, <1>9, <1>11 DEF ToastsAreCounted
    <1>13. NotOlder
        BY <1>2, <1>3 DEF NotOlder
    <1> QED BY <1>9, <1>10, <1>12, <1>13 DEF HyprInvariant

\* Options that are set ask for a refresh of their own when they are answered.
LEMMA SettingIsAnswered ==
    ASSUME HyprInvariant, NEW s \in Sockets, NEW whole \in BOOLEAN, Answer(s, whole),
           sockets[s].asks = "apply"
    PROVE  HyprInvariant' /\ NotOlder
    <1>1. /\ s \in DOMAIN sockets /\ StartRefresh(Drop(sockets, s), "options")
          /\ UNCHANGED <<comp, changed, events, options, keyboards, age, toasts>>
        BY DEF Answer
    <1>2. /\ DOMAIN Drop(sockets, s) = DOMAIN sockets \ {s}
          /\ \A x \in DOMAIN sockets \ {s} : Drop(sockets, s)[x] = sockets[x]
        BY DropIsFewer
    <1>3. Fewer(Drop(sockets, s)) /\ "options" \in RefreshKinds
        BY <1>2 DEF Fewer, RefreshKinds
    <1>4. \A x \in DOMAIN sockets \ DOMAIN Drop(sockets, s) : sockets[x].asks = "apply"
        BY <1>2
    <1> HIDE DEF Drop
    <1> QED BY <1>1, <1>3, <1>4, Refreshes

LEMMA ShellAsks ==
    ASSUME HyprInvariant, UserRefreshes \/ ReadEvent
    PROVE  HyprInvariant' /\ NotOlder
    <1>1. PICK kind \in RefreshKinds :
             /\ StartRefresh(sockets, kind)
             /\ UNCHANGED <<comp, changed, options, keyboards, age, toasts>>
        BY DEF UserRefreshes, UserRefresh, ReadEvent, RefreshKinds
    <1>2. Fewer(sockets)
        BY DEF Fewer
    <1> QED BY <1>1, <1>2, Refreshes

LEMMA OptionsAreSet ==
    ASSUME HyprInvariant, ApplyOptions
    PROVE  HyprInvariant' /\ NotOlder
    <1>1. /\ \E x \in Sockets : x \notin DOMAIN sockets
          /\ sockets' = New(sockets, "apply")
          /\ UNCHANGED <<comp, changed, events, current, options, keyboards, age, toasts, lost>>
        BY DEF ApplyOptions, Free, shell
    <1>2. PICK n \in Sockets :
             /\ n \notin DOMAIN sockets
             /\ New(sockets, "apply") =
                   [x \in DOMAIN sockets \cup {n} |->
                       IF x = n THEN [asks |-> "apply", answer |-> Nil] ELSE sockets[x]]
        <2>1. \E x \in Sockets : x \notin DOMAIN sockets
            BY <1>1
        <2>2. \E n \in Sockets :
                 /\ n \notin DOMAIN sockets
                 /\ New(sockets, "apply") =
                       [x \in DOMAIN sockets \cup {n} |->
                           IF x = n THEN [asks |-> "apply", answer |-> Nil] ELSE sockets[x]]
                 /\ (CHOOSE s \in DOMAIN New(sockets, "apply") : s \notin DOMAIN sockets) = n
            BY <2>1, NewSocket
        <2> QED BY <2>2
    <1>3. /\ DOMAIN sockets' = DOMAIN sockets \cup {n}
          /\ sockets'[n] = [asks |-> "apply", answer |-> Nil]
          /\ \A x \in DOMAIN sockets : sockets'[x] = sockets[x]
        BY <1>1, <1>2
    <1>4. "apply" \notin RefreshKinds
        BY DEF RefreshKinds
    <1>5. HyprTyped'
        BY <1>1, <1>3 DEF HyprInvariant, HyprTyped, IsKeyboards
    <1>6. OneRefresh' /\ AnswersAreNewer' /\ ToastsAreCounted'
        BY <1>1, <1>3, <1>4 DEF HyprInvariant, OneRefresh, AnswersAreNewer, ToastsAreCounted
    <1>7. NotOlder
        BY <1>1 DEF NotOlder, HyprInvariant, HyprTyped
    <1> QED BY <1>5, <1>6, <1>7 DEF HyprInvariant

LEMMA HyprStarts == HyprInit => HyprInvariant
    <1> SUFFICES ASSUME HyprInit PROVE HyprInvariant
        OBVIOUS
    <1>0. PICK ks \in SUBSET Keyboards : \E st \in [ks -> KeyboardStates] :
             comp = [time |-> 1, options |-> 1, keyboards |-> st]
        BY DEF HyprInit
    <1>1. PICK st \in [ks -> KeyboardStates] :
             comp = [time |-> 1, options |-> 1, keyboards |-> st]
        BY <1>0
    <1>2. /\ sockets = [s \in {1, 2} |-> [asks |-> IF s = 1 THEN "options" ELSE "devices",
                                          answer |-> Nil]]
          /\ current = [k \in RefreshKinds |-> IF k = "options" THEN 1 ELSE 2]
        BY DEF HyprInit
    <1>3. IsKeyboards(comp.keyboards) /\ IsKeyboards(keyboards) /\ DOMAIN keyboards = {}
        BY <1>1 DEF HyprInit, IsKeyboards, Restrict
    <1>4. HyprTyped
        BY <1>1, <1>2, <1>3, HyprExtrasAssumption DEF HyprInit, HyprTyped, RefreshKinds
    <1>5. OneRefresh
        BY <1>2, HyprExtrasAssumption DEF OneRefresh, RefreshKinds
    <1>6. AnswersAreNewer
        BY <1>1, <1>2 DEF HyprInit, AnswersAreNewer, RefreshKinds
    <1>7. ToastsAreCounted
        BY <1>2, <1>3 DEF HyprInit, ToastsAreCounted, Gap
    <1> QED BY <1>4, <1>5, <1>6, <1>7 DEF HyprInvariant

LEMMA HyprSteps ==
    HyprInvariant /\ [HyprNext]_hyprVars => HyprInvariant' /\ [NotOlder]_hyprVars
    <1> SUFFICES ASSUME HyprInvariant, [HyprNext]_hyprVars
                 PROVE  HyprInvariant' /\ [NotOlder]_hyprVars
        OBVIOUS
    <1>1. CASE ConfigReloaded
        BY <1>1, ConfigReloads
    <1>2. ASSUME NEW k \in Keyboards, Unplug(k) PROVE HyprInvariant' /\ NotOlder
        BY <1>2, KeyboardIsUnplugged
    <1>3. ASSUME NEW k \in Keyboards, NEW st \in KeyboardStates, KeyboardChanges(k, st)
          PROVE  HyprInvariant' /\ NotOlder
        BY <1>3, KeyboardMoves
    <1>4. ASSUME NEW s \in Sockets, Respond(s) \/ Fail(s) PROVE HyprInvariant' /\ NotOlder
        BY <1>4, Responds, Fails
    <1>5. ASSUME NEW s \in Sockets, NEW whole \in BOOLEAN, Answer(s, whole)
          PROVE  HyprInvariant' /\ NotOlder
        <2>1. sockets[s].asks \in {"options", "devices", "apply"}
            BY <1>5 DEF Answer, HyprInvariant, HyprTyped, RefreshKinds
        <2> QED BY <1>5, <2>1, OptionsAreAnswered, KeyboardsAreAnswered, SettingIsAnswered
    <1>6. CASE UserRefreshes \/ ReadEvent
        BY <1>6, ShellAsks
    <1>7. CASE ApplyOptions
        BY <1>7, OptionsAreSet
    <1>8. CASE UNCHANGED hyprVars
        BY <1>8 DEF hyprVars, HyprInvariant, HyprTyped, OneRefresh, AnswersAreNewer,
                    ToastsAreCounted, IsKeyboards
    <1> QED BY <1>1, <1>2, <1>3, <1>4, <1>5, <1>6, <1>7, <1>8 DEF HyprNext

LEMMA HyprSuffices == HyprInvariant => CompositorIsFollowed
    <1> SUFFICES ASSUME HyprInvariant PROVE CompositorIsFollowed
        OBVIOUS
    <1>1. HyprTypeOK
        BY DEF HyprInvariant, HyprTyped, OneRefresh, IsKeyboards, HyprTypeOK
    <1>2. ASSUME NEW k \in Keyboards PROVE toasts[k] <= 2 * changed[k]
        <2>1. /\ toasts[k] \in Nat /\ changed[k] \in Nat
              /\ Gap(keyboards, comp.keyboards, k) \in {0, 2}
              /\ toasts[k] + Gap(keyboards, comp.keyboards, k) <= 2 * changed[k]
            BY DEF HyprInvariant, HyprTyped, ToastsAreCounted, Gap
        <2> QED BY <2>1
    <1> QED BY <1>1, <1>2 DEF CompositorIsFollowed, ToldOnce

\* Whatever overtakes what on any number of sockets, a refresh that counts is
\* an open socket, and no change of a keyboard is told twice (HyprExtras,
\* HyprDevices).
THEOREM CompositorStaysFollowed == HyprSpec => []CompositorIsFollowed
    BY HyprStarts, HyprSteps, HyprSuffices, PTL DEF HyprSpec

\* What is shown of the compositor never goes back to an older answer.
THEOREM CompositorNeverOlder == HyprSpec => NeverOlder
    BY HyprStarts, HyprSteps, PTL DEF HyprSpec, NeverOlder

---------------------------------------------------------------------------
(* Numbers                                                                 *)

\* Among numbers there is a least one.
LEMMA LeastNumber ==
    ASSUME NEW T \in SUBSET Nat, T # {}
    PROVE  \E x \in T : \A y \in T : x <= y
    <1> DEFINE R == OpToRel(<, Nat)
    <1>1. IsWellFoundedOn(R, Nat)
        BY NatLessThanWellFounded
    <1>2. ASSUME NEW x \in Nat, NEW y \in Nat, y < x PROVE <<y, x>> \in R
        BY <1>2 DEF OpToRel
    <1> HIDE DEF R
    <1>3. PICK x \in T : \A y \in T : ~ (<<y, x>> \in R)
        BY <1>1, WFMin
    <1>4. ASSUME NEW y \in T PROVE x <= y
        <2>1. ~ (y < x)
            BY <1>2, <1>3
        <2> QED BY <2>1
    <1> QED BY <1>4

\* Numbers without a least one that is missing are all of them.
LEMMA EveryNumber ==
    ASSUME NEW P \in SUBSET Nat, 0 \in P, \A n \in P : n + 1 \in P
    PROVE  P = Nat
    <1> SUFFICES ASSUME Nat \ P # {} PROVE FALSE
        OBVIOUS
    <1>1. PICK x \in Nat \ P : \A y \in Nat \ P : x <= y
        BY LeastNumber
    <1>2. x - 1 \in P
        BY <1>1
    <1> QED BY <1>2

---------------------------------------------------------------------------
(* AppDb: the order                                                        *)

\* Who was started how often
Started(held, S) == \A a \in S : held[a].frequency \in Nat

LEMMA BeforeIsAnOrder ==
    ASSUME NEW held, NEW favs, NEW a \in Nat, NEW b \in Nat, NEW c \in Nat,
           held[a].frequency \in Nat, held[b].frequency \in Nat, held[c].frequency \in Nat
    PROVE  /\ ~ Before(held, favs, a, a)
           /\ a # b => Before(held, favs, a, b) \/ Before(held, favs, b, a)
           /\ Before(held, favs, a, b) /\ Before(held, favs, b, c)
                => Before(held, favs, a, c)
    BY DEF Before, Favoured, Nameless

\* s lists S in order
Lists(s, S, held, favs) ==
    /\ s \in [1 .. Cardinality(S) -> S]
    /\ \A i, j \in 1 .. Cardinality(S) : i < j => Before(held, favs, s[i], s[j])

\* One more application goes where those before it end.
LEMMA OneMoreIsListed ==
    ASSUME NEW S \in SUBSET Ids, NEW held, NEW favs, Started(held, S),
           NEW x \in S, NEW s, Lists(s, S \ {x}, held, favs)
    PROVE  \E t : Lists(t, S, held, favs)
    <1> DEFINE n == Cardinality(S)
               B(a, b) == Before(held, favs, a, b)
               later == {k \in 1 .. n : k = n \/ ~ B(s[k], x)}
    <1>1. IsFiniteSet(S) /\ n \in Nat /\ n >= 1 /\ Cardinality(S \ {x}) = n - 1
        <2>1. IsFiniteSet(S) /\ n \in Nat
            BY AppDbAssumption, FS_Subset, FS_CardinalityType
        <2>2. n - 1 = Cardinality(S \ {x})
            BY <2>1, FS_RemoveElement
        <2>3. Cardinality(S \ {x}) \in Nat
            BY <2>1, FS_RemoveElement, FS_CardinalityType
        <2> QED BY <2>1, <2>2, <2>3
    <1> HIDE DEF n
    <1>2. /\ s \in [1 .. n - 1 -> S \ {x}]
          /\ \A i, j \in 1 .. n - 1 : i < j => B(s[i], s[j])
        BY <1>1 DEF Lists
    <1>3. \A a \in S : a \in Nat /\ held[a].frequency \in Nat
        BY AppDbAssumption DEF Started
    <1>4. PICK m \in later : \A k \in later : m <= k
        <2>1. later \in SUBSET Nat /\ n \in later
            BY <1>1
        <2> QED BY <2>1, LeastNumber
    <1>5. m \in 1 .. n /\ \A k \in 1 .. n - 1 : k < m => B(s[k], x)
        BY <1>1, <1>4
    <1>6. ASSUME NEW k \in 1 .. n - 1, m <= k PROVE B(x, s[k])
        <2>1. m \in 1 .. n - 1 /\ ~ B(s[m], x)
            BY <1>1, <1>4, <1>5, <1>6
        <2>2. B(x, s[m])
            BY <1>2, <1>3, <2>1, BeforeIsAnOrder
        <2>3. k = m \/ B(s[m], s[k])
            BY <1>2, <1>5, <1>6, <2>1
        <2> QED BY <1>2, <1>3, <2>1, <2>2, <2>3, BeforeIsAnOrder
    <1> DEFINE t == [k \in 1 .. n |-> IF k < m THEN s[k] ELSE IF k = m THEN x ELSE s[k - 1]]
    <1> HIDE DEF later
    <1>7. t \in [1 .. n -> S]
        BY <1>1, <1>2, <1>5
    <1>8. ASSUME NEW i \in 1 .. n, NEW j \in 1 .. n, i < j PROVE B(t[i], t[j])
        <2> HIDE DEF B
        <2>1. CASE j < m
            BY <1>1, <1>2, <1>5, <1>8, <2>1
        <2>2. CASE j = m
            BY <1>1, <1>5, <1>8, <2>2
        <2>3. CASE j > m /\ i < m
            BY <1>1, <1>2, <1>5, <1>8, <2>3
        <2>4. CASE j > m /\ i = m
            BY <1>1, <1>5, <1>6, <1>8, <2>4
        <2>5. CASE j > m /\ i > m
            BY <1>1, <1>2, <1>5, <1>8, <2>5
        <2> QED BY <1>5, <2>1, <2>2, <2>3, <2>4, <2>5
    <1>9. Lists(t, S, held, favs)
        BY <1>7, <1>8 DEF Lists, n
    <1> QED BY <1>9

\* Applications can be listed in order, however many there are.
LEMMA AppsCanBeListed ==
    ASSUME NEW S \in SUBSET Ids, NEW held, NEW favs, Started(held, S)
    PROVE  \E s : Lists(s, S, held, favs)
    <1> DEFINE P == {n \in Nat : \A U \in SUBSET S :
                        Cardinality(U) = n => \E s : Lists(s, U, held, favs)}
    <1>1. \A U \in SUBSET S : IsFiniteSet(U) /\ Cardinality(U) \in Nat
        BY AppDbAssumption, FS_Subset, FS_CardinalityType
    <1>2. 0 \in P
        <2> SUFFICES ASSUME NEW U \in SUBSET S, Cardinality(U) = 0
                     PROVE  \E s : Lists(s, U, held, favs)
            OBVIOUS
        <2> DEFINE none == [i \in 1 .. 0 |-> 0]
        <2>1. \A i \in 1 .. 0 : FALSE
            OBVIOUS
        <2>2. none \in [1 .. 0 -> U]
            BY <2>1
        <2> HIDE DEF none
        <2>3. 1 .. Cardinality(U) = 1 .. 0
            OBVIOUS
        <2>4. Lists(none, U, held, favs)
            <3>1. none \in [1 .. Cardinality(U) -> U]
                BY <2>2, <2>3
            <3>2. \A i, j \in 1 .. Cardinality(U) : FALSE
                BY <2>1, <2>3
            <3> QED BY <3>1, <3>2 DEF Lists
        <2> QED BY <2>4
    <1>3. ASSUME NEW n \in P PROVE n + 1 \in P
        <2> SUFFICES ASSUME NEW U \in SUBSET S, Cardinality(U) = n + 1
                     PROVE  \E s : Lists(s, U, held, favs)
            OBVIOUS
        <2>1. U # {}
            BY FS_EmptySet
        <2>2. PICK x \in U : TRUE
            BY <2>1
        <2>3. n \in Nat /\ IsFiniteSet(U)
            BY <1>1
        <2>4. Cardinality(U \ {x}) = n
            <3> HIDE DEF P
            <3>1. Cardinality(U \ {x}) = Cardinality(U) - 1
                BY <2>2, <2>3, FS_RemoveElement
            <3> QED BY <2>3, <3>1
        <2>5. PICK s : Lists(s, U \ {x}, held, favs)
            BY <2>4
        <2>6. Started(held, U) /\ U \in SUBSET Ids
            BY DEF Started
        <2> QED BY <2>5, <2>6, OneMoreIsListed
    <1> HIDE DEF P
    <1>4. P = Nat
        BY <1>2, <1>3, EveryNumber DEF P
    <1> QED BY <1>1, <1>4 DEF P

LEMMA SortedLists ==
    ASSUME NEW held, NEW favs, DOMAIN held \in SUBSET Ids, Started(held, DOMAIN held)
    PROVE  Lists(Sorted(held, favs), DOMAIN held, held, favs)
    <1>1. PICK s : Lists(s, DOMAIN held, held, favs)
        BY AppsCanBeListed
    <1>2. /\ s \in [1 .. Cardinality(DOMAIN held) -> DOMAIN held]
          /\ \A i, j \in DOMAIN s : i < j => Before(held, favs, s[i], s[j])
        BY <1>1 DEF Lists
    <1>3. \E z \in [1 .. Cardinality(DOMAIN held) -> DOMAIN held] :
             \A i, j \in DOMAIN z : i < j => Before(held, favs, z[i], z[j])
        BY <1>2
    <1>4. /\ Sorted(held, favs) \in [1 .. Cardinality(DOMAIN held) -> DOMAIN held]
          /\ \A i, j \in DOMAIN Sorted(held, favs) :
                i < j => Before(held, favs, Sorted(held, favs)[i], Sorted(held, favs)[j])
        BY <1>3 DEF Sorted
    <1> QED BY <1>4 DEF Lists

\* s has each of S once
EachOnce(s, S) ==
    /\ s \in Seq(S) /\ Len(s) = Cardinality(S)
    /\ \A a \in S : \E i \in 1 .. Len(s) : s[i] = a
    /\ \A i, j \in 1 .. Len(s) : s[i] = s[j] => i = j

\* A list in order has everything once.
LEMMA ListsHaveEverything ==
    ASSUME NEW S \in SUBSET Ids, NEW held, NEW favs, Started(held, S),
           NEW s, Lists(s, S, held, favs)
    PROVE  EachOnce(s, S)
    <1> DEFINE n == Cardinality(S)
    <1>1. IsFiniteSet(S) /\ n \in Nat
        BY AppDbAssumption, FS_Subset, FS_CardinalityType
    <1>2. s \in [1 .. n -> S] /\ \A i, j \in 1 .. n : i < j => Before(held, favs, s[i], s[j])
        BY DEF Lists
    <1>3. IsFiniteSet(1 .. n) /\ Cardinality(1 .. n) = n
        BY <1>1, FS_Interval
    <1> HIDE DEF n
    <1>4. ASSUME NEW i \in 1 .. n, NEW j \in 1 .. n, s[i] = s[j], i < j PROVE FALSE
        <2>1. s[i] \in Nat /\ held[s[i]].frequency \in Nat
            BY <1>2, AppDbAssumption DEF Started
        <2>2. ~ Before(held, favs, s[i], s[i])
            BY <2>1, BeforeIsAnOrder
        <2> QED BY <1>2, <1>4, <2>2
    <1>5. \A i, j \in 1 .. n : s[i] = s[j] => i = j
        BY <1>1, <1>4
    <1>6. s \in Injection(1 .. n, S)
        BY <1>2, <1>5 DEF Injection, IsInjective
    <1>7. s \in Surjection(1 .. n, S)
        BY <1>1, <1>3, <1>6, FS_Injection DEF n
    <1>8. s \in Seq(S) /\ Len(s) = n
        BY <1>1, <1>2
    <1> QED BY <1>5, <1>7, <1>8 DEF Surjection, n, EachOnce

---------------------------------------------------------------------------
(* AppDb: the applications                                                 *)

\* A desktop entry is one of those there are, one that is left out, or gone.
\* An application has a living entry of its id, or none, and only then it is
\* about to be deleted.
EntriesAreKept ==
    /\ desktopEntries \cap (leftOut \cup gone) = {} /\ leftOut \cap gone = {}
    /\ \A e, f \in desktopEntries : IdOf[e] = IdOf[f] => e = f
    /\ \A i \in Known :
          \/ /\ apps[i].entry \in desktopEntries \cup leftOut /\ IdOf[apps[i].entry] = i
             /\ i \notin dying
          \/ Nameless(apps, i) /\ i \in dying

\* Once the timer has fired the applications are those of the desktop entries,
\* where updateApps did not keep the AppEntry of another.
TimerCatchesUp ==
    ~appsTimer =>
        /\ Known \subseteq Of(desktopEntries)
        /\ \A e \in desktopEntries :
              IdOf[e] \in retained \/ (IdOf[e] \in Known /\ apps[IdOf[e]].entry = e)

AppsAreAFunction == apps = [i \in Known |-> apps[i]]

\* A nameless application may have been set back to no starts, never beyond
\* what the database has.
StartsAreBounded == \A i \in Known : apps[i].frequency <= table[Open(dbPath)][i]

AppsInvariant ==
    /\ AppsTypeOK /\ AppsAreAFunction /\ EntriesAreKept /\ TimerCatchesUp
    /\ FrequenciesAgree /\ StartsAreBounded
    /\ EachOnce(shownApps, Known) /\ ListIsFresh

LEMMA OpenDatabase ==
    ASSUME AppsTypeOK
    PROVE  Open(dbPath) \in Paths \cup {Memory} /\ table[Open(dbPath)] \in [Ids -> 0 .. MaxStarts]
    BY AppDbAssumption DEF AppsTypeOK, Open

\* What is shown is a list of the applications.
LEMMA EachIsShown ==
    ASSUME NEW held, NEW favs, DOMAIN held \in SUBSET Ids,
           \A i \in DOMAIN held : held[i].frequency \in Nat
    PROVE  EachOnce(Sorted(held, favs), DOMAIN held) /\ Sorted(held, favs) \in Seq(Ids)
    <1>1. Started(held, DOMAIN held)
        BY DEF Started
    <1>2. Lists(Sorted(held, favs), DOMAIN held, held, favs)
        BY <1>1, SortedLists
    <1>3. EachOnce(Sorted(held, favs), DOMAIN held)
        BY <1>1, <1>2, ListsHaveEverything
    <1>4. Sorted(held, favs) \in Seq(DOMAIN held)
        BY <1>3 DEF EachOnce
    <1> QED BY <1>3, <1>4

LEMMA EntriesAreSet ==
    ASSUME AppsInvariant, NEW es \in SUBSET DesktopEntries, SetEntries(es)
    PROVE  AppsInvariant'
    <1> USE DEF AppsInvariant
    <1>1. AppsTypeOK' /\ AppsAreAFunction'
        BY DEF SetEntries, AppsTypeOK, AppsAreAFunction, Known
    <1>2. EntriesAreKept'
        BY DEF SetEntries, EntriesAreKept, Known, Nameless
    <1>3. TimerCatchesUp'
        BY DEF SetEntries, TimerCatchesUp
    <1>4. /\ FrequenciesAgree' /\ StartsAreBounded'
          /\ EachOnce(shownApps, Known)' /\ ListIsFresh'
        BY DEF SetEntries, FrequenciesAgree, StartsAreBounded, ListIsFresh, Known
    <1> QED BY <1>1, <1>2, <1>3, <1>4

LEMMA EntryIsDestroyed ==
    ASSUME AppsInvariant, NEW e \in DesktopEntries, EntryDestroyed(e)
    PROVE  AppsInvariant'
    <1> USE DEF AppsInvariant
    <1>1. /\ Known' = Known
          /\ \A i \in Known : /\ apps'[i].frequency = apps[i].frequency
                              /\ apps'[i].entry = IF apps[i].entry = e THEN Unset ELSE apps[i].entry
        BY DEF EntryDestroyed, Known, AppsTypeOK
    <1>2. AppsTypeOK' /\ AppsAreAFunction'
        <2>1. ASSUME NEW i \in Known
              PROVE  apps'[i] \in [entry : (DesktopEntries \ gone') \cup {Unset}, frequency : 0 .. MaxStarts]
            <3>1. apps[i] \in [entry : (DesktopEntries \ gone) \cup {Unset}, frequency : 0 .. MaxStarts]
                BY DEF AppsTypeOK
            <3>2. gone' = gone \cup {e}
                BY DEF EntryDestroyed
            <3>3. CASE apps[i].entry = e
                BY <3>1, <3>2, <3>3 DEF EntryDestroyed
            <3>4. CASE apps[i].entry # e
                BY <3>1, <3>2, <3>4 DEF EntryDestroyed
            <3> QED BY <3>3, <3>4
        <2>2. dying' \subseteq Ids
            BY DEF EntryDestroyed, AppsTypeOK
        <2>3. AppsAreAFunction'
            BY DEF EntryDestroyed, AppsAreAFunction, Known
        <2> QED BY <1>1, <2>1, <2>2, <2>3 DEF AppsTypeOK, EntryDestroyed
    <1>3. EntriesAreKept'
        <2>1. /\ dying' = dying \cup {i \in Known : apps[i].entry = e}
              /\ leftOut' = leftOut \ {e} /\ gone' = gone \cup {e} /\ e \in leftOut
              /\ desktopEntries' = desktopEntries
            BY DEF EntryDestroyed
        <2>2. ASSUME NEW i \in Known
              PROVE  \/ /\ apps'[i].entry \in desktopEntries' \cup leftOut'
                        /\ IdOf[apps'[i].entry] = i /\ i \notin dying'
                     \/ apps'[i].entry = Unset /\ i \in dying'
            <3>1. \/ /\ apps[i].entry \in desktopEntries \cup leftOut /\ IdOf[apps[i].entry] = i
                     /\ i \notin dying
                  \/ apps[i].entry = Unset /\ i \in dying
                BY DEF EntriesAreKept, Nameless
            <3>2. CASE apps[i].entry = e
                BY <1>1, <2>1, <3>2
            <3>3. CASE apps[i].entry # e
                BY <1>1, <2>1, <3>1, <3>3
            <3> QED BY <3>2, <3>3
        <2>3. /\ desktopEntries' \cap (leftOut' \cup gone') = {} /\ leftOut' \cap gone' = {}
              /\ \A f, g \in desktopEntries' : IdOf[f] = IdOf[g] => f = g
            BY <2>1 DEF EntriesAreKept
        <2> QED BY <1>1, <2>2, <2>3 DEF EntriesAreKept, Nameless
    <1>4. TimerCatchesUp'
        <2>1. e \notin desktopEntries /\ UNCHANGED <<desktopEntries, appsTimer, retained>>
            BY DEF EntryDestroyed, EntriesAreKept
        <2> QED BY <1>1, <2>1 DEF TimerCatchesUp
    <1>5. FrequenciesAgree' /\ StartsAreBounded'
        <2>1. UNCHANGED <<table, dbPath>> /\ \A i \in Known : Nameless(apps, i) => Nameless(apps', i)
            BY <1>1 DEF EntryDestroyed, Nameless
        <2> QED BY <1>1, <2>1 DEF FrequenciesAgree, StartsAreBounded
    <1>6. EachOnce(shownApps, Known)'
        BY <1>1 DEF EntryDestroyed
    <1>7. ListIsFresh'
        <2> SUFFICES ASSUME \A i \in Known' : ~Nameless(apps', i)
                     PROVE  shownApps' = Sorted(apps', favourites')
            BY DEF ListIsFresh
        <2>1. \A i \in Known : apps[i].entry # e /\ ~Nameless(apps, i)
            BY <1>1 DEF Nameless
        <2>2. apps' = apps
            <3>1. apps' = [i \in Known |-> apps[i]]
                BY <2>1 DEF EntryDestroyed
            <3>2. apps = [i \in Known |-> apps[i]]
                BY DEF AppsAreAFunction
            <3> QED BY <3>1, <3>2
        <2> QED BY <2>1, <2>2 DEF ListIsFresh, EntryDestroyed
    <1> QED BY <1>2, <1>3, <1>4, <1>5, <1>6, <1>7

LEMMA AppIsDestroyed ==
    ASSUME AppsInvariant, NEW id \in Ids, AppDestroyed(id)
    PROVE  AppsInvariant'
    <1> USE DEF AppsInvariant
    <1>1. /\ Known' = Known \ {id} /\ \A i \in Known' : apps'[i] = apps[i]
          /\ dying' = dying \ {id} /\ id \in dying /\ AppsAreAFunction'
          /\ UNCHANGED <<desktopEntries, leftOut, gone, appsTimer, dbPath, table, favourites,
                         retained>>
        BY DEF AppDestroyed, Known, Forgotten, AppsAreAFunction
    <1>2. id \in Known => Nameless(apps, id)
        BY <1>1 DEF EntriesAreKept
    <1>3. EachOnce(shownApps', Known') /\ shownApps' \in Seq(Ids) /\ ListIsFresh'
        <2>1. CASE id \in Known
            <3>1. DOMAIN apps' \in SUBSET Ids /\ \A i \in DOMAIN apps' : apps'[i].frequency \in Nat
                BY <1>1, AppDbAssumption DEF AppsTypeOK, Known
            <3>2. shownApps' = Sorted(apps', favourites')
                BY <2>1 DEF AppDestroyed, ShowApps
            <3> QED BY <3>1, <3>2, EachIsShown DEF Known, ListIsFresh
        <2>2. CASE id \notin Known
            <3>1. apps' = [i \in Known |-> apps[i]] /\ Known' = Known /\ shownApps' = shownApps
                BY <1>1, <2>2 DEF AppDestroyed, Forgotten, Known
            <3>2. apps' = apps
                BY <3>1 DEF AppsAreAFunction
            <3> QED BY <1>1, <3>1, <3>2 DEF ListIsFresh, AppsTypeOK
        <2> QED BY <2>1, <2>2
    <1>4. AppsTypeOK'
        BY <1>1, <1>3 DEF AppsTypeOK
    <1>5. EntriesAreKept'
        BY <1>1 DEF EntriesAreKept, Nameless
    <1>6. TimerCatchesUp'
        <2> SUFFICES ASSUME ~appsTimer, NEW e \in desktopEntries, IdOf[e] \notin retained
                     PROVE  IdOf[e] \in Known' /\ apps'[IdOf[e]].entry = e
            BY <1>1 DEF TimerCatchesUp
        <2>1. IdOf[e] \in Known /\ apps[IdOf[e]].entry = e
            BY DEF TimerCatchesUp
        <2>2. e # Unset
            BY AppDbAssumption DEF AppsTypeOK
        <2> QED BY <1>1, <1>2, <2>1, <2>2 DEF Nameless
    <1>7. FrequenciesAgree' /\ StartsAreBounded'
        BY <1>1 DEF FrequenciesAgree, StartsAreBounded, Nameless
    <1> QED BY <1>1, <1>3, <1>4, <1>5, <1>6, <1>7

LEMMA AppsAreUpdated ==
    ASSUME AppsInvariant, UpdateApps
    PROVE  AppsInvariant'
    <1> USE DEF AppsInvariant
    <1>1. /\ dying \subseteq Known /\ Known' = Of(desktopEntries) /\ AppsAreAFunction'
          /\ dying' = dying \cup (Known \ Of(desktopEntries)) /\ appsTimer' = FALSE
          /\ retained' = {i \in Known \cap Of(desktopEntries) : apps[i].entry \notin desktopEntries}
          /\ UNCHANGED <<desktopEntries, leftOut, gone, dbPath, table, favourites>>
        BY DEF UpdateApps, Known, AppsAreAFunction
    <1>2. Of(desktopEntries) \subseteq Ids
        BY AppDbAssumption DEF AppsTypeOK, Of
    <1>3. ASSUME NEW i \in Of(desktopEntries), i \in Known PROVE apps'[i] = apps[i]
        BY <1>3 DEF UpdateApps
    <1>4. ASSUME NEW i \in Of(desktopEntries), i \notin Known
          PROVE  /\ apps'[i] \in [entry : desktopEntries, frequency : 0 .. MaxStarts]
                 /\ IdOf[apps'[i].entry] = i
                 /\ apps'[i].frequency = table[Open(dbPath)][i]
        <2> DEFINE e == CHOOSE e \in desktopEntries : IdOf[e] = i
        <2>1. e \in desktopEntries /\ IdOf[e] = i
            BY DEF Of
        <2>2. apps'[i] = [entry |-> e, frequency |-> table[Open(dbPath)][i]]
            BY <1>4 DEF UpdateApps, StartsOf
        <2>3. table[Open(dbPath)][i] \in 0 .. MaxStarts
            BY <1>2, OpenDatabase
        <2> HIDE DEF e
        <2> QED BY <2>1, <2>2, <2>3
    <1>5. desktopEntries \subseteq DesktopEntries \ gone /\ Unset \notin DesktopEntries
        BY AppDbAssumption DEF AppsTypeOK, EntriesAreKept
    <1>6. ASSUME NEW i \in Of(desktopEntries)
          PROVE  apps'[i] \in [entry : (DesktopEntries \ gone) \cup {Unset}, frequency : 0 .. MaxStarts]
        <2>1. CASE i \in Known
            BY <1>3, <2>1 DEF AppsTypeOK
        <2>2. CASE i \notin Known
            <3>1. apps'[i] \in [entry : desktopEntries, frequency : 0 .. MaxStarts]
                BY <1>4, <2>2
            <3> QED BY <1>5, <3>1
        <2> QED BY <2>1, <2>2
    <1>7. EachOnce(shownApps', Known') /\ shownApps' \in Seq(Ids) /\ ListIsFresh'
        <2>1. CASE DOMAIN apps' = Known
            <3>1. Known = Of(desktopEntries) /\ Known' = Known /\ shownApps' = shownApps
                BY <1>1, <2>1 DEF UpdateApps, Known
            <3>2. apps' = [i \in Known |-> apps[i]]
                BY <1>1, <1>3, <3>1 DEF AppsAreAFunction
            <3>3. apps' = apps
                BY <3>2 DEF AppsAreAFunction
            <3> QED BY <1>1, <3>1, <3>3 DEF ListIsFresh, AppsTypeOK
        <2>2. CASE DOMAIN apps' # Known
            <3>1. DOMAIN apps' \in SUBSET Ids /\ \A i \in DOMAIN apps' : apps'[i].frequency \in Nat
                BY <1>1, <1>2, <1>6, AppDbAssumption DEF Known
            <3>2. shownApps' = Sorted(apps', favourites')
                BY <1>1, <2>2 DEF UpdateApps, ShowApps
            <3> QED BY <3>1, <3>2, EachIsShown DEF Known, ListIsFresh
        <2> QED BY <2>1, <2>2
    <1>8. AppsTypeOK'
        <2>1. dying' \subseteq Ids /\ retained' \subseteq Ids
            BY <1>1, <1>2 DEF AppsTypeOK
        <2>2. \A i \in Known' : apps'[i] \in
                 [entry : (DesktopEntries \ gone') \cup {Unset}, frequency : 0 .. MaxStarts]
            BY <1>1, <1>6
        <2> QED BY <1>1, <1>2, <1>7, <2>1, <2>2 DEF AppsTypeOK
    <1>9. EntriesAreKept'
        <2>1. ASSUME NEW i \in Of(desktopEntries)
              PROVE  \/ /\ apps'[i].entry \in desktopEntries \cup leftOut
                        /\ IdOf[apps'[i].entry] = i /\ i \notin dying'
                     \/ apps'[i].entry = Unset /\ i \in dying'
            <3>1. i \in dying' <=> i \in dying
                BY <1>1
            <3>2. CASE i \in Known
                BY <1>3, <3>1, <3>2 DEF EntriesAreKept, Nameless
            <3>3. CASE i \notin Known
                <4>1. i \notin dying
                    BY <1>1, <3>3
                <4>2. apps'[i].entry \in desktopEntries /\ IdOf[apps'[i].entry] = i
                    BY <1>4, <3>3
                <4> QED BY <3>1, <4>1, <4>2
            <3> QED BY <3>2, <3>3
        <2> QED BY <1>1, <2>1 DEF EntriesAreKept, Nameless
    <1>10. TimerCatchesUp'
        <2> SUFFICES ASSUME NEW e \in desktopEntries, IdOf[e] \notin retained'
                     PROVE  apps'[IdOf[e]].entry = e
            BY <1>1 DEF TimerCatchesUp, Of
        <2> DEFINE i == IdOf[e]
        <2>1. i \in Of(desktopEntries) /\ \A f \in desktopEntries : IdOf[f] = i => f = e
            BY DEF Of, EntriesAreKept
        <2> HIDE DEF i
        <2>2. CASE i \in Known
            <3>1. apps[i].entry \in desktopEntries
                BY <1>1, <2>1, <2>2 DEF i
            <3>2. IdOf[apps[i].entry] = i
                BY <1>5, <2>2, <3>1 DEF EntriesAreKept, Nameless
            <3> QED BY <1>3, <2>1, <2>2, <3>1, <3>2 DEF i
        <2>3. CASE i \notin Known
            <3>1. apps'[i].entry \in desktopEntries /\ IdOf[apps'[i].entry] = i
                BY <1>4, <2>1, <2>3
            <3> QED BY <2>1, <3>1 DEF i
        <2> QED BY <2>2, <2>3
    <1>11. FrequenciesAgree' /\ StartsAreBounded'
        <2>1. ASSUME NEW i \in Of(desktopEntries)
              PROVE  /\ ~ (apps'[i].entry = Unset) => apps'[i].frequency = table[Open(dbPath)][i]
                     /\ apps'[i].frequency <= table[Open(dbPath)][i]
            <3>1. CASE i \in Known
                BY <1>3, <3>1 DEF FrequenciesAgree, StartsAreBounded, Nameless
            <3>2. CASE i \notin Known
                <4>1. /\ apps'[i].frequency = table[Open(dbPath)][i]
                      /\ apps'[i].frequency \in 0 .. MaxStarts
                    BY <1>4, <3>2
                <4>2. table[Open(dbPath)][i] <= table[Open(dbPath)][i]
                    BY <4>1, AppDbAssumption
                <4> QED BY <4>1, <4>2
            <3> QED BY <3>1, <3>2
        <2> QED BY <1>1, <2>1 DEF FrequenciesAgree, StartsAreBounded, Nameless
    <1> QED BY <1>1, <1>7, <1>8, <1>9, <1>10, <1>11

\* The entries stay, the databases agree with what is known of each application,
\* and the list is shown, or its order has not changed.
LEMMA StartsAreCounted ==
    ASSUME AppsInvariant, AppsAreAFunction',
           UNCHANGED <<desktopEntries, leftOut, gone, appsTimer, dying, retained>>,
           Known' = Known, favourites' \subseteq Ids, dbPath' \in Paths \cup {Unset, Memory},
           table' \in [Paths \cup {Memory} -> [Ids -> 0 .. MaxStarts]],
           \A i \in Known :
              /\ apps'[i] \in [entry : (DesktopEntries \ gone) \cup {Unset}, frequency : 0 .. MaxStarts]
              /\ apps'[i].entry = apps[i].entry
              /\ ~Nameless(apps, i) => apps'[i].frequency = table'[Open(dbPath')][i]
              /\ apps'[i].frequency <= table'[Open(dbPath')][i],
           \/ shownApps' = Sorted(apps', favourites')
           \/ shownApps' = shownApps /\ Sorted(apps', favourites') = Sorted(apps, favourites)
    PROVE  AppsInvariant'
    <1> USE DEF AppsInvariant
    <1>1. shownApps' \in Seq(Ids) /\ EachOnce(shownApps', Known')
        <2>1. DOMAIN apps' \in SUBSET Ids /\ \A i \in DOMAIN apps' : apps'[i].frequency \in Nat
            BY AppDbAssumption DEF AppsTypeOK, Known
        <2>2. /\ Sorted(apps', favourites') \in Seq(Ids)
              /\ EachOnce(Sorted(apps', favourites'), Known')
            BY <2>1, EachIsShown DEF Known
        <2> QED BY <2>2 DEF AppsTypeOK
    <1>2. AppsTypeOK'
        BY <1>1 DEF AppsTypeOK
    <1>3. EntriesAreKept'
        BY DEF EntriesAreKept, Nameless
    <1>4. TimerCatchesUp'
        BY DEF TimerCatchesUp
    <1>5. FrequenciesAgree' /\ StartsAreBounded'
        BY DEF FrequenciesAgree, StartsAreBounded, Nameless
    <1>6. ListIsFresh'
        BY DEF ListIsFresh, Nameless
    <1> QED BY <1>1, <1>2, <1>3, <1>4, <1>5, <1>6

LEMMA PathIsSet ==
    ASSUME AppsInvariant, NEW new \in Paths \cup {Memory}, SetPath(new)
    PROVE  AppsInvariant'
    <1>1. new # Unset /\ Open(dbPath') = new
        BY AppDbAssumption DEF SetPath, Open
    <1>2. table' \in [Paths \cup {Memory} -> [Ids -> 0 .. MaxStarts]]
        BY AppDbAssumption DEF SetPath, AppsInvariant, AppsTypeOK
    <1>3. Known' = Known /\ AppsAreAFunction'
        BY DEF SetPath, Known, AppsAreAFunction
    <1>4. ASSUME NEW i \in Known
          PROVE  /\ apps'[i] \in [entry : (DesktopEntries \ gone) \cup {Unset}, frequency : 0 .. MaxStarts]
                 /\ apps'[i].entry = apps[i].entry
                 /\ ~Nameless(apps, i) => apps'[i].frequency = table'[Open(dbPath')][i]
                 /\ apps'[i].frequency <= table'[Open(dbPath')][i]
        <2>1. /\ apps[i] \in [entry : (DesktopEntries \ gone) \cup {Unset}, frequency : 0 .. MaxStarts]
              /\ i \in Ids
            BY DEF AppsInvariant, AppsTypeOK
        <2>2. table'[new][i] \in 0 .. MaxStarts /\ 0 \in 0 .. MaxStarts
            BY <1>2, <2>1, AppDbAssumption
        <2> DEFINE f == IF Nameless(apps, i) THEN 0 ELSE table'[new][i]
        <2>3. apps'[i] = [apps[i] EXCEPT !.frequency = f]
            BY DEF SetPath
        <2>4. f \in 0 .. MaxStarts /\ f <= table'[new][i]
            BY <2>2, AppDbAssumption
        <2>5. ~Nameless(apps, i) => f = table'[new][i]
            OBVIOUS
        <2> HIDE DEF f
        <2> QED BY <1>1, <2>1, <2>3, <2>4, <2>5
    <1>5. favourites' \subseteq Ids /\ dbPath' \in Paths \cup {Unset, Memory}
        BY DEF SetPath, AppsInvariant, AppsTypeOK
    <1>6. \/ shownApps' = Sorted(apps', favourites')
          \/ shownApps' = shownApps /\ Sorted(apps', favourites') = Sorted(apps, favourites)
        BY DEF SetPath, ShowIfMoved, ShowApps
    <1>7. UNCHANGED <<desktopEntries, leftOut, gone, appsTimer, dying, retained>>
        BY DEF SetPath
    <1> QED BY <1>2, <1>3, <1>4, <1>5, <1>6, <1>7, StartsAreCounted

LEMMA AppIsStarted ==
    ASSUME AppsInvariant, NEW id \in Ids, Increment(id)
    PROVE  AppsInvariant'
    <1> DEFINE p == Open(dbPath)
    <1>1. p \in Paths \cup {Memory} /\ table[p] \in [Ids -> 0 .. MaxStarts]
        BY OpenDatabase DEF AppsInvariant
    <1>2. Open(dbPath') = p
        BY DEF Increment, Open
    <1> HIDE DEF p
    <1>3. table \in [Paths \cup {Memory} -> [Ids -> 0 .. MaxStarts]]
        BY DEF AppsInvariant, AppsTypeOK
    <1>4. /\ table' = [table EXCEPT ![p] = [table[p] EXCEPT ![id] = table[p][id] + 1]]
          /\ table[p][id] + 1 \in 0 .. MaxStarts
        BY <1>1, AppDbAssumption DEF Increment, p
    <1>5. /\ table' \in [Paths \cup {Memory} -> [Ids -> 0 .. MaxStarts]]
          /\ \A i \in Ids : table'[p][i] = IF i = id THEN table[p][i] + 1 ELSE table[p][i]
        BY <1>1, <1>3, <1>4
    <1>6. Known' = Known /\ AppsAreAFunction'
        <2>1. CASE id \in Known
            <3>1. apps' = [apps EXCEPT ![id].frequency = apps[id].frequency + 1]
                BY <2>1 DEF Increment
            <3> QED BY <3>1 DEF Known, AppsAreAFunction
        <2>2. CASE id \notin Known
            BY <2>2 DEF Increment, AppsInvariant, AppsAreAFunction, Known
        <2> QED BY <2>1, <2>2
    <1>7. ASSUME NEW i \in Known
          PROVE  /\ apps'[i] \in [entry : (DesktopEntries \ gone) \cup {Unset}, frequency : 0 .. MaxStarts]
                 /\ apps'[i].entry = apps[i].entry
                 /\ ~Nameless(apps, i) => apps'[i].frequency = table'[p][i]
                 /\ apps'[i].frequency <= table'[p][i]
        <2>1. /\ apps[i] \in [entry : (DesktopEntries \ gone) \cup {Unset}, frequency : 0 .. MaxStarts]
              /\ ~Nameless(apps, i) => apps[i].frequency = table[p][i]
              /\ apps[i].frequency <= table[p][i] /\ i \in Ids
            BY DEF AppsInvariant, AppsTypeOK, FrequenciesAgree, StartsAreBounded, p
        <2>2. CASE i = id
            <3>1. apps'[i] = [apps[i] EXCEPT !.frequency = apps[i].frequency + 1]
                BY <2>2 DEF Increment, Known
            <3>2. apps[i].frequency + 1 \in 0 .. MaxStarts /\ table'[p][i] = table[p][i] + 1
                BY <1>1, <1>4, <1>5, <2>1, <2>2, AppDbAssumption
            <3>3. apps[i].frequency + 1 <= table'[p][i]
                BY <1>1, <2>1, <3>2, AppDbAssumption
            <3> QED BY <2>1, <3>1, <3>2, <3>3
        <2>3. CASE i # id
            <3>1. apps'[i] = apps[i]
                BY <2>3 DEF Increment, Known
            <3> QED BY <1>5, <2>1, <2>3, <3>1
        <2> QED BY <2>2, <2>3
    <1>8. \/ shownApps' = Sorted(apps', favourites')
          \/ shownApps' = shownApps /\ Sorted(apps', favourites') = Sorted(apps, favourites)
        BY DEF Increment, ShowIfMoved, ShowApps
    <1>9. /\ favourites' \subseteq Ids /\ dbPath' \in Paths \cup {Unset, Memory}
          /\ UNCHANGED <<desktopEntries, leftOut, gone, appsTimer, dying, retained>>
        BY DEF Increment, AppsInvariant, AppsTypeOK
    <1> QED BY <1>2, <1>5, <1>6, <1>7, <1>8, <1>9, StartsAreCounted

LEMMA FavouritesAreSet ==
    ASSUME AppsInvariant, NEW favs \in SUBSET Ids, SetFavourites(favs)
    PROVE  AppsInvariant'
    <1>1. UNCHANGED <<desktopEntries, leftOut, gone, appsTimer, dying, retained, apps, dbPath, table>>
        BY DEF SetFavourites
    <1>2. Known' = Known /\ AppsAreAFunction' /\ Open(dbPath') = Open(dbPath)
        BY <1>1 DEF AppsInvariant, AppsAreAFunction, Known, Open
    <1>3. ASSUME NEW i \in Known
          PROVE  /\ apps'[i] \in [entry : (DesktopEntries \ gone) \cup {Unset}, frequency : 0 .. MaxStarts]
                 /\ apps'[i].entry = apps[i].entry
                 /\ ~Nameless(apps, i) => apps'[i].frequency = table'[Open(dbPath')][i]
                 /\ apps'[i].frequency <= table'[Open(dbPath')][i]
        BY <1>1, <1>2 DEF AppsInvariant, AppsTypeOK, FrequenciesAgree, StartsAreBounded
    <1>4. /\ favourites' \subseteq Ids /\ dbPath' \in Paths \cup {Unset, Memory}
          /\ table' \in [Paths \cup {Memory} -> [Ids -> 0 .. MaxStarts]]
        BY <1>1 DEF SetFavourites, AppsInvariant, AppsTypeOK
    <1>5. shownApps' = Sorted(apps', favourites')
        BY DEF SetFavourites, ShowApps
    <1> QED BY <1>1, <1>2, <1>3, <1>4, <1>5, StartsAreCounted

LEMMA AppsBegin == AppsInit => AppsInvariant
    <1> SUFFICES ASSUME AppsInit PROVE AppsInvariant
        OBVIOUS
    <1>1. Known = {} /\ DOMAIN apps = {} /\ AppsAreAFunction
        BY DEF AppsInit, Known, AppsAreAFunction
    <1>2. AppsTypeOK
        <2>1. table \in [Paths \cup {Memory} -> [Ids -> 0 .. MaxStarts]]
            BY AppDbAssumption DEF AppsInit
        <2>2. shownApps \in Seq(Ids)
            BY DEF AppsInit
        <2> QED BY <1>1, <2>1, <2>2 DEF AppsInit, AppsTypeOK
    <1>3. EntriesAreKept /\ TimerCatchesUp /\ FrequenciesAgree /\ StartsAreBounded
        BY <1>1 DEF AppsInit, EntriesAreKept, TimerCatchesUp, FrequenciesAgree,
                    StartsAreBounded, Of
    <1>4. EachOnce(Sorted(apps, favourites), Known)
        <2>1. \A i \in DOMAIN apps : apps[i].frequency \in Nat
            BY <1>1
        <2> QED BY <1>1, <2>1, EachIsShown DEF Known
    <1>5. Sorted(apps, favourites) = <<>>
        <2>1. Cardinality(Known) = 0
            BY <1>1, FS_EmptySet
        <2> QED BY <1>4, <2>1 DEF EachOnce
    <1> QED BY <1>1, <1>2, <1>3, <1>4, <1>5 DEF AppsInvariant, AppsInit, ListIsFresh

LEMMA AppsInvariantIsKept == AppsInvariant /\ [AppsNext]_appVars => AppsInvariant'
    <1> SUFFICES ASSUME AppsInvariant, [AppsNext]_appVars PROVE AppsInvariant'
        OBVIOUS
    <1>1. ASSUME NEW es \in SUBSET DesktopEntries, SetEntries(es) PROVE AppsInvariant'
        BY <1>1, EntriesAreSet
    <1>2. ASSUME NEW e \in DesktopEntries, EntryDestroyed(e) PROVE AppsInvariant'
        BY <1>2, EntryIsDestroyed
    <1>3. ASSUME NEW id \in Ids, AppDestroyed(id) PROVE AppsInvariant'
        BY <1>3, AppIsDestroyed
    <1>4. ASSUME NEW id \in Ids, Increment(id) PROVE AppsInvariant'
        BY <1>4, AppIsStarted
    <1>5. CASE UpdateApps
        BY <1>5, AppsAreUpdated
    <1>6. ASSUME NEW new \in Paths \cup {Memory}, SetPath(new) PROVE AppsInvariant'
        BY <1>6, PathIsSet
    <1>7. ASSUME NEW favs \in SUBSET Ids, SetFavourites(favs) PROVE AppsInvariant'
        BY <1>7, FavouritesAreSet
    <1>8. CASE UNCHANGED appVars
        BY <1>8 DEF AppsInvariant, appVars, AppsTypeOK, EntriesAreKept, TimerCatchesUp,
                    FrequenciesAgree, StartsAreBounded, AppsAreAFunction, ListIsFresh, Known,
                    Open, Nameless
    <1> QED BY <1>1, <1>2, <1>3, <1>4, <1>5, <1>6, <1>7, <1>8 DEF AppsNext

\* What holds of the applications after any steps.
LEMMA AppsInvariantHolds == AppsSpec => []AppsInvariant
    BY AppsBegin, AppsInvariantIsKept, PTL DEF AppsSpec

\* An application is of a desktop entry that lives or is about to go, and once
\* the timer has fired there is one for each desktop entry, of that entry, but for
\* those that updateApps kept for another desktop entry of their id; each was
\* started as often as the open database says, and the list that was announced
\* is the list there is (updateApps, AppEntry::destroyed, updateAppFrequencies,
\* appsChanged), for any desktop entries, favourites and databases, hidden, shown
\* again, replaced and destroyed in any order.
THEOREM AppsStayRight == AppsSpec => []AppsAreRight
    <1>1. AppsInvariant => AppsAreRight
        <2>1. AppsInvariant => AppsAreTheEntries
            BY DEF AppsInvariant, EntriesAreKept, TimerCatchesUp, AppsAreTheEntries
        <2> QED BY <2>1 DEF AppsInvariant, AppsAreRight
    <1> QED BY <1>1, AppsInvariantHolds, PTL

\* The list that is shown has every application there is once, those that are
\* about to go included; and when there are none of these it is in order: a
\* favourite before one that is none, then what was started more often, then by
\* name (getSortedApps).
EveryAppIsListedOnce ==
    /\ Len(shownApps) = Cardinality(Known)
    /\ \A id \in Known : \E i \in 1 .. Len(shownApps) : shownApps[i] = id
    /\ \A i, j \in 1 .. Len(shownApps) :
          /\ shownApps[i] \in Known
          /\ shownApps[i] = shownApps[j] => i = j
          /\ (\A id \in Known : ~Nameless(apps, id)) /\ i < j
                => Before(apps, favourites, shownApps[i], shownApps[j])

\* No application is lost from the list or shown in it twice, and the list is
\* in order, after any changes to the applications, the favourites and the
\* database, though not every one of them is announced (getSortedApps,
\* appsChanged).
THEOREM ListStaysComplete == AppsSpec => []EveryAppIsListedOnce
    <1>1. AppsInvariant => EveryAppIsListedOnce
        <2> SUFFICES ASSUME AppsInvariant PROVE EveryAppIsListedOnce
            OBVIOUS
        <2>1. DOMAIN apps = Known /\ Started(apps, Known) /\ Known \in SUBSET Ids
            BY AppDbAssumption DEF Started, Known, AppsInvariant, AppsTypeOK
        <2>2. EachOnce(shownApps, Known)
            BY DEF AppsInvariant
        <2>3. \A i \in 1 .. Len(shownApps) : shownApps[i] \in Known
            BY <2>2 DEF EachOnce
        <2>4. ASSUME \A id \in Known : ~Nameless(apps, id)
              PROVE  \A i, j \in 1 .. Len(shownApps) :
                        i < j => Before(apps, favourites, shownApps[i], shownApps[j])
            <3>1. shownApps = Sorted(apps, favourites)
                BY <2>4 DEF AppsInvariant, ListIsFresh
            <3>2. Lists(shownApps, Known, apps, favourites)
                BY <2>1, <3>1, SortedLists
            <3> QED BY <2>2, <3>2 DEF Lists, EachOnce
        <2> QED BY <2>2, <2>3, <2>4 DEF EveryAppIsListedOnce, EachOnce
    <1> QED BY <1>1, AppsInvariantHolds, PTL
=============================================================================
