---------------------------- MODULE SecretBuffer ----------------------------
(***************************************************************************)
(* The memory of a password prompt (LockedSecretBuffer): the text in UTF-8,*)
(* byte by byte, with its length in bytes, code points and UTF-16 units,   *)
(* edited by keys and by the input method, which counts in UTF-16 units    *)
(* before the end.  typed is the text these edits make of it for somebody  *)
(* who knows no bytes; it is there to compare.                             *)
(***************************************************************************)
EXTENDS Integers, Sequences, FiniteSetsExt

CONSTANTS
    Chars,
    Width,        \* bytes of each in UTF-8
    Dropped,      \* a zero or half a surrogate pair: not taken
    Capacity,     \* kSecretCapacity
    MaxInput      \* bound on what comes at once

ASSUME BufferAssumption ==
    /\ Width \in [Chars -> 1..4] /\ Dropped \notin Chars
    /\ Capacity \in Nat /\ MaxInput \in Nat

VARIABLES
    bytes,        \* bytes_: <<character, k>> is the k-th byte of a character
    size, codePoints, utf16Units,
    typed
bufferVars == <<bytes, size, codePoints, utf16Units, typed>>

Zero == <<"zero", 0>>

\* UTF-16 units of each character
Units == [c \in Chars |-> IF Width[c] = 4 THEN 2 ELSE 1]
Texts == UNION {[1..n -> Chars \cup {Dropped}] : n \in 0..MaxInput}

\* ------------------------------------------------- the text of the user

\* What the first n characters of a text count for, each n
Sums(t, w) ==
    LET upTo[n \in 0..Len(t)] == IF n = 0 THEN 0 ELSE upTo[n - 1] + w[t[n]]
    IN  upTo
Offsets(t) == Sums(t, Width)
BytesOf(t) == Offsets(t)[Len(t)]
UnitsOf(t) == Sums(t, Units)[Len(t)]

\* What is taken of the first n characters, each n
Taken(new) ==
    LET upTo[n \in 0..Len(new)] ==
            IF n = 0 THEN <<>>
            ELSE IF new[n] = Dropped THEN upTo[n - 1] ELSE Append(upTo[n - 1], new[n])
    IN  upTo

\* As much of new as there is room for
Fitting(t, new) ==
    LET Fits(n) == BytesOf(t) + BytesOf(Taken(new)[n]) <= Capacity
    IN  Taken(new)[Max({n \in 0..Len(new) : Fits(n)})]

\* t with the characters between i and j replaced
Spliced(t, i, j, new) ==
    LET rest == SubSeq(t, 1, i) \o SubSeq(t, j + 1, Len(t))
    IN  SubSeq(t, 1, i) \o Fitting(rest, new) \o SubSeq(t, j + 1, Len(t))

\* How many characters there are before a position in UTF-16 units, if it is
\* between two characters
Before(t, units) == {i \in 0..Len(t) : Sums(t, Units)[i] = units}

\* The text after a replacement, if its positions mean something
Edited(t, start, length, new) ==
    LET first == Before(t, UnitsOf(t) + start)
        last == Before(t, UnitsOf(t) + start + length)
    IN  IF length < 0 \/ first = {} \/ last = {} THEN t
        ELSE Spliced(t, Max(first), Max(last), new)

\* ------------------------------------------------------------ the buffer

Buffer == [bytes |-> bytes, size |-> size, points |-> codePoints, units |-> utf16Units]

Room(b, c) == b.size + Width[c] <= Capacity

\* memmove and memcpy of one character
WithCharacter(b, c, offset) ==
    [i \in 1..Capacity |->
        IF i <= offset \/ i > b.size + Width[c] THEN b.bytes[i]
        ELSE IF i <= offset + Width[c] THEN <<c, i - offset>>
        ELSE b.bytes[i - Width[c]]]

\* One character of insertAt, which stops at the first there is no room for
Insert(c, s) ==
    IF s.full \/ c = Dropped THEN s
    ELSE IF ~Room(s.b, c) THEN [s EXCEPT !.full = TRUE]
    ELSE [b |-> [bytes |-> WithCharacter(s.b, c, s.at),
                 size |-> s.b.size + Width[c],
                 points |-> s.b.points + 1,
                 units |-> s.b.units + Units[c]],
          at |-> s.at + Width[c], full |-> FALSE]

\* insertAt, after each character
Insertions(b, offset, text) ==
    LET after[n \in 0..Len(text)] ==
            IF n = 0 THEN [b |-> b, at |-> offset, full |-> FALSE]
            ELSE Insert(text[n], after[n - 1])
    IN  after
Inserted(b, offset, text) == Insertions(b, offset, text)[Len(text)].b

\* What is freed keeps its bytes.
MutCut(b, first, last) ==
    [i \in 1..Capacity |->
        IF i <= first \/ i > b.size - (last - first) THEN b.bytes[i]
        ELSE b.bytes[i + (last - first)]]

\* Bytes between two offsets are closed up and what is freed is cleared.
Cut(b, first, last) ==
    [i \in 1..Capacity |->
        IF i <= first \/ i > b.size THEN b.bytes[i]
        ELSE IF i <= b.size - (last - first) THEN b.bytes[i + (last - first)]
        ELSE Zero]

\* A round of the loop of locateUtf16; the width of a character is read off its
\* lead byte.
Round(b, p) ==
    LET lead == b.bytes[p.offset + 1][1]
    IN  IF p.offset >= b.size THEN p
        ELSE [offset |-> p.offset + Width[lead], points |-> p.points + 1,
              units |-> p.units + Units[lead]]

\* Where the loop is after each round
Walk(b) ==
    LET after[n \in 0..b.size] ==
            IF n = 0 THEN [offset |-> 0, points |-> 0, units |-> 0]
            ELSE Round(b, after[n - 1])
    IN  after

\* Where it stops, if that is before the character after so many units
Located(b, units) == {p \in {Walk(b)[n] : n \in 0..b.size} : p.units = units}

The(found) == CHOOSE position \in found : TRUE

\* Where the last character starts: not at a continuation byte
LastLead(b) == Max({i \in 1..b.size : b.bytes[i][2] = 1})

\* ------------------------------------------------------------ actions

Become(b, text) ==
    /\ bytes' = b.bytes /\ size' = b.size
    /\ codePoints' = b.points /\ utf16Units' = b.units
    /\ typed' = text

BufferInit ==
    /\ bytes = [i \in 1..Capacity |-> Zero]
    /\ size = 0 /\ codePoints = 0 /\ utf16Units = 0
    /\ typed = <<>>

\* A key with a text
AppendText(text) ==
    Become(Inserted(Buffer, size, text), Spliced(typed, Len(typed), Len(typed), text))

\* Backspace
RemoveLast ==
    /\ size > 0
    /\ \E first \in {LastLead(Buffer) - 1} :
          Become([bytes |-> [i \in 1..Capacity |->
                               IF i > first /\ i <= size THEN Zero ELSE bytes[i]],
                  size |-> first,
                  points |-> codePoints - 1,
                  units |-> utf16Units - (IF size - first = 4 THEN 2 ELSE 1)],
                 SubSeq(typed, 1, Len(typed) - 1))

\* replace; positions that are not in the text, or inside a character, are
\* refused.
Replaced(start, length, text) ==
    LET from == Located(Buffer, utf16Units + start)
        to == Located(Buffer, utf16Units + start + length)
        first == The(from)
        last == The(to)
    IN  IF start > 0 \/ length < 0 \/ from = {} \/ to = {} THEN Buffer
        ELSE Inserted([bytes |-> Cut(Buffer, first.offset, last.offset),
                       size |-> size - (last.offset - first.offset),
                       points |-> codePoints - (last.points - first.points),
                       units |-> utf16Units - length],
                      first.offset, text)

\* The input method replaces text before the end.
Replace(start, length, text) ==
    Become(Replaced(start, length, text), Edited(typed, start, length, text))

\* Escape, a verdict, the end of the prompt or of the program
Clear == Become([bytes |-> [i \in 1..Capacity |-> Zero], size |-> 0, points |-> 0, units |-> 0],
                <<>>)

BufferNext ==
    \/ \E text \in Texts : AppendText(text)
    \/ RemoveLast
    \/ \E start \in -Capacity..1, length \in -1..Capacity, text \in Texts :
          Replace(start, length, text)
    \/ Clear

BufferSpec == BufferInit /\ [][BufferNext]_bufferVars

\* --------------------------------------------------------- properties

BufferTypeOK ==
    /\ bytes \in [1..Capacity -> {Zero} \cup {<<c, k>> : c \in Chars, k \in 1..4}]
    /\ size \in 0..Capacity
    /\ codePoints \in Nat /\ utf16Units \in Nat
    /\ typed \in Seq(Chars)

\* The buffer is the text the user means, whole characters in their order,
\* however it was edited and where it ran out of room (insertAt, replace,
\* removeLast).
HoldsTheText ==
    /\ size = BytesOf(typed)
    /\ \A i \in 1..Len(typed) : \A k \in 1..Width[typed[i]] :
          bytes[Offsets(typed)[i - 1] + k] = <<typed[i], k>>

\* The length shown and the cursor told to the input method are those of the
\* text (codePoints_, utf16Units_).
CountsTheText == codePoints = Len(typed) /\ utf16Units = UnitsOf(typed)

\* Nothing of what was typed is left behind the text (explicit_bzero in
\* removeLast and replace).
NothingIsLeftBehind == \A i \in (size + 1)..Capacity : bytes[i] = Zero

\* The bytes of a buffer, and both counts of characters, are those of the text
\* that was typed, and none of a text before it is left behind.
TextsAreKept == BufferTypeOK /\ HoldsTheText /\ CountsTheText /\ NothingIsLeftBehind
=============================================================================
