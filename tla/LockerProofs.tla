--------------------------- MODULE LockerProofs ---------------------------
(***************************************************************************)
(* Proofs about Locker, for every set of clients and outputs and every     *)
(* limit on the clients.                                                   *)
(***************************************************************************)
EXTENDS Locker, FiniteSetTheorems, TLAPS

\* Who has a connection but no hold has not been told anything on it yet: an
\* answer is the end of every other connection.
Untold == \A c \in Clients : conn[c].phase # "none" /\ c \notin holds => told[c] = "none"

\* The endpoint's part of the invariant
Book ==
    /\ conn \in [Clients -> Connection]
    /\ told \in [Clients -> {"none", "locked", "unlocked", "error"}]
    /\ pending \subseteq Clients /\ holds \subseteq Clients
    /\ pending \cap holds = {}
    /\ Cardinality(clients_) <= MaxClients
    /\ HoldsAreLive
    /\ Untold

\* The screen's part of it
SecureIsLocked == secure => screen = "locked"

Screen ==
    /\ wl \in {"idle", "asked", "secure"}
    /\ screen \in {"open", "locked", "revoked"}
    /\ secret \in [Outputs -> {"empty", "right", "wrong"}]
    /\ waiting \in [Outputs -> BOOLEAN]
    /\ SecureIsLocked

Invariant == Book /\ Screen /\ SecureMeansAnswered

---------------------------------------------------------------------------
(* What the endpoint's operators do to its books                           *)

\* Connections that end free their slots.
LEMMA FewerFit ==
    ASSUME Cardinality(clients_) <= MaxClients, clients_' \subseteq clients_
    PROVE  Cardinality(clients_') <= MaxClients
<1>1. IsFiniteSet(clients_)
  BY LockerAssumption, FS_Subset DEF clients_
<1>2. Cardinality(clients_') <= Cardinality(clients_)
  BY <1>1, FS_Subset
<1>3. Cardinality(clients_) \in Nat /\ Cardinality(clients_') \in Nat
  BY <1>1, FS_Subset, FS_CardinalityType
<1> QED
  BY <1>2, <1>3, LockerAssumption

LEMMA DropKeepsBook ==
    ASSUME Book, NEW S \in SUBSET Clients, Drop(S),
           told' \in [Clients -> {"none", "locked", "unlocked", "error"}],
           \A c \in Clients \ S : told'[c] = told[c]
    PROVE  Book' /\ holds' \subseteq holds
<1>1. conn' \in [Clients -> Connection]
  BY DEF Book, Drop, NoConnection, Connection, Bytes, Lines
<1>2. \A c \in Clients : conn'[c] = IF c \in S THEN NoConnection ELSE conn[c]
  BY DEF Drop
<1>3. Cardinality(clients_)' <= MaxClients
  <2>1. clients_' \subseteq clients_
    BY <1>2 DEF clients_, Attached, NoConnection
  <2> QED
    BY <2>1, FewerFit DEF Book
<1>4. HoldsAreLive'
  BY <1>2 DEF Book, HoldsAreLive, Suspending, Attached, NoConnection, Drop
<1>5. Untold'
  BY <1>2 DEF Book, Untold, NoConnection, Drop
<1> QED
  BY <1>1, <1>3, <1>4, <1>5 DEF Book, Drop

LEMMA RefuseKeepsBook ==
    ASSUME Book, NEW c \in Clients, Attached(c), conn[c].request = "none",
           NEW inbox \in Bytes, NEW request \in {"none", "refused"},
           Refuse(c, inbox, request)
    PROVE  Book' /\ holds' = holds
<1>1. conn' \in [Clients -> Connection]
  <2>1. conn \in [Clients -> Connection]
    BY DEF Book
  <2>2. [conn[c] EXCEPT !.phase = "closing", !.inbox = inbox, !.request = request]
           \in Connection
    BY <2>1 DEF Connection
  <2>3. conn' = [conn EXCEPT ![c] = [conn[c] EXCEPT !.phase = "closing", !.inbox = inbox,
                                                    !.request = request]]
    BY DEF Refuse
  <2> QED
    BY <2>1, <2>2, <2>3
<1>2. /\ conn'[c].phase = "closing" /\ conn'[c].request = request
      /\ \A d \in Clients \ {c} : conn'[d] = conn[d]
  BY DEF Book, Refuse, Connection
<1>3. Cardinality(clients_)' <= MaxClients
  <2>1. clients_' \subseteq clients_
    BY <1>2 DEF clients_, Attached
  <2> QED
    BY <2>1, FewerFit DEF Book
<1>4. HoldsAreLive'
  BY <1>2 DEF Book, HoldsAreLive, Suspending, Attached, Refuse
<1>5. Untold'
  BY <1>2 DEF Book, Untold, Attached, Refuse
<1> QED
  BY <1>1, <1>3, <1>4, <1>5 DEF Book, Refuse

LEMMA AcknowledgeKeepsBook ==
    ASSUME Book, NEW S \in SUBSET Clients, NEW asked, AcknowledgePending(S, asked)
    PROVE  /\ Book' /\ pending' = pending \ S
           /\ S \cap holds = {} => holds \subseteq holds'
<1> DEFINE kept == {c \in S : Keeps(c, asked[c])}
<1>1. /\ holds' = (holds \ S) \cup kept /\ pending' = pending \ S
      /\ kept \subseteq S
  BY DEF AcknowledgePending
<1>2. \A c \in kept : /\ conn'[c] = [conn[c] EXCEPT !.request = "suspend",
                                                   !.inbox = "nothing"]
                      /\ conn[c].phase = "open" /\ ~conn[c].closed
  BY DEF AcknowledgePending, Keeps
<1>3. \A c \in S \ kept : conn'[c] = NoConnection
  BY DEF AcknowledgePending
<1>4. \A c \in Clients \ S : conn'[c] = conn[c] /\ told'[c] = told[c]
  BY DEF AcknowledgePending, Tell
<1>5. \A c \in kept : told'[c] = "locked"
  BY <1>1, <1>2 DEF AcknowledgePending, Tell
<1>6. conn' \in [Clients -> Connection]
  BY ZenonT(40) DEF Book, AcknowledgePending, Connection, NoConnection, Bytes, Lines
<1>7. told' \in [Clients -> {"none", "locked", "unlocked", "error"}]
  BY DEF Book, AcknowledgePending, Tell
<1>8. \A c \in kept : /\ conn'[c].phase = "open" /\ conn'[c].request = "suspend"
                      /\ Attached(c)
  BY ZenonT(40), <1>1, <1>2 DEF Book, Connection, Attached
<1> HIDE DEF kept
<1>9. Cardinality(clients_)' <= MaxClients
  <2>1. \A c \in Clients : Attached(c)' => Attached(c)
    BY <1>3, <1>4, <1>8 DEF Attached, NoConnection
  <2>2. clients_' \subseteq clients_
    BY <2>1 DEF clients_
  <2> QED
    BY <2>2, FewerFit DEF Book
<1>10. HoldsAreLive'
  <2>1. ASSUME NEW c \in kept PROVE Suspending(c)'
    BY <1>8, <1>5 DEF Suspending, Attached
  <2>2. ASSUME NEW c \in S \ kept PROVE ~Suspending(c)'
    BY <1>3 DEF Suspending, Attached, NoConnection
  <2>3. ASSUME NEW c \in Clients \ S PROVE Suspending(c)' <=> c \in holds
    BY <1>4 DEF Suspending, Attached, Book, HoldsAreLive
  <2>4. \A c \in Clients : Suspending(c)' <=> c \in holds'
    BY <1>1, <2>1, <2>2, <2>3
  <2>5. holds' \subseteq Clients
    BY <1>1 DEF Book
  <2> QED
    BY <2>4, <2>5 DEF HoldsAreLive
<1>11. Untold'
  <2>1. ASSUME NEW c \in Clients, conn'[c].phase # "none", c \notin holds'
        PROVE  told'[c] = "none"
    <3>1. c \notin S
      BY <2>1, <1>1, <1>3 DEF NoConnection
    <3>2. conn'[c] = conn[c] /\ told'[c] = told[c] /\ c \notin holds
      BY <2>1, <3>1, <1>1, <1>4
    <3> QED
      BY <2>1, <3>2 DEF Book, Untold
  <2> QED
    BY <2>1 DEF Untold
<1> QED
  BY <1>6, <1>7, <1>1, <1>9, <1>10, <1>11 DEF Book

---------------------------------------------------------------------------
(* Every step                                                              *)

\* Who is told "locked" in a step is told the truth.
Truthful ==
    \A c \in Clients : told'[c] = "locked" /\ told[c] # "locked" => screen' = "locked"

\* A step is one of HeldLock, and only the right password unlocks.
Kept ==
    \/ screen' = "locked" /\ holds \subseteq holds'
    \/ screen' = screen /\ holds' \subseteq holds
    \/ /\ screen = "locked" /\ holds = {} /\ \E o \in Outputs : secret[o] = "right"
       /\ screen' = "open" /\ holds' = holds
    \/ screen' = "revoked" /\ holds' = holds

Good == Invariant' /\ Truthful /\ Kept

LEMMA SameScreen ==
    ASSUME Screen, wl' = wl, screen' = screen, secret' = secret, waiting' = waiting
    PROVE  Screen'
BY DEF Screen, SecureIsLocked, secure

LEMMA AcceptStep ==
    ASSUME Invariant, NEW c \in Clients, AcceptConnection(c)
    PROVE  Good
<1> USE DEF Invariant
<1>1. Screen' /\ Truthful
  BY SameScreen DEF AcceptConnection, Truthful
<1>2. CASE Drop({c})
  <2>1. Book' /\ holds' \subseteq holds
    BY <1>2, DropKeepsBook DEF AcceptConnection, Book
  <2> QED
    BY <1>1, <1>2, <2>1 DEF Good, Kept, AcceptConnection, Drop, SecureMeansAnswered, secure
<1>3. CASE /\ Cardinality(clients_) < MaxClients
           /\ conn' = [conn EXCEPT ![c].phase = "open"]
           /\ UNCHANGED <<pending, holds>>
  <2>1. /\ conn' \in [Clients -> Connection]
        /\ conn'[c].phase = "open" /\ conn'[c].request = conn[c].request
        /\ \A d \in Clients \ {c} : conn'[d] = conn[d]
    BY <1>3 DEF Book, Connection
  <2>2. c \notin holds /\ told[c] = "none"
    BY DEF AcceptConnection, Book, HoldsAreLive, Suspending, Attached, Untold
  <2>3. Cardinality(clients_)' <= MaxClients
    <3>1. clients_' = clients_ \cup {c} /\ c \notin clients_
      BY <2>1 DEF clients_, Attached, AcceptConnection
    <3>2. IsFiniteSet(clients_)
      BY LockerAssumption, FS_Subset DEF clients_
    <3>3. Cardinality(clients_') = Cardinality(clients_) + 1
      BY <3>1, <3>2, FS_AddElement
    <3>4. Cardinality(clients_) \in Nat
      BY <3>2, FS_CardinalityType
    <3> QED
      BY <1>3, <3>3, <3>4, LockerAssumption
  <2>4. told' = told /\ holds' = holds /\ pending' = pending
    BY <1>3 DEF AcceptConnection
  <2>5. HoldsAreLive' /\ Untold'
    BY <2>1, <2>2, <2>4 DEF Book, HoldsAreLive, Suspending, Attached, Untold
  <2>6. Book'
    BY <2>1, <2>3, <2>4, <2>5 DEF Book
  <2> QED
    BY <1>1, <2>4, <2>6 DEF Good, Kept, AcceptConnection, SecureMeansAnswered, secure
<1> QED
  BY <1>2, <1>3 DEF AcceptConnection

\* A connection that ends, whatever it is told
LEMMA EndStep ==
    ASSUME Invariant, NEW c \in Clients, Drop({c}),
           told' = told \/ \E line \in {"locked", "unlocked", "error"} :
                             Tell({c}, line) /\ (line = "locked" => secure),
           UNCHANGED <<wl, screen, secret, waiting>>
    PROVE  Good
<1> USE DEF Invariant
<1>1. /\ told' \in [Clients -> {"none", "locked", "unlocked", "error"}]
      /\ \A d \in Clients \ {c} : told'[d] = told[d]
  BY DEF Tell, Book
<1>2. Book' /\ holds' \subseteq holds
  BY <1>1, DropKeepsBook
<1>3. Screen'
  BY SameScreen
<1>4. Truthful
  BY <1>1 DEF Truthful, Tell, Screen, SecureIsLocked, Book
<1> QED
  BY <1>2, <1>3, <1>4 DEF Good, Kept, Drop, SecureMeansAnswered, secure

LEMMA RequestStep ==
    ASSUME Invariant, NEW c \in Clients, Attached(c), conn[c].request = "none",
           NEW request \in {"lock", "suspend"}, ReadRequest(c, request),
           UNCHANGED <<screen, secret, waiting>>
    PROVE  Good
<1> USE DEF Invariant
<1>1. c \notin holds
  BY DEF Book, HoldsAreLive, Suspending
<1>2. CASE secure
  <2> DEFINE asked == [d \in Clients |-> IF d = c THEN request ELSE conn[d].request]
  <2>1. AcknowledgePending(pending \cup {c}, asked) /\ UNCHANGED wl
    BY <1>2 DEF ReadRequest
  <2>2. pending = {}
    BY <1>2 DEF SecureMeansAnswered
  <2> HIDE DEF asked
  <2>3. Book' /\ pending' = {} /\ holds \subseteq holds'
    BY SMTT(30), <1>1, <2>1, <2>2, AcknowledgeKeepsBook DEF Book
  <2>4. Screen'
    BY <2>1, SameScreen
  <2>5. screen' = "locked"
    BY <1>2 DEF Screen, SecureIsLocked
  <2> QED
    BY <2>3, <2>4, <2>5 DEF Good, Truthful, Kept, SecureMeansAnswered
<1>3. CASE ~secure
  <2>1. /\ conn' = [conn EXCEPT ![c].request = request, ![c].inbox = "nothing"]
        /\ pending' = pending \cup {c} /\ wl' = "asked"
        /\ told' = told /\ holds' = holds
    BY <1>3 DEF ReadRequest
  <2>2. /\ conn' \in [Clients -> Connection]
        /\ conn'[c].phase = conn[c].phase
        /\ \A d \in Clients \ {c} : conn'[d] = conn[d]
    BY ZenonT(40), <2>1 DEF Book, Connection, Bytes, Lines
  <2>3. told[c] = "none"
    BY <1>1 DEF Book, Untold, Attached
  <2>4. HoldsAreLive' /\ Untold'
    BY <1>1, <2>1, <2>2, <2>3 DEF Book, HoldsAreLive, Suspending, Attached, Untold
  <2>5. Cardinality(clients_)' <= MaxClients
    <3>1. clients_' \subseteq clients_
      BY <2>2 DEF clients_, Attached
    <3> QED
      BY <3>1, FewerFit DEF Book
  <2>6. Book'
    BY <1>1, <2>1, <2>2, <2>4, <2>5 DEF Book
  <2> QED
    BY <2>1, <2>6 DEF Good, Truthful, Kept, Screen, SecureIsLocked, SecureMeansAnswered, secure
<1> QED
  BY <1>2, <1>3

LEMMA RefuseStep ==
    ASSUME Invariant, NEW c \in Clients, Attached(c), conn[c].request = "none",
           NEW inbox \in Bytes, NEW request \in {"none", "refused"},
           Refuse(c, inbox, request), UNCHANGED <<wl, screen, secret, waiting>>
    PROVE  Good
<1>1. Book' /\ holds' = holds
  BY RefuseKeepsBook DEF Invariant
<1>2. Screen'
  BY SameScreen DEF Invariant
<1> QED
  BY <1>1, <1>2
     DEF Good, Invariant, Truthful, Kept, Refuse, SecureMeansAnswered, secure

LEMMA EndpointStep ==
    ASSUME Invariant, NEW c \in Clients, Endpoint(c)
    PROVE  Good
<1>1. CASE AcceptConnection(c)
  BY <1>1, AcceptStep
<1>2. CASE Read(c)
  <2>1. /\ Attached(c) /\ conn[c].request = "none"
        /\ UNCHANGED <<screen, secret, waiting>>
    BY <1>2 DEF Read
  <2>2. CASE ReadTooMuch(c)
    BY <2>1, <2>2, EndStep DEF ReadTooMuch, Disconnect
  <2>3. CASE ReadMoreThanALine(c)
    BY <2>1, <2>3, RefuseStep DEF ReadMoreThanALine, Bytes
  <2>4. CASE ReadStatus(c)
    <3>1. \E line \in {"locked", "unlocked", "error"} :
              Tell({c}, line) /\ (line = "locked" => secure)
      BY <2>4 DEF ReadStatus
    <3> QED
      BY <2>1, <2>4, <3>1, EndStep DEF ReadStatus
  <2>5. CASE ReadOther(c)
    BY <2>1, <2>5, RefuseStep DEF ReadOther, Bytes
  <2>6. CASE \E request \in {"lock", "suspend"} : ReadRequest(c, request)
    BY <2>1, <2>6, RequestStep
  <2> QED
    BY <1>2, <2>2, <2>3, <2>4, <2>5, <2>6 DEF Read
<1>3. CASE WriteError(c)
  <2>1. \E line \in {"locked", "unlocked", "error"} :
            Tell({c}, line) /\ (line = "locked" => secure)
    BY <1>3 DEF WriteError
  <2> QED
    BY <1>3, <2>1, EndStep DEF WriteError
<1>4. CASE IdleTimeout(c)
  BY <1>4, EndStep DEF IdleTimeout, Disconnect
<1>5. CASE AnswerTimeout(c)
  BY <1>5, EndStep DEF AnswerTimeout, Disconnect
<1>6. CASE PeerGone(c)
  BY <1>6, EndStep DEF PeerGone
<1> QED
  BY <1>1, <1>2, <1>3, <1>4, <1>5, <1>6 DEF Endpoint

\* Clients only change what the endpoint has not looked at.
LEMMA ClientStep ==
    ASSUME Invariant, NEW c \in Clients, Client(c)
    PROVE  Good
<1> USE DEF Invariant
<1>1. /\ conn' \in [Clients -> Connection]
      /\ \A d \in Clients \ {c} : conn'[d] = conn[d] /\ told'[d] = told[d]
      /\ told' \in [Clients -> {"none", "locked", "unlocked", "error"}]
      /\ told'[c] \in {"none", told[c]}
      /\ UNCHANGED <<pending, holds, wl, screen, secret, waiting>>
  <2>1. CASE Connect(c)
    BY <2>1 DEF Connect, Book, Connection
  <2>2. ASSUME NEW bytes \in Bytes, Write(c, bytes)
        PROVE  /\ conn' = [conn EXCEPT ![c].inbox = bytes]
               /\ UNCHANGED <<told, pending, holds, wl, screen, secret, waiting>>
    BY <2>2 DEF Write
  <2>3. CASE \E bytes \in Bytes : Write(c, bytes)
    BY <2>2, <2>3 DEF Book, Connection
  <2>4. CASE Close(c)
    BY <2>4 DEF Close, Book, Connection
  <2> QED
    BY <2>1, <2>3, <2>4 DEF Client
<1>2. \/ /\ conn[c].phase = "none" /\ conn'[c].phase = "backlog" /\ told'[c] = "none"
      \/ /\ conn'[c].phase = conn[c].phase /\ conn'[c].request = conn[c].request
         /\ told' = told
  BY DEF Client, Connect, Write, Close, Book, Connection
<1>3. Cardinality(clients_)' <= MaxClients
  <2>1. clients_' \subseteq clients_
    BY <1>1, <1>2 DEF clients_, Attached
  <2> QED
    BY <2>1, FewerFit DEF Book
<1>4. HoldsAreLive' /\ Untold'
  BY <1>1, <1>2 DEF Book, HoldsAreLive, Suspending, Attached, Untold
<1>5. Book'
  BY <1>1, <1>3, <1>4 DEF Book
<1>6. Screen'
  BY <1>1, SameScreen
<1>7. Truthful
  BY <1>1 DEF Truthful
<1> QED
  BY <1>1, <1>5, <1>6, <1>7 DEF Good, Kept, SecureMeansAnswered, secure

\* What prompts and compositor do does not reach the books.
LEMMA SameBook ==
    ASSUME Book, UNCHANGED <<conn, told, pending, holds>>
    PROVE  Book' /\ Truthful
<1>1. clients_' = clients_
  BY DEF clients_, Attached
<1> QED
  BY <1>1 DEF Book, HoldsAreLive, Suspending, Attached, Untold, Truthful

LEMMA PromptStep ==
    ASSUME Invariant, NEW o \in Outputs, Prompt(o)
    PROVE  Good
<1> USE DEF Invariant
<1>1. UNCHANGED <<conn, told, pending, holds>>
  BY DEF Prompt, Input, RejectAtOnce, RejectedByPam, Authenticated, BackoffEnds
<1>2. Book' /\ Truthful
  BY <1>1, SameBook
<1>3. Screen'
  BY DEF Prompt, Input, RejectAtOnce, RejectedByPam, Authenticated, BackoffEnds,
         NoPrompts, Screen, SecureIsLocked, secure
<1>4. Kept
  BY <1>1 DEF Prompt, Input, RejectAtOnce, RejectedByPam, Authenticated, BackoffEnds,
              Kept, Screen, SecureIsLocked
<1>5. SecureMeansAnswered'
  BY <1>1 DEF Prompt, Input, RejectAtOnce, RejectedByPam, Authenticated, BackoffEnds,
              SecureMeansAnswered, secure
<1> QED
  BY <1>2, <1>3, <1>4, <1>5 DEF Good

LEMMA LockedStep ==
    ASSUME Invariant, Locked
    PROVE  Good
<1> USE DEF Invariant
<1> DEFINE asked == [c \in Clients |-> conn[c].request]
<1>1. AcknowledgePending(pending, asked)
  BY DEF Locked
<1> HIDE DEF asked
<1>2. Book' /\ pending' = {} /\ holds \subseteq holds'
  BY <1>1, AcknowledgeKeepsBook DEF Book
<1>3. Screen' /\ screen' = "locked"
  BY DEF Locked, Screen, SecureIsLocked
<1> QED
  BY <1>2, <1>3 DEF Good, Truthful, Kept, SecureMeansAnswered

LEMMA FinishedStep ==
    ASSUME Invariant, Finished
    PROVE  Good
<1> USE DEF Invariant
<1>1. Book' /\ Truthful
  BY SameBook DEF Finished
<1> QED
  BY <1>1 DEF Good, Finished, NoPrompts, Screen, SecureIsLocked, Kept,
              SecureMeansAnswered, secure

LEMMA CrashStep ==
    ASSUME Invariant, Crash
    PROVE  Good
<1> USE DEF Invariant
<1>1. Drop(Clients)
  BY DEF Crash, Drop, Book
<1>2. Book' /\ holds' \subseteq holds
  BY <1>1, DropKeepsBook DEF Crash, Book
<1> QED
  BY <1>2 DEF Good, Truthful, Kept, Crash, NoPrompts, Screen, SecureIsLocked,
              SecureMeansAnswered, secure

---------------------------------------------------------------------------
(* The theorems                                                            *)

LEMMA Initially == Init => Invariant
<1> SUFFICES ASSUME Init PROVE Invariant
  OBVIOUS
<1>1. clients_ = {}
  BY DEF Init, clients_, Attached, NoConnection
<1>2. Cardinality(clients_) <= MaxClients
  BY <1>1, FS_EmptySet, LockerAssumption
<1>3. conn \in [Clients -> Connection]
  BY DEF Init, Connection, NoConnection, Bytes, Lines
<1> QED
  BY <1>2, <1>3 DEF Init, Invariant, Book, Screen, HoldsAreLive, Suspending, Attached,
                    NoConnection, Untold, SecureIsLocked, SecureMeansAnswered, secure,
                    Prompts

LEMMA Stepwise == Invariant /\ [Next]_vars => Good
<1> SUFFICES ASSUME Invariant, [Next]_vars PROVE Good
  OBVIOUS
<1>1. CASE \E c \in Clients : Endpoint(c) \/ Client(c)
  BY <1>1, EndpointStep, ClientStep
<1>2. CASE \E o \in Outputs : Prompt(o)
  BY <1>2, PromptStep
<1>3. CASE Locked \/ Finished \/ Crash
  BY <1>3, LockedStep, FinishedStep, CrashStep
<1>4. CASE UNCHANGED vars
  <2>1. Book' /\ Truthful
    BY <1>4, SameBook DEF Invariant, vars
  <2>2. Screen'
    BY <1>4, SameScreen DEF Invariant, vars
  <2> QED
    BY <1>4, <2>1, <2>2
       DEF Good, Kept, Invariant, vars, SecureMeansAnswered, secure
<1> QED
  BY <1>1, <1>2, <1>3, <1>4 DEF Next

THEOREM InvariantHolds == Spec => []Invariant
<1>1. Invariant /\ [Next]_vars => Invariant'
  BY Stepwise DEF Good
<1> QED
  BY <1>1, Initially, PTL DEF Spec

\* The types, and the limit on the clients of main.cpp:137
THEOREM TypeCorrect == Spec => []TypeOK
<1>1. Invariant => TypeOK
  BY DEF Invariant, Book, Screen, TypeOK
<1> QED
  BY <1>1, InvariantHolds, PTL

\* No client is left waiting when the session lock turns secure (setSecure,
\* readRequest).
THEOREM NobodyWaitsForALockedScreen == Spec => []SecureMeansAnswered
<1>1. Invariant => SecureMeansAnswered
  BY DEF Invariant
<1> QED
  BY <1>1, InvariantHolds, PTL

\* suspendHolds_ has exactly the clients that were told so and are still there
\* (acknowledgePending and the handler of disconnected).
THEOREM HoldsAreOfLiveClients == Spec => []HoldsAreLive
<1>1. Invariant => HoldsAreLive
  BY DEF Invariant, Book
<1> QED
  BY <1>1, InvariantHolds, PTL

\* "locked" is only ever answered under a locked screen.
THEOREM AnswersAreTrue == Spec => LockedIsTrue
<1>1. Invariant /\ [Next]_vars =>
        [\A c \in Clients : told'[c] = "locked" /\ told[c] # "locked" =>
            screen' = "locked"]_vars
  BY Stepwise DEF Good, Truthful
<1> QED
  BY <1>1, InvariantHolds, PTL DEF Spec, LockedIsTrue

\* The prompts alone unlock, and not while the machine is being suspended.
THEOREM UnlockedByPasswordOnly == Spec => OnlyThePasswordOpens
<1>1. Invariant /\ [Next]_vars =>
        [screen = "locked" /\ screen' = "open" =>
            /\ \E o \in Outputs : secret[o] = "right"
            /\ ~\E c \in Clients : Suspending(c)]_vars
  BY Stepwise DEF Good, Kept, Invariant, Book, HoldsAreLive
<1> QED
  BY <1>1, InvariantHolds, PTL DEF Spec, OnlyThePasswordOpens

\* The lock program implements HeldLock.
THEOREM LockerKeepsItsPromise == Spec => ImplementsHeldLock
<1>1. Init => Held!Init
  BY DEF Init, Held!Init, Suspending, Attached, NoConnection
<1>2. Invariant /\ Invariant' /\ [Next]_vars =>
        [Held!Next]_<<screen, {c \in Clients : Suspending(c)}>>
  <2> SUFFICES ASSUME Invariant, Invariant', [Next]_vars
               PROVE  [Held!Next]_<<screen, {c \in Clients : Suspending(c)}>>
    OBVIOUS
  <2>1. /\ holds = {c \in Clients : Suspending(c)}
        /\ holds' = {c \in Clients : Suspending(c)}'
    BY DEF Invariant, Book, HoldsAreLive
  <2>2. holds' \subseteq Clients
    BY DEF Invariant, Book
  <2>3. Kept
    BY Stepwise DEF Good
  <2> QED
    BY <2>1, <2>2, <2>3
       DEF Kept, Held!Next, Held!Hold, Held!Leave, Held!Unlock, Held!Revoke
<1> QED
  BY <1>1, <1>2, InvariantHolds, PTL DEF Spec, ImplementsHeldLock, Held!Spec
===========================================================================
