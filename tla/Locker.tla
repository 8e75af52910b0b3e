------------------------------ MODULE Locker ------------------------------
(***************************************************************************)
(* The lock program: its private endpoint (LockerEndpoint), the session    *)
(* lock of its QML root, one password prompt per output, and the           *)
(* supervisor.  Clients ask for a lock, or for a lock that is held while   *)
(* the machine sleeps (suspend); the answer is "locked" and comes when the *)
(* screen is.  A client that holds keeps its connection open and the       *)
(* prompts from unlocking.                                                 *)
(*                                                                         *)
(* An action is one turn of the event loop.  The property secure of the    *)
(* endpoint is bound to that of the session lock, and the latter's locked  *)
(* to root.lockRequested: wl stands for the three.  Clients, users, PAM    *)
(* and the compositor are external.  A local socket takes a line of seven  *)
(* bytes at once unless its peer has closed it.                            *)
(*                                                                         *)
(* An operator named Mut... is no part of the model: it is the definition  *)
(* after it with a slip, and shows which property would notice.            *)
(***************************************************************************)
EXTENDS Naturals, FiniteSets

CONSTANTS
    Clients,     \* each has one connection at a time
    MaxClients,  \* kMaximumClients
    Outputs      \* each has a prompt while the session is being locked

ASSUME LockerAssumption == IsFiniteSet(Clients) /\ MaxClients \in Nat

VARIABLES
    conn,     \* what the endpoint and the kernel know of each connection
    told,     \* the last line each client got on its connection
    pending,  \* pending_
    holds,    \* suspendHolds_
    wl,       \* the session lock: idle, asked for, or secure
    screen,   \* locked, opened by a prompt, or revoked: by the compositor itself
    secret,   \* what each prompt holds
    waiting   \* prompts whose retryAfterMs_ is not over

vars == <<conn, told, pending, holds, wl, screen, secret, waiting>>

\* A request, a part of one, one with more behind it, and more than
\* kMaximumRequestBytes.
Lines == {"lock", "suspend", "status", "other"}
Bytes == Lines \cup {"nothing", "part", "extra", "long"}

\* request is what was accepted, after which readyRead is disconnected.
Connection ==
    [phase : {"none", "backlog", "open", "closing"}, inbox : Bytes,
     request : {"none", "lock", "suspend", "refused"}, closed : BOOLEAN]

NoConnection ==
    [phase |-> "none", inbox |-> "nothing", request |-> "none", closed |-> FALSE]

Attached(c) == conn[c].phase \in {"open", "closing"}
clients_ == {c \in Clients : Attached(c)}

secure == wl = "secure"

Prompts == /\ secret = [o \in Outputs |-> "empty"]
           /\ waiting = [o \in Outputs |-> FALSE]

Init ==
    /\ conn = [c \in Clients |-> NoConnection]
    /\ told = [c \in Clients |-> "none"]
    /\ pending = {} /\ holds = {}
    /\ wl = "idle" /\ screen = "open"
    /\ Prompts

---------------------------------------------------------------------------
(* The endpoint                                                            *)

\* A connection that ends takes its request with it, but not its hold.
MutDrop(S) ==
    /\ conn' = [c \in Clients |-> IF c \in S THEN NoConnection ELSE conn[c]]
    /\ pending' = pending \ S
    /\ UNCHANGED holds

\* The handler of disconnected
Drop(S) ==
    /\ conn' = [c \in Clients |-> IF c \in S THEN NoConnection ELSE conn[c]]
    /\ pending' = pending \ S
    /\ holds' = holds \ S

\* What S are sent, unless they have gone
Tell(S, line) ==
    told' = [c \in Clients |-> IF c \in S /\ ~conn[c].closed THEN line ELSE told[c]]

\* disconnectFromServer with nothing to be written
Disconnect(c) == conn[c].phase = "open" /\ Drop({c}) /\ UNCHANGED told

\* The same behind an error that is not written yet
Refuse(c, inbox, request) ==
    /\ conn' = [conn EXCEPT ![c].phase = "closing", ![c].inbox = inbox,
                            ![c].request = request]
    /\ UNCHANGED <<told, pending, holds>>

\* Whether a suspend takes its hold: the connection still stands after flush
\* and shutdown.
Keeps(c, request) ==
    request = "suspend" /\ conn[c].phase = "open" /\ ~conn[c].closed

\* acknowledgePending; asked has the request of everyone in S.
AcknowledgePending(S, asked) ==
    LET kept == {c \in S : Keeps(c, asked[c])}
    IN  /\ Tell(S, "locked")
        /\ pending' = pending \ S
        /\ holds' = (holds \ S) \cup kept
        /\ conn' = [c \in Clients |->
                      IF c \in kept
                      THEN [conn[c] EXCEPT !.request = "suspend", !.inbox = "nothing"]
                      ELSE IF c \in S THEN NoConnection ELSE conn[c]]

\* acceptConnections; nothing is read yet.
AcceptConnection(c) ==
    /\ conn[c].phase = "backlog"
    /\ \/ /\ Cardinality(clients_) >= MaxClients
          /\ Drop({c})
       \/ /\ Cardinality(clients_) < MaxClients
          /\ conn' = [conn EXCEPT ![c].phase = "open"]
          /\ UNCHANGED <<pending, holds>>
    /\ UNCHANGED <<told, wl, screen, secret, waiting>>

ReadTooMuch(c) == conn[c].inbox = "long" /\ Disconnect(c) /\ UNCHANGED wl

\* The rest of the bytes stays in the buffer, readyRead connected.
ReadMoreThanALine(c) ==
    conn[c].inbox = "extra" /\ Refuse(c, "part", "none") /\ UNCHANGED wl

\* The status is that of the request.
MutReadStatus(c) ==
    /\ conn[c].inbox = "status"
    /\ Tell({c}, IF wl # "idle" THEN "locked" ELSE "unlocked")
    /\ Drop({c})
    /\ UNCHANGED wl

ReadStatus(c) ==
    /\ conn[c].inbox = "status"
    /\ Tell({c}, IF secure THEN "locked" ELSE "unlocked")
    /\ Drop({c})
    /\ UNCHANGED wl

ReadOther(c) ==
    conn[c].inbox = "other" /\ Refuse(c, "nothing", "refused") /\ UNCHANGED wl

\* A request while the screen is locked waits like any other.
MutReadRequest(c, request) ==
    /\ conn[c].inbox = request
    /\ conn' = [conn EXCEPT ![c].request = request, ![c].inbox = "nothing"]
    /\ pending' = pending \cup {c}
    /\ wl' = IF wl = "idle" THEN "asked" ELSE wl
    /\ UNCHANGED <<told, holds>>

\* Asked for is as good as locked.
MutReadRequestEarly(c, request) ==
    /\ conn[c].inbox = request
    /\ AcknowledgePending(pending \cup {c},
                          [d \in Clients |-> IF d = c THEN request ELSE conn[d].request])
    /\ wl' = IF wl = "idle" THEN "asked" ELSE wl

\* lock and suspend
ReadRequest(c, request) ==
    /\ conn[c].inbox = request
    /\ \/ /\ secure
          /\ AcknowledgePending(pending \cup {c},
                                [d \in Clients |-> IF d = c THEN request ELSE conn[d].request])
          /\ UNCHANGED wl
       \/ /\ ~secure
          /\ conn' = [conn EXCEPT ![c].request = request, ![c].inbox = "nothing"]
          /\ pending' = pending \cup {c}
          /\ wl' = "asked"
          /\ UNCHANGED <<told, holds>>

\* readRequest
Read(c) ==
    /\ Attached(c) /\ conn[c].request = "none"
    /\ \/ ReadTooMuch(c) \/ ReadMoreThanALine(c) \/ ReadStatus(c) \/ ReadOther(c)
       \/ \E request \in {"lock", "suspend"} : ReadRequest(c, request)
    /\ UNCHANGED <<screen, secret, waiting>>

\* The error has been written, and the connection ends.
WriteError(c) ==
    /\ conn[c].phase = "closing"
    /\ Tell({c}, "error")
    /\ Drop({c})
    /\ UNCHANGED <<wl, screen, secret, waiting>>

\* A client that has sent something is left alone.
MutIdleTimeout(c) ==
    /\ conn[c].request = "none" /\ conn[c].inbox = "nothing"
    /\ Disconnect(c)
    /\ UNCHANGED <<wl, screen, secret, waiting>>

\* Two seconds without a request
IdleTimeout(c) ==
    /\ conn[c].request = "none"
    /\ Disconnect(c)
    /\ UNCHANGED <<wl, screen, secret, waiting>>

\* Five seconds without an answer
AnswerTimeout(c) ==
    /\ c \in pending
    /\ Disconnect(c)
    /\ UNCHANGED <<wl, screen, secret, waiting>>

\* The end of a connection is seen behind everything it carried.
Unread(c) ==
    conn[c].request = "none" /\ conn[c].inbox \notin {"nothing", "part"}

PeerGone(c) ==
    /\ Attached(c) /\ conn[c].closed /\ ~Unread(c)
    /\ Drop({c})
    /\ UNCHANGED <<told, wl, screen, secret, waiting>>

---------------------------------------------------------------------------
(* The prompts and the compositor                                          *)

\* The surfaces and their prompts go with the lock.
NoPrompts == /\ secret' = [o \in Outputs |-> "empty"]
             /\ waiting' = [o \in Outputs |-> FALSE]

\* Typing, erasing and cancelling
Input(o, text) ==
    /\ wl # "idle"
    /\ secret' = [secret EXCEPT ![o] = text]
    /\ UNCHANGED <<conn, told, pending, holds, wl, screen, waiting>>

\* Nothing is asked: the prompt is empty or has to wait.
RejectAtOnce(o) ==
    /\ wl # "idle"
    /\ secret[o] = "empty" \/ waiting[o]
    /\ secret' = [secret EXCEPT ![o] = "empty"]
    /\ UNCHANGED <<conn, told, pending, holds, wl, screen, waiting>>

RejectedByPam(o) ==
    /\ wl # "idle"
    /\ secret[o] # "empty" /\ ~waiting[o]
    /\ secret' = [secret EXCEPT ![o] = "empty"]
    /\ waiting' = [waiting EXCEPT ![o] = TRUE]
    /\ UNCHANGED <<conn, told, pending, holds, wl, screen>>

\* Holds are not asked about.
MutAuthenticated(o) ==
    /\ secret[o] = "right" /\ ~waiting[o]
    /\ \/ /\ secure
          /\ wl' = "idle" /\ screen' = "open"
          /\ NoPrompts
       \/ /\ wl = "asked"
          /\ secret' = [secret EXCEPT ![o] = "empty"]
          /\ UNCHANGED <<wl, screen, waiting>>
    /\ UNCHANGED <<conn, told, pending, holds>>

\* onAuthenticated: the session is unlocked if it is secure and nobody holds.
Authenticated(o) ==
    /\ secret[o] = "right" /\ ~waiting[o]
    /\ \/ /\ secure /\ holds = {}
          /\ wl' = "idle" /\ screen' = "open"
          /\ NoPrompts
       \/ /\ wl # "idle" /\ ~(secure /\ holds = {})
          /\ secret' = [secret EXCEPT ![o] = "empty"]
          /\ UNCHANGED <<wl, screen, waiting>>
    /\ UNCHANGED <<conn, told, pending, holds>>

BackoffEnds(o) ==
    /\ waiting[o]
    /\ waiting' = [waiting EXCEPT ![o] = FALSE]
    /\ UNCHANGED <<conn, told, pending, holds, wl, screen, secret>>

Prompt(o) == \/ \E text \in {"empty", "right", "wrong"} : Input(o, text)
             \/ RejectAtOnce(o) \/ RejectedByPam(o) \/ Authenticated(o)
             \/ BackoffEnds(o)

\* The screen is locked: setSecure.
Locked ==
    /\ wl = "asked"
    /\ wl' = "secure" /\ screen' = "locked"
    /\ AcknowledgePending(pending, [c \in Clients |-> conn[c].request])
    /\ UNCHANGED <<secret, waiting>>

\* The compositor refuses the lock, or ends one it granted.
Finished ==
    /\ wl # "idle"
    /\ wl' = "idle"
    /\ screen' = IF secure THEN "revoked" ELSE screen
    /\ NoPrompts
    /\ UNCHANGED <<conn, told, pending, holds>>

\* The process ends, in whatever way; the supervisor reports a failure and a
\* new one is started.  The compositor keeps the screen as it is.
Crash ==
    /\ conn' = [c \in Clients |-> NoConnection]
    /\ pending' = {} /\ holds' = {}
    /\ wl' = "idle"
    /\ NoPrompts
    /\ UNCHANGED <<told, screen>>

---------------------------------------------------------------------------
(* Clients                                                                 *)

Connect(c) ==
    /\ conn[c].phase = "none"
    /\ conn' = [conn EXCEPT ![c].phase = "backlog"]
    /\ told' = [told EXCEPT ![c] = "none"]
    /\ UNCHANGED <<pending, holds, wl, screen, secret, waiting>>

\* What a buffer can hold after some more bytes
More(inbox) ==
    CASE inbox = "nothing"             -> Bytes \ {"nothing"}
      [] inbox = "part"                -> Bytes \ {"nothing", "part"}
      [] inbox \in Lines \cup {"extra"} -> {"extra", "long"}
      [] OTHER                         -> {"long"}

Write(c, bytes) ==
    /\ Attached(c) /\ ~conn[c].closed /\ conn[c].request = "none"
    /\ bytes \in More(conn[c].inbox)
    /\ conn' = [conn EXCEPT ![c].inbox = bytes]
    /\ UNCHANGED <<told, pending, holds, wl, screen, secret, waiting>>

Close(c) ==
    /\ conn[c].phase # "none" /\ ~conn[c].closed
    /\ conn' = [conn EXCEPT ![c].closed = TRUE]
    /\ UNCHANGED <<told, pending, holds, wl, screen, secret, waiting>>

Endpoint(c) == \/ AcceptConnection(c) \/ Read(c) \/ WriteError(c)
               \/ IdleTimeout(c) \/ AnswerTimeout(c) \/ PeerGone(c)

Client(c) == Connect(c) \/ (\E bytes \in Bytes : Write(c, bytes)) \/ Close(c)

Next == \/ \E c \in Clients : Endpoint(c) \/ Client(c)
        \/ \E o \in Outputs : Prompt(o)
        \/ Locked \/ Finished \/ Crash

\* The endpoint's event loop runs and its timers fire.
Fairness == \A c \in Clients :
    /\ WF_vars(AcceptConnection(c)) /\ WF_vars(Read(c)) /\ WF_vars(WriteError(c))
    /\ WF_vars(IdleTimeout(c)) /\ WF_vars(AnswerTimeout(c)) /\ WF_vars(PeerGone(c))

Spec == Init /\ [][Next]_vars
FairSpec == Spec /\ Fairness

---------------------------------------------------------------------------
(* Properties                                                              *)

\* Every variable keeps its type, and no more than kMaximumClients are
\* attached.
TypeOK ==
    /\ conn \in [Clients -> Connection]
    /\ told \in [Clients -> {"none", "locked", "unlocked", "error"}]
    /\ pending \subseteq Clients /\ holds \subseteq Clients
    /\ wl \in {"idle", "asked", "secure"} /\ screen \in {"open", "locked", "revoked"}
    /\ secret \in [Outputs -> {"empty", "right", "wrong"}]
    /\ waiting \in [Outputs -> BOOLEAN]
    /\ Cardinality(clients_) <= MaxClients

\* Nobody waits for a screen that is locked: who asks while it is, or before
\* it is, has been answered when it is.
SecureMeansAnswered == secure => pending = {}

\* A client that was told that the screen is locked for its suspend, and whose
\* connection stands
Suspending(c) ==
    Attached(c) /\ conn[c].request = "suspend" /\ told[c] = "locked"

\* The holds are those of these clients: none is missed when the screen is
\* locked, and none outlives its connection.
HoldsAreLive == holds = {c \in Clients : Suspending(c)}

\* A client is only told "locked" when the compositor has locked the screen.
LockedIsTrue ==
    [][\A c \in Clients : told'[c] = "locked" /\ told[c] # "locked" =>
          screen' = "locked"]_vars

\* Unless the compositor ends the lock itself, the screen is only opened by
\* the right password, and never under a client that suspends the machine:
\* whatever the other clients, prompts and crashes do.
OnlyThePasswordOpens ==
    [][screen = "locked" /\ screen' = "open" =>
          /\ \E o \in Outputs : secret[o] = "right"
          /\ ~\E c \in Clients : Suspending(c)]_vars

\* The program keeps the promise of HeldLock: nobody joins but while the screen
\* is locked, nobody leaves but by the end of the connection, and there is no
\* unlocking in between.
Held == INSTANCE HeldLock WITH holders <- {c \in Clients : Suspending(c)}
ImplementsHeldLock == Held!Spec

\* Every connection ends, but those of clients that hold and stay: idle, half
\* written, refused and unanswered ones never use up the slots.
SlotsAreFreed ==
    \A c \in Clients :
        []<>(~Attached(c) \/ (c \in holds /\ ~conn[c].closed))
===========================================================================
