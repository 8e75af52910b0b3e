--------------------------- MODULE CommandProofs ---------------------------
(***************************************************************************)
(* Proofs about CommandControl and ActionFeedback, for every bound on the  *)
(* requests and on the generations.                                        *)
(*                                                                         *)
(* The invariant has three parts.  Turns is what the protocol and the lock *)
(* request keep of each other between two turns of the event loop.  Book   *)
(* follows every request through the wire: it is written at most once,     *)
(* served at most once, and a reply on its way back is true.  Attempts is  *)
(* about the requests of one lock intent: all but the last are refused for *)
(* good and older.  The last two take the state as parameters, so that a   *)
(* turn that writes, stamps and allocates at once is proved piece by piece.*)
(***************************************************************************)
EXTENDS ActionFeedback, SequenceTheorems, FiniteSetTheorems, TLAPS

Turns ==
    /\ proto.responseTimeout <=> Busy
    /\ lock.pending <=> lock.requestId # None
    /\ lock.awaitingReply <=> lock.pending /\ Busy /\ proto.pendingRequestId = lock.requestId
    /\ ~lock.suppressFailure
    /\ lock.deadline => lock.pending
    /\ seenGeneration <= daemonGeneration
    /\ NoLostAttempt

\* Written, not served yet
Unserved(reqs, id) == reqs[id].written = 1 /\ reqs[id].executions = 0

\* No id is waiting twice.
Distinct(td, orph) ==
    /\ \A k \in 1 .. Len(td) : td[k] \notin orph
    /\ \A k, m \in 1 .. Len(td) : td[k] = td[m] => k = m

\* The ids that may still be served
UnderWay(td, orph) == {td[k] : k \in 1 .. Len(td)} \cup orph

Answers(fd) == {fd[k] : k \in 1 .. Len(fd)}

\* What a reply says is true.
Truthful(reqs, reply, away) ==
    /\ reply.id \in 1 .. Len(reqs) /\ reply.id \notin away
    /\ reqs[reply.id].written = 1
    /\ reply.result = "executed" <=> reqs[reply.id].executions = 1
    /\ reply.result = "stale" => reqs[reply.id].expected < reply.generation

Book(reqs, away, answers, queued, gen) ==
    /\ \A id \in 1 .. Len(reqs) :
          /\ reqs[id].written <= 1 /\ reqs[id].executions <= reqs[id].written
          /\ reqs[id].expected <= gen
    /\ queued # None => reqs[queued].written = 0
    /\ \A id \in away : Unserved(reqs, id)
    /\ \A reply \in answers : Truthful(reqs, reply, away)

\* Refused for good
Settled(reqs, id, away) == Unserved(reqs, id) /\ id \notin away

Attempts(reqs, away, lk, queued, n) ==
    /\ \A id \in 1 .. Len(reqs) : reqs[id].intent <= n
    /\ lk.pending =>
          /\ n >= 1 /\ reqs[lk.requestId].intent = n
          /\ ~lk.awaitingReply => reqs[lk.requestId].written = 0
          /\ \A id \in 1 .. Len(reqs) : reqs[id].intent = n /\ id # lk.requestId =>
                id < lk.requestId /\ reqs[id].expected < lk.minimumGeneration
    /\ \A i, j \in 1 .. Len(reqs) :
          i < j /\ reqs[i].intent = reqs[j].intent /\ reqs[i].intent # 0 =>
             /\ Settled(reqs, i, away)
             /\ reqs[j].written > 0 \/ j = queued => reqs[j].expected > reqs[i].expected

Ledger ==
    /\ Distinct(toDaemon, orphans)
    /\ Book(requests, UnderWay(toDaemon, orphans), Answers(fromDaemon),
            proto.queued, seenGeneration)
    /\ Attempts(requests, UnderWay(toDaemon, orphans), lock, proto.queued, intent)

Invariant == CommandTypeOK /\ Turns /\ Ledger

Emits == emitted \in {<<>>, <<"completed">>, <<"failed">>}
Tracks ==
    /\ pendingActionId \in Actions \cup {""}
    /\ actionFeedback \in [Actions -> Statuses]
    /\ tracked \in [Actions -> Nat]
    /\ \A a \in Actions : actionFeedback[a] = "pending" => pendingActionId = a
    /\ NothingPendingForever
    /\ pendingActionId = "other" =>
          /\ Busy /\ ~lock.awaitingReply
          /\ proto.pendingRequestId = tracked["other"]

---------------------------------------------------------------------------
(* What happens to the list of requests                                    *)

\* The types of the parameters
Wire(reqs, away, answers, queued) ==
    /\ reqs \in Seq(Request) /\ away \subseteq 1 .. Len(reqs)
    /\ answers \subseteq Reply /\ queued \in 0 .. Len(reqs)

SameLife(new, old, i) ==
    new[i].written = old[i].written /\ new[i].executions = old[i].executions

\* A request of intent n is allocated.
Grown(new, old, n) ==
    /\ new \in Seq(Request) /\ Len(new) = Len(old) + 1
    /\ \A i \in 1 .. Len(old) : new[i] = old[i]
    /\ new[Len(new)] = NewRequest(n)

\* The line of request id names generation g.
Stamped(new, old, id, g) ==
    /\ new \in Seq(Request) /\ Len(new) = Len(old)
    /\ \A i \in 1 .. Len(old) :
          /\ new[i].intent = old[i].intent /\ SameLife(new, old, i)
          /\ new[i].expected = IF i = id THEN g ELSE old[i].expected

\* Request id is written.
Written(new, old, id) ==
    /\ new \in Seq(Request) /\ Len(new) = Len(old)
    /\ \A i \in 1 .. Len(old) :
          /\ new[i].intent = old[i].intent /\ new[i].expected = old[i].expected
          /\ new[i].executions = old[i].executions
          /\ new[i].written = IF i = id THEN old[i].written + 1 ELSE old[i].written

\* The daemon executes request id.
Executed(new, old, id) ==
    /\ new \in Seq(Request) /\ Len(new) = Len(old)
    /\ \A i \in 1 .. Len(old) :
          /\ new[i].intent = old[i].intent /\ new[i].expected = old[i].expected
          /\ new[i].written = old[i].written
          /\ new[i].executions = IF i = id THEN old[i].executions + 1
                                 ELSE old[i].executions

LEMMA AppendGrows ==
    ASSUME NEW reqs \in Seq(Request), NEW n \in Nat
    PROVE  Grown(Append(reqs, NewRequest(n)), reqs, n)
<1>1. NewRequest(n) \in Request
  BY DEF NewRequest, Request
<1> QED
  BY <1>1, AppendProperties DEF Grown

LEMMA RequestFields ==
    ASSUME NEW q \in Request, NEW g \in Nat
    PROVE  LET stamp == [q EXCEPT !.expected = g]
               line == [q EXCEPT !.written = @ + 1]
               run == [q EXCEPT !.executions = @ + 1]
           IN  /\ stamp \in Request /\ stamp.intent = q.intent /\ stamp.expected = g
               /\ stamp.written = q.written /\ stamp.executions = q.executions
               /\ line \in Request /\ line.intent = q.intent
               /\ line.expected = q.expected
               /\ line.written = q.written + 1 /\ line.executions = q.executions
               /\ run \in Request /\ run.intent = q.intent /\ run.expected = q.expected
               /\ run.written = q.written /\ run.executions = q.executions + 1
BY DEF Request

LEMMA ExceptStamps ==
    ASSUME NEW reqs \in Seq(Request), NEW id \in 1 .. Len(reqs), NEW g \in Nat
    PROVE  Stamped([reqs EXCEPT ![id].expected = g], reqs, id, g)
<1> DEFINE r == [reqs[id] EXCEPT !.expected = g]
           new == [reqs EXCEPT ![id] = r]
<1>1. reqs[id] \in Request
  BY ElementOfSeq
<1>2. r \in Request
  BY <1>1, RequestFields
<1>3. new \in Seq(Request) /\ Len(new) = Len(reqs)
  BY <1>2, ExceptSeq
<1>4. ASSUME NEW i \in 1 .. Len(reqs)
      PROVE  new[i] = IF i = id THEN r ELSE reqs[i]
  BY <1>2, ExceptSeq
<1>5. /\ r.intent = reqs[id].intent /\ r.expected = g
      /\ r.written = reqs[id].written /\ r.executions = reqs[id].executions
  BY <1>1, RequestFields
<1> HIDE DEF r, new
<1>6. Stamped(new, reqs, id, g)
  BY <1>3, <1>4, <1>5 DEF Stamped, SameLife
<1> QED
  BY <1>6 DEF new, r

LEMMA ExceptWrites ==
    ASSUME NEW reqs \in Seq(Request), NEW id \in 1 .. Len(reqs)
    PROVE  Written([reqs EXCEPT ![id].written = @ + 1], reqs, id)
<1> DEFINE r == [reqs[id] EXCEPT !.written = @ + 1]
           new == [reqs EXCEPT ![id] = r]
<1>1. reqs[id] \in Request
  BY ElementOfSeq
<1>2. r \in Request
  BY <1>1, RequestFields
<1>3. new \in Seq(Request) /\ Len(new) = Len(reqs)
  BY <1>2, ExceptSeq
<1>4. ASSUME NEW i \in 1 .. Len(reqs)
      PROVE  new[i] = IF i = id THEN r ELSE reqs[i]
  BY <1>2, ExceptSeq
<1>5. /\ r.intent = reqs[id].intent /\ r.expected = reqs[id].expected
      /\ r.written = reqs[id].written + 1 /\ r.executions = reqs[id].executions
  BY <1>1, RequestFields
<1> HIDE DEF r, new
<1>6. Written(new, reqs, id)
  BY <1>3, <1>4, <1>5 DEF Written
<1> QED
  BY <1>6 DEF new, r

LEMMA ExceptExecutes ==
    ASSUME NEW reqs \in Seq(Request), NEW id \in 1 .. Len(reqs)
    PROVE  Executed([reqs EXCEPT ![id].executions = @ + 1], reqs, id)
<1> DEFINE r == [reqs[id] EXCEPT !.executions = @ + 1]
           new == [reqs EXCEPT ![id] = r]
<1>1. reqs[id] \in Request
  BY ElementOfSeq
<1>2. r \in Request
  BY <1>1, RequestFields
<1>3. new \in Seq(Request) /\ Len(new) = Len(reqs)
  BY <1>2, ExceptSeq
<1>4. ASSUME NEW i \in 1 .. Len(reqs)
      PROVE  new[i] = IF i = id THEN r ELSE reqs[i]
  BY <1>2, ExceptSeq
<1>5. /\ r.intent = reqs[id].intent /\ r.expected = reqs[id].expected
      /\ r.written = reqs[id].written /\ r.executions = reqs[id].executions + 1
  BY <1>1, RequestFields
<1> HIDE DEF r, new
<1>6. Executed(new, reqs, id)
  BY <1>3, <1>4, <1>5 DEF Executed
<1> QED
  BY <1>6 DEF new, r

---------------------------------------------------------------------------
(* What each piece of a turn leaves of the ledger                          *)

LEMMA RequestTyped ==
    ASSUME NEW reqs \in Seq(Request), NEW id \in 1 .. Len(reqs)
    PROVE  /\ reqs[id] \in Request
           /\ reqs[id].intent \in Nat /\ reqs[id].expected \in Nat
           /\ reqs[id].written \in Nat /\ reqs[id].executions \in Nat
<1>1. reqs[id] \in Request
  BY ElementOfSeq
<1> QED
  BY <1>1 DEF Request

LEMMA GrowBook ==
    ASSUME NEW old, NEW new, NEW away, NEW answers, NEW queued, NEW gen \in Nat,
           NEW n \in Nat,
           Wire(old, away, answers, queued), Grown(new, old, n),
           Book(old, away, answers, queued, gen)
    PROVE  Book(new, away, answers, queued, gen)
<1>1. Len(old) \in Nat /\ 1 .. Len(old) \subseteq 1 .. Len(new)
  BY LenProperties DEF Wire, Grown
<1>2. ASSUME NEW id \in 1 .. Len(new)
      PROVE  /\ new[id].written <= 1 /\ new[id].executions <= new[id].written
             /\ new[id].expected <= gen
  <2>1. CASE id \in 1 .. Len(old)
    BY <2>1 DEF Grown, Book
  <2>2. CASE id = Len(new)
    BY <2>2 DEF Grown, NewRequest
  <2> QED
    BY <1>1, <2>1, <2>2 DEF Grown
<1>3. queued # None => new[queued].written = 0
  BY <1>1 DEF Wire, Book, Grown, None
<1>4. \A id \in away : Unserved(new, id)
  BY DEF Wire, Book, Grown, Unserved
<1>5. \A reply \in answers : Truthful(new, reply, away)
  BY <1>1 DEF Wire, Book, Grown, Truthful
<1> QED
  BY <1>2, <1>3, <1>4, <1>5 DEF Book

\* A request of no lock intent
LEMMA GrowOther ==
    ASSUME NEW old, NEW new, NEW away, NEW lk \in Lock, NEW queued, NEW n \in Nat,
           Wire(old, away, {}, queued), Grown(new, old, 0),
           lk.requestId \in 0 .. Len(old), lk.pending => lk.requestId # None,
           Attempts(old, away, lk, queued, n)
    PROVE  Attempts(new, away, lk, queued, n)
<1>1. Len(old) \in Nat /\ Len(new) = Len(old) + 1 /\ new[Len(new)].intent = 0
  BY LenProperties DEF Wire, Grown, NewRequest
<1>2. \A id \in 1 .. Len(new) : new[id].intent # 0 => id \in 1 .. Len(old)
  BY <1>1
<1>3. \A id \in 1 .. Len(old) : new[id] = old[id]
  BY DEF Grown
<1> QED
  BY <1>1, <1>2, <1>3 DEF Attempts, Settled, Unserved, Wire, None

\* The first request of intent n + 1, which becomes the pending one
LEMMA GrowIntent ==
    ASSUME NEW old, NEW new, NEW away, NEW lk, NEW l, NEW queued, NEW n \in Nat,
           Wire(old, away, {}, queued), Grown(new, old, n + 1),
           Attempts(old, away, lk, queued, n),
           l.requestId = Len(new), ~l.awaitingReply
    PROVE  Attempts(new, away, l, queued, n + 1)
<1>1. /\ Len(old) \in Nat /\ Len(new) = Len(old) + 1 /\ new[Len(new)].intent = n + 1
      /\ new[Len(new)].written = 0
  BY LenProperties DEF Wire, Grown, NewRequest
<1>2. \A id \in 1 .. Len(new) : id \in 1 .. Len(old) \/ id = Len(new)
  BY <1>1
<1>3. \A id \in 1 .. Len(old) : /\ new[id] = old[id] /\ old[id].intent \in Nat
                                /\ old[id].intent <= n
  BY RequestTyped DEF Grown, Wire, Attempts
<1>4. \A id \in 1 .. Len(new) : new[id].intent <= n + 1
  BY <1>1, <1>2, <1>3
<1>5. \A id \in 1 .. Len(new) : new[id].intent = n + 1 => id = Len(new)
  BY <1>2, <1>3
<1>6. ASSUME NEW i \in 1 .. Len(new), NEW j \in 1 .. Len(new),
             i < j, new[i].intent = new[j].intent, new[i].intent # 0
      PROVE  /\ Settled(new, i, away)
             /\ new[j].written > 0 \/ j = queued => new[j].expected > new[i].expected
  <2>1. i \in 1 .. Len(old) /\ j \in 1 .. Len(old)
    BY <1>1, <1>2, <1>3, <1>6
  <2> QED
    BY <1>3, <1>6, <2>1 DEF Attempts, Settled, Unserved
<1> QED
  BY <1>1, <1>4, <1>5, <1>6 DEF Attempts

\* The retry of the pending intent, whose last request was refused for good
LEMMA GrowRetry ==
    ASSUME NEW old, NEW new, NEW away, NEW lk \in Lock, NEW l \in Lock, NEW queued,
           NEW n \in Nat,
           Wire(old, away, {}, queued), Grown(new, old, n), queued = None,
           Attempts(old, away, lk, queued, n),
           lk.pending, lk.requestId \in 1 .. Len(old), Settled(old, lk.requestId, away),
           old[lk.requestId].expected < l.minimumGeneration,
           l.requestId = Len(new), ~l.awaitingReply
    PROVE  Attempts(new, away, l, queued, n)
<1>1. /\ Len(old) \in Nat /\ Len(new) = Len(old) + 1 /\ new[Len(new)].intent = n
      /\ new[Len(new)].written = 0
  BY LenProperties DEF Wire, Grown, NewRequest
<1>2. \A id \in 1 .. Len(new) : id \in 1 .. Len(old) \/ id = Len(new)
  BY <1>1
<1>3. \A id \in 1 .. Len(old) : /\ new[id] = old[id] /\ old[id].intent \in Nat
                                /\ old[id].intent <= n /\ old[id].expected \in Nat
  BY RequestTyped DEF Grown, Wire, Attempts
<1>4. n >= 1 /\ old[lk.requestId].intent = n /\ lk.requestId \in Nat
  BY DEF Attempts, Lock
<1>5. l.minimumGeneration \in Nat
  BY DEF Lock
<1>6. \A id \in 1 .. Len(new) : new[id].intent <= n
  BY <1>1, <1>2, <1>3
<1>7. \A id \in 1 .. Len(old) : old[id].intent = n =>
         Settled(old, id, away) /\ old[id].expected < l.minimumGeneration
  <2> SUFFICES ASSUME NEW id \in 1 .. Len(old), old[id].intent = n, id # lk.requestId
               PROVE  Settled(old, id, away) /\ old[id].expected < l.minimumGeneration
    OBVIOUS
  <2>1. id < lk.requestId
    BY DEF Attempts
  <2>2. old[lk.requestId].written > 0
    BY DEF Settled, Unserved
  <2>3. Settled(old, id, away) /\ old[lk.requestId].expected > old[id].expected
    BY <1>4, <2>1, <2>2 DEF Attempts
  <2> QED
    BY <1>3, <1>5, <2>3
<1>8. \A id \in 1 .. Len(new) : new[id].intent = n /\ id # Len(new) =>
         id < Len(new) /\ new[id].expected < l.minimumGeneration
  BY <1>1, <1>2, <1>3, <1>7
<1>9. ASSUME NEW i \in 1 .. Len(new), NEW j \in 1 .. Len(new),
             i < j, new[i].intent = new[j].intent, new[i].intent # 0
      PROVE  /\ Settled(new, i, away)
             /\ new[j].written > 0 \/ j = queued => new[j].expected > new[i].expected
  <2>1. i \in 1 .. Len(old)
    BY <1>1, <1>2, <1>9
  <2>2. CASE j \in 1 .. Len(old)
    BY <1>3, <1>9, <2>1, <2>2 DEF Attempts, Settled, Unserved
  <2>3. CASE j = Len(new)
    BY <1>1, <1>3, <1>7, <1>9, <2>1, <2>3 DEF Settled, Unserved, None
  <2> QED
    BY <1>2, <2>2, <2>3
<1> QED
  BY <1>1, <1>4, <1>6, <1>8, <1>9 DEF Attempts

\* A lock request that waits for nothing the other does not wait for
LEMMA LockEases ==
    ASSUME NEW reqs, NEW away, NEW lk, NEW l, NEW queued, NEW n,
           Attempts(reqs, away, lk, queued, n),
           l.pending => /\ lk.pending /\ l.requestId = lk.requestId
                        /\ l.minimumGeneration = lk.minimumGeneration
                        /\ ~l.awaitingReply => ~lk.awaitingReply
    PROVE  Attempts(reqs, away, l, queued, n)
BY DEF Attempts

\* Nothing is queued any more.
LEMMA QueueForgotten ==
    ASSUME NEW reqs, NEW away, NEW answers, NEW lk, NEW queued, NEW gen, NEW n,
           Book(reqs, away, answers, queued, gen), Attempts(reqs, away, lk, queued, n),
           Wire(reqs, away, answers, queued)
    PROVE  /\ Book(reqs, away, answers, None, gen) /\ Attempts(reqs, away, lk, None, n)
           /\ Wire(reqs, away, answers, None)
<1>1. Len(reqs) \in Nat /\ \A j \in 1 .. Len(reqs) : j # None
  BY LenProperties DEF Wire, None
<1> QED
  BY <1>1 DEF Book, Attempts, Wire, None

\* The shell has seen more generations.
LEMMA GenerationGrows ==
    ASSUME NEW reqs, NEW away, NEW answers, NEW queued, NEW gen \in Nat, NEW g \in Nat,
           gen <= g, Wire(reqs, away, answers, queued),
           Book(reqs, away, answers, queued, gen)
    PROVE  Book(reqs, away, answers, queued, g)
BY RequestTyped DEF Book, Wire

\* Fewer ids are under way, and fewer replies.
LEMMA BookEases ==
    ASSUME NEW reqs, NEW away, NEW answers, NEW queued, NEW gen, NEW lk, NEW n,
           NEW a \in SUBSET away, NEW s \in SUBSET answers,
           Book(reqs, away, answers, queued, gen), Attempts(reqs, away, lk, queued, n)
    PROVE  Book(reqs, a, s, queued, gen) /\ Attempts(reqs, a, lk, queued, n)
BY DEF Book, Truthful, Attempts, Settled

\* A true reply is on its way.
LEMMA BookAnswers ==
    ASSUME NEW reqs, NEW away, NEW answers, NEW queued, NEW gen, NEW reply,
           Book(reqs, away, answers, queued, gen), Truthful(reqs, reply, away)
    PROVE  Book(reqs, away, answers \cup {reply}, queued, gen)
BY DEF Book

\* The line of a request that was never written names the generation now known
\* and waits to be written.
LEMMA StampBook ==
    ASSUME NEW old, NEW new, NEW away, NEW answers, NEW gen \in Nat,
           NEW id \in 1 .. Len(old),
           Wire(old, away, answers, None), Stamped(new, old, id, gen),
           Book(old, away, answers, None, gen), old[id].written = 0
    PROVE  /\ Book(new, away, answers, id, gen) /\ Wire(new, away, answers, id)
           /\ new[id].written = 0
<1>1. Len(old) \in Nat /\ Len(new) = Len(old) /\ new \in Seq(Request)
  BY LenProperties DEF Wire, Stamped
<1>2. \A i \in 1 .. Len(old) :
         /\ SameLife(new, old, i)
         /\ i # id => new[i].expected = old[i].expected
         /\ i = id => new[i].expected = gen
  BY DEF Stamped
<1>3. \A reply \in answers : reply.id # id
  BY DEF Book, Truthful
<1>4. \A i \in 1 .. Len(new) :
         /\ new[i].written <= 1 /\ new[i].executions <= new[i].written
         /\ new[i].expected <= gen
  BY <1>1, <1>2 DEF Book, SameLife
<1>5. \A i \in away : Unserved(new, i)
  BY <1>1, <1>2 DEF Book, SameLife, Unserved, Wire
<1>6. ASSUME NEW reply \in answers
      PROVE  Truthful(new, reply, away)
  <2>1. Truthful(old, reply, away) /\ reply.id # id
    BY <1>3 DEF Book
  <2>2. /\ new[reply.id].written = old[reply.id].written
        /\ new[reply.id].executions = old[reply.id].executions
        /\ new[reply.id].expected = old[reply.id].expected
    BY <1>2, <2>1 DEF SameLife, Truthful
  <2> QED
    BY <1>1, <2>1, <2>2 DEF Truthful
<1>7. new[id].written = 0
  BY <1>2 DEF SameLife
<1> QED
  BY <1>1, <1>4, <1>5, <1>6, <1>7 DEF Book, Wire

\* That line is a command, or the attempt of the pending intent at a generation
\* it may be sent at.
LEMMA StampAttempts ==
    ASSUME NEW old, NEW new, NEW away, NEW gen \in Nat, NEW n \in Nat,
           NEW id \in 1 .. Len(old), NEW lk \in Lock,
           Wire(old, away, {}, None), Stamped(new, old, id, gen),
           Attempts(old, away, lk, None, n), old[id].written = 0,
           lk.pending => lk.requestId \in 1 .. Len(old),
           \/ old[id].intent = 0
           \/ lk.pending /\ id = lk.requestId /\ lk.minimumGeneration <= gen
    PROVE  Attempts(new, away, lk, id, n)
<1>1. Len(old) \in Nat /\ Len(new) = Len(old)
  BY LenProperties DEF Wire, Stamped
<1>2. \A i \in 1 .. Len(old) :
         /\ SameLife(new, old, i) /\ new[i].intent = old[i].intent
         /\ new[i].expected = IF i = id THEN gen ELSE old[i].expected
  BY DEF Stamped
<1>3. \A i \in 1 .. Len(old) : old[i].intent \in Nat /\ old[i].expected \in Nat
                               /\ old[i].written \in Nat
  BY RequestTyped DEF Wire
<1>4. lk.minimumGeneration \in Nat
  BY DEF Lock
<1>5. ASSUME lk.pending
      PROVE  /\ n >= 1 /\ new[lk.requestId].intent = n
             /\ ~lk.awaitingReply => new[lk.requestId].written = 0
             /\ \A i \in 1 .. Len(new) : new[i].intent = n /\ i # lk.requestId =>
                   i < lk.requestId /\ new[i].expected < lk.minimumGeneration
  BY <1>1, <1>2, <1>5 DEF Attempts, SameLife
<1>6. ASSUME NEW i \in 1 .. Len(new), NEW j \in 1 .. Len(new),
             i < j, new[i].intent = new[j].intent, new[i].intent # 0
      PROVE  /\ Settled(new, i, away)
             /\ new[j].written > 0 \/ j = id => new[j].expected > new[i].expected
  <2>1. /\ Settled(old, i, away) /\ old[i].intent = old[j].intent /\ old[i].intent # 0
        /\ old[j].written > 0 => old[j].expected > old[i].expected
    BY <1>1, <1>2, <1>6 DEF Attempts
  <2>2. i # id
    BY <2>1 DEF Settled, Unserved
  <2>3. new[i].expected = old[i].expected /\ Settled(new, i, away)
    BY <1>1, <1>2, <2>1, <2>2 DEF Settled, Unserved, SameLife
  <2>4. CASE j = id
    <3>1. lk.pending /\ id = lk.requestId /\ lk.minimumGeneration <= gen
      BY <2>1, <2>4
    <3>2. old[i].expected < lk.minimumGeneration
      BY <1>1, <2>1, <2>2, <2>4, <3>1 DEF Attempts
    <3>3. new[j].expected = gen
      BY <1>2, <2>4
    <3> QED
      BY <1>1, <1>3, <1>4, <2>3, <3>1, <3>2, <3>3
  <2>5. CASE j # id
    BY <1>1, <1>2, <2>1, <2>3, <2>5 DEF SameLife
  <2> QED
    BY <2>4, <2>5
<1>7. \A i \in 1 .. Len(new) : new[i].intent <= n
  BY <1>1, <1>2 DEF Attempts
<1> QED
  BY <1>5, <1>6, <1>7 DEF Attempts

\* The queued line is written; the daemon may get it or not.
LEMMA WriteBook ==
    ASSUME NEW old, NEW new, NEW away, NEW a, NEW answers, NEW gen,
           NEW id \in 1 .. Len(old),
           Wire(old, away, answers, id), Written(new, old, id),
           Book(old, away, answers, id, gen), a \in {away, away \cup {id}}
    PROVE  Book(new, a, answers, None, gen) /\ Wire(new, a, answers, None)
<1>1. Len(old) \in Nat /\ Len(new) = Len(old) /\ new \in Seq(Request) /\ id # None
  BY LenProperties DEF Wire, Written, None
<1>2. \A i \in 1 .. Len(old) :
         /\ new[i].executions = old[i].executions /\ new[i].expected = old[i].expected
         /\ new[i].written = IF i = id THEN old[i].written + 1 ELSE old[i].written
  BY DEF Written
<1>3. /\ old[id].written = 0 /\ old[id].executions = 0 /\ id \notin away
      /\ \A reply \in answers : reply.id # id
  BY <1>1, RequestTyped DEF Book, Unserved, Truthful, Wire
<1>4. \A i \in 1 .. Len(new) :
         /\ new[i].written <= 1 /\ new[i].executions <= new[i].written
         /\ new[i].expected <= gen
  BY <1>1, <1>2, <1>3 DEF Book
<1>5. \A i \in a : Unserved(new, i)
  BY <1>1, <1>2, <1>3 DEF Book, Unserved, Wire
<1>6. ASSUME NEW reply \in answers
      PROVE  Truthful(new, reply, a)
  <2>1. Truthful(old, reply, away) /\ reply.id # id
    BY <1>3 DEF Book
  <2>2. /\ new[reply.id].written = old[reply.id].written
        /\ new[reply.id].executions = old[reply.id].executions
        /\ new[reply.id].expected = old[reply.id].expected
    BY <1>2, <2>1 DEF Truthful
  <2> QED
    BY <1>1, <2>1, <2>2 DEF Truthful
<1> QED
  BY <1>1, <1>4, <1>5, <1>6 DEF Book, Wire, None

LEMMA WriteAttempts ==
    ASSUME NEW old, NEW new, NEW away, NEW a, NEW lk, NEW n,
           NEW id \in 1 .. Len(old),
           Wire(old, away, {}, id), Written(new, old, id), old[id].written = 0,
           Attempts(old, away, lk, id, n), a \in {away, away \cup {id}},
           lk.pending => lk.requestId \in 1 .. Len(old),
           lk.pending /\ id = lk.requestId => lk.awaitingReply
    PROVE  Attempts(new, a, lk, None, n)
<1>1. Len(old) \in Nat /\ Len(new) = Len(old)
  BY LenProperties DEF Wire, Written
<1>2. \A i \in 1 .. Len(old) :
         /\ new[i].executions = old[i].executions /\ new[i].expected = old[i].expected
         /\ new[i].intent = old[i].intent
         /\ new[i].written = IF i = id THEN old[i].written + 1 ELSE old[i].written
  BY DEF Written
<1>3. ASSUME NEW i \in 1 .. Len(new), NEW j \in 1 .. Len(new),
             i < j, new[i].intent = new[j].intent, new[i].intent # 0
      PROVE  /\ Settled(new, i, a)
             /\ new[j].written > 0 \/ j = None => new[j].expected > new[i].expected
  <2>1. /\ Settled(old, i, away)
        /\ old[j].written > 0 \/ j = id => old[j].expected > old[i].expected
    BY <1>1, <1>2, <1>3 DEF Attempts
  <2>2. i # id
    BY <2>1 DEF Settled, Unserved
  <2> QED
    BY <1>1, <1>2, <2>1, <2>2 DEF Settled, Unserved, None
<1> QED
  BY <1>1, <1>2, <1>3 DEF Attempts

\* An id that was under way is executed.
LEMMA ExecuteBook ==
    ASSUME NEW old, NEW new, NEW away, NEW answers, NEW queued, NEW gen,
           NEW id \in away,
           Wire(old, away, answers, queued), Executed(new, old, id),
           Book(old, away, answers, queued, gen)
    PROVE  /\ Book(new, away \ {id}, answers, queued, gen)
           /\ new[id].written = 1 /\ new[id].executions = 1
           /\ Wire(new, away \ {id}, answers, queued)
<1>1. Len(old) \in Nat /\ Len(new) = Len(old) /\ new \in Seq(Request) /\ id \in 1 .. Len(old)
  BY LenProperties DEF Wire, Executed
<1>2. \A i \in 1 .. Len(old) :
         /\ new[i].written = old[i].written /\ new[i].expected = old[i].expected
         /\ new[i].executions = IF i = id THEN old[i].executions + 1 ELSE old[i].executions
  BY DEF Executed
<1>3. old[id].written = 1 /\ old[id].executions = 0 /\ \A reply \in answers : reply.id # id
  BY DEF Book, Unserved, Truthful
<1>4. \A i \in 1 .. Len(new) :
         /\ new[i].written <= 1 /\ new[i].executions <= new[i].written
         /\ new[i].expected <= gen
  BY <1>1, <1>2, <1>3 DEF Book
<1>5. queued # None => new[queued].written = 0
  BY <1>1, <1>2 DEF Book, Wire, None
<1>6. \A i \in away \ {id} : Unserved(new, i)
  BY <1>1, <1>2 DEF Book, Unserved, Wire
<1>7. ASSUME NEW reply \in answers
      PROVE  Truthful(new, reply, away \ {id})
  <2>1. Truthful(old, reply, away) /\ reply.id # id
    BY <1>3 DEF Book
  <2>2. /\ new[reply.id].written = old[reply.id].written
        /\ new[reply.id].executions = old[reply.id].executions
        /\ new[reply.id].expected = old[reply.id].expected
    BY <1>2, <2>1 DEF Truthful
  <2> QED
    BY <1>1, <2>1, <2>2 DEF Truthful
<1>8. new[id].written = 1 /\ new[id].executions = 1
  BY <1>1, <1>2, <1>3
<1>9. Book(new, away \ {id}, answers, queued, gen)
  BY <1>4, <1>5, <1>6, <1>7 DEF Book
<1> QED
  BY <1>1, <1>8, <1>9 DEF Wire

LEMMA ExecuteAttempts ==
    ASSUME NEW old, NEW new, NEW away, NEW lk, NEW queued, NEW n, NEW id \in away,
           Wire(old, away, {}, queued), Executed(new, old, id),
           Attempts(old, away, lk, queued, n),
           lk.pending => lk.requestId \in 1 .. Len(old)
    PROVE  Attempts(new, away \ {id}, lk, queued, n)
<1>1. Len(new) = Len(old)
  BY DEF Executed
<1>2. \A i \in 1 .. Len(old) :
         /\ new[i].written = old[i].written /\ new[i].expected = old[i].expected
         /\ new[i].intent = old[i].intent
         /\ i # id => new[i].executions = old[i].executions
  BY DEF Executed
<1> QED
  BY <1>1, <1>2 DEF Attempts, Settled, Unserved

---------------------------------------------------------------------------
(* The wire as a set of ids                                                *)

LEMMA SeqOverMore ==
    ASSUME NEW m \in Nat, NEW n \in Nat, m <= n, NEW s \in Seq(1 .. m)
    PROVE  s \in Seq(1 .. n)
<1>1. Len(s) \in Nat /\ s \in [1 .. Len(s) -> 1 .. m]
  BY LenProperties
<1>2. s \in [1 .. Len(s) -> 1 .. n]
  BY <1>1
<1> QED
  BY <1>1, <1>2, SeqDef

LEMMA TakeHead ==
    ASSUME NEW S, NEW td \in Seq(S), NEW orph, td # <<>>, Distinct(td, orph)
    PROVE  /\ Head(td) \in S /\ Tail(td) \in Seq(S) /\ Distinct(Tail(td), orph)
           /\ Head(td) \in UnderWay(td, orph)
           /\ UnderWay(Tail(td), orph) = UnderWay(td, orph) \ {Head(td)}
<1>1. /\ Len(td) \in Nat /\ Len(td) > 0 /\ Head(td) = td[1] /\ Head(td) \in S
      /\ Tail(td) \in Seq(S) /\ Len(Tail(td)) = Len(td) - 1
      /\ \A k \in 1 .. Len(Tail(td)) : Tail(td)[k] = td[k + 1]
  BY HeadTailProperties, LenProperties, EmptySeq
<1>2. \A k \in 1 .. Len(Tail(td)) : k + 1 \in 1 .. Len(td) /\ k + 1 # 1
  BY <1>1
<1>3. 1 \in 1 .. Len(td)
  BY <1>1
<1>4. Distinct(Tail(td), orph)
  BY <1>1, <1>2 DEF Distinct
<1>5. Head(td) \in UnderWay(td, orph)
  BY <1>1, <1>3 DEF UnderWay
<1>6. ASSUME NEW id \in UnderWay(Tail(td), orph)
      PROVE  id \in UnderWay(td, orph) /\ id # Head(td)
  BY <1>1, <1>2, <1>3, <1>6 DEF UnderWay, Distinct
<1>7. ASSUME NEW id \in UnderWay(td, orph), id # Head(td)
      PROVE  id \in UnderWay(Tail(td), orph)
  <2>1. CASE id \in orph
    BY <2>1 DEF UnderWay
  <2>2. CASE id \notin orph
    <3>1. PICK k \in 1 .. Len(td) : id = td[k]
      BY <2>2 DEF UnderWay
    <3>2. k - 1 \in 1 .. Len(Tail(td)) /\ Tail(td)[k - 1] = id
      BY <1>1, <1>7, <3>1
    <3> QED
      BY <3>2 DEF UnderWay
  <2> QED
    BY <2>1, <2>2
<1> QED
  BY <1>1, <1>4, <1>5, <1>6, <1>7

LEMMA AddLast ==
    ASSUME NEW S, NEW td \in Seq(S), NEW orph, NEW id \in S, Distinct(td, orph),
           id \notin UnderWay(td, orph)
    PROVE  /\ Append(td, id) \in Seq(S) /\ Distinct(Append(td, id), orph)
           /\ UnderWay(Append(td, id), orph) = UnderWay(td, orph) \cup {id}
<1>1. /\ Len(td) \in Nat /\ Append(td, id) \in Seq(S) /\ Len(Append(td, id)) = Len(td) + 1
      /\ \A k \in 1 .. Len(td) : Append(td, id)[k] = td[k]
      /\ Append(td, id)[Len(td) + 1] = id
  BY AppendProperties, LenProperties
<1>2. \A k \in 1 .. Len(td) + 1 : k \in 1 .. Len(td) \/ k = Len(td) + 1
  BY <1>1
<1>3. id \notin orph /\ \A k \in 1 .. Len(td) : td[k] # id
  BY DEF UnderWay
<1>4. Distinct(Append(td, id), orph)
  BY <1>1, <1>2, <1>3 DEF Distinct
<1>5. ASSUME NEW i \in UnderWay(Append(td, id), orph)
      PROVE  i \in UnderWay(td, orph) \cup {id}
  BY <1>1, <1>2, <1>5 DEF UnderWay
<1>6. ASSUME NEW i \in UnderWay(td, orph) \cup {id}
      PROVE  i \in UnderWay(Append(td, id), orph)
  <2>1. Len(td) + 1 \in 1 .. Len(Append(td, id))
    BY <1>1
  <2>2. \A k \in 1 .. Len(td) : k \in 1 .. Len(Append(td, id))
    BY <1>1
  <2> QED
    BY <1>1, <1>6, <2>1, <2>2 DEF UnderWay
<1> QED
  BY <1>1, <1>4, <1>5, <1>6

\* The transport ends: what was on it is without one.
LEMMA AllOrphans ==
    ASSUME NEW td, NEW orph
    PROVE  /\ Distinct(<<>>, orph \cup {td[i] : i \in 1 .. Len(td)})
           /\ UnderWay(<<>>, orph \cup {td[i] : i \in 1 .. Len(td)}) = UnderWay(td, orph)
BY DEF Distinct, UnderWay

LEMMA TakeOrphan ==
    ASSUME NEW td, NEW orph, NEW id \in orph, Distinct(td, orph)
    PROVE  /\ Distinct(td, orph \ {id}) /\ id \in UnderWay(td, orph)
           /\ UnderWay(td, orph \ {id}) = UnderWay(td, orph) \ {id}
BY DEF Distinct, UnderWay

LEMMA TakeReply ==
    ASSUME NEW fd \in Seq(Reply), fd # <<>>
    PROVE  /\ Head(fd) \in Reply /\ Tail(fd) \in Seq(Reply)
           /\ Head(fd) \in Answers(fd) /\ Answers(Tail(fd)) \subseteq Answers(fd)
<1>1. /\ Len(fd) \in Nat /\ Len(fd) > 0 /\ Head(fd) = fd[1] /\ Head(fd) \in Reply
      /\ Tail(fd) \in Seq(Reply) /\ Len(Tail(fd)) = Len(fd) - 1
      /\ \A k \in 1 .. Len(Tail(fd)) : Tail(fd)[k] = fd[k + 1]
  BY HeadTailProperties, LenProperties, EmptySeq
<1>2. 1 \in 1 .. Len(fd) /\ \A k \in 1 .. Len(Tail(fd)) : k + 1 \in 1 .. Len(fd)
  BY <1>1
<1> QED
  BY <1>1, <1>2 DEF Answers

LEMMA AddReply ==
    ASSUME NEW fd \in Seq(Reply), NEW reply \in Reply
    PROVE  /\ Append(fd, reply) \in Seq(Reply)
           /\ Answers(Append(fd, reply)) = Answers(fd) \cup {reply}
<1>1. /\ Len(fd) \in Nat /\ Append(fd, reply) \in Seq(Reply)
      /\ Len(Append(fd, reply)) = Len(fd) + 1
      /\ \A k \in 1 .. Len(fd) : Append(fd, reply)[k] = fd[k]
      /\ Append(fd, reply)[Len(fd) + 1] = reply
  BY AppendProperties, LenProperties
<1>2. /\ \A k \in 1 .. Len(fd) + 1 : k \in 1 .. Len(fd) \/ k = Len(fd) + 1
      /\ \A k \in 1 .. Len(fd) : k \in 1 .. Len(fd) + 1
      /\ Len(fd) + 1 \in 1 .. Len(fd) + 1
  BY <1>1
<1> QED
  BY <1>1, <1>2 DEF Answers

LEMMA AnswersTyped ==
    ASSUME NEW fd \in Seq(Reply)
    PROVE  Answers(fd) \subseteq Reply
BY ElementOfSeq DEF Answers

---------------------------------------------------------------------------
(* The turns of the shell                                                  *)

LEMMA StateTyped ==
    ASSUME CommandTypeOK
    PROVE  /\ Wire(requests, UnderWay(toDaemon, orphans), Answers(fromDaemon), proto.queued)
           /\ Len(requests) \in Nat /\ Ids \cup {None} = 0 .. Len(requests)
           /\ proto.pendingRequestId \in 0 .. Len(requests)
           /\ lock.requestId \in 0 .. Len(requests)
<1>1. Len(requests) \in Nat /\ Ids \cup {None} = 0 .. Len(requests)
  BY LenProperties DEF CommandTypeOK, Ids, None
<1>2. \A k \in 1 .. Len(toDaemon) : toDaemon[k] \in Ids
  BY ElementOfSeq DEF CommandTypeOK
<1>3. UnderWay(toDaemon, orphans) \subseteq Ids
  BY <1>2 DEF UnderWay, CommandTypeOK
<1>4. Answers(fromDaemon) \subseteq Reply
  BY AnswersTyped DEF CommandTypeOK
<1> QED
  BY <1>1, <1>3, <1>4 DEF CommandTypeOK, Wire, Ids

LEMMA SocketTyped ==
    ASSUME CommandTypeOK
    PROVE  LET Sockets == [phase : {"idle", "opening", "open", "closing", "failed"},
                           target : BOOLEAN]
           IN  /\ Opening(controlSocket) \in Sockets /\ Closing(controlSocket) \in Sockets
BY DEF CommandTypeOK, Opening, Closing

LEMMA Failures == <<>> \in Seq({"completed", "failed"})
                  /\ <<"completed">> \in Seq({"completed", "failed"})
                  /\ <<"failed">> \in Seq({"completed", "failed"})
                  /\ Append(<<>>, "failed") = <<"failed">>
OBVIOUS

LEMMA FinishedFields ==
    ASSUME NEW l \in Lock, NEW f \in BOOLEAN
    PROVE  LET m == Finished(l, f)
           IN  /\ m \in Lock /\ ~m.pending /\ ~m.awaitingReply /\ ~m.deadline
               /\ m.requestId = None /\ m.failed = f
               /\ m.suppressFailure = l.suppressFailure
BY DEF Lock, Finished, None

LEMMA FailedFields ==
    ASSUME NEW p \in Proto
    PROVE  /\ Failed(p) \in Proto /\ Failed(p).pendingRequestId = None
           /\ Failed(p).queued = None /\ ~Failed(p).responseTimeout
           /\ Flushed(p) \in Proto /\ Flushed(p).pendingRequestId = p.pendingRequestId
           /\ Flushed(p).queued = None /\ Flushed(p).responseTimeout = p.responseTimeout
BY DEF Proto, Failed, Flushed, None

\* The pending command ends, and with it the lock request that waits for it.
Quits ==
    /\ proto' \in Proto /\ proto'.pendingRequestId = None /\ proto'.queued = None
    /\ ~proto'.responseTimeout
    /\ lock' \in Lock /\ ~lock'.awaitingReply /\ ~lock'.suppressFailure
    /\ lock'.pending <=> lock.pending /\ ~lock.awaitingReply
    /\ lock'.pending => /\ lock'.requestId = lock.requestId
                        /\ lock'.minimumGeneration = lock.minimumGeneration
    /\ ~lock'.pending => lock'.requestId = None
    /\ lock'.deadline => lock'.pending
    /\ ~lock.awaitingReply => lock'.failed = lock.failed
    /\ attemptLater' \in BOOLEAN /\ (attemptLater \/ Busy => attemptLater')

Fails ==
    /\ Quits
    /\ lock.awaitingReply => lock'.failed
    /\ emitted' = <<"failed">>

LEMMA FailFails ==
    ASSUME CommandTypeOK, Turns, NEW l \in Lock, Fail(l, <<>>),
           l = lock \/ l.deadline = FALSE,
           l.pending = lock.pending, l.awaitingReply = lock.awaitingReply,
           l.requestId = lock.requestId, l.suppressFailure = lock.suppressFailure,
           l.minimumGeneration = lock.minimumGeneration, l.failed = lock.failed
    PROVE  Fails
<1>1. ~l.suppressFailure /\ (lock.awaitingReply => lock.pending)
      /\ (~lock.pending => lock.requestId = None) /\ (lock.deadline => lock.pending)
  BY DEF Turns
<1>2. /\ proto' = Failed(proto) /\ proto \in Proto /\ lock \in Lock
      /\ attemptLater' \in BOOLEAN /\ (attemptLater \/ Busy => attemptLater')
  BY DEF Fail, BusyMayFall, CommandTypeOK, Busy
<1>3. proto' \in Proto /\ proto'.pendingRequestId = None /\ proto'.queued = None
      /\ ~proto'.responseTimeout
  BY <1>2, FailedFields
<1>4. CASE l.pending /\ l.awaitingReply
  <2>1. lock' = Finished(l, TRUE) /\ emitted' = <<"failed">>
    BY <1>1, <1>4, Failures DEF Fail
  <2>2. lock' \in Lock /\ ~lock'.pending /\ ~lock'.awaitingReply /\ ~lock'.deadline
        /\ lock'.requestId = None /\ lock'.failed
        /\ lock'.suppressFailure = l.suppressFailure
    BY <2>1, FinishedFields
  <2> QED
    BY <1>1, <1>2, <1>3, <1>4, <2>1, <2>2 DEF Fails, Quits
<1>5. CASE ~(l.pending /\ l.awaitingReply)
  <2>1. lock' = l /\ emitted' = <<"failed">>
    BY <1>1, <1>5, Failures DEF Fail
  <2> QED
    BY <1>1, <1>2, <1>3, <1>5, <2>1 DEF Fails, Quits
<1> QED
  BY <1>4, <1>5

LEMMA QuitsInvariant ==
    ASSUME Invariant, Quits,
           UNCHANGED <<streamVars, toDaemon, orphans, requests, intent>>,
           fromDaemon' \in Seq(Reply), Answers(fromDaemon') \subseteq Answers(fromDaemon),
           controlSocket' \in [phase : {"idle", "opening", "open", "closing", "failed"},
                               target : BOOLEAN],
           daemonClosed' \in BOOLEAN, emitted' \in Seq({"completed", "failed"})
    PROVE  Invariant'
<1>1. CommandTypeOK /\ Turns /\ Ledger
  BY DEF Invariant
<1>2. CommandTypeOK'
  <2>1. lock'.requestId \in Ids \cup {None}
    BY <1>1 DEF Quits, CommandTypeOK
  <2> QED
    BY <1>1, <2>1 DEF Quits, CommandTypeOK, streamVars, Ids
<1>3. Turns'
  <2>1. NoLostAttempt'
    BY <1>1 DEF NoLostAttempt, Turns, Quits, Busy, MayAttempt, streamVars
  <2> QED
    BY <1>1, <2>1 DEF Turns, Quits, Busy, streamVars
<1>4. Ledger'
  <2> DEFINE away == UnderWay(toDaemon, orphans)
  <2>1. /\ Book(requests, away, Answers(fromDaemon), proto.queued, seenGeneration)
        /\ Attempts(requests, away, lock, proto.queued, intent)
        /\ Distinct(toDaemon, orphans)
    BY <1>1 DEF Ledger
  <2>2. Wire(requests, away, Answers(fromDaemon), proto.queued)
    BY <1>1, StateTyped
  <2>3. /\ Book(requests, away, Answers(fromDaemon), None, seenGeneration)
        /\ Attempts(requests, away, lock, None, intent)
    BY <2>1, <2>2, QueueForgotten
  <2>4. Book(requests, away, Answers(fromDaemon'), None, seenGeneration)
    BY <2>3, BookEases
  <2>5. Attempts(requests, away, lock', None, intent)
    BY <2>3, LockEases DEF Quits
  <2> QED
    BY <2>1, <2>4, <2>5 DEF Ledger, Quits, streamVars
<1> QED
  BY <1>2, <1>3, <1>4 DEF Invariant

LEMMA ResponseTimesOutKeeps ==
    ASSUME Invariant, ResponseTimesOut
    PROVE  Invariant' /\ Fails
<1>1. CommandTypeOK /\ Turns /\ Fail(lock, <<>>)
  BY DEF Invariant, ResponseTimesOut
<1>2. Fails
  BY <1>1, FailFails DEF CommandTypeOK
<1>3. UNCHANGED <<streamVars, wireVars, requests, intent>>
  BY DEF ResponseTimesOut
<1> QED
  BY <1>1, <1>2, <1>3, QuitsInvariant, Failures DEF Fails, wireVars, CommandTypeOK

LEMMA SocketErrorKeeps ==
    ASSUME Invariant, SocketError
    PROVE  Invariant' /\ Fails
<1>1. CommandTypeOK /\ Turns /\ Fail(lock, <<>>)
  BY DEF Invariant, SocketError
<1>2. Fails
  BY <1>1, FailFails DEF CommandTypeOK
<1>3. /\ UNCHANGED <<streamVars, daemonClosed, toDaemon, orphans, fromDaemon,
                      requests, intent>>
      /\ controlSocket' = Closing(controlSocket)
  BY DEF SocketError
<1> QED
  BY <1>1, <1>2, <1>3, QuitsInvariant, SocketTyped, Failures DEF Fails, CommandTypeOK

\* An intent gives up while it waits for the stream, not for a reply.
WaitEnds ==
    /\ lock.deadline /\ ~lock.awaitingReply
    /\ lock' = Finished(lock, TRUE) /\ emitted' = <<"failed">>
    /\ UNCHANGED <<streamVars, proto, attemptLater, wireVars, requests, intent>>

LEMMA WaitEndsKeeps ==
    ASSUME Invariant, WaitEnds
    PROVE  Invariant'
<1>1. CommandTypeOK /\ Turns /\ Ledger /\ lock \in Lock
  BY DEF Invariant, CommandTypeOK
<1>2. /\ lock' \in Lock /\ ~lock'.pending /\ ~lock'.awaitingReply /\ ~lock'.deadline
      /\ lock'.requestId = None /\ ~lock'.suppressFailure
  BY <1>1, FinishedFields DEF WaitEnds, Turns
<1>3. lock.pending /\ ~(Busy /\ proto.pendingRequestId = lock.requestId)
  BY <1>1 DEF WaitEnds, Turns
<1>4. CommandTypeOK'
  BY <1>1, <1>2, Failures DEF CommandTypeOK, WaitEnds, streamVars, wireVars, Ids
<1>5. Turns'
  BY <1>1, <1>2 DEF Turns, NoLostAttempt, MayAttempt, WaitEnds, streamVars, Busy
<1>6. Ledger'
  <2>1. Attempts(requests, UnderWay(toDaemon, orphans), lock', proto.queued, intent)
    BY <1>1, <1>2, LockEases DEF Ledger
  <2> QED
    BY <1>1, <2>1 DEF Ledger, WaitEnds, wireVars, streamVars
<1> QED
  BY <1>4, <1>5, <1>6 DEF Invariant

LEMMA DeadlineExpiresKeeps ==
    ASSUME Invariant, DeadlineExpires
    PROVE  /\ Invariant'
           /\ \/ lock.awaitingReply /\ Fails
              \/ WaitEnds
<1>1. CASE lock.awaitingReply
  <2>1. /\ CommandTypeOK /\ Turns /\ lock \in Lock
        /\ Fail([lock EXCEPT !.deadline = FALSE], <<>>)
        /\ UNCHANGED <<streamVars, wireVars, requests, intent>>
    BY <1>1 DEF Invariant, DeadlineExpires, CommandTypeOK
  <2> DEFINE l == [lock EXCEPT !.deadline = FALSE]
  <2>2. /\ l \in Lock /\ l.deadline = FALSE /\ l.pending = lock.pending
        /\ l.awaitingReply = lock.awaitingReply /\ l.requestId = lock.requestId
        /\ l.suppressFailure = lock.suppressFailure
        /\ l.minimumGeneration = lock.minimumGeneration /\ l.failed = lock.failed
    BY <2>1 DEF Lock
  <2>3. Fails
    <3> HIDE DEF l
    <3>1. Fail(l, <<>>)
      BY <2>1 DEF l
    <3> QED
      BY <2>1, <2>2, <3>1, FailFails
  <2> QED
    BY <1>1, <2>1, <2>3, QuitsInvariant, Failures DEF Fails, wireVars, CommandTypeOK
<1>2. CASE ~lock.awaitingReply
  <2>1. WaitEnds
    BY <1>2 DEF DeadlineExpires, WaitEnds
  <2> QED
    BY <2>1, WaitEndsKeeps
<1> QED
  BY <1>1, <1>2

LEMMA ControlConnectsKeeps ==
    ASSUME Invariant, ControlConnects
    PROVE  Invariant'
<1>1. CommandTypeOK /\ Turns /\ Ledger
  BY DEF Invariant
<1> DEFINE away == UnderWay(toDaemon, orphans)
<1>2. /\ Wire(requests, away, Answers(fromDaemon), proto.queued)
      /\ Len(requests) \in Nat /\ Ids \cup {None} = 0 .. Len(requests)
  BY <1>1, StateTyped
<1>3. /\ proto' \in Proto /\ proto'.pendingRequestId = proto.pendingRequestId
      /\ proto'.queued = None /\ proto'.responseTimeout = proto.responseTimeout
  BY <1>1, FailedFields DEF ControlConnects, CommandTypeOK
<1>4. /\ controlSocket' = [phase |-> "open", target |-> FALSE] /\ emitted' = <<>>
      /\ UNCHANGED <<streamVars, lock, attemptLater, daemonClosed, orphans, fromDaemon,
                     intent>>
  BY DEF ControlConnects
<1>5. Turns'
  BY <1>1, <1>3, <1>4 DEF Turns, NoLostAttempt, MayAttempt, Busy, streamVars
<1>6. ASSUME requests' \in Seq(Request), Len(requests') = Len(requests),
             toDaemon' \in Seq(Ids)
      PROVE  CommandTypeOK'
  <2>1. Ids' = Ids
    BY <1>6 DEF Ids
  <2> QED
    BY <1>1, <1>3, <1>4, <1>6, <2>1, Failures DEF CommandTypeOK, streamVars
<1>7. CASE proto.queued = None
  <2>1. UNCHANGED <<requests, toDaemon>>
    BY <1>7 DEF ControlConnects
  <2>2. CommandTypeOK'
    BY <1>1, <1>6, <2>1 DEF CommandTypeOK
  <2>3. Ledger'
    BY <1>1, <1>3, <1>4, <1>7, <2>1 DEF Ledger, streamVars
  <2> QED
    BY <1>5, <2>2, <2>3 DEF Invariant
<1>8. CASE proto.queued # None
  <2> DEFINE id == proto.queued
  <2>1. id \in Ids /\ id \in 1 .. Len(requests) /\ id = proto.pendingRequestId /\ Busy
    BY <1>1, <1>8 DEF CommandTypeOK, Ids, Busy
  <2>2. /\ requests' = [requests EXCEPT ![id].written = @ + 1]
        /\ toDaemon' \in {toDaemon, Append(toDaemon, id)}
    BY <1>8 DEF ControlConnects, Write
  <2>3. Written(requests', requests, id)
    BY <1>2, <2>1, <2>2, ExceptWrites DEF Wire
  <2>4. requests' \in Seq(Request) /\ Len(requests') = Len(requests)
    BY <2>3 DEF Written
  <2>5. /\ Book(requests, away, Answers(fromDaemon), id, seenGeneration)
        /\ Attempts(requests, away, lock, id, intent) /\ Distinct(toDaemon, orphans)
        /\ requests[id].written = 0
    BY <1>1, <1>8 DEF Ledger, Book
  <2>6. id \notin away
    BY <2>5 DEF Book, Unserved
  <2>7. /\ toDaemon' \in Seq(Ids) /\ Distinct(toDaemon', orphans)
        /\ UnderWay(toDaemon', orphans) \in {away, away \cup {id}}
    <3>1. toDaemon \in Seq(Ids)
      BY <1>1 DEF CommandTypeOK
    <3> HIDE DEF id
    <3>2. /\ Append(toDaemon, id) \in Seq(Ids) /\ Distinct(Append(toDaemon, id), orphans)
          /\ UnderWay(Append(toDaemon, id), orphans) = away \cup {id}
      BY <2>1, <2>5, <2>6, <3>1, AddLast
    <3> QED
      BY <2>2, <2>5, <3>1, <3>2
  <2>8. Book(requests', UnderWay(toDaemon', orphans), Answers(fromDaemon), None,
             seenGeneration)
    BY <1>2, <2>1, <2>3, <2>5, <2>7, WriteBook
  <2>9. Attempts(requests', UnderWay(toDaemon', orphans), lock, None, intent)
    <3>1. lock.pending => lock.requestId \in 1 .. Len(requests)
      BY <1>1, <1>2 DEF Turns, CommandTypeOK, Ids
    <3>2. lock.pending /\ id = lock.requestId => lock.awaitingReply
      BY <1>1, <2>1 DEF Turns
    <3>3. Wire(requests, away, {}, id)
      BY <1>2 DEF Wire
    <3> HIDE DEF id, away
    <3> QED
      BY <2>1, <2>3, <2>5, <2>7, <3>1, <3>2, <3>3, WriteAttempts
  <2>10. CommandTypeOK'
    BY <1>6, <2>4, <2>7
  <2>11. Ledger'
    BY <1>3, <1>4, <2>7, <2>8, <2>9 DEF Ledger, streamVars
  <2> QED
    BY <1>5, <2>10, <2>11 DEF Invariant
<1> QED
  BY <1>7, <1>8

LEMMA SocketDisconnectedKeeps ==
    ASSUME Invariant, SocketDisconnected
    PROVE  Invariant'
<1>1. CommandTypeOK /\ Turns /\ Ledger
  BY DEF Invariant
<1>2. /\ controlSocket' \in [phase : {"idle", "opening", "open", "closing", "failed"},
                             target : BOOLEAN]
      /\ daemonClosed' = FALSE /\ toDaemon' = <<>> /\ fromDaemon' = <<>> /\ emitted' = <<>>
      /\ orphans' = orphans \cup {toDaemon[i] : i \in 1 .. Len(toDaemon)}
      /\ UNCHANGED <<streamVars, proto, lock, attemptLater, requests, intent>>
  BY <1>1 DEF SocketDisconnected, EndControlTransport, CommandTypeOK
<1>3. orphans' \subseteq Ids
  BY <1>1, <1>2, ElementOfSeq DEF CommandTypeOK
<1>4. Distinct(toDaemon', orphans')
      /\ UnderWay(toDaemon', orphans') = UnderWay(toDaemon, orphans)
  BY <1>2, AllOrphans
<1>5. Answers(fromDaemon') = {}
  BY <1>2 DEF Answers
<1>6. CommandTypeOK'
  <2>1. /\ toDaemon' \in Seq(Ids) /\ fromDaemon' \in Seq(Reply)
        /\ emitted' \in Seq({"completed", "failed"})
    BY <1>2, Failures, EmptySeq
  <2>2. daemonClosed' \in BOOLEAN /\ Ids' = Ids
    BY <1>2 DEF Ids
  <2> QED
    BY <1>1, <1>2, <1>3, <2>1, <2>2 DEF CommandTypeOK, streamVars
<1>7. Turns'
  BY <1>1, <1>2 DEF Turns, NoLostAttempt, MayAttempt, Busy, streamVars
<1>8. Ledger'
  BY <1>1, <1>2, <1>4, <1>5 DEF Ledger, Book, streamVars
<1> QED
  BY <1>6, <1>7, <1>8 DEF Invariant

\* A line is stamped, and written or queued: known is the list of requests with the
\* one it belongs to, l the lock request that leaves with it.
LEMMA DispatchLedger ==
    ASSUME CommandTypeOK, NEW known \in Seq(Request), NEW id \in 1 .. Len(known),
           NEW k \in Lock, NEW l \in Lock, NEW n \in Nat, Len(requests) <= Len(known),
           Distinct(toDaemon, orphans),
           Book(known, UnderWay(toDaemon, orphans), Answers(fromDaemon), None, seenGeneration),
           Attempts(known, UnderWay(toDaemon, orphans), k, None, n),
           known[id].written = 0,
           \/ known[id].intent = 0
           \/ k.pending /\ id = k.requestId /\ k.minimumGeneration <= seenGeneration,
           k.pending => k.requestId \in 1 .. Len(known),
           l.pending => /\ k.pending /\ l.requestId = k.requestId
                        /\ l.minimumGeneration = k.minimumGeneration
                        /\ ~l.awaitingReply => ~k.awaitingReply,
           l.pending /\ id = l.requestId => l.awaitingReply,
           SendRequest(id), Dispatch(id, known)
    PROVE  /\ requests' \in Seq(Request) /\ Len(requests') = Len(known)
           /\ toDaemon' \in Seq(1 .. Len(known)) /\ orphans \subseteq 1 .. Len(known)
           /\ proto' \in Proto /\ proto'.pendingRequestId = id
           /\ proto'.queued \in {None, id} /\ proto'.responseTimeout
           /\ Distinct(toDaemon', orphans)
           /\ Book(requests', UnderWay(toDaemon', orphans), Answers(fromDaemon),
                   proto'.queued, seenGeneration)
           /\ Attempts(requests', UnderWay(toDaemon', orphans), l, proto'.queued, n)
<1> DEFINE away == UnderWay(toDaemon, orphans)
           answers == Answers(fromDaemon)
           stamped == [known EXCEPT ![id].expected = seenGeneration]
<1>1. Len(known) \in Nat /\ Len(requests) \in Nat /\ id # None
  BY LenProperties DEF CommandTypeOK, None
<1>2. /\ toDaemon \in Seq(1 .. Len(known)) /\ orphans \subseteq 1 .. Len(known)
      /\ answers \subseteq Reply /\ seenGeneration \in Nat
  <2>1. toDaemon \in Seq(1 .. Len(requests)) /\ orphans \subseteq 1 .. Len(requests)
    BY DEF CommandTypeOK, Ids
  <2> QED
    BY <1>1, <2>1, SeqOverMore, AnswersTyped DEF CommandTypeOK
<1>3. away \subseteq 1 .. Len(known)
  BY <1>2, ElementOfSeq DEF UnderWay
<1>4. Wire(known, away, answers, None) /\ Wire(known, away, {}, None)
  BY <1>1, <1>2, <1>3 DEF Wire, None
<1>5. Stamped(stamped, known, id, seenGeneration)
  BY <1>2, ExceptStamps
<1>6. /\ stamped \in Seq(Request) /\ Len(stamped) = Len(known)
      /\ id \in 1 .. Len(stamped)
  BY <1>5 DEF Stamped
<1> HIDE DEF away, answers, stamped
<1>7. /\ Book(stamped, away, answers, id, seenGeneration) /\ Wire(stamped, away, answers, id)
      /\ stamped[id].written = 0
  BY <1>2, <1>4, <1>5, StampBook DEF away, answers
<1>8. Attempts(stamped, away, k, id, n)
  BY <1>2, <1>4, <1>5, StampAttempts DEF away
<1>9. Attempts(stamped, away, l, id, n)
  BY <1>8, LockEases
<1>10. /\ proto' \in Proto /\ proto'.pendingRequestId = id /\ proto'.responseTimeout
       /\ proto'.queued = IF Connected THEN None ELSE id
  <2> DEFINE q == [pendingRequestId |-> id, queued |-> id, status |-> "loading",
                   responseTimeout |-> TRUE]
  <2>1. /\ q \in Proto /\ q.pendingRequestId = id /\ q.queued = id /\ q.responseTimeout
        /\ proto' = IF Connected THEN Flushed(q) ELSE q
    BY <1>1 DEF SendRequest, Proto
  <2> HIDE DEF q
  <2> QED
    BY <2>1, FailedFields
<1>11. CASE ~Connected
  <2>1. requests' = stamped /\ toDaemon' = toDaemon
    BY <1>11 DEF Dispatch, stamped
  <2> QED
    BY <1>2, <1>6, <1>7, <1>9, <1>10, <1>11, <2>1 DEF away, answers
<1>12. CASE Connected
  <2>1. /\ requests' = [stamped EXCEPT ![id].written = @ + 1]
        /\ toDaemon' \in {toDaemon, Append(toDaemon, id)}
    BY <1>12 DEF Dispatch, stamped, Write
  <2>2. Written(requests', stamped, id)
    BY <1>6, <2>1, ExceptWrites
  <2>3. requests' \in Seq(Request) /\ Len(requests') = Len(known)
    BY <1>6, <2>2 DEF Written
  <2>4. id \notin away
    BY <1>7 DEF Book, Unserved
  <2>5. /\ toDaemon' \in Seq(1 .. Len(known)) /\ Distinct(toDaemon', orphans)
        /\ UnderWay(toDaemon', orphans) \in {away, away \cup {id}}
    <3>1. /\ Append(toDaemon, id) \in Seq(1 .. Len(known))
          /\ Distinct(Append(toDaemon, id), orphans)
          /\ UnderWay(Append(toDaemon, id), orphans) = away \cup {id}
      BY <1>2, <2>4, AddLast DEF away
    <3> QED
      BY <1>2, <2>1, <3>1 DEF away
  <2>6. Book(requests', UnderWay(toDaemon', orphans), answers, None, seenGeneration)
    BY <1>6, <1>7, <2>2, <2>5, WriteBook
  <2>7. Attempts(requests', UnderWay(toDaemon', orphans), l, None, n)
    <3>1. Wire(stamped, away, {}, id)
      BY <1>7 DEF Wire
    <3> QED
      BY <1>6, <1>7, <1>9, <2>2, <2>5, <3>1, WriteAttempts
  <2> QED
    BY <1>2, <1>10, <1>12, <2>3, <2>5, <2>6, <2>7 DEF answers
<1> QED
  BY <1>11, <1>12

\* A turn that ends with a line sent
LEMMA SentInvariant ==
    ASSUME CommandTypeOK, Turns, NEW known \in Seq(Request), NEW id \in 1 .. Len(known),
           NEW k \in Lock, Len(requests) <= Len(known), intent' \in Nat,
           Distinct(toDaemon, orphans),
           Book(known, UnderWay(toDaemon, orphans), Answers(fromDaemon), None, seenGeneration),
           Attempts(known, UnderWay(toDaemon, orphans), k, None, intent'),
           known[id].written = 0,
           \/ known[id].intent = 0
           \/ k.pending /\ id = k.requestId /\ k.minimumGeneration <= seenGeneration,
           k.pending => k.requestId \in 1 .. Len(known),
           lock' \in Lock, ~lock'.suppressFailure,
           lock'.requestId \in 0 .. Len(known),
           lock'.pending <=> lock'.requestId # None,
           lock'.deadline => lock'.pending,
           lock'.awaitingReply <=> lock'.pending /\ id = lock'.requestId,
           lock'.pending => /\ k.pending /\ lock'.requestId = k.requestId
                            /\ lock'.minimumGeneration = k.minimumGeneration
                            /\ ~lock'.awaitingReply => ~k.awaitingReply,
           SendRequest(id), Dispatch(id, known), emitted' = <<>>, UNCHANGED streamVars
    PROVE  Invariant'
<1>1. /\ requests' \in Seq(Request) /\ Len(requests') = Len(known)
      /\ toDaemon' \in Seq(1 .. Len(known)) /\ orphans \subseteq 1 .. Len(known)
      /\ proto' \in Proto /\ proto'.pendingRequestId = id
      /\ proto'.queued \in {None, id} /\ proto'.responseTimeout
      /\ Distinct(toDaemon', orphans)
      /\ Book(requests', UnderWay(toDaemon', orphans), Answers(fromDaemon),
              proto'.queued, seenGeneration)
      /\ Attempts(requests', UnderWay(toDaemon', orphans), lock', proto'.queued, intent')
  BY DispatchLedger
<1>2. /\ controlSocket' = Opening(controlSocket) /\ attemptLater' = TRUE
      /\ UNCHANGED <<daemonClosed, orphans, fromDaemon>>
  BY DEF SendRequest
<1>3. Len(known) \in Nat /\ Ids' = 1 .. Len(known) /\ id # None
  BY <1>1, LenProperties DEF Ids, None
<1>4. CommandTypeOK'
  <2>1. lock'.requestId \in Ids' \cup {None} /\ proto'.pendingRequestId \in Ids' \cup {None}
    BY <1>1, <1>3 DEF None
  <2>2. emitted' \in Seq({"completed", "failed"})
    BY Failures
  <2> QED
    BY <1>1, <1>2, <1>3, <2>1, <2>2, SocketTyped DEF CommandTypeOK, streamVars
<1>5. Turns'
  BY <1>1, <1>2, <1>3 DEF Turns, NoLostAttempt, Busy, streamVars
<1>6. Ledger'
  BY <1>1, <1>2 DEF Ledger, streamVars
<1> QED
  BY <1>4, <1>5, <1>6 DEF Invariant

LEMMA SendCommandKeeps ==
    ASSUME Invariant, SendCommand
    PROVE  Invariant'
<1>1. CommandTypeOK /\ Turns /\ Ledger
  BY DEF Invariant
<1> DEFINE id == Len(requests) + 1
           known == Append(requests, NewRequest(0))
           away == UnderWay(toDaemon, orphans)
<1>2. /\ Wire(requests, away, Answers(fromDaemon), proto.queued)
      /\ Len(requests) \in Nat /\ lock.requestId \in 0 .. Len(requests)
  BY <1>1, StateTyped
<1>3. proto.queued = None
  BY <1>1 DEF SendCommand, Busy, CommandTypeOK, None
<1>4. Grown(known, requests, 0)
  BY <1>2, AppendGrows DEF Wire
<1>5. /\ known \in Seq(Request) /\ Len(known) = Len(requests) + 1 /\ id \in 1 .. Len(known)
      /\ known[id] = NewRequest(0)
  BY <1>2, <1>4 DEF Grown
<1>6. known[id].written = 0 /\ known[id].intent = 0
  BY <1>5 DEF NewRequest
<1>7. /\ Book(requests, away, Answers(fromDaemon), None, seenGeneration)
      /\ Attempts(requests, away, lock, None, intent) /\ Distinct(toDaemon, orphans)
      /\ lock \in Lock /\ seenGeneration \in Nat /\ intent \in Nat
      /\ lock.pending <=> lock.requestId # None
      /\ ~lock.suppressFailure /\ (lock.deadline => lock.pending) /\ ~lock.awaitingReply
  BY <1>1, <1>3 DEF Ledger, CommandTypeOK, Turns, SendCommand
<1>8. Wire(requests, away, {}, None) /\ Wire(requests, away, Answers(fromDaemon), None)
  BY <1>2, <1>3 DEF Wire
<1>9. /\ SendRequest(id) /\ Dispatch(id, known) /\ emitted' = <<>>
      /\ lock' = [lock EXCEPT !.failed = FALSE] /\ UNCHANGED <<streamVars, intent>>
  BY DEF SendCommand
<1> HIDE DEF id, known, away
<1>10. /\ Book(known, away, Answers(fromDaemon), None, seenGeneration)
       /\ Attempts(known, away, lock, None, intent')
  BY <1>2, <1>4, <1>7, <1>8, <1>9, GrowBook, GrowOther
<1>11. /\ lock' \in Lock /\ lock'.requestId = lock.requestId /\ lock'.pending = lock.pending
       /\ lock'.awaitingReply = lock.awaitingReply /\ lock'.deadline = lock.deadline
       /\ lock'.minimumGeneration = lock.minimumGeneration
       /\ lock'.suppressFailure = lock.suppressFailure
  BY <1>7, <1>9 DEF Lock
<1>12. lock.requestId \in 0 .. Len(known) /\ lock.requestId # id
       /\ (lock.requestId # None => lock.requestId \in 1 .. Len(known))
       /\ Len(requests) <= Len(known)
  BY <1>2, <1>5 DEF id, None
<1> QED
  BY <1>1, <1>5, <1>6, <1>7, <1>9, <1>10, <1>11, <1>12, SentInvariant DEF away

LEMMA NewIntentFields ==
    ASSUME lock \in Lock, NEW id \in Nat
    PROVE  LET l == NewIntent(id)
           IN  /\ l \in Lock /\ l.pending /\ l.requestId = id /\ l.minimumGeneration = 0
               /\ l.awaitingReply = lock.awaitingReply
               /\ l.suppressFailure = lock.suppressFailure
               /\ l.deadline /\ l.failed = FALSE
BY DEF NewIntent, Lock

LEMMA RequestLockKeeps ==
    ASSUME Invariant, RequestLock
    PROVE  Invariant'
<1>1. CommandTypeOK /\ Turns /\ Ledger
  BY DEF Invariant
<1> DEFINE id == Len(requests) + 1
           l == NewIntent(id)
           known == Append(requests, NewRequest(intent + 1))
           away == UnderWay(toDaemon, orphans)
<1>2. /\ Wire(requests, away, Answers(fromDaemon), proto.queued)
      /\ Len(requests) \in Nat /\ seenGeneration \in Nat /\ intent \in Nat
      /\ Wire(requests, away, {}, proto.queued)
  BY <1>1, StateTyped DEF CommandTypeOK, Wire
<1>3. Grown(known, requests, intent + 1)
  BY <1>2, AppendGrows DEF Wire
<1>4. /\ known \in Seq(Request) /\ Len(known) = Len(requests) + 1 /\ id \in 1 .. Len(known)
      /\ known[id] = NewRequest(intent + 1) /\ id = Len(known) /\ id # None
  BY <1>2, <1>3 DEF Grown, None
<1>5. known[id].written = 0
  BY <1>4 DEF NewRequest
<1>6. /\ l \in Lock /\ l.pending /\ l.requestId = id /\ l.minimumGeneration = 0
      /\ l.awaitingReply = lock.awaitingReply /\ l.suppressFailure = lock.suppressFailure
      /\ l.deadline
  <2>1. lock \in Lock /\ id \in Nat
    BY <1>1, <1>2 DEF CommandTypeOK
  <2> QED
    BY <2>1, NewIntentFields
<1>7. ~l.awaitingReply /\ ~l.suppressFailure
  BY <1>1, <1>6 DEF Turns, RequestLock
<1>8. intent' = intent + 1 /\ emitted' = <<>> /\ UNCHANGED streamVars
  BY DEF RequestLock
<1>9. Attempt(l, known) \/ /\ ~MayAttempt(l) /\ lock' = l /\ requests' = known
                           /\ UNCHANGED <<proto, attemptLater, wireVars>>
  BY DEF RequestLock
<1> HIDE DEF id, l, known, away
<1>10. /\ Book(requests, away, Answers(fromDaemon), proto.queued, seenGeneration)
       /\ Attempts(requests, away, lock, proto.queued, intent) /\ Distinct(toDaemon, orphans)
  BY <1>1 DEF Ledger, away
<1>11. /\ Book(known, away, Answers(fromDaemon), proto.queued, seenGeneration)
       /\ Attempts(known, away, l, proto.queued, intent')
  BY <1>2, <1>3, <1>4, <1>6, <1>7, <1>8, <1>10, GrowBook, GrowIntent
<1>12. CASE Attempt(l, known)
  <2>1. /\ MayAttempt(l) /\ SendRequest(id) /\ Dispatch(id, known)
        /\ lock' = [l EXCEPT !.awaitingReply = TRUE]
    BY <1>6, <1>12 DEF Attempt
  <2>2. proto.queued = None
    BY <1>1, <2>1 DEF MayAttempt, Busy, CommandTypeOK, None
  <2>3. /\ lock' \in Lock /\ lock'.pending /\ lock'.requestId = id /\ lock'.awaitingReply
        /\ lock'.minimumGeneration = 0 /\ ~lock'.suppressFailure
    BY <1>6, <1>7, <2>1 DEF Lock
  <2>4. /\ id \in 0 .. Len(known) /\ Len(requests) <= Len(known) /\ intent' \in Nat
        /\ 0 <= seenGeneration
    BY <1>2, <1>4, <1>8
  <2> QED
    BY <1>1, <1>4, <1>5, <1>6, <1>7, <1>8, <1>10, <1>11, <2>1, <2>2, <2>3, <2>4,
       SentInvariant DEF away
<1>13. CASE /\ ~MayAttempt(l) /\ lock' = l /\ requests' = known
            /\ UNCHANGED <<proto, attemptLater, wireVars>>
  <2>1. Ids \subseteq Ids' /\ Ids' = 1 .. Len(known) /\ id \in Ids'
    BY <1>2, <1>4, <1>13 DEF Ids
  <2>2. toDaemon \in Seq(1 .. Len(known))
    BY <1>1, <1>2, <1>4, SeqOverMore DEF CommandTypeOK, Ids
  <2>3. CommandTypeOK'
    <3>1. emitted' \in Seq({"completed", "failed"}) /\ intent' \in Nat
      BY <1>2, <1>8, Failures
    <3> QED
      BY <1>1, <1>4, <1>6, <1>8, <1>13, <2>1, <2>2, <3>1
      DEF CommandTypeOK, streamVars, wireVars
  <2>4. Turns'
    <3>1. proto.pendingRequestId # id
      BY <1>1, <1>2, StateTyped DEF id
    <3> QED
      BY <1>1, <1>4, <1>6, <1>7, <1>8, <1>13, <3>1
      DEF Turns, NoLostAttempt, MayAttempt, Busy, streamVars
  <2>5. Ledger'
    BY <1>8, <1>10, <1>11, <1>13 DEF Ledger, away, wireVars, streamVars
  <2> QED
    BY <2>3, <2>4, <2>5 DEF Invariant
<1> QED
  BY <1>9, <1>12, <1>13

LEMMA RunAttemptKeeps ==
    ASSUME Invariant, RunAttempt
    PROVE  Invariant'
<1>1. CommandTypeOK /\ Turns /\ Ledger
  BY DEF Invariant
<1>2. emitted' = <<>> /\ UNCHANGED <<streamVars, intent>>
  BY DEF RunAttempt
<1>3. CASE Attempt(lock, requests)
  <2> DEFINE id == lock.requestId
             away == UnderWay(toDaemon, orphans)
  <2>1. /\ MayAttempt(lock) /\ SendRequest(id) /\ Dispatch(id, requests)
        /\ lock' = [lock EXCEPT !.awaitingReply = TRUE]
    BY <1>3 DEF Attempt
  <2>2. proto.queued = None
    BY <1>1, <2>1 DEF MayAttempt, Busy, CommandTypeOK, None
  <2>3. /\ lock \in Lock /\ lock.pending /\ ~lock.awaitingReply /\ id # None
        /\ lock.minimumGeneration <= seenGeneration /\ ~lock.suppressFailure
        /\ requests \in Seq(Request) /\ intent' \in Nat /\ intent' = intent
    BY <1>1, <1>2, <2>1 DEF MayAttempt, Turns, CommandTypeOK
  <2>4. Len(requests) \in Nat /\ id \in 1 .. Len(requests) /\ id \in 0 .. Len(requests)
    BY <1>1, <2>3, StateTyped DEF None
  <2>5. /\ Book(requests, away, Answers(fromDaemon), None, seenGeneration)
        /\ Attempts(requests, away, lock, None, intent') /\ Distinct(toDaemon, orphans)
    BY <1>1, <2>2, <2>3 DEF Ledger
  <2>6. requests[id].written = 0
    BY <2>3, <2>5 DEF Attempts
  <2>7. /\ lock' \in Lock /\ lock'.pending /\ lock'.requestId = id /\ lock'.awaitingReply
        /\ lock'.minimumGeneration = lock.minimumGeneration /\ ~lock'.suppressFailure
    BY <2>1, <2>3 DEF Lock
  <2>8. /\ Len(requests) <= Len(requests) /\ id = lock.requestId
        /\ UNCHANGED streamVars /\ emitted' = <<>>
    BY <1>2, <2>4
  <2> HIDE DEF id, away
  <2> QED
    BY <1>1, <2>1, <2>3, <2>4, <2>5, <2>6, <2>7, <2>8, SentInvariant DEF away
<1>4. CASE /\ ~MayAttempt(lock) /\ attemptLater' = FALSE
           /\ UNCHANGED <<proto, lock, wireVars, requests>>
  <2>1. CommandTypeOK'
    BY <1>1, <1>2, <1>4, Failures DEF CommandTypeOK, streamVars, wireVars, Ids
  <2>2. Turns'
    BY <1>1, <1>2, <1>4 DEF Turns, NoLostAttempt, MayAttempt, Busy, streamVars
  <2>3. Ledger'
    BY <1>1, <1>2, <1>4 DEF Ledger, streamVars, wireVars
  <2> QED
    BY <2>1, <2>2, <2>3 DEF Invariant
<1> QED
  BY <1>3, <1>4 DEF RunAttempt

\* The pending command was executed.
Completes ==
    /\ Quits /\ Busy /\ requests[proto.pendingRequestId].executions = 1
    /\ lock.awaitingReply => lock'.failed = FALSE
    /\ emitted' = <<"completed">>

\* The pending command was refused as stale, and its intent recovers.
Retries ==
    /\ lock.awaitingReply /\ lock'.pending /\ ~lock'.awaitingReply /\ emitted' = <<>>
    /\ proto'.pendingRequestId = None /\ lock'.failed = lock.failed
    /\ Grown(requests', requests, intent)

LEMMA CompleteCompletes ==
    ASSUME CommandTypeOK, Turns, NEW reply \in Reply,
           reply.id = proto.pendingRequestId, reply.id # None,
           requests[reply.id].executions = 1,
           proto' = [pendingRequestId |-> None, queued |-> None,
                     status |-> "succeeded", responseTimeout |-> FALSE],
           lock' = IF lock.pending /\ reply.id = lock.requestId
                   THEN Finished(lock, FALSE) ELSE lock,
           emitted' = <<"completed">>, attemptLater' = TRUE
    PROVE  Completes
<1>1. /\ proto' \in Proto /\ proto'.pendingRequestId = None /\ proto'.queued = None
      /\ ~proto'.responseTimeout
  BY DEF Proto, None
<1>2. /\ Busy /\ lock \in Lock /\ ~lock.suppressFailure
      /\ lock.awaitingReply <=> lock.pending /\ reply.id = lock.requestId
      /\ (lock.deadline => lock.pending) /\ (~lock.pending => lock.requestId = None)
  BY DEF CommandTypeOK, Turns, Busy
<1>3. CASE lock.awaitingReply
  <2>1. lock' = Finished(lock, FALSE)
    BY <1>2, <1>3
  <2>2. /\ lock' \in Lock /\ ~lock'.pending /\ ~lock'.awaitingReply /\ ~lock'.deadline
        /\ lock'.requestId = None /\ lock'.failed = FALSE
        /\ lock'.suppressFailure = lock.suppressFailure
    BY <1>2, <2>1, FinishedFields
  <2> QED
    BY <1>1, <1>2, <1>3, <2>2 DEF Completes, Quits
<1>4. CASE ~lock.awaitingReply
  BY <1>1, <1>2, <1>4 DEF Completes, Quits
<1> QED
  BY <1>3, <1>4

\* The last attempt of the intent is refused.
LEMMA RefuseFails ==
    ASSUME CommandTypeOK, Turns, NEW reply, lock.pending, lock.awaitingReply,
           RefuseLock(reply)
    PROVE  Fails
<1> DEFINE m == [lock EXCEPT !.suppressFailure = TRUE]
           l == Finished(m, TRUE)
<1>1. lock \in Lock /\ proto \in Proto /\ Busy
  BY DEF CommandTypeOK, Turns
<1>2. m \in Lock /\ m.suppressFailure = TRUE
  BY <1>1 DEF Lock
<1> HIDE DEF m
<1>3. /\ l \in Lock /\ ~l.pending /\ ~l.awaitingReply /\ ~l.deadline
      /\ l.requestId = None /\ l.failed = TRUE /\ l.suppressFailure = TRUE
  BY <1>2, FinishedFields
<1> HIDE DEF l
<1>4. Fail(l, <<"failed">>)
  BY DEF RefuseLock, l, m
<1>5. /\ proto' = Failed(proto) /\ lock' = [l EXCEPT !.suppressFailure = FALSE]
      /\ emitted' = <<"failed">> /\ attemptLater' = TRUE
  BY <1>1, <1>3, <1>4 DEF Fail, BusyMayFall, CommandTypeOK
<1>6. /\ lock' \in Lock /\ ~lock'.pending /\ ~lock'.awaitingReply /\ ~lock'.deadline
      /\ lock'.requestId = None /\ lock'.failed = TRUE /\ ~lock'.suppressFailure
  BY <1>3, <1>5 DEF Lock
<1>7. /\ proto' \in Proto /\ proto'.pendingRequestId = None /\ proto'.queued = None
      /\ ~proto'.responseTimeout
  BY <1>1, <1>5, FailedFields
<1> QED
  BY <1>5, <1>6, <1>7 DEF Fails, Quits

LEMMA RetryKeeps ==
    ASSUME Invariant, NEW reply \in Reply,
           Truthful(requests, reply, UnderWay(toDaemon, orphans)),
           reply.id = lock.requestId, lock.awaitingReply, RetryLock(reply),
           fromDaemon' \in Seq(Reply), Answers(fromDaemon') \subseteq Answers(fromDaemon),
           controlSocket' = Closing(controlSocket),
           UNCHANGED <<streamVars, daemonClosed, toDaemon, orphans, intent>>
    PROVE  Invariant' /\ Retries
<1> DEFINE id == Len(requests) + 1
           away == UnderWay(toDaemon, orphans)
           l == [lock EXCEPT !.awaitingReply = FALSE, !.suppressFailure = TRUE,
                             !.retried = TRUE, !.requestId = id,
                             !.minimumGeneration = reply.generation]
<1>1. CommandTypeOK /\ Turns /\ Ledger
  BY DEF Invariant
<1>2. /\ Wire(requests, away, Answers(fromDaemon), proto.queued)
      /\ Len(requests) \in Nat /\ intent \in Nat /\ seenGeneration \in Nat
      /\ lock \in Lock /\ proto \in Proto
      /\ lock.pending /\ Busy /\ proto.pendingRequestId = lock.requestId
      /\ lock.requestId \in 1 .. Len(requests)
  BY <1>1, StateTyped DEF CommandTypeOK, Turns, None
<1>3. reply.generation \in Nat
  BY DEF Reply
<1>4. /\ l \in Lock /\ l.pending /\ l.requestId = id /\ ~l.awaitingReply /\ l.suppressFailure
      /\ l.minimumGeneration = reply.generation /\ l.failed = lock.failed
      /\ l.deadline = lock.deadline
  <2>1. id \in Nat
    BY <1>2
  <2> HIDE DEF id
  <2> QED
    BY <1>2, <1>3, <2>1 DEF Lock
<1>5. /\ reply.result = "stale" /\ Fail(l, <<>>)
      /\ requests' = Append(requests, NewRequest(intent))
  BY DEF RetryLock
<1> HIDE DEF l
<1>6. /\ proto' = Failed(proto) /\ lock' = [l EXCEPT !.suppressFailure = FALSE]
      /\ emitted' = <<>> /\ attemptLater' = TRUE
  BY <1>1, <1>2, <1>4, <1>5 DEF Fail, BusyMayFall, CommandTypeOK
<1>7. /\ lock' \in Lock /\ lock'.pending /\ lock'.requestId = id /\ ~lock'.awaitingReply
      /\ ~lock'.suppressFailure /\ lock'.minimumGeneration = reply.generation
      /\ lock'.failed = lock.failed
  BY <1>4, <1>6 DEF Lock
<1>8. /\ proto' \in Proto /\ proto'.pendingRequestId = None /\ proto'.queued = None
      /\ ~proto'.responseTimeout
  BY <1>2, <1>6, FailedFields
<1>9. Grown(requests', requests, intent)
  BY <1>2, <1>5, AppendGrows DEF Wire
<1>10. /\ requests' \in Seq(Request) /\ Len(requests') = id /\ id # None
       /\ Ids \subseteq Ids' /\ id \in Ids'
  BY <1>2, <1>9 DEF Grown, Ids, None
<1>11. /\ Book(requests, away, Answers(fromDaemon), None, seenGeneration)
       /\ Attempts(requests, away, lock, None, intent) /\ Distinct(toDaemon, orphans)
       /\ Wire(requests, away, Answers(fromDaemon), None) /\ Wire(requests, away, {}, None)
  <2>1. /\ Book(requests, away, Answers(fromDaemon), proto.queued, seenGeneration)
        /\ Attempts(requests, away, lock, proto.queued, intent) /\ Distinct(toDaemon, orphans)
    BY <1>1 DEF Ledger
  <2> HIDE DEF away
  <2>2. /\ Book(requests, away, Answers(fromDaemon), None, seenGeneration)
        /\ Attempts(requests, away, lock, None, intent)
        /\ Wire(requests, away, Answers(fromDaemon), None)
    BY <1>2, <2>1, QueueForgotten
  <2> QED
    BY <2>1, <2>2 DEF Wire
<1>12. /\ Settled(requests, lock.requestId, away)
       /\ requests[lock.requestId].expected < lock'.minimumGeneration
  <2>1. /\ requests[reply.id].executions \in Nat /\ requests[reply.id].executions <= 1
        /\ requests[reply.id].written = 1 /\ requests[reply.id].executions # 1
        /\ reply.id \notin away /\ requests[reply.id].expected < reply.generation
    BY <1>2, <1>5, <1>11, RequestTyped DEF Truthful, Book, Wire
  <2>2. requests[reply.id].executions = 0
    BY <2>1
  <2> QED
    BY <1>7, <2>1, <2>2 DEF Settled, Unserved
<1> HIDE DEF away, id
<1>13. Book(requests', away, Answers(fromDaemon'), None, seenGeneration)
  <2>1. Book(requests', away, Answers(fromDaemon), None, seenGeneration)
    BY <1>2, <1>9, <1>11, GrowBook
  <2> QED
    BY <2>1 DEF Book
<1>14. Attempts(requests', away, lock', None, intent)
  BY <1>2, <1>7, <1>9, <1>10, <1>11, <1>12, GrowRetry
<1>15. CommandTypeOK'
  <2>1. toDaemon' \in Seq(Ids')
    <3>1. toDaemon \in Seq(1 .. Len(requests)) /\ Len(requests) <= Len(requests')
          /\ Len(requests') \in Nat
      BY <1>1, <1>2, <1>9 DEF CommandTypeOK, Ids, Grown
    <3> QED
      BY <1>2, <3>1, SeqOverMore DEF Ids
  <2>2. orphans' \subseteq Ids' /\ emitted' \in Seq({"completed", "failed"})
    BY <1>1, <1>6, <1>10, Failures DEF CommandTypeOK
  <2> QED
    BY <1>1, <1>2, <1>6, <1>7, <1>8, <1>10, <2>1, <2>2, SocketTyped
    DEF CommandTypeOK, streamVars
<1>16. Turns'
  BY <1>1, <1>6, <1>7, <1>8, <1>10 DEF Turns, NoLostAttempt, Busy, streamVars
<1>17. Ledger'
  BY <1>8, <1>11, <1>13, <1>14 DEF Ledger, streamVars, away
<1> QED
  BY <1>2, <1>6, <1>7, <1>8, <1>9, <1>15, <1>16, <1>17 DEF Invariant, Retries

LEMMA ReadReplyKeeps ==
    ASSUME Invariant, ReadReply
    PROVE  /\ Invariant'
           /\ \/ (Fails \/ Completes) /\ UNCHANGED <<requests, intent>>
              \/ Retries /\ UNCHANGED intent
<1> DEFINE reply == Head(fromDaemon)
           away == UnderWay(toDaemon, orphans)
           Quiet == /\ UNCHANGED <<streamVars, toDaemon, orphans, requests, intent>>
                    /\ controlSocket' \in [phase : {"idle", "opening", "open", "closing",
                                                    "failed"}, target : BOOLEAN]
                    /\ daemonClosed' \in BOOLEAN
<1>1. CommandTypeOK /\ Turns /\ Ledger /\ fromDaemon \in Seq(Reply)
  BY DEF Invariant, CommandTypeOK
<1>2. /\ reply \in Reply /\ Tail(fromDaemon) \in Seq(Reply) /\ reply \in Answers(fromDaemon)
      /\ Answers(Tail(fromDaemon)) \subseteq Answers(fromDaemon)
  BY <1>1, TakeReply DEF ReadReply
<1>3. fromDaemon' \in Seq(Reply) /\ Answers(fromDaemon') \subseteq Answers(fromDaemon)
  BY <1>2 DEF ReadReply
<1>4. Truthful(requests, reply, away) /\ reply.id # None
  <2>1. Truthful(requests, reply, away)
    BY <1>1, <1>2 DEF Ledger, Book
  <2> QED
    BY <2>1 DEF Truthful, None
<1>5. /\ RefuseReply(reply) \/ AcceptReply(reply)
      /\ UNCHANGED <<streamVars, daemonClosed, toDaemon, orphans, intent>>
  BY DEF ReadReply
<1>6. lock.pending /\ lock.awaitingReply <=> lock.awaitingReply
  BY <1>1 DEF Turns
<1>7. Quits /\ emitted' \in Seq({"completed", "failed"}) /\ Quiet => Invariant'
  BY <1>3, QuitsInvariant DEF Invariant
<1> HIDE DEF reply, away
<1>8. CASE RefuseReply(reply)
  <2>1. Fail(lock, <<>>) /\ UNCHANGED <<controlSocket, requests>>
    BY <1>8 DEF RefuseReply
  <2>2. Fails
    BY <1>1, <2>1, FailFails DEF CommandTypeOK
  <2>3. Quiet
    BY <1>1, <1>5, <2>1 DEF CommandTypeOK
  <2> QED
    BY <1>7, <2>2, <2>3, Failures DEF Fails
<1>9. CASE AcceptReply(reply)
  <2> DEFINE mine == lock.pending /\ reply.id = lock.requestId
  <2>1. /\ reply.id = proto.pendingRequestId /\ controlSocket' = Closing(controlSocket)
        /\ mine <=> lock.awaitingReply
    BY <1>1, <1>4, <1>9 DEF AcceptReply, Correlated, Turns, Busy
  <2>2. requests' = requests => Quiet
    BY <1>1, <1>5, <2>1, SocketTyped DEF CommandTypeOK
  <2>3. CASE reply.result = "executed"
    <3>1. /\ proto' = [pendingRequestId |-> None, queued |-> None,
                       status |-> "succeeded", responseTimeout |-> FALSE]
          /\ lock' = IF lock.pending /\ reply.id = lock.requestId
                     THEN Finished(lock, FALSE) ELSE lock
          /\ emitted' = <<"completed">> /\ attemptLater' = TRUE /\ UNCHANGED requests
      BY <1>9, <2>3 DEF AcceptReply, RetryLock, RefuseLock
    <3>2. requests[reply.id].executions = 1
      BY <1>4, <2>3 DEF Truthful
    <3>3. Completes
      BY <1>1, <1>2, <1>4, <2>1, <3>1, <3>2, CompleteCompletes
    <3> QED
      BY <1>7, <2>2, <3>1, <3>3, Failures DEF Completes
  <2>4. CASE reply.result # "executed" /\ ~mine
    <3>1. Fail(lock, <<>>) /\ UNCHANGED requests
      BY <1>9, <2>4 DEF AcceptReply
    <3>2. Fails
      BY <1>1, <3>1, FailFails DEF CommandTypeOK
    <3> QED
      BY <1>7, <2>2, <3>1, <3>2, Failures DEF Fails
  <2>5. CASE reply.result # "executed" /\ mine
    <3>1. CASE RetryLock(reply)
      <4>1. reply.id = lock.requestId /\ lock.awaitingReply
        BY <2>1, <2>5
      <4> QED
        BY <1>2, <1>3, <1>4, <1>5, <2>1, <3>1, <4>1, RetryKeeps DEF away
    <3>2. CASE RefuseLock(reply)
      <4>1. Fails
        BY <1>1, <2>1, <2>5, <3>2, RefuseFails
      <4>2. Quiet
        BY <2>2, <3>2 DEF RefuseLock
      <4> QED
        BY <1>7, <4>1, <4>2, Failures DEF Fails
    <3> QED
      BY <1>9, <2>5, <3>1, <3>2 DEF AcceptReply
  <2> QED
    BY <2>3, <2>4, <2>5
<1> QED
  BY <1>5, <1>8, <1>9

---------------------------------------------------------------------------
(* The turns of the stream and of the daemon                               *)

\* The shell learns of generations, or of the end of the stream.
StreamTurn == StreamAdvances \/ StreamReady \/ StreamLost

LEMMA StreamTurnKeeps ==
    ASSUME Invariant, StreamTurn
    PROVE  Invariant'
<1>1. CommandTypeOK /\ Turns /\ Ledger
  BY DEF Invariant
<1>2. /\ attemptLater' = TRUE /\ emitted' = <<>>
      /\ UNCHANGED <<daemonGeneration, proto, lock, wireVars, requests, intent>>
  BY DEF StreamTurn, StreamAdvances, StreamReady, StreamLost
<1>3. /\ ready' \in BOOLEAN /\ seenGeneration' \in Nat
      /\ seenGeneration <= seenGeneration' /\ seenGeneration' <= daemonGeneration'
  <2>1. /\ ready \in BOOLEAN /\ seenGeneration \in Nat /\ daemonGeneration \in Nat
        /\ seenGeneration <= daemonGeneration /\ daemonGeneration' = daemonGeneration
    BY <1>1, <1>2 DEF CommandTypeOK, Turns
  <2>2. ready' \in BOOLEAN
    BY <2>1 DEF StreamTurn, StreamAdvances, StreamReady, StreamLost
  <2>3. \/ seenGeneration < daemonGeneration /\ seenGeneration' = seenGeneration + 1
        \/ seenGeneration' = daemonGeneration
        \/ seenGeneration' = seenGeneration
    BY DEF StreamTurn, StreamAdvances, StreamReady, StreamLost
  <2>4. /\ seenGeneration' \in Nat
        /\ seenGeneration <= seenGeneration' /\ seenGeneration' <= daemonGeneration
    BY <2>1, <2>3
  <2> QED
    BY <2>1, <2>2, <2>4
<1>4. CommandTypeOK'
  BY <1>1, <1>2, <1>3, Failures DEF CommandTypeOK, wireVars, Ids
<1>5. Turns'
  BY <1>1, <1>2, <1>3 DEF Turns, NoLostAttempt, Busy
<1>6. Ledger'
  <2>1. Wire(requests, UnderWay(toDaemon, orphans), Answers(fromDaemon), proto.queued)
    BY <1>1, StateTyped
  <2>2. Book(requests, UnderWay(toDaemon, orphans), Answers(fromDaemon), proto.queued,
             seenGeneration')
    BY <1>1, <1>2, <1>3, <2>1, GenerationGrows DEF Ledger, CommandTypeOK
  <2> QED
    BY <1>1, <1>2, <1>3, <2>2 DEF Ledger, wireVars
<1> QED
  BY <1>4, <1>5, <1>6 DEF Invariant

\* A request leaves the wire, served or lost; its reply may be on the way.
LEMMA ServedInvariant ==
    ASSUME Invariant, NEW id \in UnderWay(toDaemon, orphans),
           \/ Executed(requests', requests, id)
           \/ requests' = requests,
           toDaemon' \in Seq(Ids), orphans' \subseteq Ids, Distinct(toDaemon', orphans'),
           UnderWay(toDaemon', orphans') = UnderWay(toDaemon, orphans) \ {id},
           fromDaemon' \in Seq(Reply),
           \A reply \in Answers(fromDaemon') :
              \/ reply \in Answers(fromDaemon)
              \/ Truthful(requests', reply, UnderWay(toDaemon, orphans) \ {id}),
           daemonGeneration' \in Nat, daemonGeneration <= daemonGeneration',
           emitted' = <<>>,
           UNCHANGED <<ready, seenGeneration, proto, lock, attemptLater, controlSocket,
                       daemonClosed, intent>>
    PROVE  Invariant'
<1> DEFINE away == UnderWay(toDaemon, orphans)
<1>1. CommandTypeOK /\ Turns /\ Ledger
  BY DEF Invariant
<1>2. /\ Wire(requests, away, Answers(fromDaemon), proto.queued)
      /\ Wire(requests, away, {}, proto.queued)
      /\ lock.pending => lock.requestId \in 1 .. Len(requests)
  BY <1>1, StateTyped DEF Wire, Turns, CommandTypeOK, Ids
<1>3. /\ Book(requests, away, Answers(fromDaemon), proto.queued, seenGeneration)
      /\ Attempts(requests, away, lock, proto.queued, intent)
  BY <1>1 DEF Ledger
<1>4. requests' \in Seq(Request) /\ Ids' = Ids
  BY <1>1 DEF Executed, Ids, CommandTypeOK
<1>5. CommandTypeOK'
  BY <1>1, <1>4, Failures DEF CommandTypeOK
<1>6. Turns'
  <2>1. seenGeneration <= daemonGeneration'
    BY <1>1 DEF Turns, CommandTypeOK
  <2> QED
    BY <1>1, <2>1 DEF Turns, NoLostAttempt, MayAttempt, Busy
<1> HIDE DEF away
<1>7. /\ Book(requests', away \ {id}, Answers(fromDaemon), proto.queued, seenGeneration)
      /\ Attempts(requests', away \ {id}, lock, proto.queued, intent)
  <2>1. CASE Executed(requests', requests, id)
    BY <1>2, <1>3, <2>1, ExecuteBook, ExecuteAttempts DEF away
  <2>2. CASE requests' = requests
    <3>1. away \ {id} \in SUBSET away /\ Answers(fromDaemon) \in SUBSET Answers(fromDaemon)
      OBVIOUS
    <3> QED
      BY <1>3, <2>2, <3>1, BookEases
  <2> QED
    BY <2>1, <2>2
<1>8. Book(requests', away \ {id}, Answers(fromDaemon'), proto.queued, seenGeneration)
  BY <1>7 DEF Book, away
<1>9. Ledger'
  BY <1>7, <1>8 DEF Ledger, away
<1> QED
  BY <1>5, <1>6, <1>9 DEF Invariant

\* What the daemon does with request id, and the reply that says so
LEMMA ServeTruthful ==
    ASSUME Invariant, NEW id \in UnderWay(toDaemon, orphans), NEW result \in Results,
           Serve(id, result)
    PROVE  /\ \/ Executed(requests', requests, id)
              \/ requests' = requests
           /\ daemonGeneration' \in Nat /\ daemonGeneration <= daemonGeneration'
           /\ LET reply == [id |-> id, result |-> result, generation |-> daemonGeneration']
              IN  /\ reply \in Reply
                  /\ Truthful(requests', reply, UnderWay(toDaemon, orphans) \ {id})
           /\ \/ requests' = requests
              \/ requests' = [requests EXCEPT ![id].executions = @ + 1]
           /\ id \in 1 .. Len(requests)
<1> DEFINE away == UnderWay(toDaemon, orphans)
           reply == [id |-> id, result |-> result, generation |-> daemonGeneration']
<1>1. /\ Wire(requests, away, Answers(fromDaemon), proto.queued)
      /\ Book(requests, away, Answers(fromDaemon), proto.queued, seenGeneration)
      /\ daemonGeneration \in Nat /\ seenGeneration \in Nat
      /\ seenGeneration <= daemonGeneration /\ Len(requests) \in Nat
  BY StateTyped DEF Invariant, Ledger, CommandTypeOK, Turns
<1>2. /\ id \in 1 .. Len(requests) /\ requests[id].written = 1
      /\ requests[id].executions = 0 /\ requests[id].expected \in Nat
      /\ requests[id].expected <= daemonGeneration /\ id \in Nat
  <2>1. id \in 1 .. Len(requests) /\ Unserved(requests, id)
        /\ requests[id].expected <= seenGeneration
    BY <1>1 DEF Wire, Book
  <2>2. requests[id].expected \in Nat
    BY <1>1, <2>1, RequestTyped DEF Wire
  <2> QED
    BY <1>1, <2>1, <2>2 DEF Unserved
<1>3. daemonGeneration' \in Nat /\ daemonGeneration <= daemonGeneration'
  BY <1>1 DEF Serve
<1>4. reply \in Reply
  BY <1>2, <1>3 DEF Reply, Results
<1>5. reply.id = id /\ reply.result = result /\ reply.generation = daemonGeneration'
  OBVIOUS
<1> HIDE DEF away, reply
<1>6. CASE result = "executed"
  <2>1. requests' = [requests EXCEPT ![id].executions = @ + 1]
    BY <1>6 DEF Serve
  <2>2. Executed(requests', requests, id)
    BY <1>1, <1>2, <2>1, ExceptExecutes DEF Wire
  <2>3. Truthful(requests', reply, away \ {id})
    <3>1. requests'[id].written = 1 /\ requests'[id].executions = 1
          /\ Len(requests') = Len(requests)
      BY <1>2, <2>2 DEF Executed
    <3> QED
      BY <1>2, <1>5, <1>6, <3>1 DEF Truthful
  <2> QED
    BY <1>2, <1>3, <1>4, <2>1, <2>2, <2>3 DEF away, reply
<1>7. CASE result # "executed"
  <2>1. requests' = requests /\ daemonGeneration' = daemonGeneration
        /\ (result = "stale" => requests[id].expected # daemonGeneration)
    BY <1>7 DEF Serve
  <2>2. Truthful(requests', reply, away \ {id})
    BY <1>1, <1>2, <1>5, <1>7, <2>1 DEF Truthful
  <2> QED
    BY <1>2, <1>3, <1>4, <2>1, <2>2 DEF away, reply
<1> QED
  BY <1>6, <1>7

LEMMA ServeRequestKeeps ==
    ASSUME Invariant, NEW result \in Results, ServeRequest(result)
    PROVE  Invariant'
<1> DEFINE id == Head(toDaemon)
           away == UnderWay(toDaemon, orphans)
           reply == [id |-> id, result |-> result, generation |-> daemonGeneration']
<1>1. /\ toDaemon \in Seq(Ids) /\ toDaemon # <<>> /\ Distinct(toDaemon, orphans)
      /\ fromDaemon \in Seq(Reply) /\ orphans \subseteq Ids
  BY DEF Invariant, CommandTypeOK, Ledger, ServeRequest
<1>2. /\ id \in away /\ Tail(toDaemon) \in Seq(Ids) /\ Distinct(Tail(toDaemon), orphans)
      /\ UnderWay(Tail(toDaemon), orphans) = away \ {id}
  BY <1>1, TakeHead
<1>3. /\ Serve(id, result) /\ toDaemon' = Tail(toDaemon) /\ emitted' = <<>>
      /\ fromDaemon' = IF daemonClosed THEN fromDaemon ELSE Append(fromDaemon, reply)
      /\ UNCHANGED <<ready, seenGeneration, proto, lock, attemptLater, controlSocket,
                     daemonClosed, orphans, intent>>
  BY DEF ServeRequest
<1>4. /\ \/ Executed(requests', requests, id)
         \/ requests' = requests
      /\ daemonGeneration' \in Nat /\ daemonGeneration <= daemonGeneration'
      /\ reply \in Reply /\ Truthful(requests', reply, away \ {id})
  BY <1>2, <1>3, ServeTruthful
<1> HIDE DEF id, away, reply
<1>5. /\ fromDaemon' \in Seq(Reply)
      /\ \A r \in Answers(fromDaemon') : r \in Answers(fromDaemon) \/ r = reply
  <2>1. /\ Append(fromDaemon, reply) \in Seq(Reply)
        /\ Answers(Append(fromDaemon, reply)) = Answers(fromDaemon) \cup {reply}
    BY <1>1, <1>4, AddReply
  <2> QED
    BY <1>1, <1>3, <2>1
<1>6. \A r \in Answers(fromDaemon') :
         \/ r \in Answers(fromDaemon)
         \/ Truthful(requests', r, away \ {id})
  BY <1>4, <1>5
<1>7. /\ toDaemon' \in Seq(Ids) /\ orphans' \subseteq Ids /\ Distinct(toDaemon', orphans')
      /\ UnderWay(toDaemon', orphans') = away \ {id}
  BY <1>1, <1>2, <1>3
<1> QED
  BY <1>2, <1>3, <1>4, <1>5, <1>6, <1>7, ServedInvariant DEF away

LEMMA OrphanKeeps ==
    ASSUME Invariant, NEW id \in orphans,
           LoseOrphan(id) \/ \E result \in Results : ServeOrphan(id, result)
    PROVE  Invariant'
<1> DEFINE away == UnderWay(toDaemon, orphans)
<1>1. /\ toDaemon \in Seq(Ids) /\ Distinct(toDaemon, orphans) /\ daemonGeneration \in Nat
      /\ fromDaemon \in Seq(Reply) /\ orphans \subseteq Ids
  BY DEF Invariant, CommandTypeOK, Ledger
<1>2. /\ id \in away /\ Distinct(toDaemon, orphans \ {id})
      /\ UnderWay(toDaemon, orphans \ {id}) = away \ {id}
  BY <1>1, TakeOrphan
<1>3. /\ orphans' = orphans \ {id} /\ emitted' = <<>> /\ toDaemon' = toDaemon
      /\ fromDaemon' = fromDaemon
      /\ UNCHANGED <<ready, seenGeneration, proto, lock, attemptLater, controlSocket,
                     daemonClosed, intent>>
  BY DEF LoseOrphan, ServeOrphan, streamVars
<1>4. /\ \/ Executed(requests', requests, id)
         \/ requests' = requests
      /\ daemonGeneration' \in Nat /\ daemonGeneration <= daemonGeneration'
  <2>1. CASE LoseOrphan(id)
    BY <1>1, <2>1 DEF LoseOrphan, streamVars
  <2>2. ASSUME NEW result \in Results, ServeOrphan(id, result)
        PROVE  <1>4!1 /\ <1>4!2
    BY <1>2, <2>2, ServeTruthful DEF ServeOrphan
  <2> QED
    BY <2>1, <2>2
<1> HIDE DEF away
<1>5. /\ toDaemon' \in Seq(Ids) /\ orphans' \subseteq Ids /\ Distinct(toDaemon', orphans')
      /\ UnderWay(toDaemon', orphans') = away \ {id} /\ fromDaemon' \in Seq(Reply)
      /\ \A r \in Answers(fromDaemon') :
            \/ r \in Answers(fromDaemon)
            \/ Truthful(requests', r, away \ {id})
  BY <1>1, <1>2, <1>3
<1> QED
  BY <1>2, <1>3, <1>4, <1>5, ServedInvariant DEF away

LEMMA DaemonAloneKeeps ==
    ASSUME Invariant, PeerCloses \/ DaemonPublishes
    PROVE  Invariant'
<1>1. CommandTypeOK /\ Turns /\ Ledger
  BY DEF Invariant
<1>2. /\ emitted' = <<>> /\ daemonClosed' \in BOOLEAN
      /\ UNCHANGED <<ready, seenGeneration, proto, lock, attemptLater, controlSocket,
                     toDaemon, orphans, fromDaemon, requests, intent>>
  BY <1>1 DEF PeerCloses, DaemonPublishes, streamVars, wireVars, CommandTypeOK
<1>3. daemonGeneration' \in Nat /\ daemonGeneration <= daemonGeneration'
  <2>1. daemonGeneration \in Nat
    BY <1>1 DEF CommandTypeOK
  <2>2. daemonGeneration' = daemonGeneration \/ daemonGeneration' = daemonGeneration + 1
    BY DEF PeerCloses, DaemonPublishes, streamVars
  <2> QED
    BY <2>1, <2>2
<1>4. CommandTypeOK'
  BY <1>1, <1>2, <1>3, Failures DEF CommandTypeOK, Ids
<1>5. Turns'
  <2>1. seenGeneration <= daemonGeneration'
    BY <1>1, <1>3 DEF Turns, CommandTypeOK
  <2> QED
    BY <1>1, <1>2, <2>1 DEF Turns, NoLostAttempt, MayAttempt, Busy
<1>6. Ledger'
  BY <1>1, <1>2 DEF Ledger
<1> QED
  BY <1>4, <1>5, <1>6 DEF Invariant

---------------------------------------------------------------------------
(* The invariant                                                           *)

LEMMA InvariantStarts ==
    ASSUME CommandInit
    PROVE  Invariant
<1>1. CommandTypeOK
  BY EmptySeq DEF CommandInit, CommandTypeOK, Proto, Lock, Ids, None
<1>2. Turns
  BY DEF CommandInit, Turns, NoLostAttempt, MayAttempt, Busy, None
<1>3. Ledger
  BY DEF CommandInit, Ledger, Book, Attempts, Distinct, UnderWay, Answers, None
<1> QED
  BY <1>1, <1>2, <1>3 DEF Invariant

LEMMA InvariantKept ==
    ASSUME Invariant, [CommandNext]_commandVars
    PROVE  Invariant'
<1>1. CASE SendCommand
  BY <1>1, SendCommandKeeps
<1>2. CASE RequestLock
  BY <1>2, RequestLockKeeps
<1>3. CASE RunAttempt
  BY <1>3, RunAttemptKeeps
<1>4. CASE ReadReply
  BY <1>4, ReadReplyKeeps
<1>5. CASE ResponseTimesOut
  BY <1>5, ResponseTimesOutKeeps
<1>6. CASE DeadlineExpires
  BY <1>6, DeadlineExpiresKeeps
<1>7. CASE ControlConnects
  BY <1>7, ControlConnectsKeeps
<1>8. CASE SocketError
  BY <1>8, SocketErrorKeeps
<1>9. CASE SocketDisconnected
  BY <1>9, SocketDisconnectedKeeps
<1>10. CASE CommandDaemon
  <2>1. CASE \E result \in Results : ServeRequest(result)
    BY <2>1, ServeRequestKeeps
  <2>2. CASE \E id \in orphans : (\E result \in Results : ServeOrphan(id, result))
                                 \/ LoseOrphan(id)
    BY <2>2, OrphanKeeps
  <2>3. CASE PeerCloses \/ DaemonPublishes
    BY <2>3, DaemonAloneKeeps
  <2>4. CASE StreamAdvances \/ StreamReady \/ StreamLost
    BY <2>4, StreamTurnKeeps DEF StreamTurn
  <2> QED
    BY <1>10, <2>1, <2>2, <2>3, <2>4 DEF CommandDaemon
<1>11. CASE UNCHANGED commandVars
  BY <1>11 DEF commandVars, streamVars, wireVars, Invariant, CommandTypeOK, Ids, Turns,
     NoLostAttempt, MayAttempt, Busy, Ledger
<1> QED
  BY <1>1, <1>2, <1>3, <1>4, <1>5, <1>6, <1>7, <1>8, <1>9, <1>10, <1>11
  DEF CommandNext, CommandClient

LEMMA InvariantHolds == CommandSpec => []Invariant
<1>1. CommandInit => Invariant
  BY InvariantStarts
<1>2. Invariant /\ [CommandNext]_commandVars => Invariant'
  BY InvariantKept
<1> QED
  BY <1>1, <1>2, PTL DEF CommandSpec

\* The attempts of a lock hold together, whatever timers, late replies and lost
\* connections do between two turns (CommandClient, LockRequest).
THEOREM AttemptsHoldTogether == CommandSpec => []AttemptsAreSound
<1>1. ASSUME Invariant PROVE AttemptsAreSound
  <2>1. /\ CommandTypeOK /\ Turns /\ Ledger
        /\ Book(requests, UnderWay(toDaemon, orphans), Answers(fromDaemon), proto.queued,
                seenGeneration)
        /\ Attempts(requests, UnderWay(toDaemon, orphans), lock, proto.queued, intent)
    BY <1>1 DEF Invariant, Ledger
  <2>2. NoLostAttempt /\ LockOwnsItsFailures
    BY <2>1 DEF Turns, LockOwnsItsFailures
  <2>3. \A id \in Ids : /\ requests[id].executions \in Nat /\ requests[id].written \in Nat
                        /\ requests[id].written <= 1
                        /\ requests[id].executions <= requests[id].written
    BY <2>1, RequestTyped DEF CommandTypeOK, Book, Ids
  <2>4. WrittenOnce
    BY <2>3 DEF WrittenOnce
  <2>5. Len(requests) \in Nat /\ \A i \in Ids : i \in Int
    BY <2>1, StateTyped DEF Ids
  <2>6. LocksOncePerIntent
    <3> SUFFICES ASSUME NEW i \in Ids, NEW j \in Ids,
                        requests[i].intent = requests[j].intent, requests[i].intent # 0,
                        requests[i].executions > 0, requests[j].executions > 0
                 PROVE  i = j /\ requests[i].executions = 1
      BY DEF LocksOncePerIntent
    <3>1. requests[i].executions = 1
      BY <2>3
    <3>2. ~(i < j)
      BY <2>1 DEF Attempts, Settled, Unserved, Ids
    <3>3. ~(j < i)
      BY <2>1 DEF Attempts, Settled, Unserved, Ids
    <3> QED
      BY <2>5, <3>1, <3>2, <3>3
  <2>7. RetryIsNewer
    BY <2>1 DEF RetryIsNewer, Attempts, Ids
  <2> QED
    BY <2>1, <2>2, <2>4, <2>6, <2>7 DEF AttemptsAreSound
<1> QED
  BY <1>1, InvariantHolds, PTL

---------------------------------------------------------------------------
(* Verdicts                                                                *)

\* A turn without a verdict
Quietly ==
    /\ emitted' = <<>>
    /\ Busy => /\ proto'.pendingRequestId = proto.pendingRequestId
               /\ lock'.awaitingReply = lock.awaitingReply
    /\ lock.pending => lock'.pending

LEMMA TurnVerdict ==
    ASSUME Invariant, CommandNext
    PROVE  \/ (Fails \/ Completes) /\ UNCHANGED <<requests, intent>>
           \/ Retries /\ UNCHANGED intent
           \/ WaitEnds
           \/ Quietly
<1>1. CommandTypeOK /\ Turns /\ lock \in Lock
  BY DEF Invariant, CommandTypeOK
<1>2. CASE ReadReply
  BY <1>2, ReadReplyKeeps
<1>3. CASE ResponseTimesOut
  BY <1>3, ResponseTimesOutKeeps DEF ResponseTimesOut
<1>4. CASE SocketError
  BY <1>4, SocketErrorKeeps DEF SocketError
<1>5. CASE DeadlineExpires
  BY <1>5, DeadlineExpiresKeeps DEF DeadlineExpires
<1>6. CASE ControlConnects
  <2>1. proto \in Proto
    BY <1>1 DEF CommandTypeOK
  <2> QED
    BY <1>6, <2>1, FailedFields DEF ControlConnects, Quietly
<1>7. CASE SendCommand
  <2>1. emitted' = <<>> /\ ~Busy /\ lock' = [lock EXCEPT !.failed = FALSE]
    BY <1>7 DEF SendCommand
  <2>2. lock'.pending = lock.pending
    BY <1>1, <2>1 DEF Lock
  <2> QED
    BY <2>1, <2>2 DEF Quietly
<1>8. CASE RequestLock
  <2> DEFINE id == Len(requests) + 1
             l == NewIntent(id)
  <2>1. lock \in Lock /\ id \in Nat
    BY <1>1, StateTyped
  <2>2. /\ l \in Lock /\ l.pending /\ l.awaitingReply = lock.awaitingReply
    <3> HIDE DEF id
    <3> QED
      BY <2>1, NewIntentFields
  <2>3. emitted' = <<>> /\ ~lock.pending
    BY <1>8 DEF RequestLock
  <2>4. \/ MayAttempt(l)
        \/ lock' = l /\ UNCHANGED proto
    BY <1>8 DEF RequestLock, Attempt
  <2> HIDE DEF l, id
  <2> QED
    BY <2>2, <2>3, <2>4 DEF Quietly, MayAttempt
<1>9. CASE RunAttempt
  <2>1. emitted' = <<>>
    BY <1>9 DEF RunAttempt
  <2>2. CASE ~MayAttempt(lock) /\ UNCHANGED <<proto, lock>>
    BY <2>1, <2>2 DEF Quietly
  <2>3. CASE MayAttempt(lock) /\ lock' = [lock EXCEPT !.awaitingReply = TRUE]
    <3>1. lock'.pending /\ ~Busy
      BY <1>1, <2>3 DEF MayAttempt, Lock
    <3> QED
      BY <2>1, <3>1 DEF Quietly
  <2> QED
    BY <1>9, <2>2, <2>3 DEF RunAttempt, Attempt
<1>10. CASE SocketDisconnected \/ CommandDaemon
  BY <1>10 DEF SocketDisconnected, CommandDaemon, ServeRequest, ServeOrphan, LoseOrphan,
     PeerCloses, DaemonPublishes, StreamAdvances, StreamReady, StreamLost, Quietly
<1> QED
  BY <1>2, <1>3, <1>4, <1>5, <1>6, <1>7, <1>8, <1>9, <1>10 DEF CommandNext, CommandClient

LEMMA Signals ==
    /\ Len(<<"failed">>) = 1 /\ Len(<<"completed">>) = 1
    /\ <<"failed">> # <<"completed">> /\ <<>> # <<"completed">>
    /\ <<"failed">> # <<>> /\ Head(<<"failed">>) # "completed"
    /\ Len(<<>>) = 0
OBVIOUS

\* A turn that waits for the stream no longer
LEMMA WaitVerdict ==
    ASSUME Invariant, WaitEnds
    PROVE  ~lock'.pending /\ lock'.failed /\ proto' = proto /\ emitted' = <<"failed">>
BY FinishedFields DEF Invariant, CommandTypeOK, WaitEnds

\* Success is reported only of the command that is pending and that was executed,
\* and an intent only ends well if a lock of it was executed.
LEMMA SuccessIsHonest ==
    ASSUME Invariant, CommandNext
    PROVE  /\ emitted' = <<"completed">> =>
                Busy /\ requests[proto.pendingRequestId].executions > 0
           /\ lock.pending /\ ~lock'.pending /\ ~lock'.failed =>
                \E id \in Ids : /\ requests[id].intent = intent
                                /\ requests[id].executions > 0
<1>1. CommandTypeOK /\ Turns
      /\ Attempts(requests, UnderWay(toDaemon, orphans), lock, proto.queued, intent)
  BY DEF Invariant, Ledger
<1>2. CASE Fails
  BY <1>2, Signals DEF Fails, Quits
<1>3. CASE Completes
  <2>1. Busy /\ requests[proto.pendingRequestId].executions > 0
    BY <1>3 DEF Completes
  <2>2. ASSUME lock.pending, ~lock'.pending
        PROVE  \E id \in Ids : /\ requests[id].intent = intent
                               /\ requests[id].executions > 0
    <3>1. lock.awaitingReply
      BY <1>3, <2>2 DEF Completes, Quits
    <3>2. lock.requestId \in Ids /\ proto.pendingRequestId = lock.requestId
      BY <1>1, <2>2, <3>1 DEF Turns, CommandTypeOK
    <3>3. requests[lock.requestId].intent = intent
      BY <1>1, <2>2 DEF Attempts
    <3> QED
      BY <2>1, <3>2, <3>3
  <2> QED
    BY <2>1, <2>2
<1>4. CASE Retries
  BY <1>4, Signals DEF Retries
<1>5. CASE WaitEnds
  BY <1>5, WaitVerdict, Signals
<1>6. CASE Quietly
  BY <1>6, Signals DEF Quietly
<1> QED
  BY <1>2, <1>3, <1>4, <1>5, <1>6, TurnVerdict

\* One verdict ends a command, and one an intent.
LEMMA VerdictIsOne ==
    ASSUME Invariant, CommandNext
    PROVE  /\ Busy /\ proto'.pendingRequestId # proto.pendingRequestId =>
                Len(emitted') = (IF lock.awaitingReply /\ lock'.pending THEN 0 ELSE 1)
           /\ lock.pending /\ ~lock'.pending => Len(emitted') = 1
<1>1. Turns
  BY DEF Invariant
<1>2. CASE Fails \/ Completes
  BY <1>2, Signals DEF Fails, Completes, Quits
<1>3. CASE Retries
  BY <1>3, Signals DEF Retries
<1>4. CASE WaitEnds
  BY <1>4, WaitVerdict, Signals
<1>5. CASE Quietly
  BY <1>5 DEF Quietly
<1> QED
  BY <1>2, <1>3, <1>4, <1>5, TurnVerdict

\* A reported success is one (CommandClient, LockRequest), in every turn.
LEMMA HonestTurns == Invariant /\ [CommandNext]_commandVars =>
    [/\ emitted' = <<"completed">> =>
             Busy /\ requests[proto.pendingRequestId].executions > 0
     /\ lock.pending /\ ~lock'.pending /\ ~lock'.failed =>
             \E id \in Ids : /\ requests[id].intent = intent
                             /\ requests[id].executions > 0]_commandVars
BY SuccessIsHonest

LEMMA TurnsWithOneVerdict == Invariant /\ [CommandNext]_commandVars =>
    [/\ Busy /\ proto'.pendingRequestId # proto.pendingRequestId =>
             Len(emitted') = (IF lock.awaitingReply /\ lock'.pending THEN 0 ELSE 1)
     /\ lock.pending /\ ~lock'.pending => Len(emitted') = 1]_commandVars
BY VerdictIsOne

---------------------------------------------------------------------------
(* The promise of LockIntent                                               *)

\* The daemon locked for intent n.
Done(reqs, n) ==
    \E id \in 1 .. Len(reqs) : n > 0 /\ reqs[id].intent = n /\ reqs[id].executions > 0

LEMMA CountRuns ==
    ASSUME Invariant
    PROVE  Cardinality(Runs) = IF Done(requests, intent) THEN 1 ELSE 0
<1> DEFINE Mine == {i \in Ids : intent > 0 /\ requests[i].intent = intent}
           RunsOf(id) == {id} \X (1 .. requests[id].executions)
<1>1. /\ \A id \in Ids : /\ requests[id].executions \in Nat
                         /\ requests[id].executions <= 1
      /\ Len(requests) \in Nat /\ intent \in Nat
  <2>1. Book(requests, UnderWay(toDaemon, orphans), Answers(fromDaemon), proto.queued,
             seenGeneration)
    BY DEF Invariant, Ledger
  <2>2. requests \in Seq(Request) /\ Len(requests) \in Nat /\ intent \in Nat
    BY StateTyped DEF Invariant, CommandTypeOK
  <2> QED
    BY <2>1, <2>2, RequestTyped DEF Book, Ids
<1>2. Runs = UNION {RunsOf(id) : id \in Mine}
  BY DEF Runs
<1>3. CASE ~Done(requests, intent)
  <2>1. \A id \in Mine : requests[id].executions = 0
    BY <1>1, <1>3 DEF Done, Ids
  <2>2. \A id \in Mine : 1 .. requests[id].executions = {}
    BY <2>1
  <2>3. \A id \in Mine : RunsOf(id) = {}
    BY <2>2
  <2> HIDE DEF RunsOf, Mine
  <2>4. Runs = {}
    BY <1>2, <2>3
  <2> QED
    BY <1>3, <2>4, FS_EmptySet
<1>4. CASE Done(requests, intent)
  <2>1. PICK id \in Ids : /\ intent > 0 /\ requests[id].intent = intent
                          /\ requests[id].executions > 0
    BY <1>4 DEF Done, Ids
  <2>2. id \in Mine /\ 1 .. requests[id].executions = {1}
    BY <1>1, <2>1
  <2>3. \A j \in Mine : j # id => requests[j].executions = 0
    <3> SUFFICES ASSUME NEW j \in Mine, j # id
                 PROVE  requests[j].executions = 0
      OBVIOUS
    <3>1. /\ Attempts(requests, UnderWay(toDaemon, orphans), lock, proto.queued, intent)
          /\ id \in 1 .. Len(requests) /\ j \in 1 .. Len(requests)
          /\ requests[j].intent = requests[id].intent /\ requests[j].intent # 0
      BY <1>1, <2>1 DEF Invariant, Ledger, Ids
    <3>2. CASE j < id
      BY <3>1, <3>2 DEF Attempts, Settled, Unserved
    <3>3. CASE id < j
      BY <2>1, <3>1, <3>3 DEF Attempts, Settled, Unserved
    <3> QED
      BY <1>1, <3>1, <3>2, <3>3
  <2>4. \A j \in Mine : j # id => 1 .. requests[j].executions = {}
    BY <2>3
  <2>5. RunsOf(id) = {<<id, 1>>} /\ \A j \in Mine : j # id => RunsOf(j) = {}
    BY <2>2, <2>4
  <2> HIDE DEF RunsOf, Mine
  <2>6. Runs = {<<id, 1>>}
    BY <1>2, <2>2, <2>5
  <2> QED
    BY <1>4, <2>6, FS_Singleton
<1> QED
  BY <1>3, <1>4

\* Nothing is executed.
SameWork(new, old) ==
    /\ Len(new) = Len(old)
    /\ \A i \in 1 .. Len(old) :
          new[i].intent = old[i].intent /\ new[i].executions = old[i].executions

LEMMA WorkDone ==
    ASSUME NEW old, NEW new, NEW n
    PROVE  /\ SameWork(new, old) => (Done(new, n) <=> Done(old, n))
           /\ \A m \in Nat : old \in Seq(Request) /\ Grown(new, old, m) =>
                 (Done(new, n) <=> Done(old, n))
<1>1. SameWork(new, old) => (Done(new, n) <=> Done(old, n))
  BY DEF SameWork, Done
<1>2. ASSUME NEW m \in Nat, old \in Seq(Request), Grown(new, old, m)
      PROVE  Done(new, n) <=> Done(old, n)
  <2>1. /\ Len(old) \in Nat /\ Len(new) = Len(old) + 1
        /\ new[Len(new)].executions = 0
    BY <1>2, LenProperties DEF Grown, NewRequest
  <2>2. /\ \A i \in 1 .. Len(new) : i \in 1 .. Len(old) \/ i = Len(new)
        /\ \A i \in 1 .. Len(old) : i \in 1 .. Len(new) /\ new[i] = old[i]
    BY <1>2, <2>1 DEF Grown
  <2> QED
    BY <2>1, <2>2 DEF Done
<1> QED
  BY <1>1, <1>2

LEMMA DispatchWorks ==
    ASSUME NEW known \in Seq(Request), NEW id \in 1 .. Len(known), seenGeneration \in Nat,
           Dispatch(id, known)
    PROVE  SameWork(requests', known)
<1> DEFINE stamped == [known EXCEPT ![id].expected = seenGeneration]
<1>1. Stamped(stamped, known, id, seenGeneration)
  BY ExceptStamps
<1> HIDE DEF stamped
<1>2. SameWork(stamped, known) /\ stamped \in Seq(Request) /\ id \in 1 .. Len(stamped)
  BY <1>1 DEF Stamped, SameWork, SameLife
<1>3. CASE requests' = stamped
  BY <1>2, <1>3
<1>4. CASE requests' = [stamped EXCEPT ![id].written = @ + 1]
  <2>1. Written(requests', stamped, id)
    BY <1>2, <1>4, ExceptWrites
  <2> QED
    BY <1>2, <2>1 DEF Written, SameWork
<1> QED
  BY <1>3, <1>4 DEF Dispatch, Write, stamped

Counted == Cardinality(Runs) = IF Done(requests, intent) THEN 1 ELSE 0

\* Nothing happens to the intent.
LEMMA IntentStutters ==
    ASSUME Counted, Counted', UNCHANGED intent, lock'.pending = lock.pending,
           lock'.failed = lock.failed,
           Done(requests', intent) <=> Done(requests, intent)
    PROVE  UNCHANGED Intent!vars
<1>1. Cardinality(Runs)' = Cardinality(Runs)
  BY DEF Counted
<1> QED
  BY <1>1 DEF Intent!vars

\* A verdict on the intent
LEMMA IntentEnds ==
    ASSUME Invariant, Counted, Counted',
           \/ (Fails \/ Completes) /\ UNCHANGED <<requests, intent>>
           \/ WaitEnds
           \/ Retries /\ UNCHANGED intent
    PROVE  [Intent!Next]_Intent!vars
<1>1. /\ Turns /\ lock \in Lock /\ requests \in Seq(Request) /\ intent \in Nat
      /\ lock.pending \in BOOLEAN
  BY DEF Invariant, CommandTypeOK, Lock
<1>2. CASE WaitEnds
  <2>1. lock.pending /\ ~lock'.pending /\ lock' \in Lock /\ lock'.failed
    BY <1>1, <1>2, FinishedFields DEF WaitEnds, Turns
  <2>2. UNCHANGED <<requests, intent>>
    BY <1>2 DEF WaitEnds
  <2>3. Cardinality(Runs)' = Cardinality(Runs)
    BY <2>2 DEF Counted
  <2>4. lock'.pending = FALSE /\ lock'.failed = TRUE
    BY <2>1 DEF Lock
  <2>5. Intent!GiveUp
    BY <2>1, <2>2, <2>3, <2>4 DEF Intent!GiveUp
  <2> QED
    BY <2>5 DEF Intent!Next
<1>3. CASE Retries /\ UNCHANGED intent
  <2>1. Done(requests', intent) <=> Done(requests, intent)
    BY <1>1, <1>3, WorkDone DEF Retries
  <2>2. lock.pending /\ lock'.pending /\ lock'.failed = lock.failed
    BY <1>1, <1>3 DEF Retries, Turns
  <2>3. lock' \in Lock => lock'.pending = lock.pending
    BY <1>1, <2>2 DEF Lock
  <2> QED
    BY <1>3, <2>1, <2>2, <2>3, IntentStutters
<1>4. ASSUME Quits, UNCHANGED <<requests, intent>>, ~lock.awaitingReply
      PROVE  UNCHANGED Intent!vars
  <2>1. lock' \in Lock /\ (lock'.pending <=> lock.pending) /\ lock'.failed = lock.failed
    BY <1>4 DEF Quits
  <2>2. lock'.pending = lock.pending
    BY <1>1, <2>1 DEF Lock
  <2> QED
    BY <1>4, <2>1, <2>2, IntentStutters
<1>5. ASSUME Quits, UNCHANGED <<requests, intent>>, lock.awaitingReply
      PROVE  /\ lock.pending /\ lock'.pending = FALSE /\ lock'.failed \in BOOLEAN
             /\ Cardinality(Runs)' = Cardinality(Runs)
  <2>1. lock.pending /\ ~lock'.pending /\ lock' \in Lock
    BY <1>1, <1>5 DEF Quits, Turns
  <2>2. lock'.pending = FALSE /\ lock'.failed \in BOOLEAN
    BY <2>1 DEF Lock
  <2> QED
    BY <1>5, <2>1, <2>2 DEF Counted
<1>6. CASE Fails /\ UNCHANGED <<requests, intent>>
  <2>1. CASE lock.awaitingReply
    <3>1. lock.pending /\ lock'.pending = FALSE /\ lock'.failed = TRUE
          /\ Cardinality(Runs)' = Cardinality(Runs)
      BY <1>5, <1>6, <2>1 DEF Fails
    <3> QED
      BY <1>6, <3>1 DEF Intent!GiveUp, Intent!Next
  <2> QED
    BY <1>4, <1>6, <2>1 DEF Fails
<1>7. CASE Completes /\ UNCHANGED <<requests, intent>>
  <2>1. CASE lock.awaitingReply
    <3>1. lock.pending /\ lock'.pending = FALSE /\ lock'.failed = FALSE
          /\ Cardinality(Runs)' = Cardinality(Runs)
      BY <1>5, <1>7, <2>1 DEF Completes
    <3>2. /\ lock.requestId = proto.pendingRequestId /\ lock.requestId \in Ids
          /\ requests[lock.requestId].intent = intent /\ intent > 0
      BY <1>1, <2>1, <3>1 DEF Turns, Invariant, Ledger, Attempts, CommandTypeOK
    <3>3. Done(requests, intent)
      BY <1>7, <3>2 DEF Completes, Done, Ids
    <3>4. Cardinality(Runs) = 1
      BY <3>3 DEF Counted
    <3> QED
      BY <1>7, <3>1, <3>4 DEF Intent!Succeed, Intent!Next
  <2> QED
    BY <1>4, <1>7, <2>1 DEF Completes
<1> QED
  BY <1>2, <1>3, <1>6, <1>7

\* The daemon executes request id, of the intent or not.
LEMMA IntentServed ==
    ASSUME Invariant, Invariant', Counted, Counted',
           NEW id \in UnderWay(toDaemon, orphans), NEW result \in Results,
           Serve(id, result), UNCHANGED <<lock, intent>>
    PROVE  [Intent!Next]_Intent!vars
<1>1. /\ requests \in Seq(Request) /\ Len(requests) \in Nat /\ intent \in Nat
      /\ id \in 1 .. Len(requests) /\ requests[id].executions = 0
      /\ Attempts(requests', UnderWay(toDaemon', orphans'), lock', proto'.queued, intent')
  <2>1. id \in 1 .. Len(requests) /\ Unserved(requests, id)
    BY ServeTruthful DEF Invariant, Ledger, Book
  <2> QED
    BY <2>1, StateTyped DEF Invariant, CommandTypeOK, Unserved, Ledger
<1>2. CASE requests' = requests
  BY <1>2, IntentStutters
<1>3. CASE Executed(requests', requests, id)
  <2>1. /\ Len(requests') = Len(requests) /\ requests'[id].executions = 1
        /\ \A i \in 1 .. Len(requests) :
              /\ requests'[i].intent = requests[i].intent
              /\ i # id => requests'[i].executions = requests[i].executions
    BY <1>1, <1>3 DEF Executed
  <2>2. CASE intent > 0 /\ requests[id].intent = intent
    <3>1. Done(requests', intent)
      BY <1>1, <2>1, <2>2 DEF Done
    <3>2. ~Done(requests, intent)
      <4> SUFFICES ASSUME NEW j \in 1 .. Len(requests), requests[j].intent = intent,
                          requests[j].executions > 0
                   PROVE  FALSE
        BY DEF Done
      <4>1. j # id /\ requests'[j].executions > 0
        BY <1>1, <2>1
      <4>2. requests'[j].intent = requests'[id].intent /\ requests'[j].intent # 0
        BY <1>1, <2>1, <2>2
      <4>3. ~(j < id)
        BY <1>1, <2>1, <4>1, <4>2 DEF Attempts, Settled, Unserved
      <4>4. ~(id < j)
        BY <1>1, <2>1, <4>1, <4>2 DEF Attempts, Settled, Unserved
      <4> QED
        BY <1>1, <4>1, <4>3, <4>4
    <3>3. Cardinality(Runs) = 0 /\ Cardinality(Runs)' = 1
      BY <3>1, <3>2 DEF Counted
    <3> QED
      BY <2>2, <3>3 DEF Intent!Execute, Intent!Next
  <2>3. CASE ~(intent > 0 /\ requests[id].intent = intent)
    <3>1. Done(requests', intent) <=> Done(requests, intent)
      BY <1>1, <2>1, <2>3 DEF Done
    <3> QED
      BY <3>1, IntentStutters
  <2> QED
    BY <2>2, <2>3
<1> QED
  BY <1>2, <1>3, ServeTruthful

LEMMA IntentAsked ==
    ASSUME Invariant, Counted, Counted', RequestLock
    PROVE  [Intent!Next]_Intent!vars
<1> DEFINE id == Len(requests) + 1
           l == NewIntent(id)
           known == Append(requests, NewRequest(intent + 1))
<1>1. /\ CommandTypeOK /\ lock \in Lock /\ requests \in Seq(Request) /\ intent \in Nat
      /\ Len(requests) \in Nat /\ id \in Nat /\ seenGeneration \in Nat
  BY StateTyped DEF Invariant, CommandTypeOK
<1>2. l \in Lock /\ l.pending /\ l.failed = FALSE /\ l.requestId = id
  <2> HIDE DEF id
  <2> QED
    BY <1>1, NewIntentFields
<1>3. Grown(known, requests, intent + 1)
  BY <1>1, AppendGrows
<1>4. known \in Seq(Request) /\ id \in 1 .. Len(known) /\ Len(known) = Len(requests) + 1
  BY <1>1, <1>3 DEF Grown
<1>5. /\ ~lock.pending /\ intent' = intent + 1
      /\ \/ Attempt(l, known)
         \/ lock' = l /\ requests' = known
  BY DEF RequestLock
<1> HIDE DEF l, known, id
<1>6. lock'.pending = TRUE /\ lock'.failed = FALSE /\ SameWork(requests', known)
  <2>1. CASE lock' = l /\ requests' = known
    BY <1>2, <2>1 DEF Lock, SameWork
  <2>2. CASE Attempt(l, known)
    <3>1. lock' = [l EXCEPT !.awaitingReply = TRUE] /\ Dispatch(id, known)
      BY <1>2, <2>2 DEF Attempt
    <3>2. SameWork(requests', known)
      BY <1>1, <1>4, <3>1, DispatchWorks
    <3> QED
      BY <1>2, <3>1, <3>2 DEF Lock
  <2> QED
    BY <1>5, <2>1, <2>2
<1>7. ~Done(requests', intent')
  <2>1. ~Done(requests, intent + 1)
    <3>1. \A i \in 1 .. Len(requests) : requests[i].intent <= intent
                                        /\ requests[i].intent \in Nat
      BY <1>1, RequestTyped DEF Invariant, Ledger, Attempts
    <3> QED
      BY <1>1, <3>1 DEF Done
  <2>2. ~Done(known, intent + 1)
    BY <1>1, <1>3, <2>1, WorkDone
  <2> QED
    BY <1>5, <1>6, <2>2, WorkDone
<1>8. Cardinality(Runs)' = 0
  BY <1>7 DEF Counted
<1>9. Intent!Request
  BY <1>5, <1>6, <1>8 DEF Intent!Request
<1> QED
  BY <1>9 DEF Intent!Next

LEMMA IntentCommanded ==
    ASSUME Invariant, Counted, Counted', SendCommand
    PROVE  [Intent!Next]_Intent!vars
<1> DEFINE id == Len(requests) + 1
           known == Append(requests, NewRequest(0))
<1>1. /\ lock \in Lock /\ requests \in Seq(Request) /\ intent \in Nat
      /\ Len(requests) \in Nat /\ seenGeneration \in Nat
  BY StateTyped DEF Invariant, CommandTypeOK
<1>2. Grown(known, requests, 0)
  BY <1>1, AppendGrows
<1>3. known \in Seq(Request) /\ id \in 1 .. Len(known)
  BY <1>1, <1>2 DEF Grown
<1>4. Dispatch(id, known) /\ lock' = [lock EXCEPT !.failed = FALSE] /\ UNCHANGED intent
  BY DEF SendCommand
<1> HIDE DEF id, known
<1>5. SameWork(requests', known)
  BY <1>1, <1>3, <1>4, DispatchWorks
<1>6. Done(requests', intent) <=> Done(requests, intent)
  BY <1>1, <1>2, <1>5, WorkDone
<1>7. lock'.pending = lock.pending /\ lock'.failed = FALSE
  BY <1>1, <1>4 DEF Lock
<1>8. Cardinality(Runs)' = Cardinality(Runs)
  BY <1>4, <1>6 DEF Counted
<1>9. Intent!Forget
  BY <1>4, <1>7, <1>8 DEF Intent!Forget
<1> QED
  BY <1>9 DEF Intent!Next

LEMMA IntentNext ==
    ASSUME Invariant, Invariant', Counted, Counted', [CommandNext]_commandVars
    PROVE  [Intent!Next]_Intent!vars
<1>1. /\ CommandTypeOK /\ lock \in Lock /\ requests \in Seq(Request) /\ seenGeneration \in Nat
      /\ proto \in Proto /\ Len(requests) \in Nat
  BY StateTyped DEF Invariant, CommandTypeOK
<1>2. CASE SendCommand
  BY <1>2, IntentCommanded
<1>3. CASE RequestLock
  BY <1>3, IntentAsked
<1>4. CASE RunAttempt
  <2>1. UNCHANGED intent
    BY <1>4 DEF RunAttempt
  <2>2. CASE UNCHANGED <<lock, requests>>
    BY <2>1, <2>2, IntentStutters
  <2>3. CASE Attempt(lock, requests)
    <3>1. /\ lock.pending /\ Dispatch(lock.requestId, requests)
          /\ lock' = [lock EXCEPT !.awaitingReply = TRUE]
      BY <2>3 DEF Attempt, MayAttempt
    <3>2. lock.requestId \in 1 .. Len(requests)
      BY <1>1, <3>1, StateTyped DEF Invariant, Turns, None
    <3>3. SameWork(requests', requests)
      BY <1>1, <3>1, <3>2, DispatchWorks
    <3>4. lock'.pending = lock.pending /\ lock'.failed = lock.failed
      BY <1>1, <3>1 DEF Lock
    <3> QED
      BY <2>1, <3>3, <3>4, WorkDone, IntentStutters
  <2> QED
    BY <1>4, <2>2, <2>3 DEF RunAttempt
<1>5. CASE ReadReply
  BY <1>5, ReadReplyKeeps, IntentEnds
<1>6. CASE ResponseTimesOut
  BY <1>6, ResponseTimesOutKeeps, IntentEnds DEF ResponseTimesOut
<1>7. CASE DeadlineExpires
  BY <1>7, DeadlineExpiresKeeps, IntentEnds DEF DeadlineExpires
<1>8. CASE SocketError
  BY <1>8, SocketErrorKeeps, IntentEnds DEF SocketError
<1>9. CASE ControlConnects
  <2>1. UNCHANGED <<lock, intent>>
    BY <1>9 DEF ControlConnects
  <2>2. SameWork(requests', requests)
    <3>1. CASE UNCHANGED requests
      BY <3>1 DEF SameWork
    <3>2. CASE proto.queued # None /\ Write(proto.queued, requests)
      <4>1. /\ proto.queued \in 1 .. Len(requests)
            /\ requests' = [requests EXCEPT ![proto.queued].written = @ + 1]
        BY <1>1, <3>2, StateTyped DEF CommandTypeOK, Ids, Write, None
      <4>2. Written(requests', requests, proto.queued)
        BY <1>1, <4>1, ExceptWrites
      <4> QED
        BY <4>2 DEF Written, SameWork
    <3> QED
      BY <1>9, <3>1, <3>2 DEF ControlConnects
  <2> QED
    BY <2>1, <2>2, WorkDone, IntentStutters
<1>10. CASE \E result \in Results : ServeRequest(result)
  <2>1. PICK result \in Results : ServeRequest(result)
    BY <1>10
  <2>2. /\ toDaemon \in Seq(Ids) /\ toDaemon # <<>> /\ Distinct(toDaemon, orphans)
        /\ Serve(Head(toDaemon), result) /\ UNCHANGED <<lock, intent>>
    BY <2>1 DEF ServeRequest, Invariant, CommandTypeOK, Ledger
  <2>3. Head(toDaemon) \in UnderWay(toDaemon, orphans)
    BY <2>2, TakeHead
  <2> QED
    BY <2>2, <2>3, IntentServed
<1>11. CASE \E id \in orphans : \E result \in Results : ServeOrphan(id, result)
  <2>1. PICK id \in orphans, result \in Results : ServeOrphan(id, result)
    BY <1>11
  <2>2. id \in UnderWay(toDaemon, orphans) /\ Serve(id, result) /\ UNCHANGED <<lock, intent>>
    BY <2>1 DEF ServeOrphan, UnderWay
  <2> QED
    BY <2>2, IntentServed
<1>12. CASE \/ SocketDisconnected \/ PeerCloses \/ DaemonPublishes
            \/ StreamAdvances \/ StreamReady \/ StreamLost
            \/ \E id \in orphans : LoseOrphan(id)
            \/ UNCHANGED commandVars
  <2>1. UNCHANGED <<lock, intent, requests>>
    BY <1>12 DEF SocketDisconnected, PeerCloses, DaemonPublishes, StreamAdvances,
       StreamReady, StreamLost, LoseOrphan, commandVars
  <2> QED
    BY <2>1, IntentStutters
<1> QED
  BY <1>2, <1>3, <1>4, <1>5, <1>6, <1>7, <1>8, <1>9, <1>10, <1>11, <1>12
  DEF CommandNext, CommandClient, CommandDaemon

\* The control plane keeps the promise made to whoever locks: one verdict, at most
\* one lock for an intent, and no success without one.
THEOREM LocksAsPromised == CommandSpec => ImplementsIntent
<1>1. Invariant => Counted
  BY CountRuns DEF Counted
<1>2. ASSUME CommandInit PROVE Intent!Init
  <2>1. Counted
    BY <1>1, <1>2, InvariantStarts
  <2>2. ~Done(requests, intent)
    BY <1>2 DEF CommandInit, Done
  <2> QED
    BY <1>2, <2>1, <2>2 DEF Counted, CommandInit, Intent!Init
<1>3. Invariant /\ Invariant' /\ Counted /\ Counted' /\ [CommandNext]_commandVars
         => [Intent!Next]_Intent!vars
  BY IntentNext
<1> QED
  BY <1>1, <1>2, <1>3, InvariantHolds, PTL DEF CommandSpec, ImplementsIntent, Intent!Spec

---------------------------------------------------------------------------
(* The feedback of an output                                               *)

LEMMA FeedbackCommands ==
    [FeedbackNext]_commandAndFeedbackVars => [CommandNext]_commandVars
BY DEF FeedbackNext, TrackedLock, TrackedCommand, TrackedRefusal, commandAndFeedbackVars,
   CommandNext, CommandClient

LEMMA FeedbackTurns == FeedbackSpec => CommandSpec
<1>1. FeedbackInit => CommandInit
  BY DEF FeedbackInit
<1> QED
  BY <1>1, FeedbackCommands, PTL DEF FeedbackSpec, CommandSpec

LEMMA TracksStart ==
    ASSUME FeedbackInit
    PROVE  Tracks
BY DEF FeedbackInit, Tracks, Actions, Statuses, NothingPendingForever

\* What the signal of this turn does to the mark of the tracked action
LEMMA ReactTracks ==
    ASSUME Invariant, Tracks, CommandNext, React
    PROVE  Tracks'
<1>1. /\ pendingActionId \in Actions \cup {""} /\ actionFeedback \in [Actions -> Statuses]
      /\ tracked \in [Actions -> Nat] /\ tracked' = tracked
  BY DEF Tracks, React
<1>2. CASE pendingActionId # "" /\ emitted' # <<>>
  <2> DEFINE verdict == IF Head(emitted') = "completed" THEN "succeeded" ELSE "rejected"
  <2>1. /\ pendingActionId' = "" /\ pendingActionId \in Actions
        /\ actionFeedback' = [actionFeedback EXCEPT ![pendingActionId] = verdict]
    BY <1>1, <1>2 DEF React
  <2>2. verdict \in Statuses /\ verdict # "pending"
    BY DEF Statuses
  <2> HIDE DEF verdict
  <2>3. actionFeedback' \in [Actions -> Statuses]
    BY <1>1, <2>1, <2>2
  <2>4. \A a \in Actions : actionFeedback'[a] # "pending"
    BY <1>1, <2>1, <2>2 DEF Tracks
  <2> QED
    BY <1>1, <2>1, <2>3, <2>4 DEF Tracks, NothingPendingForever
<1>3. CASE pendingActionId = "" \/ emitted' = <<>>
  <2>1. UNCHANGED <<actionFeedback, pendingActionId>>
    BY <1>3 DEF React
  <2>2. CASE pendingActionId = ""
    BY <1>1, <2>1, <2>2 DEF Tracks, NothingPendingForever
  <2>3. CASE emitted' = <<>> /\ pendingActionId # ""
    <3>1. Retries \/ Quietly
      BY <2>3, TurnVerdict, WaitVerdict, Signals DEF Fails, Completes
    <3>2. Busy \/ lock.pending
      BY <2>3 DEF Tracks, NothingPendingForever, ClientBusy
    <3>3. ClientBusy'
      BY <3>1, <3>2 DEF Retries, Quietly, ClientBusy, Busy
    <3>4. pendingActionId = "other" =>
             /\ Busy' /\ ~lock'.awaitingReply
             /\ proto'.pendingRequestId = tracked["other"]
      BY <3>1 DEF Tracks, Retries, Quietly, Busy
    <3> QED
      BY <1>1, <2>1, <3>3, <3>4 DEF Tracks, NothingPendingForever
  <2> QED
    BY <1>3, <2>2, <2>3
<1> QED
  BY <1>2, <1>3

LEMMA TrackTracks ==
    ASSUME Tracks, NEW action \in Actions, NEW ref \in Nat, Track(action, ref), ClientBusy',
           action = "other" => /\ Busy' /\ ~lock'.awaitingReply
                               /\ proto'.pendingRequestId = ref
    PROVE  Tracks'
<1>1. /\ pendingActionId = "" /\ pendingActionId' = action /\ action # ""
      /\ actionFeedback' = [actionFeedback EXCEPT ![action] = "pending"]
      /\ tracked' = [tracked EXCEPT ![action] = ref]
      /\ actionFeedback \in [Actions -> Statuses] /\ tracked \in [Actions -> Nat]
  BY DEF Track, Tracks, NothingPendingForever, Actions
<1>2. \A a \in Actions : actionFeedback[a] # "pending"
  BY <1>1 DEF Tracks, Actions
<1>3. actionFeedback' \in [Actions -> Statuses] /\ tracked' \in [Actions -> Nat]
  BY <1>1 DEF Statuses
<1>4. \A a \in Actions : actionFeedback'[a] = "pending" => a = action
  BY <1>1, <1>2
<1>5. tracked'[action] = ref
  BY <1>1
<1> QED
  BY <1>1, <1>3, <1>4, <1>5 DEF Tracks, NothingPendingForever

LEMMA TracksKept ==
    ASSUME Invariant, Tracks, [FeedbackNext]_commandAndFeedbackVars
    PROVE  Tracks'
<1>1. CASE CommandNext /\ React
  BY <1>1, ReactTracks
<1>2. CASE TrackedLock
  <2>1. /\ RequestLock /\ Track("session:lock", intent') /\ intent' \in Nat
    BY <1>2 DEF TrackedLock, RequestLock, Invariant, CommandTypeOK
  <2>2. lock'.pending
    <3> DEFINE id == Len(requests) + 1
               l == NewIntent(id)
    <3>1. lock \in Lock /\ id \in Nat
      BY StateTyped DEF Invariant, CommandTypeOK
    <3>2. l \in Lock /\ l.pending
      <4> HIDE DEF id
      <4> QED
        BY <3>1, NewIntentFields
    <3>3. lock' = l \/ lock' = [l EXCEPT !.awaitingReply = TRUE]
      BY <2>1 DEF RequestLock, Attempt
    <3> HIDE DEF l
    <3> QED
      BY <3>2, <3>3 DEF Lock
  <2> QED
    BY <2>1, <2>2, TrackTracks DEF ClientBusy, Actions
<1>3. CASE TrackedCommand
  <2> DEFINE id == Len(requests) + 1
             known == Append(requests, NewRequest(0))
  <2>1. /\ SendRequest(id) /\ Dispatch(id, known) /\ ~ClientBusy
        /\ lock' = [lock EXCEPT !.failed = FALSE] /\ Track("other", Len(requests'))
    BY <1>3 DEF TrackedCommand, SendCommand, Track
  <2>2. /\ lock \in Lock /\ requests \in Seq(Request) /\ Len(requests) \in Nat
        /\ seenGeneration \in Nat /\ Turns /\ id # None
    BY StateTyped DEF Invariant, CommandTypeOK, None
  <2>3. Grown(known, requests, 0)
    BY <2>2, AppendGrows
  <2>4. known \in Seq(Request) /\ id \in 1 .. Len(known) /\ Len(known) = id /\ id \in Nat
    BY <2>2, <2>3 DEF Grown
  <2>5. ~lock'.awaitingReply
    BY <2>1, <2>2 DEF Lock, Turns, ClientBusy
  <2>6. proto'.pendingRequestId = id
    BY <2>1 DEF SendRequest, Flushed
  <2> HIDE DEF id, known
  <2>7. Len(requests') = id
    BY <2>1, <2>2, <2>4, DispatchWorks DEF SameWork
  <2> QED
    BY <2>1, <2>2, <2>4, <2>5, <2>6, <2>7, TrackTracks DEF ClientBusy, Busy, Actions
<1>4. CASE TrackedRefusal
  <2>1. /\ actionFeedback' = [actionFeedback EXCEPT !["other"] = "rejected"]
        /\ UNCHANGED <<commandVars, pendingActionId, tracked>>
    BY <1>4 DEF TrackedRefusal
  <2>2. /\ actionFeedback' \in [Actions -> Statuses]
        /\ \A a \in Actions : actionFeedback'[a] = "pending" => actionFeedback[a] = "pending"
    BY <2>1 DEF Tracks, Actions, Statuses
  <2> QED
    BY <2>1, <2>2 DEF Tracks, NothingPendingForever, ClientBusy, Busy, commandVars
<1>5. CASE UNCHANGED commandAndFeedbackVars
  BY <1>5 DEF commandAndFeedbackVars, feedbackVars, commandVars, Tracks,
     NothingPendingForever, ClientBusy, Busy
<1> QED
  BY <1>1, <1>2, <1>3, <1>4, <1>5 DEF FeedbackNext

LEMMA TracksHold == FeedbackSpec => [](Invariant /\ Tracks)
<1>1. FeedbackInit => Invariant /\ Tracks
  BY TracksStart, InvariantStarts DEF FeedbackInit
<1>2. Invariant /\ Tracks /\ [FeedbackNext]_commandAndFeedbackVars => (Invariant /\ Tracks)'
  BY TracksKept, FeedbackCommands, InvariantKept
<1> QED
  BY <1>1, <1>2, PTL DEF FeedbackSpec

\* A panel shows an action as pending only while the control plane works on
\* something (CoreOutputState).
THEOREM PendingMarksGoAway == FeedbackSpec => []NothingPendingForever
<1>1. Tracks => NothingPendingForever
  BY DEF Tracks
<1> QED
  BY <1>1, TracksHold, PTL

\* What a panel reports as succeeded was executed.
LEMMA FeedbackIsHonest ==
    Invariant /\ Tracks /\ [FeedbackNext]_commandAndFeedbackVars =>
    [actionFeedback["other"] = "pending" /\ actionFeedback'["other"] = "succeeded" =>
         requests[tracked["other"]].executions > 0]_commandAndFeedbackVars
<1> SUFFICES ASSUME Invariant, Tracks, FeedbackNext,
                    actionFeedback["other"] = "pending",
                    actionFeedback'["other"] = "succeeded"
             PROVE  requests[tracked["other"]].executions > 0
  OBVIOUS
<1>1. /\ pendingActionId = "other" /\ actionFeedback \in [Actions -> Statuses]
      /\ proto.pendingRequestId = tracked["other"] /\ ClientBusy /\ "other" \in Actions
  BY DEF Tracks, Actions, NothingPendingForever
<1>2. CommandNext /\ React
  BY <1>1 DEF FeedbackNext, TrackedLock, TrackedCommand, TrackedRefusal, Track
<1>3. emitted' # <<>> /\ Head(emitted') = "completed"
  BY <1>1, <1>2 DEF React
<1>4. Completes
  BY <1>2, <1>3, TurnVerdict, WaitVerdict, Signals DEF Fails, Retries, Quietly
<1> QED
  BY <1>1, <1>4 DEF Completes

\* What the user is told is true, in every turn: a success was executed, a command
\* and an intent have one verdict, and a panel's mark is that of its own command.
THEOREM FeedbackTellsTheTruth == FeedbackSpec => StepsAreHonest
<1>1. CommandSpec => HonestSuccess
  BY HonestTurns, InvariantHolds, PTL DEF CommandSpec, HonestSuccess
<1>2. CommandSpec => OneVerdict
  BY TurnsWithOneVerdict, InvariantHolds, PTL DEF CommandSpec, OneVerdict
<1>3. FeedbackSpec => CommandFeedbackHonest
  BY FeedbackIsHonest, TracksHold, PTL DEF FeedbackSpec, CommandFeedbackHonest
<1> QED
  BY <1>1, <1>2, <1>3, FeedbackTurns, PTL DEF StepsAreHonest
=============================================================================
