------------------------------ MODULE ArtRequests ------------------------------
(***************************************************************************)
(* The requests of the Art transport (frame_art.py): the operation lock,   *)
(* the waiters the receiver answers, uploads and thumbnails, and the close *)
(* that cancels and fails what is left of them.                            *)
(*                                                                         *)
(* An action is one stretch of a task between two awaits.  A request is    *)
(* named by the number of its correlation id.  The television may answer   *)
(* whatever it was asked over the present connection, at any time, more    *)
(* than once, with or without the id.  Deadlines may expire at any moment  *)
(* they are pending.                                                       *)
(*                                                                         *)
(* Left out: handshakes and what decides on them (ArtSession), the stop,   *)
(* what is asked and answered, and frames that only reach the callback.    *)
(***************************************************************************)
EXTENDS Integers, Sequences, SequencesExt

CONSTANTS
  Ops,            \* operations that may be under way at the same time
  Session,        \* the session's close task
  None,           \* no operation
  MaxRequests,    \* bound: requests asked
  MaxGeneration   \* bound: connections opened

ASSUME NamesAssumption == Session \notin Ops /\ None \notin Ops
ASSUME RequestAssumption == MaxRequests \in Nat
ASSUME GenerationAssumption == MaxGeneration \in Nat

VARIABLES
  connection,  \* FrameArt.connection: the generation that is open, or 0
  generation,  \* number of connections opened
  receiver,    \* the receiver: none, opening (a handshake), running, ending
  queue,       \* _operation_lock, the holder first
  op,          \* each operation
  future,      \* what each operation awaits
  pending,     \* _pending: the id an operation is registered under, or 0
  uuidless,    \* _uuidless_pending
  requests,    \* number of ids given out
  asked,       \* requests the television has over the present connection
  lock,        \* _lifecycle_lock, as closes queue for it
  closing      \* what the holder of that lock is at; "none" is not _closing

channel == <<connection, generation, receiver>>
waiters == <<op, future, pending, uuidless>>
vars == <<channel, waiters, queue, requests, asked, lock, closing>>

Kinds == {"plain", "probe", "event", "upload", "thumbnail"}
Transfers == {"upload", "thumbnail"}
NoOp == [pc |-> "idle", kind |-> "plain", id |-> 0, began |-> 0,
         cancelled |-> FALSE, again |-> FALSE]
\* "began" is the connection an operation asked over first, a history.
\* "of" is the id that came with the answer, 0 if there was none.
NoFuture == [state |-> "none", of |-> 0, error |-> FALSE]
Awaited == [NoFuture EXCEPT !.state = "open"]

\* The operation awaits an answer.
Waits(o) == op[o].pc \in {"version", "asking", "adding"}
Live(o) == op[o].pc # "idle" /\ op[o].kind \in Transfers
Alive == connection # 0 /\ receiver = "running"
Holds(o) == queue # <<>> /\ Head(queue) = o
Removed(t, s, a) == \E i \in DOMAIN s : s[i] = a /\ t = RemoveAt(s, i)

Init ==
  /\ connection = 0 /\ generation = 0 /\ receiver = "none"
  /\ queue = <<>> /\ op = [o \in Ops |-> NoOp]
  /\ future = [o \in Ops |-> NoFuture]
  /\ pending = [o \in Ops |-> 0] /\ uuidless = None
  /\ requests = 0 /\ asked = {}
  /\ lock = <<>> /\ closing = "none"

-------------------------------------------------------------------------------
(* The pieces of an operation *)

\* Mutant: the slot for answers without an id is not cleared.
Forgets_SlotStays(o) ==
  /\ future' = [future EXCEPT ![o] = NoFuture]
  /\ pending' = [pending EXCEPT ![o] = 0]
  /\ UNCHANGED uuidless

\* The finally of a request: its waiter is unregistered.
Forgets(o) ==
  /\ future' = [future EXCEPT ![o] = NoFuture]
  /\ pending' = [pending EXCEPT ![o] = 0]
  /\ uuidless' = IF uuidless = o THEN None ELSE uuidless

Unlocks(o) ==
  IF Contains(queue, o) THEN Removed(queue', queue, o) ELSE UNCHANGED queue

Ends(o) ==
  /\ op' = [op EXCEPT ![o] = NoOp]
  /\ Forgets(o) /\ Unlocks(o)

\* A waiter is registered under an id, and in the slot for answers without one.
Registers(o, pc, id, slot) ==
  /\ op' = [op EXCEPT ![o].pc = pc, ![o].id = id, ![o].began =
                        IF op[o].began = 0 THEN connection ELSE op[o].began]
  /\ future' = [future EXCEPT ![o] = Awaited]
  /\ pending' = [pending EXCEPT ![o] = id]
  /\ uuidless' = IF slot THEN o ELSE IF uuidless = o THEN None ELSE uuidless
  /\ UNCHANGED queue

\* _fail_pending
Failed ==
  [o \in Ops |-> IF pending[o] # 0 /\ future[o].state = "open"
                 THEN [future[o] EXCEPT !.state = "failed"] ELSE future[o]]
Cleared == pending' = [o \in Ops |-> 0] /\ uuidless' = None
FailPending == future' = Failed /\ Cleared

-------------------------------------------------------------------------------
(* An operation: request, upload and get_thumbnail *)

\* Mutant: the announcement of an upload goes out under an id not its own.
Begin_OneId(o, kind) ==
  /\ op[o].pc = "idle" /\ requests < MaxRequests
  /\ kind \in Transfers => closing = "none"
  /\ op' = [op EXCEPT ![o] = [NoOp EXCEPT !.pc = "queued", !.kind = kind,
                                !.id = requests + 1]]
  /\ queue' = Append(queue, o) /\ requests' = requests + 1
  /\ UNCHANGED <<channel, future, pending, uuidless, asked, lock, closing>>

\* A transfer is tracked before its first await.  An upload asks twice.
Begin(o, kind) ==
  LET ids == IF kind = "upload" THEN 2 ELSE 1
  IN
  /\ op[o].pc = "idle" /\ requests + ids <= MaxRequests
  /\ kind \in Transfers => closing = "none"
  /\ op' = [op EXCEPT ![o] = [NoOp EXCEPT !.pc = "queued", !.kind = kind,
                                !.id = requests + 1]]
  /\ queue' = Append(queue, o) /\ requests' = requests + ids
  /\ UNCHANGED <<channel, future, pending, uuidless, asked, lock, closing>>

Take(o) ==
  /\ op[o].pc = "queued" /\ ~op[o].cancelled /\ Holds(o)
  /\ \/ ~Alive /\ Ends(o) /\ UNCHANGED asked
     \/ /\ Alive
        /\ Registers(o, IF op[o].kind = "upload" THEN "version" ELSE "asking",
                     op[o].id, op[o].kind = "event")
        /\ asked' = asked \cup {op[o].id}
  /\ UNCHANGED <<channel, requests, lock, closing>>

Answered(o) == Waits(o) /\ ~op[o].cancelled /\ future[o].state = "answered"

\* api_version was answered, if with an error: the image is announced over the
\* websocket or, on an old television, sent over it.
SendsImage(o) ==
  /\ Answered(o) /\ op[o].pc = "version"
  /\ \/ connection = 0 /\ Ends(o) /\ UNCHANGED asked
     \/ /\ connection # 0
        /\ \/ Registers(o, "asking", op[o].id + 1, TRUE)
           \/ ~future[o].error /\ Registers(o, "adding", op[o].id + 1, FALSE)
        /\ asked' = asked \cup {op[o].id + 1}
  /\ UNCHANGED <<channel, requests, lock, closing>>

\* The television is ready: the image goes over a stream of its own, and its
\* arrival is awaited under the id of the announcement.
StreamsImage(o) ==
  /\ Answered(o) /\ op[o].pc = "asking" /\ op[o].kind = "upload"
  /\ ~future[o].error
  /\ Registers(o, "adding", op[o].id, TRUE)
  /\ UNCHANGED <<channel, requests, asked, lock, closing>>

\* A thumbnail comes over a stream too, without the operation lock.
Downloads(o) ==
  /\ Answered(o) /\ op[o].kind = "thumbnail" /\ ~future[o].error
  /\ op' = [op EXCEPT ![o].pc = "download"]
  /\ Forgets(o) /\ Unlocks(o)
  /\ UNCHANGED <<channel, requests, asked, lock, closing>>

\* The answer is the end of it, or an error, or the waiter was failed.
Concludes(o) ==
  /\ Waits(o) /\ ~op[o].cancelled
  /\ \/ future[o].state = "failed"
     \/ /\ future[o].state = "answered"
        /\ op[o].kind = "upload" =>
             op[o].pc = "adding" \/ (op[o].pc = "asking" /\ future[o].error)
        /\ op[o].kind = "thumbnail" => future[o].error
  /\ Ends(o)
  /\ UNCHANGED <<channel, requests, asked, lock, closing>>

\* The websocket refuses the request, or the stream fails.
SendFails(o) ==
  /\ Waits(o) /\ ~op[o].cancelled /\ Ends(o)
  /\ UNCHANGED <<channel, requests, asked, lock, closing>>

\* Mutant: the arrival of an image is awaited for ever.
TimesOut_ButUploads(o) ==
  /\ Waits(o) /\ ~op[o].cancelled /\ op[o].pc # "adding"
  /\ \/ op[o].kind = "probe" /\ Ends(o) /\ UNCHANGED lock
     \/ /\ op[o].kind # "probe"
        /\ op' = [op EXCEPT ![o].pc = "closing",
                            ![o].again = op[o].kind = "upload"]
        /\ future' = [future EXCEPT ![o].state = "failed"]
        /\ lock' = Append(lock, o)
        /\ UNCHANGED <<pending, uuidless, queue>>
  /\ UNCHANGED <<channel, requests, asked, closing>>

\* A probe just ends.  Any other request closes the connection with its waiter
\* still registered, and an upload closes it once more; one that waits for its
\* image has unregistered its waiter before.
TimesOut(o) ==
  /\ Waits(o) /\ ~op[o].cancelled
  /\ \/ op[o].kind = "probe" /\ Ends(o) /\ UNCHANGED lock
     \/ /\ op[o].kind # "probe" /\ op[o].pc # "adding"
        /\ op' = [op EXCEPT ![o].pc = "closing",
                            ![o].again = op[o].kind = "upload"]
        /\ future' = [future EXCEPT ![o].state = "failed"]
        /\ lock' = Append(lock, o)
        /\ UNCHANGED <<pending, uuidless, queue>>
     \/ /\ op[o].pc = "adding"
        /\ op' = [op EXCEPT ![o].pc = "closing"]
        /\ Forgets(o)
        /\ lock' = Append(lock, o) /\ UNCHANGED queue
  /\ UNCHANGED <<channel, requests, asked, closing>>

StreamEnds(o) ==
  /\ \/ op[o].pc = "download" /\ ~op[o].cancelled
     \/ op[o].pc = "cleanup"
  /\ Ends(o)
  /\ UNCHANGED <<channel, requests, asked, lock, closing>>

\* By its caller.
Cancel(o) ==
  /\ op[o].pc # "idle"
  /\ op' = [op EXCEPT ![o].cancelled = TRUE]
  /\ UNCHANGED <<channel, future, pending, uuidless, queue, requests, asked>>
  /\ UNCHANGED <<lock, closing>>

\* A stream is closed within a deadline of its own first; a close that has
\* begun is finished first.
EndsCancelled(o) ==
  /\ op[o].cancelled
  /\ \/ /\ op[o].pc \in {"queued", "version", "asking", "adding"}
        /\ Ends(o) /\ UNCHANGED lock
     \/ /\ op[o].pc \in {"adding", "download"}
        /\ op' = [op EXCEPT ![o].pc = "cleanup"]
        /\ future' = [future EXCEPT ![o] = NoFuture]
        /\ UNCHANGED <<pending, uuidless, queue, lock>>
     \/ /\ op[o].pc = "closing" /\ ~(closing # "none" /\ Head(lock) = o)
        /\ Ends(o) /\ Removed(lock', lock, o)
  /\ UNCHANGED <<channel, requests, asked, closing>>

-------------------------------------------------------------------------------
(* The receiver *)

\* Mutant: an answer of another request fills the slot as well.
Answer_AnyId ==
  /\ receiver = "running"
  /\ \E o \in Ops, of \in asked \cup {0}, error \in BOOLEAN :
       /\ future[o].state = "open"
       /\ (of # 0 /\ pending[o] = of) \/ uuidless = o
       /\ future' = [future EXCEPT ![o] = [state |-> "answered", of |-> of,
                                           error |-> error]]
  /\ UNCHANGED <<channel, op, pending, uuidless, queue, requests, asked, lock,
                 closing>>

\* _dispatch_frame, for a frame that some operation waits for: an answer by its
\* id, an answer without one by what is expected.
Answer ==
  /\ receiver = "running"
  /\ \E o \in Ops, of \in asked \cup {0}, error \in BOOLEAN :
       /\ future[o].state = "open"
       /\ \/ of # 0 /\ pending[o] = of
          \/ of = 0 /\ uuidless = o
       /\ future' = [future EXCEPT ![o] = [state |-> "answered", of |-> of,
                                           error |-> error]]
  /\ UNCHANGED <<channel, op, pending, uuidless, queue, requests, asked, lock,
                 closing>>

\* Mutant: the waiters are failed before the websocket is closed.
ReceiverLoses_FailsFirst ==
  /\ receiver = "running"
  /\ receiver' = "none" /\ connection' = 0 /\ asked' = {}
  /\ FailPending
  /\ UNCHANGED <<generation, op, queue, requests, lock, closing>>

ReceiverLoses ==
  /\ receiver = "running"
  /\ receiver' = "ending" /\ connection' = 0 /\ asked' = {}
  /\ UNCHANGED <<generation, waiters, queue, requests, lock, closing>>

\* The waiters are failed after the websocket was closed, which takes several
\* turns of the loop: whoever had its answer has resumed by then.
ReceiverEnds ==
  /\ receiver = "ending" /\ receiver' = "none"
  /\ \A o \in Ops : ~Answered(o)
  /\ FailPending
  /\ UNCHANGED <<connection, generation, op, queue, requests, asked>>
  /\ UNCHANGED <<lock, closing>>

\* Mutant: transfers that have not ended do not keep a handshake from starting.
Open_AnyTransfer ==
  /\ lock = <<>> /\ connection = 0 /\ generation < MaxGeneration
  /\ receiver = "none" /\ receiver' = "opening"
  /\ UNCHANGED <<connection, generation, waiters, queue, requests, asked, lock,
                 closing>>

\* A handshake starts when nothing is left of the last connection.  It keeps the
\* lifecycle lock from closes until it ends.
Open ==
  /\ lock = <<>> /\ connection = 0 /\ generation < MaxGeneration
  /\ receiver = "none" /\ \A o \in Ops : ~Live(o)
  /\ receiver' = "opening"
  /\ UNCHANGED <<connection, generation, waiters, queue, requests, asked, lock,
                 closing>>

\* It succeeds, or fails, or runs out of time.
HandshakeEnds ==
  /\ receiver = "opening"
  /\ \/ /\ connection' = generation + 1 /\ generation' = generation + 1
        /\ receiver' = "running"
     \/ receiver' = "none" /\ UNCHANGED <<connection, generation>>
  /\ UNCHANGED <<waiters, queue, requests, asked, lock, closing>>

-------------------------------------------------------------------------------
(* close, by the session or by an operation that timed out *)

SessionCloses ==
  /\ ~Contains(lock, Session) /\ lock' = Append(lock, Session)
  /\ UNCHANGED <<channel, waiters, queue, requests, asked, closing>>

\* The session's deadline, in the queue.
SessionGivesUp ==
  /\ closing # "none" => Head(lock) # Session
  /\ Removed(lock', lock, Session)
  /\ UNCHANGED <<channel, waiters, queue, requests, asked, closing>>

Closer == Head(lock)
Others == {o \in Ops : Live(o) /\ Closer # o}

CloseBegins ==
  /\ lock # <<>> /\ receiver # "opening"
  /\ closing = "none" /\ closing' = "transfers"
  /\ Closer \in Ops => ~op[Closer].cancelled
  /\ op' = [o \in Ops |-> IF o \in Others
                          THEN [op[o] EXCEPT !.cancelled = TRUE] ELSE op[o]]
  /\ UNCHANGED <<channel, future, pending, uuidless, queue, requests, asked>>
  /\ UNCHANGED lock

\* Transfers have ended, or are closing their streams when the deadline expires.
CloseDrains ==
  /\ closing = "transfers" /\ closing' = "receiver"
  /\ \A o \in Others : op[o].pc = "cleanup"
  /\ receiver' = IF receiver = "running" THEN "ending" ELSE receiver
  /\ connection' = 0 /\ asked' = {}
  /\ UNCHANGED <<generation, waiters, queue, requests, lock>>

\* The receiver has ended, or the deadline expires.  An upload whose request
\* ran out of time closes again, unless this close failed.
CloseEnds ==
  LET again == op[Closer].again /\ ~op[Closer].cancelled
                 /\ Others = {} /\ receiver = "none"
  IN
  /\ closing = "receiver" /\ closing' = "none"
  /\ Cleared
  /\ \/ /\ Closer = Session
        /\ future' = Failed /\ lock' = Tail(lock) /\ UNCHANGED <<op, queue>>
     \/ /\ Closer \in Ops /\ again
        /\ op' = [op EXCEPT ![Closer].again = FALSE]
        /\ future' = Failed /\ lock' = Append(Tail(lock), Closer)
        /\ UNCHANGED queue
     \/ /\ Closer \in Ops /\ ~again
        /\ op' = [op EXCEPT ![Closer] = NoOp]
        /\ future' = [Failed EXCEPT ![Closer] = NoFuture]
        /\ lock' = Tail(lock) /\ Unlocks(Closer)
  /\ UNCHANGED <<channel, requests, asked>>

-------------------------------------------------------------------------------
OpStep(o) ==
  \/ Take(o) \/ SendsImage(o) \/ StreamsImage(o) \/ Downloads(o)
  \/ Concludes(o) \/ TimesOut(o) \/ StreamEnds(o) \/ EndsCancelled(o)

CloseStep == CloseBegins \/ CloseDrains \/ CloseEnds

Next ==
  \/ \E o \in Ops :
       \/ \E kind \in Kinds : Begin(o, kind)
       \/ OpStep(o) \/ SendFails(o) \/ Cancel(o)
  \/ Answer \/ ReceiverLoses \/ ReceiverEnds \/ Open \/ HandshakeEnds
  \/ SessionCloses \/ SessionGivesUp \/ CloseStep

Spec == Init /\ [][Next]_vars

\* The event loop is fair to every task, and every deadline expires.  Nothing
\* is said of the television.
Fairness ==
  /\ \A o \in Ops : WF_vars(OpStep(o))
  /\ WF_vars(CloseStep) /\ WF_vars(ReceiverEnds) /\ WF_vars(HandshakeEnds)

FairSpec == Spec /\ Fairness

-------------------------------------------------------------------------------
TypeOK ==
  /\ connection \in Nat /\ generation \in Nat
  /\ receiver \in {"none", "opening", "running", "ending"}
  /\ queue \in Seq(Ops)
  /\ op \in [Ops -> [pc : {"idle", "queued", "version", "asking", "adding",
                           "download", "cleanup", "closing"},
                     kind : Kinds, id : Nat, began : Nat,
                     cancelled : BOOLEAN, again : BOOLEAN]]
  /\ future \in [Ops -> [state : {"none", "open", "answered", "failed"},
                         of : Nat, error : BOOLEAN]]
  /\ pending \in [Ops -> Nat] /\ uuidless \in Ops \cup {None}
  /\ requests \in 0..MaxRequests /\ asked \subseteq 1..requests
  /\ lock \in Seq(Ops \cup {Session})
  /\ closing \in {"none", "transfers", "receiver"}

\* "Await its correlated response": an answer that names its request is given
\* to no other, though requests are abandoned and answered late.
AnswersOwn ==
  \A o \in Ops : future[o].state = "answered" => future[o].of \in {0, op[o].id}

\* What is registered belongs to the operation that holds the operation lock,
\* under the id it asks with, and an answer without an id finds nobody else.
RegisteredIsCurrent ==
  /\ \A o \in Ops : pending[o] # 0 => Holds(o) /\ pending[o] = op[o].id
  /\ uuidless # None => pending[uuidless] # 0

\* "Fail and clear every response waiter": once the receiver is gone nobody
\* waits for an answer, not even an upload that registered for its next answer
\* while the receiver was winding up.
NobodyWaitsInVain ==
  receiver \in {"none", "opening"} =>
    \A o \in Ops : Waits(o) => future[o].state # "open"

\* A transfer lives within one connection: when the next is opened, none is left
\* that asked over the last.
TransfersOfOneConnection ==
  \A o \in Ops : Live(o) /\ op[o].began # 0 => connection \in {0, op[o].began}

\* Every operation ends, whether the television answers or not and whoever
\* closes the connection meanwhile.
RequestsEnd == \A o \in Ops : op[o].pc # "idle" ~> op[o].pc = "idle"
===============================================================================
