------------------------------ MODULE ArtSession ------------------------------
(***************************************************************************)
(* The supervisor of the Art websocket (art_session.py), the part of the   *)
(* transport it drives (FrameArt.open, close and the receiver's end,       *)
(* frame_art.py) and the device operations that use the transport and      *)
(* report its failures (device._async_art_read, _async_art_mutation).      *)
(*                                                                         *)
(* An action is one stretch of a task between two awaits.  The tasks are   *)
(* the heartbeat (one synchronous call), the connect task, the close task, *)
(* the stop task and the operations Ops.  Everything that must not overlap *)
(* is serialised by FrameArt._lifecycle_lock, an asyncio.Lock: `lock` is   *)
(* its FIFO queue and the head is the holder.                              *)
(*                                                                         *)
(* Deadlines.  _next_retry_at is kept as the time left, retry.wait, which  *)
(* Tick counts down; the few-second bounds on a handshake, a close or a    *)
(* drain are not measured: any of them may expire at any moment it is      *)
(* pending, and the task may also end before it does.                      *)
(*                                                                         *)
(* A socket is named by the generation it was opened for.  Messages are    *)
(* not modelled, only whether an operation ends well, times out or fails.  *)
(***************************************************************************)
EXTENDS Integers, Sequences, SequencesExt

CONSTANTS
  Ops,               \* device operations that may run at the same time
  RetryDelays,       \* ART_RETRY_DELAYS
  HostRetryDelays,   \* ART_HOST_RETRY_DELAYS
  DormantDelay,      \* ART_DORMANT_SECONDS
  CleanupRecheck,    \* ART_CLEANUP_RECHECK
  HostFaultAnswers,  \* ART_HOST_FAULT_ANSWERS
  MaxGeneration      \* bound: from this generation on the transport does not
                     \* fail and no operation starts

Positive == Nat \ {0}

ASSUME OpsAssumption == "connect" \notin Ops /\ "close" \notin Ops
ASSUME DelayAssumption ==
  /\ RetryDelays \in Seq(Positive) /\ Len(RetryDelays) > 0
  /\ HostRetryDelays \in Seq(Positive) /\ Len(HostRetryDelays) > 0
  /\ DormantDelay \in Positive
  /\ CleanupRecheck \in Positive
ASSUME BoundAssumption == HostFaultAnswers \in Positive /\ MaxGeneration \in Nat

VARIABLES
  state,       \* ArtSession._state
  started,     \* ArtSession._started
  terminal,    \* ArtSession._terminal, and FrameArt._stopped set with it
  retry,       \* the failure counters and the time left to the next attempt
  generation,  \* ArtSession._generation
  connect,     \* the connect task
  closeTask,   \* the close task: none, queued, draining or done
  stopTask,    \* the stop task: none, cancelling, closing, closed or done
  socket,      \* FrameArt.connection: the generation it was opened for, or 0
  receiver,    \* FrameArt._recv_loop: the socket it reads until it is done
  lock,        \* FrameArt._lifecycle_lock, the holder first
  op,          \* where each operation is
  reachable,   \* the last poll's answer (coordinator._was_reachable)
  tv,          \* the television: off, without an Art host, or on
  age,         \* history: ticks since the last reachable edge
  probes       \* history: background probes since the last tick or edge

policy    == <<state, started, terminal, retry, generation>>
transport == <<socket, receiver>>
world     == <<reachable, tv, age, probes>>
vars == <<policy, connect, closeTask, stopTask, transport, lock, op, world>>

States == {"stopped", "connecting", "ready", "backoff", "dormant"}
Actors == Ops \cup {"connect", "close"}
Retries == [failures : Nat, hostFailures : Nat, unavailable : BOOLEAN,
            answers : Nat, wait : Nat]
NoConnect == [pc |-> "idle", evidence |-> FALSE, cancelled |-> FALSE]

Alive == socket # 0 /\ receiver = socket
Ready == state = "ready" /\ Alive
Holds(a) == lock # <<>> /\ Head(lock) = a
Smaller(a, b) == IF a < b THEN a ELSE b

-------------------------------------------------------------------------------
(* The retry policy, on values of `retry` *)

\* A failed attempt waits its delay give or take a fifth (_default_jitter).
Jittered(d) == {x \in 1..2*d : 4*d =< 5*x /\ 5*x =< 6*d}

Reset(r) == [r EXCEPT !.failures = 0, !.hostFailures = 0]
EdgeReset(r) == [Reset(r) EXCEPT !.answers = 0, !.wait = 0]
NoteConnected(r) ==
  [Reset(r) EXCEPT !.unavailable = FALSE, !.answers = 0, !.wait = 0]
\* The code counts these without a bound, but reads them only through min() and
\* a threshold: the model stops counting where nothing reads on.
CountAnswer(r) ==
  [r EXCEPT !.answers = Smaller(r.answers + 1, HostFaultAnswers)]

\* What _record_failure leaves.
GenericFailure(r) ==
  LET n == Smaller(r.failures + 1, Len(RetryDelays))
  IN {[r EXCEPT !.failures = n, !.hostFailures = 0, !.wait = x] :
        x \in Jittered(RetryDelays[n])}

HostlessFailure(r) ==
  LET n == Smaller(r.failures + 1, Len(RetryDelays))
      h == Smaller(r.hostFailures + 1, HostFaultAnswers)
      delays == IF h = HostFaultAnswers THEN {DormantDelay}
                ELSE Jittered(HostRetryDelays[Smaller(h, Len(HostRetryDelays))])
  IN {[r EXCEPT !.failures = n, !.hostFailures = h, !.unavailable = TRUE,
                !.wait = x] : x \in delays}

RecordGeneric(r) == retry' \in GenericFailure(r) /\ state' = "backoff"
RecordHostless(r) ==
  /\ retry' \in HostlessFailure(r)
  /\ state' = IF retry'.hostFailures = HostFaultAnswers
              THEN "dormant" ELSE "backoff"

HostFault == retry.answers >= HostFaultAnswers

-------------------------------------------------------------------------------
(* Scheduling the connect and the close task *)

CloseFinished == closeTask \in {"none", "done"}
\* Mutant: the handle of a finished close task is taken for a close under way.
MayConnect_HandleOnly == connect.pc = "idle" /\ closeTask = "none"
MayConnect == connect.pc = "idle" /\ CloseFinished

\* _schedule_connect with the task's first stretch: up to the lifecycle lock.
ScheduleConnect(evidence) ==
  /\ connect' = [pc |-> "opening", evidence |-> evidence, cancelled |-> FALSE]
  /\ closeTask' = "none"
  /\ lock' = Append(lock, "connect")
  /\ state' = "connecting"

\* _schedule_close: a finished close task is joined too, unless forced.
ScheduleClose(queue, force) ==
  IF closeTask = "none" \/ (closeTask = "done" /\ force)
  THEN closeTask' = "queued" /\ lock' = Append(queue, "close")
  ELSE closeTask' = closeTask /\ lock' = queue

\* Whoever joined a task resumes when it is done.
Joined(from, to) == [o \in Ops |-> IF op[o] = from THEN to ELSE op[o]]

-------------------------------------------------------------------------------
Init ==
  /\ state = "stopped" /\ started = FALSE /\ terminal = FALSE
  /\ retry = [failures |-> 0, hostFailures |-> 0, unavailable |-> FALSE,
              answers |-> 0, wait |-> 0]
  /\ generation = 0
  /\ connect = NoConnect /\ closeTask = "none" /\ stopTask = "none"
  /\ socket = 0 /\ receiver = 0 /\ lock = <<>>
  /\ op = [o \in Ops |-> "idle"]
  /\ reachable = TRUE /\ tv \in {"off", "hostless", "on"}
  /\ age = 0 /\ probes = 0

Start ==
  /\ ~started /\ ~terminal
  /\ started' = TRUE
  /\ retry' = [Reset(retry) EXCEPT !.wait = 0]
  /\ state' = "backoff"
  /\ UNCHANGED <<terminal, generation, connect, closeTask, stopTask, transport,
                 lock, op, world>>

\* One poll of the coordinator: observe_power.  `eligible` says that the
\* reported power state is one in which Art is worth asking.
Heartbeat(r, eligible) ==
  LET edge == r /\ ~reachable
      base == IF edge THEN EdgeReset(retry) ELSE retry
      asks == r /\ eligible
      dead == state = "ready" /\ ~Alive
      due  == state \in {"backoff", "dormant"} /\ MayConnect /\ base.wait = 0
  IN
  /\ started
  /\ r => tv # "off"
  /\ reachable' = r
  /\ age' = IF edge THEN 0 ELSE age
  /\ \/ /\ asks /\ dead /\ edge /\ MayConnect
        /\ retry' \in GenericFailure(base)
        /\ ScheduleConnect(FALSE)
     \/ /\ asks /\ dead /\ ~(edge /\ MayConnect)
        /\ RecordGeneric(base)
        /\ UNCHANGED <<connect, closeTask, lock>>
     \/ /\ asks /\ due
        /\ retry' = base
        /\ ScheduleConnect(TRUE)
     \/ /\ ~(asks /\ (dead \/ due))
        /\ retry' = base
        /\ UNCHANGED <<state, connect, closeTask, lock>>
  /\ probes' = IF edge THEN 0
               ELSE IF asks /\ due THEN Smaller(probes + 1, 2) ELSE probes
  /\ UNCHANGED <<started, terminal, generation, stopTask, transport, op, tv>>

-------------------------------------------------------------------------------
(* Operations of the device *)

Faulty == generation < MaxGeneration

\* async_ensure_ready(USER), or the readiness test of a background read.
Operate(o) ==
  /\ op[o] = "idle" /\ started /\ Faulty
  /\ \/ /\ Ready
        /\ op' = [op EXCEPT ![o] = "running"]
        /\ UNCHANGED <<state, connect, closeTask, lock>>
     \/ /\ ~Ready /\ connect.pc # "idle"
        /\ op' = [op EXCEPT ![o] = "joining"]
        /\ UNCHANGED <<state, connect, closeTask, lock>>
     \/ /\ ~Ready /\ MayConnect
        /\ op' = [op EXCEPT ![o] = "joining"]
        /\ ScheduleConnect(retry.wait = 0)
  /\ UNCHANGED <<started, terminal, retry, generation, stopTask, transport, world>>

Complete(o) ==
  /\ op[o] = "running" /\ Alive
  /\ op' = [op EXCEPT ![o] = "idle"]
  /\ UNCHANGED <<policy, connect, closeTask, stopTask, transport, lock, world>>

\* An operation that timed out keeps FrameArt._operation_lock until the close
\* it makes is over, and the next operation waits for it.
OperationLockFree == \A o \in Ops : op[o] \notin {"queued", "draining"}

TimeOut(o) ==
  /\ op[o] = "running" /\ Alive /\ Faulty /\ OperationLockFree
  /\ op' = [op EXCEPT ![o] = "queued"]
  /\ lock' = Append(lock, o)
  /\ UNCHANGED <<policy, connect, closeTask, stopTask, transport, world>>

\* The receiver failed the response waiter, or is_alive() refused the request.
Fail(o) ==
  /\ op[o] = "running" /\ ~Alive /\ OperationLockFree
  /\ op' = [op EXCEPT ![o] = "failed"]
  /\ UNCHANGED <<policy, connect, closeTask, stopTask, transport, lock, world>>

\* async_connection_failed: record, then close and wait for the close task.
ReportFailure(o) ==
  /\ \/ op[o] = "failed"
     \/ op[o] = "running" /\ Alive /\ Faulty   \* a malformed answer, a D2D error
  /\ IF started
     THEN /\ RecordGeneric(retry)
          /\ ScheduleClose(lock, FALSE)
          /\ op' = [op EXCEPT ![o] = IF closeTask = "done" THEN "idle"
                                     ELSE "reporting"]
     ELSE /\ op' = [op EXCEPT ![o] = "idle"]
          /\ UNCHANGED <<state, retry, closeTask, lock>>
  /\ UNCHANGED <<started, terminal, generation, connect, stopTask, transport, world>>

-------------------------------------------------------------------------------
(* The connect task: _connect_once over FrameArt.open *)

Opening == connect.pc = "opening" /\ Holds("connect") /\ ~connect.cancelled
Handshaking ==
  connect.pc = "handshake" /\ Holds("connect") /\ ~connect.cancelled

\* Mutant: a reused connection keeps the number it had.
Connected_SameNumber ==
  /\ ~terminal
  /\ generation' = IF socket # 0 THEN generation ELSE generation + 1
  /\ retry' = NoteConnected(retry)
  /\ state' = "ready"
  /\ connect' = NoConnect
  /\ lock' = Tail(lock)
  /\ op' = Joined("joining", "running")
  /\ UNCHANGED <<started, terminal, closeTask, stopTask, world>>

\* The stretch from the end of open() to READY; it lets the lock go.
Connected ==
  /\ ~terminal
  /\ generation' = generation + 1
  /\ retry' = NoteConnected(retry)
  /\ state' = "ready"
  /\ connect' = NoConnect
  /\ lock' = Tail(lock)
  /\ op' = Joined("joining", "running")
  /\ UNCHANGED <<started, terminal, closeTask, stopTask, world>>

\* open() finds a connection and returns it.
OpenExisting ==
  /\ Opening /\ socket # 0
  /\ Connected
  /\ UNCHANGED transport

\* Mutants: the refused attempt leaves the state as it was, or the deadline.
OpenRefused_NoState ==
  /\ Opening /\ socket = 0 /\ receiver # 0
  /\ retry' = [retry EXCEPT !.wait = CleanupRecheck]
  /\ connect' = NoConnect
  /\ lock' = Tail(lock)
  /\ op' = Joined("joining", "idle")
  /\ UNCHANGED <<state, started, terminal, generation, closeTask, stopTask,
                 transport, world>>
OpenRefused_NoDelay ==
  /\ Opening /\ socket = 0 /\ receiver # 0
  /\ state' = "backoff"
  /\ connect' = NoConnect
  /\ lock' = Tail(lock)
  /\ op' = Joined("joining", "idle")
  /\ UNCHANGED <<retry, started, terminal, generation, closeTask, stopTask,
                 transport, world>>

\* open() raises ArtCleanupPending while an older receiver is not done.
OpenRefused ==
  /\ Opening /\ socket = 0 /\ receiver # 0
  /\ retry' = [retry EXCEPT !.wait = CleanupRecheck]
  /\ state' = "backoff"
  /\ connect' = NoConnect
  /\ lock' = Tail(lock)
  /\ op' = Joined("joining", "idle")
  /\ UNCHANGED <<started, terminal, generation, closeTask, stopTask, transport,
                 world>>

\* Mutant: open() does not look for live children.
OpenHandshake_NoFence ==
  /\ Opening /\ socket = 0
  /\ connect' = [connect EXCEPT !.pc = "handshake"]
  /\ UNCHANGED <<policy, closeTask, stopTask, transport, lock, op, world>>
OpenHandshake ==
  /\ Opening /\ socket = 0 /\ receiver = 0
  /\ connect' = [connect EXCEPT !.pc = "handshake"]
  /\ UNCHANGED <<policy, closeTask, stopTask, transport, lock, op, world>>

HandshakeSucceeds ==
  /\ Handshaking /\ tv = "on"
  /\ socket' = generation + 1
  /\ receiver' = generation + 1
  /\ Connected

\* What _connect_once does about an error, once the lock is given up.  It
\* records nothing for a stopped session, but there the task is cancelled.
GiveUp(queue) ==
  /\ connect' = [connect EXCEPT !.pc = "closing"]
  /\ ScheduleClose(queue, terminal /\ closeTask = "done")
  /\ UNCHANGED <<started, terminal, generation, stopTask, op, world>>

HandshakeFails ==
  /\ Handshaking
  /\ RecordGeneric(retry)
  /\ GiveUp(Tail(lock))
  /\ UNCHANGED transport

\* Mutant: a user's attempt is evidence too.
HandshakeHostless_CountAll ==
  /\ Handshaking /\ tv = "hostless"
  /\ RecordHostless(CountAnswer(retry))
  /\ GiveUp(Tail(lock))
  /\ UNCHANGED transport

\* ArtHostUnavailable; only an attempt the schedule allowed is evidence.
HandshakeHostless ==
  /\ Handshaking /\ tv = "hostless"
  /\ RecordHostless(IF connect.evidence THEN CountAnswer(retry) ELSE retry)
  /\ GiveUp(Tail(lock))
  /\ UNCHANGED transport

\* The socket dies between the handshake and the receiver's first read.
ReceiverDoesNotStart ==
  /\ Handshaking /\ tv # "hostless"
  /\ receiver' = generation + 1
  /\ RecordGeneric(retry)
  /\ GiveUp(Tail(lock))
  /\ UNCHANGED socket

\* Mutant: the failure is recorded whatever has stopped the session meanwhile.
ConnectCancelled_Records ==
  /\ connect.cancelled /\ connect.pc \in {"opening", "handshake"}
  /\ RecordGeneric(retry)
  /\ \E i \in DOMAIN lock : lock[i] = "connect" /\ GiveUp(RemoveAt(lock, i))
  /\ UNCHANGED transport
ConnectCancelled ==
  /\ connect.cancelled /\ connect.pc \in {"opening", "handshake"}
  /\ IF started THEN RecordGeneric(retry) ELSE UNCHANGED <<retry, state>>
  /\ \E i \in DOMAIN lock : lock[i] = "connect" /\ GiveUp(RemoveAt(lock, i))
  /\ UNCHANGED transport

ConnectFinishes ==
  /\ connect.pc = "closing" /\ closeTask = "done"
  /\ connect' = NoConnect
  /\ op' = Joined("joining", "idle")
  /\ UNCHANGED <<policy, closeTask, stopTask, transport, lock, world>>

-------------------------------------------------------------------------------
(* FrameArt.close, run by the close task or by an operation that timed out *)

Queued(c) == IF c = "close" THEN closeTask = "queued" ELSE op[c] = "queued"
Draining(c) == IF c = "close" THEN closeTask = "draining" ELSE op[c] = "draining"

CloseTo(c, phase) ==
  IF c = "close"
  THEN closeTask' = phase /\ UNCHANGED op
  ELSE op' = [op EXCEPT ![c] = phase] /\ UNCHANGED closeTask

\* The close task is over for everyone who waits for it.
CloseDone ==
  /\ closeTask' = "done"
  /\ op' = Joined("reporting", "idle")
  /\ stopTask' = IF stopTask = "closing" THEN "closed" ELSE stopTask

\* The receiver is cancelled and drops the connection.
CloseDrops(c) ==
  /\ Holds(c) /\ Queued(c)
  /\ socket' = 0
  /\ CloseTo(c, "draining")
  /\ UNCHANGED <<policy, connect, stopTask, receiver, lock, world>>

\* The receiver is done, or has outlived ART_CLOSE_DEADLINE.
CloseReleases(c) ==
  /\ Holds(c) /\ Draining(c)
  /\ receiver' \in {0, receiver}
  /\ lock' = Tail(lock)
  /\ IF c = "close" THEN CloseDone
     ELSE op' = [op EXCEPT ![c] = "failed"] /\ UNCHANGED <<closeTask, stopTask>>
  /\ UNCHANGED <<policy, connect, socket, world>>

\* _close_once runs out of ART_CLOSE_DEADLINE in the queue of the lock.
CloseTimesOut ==
  /\ closeTask = "queued" /\ ~Holds("close")
  /\ \E i \in DOMAIN lock : lock[i] = "close" /\ lock' = RemoveAt(lock, i)
  /\ CloseDone
  /\ UNCHANGED <<policy, connect, transport, world>>

\* _receiver_finished has closed the socket that was dropped.
ReceiverEnds ==
  /\ receiver # 0 /\ socket # receiver
  /\ receiver' = 0
  /\ UNCHANGED <<policy, connect, closeTask, stopTask, socket, lock, op, world>>

-------------------------------------------------------------------------------
(* The stop task *)

StopBegins ==
  /\ ~terminal
  /\ terminal' = TRUE
  /\ started' = FALSE
  /\ stopTask' = "cancelling"
  /\ connect' = [connect EXCEPT !.cancelled = connect.pc # "idle"]
  /\ UNCHANGED <<state, retry, generation, closeTask, transport, lock, op, world>>

\* Mutant: the stop waits to be woken by a close that is over already.
StopCloses_LostWakeup ==
  /\ stopTask = "cancelling"
  /\ ScheduleClose(lock, FALSE)
  /\ stopTask' = "closing"
  /\ UNCHANGED <<policy, connect, transport, op, world>>

\* The connect task is done, or ART_CONNECT_DEADLINE has passed.
StopCloses ==
  /\ stopTask = "cancelling"
  /\ ScheduleClose(lock, FALSE)
  /\ stopTask' = IF closeTask = "done" THEN "closed" ELSE "closing"
  /\ UNCHANGED <<policy, connect, transport, op, world>>

StopFinishes ==
  /\ stopTask = "closed"
  /\ stopTask' = "done"
  /\ state' = "stopped"
  /\ UNCHANGED <<started, terminal, retry, generation, connect, closeTask,
                 transport, lock, op, world>>

-------------------------------------------------------------------------------
(* The surroundings *)

\* The clock; `age` is counted only as far as any property looks.
Tick ==
  /\ retry.wait > 0 \/ age < HostFaultAnswers
  /\ retry' = [retry EXCEPT !.wait = IF retry.wait = 0 THEN 0 ELSE retry.wait - 1]
  /\ age' = Smaller(age + 1, HostFaultAnswers)
  /\ probes' = 0
  /\ UNCHANGED <<state, started, terminal, generation, connect, closeTask,
                 stopTask, transport, lock, op, reachable, tv>>

TvChanges ==
  /\ tv' \in {"off", "hostless", "on"} \ {tv}
  /\ UNCHANGED <<policy, connect, closeTask, stopTask, transport, lock, op,
                 reachable, age, probes>>

\* The websocket is lost: the receiver lets go of it and winds up.
Disconnect ==
  /\ socket # 0 /\ Faulty
  /\ socket' = 0
  /\ UNCHANGED <<policy, connect, closeTask, stopTask, receiver, lock, op, world>>

\* Home Assistant cancels the entry's background task.
CancelConnect ==
  /\ connect.pc \in {"opening", "handshake"} /\ ~connect.cancelled
  /\ connect' = [connect EXCEPT !.cancelled = TRUE]
  /\ UNCHANGED <<policy, closeTask, stopTask, transport, lock, op, world>>

-------------------------------------------------------------------------------
ConnectStep ==
  \/ OpenExisting \/ OpenRefused \/ OpenHandshake
  \/ HandshakeSucceeds \/ HandshakeFails \/ HandshakeHostless
  \/ ReceiverDoesNotStart \/ ConnectCancelled \/ ConnectFinishes

CloseStep(c) == CloseDrops(c) \/ CloseReleases(c)

OperationStep(o) ==
  Operate(o) \/ Complete(o) \/ TimeOut(o) \/ Fail(o) \/ ReportFailure(o)

StopStep == StopBegins \/ StopCloses \/ StopFinishes

Next ==
  \/ Start
  \/ \E r, eligible \in BOOLEAN : Heartbeat(r, eligible)
  \/ \E o \in Ops : OperationStep(o)
  \/ ConnectStep
  \/ \E c \in Ops \cup {"close"} : CloseStep(c)
  \/ CloseTimesOut \/ ReceiverEnds
  \/ StopStep
  \/ Tick \/ TvChanges \/ Disconnect \/ CancelConnect

Spec == Init /\ [][Next]_vars

\* Every task that can run does, the heartbeat and the clock go on, and a
\* television that stays on completes a handshake that is tried often enough.
Fairness ==
  /\ WF_vars(Start) /\ WF_vars(Heartbeat(TRUE, TRUE)) /\ WF_vars(Tick)
  /\ WF_vars(ConnectStep) /\ SF_vars(HandshakeSucceeds)
  /\ WF_vars(CloseStep("close")) /\ WF_vars(CloseTimesOut)
  /\ WF_vars(ReceiverEnds)
  /\ WF_vars(StopCloses) /\ WF_vars(StopFinishes)
  /\ \A o \in Ops :
       /\ WF_vars(Complete(o) \/ Fail(o))
       /\ WF_vars(CloseStep(o)) /\ WF_vars(op[o] = "failed" /\ ReportFailure(o))

FairSpec == Spec /\ Fairness

-------------------------------------------------------------------------------
TypeOK ==
  /\ state \in States /\ started \in BOOLEAN /\ terminal \in BOOLEAN
  /\ retry \in Retries /\ generation \in Nat
  /\ connect \in [pc : {"idle", "opening", "handshake", "closing"},
                  evidence : BOOLEAN, cancelled : BOOLEAN]
  /\ closeTask \in {"none", "queued", "draining", "done"}
  /\ stopTask \in {"none", "cancelling", "closing", "closed", "done"}
  /\ socket \in Nat /\ receiver \in Nat
  /\ lock \in Seq(Actors)
  /\ op \in [Ops -> {"idle", "joining", "running", "queued", "draining",
                     "failed", "reporting"}]
  /\ reachable \in BOOLEAN /\ tv \in {"off", "hostless", "on"}
  /\ age \in 0..HostFaultAnswers /\ probes \in 0..2

\* "At most one runtime Art websocket and one handshake": a handshake begins
\* and goes on only while no socket is open and no receiver is left, so the
\* receiver that ends can fail no waiter but those of its own connection.
OneTransport ==
  /\ connect.pc = "handshake" => socket = 0 /\ receiver = 0
  /\ socket # 0 => receiver = socket

\* The state never says CONNECTING when nobody is (the heartbeat would then
\* never try again), and never READY while somebody is.
StateMatchesTask ==
  /\ state = "connecting" /\ ~terminal => connect.pc \in {"opening", "handshake"}
  /\ state = "ready" => connect.pc = "idle" \/ terminal

\* A reported host fault rests on answers as many delays apart: n answers
\* are counted only when n - 1 ticks have passed since the television was
\* last seen to come back, however many commands the user gave meanwhile.
FaultTakesTime == retry.answers =< age + 1

\* "Background recovery obeys one global retry deadline independent of
\* heartbeat frequency": one background attempt at most between two ticks.
PacedProbes == probes =< 1

\* A generation number is spent when the channel is lost, and a stopped
\* session never comes up again: what the holders of a number rely on.
Channel == INSTANCE ArtChannel
             WITH up <- Ready, epoch <- generation, retired <- terminal
ChannelSpec == Channel!Spec

\* "Permanently stop this session": once the stop is complete the state says so
\* for good, although the connect task that outlived its deadline, operations
\* and their reports may still be ending behind it.
StopIsFinal == stopTask = "done" => state = "stopped"

\* "Entry unload is terminal": a stop that was asked for ends.
StopEnds == terminal ~> state = "stopped"

\* A session whose television stays on, and whose task nobody cancels any
\* more, comes to READY with a live transport and stays there, whatever
\* failures were reported late, counted twice or raced with a close before
\* the transport stopped failing.
Recovers ==
  <>[](tv = "on" /\ started) /\ <>[][~CancelConnect]_vars => <>[]Ready

\* "Unload leaves no task, socket or ...": once the stop is complete and no
\* task is left in the lock, no transport is open.
StopLeavesNothing ==
  stopTask = "done" /\ connect.pc = "idle" /\ lock = <<>> => socket = 0
===============================================================================
