----------------------------- MODULE RemoteControl -----------------------------
(***************************************************************************)
(* The remote-control channel: the commands the device sends (device.py,   *)
(* _async_remote_commands), the websocket they share (frame_remote.py),    *)
(* the credential it may issue and the coordinator persists, and the entry *)
(* that is set up, unloaded, or kept because its unload failed             *)
(* (__init__.py, async_quiesce_remote, async_stop).                        *)
(*                                                                         *)
(* An action is one stretch of a task between two awaits.  A lock that is  *)
(* free is taken without an await; here others may run in between.         *)
(* Deadlines are not measured: one may expire whenever it is pending.      *)
(*                                                                         *)
(* The device bounds its drains because of library calls that do not stop  *)
(* when they are cancelled: a cancelled operation either ends, or its call *)
(* returns as if nothing had been asked.                                   *)
(*                                                                         *)
(* Left out: a device without a remote (an entry without a token is not    *)
(* set up), what the commands are, the Art session that stops beside the   *)
(* remote, and the cancellation of the stop, which shields itself.         *)
(***************************************************************************)
EXTENDS Integers, Sequences, SequencesExt

CONSTANTS
  Ops,       \* remote operations that may be under way at the same time
  None,      \* no operation
  MaxToken   \* bound: credentials the television may issue

ASSUME OpsAssumption == None \notin Ops
ASSUME TokenAssumption == MaxToken \in Nat

VARIABLES
  entry,       \* the config entry and the task that unloads or stops it
  quiescing,   \* device._remote_quiescing; the stop sets it with _stopped
  callbacks,   \* the token and the reauthorization callback are set
  target,      \* the operation a drain waits for
  queue,       \* device._remote_operation_lock, the holder first
  op,          \* each operation: where it is, its attempt, whether cancelled
  connection,  \* FrameRemote.connection: none, open or dead
  sockets,     \* published websockets that are physically open
  lock,        \* FrameRemote._lifecycle_lock, the holder first
  token,       \* FrameRemote.token, device._token and the entry's
  confirmed    \* device.remote_confirmed

admission == <<entry, quiescing, callbacks, target>>
wire == <<connection, sockets>>
vars == <<admission, queue, op, wire, lock, token, confirmed>>

NoOp == [pc |-> "idle", attempt |-> 0, cancelled |-> FALSE]
InFlight == {"opening", "sending", "resetting"}
Removed(t, s, a) == \E i \in DOMAIN s : s[i] = a /\ t = RemoveAt(s, i)
Holds(a) == lock # <<>> /\ Head(lock) = a
At(o, pc) == queue # <<>> /\ Head(queue) = o /\ op[o].pc = pc

\* device._active_remote_operation: the holder, once it has resumed.
Active ==
  IF queue = <<>> \/ op[Head(queue)].pc = "queued" THEN None ELSE Head(queue)

\* FrameRemote._stopped
RemoteStopped == entry \in {"stopping", "stopped"}

Init ==
  /\ entry = "setup" /\ quiescing = FALSE /\ callbacks = TRUE
  /\ target = None
  /\ queue = <<>> /\ op = [o \in Ops |-> NoOp]
  /\ connection = "none" /\ sockets = 0 /\ lock = <<>>
  /\ token = [issued |-> 0, held |-> 0, stored |-> 0]
  /\ confirmed = FALSE

-------------------------------------------------------------------------------
(* The pieces of an operation *)

\* The operation is over and gives up the operation lock.
Leaves(o) ==
  /\ op' = [op EXCEPT ![o] = NoOp]
  /\ queue' = Tail(queue)

\* An operation that fails confirms nothing; async_turn_off withdraws besides.
Ends(o) ==
  /\ Leaves(o)
  /\ confirmed' \in {confirmed, FALSE}

Goes(o, pc) ==
  /\ op' = [op EXCEPT ![o].pc = pc]
  /\ UNCHANGED <<queue, confirmed>>

\* Mutant: the retry is not counted.
Retries_Always(o, rest) ==
  /\ confirmed' = FALSE
  /\ op' = [op EXCEPT ![o].pc = "resetting"]
  /\ lock' = Append(rest, "operation")
  /\ UNCHANGED queue

\* An ordinary failure: reset the connection and try once more.
Retries(o, rest) ==
  /\ confirmed' = FALSE
  /\ \/ op[o].attempt = 1 /\ Leaves(o) /\ lock' = rest
     \/ /\ op[o].attempt = 0
        /\ op' = [op EXCEPT ![o].pc = "resetting"]
        /\ lock' = Append(rest, "operation")
        /\ UNCHANGED queue

\* Mutant: a credential that could not be persisted does not stop the command.
Opened_Swallows(o, issued) ==
  /\ \/ token' = [issued |-> issued, held |-> issued, stored |-> issued]
     \/ token' = [token EXCEPT !.issued = issued]
  /\ IF quiescing THEN Ends(o) ELSE Goes(o, "sending")

\* From the end of open() to the first send: _capture_remote_token with
\* coordinator.handle_remote_token, then the second look at the admission.
Opened(o, issued) ==
  LET unheld == issued # token.held /\ callbacks
  IN
  \/ /\ unheld
     /\ token' = [issued |-> issued, held |-> issued, stored |-> issued]
     /\ IF quiescing THEN Ends(o) ELSE Goes(o, "sending")
  \/ /\ unheld                       \* the entry could not be updated
     /\ token' = [token EXCEPT !.issued = issued]
     /\ Ends(o)
  \/ /\ ~unheld
     /\ token' = [token EXCEPT !.issued = issued]
     /\ IF quiescing THEN Ends(o) ELSE Goes(o, "sending")

-------------------------------------------------------------------------------
(* An operation, _async_remote_commands *)

Command(o) ==
  /\ op[o].pc = "idle" /\ ~quiescing
  /\ op' = [op EXCEPT ![o].pc = "queued"]
  /\ queue' = Append(queue, o)
  /\ UNCHANGED <<admission, wire, lock, token, confirmed>>

\* Mutant: the admission is looked at only before the operation lock.
Take_Unchecked(o) ==
  /\ At(o, "queued")
  /\ Goes(o, "opening") /\ lock' = Append(lock, "operation")
  /\ UNCHANGED <<admission, wire, token>>

Take(o) ==
  /\ At(o, "queued")
  /\ IF quiescing
     THEN Ends(o) /\ lock' = lock
     ELSE Goes(o, "opening") /\ lock' = Append(lock, "operation")
  /\ UNCHANGED <<admission, wire, token>>

Opening(o) == At(o, "opening") /\ Holds("operation")

\* open() returns the connection it has, dead or not.
OpenExisting(o) ==
  /\ Opening(o) /\ ~RemoteStopped /\ connection # "none"
  /\ lock' = Tail(lock)
  /\ Opened(o, token.issued)
  /\ UNCHANGED <<admission, wire>>

Handshake(o) ==
  /\ Opening(o) /\ ~RemoteStopped /\ connection = "none"
  /\ connection' = "open" /\ sockets' = sockets + 1
  /\ lock' = Tail(lock)
  /\ \E issued \in {token.issued, token.issued + 1} \cap 0..MaxToken :
       Opened(o, issued)
  /\ UNCHANGED admission

\* RemotePairingRequired or UnauthorizedError: reauthorize, never retry.
HandshakeRejected(o) ==
  /\ Opening(o) /\ connection = "none"
  /\ confirmed' = FALSE
  /\ lock' = Tail(lock) /\ Leaves(o)
  /\ UNCHANGED <<admission, wire, token>>

\* Any other error, and that of a transport that was stopped.
OpenFails(o) ==
  /\ Opening(o) /\ (connection = "none" \/ RemoteStopped)
  /\ Retries(o, Tail(lock))
  /\ UNCHANGED <<admission, wire, token>>

\* Mutant: the admission is not asked again when the command is written.
Sent_Unchecked(o) ==
  /\ At(o, "sending") /\ Leaves(o) /\ confirmed' \in BOOLEAN
  /\ UNCHANGED <<admission, wire, lock, token>>
\* The connection may have died since the last command was written.  A command
\* that was sent confirms the channel, if the channel is not quiescing by then;
\* async_turn_off withdraws that again.
Sent(o) ==
  /\ At(o, "sending")
  /\ \/ ~quiescing /\ Leaves(o) /\ confirmed' \in BOOLEAN
     \/ quiescing /\ Ends(o)
  /\ UNCHANGED <<admission, wire, lock, token>>

SendRejected(o) ==
  /\ At(o, "sending")
  /\ confirmed' = FALSE /\ Leaves(o)
  /\ UNCHANGED <<admission, wire, lock, token>>

SendFails(o) ==
  /\ At(o, "sending")
  /\ Retries(o, lock)
  /\ UNCHANGED <<admission, wire, token>>

Resetting(o) == At(o, "resetting") /\ Holds("operation")

Reset(o) ==
  /\ Resetting(o)
  /\ connection' = "none" /\ sockets' = 0
  /\ op' = [op EXCEPT ![o].pc = "opening", ![o].attempt = 1]
  /\ lock' = Append(Tail(lock), "operation")
  /\ UNCHANGED <<admission, queue, token, confirmed>>

\* Mutant: a connection that could not be closed is forgotten.
ResetFails_Forgets(o) ==
  /\ Resetting(o) /\ connection # "none"
  /\ connection' = "none"
  /\ lock' = Tail(lock) /\ Ends(o)
  /\ UNCHANGED <<admission, sockets, token>>

\* close() fails or runs out of time, and keeps the connection.
ResetFails(o) ==
  /\ Resetting(o) /\ connection # "none"
  /\ lock' = Tail(lock) /\ Ends(o)
  /\ UNCHANGED <<admission, wire, token>>

-------------------------------------------------------------------------------
(* Cancellation, by the caller of the operation or by a drain *)

Cancel(o) ==
  /\ op[o].pc \in InFlight
  /\ op' = [op EXCEPT ![o].cancelled = TRUE]
  /\ UNCHANGED <<admission, queue, wire, lock, token, confirmed>>

CancelQueued(o) ==
  /\ op[o].pc = "queued"
  /\ op' = [op EXCEPT ![o] = NoOp]
  /\ Removed(queue', queue, o)
  /\ confirmed' \in {confirmed, FALSE}
  /\ UNCHANGED <<admission, wire, lock, token>>

\* A handshake closes its websocket first; a close keeps the connection.
EndsCancelled(o) ==
  /\ op[o].cancelled /\ op[o].pc \in InFlight
  /\ IF op[o].pc = "sending"
     THEN lock' = lock ELSE Removed(lock', lock, "operation")
  /\ Ends(o)
  /\ UNCHANGED <<admission, wire, token>>

-------------------------------------------------------------------------------
(* The entry *)

SetupSucceeds ==
  /\ entry = "setup" /\ entry' = "loaded"
  /\ UNCHANGED <<quiescing, callbacks, target, queue, op, wire, lock, token,
                 confirmed>>

\* async_stop closes the admission at once, then drains what is active.
StopBegins ==
  /\ entry' = "stop_draining"
  /\ quiescing' = TRUE /\ callbacks' = FALSE
  /\ target' = Active
  /\ confirmed' = FALSE
  /\ UNCHANGED <<queue, op, wire, lock, token>>

\* A platform fails to set up while others are at work already.
SetupFails == entry = "setup" /\ StopBegins

\* async_quiesce_remote
UnloadBegins ==
  /\ entry = "loaded" /\ entry' = "draining"
  /\ quiescing' = TRUE
  /\ target' = Active
  /\ confirmed' = FALSE
  /\ UNCHANGED <<callbacks, queue, op, wire, lock, token>>

Drained == target \in Ops => op[target].pc = "idle"

DrainEnds ==
  /\ entry \in {"draining", "cancelling"} /\ Drained
  /\ entry' = "platforms"
  /\ callbacks' = FALSE /\ target' = None
  /\ UNCHANGED <<quiescing, queue, op, wire, lock, token, confirmed>>

\* REMOTE_DRAIN_DEADLINE
DrainCancels ==
  /\ entry \in {"draining", "stop_draining"} /\ ~Drained
  /\ entry' = IF entry = "draining" THEN "cancelling" ELSE "stop_cancelling"
  /\ op' = [op EXCEPT ![target].cancelled = TRUE]
  /\ UNCHANGED <<quiescing, callbacks, target, queue, wire, lock, token,
                 confirmed>>

\* REMOTE_CANCEL_DEADLINE, a platform that does not unload, or the
\* cancellation of the unload: the entry goes on as it was.
UnloadFails ==
  /\ entry \in {"draining", "cancelling", "platforms"}
  /\ entry' = "loaded"
  /\ quiescing' = FALSE /\ callbacks' = TRUE /\ target' = None
  /\ UNCHANGED <<queue, op, wire, lock, token, confirmed>>

PlatformsUnload == entry = "platforms" /\ StopBegins

\* Mutant: the drain of a stop has no second deadline.
StopDrains_Patiently ==
  /\ entry \in {"stop_draining", "stop_cancelling"} /\ Drained
  /\ entry' = "stopping" /\ target' = None
  /\ lock' = Append(lock, "stop")
  /\ UNCHANGED <<quiescing, callbacks, queue, op, wire, token, confirmed>>

\* The drain of the stop is over, if by its second deadline; FrameRemote.
\* async_stop waits for the lifecycle lock.
StopDrains ==
  /\ \/ entry = "stop_draining" /\ Drained
     \/ entry = "stop_cancelling"
  /\ entry' = "stopping" /\ target' = None
  /\ lock' = Append(lock, "stop")
  /\ UNCHANGED <<quiescing, callbacks, queue, op, wire, token, confirmed>>

\* It closes or aborts the connection, if need be without the lock.
StopEnds ==
  /\ entry = "stopping" /\ entry' = "stopped"
  /\ connection' = "none" /\ sockets' = 0
  /\ Removed(lock', lock, "stop")
  /\ UNCHANGED <<quiescing, callbacks, target, queue, op, token, confirmed>>

\* A poll: coordinator._async_capture_token, and what withdraws the
\* confirmation of a television that was off or away.
Heartbeat ==
  /\ entry # "stopped"
  /\ token' \in {token, [token EXCEPT !.held = token.issued,
                                      !.stored = token.issued]}
  /\ confirmed' \in {confirmed, FALSE}
  /\ UNCHANGED <<admission, queue, op, wire, lock>>

\* The television or the network drops the connection.
Drops ==
  /\ connection = "open"
  /\ connection' = "dead" /\ sockets' = sockets - 1
  /\ UNCHANGED <<admission, queue, op, lock, token, confirmed>>

-------------------------------------------------------------------------------
\* What a call that returns, or an operation that resumes, does next.
OpStep(o) ==
  \/ Take(o)
  \/ OpenExisting(o) \/ Handshake(o) \/ HandshakeRejected(o) \/ OpenFails(o)
  \/ Sent(o) \/ SendRejected(o) \/ SendFails(o)
  \/ Reset(o) \/ ResetFails(o)

StopStep == DrainCancels \/ DrainEnds \/ StopDrains \/ StopEnds

Next ==
  \/ \E o \in Ops :
       Command(o) \/ OpStep(o) \/ Cancel(o) \/ CancelQueued(o) \/ EndsCancelled(o)
  \/ SetupSucceeds \/ SetupFails
  \/ UnloadBegins \/ UnloadFails \/ PlatformsUnload
  \/ StopStep
  \/ Heartbeat \/ Drops

Spec == Init /\ [][Next]_vars

\* The deadlines of the drains and of the stop expire, and Home Assistant
\* unloads the platforms or says that it could not.  Nothing is said of the
\* operations: a library call may hang for ever.
Fairness ==
  /\ WF_vars(StopStep)
  /\ WF_vars(entry = "cancelling" /\ UnloadFails)
  /\ WF_vars(entry = "platforms" /\ (PlatformsUnload \/ UnloadFails))

FairSpec == Spec /\ Fairness

-------------------------------------------------------------------------------
TypeOK ==
  /\ entry \in {"setup", "loaded", "draining", "cancelling", "platforms",
                "stop_draining", "stop_cancelling", "stopping", "stopped"}
  /\ quiescing \in BOOLEAN /\ callbacks \in BOOLEAN
  /\ target \in Ops \cup {None}
  /\ queue \in Seq(Ops)
  /\ op \in [Ops -> [pc : {"idle", "queued"} \cup InFlight,
                     attempt : {0, 1}, cancelled : BOOLEAN]]
  /\ connection \in {"none", "open", "dead"} /\ sockets \in Nat
  /\ lock \in Seq({"operation", "stop"})
  /\ token \in [issued : Nat, held : Nat, stored : Nat]
  /\ confirmed \in BOOLEAN

\* "Persist authorization, then send": no command goes out under a credential
\* the entry does not hold, whatever was unloaded or failed meanwhile.
StoredBeforeSent ==
  \A o \in Ops : op[o].pc = "sending" => token.stored = token.issued

\* "Stop new remote work and drain in-flight work before callbacks can
\* disappear": while the platforms unload no operation is in flight, not even
\* one that had queued behind the one the drain waited for.
QuietWithoutCallbacks ==
  entry = "platforms" => \A o \in Ops : op[o].pc \notin InFlight

\* "Unload boundaries invalidate the observation": from the unload or the stop
\* on, which take the confirmation back, until the channel is resumed, none of
\* the operations that end meanwhile confirms it again.
ConfirmedIsOpen == confirmed => ~quiescing

\* A stopped entry has no connection and never gets one again, though an
\* operation that does not stop may still be inside open().
StoppedIsClosed == entry = "stopped" => connection = "none" /\ sockets = 0

\* "Retain ownership": the client never loses track of a websocket it could
\* not close, so that no retry opens a second one beside it and the stop finds
\* the one there is.
OneSocket == sockets <= 1 /\ StoppedIsClosed

\* "Shutdown must not wait indefinitely for a misbehaving coroutine": an unload
\* or a stop comes to its end though operations hang.
EntryConcludes ==
  entry \notin {"setup", "loaded"} ~> entry \in {"loaded", "stopped"}

\* Every operation ends, if its calls return, after one retry at most and
\* however many wait for the same two locks.
OperationsEnd ==
  (\A o \in Ops : WF_vars(OpStep(o)))
    => \A o \in Ops : op[o].pc # "idle" ~> op[o].pc = "idle"
===============================================================================
