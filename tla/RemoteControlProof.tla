-------------------------- MODULE RemoteControlProof --------------------------
(***************************************************************************)
(* Theorems about RemoteControl, for any set of operations and any number  *)
(* of credentials.                                                         *)
(***************************************************************************)
EXTENDS RemoteControl, TLAPS

OpState == [pc : {"idle", "queued"} \cup InFlight,
            attempt : {0, 1}, cancelled : BOOLEAN]
Users == {"operation", "stop"}

-------------------------------------------------------------------------------
(* The inductive invariant *)

\* The admission is closed from the first await of an unload or stop on; the
\* callbacks go when the drain is over.
AdmissionInv ==
  /\ quiescing <=> (entry \notin {"setup", "loaded"})
  /\ callbacks <=> (entry \in {"setup", "loaded", "draining", "cancelling"})

\* Only the holder of the operation lock is in flight.
HeadInv ==
  \A o \in Ops : op[o].pc \in InFlight => queue # <<>> /\ Head(queue) = o

\* What is in flight during the drain of an unload is what the drain waits for.
DrainInv ==
  entry \in {"draining", "cancelling"} =>
    \A o \in Ops : op[o].pc \in InFlight => target = o

\* A published websocket is open exactly as long as its connection is.
SocketInv == sockets = IF connection = "open" THEN 1 ELSE 0

\* Runtime and entry adopt a credential together.
TokenInv == token.held = token.stored

IInv ==
  /\ TypeOK
  /\ AdmissionInv /\ HeadInv /\ DrainInv /\ SocketInv /\ TokenInv
  /\ StoredBeforeSent /\ QuietWithoutCallbacks
  /\ ConfirmedIsOpen /\ StoppedIsClosed

-------------------------------------------------------------------------------
(* Lemmas about queues *)

\* Removing an element leaves a sequence, and its head if that was another.
LEMMA RemovedFacts ==
  ASSUME NEW S, NEW s \in Seq(S), NEW t, NEW a, Removed(t, s, a)
  PROVE  /\ t \in Seq(S)
         /\ s # <<>>
         /\ Head(s) # a => t # <<>> /\ Head(t) = Head(s)
<1>1. PICK i \in DOMAIN s : s[i] = a /\ t = SubSeq(s, 1, i-1) \o SubSeq(s, i+1, Len(s))
  BY DEF Removed, RemoveAt
<1>2. i \in 1..Len(s)
  OBVIOUS
<1>3. SubSeq(s, 1, i-1) \in Seq(S) /\ SubSeq(s, i+1, Len(s)) \in Seq(S)
  BY <1>2
<1>4. CASE i = 1
  BY <1>1, <1>2, <1>3, <1>4
<1>5. CASE i > 1
  <2>1. Len(SubSeq(s, 1, i-1)) = i - 1 /\ SubSeq(s, 1, i-1)[1] = s[1]
    BY <1>2, <1>5
  <2>2. t[1] = s[1] /\ Len(t) >= 1
    BY <1>1, <1>2, <1>3, <1>5, <2>1
  <2> QED
    BY <1>1, <1>2, <1>3, <2>2
<1> QED
  BY <1>2, <1>4, <1>5

\* The head of a queue leaves a queue behind.
LEMMA QueueFacts ==
  ASSUME NEW S, NEW s \in Seq(S)
  PROVE  /\ s # <<>> => Tail(s) \in Seq(S)
         /\ \A a \in S : /\ Append(s, a) \in Seq(S) /\ Append(s, a) # <<>>
                         /\ s # <<>> => Head(Append(s, a)) = Head(s)
OBVIOUS

-------------------------------------------------------------------------------
(* Lemmas about operations *)

\* What an operation may become is typed.
LEMMA OpType ==
  ASSUME NEW f \in [Ops -> OpState], NEW o \in Ops,
         NEW pc \in {"idle", "queued"} \cup InFlight
  PROVE  /\ [f EXCEPT ![o].pc = pc] \in [Ops -> OpState]
         /\ [f EXCEPT ![o].pc = pc, ![o].attempt = 1] \in [Ops -> OpState]
         /\ [f EXCEPT ![o].cancelled = TRUE] \in [Ops -> OpState]
         /\ [f EXCEPT ![o] = NoOp] \in [Ops -> OpState]
<1>1. NoOp \in OpState
  BY DEF NoOp, OpState
<1>2. \A r \in OpState : /\ [r EXCEPT !.pc = pc] \in OpState
                         /\ [r EXCEPT !.cancelled = TRUE] \in OpState
                         /\ [[r EXCEPT !.pc = pc] EXCEPT !.attempt = 1] \in OpState
  BY DEF OpState
<1> QED
  BY <1>1, <1>2

\* The holder leaves, and nobody is in flight any more.
LEMMA LeavesFacts ==
  ASSUME TypeOK, HeadInv, NEW o \in Ops, queue # <<>>, Head(queue) = o,
         Leaves(o)
  PROVE  /\ op' \in [Ops -> OpState] /\ queue' \in Seq(Ops)
         /\ \A a \in Ops : op'[a].pc \notin InFlight
<1>1. op' \in [Ops -> OpState] /\ queue' \in Seq(Ops)
  BY OpType, QueueFacts DEF TypeOK, Leaves, OpState
<1>2. \A a \in Ops : op'[a] = IF a = o THEN NoOp ELSE op[a]
  BY DEF Leaves, TypeOK
<1> QED
  BY <1>1, <1>2 DEF HeadInv, NoOp, InFlight

\* The holder goes on, and remains the only one in flight.
LEMMA GoesFacts ==
  ASSUME TypeOK, HeadInv, NEW o \in Ops, queue # <<>>, Head(queue) = o,
         NEW pc \in InFlight, UNCHANGED queue,
         \/ op' = [op EXCEPT ![o].pc = pc]
         \/ op' = [op EXCEPT ![o].pc = pc, ![o].attempt = 1]
  PROVE  /\ op' \in [Ops -> OpState] /\ queue' \in Seq(Ops)
         /\ \A a \in Ops : op'[a].pc \in InFlight => a = o
         /\ op'[o].pc = pc
         /\ HeadInv'
<1>1. op' \in [Ops -> OpState]
  BY OpType DEF TypeOK, OpState
<1>2. /\ op'[o].pc = pc
      /\ \A a \in Ops : a # o => op'[a] = op[a]
  BY DEF TypeOK
<1> QED
  BY <1>1, <1>2 DEF HeadInv, TypeOK

-------------------------------------------------------------------------------
(* The steps *)

\* A confirmation that is withdrawn, or left alone, is of an open channel.
LEMMA Unconfirmed ==
  ASSUME ConfirmedIsOpen, confirmed' \in {confirmed, FALSE},
         UNCHANGED quiescing
  PROVE  ConfirmedIsOpen'
BY Zenon DEF ConfirmedIsOpen

\* When the holder leaves with the admission as it was and no credential
\* beside the entry's, the invariant holds on.
LEMMA LeavesStep ==
  ASSUME IInv, NEW o \in Ops, queue # <<>>, Head(queue) = o, Leaves(o),
         UNCHANGED admission, TypeOK', SocketInv', TokenInv', ConfirmedIsOpen',
         StoppedIsClosed'
  PROVE  IInv'
<1>1. \A a \in Ops : op'[a].pc \notin InFlight
  BY LeavesFacts DEF IInv
<1> QED
  BY <1>1 DEF IInv, AdmissionInv, HeadInv, DrainInv, QuietWithoutCallbacks,
              StoredBeforeSent, admission, InFlight

\* When the holder goes on with the admission as it was, it needs a credential
\* the entry holds if it sends.
LEMMA GoesStep ==
  ASSUME IInv, NEW o \in Ops, queue # <<>>, Head(queue) = o,
         NEW pc \in InFlight, UNCHANGED <<queue, admission>>,
         \/ op' = [op EXCEPT ![o].pc = pc]
         \/ op' = [op EXCEPT ![o].pc = pc, ![o].attempt = 1],
         op[o].pc \in InFlight \/ ~quiescing,
         pc = "sending" => token'.stored = token'.issued,
         TypeOK', SocketInv', TokenInv', ConfirmedIsOpen', StoppedIsClosed'
  PROVE  IInv'
<1>1. /\ \A a \in Ops : op'[a].pc \in InFlight => a = o
      /\ op'[o].pc = pc /\ HeadInv'
  BY GoesFacts DEF IInv
<1>2. StoredBeforeSent'
  BY <1>1 DEF StoredBeforeSent, InFlight
<1>3. DrainInv' /\ QuietWithoutCallbacks'
  BY <1>1 DEF IInv, AdmissionInv, DrainInv, QuietWithoutCallbacks, admission
<1> QED
  BY <1>1, <1>2, <1>3 DEF IInv, AdmissionInv, admission

\* What an opened operation does next: it leaves, or it sends under a
\* credential the entry holds.
LEMMA OpenedFacts ==
  ASSUME IInv, NEW o \in Ops, NEW issued \in Nat, Opened(o, issued)
  PROVE  /\ token' \in [issued : Nat, held : Nat, stored : Nat]
         /\ TokenInv' /\ confirmed' \in {confirmed, FALSE}
         /\ \/ Leaves(o)
            \/ Goes(o, "sending") /\ token'.stored = token'.issued
<1>1. token \in [issued : Nat, held : Nat, stored : Nat]
  BY DEF IInv, TypeOK
<1>2. /\ token' \in [issued : Nat, held : Nat, stored : Nat]
      /\ TokenInv'
  BY <1>1 DEF Opened, TokenInv, IInv
<1>3. confirmed' \in {confirmed, FALSE}
  BY DEF Opened, Ends, Goes
<1>4. ~quiescing => callbacks
  BY DEF IInv, AdmissionInv
<1>5. ~(issued # token.held /\ callbacks) /\ ~quiescing
        => [token EXCEPT !.issued = issued].stored = issued
  BY <1>1, <1>4 DEF IInv, TokenInv
<1>6. [token EXCEPT !.issued = issued].issued = issued
  BY <1>1
<1>7. /\ [issued |-> issued, held |-> issued, stored |-> issued].stored = issued
      /\ [issued |-> issued, held |-> issued, stored |-> issued].issued = issued
  OBVIOUS
<1>8. \/ Leaves(o)
      \/ Goes(o, "sending") /\ token'.stored = token'.issued
  BY <1>5, <1>6, <1>7, Zenon DEF Opened, Ends
<1> QED
  BY <1>2, <1>3, <1>8

\* The retry of an operation, or its end, leaves the invariant.
LEMMA RetriesStep ==
  ASSUME IInv, NEW o \in Ops, queue # <<>>, Head(queue) = o,
         op[o].pc \in InFlight, NEW rest \in Seq(Users), Retries(o, rest),
         UNCHANGED <<admission, wire, token>>
  PROVE  IInv'
<1>1. /\ confirmed' = FALSE
      /\ SocketInv' /\ TokenInv' /\ ConfirmedIsOpen' /\ StoppedIsClosed'
  BY DEF Retries, IInv, SocketInv, TokenInv, ConfirmedIsOpen, StoppedIsClosed,
         admission, wire
<1>2. CASE Leaves(o) /\ lock' = rest
  <2>1. TypeOK'
    BY <1>1, <1>2, LeavesFacts
       DEF IInv, TypeOK, Users, OpState, admission, wire
  <2> QED
    BY <1>1, <1>2, <2>1, LeavesStep
<1>3. CASE /\ op' = [op EXCEPT ![o].pc = "resetting"]
           /\ lock' = Append(rest, "operation") /\ UNCHANGED queue
  <2>1. op' \in [Ops -> OpState] /\ queue' \in Seq(Ops)
    BY <1>3, GoesFacts DEF IInv, InFlight
  <2>2. lock' \in Seq(Users)
    BY <1>3, QueueFacts DEF Users
  <2>3. TypeOK'
    BY <1>1, <2>1, <2>2 DEF IInv, TypeOK, Users, OpState, admission, wire
  <2> QED
    BY <1>1, <1>3, <2>3, GoesStep DEF InFlight
<1> QED
  BY <1>2, <1>3 DEF Retries

-------------------------------------------------------------------------------
(* The theorems *)

\* The channel is at rest and the entry is being set up.
LEMMA InitIInv == Init => IInv
<1> SUFFICES ASSUME Init PROVE IInv
  OBVIOUS
<1>1. op \in [Ops -> OpState] /\ \A o \in Ops : op[o].pc = "idle"
  BY DEF Init, NoOp, OpState
<1>2. TypeOK
  <2>1. token \in [issued : Nat, held : Nat, stored : Nat]
    BY DEF Init
  <2>2. quiescing \in BOOLEAN /\ callbacks \in BOOLEAN /\ confirmed \in BOOLEAN
    BY DEF Init
  <2>3. queue \in Seq(Ops) /\ lock \in Seq({"operation", "stop"})
    BY DEF Init
  <2> QED
    BY <1>1, <2>1, <2>2, <2>3 DEF Init, TypeOK, OpState
<1> QED
  <2>1. AdmissionInv /\ ConfirmedIsOpen
    <3>1. entry = "setup" /\ ~quiescing /\ callbacks /\ ~confirmed
      BY Zenon DEF Init
    <3> QED
      BY <3>1 DEF AdmissionInv, ConfirmedIsOpen
  <2>2. TokenInv /\ SocketInv /\ StoppedIsClosed
    BY DEF Init, TokenInv, SocketInv, StoppedIsClosed
  <2>3. HeadInv /\ DrainInv /\ StoredBeforeSent /\ QuietWithoutCallbacks
    BY <1>1 DEF Init, HeadInv, DrainInv, StoredBeforeSent,
                QuietWithoutCallbacks, InFlight
  <2> QED
    BY <1>2, <2>1, <2>2, <2>3 DEF IInv

\* Every step of the channel and of the entry preserves the invariant.
LEMMA NextIInv == IInv /\ [Next]_vars => IInv'
<1> SUFFICES ASSUME IInv, [Next]_vars PROVE IInv'
  OBVIOUS
<1> USE DEF Users
<1>1. /\ op \in [Ops -> OpState] /\ queue \in Seq(Ops) /\ lock \in Seq(Users)
      /\ token \in [issued : Nat, held : Nat, stored : Nat]
      /\ confirmed \in BOOLEAN /\ quiescing \in BOOLEAN /\ sockets \in Nat
  BY DEF IInv, TypeOK, OpState
<1>2. ASSUME NEW o \in Ops, Command(o) PROVE IInv'
  <2>1. /\ op' \in [Ops -> OpState] /\ queue' \in Seq(Ops)
        /\ queue # <<>> => queue' # <<>> /\ Head(queue') = Head(queue)
    BY <1>1, <1>2, OpType, QueueFacts DEF Command
  <2>2. \A a \in Ops : op'[a].pc \in InFlight => op'[a] = op[a]
    BY <1>1, <1>2 DEF Command, InFlight, OpState
  <2>3. TypeOK'
    BY <1>2, <2>1 DEF Command, IInv, TypeOK, OpState, admission, wire
  <2> QED
    BY <1>2, <2>1, <2>2, <2>3
       DEF Command, IInv, AdmissionInv, HeadInv, DrainInv, SocketInv, TokenInv,
           StoredBeforeSent, QuietWithoutCallbacks, ConfirmedIsOpen,
           StoppedIsClosed, admission, wire, InFlight
<1>3. ASSUME NEW o \in Ops, Take(o) PROVE IInv'
  <2>1. /\ queue # <<>> /\ Head(queue) = o
        /\ SocketInv' /\ TokenInv' /\ StoppedIsClosed'
        /\ confirmed' \in {confirmed, FALSE} /\ ConfirmedIsOpen'
    BY <1>3 DEF Take, At, Ends, Goes, IInv, SocketInv, TokenInv,
                ConfirmedIsOpen, StoppedIsClosed, admission, wire
  <2>2. CASE quiescing
    <3>1. Leaves(o) /\ lock' = lock
      BY <1>3, <2>2 DEF Take, Ends
    <3>2. TypeOK'
      BY <1>1, <1>3, <2>1, <3>1, LeavesFacts
         DEF Take, IInv, TypeOK, OpState, admission, wire
    <3> QED
      BY <1>3, <2>1, <3>1, <3>2, LeavesStep DEF Take
  <2>3. CASE ~quiescing
    <3>1. Goes(o, "opening") /\ lock' = Append(lock, "operation")
      BY <1>3, <2>3 DEF Take
    <3>2. op' \in [Ops -> OpState] /\ queue' \in Seq(Ops)
      BY <2>1, <3>1, GoesFacts DEF IInv, Goes, InFlight
    <3>3. lock' \in Seq(Users)
      BY <1>1, <3>1, QueueFacts
    <3>4. TypeOK'
      BY <1>1, <1>3, <2>1, <3>2, <3>3
         DEF Take, IInv, TypeOK, OpState, admission, wire
    <3> QED
      BY <1>3, <2>1, <2>3, <3>1, <3>4, GoesStep DEF Take, Goes, InFlight
  <2> QED
    BY <1>1, <2>2, <2>3
<1>4. ASSUME NEW o \in Ops, NEW issued \in Nat, At(o, "opening"),
             ~RemoteStopped, Opened(o, issued), UNCHANGED admission,
             SocketInv', connection' \in {"none", "open", "dead"},
             sockets' \in Nat, lock' \in Seq(Users)
      PROVE  IInv'
  <2>1. /\ queue # <<>> /\ Head(queue) = o /\ op[o].pc \in InFlight
        /\ entry # "stopped"
    BY <1>4 DEF At, RemoteStopped, InFlight
  <2>2. /\ token' \in [issued : Nat, held : Nat, stored : Nat]
        /\ TokenInv' /\ confirmed' \in {confirmed, FALSE}
        /\ \/ Leaves(o)
           \/ Goes(o, "sending") /\ token'.stored = token'.issued
    BY <1>4, OpenedFacts
  <2>3. ConfirmedIsOpen' /\ StoppedIsClosed'
    BY <1>4, <2>1, <2>2, Unconfirmed DEF IInv, StoppedIsClosed, admission
  <2>4. CASE Leaves(o)
    <3>1. TypeOK'
      BY <1>1, <1>4, <2>1, <2>2, <2>4, LeavesFacts
         DEF IInv, TypeOK, OpState, admission
    <3> QED
      BY <1>4, <2>1, <2>2, <2>3, <2>4, <3>1, LeavesStep
  <2>5. CASE Goes(o, "sending") /\ token'.stored = token'.issued
    <3>1. op' \in [Ops -> OpState] /\ queue' \in Seq(Ops)
      BY <2>1, <2>5, GoesFacts DEF IInv, Goes, InFlight
    <3>2. TypeOK'
      BY <1>1, <1>4, <2>2, <3>1 DEF IInv, TypeOK, OpState, admission
    <3> QED
      BY <1>4, <2>1, <2>2, <2>3, <2>5, <3>2, GoesStep DEF Goes, InFlight
  <2> QED
    BY <2>2, <2>4, <2>5
<1>5. ASSUME NEW o \in Ops, OpenExisting(o) PROVE IInv'
  <2>1. lock' \in Seq(Users)
    BY <1>1, <1>5, QueueFacts DEF OpenExisting, Opening, Holds
  <2>2. SocketInv' /\ connection' \in {"none", "open", "dead"} /\ sockets' \in Nat
    BY <1>5 DEF OpenExisting, IInv, TypeOK, SocketInv, wire
  <2>3. token.issued \in Nat
    BY <1>1
  <2> QED
    BY <1>4, <1>5, <2>1, <2>2, <2>3 DEF OpenExisting, Opening
<1>6. ASSUME NEW o \in Ops, Handshake(o) PROVE IInv'
  <2>1. lock' \in Seq(Users)
    BY <1>1, <1>6, QueueFacts DEF Handshake, Opening, Holds
  <2>2. SocketInv' /\ connection' \in {"none", "open", "dead"} /\ sockets' \in Nat
    BY <1>6 DEF Handshake, IInv, TypeOK, SocketInv
  <2>3. PICK issued \in Nat : Opened(o, issued)
    BY <1>6, TokenAssumption DEF Handshake
  <2> QED
    BY <1>4, <1>6, <2>1, <2>2, <2>3 DEF Handshake, Opening
<1>7. ASSUME NEW o \in Ops, HandshakeRejected(o) PROVE IInv'
  <2>1. queue # <<>> /\ Head(queue) = o /\ Leaves(o) /\ lock' \in Seq(Users)
    BY <1>1, <1>7, QueueFacts DEF HandshakeRejected, Opening, At, Holds
  <2>2. /\ confirmed' = FALSE /\ UNCHANGED <<admission, wire, token>>
        /\ SocketInv' /\ TokenInv' /\ ConfirmedIsOpen' /\ StoppedIsClosed'
    BY <1>7 DEF HandshakeRejected, IInv, SocketInv, TokenInv, ConfirmedIsOpen,
                StoppedIsClosed, admission, wire
  <2>3. TypeOK'
    BY <1>1, <2>1, <2>2, LeavesFacts DEF IInv, TypeOK, OpState, admission, wire
  <2> QED
    BY <2>1, <2>2, <2>3, LeavesStep
<1>8. ASSUME NEW o \in Ops, OpenFails(o) PROVE IInv'
  <2>1. Tail(lock) \in Seq(Users)
    BY <1>1, <1>8, QueueFacts DEF OpenFails, Opening, Holds
  <2> QED
    BY <1>8, <2>1, RetriesStep DEF OpenFails, Opening, At, InFlight
<1>9. ASSUME NEW o \in Ops, Sent(o) PROVE IInv'
  <2>1. /\ queue # <<>> /\ Head(queue) = o /\ Leaves(o)
        /\ UNCHANGED <<admission, wire, lock, token>>
    BY <1>9 DEF Sent, At, Ends
  <2>2. confirmed' \in BOOLEAN /\ ConfirmedIsOpen'
    <3>1. CASE ~quiescing /\ confirmed' \in BOOLEAN
      BY <2>1, <3>1 DEF ConfirmedIsOpen, admission
    <3>2. CASE confirmed' \in {confirmed, FALSE}
      <4>1. confirmed' \in BOOLEAN
        BY <1>1, <3>2
      <4> QED
        BY <2>1, <3>2, <4>1, Unconfirmed DEF IInv, admission
    <3> QED
      BY <1>9, <3>1, <3>2 DEF Sent, Ends
  <2>3. SocketInv' /\ TokenInv' /\ StoppedIsClosed'
    BY <2>1 DEF IInv, SocketInv, TokenInv, StoppedIsClosed, admission, wire
  <2>4. TypeOK'
    BY <1>1, <2>1, <2>2, LeavesFacts DEF IInv, TypeOK, OpState, admission, wire
  <2> QED
    BY <2>1, <2>2, <2>3, <2>4, LeavesStep
<1>10. ASSUME NEW o \in Ops, SendRejected(o) PROVE IInv'
  <2>1. /\ queue # <<>> /\ Head(queue) = o /\ Leaves(o)
        /\ confirmed' = FALSE /\ UNCHANGED <<admission, wire, lock, token>>
        /\ SocketInv' /\ TokenInv' /\ ConfirmedIsOpen' /\ StoppedIsClosed'
    BY <1>10 DEF SendRejected, At, IInv, SocketInv, TokenInv, ConfirmedIsOpen,
                 StoppedIsClosed, admission, wire
  <2>2. TypeOK'
    BY <1>1, <2>1, LeavesFacts DEF IInv, TypeOK, OpState, admission, wire
  <2> QED
    BY <2>1, <2>2, LeavesStep
<1>11. ASSUME NEW o \in Ops, SendFails(o) PROVE IInv'
  BY <1>1, <1>11, RetriesStep DEF SendFails, At, InFlight
<1>12. ASSUME NEW o \in Ops, Reset(o) PROVE IInv'
  <2>1. /\ queue # <<>> /\ Head(queue) = o /\ op[o].pc \in InFlight
        /\ op' = [op EXCEPT ![o].pc = "opening", ![o].attempt = 1]
        /\ UNCHANGED <<admission, queue, token, confirmed>>
        /\ connection' = "none" /\ sockets' = 0
    BY <1>12 DEF Reset, Resetting, At, InFlight
  <2>2. SocketInv' /\ TokenInv' /\ ConfirmedIsOpen' /\ StoppedIsClosed'
    BY <2>1 DEF IInv, SocketInv, TokenInv, ConfirmedIsOpen, StoppedIsClosed,
                admission
  <2>3. op' \in [Ops -> OpState] /\ queue' \in Seq(Ops)
    BY <2>1, GoesFacts DEF IInv, InFlight
  <2>4. lock' \in Seq(Users)
    BY <1>1, <1>12, QueueFacts DEF Reset, Resetting, Holds
  <2>5. TypeOK'
    BY <1>1, <2>1, <2>3, <2>4 DEF IInv, TypeOK, OpState, admission
  <2> QED
    BY <2>1, <2>2, <2>5, GoesStep DEF InFlight
<1>13. ASSUME NEW o \in Ops, ResetFails(o) PROVE IInv'
  <2>1. /\ queue # <<>> /\ Head(queue) = o /\ Leaves(o) /\ lock' \in Seq(Users)
        /\ UNCHANGED <<admission, wire, token>> /\ confirmed' \in {confirmed, FALSE}
    BY <1>1, <1>13, QueueFacts DEF ResetFails, Resetting, At, Holds, Ends
  <2>2. SocketInv' /\ TokenInv' /\ ConfirmedIsOpen' /\ StoppedIsClosed'
    BY <2>1, Unconfirmed
       DEF IInv, SocketInv, TokenInv, StoppedIsClosed, admission, wire
  <2>3. TypeOK'
    BY <1>1, <2>1, LeavesFacts DEF IInv, TypeOK, OpState, admission, wire
  <2> QED
    BY <2>1, <2>2, <2>3, LeavesStep
<1>14. ASSUME NEW o \in Ops, Cancel(o) \/ (DrainCancels /\ target = o)
       PROVE  IInv'
  <2>1. /\ op' = [op EXCEPT ![o].cancelled = TRUE]
        /\ UNCHANGED <<quiescing, callbacks, target, queue, wire, lock, token,
                       confirmed>>
        /\ \/ entry' = entry
           \/ entry = "draining" /\ entry' = "cancelling"
           \/ entry = "stop_draining" /\ entry' = "stop_cancelling"
    BY <1>14 DEF Cancel, DrainCancels, admission
  <2>2. op' \in [Ops -> OpState] /\ \A a \in Ops : op'[a].pc = op[a].pc
    <3>1. "idle" \in {"idle", "queued"} \cup InFlight
      OBVIOUS
    <3>2. op' \in [Ops -> OpState]
      BY <1>1, <2>1, <3>1, OpType
    <3> QED
      BY <1>1, <2>1, <3>2 DEF OpState
  <2>3. TypeOK'
    BY <1>1, <2>1, <2>2 DEF IInv, TypeOK, OpState, wire
  <2> QED
    BY <2>1, <2>2, <2>3
       DEF IInv, AdmissionInv, HeadInv, DrainInv, SocketInv, TokenInv,
           StoredBeforeSent, QuietWithoutCallbacks, ConfirmedIsOpen,
           StoppedIsClosed, wire
<1>15. ASSUME NEW o \in Ops, CancelQueued(o) PROVE IInv'
  <2>1. op' \in [Ops -> OpState] /\ queue' \in Seq(Ops)
    BY <1>1, <1>15, OpType, RemovedFacts DEF CancelQueued
  <2>2. \A a \in Ops : op'[a].pc \in InFlight => a # o /\ op'[a] = op[a]
    BY <1>1, <1>15 DEF CancelQueued, NoOp, InFlight
  <2>3. Head(queue) # o => queue' # <<>> /\ Head(queue') = Head(queue)
    BY <1>1, <1>15, RemovedFacts DEF CancelQueued
  <2>4. HeadInv'
    BY <2>2, <2>3 DEF IInv, HeadInv
  <2>5. TypeOK'
    BY <1>1, <1>15, <2>1 DEF CancelQueued, IInv, TypeOK, OpState, admission, wire
  <2> QED
    <3>1. ConfirmedIsOpen'
      BY <1>15, Unconfirmed DEF CancelQueued, IInv, admission
    <3> QED
      BY <1>15, <2>2, <2>4, <2>5, <3>1
         DEF CancelQueued, IInv, AdmissionInv, DrainInv, SocketInv, TokenInv,
             StoredBeforeSent, QuietWithoutCallbacks, StoppedIsClosed,
             admission, wire, InFlight
<1>16. ASSUME NEW o \in Ops, EndsCancelled(o) PROVE IInv'
  <2>1. /\ queue # <<>> /\ Head(queue) = o /\ Leaves(o)
        /\ UNCHANGED <<admission, wire, token>> /\ confirmed' \in {confirmed, FALSE}
    BY <1>16 DEF EndsCancelled, IInv, HeadInv, Ends
  <2>2. lock' \in Seq(Users)
    BY <1>1, <1>16, RemovedFacts DEF EndsCancelled
  <2>3. SocketInv' /\ TokenInv' /\ ConfirmedIsOpen' /\ StoppedIsClosed'
    BY <2>1, Unconfirmed
       DEF IInv, SocketInv, TokenInv, StoppedIsClosed, admission, wire
  <2>4. TypeOK'
    BY <1>1, <2>1, <2>2, LeavesFacts DEF IInv, TypeOK, OpState, admission, wire
  <2> QED
    BY <2>1, <2>3, <2>4, LeavesStep
<1>17. ASSUME UNCHANGED <<queue, op, wire, lock, token>>,
              quiescing' \in BOOLEAN, callbacks' \in BOOLEAN,
              target' \in Ops \cup {None}, confirmed' \in BOOLEAN,
              entry' \in {"setup", "loaded", "draining", "cancelling",
                          "platforms", "stop_draining", "stop_cancelling",
                          "stopping"},
              AdmissionInv', DrainInv', QuietWithoutCallbacks', ConfirmedIsOpen'
       PROVE  IInv'
  BY <1>17 DEF IInv, TypeOK, HeadInv, SocketInv, TokenInv, StoredBeforeSent,
               StoppedIsClosed, wire
<1>18. CASE SetupSucceeds
  BY <1>17, <1>18
     DEF SetupSucceeds, IInv, TypeOK, AdmissionInv, DrainInv,
         QuietWithoutCallbacks, ConfirmedIsOpen
<1>19. /\ Active \in Ops \cup {None}
       /\ \A o \in Ops : op[o].pc \in InFlight => Active = o
  BY <1>1 DEF Active, IInv, HeadInv, InFlight
<1>20. CASE StopBegins
  BY <1>17, <1>19, <1>20
     DEF StopBegins, AdmissionInv, DrainInv, QuietWithoutCallbacks,
         ConfirmedIsOpen
<1>21. CASE UnloadBegins
  BY <1>17, <1>19, <1>21
     DEF UnloadBegins, IInv, AdmissionInv, DrainInv, QuietWithoutCallbacks,
         ConfirmedIsOpen
<1>22. CASE UnloadFails
  BY <1>17, <1>22
     DEF UnloadFails, IInv, TypeOK, AdmissionInv, DrainInv,
         QuietWithoutCallbacks, ConfirmedIsOpen
<1>23. CASE DrainEnds
  <2>1. \A o \in Ops : op[o].pc \notin InFlight
    BY <1>23 DEF DrainEnds, Drained, IInv, DrainInv, InFlight
  <2> QED
    BY <1>17, <1>23, <2>1
       DEF DrainEnds, IInv, TypeOK, AdmissionInv, DrainInv,
           QuietWithoutCallbacks, ConfirmedIsOpen
<1>24. CASE DrainCancels
  <2>1. target \in Ops
    BY <1>24 DEF DrainCancels, Drained
  <2> QED
    BY <1>14, <1>24, <2>1
<1>25. CASE StopDrains
  <2>1. lock' \in Seq(Users)
    BY <1>1, <1>25, QueueFacts DEF StopDrains
  <2> QED
    BY <1>25, <2>1
       DEF StopDrains, IInv, TypeOK, AdmissionInv, HeadInv, DrainInv, SocketInv,
           TokenInv, StoredBeforeSent, QuietWithoutCallbacks, ConfirmedIsOpen,
           StoppedIsClosed, wire
<1>26. CASE StopEnds
  <2>1. lock' \in Seq(Users)
    BY <1>1, <1>26, RemovedFacts DEF StopEnds
  <2> QED
    BY <1>26, <2>1
       DEF StopEnds, IInv, TypeOK, AdmissionInv, HeadInv, DrainInv, SocketInv,
           TokenInv, StoredBeforeSent, QuietWithoutCallbacks, ConfirmedIsOpen,
           StoppedIsClosed
<1>27. CASE Heartbeat
  <2>1. /\ token' \in [issued : Nat, held : Nat, stored : Nat]
        /\ TokenInv' /\ (token.stored = token.issued
                           => token'.stored = token'.issued)
    BY <1>1, <1>27 DEF Heartbeat, IInv, TokenInv
  <2>2. ConfirmedIsOpen' /\ confirmed' \in BOOLEAN
    BY <1>1, <1>27, Unconfirmed DEF Heartbeat, IInv, admission
  <2>3. TypeOK'
    BY <1>27, <2>1, <2>2 DEF Heartbeat, IInv, TypeOK, admission, wire
  <2>4. StoredBeforeSent'
    BY <1>27, <2>1 DEF Heartbeat, IInv, StoredBeforeSent
  <2> QED
    BY <1>27, <2>1, <2>2, <2>3, <2>4
       DEF Heartbeat, IInv, AdmissionInv, HeadInv, DrainInv, SocketInv,
           QuietWithoutCallbacks, StoppedIsClosed, admission, wire
<1>28. CASE Drops
  BY <1>28 DEF Drops, IInv, TypeOK, AdmissionInv, HeadInv, DrainInv, SocketInv,
     TokenInv, StoredBeforeSent, QuietWithoutCallbacks, ConfirmedIsOpen,
     StoppedIsClosed, admission
<1>29. CASE UNCHANGED vars
  BY <1>29 DEF vars, IInv, TypeOK, AdmissionInv, HeadInv, DrainInv, SocketInv,
     TokenInv, StoredBeforeSent, QuietWithoutCallbacks, ConfirmedIsOpen,
     StoppedIsClosed, admission, wire
<1> QED
  BY <1>2, <1>3, <1>5, <1>6, <1>7, <1>8, <1>9, <1>10, <1>11, <1>12, <1>13, <1>14,
     <1>15, <1>16, <1>18, <1>20, <1>21, <1>22, <1>23, <1>24, <1>25, <1>26,
     <1>27, <1>28, <1>29
     DEF Next, OpStep, StopStep, SetupFails, PlatformsUnload

\* The strengthened invariant holds of every execution.
LEMMA Inductive == Spec => []IInv
BY InitIInv, NextIInv, PTL DEF Spec

\* The variables of the channel and the entry keep their types.
THEOREM RemoteTypeCorrect == Spec => []TypeOK
<1>1. IInv => TypeOK
  BY DEF IInv
<1> QED
  BY <1>1, Inductive, PTL

\* A command goes out only under a credential the entry holds.
THEOREM RemoteStoredBeforeSent == Spec => []StoredBeforeSent
<1>1. IInv => StoredBeforeSent
  BY DEF IInv
<1> QED
  BY <1>1, Inductive, PTL

\* No operation is in flight while the platforms unload.
THEOREM RemoteQuietWithoutCallbacks == Spec => []QuietWithoutCallbacks
<1>1. IInv => QuietWithoutCallbacks
  BY DEF IInv
<1> QED
  BY <1>1, Inductive, PTL

\* No operation that ends late confirms a channel that was quiesced.
THEOREM RemoteConfirmedIsOpen == Spec => []ConfirmedIsOpen
<1>1. IInv => ConfirmedIsOpen
  BY DEF IInv
<1> QED
  BY <1>1, Inductive, PTL

\* No second websocket is opened beside one that could not be closed, and a
\* stopped entry has none.
THEOREM RemoteOneSocket == Spec => []OneSocket
<1>1. IInv => OneSocket
  BY DEF IInv, SocketInv, OneSocket
<1> QED
  BY <1>1, Inductive, PTL

-------------------------------------------------------------------------------
(* Who waits for the two locks *)

\* A lock is the queue of those who wait for it, each once, the holder first.
IsQueueOf(q, S, W) ==
  /\ q \in Seq(S)
  /\ \A i, j \in 1..Len(q) : q[i] = q[j] => i = j
  /\ W = {q[i] : i \in 1..Len(q)}

\* Who joins a queue is in it, once.
LEMMA QueueAppend ==
  ASSUME NEW S, NEW q, NEW W, IsQueueOf(q, S, W), NEW x \in S, x \notin W
  PROVE  IsQueueOf(Append(q, x), S, W \cup {x})
<1> DEFINE p == Append(q, x)
<1>1. q \in Seq(S) /\ Len(q) \in Nat
  BY DEF IsQueueOf
<1>2. /\ p \in Seq(S) /\ Len(p) = Len(q) + 1 /\ p[Len(q) + 1] = x
      /\ \A i \in 1..Len(q) : p[i] = q[i] /\ q[i] # x
  BY <1>1 DEF IsQueueOf
<1> HIDE DEF p
<1>3. ASSUME NEW i \in 1..Len(p), NEW j \in 1..Len(p), p[i] = p[j] PROVE i = j
  <2>1. /\ i \in 1..Len(q) \/ i = Len(q) + 1
        /\ j \in 1..Len(q) \/ j = Len(q) + 1
    BY <1>1, <1>2
  <2> QED
    BY <1>2, <1>3, <2>1 DEF IsQueueOf
<1>4. W \cup {x} = {p[i] : i \in 1..Len(p)}
  <2>1. 1..Len(p) = (1..Len(q)) \cup {Len(q) + 1}
    BY <1>1, <1>2
  <2> QED
    BY <1>2, <2>1 DEF IsQueueOf
<1>5. IsQueueOf(p, S, W \cup {x})
  BY <1>2, <1>3, <1>4 DEF IsQueueOf
<1> QED
  BY <1>5 DEF p

\* Who leaves a queue is in it no more, and the others are.
LEMMA QueueRemove ==
  ASSUME NEW S, NEW q, NEW W, IsQueueOf(q, S, W), NEW k \in 1..Len(q)
  PROVE  IsQueueOf(RemoveAt(q, k), S, W \ {q[k]})
<1> DEFINE a == SubSeq(q, 1, k-1)
           b == SubSeq(q, k+1, Len(q))
           p == a \o b
           at(i) == IF i < k THEN i ELSE i + 1
<1>1. q \in Seq(S) /\ Len(q) \in Nat /\ k \in Nat /\ k >= 1 /\ k =< Len(q)
  BY DEF IsQueueOf
<1>2. /\ a \in Seq(S) /\ Len(a) = k - 1
      /\ \A i \in 1..k-1 : a[i] = q[i]
  BY <1>1
<1>3. b \in Seq(S) /\ Len(b) = Len(q) - k
  BY <1>1
<1>4. \A i \in 1..Len(b) : b[i] = q[k + i]
  BY <1>1, <1>3
<1>5. RemoveAt(q, k) = p
  BY DEF RemoveAt
<1> HIDE DEF a, b
<1>6. /\ p \in Seq(S) /\ Len(p) = Len(q) - 1
      /\ \A i \in 1..Len(p) : p[i] = IF i =< Len(a) THEN a[i] ELSE b[i - Len(a)]
  BY <1>1, <1>2, <1>3
<1> HIDE DEF p
<1>7. ASSUME NEW i \in 1..Len(p)
      PROVE  p[i] = q[at(i)] /\ at(i) \in 1..Len(q) /\ at(i) # k
  <2>1. CASE i < k
    <3>1. i \in 1..k-1 /\ i \in Nat /\ i =< Len(a)
      BY <1>1, <1>2, <1>6, <2>1
    <3>2. p[i] = q[i]
      BY <1>2, <1>6, <3>1
    <3> QED
      BY <1>1, <2>1, <3>1, <3>2
  <2>2. CASE i >= k
    <3> DEFINE m == i - (k - 1)
    <3>1. m \in 1..Len(b) /\ k + m = i + 1
      BY <1>1, <1>3, <1>6, <2>2
    <3>2. p[i] = b[m]
      BY <1>1, <1>2, <1>6, <2>2
    <3> HIDE DEF m
    <3>3. p[i] = q[i + 1]
      BY <1>4, <3>1, <3>2
    <3> QED
      BY <1>1, <1>6, <2>2, <3>3
  <2> QED
    BY <1>1, <1>6, <2>1, <2>2
<1>8. ASSUME NEW i \in 1..Len(p), NEW j \in 1..Len(p), p[i] = p[j] PROVE i = j
  <2>1. at(i) = at(j)
    BY <1>7, <1>8 DEF IsQueueOf
  <2> QED
    BY <1>1, <1>6, <2>1
<1>9. W \ {q[k]} = {p[i] : i \in 1..Len(p)}
  <2>1. ASSUME NEW i \in 1..Len(p) PROVE p[i] \in W \ {q[k]}
    BY <1>7 DEF IsQueueOf
  <2>2. ASSUME NEW j \in 1..Len(q), j # k PROVE \E i \in 1..Len(p) : p[i] = q[j]
    <3>1. CASE j < k
      BY <1>1, <1>6, <1>7, <3>1
    <3>2. CASE j > k
      <4>1. j - 1 \in 1..Len(p) /\ at(j - 1) = j
        BY <1>1, <1>6, <3>2
      <4> QED
        BY <1>7, <4>1
    <3> QED
      BY <1>1, <2>2, <3>1, <3>2
  <2> QED
    BY <2>1, <2>2 DEF IsQueueOf
<1>10. IsQueueOf(p, S, W \ {q[k]})
  BY <1>6, <1>8, <1>9 DEF IsQueueOf
<1> QED
  BY <1>5, <1>10

\* So it is when the holder leaves.
LEMMA QueueTail ==
  ASSUME NEW S, NEW q, NEW W, IsQueueOf(q, S, W), q # <<>>
  PROVE  IsQueueOf(Tail(q), S, W \ {Head(q)})
<1>1. q \in Seq(S) /\ 1 \in 1..Len(q)
  BY DEF IsQueueOf
<1>2. RemoveAt(q, 1) = Tail(q) /\ q[1] = Head(q)
  BY <1>1 DEF RemoveAt
<1>3. IsQueueOf(RemoveAt(q, 1), S, W \ {q[1]})
  BY <1>1, QueueRemove
<1> QED
  BY <1>2, <1>3

\* The same, when it is said by whom and not from where.
LEMMA QueueRemoved ==
  ASSUME NEW S, NEW q, NEW W, IsQueueOf(q, S, W), NEW t, NEW a, Removed(t, q, a)
  PROVE  IsQueueOf(t, S, W \ {a})
<1>1. PICK i \in DOMAIN q : q[i] = a /\ t = RemoveAt(q, i)
  BY DEF Removed
<1>2. i \in 1..Len(q)
  BY DEF IsQueueOf
<1> QED
  BY <1>1, <1>2, QueueRemove

\* The operation lock is for those under way.  The lifecycle lock is for the
\* one among them that opens or resets, and for the stop.
UnderWay == {o \in Ops : op[o].pc # "idle"}
Inside == \E o \in Ops : op[o].pc \in {"opening", "resetting"}
LockUsers ==
  (IF Inside THEN {"operation"} ELSE {}) \cup
  (IF entry = "stopping" THEN {"stop"} ELSE {})

\* An operation is reset once, before its second attempt.
Attempts ==
  \A o \in Ops : /\ op[o].pc = "idle" => op[o] = NoOp
                 /\ op[o].pc \in {"queued", "resetting"} => op[o].attempt = 0

WorkInv ==
  /\ IsQueueOf(queue, Ops, UnderWay)
  /\ IsQueueOf(lock, Users, LockUsers)
  /\ Attempts

\* The holder of the operation lock leaves it to the next one.
LEMMA LeavesQueue ==
  ASSUME IInv, WorkInv, NEW o \in Ops, queue # <<>>, Head(queue) = o, Leaves(o)
  PROVE  /\ IsQueueOf(queue', Ops, UnderWay') /\ Attempts'
         /\ ~Inside'
<1>1. op \in [Ops -> OpState]
  BY DEF IInv, TypeOK, OpState
<1>2. \A a \in Ops : op'[a] = IF a = o THEN NoOp ELSE op[a]
  BY <1>1 DEF Leaves
<1>3. UnderWay' = UnderWay \ {o}
  BY <1>2 DEF UnderWay, NoOp
<1>4. IsQueueOf(queue', Ops, UnderWay')
  BY <1>3, QueueTail DEF WorkInv, Leaves
<1>5. Attempts'
  BY <1>2 DEF WorkInv, Attempts, NoOp
<1>6. ~Inside'
  BY <1>2 DEF IInv, HeadInv, Inside, InFlight, NoOp
<1> QED
  BY <1>4, <1>5, <1>6

\* It goes on to something else, and holds it still.
LEMMA GoesQueue ==
  ASSUME IInv, WorkInv, NEW o \in Ops, op[o].pc # "idle", UNCHANGED queue,
         queue # <<>>, Head(queue) = o, NEW pc \in InFlight,
         \/ op' = [op EXCEPT ![o].pc = pc]
         \/ op' = [op EXCEPT ![o].pc = pc, ![o].attempt = 1] /\ pc # "resetting",
         pc = "resetting" => op[o].attempt = 0
  PROVE  /\ IsQueueOf(queue', Ops, UnderWay') /\ Attempts'
         /\ Inside' <=> pc \in {"opening", "resetting"}
<1>1. op \in [Ops -> OpState]
  BY DEF IInv, TypeOK, OpState
<1>2. /\ op'[o].pc = pc
      /\ pc = "resetting" => op'[o].attempt = 0
      /\ \A a \in Ops : a # o => op'[a] = op[a]
  BY <1>1 DEF OpState
<1>3. UnderWay' = UnderWay
  BY <1>2 DEF UnderWay, InFlight
<1>4. Attempts'
  BY <1>2 DEF WorkInv, Attempts, InFlight
<1>5. Inside' <=> pc \in {"opening", "resetting"}
  BY <1>2 DEF IInv, HeadInv, Inside, InFlight
<1> QED
  BY <1>3, <1>4, <1>5 DEF WorkInv

\* Whoever has opened or reset gives up the lifecycle lock.
LEMMA LockLeft ==
  ASSUME WorkInv, Holds("operation"), UNCHANGED entry
  PROVE  /\ ~Inside' => IsQueueOf(Tail(lock), Users, LockUsers')
         /\ Inside' => IsQueueOf(Append(Tail(lock), "operation"), Users, LockUsers')
<1> DEFINE rest == LockUsers \ {"operation"}
<1>1. IsQueueOf(Tail(lock), Users, rest)
  BY QueueTail DEF WorkInv, Holds
<1>2. "operation" \in Users /\ "operation" \notin rest
  BY DEF Users
<1>3. IsQueueOf(Append(Tail(lock), "operation"), Users, rest \cup {"operation"})
  BY <1>1, <1>2, QueueAppend
<1>4. /\ ~Inside' => LockUsers' = rest
      /\ Inside' => LockUsers' = rest \cup {"operation"}
  BY DEF LockUsers
<1> QED
  BY <1>1, <1>3, <1>4

\* Whether an operation retries or gives up, the lifecycle lock it waits for
\* next, behind `rest`, is the queue of its users.
LEMMA RetriesQueue ==
  ASSUME IInv, WorkInv, NEW o \in Ops, queue # <<>>, Head(queue) = o,
         op[o].pc \in InFlight, NEW rest, Retries(o, rest), UNCHANGED entry,
         \/ Holds("operation") /\ rest = Tail(lock)
         \/ ~Inside /\ rest = lock
  PROVE  WorkInv'
<1>1. /\ ~Inside' => IsQueueOf(rest, Users, LockUsers')
      /\ Inside' => IsQueueOf(Append(rest, "operation"), Users, LockUsers')
  <2>1. CASE Holds("operation") /\ rest = Tail(lock)
    BY <2>1, LockLeft
  <2>2. CASE ~Inside /\ rest = lock
    <3>1. "operation" \in Users /\ "operation" \notin LockUsers
      BY <2>2 DEF Users, LockUsers
    <3>2. /\ ~Inside' => LockUsers' = LockUsers
          /\ Inside' => LockUsers' = LockUsers \cup {"operation"}
      BY <2>2 DEF LockUsers
    <3> QED
      BY <2>2, <3>1, <3>2, QueueAppend DEF WorkInv
  <2> QED
    BY <2>1, <2>2
<1>2. CASE Leaves(o) /\ lock' = rest
  BY <1>1, <1>2, LeavesQueue DEF WorkInv
<1>3. CASE /\ op[o].attempt = 0
           /\ op' = [op EXCEPT ![o].pc = "resetting"]
           /\ lock' = Append(rest, "operation") /\ UNCHANGED queue
  <2>1. /\ IsQueueOf(queue', Ops, UnderWay') /\ Attempts'
        /\ Inside'
    BY <1>3, GoesQueue DEF InFlight
  <2> QED
    BY <1>1, <1>3, <2>1 DEF WorkInv
<1> QED
  BY <1>2, <1>3 DEF Retries

\* So it is when it leaves, or goes on without the lifecycle lock.
LEMMA LocksKept ==
  ASSUME WorkInv, IsQueueOf(queue', Ops, UnderWay'), Attempts', UNCHANGED entry,
         \/ Holds("operation") /\ ~Inside' /\ lock' = Tail(lock)
         \/ (Inside' <=> Inside) /\ UNCHANGED lock
  PROVE  WorkInv'
<1>1. CASE Holds("operation") /\ ~Inside' /\ lock' = Tail(lock)
  BY <1>1, LockLeft DEF WorkInv
<1>2. CASE (Inside' <=> Inside) /\ UNCHANGED lock
  BY <1>2 DEF WorkInv, LockUsers
<1> QED
  BY <1>1, <1>2

\* The holder of the operation lock takes a step.
LEMMA OpStepWork ==
  ASSUME IInv, WorkInv, NEW o \in Ops, OpStep(o)
  PROVE  WorkInv'
<1>1. queue # <<>> /\ Head(queue) = o /\ op[o].pc # "idle"
  BY DEF OpStep, Take, OpenExisting, Handshake, HandshakeRejected, OpenFails,
         Sent, SendRejected, SendFails, Reset, ResetFails, Opening, Resetting, At
<1>2. Inside <=> op[o].pc \in {"opening", "resetting"}
  BY <1>1 DEF IInv, HeadInv, Inside, InFlight
<1>3. ASSUME Leaves(o), UNCHANGED entry,
             \/ Holds("operation") /\ lock' = Tail(lock)
             \/ ~Inside /\ UNCHANGED lock
      PROVE  WorkInv'
  BY <1>1, <1>3, LeavesQueue, LocksKept
<1>4. CASE Take(o)
  <2>1. op[o].pc = "queued" /\ UNCHANGED entry /\ ~Inside
    BY <1>2, <1>4 DEF Take, At, admission
  <2>2. CASE quiescing
    BY <1>3, <1>4, <2>1, <2>2 DEF Take, Ends
  <2>3. CASE ~quiescing
    <3>1. Goes(o, "opening") /\ lock' = Append(lock, "operation")
      BY <1>4, <2>3 DEF Take
    <3>2. IsQueueOf(queue', Ops, UnderWay') /\ Attempts' /\ Inside'
      BY <1>1, <3>1, GoesQueue DEF Goes, InFlight
    <3>3. /\ "operation" \in Users /\ "operation" \notin LockUsers
          /\ LockUsers' = LockUsers \cup {"operation"}
      BY <2>1, <3>2 DEF LockUsers, Users
    <3> QED
      BY <3>1, <3>2, <3>3, QueueAppend DEF WorkInv
  <2> QED
    BY <2>2, <2>3
<1>5. ASSUME Holds("operation"), UNCHANGED entry, lock' = Tail(lock),
             NEW issued, Opened(o, issued)
      PROVE  WorkInv'
  <2>1. CASE Leaves(o)
    BY <1>3, <1>5, <2>1
  <2>2. CASE Goes(o, "sending")
    <3>1. IsQueueOf(queue', Ops, UnderWay') /\ Attempts' /\ ~Inside'
      BY <1>1, <2>2, GoesQueue DEF Goes, InFlight
    <3> QED
      BY <1>5, <3>1, LocksKept
  <2>3. Leaves(o) \/ Goes(o, "sending")
    BY <1>5, Zenon DEF Opened, Ends
  <2> QED
    BY <2>1, <2>2, <2>3
<1>6. CASE OpenExisting(o)
  BY <1>5, <1>6 DEF OpenExisting, Opening, admission
<1>7. CASE Handshake(o)
  <2>1. /\ Holds("operation") /\ lock' = Tail(lock) /\ UNCHANGED entry
        /\ \E issued : Opened(o, issued)
    BY <1>7 DEF Handshake, Opening, admission
  <2> QED
    BY <1>5, <2>1
<1>8. CASE HandshakeRejected(o)
  BY <1>3, <1>8 DEF HandshakeRejected, Opening, admission
<1>9. CASE OpenFails(o)
  BY <1>1, <1>9, RetriesQueue DEF OpenFails, Opening, At, InFlight, admission
<1>10. CASE Sent(o) \/ SendRejected(o)
  BY <1>2, <1>3, <1>10 DEF Sent, SendRejected, At, Ends, admission
<1>11. CASE SendFails(o)
  BY <1>1, <1>2, <1>11, RetriesQueue DEF SendFails, At, InFlight, admission
<1>12. CASE Reset(o)
  <2>1. /\ op' = [op EXCEPT ![o].pc = "opening", ![o].attempt = 1]
        /\ Holds("operation") /\ lock' = Append(Tail(lock), "operation")
        /\ UNCHANGED <<queue, entry>>
    BY <1>12 DEF Reset, Resetting, admission
  <2>2. IsQueueOf(queue', Ops, UnderWay') /\ Attempts' /\ Inside'
    BY <1>1, <2>1, GoesQueue DEF InFlight
  <2> QED
    BY <2>1, <2>2, LockLeft DEF WorkInv
<1>13. CASE ResetFails(o)
  BY <1>3, <1>13 DEF ResetFails, Resetting, Ends, admission
<1> QED
  BY <1>4, <1>6, <1>7, <1>8, <1>9, <1>10, <1>11, <1>12, <1>13 DEF OpStep

\* The others: a command that queues, a cancellation, the entry.
LEMMA WorkStep ==
  ASSUME IInv, WorkInv, [Next]_vars
  PROVE  WorkInv'
<1>1. op \in [Ops -> OpState]
  BY DEF IInv, TypeOK, OpState
<1>2. ASSUME NEW o \in Ops, Command(o) PROVE WorkInv'
  <2>1. /\ op'[o].pc = "queued" /\ op[o] = NoOp /\ op'[o].attempt = 0
        /\ \A a \in Ops : a # o => op'[a] = op[a]
    BY <1>1, <1>2 DEF Command, WorkInv, Attempts, NoOp
  <2>2. UnderWay' = UnderWay \cup {o} /\ o \notin UnderWay
    BY <2>1 DEF UnderWay, NoOp
  <2>3. IsQueueOf(queue', Ops, UnderWay')
    BY <1>2, <2>2, QueueAppend DEF Command, WorkInv
  <2>4. Attempts' /\ (Inside' <=> Inside)
    BY <2>1 DEF WorkInv, Attempts, Inside, NoOp
  <2> QED
    BY <1>2, <2>3, <2>4, LocksKept DEF Command, admission
<1>3. ASSUME NEW o \in Ops, op' = [op EXCEPT ![o].cancelled = TRUE],
             op[o].pc # "idle", UNCHANGED queue
      PROVE  /\ IsQueueOf(queue', Ops, UnderWay') /\ Attempts'
             /\ Inside' <=> Inside
  <2>1. /\ \A a \in Ops : op'[a].pc = op[a].pc /\ op'[a].attempt = op[a].attempt
        /\ \A a \in Ops : a # o => op'[a] = op[a]
    BY <1>1, <1>3 DEF OpState
  <2>2. UnderWay' = UnderWay /\ (Inside' <=> Inside) /\ Attempts'
    BY <1>3, <2>1 DEF UnderWay, Inside, WorkInv, Attempts
  <2> QED
    BY <1>3, <2>2 DEF WorkInv
<1>4. ASSUME NEW o \in Ops, Cancel(o) PROVE WorkInv'
  BY <1>3, <1>4, LocksKept DEF Cancel, InFlight, admission
<1>5. ASSUME NEW o \in Ops, CancelQueued(o) PROVE WorkInv'
  <2>1. \A a \in Ops : op'[a] = IF a = o THEN NoOp ELSE op[a]
    BY <1>1, <1>5 DEF CancelQueued
  <2>2. UnderWay' = UnderWay \ {o}
    BY <2>1 DEF UnderWay, NoOp
  <2>3. IsQueueOf(queue', Ops, UnderWay')
    BY <1>5, <2>2, QueueRemoved DEF CancelQueued, WorkInv
  <2>4. Attempts' /\ (Inside' <=> Inside)
    BY <1>5, <2>1 DEF CancelQueued, WorkInv, Attempts, Inside, NoOp
  <2> QED
    BY <1>5, <2>3, <2>4, LocksKept DEF CancelQueued, admission
<1>6. ASSUME NEW o \in Ops, EndsCancelled(o) PROVE WorkInv'
  <2>1. /\ queue # <<>> /\ Head(queue) = o /\ Leaves(o) /\ UNCHANGED entry
        /\ Inside <=> op[o].pc # "sending"
    BY <1>6 DEF EndsCancelled, Ends, IInv, HeadInv, Inside, InFlight, admission
  <2>2. IsQueueOf(queue', Ops, UnderWay') /\ Attempts' /\ ~Inside'
    BY <2>1, LeavesQueue
  <2>3. CASE op[o].pc = "sending"
    BY <1>6, <2>1, <2>2, <2>3, LocksKept DEF EndsCancelled
  <2>4. CASE op[o].pc # "sending"
    <3>1. LockUsers' = LockUsers \ {"operation"}
      BY <2>1, <2>2, <2>4 DEF LockUsers
    <3>2. IsQueueOf(lock', Users, LockUsers \ {"operation"})
      BY <1>6, <2>4, QueueRemoved DEF EndsCancelled, WorkInv
    <3> QED
      BY <2>2, <3>1, <3>2 DEF WorkInv
  <2> QED
    BY <2>3, <2>4
<1>7. ASSUME UNCHANGED <<queue, op>>
      PROVE  /\ IsQueueOf(queue', Ops, UnderWay') /\ Attempts'
             /\ Inside' <=> Inside
  BY <1>7 DEF WorkInv, UnderWay, Attempts, Inside
<1>8. ASSUME UNCHANGED lock, (entry' = "stopping") <=> (entry = "stopping"),
             IsQueueOf(queue', Ops, UnderWay'), Attempts', Inside' <=> Inside
      PROVE  WorkInv'
  BY <1>8 DEF WorkInv, LockUsers
<1>9. CASE SetupSucceeds \/ SetupFails \/ UnloadBegins \/ UnloadFails
           \/ PlatformsUnload \/ DrainEnds
  BY <1>7, <1>8, <1>9 DEF SetupSucceeds, SetupFails, UnloadBegins, UnloadFails,
     PlatformsUnload, DrainEnds, StopBegins
<1>10. CASE DrainCancels
  <2>1. target \in Ops /\ op[target].pc # "idle"
    BY <1>10 DEF DrainCancels, Drained
  <2> QED
    BY <1>3, <1>8, <1>10, <2>1 DEF DrainCancels
<1>11. CASE StopDrains
  <2>1. "stop" \in Users /\ "stop" \notin LockUsers
    BY <1>11 DEF StopDrains, LockUsers, Users
  <2>2. LockUsers' = LockUsers \cup {"stop"}
    BY <1>7, <1>11 DEF StopDrains, LockUsers
  <2> QED
    BY <1>7, <1>11, <2>1, <2>2, QueueAppend DEF StopDrains, WorkInv
<1>12. CASE StopEnds
  <2>1. LockUsers' = LockUsers \ {"stop"}
    BY <1>7, <1>12 DEF StopEnds, LockUsers
  <2>2. IsQueueOf(lock', Users, LockUsers \ {"stop"})
    BY <1>12, QueueRemoved DEF StopEnds, WorkInv
  <2> QED
    BY <1>7, <1>12, <2>1, <2>2 DEF StopEnds, WorkInv
<1>13. CASE Heartbeat \/ Drops \/ UNCHANGED vars
  BY <1>7, <1>8, <1>13 DEF Heartbeat, Drops, vars, admission
<1> QED
  BY <1>2, <1>4, <1>5, <1>6, <1>9, <1>10, <1>11, <1>12, <1>13, OpStepWork
     DEF Next, StopStep

LEMMA WorkHolds == Spec => [](IInv /\ WorkInv)
<1>1. Init => WorkInv
  <2> SUFFICES ASSUME Init PROVE WorkInv
    OBVIOUS
  <2>1. queue = <<>> /\ lock = <<>> /\ entry = "setup"
        /\ \A o \in Ops : op[o] = NoOp
    BY DEF Init
  <2>2. UnderWay = {} /\ ~Inside /\ Attempts
    BY <2>1 DEF UnderWay, Inside, Attempts, NoOp
  <2>3. LockUsers = {}
    BY <2>1, <2>2 DEF LockUsers
  <2> QED
    BY <2>1, <2>2, <2>3 DEF WorkInv, IsQueueOf
<1> QED
  BY <1>1, InitIInv, NextIInv, WorkStep, PTL DEF Spec

\* Nobody waits for a lock that nobody will give up: while an operation is
\* under way one of them has the operation lock, and if it waits for the
\* lifecycle lock then it is its own turn or that of a stop, which is about to
\* conclude; and a stop finds its place in that lock when it does.
LocksAreServed ==
  /\ \A o \in Ops : op[o].pc # "idle" =>
       /\ queue # <<>>
       /\ op[Head(queue)].pc \in {"queued", "sending"}
            \/ Holds("operation") \/ (Holds("stop") /\ entry = "stopping")
  /\ entry = "stopping" => \E i \in DOMAIN lock : lock[i] = "stop"

\* The safety half of OperationsEnd, for any number of operations: they never
\* wait for each other, whatever was cancelled while it waited.
THEOREM RemoteLocksAreServed == Spec => []LocksAreServed
<1>1. ASSUME IInv, WorkInv PROVE LocksAreServed
  <2>1. ASSUME NEW o \in Ops, op[o].pc # "idle"
        PROVE  queue # <<>> /\ Head(queue) \in UnderWay
    <3>1. PICK i \in 1..Len(queue) : queue[i] = o
      BY <1>1, <2>1 DEF WorkInv, IsQueueOf, UnderWay
    <3>2. queue \in Seq(Ops) /\ 1 \in 1..Len(queue) /\ Head(queue) = queue[1]
      BY <1>1, <3>1 DEF WorkInv, IsQueueOf
    <3> QED
      BY <1>1, <3>2 DEF WorkInv, IsQueueOf
  <2>2. ASSUME NEW h \in UnderWay, op[h].pc \notin {"queued", "sending"}
        PROVE  Holds("operation") \/ (Holds("stop") /\ entry = "stopping")
    <3>1. "operation" \in LockUsers
      BY <1>1, <2>2 DEF UnderWay, Inside, LockUsers, IInv, TypeOK, InFlight
    <3>2. PICK i \in 1..Len(lock) : lock[i] = "operation"
      BY <1>1, <3>1 DEF WorkInv, IsQueueOf
    <3>3. lock # <<>> /\ 1 \in 1..Len(lock) /\ Head(lock) = lock[1]
      BY <1>1, <3>2 DEF WorkInv, IsQueueOf
    <3>4. Head(lock) \in LockUsers
      BY <1>1, <3>3 DEF WorkInv, IsQueueOf
    <3> QED
      BY <3>3, <3>4 DEF LockUsers, Holds
  <2>3. ASSUME entry = "stopping" PROVE \E i \in DOMAIN lock : lock[i] = "stop"
    <3>1. "stop" \in LockUsers
      BY <2>3 DEF LockUsers
    <3> QED
      BY <1>1, <3>1 DEF WorkInv, IsQueueOf
  <2> QED
    BY <2>1, <2>2, <2>3 DEF LocksAreServed
<1> QED
  BY <1>1, WorkHolds, PTL

\* How many phases an operation has before it at most.
Left(r) ==
  CASE r.pc = "idle" -> 0
    [] r.pc = "queued" -> 6
    [] r.pc = "opening" -> IF r.attempt = 0 THEN 5 ELSE 2
    [] r.pc = "sending" -> IF r.attempt = 0 THEN 4 ELSE 1
    [] r.pc = "resetting" -> 3

LEMMA LeftValues ==
  ASSUME NEW r
  PROVE  /\ r.pc = "idle" => Left(r) = 0
         /\ r.pc = "queued" => Left(r) = 6
         /\ r.pc = "opening" => Left(r) = IF r.attempt = 0 THEN 5 ELSE 2
         /\ r.pc = "sending" => Left(r) = IF r.attempt = 0 THEN 4 ELSE 1
         /\ r.pc = "resetting" => Left(r) = 3
BY DEF Left

\* An operation goes through its phases once, apart from one retry: a step
\* leaves an operation under way as it is, cancels it or takes it further.
OneRetry ==
  [][\A o \in Ops : op[o].pc # "idle" =>
       \/ op'[o] = op[o] \/ op'[o] = [op[o] EXCEPT !.cancelled = TRUE]
       \/ Left(op'[o]) < Left(op[o])]_vars

\* The other half of OperationsEnd: an operation takes six steps at most,
\* whatever fails and whoever else is at work.
THEOREM RemoteOneRetry == Spec => OneRetry
<1>1. ASSUME IInv, WorkInv, [Next]_vars
      PROVE  [\A o \in Ops : op[o].pc # "idle" =>
                \/ op'[o] = op[o] \/ op'[o] = [op[o] EXCEPT !.cancelled = TRUE]
                \/ Left(op'[o]) < Left(op[o])]_vars
  <2> SUFFICES ASSUME Next, NEW o \in Ops, op[o].pc # "idle", op'[o] # op[o]
               PROVE  \/ op'[o] = [op[o] EXCEPT !.cancelled = TRUE]
                      \/ Left(op'[o]) < Left(op[o])
    BY <1>1
  <2>1. op \in [Ops -> OpState] /\ op[o] \in OpState
    BY <1>1 DEF IInv, TypeOK, OpState
  <2>2. op[o].pc \in {"queued", "resetting"} => op[o].attempt = 0
    BY <1>1 DEF WorkInv, Attempts
  <2>3. ASSUME op'[o] = NoOp PROVE Left(op'[o]) < Left(op[o])
    BY <2>1, <2>3 DEF Left, NoOp, OpState, InFlight
  <2>4. ASSUME NEW a \in Ops, OpStep(a)
        PROVE  Left(op'[o]) < Left(op[o])
    <3>1. op[a].pc # "idle" /\ (a # o => op'[o] = op[o])
      BY <2>1, <2>4 DEF OpStep, Take, OpenExisting, Handshake, HandshakeRejected,
         OpenFails, Sent, SendRejected, SendFails, Reset, ResetFails, Opening,
         Resetting, At, Opened, Retries, Ends, Goes, Leaves
    <3>2. a = o
      BY <3>1
    <3>3. \/ op'[o] = NoOp
          \/ op[o].pc = "queued" /\ op' = [op EXCEPT ![o].pc = "opening"]
          \/ op[o].pc = "opening" /\ op' = [op EXCEPT ![o].pc = "sending"]
          \/ /\ op[o].pc \in {"opening", "sending"} /\ op[o].attempt = 0
             /\ op' = [op EXCEPT ![o].pc = "resetting"]
          \/ /\ op[o].pc = "resetting"
             /\ op' = [op EXCEPT ![o].pc = "opening", ![o].attempt = 1]
      BY <2>1, <2>4, <3>2 DEF OpStep, Take, OpenExisting, Handshake,
         HandshakeRejected, OpenFails, Sent, SendRejected, SendFails, Reset,
         ResetFails, Opening, Resetting, At, Opened, Retries, Ends, Goes, Leaves
    <3>4. \/ op'[o] = NoOp
          \/ /\ op[o].pc = "queued" /\ op[o].attempt = 0
             /\ op'[o].pc = "opening" /\ op'[o].attempt = 0
          \/ /\ op[o].pc = "opening" /\ op'[o].pc = "sending"
             /\ op'[o].attempt = op[o].attempt
          \/ /\ op[o].pc \in {"opening", "sending"} /\ op[o].attempt = 0
             /\ op'[o].pc = "resetting"
          \/ /\ op[o].pc = "resetting"
             /\ op'[o].pc = "opening" /\ op'[o].attempt = 1
      BY <2>1, <2>2, <3>3 DEF OpState
    <3> QED
      BY <2>1, <2>3, <3>4, LeftValues
  <2>5. CASE \E a \in Ops : Command(a)
    BY <2>1, <2>5 DEF Command
  <2>6. CASE \E a \in Ops : Cancel(a) \/ (DrainCancels /\ target = a)
    BY <2>1, <2>6 DEF Cancel, DrainCancels
  <2>7. CASE \E a \in Ops : CancelQueued(a) \/ EndsCancelled(a)
    BY <2>1, <2>3, <2>7 DEF CancelQueued, EndsCancelled, Ends, Leaves
  <2>8. CASE DrainCancels
    <3>1. target \in Ops
      BY <2>8 DEF DrainCancels, Drained
    <3> QED
      BY <2>6, <2>8, <3>1
  <2>9. CASE UNCHANGED op
    BY <2>9
  <2>10. \/ \E a \in Ops : OpStep(a) \/ Command(a) \/ Cancel(a)
         \/ \E a \in Ops : CancelQueued(a) \/ EndsCancelled(a)
         \/ DrainCancels \/ UNCHANGED op
    BY DEF Next, SetupSucceeds, SetupFails, UnloadBegins, UnloadFails,
       PlatformsUnload, StopStep, StopBegins, DrainEnds, StopDrains, StopEnds,
       Heartbeat, Drops
  <2> QED
    BY <2>4, <2>5, <2>6, <2>7, <2>8, <2>9, <2>10
<1> QED
  BY <1>1, WorkHolds, PTL DEF Spec, OneRetry
===============================================================================
