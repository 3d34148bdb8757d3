---------------------------- MODULE ArtSessionProof ----------------------------
(***************************************************************************)
(* Proofs about ArtSession for every number of operations, every schedule  *)
(* of delays and every bound.                                              *)
(***************************************************************************)
EXTENDS ArtSession, TLAPS

-------------------------------------------------------------------------------
(* The retry policy *)

\* A generic failure leaves a typed record, a positive wait, and what is known
\* about the Art host alone.
LEMMA GenericFailureFacts ==
  ASSUME NEW r \in Retries, NEW s \in GenericFailure(r)
  PROVE  s \in Retries /\ s.wait > 0 /\ s.answers = r.answers
<1> DEFINE n == Smaller(r.failures + 1, Len(RetryDelays))
<1>1. n \in 1..Len(RetryDelays) /\ n \in Nat
  BY DelayAssumption DEF Smaller, Retries, Positive
<1>2. RetryDelays[n] \in Nat
  BY <1>1, DelayAssumption DEF Positive
<1>3. PICK x \in Jittered(RetryDelays[n]) :
        s = [r EXCEPT !.failures = n, !.hostFailures = 0, !.wait = x]
  BY DEF GenericFailure
<1>4. x \in Nat /\ x > 0
  BY <1>2, <1>3 DEF Jittered
<1> HIDE DEF n
<1> QED
  BY <1>1, <1>3, <1>4 DEF Retries

\* The same of a hostless answer.
LEMMA HostlessFailureFacts ==
  ASSUME NEW r \in Retries, NEW s \in HostlessFailure(r)
  PROVE  s \in Retries /\ s.wait > 0 /\ s.answers = r.answers
<1> DEFINE n == Smaller(r.failures + 1, Len(RetryDelays))
           h == Smaller(r.hostFailures + 1, HostFaultAnswers)
           k == Smaller(h, Len(HostRetryDelays))
           delays == IF h = HostFaultAnswers THEN {DormantDelay}
                     ELSE Jittered(HostRetryDelays[k])
<1>1. n \in Nat
  BY DelayAssumption DEF Smaller, Retries, Positive
<1>2. h \in 1..HostFaultAnswers
  BY BoundAssumption DEF Smaller, Retries, Positive
<1>3. k \in 1..Len(HostRetryDelays)
  BY <1>2, DelayAssumption DEF Smaller, Positive
<1>4. HostRetryDelays[k] \in Nat
  BY <1>3, DelayAssumption DEF Positive
<1>5. PICK x \in delays :
        s = [r EXCEPT !.failures = n, !.hostFailures = h,
                      !.unavailable = TRUE, !.wait = x]
  BY DEF HostlessFailure
<1> HIDE DEF n, h, k
<1>6. x \in Nat /\ x > 0
  <2>1. CASE h = HostFaultAnswers
    BY <2>1, <1>5, DelayAssumption DEF Positive
  <2>2. CASE h # HostFaultAnswers
    BY <2>2, <1>4, <1>5 DEF Jittered
  <2> QED BY <2>1, <2>2
<1>7. h \in Nat
  BY <1>2, BoundAssumption DEF Positive
<1> HIDE DEF delays
<1> QED
  BY <1>1, <1>5, <1>6, <1>7 DEF Retries

\* Resetting and counting keep the record typed.
LEMMA ResetFacts ==
  ASSUME NEW r \in Retries
  PROVE  /\ Reset(r) \in Retries
         /\ EdgeReset(r) \in Retries
         /\ EdgeReset(r).wait = 0 /\ EdgeReset(r).answers = 0
         /\ NoteConnected(r) \in Retries
         /\ NoteConnected(r).answers = 0
BY DEF Reset, EdgeReset, NoteConnected, Retries

\* An attempt that is answered is counted once.
LEMMA CountAnswerFacts ==
  ASSUME NEW r \in Retries
  PROVE  /\ CountAnswer(r) \in Retries
         /\ CountAnswer(r).answers =< r.answers + 1
         /\ CountAnswer(r).answers =< HostFaultAnswers
<1>1. Smaller(r.answers + 1, HostFaultAnswers) \in 0..HostFaultAnswers
  BY BoundAssumption DEF Smaller, Retries, Positive
<1>2. Smaller(r.answers + 1, HostFaultAnswers) =< r.answers + 1
  BY BoundAssumption DEF Smaller, Retries, Positive
<1> QED
  BY <1>1, <1>2 DEF CountAnswer, Retries

-------------------------------------------------------------------------------
(* Type correctness *)

\* Leaving the queue of the lock keeps it a queue, and keeps its head unless
\* it is the head that leaves.
LEMMA RemoveAtFacts ==
  ASSUME NEW S, NEW q \in Seq(S), NEW i \in DOMAIN q
  PROVE  /\ RemoveAt(q, i) \in Seq(S)
         /\ i # 1 => RemoveAt(q, i) # <<>> /\ Head(RemoveAt(q, i)) = Head(q)
<1>1. i \in 1..Len(q) /\ Len(q) \in Nat
  OBVIOUS
<1>2. SubSeq(q, 1, i-1) \in Seq(S) /\ SubSeq(q, i+1, Len(q)) \in Seq(S)
  BY <1>1
<1>3. ASSUME i # 1
      PROVE  Len(SubSeq(q, 1, i-1)) > 0 /\ SubSeq(q, 1, i-1)[1] = q[1]
  BY <1>1, <1>3
<1> QED
  BY <1>1, <1>2, <1>3 DEF RemoveAt

\* Scheduling a close keeps the queue and the close task typed.
LEMMA ScheduleCloseType ==
  ASSUME TypeOK, NEW queue \in Seq(Actors), NEW force \in BOOLEAN,
         ScheduleClose(queue, force)
  PROVE  /\ closeTask' \in {"none", "queued", "draining", "done"}
         /\ lock' \in Seq(Actors)
<1>1. Append(queue, "close") \in Seq(Actors)
  BY DEF Actors
<1>2. \/ closeTask' = "queued" /\ lock' = Append(queue, "close")
      \/ closeTask' = closeTask /\ lock' = queue
  BY Zenon DEF ScheduleClose
<1> QED
  BY <1>1, <1>2 DEF TypeOK

\* A session that has not been started is typed.
LEMMA TypeInit == Init => TypeOK
<1>1. 0 \in 0..HostFaultAnswers
  BY BoundAssumption DEF Positive
<1> SUFFICES ASSUME Init PROVE TypeOK
  OBVIOUS
<1>2. retry \in Retries
  BY <1>1 DEF Init, Retries
<1>3. op \in [Ops -> {"idle", "joining", "running", "queued", "draining",
                     "failed", "reporting"}]
  BY DEF Init
<1>4. age \in 0..HostFaultAnswers
  BY <1>1 DEF Init
<1>5. connect \in [pc : {"idle", "opening", "handshake", "closing"},
                  evidence : BOOLEAN, cancelled : BOOLEAN]
  BY DEF Init, NoConnect
<1>6. lock \in Seq(Actors)
  BY DEF Init
<1>7. state \in States /\ started \in BOOLEAN /\ terminal \in BOOLEAN
      /\ reachable \in BOOLEAN
  BY Zenon DEF Init, States
<1>8. /\ generation = 0 /\ closeTask = "none" /\ stopTask = "none"
      /\ socket = 0 /\ receiver = 0 /\ probes = 0
      /\ tv \in {"off", "hostless", "on"}
  BY Zenon DEF Init
<1> QED
  BY <1>2, <1>3, <1>4, <1>5, <1>6, <1>7, <1>8 DEF TypeOK

\* Every step keeps the types.
LEMMA TypeStep == TypeOK /\ [Next]_vars => TypeOK'
<1> SUFFICES ASSUME TypeOK, [Next]_vars PROVE TypeOK'
  OBVIOUS
<1> USE DEF TypeOK, States, policy, transport, world
<1>a. "connect" \in Actors /\ "close" \in Actors /\ Ops \subseteq Actors
  BY DEF Actors
<1>b. lock # <<>> => Tail(lock) \in Seq(Actors)
  OBVIOUS
<1>c. \A from : \A to \in {"idle", "running"} :
        Joined(from, to) \in [Ops -> {"idle", "joining", "running", "queued",
                                     "draining", "failed", "reporting"}]
  BY DEF Joined
<1>d. \A r \in Retries : GenericFailure(r) \subseteq Retries
  BY GenericFailureFacts
<1>e. \A r \in Retries : HostlessFailure(r) \subseteq Retries
  BY HostlessFailureFacts
<1>f. \A i \in DOMAIN lock : RemoveAt(lock, i) \in Seq(Actors)
  BY RemoveAtFacts
<1>g. ASSUME NEW evidence \in BOOLEAN, ScheduleConnect(evidence)
      PROVE  /\ state' \in States /\ lock' \in Seq(Actors)
             /\ closeTask' \in {"none", "queued", "draining", "done"}
             /\ connect' \in [pc : {"idle", "opening", "handshake", "closing"},
                              evidence : BOOLEAN, cancelled : BOOLEAN]
  BY <1>a, <1>g DEF ScheduleConnect
<1>h. ASSUME Connected, lock # <<>>
      PROVE  /\ generation' \in Nat /\ retry' \in Retries /\ state' \in States
             /\ connect' \in [pc : {"idle", "opening", "handshake", "closing"},
                              evidence : BOOLEAN, cancelled : BOOLEAN]
             /\ lock' \in Seq(Actors)
             /\ op' \in [Ops -> {"idle", "joining", "running", "queued", "draining",
                                 "failed", "reporting"}]
             /\ UNCHANGED <<started, terminal, closeTask, stopTask, world>>
  BY <1>b, <1>c, <1>h, ResetFacts DEF Connected, NoConnect
<1>i. ASSUME NEW queue \in Seq(Actors), GiveUp(queue)
      PROVE  /\ connect' \in [pc : {"idle", "opening", "handshake", "closing"},
                              evidence : BOOLEAN, cancelled : BOOLEAN]
             /\ lock' \in Seq(Actors)
             /\ closeTask' \in {"none", "queued", "draining", "done"}
             /\ UNCHANGED <<started, terminal, generation, stopTask, op, world>>
  <2>1. (terminal /\ closeTask = "done") \in BOOLEAN
    OBVIOUS
  <2> QED
    BY <1>i, <2>1, ScheduleCloseType DEF GiveUp
<1>j. FALSE \in BOOLEAN /\ TRUE \in BOOLEAN
  OBVIOUS
<1>1. CASE Start
  <2>1. retry' \in Retries
    BY <1>1, ResetFacts DEF Start, Retries
  <2> QED
    BY <1>1, <2>1 DEF Start
<1>2. ASSUME NEW r \in BOOLEAN, NEW eligible \in BOOLEAN, Heartbeat(r, eligible)
      PROVE  TypeOK'
  <2> DEFINE edge == r /\ ~reachable
             base == IF edge THEN EdgeReset(retry) ELSE retry
  <2>1. base \in Retries
    BY ResetFacts
  <2>2. 0 \in 0..HostFaultAnswers
    BY BoundAssumption DEF Positive
  <2>3. age' \in 0..HostFaultAnswers /\ reachable' \in BOOLEAN
    BY <1>2, <2>2 DEF Heartbeat
  <2>4. probes' \in 0..2
    BY <1>2 DEF Heartbeat, Smaller
  <2>5. UNCHANGED <<started, terminal, generation, stopTask, socket, receiver, op, tv>>
    BY <1>2 DEF Heartbeat
  <2>6. /\ retry' \in Retries /\ state' \in States /\ lock' \in Seq(Actors)
        /\ closeTask' \in {"none", "queued", "draining", "done"}
        /\ connect' \in [pc : {"idle", "opening", "handshake", "closing"},
                         evidence : BOOLEAN, cancelled : BOOLEAN]
    <3> HIDE DEF base
    <3>1. CASE retry' \in GenericFailure(base) /\ ScheduleConnect(FALSE)
      BY <3>1, <2>1, <1>d, <1>g
    <3>2. CASE RecordGeneric(base) /\ UNCHANGED <<connect, closeTask, lock>>
      BY <3>2, <2>1, <1>d DEF RecordGeneric
    <3>3. CASE retry' = base /\ ScheduleConnect(TRUE)
      BY <3>3, <2>1, <1>g
    <3>4. CASE retry' = base /\ UNCHANGED <<state, connect, closeTask, lock>>
      BY <3>4, <2>1
    <3> QED
      BY <1>2, <3>1, <3>2, <3>3, <3>4 DEF Heartbeat, base
  <2> QED
    BY <2>3, <2>4, <2>5, <2>6
<1>3. ASSUME NEW o \in Ops, Operate(o)
      PROVE  TypeOK'
  <2>1. (retry.wait = 0) \in BOOLEAN
    OBVIOUS
  <2>2. CASE ScheduleConnect(retry.wait = 0) /\ op' = [op EXCEPT ![o] = "joining"]
    BY <1>3, <2>1, <2>2, <1>g DEF Operate
  <2>3. CASE UNCHANGED <<state, connect, closeTask, lock>>
    BY <1>3, <2>3 DEF Operate
  <2> QED
    BY <1>3, <2>2, <2>3 DEF Operate
<1>4. ASSUME NEW o \in Ops, Complete(o) \/ TimeOut(o) \/ Fail(o)
      PROVE  TypeOK'
  <2>1. lock' \in Seq(Actors)
    BY <1>4, <1>a DEF Complete, TimeOut, Fail
  <2>2. op' \in [Ops -> {"idle", "joining", "running", "queued", "draining",
                        "failed", "reporting"}]
    BY <1>4 DEF Complete, TimeOut, Fail
  <2>3. UNCHANGED <<policy, connect, closeTask, stopTask, transport, world>>
    BY <1>4 DEF Complete, TimeOut, Fail
  <2> QED
    BY <2>1, <2>2, <2>3
<1>5. ASSUME NEW o \in Ops, ReportFailure(o)
      PROVE  TypeOK'
  <2>1. CASE started
    <3>1. retry' \in Retries /\ state' \in States
      BY <1>5, <2>1, <1>d DEF ReportFailure, RecordGeneric
    <3>2. closeTask' \in {"none", "queued", "draining", "done"} /\ lock' \in Seq(Actors)
      BY <1>5, <2>1, <1>j, ScheduleCloseType DEF ReportFailure
    <3> QED
      BY <1>5, <2>1, <3>1, <3>2 DEF ReportFailure
  <2>2. CASE ~started
    BY <1>5, <2>2 DEF ReportFailure
  <2> QED
    BY <2>1, <2>2
<1>6. CASE OpenExisting
  BY <1>6, <1>h DEF OpenExisting, Opening, Holds
<1>7. CASE OpenRefused
  <2>1. retry' \in Retries
    BY <1>7, DelayAssumption DEF OpenRefused, Retries, Positive
  <2> QED
    BY <1>7, <2>1, <1>b, <1>c DEF OpenRefused, Opening, Holds, NoConnect
<1>8. CASE OpenHandshake
  BY <1>8 DEF OpenHandshake
<1>9. CASE HandshakeSucceeds
  BY <1>9, <1>h DEF HandshakeSucceeds, Handshaking, Holds
<1>10. CASE HandshakeFails
  BY <1>10, <1>b, <1>d, <1>i DEF HandshakeFails, Handshaking, Holds, RecordGeneric
<1>11. CASE HandshakeHostless
  <2>1. (IF connect.evidence THEN CountAnswer(retry) ELSE retry) \in Retries
    BY CountAnswerFacts
  <2>2. retry' \in Retries /\ state' \in States
    BY <1>11, <2>1, <1>e DEF HandshakeHostless, RecordHostless
  <2> QED
    BY <1>11, <2>2, <1>b, <1>i DEF HandshakeHostless, Handshaking, Holds
<1>12. CASE ReceiverDoesNotStart
  <2>1. lock # <<>> /\ GiveUp(Tail(lock))
    BY <1>12 DEF ReceiverDoesNotStart, Handshaking, Holds
  <2>2. retry' \in Retries /\ state' \in States /\ socket' = socket /\ receiver' \in Nat
    BY <1>12, <1>d DEF ReceiverDoesNotStart, RecordGeneric
  <2> QED
    BY <2>1, <2>2, <1>b, <1>i
<1>13. CASE ConnectCancelled
  <2>1. retry' \in Retries /\ state' \in States /\ UNCHANGED <<socket, receiver>>
    BY <1>13, <1>d DEF ConnectCancelled, RecordGeneric
  <2>2. PICK i \in DOMAIN lock : GiveUp(RemoveAt(lock, i))
    BY <1>13 DEF ConnectCancelled
  <2> QED
    BY <2>1, <2>2, <1>f, <1>i
<1>14. CASE ConnectFinishes
  BY <1>14, <1>c DEF ConnectFinishes, NoConnect
<1>15. ASSUME NEW c \in Ops \cup {"close"}, CloseDrops(c)
       PROVE  TypeOK'
  BY <1>15 DEF CloseDrops, CloseTo
<1>16. ASSUME NEW c \in Ops \cup {"close"}, CloseReleases(c)
       PROVE  TypeOK'
  <2>1. CASE c = "close"
    BY <1>16, <2>1, <1>b, <1>c DEF CloseReleases, CloseDone, Holds
  <2>2. CASE c # "close"
    BY <1>16, <2>2, <1>b DEF CloseReleases, Holds
  <2> QED
    BY <2>1, <2>2
<1>17. CASE CloseTimesOut
  <2>1. lock' \in Seq(Actors)
    BY <1>17, <1>f DEF CloseTimesOut
  <2> QED
    BY <1>17, <2>1, <1>c DEF CloseTimesOut, CloseDone
<1>18. CASE ReceiverEnds \/ Disconnect \/ TvChanges
  BY <1>18 DEF ReceiverEnds, Disconnect, TvChanges
<1>19. CASE StopBegins \/ CancelConnect
  <2>1. connect' \in [pc : {"idle", "opening", "handshake", "closing"},
                      evidence : BOOLEAN, cancelled : BOOLEAN]
    BY <1>19 DEF StopBegins, CancelConnect
  <2>2. CASE StopBegins
    BY <2>1, <2>2 DEF StopBegins
  <2>3. CASE CancelConnect
    BY <2>1, <2>3 DEF CancelConnect
  <2> QED
    BY <1>19, <2>2, <2>3
<1>20. CASE StopCloses
  BY <1>20, <1>j, ScheduleCloseType DEF StopCloses
<1>21. CASE StopFinishes
  BY <1>21 DEF StopFinishes
<1>22. CASE Tick
  <2>1. retry' \in Retries
    BY <1>22 DEF Tick, Retries
  <2>2. age' \in 0..HostFaultAnswers
    BY <1>22, BoundAssumption DEF Tick, Smaller, Positive
  <2> QED
    BY <1>22, <2>1, <2>2 DEF Tick
<1>23. CASE UNCHANGED vars
  BY <1>23 DEF vars
<1> QED
  BY <1>1, <1>2, <1>3, <1>4, <1>5, <1>6, <1>7, <1>8, <1>9, <1>10, <1>11, <1>12,
     <1>13, <1>14, <1>15, <1>16, <1>17, <1>18, <1>19, <1>20, <1>21, <1>22, <1>23
  DEF Next, OperationStep, ConnectStep, CloseStep, StopStep

\* Every variable keeps its type, for any number of operations and schedules of
\* any length: no number of failures reads past the end of its schedule, and the
\* queue of the lock holds tasks only.
THEOREM TypeCorrect == Spec => []TypeOK
<1>1. Init => TypeOK
  BY TypeInit
<1>2. TypeOK /\ [Next]_vars => TypeOK'
  BY TypeStep
<1> QED
  BY <1>1, <1>2, PTL DEF Spec
-------------------------------------------------------------------------------
(* One transport *)

Closers == Ops \cup {"close"}

\* Strengthening: a close that has dropped the socket holds the lock, and the
\* socket stays away until it lets the lock go.
FenceInv ==
  /\ OneTransport
  /\ \A c \in Closers : Draining(c) => Holds(c) /\ socket = 0

\* A step that leaves the transport alone, starts no handshake, lets no closer
\* past its drop and keeps the lock of one that drains keeps FenceInv.
LEMMA FenceKept ==
  ASSUME FenceInv, UNCHANGED <<socket, receiver>>,
         connect'.pc = "handshake" => connect.pc = "handshake",
         \A c \in Closers : Draining(c)' => Draining(c),
         \A c \in Closers : Draining(c) /\ Holds(c) => Holds(c)'
  PROVE  FenceInv'
BY DEF FenceInv, OneTransport

\* Queueing for the lock does not move its holder.
LEMMA HoldsAppend ==
  ASSUME lock \in Seq(Actors), NEW x \in Actors, NEW c, Holds(c),
         lock' = Append(lock, x)
  PROVE  Holds(c)'
BY DEF Holds

\* Nor does a waiter that leaves, perhaps with a close queued in its place.
LEMMA HoldsRemove ==
  ASSUME lock \in Seq(Actors), NEW i \in DOMAIN lock, NEW c, Holds(c), lock[i] # c,
         lock' \in {RemoveAt(lock, i), Append(RemoveAt(lock, i), "close")}
  PROVE  Holds(c)'
<1>1. i # 1
  BY DEF Holds
<1> DEFINE q == RemoveAt(lock, i)
<1>2. q \in Seq(Actors) /\ q # <<>> /\ Head(q) = Head(lock)
  BY <1>1, RemoveAtFacts
<1>3. "close" \in Actors
  BY DEF Actors
<1> HIDE DEF q
<1>4. lock' \in {q, Append(q, "close")}
  BY DEF q
<1> QED
  BY <1>2, <1>3, <1>4 DEF Holds

\* Nobody drains a close while the connect task holds the lock.
LEMMA NoDrainUnderConnect ==
  ASSUME FenceInv, Holds("connect")
  PROVE  \A c \in Closers : ~Draining(c)
BY OpsAssumption DEF FenceInv, Holds, Closers

\* Before the first connect there is nothing to fence.
LEMMA FenceInit == Init => FenceInv
BY DEF Init, FenceInv, OneTransport, Draining, Closers, NoConnect

\* Every step keeps the fence.
LEMMA FenceStep == TypeOK /\ FenceInv /\ [Next]_vars => FenceInv'
<1> SUFFICES ASSUME TypeOK, FenceInv, [Next]_vars PROVE FenceInv'
  OBVIOUS
<1> USE DEF policy, transport, world
<1>a. lock \in Seq(Actors) /\ "connect" \in Actors /\ "close" \in Actors
  BY DEF TypeOK, Actors
<1>b. op \in [Ops -> {"idle", "joining", "running", "queued", "draining",
                      "failed", "reporting"}]
  BY DEF TypeOK
<1>c. ASSUME NEW force \in BOOLEAN, ScheduleClose(lock, force)
      PROVE  /\ closeTask' = "draining" => closeTask = "draining"
             /\ \A c \in Closers : Holds(c) => Holds(c)'
  <2>1. \/ closeTask' = "queued" /\ lock' = Append(lock, "close")
        \/ closeTask' = closeTask /\ lock' = lock
    BY <1>c, Zenon DEF ScheduleClose
  <2> QED
    BY <2>1, <1>a, HoldsAppend DEF Holds
<1>d. ASSUME NEW evidence, ScheduleConnect(evidence)
      PROVE  /\ connect'.pc = "opening" /\ closeTask' = "none"
             /\ \A c \in Closers : Holds(c) => Holds(c)'
  BY <1>a, <1>d, HoldsAppend DEF ScheduleConnect
<1>e. FALSE \in BOOLEAN /\ TRUE \in BOOLEAN
  OBVIOUS
<1>f. ASSUME NEW from, NEW to \in {"idle", "running"}, op' = Joined(from, to)
      PROVE  \A o \in Ops : op'[o] = "draining" => op[o] = "draining"
  BY <1>f DEF Joined
<1>1. CASE Start \/ StopFinishes \/ Tick \/ TvChanges
  <2>1. UNCHANGED <<connect, closeTask, socket, receiver, lock, op>>
    BY <1>1 DEF Start, StopFinishes, Tick, TvChanges
  <2> QED
    BY <2>1, FenceKept DEF Draining, Holds
<1>2. ASSUME NEW r \in BOOLEAN, NEW eligible \in BOOLEAN, Heartbeat(r, eligible)
      PROVE  FenceInv'
  <2>1. UNCHANGED <<socket, receiver, op>>
    BY <1>2 DEF Heartbeat
  <2>2. \/ ScheduleConnect(FALSE)
        \/ ScheduleConnect(TRUE)
        \/ UNCHANGED <<connect, closeTask, lock>>
    BY <1>2 DEF Heartbeat
  <2> QED
    BY <2>1, <2>2, <1>d, FenceKept DEF Draining, Holds
<1>3. ASSUME NEW o \in Ops, Operate(o)
      PROVE  FenceInv'
  <2>1. UNCHANGED <<socket, receiver>>
    BY <1>3 DEF Operate
  <2>2. op' \in {[op EXCEPT ![o] = "running"], [op EXCEPT ![o] = "joining"]}
    BY <1>3 DEF Operate
  <2>3. ScheduleConnect(retry.wait = 0) \/ UNCHANGED <<connect, closeTask, lock>>
    BY <1>3 DEF Operate
  <2>4. \A p \in Ops : op'[p] = "draining" => op[p] = "draining"
    BY <2>2, <1>b
  <2> QED
    BY <2>1, <2>3, <2>4, <1>d, FenceKept DEF Draining, Holds, Closers
<1>4. ASSUME NEW o \in Ops, Complete(o) \/ TimeOut(o) \/ Fail(o)
      PROVE  FenceInv'
  <2>1. UNCHANGED <<socket, receiver, connect, closeTask>>
    BY <1>4 DEF Complete, TimeOut, Fail
  <2>2. lock' = Append(lock, o) \/ lock' = lock
    BY <1>4 DEF Complete, TimeOut, Fail
  <2>3. o \in Actors
    BY DEF Actors
  <2>4. \A c \in Closers : Holds(c) => Holds(c)'
    BY <2>2, <2>3, <1>a, HoldsAppend DEF Holds
  <2>5. \A p \in Ops : op'[p] = "draining" => op[p] = "draining"
    BY <1>4, <1>b DEF Complete, TimeOut, Fail
  <2> QED
    BY <2>1, <2>4, <2>5, FenceKept DEF Draining, Closers
<1>5. ASSUME NEW o \in Ops, ReportFailure(o)
      PROVE  FenceInv'
  <2>1. UNCHANGED <<socket, receiver, connect>>
    BY <1>5 DEF ReportFailure
  <2>2. op' \in {[op EXCEPT ![o] = "idle"], [op EXCEPT ![o] = "reporting"]}
    BY <1>5 DEF ReportFailure
  <2>3. ScheduleClose(lock, FALSE) \/ UNCHANGED <<closeTask, lock>>
    BY <1>5 DEF ReportFailure
  <2>4. \A p \in Ops : op'[p] = "draining" => op[p] = "draining"
    BY <2>2, <1>b
  <2>5. /\ closeTask' = "draining" => closeTask = "draining"
        /\ \A c \in Closers : Holds(c) => Holds(c)'
    BY <2>3, <1>c, <1>e DEF Holds
  <2> QED
    BY <2>1, <2>4, <2>5, FenceKept DEF Draining, Closers
<1>6. CASE OpenExisting \/ OpenRefused \/ HandshakeSucceeds
  <2>1. Holds("connect")
    BY <1>6 DEF OpenExisting, OpenRefused, HandshakeSucceeds, Opening, Handshaking
  <2>2. /\ connect' = NoConnect /\ closeTask' = closeTask
        /\ op' = Joined("joining", "idle") \/ op' = Joined("joining", "running")
    BY <1>6 DEF OpenExisting, OpenRefused, HandshakeSucceeds, Connected
  <2>3. \A c \in Closers : ~Draining(c)'
    BY <2>1, <2>2, <1>f, NoDrainUnderConnect DEF Draining, Closers
  <2>4. \/ UNCHANGED <<socket, receiver>>
        \/ receiver' = socket'
    BY <1>6 DEF OpenExisting, OpenRefused, HandshakeSucceeds
  <2> QED
    BY <2>2, <2>3, <2>4 DEF FenceInv, OneTransport, NoConnect
<1>7. CASE OpenHandshake
  <2>1. /\ UNCHANGED <<socket, receiver, closeTask, op, lock>>
        /\ socket = 0 /\ receiver = 0
    BY <1>7 DEF OpenHandshake
  <2> QED
    BY <2>1 DEF FenceInv, OneTransport, Draining, Holds
<1>8. CASE HandshakeFails \/ HandshakeHostless \/ ReceiverDoesNotStart
  <2>1. Holds("connect") /\ connect.pc = "handshake" /\ socket' = socket
    BY <1>8 DEF HandshakeFails, HandshakeHostless, ReceiverDoesNotStart, Handshaking
  <2>2. GiveUp(Tail(lock))
    BY <1>8 DEF HandshakeFails, HandshakeHostless, ReceiverDoesNotStart
  <2>3. closeTask' \in {closeTask, "queued"} /\ op' = op
    BY <2>2 DEF GiveUp, ScheduleClose
  <2>4. \A c \in Closers : ~Draining(c)'
    BY <2>1, <2>3, NoDrainUnderConnect DEF Draining
  <2>5. connect'.pc = "closing"
    BY <2>2 DEF GiveUp, TypeOK
  <2>6. socket' = 0
    BY <2>1 DEF FenceInv, OneTransport
  <2> QED
    BY <2>4, <2>5, <2>6 DEF FenceInv, OneTransport
<1>9. CASE ConnectCancelled
  <2>1. PICK i \in DOMAIN lock : lock[i] = "connect" /\ GiveUp(RemoveAt(lock, i))
    BY <1>9 DEF ConnectCancelled
  <2>2. /\ closeTask' \in {closeTask, "queued"} /\ op' = op
        /\ lock' \in {RemoveAt(lock, i), Append(RemoveAt(lock, i), "close")}
    BY <2>1 DEF GiveUp, ScheduleClose
  <2>3. connect'.pc = "closing" /\ UNCHANGED <<socket, receiver>>
    BY <1>9, <2>1 DEF ConnectCancelled, GiveUp, TypeOK
  <2>4. \A c \in Closers : Holds(c) => Holds(c)'
    <3> SUFFICES ASSUME NEW c \in Closers, Holds(c) PROVE Holds(c)'
      OBVIOUS
    <3>1. c # "connect"
      BY OpsAssumption DEF Closers
    <3> QED
      BY <2>1, <2>2, <3>1, <1>a, HoldsRemove
  <2> QED
    BY <2>2, <2>3, <2>4, FenceKept DEF Draining
<1>10. CASE ConnectFinishes
  <2>1. UNCHANGED <<socket, receiver, closeTask, lock>> /\ connect' = NoConnect
    BY <1>10 DEF ConnectFinishes
  <2>2. \A o \in Ops : op'[o] = "draining" => op[o] = "draining"
    BY <1>10, <1>f DEF ConnectFinishes
  <2> QED
    BY <2>1, <2>2, FenceKept DEF Draining, Holds, Closers, NoConnect
<1>11. ASSUME NEW c \in Closers, CloseDrops(c)
       PROVE  FenceInv'
  <2>1. UNCHANGED <<connect, receiver, lock>> /\ socket' = 0 /\ Holds(c)
    BY <1>11 DEF CloseDrops
  <2>2. \A d \in Closers : Draining(d)' => Draining(d) \/ d = c
    BY <1>11, <1>b DEF CloseDrops, CloseTo, Draining, Closers
  <2> QED
    BY <2>1, <2>2 DEF FenceInv, OneTransport, Holds
<1>12. ASSUME NEW c \in Closers, CloseReleases(c)
       PROVE  FenceInv'
  <2>1. /\ UNCHANGED <<connect, socket>> /\ receiver' \in {0, receiver}
        /\ Holds(c) /\ Draining(c)
    BY <1>12 DEF CloseReleases
  <2>2. \A d \in Closers : Draining(d)' => Draining(d) /\ d # c
    <3>1. CASE c = "close"
      <4>1. closeTask' = "done" /\ op' = Joined("reporting", "idle")
        BY <1>12, <3>1 DEF CloseReleases, CloseDone
      <4>2. \A o \in Ops : op'[o] = "draining" => op[o] = "draining"
        BY <4>1, <1>f
      <4> QED
        BY <3>1, <4>1, <4>2, OpsAssumption DEF Draining, Closers
    <3>2. CASE c # "close"
      BY <1>12, <3>2, <1>b, OpsAssumption DEF CloseReleases, Draining, Closers
    <3> QED
      BY <3>1, <3>2
  <2>3. \A d \in Closers : ~Draining(d)'
    BY <2>1, <2>2 DEF FenceInv, Holds
  <2> QED
    BY <2>1, <2>3 DEF FenceInv, OneTransport
<1>13. CASE CloseTimesOut
  <2>1. PICK i \in DOMAIN lock : lock[i] = "close" /\ lock' = RemoveAt(lock, i)
    BY <1>13 DEF CloseTimesOut
  <2>2. /\ UNCHANGED <<connect, socket, receiver>> /\ closeTask' = "done"
        /\ closeTask = "queued" /\ op' = Joined("reporting", "idle")
        /\ ~Holds("close")
    BY <1>13 DEF CloseTimesOut, CloseDone
  <2>3. \A c \in Closers : Holds(c) => Holds(c)'
    BY <2>1, <2>2, <1>a, HoldsRemove
  <2>4. \A o \in Ops : op'[o] = "draining" => op[o] = "draining"
    BY <2>2, <1>f
  <2> QED
    BY <2>2, <2>3, <2>4, FenceKept DEF Draining, Closers
<1>14. CASE ReceiverEnds \/ Disconnect
  <2>1. /\ UNCHANGED <<connect, closeTask, lock, op>>
        /\ socket' \in {socket, 0} /\ receiver' \in {receiver, 0}
        /\ socket' # 0 => receiver' = receiver \/ socket # receiver
    BY <1>14 DEF ReceiverEnds, Disconnect
  <2> QED
    BY <2>1 DEF FenceInv, OneTransport, Draining, Holds
<1>15. CASE StopBegins \/ CancelConnect
  <2>1. /\ UNCHANGED <<socket, receiver, closeTask, lock, op>>
        /\ connect'.pc = connect.pc
    BY <1>15 DEF StopBegins, CancelConnect, TypeOK
  <2> QED
    BY <2>1, FenceKept DEF Draining, Holds
<1>16. CASE StopCloses
  <2>1. UNCHANGED <<connect, socket, receiver, op>> /\ ScheduleClose(lock, FALSE)
    BY <1>16 DEF StopCloses
  <2> QED
    BY <2>1, <1>c, <1>e, FenceKept DEF Draining
<1>17. CASE UNCHANGED vars
  BY <1>17, FenceKept DEF vars, Draining, Holds
<1> QED
  BY <1>1, <1>2, <1>3, <1>4, <1>5, <1>6, <1>7, <1>8, <1>9, <1>10, <1>11, <1>12,
     <1>13, <1>14, <1>15, <1>16, <1>17
  DEF Next, OperationStep, ConnectStep, CloseStep, StopStep, Closers

\* At most one websocket and one handshake exist: no handshake is made while a
\* socket is open or an older receiver is left to fail the new one's waiters.
THEOREM OneTransportHolds == Spec => []OneTransport
<1>1. Init => TypeOK /\ FenceInv
  BY TypeInit, FenceInit
<1>2. TypeOK /\ FenceInv /\ [Next]_vars => (TypeOK /\ FenceInv)'
  BY TypeStep, FenceStep
<1>3. FenceInv => OneTransport
  BY DEF FenceInv
<1> QED
  BY <1>1, <1>2, <1>3, PTL DEF Spec
-------------------------------------------------------------------------------
(* The supervisor *)

Connecting == connect.pc \in {"opening", "handshake"}
Collecting == Connecting /\ connect.evidence

\* Strengthening: where the lifecycle flags stand, that an attempt whose answer
\* may count, or may be begun, leaves room below the age for that answer (both
\* are counted up to the threshold), and what pays for a background probe already
\* made since the last tick.
SupervisorInv ==
  /\ started => ~terminal
  /\ ~started /\ ~terminal => connect.pc = "idle" /\ probes = 0 /\ retry.answers = 0
  /\ stopTask # "none" => terminal
  /\ StateMatchesTask
  /\ FaultTakesTime
  /\ retry.answers =< HostFaultAnswers
  /\ Collecting \/ retry.wait = 0 => retry.answers =< age
  /\ PacedProbes
  /\ probes # 0 => retry.wait > 0 \/ Connecting \/ state = "ready" \/ terminal

\* An idle supervisor has nothing to account for.
LEMMA SupervisorInit == Init => SupervisorInv
BY BoundAssumption DEF Positive, Init, SupervisorInv, StateMatchesTask, FaultTakesTime, PacedProbes,
       Connecting, Collecting, NoConnect

\* A recorded failure starts a wait and, not collecting, needs no room.
LEMMA RecordedKept ==
  ASSUME TypeOK, SupervisorInv,
         retry' \in Retries, retry'.wait > 0, retry'.answers = retry.answers,
         ~Connecting', state' \in {"backoff", "dormant"},
         UNCHANGED <<started, terminal, stopTask, age, probes>>,
         connect.pc # "idle" \/ connect' = connect
  PROVE  SupervisorInv'
BY DEF TypeOK, Retries, SupervisorInv, StateMatchesTask, FaultTakesTime, PacedProbes,
       Connecting, Collecting

\* Every step keeps the supervisor's invariant.
LEMMA SupervisorStep == TypeOK /\ SupervisorInv /\ [Next]_vars => SupervisorInv'
<1> SUFFICES ASSUME TypeOK, SupervisorInv, [Next]_vars PROVE SupervisorInv'
  OBVIOUS
<1> USE DEF policy, transport, world, Connecting, Collecting
<1>a. /\ retry \in Retries /\ retry.wait \in Nat /\ retry.answers \in Nat
      /\ age \in Nat /\ age =< HostFaultAnswers /\ HostFaultAnswers \in Nat
      /\ probes \in Nat /\ CleanupRecheck \in Nat /\ CleanupRecheck > 0
  BY BoundAssumption, DelayAssumption DEF TypeOK, Retries, Positive
<1>b. connect \in [pc : {"idle", "opening", "handshake", "closing"},
                   evidence : BOOLEAN, cancelled : BOOLEAN]
  BY DEF TypeOK
<1>c. /\ started => ~terminal
      /\ ~started /\ ~terminal => connect.pc = "idle" /\ probes = 0 /\ retry.answers = 0
      /\ stopTask # "none" => terminal
      /\ state = "connecting" /\ ~terminal => connect.pc \in {"opening", "handshake"}
      /\ state = "ready" => connect.pc = "idle" \/ terminal
      /\ retry.answers =< age + 1 /\ retry.answers =< HostFaultAnswers
      /\ Collecting \/ retry.wait = 0 => retry.answers =< age
      /\ probes =< 1
      /\ probes # 0 => retry.wait > 0 \/ Connecting \/ state = "ready" \/ terminal
  BY DEF SupervisorInv, StateMatchesTask, FaultTakesTime, PacedProbes
<1>1. CASE Start
  <2>1. /\ retry' = [Reset(retry) EXCEPT !.wait = 0] /\ state' = "backoff" /\ started'
        /\ ~started /\ ~terminal
        /\ UNCHANGED <<terminal, connect, stopTask, age, probes>>
    BY <1>1 DEF Start
  <2>2. retry'.wait = 0 /\ retry'.answers = retry.answers
    BY <2>1 DEF Reset, TypeOK, Retries
  <2> QED
    BY <2>1, <2>2, <1>a, <1>c DEF SupervisorInv, StateMatchesTask, FaultTakesTime, PacedProbes
<1>d. ASSUME NEW r \in Retries, retry' \in GenericFailure(r), r.answers = retry.answers
      PROVE  retry' \in Retries /\ retry'.wait > 0 /\ retry'.answers = retry.answers
  BY <1>d, GenericFailureFacts
<1>2. ASSUME NEW r \in BOOLEAN, NEW eligible \in BOOLEAN, Heartbeat(r, eligible)
      PROVE  SupervisorInv'
  <2> DEFINE edge == r /\ ~reachable
             base == IF edge THEN EdgeReset(retry) ELSE retry
             due  == state \in {"backoff", "dormant"} /\ MayConnect /\ base.wait = 0
  <2>1. /\ started /\ UNCHANGED <<started, terminal, stopTask>>
        /\ age' = IF edge THEN 0 ELSE age
    BY <1>2 DEF Heartbeat
  <2>2. base \in Retries /\ base.answers =< retry.answers
    BY <1>a, ResetFacts
  <2>3. edge => base.answers = 0
    BY <1>a, ResetFacts
  <2>4. /\ base.answers =< age' + 1 /\ base.answers =< HostFaultAnswers
        /\ age' \in Nat /\ base.answers \in Nat
    BY <2>1, <2>2, <2>3, <1>a, <1>c DEF Retries
  <2>5. Collecting \/ base.wait = 0 => base.answers =< age'
    BY <2>1, <2>2, <2>3, <1>a, <1>c
  <2>6. edge => probes' = 0
    BY <1>2 DEF Heartbeat
  <2>7. probes' = probes \/ edge \/ (due /\ probes' = Smaller(probes + 1, 2))
    BY <1>2 DEF Heartbeat
  <2>8. state = "ready" \/ due => connect.pc = "idle"
    BY <2>1, <1>c DEF MayConnect
  <2>9. ~edge => base = retry
    OBVIOUS
  <2> HIDE DEF base, edge
  <2>10. CASE /\ state = "ready" /\ retry' \in GenericFailure(base)
              /\ edge /\ ScheduleConnect(FALSE)
    <3>1. retry' \in Retries /\ retry'.wait > 0 /\ retry'.answers = base.answers
      BY <2>2, <2>10, GenericFailureFacts
    <3>2. connect'.pc = "opening" /\ ~connect'.evidence /\ state' = "connecting"
      BY <2>10 DEF ScheduleConnect
    <3> QED
      BY <2>1, <2>4, <2>6, <2>10, <3>1, <3>2, <1>c
      DEF SupervisorInv, StateMatchesTask, FaultTakesTime, PacedProbes
  <2>11. CASE state = "ready" /\ RecordGeneric(base) /\ UNCHANGED connect
    <3>1. /\ retry' \in Retries /\ retry'.wait > 0 /\ retry'.answers = base.answers
          /\ state' = "backoff"
      BY <2>2, <2>11, GenericFailureFacts DEF RecordGeneric
    <3>2. probes' =< 1
      BY <2>6, <2>7, <2>11, <1>c
    <3> QED
      BY <2>1, <2>4, <2>8, <2>11, <3>1, <3>2, <1>c
      DEF SupervisorInv, StateMatchesTask, FaultTakesTime, PacedProbes
  <2>12. CASE due /\ retry' = base /\ ScheduleConnect(TRUE)
    <3>1. connect'.pc = "opening" /\ connect'.evidence /\ state' = "connecting"
      BY <2>12 DEF ScheduleConnect
    <3>2. base.answers =< age'
      BY <2>5, <2>12
    <3>3. probes' =< 1
      <4>1. CASE edge
        BY <2>6, <4>1
      <4>2. CASE ~edge
        <5>1. probes = 0
          BY <2>1, <2>8, <2>9, <2>12, <4>2, <1>a, <1>c
        <5> QED
          BY <2>7, <4>2, <5>1 DEF Smaller
      <4> QED BY <4>1, <4>2
    <3> QED
      BY <2>1, <2>4, <2>12, <3>1, <3>2, <3>3, <1>c
      DEF SupervisorInv, StateMatchesTask, FaultTakesTime, PacedProbes
  <2>13. CASE /\ retry' = base /\ UNCHANGED <<state, connect>>
              /\ probes' = probes \/ edge
    <3>1. probes' =< 1
      BY <2>6, <2>13, <1>c
    <3>2. probes' # 0 => retry'.wait > 0 \/ Connecting' \/ state' = "ready" \/ terminal'
      BY <2>1, <2>6, <2>9, <2>13, <1>c
    <3> QED
      BY <2>1, <2>4, <2>5, <2>13, <3>1, <3>2, <1>c
      DEF SupervisorInv, StateMatchesTask, FaultTakesTime, PacedProbes
  <2> QED
    BY <1>2, <2>10, <2>11, <2>12, <2>13 DEF Heartbeat, base, edge
<1>3. ASSUME NEW o \in Ops, Operate(o)
      PROVE  SupervisorInv'
  <2>1. started /\ UNCHANGED <<started, terminal, stopTask, retry, age, probes>>
    BY <1>3 DEF Operate
  <2>2. CASE ScheduleConnect(retry.wait = 0)
    <3>1. /\ connect'.pc = "opening" /\ state' = "connecting"
          /\ connect'.evidence => retry.wait = 0
      BY <2>2 DEF ScheduleConnect
    <3> QED
      BY <2>1, <3>1, <1>c
      DEF SupervisorInv, StateMatchesTask, FaultTakesTime, PacedProbes
  <2>3. CASE UNCHANGED <<state, connect>>
    BY <2>1, <2>3, <1>c DEF SupervisorInv, StateMatchesTask, FaultTakesTime, PacedProbes
  <2> QED
    BY <1>3, <2>2, <2>3 DEF Operate
<1>4. ASSUME NEW o \in Ops, ReportFailure(o)
      PROVE  SupervisorInv'
  <2>1. UNCHANGED <<started, terminal, stopTask, age, probes, connect>>
    BY <1>4 DEF ReportFailure
  <2>2. CASE started
    <3>1. /\ retry' \in Retries /\ retry'.wait > 0 /\ retry'.answers = retry.answers
          /\ state' = "backoff"
      BY <1>4, <2>2, <1>a, <1>d DEF ReportFailure, RecordGeneric
    <3> QED
      BY <2>1, <3>1, <1>a, <1>c
      DEF SupervisorInv, StateMatchesTask, FaultTakesTime, PacedProbes
  <2>3. CASE ~started
    BY <1>4, <2>1, <2>3, <1>c
    DEF ReportFailure, SupervisorInv, StateMatchesTask, FaultTakesTime, PacedProbes
  <2> QED
    BY <2>2, <2>3
<1>5. CASE Connected
  <2>1. /\ ~terminal /\ state' = "ready" /\ connect' = NoConnect
        /\ retry' = NoteConnected(retry)
        /\ UNCHANGED <<started, terminal, stopTask, age, probes>>
    BY <1>5 DEF Connected
  <2>2. retry'.answers = 0 /\ connect'.pc = "idle"
    BY <2>1, <1>a, ResetFacts DEF NoConnect
  <2> QED
    BY <2>1, <2>2, <1>a, <1>c
    DEF SupervisorInv, StateMatchesTask, FaultTakesTime, PacedProbes
<1>6. CASE OpenRefused
  <2>1. /\ connect.pc = "opening" /\ connect' = NoConnect /\ state' = "backoff"
        /\ retry' = [retry EXCEPT !.wait = CleanupRecheck]
        /\ UNCHANGED <<started, terminal, stopTask, age, probes>>
    BY <1>6 DEF OpenRefused, Opening
  <2>2. /\ retry'.wait > 0 /\ retry'.answers = retry.answers
        /\ connect'.pc = "idle"
    BY <2>1, <1>a DEF Retries, NoConnect
  <2> QED
    BY <2>1, <2>2, <1>a, <1>c
    DEF SupervisorInv, StateMatchesTask, FaultTakesTime, PacedProbes
<1>7. CASE OpenHandshake
  <2>1. /\ connect.pc = "opening"
        /\ connect'.pc = "handshake" /\ connect'.evidence = connect.evidence
        /\ UNCHANGED <<state, retry, started, terminal, stopTask, age, probes>>
    BY <1>7, <1>b DEF OpenHandshake, Opening
  <2> QED
    BY <2>1, <1>c DEF SupervisorInv, StateMatchesTask, FaultTakesTime, PacedProbes
<1>8. CASE HandshakeFails \/ ReceiverDoesNotStart
  <2>1. /\ connect.pc = "handshake" /\ RecordGeneric(retry) /\ GiveUp(Tail(lock))
    BY <1>8 DEF HandshakeFails, ReceiverDoesNotStart, Handshaking
  <2>2. /\ connect'.pc = "closing"
        /\ UNCHANGED <<started, terminal, stopTask, age, probes>>
    BY <2>1, <1>b DEF GiveUp
  <2>3. /\ retry' \in Retries /\ retry'.wait > 0 /\ retry'.answers = retry.answers
        /\ state' = "backoff"
    BY <2>1, <1>a, <1>d DEF RecordGeneric
  <2> QED
    BY <2>1, <2>2, <2>3, RecordedKept
<1>9. CASE HandshakeHostless
  <2> DEFINE counted == IF connect.evidence THEN CountAnswer(retry) ELSE retry
  <2>1. connect.pc = "handshake" /\ RecordHostless(counted) /\ GiveUp(Tail(lock))
    BY <1>9 DEF HandshakeHostless, Handshaking
  <2>2. /\ connect'.pc = "closing"
        /\ UNCHANGED <<started, terminal, stopTask, age, probes>>
    BY <2>1, <1>b DEF GiveUp
  <2>3. /\ counted \in Retries /\ counted.answers =< age + 1
        /\ counted.answers =< HostFaultAnswers
    <3>1. CASE connect.evidence
      <4>1. retry.answers =< age
        BY <2>1, <3>1, <1>c
      <4>2. counted = CountAnswer(retry)
        BY <3>1
      <4>3. /\ CountAnswer(retry) \in Retries
            /\ CountAnswer(retry).answers =< retry.answers + 1
            /\ CountAnswer(retry).answers =< HostFaultAnswers
        BY <1>a, CountAnswerFacts
      <4>4. CountAnswer(retry).answers \in Nat
        BY <4>3 DEF Retries
      <4> QED
        BY <4>1, <4>2, <4>3, <4>4, <1>a
    <3>2. CASE ~connect.evidence
      BY <3>2, <1>a, <1>c
    <3> QED
      BY <3>1, <3>2
  <2> HIDE DEF counted
  <2>4. /\ retry' \in Retries /\ retry'.wait > 0 /\ retry'.answers = counted.answers
        /\ state' \in {"backoff", "dormant"}
    BY <2>1, <2>3, HostlessFailureFacts DEF RecordHostless
  <2> QED
    BY <2>1, <2>2, <2>3, <2>4, <1>a, <1>c
    DEF SupervisorInv, StateMatchesTask, FaultTakesTime, PacedProbes
<1>10. CASE ConnectCancelled
  <2>1. Connecting /\ connect'.pc = "closing"
    BY <1>10, <1>b DEF ConnectCancelled, GiveUp
  <2>2. UNCHANGED <<started, terminal, stopTask, age, probes>>
    BY <1>10 DEF ConnectCancelled, GiveUp
  <2>3. CASE started
    <3>1. /\ retry' \in Retries /\ retry'.wait > 0 /\ retry'.answers = retry.answers
          /\ state' = "backoff"
      BY <1>10, <2>3, <1>a, <1>d DEF ConnectCancelled, RecordGeneric
    <3> QED
      BY <2>1, <2>2, <3>1, RecordedKept
  <2>4. CASE ~started
    <3>1. UNCHANGED <<retry, state>> /\ terminal
      BY <1>10, <2>1, <2>4, <1>c DEF ConnectCancelled
    <3> QED
      BY <2>1, <2>2, <2>4, <3>1, <1>c
      DEF SupervisorInv, StateMatchesTask, FaultTakesTime, PacedProbes
  <2> QED
    BY <2>3, <2>4
<1>11. CASE ConnectFinishes
  <2>1. /\ connect.pc = "closing" /\ connect' = NoConnect
        /\ UNCHANGED <<state, retry, started, terminal, stopTask, age, probes>>
    BY <1>11 DEF ConnectFinishes
  <2> QED
    BY <2>1, <1>c
    DEF SupervisorInv, StateMatchesTask, FaultTakesTime, PacedProbes, NoConnect
<1>12. CASE StopBegins
  <2>1. /\ ~terminal /\ terminal' /\ ~started' /\ stopTask' = "cancelling"
        /\ connect'.pc = connect.pc /\ connect'.evidence = connect.evidence
        /\ UNCHANGED <<state, retry, age, probes>>
    BY <1>12, <1>b DEF StopBegins
  <2> QED
    BY <2>1, <1>c DEF SupervisorInv, StateMatchesTask, FaultTakesTime, PacedProbes
<1>13. CASE StopCloses \/ StopFinishes
  <2>1. /\ stopTask # "none"
        /\ state' \in {state, "stopped"}
        /\ UNCHANGED <<started, terminal, retry, connect, age, probes>>
    BY <1>13 DEF StopCloses, StopFinishes
  <2> QED
    BY <2>1, <1>c DEF SupervisorInv, StateMatchesTask, FaultTakesTime, PacedProbes
<1>14. CASE Tick
  <2>1. /\ UNCHANGED <<state, started, terminal, connect, stopTask>> /\ probes' = 0
        /\ age' = Smaller(age + 1, HostFaultAnswers)
        /\ retry' = [retry EXCEPT !.wait = IF retry.wait = 0 THEN 0 ELSE retry.wait - 1]
    BY <1>14 DEF Tick
  <2>2. retry'.answers = retry.answers
    BY <2>1, <1>a DEF Retries
  <2>3. retry.answers =< age'
    BY <2>1, <1>a, <1>c DEF Smaller
  <2>4. age' \in Nat
    BY <2>1, <1>a DEF Smaller
  <2> QED
    BY <2>1, <2>2, <2>3, <2>4, <1>a, <1>c
    DEF SupervisorInv, StateMatchesTask, FaultTakesTime, PacedProbes
<1>15. CASE CancelConnect
  <2>1. /\ connect'.pc = connect.pc /\ connect'.evidence = connect.evidence
        /\ UNCHANGED <<state, retry, started, terminal, stopTask, age, probes>>
    BY <1>15, <1>b DEF CancelConnect
  <2> QED
    BY <2>1, <1>c DEF SupervisorInv, StateMatchesTask, FaultTakesTime, PacedProbes
<1>16. ASSUME NEW c \in Ops \cup {"close"}, CloseReleases(c)
       PROVE  SupervisorInv'
  <2>1. /\ UNCHANGED <<state, retry, started, terminal, connect, age, probes>>
        /\ stopTask' \in {stopTask, "closed"}
        /\ stopTask' # stopTask => stopTask = "closing"
    BY <1>16 DEF CloseReleases, CloseDone
  <2> QED
    BY <2>1, <1>c DEF SupervisorInv, StateMatchesTask, FaultTakesTime, PacedProbes
<1>17. CASE CloseTimesOut
  <2>1. /\ UNCHANGED <<state, retry, started, terminal, connect, age, probes>>
        /\ stopTask' \in {stopTask, "closed"}
        /\ stopTask' # stopTask => stopTask = "closing"
    BY <1>17 DEF CloseTimesOut, CloseDone
  <2> QED
    BY <2>1, <1>c DEF SupervisorInv, StateMatchesTask, FaultTakesTime, PacedProbes
<1>18. ASSUME UNCHANGED <<state, retry, started, terminal, connect, stopTask, age, probes>>
       PROVE  SupervisorInv'
  BY <1>18, <1>c DEF SupervisorInv, StateMatchesTask, FaultTakesTime, PacedProbes
<1>19. ASSUME NEW o \in Ops, Complete(o) \/ TimeOut(o) \/ Fail(o)
       PROVE  SupervisorInv'
  BY <1>18, <1>19 DEF Complete, TimeOut, Fail
<1>20. ASSUME NEW c \in Ops \cup {"close"}, CloseDrops(c)
       PROVE  SupervisorInv'
  BY <1>18, <1>20 DEF CloseDrops
<1>21. CASE ReceiverEnds \/ Disconnect \/ TvChanges \/ UNCHANGED vars
  BY <1>18, <1>21 DEF ReceiverEnds, Disconnect, TvChanges, vars
<1>22. CASE OpenExisting \/ HandshakeSucceeds
  BY <1>5, <1>22 DEF OpenExisting, HandshakeSucceeds
<1> QED
  BY <1>1, <1>2, <1>3, <1>4, <1>6, <1>7, <1>8, <1>9, <1>10, <1>11, <1>12,
     <1>13, <1>14, <1>15, <1>16, <1>17, <1>19, <1>20, <1>21, <1>22
  DEF Next, OperationStep, ConnectStep, CloseStep, StopStep

\* The conjunction the rest follows from.
LEMMA InvariantHolds == Spec => [](TypeOK /\ FenceInv /\ SupervisorInv)
<1>1. Init => TypeOK /\ FenceInv /\ SupervisorInv
  BY TypeInit, FenceInit, SupervisorInit
<1>2. TypeOK /\ FenceInv /\ SupervisorInv /\ [Next]_vars
        => (TypeOK /\ FenceInv /\ SupervisorInv)'
  BY TypeStep, FenceStep, SupervisorStep
<1> QED
  BY <1>1, <1>2, PTL DEF Spec

\* A host fault is reported only after as many delays as it takes to collect
\* the answers one scheduled attempt at a time, user commands or not.
THEOREM FaultTakesTimeHolds == Spec => []FaultTakesTime
<1>1. SupervisorInv => FaultTakesTime
  BY DEF SupervisorInv
<1> QED
  BY <1>1, InvariantHolds, PTL

\* However often the heartbeat comes, it makes one attempt in a tick.
THEOREM PacedProbesHolds == Spec => []PacedProbes
<1>1. SupervisorInv => PacedProbes
  BY DEF SupervisorInv
<1> QED
  BY <1>1, InvariantHolds, PTL

\* CONNECTING always has a task behind it, and READY none.
THEOREM StateMatchesTaskHolds == Spec => []StateMatchesTask
<1>1. SupervisorInv => StateMatchesTask
  BY DEF SupervisorInv
<1> QED
  BY <1>1, InvariantHolds, PTL
-------------------------------------------------------------------------------
(* Refinement *)

\* A step that neither numbers a generation nor retires the session, and does
\* not bring it up, is a loss or a stutter of the abstract channel.
LEMMA LossOrStutter ==
  ASSUME generation' = generation, terminal' = terminal, Ready' => Ready
  PROVE  [Channel!Next]_(Channel!vars)
<1>1. CASE Ready /\ ~Ready'
  <2>1. Channel!Lose
    BY <1>1 DEF Channel!Lose
  <2> QED
    BY <2>1 DEF Channel!Next
<1>2. CASE Ready' = Ready
  BY <1>2 DEF Channel!vars
<1>3. Ready \in BOOLEAN /\ Ready' \in BOOLEAN
  BY DEF Ready
<1> QED
  BY <1>1, <1>2, <1>3

\* Every step is a step of the abstract channel or leaves it alone: only the
\* end of a handshake establishes, only the stop retires, and the rest loses.
LEMMA ChannelStep ==
  TypeOK /\ FenceInv /\ SupervisorInv /\ [Next]_vars
    => [Channel!Next]_(Channel!vars)
<1> SUFFICES ASSUME TypeOK, FenceInv, SupervisorInv, [Next]_vars
             PROVE  [Channel!Next]_(Channel!vars)
  OBVIOUS
<1> USE DEF policy, transport, world
<1>a. generation \in Nat /\ terminal \in BOOLEAN
  BY DEF TypeOK
<1>b. socket # 0 => receiver = socket
  BY DEF FenceInv, OneTransport
<1>1. ASSUME Connected, connect.pc # "idle", Alive'
      PROVE  [Channel!Next]_(Channel!vars)
  <2>1. /\ ~terminal /\ generation' = generation + 1 /\ terminal' = terminal
        /\ state' = "ready"
    BY <1>1 DEF Connected
  <2>2. ~Ready
    BY <1>1, <2>1 DEF Ready, SupervisorInv, StateMatchesTask
  <2>3. Ready'
    BY <1>1, <2>1 DEF Ready
  <2>4. Channel!Establish
    BY <2>1, <2>2, <2>3 DEF Channel!Establish
  <2> QED
    BY <2>4 DEF Channel!Next
<1>2. CASE OpenExisting
  <2>1. Alive'
    BY <1>2, <1>b DEF OpenExisting, Alive
  <2> QED
    BY <1>1, <1>2, <2>1 DEF OpenExisting, Opening
<1>3. CASE HandshakeSucceeds
  <2>1. Alive'
    BY <1>3, <1>a DEF HandshakeSucceeds, Alive
  <2> QED
    BY <1>1, <1>3, <2>1 DEF HandshakeSucceeds, Handshaking
<1>4. CASE StopBegins
  <2>1. /\ ~terminal /\ terminal' = TRUE /\ generation' = generation
        /\ UNCHANGED <<state, socket, receiver>>
    BY <1>4 DEF StopBegins
  <2>2. Ready' = Ready
    BY <2>1 DEF Ready, Alive
  <2>3. Channel!Retire
    BY <2>1, <2>2 DEF Channel!Retire
  <2> QED
    BY <2>3 DEF Channel!Next
<1>5. ASSUME UNCHANGED <<generation, terminal, socket, receiver>>,
             state' = "ready" => state = "ready"
      PROVE  [Channel!Next]_(Channel!vars)
  <2>1. Ready' => Ready
    BY <1>5 DEF Ready, Alive
  <2> QED
    BY <1>5, <2>1, LossOrStutter
<1>6. ASSUME UNCHANGED <<generation, terminal>>, ~Alive'
      PROVE  [Channel!Next]_(Channel!vars)
  <2>1. Ready' => Ready
    BY <1>6 DEF Ready
  <2> QED
    BY <1>6, <2>1, LossOrStutter
<1>7. CASE Start
  BY <1>5, <1>7 DEF Start
<1>8. ASSUME NEW r \in BOOLEAN, NEW eligible \in BOOLEAN, Heartbeat(r, eligible)
      PROVE  [Channel!Next]_(Channel!vars)
  <2>1. UNCHANGED <<generation, terminal, socket, receiver>>
    BY <1>8 DEF Heartbeat
  <2>2. state' \in {"connecting", "backoff", state}
    BY <1>8 DEF Heartbeat, ScheduleConnect, RecordGeneric
  <2> QED
    BY <1>5, <2>1, <2>2
<1>9. ASSUME NEW o \in Ops, OperationStep(o)
      PROVE  [Channel!Next]_(Channel!vars)
  <2>1. UNCHANGED <<generation, terminal, socket, receiver>>
    BY <1>9 DEF OperationStep, Operate, Complete, TimeOut, Fail, ReportFailure
  <2>2. state' \in {"connecting", "backoff", state}
    BY <1>9 DEF OperationStep, Operate, Complete, TimeOut, Fail, ReportFailure,
                ScheduleConnect, RecordGeneric
  <2> QED
    BY <1>5, <2>1, <2>2
<1>10. CASE OpenRefused \/ OpenHandshake \/ ConnectFinishes \/ CancelConnect
  BY <1>5, <1>10 DEF OpenRefused, OpenHandshake, ConnectFinishes, CancelConnect
<1>11. CASE HandshakeFails \/ HandshakeHostless \/ ConnectCancelled
  <2>1. UNCHANGED <<generation, terminal, socket, receiver>>
    BY <1>11 DEF HandshakeFails, HandshakeHostless, ConnectCancelled, GiveUp
  <2>2. state' \in {"backoff", "dormant", state}
    BY <1>11 DEF HandshakeFails, HandshakeHostless, ConnectCancelled,
                 RecordGeneric, RecordHostless
  <2> QED
    BY <1>5, <2>1, <2>2
<1>12. CASE ReceiverDoesNotStart
  <2>1. UNCHANGED <<generation, terminal>> /\ state' = "backoff"
    BY <1>12 DEF ReceiverDoesNotStart, GiveUp, RecordGeneric
  <2>2. ~Ready'
    BY <2>1 DEF Ready
  <2> QED
    BY <2>1, <2>2, LossOrStutter
<1>13. ASSUME NEW c \in Closers, CloseDrops(c)
       PROVE  [Channel!Next]_(Channel!vars)
  BY <1>6, <1>13 DEF CloseDrops, Alive
<1>14. ASSUME NEW c \in Closers, CloseReleases(c)
       PROVE  [Channel!Next]_(Channel!vars)
  <2>1. socket = 0 /\ UNCHANGED <<generation, terminal, socket>>
    BY <1>14 DEF CloseReleases, FenceInv
  <2> QED
    BY <1>6, <2>1 DEF Alive
<1>15. CASE CloseTimesOut \/ StopCloses \/ StopFinishes \/ Tick \/ TvChanges
  BY <1>5, <1>15 DEF CloseTimesOut, StopCloses, StopFinishes, Tick, TvChanges
<1>16. CASE ReceiverEnds
  <2>1. UNCHANGED <<generation, terminal, socket>> /\ receiver' = 0
    BY <1>16 DEF ReceiverEnds
  <2> QED
    BY <1>6, <2>1 DEF Alive
<1>17. CASE Disconnect
  BY <1>6, <1>17 DEF Disconnect, Alive
<1>18. CASE UNCHANGED vars
  BY <1>5, <1>18 DEF vars
<1> QED
  BY <1>2, <1>3, <1>4, <1>7, <1>8, <1>9, <1>10, <1>11, <1>12, <1>13, <1>14,
     <1>15, <1>16, <1>17, <1>18
  DEF Next, ConnectStep, CloseStep, StopStep, Closers

\* The supervisor implements the channel its users see: a generation is up
\* during one unbroken interval, and none comes up once the stop was asked for.
THEOREM ImplementsChannel == Spec => ChannelSpec
<1>1. Init => Channel!Init
  BY DEF Init, Channel!Init, Ready
<1>2. TypeOK /\ FenceInv /\ SupervisorInv /\ [Next]_vars
        => [Channel!Next]_(Channel!vars)
  BY ChannelStep
<1> QED
  BY <1>1, <1>2, InvariantHolds, PTL DEF Spec, ChannelSpec, Channel!Spec
-------------------------------------------------------------------------------
(* What the holders of a number rely on *)

\* Generation g was up, or will never be.
Spent(g) == generation > g \/ (generation = g /\ ~Ready)

\* A step of the channel begins a new number or brings nothing up.
LEMMA ChannelMoves ==
  ASSUME [Channel!Next]_(Channel!vars)
  PROVE  \/ ~terminal /\ generation' = generation + 1
         \/ generation' = generation /\ (Ready' => Ready) /\ (terminal => terminal')
<1>1. ASSUME Channel!Establish PROVE ~terminal /\ generation' = generation + 1
  BY <1>1 DEF Channel!Establish
<1>2. ASSUME Channel!Lose
      PROVE  generation' = generation /\ (Ready' => Ready) /\ (terminal => terminal')
  BY <1>2 DEF Channel!Lose
<1>3. ASSUME Channel!Retire
      PROVE  generation' = generation /\ (Ready' => Ready) /\ (terminal => terminal')
  <2>1. Ready' = Ready \/ ~Ready'
    BY <1>3 DEF Channel!Retire
  <2> QED
    BY <1>3, <2>1 DEF Channel!Retire
<1>4. ASSUME UNCHANGED Channel!vars
      PROVE  generation' = generation /\ (Ready' => Ready) /\ (terminal => terminal')
  BY <1>4 DEF Channel!vars
<1> QED
  BY <1>1, <1>2, <1>3, <1>4 DEF Channel!Next

\* Whatever the channel does, a number that is spent stays spent.
LEMMA SpentStays ==
  ASSUME NEW g \in Nat, generation \in Nat, Spent(g),
         [Channel!Next]_(Channel!vars)
  PROVE  Spent(g)'
BY ChannelMoves DEF Spent

\* The fence of every read that crosses an await (_art_session_is_ready,
\* _optional_generation_is_current): once the channel is down at generation g,
\* no later moment is ready at g.  Whoever finds it ready at the number it
\* remembered has therefore had one connection, unbroken, all the while.
THEOREM GenerationsAreSpent ==
  ASSUME NEW g \in Nat
  PROVE  Spec => []((generation = g /\ ~Ready) => [](generation = g => ~Ready))
<1>1. TypeOK /\ Spent(g) /\ [Channel!Next]_(Channel!vars) => Spent(g)'
  BY SpentStays DEF TypeOK
<1>2. generation = g /\ ~Ready => Spent(g)
  BY DEF Spent
<1>3. TypeOK /\ Spent(g) => (generation = g => ~Ready)
  BY DEF Spent, TypeOK
<1> QED
  BY <1>1, <1>2, <1>3, TypeCorrect, ImplementsChannel, PTL
  DEF ChannelSpec, Channel!Spec

\* "Entry unload is terminal": a session that was told to stop and has lost its
\* channel never has one again, whoever asks and whatever task was under way.
THEOREM StoppedStaysDown == Spec => []((terminal /\ ~Ready) => []~Ready)
<1>1. terminal /\ ~Ready /\ [Channel!Next]_(Channel!vars) => (terminal /\ ~Ready)'
  BY ChannelMoves
<1> QED
  BY <1>1, ImplementsChannel, PTL DEF ChannelSpec, Channel!Spec
-------------------------------------------------------------------------------
(* The end of a stop *)

\* Strengthening: a stopped session's connect task is on its way out, so that
\* no answer to a handshake reaches the policy any more.
StopInv ==
  /\ terminal /\ Connecting => connect.cancelled
  /\ stopTask = "done" => terminal /\ state = "stopped"

\* A session that was not stopped has nothing to end.
LEMMA StopInit == Init => StopInv
BY DEF Init, StopInv

\* Every step keeps StopInv.
LEMMA StopKept == TypeOK /\ SupervisorInv /\ StopInv /\ [Next]_vars => StopInv'
<1> SUFFICES ASSUME TypeOK, SupervisorInv, StopInv, [Next]_vars PROVE StopInv'
  OBVIOUS
<1> USE DEF policy, transport, world
<1>a. started => ~terminal /\ stopTask = "none"
  BY DEF SupervisorInv
<1>b. ASSUME UNCHANGED <<terminal, stopTask>>, Connecting' => Connecting,
             Connecting /\ Connecting' /\ connect.cancelled => connect'.cancelled,
             state' = state \/ started \/ ~terminal
      PROVE  StopInv'
  BY <1>a, <1>b DEF StopInv, SupervisorInv
<1>c. ASSUME UNCHANGED <<terminal, stopTask, started>>, ~terminal
      PROVE  StopInv'
  BY <1>c DEF StopInv, SupervisorInv
<1>1. CASE Start
  BY <1>c, <1>1 DEF Start, StopInv, SupervisorInv
<1>2. ASSUME NEW r \in BOOLEAN, NEW eligible \in BOOLEAN, Heartbeat(r, eligible)
      PROVE  StopInv'
  BY <1>a, <1>c, <1>2 DEF Heartbeat
<1>3. ASSUME NEW o \in Ops, Operate(o) PROVE StopInv'
  BY <1>a, <1>c, <1>3 DEF Operate
<1>4. ASSUME NEW o \in Ops, Complete(o) \/ TimeOut(o) \/ Fail(o) PROVE StopInv'
  BY <1>b, <1>4 DEF Complete, TimeOut, Fail, Connecting
<1>5. ASSUME NEW o \in Ops, ReportFailure(o) PROVE StopInv'
  BY <1>b, <1>5 DEF ReportFailure, Connecting
<1>6. CASE OpenExisting \/ HandshakeSucceeds
  BY <1>c, <1>6 DEF OpenExisting, HandshakeSucceeds, Connected
<1>7. ASSUME OpenRefused \/ HandshakeFails \/ HandshakeHostless
               \/ ReceiverDoesNotStart
      PROVE  StopInv'
  <2>1. ~terminal
    BY <1>7 DEF StopInv, Connecting, OpenRefused, HandshakeFails,
      HandshakeHostless, ReceiverDoesNotStart, Opening, Handshaking
  <2>2. UNCHANGED <<terminal, stopTask, started>>
    BY <1>7 DEF OpenRefused, HandshakeFails, HandshakeHostless,
      ReceiverDoesNotStart, GiveUp
  <2> QED
    BY <1>c, <2>1, <2>2
<1>8. CASE OpenHandshake
  <2>1. ~terminal
    BY <1>8 DEF StopInv, Connecting, OpenHandshake, Opening
  <2> QED
    BY <1>c, <1>8, <2>1 DEF OpenHandshake
<1>9. CASE ConnectCancelled
  <2>1. ~Connecting' /\ UNCHANGED <<terminal, stopTask>>
    BY <1>9 DEF ConnectCancelled, GiveUp, Connecting, TypeOK
  <2>2. state' = state \/ started
    BY <1>9 DEF ConnectCancelled
  <2> QED
    BY <1>b, <2>1, <2>2
<1>10. CASE ConnectFinishes
  BY <1>b, <1>10 DEF ConnectFinishes, Connecting, NoConnect
<1>11. ASSUME NEW c \in Closers, CloseDrops(c) PROVE StopInv'
  BY <1>b, <1>11 DEF CloseDrops, Connecting
<1>12. ASSUME UNCHANGED <<state, terminal, connect>>,
              stopTask' \in {stopTask, "closed"}
       PROVE  StopInv'
  BY <1>12 DEF StopInv, Connecting
<1>13. ASSUME NEW c \in Closers, CloseReleases(c) PROVE StopInv'
  BY <1>12, <1>13 DEF CloseReleases, CloseDone
<1>14. CASE CloseTimesOut
  BY <1>12, <1>14 DEF CloseTimesOut, CloseDone
<1>15. CASE StopBegins
  BY <1>15 DEF StopBegins, StopInv, Connecting, TypeOK
<1>16. CASE StopCloses
  BY <1>16 DEF StopCloses, StopInv, Connecting
<1>17. CASE StopFinishes
  BY <1>17 DEF StopFinishes, StopInv, Connecting, SupervisorInv
<1>18. CASE ReceiverEnds \/ Tick \/ TvChanges \/ Disconnect \/ UNCHANGED vars
  BY <1>12, <1>18 DEF ReceiverEnds, Tick, TvChanges, Disconnect, vars
<1>19. CASE CancelConnect
  <2>1. connect'.cancelled /\ UNCHANGED <<terminal, stopTask, state>>
    BY <1>19 DEF CancelConnect, TypeOK
  <2> QED
    BY <2>1 DEF StopInv
<1> QED
  BY <1>1, <1>2, <1>3, <1>4, <1>5, <1>6, <1>7, <1>8, <1>9, <1>10, <1>11, <1>13,
     <1>14, <1>15, <1>16, <1>17, <1>18, <1>19
  DEF Next, OperationStep, ConnectStep, CloseStep, StopStep, Closers

\* The invariant with the end of a stop.
LEMMA StopHolds == Spec => []StopInv
<1>1. TypeOK /\ FenceInv /\ SupervisorInv /\ StopInv /\ [Next]_vars => StopInv'
  BY StopKept
<1> QED
  BY <1>1, StopInit, InvariantHolds, PTL DEF Spec

\* "Permanently stop this session": once the stop is complete the state says so
\* for good, although the connect task, operations and reports may still be
\* ending behind it.
THEOREM StoppedForGood == Spec => []StopIsFinal
<1>1. StopInv => StopIsFinal
  BY DEF StopInv, StopIsFinal
<1> QED
  BY <1>1, StopHolds, PTL

-------------------------------------------------------------------------------
(* The lifecycle lock *)

\* q is a queue of exactly the actors of W, each of them once.
IsQueueOf(q, W) ==
  /\ q \in Seq(Actors)
  /\ \A i, j \in 1..Len(q) : q[i] = q[j] => i = j
  /\ W = {q[i] : i \in 1..Len(q)}

\* Who joins a queue is in it, once.
LEMMA QueueAppend ==
  ASSUME NEW q, NEW W, IsQueueOf(q, W), NEW x \in Actors, x \notin W
  PROVE  IsQueueOf(Append(q, x), W \cup {x})
<1> DEFINE p == Append(q, x)
<1>1. q \in Seq(Actors) /\ Len(q) \in Nat
  BY DEF IsQueueOf
<1>2. /\ p \in Seq(Actors) /\ Len(p) = Len(q) + 1 /\ p[Len(q) + 1] = x
      /\ \A i \in 1..Len(q) : p[i] = q[i] /\ q[i] # x
  BY <1>1 DEF IsQueueOf
<1> HIDE DEF p
<1>3. ASSUME NEW i \in 1..Len(p), NEW j \in 1..Len(p), p[i] = p[j] PROVE i = j
  <2>1. /\ i \in 1..Len(q) \/ i = Len(q) + 1
        /\ j \in 1..Len(q) \/ j = Len(q) + 1
    BY <1>1, <1>2
  <2> QED
    BY <1>2, <1>3, <2>1 DEF IsQueueOf
<1>4. W \cup {x} = {p[i] : i \in 1..Len(p)}
  <2>1. 1..Len(p) = (1..Len(q)) \cup {Len(q) + 1}
    BY <1>1, <1>2
  <2> QED
    BY <1>2, <2>1 DEF IsQueueOf
<1>5. IsQueueOf(p, W \cup {x})
  BY <1>2, <1>3, <1>4 DEF IsQueueOf
<1> QED
  BY <1>5 DEF p

\* Who leaves a queue is in it no more, and the others are.
LEMMA QueueRemove ==
  ASSUME NEW q, NEW W, IsQueueOf(q, W), NEW k \in 1..Len(q)
  PROVE  IsQueueOf(RemoveAt(q, k), W \ {q[k]})
<1> DEFINE a == SubSeq(q, 1, k-1)
           b == SubSeq(q, k+1, Len(q))
           p == a \o b
           at(i) == IF i < k THEN i ELSE i + 1
<1>1. q \in Seq(Actors) /\ Len(q) \in Nat /\ k \in Nat /\ k >= 1 /\ k =< Len(q)
  BY DEF IsQueueOf
<1>2. /\ a \in Seq(Actors) /\ Len(a) = k - 1
      /\ \A i \in 1..k-1 : a[i] = q[i]
  BY <1>1
<1>3. b \in Seq(Actors) /\ Len(b) = Len(q) - k
  BY <1>1
<1>4. \A i \in 1..Len(b) : b[i] = q[k + i]
  BY <1>1, <1>3
<1>5. RemoveAt(q, k) = p
  BY DEF RemoveAt
<1> HIDE DEF a, b
<1>6. /\ p \in Seq(Actors) /\ Len(p) = Len(q) - 1
      /\ \A i \in 1..Len(p) : p[i] = IF i =< Len(a) THEN a[i] ELSE b[i - Len(a)]
  BY <1>1, <1>2, <1>3
<1> HIDE DEF p
<1>7. ASSUME NEW i \in 1..Len(p)
      PROVE  p[i] = q[at(i)] /\ at(i) \in 1..Len(q) /\ at(i) # k
  <2>1. CASE i < k
    <3>1. i \in 1..k-1 /\ i \in Nat /\ i =< Len(a)
      BY <1>1, <1>2, <1>6, <2>1
    <3>2. p[i] = q[i]
      BY <1>2, <1>6, <3>1
    <3> QED
      BY <1>1, <2>1, <3>1, <3>2
  <2>2. CASE i >= k
    <3> DEFINE m == i - (k - 1)
    <3>1. m \in 1..Len(b) /\ k + m = i + 1
      BY <1>1, <1>3, <1>6, <2>2
    <3>2. p[i] = b[m]
      BY <1>1, <1>2, <1>6, <2>2
    <3> HIDE DEF m
    <3>3. p[i] = q[i + 1]
      BY <1>4, <3>1, <3>2
    <3> QED
      BY <1>1, <1>6, <2>2, <3>3
  <2> QED
    BY <1>1, <1>6, <2>1, <2>2
<1>8. ASSUME NEW i \in 1..Len(p), NEW j \in 1..Len(p), p[i] = p[j] PROVE i = j
  <2>1. at(i) = at(j)
    BY <1>7, <1>8 DEF IsQueueOf
  <2> QED
    BY <1>1, <1>6, <2>1
<1>9. W \ {q[k]} = {p[i] : i \in 1..Len(p)}
  <2>1. ASSUME NEW i \in 1..Len(p) PROVE p[i] \in W \ {q[k]}
    BY <1>7 DEF IsQueueOf
  <2>2. ASSUME NEW j \in 1..Len(q), j # k PROVE \E i \in 1..Len(p) : p[i] = q[j]
    <3>1. CASE j < k
      BY <1>1, <1>6, <1>7, <3>1
    <3>2. CASE j > k
      <4>1. j - 1 \in 1..Len(p) /\ at(j - 1) = j
        BY <1>1, <1>6, <3>2
      <4> QED
        BY <1>7, <4>1
    <3> QED
      BY <1>1, <2>2, <3>1, <3>2
  <2> QED
    BY <2>1, <2>2 DEF IsQueueOf
<1>10. IsQueueOf(p, W \ {q[k]})
  BY <1>6, <1>8, <1>9 DEF IsQueueOf
<1> QED
  BY <1>5, <1>10

\* So it is when the holder leaves.
LEMMA QueueTail ==
  ASSUME NEW q, NEW W, IsQueueOf(q, W), q # <<>>
  PROVE  IsQueueOf(Tail(q), W \ {Head(q)})
<1>1. q \in Seq(Actors) /\ 1 \in 1..Len(q)
  BY DEF IsQueueOf
<1>2. RemoveAt(q, 1) = Tail(q) /\ q[1] = Head(q)
  BY <1>1 DEF RemoveAt
<1>3. IsQueueOf(RemoveAt(q, 1), W \ {q[1]})
  BY <1>1, QueueRemove
<1> QED
  BY <1>2, <1>3

\* Who waits for the lifecycle lock or holds it: operations that close after a
\* timeout, the close task and an attempt that was not given up.
OpWaits == {o \in Ops : op[o] \in {"queued", "draining"}}
Closing == closeTask \in {"queued", "draining"}
Others == IF Connecting THEN OpWaits \cup {"connect"} ELSE OpWaits
Waiting == IF Closing THEN Others \cup {"close"} ELSE Others

\* Strengthening: the lock is the queue of those, and a handshake holds it.
LockInv ==
  /\ IsQueueOf(lock, Waiting)
  /\ connect.pc = "handshake" => Holds("connect")

\* Operations that neither begin nor end to wait leave OpWaits alone.
LEMMA OpWaitsKept ==
  ASSUME \A o \in Ops : \/ op'[o] = op[o]
                        \/ /\ op[o] \notin {"queued", "draining"}
                           /\ op'[o] \notin {"queued", "draining"}
  PROVE  OpWaits' = OpWaits
BY DEF OpWaits

\* Waking those who joined is of that kind.
LEMMA JoinedKept ==
  ASSUME NEW from \in {"joining", "reporting"}, NEW to \in {"running", "idle"},
         op' = Joined(from, to)
  PROVE  OpWaits' = OpWaits
<1>1. \A o \in Ops : op'[o] = IF op[o] = from THEN to ELSE op[o]
  BY DEF Joined
<1> QED
  BY <1>1, OpWaitsKept

\* The actors are different.
LEMMA ActorFacts ==
  /\ "connect" \in Actors /\ "close" \in Actors /\ "connect" \notin OpWaits
  /\ "close" \notin Others
BY OpsAssumption DEF Actors, OpWaits, Others

\* A close that is scheduled joins the queue unless it is there.
LEMMA CloseJoins ==
  ASSUME NEW queue, NEW W, "close" \notin W, NEW force \in BOOLEAN,
         IsQueueOf(queue, IF Closing THEN W \cup {"close"} ELSE W),
         ScheduleClose(queue, force)
  PROVE  /\ IsQueueOf(lock', IF Closing' THEN W \cup {"close"} ELSE W)
         /\ lock' \in {queue, Append(queue, "close")}
<1>1. CASE closeTask' = "queued" /\ lock' = Append(queue, "close") /\ ~Closing
  <2>1. IsQueueOf(lock', W \cup {"close"})
    BY <1>1, ActorFacts, QueueAppend
  <2> QED
    BY <1>1, <2>1 DEF Closing
<1>2. CASE closeTask' = closeTask /\ lock' = queue
  BY <1>2 DEF Closing
<1>3. \/ closeTask' = "queued" /\ lock' = Append(queue, "close") /\ ~Closing
      \/ closeTask' = closeTask /\ lock' = queue
  BY Zenon DEF ScheduleClose, Closing
<1> QED
  BY <1>1, <1>2, <1>3

\* Before the first attempt nobody waits.
LEMMA LockInit == Init => LockInv
<1> SUFFICES ASSUME Init PROVE LockInv
  OBVIOUS
<1>1. lock = <<>> /\ connect.pc = "idle"
  BY DEF Init, NoConnect
<1>2. Waiting = {}
  BY DEF Init, Waiting, Closing, Others, OpWaits, Connecting, NoConnect
<1>3. lock \in Seq(Actors) /\ Len(lock) = 0
  BY <1>1
<1>4. {lock[i] : i \in 1..Len(lock)} = {}
  BY <1>3
<1> QED
  BY <1>1, <1>2, <1>3, <1>4 DEF LockInv, IsQueueOf

\* Every step keeps LockInv.
LEMMA LockStep == TypeOK /\ LockInv /\ [Next]_vars => LockInv'
<1> SUFFICES ASSUME TypeOK, LockInv, [Next]_vars PROVE LockInv'
  OBVIOUS
<1> USE DEF policy, transport, world
<1>a. ASSUME lock' = lock, OpWaits' = OpWaits, Closing' = Closing,
             Connecting' = Connecting,
             connect'.pc = "handshake" => connect.pc = "handshake"
      PROVE  LockInv'
  <2>1. Waiting' = Waiting
    BY <1>a DEF Waiting, Others
  <2> QED
    BY <1>a, <2>1 DEF LockInv, Holds
<1>b. ASSUME UNCHANGED <<lock, connect, closeTask>>, OpWaits' = OpWaits
      PROVE  LockInv'
  BY <1>a, <1>b DEF Closing, Connecting
<1>c. ASSUME MayConnect, NEW e, ScheduleConnect(e), op' = op \/ OpWaits' = OpWaits
      PROVE  LockInv'
  <2>1. ~Closing /\ ~Closing' /\ ~Connecting /\ Connecting'
        /\ connect'.pc = "opening" /\ OpWaits' = OpWaits
    BY <1>c DEF MayConnect, CloseFinished, ScheduleConnect, Closing, Connecting,
      OpWaits
  <2>2. Waiting' = Waiting \cup {"connect"} /\ "connect" \notin Waiting
    BY <2>1, ActorFacts DEF Waiting, Others
  <2>3. lock' = Append(lock, "connect")
    BY <1>c DEF ScheduleConnect
  <2>4. IsQueueOf(lock', Waiting')
    BY <2>2, <2>3, ActorFacts, QueueAppend DEF LockInv
  <2> QED
    BY <2>1, <2>4 DEF LockInv
<1>d. ASSUME ScheduleClose(lock, FALSE), OpWaits' = OpWaits, connect' = connect
      PROVE  LockInv'
  <2>1. Others' = Others
    BY <1>d DEF Others, Connecting
  <2>2. /\ IsQueueOf(lock', Waiting')
        /\ lock' \in {lock, Append(lock, "close")}
    BY <1>d, <2>1, ActorFacts, CloseJoins DEF LockInv, Waiting
  <2>3. ASSUME Holds("connect") PROVE Holds("connect")'
    BY <2>2, <2>3, HoldsAppend, ActorFacts DEF Holds, TypeOK
  <2> QED
    BY <1>d, <2>2, <2>3 DEF LockInv
<1>e. ASSUME NEW queue, IsQueueOf(queue, Waiting \ {"connect"}), GiveUp(queue)
      PROVE  LockInv'
  <2>1. /\ OpWaits' = OpWaits /\ connect'.pc = "closing" /\ ~Connecting'
        /\ ScheduleClose(queue, terminal /\ closeTask = "done")
    BY <1>e DEF GiveUp, TypeOK, OpWaits, Connecting
  <2>2. Others' = OpWaits /\ "close" \notin OpWaits
    BY <2>1, ActorFacts DEF Others
  <2>3. Waiting \ {"connect"} = IF Closing THEN OpWaits \cup {"close"} ELSE OpWaits
    BY ActorFacts DEF Waiting, Others
  <2>4. (terminal /\ closeTask = "done") \in BOOLEAN
    OBVIOUS
  <2>5. IsQueueOf(lock', IF Closing' THEN OpWaits \cup {"close"} ELSE OpWaits)
    BY <1>e, <2>1, <2>2, <2>3, <2>4, CloseJoins
  <2>6. IsQueueOf(lock', Waiting')
    BY <2>2, <2>5 DEF Waiting
  <2> QED
    BY <2>1, <2>6 DEF LockInv
<1>f. ASSUME Holds("connect")
      PROVE  IsQueueOf(Tail(lock), Waiting \ {"connect"})
  <2>1. IsQueueOf(lock, Waiting) /\ lock # <<>> /\ Head(lock) = "connect"
    BY <1>f DEF LockInv, Holds
  <2>2. IsQueueOf(Tail(lock), Waiting \ {Head(lock)})
    BY <2>1, QueueTail
  <2> QED
    BY <2>1, <2>2
<1>g. ASSUME Holds("connect"), lock' = Tail(lock), connect' = NoConnect,
             OpWaits' = OpWaits, closeTask' = closeTask
      PROVE  LockInv'
  <2>1. ~Connecting' /\ Closing' = Closing /\ connect'.pc = "idle"
    BY <1>g DEF Connecting, Closing, NoConnect
  <2>2. Waiting' = Waiting \ {"connect"}
    BY <1>g, <2>1, ActorFacts DEF Waiting, Others
  <2> QED
    BY <1>f, <1>g, <2>1, <2>2 DEF LockInv
<1>1. CASE Start
  BY <1>b, <1>1 DEF Start, OpWaits
<1>2. ASSUME NEW r, NEW eligible, Heartbeat(r, eligible) PROVE LockInv'
  <2>1. OpWaits' = OpWaits
    BY <1>2 DEF Heartbeat, OpWaits
  <2>2. \/ MayConnect /\ \E e \in BOOLEAN : ScheduleConnect(e)
        \/ UNCHANGED <<connect, closeTask, lock>>
    BY <1>2 DEF Heartbeat
  <2> QED
    BY <1>b, <1>c, <2>1, <2>2
<1>3. ASSUME NEW o \in Ops, Operate(o) PROVE LockInv'
  <2>1. OpWaits' = OpWaits
    BY <1>3, OpWaitsKept DEF Operate, TypeOK
  <2>2. \/ MayConnect /\ ScheduleConnect(retry.wait = 0)
        \/ UNCHANGED <<connect, closeTask, lock>>
    BY <1>3 DEF Operate
  <2> QED
    BY <1>b, <1>c, <2>1, <2>2
<1>4. ASSUME NEW o \in Ops, Complete(o) \/ Fail(o) PROVE LockInv'
  <2>1. OpWaits' = OpWaits
    BY <1>4, OpWaitsKept DEF Complete, Fail, TypeOK
  <2> QED
    BY <1>b, <1>4, <2>1 DEF Complete, Fail
<1>5. ASSUME NEW o \in Ops, TimeOut(o) PROVE LockInv'
  <2>1. /\ op[o] = "running" /\ op' = [op EXCEPT ![o] = "queued"]
        /\ lock' = Append(lock, o) /\ UNCHANGED <<connect, closeTask>>
    BY <1>5 DEF TimeOut
  <2>2. OpWaits' = OpWaits \cup {o} /\ o \notin OpWaits
    BY <2>1 DEF OpWaits, TypeOK
  <2>3. Waiting' = Waiting \cup {o} /\ o \notin Waiting
    BY <2>1, <2>2, OpsAssumption DEF Waiting, Others, Closing, Connecting
  <2>4. o \in Actors
    BY DEF Actors
  <2>5. IsQueueOf(lock', Waiting')
    BY <2>1, <2>3, <2>4, QueueAppend DEF LockInv
  <2>6. Holds("connect") => Holds("connect")'
    BY <2>1, <2>4, HoldsAppend DEF TypeOK
  <2> QED
    BY <2>1, <2>5, <2>6 DEF LockInv
<1>6. ASSUME NEW o \in Ops, ReportFailure(o) PROVE LockInv'
  <2>1. OpWaits' = OpWaits
    BY <1>6, OpWaitsKept DEF ReportFailure, TypeOK
  <2>2. \/ ScheduleClose(lock, FALSE) /\ connect' = connect
        \/ UNCHANGED <<lock, connect, closeTask>>
    BY <1>6 DEF ReportFailure
  <2> QED
    BY <1>b, <1>d, <2>1, <2>2
<1>7. CASE OpenExisting \/ OpenRefused \/ HandshakeSucceeds
  <2>1. /\ Holds("connect") /\ lock' = Tail(lock) /\ connect' = NoConnect
        /\ closeTask' = closeTask
        /\ op' = Joined("joining", "running") \/ op' = Joined("joining", "idle")
    BY <1>7 DEF OpenExisting, OpenRefused, HandshakeSucceeds, Connected, Opening,
      Handshaking
  <2>2. OpWaits' = OpWaits
    BY <2>1, JoinedKept
  <2> QED
    BY <1>g, <2>1, <2>2
<1>8. CASE OpenHandshake
  <2>1. /\ connect.pc = "opening" /\ connect'.pc = "handshake" /\ Holds("connect")
        /\ UNCHANGED <<closeTask, lock, op>>
    BY <1>8 DEF OpenHandshake, Opening, TypeOK
  <2>2. Waiting' = Waiting
    BY <2>1 DEF Waiting, Others, OpWaits, Closing, Connecting
  <2> QED
    BY <2>1, <2>2 DEF LockInv, Holds
<1>9. CASE HandshakeFails \/ HandshakeHostless \/ ReceiverDoesNotStart
  <2>1. Holds("connect") /\ GiveUp(Tail(lock))
    BY <1>9 DEF HandshakeFails, HandshakeHostless, ReceiverDoesNotStart, Handshaking
  <2> QED
    BY <1>e, <1>f, <2>1
<1>10. CASE ConnectCancelled
  <2>1. PICK i \in DOMAIN lock : lock[i] = "connect" /\ GiveUp(RemoveAt(lock, i))
    BY <1>10 DEF ConnectCancelled
  <2>2. IsQueueOf(lock, Waiting) /\ i \in 1..Len(lock)
    BY DEF LockInv, TypeOK
  <2>3. IsQueueOf(RemoveAt(lock, i), Waiting \ {lock[i]})
    BY <2>2, QueueRemove
  <2> QED
    BY <1>e, <2>1, <2>3
<1>11. CASE ConnectFinishes
  <2>1. /\ connect.pc = "closing" /\ connect' = NoConnect
        /\ op' = Joined("joining", "idle") /\ UNCHANGED <<closeTask, lock>>
    BY <1>11 DEF ConnectFinishes
  <2>2. OpWaits' = OpWaits
    BY <2>1, JoinedKept
  <2>3. connect'.pc = "idle" /\ Connecting' = Connecting /\ Closing' = Closing
    BY <2>1 DEF Connecting, Closing, NoConnect
  <2> QED
    BY <1>a, <2>1, <2>2, <2>3
<1>12. ASSUME NEW c \in Closers, CloseDrops(c) PROVE LockInv'
  <2>1. /\ Queued(c) /\ CloseTo(c, "draining") /\ UNCHANGED <<connect, lock>>
    BY <1>12 DEF CloseDrops
  <2>2. CASE c = "close"
    <3>1. closeTask = "queued" /\ closeTask' = "draining" /\ op' = op
      BY <2>1, <2>2 DEF Queued, CloseTo
    <3>2. Closing' = Closing /\ OpWaits' = OpWaits
      BY <3>1 DEF Closing, OpWaits
    <3>3. Connecting' = Connecting
      BY <2>1 DEF Connecting
    <3> QED
      BY <1>a, <2>1, <3>2, <3>3
  <2>3. CASE c # "close"
    <3>1. /\ c \in Ops /\ op[c] = "queued" /\ op' = [op EXCEPT ![c] = "draining"]
          /\ closeTask' = closeTask
      BY <2>1, <2>3 DEF Closers, Queued, CloseTo
    <3>2. OpWaits' = OpWaits
      BY <3>1 DEF OpWaits, TypeOK
    <3> QED
      BY <1>b, <2>1, <3>1, <3>2
  <2> QED
    BY <2>2, <2>3
<1>13. ASSUME NEW c \in Closers, CloseReleases(c) PROVE LockInv'
  <2>1. /\ Holds(c) /\ Draining(c) /\ lock' = Tail(lock) /\ connect' = connect
        /\ c # "connect"
    BY <1>13, OpsAssumption DEF CloseReleases, Closers
  <2>2. IsQueueOf(lock', Waiting \ {c})
    <3>1. IsQueueOf(lock, Waiting) /\ lock # <<>> /\ Head(lock) = c
      BY <2>1 DEF LockInv, Holds
    <3>2. IsQueueOf(Tail(lock), Waiting \ {Head(lock)})
      BY <3>1, QueueTail
    <3> QED
      BY <2>1, <3>1, <3>2
  <2>3. connect'.pc # "handshake"
    BY <2>1 DEF LockInv, Holds
  <2>4. Waiting' = Waiting \ {c}
    <3>1. CASE c = "close"
      <4>1. closeTask' = "done" /\ op' = Joined("reporting", "idle")
        BY <1>13, <3>1 DEF CloseReleases, CloseDone
      <4>2. OpWaits' = OpWaits
        BY <4>1, JoinedKept
      <4>3. Others' = Others /\ ~Closing'
        BY <2>1, <4>1, <4>2 DEF Others, Connecting, Closing
      <4> QED
        BY <3>1, <4>3, ActorFacts DEF Waiting
    <3>2. CASE c # "close"
      <4>1. /\ c \in Ops /\ op' = [op EXCEPT ![c] = "failed"]
            /\ closeTask' = closeTask
        BY <1>13, <3>2 DEF CloseReleases, Closers
      <4>2. OpWaits' = OpWaits \ {c}
        BY <4>1 DEF OpWaits, TypeOK
      <4> QED
        BY <2>1, <3>2, <4>1, <4>2 DEF Waiting, Others, Connecting, Closing
    <3> QED
      BY <3>1, <3>2
  <2> QED
    BY <2>2, <2>3, <2>4 DEF LockInv
<1>14. CASE CloseTimesOut
  <2>1. PICK i \in DOMAIN lock : lock[i] = "close" /\ lock' = RemoveAt(lock, i)
    BY <1>14 DEF CloseTimesOut
  <2>2. IsQueueOf(lock, Waiting) /\ i \in 1..Len(lock)
    BY DEF LockInv, TypeOK
  <2>3. IsQueueOf(lock', Waiting \ {"close"})
    BY <2>1, <2>2, QueueRemove
  <2>4. /\ closeTask' = "done" /\ op' = Joined("reporting", "idle")
        /\ connect' = connect
    BY <1>14 DEF CloseTimesOut, CloseDone
  <2>5. OpWaits' = OpWaits
    BY <2>4, JoinedKept
  <2>6. Others' = Others /\ ~Closing'
    BY <2>4, <2>5 DEF Others, Connecting, Closing
  <2>7. Waiting' = Waiting \ {"close"}
    BY <2>6, ActorFacts DEF Waiting
  <2>8. Holds("connect") => Holds("connect")'
    BY <2>1, HoldsRemove DEF TypeOK
  <2> QED
    BY <2>3, <2>4, <2>7, <2>8 DEF LockInv
<1>15. CASE StopBegins
  <2>1. connect'.pc = connect.pc /\ UNCHANGED <<lock, closeTask, op>>
    BY <1>15 DEF StopBegins, TypeOK
  <2> QED
    BY <1>a, <2>1 DEF Connecting, Closing, OpWaits
<1>16. CASE StopCloses
  BY <1>d, <1>16 DEF StopCloses, OpWaits
<1>17. CASE StopFinishes \/ ReceiverEnds \/ Tick \/ TvChanges \/ Disconnect
              \/ UNCHANGED vars
  BY <1>b, <1>17 DEF StopFinishes, ReceiverEnds, Tick, TvChanges, Disconnect, vars,
    OpWaits
<1>18. CASE CancelConnect
  <2>1. connect'.pc = connect.pc /\ UNCHANGED <<lock, closeTask, op>>
    BY <1>18 DEF CancelConnect, TypeOK
  <2> QED
    BY <1>a, <2>1 DEF Connecting, Closing, OpWaits
<1> QED
  BY <1>1, <1>2, <1>3, <1>4, <1>5, <1>6, <1>7, <1>8, <1>9, <1>10, <1>11, <1>12,
     <1>13, <1>14, <1>15, <1>16, <1>17, <1>18
  DEF Next, OperationStep, ConnectStep, CloseStep, StopStep, Closers

\* The lock is the queue of exactly those who wait for it.
LEMMA LockHolds == Spec => [](TypeOK /\ LockInv)
<1>1. Init => TypeOK /\ LockInv
  BY TypeInit, LockInit
<1>2. TypeOK /\ LockInv /\ [Next]_vars => (TypeOK /\ LockInv)'
  BY TypeStep, LockStep
<1> QED
  BY <1>1, <1>2, PTL DEF Spec

LockServed ==
  /\ \A a \in Waiting : \E i \in DOMAIN lock : lock[i] = a
  /\ \A i, j \in DOMAIN lock : lock[i] = lock[j] => i = j
  /\ lock # <<>> => Head(lock) \in Waiting
  /\ connect.pc = "handshake" => Holds("connect")

\* Through cancellations, joined closes, deadlines that pass in the queue and
\* retries: whoever waits for the lifecycle lock is in its queue and is in it
\* once, what holds it is a task that has not let it go yet, and nobody shakes
\* hands without it.
THEOREM LockIsServed == Spec => []LockServed
<1>1. TypeOK /\ LockInv => LockServed
  <2> SUFFICES ASSUME TypeOK, LockInv PROVE LockServed
    OBVIOUS
  <2>1. /\ lock \in Seq(Actors) /\ DOMAIN lock = 1..Len(lock)
        /\ Waiting = {lock[i] : i \in 1..Len(lock)}
        /\ \A i, j \in 1..Len(lock) : lock[i] = lock[j] => i = j
    BY DEF LockInv, IsQueueOf, TypeOK
  <2>2. lock # <<>> => 1 \in 1..Len(lock) /\ Head(lock) = lock[1]
    BY <2>1
  <2> QED
    BY <2>1, <2>2 DEF LockServed, LockInv
<1> QED
  BY <1>1, LockHolds, PTL

\* Who has joined a task waits for one that is there to end.
JoinInv ==
  /\ \A o \in Ops : op[o] = "joining" => connect.pc # "idle"
  /\ \A o \in Ops : op[o] = "reporting" => Closing
  /\ stopTask = "closing" => Closing
  /\ connect.pc = "closing" => closeTask # "none"

\* Scheduling a close leaves one under way, or the finished one if it may do.
LEMMA CloseScheduled ==
  ASSUME TypeOK, NEW queue, NEW force \in BOOLEAN, ScheduleClose(queue, force)
  PROVE  /\ Closing => Closing'
         /\ closeTask' # "none"
         /\ closeTask # "done" => Closing'
<1>1. \/ closeTask' = "queued"
      \/ closeTask' = closeTask /\ closeTask # "none"
  BY Zenon DEF ScheduleClose
<1> QED
  BY <1>1 DEF Closing, TypeOK

\* Every step keeps JoinInv.
LEMMA JoinStep == TypeOK /\ JoinInv /\ [Next]_vars => JoinInv'
<1> SUFFICES ASSUME TypeOK, JoinInv, [Next]_vars PROVE JoinInv'
  OBVIOUS
<1> USE DEF policy, transport, world
<1>a. ASSUME connect'.pc = connect.pc, Closing => Closing',
             closeTask' # "none" \/ closeTask' = closeTask,
             stopTask' = "closing" => stopTask = "closing" \/ Closing',
             \A o \in Ops : \/ op'[o] = op[o]
                            \/ op'[o] \notin {"joining", "reporting"}
                            \/ op'[o] = "reporting" /\ Closing'
      PROVE  JoinInv'
  BY <1>a DEF JoinInv
<1>b. ASSUME UNCHANGED <<connect, closeTask, stopTask>>,
             \A o \in Ops : op'[o] = op[o] \/ op'[o] \notin {"joining", "reporting"}
      PROVE  JoinInv'
  <2>1. Closing' = Closing
    BY <1>b DEF Closing
  <2> QED
    BY <1>a, <1>b, <2>1
<1>c. ASSUME MayConnect, NEW e, ScheduleConnect(e), stopTask' = stopTask,
             \A o \in Ops : op'[o] = op[o] \/ op'[o] # "reporting"
      PROVE  JoinInv'
  <2>1. ~Closing /\ connect'.pc = "opening"
    BY <1>c DEF MayConnect, CloseFinished, ScheduleConnect, Closing
  <2> QED
    BY <1>c, <2>1 DEF JoinInv
<1>d. ASSUME NEW queue, GiveUp(queue) PROVE JoinInv'
  <2>1. /\ connect'.pc = "closing" /\ UNCHANGED <<op, stopTask>>
        /\ ScheduleClose(queue, terminal /\ closeTask = "done")
    BY <1>d DEF GiveUp, TypeOK
  <2>2. (terminal /\ closeTask = "done") \in BOOLEAN
    OBVIOUS
  <2>3. (Closing => Closing') /\ closeTask' # "none"
    BY <2>1, <2>2, CloseScheduled
  <2> QED
    BY <2>1, <2>3 DEF JoinInv
<1>e. ASSUME NEW to \in {"running", "idle"}, op' = Joined("joining", to),
             connect' = NoConnect, UNCHANGED <<closeTask, stopTask>>
      PROVE  JoinInv'
  <2>1. /\ \A o \in Ops : op'[o] = IF op[o] = "joining" THEN to ELSE op[o]
        /\ connect'.pc = "idle" /\ Closing' = Closing
    BY <1>e DEF Joined, NoConnect, Closing
  <2> QED
    BY <1>e, <2>1 DEF JoinInv
<1>f. ASSUME CloseDone, connect' = connect PROVE JoinInv'
  <2>1. /\ \A o \in Ops : op'[o] = IF op[o] = "reporting" THEN "idle" ELSE op[o]
        /\ closeTask' = "done" /\ stopTask' # "closing"
    BY <1>f DEF CloseDone, Joined
  <2> QED
    BY <1>f, <2>1 DEF JoinInv
<1>1. CASE Start
  BY <1>b, <1>1 DEF Start
<1>2. ASSUME NEW r, NEW eligible, Heartbeat(r, eligible) PROVE JoinInv'
  <2>1. UNCHANGED <<op, stopTask>>
    BY <1>2 DEF Heartbeat
  <2>2. \/ MayConnect /\ \E e \in BOOLEAN : ScheduleConnect(e)
        \/ UNCHANGED <<connect, closeTask, lock>>
    BY <1>2 DEF Heartbeat
  <2> QED
    BY <1>b, <1>c, <2>1, <2>2
<1>3. ASSUME NEW o \in Ops, Operate(o) PROVE JoinInv'
  <2>1. \/ /\ op' = [op EXCEPT ![o] = "running"]
           /\ UNCHANGED <<connect, closeTask, stopTask>>
        \/ /\ op' = [op EXCEPT ![o] = "joining"] /\ connect.pc # "idle"
           /\ UNCHANGED <<connect, closeTask, stopTask>>
        \/ /\ op' = [op EXCEPT ![o] = "joining"] /\ stopTask' = stopTask
           /\ MayConnect /\ ScheduleConnect(retry.wait = 0)
    BY <1>3 DEF Operate
  <2>2. CASE /\ op' = [op EXCEPT ![o] = "running"]
             /\ UNCHANGED <<connect, closeTask, stopTask>>
    BY <1>b, <2>2 DEF TypeOK
  <2>3. CASE /\ op' = [op EXCEPT ![o] = "joining"] /\ connect.pc # "idle"
             /\ UNCHANGED <<connect, closeTask, stopTask>>
    BY <2>3 DEF TypeOK, JoinInv, Closing
  <2>4. CASE /\ op' = [op EXCEPT ![o] = "joining"] /\ stopTask' = stopTask
             /\ MayConnect /\ ScheduleConnect(retry.wait = 0)
    BY <1>c, <2>4 DEF TypeOK
  <2> QED
    BY <2>1, <2>2, <2>3, <2>4
<1>4. ASSUME NEW o \in Ops, Complete(o) \/ TimeOut(o) \/ Fail(o) PROVE JoinInv'
  BY <1>b, <1>4 DEF Complete, TimeOut, Fail, TypeOK
<1>5. ASSUME NEW o \in Ops, ReportFailure(o) PROVE JoinInv'
  <2>1. UNCHANGED <<connect, stopTask>>
    BY <1>5 DEF ReportFailure
  <2>2. CASE started
    <3>1. /\ ScheduleClose(lock, FALSE)
          /\ op' = [op EXCEPT ![o] = IF closeTask = "done" THEN "idle"
                                     ELSE "reporting"]
      BY <1>5, <2>2 DEF ReportFailure
    <3>2. /\ Closing => Closing'
          /\ closeTask' # "none"
          /\ closeTask # "done" => Closing'
      BY <3>1, CloseScheduled
    <3> QED
      BY <1>a, <2>1, <3>1, <3>2 DEF TypeOK
  <2>3. CASE ~started
    BY <1>b, <1>5, <2>1, <2>3 DEF ReportFailure, TypeOK
  <2> QED
    BY <2>2, <2>3
<1>6. CASE OpenExisting \/ OpenRefused \/ HandshakeSucceeds \/ ConnectFinishes
  BY <1>e, <1>6 DEF OpenExisting, OpenRefused, HandshakeSucceeds, Connected,
    ConnectFinishes
<1>7. CASE OpenHandshake
  BY <1>7 DEF OpenHandshake, TypeOK, JoinInv, Closing
<1>8. CASE HandshakeFails \/ HandshakeHostless \/ ReceiverDoesNotStart
             \/ ConnectCancelled
  BY <1>d, <1>8 DEF HandshakeFails, HandshakeHostless, ReceiverDoesNotStart,
    ConnectCancelled
<1>9. ASSUME NEW c \in Closers, CloseDrops(c) PROVE JoinInv'
  <2>1. CloseTo(c, "draining") /\ Queued(c) /\ UNCHANGED <<connect, stopTask>>
    BY <1>9 DEF CloseDrops
  <2>2. CASE c = "close"
    <3>1. closeTask' = "draining" /\ op' = op
      BY <2>1, <2>2 DEF CloseTo
    <3>2. Closing'
      BY <3>1 DEF Closing
    <3> QED
      BY <1>a, <2>1, <3>1, <3>2
  <2>3. CASE c # "close"
    BY <1>b, <2>1, <2>3 DEF CloseTo, TypeOK, Closers
  <2> QED
    BY <2>2, <2>3
<1>10. ASSUME NEW c \in Closers, CloseReleases(c) PROVE JoinInv'
  BY <1>b, <1>f, <1>10 DEF CloseReleases, TypeOK, Closers
<1>11. CASE CloseTimesOut
  BY <1>f, <1>11 DEF CloseTimesOut
<1>12. CASE StopBegins
  BY <1>12 DEF StopBegins, TypeOK, JoinInv, Closing
<1>13. CASE StopCloses
  <2>1. /\ ScheduleClose(lock, FALSE) /\ UNCHANGED <<connect, op>>
        /\ stopTask' = IF closeTask = "done" THEN "closed" ELSE "closing"
    BY <1>13 DEF StopCloses
  <2>2. /\ Closing => Closing'
        /\ closeTask' # "none"
        /\ closeTask # "done" => Closing'
    BY <2>1, CloseScheduled
  <2> QED
    BY <1>a, <2>1, <2>2
<1>14. CASE StopFinishes \/ ReceiverEnds \/ Tick \/ TvChanges \/ Disconnect
              \/ UNCHANGED vars
  BY <1>14 DEF StopFinishes, ReceiverEnds, Tick, TvChanges, Disconnect, vars,
    JoinInv, Closing
<1>15. CASE CancelConnect
  BY <1>15 DEF CancelConnect, TypeOK, JoinInv, Closing
<1> QED
  BY <1>1, <1>2, <1>3, <1>4, <1>5, <1>6, <1>7, <1>8, <1>9, <1>10, <1>11, <1>12,
     <1>13, <1>14, <1>15
  DEF Next, OperationStep, ConnectStep, CloseStep, StopStep, Closers

\* No wakeup is lost: an operation that joined a connect attempt has one to wait
\* for, what reported a failure, a stop and an attempt that is closing have a
\* close that is under way or over, and that close is in the queue of the lock,
\* the holder of which is at work.  No task is left waiting for one that ended.
THEOREM NobodyJoinsInVain == Spec => [](JoinInv /\ LockServed)
<1>1. Init => JoinInv
  BY DEF Init, JoinInv, NoConnect
<1> QED
  BY <1>1, JoinStep, TypeCorrect, LockIsServed, PTL DEF Spec
===============================================================================
