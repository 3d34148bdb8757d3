----------------------------- MODULE IntegrationProof -----------------------------
(***************************************************************************)
(* Theorems about Integration: the session and the coordinator, joined as  *)
(* in the code, are each the specification that describes it alone.        *)
(***************************************************************************)
EXTENDS Integration, ArtSessionProof

\* Coordinator's assumption on the two limits (CountAssumption).
Counts == OffDebounceCount \in Nat \ {0} /\ ArtFailUnknownCount \in Nat \ {0}

-------------------------------------------------------------------------------
(* The session *)

\* A step of the composition is one of the session's or leaves it alone.
LEMMA SessionMoves == [SystemNext]_system => [Next]_vars
<1> SUFFICES ASSUME [SystemNext]_system PROVE [Next]_vars
  OBVIOUS
<1>1. CASE SessionStep
  BY <1>1 DEF SessionStep, Next, StopStep
<1>2. ASSUME NEW p \in Polls, NEW r \in BOOLEAN, NEW pow, Observe(p, r, pow)
      PROVE  [Next]_vars
  BY <1>2 DEF Observe, Next
<1>3. CASE CoordinatorStep
  BY <1>3 DEF CoordinatorStep
<1>4. CASE StopReaches
  BY <1>4 DEF StopReaches, Next, StopStep
<1>5. CASE TelevisionChanges
  BY <1>5 DEF TelevisionChanges, Next
<1>6. CASE UNCHANGED system
  BY <1>6 DEF system
<1> QED
  BY <1>1, <1>2, <1>3, <1>4, <1>5, <1>6 DEF SystemNext, Observes

\* The coordinator restricts when the session hears of the television and when
\* it stops, and makes it do nothing of its own: whatever is proved of the
\* session holds in the composition.
THEOREM SystemRunsSession == System => Spec
<1>1. SystemInit => Init
  BY DEF SystemInit
<1> QED
  BY <1>1, SessionMoves, PTL DEF System, Spec

\* What is known of the session in every state.
SessionInv == TypeOK /\ FenceInv /\ SupervisorInv /\ StopInv

\* It is known of the composition as well.
LEMMA SessionHolds == System => []SessionInv
BY SystemRunsSession, InvariantHolds, StopHolds, PTL DEF SessionInv

-------------------------------------------------------------------------------
(* Both ends agree *)

Agreement == BothAgree /\ unreachable \in Nat

\* A poll that has its answer counts it and moves on from there.
LEMMA PolledFacts ==
  ASSUME NEW p, NEW r, NEW pow, Coord!Polled(p, r, pow)
  PROVE  /\ poll[p].pc = "rest" /\ entry' = entry
         /\ unreachable' = Coord!Misses(r)
BY DEF Coord!Polled, Coord!cache

\* The count is zero exactly after an answer.
LEMMA MissesFacts ==
  ASSUME Counts, NEW r \in BOOLEAN, unreachable \in Nat
  PROVE  Coord!Misses(r) \in Nat /\ (r <=> Coord!Misses(r) = 0)
BY DEF Counts, Coord!Misses, Coord!Smaller

\* What no step of SessionStep touches.
LEMMA SessionFrame ==
  ASSUME SessionStep
  PROVE  UNCHANGED <<tv, terminal, reachable>> /\ started' \in {started, TRUE}
<1> USE DEF policy, transport, world
<1>1. ASSUME NEW o \in Ops, OperationStep(o)
      PROVE  UNCHANGED <<tv, terminal, reachable, started>>
  BY <1>1 DEF OperationStep, Operate, Complete, TimeOut, Fail, ReportFailure
<1>2. ASSUME ConnectStep
      PROVE  UNCHANGED <<tv, terminal, reachable, started>>
  BY <1>2 DEF ConnectStep, OpenExisting, OpenRefused, OpenHandshake,
    HandshakeSucceeds, Connected, HandshakeFails, HandshakeHostless,
    ReceiverDoesNotStart, ConnectCancelled, ConnectFinishes, GiveUp
<1>3. ASSUME NEW c \in Closers, CloseStep(c)
      PROVE  UNCHANGED <<tv, terminal, reachable, started>>
  BY <1>3 DEF CloseStep, CloseDrops, CloseReleases
<1>4. ASSUME CloseTimesOut \/ ReceiverEnds \/ StopCloses \/ StopFinishes \/ Tick
               \/ Disconnect \/ CancelConnect
      PROVE  UNCHANGED <<tv, terminal, reachable, started>>
  BY <1>4 DEF CloseTimesOut, ReceiverEnds, StopCloses, StopFinishes, Tick,
    Disconnect, CancelConnect
<1>5. ASSUME Start
      PROVE  UNCHANGED <<tv, terminal, reachable>> /\ started' \in {started, TRUE}
  BY <1>5 DEF Start
<1> QED
  BY <1>1, <1>2, <1>3, <1>4, <1>5 DEF SessionStep, Closers

\* What a poll's observation does to the session.
LEMMA HeartbeatFacts ==
  ASSUME TypeOK, NEW r \in BOOLEAN, NEW eligible \in BOOLEAN,
         Heartbeat(r, eligible)
  PROVE  /\ reachable' = r
         /\ UNCHANGED <<tv, terminal, started, generation, socket, receiver>>
         /\ state' = "ready" <=> state = "ready" /\ ~(r /\ eligible /\ ~Alive)
         /\ retry'.answers = IF r /\ ~reachable THEN 0 ELSE retry.answers
<1> USE DEF policy, transport, world
<1> DEFINE base == IF r /\ ~reachable THEN EdgeReset(retry) ELSE retry
<1>1. base \in Retries
      /\ base.answers = IF r /\ ~reachable THEN 0 ELSE retry.answers
  BY ResetFacts DEF EdgeReset, TypeOK, Retries
<1>2. \A x \in GenericFailure(base) : x.answers = base.answers
  BY <1>1, GenericFailureFacts
<1>3. \/ retry' \in GenericFailure(base) /\ state' \in {"connecting", "backoff"}
           /\ state = "ready" /\ r /\ eligible /\ ~Alive
      \/ retry' = base /\ state \in {"backoff", "dormant"} /\ state' = "connecting"
      \/ retry' = base /\ state' = state /\ ~(r /\ eligible /\ state = "ready" /\ ~Alive)
  BY DEF Heartbeat, ScheduleConnect, RecordGeneric
<1> HIDE DEF base
<1>4. retry'.answers = base.answers
  BY <1>2, <1>3
<1>5. UNCHANGED <<tv, terminal, started, generation, socket, receiver>>
      /\ reachable' = r
  BY DEF Heartbeat
<1> QED
  BY <1>1, <1>3, <1>4, <1>5

\* What the coordinator's own steps leave to the session and to the entry.
LEMMA CoordinatorFacts ==
  ASSUME CoordinatorStep
  PROVE  /\ UNCHANGED <<vars, screen, unreachable>>
         /\ \/ entry' = entry /\ poll' = poll
            \/ entry' = entry /\ \E p \in Polls : poll[p].pc # "idle"
            \/ started /\ entry = "loaded" /\ entry' \in {"loaded", "unloading"}
            \/ /\ stopTask = "done" /\ entry = "stopping" /\ entry' = "unloaded"
               /\ poll' = [p \in Polls |-> Coord!Idle]
<1> USE DEF Coord!channel, Coord!cache, Coord!counts, Coord!published
<1>1. ASSUME NEW p \in Polls, started, Coord!PollBegins(p) \/ Coord!RequestReconcile(p)
      PROVE  /\ UNCHANGED <<screen, unreachable, entry>>
             /\ entry = "loaded"
  BY <1>1 DEF Coord!PollBegins, Coord!RequestReconcile, Coord!Begins
<1>2. ASSUME NEW p \in Polls, NEW value, Coord!ModeAnswers(p, value)
      PROVE  UNCHANGED <<screen, unreachable, entry>> /\ poll[p].pc # "idle"
  BY <1>2 DEF Coord!ModeAnswers, Coord!Steady
<1>3. ASSUME NEW p \in Polls, Coord!CurrentAnswers(p) \/ Coord!SettingsAnswer(p)
                \/ Coord!SlideshowAnswers(p) \/ Coord!ExtrasAnswer(p)
                \/ Coord!PollTimesOut(p)
      PROVE  UNCHANGED <<screen, unreachable, entry>> /\ poll[p].pc # "idle"
  BY <1>3 DEF Coord!CurrentAnswers, Coord!SettingsAnswer, Coord!SlideshowAnswers,
    Coord!ExtrasAnswer, Coord!PollTimesOut, Coord!Steady
<1>4. ASSUME Coord!Push \/ Coord!ReconcileComesDue
      PROVE  UNCHANGED <<screen, unreachable, entry, poll>>
  BY <1>4 DEF Coord!Push, Coord!PushMode, Coord!PushCurrent, Coord!PushStandby,
    Coord!ReconcileComesDue
<1>5. ASSUME Coord!UnloadBegins
      PROVE  /\ UNCHANGED <<screen, unreachable>>
             /\ entry = "loaded" /\ entry' = "unloading"
  BY <1>5 DEF Coord!UnloadBegins
<1>6. ASSUME Coord!UnloadEnds
      PROVE  /\ UNCHANGED <<screen, unreachable>>
             /\ entry = "stopping" /\ entry' = "unloaded"
             /\ poll' = [p \in Polls |-> Coord!Idle]
  BY <1>6 DEF Coord!UnloadEnds
<1> QED
  BY <1>1, <1>2, <1>3, <1>4, <1>5, <1>6 DEF CoordinatorStep

\* Both ends agree when the entry is set up.
LEMMA AgreementInit == SystemInit => Agreement
BY DEF SystemInit, Init, Coord!Init, Coord!Idle, Agreement, BothAgree

\* Every step keeps them so.
LEMMA AgreementStep ==
  Counts /\ SessionInv /\ Agreement /\ [SystemNext]_system => Agreement'
<1> SUFFICES ASSUME Counts, SessionInv, Agreement, [SystemNext]_system
             PROVE  Agreement'
  OBVIOUS
<1> USE DEF policy, transport, world
<1>a. started => ~terminal
  BY DEF SessionInv, SupervisorInv
<1>b. stopTask = "done" => terminal
  BY DEF SessionInv, StopInv
<1>1. CASE SessionStep
  <2>1. UNCHANGED <<screen, entry, poll, unreachable>>
    BY <1>1 DEF SessionStep, coordinator, snapshots
  <2>2. UNCHANGED <<tv, terminal, reachable>> /\ started' \in {started, TRUE}
    BY <1>1, SessionFrame
  <2>3. Agrees'
    BY <2>1, <2>2 DEF Agreement, BothAgree, Agrees
  <2>4. ~started' => ~started
    BY <2>2
  <2> QED
    BY <2>1, <2>2, <2>3, <2>4 DEF Agreement, BothAgree
<1>2. ASSUME NEW p \in Polls, NEW r \in BOOLEAN, NEW pow, Observe(p, r, pow)
      PROVE  Agreement'
  <2>1. poll[p].pc = "rest" /\ entry' = entry /\ unreachable' = Coord!Misses(r)
    BY <1>2, PolledFacts DEF Observe
  <2>2. unreachable' \in Nat /\ (r <=> unreachable' = 0)
    BY <2>1, MissesFacts DEF Agreement
  <2>3. started \/ terminal
    BY <2>1 DEF Agreement, BothAgree
  <2>4. CASE started
    <3> DEFINE eligible == pow \in {"on", "standby"} /\ ~(pow = "standby" /\ learned)
    <3>1. Heartbeat(r, eligible)
      BY <1>2, <2>4 DEF Observe
    <3>2. eligible \in BOOLEAN
      OBVIOUS
    <3> HIDE DEF eligible
    <3>3. reachable' = r /\ UNCHANGED <<tv, terminal, started>>
      BY <3>1, <3>2, HeartbeatFacts DEF SessionInv
    <3> QED
      BY <1>2, <2>1, <2>2, <2>4, <3>3 DEF Observe, Agreement, BothAgree, Agrees
  <2>5. CASE ~started
    <3>1. UNCHANGED <<tv, screen, terminal, started>> /\ terminal
      BY <1>2, <2>3, <2>5 DEF Observe, vars
    <3> QED
      BY <2>1, <2>2, <3>1 DEF Agreement, BothAgree, Agrees
  <2> QED
    BY <2>4, <2>5
<1>3. CASE CoordinatorStep
  <2>1. UNCHANGED <<tv, screen, terminal, started, reachable, unreachable>>
    BY <1>3, CoordinatorFacts DEF vars
  <2>2. terminal' <=> entry' \in {"stopping", "unloaded"}
    BY <1>3, <1>a, <1>b, <2>1, CoordinatorFacts DEF Agreement, BothAgree
  <2>3. ~started' /\ ~terminal' => \A p \in Polls : poll'[p].pc = "idle"
    BY <1>3, <1>b, <2>1, CoordinatorFacts DEF Agreement, BothAgree
  <2> QED
    BY <2>1, <2>2, <2>3 DEF Agreement, BothAgree, Agrees
<1>4. CASE StopReaches
  <2>1. terminal' /\ entry' = "stopping" /\ UNCHANGED <<tv, screen, unreachable>>
    BY <1>4 DEF StopReaches, StopBegins, snapshots
  <2> QED
    BY <2>1 DEF Agreement, BothAgree, Agrees
<1>5. CASE TelevisionChanges
  <2>1. UNCHANGED <<terminal, started, reachable, entry, poll, unreachable>>
        /\ Agrees'
    BY <1>5 DEF TelevisionChanges, TvChanges, vars, coordinator, snapshots
  <2> QED
    BY <2>1 DEF Agreement, BothAgree
<1>6. CASE UNCHANGED system
  BY <1>6 DEF system, vars, coordinator, snapshots, Agreement, BothAgree, Agrees
<1> QED
  BY <1>1, <1>2, <1>3, <1>4, <1>5, <1>6 DEF SystemNext, Observes

\* The coordinator keeps of the television and of the entry what the session
\* keeps, though each writes down its own: a poll announces the reachable edge
\* exactly to a session that has one, whichever poll it is and whatever the
\* session was doing, and no poll runs before the session is started.
THEOREM BothAgreeHolds ==
  ASSUME Counts
  PROVE  System => []BothAgree
<1>1. SessionInv /\ Agreement /\ [SystemNext]_system => Agreement'
  BY AgreementStep
<1>2. Agreement => BothAgree
  BY DEF Agreement
<1> QED
  BY <1>1, <1>2, AgreementInit, SessionHolds, PTL DEF System

-------------------------------------------------------------------------------
(* The coordinator's channel is the session *)

\* What a step of the session alone can do to what the coordinator reads of it.
StaysOrGoesDown ==
  generation' = generation /\ (Ready' => Ready) /\ retry'.answers = retry.answers
ComesUp ==
  /\ ~terminal /\ ~Ready /\ Ready' /\ generation' = generation + 1
  /\ retry'.answers = 0
NoHostAnswered ==
  /\ ~terminal /\ tv = "hostless" /\ ~Ready /\ ~Ready' /\ generation' = generation
  /\ retry'.answers >= retry.answers

\* Connecting to a socket that is alive brings the channel up.
LEMMA ConnectedFacts ==
  ASSUME SessionInv, Connected, connect.pc # "idle", Alive'
  PROVE  ComesUp
<1>1. /\ ~terminal /\ generation' = generation + 1 /\ state' = "ready"
      /\ retry' = NoteConnected(retry)
  BY DEF Connected
<1>2. ~Ready
  BY <1>1 DEF Ready, SessionInv, SupervisorInv, StateMatchesTask
<1>3. retry'.answers = 0
  BY <1>1, ResetFacts DEF SessionInv, TypeOK
<1> QED
  BY <1>1, <1>2, <1>3 DEF ComesUp, Ready

\* A step of the session alone does one of the three.
LEMMA SessionCases ==
  ASSUME SessionInv, SessionStep
  PROVE  StaysOrGoesDown \/ ComesUp \/ NoHostAnswered
<1> USE DEF policy, transport, world
<1>a. /\ generation \in Nat /\ retry \in Retries /\ retry.answers \in Nat
      /\ socket # 0 => receiver = socket
  BY DEF SessionInv, TypeOK, FenceInv, OneTransport, Retries
<1>b. ASSUME UNCHANGED <<generation, socket, receiver>>,
             state' = "ready" => state = "ready", retry'.answers = retry.answers
      PROVE  StaysOrGoesDown
  BY <1>b DEF StaysOrGoesDown, Ready, Alive
<1>c. ASSUME UNCHANGED <<generation, retry>>, ~Alive' PROVE StaysOrGoesDown
  BY <1>c DEF StaysOrGoesDown, Ready
<1>d. ASSUME RecordGeneric(retry)
      PROVE  retry'.answers = retry.answers /\ state' = "backoff"
  BY <1>a, <1>d, GenericFailureFacts DEF RecordGeneric
<1>1. CASE Start
  BY <1>a, <1>b, <1>1 DEF Start, Reset, Retries
<1>2. ASSUME NEW o \in Ops, OperationStep(o) PROVE StaysOrGoesDown
  <2>1. UNCHANGED <<generation, socket, receiver>>
    BY <1>2 DEF OperationStep, Operate, Complete, TimeOut, Fail, ReportFailure
  <2>2. CASE ReportFailure(o) /\ started
    BY <1>b, <1>d, <2>1, <2>2 DEF ReportFailure
  <2>3. CASE ~(ReportFailure(o) /\ started)
    <3>1. state' \in {"connecting", state} /\ retry' = retry
      BY <1>2, <2>3 DEF OperationStep, Operate, Complete, TimeOut, Fail,
        ReportFailure, ScheduleConnect
    <3> QED
      BY <1>b, <2>1, <3>1
  <2> QED
    BY <2>2, <2>3
<1>3. CASE OpenExisting
  <2>1. Alive'
    BY <1>a, <1>3 DEF OpenExisting, Alive
  <2> QED
    BY <1>3, <2>1, ConnectedFacts DEF OpenExisting, Opening
<1>4. CASE HandshakeSucceeds
  <2>1. Alive'
    BY <1>a, <1>4 DEF HandshakeSucceeds, Alive
  <2> QED
    BY <1>4, <2>1, ConnectedFacts DEF HandshakeSucceeds, Handshaking
<1>5. CASE OpenRefused
  BY <1>a, <1>b, <1>5 DEF OpenRefused, Retries
<1>6. CASE OpenHandshake \/ ConnectFinishes \/ CancelConnect
  BY <1>b, <1>6 DEF OpenHandshake, ConnectFinishes, CancelConnect
<1>7. CASE HandshakeFails
  BY <1>b, <1>d, <1>7 DEF HandshakeFails, GiveUp
<1>8. CASE ReceiverDoesNotStart
  <2>1. generation' = generation
    BY <1>8 DEF ReceiverDoesNotStart, GiveUp
  <2> QED
    BY <1>d, <1>8, <2>1 DEF ReceiverDoesNotStart, StaysOrGoesDown, Ready
<1>9. CASE ConnectCancelled
  <2>1. UNCHANGED <<generation, socket, receiver>>
    BY <1>9 DEF ConnectCancelled, GiveUp
  <2>2. RecordGeneric(retry) \/ UNCHANGED <<retry, state>>
    BY <1>9 DEF ConnectCancelled
  <2> QED
    BY <1>b, <1>d, <2>1, <2>2
<1>10. CASE HandshakeHostless
  <2>1. /\ generation' = generation /\ tv = "hostless"
        /\ connect.pc = "handshake" /\ ~connect.cancelled
        /\ UNCHANGED <<socket, receiver>>
    BY <1>10 DEF HandshakeHostless, GiveUp, Handshaking
  <2>2. ~terminal
    BY <2>1 DEF SessionInv, StopInv, Connecting
  <2>3. socket = 0
    BY <2>1 DEF SessionInv, FenceInv, OneTransport
  <2>4. ~Ready /\ ~Ready'
    BY <2>1, <2>3 DEF Ready, Alive
  <2>5. retry'.answers >= retry.answers
    <3>1. CountAnswer(retry) \in Retries
          /\ CountAnswer(retry).answers >= retry.answers
      <4>1. CountAnswer(retry) \in Retries
        BY <1>a, CountAnswerFacts
      <4>2. /\ retry.answers \in Nat /\ retry.answers =< HostFaultAnswers
            /\ CountAnswer(retry).answers = Smaller(retry.answers + 1, HostFaultAnswers)
        BY <1>a DEF CountAnswer, Retries, SessionInv, SupervisorInv
      <4>3. HostFaultAnswers \in Nat
        BY BoundAssumption DEF Positive
      <4> QED
        BY <4>1, <4>2, <4>3 DEF Smaller
    <3>2. CASE connect.evidence
      BY <1>10, <3>1, <3>2, HostlessFailureFacts DEF HandshakeHostless, RecordHostless
    <3>3. CASE ~connect.evidence
      <4>1. retry'.answers = retry.answers
        BY <1>a, <1>10, <3>3, HostlessFailureFacts
        DEF HandshakeHostless, RecordHostless
      <4> QED
        BY <1>a, <4>1
    <3> QED
      BY <3>2, <3>3
  <2> QED
    BY <2>1, <2>2, <2>4, <2>5 DEF NoHostAnswered
<1>11. ASSUME NEW c \in Closers, CloseDrops(c) PROVE StaysOrGoesDown
  BY <1>c, <1>11 DEF CloseDrops, Alive
<1>12. ASSUME NEW c \in Closers, CloseReleases(c) PROVE StaysOrGoesDown
  <2>1. socket = 0 /\ UNCHANGED <<generation, retry, socket>>
    BY <1>12 DEF CloseReleases, SessionInv, FenceInv
  <2> QED
    BY <1>c, <2>1 DEF Alive
<1>13. CASE CloseTimesOut \/ StopCloses \/ StopFinishes
  BY <1>b, <1>13 DEF CloseTimesOut, StopCloses, StopFinishes
<1>14. CASE ReceiverEnds
  BY <1>c, <1>14 DEF ReceiverEnds, Alive
<1>15. CASE Tick
  <2>1. retry'.answers = retry.answers
    BY <1>a, <1>15 DEF Tick, Retries
  <2> QED
    BY <1>b, <1>15, <2>1 DEF Tick
<1>16. CASE Disconnect
  BY <1>c, <1>16 DEF Disconnect, Alive
<1> QED
  BY <1>1, <1>2, <1>3, <1>4, <1>5, <1>6, <1>7, <1>8, <1>9, <1>10, <1>11, <1>12,
     <1>13, <1>14, <1>15, <1>16
  DEF SessionStep, ConnectStep, CloseStep, Closers

\* Counting answers can only raise the fault, and no answers is no fault.
LEMMA FaultFacts ==
  /\ HostFault \in BOOLEAN
  /\ retry'.answers = retry.answers => HostFault' = HostFault
  /\ retry'.answers = 0 => HostFault' = FALSE
  /\ SessionInv /\ retry'.answers \in Nat /\ retry'.answers >= retry.answers
       => HostFault' = HostFault \/ HostFault' = TRUE
<1>1. HostFaultAnswers \in Nat /\ HostFaultAnswers > 0
  BY BoundAssumption DEF Positive
<1>2. SessionInv => retry.answers \in Nat
  BY DEF SessionInv, TypeOK, Retries
<1> QED
  BY <1>1, <1>2 DEF HostFault

\* What the session does alone is a move of the channel, a fault of its host or
\* nothing the coordinator sees.
LEMMA SessionSimulates ==
  ASSUME SessionInv, SessionInv', Agreement, Epochs = Nat, SessionStep
  PROVE  [Coord!Next]_(Coord!vars)
<1> USE DEF Coord!channel, Coord!cache, Coord!counts, Coord!published
<1>1. UNCHANGED <<screen, coordinator>>
  BY DEF SessionStep
<1>2. UNCHANGED <<screen, entry, poll, art, current, revision, optional, learned,
                  power, unreachable, streak, reconcile, data, success, repair>>
  BY <1>1 DEF coordinator, snapshots
<1>3. ~terminal => ~Coord!Retired
  BY DEF Agreement, BothAgree, Coord!Retired
<1>4. Coord!Retired' = Coord!Retired
  BY <1>2 DEF Coord!Retired
<1>5. Ready \in BOOLEAN /\ Ready' \in BOOLEAN
  BY DEF Ready
<1>6. generation \in Nat
  BY DEF SessionInv, TypeOK
<1>7. CASE StaysOrGoesDown
  <2>1. generation' = generation /\ HostFault' = HostFault
    BY <1>7, FaultFacts DEF StaysOrGoesDown
  <2>2. CASE Ready' = Ready
    BY <1>2, <2>1, <2>2 DEF Coord!vars
  <2>3. CASE Ready' # Ready
    <3>1. Ready /\ ~Ready'
      BY <1>5, <1>7, <2>3 DEF StaysOrGoesDown
    <3>2. Coord!Channel!Lose
      BY <1>4, <2>1, <3>1 DEF Coord!Channel!Lose
    <3>3. Coord!ChannelLost
      BY <1>2, <2>1, <3>2 DEF Coord!ChannelLost
    <3> QED
      BY <3>3 DEF Coord!Next
  <2> QED
    BY <2>2, <2>3
<1>8. CASE ComesUp
  <2>1. HostFault' = FALSE
    BY <1>8, FaultFacts DEF ComesUp
  <2>2. generation + 1 \in Epochs
    BY <1>6
  <2>3. Coord!Channel!Establish
    BY <1>3, <1>4, <1>8 DEF ComesUp, Coord!Channel!Establish
  <2>4. Coord!ChannelUp
    BY <1>2, <2>1, <2>2, <2>3 DEF Coord!ChannelUp
  <2> QED
    BY <2>4 DEF Coord!Next
<1>9. CASE NoHostAnswered
  <2>1. generation' = generation /\ Ready' = Ready /\ ~Ready
    BY <1>5, <1>9 DEF NoHostAnswered
  <2>2. screen # "gone" /\ ~Coord!Retired
    BY <1>3, <1>9 DEF NoHostAnswered, Agreement, BothAgree, Agrees
  <2>3. HostFault' = HostFault \/ HostFault' = TRUE
    <3>1. retry'.answers \in Nat
      BY DEF SessionInv, TypeOK, Retries
    <3> QED
      BY <1>9, <3>1, FaultFacts DEF NoHostAnswered
  <2>4. CASE HostFault' = HostFault
    BY <1>2, <2>1, <2>4 DEF Coord!vars
  <2>5. CASE HostFault' = TRUE
    <3>1. Coord!HostFaultArises
      BY <1>2, <2>1, <2>2, <2>5 DEF Coord!HostFaultArises
    <3> QED
      BY <3>1 DEF Coord!Next
  <2> QED
    BY <2>3, <2>4, <2>5
<1> QED
  BY <1>7, <1>8, <1>9, SessionCases

\* A poll's observation is the answer as the coordinator heard it: it leaves the
\* channel as it is and clears the fault exactly at a reachable edge.
LEMMA ObservationSimulates ==
  ASSUME SessionInv, Agreement, NEW p \in Polls, NEW r \in BOOLEAN, NEW pow,
         Observe(p, r, pow)
  PROVE  Coord!Hear(p, r, pow)
<1> USE DEF policy, transport, world
<1>1. Coord!Polled(p, r, pow) /\ UNCHANGED screen
  BY DEF Observe
<1>2. started \/ terminal
  BY <1>1, PolledFacts DEF Agreement, BothAgree
<1>3. HostFault \in BOOLEAN
  BY FaultFacts
<1>4. CASE started
  <2> DEFINE eligible == pow \in {"on", "standby"} /\ ~(pow = "standby" /\ learned)
  <2>1. Heartbeat(r, eligible)
    BY <1>4 DEF Observe
  <2>2. eligible \in BOOLEAN
    OBVIOUS
  <2> HIDE DEF eligible
  <2>3. /\ UNCHANGED <<generation, socket, receiver>>
        /\ state' = "ready" <=> state = "ready" /\ ~(r /\ eligible /\ ~Alive)
        /\ retry'.answers = IF r /\ ~reachable THEN 0 ELSE retry.answers
    BY <2>1, <2>2, HeartbeatFacts DEF SessionInv
  <2>4. Ready' = Ready
    BY <2>3 DEF Ready, Alive
  <2>5. ~terminal /\ ~Coord!Retired /\ (~reachable <=> unreachable # 0)
    BY <1>4 DEF SessionInv, SupervisorInv, Agreement, BothAgree, Coord!Retired
  <2>6. HostFault' = (HostFault /\ ~(r /\ unreachable # 0 /\ ~Coord!Retired))
    <3>1. CASE r /\ ~reachable
      BY <2>3, <2>5, <3>1, FaultFacts
    <3>2. CASE ~(r /\ ~reachable)
      <4>1. HostFault' = HostFault
        BY <2>3, <3>2, FaultFacts
      <4> QED
        BY <1>3, <2>5, <3>2, <4>1
    <3> QED
      BY <3>1, <3>2
  <2> QED
    BY <1>1, <2>3, <2>4, <2>6 DEF Coord!Hear, Coord!channel
<1>5. CASE ~started
  <2>1. UNCHANGED vars
    BY <1>5 DEF Observe
  <2>2. UNCHANGED <<state, generation, socket, receiver, retry>>
    BY <2>1 DEF vars
  <2>3. Ready' = Ready /\ HostFault' = HostFault
    BY <2>2 DEF Ready, Alive, HostFault
  <2>4. Coord!Retired
    BY <1>2, <1>5 DEF Agreement, BothAgree, Coord!Retired
  <2>5. HostFault' = (HostFault /\ ~(r /\ unreachable # 0 /\ ~Coord!Retired))
    BY <1>3, <2>3, <2>4
  <2> QED
    BY <1>1, <2>2, <2>3, <2>5 DEF Coord!Hear, Coord!channel
<1> QED
  BY <1>4, <1>5

\* Every step of the composition is one of the coordinator's over its channel.
LEMMA SystemSimulates ==
  SessionInv /\ SessionInv' /\ Agreement /\ Epochs = Nat /\ [SystemNext]_system
    => [Coord!Next]_(Coord!vars)
<1> SUFFICES ASSUME SessionInv, SessionInv', Agreement, Epochs = Nat,
                    [SystemNext]_system
             PROVE  [Coord!Next]_(Coord!vars)
  OBVIOUS
<1> USE DEF policy, transport, world, Coord!channel, Coord!cache, Coord!counts,
            Coord!published
<1>1. CASE SessionStep
  BY <1>1, SessionSimulates
<1>2. ASSUME NEW p \in Polls, Observes(p) PROVE [Coord!Next]_(Coord!vars)
  <2>1. ASSUME NEW pow \in Coord!RestPowers, Observe(p, TRUE, pow)
        PROVE  Coord!Answered(p)
    <3>1. Coord!Hear(p, TRUE, pow)
      BY <2>1, ObservationSimulates
    <3> QED
      BY <3>1 DEF Coord!Answered
  <2>2. ASSUME Observe(p, FALSE, "none") PROVE Coord!Unanswered(p)
    <3>1. Coord!Hear(p, FALSE, "none")
      BY <2>2, ObservationSimulates
    <3> QED
      BY <3>1 DEF Coord!Unanswered
  <2>3. Coord!PollStep(p)
    BY <1>2, <2>1, <2>2 DEF Observes, Coord!PollStep
  <2> QED
    BY <2>3 DEF Coord!Next
<1>3. CASE CoordinatorStep
  BY <1>3 DEF CoordinatorStep, Coord!Next, Coord!PollStep
<1>4. CASE StopReaches
  <2>1. /\ entry = "unloading" /\ entry' = "stopping"
        /\ UNCHANGED <<screen, snapshots, state, generation, socket, receiver, retry>>
    BY <1>4 DEF StopReaches, StopBegins
  <2>2. Ready' = Ready /\ HostFault' = HostFault
    BY <2>1 DEF Ready, Alive, HostFault
  <2>3. ~Coord!Retired /\ Coord!Retired' = TRUE
    BY <2>1 DEF Coord!Retired
  <2>4. Coord!Channel!Retire
    BY <2>1, <2>2, <2>3 DEF Coord!Channel!Retire
  <2>5. Coord!StopBegins
    BY <2>1, <2>2, <2>4 DEF Coord!StopBegins, snapshots
  <2> QED
    BY <2>5 DEF Coord!Next
<1>5. CASE TelevisionChanges
  <2>1. /\ UNCHANGED <<state, generation, socket, receiver, retry, coordinator>>
        /\ screen' \in Screens
    BY <1>5 DEF TelevisionChanges, TvChanges, vars
  <2>2. Ready' = Ready /\ HostFault' = HostFault
    BY <2>1 DEF Ready, Alive, HostFault
  <2>3. CASE screen' = screen
    BY <2>1, <2>2, <2>3 DEF Coord!vars, coordinator, snapshots
  <2>4. CASE screen' # screen
    <3>1. Coord!TvChanges
      BY <2>1, <2>2, <2>4 DEF Coord!TvChanges, coordinator, snapshots
    <3> QED
      BY <3>1 DEF Coord!Next
  <2> QED
    BY <2>3, <2>4
<1>6. CASE UNCHANGED system
  <2>1. UNCHANGED <<state, generation, socket, receiver, retry, screen, coordinator>>
    BY <1>6 DEF system, vars
  <2>2. Ready' = Ready /\ HostFault' = HostFault
    BY <2>1 DEF Ready, Alive, HostFault
  <2> QED
    BY <2>1, <2>2 DEF Coord!vars, coordinator, snapshots
<1> QED
  BY <1>1, <1>2, <1>3, <1>4, <1>5, <1>6 DEF SystemNext

\* Joined as the code joins them, the session and the coordinator behave for the
\* coordinator as the channel it was specified over: a generation that comes up
\* clears the fault, only an attempt the session makes while it is down raises
\* it, a poll's answer clears it exactly at the reachable edge, and a session
\* that is stopped never comes up.  Whatever is proved of Coordinator holds over
\* the real session.
THEOREM CoordinatorOverSession ==
  ASSUME Counts, Epochs = Nat
  PROVE  System => CoordinatorSpec
<1>1. SystemInit => Coord!Init
  BY DEF SystemInit
<1>2. SessionInv /\ SessionInv' /\ Agreement /\ [SystemNext]_system
        => [Coord!Next]_(Coord!vars)
  BY SystemSimulates
<1>3. SessionInv /\ Agreement /\ [SystemNext]_system => Agreement'
  BY AgreementStep
<1> QED
  BY <1>1, <1>2, <1>3, AgreementInit, SessionHolds, PTL
  DEF System, CoordinatorSpec, Coord!Spec

-------------------------------------------------------------------------------
(* The end of an entry *)

\* A complete stop stays complete.
LEMMA StopDone ==
  ASSUME SessionInv, [Next]_vars, stopTask = "done"
  PROVE  stopTask' = "done"
<1> USE DEF policy, transport, world
<1>1. terminal /\ ~started
  BY DEF SessionInv, StopInv, SupervisorInv
<1>2. ASSUME NEW o \in Ops, OperationStep(o) PROVE stopTask' = stopTask
  BY <1>2 DEF OperationStep, Operate, Complete, TimeOut, Fail, ReportFailure
<1>3. ASSUME ConnectStep PROVE stopTask' = stopTask
  BY <1>3 DEF ConnectStep, OpenExisting, OpenRefused, OpenHandshake,
    HandshakeSucceeds, Connected, HandshakeFails, HandshakeHostless,
    ReceiverDoesNotStart, ConnectCancelled, ConnectFinishes, GiveUp
<1>4. ASSUME NEW c \in Closers, CloseStep(c) PROVE stopTask' = "done"
  BY <1>4 DEF CloseStep, CloseDrops, CloseReleases, CloseDone
<1>5. ASSUME NEW r, NEW eligible, Heartbeat(r, eligible) PROVE FALSE
  BY <1>1, <1>5 DEF Heartbeat
<1>6. ASSUME Start \/ StopStep PROVE FALSE
  BY <1>1, <1>6 DEF Start, StopStep, StopBegins, StopCloses, StopFinishes
<1>7. ASSUME CloseTimesOut \/ ReceiverEnds \/ Tick \/ TvChanges \/ Disconnect
               \/ CancelConnect \/ UNCHANGED vars
      PROVE  stopTask' = "done"
  BY <1>7 DEF CloseTimesOut, CloseDone, ReceiverEnds, Tick, TvChanges,
    Disconnect, CancelConnect, vars
<1> QED
  BY <1>2, <1>3, <1>4, <1>5, <1>6, <1>7 DEF Next, Closers

\* Once the entry is unloaded its session has stopped and no poll is under way.
Down == entry = "unloaded" => stopTask = "done" /\ \A p \in Polls : poll[p].pc = "idle"

\* Every step keeps Down.
LEMMA DownStep == SessionInv /\ Down /\ [SystemNext]_system => Down'
<1> SUFFICES ASSUME SessionInv, Down, [SystemNext]_system, entry' = "unloaded"
             PROVE  stopTask' = "done" /\ \A p \in Polls : poll'[p].pc = "idle"
  BY DEF Down
<1>1. CASE entry = "unloaded"
  <2>1. stopTask' = "done"
    BY <1>1, SessionMoves, StopDone DEF Down
  <2>2. \A p \in Polls : poll[p].pc = "idle"
    BY <1>1 DEF Down
  <2>3. poll' = poll
    <3>1. CASE SessionStep \/ StopReaches \/ TelevisionChanges \/ UNCHANGED system
      BY <3>1 DEF SessionStep, StopReaches, TelevisionChanges, system, coordinator,
        snapshots
    <3>2. ASSUME NEW p \in Polls, NEW r \in BOOLEAN, NEW pow, Observe(p, r, pow)
          PROVE  FALSE
      BY <2>2, <3>2, PolledFacts DEF Observe
    <3>3. CASE CoordinatorStep
      BY <1>1, <2>2, <3>3, CoordinatorFacts
    <3> QED
      BY <3>1, <3>2, <3>3 DEF SystemNext, Observes
  <2> QED
    BY <2>1, <2>2, <2>3
<1>2. CASE entry # "unloaded"
  <2>1. CASE SessionStep \/ StopReaches \/ TelevisionChanges \/ UNCHANGED system
    BY <1>2, <2>1 DEF SessionStep, StopReaches, TelevisionChanges, system,
      coordinator, snapshots
  <2>2. ASSUME NEW p \in Polls, NEW r \in BOOLEAN, NEW pow, Observe(p, r, pow)
        PROVE  FALSE
    BY <1>2, <2>2, PolledFacts DEF Observe
  <2>3. CASE CoordinatorStep
    <3>1. stopTask = "done" /\ UNCHANGED vars
          /\ poll' = [p \in Polls |-> Coord!Idle]
      BY <1>2, <2>3, CoordinatorFacts
    <3>2. Coord!Idle.pc = "idle"
      BY DEF Coord!Idle
    <3> QED
      BY <3>1, <3>2 DEF vars
  <2> QED
    BY <2>1, <2>2, <2>3 DEF SystemNext, Observes
<1> QED
  BY <1>1, <1>2

\* "Entry unload is terminal": when async_unload_entry has returned the session
\* says that it is stopped and no poll is left to ask or publish, though connect
\* attempts, operations and reports of the session may still be ending.
THEOREM UnloadedIsDownHolds == System => []UnloadedIsDown
<1>1. SystemInit => Down
  BY DEF SystemInit, Coord!Init, Down
<1>2. SessionInv /\ Down => UnloadedIsDown
  BY DEF SessionInv, StopInv, Down, UnloadedIsDown
<1> QED
  BY <1>1, <1>2, DownStep, SessionHolds, PTL DEF System

-------------------------------------------------------------------------------
(* What is proved of the coordinator, of the composition *)

\* CoordinatorProof's theorems, read with the session for the channel.  What
\* Coordinator assumes of its constants is a hypothesis of the theorems below.
Proved == INSTANCE CoordinatorProof
            WITH tv <- screen, up <- Ready, epoch <- generation,
                 hostFault <- HostFault, HostFaults <- TRUE, Unloads <- TRUE

Constants ==
  /\ Counts /\ Epochs = Nat
  /\ DetectRunningApp \in BOOLEAN /\ ArtInStandby \in BOOLEAN
  /\ Screens \subseteq Coord!AllScreens /\ MaxRevision \in Nat

\* The two instances are one specification: CoordinatorProof extends Coordinator,
\* and every definition of the one is that of the other.
LEMMA SameSteps == [Coord!Next]_(Coord!vars) <=> [Proved!Next]_(Proved!vars)
<1>1. UNCHANGED Coord!vars <=> UNCHANGED Proved!vars
  BY DEF Coord!vars, Proved!vars,
    Coord!channel, Proved!channel, Coord!cache, Proved!cache, Coord!counts,
    Proved!counts, Coord!published, Proved!published
<1>2. Coord!Next <=> Proved!Next
  BY DEF
    Coord!channel, Proved!channel, Coord!cache, Proved!cache, Coord!counts,
    Proved!counts, Coord!published, Proved!published, Coord!Smaller,
    Proved!Smaller, Coord!Retired, Proved!Retired, Coord!RestPowers,
    Proved!RestPowers, Coord!ArtReadings, Proved!ArtReadings, Coord!Derive,
    Proved!Derive, Coord!LastStable, Proved!LastStable, Coord!Repair,
    Proved!Repair, Coord!SetRepair, Proved!SetRepair, Coord!Publish,
    Proved!Publish, Coord!Streak, Proved!Streak, Coord!Conclude,
    Proved!Conclude, Coord!NoSample, Proved!NoSample, Coord!NoRevision,
    Proved!NoRevision, Coord!Idle, Proved!Idle, Coord!Begins, Proved!Begins,
    Coord!PollBegins, Proved!PollBegins, Coord!RequestReconcile,
    Proved!RequestReconcile, Coord!Due, Proved!Due, Coord!Misses,
    Proved!Misses, Coord!Polled, Proved!Polled, Coord!Hear, Proved!Hear,
    Coord!Answered, Proved!Answered, Coord!Unanswered, Proved!Unanswered,
    Coord!IsReady, Proved!IsReady, Coord!Live, Proved!Live, Coord!Learns,
    Proved!Learns, Coord!CommitMode, Proved!CommitMode, Coord!CommitCurrent,
    Proved!CommitCurrent, Coord!Steady, Proved!Steady, Coord!Asks,
    Proved!Asks, Coord!ModeAnswers, Proved!ModeAnswers, Coord!CurrentAnswers,
    Proved!CurrentAnswers, Coord!ReadOver, Proved!ReadOver,
    Coord!SettingsAnswer, Proved!SettingsAnswer, Coord!SlideshowAnswers,
    Proved!SlideshowAnswers, Coord!ExtrasAnswer, Proved!ExtrasAnswer,
    Coord!PollTimesOut, Proved!PollTimesOut, Coord!Hears, Proved!Hears,
    Coord!PushPublishes, Proved!PushPublishes, Coord!PushMode,
    Proved!PushMode, Coord!PushCurrent, Proved!PushCurrent, Coord!PushStandby,
    Proved!PushStandby, Coord!Push, Proved!Push, Coord!ChannelUp,
    Proved!ChannelUp, Coord!ChannelLost, Proved!ChannelLost,
    Coord!HostFaultArises, Proved!HostFaultArises, Coord!TvChanges,
    Proved!TvChanges, Coord!ReconcileComesDue, Proved!ReconcileComesDue,
    Coord!UnloadBegins, Proved!UnloadBegins, Coord!StopBegins,
    Proved!StopBegins, Coord!UnloadEnds, Proved!UnloadEnds, Coord!PollStep,
    Proved!PollStep, Coord!Next, Proved!Next, Coord!Channel!Establish,
    Proved!Channel!Establish, Coord!Channel!Lose, Proved!Channel!Lose,
    Coord!Channel!Retire, Proved!Channel!Retire
<1> QED
  BY <1>1, <1>2

\* The composition is a behaviour of the coordinator that the theorems are about.
LEMMA SystemRunsCoordinator ==
  ASSUME Constants
  PROVE  System => Proved!Spec
<1>1. Coord!Init => Proved!Init
  BY DEF Coord!Init, Proved!Init, Coord!Idle, Proved!Idle, Coord!NoSample,
    Proved!NoSample, Coord!NoOptional, Proved!NoOptional, Coord!NoRevision,
    Proved!NoRevision, Coord!NoData, Proved!NoData
<1>2. System => CoordinatorSpec
  BY CoordinatorOverSession DEF Constants
<1> QED
  BY <1>1, <1>2, SameSteps, PTL DEF CoordinatorSpec, Coord!Spec, Proved!Spec

\* Over the real session, with its retries, cancelled attempts, generations and
\* stop, what was pushed is never overwritten by an answer that it overtook.
THEOREM PushesWinOverSession ==
  ASSUME Constants
  PROVE  System => Coord!PushesWin
<1>1. Proved!Spec => Proved!PushesWin
  BY Proved!PushesWinHolds
  DEF Constants, Counts, Coord!AllScreens, Proved!AllScreens
<1>2. Proved!PushesWin => Coord!PushesWin
  BY DEF Proved!PushesWin, Coord!PushesWin
<1> QED
  BY <1>1, <1>2, SystemRunsCoordinator

\* Over the real session, settings and slideshow that are kept together were read
\* over one of its generations, whenever it lost that one and connected again.
THEOREM OptionalOverSession ==
  ASSUME Constants
  PROVE  System => []Coord!OptionalOfOneGeneration
<1>1. Proved!Spec => []Proved!OptionalOfOneGeneration
  BY Proved!OptionalOfOneGenerationHolds
  DEF Constants, Counts, Coord!AllScreens, Proved!AllScreens
<1>2. Proved!OptionalOfOneGeneration => Coord!OptionalOfOneGeneration
  BY DEF Proved!OptionalOfOneGeneration, Coord!OptionalOfOneGeneration,
    Proved!OfOneGeneration, Coord!OfOneGeneration
<1> QED
  BY <1>1, <1>2, SystemRunsCoordinator, PTL

\* Over the real session, the Repairs issue of a loaded entry says what the
\* published snapshot says.
THEOREM RepairOverSession ==
  ASSUME Constants
  PROVE  System => []Coord!RepairMatchesData
<1>1. Proved!Spec => []Proved!RepairMatchesData
  BY Proved!RepairMatchesDataHolds
  DEF Constants, Counts, Coord!AllScreens, Proved!AllScreens
<1>2. Proved!RepairMatchesData => Coord!RepairMatchesData
  BY DEF Proved!RepairMatchesData, Coord!RepairMatchesData
<1> QED
  BY <1>1, <1>2, SystemRunsCoordinator, PTL
===============================================================================
