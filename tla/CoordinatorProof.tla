--------------------------- MODULE CoordinatorProof ---------------------------
(***************************************************************************)
(* Theorems about Coordinator, for any number of polls, pushes and         *)
(* generations of the Art channel.                                         *)
(***************************************************************************)
EXTENDS Coordinator, TLAPS

Repairs == [issue : BOOLEAN, raised : BOOLEAN, synced : BOOLEAN]

-------------------------------------------------------------------------------
(* Lemmas about the operators *)

\* The mode derived from a reading is one of the four modes.
LEMMA DeriveType ==
  ASSUME NEW reachable, NEW mode, NEW pow, NEW standbyWins
  PROVE  Derive(reachable, mode, pow, standbyWins) \in Modes
BY DEF Derive, Modes

\* A poll at rest, or at the start of a stretch, is typed.
LEMMA IdleType == Idle \in Poll
BY DEF Idle, Poll, NoRevision, NoSample, Sample, Powers, Modes

\* The repair is recorded as it was synchronised.
LEMMA SetRepairFacts ==
  ASSUME repair \in Repairs, NEW unavailable \in BOOLEAN, SetRepair(unavailable)
  PROVE  /\ repair' \in Repairs
         /\ repair'.synced /\ repair'.raised = unavailable
         /\ (repair.synced => repair.issue = repair.raised)
              => repair'.issue = unavailable
BY DEF SetRepair, Repair, Repairs

\* A snapshot that is published ends its poll and no other, keeps the types,
\* and says of the repair what the repair says.
LEMMA PublishFacts ==
  ASSUME TypeOK, NEW p \in Polls, NEW q \in Poll, NEW mode \in Modes,
         NEW reading \in Sample, hostFault' \in BOOLEAN,
         Publish(p, q, mode, reading)
  PROVE  /\ data' \in Data /\ success' \in BOOLEAN /\ repair' \in Repairs
         /\ poll' = [poll EXCEPT ![p] = Idle]
         /\ SetRepair(data'.unavailable)
<1>1. (q.asked /\ hostFault') \in BOOLEAN
  BY DEF Poll
<1>2. repair' \in Repairs /\ SetRepair(q.asked /\ hostFault')
  BY <1>1, SetRepairFacts DEF Publish, TypeOK, Repairs
<1>3. [reading EXCEPT !.value = "off"] \in Sample
  BY DEF Sample
<1>4. data' \in Data /\ data'.unavailable = (q.asked /\ hostFault')
  BY <1>1, <1>3 DEF Publish, Data, Poll, TypeOK
<1> QED
  BY <1>2, <1>4 DEF Publish

\* The last stretch of the readings leaves its poll idle or waiting for the
\* extras, and publishes only in the first case.
LEMMA ConcludeFacts ==
  ASSUME TypeOK, NEW p \in Polls, NEW q \in Poll,
         NEW reconciled \in BOOLEAN, NEW live \in BOOLEAN,
         hostFault' \in BOOLEAN, art' \in Sample,
         Conclude(p, q, reconciled, live)
  PROVE  /\ data' \in Data /\ success' \in BOOLEAN /\ repair' \in Repairs
         /\ streak' \in Nat
         /\ \E r \in Poll : /\ r.pc \in {"idle", "extras"}
                            /\ poll' = [poll EXCEPT ![p] = r]
         /\ SetRepair(data'.unavailable) \/ UNCHANGED <<data, repair>>
<1> DEFINE broken  == streak' = ArtFailUnknownCount
           reading == IF broken THEN [art' EXCEPT !.value = "none"] ELSE art'
           derived == Derive(q.reachable, reading.value, q.power, learned')
           held == (~q.reachable /\ unreachable' < OffDebounceCount)
                   \/ (derived = "unknown" /\ ~broken)
           mode == IF held THEN LastStable ELSE derived
           extras == [Idle EXCEPT !.pc = "extras", !.power = q.power,
                        !.asked = q.asked, !.art = reading, !.mode = mode]
<1>1. streak' \in Nat
  BY CountAssumption DEF Conclude, Streak, Smaller, TypeOK
<1>2. reading \in Sample
  BY DEF Sample
<1>3. mode \in Modes
  <2>1. LastStable \in Modes
    BY DEF LastStable, TypeOK, Data
  <2> QED
    BY <2>1, DeriveType
<1>4. extras \in Poll /\ extras.pc = "extras"
  BY <1>2, <1>3, IdleType DEF Poll, Idle
<1>5. \/ poll' = [poll EXCEPT ![p] = extras] /\ UNCHANGED published
      \/ Publish(p, q, mode, reading)
  BY Zenon DEF Conclude
<1> HIDE DEF reading, mode, extras
<1>6. CASE poll' = [poll EXCEPT ![p] = extras] /\ UNCHANGED published
  BY <1>1, <1>4, <1>6 DEF published, TypeOK, Repairs
<1>7. CASE Publish(p, q, mode, reading)
  <2>1. Idle.pc = "idle"
    BY DEF Idle
  <2> QED
    BY <1>1, <1>2, <1>3, <1>7, <2>1, IdleType, PublishFacts
<1> QED
  BY <1>5, <1>6, <1>7

\* What the four kinds of answer leave in the locals of a poll is typed.
LEMMA AnswerType ==
  ASSUME TypeOK, NEW p \in Polls, NEW value \in {"on", "off", "none"}
  PROVE  /\ [poll[p] EXCEPT !.art = [value |-> value, at |-> revision.mode]] \in Poll
         /\ [poll[p] EXCEPT !.current = revision.current] \in Poll
         /\ [poll[p] EXCEPT !.settings = ReadOver] \in Poll
         /\ \A q \in Poll : \A pc \in {"current", "settings", "slideshow"} :
              [q EXCEPT !.pc = pc] \in Poll
         /\ \A q \in Poll : Live(q) \in BOOLEAN
<1>1. poll[p] \in Poll /\ ReadOver \in Nat
  BY DEF TypeOK, ReadOver
<1> QED
  BY <1>1 DEF TypeOK, Poll, Sample, Live

\* A reading that is committed is typed, and so is the trait it may teach.
LEMMA CommitType ==
  ASSUME TypeOK, NEW q \in Poll
  PROVE  /\ CommitMode(q) => art' \in Sample /\ learned' \in BOOLEAN
         /\ CommitCurrent(q) => current' \in Nat
BY DEF CommitMode, CommitCurrent, Learns, TypeOK, Poll

\* An event publishes a typed snapshot and says nothing of the Art service.
LEMMA PushFacts ==
  ASSUME TypeOK, art' \in Sample, PushPublishes
  PROVE  /\ data' \in Data /\ success' \in BOOLEAN
         /\ data'.unavailable = data.unavailable
<1> DEFINE pow == IF power = "none" THEN data.power ELSE power
           derived == Derive(TRUE, art'.value, pow, learned')
           mode == IF derived = "unknown" THEN LastStable ELSE derived
<1>1. mode \in Modes /\ pow \in Powers
  BY DeriveType DEF LastStable, TypeOK, Data
<1>2. data' = [data EXCEPT !.power = pow, !.art = art', !.mode = mode]
      /\ success'
  BY DEF PushPublishes
<1> HIDE DEF mode, pow
<1> QED
  BY <1>1, <1>2 DEF TypeOK, Data

\* A revision that is counted up is a revision.
LEMMA RevisionType ==
  ASSUME NEW r \in [mode : Nat, current : Nat, live : Nat]
  PROVE  /\ [r EXCEPT !.mode = r.mode + 1, !.live = r.live + 1]
              \in [mode : Nat, current : Nat, live : Nat]
         /\ [r EXCEPT !.current = r.current + 1, !.live = r.live + 1]
              \in [mode : Nat, current : Nat, live : Nat]
<1>1. r.mode + 1 \in Nat /\ r.current + 1 \in Nat /\ r.live + 1 \in Nat
  OBVIOUS
<1>2. \A a, b \in Nat :
        /\ [r EXCEPT !.mode = a, !.live = b]
             \in [mode : Nat, current : Nat, live : Nat]
        /\ [r EXCEPT !.current = a, !.live = b]
             \in [mode : Nat, current : Nat, live : Nat]
  OBVIOUS
<1> QED
  BY <1>1, <1>2, Zenon

-------------------------------------------------------------------------------
(* Type correctness *)

\* A coordinator that has not polled is typed.
LEMMA TypeInit == Init => TypeOK
<1> SUFFICES ASSUME Init PROVE TypeOK
  OBVIOUS
<1>1. poll \in [Polls -> Poll]
  BY IdleType DEF Init
<1>2. data \in Data /\ art \in Sample /\ optional \in Optional
  BY DEF Init, NoData, Data, NoSample, Sample, NoOptional, Optional, Powers,
         Modes
<1>3. revision \in [mode : Nat, current : Nat, live : Nat]
  BY DEF Init, NoRevision
<1>4. tv \in AllScreens /\ unreachable \in Nat
      /\ streak \in Nat
  BY CountAssumption, OptionAssumption DEF Init
<1>5. repair \in [issue : BOOLEAN, raised : BOOLEAN, synced : BOOLEAN]
      /\ reconcile \in [generation : Nat \cup {-1}, due : BOOLEAN]
  BY DEF Init
<1> QED
  BY <1>1, <1>2, <1>3, <1>4, <1>5 DEF Init, TypeOK, Powers

\* Every step keeps the types.
LEMMA TypeStep == TypeOK /\ [Next]_vars => TypeOK'
<1> SUFFICES ASSUME TypeOK, [Next]_vars PROVE TypeOK'
  OBVIOUS
<1> USE DEF channel, cache, counts, published
<1>a. revision \in [mode : Nat, current : Nat, live : Nat]
  BY DEF TypeOK
<1>1. ASSUME NEW p \in Polls, Begins(p)
      PROVE  poll' \in [Polls -> Poll]
  BY <1>1, IdleType DEF Begins, TypeOK, Poll, Idle
<1>2. ASSUME NEW p \in Polls, PollBegins(p) PROVE TypeOK'
  BY <1>1, <1>2 DEF PollBegins, TypeOK
<1>3. ASSUME NEW p \in Polls, RequestReconcile(p) PROVE TypeOK'
  BY <1>1, <1>3 DEF RequestReconcile, TypeOK
<1>4. ASSUME NEW p \in Polls, NEW r \in BOOLEAN, NEW pow \in Powers,
             Hear(p, r, pow)
      PROVE  TypeOK'
  <2> DEFINE edge == r /\ unreachable # 0
             asked == r /\ pow \in {"on", "standby"}
                        /\ ~(pow = "standby" /\ learned)
             q == [Idle EXCEPT !.reachable = r, !.power = pow, !.edge = edge,
                               !.asked = asked]
  <2>1. q \in Poll
    BY IdleType DEF Poll, Idle
  <2>2. Misses(r) \in Nat
    BY CountAssumption DEF Misses, Smaller, TypeOK
  <2>3. /\ hostFault' \in BOOLEAN /\ art' \in Sample /\ power' \in Powers
        /\ unreachable' \in Nat
        /\ UNCHANGED <<tv, channel, entry, cache>>
    BY <1>4, <2>2 DEF Hear, Polled, TypeOK
  <2>4. \/ /\ reconcile' = [generation |-> epoch, due |-> FALSE]
           /\ poll' = [poll EXCEPT ![p] =
                         [q EXCEPT !.pc = "mode", !.generation = epoch,
                                   !.since = revision]]
           /\ UNCHANGED <<streak, data, success, repair>>
        \/ reconcile' = reconcile /\ Conclude(p, q, FALSE, FALSE)
    BY <1>4 DEF Hear, Polled
  <2>5. CASE /\ reconcile' = [generation |-> epoch, due |-> FALSE]
             /\ poll' = [poll EXCEPT ![p] =
                           [q EXCEPT !.pc = "mode", !.generation = epoch,
                                     !.since = revision]]
             /\ UNCHANGED <<streak, data, success, repair>>
    <3> HIDE DEF q
    <3>1. [q EXCEPT !.pc = "mode", !.generation = epoch, !.since = revision]
            \in Poll
      BY <2>1 DEF Poll, TypeOK
    <3>2. poll' \in [Polls -> Poll]
      BY <2>5, <3>1 DEF TypeOK
    <3>3. reconcile' \in [generation : Nat \cup {-1}, due : BOOLEAN]
      BY <2>5 DEF TypeOK
    <3> QED
      BY <2>3, <2>5, <3>2, <3>3 DEF TypeOK
  <2>6. CASE reconcile' = reconcile /\ Conclude(p, q, FALSE, FALSE)
    <3> HIDE DEF q
    <3>1. data' \in Data /\ success' \in BOOLEAN /\ repair' \in Repairs
          /\ streak' \in Nat
          /\ \E s \in Poll : poll' = [poll EXCEPT ![p] = s]
      BY <2>1, <2>3, <2>6, ConcludeFacts
    <3> QED
      BY <2>3, <2>6, <3>1 DEF TypeOK, Repairs
  <2> QED
    BY <2>4, <2>5, <2>6
<1>5. ASSUME NEW p \in Polls, NEW q \in Poll,
             NEW reconciled \in BOOLEAN, NEW live \in BOOLEAN,
             Steady, art' \in Sample, current' \in Nat, learned' \in BOOLEAN,
             optional' \in Optional, Conclude(p, q, reconciled, live)
      PROVE  TypeOK'
  <2>1. hostFault' \in BOOLEAN
    BY <1>5 DEF Steady, TypeOK
  <2>2. data' \in Data /\ success' \in BOOLEAN /\ repair' \in Repairs
        /\ streak' \in Nat
        /\ \E s \in Poll : poll' = [poll EXCEPT ![p] = s]
    BY <1>5, <2>1, ConcludeFacts
  <2> QED
    BY <1>5, <2>2 DEF Steady, TypeOK, Repairs
<1>6. ASSUME NEW p \in Polls, NEW q \in Poll,
             NEW pc \in {"current", "settings", "slideshow"},
             Steady, Asks(p, q, pc)
      PROVE  TypeOK'
  <2>1. [q EXCEPT !.pc = pc] \in Poll
    BY DEF Poll
  <2> QED
    BY <1>6, <2>1 DEF Steady, Asks, TypeOK
<1>7. ASSUME NEW p \in Polls, NEW value \in ArtReadings \cup {"none"},
             ModeAnswers(p, value)
      PROVE  TypeOK'
  <2> DEFINE q == [poll[p] EXCEPT !.art = [value |-> value, at |-> revision.mode]]
  <2>1. value \in {"on", "off", "none"}
    BY DEF ArtReadings, TypeOK, AllScreens
  <2>2. q \in Poll /\ Live(q) \in BOOLEAN
    BY <2>1, AnswerType
  <2>3. \/ Steady /\ Asks(p, q, "current")
        \/ Steady /\ CommitMode(q) /\ UNCHANGED <<current, optional>>
           /\ Conclude(p, q, TRUE, Live(q))
    BY <1>7 DEF ModeAnswers
  <2> HIDE DEF q
  <2>4. CASE Steady /\ Asks(p, q, "current")
    BY <1>6, <2>2, <2>4
  <2>5. CASE Steady /\ CommitMode(q) /\ UNCHANGED <<current, optional>>
             /\ Conclude(p, q, TRUE, Live(q))
    <3>1. art' \in Sample /\ learned' \in BOOLEAN
          /\ current' \in Nat /\ optional' \in Optional
      BY <2>2, <2>5, CommitType DEF TypeOK
    <3> QED
      BY <1>5, <2>2, <2>5, <3>1
  <2> QED
    BY <2>3, <2>4, <2>5
<1>8. ASSUME NEW p \in Polls, CurrentAnswers(p) PROVE TypeOK'
  <2> DEFINE q == [poll[p] EXCEPT !.current = revision.current]
  <2>1. q \in Poll /\ Live(q) \in BOOLEAN
    BY AnswerType
  <2>2. \/ Steady /\ Asks(p, q, "settings")
        \/ Steady /\ CommitMode(q) /\ UNCHANGED <<current, optional>>
           /\ Conclude(p, q, TRUE, Live(q))
    BY <1>8 DEF CurrentAnswers
  <2> HIDE DEF q
  <2>3. CASE Steady /\ Asks(p, q, "settings")
    BY <1>6, <2>1, <2>3
  <2>4. CASE Steady /\ CommitMode(q) /\ UNCHANGED <<current, optional>>
             /\ Conclude(p, q, TRUE, Live(q))
    <3>1. art' \in Sample /\ learned' \in BOOLEAN
          /\ current' \in Nat /\ optional' \in Optional
      BY <2>1, <2>4, CommitType DEF TypeOK
    <3> QED
      BY <1>5, <2>1, <2>4, <3>1
  <2> QED
    BY <2>2, <2>3, <2>4
<1>9. ASSUME NEW p \in Polls, SettingsAnswer(p) PROVE TypeOK'
  <2> DEFINE q == [poll[p] EXCEPT !.settings = ReadOver]
  <2>1. q \in Poll /\ Live(q) \in BOOLEAN
    BY AnswerType
  <2>2. \/ Steady /\ Asks(p, q, "slideshow")
        \/ Steady /\ UNCHANGED <<art, current, optional, learned>>
           /\ Conclude(p, q, TRUE, Live(q))
    BY <1>9 DEF SettingsAnswer
  <2> HIDE DEF q
  <2>3. CASE Steady /\ Asks(p, q, "slideshow")
    BY <1>6, <2>1, <2>3
  <2>4. CASE Steady /\ UNCHANGED <<art, current, optional, learned>>
             /\ Conclude(p, q, TRUE, Live(q))
    <3>1. art' \in Sample /\ learned' \in BOOLEAN
          /\ current' \in Nat /\ optional' \in Optional
      BY <2>4 DEF TypeOK
    <3> QED
      BY <1>5, <2>1, <2>4, <3>1
  <2> QED
    BY <2>2, <2>3, <2>4
<1>10. ASSUME NEW p \in Polls, SlideshowAnswers(p) PROVE TypeOK'
  <2>1. poll[p] \in Poll /\ Live(poll[p]) \in BOOLEAN
    BY DEF TypeOK, Live
  <2>2. Steady /\ CommitMode(poll[p]) /\ CommitCurrent(poll[p])
        /\ Conclude(p, poll[p], TRUE, Live(poll[p]))
    BY <1>10 DEF SlideshowAnswers
  <2>3. art' \in Sample /\ learned' \in BOOLEAN /\ current' \in Nat
    BY <2>1, <2>2, CommitType
  <2>4. ReadOver \in Nat
    BY DEF ReadOver, TypeOK
  <2>5. optional' \in Optional
    BY <1>10, <2>1, <2>4 DEF SlideshowAnswers, TypeOK, Optional, Poll
  <2> QED
    BY <1>5, <2>1, <2>2, <2>3, <2>5
<1>11. ASSUME NEW p \in Polls, ExtrasAnswer(p) PROVE TypeOK'
  <2>1. poll[p] \in Poll /\ poll[p].mode \in Modes /\ poll[p].art \in Sample
        /\ hostFault' \in BOOLEAN
    BY <1>11 DEF ExtrasAnswer, TypeOK, Poll
  <2>2. data' \in Data /\ success' \in BOOLEAN /\ repair' \in Repairs
        /\ poll' = [poll EXCEPT ![p] = Idle]
    BY <1>11, <2>1, PublishFacts DEF ExtrasAnswer
  <2> QED
    BY <1>11, <2>2, IdleType DEF ExtrasAnswer, TypeOK, Repairs
<1>12. ASSUME NEW p \in Polls, PollTimesOut(p) PROVE TypeOK'
  BY <1>12, IdleType DEF PollTimesOut, TypeOK
<1>13. ASSUME NEW value \in {"on", "off"}, PushMode(value) PROVE TypeOK'
  <2>1. revision' \in [mode : Nat, current : Nat, live : Nat]
    BY <1>13, <1>a, RevisionType DEF PushMode
  <2>2. art' \in Sample
    BY <1>13 DEF PushMode, TypeOK, Sample
  <2>3. learned' \in BOOLEAN
    BY <1>13 DEF PushMode, Learns, TypeOK
  <2>4. data' \in Data /\ success' \in BOOLEAN
    BY <1>13, <2>2, PushFacts DEF PushMode
  <2>5. streak' \in Nat
    BY <1>13, CountAssumption DEF PushMode
  <2> QED
    BY <1>13, <2>1, <2>2, <2>3, <2>4, <2>5 DEF PushMode, TypeOK
<1>14. ASSUME PushCurrent PROVE TypeOK'
  <2>1. revision' \in [mode : Nat, current : Nat, live : Nat]
    BY <1>14, <1>a, RevisionType DEF PushCurrent
  <2>4. art' \in Sample /\ current' \in Nat
    BY <1>14 DEF PushCurrent, TypeOK
  <2>2. data' \in Data /\ success' \in BOOLEAN
    BY <1>14, <2>4, PushFacts DEF PushCurrent
  <2>3. streak' \in Nat
    BY <1>14, CountAssumption DEF PushCurrent
  <2> QED
    BY <1>14, <2>1, <2>2, <2>3, <2>4 DEF PushCurrent, TypeOK
<1>15. ASSUME PushStandby PROVE TypeOK'
  <2>1. revision' \in [mode : Nat, current : Nat, live : Nat]
        /\ streak' \in Nat
    BY <1>15, CountAssumption DEF PushStandby, TypeOK
  <2> QED
    BY <1>15, <2>1 DEF PushStandby, TypeOK
<1>16. CASE ChannelUp
  <2>1. up' \in BOOLEAN /\ epoch' = epoch + 1 /\ hostFault' = FALSE
    BY <1>16 DEF ChannelUp, Channel!Establish
  <2>2. UNCHANGED <<tv, entry, poll, cache, counts, published>>
    BY <1>16 DEF ChannelUp
  <2>3. epoch' \in Nat
    BY <2>1 DEF TypeOK
  <2> QED
    BY <2>1, <2>2, <2>3 DEF TypeOK
<1>17. CASE ChannelLost
  BY <1>17 DEF ChannelLost, Channel!Lose, TypeOK
<1>18. CASE HostFaultArises
  BY <1>18 DEF HostFaultArises, TypeOK
<1>19. CASE TvChanges
  BY <1>19, OptionAssumption DEF TvChanges, TypeOK
<1>20. CASE ReconcileComesDue
  BY <1>20 DEF ReconcileComesDue, TypeOK
<1>21. CASE UnloadBegins
  <2>1. repair' \in Repairs
    BY <1>21, SetRepairFacts DEF UnloadBegins, TypeOK, Repairs
  <2> QED
    BY <1>21, <2>1 DEF UnloadBegins, TypeOK, Repairs
<1>26. CASE StopBegins
  BY <1>26 DEF StopBegins, Channel!Retire, TypeOK
<1>22. CASE UnloadEnds
  BY <1>22, IdleType DEF UnloadEnds, TypeOK
<1>23. CASE UNCHANGED vars
  BY <1>23 DEF vars, TypeOK
<1>24. ASSUME NEW p \in Polls, Answered(p) PROVE TypeOK'
  BY <1>4, <1>24 DEF Answered, RestPowers, Powers, TypeOK, AllScreens
<1>25. ASSUME NEW p \in Polls, Unanswered(p) PROVE TypeOK'
  BY <1>4, <1>25 DEF Unanswered, Powers
<1> QED
  BY <1>2, <1>3, <1>7, <1>8, <1>9, <1>10, <1>11, <1>12, <1>13, <1>14, <1>15,
     <1>16, <1>17, <1>18, <1>19, <1>20, <1>21, <1>22, <1>23, <1>24, <1>25,
     <1>26
  DEF Next, PollStep, Push

\* Every variable keeps its type, for any number of polls and pushes: whatever
\* readings meet, what is published of them is one of the four modes.
THEOREM TypeCorrect == Spec => []TypeOK
<1>1. Init => TypeOK
  BY TypeInit
<1>2. TypeOK /\ [Next]_vars => TypeOK'
  BY TypeStep
<1> QED
  BY <1>1, <1>2, PTL DEF Spec
-------------------------------------------------------------------------------
(* Readings and pushes *)

\* Strengthening: every reading a reconciliation holds was taken after the
\* revisions it remembers and before the present ones, and the settings it
\* holds when it asks for the slideshow are of its own generation.
InOrder(q) ==
  /\ q.pc \in {"mode", "current", "settings", "slideshow"} =>
       q.since.mode =< revision.mode /\ q.since.current =< revision.current
  /\ q.pc \in {"current", "settings", "slideshow"} =>
       q.since.mode =< q.art.at /\ q.art.at =< revision.mode
  /\ q.pc \in {"settings", "slideshow"} =>
       q.since.current =< q.current /\ q.current =< revision.current
  /\ q.pc = "slideshow" => q.settings \in {0, q.generation}

ReadingInv ==
  /\ art.at =< revision.mode /\ current =< revision.current
  /\ \A p \in Polls : InOrder(poll[p])
  /\ OptionalOfOneGeneration

\* A step of one poll keeps ReadingInv if what it leaves behind is in order.
LEMMA ReadingKept ==
  ASSUME TypeOK, ReadingInv, NEW p \in Polls, NEW q, InOrder(q),
         poll' = [poll EXCEPT ![p] = q], UNCHANGED revision,
         art'.at =< revision.mode, current' =< revision.current,
         OptionalOfOneGeneration'
  PROVE  ReadingInv'
<1>1. \A r \in Polls : poll'[r] = IF r = p THEN q ELSE poll[r]
  BY DEF TypeOK
<1>2. \A r \in Polls : InOrder(poll[r])'
  BY <1>1 DEF ReadingInv, InOrder
<1> QED
  BY <1>2 DEF ReadingInv

\* A poll that is not reconciling holds no reading.
LEMMA OutsideInOrder ==
  ASSUME NEW q, q.pc \in {"idle", "rest", "extras"}
  PROVE  InOrder(q)
BY DEF InOrder

\* Counting the revisions up leaves every older reading in order.
LEMMA RevisionUp ==
  ASSUME TypeOK, ReadingInv, UNCHANGED poll,
         revision' \in [mode : Nat, current : Nat, live : Nat],
         revision'.mode >= revision.mode, revision'.current >= revision.current
  PROVE  \A p \in Polls : InOrder(poll[p])'
<1> SUFFICES ASSUME NEW p \in Polls PROVE InOrder(poll[p])'
  OBVIOUS
<1> DEFINE q == poll[p]
<1>1. /\ q.since.mode \in Nat /\ q.since.current \in Nat
      /\ q.art.at \in Nat /\ q.current \in Nat
      /\ revision.mode \in Nat /\ revision.current \in Nat
      /\ revision'.mode \in Nat /\ revision'.current \in Nat
  BY DEF TypeOK, Poll, Sample
<1>2. InOrder(q)
  BY DEF ReadingInv
<1>3. poll'[p] = q
  OBVIOUS
<1> HIDE DEF q
<1> QED
  BY <1>1, <1>2, <1>3 DEF InOrder

\* The revision a commit compares is the one its reading is not older than.
LEMMA CommitFacts ==
  ASSUME TypeOK, ReadingInv, NEW q \in Poll
  PROVE  /\ /\ CommitMode(q) /\ q.since.mode =< q.art.at
            /\ q.art.at =< revision.mode
            => art'.at >= art.at /\ art'.at =< revision.mode
         /\ /\ CommitCurrent(q) /\ q.since.current =< q.current
            /\ q.current =< revision.current
            => current' >= current /\ current' =< revision.current
<1>1. /\ q.since.mode \in Nat /\ q.since.current \in Nat
      /\ q.art.at \in Nat /\ q.current \in Nat /\ art.at \in Nat
      /\ current \in Nat /\ revision.mode \in Nat /\ revision.current \in Nat
  BY DEF TypeOK, Poll, Sample
<1> QED
  BY <1>1 DEF CommitMode, CommitCurrent, ReadingInv

\* Every step keeps ReadingInv and never replaces a reading by an older one.
LEMMA ReadingStep ==
  TypeOK /\ ReadingInv /\ [Next]_vars
    => ReadingInv' /\ art'.at >= art.at /\ current' >= current
<1> SUFFICES ASSUME TypeOK, ReadingInv, [Next]_vars
             PROVE  ReadingInv' /\ art'.at >= art.at /\ current' >= current
  OBVIOUS
<1> USE DEF channel, cache, counts, published
<1> DEFINE Goal == ReadingInv' /\ art'.at >= art.at /\ current' >= current
<1>a. /\ art.at \in Nat /\ current \in Nat
      /\ revision \in [mode : Nat, current : Nat, live : Nat]
      /\ art.at =< revision.mode /\ current =< revision.current
      /\ OptionalOfOneGeneration
  BY DEF TypeOK, Sample, ReadingInv
<1>c. ASSUME UNCHANGED <<art, current, revision, optional, poll>>
      PROVE  Goal
  BY <1>a, <1>c DEF ReadingInv, InOrder, OptionalOfOneGeneration
<1>d. ASSUME NEW p \in Polls, NEW q \in Poll,
             NEW reconciled \in BOOLEAN, NEW live \in BOOLEAN,
             Steady, art' \in Sample, Conclude(p, q, reconciled, live),
             art'.at >= art.at, art'.at =< revision.mode,
             current' >= current, current' =< revision.current,
             OptionalOfOneGeneration'
      PROVE  Goal
  <2>1. \E r \in Poll : /\ r.pc \in {"idle", "extras"}
                        /\ poll' = [poll EXCEPT ![p] = r]
    BY <1>d, ConcludeFacts DEF Steady, TypeOK
  <2>2. PICK r \in Poll : /\ r.pc \in {"idle", "extras"}
                          /\ poll' = [poll EXCEPT ![p] = r]
    BY <2>1
  <2>3. InOrder(r)
    BY <2>2, OutsideInOrder
  <2>4. ReadingInv'
    BY <1>d, <2>2, <2>3, ReadingKept DEF Steady
  <2> QED
    BY <1>d, <2>4
<1>e. ASSUME NEW p \in Polls, NEW q \in Poll,
             NEW pc \in {"current", "settings", "slideshow"},
             Steady, Asks(p, q, pc), InOrder([q EXCEPT !.pc = pc])
      PROVE  Goal
  <2>1. OptionalOfOneGeneration'
    BY <1>a, <1>e DEF Asks, OptionalOfOneGeneration, OfOneGeneration
  <2>2. /\ poll' = [poll EXCEPT ![p] = [q EXCEPT !.pc = pc]]
        /\ UNCHANGED <<art, current, revision>>
    BY <1>e DEF Steady, Asks
  <2>3. ReadingInv'
    BY <1>a, <1>e, <2>1, <2>2, ReadingKept
  <2> QED
    BY <1>a, <2>2, <2>3
<1>f. Idle.pc = "idle"
  BY DEF Idle
<1>g. ASSUME NEW p \in Polls, Begins(p),
             UNCHANGED <<art, current, revision, optional>>
      PROVE  Goal
  <2> DEFINE q == [Idle EXCEPT !.pc = "rest"]
  <2>1. q.pc = "rest" /\ poll' = [poll EXCEPT ![p] = q]
    BY <1>g DEF Idle, Begins
  <2> HIDE DEF q
  <2>2. InOrder(q)
    BY <2>1, OutsideInOrder
  <2>3. OptionalOfOneGeneration'
    BY <1>a, <1>g DEF OptionalOfOneGeneration, OfOneGeneration
  <2>4. ReadingInv'
    BY <1>a, <1>g, <2>1, <2>2, <2>3, ReadingKept
  <2> QED
    BY <1>a, <1>g, <2>4
<1>1. ASSUME NEW p \in Polls, PollBegins(p) PROVE Goal
  BY <1>1, <1>g DEF PollBegins
<1>2. ASSUME NEW p \in Polls, RequestReconcile(p) PROVE Goal
  BY <1>2, <1>g DEF RequestReconcile
<1>3. ASSUME NEW p \in Polls, NEW r \in BOOLEAN, NEW pow \in Powers,
             Hear(p, r, pow)
      PROVE  Goal
  <2> DEFINE edge == r /\ unreachable # 0
             asked == r /\ pow \in {"on", "standby"}
                        /\ ~(pow = "standby" /\ learned)
             q == [Idle EXCEPT !.reachable = r, !.power = pow, !.edge = edge,
                               !.asked = asked]
             q0 == [q EXCEPT !.pc = "mode", !.generation = epoch,
                             !.since = revision]
  <2>1. q \in Poll
    BY IdleType DEF Poll, Idle
  <2>2. UNCHANGED <<art, current, revision, optional>> /\ art' \in Sample
        /\ hostFault' \in BOOLEAN
    BY <1>3 DEF Hear, Polled, TypeOK
  <2>3. poll' = [poll EXCEPT ![p] = q0] \/ Conclude(p, q, FALSE, FALSE)
    BY <1>3 DEF Hear, Polled
  <2>4. q0.pc = "mode" /\ q0.since = revision
    BY DEF Idle
  <2> HIDE DEF q, q0
  <2>5. CASE poll' = [poll EXCEPT ![p] = q0]
    <3>1. InOrder(q0)
      BY <1>a, <2>4 DEF InOrder
    <3>2. OptionalOfOneGeneration'
      BY <1>a, <2>2 DEF OptionalOfOneGeneration, OfOneGeneration
    <3>3. ReadingInv'
      BY <1>a, <2>2, <2>5, <3>1, <3>2, ReadingKept
    <3> QED
      BY <1>a, <2>2, <3>3
  <2>6. CASE Conclude(p, q, FALSE, FALSE)
    <3>1. \E s \in Poll : /\ s.pc \in {"idle", "extras"}
                          /\ poll' = [poll EXCEPT ![p] = s]
      BY <2>1, <2>2, <2>6, ConcludeFacts
    <3>2. PICK s \in Poll : /\ s.pc \in {"idle", "extras"}
                            /\ poll' = [poll EXCEPT ![p] = s]
      BY <3>1
    <3>3. InOrder(s)
      BY <3>2, OutsideInOrder
    <3>4. OptionalOfOneGeneration'
      BY <1>a, <2>2 DEF OptionalOfOneGeneration, OfOneGeneration
    <3>5. ReadingInv'
      BY <1>a, <2>2, <3>2, <3>3, <3>4, ReadingKept
    <3> QED
      BY <1>a, <2>2, <3>5
  <2> QED
    BY <2>3, <2>5, <2>6
<1>4. ASSUME NEW p \in Polls, NEW value \in ArtReadings \cup {"none"},
             ModeAnswers(p, value)
      PROVE  Goal
  <2> DEFINE q == [poll[p] EXCEPT !.art = [value |-> value, at |-> revision.mode]]
  <2>1. value \in {"on", "off", "none"}
    BY DEF ArtReadings, TypeOK, AllScreens
  <2>2. q \in Poll /\ Live(q) \in BOOLEAN
    BY <2>1, AnswerType
  <2>3. \/ Steady /\ Asks(p, q, "current")
        \/ Steady /\ CommitMode(q) /\ UNCHANGED <<current, optional>>
           /\ Conclude(p, q, TRUE, Live(q))
    BY <1>4 DEF ModeAnswers
  <2>4. poll[p] \in Poll /\ poll[p].pc = "mode" /\ InOrder(poll[p])
    BY <1>4 DEF ModeAnswers, TypeOK, ReadingInv
  <2>5. /\ q.since.mode =< revision.mode /\ q.since.current =< revision.current
        /\ q.art.at = revision.mode
    BY <2>4 DEF InOrder, Poll
  <2>6. CASE Steady /\ Asks(p, q, "current")
    <3> DEFINE q0 == [q EXCEPT !.pc = "current"]
    <3>1. /\ q0.pc = "current" /\ q0.since = q.since /\ q0.art = q.art
          /\ q0.current = q.current
      BY <2>4 DEF Poll
    <3>2. InOrder(q0)
      <4> HIDE DEF q0, q
      <4> QED
        BY <1>a, <2>5, <3>1 DEF InOrder
    <3> HIDE DEF q
    <3> QED
      BY <1>e, <2>2, <2>6, <3>2
  <2>7. CASE Steady /\ CommitMode(q) /\ UNCHANGED <<current, optional>>
             /\ Conclude(p, q, TRUE, Live(q))
    <3> HIDE DEF q
    <3>1. art'.at >= art.at /\ art'.at =< revision.mode
      BY <1>a, <2>2, <2>5, <2>7, CommitFacts
    <3>2. art' \in Sample
      BY <2>2, <2>7, CommitType
    <3>3. OptionalOfOneGeneration' /\ current' >= current
          /\ current' =< revision.current
      BY <1>a, <2>7 DEF OptionalOfOneGeneration, OfOneGeneration
    <3> QED
      BY <1>d, <2>2, <2>7, <3>1, <3>2, <3>3
  <2> QED
    BY <2>3, <2>6, <2>7
<1>5. ASSUME NEW p \in Polls, CurrentAnswers(p) PROVE Goal
  <2> DEFINE q == [poll[p] EXCEPT !.current = revision.current]
  <2>1. q \in Poll /\ Live(q) \in BOOLEAN
    BY AnswerType
  <2>2. \/ Steady /\ Asks(p, q, "settings")
        \/ Steady /\ CommitMode(q) /\ UNCHANGED <<current, optional>>
           /\ Conclude(p, q, TRUE, Live(q))
    BY <1>5 DEF CurrentAnswers
  <2>3. poll[p] \in Poll /\ poll[p].pc = "current" /\ InOrder(poll[p])
    BY <1>5 DEF CurrentAnswers, TypeOK, ReadingInv
  <2>4. /\ q.since.mode =< revision.mode /\ q.since.current =< revision.current
        /\ q.since.mode =< q.art.at /\ q.art.at =< revision.mode
        /\ q.current = revision.current
    BY <2>3 DEF InOrder, Poll
  <2>5. CASE Steady /\ Asks(p, q, "settings")
    <3> DEFINE q0 == [q EXCEPT !.pc = "settings"]
    <3>1. /\ q0.pc = "settings" /\ q0.since = q.since /\ q0.art = q.art
          /\ q0.current = q.current
      BY <2>3 DEF Poll
    <3>2. InOrder(q0)
      <4> HIDE DEF q0, q
      <4> QED
        BY <1>a, <2>4, <3>1 DEF InOrder
    <3> HIDE DEF q
    <3> QED
      BY <1>e, <2>1, <2>5, <3>2
  <2>6. CASE Steady /\ CommitMode(q) /\ UNCHANGED <<current, optional>>
             /\ Conclude(p, q, TRUE, Live(q))
    <3> HIDE DEF q
    <3>1. art'.at >= art.at /\ art'.at =< revision.mode
      BY <2>1, <2>4, <2>6, CommitFacts
    <3>2. art' \in Sample
      BY <2>1, <2>6, CommitType
    <3>3. OptionalOfOneGeneration' /\ current' >= current
          /\ current' =< revision.current
      BY <1>a, <2>6 DEF OptionalOfOneGeneration, OfOneGeneration
    <3> QED
      BY <1>d, <2>1, <2>6, <3>1, <3>2, <3>3
  <2> QED
    BY <2>2, <2>5, <2>6
<1>6. ASSUME NEW p \in Polls, SettingsAnswer(p) PROVE Goal
  <2> DEFINE q == [poll[p] EXCEPT !.settings = ReadOver]
  <2>1. q \in Poll /\ Live(q) \in BOOLEAN
    BY AnswerType
  <2>2. \/ Steady /\ IsReady(q) /\ Asks(p, q, "slideshow")
        \/ Steady /\ UNCHANGED <<art, current, optional, learned>>
           /\ Conclude(p, q, TRUE, Live(q))
    BY <1>6 DEF SettingsAnswer
  <2>3. poll[p] \in Poll /\ poll[p].pc = "settings" /\ InOrder(poll[p])
    BY <1>6 DEF SettingsAnswer, TypeOK, ReadingInv
  <2>4. /\ q.since.mode =< revision.mode /\ q.since.current =< revision.current
        /\ q.since.mode =< q.art.at /\ q.art.at =< revision.mode
        /\ q.since.current =< q.current /\ q.current =< revision.current
        /\ q.settings = ReadOver
    BY <2>3 DEF InOrder, Poll
  <2>5. CASE Steady /\ IsReady(q) /\ Asks(p, q, "slideshow")
    <3> DEFINE q0 == [q EXCEPT !.pc = "slideshow"]
    <3>1. /\ q0.pc = "slideshow" /\ q0.since = q.since /\ q0.art = q.art
          /\ q0.current = q.current /\ q0.settings = q.settings
          /\ q0.generation = q.generation
      BY <2>3 DEF Poll
    <3>2. q.settings = q.generation
      BY <2>4, <2>5 DEF IsReady, ReadOver
    <3>3. InOrder(q0)
      <4> HIDE DEF q0, q
      <4> QED
        BY <1>a, <2>4, <3>1, <3>2 DEF InOrder
    <3> HIDE DEF q
    <3> QED
      BY <1>e, <2>1, <2>5, <3>3
  <2>6. CASE Steady /\ UNCHANGED <<art, current, optional, learned>>
             /\ Conclude(p, q, TRUE, Live(q))
    <3> HIDE DEF q
    <3>1. /\ art'.at >= art.at /\ art'.at =< revision.mode /\ art' \in Sample
          /\ current' >= current /\ current' =< revision.current
      BY <1>a, <2>6 DEF TypeOK
    <3>2. OptionalOfOneGeneration'
      BY <1>a, <2>6 DEF OptionalOfOneGeneration, OfOneGeneration
    <3> QED
      BY <1>d, <2>1, <2>6, <3>1, <3>2
  <2> QED
    BY <2>2, <2>5, <2>6
<1>7. ASSUME NEW p \in Polls, SlideshowAnswers(p) PROVE Goal
  <2> DEFINE q == poll[p]
  <2>1. q \in Poll /\ Live(q) \in BOOLEAN /\ q.pc = "slideshow" /\ InOrder(q)
    BY <1>7 DEF SlideshowAnswers, TypeOK, Live, ReadingInv
  <2>2. /\ Steady /\ CommitMode(q) /\ CommitCurrent(q)
        /\ Conclude(p, q, TRUE, Live(q))
        /\ optional' = IF IsReady(q)
                       THEN [settings |-> q.settings, slideshow |-> ReadOver,
                             generation |-> q.generation]
                       ELSE optional
    BY <1>7 DEF SlideshowAnswers
  <2> HIDE DEF q
  <2>3. /\ q.since.mode =< q.art.at /\ q.art.at =< revision.mode
        /\ q.since.current =< q.current /\ q.current =< revision.current
        /\ q.settings \in {0, q.generation}
    BY <2>1 DEF InOrder
  <2>4. /\ art'.at >= art.at /\ art'.at =< revision.mode
        /\ current' >= current /\ current' =< revision.current
    BY <2>1, <2>2, <2>3, CommitFacts
  <2>5. art' \in Sample
    BY <2>1, <2>2, CommitType
  <2>6. OptionalOfOneGeneration'
    BY <1>a, <2>2, <2>3
    DEF OptionalOfOneGeneration, OfOneGeneration, IsReady, ReadOver
  <2> QED
    BY <1>d, <2>1, <2>2, <2>4, <2>5, <2>6
<1>8. ASSUME NEW p \in Polls, poll' = [poll EXCEPT ![p] = Idle],
             UNCHANGED <<art, current, revision, optional>>
      PROVE  Goal
  <2>1. InOrder(Idle)
    BY <1>f, OutsideInOrder
  <2>2. OptionalOfOneGeneration'
    BY <1>a, <1>8 DEF OptionalOfOneGeneration, OfOneGeneration
  <2>3. ReadingInv'
    BY <1>a, <1>8, <2>1, <2>2, ReadingKept
  <2> QED
    BY <1>a, <1>8, <2>3
<1>9. ASSUME NEW p \in Polls, ExtrasAnswer(p) PROVE Goal
  BY <1>8, <1>9 DEF ExtrasAnswer, Publish
<1>10. ASSUME NEW p \in Polls, PollTimesOut(p) PROVE Goal
  BY <1>8, <1>10 DEF PollTimesOut
<1>11. ASSUME NEW value \in {"on", "off"}, PushMode(value) PROVE Goal
  <2>1. /\ revision' \in [mode : Nat, current : Nat, live : Nat]
        /\ revision'.mode = revision.mode + 1
        /\ revision'.current = revision.current
    BY <1>11, <1>a, RevisionType DEF PushMode
  <2>2. /\ art'.at = revision.mode + 1
        /\ UNCHANGED <<current, optional, poll>>
    BY <1>11 DEF PushMode
  <2>3. \A p \in Polls : InOrder(poll[p])'
    BY <1>a, <2>1, <2>2, RevisionUp
  <2>4. OptionalOfOneGeneration'
    BY <1>a, <2>2 DEF OptionalOfOneGeneration, OfOneGeneration
  <2> QED
    BY <1>a, <2>1, <2>2, <2>3, <2>4 DEF ReadingInv
<1>12. ASSUME PushCurrent PROVE Goal
  <2>1. /\ revision' \in [mode : Nat, current : Nat, live : Nat]
        /\ revision'.mode = revision.mode
        /\ revision'.current = revision.current + 1
    BY <1>12, <1>a, RevisionType DEF PushCurrent
  <2>2. /\ current' = revision.current + 1
        /\ UNCHANGED <<art, optional, poll>>
    BY <1>12 DEF PushCurrent
  <2>3. \A p \in Polls : InOrder(poll[p])'
    BY <1>a, <2>1, <2>2, RevisionUp
  <2>4. OptionalOfOneGeneration'
    BY <1>a, <2>2 DEF OptionalOfOneGeneration, OfOneGeneration
  <2> QED
    BY <1>a, <2>1, <2>2, <2>3, <2>4 DEF ReadingInv
<1>13. ASSUME PushStandby PROVE Goal
  <2>1. /\ revision' \in [mode : Nat, current : Nat, live : Nat]
        /\ revision'.mode = revision.mode
        /\ revision'.current = revision.current
        /\ UNCHANGED <<art, current, optional, poll>>
    BY <1>13, <1>a DEF PushStandby
  <2>2. \A p \in Polls : InOrder(poll[p])'
    BY <1>a, <2>1, RevisionUp
  <2>3. OptionalOfOneGeneration'
    BY <1>a, <2>1 DEF OptionalOfOneGeneration, OfOneGeneration
  <2> QED
    BY <1>a, <2>1, <2>2, <2>3 DEF ReadingInv
<1>14. ASSUME ChannelUp \/ ChannelLost \/ HostFaultArises \/ TvChanges PROVE Goal
  BY <1>14, <1>c DEF ChannelUp, ChannelLost, HostFaultArises, TvChanges
<1>15. ASSUME ReconcileComesDue \/ UnloadBegins \/ StopBegins \/ UNCHANGED vars
       PROVE  Goal
  BY <1>15, <1>c DEF ReconcileComesDue, UnloadBegins, StopBegins, vars
<1>16. ASSUME UnloadEnds PROVE Goal
  <2>1. \A p \in Polls : poll'[p] = Idle
    BY <1>16 DEF UnloadEnds
  <2>2. \A p \in Polls : InOrder(poll[p])'
    BY <1>f, <2>1 DEF InOrder
  <2>3. UNCHANGED <<art, current, revision, optional>>
    BY <1>16 DEF UnloadEnds
  <2>4. OptionalOfOneGeneration'
    BY <1>a, <2>3 DEF OptionalOfOneGeneration, OfOneGeneration
  <2> QED
    BY <1>a, <2>2, <2>3, <2>4 DEF ReadingInv
<1>17. ASSUME NEW p \in Polls, Answered(p) PROVE Goal
  BY <1>3, <1>17 DEF Answered, RestPowers, Powers, TypeOK, AllScreens
<1>18. ASSUME NEW p \in Polls, Unanswered(p) PROVE Goal
  BY <1>3, <1>18 DEF Unanswered, Powers
<1> HIDE DEF Goal
<1>19. ASSUME NEW p \in Polls,
              PollBegins(p) \/ RequestReconcile(p) \/ PollStep(p) \/ PollTimesOut(p)
       PROVE  Goal
  BY <1>1, <1>2, <1>4, <1>5, <1>6, <1>7, <1>9, <1>10, <1>17, <1>18, <1>19
  DEF PollStep
<1>20. ASSUME Push PROVE Goal
  BY <1>11, <1>12, <1>13, <1>20 DEF Push
<1>21. Goal
  BY <1>14, <1>15, <1>16, <1>19, <1>20 DEF Next
<1> QED
  BY <1>21 DEF Goal

\* A coordinator that has not polled holds no reading.
LEMMA ReadingInit == Init => ReadingInv
BY DEF Init, ReadingInv, InOrder, OptionalOfOneGeneration, OfOneGeneration,
       NoSample, NoRevision, NoOptional, Idle

\* The conjunction the two theorems rest on.
LEMMA ReadingHolds == Spec => [](TypeOK /\ ReadingInv)
<1>1. Init => TypeOK /\ ReadingInv
  BY TypeInit, ReadingInit
<1>2. TypeOK /\ ReadingInv /\ [Next]_vars => TypeOK' /\ ReadingInv'
  BY TypeStep, ReadingStep
<1> QED
  BY <1>1, <1>2, PTL DEF Spec

\* Settings and slideshow are kept under the one generation both were read
\* over, however the channel comes and goes between the answers.
THEOREM OptionalOfOneGenerationHolds == Spec => []OptionalOfOneGeneration
<1>1. ReadingInv => OptionalOfOneGeneration
  BY DEF ReadingInv
<1> QED
  BY <1>1, ReadingHolds, PTL

\* No cached reading is ever replaced by one that a push has overtaken, for any
\* number of polls that reconcile at the same time.
THEOREM PushesWinHolds == Spec => PushesWin
<1>1. TypeOK /\ ReadingInv /\ [Next]_vars
        => [art'.at >= art.at /\ current' >= current]_<<art, current>>
  BY ReadingStep
<1> QED
  BY <1>1, ReadingHolds, PTL DEF Spec, PushesWin
-------------------------------------------------------------------------------
(* The Repairs issue *)

\* Strengthening: what was raised last is what the registry holds, and while
\* the entry is loaded it is what the snapshot says.
RepairInv ==
  /\ repair.synced => repair.issue = repair.raised
  /\ repair.synced /\ entry = "loaded" => repair.raised = data.unavailable

\* A step that publishes and synchronises in one, or does neither.
LEMMA RepairKept ==
  ASSUME TypeOK, RepairInv, UNCHANGED entry,
         \/ data'.unavailable \in BOOLEAN /\ SetRepair(data'.unavailable)
         \/ data'.unavailable = data.unavailable /\ UNCHANGED repair
  PROVE  RepairInv'
<1>1. CASE data'.unavailable \in BOOLEAN /\ SetRepair(data'.unavailable)
  <2>1. /\ repair'.raised = data'.unavailable
        /\ (repair.synced => repair.issue = repair.raised)
             => repair'.issue = data'.unavailable
    BY <1>1, SetRepairFacts DEF TypeOK, Repairs
  <2> QED
    BY <2>1 DEF RepairInv
<1>2. CASE data'.unavailable = data.unavailable /\ UNCHANGED repair
  BY <1>2 DEF RepairInv
<1> QED
  BY <1>1, <1>2

\* Every step keeps RepairInv.
LEMMA RepairStep == TypeOK /\ RepairInv /\ [Next]_vars => RepairInv'
<1> SUFFICES ASSUME TypeOK, RepairInv, [Next]_vars PROVE RepairInv'
  OBVIOUS
<1> USE DEF channel, cache, counts, published
<1>a. ASSUME UNCHANGED <<entry, data, repair>> PROVE RepairInv'
  BY <1>a DEF RepairInv
<1>b. ASSUME NEW p \in Polls, NEW q \in Poll,
             NEW reconciled \in BOOLEAN, NEW live \in BOOLEAN,
             hostFault' \in BOOLEAN, art' \in Sample, UNCHANGED entry,
             Conclude(p, q, reconciled, live)
      PROVE  RepairInv'
  <2>1. /\ data' \in Data
        /\ SetRepair(data'.unavailable) \/ UNCHANGED <<data, repair>>
    BY <1>b, ConcludeFacts
  <2>2. data'.unavailable \in BOOLEAN
    BY <2>1 DEF Data
  <2> QED
    BY <1>b, <2>1, <2>2, RepairKept
<1>c. ASSUME NEW p \in Polls, NEW q \in Poll,
             Steady, art' \in Sample, Conclude(p, q, TRUE, Live(q))
      PROVE  RepairInv'
  <2>1. hostFault' \in BOOLEAN /\ UNCHANGED entry /\ Live(q) \in BOOLEAN
    BY <1>c DEF Steady, TypeOK, Live
  <2> QED
    BY <1>b, <1>c, <2>1
<1>d. ASSUME NEW p \in Polls, NEW q \in Poll, CommitMode(q)
      PROVE  art' \in Sample
  BY <1>d, CommitType
<1>1. ASSUME NEW p \in Polls, NEW r \in BOOLEAN, NEW pow \in Powers,
             Hear(p, r, pow)
      PROVE  RepairInv'
  <2> DEFINE edge == r /\ unreachable # 0
             asked == r /\ pow \in {"on", "standby"}
                        /\ ~(pow = "standby" /\ learned)
             q == [Idle EXCEPT !.reachable = r, !.power = pow, !.edge = edge,
                               !.asked = asked]
  <2>1. q \in Poll
    BY IdleType DEF Poll, Idle
  <2>2. art' \in Sample /\ hostFault' \in BOOLEAN /\ UNCHANGED entry
    BY <1>1 DEF Hear, Polled, TypeOK
  <2>3. UNCHANGED <<data, repair>> \/ Conclude(p, q, FALSE, FALSE)
    BY <1>1 DEF Hear, Polled
  <2> HIDE DEF q
  <2> QED
    BY <1>a, <1>b, <2>1, <2>2, <2>3
<1>2. ASSUME NEW p \in Polls, NEW value \in ArtReadings \cup {"none"},
             ModeAnswers(p, value)
      PROVE  RepairInv'
  <2> DEFINE q == [poll[p] EXCEPT !.art = [value |-> value, at |-> revision.mode]]
  <2>1. value \in {"on", "off", "none"}
    BY DEF ArtReadings, TypeOK, AllScreens
  <2>2. q \in Poll
    BY <2>1, AnswerType
  <2>3. \/ UNCHANGED <<entry, data, repair>>
        \/ Steady /\ CommitMode(q) /\ Conclude(p, q, TRUE, Live(q))
    BY <1>2 DEF ModeAnswers, Steady, Asks
  <2> HIDE DEF q
  <2> QED
    BY <1>a, <1>c, <1>d, <2>2, <2>3
<1>3. ASSUME NEW p \in Polls, CurrentAnswers(p) PROVE RepairInv'
  <2> DEFINE q == [poll[p] EXCEPT !.current = revision.current]
  <2>1. q \in Poll
    BY AnswerType
  <2>2. \/ UNCHANGED <<entry, data, repair>>
        \/ Steady /\ CommitMode(q) /\ Conclude(p, q, TRUE, Live(q))
    BY <1>3 DEF CurrentAnswers, Steady, Asks
  <2> HIDE DEF q
  <2> QED
    BY <1>a, <1>c, <1>d, <2>1, <2>2
<1>4. ASSUME NEW p \in Polls, SettingsAnswer(p) PROVE RepairInv'
  <2> DEFINE q == [poll[p] EXCEPT !.settings = ReadOver]
  <2>1. q \in Poll
    BY AnswerType
  <2>2. \/ UNCHANGED <<entry, data, repair>>
        \/ Steady /\ UNCHANGED art /\ Conclude(p, q, TRUE, Live(q))
    BY <1>4 DEF SettingsAnswer, Steady, Asks
  <2>3. art' = art => art' \in Sample
    BY DEF TypeOK
  <2> HIDE DEF q
  <2> QED
    BY <1>a, <1>c, <2>1, <2>2, <2>3
<1>5. ASSUME NEW p \in Polls, SlideshowAnswers(p) PROVE RepairInv'
  <2>1. poll[p] \in Poll
    BY DEF TypeOK
  <2>2. /\ Steady /\ CommitMode(poll[p])
        /\ Conclude(p, poll[p], TRUE, Live(poll[p]))
    BY <1>5 DEF SlideshowAnswers
  <2> QED
    BY <1>c, <1>d, <2>1, <2>2
<1>6. ASSUME NEW p \in Polls, ExtrasAnswer(p) PROVE RepairInv'
  <2>1. /\ poll[p] \in Poll /\ poll[p].mode \in Modes /\ poll[p].art \in Sample
        /\ hostFault' \in BOOLEAN /\ UNCHANGED entry
    BY <1>6 DEF ExtrasAnswer, TypeOK, Poll
  <2>2. data' \in Data /\ SetRepair(data'.unavailable)
    BY <1>6, <2>1, PublishFacts DEF ExtrasAnswer
  <2>3. data'.unavailable \in BOOLEAN
    BY <2>2 DEF Data
  <2> QED
    BY <2>1, <2>2, <2>3, RepairKept
<1>7. ASSUME PushPublishes, art' \in Sample, UNCHANGED <<entry, repair>>
      PROVE  RepairInv'
  BY <1>7, PushFacts, RepairKept
<1>8. ASSUME NEW value \in {"on", "off"}, PushMode(value) PROVE RepairInv'
  <2>1. art' \in Sample
    BY <1>8 DEF PushMode, TypeOK, Sample
  <2> QED
    BY <1>7, <1>8, <2>1 DEF PushMode
<1>9. ASSUME PushCurrent PROVE RepairInv'
  BY <1>7, <1>9 DEF PushCurrent, TypeOK
<1>10. ASSUME UnloadBegins PROVE RepairInv'
  <2>1. repair'.raised = FALSE /\ repair'.synced
        /\ ((repair.synced => repair.issue = repair.raised)
             => repair'.issue = FALSE)
    BY <1>10, SetRepairFacts DEF UnloadBegins, TypeOK, Repairs
  <2>2. entry' # "loaded"
    BY <1>10 DEF UnloadBegins
  <2> QED
    BY <2>1, <2>2 DEF RepairInv
<1>11. ASSUME StopBegins \/ UnloadEnds PROVE RepairInv'
  BY <1>11 DEF StopBegins, UnloadEnds, RepairInv
<1>12. ASSUME ChannelUp \/ ChannelLost \/ HostFaultArises \/ TvChanges
              \/ ReconcileComesDue \/ PushStandby \/ UNCHANGED vars
       PROVE  RepairInv'
  BY <1>12, <1>a DEF ChannelUp, ChannelLost, HostFaultArises, TvChanges,
    ReconcileComesDue, PushStandby, vars
<1>13. ASSUME NEW p \in Polls,
              PollBegins(p) \/ RequestReconcile(p) \/ PollTimesOut(p)
       PROVE  RepairInv'
  BY <1>13, <1>a DEF PollBegins, RequestReconcile, PollTimesOut
<1>14. ASSUME NEW p \in Polls, PollStep(p) PROVE RepairInv'
  <2>1. ASSUME Answered(p) PROVE RepairInv'
    BY <1>1, <2>1 DEF Answered, RestPowers, Powers, TypeOK, AllScreens
  <2>2. ASSUME Unanswered(p) PROVE RepairInv'
    BY <1>1, <2>2 DEF Unanswered, Powers
  <2> QED
    BY <1>2, <1>3, <1>4, <1>5, <1>6, <1>14, <2>1, <2>2 DEF PollStep
<1>15. ASSUME Push PROVE RepairInv'
  BY <1>8, <1>9, <1>12, <1>15 DEF Push
<1> QED
  BY <1>10, <1>11, <1>12, <1>13, <1>14, <1>15 DEF Next

\* While the entry is loaded, the Repairs issue is raised exactly when the
\* snapshot says the Art service is unavailable, whichever of the polls that
\* run at the same time published it, and even over an issue left by an
\* earlier setup.
THEOREM RepairMatchesDataHolds == Spec => []RepairMatchesData
<1>1. Init => RepairInv
  BY DEF Init, RepairInv
<1>2. TypeOK /\ RepairInv /\ [Next]_vars => RepairInv'
  BY RepairStep
<1>3. RepairInv => RepairMatchesData
  BY DEF RepairInv, RepairMatchesData
<1> QED
  BY <1>1, <1>2, <1>3, TypeCorrect, PTL DEF Spec
-------------------------------------------------------------------------------
(* The channel *)

\* A step that is none of the channel's, the stop's or the entry's last.
LEMMA ChannelUntouched ==
  ASSUME UNCHANGED <<up, epoch, entry>>
  PROVE  UNCHANGED Channel!vars
BY DEF Channel!vars, Retired

\* What the coordinator assumes of the Art channel, its number, its fence and its
\* end with the entry, is no more than what ArtChannel says: the environment
\* this module gives the polls is one that ArtSession may be.
THEOREM CoordinatorOverChannel == Spec => Channel!Spec
<1> USE DEF channel, cache, counts, published
<1>1. Init => Channel!Init
  BY DEF Init, Channel!Init, Retired
<1>2. [Next]_vars => [Channel!Next]_Channel!vars
  <2> SUFFICES ASSUME [Next]_vars PROVE [Channel!Next]_Channel!vars
    OBVIOUS
  <2>1. ASSUME NEW p \in Polls,
               PollBegins(p) \/ RequestReconcile(p) \/ PollStep(p)
                 \/ PollTimesOut(p)
        PROVE  UNCHANGED <<up, epoch, entry>>
    BY <2>1
    DEF PollBegins, RequestReconcile, PollStep, PollTimesOut, Begins, Answered,
        Unanswered, Hear, Polled, ModeAnswers, CurrentAnswers, SettingsAnswer,
        SlideshowAnswers, ExtrasAnswer, Steady
  <2>2. ASSUME Push PROVE UNCHANGED <<up, epoch, entry>>
    BY <2>2 DEF Push, PushMode, PushCurrent, PushStandby
  <2>3. ASSUME HostFaultArises \/ TvChanges \/ ReconcileComesDue
                 \/ UNCHANGED vars
        PROVE  UNCHANGED <<up, epoch, entry>>
    BY <2>3 DEF HostFaultArises, TvChanges, ReconcileComesDue, vars
  <2>4. ASSUME ChannelUp \/ ChannelLost PROVE Channel!Next
    BY <2>4 DEF ChannelUp, ChannelLost, Channel!Next
  <2>5. ASSUME StopBegins PROVE Channel!Next
    BY <2>5 DEF StopBegins, Channel!Next
  <2>6. ASSUME UnloadBegins \/ UnloadEnds PROVE UNCHANGED Channel!vars
    <3>1. UNCHANGED <<up, epoch>>
      BY <2>6 DEF UnloadBegins, UnloadEnds
    <3>2. \/ entry = "loaded" /\ entry' = "unloading"
          \/ entry = "stopping" /\ entry' = "unloaded"
      BY <2>6 DEF UnloadBegins, UnloadEnds
    <3>3. Retired' = Retired
      BY <3>2 DEF Retired
    <3> QED
      BY <3>1, <3>3 DEF Channel!vars
  <2> QED
    BY <2>1, <2>2, <2>3, <2>4, <2>5, <2>6, ChannelUntouched DEF Next
<1> QED
  BY <1>1, <1>2, PTL DEF Spec, Channel!Spec
===============================================================================
