----------------------------- MODULE DialectsProof -----------------------------
(***************************************************************************)
(* The safety properties of Dialects, for every number of polls and        *)
(* services, every firmware and every number of generations.               *)
(*                                                                         *)
(* The invariant says of each task what its place in the chain of probes   *)
(* allows (TaskSound): liveness_proven is a fact about the generation the  *)
(* pass began with, and only once some probe of the same chain has been    *)
(* answered over it.                                                       *)
(***************************************************************************)
EXTENDS Dialects, TLAPS

Pairs == [generation : Nat, settings : SettingsDialects, slideshow : SlideshowDialects]

\* Some probe of the settings was answered, or refused by correlation.
SettingsAnswered(h) ==
  \/ <<"aggregate", "refused">> \in h
  \/ \E r \in {"brightness", "color"}, v \in Verdicts : <<r, v>> \in h

\* The dialects d in generation e, when h was heard over it and p was proven.
DialectsSound(d, e, h, p) ==
  /\ d \in Pairs /\ d.generation <= e
  /\ d.generation = e =>
       /\ d.settings = "aggregate" => <<"aggregate", "value">> \in h
       /\ d.settings = "legacy" => SettingsAnswered(h)
       /\ d.slideshow = "auto" => <<"auto", "value">> \in h
       /\ d.slideshow = "legacy" => <<"status", "value">> \in h
       /\ d.slideshow = "unsupported" =>
            <<"auto", "refused">> \in h \/ <<"status", "refused">> \in h
  /\ d.slideshow = "auto" => "auto" \in p
  /\ d.slideshow = "legacy" => "status" \in p

\* What a task knows by the request it is at.
TaskSound(x, e, h, p) ==
  /\ x \in Records
  /\ x.request \in {"aggregate", "auto"} => ~x.alive
  /\ x.request = "auto" => ~x.cached
  /\ x.request = "status" /\ x.cached => ~x.alive
  /\ x.proof => x.alive
  /\ x.alive /\ x.generation = e /\ x.request \in {"brightness", "color"} =>
       SettingsAnswered(h)
  /\ x.alive /\ x.generation = e /\ x.request = "status" => <<"auto", "refused">> \in h
  /\ x.request \in Setters => Getter(x.request) \in p

IInv ==
  /\ TypeOK
  /\ DialectsSound(dialects, epoch, heard, proven)
  /\ \A t \in Tasks : /\ TaskSound(task[t], epoch, heard, proven)
                      /\ task[t].generation <= dialects.generation

\* The history of this generation grows.
Grows ==
  /\ heard \subseteq heard' /\ heard' \subseteq Reads \X Verdicts
  /\ proven \subseteq proven' /\ proven' \subseteq Reads

-------------------------------------------------------------------------------
(* What is sound stays sound *)

LEMMA DialectsMonotone ==
  ASSUME NEW d, NEW e, NEW h, NEW p, NEW i, NEW q, DialectsSound(d, e, h, p),
         h \subseteq i, p \subseteq q
  PROVE  DialectsSound(d, e, i, q)
BY DEF DialectsSound, SettingsAnswered

LEMMA TaskMonotone ==
  ASSUME NEW x, NEW e, NEW h, NEW p, NEW i, NEW q, TaskSound(x, e, h, p),
         h \subseteq i, p \subseteq q
  PROVE  TaskSound(x, e, i, q)
BY DEF TaskSound, SettingsAnswered

\* A step of the task t, which goes on as x and leaves the dialects d.
LEMMA TaskStep ==
  ASSUME IInv, NEW t \in Tasks, NEW x, NEW d,
         TaskSound(x, epoch, heard', proven'), x.generation <= d.generation,
         DialectsSound(d, epoch, heard', proven'), dialects.generation <= d.generation,
         Grows, task' = [task EXCEPT ![t] = x], dialects' = d,
         UNCHANGED <<epoch, stopped, deaf, firmware>>, up' \in BOOLEAN, lock' \in BOOLEAN
  PROVE  IInv'
<1>1. x \in Records /\ d \in Pairs /\ task \in [Tasks -> Records] /\ dialects \in Pairs
  BY DEF IInv, TaskSound, DialectsSound, TypeOK, Pairs
<1>2. TypeOK'
  BY <1>1 DEF IInv, TypeOK, Grows, Pairs
<1>3. ASSUME NEW s \in Tasks
      PROVE  TaskSound(task'[s], epoch, heard', proven') /\ task'[s].generation <= d.generation
  <2>1. CASE s = t
    BY <1>1, <2>1
  <2>2. CASE s # t
    <3>1. task'[s] = task[s]
      BY <1>1, <2>2
    <3>2. TaskSound(task[s], epoch, heard, proven) /\ task[s].generation <= dialects.generation
      BY DEF IInv
    <3>3. TaskSound(task[s], epoch, heard', proven')
      BY <3>2, TaskMonotone DEF Grows
    <3>4. /\ task[s].generation \in Nat /\ dialects.generation \in Nat
          /\ d.generation \in Nat
      BY <1>1 DEF Records, Pairs
    <3> QED
      BY <3>1, <3>2, <3>3, <3>4
  <2> QED
    BY <2>1, <2>2
<1> QED
  BY <1>2, <1>3 DEF IInv

LEMMA Facts ==
  ASSUME IInv, NEW t \in Tasks
  PROVE  /\ task \in [Tasks -> Records] /\ task[t] \in Records
         /\ TaskSound(task[t], epoch, heard, proven)
         /\ dialects \in Pairs /\ epoch \in Nat
         /\ task[t].generation \in Nat /\ dialects.generation \in Nat
         /\ task[t].generation <= dialects.generation /\ dialects.generation <= epoch
         /\ up \in BOOLEAN /\ lock \in BOOLEAN
BY DEF IInv, TypeOK, Records, Pairs, DialectsSound

-------------------------------------------------------------------------------
(* The records a task goes on with *)

LEMMA IdleSound ==
  \A e, h, p : TaskSound(Idle, e, h, p) /\ Idle.generation = 0
BY DEF Idle, TaskSound, Records, AllKinds, Reads, Setters

LEMMA PcSound ==
  ASSUME NEW x, NEW e, NEW h, NEW p, TaskSound(x, e, h, p),
         NEW c \in {"idle", "queued", "sent", "closing", "reporting"}
  PROVE  LET y == [x EXCEPT !.pc = c]
         IN /\ TaskSound(y, e, h, p) /\ y.generation = x.generation
            /\ y.pc = c /\ y.proof = x.proof
<1> DEFINE y == [x EXCEPT !.pc = c]
<1>1. x \in Records
  BY DEF TaskSound
<1>2. /\ y \in Records /\ y.pc = c /\ y.request = x.request /\ y.generation = x.generation
      /\ y.alive = x.alive /\ y.cached = x.cached /\ y.proof = x.proof
  BY <1>1 DEF Records
<1> HIDE DEF y
<1>3. TaskSound(y, e, h, p)
  BY <1>2 DEF TaskSound
<1> QED
  BY <1>2, <1>3 DEF y

\* A task that asks for r next.
LEMMA AskingSound ==
  ASSUME NEW x \in Records, NEW r \in Reads, NEW e, NEW h, NEW p, NEW g \in Nat,
         x.generation <= g,
         r \in {"aggregate", "auto"} => ~x.alive,
         r = "auto" => ~x.cached,
         r = "status" /\ x.cached => ~x.alive,
         x.proof => x.alive,
         x.alive /\ x.generation = e /\ r \in {"brightness", "color"} => SettingsAnswered(h),
         x.alive /\ x.generation = e /\ r = "status" => <<"auto", "refused">> \in h
  PROVE  TaskSound(Asking(x, r), e, h, p) /\ Asking(x, r).generation <= g
<1> DEFINE y == [x EXCEPT !.pc = "queued", !.request = r]
<1>1. /\ y \in Records /\ y.request = r /\ y.generation = x.generation
      /\ y.alive = x.alive /\ y.cached = x.cached /\ y.proof = x.proof
  BY DEF Records
<1>2. r \notin Setters
  BY DEF Reads, Setters
<1>3. Asking(x, r) \in {y, Idle}
  BY DEF Asking
<1> HIDE DEF y
<1>4. TaskSound(y, e, h, p) /\ y.generation <= g
  BY <1>1, <1>2 DEF TaskSound
<1>5. TaskSound(Idle, e, h, p) /\ Idle.generation <= g
  BY IdleSound
<1> QED
  BY <1>3, <1>4, <1>5

\* A task that returns, and perhaps goes on with a write.
LEMMA ReturnedSound ==
  ASSUME NEW x \in Records, NEW d, NEW e, NEW h, NEW p, NEW g \in Nat,
         x.generation <= g, x.proof => x.alive,
         d.slideshow = "auto" => "auto" \in p,
         d.slideshow = "legacy" => "status" \in p
  PROVE  /\ TaskSound(Chosen(x, d), e, h, p) /\ Chosen(x, d).generation <= g
         /\ TaskSound(Returned(x, d), e, h, p) /\ Returned(x, d).generation <= g
<1>1. TaskSound(Idle, e, h, p) /\ Idle.generation <= g
  BY IdleSound
<1>2. CASE d.slideshow \in {"auto", "legacy"}
  <2> DEFINE s == Setter(d.slideshow)
             y == [x EXCEPT !.pc = "queued", !.request = s]
  <2>1. s \in Setters /\ Getter(s) \in p
    BY <1>2 DEF Setter, Getter, Setters
  <2> HIDE DEF s
  <2>2. /\ y \in Records /\ y.request = s /\ y.generation = x.generation
        /\ y.alive = x.alive /\ y.cached = x.cached /\ y.proof = x.proof
    BY <2>1 DEF Records
  <2>3. Chosen(x, d) = y
    BY <1>2 DEF Chosen, s
  <2> HIDE DEF y
  <2>4. TaskSound(y, e, h, p) /\ y.generation <= g
    BY <2>1, <2>2 DEF TaskSound, Setters
  <2> QED
    BY <1>1, <2>3, <2>4 DEF Returned
<1>3. CASE d.slideshow \notin {"auto", "legacy"}
  BY <1>1, <1>3 DEF Chosen, Returned
<1> QED
  BY <1>2, <1>3

\* A task that was answered.
LEMMA ProvenSound ==
  ASSUME NEW x \in Records
  PROVE  LET y == Proven(x)
         IN /\ y \in Records /\ y.alive /\ (y.proof => y.alive)
            /\ y.request = x.request /\ y.generation = x.generation
            /\ y.kind = x.kind /\ y.cached = x.cached
            /\ (Current(y) <=> Current(x))
<1> DEFINE b == x.proof \/ x.generation = epoch
<1>1. b \in BOOLEAN
  OBVIOUS
<1>2. Proven(x) = [x EXCEPT !.alive = TRUE, !.proof = b]
  BY DEF Proven, Records
<1> HIDE DEF b
<1> QED
  BY <1>1, <1>2 DEF Records, Current
-------------------------------------------------------------------------------
(* How a task goes on *)

LEMMA ContinueKeeps ==
  ASSUME IInv, NEW t \in Tasks, NEW y, TaskSound(y, epoch, heard', proven'),
         y.generation <= dialects.generation, Grows, Continue(t, y, dialects),
         UNCHANGED <<deaf, firmware>>, lock' \in BOOLEAN
  PROVE  IInv'
<1>1. DialectsSound(dialects, epoch, heard', proven')
  BY DialectsMonotone DEF IInv, Grows
<1>2. /\ dialects.generation <= dialects.generation /\ up' \in BOOLEAN
      /\ task' = [task EXCEPT ![t] = y] /\ dialects' = dialects
      /\ UNCHANGED <<epoch, stopped>>
  BY Facts DEF Continue, channel
<1> QED
  BY <1>1, <1>2, TaskStep

LEMMA ReportingKeeps ==
  ASSUME IInv, NEW t \in Tasks, Reporting(t), Grows, UNCHANGED <<deaf, firmware>>,
         lock' \in BOOLEAN
  PROVE  IInv'
<1> DEFINE y == [task[t] EXCEPT !.pc = "reporting"]
<1>1. TaskSound(y, epoch, heard, proven) /\ y.generation = task[t].generation
  BY Facts, PcSound
<1>2. task' = [task EXCEPT ![t] = y]
  BY DEF Reporting
<1> HIDE DEF y
<1>3. TaskSound(y, epoch, heard', proven')
  BY <1>1, TaskMonotone DEF Grows
<1>4. DialectsSound(dialects, epoch, heard', proven')
  BY DialectsMonotone DEF IInv, Grows
<1>5. /\ y.generation <= dialects.generation
      /\ dialects.generation <= dialects.generation
  <2>1. dialects.generation \in Nat /\ task[t].generation <= dialects.generation
    BY Facts
  <2> QED
    BY <1>1, <2>1
<1>6. up' \in BOOLEAN /\ dialects' = dialects /\ UNCHANGED <<epoch, stopped>>
  <2>1. up \in BOOLEAN
    BY Facts
  <2> QED
    BY <2>1 DEF Reporting, Dropped
<1> QED
  BY <1>2, <1>3, <1>4, <1>5, <1>6, TaskStep

\* A dialect is written by a pass over the present generation.
LEMMA CurrentGeneration ==
  ASSUME IInv, NEW t \in Tasks, NEW x, x.generation = task[t].generation, Current(x)
  PROVE  dialects.generation = epoch
<1>1. x.generation = epoch
  BY DEF Current
<1>2. /\ task[t].generation <= dialects.generation /\ dialects.generation <= epoch
      /\ dialects.generation \in Nat /\ epoch \in Nat
  BY Facts
<1> QED
  BY <1>1, <1>2

LEMMA LearnKeeps ==
  ASSUME IInv, NEW t \in Tasks, NEW x \in Records, x.generation = task[t].generation,
         x.proof => x.alive, NEW v \in SlideshowDialects, Learn(t, x, v), Grows,
         UNCHANGED <<deaf, firmware>>, lock' \in BOOLEAN,
         Current(x) =>
           /\ v = "auto" => <<"auto", "value">> \in heard' /\ "auto" \in proven'
           /\ v = "legacy" => <<"status", "value">> \in heard' /\ "status" \in proven'
           /\ v = "unsupported" =>
                <<"auto", "refused">> \in heard' \/ <<"status", "refused">> \in heard'
  PROVE  IInv'
<1> DEFINE e == [dialects EXCEPT !.slideshow = v]
           d == IF Current(x) THEN e ELSE dialects
<1>1. DialectsSound(dialects, epoch, heard', proven')
  BY DialectsMonotone DEF IInv, Grows
<1>2. /\ e \in Pairs /\ e.generation = dialects.generation
      /\ e.settings = dialects.settings /\ e.slideshow = v
  BY Facts DEF Pairs
<1>3. Continue(t, Returned(x, d), d)
  BY DEF Learn
<1> HIDE DEF e
<1>4. DialectsSound(d, epoch, heard', proven') /\ d.generation = dialects.generation
  BY <1>1, <1>2 DEF DialectsSound
<1>5. TaskSound(Returned(x, d), epoch, heard', proven')
      /\ Returned(x, d).generation <= dialects.generation
  <2>1. /\ d.slideshow = "auto" => "auto" \in proven'
        /\ d.slideshow = "legacy" => "status" \in proven'
    BY <1>4 DEF DialectsSound
  <2>2. x.generation <= dialects.generation /\ dialects.generation \in Nat
    BY Facts
  <2> HIDE DEF d
  <2> QED
    BY <2>1, <2>2, ReturnedSound
<1> HIDE DEF d
<1>6. /\ task' = [task EXCEPT ![t] = Returned(x, d)] /\ dialects' = d
      /\ up' \in BOOLEAN /\ UNCHANGED <<epoch, stopped>>
      /\ dialects.generation <= d.generation
  BY <1>3, <1>4, Facts DEF Continue, channel
<1> QED
  BY <1>4, <1>5, <1>6, TaskStep

LEMMA LearnSettingKeeps ==
  ASSUME IInv, NEW t \in Tasks, NEW v \in SettingsDialects, Grows,
         Continue(t, Idle, [dialects EXCEPT !.settings = v]),
         UNCHANGED <<deaf, firmware>>, lock' \in BOOLEAN,
         v = "aggregate" => <<"aggregate", "value">> \in heard',
         v = "legacy" => SettingsAnswered(heard')
  PROVE  IInv'
<1> DEFINE d == [dialects EXCEPT !.settings = v]
<1>1. DialectsSound(dialects, epoch, heard', proven')
  BY DialectsMonotone DEF IInv, Grows
<1>2. /\ d \in Pairs /\ d.generation = dialects.generation
      /\ d.slideshow = dialects.slideshow /\ d.settings = v
  BY Facts DEF Pairs
<1>3. /\ task' = [task EXCEPT ![t] = Idle] /\ dialects' = d
      /\ up' \in BOOLEAN /\ UNCHANGED <<epoch, stopped>>
  BY Facts DEF Continue, channel
<1> HIDE DEF d
<1>4. DialectsSound(d, epoch, heard', proven')
  BY <1>1, <1>2 DEF DialectsSound
<1>5. /\ TaskSound(Idle, epoch, heard', proven') /\ Idle.generation <= d.generation
      /\ dialects.generation <= d.generation
  BY <1>2, IdleSound, Facts
<1> QED
  BY <1>3, <1>4, <1>5, TaskStep

\* The chain of reads of the settings: whoever is alive over the present
\* generation was answered by one of them.
LEMMA NextSettingKeeps ==
  ASSUME IInv, NEW t \in Tasks, NEW x \in Records, x.generation = task[t].generation,
         x.proof => x.alive, NextSetting(t, x), Grows,
         UNCHANGED <<deaf, firmware>>, lock' \in BOOLEAN,
         (x.alive /\ x.generation = epoch
           /\ x.request \in {"aggregate", "brightness", "color"}) => SettingsAnswered(heard')
  PROVE  IInv'
<1>1. x.generation <= dialects.generation /\ dialects.generation \in Nat
  BY Facts
<1>2. TaskSound(Idle, epoch, heard', proven') /\ Idle.generation <= dialects.generation
  BY <1>1, IdleSound
<1>3. ASSUME NEW r \in {"brightness", "color"},
             x.request \in {"aggregate", "brightness"},
             Continue(t, Asking(x, r), dialects)
      PROVE  IInv'
  <2>1. TaskSound(Asking(x, r), epoch, heard', proven')
        /\ Asking(x, r).generation <= dialects.generation
    BY <1>1, <1>3, AskingSound DEF Reads
  <2> QED
    BY <1>3, <2>1, ContinueKeeps
<1>4. CASE Continue(t, Idle, dialects)
  BY <1>2, <1>4, ContinueKeeps
<1>5. CASE /\ x.request = "color" /\ Current(x) /\ x.alive
           /\ Continue(t, Idle, [dialects EXCEPT !.settings = "legacy"])
  <2>1. SettingsAnswered(heard')
    BY <1>5 DEF Current
  <2> QED
    BY <1>5, <2>1, LearnSettingKeeps DEF SettingsDialects
<1>6. CASE Reporting(t)
  BY <1>6, ReportingKeeps
<1> QED
  BY <1>3, <1>4, <1>5, <1>6 DEF NextSetting

-------------------------------------------------------------------------------
(* Every action *)

LEMMA Initially == Init => IInv
<1> SUFFICES ASSUME Init PROVE IInv
  OBVIOUS
<1>1. Idle \in Records
  BY IdleSound DEF TaskSound
<1>2. /\ Unlearned(0) \in Pairs /\ Unlearned(0).generation = 0
      /\ Unlearned(0).settings = "unknown" /\ Unlearned(0).slideshow = "unknown"
  BY DEF Unlearned, Pairs, SettingsDialects, SlideshowDialects
<1>3. firmware \in [Reads -> SUBSET Outcomes]
  BY FirmwareAssumption DEF Init
<1>4. TypeOK
  BY <1>1, <1>2, <1>3 DEF Init, TypeOK, Pairs
<1>5. DialectsSound(dialects, epoch, heard, proven)
  BY <1>2 DEF Init, DialectsSound
<1>6. ASSUME NEW t \in Tasks
      PROVE  TaskSound(task[t], epoch, heard, proven)
             /\ task[t].generation <= dialects.generation
  <2>1. task[t] = Idle /\ dialects.generation = 0
    BY <1>2 DEF Init
  <2> QED
    BY <2>1, IdleSound
<1> QED
  BY <1>4, <1>5, <1>6 DEF IInv

LEMMA ChannelKeeps ==
  ASSUME IInv, Lose \/ GoDeaf \/ Stop
  PROVE  IInv'
<1>1. UNCHANGED <<epoch, firmware, lock, dialects, task, heard, proven>>
  BY DEF Lose, GoDeaf, Stop, Channel!Lose, Channel!Retire, channel, history
<1>2. up' \in BOOLEAN /\ stopped' \in BOOLEAN /\ deaf' \in BOOLEAN
  BY DEF IInv, TypeOK, Lose, GoDeaf, Stop, Channel!Lose, Channel!Retire, channel, history
<1> QED
  BY <1>1, <1>2 DEF IInv, TypeOK

\* A new generation: whatever was learned before belongs to an earlier one.
LEMMA EstablishKeeps ==
  ASSUME IInv, Establish
  PROVE  IInv'
<1>1. /\ up' = TRUE /\ epoch' = epoch + 1 /\ UNCHANGED stopped
      /\ deaf' = FALSE /\ heard' = {}
      /\ UNCHANGED <<firmware, lock, dialects, task, proven>>
  BY DEF Establish, Channel!Establish
<1>2. /\ epoch \in Nat /\ dialects \in Pairs /\ dialects.generation \in Nat
      /\ dialects.generation <= epoch /\ task \in [Tasks -> Records]
  BY DEF IInv, TypeOK, Pairs, DialectsSound
<1>3. TypeOK'
  <2>1. epoch' \in Nat
    BY <1>1, <1>2
  <2>2. heard' \subseteq Reads \X Verdicts
    BY <1>1
  <2> QED
    BY <1>1, <2>1, <2>2 DEF IInv, TypeOK
<1>4. dialects.generation < epoch' /\ dialects.generation <= epoch'
  BY <1>1, <1>2
<1>5. DialectsSound(dialects, epoch', heard', proven')
  BY <1>1, <1>2, <1>4 DEF IInv, DialectsSound
<1>6. ASSUME NEW t \in Tasks
      PROVE  TaskSound(task[t], epoch', heard', proven')
  <2>1. task[t].generation # epoch'
    BY <1>2, <1>4 DEF IInv, Records
  <2> QED
    BY <1>1, <2>1 DEF IInv, TaskSound
<1> QED
  BY <1>1, <1>3, <1>5, <1>6 DEF IInv

LEMMA ResetSound ==
  ASSUME IInv
  PROVE  /\ DialectsSound(Reset, epoch, heard, proven)
         /\ Reset.generation = epoch /\ dialects.generation <= Reset.generation
<1>1. epoch \in Nat /\ dialects \in Pairs /\ dialects.generation <= epoch
  BY DEF IInv, TypeOK, DialectsSound
<1>2. /\ Unlearned(epoch) \in Pairs /\ Unlearned(epoch).generation = epoch
      /\ Unlearned(epoch).settings = "unknown" /\ Unlearned(epoch).slideshow = "unknown"
  BY <1>1 DEF Unlearned, Pairs, SettingsDialects, SlideshowDialects
<1>3. DialectsSound(Unlearned(epoch), epoch, heard, proven)
  BY <1>1, <1>2 DEF DialectsSound
<1> QED
  BY <1>1, <1>2, <1>3 DEF Reset, IInv

LEMMA BegunType ==
  ASSUME IInv, NEW kind \in AllKinds, NEW c \in BOOLEAN
  PROVE  LET y == Begun(kind, c)
         IN /\ y \in Records /\ y.generation = epoch /\ ~y.alive /\ ~y.proof
            /\ (y.cached <=> c)
<1>1. Idle \in Records /\ epoch \in Nat
  BY IdleSound DEF TaskSound, IInv, TypeOK
<1> QED
  BY <1>1 DEF Begun, Records, Idle

LEMMA BeginKeeps ==
  ASSUME IInv, NEW t \in Tasks, Begin(t)
  PROVE  IInv'
<1>1. PICK x : /\ task' = [task EXCEPT ![t] = x]
               /\ TaskSound(x, epoch, heard, proven) /\ x.generation <= epoch
  <2>1. epoch \in Nat
    BY DEF IInv, TypeOK
  <2>2. CASE BeginSettings(t)
    <3> DEFINE l == Reset.settings = "legacy"
               r == IF l THEN "brightness" ELSE "aggregate"
               x == Asking(Begun("settings", l), r)
    <3>1. task' = [task EXCEPT ![t] = x]
      BY <2>2 DEF BeginSettings
    <3>2. l \in BOOLEAN /\ r \in Reads /\ r \notin {"auto", "status"}
      BY DEF Reads
    <3> HIDE DEF l, r
    <3>3. TaskSound(x, epoch, heard, proven) /\ x.generation <= epoch
      BY <2>1, <3>2, BegunType, AskingSound DEF AllKinds
    <3> QED
      BY <3>1, <3>3
  <2>3. CASE BeginSlideshow(t)
    <3> DEFINE l == Reset.slideshow = "legacy"
               r == IF l THEN "status" ELSE "auto"
               x == Asking(Begun("slideshow", l), r)
    <3>1. \/ task' = [task EXCEPT ![t] = x]
          \/ task' = [task EXCEPT ![t] = Idle]
      BY <2>3 DEF BeginSlideshow
    <3>2. l \in BOOLEAN /\ r \in Reads /\ (r = "auto" => ~l) /\ r \in {"auto", "status"}
      BY DEF Reads
    <3> HIDE DEF l, r
    <3>3. TaskSound(x, epoch, heard, proven) /\ x.generation <= epoch
      BY <2>1, <3>2, BegunType, AskingSound DEF AllKinds
    <3> QED
      BY <2>1, <3>1, <3>3, IdleSound
  <2>4. CASE BeginWrite(t)
    <3> DEFINE b == Begun("write", FALSE)
    <3>1. \/ task' = [task EXCEPT ![t] = Asking(b, "auto")]
          \/ task' = [task EXCEPT ![t] = Chosen(b, Reset)]
      BY <2>4 DEF BeginWrite
    <3>2. b \in Records /\ b.generation = epoch /\ ~b.alive /\ ~b.proof /\ ~b.cached
      BY BegunType DEF AllKinds
    <3> HIDE DEF b
    <3>3. TaskSound(Asking(b, "auto"), epoch, heard, proven)
          /\ Asking(b, "auto").generation <= epoch
      BY <2>1, <3>2, AskingSound DEF Reads
    <3>4. TaskSound(Chosen(b, Reset), epoch, heard, proven)
          /\ Chosen(b, Reset).generation <= epoch
      <4>1. /\ Reset.slideshow = "auto" => "auto" \in proven
            /\ Reset.slideshow = "legacy" => "status" \in proven
        BY ResetSound DEF DialectsSound
      <4> QED
        BY <2>1, <3>2, <4>1, ReturnedSound
    <3> QED
      BY <3>1, <3>3, <3>4
  <2> QED
    BY <2>2, <2>3, <2>4 DEF Begin
<1>2. /\ dialects' = Reset /\ UNCHANGED <<channel, deaf, firmware, lock, history>>
  BY DEF Begin, BeginSettings, BeginSlideshow, BeginWrite
<1>3. UNCHANGED <<up, epoch, stopped, deaf, firmware, lock, heard, proven>>
  BY <1>2 DEF channel, history
<1>4. Grows /\ up' \in BOOLEAN /\ lock' \in BOOLEAN
  BY <1>3 DEF Grows, IInv, TypeOK
<1>5. /\ TaskSound(x, epoch, heard', proven') /\ x.generation <= Reset.generation
      /\ DialectsSound(Reset, epoch, heard', proven')
      /\ dialects.generation <= Reset.generation
  BY <1>1, <1>3, ResetSound
<1> QED
  BY <1>1, <1>2, <1>3, <1>4, <1>5, TaskStep

\* A task that only moves on, with the dialects as they are.
LEMMA MovesOnKeeps ==
  ASSUME IInv, NEW t \in Tasks, NEW y, TaskSound(y, epoch, heard, proven),
         y.generation <= dialects.generation, task' = [task EXCEPT ![t] = y],
         UNCHANGED <<epoch, stopped, deaf, firmware, dialects, heard, proven>>,
         up' \in BOOLEAN, lock' \in BOOLEAN
  PROVE  IInv'
<1>1. Grows
  BY DEF Grows, IInv, TypeOK
<1>2. /\ dialects.generation <= dialects.generation
      /\ DialectsSound(dialects, epoch, heard', proven')
      /\ TaskSound(y, epoch, heard', proven')
  BY Facts DEF IInv
<1> QED
  BY <1>1, <1>2, TaskStep

LEMMA SendKeeps ==
  ASSUME IInv, NEW t \in Tasks, Send(t)
  PROVE  IInv'
<1> DEFINE x == task[t]
           y == [x EXCEPT !.pc = "sent", !.over = epoch]
<1>1. x \in Records /\ TaskSound(x, epoch, heard, proven) /\ epoch \in Nat
      /\ task \in [Tasks -> Records] /\ x.generation <= dialects.generation
      /\ up \in BOOLEAN
  BY Facts
<1>2. task' = [task EXCEPT ![t] = y]
  BY <1>1 DEF Send
<1> HIDE DEF x
<1>3. /\ y \in Records /\ y.request = x.request /\ y.generation = x.generation
      /\ y.alive = x.alive /\ y.cached = x.cached /\ y.proof = x.proof
  BY <1>1 DEF Records
<1> HIDE DEF y
<1>4. TaskSound(y, epoch, heard, proven) /\ y.generation <= dialects.generation
  BY <1>1, <1>3 DEF TaskSound
<1>5. /\ UNCHANGED <<epoch, stopped, deaf, firmware, dialects, heard, proven>>
      /\ up' \in BOOLEAN /\ lock' \in BOOLEAN
  BY <1>1 DEF Send, channel, history
<1> QED
  BY <1>2, <1>4, <1>5, MovesOnKeeps

LEMMA WriteClosingKeeps ==
  ASSUME IInv, NEW t \in Tasks, WriteTimeout(t) \/ WriteClosed(t)
  PROVE  IInv'
<1>1. PICK c \in {"closing", "reporting"} : task' = [task EXCEPT ![t].pc = c]
  BY DEF WriteTimeout, WriteClosed
<1> DEFINE y == [task[t] EXCEPT !.pc = c]
<1>2. TaskSound(y, epoch, heard, proven) /\ y.generation = task[t].generation
  <2>1. c \in {"idle", "queued", "sent", "closing", "reporting"}
    OBVIOUS
  <2> QED
    BY <2>1, Facts, PcSound
<1>3. task' = [task EXCEPT ![t] = y]
  BY <1>1
<1> HIDE DEF y
<1>4. y.generation <= dialects.generation
  BY <1>2, Facts
<1>5. /\ UNCHANGED <<epoch, stopped, deaf, firmware, dialects, heard, proven>>
      /\ up' \in BOOLEAN /\ lock' \in BOOLEAN
  BY Facts DEF WriteTimeout, WriteClosed, channel, history
<1> QED
  BY <1>2, <1>3, <1>4, <1>5, MovesOnKeeps

LEMMA ReportedKeeps ==
  ASSUME IInv, NEW t \in Tasks, Reported(t)
  PROVE  IInv'
<1> DEFINE x == task[t]
           y == IF x.request \in Setters THEN Idle ELSE Returned(x, dialects)
<1>1. /\ task' = [task EXCEPT ![t] = y]
      /\ UNCHANGED <<up, lock, epoch, stopped, deaf, firmware, dialects, heard, proven>>
  BY DEF Reported, channel, history
<1>2. /\ x \in Records /\ (x.proof => x.alive) /\ dialects.generation \in Nat
      /\ x.generation <= dialects.generation
      /\ up \in BOOLEAN /\ lock \in BOOLEAN
  BY Facts DEF TaskSound
<1>3. /\ dialects.slideshow = "auto" => "auto" \in proven
      /\ dialects.slideshow = "legacy" => "status" \in proven
  BY DEF IInv, DialectsSound
<1> HIDE DEF x
<1>4. TaskSound(y, epoch, heard, proven) /\ y.generation <= dialects.generation
  BY <1>2, <1>3, IdleSound, ReturnedSound
<1> HIDE DEF y
<1> QED
  BY <1>1, <1>2, <1>4, MovesOnKeeps

LEMMA FailKeeps ==
  ASSUME IInv, NEW t \in Tasks, Fail(t)
  PROVE  IInv'
<1>1. Reporting(t) /\ UNCHANGED <<deaf, firmware, history>>
  BY DEF Fail
<1>2. Grows /\ lock' \in BOOLEAN
  BY <1>1, Facts DEF Grows, IInv, TypeOK, history, Fail
<1> QED
  BY <1>1, <1>2, ReportingKeeps

LEMMA HeardGrows ==
  ASSUME IInv, NEW t \in Tasks, NEW v \in Verdicts, Heard(t, v)
  PROVE  /\ Grows
         /\ task[t].request \in Reads => <<task[t].request, v>> \in heard'
         /\ task[t].request \in Reads /\ v = "value" => task[t].request \in proven'
BY DEF IInv, TypeOK, Heard, Grows

LEMMA ValueKeeps ==
  ASSUME IInv, NEW t \in Tasks, Value(t)
  PROVE  IInv'
<1> DEFINE x == Proven(task[t])
<1>1. /\ x \in Records /\ x.alive /\ (x.proof => x.alive)
      /\ x.request = task[t].request /\ x.generation = task[t].generation
  BY Facts, ProvenSound
<1>2. /\ Grows
      /\ x.request \in Reads => <<x.request, "value">> \in heard'
      /\ x.request \in Reads => x.request \in proven'
  BY <1>1, HeardGrows DEF Value, Verdicts
<1>3. UNCHANGED <<deaf, firmware>> /\ lock' \in BOOLEAN
  BY DEF Value
<1> HIDE DEF x
<1>4. CASE Continue(t, Idle, dialects)
  <2>1. TaskSound(Idle, epoch, heard', proven') /\ Idle.generation <= dialects.generation
    BY IdleSound, Facts
  <2> QED
    BY <1>2, <1>3, <1>4, <2>1, ContinueKeeps
<1>5. CASE /\ x.request = "aggregate"
           /\ Continue(t, Idle, [dialects EXCEPT !.settings = "aggregate"])
  BY <1>2, <1>3, <1>5, LearnSettingKeeps DEF Reads, SettingsDialects
<1>6. CASE x.request \in {"brightness", "color"} /\ NextSetting(t, x)
  <2>1. SettingsAnswered(heard')
    BY <1>2, <1>6 DEF SettingsAnswered, Reads, Verdicts
  <2> QED
    BY <1>1, <1>2, <1>3, <1>6, <2>1, NextSettingKeeps
<1>7. CASE x.request = "auto" /\ Learn(t, x, "auto")
  <2>1. <<"auto", "value">> \in heard' /\ "auto" \in proven'
    BY <1>2, <1>7 DEF Reads
  <2> QED
    BY <1>1, <1>2, <1>3, <1>7, <2>1, LearnKeeps DEF SlideshowDialects
<1>8. CASE x.request = "status" /\ Learn(t, x, "legacy")
  <2>1. <<"status", "value">> \in heard' /\ "status" \in proven'
    BY <1>2, <1>8 DEF Reads
  <2> QED
    BY <1>1, <1>2, <1>3, <1>8, <2>1, LearnKeeps DEF SlideshowDialects
<1>9. CASE Continue(t, Returned(x, dialects), dialects)
  <2>1. /\ dialects.slideshow = "auto" => "auto" \in proven'
        /\ dialects.slideshow = "legacy" => "status" \in proven'
    BY <1>2 DEF IInv, DialectsSound, Grows
  <2>2. x.generation <= dialects.generation /\ dialects.generation \in Nat
    BY <1>1, Facts
  <2>3. TaskSound(Returned(x, dialects), epoch, heard', proven')
        /\ Returned(x, dialects).generation <= dialects.generation
    BY <1>1, <2>1, <2>2, ReturnedSound
  <2> QED
    BY <1>2, <1>3, <1>9, <2>3, ContinueKeeps
<1> QED
  BY <1>4, <1>5, <1>6, <1>7, <1>8, <1>9 DEF Value, x

\* After the first probe of the slideshow went unanswered, or was refused.
LEMMA SecondProbe ==
  ASSUME IInv, NEW t \in Tasks, NEW x \in Records, x.generation = task[t].generation,
         x.proof => x.alive, ~x.cached, Grows, UNCHANGED <<deaf, firmware>>,
         lock' \in BOOLEAN,
         x.alive => <<"auto", "refused">> \in heard',
         Continue(t, IF Current(x) THEN Asking(x, "status") ELSE Returned(x, dialects),
                  dialects)
  PROVE  IInv'
<1>1. /\ dialects.slideshow = "auto" => "auto" \in proven'
      /\ dialects.slideshow = "legacy" => "status" \in proven'
  BY DEF IInv, DialectsSound, Grows
<1>2. x.generation <= dialects.generation /\ dialects.generation \in Nat
  BY Facts
<1>3. TaskSound(Returned(x, dialects), epoch, heard', proven')
      /\ Returned(x, dialects).generation <= dialects.generation
  BY <1>1, <1>2, ReturnedSound
<1>4. TaskSound(Asking(x, "status"), epoch, heard', proven')
      /\ Asking(x, "status").generation <= dialects.generation
  BY <1>2, AskingSound DEF Reads
<1> QED
  BY <1>3, <1>4, ContinueKeeps

LEMMA RefusalKeeps ==
  ASSUME IInv, NEW t \in Tasks, Refusal(t)
  PROVE  IInv'
<1> DEFINE x == Refused(task[t])
<1>1. /\ x \in Records /\ x.alive /\ (x.proof => x.alive)
      /\ x.request = task[t].request /\ x.generation = task[t].generation
      /\ (x.request = "auto" => ~x.cached)
  BY Facts, ProvenSound DEF Refused, TaskSound
<1>2. /\ Grows
      /\ x.request \in Reads => <<x.request, "refused">> \in heard'
  BY <1>1, HeardGrows DEF Refusal, Verdicts
<1>3. UNCHANGED <<deaf, firmware>> /\ lock' \in BOOLEAN
  BY DEF Refusal
<1> HIDE DEF x
<1>4. CASE Continue(t, Idle, dialects)
  <2>1. TaskSound(Idle, epoch, heard', proven') /\ Idle.generation <= dialects.generation
    BY IdleSound, Facts
  <2> QED
    BY <1>2, <1>3, <1>4, <2>1, ContinueKeeps
<1>5. CASE x.request \in Reads /\ NextSetting(t, x)
  <2>1. x.request \in {"aggregate", "brightness", "color"} => SettingsAnswered(heard')
    BY <1>2, <1>5 DEF SettingsAnswered, Reads, Verdicts
  <2> QED
    BY <1>1, <1>2, <1>3, <1>5, <2>1, NextSettingKeeps
<1>6. CASE /\ x.request = "auto"
           /\ Continue(t, IF Current(x) THEN Asking(x, "status") ELSE Returned(x, dialects),
                       dialects)
  <2>1. <<"auto", "refused">> \in heard'
    BY <1>2, <1>6 DEF Reads
  <2> QED
    BY <1>1, <1>2, <1>3, <1>6, <2>1, SecondProbe
<1>7. CASE x.request = "status" /\ Learn(t, x, "unsupported")
  <2>1. <<"status", "refused">> \in heard'
    BY <1>2, <1>7 DEF Reads
  <2> QED
    BY <1>1, <1>2, <1>3, <1>7, <2>1, LearnKeeps DEF SlideshowDialects
<1> QED
  BY <1>4, <1>5, <1>6, <1>7 DEF Refusal, x

LEMMA ProbeTimeoutKeeps ==
  ASSUME IInv, NEW t \in Tasks, ProbeTimeout(t)
  PROVE  IInv'
<1> DEFINE x == task[t]
<1>1. x \in Records /\ TaskSound(x, epoch, heard, proven)
  BY Facts
<1>2. /\ UNCHANGED <<deaf, firmware, heard, proven>> /\ lock' \in BOOLEAN /\ Grows
      /\ x.request \in Reads
  BY DEF ProbeTimeout, history, Grows, IInv, TypeOK
<1>3. /\ x.proof => x.alive
      /\ x.request = "auto" => ~x.cached /\ ~x.alive
      /\ x.request = "aggregate" => ~x.alive
      /\ x.alive /\ x.generation = epoch /\ x.request \in {"brightness", "color"} =>
           SettingsAnswered(heard')
      /\ x.alive /\ x.generation = epoch /\ x.request = "status" =>
           <<"auto", "refused">> \in heard'
  BY <1>1, <1>2 DEF TaskSound
<1>4. x.generation = task[t].generation
  OBVIOUS
<1> HIDE DEF x
<1>5. CASE NextSetting(t, x)
  BY <1>1, <1>2, <1>3, <1>4, <1>5, NextSettingKeeps
<1>6. CASE /\ x.request = "auto"
           /\ Continue(t, IF Current(x) THEN Asking(x, "status") ELSE Returned(x, dialects),
                       dialects)
  BY <1>1, <1>2, <1>3, <1>4, <1>6, SecondProbe
<1>7. CASE /\ x.request = "status" /\ (~Current(x) \/ (x.alive /\ ~x.cached))
           /\ Learn(t, x, "unsupported")
  <2>1. Current(x) => <<"auto", "refused">> \in heard'
    BY <1>3, <1>7 DEF Current
  <2> QED
    BY <1>1, <1>2, <1>3, <1>4, <1>7, <2>1, LearnKeeps DEF SlideshowDialects
<1>8. CASE Reporting(t)
  BY <1>2, <1>8, ReportingKeeps
<1> QED
  BY <1>5, <1>6, <1>7, <1>8 DEF ProbeTimeout, x

LEMMA StepKeeps ==
  ASSUME IInv, [Next]_vars
  PROVE  IInv'
<1>1. CASE UNCHANGED vars
  BY <1>1 DEF vars, channel, history, IInv, TypeOK
<1>2. CASE Next
  BY <1>2, EstablishKeeps, ChannelKeeps, BeginKeeps, SendKeeps, ValueKeeps,
     RefusalKeeps, ProbeTimeoutKeeps, WriteClosingKeeps, FailKeeps, ReportedKeeps
     DEF Next, Step, Answered
<1> QED
  BY <1>1, <1>2

LEMMA Inductive == Spec => []IInv
BY Initially, StepKeeps, PTL DEF Spec

-------------------------------------------------------------------------------
\* The dialects, the tasks and the history keep their types.
THEOREM DialectsTypeCorrect == Spec => []TypeOK
<1>1. IInv => TypeOK
  BY DEF IInv
<1> QED
  BY <1>1, Inductive, PTL

\* Whatever dialect is believed of the present generation was heard over it,
\* for any interleaving of passes, reconnections and silences.
THEOREM DialectsLearnedIsHeard == Spec => []LearnedIsHeard
<1>1. IInv => LearnedIsHeard
  BY DEF IInv, DialectsSound, SettingsAnswered, LearnedIsHeard, Said
<1> QED
  BY <1>1, Inductive, PTL

\* No slideshow write goes out in a dialect the television has never answered.
THEOREM DialectsWriteIsProven == Spec => []WriteIsProven
<1>1. IInv => WriteIsProven
  BY DEF IInv, TaskSound, WriteIsProven
<1> QED
  BY <1>1, Inductive, PTL

\* A pass that reports over the connection it asked over was in silence.
LEMMA ReportsInSilence ==
  ASSUME IInv, NEW t \in Tasks, Step(t),
         task[t].pc = "sent", task'[t].pc = "reporting", up, task[t].over = epoch
  PROVE  ~task'[t].proof /\ task[t].generation = epoch
<1>1. /\ task \in [Tasks -> Records] /\ task[t] \in Records
      /\ TaskSound(task[t], epoch, heard, proven)
  BY Facts
<1>2. Answerable(t)
  BY DEF Answerable
<1>3. \A x \in Records : \A r : Asking(x, r).pc # "reporting"
  BY DEF Asking, Idle, Records
<1>4. \A x \in Records : \A d : Returned(x, d).pc # "reporting"
  BY DEF Returned, Chosen, Idle, Records
<1>5. \A y, d : Continue(t, y, d) => y.pc = "reporting"
  BY <1>1 DEF Continue
<1>6. Idle.pc # "reporting"
  BY DEF Idle
<1>7. ASSUME NEW x \in Records, NextSetting(t, x)
      PROVE  Current(x) /\ ~x.alive /\ Reporting(t) /\ x.request = "color"
  BY <1>3, <1>5, <1>6, <1>7 DEF NextSetting
<1>8. \A x \in Records : \A v : ~Learn(t, x, v)
  BY <1>4, <1>5 DEF Learn
<1>9. Proven(task[t]) \in Records /\ Proven(task[t]).alive
  BY <1>1, ProvenSound
<1>10. ~Value(t)
  BY <1>4, <1>5, <1>6, <1>7, <1>8, <1>9 DEF Value
<1>11. ~Refusal(t)
  BY <1>3, <1>4, <1>5, <1>6, <1>7, <1>8, <1>9 DEF Refusal, Refused
<1>12. ProbeTimeout(t)
  <2>1. ~Send(t) /\ ~WriteClosed(t) /\ ~Reported(t)
    BY DEF Send, WriteClosed, Reported
  <2>2. ~WriteTimeout(t)
    <3>1. [task[t] EXCEPT !.pc = "closing"].pc = "closing"
      BY <1>1 DEF Records
    <3>2. WriteTimeout(t) => task'[t] = [task[t] EXCEPT !.pc = "closing"]
      BY <1>1 DEF WriteTimeout
    <3> QED
      BY <3>1, <3>2
  <2>3. ~Fail(t)
    BY <1>2 DEF Fail
  <2> QED
    BY <1>10, <1>11, <2>1, <2>2, <2>3 DEF Step, Answered
<1>13. Reporting(t) /\ Current(task[t]) /\ ~task[t].proof
  BY <1>1, <1>3, <1>4, <1>5, <1>7, <1>8, <1>12 DEF ProbeTimeout, TaskSound
<1>14. task'[t].proof = task[t].proof
  BY <1>1, <1>13 DEF Reporting, Records
<1> QED
  BY <1>13, <1>14 DEF Current

\* A pass of probes never retires a session that answered it, nor a newer
\* generation than the one it began with.
THEOREM DialectsOnlySilenceRetires == Spec => OnlySilenceRetires
<1>1. IInv /\ [Next]_vars =>
       [\A t \in Tasks :
          /\ task[t].pc = "sent" /\ task'[t].pc = "reporting"
          /\ up /\ task[t].over = epoch
          => ~task'[t].proof /\ task[t].generation = epoch]_vars
  <2> SUFFICES ASSUME IInv, Next, NEW t \in Tasks, task[t].pc = "sent",
                      task'[t].pc = "reporting", up, task[t].over = epoch
      PROVE  ~task'[t].proof /\ task[t].generation = epoch
    OBVIOUS
  <2>1. Step(t)
    <3>1. task' # task
      OBVIOUS
    <3>2. PICK s \in Tasks : Begin(s) \/ Step(s)
      BY <3>1 DEF Next, Establish, Lose, GoDeaf, Stop
    <3>3. \A x : task' = [task EXCEPT ![s] = x] => s = t
      BY DEF IInv, TypeOK
    <3>4. s = t
      BY <3>2, <3>3
         DEF Begin, BeginSettings, BeginSlideshow, BeginWrite, Step, Send, Answered,
             Value, Refusal, ProbeTimeout, WriteTimeout, Fail, WriteClosed, Reported,
             Continue, Reporting, NextSetting, Learn
    <3>5. ~Begin(t)
      BY DEF Begin, BeginSettings, BeginSlideshow, BeginWrite
    <3> QED
      BY <3>2, <3>4, <3>5
  <2> QED
    BY <2>1, ReportsInSilence
<1> QED
  BY <1>1, Inductive, PTL DEF Spec, OnlySilenceRetires
-------------------------------------------------------------------------------
(* The channel *)

\* However passes end, by a report that retires the session or by a write that
\* closes the websocket, the channel of this module stays what ArtChannel says:
\* no task brings it up again or gives its number to another connection.
THEOREM DialectsOverChannel == Spec => Channel!Spec
<1> USE DEF channel, history
<1>1. Init => Channel!Init
  BY DEF Init, Channel!Init
<1>2. TypeOK /\ [Next]_vars => [Channel!Next]_Channel!vars
  <2> SUFFICES ASSUME TypeOK, [Next]_vars PROVE [Channel!Next]_Channel!vars
    OBVIOUS
  <2> DEFINE Lost == up' \in {up, FALSE} /\ UNCHANGED <<epoch, stopped>>
  <2>1. ASSUME Lost PROVE [Channel!Next]_Channel!vars
    <3>1. CASE up' = up
      BY <2>1, <3>1 DEF Channel!vars
    <3>2. CASE up /\ up' = FALSE
      BY <2>1, <3>2 DEF Channel!Next, Channel!Lose
    <3> QED
      BY <2>1, <3>1, <3>2 DEF TypeOK
  <2> HIDE DEF Lost
  <2>2. ASSUME UNCHANGED channel PROVE Lost
    BY <2>2 DEF Lost
  <2>3. ASSUME Dropped PROVE Lost
    BY <2>3 DEF Dropped, Lost
  <2>4. ASSUME NEW t \in Tasks, NEW x, NextSetting(t, x) PROVE Lost
    BY <2>2, <2>3, <2>4 DEF NextSetting, Continue, Reporting
  <2>5. ASSUME NEW t \in Tasks, NEW x, NEW v, Learn(t, x, v) PROVE Lost
    BY <2>2, <2>5 DEF Learn, Continue
  <2>6. ASSUME NEW t \in Tasks, Begin(t) PROVE Lost
    BY <2>2, <2>6 DEF Begin, BeginSettings, BeginSlideshow, BeginWrite
  <2>7. ASSUME NEW t \in Tasks, Send(t) \/ WriteTimeout(t) \/ Reported(t)
        PROVE  Lost
    BY <2>2, <2>7 DEF Send, WriteTimeout, Reported
  <2>8. ASSUME NEW t \in Tasks, Value(t) PROVE Lost
    BY <2>2, <2>4, <2>5, <2>8 DEF Value, Continue
  <2>9. ASSUME NEW t \in Tasks, Refusal(t) PROVE Lost
    BY <2>2, <2>4, <2>5, <2>9 DEF Refusal, Continue
  <2>10. ASSUME NEW t \in Tasks, ProbeTimeout(t) PROVE Lost
    BY <2>2, <2>3, <2>4, <2>5, <2>10 DEF ProbeTimeout, Continue, Reporting
  <2>11. ASSUME NEW t \in Tasks, Fail(t) \/ WriteClosed(t) PROVE Lost
    BY <2>3, <2>11 DEF Fail, Reporting, WriteClosed, Lost
  <2>12. ASSUME Establish \/ Lose \/ Stop PROVE Channel!Next
    BY <2>12 DEF Establish, Lose, Stop, Channel!Next
  <2>13. ASSUME GoDeaf \/ UNCHANGED vars PROVE Lost
    BY <2>2, <2>13 DEF GoDeaf, vars
  <2> QED
    BY <2>1, <2>6, <2>7, <2>8, <2>9, <2>10, <2>11, <2>12, <2>13
    DEF Next, Step, Answered
<1> QED
  BY <1>1, <1>2, DialectsTypeCorrect, PTL DEF Spec, Channel!Spec

-------------------------------------------------------------------------------
(* The operation lock, and the work that is left to a call *)

\* FrameArt.request is under way for the task, with the lock in hand.
Asks(x) == x.pc \in {"sent", "closing"}

\* One request is under way at a time, and the lock is given up with it,
\* whichever of its ends it comes to.
OneRequest ==
  /\ lock <=> \E t \in Tasks : Asks(task[t])
  /\ \A t, s \in Tasks : Asks(task[t]) /\ Asks(task[s]) => t = s

\* Each kind of call asks its own reads, and only writes set anything.
Placed(x) ==
  x.pc # "idle" =>
    /\ x.kind = "settings" <=> x.request \in {"aggregate", "brightness", "color"}
    /\ x.request \in Setters => x.kind = "write"
    /\ x.pc = "closing" => x.request \in Setters

\* How far a call may still go: the reads that come after this one, and the
\* stages of this one.
Chain(r) ==
  IF r \in {"aggregate", "auto"} THEN 2
  ELSE IF r \in {"brightness", "status"} THEN 1 ELSE 0
Stage(pc) ==
  IF pc = "queued" THEN 4 ELSE IF pc = "sent" THEN 3
  ELSE IF pc = "closing" THEN 2 ELSE IF pc = "reporting" THEN 1 ELSE 0
Left(x) == IF x.pc = "idle" THEN 0 ELSE 5 * Chain(x.request) + Stage(x.pc)

\* A call that was x goes on as y, and has given up the operation lock.
Onward(x, y) == ~Asks(y) /\ Placed(y) /\ Left(y) < Left(x)

LEMMA LeftBounds ==
  \A x : /\ Chain(x.request) \in 0..2 /\ Stage(x.pc) \in 0..4
         /\ Left(x) \in 0..14 /\ (x.pc \in {"queued", "sent", "closing", "reporting"} =>
                                    Left(x) > 0)
BY DEF Left, Chain, Stage

LEMMA IdleOnward ==
  ASSUME NEW x, x.pc \in {"queued", "sent", "closing", "reporting"}
  PROVE  Onward(x, Idle)
<1>1. Idle.pc = "idle"
  BY DEF Idle
<1>2. Left(Idle) = 0 /\ Left(x) \in 0..14 /\ Left(x) > 0
  BY <1>1, LeftBounds DEF Left
<1> QED
  BY <1>1, <1>2 DEF Onward, Asks, Placed

\* The next read of the same pass.
LEMMA AskingOnward ==
  ASSUME NEW x \in Records, x.pc = "sent", Placed(x), NEW r \in Reads,
         Chain(r) < Chain(x.request),
         x.request \in {"aggregate", "brightness", "color"}
           <=> r \in {"aggregate", "brightness", "color"}
  PROVE  Onward(x, Asking(x, r))
<1> DEFINE y == [x EXCEPT !.pc = "queued", !.request = r]
<1>1. y.pc = "queued" /\ y.request = r /\ y.kind = x.kind
  BY DEF Records
<1> HIDE DEF y
<1>2. r \notin Setters
  BY DEF Reads, Setters
<1>3. Left(y) = 5 * Chain(r) + 4 /\ Left(x) = 5 * Chain(x.request) + 3
  BY <1>1 DEF Left, Stage
<1>4. Chain(r) \in 0..2 /\ Chain(x.request) \in 0..2
  BY DEF Chain
<1>5. Left(y) < Left(x)
  BY <1>3, <1>4
<1>6. Onward(x, y)
  BY <1>1, <1>2, <1>5 DEF Onward, Asks, Placed
<1> QED
  BY <1>6, IdleOnward DEF Asking, y

\* The end of a read, after which a service writes.
LEMMA ReturnedOnward ==
  ASSUME NEW x \in Records, x.pc \in {"sent", "reporting"}, Placed(x),
         x.request \in Reads, NEW d
  PROVE  Onward(x, Returned(x, d))
<1>1. CASE Returned(x, d) = Idle
  BY <1>1, IdleOnward
<1>2. CASE Returned(x, d) # Idle
  <2> DEFINE s == Setter(d.slideshow)
             y == [x EXCEPT !.pc = "queued", !.request = s]
  <2>1. x.kind = "write" /\ Returned(x, d) = y /\ s \in Setters
    BY <1>2 DEF Returned, Chosen, Setter, Setters
  <2> HIDE DEF s
  <2>2. y.pc = "queued" /\ y.request = s /\ y.kind = "write"
    BY <2>1 DEF Records
  <2> HIDE DEF y
  <2>3. Chain(x.request) \in {1, 2} /\ Chain(s) = 0
    BY <2>1 DEF Placed, Reads, Setters, Chain
  <2>4. Left(y) = 4 /\ Left(x) = 5 * Chain(x.request) + Stage(x.pc)
    BY <2>2, <2>3 DEF Left, Stage
  <2>5. Left(y) < Left(x)
    BY <2>3, <2>4, LeftBounds
  <2>6. s \notin {"aggregate", "brightness", "color"}
    BY <2>1 DEF Setters
  <2> QED
    BY <2>1, <2>2, <2>5, <2>6 DEF Onward, Asks, Placed
<1> QED
  BY <1>1, <1>2

\* A request that failed, before the session is told.
LEMMA ReportingOnward ==
  ASSUME NEW x \in Records, x.pc \in {"queued", "sent", "closing"}, Placed(x)
  PROVE  Onward(x, [x EXCEPT !.pc = "reporting"])
<1> DEFINE y == [x EXCEPT !.pc = "reporting"]
<1>1. y.pc = "reporting" /\ y.request = x.request /\ y.kind = x.kind
  BY DEF Records
<1> HIDE DEF y
<1>2. /\ Left(y) = 5 * Chain(x.request) + 1
      /\ Left(x) = 5 * Chain(x.request) + Stage(x.pc) /\ Stage(x.pc) \in 2..4
      /\ Chain(x.request) \in 0..2
  BY <1>1, LeftBounds DEF Left, Stage
<1>3. Onward(x, y)
  BY <1>1, <1>2 DEF Onward, Asks, Placed
<1> QED
  BY <1>3 DEF y

\* What an answer proves of the channel does not matter here.
LEMMA ProvenLeft ==
  ASSUME NEW x \in Records
  PROVE  LET y == Proven(x)
         IN /\ y \in Records /\ y.pc = x.pc /\ y.request = x.request
            /\ y.kind = x.kind /\ (Placed(x) => Placed(y)) /\ Left(y) = Left(x)
<1> DEFINE b == x.proof \/ x.generation = epoch
           y == [x EXCEPT !.alive = TRUE, !.proof = b]
<1>1. b \in BOOLEAN
  OBVIOUS
<1>2. Proven(x) = y
  BY DEF Proven, Records
<1> HIDE DEF b
<1>3. y \in Records /\ y.pc = x.pc /\ y.request = x.request /\ y.kind = x.kind
  BY <1>1 DEF Records
<1> HIDE DEF y
<1>4. Left(y) = Left(x) /\ (Placed(x) => Placed(y))
  BY <1>3 DEF Left, Placed
<1> QED
  BY <1>2, <1>3, <1>4

WorkInv == OneRequest /\ \A t \in Tasks : Placed(task[t])

\* A step leaves a call under way as it is, or takes it further.
Progress ==
  \A t \in Tasks : task[t].pc # "idle" =>
    task'[t] = task[t] \/ Left(task'[t]) < Left(task[t])

\* A task gives up the lock, which it has, and goes on.
LEMMA Releases ==
  ASSUME IInv, WorkInv, NEW t \in Tasks, Asks(task[t]), NEW y,
         task' = [task EXCEPT ![t] = y], Onward(task[t], y), lock' = FALSE
  PROVE  WorkInv' /\ Progress
<1>1. \A s \in Tasks : task'[s] = IF s = t THEN y ELSE task[s]
  BY Facts
<1>2. OneRequest'
  BY <1>1 DEF WorkInv, OneRequest, Onward
<1>3. Progress /\ \A s \in Tasks : Placed(task'[s])
  BY <1>1 DEF WorkInv, Progress, Onward
<1> QED
  BY <1>2, <1>3 DEF WorkInv, Placed

\* A task that does not have the lock goes on without it.
LEMMA GoesOnUnlocked ==
  ASSUME IInv, WorkInv, NEW t \in Tasks, ~Asks(task[t]), NEW y, ~Asks(y),
         task' = [task EXCEPT ![t] = y], Placed(y), UNCHANGED lock,
         task[t].pc = "idle" \/ Left(y) < Left(task[t])
  PROVE  WorkInv' /\ Progress
<1>1. \A s \in Tasks : task'[s] = IF s = t THEN y ELSE task[s]
  BY Facts
<1>2. OneRequest'
  BY <1>1 DEF WorkInv, OneRequest
<1>3. Progress /\ \A s \in Tasks : Placed(task'[s])
  BY <1>1 DEF WorkInv, Progress
<1> QED
  BY <1>2, <1>3 DEF WorkInv, Placed

LEMMA BeginWork ==
  ASSUME IInv, WorkInv, NEW t \in Tasks, Begin(t)
  PROVE  WorkInv' /\ Progress
<1>1. task[t].pc = "idle" /\ UNCHANGED lock
  BY DEF Begin, BeginSettings, BeginSlideshow, BeginWrite
<1>2. Idle.pc = "idle"
  BY DEF Idle
<1> DEFINE Request(k, r) ==
             /\ k = "settings" <=> r \in {"aggregate", "brightness", "color"}
             /\ r \in Setters => k = "write"
<1>3. ASSUME NEW x \in Records, NEW k, x.kind = k, NEW r, Request(k, r)
      PROVE  LET y == [x EXCEPT !.pc = "queued", !.request = r]
             IN ~Asks(y) /\ Placed(y)
  <2> DEFINE y == [x EXCEPT !.pc = "queued", !.request = r]
  <2>1. y.pc = "queued" /\ y.request = r /\ y.kind = k
    BY <1>3 DEF Records
  <2> HIDE DEF y
  <2>2. ~Asks(y) /\ Placed(y)
    BY <1>3, <2>1 DEF Asks, Placed
  <2> QED
    BY <2>2 DEF y
<1>4. ASSUME NEW k \in AllKinds, NEW b \in BOOLEAN
      PROVE  Begun(k, b) \in Records /\ Begun(k, b).kind = k
  <2>1. Idle \in Records
    BY IdleSound DEF TaskSound
  <2>2. Begun(k, b).kind = k
    BY <2>1 DEF Begun, Records
  <2> QED
    BY <2>2, BegunType
<1>5. \E y : /\ task' = [task EXCEPT ![t] = y] /\ ~Asks(y) /\ Placed(y)
  <2>1. ~Asks(Idle) /\ Placed(Idle)
    BY <1>2 DEF Asks, Placed
  <2>2. CASE BeginSettings(t)
    <3> DEFINE legacy == dialects'.settings = "legacy"
               x == Begun("settings", legacy)
               r == IF legacy THEN "brightness" ELSE "aggregate"
    <3>1. task' = [task EXCEPT ![t] = Asking(x, r)]
      BY <2>2 DEF BeginSettings
    <3>2. x \in Records /\ x.kind = "settings" /\ Request("settings", r)
      BY <1>4 DEF AllKinds, Setters
    <3> HIDE DEF x, r
    <3>3. Asking(x, r) = Idle \/ Asking(x, r) = [x EXCEPT !.pc = "queued", !.request = r]
      BY DEF Asking
    <3> QED
      BY <1>3, <2>1, <3>1, <3>2, <3>3
  <2>3. CASE BeginSlideshow(t)
    <3> DEFINE d == dialects'.slideshow
               x == Begun("slideshow", d = "legacy")
               r == IF d = "legacy" THEN "status" ELSE "auto"
    <3>1. task' = [task EXCEPT ![t] = IF d = "unsupported" THEN Idle ELSE Asking(x, r)]
      BY <2>3 DEF BeginSlideshow
    <3>2. x \in Records /\ x.kind = "slideshow" /\ Request("slideshow", r)
      BY <1>4 DEF AllKinds, Setters
    <3> HIDE DEF x, r
    <3>3. Asking(x, r) = Idle \/ Asking(x, r) = [x EXCEPT !.pc = "queued", !.request = r]
      BY DEF Asking
    <3> QED
      BY <1>3, <2>1, <3>1, <3>2, <3>3
  <2>4. CASE BeginWrite(t)
    <3> DEFINE x == Begun("write", FALSE)
               s == Setter(dialects'.slideshow)
    <3>1. \/ task' = [task EXCEPT ![t] = Asking(x, "auto")]
          \/ task' = [task EXCEPT ![t] = Chosen(x, dialects')]
      BY <2>4 DEF BeginWrite
    <3>2. x \in Records /\ x.kind = "write"
      BY <1>4 DEF AllKinds
    <3>3. Request("write", "auto") /\ Request("write", s)
      BY DEF Setters, Setter
    <3> HIDE DEF x, s
    <3>4. Asking(x, "auto") = Idle
            \/ Asking(x, "auto") = [x EXCEPT !.pc = "queued", !.request = "auto"]
      BY DEF Asking
    <3>5. Chosen(x, dialects') = Idle
            \/ Chosen(x, dialects') = [x EXCEPT !.pc = "queued", !.request = s]
      BY DEF Chosen, s
    <3> QED
      BY <1>3, <2>1, <3>1, <3>2, <3>3, <3>4, <3>5
  <2> QED
    BY <2>2, <2>3, <2>4 DEF Begin
<1> QED
  BY <1>1, <1>5, GoesOnUnlocked DEF Asks

LEMMA SendWork ==
  ASSUME IInv, WorkInv, NEW t \in Tasks, Send(t)
  PROVE  WorkInv' /\ Progress
<1> DEFINE y == [task[t] EXCEPT !.pc = "sent", !.over = epoch]
<1>1. /\ y.pc = "sent" /\ y.request = task[t].request /\ y.kind = task[t].kind
      /\ task' = [task EXCEPT ![t] = y] /\ lock' = TRUE
      /\ task[t].pc = "queued" /\ ~lock
  BY Facts DEF Send, Records
<1> HIDE DEF y
<1>2. \A s \in Tasks : task'[s] = IF s = t THEN y ELSE task[s]
  BY <1>1, Facts
<1>3. Placed(y) /\ Left(y) < Left(task[t])
  <2>1. Placed(y)
    BY <1>1 DEF WorkInv, Placed
  <2>2. Left(y) = 5 * Chain(task[t].request) + 3
        /\ Left(task[t]) = 5 * Chain(task[t].request) + 4
    BY <1>1 DEF Left, Stage
  <2>3. Chain(task[t].request) \in 0..2
    BY LeftBounds
  <2> QED
    BY <2>1, <2>2, <2>3
<1>4. OneRequest'
  BY <1>1, <1>2 DEF WorkInv, OneRequest, Asks
<1>5. Progress /\ \A s \in Tasks : Placed(task'[s])
  BY <1>2, <1>3 DEF WorkInv, Progress
<1> QED
  BY <1>4, <1>5 DEF WorkInv, Placed

\* A request that is over leaves its task to go on, whatever it came to.
LEMMA NextSettingOnward ==
  ASSUME IInv, WorkInv, NEW t \in Tasks, task[t].pc = "sent", NEW x \in Records,
         x.pc = "sent", x.request = task[t].request, Placed(x),
         Left(x) = Left(task[t]), NextSetting(t, x)
  PROVE  \E y : task' = [task EXCEPT ![t] = y] /\ Onward(task[t], y)
<1>1. /\ "brightness" \in Reads /\ "color" \in Reads
      /\ Chain("brightness") = 1 /\ Chain("color") = 0 /\ Chain("aggregate") = 2
  BY DEF Reads, Chain
<1>2. Onward(x, Idle)
  BY IdleOnward
<1>3. x.request = "aggregate" => Onward(x, Asking(x, "brightness"))
  BY <1>1, AskingOnward
<1>4. x.request = "brightness" => Onward(x, Asking(x, "color"))
  BY <1>1, AskingOnward
<1>5. \A y : Onward(x, y) => Onward(task[t], y)
  BY DEF Onward
<1>6. Onward(task[t], [task[t] EXCEPT !.pc = "reporting"])
  BY Facts, ReportingOnward DEF WorkInv
<1>7. \/ task' = [task EXCEPT ![t] = Idle]
      \/ x.request = "aggregate" /\ task' = [task EXCEPT ![t] = Asking(x, "brightness")]
      \/ x.request = "brightness" /\ task' = [task EXCEPT ![t] = Asking(x, "color")]
      \/ task' = [task EXCEPT ![t] = [task[t] EXCEPT !.pc = "reporting"]]
  BY Facts DEF NextSetting, Continue, Reporting
<1> QED
  BY <1>2, <1>3, <1>4, <1>5, <1>6, <1>7

\* So does the probe of the modern slideshow.
LEMMA AutoOnward ==
  ASSUME NEW x \in Records, x.pc = "sent", x.request = "auto", Placed(x), NEW d
  PROVE  Onward(x, Asking(x, "status")) /\ Onward(x, Returned(x, d))
<1>1. /\ "status" \in Reads /\ "auto" \in Reads
      /\ Chain("status") = 1 /\ Chain("auto") = 2
  BY DEF Reads, Chain
<1> QED
  BY <1>1, AskingOnward, ReturnedOnward

LEMMA AnsweredWork ==
  ASSUME IInv, WorkInv, NEW t \in Tasks,
         Value(t) \/ Refusal(t) \/ ProbeTimeout(t)
  PROVE  WorkInv' /\ Progress
<1> DEFINE z == task[t]
           Goes(y) == task' = [task EXCEPT ![t] = y]
<1>1. /\ z \in Records /\ z.pc = "sent" /\ Asks(z) /\ lock' = FALSE
      /\ Placed(z)
  BY Facts DEF Value, Refusal, ProbeTimeout, Answerable, Asks, WorkInv
<1>2. PICK x : /\ x \in Records /\ x.pc = "sent" /\ x.request = z.request
               /\ Placed(x) /\ Left(x) = Left(z)
               /\ \/ x = z /\ ProbeTimeout(t)
                  \/ x = Proven(z) /\ (Value(t) \/ Refusal(t))
  BY <1>1, ProvenLeft
<1>3. \A y : Onward(x, y) => Onward(z, y)
  BY <1>2 DEF Onward
<1>4. Onward(x, Idle) /\ Onward(x, [z EXCEPT !.pc = "reporting"])
  <2>1. Onward(z, [z EXCEPT !.pc = "reporting"])
    BY <1>1, ReportingOnward
  <2> QED
    BY <1>2, <2>1, IdleOnward DEF Onward
<1>5. x.request = "auto" => \A d : Onward(x, Asking(x, "status")) /\ Onward(x, Returned(x, d))
  BY <1>2, AutoOnward
<1>6. x.request = "status" => \A d : Onward(x, Returned(x, d))
  <2>1. "status" \in Reads
    BY DEF Reads
  <2> QED
    BY <1>2, <2>1, ReturnedOnward
<1>7. NextSetting(t, x) => \E y : Goes(y) /\ Onward(z, y)
  BY <1>1, <1>2, NextSettingOnward
<1>8. \/ NextSetting(t, x) \/ Goes(Idle) \/ Goes([z EXCEPT !.pc = "reporting"])
      \/ x.request = "auto" /\ (Goes(Asking(x, "status")) \/ \E d : Goes(Returned(x, d)))
      \/ x.request = "status" /\ \E d : Goes(Returned(x, d))
  <2>1. CASE x = z /\ ProbeTimeout(t)
    BY <2>1 DEF ProbeTimeout, Learn, Continue, Reporting
  <2>2. CASE x = Proven(z) /\ Value(t)
    BY <2>2 DEF Value, Learn, Continue
  <2>3. CASE x = Proven(z) /\ Refusal(t)
    BY <2>3 DEF Refusal, Refused, Learn, Continue
  <2> QED
    BY <1>2, <2>1, <2>2, <2>3
<1>9. \E y : Goes(y) /\ Onward(z, y)
  BY <1>3, <1>4, <1>5, <1>6, <1>7, <1>8
<1> QED
  BY <1>1, <1>9, Releases

LEMMA FailedWork ==
  ASSUME IInv, WorkInv, NEW t \in Tasks,
         WriteTimeout(t) \/ WriteClosed(t) \/ Fail(t) \/ Reported(t)
  PROVE  WorkInv' /\ Progress
<1>1. task[t] \in Records /\ Placed(task[t])
  BY Facts DEF WorkInv
<1>2. CASE WriteTimeout(t)
  <2> DEFINE y == [task[t] EXCEPT !.pc = "closing"]
  <2>1. /\ y.pc = "closing" /\ y.request = task[t].request /\ y.kind = task[t].kind
        /\ task' = [task EXCEPT ![t] = y] /\ UNCHANGED lock
        /\ task[t].pc = "sent" /\ task[t].request \in Setters
    BY <1>1, <1>2 DEF WriteTimeout, Answerable, Records
  <2> HIDE DEF y
  <2>2. \A s \in Tasks : task'[s] = IF s = t THEN y ELSE task[s]
    BY <2>1, Facts
  <2>3. Placed(y)
    BY <1>1, <2>1 DEF Placed
  <2>4. Left(y) < Left(task[t])
    <3>1. Left(y) = 5 * Chain(task[t].request) + 2
          /\ Left(task[t]) = 5 * Chain(task[t].request) + 3
      BY <2>1 DEF Left, Stage
    <3> QED
      BY <3>1, LeftBounds
  <2>5. OneRequest'
    BY <2>1, <2>2 DEF WorkInv, OneRequest, Asks
  <2>6. Progress /\ \A s \in Tasks : Placed(task'[s])
    BY <2>2, <2>3, <2>4 DEF WorkInv, Progress
  <2> QED
    BY <2>5, <2>6 DEF WorkInv, Placed
<1>3. CASE WriteClosed(t)
  BY <1>1, <1>3, ReportingOnward, Releases DEF WriteClosed, Asks
<1>4. CASE Fail(t)
  <2>1. /\ task' = [task EXCEPT ![t] = [task[t] EXCEPT !.pc = "reporting"]]
        /\ \/ task[t].pc = "queued" /\ UNCHANGED lock
           \/ task[t].pc = "sent" /\ lock' = FALSE
    BY <1>1, <1>4, Facts DEF Fail, Reporting
  <2>2. Onward(task[t], [task[t] EXCEPT !.pc = "reporting"])
    BY <1>1, <2>1, ReportingOnward
  <2>3. CASE task[t].pc = "queued" /\ UNCHANGED lock
    BY <2>1, <2>2, <2>3, GoesOnUnlocked DEF Onward, Asks
  <2>4. CASE task[t].pc = "sent" /\ lock' = FALSE
    BY <2>1, <2>2, <2>4, Releases DEF Asks
  <2> QED
    BY <2>1, <2>3, <2>4
<1>5. CASE Reported(t)
  <2> DEFINE y == IF task[t].request \in Setters THEN Idle ELSE Returned(task[t], dialects)
  <2>1. task[t].pc = "reporting" /\ task' = [task EXCEPT ![t] = y] /\ UNCHANGED lock
    BY <1>5 DEF Reported
  <2>2. task[t].request \in Reads \/ task[t].request \in Setters
    BY <1>1 DEF Records
  <2>3. Onward(task[t], y)
    BY <1>1, <2>1, <2>2, IdleOnward, ReturnedOnward
  <2> HIDE DEF y
  <2> QED
    BY <2>1, <2>3, GoesOnUnlocked DEF Onward, Asks
<1> QED
  BY <1>2, <1>3, <1>4, <1>5

LEMMA WorkStep ==
  ASSUME IInv, WorkInv, [Next]_vars
  PROVE  WorkInv' /\ Progress
<1>1. CASE UNCHANGED <<task, lock>>
  BY <1>1 DEF WorkInv, OneRequest, Progress, Asks, Placed
<1>2. ASSUME NEW t \in Tasks, Begin(t) \/ Step(t) PROVE WorkInv' /\ Progress
  BY <1>2, BeginWork, SendWork, AnsweredWork, FailedWork DEF Step, Answered
<1> QED
  BY <1>1, <1>2 DEF Next, Establish, Lose, GoDeaf, Stop, vars

LEMMA WorkHolds == Spec => [](IInv /\ WorkInv)
<1>1. Init => WorkInv
  <2> SUFFICES ASSUME Init PROVE WorkInv
    OBVIOUS
  <2>1. ~lock /\ \A t \in Tasks : task[t] = Idle
    BY DEF Init
  <2>2. Idle.pc = "idle"
    BY DEF Idle
  <2> QED
    BY <2>1, <2>2 DEF WorkInv, OneRequest, Asks, Placed
<1> QED
  BY <1>1, Initially, StepKeeps, WorkStep, PTL DEF Spec

\* One optional request at a time is under way, and the lock is given up with
\* it: by a value, a refusal, silence, a loss or the close after a write.
THEOREM DialectsOneRequest == Spec => []OneRequest
<1>1. WorkInv => OneRequest
  BY DEF WorkInv
<1> QED
  BY <1>1, WorkHolds, PTL

\* The safety half of CallsEnd: a call asks each read once at most and writes
\* once, in no more than fourteen steps, whatever the television answers and
\* however often the channel is lost and found meanwhile.
THEOREM DialectsCallsAreBounded == Spec => [][Progress]_vars
BY WorkHolds, WorkStep, PTL DEF Spec
===============================================================================
