-------------------------------- MODULE Dialects --------------------------------
(***************************************************************************)
(* The optional Art state of FrameDevice (device.py): which of two ways to *)
(* ask for the settings, and for the slideshow, this television answers.   *)
(* Polls (async_get_art_settings, async_get_slideshow_state) and the       *)
(* service async_set_slideshow find out with probes, requests whose        *)
(* silence does not close the websocket, and keep the dialect for as long  *)
(* as the generation of the Art channel lasts.                             *)
(*                                                                         *)
(* The Art channel is the abstract one, ArtChannel, which ArtSession       *)
(* implements; a request is one holder of FrameArt._operation_lock, which  *)
(* ArtRequests models (here whoever waits may be next).  An action is one  *)
(* stretch of a task between two awaits.                                   *)
(*                                                                         *)
(* The television: firmware[r] is what may become of the read r, a value,  *)
(* a correlated refusal, or the silence that meets what it does not know.  *)
(* A websocket may go deaf: it is up, and nothing comes back.              *)
(*                                                                         *)
(* Left out: what is read and written; a mutation that waits for the       *)
(* session to connect (ArtSession); the cancellation of a task, which      *)
(* writes no dialect.                                                      *)
(***************************************************************************)
EXTENDS Naturals

CONSTANTS
  Tasks,      \* polls and services that may be under way at the same time
  Firmwares,  \* the televisions considered: functions as firmware below
  Kinds,      \* bound: what each task does, of AllKinds
  MaxEpoch    \* bound: generations of the Art channel

Reads    == {"aggregate", "brightness", "color", "auto", "status"}
Setters  == {"set_auto", "set_status"}
Verdicts == {"value", "refused"}
Outcomes == Verdicts \cup {"silence"}
AllKinds == {"settings", "slideshow", "write"}

ASSUME FirmwareAssumption == Firmwares \subseteq [Reads -> (SUBSET Outcomes) \ {{}}]
ASSUME BoundAssumption ==
  /\ Kinds \in [Tasks -> SUBSET AllKinds] /\ MaxEpoch \in Nat

VARIABLES
  up,        \* device.art_ready
  epoch,     \* device.art_generation
  stopped,   \* device._stopped
  deaf,      \* the websocket is up and the television no longer hears it
  firmware,  \* what the television may say; it never changes
  lock,      \* whether FrameArt._operation_lock is held
  dialects,  \* the two dialects and _optional_dialect_generation
  task,      \* each poll or service: where it is and its locals
  heard,     \* history: what was said over this generation, to which read
  proven     \* history: the reads this television answered with a value

channel == <<up, epoch, stopped>>
history == <<heard, proven>>
vars == <<channel, deaf, firmware, lock, dialects, task, history>>

SettingsDialects  == {"unknown", "aggregate", "legacy"}
SlideshowDialects == {"unknown", "auto", "legacy", "unsupported"}
Unlearned(g) == [generation |-> g, settings |-> "unknown", slideshow |-> "unknown"]

\* alive is liveness_proven; cached, that the dialect was known at the start;
\* over, the generation the request was sent over; proof is history: the
\* television answered this pass over the generation it began with.
Idle == [pc |-> "idle", kind |-> "settings", request |-> "aggregate",
         generation |-> 0, over |-> 0, alive |-> FALSE, cached |-> FALSE,
         proof |-> FALSE]

Init ==
  /\ up = FALSE /\ epoch = 0 /\ stopped = FALSE /\ deaf = FALSE
  /\ firmware \in Firmwares
  /\ lock = FALSE
  /\ dialects = Unlearned(0)
  /\ task = [t \in Tasks |-> Idle]
  /\ heard = {} /\ proven = {}

-------------------------------------------------------------------------------
(* The Art channel *)

Channel == INSTANCE ArtChannel WITH retired <- stopped

Establish ==
  /\ epoch < MaxEpoch /\ Channel!Establish
  /\ deaf' = FALSE /\ heard' = {}
  /\ UNCHANGED <<firmware, lock, dialects, task, proven>>

Lose ==
  /\ Channel!Lose
  /\ UNCHANGED <<deaf, firmware, lock, dialects, task, history>>

GoDeaf ==
  /\ up /\ ~deaf
  /\ deaf' = TRUE
  /\ UNCHANGED <<channel, firmware, lock, dialects, task, history>>

Stop ==
  /\ Channel!Retire
  /\ UNCHANGED <<deaf, firmware, lock, dialects, task, history>>

-------------------------------------------------------------------------------
(* A task that asks *)

\* Mutant: what was learned over a generation is kept for the next ones.
Reset_Never == [dialects EXCEPT !.generation = epoch]
\* Mutant: a new generation begins with nothing supported.
Reset_Unset == [generation |-> epoch, settings |-> "unsupported", slideshow |-> "unsupported"]
\* _reset_optional_dialects_for_generation
Reset == IF dialects.generation = epoch THEN dialects ELSE Unlearned(epoch)

\* Mutant: an answer is taken for one of this generation, whichever it is.
Current_Any(x) == up /\ ~stopped
\* _optional_generation_is_current
Current(x) == up /\ ~stopped /\ epoch = x.generation

\* _async_art_read_response begins: on a session that is ready, or not at all.
Asking(x, r) ==
  IF up /\ ~stopped THEN [x EXCEPT !.pc = "queued", !.request = r] ELSE Idle

Setter(d) == IF d = "auto" THEN "set_auto" ELSE "set_status"

\* Mutant: a dialect nobody learned is taken for the modern one.
Chosen_Guess(x, d) ==
  IF d.slideshow = "unsupported" THEN Idle
  ELSE [x EXCEPT !.pc = "queued",
                 !.request = IF d.slideshow = "legacy" THEN "set_status" ELSE "set_auto"]
\* async_set_slideshow once the dialect is known; without one it raises.
Chosen(x, d) ==
  IF d.slideshow \in {"auto", "legacy"}
  THEN [x EXCEPT !.pc = "queued", !.request = Setter(d.slideshow)]
  ELSE Idle

\* async_get_slideshow_state returns, to a poll or to async_set_slideshow.
Returned(x, d) == IF x.kind = "write" THEN Chosen(x, d) ELSE Idle

Begun(kind, cached) ==
  [Idle EXCEPT !.kind = kind, !.generation = epoch, !.cached = cached]

\* async_get_art_settings
BeginSettings(t) ==
  /\ "settings" \in Kinds[t] /\ task[t].pc = "idle"
  /\ dialects' = Reset
  /\ LET legacy == dialects'.settings = "legacy"
     IN task' = [task EXCEPT ![t] =
          Asking(Begun("settings", legacy), IF legacy THEN "brightness" ELSE "aggregate")]
  /\ UNCHANGED <<channel, deaf, firmware, lock, history>>

\* async_get_slideshow_state, called by a poll
BeginSlideshow(t) ==
  /\ "slideshow" \in Kinds[t] /\ task[t].pc = "idle"
  /\ dialects' = Reset
  /\ LET d == dialects'.slideshow
     IN task' = [task EXCEPT ![t] =
          IF d = "unsupported" THEN Idle
          ELSE Asking(Begun("slideshow", d = "legacy"),
                      IF d = "legacy" THEN "status" ELSE "auto")]
  /\ UNCHANGED <<channel, deaf, firmware, lock, history>>

\* async_set_slideshow, once _async_art_mutation found the session ready
BeginWrite(t) ==
  /\ "write" \in Kinds[t] /\ task[t].pc = "idle"
  /\ up /\ ~stopped
  /\ dialects' = Reset
  /\ LET x == Begun("write", FALSE)
     IN task' = [task EXCEPT ![t] =
          IF dialects'.slideshow = "unknown" THEN Asking(x, "auto")
          ELSE Chosen(x, dialects')]
  /\ UNCHANGED <<channel, deaf, firmware, lock, history>>

\* FrameArt.request has the operation lock and a live connection.
Send(t) ==
  /\ task[t].pc = "queued" /\ ~lock /\ up
  /\ lock' = TRUE
  /\ task' = [task EXCEPT ![t].pc = "sent", ![t].over = epoch]
  /\ UNCHANGED <<channel, deaf, firmware, dialects, history>>

-------------------------------------------------------------------------------
(* What becomes of a request *)

Answerable(t) == task[t].pc = "sent" /\ up /\ task[t].over = epoch
Getter(r) == IF r = "set_auto" THEN "auto" ELSE "status"
\* The television takes a write in the dialect whose read it answers.
WriteKnown(r) == "value" \in firmware[Getter(r)]
MayBeSilent(r) ==
  \/ deaf
  \/ r \in Reads /\ "silence" \in firmware[r]
  \/ r \in Setters /\ (~WriteKnown(r) \/ "silence" \in firmware[Getter(r)])

\* async_connection_failed drops the channel before its first await, unless
\* the session was told to stop.
Dropped == up' \in (IF stopped THEN {up, FALSE} ELSE {FALSE}) /\ UNCHANGED <<epoch, stopped>>

Reporting(t) ==
  /\ task' = [task EXCEPT ![t].pc = "reporting"]
  /\ Dropped
  /\ UNCHANGED dialects

\* The task goes on as x, with the dialects d.
Continue(t, x, d) ==
  /\ task' = [task EXCEPT ![t] = x]
  /\ dialects' = d
  /\ UNCHANGED channel

\* The end of a pass that a verdict v of the slideshow concludes.
Learn(t, x, v) ==
  LET d == IF Current(x) THEN [dialects EXCEPT !.slideshow = v] ELSE dialects
  IN Continue(t, Returned(x, d), d)

\* A pass over the settings goes on after the read x.request.
NextSetting(t, x) ==
  \/ /\ x.request = "aggregate"
     /\ Continue(t, IF Current(x) THEN Asking(x, "brightness") ELSE Idle, dialects)
  \/ /\ x.request = "brightness"
     /\ Continue(t, Asking(x, "color"), dialects)
  \/ /\ x.request = "color"
     /\ \/ ~Current(x) /\ Continue(t, Idle, dialects)
        \/ Current(x) /\ x.alive
           /\ Continue(t, Idle, [dialects EXCEPT !.settings = "legacy"])
        \/ Current(x) /\ ~x.alive /\ Reporting(t)

Heard(t, v) ==
  LET r == task[t].request IN
  /\ heard' = heard \cup ({r} \cap Reads) \X {v}
  /\ proven' = proven \cup (IF v = "value" THEN {r} \cap Reads ELSE {})

\* What the task knows once it was answered over the present generation.
Proven(x) == [x EXCEPT !.alive = TRUE, !.proof = @ \/ x.generation = epoch]

\* A value: only the aggregate one may turn out to be malformed.
Value(t) ==
  LET x == Proven(task[t]) IN
  /\ Answerable(t) /\ ~deaf
  /\ \/ x.request \in Setters /\ WriteKnown(x.request) /\ Continue(t, Idle, dialects)
     \/ /\ x.request \in Reads /\ "value" \in firmware[x.request]
        /\ \/ /\ x.request = "aggregate"
              /\ \/ Continue(t, Idle, dialects)
                 \/ Current(x) /\ Continue(t, Idle, [dialects EXCEPT !.settings = "aggregate"])
           \/ /\ x.request \in {"brightness", "color"}
              /\ IF Current(x) THEN NextSetting(t, x) ELSE Continue(t, Idle, dialects)
           \/ x.request = "auto" /\ Learn(t, x, "auto")
           \/ /\ x.request = "status"
              /\ IF x.cached THEN Continue(t, Returned(x, dialects), dialects)
                 ELSE Learn(t, x, "legacy")
  /\ Heard(t, "value") /\ lock' = FALSE
  /\ UNCHANGED <<deaf, firmware>>

\* Mutant: a refusal of the first probe is no sign of life.
Refused_Dead(x) == [Proven(x) EXCEPT !.alive = x.alive]
\* ResponseError: the television is there and does not do this.
Refused(x) == Proven(x)

Refusal(t) ==
  LET x == Refused(task[t]) IN
  /\ Answerable(t) /\ ~deaf
  /\ \/ x.request \in Setters /\ WriteKnown(x.request) /\ Continue(t, Idle, dialects)
     \/ /\ x.request \in Reads /\ "refused" \in firmware[x.request]
        /\ \/ NextSetting(t, x)
           \/ /\ x.request = "auto"
              /\ Continue(t, IF Current(x) THEN Asking(x, "status") ELSE Returned(x, dialects),
                          dialects)
           \/ x.request = "status" /\ Learn(t, x, "unsupported")
  /\ Heard(t, "refused") /\ lock' = FALSE
  /\ UNCHANGED <<deaf, firmware>>

\* ArtProbeTimeout: silence is a verdict only where something else answered.
ProbeTimeout(t) ==
  LET x == task[t] IN
  /\ Answerable(t) /\ x.request \in Reads /\ MayBeSilent(x.request)
  /\ \/ NextSetting(t, x)
     \/ /\ x.request = "auto"
        /\ Continue(t, IF Current(x) THEN Asking(x, "status") ELSE Returned(x, dialects),
                    dialects)
     \/ /\ x.request = "status"
        /\ \/ (~Current(x) \/ (x.alive /\ ~x.cached)) /\ Learn(t, x, "unsupported")
           \/ Current(x) /\ ~(x.alive /\ ~x.cached) /\ Reporting(t)
  /\ lock' = FALSE
  /\ UNCHANGED <<deaf, firmware, history>>

\* A write that is not answered: request() closes the websocket, lock in hand.
WriteTimeout(t) ==
  /\ Answerable(t) /\ task[t].request \in Setters /\ MayBeSilent(task[t].request)
  /\ task' = [task EXCEPT ![t].pc = "closing"]
  /\ UNCHANGED <<channel, deaf, firmware, lock, dialects, history>>

\* Mutant: the lock is not released.
WriteClosed_Locked(t) ==
  /\ task[t].pc = "closing"
  /\ task' = [task EXCEPT ![t].pc = "reporting"]
  /\ up' = FALSE
  /\ UNCHANGED <<epoch, stopped, deaf, firmware, lock, dialects, history>>

WriteClosed(t) ==
  /\ task[t].pc = "closing"
  /\ task' = [task EXCEPT ![t].pc = "reporting"]
  /\ up' = FALSE /\ lock' = FALSE
  /\ UNCHANGED <<epoch, stopped, deaf, firmware, dialects, history>>

\* The connection went: what was sent over it fails, what is queued is refused.
Fail(t) ==
  /\ \/ task[t].pc = "queued" /\ ~lock /\ ~up /\ UNCHANGED lock
     \/ task[t].pc = "sent" /\ ~Answerable(t) /\ lock' = FALSE
  /\ Reporting(t)
  /\ UNCHANGED <<deaf, firmware, history>>

\* async_connection_failed returns: the read is over, a write raises.
Reported(t) ==
  LET x == task[t] IN
  /\ x.pc = "reporting"
  /\ task' = [task EXCEPT ![t] =
       IF x.request \in Setters THEN Idle ELSE Returned(x, dialects)]
  /\ UNCHANGED <<channel, deaf, firmware, lock, dialects, history>>

-------------------------------------------------------------------------------
Answered(t) == Value(t) \/ Refusal(t) \/ ProbeTimeout(t) \/ WriteTimeout(t) \/ Fail(t)
Begin(t) == BeginSettings(t) \/ BeginSlideshow(t) \/ BeginWrite(t)
Step(t)  == Send(t) \/ Answered(t) \/ WriteClosed(t) \/ Reported(t)

Next ==
  \/ Establish \/ Lose \/ GoDeaf \/ Stop
  \/ \E t \in Tasks : Begin(t) \/ Step(t)

Spec == Init /\ [][Next]_vars

\* The event loop runs every task that can go on, and the operation lock is
\* FIFO: whoever can have it again and again gets it.  Polls recur.
FairSpec ==
  /\ Spec
  /\ \A t \in Tasks : SF_vars(Step(t)) /\ WF_vars(BeginSlideshow(t))

-------------------------------------------------------------------------------
(* What the dialects promise *)

Records ==
  [pc : {"idle", "queued", "sent", "closing", "reporting"}, kind : AllKinds,
   request : Reads \cup Setters, generation : Nat, over : Nat,
   alive : BOOLEAN, cached : BOOLEAN, proof : BOOLEAN]

TypeOK ==
  /\ up \in BOOLEAN /\ epoch \in Nat /\ stopped \in BOOLEAN /\ deaf \in BOOLEAN
  /\ firmware \in [Reads -> SUBSET Outcomes] /\ lock \in BOOLEAN
  /\ dialects \in [generation : Nat, settings : SettingsDialects,
                   slideshow : SlideshowDialects]
  /\ task \in [Tasks -> Records]
  /\ heard \subseteq Reads \X Verdicts /\ proven \subseteq Reads

Said(r, v) == <<r, v>> \in heard

\* A dialect kept for the present generation was heard over it: the one that
\* gave a value, and for the verdicts that rest on silence or refusals some
\* answer that proves the silence was not the channel's.
LearnedIsHeard ==
  dialects.generation = epoch /\ epoch > 0 =>
    /\ dialects.settings = "aggregate" => Said("aggregate", "value")
    /\ dialects.settings = "legacy" =>
         \/ Said("aggregate", "refused")
         \/ \E r \in {"brightness", "color"}, v \in Verdicts : Said(r, v)
    /\ dialects.slideshow = "auto" => Said("auto", "value")
    /\ dialects.slideshow = "legacy" => Said("status", "value")
    /\ dialects.slideshow = "unsupported" =>
         Said("auto", "refused") \/ Said("status", "refused")

\* A slideshow write goes out in a dialect whose read this television has
\* answered with a value: a silent write would cost the websocket.
WriteIsProven ==
  \A t \in Tasks : task[t].pc \in {"queued", "sent"} /\ task[t].request \in Setters
    => Getter(task[t].request) \in proven

\* A pass of probes retires the session, while the connection they went over
\* stands, only if all of them met silence, and only the generation the pass
\* began with: a newer one that recovered meanwhile is left alone.
OnlySilenceRetires ==
  [][\A t \in Tasks :
       /\ task[t].pc = "sent" /\ task'[t].pc = "reporting"
       /\ up /\ task[t].over = epoch
       => ~task'[t].proof /\ task[t].generation = epoch]_vars

\* Every poll and every service call comes to its end.
CallsEnd == \A t \in Tasks : task[t].pc # "idle" ~> task[t].pc = "idle"

\* What a television should be found to speak that answers each read alike
\* every time.
Steady == \A r \in {"auto", "status"}, o, p \in Outcomes : {o, p} \subseteq firmware[r] => o = p
Right ==
  IF "value" \in firmware["auto"] THEN "auto"
  ELSE IF "value" \in firmware["status"] THEN "legacy" ELSE "unsupported"

\* On a channel that stays up the dialect is learned for good, and rightly,
\* whatever was believed of it over earlier generations.
Learns ==
  Steady /\ <>[](up /\ ~deaf /\ ~stopped)
    => <>[](dialects.generation = epoch /\ dialects.slideshow = Right)
===============================================================================
