------------------------------ MODULE Coordinator ------------------------------
(***************************************************************************)
(* FrameCoordinator (coordinator.py): the polls that ask the television    *)
(* over REST and over the Art channel, the events it pushes over the Art   *)
(* channel, and the one FrameData snapshot both publish.                   *)
(*                                                                         *)
(* The Art channel is the abstract one, ArtChannel, which ArtSession       *)
(* implements: ready or not, and the number of its generation.             *)
(*                                                                         *)
(* A poll is a task and an action is one stretch of it between two awaits. *)
(* Polls overlap: the heartbeat, async_refresh and the debounced refreshes *)
(* (READY, go_to_standby, wake probe, services) run _async_update_data     *)
(* with nothing that excludes the others.  A refresh that one of these     *)
(* requests is a poll that begins, which an idle poll may at any moment.   *)
(*                                                                         *)
(* A reading is named by the moment it was taken: `at` is the revision the *)
(* field had when the television answered, so of two readings the smaller  *)
(* `at` was overtaken by a push.  An artwork is nothing but its `at`, and  *)
(* settings and a slideshow are the generation they were read over; that   *)
(* there is none (None) is an answer like any other.                       *)
(*                                                                         *)
(* Left out: the running app and the volume, of which only the await is    *)
(* kept; token capture; remote_confirmed, the observation of the remote    *)
(* channel that coordinator and device reset; logging.                     *)
(***************************************************************************)
EXTENDS Integers

CONSTANTS
  Polls,                \* polls that may be under way at the same time
  OffDebounceCount,     \* OFF_DEBOUNCE_COUNT
  ArtFailUnknownCount,  \* ART_FAIL_UNKNOWN_COUNT
  DetectRunningApp,     \* the option OPT_DETECT_RUNNING_APP
  ArtInStandby,         \* the model reports PowerState standby as it shows art
  Screens,              \* bound: what the television may do, of AllScreens
  MaxRevision,          \* bound: number of pushes
  Epochs,               \* bound: the generations the Art channel may have
  HostFaults,           \* bound: whether the Art host may fail
  Unloads               \* bound: whether the entry is unloaded

AllScreens == {"gone", "dark", "watching", "art"}

ASSUME CountAssumption ==
  OffDebounceCount \in Nat \ {0} /\ ArtFailUnknownCount \in Nat \ {0}
ASSUME OptionAssumption ==
  /\ DetectRunningApp \in BOOLEAN /\ ArtInStandby \in BOOLEAN
  /\ HostFaults \in BOOLEAN /\ Unloads \in BOOLEAN
  /\ Screens \subseteq AllScreens
ASSUME RevisionAssumption == MaxRevision \in Nat /\ Epochs \subseteq Nat

VARIABLES
  tv,           \* the television: gone, dark (standby), watching or art
  up,           \* device.art_ready
  epoch,        \* device.art_generation
  hostFault,    \* device.art_host_fault
  entry,        \* the config entry: loaded, unloading, stopping or unloaded
  poll,         \* each poll: where it is and its locals
  art,          \* _art_mode
  current,      \* _current_art
  revision,     \* the three push revisions
  optional,     \* _art_settings, _slideshow and _optional_art_generation
  learned,      \* _art_implies_power_on
  power,        \* _latest_rest_power_state
  unreachable,  \* _unreachable_count, and _was_reachable: that it is 0
  streak,       \* _art_fail_streak
  reconcile,    \* _art_generation, and whether _next_art_reconcile has come
  data,         \* DataUpdateCoordinator.data
  success,      \* DataUpdateCoordinator.last_update_success
  repair        \* the Repairs issue and the two flags kept of it

channel == <<up, epoch>>
cache   == <<art, current, revision, optional, learned>>
counts  == <<power, unreachable, streak, reconcile>>
published == <<data, success, repair>>
vars == <<tv, channel, hostFault, entry, poll, cache, counts, published>>

Sample == [value : {"on", "off", "none"}, at : Nat]
NoSample == [value |-> "none", at |-> 0]
Optional == [settings : Nat, slideshow : Nat, generation : Nat]
NoOptional == [settings |-> 0, slideshow |-> 0, generation |-> 0]
Modes == {"off", "watching", "art", "unknown"}
Powers == {"on", "standby", "none"}
NoRevision == [mode |-> 0, current |-> 0, live |-> 0]

Idle == [pc |-> "idle", reachable |-> FALSE, power |-> "none", edge |-> FALSE,
         asked |-> FALSE, generation |-> 0, since |-> NoRevision,
         art |-> NoSample, current |-> 0, settings |-> 0, mode |-> "unknown"]

\* Before the first poll: what handle_art_event assumes when data is None.
NoData == [power |-> "on", art |-> NoSample, mode |-> "unknown",
           optional |-> 0, unavailable |-> FALSE]

Smaller(a, b) == IF a < b THEN a ELSE b

\* The session was told to stop, which device.async_stop does in a task.
Retired == entry \in {"stopping", "unloaded"}

-------------------------------------------------------------------------------
(* What the television may answer *)

RestPowers ==
  CASE tv = "gone" -> {}
    [] tv = "dark" -> {"standby"}
    [] tv = "watching" -> {"on"}
    [] tv = "art" -> IF ArtInStandby THEN {"standby"} ELSE {"on"}

\* For a while the Art app of a television that shuts down says what it said.
ArtReadings ==
  CASE tv = "gone" -> {}
    [] tv = "dark" -> {"on", "off"}
    [] tv = "watching" -> {"off"}
    [] tv = "art" -> {"on"}

-------------------------------------------------------------------------------
(* Publishing *)

\* Mutant: a reading that no rule names falls through to no mode at all.
Derive_FallsThrough(reachable, mode, p, standbyWins) ==
  LET dark == p = "standby" /\ (standbyWins \/ mode # "on")
  IN CASE ~reachable \/ dark -> "off"
       [] reachable /\ ~dark /\ mode = "on" -> "art"
       [] reachable /\ mode = "off" /\ p = "on" -> "watching"
       [] OTHER -> "none"
\* models.derive_tv_mode
Derive(reachable, mode, p, standbyWins) ==
  LET dark == p = "standby" /\ (standbyWins \/ mode # "on")
  IN CASE ~reachable \/ dark -> "off"
       [] reachable /\ ~dark /\ mode = "on" -> "art"
       [] reachable /\ mode = "off" /\ p = "on" -> "watching"
       [] OTHER -> "unknown"

LastStable == data.mode

Repair(unavailable) ==
  [issue |-> unavailable, raised |-> unavailable, synced |-> TRUE]

\* Mutant: the first call is not told from a repetition of the last.
SetRepair_NoSync(unavailable) ==
  repair' = IF unavailable = repair.raised THEN [repair EXCEPT !.synced = TRUE]
            ELSE Repair(unavailable)
\* _update_art_service_repair
SetRepair(unavailable) ==
  repair' = IF unavailable = repair.raised /\ repair.synced THEN repair
            ELSE Repair(unavailable)

\* The last stretch of a poll: the snapshot, and the base class takes it.
Publish(p, q, mode, reading) ==
  LET off   == mode = "off"
      fresh == up /\ optional'.generation = epoch
      unavailable == q.asked /\ hostFault'
  IN
  /\ SetRepair(unavailable)
  /\ success' = TRUE
  /\ data' = [power |-> q.power,
              art |-> IF off THEN [reading EXCEPT !.value = "off"] ELSE reading,
              mode |-> mode,
              optional |-> IF fresh /\ ~off THEN epoch ELSE 0,
              unavailable |-> unavailable]
  /\ poll' = [poll EXCEPT ![p] = Idle]

\* Mutant: a channel that is down is not a failure of Art.
Streak_ReconciledOnly(q, reconciled, live) ==
  IF q.edge \/ ~q.reachable \/ q.power # "on" \/ (reconciled /\ live) THEN 0
  ELSE IF reconciled THEN Smaller(streak + 1, ArtFailUnknownCount)
  ELSE streak
\* _reset_art_failure and _record_art_failure as a poll makes them.  The code
\* counts on where nothing reads on but diagnostics: the model stops there.
Streak(q, reconciled, live) ==
  IF q.edge \/ ~q.reachable \/ q.power # "on" \/ (reconciled /\ live) THEN 0
  ELSE IF reconciled \/ ~up THEN Smaller(streak + 1, ArtFailUnknownCount)
  ELSE streak

\* From the Art readings to the next await or to the end of the poll.
Conclude(p, q, reconciled, live) ==
  LET broken  == streak' = ArtFailUnknownCount
      reading == IF broken THEN [art' EXCEPT !.value = "none"] ELSE art'
      derived == Derive(q.reachable, reading.value, q.power, learned')
      held == (~q.reachable /\ unreachable' < OffDebounceCount)
              \/ (derived = "unknown" /\ ~broken)
      mode == IF held THEN LastStable ELSE derived
      waits == (mode = "watching" /\ DetectRunningApp)
               \/ (q.reachable /\ q.power = "on")
  IN
  /\ streak' = Streak(q, reconciled, live)
  /\ \/ /\ waits
        /\ poll' = [poll EXCEPT ![p] = [Idle EXCEPT !.pc = "extras",
                      !.power = q.power, !.asked = q.asked, !.art = reading,
                      !.mode = mode]]
        /\ UNCHANGED published
     \/ ~waits /\ Publish(p, q, mode, reading)

-------------------------------------------------------------------------------
Init ==
  /\ tv \in Screens
  /\ up = FALSE /\ epoch = 0 /\ hostFault = FALSE
  /\ entry = "loaded"
  /\ poll = [p \in Polls |-> Idle]
  /\ art = NoSample /\ current = 0 /\ revision = NoRevision
  /\ optional = NoOptional /\ learned = FALSE
  /\ power = "none" /\ unreachable = 0 /\ streak = 0
  /\ reconcile = [generation |-> -1, due |-> TRUE]
  /\ data = NoData /\ success = TRUE
  \* the registry may still hold the issue of an earlier setup
  /\ \E issue \in BOOLEAN :
       repair = [issue |-> issue, raised |-> FALSE, synced |-> FALSE]

-------------------------------------------------------------------------------
(* A poll *)

Begins(p) ==
  /\ poll[p].pc = "idle" /\ entry = "loaded"
  /\ poll' = [poll EXCEPT ![p] = [Idle EXCEPT !.pc = "rest"]]

\* The heartbeat, or a refresh somebody requested.
PollBegins(p) ==
  /\ Begins(p)
  /\ UNCHANGED <<tv, channel, hostFault, entry, cache, counts, published>>

\* async_request_art_reconcile
RequestReconcile(p) ==
  /\ Begins(p)
  /\ reconcile' = [reconcile EXCEPT !.due = TRUE]
  /\ UNCHANGED <<tv, channel, hostFault, entry, cache, power, unreachable,
                 streak, published>>

\* Mutant: a generation is reconciled once and then left to the pushes.
Due_OncePerGeneration == epoch # reconcile.generation
Due == epoch # reconcile.generation \/ reconcile.due

Misses(r) == IF r THEN 0 ELSE Smaller(unreachable + 1, OffDebounceCount)

\* The REST answer and what depends on it up to the next await.
Polled(p, r, pow) ==
  LET edge  == r /\ unreachable # 0
      asked == r /\ pow \in {"on", "standby"} /\ ~(pow = "standby" /\ learned)
      q == [Idle EXCEPT !.reachable = r, !.power = pow, !.edge = edge,
                        !.asked = asked]
      reconciles == asked /\ up /\ Due
  IN
  /\ poll[p].pc = "rest"
  /\ power' = pow
  /\ unreachable' = Misses(r)
  /\ UNCHANGED <<entry, cache>>
  /\ \/ /\ reconciles
        /\ reconcile' = [generation |-> epoch, due |-> FALSE]
        /\ poll' = [poll EXCEPT ![p] =
                      [q EXCEPT !.pc = "mode", !.generation = epoch,
                                !.since = revision]]
        /\ UNCHANGED <<streak, published>>
     \/ /\ ~reconciles
        /\ reconcile' = reconcile
        /\ Conclude(p, q, FALSE, FALSE)

\* The same with the session's observation of the answer, which comes first.
Hear(p, r, pow) ==
  /\ hostFault' = (hostFault /\ ~(r /\ unreachable # 0 /\ ~Retired))
  /\ UNCHANGED <<tv, channel>>
  /\ Polled(p, r, pow)

Answered(p) == \E pow \in RestPowers : Hear(p, TRUE, pow)
Unanswered(p) == Hear(p, FALSE, "none")

-------------------------------------------------------------------------------
(* _async_reconcile_art *)

\* Mutant: any ready channel will do.
IsReady_AnyGeneration(q) == up
IsReady(q) == up /\ epoch = q.generation

\* Some Art answer has come since the reconciliation began.
Live(q) == q.art.value # "none" \/ revision.live # q.since.live

Learns(value) == learned' = (learned \/ (value = "on" /\ power = "on"))

\* Mutant: the answer is cached whatever was pushed while it was under way.
CommitMode_NoRevision(q) ==
  IF q.art.value # "none"
  THEN art' = q.art /\ Learns(q.art.value)
  ELSE UNCHANGED <<art, learned>>
CommitMode(q) ==
  IF q.art.value # "none" /\ revision.mode = q.since.mode
  THEN art' = q.art /\ Learns(q.art.value)
  ELSE UNCHANGED <<art, learned>>

CommitCurrent(q) ==
  current' = IF revision.current = q.since.current THEN q.current ELSE current

\* What no stretch of a reconciliation touches.
Steady == UNCHANGED <<tv, channel, hostFault, entry, revision, power,
                      unreachable, reconcile>>

Asks(p, q, pc) ==
  /\ poll' = [poll EXCEPT ![p] = [q EXCEPT !.pc = pc]]
  /\ UNCHANGED <<art, current, optional, learned, streak, published>>

\* The answer to get_artmode: none when the read failed or found the menu.
ModeAnswers(p, value) ==
  LET q == [poll[p] EXCEPT !.art = [value |-> value, at |-> revision.mode]]
  IN
  /\ poll[p].pc = "mode"
  /\ Steady
  /\ \/ IsReady(q) /\ Asks(p, q, "current")
     \/ /\ ~IsReady(q)
        /\ CommitMode(q) /\ UNCHANGED <<current, optional>>
        /\ Conclude(p, q, TRUE, Live(q))

CurrentAnswers(p) ==
  LET q == [poll[p] EXCEPT !.current = revision.current]
  IN
  /\ poll[p].pc = "current"
  /\ Steady
  /\ \/ IsReady(q) /\ Asks(p, q, "settings")
     \/ /\ ~IsReady(q)
        /\ CommitMode(q) /\ UNCHANGED <<current, optional>>
        /\ Conclude(p, q, TRUE, Live(q))

\* The generation a request went out over: none if the channel is down.
ReadOver == IF up THEN epoch ELSE 0

\* A generation lost here takes the readings of mode and artwork with it.
SettingsAnswer(p) ==
  LET q == [poll[p] EXCEPT !.settings = ReadOver]
  IN
  /\ poll[p].pc = "settings"
  /\ Steady
  /\ \/ IsReady(q) /\ Asks(p, q, "slideshow")
     \/ /\ ~IsReady(q)
        /\ UNCHANGED <<art, current, optional, learned>>
        /\ Conclude(p, q, TRUE, Live(q))

SlideshowAnswers(p) ==
  LET q == poll[p]
  IN
  /\ q.pc = "slideshow"
  /\ Steady
  /\ optional' = IF IsReady(q)
                 THEN [settings |-> q.settings, slideshow |-> ReadOver,
                       generation |-> q.generation]
                 ELSE optional
  /\ CommitMode(q) /\ CommitCurrent(q)
  /\ Conclude(p, q, TRUE, Live(q))

\* The running app and the volume have answered.
ExtrasAnswer(p) ==
  /\ poll[p].pc = "extras"
  /\ UNCHANGED <<tv, channel, hostFault, entry, cache, counts>>
  /\ Publish(p, poll[p], poll[p].mode, poll[p].art)

\* POLL_DEADLINE: the poll is cancelled at whatever it waits for.
PollTimesOut(p) ==
  /\ poll[p].pc # "idle"
  /\ poll' = [poll EXCEPT ![p] = Idle]
  /\ success' = FALSE
  /\ UNCHANGED <<tv, channel, hostFault, entry, cache, counts, data, repair>>

-------------------------------------------------------------------------------
(* handle_art_event *)

Hears ==
  entry # "unloaded" /\ epoch > 0 /\ tv # "gone" /\ revision.live < MaxRevision

PushPublishes ==
  LET p == IF power = "none" THEN data.power ELSE power
      derived == Derive(TRUE, art'.value, p, learned')
  IN /\ data' = [data EXCEPT !.power = p, !.art = art',
                   !.mode = IF derived = "unknown" THEN LastStable ELSE derived]
     /\ success' = TRUE

\* art_mode_changed, artmode_status
PushMode(value) ==
  /\ Hears /\ value \in ArtReadings
  /\ revision' = [revision EXCEPT !.mode = @ + 1, !.live = @ + 1]
  /\ art' = [value |-> value, at |-> revision.mode + 1]
  /\ Learns(value)
  /\ streak' = 0
  /\ UNCHANGED <<current, optional>>
  /\ PushPublishes
  /\ UNCHANGED <<tv, channel, hostFault, entry, poll, power, unreachable,
                 reconcile, repair>>

\* image_selected, slideshow_image_changed, image_changed
PushCurrent ==
  /\ Hears
  /\ revision' = [revision EXCEPT !.current = @ + 1, !.live = @ + 1]
  /\ current' = revision.current + 1
  /\ streak' = 0
  /\ UNCHANGED <<art, optional, learned>>
  /\ PushPublishes
  /\ UNCHANGED <<tv, channel, hostFault, entry, poll, power, unreachable,
                 reconcile, repair>>

\* go_to_standby: never a state by itself.
PushStandby ==
  /\ Hears
  /\ revision' = [revision EXCEPT !.live = @ + 1]
  /\ streak' = 0
  /\ UNCHANGED <<tv, channel, hostFault, entry, poll, art, current, optional,
                 learned, power, unreachable, reconcile, published>>

Push ==
  \/ \E value \in {"on", "off"} : PushMode(value)
  \/ PushCurrent
  \/ PushStandby

-------------------------------------------------------------------------------
(* The Art channel, the television, the clock and the entry *)

Channel == INSTANCE ArtChannel WITH retired <- Retired

\* A television that is gone may have left a connection that still counts.
ChannelUp ==
  /\ epoch + 1 \in Epochs
  /\ hostFault' = FALSE
  /\ UNCHANGED <<tv, entry, poll, cache, counts, published>>
  /\ Channel!Establish

ChannelLost ==
  /\ UNCHANGED <<tv, hostFault, entry, poll, cache, counts, published>>
  /\ Channel!Lose

\* Enough attempts at the channel were answered without an Art host.
HostFaultArises ==
  /\ HostFaults /\ ~up /\ tv # "gone" /\ ~Retired
  /\ hostFault' = TRUE
  /\ UNCHANGED <<tv, channel, entry, poll, cache, counts, published>>

TvChanges ==
  /\ tv' \in Screens \ {tv}
  /\ UNCHANGED <<channel, hostFault, entry, poll, cache, counts, published>>

\* ART_RECONCILE_SECONDS have passed.
ReconcileComesDue ==
  /\ entry # "unloaded"
  /\ reconcile' = [reconcile EXCEPT !.due = TRUE]
  /\ UNCHANGED <<tv, channel, hostFault, entry, poll, cache, power,
                 unreachable, streak, published>>

\* async_unload_entry after its platforms: the repair is dropped and the stop
\* of the device is asked for.
UnloadBegins ==
  /\ Unloads /\ entry = "loaded" /\ entry' = "unloading"
  /\ SetRepair(FALSE)
  /\ UNCHANGED <<tv, channel, hostFault, poll, cache, counts, data, success>>

\* The stop has reached the session; it takes a while.
StopBegins ==
  /\ entry = "unloading" /\ entry' = "stopping"
  /\ UNCHANGED <<tv, hostFault, poll, cache, counts, published>>
  /\ Channel!Retire

\* Home Assistant cancels the tasks of an entry that is unloaded.
UnloadEnds ==
  /\ entry = "stopping" /\ entry' = "unloaded"
  /\ poll' = [p \in Polls |-> Idle]
  /\ UNCHANGED <<tv, channel, hostFault, cache, counts, published>>

-------------------------------------------------------------------------------
PollStep(p) ==
  \/ Answered(p) \/ Unanswered(p)
  \/ \E value \in ArtReadings \cup {"none"} : ModeAnswers(p, value)
  \/ CurrentAnswers(p) \/ SettingsAnswer(p) \/ SlideshowAnswers(p)
  \/ ExtrasAnswer(p)

Next ==
  \/ \E p \in Polls :
       PollBegins(p) \/ RequestReconcile(p) \/ PollStep(p) \/ PollTimesOut(p)
  \/ Push
  \/ ChannelUp \/ ChannelLost \/ HostFaultArises
  \/ TvChanges \/ ReconcileComesDue
  \/ UnloadBegins \/ StopBegins \/ UnloadEnds

Spec == Init /\ [][Next]_vars

\* The heartbeat goes on, every call of a poll is answered or fails, and the
\* monotonic clock passes the reconciliation interval.
Fairness ==
  /\ \A p \in Polls : WF_vars(PollBegins(p)) /\ WF_vars(PollStep(p))
  /\ WF_vars(ReconcileComesDue)

FairSpec == Spec /\ Fairness

-------------------------------------------------------------------------------
Poll == [pc : {"idle", "rest", "mode", "current", "settings", "slideshow",
               "extras"},
         reachable : BOOLEAN, power : Powers, edge : BOOLEAN, asked : BOOLEAN,
         generation : Nat,
         since : [mode : Nat, current : Nat, live : Nat],
         art : Sample, current : Nat, settings : Nat, mode : Modes]
Data == [power : Powers, art : Sample, mode : Modes, optional : Nat,
         unavailable : BOOLEAN]

TypeOK ==
  /\ tv \in AllScreens
  /\ up \in BOOLEAN /\ epoch \in Nat /\ hostFault \in BOOLEAN
  /\ entry \in {"loaded", "unloading", "stopping", "unloaded"}
  /\ poll \in [Polls -> Poll]
  /\ art \in Sample /\ current \in Nat
  /\ revision \in [mode : Nat, current : Nat, live : Nat]
  /\ optional \in Optional /\ learned \in BOOLEAN
  /\ power \in Powers /\ unreachable \in Nat /\ streak \in Nat
  /\ reconcile \in [generation : Nat \cup {-1}, due : BOOLEAN]
  /\ data \in Data /\ success \in BOOLEAN
  /\ repair \in [issue : BOOLEAN, raised : BOOLEAN, synced : BOOLEAN]

\* "Push events ... win races with older reconciliation responses": what is
\* cached is never replaced by a reading that a push has overtaken.
PushesWin ==
  [][/\ art'.at >= art.at
     /\ current' >= current]_<<art, current>>

\* Settings and slideshow are kept under the generation both were read over,
\* whatever was lost and came back between the two answers.
OfOneGeneration(o) ==
  o.settings \in {0, o.generation} /\ o.slideshow \in {0, o.generation}
OptionalOfOneGeneration == OfOneGeneration(optional)

\* While the entry is loaded the Repairs issue says what the snapshot says,
\* even when an earlier setup has left one behind.
RepairMatchesData ==
  repair.synced /\ entry = "loaded" => repair.issue = data.unavailable

\* Every poll is answered and none runs into its deadline.
Smooth == unreachable = 0 /\ success /\ entry = "loaded"
ReportsOn == tv = "watching" \/ (tv = "art" /\ ~ArtInStandby)

\* "A permanently broken art channel surfaces as 'unknown' instead of freezing
\* state forever."
BrokenChannelSurfaces ==
  <>[](ReportsOn /\ ~up /\ Smooth) => <>[](data.mode = "unknown")

\* What is published settles on what the television does, though no push says
\* it and whatever was cached before: a television that stays in Art Mode on a
\* channel that stays up comes to be published so, one that is gone as off, and
\* so is one in standby, if standby is known to mean off, although Art may still
\* say "on" as it goes down.
ModeIsRead == \A p \in Polls : poll[p].pc = "current" => poll[p].art.value # "none"
Settles ==
  /\ <>[](tv = "art" /\ ~ArtInStandby /\ up /\ Smooth /\ ModeIsRead)
       => <>[](data.mode = "art")
  /\ <>[](tv = "gone" /\ success /\ entry = "loaded") => <>[](data.mode = "off")
  /\ <>[](tv = "dark" /\ learned /\ Smooth) => <>[](data.mode = "off")

\* The trait is "never learned on 2025 models, which report standby during
\* normal art mode".
NeverLearnedInStandby == ArtInStandby => ~learned

\* The repair is dropped at unload, "so it cannot outlive its owner".
RepairEndsWithEntry == entry = "unloaded" => ~repair.issue
===============================================================================
