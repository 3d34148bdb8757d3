------------------------------ MODULE Integration ------------------------------
(***************************************************************************)
(* The Art session and the coordinator of one entry, joined where the code *)
(* joins them: coordinator.py reads the properties art_ready,              *)
(* art_generation and art_host_fault of the device, which are those of the *)
(* session; it passes every REST answer to the session in the same stretch *)
(* (observe_art_power); and __init__.py starts the session, refreshes the  *)
(* coordinator and stops the session in one order.                         *)
(*                                                                         *)
(* ArtSession is extended, so its names are the session's here.  The       *)
(* coordinator is an instance in which the Art channel, which Coordinator  *)
(* takes for any ArtChannel with any fault, is that session.  No action    *)
(* below says what a step of the session does to the channel: that it is   *)
(* one the coordinator was modelled for is a theorem (IntegrationProof).   *)
(***************************************************************************)
EXTENDS ArtSession

CONSTANTS
  Polls, OffDebounceCount, ArtFailUnknownCount,  \* as in Coordinator
  DetectRunningApp, ArtInStandby,
  Screens, MaxRevision,
  Epochs      \* bound: generations a run looks at; Nat for the theorems

VARIABLES
  screen,     \* Coordinator's tv: what the television shows
  entry, poll, art, current, revision, optional, learned, power, unreachable,
  streak, reconcile, data, success, repair

snapshots == <<poll, art, current, revision, optional, learned, power,
               unreachable, streak, reconcile, data, success, repair>>
coordinator == <<entry, snapshots>>
system == <<vars, screen, coordinator>>

Coord == INSTANCE Coordinator
           WITH tv <- screen, up <- Ready, epoch <- generation,
                hostFault <- HostFault, HostFaults <- TRUE, Unloads <- TRUE

\* One television: it is off the network for both, or for neither.
Agrees == tv = "off" <=> screen = "gone"

SystemInit ==
  /\ Init
  /\ screen \in Screens /\ Agrees
  /\ Coord!Init

\* What the session does with no part of the coordinator's.
SessionStep ==
  /\ \/ Start
     \/ \E o \in Ops : OperationStep(o)
     \/ ConnectStep
     \/ \E c \in Ops \cup {"close"} : CloseStep(c)
     \/ CloseTimesOut \/ ReceiverEnds
     \/ StopCloses \/ StopFinishes
     \/ Tick \/ Disconnect \/ CancelConnect
  /\ UNCHANGED <<screen, coordinator>>

\* _async_poll when REST has answered: observe_art_power, which does nothing
\* for a session that is not started, and what follows up to the next await.
\* A standby that means off is passed on as no power state.
Observe(p, r, pow) ==
  /\ IF started
     THEN Heartbeat(r, pow \in {"on", "standby"} /\ ~(pow = "standby" /\ learned))
     ELSE UNCHANGED vars
  /\ UNCHANGED screen
  /\ Coord!Polled(p, r, pow)

Observes(p) ==
  \/ \E pow \in Coord!RestPowers : Observe(p, TRUE, pow)
  \/ Observe(p, FALSE, "none")

\* The rest of the coordinator, which only reads what the session is.
CoordinatorStep ==
  /\ UNCHANGED vars
  /\ \/ \E p \in Polls :
          \/ started /\ (Coord!PollBegins(p) \/ Coord!RequestReconcile(p))
          \/ \E value \in Coord!ArtReadings \cup {"none"} : Coord!ModeAnswers(p, value)
          \/ Coord!CurrentAnswers(p) \/ Coord!SettingsAnswer(p)
          \/ Coord!SlideshowAnswers(p) \/ Coord!ExtrasAnswer(p)
          \/ Coord!PollTimesOut(p)
     \/ Coord!Push \/ Coord!ReconcileComesDue
     \/ started /\ Coord!UnloadBegins
     \/ stopTask = "done" /\ Coord!UnloadEnds

\* The stop of the device reaches the session, some turns after it was asked for.
StopReaches ==
  /\ entry = "unloading" /\ entry' = "stopping"
  /\ StopBegins
  /\ UNCHANGED <<screen, snapshots>>

TelevisionChanges ==
  /\ TvChanges \/ UNCHANGED vars
  /\ screen' \in Screens /\ Agrees'
  /\ UNCHANGED coordinator

SystemNext ==
  \/ SessionStep
  \/ \E p \in Polls : Observes(p)
  \/ CoordinatorStep
  \/ StopReaches \/ TelevisionChanges

System == SystemInit /\ [][SystemNext]_system

-------------------------------------------------------------------------------
\* The polls of the composed system are those of Coordinator: everything that
\* is shown of that module holds with the real session for its channel.
CoordinatorSpec == Coord!Spec

\* Both ends of a call agree: the coordinator says "reachable edge" for what the
\* session's own record of the last answer makes one, and the entry is stopping
\* exactly when the session is.
BothAgree ==
  /\ Agrees
  /\ terminal <=> entry \in {"stopping", "unloaded"}
  /\ ~terminal => (reachable <=> unreachable = 0)
  /\ ~started /\ ~terminal => \A p \in Polls : poll[p].pc = "idle"

\* When async_unload_entry has returned, nothing is left that could bring the
\* channel up, ask over it or publish.
UnloadedIsDown ==
  entry = "unloaded" => state = "stopped" /\ \A p \in Polls : poll[p].pc = "idle"

\* The repair is dropped at unload, "so it cannot outlive its owner".
RepairEndsWithEntry == Coord!RepairEndsWithEntry
===============================================================================
