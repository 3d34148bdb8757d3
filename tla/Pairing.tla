-------------------------------- MODULE Pairing --------------------------------
(***************************************************************************)
(* Pairing with a television (config_flow.py): validate_and_pair opens a   *)
(* temporary remote control client, whose handshake issues the token, and  *)
(* a temporary Art client, which proves it, and closes both before it      *)
(* returns or raises.  The steps of the flow that call it store what it    *)
(* returns in the config entry, whose address a sighting of the television *)
(* (DHCP, SSDP) may repair in the meantime.                                *)
(*                                                                         *)
(* The call is one task, an action is one stretch of it between two        *)
(* awaits; the two cleanups run as tasks of their own.  Home Assistant may *)
(* cancel the call at any await, more than once.  The television may stop  *)
(* answering at any moment, and a websocket need not close gracefully: the *)
(* deadlines, of which several run at the same time, end every wait.       *)
(*                                                                         *)
(* Left out: titles and models; that the address is taken over by another  *)
(* television in the middle of a call; the setup of the entry (Coordinator,*)
(* RemoteControl).                                                         *)
(***************************************************************************)
CONSTANTS
  Hosts,  \* addresses
  None    \* no entry

ASSUME NoneAssumption == None \notin Hosts

Clients == {"remote", "art"}
Kinds   == {"user", "reauth", "reconfigure"}
\* "expired" is the CancelledError of a deadline that has not met its timeout.
Errors   == {"none", "cannot_connect", "expired", "not_a_frame", "cancelled"}
Outcomes == {"none", "cannot_connect", "not_a_frame", "cancelled", "paired"}

VARIABLES
  home,     \* where the television is
  entry,    \* the address in its config entry, or None
  call,     \* validate_and_pair: where it is and its locals
  client,   \* each temporary client, its websocket and its cleanup
  outcome   \* what the last call came to

vars == <<home, entry, call, client, outcome>>

\* ours: the identity read over REST; the rest of the last line is history: the
\* caller cancelled the call, which open() dropped once, and the handshakes that
\* were completed.
NoCall == [pc |-> "form", kind |-> "user", host |-> None, ours |-> FALSE,
           client |-> "remote", error |-> "none",
           cancelled |-> FALSE, dropped |-> FALSE, opened |-> {}]
NoClient == [socket |-> "none", published |-> FALSE, cleanup |-> "none"]

Init ==
  /\ home \in Hosts /\ entry \in {None, home}
  /\ call = NoCall
  /\ client = [c \in Clients |-> NoClient]
  /\ outcome = "none"

-------------------------------------------------------------------------------
(* Where the television is *)

Moves ==
  /\ \E h \in Hosts : home' = h
  /\ UNCHANGED <<entry, call, client, outcome>>

\* async_step_dhcp, async_step_ssdp: an entry with this identity is repaired.
Sighting ==
  /\ entry # None
  /\ entry' = home
  /\ UNCHANGED <<home, call, client, outcome>>

-------------------------------------------------------------------------------
(* How a call ends *)

Failed(x)    == [x EXCEPT !.error = "cannot_connect"]
Cancelled(x) == [x EXCEPT !.error = "cancelled", !.cancelled = TRUE]
\* A deadline cancels the task as well; the cancellation of the caller wins.
Expired(x)   == IF x.error = "cancelled" THEN x ELSE [x EXCEPT !.error = "expired"]

\* A cancellation that finds the close task done is dropped: open() raises what
\* it had to raise.  Only if that is a CancelledError too, a deadline's, do the
\* timeouts see the caller's behind it.
Dropped(x) ==
  IF x.error = "cannot_connect"
  THEN [x EXCEPT !.cancelled = TRUE, !.dropped = TRUE]
  ELSE Cancelled(x)

\* Mutant: a TimeoutError is not made a CannotConnect.
Concluded_Raw(x) ==
  IF x.error = "none" THEN "paired"
  ELSE IF x.error = "expired" THEN "timeout" ELSE x.error
\* What a call comes to that has got past its timeouts and except clauses.
Concluded(x) ==
  IF x.error = "none" THEN "paired"
  ELSE IF x.error = "expired" THEN "cannot_connect" ELSE x.error

\* An exception leaves the call before there is a client.
Raises(x) ==
  /\ call' = [x EXCEPT !.pc = "form"]
  /\ outcome' = Concluded(x)
  /\ UNCHANGED <<home, entry, client>>

\* The finally clause: a cleanup task for each client, which has something to
\* do if open() has published a websocket.
CleansUp(x, cl) ==
  /\ call' = [x EXCEPT !.pc = "cleanup"]
  /\ client' = [c \in Clients |->
       [cl[c] EXCEPT !.cleanup = IF cl[c].published THEN "closing" ELSE "done"]]
  /\ UNCHANGED <<home, entry, outcome>>

\* Mutant: only an Exception closes the websocket, and a cancellation is none.
Abandons_Exception(x) ==
  IF client[x.client].socket = "open" /\ x.error # "cancelled"
  THEN call' = [x EXCEPT !.pc = "abandon"] /\ UNCHANGED <<home, entry, client, outcome>>
  ELSE CleansUp(x, client)
\* open() fails: a websocket that it has not published is closed first.
Abandons(x) ==
  IF client[x.client].socket = "open"
  THEN call' = [x EXCEPT !.pc = "abandon"] /\ UNCHANGED <<home, entry, client, outcome>>
  ELSE CleansUp(x, client)

Shut(cl, c) == [cl EXCEPT ![c].socket = "closed", ![c].published = FALSE]

\* The websocket is aborted; the Art client waits for its close task as well.
Aborts(x) ==
  IF x.client = "remote" THEN CleansUp(x, Shut(client, "remote"))
  ELSE /\ call' = [x EXCEPT !.pc = "drain"]
       /\ client' = Shut(client, "art")
       /\ UNCHANGED <<home, entry, outcome>>

-------------------------------------------------------------------------------
(* validate_and_pair *)

\* A form is submitted; reauthorization pairs at the address of the entry.
Submit(kind, host) ==
  /\ call.pc = "form"
  /\ kind # "user" => entry # None
  /\ kind = "reauth" => host = entry
  /\ call' = [NoCall EXCEPT !.pc = "rest", !.kind = kind, !.host = host]
  /\ client' = [c \in Clients |-> NoClient]
  /\ outcome' = "none"
  /\ UNCHANGED <<home, entry>>

\* The device at this address says what it is.
RestAnswers ==
  /\ call.pc = "rest"
  /\ \/ /\ call' = [call EXCEPT !.pc = "context", !.ours = (call.host = home)]
        /\ UNCHANGED <<home, entry, client, outcome>>
     \/ call.host # home /\ Raises([call EXCEPT !.error = "not_a_frame"])

RestFails == call.pc = "rest" /\ Raises(Failed(call))

\* The executor has made the TLS context; remote.open() begins.
ContextMade ==
  /\ call.pc = "context"
  /\ call' = [call EXCEPT !.pc = "connect"]
  /\ UNCHANGED <<home, entry, client, outcome>>

Connected ==
  /\ call.pc = "connect"
  /\ call' = [call EXCEPT !.pc = "handshake"]
  /\ client' = [client EXCEPT ![call.client].socket = "open"]
  /\ UNCHANGED <<home, entry, outcome>>

\* The handshake is complete.  The remote's need not have issued a token.
Handshaken ==
  LET c  == call.client
      cl == [client EXCEPT ![c].published = TRUE]
      x  == [call EXCEPT !.opened = @ \cup {c}]
  IN
  /\ call.pc = "handshake"
  /\ \/ /\ c = "remote"
        /\ call' = [x EXCEPT !.pc = "connect", !.client = "art"]
        /\ client' = cl
        /\ UNCHANGED <<home, entry, outcome>>
     \/ c = "remote" /\ CleansUp(Failed(call), cl)
     \/ c = "art" /\ CleansUp(x, cl)

\* Refused, rejected, closed by the television.
OpenFails == call.pc \in {"connect", "handshake"} /\ Abandons(Failed(call))

\* Mutant: the deadline is that of the connection, not of the handshake.
Expires_Connect == call.pc = "connect" /\ Abandons(Expired(call))
\* PAIRING_DEADLINE, which validate_and_pair and open() both set; it ends once,
\* and what it finds in the drain it only changes the exception of.
Expires ==
  \/ call.pc \in {"connect", "handshake"} /\ Abandons(Expired(call))
  \/ call.pc = "abandon" /\ call.error # "expired" /\ Aborts(Expired(call))
  \/ /\ call.pc = "drain" /\ call.error = "cannot_connect"
     /\ call' = Expired(call)
     /\ UNCHANGED <<home, entry, client, outcome>>

\* The websocket that open() abandons closes or fails to, or takes too long.
AbandonCloses ==
  call.pc = "abandon" /\ CleansUp(call, Shut(client, call.client))
AbandonFails == call.pc = "abandon" /\ Aborts(call)

\* The close task has ended, which was cancelled when its websocket was aborted.
Drains == call.pc = "drain" /\ CleansUp(call, client)

\* The cleanup goes on, and the cancellation is raised after it.
CancelledInCleanup(x) == Cancelled(x)

\* Home Assistant cancels the call at whatever it waits for.
Cancel ==
  LET x == Cancelled(call) IN
  \/ call.pc \in {"rest", "context"} /\ Raises(x)
  \/ call.pc \in {"connect", "handshake"} /\ Abandons(x)
  \/ call.pc = "abandon" /\ Aborts(x)
  \/ /\ call.pc \in {"drain", "cleanup"}
     /\ call' = CancelledInCleanup(call)
     /\ UNCHANGED <<home, entry, client, outcome>>
  \* The close task has ended, and open() has not gone on yet.
  \/ call.pc = "drain" /\ CleansUp(Dropped(call), client)

-------------------------------------------------------------------------------
(* The cleanup tasks, and what the flow does with the result *)

\* The websocket closes in time.
CleanupCloses(c) ==
  /\ client[c].cleanup = "closing"
  /\ client' = [Shut(client, c) EXCEPT ![c].cleanup = "done"]
  /\ UNCHANGED <<home, entry, call, outcome>>

\* It does not, or close() raises, and it is aborted.
CleanupAborts(c) ==
  /\ client[c].cleanup = "closing"
  /\ client' = [Shut(client, c) EXCEPT
       ![c].cleanup = IF c = "art" THEN "draining" ELSE "done"]
  /\ UNCHANGED <<home, entry, call, outcome>>

CleanupDrains(c) ==
  /\ client[c].cleanup = "draining"
  /\ client' = [client EXCEPT ![c].cleanup = "done"]
  /\ UNCHANGED <<home, entry, call, outcome>>

\* Mutant: reauthorization writes back the address it has paired at.
Stored_Whole ==
  IF call.kind = "user" /\ entry # None THEN entry ELSE call.host
\* The address in the entry once this television is paired: a user step finds
\* it configured or creates its entry, reauthorization updates the token only.
Stored ==
  CASE call.kind = "user" -> IF entry = None THEN call.host ELSE entry
    [] call.kind = "reauth" -> entry
    [] call.kind = "reconfigure" -> call.host

Returns ==
  /\ call.pc = "cleanup" /\ \A c \in Clients : client[c].cleanup = "done"
  /\ call' = [call EXCEPT !.pc = "form"]
  /\ outcome' = Concluded(call)
  /\ entry' = IF call.error = "none" /\ call.ours THEN Stored ELSE entry
  /\ UNCHANGED <<home, client>>

-------------------------------------------------------------------------------
CleanupStep(c) == CleanupCloses(c) \/ CleanupAborts(c) \/ CleanupDrains(c)

Next ==
  \/ Moves \/ Sighting
  \/ \E kind \in Kinds, host \in Hosts : Submit(kind, host)
  \/ RestAnswers \/ RestFails \/ ContextMade \/ Connected \/ Handshaken
  \/ OpenFails \/ Expires \/ AbandonCloses \/ AbandonFails \/ Drains \/ Cancel
  \/ \E c \in Clients : CleanupStep(c)
  \/ Returns

Spec == Init /\ [][Next]_vars

\* The deadlines expire (the REST timeout, PAIRING_DEADLINE and those of the
\* closes), the executor returns, and a close task that is cancelled ends.
\* Nothing is said of the television.
Fairness ==
  /\ WF_vars(RestFails) /\ WF_vars(ContextMade)
  /\ WF_vars(Expires) /\ WF_vars(AbandonFails) /\ WF_vars(Drains)
  /\ \A c \in Clients : WF_vars(CleanupAborts(c)) /\ WF_vars(CleanupDrains(c))
  /\ WF_vars(Returns)

FairSpec == Spec /\ Fairness

-------------------------------------------------------------------------------
(* What pairing promises *)

TypeOK ==
  /\ home \in Hosts /\ entry \in Hosts \cup {None}
  /\ call \in [pc : {"form", "rest", "context", "connect", "handshake",
                     "abandon", "drain", "cleanup"},
               kind : Kinds, host : Hosts \cup {None}, ours : BOOLEAN,
               client : Clients, error : Errors, cancelled : BOOLEAN,
               dropped : BOOLEAN, opened : SUBSET Clients]
  /\ client \in [Clients -> [socket : {"none", "open", "closed"},
                             published : BOOLEAN,
                             cleanup : {"none", "closing", "draining", "done"}]]
  /\ outcome \in Outcomes

\* "Finish concurrent owned cleanup before propagating caller cancellation":
\* whenever the call returns or raises, wherever it was cancelled or ran out of
\* time, no websocket is open and no cleanup goes on; a call that was cancelled
\* ends cancelled, never paired, unless open() dropped the cancellation at the
\* end of its drain and a failure of its own was under way, which it then raises;
\* and a pairing has passed both handshakes.
EndsClean ==
  call.pc = "form" =>
    /\ \A c \in Clients : /\ client[c].socket # "open"
                          /\ client[c].cleanup \in {"none", "done"}
    /\ call.cancelled =>
         outcome = "cancelled" \/ (call.dropped /\ outcome = "cannot_connect")
    /\ outcome = "paired" => call.opened = Clients

\* A reauthorization does not undo the address that a sighting has repaired
\* while the user was at the television.
RepairKept == [][call.kind = "reauth" /\ entry' # entry => entry' = home]_vars

\* The call ends though the television never answers and no websocket closes.
CallEnds == call.pc # "form" ~> call.pc = "form"
===============================================================================
