------------------------------ MODULE PairingProof ------------------------------
(***************************************************************************)
(* The safety properties of Pairing, for every set of addresses.           *)
(*                                                                         *)
(* A call ends clean because every websocket that is open has an owner at  *)
(* every moment: its client, once open() has published it, or the open()   *)
(* that is under way (Owned).  The cleanup takes over what the clients     *)
(* own, and open() never ends with a websocket it alone knows.             *)
(***************************************************************************)
EXTENDS Pairing, Integers, TLAPS

Calls ==
  [pc : {"form", "rest", "context", "connect", "handshake", "abandon", "drain",
         "cleanup"},
   kind : Kinds, host : Hosts \cup {None}, ours : BOOLEAN, client : Clients,
   error : Errors, cancelled : BOOLEAN, dropped : BOOLEAN, opened : SUBSET Clients]

Client ==
  [socket : {"none", "open", "closed"}, published : BOOLEAN,
   cleanup : {"none", "closing", "draining", "done"}]

\* Who closes a websocket that is open.
Owned ==
  \A c \in Clients : client[c].socket = "open" =>
    \/ call.pc = "cleanup" /\ client[c].cleanup = "closing"
    \/ call.pc \in {"connect", "handshake", "abandon", "drain"} /\ client[c].published
    \/ call.pc \in {"handshake", "abandon"} /\ c = call.client

CleanupIsOfCall ==
  \A c \in Clients : client[c].cleanup \in {"closing", "draining"} => call.pc = "cleanup"

\* A call under way keeps its cancellation, but for one that it has dropped
\* behind a failure of its own, and knows what it has opened.
Sound(x) ==
  /\ x \in Calls
  /\ x.dropped => x.error \in {"cannot_connect", "cancelled"}
  /\ x.cancelled => \/ x.error = "cancelled"
                    \/ x.dropped /\ x.error = "cannot_connect"
  /\ x.client = "art" => "remote" \in x.opened

Concludes ==
  /\ call.pc \in {"rest", "context", "connect", "handshake"} => ~call.cancelled
  /\ call.pc \in {"abandon", "drain"} => call.error # "none"
  /\ call.pc = "cleanup" /\ call.error = "none" => call.opened = Clients
  /\ call.pc \notin {"cleanup", "form"} => ~call.dropped
  /\ call.pc = "form" =>
       /\ call.cancelled => \/ outcome = "cancelled"
                            \/ call.dropped /\ outcome = "cannot_connect"
       /\ outcome = "paired" => call.opened = Clients

IInv == TypeOK /\ Owned /\ CleanupIsOfCall /\ Sound(call) /\ Concludes

LEMMA Types ==
  TypeOK <=> /\ home \in Hosts /\ entry \in Hosts \cup {None}
             /\ call \in Calls /\ client \in [Clients -> Client]
             /\ outcome \in Outcomes
BY DEF TypeOK, Calls, Client

LEMMA TypesNext ==
  TypeOK' <=> /\ home' \in Hosts /\ entry' \in Hosts \cup {None}
              /\ call' \in Calls /\ client' \in [Clients -> Client]
              /\ outcome' \in Outcomes
BY DEF TypeOK, Calls, Client

-------------------------------------------------------------------------------
(* The pieces that actions are made of *)

LEMMA FailedSound ==
  ASSUME NEW x, Sound(x), ~x.cancelled
  PROVE  /\ Sound(Failed(x)) /\ Failed(x).error # "none"
         /\ Failed(x).pc = x.pc /\ Failed(x).client = x.client
         /\ Failed(x).dropped = x.dropped
BY DEF Sound, Failed, Calls, Errors

LEMMA CancelledSound ==
  ASSUME NEW x, Sound(x)
  PROVE  /\ Sound(Cancelled(x)) /\ Cancelled(x).error # "none"
         /\ Cancelled(x).pc = x.pc /\ Cancelled(x).client = x.client
         /\ Cancelled(x).dropped = x.dropped
BY DEF Sound, Cancelled, Calls, Errors

LEMMA ExpiredSound ==
  ASSUME NEW x, Sound(x), ~x.dropped
  PROVE  /\ Sound(Expired(x)) /\ Expired(x).error # "none"
         /\ Expired(x).pc = x.pc /\ Expired(x).client = x.client
         /\ Expired(x).dropped = x.dropped
BY DEF Sound, Expired, Calls, Errors

LEMMA DroppedSound ==
  ASSUME NEW x, Sound(x)
  PROVE  Sound(Dropped(x)) /\ Dropped(x).error # "none"
<1>1. CASE x.error = "cannot_connect"
  BY <1>1 DEF Sound, Dropped, Calls, Errors
<1>2. CASE x.error # "cannot_connect"
  BY <1>2, CancelledSound DEF Dropped
<1> QED
  BY <1>1, <1>2

\* What a call comes to keeps its cancellation, and only success is a pairing.
LEMMA ConcludedSound ==
  ASSUME NEW x, Sound(x)
  PROVE  /\ Concluded(x) \in Outcomes
         /\ Concluded(x) = "paired" => x.error = "none"
         /\ x.cancelled => \/ Concluded(x) = "cancelled"
                           \/ x.dropped /\ Concluded(x) = "cannot_connect"
BY DEF Sound, Concluded, Calls, Errors, Outcomes

LEMMA PcSound ==
  ASSUME NEW x, Sound(x),
         NEW p \in {"form", "rest", "context", "connect", "handshake", "abandon",
                    "drain", "cleanup"}
  PROVE  LET y == [x EXCEPT !.pc = p]
         IN /\ Sound(y)
            /\ y.pc = p /\ y.error = x.error /\ y.client = x.client
            /\ y.cancelled = x.cancelled /\ y.dropped = x.dropped
            /\ y.opened = x.opened
BY DEF Sound, Calls

LEMMA ShutType ==
  ASSUME NEW cl \in [Clients -> Client], NEW c \in Clients
  PROVE  /\ Shut(cl, c) \in [Clients -> Client]
         /\ Shut(cl, c)[c].socket = "closed" /\ ~Shut(cl, c)[c].published
         /\ Shut(cl, c)[c].cleanup = cl[c].cleanup
         /\ \A d \in Clients : d # c => Shut(cl, c)[d] = cl[d]
<1> DEFINE new == [cl[c] EXCEPT !.socket = "closed", !.published = FALSE]
<1>1. cl[c] \in Client
  OBVIOUS
<1>2. new \in Client /\ new.socket = "closed" /\ ~new.published /\ new.cleanup = cl[c].cleanup
  BY <1>1 DEF Client
<1>3. Shut(cl, c) = [cl EXCEPT ![c] = new]
  BY <1>1 DEF Shut, Client
<1> HIDE DEF new
<1> QED
  BY <1>2, <1>3

\* What an exception before the first client leaves behind.
LEMMA RaisesKeeps ==
  ASSUME IInv, NEW x, Sound(x), x.error # "none", call.pc \in {"rest", "context"},
         Raises(x)
  PROVE  IInv'
<1> DEFINE y == [x EXCEPT !.pc = "form"]
<1>1. /\ Sound(y) /\ y.pc = "form"
      /\ y.cancelled = x.cancelled /\ y.dropped = x.dropped
  BY PcSound
<1>2. call' = y /\ outcome' = Concluded(x) /\ UNCHANGED <<home, entry, client>>
  BY DEF Raises
<1>3. /\ Concluded(x) \in Outcomes /\ Concluded(x) # "paired"
      /\ x.cancelled => \/ Concluded(x) = "cancelled"
                        \/ x.dropped /\ Concluded(x) = "cannot_connect"
  BY ConcludedSound
<1> HIDE DEF y
<1>4. TypeOK'
  BY <1>1, <1>2, <1>3, Types, TypesNext DEF IInv, Sound
<1>5. Owned' /\ CleanupIsOfCall'
  BY <1>1, <1>2 DEF IInv, Owned, CleanupIsOfCall
<1>6. Sound(call)' /\ Concludes'
  BY <1>1, <1>2, <1>3 DEF Concludes, Sound
<1> QED
  BY <1>4, <1>5, <1>6 DEF IInv

\* What the finally clause does with websockets that their clients own.
LEMMA CleansUpKeeps ==
  ASSUME IInv, NEW x, Sound(x), x.error = "none" => x.opened = Clients,
         NEW cl \in [Clients -> Client],
         \A c \in Clients : cl[c].socket = "open" => cl[c].published,
         CleansUp(x, cl)
  PROVE  IInv'
<1> DEFINE y == [x EXCEPT !.pc = "cleanup"]
<1> DEFINE new(c) == [cl[c] EXCEPT !.cleanup = IF cl[c].published THEN "closing" ELSE "done"]
<1>1. /\ Sound(y) /\ y.pc = "cleanup" /\ y.error = x.error /\ y.opened = x.opened
  BY PcSound
<1>2. /\ call' = y /\ client' = [c \in Clients |-> new(c)]
      /\ UNCHANGED <<home, entry, outcome>>
  BY DEF CleansUp
<1>3. ASSUME NEW c \in Clients
      PROVE  /\ new(c) \in Client /\ new(c).socket = cl[c].socket
             /\ new(c).socket = "open" => new(c).cleanup = "closing"
  <2>1. cl[c] \in Client
    OBVIOUS
  <2> QED
    BY <2>1 DEF Client
<1> HIDE DEF y, new
<1>4. TypeOK'
  BY <1>1, <1>2, <1>3, Types, TypesNext DEF IInv, Sound
<1>5. Owned' /\ CleanupIsOfCall'
  BY <1>1, <1>2, <1>3 DEF Owned, CleanupIsOfCall
<1>6. Sound(call)' /\ Concludes'
  BY <1>1, <1>2 DEF Concludes, Sound
<1> QED
  BY <1>4, <1>5, <1>6 DEF IInv

\* The call goes on as y, and what is open is owned.
LEMMA GoesOnKeeps ==
  ASSUME IInv, NEW y, Sound(y), ~y.dropped, call' = y, NEW cl \in [Clients -> Client], client' = cl,
         y.pc \in {"connect", "handshake", "abandon", "drain"},
         y.pc \in {"abandon", "drain"} => y.error # "none",
         y.pc \in {"connect", "handshake"} => ~y.cancelled,
         \A c \in Clients : cl[c].cleanup \notin {"closing", "draining"},
         \A c \in Clients : cl[c].socket = "open" =>
           cl[c].published \/ (y.pc \in {"handshake", "abandon"} /\ c = y.client),
         UNCHANGED <<home, entry, outcome>>
  PROVE  IInv'
<1>1. TypeOK'
  BY Types, TypesNext DEF IInv, Sound
<1>2. Owned' /\ CleanupIsOfCall'
  BY DEF Owned, CleanupIsOfCall
<1>3. Sound(call)' /\ Concludes'
  BY DEF Concludes, Sound
<1> QED
  BY <1>1, <1>2, <1>3 DEF IInv

LEMMA AbandonsKeeps ==
  ASSUME IInv, NEW x, Sound(x), ~x.dropped, x.error # "none", x.client = call.client,
         call.pc \in {"connect", "handshake"}, Abandons(x)
  PROVE  IInv'
<1>1. client \in [Clients -> Client] /\ x.client \in Clients
  BY Types DEF IInv, Sound, Calls
<1>2. \A c \in Clients : client[c].cleanup \notin {"closing", "draining"}
  BY DEF IInv, CleanupIsOfCall
<1>3. \A c \in Clients : client[c].socket = "open" =>
        client[c].published \/ c = x.client
  BY DEF IInv, Owned
<1>4. CASE client[x.client].socket = "open"
  <2> DEFINE y == [x EXCEPT !.pc = "abandon"]
  <2>1. /\ Sound(y) /\ y.pc = "abandon" /\ ~y.dropped
        /\ y.error = x.error /\ y.client = x.client
    BY PcSound
  <2>2. call' = y /\ client' = client /\ UNCHANGED <<home, entry, outcome>>
    BY <1>4 DEF Abandons
  <2> HIDE DEF y
  <2> QED
    BY <1>1, <1>2, <1>3, <2>1, <2>2, GoesOnKeeps
<1>5. CASE client[x.client].socket # "open"
  <2>1. CleansUp(x, client)
    BY <1>5 DEF Abandons
  <2>2. \A c \in Clients : client[c].socket = "open" => client[c].published
    BY <1>3, <1>5
  <2> QED
    BY <1>1, <2>1, <2>2, CleansUpKeeps
<1> QED
  BY <1>4, <1>5

LEMMA AbandonedIsShut ==
  ASSUME IInv, call.pc = "abandon"
  PROVE  /\ call.client \in Clients
         /\ Shut(client, call.client) \in [Clients -> Client]
         /\ \A c \in Clients :
              LET new == Shut(client, call.client)[c]
              IN /\ new.cleanup \notin {"closing", "draining"}
                 /\ new.socket = "open" => new.published
<1>1. client \in [Clients -> Client] /\ call.client \in Clients
  BY Types DEF IInv, Sound, Calls
<1>2. \A c \in Clients : client[c].cleanup \notin {"closing", "draining"}
  BY DEF IInv, CleanupIsOfCall
<1>3. \A c \in Clients : client[c].socket = "open" /\ c # call.client => client[c].published
  BY DEF IInv, Owned
<1> QED
  BY <1>1, <1>2, <1>3, ShutType

LEMMA AbortsKeeps ==
  ASSUME IInv, NEW x, Sound(x), ~x.dropped, x.error # "none", x.client = call.client,
         call.pc = "abandon", Aborts(x)
  PROVE  IInv'
<1> DEFINE cl == Shut(client, call.client)
<1>1. /\ cl \in [Clients -> Client]
      /\ \A c \in Clients : /\ cl[c].cleanup \notin {"closing", "draining"}
                            /\ cl[c].socket = "open" => cl[c].published
  BY AbandonedIsShut
<1>2. x.client \in Clients
  BY DEF Sound, Calls
<1>3. CASE x.client = "remote"
  <2>1. CleansUp(x, cl)
    BY <1>3 DEF Aborts
  <2> HIDE DEF cl
  <2> QED
    BY <1>1, <2>1, CleansUpKeeps
<1>4. CASE x.client = "art"
  <2> DEFINE y == [x EXCEPT !.pc = "drain"]
  <2>1. /\ Sound(y) /\ y.pc = "drain" /\ ~y.dropped
        /\ y.error = x.error /\ y.client = x.client
    BY PcSound
  <2>2. call' = y /\ client' = cl /\ UNCHANGED <<home, entry, outcome>>
    BY <1>4 DEF Aborts
  <2> HIDE DEF y, cl
  <2> QED
    BY <1>1, <2>1, <2>2, GoesOnKeeps
<1> QED
  BY <1>2, <1>3, <1>4 DEF Clients

-------------------------------------------------------------------------------
(* Every action *)

LEMMA Initially == Init => IInv
<1> SUFFICES ASSUME Init PROVE IInv
  OBVIOUS
<1>1. NoCall \in Calls /\ NoClient \in Client
  BY DEF NoCall, NoClient, Calls, Client, Kinds, Clients, Errors
<1>2. TypeOK
  BY <1>1, Types DEF Init, Outcomes
<1>3. Owned /\ CleanupIsOfCall
  BY DEF Init, Owned, CleanupIsOfCall, NoClient, NoCall
<1>4. Sound(call) /\ Concludes
  BY <1>1 DEF Init, Sound, Concludes, NoCall
<1> QED
  BY <1>2, <1>3, <1>4 DEF IInv

LEMMA MovesKeep ==
  ASSUME IInv, Moves \/ Sighting
  PROVE  IInv'
<1>1. UNCHANGED <<call, client, outcome>>
  BY DEF Moves, Sighting
<1>2. TypeOK'
  BY <1>1, Types, TypesNext DEF IInv, Moves, Sighting
<1>3. Owned' /\ CleanupIsOfCall' /\ Sound(call)' /\ Concludes'
  BY <1>1 DEF IInv, Owned, CleanupIsOfCall, Sound, Concludes
<1> QED
  BY <1>2, <1>3 DEF IInv

LEMMA SubmitKeeps ==
  ASSUME IInv, NEW kind \in Kinds, NEW host \in Hosts, Submit(kind, host)
  PROVE  IInv'
<1> DEFINE y == [NoCall EXCEPT !.pc = "rest", !.kind = kind, !.host = host]
<1>1. /\ y \in Calls /\ y.pc = "rest" /\ y.client = "remote" /\ ~y.cancelled
      /\ y.error = "none" /\ ~y.dropped
  BY DEF NoCall, Calls, Clients, Errors
<1>2. NoClient \in Client
  BY DEF NoClient, Client
<1>3. /\ call' = y /\ client' = [c \in Clients |-> NoClient] /\ outcome' = "none"
      /\ UNCHANGED <<home, entry>>
  BY DEF Submit
<1> HIDE DEF y
<1>4. TypeOK'
  BY <1>1, <1>2, <1>3, Types, TypesNext DEF IInv, Outcomes
<1>5. Owned' /\ CleanupIsOfCall'
  BY <1>3 DEF Owned, CleanupIsOfCall, NoClient
<1>6. Sound(call)' /\ Concludes'
  BY <1>1, <1>3 DEF Sound, Concludes
<1> QED
  BY <1>4, <1>5, <1>6 DEF IInv

LEMMA RestKeeps ==
  ASSUME IInv, RestAnswers \/ RestFails
  PROVE  IInv'
<1>1. Sound(call) /\ call.pc = "rest" /\ ~call.cancelled /\ ~call.dropped
  BY DEF IInv, Concludes, RestAnswers, RestFails
<1>2. CASE RestFails
  BY <1>1, <1>2, FailedSound, RaisesKeeps DEF RestFails
<1>3. ASSUME NEW x, x = [call EXCEPT !.error = "not_a_frame"], Raises(x)
      PROVE  IInv'
  <2>1. Sound(x) /\ x.error # "none"
    BY <1>1, <1>3 DEF Sound, Calls, Errors
  <2> QED
    BY <1>1, <1>3, <2>1, RaisesKeeps
<1>4. ASSUME NEW y, y = [call EXCEPT !.pc = "context", !.ours = (call.host = home)],
             call' = y, UNCHANGED <<home, entry, client, outcome>>
      PROVE  IInv'
  <2>1. Sound(y) /\ y.pc = "context" /\ ~y.cancelled /\ ~y.dropped
    BY <1>1, <1>4 DEF Sound, Calls
  <2>2. TypeOK'
    BY <1>4, <2>1, Types, TypesNext DEF IInv, Sound
  <2>3. Owned' /\ CleanupIsOfCall'
    BY <1>1, <1>4, <2>1 DEF IInv, Owned, CleanupIsOfCall
  <2>4. Sound(call)' /\ Concludes'
    BY <1>4, <2>1 DEF Sound, Concludes
  <2> QED
    BY <2>2, <2>3, <2>4 DEF IInv
<1> QED
  BY <1>2, <1>3, <1>4 DEF RestAnswers

LEMMA OpeningKeeps ==
  ASSUME IInv, ContextMade \/ Connected
  PROVE  IInv'
<1>1. /\ Sound(call) /\ call.client \in Clients /\ client \in [Clients -> Client]
      /\ ~call.cancelled /\ ~call.dropped
      /\ \A c \in Clients : client[c].cleanup \notin {"closing", "draining"}
  BY Types DEF IInv, CleanupIsOfCall, Concludes, ContextMade, Connected, Sound, Calls
<1>2. CASE ContextMade
  <2> DEFINE y == [call EXCEPT !.pc = "connect"]
  <2>1. Sound(y) /\ y.pc = "connect" /\ ~y.cancelled /\ ~y.dropped
    BY <1>1, PcSound
  <2>2. call' = y /\ UNCHANGED <<home, entry, client, outcome>>
    BY <1>2 DEF ContextMade
  <2>3. \A c \in Clients : client[c].socket # "open"
    BY <1>2 DEF IInv, Owned, ContextMade
  <2> HIDE DEF y
  <2> QED
    BY <1>1, <2>1, <2>2, <2>3, GoesOnKeeps
<1>3. CASE Connected
  <2> DEFINE y == [call EXCEPT !.pc = "handshake"]
             new == [client[call.client] EXCEPT !.socket = "open"]
             cl == [client EXCEPT ![call.client] = new]
  <2>1. /\ Sound(y) /\ y.pc = "handshake" /\ y.client = call.client
        /\ ~y.cancelled /\ ~y.dropped
    BY <1>1, PcSound
  <2>2. call' = y /\ client' = cl /\ UNCHANGED <<home, entry, outcome>>
    BY <1>1, <1>3 DEF Connected, Client
  <2>3. \A c \in Clients : client[c].socket = "open" => client[c].published
    BY <1>3 DEF IInv, Owned, Connected
  <2>4. new \in Client /\ new.cleanup = client[call.client].cleanup
    BY <1>1 DEF Client
  <2> HIDE DEF y, new
  <2>5. /\ cl \in [Clients -> Client]
        /\ \A c \in Clients : /\ cl[c].cleanup \notin {"closing", "draining"}
                              /\ cl[c].socket = "open" => cl[c].published \/ c = y.client
    BY <1>1, <2>1, <2>3, <2>4
  <2> HIDE DEF cl
  <2> QED
    BY <2>1, <2>2, <2>5, GoesOnKeeps
<1> QED
  BY <1>2, <1>3

LEMMA HandshakenKeeps ==
  ASSUME IInv, Handshaken
  PROVE  IInv'
<1> DEFINE c == call.client
           new == [client[c] EXCEPT !.published = TRUE]
           cl == [client EXCEPT ![c] = new]
           x == [call EXCEPT !.opened = @ \cup {c}]
<1>1. /\ Sound(call) /\ call.client \in Clients /\ client \in [Clients -> Client]
      /\ call.pc = "handshake" /\ ~call.cancelled /\ ~call.dropped
      /\ \A d \in Clients : client[d].cleanup \notin {"closing", "draining"}
      /\ \A d \in Clients : client[d].socket = "open" => client[d].published \/ d = c
  BY Types DEF IInv, CleanupIsOfCall, Concludes, Owned, Handshaken, Sound, Calls
<1>2. new \in Client /\ new.cleanup = client[c].cleanup /\ new.published
  <2>1. client[c] \in Client
    BY <1>1
  <2> HIDE DEF c
  <2> QED
    BY <2>1 DEF Client
<1>3. cl = [client EXCEPT ![c].published = TRUE]
  BY <1>1 DEF Client
<1> HIDE DEF new
<1>4. /\ cl \in [Clients -> Client]
      /\ \A d \in Clients : /\ cl[d].cleanup \notin {"closing", "draining"}
                            /\ cl[d].socket = "open" => cl[d].published
  BY <1>1, <1>2
<1>5. /\ Sound(x) /\ c \in x.opened /\ (c = "art" => x.opened = Clients)
      /\ ~x.cancelled /\ ~x.dropped
  BY <1>1 DEF Sound, Calls, Clients
<1>6. ASSUME NEW y, y = [x EXCEPT !.pc = "connect", !.client = "art"], c = "remote",
             call' = y, client' = cl, UNCHANGED <<home, entry, outcome>>
      PROVE  IInv'
  <2> HIDE DEF x
  <2>1. Sound(y) /\ y.pc = "connect" /\ ~y.cancelled /\ ~y.dropped
    BY <1>5, <1>6 DEF Sound, Calls, Clients
  <2> HIDE DEF cl
  <2> QED
    BY <1>4, <1>6, <2>1, GoesOnKeeps
<1>7. ASSUME CleansUp(Failed(call), cl) PROVE IInv'
  <2> HIDE DEF cl
  <2> QED
    BY <1>1, <1>4, <1>7, FailedSound, CleansUpKeeps
<1>8. ASSUME c = "art", CleansUp(x, cl) PROVE IInv'
  <2> HIDE DEF cl, x
  <2> QED
    BY <1>4, <1>5, <1>8, CleansUpKeeps
<1> QED
  BY <1>3, <1>6, <1>7, <1>8 DEF Handshaken

\* What the call does while it drains leaves its clients alone.
LEMMA DrainGoesOnKeeps ==
  ASSUME IInv, NEW x, Sound(x), x.pc = "drain", x.error # "none", ~x.dropped,
         call.pc = "drain", call' = x, UNCHANGED <<home, entry, client, outcome>>
  PROVE  IInv'
<1>1. /\ client \in [Clients -> Client]
      /\ \A c \in Clients : client[c].cleanup \notin {"closing", "draining"}
      /\ \A c \in Clients : client[c].socket = "open" => client[c].published
  BY Types DEF IInv, CleanupIsOfCall, Owned
<1> QED
  BY <1>1, GoesOnKeeps

LEMMA DrainEndsKeeps ==
  ASSUME IInv, call.pc = "drain", NEW x, Sound(x), x.error # "none",
         CleansUp(x, client)
  PROVE  IInv'
<1>1. /\ client \in [Clients -> Client]
      /\ \A c \in Clients : client[c].socket = "open" => client[c].published
  BY Types DEF IInv, Owned
<1> QED
  BY <1>1, CleansUpKeeps

LEMMA EndingKeeps ==
  ASSUME IInv, OpenFails \/ Expires \/ AbandonCloses \/ AbandonFails \/ Drains
  PROVE  IInv'
<1>1. /\ Sound(call)
      /\ call.pc \notin {"cleanup", "form"} => ~call.dropped
      /\ call.pc \in {"abandon", "drain"} => call.error # "none"
  BY DEF IInv, Concludes
<1>2. CASE OpenFails
  <2>1. ~call.cancelled
    BY <1>2 DEF IInv, Concludes, OpenFails
  <2> QED
    BY <1>1, <1>2, <2>1, FailedSound, AbandonsKeeps DEF OpenFails
<1>3. CASE Expires
  <2> DEFINE x == Expired(call)
  <2>1. ~call.dropped
    BY <1>1, <1>3 DEF Expires
  <2>2. /\ Sound(x) /\ x.error # "none" /\ ~x.dropped
        /\ x.pc = call.pc /\ x.client = call.client
    BY <1>1, <2>1, ExpiredSound
  <2> HIDE DEF x
  <2>3. CASE call.pc \in {"connect", "handshake"} /\ Abandons(x)
    BY <2>2, <2>3, AbandonsKeeps
  <2>4. CASE call.pc = "abandon" /\ Aborts(x)
    BY <2>2, <2>4, AbortsKeeps
  <2>5. CASE /\ call.pc = "drain" /\ call' = x
             /\ UNCHANGED <<home, entry, client, outcome>>
    BY <2>2, <2>5, DrainGoesOnKeeps
  <2> QED
    BY <1>3, <2>3, <2>4, <2>5 DEF Expires, x
<1>4. CASE AbandonCloses
  <2> DEFINE cl == Shut(client, call.client)
  <2>1. /\ cl \in [Clients -> Client] /\ CleansUp(call, cl)
        /\ \A c \in Clients : cl[c].socket = "open" => cl[c].published
    BY <1>4, AbandonedIsShut DEF AbandonCloses
  <2> HIDE DEF cl
  <2> QED
    BY <1>1, <1>4, <2>1, CleansUpKeeps DEF AbandonCloses
<1>5. CASE AbandonFails
  BY <1>1, <1>5, AbortsKeeps DEF AbandonFails
<1>6. CASE Drains
  BY <1>1, <1>6, DrainEndsKeeps DEF Drains
<1> QED
  BY <1>2, <1>3, <1>4, <1>5, <1>6

LEMMA CancelKeeps ==
  ASSUME IInv, Cancel
  PROVE  IInv'
<1> DEFINE x == Cancelled(call)
<1>1. /\ Sound(x) /\ x.error # "none" /\ x.pc = call.pc /\ x.client = call.client
      /\ call.pc \notin {"cleanup", "form"} => ~x.dropped
  BY CancelledSound DEF IInv, Concludes
<1> HIDE DEF x
<1>2. CASE call.pc \in {"rest", "context"} /\ Raises(x)
  BY <1>1, <1>2, RaisesKeeps
<1>3. CASE call.pc \in {"connect", "handshake"} /\ Abandons(x)
  BY <1>1, <1>3, AbandonsKeeps
<1>4. CASE call.pc = "abandon" /\ Aborts(x)
  BY <1>1, <1>4, AbortsKeeps
<1>5. CASE /\ call.pc = "drain" /\ call' = x
           /\ UNCHANGED <<home, entry, client, outcome>>
  BY <1>1, <1>5, DrainGoesOnKeeps
<1>6. CASE /\ call.pc = "cleanup" /\ call' = x
           /\ UNCHANGED <<home, entry, client, outcome>>
  <2>1. TypeOK'
    BY <1>1, <1>6, Types, TypesNext DEF IInv, Sound
  <2>2. Owned' /\ CleanupIsOfCall'
    BY <1>1, <1>6 DEF IInv, Owned, CleanupIsOfCall
  <2>3. Sound(call)' /\ Concludes'
    BY <1>1, <1>6 DEF Sound, Concludes
  <2> QED
    BY <2>1, <2>2, <2>3 DEF IInv
<1>7. CASE call.pc = "drain" /\ CleansUp(Dropped(call), client)
  BY <1>7, DroppedSound, DrainEndsKeeps DEF IInv
<1> QED
  BY <1>2, <1>3, <1>4, <1>5, <1>6, <1>7 DEF Cancel, CancelledInCleanup, x

LEMMA CleanupKeeps ==
  ASSUME IInv, NEW c \in Clients, CleanupStep(c)
  PROVE  IInv'
<1>1. client \in [Clients -> Client] /\ UNCHANGED <<home, entry, call, outcome>>
  BY Types DEF IInv, CleanupStep, CleanupCloses, CleanupAborts, CleanupDrains
<1>2. call.pc = "cleanup"
  BY DEF IInv, CleanupIsOfCall, CleanupStep, CleanupCloses, CleanupAborts, CleanupDrains
<1>3. PICK new \in Client :
        /\ client' = [client EXCEPT ![c] = new]
        /\ new.socket = "open" => client[c].socket = "open" /\ client[c].cleanup # "closing"
  <2>1. client[c] \in Client
    BY <1>1
  <2>2. CASE CleanupDrains(c)
    <3> DEFINE new == [client[c] EXCEPT !.cleanup = "done"]
    <3>1. new \in Client /\ new.socket = client[c].socket
      BY <2>1 DEF Client
    <3>2. client' = [client EXCEPT ![c] = new]
      BY <2>2 DEF CleanupDrains
    <3> HIDE DEF new
    <3> QED
      BY <2>2, <3>1, <3>2 DEF CleanupDrains
  <2>3. ASSUME NEW p \in {"draining", "done"},
               client' = [Shut(client, c) EXCEPT ![c].cleanup = p]
        PROVE  \E new \in Client : /\ client' = [client EXCEPT ![c] = new]
                                   /\ new.socket = "closed"
    <3> DEFINE new == [client[c] EXCEPT !.socket = "closed", !.published = FALSE,
                                        !.cleanup = p]
    <3>1. new \in Client /\ new.socket = "closed"
      BY <2>1 DEF Client
    <3>2. client' = [client EXCEPT ![c] = new]
      BY <1>1, <2>1, <2>3 DEF Shut, Client
    <3> HIDE DEF new
    <3> QED
      BY <3>1, <3>2
  <2> QED
    BY <2>2, <2>3 DEF CleanupStep, CleanupCloses, CleanupAborts
<1>4. TypeOK'
  BY <1>1, <1>3, Types, TypesNext DEF IInv
<1>5. Owned' /\ CleanupIsOfCall'
  BY <1>1, <1>2, <1>3 DEF IInv, Owned, CleanupIsOfCall
<1>6. Sound(call)' /\ Concludes'
  BY <1>1 DEF IInv, Concludes
<1> QED
  BY <1>4, <1>5, <1>6 DEF IInv

LEMMA ReturnsKeeps ==
  ASSUME IInv, Returns
  PROVE  IInv'
<1> DEFINE y == [call EXCEPT !.pc = "form"]
<1>1. /\ Sound(y) /\ y.pc = "form" /\ y.error = call.error
      /\ y.cancelled = call.cancelled /\ y.dropped = call.dropped
      /\ y.opened = call.opened
  BY PcSound DEF IInv
<1>2. /\ call' = y /\ outcome' = Concluded(call)
      /\ UNCHANGED <<home, client>>
      /\ call.pc = "cleanup" /\ \A c \in Clients : client[c].cleanup = "done"
  BY DEF Returns
<1>3. entry' \in Hosts \cup {None}
  BY Types DEF IInv, Returns, Stored, Calls, Kinds
<1> HIDE DEF y
<1>4. /\ Concluded(call) \in Outcomes
      /\ Concluded(call) = "paired" => call.error = "none"
      /\ call.cancelled => \/ Concluded(call) = "cancelled"
                           \/ call.dropped /\ Concluded(call) = "cannot_connect"
  BY ConcludedSound DEF IInv
<1>5. TypeOK'
  BY <1>1, <1>2, <1>3, <1>4, Types, TypesNext DEF IInv, Sound
<1>6. Owned' /\ CleanupIsOfCall'
  BY <1>1, <1>2 DEF IInv, Owned, CleanupIsOfCall
<1>7. Sound(call)' /\ Concludes'
  <2>1. call.error = "none" => call.opened = Clients
    BY <1>2 DEF IInv, Concludes
  <2> QED
    BY <1>1, <1>2, <1>4, <2>1 DEF Sound, Concludes
<1> QED
  BY <1>5, <1>6, <1>7 DEF IInv

LEMMA StepKeeps ==
  ASSUME IInv, [Next]_vars
  PROVE  IInv'
<1>1. CASE UNCHANGED vars
  BY <1>1 DEF vars, IInv, TypeOK, Owned, CleanupIsOfCall, Sound, Concludes, Calls
<1>2. CASE Next
  BY <1>2, MovesKeep, SubmitKeeps, RestKeeps, OpeningKeeps, HandshakenKeeps,
     EndingKeeps, CancelKeeps, CleanupKeeps, ReturnsKeeps DEF Next
<1> QED
  BY <1>1, <1>2

LEMMA Inductive == Spec => []IInv
BY Initially, StepKeeps, PTL DEF Spec

-------------------------------------------------------------------------------
\* The call, its clients and the entry keep their types.
THEOREM PairingTypeCorrect == Spec => []TypeOK
<1>1. IInv => TypeOK
  BY DEF IInv
<1> QED
  BY <1>1, Inductive, PTL

\* However a call ends, its websockets are closed and its cleanup is over; a
\* cancelled call ends cancelled, or with the failure of its own that open() was
\* raising when it dropped the cancellation, and a pairing has passed both
\* handshakes.
THEOREM PairingEndsClean == Spec => []EndsClean
<1>1. ASSUME IInv PROVE EndsClean
  <2>1. \A c \in Clients : client[c].cleanup \in {"none", "closing", "draining", "done"}
    BY <1>1, Types DEF IInv, Client
  <2> QED
    BY <1>1, <2>1 DEF IInv, Owned, CleanupIsOfCall, Concludes, EndsClean
<1> QED
  BY <1>1, Inductive, PTL

\* A reauthorization leaves the address in the entry alone, so what moves it
\* meanwhile is a sighting of the television.
THEOREM PairingRepairKept == Spec => RepairKept
<1>1. [Next]_vars => [call.kind = "reauth" /\ entry' # entry => entry' = home]_vars
  <2> SUFFICES ASSUME Next, call.kind = "reauth", entry' # entry PROVE entry' = home
    OBVIOUS
  <2>1. CASE Returns
    BY <2>1 DEF Returns, Stored
  <2>2. CASE Sighting
    BY <2>2 DEF Sighting
  <2>3. CASE Next /\ ~Returns /\ ~Sighting
    BY <2>3 DEF Next, Moves, Submit, RestAnswers, RestFails, ContextMade, Connected,
       Handshaken, OpenFails, Expires, AbandonCloses, AbandonFails, Drains, Cancel,
       CleanupStep, CleanupCloses, CleanupAborts, CleanupDrains, Raises, CleansUp,
       Abandons, Aborts
  <2> QED
    BY <2>1, <2>2, <2>3
<1> QED
  BY <1>1, PTL DEF Spec, RepairKept

-------------------------------------------------------------------------------
(* The work that is left to a call *)

\* Its phases, the last one first, and the cleanup tasks it waits for.
Phase(x) ==
  IF x.pc = "rest" THEN 9 ELSE IF x.pc = "context" THEN 8
  ELSE IF x.pc = "connect" THEN (IF x.client = "remote" THEN 7 ELSE 5)
  ELSE IF x.pc = "handshake" THEN (IF x.client = "remote" THEN 6 ELSE 4)
  ELSE IF x.pc = "abandon" THEN 3 ELSE IF x.pc = "drain" THEN 2
  ELSE IF x.pc = "cleanup" THEN 1 ELSE 0

Cleanup(cl) ==
  IF cl.cleanup = "closing" THEN 2 ELSE IF cl.cleanup = "draining" THEN 1 ELSE 0

Work == 5 * Phase(call) + Cleanup(client["remote"]) + Cleanup(client["art"])

\* A call that has come to its cleanup waits for tasks that were started.
Started == call.pc = "cleanup" => \A c \in Clients : client[c].cleanup # "none"

LEMMA PhaseIsNat == \A x : Phase(x) \in 0..9
BY DEF Phase

LEMMA CleanupIsNat == \A cl : Cleanup(cl) \in 0..2
BY DEF Cleanup

\* An earlier phase outweighs every cleanup.
LEMMA LaterPhase ==
  ASSUME IInv, call.pc # "form", Phase(call') < Phase(call)
  PROVE  Work' < Work
<1>1. Phase(call) \in 0..9 /\ Phase(call') \in 0..9
  BY PhaseIsNat
<1>2. \A c \in Clients : /\ Cleanup(client[c]) \in 0..2
                         /\ Cleanup(client'[c]) \in 0..2
  BY CleanupIsNat
<1> QED
  BY <1>1, <1>2 DEF Work, Clients

\* A call that begins to clean up waits for tasks it starts.
LEMMA CleansUpStarts ==
  ASSUME NEW x \in Calls, NEW cl \in [Clients -> Client], CleansUp(x, cl)
  PROVE  call'.pc = "cleanup" /\ Started'
<1>1. call'.pc = "cleanup"
  BY DEF CleansUp, Calls
<1>2. \A c \in Clients : client'[c].cleanup \in {"closing", "done"}
  BY DEF CleansUp, Client
<1> QED
  BY <1>1, <1>2 DEF Started

\* A call that fails or ends is in a later phase.
LEMMA EndingIsLater ==
  ASSUME IInv, NEW x \in Calls, x.client = call.client,
         \/ call.pc \in {"connect", "handshake"} /\ Abandons(x)
         \/ call.pc = "abandon" /\ Aborts(x)
  PROVE  Phase(call') < Phase(call) /\ Started'
<1>1. client \in [Clients -> Client] /\ call.client \in Clients
  BY Types DEF IInv, Calls
<1>2. \A c \in Clients : Shut(client, c) \in [Clients -> Client]
  BY <1>1 DEF Shut, Client
<1>3. CASE \E cl \in [Clients -> Client] : CleansUp(x, cl)
  <2>1. call'.pc = "cleanup" /\ Started'
    BY <1>3, CleansUpStarts
  <2> QED
    BY <2>1 DEF Phase
<1>4. CASE call' = [x EXCEPT !.pc = "abandon"] /\ call.pc \in {"connect", "handshake"}
  BY <1>4 DEF Phase, Started, Calls
<1>5. CASE call' = [x EXCEPT !.pc = "drain"] /\ call.pc = "abandon"
  BY <1>5 DEF Phase, Started, Calls
<1> QED
  BY <1>1, <1>2, <1>3, <1>4, <1>5 DEF Abandons, Aborts, Clients

\* A step of anyone leaves the work of a call under way, or does some of it.
LEMMA WorkStep ==
  ASSUME IInv, Started, [Next]_vars
  PROVE  /\ Started'
         /\ call.pc # "form" =>
              \/ UNCHANGED client /\ call'.pc = call.pc /\ call'.client = call.client
              \/ Work' < Work
<1>1. /\ client \in [Clients -> Client] /\ call \in Calls
      /\ call.client \in Clients
  BY Types DEF IInv, Calls
<1>2. ASSUME NEW x \in Calls,
             x \in {call, Failed(call), Cancelled(call), Expired(call)},
             \/ call.pc \in {"connect", "handshake"} /\ Abandons(x)
             \/ call.pc = "abandon" /\ Aborts(x)
      PROVE  Started' /\ Work' < Work
  <2>1. x.client = call.client
    BY <1>1, <1>2 DEF Failed, Cancelled, Expired, Calls
  <2> QED
    BY <1>2, <2>1, EndingIsLater, LaterPhase
<1>3. ASSUME NEW x \in Calls, NEW cl \in [Clients -> Client], CleansUp(x, cl),
             call.pc \in {"handshake", "abandon", "drain"}
      PROVE  Started' /\ Work' < Work
  <2>1. call'.pc = "cleanup" /\ Started'
    BY <1>3, CleansUpStarts
  <2>2. Phase(call') < Phase(call)
    BY <1>3, <2>1 DEF Phase
  <2> QED
    BY <1>3, <2>1, <2>2, LaterPhase
<1>4. /\ Failed(call) \in Calls /\ Cancelled(call) \in Calls
      /\ Expired(call) \in Calls /\ Dropped(call) \in Calls
  BY <1>1 DEF Failed, Cancelled, Expired, Dropped, Calls, Errors
<1>5. ASSUME UNCHANGED <<call, client>> PROVE Started'
  BY <1>5 DEF Started
<1>6. CASE Moves \/ Sighting \/ UNCHANGED vars
  BY <1>5, <1>6 DEF Moves, Sighting, vars
<1>7. CASE \E kind \in Kinds, host \in Hosts : Submit(kind, host)
  BY <1>7 DEF Submit, Started, NoCall
<1>8. ASSUME call.pc \in {"rest", "context", "connect"}, call'.pc # "cleanup",
             Phase(call') < Phase(call)
      PROVE  Started' /\ Work' < Work
  BY <1>8, LaterPhase DEF Started
<1>9. CASE RestAnswers \/ RestFails
  <2>1. call.pc = "rest" /\ call'.pc \in {"context", "form"}
    BY <1>1, <1>4, <1>9 DEF RestAnswers, RestFails, Raises, Calls, Errors
  <2> QED
    BY <1>8, <2>1 DEF Phase
<1>10. CASE ContextMade
  <2>1. call.pc = "context" /\ call'.pc = "connect"
    BY <1>1, <1>10 DEF ContextMade, Calls
  <2> QED
    BY <1>8, <2>1 DEF Phase
<1>11. CASE Connected
  <2>1. call.pc = "connect" /\ call'.pc = "handshake" /\ call'.client = call.client
    BY <1>1, <1>11 DEF Connected, Calls
  <2> QED
    BY <1>8, <2>1 DEF Phase
<1>12. CASE Handshaken
  <2> DEFINE cl == [client EXCEPT ![call.client].published = TRUE]
             x == [call EXCEPT !.opened = @ \cup {call.client}]
  <2>1. cl \in [Clients -> Client] /\ x \in Calls
    BY <1>1 DEF Client, Calls
  <2>2. CASE call.client = "remote" /\ call' = [x EXCEPT !.pc = "connect", !.client = "art"]
    <3>1. call.pc = "handshake" /\ call'.pc = "connect" /\ call'.client = "art"
      BY <1>1, <1>12, <2>2 DEF Handshaken, Calls
    <3>2. Phase(call') < Phase(call) /\ Started'
      BY <2>2, <3>1 DEF Phase, Started
    <3> QED
      BY <3>1, <3>2, LaterPhase
  <2>3. CASE CleansUp(Failed(call), cl) \/ CleansUp(x, cl)
    BY <1>3, <1>4, <1>12, <2>1, <2>3 DEF Handshaken
  <2> QED
    BY <1>12, <2>2, <2>3 DEF Handshaken
<1>13. CASE OpenFails \/ Expires \/ AbandonFails
  <2>1. CASE call.pc = "drain" /\ call' = Expired(call) /\ UNCHANGED client
    <3>1. call'.pc = call.pc /\ call'.client = call.client
      BY <1>1, <2>1 DEF Expired, Calls
    <3> QED
      BY <2>1, <3>1 DEF Started
  <2> QED
    BY <1>1, <1>2, <1>4, <1>13, <2>1 DEF OpenFails, Expires, AbandonFails
<1>14. CASE AbandonCloses \/ Drains
  <2>1. Shut(client, call.client) \in [Clients -> Client]
    BY <1>1 DEF Shut, Client
  <2> QED
    BY <1>1, <1>3, <1>14, <2>1 DEF AbandonCloses, Drains
<1>15. CASE Cancel
  <2>1. CASE call.pc \in {"rest", "context"} /\ Raises(Cancelled(call))
    <3>1. call'.pc = "form"
      BY <1>4, <2>1 DEF Raises, Calls
    <3> QED
      BY <2>1, <3>1, LaterPhase DEF Phase, Started
  <2>2. CASE /\ call.pc \in {"drain", "cleanup"}
             /\ call' = CancelledInCleanup(call) /\ UNCHANGED client
    <3>1. call'.pc = call.pc /\ call'.client = call.client
      BY <1>1, <2>2 DEF CancelledInCleanup, Cancelled, Calls
    <3> QED
      BY <2>2, <3>1 DEF Started
  <2>3. CASE call.pc = "drain" /\ CleansUp(Dropped(call), client)
    BY <1>1, <1>3, <1>4, <2>3
  <2> QED
    BY <1>2, <1>4, <1>15, <2>1, <2>2, <2>3 DEF Cancel
<1>16. ASSUME NEW c \in Clients, CleanupStep(c) PROVE Started' /\ Work' < Work
  <2>1. /\ UNCHANGED call
        /\ \A a \in Clients : a # c => client'[a] = client[a]
        /\ \/ client[c].cleanup = "closing" /\ client'[c].cleanup \in {"draining", "done"}
           \/ client[c].cleanup = "draining" /\ client'[c].cleanup = "done"
    BY <1>1, <1>16 DEF CleanupStep, CleanupCloses, CleanupAborts, CleanupDrains,
       Shut, Client
  <2>2. /\ Cleanup(client'[c]) < Cleanup(client[c])
        /\ \A a \in Clients : /\ a # c => Cleanup(client'[a]) = Cleanup(client[a])
                              /\ Cleanup(client[a]) \in 0..2
                              /\ Cleanup(client'[a]) \in 0..2
    <3>1. Cleanup(client'[c]) < Cleanup(client[c])
      BY <2>1 DEF Cleanup
    <3>2. \A a \in Clients : a # c => Cleanup(client'[a]) = Cleanup(client[a])
      BY <2>1
    <3> QED
      BY <3>1, <3>2, CleanupIsNat
  <2>3. Phase(call') = Phase(call) /\ Phase(call) \in 0..9
    BY <2>1, PhaseIsNat
  <2>4. Started'
    BY <2>1 DEF Started
  <2>5. CASE c = "remote"
    BY <2>2, <2>3, <2>4, <2>5 DEF Work, Clients
  <2>6. CASE c = "art"
    BY <2>2, <2>3, <2>4, <2>6 DEF Work, Clients
  <2> QED
    BY <2>5, <2>6 DEF Clients
<1>17. CASE Returns
  <2>1. call.pc = "cleanup" /\ call'.pc = "form"
    BY <1>1, <1>17 DEF Returns, Calls
  <2> QED
    BY <2>1, LaterPhase DEF Phase, Started
<1> QED
  BY <1>6, <1>7, <1>9, <1>10, <1>11, <1>12, <1>13, <1>14, <1>15, <1>16, <1>17
     DEF Next

\* A step leaves the work of a call as it is, or does some of it: only the
\* world that moves and a cancellation during the cleanup do not.
WorkIsBounded ==
  [][call.pc # "form" =>
       \/ UNCHANGED client /\ call'.pc = call.pc /\ call'.client = call.client
       \/ Work' < Work]_vars

LEMMA StartedHolds == Spec => [](IInv /\ Started)
<1>1. Init => Started
  BY DEF Init, NoCall, Started
<1> QED
  BY <1>1, Initially, StepKeeps, WorkStep, PTL DEF Spec

\* The safety half of CallEnds: a call takes a bounded number of steps, however
\* often it is cancelled and whatever else happens meanwhile.
THEOREM PairingWorkIsBounded == Spec => WorkIsBounded
<1>1. ASSUME IInv, Started, [Next]_vars
      PROVE  [call.pc # "form" =>
                \/ UNCHANGED client /\ call'.pc = call.pc /\ call'.client = call.client
                \/ Work' < Work]_vars
  BY <1>1, WorkStep
<1> QED
  BY <1>1, StartedHolds, PTL DEF Spec, WorkIsBounded

\* What a call waits for in its cleanup was started: no client is forgotten.
THEOREM PairingCleanupStarted == Spec => []Started
BY StartedHolds, PTL
===============================================================================
