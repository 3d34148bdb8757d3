--------------------------- MODULE ArtRequestsProof ---------------------------
(***************************************************************************)
(* Theorems about ArtRequests, for any set of operations and any number of *)
(* requests and connections.                                               *)
(***************************************************************************)
EXTENDS ArtRequests, TLAPS

Pcs == {"idle", "queued", "version", "asking", "adding", "download", "cleanup",
        "closing"}
OpState == [pc : Pcs, kind : Kinds, id : Nat, began : Nat,
            cancelled : BOOLEAN, again : BOOLEAN]
Futures == [state : {"none", "open", "answered", "failed"},
            of : Nat, error : BOOLEAN]
Closes == Seq(Ops \cup {Session})

-------------------------------------------------------------------------------
(* The inductive invariant *)

\* An operation that asks, or closes after it asked, holds the operation lock.
HolderInv ==
  \A o \in Ops : op[o].pc \in {"version", "asking", "adding", "closing"} => Holds(o)

\* A close that is under way holds the lifecycle lock.
CloserInv == closing # "none" => lock # <<>>

\* An operation that has not asked yet, or has its answer, awaits nothing.
RestInv ==
  \A o \in Ops : op[o].pc \in {"idle", "queued", "download"} =>
    future[o].state = "none" /\ pending[o] = 0

\* Who still waits is registered, and so can be failed.
OpenInv ==
  \A o \in Ops : Waits(o) /\ future[o].state = "open" => pending[o] # 0

\* An operation asks under ids that were given out to it.
IdInv ==
  \A o \in Ops :
    /\ op[o].pc # "idle" => op[o].id \in 1..requests
    /\ op[o].pc = "version" => op[o].kind = "upload"
    /\ op[o].pc \in {"queued", "version"} /\ op[o].kind = "upload"
         => op[o].id + 1 \in 1..requests

\* Once the receiver is gone, who was answered has resumed, or was cancelled.
GoneInv ==
  receiver \in {"none", "opening"} =>
    \A o \in Ops : Waits(o) /\ future[o].state = "answered" => op[o].cancelled

\* While a handshake goes on no transfer has asked anything yet.
OpeningInv ==
  receiver = "opening" => \A o \in Ops : Live(o) => op[o].began = 0

IInv ==
  /\ TypeOK
  /\ HolderInv /\ CloserInv /\ RestInv /\ OpenInv /\ IdInv /\ GoneInv /\ OpeningInv
  /\ AnswersOwn /\ RegisteredIsCurrent /\ NobodyWaitsInVain
  /\ TransfersOfOneConnection

-------------------------------------------------------------------------------
(* Lemmas about queues and records *)

\* Removing an element leaves a sequence, and its head if that was another.
LEMMA RemovedFacts ==
  ASSUME NEW S, NEW s \in Seq(S), NEW t, NEW a, Removed(t, s, a)
  PROVE  /\ t \in Seq(S)
         /\ s # <<>>
         /\ Head(s) # a => t # <<>> /\ Head(t) = Head(s)
<1>1. PICK i \in DOMAIN s :
        s[i] = a /\ t = SubSeq(s, 1, i-1) \o SubSeq(s, i+1, Len(s))
  BY DEF Removed, RemoveAt
<1>2. i \in 1..Len(s)
  OBVIOUS
<1>3. SubSeq(s, 1, i-1) \in Seq(S) /\ SubSeq(s, i+1, Len(s)) \in Seq(S)
  BY <1>2
<1>4. CASE i = 1
  BY <1>1, <1>2, <1>3, <1>4
<1>5. CASE i > 1
  <2>1. Len(SubSeq(s, 1, i-1)) = i - 1 /\ SubSeq(s, 1, i-1)[1] = s[1]
    BY <1>2, <1>5
  <2>2. t[1] = s[1] /\ Len(t) >= 1
    BY <1>1, <1>2, <1>3, <1>5, <2>1
  <2> QED
    BY <1>1, <1>2, <1>3, <2>2
<1> QED
  BY <1>2, <1>4, <1>5

\* Giving up the operation lock, or a place in its queue, leaves the holder if
\* that is another.
LEMMA UnlocksFacts ==
  ASSUME queue \in Seq(Ops), NEW o \in Ops, Unlocks(o)
  PROVE  /\ queue' \in Seq(Ops)
         /\ queue # <<>> /\ Head(queue) # o
              => queue' # <<>> /\ Head(queue') = Head(queue)
<1>1. CASE Removed(queue', queue, o)
  BY <1>1, RemovedFacts
<1>2. CASE UNCHANGED queue
  BY <1>2
<1> QED
  BY <1>1, <1>2 DEF Unlocks

\* A queue that grows keeps its head.
LEMMA QueueFacts ==
  ASSUME NEW S, NEW s \in Seq(S)
  PROVE  /\ s # <<>> => Tail(s) \in Seq(S)
         /\ \A a \in S : /\ Append(s, a) \in Seq(S) /\ Append(s, a) # <<>>
                         /\ s # <<>> => Head(Append(s, a)) = Head(s)
OBVIOUS

\* What is written of an operation or of what it awaits is typed.
LEMMA RecordFacts ==
  /\ NoOp \in OpState /\ NoOp.pc = "idle"
  /\ NoFuture \in Futures /\ NoFuture.state = "none"
  /\ Awaited \in Futures /\ Awaited.state = "open"
<1>1. NoOp \in OpState /\ NoOp.pc = "idle"
  BY DEF NoOp, OpState, Pcs, Kinds
<1>2. NoFuture \in Futures /\ NoFuture.state = "none"
  BY DEF NoFuture, Futures
<1>3. Awaited \in Futures /\ Awaited.state = "open"
  BY DEF Awaited, NoFuture, Futures
<1> QED
  BY <1>1, <1>2, <1>3

\* The types, with the names of this module.
LEMMA Types ==
  TypeOK <=>
    /\ connection \in Nat /\ generation \in Nat
    /\ receiver \in {"none", "opening", "running", "ending"}
    /\ queue \in Seq(Ops)
    /\ op \in [Ops -> OpState] /\ future \in [Ops -> Futures]
    /\ pending \in [Ops -> Nat] /\ uuidless \in Ops \cup {None}
    /\ requests \in 0..MaxRequests /\ asked \subseteq 1..requests
    /\ lock \in Closes
    /\ closing \in {"none", "transfers", "receiver"}
BY DEF TypeOK, OpState, Futures, Pcs, Closes

-------------------------------------------------------------------------------
(* The pieces of the steps *)

\* When an operation ends and the channel is as it was, the invariant holds on.
LEMMA EndsStep ==
  ASSUME IInv, NEW o \in Ops, Ends(o), UNCHANGED <<channel, requests, asked>>,
         lock' \in Closes, closing' \in {"none", "transfers", "receiver"},
         CloserInv'
  PROVE  IInv'
<1>1. /\ op \in [Ops -> OpState] /\ future \in [Ops -> Futures]
      /\ pending \in [Ops -> Nat] /\ uuidless \in Ops \cup {None}
      /\ queue \in Seq(Ops)
  BY Types DEF IInv
<1>2. /\ queue' \in Seq(Ops)
      /\ queue # <<>> /\ Head(queue) # o
           => queue' # <<>> /\ Head(queue') = Head(queue)
  BY <1>1, UnlocksFacts DEF Ends
<1>3. /\ op' \in [Ops -> OpState] /\ future' \in [Ops -> Futures]
      /\ pending' \in [Ops -> Nat] /\ uuidless' \in Ops \cup {None}
  BY <1>1, RecordFacts DEF Ends, Forgets
<1>4. TypeOK'
  BY <1>2, <1>3, Types DEF IInv, TypeOK, channel, Closes, OpState, Futures, Pcs
<1>5. /\ op'[o] = NoOp /\ future'[o] = NoFuture /\ pending'[o] = 0
      /\ \A a \in Ops : a # o =>
           op'[a] = op[a] /\ future'[a] = future[a] /\ pending'[a] = pending[a]
      /\ uuidless' = IF uuidless = o THEN None ELSE uuidless
  BY <1>1 DEF Ends, Forgets
<1>6. HolderInv'
  BY <1>2, <1>5, RecordFacts DEF IInv, HolderInv, Holds
<1>7. RestInv' /\ OpenInv' /\ IdInv' /\ GoneInv' /\ NobodyWaitsInVain'
  BY <1>5, RecordFacts
     DEF IInv, RestInv, OpenInv, IdInv, GoneInv, NobodyWaitsInVain, Waits, channel
<1>8. AnswersOwn' /\ TransfersOfOneConnection' /\ OpeningInv'
  BY <1>5, RecordFacts
     DEF IInv, AnswersOwn, TransfersOfOneConnection, OpeningInv, Live, channel
<1>9. RegisteredIsCurrent'
  BY <1>1, <1>2, <1>5, NamesAssumption DEF IInv, RegisteredIsCurrent, Holds
<1> QED
  BY <1>4, <1>6, <1>7, <1>8, <1>9 DEF IInv

\* When the holder of the operation lock asks, under an id of its own and with
\* a receiver to hear the answer, the invariant holds on.
LEMMA RegistersStep ==
  ASSUME IInv, NEW o \in Ops, Holds(o),
         NEW pc \in {"version", "asking", "adding"}, NEW id \in 1..requests,
         NEW slot \in BOOLEAN, Registers(o, pc, id, slot),
         op[o].pc # "idle",
         pc = "version" => op[o].kind = "upload" /\ id + 1 \in 1..requests,
         receiver \in {"running", "ending"}, asked' \subseteq 1..requests,
         UNCHANGED <<channel, requests, lock, closing>>
  PROVE  IInv'
<1>1. /\ op \in [Ops -> OpState] /\ future \in [Ops -> Futures]
      /\ pending \in [Ops -> Nat] /\ uuidless \in Ops \cup {None}
      /\ queue \in Seq(Ops) /\ requests \in 0..MaxRequests /\ connection \in Nat
  BY Types DEF IInv
<1> DEFINE began == IF op[o].began = 0 THEN connection ELSE op[o].began
           asks == [[[op[o] EXCEPT !.pc = pc] EXCEPT !.id = id]
                      EXCEPT !.began = began]
<1>2. asks \in OpState
  <2>1. pc \in Pcs /\ id \in Nat /\ began \in Nat /\ op[o] \in OpState
    BY <1>1 DEF Pcs, OpState
  <2> QED
    BY <2>1 DEF OpState
<1>3. /\ op' \in [Ops -> OpState] /\ future' \in [Ops -> Futures]
      /\ pending' \in [Ops -> Nat] /\ uuidless' \in Ops \cup {None}
  <2>1. op' = [op EXCEPT ![o] = asks]
    BY <1>1 DEF Registers
  <2> HIDE DEF asks
  <2>2. op' \in [Ops -> OpState]
    BY <1>1, <1>2, <2>1
  <2>3. future' \in [Ops -> Futures] /\ uuidless' \in Ops \cup {None}
    BY <1>1, RecordFacts DEF Registers
  <2>4. pending' \in [Ops -> Nat]
    BY <1>1 DEF Registers
  <2> QED
    BY <2>2, <2>3, <2>4
<1>4. TypeOK'
  BY <1>1, <1>3, Types
     DEF IInv, TypeOK, Registers, channel, Closes, OpState, Futures, Pcs
<1>5. /\ op'[o].pc = pc /\ op'[o].id = id /\ op'[o].kind = op[o].kind
      /\ op'[o].began = began
      /\ future'[o] = Awaited /\ pending'[o] = id
      /\ \A a \in Ops : a # o =>
           op'[a] = op[a] /\ future'[a] = future[a] /\ pending'[a] = pending[a]
      /\ uuidless' \in {o, None, uuidless}
      /\ queue' = queue
  BY <1>1 DEF Registers, OpState
<1>6. HolderInv' /\ CloserInv'
  BY <1>5 DEF IInv, HolderInv, CloserInv, Holds
<1>7. RestInv' /\ OpenInv'
  <2>1. op'[o].pc \notin {"idle", "queued", "download"} /\ pending'[o] # 0
    BY <1>1, <1>5, RequestAssumption
  <2>2. RestInv'
    BY <1>5, <2>1 DEF IInv, RestInv
  <2>3. OpenInv'
    BY <1>5, <2>1 DEF IInv, OpenInv, Waits
  <2> QED
    BY <2>2, <2>3
<1>8. IdInv' /\ GoneInv' /\ NobodyWaitsInVain'
  BY <1>1, <1>5 DEF IInv, IdInv, GoneInv, NobodyWaitsInVain, channel
<1>9. AnswersOwn' /\ TransfersOfOneConnection' /\ OpeningInv'
  BY <1>5, RecordFacts
     DEF IInv, AnswersOwn, TransfersOfOneConnection, OpeningInv, Live, channel
<1>10. RegisteredIsCurrent'
  BY <1>1, <1>5, NamesAssumption DEF IInv, RegisteredIsCurrent, Holds
<1> QED
  BY <1>4, <1>6, <1>7, <1>8, <1>9, <1>10 DEF IInv

\* Failing the waiters changes no future but those that are open.
LEMMA FailedFacts ==
  ASSUME IInv
  PROVE  /\ Failed \in [Ops -> Futures]
         /\ \A o \in Ops :
              /\ Failed[o].state # "open" => Failed[o].state = future[o].state
                                             \/ Failed[o].state = "failed"
              /\ Failed[o].of = future[o].of
              /\ Failed[o].state = "answered" => future[o].state = "answered"
              /\ future[o].state = "none" => Failed[o].state = "none"
              /\ Waits(o) => Failed[o].state # "open"
<1>1. future \in [Ops -> Futures]
  BY Types DEF IInv
<1>2. \A r \in Futures : [r EXCEPT !.state = "failed"] \in Futures
  BY DEF Futures
<1>3. Failed \in [Ops -> Futures]
  BY <1>1, <1>2 DEF Failed
<1> QED
  BY <1>1, <1>3 DEF Failed, Futures, IInv, OpenInv

-------------------------------------------------------------------------------
(* The steps *)

LEMMA InitIInv == Init => IInv
<1> SUFFICES ASSUME Init PROVE IInv
  OBVIOUS
<1>1. /\ \A o \in Ops : op[o] = NoOp /\ future[o] = NoFuture /\ pending[o] = 0
      /\ op \in [Ops -> OpState] /\ future \in [Ops -> Futures]
  BY RecordFacts DEF Init
<1>2. TypeOK
  BY <1>1, Types, RequestAssumption DEF Init, Closes
<1>3. HolderInv /\ CloserInv /\ RestInv /\ OpenInv
  BY <1>1, RecordFacts DEF Init, HolderInv, CloserInv, RestInv, OpenInv, Waits
<1>4. IdInv /\ GoneInv /\ AnswersOwn /\ NobodyWaitsInVain
      /\ TransfersOfOneConnection /\ OpeningInv
  BY <1>1, RecordFacts
     DEF IdInv, GoneInv, AnswersOwn, NobodyWaitsInVain, Waits,
         TransfersOfOneConnection, OpeningInv, Live
<1>5. RegisteredIsCurrent
  BY <1>1 DEF Init, RegisteredIsCurrent
<1> QED
  BY <1>2, <1>3, <1>4, <1>5 DEF IInv

LEMMA BeginStep ==
  ASSUME IInv, NEW o \in Ops, NEW kind \in Kinds, Begin(o, kind)
  PROVE  IInv'
<1>1. /\ op \in [Ops -> OpState] /\ future \in [Ops -> Futures]
      /\ pending \in [Ops -> Nat] /\ queue \in Seq(Ops)
      /\ requests \in 0..MaxRequests /\ asked \subseteq 1..requests
      /\ connection \in Nat
  BY Types DEF IInv
<1>2. \/ requests' = requests + 2 /\ requests' <= MaxRequests
      \/ /\ requests' = requests + 1 /\ requests' <= MaxRequests
         /\ kind # "upload"
  BY DEF Begin
<1> DEFINE new == [NoOp EXCEPT !.pc = "queued", !.kind = kind,
                               !.id = requests + 1]
<1>3. /\ new \in OpState /\ new.pc = "queued" /\ new.kind = kind
      /\ new.id = requests + 1 /\ new.began = 0
  <2>1. requests + 1 \in Nat /\ "queued" \in Pcs
    BY <1>1, RequestAssumption DEF Pcs
  <2>2. \A r \in OpState :
          /\ [r EXCEPT !.pc = "queued", !.kind = kind,
                       !.id = requests + 1] \in OpState
          /\ [r EXCEPT !.pc = "queued", !.kind = kind,
                       !.id = requests + 1].pc = "queued"
          /\ [r EXCEPT !.pc = "queued", !.kind = kind,
                       !.id = requests + 1].kind = kind
          /\ [r EXCEPT !.pc = "queued", !.kind = kind,
                       !.id = requests + 1].id = requests + 1
          /\ [r EXCEPT !.pc = "queued", !.kind = kind,
                       !.id = requests + 1].began = r.began
    BY <1>1, <2>1 DEF OpState
  <2>3. NoOp.began = 0
    BY DEF NoOp
  <2> QED
    BY <2>2, <2>3, RecordFacts
<1>4. /\ op' = [op EXCEPT ![o] = new] /\ op[o].pc = "idle"
      /\ queue' = Append(queue, o)
      /\ UNCHANGED <<channel, future, pending, uuidless, asked, lock, closing>>
  BY DEF Begin
<1> HIDE DEF new
<1>5. op' \in [Ops -> OpState] /\ op'[o] = new
      /\ \A a \in Ops : a # o => op'[a] = op[a]
  BY <1>1, <1>3, <1>4
<1>6. queue' \in Seq(Ops) /\ queue' # <<>>
      /\ (queue # <<>> => Head(queue') = Head(queue))
  BY <1>1, <1>4, QueueFacts
<1>7. requests' \in 0..MaxRequests /\ 1..requests \subseteq 1..requests'
      /\ requests + 1 \in 1..requests' /\ requests + 1 # 0
      /\ (kind = "upload" => requests + 1 + 1 \in 1..requests')
  <2>1. requests \in Nat /\ MaxRequests \in Nat
    BY <1>1, RequestAssumption
  <2>2. /\ requests' \in Nat /\ requests' <= MaxRequests
        /\ requests' >= requests + 1
        /\ kind = "upload" => requests' = requests + 2
    BY <1>2, <2>1
  <2>3. requests' \in 0..MaxRequests /\ requests + 1 \in 1..requests'
    BY <2>1, <2>2
  <2>4. 1..requests \subseteq 1..requests' /\ requests + 1 # 0
    BY <2>1, <2>2
  <2>5. kind = "upload" => requests + 1 + 1 \in 1..requests'
    BY <2>1, <2>2
  <2> QED
    BY <2>3, <2>4, <2>5
<1>8. TypeOK'
  BY <1>1, <1>4, <1>5, <1>6, <1>7, Types
     DEF IInv, TypeOK, channel, Closes, OpState, Futures, Pcs
<1>9. future[o].state = "none" /\ pending[o] = 0
  BY <1>4 DEF IInv, RestInv
<1>10. HolderInv' /\ CloserInv'
  BY <1>3, <1>4, <1>5, <1>6 DEF IInv, HolderInv, CloserInv, Holds
<1>11. RestInv' /\ OpenInv'
  BY <1>3, <1>4, <1>5, <1>9 DEF IInv, RestInv, OpenInv, Waits
<1>12. IdInv'
  BY <1>3, <1>5, <1>7 DEF IInv, IdInv
<1>13. GoneInv' /\ NobodyWaitsInVain' /\ AnswersOwn'
  BY <1>3, <1>4, <1>5, <1>9
     DEF IInv, GoneInv, NobodyWaitsInVain, AnswersOwn, Waits, channel
<1>14. TransfersOfOneConnection' /\ OpeningInv'
  BY <1>3, <1>4, <1>5 DEF IInv, TransfersOfOneConnection, OpeningInv, Live, channel
<1>15. RegisteredIsCurrent'
  BY <1>4, <1>5, <1>6, <1>9 DEF IInv, RegisteredIsCurrent, Holds
<1> QED
  BY <1>8, <1>10, <1>11, <1>12, <1>13, <1>14, <1>15 DEF IInv

LEMMA TakeStep ==
  ASSUME IInv, NEW o \in Ops, Take(o)
  PROVE  IInv'
<1>1. /\ requests \in 0..MaxRequests /\ asked \subseteq 1..requests
      /\ lock \in Closes /\ closing \in {"none", "transfers", "receiver"}
      /\ CloserInv
  BY Types DEF IInv
<1>2. CASE Ends(o) /\ UNCHANGED asked
  BY <1>1, <1>2, EndsStep DEF Take, CloserInv
<1>3. ASSUME Alive,
             Registers(o, IF op[o].kind = "upload" THEN "version" ELSE "asking",
                       op[o].id, op[o].kind = "event"),
             asked' = asked \cup {op[o].id}
      PROVE  IInv'
  <2>1. op[o].pc = "queued" /\ op[o].id \in 1..requests
        /\ (op[o].kind = "upload" => op[o].id + 1 \in 1..requests)
    BY DEF Take, IInv, IdInv
  <2>2. asked' \subseteq 1..requests
    BY <1>1, <1>3, <2>1
  <2>3. CASE op[o].kind = "upload"
    <3>1. Registers(o, "version", op[o].id, op[o].kind = "event")
      BY <1>3, <2>3
    <3> QED
      BY <1>3, <2>1, <2>2, <2>3, <3>1, RegistersStep DEF Take, Alive
  <2>4. CASE op[o].kind # "upload"
    <3>1. Registers(o, "asking", op[o].id, op[o].kind = "event")
      BY <1>3, <2>4
    <3> QED
      BY <1>3, <2>1, <2>2, <3>1, RegistersStep DEF Take, Alive
  <2> QED
    BY <2>3, <2>4
<1> QED
  BY <1>2, <1>3 DEF Take

\* Who was answered and goes on is heard: the receiver is still there, and the
\* operation lock is held.
LEMMA AnsweredFacts ==
  ASSUME IInv, NEW o \in Ops, Answered(o)
  PROVE  receiver \in {"running", "ending"} /\ Holds(o) /\ op[o].pc # "idle"
BY Types DEF Answered, Waits, IInv, GoneInv, HolderInv

LEMMA SendsImageStep ==
  ASSUME IInv, NEW o \in Ops, SendsImage(o)
  PROVE  IInv'
<1>1. /\ requests \in 0..MaxRequests /\ asked \subseteq 1..requests
      /\ lock \in Closes /\ closing \in {"none", "transfers", "receiver"}
      /\ CloserInv
  BY Types DEF IInv
<1>2. CASE Ends(o) /\ UNCHANGED asked
  BY <1>1, <1>2, EndsStep DEF SendsImage, CloserInv
<1>3. ASSUME asked' = asked \cup {op[o].id + 1},
             NEW pc \in {"asking", "adding"}, NEW slot \in BOOLEAN,
             Registers(o, pc, op[o].id + 1, slot)
      PROVE  IInv'
  <2>1. op[o].id + 1 \in 1..requests
    BY DEF SendsImage, IInv, IdInv
  <2>2. asked' \subseteq 1..requests
    BY <1>1, <1>3, <2>1
  <2> QED
    BY <1>3, <2>1, <2>2, AnsweredFacts, RegistersStep DEF SendsImage
<1> QED
  BY <1>2, <1>3 DEF SendsImage

LEMMA StreamsImageStep ==
  ASSUME IInv, NEW o \in Ops, StreamsImage(o)
  PROVE  IInv'
<1>1. asked \subseteq 1..requests
  BY Types DEF IInv
<1>2. op[o].id \in 1..requests
  BY AnsweredFacts DEF StreamsImage, IInv, IdInv
<1> QED
  BY <1>1, <1>2, AnsweredFacts, RegistersStep DEF StreamsImage

LEMMA DownloadsStep ==
  ASSUME IInv, NEW o \in Ops, Downloads(o)
  PROVE  IInv'
<1>1. /\ op \in [Ops -> OpState] /\ future \in [Ops -> Futures]
      /\ pending \in [Ops -> Nat] /\ uuidless \in Ops \cup {None}
      /\ queue \in Seq(Ops)
  BY Types DEF IInv
<1>2. /\ queue' \in Seq(Ops)
      /\ queue # <<>> /\ Head(queue) # o
           => queue' # <<>> /\ Head(queue') = Head(queue)
  BY <1>1, UnlocksFacts DEF Downloads
<1>3. /\ op' \in [Ops -> OpState] /\ future' \in [Ops -> Futures]
      /\ pending' \in [Ops -> Nat] /\ uuidless' \in Ops \cup {None}
  <2>1. \A r \in OpState : [r EXCEPT !.pc = "download"] \in OpState
    BY DEF OpState, Pcs
  <2> QED
    BY <1>1, <2>1, RecordFacts DEF Downloads, Forgets
<1>4. TypeOK'
  BY <1>2, <1>3, Types
     DEF IInv, Downloads, TypeOK, channel, Closes, OpState, Futures, Pcs
<1>5. /\ op'[o].pc = "download" /\ op'[o].id = op[o].id
      /\ op'[o].kind = op[o].kind /\ op'[o].began = op[o].began
      /\ future'[o] = NoFuture /\ pending'[o] = 0
      /\ \A a \in Ops : a # o =>
           op'[a] = op[a] /\ future'[a] = future[a] /\ pending'[a] = pending[a]
      /\ uuidless' = IF uuidless = o THEN None ELSE uuidless
      /\ UNCHANGED <<channel, requests, asked, lock, closing>>
  BY <1>1 DEF Downloads, Forgets, OpState
<1>6. op[o].pc # "idle"
  BY AnsweredFacts DEF Downloads
<1>7. HolderInv' /\ CloserInv'
  BY <1>2, <1>5 DEF IInv, HolderInv, CloserInv, Holds
<1>8. RestInv' /\ OpenInv' /\ GoneInv' /\ NobodyWaitsInVain'
  BY <1>5, RecordFacts
     DEF IInv, RestInv, OpenInv, GoneInv, NobodyWaitsInVain, Waits, channel
<1>9. IdInv' /\ AnswersOwn' /\ TransfersOfOneConnection' /\ OpeningInv'
  BY <1>5, <1>6, RecordFacts
     DEF IInv, IdInv, AnswersOwn, TransfersOfOneConnection, OpeningInv, Live, channel
<1>10. RegisteredIsCurrent'
  BY <1>1, <1>2, <1>5, NamesAssumption DEF IInv, RegisteredIsCurrent, Holds
<1> QED
  BY <1>4, <1>7, <1>8, <1>9, <1>10 DEF IInv

LEMMA EndingSteps ==
  ASSUME IInv, NEW o \in Ops, Concludes(o) \/ SendFails(o) \/ StreamEnds(o)
  PROVE  IInv'
<1>1. lock \in Closes /\ closing \in {"none", "transfers", "receiver"}
      /\ CloserInv
  BY Types DEF IInv
<1>2. Ends(o) /\ UNCHANGED <<channel, requests, asked, lock, closing>>
  BY DEF Concludes, SendFails, StreamEnds
<1> QED
  BY <1>1, <1>2, EndsStep DEF CloserInv

\* When one operation waits no longer but ends later, holding the operation
\* lock if it closes, the invariant holds on.
LEMMA LeavesStep ==
  ASSUME IInv, NEW o \in Ops, NEW pc \in {"closing", "cleanup"}, op[o].pc # "idle",
         pc = "closing" => Holds(o),
         NEW again \in BOOLEAN, NEW new \in Futures, new.state \in {"none", "failed"},
         op' = [op EXCEPT ![o].pc = pc, ![o].again = again],
         future' = [future EXCEPT ![o] = new],
         \/ UNCHANGED <<pending, uuidless>>
         \/ /\ pending' = [pending EXCEPT ![o] = 0]
            /\ uuidless' = IF uuidless = o THEN None ELSE uuidless,
         lock' \in Closes, lock # <<>> => lock' # <<>>,
         UNCHANGED <<queue, channel, requests, asked, closing>>
  PROVE  IInv'
<1>1. /\ op \in [Ops -> OpState] /\ future \in [Ops -> Futures]
      /\ pending \in [Ops -> Nat] /\ uuidless \in Ops \cup {None}
      /\ queue \in Seq(Ops)
  BY Types DEF IInv
<1>2. /\ op' \in [Ops -> OpState] /\ future' \in [Ops -> Futures]
      /\ pending' \in [Ops -> Nat] /\ uuidless' \in Ops \cup {None}
  <2>1. \A r \in OpState : [[r EXCEPT !.pc = pc] EXCEPT !.again = again] \in OpState
    BY DEF OpState, Pcs
  <2> DEFINE left == [[op[o] EXCEPT !.pc = pc] EXCEPT !.again = again]
  <2>2. op' = [op EXCEPT ![o] = left] /\ left \in OpState
    BY <1>1, <2>1
  <2> HIDE DEF left
  <2>3. op' \in [Ops -> OpState]
    BY <1>1, <2>2
  <2>4. future' \in [Ops -> Futures]
    BY <1>1
  <2>5. pending' \in [Ops -> Nat] /\ uuidless' \in Ops \cup {None}
    BY <1>1
  <2> QED
    BY <2>3, <2>4, <2>5
<1>3. TypeOK'
  BY <1>2, Types DEF IInv, TypeOK, channel, Closes, OpState, Futures, Pcs
<1>4. /\ op'[o].pc = pc /\ op'[o].id = op[o].id
      /\ op'[o].kind = op[o].kind /\ op'[o].began = op[o].began
      /\ future'[o].state \in {"none", "failed"}
      /\ \A a \in Ops : a # o =>
           op'[a] = op[a] /\ future'[a] = future[a] /\ pending'[a] = pending[a]
      /\ pending'[o] \in {0, pending[o]} /\ uuidless' \in {None, uuidless}
      /\ uuidless' = o => pending'[o] = pending[o]
  BY <1>1, NamesAssumption DEF OpState
<1>5. HolderInv' /\ CloserInv'
  BY <1>4 DEF IInv, HolderInv, CloserInv, Holds
<1>6. RestInv' /\ OpenInv' /\ GoneInv' /\ NobodyWaitsInVain'
  <2>1. op'[o].pc \notin {"idle", "queued", "version", "asking", "adding", "download"}
    BY <1>4
  <2>2. RestInv'
    BY <1>4, <2>1 DEF IInv, RestInv
  <2>3. OpenInv'
    BY <1>4, <2>1 DEF IInv, OpenInv, Waits
  <2>4. GoneInv' /\ NobodyWaitsInVain'
    BY <1>4, <2>1 DEF IInv, GoneInv, NobodyWaitsInVain, Waits, channel
  <2> QED
    BY <2>2, <2>3, <2>4
<1>7. IdInv' /\ AnswersOwn'
  BY <1>4 DEF IInv, IdInv, AnswersOwn, channel
<1>8. TransfersOfOneConnection' /\ OpeningInv'
  <2>1. \A a \in Ops : /\ Live(a)' => Live(a)
                       /\ op'[a].began = op[a].began
    BY <1>4 DEF Live
  <2> QED
    BY <2>1 DEF IInv, TransfersOfOneConnection, OpeningInv, channel
<1>9. RegisteredIsCurrent'
  BY <1>1, <1>4, NamesAssumption DEF IInv, RegisteredIsCurrent, Holds
<1> QED
  BY <1>3, <1>5, <1>6, <1>7, <1>8, <1>9 DEF IInv

\* When operations are cancelled, the invariant holds on.
LEMMA MarkedStep ==
  ASSUME IInv, op' \in [Ops -> OpState],
         \A a \in Ops : /\ op'[a].pc = op[a].pc /\ op'[a].id = op[a].id
                        /\ op'[a].kind = op[a].kind /\ op'[a].began = op[a].began
                        /\ op[a].cancelled => op'[a].cancelled,
         UNCHANGED <<channel, future, pending, uuidless, queue, requests, asked,
                     lock>>,
         closing' \in {"none", "transfers", "receiver"}, lock # <<>>
           \/ closing' = closing
  PROVE  IInv'
<1>1. TypeOK'
  BY Types DEF IInv, TypeOK, channel, Closes, OpState, Futures, Pcs
<1>2. HolderInv' /\ CloserInv'
  BY DEF IInv, HolderInv, CloserInv, Holds
<1>3. RestInv' /\ OpenInv' /\ IdInv'
  BY DEF IInv, RestInv, OpenInv, IdInv, Waits
<1>4. GoneInv'
  <2>1. SUFFICES ASSUME receiver \in {"none", "opening"}, NEW a \in Ops, Waits(a)',
                        future[a].state = "answered"
                 PROVE  op'[a].cancelled
    BY DEF GoneInv, channel
  <2>2. Waits(a)
    BY <2>1 DEF Waits
  <2>3. op[a].cancelled
    BY <2>1, <2>2 DEF IInv, GoneInv
  <2> QED
    BY <2>3
<1>5. NobodyWaitsInVain' /\ AnswersOwn' /\ TransfersOfOneConnection' /\ OpeningInv'
  BY DEF IInv, NobodyWaitsInVain, AnswersOwn, TransfersOfOneConnection,
         OpeningInv, Live, Waits, channel
<1>6. RegisteredIsCurrent'
  BY DEF IInv, RegisteredIsCurrent, Holds
<1> QED
  BY <1>1, <1>2, <1>3, <1>4, <1>5, <1>6 DEF IInv

LEMMA TimesOutStep ==
  ASSUME IInv, NEW o \in Ops, TimesOut(o)
  PROVE  IInv'
<1>1. /\ op \in [Ops -> OpState] /\ future \in [Ops -> Futures]
      /\ lock \in Closes /\ closing \in {"none", "transfers", "receiver"}
      /\ CloserInv
  BY Types DEF IInv
<1>2. op[o].pc # "idle" /\ Holds(o) /\ op[o].again \in BOOLEAN
  BY <1>1 DEF TimesOut, Waits, IInv, HolderInv, OpState
<1>3. Append(lock, o) \in Closes /\ Append(lock, o) # <<>>
  BY <1>1 DEF Closes
<1>4. CASE Ends(o) /\ UNCHANGED lock
  BY <1>1, <1>4, EndsStep DEF TimesOut, CloserInv
<1>5. ASSUME op' = [op EXCEPT ![o].pc = "closing",
                              ![o].again = op[o].kind = "upload"],
             future' = [future EXCEPT ![o].state = "failed"],
             lock' = Append(lock, o), UNCHANGED <<pending, uuidless, queue>>
      PROVE  IInv'
  <2> DEFINE failed == [future[o] EXCEPT !.state = "failed"]
             again == op[o].kind = "upload"
  <2>1. failed \in Futures /\ failed.state = "failed"
    BY <1>1 DEF Futures
  <2>2. future' = [future EXCEPT ![o] = failed]
    BY <1>1, <1>5
  <2>3. again \in BOOLEAN /\ op' = [op EXCEPT ![o].pc = "closing",
                                               ![o].again = again]
    BY <1>5
  <2>4. UNCHANGED <<queue, channel, requests, asked, closing>>
    BY <1>5 DEF TimesOut
  <2>5. lock' \in Closes /\ lock' # <<>> /\ UNCHANGED <<pending, uuidless>>
    BY <1>3, <1>5
  <2> HIDE DEF failed, again
  <2> QED
    BY <1>2, <2>1, <2>2, <2>3, <2>4, <2>5, LeavesStep
<1>6. ASSUME op' = [op EXCEPT ![o].pc = "closing"], Forgets(o),
             lock' = Append(lock, o), UNCHANGED queue
      PROVE  IInv'
  <2> DEFINE again == op[o].again
  <2>1. op' = [op EXCEPT ![o].pc = "closing", ![o].again = again]
    BY <1>1, <1>6 DEF OpState
  <2>2. /\ future' = [future EXCEPT ![o] = NoFuture]
        /\ pending' = [pending EXCEPT ![o] = 0]
        /\ uuidless' = IF uuidless = o THEN None ELSE uuidless
    BY <1>6 DEF Forgets
  <2>3. UNCHANGED <<queue, channel, requests, asked, closing>>
    BY <1>6 DEF TimesOut
  <2>4. again \in BOOLEAN
    BY <1>2
  <2> HIDE DEF again
  <2> QED
    BY <1>2, <1>3, <1>6, <2>1, <2>2, <2>3, <2>4, RecordFacts, LeavesStep
<1> QED
  BY <1>4, <1>5, <1>6 DEF TimesOut

LEMMA CancelStep ==
  ASSUME IInv, NEW o \in Ops, Cancel(o)
  PROVE  IInv'
<1>1. op \in [Ops -> OpState]
  BY Types DEF IInv
<1>2. /\ op' \in [Ops -> OpState]
      /\ \A a \in Ops : /\ op'[a].pc = op[a].pc /\ op'[a].id = op[a].id
                        /\ op'[a].kind = op[a].kind /\ op'[a].began = op[a].began
                        /\ op[a].cancelled => op'[a].cancelled
  BY <1>1 DEF Cancel, OpState
<1>3. UNCHANGED <<channel, future, pending, uuidless, queue, requests, asked,
                  lock, closing>>
  BY DEF Cancel
<1>4. closing \in {"none", "transfers", "receiver"}
  BY Types DEF IInv
<1> QED
  BY <1>2, <1>3, <1>4, MarkedStep

LEMMA EndsCancelledStep ==
  ASSUME IInv, NEW o \in Ops, EndsCancelled(o)
  PROVE  IInv'
<1>1. /\ op \in [Ops -> OpState] /\ future \in [Ops -> Futures]
      /\ lock \in Closes /\ closing \in {"none", "transfers", "receiver"}
      /\ CloserInv /\ o \in Ops \cup {Session}
  BY Types DEF IInv
<1>2. CASE Ends(o) /\ UNCHANGED lock
  BY <1>1, <1>2, EndsStep DEF EndsCancelled, CloserInv
<1>3. ASSUME op[o].pc \in {"adding", "download"},
             op' = [op EXCEPT ![o].pc = "cleanup"],
             future' = [future EXCEPT ![o] = NoFuture],
             UNCHANGED <<pending, uuidless, queue, lock>>
      PROVE  IInv'
  <2>1. op' = [op EXCEPT ![o].pc = "cleanup", ![o].again = op[o].again]
        /\ op[o].again \in BOOLEAN
    BY <1>1, <1>3 DEF OpState
  <2> QED
    BY <1>1, <1>3, <2>1, RecordFacts, LeavesStep DEF EndsCancelled
<1>4. ASSUME ~(closing # "none" /\ Head(lock) = o), Ends(o),
             Removed(lock', lock, o)
      PROVE  IInv'
  <2>1. lock' \in Closes /\ CloserInv'
    BY <1>1, <1>4, RemovedFacts DEF EndsCancelled, Closes, CloserInv
  <2> QED
    BY <1>1, <1>4, <2>1, EndsStep DEF EndsCancelled
<1> QED
  BY <1>2, <1>3, <1>4 DEF EndsCancelled

LEMMA AnswerStep ==
  ASSUME IInv, Answer
  PROVE  IInv'
<1>1. /\ op \in [Ops -> OpState] /\ future \in [Ops -> Futures]
      /\ pending \in [Ops -> Nat] /\ requests \in Nat
      /\ asked \subseteq 1..requests
  BY Types, RequestAssumption DEF IInv
<1>2. PICK o \in Ops, of \in asked \cup {0}, error \in BOOLEAN :
        /\ future[o].state = "open"
        /\ of # 0 => pending[o] = of
        /\ future' = [future EXCEPT ![o] = [state |-> "answered", of |-> of,
                                            error |-> error]]
  BY DEF Answer
<1>3. of \in Nat
  BY <1>1
<1>4. [state |-> "answered", of |-> of, error |-> error] \in Futures
  BY <1>3 DEF Futures
<1>5. /\ future' \in [Ops -> Futures]
      /\ future'[o].state = "answered" /\ future'[o].of = of
      /\ \A a \in Ops : a # o => future'[a] = future[a]
  BY <1>1, <1>2, <1>4
<1>6. UNCHANGED <<channel, op, pending, uuidless, queue, requests, asked, lock,
                  closing>> /\ receiver = "running"
  BY DEF Answer
<1>7. TypeOK'
  BY <1>5, <1>6, Types
     DEF IInv, TypeOK, channel, Closes, OpState, Futures, Pcs
<1>8. HolderInv' /\ CloserInv' /\ IdInv' /\ RegisteredIsCurrent'
  BY <1>6 DEF IInv, HolderInv, CloserInv, IdInv, RegisteredIsCurrent, Holds
<1>9. RestInv' /\ OpenInv'
  BY <1>2, <1>5, <1>6 DEF IInv, RestInv, OpenInv, Waits
<1>10. GoneInv' /\ NobodyWaitsInVain' /\ TransfersOfOneConnection' /\ OpeningInv'
  BY <1>6 DEF IInv, GoneInv, NobodyWaitsInVain, TransfersOfOneConnection, OpeningInv, Live,
              channel
<1>11. AnswersOwn'
  BY <1>2, <1>5, <1>6 DEF IInv, AnswersOwn, RegisteredIsCurrent
<1> QED
  BY <1>7, <1>8, <1>9, <1>10, <1>11 DEF IInv

\* When the channel changes, and no more of the futures than that open ones
\* are failed and forgotten, the invariant holds on.
LEMMA ChannelStep ==
  ASSUME IInv, connection' \in Nat, generation' \in Nat,
         receiver' \in {"none", "opening", "running", "ending"}, asked' \subseteq 1..requests,
         connection' \in {0, connection}
           \/ \A o \in Ops : Live(o) => op[o].began = 0,
         receiver' = "opening" => receiver = "opening" \/ \A o \in Ops : ~Live(o),
         \/ UNCHANGED <<future, pending, uuidless>>
         \/ FailPending,
         \/ receiver' \in {"running", "ending"} \/ receiver \in {"none", "opening"}
         \/ FailPending /\ \A o \in Ops : ~Answered(o),
         lock' \in Closes, closing' \in {"none", "transfers", "receiver"},
         CloserInv',
         UNCHANGED <<op, queue, requests>>
  PROVE  IInv'
<1>1. /\ op \in [Ops -> OpState] /\ future \in [Ops -> Futures]
      /\ pending \in [Ops -> Nat] /\ uuidless \in Ops \cup {None}
      /\ queue \in Seq(Ops)
  BY Types DEF IInv
<1>2. /\ future' \in [Ops -> Futures]
      /\ pending' \in [Ops -> Nat] /\ uuidless' \in Ops \cup {None}
  BY <1>1, FailedFacts DEF FailPending, Cleared
<1>3. TypeOK'
  BY <1>2, Types DEF IInv, TypeOK, Closes, OpState, Futures, Pcs
<1>4. \A o \in Ops :
        /\ future'[o].of = future[o].of
        /\ future'[o].state = "answered" => future[o].state = "answered"
        /\ future[o].state = "none" => future'[o].state = "none"
        /\ pending'[o] \in {0, pending[o]}
  BY <1>1, FailedFacts DEF FailPending, Cleared
<1>5. HolderInv' /\ IdInv'
  BY DEF IInv, HolderInv, IdInv, Holds
<1>6. RestInv' /\ AnswersOwn'
  BY <1>4 DEF IInv, RestInv, AnswersOwn
<1>7. ASSUME FailPending PROVE \A o \in Ops : Waits(o) => future'[o].state # "open"
  BY <1>7, FailedFacts DEF FailPending
<1>8. OpenInv'
  BY <1>7 DEF IInv, OpenInv, Waits
<1>9. GoneInv'
  BY <1>4 DEF IInv, GoneInv, Answered, Waits
<1>10. NobodyWaitsInVain'
  BY <1>7 DEF IInv, NobodyWaitsInVain, Waits
<1>11. TransfersOfOneConnection' /\ OpeningInv'
  BY DEF IInv, TransfersOfOneConnection, OpeningInv, Live
<1>12. RegisteredIsCurrent'
  <2>1. CASE UNCHANGED <<future, pending, uuidless>>
    BY <2>1 DEF IInv, RegisteredIsCurrent, Holds
  <2>2. CASE FailPending
    BY <2>2 DEF FailPending, Cleared, RegisteredIsCurrent
  <2> QED
    BY <2>1, <2>2
<1> QED
  BY <1>3, <1>5, <1>6, <1>8, <1>9, <1>10, <1>11, <1>12 DEF IInv

LEMMA ReceiverSteps ==
  ASSUME IInv, ReceiverLoses \/ ReceiverEnds \/ Open \/ HandshakeEnds
  PROVE  IInv'
<1>1. /\ connection \in Nat /\ generation \in Nat /\ lock \in Closes
      /\ receiver \in {"none", "opening", "running", "ending"} /\ asked \subseteq 1..requests
      /\ closing \in {"none", "transfers", "receiver"} /\ CloserInv
  BY Types DEF IInv
<1>2. CASE ReceiverLoses
  BY <1>1, <1>2, ChannelStep DEF ReceiverLoses, waiters, CloserInv
<1>3. CASE ReceiverEnds
  BY <1>1, <1>3, ChannelStep DEF ReceiverEnds, CloserInv
<1>4. CASE Open
  BY <1>1, <1>4, ChannelStep DEF Open, waiters, CloserInv
<1>5. CASE HandshakeEnds
  BY <1>1, <1>5, ChannelStep DEF HandshakeEnds, waiters, CloserInv, IInv, OpeningInv
<1> QED
  BY <1>2, <1>3, <1>4, <1>5

LEMMA SessionSteps ==
  ASSUME IInv, SessionCloses \/ SessionGivesUp
  PROVE  IInv'
<1>1. /\ connection \in Nat /\ generation \in Nat /\ lock \in Closes
      /\ receiver \in {"none", "opening", "running", "ending"} /\ asked \subseteq 1..requests
      /\ closing \in {"none", "transfers", "receiver"} /\ CloserInv
      /\ Session \in Ops \cup {Session}
  BY Types DEF IInv
<1>2. UNCHANGED <<channel, waiters, queue, requests, asked, closing>>
  BY DEF SessionCloses, SessionGivesUp
<1>3. lock' \in Closes /\ CloserInv'
  <2>1. CASE SessionCloses
    BY <1>1, <2>1 DEF SessionCloses, Closes, CloserInv
  <2>2. CASE SessionGivesUp
    BY <1>1, <2>2, RemovedFacts DEF SessionGivesUp, Closes, CloserInv
  <2> QED
    BY <2>1, <2>2
<1> QED
  BY <1>1, <1>2, <1>3, ChannelStep DEF channel, waiters

LEMMA CloseBeginsStep ==
  ASSUME IInv, CloseBegins
  PROVE  IInv'
<1>1. op \in [Ops -> OpState]
  BY Types DEF IInv
<1>2. \A r \in OpState :
        /\ [r EXCEPT !.cancelled = TRUE] \in OpState
        /\ [r EXCEPT !.cancelled = TRUE].pc = r.pc
        /\ [r EXCEPT !.cancelled = TRUE].id = r.id
        /\ [r EXCEPT !.cancelled = TRUE].kind = r.kind
        /\ [r EXCEPT !.cancelled = TRUE].began = r.began
        /\ [r EXCEPT !.cancelled = TRUE].cancelled
  BY DEF OpState
<1>3. op' = [a \in Ops |-> IF a \in Others
                          THEN [op[a] EXCEPT !.cancelled = TRUE] ELSE op[a]]
  BY DEF CloseBegins
<1>4. op' \in [Ops -> OpState]
  BY <1>1, <1>2, <1>3
<1>5. \A a \in Ops : /\ op'[a].pc = op[a].pc /\ op'[a].id = op[a].id
                     /\ op'[a].kind = op[a].kind /\ op'[a].began = op[a].began
                     /\ op[a].cancelled => op'[a].cancelled
  BY <1>1, <1>2, <1>3
<1>6. lock # <<>> /\ closing' = "transfers"
      /\ UNCHANGED <<channel, future, pending, uuidless, queue, requests, asked,
                     lock>>
  BY DEF CloseBegins
<1> QED
  BY <1>4, <1>5, <1>6, MarkedStep

LEMMA CloseDrainsStep ==
  ASSUME IInv, CloseDrains
  PROVE  IInv'
<1>1. /\ generation \in Nat /\ lock \in Closes
      /\ receiver \in {"none", "opening", "running", "ending"}
      /\ CloserInv
  BY Types DEF IInv
<1> QED
  BY <1>1, ChannelStep DEF CloseDrains, waiters, CloserInv

\* When a close gives the lifecycle lock up, or queues for it again, and fails
\* the waiters, the invariant holds on.
LEMMA ReleasedStep ==
  ASSUME IInv, op' \in [Ops -> OpState],
         \A a \in Ops :
           /\ op'[a].pc = op[a].pc /\ op'[a].id = op[a].id
           /\ op'[a].kind = op[a].kind /\ op'[a].began = op[a].began
           /\ op'[a].cancelled = op[a].cancelled,
         future' = Failed, pending' = [o \in Ops |-> 0], uuidless' = None,
         lock' \in Closes, closing' = "none",
         UNCHANGED <<channel, requests, asked, queue>>
  PROVE  IInv'
<1>1. /\ Failed \in [Ops -> Futures]
      /\ \A o \in Ops :
           /\ Failed[o].of = future[o].of
           /\ Failed[o].state = "answered" => future[o].state = "answered"
           /\ future[o].state = "none" => Failed[o].state = "none"
           /\ Waits(o) => Failed[o].state # "open"
  BY FailedFacts
<1>2. \A o \in Ops : pending'[o] = 0
  OBVIOUS
<1>3. TypeOK'
  BY <1>1, Types DEF IInv, TypeOK, channel, Closes, OpState, Futures, Pcs
<1>4. HolderInv' /\ CloserInv'
  BY DEF IInv, HolderInv, CloserInv, Holds
<1>5. RestInv' /\ OpenInv' /\ IdInv'
  BY <1>1, <1>2 DEF IInv, RestInv, OpenInv, IdInv, Waits
<1>6. GoneInv' /\ NobodyWaitsInVain'
  BY <1>1 DEF IInv, GoneInv, NobodyWaitsInVain, Waits, channel
<1>7. AnswersOwn' /\ TransfersOfOneConnection' /\ OpeningInv'
  BY <1>1 DEF IInv, AnswersOwn, TransfersOfOneConnection, OpeningInv, Live, channel
<1>8. RegisteredIsCurrent'
  BY <1>2 DEF RegisteredIsCurrent
<1> QED
  BY <1>3, <1>4, <1>5, <1>6, <1>7, <1>8 DEF IInv

LEMMA CloseEndsStep ==
  ASSUME IInv, CloseEnds
  PROVE  IInv'
<1> DEFINE c == Head(lock)
<1>1. /\ op \in [Ops -> OpState] /\ future \in [Ops -> Futures]
      /\ queue \in Seq(Ops) /\ lock \in Closes /\ lock # <<>>
      /\ closing = "receiver"
  BY Types DEF IInv, CloserInv, CloseEnds
<1>2. c \in Ops \cup {Session} /\ Tail(lock) \in Closes
  BY <1>1 DEF Closes
<1>3. /\ closing' = "none" /\ pending' = [o \in Ops |-> 0] /\ uuidless' = None
      /\ UNCHANGED <<channel, requests, asked>>
  BY DEF CloseEnds, Cleared
<1>4. /\ Failed \in [Ops -> Futures]
      /\ \A o \in Ops :
           /\ Failed[o].of = future[o].of
           /\ Failed[o].state = "answered" => future[o].state = "answered"
           /\ future[o].state = "none" => Failed[o].state = "none"
           /\ Waits(o) => Failed[o].state # "open"
  BY FailedFacts
<1>5. CASE UNCHANGED <<op, queue>> /\ future' = Failed /\ lock' = Tail(lock)
  BY <1>1, <1>2, <1>3, <1>5, ReleasedStep
<1>6. CASE /\ c \in Ops /\ op' = [op EXCEPT ![c].again = FALSE]
           /\ future' = Failed /\ lock' = Append(Tail(lock), c)
           /\ UNCHANGED queue
  <2>1. /\ op' \in [Ops -> OpState]
        /\ \A a \in Ops :
             /\ op'[a].pc = op[a].pc /\ op'[a].id = op[a].id
             /\ op'[a].kind = op[a].kind /\ op'[a].began = op[a].began
             /\ op'[a].cancelled = op[a].cancelled
    BY <1>1, <1>6 DEF OpState
  <2>2. lock' \in Closes
    BY <1>2, <1>6 DEF Closes
  <2> QED
    BY <1>3, <1>6, <2>1, <2>2, ReleasedStep
<1>7. CASE /\ c \in Ops /\ op' = [op EXCEPT ![c] = NoOp]
           /\ future' = [Failed EXCEPT ![c] = NoFuture]
           /\ lock' = Tail(lock) /\ Unlocks(c)
  <2>1. /\ queue' \in Seq(Ops)
        /\ queue # <<>> /\ Head(queue) # c
             => queue' # <<>> /\ Head(queue') = Head(queue)
    BY <1>1, <1>7, UnlocksFacts
  <2>2. /\ op' \in [Ops -> OpState] /\ future' \in [Ops -> Futures]
        /\ op'[c] = NoOp /\ future'[c] = NoFuture
        /\ \A a \in Ops : a # c => op'[a] = op[a] /\ future'[a] = Failed[a]
    BY <1>1, <1>4, <1>7, RecordFacts
  <2>3. \A o \in Ops : pending'[o] = 0
    BY <1>3
  <2>4. TypeOK'
    BY <1>2, <1>3, <1>7, <2>1, <2>2, Types
       DEF IInv, TypeOK, channel, Closes, OpState, Futures, Pcs
  <2>5. HolderInv' /\ CloserInv'
    BY <1>3, <2>1, <2>2, RecordFacts DEF IInv, HolderInv, CloserInv, Holds
  <2>6. RestInv' /\ OpenInv' /\ IdInv'
    BY <1>3, <1>4, <2>2, <2>3, RecordFacts
       DEF IInv, RestInv, OpenInv, IdInv, Waits
  <2>7. GoneInv' /\ NobodyWaitsInVain'
    BY <1>3, <1>4, <2>2, RecordFacts
       DEF IInv, GoneInv, NobodyWaitsInVain, Waits, channel
  <2>8. AnswersOwn' /\ TransfersOfOneConnection' /\ OpeningInv'
    BY <1>3, <1>4, <2>2, RecordFacts
       DEF IInv, AnswersOwn, TransfersOfOneConnection, OpeningInv, Live, channel
  <2>9. RegisteredIsCurrent'
    BY <1>3, <2>3 DEF RegisteredIsCurrent
  <2> QED
    BY <2>4, <2>5, <2>6, <2>7, <2>8, <2>9 DEF IInv
<1> QED
  BY <1>5, <1>6, <1>7 DEF CloseEnds, Closer

LEMMA NextIInv == IInv /\ [Next]_vars => IInv'
<1> SUFFICES ASSUME IInv, [Next]_vars PROVE IInv'
  OBVIOUS
<1>1. ASSUME NEW o \in Ops, NEW kind \in Kinds, Begin(o, kind) PROVE IInv'
  BY <1>1, BeginStep
<1>2. ASSUME NEW o \in Ops, OpStep(o) PROVE IInv'
  BY <1>2, TakeStep, SendsImageStep, StreamsImageStep, DownloadsStep, EndingSteps,
     TimesOutStep, EndsCancelledStep DEF OpStep
<1>3. ASSUME NEW o \in Ops, SendFails(o) \/ Cancel(o) PROVE IInv'
  BY <1>3, EndingSteps, CancelStep
<1>4. CASE Answer
  BY <1>4, AnswerStep
<1>5. CASE ReceiverLoses \/ ReceiverEnds \/ Open \/ HandshakeEnds
  BY <1>5, ReceiverSteps
<1>6. CASE SessionCloses \/ SessionGivesUp
  BY <1>6, SessionSteps
<1>7. CASE CloseStep
  BY <1>7, CloseBeginsStep, CloseDrainsStep, CloseEndsStep DEF CloseStep
<1>8. CASE UNCHANGED vars
  <2>1. UNCHANGED <<channel, waiters, queue, requests, asked, lock, closing>>
    BY <1>8 DEF vars
  <2>2. /\ op \in [Ops -> OpState]
        /\ closing \in {"none", "transfers", "receiver"}
    BY Types DEF IInv
  <2> QED
    BY <2>1, <2>2, MarkedStep DEF waiters
<1> QED
  BY <1>1, <1>2, <1>3, <1>4, <1>5, <1>6, <1>7, <1>8 DEF Next

-------------------------------------------------------------------------------
(* Theorems *)

\* The invariant holds of every reachable state.
THEOREM Inductive == Spec => []IInv
<1>1. Init => IInv
  BY InitIInv
<1>2. IInv /\ [Next]_vars => IInv'
  BY NextIInv
<1> QED
  BY <1>1, <1>2, PTL DEF Spec

\* The state of the transport's requests keeps its types.
THEOREM RequestsTypeCorrect == Spec => []TypeOK
<1>1. IInv => TypeOK
  BY DEF IInv
<1> QED
  BY <1>1, Inductive, PTL

\* _dispatch_frame gives an answer that carries an id to nobody but the
\* operation that asked under that id.
THEOREM AnswersOwnHolds == Spec => []AnswersOwn
<1>1. IInv => AnswersOwn
  BY DEF IInv
<1> QED
  BY <1>1, Inductive, PTL

\* _pending and _uuidless_pending hold nothing but the request of the holder of
\* the operation lock.
THEOREM RegisteredIsCurrentHolds == Spec => []RegisteredIsCurrent
<1>1. IInv => RegisteredIsCurrent
  BY DEF IInv
<1> QED
  BY <1>1, Inductive, PTL

\* However the receiver ends, and whatever an operation registers while it does,
\* nobody awaits an answer afterwards.
THEOREM NobodyWaitsInVainHolds == Spec => []NobodyWaitsInVain
<1>1. IInv => NobodyWaitsInVain
  BY DEF IInv
<1> QED
  BY <1>1, Inductive, PTL

\* No upload or thumbnail outlives the connection it was begun over.
THEOREM TransfersOfOneConnectionHolds == Spec => []TransfersOfOneConnection
<1>1. IInv => TransfersOfOneConnection
  BY DEF IInv
<1> QED
  BY <1>1, Inductive, PTL

-------------------------------------------------------------------------------
(* Who waits for the two locks, and the work that is left to an operation *)

\* A lock is the queue of those who wait for it, each once, the holder first.
IsQueueOf(q, S, W) ==
  /\ q \in Seq(S)
  /\ \A i, j \in 1..Len(q) : q[i] = q[j] => i = j
  /\ W = {q[i] : i \in 1..Len(q)}

\* Who joins a queue is in it, once.
LEMMA QueueAppend ==
  ASSUME NEW S, NEW q, NEW W, IsQueueOf(q, S, W), NEW x \in S, x \notin W
  PROVE  IsQueueOf(Append(q, x), S, W \cup {x})
<1> DEFINE p == Append(q, x)
<1>1. q \in Seq(S) /\ Len(q) \in Nat
  BY DEF IsQueueOf
<1>2. /\ p \in Seq(S) /\ Len(p) = Len(q) + 1 /\ p[Len(q) + 1] = x
      /\ \A i \in 1..Len(q) : p[i] = q[i] /\ q[i] # x
  BY <1>1 DEF IsQueueOf
<1> HIDE DEF p
<1>3. ASSUME NEW i \in 1..Len(p), NEW j \in 1..Len(p), p[i] = p[j] PROVE i = j
  <2>1. /\ i \in 1..Len(q) \/ i = Len(q) + 1
        /\ j \in 1..Len(q) \/ j = Len(q) + 1
    BY <1>1, <1>2
  <2> QED
    BY <1>2, <1>3, <2>1 DEF IsQueueOf
<1>4. W \cup {x} = {p[i] : i \in 1..Len(p)}
  <2>1. 1..Len(p) = (1..Len(q)) \cup {Len(q) + 1}
    BY <1>1, <1>2
  <2> QED
    BY <1>2, <2>1 DEF IsQueueOf
<1>5. IsQueueOf(p, S, W \cup {x})
  BY <1>2, <1>3, <1>4 DEF IsQueueOf
<1> QED
  BY <1>5 DEF p

\* Who leaves a queue is in it no more, and the others are.
LEMMA QueueRemove ==
  ASSUME NEW S, NEW q, NEW W, IsQueueOf(q, S, W), NEW k \in 1..Len(q)
  PROVE  IsQueueOf(RemoveAt(q, k), S, W \ {q[k]})
<1> DEFINE a == SubSeq(q, 1, k-1)
           b == SubSeq(q, k+1, Len(q))
           p == a \o b
           at(i) == IF i < k THEN i ELSE i + 1
<1>1. q \in Seq(S) /\ Len(q) \in Nat /\ k \in Nat /\ k >= 1 /\ k =< Len(q)
  BY DEF IsQueueOf
<1>2. /\ a \in Seq(S) /\ Len(a) = k - 1
      /\ \A i \in 1..k-1 : a[i] = q[i]
  BY <1>1
<1>3. b \in Seq(S) /\ Len(b) = Len(q) - k
  BY <1>1
<1>4. \A i \in 1..Len(b) : b[i] = q[k + i]
  BY <1>1, <1>3
<1>5. RemoveAt(q, k) = p
  BY DEF RemoveAt
<1> HIDE DEF a, b
<1>6. /\ p \in Seq(S) /\ Len(p) = Len(q) - 1
      /\ \A i \in 1..Len(p) : p[i] = IF i =< Len(a) THEN a[i] ELSE b[i - Len(a)]
  BY <1>1, <1>2, <1>3
<1> HIDE DEF p
<1>7. ASSUME NEW i \in 1..Len(p)
      PROVE  p[i] = q[at(i)] /\ at(i) \in 1..Len(q) /\ at(i) # k
  <2>1. CASE i < k
    <3>1. i \in 1..k-1 /\ i \in Nat /\ i =< Len(a)
      BY <1>1, <1>2, <1>6, <2>1
    <3>2. p[i] = q[i]
      BY <1>2, <1>6, <3>1
    <3> QED
      BY <1>1, <2>1, <3>1, <3>2
  <2>2. CASE i >= k
    <3> DEFINE m == i - (k - 1)
    <3>1. m \in 1..Len(b) /\ k + m = i + 1
      BY <1>1, <1>3, <1>6, <2>2
    <3>2. p[i] = b[m]
      BY <1>1, <1>2, <1>6, <2>2
    <3> HIDE DEF m
    <3>3. p[i] = q[i + 1]
      BY <1>4, <3>1, <3>2
    <3> QED
      BY <1>1, <1>6, <2>2, <3>3
  <2> QED
    BY <1>1, <1>6, <2>1, <2>2
<1>8. ASSUME NEW i \in 1..Len(p), NEW j \in 1..Len(p), p[i] = p[j] PROVE i = j
  <2>1. at(i) = at(j)
    BY <1>7, <1>8 DEF IsQueueOf
  <2> QED
    BY <1>1, <1>6, <2>1
<1>9. W \ {q[k]} = {p[i] : i \in 1..Len(p)}
  <2>1. ASSUME NEW i \in 1..Len(p) PROVE p[i] \in W \ {q[k]}
    BY <1>7 DEF IsQueueOf
  <2>2. ASSUME NEW j \in 1..Len(q), j # k PROVE \E i \in 1..Len(p) : p[i] = q[j]
    <3>1. CASE j < k
      BY <1>1, <1>6, <1>7, <3>1
    <3>2. CASE j > k
      <4>1. j - 1 \in 1..Len(p) /\ at(j - 1) = j
        BY <1>1, <1>6, <3>2
      <4> QED
        BY <1>7, <4>1
    <3> QED
      BY <1>1, <2>2, <3>1, <3>2
  <2> QED
    BY <2>1, <2>2 DEF IsQueueOf
<1>10. IsQueueOf(p, S, W \ {q[k]})
  BY <1>6, <1>8, <1>9 DEF IsQueueOf
<1> QED
  BY <1>5, <1>10

\* So it is when the holder leaves.
LEMMA QueueTail ==
  ASSUME NEW S, NEW q, NEW W, IsQueueOf(q, S, W), q # <<>>
  PROVE  IsQueueOf(Tail(q), S, W \ {Head(q)})
<1>1. q \in Seq(S) /\ 1 \in 1..Len(q)
  BY DEF IsQueueOf
<1>2. RemoveAt(q, 1) = Tail(q) /\ q[1] = Head(q)
  BY <1>1 DEF RemoveAt
<1>3. IsQueueOf(RemoveAt(q, 1), S, W \ {q[1]})
  BY <1>1, QueueRemove
<1> QED
  BY <1>2, <1>3

\* The same, when it is said by whom and not from where.
LEMMA QueueRemoved ==
  ASSUME NEW S, NEW q, NEW W, IsQueueOf(q, S, W), NEW t, NEW a, Removed(t, q, a)
  PROVE  IsQueueOf(t, S, W \ {a})
<1>1. PICK i \in DOMAIN q : q[i] = a /\ t = RemoveAt(q, i)
  BY DEF Removed
<1>2. i \in 1..Len(q)
  BY DEF IsQueueOf
<1> QED
  BY <1>1, <1>2, QueueRemove

\* An operation is in the queue of the operation lock from its first await to
\* its end; a thumbnail leaves it before it downloads.
InQueue(x) ==
  \/ x.pc \in {"queued", "version", "asking", "adding", "closing"}
  \/ x.pc = "cleanup" /\ x.kind # "thumbnail"
Queued == {o \in Ops : InQueue(op[o])}

\* It is in that of the lifecycle lock while it closes, maybe with the session.
Closing(x) == x.pc = "closing"
Closers == {o \in Ops : Closing(op[o])}
Lockers == Ops \cup {Session}
IsLockOf(q, C) == \E S \in SUBSET {Session} : IsQueueOf(q, Lockers, C \cup S)

\* Only an upload adds an image, and only a thumbnail is downloaded.
Streams(x) ==
  /\ x.pc = "adding" => x.kind = "upload"
  /\ x.pc = "download" => x.kind = "thumbnail"

WorkInv ==
  /\ IsQueueOf(queue, Ops, Queued) /\ IsLockOf(lock, Closers)
  /\ \A o \in Ops : Streams(op[o])

\* How many phases an operation has before it at most.
Left(x) ==
  IF x.pc = "queued" THEN 8 ELSE IF x.pc = "version" THEN 7
  ELSE IF x.pc = "asking" THEN 6 ELSE IF x.pc = "adding" THEN 5
  ELSE IF x.pc = "download" THEN 4
  ELSE IF x.pc = "closing" THEN (IF x.again THEN 3 ELSE 2)
  ELSE IF x.pc = "cleanup" THEN 1 ELSE 0

\* A step leaves an operation under way as it is, cancels it, or takes it
\* further.
Progress ==
  \A o \in Ops : op[o].pc # "idle" =>
    \/ op'[o] = op[o] \/ op'[o] = [op[o] EXCEPT !.cancelled = TRUE]
    \/ Left(op'[o]) < Left(op[o])

\* Giving up the operation lock, or a place in its queue.
LEMMA UnlocksQueue ==
  ASSUME NEW W, IsQueueOf(queue, Ops, W), NEW o \in Ops, Unlocks(o)
  PROVE  IsQueueOf(queue', Ops, W \ {o})
<1>1. CASE Contains(queue, o)
  BY <1>1, QueueRemoved DEF Unlocks
<1>2. CASE ~Contains(queue, o)
  <2>1. o \notin W /\ UNCHANGED queue
    BY <1>2 DEF Unlocks, Contains, IsQueueOf
  <2>2. W \ {o} = W
    BY <2>1
  <2> QED
    BY <2>1, <2>2
<1> QED
  BY <1>1, <1>2

\* What becomes of a place in the queue of the lifecycle lock.
LEMMA LockFacts ==
  ASSUME NEW C \in SUBSET Ops, IsLockOf(lock, C), NEW o \in Ops
  PROVE  /\ o \notin C => IsLockOf(Append(lock, o), C \cup {o})
         /\ \A t : Removed(t, lock, o) => IsLockOf(t, C \ {o})
         /\ lock # <<>> /\ Head(lock) = o =>
              /\ IsLockOf(Tail(lock), C \ {o}) /\ o \in C
              /\ IsLockOf(Append(Tail(lock), o), C)
<1>1. PICK S \in SUBSET {Session} : IsQueueOf(lock, Lockers, C \cup S)
  BY DEF IsLockOf
<1>2. o \in Lockers /\ o \notin S /\ (C \cup S) \ {o} = (C \ {o}) \cup S
  BY NamesAssumption DEF Lockers
<1>3. o \notin C => IsLockOf(Append(lock, o), C \cup {o})
  <2> SUFFICES ASSUME o \notin C PROVE IsLockOf(Append(lock, o), C \cup {o})
    OBVIOUS
  <2>1. IsQueueOf(Append(lock, o), Lockers, (C \cup S) \cup {o})
    BY <1>1, <1>2, QueueAppend
  <2>2. (C \cup S) \cup {o} = (C \cup {o}) \cup S
    OBVIOUS
  <2> QED
    BY <2>1, <2>2 DEF IsLockOf
<1>4. ASSUME NEW t, Removed(t, lock, o) PROVE IsLockOf(t, C \ {o})
  <2>1. IsQueueOf(t, Lockers, (C \cup S) \ {o})
    BY <1>1, <1>4, QueueRemoved
  <2> QED
    BY <1>2, <2>1 DEF IsLockOf
<1>5. ASSUME lock # <<>>, Head(lock) = o
      PROVE  /\ IsLockOf(Tail(lock), C \ {o}) /\ o \in C
             /\ IsLockOf(Append(Tail(lock), o), C)
  <2>1. IsQueueOf(Tail(lock), Lockers, (C \cup S) \ {o})
    BY <1>1, <1>5, QueueTail
  <2>2. o \in C
    <3>1. 1 \in 1..Len(lock) /\ lock[1] = o
      BY <1>1, <1>5 DEF IsQueueOf
    <3> QED
      BY <1>1, <1>2, <3>1 DEF IsQueueOf
  <2>3. IsQueueOf(Append(Tail(lock), o), Lockers, ((C \cup S) \ {o}) \cup {o})
    BY <1>2, <2>1, QueueAppend
  <2>4. ((C \cup S) \ {o}) \cup {o} = C \cup S
    BY <2>2
  <2> QED
    BY <1>2, <2>1, <2>2, <2>3, <2>4 DEF IsLockOf
<1> QED
  BY <1>3, <1>4, <1>5

\* One operation takes a step, and its places in the queues change with it.
LEMMA OneMoves ==
  ASSUME IInv, WorkInv, NEW o \in Ops,
         \A a \in Ops : a # o => op'[a] = op[a],
         Streams(op'[o]), op[o].pc = "idle" \/ Left(op'[o]) < Left(op[o]),
         \/ (InQueue(op'[o]) <=> InQueue(op[o])) /\ UNCHANGED queue
         \/ ~InQueue(op'[o]) /\ Unlocks(o)
         \/ ~InQueue(op[o]) /\ InQueue(op'[o]) /\ queue' = Append(queue, o),
         \/ (Closing(op'[o]) <=> Closing(op[o])) /\ UNCHANGED lock
         \/ ~Closing(op[o]) /\ Closing(op'[o]) /\ lock' = Append(lock, o)
         \/ ~Closing(op'[o]) /\ Removed(lock', lock, o)
         \/ /\ lock # <<>> /\ Head(lock) = o
            /\ \/ ~Closing(op'[o]) /\ lock' = Tail(lock)
               \/ Closing(op'[o]) /\ lock' = Append(Tail(lock), o)
  PROVE  WorkInv' /\ Progress
<1>1. /\ Queued' = IF InQueue(op'[o]) THEN Queued \cup {o} ELSE Queued \ {o}
      /\ Closers' = IF Closing(op'[o]) THEN Closers \cup {o} ELSE Closers \ {o}
      /\ Closers \in SUBSET Ops
      /\ o \in Queued <=> InQueue(op[o])
      /\ o \in Closers <=> Closing(op[o])
  BY DEF Queued, Closers, InQueue, Closing
<1>2. IsQueueOf(queue', Ops, Queued')
  <2>1. CASE (InQueue(op'[o]) <=> InQueue(op[o])) /\ UNCHANGED queue
    <3>1. Queued' = Queued
      BY <1>1, <2>1
    <3> QED
      BY <2>1, <3>1 DEF WorkInv
  <2>2. CASE ~InQueue(op'[o]) /\ Unlocks(o)
    BY <1>1, <2>2, UnlocksQueue DEF WorkInv
  <2>3. CASE ~InQueue(op[o]) /\ InQueue(op'[o]) /\ queue' = Append(queue, o)
    BY <1>1, <2>3, QueueAppend DEF WorkInv
  <2> QED
    BY <2>1, <2>2, <2>3
<1>3. IsLockOf(lock', Closers')
  <2>1. CASE (Closing(op'[o]) <=> Closing(op[o])) /\ UNCHANGED lock
    <3>1. Closers' = Closers
      BY <1>1, <2>1
    <3> QED
      BY <2>1, <3>1 DEF WorkInv
  <2>2. CASE ~Closing(op[o]) /\ Closing(op'[o]) /\ lock' = Append(lock, o)
    BY <1>1, <2>2, LockFacts DEF WorkInv
  <2>3. CASE ~Closing(op'[o]) /\ Removed(lock', lock, o)
    BY <1>1, <2>3, LockFacts DEF WorkInv
  <2>4. CASE lock # <<>> /\ Head(lock) = o /\ ~Closing(op'[o]) /\ lock' = Tail(lock)
    BY <1>1, <2>4, LockFacts DEF WorkInv
  <2>5. CASE lock # <<>> /\ Head(lock) = o /\ Closing(op'[o])
             /\ lock' = Append(Tail(lock), o)
    <3>1. o \in Closers /\ IsLockOf(lock', Closers)
      BY <1>1, <2>5, LockFacts DEF WorkInv
    <3>2. Closers' = Closers
      BY <1>1, <2>5, <3>1
    <3> QED
      BY <3>1, <3>2
  <2> QED
    BY <2>1, <2>2, <2>3, <2>4, <2>5
<1>4. Progress /\ \A a \in Ops : Streams(op'[a])
  BY DEF Progress, WorkInv
<1> QED
  BY <1>2, <1>3, <1>4 DEF WorkInv, Streams

\* An operation that ends gives up its places.
LEMMA EndsWork ==
  ASSUME IInv, WorkInv, NEW o \in Ops, Ends(o), op[o].pc # "idle",
         \/ ~Closing(op[o]) /\ UNCHANGED lock
         \/ Removed(lock', lock, o)
  PROVE  WorkInv' /\ Progress
<1>1. op \in [Ops -> OpState]
  BY Types DEF IInv
<1>2. /\ op'[o] = NoOp /\ NoOp.pc = "idle"
      /\ \A a \in Ops : a # o => op'[a] = op[a]
  BY <1>1, RecordFacts DEF Ends
<1>3. ~InQueue(NoOp) /\ ~Closing(NoOp) /\ Streams(NoOp) /\ Left(NoOp) = 0
  BY <1>2 DEF InQueue, Closing, Streams, Left
<1>4. Left(op[o]) > 0
  BY <1>1 DEF Left, OpState, Pcs
<1> QED
  BY <1>2, <1>3, <1>4, OneMoves DEF Ends

\* An operation that waits for another answer keeps its place.
LEMMA RegistersWork ==
  ASSUME IInv, WorkInv, NEW o \in Ops, NEW pc, NEW id, NEW slot,
         Registers(o, pc, id, slot), UNCHANGED lock,
         \/ op[o].pc = "queued" /\ pc \in {"version", "asking"}
         \/ op[o].pc = "version" /\ pc = "asking"
         \/ op[o].pc \in {"version", "asking"} /\ pc = "adding"
              /\ op[o].kind = "upload"
  PROVE  WorkInv' /\ Progress
<1>1. op \in [Ops -> OpState]
  BY Types DEF IInv
<1>2. /\ op'[o].pc = pc /\ op'[o].kind = op[o].kind
      /\ \A a \in Ops : a # o => op'[a] = op[a]
      /\ UNCHANGED queue
  BY <1>1 DEF Registers, OpState
<1>3. InQueue(op'[o]) /\ InQueue(op[o]) /\ ~Closing(op'[o]) /\ ~Closing(op[o])
  BY <1>2 DEF InQueue, Closing
<1>4. Left(op'[o]) < Left(op[o])
  BY <1>2 DEF Left
<1>5. Streams(op'[o])
  BY <1>2 DEF Streams
<1> QED
  BY <1>2, <1>3, <1>4, <1>5, OneMoves

LEMMA BeginWork ==
  ASSUME IInv, WorkInv, NEW o \in Ops, NEW kind \in Kinds, Begin(o, kind)
  PROVE  WorkInv' /\ Progress
<1>1. op \in [Ops -> OpState]
  BY Types DEF IInv
<1> DEFINE x == [NoOp EXCEPT !.pc = "queued", !.kind = kind, !.id = requests + 1]
<1>2. x.pc = "queued"
  BY DEF NoOp
<1>3. /\ op[o].pc = "idle" /\ op'[o] = x /\ \A a \in Ops : a # o => op'[a] = op[a]
      /\ queue' = Append(queue, o) /\ UNCHANGED lock
  BY <1>1 DEF Begin
<1> HIDE DEF x
<1>4. InQueue(x) /\ ~InQueue(op[o]) /\ ~Closing(x) /\ ~Closing(op[o]) /\ Streams(x)
  BY <1>2, <1>3 DEF InQueue, Closing, Streams
<1> QED
  BY <1>3, <1>4, OneMoves

\* The steps of an operation that ask, or hear an answer.
LEMMA AskingWork ==
  ASSUME IInv, WorkInv, NEW o \in Ops,
         Take(o) \/ SendsImage(o) \/ StreamsImage(o) \/ Concludes(o) \/ SendFails(o)
  PROVE  WorkInv' /\ Progress
<1>1. UNCHANGED lock
  BY DEF Take, SendsImage, StreamsImage, Concludes, SendFails
<1>2. ASSUME Ends(o), op[o].pc \in {"queued", "version", "asking", "adding"}
      PROVE  WorkInv' /\ Progress
  BY <1>1, <1>2, EndsWork DEF Closing
<1>3. CASE Take(o)
  BY <1>1, <1>2, <1>3, RegistersWork DEF Take
<1>4. CASE SendsImage(o)
  <2>1. op[o].pc = "version" /\ op[o].kind = "upload"
    BY <1>4 DEF SendsImage, IInv, IdInv
  <2> QED
    BY <1>1, <1>2, <1>4, <2>1, RegistersWork DEF SendsImage
<1>5. CASE StreamsImage(o)
  BY <1>1, <1>5, RegistersWork DEF StreamsImage
<1>6. CASE Concludes(o) \/ SendFails(o)
  BY <1>2, <1>6 DEF Concludes, SendFails, Waits
<1> QED
  BY <1>3, <1>4, <1>5, <1>6

\* The steps of a stream.
LEMMA StreamWork ==
  ASSUME IInv, WorkInv, NEW o \in Ops, Downloads(o) \/ StreamEnds(o)
  PROVE  WorkInv' /\ Progress
<1>1. op \in [Ops -> OpState]
  BY Types DEF IInv
<1>2. CASE Downloads(o)
  <2>1. /\ op'[o].pc = "download" /\ op'[o].kind = op[o].kind
        /\ \A a \in Ops : a # o => op'[a] = op[a]
        /\ op[o].pc \in {"version", "asking", "adding"} /\ op[o].kind = "thumbnail"
        /\ Unlocks(o) /\ UNCHANGED lock
    BY <1>1, <1>2 DEF Downloads, Answered, Waits, OpState
  <2>2. /\ ~InQueue(op'[o]) /\ ~Closing(op'[o]) /\ ~Closing(op[o])
        /\ Streams(op'[o]) /\ Left(op'[o]) < Left(op[o])
    BY <2>1 DEF InQueue, Closing, Streams, Left
  <2> QED
    BY <2>1, <2>2, OneMoves
<1>3. CASE StreamEnds(o)
  <2>1. /\ op[o].pc \in {"download", "cleanup"} /\ Ends(o) /\ UNCHANGED lock
    BY <1>3 DEF StreamEnds
  <2> QED
    BY <2>1, EndsWork DEF Closing
<1> QED
  BY <1>2, <1>3

\* A deadline, and what a cancellation comes to.
LEMMA TimesOutWork ==
  ASSUME IInv, WorkInv, NEW o \in Ops, TimesOut(o)
  PROVE  WorkInv' /\ Progress
<1>1. op \in [Ops -> OpState] /\ op[o].pc \in {"version", "asking", "adding"}
  BY Types DEF IInv, TimesOut, Waits
<1>2. CASE Ends(o) /\ UNCHANGED lock
  BY <1>1, <1>2, EndsWork DEF Closing
<1>3. CASE /\ \/ \E b \in BOOLEAN : op' = [op EXCEPT ![o].pc = "closing", ![o].again = b]
              \/ op' = [op EXCEPT ![o].pc = "closing"]
           /\ lock' = Append(lock, o) /\ UNCHANGED queue
  <2>1. /\ op'[o].pc = "closing" /\ op'[o].kind = op[o].kind
        /\ \A a \in Ops : a # o => op'[a] = op[a]
    BY <1>1, <1>3 DEF OpState
  <2>2. /\ InQueue(op'[o]) /\ InQueue(op[o]) /\ Closing(op'[o]) /\ ~Closing(op[o])
        /\ Streams(op'[o]) /\ Left(op'[o]) < Left(op[o])
    BY <1>1, <2>1 DEF InQueue, Closing, Streams, Left
  <2> QED
    BY <1>3, <2>1, <2>2, OneMoves
<1>4. (op[o].kind = "upload") \in BOOLEAN
  OBVIOUS
<1> QED
  BY <1>2, <1>3, <1>4 DEF TimesOut

LEMMA EndsCancelledWork ==
  ASSUME IInv, WorkInv, NEW o \in Ops, EndsCancelled(o)
  PROVE  WorkInv' /\ Progress
<1>1. op \in [Ops -> OpState]
  BY Types DEF IInv
<1>2. CASE /\ op[o].pc \in {"queued", "version", "asking", "adding"}
           /\ Ends(o) /\ UNCHANGED lock
  BY <1>2, EndsWork DEF Closing
<1>3. CASE /\ op[o].pc \in {"adding", "download"}
           /\ op' = [op EXCEPT ![o].pc = "cleanup"] /\ UNCHANGED <<queue, lock>>
  <2>1. /\ op'[o].pc = "cleanup" /\ op'[o].kind = op[o].kind
        /\ \A a \in Ops : a # o => op'[a] = op[a]
        /\ Streams(op[o])
    BY <1>1, <1>3 DEF OpState, WorkInv
  <2>2. /\ InQueue(op'[o]) <=> InQueue(op[o])
        /\ ~Closing(op'[o]) /\ ~Closing(op[o])
        /\ Streams(op'[o]) /\ Left(op'[o]) < Left(op[o])
    BY <1>3, <2>1 DEF InQueue, Closing, Streams, Left
  <2> QED
    BY <1>3, <2>1, <2>2, OneMoves
<1>4. CASE op[o].pc = "closing" /\ Ends(o) /\ Removed(lock', lock, o)
  BY <1>4, EndsWork
<1> QED
  BY <1>2, <1>3, <1>4 DEF EndsCancelled

\* A cancellation disturbs nothing but its mark.
LEMMA MarksWork ==
  ASSUME IInv, WorkInv, UNCHANGED <<queue, lock>>,
         \A o \in Ops : op'[o] = op[o] \/ op'[o] = [op[o] EXCEPT !.cancelled = TRUE]
  PROVE  WorkInv' /\ Progress
<1>1. \A o \in Ops : op'[o].pc = op[o].pc /\ op'[o].kind = op[o].kind
  BY Types DEF IInv, OpState
<1>2. Queued' = Queued /\ Closers' = Closers /\ \A o \in Ops : Streams(op'[o])
  BY <1>1 DEF Queued, Closers, InQueue, Closing, Streams, WorkInv
<1>3. IsLockOf(lock', Closers')
  BY <1>2 DEF WorkInv
<1> QED
  BY <1>2, <1>3 DEF WorkInv, Progress, Streams

\* The session queues for the lifecycle lock, leaves it, or has closed.
LEMMA SessionWork ==
  ASSUME IInv, WorkInv, UNCHANGED <<op, queue>>,
         \/ ~Contains(lock, Session) /\ lock' = Append(lock, Session)
         \/ Removed(lock', lock, Session)
         \/ lock # <<>> /\ Head(lock) = Session /\ lock' = Tail(lock)
  PROVE  WorkInv' /\ Progress
<1>1. Queued' = Queued /\ Closers' = Closers /\ Closers \in SUBSET Ops
  BY DEF Queued, Closers, InQueue, Closing
<1>2. PICK S \in SUBSET {Session} : IsQueueOf(lock, Lockers, Closers \cup S)
  BY DEF WorkInv, IsLockOf
<1>3. Session \in Lockers /\ Session \notin Closers
  BY <1>1, NamesAssumption DEF Lockers
<1>4. CASE ~Contains(lock, Session) /\ lock' = Append(lock, Session)
  <2>1. Session \notin Closers \cup S
    BY <1>2, <1>4 DEF Contains, IsQueueOf
  <2>2. IsQueueOf(lock', Lockers, (Closers \cup S) \cup {Session})
    BY <1>2, <1>3, <1>4, <2>1, QueueAppend
  <2>3. (Closers \cup S) \cup {Session} = Closers \cup {Session}
    OBVIOUS
  <2> QED
    BY <1>1, <2>2, <2>3 DEF IsLockOf, WorkInv, Progress, Streams
<1>5. CASE \/ Removed(lock', lock, Session)
           \/ lock # <<>> /\ Head(lock) = Session /\ lock' = Tail(lock)
  <2>1. IsQueueOf(lock', Lockers, (Closers \cup S) \ {Session})
    <3>1. CASE Removed(lock', lock, Session)
      BY <1>2, <3>1, QueueRemoved
    <3>2. CASE lock # <<>> /\ Head(lock) = Session /\ lock' = Tail(lock)
      BY <1>2, <3>2, QueueTail
    <3> QED
      BY <1>5, <3>1, <3>2
  <2>2. (Closers \cup S) \ {Session} = Closers \cup {}
    BY <1>3
  <2> QED
    BY <1>1, <2>1, <2>2 DEF IsLockOf, WorkInv, Progress, Streams
<1> QED
  BY <1>4, <1>5

LEMMA CloseEndsWork ==
  ASSUME IInv, WorkInv, CloseEnds
  PROVE  WorkInv' /\ Progress
<1> DEFINE c == Head(lock)
<1>1. op \in [Ops -> OpState] /\ lock # <<>>
  BY Types DEF IInv, CloserInv, CloseEnds
<1>2. ASSUME c \in Ops PROVE op[c].pc = "closing"
  <2>1. Closers \in SUBSET Ops /\ IsLockOf(lock, Closers)
    BY DEF Closers, WorkInv
  <2>2. c \in Closers
    BY <1>1, <1>2, <2>1, LockFacts
  <2> QED
    BY <2>2 DEF Closers, Closing
<1>3. CASE c = Session /\ lock' = Tail(lock) /\ UNCHANGED <<op, queue>>
  BY <1>1, <1>3, SessionWork
<1>4. CASE /\ c \in Ops /\ op[c].again /\ op' = [op EXCEPT ![c].again = FALSE]
           /\ lock' = Append(Tail(lock), c) /\ UNCHANGED queue
  <2>1. /\ op'[c].pc = "closing" /\ op'[c].kind = op[c].kind /\ ~op'[c].again
        /\ \A a \in Ops : a # c => op'[a] = op[a]
    BY <1>1, <1>2, <1>4 DEF OpState
  <2>2. /\ InQueue(op'[c]) /\ InQueue(op[c]) /\ Closing(op'[c])
        /\ Streams(op'[c]) /\ Left(op'[c]) < Left(op[c])
    BY <1>2, <1>4, <2>1 DEF InQueue, Closing, Streams, Left
  <2> QED
    BY <1>1, <1>4, <2>1, <2>2, OneMoves
<1>5. CASE /\ c \in Ops /\ op' = [op EXCEPT ![c] = NoOp]
           /\ lock' = Tail(lock) /\ Unlocks(c)
  <2>1. /\ op'[c].pc = "idle" /\ \A a \in Ops : a # c => op'[a] = op[a]
    BY <1>1, <1>5, RecordFacts
  <2>2. /\ ~InQueue(op'[c]) /\ ~Closing(op'[c]) /\ Streams(op'[c])
        /\ Left(op'[c]) < Left(op[c])
    BY <1>2, <1>5, <2>1 DEF InQueue, Closing, Streams, Left
  <2> QED
    BY <1>1, <1>5, <2>1, <2>2, OneMoves
<1> QED
  BY <1>3, <1>4, <1>5 DEF CloseEnds, Closer

LEMMA WorkStep ==
  ASSUME IInv, WorkInv, [Next]_vars
  PROVE  WorkInv' /\ Progress
<1>1. op \in [Ops -> OpState]
  BY Types DEF IInv
<1>2. CASE UNCHANGED <<op, queue, lock>>
  BY <1>2, MarksWork
<1>3. CASE SessionCloses \/ SessionGivesUp
  BY <1>3, SessionWork DEF SessionCloses, SessionGivesUp, waiters
<1>4. CASE CloseBegins \/ \E o \in Ops : Cancel(o)
  <2>1. \A o \in Ops : op'[o] = op[o] \/ op'[o] = [op[o] EXCEPT !.cancelled = TRUE]
    BY <1>1, <1>4 DEF CloseBegins, Cancel
  <2> QED
    BY <1>4, <2>1, MarksWork DEF CloseBegins, Cancel
<1>5. CASE \E o \in Ops, kind \in Kinds : Begin(o, kind)
  BY <1>5, BeginWork
<1>6. ASSUME NEW o \in Ops, OpStep(o) \/ SendFails(o) PROVE WorkInv' /\ Progress
  BY <1>6, AskingWork, StreamWork, TimesOutWork, EndsCancelledWork DEF OpStep
<1>7. \/ UNCHANGED <<op, queue, lock>>
      \/ SessionCloses \/ SessionGivesUp \/ CloseBegins \/ CloseEnds
      \/ \E o \in Ops : Cancel(o) \/ OpStep(o) \/ SendFails(o)
      \/ \E o \in Ops, kind \in Kinds : Begin(o, kind)
  BY DEF Next, vars, waiters, CloseStep, Answer, ReceiverLoses, ReceiverEnds,
     FailPending, Cleared, Open, HandshakeEnds, CloseDrains
<1> QED
  BY <1>2, <1>3, <1>4, <1>5, <1>6, <1>7, CloseEndsWork

LEMMA WorkHolds == Spec => [](IInv /\ WorkInv)
<1>1. Init => WorkInv
  <2> SUFFICES ASSUME Init PROVE WorkInv
    OBVIOUS
  <2>1. queue = <<>> /\ lock = <<>> /\ \A o \in Ops : op[o].pc = "idle"
    BY RecordFacts DEF Init
  <2>2. Queued = {} /\ Closers = {} /\ \A o \in Ops : Streams(op[o])
    BY <2>1 DEF Queued, Closers, InQueue, Closing, Streams
  <2>3. IsQueueOf(queue, Ops, {}) /\ IsQueueOf(lock, Lockers, {} \cup {})
    BY <2>1 DEF IsQueueOf
  <2> QED
    BY <2>2, <2>3 DEF WorkInv, IsLockOf
<1> QED
  BY <1>1, InitIInv, NextIInv, WorkStep, PTL DEF Spec

\* Nobody waits for a lock that nobody will give up: whoever waits for the
\* operation lock waits behind an operation that has not ended, and a close
\* behind one that is closing, or behind the session.
LocksAreServed ==
  /\ \A o \in Ops : op[o].pc = "queued" =>
       queue # <<>> /\ Head(queue) \in Ops /\ op[Head(queue)].pc # "idle"
  /\ \A o \in Ops : op[o].pc = "closing" =>
       /\ lock # <<>>
       /\ \/ Head(lock) = Session
          \/ Head(lock) \in Ops /\ op[Head(lock)].pc = "closing"

\* The safety half of RequestsEnd: no place in a queue is left behind by an
\* operation that was cancelled, timed out or finished while others waited.
THEOREM RequestsLocksAreServed == Spec => []LocksAreServed
<1>1. ASSUME NEW q, NEW S, NEW W, IsQueueOf(q, S, W), NEW x \in W
      PROVE  q # <<>> /\ Head(q) \in W
  <2>1. PICK i \in 1..Len(q) : q[i] = x
    BY <1>1 DEF IsQueueOf
  <2>2. q \in Seq(S) /\ 1 \in 1..Len(q) /\ Head(q) = q[1]
    BY <1>1, <2>1 DEF IsQueueOf
  <2> QED
    BY <1>1, <2>2 DEF IsQueueOf
<1>2. ASSUME IInv, WorkInv PROVE LocksAreServed
  <2>1. ASSUME NEW o \in Ops, op[o].pc = "queued"
        PROVE  queue # <<>> /\ Head(queue) \in Ops /\ op[Head(queue)].pc # "idle"
    <3>1. o \in Queued
      BY <2>1 DEF Queued, InQueue
    <3>2. queue # <<>> /\ Head(queue) \in Queued
      BY <1>1, <1>2, <3>1 DEF WorkInv
    <3> QED
      BY <3>2 DEF Queued, InQueue
  <2>2. ASSUME NEW o \in Ops, op[o].pc = "closing"
        PROVE  /\ lock # <<>>
               /\ \/ Head(lock) = Session
                  \/ Head(lock) \in Ops /\ op[Head(lock)].pc = "closing"
    <3>1. PICK S \in SUBSET {Session} : IsQueueOf(lock, Lockers, Closers \cup S)
      BY <1>2 DEF WorkInv, IsLockOf
    <3>2. o \in Closers \cup S
      BY <2>2 DEF Closers, Closing
    <3>3. lock # <<>> /\ Head(lock) \in Closers \cup S
      <4> DEFINE W == Closers \cup S
      <4>1. IsQueueOf(lock, Lockers, W) /\ o \in W
        BY <3>1, <3>2
      <4> HIDE DEF W
      <4>2. lock # <<>> /\ Head(lock) \in W
        BY <1>1, <4>1
      <4> QED
        BY <4>2 DEF W
    <3>4. CASE Head(lock) \in Closers
      BY <3>3, <3>4 DEF Closers, Closing
    <3>5. CASE Head(lock) \in S
      <4>1. S \subseteq {Session}
        BY <3>1
      <4>2. Head(lock) = Session
        BY <3>5, <4>1
      <4> QED
        BY <3>3, <4>2
    <3> QED
      BY <3>3, <3>4, <3>5
  <2> QED
    BY <2>1, <2>2 DEF LocksAreServed
<1> QED
  BY <1>2, WorkHolds, PTL

\* The other half: an operation takes a bounded number of steps, whatever the
\* television answers; one close after a request that ran out of time, two after
\* an upload.
THEOREM RequestsWorkIsBounded == Spec => [][Progress]_vars
BY WorkHolds, WorkStep, PTL DEF Spec
===============================================================================
