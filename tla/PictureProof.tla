------------------------------ MODULE PictureProof ------------------------------
(***************************************************************************)
(* The safety properties of Picture, for every set of artworks and of      *)
(* requests.  The timestamp moves with the artwork because _shown_id is    *)
(* the last artwork that was published (ShownIsLast).                      *)
(***************************************************************************)
EXTENDS Picture, TLAPS

ShownIsLast == shown = last /\ updated = changes

IInv == TypeOK /\ CacheIsPair /\ ShownIsLast

LEMMA AnswerType ==
  ASSUME TypeOK, NEW r \in Requests, NEW p \in Pictures, Answer(r, p)
  PROVE  /\ request' \in [Requests -> Record]
         /\ viewed' \in [picture : Pictures, of : Nat]
<1>1. Idle \in Record
  BY DEF Idle, Record, Names
<1>2. request[r].of \in Nat
  BY DEF TypeOK, Record
<1> QED
  BY <1>1, <1>2 DEF Answer, TypeOK

LEMMA Initially == Init => IInv
<1> SUFFICES ASSUME Init PROVE IInv
  OBVIOUS
<1>1. Idle \in Record
  BY DEF Idle, Record, Names
<1> QED
  BY <1>1 DEF Init, IInv, TypeOK, CacheIsPair, ShownIsLast, Names, Pictures

LEMMA PublishKeeps ==
  ASSUME IInv, NEW a \in Names, Publish(a)
  PROVE  IInv'
BY DEF IInv, TypeOK, CacheIsPair, ShownIsLast, Publish, IsNew

LEMMA ServeKeeps ==
  ASSUME IInv, NEW r \in Requests, Serve(r)
  PROVE  IInv'
<1> USE DEF IInv
<1>1. request[r] \in Record
  BY DEF TypeOK
<1>2. CASE FromCache(r)
  <2>1. PICK p \in Pictures : Answer(r, p)
    BY <1>2 DEF FromCache, TypeOK, Pictures, Names
  <2> QED
    BY <1>2, <2>1, AnswerType
       DEF FromCache, TypeOK, CacheIsPair, ShownIsLast
<1>3. CASE Download(r)
  <2>1. [request[r] EXCEPT !.pc = "fetching", !.id = current] \in Record
    BY <1>1 DEF Record, TypeOK
  <2>2. request' = [request EXCEPT ![r] =
                      [request[r] EXCEPT !.pc = "fetching", !.id = current]]
    BY <1>1, <1>3 DEF Download, Record, TypeOK
  <2> QED
    BY <1>3, <2>1, <2>2 DEF Download, TypeOK, CacheIsPair, ShownIsLast
<1>4. CASE Fetched(r)
  <2>1. request[r].id \in Names
    BY <1>1 DEF Record
  <2> QED
    BY <1>4, <2>1, AnswerType
       DEF Fetched, TypeOK, CacheIsPair, ShownIsLast, Pictures, Names
<1>5. CASE NotFetched(r)
  BY <1>5, AnswerType
     DEF NotFetched, TypeOK, CacheIsPair, ShownIsLast, Pictures
<1> QED
  BY <1>2, <1>3, <1>4, <1>5 DEF Serve

LEMMA AskKeeps ==
  ASSUME IInv, NEW r \in Requests, Ask(r)
  PROVE  IInv'
<1>1. [pc |-> "asked", id |-> None, of |-> updated] \in Record
  BY DEF IInv, TypeOK, Record, Names
<1> QED
  BY <1>1 DEF IInv, Ask, TypeOK, CacheIsPair, ShownIsLast

LEMMA StepKeeps ==
  ASSUME IInv, [Next]_vars
  PROVE  IInv'
<1>1. CASE UNCHANGED vars
  BY <1>1 DEF vars, IInv, TypeOK, CacheIsPair, ShownIsLast
<1>2. CASE Next
  BY <1>2, PublishKeeps, ServeKeeps, AskKeeps DEF Next
<1> QED
  BY <1>1, <1>2

LEMMA Inductive == Spec => []IInv
BY Initially, StepKeeps, PTL DEF Spec

-------------------------------------------------------------------------------
\* The entity keeps its types.
THEOREM PictureTypeCorrect == Spec => []TypeOK
<1>1. IInv => TypeOK
  BY DEF IInv
<1> QED
  BY <1>1, Inductive, PTL

\* The timestamp moves exactly when another artwork is published, for any
\* interleaving of publications, requests and failed downloads.
THEOREM PictureMovesWithTheWall == Spec => []MovesWithTheWall
<1>1. IInv => MovesWithTheWall
  BY DEF IInv, ShownIsLast, MovesWithTheWall
<1> QED
  BY <1>1, Inductive, PTL

\* No step answers a request with another artwork.
LEMMA ServesItsOwn ==
  ASSUME IInv, NEW r \in Requests, Serve(r), NEW s \in Requests,
         request'[s].pc = "idle", viewed' # viewed
  PROVE  /\ request[s].pc = "fetching"
              => viewed'.picture \in {request[s].id, Placeholder}
         /\ request[s].pc = "asked" /\ current # None => viewed'.picture = current
<1>1. s # r => request'[s] = request[s]
  BY DEF Serve, FromCache, Download, Fetched, NotFetched, Answer, IInv, TypeOK
<1>2. SUFFICES ASSUME s = r PROVE
         /\ request[r].pc = "fetching"
              => viewed'.picture \in {request[r].id, Placeholder}
         /\ request[r].pc = "asked" /\ current # None => viewed'.picture = current
  BY <1>1
<1>3. CASE FromCache(r)
  BY <1>3 DEF FromCache, Answer, Known, IInv, CacheIsPair
<1>4. CASE Fetched(r) \/ NotFetched(r)
  BY <1>4 DEF Fetched, NotFetched, Answer
<1>5. CASE Download(r)
  BY <1>5 DEF Download
<1> QED
  BY <1>3, <1>4, <1>5 DEF Serve

\* For any number of overlapping requests, none is answered with an artwork
\* other than the one it was made for.
THEOREM PictureNeverAnother == Spec => NeverAnother
<1>1. IInv /\ [Next]_vars =>
       [\A r \in Requests :
          /\ request'[r].pc = "idle" /\ viewed' # viewed
          => /\ request[r].pc = "fetching" => viewed'.picture \in {request[r].id, Placeholder}
             /\ request[r].pc = "asked" /\ current # None => viewed'.picture = current]_vars
  <2> SUFFICES ASSUME IInv, Next, NEW s \in Requests,
                      request'[s].pc = "idle", viewed' # viewed
      PROVE  /\ request[s].pc = "fetching"
                  => viewed'.picture \in {request[s].id, Placeholder}
             /\ request[s].pc = "asked" /\ current # None => viewed'.picture = current
    OBVIOUS
  <2>1. PICK r \in Requests : Serve(r)
    BY DEF Next, Publish, Ask
  <2> QED
    BY <2>1, ServesItsOwn
<1> QED
  BY <1>1, Inductive, PTL DEF Spec, NeverAnother
===============================================================================
