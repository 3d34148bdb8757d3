--------------------------------- MODULE Picture ---------------------------------
(***************************************************************************)
(* FrameCurrentArtImage (image.py): the picture of the artwork on the      *)
(* wall, a cache of one picture that is filled by whoever asks, and the    *)
(* timestamp that tells the frontend to ask again.                         *)
(*                                                                         *)
(* Home Assistant asks for the picture whenever a frontend does, so        *)
(* requests overlap; an action is one stretch of a request between two     *)
(* awaits.  A picture is named by the artwork it shows.  The coordinator   *)
(* publishes an artwork, or None, at any time (Coordinator), and the       *)
(* television serves a thumbnail, or not (ArtRequests).                    *)
(***************************************************************************)
EXTENDS Naturals

CONSTANTS
  Artworks,     \* content ids
  None,         \* no content id, no picture
  Placeholder,  \* the picture that shows no artwork
  Requests,     \* requests of the frontend that may be under way
  MaxChanges    \* bound: how often another artwork is published

ASSUME NamesAssumption ==
  None \notin Artworks /\ Placeholder \notin Artworks /\ None # Placeholder
ASSUME BoundAssumption == MaxChanges \in Nat

VARIABLES
  current,    \* coordinator.data.current_art
  fetched,    \* _fetched_id and _fetched_image
  shown,      \* _shown_id
  updated,    \* image_last_updated: how often it moved
  request,    \* each request: where it is and its locals
  viewed,     \* what the frontend shows, and the timestamp it asked for
  last,       \* history: the last artwork that was published
  changes     \* history: how often it was another one

vars == <<current, fetched, shown, updated, request, viewed, last, changes>>

Names == Artworks \cup {None}
Pictures == Artworks \cup {None, Placeholder}

\* id is the artwork asked for; of, the timestamp in the URL.
Idle == [pc |-> "idle", id |-> None, of |-> 0]

Init ==
  /\ current \in Names
  /\ fetched = [id |-> None, image |-> None]
  /\ shown = current
  /\ updated = IF current = None THEN 0 ELSE 1
  /\ request = [r \in Requests |-> Idle]
  /\ viewed = [picture |-> Placeholder, of |-> 0]
  /\ last = current /\ changes = IF current = None THEN 0 ELSE 1

\* Mutant: an artwork is new unless its picture was fetched.
IsNew_Fetched(a) == a # None /\ a # fetched.id
IsNew(a) == a # None /\ a # shown

\* The coordinator publishes, perhaps what it published before, and
\* _handle_coordinator_update runs.
Publish(a) ==
  /\ a \notin {None, last} => changes < MaxChanges
  /\ current' = a
  /\ IF IsNew(a) THEN shown' = a /\ updated' = updated + 1
                 ELSE UNCHANGED <<shown, updated>>
  /\ IF a \in {None, last} THEN UNCHANGED <<last, changes>>
                           ELSE last' = a /\ changes' = changes + 1
  /\ UNCHANGED <<fetched, request, viewed>>

-------------------------------------------------------------------------------
(* async_image *)

\* The answer to a request made for the timestamp `of`: the frontend shows the
\* one of the newest URL.
Answer(r, picture) ==
  /\ request' = [request EXCEPT ![r] = Idle]
  /\ viewed' = IF request[r].of >= viewed.of
               THEN [picture |-> picture, of |-> request[r].of] ELSE viewed

Known(a) == fetched.id = a /\ fetched.image # None

\* The frontend asks for the URL of the present timestamp.
Ask(r) ==
  /\ request[r].pc = "idle"
  /\ request' = [request EXCEPT ![r] = [pc |-> "asked", id |-> None, of |-> updated]]
  /\ UNCHANGED <<current, fetched, shown, updated, viewed, last, changes>>

\* Mutant: any picture in the cache will do.
FromCache_Any(r) ==
  /\ request[r].pc = "asked" /\ fetched.image # None
  /\ Answer(r, fetched.image)
  /\ UNCHANGED <<current, fetched, shown, updated, last, changes>>

\* Nothing to download: no artwork is known, or its picture is here.
FromCache(r) ==
  /\ request[r].pc = "asked"
  /\ \/ current = None /\ Answer(r, IF fetched.image = None THEN Placeholder
                                    ELSE fetched.image)
     \/ current # None /\ Known(current) /\ Answer(r, fetched.image)
  /\ UNCHANGED <<current, fetched, shown, updated, last, changes>>

\* async_get_art_thumbnail is awaited.
Download(r) ==
  /\ request[r].pc = "asked" /\ current # None /\ ~Known(current)
  /\ request' = [request EXCEPT ![r].pc = "fetching", ![r].id = current]
  /\ UNCHANGED <<current, fetched, shown, updated, viewed, last, changes>>

\* Mutant: the picture is kept under the artwork that is on the wall by now.
Fetched_Current(r) ==
  /\ request[r].pc = "fetching"
  /\ fetched' = [id |-> current, image |-> request[r].id]
  /\ Answer(r, request[r].id)
  /\ UNCHANGED <<current, shown, updated, last, changes>>

\* Mutant: a picture that did not come is kept as one.
Fetched_NoImage(r) ==
  /\ request[r].pc = "fetching"
  /\ fetched' = [id |-> request[r].id, image |-> Placeholder]
  /\ Answer(r, Placeholder)
  /\ UNCHANGED <<current, shown, updated, last, changes>>

Fetched(r) ==
  /\ request[r].pc = "fetching"
  /\ fetched' = [id |-> request[r].id, image |-> request[r].id]
  /\ Answer(r, request[r].id)
  /\ UNCHANGED <<current, shown, updated, last, changes>>

\* The session is not ready, or the television does not serve it.
NotFetched(r) ==
  /\ request[r].pc = "fetching"
  /\ Answer(r, Placeholder)
  /\ UNCHANGED <<current, fetched, shown, updated, last, changes>>

Serve(r) == FromCache(r) \/ Download(r) \/ Fetched(r) \/ NotFetched(r)

Next ==
  \/ \E a \in Names : Publish(a)
  \/ \E r \in Requests : Ask(r) \/ Serve(r)

Spec == Init /\ [][Next]_vars

\* A request is served, and the frontend asks again now and then: the access
\* token in the URL, which Home Assistant rotates, is enough for that.
FairSpec ==
  Spec /\ WF_vars(\E r \in Requests : Ask(r)) /\ \A r \in Requests : WF_vars(Serve(r))

-------------------------------------------------------------------------------
(* What the picture promises *)

Record == [pc : {"idle", "asked", "fetching"}, id : Names, of : Nat]

TypeOK ==
  /\ current \in Names /\ shown \in Names /\ last \in Names
  /\ fetched \in [id : Names, image : Names]
  /\ updated \in Nat /\ changes \in Nat
  /\ request \in [Requests -> Record]
  /\ viewed \in [picture : Pictures, of : Nat]

\* The picture in the cache is that of the artwork it is kept for, whatever was
\* published while it was downloaded.
CacheIsPair == fetched.image # None => fetched.image = fetched.id

\* A request made while an artwork is known is answered with its picture or
\* with the placeholder, never with some other artwork (image.py:90).
NeverAnother ==
  [][\A r \in Requests :
       /\ request'[r].pc = "idle" /\ viewed' # viewed
       => /\ request[r].pc = "fetching" => viewed'.picture \in {request[r].id, Placeholder}
          /\ request[r].pc = "asked" /\ current # None => viewed'.picture = current]_vars

\* The timestamp moves when another artwork is on the wall and at no other
\* time, however often it is published and however often its download fails:
\* each move makes every frontend download the picture again.
MovesWithTheWall == updated = changes

\* A frontend does not keep showing an artwork that has left the wall for good.
CatchesUp ==
  \A a \in Artworks : <>[](current = a) => <>[](viewed.picture \in {a, Placeholder})
===============================================================================
