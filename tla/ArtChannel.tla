------------------------------ MODULE ArtChannel ------------------------------
(***************************************************************************)
(* What ArtSession promises to the rest of the integration.  The           *)
(* coordinator and the device read only two facts about the Art channel:   *)
(* whether it is ready, and the number of the current generation.  They    *)
(* remember a generation before they wait for the TV and trust an answer   *)
(* that comes back while the channel is ready at that same generation      *)
(* (coordinator._art_session_is_ready, device._optional_generation_is_     *)
(* current).  That is sound only if a generation is up during one unbroken *)
(* interval and a retired channel never comes up again.                    *)
(***************************************************************************)
EXTENDS Naturals

VARIABLES up,       \* a request may be sent now
          epoch,    \* number of times the channel has come up
          retired   \* the owner has asked for the permanent shutdown

vars == <<up, epoch, retired>>

Init == up = FALSE /\ epoch = 0 /\ retired = FALSE

\* The channel comes up: always under a number never used before.
Establish ==
  /\ ~up /\ ~retired
  /\ up' = TRUE
  /\ epoch' = epoch + 1
  /\ UNCHANGED retired

\* The channel is lost, for whatever reason; its number is spent.
Lose ==
  /\ up
  /\ up' = FALSE
  /\ UNCHANGED <<epoch, retired>>

Retire ==
  /\ ~retired
  /\ retired' = TRUE
  /\ up' \in {up, FALSE}
  /\ UNCHANGED epoch

Next == Establish \/ Lose \/ Retire

Spec == Init /\ [][Next]_vars
===============================================================================
