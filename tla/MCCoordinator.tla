----------------------------- MODULE MCCoordinator ----------------------------
(* Symmetry and scope for small instances of Coordinator.                    *)
EXTENDS Coordinator, TLC

Symmetry == Permutations(Polls)

\* Two pushes meet one generation, a host fault or an unload meets fewer events,
\* and a stop one of them.
Scope ==
  \/ revision.live + epoch <= IF Retired THEN 1 ELSE 2
  \/ epoch < 2 /\ ~hostFault /\ entry = "loaded"
===============================================================================
