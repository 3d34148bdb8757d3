----------------------------- MODULE MCArtSession -----------------------------
(* Small values for the constants of ArtSession.                             *)
EXTENDS ArtSession, TLC

ShortDelays == <<1, 2>>
OneDelay == <<1>>
Symmetry == Permutations(Ops)
===============================================================================
