----------------------------- MODULE MCIntegration ----------------------------
(* Small values for the constants of Integration.                            *)
EXTENDS Integration, TLC

ShortDelays == <<1, 2>>
OneDelay == <<1>>
===============================================================================
