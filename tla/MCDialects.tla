------------------------------ MODULE MCDialects ------------------------------
(* Televisions and tasks for a small instance of Dialects.                   *)
EXTENDS Dialects, TLC

CONSTANTS t1, t2

\* A poll that asks for the slideshow, one that asks for the settings, and the
\* service, which may probe as well.
Calls == (t1 :> {"slideshow"}) @@ (t2 :> {"settings", "write"})

Silent == [r \in Reads |-> {"silence"}]

\* The first knows the older commands and refuses the others, the second knows
\* the modern slideshow, and the third answers the older one as it pleases.
Families ==
  { [Silent EXCEPT !["aggregate"] = {"refused"}, !["brightness"] = {"value"},
                   !["auto"] = {"refused"}, !["status"] = {"value"}],
    [Silent EXCEPT !["color"] = {"value"}, !["auto"] = {"value"}],
    [Silent EXCEPT !["aggregate"] = {"value"}, !["status"] = Outcomes] }
===============================================================================
