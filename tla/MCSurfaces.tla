---- MODULE MCSurfaces ----
(***************************************************************************)
(* The TLC run of BrokerSocket and ControlCenter.  The two share nothing,  *)
(* so it is enough to let one run while the other rests.  What becomes of  *)
(* lines does not depend on the path, nor the path on lines: they are sent *)
(* where one broker is started by hand, and two are where none is sent.    *)
(***************************************************************************)
EXTENDS BrokerSocket, ControlCenter

VARIABLE part

Init ==
    /\ part \in {"paths", "lines", "center"}
    /\ BrokerInit /\ CenterInit
    /\ part = "center" => python = "3.11"

Broker ==
    /\ part \in {"paths", "lines"}
    /\ BrokerNext
    /\ IF part = "paths" THEN \A c \in Clients : sent'[c] = <<>> ELSE st'["b2"] = "off"
    /\ UNCHANGED <<part, centerVars>>
Center == part = "center" /\ CenterNext /\ UNCHANGED <<part, brokerVars>>

Next == Broker \/ Center

(* A part that rests has no step that fairness asks for.                   *)
Spec == /\ Init /\ [][Next]_<<part, brokerVars, centerVars>>
        /\ BrokerFairness /\ CenterFairness
====
