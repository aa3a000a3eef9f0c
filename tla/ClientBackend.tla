----------------------------- MODULE ClientBackend -----------------------------
(***************************************************************************)
(* The client's backend, which main picks by the platform: NetworkManager   *)
(* and its device, or wpa_supplicant and its interface.                     *)
(***************************************************************************)
EXTENDS NmDevice, WpaInterface

VARIABLE backend

vars == <<backend, nmVars, wpaVars>>

TypeOK ==
    /\ backend \in {"NetworkManager", "wpa_supplicant"}
    /\ NmTypeOK /\ WpaTypeOK

Init == backend \in {"NetworkManager", "wpa_supplicant"} /\ NmInit /\ WpaInit

Next ==
    /\ UNCHANGED backend
    /\ \/ backend = "NetworkManager" /\ NmNext /\ UNCHANGED wpaVars
       \/ backend = "wpa_supplicant" /\ WpaNext /\ UNCHANGED nmVars

Spec == Init /\ [][Next]_vars

\* The threads run; nothing is assumed of NetworkManager and its device.
FairSpec == Spec /\ \A t \in Callers : WF_vars(backend = "NetworkManager" /\ CallStep(t)
                                                /\ UNCHANGED <<backend, wpaVars>>)
===============================================================================
