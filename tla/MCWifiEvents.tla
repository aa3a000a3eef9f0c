----------------------------- MODULE MCWifiEvents -----------------------------
(* Model checking of WifiEvents, with NetworkManager or with wpa_supplicant.  *)
EXTENDS WifiEvents

MCThreads      == {loop, expiry, front}
MCNetworkManager == {"client"}
MCWpaSupplicant  == {}

(* What the next steps and the invariants depend on: not the history of the   *)
(* overlaps, nor how a timer that is not armed came to be so; nor, where      *)
(* ConnectedWatched is not checked, the monitor; nor the count of failures    *)
(* where it is out of reach of its limit at the depth of the search.          *)
MCWpaView == <<unit, pc, target, task, timer, queue, link, peer, networks, failed,
               deaf, IF mark = "raised" THEN "lapsed" ELSE mark>>
MCView    == <<MCWpaView, failures, monitoring>>
===============================================================================
