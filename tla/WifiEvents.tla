------------------------------ MODULE WifiEvents ------------------------------
(***************************************************************************)
(* WifiEventHandler over WifiControl (ModeSwitch), the re-armable timer and *)
(* the events of the systemd units, the wireless link and the hotspot's     *)
(* DHCP leases.  Three threads call in: the GLib loop, which takes events   *)
(* one at a time from the bus; the thread of an expired timer; and the      *)
(* front, which is main during the initial status and a web worker later.   *)
(***************************************************************************)
EXTENDS ModeSwitch, Sequences, FiniteSets

CONSTANTS loop, expiry, front,  \* the threads
          MaxEvents,            \* bound of the bus's queue
          MaxCalls              \* bound of the switches under way together

ASSUME ThreadsAssumption ==
    /\ Threads = {loop, expiry, front}
    /\ loop # expiry /\ expiry # front /\ front # loop
    /\ MaxEvents \in Nat /\ MaxCalls \in Nat

VARIABLES
    task,       \* what each thread is doing
    timer,      \* WifiEventHandler._timer: its function, whether it will run
    queue,      \* signals on the bus, not yet handled by the loop
    link,       \* the wireless link: down, searching, half up, up
    peer,       \* some station holds a lease of the hotspot
    networks,   \* some network is configured
    failed,     \* Service._failed of each unit
    monitoring, \* the connection monitor runs
    deaf,       \* signals of NetworkManager's present run are, or were, not listened to
    mark        \* history: how the timer was last dealt with: armed, or cancelled by the
                \* handler meant to; armed by a retry or by a stale HOTSPOT_STARTED
                \* (misarmed), by the client when the hotspot is on (stale); left unarmed,
                \* or cancelled, by another path (lapsed), or left by an exception (raised)

eventVars == <<task, timer, queue, link, peer, networks, failed, monitoring, deaf, mark>>
vars      == <<switchVars, eventVars>>

NetworkManager == "client" \in SplitRestart     \* else wpa_supplicant and dhcpcd

Tasks  == {"none", "boot", "watch", "initial", "clientTimeout", "peerTimeout",
           "added", "completed", "restart", "peerLeft"}
Events == {"clientActive", "clientInactive", "clientFailed",
           "hotspotActive", "hotspotFailed", "notConnected", "connected",
           "ipAcquired", "peerConnected", "peerDisconnected"}
Links  == {"down", "searching", "half", "up"}

TypeOK ==
    /\ SwitchTypeOK
    /\ task \in [Threads -> Tasks]
    /\ timer \in [fn : {"none", "client", "peer"}, armed : BOOLEAN]
    /\ queue \in Seq(Events) /\ Len(queue) <= MaxEvents
    /\ link \in Links
    /\ peer \in BOOLEAN /\ networks \in BOOLEAN /\ monitoring \in BOOLEAN
    /\ deaf \in BOOLEAN /\ (deaf => NetworkManager)
    /\ failed \in [Units -> BOOLEAN]
    /\ mark \in {"armed", "misarmed", "stale", "lapsed", "raised"}

Init ==
    /\ SwitchInit
    /\ task = [t \in Threads |-> IF t = front THEN "boot" ELSE "none"]
    /\ timer = [fn |-> "none", armed |-> FALSE]
    /\ queue = <<>>
    /\ networks \in BOOLEAN
    /\ link \in IF networks /\ IsActive("client") THEN {"down", "up"} ELSE {"down"}
    /\ peer = FALSE
    /\ failed = [u \in Units |-> FALSE]
    /\ monitoring = FALSE
    /\ deaf \in BOOLEAN /\ (deaf => NetworkManager)
    /\ mark = "armed"

-------------------------------------------------------------------------------
(* The ReusableTimer of common_utility.  cancel does not reach a callback    *)
(* that has begun; restart runs the last function again, even a cancelled.   *)

TimerStart(fn) == timer' = [fn |-> fn, armed |-> TRUE] /\ mark' = "armed"
TimerCancel    == timer' = [timer EXCEPT !.armed = FALSE]
TimerRestart   == IF timer.fn = "none"
                  THEN mark' = "raised" /\ UNCHANGED timer
                  ELSE mark' = "misarmed" /\ timer' = [timer EXCEPT !.armed = TRUE]

SetTask(t, k) == task' = [task EXCEPT ![t] = k]
Idle(t)       == task[t] = "none"

Begin(t, k, m) == Cardinality(Busy) < MaxCalls /\ Call(t, m) /\ SetTask(t, k)

\* get_state asks systemd, and get_status the client for its ssid, over D-Bus: either may
\* raise.  What a callback raises is logged and dropped, and ends the timer's thread.
StatusRaises == mark' = "raised" /\ UNCHANGED timer

TimerExpires ==
    /\ timer.armed
    /\ Idle(expiry)
    /\ TimerCancel
    /\ \/ /\ timer.fn = "client" /\ Begin(expiry, "clientTimeout", "hotspot")
          /\ UNCHANGED mark
       \/ /\ timer.fn # "client" /\ Begin(expiry, "peerTimeout", "client")
          /\ UNCHANGED mark
       \/ mark' = "raised" /\ UNCHANGED <<switchVars, task>>
    /\ UNCHANGED <<queue, link, peer, networks, failed, monitoring, deaf>>

-------------------------------------------------------------------------------
(* The environment: units, the link and the leases change and are signalled. *)

\* What goes with a unit: the link with the client, the leases' holders with the hotspot.
Follow ==
    /\ link' = IF unit'["client"] = "active" THEN link ELSE "down"
    /\ peer' = (peer /\ unit'["hotspot"] = "active")

Signal(e) == Len(queue) < MaxEvents /\ queue' = Append(queue, e)

\* The wireless device's signals reach only who is connected to the present device.
DeviceSignal(e) == Signal(e) \/ (deaf /\ UNCHANGED queue)

UnitChanges ==
    /\ \/ /\ JobEnds("client") \/ UnitDies("client")
          /\ Signal(CASE unit'["client"] = "active"   -> "clientActive"
                      [] unit'["client"] = "inactive" -> "clientInactive"
                      [] unit'["client"] = "failed"   -> "clientFailed")
       \/ /\ JobEnds("hotspot") \/ UnitDies("hotspot")
          /\ CASE unit'["hotspot"] = "active"   -> Signal("hotspotActive")
               [] unit'["hotspot"] = "inactive" -> UNCHANGED queue
               [] unit'["hotspot"] = "failed"   -> Signal("hotspotFailed")
    /\ Follow
    /\ UNCHANGED <<task, timer, networks, failed, monitoring, deaf, mark>>

\* wpa_supplicant associates before dhcpcd binds; NetworkManager reports the
\* address before the connection.  A client that stops reports that it is not connected.
LinkChanges ==
    /\ \/ unit["client"] = "deactivating" /\ DeviceSignal("notConnected") /\ UNCHANGED link
       \/ IsActive("client") /\ link' = "searching" /\ DeviceSignal("notConnected")
       \/ link = "searching" /\ networks /\ link' = "half"
          /\ DeviceSignal(IF NetworkManager THEN "ipAcquired" ELSE "connected")
       \/ link = "half" /\ link' = "up"
          /\ DeviceSignal(IF NetworkManager THEN "connected" ELSE "ipAcquired")
    /\ UNCHANGED <<switchVars, task, timer, peer, networks, failed, monitoring, deaf, mark>>

\* A station gets its lease, or gets it again, or loses it; there may be others.
LeaseChanges ==
    /\ IsActive("hotspot")
    /\ \/ peer' = TRUE /\ Signal("peerConnected")
       \/ peer /\ peer' \in BOOLEAN /\ Signal("peerDisconnected")
    /\ UNCHANGED <<switchVars, task, timer, link, networks, failed, monitoring, deaf, mark>>

-------------------------------------------------------------------------------
(* The loop: one handler at a time, each registered for its events.          *)

Take(e) ==
    /\ Idle(loop)
    /\ queue # <<>> /\ Head(queue) = e
    /\ queue' = Tail(queue)

\* get_state
State == CASE IsActive("client") /\ IsActive("hotspot")   -> "ambiguous"
           [] IsActive("client") /\ ~IsActive("hotspot")  -> "client"
           [] ~IsActive("client") /\ IsActive("hotspot")  -> "hotspot"
           [] OTHER                                       -> "wifi_off"

Quietly == UNCHANGED <<switchVars, task, link, peer, networks, deaf>>

\* CLIENT_STARTED, of which CLIENT_STOPPED is an alias; NetworkManagerService maps
\* unit states to neither.
OnClientUnit(e) ==
    /\ Take(e)
    /\ IF NetworkManager
       THEN UNCHANGED <<timer, mark>>
       ELSE \/ State = "client" /\ TimerStart("client")
            \/ State # "client" /\ UNCHANGED <<timer, mark>>
            \/ StatusRaises
    /\ failed' = IF e = "clientActive" THEN [failed EXCEPT !["client"] = FALSE] ELSE failed
    /\ UNCHANGED monitoring
    /\ Quietly

OnHotspotStarted ==
    /\ Take("hotspotActive")
    /\ failed' = [failed EXCEPT !["hotspot"] = FALSE]
    /\ monitoring' = FALSE
    /\ \/ /\ networks
          /\ timer' = [fn |-> "peer", armed |-> TRUE]
          /\ mark' = IF State = "hotspot" THEN "armed" ELSE "misarmed"
       \/ ~networks /\ UNCHANGED <<timer, mark>>
       \/ StatusRaises
    /\ Quietly

OnClientNotConnected ==
    /\ Take("notConnected")
    /\ monitoring' = FALSE
    /\ \/ /\ timer' = [fn |-> "client", armed |-> TRUE]
          /\ mark' = IF On("hotspot") THEN "stale" ELSE "armed"
       \/ StatusRaises
    /\ UNCHANGED failed
    /\ Quietly

\* Mutant: a connection cancels the timer only once the monitor runs.
OnClientConnectedLate ==
    /\ Take("connected")
    /\ IF monitoring THEN TimerCancel ELSE UNCHANGED timer
    /\ UNCHANGED <<mark, failed, monitoring>>
    /\ Quietly

OnClientConnected ==
    /\ Take("connected")
    /\ \/ TimerCancel /\ mark' = IF State = "client" THEN mark ELSE "lapsed"
       \/ StatusRaises
    /\ UNCHANGED <<failed, monitoring>>
    /\ Quietly

\* Mutant: with NetworkManager the monitor waits for the connection to be reported, with
\* wpa_supplicant it must come before.
OnClientIpAcquiredLate ==
    /\ Take("ipAcquired")
    /\ \/ monitoring' = (monitoring \/ (timer.armed = ~NetworkManager)) /\ UNCHANGED <<timer, mark>>
       \/ UNCHANGED monitoring /\ StatusRaises
    /\ UNCHANGED failed
    /\ Quietly

OnClientIpAcquired ==
    /\ Take("ipAcquired")
    /\ \/ monitoring' = TRUE /\ UNCHANGED <<timer, mark>>
       \/ UNCHANGED monitoring /\ StatusRaises
    /\ UNCHANGED failed
    /\ Quietly

\* Mutant: a peer does not cancel the timer.
OnPeerConnectedKeeps ==
    /\ Take("peerConnected")
    /\ UNCHANGED <<timer, mark, failed, monitoring>>
    /\ Quietly

OnPeerConnected ==
    /\ Take("peerConnected")
    /\ \/ TimerCancel /\ mark' = IF State = "hotspot" THEN mark ELSE "lapsed"
       \/ StatusRaises
    /\ UNCHANGED <<failed, monitoring>>
    /\ Quietly

\* Mutant: the timer is cancelled and no switch follows.
OnPeerDisconnectedCancels ==
    /\ Take("peerDisconnected")
    /\ TimerCancel
    /\ UNCHANGED <<mark, failed, monitoring>>
    /\ Quietly

OnPeerDisconnected ==
    /\ Take("peerDisconnected")
    /\ \/ State = "hotspot" /\ TimerCancel /\ Begin(loop, "peerLeft", "client") /\ UNCHANGED mark
       \/ State # "hotspot" /\ mark' = "lapsed" /\ UNCHANGED <<switchVars, task, timer>>
       \/ StatusRaises /\ UNCHANGED <<switchVars, task>>
    /\ UNCHANGED <<link, peer, networks, failed, monitoring, deaf>>

\* Service._on_service_state_changed restarts a failed unit once; the loop, which does it,
\* does not find the new device of NetworkManager (NmDevice).
OnUnitFailed(u, e) ==
    /\ Take(e)
    /\ failed' = [failed EXCEPT ![u] = TRUE]
    /\ \/ /\ ~failed[u]
          /\ SetUnit(u, AfterRestart(unit[u]))
          /\ tainted' = (tainted \/ Busy # {} \/ On(Other(u)))
          /\ deaf' = (deaf \/ (NetworkManager /\ u = "client"))
          /\ UNCHANGED <<failures, pc, target, loaded, skipped, mark>>
       \/ ~failed[u] /\ mark' = "raised" /\ UNCHANGED <<switchVars, deaf>>
       \/ failed[u]  /\ mark' = "lapsed" /\ UNCHANGED <<switchVars, deaf>>
    /\ Follow
    /\ UNCHANGED <<task, timer, networks, monitoring>>

-------------------------------------------------------------------------------
(* The front: main's _handle_initial_status, then web requests.              *)

InitialStatus ==
    /\ task[front] = "boot"
    /\ \/ ~networks /\ Begin(front, "initial", "hotspot") /\ UNCHANGED mark
       \/ networks /\ Begin(front, "initial", "client") /\ UNCHANGED mark
       \/ networks /\ State = "client" /\ link = "up" /\ SetTask(front, "watch")
          /\ UNCHANGED <<switchVars, mark>>
       \/ SetTask(front, "none") /\ mark' = "raised" /\ UNCHANGED switchVars
    /\ UNCHANGED <<timer, queue, link, peer, networks, failed, monitoring, deaf>>

InitialMonitoring ==
    /\ task[front] = "watch"
    /\ SetTask(front, "none")
    /\ monitoring' = TRUE
    /\ UNCHANGED <<switchVars, timer, queue, link, peer, networks, failed, deaf, mark>>

OnAddNetworkRequested ==
    /\ Idle(front)
    /\ networks' = TRUE
    /\ SetTask(front, "added")
    /\ UNCHANGED <<switchVars, timer, queue, link, peer, failed, monitoring, deaf, mark>>

WebRequest ==
    /\ \/ task[front] = "added" /\ Begin(front, "completed", "client")
       \/ Idle(front) /\ Begin(front, "restart", "client")
    /\ UNCHANGED <<timer, queue, link, peer, networks, failed, monitoring, deaf, mark>>

-------------------------------------------------------------------------------
(* Every thread: the steps of a switch, and what its caller does afterwards. *)

\* Mutant: the failures are counted down.
FailDown(t) ==
    /\ pc[t] \in Requests
    /\ Goto(t, "raised")
    /\ failures' = failures - 1
    /\ UNCHANGED <<unit, target, loaded, tainted, skipped>>

\* An exception and _handle_failure in one step: ModeSwitch takes it apart.  At the limit
\* the command for the failures is executed, or raises.
Fail(t) ==
    /\ pc[t] \in Requests
    /\ \/ /\ failures + 1 >= FailLimit
          /\ Goto(t, "commanded")
          /\ failures' = 0 /\ skipped' = FALSE
       \/ /\ failures < MaxFailures
          /\ Goto(t, "raised")
          /\ failures' = failures + 1 /\ skipped' = (failures + 1 >= FailLimit)
    /\ UNCHANGED <<unit, target, loaded, tainted>>

\* A new run of NetworkManager is not listened to before its start is through, nor after
\* it when the loop has started it, or when the look-up found the old device or none; what
\* it reported meanwhile is lost.
Listen(t) ==
    IF NetworkManager /\ target[t] = "client"
    THEN CASE pc[t] = "start" /\ ~On("client") -> deaf' = TRUE
           [] pc[t] = "clear" /\ t # loop      -> deaf' \in {deaf, deaf /\ link # "down"}
           [] OTHER                            -> UNCHANGED deaf
    ELSE UNCHANGED deaf

Switching(t) ==
    /\ \/ Request(t) /\ Listen(t)
       \/ Fail(t) /\ UNCHANGED deaf
    /\ Follow
    /\ UNCHANGED <<task, timer, queue, networks, failed, monitoring, mark>>

\* Mutant: no exception path restarts the timer.
AfterRaiseNothing(k) ==
    IF k \in {"restart", "initial"} THEN mark' = "raised" /\ UNCHANGED timer
                                    ELSE UNCHANGED <<mark, timer>>

\* The exception path of each caller of start_client_mode or start_hotspot_mode.
AfterRaise(k) ==
    CASE k \in {"clientTimeout", "peerTimeout", "peerLeft", "completed"} -> TimerRestart
      [] k \in {"restart", "initial"} -> mark' = "raised" /\ UNCHANGED timer

\* The normal path: the two web requests cancel the timer once the switch is queued.
AfterSwitch(k, outcome) ==
    /\ IF k \in {"completed", "restart"} THEN TimerCancel ELSE UNCHANGED timer
    /\ mark' = IF outcome = "commanded" \/ k \in {"completed", "restart"}
               THEN "lapsed" ELSE mark

Finish(t) ==
    /\ pc[t] \in Outcomes
    /\ Return(t)
    /\ SetTask(t, "none")
    /\ IF pc[t] = "raised" THEN AfterRaise(task[t]) ELSE AfterSwitch(task[t], pc[t])
    /\ UNCHANGED <<queue, link, peer, networks, failed, monitoring, deaf>>

Loop ==
    \/ \E e \in {"clientActive", "clientInactive"} : OnClientUnit(e)
    \/ OnHotspotStarted \/ OnClientNotConnected \/ OnClientConnected
    \/ OnClientIpAcquired \/ OnPeerConnected \/ OnPeerDisconnected
    \/ OnUnitFailed("client", "clientFailed")
    \/ OnUnitFailed("hotspot", "hotspotFailed")

Next ==
    \/ UnitChanges \/ LinkChanges \/ LeaseChanges
    \/ Loop \/ TimerExpires
    \/ InitialStatus \/ InitialMonitoring \/ OnAddNetworkRequested \/ WebRequest
    \/ \E t \in Threads : Switching(t) \/ Finish(t)

Spec == Init /\ [][Next]_vars

-------------------------------------------------------------------------------
\* Nothing is left to do but wait for the timer or for the outside world.
Settled ==
    /\ \A t \in Threads : Idle(t)
    /\ queue = <<>>
    /\ \A u \in Units : unit[u] \notin {"activating", "deactivating"}

\* Someone is served: the client has a link, or is about to report on it; the
\* hotspot has a peer, or has no network to go back to.
Served ==
    \/ IsActive("client") /\ link \in {"down", "half", "up"}
    \/ IsActive("hotspot") /\ (peer \/ ~networks)

(* The fallback is armed: once the program has settled with no one served,   *)
(* the timer that will try the other mode is running, unless the last thing  *)
(* done to it is one of the paths that mark it "lapsed" or "raised", or the  *)
(* client's signals were not listened to.                                    *)
FallbackArmed ==
    Settled /\ ~Served =>
        timer.armed \/ mark \in {"lapsed", "raised"} \/ (deaf /\ IsActive("client"))

(* Whoever is served is left alone: once the events of a connection, or of a *)
(* peer's lease, are handled, no timer is left that would switch the mode     *)
(* from under it, unless a failed switch or a failed handler left one; or, in *)
(* hotspot mode, an event of the client that came late; or, in client mode,   *)
(* NetworkManager's signals were not listened to.                             *)
ServedLeftAlone ==
    /\ Settled /\ timer.armed
    /\ \/ State = "client" /\ link = "up"
       \/ State = "hotspot" /\ peer
    => \/ mark \in {"misarmed", "lapsed", "raised"}
       \/ State = "hotspot" /\ mark = "stale"
       \/ State = "client" /\ deaf

(* A client with an address is watched: the monitor runs, whichever of main's *)
(* initial status and the loop started or stopped it last, unless a failed    *)
(* switch or handler came in between, or the client was not listened to.      *)
ConnectedWatched ==
    Settled /\ State = "client" /\ link = "up" =>
        monitoring \/ mark \in {"misarmed", "lapsed", "raised"} \/ deaf

(* The README, line 35: "If for some reason any edge device lost the network *)
(* connection for a configured amount of time, it will switch to Wi-Fi       *)
(* hotspot mode": a client that looks for its network has the timer running, *)
(* as far as nothing raises and every signal is listened to.                 *)
LostConnectionFallsBack ==
    Settled /\ State = "client" /\ link = "searching" =>
        timer.armed \/ mark = "raised" \/ deaf
===============================================================================
