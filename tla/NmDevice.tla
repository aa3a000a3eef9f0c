------------------------------- MODULE NmDevice -------------------------------
(***************************************************************************)
(* NetworkManagerService's start and restart, and the handler they connect  *)
(* to the wireless device.  Each run of NetworkManager has a device object  *)
(* of its own; the client knows it from a cache that the GLib loop updates, *)
(* and so not while the loop itself is inside a restart, which is where a   *)
(* failed unit is restarted and the departure of the last peer is answered. *)
(* The other modes are switched on another thread.                          *)
(***************************************************************************)
EXTENDS Integers, FiniteSets

CONSTANTS
    MaxRetries,     \* NetworkManagerDbus._max_retries
    MaxRuns,        \* bound of the runs of NetworkManager
    MaxDeaths       \* bound of its deaths

ASSUME NmBoundsAssumption == {MaxRetries, MaxDeaths} \subseteq Nat /\ MaxRuns \in Nat \ {0}

VARIABLES
    unit, job,      \* NetworkManager's unit, and what systemd has still to do to it
    run,            \* the run of NetworkManager: the present or the last
    live,           \* the run whose device is on the bus, 0 for none
    cache,          \* the run whose device the client knows, 0 for none
    failedSignal,   \* 'failed' is on its way to the loop
    call,           \* where each thread is in start or restart
    tries,          \* retry_count
    handlers,       \* how often each thread connected the handler to this run's device
    deaths,         \* how many of the bounded deaths there were
    via,            \* history: who asked for the present run
    outcome,        \* history: how each thread's last start ended
    repeated        \* history: the present run was asked for once more

nmUnit == <<unit, job, run, live, deaths, via>>
nmCall == <<call, tries, handlers, outcome>>
nmVars == <<nmUnit, cache, failedSignal, nmCall, repeated>>

Callers == {"loop", "caller"}   \* caller: main, then the timer or a web worker
Runs    == 1..MaxRuns

NmTypeOK ==
    /\ unit \in {"up", "down"} /\ job \in {"none", "start", "stop", "restart"}
    /\ run \in Runs /\ live \in {0, run} /\ cache \in 0..run
    /\ failedSignal \in BOOLEAN /\ repeated \in BOOLEAN
    /\ call \in [Callers -> {"idle", "stop", "start", "look"}]
    /\ tries \in [Callers -> 0..MaxRetries + 1]
    /\ handlers \in [Callers -> 0..2]
    /\ deaths \in 0..MaxDeaths
    /\ via \in Callers \cup {"outside"}
    /\ outcome \in [Callers -> {"none", "early", "gaveUp"}]

NoHandler == [t \in Callers |-> 0]

\* NetworkManager runs since the boot; main is about to start it in its setup.
NmInit ==
    /\ unit = "up" /\ job = "none" /\ run = 1 /\ live \in {0, 1} /\ cache \in {0, live}
    /\ failedSignal = FALSE /\ repeated = FALSE
    /\ call = [t \in Callers |-> IF t = "caller" THEN "start" ELSE "idle"]
    /\ tries = [t \in Callers |-> 0]
    /\ handlers = NoHandler
    /\ deaths = 0 /\ via = "outside"
    /\ outcome = [t \in Callers |-> "none"]

Connected == handlers["loop"] + handlers["caller"]

\* What is connected to the device of an earlier run is of no use any more; more than
\* once counts as twice.
Connect(t) ==
    handlers' = IF cache = run THEN [handlers EXCEPT ![t] = IF @ = 2 THEN 2 ELSE @ + 1]
                               ELSE handlers

-------------------------------------------------------------------------------
(* systemd, NetworkManager and its bus. *)

AfterAskStart ==
    CASE unit = "down"                 -> "start"
      [] unit = "up" /\ job = "stop"   -> "restart"
      [] OTHER                         -> job

AfterAskStop == IF unit = "up" THEN "stop" ELSE "none"

NmJobStep ==
    /\ \/ /\ job \in {"stop", "restart"}
          /\ unit' = "down" /\ live' = 0
          /\ job' = IF job = "restart" THEN "start" ELSE "none"
          /\ UNCHANGED <<run, handlers>>
       \/ /\ job = "start" /\ run < MaxRuns
          /\ unit' = "up" /\ run' = run + 1 /\ job' = "none"
          /\ handlers' = NoHandler
          /\ UNCHANGED live
    /\ UNCHANGED <<deaths, via, cache, failedSignal, call, tries, outcome, repeated>>

DeviceAppears ==
    /\ unit = "up" /\ live = 0
    /\ live' = run
    /\ UNCHANGED <<unit, job, run, deaths, via, cache, failedSignal, nmCall, repeated>>

\* systemd starts it again by itself, or leaves it failed.
NmDies ==
    /\ unit = "up" /\ job = "none" /\ deaths < MaxDeaths
    /\ unit' = "down" /\ live' = 0 /\ deaths' = deaths + 1
    /\ \/ failedSignal' = TRUE /\ UNCHANGED <<job, via, repeated>>
       \/ job' = "start" /\ via' = "outside" /\ repeated' = FALSE /\ UNCHANGED failedSignal
    /\ UNCHANGED <<run, cache, nmCall>>

\* The loop dispatches what the bus has told it of the devices.
Refresh ==
    /\ call["loop"] = "idle" /\ cache # live
    /\ cache' = live
    /\ UNCHANGED <<nmUnit, failedSignal, nmCall, repeated>>

-------------------------------------------------------------------------------
(* start and restart. *)

Enter(t, place) == call' = [call EXCEPT ![t] = place]

\* The unit's failure is handled on the loop's thread: it restarts the unit, unless it
\* failed before and was not seen active since.
NmFails ==
    /\ call["loop"] = "idle" /\ failedSignal
    /\ failedSignal' = FALSE
    /\ call' \in {call, [call EXCEPT !["loop"] = "stop"]}
    /\ UNCHANGED <<nmUnit, cache, tries, handlers, outcome, repeated>>

\* start_client_mode, which the loop runs itself when the last peer has left: a unit that
\* is not yet active is started once more.
ClientMode(t) ==
    /\ call[t] = "idle"
    /\ Enter(t, IF unit = "up" THEN "stop" ELSE "start")
    /\ UNCHANGED <<nmUnit, cache, failedSignal, tries, handlers, outcome, repeated>>

\* start_hotspot_mode
HotspotMode ==
    /\ call["caller"] = "idle" /\ unit = "up"
    /\ job' = AfterAskStop
    /\ UNCHANGED <<unit, run, live, deaths, via, cache, failedSignal, nmCall, repeated>>

\* Mutant: restart does not stop the unit.
RestartStopsNothing(t) ==
    /\ call[t] = "stop" /\ Enter(t, "start")
    /\ UNCHANGED <<nmUnit, cache, failedSignal, tries, handlers, outcome, repeated>>

\* The delay that follows is as long as it is: the cache may be behind at its end.
RestartStops(t) ==
    /\ call[t] = "stop" /\ Enter(t, "start")
    /\ job' = AfterAskStop
    /\ UNCHANGED <<unit, run, live, deaths, via, cache, failedSignal, tries, handlers,
                   outcome, repeated>>

Start(t) ==
    /\ call[t] = "start" /\ Enter(t, "look")
    /\ job' = AfterAskStart
    /\ tries' = [tries EXCEPT ![t] = 0]
    /\ outcome' = [outcome EXCEPT ![t] = "none"]
    /\ IF job' = job
       THEN /\ repeated' = (repeated \/ Connected > 0
                            \/ \E u \in Callers \ {t} : call[u] = "look")
            /\ UNCHANGED via
       ELSE via' = t /\ repeated' = FALSE
    /\ UNCHANGED <<unit, run, live, deaths, cache, failedSignal, handlers>>

\* Mutant: a device that was not there at the first look is not connected.
KnownAtOnce(t) ==
    /\ cache # 0
    /\ IF tries[t] = 0 THEN Connect(t) ELSE UNCHANGED handlers
    /\ outcome' = [outcome EXCEPT ![t] = IF cache = live /\ job = "none" THEN @ ELSE "early"]
    /\ Enter(t, "idle")
    /\ UNCHANGED tries

\* Mutant: the look-up goes on after the handler was connected.
KnownTwice(t) ==
    /\ cache # 0
    /\ Connect(t)
    /\ outcome' = [outcome EXCEPT ![t] = IF cache = live /\ job = "none" THEN @ ELSE "early"]
    /\ tries' = [tries EXCEPT ![t] = IF @ <= MaxRetries THEN @ + 1 ELSE @]
    /\ Enter(t, IF tries'[t] <= MaxRetries THEN "look" ELSE "idle")

Known(t) ==
    /\ cache # 0
    /\ Connect(t)
    /\ outcome' = [outcome EXCEPT ![t] = IF cache = live /\ job = "none" THEN @ ELSE "early"]
    /\ Enter(t, "idle")
    /\ UNCHANGED tries

\* Mutant: the wait for the device has no bound.
UnknownForever(t) == cache = 0 /\ UNCHANGED nmCall

Unknown(t) ==
    /\ cache = 0
    /\ tries' = [tries EXCEPT ![t] = @ + 1]
    /\ IF tries'[t] <= MaxRetries
       THEN UNCHANGED <<call, outcome>>
       ELSE Enter(t, "idle") /\ outcome' = [outcome EXCEPT ![t] = "gaveUp"]
    /\ UNCHANGED handlers

\* add_connection_handler
Look(t) ==
    /\ call[t] = "look"
    /\ Known(t) \/ Unknown(t)
    /\ UNCHANGED <<nmUnit, cache, failedSignal, repeated>>

CallStep(t) == RestartStops(t) \/ Start(t) \/ Look(t)

NmNext ==
    \/ NmJobStep \/ DeviceAppears \/ NmDies \/ Refresh
    \/ NmFails \/ HotspotMode
    \/ \E t \in Callers : ClientMode(t) \/ CallStep(t)

-------------------------------------------------------------------------------
NmSettled ==
    /\ \A t \in Callers : call[t] = "idle"
    /\ ~failedSignal /\ job = "none" /\ unit = "up" /\ live = run /\ cache = live

(* Once things settle the handler is connected to the device that lives,     *)
(* unless NetworkManager was started by the loop or from outside, or the     *)
(* look-up was ahead of the loop, or given up.                               *)
DeviceHeard ==
    NmSettled /\ via = "caller" /\ outcome["caller"] = "none" => Connected > 0

(* The loop never connects the handler to the device that its start or       *)
(* restart leads to: it looks the device up in a cache that only it could    *)
(* have updated.  After a failure that is handled so, or the departure of    *)
(* the last peer, the events of the client are lost until another thread     *)
(* starts it again.                                                          *)
LoopRestartDeaf == NmSettled => handlers["loop"] = 0

(* No event of the device is handled twice, unless the program asked for a   *)
(* start of a NetworkManager that was running, or starting, already.         *)
HandlerOnce == NmSettled => Connected <= 1 \/ repeated

(* A restart on the loop's thread lets the loop go, whatever the device does. *)
LoopLetGo == call["loop"] # "idle" ~> call["loop"] = "idle"
===============================================================================
