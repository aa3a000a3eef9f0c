------------------------------ MODULE ModeSwitch ------------------------------
(***************************************************************************)
(* WifiControl: the operation that puts the device in client or in hotspot  *)
(* mode, run without a lock by any of the program's threads, over systemd   *)
(* units whose start and stop are jobs that finish later.  A call is a      *)
(* sequence of D-Bus requests; another thread, or systemd, may act between  *)
(* any two of them.                                                         *)
(***************************************************************************)
EXTENDS Integers

CONSTANTS
    Threads,        \* threads that call WifiControl
    FailLimit,      \* WifiControlConfig.switch_fail_limit
    MaxFailures,    \* bound of the model: over it no failure begins, no command raises
    SplitRestart    \* units whose restart is stop, sleep, start (NetworkManager)

ASSUME FailLimitAssumption == FailLimit \in Nat \ {0} /\ MaxFailures \in Nat

Units == {"client", "hotspot"}
ASSUME SplitRestartAssumption == SplitRestart \subseteq Units

Other(u) == IF u = "client" THEN "hotspot" ELSE "client"

VARIABLES
    unit,       \* ActiveState of each systemd unit
    failures,   \* WifiControl._failures
    pc,         \* where each thread is inside a call
    target,     \* the mode each thread's call switches to ("client" when idle)
    loaded,     \* the value of _failures each thread has read
    tainted,    \* history: the current calls overlapped, or one missed a unit coming up
    skipped     \* history: the count was left at the limit, by a command that raised

switchVars == <<unit, failures, pc, target, loaded, tainted, skipped>>

UnitStates == {"inactive", "activating", "active", "deactivating", "failed"}

Requests == {"checkOther", "stopOther", "checkOwn", "start", "restart", "clear"}
Recovery == {"fail", "count", "check", "command", "zero"}
Outcomes == {"switched", "commanded", "raised"}
Places   == {"idle"} \cup Requests \cup Recovery \cup Outcomes

SwitchTypeOK ==
    /\ unit \in [Units -> UnitStates]
    /\ failures \in Nat
    /\ pc \in [Threads -> Places]
    /\ target \in [Threads -> Units]
    /\ loaded \in [Threads -> Nat]
    /\ tainted \in BOOLEAN /\ skipped \in BOOLEAN

\* Service.setup has started the client and stopped the hotspot.
SwitchInit ==
    /\ unit \in [Units -> UnitStates]
    /\ unit["client"] \in {"activating", "active"}
    /\ unit["hotspot"] \in {"inactive", "deactivating"}
    /\ failures = 0
    /\ pc = [t \in Threads |-> "idle"]
    /\ target = [t \in Threads |-> "client"]
    /\ loaded = [t \in Threads |-> 0]
    /\ tainted = FALSE /\ skipped = FALSE

-------------------------------------------------------------------------------
(* The systemd units, as the program sees them over D-Bus.                  *)

\* "activating" is not active: Service.is_active compares with 'active'.
IsActive(u) == unit[u] = "active"

\* The unit runs, or will when its queued job is done.
On(u) == unit[u] \in {"activating", "active"}

BothOn == \A u \in Units : On(u)

AfterStart(s)   == IF s = "active" THEN "active" ELSE "activating"
AfterStop(s)    == IF s \in {"activating", "active"} THEN "deactivating" ELSE s
AfterRestart(s) == "activating"

SetUnit(u, s) == unit' = [unit EXCEPT ![u] = s]

\* A queued job ends: a start may fail, a stop does not.
JobEnds(u) ==
    /\ \/ unit[u] = "activating" /\ \E s \in {"active", "failed"} : SetUnit(u, s)
       \/ unit[u] = "deactivating" /\ SetUnit(u, "inactive")
    /\ UNCHANGED <<failures, pc, target, loaded, tainted, skipped>>

\* The unit's process dies.
UnitDies(u) ==
    /\ IsActive(u)
    /\ SetUnit(u, "failed")
    /\ UNCHANGED <<failures, pc, target, loaded, tainted, skipped>>

-------------------------------------------------------------------------------
(* start_client_mode and start_hotspot_mode: the same steps with the roles   *)
(* of the two units exchanged.                                               *)

Goto(t, place) == pc' = [pc EXCEPT ![t] = place]

Busy == {t \in Threads : pc[t] # "idle"}

Call(t, m) ==
    /\ pc[t] = "idle"
    /\ Goto(t, "checkOther")
    /\ target' = [target EXCEPT ![t] = m]
    /\ tainted' = (Busy # {})
    /\ UNCHANGED <<unit, failures, loaded, skipped>>

\* Mutant: the other unit is not looked at.
CheckOtherSkipped(t) ==
    /\ pc[t] = "checkOther"
    /\ Goto(t, "checkOwn")
    /\ UNCHANGED <<unit, failures, target, loaded, tainted, skipped>>

\* Reading a unit that is still coming up as not active is the miss.
CheckOther(t) ==
    LET other == Other(target[t]) IN
    /\ pc[t] = "checkOther"
    /\ Goto(t, IF IsActive(other) THEN "stopOther" ELSE "checkOwn")
    /\ tainted' = (tainted \/ unit[other] = "activating")
    /\ UNCHANGED <<unit, failures, target, loaded, skipped>>

\* Mutant: the wrong unit is stopped.
StopOtherSwapped(t) ==
    /\ pc[t] = "stopOther"
    /\ Goto(t, "checkOwn")
    /\ SetUnit(target[t], AfterStop(unit[target[t]]))
    /\ UNCHANGED <<failures, target, loaded, tainted, skipped>>

StopOther(t) ==
    LET other == Other(target[t]) IN
    /\ pc[t] = "stopOther"
    /\ Goto(t, "checkOwn")
    /\ SetUnit(other, AfterStop(unit[other]))
    /\ UNCHANGED <<failures, target, loaded, tainted, skipped>>

CheckOwn(t) ==
    /\ pc[t] = "checkOwn"
    /\ Goto(t, IF IsActive(target[t]) THEN "restart" ELSE "start")
    /\ UNCHANGED <<unit, failures, target, loaded, tainted, skipped>>

Start(t) ==
    /\ pc[t] = "start"
    /\ Goto(t, "clear")
    /\ SetUnit(target[t], AfterStart(unit[target[t]]))
    /\ UNCHANGED <<failures, target, loaded, tainted, skipped>>

\* NetworkManagerService.restart stops the unit, sleeps and starts it.
Restart(t) ==
    LET own == target[t] IN
    /\ pc[t] = "restart"
    /\ IF own \in SplitRestart
       THEN Goto(t, "start") /\ SetUnit(own, AfterStop(unit[own]))
       ELSE Goto(t, "clear") /\ SetUnit(own, AfterRestart(unit[own]))
    /\ UNCHANGED <<failures, target, loaded, tainted, skipped>>

Clear(t) ==
    /\ pc[t] = "clear"
    /\ Goto(t, "switched")
    /\ failures' = 0 /\ skipped' = FALSE
    /\ UNCHANGED <<unit, target, loaded, tainted>>

\* Any request may raise; at "clear" it is _complete_start, after the job is queued.
Raise(t) ==
    /\ pc[t] \in Requests
    /\ Goto(t, "fail")
    /\ UNCHANGED <<unit, failures, target, loaded, tainted, skipped>>

\* _handle_failure: the counter is loaded, stored, compared and reset unlocked.
LoadFailures(t) ==
    /\ pc[t] = "fail"
    /\ failures <= MaxFailures
    /\ Goto(t, "count")
    /\ loaded' = [loaded EXCEPT ![t] = failures]
    /\ UNCHANGED <<unit, failures, target, tainted, skipped>>

\* Mutant: the failures are counted down.
StoreFailuresDown(t) ==
    /\ pc[t] = "count"
    /\ Goto(t, "check")
    /\ failures' = loaded[t] - 1 /\ skipped' = FALSE
    /\ loaded' = [loaded EXCEPT ![t] = 0]
    /\ UNCHANGED <<unit, target, tainted>>

StoreFailures(t) ==
    /\ pc[t] = "count"
    /\ Goto(t, "check")
    /\ failures' = loaded[t] + 1 /\ skipped' = FALSE
    /\ loaded' = [loaded EXCEPT ![t] = 0]
    /\ UNCHANGED <<unit, target, tainted>>

\* Mutant: the limit is off by one.
CheckLimitLate(t) ==
    /\ pc[t] = "check"
    /\ Goto(t, IF failures > FailLimit THEN "command" ELSE "raised")
    /\ UNCHANGED <<unit, failures, target, loaded, tainted, skipped>>

CheckLimit(t) ==
    /\ pc[t] = "check"
    /\ Goto(t, IF failures >= FailLimit THEN "command" ELSE "raised")
    /\ UNCHANGED <<unit, failures, target, loaded, tainted, skipped>>

\* execute_command re-raises what the command fails with: the reset is then skipped.
ExecuteCommand(t) ==
    /\ pc[t] = "command"
    /\ \/ Goto(t, "zero") /\ UNCHANGED skipped
       \/ /\ failures < MaxFailures
          /\ Goto(t, "raised")
          /\ skipped' = (failures >= FailLimit)
    /\ UNCHANGED <<unit, failures, target, loaded, tainted>>

\* The call then returns as if the switch had succeeded.
ResetFailures(t) ==
    /\ pc[t] = "zero"
    /\ Goto(t, "commanded")
    /\ failures' = 0 /\ skipped' = FALSE
    /\ UNCHANGED <<unit, target, loaded, tainted>>

Request(t) ==
    \/ CheckOther(t) \/ StopOther(t) \/ CheckOwn(t)
    \/ Start(t)      \/ Restart(t)   \/ Clear(t)

HandleFailure(t) ==
    \/ LoadFailures(t)   \/ StoreFailures(t) \/ CheckLimit(t)
    \/ ExecuteCommand(t) \/ ResetFailures(t)

Return(t) ==
    /\ pc[t] \in Outcomes
    /\ Goto(t, "idle")
    /\ target' = [target EXCEPT ![t] = "client"]
    /\ UNCHANGED <<unit, failures, loaded, tainted, skipped>>

SwitchNext ==
    \/ \E t \in Threads : \/ \E m \in Units : Call(t, m)
                          \/ Request(t) \/ Raise(t) \/ HandleFailure(t)
                          \/ Return(t)
    \/ \E u \in Units : JobEnds(u) \/ UnitDies(u)

SwitchSpec == SwitchInit /\ [][SwitchNext]_switchVars

-------------------------------------------------------------------------------
(* A failure count at or over the limit is being acted on, or was: no        *)
(* interleaving of the unlocked load, store, compare and reset of            *)
(* _handle_failure leaves a count behind that the comparison never saw.  The *)
(* count stays only where the command for that count itself has raised.      *)
LimitNoticed ==
    failures >= FailLimit =>
        skipped \/ \E t \in Threads : pc[t] \in {"check", "command", "zero"}

(* A switch that returned normally, that overlapped no other switch and read *)
(* no unit in its start-up as inactive, leaves the other unit stopped and    *)
(* its own started, unless that one has failed since.                        *)
SwitchExclusive ==
    \A t \in Threads : pc[t] = "switched" /\ ~tainted =>
        /\ ~On(Other(target[t]))
        /\ unit[target[t]] \in {"activating", "active", "failed"}

(* Both units come up together only out of overlapping switches, or of a     *)
(* switch that took a unit in its start-up for an inactive one: this is how  *)
(* the AMBIGUOUS state of get_state arises.                                  *)
BothOnOnlyTainted == [][~BothOn /\ BothOn' => tainted']_switchVars

-------------------------------------------------------------------------------
(* Seen from its callers, the unlocked sequence of D-Bus requests keeps the  *)
(* promise of ModePromise: with jobs that finish later, reads that are out   *)
(* of date and units that fail in between, each step is one the promise      *)
(* allows, or none.                                                          *)
Phase(place) ==
    IF place = "idle" \/ place \in Outcomes THEN place ELSE "busy"

Promise == INSTANCE ModePromise WITH
    Callers <- Threads,
    Modes <- Units,
    on <- {u \in Units : On(u)},
    phase <- [t \in Threads |-> Phase(pc[t])],
    goal <- target,
    undisturbed <- ~tainted

KeepsPromise == Promise!Spec

===============================================================================
