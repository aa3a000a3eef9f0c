--------------------------- MODULE ConnectionMonitor ---------------------------
(***************************************************************************)
(* ConnectionMonitor: a check on a re-armed timer that counts failed pings  *)
(* and runs the restore actions at the limit.  The event loop and main each *)
(* start and stop it, without a lock, while a check, on the timer's own     *)
(* thread, may be under way; a check outlives the timer that began it, so   *)
(* two may run at once.                                                     *)
(***************************************************************************)
EXTENDS Integers

CONSTANTS
    Callers,        \* the loop, main, and main's signal handler, which interrupts main
    Checkers,       \* threads of expired timers
    FailLimit,      \* ConnectionMonitorConfig.ping_fail_limit
    MaxFailures,    \* bound of the model: a larger count is read after its reset only
    MaxCalls        \* bound of the calls of start and stop

ASSUME MonitorAssumption ==
    FailLimit \in Nat \ {0} /\ MaxFailures \in Nat /\ MaxCalls \in Nat

VARIABLES
    armed,      \* the timer will run _check_connection
    failures,   \* ConnectionMonitor._failures
    pc,         \* where each checker is
    loaded,     \* the value of _failures a checker has read
    caller,     \* where each caller is in start
    calls,      \* calls of start and stop made
    reachable,  \* gateway and tunnel endpoint answer
    wanted,     \* history: the last call was start
    overrun,    \* history: the last stop found a check under way, or a start that had
                \* not armed the timer
    died,       \* history: an action or a ping raised since the last start
    streak,     \* history: failed pings since a good one or a restore, up to the limit
    crossed     \* history: two checks ran at once

vars == <<armed, failures, pc, loaded, caller, calls, reachable, wanted, overrun,
          died, streak, crossed>>
history == <<wanted, overrun, died, streak, crossed>>

Places == {"idle", "ping", "good", "clear", "connect", "load", "store", "test",
           "reset", "restore", "rearm"}

TypeOK ==
    /\ armed \in BOOLEAN /\ failures \in Nat
    /\ pc \in [Checkers -> Places] /\ loaded \in [Checkers -> Nat]
    /\ caller \in [Callers -> {"idle", "arm", "connect"}] /\ calls \in 0..MaxCalls
    /\ reachable \in BOOLEAN /\ wanted \in BOOLEAN /\ overrun \in BOOLEAN
    /\ died \in BOOLEAN /\ crossed \in BOOLEAN /\ streak \in 0..FailLimit

Init ==
    /\ armed = FALSE /\ failures = 0
    /\ pc = [c \in Checkers |-> "idle"] /\ loaded = [c \in Checkers |-> 0]
    /\ caller = [k \in Callers |-> "idle"] /\ calls = 0
    /\ reachable \in BOOLEAN
    /\ wanted = FALSE /\ overrun = FALSE /\ died = FALSE
    /\ streak = 0 /\ crossed = FALSE

Checking == {c \in Checkers : pc[c] # "idle"}

Goto(c, place) == pc' = [pc EXCEPT ![c] = place]

-------------------------------------------------------------------------------
(* The calls of the loop and of main. *)

Calling(k, place) == caller' = [caller EXCEPT ![k] = place]

\* start: the count, the timer, then the connect actions.
StartClears(k) ==
    /\ caller[k] = "idle" /\ calls < MaxCalls
    /\ calls' = calls + 1
    /\ Calling(k, "arm")
    /\ failures' = 0
    /\ wanted' = TRUE /\ died' = FALSE /\ overrun' = FALSE
    /\ UNCHANGED <<armed, pc, loaded, reachable, streak, crossed>>

StartArms(k) ==
    /\ caller[k] = "arm"
    /\ Calling(k, "connect")
    /\ armed' = TRUE
    /\ UNCHANGED <<failures, pc, loaded, calls, reachable, history>>

\* An action that raises ends start, after the timer is armed.
StartConnects(k) ==
    /\ caller[k] = "connect"
    /\ Calling(k, "idle")
    /\ UNCHANGED <<armed, failures, pc, loaded, calls, reachable, history>>

Arming == {k \in Callers : caller[k] = "arm"}

\* Mutant: the timer is not cancelled.
StopKeeps(k) ==
    /\ caller[k] = "idle" /\ calls < MaxCalls
    /\ calls' = calls + 1
    /\ wanted' = FALSE /\ overrun' = (Checking # {} \/ Arming # {})
    /\ UNCHANGED <<armed, failures, pc, loaded, caller, reachable, died, streak, crossed>>

Stop(k) ==
    /\ caller[k] = "idle" /\ calls < MaxCalls
    /\ calls' = calls + 1
    /\ armed' = FALSE
    /\ wanted' = FALSE /\ overrun' = (Checking # {} \/ Arming # {})
    /\ UNCHANGED <<failures, pc, loaded, caller, reachable, died, streak, crossed>>

-------------------------------------------------------------------------------
(* _check_connection on a timer's thread. *)

Expire(c) ==
    /\ armed /\ pc[c] = "idle"
    /\ armed' = FALSE
    /\ Goto(c, "ping")
    /\ crossed' = (crossed \/ Checking # {})
    /\ UNCHANGED <<failures, loaded, caller, calls, reachable, wanted, overrun, died, streak>>

Ping(c) ==
    /\ pc[c] = "ping"
    /\ Goto(c, IF reachable THEN "good" ELSE "load")
    /\ streak' = CASE reachable                            -> 0
                   [] ~reachable /\ streak < FailLimit     -> streak + 1
                   [] OTHER                                -> streak
    /\ UNCHANGED <<armed, failures, loaded, caller, calls, reachable, wanted, overrun,
                   died, crossed>>

\* Without an IPv4 default route, or with its interface gone, looking for what to ping
\* raises, and the check ends before it arms the timer again.
PingRaises(c) ==
    /\ pc[c] = "ping"
    /\ Goto(c, "idle")
    /\ died' = TRUE
    /\ UNCHANGED <<armed, failures, loaded, caller, calls, reachable, wanted, overrun,
                   streak, crossed>>

\* Mutant: a good ping leaves the count.
GoodKeeps(c) ==
    /\ pc[c] = "good"
    /\ Goto(c, "test")
    /\ UNCHANGED <<armed, failures, loaded, caller, calls, reachable, history>>

Good(c) ==
    /\ pc[c] = "good"
    /\ Goto(c, IF failures > 0 THEN "clear" ELSE "test")
    /\ UNCHANGED <<armed, failures, loaded, caller, calls, reachable, history>>

ClearFailures(c) ==
    /\ pc[c] = "clear"
    /\ Goto(c, "connect")
    /\ failures' = 0
    /\ UNCHANGED <<armed, loaded, caller, calls, reachable, history>>

\* self._failures += 1 is a load and a store.
LoadFailures(c) ==
    /\ pc[c] = "load"
    /\ failures <= MaxFailures
    /\ Goto(c, "store")
    /\ loaded' = [loaded EXCEPT ![c] = failures]
    /\ UNCHANGED <<armed, failures, caller, calls, reachable, history>>

\* Mutant: the failures are not counted.
StoreFailuresSame(c) ==
    /\ pc[c] = "store"
    /\ Goto(c, "test")
    /\ failures' = loaded[c]
    /\ loaded' = [loaded EXCEPT ![c] = 0]
    /\ UNCHANGED <<armed, caller, calls, reachable, history>>

StoreFailures(c) ==
    /\ pc[c] = "store"
    /\ Goto(c, "test")
    /\ failures' = loaded[c] + 1
    /\ loaded' = [loaded EXCEPT ![c] = 0]
    /\ UNCHANGED <<armed, caller, calls, reachable, history>>

\* Mutant: the limit is off by one.
TestLimitLate(c) ==
    /\ pc[c] = "test"
    /\ Goto(c, IF failures > FailLimit THEN "reset" ELSE "rearm")
    /\ UNCHANGED <<armed, failures, loaded, caller, calls, reachable, history>>

TestLimit(c) ==
    /\ pc[c] = "test"
    /\ Goto(c, IF failures >= FailLimit THEN "reset" ELSE "rearm")
    /\ UNCHANGED <<armed, failures, loaded, caller, calls, reachable, history>>

ResetFailures(c) ==
    /\ pc[c] = "reset"
    /\ Goto(c, "restore")
    /\ failures' = 0
    /\ UNCHANGED <<armed, loaded, caller, calls, reachable, history>>

\* Connect actions go on to the limit test, restore actions to the timer; one that
\* raises ends the check there.
RunActions(c) ==
    /\ pc[c] \in {"connect", "restore"}
    /\ \/ Goto(c, IF pc[c] = "connect" THEN "test" ELSE "rearm") /\ UNCHANGED died
       \/ Goto(c, "idle") /\ died' = TRUE
    /\ streak' = IF pc[c] = "restore" THEN 0 ELSE streak
    /\ UNCHANGED <<armed, failures, loaded, caller, calls, reachable, wanted, overrun, crossed>>

\* Mutant: the timer is not armed again.
RearmNothing(c) ==
    /\ pc[c] = "rearm"
    /\ Goto(c, "idle")
    /\ UNCHANGED <<armed, failures, loaded, caller, calls, reachable, history>>

\* timer.restart, whatever stop has done meanwhile.
Rearm(c) ==
    /\ pc[c] = "rearm"
    /\ Goto(c, "idle")
    /\ armed' = TRUE
    /\ UNCHANGED <<failures, loaded, caller, calls, reachable, history>>

Check(c) ==
    \/ Ping(c) \/ PingRaises(c) \/ Good(c) \/ ClearFailures(c)
    \/ LoadFailures(c) \/ StoreFailures(c) \/ TestLimit(c) \/ ResetFailures(c)
    \/ RunActions(c) \/ Rearm(c)

NetworkChanges ==
    /\ reachable' = ~reachable
    /\ UNCHANGED <<armed, failures, pc, loaded, caller, calls, history>>

Next ==
    \/ \E k \in Callers : StartClears(k) \/ StartArms(k) \/ StartConnects(k) \/ Stop(k)
    \/ \E c \in Checkers : Expire(c) \/ Check(c)
    \/ NetworkChanges

Spec == Init /\ [][Next]_vars

\* The timer expires, and a thread that can run runs.
Fairness ==
    /\ \A k \in Callers : WF_vars(StartArms(k)) /\ WF_vars(StartConnects(k))
    /\ WF_vars(\E c \in Checkers : Expire(c))
    /\ \A c \in Checkers : WF_vars(Check(c))

FairSpec == Spec /\ Fairness

-------------------------------------------------------------------------------
Quiet == Checking = {} /\ \A k \in Callers : caller[k] = "idle"

(* A stopped monitor stays stopped: the only timer left armed after stop is  *)
(* one that a check under way at the stop has armed again, or a start of the *)
(* other thread that the stop met between its count and its timer.           *)
StoppedStays == Quiet /\ ~wanted => ~armed \/ overrun

(* A started monitor keeps checking until an action or a ping raises: no     *)
(* check, start or stop of another thread loses its timer.                   *)
MonitorLives == Quiet /\ wanted => armed \/ died

(* No count at the limit outlives the checks that could act on it.           *)
LimitNoticed == Quiet => failures < FailLimit

(* Restore actions, which restart services and may reboot, run only after    *)
(* as many failed pings in a row as the limit says, as long as checks do not *)
(* overlap: a start that clears the count between a check's load and its     *)
(* store makes no difference to that.                                        *)
RestoreJustified ==
    \A c \in Checkers : pc[c] = "restore" /\ ~crossed => streak = FailLimit

(* A lasting outage of a started monitor is answered with restore actions    *)
(* again and again, until an action or a ping raises.                        *)
OutageRestored ==
    <>[](wanted /\ ~died /\ ~reachable) => []<>(\E c \in Checkers : pc[c] = "restore")
===============================================================================
