----------------------------- MODULE ServiceSetup -----------------------------
(***************************************************************************)
(* Service: setup on the main thread against the handler of the unit's      *)
(* PropertiesChanged signals on the GLib loop.  setup starts or stops the   *)
(* unit, subscribes, writes the configuration and waits, without a timeout, *)
(* for the handler to see the unit come up again.  systemd merges property  *)
(* changes: a state the unit only passes through may never be signalled.    *)
(* The process may raise, or be killed, anywhere, and is started again.     *)
(***************************************************************************)
EXTENDS ServiceFiles

CONSTANTS
    MaxSignals,     \* bound of the bus's queue
    MaxOutside,     \* bound of starts by others than this program
    MaxFaults,      \* bound of failed starts, deaths of the unit and failed requests
    MaxRestarts     \* bound of restarts of the process

ASSUME BoundsAssumption ==
    {MaxSignals, MaxOutside, MaxFaults, MaxRestarts} \subseteq Nat

VARIABLES
    forceStop, autoStart,   \* set_force_stop, set_auto_start: fixed before setup
    masked, enabled,        \* unit files
    unit,                   \* ActiveState
    again,                  \* the unit starts once it has stopped
    subscribed,             \* the handler is connected
    signals,                \* ActiveStates on the bus, not yet handled
    lastState, failed,      \* _last_state, _failed
    reloaded,               \* _config_reloaded
    pc,                     \* where main is in setup
    outside, faults, restarts,  \* how many of the bounded environment's steps were taken
    current,                \* history: the unit last started on the whole configuration
    missed,                 \* history: an interrupted setup left what no later one will do
    unseen,                 \* history: up or failed when the handler was connected, and
                            \* nothing handled since
    merged,                 \* history: an 'activating' went unsignalled since then
    gaveUp                  \* history: the handler raised or met a second failure

fixed   == <<forceStop, autoStart, restarts>>
files   == <<masked, enabled, fileVars, missed>>
handler == <<lastState, failed, reloaded>>
job     == <<unit, again, signals, merged, current>>
vars    == <<fixed, files, handler, job, subscribed, pc, outside, faults, unseen, gaveUp>>

States == {"inactive", "activating", "active", "deactivating", "failed"}
Places == {"unmask", "autoStart", "mask", "subscribe", "config", "write", "wait", "set",
           "done", "error"}

TypeOK ==
    /\ forceStop \in BOOLEAN /\ autoStart \in BOOLEAN /\ masked \in BOOLEAN
    /\ enabled \in BOOLEAN /\ again \in BOOLEAN /\ FilesTypeOK
    /\ unit \in States /\ lastState \in States \cup {"none"}
    /\ subscribed \in BOOLEAN /\ failed \in BOOLEAN /\ reloaded \in BOOLEAN
    /\ signals \in Seq(States) /\ Len(signals) <= MaxSignals
    /\ pc \in Places
    /\ outside \in 0..MaxOutside /\ faults \in 0..MaxFaults /\ restarts \in 0..MaxRestarts
    /\ unseen \in BOOLEAN /\ merged \in BOOLEAN /\ gaveUp \in BOOLEAN
    /\ current \in BOOLEAN /\ missed \in BOOLEAN

Init ==
    /\ forceStop \in BOOLEAN /\ autoStart \in BOOLEAN
    /\ masked \in BOOLEAN /\ enabled \in BOOLEAN /\ FilesInit
    /\ unit \in {"inactive", "active"} /\ again = FALSE
    /\ subscribed = FALSE /\ signals = <<>>
    /\ lastState = "none" /\ failed = FALSE /\ reloaded = FALSE
    /\ pc = "unmask" /\ outside = 0 /\ faults = 0 /\ restarts = 0
    /\ unseen = FALSE /\ merged = FALSE /\ gaveUp = FALSE
    /\ current = Complete /\ missed = FALSE

\* _is_auto_start
IsAutoStart == ~forceStop /\ autoStart

-------------------------------------------------------------------------------
(* systemd: jobs, and the signals of the states they lead through.           *)

Fault == faults < MaxFaults /\ faults' = faults + 1

\* A settled state is always signalled; a passing one may be merged with the next.
Become(s, q) ==
    /\ unit' = s
    /\ current' = IF s = "activating" THEN Complete ELSE current
    /\ \/ /\ subscribed /\ Len(q) < MaxSignals
          /\ signals' = Append(q, s)
          /\ UNCHANGED merged
       \/ /\ subscribed => s \in {"activating", "deactivating"}
          /\ signals' = q
          /\ merged' = (merged \/ s = "activating")

Stay(q) == UNCHANGED <<unit, merged, current>> /\ signals' = q

StartJob(q) ==
    IF unit \in {"inactive", "failed"} THEN Become("activating", q) /\ again' = FALSE
    ELSE Stay(q) /\ again' = (unit = "deactivating")

StopJob(q) ==
    /\ again' = FALSE
    /\ IF unit \in {"active", "activating"} THEN Become("deactivating", q) ELSE Stay(q)

RestartJob(q) ==
    CASE unit \in {"active", "activating"} -> Become("deactivating", q) /\ again' = TRUE
      [] unit \in {"inactive", "failed"}   -> Become("activating", q) /\ again' = FALSE
      [] unit = "deactivating"             -> Stay(q) /\ again' = TRUE

JobEnds ==
    /\ \/ unit = "activating" /\ Become("active", signals) /\ UNCHANGED <<again, faults>>
       \/ unit = "activating" /\ Become("failed", signals) /\ Fault /\ UNCHANGED again
       \/ unit = "deactivating" /\ again /\ Become("activating", signals)
          /\ again' = FALSE /\ UNCHANGED faults
       \/ unit = "deactivating" /\ ~again /\ Become("inactive", signals)
          /\ UNCHANGED <<again, faults>>
    /\ UNCHANGED <<fixed, files, handler, subscribed, pc, outside, unseen, gaveUp>>

UnitDies ==
    /\ unit = "active" /\ Become("failed", signals) /\ Fault
    /\ UNCHANGED <<fixed, files, handler, again, subscribed, pc, outside, unseen, gaveUp>>

\* Something else starts the unit; a masked one cannot be started.
StartedOutside ==
    /\ outside < MaxOutside /\ ~masked /\ unit = "inactive"
    /\ outside' = outside + 1
    /\ StartJob(signals)
    /\ UNCHANGED <<fixed, files, handler, subscribed, pc, faults, unseen, gaveUp>>

-------------------------------------------------------------------------------
(* setup, on the main thread. *)

\* One phase of setup, and the next.
Phase(from, to) ==
    /\ pc = from
    /\ pc' = to
    /\ UNCHANGED <<fixed, lastState, failed, outside, faults, gaveUp>>

Unmask ==
    /\ Phase("unmask", "autoStart")
    /\ masked' = (masked /\ forceStop)
    /\ UNCHANGED <<enabled, fileVars, missed, job, subscribed, unseen, reloaded>>

AutoStart ==
    /\ Phase("autoStart", "mask")
    /\ enabled' = IsAutoStart
    /\ IF IsAutoStart THEN StartJob(signals) ELSE StopJob(signals)
    /\ UNCHANGED <<masked, fileVars, missed, subscribed, unseen, reloaded>>

Mask ==
    /\ Phase("mask", "subscribe")
    /\ masked' = (masked \/ forceStop)
    /\ UNCHANGED <<enabled, fileVars, missed, job, subscribed, unseen, reloaded>>

Subscribe ==
    /\ Phase("subscribe", "config")
    /\ subscribed' = TRUE
    /\ unseen' = (unit \in {"active", "failed"})
    /\ merged' = FALSE
    /\ UNCHANGED <<files, unit, again, signals, current, reloaded>>

Config ==
    /\ IF NeedConfig THEN Phase("config", "write") /\ BeginWriting
                     ELSE Phase("config", "set") /\ UNCHANGED fileVars
    /\ UNCHANGED <<masked, enabled, missed, job, subscribed, unseen, reloaded>>

Write ==
    /\ Phase("write", "write")
    /\ WritePiece
    /\ UNCHANGED <<masked, enabled, missed, job, subscribed, unseen, reloaded>>

\* Mutant: the unit is left running on what it started with.
ReloadSkipped ==
    /\ step = 0
    /\ Phase("write", IF NeedConfig THEN "error" ELSE "set")
    /\ UNCHANGED <<files, job, subscribed, unseen, reloaded>>

\* A unit file without the line to replace fails the check after setup.
Reload ==
    /\ step = 0
    /\ \/ NeedConfig /\ Phase("write", "error") /\ UNCHANGED job
       \/ ~NeedConfig /\ IsAutoStart /\ Phase("write", "wait") /\ RestartJob(signals)
       \/ ~NeedConfig /\ ~IsAutoStart /\ Phase("write", "set") /\ UNCHANGED job
    /\ UNCHANGED <<files, subscribed, unseen, reloaded>>

Wait ==
    /\ reloaded
    /\ Phase("wait", "set")
    /\ UNCHANGED <<files, job, subscribed, unseen, reloaded>>

Set ==
    /\ Phase("set", "done")
    /\ reloaded' = TRUE
    /\ UNCHANGED <<files, job, subscribed, unseen>>

Setup == Unmask \/ AutoStart \/ Mask \/ Subscribe \/ Config \/ Write \/ Reload
         \/ Wait \/ Set

Interrupt(killed) ==
    /\ Interrupted(killed)
    /\ missed' = (missed \/ (pc = "write" /\ (Overlooked' \/ ~NeedConfig')))

\* A request to systemd raises; setup turns it into a ServiceError.
SetupRaises ==
    /\ pc \in {"unmask", "autoStart", "mask", "subscribe", "config", "write"}
    /\ Fault
    /\ pc' = "error"
    /\ Interrupt(FALSE)
    /\ UNCHANGED <<fixed, masked, enabled, handler, job, subscribed, outside, unseen, gaveUp>>

\* The process ends, by the error or by a kill, and systemd starts it again.
Restarted ==
    /\ restarts < MaxRestarts /\ restarts' = restarts + 1
    /\ pc' = "unmask"
    /\ Interrupt(pc # "error")
    /\ subscribed' = FALSE /\ signals' = <<>>
    /\ lastState' = "none" /\ failed' = FALSE /\ reloaded' = FALSE
    /\ unseen' = FALSE /\ merged' = FALSE /\ gaveUp' = FALSE
    /\ UNCHANGED <<forceStop, autoStart, masked, enabled, unit, again, current, outside, faults>>

-------------------------------------------------------------------------------
(* _on_property_changed, on the GLib loop. *)

Signalled == Head(signals)

Take == signals # <<>> /\ unseen' = FALSE /\ UNCHANGED <<fixed, files, subscribed, pc, outside>>

OnRepeated ==
    /\ Take /\ Signalled = lastState
    /\ Stay(Tail(signals))
    /\ gaveUp' = (gaveUp \/ Signalled = "failed")
    /\ UNCHANGED <<again, handler, faults>>

\* Mutant: a failed unit is not restarted.
OnFailedIgnored ==
    /\ Take /\ Signalled = "failed" /\ lastState # "failed"
    /\ failed' = TRUE /\ lastState' = "failed"
    /\ Stay(Tail(signals))
    /\ UNCHANGED <<again, reloaded, faults, gaveUp>>

OnFailed ==
    /\ Take /\ Signalled = "failed" /\ lastState # "failed"
    /\ failed' = TRUE
    /\ \/ /\ ~failed /\ ~forceStop
          /\ RestartJob(Tail(signals))
          /\ lastState' = "failed"
          /\ UNCHANGED <<faults, gaveUp>>
       \/ /\ ~failed /\ ~forceStop      \* restart raises: the state is not recorded
          /\ Fault /\ gaveUp' = TRUE
          /\ Stay(Tail(signals))
          /\ UNCHANGED <<again, lastState>>
       \/ /\ failed \/ forceStop
          /\ Stay(Tail(signals))
          /\ lastState' = "failed" /\ gaveUp' = TRUE
          /\ UNCHANGED <<again, faults>>
    /\ UNCHANGED reloaded

\* Mutant: a force-stopped unit may run.
OnActiveLeft ==
    /\ Take /\ Signalled = "active" /\ lastState # "active"
    /\ failed' = FALSE /\ lastState' = "active"
    /\ reloaded' = (reloaded \/ lastState = "activating")
    /\ Stay(Tail(signals))
    /\ UNCHANGED <<again, faults, gaveUp>>

\* Mutant: the reload is not noticed.
OnActiveUnnoticed ==
    /\ Take /\ Signalled = "active" /\ lastState # "active"
    /\ failed' = FALSE /\ lastState' = "active"
    /\ IF forceStop THEN StopJob(Tail(signals))
                    ELSE Stay(Tail(signals)) /\ UNCHANGED again
    /\ UNCHANGED <<reloaded, faults, gaveUp>>

OnActive ==
    /\ Take /\ Signalled = "active" /\ lastState # "active"
    /\ failed' = FALSE
    /\ reloaded' = (reloaded \/ lastState = "activating")
    /\ \/ ~forceStop /\ Stay(Tail(signals)) /\ lastState' = "active"
          /\ UNCHANGED <<again, faults, gaveUp>>
       \/ forceStop /\ StopJob(Tail(signals)) /\ lastState' = "active"
          /\ UNCHANGED <<faults, gaveUp>>
       \/ forceStop /\ Fault /\ gaveUp' = TRUE      \* stop raises
          /\ Stay(Tail(signals))
          /\ UNCHANGED <<again, lastState>>

OnOtherState ==
    /\ Take /\ Signalled \notin {"failed", "active", lastState}
    /\ lastState' = Signalled
    /\ Stay(Tail(signals))
    /\ UNCHANGED <<again, failed, reloaded, faults, gaveUp>>

Loop == OnRepeated \/ OnFailed \/ OnActive \/ OnOtherState

Next == JobEnds \/ UnitDies \/ StartedOutside \/ Setup \/ SetupRaises \/ Restarted \/ Loop

Spec == Init /\ [][Next]_vars

\* systemd finishes its jobs, the loop and the main thread run.
Fairness == WF_vars(JobEnds) /\ WF_vars(Loop) /\ WF_vars(Setup)

FairSpec == Spec /\ Fairness

-------------------------------------------------------------------------------
Settled ==
    pc = "done" /\ signals = <<>> /\ unit \notin {"activating", "deactivating"}

(* A service set to be stopped by force is not running once things settle,   *)
(* whoever started it, unless the handler failed to stop it, or it came up   *)
(* before the handler was connected.                                         *)
ForceStopHolds == Settled /\ forceStop /\ unit = "active" => unseen \/ gaveUp

(* A unit that failed under the program's eyes has been restarted, unless it *)
(* failed again before it was ever active, or the restart raised.            *)
FailureAnswered == Settled /\ ~forceStop /\ unit = "failed" => unseen \/ gaveUp

(* setup ends: the wait for the reload is over in the end, unless the unit's *)
(* passage through 'activating' went unsignalled or the handler gave up.     *)
SetupEnds == []<>(pc \in {"done", "error"} \/ merged \/ gaveUp)

(* A setup that gets past the configuration has all of it in place, also     *)
(* what a setup before it, raised or killed half-way, left undone; except    *)
(* where the check is passed already: the host name is set, its files are    *)
(* not; the unit file is written, systemd was not told.                      *)
ConfigWritten == pc \in {"wait", "set", "done"} => Complete \/ missed

(* The service that is then running started on that configuration; except    *)
(* that one interrupted between the last piece and the restart of the unit   *)
(* is never restarted: the next setup finds nothing to do.                   *)
ConfigInForce == Settled /\ IsAutoStart /\ unit = "active" => current \/ missed
===============================================================================
