------------------------------ MODULE ModePromise ------------------------------
(***************************************************************************)
(* What WifiControl promises its callers, without requests, jobs, checks or *)
(* the failure count.  Callers ask for a mode and get an outcome.  As long  *)
(* as a call is undisturbed it puts its own mode on only where the other is *)
(* off, and reports success only with the other mode off; a disturbed one   *)
(* promises nothing.  No caller puts on the mode it did not ask for.        *)
(***************************************************************************)
CONSTANTS Callers, Modes

VARIABLES
    on,             \* the modes that run or are coming up
    phase,          \* of each caller: "idle", "busy" or the outcome of its call
    goal,           \* the mode each caller asked for
    undisturbed     \* the calls under way may be relied upon

promiseVars == <<on, phase, goal, undisturbed>>

Results == {"switched", "commanded", "raised"}

Init ==
    /\ on \in SUBSET Modes
    /\ phase = [c \in Callers |-> "idle"]
    /\ goal \in [Callers -> Modes]
    /\ undisturbed = TRUE

\* A call beside another disturbs both.
Ask(c, m) ==
    /\ phase[c] = "idle"
    /\ phase' = [phase EXCEPT ![c] = "busy"]
    /\ goal' = [goal EXCEPT ![c] = m]
    /\ undisturbed' = \A d \in Callers : phase[d] = "idle"
    /\ UNCHANGED on

TurnOff(c, m) ==
    /\ phase[c] = "busy"
    /\ on' = on \ {m}
    /\ UNCHANGED <<phase, goal, undisturbed>>

TurnOn(c) ==
    /\ phase[c] = "busy"
    /\ undisturbed => on \subseteq {goal[c]}
    /\ on' = on \cup {goal[c]}
    /\ UNCHANGED <<phase, goal, undisturbed>>

Overlook(c) ==
    /\ phase[c] = "busy"
    /\ undisturbed' = FALSE
    /\ UNCHANGED <<on, phase, goal>>

Answer(c, r) ==
    /\ phase[c] = "busy"
    /\ r = "switched" /\ undisturbed => on \subseteq {goal[c]}
    /\ phase' = [phase EXCEPT ![c] = r]
    /\ UNCHANGED <<on, goal, undisturbed>>

Return(c) ==
    /\ phase[c] \in Results
    /\ phase' = [phase EXCEPT ![c] = "idle"]
    /\ \E m \in Modes : goal' = [goal EXCEPT ![c] = m]
    /\ UNCHANGED <<on, undisturbed>>

\* A mode goes off by itself: its unit fails.
Fade(m) ==
    /\ on' = on \ {m}
    /\ UNCHANGED <<phase, goal, undisturbed>>

Next ==
    \/ \E c \in Callers : \/ \E m \in Modes : Ask(c, m) \/ TurnOff(c, m)
                          \/ TurnOn(c) \/ Overlook(c) \/ Return(c)
                          \/ \E r \in Results : Answer(c, r)
    \/ \E m \in Modes : Fade(m)

Spec == Init /\ [][Next]_promiseVars
===============================================================================
