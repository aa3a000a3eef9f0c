--------------------------- MODULE ModeSwitchProofs ---------------------------
(* Proofs about ModeSwitch, for every set of threads and every limit.        *)
EXTENDS ModeSwitch, TLAPS

(* The inductive invariant.  As long as the calls are untainted there is one  *)
(* of them, so what it read and did about the other unit still stands; a      *)
(* tainted state promises nothing about the units, only about the count.      *)
Serial == ~tainted => \A s, t \in Threads : s \in Busy /\ t \in Busy => s = t

OtherStopped == \A t \in Threads :
    ~tainted /\ pc[t] \in {"checkOwn", "start", "restart", "clear", "switched"}
        => ~On(Other(target[t]))

OwnStarted == \A t \in Threads :
    ~tainted /\ pc[t] \in {"clear", "switched"}
        => unit[target[t]] \in {"activating", "active", "failed"}

IInv == SwitchTypeOK /\ LimitNoticed /\ Serial /\ OtherStopped /\ OwnStarted

-------------------------------------------------------------------------------
(* Every step keeps every variable in its type: what the threads load and     *)
(* store are natural numbers, and they only ever move between known places.   *)
LEMMA SwitchTypeStep == SwitchTypeOK /\ [SwitchNext]_switchVars => SwitchTypeOK'
<1> SUFFICES ASSUME SwitchTypeOK, [SwitchNext]_switchVars PROVE SwitchTypeOK'
    OBVIOUS
<1>0. ASSUME NEW t \in Threads, ExecuteCommand(t) PROVE skipped' \in BOOLEAN
    <2>1. (failures >= FailLimit) \in BOOLEAN
        BY FailLimitAssumption DEF SwitchTypeOK
    <2> QED BY <1>0, <2>1, Zenon DEF ExecuteCommand, SwitchTypeOK
<1> USE DEF SwitchTypeOK, Places, Requests, Recovery, Outcomes, Units, UnitStates,
            Goto, SetUnit
<1>1. ASSUME NEW t \in Threads, NEW m \in Units, Call(t, m) PROVE SwitchTypeOK'
    BY <1>1 DEF Call
<1>2. ASSUME NEW t \in Threads, Request(t) PROVE SwitchTypeOK'
    <2>1. CASE CheckOther(t) BY <2>1 DEF CheckOther
    <2>2. CASE StopOther(t) BY <2>2 DEF StopOther, AfterStop, Other
    <2>3. CASE CheckOwn(t) BY <2>3 DEF CheckOwn
    <2>4. CASE Start(t) BY <2>4 DEF Start, AfterStart
    <2>5. CASE Restart(t) BY <2>5 DEF Restart, AfterStop, AfterRestart
    <2>6. CASE Clear(t) BY <2>6 DEF Clear
    <2> QED BY <1>2, <2>1, <2>2, <2>3, <2>4, <2>5, <2>6 DEF Request
<1>3. ASSUME NEW t \in Threads, Raise(t) PROVE SwitchTypeOK'
    BY <1>3 DEF Raise
<1>4. ASSUME NEW t \in Threads, HandleFailure(t) PROVE SwitchTypeOK'
    <2>1. CASE ExecuteCommand(t)
        BY <1>0, <2>1 DEF ExecuteCommand
    <2>2. CASE LoadFailures(t)
        BY <2>2 DEF LoadFailures
    <2>3. CASE StoreFailures(t)
        <3>1. failures' \in Nat /\ loaded' \in [Threads -> Nat]
            BY <2>3 DEF StoreFailures
        <3> QED BY <2>3, <3>1 DEF StoreFailures
    <2>4. CASE CheckLimit(t)
        BY <2>4 DEF CheckLimit
    <2>5. CASE ResetFailures(t)
        BY <2>5 DEF ResetFailures
    <2> QED BY <1>4, <2>1, <2>2, <2>3, <2>4, <2>5 DEF HandleFailure
<1>5. ASSUME NEW t \in Threads, Return(t) PROVE SwitchTypeOK'
    BY <1>5 DEF Return
<1>6. ASSUME NEW u \in Units, JobEnds(u) \/ UnitDies(u) PROVE SwitchTypeOK'
    BY <1>6 DEF JobEnds, UnitDies
<1>7. CASE UNCHANGED switchVars
    BY <1>7 DEF switchVars
<1> QED BY <1>1, <1>2, <1>3, <1>4, <1>5, <1>6, <1>7 DEF SwitchNext

(* A step from a count that is noticed leads to a count that is noticed: the  *)
(* thread that stores a count at the limit is the one that will compare it,   *)
(* and a thread that compares and finds the limit stays until the reset, or   *)
(* until its command raises on that count.                                    *)
LEMMA LimitStep ==
    SwitchTypeOK /\ LimitNoticed /\ [SwitchNext]_switchVars => LimitNoticed'
<1> SUFFICES ASSUME SwitchTypeOK, LimitNoticed, [SwitchNext]_switchVars,
                    failures' >= FailLimit
             PROVE \/ skipped'
                   \/ \E t \in Threads : pc'[t] \in {"check", "command", "zero"}
    BY DEF LimitNoticed
<1> USE DEF SwitchTypeOK, Goto
<1>1. CASE failures >= FailLimit
    <2> DEFINE Acting == \E t \in Threads : pc[t] \in {"check", "command", "zero"}
    <2>1. skipped \/ Acting
        BY <1>1 DEF LimitNoticed
    <2>2. ASSUME NEW s \in Threads, HandleFailure(s) PROVE skipped' \/ Acting'
        <3>1. CASE LoadFailures(s)
            BY <2>1, <3>1 DEF LoadFailures
        <3>2. CASE StoreFailures(s)
            BY <3>2 DEF StoreFailures
        <3>3. CASE CheckLimit(s)
            BY <1>1, <3>3 DEF CheckLimit
        <3>4. CASE ExecuteCommand(s)
            BY <1>1, <3>4 DEF ExecuteCommand
        <3>5. CASE ResetFailures(s)
            BY <3>5, FailLimitAssumption DEF ResetFailures
        <3> QED BY <2>2, <3>1, <3>2, <3>3, <3>4, <3>5 DEF HandleFailure
    <2>3. ASSUME NEW s \in Threads, Request(s) \/ Raise(s) \/ Return(s)
          PROVE skipped' \/ Acting'
        BY <2>1, <2>3, FailLimitAssumption
            DEF Request, Raise, Return, CheckOther, StopOther, CheckOwn,
                Start, Restart, Clear, Requests, Outcomes
    <2>4. ASSUME NEW s \in Threads, NEW m \in Units, Call(s, m) PROVE skipped' \/ Acting'
        BY <2>1, <2>4 DEF Call
    <2>5. ASSUME NEW u \in Units, JobEnds(u) \/ UnitDies(u) PROVE skipped' \/ Acting'
        BY <2>1, <2>5 DEF JobEnds, UnitDies
    <2>6. CASE UNCHANGED switchVars
        BY <2>1, <2>6 DEF switchVars
    <2> QED BY <2>2, <2>3, <2>4, <2>5, <2>6 DEF SwitchNext
<1>2. CASE ~(failures >= FailLimit)
    <2>1. \E t \in Threads : HandleFailure(t)
        BY <1>2, FailLimitAssumption
            DEF SwitchNext, switchVars, Call, Request, Raise, Return, JobEnds, UnitDies,
                CheckOther, StopOther, CheckOwn, Start, Restart, Clear
    <2>2. PICK t \in Threads : HandleFailure(t)
        BY <2>1
    <2> QED BY <1>2, <2>2, FailLimitAssumption
            DEF HandleFailure, LoadFailures, StoreFailures, CheckLimit, ExecuteCommand,
                ResetFailures
<1> QED BY <1>1, <1>2

-------------------------------------------------------------------------------
(* An untainted call stays alone: a call that begins beside another taints    *)
(* both, and no other step makes a thread busy.                               *)
LEMMA SerialStep == SwitchTypeOK /\ Serial /\ [SwitchNext]_switchVars => Serial'
<1> SUFFICES ASSUME SwitchTypeOK, Serial, [SwitchNext]_switchVars, ~tainted'
             PROVE \A s, t \in Threads : s \in Busy' /\ t \in Busy' => s = t
    BY DEF Serial
<1> USE DEF SwitchTypeOK, Goto, Busy
<1>1. ASSUME NEW r \in Threads, NEW m \in Units, Call(r, m)
      PROVE \A s, t \in Threads : s \in Busy' /\ t \in Busy' => s = t
    BY <1>1 DEF Call
<1>2. ASSUME NEW r \in Threads, Request(r) \/ Raise(r) \/ HandleFailure(r) \/ Return(r)
      PROVE ~tainted /\ Busy' \subseteq Busy
    BY <1>2 DEF Request, Raise, HandleFailure, Return, CheckOther, StopOther, CheckOwn,
                Start, Restart, Clear, LoadFailures, StoreFailures, CheckLimit,
                ExecuteCommand, ResetFailures, Requests, Outcomes
<1>3. ASSUME NEW u \in Units, JobEnds(u) \/ UnitDies(u)
      PROVE ~tainted /\ Busy' = Busy
    BY <1>3 DEF JobEnds, UnitDies
<1>4. CASE UNCHANGED switchVars
    BY <1>4 DEF switchVars, Serial
<1> QED BY <1>1, <1>2, <1>3, <1>4 DEF SwitchNext, Serial

(* While no call is tainted, only the calling thread starts units, and it     *)
(* starts its own: the other unit stays as the call left it.                  *)
LEMMA OtherStoppedStep ==
    IInv /\ [SwitchNext]_switchVars => OtherStopped'
<1> SUFFICES ASSUME IInv, [SwitchNext]_switchVars, NEW t \in Threads, ~tainted',
                    pc'[t] \in {"checkOwn", "start", "restart", "clear", "switched"}
             PROVE ~On(Other(target[t]))'
    BY DEF OtherStopped
<1> USE DEF IInv, SwitchTypeOK, Goto, SetUnit, Units, Other, On
<1>1. ASSUME NEW s \in Threads, NEW m \in Units, Call(s, m)
      PROVE ~On(Other(target[t]))'
    BY <1>1 DEF Call, OtherStopped, Busy
<1>2. ASSUME NEW s \in Threads, Request(s) PROVE ~On(Other(target[t]))'
    <2>1. s = t
        BY <1>2 DEF Serial, Busy, Request, CheckOther, StopOther, CheckOwn, Start,
                    Restart, Clear
    <2>2. CASE CheckOther(t)
        BY <2>2 DEF CheckOther, IsActive, UnitStates
    <2>3. CASE StopOther(t)
        BY <2>3 DEF StopOther, AfterStop
    <2>4. CASE CheckOwn(t) \/ Clear(t)
        BY <2>4 DEF CheckOwn, Clear, OtherStopped
    <2>5. CASE Start(t) \/ Restart(t)
        BY <2>5 DEF Start, Restart, OtherStopped
    <2> QED BY <1>2, <2>1, <2>2, <2>3, <2>4, <2>5 DEF Request
<1>3. ASSUME NEW s \in Threads, Raise(s) \/ HandleFailure(s) \/ Return(s)
      PROVE ~On(Other(target[t]))'
    BY <1>3 DEF Raise, HandleFailure, Return, LoadFailures, StoreFailures, CheckLimit,
                ExecuteCommand, ResetFailures, OtherStopped
<1>4. ASSUME NEW u \in Units, JobEnds(u) \/ UnitDies(u)
      PROVE ~On(Other(target[t]))'
    BY <1>4 DEF JobEnds, UnitDies, IsActive, OtherStopped
<1>5. CASE UNCHANGED switchVars
    BY <1>5 DEF switchVars, OtherStopped
<1> QED BY <1>1, <1>2, <1>3, <1>4, <1>5 DEF SwitchNext

(* Nor does any other thread stop the unit that an untainted call started.    *)
LEMMA OwnStartedStep ==
    IInv /\ [SwitchNext]_switchVars => OwnStarted'
<1> SUFFICES ASSUME IInv, [SwitchNext]_switchVars, NEW t \in Threads, ~tainted',
                    pc'[t] \in {"clear", "switched"}
             PROVE unit'[target'[t]] \in {"activating", "active", "failed"}
    BY DEF OwnStarted
<1> USE DEF IInv, SwitchTypeOK, Goto, SetUnit, Units
<1>1. ASSUME NEW s \in Threads, NEW m \in Units, Call(s, m)
      PROVE unit'[target'[t]] \in {"activating", "active", "failed"}
    BY <1>1 DEF Call, OwnStarted, Busy
<1>2. ASSUME NEW s \in Threads, Request(s)
      PROVE unit'[target'[t]] \in {"activating", "active", "failed"}
    <2>1. s = t
        BY <1>2 DEF Serial, Busy, Request, CheckOther, StopOther, CheckOwn, Start,
                    Restart, Clear
    <2>2. CASE CheckOther(t) \/ StopOther(t) \/ CheckOwn(t)
        BY <2>2 DEF CheckOther, StopOther, CheckOwn
    <2>3. CASE Start(t)
        BY <2>3 DEF Start, AfterStart
    <2>4. CASE Restart(t)
        BY <2>4 DEF Restart, AfterRestart
    <2>5. CASE Clear(t)
        BY <2>5 DEF Clear, OwnStarted
    <2> QED BY <1>2, <2>1, <2>2, <2>3, <2>4, <2>5 DEF Request
<1>3. ASSUME NEW s \in Threads, Raise(s) \/ HandleFailure(s) \/ Return(s)
      PROVE unit'[target'[t]] \in {"activating", "active", "failed"}
    BY <1>3 DEF Raise, HandleFailure, Return, LoadFailures, StoreFailures, CheckLimit,
                ExecuteCommand, ResetFailures, OwnStarted
<1>4. ASSUME NEW u \in Units, JobEnds(u) \/ UnitDies(u)
      PROVE unit'[target'[t]] \in {"activating", "active", "failed"}
    BY <1>4 DEF JobEnds, UnitDies, IsActive, OwnStarted
<1>5. CASE UNCHANGED switchVars
    BY <1>5 DEF switchVars, OwnStarted
<1> QED BY <1>1, <1>2, <1>3, <1>4, <1>5 DEF SwitchNext

-------------------------------------------------------------------------------
(* The invariant holds in every reachable state of every instance.            *)
THEOREM Invariance == SwitchSpec => []IInv
<1>1. SwitchInit => IInv
    <2> SUFFICES ASSUME SwitchInit PROVE IInv
        OBVIOUS
    <2>1. SwitchTypeOK
        BY DEF SwitchInit, SwitchTypeOK, Places, Units, UnitStates
    <2>2. LimitNoticed
        BY FailLimitAssumption DEF SwitchInit, LimitNoticed
    <2>3. Serial /\ OtherStopped /\ OwnStarted
        BY DEF SwitchInit, Serial, Busy, OtherStopped, OwnStarted
    <2> QED BY <2>1, <2>2, <2>3 DEF IInv
<1>2. IInv /\ [SwitchNext]_switchVars => IInv'
    BY SwitchTypeStep, LimitStep, SerialStep, OtherStoppedStep, OwnStartedStep DEF IInv
<1> QED BY <1>1, <1>2, PTL DEF SwitchSpec

(* Type correctness of WifiControl's state under every interleaving.          *)
THEOREM SwitchTypeCorrect == SwitchSpec => []SwitchTypeOK
<1>1. IInv => SwitchTypeOK
    BY DEF IInv
<1> QED BY <1>1, Invariance, PTL

(* _handle_failure never overlooks a count at the limit, however many threads *)
(* load, store, compare and reset it at once: the count stays at the limit    *)
(* only where the command that the limit calls for has raised.                *)
THEOREM LimitAlwaysNoticed == SwitchSpec => []LimitNoticed
<1>1. IInv => LimitNoticed
    BY DEF IInv
<1> QED BY <1>1, Invariance, PTL

(* A switch that ran alone, and that missed no unit in its start-up, leaves   *)
(* exactly its own mode on when it returns.                                   *)
THEOREM SwitchIsExclusive == SwitchSpec => []SwitchExclusive
<1>1. IInv => SwitchExclusive
    BY DEF IInv, OtherStopped, OwnStarted, SwitchExclusive
<1> QED BY <1>1, Invariance, PTL

(* The two units come up together only out of tainted calls: this is all that *)
(* separates the code, which takes no lock, from mutual exclusion of modes.   *)
THEOREM OverlapExplained == SwitchSpec => BothOnOnlyTainted
<1>1. IInv /\ [SwitchNext]_switchVars => [~BothOn /\ BothOn' => tainted']_switchVars
    <2> SUFFICES ASSUME IInv, [SwitchNext]_switchVars, ~BothOn, BothOn', ~tainted'
                 PROVE FALSE
        OBVIOUS
    <2> USE DEF IInv, SwitchTypeOK, BothOn, On, Units, SetUnit
    <2>1. ASSUME NEW t \in Threads, NEW m \in Units, Call(t, m) PROVE FALSE
        BY <2>1 DEF Call
    <2>2. ASSUME NEW t \in Threads, Start(t) \/ Restart(t) PROVE FALSE
        BY <2>2 DEF Start, Restart, OtherStopped, Other, Goto
    <2>3. ASSUME NEW t \in Threads, CheckOther(t) \/ CheckOwn(t) \/ Clear(t) PROVE FALSE
        BY <2>3 DEF CheckOther, CheckOwn, Clear
    <2>4. ASSUME NEW t \in Threads, StopOther(t) PROVE FALSE
        BY <2>4 DEF StopOther, AfterStop, Other
    <2>5. ASSUME NEW t \in Threads, Raise(t) \/ HandleFailure(t) \/ Return(t) PROVE FALSE
        BY <2>5 DEF Raise, HandleFailure, Return, LoadFailures, StoreFailures, CheckLimit,
                    ExecuteCommand, ResetFailures
    <2>6. ASSUME NEW u \in Units, JobEnds(u) \/ UnitDies(u) PROVE FALSE
        BY <2>6 DEF JobEnds, UnitDies, IsActive
    <2>7. CASE UNCHANGED switchVars
        BY <2>7 DEF switchVars
    <2> QED BY <2>1, <2>2, <2>3, <2>4, <2>5, <2>6, <2>7 DEF SwitchNext, Request
<1> QED BY <1>1, Invariance, PTL DEF SwitchSpec, BothOnOnlyTainted

-------------------------------------------------------------------------------
(* ModeSwitch implements ModePromise: the units that are on, the place of     *)
(* each thread seen from outside, its mode and the taint behave as a promise  *)
(* kept.  A step that only counts, or only moves a thread inside its call,    *)
(* stutters.                                                                  *)
Upheld == [Promise!Next]_(Promise!promiseVars)

Seen == [t \in Threads |-> Phase(pc[t])]
Running == {u \in Units : On(u)}

\* A step that moves a thread shows the phase of its new place.
LEMMA MoveShows ==
    ASSUME SwitchTypeOK, NEW t \in Threads, NEW place, Goto(t, place)
    PROVE  /\ Seen' = [Seen EXCEPT ![t] = Phase(place)]
           /\ Phase(pc[t]) = Phase(place) => Seen' = Seen
BY DEF SwitchTypeOK, Goto, Seen

\* A unit that is given a state that is not on leaves the running ones, one that
\* is given a state that is on joins them.
LEMMA SetUnitShows ==
    ASSUME SwitchTypeOK, NEW u \in Units, NEW s, SetUnit(u, s)
    PROVE  Running' = IF s \in {"activating", "active"} THEN Running \cup {u}
                                                        ELSE Running \ {u}
BY DEF SwitchTypeOK, SetUnit, Running, On

\* What is hidden from the callers.
LEMMA UpheldHidden ==
    ASSUME Seen' = Seen, Running' = Running, UNCHANGED <<target, tainted>>
    PROVE  Upheld
BY DEF Upheld, Promise!promiseVars, Seen, Running

\* The requests of a call: only the calling thread moves, and it stays busy or succeeds.
LEMMA RequestUpheld ==
    ASSUME IInv, NEW t \in Threads, Request(t)
    PROVE  Upheld
<1> DEFINE other == Other(target[t])
<1> USE DEF IInv
<1>1. target[t] \in Units /\ other \in Units /\ Units = {target[t], other}
    BY DEF SwitchTypeOK, Units, Other
<1>2. Seen[t] = Phase(pc[t])
    BY DEF Seen
<1>3. CASE CheckOther(t)
    <2>1. Seen' = Seen /\ Running' = Running /\ UNCHANGED target
        BY <1>3, MoveShows DEF CheckOther, Phase, Outcomes, Running, On
    <2>2. CASE tainted' = tainted
        BY <2>1, <2>2, UpheldHidden
    <2>3. CASE tainted' # tainted
        <3>1. Promise!Overlook(t)
            BY <1>3, <2>1, <2>3 DEF CheckOther, SwitchTypeOK, Promise!Overlook, Phase, Outcomes, Seen, Running
        <3> QED BY <3>1 DEF Upheld, Promise!Next
    <2> QED BY <2>2, <2>3
<1>4. CASE StopOther(t)
    <2>1. Seen' = Seen /\ Running' = Running \ {other} /\ UNCHANGED <<target, tainted>>
        BY <1>1, <1>4, MoveShows, SetUnitShows DEF StopOther, Phase, Outcomes, AfterStop
    <2>2. Promise!TurnOff(t, other)
        BY <1>2, <1>4, <2>1 DEF StopOther, Promise!TurnOff, Phase, Outcomes, Seen, Running
    <2> QED BY <1>1, <2>2 DEF Upheld, Promise!Next
<1>5. CASE CheckOwn(t)
    <2>1. Seen' = Seen /\ Running' = Running
        BY <1>5, MoveShows DEF CheckOwn, Phase, Outcomes, Running, On
    <2> QED BY <1>5, <2>1, UpheldHidden DEF CheckOwn
<1>6. CASE Start(t) \/ Restart(t)
    <2>1. Seen' = Seen /\ UNCHANGED <<target, tainted>>
        BY <1>6, MoveShows DEF Start, Restart, Phase, Outcomes
    <2>2. Running' = Running \cup {target[t]} \/ Running' = Running \ {target[t]}
        BY <1>1, <1>6, SetUnitShows DEF Start, Restart, AfterStart, AfterRestart, AfterStop
    <2>3. ~tainted => Running \subseteq {target[t]}
        BY <1>1, <1>6 DEF Start, Restart, OtherStopped, Running
    <2>4. Promise!TurnOn(t) \/ Promise!TurnOff(t, target[t])
        BY <1>2, <1>6, <2>1, <2>2, <2>3
            DEF Start, Restart, Promise!TurnOn, Promise!TurnOff, Phase, Outcomes, Seen, Running
    <2> QED BY <1>1, <2>4 DEF Upheld, Promise!Next
<1>7. CASE Clear(t)
    <2>1. Seen' = [Seen EXCEPT ![t] = "switched"] /\ Running' = Running
        BY <1>7, MoveShows DEF Clear, Phase, Outcomes, Running, On
    <2>2. ~tainted => Running \subseteq {target[t]}
        BY <1>1, <1>7 DEF Clear, OtherStopped, Running
    <2>3. Promise!Answer(t, "switched")
        BY <1>2, <1>7, <2>1, <2>2 DEF Clear, Promise!Answer, Phase, Outcomes, Seen, Running
    <2> QED BY <2>3 DEF Upheld, Promise!Next, Promise!Results
<1> QED BY <1>3, <1>4, <1>5, <1>6, <1>7 DEF Request

\* A failure is hidden until the call ends with it.
LEMMA FailureUpheld ==
    ASSUME IInv, NEW t \in Threads, Raise(t) \/ HandleFailure(t)
    PROVE  Upheld
<1> USE DEF IInv
<1>1. Running' = Running /\ UNCHANGED <<target, tainted>>
    BY DEF Raise, HandleFailure, LoadFailures, StoreFailures, CheckLimit, ExecuteCommand,
           ResetFailures, Running, On
<1>2. Seen[t] = Phase(pc[t]) /\ Phase(pc[t]) = "busy"
    BY DEF Seen, Raise, HandleFailure, LoadFailures, StoreFailures, CheckLimit,
           ExecuteCommand, ResetFailures, Phase, Outcomes, Requests
<1>3. PICK place \in {"fail", "count", "check", "command", "zero", "raised", "commanded"} :
          Goto(t, place)
    BY DEF Raise, HandleFailure, LoadFailures, StoreFailures, CheckLimit, ExecuteCommand,
           ResetFailures
<1>4. CASE place \notin Outcomes
    BY <1>1, <1>2, <1>3, <1>4, MoveShows, UpheldHidden DEF Phase, Outcomes
<1>5. CASE place \in Outcomes
    <2>1. Seen' = [Seen EXCEPT ![t] = place] /\ place # "switched"
        BY <1>3, <1>5, MoveShows DEF Phase, Outcomes
    <2>2. Promise!Answer(t, place)
        BY <1>1, <1>2, <2>1 DEF Promise!Answer, Seen, Running
    <2> QED BY <1>5, <2>2 DEF Upheld, Promise!Next, Promise!Results, Outcomes
<1> QED BY <1>4, <1>5

THEOREM PromiseKept == SwitchSpec => KeepsPromise
<1>1. SwitchInit => Promise!Init
    BY DEF SwitchInit, Promise!Init, Phase, Units
<1>2. IInv /\ [SwitchNext]_switchVars => Upheld
    <2> SUFFICES ASSUME IInv, [SwitchNext]_switchVars PROVE Upheld
        OBVIOUS
    <2> USE DEF IInv
    <2>1. ASSUME NEW t \in Threads, NEW m \in Units, Call(t, m) PROVE Upheld
        <3>1. Seen' = [Seen EXCEPT ![t] = "busy"] /\ Running' = Running
            BY <2>1, MoveShows DEF Call, Phase, Outcomes, Running, On
        <3>2. Seen[t] = "idle" /\ (Busy = {} <=> \A s \in Threads : Seen[s] = "idle")
            BY <2>1 DEF Call, Seen, Phase, Outcomes, Busy
        <3>3. ~tainted' = \A s \in Threads : Seen[s] = "idle"
            BY <2>1, <3>2 DEF Call
        <3>4. Promise!Ask(t, m)
            BY <2>1, <3>1, <3>2, <3>3 DEF Call, Promise!Ask, Seen, Running
        <3> QED BY <3>4 DEF Upheld, Promise!Next
    <2>2. ASSUME NEW t \in Threads, Return(t) PROVE Upheld
        <3>1. Seen' = [Seen EXCEPT ![t] = "idle"] /\ Running' = Running
            BY <2>2, MoveShows DEF Return, Phase, Running, On
        <3>2. Seen[t] \in Promise!Results
            BY <2>2 DEF Return, Seen, Phase, Outcomes, Promise!Results
        <3>3. Promise!Return(t)
            BY <2>2, <3>1, <3>2 DEF Return, Promise!Return, Seen, Running, Units
        <3> QED BY <3>3 DEF Upheld, Promise!Next
    <2>3. ASSUME NEW u \in Units, JobEnds(u) \/ UnitDies(u) PROVE Upheld
        <3>1. Seen' = Seen /\ UNCHANGED <<target, tainted>>
            BY <2>3 DEF JobEnds, UnitDies, Seen
        <3>2. Running' = Running \/ Running' = Running \ {u}
            BY <2>3 DEF JobEnds, UnitDies, IsActive, SetUnit, SwitchTypeOK, Running, On
        <3>3. CASE Running' = Running
            BY <3>1, <3>3, UpheldHidden
        <3>4. CASE Running' = Running \ {u}
            <4>1. Promise!Fade(u)
                BY <3>1, <3>4 DEF Promise!Fade, Seen, Running
            <4> QED BY <4>1 DEF Upheld, Promise!Next
        <3> QED BY <3>2, <3>3, <3>4
    <2>4. CASE UNCHANGED switchVars
        BY <2>4, UpheldHidden DEF switchVars, Seen, Running, On
    <2> QED BY <2>1, <2>2, <2>3, <2>4, RequestUpheld, FailureUpheld DEF SwitchNext
<1> QED BY <1>1, <1>2, Invariance, PTL DEF SwitchSpec, KeepsPromise, Promise!Spec, Upheld
===============================================================================
