------------------------ MODULE ConnectionMonitorProofs ------------------------
(* Proofs about ConnectionMonitor, for every set of callers and of checkers,  *)
(* every limit and every number of calls.                                     *)
EXTENDS ConnectionMonitor, TLAPS

(* The inductive invariant.  The monitor's state is one of: stopped, and then *)
(* nothing runs, nor is about to be armed, that a stop has not overrun; or    *)
(* started, and then a timer, a check, a start that has yet to arm the timer, *)
(* or an action or a ping that raised accounts for it.                        *)
Stopped == ~wanted => overrun \/ (~armed /\ Checking = {} /\ Arming = {})

Alive == wanted => armed \/ died \/ Checking # {} \/ Arming # {}

(* Whoever lets the count reach the limit is about to compare it.             *)
LimitSeen == failures >= FailLimit => \E c \in Checkers : pc[c] \in {"test", "reset"}

(* As long as no two checks have run at once the count is at most the number  *)
(* of failed pings in a row, at every place of the one check there is.        *)
Single == ~crossed => \A c, d \in Checking : c = d

Counted == ~crossed =>
    /\ (\A c \in Checkers : pc[c] \notin {"good", "clear"}) => failures <= streak
    /\ \A c \in Checkers :
         /\ pc[c] = "load"    => failures < streak
         /\ pc[c] = "store"   => loaded[c] < streak
         /\ pc[c] = "reset"   => streak = FailLimit
         /\ pc[c] = "restore" => streak = FailLimit /\ failures = 0

\* A step of a call of start or stop.
Called ==
    \E k \in Callers : StartClears(k) \/ StartArms(k) \/ StartConnects(k) \/ Stop(k)

IInv == TypeOK /\ Stopped /\ Alive /\ LimitSeen /\ Single /\ Counted

-------------------------------------------------------------------------------
(* Every step keeps every variable in its type.                               *)
LEMMA TypeStep == TypeOK /\ [Next]_vars => TypeOK'
<1> SUFFICES ASSUME TypeOK, [Next]_vars PROVE TypeOK'
    OBVIOUS
<1> USE MonitorAssumption DEF TypeOK, Places, Goto, history
<1>1. ASSUME NEW k \in Callers, StartClears(k) PROVE TypeOK'
    <2>1. calls' \in 0..MaxCalls BY <1>1 DEF StartClears
    <2> QED BY <1>1, <2>1 DEF StartClears, Calling
<1>2. ASSUME NEW k \in Callers, Stop(k) PROVE TypeOK'
    <2>1. calls' \in 0..MaxCalls BY <1>2 DEF Stop
    <2>2. overrun' \in BOOLEAN BY <1>2, Zenon DEF Stop
    <2> QED BY <1>2, <2>1, <2>2 DEF Stop
<1>3. ASSUME NEW c \in Checkers, Expire(c) \/ Check(c) PROVE TypeOK'
    <2>1. CASE Expire(c) BY <2>1 DEF Expire
    <2>2. CASE Ping(c) BY <2>2 DEF Ping
    <2>8. CASE PingRaises(c) BY <2>8 DEF PingRaises
    <2>3. CASE Good(c) \/ ClearFailures(c) BY <2>3 DEF Good, ClearFailures
    <2>4. CASE LoadFailures(c) \/ StoreFailures(c) BY <2>4 DEF LoadFailures, StoreFailures
    <2>5. CASE TestLimit(c) \/ ResetFailures(c) BY <2>5 DEF TestLimit, ResetFailures
    <2>6. CASE RunActions(c)
        <3>1. died' \in BOOLEAN /\ pc' \in [Checkers -> Places] BY <2>6 DEF RunActions
        <3>2. streak' \in 0..FailLimit BY <2>6 DEF RunActions
        <3> QED BY <2>6, <3>1, <3>2 DEF RunActions
    <2>7. CASE Rearm(c) BY <2>7 DEF Rearm
    <2> QED BY <1>3, <2>1, <2>2, <2>3, <2>4, <2>5, <2>6, <2>7, <2>8 DEF Check
<1>4. ASSUME NEW k \in Callers, StartArms(k) \/ StartConnects(k) PROVE TypeOK'
    BY <1>4 DEF StartArms, StartConnects, Calling
<1>5. CASE NetworkChanges \/ UNCHANGED vars BY <1>5 DEF NetworkChanges, vars
<1> QED BY <1>1, <1>2, <1>3, <1>4, <1>5 DEF Next

(* What a check does to the set of checks and to the timer: it stays under    *)
(* way, or raises, or ends with the timer armed.                              *)
LEMMA CheckGoesOn ==
    ASSUME TypeOK, NEW c \in Checkers, Check(c)
    PROVE  /\ c \in Checking
           /\ \/ Checking' = Checking /\ UNCHANGED <<armed, died>>
              \/ Checking' = Checking \ {c} /\ died' /\ UNCHANGED armed
              \/ Checking' = Checking \ {c} /\ armed' /\ UNCHANGED died
           /\ UNCHANGED <<caller, calls, wanted, overrun, crossed>>
<1> USE DEF TypeOK, Goto, Checking, history
<1>1. CASE RunActions(c) \/ PingRaises(c)
    <2>1. CASE pc'[c] = "idle" BY <1>1, <2>1 DEF RunActions, PingRaises
    <2>2. CASE pc'[c] # "idle" BY <1>1, <2>2 DEF RunActions, PingRaises
    <2> QED BY <2>1, <2>2
<1>2. CASE Rearm(c)
    BY <1>2 DEF Rearm
<1>3. CASE Ping(c) \/ Good(c) \/ ClearFailures(c) \/ LoadFailures(c) \/ StoreFailures(c)
           \/ TestLimit(c) \/ ResetFailures(c)
    BY <1>3 DEF Ping, Good, ClearFailures, LoadFailures, StoreFailures, TestLimit,
                ResetFailures
<1> QED BY <1>1, <1>2, <1>3 DEF Check

(* Nothing arms the timer of a stopped monitor but a check, or a start, that  *)
(* the stop has met under way.                                                *)
LEMMA StoppedStep == TypeOK /\ Stopped /\ [Next]_vars => Stopped'
<1> SUFFICES ASSUME TypeOK, Stopped, [Next]_vars PROVE Stopped'
    OBVIOUS
<1> USE DEF Stopped, Checking, Arming, Goto, history
<1>1. ASSUME NEW k \in Callers, StartClears(k) \/ StartArms(k) \/ StartConnects(k)
      PROVE Stopped'
    BY <1>1 DEF StartClears, StartArms, StartConnects, Calling, TypeOK
<1>2. ASSUME NEW k \in Callers, Stop(k) PROVE Stopped'
    BY <1>2 DEF Stop
<1>3. ASSUME NEW c \in Checkers, Expire(c) PROVE Stopped'
    BY <1>3 DEF Expire
<1>4. ASSUME NEW c \in Checkers, Check(c) PROVE Stopped'
    BY <1>4, CheckGoesOn
<1>5. CASE NetworkChanges \/ UNCHANGED vars
    BY <1>5 DEF NetworkChanges, vars
<1> QED BY <1>1, <1>2, <1>3, <1>4, <1>5 DEF Next

(* A check that was not broken off by an action hands on to the timer, and    *)
(* the timer to a check.                                                      *)
LEMMA AliveStep == TypeOK /\ Alive /\ [Next]_vars => Alive'
<1> SUFFICES ASSUME TypeOK, Alive, [Next]_vars PROVE Alive'
    OBVIOUS
<1> USE DEF Alive, Checking, Arming, Goto, history
<1>1. ASSUME NEW k \in Callers, StartClears(k) \/ StartArms(k) \/ StartConnects(k) \/ Stop(k)
      PROVE Alive'
    <2>1. CASE StartClears(k)
        <3>1. k \in Arming' BY <2>1 DEF StartClears, Calling, TypeOK
        <3> QED BY <3>1
    <2>2. CASE StartArms(k) BY <2>2 DEF StartArms
    <2>3. CASE StartConnects(k) BY <2>3 DEF StartConnects, Calling, TypeOK
    <2>4. CASE Stop(k) BY <2>4 DEF Stop
    <2> QED BY <1>1, <2>1, <2>2, <2>3, <2>4
<1>2. ASSUME NEW c \in Checkers, Expire(c) PROVE Alive'
    <2>1. c \in Checking'
        BY <1>2 DEF Expire, TypeOK
    <2> QED BY <2>1
<1>3. ASSUME NEW c \in Checkers, Check(c) PROVE Alive'
    BY <1>3, CheckGoesOn
<1>4. CASE NetworkChanges \/ UNCHANGED vars
    BY <1>4 DEF NetworkChanges, vars
<1> QED BY <1>1, <1>2, <1>3, <1>4 DEF Next

(* The check that stores a count at the limit goes on to the comparison, one  *)
(* that finds the limit goes on to the reset, and only a reset lowers the     *)
(* count before it leaves.                                                    *)
LEMMA LimitStep == TypeOK /\ LimitSeen /\ [Next]_vars => LimitSeen'
<1> SUFFICES ASSUME TypeOK, LimitSeen, [Next]_vars, failures' >= FailLimit
             PROVE  \E c \in Checkers : pc'[c] \in {"test", "reset"}
    BY DEF LimitSeen
<1> USE MonitorAssumption DEF TypeOK, Goto, history
<1>1. CASE \E c \in Checkers : StoreFailures(c)
    BY <1>1 DEF StoreFailures
<1>2. CASE UNCHANGED failures /\ ~\E c \in Checkers : StoreFailures(c)
    <2>1. PICK c \in Checkers : pc[c] \in {"test", "reset"}
        BY <1>2 DEF LimitSeen
    <2>2. ASSUME NEW d \in Checkers, Expire(d) \/ Check(d)
          PROVE pc'[c] \in {"test", "reset"}
        BY <1>2, <2>1, <2>2
            DEF Expire, Check, Ping, PingRaises, Good, ClearFailures, LoadFailures, StoreFailures,
                TestLimit, ResetFailures, RunActions, Rearm
    <2>3. CASE Called \/ NetworkChanges \/ UNCHANGED vars
        BY <2>1, <2>3
            DEF Called, StartClears, StartArms, StartConnects, Stop, NetworkChanges, vars
    <2> QED BY <2>2, <2>3 DEF Next, Called
<1>3. UNCHANGED failures \/ failures' = 0 \/ \E c \in Checkers : StoreFailures(c)
    BY DEF Next, StartClears, StartArms, StartConnects, Stop, Expire, Check, Ping,
           PingRaises, Good, ClearFailures, LoadFailures, TestLimit, ResetFailures,
           RunActions, Rearm, NetworkChanges, vars
<1> QED BY <1>1, <1>2, <1>3

(* A check that begins beside another is what crosses them.                   *)
LEMMA SingleStep == TypeOK /\ Single /\ [Next]_vars => Single'
<1> SUFFICES ASSUME TypeOK, Single, [Next]_vars PROVE Single'
    OBVIOUS
<1> USE DEF Single
<1>1. ASSUME NEW c \in Checkers, Expire(c) PROVE Single'
    BY <1>1 DEF Expire, Checking, Goto, TypeOK
<1>2. ASSUME NEW c \in Checkers, Check(c) PROVE Single'
    BY <1>2, CheckGoesOn
<1>3. CASE Called \/ NetworkChanges \/ UNCHANGED vars
    BY <1>3 DEF Called, StartClears, StartArms, StartConnects, Stop, NetworkChanges, vars,
                Checking, history
<1> QED BY <1>1, <1>2, <1>3 DEF Next, Called

(* The count of the one check there is goes with the failed pings in a row:   *)
(* a good ping ends the row before it clears the count, and the restore       *)
(* actions end it after.  A start that clears the count between a load and a  *)
(* store is undone by the store, whose value the row still covers.            *)
LEMMA CountedStep ==
    TypeOK /\ LimitSeen /\ Single /\ Counted /\ [Next]_vars => Counted'
<1> SUFFICES ASSUME TypeOK, LimitSeen, Single, Counted, [Next]_vars, ~crossed'
             PROVE  Counted'
    BY DEF Counted
<1> USE MonitorAssumption DEF TypeOK, Goto, history
<1>1. ~crossed
    BY DEF Next, StartClears, StartArms, StartConnects, Stop, Expire, Check, Ping,
           PingRaises, Good, ClearFailures, LoadFailures, StoreFailures, TestLimit,
           ResetFailures, RunActions, Rearm, NetworkChanges, vars
<1>2. ASSUME NEW c \in Checkers, Check(c)
      PROVE  /\ \A d \in Checkers \ {c} : pc[d] = "idle" /\ pc'[d] = "idle"
             /\ pc[c] # "idle"
    BY <1>1, <1>2
        DEF Single, Checking, Check, Ping, PingRaises, Good, ClearFailures, LoadFailures,
            StoreFailures, TestLimit, ResetFailures, RunActions, Rearm
<1>3. ASSUME NEW c \in Checkers, Ping(c) PROVE Counted'
    <2>1. pc[c] = "ping" /\ \A d \in Checkers \ {c} : pc[d] = "idle" /\ pc'[d] = "idle"
        BY <1>2, <1>3 DEF Check, Ping
    <2>2. failures < FailLimit /\ failures <= streak
        BY <1>1, <2>1 DEF LimitSeen, Counted
    <2>3. CASE reachable
        BY <1>3, <2>1, <2>3 DEF Ping, Counted
    <2>4. CASE ~reachable
        <3>1. failures' < streak' /\ pc'[c] = "load"
            BY <1>3, <2>1, <2>2, <2>4 DEF Ping
        <3>2. failures' <= streak'
            BY <3>1, TypeStep
        <3> QED BY <2>1, <3>1, <3>2 DEF Counted
    <2> QED BY <2>3, <2>4
<1>4. ASSUME NEW c \in Checkers, Good(c) \/ ClearFailures(c) PROVE Counted'
    BY <1>1, <1>2, <1>4 DEF Check, Good, ClearFailures, Counted
<1>5. ASSUME NEW c \in Checkers, LoadFailures(c) \/ StoreFailures(c) PROVE Counted'
    BY <1>1, <1>2, <1>5 DEF Check, LoadFailures, StoreFailures, Counted
<1>6. ASSUME NEW c \in Checkers, TestLimit(c) \/ ResetFailures(c) PROVE Counted'
    BY <1>1, <1>2, <1>6 DEF Check, TestLimit, ResetFailures, Counted
<1>7. ASSUME NEW c \in Checkers, RunActions(c) \/ Rearm(c) PROVE Counted'
    <2>1. /\ pc[c] \in {"connect", "restore", "rearm"}
          /\ \A d \in Checkers \ {c} : pc[d] = "idle" /\ pc'[d] = "idle"
        BY <1>2, <1>7 DEF Check, RunActions, Rearm
    <2>2. pc'[c] \in {"idle", "test", "rearm"}
        BY <1>7, <2>1 DEF RunActions, Rearm
    <2>3. failures' <= streak'
        BY <1>1, <1>7, <2>1 DEF RunActions, Rearm, Counted
    <2> QED BY <2>1, <2>2, <2>3 DEF Counted
<1>8. ASSUME NEW c \in Checkers, Expire(c) PROVE Counted'
    BY <1>1, <1>8 DEF Expire, Counted
<1>9. ASSUME NEW c \in Checkers, PingRaises(c) PROVE Counted'
    BY <1>1, <1>2, <1>9 DEF Check, PingRaises, Counted
<1>10. CASE Called \/ NetworkChanges \/ UNCHANGED vars
    <2>1. failures' <= failures /\ (failures' = 0 \/ UNCHANGED failures)
        BY <1>10 DEF Called, StartClears, StartArms, StartConnects, Stop, NetworkChanges, vars
    <2>2. UNCHANGED <<pc, loaded, streak>>
        BY <1>10 DEF Called, StartClears, StartArms, StartConnects, Stop, NetworkChanges, vars
    <2> QED BY <1>1, <2>1, <2>2 DEF Counted
<1> QED BY <1>3, <1>4, <1>5, <1>6, <1>7, <1>8, <1>9, <1>10 DEF Next, Check, Called

-------------------------------------------------------------------------------
(* The invariant holds in every reachable state of every instance.            *)
THEOREM Invariance == Spec => []IInv
<1>1. Init => IInv
    <2> SUFFICES ASSUME Init PROVE IInv
        OBVIOUS
    <2> USE MonitorAssumption DEF Init
    <2>1. TypeOK
        <3>1. 0 \in 0..MaxCalls /\ 0 \in 0..FailLimit OBVIOUS
        <3> QED BY <3>1 DEF TypeOK, Places
    <2>2. Checking = {} /\ Arming = {} BY DEF Checking, Arming
    <2>3. Stopped /\ Alive /\ Single BY <2>2 DEF Stopped, Alive, Single
    <2>4. LimitSeen /\ Counted BY DEF LimitSeen, Counted
    <2> QED BY <2>1, <2>3, <2>4 DEF IInv
<1>2. IInv /\ [Next]_vars => IInv'
    BY TypeStep, StoppedStep, AliveStep, LimitStep, SingleStep, CountedStep DEF IInv
<1> QED BY <1>1, <1>2, PTL DEF Spec

(* Type correctness of the monitor's state under every interleaving.          *)
THEOREM MonitorTypeCorrect == Spec => []TypeOK
<1>1. IInv => TypeOK BY DEF IInv
<1> QED BY <1>1, Invariance, PTL

(* ConnectionMonitor.stop: once checks are over, a stopped monitor has no     *)
(* timer left but one that a check under way at the stop armed again, or a    *)
(* start of another thread that the stop overtook before its timer.           *)
THEOREM StoppedStaysSo == Spec => []StoppedStays
<1>1. IInv => StoppedStays BY DEF IInv, Stopped, StoppedStays, Quiet
<1> QED BY <1>1, Invariance, PTL

(* ConnectionMonitor.start: a started monitor keeps a timer armed between its *)
(* checks until an action or a ping raises, whoever else starts or stops it.  *)
THEOREM MonitorLivesOn == Spec => []MonitorLives
<1>1. IInv => MonitorLives BY DEF IInv, Alive, MonitorLives, Quiet, Arming
<1> QED BY <1>1, Invariance, PTL

(* _check_connection never leaves behind a count at the limit, though it is   *)
(* loaded and stored without a lock.                                          *)
THEOREM CountAlwaysNoticed == Spec => []LimitNoticed
<1>1. IInv => LimitNoticed
    BY MonitorAssumption DEF IInv, TypeOK, LimitSeen, LimitNoticed, Quiet, Checking
<1> QED BY <1>1, Invariance, PTL

(* The restore actions run only after as many failed pings in a row as the    *)
(* configured limit, unless two checks have run at once.                      *)
THEOREM RestoreIsJustified == Spec => []RestoreJustified
<1>1. IInv => RestoreJustified BY DEF IInv, Counted, RestoreJustified
<1> QED BY <1>1, Invariance, PTL
===============================================================================
