---------------------------- MODULE WifiEventsProofs ----------------------------
(* Proofs about WifiEvents, with NetworkManager or wpa_supplicant, for a bus    *)
(* queue of any length, any number of switches under way together and any limit *)
(* of failures.                                                                 *)
EXTENDS WifiEvents, TLAPS

(* What waits in the queue.                                                   *)
Pending(q, T) == \E i \in DOMAIN q : q[i] \in T

\* Each event of S in the queue is followed by one of T.
Followed(q, S, T) ==
    \A i \in DOMAIN q : q[i] \in S => \E j \in DOMAIN q : i < j /\ q[j] \in T

(* The inductive invariant.  A thread has a task while it is in a switch.     *)
Calls == {"initial", "clientTimeout", "peerTimeout", "completed", "restart", "peerLeft"}

TaskFits == \A t \in Threads :
    /\ pc[t] \in {"idle"} \cup Requests \cup Outcomes
    /\ pc[t] # "idle" <=> task[t] \in Calls

LinkFits ==
    /\ link # "down" => IsActive("client")
    /\ peer => IsActive("hotspot")
    /\ link \in {"half", "up"} => networks

(* A thread that is still to stop or to restart the unit, or whose switch has *)
(* failed, which its caller is to deal with.                                  *)
WillStop(t, u) ==
    \/ pc[t] \in {"checkOther", "stopOther", "raised", "commanded"}
    \/ target[t] = u /\ pc[t] \in {"checkOwn", "restart"}

\* A web request cancels or restarts the timer at its end, and marks it.
WebRequests == {"added", "completed", "restart"}

UnderWay(u) == \E t \in Threads : WillStop(t, u) \/ task[t] \in WebRequests

Armed == timer.armed \/ mark \in {"lapsed", "raised"}

\* A failed switch, a failed handler or another path dealt with the timer last.
Excused == mark \in {"misarmed", "lapsed", "raised"}

(* The client, listened to, looks for its network: the timer runs, or will.   *)
SearchArmed == IsActive("client") /\ link = "searching" /\ ~deaf =>
    /\ Followed(queue, {"connected"}, {"notConnected"})
    /\ Armed \/ Pending(queue, {"notConnected"}) \/ UnderWay("client")

(* The hotspot has no peer and there is a network to go back to: likewise.    *)
VacancyArmed == IsActive("hotspot") /\ ~peer =>
    /\ Followed(queue, {"peerConnected"}, {"peerDisconnected", "hotspotActive"})
    /\ networks => \/ Armed \/ UnderWay("hotspot")
                   \/ Pending(queue, {"peerDisconnected", "hotspotActive"})

(* No unit runs nor is about to: the timer runs, or someone will start one.   *)
WillStart(t) == pc[t] \in (Requests \ {"clear"}) \cup {"raised", "commanded"}

OffArmed == (\A u \in Units : ~On(u)) =>
    \/ Armed \/ Pending(queue, {"clientFailed", "hotspotFailed"})
    \/ \E t \in Threads : WillStart(t)

(* The client, listened to, is connected: what would arm the timer is in the  *)
(* queue before what cancels it.                                              *)
LinkEvents == {"clientActive", "clientInactive", "notConnected"}

Linked == IsActive("client") /\ (link = "up" \/ (link = "half" /\ ~NetworkManager))

LinkedUnarmed == Linked /\ ~deaf =>
    /\ Followed(queue, LinkEvents, {"connected"})
    /\ ~timer.armed \/ Excused \/ Pending(queue, {"connected"})

(* The hotspot has a peer: likewise.                                          *)
PeerUnarmed == IsActive("hotspot") /\ peer =>
    /\ Followed(queue, {"hotspotActive"}, {"peerConnected"})
    /\ ~timer.armed \/ Excused \/ mark = "stale" \/ Pending(queue, {"peerConnected"})

(* The client has an address: the monitor runs, or is going to.               *)
Addressed == IsActive("client") /\ (link = "up" \/ (link = "half" /\ NetworkManager))

WillWatch ==
    \/ task[front] \in {"boot", "watch"}
    \/ task[front] = "initial" /\ WillStop(front, "client")

AddressedWatched == Addressed /\ ~deaf =>
    /\ Followed(queue, LinkEvents, {"ipAcquired"})
    /\ monitoring \/ Excused \/ Pending(queue, {"ipAcquired"}) \/ WillWatch

IInv ==
    /\ TypeOK /\ TaskFits /\ LinkFits
    /\ SearchArmed /\ VacancyArmed /\ OffArmed
    /\ LinkedUnarmed /\ PeerUnarmed /\ AddressedWatched

-------------------------------------------------------------------------------
(* What the bus's queue keeps when an event is put at its end: what waits in  *)
(* it still waits, and what was to follow still does.                         *)
LEMMA Enqueued ==
    ASSUME NEW q \in Seq(Events), NEW e \in Events, NEW S, NEW T
    PROVE  /\ Pending(q, T) \/ e \in T => Pending(Append(q, e), T)
           /\ e \notin S /\ (Followed(q, S, T) \/ e \in T) => Followed(Append(q, e), S, T)
<1> DEFINE r == Append(q, e)
<1>1. /\ DOMAIN q = 1..Len(q) /\ DOMAIN r = 1..(Len(q) + 1) /\ Len(q) \in Nat
      /\ \A i \in DOMAIN q : i \in DOMAIN r /\ r[i] = q[i] /\ i < Len(q) + 1
      /\ Len(q) + 1 \in DOMAIN r /\ r[Len(q) + 1] = e
      /\ \A i \in DOMAIN r : i \in DOMAIN q \/ i = Len(q) + 1
    OBVIOUS
<1> HIDE DEF r
<1>2. Pending(q, T) \/ e \in T => Pending(r, T)
    BY <1>1, Zenon DEF Pending
<1>3. e \notin S /\ (Followed(q, S, T) \/ e \in T) => Followed(r, S, T)
    BY <1>1 DEF Followed
<1> QED BY <1>2, <1>3 DEF r

(* And when its first event is taken: it alone no longer waits, and what was  *)
(* to follow it now does.                                                     *)
LEMMA Dequeued ==
    ASSUME NEW q \in Seq(Events), q # <<>>, NEW S, NEW T
    PROVE  /\ Pending(q, T) /\ Head(q) \notin T => Pending(Tail(q), T)
           /\ Followed(q, S, T) => Followed(Tail(q), S, T)
           /\ Followed(q, S, T) /\ Head(q) \in S => Pending(Tail(q), T)
<1> DEFINE r == Tail(q)
<1>1. /\ Len(q) \in Nat \ {0} /\ Head(q) = q[1] /\ DOMAIN q = 1..Len(q)
      /\ DOMAIN r = 1..(Len(q) - 1)
      /\ \A i \in DOMAIN r : i + 1 \in DOMAIN q /\ r[i] = q[i + 1]
      /\ \A i \in DOMAIN q : i > 1 => i - 1 \in DOMAIN r /\ r[i - 1] = q[i]
    OBVIOUS
<1> HIDE DEF r
<1>2. Pending(q, T) /\ Head(q) \notin T => Pending(r, T)
    BY <1>1 DEF Pending
<1>3. Followed(q, S, T) => Followed(r, S, T)
    <2> SUFFICES ASSUME Followed(q, S, T), NEW i \in DOMAIN r, r[i] \in S
                 PROVE \E j \in DOMAIN r : i < j /\ r[j] \in T
        BY DEF Followed
    <2>1. PICK j \in DOMAIN q : i + 1 < j /\ q[j] \in T
        BY <1>1 DEF Followed
    <2> QED BY <1>1, <2>1
<1>4. Followed(q, S, T) /\ Head(q) \in S => Pending(r, T)
    BY <1>1 DEF Followed, Pending
<1> QED BY <1>2, <1>3, <1>4 DEF r

-------------------------------------------------------------------------------
(* Every step keeps every variable in its type.                               *)
LEMMA BooleansStep ==
    TypeOK /\ [Next]_vars => /\ peer' \in BOOLEAN /\ networks' \in BOOLEAN
                             /\ monitoring' \in BOOLEAN /\ tainted' \in BOOLEAN
<1> SUFFICES ASSUME TypeOK, [Next]_vars
             PROVE  /\ peer' \in BOOLEAN /\ networks' \in BOOLEAN
                    /\ monitoring' \in BOOLEAN /\ tainted' \in BOOLEAN
    OBVIOUS
<1> USE DEF TypeOK, SwitchTypeOK
<1>1. CASE UnitChanges \/ LinkChanges \/ LeaseChanges
    BY <1>1, Zenon DEF UnitChanges, LinkChanges, LeaseChanges, Follow, JobEnds, UnitDies,
                       switchVars
<1>2. CASE Loop
    BY <1>2, Zenon DEF Loop, OnClientUnit, OnHotspotStarted, OnClientNotConnected,
        OnClientConnected, OnClientIpAcquired, OnPeerConnected, OnPeerDisconnected,
        OnUnitFailed, Follow, Quietly, Begin, Call, switchVars
<1>3. CASE TimerExpires \/ InitialStatus \/ InitialMonitoring \/ OnAddNetworkRequested
           \/ WebRequest
    BY <1>3, Zenon DEF TimerExpires, InitialStatus, InitialMonitoring,
        OnAddNetworkRequested, WebRequest, Begin, Call, switchVars
<1>4. ASSUME NEW t \in Threads, Switching(t) \/ Finish(t)
      PROVE  /\ peer' \in BOOLEAN /\ networks' \in BOOLEAN
             /\ monitoring' \in BOOLEAN /\ tainted' \in BOOLEAN
    BY <1>4, Zenon DEF Switching, Finish, Follow, Request, Fail, CheckOther, StopOther,
        CheckOwn, Start, Restart, Clear, Return
<1>5. CASE UNCHANGED vars
    BY <1>5 DEF vars, switchVars, eventVars
<1> QED BY <1>1, <1>2, <1>3, <1>4, <1>5, Zenon DEF Next

(* skipped keeps its type, too: it is the value of a comparison.               *)
LEMMA SkippedStep == TypeOK /\ [Next]_vars => skipped' \in BOOLEAN
<1> SUFFICES ASSUME TypeOK, [Next]_vars PROVE skipped' \in BOOLEAN
    OBVIOUS
<1>0. (failures + 1 >= FailLimit) \in BOOLEAN
    OBVIOUS
<1> USE DEF TypeOK, SwitchTypeOK
<1>1. CASE UNCHANGED skipped
    BY <1>1
<1>2. ASSUME NEW t \in Threads, Switching(t) PROVE skipped' \in BOOLEAN
    BY <1>0, <1>2, Zenon DEF Switching, Request, Fail, CheckOther, StopOther, CheckOwn, Start,
                             Restart, Clear
<1> QED BY <1>1, <1>2
        DEF Next, UnitChanges, LinkChanges, LeaseChanges, JobEnds, UnitDies, Loop, OnClientUnit,
            OnHotspotStarted, OnClientNotConnected, OnClientConnected, OnClientIpAcquired,
            OnPeerConnected, OnPeerDisconnected, OnUnitFailed, Quietly, TimerExpires,
            InitialStatus, InitialMonitoring, OnAddNetworkRequested, WebRequest, Begin, Call,
            Finish, Return, vars, switchVars

(* Only NetworkManager is not listened to, and it is again only while its     *)
(* present run has not yet said anything of the link.                         *)
LEMMA DeafStep ==
    TypeOK /\ [Next]_vars =>
        /\ deaf' \in BOOLEAN /\ (deaf' => NetworkManager)
        /\ deaf /\ ~deaf' => link' = "down"
<1> DEFINE Goal == /\ deaf' \in BOOLEAN /\ (deaf' => NetworkManager)
                   /\ deaf /\ ~deaf' => link' = "down"
<1> SUFFICES ASSUME TypeOK, [Next]_vars PROVE Goal
    OBVIOUS
<1>0. deaf \in BOOLEAN /\ (deaf => NetworkManager)
    BY DEF TypeOK
<1>1. CASE UNCHANGED deaf
    BY <1>0, <1>1, Zenon
<1>2. ASSUME NEW u \in Units, NEW e, OnUnitFailed(u, e) PROVE Goal
    <2>1. UNCHANGED deaf \/ deaf' = (deaf \/ (NetworkManager /\ u = "client"))
        BY <1>2 DEF OnUnitFailed
    <2> QED BY <1>0, <1>1, <2>1, Zenon
<1>3. ASSUME NEW t \in Threads, Switching(t) PROVE Goal
    <2>1. CASE Listen(t)
        <3>1. CASE deaf' = TRUE /\ NetworkManager
            BY <3>1, Zenon
        <3>2. CASE deaf' \in {deaf, deaf /\ link # "down"}
            <4>1. link = "down" => link' = "down"
                BY <1>3 DEF Switching, Follow
            <4> QED BY <1>0, <3>2, <4>1, Zenon
        <3>3. CASE pc[t] = "start" /\ ~On("client") /\ NetworkManager /\ target[t] = "client"
            <4>1. deaf' = TRUE
                BY <2>1, <3>3 DEF Listen
            <4> QED BY <3>1, <3>3, <4>1, Zenon
        <3>4. CASE ~(pc[t] = "start" /\ ~On("client")) /\ NetworkManager /\ target[t] = "client"
            <4>1. UNCHANGED deaf \/ deaf' \in {deaf, deaf /\ link # "down"}
                BY <2>1, <3>4 DEF Listen
            <4> QED BY <1>1, <3>2, <4>1, Zenon
        <3>5. CASE ~NetworkManager \/ target[t] # "client"
            <4>1. UNCHANGED deaf
                BY <2>1, <3>5 DEF Listen
            <4> QED BY <1>1, <4>1, Zenon
        <3> HIDE DEF Goal
        <3> QED BY <3>3, <3>4, <3>5
    <2> QED BY <1>1, <1>3, <2>1, Zenon DEF Switching
<1> HIDE DEF Goal
<1> QED BY <1>1, <1>2, <1>3
        DEF Next, UnitChanges, LinkChanges, LeaseChanges, Loop, OnClientUnit,
            OnHotspotStarted, OnClientNotConnected, OnClientConnected, OnClientIpAcquired,
            OnPeerConnected, OnPeerDisconnected, Quietly, TimerExpires, InitialStatus,
            InitialMonitoring, OnAddNetworkRequested, WebRequest, Finish, vars, eventVars, Units

(* What the environment does to the units: a job ends or a process dies, and  *)
(* the bus carries the event that goes with it.                               *)
LEMMA UnitSteps ==
    ASSUME TypeOK, UnitChanges
    PROVE  \/ /\ unit["client"] = "activating" /\ unit' = [unit EXCEPT !["client"] = "active"]
              /\ queue' = Append(queue, "clientActive")
           \/ /\ unit["hotspot"] = "activating" /\ unit' = [unit EXCEPT !["hotspot"] = "active"]
              /\ queue' = Append(queue, "hotspotActive")
           \/ /\ On("client") /\ unit' = [unit EXCEPT !["client"] = "failed"]
              /\ queue' = Append(queue, "clientFailed")
           \/ /\ On("hotspot") /\ unit' = [unit EXCEPT !["hotspot"] = "failed"]
              /\ queue' = Append(queue, "hotspotFailed")
           \/ /\ unit["client"] = "deactivating" /\ unit' = [unit EXCEPT !["client"] = "inactive"]
              /\ queue' = Append(queue, "clientInactive")
           \/ /\ unit["hotspot"] = "deactivating"
              /\ unit' = [unit EXCEPT !["hotspot"] = "inactive"] /\ UNCHANGED queue
<1> USE DEF TypeOK, SwitchTypeOK, Units, SetUnit, Signal, On, IsActive
<1>1. CASE JobEnds("client") \/ UnitDies("client")
    BY <1>1 DEF UnitChanges, JobEnds, UnitDies
<1>2. CASE JobEnds("hotspot") \/ UnitDies("hotspot")
    BY <1>2 DEF UnitChanges, JobEnds, UnitDies
<1> QED BY <1>1, <1>2 DEF UnitChanges

LEMMA QueueStep == TypeOK /\ [Next]_vars => queue' \in Seq(Events) /\ Len(queue') <= MaxEvents
<1> SUFFICES ASSUME TypeOK, [Next]_vars
             PROVE queue' \in Seq(Events) /\ Len(queue') <= MaxEvents
    OBVIOUS
<1>0. MaxEvents \in Nat /\ queue \in Seq(Events) /\ Len(queue) <= MaxEvents
    BY ThreadsAssumption DEF TypeOK
<1>1. ASSUME NEW e \in Events, Signal(e)
      PROVE queue' \in Seq(Events) /\ Len(queue') <= MaxEvents
    BY <1>0, <1>1 DEF Signal
<1>2. ASSUME NEW e, Take(e) PROVE queue' \in Seq(Events) /\ Len(queue') <= MaxEvents
    BY <1>0, <1>2 DEF Take
<1>3. CASE queue' = queue
    BY <1>0, <1>3
<1>4. (\E e \in Events : Signal(e)) \/ (\E e : Take(e)) \/ queue' = queue
    <2>1. CASE UnitChanges
        <3>1. Len(queue) < MaxEvents \/ queue' = queue
            BY <2>1, UnitSteps
                DEF UnitChanges, Signal, TypeOK, SwitchTypeOK, Units, On, JobEnds, UnitDies,
                    SetUnit, IsActive
        <3> QED BY <2>1, <3>1, UnitSteps DEF Signal, Events
    <2>2. CASE LinkChanges \/ LeaseChanges
        BY <2>2 DEF LinkChanges, LeaseChanges, DeviceSignal, Events
    <2>3. CASE Loop
        BY <2>3 DEF Loop, OnClientUnit, OnHotspotStarted, OnClientNotConnected,
            OnClientConnected, OnClientIpAcquired, OnPeerConnected, OnPeerDisconnected,
            OnUnitFailed
    <2> QED BY <2>1, <2>2, <2>3
            DEF Next, TimerExpires, InitialStatus, InitialMonitoring,
                OnAddNetworkRequested, WebRequest, Switching, Finish, vars, eventVars
<1> QED BY <1>1, <1>2, <1>3, <1>4

Marks  == {"armed", "misarmed", "stale", "lapsed", "raised"}
Timers == [fn : {"none", "client", "peer"}, armed : BOOLEAN]

LEMMA TimerStep == TypeOK /\ TaskFits /\ [Next]_vars => timer' \in Timers /\ mark' \in Marks
<1> SUFFICES ASSUME TypeOK, TaskFits, [Next]_vars PROVE timer' \in Timers /\ mark' \in Marks
    OBVIOUS
<1>0. timer \in Timers /\ mark \in Marks
    BY DEF TypeOK, Timers, Marks
<1>a. \A f \in {"client", "peer"} : [fn |-> f, armed |-> TRUE] \in Timers
    BY DEF Timers
<1> USE <1>0, <1>a DEF Timers, Marks, TimerStart, TimerCancel, TimerRestart, StatusRaises
<1>1. CASE Loop
    <2>1. CASE \E e \in {"clientActive", "clientInactive"} : OnClientUnit(e)
        BY <2>1 DEF OnClientUnit
    <2>2. CASE OnHotspotStarted \/ OnClientNotConnected
        BY <2>2 DEF OnHotspotStarted, OnClientNotConnected
    <2>3. CASE OnClientConnected \/ OnClientIpAcquired \/ OnPeerConnected
        BY <2>3 DEF OnClientConnected, OnClientIpAcquired, OnPeerConnected
    <2>4. CASE OnPeerDisconnected
        BY <2>4 DEF OnPeerDisconnected
    <2>5. ASSUME NEW u \in Units, NEW e, OnUnitFailed(u, e)
          PROVE timer' \in Timers /\ mark' \in Marks
        BY <2>5 DEF OnUnitFailed
    <2> QED BY <1>1, <2>1, <2>2, <2>3, <2>4, <2>5 DEF Loop, Units
<1>3. CASE TimerExpires
    BY <1>3 DEF TimerExpires
<1>2. ASSUME NEW t \in Threads, Finish(t) PROVE timer' \in Timers /\ mark' \in Marks
    <2>1. CASE pc[t] = "raised"
        <3>1. task[t] \in Calls
            BY <2>1 DEF TaskFits
        <3> QED BY <1>2, <2>1, <3>1 DEF Finish, AfterRaise, Calls
    <2>2. CASE pc[t] # "raised"
        BY <1>2, <2>2 DEF Finish, AfterSwitch
    <2> QED BY <2>1, <2>2
<1> QED BY <1>1, <1>2, <1>3
        DEF Next, UnitChanges, LinkChanges, LeaseChanges, InitialStatus,
            InitialMonitoring, OnAddNetworkRequested, WebRequest, Switching, vars, eventVars

LEMMA TypeStep == TypeOK /\ TaskFits /\ [Next]_vars => TypeOK'
<1> SUFFICES ASSUME TypeOK, TaskFits, [Next]_vars PROVE TypeOK'
    OBVIOUS
<1>0. /\ peer' \in BOOLEAN /\ networks' \in BOOLEAN
      /\ monitoring' \in BOOLEAN /\ tainted' \in BOOLEAN /\ skipped' \in BOOLEAN
      /\ deaf' \in BOOLEAN /\ (deaf' => NetworkManager)
      /\ queue' \in Seq(Events) /\ Len(queue') <= MaxEvents
      /\ timer' \in [fn : {"none", "client", "peer"}, armed : BOOLEAN]
      /\ mark' \in {"armed", "misarmed", "stale", "lapsed", "raised"}
    BY BooleansStep, SkippedStep, DeafStep, QueueStep, TimerStep DEF Timers, Marks
<1> DEFINE Rest == /\ unit \in [Units -> UnitStates] /\ failures \in Nat
                   /\ pc \in [Threads -> Places] /\ target \in [Threads -> Units]
                   /\ loaded \in [Threads -> Nat] /\ task \in [Threads -> Tasks]
                   /\ link \in Links /\ failed \in [Units -> BOOLEAN]
<1>a. Rest
    BY DEF TypeOK, SwitchTypeOK
<1>b. SUFFICES Rest'
    BY <1>0 DEF TypeOK, SwitchTypeOK
<1> USE <1>a, ThreadsAssumption DEF Units, Tasks, Links, Goto, SetUnit, SetTask
<1>1. CASE UnitChanges
    <2>1. unit' \in [Units -> UnitStates]
        BY <1>1, UnitSteps DEF UnitStates
    <2> QED BY <1>1, <2>1 DEF UnitChanges, JobEnds, UnitDies, Follow
<1>2. CASE LinkChanges \/ LeaseChanges
    BY <1>2 DEF LinkChanges, LeaseChanges, switchVars
<1>3. CASE Loop
    <2> USE DEF Quietly, switchVars
    <2>1. CASE \E e \in {"clientActive", "clientInactive"} : OnClientUnit(e)
        BY <2>1 DEF OnClientUnit
    <2>2. CASE OnHotspotStarted \/ OnClientNotConnected
        BY <2>2 DEF OnHotspotStarted, OnClientNotConnected
    <2>3. CASE OnClientConnected \/ OnClientIpAcquired \/ OnPeerConnected
        BY <2>3 DEF OnClientConnected, OnClientIpAcquired, OnPeerConnected
    <2>4. CASE OnPeerDisconnected
        BY <2>4 DEF OnPeerDisconnected, Begin, Call, Places, Requests
    <2>5. ASSUME NEW u \in Units, NEW e, OnUnitFailed(u, e) PROVE Rest'
        BY <2>5 DEF OnUnitFailed, Follow, UnitStates, AfterRestart
    <2> HIDE DEF Rest
    <2> QED BY <1>3, <2>1, <2>2, <2>3, <2>4, <2>5 DEF Loop
<1>4. CASE TimerExpires
    BY <1>4 DEF TimerExpires, Begin, Call, Places, Requests, switchVars
<1>5. CASE InitialStatus \/ InitialMonitoring \/ OnAddNetworkRequested \/ WebRequest
    BY <1>5 DEF InitialStatus, InitialMonitoring, OnAddNetworkRequested, WebRequest, Begin,
                Call, Places, Requests, switchVars
<1>6. ASSUME NEW t \in Threads, Switching(t) PROVE Rest'
    <2>1. /\ failures' \in Nat /\ loaded' = loaded /\ target' = target
          /\ pc' \in [Threads -> Places]
        BY <1>6 DEF Switching, Request, Fail, CheckOther, StopOther, CheckOwn, Start,
                    Restart, Clear, Places, Requests, Outcomes
    <2>2. unit' \in [Units -> UnitStates]
        BY <1>6 DEF Switching, Request, Fail, CheckOther, StopOther, CheckOwn, Start,
                    Restart, Clear, AfterStart, AfterStop, AfterRestart, Other, UnitStates
    <2> QED BY <1>6, <2>1, <2>2 DEF Switching, Follow
<1>7. ASSUME NEW t \in Threads, Finish(t) PROVE Rest'
    <2>1. pc' \in [Threads -> Places] /\ target' \in [Threads -> Units]
        BY <1>7 DEF Finish, Return, Places
    <2> QED BY <1>7, <2>1 DEF Finish, Return
<1>8. CASE UNCHANGED vars
    BY <1>8 DEF vars, switchVars, eventVars
<1> HIDE DEF Rest
<1> QED BY <1>1, <1>2, <1>3, <1>4, <1>5, <1>6, <1>7, <1>8 DEF Next

-------------------------------------------------------------------------------
(* What a step does to the threads: at most one of them moves.                *)
OthersStay(t) == \A s \in Threads \ {t} :
    pc'[s] = pc[s] /\ target'[s] = target[s] /\ task'[s] = task[s]

Begun(t) ==
    /\ pc[t] = "idle" /\ pc'[t] = "checkOther" /\ task'[t] \in Calls
    /\ task[t] \in {"none", "boot", "added"}
    /\ task[t] = "added" => task'[t] = "completed"
    /\ OthersStay(t)
    /\ UNCHANGED unit

Stirred(t) ==
    /\ task[t] \in {"none", "boot", "watch"} /\ task'[t] \in {"none", "watch", "added"}
    /\ OthersStay(t)
    /\ UNCHANGED <<pc, target>>

Requested(t) ==
    /\ pc[t] \in Requests /\ pc'[t] \in Requests \cup Outcomes
    /\ OthersStay(t)
    /\ UNCHANGED <<target, task>>

Finished(t) ==
    /\ pc[t] \in Outcomes /\ pc'[t] = "idle" /\ task'[t] = "none"
    /\ OthersStay(t)
    /\ UNCHANGED unit

LEMMA BeginSteps ==
    ASSUME TypeOK, NEW t \in Threads, NEW k \in Calls, NEW m \in Units, Begin(t, k, m),
           task[t] \in {"none", "boot", "added"}, task[t] = "added" => k = "completed"
    PROVE  Begun(t) /\ task'[t] = k /\ target'[t] = m
BY DEF Begin, Call, Goto, SetTask, Begun, OthersStay, TypeOK, SwitchTypeOK

LEMMA SwitchingSteps ==
    ASSUME TypeOK, NEW t \in Threads, Switching(t)
    PROVE  Requested(t)
<1>1. pc[t] \in Requests /\ UNCHANGED <<target, task>>
    BY DEF Switching, Request, Fail, CheckOther, StopOther, CheckOwn, Start, Restart, Clear,
           Requests
<1>2. \E p \in Requests \cup Outcomes : pc' = [pc EXCEPT ![t] = p]
    BY DEF Switching, Request, Fail, CheckOther, StopOther, CheckOwn, Start, Restart, Clear,
           Requests, Outcomes, Goto
<1> QED BY <1>1, <1>2 DEF Requested, OthersStay, TypeOK, SwitchTypeOK

LEMMA FinishSteps ==
    ASSUME TypeOK, NEW t \in Threads, Finish(t)
    PROVE  Finished(t)
BY DEF Finish, Return, Goto, SetTask, Finished, OthersStay, TypeOK, SwitchTypeOK

LEMMA ThreadSteps ==
    ASSUME TypeOK, [Next]_vars
    PROVE  \/ UNCHANGED <<pc, target, task>>
           \/ \E t \in Threads : \/ Begun(t) \/ Stirred(t)
                                 \/ Switching(t) /\ Requested(t)
                                 \/ Finish(t) /\ Finished(t)
<1>0. loop \in Threads /\ expiry \in Threads /\ front \in Threads
    BY ThreadsAssumption
<1>1. CASE UnitChanges \/ LinkChanges \/ LeaseChanges \/ UNCHANGED vars
    BY <1>1 DEF UnitChanges, LinkChanges, LeaseChanges, JobEnds, UnitDies, switchVars, vars,
                eventVars
<1>2. CASE Loop
    <2>1. CASE OnPeerDisconnected
        <3>1. CASE UNCHANGED <<switchVars, task>>
            BY <3>1 DEF switchVars
        <3>2. CASE Begin(loop, "peerLeft", "client")
            BY <1>0, <2>1, <3>2, BeginSteps
                DEF OnPeerDisconnected, Take, Idle, Calls, Units
        <3> QED BY <2>1, <3>1, <3>2 DEF OnPeerDisconnected
    <2>2. CASE ~OnPeerDisconnected
        BY <1>2, <2>2 DEF Loop, OnClientUnit, OnHotspotStarted, OnClientNotConnected,
            OnClientConnected, OnClientIpAcquired, OnPeerConnected, OnUnitFailed, Quietly,
            switchVars
    <2> QED BY <2>1, <2>2
<1>3. CASE TimerExpires
    BY <1>0, <1>3, BeginSteps DEF TimerExpires, Idle, Calls, Units, switchVars
<1>4. CASE InitialStatus
    <2>1. CASE Begin(front, "initial", "hotspot") \/ Begin(front, "initial", "client")
        BY <1>0, <1>4, <2>1, BeginSteps DEF InitialStatus, Calls, Units
    <2>2. CASE UNCHANGED switchVars /\ \E k \in {"watch", "none"} : SetTask(front, k)
        BY <1>0, <1>4, <2>2
            DEF InitialStatus, Stirred, OthersStay, SetTask, switchVars, TypeOK
    <2> QED BY <1>4, <2>1, <2>2 DEF InitialStatus
<1>5. CASE InitialMonitoring \/ OnAddNetworkRequested
    BY <1>0, <1>5 DEF InitialMonitoring, OnAddNetworkRequested, Idle, Stirred, OthersStay,
                      SetTask, switchVars, TypeOK
<1>6. CASE WebRequest
    BY <1>0, <1>6, BeginSteps DEF WebRequest, Idle, Calls, Units
<1>7. ASSUME NEW t \in Threads, Switching(t) \/ Finish(t)
      PROVE  \E s \in Threads : \/ Switching(s) /\ Requested(s)
                                \/ Finish(s) /\ Finished(s)
    BY <1>7, SwitchingSteps, FinishSteps
<1> QED BY <1>1, <1>2, <1>3, <1>4, <1>5, <1>6, <1>7 DEF Next

(* A thread has a task as long as it is in a switch.                          *)
LEMMA TaskStep == TypeOK /\ TaskFits /\ [Next]_vars => TaskFits'
<1> SUFFICES ASSUME TypeOK, TaskFits, [Next]_vars PROVE TaskFits'
    OBVIOUS
<1> USE DEF TaskFits, Calls
<1>1. ASSUME NEW t \in Threads, Begun(t) \/ Stirred(t) \/ Requested(t) \/ Finished(t)
      PROVE TaskFits'
    BY <1>1 DEF Begun, Stirred, Requested, Finished, OthersStay, Requests, Outcomes, TypeOK,
                SwitchTypeOK
<1>2. CASE UNCHANGED <<pc, target, task>>
    BY <1>2
<1> QED BY <1>1, <1>2, ThreadSteps

-------------------------------------------------------------------------------
(* What a step does to the units.  A switch brings none up at once, and it    *)
(* goes on until it has stopped or restarted what it was to.                  *)
LEMMA RequestSteps ==
    ASSUME TypeOK, NEW t \in Threads, Switching(t)
    PROVE  /\ \A u \in Units : unit'[u] = "active" => unit[u] = "active"
           /\ \A u \in Units : WillStop(t, u) => WillStop(t, u)' \/ unit'[u] # "active"
           /\ WillStart(t) \/ (\E u \in Units : On(u)) =>
                WillStart(t)' \/ \E u \in Units : On(u)'
<1> USE DEF TypeOK, SwitchTypeOK, Goto, SetUnit, Units, WillStop, WillStart, On, IsActive,
            Requests
<1>1. CASE Fail(t)
    BY <1>1 DEF Fail
<1>2. CASE CheckOther(t)
    BY <1>2 DEF CheckOther, Other
<1>3. CASE StopOther(t)
    BY <1>3 DEF StopOther, Other, AfterStop
<1>4. CASE CheckOwn(t)
    BY <1>4 DEF CheckOwn
<1>5. CASE Start(t)
    BY <1>5 DEF Start, AfterStart
<1>6. CASE Restart(t)
    BY <1>6 DEF Restart, AfterStop, AfterRestart
<1>7. CASE Clear(t)
    BY <1>7 DEF Clear
<1> QED BY <1>1, <1>2, <1>3, <1>4, <1>5, <1>6, <1>7 DEF Switching, Request

Started(u) == IF u = "client" THEN "clientActive" ELSE "hotspotActive"

(* A unit comes up only when systemd ends its job, which is signalled.        *)
LEMMA UnitRises ==
    ASSUME TypeOK, [Next]_vars, NEW u \in Units, unit'[u] = "active", unit[u] # "active"
    PROVE  UnitChanges /\ queue' = Append(queue, Started(u))
<1>1. CASE UnitChanges
    BY <1>1, UnitSteps DEF TypeOK, SwitchTypeOK, Units, Started
<1>2. CASE Loop
    BY <1>2 DEF Loop, OnClientUnit, OnHotspotStarted, OnClientNotConnected,
        OnClientConnected, OnClientIpAcquired, OnPeerConnected, OnPeerDisconnected,
        OnUnitFailed, Quietly, Begin, Call, switchVars, SetUnit, AfterRestart, TypeOK,
        SwitchTypeOK, Units
<1>3. ASSUME NEW t \in Threads, Switching(t) \/ Finish(t) PROVE unit'[u] = unit[u]
                                                             \/ unit'[u] # "active"
    BY <1>3, RequestSteps DEF Finish, Return
<1> QED BY <1>1, <1>2, <1>3
        DEF Next, LinkChanges, LeaseChanges, TimerExpires, InitialStatus,
            InitialMonitoring, OnAddNetworkRequested, WebRequest, Begin, Call, vars,
            switchVars

(* The link and the lease go with their units, and change by themselves only  *)
(* with a signal.                                                             *)
LEMMA LinkMoves ==
    ASSUME TypeOK, LinkFits, [Next]_vars
    PROVE  LinkChanges \/ link' = IF unit'["client"] = "active" THEN link ELSE "down"
<1>1. CASE UNCHANGED <<unit, link>>
    BY <1>1 DEF LinkFits, IsActive
<1> QED BY <1>1
        DEF Next, UnitChanges, LeaseChanges, Loop, OnClientUnit, OnHotspotStarted,
            OnClientNotConnected, OnClientConnected, OnClientIpAcquired, OnPeerConnected,
            OnPeerDisconnected, OnUnitFailed, Follow, Quietly, TimerExpires, InitialStatus,
            InitialMonitoring, OnAddNetworkRequested, WebRequest, Begin, Call, Switching,
            Finish, Return, vars, eventVars, switchVars

LEMMA PeerMoves ==
    ASSUME TypeOK, LinkFits, [Next]_vars
    PROVE  LeaseChanges \/ (peer' <=> peer /\ unit'["hotspot"] = "active")
<1>1. CASE UNCHANGED <<unit, peer>>
    BY <1>1 DEF LinkFits, IsActive
<1>2. CASE Follow
    BY <1>2, Zenon DEF Follow
<1> QED BY <1>1, <1>2
        DEF Next, UnitChanges, LinkChanges, Loop, OnClientUnit, OnHotspotStarted,
            OnClientNotConnected, OnClientConnected, OnClientIpAcquired, OnPeerConnected,
            OnPeerDisconnected, OnUnitFailed, Quietly, TimerExpires, InitialStatus,
            InitialMonitoring, OnAddNetworkRequested, WebRequest, Begin, Call, Switching,
            Finish, Return, vars, eventVars, switchVars

(* Networks are added, never lost.                                            *)
LEMMA NetworksKept ==
    ASSUME TypeOK, [Next]_vars
    PROVE  networks' = networks \/ (networks' = TRUE /\ task'[front] = "added")
<1>1. CASE OnAddNetworkRequested
    BY <1>1, ThreadsAssumption DEF OnAddNetworkRequested, SetTask, TypeOK
<1> QED BY <1>1
        DEF Next, UnitChanges, LinkChanges, LeaseChanges, Loop, OnClientUnit,
            OnHotspotStarted, OnClientNotConnected, OnClientConnected, OnClientIpAcquired,
            OnPeerConnected, OnPeerDisconnected, OnUnitFailed, Quietly, TimerExpires,
            InitialStatus, InitialMonitoring, WebRequest, Switching, Finish, vars, eventVars

(* The client has a link, and the hotspot a peer, only while they are active. *)
LEMMA LinkStep == TypeOK /\ LinkFits /\ [Next]_vars => LinkFits'
<1> SUFFICES ASSUME TypeOK, LinkFits, [Next]_vars PROVE LinkFits'
    OBVIOUS
<1> USE DEF LinkFits, IsActive
<1>1. (link' # "down" => unit'["client"] = "active") /\ (link' \in {"half", "up"} => networks)
    <2>1. CASE LinkChanges
        BY <2>1 DEF LinkChanges, switchVars, TypeOK, SwitchTypeOK, Units
    <2> QED BY <2>1, LinkMoves
<1>2. peer' => unit'["hotspot"] = "active"
    <2>1. CASE LeaseChanges
        BY <2>1 DEF LeaseChanges, switchVars
    <2> QED BY <2>1, PeerMoves
<1> QED BY <1>1, <1>2, NetworksKept

-------------------------------------------------------------------------------
(* What a step does to the timer.  It leaves it; arms it, for the client or   *)
(* for a peer; leaves a mark that owns up to it; or cancels it, in the modes  *)
(* the cancelling handlers are meant for or with a switch that now begins.    *)
Arms ==
    /\ timer'.armed
    /\ \/ OnClientNotConnected
       \/ mark' = "armed" /\ State = "client"
          /\ \E e \in {"clientActive", "clientInactive"} : OnClientUnit(e)
       \/ mark' = "armed" /\ State = "hotspot" /\ OnHotspotStarted

Owns == Excused' /\ Armed'

Cancels ==
    /\ ~timer'.armed /\ mark' = mark
    /\ \/ \E t \in Threads : Begun(t)
       \/ State = "client" /\ OnClientConnected
       \/ State = "hotspot" /\ OnPeerConnected

LEMMA TimerMoves ==
    ASSUME TypeOK, TaskFits, [Next]_vars
    PROVE  UNCHANGED <<timer, mark>> \/ Arms \/ Owns \/ Cancels
<1>0. timer \in Timers /\ loop \in Threads /\ expiry \in Threads
    BY ThreadsAssumption DEF TypeOK, Timers
<1>a. \A f \in {"client", "peer"} : [fn |-> f, armed |-> TRUE].armed
    OBVIOUS
<1>b. [timer EXCEPT !.armed = TRUE].armed /\ ~[timer EXCEPT !.armed = FALSE].armed
    BY <1>0 DEF Timers
<1> USE <1>a, <1>b DEF TimerStart, TimerCancel, TimerRestart, StatusRaises, Armed, Excused
<1>1. CASE Loop
    <2>1. CASE \E e \in {"clientActive", "clientInactive"} : OnClientUnit(e)
        <3>1. \/ UNCHANGED timer /\ (UNCHANGED mark \/ mark' = "raised")
              \/ State = "client" /\ timer' = [fn |-> "client", armed |-> TRUE] /\ mark' = "armed"
            BY <2>1 DEF OnClientUnit
        <3> QED BY <2>1, <3>1 DEF Arms, Owns
    <2>2. CASE OnHotspotStarted
        BY <2>2 DEF OnHotspotStarted, Arms, Owns
    <2>3. CASE OnClientNotConnected
        BY <2>3 DEF OnClientNotConnected, Arms, Owns
    <2>4. CASE OnClientConnected
        BY <2>4 DEF OnClientConnected, Owns, Cancels
    <2>5. CASE OnClientIpAcquired
        BY <2>5 DEF OnClientIpAcquired, Owns
    <2>6. CASE OnPeerConnected
        BY <2>6 DEF OnPeerConnected, Owns, Cancels
    <2>7. CASE OnPeerDisconnected
        <3>1. CASE Begin(loop, "peerLeft", "client") /\ TimerCancel /\ UNCHANGED mark
            BY <1>0, <2>7, <3>1, BeginSteps
                DEF OnPeerDisconnected, Take, Idle, Cancels, Calls, Units
        <3> QED BY <2>7, <3>1 DEF OnPeerDisconnected, Owns
    <2>8. ASSUME NEW u \in Units, NEW e, OnUnitFailed(u, e)
          PROVE UNCHANGED <<timer, mark>> \/ Owns
        BY <2>8 DEF OnUnitFailed, Owns
    <2> QED BY <1>1, <2>1, <2>2, <2>3, <2>4, <2>5, <2>6, <2>7, <2>8 DEF Loop, Units
<1>2. CASE TimerExpires
    <2>1. CASE mark' = "raised"
        BY <2>1 DEF Owns
    <2>2. CASE UNCHANGED mark /\ \E t \in Threads : Begun(t)
        BY <1>2, <2>2 DEF TimerExpires, Cancels
    <2>3. task[expiry] \in {"none", "boot", "added"} /\ task[expiry] # "added"
        BY <1>2 DEF TimerExpires, Idle
    <2>4. \A k \in Calls, m \in Units : Begin(expiry, k, m) => \E t \in Threads : Begun(t)
        BY <1>0, <2>3, BeginSteps
    <2> QED BY <1>2, <2>1, <2>2, <2>4 DEF TimerExpires, Calls, Units
<1>3. CASE InitialStatus
    BY <1>3 DEF InitialStatus, Owns
<1>4. ASSUME NEW t \in Threads, Finish(t) PROVE UNCHANGED <<timer, mark>> \/ Owns
    <2>1. CASE pc[t] = "raised"
        <3>1. task[t] \in Calls
            BY <2>1 DEF TaskFits
        <3> QED BY <1>4, <2>1, <3>1 DEF Finish, AfterRaise, Calls, Owns
    <2>2. CASE pc[t] # "raised"
        BY <1>4, <2>2 DEF Finish, AfterSwitch, Owns
    <2> QED BY <2>1, <2>2
<1> QED BY <1>1, <1>2, <1>3, <1>4
        DEF Next, UnitChanges, LinkChanges, LeaseChanges, InitialMonitoring,
            OnAddNetworkRequested, WebRequest, Switching, vars, eventVars

(* A switch that fails, or that a web request asked for, is owned up to.      *)
LEMMA FinishOwns ==
    ASSUME TypeOK, TaskFits, NEW t \in Threads, Finish(t),
           pc[t] \in {"raised", "commanded"} \/ task[t] \in WebRequests
    PROVE  Owns
<1>0. timer \in Timers /\ task[t] \in Calls
    BY DEF TypeOK, Timers, TaskFits, Finish, Outcomes
<1>1. [timer EXCEPT !.armed = TRUE].armed
    BY <1>0 DEF Timers
<1>2. CASE pc[t] = "raised"
    BY <1>0, <1>1, <1>2 DEF Finish, AfterRaise, Calls, Owns, Excused, Armed, TimerRestart
<1>3. CASE pc[t] # "raised"
    BY <1>0, <1>3 DEF Finish, AfterSwitch, Calls, WebRequests, Owns, Excused, Armed
<1> QED BY <1>2, <1>3

(* Whoever is to deal with a unit does so, unless the unit stops: the timer   *)
(* is armed, or lapsed, or a switch under way will see to it.                 *)
Attended(u) == Armed \/ UnderWay(u)

LEMMA UnderWayStep ==
    ASSUME TypeOK, TaskFits, [Next]_vars, NEW u \in Units, UnderWay(u)
    PROVE  Attended(u)' \/ unit'[u] # "active"
<1>1. PICK t \in Threads : WillStop(t, u) \/ task[t] \in WebRequests
    BY DEF UnderWay
<1>2. CASE UNCHANGED <<pc, target, task>>
    BY <1>1, <1>2 DEF Attended, UnderWay, WillStop
<1>3. ASSUME NEW s \in Threads, s # t, OthersStay(s) PROVE UnderWay(u)'
    BY <1>1, <1>3 DEF UnderWay, WillStop, OthersStay
<1>4. ASSUME Begun(t) \/ Stirred(t) PROVE UnderWay(u)'
    BY <1>1, <1>4 DEF UnderWay, WillStop, Begun, Stirred, WebRequests, TaskFits, Calls
<1>5. ASSUME Switching(t), Requested(t) PROVE UnderWay(u)' \/ unit'[u] # "active"
    BY <1>1, <1>5, RequestSteps DEF UnderWay, Requested
<1>6. ASSUME Finish(t) PROVE Owns
    BY <1>1, <1>6, FinishOwns DEF WillStop, Finish, Outcomes
<1> QED BY <1>2, <1>3, <1>4, <1>5, <1>6, ThreadSteps
        DEF Attended, Owns, Begun, Stirred, Requested, Finished

LEMMA AttendedStep ==
    ASSUME TypeOK, TaskFits, [Next]_vars, NEW u \in Units, Attended(u)
    PROVE  \/ Attended(u)' \/ unit'[u] # "active"
           \/ State = "client" /\ OnClientConnected
           \/ State = "hotspot" /\ OnPeerConnected
<1>1. ASSUME NEW t \in Threads, Begun(t) PROVE UnderWay(u)'
    BY <1>1 DEF Begun, UnderWay, WillStop
<1>2. CASE Armed
    BY <1>1, <1>2, TimerMoves DEF Attended, Armed, Arms, Owns, Cancels
<1> QED BY <1>2, UnderWayStep DEF Attended

-------------------------------------------------------------------------------
(* What a step does to the queue: the environment puts an event at its end,   *)
(* or the loop takes the first.                                               *)
Puts(e) == queue' = Append(queue, e)

Takes(e) == queue # <<>> /\ Head(queue) = e /\ queue' = Tail(queue)

\* Which event a change of a unit, of the link or of the leases puts.
Signals ==
    \/ UnitChanges /\ UNCHANGED queue
    \/ UnitChanges /\ \/ Puts("clientActive") /\ unit["client"] = "activating"
                      \/ Puts("clientInactive") /\ unit["client"] = "deactivating"
                      \/ Puts("clientFailed") /\ unit'["client"] = "failed"
                      \/ Puts("hotspotActive") /\ unit["hotspot"] = "activating"
                      \/ Puts("hotspotFailed") /\ unit'["hotspot"] = "failed"
    \/ LinkChanges /\ \/ Puts("notConnected") /\ \/ unit["client"] = "deactivating"
                                                 \/ link' = "searching"
                      \/ link' = "half" /\ Puts(IF NetworkManager THEN "ipAcquired" ELSE "connected")
                      \/ link' = "up" /\ Puts(IF NetworkManager THEN "connected" ELSE "ipAcquired")
    \/ LeaseChanges /\ \/ Puts("peerConnected") /\ peer'
                       \/ Puts("peerDisconnected") /\ peer

LEMMA QueueMoves ==
    ASSUME TypeOK, [Next]_vars
    PROVE  Signals \/ (Loop /\ \E e \in Events : Takes(e)) \/ UNCHANGED queue
<1>1. CASE UnitChanges
    BY <1>1, UnitSteps DEF Signals, Puts, TypeOK, SwitchTypeOK, Units
<1>2. CASE LinkChanges
    BY <1>2 DEF LinkChanges, Signals, Puts, Signal, DeviceSignal
<1>3. CASE LeaseChanges
    BY <1>3 DEF LeaseChanges, Signal, Signals, Puts
<1>4. CASE Loop
    BY <1>4 DEF Loop, OnClientUnit, OnHotspotStarted, OnClientNotConnected,
        OnClientConnected, OnClientIpAcquired, OnPeerConnected, OnPeerDisconnected,
        OnUnitFailed, Take, Takes, Events
<1> QED BY <1>1, <1>2, <1>3, <1>4
        DEF Next, TimerExpires, InitialStatus, InitialMonitoring,
            OnAddNetworkRequested, WebRequest, Switching, Finish, vars, eventVars

\* Only the loop takes events, and the handler of each is the one that runs.
LEMMA TakenBy ==
    ASSUME TypeOK, [Next]_vars, NEW e, Takes(e), Loop
    PROVE  /\ e \in {"clientActive", "clientInactive"} => OnClientUnit(e)
           /\ e = "notConnected" => OnClientNotConnected
           /\ e = "connected" => OnClientConnected
           /\ e = "ipAcquired" => OnClientIpAcquired
           /\ e = "peerConnected" => OnPeerConnected
           /\ e = "peerDisconnected" => OnPeerDisconnected
           /\ e = "hotspotActive" => OnHotspotStarted
           /\ e = "clientFailed" => OnUnitFailed("client", e)
           /\ e = "hotspotFailed" => OnUnitFailed("hotspot", e)
BY DEF Takes, Loop, OnClientUnit, OnHotspotStarted, OnClientNotConnected, OnClientConnected,
       OnClientIpAcquired, OnPeerConnected, OnPeerDisconnected, OnUnitFailed, Take

(* What waits in the queue waits until it is taken, and what is to follow     *)
(* does, unless a new event comes for which nothing is yet to.                *)
LEMMA QueueKeeps ==
    ASSUME TypeOK, [Next]_vars, NEW S, NEW T
    PROVE  /\ Pending(queue, T) =>
                Pending(queue', T) \/ (Loop /\ \E e \in T : Takes(e))
           /\ Followed(queue, S, T) =>
                Followed(queue', S, T) \/ (Signals /\ \E e \in S : Puts(e))
           /\ \A e \in S : Followed(queue, S, T) /\ Takes(e) => Pending(queue', T)
           /\ \A e \in (Events \cap T) \ S : Puts(e) =>
                Pending(queue', T) /\ Followed(queue', S, T)
<1>0. queue \in Seq(Events)
    BY DEF TypeOK
<1>1. ASSUME NEW e \in Events, Puts(e)
      PROVE  /\ Pending(queue, T) \/ e \in T => Pending(queue', T)
             /\ e \notin S /\ (Followed(queue, S, T) \/ e \in T) => Followed(queue', S, T)
    BY <1>0, <1>1, Enqueued, Zenon DEF Puts
<1>2. ASSUME NEW e, Takes(e)
      PROVE  /\ Pending(queue, T) /\ e \notin T => Pending(queue', T)
             /\ Followed(queue, S, T) => Followed(queue', S, T)
             /\ Followed(queue, S, T) /\ e \in S => Pending(queue', T)
    BY <1>0, <1>2, Dequeued, Zenon DEF Takes
<1>3. Signals => UNCHANGED queue \/ \E e \in Events : Puts(e)
    BY DEF Signals, Events
<1> QED BY <1>1, <1>2, <1>3, QueueMoves

-------------------------------------------------------------------------------
(* A client that begins to look for its network signals it; the handler arms  *)
(* the timer, and only a connection, which a later signal follows, or a       *)
(* switch that is under way cancels it.                                       *)
LEMMA SearchStep == IInv /\ [Next]_vars => SearchArmed'
<1> SUFFICES ASSUME IInv, [Next]_vars, IsActive("client")', link' = "searching", ~deaf'
             PROVE  /\ Followed(queue', {"connected"}, {"notConnected"})
                    /\ Armed' \/ Pending(queue', {"notConnected"}) \/ UnderWay("client")'
    BY DEF SearchArmed
<1>0. TypeOK /\ TaskFits /\ LinkFits /\ ~deaf
    BY DeafStep DEF IInv
<1> DEFINE S == {"connected"}  T == {"notConnected"}
<1>1. CASE LinkChanges /\ Puts("notConnected")
    BY <1>0, <1>1, QueueKeeps DEF Events
<1>2. CASE ~(LinkChanges /\ Puts("notConnected"))
    <2>1. IsActive("client") /\ link = "searching"
        <3>1. CASE LinkChanges
            BY <1>0, <1>2, <3>1 DEF LinkChanges, DeviceSignal, Signal, Puts
        <3>2. CASE ~LinkChanges
            BY <1>0, <3>2, LinkMoves DEF LinkFits
        <3> QED BY <3>1, <3>2
    <2>2. Followed(queue, S, T) /\ (Attended("client") \/ Pending(queue, T))
        BY <1>0, <2>1 DEF IInv, SearchArmed, Attended
    <2>3. Followed(queue', S, T)
        BY <1>0, <2>2, QueueKeeps DEF Signals, Puts
    <2>4. ASSUME OnClientConnected PROVE Pending(queue', T)
        <3>1. Takes("connected")
            BY <2>4 DEF OnClientConnected, Take, Takes
        <3> QED BY <1>0, <2>2, <3>1, QueueKeeps
    <2>5. ASSUME Attended("client"), ~OnClientConnected PROVE Attended("client")'
        BY <1>0, <2>1, <2>5, AttendedStep DEF IsActive, State, Units
    <2>6. ASSUME Pending(queue, T), ~Pending(queue', T) PROVE Armed'
        <3>1. OnClientNotConnected
            BY <1>0, <2>6, QueueKeeps, TakenBy
        <3> QED BY <3>1 DEF OnClientNotConnected, StatusRaises, Armed
    <2> QED BY <2>2, <2>3, <2>4, <2>5, <2>6 DEF Attended
<1> QED BY <1>1, <1>2

(* The same of a hotspot that comes up or that its last peer leaves, and of   *)
(* one for which there is a network to go back to only now.                   *)
LEMMA VacancyStep == IInv /\ [Next]_vars => VacancyArmed'
<1> DEFINE S == {"peerConnected"}  T == {"peerDisconnected", "hotspotActive"}
<1> SUFFICES ASSUME IInv, [Next]_vars, IsActive("hotspot")', ~peer'
             PROVE  /\ Followed(queue', S, T)
                    /\ networks' => Attended("hotspot")' \/ Pending(queue', T)
    BY DEF VacancyArmed, Attended
<1>0. TypeOK /\ TaskFits /\ LinkFits
    BY DEF IInv
<1>1. CASE IsActive("hotspot") /\ ~peer
    <2>1. Followed(queue, S, T)
        BY <1>1 DEF IInv, VacancyArmed
    <2>2. Followed(queue', S, T)
        BY <1>0, <2>1, QueueKeeps DEF Signals, Puts
    <2>3. CASE networks
        <3>1. Attended("hotspot") \/ Pending(queue, T)
            BY <1>1, <2>3 DEF IInv, VacancyArmed, Attended
        <3>2. ASSUME OnPeerConnected PROVE Pending(queue', T)
            <4>1. Takes("peerConnected")
                BY <3>2 DEF OnPeerConnected, Take, Takes
            <4> QED BY <1>0, <2>1, <4>1, QueueKeeps
        <3>3. ASSUME Attended("hotspot"), ~OnPeerConnected PROVE Attended("hotspot")'
            BY <1>0, <1>1, <3>3, AttendedStep DEF IsActive, State, Units
        <3>4. ASSUME OnHotspotStarted PROVE Armed'
            BY <2>3, <3>4 DEF OnHotspotStarted, StatusRaises, Armed
        <3>5. ASSUME OnPeerDisconnected PROVE Attended("hotspot")'
            <4>1. CASE Begin(loop, "peerLeft", "client")
                BY <1>0, <3>5, <4>1, BeginSteps, ThreadsAssumption
                    DEF OnPeerDisconnected, Take, Idle, Calls, Units, Begun, Attended,
                        UnderWay, WillStop
            <4>2. CASE mark' \in {"lapsed", "raised"}
                BY <4>2 DEF Attended, Armed
            <4> QED BY <3>5, <4>1, <4>2 DEF OnPeerDisconnected, StatusRaises
        <3>6. ASSUME Pending(queue, T), ~Pending(queue', T) PROVE Attended("hotspot")'
            <4>1. OnHotspotStarted \/ OnPeerDisconnected
                BY <1>0, <3>6, QueueKeeps, TakenBy
            <4> QED BY <3>4, <3>5, <4>1 DEF Attended
        <3> QED BY <2>2, <3>1, <3>2, <3>3, <3>6
    <2>4. ASSUME ~networks, networks' PROVE UnderWay("hotspot")'
        <3>1. task'[front] = "added" /\ front \in Threads
            BY <1>0, <2>4, NetworksKept, ThreadsAssumption
        <3> QED BY <3>1 DEF UnderWay, WebRequests
    <2> QED BY <2>2, <2>3, <2>4 DEF Attended
<1>2. CASE ~(IsActive("hotspot") /\ ~peer)
    <2>1. Puts("hotspotActive") \/ Puts("peerDisconnected")
        <3>1. CASE ~IsActive("hotspot")
            BY <1>0, <3>1, UnitRises DEF IsActive, Units, Started, Puts
        <3>2. CASE IsActive("hotspot") /\ peer
            <4>1. LeaseChanges
                BY <1>0, <3>2, PeerMoves DEF IsActive
            <4> QED BY <3>2, <4>1 DEF LeaseChanges, Signal, Puts
        <3> QED BY <1>2, <3>1, <3>2
    <2> QED BY <1>0, <2>1, QueueKeeps DEF Events
<1> QED BY <1>1, <1>2

(* The last unit to go down is stopped by a switch that starts the other or    *)
(* itself again, or fails with a signal whose handler restarts it or lapses.  *)
LEMMA UnitFalls ==
    ASSUME TypeOK, [Next]_vars, \E u \in Units : On(u), \A u \in Units : ~On(u)'
    PROVE  \/ Puts("clientFailed") \/ Puts("hotspotFailed")
           \/ \E t \in Threads : WillStart(t)'
<1>1. CASE UnitChanges
    BY <1>1, UnitSteps DEF TypeOK, SwitchTypeOK, Units, On, Puts
<1>2. ASSUME NEW u \in Units, NEW e, OnUnitFailed(u, e) PROVE FALSE
    <2>1. CASE UNCHANGED unit
        BY <2>1 DEF On
    <2>2. CASE SetUnit(u, AfterRestart(unit[u]))
        BY <2>2 DEF SetUnit, AfterRestart, On, TypeOK, SwitchTypeOK
    <2> QED BY <1>2, <2>1, <2>2 DEF OnUnitFailed, switchVars
<1>3. CASE UNCHANGED unit
    BY <1>3 DEF On
<1>4. ASSUME NEW t \in Threads, Switching(t) PROVE WillStart(t)'
    BY <1>4, RequestSteps
<1> QED BY <1>1, <1>2, <1>3, <1>4
        DEF Next, LinkChanges, LeaseChanges, Loop, OnClientUnit, OnHotspotStarted,
            OnClientNotConnected, OnClientConnected, OnClientIpAcquired, OnPeerConnected,
            OnPeerDisconnected, Quietly, TimerExpires, InitialStatus, InitialMonitoring,
            OnAddNetworkRequested, WebRequest, Begin, Call, Finish, Return, vars,
            switchVars, Units

LEMMA OffStep == IInv /\ [Next]_vars => OffArmed'
<1> DEFINE T == {"clientFailed", "hotspotFailed"}
<1> SUFFICES ASSUME IInv, [Next]_vars, \A u \in Units : ~On(u)'
             PROVE Armed' \/ Pending(queue', T) \/ \E t \in Threads : WillStart(t)'
    BY DEF OffArmed
<1>0. TypeOK /\ TaskFits
    BY DEF IInv
<1>1. CASE \E u \in Units : On(u)
    <2>1. Puts("clientFailed") \/ Puts("hotspotFailed") => Pending(queue', T)
        BY <1>0, QueueKeeps DEF Events
    <2> QED BY <1>0, <1>1, <2>1, UnitFalls
<1>2. CASE \A u \in Units : ~On(u)
    <2>1. Armed \/ Pending(queue, T) \/ \E t \in Threads : WillStart(t)
        BY <1>2 DEF IInv, OffArmed
    <2>2. ASSUME Armed PROVE Armed' \/ \E t \in Threads : WillStart(t)'
        <3>1. \A t \in Threads : Begun(t) => WillStart(t)'
            BY DEF Begun, WillStart, Requests
        <3>2. State # "client" /\ State # "hotspot"
            BY <1>2 DEF State, IsActive, On, Units
        <3> QED BY <1>0, <2>2, <3>1, <3>2, TimerMoves DEF Armed, Arms, Owns, Cancels
    <2>3. ASSUME Pending(queue, T), ~Pending(queue', T) PROVE Armed'
        <3>1. \E u \in Units, e \in T : OnUnitFailed(u, e)
            BY <1>0, <2>3, QueueKeeps, TakenBy DEF Units
        <3>2. PICK u \in Units, e \in T : OnUnitFailed(u, e)
            BY <3>1
        <3>3. ~SetUnit(u, AfterRestart(unit[u]))
            BY <1>0 DEF SetUnit, AfterRestart, On, TypeOK, SwitchTypeOK
        <3> QED BY <3>2, <3>3 DEF OnUnitFailed, Armed
    <2>4. ASSUME NEW t \in Threads, WillStart(t)
          PROVE  Armed' \/ \E s \in Threads : WillStart(s)'
        <3>1. CASE UNCHANGED <<pc, target, task>>
            BY <2>4, <3>1 DEF WillStart
        <3>2. ASSUME NEW s \in Threads, s # t, OthersStay(s) PROVE WillStart(t)'
            BY <2>4, <3>2 DEF WillStart, OthersStay
        <3>3. ASSUME Begun(t) \/ Stirred(t) PROVE WillStart(t)'
            BY <2>4, <3>3 DEF WillStart, Begun, Stirred, Requests
        <3>4. ASSUME Switching(t) PROVE WillStart(t)'
            BY <1>0, <2>4, <3>4, RequestSteps
        <3>5. ASSUME Finish(t) PROVE Owns
            BY <1>0, <2>4, <3>5, FinishOwns DEF WillStart, Finish, Outcomes, Requests
        <3> QED BY <1>0, <3>1, <3>2, <3>3, <3>4, <3>5, ThreadSteps
                DEF Owns, Begun, Stirred, Requested, Finished
    <2> QED BY <2>1, <2>2, <2>3, <2>4
<1> QED BY <1>1, <1>2

-------------------------------------------------------------------------------
(* A client that gets its connection, or its address, signals it; as long as  *)
(* it has a link no event of a client that starts, stops or searches is sent. *)
LEMMA LinkSignals ==
    ASSUME TypeOK, LinkFits, [Next]_vars, ~deaf
    PROVE  /\ Linked' /\ ~Linked => Puts("connected")
           /\ Addressed' /\ ~Addressed => Puts("ipAcquired")
<1>1. CASE LinkChanges
    <2>1. unit' = unit
        BY <1>1 DEF LinkChanges, switchVars
    <2> QED BY <1>1, <2>1 DEF LinkChanges, Linked, Addressed, DeviceSignal, Signal, Puts,
                                IsActive
<1>2. CASE ~LinkChanges
    <2>1. link' = IF unit'["client"] = "active" THEN link ELSE "down"
        BY <1>2, LinkMoves
    <2> QED BY <2>1 DEF Linked, Addressed, LinkFits, IsActive
<1> QED BY <1>1, <1>2

LEMMA LinkQuiet ==
    ASSUME TypeOK, LinkFits, [Next]_vars, NEW T, Followed(queue, LinkEvents, T),
           IsActive("client"), link' \in {"half", "up"}
    PROVE  Followed(queue', LinkEvents, T)
<1>1. ~(Signals /\ \E e \in LinkEvents : Puts(e))
    BY DEF Signals, Puts, LinkEvents, IsActive, TypeOK
<1> QED BY <1>1, QueueKeeps

(* Whatever arms the timer for a connected client is followed by what cancels *)
(* it: what is armed then is either owned up to or cancelled in its turn.     *)
LEMMA LinkedStep == IInv /\ [Next]_vars => LinkedUnarmed'
<1> DEFINE T == {"connected"}
           Unarmed == ~timer.armed \/ Excused
<1> SUFFICES ASSUME IInv, [Next]_vars, Linked', ~deaf'
             PROVE  Followed(queue', LinkEvents, T) /\ (Unarmed' \/ Pending(queue', T))
    BY DEF LinkedUnarmed
<1>0. TypeOK /\ TaskFits /\ LinkFits /\ ~deaf
    BY DeafStep DEF IInv, Linked
<1>1. CASE ~Linked
    <2>1. Puts("connected")
        BY <1>0, <1>1, LinkSignals
    <2> QED BY <1>0, <2>1, QueueKeeps DEF Events, LinkEvents
<1>2. CASE Linked
    <2>1. Followed(queue, LinkEvents, T) /\ (Unarmed \/ Pending(queue, T))
        BY <1>0, <1>2 DEF IInv, LinkedUnarmed
    <2>2. Followed(queue', LinkEvents, T)
        BY <1>0, <1>2, <2>1, LinkQuiet DEF Linked
    <2>3. ASSUME NEW e \in LinkEvents, Takes(e) PROVE Pending(queue', T)
        BY <1>0, <2>1, <2>3, QueueKeeps
    <2>4. ASSUME Unarmed, ~Unarmed' PROVE \E e \in LinkEvents : Takes(e)
        <3>1. Arms /\ State # "hotspot"
            BY <1>0, <1>2, <2>4, TimerMoves DEF Owns, Cancels, Linked, State, Excused
        <3> QED BY <3>1 DEF Arms, OnClientNotConnected, OnClientUnit, Take, Takes, LinkEvents
    <2>5. ASSUME Pending(queue, T), ~Pending(queue', T) PROVE Unarmed'
        <3>1. OnClientConnected
            BY <1>0, <2>5, QueueKeeps, TakenBy
        <3>2. timer \in Timers
            BY <1>0 DEF TypeOK, Timers
        <3> QED BY <3>1, <3>2 DEF OnClientConnected, TimerCancel, StatusRaises, Timers, Excused
    <2> QED BY <2>1, <2>2, <2>3, <2>4, <2>5
<1> QED BY <1>1, <1>2

(* The same of a hotspot with a peer; here a signal of the client that comes  *)
(* late is marked as stale.                                                   *)
LEMMA PeerStep == IInv /\ [Next]_vars => PeerUnarmed'
<1> DEFINE S == {"hotspotActive"}  T == {"peerConnected"}
           Unarmed == ~timer.armed \/ Excused \/ mark = "stale"
<1> SUFFICES ASSUME IInv, [Next]_vars, IsActive("hotspot")', peer'
             PROVE  Followed(queue', S, T) /\ (Unarmed' \/ Pending(queue', T))
    BY DEF PeerUnarmed
<1>0. TypeOK /\ TaskFits /\ LinkFits
    BY DEF IInv
<1>1. CASE ~peer
    <2>1. LeaseChanges
        BY <1>0, <1>1, PeerMoves
    <2>2. Puts("peerConnected")
        BY <1>1, <2>1 DEF LeaseChanges, Signal, Puts
    <2> QED BY <1>0, <2>2, QueueKeeps DEF Events
<1>2. CASE peer
    <2>0. IsActive("hotspot")
        BY <1>0, <1>2 DEF LinkFits
    <2>1. Followed(queue, S, T) /\ (Unarmed \/ Pending(queue, T))
        BY <1>2, <2>0 DEF IInv, PeerUnarmed
    <2>2. Followed(queue', S, T)
        <3>1. ~(Signals /\ Puts("hotspotActive"))
            BY <1>0, <2>0 DEF Signals, Puts, IsActive, TypeOK
        <3> QED BY <1>0, <2>1, <3>1, QueueKeeps
    <2>3. Takes("hotspotActive") => Pending(queue', T)
        BY <1>0, <2>1, QueueKeeps
    <2>4. ASSUME Unarmed, ~Unarmed' PROVE Takes("hotspotActive")
        <3>1. Arms
            BY <1>0, <2>4, TimerMoves DEF Owns, Cancels, Excused
        <3>2. ~OnClientNotConnected
            BY <2>0, <2>4 DEF OnClientNotConnected, StatusRaises, Excused, On, IsActive
        <3> QED BY <2>0, <3>1, <3>2 DEF Arms, State, OnHotspotStarted, Take, Takes
    <2>5. ASSUME Pending(queue, T), ~Pending(queue', T) PROVE Unarmed'
        <3>1. OnPeerConnected
            BY <1>0, <2>5, QueueKeeps, TakenBy
        <3>2. timer \in Timers
            BY <1>0 DEF TypeOK, Timers
        <3> QED BY <3>1, <3>2 DEF OnPeerConnected, TimerCancel, StatusRaises, Timers, Excused
    <2> QED BY <2>1, <2>2, <2>3, <2>4, <2>5
<1> QED BY <1>1, <1>2

(* Main is still to look at the connection, and what it then does: it watches, *)
(* it restarts the client, or the exception it meets is owned up to.          *)
LEMMA WillWatchStep ==
    ASSUME TypeOK, TaskFits, [Next]_vars, networks, WillWatch
    PROVE  \/ WillWatch' \/ monitoring' \/ Excused'
           \/ unit'["client"] # "active"
<1>0. front \in Threads /\ loop # front /\ expiry # front /\ loop \in Threads
      /\ expiry \in Threads
    BY ThreadsAssumption
<1>1. CASE task[front] \in {"boot", "watch"}
    <2>1. CASE InitialStatus
        <3>1. CASE Begin(front, "initial", "client")
            <4>1. task[front] = "boot"
                BY <2>1 DEF InitialStatus
            <4>2. pc'[front] = "checkOther" /\ task'[front] = "initial"
                BY <1>0, <3>1, <4>1, BeginSteps DEF Calls, Units, Begun
            <4> QED BY <4>2 DEF WillWatch, WillStop
        <3>2. CASE SetTask(front, "watch")
            BY <1>0, <3>2 DEF WillWatch, SetTask, TypeOK
        <3> QED BY <2>1, <3>1, <3>2 DEF InitialStatus, Excused
    <2>2. CASE InitialMonitoring
        BY <2>2 DEF InitialMonitoring
    <2>3. ASSUME NEW t \in Threads, Finish(t) PROVE task'[front] = task[front]
        <3>1. task[t] \in Calls
            BY <2>3 DEF TaskFits, Finish, Outcomes
        <3> QED BY <1>0, <1>1, <2>3, <3>1, FinishSteps DEF Finished, OthersStay, Calls
    <2>4. CASE ~InitialStatus /\ ~InitialMonitoring
        <3>1. task'[front] = task[front]
            BY <1>0, <1>1, <2>3, <2>4
                DEF Next, UnitChanges, LinkChanges, LeaseChanges, Loop, OnClientUnit,
                    OnHotspotStarted, OnClientNotConnected, OnClientConnected,
                    OnClientIpAcquired, OnPeerConnected, OnPeerDisconnected,
                    OnUnitFailed, Quietly, TimerExpires, OnAddNetworkRequested,
                    WebRequest, Idle, Begin, SetTask, Switching, vars, eventVars, TypeOK
        <3> QED BY <1>1, <3>1 DEF WillWatch
    <2> QED BY <2>1, <2>2, <2>4
<1>2. CASE task[front] = "initial" /\ WillStop(front, "client")
    <2>1. CASE UNCHANGED <<pc, target, task>>
        BY <1>2, <2>1 DEF WillWatch, WillStop
    <2>2. ASSUME NEW s \in Threads, s # front, OthersStay(s) PROVE WillWatch'
        BY <1>0, <1>2, <2>2 DEF WillWatch, WillStop, OthersStay
    <2>3. ASSUME Switching(front), Requested(front)
          PROVE  WillWatch' \/ unit'["client"] # "active"
        BY <1>0, <1>2, <2>3, RequestSteps DEF WillWatch, Requested, Units
    <2>4. ASSUME Finish(front) PROVE Owns
        BY <1>0, <1>2, <2>4, FinishOwns DEF WillStop, Finish, Outcomes
    <2> QED BY <1>2, <2>1, <2>2, <2>3, <2>4, ThreadSteps
            DEF Owns, Begun, Stirred, Requested, Finished
<1> QED BY <1>1, <1>2 DEF WillWatch

(* Likewise for the monitor: whatever stops it is followed by the address, or  *)
(* owned up to.                                                               *)
LEMMA AddressedStep == IInv /\ [Next]_vars => AddressedWatched'
<1> DEFINE T == {"ipAcquired"}
<1> SUFFICES ASSUME IInv, [Next]_vars, Addressed', ~deaf'
             PROVE  /\ Followed(queue', LinkEvents, T)
                    /\ monitoring' \/ Excused' \/ Pending(queue', T) \/ WillWatch'
    BY DEF AddressedWatched
<1>0. TypeOK /\ TaskFits /\ LinkFits /\ ~deaf
    BY DeafStep DEF IInv, Addressed
<1>1. CASE ~Addressed
    <2>1. Puts("ipAcquired")
        BY <1>0, <1>1, LinkSignals
    <2> QED BY <1>0, <2>1, QueueKeeps DEF Events, LinkEvents
<1>2. CASE Addressed
    <2>0. networks /\ State # "hotspot" /\ unit'["client"] = "active"
        BY <1>0, <1>2 DEF Addressed, LinkFits, State, IsActive
    <2>1. /\ Followed(queue, LinkEvents, T)
          /\ monitoring \/ Excused \/ Pending(queue, T) \/ WillWatch
        BY <1>0, <1>2 DEF IInv, AddressedWatched
    <2>2. Followed(queue', LinkEvents, T)
        BY <1>0, <1>2, <2>1, LinkQuiet DEF Addressed
    <2>3. ASSUME NEW e \in LinkEvents, Takes(e) PROVE Pending(queue', T)
        BY <1>0, <2>1, <2>3, QueueKeeps
    <2>4. ASSUME monitoring PROVE monitoring' \/ Excused' \/ \E e \in LinkEvents : Takes(e)
        <3>1. CASE OnHotspotStarted
            BY <2>0, <3>1 DEF OnHotspotStarted, StatusRaises, Excused
        <3>2. CASE OnClientNotConnected
            BY <3>2 DEF OnClientNotConnected, Take, Takes, LinkEvents
        <3> QED BY <2>4, <3>1, <3>2
                DEF Next, UnitChanges, LinkChanges, LeaseChanges, Loop, OnClientUnit,
                    OnClientConnected, OnClientIpAcquired, OnPeerConnected,
                    OnPeerDisconnected, OnUnitFailed, TimerExpires, InitialStatus,
                    InitialMonitoring, OnAddNetworkRequested, WebRequest, Switching,
                    Finish, vars, eventVars
    <2>5. ASSUME Excused, ~Excused' PROVE \E e \in LinkEvents : Takes(e)
        <3>1. Arms
            BY <1>0, <2>5, TimerMoves DEF Owns, Cancels, Excused
        <3> QED BY <2>0, <3>1
                DEF Arms, OnClientNotConnected, OnClientUnit, Take, Takes, LinkEvents
    <2>6. ASSUME Pending(queue, T), ~Pending(queue', T) PROVE monitoring' \/ Excused'
        <3>1. OnClientIpAcquired
            BY <1>0, <2>6, QueueKeeps, TakenBy
        <3> QED BY <3>1 DEF OnClientIpAcquired, StatusRaises, Excused
    <2>7. WillWatch => WillWatch' \/ monitoring' \/ Excused'
        BY <1>0, <2>0, WillWatchStep
    <2> QED BY <2>1, <2>2, <2>3, <2>4, <2>5, <2>6, <2>7
<1> QED BY <1>1, <1>2

-------------------------------------------------------------------------------
LEMMA InitInvariant == Init => IInv
<1> SUFFICES ASSUME Init PROVE IInv
    OBVIOUS
<1> USE DEF Init, SwitchInit
<1>1. TypeOK
    <2>1. networks \in BOOLEAN
        BY DEF Init
    <2>2. SwitchTypeOK
        BY DEF SwitchTypeOK, Units, UnitStates, Places
    <2>3. queue \in Seq(Events) /\ Len(queue) <= MaxEvents
        BY ThreadsAssumption
    <2> QED BY <2>1, <2>2, <2>3 DEF TypeOK, Tasks, Links, IsActive
<1>2. TaskFits /\ LinkFits
    BY DEF TaskFits, LinkFits, Calls, Requests, Outcomes, IsActive
<1>3. \A S, T : Followed(queue, S, T)
    BY DEF Followed
<1>4. SearchArmed /\ VacancyArmed /\ OffArmed
    BY <1>3 DEF SearchArmed, VacancyArmed, OffArmed, On, IsActive, Units
<1>5. LinkedUnarmed /\ PeerUnarmed /\ AddressedWatched
    BY <1>3, ThreadsAssumption DEF LinkedUnarmed, PeerUnarmed, AddressedWatched, WillWatch
<1> QED BY <1>1, <1>2, <1>4, <1>5 DEF IInv

(* The invariant holds in every behaviour of the handlers, the threads and the  *)
(* units, whatever the queue's length and the number of switches under way.   *)
THEOREM Invariance == Spec => []IInv
<1>1. Init => IInv
    BY InitInvariant
<1>2. IInv /\ [Next]_vars => IInv'
    BY TypeStep, TaskStep, LinkStep, SearchStep, VacancyStep, OffStep, LinkedStep,
       PeerStep, AddressedStep DEF IInv
<1> QED BY <1>1, <1>2, PTL DEF Spec

(* Every variable keeps its type, and the queue its bound: what the threads,   *)
(* the loop and the environment do to wifiEventHandler.py's state at once.    *)
THEOREM EventsTypeCorrect == Spec => []TypeOK
<1>1. IInv => TypeOK
    BY DEF IInv
<1> QED BY <1>1, Invariance, PTL

(* The fallback of wifiEventHandler.py is always armed: when nothing is left   *)
(* to do and no one is served, the time-out that tries the other mode runs,   *)
(* or the handler or switch that dealt with it last is known to have lapsed   *)
(* or raised, or NetworkManager's present run is not listened to.             *)
THEOREM FallbackAlwaysArmed == Spec => []FallbackArmed
<1>1. IInv => FallbackArmed
    <2> SUFFICES ASSUME IInv, Settled, ~Served, ~(deaf /\ IsActive("client")) PROVE Armed
        BY DEF FallbackArmed, Armed
    <2>0. TypeOK /\ TaskFits
        BY DEF IInv
    <2>1. \A T : ~Pending(queue, T)
        BY DEF Settled, Pending
    <2>2. \A t \in Threads : task[t] = "none" /\ pc[t] = "idle"
        BY <2>0 DEF Settled, Idle, TaskFits, Calls
    <2>3. (\A u \in Units : ~UnderWay(u)) /\ \A t \in Threads : ~WillStart(t)
        BY <2>2 DEF UnderWay, WillStop, WillStart, WebRequests, Requests
    <2>4. CASE IsActive("client")
        <3>1. link = "searching"
            BY <2>0, <2>4 DEF Served, TypeOK, Links
        <3> QED BY <2>1, <2>3, <2>4, <3>1 DEF IInv, SearchArmed, Units
    <2>5. CASE IsActive("hotspot")
        BY <2>1, <2>3, <2>5 DEF IInv, VacancyArmed, Served, Units
    <2>6. CASE \A u \in Units : ~IsActive(u)
        <3>1. \A u \in Units : ~On(u)
            BY <2>6 DEF Settled, On, IsActive
        <3> QED BY <2>1, <2>3, <3>1 DEF IInv, OffArmed
    <2> QED BY <2>4, <2>5, <2>6 DEF Units
<1> QED BY <1>1, Invariance, PTL

(* Whoever is served is left alone by the time-out: with the events of the     *)
(* connection or of the peer handled, an armed timer is one that a failure    *)
(* left, or in hotspot mode one that a late event of the client armed, or in  *)
(* client mode one whose cancelling event was not listened to.                *)
THEOREM ServedAlwaysLeftAlone == Spec => []ServedLeftAlone
<1>1. IInv => ServedLeftAlone
    <2> SUFFICES ASSUME IInv, Settled, timer.armed,
                        \/ State = "client" /\ link = "up"
                        \/ State = "hotspot" /\ peer
                 PROVE  \/ Excused
                        \/ State = "hotspot" /\ mark = "stale"
                        \/ State = "client" /\ deaf
        BY DEF ServedLeftAlone, Excused
    <2>1. \A T : ~Pending(queue, T)
        BY DEF Settled, Pending
    <2>2. CASE State = "client" /\ link = "up"
        BY <2>1, <2>2 DEF IInv, LinkedUnarmed, Linked, State
    <2>3. CASE State = "hotspot" /\ peer
        BY <2>1, <2>3 DEF IInv, PeerUnarmed, State
    <2> QED BY <2>2, <2>3
<1> QED BY <1>1, Invariance, PTL

(* A client with an address is watched: whichever of the initial status and    *)
(* the event handlers started or stopped the connection monitor last, it runs *)
(* once all is settled, or a failure is known to have come in between, or the *)
(* client is not listened to.                                                 *)
THEOREM ConnectedAlwaysWatched == Spec => []ConnectedWatched
<1>1. IInv => ConnectedWatched
    <2> SUFFICES ASSUME IInv, Settled, State = "client", link = "up", ~deaf
                 PROVE  monitoring \/ Excused
        BY DEF ConnectedWatched, Excused
    <2>1. ~Pending(queue, {"ipAcquired"})
        BY DEF Settled, Pending
    <2>2. front \in Threads /\ task[front] = "none"
        BY ThreadsAssumption DEF Settled, Idle
    <2> QED BY <2>1, <2>2 DEF IInv, AddressedWatched, Addressed, WillWatch, State
<1> QED BY <1>1, Invariance, PTL

===============================================================================
