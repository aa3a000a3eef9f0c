-------------------------- MODULE ClientBackendProofs --------------------------
(* Proofs about ClientBackend, for any number of retries, runs and deaths of   *)
(* NetworkManager, and for every set of requesters and of networks, and any     *)
(* number of the bounded steps from outside.                                    *)
EXTENDS ClientBackend, TLAPS

(* The inductive invariant, NetworkManager's part.  A present run that is     *)
(* doomed ends before anything can settle: it is down, or is to be stopped.   *)
Doomed == unit = "down" \/ job \in {"stop", "restart"}

UnitSound ==
    /\ unit = "down" => live = 0
    /\ job \in {"stop", "restart"} => unit = "up"
    /\ job = "start" => unit = "down"

TriesLeft == \A t \in Callers : call[t] = "look" => tries[t] <= MaxRetries

(* The loop in its start or restart does not know the device of a run that    *)
(* lasts, as its cache is the one it had when the unit was stopped.           *)
LoopBehind == call["loop"] \in {"start", "look"} => cache # run \/ Doomed

LoopDeaf == handlers["loop"] > 0 => Doomed

(* What the caller started, and did not look up too early, has its handler;   *)
(* nobody but the caller then starts a run that has the caller for its origin. *)
CallerHears ==
    via = "caller" /\ outcome["caller"] = "none" /\ call["caller"] # "look" =>
        Connected > 0 /\ job \notin {"start", "restart"}

(* The caller connects a run that lasts once, or is about to.                 *)
CallerOnce == ~Doomed /\ ~repeated =>
    /\ handlers["caller"] <= 1
    /\ call["caller"] = "look" => handlers["caller"] = 0

NmInv ==
    /\ NmTypeOK /\ UnitSound /\ TriesLeft /\ LoopBehind /\ LoopDeaf /\ CallerHears
    /\ CallerOnce

(* wpa_supplicant's part.                                                     *)
NamesNetwork == \A t \in Requesters : request[t] \in {"test", "store"} => network[t] \in Networks

DownGone == daemon = "down" => iface = Gone

AckedInFile == acked \subseteq file

(* Who is to store a network in the file, and has met no other interface nor  *)
(* none, has added it in the interface that there is.                         *)
AddedBeforeStored == \A t \in Requesters :
    request[t] = "store" /\ ~behind[t] /\ iface # Gone => network[t] \in known

WpaInv ==
    /\ WpaTypeOK /\ NamesNetwork /\ DownGone /\ AckedInFile /\ AddedBeforeStored
    /\ DaemonKnows /\ ReceiverHears

IInv == backend \in {"NetworkManager", "wpa_supplicant"} /\ NmInv /\ WpaInv

-------------------------------------------------------------------------------
(* NetworkManager and its device. *)

\* The bounds are numbers.
LEMMA NmBounds == MaxRetries \in Nat /\ MaxDeaths \in Nat /\ MaxRuns \in Nat /\ MaxRuns # 0
<1>1. MaxRetries \in Nat
    BY NmBoundsAssumption, Zenon
<1>2. MaxDeaths \in Nat
    BY NmBoundsAssumption, Zenon
<1> QED BY <1>1, <1>2, NmBoundsAssumption

\* What the job becomes when a start is asked.
LEMMA AskedStart ==
    ASSUME NmTypeOK, UnitSound
    PROVE  /\ AfterAskStart \in {"none", "start", "restart"}
           /\ unit = "down" => AfterAskStart = "start"
           /\ unit = "up" => AfterAskStart = IF job \in {"stop", "restart"} THEN "restart" ELSE job
BY DEF NmTypeOK, UnitSound, AfterAskStart

(* Every step keeps NetworkManager's variables in their types.                *)
LEMMA NmTypeStep == NmInv /\ NmNext => NmTypeOK' /\ UnitSound' /\ TriesLeft'
<1> SUFFICES ASSUME NmInv, NmNext PROVE NmTypeOK' /\ UnitSound' /\ TriesLeft'
    OBVIOUS
<1> DEFINE Goal == NmTypeOK /\ UnitSound /\ TriesLeft
<1> USE NmBounds
        DEF NmInv, NmTypeOK, UnitSound, TriesLeft, nmUnit, nmCall, Runs, Callers, NoHandler, Enter
<1>0. (failedSignal' \in BOOLEAN) /\ (repeated' \in BOOLEAN)
    BY Zenon DEF NmNext, NmJobStep, DeviceAppears, NmDies, Refresh, NmFails, ClientMode,
                 HotspotMode, CallStep, RestartStops, Start, Look
<1>1. CASE NmJobStep
    <2>1. run' \in 1..MaxRuns /\ live' \in {0, run'} /\ cache' \in 0..run'
        BY <1>1 DEF NmJobStep
    <2> QED BY <1>0, <1>1, <2>1 DEF NmJobStep
<1>2. CASE DeviceAppears \/ Refresh
    BY <1>0, <1>2 DEF DeviceAppears, Refresh
<1>3. CASE NmDies
    <2>1. deaths' \in 0..MaxDeaths
        BY <1>3 DEF NmDies
    <2> QED BY <1>0, <1>3, <2>1 DEF NmDies
<1>4. CASE NmFails
    BY <1>0, <1>4 DEF NmFails
<1>5. CASE HotspotMode
    BY <1>0, <1>5 DEF HotspotMode, AfterAskStop
<1>6. ASSUME NEW t \in Callers, ClientMode(t) PROVE Goal'
    BY <1>0, <1>6 DEF ClientMode
<1>7. ASSUME NEW t \in Callers, RestartStops(t) PROVE Goal'
    BY <1>0, <1>7 DEF RestartStops, AfterAskStop
<1>8. ASSUME NEW t \in Callers, Start(t) PROVE Goal'
    <2>1. 0 \in 0..MaxRetries + 1
        OBVIOUS
    <2>2. /\ job' \in {"none", "start", "restart"}
          /\ job' = "start" => unit = "down"
          /\ job' = "restart" => unit = "up"
        BY <1>8, AskedStart DEF Start
    <2>3. via' \in Callers \cup {"outside"}
        BY <1>8 DEF Start
    <2> QED BY <1>0, <1>8, <2>1, <2>2, <2>3 DEF Start
<1>9. ASSUME NEW t \in Callers, Look(t) PROVE Goal'
    <2>1. CASE Known(t)
        <3>1. handlers' \in [Callers -> 0..2]
            BY <2>1 DEF Known, Connect
        <3> QED BY <1>0, <1>9, <2>1, <3>1 DEF Look, Known
    <2>2. CASE Unknown(t)
        <3>1. tries[t] + 1 \in 0..MaxRetries + 1
            BY <1>9 DEF Look
        <3> QED BY <1>0, <1>9, <2>2, <3>1 DEF Look, Unknown
    <2> QED BY <1>9, <2>1, <2>2 DEF Look
<1> QED BY <1>1, <1>2, <1>3, <1>4, <1>5, <1>6, <1>7, <1>8, <1>9 DEF NmNext, CallStep

(* A run that is doomed stays so until there is another.                      *)
LEMMA DoomedUntilNext == NmInv /\ NmNext /\ Doomed /\ UNCHANGED run => Doomed'
<1> SUFFICES ASSUME NmInv, NmNext, Doomed, UNCHANGED run PROVE Doomed'
    OBVIOUS
<1> USE NmBounds DEF NmInv, NmTypeOK, UnitSound, Doomed, nmUnit, Runs
<1>1. CASE NmJobStep
    BY <1>1 DEF NmJobStep
<1>2. CASE DeviceAppears \/ NmDies \/ Refresh \/ NmFails
    BY <1>2 DEF DeviceAppears, NmDies, Refresh, NmFails
<1>3. CASE HotspotMode
    BY <1>3 DEF HotspotMode, AfterAskStop
<1>4. ASSUME NEW t \in Callers, ClientMode(t) \/ RestartStops(t) \/ Look(t) PROVE Doomed'
    BY <1>4 DEF ClientMode, RestartStops, Look, AfterAskStop
<1>5. ASSUME NEW t \in Callers, Start(t) PROVE Doomed'
    BY <1>5, AskedStart DEF Start
<1> QED BY <1>1, <1>2, <1>3, <1>4, <1>5 DEF NmNext, CallStep

\* A new run: what was connected is of no use, and no client knows it yet.
LEMMA NextRun ==
    ASSUME NmInv, NmNext, ~UNCHANGED run
    PROVE  /\ run' = run + 1 /\ job = "start"
           /\ handlers' = NoHandler /\ UNCHANGED <<cache, call, via, outcome>>
<1> USE DEF nmUnit
<1>1. CASE NmJobStep
    BY <1>1 DEF NmJobStep
<1>2. CASE DeviceAppears \/ NmDies \/ Refresh \/ NmFails \/ HotspotMode
    BY <1>2 DEF DeviceAppears, NmDies, Refresh, NmFails, HotspotMode
<1>3. CASE \E t \in Callers : ClientMode(t) \/ CallStep(t)
    BY <1>3 DEF ClientMode, CallStep, RestartStops, Start, Look
<1> QED BY <1>1, <1>2, <1>3 DEF NmNext

(* The loop enters start with the unit down or stopped, and cannot learn of a device  *)
(* before it is through.                                                      *)
LEMMA LoopBehindStep == NmInv /\ NmNext => LoopBehind'
<1> SUFFICES ASSUME NmInv, NmNext, call'["loop"] \in {"start", "look"}
             PROVE  cache' # run' \/ Doomed'
    BY DEF LoopBehind
<1> USE DEF NmInv, NmTypeOK, Callers, Enter
<1>1. CASE ~UNCHANGED run
    BY <1>1, NextRun, NmBounds DEF Runs
<1>2. CASE UNCHANGED run /\ Doomed
    BY <1>2, DoomedUntilNext
<1>3. CASE UNCHANGED run /\ ~Doomed
    <2>1. CASE call["loop"] \in {"start", "look"}
        <3>1. cache # run
            BY <1>3, <2>1 DEF LoopBehind
        <3>2. UNCHANGED cache
            BY <2>1 DEF NmNext, NmJobStep, DeviceAppears, NmDies, Refresh, NmFails, ClientMode,
                        HotspotMode, CallStep, RestartStops, Start, Look
        <3> QED BY <1>3, <3>1, <3>2
    <2>2. CASE call["loop"] \notin {"start", "look"}
        <3>1. RestartStops("loop") \/ (ClientMode("loop") /\ unit # "up")
            <4>1. CASE NmJobStep \/ DeviceAppears \/ NmDies \/ Refresh \/ HotspotMode
                BY <2>2, <4>1, Zenon DEF NmJobStep, DeviceAppears, NmDies, Refresh, HotspotMode,
                                         nmCall
            <4>2. CASE NmFails
                BY <2>2, <4>2 DEF NmFails
            <4>3. ASSUME NEW t \in Callers, ClientMode(t)
                  PROVE  ClientMode("loop") /\ unit # "up"
                <5>1. t = "loop"
                    BY <2>2, <4>3 DEF ClientMode
                <5> QED BY <4>3, <5>1 DEF ClientMode
            <4>4. ASSUME NEW t \in Callers, CallStep(t) PROVE RestartStops("loop")
                <5>1. t = "loop"
                    BY <2>2, <4>4 DEF CallStep, RestartStops, Start, Look, Known, Unknown
                <5> QED BY <2>2, <4>4, <5>1 DEF CallStep, Start, Look
            <4> QED BY <4>1, <4>2, <4>3, <4>4 DEF NmNext
        <3>2. CASE RestartStops("loop")
            BY <3>2 DEF RestartStops, AfterAskStop, Doomed
        <3>3. CASE ClientMode("loop") /\ unit # "up"
            BY <1>3, <3>3 DEF Doomed
        <3> QED BY <3>1, <3>2, <3>3
    <2> QED BY <2>1, <2>2
<1> QED BY <1>1, <1>2, <1>3

(* What the loop connects is the device of a run that is doomed.              *)
LEMMA LoopDeafStep == NmInv /\ NmNext => LoopDeaf'
<1> SUFFICES ASSUME NmInv, NmNext, handlers'["loop"] > 0 PROVE Doomed'
    BY DEF LoopDeaf
<1>1. UNCHANGED run
    <2>1. NoHandler["loop"] = 0
        BY DEF NoHandler, Callers
    <2> QED BY <2>1, NextRun
<1> USE DEF NmInv, NmTypeOK, Callers
<1>2. CASE handlers["loop"] > 0
    BY <1>1, <1>2, DoomedUntilNext DEF LoopDeaf
<1>3. CASE ~(handlers["loop"] > 0)
    <2>1. Look("loop") /\ Known("loop")
        BY <1>1, <1>3 DEF NmNext, NmJobStep, DeviceAppears, NmDies, Refresh, NmFails, ClientMode,
                     HotspotMode, CallStep, RestartStops, Start, Look, Known, Unknown, Connect,
                     nmCall, NoHandler
    <2>2. cache = run /\ call["loop"] = "look"
        BY <1>3, <2>1 DEF Look, Known, Connect
    <2> QED BY <1>1, <2>2, DoomedUntilNext DEF LoopBehind
<1> QED BY <1>2, <1>3

(* What the caller finds without being early is the device of the run that it *)
(* asked for: whoever asks for another leaves its own mark.                   *)
LEMMA CallerHearsStep == NmInv /\ NmNext => CallerHears'
<1> SUFFICES ASSUME NmInv, NmNext,
                    via' = "caller", outcome'["caller"] = "none", call'["caller"] # "look"
             PROVE  Connected' > 0 /\ job' \notin {"start", "restart"}
    BY DEF CallerHears
<1> DEFINE Before == /\ via = "caller" /\ outcome["caller"] = "none"
                     /\ call["caller"] # "look"
           Goal == Connected' > 0 /\ job' \notin {"start", "restart"}
<1> USE DEF NmInv, NmTypeOK, UnitSound, Callers, Enter
<1>1. Before => Connected > 0 /\ job \notin {"start", "restart"}
    BY DEF CallerHears
<1>2. UNCHANGED handlers => Connected' = Connected
    BY DEF Connected
<1>3. CASE NmJobStep \/ DeviceAppears \/ NmDies \/ Refresh
    <2>1. Before
        BY <1>3 DEF NmJobStep, DeviceAppears, NmDies, Refresh, nmUnit, nmCall
    <2>2. UNCHANGED handlers /\ job' \notin {"start", "restart"}
        BY <1>1, <1>3, <2>1 DEF NmJobStep, DeviceAppears, NmDies, Refresh, nmUnit, nmCall
    <2> QED BY <1>1, <1>2, <2>1, <2>2
<1>4. CASE NmFails \/ HotspotMode
    <2>1. Before
        BY <1>4 DEF NmFails, HotspotMode, nmUnit, nmCall
    <2>2. UNCHANGED handlers /\ job' \in {job, "stop", "none"}
        BY <1>4 DEF NmFails, HotspotMode, AfterAskStop, nmUnit, nmCall
    <2> QED BY <1>1, <1>2, <2>1, <2>2
<1>5. ASSUME NEW t \in Callers, ClientMode(t) PROVE Goal
    <2>1. Before
        BY <1>5 DEF ClientMode, nmUnit
    <2>2. UNCHANGED <<handlers, job>>
        BY <1>5 DEF ClientMode, nmUnit
    <2> QED BY <1>1, <1>2, <2>1, <2>2
<1>6. ASSUME NEW t \in Callers, RestartStops(t) PROVE Goal
    <2>1. Before
        BY <1>6 DEF RestartStops
    <2>2. UNCHANGED handlers /\ job' \in {"stop", "none"}
        BY <1>6 DEF RestartStops, AfterAskStop
    <2> QED BY <1>1, <1>2, <2>1, <2>2
<1>7. ASSUME NEW t \in Callers, Start(t) PROVE Goal
    <2>1. t = "loop"
        BY <1>7 DEF Start
    <2>2. UNCHANGED <<job, via, handlers>> /\ Before
        BY <1>7, <2>1 DEF Start
    <2> QED BY <1>1, <1>2, <2>2
<1>8. ASSUME NEW t \in Callers, Look(t) PROVE Goal
    <2>1. UNCHANGED <<job, via, run, cache, live>>
        BY <1>8 DEF Look, nmUnit
    <2>2. CASE t = "caller"
        <3>1. call["caller"] = "look" /\ Known("caller")
            BY <1>8, <2>2 DEF Look, Unknown
        <3>2. cache = run /\ job = "none"
            BY <3>1 DEF Known
        <3>3. handlers'["caller"] \in 1..2 /\ handlers'["loop"] = handlers["loop"]
            BY <3>1, <3>2 DEF Known, Connect
        <3>4. handlers["loop"] \in 0..2
            OBVIOUS
        <3>5. Connected' > 0
            BY <3>3, <3>4 DEF Connected
        <3> QED BY <2>1, <3>2, <3>5
    <2>3. CASE t = "loop"
        <3>1. Before
            BY <1>8, <2>1, <2>3 DEF Look, Known, Unknown
        <3>2. /\ handlers'["loop"] \in Nat /\ handlers'["loop"] >= handlers["loop"]
              /\ handlers'["caller"] = handlers["caller"]
            BY <1>8, <2>3 DEF Look, Known, Unknown, Connect
        <3> QED BY <1>1, <2>1, <3>1, <3>2 DEF Connected
    <2> QED BY <2>2, <2>3
<1> QED BY <1>3, <1>4, <1>5, <1>6, <1>7, <1>8 DEF NmNext, CallStep

(* The caller's handler is connected once to a run, unless a start is asked   *)
(* of one that it is connected to: the start that changes the job dooms the   *)
(* present run.                                                               *)
LEMMA CallerOnceStep == NmInv /\ NmNext => CallerOnce'
<1> DEFINE Once == /\ handlers["caller"] <= 1
                   /\ call["caller"] = "look" => handlers["caller"] = 0
<1> SUFFICES ASSUME NmInv, NmNext, ~Doomed', ~repeated' PROVE Once'
    BY DEF CallerOnce
<1>1. CASE ~UNCHANGED run
    <2>1. NoHandler["caller"] = 0
        BY DEF NoHandler, Callers
    <2> QED BY <1>1, <2>1, NextRun
<1> USE DEF NmInv, NmTypeOK, UnitSound, Callers, Enter
<1>2. CASE UNCHANGED run
    <2>1. ~Doomed
        BY <1>2, DoomedUntilNext
    <2>2. ~repeated => Once
        BY <2>1 DEF CallerOnce
    <2>3. CASE NmJobStep
        BY <1>2, <2>1, <2>3, NmBounds DEF NmJobStep, Doomed, Runs
    <2>4. CASE DeviceAppears \/ NmDies \/ Refresh
        BY <2>2, <2>4 DEF DeviceAppears, NmDies, Refresh, nmUnit, nmCall, Doomed
    <2>5. CASE NmFails \/ HotspotMode
        BY <2>2, <2>5 DEF NmFails, HotspotMode, nmUnit, nmCall
    <2>6. ASSUME NEW t \in Callers, ClientMode(t) PROVE Once'
        BY <2>2, <2>6 DEF ClientMode
    <2>7. ASSUME NEW t \in Callers, RestartStops(t) PROVE Once'
        BY <2>2, <2>7 DEF RestartStops
    <2>8. ASSUME NEW t \in Callers, Start(t) PROVE Once'
        <3>1. unit = "up" /\ job' = job
            BY <2>1, <2>8, AskedStart DEF Start, Doomed
        <3>2. ~repeated /\ UNCHANGED handlers /\ ~(Connected > 0)
            BY <2>8, <3>1, Zenon DEF Start
        <3>3. handlers["caller"] = 0
            BY <3>2 DEF Connected
        <3> QED BY <3>2, <3>3
    <2>9. ASSUME NEW t \in Callers, Look(t) PROVE Once'
        BY <2>2, <2>9 DEF Look, Known, Unknown, Connect
    <2> QED BY <2>3, <2>4, <2>5, <2>6, <2>7, <2>8, <2>9 DEF NmNext, CallStep
<1> QED BY <1>1, <1>2

-------------------------------------------------------------------------------
(* wpa_supplicant and its interface. *)

\* What a look-up leaves alone, and how it changes the interface.
LEMMA LookedAt ==
    ASSUME WpaTypeOK, NEW p \in {NoPath} \cup Nat, Looked(p)
    PROVE  /\ daemon # "down" /\ UNCHANGED daemon
           /\ outside' \in 0..MaxOutside
           /\ \/ UNCHANGED <<iface, created, known, bare, behind>>
              \/ /\ iface' = created /\ created' = created + 1 /\ known' = {}
                 /\ bare' /\ behind' = [t \in Requesters |-> TRUE] /\ p = NoPath
BY WpaBoundsAssumption DEF WpaTypeOK, Looked, wpaDaemon, Overtaken, Outside

WpaInterfaceTyped ==
    /\ daemon \in {"down", "bus", "active"}
    /\ iface \in {Gone} \cup 0..created - 1 /\ created \in Nat /\ known \subseteq Networks
    /\ behind \in [Requesters -> BOOLEAN] /\ bare \in BOOLEAN
    /\ outside \in 0..MaxOutside

(* A look-up keeps the interface's variables in their types.                  *)
LEMMA InterfaceTyped ==
    ASSUME WpaTypeOK, NEW p \in {NoPath} \cup Nat, Looked(p)
    PROVE  WpaInterfaceTyped'
<1> USE DEF WpaTypeOK, WpaInterfaceTyped
<1>1. daemon' = daemon /\ outside' \in 0..MaxOutside
    BY LookedAt
<1>2. CASE UNCHANGED <<iface, created, known, bare, behind>>
    BY <1>1, <1>2
<1>3. CASE /\ iface' = created /\ created' = created + 1 /\ known' = {}
           /\ bare' /\ behind' = [t \in Requesters |-> TRUE]
    <2>1. bare' \in BOOLEAN
        BY LookedAt, <1>3, Zenon DEF Looked, wpaDaemon
    <2>2. iface' \in 0..created' - 1 /\ created' \in Nat
        BY <1>3
    <2> QED BY <1>1, <1>3, <2>1, <2>2
<1> QED BY <1>2, <1>3, LookedAt

(* Every step keeps wpa_supplicant's variables in their types.                *)
LEMMA WpaTypeStep == WpaInv /\ WpaNext => WpaTypeOK'
<1> SUFFICES ASSUME WpaInv, WpaNext PROVE WpaTypeOK'
    OBVIOUS
<1> USE WpaBoundsAssumption
        DEF WpaInv, WpaTypeOK, wpaDaemon, wpaRequest, Overtaken, Outside, At, NoPath, Any, Unset,
            Gone
<1>1. CASE DaemonStarts
    <2>1. (missed' \in BOOLEAN) /\ (bare' \in BOOLEAN) /\ (late' \in BOOLEAN)
        BY <1>1, Zenon DEF DaemonStarts
    <2> QED BY <1>1, <2>1 DEF DaemonStarts
<1>2. CASE DaemonActive
    BY <1>2 DEF DaemonActive
<1>3. CASE DaemonStops \/ InterfaceLost
    <2>1. (missed' \in BOOLEAN) /\ (bare' \in BOOLEAN) /\ (late' \in BOOLEAN)
        BY <1>3, Zenon DEF DaemonStops, InterfaceLost
    <2>2. outside' \in 0..MaxOutside
        BY <1>3 DEF DaemonStops, InterfaceLost
    <2> QED BY <1>3, <2>1, <2>2 DEF DaemonStops, InterfaceLost
<1>4. CASE Subscribe
    <2>1. PICK p \in {NoPath} \cup 0..created : Looked(p) /\ rule' = IF p = NoPath THEN Any ELSE p
        BY <1>4 DEF Subscribe
    <2>2. missed' \in BOOLEAN
        BY <1>4, Zenon DEF Subscribe
    <2>3. p \in {NoPath} \cup Nat
        OBVIOUS
    <2>4. WpaInterfaceTyped'
        BY <2>1, <2>3, InterfaceTyped
    <2>5. rule' \in {Any, Unset} \cup Nat
        BY <2>1, <2>3
    <2> QED BY <1>4, <2>2, <2>4, <2>5 DEF Subscribe, WpaInterfaceTyped
<1>5. ASSUME NEW t \in Requesters, NEW n \in Networks \cup {Status}, BeginRequest(t, n)
      PROVE  WpaTypeOK'
    BY <1>5 DEF BeginRequest
<1>6. ASSUME NEW t \in Requesters, TestActive(t) PROVE WpaTypeOK'
    <2>1. behind' \in [Requesters -> BOOLEAN]
        BY <1>6, Zenon DEF TestActive
    <2> QED BY <1>6, <2>1 DEF TestActive
<1>7. ASSUME NEW t \in Requesters, LookUp(t) PROVE WpaTypeOK'
    <2>1. CASE daemon = "down" /\ At(t, "idle") /\ UNCHANGED <<wpaDaemon, path, behind>>
        BY <1>7, <2>1 DEF LookUp
    <2>2. CASE \E p \in {NoPath} \cup 0..created : Looked(p) /\ path' = p /\ At(t, "use")
        <3>1. PICK p \in {NoPath} \cup 0..created : Looked(p) /\ path' = p /\ At(t, "use")
            BY <2>2
        <3>2. p \in {NoPath} \cup Nat
            OBVIOUS
        <3>3. WpaInterfaceTyped'
            BY <3>1, <3>2, InterfaceTyped
        <3> QED BY <1>7, <3>1, <3>2, <3>3 DEF LookUp, WpaInterfaceTyped
    <2> QED BY <1>7, <2>1, <2>2 DEF LookUp
<1>8. ASSUME NEW t \in Requesters, Use(t) PROVE WpaTypeOK'
    BY <1>8 DEF Use
<1>9. ASSUME NEW t \in Requesters, Store(t) PROVE WpaTypeOK'
    <2>1. late' \in BOOLEAN
        BY <1>9, Zenon DEF Store
    <2>2. network[t] \in Networks
        BY <1>9 DEF Store, NamesNetwork
    <2> QED BY <1>9, <2>1, <2>2 DEF Store
<1> QED BY <1>1, <1>2, <1>3, <1>4, <1>5, <1>6, <1>7, <1>8, <1>9 DEF WpaNext

(* A request that is to add a network names one, a daemon that is down has no *)
(* interface, and what was acknowledged is in the file.                       *)
LEMMA RequestStep == WpaInv /\ WpaNext => NamesNetwork' /\ DownGone' /\ AckedInFile'
<1> SUFFICES ASSUME WpaInv, WpaNext PROVE NamesNetwork' /\ DownGone' /\ AckedInFile'
    OBVIOUS
<1> DEFINE Goal == NamesNetwork /\ DownGone /\ AckedInFile
<1> USE DEF WpaInv, WpaTypeOK, NamesNetwork, DownGone, AckedInFile, wpaDaemon, wpaRequest, At
<1>1. CASE DaemonStarts \/ DaemonActive \/ DaemonStops \/ InterfaceLost
    BY <1>1 DEF DaemonStarts, DaemonActive, DaemonStops, InterfaceLost
<1>2. CASE Subscribe
    BY <1>2, LookedAt DEF Subscribe
<1>3. ASSUME NEW t \in Requesters, NEW n \in Networks \cup {Status}, BeginRequest(t, n)
      PROVE  Goal'
    BY <1>3 DEF BeginRequest
<1>4. ASSUME NEW t \in Requesters, TestActive(t) PROVE Goal'
    BY <1>4 DEF TestActive
<1>5. ASSUME NEW t \in Requesters, LookUp(t) PROVE Goal'
    BY <1>5, LookedAt DEF LookUp
<1>6. ASSUME NEW t \in Requesters, Use(t) \/ Store(t) PROVE Goal'
    BY <1>6 DEF Use, Store
<1> QED BY <1>1, <1>2, <1>3, <1>4, <1>5, <1>6 DEF WpaNext

(* A request whose thread has met another interface, or none, is marked so.   *)
LEMMA AddedStep == WpaInv /\ WpaNext => AddedBeforeStored'
<1> SUFFICES ASSUME WpaInv, WpaNext PROVE AddedBeforeStored'
    OBVIOUS
<1> USE DEF WpaInv, WpaTypeOK, AddedBeforeStored, wpaDaemon, wpaRequest, Overtaken, At
<1>1. CASE DaemonStarts \/ DaemonActive \/ DaemonStops \/ InterfaceLost
    BY <1>1 DEF DaemonStarts, DaemonActive, DaemonStops, InterfaceLost
<1>2. CASE Subscribe
    BY <1>2, LookedAt DEF Subscribe
<1>3. ASSUME NEW t \in Requesters, NEW n \in Networks \cup {Status}, BeginRequest(t, n)
      PROVE  AddedBeforeStored'
    BY <1>3 DEF BeginRequest
<1>4. ASSUME NEW t \in Requesters, TestActive(t) PROVE AddedBeforeStored'
    BY <1>4 DEF TestActive
<1>5. ASSUME NEW t \in Requesters, LookUp(t) PROVE AddedBeforeStored'
    BY <1>5, LookedAt DEF LookUp
<1>6. ASSUME NEW t \in Requesters, Use(t) PROVE AddedBeforeStored'
    BY <1>6 DEF Use
<1>7. ASSUME NEW t \in Requesters, Store(t) PROVE AddedBeforeStored'
    BY <1>7 DEF Store
<1> QED BY <1>1, <1>2, <1>3, <1>4, <1>5, <1>6, <1>7 DEF WpaNext

(* The daemon reads all that was acknowledged when it starts; from then on    *)
(* what is acknowledged was added in it, or noted as late.                    *)
LEMMA DaemonKnowsStep == WpaInv /\ WpaNext => DaemonKnows'
<1> SUFFICES ASSUME WpaInv, WpaNext PROVE DaemonKnows'
    OBVIOUS
<1> USE DEF WpaInv, WpaTypeOK, DaemonKnows, wpaDaemon, wpaRequest
<1>1. CASE DaemonStarts
    BY <1>1 DEF DaemonStarts, AckedInFile
<1>2. CASE DaemonActive \/ DaemonStops \/ InterfaceLost
    BY <1>2 DEF DaemonActive, DaemonStops, InterfaceLost
<1>3. CASE Subscribe
    BY <1>3, LookedAt DEF Subscribe
<1>4. ASSUME NEW t \in Requesters, NEW n \in Networks \cup {Status},
             BeginRequest(t, n) \/ TestActive(t)
      PROVE  DaemonKnows'
    BY <1>4 DEF BeginRequest, TestActive
<1>5. ASSUME NEW t \in Requesters, LookUp(t) PROVE DaemonKnows'
    BY <1>5, LookedAt DEF LookUp
<1>6. ASSUME NEW t \in Requesters, Use(t) PROVE DaemonKnows'
    BY <1>6 DEF Use
<1>7. ASSUME NEW t \in Requesters, Store(t) PROVE DaemonKnows'
    BY <1>7 DEF Store, AddedBeforeStored, DownGone
<1> QED BY <1>1, <1>2, <1>3, <1>4, <1>5, <1>6, <1>7 DEF WpaNext

(* Only the program's own creation gives the interface another number than    *)
(* the one that the receiver was installed with, or was noted to have missed. *)
LEMMA ReceiverHearsStep == WpaInv /\ WpaNext => ReceiverHears'
<1> SUFFICES ASSUME WpaInv, WpaNext PROVE ReceiverHears'
    OBVIOUS
<1> USE DEF WpaInv, WpaTypeOK, ReceiverHears, wpaDaemon, wpaRequest
<1>1. CASE DaemonStarts
    BY <1>1 DEF DaemonStarts
<1>2. CASE DaemonActive \/ DaemonStops \/ InterfaceLost
    BY <1>2 DEF DaemonActive, DaemonStops, InterfaceLost
<1>3. CASE Subscribe
    BY <1>3 DEF Subscribe
<1>4. ASSUME NEW t \in Requesters, NEW n \in Networks \cup {Status},
             BeginRequest(t, n) \/ TestActive(t) \/ Store(t)
      PROVE  ReceiverHears'
    BY <1>4 DEF BeginRequest, TestActive, Store
<1>5. ASSUME NEW t \in Requesters, LookUp(t) PROVE ReceiverHears'
    BY <1>5, LookedAt DEF LookUp
<1>6. ASSUME NEW t \in Requesters, Use(t) PROVE ReceiverHears'
    BY <1>6 DEF Use
<1> QED BY <1>1, <1>2, <1>3, <1>4, <1>5, <1>6 DEF WpaNext

-------------------------------------------------------------------------------
(* The theorems. *)

\* The backend that the platform does not use stays as it is.
LEMMA NmStays == NmInv /\ UNCHANGED nmVars => NmInv'
BY DEF NmInv, NmTypeOK, UnitSound, TriesLeft, LoopBehind, LoopDeaf, CallerHears, CallerOnce,
       Doomed, Connected, nmVars, nmUnit, nmCall

\* The backend that the platform does not use stays as it is.
LEMMA WpaStays == WpaInv /\ UNCHANGED wpaVars => WpaInv'
BY DEF WpaInv, WpaTypeOK, NamesNetwork, DownGone, AckedInFile, AddedBeforeStored, DaemonKnows,
       ReceiverHears, wpaVars, wpaDaemon, wpaRequest

\* At the boot main is about to start NetworkManager, and wpa_supplicant is down.
LEMMA InitHolds == Init => IInv
<1> SUFFICES ASSUME Init PROVE IInv
    OBVIOUS
<1>1. NmInv
    <2> USE NmBounds DEF Init, NmInit, NoHandler, Callers
    <2>1. (failedSignal \in BOOLEAN) /\ (repeated \in BOOLEAN)
        BY Zenon
    <2>2. /\ run \in Runs /\ live \in {0, run} /\ cache \in 0..run
          /\ 0 \in 0..MaxRetries + 1 /\ deaths \in 0..MaxDeaths
        BY DEF Runs
    <2>3. NmTypeOK
        BY <2>1, <2>2 DEF NmTypeOK
    <2>4. UnitSound /\ TriesLeft /\ LoopBehind /\ LoopDeaf /\ CallerHears /\ CallerOnce
        BY DEF UnitSound, TriesLeft, LoopBehind, LoopDeaf, CallerHears, CallerOnce
    <2> QED BY <2>3, <2>4 DEF NmInv
<1>2. WpaInv
    <2> USE WpaBoundsAssumption DEF Init, WpaInit
    <2>1. (bare \in BOOLEAN) /\ (late \in BOOLEAN) /\ (missed \in BOOLEAN)
        BY Zenon
    <2>2. WpaTypeOK
        BY <2>1 DEF WpaTypeOK, Default
    <2>3. /\ NamesNetwork /\ DownGone /\ AckedInFile /\ AddedBeforeStored
          /\ DaemonKnows /\ ReceiverHears
        BY DEF NamesNetwork, DownGone, AckedInFile, AddedBeforeStored, DaemonKnows, ReceiverHears
    <2> QED BY <2>2, <2>3 DEF WpaInv
<1> QED BY <1>1, <1>2 DEF IInv, Init

(* The invariant of both backends: the types, which run the loop may have     *)
(* connected to, and what the daemon was told of.                             *)
THEOREM Invariance == Spec => []IInv
<1>1. IInv /\ [Next]_vars => IInv'
    <2> SUFFICES ASSUME IInv, [Next]_vars PROVE IInv'
        OBVIOUS
    <2>1. CASE UNCHANGED vars
        BY <2>1, NmStays, WpaStays DEF IInv, vars
    <2>2. CASE NmNext /\ UNCHANGED <<backend, wpaVars>>
        <3>1. NmInv'
            BY <2>2, NmTypeStep, LoopBehindStep, LoopDeafStep, CallerHearsStep, CallerOnceStep
               DEF IInv, NmInv
        <3> QED BY <2>2, <3>1, WpaStays DEF IInv
    <2>3. CASE WpaNext /\ UNCHANGED <<backend, nmVars>>
        <3>1. WpaInv'
            BY <2>3, WpaTypeStep, RequestStep, AddedStep, DaemonKnowsStep, ReceiverHearsStep
               DEF IInv, WpaInv
        <3> QED BY <2>3, <3>1, NmStays DEF IInv
    <2> QED BY <2>1, <2>2, <2>3 DEF Next
<1> QED BY InitHolds, <1>1, PTL DEF Spec

(* Type correctness of NetworkManagerService's and WpaSupplicantService's     *)
(* state, under every order of their threads, the daemons and systemd.        *)
THEOREM BackendTypeCorrect == Spec => []TypeOK
<1>1. IInv => TypeOK
    BY DEF IInv, NmInv, WpaInv, TypeOK
<1> QED BY <1>1, Invariance, PTL

(* NetworkManagerService.restart on the GLib loop's thread: the handler is    *)
(* never connected to the device that lives once things settle.               *)
THEOREM LoopRestartAlwaysDeaf == Spec => []LoopRestartDeaf
<1>1. IInv => LoopRestartDeaf
    BY DEF IInv, NmInv, NmTypeOK, LoopDeaf, Doomed, LoopRestartDeaf, NmSettled, Callers
<1> QED BY <1>1, Invariance, PTL

(* What the caller's start found, neither early nor given up, is connected    *)
(* when things settle.                                                        *)
THEOREM DeviceAlwaysHeard == Spec => []DeviceHeard
<1>1. IInv => DeviceHeard
    BY DEF IInv, NmInv, CallerHears, DeviceHeard, NmSettled, Callers
<1> QED BY <1>1, Invariance, PTL

(* add_connection_handler connects a run of NetworkManager at most once,      *)
(* unless a start was asked of one that ran or was starting.                  *)
THEOREM HandlerAlwaysOnce == Spec => []HandlerOnce
<1>1. IInv => HandlerOnce
    <2> SUFFICES ASSUME IInv, NmSettled, ~repeated PROVE Connected <= 1
        BY DEF HandlerOnce
    <2>1. ~Doomed
        BY DEF NmSettled, Doomed
    <2>2. handlers["loop"] = 0 /\ handlers["caller"] \in 0..1
        BY <2>1 DEF IInv, NmInv, NmTypeOK, LoopDeaf, CallerOnce, Callers
    <2> QED BY <2>2 DEF Connected
<1> QED BY <1>1, Invariance, PTL

(* add_network: the daemon has every network that was acknowledged, unless it *)
(* was stored late or the program created the interface.                      *)
THEOREM DaemonAlwaysKnows == Spec => []DaemonKnows
<1>1. IInv => DaemonKnows
    BY DEF IInv, WpaInv
<1> QED BY <1>1, Invariance, PTL

(* The receiver of wpa_supplicant's signals stays bound to the interface over *)
(* the daemon's restarts, unless the program created it or guessed its path.  *)
THEOREM ReceiverAlwaysHears == Spec => []ReceiverHears
<1>1. IInv => ReceiverHears
    BY DEF IInv, WpaInv
<1> QED BY <1>1, Invariance, PTL
===============================================================================
