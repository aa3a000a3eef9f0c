----------------------------- MODULE StartUpProofs -----------------------------
(* Proofs about StartUp and PlatformConfig, for any number of retries of the   *)
(* look for the device, and any number of restarts of the process.             *)
EXTENDS StartUp, WellFoundedInduction, SequenceTheorems, TLAPS

(* The inductive invariant.  From the constructor of the web server to the    *)
(* end of run, and unless a signal has been handled, the two rules are there, *)
(* and no others; while it adds them, those that it has added.                *)
UpAndRunning == {"thread", "start", "device", "config", "wait", "stuck", "register", "initial",
                 "serve", "fail"}

RulesKept ==
    /\ pc = "redirect"   => rules = <<>>
    /\ pc = "masquerade" => rules = <<"redirect">>
    /\ pc \in UpAndRunning /\ ~asked => rules = <<"redirect", "masquerade">>

(* What removes the rules: the cleanup that comes before the server is closed. *)
Cleaned == rules = <<>> \/ left

RulesRemoved ==
    /\ pc \in {"platform", "services", "cleanup", "quit", "ended"} => Cleaned
    /\ server = "closed" => Cleaned
    /\ pc \in Early => server = "open"

(* What the last setup that returned has made of the boot files.              *)
FilesSet ==
    /\ wanted # "none" => ~bluetooth
    /\ wanted = "disable" => roamoff # "absent"
    /\ wanted = "enable"  => roamoff # "ended"

\* A device is looked for again only as often as there are retries.
TypesKept == TypeOK /\ (pc = "device" => retries <= MaxRetries)

(* The dictionary that main has filled, and what Register makes of it.         *)
Filled == {"cleanup", "redirect", "masquerade"} \cup (UpAndRunning \ {"fail"})

EventsSet ==
    /\ pc \in Filled => services = Managed
    /\ pc \in {"initial", "serve"} => \A e \in Handled : callbacks[e] = Reporter(e)

IInv == TypesKept /\ RulesKept /\ RulesRemoved /\ FilesSet /\ EventsSet

\* What main does in run, up to serving, the portal and the boot files are no part of.
RunStep == Setup \/ Reload \/ Register \/ InitialStatus

LEMMA RunOnly ==
    ASSUME RunStep
    PROVE  /\ pc \in {"start", "device", "config", "wait", "stuck", "register", "initial"}
           /\ pc' \in {"start", "device", "config", "wait", "stuck", "register", "initial",
                       "serve", "fail"}
           /\ UNCHANGED <<platformVars, portal, asked>>
<1> USE DEF Goto, Local, otherVars, Advance
<1>1. CASE SetupStart \/ DeviceMissing \/ DeviceFound \/ SetupRaises
    BY <1>1 DEF SetupStart, DeviceMissing, DeviceFound, SetupRaises
<1>2. CASE SetupConfig \/ Reload
    BY <1>2 DEF SetupConfig, Reload, ReloadSeen, ReloadMissed
<1>3. CASE Register \/ InitialStatus
    BY <1>3 DEF Register, InitialStatus
<1> QED BY <1>1, <1>2, <1>3 DEF RunStep, Setup

\* The other threads touch neither.
LEMMA AsideOnly ==
    ASSUME LoopThread \/ TimerThread \/ WebThread
    PROVE  UNCHANGED <<pc, platformVars, portal, asked>>
<1>1. CASE LoopThread
    BY <1>1 DEF LoopThread, Dispatch, DispatchEnds, LoopEnds, Aside, mainVars
<1>2. CASE TimerThread
    BY <1>2 DEF TimerThread, Expires, CallbackEnds, Aside, mainVars
<1>3. CASE WebThread
    BY <1>3 DEF WebThread, RequestArrives, RequestAnswered, Completes, Aside, mainVars
<1> QED BY <1>1, <1>2, <1>3

-------------------------------------------------------------------------------
(* The boot files. *)

(* What setup finds as it should be it leaves so, and what it wrote it finds;  *)
(* what it changes it reports.                                                *)
LEMMA SetupSettles ==
    ASSUME PlatformTypeOK, FilesSet, NEW o \in Options, SetupPlatform(o)
    PROVE  /\ PlatformTypeOK' /\ FilesSet'
           /\ wanted' = wanted => ~needReboot' \/ (wanted = "enable" /\ roamoff = "unended")
           /\ bluetooth' # bluetooth \/ roamoff' # roamoff => needReboot'
<1> USE DEF PlatformTypeOK, FilesSet, SetupPlatform, Options, IsRoamingEnabled, DisableRoaming,
            EnableRoaming
<1>1. needReboot' \in BOOLEAN
    BY Zenon
<1>2. CASE o = "disable"
    BY <1>1, <1>2
<1>3. CASE o = "enable"
    BY <1>1, <1>3
<1> QED BY <1>2, <1>3

\* What a setup that returns may answer.
Settles ==
    /\ wanted' = wanted => ~needReboot' \/ (wanted = "enable" /\ roamoff = "unended")
    /\ bluetooth' # bluetooth \/ roamoff' # roamoff => needReboot'

(* Only PlatformConfig.setup, and a restart not even that, changes the files. *)
LEMMA PlatformStep ==
    ASSUME PlatformTypeOK, FilesSet, [Next]_vars
    PROVE  /\ PlatformTypeOK' /\ FilesSet'
           /\ pc = "platform" /\ pc' = "services" => Settles
<1> DEFINE Goal == /\ PlatformTypeOK' /\ FilesSet'
                   /\ pc = "platform" /\ pc' = "services" => Settles
<1> USE DEF Goto
<1>1. ASSUME NEW o \in Options, SetupPlatform(o) PROVE Goal
    BY <1>1, SetupSettles DEF Settles
<1>2. CASE SetupPlatformRaises /\ pc' = "ended"
    BY <1>2 DEF SetupPlatformRaises, PlatformTypeOK, FilesSet
<1>3. CASE UNCHANGED platformVars /\ ~(pc = "platform" /\ pc' = "services")
    BY <1>3 DEF platformVars, PlatformTypeOK, FilesSet
<1>4. CASE Platform
    BY <1>1, <1>2, <1>3, <1>4 DEF Platform, SelectInterfaceRaises
<1>5. CASE InitServices \/ SetUpPortal \/ StartThread \/ ServerReturns \/ FailedSetup \/ Quit
    BY <1>3, <1>5 DEF InitServices, SetUpPortal, CleanUpPortal, AddRule, StartThread,
            ServerReturns, FailedSetup, Quit, Local
<1>6. CASE ServerFails \/ Restarted
    BY <1>3, <1>6 DEF ServerFails, Restarted
<1>7. CASE Terminated
    BY <1>3, <1>7 DEF Terminated, mainVars
<1>8. CASE RunStep
    BY <1>3, <1>8, RunOnly
<1>9. CASE LoopThread \/ TimerThread \/ WebThread \/ UNCHANGED vars
    BY <1>3, <1>9, AsideOnly DEF vars, mainVars
<1> QED BY <1>4, <1>5, <1>6, <1>7, <1>8, <1>9 DEF Next, Main, RunStep

-------------------------------------------------------------------------------
(* The types. *)

\* The service that main asks for an event is one of the dictionary, or none.
LEMMA SourceKnown ==
    ASSUME services \in Seq(Services), NEW e
    PROVE  Source(e) \in Services \cup {"none"}
<1> DEFINE Able == {i \in 1..Len(services) : e \in Supported(services[i])}
<1>1. CASE Able = {}
    BY <1>1 DEF Source, SelectInSeq
<1>2. CASE Able # {}
    <2>1. Able \subseteq Nat
        OBVIOUS
    <2>2. PICK n \in Able : \A i \in Able : ~ (<<i, n>> \in OpToRel(<, Nat))
        BY <1>2, <2>1, WFMin, NatLessThanWellFounded, Zenon
    <2>3. ASSUME NEW i \in Able PROVE n <= i
        <3>1. ~ (i < n)
            BY <2>1, <2>2, Zenon DEF OpToRel
        <3> QED BY <2>1, <3>1
    <2> QED BY <1>2, <2>3 DEF Source, SelectInSeq, Min
<1> QED BY <1>1, <1>2

(* What the portal's table becomes. *)
LEMMA RuleAdded ==
    /\ <<>> \in Seq(Rules)
    /\ \A r \in Rules, s \in Seq(Rules) : Append(s, r) \in Seq(Rules)
    /\ Append(<<>>, "redirect") = <<"redirect">>
    /\ Append(<<"redirect">>, "masquerade") = <<"redirect", "masquerade">>
    /\ [i \in DOMAIN <<>> |-> Aged(<<>>[i])] = <<>>
<1>1. <<>> \in Seq(Rules)
    OBVIOUS
<1>2. \A r \in Rules, s \in Seq(Rules) : Append(s, r) \in Seq(Rules)
    OBVIOUS
<1>3. Append(<<>>, "redirect") = <<"redirect">>
    OBVIOUS
<1>4. Append(<<"redirect">>, "masquerade") = <<"redirect", "masquerade">>
    <2> DEFINE s == Append(<<"redirect">>, "masquerade")
               t == <<"redirect", "masquerade">>
    <2>1. s \in Seq(Rules) /\ Len(s) = 2 /\ s[1] = "redirect" /\ s[2] = "masquerade"
        BY DEF Rules
    <2>2. t \in Seq(Rules) /\ Len(t) = 2 /\ t[1] = "redirect" /\ t[2] = "masquerade"
        BY DEF Rules
    <2> HIDE DEF s, t
    <2>3. s = t
        BY <2>1, <2>2, SeqEqual
    <2> QED BY <2>3 DEF s, t
<1>5. [i \in DOMAIN <<>> |-> Aged(<<>>[i])] = <<>>
    OBVIOUS
<1> QED BY <1>1, <1>2, <1>3, <1>4, <1>5

LEMMA RulesType ==
    ASSUME rules \in Seq(Rules), [Next]_vars
    PROVE  rules' \in Seq(Rules)
<1>1. CASE rules' \in {rules, <<>>}
    BY <1>1, RuleAdded
<1>2. CASE SetUpPortal
    BY <1>1, <1>2, RuleAdded DEF SetUpPortal, CleanUpPortal, AddRule, Rules
<1>3. CASE Restarted
    <2>1. rules' = [i \in DOMAIN rules |-> Aged(rules[i])]
        BY <1>3 DEF Restarted
    <2>2. DOMAIN rules = 1..Len(rules) /\ Len(rules) \in Nat
        OBVIOUS
    <2>3. \A r \in Rules : Aged(r) \in Rules
        BY DEF Aged, Rules
    <2>4. ASSUME NEW i \in 1..Len(rules) PROVE Aged(rules[i]) \in Rules
        BY <2>3
    <2> QED BY <2>1, <2>2, <2>4
<1>4. CASE Platform \/ InitServices \/ StartThread \/ ServerReturns \/ ServerFails \/ Quit
    BY <1>1, <1>4 DEF Platform, InitServices, StartThread, ServerReturns, ServerFails, Quit,
            Local, otherVars, portal
<1>5. CASE FailedSetup \/ Terminated
    BY <1>1, <1>5 DEF FailedSetup, Terminated, CloseServer
<1>6. CASE RunStep
    BY <1>1, <1>6, RunOnly DEF portal
<1>7. CASE LoopThread \/ TimerThread \/ WebThread \/ UNCHANGED vars
    BY <1>1, <1>7, AsideOnly DEF vars, otherVars, portal
<1> QED BY <1>2, <1>3, <1>4, <1>5, <1>6, <1>7 DEF Next, Main, RunStep

(* Every step keeps every variable in its type.                               *)
LEMMA TypeStep ==
    ASSUME TypesKept, PlatformTypeOK', [Next]_vars
    PROVE  TypesKept'
<1> USE RetriesAssumption DEF TypesKept, TypeOK, Goto
<1>a. /\ asked' \in BOOLEAN
      /\ left' \in BOOLEAN
      /\ quit' \in BOOLEAN
      /\ excused' \in BOOLEAN
    BY Zenon DEF Next, Main, Platform, InitServices, SetUpPortal, CleanUpPortal, AddRule,
        StartThread, Setup, Register, InitialStatus, ServerReturns, ServerFails, FailedSetup,
        Quit, Terminated, Restarted, SetupStart, DeviceMissing, DeviceFound, SetupConfig,
        SetupRaises, Reload, ReloadSeen, ReloadMissed, Local, Aside, LoopThread, TimerThread,
        WebThread, Dispatch, DispatchEnds, LoopEnds, Expires, CallbackEnds, RequestArrives,
        RequestAnswered, Completes, CloseServer, otherVars, portal, vars, mainVars
<1>b. worker' \in BOOLEAN /\ completing' \in BOOLEAN
    BY Zenon DEF Next, Main, Platform, InitServices, SetUpPortal, StartThread, Setup, Register,
        InitialStatus, ServerReturns, ServerFails, FailedSetup, Quit, Terminated, Restarted,
        SetupStart, DeviceMissing, DeviceFound, SetupConfig, SetupRaises, Reload, ReloadSeen,
        ReloadMissed, Local, LoopThread, TimerThread, WebThread, Dispatch, DispatchEnds,
        LoopEnds, Expires, CallbackEnds, RequestArrives, RequestAnswered, Completes, otherVars,
        web, vars
<1>c. rules' \in Seq(Rules)
    BY RulesType
<1>1. CASE Platform
    BY <1>a, <1>b, <1>c, <1>1 DEF Platform, SelectInterfaceRaises, otherVars, portal
<1>2. CASE InitServices
    <2>1. Managed \in Seq(Services) /\ 1 \in 0..Len(Managed)
        <3>1. CASE debian12
            BY <3>1 DEF Managed, Services
        <3>2. CASE ~debian12
            BY <3>2 DEF Managed, Services
        <3> QED BY <3>1, <3>2
    <2> QED BY <1>a, <1>b, <1>c, <1>2, <2>1 DEF InitServices, otherVars, portal
<1>3. CASE SetUpPortal \/ StartThread
    BY <1>a, <1>b, <1>c, <1>3 DEF SetUpPortal, CleanUpPortal, AddRule, StartThread, portal
<1>4. CASE SetupStart \/ DeviceMissing \/ DeviceFound
    BY <1>a, <1>b, <1>c, <1>4 DEF SetupStart, DeviceMissing, DeviceFound, Local, otherVars, portal
<1>5. CASE SetupConfig \/ Reload \/ SetupRaises
    BY <1>a, <1>b, <1>c, <1>5 DEF SetupConfig, Reload, ReloadSeen, ReloadMissed, SetupRaises,
            Advance, Local, otherVars, portal
<1>6. CASE Register
    <2>1. \A e \in Events : Source(e) \in Services \cup {"none"}
        BY SourceKnown
    <2>2. sources' \in [Events -> Services \cup {"none"}]
        BY <1>6, <2>1 DEF Register
    <2>3. callbacks' \in [Events -> Services \cup {"none"}]
        BY <1>6, <2>2 DEF Register, Callback
    <2> QED BY <1>a, <1>b, <1>c, <1>6, <2>2, <2>3 DEF Register, Local, otherVars, portal
<1>7. CASE InitialStatus
    BY <1>a, <1>b, <1>c, <1>7 DEF InitialStatus, portal, Timers
<1>8. CASE ServerReturns \/ ServerFails \/ Quit
    BY <1>a, <1>b, <1>c, <1>8 DEF ServerReturns, ServerFails, Quit, Local, otherVars, portal
<1>9. CASE FailedSetup
    BY <1>a, <1>b, <1>c, <1>9 DEF FailedSetup, CloseServer, HandlerShutdown
<1>10. CASE Terminated
    <2>1. server' \in {"open", "closed"}
        BY <1>10 DEF Terminated, CloseServer
    <2>2. armed' \subseteq Timers
        BY <1>10 DEF Terminated, HandlerShutdown
    <2> QED BY <1>a, <1>b, <1>c, <1>10, <2>1, <2>2 DEF Terminated, mainVars
<1>11. CASE Restarted
    BY <1>a, <1>b, <1>c, <1>11 DEF Restarted, NoService
<1>12. CASE LoopThread
    BY <1>a, <1>b, <1>c, <1>12 DEF LoopThread, Dispatch, DispatchEnds, LoopEnds, Aside, mainVars,
            portal
<1>13. ASSUME NEW t \in Timers, Expires(t) \/ CallbackEnds(t) PROVE TypesKept'
    BY <1>a, <1>b, <1>c, <1>13 DEF Expires, CallbackEnds, Aside, mainVars, portal
<1>14. CASE WebThread
    BY <1>a, <1>b, <1>c, <1>14 DEF WebThread, RequestArrives, RequestAnswered, Completes, Aside,
            mainVars, portal, Timers
<1>15. CASE UNCHANGED vars
    BY <1>15 DEF vars, mainVars, otherVars, portal, web
<1> QED BY <1>1, <1>2, <1>3, <1>4, <1>5, <1>6, <1>7, <1>8, <1>9, <1>10, <1>11, <1>12,
           <1>13, <1>14, <1>15 DEF Next, Main, Setup, TimerThread
-------------------------------------------------------------------------------
(* The captive portal. *)

(* The rules are set up before main gets to run, and removed by who handles a *)
(* signal or the failure of a set-up.                                         *)
LEMMA RulesStep == RulesKept /\ RulesRemoved /\ [Next]_vars => RulesKept' /\ RulesRemoved'
<1> SUFFICES ASSUME RulesKept, RulesRemoved, [Next]_vars PROVE RulesKept' /\ RulesRemoved'
    OBVIOUS
<1> USE DEF RulesKept, UpAndRunning, RulesRemoved, Cleaned, Early, Goto, otherVars, portal
<1>1. CASE Platform
    BY <1>1 DEF Platform, SelectInterfaceRaises
<1>2. CASE InitServices \/ SetUpPortal
    BY <1>2, RuleAdded DEF InitServices, SetUpPortal, CleanUpPortal, AddRule
<1>3. CASE StartThread
    BY <1>3 DEF StartThread
<1>4. CASE RunStep
    BY <1>4, RunOnly
<1>5. CASE ServerReturns \/ ServerFails
    BY <1>5 DEF ServerReturns, ServerFails, Local
<1>6. CASE FailedSetup
    BY <1>6 DEF FailedSetup, CloseServer
<1>7. CASE Quit
    BY <1>7 DEF Quit
<1>8. CASE Terminated
    <2>1. CASE pc \in Early
        BY <1>8, <2>1 DEF Terminated, CloseServer
    <2>2. CASE pc \notin Early
        BY <1>8, <2>2 DEF Terminated, CloseServer, mainVars
    <2> QED BY <2>1, <2>2
<1>9. CASE Restarted
    BY <1>9, RuleAdded DEF Restarted
<1>10. CASE LoopThread \/ TimerThread \/ WebThread \/ UNCHANGED vars
    BY <1>10, AsideOnly DEF vars, mainVars
<1> QED BY <1>1, <1>2, <1>3, <1>4, <1>5, <1>6, <1>7, <1>8, <1>9, <1>10 DEF Next, Main, RunStep

-------------------------------------------------------------------------------
(* The events. *)

(* register_event_source: on either platform, an event the handler answers is *)
(* kept by its reporter, the first service of the dictionary that supports it.*)
LEMMA FirstReports ==
    ASSUME debian12 \in BOOLEAN, services = Managed, NEW e \in Handled
    PROVE  Source(e) = Reporter(e)
<1> DEFINE Able == {i \in 1..Len(services) : e \in Supported(services[i])}
<1> USE DEF Handled, Events, Services, Supported, NetworkManagerEvents, WpaSupplicantEvents,
            HostapdEvents, DnsmasqEvents, DhcpcdEvents, Reporter, Client, Managed
<1>1. PICK n \in 1..Len(services) : /\ n \in Able
                                    /\ \A i \in Able : n <= i
                                    /\ services[n] = Reporter(e)
    <2>1. CASE debian12
        <3>1. CASE e \in NetworkManagerEvents
            BY <2>1, <3>1
        <3>2. CASE e \in HostapdEvents
            BY <2>1, <3>2
        <3>3. CASE e \in DnsmasqEvents
            BY <2>1, <3>3
        <3> QED BY <2>1, <3>1, <3>2, <3>3
    <2>2. CASE ~debian12
        <3>1. CASE e \in WpaSupplicantEvents
            BY <2>2, <3>1
        <3>2. CASE e \in HostapdEvents
            BY <2>2, <3>2
        <3>3. CASE e \in DnsmasqEvents
            BY <2>2, <3>3
        <3>4. CASE e = "ipAcquired"
            BY <2>2, <3>4
        <3> QED BY <2>2, <3>1, <3>2, <3>3, <3>4
    <2> QED BY <2>1, <2>2
<1> QED BY <1>1 DEF Source, SelectInSeq, Min

(* Nothing but a new start of main touches the dictionary once it is filled,  *)
(* and nothing but Register the callbacks.                                    *)
LEMMA EventsStep == TypeOK /\ EventsSet /\ [Next]_vars => EventsSet'
<1> SUFFICES ASSUME TypeOK, EventsSet, [Next]_vars PROVE EventsSet'
    OBVIOUS
<1>0. debian12 \in BOOLEAN
    BY DEF TypeOK
<1> DEFINE Kept == UNCHANGED <<debian12, services, callbacks>>
<1> USE DEF EventsSet, Filled, UpAndRunning, Managed, Reporter, Client
<1>1. CASE Kept /\ (pc' = pc \/ pc' \notin Filled)
    BY <1>1
<1>2. CASE /\ Kept /\ pc \in Filled
           /\ pc = "initial" \/ pc' \notin {"initial", "serve"}
    BY <1>2
<1>3. CASE InitServices \/ SetUpPortal
    BY <1>3 DEF InitServices, SetUpPortal, CleanUpPortal, AddRule, Goto
<1>4. CASE Register
    <2>1. services = Managed /\ services' = services /\ debian12' = debian12 /\ pc' = "initial"
        BY <1>4 DEF Register, Local
    <2>2. ASSUME NEW e \in Handled PROVE callbacks'[e] = Reporter(e)
        BY <1>0, <1>4, <2>1, <2>2, FirstReports DEF Register, Callback, Handled
    <2> QED BY <2>1, <2>2
<1>5. CASE RunStep /\ ~Register
    BY <1>2, <1>5 DEF RunStep, Setup, SetupStart, DeviceMissing, DeviceFound, SetupConfig,
            SetupRaises, Reload, ReloadSeen, ReloadMissed, InitialStatus, Advance, Goto, Local,
            otherVars
<1>6. CASE Platform \/ Quit \/ FailedSetup \/ ServerReturns \/ ServerFails
    BY <1>1, <1>6 DEF Platform, SelectInterfaceRaises, Quit, FailedSetup, ServerReturns,
            ServerFails, Goto, Local
<1>7. CASE StartThread
    BY <1>2, <1>7 DEF StartThread, Goto
<1>8. CASE Terminated \/ Restarted
    BY <1>8 DEF Terminated, Restarted, Goto, mainVars
<1>9. CASE LoopThread \/ TimerThread \/ WebThread \/ UNCHANGED vars
    BY <1>1, <1>9 DEF LoopThread, Dispatch, DispatchEnds, LoopEnds, TimerThread, Expires,
            CallbackEnds, WebThread, RequestArrives, RequestAnswered, Completes, Aside,
            mainVars, vars
<1> QED BY <1>3, <1>4, <1>5, <1>6, <1>7, <1>8, <1>9 DEF Next, Main, RunStep

-------------------------------------------------------------------------------
(* The theorems. *)

(* The invariant of the process's life, over every restart: what the boot     *)
(* files hold, and when the rules of the portal are there.                    *)
THEOREM Invariance == Spec => []IInv
<1>1. Init => IInv
    <2> SUFFICES ASSUME Init PROVE IInv
        OBVIOUS
    <2> USE RetriesAssumption, RuleAdded DEF Init, PlatformInit
    <2>1. (needReboot \in BOOLEAN) /\ (bluetooth \in BOOLEAN) /\ (debian12 \in BOOLEAN)
        BY Zenon
    <2>2. PlatformTypeOK /\ FilesSet
        BY <2>1 DEF PlatformTypeOK, FilesSet
    <2>3. RulesKept /\ RulesRemoved
        BY DEF RulesKept, UpAndRunning, RulesRemoved, Cleaned
    <2>4. EventsSet
        BY DEF EventsSet, Filled, UpAndRunning
    <2>5. services \in Seq(Services) /\ at \in 0..Len(services) /\ retries \in 0..MaxRetries + 1
        OBVIOUS
    <2>6. TypesKept
        BY <2>1, <2>2, <2>5 DEF TypesKept, TypeOK, NoService
    <2> QED BY <2>2, <2>3, <2>4, <2>6 DEF IInv
<1>2. IInv /\ [Next]_vars => IInv'
    <2>1. TypesKept => TypeOK /\ PlatformTypeOK
        BY DEF TypesKept, TypeOK
    <2> QED BY <2>1, PlatformStep, TypeStep, RulesStep, EventsStep DEF IInv
<1> QED BY <1>1, <1>2, PTL DEF Spec

(* Everything the process keeps has its type, with no more retries than one   *)
(* over the limit, at which NetworkManagerDbus gives the device up.           *)
THEOREM StartUpTypeCorrect == Spec => []TypeOK
<1>1. IInv => TypeOK
    BY DEF IInv, TypesKept
<1> QED BY <1>1, Invariance, PTL

(* WifiControl.register_event_source and register_callback: once the program  *)
(* serves, on either platform, each event that WifiEventHandler answers comes *)
(* to it from the service that reports it, and from no other.                 *)
THEOREM EventsAlwaysReach == Spec => []EventsReach
<1>1. IInv => EventsReach
    BY DEF IInv, EventsSet, EventsReach
<1> QED BY <1>1, Invariance, PTL

(* WifiWebServer's captive portal: while main serves and was not asked to      *)
(* stop, the kernel holds this server's two rules and no others, whatever the *)
(* processes before it left: none is missing, doubled or of an old address.   *)
THEOREM PortalServed == Spec => []PortalWhole
<1>1. IInv => PortalWhole
    BY DEF IInv, RulesKept, UpAndRunning, PortalWhole
<1> QED BY <1>1, Invariance, PTL

(* A process that has ended has removed the rules, unless it ended before its *)
(* handlers were set, the cleanup raised or the server failed.                *)
THEOREM PortalTakenDown == Spec => []PortalRemoved
<1>1. IInv => PortalRemoved
    BY DEF IInv, RulesRemoved, Cleaned, PortalRemoved, Ended
<1> QED BY <1>1, Invariance, PTL

(* PlatformConfig.setup asks for no reboot when it was asked the same before, *)
(* but for the line without a newline that it cannot remove; and it asks for  *)
(* one when it returns after changing a file.                                 *)
THEOREM RebootAlwaysSettles == Spec => RebootSettles
<1>1. IInv /\ [Next]_vars =>
          [ pc = "platform" /\ pc' = "services" => Settles ]_vars
    BY PlatformStep DEF IInv, TypesKept, TypeOK
<1> QED BY <1>1, Invariance, PTL DEF Spec, RebootSettles, Settles
===============================================================================
