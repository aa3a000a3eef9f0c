-------------------------------- MODULE StartUp --------------------------------
(***************************************************************************)
(* The life of the process: main configures the platform, picks the         *)
(* services, starts the GLib loop's thread, sets the services up one after  *)
(* the other, registers the events, handles the initial status and serves,  *)
(* until a signal, whose handler runs on main wherever main is, or an error *)
(* ends it.  The process is over when main, the loop, every timer and every *)
(* completion thread of the web server are; its workers are daemons.  What  *)
(* these do besides arming timers is in WifiEvents and ConnectionMonitor,   *)
(* what one setup does is in ServiceSetup.                                  *)
(***************************************************************************)
EXTENDS PlatformConfig, Integers, Sequences, SequencesExt

CONSTANT MaxRetries     \* NetworkManagerDbus._max_retries

ASSUME RetriesAssumption == MaxRetries \in Nat

VARIABLES
    debian12,   \* the platform's version is 12 or higher
    pc,         \* where main is
    services,   \* the names in the order of main's dictionary
    at,         \* which of them is being set up
    retries,    \* retry_count of add_connection_handler
    sources,    \* WifiControl._event_sources
    callbacks,  \* the service that holds the handler's callback for the event
    loop,       \* the GLib loop: unborn, idle, busy with handlers, over
    quit,       \* event_loop.quit() was called
    server,     \* the web server's sockets
    rules,      \* the kernel's nat table: the rules in the order they were appended in
    left,       \* history: rules of this process or the last ones may stay when it ends
    armed,      \* timers that will run: the handler's and the monitor's
    running,    \* timers whose callback has begun
    worker,     \* a waitress worker is at a request
    completing, \* a completion thread of the web server runs
    asked,      \* history: SIGTERM or SIGINT was delivered since the start
    excused     \* history: one of the ways in which the process outlives main was taken

mainVars  == <<pc, services, at, retries, sources, callbacks>>
portal    == <<server, rules, left>>
web       == <<worker, completing>>
otherVars == <<loop, quit, portal, armed, running, web, asked, excused>>
vars      == <<platformVars, debian12, mainVars, otherVars>>

Services == {"resolved", "dhcpcd", "avahi", "dnsmasq",
             "NetworkManager", "wpa_supplicant", "hostapd"}
Timers   == {"timer", "monitor"}

\* A redirection is to this process's address and port, or to those of one before it.
Rules == {"redirect", "stale", "masquerade"}

-------------------------------------------------------------------------------
(* The services and their events. *)

\* Mutant: a service that is not required is set up as well.
ManagedAll ==
    IF debian12
    THEN <<"resolved", "dhcpcd", "avahi", "dnsmasq", "NetworkManager", "hostapd">>
    ELSE <<"resolved", "dhcpcd", "avahi", "dnsmasq", "NetworkManager", "wpa_supplicant",
           "hostapd">>

\* What the calls of _init_service leave in the dictionary, in their order: a service that
\* is not required is told to stop by force, one that is not managed is left alone.
Managed ==
    IF debian12
    THEN <<"avahi", "dnsmasq", "NetworkManager", "hostapd">>
    ELSE <<"dhcpcd", "avahi", "dnsmasq", "wpa_supplicant", "hostapd">>

Client == IF debian12 THEN "NetworkManager" ELSE "wpa_supplicant"

NetworkManagerEvents ==
    {"started", "failed", "disabled", "inactive", "scanning", "connecting", "connected",
     "disconnecting", "disconnected", "ipAcquired"}
WpaSupplicantEvents ==
    {"started", "failed", "disabled", "inactive", "scanning", "connecting", "connected",
     "disconnected"}
HostapdEvents == {"hotspotStarted", "hotspotStopped", "hotspotFailed"}
DnsmasqEvents == {"peerConnected", "peerReconnected", "peerDisconnected"}
DhcpcdEvents  == {"ipAcquired"}

\* get_supported_events
Supported(s) ==
    CASE s = "NetworkManager" -> NetworkManagerEvents
      [] s = "wpa_supplicant" -> WpaSupplicantEvents
      [] s = "hostapd"        -> HostapdEvents
      [] s = "dnsmasq"        -> DnsmasqEvents
      [] s = "dhcpcd"         -> DhcpcdEvents
      [] OTHER                -> {}

Events == UNION {Supported(s) : s \in Services}

\* The events the handler registers for.
Handled == Events \ {"failed", "connecting", "disconnecting",
                     "hotspotStopped", "hotspotFailed"}

\* register_event_source: the first service that supports the event keeps it.
Source(e) ==
    LET first == SelectInSeq(services, LAMBDA s : e \in Supported(s))
    IN  IF first = 0 THEN "none" ELSE services[first]

\* register_callback: an event without a source is only logged.
Callback(e) == IF e \in Handled THEN sources'[e] ELSE "none"

-------------------------------------------------------------------------------
TypeOK ==
    /\ PlatformTypeOK
    /\ debian12 \in BOOLEAN /\ quit \in BOOLEAN /\ asked \in BOOLEAN /\ excused \in BOOLEAN
    /\ pc \in {"platform", "services", "cleanup", "redirect", "masquerade", "thread", "start",
               "device", "config", "wait", "stuck", "register", "initial", "serve", "fail",
               "quit", "ended"}
    /\ services \in Seq(Services) /\ at \in 0..Len(services)
    /\ retries \in 0..MaxRetries + 1
    /\ sources \in [Events -> Services \cup {"none"}]
    /\ callbacks \in [Events -> Services \cup {"none"}]
    /\ loop \in {"unborn", "idle", "busy", "over"}
    /\ server \in {"open", "closed"} /\ rules \in Seq(Rules)
    /\ left \in BOOLEAN /\ worker \in BOOLEAN /\ completing \in BOOLEAN
    /\ armed \subseteq Timers /\ running \subseteq Timers

NoService == [e \in Events |-> "none"]

Init ==
    /\ PlatformInit /\ debian12 \in BOOLEAN
    /\ pc = "platform" /\ services = <<>> /\ at = 0 /\ retries = 0
    /\ sources = NoService /\ callbacks = NoService
    /\ loop = "unborn" /\ quit = FALSE /\ server = "open"
    /\ armed = {} /\ running = {}
    /\ asked = FALSE /\ excused = FALSE
    /\ rules = <<>> /\ left = FALSE
    /\ worker = FALSE /\ completing = FALSE

\* Python's interpreter waits for the threads that are not daemons.
Ended == /\ pc = "ended" /\ loop \in {"unborn", "over"}
         /\ armed = {} /\ running = {} /\ ~completing

Aged(rule) == IF rule = "redirect" THEN "stale" ELSE rule

\* systemd: Restart=always; a process that does not stop when asked is killed.
Restarted ==
    /\ Ended \/ (asked /\ excused)
    /\ pc' = "platform" /\ services' = <<>> /\ at' = 0 /\ retries' = 0
    /\ sources' = NoService /\ callbacks' = NoService
    /\ loop' = "unborn" /\ quit' = FALSE /\ server' = "open"
    /\ armed' = {} /\ running' = {}
    /\ asked' = FALSE /\ excused' = FALSE
    /\ worker' = FALSE /\ completing' = FALSE
    /\ left' = (rules # <<>>)
    /\ rules' = [i \in DOMAIN rules |-> Aged(rules[i])]
    /\ UNCHANGED <<platformVars, debian12>>

Goto(l) == pc' = l /\ UNCHANGED <<services, at, retries, sources, callbacks>>

-------------------------------------------------------------------------------
(* main, up to the loop: what raises here leaves nothing behind. *)

SelectInterfaceRaises == pc = "platform" /\ Goto("ended") /\ UNCHANGED platformVars

Platform ==
    /\ pc = "platform"
    /\ \/ \E o \in Options : SetupPlatform(o) /\ Goto("services")
       \/ SetupPlatformRaises /\ Goto("ended")
       \/ SelectInterfaceRaises
    /\ UNCHANGED <<debian12, otherVars>>

\* What is required and not installed, or whose constructor raises, ends the process.
InitServices ==
    /\ pc = "services"
    /\ \/ /\ services' = Managed
          /\ at' = 1 /\ pc' = "cleanup"
          /\ UNCHANGED <<retries, sources, callbacks>>
       \/ Goto("ended")
    /\ UNCHANGED <<platformVars, debian12, otherVars>>

\* Mutant: the rules of the last process stay before the new ones.
CleanUpPortalNot == pc = "cleanup" /\ Goto("redirect") /\ UNCHANGED <<rules, left>>

\* The whole table is flushed; the command may raise before that or after it.
CleanUpPortal ==
    /\ pc = "cleanup"
    /\ \/ Goto("redirect") /\ rules' = <<>> /\ left' = FALSE
       \/ Goto("ended") /\ rules' \in {rules, <<>>} /\ left' = TRUE

AddRule(rule, next) ==
    /\ pc = rule
    /\ \/ Goto(next) /\ rules' = Append(rules, rule) /\ UNCHANGED left
       \/ Goto("ended") /\ left' = TRUE /\ UNCHANGED rules

\* The end of the web server's constructor, which main calls last.
SetUpPortal ==
    /\ CleanUpPortal \/ AddRule("redirect", "masquerade") \/ AddRule("masquerade", "thread")
    /\ UNCHANGED <<platformVars, debian12, loop, quit, server, armed, running, web, asked,
                   excused>>

StartThread ==
    /\ pc = "thread"
    /\ loop' = "idle"
    /\ Goto("start")
    /\ UNCHANGED <<platformVars, debian12, quit, portal, armed, running, web, asked, excused>>

-------------------------------------------------------------------------------
(* WifiManager.run. *)

Local == UNCHANGED <<platformVars, debian12, otherVars>>

Advance ==
    IF at < Len(services)
    THEN pc' = "start" /\ at' = at + 1 /\ UNCHANGED <<services, retries, sources, callbacks>>
    ELSE Goto("register")

SetupStart ==
    /\ pc = "start"
    /\ pc' = IF services[at] = "NetworkManager" THEN "device" ELSE "config"
    /\ retries' = 0
    /\ UNCHANGED <<services, at, sources, callbacks>>
    /\ Local

\* Mutant: the count starts over.
DeviceMissingAnew ==
    /\ pc = "device"
    /\ retries' = IF retries = MaxRetries THEN 0 ELSE retries + 1
    /\ UNCHANGED <<pc, services, at, sources, callbacks>>
    /\ Local

\* NetworkManager has no device of that name yet, or not any more.
DeviceMissing ==
    /\ pc = "device"
    /\ retries' = retries + 1
    /\ pc' = IF retries' <= MaxRetries THEN "device" ELSE "fail"
    /\ UNCHANGED <<services, at, sources, callbacks>>
    /\ Local

DeviceFound == pc = "device" /\ Goto("config") /\ Local

\* hostapd does not start by itself, NetworkManager has no file to set up.
SetupConfig ==
    /\ pc = "config"
    /\ \/ Advance /\ UNCHANGED excused
       \/ /\ services[at] \notin {"hostapd", "NetworkManager"}
          /\ Goto("wait")
          /\ excused' = (excused \/ quit)
    /\ UNCHANGED <<platformVars, debian12, loop, quit, portal, armed, running, web, asked>>

\* The loop sees the unit come up again.  The subscription to the service's own signals
\* follows, and may raise.
ReloadSeen(wait) == pc = wait /\ loop = "idle" /\ (Advance \/ Goto("fail")) /\ Local

\* The signals of the restart were merged, or the restart was given up: see SetupEnds in
\* ServiceSetup.  Only another restart of the unit, if any comes, ends the wait.
ReloadMissed == pc = "wait" /\ Goto("stuck") /\ Local

Reload == ReloadSeen("wait") \/ ReloadSeen("stuck") \/ ReloadMissed

\* D-Bus, a command or a file raises; setup turns it into a ServiceError.
SetupRaises == pc \in {"start", "device", "config"} /\ Goto("fail") /\ Local

Setup == SetupStart \/ DeviceMissing \/ DeviceFound \/ SetupConfig \/ SetupRaises

Register ==
    /\ pc = "register"
    /\ sources' = [e \in Events |-> Source(e)]
    /\ callbacks' = [e \in Events |-> Callback(e)]
    /\ pc' = "initial"
    /\ UNCHANGED <<services, at, retries>>
    /\ Local

\* It switches, fails to, or starts the monitor.
InitialStatus ==
    /\ pc = "initial"
    /\ Goto("serve")
    /\ \/ armed' = armed \cup {"monitor"} /\ excused' = (excused \/ asked)
       \/ UNCHANGED <<armed, excused>>
    /\ UNCHANGED <<platformVars, debian12, loop, quit, portal, running, web, asked>>

\* A closed server's loop has no sockets left.
ServerReturns == pc = "serve" /\ server = "closed" /\ Goto("quit") /\ Local

\* Nothing calls shutdown then: the timers stay.
ServerFails ==
    /\ pc = "serve"
    /\ Goto("quit")
    /\ excused' = TRUE /\ left' = TRUE
    /\ UNCHANGED <<platformVars, debian12, loop, quit, server, rules, armed, running, web, asked>>

\* Mutant: the server is closed, and the rules are forgotten.
CloseServerOnly == server' = "closed" /\ UNCHANGED <<rules, left>>

\* WifiWebServer.shutdown does not close the server when the cleanup of iptables raises.
CloseServer ==
    \/ rules' = <<>> /\ server' \in {server, "closed"} /\ UNCHANGED left
    \/ UNCHANGED <<rules, server>> /\ left' = TRUE

\* Mutant: shutdown leaves the monitor alone.
HandlerShutdownTimer == armed' = armed \ {"timer"}

HandlerShutdown == armed' = {}

FailedSetup ==
    /\ pc = "fail"
    /\ Goto("quit")
    /\ CloseServer /\ HandlerShutdown
    /\ UNCHANGED <<platformVars, debian12, loop, quit, running, web, asked, excused>>

Quit ==
    /\ pc = "quit"
    /\ Goto("ended")
    /\ quit' = TRUE
    /\ UNCHANGED <<platformVars, debian12, loop, portal, armed, running, web, asked, excused>>

Main == \/ Platform \/ InitServices \/ SetUpPortal \/ StartThread \/ Setup \/ Register
        \/ InitialStatus \/ ServerReturns \/ FailedSetup \/ Quit

Early  == {"platform", "services", "cleanup", "redirect", "masquerade", "thread"}
Serves == {"start", "device", "config", "register", "initial", "serve"}

\* SIGTERM or SIGINT.  Before the handler is set the process ends at once; before the
\* thread is started, after the handler's shutdown, because the thread cannot be joined;
\* from then on main goes on where it was, and may be left waiting for the loop, or serving.
Terminated ==
    /\ ~asked /\ ~Ended
    /\ asked' = TRUE
    /\ \/ /\ pc \in Early /\ Goto("ended")
          /\ left' = TRUE
          /\ UNCHANGED <<rules, server, armed, quit, excused>>
       \/ /\ pc = "thread" /\ Goto("ended")
          /\ CloseServer /\ HandlerShutdown
          /\ UNCHANGED <<quit, excused>>
       \/ /\ pc \notin Early
          /\ CloseServer /\ HandlerShutdown /\ quit' = TRUE
          /\ excused' = (excused \/ pc \in {"wait", "stuck"} \/ (server' = "open" /\ pc \in Serves))
          /\ UNCHANGED mainVars
    /\ UNCHANGED <<platformVars, debian12, loop, running, web>>

-------------------------------------------------------------------------------
(* The other threads: the loop's, the timers', the web server's. *)

Aside == UNCHANGED <<platformVars, debian12, mainVars, portal, asked>>

\* One iteration dispatches all that has arrived, even if quit is called meanwhile.
Dispatch ==
    /\ loop = "idle"
    /\ loop' = "busy"
    /\ Aside /\ UNCHANGED <<quit, armed, running, web, excused>>

Registered == \E e \in Events : callbacks[e] # "none"

DispatchEnds ==
    /\ loop = "busy"
    /\ loop' = IF quit THEN "over" ELSE "idle"
    /\ armed' \in IF Registered THEN SUBSET Timers ELSE {armed}
    /\ excused' = (excused \/ (asked /\ armed' # {}))
    /\ Aside /\ UNCHANGED <<quit, running, web>>

LoopEnds ==
    /\ loop = "idle" /\ quit
    /\ loop' = "over"
    /\ Aside /\ UNCHANGED <<quit, armed, running, web, excused>>

Expires(t) ==
    /\ t \in armed /\ t \notin running
    /\ armed' = armed \ {t}
    /\ running' = running \cup {t}
    /\ Aside /\ UNCHANGED <<loop, quit, web, excused>>

\* The monitor runs again unless an action raised, the handler's timer if a switch did.
CallbackEnds(t) ==
    /\ t \in running
    /\ running' = running \ {t}
    /\ armed' \in {armed, armed \cup {t}}
    /\ excused' = (excused \/ (asked /\ armed' # {}))
    /\ Aside /\ UNCHANGED <<loop, quit, web>>

RequestArrives ==
    /\ pc = "serve" /\ server = "open" /\ ~worker
    /\ worker' = TRUE
    /\ Aside /\ UNCHANGED <<loop, quit, armed, running, completing, excused>>

\* A restart request may cancel the timer; after a network was added, the hook starts a
\* thread to complete the request.  A worker goes on when main has ended.
RequestAnswered ==
    /\ worker /\ ~Ended
    /\ worker' = FALSE
    /\ armed' \in {armed, armed \ {"timer"}}
    /\ completing' \in {completing, TRUE}
    /\ Aside /\ UNCHANGED <<loop, quit, running, excused>>

\* on_add_network_completed: the timer is cancelled, or restarted when the switch failed.
\* Another such thread may go on; which of them it was that acted makes no difference.
Completes(more) ==
    /\ completing
    /\ completing' = more
    /\ armed' \in {armed \ {"timer"}, armed \cup {"timer"}}
    /\ excused' = (excused \/ (asked /\ "timer" \in armed'))
    /\ Aside /\ UNCHANGED <<loop, quit, running, worker>>

LoopThread == Dispatch \/ DispatchEnds \/ LoopEnds
TimerThread == \E t \in Timers : Expires(t) \/ CallbackEnds(t)
WebThread == RequestArrives \/ RequestAnswered \/ \E more \in BOOLEAN : Completes(more)

Next == Main \/ Reload \/ ServerFails \/ Terminated \/ Restarted
        \/ LoopThread \/ TimerThread \/ WebThread

Spec == Init /\ [][Next]_vars

\* Main, the loop, the callbacks and the completions run; a reload that can be seen again
\* and again is seen, or missed for good.  Not assumed: that a wait which has missed it ends,
\* that the device appears, that a timer expires, that a request is answered, that anyone asks.
Fairness ==
    /\ WF_vars(Main) /\ SF_vars(ReloadSeen("wait"))
    /\ WF_vars(DispatchEnds) /\ WF_vars(LoopEnds)
    /\ \A t \in Timers : WF_vars(CallbackEnds(t))
    /\ WF_vars(Completes(FALSE))

FairSpec == Spec /\ Fairness

-------------------------------------------------------------------------------
\* The service whose D-Bus signals report the event.
Reporter(e) ==
    CASE e = "hotspotStarted"             -> "hostapd"
      [] e \in DnsmasqEvents              -> "dnsmasq"
      [] e = "ipAcquired" /\ ~debian12    -> "dhcpcd"
      [] OTHER                            -> Client

(* Once requests are served, every event the handler answers reaches it from *)
(* the service that reports it in the mode the platform uses: no other       *)
(* service has taken its place, and none is missing.                         *)
EventsReach == pc = "serve" => \A e \in Handled : callbacks[e] = Reporter(e)

(* The start-up comes to an end: it serves, or the process ends, also when a *)
(* set-up raises or the device stays missing.  Two waits without a time-out  *)
(* may last: that of a set-up which has missed the reload of its service,    *)
(* and that for a loop which was told to quit before it.                     *)
StartUpEnds == pc = "platform" ~> (pc \in {"serve", "ended", "stuck"} \/ excused)

(* The process stops when asked, and when main has returned, unless one of   *)
(* these let it live on: a set-up waits for the loop, which has been told to *)
(* quit; the server was not closed, because the cleanup before it raised;    *)
(* the initial status, a handler, a callback or the completion of a request  *)
(* that was under way, or answered since, armed a timer again; the server    *)
(* failed, and nothing disarmed the timers.                                  *)
StopsWhenAsked == asked \/ pc = "ended" ~> (Ended \/ excused)

(* While the device serves, and no one has asked it to stop, its two rules,  *)
(* and none that an earlier process has left, lead its clients to the page:  *)
(* none is missing, none is doubled, none leads to another address.          *)
PortalWhole == pc = "serve" /\ ~asked => rules = <<"redirect", "masquerade">>

(* A process that has ended leaves no rule that redirects to the server that *)
(* is gone, unless it ended before its handlers were set, the cleanup raised *)
(* or the server failed, which nothing cleans up after.                      *)
PortalRemoved == Ended => rules = <<>> \/ left

(* A start that asks for what the last one asked for finds it done, and asks *)
(* for no reboot; except that a line which no newline follows, as the        *)
(* program itself writes it, is never removed, so that roaming, wanted again *)
(* and again, asks for a reboot at every start.  A setup that returns after  *)
(* changing a file does ask for one.                                         *)
RebootSettles ==
    [][ pc = "platform" /\ pc' = "services" =>
            /\ wanted' = wanted => ~needReboot' \/ (wanted = "enable" /\ roamoff = "unended")
            /\ bluetooth' # bluetooth \/ roamoff' # roamoff => needReboot' ]_vars
===============================================================================
