----------------------------- MODULE WpaInterface -----------------------------
(***************************************************************************)
(* WpaSupplicantService's calls to the daemon.  Every thread that adds a    *)
(* network, or asks for the status, first looks the interface's path up and *)
(* keeps it in one field that all of them share; an interface that the      *)
(* daemon does not know is created on the way.  A network is added in the   *)
(* daemon if its unit is active, then in the file, which the daemon reads   *)
(* when it starts.  How the file is written is in NetworkStore.             *)
(***************************************************************************)
EXTENDS Integers

CONSTANTS
    Requesters,     \* web workers that add, the loop that asks for the status
    Networks,       \* networks that are added
    MaxOutside      \* bound of stops of the daemon, losses of its interface, failed requests

ASSUME WpaBoundsAssumption == MaxOutside \in Nat

VARIABLES
    daemon,     \* wpa_supplicant: down, on the bus, or with its unit active
    iface,      \* number of its interface, or Gone
    created,    \* how many interfaces the daemon has had
    known,      \* networks that its interface has
    file,       \* networks in the configuration file
    path,       \* WpaSupplicantInterface._interface_path: a number, or NoPath
    rule,       \* the path whose signals the program receives
    request,    \* where each thread is in its request
    network,    \* what it adds, or Status
    behind,     \* history: the thread found the unit not active, or it is another one now
    acked,      \* history: networks whose add returned
    outside,    \* how many of the bounded environment's steps were taken
    bare,       \* history: the interface was created by the program, without the file
    late,       \* history: a network was stored after the daemon had read the file
    missed      \* history: the interface's number is not the one it was looked up with

wpaDaemon  == <<daemon, iface, created, known, outside, bare>>
wpaRequest == <<path, request, network>>
wpaVars    == <<wpaDaemon, file, rule, wpaRequest, behind, acked, late, missed>>

Gone    == -1
NoPath  == -2
Any     == -3       \* a receiver without a path
Unset   == -4
Default == 0        \* _DEFAULT_INTERFACE_PATH
Status  == "status"

WpaTypeOK ==
    /\ daemon \in {"down", "bus", "active"}
    /\ iface \in {Gone} \cup 0..created - 1 /\ created \in Nat
    /\ known \subseteq Networks /\ file \subseteq Networks /\ acked \subseteq Networks
    /\ path \in {NoPath} \cup Nat /\ rule \in {Any, Unset} \cup Nat
    /\ request \in [Requesters -> {"idle", "test", "look", "use", "store"}]
    /\ network \in [Requesters -> Networks \cup {Status}]
    /\ behind \in [Requesters -> BOOLEAN]
    /\ outside \in 0..MaxOutside
    /\ bare \in BOOLEAN /\ late \in BOOLEAN /\ missed \in BOOLEAN

WpaInit ==
    /\ daemon = "down" /\ iface = Gone /\ created = 0 /\ known = {} /\ file = {}
    /\ path = Default /\ rule = Unset
    /\ request = [t \in Requesters |-> "idle"]
    /\ network = [t \in Requesters |-> Status]
    /\ behind = [t \in Requesters |-> FALSE]
    /\ acked = {} /\ outside = 0 /\ bare = FALSE /\ late = FALSE /\ missed = FALSE

-------------------------------------------------------------------------------
(* The daemon. *)

\* The requests under way have met the interface before, or none.
Overtaken == behind' = [t \in Requesters |-> TRUE]

Outside == outside < MaxOutside /\ outside' = outside + 1

\* Its service file names the interface and the file.
DaemonStarts ==
    /\ daemon = "down"
    /\ daemon' = "bus" /\ iface' = 0 /\ created' = 1 /\ known' = file
    /\ bare' = FALSE /\ late' = FALSE /\ Overtaken
    /\ missed' = (rule \notin {0, Any, Unset})
    /\ UNCHANGED <<outside, file, rule, wpaRequest, acked>>

DaemonActive ==
    /\ daemon = "bus"
    /\ daemon' = "active"
    /\ UNCHANGED <<iface, created, known, outside, bare, file, rule, wpaRequest, behind, acked,
                   late, missed>>

DaemonStops ==
    /\ daemon # "down" /\ Outside
    /\ daemon' = "down" /\ iface' = Gone /\ known' = {}
    /\ Overtaken
    /\ UNCHANGED <<created, bare, file, rule, wpaRequest, acked, late, missed>>

\* The device went away, or another program removed it.
InterfaceLost ==
    /\ iface # Gone /\ Outside
    /\ iface' = Gone /\ known' = {}
    /\ Overtaken
    /\ UNCHANGED <<daemon, created, bare, file, rule, wpaRequest, acked, late, missed>>

-------------------------------------------------------------------------------
(* The program. *)

At(t, place) == request' = [request EXCEPT ![t] = place]

\* get_interface_path: what it returns.  An interface that had to be created has no path
\* yet; any other error gives the default one; a daemon that is down raises.
Looked(p) ==
    /\ daemon # "down"
    /\ \/ iface # Gone /\ p = iface
          /\ UNCHANGED <<wpaDaemon, behind>>
       \/ iface # Gone /\ p = Default /\ Outside
          /\ UNCHANGED <<daemon, iface, created, known, bare, behind>>
       \/ iface = Gone /\ p = NoPath
          /\ iface' = created /\ created' = created + 1
          /\ known' = {} /\ bare' = TRUE /\ Overtaken
          /\ UNCHANGED <<daemon, outside>>
       \/ iface = Gone /\ p = Default /\ Outside
          /\ UNCHANGED <<daemon, iface, created, known, bare, behind>>

\* Mutant: the receiver is bound to the path as it was last kept.
SubscribeKept ==
    /\ rule = Unset
    /\ daemon # "down"
    /\ rule' = IF path = NoPath THEN Any ELSE path
    /\ UNCHANGED <<wpaDaemon, behind, missed, file, wpaRequest, acked, late>>

\* add_connection_handler, once, in setup: a missing path receives from every one.
Subscribe ==
    /\ rule = Unset
    /\ \E p \in {NoPath} \cup 0..created :
          /\ Looked(p)
          /\ rule' = IF p = NoPath THEN Any ELSE p
    /\ missed' = (rule' # Any /\ rule' # iface')
    /\ UNCHANGED <<file, wpaRequest, acked, late>>

BeginRequest(t, n) ==
    /\ request[t] = "idle"
    /\ n \in Networks => n \notin acked
    /\ At(t, IF n = Status THEN "look" ELSE "test")
    /\ n = Status => daemon = "active"
    /\ network' = [network EXCEPT ![t] = n]
    /\ behind' = [behind EXCEPT ![t] = FALSE]
    /\ UNCHANGED <<wpaDaemon, file, rule, path, acked, late, missed>>

\* Mutant: a network is not added in a daemon that runs.
TestActiveNever(t) ==
    /\ request[t] = "test" /\ At(t, "store")
    /\ behind' = [behind EXCEPT ![t] = daemon # "active"]
    /\ UNCHANGED <<wpaDaemon, file, rule, path, network, acked, late, missed>>

TestActive(t) ==
    /\ request[t] = "test"
    /\ At(t, IF daemon = "active" THEN "look" ELSE "store")
    /\ behind' = [behind EXCEPT ![t] = daemon # "active"]
    /\ UNCHANGED <<wpaDaemon, file, rule, path, network, acked, late, missed>>

\* initialize
LookUp(t) ==
    /\ request[t] = "look"
    /\ \/ \E p \in {NoPath} \cup 0..created : Looked(p) /\ path' = p /\ At(t, "use")
       \/ daemon = "down" /\ At(t, "idle") /\ UNCHANGED <<wpaDaemon, path, behind>>
    /\ UNCHANGED <<file, rule, network, acked, late, missed>>

\* What is asked of a path that is not the interface's, or of none, raises.
Use(t) ==
    /\ request[t] = "use"
    /\ \/ /\ path = iface /\ network[t] \in Networks
          /\ known' = known \cup {network[t]}
          /\ At(t, "store")
          /\ UNCHANGED outside
       \/ /\ path = iface /\ network[t] \in Networks     \* refused
          /\ At(t, "idle") /\ Outside
          /\ UNCHANGED known
       \/ /\ path # iface \/ network[t] = Status
          /\ At(t, "idle")
          /\ UNCHANGED <<known, outside>>
    /\ UNCHANGED <<daemon, iface, created, bare, file, rule, path, network, behind, acked, late,
                   missed>>

Store(t) ==
    /\ request[t] = "store"
    /\ At(t, "idle")
    /\ file' = file \cup {network[t]}
    /\ acked' = acked \cup {network[t]}
    /\ late' = (late \/ (daemon # "down" /\ behind[t]))
    /\ UNCHANGED <<wpaDaemon, rule, path, network, behind, missed>>

WpaNext ==
    \/ DaemonStarts \/ DaemonActive \/ DaemonStops \/ InterfaceLost \/ Subscribe
    \/ \E t \in Requesters :
          \/ \E n \in Networks \cup {Status} : BeginRequest(t, n)
          \/ TestActive(t) \/ LookUp(t) \/ Use(t) \/ Store(t)

-------------------------------------------------------------------------------
(* Every network whose add returned is one the daemon has, whichever threads *)
(* asked in between and looked up a path for all: unless the network reached *)
(* the file after the daemon had read it, having been added in no daemon or  *)
(* in one before, or the program created the interface, which has no file.   *)
DaemonKnows == iface # Gone => acked \subseteq known \/ late \/ bare

(* The receiver that setup installs once gets the signals of the interface   *)
(* that there is, over every restart of the daemon; unless the program       *)
(* created the interface anew, or the look-up had to guess its number.       *)
ReceiverHears == iface # Gone /\ rule # Unset => rule \in {Any, iface} \/ bare \/ missed
===============================================================================
