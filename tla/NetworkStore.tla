----------------------------- MODULE NetworkStore -----------------------------
(***************************************************************************)
(* The configured networks on disk, and WifiEventHandler's                  *)
(* on_add_network_requested writing them: WpaSupplicantConfig rewrites one  *)
(* file that holds every network, NetworkManagerConfig one file per ssid.   *)
(* Opening a file for writing empties it; its content follows on close.     *)
(* Web workers add networks at the same time, without a lock; opening and   *)
(* writing may raise, and the process may be killed anywhere.               *)
(***************************************************************************)
EXTENDS Integers, FiniteSets

CONSTANTS
    Workers,        \* web worker threads
    Ssids,          \* names of networks
    ReadBack        \* what the reader of the one file makes of a name: it drops the
                    \* blanks, and all from '=' on

ASSUME SsidsAssumption == IsFiniteSet(Ssids) /\ Ssids # {}

ASSUME ReadBackAssumption ==
    /\ ReadBack \in [Ssids -> Ssids]
    /\ \A s \in Ssids : ReadBack[ReadBack[s]] = ReadBack[s]

VARIABLES
    perSsid,    \* the configuration class: NetworkManagerConfig, else WpaSupplicantConfig
    store,      \* priority of each network on disk, or Absent, or Emptied
    at,         \* where each worker is in adding a network
    ssid,       \* the network each worker adds
    draft,      \* what each worker will write: a priority for each network
    overlapped, \* history: two workers were adding at once
    cut,        \* history: a kill, or in the one file a write that raised, cut an add short
    torn        \* history: networks whose own file a write that raised left unfinished

storeVars == <<perSsid, store, at, ssid, draft, overlapped, cut, torn>>

Absent  == -1
Emptied == -2   \* a file without the sections that hold the network
Places  == {"out", "count", "read", "open", "write", "added", "refused"}
Adding  == {w \in Workers : at[w] \notin {"out", "added", "refused"}}

StoreTypeOK ==
    /\ perSsid \in BOOLEAN
    /\ store \in [Ssids -> Nat \cup {Absent, Emptied}]
    /\ at \in [Workers -> Places]
    /\ ssid \in [Workers -> Ssids]
    /\ draft \in [Workers -> [Ssids -> Nat \cup {Absent}]]
    /\ overlapped \in BOOLEAN /\ cut \in BOOLEAN
    /\ torn \subseteq Ssids

Nothing == [s \in Ssids |-> Absent]
NoName  == CHOOSE s \in Ssids : TRUE   \* ssid of a worker that adds none

\* The image's initial network, or none.
StoreInit ==
    /\ perSsid \in BOOLEAN
    /\ store \in {Nothing} \cup {[Nothing EXCEPT ![s] = 0] : s \in Ssids}
    /\ at = [w \in Workers |-> "out"]
    /\ ssid = [w \in Workers |-> NoName]
    /\ draft = [w \in Workers |-> Nothing]
    /\ overlapped = FALSE /\ cut = FALSE
    /\ torn = {}

Stored == {s \in Ssids : store[s] >= 0}
Broken == {s \in Ssids : store[s] = Emptied}

\* _get_network_map: the networks of the one file, by the names as they are read; of two
\* that are read as one, the later in the file.
ReadAs(s) == {t \in Stored : ReadBack[t] = s}
Keys      == IF perSsid THEN Stored ELSE {ReadBack[s] : s \in Stored}
Readings  ==
    {r \in [Ssids -> {store[s] : s \in Stored} \cup {Absent}] :
        \A s \in Ssids : IF ReadAs(s) = {} THEN r[s] = Absent
                                           ELSE \E t \in ReadAs(s) : r[s] = store[t]}

Goto(w, place) == at' = [at EXCEPT ![w] = place]

\* Whatever an add raises is answered with False.
Refuse(w) == Goto(w, "refused") /\ draft' = [draft EXCEPT ![w] = Nothing]

BeginAdd(w, s) ==
    /\ at[w] = "out"
    /\ Goto(w, "count")
    /\ ssid' = [ssid EXCEPT ![w] = s]
    /\ overlapped' = (overlapped \/ Adding # {})
    /\ UNCHANGED <<perSsid, store, draft, cut, torn>>

\* The priority is the number of networks; reading an emptied file raises.
Count(w) ==
    /\ at[w] = "count"
    /\ IF Broken # {} THEN Goto(w, "refused") /\ UNCHANGED draft
                      ELSE /\ Goto(w, "read")
                           /\ draft' = [draft EXCEPT ![w][ssid[w]] = Cardinality(Keys)]
    /\ UNCHANGED <<perSsid, store, ssid, overlapped, cut, torn>>

\* Mutant: a network that is configured again keeps its priority.
ReadKeepsPriority(w) ==
    LET s == ssid[w]
        own == IF store[s] >= 0 THEN store[s] ELSE draft[w][s] IN
    /\ at[w] = "read"
    /\ Goto(w, "open")
    /\ \E r \in IF perSsid THEN {draft[w]} ELSE Readings :
          draft' = [draft EXCEPT ![w] = [r EXCEPT ![s] = own]]
    /\ UNCHANGED <<perSsid, store, ssid, overlapped, cut, torn>>

\* The networks to write: all that the file holds, or the one.  An existing file
\* of an ssid must have its sections; wpa_supplicant may refuse the network first.
Read(w) ==
    LET s == ssid[w] IN
    /\ at[w] = "read"
    /\ \/ /\ ~perSsid
          /\ Goto(w, "open")
          /\ \E r \in Readings : draft' = [draft EXCEPT ![w] = [r EXCEPT ![s] = draft[w][s]]]
       \/ perSsid /\ store[s] # Emptied /\ Goto(w, "open") /\ UNCHANGED draft
       \/ Refuse(w) /\ (perSsid => store[s] = Emptied)
    /\ UNCHANGED <<perSsid, store, ssid, overlapped, cut, torn>>

\* Mutant: the directory is emptied, not the one file.
OpenAll(w) ==
    /\ at[w] = "open"
    /\ Goto(w, "write")
    /\ store' = Nothing
    /\ UNCHANGED <<perSsid, ssid, draft, overlapped, cut, torn>>

Open(w) ==
    /\ at[w] = "open"
    /\ Goto(w, "write")
    /\ store' = IF perSsid THEN [store EXCEPT ![ssid[w]] = Emptied] ELSE Nothing
    /\ UNCHANGED <<perSsid, ssid, draft, overlapped, cut, torn>>

\* The file is not to be opened: nothing is lost.
OpenRaises(w) ==
    /\ at[w] = "open"
    /\ Refuse(w)
    /\ UNCHANGED <<perSsid, store, ssid, overlapped, cut, torn>>

\* The one file with some of the drafted networks in it.  A shorter content leaves what
\* another worker wrote beyond its end.
Overwrite(w, part) ==
    \E tail \in SUBSET Stored :
        store' = [s \in Ssids |-> CASE s \in part        -> draft[w][s]
                                   [] s \in tail \ part -> store[s]
                                   [] OTHER             -> Absent]

Drafted(w) == {s \in Ssids : draft[w][s] >= 0}

Write(w) ==
    /\ at[w] = "write"
    /\ Goto(w, "added")
    /\ draft' = [draft EXCEPT ![w] = Nothing]
    /\ \/ /\ perSsid
          /\ store' = [store EXCEPT ![ssid[w]] = draft[w][ssid[w]]]
          /\ torn' = torn \ {ssid[w]}
       \/ ~perSsid /\ Overwrite(w, Drafted(w)) /\ UNCHANGED torn
    /\ UNCHANGED <<perSsid, ssid, overlapped, cut>>

\* A full disk, or a character that cannot be encoded: the file holds what was written
\* so far.  A file of its own may be complete, but for its mode.
WriteRaises(w) ==
    /\ at[w] = "write"
    /\ Refuse(w)
    /\ \/ /\ perSsid
          /\ \E p \in {Emptied, draft[w][ssid[w]]} : store' = [store EXCEPT ![ssid[w]] = p]
          /\ torn' = torn \cup {ssid[w]}
          /\ UNCHANGED cut
       \/ /\ ~perSsid
          /\ \E part \in SUBSET Drafted(w) : Overwrite(w, part)
          /\ cut' = TRUE
          /\ UNCHANGED torn
    /\ UNCHANGED <<perSsid, ssid, overlapped>>

AddStep(w) ==
    Count(w) \/ Read(w) \/ Open(w) \/ OpenRaises(w) \/ Write(w) \/ WriteRaises(w)

\* systemd starts the program again: files stay, threads do not.
StoreCrash ==
    /\ at' = [w \in Workers |-> "out"]
    /\ draft' = [w \in Workers |-> Nothing]
    /\ ssid' = [w \in Workers |-> NoName]
    /\ cut' = (cut \/ Adding # {})
    /\ UNCHANGED <<perSsid, store, overlapped, torn>>
===============================================================================
