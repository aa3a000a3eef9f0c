----------------------------- MODULE WebConfigure -----------------------------
(***************************************************************************)
(* WifiWebServer's requests over NetworkStore.  Whether a network was       *)
(* configured is told from the view to the after_request hook, which starts *)
(* the thread that switches to client mode, by a flag of the server object  *)
(* that all workers share.                                                  *)
(***************************************************************************)
EXTENDS NetworkStore

CONSTANT MaxRequests    \* bound of the requests received

ASSUME RequestsAssumption == MaxRequests \in Nat

VARIABLES
    flag,       \* _network_configured
    stage,      \* where each worker is in its request
    result,     \* what on_add_network_requested returned to each worker
    answer,     \* what each worker answers
    received,   \* requests received
    acked,      \* history: networks whose add returned True
    due,        \* history: a network was added since the last completion thread
    clobbered   \* history: since then the flag was overwritten by a refusal

webVars == <<flag, stage, result, answer, received, acked, due, clobbered>>
vars    == <<storeVars, webVars>>

Stages == {"idle", "adding", "assign", "respond", "after", "spawn"}

TypeOK ==
    /\ StoreTypeOK
    /\ flag \in BOOLEAN /\ due \in BOOLEAN /\ clobbered \in BOOLEAN
    /\ stage \in [Workers -> Stages]
    /\ result \in [Workers -> BOOLEAN]
    /\ answer \in [Workers -> {"none", "configured", "failed"}]
    /\ received \in 0..MaxRequests
    /\ acked \subseteq Ssids

Init ==
    /\ StoreInit
    /\ flag = FALSE /\ due = FALSE /\ clobbered = FALSE
    /\ stage = [w \in Workers |-> "idle"]
    /\ result = [w \in Workers |-> FALSE]
    /\ answer = [w \in Workers |-> "none"]
    /\ received = 0
    /\ acked = {}

To(w, s) == stage' = [stage EXCEPT ![w] = s]

\* The request is over.
Leave(w) ==
    /\ To(w, "idle")
    /\ result' = [result EXCEPT ![w] = FALSE]
    /\ answer' = [answer EXCEPT ![w] = "none"]

Receive(w) ==
    /\ stage[w] = "idle"
    /\ received < MaxRequests
    /\ received' = received + 1
    /\ UNCHANGED <<flag, result, answer, acked, due, clobbered>>

\* The request names a network: configure_by_api or configure_by_web.
Configure(w, s) ==
    /\ Receive(w)
    /\ BeginAdd(w, s)
    /\ To(w, "adding")

\* A password under 8 characters is refused before anything is read.
ConfigureShort(w) ==
    /\ Receive(w)
    /\ To(w, "assign")
    /\ UNCHANGED storeVars

\* A configuration that does not parse leaves the flag as it is.
ConfigureMalformed(w) ==
    /\ Receive(w)
    /\ To(w, "respond")
    /\ UNCHANGED storeVars

\* Any other view: only the hook concerns the flag.
OtherView(w) ==
    /\ Receive(w)
    /\ To(w, "after")
    /\ UNCHANGED storeVars

Add(w) ==
    /\ stage[w] = "adding"
    /\ AddStep(w)
    /\ UNCHANGED webVars

AddReturns(w) ==
    LET done == at[w] = "added" IN
    /\ stage[w] = "adding"
    /\ at[w] \in {"added", "refused"}
    /\ Goto(w, "out") /\ ssid' = [ssid EXCEPT ![w] = NoName]
    /\ To(w, "assign")
    /\ result' = [result EXCEPT ![w] = done]
    /\ acked' = IF done THEN acked \cup {ssid[w]} ELSE acked
    /\ due' = (due \/ done)
    /\ UNCHANGED <<perSsid, store, draft, overlapped, cut, torn, flag, answer, received,
                   clobbered>>

Assign(w) ==
    /\ stage[w] = "assign"
    /\ To(w, "respond")
    /\ flag' = result[w]
    /\ clobbered' = (clobbered \/ (due /\ flag /\ ~result[w]))
    /\ UNCHANGED <<storeVars, result, answer, received, acked, due>>

\* Mutant: the answer uses the flag up.
RespondClears(w) ==
    /\ stage[w] = "respond"
    /\ To(w, "after")
    /\ answer' = [answer EXCEPT ![w] = IF flag THEN "configured" ELSE "failed"]
    /\ flag' = FALSE
    /\ UNCHANGED <<storeVars, result, received, acked, due, clobbered>>

\* The answer is read back from the shared flag.
Respond(w) ==
    /\ stage[w] = "respond"
    /\ To(w, "after")
    /\ answer' = [answer EXCEPT ![w] = IF flag THEN "configured" ELSE "failed"]
    /\ UNCHANGED <<storeVars, flag, result, received, acked, due, clobbered>>

\* after_request: test, then clear and start the thread.
TestFlag(w) ==
    /\ stage[w] = "after"
    /\ IF flag THEN To(w, "spawn") /\ UNCHANGED <<result, answer>> ELSE Leave(w)
    /\ UNCHANGED <<storeVars, flag, received, acked, due, clobbered>>

\* Mutant: the flag is not cleared.
SpawnCompletionKeeps(w) ==
    /\ stage[w] = "spawn"
    /\ Leave(w)
    /\ due' = FALSE /\ clobbered' = FALSE
    /\ UNCHANGED <<storeVars, flag, received, acked>>

SpawnCompletion(w) ==
    /\ stage[w] = "spawn"
    /\ Leave(w)
    /\ flag' = FALSE
    /\ due' = FALSE /\ clobbered' = FALSE
    /\ UNCHANGED <<storeVars, received, acked>>

Crash ==
    /\ \E w \in Workers : stage[w] # "idle"
    /\ StoreCrash
    /\ flag' = FALSE /\ due' = FALSE /\ clobbered' = FALSE
    /\ stage' = [w \in Workers |-> "idle"]
    /\ result' = [w \in Workers |-> FALSE]
    /\ answer' = [w \in Workers |-> "none"]
    /\ UNCHANGED <<received, acked>>

Next ==
    \/ \E w \in Workers :
         \/ \E s \in Ssids : Configure(w, s)
         \/ ConfigureShort(w) \/ ConfigureMalformed(w) \/ OtherView(w)
         \/ Add(w) \/ AddReturns(w) \/ Assign(w) \/ Respond(w)
         \/ TestFlag(w) \/ SpawnCompletion(w)
    \/ Crash

Spec == Init /\ [][Next]_vars

-------------------------------------------------------------------------------
Quiet == \A w \in Workers : stage[w] = "idle"

(* No request leaves the flag set behind it: a later request would answer    *)
(* and start client mode on the strength of it.                              *)
NoStaleFlag == Quiet => ~flag

(* However the requests interleave, once they are over every network that    *)
(* was added has had a completion thread started after it, unless a refused  *)
(* request overwrote the flag in between.                                    *)
CompletionFollowsAdd == Quiet /\ due => clobbered

(* A network whose add returned True is still on disk once no one is adding, *)
(* unless a kill struck inside an add; or a write of its own file raised; or, *)
(* in the one file of wpa_supplicant alone, two adds overlapped or the write *)
(* of any network raised.  A name with a blank or a '=' does not survive     *)
(* there the next add of any other.                                          *)
AckedStored ==
    Quiet /\ ~cut /\ (perSsid \/ ~overlapped) =>
        \A s \in acked \ torn : perSsid \/ ReadBack[s] = s => s \in Stored

(* A network added alone is never outranked by one that was there before it: *)
(* the network count is no less than any priority it has given out, and does *)
(* not fall while networks can be added, unless an add was cut short.        *)
NotOutranked ==
    [][\A w \in Workers : at[w] = "write" /\ at'[w] = "added" /\ ~overlapped /\ ~cut =>
         \A s \in Ssids : store'[s] <= store'[ssid[w]]]_vars

(* A request whose network was refused is answered with the failure.         *)
HonestAnswer == \A w \in Workers : answer[w] = "configured" => result[w]
===============================================================================
