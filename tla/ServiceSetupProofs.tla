-------------------------- MODULE ServiceSetupProofs --------------------------
(* Proofs about ServiceSetup, for every service, a bus queue of any length    *)
(* and any number of faults, of outside starts and of restarts.               *)
EXTENDS ServiceSetup, TLAPS

(* The inductive invariant.  While the handler is not connected nothing is    *)
(* heard of the unit.                                                         *)
Connected ==
    /\ pc \in {"unmask", "autoStart", "mask", "subscribe"} => ~subscribed
    /\ pc \in {"config", "write", "wait", "set", "done"} => subscribed
    /\ ~subscribed => signals = <<>> /\ lastState = "none"

(* The unit's last settled state waits at the end of the queue until it is    *)
(* handled; with an empty queue it has been so from before the connection.    *)
Heard(s) == subscribed /\ unit = s /\ ~gaveUp =>
    IF signals = <<>> THEN unseen ELSE signals[Len(signals)] = s

FailureHeard == Heard("failed")

(* A service to be stopped by force never comes up twice in a row in what the *)
(* handler is told, so it never takes the second time for a repetition.       *)
LastOf(first, q) == IF q = <<>> THEN first ELSE q[Len(q)]

NoRepeat(first, q) ==
    /\ q # <<>> /\ first = "active" => q[1] # "active"
    /\ \A i \in 1..(Len(q) - 1) : q[i] = "active" => q[i + 1] # "active"

UpIsNews == forceStop =>
    /\ ~again
    /\ Heard("active")
    /\ subscribed /\ ~gaveUp =>
        /\ unit \in {"inactive", "failed", "activating"} =>
             LastOf(lastState, signals) # "active"
        /\ NoRepeat(lastState, signals)

(* How far the writing of Avahi's configuration is: the command that sets the *)
(* host name is what the check looks at, two of the files come after it.      *)
Writing == pc = "write" /\ step # 0

AvahiWritten == service = "avahi" =>
    /\ ~New("hostname") => piece["/etc/hosts"] = "old" /\ piece["cloud.cfg"] = "old"
    /\ New("hostname") => \/ missed \/ Complete
                          \/ /\ Writing /\ step = 3 /\ New("/etc/hostname")
                             /\ piece["/etc/hosts"] = "old" /\ piece["cloud.cfg"] = "old"
                          \/ /\ Writing /\ step = 4 /\ New("/etc/hostname")
                             /\ New("/etc/hosts") /\ piece["cloud.cfg"] = "old"
    /\ step # 0 => (New("hostname") <=> step \in {3, 4})
    /\ step = 2 => New("/etc/hostname")

(* And of wpa_supplicant's: a new unit file that systemd was not told of is   *)
(* about to be, and none is reloaded that was never edited.                   *)
WpaWritten == service = "wpa_supplicant" =>
    /\ New("unitFile") /\ ~New("daemon") => missed \/ (Writing /\ step = 2)
    /\ piece["unitFile"] = "old" => ~New("daemon")
    /\ step = 1 => ~New("unitFile")
    /\ step = 2 => piece["unitFile"] # "old"
    /\ step = 3 => ~New("networkFile")

(* A unit that is up on less than the whole configuration is about to be      *)
(* restarted, once there is a whole configuration.                            *)
StartedOnAll ==
    IsAutoStart /\ Complete /\ unit \in {"activating", "active"} =>
        current \/ missed \/ (pc = "write" /\ step = 0)

FilesInv ==
    /\ step # 0 => pc = "write"
    /\ AvahiWritten /\ WpaWritten /\ StartedOnAll /\ ConfigWritten

IInv == TypeOK /\ Connected /\ FailureHeard /\ UpIsNews /\ FilesInv

-------------------------------------------------------------------------------
(* What is heard of the unit when a signal is put at the end of the queue, and *)
(* when the first is taken and recorded.                                      *)
LEMMA Appended ==
    ASSUME NEW first, NEW q \in Seq(States), NEW s \in States
    PROVE  /\ Append(q, s) \in Seq(States) /\ Len(Append(q, s)) = Len(q) + 1
           /\ Append(q, s) # <<>> /\ Append(q, s)[Len(Append(q, s))] = s
           /\ LastOf(first, Append(q, s)) = s
           /\ NoRepeat(first, q) /\ (s # "active" \/ LastOf(first, q) # "active") =>
                NoRepeat(first, Append(q, s))
<1> DEFINE r == Append(q, s)
<1>1. /\ Len(q) \in Nat /\ Len(r) = Len(q) + 1 /\ r \in Seq(States) /\ r # <<>>
      /\ \A i \in 1..Len(q) : r[i] = q[i]
      /\ r[Len(q) + 1] = s
      /\ q = <<>> <=> Len(q) = 0
    OBVIOUS
<1> HIDE DEF r
<1>2. LastOf(first, r) = s
    BY <1>1 DEF LastOf
<1>3. NoRepeat(first, q) /\ (s # "active" \/ LastOf(first, q) # "active") => NoRepeat(first, r)
    BY <1>1 DEF NoRepeat, LastOf
<1> QED BY <1>1, <1>2, <1>3 DEF r

LEMMA Taken ==
    ASSUME NEW first, NEW q \in Seq(States), q # <<>>
    PROVE  /\ Tail(q) \in Seq(States) /\ Len(Tail(q)) = Len(q) - 1 /\ Head(q) \in States
           /\ LastOf(Head(q), Tail(q)) = LastOf(first, q)
           /\ NoRepeat(first, q) =>
                NoRepeat(Head(q), Tail(q)) /\ (first = "active" => Head(q) # "active")
           /\ IF Tail(q) = <<>> THEN Head(q) = q[Len(q)]
                                ELSE Tail(q)[Len(Tail(q))] = q[Len(q)]
<1> DEFINE r == Tail(q)
<1>a. /\ Len(q) \in Nat \ {0} /\ Len(r) = Len(q) - 1 /\ r \in Seq(States)
      /\ Head(q) = q[1]
      /\ \A i \in 1..(Len(q) - 1) : r[i] = q[i + 1]
    OBVIOUS
<1>b. q[1] \in States
    BY <1>a
<1> HIDE DEF r
<1>c. r = <<>> <=> Len(r) = 0
    BY <1>a
<1>1. /\ Len(q) \in Nat \ {0} /\ Len(r) = Len(q) - 1 /\ r \in Seq(States)
      /\ Head(q) = q[1] /\ Head(q) \in States
      /\ \A i \in 1..(Len(q) - 1) : r[i] = q[i + 1]
      /\ r = <<>> <=> Len(q) = 1
    BY <1>a, <1>b, <1>c
<1>2. LastOf(Head(q), r) = LastOf(first, q)
    BY <1>1 DEF LastOf
<1>3. NoRepeat(first, q) =>
        NoRepeat(Head(q), r) /\ (first = "active" => Head(q) # "active")
    BY <1>1 DEF NoRepeat
<1>4. IF r = <<>> THEN Head(q) = q[Len(q)] ELSE r[Len(r)] = q[Len(q)]
    BY <1>1
<1> QED BY <1>1, <1>2, <1>3, <1>4 DEF r

(* The pieces of each service, and which the writing goes to next.            *)
LEMMA PiecesKnown ==
    /\ AllPieces = {"/etc/hostname", "hostname", "/etc/hosts", "cloud.cfg", "unitFile",
                    "daemon", "networkFile", "file"}
    /\ service = "avahi" =>
         /\ Mine = {"/etc/hostname", "hostname", "/etc/hosts", "cloud.cfg"}
         /\ Len(Pieces(service)) = 4
         /\ Pieces(service)[1] = "/etc/hostname" /\ Pieces(service)[2] = "hostname"
         /\ Pieces(service)[3] = "/etc/hosts" /\ Pieces(service)[4] = "cloud.cfg"
    /\ service = "wpa_supplicant" =>
         /\ Mine = {"unitFile", "daemon", "networkFile"}
         /\ Len(Pieces(service)) = 3
         /\ Pieces(service)[1] = "unitFile" /\ Pieces(service)[2] = "daemon"
         /\ Pieces(service)[3] = "networkFile"
    /\ service = "dnsmasq" =>
         Mine = {"file"} /\ Len(Pieces(service)) = 1 /\ Pieces(service)[1] = "file"
    /\ service \in Plain => Mine = {} /\ Len(Pieces(service)) = 0
<1>1. /\ Range(<<"/etc/hostname", "hostname", "/etc/hosts", "cloud.cfg">>)
            = {"/etc/hostname", "hostname", "/etc/hosts", "cloud.cfg"}
      /\ Range(<<"unitFile", "daemon", "networkFile">>) = {"unitFile", "daemon", "networkFile"}
      /\ Range(<<"file">>) = {"file"}
      /\ Range(<<>>) = {}
    BY DEF Range
<1>2. /\ Pieces("avahi") = <<"/etc/hostname", "hostname", "/etc/hosts", "cloud.cfg">>
      /\ Pieces("wpa_supplicant") = <<"unitFile", "daemon", "networkFile">>
      /\ Pieces("dnsmasq") = <<"file">>
      /\ \A s \in Plain : Pieces(s) = <<>>
    BY DEF Pieces, Plain
<1>3. AllPieces = Range(Pieces("avahi")) \cup Range(Pieces("wpa_supplicant"))
                                         \cup Range(Pieces("dnsmasq"))
    BY DEF AllPieces, Configured
<1> QED BY <1>1, <1>2, <1>3 DEF Mine

LEMMA NextStepKnown ==
    /\ service = "avahi" => (\A i \in 1..4 : NextStep(i) = i) /\ NextStep(5) = 0
    /\ service = "wpa_supplicant" =>
         /\ NextStep(1) = IF New("unitFile") THEN NextStep(3) ELSE 1
         /\ NextStep(3) = IF New("networkFile") THEN 0 ELSE 3
         /\ NextStep(4) = 0
    /\ service = "dnsmasq" => NextStep(1) = 1 /\ NextStep(2) = 0
<1> DEFINE Todo(i) == {j \in i..Len(Pieces(service)) :
                    service = "wpa_supplicant" => ~New(CheckedBy(Pieces(service)[j]))}
<1>0. \A i : NextStep(i) = IF Todo(i) = {} THEN 0
                           ELSE CHOOSE j \in Todo(i) : \A k \in Todo(i) : j <= k
    BY DEF NextStep
<1> HIDE DEF Todo
<1>1. ASSUME NEW i, Todo(i) = {} PROVE NextStep(i) = 0
    BY <1>0, <1>1
<1>2. ASSUME NEW i \in Nat, NEW j \in Nat, j \in Todo(i),
             \A k \in Todo(i) : k \in Nat /\ j <= k
      PROVE  NextStep(i) = j
    <2>1. \A l \in Todo(i) : (\A k \in Todo(i) : l <= k) => l = j
        BY <1>2
    <2> QED BY <1>0, <1>2, <2>1
<1>3. ASSUME service = "avahi"
      PROVE  (\A i \in 1..4 : NextStep(i) = i) /\ NextStep(5) = 0
    <2>1. \A i \in Nat : Todo(i) = i..4
        BY <1>3, PiecesKnown DEF Todo
    <2>2. ASSUME NEW i \in 1..4 PROVE NextStep(i) = i
        <3>1. i \in Nat /\ i \in Todo(i) /\ \A k \in Todo(i) : k \in Nat /\ i <= k
            BY <2>1
        <3> QED BY <1>2, <3>1
    <2>3. Todo(5) = {}
        BY <2>1
    <2> QED BY <1>1, <2>2, <2>3
<1>4. ASSUME service = "dnsmasq" PROVE NextStep(1) = 1 /\ NextStep(2) = 0
    <2>1. \A i \in Nat : Todo(i) = i..1
        BY <1>4, PiecesKnown DEF Todo
    <2> QED BY <1>1, <1>2, <2>1
<1>5. ASSUME service = "wpa_supplicant"
      PROVE  /\ NextStep(1) = IF New("unitFile") THEN NextStep(3) ELSE 1
             /\ NextStep(3) = IF New("networkFile") THEN 0 ELSE 3
             /\ NextStep(4) = 0
    <2>1. \A i \in Nat \ {0} : \A j : j \in Todo(i) <=>
            j \in i..3 /\ (IF j = 3 THEN ~New("networkFile") ELSE ~New("unitFile"))
        BY <1>5, PiecesKnown DEF Todo, CheckedBy
    <2>2. NextStep(4) = 0
        BY <1>1, <2>1
    <2>3. CASE New("networkFile")
        BY <1>1, <1>2, <2>1, <2>2, <2>3
    <2>4. CASE ~New("networkFile")
        BY <1>1, <1>2, <2>1, <2>2, <2>4
    <2> QED BY <2>3, <2>4
<1> QED BY <1>3, <1>4, <1>5

\* What the check of each service comes to.
Checks ==
    /\ service = "avahi" =>
         /\ NeedConfig <=> ~New("hostname")
         /\ Complete <=> /\ New("/etc/hostname") /\ New("hostname")
                         /\ New("/etc/hosts") /\ New("cloud.cfg")
         /\ Overlooked <=> New("hostname") /\ ~Complete
    /\ service = "wpa_supplicant" =>
         /\ NeedConfig <=> ~New("unitFile") \/ ~New("networkFile")
         /\ Complete <=> New("unitFile") /\ New("daemon") /\ New("networkFile")
         /\ Overlooked <=> New("unitFile") /\ ~New("daemon")
    /\ service = "dnsmasq" => (NeedConfig <=> ~New("file")) /\ (Complete <=> New("file"))
    /\ service \in Plain => ~NeedConfig /\ Complete

LEMMA ChecksKnown == Checks
BY PiecesKnown DEF Checks, NeedConfig, Complete, Overlooked, CheckedBy

LEMMA ChecksKnownNext == Checks'
BY ChecksKnown, PTL

-------------------------------------------------------------------------------
(* What the jobs do to the unit, of which the queue q is what was heard.      *)
Passed(s, q) ==      \* a passing state, signalled or merged with the next
    /\ unit' = s
    /\ current' = IF s = "activating" THEN Complete ELSE current
    /\ \/ subscribed /\ Len(q) < MaxSignals /\ signals' = Append(q, s)
       \/ signals' = q

Stayed(q) == UNCHANGED <<unit, current>> /\ signals' = q

LEMMA StartSteps ==
    ASSUME NEW q, StartJob(q)
    PROVE  \/ unit \in {"inactive", "failed"} /\ Passed("activating", q) /\ ~again'
           \/ unit \notin {"inactive", "failed"} /\ Stayed(q) /\ (again' <=> unit = "deactivating")
BY Zenon DEF StartJob, Become, Stay, Passed, Stayed

LEMMA StopSteps ==
    ASSUME NEW q, StopJob(q)
    PROVE  /\ again' = FALSE
           /\ \/ unit \in {"active", "activating"} /\ Passed("deactivating", q)
              \/ unit \notin {"active", "activating"} /\ Stayed(q)
BY Zenon DEF StopJob, Become, Stay, Passed, Stayed

LEMMA RestartSteps ==
    ASSUME NEW q, unit \in States, RestartJob(q)
    PROVE  \/ unit \in {"active", "activating"} /\ Passed("deactivating", q) /\ again' = TRUE
           \/ unit \in {"inactive", "failed"} /\ Passed("activating", q) /\ again' = FALSE
           \/ unit = "deactivating" /\ Stayed(q) /\ again' = TRUE
BY DEF RestartJob, Become, Stay, Passed, Stayed, States

\* A job that ends, or a unit that dies, settles it, and that is signalled.
Settles ==
    /\ unit' \in {"active", "failed", "inactive"} /\ UNCHANGED current
    /\ IF subscribed THEN Len(signals) < MaxSignals /\ signals' = Append(signals, unit')
                     ELSE UNCHANGED signals

LEMMA EndSteps ==
    ASSUME TypeOK, JobEnds \/ UnitDies
    PROVE  \/ /\ unit = "deactivating" /\ again /\ again' = FALSE
              /\ Passed("activating", signals)
           \/ /\ again' = again /\ Settles
              /\ unit' = "active" => unit = "activating"
              /\ unit' = "inactive" => ~again
<1>1. CASE UnitDies
    BY <1>1 DEF UnitDies, Become, Settles
<1>2. CASE JobEnds
    BY <1>2 DEF JobEnds, Become, Settles, Passed
<1> QED BY <1>1, <1>2

-------------------------------------------------------------------------------
(* Every step keeps every variable in its type.                               *)
LEMMA BoundsKnown ==
    MaxSignals \in Nat /\ MaxOutside \in Nat /\ MaxFaults \in Nat /\ MaxRestarts \in Nat
BY BoundsAssumption, Zenon

LEMMA BooleansStep ==
    TypeOK /\ [Next]_vars =>
        /\ forceStop' \in BOOLEAN /\ autoStart' \in BOOLEAN /\ masked' \in BOOLEAN
        /\ enabled' \in BOOLEAN /\ subscribed' \in BOOLEAN /\ failed' \in BOOLEAN
        /\ reloaded' \in BOOLEAN /\ unseen' \in BOOLEAN /\ gaveUp' \in BOOLEAN
        /\ missed' \in BOOLEAN
<1> DEFINE Goal == /\ forceStop \in BOOLEAN /\ autoStart \in BOOLEAN /\ masked \in BOOLEAN
                   /\ enabled \in BOOLEAN /\ subscribed \in BOOLEAN /\ failed \in BOOLEAN
                   /\ reloaded \in BOOLEAN /\ unseen \in BOOLEAN /\ gaveUp \in BOOLEAN
                   /\ missed \in BOOLEAN
<1> SUFFICES ASSUME TypeOK, [Next]_vars PROVE Goal'
    OBVIOUS
<1>0. Goal
    BY DEF TypeOK
<1> USE <1>0 DEF fixed, files, handler, job, Phase
<1>1. CASE JobEnds \/ UnitDies \/ StartedOutside
    BY <1>1, Zenon DEF JobEnds, UnitDies, StartedOutside
<1>2. CASE Setup
    <2>1. CASE Unmask \/ AutoStart \/ Mask
        BY <2>1, Zenon DEF Unmask, AutoStart, Mask, IsAutoStart
    <2>2. CASE Subscribe
        <3>1. (unit \in {"active", "failed"}) \in BOOLEAN
            OBVIOUS
        <3>2. unseen' \in BOOLEAN /\ subscribed' \in BOOLEAN
            BY <2>2, <3>1, Zenon DEF Subscribe
        <3> QED BY <2>2, <3>2, SMT DEF Subscribe
    <2>3. CASE Config \/ Write
        BY <2>3, Zenon DEF Config, Write
    <2>4. CASE Reload
        BY <2>4 DEF Reload
    <2>5. CASE Wait
        BY <2>5 DEF Wait
    <2>6. CASE Set
        BY <2>6 DEF Set
    <2> QED BY <1>2, <2>1, <2>2, <2>3, <2>4, <2>5, <2>6 DEF Setup
<1>3. CASE SetupRaises \/ Restarted
    BY <1>3, Zenon DEF SetupRaises, Restarted, Interrupt
<1>4. CASE Loop
    BY <1>4, Zenon DEF Loop, OnRepeated, OnFailed, OnActive, OnOtherState, Take
<1>5. CASE UNCHANGED vars
    BY <1>5, Zenon DEF vars
<1> QED BY <1>1, <1>2, <1>3, <1>4, <1>5 DEF Next

LEMMA CountersStep ==
    TypeOK /\ [Next]_vars => /\ outside' \in 0..MaxOutside /\ faults' \in 0..MaxFaults
                             /\ restarts' \in 0..MaxRestarts
<1> SUFFICES ASSUME TypeOK, [Next]_vars
             PROVE  /\ outside' \in 0..MaxOutside /\ faults' \in 0..MaxFaults
                    /\ restarts' \in 0..MaxRestarts
    OBVIOUS
<1>1. outside \in 0..MaxOutside /\ faults \in 0..MaxFaults /\ restarts \in 0..MaxRestarts
    BY DEF TypeOK
<1>2. outside' = outside \/ (outside < MaxOutside /\ outside' = outside + 1)
    BY Zenon DEF Next, JobEnds, UnitDies, StartedOutside, Setup, Unmask, AutoStart, Mask,
        Subscribe, Config, Write, Reload, Wait, Set, Phase, SetupRaises, Restarted, Loop,
        OnRepeated, OnFailed, OnActive, OnOtherState, Take, vars
<1>3. faults' = faults \/ Fault
    BY Zenon DEF Next, JobEnds, UnitDies, StartedOutside, Setup, Unmask, AutoStart, Mask,
        Subscribe, Config, Write, Reload, Wait, Set, Phase, SetupRaises, Restarted, Loop,
        OnRepeated, OnFailed, OnActive, OnOtherState, Take, vars
<1>4. restarts' = restarts \/ (restarts < MaxRestarts /\ restarts' = restarts + 1)
    BY Zenon DEF Next, JobEnds, UnitDies, StartedOutside, Setup, Unmask, AutoStart, Mask,
        Subscribe, Config, Write, Reload, Wait, Set, Phase, SetupRaises, Restarted, Loop,
        OnRepeated, OnFailed, OnActive, OnOtherState, Take, fixed, vars
<1> QED BY <1>1, <1>2, <1>3, <1>4, BoundsKnown DEF Fault

\* The types of what a job touches.
JobTypeOK ==
    /\ unit \in States /\ again \in BOOLEAN
    /\ signals \in Seq(States) /\ Len(signals) <= MaxSignals
    /\ merged \in BOOLEAN /\ current \in BOOLEAN

LEMMA JobTypes ==
    ASSUME TypeOK, NEW q \in Seq(States), Len(q) <= MaxSignals
    PROVE  /\ Stay(q) /\ (again' = again \/ again' \in BOOLEAN) => JobTypeOK'
           /\ \A s \in States : Become(s, q) /\ (again' = again \/ again' \in BOOLEAN) => JobTypeOK'
           /\ StartJob(q) \/ StopJob(q) \/ RestartJob(q) => JobTypeOK'
<1>0. JobTypeOK
    BY DEF TypeOK, JobTypeOK
<1>1. Stay(q) /\ (again' = again \/ again' \in BOOLEAN) => JobTypeOK'
    BY <1>0 DEF Stay, JobTypeOK
<1>2. ASSUME NEW s \in States, Become(s, q), again' = again \/ again' \in BOOLEAN
      PROVE  JobTypeOK'
    <2>1. merged' \in BOOLEAN /\ current' \in BOOLEAN
        BY <1>0, <1>2, Zenon DEF Become, JobTypeOK, Complete
    <2>2. signals' \in Seq(States) /\ Len(signals') <= MaxSignals
        BY <1>2, Appended, BoundsKnown DEF Become
    <2> QED BY <1>0, <1>2, <2>1, <2>2 DEF Become, JobTypeOK
<1>3. (unit = "deactivating") \in BOOLEAN
    OBVIOUS
<1>4. StartJob(q) => again' \in BOOLEAN /\ (Stay(q) \/ Become("activating", q))
    BY <1>3, Zenon DEF StartJob
<1>5. StopJob(q) => again' \in BOOLEAN /\ (Stay(q) \/ Become("deactivating", q))
    BY Zenon DEF StopJob
<1>6. RestartJob(q) => /\ again' \in BOOLEAN
                       /\ Stay(q) \/ Become("deactivating", q) \/ Become("activating", q)
    BY <1>0 DEF RestartJob, JobTypeOK, States
<1>7. "activating" \in States /\ "deactivating" \in States
    BY DEF States
<1> QED BY <1>1, <1>2, <1>4, <1>5, <1>6, <1>7

LEMMA JobStep == TypeOK /\ [Next]_vars => JobTypeOK'
<1> SUFFICES ASSUME TypeOK, [Next]_vars PROVE JobTypeOK'
    OBVIOUS
<1>0. JobTypeOK /\ signals \in Seq(States) /\ Len(signals) <= MaxSignals /\ MaxSignals \in Nat
    BY BoundsKnown DEF TypeOK, JobTypeOK
<1>1. UNCHANGED job => JobTypeOK'
    BY <1>0 DEF job, JobTypeOK
<1>2. CASE JobEnds \/ UnitDies
    <2>1. /\ again' = again \/ again' = FALSE
          /\ \E s \in States : Become(s, signals)
        BY <1>2 DEF JobEnds, UnitDies, States
    <2> QED BY <1>0, <2>1, JobTypes
<1>3. CASE StartedOutside \/ AutoStart
    BY <1>0, <1>3, JobTypes DEF StartedOutside, AutoStart
<1>4. CASE Subscribe
    BY <1>0, <1>4 DEF Subscribe, JobTypeOK
<1>5. CASE Reload
    BY <1>0, <1>1, <1>5, JobTypes DEF Reload
<1>6. CASE Restarted
    <2>1. /\ again' \in BOOLEAN /\ merged' \in BOOLEAN /\ current' \in BOOLEAN
          /\ unit' = unit /\ signals' = <<>>
        BY <1>0, <1>6, Zenon DEF Restarted, JobTypeOK
    <2>2. <<>> \in Seq(States) /\ Len(<<>>) = 0
        OBVIOUS
    <2> QED BY <1>0, <2>1, <2>2, SMT DEF JobTypeOK
<1>7. CASE Loop
    <2> DEFINE q == Tail(signals)
    <2>1. q \in Seq(States) /\ Len(q) <= MaxSignals
        <3>1. signals # <<>>
            BY <1>7 DEF Loop, OnRepeated, OnFailed, OnActive, OnOtherState, Take
        <3> QED BY <1>0, <3>1, Taken
    <2>2. \/ Stay(q) /\ again' = again
          \/ StopJob(q) \/ RestartJob(q)
        BY <1>7, Zenon DEF Loop, OnRepeated, OnFailed, OnActive, OnOtherState
    <2> HIDE DEF q
    <2> QED BY <2>1, <2>2, JobTypes
<1> QED BY <1>1, <1>2, <1>3, <1>4, <1>5, <1>6, <1>7
        DEF Next, Setup, Unmask, Mask, Config, Write, Wait, Set, SetupRaises, vars

LEMMA FilesTypeStep == TypeOK /\ FilesInv /\ [Next]_vars => FilesTypeOK'
<1> SUFFICES ASSUME TypeOK, FilesInv, [Next]_vars PROVE FilesTypeOK'
    OBVIOUS
<1>0. FilesTypeOK /\ service \in {"avahi", "wpa_supplicant", "dnsmasq"} \cup Plain
    BY DEF TypeOK, FilesTypeOK, Configured
<1>1. CASE UNCHANGED fileVars
    BY <1>0, <1>1 DEF fileVars, FilesTypeOK, Pieces
<1>2. CASE Config /\ NeedConfig
    BY <1>0, <1>2, PiecesKnown, NextStepKnown, ChecksKnown
        DEF Checks, Config, BeginWriting, FilesTypeOK, New
<1>3. CASE Write
    BY <1>0, <1>3, PiecesKnown, NextStepKnown
        DEF Write, WritePiece, AfterStep, FilesTypeOK, New
<1>4. CASE SetupRaises \/ Restarted
    BY <1>0, <1>4, PiecesKnown
        DEF SetupRaises, Restarted, Interrupt, Interrupted, FilesTypeOK
<1> QED BY <1>1, <1>2, <1>3, <1>4, Zenon
        DEF Next, JobEnds, UnitDies, StartedOutside, Setup, Unmask, AutoStart, Mask,
            Subscribe, Config, Reload, Wait, Set, Loop, OnRepeated, OnFailed, OnActive,
            OnOtherState, Take, files, vars

LEMMA TypeStep == TypeOK /\ FilesInv /\ [Next]_vars => TypeOK'
<1> SUFFICES ASSUME TypeOK, FilesInv, [Next]_vars PROVE TypeOK'
    OBVIOUS
<1>1. pc' \in Places
    <2>1. pc \in Places
        BY DEF TypeOK
    <2>2. CASE UNCHANGED pc
        BY <2>1, <2>2
    <2>3. CASE Setup
        BY <2>1, <2>3 DEF Setup, Unmask, AutoStart, Mask, Subscribe, Config, Write, Reload,
                          Wait, Set, Phase, Places
    <2> QED BY <2>2, <2>3
            DEF Next, JobEnds, UnitDies, StartedOutside, SetupRaises, Restarted, Loop,
                OnRepeated, OnFailed, OnActive, OnOtherState, Take, Places, vars
<1>2. lastState' \in States \cup {"none"}
    <2>1. lastState \in States \cup {"none"} /\ signals \in Seq(States)
        BY DEF TypeOK
    <2>2. CASE Loop
        <3>1. signals # <<>>
            BY <2>2 DEF Loop, OnRepeated, OnFailed, OnActive, OnOtherState, Take
        <3>2. Head(signals) \in States
            BY <2>1, <3>1, Taken
        <3> QED BY <2>1, <2>2, <3>2
                DEF Loop, OnRepeated, OnFailed, OnActive, OnOtherState, handler, States,
                    Signalled
    <2> QED BY <2>1, <2>2
            DEF Next, JobEnds, UnitDies, StartedOutside, Setup, Unmask, AutoStart, Mask,
                Subscribe, Config, Write, Reload, Wait, Set, Phase, SetupRaises,
                Restarted, handler, vars
<1> QED BY <1>1, <1>2, BooleansStep, CountersStep, JobStep, FilesTypeStep
        DEF TypeOK, JobTypeOK

-------------------------------------------------------------------------------
(* Until setup connects the handler, and again after a restart, nothing is    *)
(* heard; what was signalled while it is connected is handled or waits.       *)
LEMMA ConnectedStep == TypeOK /\ Connected /\ [Next]_vars => Connected'
<1> SUFFICES ASSUME TypeOK, Connected, [Next]_vars PROVE Connected'
    OBVIOUS
<1> USE DEF Connected
<1>0. unit \in States
    BY DEF TypeOK
<1>1. ASSUME UNCHANGED <<subscribed, lastState>>, ~subscribed
      PROVE  StartJob(signals) \/ StopJob(signals) \/ RestartJob(signals) => signals' = <<>>
    <2>1. \A s : Passed(s, signals) => signals' = <<>>
        BY <1>1 DEF Passed
    <2>2. Stayed(signals) => signals' = <<>>
        BY <1>1 DEF Stayed
    <2> QED BY <1>0, <2>1, <2>2, StartSteps, StopSteps, RestartSteps, Zenon
<1>2. CASE JobEnds \/ UnitDies
    <2>1. UNCHANGED <<pc, subscribed, lastState>>
        BY <1>2 DEF JobEnds, UnitDies, handler
    <2>2. Passed("activating", signals) \/ Settles
        BY <1>2, EndSteps
    <2> QED BY <2>1, <2>2 DEF Passed, Settles
<1>3. CASE StartedOutside
    BY <1>3, <1>1 DEF StartedOutside, handler
<1>4. CASE Setup
    <2>1. CASE Unmask \/ Mask \/ Config \/ Write \/ Wait \/ Set
        BY <2>1 DEF Unmask, Mask, Config, Write, Wait, Set, Phase, job
    <2>2. CASE AutoStart
        BY <1>1, <2>2 DEF AutoStart, Phase
    <2>3. CASE Subscribe
        BY <2>3 DEF Subscribe, Phase
    <2>4. CASE Reload
        BY <1>1, <2>4 DEF Reload, Phase, job
    <2> QED BY <1>4, <2>1, <2>2, <2>3, <2>4 DEF Setup
<1>5. CASE SetupRaises \/ Restarted
    BY <1>5 DEF SetupRaises, Restarted, handler, job
<1>6. CASE Loop
    BY <1>6 DEF Loop, OnRepeated, OnFailed, OnActive, OnOtherState, Take
<1>7. CASE UNCHANGED vars
    BY <1>7 DEF vars, handler, job
<1> QED BY <1>2, <1>3, <1>4, <1>5, <1>6, <1>7 DEF Next

(* What a handled signal does: it is recorded, and the unit stays as it was or *)
(* is stopped or restarted; or the handler gives up.                          *)
Handled ==
    /\ signals # <<>> /\ subscribed' = subscribed
    /\ gaveUp => gaveUp'
    /\ \/ Stayed(Tail(signals))
       \/ RestartJob(Tail(signals)) /\ Head(signals) = "failed" /\ ~forceStop
       \/ StopJob(Tail(signals)) /\ Head(signals) = "active" /\ forceStop
    /\ gaveUp' \/ lastState' = Head(signals)
    /\ Head(signals) = "failed" =>
         gaveUp' \/ (RestartJob(Tail(signals)) /\ Head(signals) = "failed" /\ ~forceStop)
    /\ Head(signals) = "active" /\ forceStop /\ lastState # "active" =>
         gaveUp' \/ (StopJob(Tail(signals)) /\ Head(signals) = "active" /\ forceStop)

LEMMA LoopSteps == ASSUME TypeOK, Loop PROVE Handled
<1>0. signals # <<>> /\ subscribed' = subscribed
    BY DEF Loop, OnRepeated, OnFailed, OnActive, OnOtherState, Take
<1> USE DEF Stay, Stayed, Signalled, handler
<1>1. CASE OnRepeated
    BY <1>0, <1>1, Zenon DEF OnRepeated, Handled
<1>2. CASE OnFailed
    BY <1>0, <1>2 DEF OnFailed, Handled
<1>3. CASE OnActive
    BY <1>0, <1>3 DEF OnActive, Handled
<1>4. CASE OnOtherState
    BY <1>0, <1>4 DEF OnOtherState, Handled
<1> QED BY <1>1, <1>2, <1>3, <1>4 DEF Loop

\* What stays for the handler in every other step.
Unheard == UNCHANGED <<unit, again, signals, subscribed, unseen, lastState, gaveUp>>

\* Where else a job is put on or ends.
Jobs ==
    /\ UNCHANGED <<subscribed, unseen, lastState, gaveUp>>
    /\ \/ JobEnds \/ UnitDies
       \/ StartJob(signals) /\ (unit = "inactive" \/ IsAutoStart)
       \/ StopJob(signals)
       \/ RestartJob(signals) /\ IsAutoStart

LEMMA HandlerSteps ==
    ASSUME TypeOK, [Next]_vars
    PROVE  Unheard \/ Jobs \/ Subscribe \/ Loop \/ Restarted
<1>1. CASE JobEnds \/ UnitDies
    BY <1>1 DEF JobEnds, UnitDies, Jobs, handler
<1>2. CASE StartedOutside
    BY <1>2 DEF StartedOutside, Jobs, handler
<1>3. CASE AutoStart
    BY <1>3 DEF AutoStart, Phase, Jobs
<1>4. CASE Reload
    BY <1>4 DEF Reload, Phase, Jobs, Unheard, job
<1> QED BY <1>1, <1>2, <1>3, <1>4
        DEF Next, Setup, Unmask, Mask, Config, Write, Wait, Set, Phase, SetupRaises, vars,
            handler, job, Unheard

(* A failure that the handler has not answered is at the end of the queue: it *)
(* is answered when it is taken, by a restart or by giving up.                *)
LEMMA FailureStep == TypeOK /\ Connected /\ FailureHeard /\ [Next]_vars => FailureHeard'
<1> SUFFICES ASSUME TypeOK, Connected, FailureHeard, [Next]_vars,
                    subscribed', unit' = "failed", ~gaveUp'
             PROVE  IF signals' = <<>> THEN unseen' ELSE signals'[Len(signals')] = "failed"
    BY DEF FailureHeard, Heard
<1>0. signals \in Seq(States) /\ unit \in States /\ "failed" \in States
    BY DEF TypeOK, States
<1>1. CASE Unheard
    BY <1>1 DEF Unheard, FailureHeard, Heard
<1>2. CASE Jobs
    <2>1. CASE JobEnds \/ UnitDies
        <3>1. signals' = Append(signals, "failed")
            BY <1>2, <2>1, EndSteps DEF Jobs, Passed, Settles
        <3> QED BY <1>0, <3>1, Appended
    <2>2. CASE StartJob(signals) \/ StopJob(signals) \/ RestartJob(signals)
        <3>1. Stayed(signals)
            BY <1>0, <2>2, StartSteps, StopSteps, RestartSteps DEF Passed
        <3> QED BY <1>2, <3>1 DEF Jobs, Stayed, FailureHeard, Heard
    <2> QED BY <1>2, <2>1, <2>2 DEF Jobs
<1>3. CASE Subscribe
    BY <1>3 DEF Subscribe, Phase, Connected
<1>4. CASE Loop
    <2>1. Handled
        BY <1>4, LoopSteps
    <2>2. ~RestartJob(Tail(signals)) \/ Stayed(Tail(signals))
        BY <1>0, RestartSteps DEF Passed
    <2>3. ~StopJob(Tail(signals)) \/ Stayed(Tail(signals))
        BY StopSteps DEF Passed
    <2>4. Stayed(Tail(signals)) /\ signals # <<>> /\ subscribed /\ unit = "failed" /\ ~gaveUp
        BY <2>1, <2>2, <2>3 DEF Handled, Stayed
    <2>5. signals[Len(signals)] = "failed"
        BY <2>4 DEF FailureHeard, Heard
    <2>6. CASE Tail(signals) = <<>>
        <3>1. Head(signals) = "failed"
            BY <1>0, <2>4, <2>5, <2>6, Taken
        <3>2. RestartJob(Tail(signals))
            BY <2>1, <3>1 DEF Handled
        <3> QED BY <2>4, <3>2, RestartSteps, <1>0 DEF Passed
    <2>7. CASE Tail(signals) # <<>>
        BY <1>0, <2>4, <2>5, <2>7, Taken DEF Stayed
    <2> QED BY <2>6, <2>7
<1>5. CASE Restarted
    BY <1>5 DEF Restarted
<1> QED BY <1>1, <1>2, <1>3, <1>4, <1>5, HandlerSteps

(* A service to be stopped by force is never put on again by the program, so   *)
(* it comes up only once another start was heard of in between.               *)
LEMMA UpStep == TypeOK /\ Connected /\ UpIsNews /\ [Next]_vars => UpIsNews'
<1> SUFFICES ASSUME TypeOK, Connected, UpIsNews, [Next]_vars, forceStop'
             PROVE  /\ ~again'
                    /\ Heard("active")'
                    /\ subscribed' /\ ~gaveUp' =>
                        /\ unit' \in {"inactive", "failed", "activating"} =>
                             LastOf(lastState', signals') # "active"
                        /\ NoRepeat(lastState', signals')
    BY DEF UpIsNews
<1>0. signals \in Seq(States) /\ unit \in States /\ States = {"inactive", "activating",
      "active", "deactivating", "failed"}
    BY DEF TypeOK, States
<1>1. forceStop /\ ~IsAutoStart
    <2>1. forceStop' = forceStop
        BY Zenon DEF Next, JobEnds, UnitDies, StartedOutside, Setup, Unmask, AutoStart,
            Mask, Subscribe, Config, Write, Reload, Wait, Set, Phase, SetupRaises,
            Restarted, Loop, OnRepeated, OnFailed, OnActive, OnOtherState, Take, fixed, vars
    <2> QED BY <2>1 DEF IsAutoStart
<1>2. /\ ~again /\ Heard("active")
      /\ subscribed /\ ~gaveUp =>
          /\ unit \in {"inactive", "failed", "activating"} =>
               LastOf(lastState, signals) # "active"
          /\ NoRepeat(lastState, signals)
    BY <1>1 DEF UpIsNews
<1>3. CASE Unheard
    BY <1>2, <1>3 DEF Unheard, Heard
<1>4. CASE Jobs
    <2>0. UNCHANGED <<subscribed, unseen, lastState, gaveUp>>
        BY <1>4 DEF Jobs
    <2>1. CASE JobEnds \/ UnitDies
        <3>1. /\ again' = again /\ Settles
              /\ unit' = "active" => unit = "activating"
            BY <1>2, <2>1, EndSteps
        <3>2. CASE subscribed
            <4>1. signals' = Append(signals, unit') /\ unit' \in States
                BY <1>0, <3>1, <3>2 DEF Settles
            <4> QED BY <1>0, <1>2, <2>0, <3>1, <4>1, Appended DEF Heard
        <3> QED BY <1>2, <2>0, <3>1, <3>2 DEF Heard
    <2>2. CASE StartJob(signals) /\ unit = "inactive"
        <3>1. Passed("activating", signals) /\ ~again'
            BY <2>2, StartSteps DEF Stayed
        <3>2. CASE signals' = signals
            BY <1>2, <2>0, <2>2, <3>1, <3>2 DEF Passed, Heard
        <3>3. CASE signals' = Append(signals, "activating")
            BY <1>0, <1>2, <2>0, <2>2, <3>1, <3>3, Appended DEF Passed, Heard
        <3> QED BY <3>1, <3>2, <3>3 DEF Passed
    <2>3. CASE StopJob(signals)
        <3>1. /\ again' = FALSE
              /\ Passed("deactivating", signals) \/ Stayed(signals)
            BY <2>3, StopSteps
        <3>2. CASE Stayed(signals)
            BY <1>2, <2>0, <3>1, <3>2 DEF Stayed, Heard
        <3>3. CASE Passed("deactivating", signals) /\ signals' = signals
            BY <1>2, <2>0, <3>1, <3>3 DEF Passed, Heard
        <3>4. CASE Passed("deactivating", signals) /\ signals' = Append(signals, "deactivating")
            BY <1>0, <1>2, <2>0, <3>1, <3>4, Appended DEF Passed, Heard
        <3> QED BY <3>1, <3>2, <3>3, <3>4 DEF Passed
    <2> QED BY <1>1, <1>4, <2>1, <2>2, <2>3 DEF Jobs
<1>5. CASE Subscribe
    <2>1. signals' = <<>> /\ lastState' = "none" /\ again' = again /\ unit' = unit
        BY <1>5 DEF Subscribe, Phase, Connected
    <2>2. unit = "active" => unseen'
        BY <1>5 DEF Subscribe
    <2>3. LastOf("none", <<>>) = "none" /\ NoRepeat("none", <<>>)
        BY DEF LastOf, NoRepeat
    <2> QED BY <1>2, <2>1, <2>2, <2>3 DEF Heard
<1>6. CASE Loop
    <2> DEFINE q == Tail(signals)
    <2>0. Handled /\ signals # <<>>
        BY <1>6, LoopSteps DEF Handled
    <2>1. q \in Seq(States) /\ Head(signals) \in States
        BY <1>0, <2>0, Taken
    <2>2. \/ Stayed(q) /\ again' = again
          \/ again' = FALSE /\ (Stayed(q) \/ Passed("deactivating", q))
        <3>1. StopJob(q) => again' = FALSE /\ (Stayed(q) \/ Passed("deactivating", q))
            BY StopSteps
        <3> QED BY <1>1, <1>6, <3>1, Zenon
                DEF Loop, OnRepeated, OnFailed, OnActive, OnOtherState, Stay, Stayed
    <2>3. ASSUME subscribed', ~gaveUp'
          PROVE  /\ subscribed /\ ~gaveUp /\ lastState' = Head(signals)
                 /\ LastOf(Head(signals), q) = LastOf(lastState, signals)
                 /\ NoRepeat(Head(signals), q)
                 /\ lastState = "active" => Head(signals) # "active"
        BY <1>0, <1>2, <2>0, <2>3, Taken DEF Handled
    <2>4. ASSUME Stayed(q) PROVE Heard("active")'
        <3> SUFFICES ASSUME subscribed', ~gaveUp', unit = "active"
                     PROVE  q # <<>> /\ q[Len(q)] = "active"
            BY <2>4 DEF Stayed, Heard
        <3>1. signals[Len(signals)] = "active"
            BY <1>2, <2>0, <2>3 DEF Heard
        <3>2. q # <<>>
            <4> SUFFICES ASSUME q = <<>> PROVE FALSE
                OBVIOUS
            <4>1. Head(signals) = "active"
                BY <1>0, <2>0, <3>1, Taken
            <4>2. StopJob(q)
                BY <1>1, <2>0, <2>3, <4>1 DEF Handled
            <4> QED BY <2>4, <4>2, StopSteps DEF Stayed, Passed
        <3> QED BY <1>0, <2>0, <3>1, <3>2, Taken
    <2> HIDE DEF q
    <2>5. CASE Stayed(q)
        BY <1>2, <2>2, <2>3, <2>4, <2>5 DEF Stayed
    <2>6. CASE Passed("deactivating", q) /\ again' = FALSE
        <3>1. CASE signals' = q
            BY <2>3, <2>6, <3>1 DEF Passed, Heard
        <3>2. CASE signals' = Append(q, "deactivating")
            BY <1>0, <2>1, <2>3, <2>6, <3>2, Appended DEF Passed, Heard
        <3> QED BY <2>6, <3>1, <3>2 DEF Passed
    <2> QED BY <2>2, <2>5, <2>6
<1>7. CASE Restarted
    BY <1>2, <1>7 DEF Restarted, Heard
<1> QED BY <1>3, <1>4, <1>5, <1>6, <1>7, HandlerSteps

-------------------------------------------------------------------------------
(* What a step does to the files: it writes the next piece, or it begins, or   *)
(* an interruption ends the writing; else they stay, and so does a setup that *)
(* is at writing them.                                                        *)
FilesStay ==
    /\ UNCHANGED <<service, piece, step, missed>>
    /\ step # 0 => pc' = pc

LEMMA FileSteps ==
    ASSUME TypeOK, FilesInv, [Next]_vars
    PROVE  FilesStay \/ (Config /\ NeedConfig) \/ Write \/ SetupRaises \/ Restarted
<1>1. CASE JobEnds \/ UnitDies \/ StartedOutside \/ Loop \/ UNCHANGED vars
    BY <1>1 DEF JobEnds, UnitDies, StartedOutside, Loop, OnRepeated, OnFailed, OnActive,
        OnOtherState, Take, files, fileVars, vars, FilesStay
<1>2. CASE Setup /\ ~Write /\ ~(Config /\ NeedConfig)
    BY <1>2 DEF Setup, Unmask, AutoStart, Mask, Subscribe, Config, Reload, Wait, Set, Phase,
        files, fileVars, FilesStay, FilesInv
<1> QED BY <1>1, <1>2 DEF Next, Setup

LEMMA InterruptSteps ==
    ASSUME TypeOK, SetupRaises \/ Restarted
    PROVE  /\ step' = 0 /\ service' = service
           /\ piece' = piece \/ /\ step # 0 /\ Pieces(service)[step] \notin Commands
                                /\ piece' = [piece EXCEPT ![Pieces(service)[step]] = "torn"]
           /\ missed => missed'
           /\ pc = "write" /\ (Overlooked' \/ ~NeedConfig') => missed'
           /\ pc' \in {"unmask", "error"} /\ unit' = unit /\ current' = current
<1>1. PICK killed \in BOOLEAN : Interrupt(killed)
    BY DEF SetupRaises, Restarted
<1>2. /\ missed => missed'
      /\ pc = "write" /\ (Overlooked' \/ ~NeedConfig') => missed'
    BY <1>1, Zenon DEF Interrupt
<1>3. /\ step' = 0 /\ service' = service
      /\ piece' = piece \/ /\ step # 0 /\ Pieces(service)[step] \notin Commands
                           /\ piece' = [piece EXCEPT ![Pieces(service)[step]] = "torn"]
    BY <1>1 DEF Interrupt, Interrupted
<1>4. pc' \in {"unmask", "error"} /\ unit' = unit /\ current' = current
    BY DEF SetupRaises, Restarted, job
<1> QED BY <1>2, <1>3, <1>4

(* Avahi: the files after the host name are written in their turn, or a setup *)
(* that was interrupted there has left them for good.                         *)
LEMMA AvahiStep == TypeOK /\ FilesInv /\ [Next]_vars => AvahiWritten'
<1> SUFFICES ASSUME TypeOK, FilesInv, [Next]_vars, service' = "avahi" PROVE AvahiWritten'
    BY DEF AvahiWritten
<1>0. service = "avahi"
    BY FileSteps, InterruptSteps
        DEF FilesStay, Config, Write, BeginWriting, WritePiece
<1>1. /\ piece \in [AllPieces -> {"old", "new", "torn"}] /\ step \in 0..4
      /\ step # 0 => pc = "write"
    BY <1>0, PiecesKnown DEF TypeOK, FilesTypeOK, FilesInv
<1>2. AvahiWritten
    BY DEF FilesInv
<1>3. Checks /\ Checks'
    BY ChecksKnown, ChecksKnownNext
<1> USE <1>0, <1>1, <1>3, PiecesKnown DEF AvahiWritten, Writing, Checks, New
<1>4. CASE FilesStay
    BY <1>2, <1>4 DEF FilesStay
<1>5. CASE Config /\ NeedConfig
    BY <1>2, <1>5, NextStepKnown DEF Config, BeginWriting, Phase
<1>6. CASE Write
    <2>1. /\ step # 0 /\ missed' = missed /\ pc' = "write" /\ step' = AfterStep
          /\ piece' = [piece EXCEPT ![Pieces(service)[step]] =
                        IF @ = "torn" /\ Pieces(service)[step] \in Edited THEN "torn" ELSE "new"]
        BY <1>6 DEF Write, WritePiece, Phase
    <2>2. AfterStep = IF step = 4 THEN 0 ELSE step + 1
        BY <2>1, NextStepKnown DEF AfterStep
    <2>3. CASE step = 1
        BY <1>2, <2>1, <2>2, <2>3 DEF Edited
    <2>4. CASE step = 2
        BY <1>2, <2>1, <2>2, <2>4 DEF Edited
    <2>5. CASE step = 3
        BY <1>2, <2>1, <2>2, <2>5 DEF Edited
    <2>6. CASE step = 4
        BY <1>2, <2>1, <2>2, <2>6 DEF Edited
    <2> QED BY <2>1, <2>3, <2>4, <2>5, <2>6
<1>7. CASE SetupRaises \/ Restarted
    <2>1. CASE step = 0
        BY <1>2, <1>7, <2>1, InterruptSteps
    <2>2. CASE step \in {1, 2}
        BY <1>2, <1>7, <2>2, InterruptSteps DEF Commands
    <2>3. CASE step \in {3, 4}
        BY <1>2, <1>7, <2>3, InterruptSteps DEF Commands
    <2> QED BY <2>1, <2>2, <2>3
<1> QED BY <1>4, <1>5, <1>6, <1>7, FileSteps

(* wpa_supplicant: systemd is told of the new unit file, or an interrupted    *)
(* setup has left it untold for good.                                         *)
LEMMA WpaStep == TypeOK /\ FilesInv /\ [Next]_vars => WpaWritten'
<1> SUFFICES ASSUME TypeOK, FilesInv, [Next]_vars, service' = "wpa_supplicant"
             PROVE  WpaWritten'
    BY DEF WpaWritten
<1>0. service = "wpa_supplicant"
    BY FileSteps, InterruptSteps
        DEF FilesStay, Config, Write, BeginWriting, WritePiece
<1>1. /\ piece \in [AllPieces -> {"old", "new", "torn"}] /\ step \in 0..3
      /\ step # 0 => pc = "write"
    BY <1>0, PiecesKnown DEF TypeOK, FilesTypeOK, FilesInv
<1>2. WpaWritten
    BY DEF FilesInv
<1>3. Checks /\ Checks'
    BY ChecksKnown, ChecksKnownNext
<1> USE <1>0, <1>1, <1>3, PiecesKnown DEF WpaWritten, Writing, Checks, New
<1>4. CASE FilesStay
    BY <1>2, <1>4 DEF FilesStay
<1>5. CASE Config /\ NeedConfig
    BY <1>2, <1>5, NextStepKnown DEF Config, BeginWriting, Phase
<1>6. CASE Write
    <2>1. /\ step # 0 /\ missed' = missed /\ pc' = "write" /\ step' = AfterStep
          /\ piece' = [piece EXCEPT ![Pieces(service)[step]] =
                        IF @ = "torn" /\ Pieces(service)[step] \in Edited THEN "torn" ELSE "new"]
        BY <1>6 DEF Write, WritePiece, Phase
    <2>2. CASE step = 1
        BY <1>2, <2>1, <2>2 DEF Edited, AfterStep
    <2>3. CASE step = 2
        BY <1>2, <2>1, <2>3, NextStepKnown DEF Edited, AfterStep
    <2>4. CASE step = 3
        BY <1>2, <2>1, <2>4, NextStepKnown DEF Edited, AfterStep
    <2> QED BY <2>1, <2>2, <2>3, <2>4
<1>7. CASE SetupRaises \/ Restarted
    <2>1. CASE step = 0
        BY <1>2, <1>7, <2>1, InterruptSteps
    <2>2. CASE step # 0
        BY <1>2, <1>7, <2>2, InterruptSteps DEF Commands
    <2> QED BY <2>1, <2>2
<1> QED BY <1>4, <1>5, <1>6, <1>7, FileSteps

(* A check that is passed outside the writing finds all of it written, or has  *)
(* overlooked what an interrupted setup left.                                 *)
LEMMA CheckedIsWritten ==
    ASSUME TypeOK, AvahiWritten, WpaWritten, ~Writing, ~NeedConfig
    PROVE  Complete \/ missed
<1>1. service \in {"avahi", "wpa_supplicant", "dnsmasq"} \cup Plain
    BY DEF TypeOK, FilesTypeOK, Configured
<1> QED BY <1>1, ChecksKnown DEF Checks, AvahiWritten, WpaWritten

LEMMA CompleteIsChecked == TypeOK /\ Complete => ~NeedConfig
BY ChecksKnown DEF Checks, TypeOK, FilesTypeOK, Configured

LEMMA CompleteIsCheckedNext == (TypeOK /\ Complete => ~NeedConfig)'
BY CompleteIsChecked, PTL

\* Files that stay are as complete as they were.
LEMMA CompleteStays == UNCHANGED <<service, piece>> => Complete' = Complete
BY DEF Complete, Mine, New, Pieces

LEMMA ConfigWrittenStep == TypeOK /\ FilesInv /\ [Next]_vars => ConfigWritten'
<1> SUFFICES ASSUME TypeOK, FilesInv, [Next]_vars, pc' \in {"wait", "set", "done"}
             PROVE  Complete' \/ missed'
    BY DEF ConfigWritten
<1>1. FilesStay
    BY FileSteps, InterruptSteps DEF Config, Write, Phase
<1>2. UNCHANGED <<Complete, missed>>
    BY <1>1, CompleteStays DEF FilesStay
<1>3. CASE pc \in {"wait", "set", "done"}
    BY <1>2, <1>3 DEF FilesInv, ConfigWritten
<1>4. CASE pc \notin {"wait", "set", "done"}
    <2>1. ~NeedConfig /\ step = 0
        BY <1>4 DEF Next, JobEnds, UnitDies, StartedOutside, Setup, Unmask, AutoStart, Mask,
            Subscribe, Config, Write, Reload, Wait, Set, Phase, SetupRaises, Restarted,
            Loop, OnRepeated, OnFailed, OnActive, OnOtherState, Take, vars, FilesInv
    <2> QED BY <1>2, <2>1, CheckedIsWritten DEF FilesInv, Writing
<1> QED BY <1>3, <1>4

(* A unit that comes up starts on what is there then.                         *)
LEMMA CurrentSteps ==
    ASSUME TypeOK, [Next]_vars, unit' \in {"activating", "active"}
    PROVE  \/ current' = Complete
           \/ unit \in {"activating", "active"} /\ current' = current /\ ~Reload
           \/ unit \in {"activating", "active"} /\ current' = current /\ (NeedConfig \/ ~IsAutoStart)
<1>0. unit \in States
    BY DEF TypeOK
<1>1. CASE UNCHANGED <<unit, current>> /\ ~Reload
    BY <1>1
<1>2. CASE JobEnds \/ UnitDies
    <2>1. ~Reload
        BY <1>2 DEF JobEnds, UnitDies, Reload, Phase
    <2> QED BY <1>2, <2>1, EndSteps DEF Passed, Settles
<1>3. ASSUME NEW q, StartJob(q) PROVE current' = Complete
                                   \/ (unit' = unit /\ current' = current)
    BY <1>3, StartSteps DEF Passed, Stayed
<1>4. ASSUME NEW q, StopJob(q) PROVE unit' = unit /\ current' = current
    BY <1>4, StopSteps DEF Passed, Stayed
<1>5. ASSUME NEW q, RestartJob(q) PROVE current' = Complete
    BY <1>0, <1>5, RestartSteps DEF Passed, Stayed
<1>6. CASE StartedOutside \/ AutoStart
    BY <1>1, <1>3, <1>4, <1>6 DEF StartedOutside, AutoStart, Reload, Phase
<1>7. CASE Reload
    BY <1>5, <1>7 DEF Reload, job
<1>8. CASE Loop
    BY <1>1, <1>4, <1>5, <1>8 DEF Loop, OnRepeated, OnFailed, OnActive, OnOtherState, Stay,
        Take, Reload, Phase
<1> QED BY <1>1, <1>2, <1>6, <1>7, <1>8
        DEF Next, Setup, Unmask, Mask, Subscribe, Config, Write, Wait, Set, Phase,
            SetupRaises, Restarted, Reload, vars, job

\* The configuration is whole only once its last piece is written.
LEMMA WriteEnds ==
    ASSUME TypeOK, FilesInv, Write, Complete'
    PROVE  Complete \/ missed \/ step' = 0
<1>1. service \in {"avahi", "wpa_supplicant", "dnsmasq"} \cup Plain
    BY DEF TypeOK, FilesTypeOK, Configured
<1>2. /\ piece \in [AllPieces -> {"old", "new", "torn"}] /\ step # 0
      /\ step \in 0..Len(Pieces(service)) /\ service' = service /\ step' = AfterStep
      /\ piece' = [piece EXCEPT ![Pieces(service)[step]] =
                    IF @ = "torn" /\ Pieces(service)[step] \in Edited THEN "torn" ELSE "new"]
    BY DEF TypeOK, FilesTypeOK, Write, WritePiece
<1>3. AvahiWritten /\ WpaWritten
    BY DEF FilesInv
<1> USE <1>2, PiecesKnown, NextStepKnown, ChecksKnown, ChecksKnownNext
        DEF Checks, New, AfterStep
<1>4. CASE service = "avahi"
    BY <1>3, <1>4 DEF AvahiWritten, Edited
<1>5. CASE service = "wpa_supplicant"
    BY <1>3, <1>5 DEF WpaWritten, Edited
<1>6. CASE service = "dnsmasq"
    BY <1>6
<1>7. CASE service \in Plain
    BY <1>7
<1> QED BY <1>1, <1>4, <1>5, <1>6, <1>7

LEMMA StartedStep == TypeOK /\ FilesInv /\ [Next]_vars => StartedOnAll'
<1> SUFFICES ASSUME TypeOK, FilesInv, [Next]_vars, IsAutoStart', Complete',
                    unit' \in {"activating", "active"}
             PROVE  current' \/ missed' \/ (pc' = "write" /\ step' = 0)
    BY DEF StartedOnAll
<1>0. IsAutoStart
    <2>1. UNCHANGED <<forceStop, autoStart>>
        BY Zenon DEF Next, JobEnds, UnitDies, StartedOutside, Setup, Unmask, AutoStart,
            Mask, Subscribe, Config, Write, Reload, Wait, Set, Phase, SetupRaises,
            Restarted, Loop, OnRepeated, OnFailed, OnActive, OnOtherState, Take, fixed, vars
    <2> QED BY <2>1 DEF IsAutoStart
<1>1. Complete /\ unit \in {"activating", "active"} =>
        current \/ missed \/ (pc = "write" /\ step = 0)
    BY <1>0 DEF FilesInv, StartedOnAll
<1>2. step # 0 => pc = "write"
    BY DEF FilesInv
<1>3. CASE FilesStay /\ ~SetupRaises /\ ~Restarted
    <2>1. Complete /\ ~NeedConfig
        BY <1>3, CompleteStays, CompleteIsChecked DEF FilesStay
    <2>2. current' = Complete \/ (unit \in {"activating", "active"} /\ current' = current /\ ~Reload)
        BY <1>0, <2>1, CurrentSteps
    <2>3. pc = "write" /\ step = 0 /\ ~Reload => pc' = "write"
        BY <1>3 DEF Next, JobEnds, UnitDies, StartedOutside, Setup, Unmask, AutoStart, Mask,
            Subscribe, Config, Write, Wait, Set, Phase, Loop,
            OnRepeated, OnFailed, OnActive, OnOtherState, Take, vars
    <2> QED BY <1>1, <1>3, <2>1, <2>2, <2>3 DEF FilesStay
<1>4. CASE Config /\ NeedConfig
    <2>1. UNCHANGED <<service, piece>>
        BY <1>4 DEF Config, BeginWriting
    <2> QED BY <1>4, <2>1, CompleteStays, CompleteIsChecked
<1>5. CASE Write
    <2>1. UNCHANGED <<unit, current, missed>> /\ pc' = "write" /\ step # 0
        BY <1>5 DEF Write, Phase, WritePiece, job
    <2> QED BY <1>1, <1>5, <2>1, WriteEnds
<1>6. CASE SetupRaises \/ Restarted
    <2>1. CASE pc = "write"
        BY <1>6, <2>1, InterruptSteps, TypeStep, CompleteIsCheckedNext
    <2>2. CASE pc # "write"
        <3>1. UNCHANGED <<service, piece, unit, current>> /\ (missed => missed')
            BY <1>2, <1>6, <2>2, InterruptSteps
        <3> QED BY <1>1, <2>2, <3>1, CompleteStays
    <2> QED BY <2>1, <2>2
<1> QED BY <1>3, <1>4, <1>5, <1>6, FileSteps

LEMMA FilesStep == TypeOK /\ FilesInv /\ [Next]_vars => FilesInv'
<1> SUFFICES ASSUME TypeOK, FilesInv, [Next]_vars PROVE step' # 0 => pc' = "write"
    BY AvahiStep, WpaStep, StartedStep, ConfigWrittenStep DEF FilesInv
<1> QED BY FileSteps, InterruptSteps
        DEF FilesStay, Config, Write, Phase, FilesInv

-------------------------------------------------------------------------------
LEMMA InitInvariant == Init => IInv
<1> SUFFICES ASSUME Init PROVE IInv
    OBVIOUS
<1>1. TypeOK
    <2>1. FilesTypeOK
        <3>1. Len(Pieces(service)) \in Nat
            BY PiecesKnown DEF Init, FilesInit, Configured
        <3> QED BY <3>1 DEF Init, FilesInit, FilesTypeOK
    <2>2. (Complete \in BOOLEAN) /\ current = Complete
        BY Zenon DEF Init, Complete
    <2>3. /\ forceStop \in BOOLEAN /\ autoStart \in BOOLEAN /\ masked \in BOOLEAN
          /\ enabled \in BOOLEAN /\ again \in BOOLEAN /\ subscribed \in BOOLEAN
          /\ failed \in BOOLEAN /\ reloaded \in BOOLEAN /\ unseen \in BOOLEAN
          /\ merged \in BOOLEAN /\ gaveUp \in BOOLEAN /\ missed \in BOOLEAN
        BY Zenon DEF Init
    <2>4. current \in BOOLEAN
        BY <2>2, Zenon
    <2>5. /\ unit \in States /\ lastState \in States \cup {"none"} /\ pc \in Places
          /\ signals = <<>> /\ outside = 0 /\ faults = 0 /\ restarts = 0
        BY DEF Init, States, Places
    <2>6. signals \in Seq(States) /\ Len(signals) <= MaxSignals
        BY <2>5, BoundsKnown
    <2> QED BY <2>1, <2>3, <2>4, <2>5, <2>6, BoundsKnown DEF TypeOK
<1>2. Connected /\ FailureHeard /\ UpIsNews
    BY DEF Init, Connected, FailureHeard, UpIsNews, Heard, LastOf, NoRepeat
<1>3. FilesInv
    <2>1. PICK state \in {"old", "new"} : piece = [p \in AllPieces |-> state]
        BY DEF Init, FilesInit
    <2>2. AvahiWritten /\ WpaWritten
        BY <2>1, PiecesKnown, ChecksKnown DEF Init, FilesInit, AvahiWritten, WpaWritten, New, Checks
    <2> QED BY <2>2 DEF Init, FilesInit, FilesInv, StartedOnAll, ConfigWritten
<1> QED BY <1>1, <1>2, <1>3 DEF IInv

(* The invariant holds in every behaviour of setup, the handler and systemd,  *)
(* for every service, with any number of faults, outside starts and restarts. *)
THEOREM Invariance == Spec => []IInv
<1>1. Init => IInv
    BY InitInvariant
<1>2. IInv /\ [Next]_vars => IInv'
    BY TypeStep, ConnectedStep, FailureStep, UpStep, FilesStep DEF IInv
<1> QED BY <1>1, <1>2, PTL DEF Spec

(* Every variable keeps its type, the bus's queue its bound and the writing of *)
(* the configuration its place among the service's pieces.                    *)
THEOREM SetupTypeCorrect == Spec => []TypeOK
<1>1. IInv => TypeOK
    BY DEF IInv
<1> QED BY <1>1, Invariance, PTL

(* service.py's set_force_stop: once things settle the unit is not running,   *)
(* whoever started it and however systemd merged its signals, unless the      *)
(* handler gave up or the unit was up before the handler was connected.       *)
THEOREM ForceStopAlwaysHolds == Spec => []ForceStopHolds
<1>1. IInv => ForceStopHolds
    BY DEF IInv, ForceStopHolds, Settled, UpIsNews, Heard, Connected
<1> QED BY <1>1, Invariance, PTL

(* _on_service_state_changed: a failure the handler was told of is answered,  *)
(* by a restart, or by giving up after the second or when the restart raises. *)
THEOREM FailureAlwaysAnswered == Spec => []FailureAnswered
<1>1. IInv => FailureAnswered
    BY DEF IInv, FailureAnswered, Settled, FailureHeard, Heard, Connected
<1> QED BY <1>1, Invariance, PTL

(* Whatever interrupted the setups before it, a setup that gets past the      *)
(* configuration has all of it in place, unless the check overlooks a piece   *)
(* that an interruption left.                                                 *)
THEOREM ConfigAlwaysWritten == Spec => []ConfigWritten
<1>1. IInv => ConfigWritten
    BY DEF IInv, FilesInv
<1> QED BY <1>1, Invariance, PTL

(* And the service that then runs was started on that configuration, unless   *)
(* an interruption came before the restart that was to follow.                *)
THEOREM ConfigAlwaysInForce == Spec => []ConfigInForce
<1>1. IInv => ConfigInForce
    BY DEF IInv, FilesInv, ConfigInForce, ConfigWritten, StartedOnAll, Settled
<1> QED BY <1>1, Invariance, PTL

===============================================================================
