--------------------------- MODULE WebConfigureProofs ---------------------------
(* Proofs about WebConfigure and NetworkStore, for every set of workers, every *)
(* finite set of names, however they are read back, and any number of requests. *)
EXTENDS WebConfigure, FiniteSetTheorems, TLAPS

(* The inductive invariant.  A worker is inside an add exactly while its      *)
(* request waits for it.                                                      *)
Staged == \A w \in Workers : at[w] # "out" <=> stage[w] = "adding"

(* Who set the flag has not yet been through the hook.                        *)
FlagCarried == flag => \E w \in Workers : stage[w] \in {"respond", "after", "spawn"}

(* An added network's completion is on its way: in a result that is still to  *)
(* be assigned, or in the flag.                                               *)
Awaited == due /\ ~clobbered =>
    flag \/ \E w \in Workers : stage[w] = "assign" /\ result[w]

(* An add that overlaps no other is the only one.                             *)
OneAdds == ~overlapped => \A v, w \in Adding : v = w

HasPriority ==
    \A w \in Workers : at[w] \in {"read", "open", "write"} => draft[w][ssid[w]] \in Nat

(* Networks that are to stay: those whose add has returned True, or will.     *)
Accepted == acked \cup {ssid[w] : w \in {v \in Workers : at[v] = "added"}}

(* With one file for each, a network's own file is emptied only by one who    *)
(* will write it again, or whose write raises.                                *)
KeptInFiles == perSsid /\ ~cut =>
    \A s \in Accepted \ torn :
        store[s] >= 0 \/ \E w \in Workers : at[w] = "write" /\ ssid[w] = s

(* With one file for all, a network that is read back as itself is in the     *)
(* file, or in the draft of the one worker that rewrites it.                  *)
KeptInDraft == ~perSsid /\ ~overlapped /\ ~cut =>
    \A s \in Accepted : ReadBack[s] = s =>
        /\ (\A w \in Workers : at[w] # "write") => store[s] >= 0
        /\ \A w \in Workers : at[w] \in {"open", "write"} => draft[w][s] >= 0

(* No priority is above the number of networks, which is the next to be given; *)
(* it is given only while every file has its sections.                        *)
Ranked == ~overlapped /\ ~cut =>
    /\ (\A w \in Workers : at[w] # "write") /\ Broken = {} =>
         \A s \in Ssids : store[s] <= Cardinality(Keys)
    /\ \A w \in Workers :
         at[w] = "read" \/ (perSsid /\ at[w] = "open") =>
             draft[w][ssid[w]] = Cardinality(Keys) /\ Broken = {}

RankedInFiles == perSsid /\ ~overlapped /\ ~cut =>
    \A w \in Workers : at[w] = "write" =>
        /\ \A s \in Ssids : store[s] <= draft[w][ssid[w]]
        /\ draft[w][ssid[w]] <= Cardinality(Stored \cup {ssid[w]})

RankedInDraft == ~perSsid /\ ~overlapped /\ ~cut =>
    \A w \in Workers : at[w] \in {"open", "write"} =>
        /\ \A s \in Ssids : draft[w][s] <= draft[w][ssid[w]]
        /\ draft[w][ssid[w]] <= Cardinality({ReadBack[s] : s \in Drafted(w)})
        /\ at[w] = "write" => store = Nothing

IInv ==
    /\ TypeOK /\ Staged /\ FlagCarried /\ Awaited /\ OneAdds /\ HasPriority
    /\ KeptInFiles /\ KeptInDraft /\ Ranked /\ RankedInFiles /\ RankedInDraft

-------------------------------------------------------------------------------
(* The store's operators. *)

(* A worker that adds nothing still has a name noted.                         *)
LEMMA SomeName == NoName \in Ssids
BY SsidsAssumption DEF NoName

(* The number of networks that the program counts is a natural number.        *)
LEMMA KeysFinite ==
    ASSUME StoreTypeOK
    PROVE  Keys \subseteq Ssids /\ IsFiniteSet(Keys) /\ Cardinality(Keys) \in Nat
<1>1. Keys \subseteq Ssids
    BY ReadBackAssumption DEF Keys, Stored
<1> QED BY <1>1, SsidsAssumption, FS_Subset, FS_CardinalityType

(* A reading has a priority for exactly the names that are read, each that of *)
(* a network which is stored.                                                 *)
LEMMA ReadingHolds ==
    ASSUME StoreTypeOK, NEW r \in Readings, NEW s \in Ssids
    PROVE  /\ r \in [Ssids -> Nat \cup {Absent}]
           /\ r[s] >= 0 <=> \E t \in Stored : ReadBack[t] = s
           /\ r[s] >= 0 => \E t \in Stored : r[s] = store[t]
<1> USE DEF StoreTypeOK
<1>1. \A t \in Stored : store[t] \in Nat
    BY DEF Stored, Absent, Emptied
<1>2. r \in [Ssids -> Nat \cup {Absent}]
    BY <1>1 DEF Readings
<1>3. CASE ReadAs(s) = {}
    BY <1>2, <1>3 DEF Readings, ReadAs, Absent
<1>4. CASE ReadAs(s) # {}
    <2>1. PICK t \in ReadAs(s) : r[s] = store[t]
        BY <1>4 DEF Readings
    <2> QED BY <1>1, <1>2, <2>1 DEF ReadAs
<1> QED BY <1>2, <1>3, <1>4

(* What is put into the one file is a priority, or nothing, for each name.    *)
LEMMA OverwriteType ==
    ASSUME StoreTypeOK, NEW w \in Workers, NEW part \in SUBSET Ssids, Overwrite(w, part)
    PROVE  store' \in [Ssids -> Nat \cup {Absent, Emptied}]
<1>1. PICK tail \in SUBSET Stored :
          store' = [s \in Ssids |-> CASE s \in part        -> draft[w][s]
                                     [] s \in tail \ part -> store[s]
                                     [] OTHER             -> Absent]
    BY DEF Overwrite
<1>2. ASSUME NEW s \in Ssids PROVE store'[s] \in Nat \cup {Absent, Emptied}
    BY <1>1, <1>2 DEF StoreTypeOK
<1> QED BY <1>1, <1>2

(* What each step of an add does to the types.                                *)
LEMMA StoreTypeStep ==
    ASSUME StoreTypeOK, NEW w \in Workers,
           (\E s \in Ssids : BeginAdd(w, s)) \/ AddStep(w)
    PROVE  StoreTypeOK'
<1> USE DEF StoreTypeOK, Places, Goto
<1>1. CASE \E s \in Ssids : BeginAdd(w, s)
    <2>1. overlapped' \in BOOLEAN BY <1>1, Zenon DEF BeginAdd
    <2> QED BY <1>1, <2>1 DEF BeginAdd
<1>2. CASE Count(w)
    <2>1. [draft[w] EXCEPT ![ssid[w]] = Cardinality(Keys)] \in [Ssids -> Nat \cup {Absent}]
        BY KeysFinite
    <2>2. draft' \in [Workers -> [Ssids -> Nat \cup {Absent}]]
        BY <1>2, <2>1 DEF Count
    <2> QED BY <1>2, <2>2 DEF Count
<1>3. CASE Read(w)
    <2>1. ASSUME NEW r \in Readings
          PROVE  [r EXCEPT ![ssid[w]] = draft[w][ssid[w]]] \in [Ssids -> Nat \cup {Absent}]
        BY ReadingHolds
    <2>2. Nothing \in [Ssids -> Nat \cup {Absent}]
        BY DEF Nothing
    <2>3. draft' \in [Workers -> [Ssids -> Nat \cup {Absent}]]
        BY <1>3, <2>1, <2>2 DEF Read, Refuse
    <2>4. at' \in [Workers -> Places]
        BY <1>3 DEF Read, Refuse
    <2> QED BY <1>3, <2>3, <2>4 DEF Read
<1>4. CASE Open(w)
    BY <1>4 DEF Open, Nothing
<1>5. CASE OpenRaises(w)
    <2>1. Nothing \in [Ssids -> Nat \cup {Absent}]
        BY DEF Nothing
    <2> QED BY <1>5, <2>1 DEF OpenRaises, Refuse
<1>6. CASE Write(w)
    <2>1. Nothing \in [Ssids -> Nat \cup {Absent}]
        BY DEF Nothing
    <2>2. store' \in [Ssids -> Nat \cup {Absent, Emptied}]
        BY <1>6, OverwriteType DEF Write, Drafted
    <2> QED BY <1>6, <2>1, <2>2 DEF Write
<1>7. CASE WriteRaises(w)
    <2>1. Nothing \in [Ssids -> Nat \cup {Absent}]
        BY DEF Nothing
    <2>2. store' \in [Ssids -> Nat \cup {Absent, Emptied}]
        BY <1>7, OverwriteType DEF WriteRaises, Drafted
    <2> QED BY <1>7, <2>1, <2>2 DEF WriteRaises, Refuse
<1> QED BY <1>1, <1>2, <1>3, <1>4, <1>5, <1>6, <1>7 DEF AddStep

(* Every step keeps every variable in its type.                               *)
LEMMA TypeStep == TypeOK /\ [Next]_vars => TypeOK'
<1> SUFFICES ASSUME TypeOK, [Next]_vars PROVE TypeOK'
    OBVIOUS
<1> USE RequestsAssumption DEF TypeOK, Stages, To
<1>1. ASSUME NEW w \in Workers, NEW s \in Ssids, Configure(w, s) PROVE TypeOK'
    <2>1. received' \in 0..MaxRequests
        BY <1>1 DEF Configure, Receive
    <2> QED BY <1>1, <2>1, StoreTypeStep DEF Configure, Receive
<1>2. ASSUME NEW w \in Workers, ConfigureShort(w) \/ ConfigureMalformed(w) \/ OtherView(w)
      PROVE TypeOK'
    <2>1. received' \in 0..MaxRequests
        BY <1>2 DEF ConfigureShort, ConfigureMalformed, OtherView, Receive
    <2>2. StoreTypeOK'
        BY <1>2, Zenon DEF ConfigureShort, ConfigureMalformed, OtherView, storeVars, StoreTypeOK
    <2>3. stage' \in [Workers -> Stages]
        BY <1>2 DEF ConfigureShort, ConfigureMalformed, OtherView
    <2> QED BY <1>2, <2>1, <2>2, <2>3 DEF ConfigureShort, ConfigureMalformed, OtherView, Receive
<1>3. ASSUME NEW w \in Workers, Add(w) PROVE TypeOK'
    BY <1>3, StoreTypeStep DEF Add, webVars
<1>4. ASSUME NEW w \in Workers, AddReturns(w) PROVE TypeOK'
    <2>1. StoreTypeOK'
        BY <1>4, SomeName DEF AddReturns, StoreTypeOK, Goto, Places
    <2>2. (due' \in BOOLEAN) /\ result' \in [Workers -> BOOLEAN]
        BY <1>4, Zenon DEF AddReturns
    <2>3. acked' \subseteq Ssids
        BY <1>4 DEF AddReturns, StoreTypeOK
    <2> QED BY <1>4, <2>1, <2>2, <2>3 DEF AddReturns
<1>5. ASSUME NEW w \in Workers, Assign(w) PROVE TypeOK'
    <2>1. (clobbered' \in BOOLEAN) /\ flag' \in BOOLEAN
        BY <1>5, Zenon DEF Assign
    <2> QED BY <1>5, <2>1 DEF Assign, storeVars, StoreTypeOK
<1>6. ASSUME NEW w \in Workers, Respond(w) \/ TestFlag(w) \/ SpawnCompletion(w)
      PROVE TypeOK'
    BY <1>6 DEF Respond, TestFlag, SpawnCompletion, Leave, storeVars, StoreTypeOK
<1>7. CASE Crash
    <2>1. cut' \in BOOLEAN
        BY <1>7, Zenon DEF Crash, StoreCrash
    <2> QED BY <1>7, <2>1, SomeName DEF Crash, StoreCrash, StoreTypeOK, Places, Nothing
<1>8. CASE UNCHANGED vars
    BY <1>8 DEF vars, storeVars, webVars, StoreTypeOK
<1> QED BY <1>1, <1>2, <1>3, <1>4, <1>5, <1>6, <1>7, <1>8 DEF Next

-------------------------------------------------------------------------------
(* The flag and the hook. *)

(* A worker enters and leaves its add together with the stage that waits.     *)
LEMMA StagedStep == TypeOK /\ Staged /\ [Next]_vars => Staged'
<1> SUFFICES ASSUME TypeOK, Staged, [Next]_vars PROVE Staged'
    OBVIOUS
<1> USE DEF TypeOK, StoreTypeOK, Staged, To, Goto
<1>1. ASSUME NEW w \in Workers, NEW s \in Ssids, Configure(w, s) PROVE Staged'
    BY <1>1 DEF Configure, Receive, BeginAdd
<1>2. ASSUME NEW w \in Workers, ConfigureShort(w) \/ ConfigureMalformed(w) \/ OtherView(w)
      PROVE Staged'
    BY <1>2 DEF ConfigureShort, ConfigureMalformed, OtherView, Receive, storeVars
<1>3. ASSUME NEW w \in Workers, Add(w) PROVE Staged'
    <2>1. stage' = stage /\ stage[w] = "adding"
        BY <1>3 DEF Add, webVars
    <2>2. at'[w] # "out" /\ \A v \in Workers \ {w} : at'[v] = at[v]
        BY <1>3 DEF Add, AddStep, Count, Read, Open, OpenRaises, Write, WriteRaises, Refuse
    <2> QED BY <2>1, <2>2
<1>4. ASSUME NEW w \in Workers, AddReturns(w) PROVE Staged'
    BY <1>4 DEF AddReturns
<1>5. ASSUME NEW w \in Workers, Assign(w) \/ Respond(w) \/ TestFlag(w) \/ SpawnCompletion(w)
      PROVE Staged'
    BY <1>5 DEF Assign, Respond, TestFlag, SpawnCompletion, Leave, storeVars
<1>6. CASE Crash
    BY <1>6 DEF Crash, StoreCrash
<1>7. CASE UNCHANGED vars
    BY <1>7 DEF vars, storeVars, webVars
<1> QED BY <1>1, <1>2, <1>3, <1>4, <1>5, <1>6, <1>7 DEF Next

(* A worker that finds the flag set in the hook clears it before it leaves,   *)
(* and one that does not find it set has nothing to clear.                    *)
LEMMA FlagCarriedStep == TypeOK /\ FlagCarried /\ [Next]_vars => FlagCarried'
<1> SUFFICES ASSUME TypeOK, FlagCarried, [Next]_vars PROVE FlagCarried'
    OBVIOUS
<1> USE DEF TypeOK, FlagCarried, To
<1>1. ASSUME NEW w \in Workers, NEW s \in Ssids, Configure(w, s) PROVE FlagCarried'
    BY <1>1 DEF Configure, Receive
<1>2. ASSUME NEW w \in Workers, ConfigureShort(w) \/ ConfigureMalformed(w) \/ OtherView(w)
      PROVE FlagCarried'
    BY <1>2 DEF ConfigureShort, ConfigureMalformed, OtherView, Receive
<1>3. ASSUME NEW w \in Workers, Add(w) \/ AddReturns(w) PROVE FlagCarried'
    BY <1>3 DEF Add, AddReturns, webVars
<1>4. ASSUME NEW w \in Workers, Assign(w) PROVE FlagCarried'
    BY <1>4 DEF Assign
<1>5. ASSUME NEW w \in Workers, Respond(w) \/ TestFlag(w) \/ SpawnCompletion(w)
      PROVE FlagCarried'
    BY <1>5 DEF Respond, TestFlag, SpawnCompletion, Leave
<1>6. CASE Crash \/ UNCHANGED vars
    BY <1>6 DEF Crash, vars, webVars
<1> QED BY <1>1, <1>2, <1>3, <1>4, <1>5, <1>6 DEF Next

(* A result that says a network was added reaches the flag; only a refusal    *)
(* that overwrites the flag takes it back before a completion.                *)
LEMMA AwaitedStep == TypeOK /\ Awaited /\ [Next]_vars => Awaited'
<1> SUFFICES ASSUME TypeOK, Awaited, [Next]_vars PROVE Awaited'
    OBVIOUS
<1> USE DEF TypeOK, Awaited, To
<1>1. ASSUME NEW w \in Workers, NEW s \in Ssids, Configure(w, s) PROVE Awaited'
    BY <1>1 DEF Configure, Receive
<1>2. ASSUME NEW w \in Workers, ConfigureShort(w) \/ ConfigureMalformed(w) \/ OtherView(w)
      PROVE Awaited'
    BY <1>2 DEF ConfigureShort, ConfigureMalformed, OtherView, Receive
<1>3. ASSUME NEW w \in Workers, Add(w) PROVE Awaited'
    BY <1>3 DEF Add, webVars
<1>4. ASSUME NEW w \in Workers, AddReturns(w) PROVE Awaited'
    BY <1>4 DEF AddReturns
<1>5. ASSUME NEW w \in Workers, Assign(w) PROVE Awaited'
    BY <1>5 DEF Assign
<1>6. ASSUME NEW w \in Workers, Respond(w) \/ TestFlag(w) \/ SpawnCompletion(w)
      PROVE Awaited'
    BY <1>6 DEF Respond, TestFlag, SpawnCompletion, Leave
<1>7. CASE Crash \/ UNCHANGED vars
    BY <1>7 DEF Crash, vars, webVars
<1> QED BY <1>1, <1>2, <1>3, <1>4, <1>5, <1>6, <1>7 DEF Next

-------------------------------------------------------------------------------
(* The files. *)

\* What the web server's steps are to the store.
LEMMA StoreSteps ==
    ASSUME [Next]_vars
    PROVE  \/ UNCHANGED <<storeVars, acked>>
           \/ \E w \in Workers, s \in Ssids : BeginAdd(w, s) /\ UNCHANGED acked
           \/ \E w \in Workers : AddStep(w) /\ UNCHANGED acked
           \/ \E w \in Workers : AddReturns(w)
           \/ StoreCrash /\ UNCHANGED acked
<1>1. CASE \E w \in Workers, s \in Ssids : Configure(w, s)
    BY <1>1 DEF Configure, Receive
<1>2. CASE \E w \in Workers : Add(w) \/ AddReturns(w)
    BY <1>2 DEF Add, webVars
<1>3. CASE \E w \in Workers : \/ ConfigureShort(w) \/ ConfigureMalformed(w) \/ OtherView(w)
                              \/ Assign(w) \/ Respond(w) \/ TestFlag(w) \/ SpawnCompletion(w)
    BY <1>3, Zenon DEF ConfigureShort, ConfigureMalformed, OtherView, Receive, Assign, Respond,
                TestFlag, SpawnCompletion
<1>4. CASE Crash \/ UNCHANGED vars
    BY <1>4, Zenon DEF Crash, vars, webVars
<1> QED BY <1>1, <1>2, <1>3, <1>4 DEF Next

(* An add that begins beside another overlaps it.                             *)
LEMMA OneAddsStep == TypeOK /\ OneAdds /\ [Next]_vars => OneAdds'
<1> SUFFICES ASSUME TypeOK, OneAdds, [Next]_vars PROVE OneAdds'
    OBVIOUS
<1> USE DEF TypeOK, StoreTypeOK, OneAdds, Adding, Goto
<1>1. ASSUME NEW w \in Workers, NEW s \in Ssids, BeginAdd(w, s) PROVE OneAdds'
    BY <1>1 DEF BeginAdd
<1>2. ASSUME NEW w \in Workers, AddStep(w) PROVE OneAdds'
    <2>1. UNCHANGED overlapped /\ w \in Adding /\ \A v \in Workers \ {w} : at'[v] = at[v]
        BY <1>2 DEF AddStep, Count, Read, Open, OpenRaises, Write, WriteRaises, Refuse
    <2> QED BY <2>1
<1>3. ASSUME NEW w \in Workers, AddReturns(w) PROVE OneAdds'
    BY <1>3 DEF AddReturns
<1>4. CASE StoreCrash \/ UNCHANGED storeVars
    BY <1>4 DEF StoreCrash, storeVars
<1> QED BY <1>1, <1>2, <1>3, <1>4, StoreSteps

(* What a worker is about to write has a priority for its own network.        *)
LEMMA HasPriorityStep == TypeOK /\ HasPriority /\ [Next]_vars => HasPriority'
<1> SUFFICES ASSUME TypeOK, HasPriority, [Next]_vars PROVE HasPriority'
    OBVIOUS
<1> USE DEF TypeOK, StoreTypeOK, HasPriority, Goto
<1>1. ASSUME NEW w \in Workers, NEW s \in Ssids, BeginAdd(w, s) PROVE HasPriority'
    BY <1>1 DEF BeginAdd
<1>2. ASSUME NEW w \in Workers, Count(w) PROVE HasPriority'
    BY <1>2, KeysFinite DEF Count
<1>3. ASSUME NEW w \in Workers, Read(w) PROVE HasPriority'
    BY <1>3, ReadingHolds DEF Read, Refuse
<1>4. ASSUME NEW w \in Workers, Open(w) \/ OpenRaises(w) \/ Write(w) \/ WriteRaises(w)
      PROVE HasPriority'
    BY <1>4 DEF Open, OpenRaises, Write, WriteRaises, Refuse
<1>5. ASSUME NEW w \in Workers, AddReturns(w) PROVE HasPriority'
    BY <1>5 DEF AddReturns
<1>6. CASE StoreCrash \/ UNCHANGED storeVars
    BY <1>6 DEF StoreCrash, storeVars
<1> QED BY <1>1, <1>2, <1>3, <1>4, <1>5, <1>6, StoreSteps DEF AddStep

(* Which networks are accepted changes only with the step that has written    *)
(* one, or with a kill, which may lose an answer that was not given yet.      *)
LEMMA AcceptedGrows ==
    ASSUME TypeOK, [Next]_vars
    PROVE  \/ Accepted' \subseteq Accepted
           \/ \E w \in Workers : /\ at[w] = "write" /\ at'[w] = "added"
                                 /\ Accepted' \subseteq Accepted \cup {ssid[w]}
<1> USE DEF TypeOK, StoreTypeOK, Accepted, Goto
<1>1. ASSUME NEW w \in Workers, NEW s \in Ssids, BeginAdd(w, s), UNCHANGED acked
      PROVE Accepted' \subseteq Accepted
    BY <1>1 DEF BeginAdd
<1>2. ASSUME NEW w \in Workers, UNCHANGED acked,
             Count(w) \/ Read(w) \/ Open(w) \/ OpenRaises(w) \/ WriteRaises(w)
      PROVE Accepted' \subseteq Accepted
    BY <1>2 DEF Count, Read, Open, OpenRaises, WriteRaises, Refuse
<1>3. ASSUME NEW w \in Workers, Write(w), UNCHANGED acked
      PROVE  /\ at[w] = "write" /\ at'[w] = "added"
             /\ Accepted' \subseteq Accepted \cup {ssid[w]}
    BY <1>3 DEF Write
<1>4. ASSUME NEW w \in Workers, AddReturns(w) PROVE Accepted' \subseteq Accepted
    BY <1>4 DEF AddReturns
<1>5. CASE StoreCrash /\ UNCHANGED acked
    BY <1>5 DEF StoreCrash
<1>6. CASE UNCHANGED <<storeVars, acked>>
    BY <1>6 DEF storeVars
<1> QED BY <1>1, <1>2, <1>3, <1>4, <1>5, <1>6, StoreSteps DEF AddStep

(* The configuration class stays, and what was noted stays noted.             *)
LEMMA HistoryGrows ==
    ASSUME TypeOK, [Next]_vars
    PROVE  /\ perSsid' = perSsid
           /\ ~overlapped' => ~overlapped
           /\ ~cut' => ~cut
<1> USE DEF TypeOK, StoreTypeOK
<1>1. CASE \E w \in Workers, s \in Ssids : BeginAdd(w, s)
    BY <1>1 DEF BeginAdd
<1>2. CASE \E w \in Workers : AddStep(w) \/ AddReturns(w)
    BY <1>2 DEF AddStep, Count, Read, Open, OpenRaises, Write, WriteRaises, Refuse, AddReturns
<1>3. CASE StoreCrash \/ UNCHANGED storeVars
    BY <1>3 DEF StoreCrash, storeVars
<1> QED BY <1>1, <1>2, <1>3, StoreSteps

(* While no adds overlap, who takes a step of an add is the only one inside.  *)
LEMMA Alone ==
    ASSUME TypeOK, OneAdds, ~overlapped, NEW w \in Workers, AddStep(w)
    PROVE  w \in Adding /\ \A v \in Workers \ {w} : v \notin Adding /\ at'[v] = at[v]
BY DEF TypeOK, StoreTypeOK, AddStep, Count, Read, Open, OpenRaises, Write, WriteRaises, Refuse,
       Goto, OneAdds, Adding

(* NetworkManagerConfig: who empties a network's own file goes on to write it, *)
(* or notes it as torn.                                                       *)
LEMMA KeptInFilesStep == IInv /\ [Next]_vars => KeptInFiles'
<1> SUFFICES ASSUME IInv, [Next]_vars, perSsid', ~cut', NEW s \in Accepted', s \notin torn'
             PROVE  \/ store'[s] >= 0
                    \/ \E w \in Workers : at'[w] = "write" /\ ssid'[w] = s
    BY DEF KeptInFiles
<1> USE DEF IInv, TypeOK, StoreTypeOK, Goto, KeptInFiles
<1>1. perSsid /\ ~cut
    BY HistoryGrows
<1>2. s \in Accepted \/ \E w \in Workers : at[w] = "write" /\ at'[w] = "added" /\ s = ssid[w]
    BY AcceptedGrows
<1>3. ASSUME NEW w \in Workers, NEW n \in Ssids, BeginAdd(w, n) PROVE
          store'[s] >= 0 \/ \E v \in Workers : at'[v] = "write" /\ ssid'[v] = s
    BY <1>1, <1>2, <1>3 DEF BeginAdd
<1>4. ASSUME NEW w \in Workers, Count(w) \/ Read(w) \/ OpenRaises(w) PROVE
          store'[s] >= 0 \/ \E v \in Workers : at'[v] = "write" /\ ssid'[v] = s
    BY <1>1, <1>2, <1>4 DEF Count, Read, OpenRaises, Refuse
<1>5. ASSUME NEW w \in Workers, Open(w) PROVE
          store'[s] >= 0 \/ \E v \in Workers : at'[v] = "write" /\ ssid'[v] = s
    BY <1>1, <1>2, <1>5 DEF Open
<1>6. ASSUME NEW w \in Workers, Write(w) PROVE
          store'[s] >= 0 \/ \E v \in Workers : at'[v] = "write" /\ ssid'[v] = s
    <2>1. draft[w][ssid[w]] >= 0
        BY <1>6 DEF Write, HasPriority
    <2>2. CASE s = ssid[w]
        BY <1>1, <1>6, <2>1, <2>2 DEF Write
    <2>3. CASE s # ssid[w]
        <3>1. s \in Accepted
            BY <1>2, <1>6, <2>3 DEF Write
        <3>2. CASE store[s] >= 0
            <4>1. s \in Ssids
                BY <3>1 DEF Accepted
            <4> QED BY <1>1, <1>6, <2>3, <3>2, <4>1 DEF Write
        <3>3. CASE \E v \in Workers : at[v] = "write" /\ ssid[v] = s
            <4>1. PICK v \in Workers : at[v] = "write" /\ ssid[v] = s
                BY <3>3
            <4> QED BY <1>6, <2>3, <4>1 DEF Write
        <3>4. s \notin torn
            BY <1>1, <1>6, <2>3 DEF Write
        <3> QED BY <1>1, <3>1, <3>2, <3>3, <3>4
    <2> QED BY <2>2, <2>3
<1>10. ASSUME NEW w \in Workers, WriteRaises(w) PROVE
          store'[s] >= 0 \/ \E v \in Workers : at'[v] = "write" /\ ssid'[v] = s
    <2>1. s \in Accepted /\ s # ssid[w] /\ s \notin torn /\ s \in Ssids
        BY <1>1, <1>2, <1>10 DEF WriteRaises, Refuse, Accepted
    <2>2. CASE store[s] >= 0
        BY <1>1, <1>10, <2>1, <2>2 DEF WriteRaises
    <2>3. CASE \E v \in Workers : at[v] = "write" /\ ssid[v] = s
        <3>1. PICK v \in Workers : at[v] = "write" /\ ssid[v] = s
            BY <2>3
        <3> QED BY <1>10, <2>1, <3>1 DEF WriteRaises, Refuse
    <2> QED BY <1>1, <2>1, <2>2, <2>3
<1>7. ASSUME NEW w \in Workers, AddReturns(w) PROVE
          store'[s] >= 0 \/ \E v \in Workers : at'[v] = "write" /\ ssid'[v] = s
    BY <1>1, <1>2, <1>7 DEF AddReturns
<1>8. CASE StoreCrash
    BY <1>1, <1>2, <1>8 DEF StoreCrash, Adding
<1>9. CASE UNCHANGED storeVars
    BY <1>1, <1>2, <1>9 DEF storeVars
<1> QED BY <1>3, <1>4, <1>5, <1>6, <1>7, <1>8, <1>9, <1>10, StoreSteps DEF AddStep

(* WpaSupplicantConfig: a worker that is alone reads every network that is    *)
(* read back as itself into its draft, and writes its draft.                  *)
LEMMA KeptInDraftStep == IInv /\ [Next]_vars => KeptInDraft'
<1> DEFINE Kept(s) ==
        /\ (\A w \in Workers : at[w] # "write") => store[s] >= 0
        /\ \A w \in Workers : at[w] \in {"open", "write"} => draft[w][s] >= 0
<1> SUFFICES ASSUME IInv, [Next]_vars, ~perSsid', ~overlapped', ~cut',
                    NEW s \in Accepted', ReadBack[s] = s
             PROVE  Kept(s)'
    BY DEF KeptInDraft
<1> USE DEF IInv, TypeOK, StoreTypeOK, Goto
<1>1. ~perSsid /\ ~overlapped /\ ~cut
    BY HistoryGrows
<1>2. /\ s \in Ssids
      /\ Kept(s) \/ \E w \in Workers : at[w] = "write" /\ at'[w] = "added" /\ s = ssid[w]
    <2>1. s \in Accepted \/ \E w \in Workers : at[w] = "write" /\ at'[w] = "added" /\ s = ssid[w]
        BY AcceptedGrows
    <2>2. s \in Accepted => Kept(s)
        BY <1>1 DEF KeptInDraft
    <2>3. Accepted \subseteq Ssids
        BY DEF Accepted
    <2> HIDE DEF Kept
    <2> QED BY <2>1, <2>2, <2>3
<1>3. ASSUME NEW w \in Workers, AddStep(w)
      PROVE  w \in Adding /\ \A v \in Workers \ {w} : v \notin Adding /\ at'[v] = at[v]
    BY <1>1, <1>3, Alone
<1>4. ASSUME NEW w \in Workers, NEW n \in Ssids, BeginAdd(w, n) PROVE Kept(s)'
    BY <1>2, <1>4 DEF BeginAdd
<1>5. ASSUME NEW w \in Workers, Count(w) PROVE Kept(s)'
    BY <1>2, <1>3, <1>5 DEF AddStep, Count, Adding
<1>6. ASSUME NEW w \in Workers, Read(w) PROVE Kept(s)'
    <2>1. store[s] >= 0 /\ UNCHANGED store
        BY <1>2, <1>3, <1>6 DEF AddStep, Read, Refuse, Adding
    <2>2. \A r \in Readings : r[s] >= 0
        BY <1>2, <2>1, ReadingHolds DEF Stored
    <2>3. draft[w][ssid[w]] >= 0
        BY <1>6 DEF Read, HasPriority
    <2>4. at'[w] = "open" => draft'[w][s] >= 0
        <3>1. SUFFICES ASSUME at'[w] = "open" PROVE draft'[w][s] >= 0
            OBVIOUS
        <3>2. PICK r \in Readings :
                  draft' = [draft EXCEPT ![w] = [r EXCEPT ![ssid[w]] = draft[w][ssid[w]]]]
            BY <1>1, <1>6, <3>1 DEF Read, Refuse
        <3>3. r \in [Ssids -> Nat \cup {Absent}] /\ r[s] >= 0
            BY <1>2, <2>2, ReadingHolds
        <3> QED BY <1>2, <2>3, <3>2, <3>3
    <2>5. at'[w] # "write"
        BY <1>6 DEF Read, Refuse
    <2> QED BY <1>3, <1>6, <2>1, <2>4, <2>5 DEF AddStep, Adding
<1>7. ASSUME NEW w \in Workers, Open(w) \/ OpenRaises(w) PROVE Kept(s)'
    BY <1>2, <1>3, <1>7 DEF AddStep, Open, OpenRaises, Refuse, Adding
<1>12. ASSUME NEW w \in Workers, WriteRaises(w) PROVE FALSE
    BY <1>1, <1>12 DEF WriteRaises
<1>8. ASSUME NEW w \in Workers, Write(w) PROVE Kept(s)'
    <2>1. draft[w][s] >= 0
        BY <1>2, <1>3, <1>8 DEF AddStep, Write, HasPriority
    <2>2. store'[s] >= 0
        <3>1. Overwrite(w, Drafted(w)) /\ s \in Drafted(w)
            BY <1>1, <1>2, <1>8, <2>1 DEF Write, Drafted
        <3> QED BY <1>2, <2>1, <3>1 DEF Overwrite
    <2>3. at'[w] = "added"
        BY <1>8 DEF Write
    <2> QED BY <1>3, <1>8, <2>2, <2>3 DEF AddStep, Adding
<1>9. ASSUME NEW w \in Workers, AddReturns(w) PROVE Kept(s)'
    BY <1>2, <1>9 DEF AddReturns
<1>10. CASE StoreCrash
    BY <1>1, <1>2, <1>10 DEF StoreCrash, Adding
<1>11. CASE UNCHANGED storeVars
    BY <1>2, <1>11 DEF storeVars
<1> QED BY <1>4, <1>5, <1>6, <1>7, <1>8, <1>9, <1>10, <1>11, <1>12, StoreSteps DEF AddStep

-------------------------------------------------------------------------------
(* The priorities. *)

(* Fewer names make no greater number.                                        *)
LEMMA FewerNames ==
    ASSUME NEW S \in SUBSET Ssids, NEW T \in SUBSET S
    PROVE  Cardinality(S) \in Nat /\ Cardinality(T) \in Nat /\ Cardinality(T) <= Cardinality(S)
BY SsidsAssumption, FS_Subset, FS_CardinalityType

(* A file of its own that is completed, whatever its write then answers, is   *)
(* topped by its priority and counts as one more network.                     *)
LEMMA FileAlone ==
    ASSUME IInv, perSsid, perSsid', ~overlapped, ~cut, NEW w \in Workers, at[w] = "write",
           store' = [store EXCEPT ![ssid[w]] = draft[w][ssid[w]]]
    PROVE  /\ store'[ssid[w]] = draft[w][ssid[w]]
           /\ \A s \in Ssids : store'[s] <= draft[w][ssid[w]]
           /\ \A s \in Ssids : store'[s] <= Cardinality(Keys')
<1> USE DEF IInv, TypeOK, StoreTypeOK
<1>1. draft[w][ssid[w]] \in Nat
    BY DEF HasPriority
<1>2. store' \in [Ssids -> Nat \cup {Absent, Emptied}]
    BY <1>1
<1>3. Keys' = Stored \cup {ssid[w]}
    BY <1>1 DEF Keys, Stored
<1>4. \A s \in Ssids : store'[s] <= draft[w][ssid[w]]
    <2>1. \A s \in Ssids : store[s] <= draft[w][ssid[w]]
        BY DEF RankedInFiles
    <2> QED BY <1>1, <2>1
<1>5. draft[w][ssid[w]] <= Cardinality(Keys')
    BY <1>3 DEF RankedInFiles
<1>6. Cardinality(Keys') \in Nat
    BY <1>3, FewerNames DEF Stored
<1> QED BY <1>1, <1>2, <1>4, <1>5, <1>6 DEF Absent, Emptied

(* What a worker that is alone writes is topped by its own network's priority, *)
(* and leaves at least as many networks.                                      *)
LEMMA WriteAlone ==
    ASSUME IInv, ~overlapped, ~cut, NEW w \in Workers, Write(w)
    PROVE  /\ store'[ssid[w]] = draft[w][ssid[w]]
           /\ \A s \in Ssids : store'[s] <= draft[w][ssid[w]]
           /\ \A s \in Ssids : store'[s] <= Cardinality(Keys')
<1> USE DEF IInv, TypeOK, StoreTypeOK, Goto
<1>1. at[w] = "write" /\ draft[w][ssid[w]] \in Nat
    BY DEF Write, HasPriority
<1>2. store' \in [Ssids -> Nat \cup {Absent, Emptied}]
    BY StoreTypeStep DEF AddStep
<1>3. CASE perSsid
    <2>1. store' = [store EXCEPT ![ssid[w]] = draft[w][ssid[w]]] /\ perSsid'
        BY <1>3 DEF Write
    <2> QED BY <1>1, <1>3, <2>1, FileAlone
<1>4. CASE ~perSsid
    <2>1. Stored = {}
        <3>1. store = Nothing
            BY <1>1, <1>4 DEF RankedInDraft
        <3> QED BY <3>1 DEF Stored, Nothing, Absent
    <2>2. /\ ~perSsid'
          /\ \A s \in Ssids : store'[s] = draft[w][s]
        <3>1. ~perSsid' /\ Overwrite(w, Drafted(w))
            BY <1>4 DEF Write
        <3>2. PICK tail \in SUBSET Stored :
                  store' = [s \in Ssids |-> CASE s \in Drafted(w)        -> draft[w][s]
                                             [] s \in tail \ Drafted(w) -> store[s]
                                             [] OTHER                   -> Absent]
            BY <3>1 DEF Overwrite
        <3>3. \A s \in Ssids : draft[w][s] >= 0 \/ draft[w][s] = Absent
            BY DEF Absent
        <3>4. tail = {}
            BY <2>1
        <3> QED BY <3>1, <3>2, <3>3, <3>4 DEF Drafted
    <2>3. Keys' = {ReadBack[s] : s \in Drafted(w)}
        BY <2>2 DEF Keys, Stored, Drafted
    <2>4. /\ \A s \in Ssids : draft[w][s] <= draft[w][ssid[w]]
          /\ draft[w][ssid[w]] <= Cardinality(Keys')
        BY <1>1, <1>4, <2>3 DEF RankedInDraft
    <2>5. Cardinality(Keys') \in Nat
        BY <2>3, FewerNames, ReadBackAssumption DEF Drafted
    <2>6. draft[w][ssid[w]] \in Nat /\ \A s \in Ssids : draft[w][s] \in Nat \cup {Absent}
        BY <1>1
    <2> QED BY <2>2, <2>4, <2>5, <2>6 DEF Absent
<1> QED BY <1>3, <1>4

(* A worker that is alone gives its network the number of networks, which it  *)
(* leaves no smaller.                                                         *)
LEMMA RankedStep == IInv /\ [Next]_vars => Ranked'
<1> DEFINE NoWriter == \A w \in Workers : at[w] # "write"
           Topped(w) ==
               at[w] = "read" \/ (perSsid /\ at[w] = "open") =>
                   draft[w][ssid[w]] = Cardinality(Keys) /\ Broken = {}
           Below == Broken = {} => \A s \in Ssids : store[s] <= Cardinality(Keys)
<1> SUFFICES ASSUME IInv, [Next]_vars, ~overlapped', ~cut'
             PROVE  (NoWriter' => Below') /\ \A w \in Workers : Topped(w)'
    BY DEF Ranked
<1> USE DEF IInv, TypeOK, StoreTypeOK, Goto
<1>1. ~overlapped /\ ~cut /\ perSsid' = perSsid
    BY HistoryGrows
<1>2. (NoWriter => Below) /\ \A w \in Workers : Topped(w)
    BY <1>1 DEF Ranked
<1>3. UNCHANGED store => Keys' = Keys /\ Broken' = Broken /\ (Below => Below')
    BY <1>1 DEF Keys, Stored, Broken
<1>4. ASSUME NEW w \in Workers, NEW n \in Ssids, BeginAdd(w, n)
      PROVE  UNCHANGED store /\ (NoWriter' => NoWriter) /\ \A v \in Workers : Topped(v)'
    BY <1>2, <1>3, <1>4 DEF BeginAdd
<1>5. ASSUME NEW w \in Workers, Count(w)
      PROVE  UNCHANGED store /\ (NoWriter' => NoWriter) /\ \A v \in Workers : Topped(v)'
    <2>1. Topped(w)'
        BY <1>3, <1>5, KeysFinite DEF Count
    <2> QED BY <1>1, <1>5, <2>1, Alone DEF AddStep, Count, Adding
<1>6. ASSUME NEW w \in Workers, Read(w)
      PROVE  UNCHANGED store /\ (NoWriter' => NoWriter) /\ \A v \in Workers : Topped(v)'
    <2>1. Topped(w)'
        BY <1>1, <1>2, <1>3, <1>6 DEF Read, Refuse
    <2> QED BY <1>1, <1>6, <2>1, Alone DEF AddStep, Read, Refuse, Adding
<1>12. ASSUME NEW w \in Workers, OpenRaises(w)
      PROVE  UNCHANGED store /\ (NoWriter' => NoWriter) /\ \A v \in Workers : Topped(v)'
    BY <1>1, <1>12, Alone DEF AddStep, OpenRaises, Refuse, Adding
<1>13. ASSUME NEW w \in Workers, WriteRaises(w)
      PROVE  Below' /\ \A v \in Workers : Topped(v)'
    <2>1. \A v \in Workers : Topped(v)'
        BY <1>1, <1>13, Alone DEF AddStep, WriteRaises, Refuse, Adding
    <2>2. perSsid /\ perSsid' /\ at[w] = "write" /\ ssid[w] \in Ssids
        BY <1>1, <1>13 DEF WriteRaises
    <2>3. CASE store' = [store EXCEPT ![ssid[w]] = Emptied]
        <3>1. ssid[w] \in Broken'
            BY <2>2, <2>3 DEF Broken
        <3> QED BY <2>1, <3>1
    <2>4. CASE store' = [store EXCEPT ![ssid[w]] = draft[w][ssid[w]]]
        <3>1. Below'
            BY <1>1, <2>2, <2>4, FileAlone
        <3> QED BY <2>1, <3>1
    <2> QED BY <1>13, <2>2, <2>3, <2>4 DEF WriteRaises
<1>7. ASSUME NEW w \in Workers, Open(w)
      PROVE  ~NoWriter' /\ \A v \in Workers : Topped(v)'
    BY <1>1, <1>7, Alone DEF AddStep, Open, Adding
<1>8. ASSUME NEW w \in Workers, Write(w)
      PROVE  Below' /\ \A v \in Workers : Topped(v)'
    <2>1. \A v \in Workers : Topped(v)'
        BY <1>1, <1>8, Alone DEF AddStep, Write, Adding
    <2> QED BY <1>1, <1>8, <2>1, WriteAlone
<1>9. ASSUME NEW w \in Workers, AddReturns(w)
      PROVE  UNCHANGED store /\ (NoWriter' => NoWriter) /\ \A v \in Workers : Topped(v)'
    BY <1>2, <1>3, <1>9 DEF AddReturns
<1>10. CASE StoreCrash
    <2>1. Adding = {} /\ UNCHANGED store /\ \A w \in Workers : at'[w] = "out"
        BY <1>10 DEF StoreCrash
    <2>2. NoWriter
        BY <2>1 DEF Adding
    <2> QED BY <1>2, <1>3, <2>1, <2>2
<1>11. CASE UNCHANGED storeVars
    BY <1>2, <1>3, <1>11 DEF storeVars
<1> HIDE DEF NoWriter, Topped, Below
<1> QED BY <1>2, <1>3, <1>4, <1>5, <1>6, <1>7, <1>8, <1>9, <1>10, <1>11, <1>12, <1>13,
           StoreSteps DEF AddStep

(* NetworkManagerConfig: the own network's file that is emptied counts as one *)
(* that is written again.                                                     *)
LEMMA RankedInFilesStep == IInv /\ [Next]_vars => RankedInFiles'
<1> SUFFICES ASSUME IInv, [Next]_vars, perSsid', ~overlapped', ~cut',
                    NEW v \in Workers, at'[v] = "write"
             PROVE  /\ \A s \in Ssids : store'[s] <= draft'[v][ssid'[v]]
                    /\ draft'[v][ssid'[v]] <= Cardinality(Stored' \cup {ssid'[v]})
    BY DEF RankedInFiles
<1> USE DEF IInv, TypeOK, StoreTypeOK, Goto
<1>1. perSsid /\ ~overlapped /\ ~cut
    BY HistoryGrows
<1>2. CASE UNCHANGED <<store, draft>> /\ ssid'[v] = ssid[v] /\ at[v] = "write"
    BY <1>1, <1>2 DEF RankedInFiles, Stored
<1>3. ASSUME NEW w \in Workers, NEW n \in Ssids, BeginAdd(w, n)
      PROVE  FALSE
    <2>1. Adding = {} /\ v # w /\ at[v] = "write"
        BY <1>3 DEF BeginAdd
    <2> QED BY <2>1 DEF Adding
<1>4. ASSUME NEW w \in Workers, AddStep(w)
      PROVE  v = w /\ Open(w)
    <2>1. v = w
        BY <1>1, <1>4, Alone DEF Adding
    <2> QED BY <1>4, <2>1
            DEF AddStep, Count, Read, OpenRaises, Write, WriteRaises, Refuse
<1>5. CASE Open(v)
    <2>1. /\ at[v] = "open" /\ UNCHANGED <<draft, ssid>>
          /\ store' = [store EXCEPT ![ssid[v]] = Emptied]
        BY <1>1, <1>5 DEF Open
    <2>2. draft[v][ssid[v]] = Cardinality(Keys) /\ Broken = {}
        BY <1>1, <2>1 DEF Ranked
    <2>3. \A w \in Workers : at[w] # "write"
        BY <1>1, <1>5, Alone DEF AddStep, Open, Adding
    <2>4. \A s \in Ssids : store[s] <= Cardinality(Keys)
        BY <1>1, <2>2, <2>3 DEF Ranked
    <2>5. Keys \subseteq Stored' \cup {ssid[v]}
        BY <1>1, <2>1 DEF Keys, Stored
    <2>6. Cardinality(Keys) <= Cardinality(Stored' \cup {ssid[v]})
        BY <2>5, FewerNames DEF Stored
    <2>7. \A s \in Ssids : store'[s] <= Cardinality(Keys)
        BY <2>1, <2>4, KeysFinite DEF Emptied
    <2> QED BY <2>1, <2>2, <2>6, <2>7
<1>6. ASSUME NEW w \in Workers, AddReturns(w)
      PROVE  UNCHANGED <<store, draft>> /\ ssid'[v] = ssid[v] /\ at[v] = "write"
    BY <1>6 DEF AddReturns
<1>7. CASE StoreCrash
    BY <1>7 DEF StoreCrash
<1>8. CASE UNCHANGED storeVars
    BY <1>2, <1>8 DEF storeVars
<1> QED BY <1>2, <1>3, <1>4, <1>5, <1>6, <1>7, <1>8, StoreSteps

(* WpaSupplicantConfig: the draft holds each name that was counted, and the   *)
(* name that is added.                                                        *)
LEMMA RankedInDraftStep == IInv /\ [Next]_vars => RankedInDraft'
<1> DEFINE Whole(v) ==
        /\ \A s \in Ssids : draft[v][s] <= draft[v][ssid[v]]
        /\ draft[v][ssid[v]] <= Cardinality({ReadBack[s] : s \in Drafted(v)})
<1> SUFFICES ASSUME IInv, [Next]_vars, ~perSsid', ~overlapped', ~cut',
                    NEW v \in Workers, at'[v] \in {"open", "write"}
             PROVE  Whole(v)' /\ (at'[v] = "write" => store' = Nothing)
    BY DEF RankedInDraft
<1> USE DEF IInv, TypeOK, StoreTypeOK, Goto
<1>1. ~perSsid /\ ~overlapped /\ ~cut
    BY HistoryGrows
<1>2. at[v] \in {"open", "write"} => Whole(v) /\ (at[v] = "write" => store = Nothing)
    BY <1>1 DEF RankedInDraft
<1>3. UNCHANGED draft /\ ssid'[v] = ssid[v] /\ Whole(v) => Whole(v)'
    BY DEF Drafted
<1>4. ASSUME NEW w \in Workers, NEW n \in Ssids, BeginAdd(w, n)
      PROVE  FALSE
    <2>1. Adding = {} /\ v # w /\ at[v] \in {"open", "write"}
        BY <1>4 DEF BeginAdd
    <2> QED BY <2>1 DEF Adding
<1>5. ASSUME NEW w \in Workers, AddStep(w)
      PROVE  v = w /\ (Read(v) \/ Open(v))
    <2>1. v = w
        BY <1>1, <1>5, Alone DEF Adding
    <2> QED BY <1>5, <2>1 DEF AddStep, Count, OpenRaises, Write, WriteRaises, Refuse
<1>6. CASE Read(v)
    <2> DEFINE C == Cardinality(Keys)
    <2>1. at[v] = "read" /\ at'[v] = "open" /\ UNCHANGED <<store, ssid>>
        BY <1>6 DEF Read, Refuse
    <2>2. /\ draft[v][ssid[v]] = C
          /\ \A s \in Ssids : store[s] <= C
        BY <1>1, <1>6, <2>1, Alone DEF AddStep, Ranked, Adding
    <2>3. PICK r \in Readings :
              draft' = [draft EXCEPT ![v] = [r EXCEPT ![ssid[v]] = draft[v][ssid[v]]]]
        BY <1>1, <1>6, <2>1 DEF Read, Refuse
    <2>4. r \in [Ssids -> Nat \cup {Absent}] /\ C \in Nat
        BY ReadingHolds, KeysFinite, SsidsAssumption
    <2>5. draft'[v] = [r EXCEPT ![ssid[v]] = C]
        BY <2>2, <2>3
    <2>6. \A s \in Ssids : r[s] <= C
        <3> TAKE s \in Ssids
        <3>1. CASE r[s] >= 0
            <4>1. PICK t \in Stored : r[s] = store[t]
                BY <3>1, ReadingHolds
            <4> QED BY <2>2, <4>1 DEF Stored
        <3>2. CASE ~(r[s] >= 0)
            BY <2>4, <3>2 DEF Absent
        <3> QED BY <3>1, <3>2
    <2>7. \A s \in Ssids : draft'[v][s] <= draft'[v][ssid'[v]]
        BY <2>1, <2>4, <2>5, <2>6
    <2>8. Keys \subseteq {ReadBack[s] : s \in Drafted(v)'}
        <3> SUFFICES ASSUME NEW t \in Stored
                     PROVE  ReadBack[t] \in {ReadBack[s] : s \in Drafted(v)'}
            BY <1>1 DEF Keys
        <3>1. /\ t \in Ssids /\ ReadBack[t] \in Ssids
              /\ ReadBack[ReadBack[t]] = ReadBack[t]
            BY ReadBackAssumption DEF Stored
        <3>2. r[ReadBack[t]] >= 0
            BY <3>1, ReadingHolds
        <3>3. draft'[v][ReadBack[t]] >= 0
            BY <2>4, <2>5, <3>1, <3>2
        <3> QED BY <3>1, <3>3 DEF Drafted
    <2>9. {ReadBack[s] : s \in Drafted(v)'} \subseteq Ssids
        BY ReadBackAssumption DEF Drafted
    <2>10. C <= Cardinality({ReadBack[s] : s \in Drafted(v)'})
        BY <2>8, <2>9, FewerNames
    <2>11. draft'[v][ssid'[v]] = C
        BY <2>1, <2>4, <2>5
    <2> QED BY <2>1, <2>7, <2>10, <2>11
<1>7. CASE Open(v)
    BY <1>1, <1>2, <1>3, <1>7 DEF Open
<1>8. ASSUME NEW w \in Workers, AddReturns(w)
      PROVE  UNCHANGED <<store, draft>> /\ ssid'[v] = ssid[v] /\ at[v] = at'[v]
    BY <1>8 DEF AddReturns
<1>9. CASE StoreCrash
    BY <1>9 DEF StoreCrash
<1>10. CASE UNCHANGED storeVars
    BY <1>2, <1>3, <1>10 DEF storeVars
<1> QED BY <1>2, <1>3, <1>4, <1>5, <1>6, <1>7, <1>8, <1>9, <1>10, StoreSteps

-------------------------------------------------------------------------------
(* The theorems. *)

(* Before any request, with the initial network of the image or none.         *)
LEMMA InitHolds == Init => IInv
<1> SUFFICES ASSUME Init PROVE IInv
    OBVIOUS
<1> USE DEF Init, StoreInit
<1>1. StoreTypeOK
    <2>1. Nothing \in [Ssids -> Nat \cup {Absent}]
        BY DEF Nothing
    <2>2. store \in [Ssids -> Nat \cup {Absent, Emptied}]
        BY DEF Nothing
    <2>3. NoName \in Ssids
        BY SomeName
    <2>4. (overlapped \in BOOLEAN) /\ (cut \in BOOLEAN) /\ (perSsid \in BOOLEAN)
        BY Zenon
    <2> QED BY <2>1, <2>2, <2>3, <2>4 DEF StoreTypeOK, Places
<1>2. TypeOK
    <2>1. (flag \in BOOLEAN) /\ (due \in BOOLEAN) /\ (clobbered \in BOOLEAN)
        BY Zenon
    <2>2. received \in 0..MaxRequests
        BY RequestsAssumption
    <2> QED BY <1>1, <2>1, <2>2 DEF TypeOK, Stages
<1>3. \A w \in Workers : at[w] = "out"
    OBVIOUS
<1>4. Ranked
    <2>1. \A s \in Ssids : store[s] <= 0
        BY DEF Nothing, Absent
    <2>2. Cardinality(Keys) \in Nat
        BY <1>1, KeysFinite
    <2>3. \A s \in Ssids : store[s] <= Cardinality(Keys)
        BY <1>1, <2>1, <2>2 DEF StoreTypeOK, Absent, Emptied
    <2> QED BY <1>3, <2>3 DEF Ranked
<1>5. Staged /\ FlagCarried /\ Awaited /\ OneAdds
    BY <1>3 DEF Staged, FlagCarried, Awaited, OneAdds, Adding
<1>6. HasPriority /\ KeptInFiles /\ KeptInDraft /\ RankedInFiles /\ RankedInDraft
    BY <1>3 DEF HasPriority, Accepted, KeptInFiles, KeptInDraft, RankedInFiles, RankedInDraft
<1> QED BY <1>2, <1>4, <1>5, <1>6 DEF IInv

(* The invariant of the requests and of the store they write: the types, who  *)
(* carries the flag, which networks are kept, and how the priorities rank.    *)
THEOREM Invariance == Spec => []IInv
<1>1. IInv /\ [Next]_vars => IInv'
    BY TypeStep, StagedStep, FlagCarriedStep, AwaitedStep, OneAddsStep, HasPriorityStep,
       KeptInFilesStep, KeptInDraftStep, RankedStep, RankedInFilesStep, RankedInDraftStep
       DEF IInv
<1> QED BY InitHolds, <1>1, PTL DEF Spec

(* WifiWebServer and the configuration files hold only what their types say,  *)
(* whatever requests run beside each other.                                   *)
THEOREM RequestsTypeCorrect == Spec => []TypeOK
<1>1. IInv => TypeOK
    BY DEF IInv
<1> QED BY <1>1, Invariance, PTL

(* Once no request is being served, _network_configured is not set: the hook  *)
(* of whoever set it has cleared it.                                          *)
THEOREM FlagNeverStale == Spec => []NoStaleFlag
<1>1. IInv => NoStaleFlag
    BY DEF IInv, FlagCarried, NoStaleFlag, Quiet
<1> QED BY <1>1, Invariance, PTL

(* Once no request is being served, a network added since the last completion *)
(* thread can only have lost its own to a refusal that overwrote the flag.    *)
THEOREM CompletionAlwaysFollows == Spec => []CompletionFollowsAdd
<1>1. IInv => CompletionFollowsAdd
    BY DEF IInv, TypeOK, FlagCarried, Awaited, CompletionFollowsAdd, Quiet
<1> QED BY <1>1, Invariance, PTL

(* What on_add_network_requested answered True for stays in the files, unless *)
(* a kill struck inside an add, a write of its own file raised or, in the one *)
(* file, adds overlapped or a write raised.                                   *)
THEOREM AckedStaysStored == Spec => []AckedStored
<1>1. ASSUME IInv, Quiet, ~cut, perSsid \/ ~overlapped,
             NEW s \in acked \ torn, perSsid \/ ReadBack[s] = s
      PROVE  s \in Stored
    <2> USE <1>1 DEF IInv
    <2>1. \A w \in Workers : at[w] = "out"
        BY DEF Quiet, Staged
    <2>2. s \in Accepted /\ s \in Ssids
        BY DEF Accepted, TypeOK
    <2>3. store[s] >= 0
        BY <2>1, <2>2 DEF KeptInFiles, KeptInDraft
    <2> QED BY <2>2, <2>3 DEF Stored
<1>2. IInv => AckedStored
    BY <1>1 DEF AckedStored
<1> QED BY <1>2, Invariance, PTL

(* No network that was there outranks one that is added without another add   *)
(* beside it: the count that gives the priority is above all it gave before.  *)
THEOREM AddedAloneIsTop == Spec => NotOutranked
<1> DEFINE Top == \A w \in Workers :
        at[w] = "write" /\ at'[w] = "added" /\ ~overlapped /\ ~cut =>
            \A s \in Ssids : store'[s] <= store'[ssid[w]]
<1>1. ASSUME IInv, [Next]_vars PROVE Top
    <2> SUFFICES ASSUME NEW w \in Workers, at[w] = "write", at'[w] = "added",
                        ~overlapped, ~cut
                 PROVE  \A s \in Ssids : store'[s] <= store'[ssid[w]]
        OBVIOUS
    <2> USE <1>1 DEF IInv, TypeOK, StoreTypeOK, Goto
    <2>1. CASE \E v \in Workers, n \in Ssids : BeginAdd(v, n)
        BY <2>1 DEF BeginAdd
    <2>2. ASSUME NEW v \in Workers, AddStep(v) PROVE v = w /\ Write(w)
        <3>1. v = w
            BY <2>2, Alone DEF Adding
        <3> QED BY <2>2, <3>1
                DEF AddStep, Count, Read, Open, OpenRaises, WriteRaises, Refuse
    <2>3. CASE \E v \in Workers : AddReturns(v)
        BY <2>3 DEF AddReturns
    <2>4. CASE StoreCrash \/ UNCHANGED storeVars
        BY <2>4 DEF StoreCrash, storeVars
    <2>5. CASE Write(w)
        BY <1>1, <2>5, WriteAlone
    <2> QED BY <2>1, <2>2, <2>3, <2>4, <2>5, StoreSteps
<1>2. IInv /\ [Next]_vars => [Top]_vars
    BY <1>1
<1> QED BY <1>2, Invariance, PTL DEF Spec, NotOutranked
===============================================================================
