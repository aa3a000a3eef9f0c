------------------------------ MODULE BlinkProofs ------------------------------
(* Proofs about Blink, for every set of workers, every tone and any number of *)
(* requests.                                                                  *)
EXTENDS Blink, TLAPS

Opening == {"open", "construct", "assign"}
Loop    == {"elapsed", "onTest", "on", "offTest", "off"}
Closing == {"closeTest", "close", "unset"}

(* The inductive invariant.  The device and the pin each stand for a worker   *)
(* that has not left: whose object it is, or will be once it is assigned.     *)
DeviceHeld == device # NoOne => pc[device] \in Loop \cup Closing
PinHeld    == pin # NoOne => pc[pin] = "assign" \/ device = pin
AssignPins == \A w \in Workers : pc[w] = "assign" => pin = w

(* The counts stay in their bounds from the test that lets a loop go on.      *)
Bounded ==
    \A w \in Workers :
        /\ pc[w] \in Opening => periods[w] = 0
        /\ pc[w] \in Opening \cup Loop => round[w] < Count
        /\ pc[w] \in {"onTest", "on", "offTest"} => periods[w] < Interval

(* As long as a blink overlaps no other it is the only one, the device is its *)
(* own, and each round up to here has had its pulse.                          *)
Alone(w) == ~overlapped[w]

OnlyOne == \A w \in Workers : Alone(w) /\ pc[w] # "idle" => Blinking = {w}

OwnDevice ==
    \A w \in Workers : Alone(w) =>
        /\ pc[w] \in Loop /\ outcome[w] = "blinked" => device = w /\ pin = w
        /\ pc[w] = "close" => device # NoOne
        /\ outcome[w] # "raised"

Pulsed ==
    \A w \in Workers : Alone(w) /\ outcome[w] = "blinked" =>
        /\ \A r \in 0..(Count - 1) : r < round[w] => r \in pulses[w]
        /\ (pc[w] \in Loop /\ periods[w] > 0) \/ pc[w] \in {"offTest", "off"}
              => round[w] \in pulses[w]
        /\ pc[w] \in Closing \cup {"idle"} => round[w] = Count

IInv ==
    /\ TypeOK /\ DeviceHeld /\ PinHeld /\ AssignPins /\ Bounded
    /\ OnlyOne /\ OwnDevice /\ Pulsed

-------------------------------------------------------------------------------
(* What the program takes for the time that has elapsed is no less than the   *)
(* periods that have, and nothing at first.                                   *)
LEMMA ElapsedFromZero ==
    ASSUME NEW n \in Nat
    PROVE  ElapsedPeriods(n) >= n /\ ElapsedPeriods(0) = 0
<1>1. Second \in Nat \ {0}
    BY BlinkAssumption
<1>2. n % Second \in 0..(Second - 1) /\ 0 % Second = 0
    BY <1>1
<1> QED BY <1>1, <1>2 DEF ElapsedPeriods

(* Every step keeps every variable in its type: a round is counted only up to *)
(* Count, its periods only as long as they are fewer than Interval.           *)
LEMMA TypeStep == TypeOK /\ Bounded /\ [Next]_vars => TypeOK'
<1> SUFFICES ASSUME TypeOK, Bounded, [Next]_vars PROVE TypeOK'
    OBVIOUS
<1> USE BlinkAssumption DEF TypeOK, Places, Goto, Ends, Raises, Device, Rounds, Test
<1>1. ASSUME NEW w \in Workers, Identify(w) PROVE TypeOK'
    <2>1. received' \in 0..MaxRequests
        BY <1>1 DEF Identify
    <2>2. overlapped' \in [Workers -> BOOLEAN]
        BY <1>1, Zenon DEF Identify
    <2>3. 0 \in 0..Count /\ 0 \in 0..Interval
        OBVIOUS
    <2> QED BY <1>1, <2>1, <2>2, <2>3 DEF Identify
<1>2. ASSUME NEW w \in Workers, Open(w) \/ Construct(w) \/ Assign(w) PROVE TypeOK'
    BY <1>2 DEF Open, Construct, Assign
<1>3. ASSUME NEW w \in Workers, Elapsed(w) PROVE TypeOK'
    <2>1. round[w] < Count /\ round[w] \in 0..Count
        BY <1>3 DEF Elapsed, Bounded, Opening, Loop
    <2>2. round[w] + 1 \in 0..Count /\ 0 \in 0..Interval
        BY <2>1
    <2> QED BY <1>3, <2>2 DEF Elapsed
<1>4. ASSUME NEW w \in Workers, OnTest(w) \/ On(w) PROVE TypeOK'
    <2>1. pc[w] = "on" => round[w] \in 0..(Count - 1)
        BY DEF Bounded, Opening, Loop
    <2> QED BY <1>4, <2>1 DEF OnTest, On, Usable
<1>5. ASSUME NEW w \in Workers, OffTest(w) PROVE TypeOK'
    <2>1. periods[w] + 1 \in 0..Interval
        BY <1>5 DEF OffTest, Bounded
    <2> QED BY <1>5, <2>1 DEF OffTest
<1>6. ASSUME NEW w \in Workers, Off(w) PROVE TypeOK'
    BY <1>6 DEF Off, Usable
<1>7. ASSUME NEW w \in Workers, CloseTest(w) \/ Close(w) \/ Unset(w) PROVE TypeOK'
    BY <1>7 DEF CloseTest, Close, Unset
<1>8. CASE UNCHANGED vars
    BY <1>8 DEF vars
<1> QED BY <1>1, <1>2, <1>3, <1>4, <1>5, <1>6, <1>7, <1>8 DEF Next, Step

(* No worker leaves the device behind as its own: it goes from "closeTest" or *)
(* "close" only where there is none, and from "unset" it makes it none.  Nor  *)
(* can the pin be taken from a worker that has it and has not assigned it.    *)
LEMMA HolderStep ==
    TypeOK /\ DeviceHeld /\ PinHeld /\ AssignPins /\ [Next]_vars
        => DeviceHeld' /\ PinHeld' /\ AssignPins'
<1> SUFFICES ASSUME TypeOK, DeviceHeld, PinHeld, AssignPins, [Next]_vars
             PROVE  DeviceHeld' /\ PinHeld' /\ AssignPins'
    OBVIOUS
<1> USE BlinkAssumption
    DEF TypeOK, Goto, Raises, Device, Test, DeviceHeld, PinHeld, AssignPins, Loop, Closing
<1>1. ASSUME NEW w \in Workers, Identify(w) \/ Open(w)
      PROVE  DeviceHeld' /\ PinHeld' /\ AssignPins'
    BY <1>1 DEF Identify, Open
<1>2. ASSUME NEW w \in Workers, Construct(w)
      PROVE  DeviceHeld' /\ PinHeld' /\ AssignPins'
    BY <1>2 DEF Construct
<1>3. ASSUME NEW w \in Workers, Assign(w)
      PROVE  DeviceHeld' /\ PinHeld' /\ AssignPins'
    BY <1>3 DEF Assign
<1>4. ASSUME NEW w \in Workers, Elapsed(w) \/ OnTest(w) \/ On(w) \/ OffTest(w) \/ Off(w)
      PROVE  DeviceHeld' /\ PinHeld' /\ AssignPins'
    BY <1>4 DEF Elapsed, OnTest, On, OffTest, Off
<1>5. ASSUME NEW w \in Workers, CloseTest(w)
      PROVE  DeviceHeld' /\ PinHeld' /\ AssignPins'
    BY <1>5 DEF CloseTest
<1>6. ASSUME NEW w \in Workers, Close(w)
      PROVE  DeviceHeld' /\ PinHeld' /\ AssignPins'
    BY <1>6 DEF Close
<1>7. ASSUME NEW w \in Workers, Unset(w)
      PROVE  DeviceHeld' /\ PinHeld' /\ AssignPins'
    BY <1>7 DEF Unset
<1>8. CASE UNCHANGED vars
    BY <1>8 DEF vars
<1> QED BY <1>1, <1>2, <1>3, <1>4, <1>5, <1>6, <1>7, <1>8 DEF Next, Step

(* The loops begin at zero and go on only below their bounds.                 *)
LEMMA BoundedStep == TypeOK /\ Bounded /\ [Next]_vars => Bounded'
<1> SUFFICES ASSUME TypeOK, Bounded, [Next]_vars PROVE Bounded'
    OBVIOUS
<1> USE BlinkAssumption DEF TypeOK, Goto, Raises, Rounds, Test, Bounded, Opening, Loop
<1>1. ASSUME NEW w \in Workers, Identify(w) PROVE Bounded'
    BY <1>1 DEF Identify
<1>2. ASSUME NEW w \in Workers, Open(w) \/ Construct(w) \/ Assign(w) PROVE Bounded'
    BY <1>2 DEF Open, Construct, Assign
<1>3. ASSUME NEW w \in Workers, Elapsed(w) PROVE Bounded'
    <2>1. ElapsedPeriods(periods[w]) < Interval => periods[w] < Interval
        BY ElapsedFromZero DEF ElapsedPeriods
    <2> QED BY <1>3, <2>1 DEF Elapsed
<1>4. ASSUME NEW w \in Workers, OnTest(w) \/ On(w) PROVE Bounded'
    BY <1>4 DEF OnTest, On
<1>5. ASSUME NEW w \in Workers, OffTest(w) \/ Off(w) PROVE Bounded'
    BY <1>5 DEF OffTest, Off
<1>6. ASSUME NEW w \in Workers, CloseTest(w) \/ Close(w) \/ Unset(w) PROVE Bounded'
    BY <1>6 DEF CloseTest, Close, Unset
<1>7. CASE UNCHANGED vars
    BY <1>7 DEF vars
<1> QED BY <1>1, <1>2, <1>3, <1>4, <1>5, <1>6, <1>7 DEF Next, Step

(* Another blink that begins marks both; only a blink that begins joins.      *)
LEMMA OnlyOneStep == TypeOK /\ OnlyOne /\ [Next]_vars => OnlyOne'
<1> SUFFICES ASSUME TypeOK, OnlyOne, [Next]_vars PROVE OnlyOne'
    OBVIOUS
<1> USE DEF TypeOK, Goto, Raises, Device, Test, OnlyOne, Alone, Blinking
<1>1. ASSUME NEW w \in Workers, Identify(w) PROVE OnlyOne'
    BY <1>1 DEF Identify
<1>2. ASSUME NEW w \in Workers, Step(w)
      PROVE  pc[w] # "idle" /\ (\A v \in Workers \ {w} : pc'[v] = pc[v]) /\ UNCHANGED overlapped
    <2>1. CASE Open(w) \/ Construct(w) \/ Assign(w) \/ Elapsed(w) \/ OnTest(w) \/ On(w)
        BY <2>1 DEF Open, Construct, Assign, Elapsed, OnTest, On
    <2>2. CASE OffTest(w) \/ Off(w) \/ CloseTest(w) \/ Close(w) \/ Unset(w)
        BY <2>2 DEF OffTest, Off, CloseTest, Close, Unset
    <2> QED BY <1>2, <2>1, <2>2 DEF Step
<1>3. CASE UNCHANGED vars
    BY <1>3 DEF vars
<1> QED BY <1>1, <1>2, <1>3 DEF Next

(* A blink that is the only one keeps the device it has opened.               *)
LEMMA OwnDeviceStep == IInv /\ [Next]_vars => OwnDevice'
<1> SUFFICES ASSUME IInv, [Next]_vars PROVE OwnDevice'
    OBVIOUS
<1> USE BlinkAssumption
    DEF IInv, TypeOK, Goto, Ends, Raises, Device, Test, OwnDevice, Alone, Loop, Closing
<1>1. ASSUME NEW w \in Workers, Step(w), NEW v \in Workers \ {w}, Alone(v)
      PROVE  pc[v] = "idle"
    BY <1>1 DEF OnlyOne, Blinking, Step, Open, Construct, Assign, Elapsed, OnTest, On,
                OffTest, Off, CloseTest, Close, Unset
<1>2. ASSUME NEW w \in Workers, Identify(w) PROVE OwnDevice'
    BY <1>2 DEF Identify, OnlyOne, Blinking
<1>3. ASSUME NEW w \in Workers, Open(w) PROVE OwnDevice'
    <2>1. Alone(w) => device = NoOne
        BY <1>3 DEF Open, OnlyOne, Blinking, DeviceHeld
    <2> QED BY <1>1, <1>3, <2>1 DEF Open, Step
<1>4. ASSUME NEW w \in Workers, Construct(w) \/ Assign(w) PROVE OwnDevice'
    BY <1>1, <1>4 DEF Construct, Assign, Step, AssignPins
<1>5. ASSUME NEW w \in Workers, Elapsed(w) \/ OnTest(w) \/ OffTest(w) PROVE OwnDevice'
    BY <1>1, <1>5 DEF Elapsed, OnTest, OffTest, Step
<1>6. ASSUME NEW w \in Workers, On(w) \/ Off(w) PROVE OwnDevice'
    BY <1>1, <1>6 DEF On, Off, Step
<1>7. ASSUME NEW w \in Workers, CloseTest(w) \/ Close(w) \/ Unset(w) PROVE OwnDevice'
    BY <1>1, <1>7 DEF CloseTest, Close, Unset, Step
<1>8. CASE UNCHANGED vars
    BY <1>8 DEF vars
<1> QED BY <1>2, <1>3, <1>4, <1>5, <1>6, <1>7, <1>8 DEF Next, Step

(* Such a blink does not leave a round before it has switched the pin on: the *)
(* loop cannot end at its first look at the clock.                            *)
LEMMA PulsedStep == IInv /\ [Next]_vars => Pulsed'
<1> SUFFICES ASSUME IInv, [Next]_vars PROVE Pulsed'
    OBVIOUS
<1> USE BlinkAssumption
    DEF IInv, TypeOK, Goto, Ends, Raises, Rounds, Test, Pulsed, Alone, Opening, Loop, Closing
<1>1. ASSUME NEW w \in Workers, Identify(w) PROVE Pulsed'
    BY <1>1 DEF Identify
<1>2. ASSUME NEW w \in Workers, Open(w) \/ Construct(w) \/ Assign(w) PROVE Pulsed'
    BY <1>2 DEF Open, Construct, Assign, Bounded
<1>3. ASSUME NEW w \in Workers, Elapsed(w) PROVE Pulsed'
    <2>1. CASE ElapsedPeriods(periods[w]) < Interval
        BY <1>3, <2>1 DEF Elapsed
    <2>2. CASE ~(ElapsedPeriods(periods[w]) < Interval)
        <3>1. periods[w] > 0
            BY <2>2, ElapsedFromZero
        <3>2. round[w] < Count
            BY <1>3 DEF Elapsed, Bounded
        <3> QED BY <1>3, <2>2, <3>1, <3>2 DEF Elapsed
    <2> QED BY <2>1, <2>2
<1>4. ASSUME NEW w \in Workers, OnTest(w) PROVE Pulsed'
    BY <1>4 DEF OnTest, OwnDevice
<1>5. ASSUME NEW w \in Workers, On(w) PROVE Pulsed'
    BY <1>5 DEF On
<1>6. ASSUME NEW w \in Workers, OffTest(w) PROVE Pulsed'
    BY <1>6 DEF OffTest
<1>7. ASSUME NEW w \in Workers, Off(w) PROVE Pulsed'
    BY <1>7 DEF Off
<1>8. ASSUME NEW w \in Workers, CloseTest(w) \/ Close(w) \/ Unset(w) PROVE Pulsed'
    BY <1>8 DEF CloseTest, Close, Unset
<1>9. CASE UNCHANGED vars
    BY <1>9 DEF vars
<1> QED BY <1>1, <1>2, <1>3, <1>4, <1>5, <1>6, <1>7, <1>8, <1>9 DEF Next, Step

-------------------------------------------------------------------------------
(* The invariant holds in every reachable state of every instance.            *)
THEOREM Invariance == Spec => []IInv
<1>1. Init => IInv
    <2> SUFFICES ASSUME Init PROVE IInv
        OBVIOUS
    <2> USE BlinkAssumption DEF Init
    <2>1. TypeOK
        <3>1. 0 \in 0..Count /\ 0 \in 0..Interval /\ 0 \in 0..MaxRequests
            OBVIOUS
        <3> QED BY <3>1 DEF TypeOK, Places
    <2>2. DeviceHeld /\ PinHeld /\ AssignPins
        BY DEF DeviceHeld, PinHeld, AssignPins
    <2>3. Bounded
        BY DEF Bounded, Opening, Loop
    <2>4. OnlyOne /\ OwnDevice /\ Pulsed
        BY DEF OnlyOne, OwnDevice, Pulsed, Loop
    <2> QED BY <2>1, <2>2, <2>3, <2>4 DEF IInv
<1>2. IInv /\ [Next]_vars => IInv'
    BY TypeStep, HolderStep, BoundedStep, OnlyOneStep, OwnDeviceStep, PulsedStep DEF IInv
<1> QED BY <1>1, <1>2, PTL DEF Spec

(* Type correctness of the signal's state: the counts of rounds and periods   *)
(* stay within the configured ones.                                           *)
THEOREM BlinkTypeCorrect == Spec => []TypeOK
<1>1. IInv => TypeOK BY DEF IInv
<1> QED BY <1>1, Invariance, PTL

(* GpioBlinkDevice.close: however many blinks overlap, and wherever one of    *)
(* them raises, the last to leave leaves the pin free and no device behind.   *)
THEOREM PinAlwaysReleased == Spec => []PinReleased
<1>1. IInv => PinReleased
    BY DEF IInv, TypeOK, DeviceHeld, PinHeld, PinReleased, Blinking, Loop, Closing
<1> QED BY <1>1, Invariance, PTL

(* BlinkControl.blink: a blink that overlapped no other has blinked in every  *)
(* round, or the device could not be opened.                                  *)
THEOREM AloneBlinksFully == Spec => []AloneBlinks
<1>1. IInv => AloneBlinks
    <2> SUFFICES ASSUME IInv, NEW w \in Workers, pc[w] = "idle", Alone(w)
                 PROVE  /\ outcome[w] # "raised"
                        /\ outcome[w] = "blinked" => pulses[w] = 0..(Count - 1)
        BY DEF AloneBlinks, Alone
    <2>1. outcome[w] # "raised"
        BY DEF IInv, OwnDevice
    <2>2. ASSUME outcome[w] = "blinked" PROVE pulses[w] = 0..(Count - 1)
        <3>1. pulses[w] \subseteq 0..(Count - 1)
            BY DEF IInv, TypeOK
        <3>2. \A r \in 0..(Count - 1) : r \in pulses[w]
            BY <2>2, BlinkAssumption DEF IInv, Pulsed
        <3> QED BY <3>1, <3>2
    <2> QED BY <2>1, <2>2
<1> QED BY <1>1, Invariance, PTL
===============================================================================
