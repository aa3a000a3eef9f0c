--------------------------------- MODULE Blink ---------------------------------
(***************************************************************************)
(* The identification signal: web workers call BlinkControl.blink, which    *)
(* opens, drives and closes the one GpioBlinkDevice, without a lock.  Every *)
(* method of the device reads its _device twice: for a test, then for use.  *)
(* Time is counted in periods of the tone, an on and an off, and passes     *)
(* only with them: the clock, which _blink reads at the start of a round    *)
(* and again at each test, is assumed not to be set, nor a thread to be     *)
(* kept from running for a whole interval between the two.                  *)
(***************************************************************************)
EXTENDS Integers

CONSTANTS
    Workers,        \* web worker threads
    NoOne,          \* not a worker
    Second,         \* periods in a second: BlinkConfig.frequency
    Interval,       \* BlinkConfig.interval in periods
    Count,          \* BlinkConfig.count
    MaxRequests     \* bound of the requests received

ASSUME BlinkAssumption ==
    /\ NoOne \notin Workers
    /\ {Second, Interval, Count} \subseteq Nat \ {0} /\ MaxRequests \in Nat

VARIABLES
    device,     \* GpioBlinkDevice._device: whose object it is
    pin,        \* whose object has reserved the pin: an object without it is closed
    pc,         \* where each worker is in blink
    round,      \* how many of Count are done
    periods,    \* how long the round has gone on
    received,   \* requests received
    outcome,    \* how each worker's last blink ended
    pulses,     \* history: rounds of this blink in which the pin was switched on
    overlapped  \* history: another blink was under way during this one

vars == <<device, pin, pc, round, periods, received, outcome, pulses, overlapped>>

Places == {"idle", "open", "construct", "assign", "elapsed", "onTest", "on", "offTest",
           "off", "closeTest", "close", "unset"}

TypeOK ==
    /\ device \in Workers \cup {NoOne} /\ pin \in Workers \cup {NoOne}
    /\ pc \in [Workers -> Places]
    /\ round \in [Workers -> 0..Count] /\ periods \in [Workers -> 0..Interval]
    /\ received \in 0..MaxRequests
    /\ outcome \in [Workers -> {"none", "blinked", "logged", "raised"}]
    /\ pulses \in [Workers -> SUBSET (0..(Count - 1))]
    /\ overlapped \in [Workers -> BOOLEAN]

Init ==
    /\ device = NoOne /\ pin = NoOne
    /\ pc = [w \in Workers |-> "idle"]
    /\ round = [w \in Workers |-> 0] /\ periods = [w \in Workers |-> 0]
    /\ received = 0
    /\ outcome = [w \in Workers |-> "none"]
    /\ pulses = [w \in Workers |-> {}]
    /\ overlapped = [w \in Workers |-> FALSE]

Goto(w, place) == pc' = [pc EXCEPT ![w] = place]
Ends(w, how)   == outcome' = [outcome EXCEPT ![w] = how]

Blinking == {w \in Workers : pc[w] # "idle"}

\* An exception inside blink is logged; the device is closed all the same.
Raises(w) == Goto(w, "closeTest") /\ Ends(w, "logged")

Device == <<device, pin>>
Rounds == <<round, periods, pulses>>

-------------------------------------------------------------------------------
Identify(w) ==
    /\ pc[w] = "idle" /\ received < MaxRequests
    /\ received' = received + 1
    /\ Goto(w, "open")
    /\ Ends(w, "blinked")
    /\ round' = [round EXCEPT ![w] = 0] /\ periods' = [periods EXCEPT ![w] = 0]
    /\ pulses' = [pulses EXCEPT ![w] = {}]
    /\ overlapped' = [v \in Workers |->
                        IF v = w THEN Blinking # {} ELSE overlapped[v] \/ v \in Blinking]
    /\ UNCHANGED Device

\* Mutant: the test is inverted.
OpenInverted(w) ==
    /\ pc[w] = "open"
    /\ Goto(w, IF device = NoOne THEN "elapsed" ELSE "construct")
    /\ UNCHANGED <<Device, Rounds, received, outcome, overlapped>>

Open(w) ==
    /\ pc[w] = "open"
    /\ Goto(w, IF device = NoOne THEN "construct" ELSE "elapsed")
    /\ UNCHANGED <<Device, Rounds, received, outcome, overlapped>>

\* DigitalOutputDevice raises when the pin is in use, or cannot be set up.
Construct(w) ==
    /\ pc[w] = "construct"
    /\ \/ pin = NoOne /\ pin' = w /\ Goto(w, "assign") /\ UNCHANGED outcome
       \/ Raises(w) /\ UNCHANGED pin
    /\ UNCHANGED <<device, Rounds, received, overlapped>>

Assign(w) ==
    /\ pc[w] = "assign"
    /\ Goto(w, "elapsed")
    /\ device' = w
    /\ UNCHANGED <<pin, Rounds, received, outcome, overlapped>>

\* total_seconds() and microseconds: the part of the second is counted twice.
ElapsedPeriods(n) == n + (n % Second)

\* The loop of _blink, and at its end the loop of blink.
Elapsed(w) ==
    /\ pc[w] = "elapsed"
    /\ IF ElapsedPeriods(periods[w]) < Interval
       THEN Goto(w, "onTest") /\ UNCHANGED <<round, periods>>
       ELSE /\ Goto(w, IF round[w] + 1 < Count THEN "elapsed" ELSE "closeTest")
            /\ round' = [round EXCEPT ![w] = @ + 1]
            /\ periods' = [periods EXCEPT ![w] = 0]
    /\ UNCHANGED <<Device, pulses, received, outcome, overlapped>>

\* Nothing is switched when there is no device.
Test(w, from, use, next) ==
    /\ pc[w] = from
    /\ Goto(w, IF device = NoOne THEN next ELSE use)

OnTest(w) ==
    /\ Test(w, "onTest", "on", "offTest")
    /\ UNCHANGED <<Device, Rounds, received, outcome, overlapped>>

\* A device that is gone since the test, or closed, raises.
Usable == device # NoOne /\ pin = device

On(w) ==
    /\ pc[w] = "on"
    /\ IF Usable
       THEN /\ Goto(w, "offTest") /\ UNCHANGED outcome
            /\ pulses' = [pulses EXCEPT ![w] = @ \cup {round[w]}]
       ELSE Raises(w) /\ UNCHANGED pulses
    /\ UNCHANGED <<Device, round, periods, received, overlapped>>

\* Mutant: time does not go on.
OffTestStill(w) ==
    /\ Test(w, "offTest", "off", "elapsed")
    /\ UNCHANGED <<Device, Rounds, received, outcome, overlapped>>

OffTest(w) ==
    /\ Test(w, "offTest", "off", "elapsed")
    /\ periods' = [periods EXCEPT ![w] = @ + 1]
    /\ UNCHANGED <<Device, round, pulses, received, outcome, overlapped>>

Off(w) ==
    /\ pc[w] = "off"
    /\ IF Usable THEN Goto(w, "elapsed") /\ UNCHANGED outcome ELSE Raises(w)
    /\ UNCHANGED <<Device, Rounds, received, overlapped>>

CloseTest(w) ==
    /\ Test(w, "closeTest", "close", "idle")
    /\ UNCHANGED <<Device, Rounds, received, outcome, overlapped>>

\* The finally clause: its exception leaves blink, and the request is answered 500.
Close(w) ==
    /\ pc[w] = "close"
    /\ IF device = NoOne
       THEN Goto(w, "idle") /\ Ends(w, "raised") /\ UNCHANGED pin
       ELSE /\ Goto(w, "unset") /\ UNCHANGED outcome
            /\ pin' = IF pin = device THEN NoOne ELSE pin
    /\ UNCHANGED <<device, Rounds, received, overlapped>>

\* Mutant: the closed device is kept.
UnsetNothing(w) ==
    /\ pc[w] = "unset"
    /\ Goto(w, "idle")
    /\ UNCHANGED <<Device, Rounds, received, outcome, overlapped>>

\* An object that nothing refers to closes itself.
Unset(w) ==
    /\ pc[w] = "unset"
    /\ Goto(w, "idle")
    /\ device' = NoOne
    /\ pin' = IF pin = device THEN NoOne ELSE pin
    /\ UNCHANGED <<Rounds, received, outcome, overlapped>>

Step(w) ==
    \/ Open(w) \/ Construct(w) \/ Assign(w) \/ Elapsed(w) \/ OnTest(w) \/ On(w)
    \/ OffTest(w) \/ Off(w) \/ CloseTest(w) \/ Close(w) \/ Unset(w)

Next == \E w \in Workers : Identify(w) \/ Step(w)

Spec == Init /\ [][Next]_vars

\* Every thread that can run runs.
FairSpec == Spec /\ \A w \in Workers : WF_vars(Step(w))

-------------------------------------------------------------------------------
(* However blinks overlap, once all are over the pin is free and the device  *)
(* is forgotten, so that the next blink can open it.                         *)
PinReleased == Blinking = {} => pin = NoOne /\ device = NoOne

(* A blink that overlapped no other is not broken off: it ends in an answer, *)
(* and it has switched the pin on in every round, unless the device could    *)
(* not be opened.                                                            *)
AloneBlinks ==
    \A w \in Workers : pc[w] = "idle" /\ ~overlapped[w] =>
        /\ outcome[w] # "raised"
        /\ outcome[w] = "blinked" => pulses[w] = 0..(Count - 1)

(* Every blink ends, whatever other blinks do to the device.                 *)
BlinkEnds == \A w \in Workers : pc[w] # "idle" ~> pc[w] = "idle"

(* arguments/arguments.py, line 182: "blink interval in seconds".            *)
BlinkLasts ==
    [][\A w \in Workers : round'[w] > round[w] => periods[w] >= Interval]_vars
===============================================================================
