# TLA+ specifications of wifi-manager

wifi-manager keeps an edge device reachable: it runs the Wi-Fi client
(NetworkManager, or wpa_supplicant with dhcpcd) as long as a network is found and
falls back to a hotspot (hostapd with dnsmasq) with a configuration page when none
is. This directory specifies its concurrent core, model-checks it with TLC and
proves with TLAPS, for every value of the constants, the invariants and the action
properties that the runs check and the refinement of the mode switch.

    tlc -config MCModeSwitch.cfg MCModeSwitch.tla     # one run; all are listed below
    tlapm ModeSwitchProofs.tla                        # the proofs of one component

## 1. Inventory

### Threads

| thread | what it runs |
|---|---|
| main | platform setup, services' `setup`, `_handle_initial_status`, then the web server; the signal handler, wherever main is |
| GLib loop | every D-Bus signal: unit states, link states, leases; hence all `_on_...` handlers, one at a time |
| timer threads | `_on_client_connect_timeout`, `_on_peer_connect_timeout`, `_check_connection` |
| web workers | waitress's pool: the views, and the `after_request` hook |
| completion threads | `on_add_network_completed`, one per hook that finds the flag set; not daemons: the process waits for them |

There is no lock in the program apart from the `Event` that `Service.setup` waits
on. Everything these threads share - the units, the timer, the failure counts, the
web server's flag, the network files, the GPIO device - is shared unprotected.

### Components

| component | state | operations | correct when |
|---|---|---|---|
| `WifiControl` | `_failures`; the two units (systemd's) | `start_client_mode`, `start_hotspot_mode`, `_handle_failure`, `get_state` | one mode at a time; the limit is never passed unnoticed |
| `WifiEventHandler` | the timer and its function | one handler per event, two time-outs, three web requests | an unserved device has its fallback armed, a connected one is left alone |
| `WifiManager` | none | `_setup_services`, `_setup_event_handling`, `_handle_initial_status` | start-up and shutdown come to an end; the device starts in a mode that leads on |
| `Service` and its subclasses | `_last_state`, `_failed`, `_config_reloaded`, unit files | `setup`, `start`, `stop`, `restart`, the handler of `ActiveState` | setup ends; forced stops hold; failures are answered |
| network configuration | one file, or one per ssid | `get_networks`, `add_network` | an accepted network is stored, and preferred |
| `WifiWebServer` | `_network_configured` | views and the hook | the answer is the request's own; client mode follows an accepted network |
| `ConnectionMonitor` | `_failures`, its timer | `start`, `stop`, `_check_connection` | it stays stopped, keeps checking, restores when and only when it should |
| `BlinkControl`, `GpioBlinkDevice` | `_device`, the pin | `blink`; `open`, `on`, `off`, `close` | the pin is free afterwards |
| `PlatformConfig` | two boot files | `setup` | a second setup finds nothing to change |
| `ConnectionAction` | none | `create_actions`, `run` | definitions become the right actions |
| `NetworkManagerDbus` | libnm's cache of devices, the handlers on a device | `add_connection_handler` | the program hears the device that lives, once |
| `WpaSupplicantDbus` | `_interface_path`, the receiver's path | `initialize`, `add_network`, `add_connection_handler` | the daemon has what was acknowledged, and is heard |
| `AvahiService`, and the other services' files | configuration files, the host name | `_need_config_setup`, `_setup_config` | a finished setup leaves the whole configuration, in force |
| captive portal (`WifiWebServer`, `PlatformAccess`) | the kernel's rules | set up, clean up | whole while serving, gone afterwards |
| `ServiceJournal`, `WlanInterfaceSelector`, `SystemdResolvedService`, arguments, entry point | none | | thin |

### Interaction

`main` wires one client and one hotspot service into `WifiControl`; the services
publish events into callbacks that `WifiManager` registers through `WifiControl`; the
handler calls `WifiControl` back, synchronously, from whichever thread it is on; the web
views call the handler; the handler starts and stops the monitor, and the monitor's
actions restart services. systemd executes start and stop requests as jobs after the
request has returned, and reports them as signals on the loop.

### What is hard

- Two threads inside `start_client_mode` and `start_hotspot_mode` at once; a unit
  that is `activating` is *not active* to `is_active` and is left running.
- The timer: armed, cancelled and restarted from every thread; a callback that has
  begun cannot be cancelled; handlers run on signals that are already out of date.
- Exceptions: every D-Bus request may raise, `get_state` and `get_status` included, and so
  may the commands, the pings and the writes. What is done after the raise differs from
  caller to caller (restart the timer, log, return False, nothing): what a handler raises is
  logged and dropped, what a timer's callback raises ends its thread.
- The monitor is started and stopped by two threads, main (the initial status, the
  shutdown) and the loop (the client's events), and its count is nobody's.
- `Service.setup` waits for a signal for ever.
- SIGTERM is handled on the main thread in the middle of whatever main does; main then
  goes on, and so do handlers and callbacks that are under way. The process ends only
  when main, the loop's thread and every timer's thread have ended.
- Files are emptied before they are written; writers are not serialised. A setup that is
  interrupted is completed by the next one only if the check still sees what is missing.
- What outlives the process: files, the kernel's rules, units, and a daemon that read its
  configuration before it was written.
- libnm's cache is updated by the GLib loop, on which a failed NetworkManager is also
  restarted and its device waited for.
- Read-modify-write on counters and flags shared by threads.

Each place is listed with its line under `hazards` in `PROJECT.json`.

## 2. Modules

| module | models | composes | constants |
|---|---|---|---|
| `ModePromise` | what a mode switch promises: off with the other, on with the own, an answer | | threads, failure limit |
| `ModeSwitch` | `WifiControl` over asynchronous units | implements `ModePromise` | threads, failure limit, units whose restart is stop-sleep-start |
| `WifiEvents` | `WifiEventHandler`, its timer, the signals, `_handle_initial_status`, restart of failed units | extends `ModeSwitch` | the three threads, bounds of queue and calls |
| `NetworkStore` | `add_network` of both configuration classes, `on_add_network_requested` | | workers, ssids, what a name is read back as |
| `WebConfigure` | the configure views, the shared flag, the hook, kills | extends `NetworkStore` | bound of requests |
| `ConnectionMonitor` | the monitor, who starts and stops it, and its timer's threads | | callers, check threads, limit, bound of calls |
| `ServiceFiles` | what each service's setup checks and writes, piece by piece | | |
| `ServiceSetup` | `Service.setup` against the `ActiveState` handler, over restarts of the process | extends `ServiceFiles` | bounds of signals, outside starts, faults and restarts |
| `NmDevice` | NetworkManager's device, libnm's cache, `restart` on the loop and on other threads | | retries, bounds of runs and deaths |
| `WpaInterface` | wpa_supplicant's interface, its path in the program, networks added in the daemon and in the file | | requesters, networks, bound of the environment |
| `ClientBackend` | the choice between the two | extends `NmDevice`, `WpaInterface` | |
| `Blink` | `BlinkControl.blink` on `GpioBlinkDevice` | | workers, frequency, interval, count |
| `PlatformConfig` | `PlatformConfig.setup` on the two boot files | | |
| `StartUp` | `main`, `WifiManager.run` and `shutdown`, registration, the captive portal's rules, the signal handler, the loop's and timers' threads, restarts by systemd | extends `PlatformConfig` | retries of the wait for NetworkManager's device |
| `MC...` | instances of these for TLC | | |
| `ModeSwitchProofs`, `WifiEventsProofs`, `WebConfigureProofs`, `ConnectionMonitorProofs`, `ServiceSetupProofs`, `ClientBackendProofs`, `BlinkProofs`, `StartUpProofs` | the theorems about each, section 6 | the module of that name | |

Definitions whose comment begins with "Mutant:" are used by no specification: each is one of
the definitions with a plausible bug, and shows that a property of a run would catch it.

### State and code

**ModeSwitch.** `unit[u]` is systemd's `ActiveState`, `failures` is
`WifiControl._failures`, `pc[t]` where thread `t` is inside a call, `target[t]` the mode
it switches to. The two methods are the same code with the services exchanged, so
there is one set of actions: `CheckOther` (`other.is_active()`), `StopOther`,
`CheckOwn`, `Start` or `Restart`, `Clear` (`_failures = 0`). `Raise` is the exception out
of any of them, `LoadFailures` ... `ResetFailures` is `_handle_failure` taken apart;
`ExecuteCommand` may raise, which skips the reset: the count then stays at its limit, and
`skipped` remembers that it does.
Each action is one D-Bus request or one access to the count; the other threads and
systemd (`JobEnds`, `UnitDies`) act in between. `tainted` is a history variable: it is set
when a call begins while another is under way, and when a check reads `activating` as
inactive, and cleared when a call begins alone. The start of dnsmasq or dhcpcd and the
configuration written beforehand are part of the request they precede.

**WifiEvents.** Signals wait in `queue` for the loop, which handles one event after the
other; `Begin` enters a switch of `ModeSwitch`, `Finish` is what the caller does with its
outcome (`AfterSwitch`, `AfterRaise`). A handler that makes no switch is one action. The
timer is its function and whether it will run: `cancel` keeps the function, and `restart`
runs it again. `link` is the radio as the client sees it; its changes, and those of the
leases, are the environment's and are signalled. The front thread is main at first
(`InitialStatus`) and a web worker afterwards; the completion thread is the front's second
half. `mark` records how the timer was last dealt with, see section 4; where `get_state` or
`get_status` raises (`StatusRaises`) the rest of the handler is left out, and the mark is
"raised". `deaf` says that signals of NetworkManager's present device are, or were, not
listened to: since the loop itself started it (`LoopRestartDeaf` of **NmDevice**), since it
came up before its start was through, or since the look-up failed. What such a device
reports never reaches the queue. `peer` stands for all leases: some station holds one.

**NetworkStore, WebConfigure.** A network is its priority on disk. `Count`, `Read`, `Open`,
`Write` are the accesses of one `add_network`; `Open` empties the file, `Write` is the
content that appears when it is closed. Either may raise (`OpenRaises`, `WriteRaises`): an
open that raises leaves the file as it was, a write that raises leaves it cut off, and the
answer is False. `torn` and `cut` remember the networks this may have cost. `perSsid`
chooses the class once. The one file is read back through `ReadBack`, which stands for the
stripping of blanks and the cut at '='; two names may be read as one (`Readings`). Each
access to the shared flag is an action: `Assign`, `Respond`, `TestFlag`, `SpawnCompletion`.

**ConnectionMonitor.** `caller[k]` is where main or the loop is in `start`: `StartClears`,
`StartArms`, `StartConnects` are its assignments, and the other thread's `Stop` may fall
between them. The signal handler's stop runs on main in the middle of main's own start,
which goes on afterwards. `Expire` puts a timer's thread at `ping`; `Good`, `LoadFailures`,
... `Rearm` are the accesses of `_check_connection` in the code's order; `PingRaises` ends
the check there, as a missing default route or a vanished interface does. A check outlives a
cancel and a new start of the timer, so a second may begin meanwhile.

**ServiceSetup.** `pc` runs through `setup`'s phases on main. `signals` holds the
`ActiveState` values on their way to the handler. `Become` merges: a settled state is
always signalled, a passing one may be dropped. Between "config" and the reload
`WritePiece` of **ServiceFiles** writes one piece at a time, and `Interrupted` may leave
the one under way torn; a command (`hostname`, `reload_daemon`) cannot be torn.
`Restarted` is a kill or an error anywhere, and systemd's new start of the program. `missed`
remembers an interruption after which the check passes although something is left to do.

**NmDevice.** `run` numbers NetworkManager's runs, `live` is the run whose device is on
the bus, `cache` the one the client knows. `call[t]` is where the loop, or the thread that
switches modes, is in `start` or `restart`; `RestartStops`, `Start`, `Look` are the code's
steps, and `Refresh`, the loop's own dispatch, cannot happen while the loop is in a call.
The loop makes the calls of a failed unit and of the last peer's departure (`ClientMode`).
`handlers` counts what is connected to the present run's device.

**WpaInterface.** `iface` is the number of the daemon's interface; `path` is the field
`_interface_path`, which `LookUp` assigns and `Use` reads, on any thread. `Looked` is
`get_interface_path`: the interface's path, the default one after an error, none when the
interface had to be created. `file` and `known` are the networks in the file and in the
interface.

**Blink.** Every method of the device reads `_device` twice, hence `OnTest` and `On`, and so
on. Time is counted in periods of the tone, and passes at the test of the round; the code
reads the clock there and once more for the elapsed time, and the model takes the two
readings for one: a step of the clock between them is left out. An object that nothing
refers to closes itself (gpiozero's finaliser under reference counting).

**PlatformConfig, StartUp.** Of the driver file only the line matters, and whether a newline
follows it. `pc` is where main is: "platform" and "services" before the loop's thread is
started, "start", "device", "config", "wait" inside one service's `setup`, "register" and
"initial", "serve" in the web server, "fail" after a `ServiceError`, "quit" after `run`.
`services` is main's dictionary in its order, `sources` is `_event_sources`, `callbacks` the
service that holds the handler's callback. `Terminated` is the signal handler: all of it
runs between two steps of main. `armed` and `running` are the timers' threads, which with
`loop` decide when the process is over (`Ended`), and so do `completing`, the completion
threads of web requests, whose completion may start the timer again. A `worker` of the web
server goes on when main has ended, and may yet start one. `rules` are the portal's rules in
the kernel, in their order: they outlive the process, and a redirection that an earlier
process made is "stale", as the address in it is that process's. `CleanUpPortal` and the two
`AddRule` are steps of their own, between which the signal handler runs; each command may
raise. `ReloadSeen` and `ReloadMissed` are the two outcomes of a service's reload while main
is in its untimed wait: a missed one leaves main "stuck". What handlers and callbacks do is
abstracted to the timers they leave armed (`DispatchEnds`, `CallbackEnds`); the modules
above have the rest. `excused` is a history variable: a process that did not end because of
one of the paths listed at `StopsWhenAsked` was taken.

## 3. Runs

| run | what it asks | bounds | distinct states |
|---|---|---|---|
| `mode_switch` | what switches leave behind when they overlap; the promise | 2 threads, limit 2, count up to 3 | 97 thousand |
| `events_nm` | the fallback, the connected client, the served peer, NetworkManager | 1 queued signal, 1 switch at a time, limit 2 | 3.4 million |
| `events_wpa` | the same, wpa_supplicant, with overlapping switches | 1 queued signal, 2 switches at a time, limit out of reach | 3.0 million |
| `web_configure` | flag, completion, files, both classes | 2 workers, 3 ssids, 4 requests | 3.7 million |
| `monitor` | start and stop by two threads against checks | 2 callers, 2 checks, limit 2, 4 calls | 138 thousand |
| `service_setup` | setup against signals and interruptions | 3 queued signals, 1 outside start, 2 faults, 1 restart | 78 thousand |
| `blink` | the shared device | 2 workers, 3 requests, 2 rounds, 3 periods a second, interval 5 | 32 thousand |
| `start_up` | the life of the process, on both platform versions | 2 retries | 51 thousand |
| `client_backend` | the client's daemon over its restarts | 1 retry, 3 runs, 2 deaths; 2 requesters, 2 networks, 2 steps of the environment | 0.8 million |

Two actors are enough for every race described: each race is between one access and one
other that falls between a read and its use. `FailLimit = 2` lets one failure be raised,
with the retry that follows it, and the next reach the limit. `MaxFailures` bounds the
count: in `mode_switch` a count is loaded below 3 only, in the `events` runs a failure is
raised below it only. A count at or above the limit is the result of a command that raised,
or of a failure counted before the reset; `mode_switch` has both, `events_nm` the former. In
`events_wpa` the limit is out of reach of any behaviour that TLC looks at (its search is 59
steps deep): every failure is retried, and as nothing then depends on the count it is left
out of the view below. Three networks, of which one is read back as another, and four
requests allow a network to be added, added again and followed by another while a refused
request interferes. One queued signal is enough for a signal to be handled after the state
it reports is gone. The two `events` runs take a `VIEW` of the state, to stay within
minutes: `MCView` leaves out the history variables of `ModeSwitch` (`tainted`, `skipped`)
and its scratch (`loaded`, which `WifiEvents` never uses), on which neither a guard nor a
property of these runs depends, and takes the marks "lapsed" and "raised", which the
properties there excuse alike, for one; `MCWpaView` leaves out the count and the monitor
too: `events_nm` has the limit and checks `ConnectedWatched`. Three periods of the tone to a
second and an interval of five reach the second at which the elapsed time falls back. Two
retries tell the last attempt from one before it; in `start_up` the process restarts without
a bound, in `service_setup` one restart is enough, since an interrupted setup leaves its
mark on the next. Three runs of NetworkManager are one that the program found, one that it
asked for and one that came over it; two requesters are one that looks the path up between
the other's look-up and its use. `CHECK_DEADLOCK FALSE` is said where the bounded requests
run out, or where the setup is over and the unit rests, or where no more runs of a daemon
are allowed.

### What the properties say

The runs of `ModeSwitch` and `WifiEvents` check their type invariants; the `TypeOK` of
the other modules is proved, and each can be added to a cfg as an INVARIANT.

- `SwitchExclusive`: an undisturbed switch ends with the other unit stopped and its own
  started. `BothOnOnlyTainted`: AMBIGUOUS arises only from overlapping switches, from a
  unit in its start-up taken for inactive, or from the revival of a failed unit beside
  the other. The code does not prevent these; the property says that nothing *else*
  leads there.
- `KeepsPromise`: the requests of all threads together implement `ModePromise`: an
  undisturbed call puts its own mode on only where the other is off, reports success only
  with the other off, and no call puts on the mode it was not asked for; a call beside
  another, or one that overlooks a unit in its start-up, disturbs.
- `LimitNoticed` (`ModeSwitch`): the unlocked count is never left at its limit, unless the
  command for that very count was executed and raised, which skips the reset.
- `FallbackArmed`: when everything has settled and no one is served, the timer runs, unless
  `mark` is "lapsed" or "raised", or the client's device was not listened to (`deaf`).
  `ServedLeftAlone`: when everything has settled and the client is connected, or the hotspot
  has a peer, no time-out is left that would switch the mode from under it, with the same
  exceptions, and `mark` "misarmed", or in hotspot mode "stale". `ConnectedWatched`: whoever
  started or stopped it last, the monitor of a client with an address runs, with the same
  exceptions.
- `NoStaleFlag`, `CompletionFollowsAdd`: the flag is used up, and no accepted network
  goes without a later completion thread, unless a refusal overwrote the flag.
- `AckedStored`, `NotOutranked`: accepted networks are on disk, and none is outranked by one
  stored before it. Not so after a kill inside an add, or a write that raised once the file
  was emptied, which loses the network's own file or, in wpa_supplicant's one file, all that
  were accepted before; nor, in that file, after two adds at once. In wpa_supplicant's file
  this holds of names that are read back as themselves; one with a blank or a '=' is renamed
  by the next add, and may then be replaced. A tie of two priorities is allowed: once a
  network was configured twice, the next new one gets the same number.
- `StoppedStays`, `MonitorLives`, `RestoreJustified`, `LimitNoticed`, `OutageRestored`: the
  monitor stays stopped unless a check was under way, or another thread's start that had not
  armed its timer yet; it lives until an action or a ping raises, restores only after the
  full number of failed pings, never sits at the limit, and does restore in a lasting outage
  in which no ping raises.
- `ForceStopHolds`, `FailureAnswered`, `SetupEnds`: see the comments in `ServiceSetup`.
- `ConfigWritten`, `ConfigInForce`: a finished setup leaves every piece of the
  configuration written and the service started on it, also after an earlier one that was
  interrupted. The exceptions (`missed`) are real: avahi's check reads only the host name,
  which is set second of four pieces; wpa_supplicant's reads only the unit file, not
  whether systemd was told; and nothing remembers that the unit was still to be restarted.
- `DeviceHeard`, `HandlerOnce`: once things settle, the handler is on the device that lives,
  and once. Not so when NetworkManager was started from outside, the look-up found the
  device of the run before, gave up, or the program asked twice for one start.
  `LoopRestartDeaf`: a restart on the loop's own thread never gets there: the cache is
  updated only by the loop, so the look-up finds the old device or none. It is the same when
  the loop starts the client after the last peer has left (`wifiEventHandler.py:194`). The
  property records this; the program then hears nothing of the client until another thread
  starts it. `LoopLetGo`: that restart ends.
- `DaemonKnows`, `ReceiverHears`: an acknowledged network is in the running daemon, and
  the receiver is bound to its interface. Exceptions: the daemon read its file before the
  network reached it (`late`); the program created the interface, without the file
  (`bare`); an error in the look-up had the default path stand for another (`missed`).
- `PinReleased`, `AloneBlinks`, `BlinkEnds`: see `Blink`.
- `EventsReach`: once requests are served, every event the handler answers comes from the
  one service that reports it. `StartUpEnds`: the start-up serves or the process ends, but
  for two waits that have no time-out: for a reload that was missed, and for the loop when
  it was told to quit before. `StopsWhenAsked`: the process ends when asked to, and when
  main has returned, unless a setup waits for the loop that was told to quit, the cleanup of
  iptables raised before the server was closed, something under way - a handler, a callback,
  the completion of a web request - armed a timer again, or the server failed and nothing
  cancelled the timers. systemd then kills or keeps it. TLC finds the property violated when
  any of these is left out, so each is a real path.
- `PortalWhole`, `PortalRemoved`: while the device serves the rules are the present
  process's redirection and the masquerading, each once: no process before it, however it
  ended, and no command that raised leaves one missing, doubled or leading to another
  address. A process that ends removes them, unless a cleanup raised, the server failed, or
  the process was killed or ended before its handler was installed.
- `RebootSettles`: a repeated setup asks for no reboot, except where roaming is to be
  enabled and the line that disables it is the unended last line of its file, which is how
  the program writes it; and a setup that changes a file asks for one.

### Disagreements found

Three runs expect a violation and each is a finding in `PROJECT.json`:

- `honest_answer`: a refused configuration is answered as configured, when another
  worker has set the shared flag in between.
- `lost_connection`: the README promises the fallback when the connection is lost. The
  cancel after a web-requested restart removes the time-out which the restarted client's
  own report has just started. (Limit 5, the default, so that the command plays no part.)
- `blink_interval`: a round ends after half the configured interval, because the part of
  the second is counted twice.

## 4. The paths that leave the timer unarmed

`FallbackArmed` would be false without `mark`; these are all the paths TLC found, and the
property says there are no others:

1. A web-requested switch cancels the timer after it (`completed`, `restart`), and a
   `restart` that raises after it has stopped the hotspot restarts nothing.
2. The initial status raises.
3. The failure limit is reached: the command runs and the call returns normally. (When the
   command raises, the caller restarts the timer as after any failure.)
4. `get_state` or `get_status` raises in a handler before the timer is touched, or on the
   timer's own thread, which ends without a restart.
5. The revival of a failed unit raises, or the unit fails a second time.
6. A lease event is handled when the state is not HOTSPOT; a CLIENT_CONNECTED is handled
   when it is not CLIENT.
7. `timer.restart` before any `start`.
8. The device's signals are not listened to (`deaf`, NetworkManager only): after a restart
   or a start on the loop's thread, after a look-up that failed, or while the start is not
   yet through.

1, 3, 5 (the second failure) and 6 are the mark "lapsed", exceptions the mark "raised"; they
may as well leave a timer armed that should have been cancelled, or the monitor stopped.
`mark` becomes "armed" again with the next start of the timer. "misarmed" stands for a timer
armed by the retry after a failed switch or by a HOTSPOT_STARTED handled too late; "stale"
for the client time-out that a CLIENT_DISCONNECTED arms when it is handled with the hotspot
already on.

## 5. Fairness

`ModeSwitch`, `WifiEvents` and `WebConfigure` are checked for safety only and assume none.
`ConnectionMonitor`: a timer that is armed expires, a thread inside a check, and a caller
inside `start`, goes on (the pings have time-outs, the threads are the operating system's).
Not assumed: that the network comes back, that anyone calls `start` or `stop`.
`ServiceSetup`: systemd finishes its jobs (they have time-outs), the loop and main run. Not
assumed: that a unit never fails, that no request raises. `Blink`: each worker thread runs.
`StartUp`: main runs, a handler, a callback or a completion that has begun returns, a loop
that was told to quit and is idle ends (weak fairness), and a reload that the idle loop can
see again and again is seen, or missed for good (strong fairness, since the loop is busy in
between); `SetupEnds` in `ServiceSetup` says which reloads are missed, and nothing is
assumed of a wait that missed its own. Not assumed: that the device appears, that a timer
expires, that a web request comes or is answered, that a signal is sent, that systemd kills
a process which outlives it. `ClientBackend`: a thread inside `start` or `restart` goes on
(its sleeps end); nothing is assumed of NetworkManager, its device or the bus.

## 6. Proofs

Each proof module EXTENDS the component's module and adds no assumption. A theorem holds for
every value of the constants that the assumptions of the components allow, hence without the
bounds of the runs: any number of threads, workers or requesters, any length of the queue,
any limit, any number of restarts. What the assumptions ask is what the code gives: a limit
of at least one, counts that are natural numbers, the three threads of `WifiEvents`
distinct, a finite non-empty set of names, and that reading a name back twice is reading it
back once. TLC evaluates all of them in the runs.

The scheme is the same in every module. `IInv` is the inductive invariant; the theorem
`Invariance` says `Spec => []IInv`, from a lemma for each part of it and one step per
action; the properties then follow from `IInv` alone. `IInv` was checked by TLC first, on
the instances of the runs, and where TLC found a step out of it the part was strengthened.

| module | theorem | states |
|---|---|---|
| `ModeSwitchProofs` | `SwitchTypeCorrect`, `LimitAlwaysNoticed`, `SwitchIsExclusive` | `SwitchSpec => []SwitchTypeOK`, `[]LimitNoticed`, `[]SwitchExclusive` |
| | `OverlapExplained` | `SwitchSpec => BothOnOnlyTainted`, an action property |
| | `PromiseKept` | `SwitchSpec => KeepsPromise`: `ModeSwitch` implements `ModePromise` |
| `WifiEventsProofs` | `EventsTypeCorrect` | `Spec => []TypeOK` |
| | `FallbackAlwaysArmed`, `ServedAlwaysLeftAlone`, `ConnectedAlwaysWatched` | `[]FallbackArmed`, `[]ServedLeftAlone`, `[]ConnectedWatched` |
| `WebConfigureProofs` | `RequestsTypeCorrect` | `Spec => []TypeOK` |
| | `FlagNeverStale`, `CompletionAlwaysFollows`, `AckedStaysStored` | `[]NoStaleFlag`, `[]CompletionFollowsAdd`, `[]AckedStored` |
| | `AddedAloneIsTop` | `Spec => NotOutranked`, an action property |
| `ConnectionMonitorProofs` | `MonitorTypeCorrect` | `Spec => []TypeOK` |
| | `StoppedStaysSo`, `MonitorLivesOn`, `CountAlwaysNoticed`, `RestoreIsJustified` | `[]StoppedStays`, `[]MonitorLives`, `[]LimitNoticed`, `[]RestoreJustified` |
| `ServiceSetupProofs` | `SetupTypeCorrect` | `Spec => []TypeOK` |
| | `ForceStopAlwaysHolds`, `FailureAlwaysAnswered` | `[]ForceStopHolds`, `[]FailureAnswered` |
| | `ConfigAlwaysWritten`, `ConfigAlwaysInForce` | `[]ConfigWritten`, `[]ConfigInForce` |
| `ClientBackendProofs` | `BackendTypeCorrect` | `Spec => []TypeOK` |
| | `DeviceAlwaysHeard`, `LoopRestartAlwaysDeaf`, `HandlerAlwaysOnce` | `[]DeviceHeard`, `[]LoopRestartDeaf`, `[]HandlerOnce` |
| | `DaemonAlwaysKnows`, `ReceiverAlwaysHears` | `[]DaemonKnows`, `[]ReceiverHears` |
| `BlinkProofs` | `BlinkTypeCorrect`, `PinAlwaysReleased`, `AloneBlinksFully` | `Spec => []TypeOK`, `[]PinReleased`, `[]AloneBlinks` |
| `StartUpProofs` | `StartUpTypeCorrect` | `Spec => []TypeOK` |
| | `EventsAlwaysReach`, `PortalServed`, `PortalTakenDown` | `Spec => []EventsReach`, `[]PortalWhole`, `[]PortalRemoved` |
| | `RebootAlwaysSettles` | `Spec => RebootSettles`, an action property |

### Why the invariants are what they are

**ModeSwitch.** `LimitNoticed` is inductive with the types: the thread that stores a count
at the limit is itself the one at "check", and goes from there to the reset or, if the
command raises, to `skipped`. `SwitchExclusive` is not: nothing in it remembers between
`StopOther` and the end that the other unit was stopped. `IInv` adds `Serial` (while
untainted at most one thread is inside a call, so no one else moves the units),
`OtherStopped` (from `CheckOther` or `StopOther` on, the other unit is not on) and
`OwnStarted` (from `Start` on, the own unit is). `OverlapExplained` follows from `Serial`
and `OtherStopped` before the one step that can turn the second unit on. `PromiseKept` maps
a switch to how far it has come (`Phase`, from `pc`): the initial states map
to initial ones, and under the type invariant every request of a thread is one step of the
abstract switch or none, by one case per action.

**WifiEvents.** The properties speak of settled states only: nothing queued, no thread under
way. The invariant says for *every* state who will put right what is not right yet. There is
a part for each state of the units: a client that searches (`SearchArmed`), a hotspot
without a peer (`VacancyArmed`), no unit at all (`OffArmed`), a connected client
(`LinkedUnarmed`, `AddressedWatched`), a served peer (`PeerUnarmed`). Each allows three
excuses: a path recorded in `mark` (`Excused`), a signal that waits in the queue
(`Pending`), and a thread inside a switch that has still to touch the unit (`WillStop`,
`WillStart`) or whose request sets the timer at its end. The excuse of the queue needs the
order of the signals: a signal that would undo the state is followed by one that restores it
(`Followed`), since the radio and systemd signal their changes in the order in which they
happen. While the device is not listened to nothing is claimed of the client; `DeafStep`
gives each of its parts back when it is listened to again, with a link that is down.
`Enqueued` and `Dequeued` say what an append and a removal do to both, `TimerMoves` what
each handler does to the timer, `UnitRises` and `LinkMoves` which signal each change of the
environment brings along.

**WebConfigure.** A set flag is carried by a request that has not been through the hook
(`FlagCarried`), and an added network's completion is in a result or in the flag
(`Awaited`). For the files: with one file for each network, only who will write it again has
it emptied (`KeptInFiles`); with one for all, an accepted network is in the file or in the
draft of the one worker that rewrites it (`KeptInDraft`); a write that raises takes both
away, hence `torn` and `cut`. `NotOutranked` needs that no priority is above the number of
networks *as the program counts them*, after reading them back (`Ranked`, `RankedInFiles`,
`RankedInDraft`); the counting is done with the library's facts about finite cardinalities.

**ConnectionMonitor.** `Stopped` and `Alive` say who accounts for the monitor at each moment
of `start` and `stop`, each of which may be the other thread's; `Counted` that the count is
at most the number of failed pings in a row, with a stricter bound at the places between the
load and the store of a check.

**ServiceSetup.** With signals that may be merged, what the handler is told of is the last
settled state: it is at the end of the queue, or handled (`Heard`). A forced stop holds
because a service that comes up twice has a state in between in what is queued (`NoRepeat`),
which the handler would otherwise ignore as a repetition. For the configuration,
`AvahiWritten` and `WpaWritten` say piece by piece how far the writing is at each step; the
first form of the former was not inductive, as it did not say in which steps the host name
is new. `StartedOnAll` keeps the unit that is up on less than the whole about to be
restarted.

**ClientBackend.** A run of NetworkManager that is to be stopped (`Doomed`) is not held to
anything, which is what the loop's restart brings about: it knows no device but one of a run
that is doomed (`LoopBehind`), and so never connects one that lasts (`LoopDeaf`). For
wpa_supplicant, a network is in the interface before it is in the file
(`AddedBeforeStored`), and acknowledged after both (`AckedInFile`).

**Blink.** The device and the pin each stand for a worker that has not left (`DeviceHeld`,
`PinHeld`), hence are free when none is left; `Pulsed` counts the rounds of a blink that is
alone, for which the elapsed time is at least the periods that have passed
(`ElapsedFromZero`).

**StartUp.** `RulesKept` says which rules there are at each step of their making and
afterwards, and `RulesRemoved` where there are none, through main, the signal handler and
systemd's restarts (`RuleAdded` is the library's fact about an appended rule); `FilesSet` is
what the last setup made of the boot files, and `SetupSettles` that a setup of what was just
set finds it so; `FirstReports` that in the dictionary of either platform the first service
to support an event is its reporter.

### Only model-checked

The liveness properties (`OutageRestored`, `SetupEnds`, `BlinkEnds`, `StartUpEnds`,
`StopsWhenAsked`, `LoopLetGo`): fairness and ENABLED are out of the prover's reach.

## 7. Not modelled

- Views of the web page that only read, or execute a command: they have no state.
- Text: the parsing of action and command definitions, templates, what the reading of
  wpa_supplicant's file does to a password, the argument parser and the packaging.
- The properties of `wsDbus.py` that nothing reads, `nmDbus.py`'s `add_network` and
  `remove_network` of the configuration classes, which nothing calls; the reset of the
  radio, two calls with a second between them.
- A service that is to be stopped by force: `main` never puts it into the dictionary
  (`wifi-manager.py:258`), so the setup that would mask it is not called. `ServiceSetup`
  says what it would do.
- Clock time, except in `Blink`: a timer that is armed may expire at any moment. Hence
  nothing is said about a client that scans more often than its time-out.
- dnsmasq and dhcpcd as units of their own: their start is part of the request of the
  unit that needs them.
- More than one timer thread in `WifiEvents`: two time-outs under way at once would need
  a switch slower than the time-out.

## 8. Plan

Done: all modules of section 2 and the proofs of section 6. Next, in this order:

1. An abstract specification of the configure requests (a network is accepted, stored and
   followed by client mode, each in one step), which `WebConfigure` implements for one file
   for each network, with its refinement proved like `PromiseKept`.
2. Action properties of `ServiceSetup` and `ConnectionMonitor` from the invariants that
   there are: a restart of a unit only after its configuration or a failure.
3. `WifiEvents` with a bounded environment and fairness: an unserved device ends in
   hotspot mode or in a connected client. The state space of today's bounds is too large
   for TLC's liveness check; it needs an abstraction of `ModeSwitch`, for which
   `ModePromise` is the candidate.
