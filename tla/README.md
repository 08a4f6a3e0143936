# TLA+ models of multiACE

multiACE lets one Snapmaker U1 (four toolheads, Klipper) be fed by several
Anycubic ACE filament units. This directory models the parts of it in which
timers, G-code commands, USB, web requests, files and restarts interleave: TLC
checks the models on small instances, TLAPS proves the theorems for every value
of the constants.

Paths below are relative to `src/`; `ace.py`, `filament_feed_ace.py` and
`filament_switch_sensor_ace.py` are in `multiace/klipper/extras/`, the Python
files of the web console in `multiace_web/src/multiace_web/`,
`multiace_postprocess.py` in `multiace_web/tools/`, the plugins in
`multiace_plugins/`.

| Part of this file | |
|---|---|
| 1 | the system: its parts, their state, what is hard |
| 2 | the modules and how they correspond to the code |
| 3 | the runs, their bounds, what they show |
| 4 | fairness |
| 5 | the theorems and their arguments |
| 6 | the disagreements between code and documentation |
| 7 | what the models leave out |
| 8 | what could come next |

## 1. The system

### In the printer (Klipper process, one reactor, greenlets)

| Component | State | Operations | Interacts with |
|---|---|---|---|
| Connection engine (`ace.py`, `ace_keepalive.py`) | one live serial link, a cached handle per other ACE, the connect, heartbeat and keepalive timers, `_info`, `gate_status`, the save variable `ace__active_device` | connect, heartbeat, reader, keepalive, send with one reconnect and retry, permanent failure, `ACE_SWITCH`, the switch for a head | USB; every command goes through it |
| Head sources (`ace.py`) | `_head_source` (which ACE and slot a head's filament came from, parked or not), its save variable, manual heads | `ACE_LOAD_HEAD`, `ACE_UNLOAD_HEAD`, `ACE_UNLOAD_ALL_HEADS`, `ACE_MARK_HEAD_LOADED`, `ACE_CLEAR_HEADS`, `ACE_SET_HEAD_MANUAL` | runs FEED_AUTO by G-code; is written by it |
| Feed channels (`filament_feed_ace.py`) | `channel_state`, `channel_active` (a mutex), `load_finish` in a file | `FEED_AUTO`, `FEED_MANUAL`, port and runout events | reads and clears head sources, switches ACEs |
| Feed assist, entangle skip (`ace.py`) | `_feed_assist_index`, the detectors skipped for a print | start and end of a print, change of extruder | armed again by connect; FEED_AUTO ends the skip |
| Filament sensor (`filament_switch_sensor_ace.py`) | enabled flag in a file, detected | events, runout scripts | calls the feed channels |
| Wire protocol (`ace_protocol*.py`) | reassembly buffer | frames with CRC, resynchronisation | connection engine |
| Status, audit log (`ace_status.py`, `ace.py`) | none | projections of the state | the web console tails the log |
| Extruder (`extruder_ace.py`) | stock Klipper | motion | - |

### In the web console (one asyncio process) and beside it

| Component | State | Operations | Interacts with |
|---|---|---|---|
| Log tailer, event state (`tailer.py`, `state.py`) | position in the log, `CurrentState`, event ring | lines to state, rotation | audit log; everything in the console reads it |
| Server (`server.py`) | caches, print queue | load preflight, dry, reseat, print queue, configuration | Moonraker |
| Poller (`poller.py`) | `_last_polled`, failure counts, lock flags of the dryers | pins the ACE of a print, else visits every ACE | `ACE_SWITCH`, automatic dryer |
| Automatic dryer (`autodryer.py`) | one state machine per ACE, its file | tick, restart, configuration, announcements | `ACE_DRY`, poller |
| User interface (`static/app.js`) | the legs of a head swap | swap, park, swap back | server |
| Autodry plugin | an older copy of the dryer | its own loop | Moonraker |
| Filament hub plugin | its record of each slot; FilamentHub's locations; the labels of multiACE | assign, unassign, pull | FilamentHub, multiACE's slot overrides |
| Postprocessor (`multiace_postprocess.py`) | the G-code file and its sidecar | matches tools with spools, plans and inserts swaps; again in the console's revalidate | G-code files, the console's print queue |
| Govee bridge, installers, overlay patches, tools | - | I/O, file copies, text patches | - |

### What is hard, and what makes each part correct

* **Connection engine.** A greenlet that sleeps in a retry wakes up after the
  live link moved; connect timers are superseded but never unregistered; the
  kernel enumerates an ACE again and an open handle is dead; a port opened
  exclusively blocks its own process. Correct: a live link writes to the active
  ACE, is polled, comes back; a failed switch leaves the old link usable; the
  slots shown are the active ACE's.
* **Heads and feed channels.** Stages that swallow errors, events that wait for
  a mutex, sensors disabled in a file, records cleared in one module and written
  again in another, restarts in between. Correct: the record names the ACE whose
  filament is in the tube, that ACE pulls it back, memory and file agree.
* **Feed assist.** An index of one ACE is armed again on another, in a greenlet
  of its own, beside a command that switches, stops or retracts. Correct: between
  commands the code knows which slot each ACE assists, nothing is fed or pulled
  against an assist, the tool in use is fed, detectors come back on.
* **Dryer, poller, plugin.** State read before an await, a sensor that fails while
  a heater is on, a file written in two shapes, a restart in the middle of a run.
  Correct: a run is earned, every run ends, the cooldown of a run that ended well
  and the fault of one that failed hold over restarts.
* **Console state.** Rotation loses lines, a line is read half written, decisions
  are made on stale state. Correct: once the log is quiet the newest line is
  shown, and what it shows of the active ACE, its gates and the end of a switch
  is true.
* **Planner and print queue.** Two maps that must stay inverse, an eviction rule
  that must be optimal, a file rewritten twice, a death between two writes.
  Correct: one rewrite prints the slicer's filaments, with the fewest swaps.
* **Filament hub.** Three places written one after the other without a
  transaction, by requests that run side by side. Correct: an undisturbed
  success is true in all three, nobody's spool or record is lost by another.

Every hazard, with the line where it bites and the properties about it, is in
`PROJECT.json` under `hazards`.

## 2. The modules

| Module | Stands for | Kind |
|---|---|---|
| `AceLink` | the connection engine | detailed specification |
| `ActiveAce` | what the engine promises the rest of the system | abstract specification |
| `AceLinkProofs` | theorems about both | proofs |
| `HeadFeed` | head sources and feed channels | detailed specification |
| `HeadFeedProofs` | theorems about it | proofs |
| `AutoDry` | automatic dryer, its poller, the cached print payload | detailed specification |
| `AutoDryProofs` | theorems about it and about `DryPlugin` | proofs |
| `FeedAssist` | feed assist and entangle skip, through commands, prints and resets | detailed specification |
| `FeedAssistProofs` | theorems about it | proofs |
| `PrintQueue` | from the slicer's G-code to a print: postprocessor, revalidate, print start | detailed specification |
| `MCPrintQueue` | headers and racks for TLC | instance |
| `PrintQueueProofs` | theorems about `PrintQueue` | proofs |
| `SpoolHub` | the filament hub plugin | detailed specification |
| `MCSpoolHub` | the ACE of each slot, for TLC | instance |
| `SpoolHubProofs` | theorems about `SpoolHub` | proofs |
| `LineFeed` | what the state log and its tailer promise the console | abstract specification |
| `LogTailer` | how lines of the state log reach the console; implements `LineFeed` | detailed specification |
| `LogTailerProofs` | theorems about it | proofs |
| `WebState` | what the console makes of the lines of `LineFeed` and does with it | detailed specification |
| `WebStateProofs` | theorems about it | proofs |
| `DryPlugin` | the autodry plugin | detailed specification |

`MCPrintQueue` and `MCSpoolHub` hold the structured constants of their runs; the
other `.cfg` files instantiate the modules directly. The modules do not share
variables: each sees its neighbours through what the code of the neighbour
allows it (an ACE that answers or resets), as its header says. Two such
contracts are modules of their own: `ActiveAce`, and `LineFeed`, on whose steps
`WebState` is built and which `LogTailer` is proved to implement.

### AceLink

Klipper greenlets are cooperative: code between two `reactor.pause` calls is
atomic. An action is such a stretch, taken whole, with the calls it makes.

| Variable | Code |
|---|---|
| `plugged` | which ACEs are enumerated on USB (environment) |
| `link` | a record of `_serials` (`handle`), `_serial`, `_connected`, `_active_device_index`, the heartbeat, the current connect timer (`retry`), connect timers that were superseded and keep firing (`strays`), failed |
| `view` | `gate_status` and `_info`: whose slots are known, status busy or ready |
| `saved` | save variable `ace__active_device` |
| `assist` | `_feed_assist_index # -1` |
| `op` | the command the G-code greenlet is in and where it paused |
| `rec` | greenlets sleeping in the retry of `_send_request` |

| Actions | Code |
|---|---|
| `ConnectTick`, `Heartbeat`, `Reply`, `ReadError`, `KeepaliveTick` | the timers and the reader, `ace.py` 979-1141, 1307-1440 |
| `GcodeSend`, `Recover`, `DoPause` | `_send_request` before and after its pause, `_handle_serial_failure` and its PAUSE, 1153-1281 |
| `StartSwitch` ... `ConnectTimeout` | `ACE_SWITCH`: fast path, slow path, both rollbacks, 736-977, 1740-1884 |
| `StartHeadSwitch`, `HeadFound`, `HeadSettled` | `_switch_ace_for_head_target`, 2511-2557 |
| `Command`, `CommandSend`, `EnableAssist` | a command that waits for the ACE and sends |
| `UsbDrop`, `UsbReturn`, `Restart` | environment |

What a handler does to the link is an operator on the link record (`Opened`,
`Attempted`, `Promoted`, `Restored`, `HardClosed`, `Released`, `Failed`), so
that several actions share it as the code shares the method.

### ActiveAce

Four variables: the ACE a restart will go to, the active ACE, whether the link
counts as up, whose slots are shown. It allows a report over a link that is up,
changes of the link, a choice of another ACE, giving that choice up, a reboot.
`AceLink` implements it under the mapping at the end of `AceLink`
(`KeepsPromise`). Its one weakness is deliberate, because the code has it: after
a switch was given up the slots of the target may still be shown.

### HeadFeed

One action per stage of a command. `path` is the truth the code cannot see:
whose filament is in the tube between splitter and head. `seen` is the sensor.

| Variable | Code |
|---|---|
| `source`, `saved` | `_head_source` and its save variable |
| `chan`, `finish` | `channel_state` as far as `STAGE=doing` and LOAD tell it apart, `load_finish` in the file |
| `sensorOn` | enabled flag of the sensor, kept in a file |
| `manual` | `_manual_heads` |
| `active` | `_active_device_index` |
| `pending` | `_do_feed` callbacks waiting for `channel_active` |
| `op` | the command and its place (`Held`: `channel_active` is set over a pause) |

| Actions | Code |
|---|---|
| `FeedReturns`, `FeedStarts`, `Fed`, `FeedFails` | FEED_AUTO LOAD=1, `filament_feed_ace.py` 994-1370, 1970-2034 |
| `Prepare` ... `Unloaded` | FEED_AUTO UNLOAD=1 in stages, 1373-1529 |
| `LoadHead` ... `RecordLoad` | `ACE_LOAD_HEAD`, `ace.py` 2152-2304 |
| `UnloadHead`, `After` | `ACE_UNLOAD_HEAD` with and without LENGTH (park), 2398-2509 |
| `UnloadAll`, `Visit`, `AllUnloaded` | `ACE_UNLOAD_ALL_HEADS`, 2624-2689 |
| `SwapAll`, `SwapOver` | `ACE_SWITCH AUTOLOAD=1`, 1804-1884 |
| `TouchLoad`, `TouchUnload`, `TouchCancel` | FEED_AUTO sent by the touchscreen |
| `ChannelEvent`, `PortEvent` | runout, port events, 560-665, 836-991 |
| `HandInsert`, `HandRemove`, `Restart` | environment; `_handle_ready` of both modules |

An error in a stage goes where the code sends it: `ACE_UNLOAD_HEAD` enables the
sensor and raises, the unload of all heads warns, forgets the head and goes on,
AUTOLOAD gives up, `ACE_LOAD_HEAD` records if the sensor sees filament.

The switch inside HeadFeed is one step that succeeds, or fails with the old or
the new index active; AceLink has its details.

### AutoDry

One asyncio process: code between two awaits is atomic. The poller's tick is cut
where it awaits Moonraker (`pc`); the user's requests, the writers of the print
payload, the printer and a restart come in between.

Times are ages: a stamp of *t* seconds is the number of time units since *t*,
capped where nothing tells older stamps apart, and `Pass` lets a unit pass.

| Variable | Code |
|---|---|
| `fsm`, `enabled` | `FSMSnapshot` and `config.enabled` of each ACE |
| `eph` | `Ephemeral`: debounce count, start of a run, known duration |
| `n` | number of ACEs found at boot (the state log may not hold it) |
| `fails`, `lastPolled`, `pc`, `dryFor` | the poller: failed switches, last ACE visited, its place, the ACE whose trigger is under way |
| `file`, `posted`, `told` | format of the state file; id of an announcement in a v1 file; the same as loaded into the record of ACE 0 |
| `active`, `print`, `phaseFor` | the printer: active ACE, print state, how long it has been busy or not |
| `cache` | `last_print`: what it says, its age |
| `seen`, `run`, `rest` | history: wet visits in a row, time since the trigger, since the last run, which is `Held` while its fault waits for the user |

| Actions | Code |
|---|---|
| `Poll`, `Pinned`, `TurnStays`, `TurnSwitches`, `TurnSwallowed`, `TurnFails`, `QueryFails`, `Visit` | `MultiAcePoller`, `poller.py` 166-252 |
| `Idle` ... `StayFaulted`, inside `TickOneAce` | `tick_one_ace` and `tick_fsm`, one disjunct per outcome, `autodryer.py` 437-733, 878-1015 |
| `Announce`, `Dismiss`, `Command` | `_maybe_announce`, `ACE_DRY`, 1017-1154 |
| `SetEnabled`, `ResetFault`, `LegacyPost` | POST `/api/autodry`, `server.py` 1288-1365 |
| `Refresh` | the two writers of the payload: `poller.py` 105-125, `server.py` 1055 |
| `SetPrint`, `UserSwitch`, `Pass`, `DayPasses` | environment |
| `Restart` | the process dies at any point; `load_manager`, lifespan of `server.py` |

A reading is one of four: no usable value (`none`, which the code feeds as 0.0),
at the target, in between, above the wake line. Whether filament arms an ACE is
free in every tick. An announcement writes the file in the old shape over the
per-ACE one (`PutId`); a restart before the next save migrates that file.

### FeedAssist

A command is a program: the requests it sends and what it does between them
(`todo`), one for the G-code greenlet and one for the greenlet in which
`_connect` arms again. Each request waits for the ACE, so the other greenlet and
a USB reset come in between.

| Variable | Code |
|---|---|
| `active`, `up`, `idx` | `_active_device_index`, `_connected`, `_feed_assist_index` |
| `source`, `tool`, `phase` | `_head_source`, the active extruder, the print |
| `skip`, `skipped` | entangle detectors that are off, `_entangle_skipped_heads` |
| `feeding` | the head whose FEED_AUTO has its `finally` before it |
| `assist` | the truth: which slot each ACE assists |

`ToolChange`, `LoadHead`, `UnloadHead`, `FeedAuto`, `AceSwitch`, `EnableAssist`,
`DisableAssist`, `AutoFeedOff`, `PrintStart` and `PrintEnd` start a program;
`GcodeStep` and `ConnectStep` run one step of it (`Arm`, `Stop`, `Switch`, `Fetch`,
`Moved`, `Forget`, ...); `Fails`, `GoesBack`, `Abandoned`, `GivesUp` are its error
paths; `Reset` and `StopLost` are the environment.

### PrintQueue

A pass (the script on the slicer's computer, or `revalidate` in the console) is
cut where it can be cut by the death of its process; the plan walks the file line
by line (`walk`), so that its two maps are seen at every line.

| Variable | Code |
|---|---|
| `header`, `sliced` | the slicer's tools and, as history, the changes it wrote |
| `rack` | `spool_cache`: the bound spools |
| `file`, `sidecar` | the G-code and `<file>.multiace.json` |
| `stage`, `pass`, `walk` | the pass under way |
| `swapping`, `job` | `swap_in_progress`, the file is being printed |
| `torn` | a process died between the two files |

`RunScript`, `Revalidate` begin a pass; `PlanLine`, `Planned`, `WriteGcode`,
`WriteSidecar` do it, `Die` ends it; `StartPrint`, `PrintEnds`, `SwapSeen`,
`Rebind` are the rest of the queue. Colours lie on a line, so that distance and
the approximate name of a colour are arithmetic. `Obey` is what the printer does
with the inserted commands: a head is loaded only when it is empty (`ace.py`
2182-2188), and `ACE_PARK_HEAD` is no command (279-330), so that it empties none.
`Printed` is what a whole file prints.

### SpoolHub

A request is a record with the stage it has reached; a step runs to its next
await. `hub` and `location` are FilamentHub's, `labels` multiACE's, `desired` the
plugin's file. `Assign`, `Mint`, `AssignProfile`, `Unassign`, `Pull` begin a
request, `Write`, `Find`, `Record`, `Drop`, `List`, `Apply`, `Clear`, `Persist` do
its work, `Fails` is a failure or a lost answer; `Scan` and `Eject` are others
who write to the same places.

### LineFeed, LogTailer and WebState

`LineFeed` says what the console may rely on: `due` is the line that is being
logged, `newest` the last line that can be read, `place` where that is (still
`unread`, `applied`, or `missed`), `unread` the lines yet to be applied. Lines are
applied once and in order. They are lost to a `Rotate`, which comes before a line
that is due; between `Boot` and `Open`, when the console looks at the log twice;
and to `Spoil`, a line appended to the half of one.

`LogTailer` has the files: lines written in two halves, rotation, loss of power
with half a line left, the console's start from the last line, and each step of
the tailer (`ReadLine`, `ReadEnd`, `CheckRotation`). A line counts by its number.
`Delivers` is its refinement of `LineFeed`, with the numbers for the lines.

`WebState` has what lines say. The firmware writes a line at the end of what it
does, and not after everything (`Silently` against `Audits`); nothing else of it
runs until the line is written. The log and the console's reading of it are the
steps of `LineFeed` (`Log == INSTANCE LineFeed WITH Apply <- Applied of each
event, ...`). Beside it run the reseating of a slot, which writes into the state, and the
browser's swap of a head in two commands, which relies on it.

### DryPlugin

An older state machine than the console's, in a loop of its own. `pc`, `at`,
`count`, `busy` are the locals of a tick, cut at its awaits; `asking` are requests
POST `/dry` that wait for the printer; `file` is the state file. `rest`, `held`
and `seen` are history: time since a run last ended well, what has become of a
fault, wet ticks in a row. A fault is `held` until the user resets it or asks for a
run; it is `swept` if the request that ends it was sent before it came, for which
`asking` notes that the request is `blind`.

## 3. The runs

| Run | Checks | Instance | Shows |
|---|---|---|---|
| `link` | `GatesFromSwitch`, `LiveIsActive`, `ConnectedIsPolled`, `NeverCloseMidSession`, `KeepsPromise` | 3 ACEs, 2 flaky, 1 head target | safety of the engine and its refinement of ActiveAce |
| `link_live` | `LinkComesBack` | 2 ACEs, both flaky, fair | the link comes up again once USB is stable |
| `feed` | `SavedWhenIdle`, `CommandsPullOwn` | 2 heads, 2 ACEs, hand and touchscreen at head 0, restarts | books and retracts with everything switched on |
| `feed_session` | `RecordIsFeeder`, `SensorsBackOn` | 2 heads, 2 ACEs, port events, failures, no restart | records are true within a session |
| `dry` | `TriggerIsDebounced`, `LimitIsReal`, `RestBetweenRuns`, `PrintIsNoticed` | 2 ACEs, one request, restart or foreign switch | when a dryer may start, also after a run that failed, and when it fails |
| `dry_live` | `RunEnds` | 2 ACEs, fair | no dryer runs for ever |
| `queue` | `HeadsInverse`, `SwapsReplay`, `ReadyIsExact`, `FewestSwaps`, `OneRewritePrintsOwn` | 2 heads, 4 tools, 4 slots, up to 5 changes, 2 headers, 3 racks | plans are consistent and have the fewest swaps; one rewrite prints its own spool for what the plan leaves on its head; only exact matches are ready |
| `assist` | `AssistIsKnown`, `FeedsUnassisted`, `ToolIsFed`, `DetectorsBackOn` | 2 ACEs, 2 heads, one reset | who assists, and when |
| `hub` | `AnswerIsTrue`, `PullSettles`, `OnlyOwnIsTakenOut`, `PullSpares`, `RecordsKept` | 2 slots on 2 ACEs, 2 spools, 2 requests at a time, 3 in all, 1 failure | what requests may do to each other |
| `tailer` | `ShowsNewest`, `NeverBack`, `EventsArrive`, `Delivers` | 6 lines, 4 files, fair | rotation, half lines and losses of power; log and tailer implement LineFeed |
| `web` | `BannerEnds`, `KnowsActive`, `GatesOfActive`, `SwapGoesOn` | 2 ACEs, 1 head, one line behind | a console that has caught up is right |
| `dryplug` | `FileKnows`, `RunIsEarned`, `RunEnds` | 2 ACEs, two requests or restarts, fair | when the plugin begins and ends a run |

`TypeOK` is a theorem for every value of the constants of every module that has
one (section 5), and so in no run; `DryPlugin`'s is proved through an instance in
`AutoDryProofs`.

Every property has a mutant: a variant of one definition, kept in the module
beside it (`Restored_KeepsIndex`, `SkipOrRaise_GoesOn`, ...), with which TLC finds
the property violated.

**Bounds.** Two ACEs make a switch and its rollback; the third in `link` is the
one that is neither active nor target, whose slots must never be shown. A second
connect timer that was superseded behaves like the first, so `MaxStrays = 1`.
Two heads are what the loops over heads, and the once-for-all save, need: one
head done, one to do. A head has at most one runout and one port event pending;
a second one of a kind would set the same state again. In both components times
and lengths are abstracted to the order of events. `link_live` has no head
targets, because with one the link need not come back (section 6).

`AutoDry` needs time, in units. In `dry` two visits of an ACE make a trigger
(`Required = 2`), so that visits of the other ACE, prints, dips and a restart
come in between; a run's duration (1) ends before its limit (2), so that both
ends and the recovery of a lost start happen; a payload is usable in the unit
it was stored in (`StaleLimit = Late = 0`), so that staleness is one step away.
`Events = 1` bounds restarts, user requests and switches by others to one in a
behaviour: each interferes with the poller alone, and two in a row (a legacy
POST, then a restart that migrates its file) already occur with one event,
because an announcement writes that file too. In `dry_live` every time is 1 and
there are no such events, so that the limit, the last resort, ends a run; the
visits still fail any number of times in a row. `RoundRobin = FALSE` is a
special case of the theorems. `DryPlugin` has the same times and two events,
because a request and a restart must meet, and so must a request and the fault of
a run that ends while it waits.

`PrintQueue`: more tools than heads (4 on 2) force swaps; five changes are the
fewest in which a tool leaves, another one takes its head and the first comes
back on the other; three changes to a layer give a plan with a layer mark in it.
The headers have tools that all differ, or two with one filament (aliases); the
racks serve every tool, or hold two spools of a kind (a choice), or similar
colours only (each tier of the fuzzy match). `MaxRewrites = 2`: script, then
console.

`FeedAssist`: one reset (`MaxResets = 1`) meets every step of every command; a
second one finds the same states. One ACE must not assist in prints
(`PrintOff`). `SpoolHub`: two requests side by side meet on one slot or on two;
the third finds what they left; one failure, foreign change or missing winner
(`MaxTrouble`). `LogTailer`: with four files a tailer may miss a whole one while
it looks for the next, and six lines fill them with a broken and a late one.
`WebState`: one line behind, and one that is due, are already a state that is
wrong; the theorems have no bound.

Deadlock is checked in every run but `hub`, which stops when its requests are
spent.

## 4. Fairness

`AceLink`, `AutoDry`, `LogTailer` and `DryPlugin` have liveness (`FairSpec`). In
`AceLink` the reactor runs a timer that is due and resumes a paused greenlet, so
`ConnectTick`, `Heartbeat`, `ReadError`, `KeepaliveTick`, `Recover`, `DoPause` and
the steps of a started command are weakly fair. The answer of an ACE that is
present arrives although the link may drop and come back, so `Reply` is strongly
fair. Commands, restarts and USB owe nothing; `LinkComesBack` assumes that USB
becomes stable.

In `AutoDry` the event loop runs the poller again and again (`run` catches what a
tick raises), so `Poller` is weakly fair, and time passes. Two steps are strongly
fair: a query of the active ACE and a switch to an ACE that are tried over and
over are in the end done and answered. The second is needed: an ACE whose
switches fail twice counts as unreachable and is not evaluated, also while it
dries, until a switch to it is answered. `RunEnds` assumes that the user leaves
the ACE enabled, that the process manages it, and that prints end.

In `LogTailer` a line that is due is written (the logging handler returns) and
the tailer's task goes on polling (its loop catches what it raises): both weakly
fair. Rotations, losses of power and restarts owe nothing.

In `DryPlugin` the loop (`_tick_loop` catches what a tick raises) and the clock
are weakly fair. The printer answers the queries of a tick now and then, an ACE
is the active one or round robin is on, and its switch works now and then: those
are strongly fair, and without any of them the tick never reaches the ACE. The second
is an assumption about the printer's users that the default does not justify:
round robin is off (`round_robin=False`, `config.py:74`), and an ACE that nobody
makes the active one again is then never ticked, also while it dries.
`RunEnds` assumes that the ACE stays enabled (section 6, 12).

The other modules claim no liveness: motion, heating, requests and the people at
the printer owe nothing.

## 5. The theorems

Assumptions are those the modules state about their constants
(`AceAssumption`, `FeedAssumption`, `FeedAssistAssumption`, `SizeAssumption`, ...);
TLC evaluates them in every run. Each component's invariant below is inductive
and contains `TypeOK`; `TypeCorrect` is proved of every module with proofs.

**AceLinkProofs**: for any set of ACEs, flaky or not, and any bound on strays.
`TypeOK` is not inductive with the other invariants alone: what an action does
depends on where the G-code greenlet stands. The inductive invariant is

    IInv == TypeOK /\ Sound(link) /\ OpInv /\ GateInv

* `Sound`: the heartbeat is registered exactly when the link counts as
  connected, and a connected link's serial is the active ACE's handle.
* `OpInv`: during a slow-path switch the remembered old ACE is the active one
  (before the target is taken) or the active one is the saved one (after).
* `GateInv`: known gates came from the active or the recorded ACE.

Each link operator is shown once to keep a link sound (`ClosedSound`,
`OpenedSound`, `AttemptedSound`, ...); a step of `Next` then only chains them.
`TypeCorrect`, `GatesCorrect`, `LiveCorrect`, `PolledCorrect` follow, as does
`SwitchNeverCloses` for `NeverCloseMidSession`. `Implements` proves the
refinement: `Reply` maps to `Report`, a slow or fast switch to `Choose`, its
rollback to `GiveUp`, a restart to `Reboot`, the rest to `LinkChange` or a
stutter.

**HeadFeedProofs**: for any number of heads and ACEs. With restarts, hands,
touchscreen and failing switches,

    IInv == TypeOK /\ OpOK /\ PullsOwn /\ SavedInv

is inductive: `OpOK` says what the fields of a command hold at each place;
`PullsOwn` that an unload command past its switch has the recorded ACE active;
`SavedInv` that only an unload of all heads that has begun leaves records
unsaved. `TypeCorrect`, `SavedCorrect` and `CommandsPullCorrect` follow.

`RecordCorrect` and `SensorsCorrect` hold in a *session*
(`Session == Hands = {} /\ Touch = {} /\ ~Crashes`), which is a hypothesis of
both theorems and the instance of `feed_session`: with a restart the code
violates them (section 6), and the touchscreen may load what a command just
refused. Their invariant adds: an unparked record names the filament in the
tube, or that filament was pulled in this very command (`SourceInv`); a channel
in LOAD_FINISH has filament, only the head being unloaded has its sensor off
(`ChannelInv`); a load runs on an empty head with its ACE active (`LoadInv`).

**AutoDryProofs**: for any number of ACEs, any times and caps, round robin or
not. The inductive invariant is

    IInv == TypeOK /\ AceInv /\ CacheInv /\ DryInv

* `AceInv`: what the code remembers of each ACE agrees with its history
  (`Agree`): the debounce count is at most the visits in a row; the start of a
  run, in memory or else in the snapshot, is when the run began; the fault of the
  last run stands exactly as long as nobody has reset it, and otherwise what is
  left of a cooldown and the time since that run make up the whole. It must hold of
  each ACE after a restart as well, where the file decides what is still known,
  and of ACEs the process does not manage.
* `CacheInv`: a usable payload that misses a print was sampled before it began.
* `DryInv`: a trigger under way belongs to an ACE.

`WriteAgrees` shows once that a tick that writes an agreeing record keeps all of
it, `QuietlySettles`, `EndsSettle`, `TriggerSettles` that each outcome of a tick
does; `OnlyTicks` that no other action triggers or faults. `TypeCorrect`,
`DebounceCorrect`, `RestCorrect`, `PrintCorrect` and `LimitCorrect` follow.

The same module proves what concerns `DryPlugin`, the older sibling of that state
machine, through an instance whose constants are `AutoDry`'s and so have its
assumptions (`Plugin == INSTANCE DryPlugin WITH ...`):

    PInv == TypeOK /\ PluginSane /\ PluginPlace /\ FileKnows

* `PluginSane`: what is left of a cooldown and the rest since a run last ended well
  make up the whole, a fault that is held shows, the debounce counts no more
  than was seen; of each ACE, in memory or in the file.
* `PluginPlace`: what a tick has in hand where it stands.

`PluginTypeCorrect`, `PluginFileCorrect` (`FileKnows`) and `PluginRunsEarned`
(`RunIsEarned`) follow.

**FeedAssistProofs**: for any number of ACEs, heads, slots and resets.

    IInv == TypeOK /\ SkipOwned /\ SkippedInPrint

`TypeOK` says that every program left to run is made of steps that exist
(`Programs`), which is what a step has to be shown to keep. `SkipOwned`: each
detector that is off is off for the FEED_AUTO under way or for the print;
`SkippedInPrint`: outside a print none is held for one. `DetectorsCorrect` follows.

What the ACEs do needs a second invariant, about commands that ran beside no reset:

    AInv == Sound(todo["gcode"]) /\ (~overlapped => Known /\ SilentNow /\ Serves)

* `Sound`: which step of a program may come right after which. A *silent* step,
  one that no ACE may assist beside, comes after the step that silences or after
  another silent one, and a flush that fails leaves no silent step.
* `Known`: only the active ACE assists, and only the slot the code has in mind; it
  does not only where a reset made it forget or it refuses.
* `SilentNow`: at a silent step nothing assists.
* `Serves`: how far a tool change is on its way to the slot of its tool.

`KnownCorrect` (`AssistIsKnown`), `UnassistedCorrect` (`FeedsUnassisted`) and
`ToolCorrect` (`ToolIsFed`) follow.

**PrintQueueProofs**: for any number of heads, tools and slots, any headers and
racks, any program of the slicer.

    IInv == TypeOK /\ HeadsInverse /\ PassInv /\ ReadyIsExact

`PassInv`: a pass is matched with bindings that exist, over the web without the
fuzzy match. `InverseCorrect` and `ReadyCorrect` follow.

`ReplayCorrect` (`SwapsReplay`) rests on a closed form: `HeadsAfter` says what is on
a head after k swaps by the last of them that was made on it, so that one more
swap changes one head (`LastSwap`, `EarlierSwaps`).

`FewestCorrect` (`FewestSwaps`) is Belady's theorem for this planner, for files of
any length: to evict what is needed last costs nothing. The reference,
`SwapsLeft`, goes from the last line to the first and tries every choice. What
holds of its last row and is carried from each row to the one before it holds of
all rows: `Downwards` says so of a *set* of line numbers, by the least element of
its complement, and so needs no induction theorem with an operator for a
parameter. Carried over a line are

* `Helps`: one more tool on the heads costs nothing and saves a swap at most;
* `Prefers(a, b)`, for tools of which a is needed no later than b (`Sooner`): to
  have a instead of b costs nothing.

`FurthestIsBest` and `FirstIsBest` draw the conclusions for an eviction and for the
first assignment (of the sets that do better than `FirstHeads`, take the one that
shares most with it; one exchange makes it share more). The invariant of the walk is

    Optimal == Replay /\ FilesAreSeqs /\ PlanBest

`PlanBest`: the swaps made so far and those that are left, by the reference, from
the tools on the heads, are the fewest of all; and a head is free only if every
tool the file needs is on one. `FilesAreSeqs`: what the slicer, --optimize,
--layer and a rewrite make of a file is a sequence (`FlattenTyped`, again by
`Downwards`).

`OwnCorrect` (`OneRewritePrintsOwn`) is about the text of the file: what the
commands do that a pass writes into it. The printer reads it line by line, the
walk has made it change by change; the proof follows both (`Upwards`, the
counterpart of `Downwards`).

    OwnInv == Optimal /\ sliced \in SlicerPrograms
                      /\ MatchInv /\ WalkInv /\ PlainInv /\ PrintInv

* `MatchInv`: two tools of one filament match one slot (`MatchAlike`). An alias
  may stand for its tool only because of that.
* `PlainInv`: a file that was not rewritten yet is `Plain`: the slicer's changes in
  their order, each to a tool of the same filament. Aliases, early loads and what a
  pass finds no slot for keep it so (`PiecesPlain`).
* `WalkInv`: the plan speaks only of tools that have a spool (`Resolves`); each of
  them that a change behind the walk is to has a head noted, and that head is one
  it begins on or is brought to by a swap (`Reaches`, `Given`).
* `PrintInv`: from a plain file, a pass writes one that prints what the sidecar
  says (`RewritePrints`). No line empties a head or loads a spool over another
  (`KeepsLoads`), so that each head keeps what it begins with; by `Follows`, the
  changes so far were printed one by one, and those whose spool the plan leaves on
  its head with that spool.

A tool that a swap brings in is not printed with its own spool (§6).

**SpoolHubProofs**: for any number of slots, spools, requests and failures.

    IInv == TypeOK /\ AloneMeans /\ \A r : Shape(req[r]) /\ Progress(req[r])

`Shape`: what a request carries at each stage; `Progress`: what it has left in the
three places as long as nobody interferes (`Kept`); `AloneMeans`: such a request
is the only one under way, which is why nobody undoes it. All five properties of
the run follow: `AnswerCorrect`, `PullCorrect`, `TakeOutCorrect`, `SparesCorrect`,
`RecordsCorrect`.

**LogTailerProofs**: for logs of any length and any number of files.

    IInv == TypeOK /\ Ordered /\ Rotating /\ Place

`Ordered`: files begin one after the other; `Rotating`: no line is begun while
there is no file; `Place`: what the tailer has behind it, it has applied, and it
is in a file only as far as that file goes. `NewestCorrect` and
`NeverBackCorrect` follow.

`Implements` proves that the log and its tailer implement `LineFeed`. The unread
lines are those of the file where the tailer is, from where it is or, if that is
later, from the first line that it will have whole, and then those of the newest
file: files between the two are never read. That needs more than `IInv`:

    RInv == IInv /\ Readable /\ Counted /\ HasLast

`Readable`: no broken line is among them, so that each unread line is one that
will be applied; `Counted`: there is room for a line that is due, no half line is
left when the file has gone, and a console that is down has applied nothing;
`HasLast`: there is a last whole line. `Log` maps to `Begin`; `Rotate` to `Rotate`
(some of the unread are lost, perhaps all); the end of a line to `Write`, or to
`Spoil` if the half of another is before it; `ReadLine` to `Read`, or to a stutter
for the rest of a line. A tailer that opens the log while a line is half written
counts as starting until it is written, which is the second way of `Write`.
Creating a file, half a line, the end of a file and the change to the next are
stutters. A new file has to clear the tailer's mark of a line that was begun
(`since` in `Reopened`): else the first line of the new file would count as the
rest of one that stayed in the old file, which `LineFeed` forbids and the code,
whose half line lies in the file it leaves, does not do.

**WebStateProofs**: for any number of ACEs, heads and unread lines.

    IInv == TypeOK /\ LinesOwn /\ DueTrue /\ NewestTrue
                   /\ Reading /\ ShownTrue /\ ShownOwn /\ SureFree

`LinesOwn`: in the printer and in every line, gates are the active ACE's or
unknown; `DueTrue`: a line that is due says what the printer is; `NewestTrue`:
between two changes (`Quiet`) the newest line is right about the ACE and ends the
banner; `Reading`, `ShownTrue`: the newest line is the last of the unread, or it is
what the console shows and nothing is unread, as its `place` says; `ShownOwn`: what
a reseating writes into such a state does not spoil it; `SureFree`: a browser that
is sure of a head is right, here and in the lines on their way. The steps of the
log and of the console are those of `LineFeed`, so that these theorems rest on
what `Implements` proves of the tailer.
`BannerCorrect`, `ActiveCorrect`, `GatesCorrect`, `SwapCorrect` follow.

Only model-checked: `LinkComesBack`, `RunEnds` (of `AutoDry` and of `DryPlugin`) and
`EventsArrive`: liveness under fairness is out of the prover's reach. Every
invariant and every action property of the runs is a theorem.

## 6. Where code and documentation disagree

While the models were written TLC found behaviours that contradict a comment or
the documentation of the repository. Each behaviour listed here is in the model of
its component, except where the text says it is not; the properties of the runs are
what holds nevertheless. Where a property can be
stated for the first six, it is given with the instance that refutes it.

1. The switch for a head (`ace.py:2526`, `2543`) closes the live link and opens
   the target's port, which the keepalive holds open exclusively in the same
   process (1067-1079). It fails on perfect USB; the old link is not restored.
   `README.md:79` promises that an unload switches to the right ACE.
   (`AceLink`, 2 ACEs that are both head targets, none flaky:
   `[][op.pc = "hwait" /\ op'.pc = "idle" /\ ~link.connected =>
   link.handle[link.active] # "open"]_vars`.)
2. A retry that wakes up after a switch connects the wrong port, drops a link
   that works and shuts the printer down (`ace.py:1199`).
   (`[][link'.failed /\ ~link.failed => link.handle[link.active] # "open"]_vars`,
   2 ACEs, one flaky.)
3. PAUSE of a permanent failure waits for the G-code mutex of a command that
   waits, for ever, for a heartbeat that was unregistered (`ace.py:1268`, 1449).
   (`link.halt = "pending" ~> link.halt # "pending"` under `FairSpec`.)
4. `ACE_LOAD_HEAD` records a load that was silently refused, because a restart
   left the sensor disabled (`ace.py:2231`, "If sensor reads False, fail as
   before"). (`HeadFeed`, one head, `Crashes`: `[][op.pc = "record" /\ op' = Idle
   /\ source' # source => seen[op.head]]_vars`.)
5. AUTOLOAD retracts with the wrong ACE after a switch whose result nobody looks
   at (`filament_feed_ace.py:1487`). (`CommandsPullOwn` without its restriction
   to the commands.)
6. A payload that went stale while an ACE dries ends its run as a success
   measured at 0 %; `server.py:638-641` says a stale payload is handled safely.
   (`AutoDry`: no step from DRYING to COOLDOWN while `Stale`.)
7. `revalidate` runs match, plan and rewrite over the file on disk and takes the
   physical heads that the script put there for the slicer's tools
   (`server.py:1605`; "Re-run match + plan against current slot bindings and
   rewrite the sidecar", 1587). Every file the script resolved goes that way,
   since its status "ok" (`multiace_postprocess.py:978`) is refused by the print
   endpoint. `OneRewritePrintsOwn` therefore stops at the first rewrite.
8. The swaps of a rewritten file do not take place. `ACE_PARK_HEAD`
   (`multiace_postprocess.py:783`) is registered nowhere (`ace.py:279-330`; the
   web's own use of it was dropped, `docs/superpowers/plans/2026-05-07-swap-park.md:398-402`),
   so the load that follows finds a loaded head and is skipped (`ace.py:2182-2188`),
   and the tool that the plan brings in prints with what the head began with;
   `docs/superpowers/plans/2026-05-08-eight-color-postprocessor.md:2292` expects to
   see both commands at work. `OneRewritePrintsOwn` speaks of the tools that the plan
   leaves on the head they begin on. Besides, a rewritten file names, for all changes
   of a tool, the last head it was on (789), so a tool with two heads would print its
   earlier changes with the wrong one. A file can be revalidated while it is
   printed (`server.py:1448`).
9. The `finally` of any FEED_AUTO ends the skip that a print asked for a foreign
   head (`filament_feed_ace.py:2065` against the comment `ace.py:564-570`). An
   assist that was armed before a print stays on an ACE of `fa_print_disable`. A
   reset during the stop that `ACE_SWITCH` asks for makes `_connect` arm it again.
   `_fa_context` is never 'load' (`ace.py:161-165`).
10. `poller.py:3-5` says `ACE_HEAD_STATUS` refreshes the console; it writes no
    line. FEED_AUTO from the touchscreen changes a source without a line, so the
    console learns of it with the next one. The preflight refuses what is
    "provably going to fail" (`server.py:422`) on a state that may be old, or the
    default whose gates are 0, "empty".
11. After a restart, a run of the autodry plugin has been going on since 1970:
    it ends in FAILED_LIMIT at once or as a success of millions of minutes
    (`fsm.py:285`; 8-9 say the machine was ported faithfully; the console's
    recovers the start). `fsm.py:201` says "FAULTED is sticky — only an explicit
    reset_fault (API layer) clears it"; POST `/dry` leaves FAULTED (`fsm.py:379`),
    and automatic drying goes on after it. That holds also of a fault that comes
    while the request waits for the printer (`app.py:296-316`), which the user who
    sent it cannot have seen. It takes a run that ends within the wait, of at most
    600 s (`moonraker_client.py:29`), so a duration or a run limit shorter than
    that. `RunIsEarned` asks nothing after such a fault (`swept`).
12. POST `/dry` on an ACE that is disabled, which every ACE is at first, starts a
    run that never ends, since such an ACE is not ticked; every further request
    is refused (`app.py:160`).
13. A run that fails sets no cooldown, in the console (`autodryer.py:640-681`) and
    in the plugin (`fsm.py:305-338`): once the fault is reset, the next run may
    begin at once. `multiace_plugins/autodry/README.md:25` and 48 say that the
    cooldown "rate-limits re-triggering after a cycle ends" and is the "Minutes
    between cycles", `multiace_web/docs/auto-dry-design.md:98` that it "prevents
    flap-flap". `RestBetweenRuns` and `RunIsEarned` ask for the cooldown after a run
    that ended well, and for the user's reset after one that failed.
14. The hub's unassign falls back to the first spool at the slot when it has no
    record (`spoolman.py:232`), and pulls drop records: it may then take out
    another spool. A failed request leaves the three places different until it is
    made again; a mint whose assignment fails leaves a spool without a slot.

Weaknesses without a document that says otherwise: after a switch that was given
up late, `ACE_SWITCH` shows the target's slots as the old ACE's (`ActiveAce`
allows it); a saved empty list of manual heads does not override the
configuration at a restart; lines between the tailer's last read and its look for
a rotation, and between the console's start and the opening of the log, are lost
to the activity list, and if one of them is the last, the console is behind until
the next (`place` is "missed"); a restart of Klipper in the middle of a switch, or
a last line that was appended to half of one, leaves the console's banner (`cut`
in `WebState`); ticks of the plugin that are skipped for
a swap, the daily cap or the cooldown do not see a dip, so its debounce count
survives them.

## 7. What the models leave out

**AceLink**
* `ace_device_count` is set (the canonical list) and all ACEs are found at the
  start: the shifting indices of the other mode and the soft-failed start are
  not modelled. AUTOLOAD belongs to HeadFeed.
* The first `_connect` of a timer armed for NOW belongs to the step that arms
  it. The request `get_info` right after an open succeeds with it.
* The feed assist that `_connect` arms again, and the retract after a stopped
  assist, are left out; the generic `except Exception` of `_connect` and
  descriptors that leak are, too.
* No command starts once a PAUSE is queued. One heartbeat at most is in
  recovery; heartbeats that were leaked count as one.

**HeadFeed**
* Slot = head: `ACE_LOAD_HEAD` with another SLOT. All heads belong to one feed
  module, so there is one `channel_active` (the code has one per two heads).
* FEED_AUTO without STAGE, FEED_MANUAL, AUTO mode, `fa_load_disable`, the wait
  for RFID, the warning about wheels, machine states, motion.
* PRELOAD and STAGE=prepare are one step each. A failed `_disable_feed_assist`
  at the start of an unload is not modelled.
* The sensor has no false positives: what it sees is filament. It may lose sight
  of filament whose tip the extruder moved away.
* `ACE_MARK_HEAD_LOADED` is used by somebody who knows what is in the tube. A
  plain `ACE_SWITCH` is one step.
* Events of a sensor that is off, or within its event delay, are lost.

**AutoDry**
* `OBSERVED_DRYING`, mode `log` and the swap guard: `tick_one_ace` overrides the
  inputs that lead there. The loop of the single state machine is never started.
* The poller's lock flags: nothing reads them between being set and cleared.
* `last_run`, fault texts, the rise of humidity that tells FINISHED from
  FAILED_DELTA (both are possible), failing writes of the file, a target of a v1
  file other than ACE 0.
* Which dryer `ACE_DRY` starts, and the ACE's own timer: the model follows the
  state machine, not the heat.

**FeedAssist**
* Error answers of an ACE, single mode, `ACE_UNLOAD_ALL_HEADS`, the preload on
  insertion, AUTOLOAD, a second registration of the print handlers. A head without
  a record counts as empty; print events come between commands.
* The INDEX of `ACE_DISABLE_FEED_ASSIST`, which the code ignores.

**PrintQueue**
* A header that is missing or has fewer than two tools (nothing is done), tool
  lines with arguments, two hex codes of one colour, files that cannot be read.

**SpoolHub**
* The view of `reconcile_slots`, which changes nothing; the wording of labels; a
  record file that cannot be read (it counts as empty); the page, which no longer
  pulls by itself. The endpoints of the slot overrides are the environment.

**LineFeed**, **LogTailer**, **WebState**
* The event ring, `last_error`, a log that is truncated or switched off, the
  websocket's token, printing and sensor data. Whether a gate is full.
* Lines of loads and unloads, done or failed, are one kind; SWITCH_TARGET stands
  for every switch on the way to a load. An ACE that answered is not given up.
* `_open` opens the file and then asks for its number (`tailer.py` 43-44): a
  rotation between the two is not modelled. A console that starts reads no more
  than the last 64 KB; a line is taken to be shorter.

**DryPlugin**
* `last_run`, the texts of faults and of skipped ticks, the page, the cache of the
  humidity bridge, a file that cannot be read. A run ends well or not by choice,
  whatever the humidity fell by. Which dryer really heats.
* A tick that an exception ends (`app.py:213`, "tick failed; continuing"), as an
  error of the file system in the save does. What it has made of the ACEs is then in
  memory and not in the file, also between ticks, until the next save: `FileKnows`
  does not hold of it.

**Not modelled**, with the reason for each in `PROJECT.json`: the wire protocol
(V1 finds the devices and frames the keepalive, `ace.py` takes frames apart by
itself and hands over whole answers, V2 is used by nothing), the status snapshot (a projection), the extruder (stock Klipper), the
Govee bridge (I/O), installers, overlay patches and developer tools (file copies
and test drivers). Of `ace.py`, `_switch_ace_for_head` (2001-2067) has no caller.
Of the console, configuration, snapshots, translations and spool lists are I/O.

## 8. What could come next

* Slots in the records of `HeadFeed`, for `ACE_LOAD_HEAD` with SLOT # HEAD: FEED_AUTO
  feeds slot = head (`filament_feed_ace.py:1092`) whatever slot was checked.
* The device list without `ace_device_count` (`ace.py:354`): an ACE that is missing
  shifts the index of those after it, and records name another unit.
* The records that FEED_AUTO has cleared when a restart comes before the head is
  recorded as parked (`ace.py:2485`), and those of heads whose unload raised
  (`ace.py:2675`).
