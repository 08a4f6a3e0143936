------------------------------ MODULE AutoDry ------------------------------
(* The auto-dryer of multiace_web: one humidity state machine per ACE        *)
(* (autodryer.py), the poller that walks the ACEs and ticks them             *)
(* (poller.py, MultiAcePoller), the cached print payload they read           *)
(* (PrintStatePoller and the inputs fetcher of server.py), the state file    *)
(* with its two formats, and the process that may die at any moment.         *)
(*                                                                           *)
(* Time stamps are ages: a stamp of t seconds is the number of time units    *)
(* since t, capped where nothing distinguishes older stamps, and a deadline  *)
(* is the units left.  A stamp of 0.0 is Epoch.  A stamp that nothing reads  *)
(* any more, the start of a run that is over, is set to Epoch at once.       *)
EXTENDS Integers

CONSTANTS
    N,            \* ACEs of the printer
    Required,     \* debounce_required: wet ticks in a row before a run
    Cooldown,     \* cooldown_min, in time units
    MaxRun,       \* max_run_min
    Duration,     \* effective_duration_min of a run
    DutyCap,      \* daily_duty_max_min
    StaleLimit,   \* three print-poll intervals
    Late,         \* how old a print payload may be when it is stored
    RoundRobin,   \* MULTIACE_AUTODRY_ROUND_ROBIN
    OldIds,       \* may the record of ACE 0 hold an id from the start?
    Events        \* bound: restarts, the user's requests and switches, in all

ASSUME CountAssumption == N \in Nat \ {0} /\ Events \in Nat
ASSUME CapAssumption ==
    /\ Required \in Nat \ {0} /\ Cooldown \in Nat \ {0} /\ MaxRun \in Nat \ {0}
    /\ Duration \in Nat \ {0} /\ DutyCap \in Nat \ {0}
    /\ StaleLimit \in Nat /\ Late \in Nat
ASSUME ModeAssumption == RoundRobin \in BOOLEAN /\ OldIds \subseteq BOOLEAN

ACE == 0..(N - 1)
Epoch == -1                       \* a stamp of 0.0
Nobody == -1                      \* nothing polled yet; no trigger at hand
Held == -1                        \* a run that failed, its fault not reset
PrintStates == {"idle", "printing", "paused"}
Busy == {"printing", "paused"}

\* What the sensor of an ACE says: nothing usable, with a number of 0.0; at or below
\* the target, as is one without a number; in between; above the wake line.
Readings == {"none", "dry", "mid", "wet"}
AtTarget == {"none", "dry"}

\* FSMState without OBSERVED_DRYING: tick_one_ace always passes dryer_status
\* "stop", and only "drying" leads there.
States == {"IDLE", "WATCHING", "DRYING", "COOLDOWN", "FAULTED"}

VARIABLES
    n,         \* ACEs the process manages: the device count it found at boot
    fsm,       \* snapshot of each ACE: [state, since, cool, duty]
    enabled,   \* config.enabled of each ACE
    eph,       \* Ephemeral of each ACE: [count, started, dur]
    fails,     \* consecutive switch failures of each ACE; 2 is `unreachable`
    file,      \* format of the state file: "v2", or "v1-off" / "v1-on"
    posted,    \* a v1 file holds the id of an announcement
    told,      \* the record of ACE 0 holds one, as found in a v1 file
    pc,        \* where the poller's tick is
    dryFor,    \* the ACE whose trigger is being announced and commanded, or Nobody
    lastPolled,
    active,    \* the active ACE of the printer
    print,     \* print_stats.state of the printer
    cache,     \* app.state.last_print: [busy, age], a print or none
    events,    \* how much of the bound is spent
    phaseFor,  \* time since a print last began or ended
    seen, run, rest   \* history: see the comments of the properties

process == <<n, fails, pc, dryFor, lastPolled>>
stored  == <<fsm, enabled, file, posted, told>>
printer == <<active, print, phaseFor>>
history == <<seen, run, rest>>
vars == <<process, stored, eph, printer, cache, history, events>>

Least(a, b) == IF a < b THEN a ELSE b
Count(a, cap) == Least(a + 1, cap)

\* A payload too old to be used, or none yet: nothing in it matters.
Outdated == [busy |-> FALSE, age |-> StaleLimit + 1]
Blank == [state |-> "IDLE", since |-> Epoch, cool |-> 0, duty |-> 0]
FreshEph == [count |-> 0, started |-> Epoch, dur |-> FALSE]

Unreachable(a) == fails[a] >= 2
Stale == cache.age > StaleLimit
\* The fetcher says "printing" or "paused"; of a stale payload it says "standby".
SeenBusy == ~Stale /\ cache.busy
\* int((now - started) / 60), capped: a start at the epoch is long ago.
Ran(started) == IF started = Epoch THEN MaxRun ELSE started

SnapshotType == [state : States, since : Epoch..MaxRun, cool : 0..Cooldown, duty : 0..DutyCap]
EphType == [count : 0..Required, started : Epoch..MaxRun, dur : BOOLEAN]

TypeOK ==
    /\ n \in 1..N
    /\ fsm \in [ACE -> SnapshotType]
    /\ enabled \in [ACE -> BOOLEAN]
    /\ eph \in [ACE -> EphType]
    /\ fails \in [ACE -> 0..2]
    /\ dryFor \in ACE \cup {Nobody}
    /\ file \in {"v2", "v1-off", "v1-on"}
    /\ posted \in BOOLEAN /\ told \in BOOLEAN
    /\ pc \in {"sleep", "pinned", "turn", "visit", "announce", "command", "dismiss"}
    /\ lastPolled \in ACE \cup {Nobody}
    /\ active \in ACE
    /\ print \in PrintStates
    /\ cache \in [busy : BOOLEAN, age : 0..(StaleLimit + 1)]
    /\ events \in 0..Events
    /\ seen \in [ACE -> 0..Required]
    /\ run \in [ACE -> 0..MaxRun]
    /\ rest \in [ACE -> Held..Cooldown]
    /\ phaseFor \in 0..(StaleLimit + Late + 1)

(* The process starts: load_manager reads the file.  A v1 file is migrated:  *)
(* everything is default, and ACE 0 (the default target_ace) is enabled if   *)
(* its mode was log or active.  A v2 file gives each ACE below the device    *)
(* count its record back; the records of the others stay in the file until   *)
(* the next save.                                                            *)
Loaded(f) == IF file = "v2" THEN f ELSE [a \in ACE |-> Blank]
LoadedEnabled == IF file = "v2" THEN enabled
                 ELSE [a \in ACE |-> a = 0 /\ file = "v1-on"]

Init ==
    /\ n \in {1, N}
    \* The first boot writes a v1 file; a later one finds the ACEs as configured, and
    \* perhaps an id that an earlier process left.
    /\ \/ /\ file \in {"v1-off", "v1-on"}
          /\ enabled = [a \in ACE |-> a = 0 /\ file = "v1-on"]
          /\ told = FALSE
       \/ /\ file = "v2"
          /\ enabled \in [ACE -> BOOLEAN]
          /\ told \in OldIds
    /\ posted = FALSE
    /\ fsm = [a \in ACE |-> Blank]
    /\ eph = [a \in ACE |-> FreshEph]
    /\ fails = [a \in ACE |-> 0]
    /\ dryFor = Nobody
    /\ pc = "sleep" /\ lastPolled = Nobody
    /\ active \in ACE
    /\ print = "idle" /\ phaseFor = StaleLimit + Late + 1
    /\ cache = Outdated
    /\ events = 0
    /\ seen = [a \in ACE |-> 0]
    /\ run = [a \in ACE |-> 0]
    /\ rest = [a \in ACE |-> Cooldown]

\* _save_manager: the file holds the managed ACEs, in format v2, and nothing else.
Kept(f, default) == [a \in ACE |-> IF a < n THEN f[a] ELSE default]
Save(f, on) ==
    /\ fsm' = Kept(f, Blank)
    /\ enabled' = Kept(on, FALSE)
    /\ file' = "v2" /\ posted' = FALSE
    /\ UNCHANGED told

-----------------------------------------------------------------------------
(* One tick of the state machine of ACE a on reading r: tick_fsm.  Each      *)
(* disjunct says what becomes of the snapshot and of the ephemeral part.     *)

\* The ephemeral part a tick works with: the start of a run is recovered from the
\* snapshot after a restart.

Recovered_Not(a) == eph[a]
Recovered(a) ==
    IF /\ fsm[a].state = "DRYING"
       /\ eph[a].started = Epoch
       /\ fsm[a].since # Epoch
    THEN [eph[a] EXCEPT !.started = fsm[a].since]
    ELSE eph[a]

\* a has snapshot s and ephemeral part e now, and all is saved.
Becomes(a, s, e) ==
    /\ Save([fsm EXCEPT ![a] = s], enabled)
    /\ eph' = [eph EXCEPT ![a] = e]
\* History: a has x wet visits in a row, its run is y old, its last one ended z ago
\* or left a fault.
Noted(a, x, y, z) ==
    /\ seen' = Kept([seen EXCEPT ![a] = x], 0)
    /\ run' = Kept([run EXCEPT ![a] = y], 0)
    /\ rest' = Kept([rest EXCEPT ![a] = z], Cooldown)
Quietly(a, s, e) == Becomes(a, s, e) /\ Noted(a, 0, run[a], rest[a])

\* a enters a state at a time; the start and the duration of its run are no more.
Entered(a, state, since) ==
    [state |-> state, since |-> since, cool |-> fsm[a].cool, duty |-> fsm[a].duty]
Stopped(a) == [count |-> eph[a].count, started |-> Epoch, dur |-> FALSE]

\* The run of a ends without a fault, `ran` units of it on the daily account.
EndRun_NoCooldown(a, ran) ==
    /\ Becomes(a, [state |-> "COOLDOWN", since |-> Epoch, cool |-> 0,
                   duty |-> Least(fsm[a].duty + ran, DutyCap)],
               Stopped(a))
    /\ Noted(a, 0, 0, 0)
EndRun(a, ran) ==
    /\ Becomes(a, [state |-> "COOLDOWN", since |-> Epoch, cool |-> Cooldown,
                   duty |-> Least(fsm[a].duty + ran, DutyCap)],
               Stopped(a))
    /\ Noted(a, 0, 0, 0)
\* The run of a fails: no cooldown, but nothing goes on until the fault is reset.
Fail(a) ==
    /\ Becomes(a, Entered(a, "FAULTED", Epoch), Stopped(a))
    /\ Noted(a, 0, 0, Held)

\* can_be_armed: a usable reading, and filament on a head or to be kept ready.
CanBeArmed(r) == IF r = "none" THEN {FALSE} ELSE BOOLEAN

Idle(a, armed) ==
    /\ fsm[a].state = "IDLE"
    /\ \/ /\ armed
          /\ Quietly(a, [fsm[a] EXCEPT !.state = "WATCHING"], [eph[a] EXCEPT !.count = 0])
       \/ /\ ~armed
          /\ Quietly(a, fsm[a], eph[a])

Demote(a, armed) ==
    /\ fsm[a].state = "WATCHING"
    /\ ~armed
    /\ Quietly(a, [fsm[a] EXCEPT !.state = "IDLE"], [eph[a] EXCEPT !.count = 0])

Watching(a, armed) == fsm[a].state = "WATCHING" /\ armed

SkipPrint_KeepsCount(a, armed) ==
    /\ Watching(a, armed)
    /\ SeenBusy
    /\ Quietly(a, fsm[a], eph[a])
SkipPrint(a, armed) ==
    /\ Watching(a, armed)
    /\ SeenBusy
    /\ Quietly(a, fsm[a], [eph[a] EXCEPT !.count = 0])

\* The daily cap is reached, or a cooldown is still on: the count stays as it is.
SkipDaily(a, armed) ==
    /\ Watching(a, armed)
    /\ ~SeenBusy
    /\ fsm[a].duty >= DutyCap \/ fsm[a].cool > 0
    /\ Quietly(a, fsm[a], eph[a])

Observing(a, armed) ==
    /\ Watching(a, armed)
    /\ ~SeenBusy
    /\ fsm[a].duty < DutyCap
    /\ fsm[a].cool = 0

ObserveBelow(a, r, armed) ==
    /\ Observing(a, armed)
    /\ r # "wet"
    /\ Quietly(a, fsm[a], [eph[a] EXCEPT !.count = 0])

ObserveAbove(a, r, armed) ==
    /\ Observing(a, armed)
    /\ r = "wet"
    /\ Count(eph[a].count, Required) < Required
    /\ Becomes(a, fsm[a], [eph[a] EXCEPT !.count = Count(@, Required)])
    /\ Noted(a, Count(seen[a], Required), run[a], rest[a])

\* AUTODRY_TRIGGERED
Trigger(a, r, armed) ==
    /\ Observing(a, armed)
    /\ r = "wet"
    /\ Count(eph[a].count, Required) >= Required
    /\ Becomes(a, Entered(a, "DRYING", 0),
               [count |-> 0, started |-> 0, dur |-> TRUE])
    /\ Noted(a, 0, 0, rest[a])

\* A print began: the run is given up, and not put on the daily account.
Interrupt(a) ==
    /\ fsm[a].state = "DRYING"
    /\ SeenBusy
    /\ EndRun(a, 0)

Running(a) == fsm[a].state = "DRYING" /\ ~SeenBusy
RanNow(a) == Ran(Recovered(a).started)

\* AUTODRY_FINISHED: humidity_pct <= target_pct, whatever humidity_ok says.
ReachTarget(a, r) ==
    /\ Running(a)
    /\ r \in AtTarget
    /\ EndRun(a, RanNow(a))

\* AUTODRY_FAILED_LIMIT
FailLimit(a, r) ==
    /\ Running(a)
    /\ r \notin AtTarget
    /\ RanNow(a) >= MaxRun
    /\ Fail(a)

DurationOver(a, r) ==
    /\ Running(a)
    /\ r \notin AtTarget
    /\ RanNow(a) < MaxRun
    /\ Recovered(a).dur /\ RanNow(a) >= Duration

\* AUTODRY_FAILED_DELTA, or AUTODRY_FINISHED still above the target.
RunOut(a, r) == DurationOver(a, r) /\ (EndRun(a, RanNow(a)) \/ Fail(a))

KeepDrying(a, r) ==
    /\ Running(a)
    /\ r \notin AtTarget
    /\ RanNow(a) < MaxRun
    /\ ~(Recovered(a).dur /\ RanNow(a) >= Duration)
    /\ Quietly(a, fsm[a], Recovered(a))

CoolDown(a) ==
    /\ fsm[a].state = "COOLDOWN"
    /\ \/ /\ fsm[a].cool = 0
          /\ Quietly(a, [fsm[a] EXCEPT !.state = "WATCHING"], [eph[a] EXCEPT !.count = 0])
       \/ /\ fsm[a].cool > 0
          /\ Quietly(a, fsm[a], eph[a])

\* Sticky: only reset_fault leaves FAULTED.
StayFaulted(a) ==
    /\ fsm[a].state = "FAULTED"
    /\ Quietly(a, fsm[a], eph[a])

\* tick_fsm without the disjuncts that report something.
TickQuiet(a, r, armed) ==
    \/ Idle(a, armed)
    \/ Demote(a, armed)
    \/ SkipPrint(a, armed)
    \/ SkipDaily(a, armed)
    \/ ObserveBelow(a, r, armed)
    \/ ObserveAbove(a, r, armed)
    \/ Interrupt(a)
    \/ KeepDrying(a, r)
    \/ CoolDown(a)
    \/ StayFaulted(a)

\* AUTODRY_FINISHED or AUTODRY_FAILED_*
RunEnded(a, r) == ReachTarget(a, r) \/ FailLimit(a, r) \/ RunOut(a, r)

\* The readings tick_one_ace may find: none when the cached payload is stale.
Sensed_AnyAge == Readings
Sensed == IF Stale THEN {"none"} ELSE Readings

Ticked(a) == a < n /\ ~Unreachable(a) /\ enabled[a]

(* tick_one_ace of ACE a, which the caller has just unlocked or pinned.      *)
TickOneAce(a) ==
    \/ /\ ~Ticked(a)
       /\ pc' = "sleep"
       /\ UNCHANGED <<dryFor, stored, eph, history>>
    \/ /\ Ticked(a)
       /\ \E r \in Sensed : \E armed \in CanBeArmed(r) :
            \/ /\ TickQuiet(a, r, armed)
               /\ pc' = "sleep"
               /\ UNCHANGED dryFor
            \/ /\ RunEnded(a, r)
               /\ pc' = IF a = 0 /\ told THEN "dismiss" ELSE "sleep"
               /\ UNCHANGED dryFor
            \/ /\ Trigger(a, r, armed)
               /\ pc' = "announce"
               /\ dryFor' = a

-----------------------------------------------------------------------------
(* The poller: one tick of MultiAcePoller, an await between the actions.     *)

\* tick: print_stats decides the branch; without round robin idle does nothing.
Poll ==
    /\ pc = "sleep"
    /\ pc' = IF print = "printing" THEN "pinned"
             ELSE IF RoundRobin THEN "turn" ELSE "sleep"
    /\ UNCHANGED <<n, fails, dryFor, lastPolled, stored, eph, printer,
                   cache, history, events>>

\* _tick_printing: tick the active ACE, pinned by the print.
Pinned ==
    /\ pc = "pinned"
    /\ TickOneAce(active)
    /\ UNCHANGED <<n, fails, lastPolled, printer, cache, events>>

Anchor == IF lastPolled = Nobody THEN active ELSE lastPolled
NextTarget == (Anchor + 1) % n

\* _tick_idle up to the visit: unlock all, choose the next ACE, switch if needed.
Turn ==
    /\ pc = "turn"
    /\ lastPolled' = Anchor
    /\ UNCHANGED <<n, dryFor, stored, eph, print, phaseFor, cache, history, events>>

TurnStays ==
    /\ active = NextTarget
    /\ Turn
    /\ pc' = "visit"
    /\ UNCHANGED <<fails, active>>

\* ACE_SWITCH answers: the ACE counts as reachable (again).
TurnAnswered_StaysUnreachable ==
    /\ active # NextTarget
    /\ Turn
    /\ fails' = IF Unreachable(NextTarget) THEN fails ELSE [fails EXCEPT ![NextTarget] = 0]
    /\ pc' = "visit"
TurnAnswered ==
    /\ active # NextTarget
    /\ Turn
    /\ fails' = [fails EXCEPT ![NextTarget] = 0]
    /\ pc' = "visit"
TurnSwitches(a) == NextTarget = a /\ TurnAnswered /\ active' = a
\* The firmware swallows its own failures: an answer need not mean a switch.
TurnSwallowed == TurnAnswered /\ UNCHANGED active

\* The request, or the query after it, fails, whatever became of the switch: ask
\* for the same ACE next time, and count it, from zero after an answer.
TurnFails ==
    /\ active # NextTarget
    /\ Turn
    /\ active' \in {active, NextTarget}
    /\ fails' \in {[fails EXCEPT ![NextTarget] = Count(@, 2)],
                   [fails EXCEPT ![NextTarget] = 1]}
    /\ pc' = "sleep"

\* The query of the active ACE fails; run() logs it and goes on.
QueryFails ==
    /\ pc \in {"pinned", "turn"}
    /\ pc' = "sleep"
    /\ UNCHANGED <<n, fails, dryFor, lastPolled, stored, eph, printer, cache, history, events>>

Visit ==
    /\ pc = "visit"
    /\ lastPolled' = NextTarget
    /\ TickOneAce(NextTarget)
    /\ UNCHANGED <<n, fails, printer, cache, events>>

\* _maybe_announce keeps the id of an announcement with load_persisted_state and
\* save_persisted_state, which know no v2 and write v1.
PutId(id) ==
    /\ file' = IF file = "v2" THEN "v1-off" ELSE file
    /\ posted' = id

\* _maybe_announce of a trigger: the id is kept if the post is answered with one.
Announce ==
    /\ pc = "announce"
    /\ pc' = "command"
    /\ PutId(TRUE) \/ UNCHANGED <<file, posted>>
    /\ UNCHANGED <<n, fails, dryFor, lastPolled, fsm, enabled, told, eph,
                   printer, cache, history, events>>

\* _maybe_announce of the end of a run of an ACE whose record holds an id.
Dismiss ==
    /\ pc = "dismiss"
    /\ pc' = "sleep"
    /\ PutId(FALSE)
    /\ UNCHANGED <<n, fails, dryFor, lastPolled, fsm, enabled, told, eph,
                   printer, cache, history, events>>

\* _invoke_dry_if_triggered: ACE_DRY switches to its ACE, if that works, and
\* starts the dryer of whatever ACE is active.  A failure is only logged.
Command ==
    /\ pc = "command"
    /\ pc' = "sleep"
    /\ active' \in {active, dryFor}
    /\ dryFor' = Nobody
    /\ UNCHANGED <<n, fails, lastPolled, stored, eph, print,
                   phaseFor, cache, history, events>>

-----------------------------------------------------------------------------
(* The user's requests.                                                      *)

Spend == events < Events /\ events' = events + 1

\* POST /api/autodry?ace=a with enabled
SetEnabled(a, on) ==
    /\ Spend
    /\ a < n
    /\ Save(fsm, [enabled EXCEPT ![a] = on])
    /\ Noted(a, seen[a], run[a], rest[a])
    /\ UNCHANGED <<process, eph, printer, cache>>

\* POST /api/autodry?ace=a with action reset_fault
ResetFault(a) ==
    /\ Spend
    /\ a < n
    /\ Becomes(a, [fsm[a] EXCEPT !.state = IF @ = "FAULTED" THEN "IDLE" ELSE @], eph[a])
    /\ Noted(a, seen[a], run[a], IF rest[a] = Held THEN Cooldown ELSE rest[a])
    /\ UNCHANGED <<process, printer, cache>>

\* POST /api/autodry without an ACE: the panel of the single state machine loads
\* the file as v1, which is all default if it is v2, and writes it back as v1.
LegacyPost(mode) ==
    /\ Spend
    /\ file' = mode
    /\ posted' = (file # "v2" /\ posted)
    /\ UNCHANGED <<process, fsm, enabled, told, eph, printer, cache, history>>

-----------------------------------------------------------------------------
(* The printer, the print payload, the clock and the process.                *)

SetPrint(s) ==
    /\ \/ print = "idle" /\ s = "printing"
       \/ print = "printing" /\ s \in {"paused", "idle"}
       \/ print = "paused" /\ s \in {"printing", "idle"}
    /\ print' = s
    /\ phaseFor' = IF (print \in Busy) = (s \in Busy) THEN phaseFor ELSE 0
    /\ UNCHANGED <<process, stored, eph, active, cache, history, events>>

\* A switch by the user, the print or another command.
UserSwitch(a) ==
    /\ a # active
    /\ Spend
    /\ active' = a
    /\ UNCHANGED <<process, stored, eph, print, phaseFor, cache, history>>

\* PrintStatePoller or GET /api/print stores a payload, stamped with the time of
\* storing: what the printer said when it answered may be over by now.
Refresh ==
    /\ \E busy \in BOOLEAN :
         /\ busy # (print \in Busy) => phaseFor <= Late
         /\ cache' = [busy |-> busy, age |-> 0]
    /\ UNCHANGED <<process, stored, eph, printer, history, events>>

Older(stamp) == IF stamp = Epoch THEN Epoch ELSE Count(stamp, MaxRun)

\* One unit of time.
Pass ==
    /\ fsm' = [a \in ACE |-> [fsm[a] EXCEPT !.since = Older(@),
                                           !.cool = IF @ = 0 THEN 0 ELSE @ - 1]]
    /\ eph' = [a \in ACE |-> [eph[a] EXCEPT !.started = Older(@)]]
    /\ run' = [a \in ACE |-> IF fsm[a].state = "DRYING" THEN Count(run[a], MaxRun) ELSE 0]
    /\ rest' = [a \in ACE |-> IF rest[a] = Held THEN Held ELSE Count(rest[a], Cooldown)]
    /\ cache' = IF cache.age < StaleLimit THEN [cache EXCEPT !.age = @ + 1] ELSE Outdated
    /\ phaseFor' = Count(phaseFor, StaleLimit + Late + 1)
    /\ UNCHANGED <<process, enabled, file, posted, told, active, print, seen, events>>

\* Runs of more than a day ago leave the daily account.
DayPasses(a) ==
    /\ \E left \in 0..(fsm[a].duty - 1) : fsm' = [fsm EXCEPT ![a].duty = left]
    /\ UNCHANGED <<process, enabled, file, posted, told, eph, printer, cache, history, events>>

\* The process dies, at any point, and is started again; the device count comes
\* from the state log, and is 1 when the log does not hold it.
Restart ==
    /\ Spend
    /\ n' \in {1, N}
    /\ fsm' = Loaded(fsm)
    /\ enabled' = LoadedEnabled
    /\ eph' = [a \in ACE |-> FreshEph]
    /\ fails' = [a \in ACE |-> 0]
    /\ dryFor' = Nobody
    /\ pc' = "sleep" /\ lastPolled' = Nobody
    /\ cache' = Outdated
    /\ seen' = [a \in ACE |-> 0]
    /\ run' = IF file = "v2" THEN run ELSE [a \in ACE |-> 0]
    /\ rest' = IF file = "v2" THEN rest ELSE [a \in ACE |-> Cooldown]
    /\ told' = IF file = "v2" THEN told ELSE posted
    /\ UNCHANGED <<file, posted, printer>>

Poller == Poll \/ Pinned \/ TurnStays \/ (\E a \in ACE : TurnSwitches(a))
          \/ TurnSwallowed \/ TurnFails \/ QueryFails \/ Visit
          \/ Announce \/ Dismiss \/ Command

Next ==
    \/ Poller
    \/ \E a \in ACE, on \in BOOLEAN : SetEnabled(a, on)
    \/ \E a \in ACE : ResetFault(a) \/ UserSwitch(a) \/ DayPasses(a)
    \/ \E mode \in {"v1-off", "v1-on"} : LegacyPost(mode)
    \/ \E s \in PrintStates : SetPrint(s)
    \/ Refresh
    \/ Pass
    \/ Restart

Spec == Init /\ [][Next]_vars

(* The event loop runs the poller's tick to its end again and again          *)
(* (poller.run), time passes, and what the poller asks of Moonraker over and *)
(* over, the active ACE or a switch to some ACE, is done and answered in the *)
(* end.  A switch that is done each time but never answered would leave its  *)
(* ACE unreachable for ever.                                                 *)
FairSpec ==
    /\ Spec
    /\ WF_vars(Poller)
    /\ SF_vars(TurnStays)
    /\ \A a \in ACE : SF_vars(TurnSwitches(a))
    /\ WF_vars(Pass)

-----------------------------------------------------------------------------
Triggers(a) == fsm[a].state # "DRYING" /\ fsm'[a].state = "DRYING"
Faults(a) == fsm[a].state # "FAULTED" /\ fsm'[a].state = "FAULTED"
(* TriggerIsDebounced: a run of an ACE begins only on the last of Required   *)
(* visits to that ACE in a row that found it armed, not printing, below its  *)
(* cap and above the wake line, all since the process started.  The count    *)
(* must not survive a dip, a demotion, a print, a run, a restart, nor grow   *)
(* from another ACE's visits.  History: seen counts those visits.            *)
TriggerIsDebounced ==
    [][\A a \in ACE : Triggers(a) => seen[a] >= Required - 1]_vars

(* LimitIsReal: AUTODRY_FAILED_LIMIT, which stops an ACE's auto-drying until *)
(* the user clears it, is reported only of a run that really has gone on for *)
(* max_run_min, also when the process that began it is dead and the time it  *)
(* remembers was lost with it.  History: run is the time since the trigger.  *)
LimitIsReal ==
    [][\A a \in ACE : Faults(a) /\ RanNow(a) >= MaxRun => run[a] = MaxRun]_vars

(* RestBetweenRuns: between the end of a run and the next trigger of the ACE *)
(* the cooldown has passed if the run ended well, and if it failed, which    *)
(* sets no cooldown, the user has reset its fault; restarts included, as     *)
(* long as the file still knew the run.  History: rest is the time since the *)
(* last run ended, Held while its fault waits for the user, and Cooldown     *)
(* from the reset on, however soon that came.                                *)
RestBetweenRuns ==
    [][\A a \in ACE : Triggers(a) => rest[a] = Cooldown]_vars

(* PrintIsNoticed: no run begins when a print has been going on for longer   *)
(* than the fetcher trusts its payload and a payload may be under way,       *)
(* however long Moonraker has been silent and whichever of its two writers   *)
(* stored last.                                                              *)
PrintIsNoticed ==
    [][(\E a \in ACE : Triggers(a))
         => print = "idle" \/ phaseFor <= StaleLimit + Late]_vars

(* RunEnds: once the user leaves an ACE that the process manages enabled and *)
(* no print is on, the ACE is not DRYING for ever: failing switches to the   *)
(* other ACE, silent sensors and lost starting times all end the run.        *)
RunEnds ==
    \A a \in ACE :
        <>[](enabled[a] /\ n = N /\ print = "idle") => []<>(fsm[a].state # "DRYING")

=============================================================================
