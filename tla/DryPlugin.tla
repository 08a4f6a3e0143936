----------------------------- MODULE DryPlugin ------------------------------
(***************************************************************************)
(* The Auto-Dry plugin: the humidity state machine of each ACE (fsm.py),   *)
(* the loop that ticks them and commands the dryer, and the requests that  *)
(* run beside it (app.py).  Their awaits are the boundaries of the         *)
(* actions.  The machine was ported from the one that AutoDry models;      *)
(* unlike there, the start of a run is lost with the process.              *)
(*                                                                         *)
(* A time stamp is the time since then, capped; a deadline the time left;  *)
(* a stamp of 0.0 is Epoch.                                                *)
(***************************************************************************)
EXTENDS Integers, FiniteSetsExt

CONSTANTS
  N,           \* ACEs of the printer
  Required,    \* debounce_required
  Cooldown,    \* cooldown_min, in time units
  MaxRun,      \* max_run_min
  Duration,    \* duration_min
  DutyCap,     \* daily_duty_max_min
  Events       \* bound: restarts of the plugin and requests, in all

ASSUME DryPluginAssumption ==
  /\ {N, Required, Cooldown, MaxRun, Duration, DutyCap} \subseteq Nat \ {0}
  /\ Events \in Nat

ACE == 0 .. (N - 1)
Epoch == -1

VARIABLES
  fsm,       \* FSMSnapshot of each ACE; rest and held are history: the time
             \* since a run last ended well, and what has become of a fault
  eph,       \* Ephemeral of each ACE; seen is history: wet ticks since it was
             \* armed, last dried or last below the wake line
  enabled,   \* config.enabled of each ACE, in the file at once
  file,      \* the snapshots in the file
  pc,        \* where the tick is
  at,        \* the ACE that it has come to
  count,     \* device_count, as this tick found it
  busy,      \* print_state of this tick: "printing" or "paused"
  asking,    \* whether a POST /dry of each ACE waits for the printer; "blind",
             \* which is history, when a fault has come since it was sent
  events     \* how much of the bound is spent

tick == <<pc, at, count, busy>>
vars == <<fsm, eph, enabled, file, tick, asking, events>>

\* No usable reading; at or below the target; up to the wake line; above it
Readings == {"none", "dry", "mid", "wet"}
States == {"IDLE", "WATCHING", "DRYING", "COOLDOWN", "FAULTED"}

\* History: no fault, or one that the user has dealt with; one that waits for the
\* user; one that a POST /dry from before it has swept away
Held == {"no", "held", "swept"}
Asking == {"no", "waits", "blind"}

Snapshot == [state : States, cool : 0 .. Cooldown, duty : 0 .. DutyCap,
             rest : 0 .. Cooldown, held : Held]
Ephemeral == [count : 0 .. Required, started : Epoch .. MaxRun, seen : 0 .. Required]

Blank == [state |-> "IDLE", cool |-> 0, duty |-> 0, rest |-> Cooldown, held |-> "no"]
FreshEph == [count |-> 0, started |-> Epoch, seen |-> 0]

Count(x, cap) == Min({x + 1, cap})
-----------------------------------------------------------------------------
(* tick_fsm of ACE a on a reading: what becomes of its snapshot and of the *)
(* ephemeral part.                                                         *)

Becomes(a, s, e) == fsm' = [fsm EXCEPT ![a] = s] /\ eph' = [eph EXCEPT ![a] = e]
Stays(a) == UNCHANGED <<fsm, eph>>
Rearmed(a) == [eph[a] EXCEPT !.count = 0, !.seen = 0]
Moved(a, state) == [fsm[a] EXCEPT !.state = state]

CanArm(a, r) == enabled[a] /\ r # "none" /\ ~busy

Arm(a, r) ==
  /\ fsm[a].state = "IDLE" /\ CanArm(a, r)
  /\ Becomes(a, Moved(a, "WATCHING"), Rearmed(a))

Demote(a, r) ==
  /\ fsm[a].state = "WATCHING" /\ ~CanArm(a, r)
  /\ Becomes(a, Moved(a, "IDLE"), Rearmed(a))

Watching(a, r) == fsm[a].state = "WATCHING" /\ CanArm(a, r)

\* A swap, the daily cap or the cooldown; the reading does not count, even a low one.
Skip(a, r) == Watching(a, r) /\ Stays(a)

Observing(a, r) == Watching(a, r) /\ fsm[a].duty < DutyCap /\ fsm[a].cool = 0

ObserveBelow(a, r) ==
  /\ Observing(a, r) /\ r # "wet"
  /\ Becomes(a, fsm[a], Rearmed(a))

Observed(a) == Count(eph[a].count, Required)

ObserveAbove(a, r) ==
  /\ Observing(a, r) /\ r = "wet" /\ Observed(a) < Required
  /\ Becomes(a, fsm[a],
             [eph[a] EXCEPT !.count = Observed(a), !.seen = Count(@, Required)])

\* AUTODRY_TRIGGERED
Trigger(a, r) ==
  /\ Observing(a, r) /\ r = "wet" /\ Observed(a) = Required
  /\ Becomes(a, Moved(a, "DRYING"), [Rearmed(a) EXCEPT !.started = 0])

\* No cooldown after a run, of which "ran" units go on the daily account
EndRun_NoCooldown(a, ran) ==
  Becomes(a, [fsm[a] EXCEPT !.state = "COOLDOWN", !.rest = 0,
                            !.duty = Min({@ + ran, DutyCap})],
          [eph[a] EXCEPT !.started = Epoch])

\* The run ends without a fault, "ran" units of it on the daily account.  Nothing
\* reads its start any more.
EndRun(a, ran) ==
  Becomes(a, [fsm[a] EXCEPT !.state = "COOLDOWN", !.cool = Cooldown, !.rest = 0,
                            !.duty = Min({@ + ran, DutyCap})],
          [eph[a] EXCEPT !.started = Epoch])

\* The run fails: there is no cooldown, but the fault holds until someone acts.
Fail(a) ==
  Becomes(a, [Moved(a, "FAULTED") EXCEPT !.held = "held"], [eph[a] EXCEPT !.started = Epoch])

Interrupt(a) == fsm[a].state = "DRYING" /\ busy /\ EndRun(a, 0)

Running(a) == fsm[a].state = "DRYING" /\ ~busy

\* A run whose start is lost has not begun yet.
Ran_Lost(a) == IF eph[a].started = Epoch THEN 0 ELSE eph[a].started

\* A run whose start is lost began at the epoch.
Ran(a) == IF eph[a].started = Epoch THEN MaxRun ELSE eph[a].started

\* What began at the epoch is not of today.
Counted(a) == IF eph[a].started = Epoch THEN 0 ELSE Ran(a)

\* AUTODRY_FINISHED
ReachTarget(a, r) == Running(a) /\ r = "dry" /\ EndRun(a, Counted(a))

\* AUTODRY_FAILED_LIMIT
FailLimit(a, r) == Running(a) /\ r # "dry" /\ Ran(a) >= MaxRun /\ Fail(a)

\* AUTODRY_FAILED_DELTA, or AUTODRY_FINISHED still above the target
RunOut(a, r) ==
  /\ Running(a) /\ r # "dry" /\ Ran(a) < MaxRun /\ Ran(a) >= Duration
  /\ EndRun(a, Counted(a)) \/ Fail(a)

KeepDrying(a, r) ==
  /\ Running(a) /\ r # "dry" /\ Ran(a) < MaxRun /\ Ran(a) < Duration
  /\ Stays(a)

CoolDown(a) ==
  /\ fsm[a].state = "COOLDOWN" /\ fsm[a].cool = 0
  /\ Becomes(a, Moved(a, "WATCHING"), Rearmed(a))

Rests(a, r) ==
  /\ \/ fsm[a].state = "FAULTED"
     \/ fsm[a].state = "COOLDOWN" /\ fsm[a].cool > 0
     \/ fsm[a].state = "IDLE" /\ ~CanArm(a, r)
  /\ Stays(a)

Quiet(a, r) ==
  \/ Arm(a, r) \/ Demote(a, r) \/ Skip(a, r) \/ ObserveBelow(a, r) \/ ObserveAbove(a, r)
  \/ Interrupt(a) \/ ReachTarget(a, r) \/ FailLimit(a, r) \/ RunOut(a, r)
  \/ KeepDrying(a, r) \/ CoolDown(a) \/ Rests(a, r)
-----------------------------------------------------------------------------
(* The loop: _tick_once.                                                   *)

\* The queries; without an answer there is one ACE and no print.
StartTick(k) ==
  /\ pc = "sleep"
  /\ pc' = "next" /\ count' = k /\ busy' \in BOOLEAN
  /\ UNCHANGED <<fsm, eph, enabled, file, at, asking, events>>

Asleep == pc' = "sleep" /\ at' = 0 /\ count' = 1 /\ busy' = FALSE
Ticking == UNCHANGED <<enabled, file, count, busy, events>>

\* Not enabled, or locked: not the active ACE, without round robin
PassOver ==
  /\ pc = "next" /\ at < count
  /\ at' = at + 1
  /\ Ticking /\ UNCHANGED <<fsm, eph, asking, pc>>

Choose(a) ==
  /\ pc = "next" /\ at = a /\ a < count /\ enabled[a]
  /\ pc' = "switch"
  /\ Ticking /\ UNCHANGED <<fsm, eph, asking, at>>

\* ACE_SWITCH, with round robin and outside a print, fails.
SwitchFails ==
  /\ pc = "switch" /\ ~busy
  /\ pc' = "next" /\ at' = at + 1
  /\ Ticking /\ UNCHANGED <<fsm, eph, asking>>

\* History: a POST /dry that waits does not know of a fault that comes now.
Overtakes(a) ==
  asking' = IF fsm[a].state # "FAULTED" /\ fsm'[a].state = "FAULTED" /\ asking[a] = "waits"
            THEN [asking EXCEPT ![a] = "blind"] ELSE asking

\* The switch, if one was needed, is done; the ACE may be disabled by now.
TickOne(a) ==
  /\ pc = "switch" /\ at = a
  /\ \E r \in Readings :
       \/ Quiet(a, r) /\ pc' = "next" /\ at' = at + 1
       \/ Trigger(a, r) /\ pc' = "command" /\ UNCHANGED at
  /\ Overtakes(a)
  /\ Ticking

\* ACE_DRY is answered; a failure is only logged.
Command ==
  /\ pc = "command"
  /\ pc' = "next" /\ at' = at + 1
  /\ Ticking /\ UNCHANGED <<fsm, eph, asking>>

\* save_manager
EndTick ==
  /\ pc = "next" /\ at = count
  /\ Asleep
  /\ file' = fsm
  /\ UNCHANGED <<fsm, eph, enabled, asking, events>>
-----------------------------------------------------------------------------
(* Requests: each saves all that there is.                                 *)

Spend == events < Events /\ events' = events + 1

\* POST /dry
DryAsk(a) ==
  /\ Spend
  /\ fsm[a].state # "DRYING"
  /\ asking' = [asking EXCEPT ![a] = "waits"]
  /\ UNCHANGED <<fsm, eph, enabled, file, tick>>

DryFails(a) ==
  /\ asking' = [asking EXCEPT ![a] = "no"]
  /\ UNCHANGED <<fsm, eph, enabled, file, tick, events>>

\* The fault of a once a POST /dry has begun a run: dealt with, unless it came
\* after the user had asked.
Swept(a) == IF asking[a] = "blind" /\ fsm[a].held # "no" THEN "swept" ELSE "no"

\* manual_trigger; a tick may have begun a run meanwhile.  The count stays.
DryBegins(a) ==
  IF fsm[a].state = "DRYING"
  THEN Stays(a)
  ELSE Becomes(a, [Moved(a, "DRYING") EXCEPT !.held = Swept(a)],
               [eph[a] EXCEPT !.started = 0])

\* The run is left to the next tick to save.
DryAnswered_Unsaved(a) ==
  /\ asking' = [asking EXCEPT ![a] = "no"]
  /\ DryBegins(a)
  /\ UNCHANGED <<enabled, file, tick, events>>

DryAnswered(a) ==
  /\ asking' = [asking EXCEPT ![a] = "no"]
  /\ DryBegins(a)
  /\ file' = fsm'
  /\ UNCHANGED <<enabled, tick, events>>

\* POST /config
SetEnabled(a, on) ==
  /\ Spend
  /\ enabled' = [enabled EXCEPT ![a] = on]
  /\ file' = fsm
  /\ UNCHANGED <<fsm, eph, tick, asking>>

\* POST /reset-fault
ResetFault(a) ==
  /\ Spend
  /\ fsm[a].state = "FAULTED"
  /\ Becomes(a, [Moved(a, "IDLE") EXCEPT !.held = "no"], eph[a])
  /\ file' = fsm'
  /\ UNCHANGED <<enabled, tick, asking>>
-----------------------------------------------------------------------------
(* The clock and the process.                                              *)

Passed(s) == [s EXCEPT !.cool = IF @ = 0 THEN 0 ELSE @ - 1, !.rest = Count(@, Cooldown)]

Pass ==
  /\ fsm' = [a \in ACE |-> Passed(fsm[a])]
  /\ file' = [a \in ACE |-> Passed(file[a])]
  /\ eph' = [a \in ACE |-> [eph[a] EXCEPT !.started =
               IF @ = Epoch THEN Epoch ELSE Count(@, MaxRun)]]
  /\ UNCHANGED <<enabled, tick, asking, events>>

\* Runs of more than a day ago leave the daily account.
DayPasses(a) ==
  /\ fsm[a].duty > 0
  /\ fsm' = [fsm EXCEPT ![a].duty = 0]
  /\ file' = [file EXCEPT ![a].duty = 0]
  /\ UNCHANGED <<eph, enabled, tick, asking, events>>

Restart ==
  /\ Spend
  /\ fsm' = file
  /\ eph' = [a \in ACE |-> FreshEph]
  /\ Asleep
  /\ asking' = [a \in ACE |-> "no"]
  /\ UNCHANGED <<enabled, file>>

Init ==
  /\ fsm = [a \in ACE |-> Blank] /\ file = fsm
  /\ eph = [a \in ACE |-> FreshEph]
  /\ enabled \in [ACE -> BOOLEAN]
  /\ pc = "sleep" /\ at = 0 /\ count = 1 /\ busy = FALSE
  /\ asking = [a \in ACE |-> "no"] /\ events = 0

Loop ==
  \/ \E k \in {1, N} : StartTick(k)
  \/ PassOver \/ SwitchFails \/ Command \/ EndTick
  \/ \E a \in ACE : Choose(a) \/ TickOne(a)

Requests ==
  \/ \E a \in ACE : DryAsk(a) \/ ResetFault(a)
  \/ \E a \in ACE : asking[a] # "no" /\ (DryFails(a) \/ DryAnswered(a))
  \/ \E a \in ACE, on \in BOOLEAN : SetEnabled(a, on)

Next == Loop \/ Requests \/ Pass \/ (\E a \in ACE : DayPasses(a)) \/ Restart

Spec == Init /\ [][Next]_vars

(* The loop runs on and time passes; now and then the printer answers the  *)
(* queries of a tick, an ACE is the active one or round robin is on, and   *)
(* its switch works.                                                       *)
FairSpec ==
  /\ Spec /\ WF_vars(Loop) /\ WF_vars(Pass)
  /\ SF_vars(StartTick(N))
  /\ \A a \in ACE : SF_vars(Choose(a)) /\ SF_vars(TickOne(a))
-----------------------------------------------------------------------------
TypeOK ==
  /\ fsm \in [ACE -> Snapshot] /\ file \in [ACE -> Snapshot]
  /\ eph \in [ACE -> Ephemeral] /\ enabled \in [ACE -> BOOLEAN]
  /\ pc \in {"sleep", "next", "switch", "command"}
  /\ count \in 1 .. N /\ at \in 0 .. count /\ busy \in BOOLEAN
  /\ asking \in [ACE -> Asking] /\ events \in 0 .. Events

Triggers(a) == pc = "switch" /\ pc' = "command" /\ at = a
Debounced(a) == eph[a].seen >= Required - 1
Rested(a) == fsm[a].rest = Cooldown
Cleared(a) == fsm[a].held # "held"

\* The plugin begins a run by itself only on enough wet ticks in a row since the
\* ACE was armed, a cooldown after its last run that ended well, and after a run
\* that failed, which sets no cooldown, only once the user has reset the fault or
\* asked for a run; also when requests and restarts come between.  Nothing is
\* asked of what a crash makes the file forget, nor of a fault that a POST /dry
\* sent before it has swept away: the plugin then goes on although nobody has seen
\* that fault.
RunIsEarned ==
  [][\A a \in ACE : Triggers(a) => Debounced(a) /\ Rested(a) /\ Cleared(a)]_vars

\* A crash forgets no more than what this tick has made of the ACEs it has come to.
\* A tick that an exception ends before its save is not modelled (_tick_loop logs it
\* and goes on): it leaves what it has made to the next save.
FileKnows ==
  \A a \in ACE : file[a] # fsm[a] => pc # "sleep" /\ a =< at

\* A run of an ACE that stays enabled comes to an end, also without readings and
\* when its start was lost.
RunEnds ==
  \A a \in ACE : <>[]enabled[a] => []<>(fsm[a].state # "DRYING")

=============================================================================
