------------------------------ MODULE HeadFeed ------------------------------
(***************************************************************************)
(* Loading and unloading the toolheads: the commands of `ace`              *)
(* (ACE_LOAD_HEAD, ACE_UNLOAD_HEAD with and without LENGTH, the unload of  *)
(* all heads, ACE_SWITCH AUTOLOAD=1) run on top of FEED_AUTO, the channel  *)
(* state machine of `filament_feed`, and keep head_source: which ACE the   *)
(* filament of a head came from.  The record is saved, the rest of the     *)
(* module's memory is lost in a restart.                                   *)
(*                                                                         *)
(* Slot h of every ACE is tubed to head h through a splitter.  `path` is   *)
(* the filament in the part all ACEs share, from the splitter to the head. *)
(* One greenlet runs G-code, so one command at a time; the events of the   *)
(* sensors and ports run in callbacks of their own when channel_active     *)
(* lets them.                                                              *)
(***************************************************************************)
EXTENDS Naturals

CONSTANTS
  Ace,       \* the ACE units
  Home,      \* ACE 0, to which the unload of all heads switches back
  NHeads,    \* heads 0 .. NHeads - 1, all of one feed module
  None,      \* no filament, no record
  Hand,      \* filament no ACE feeds: TPU by hand, a spool at the port
  Hands,     \* heads where somebody pushes in or pulls out filament, and
             \* which may be made manual
  Preset,    \* manual_heads of the configuration
  Touch,     \* heads for which the touchscreen sends FEED_AUTO itself
  Ports,     \* heads whose feeder port reports filament coming and going
  Unstable,  \* a switch for a head may fail
  Crashes    \* the printer may be restarted at any time

Head == 0 .. NHeads - 1

ASSUME FeedAssumption ==
  /\ Home \in Ace
  /\ NHeads \in Nat
  /\ None \notin Ace /\ Hand \notin Ace /\ None # Hand
  /\ Hands \subseteq Head /\ Preset \subseteq Head
  /\ Touch \subseteq Head /\ Ports \subseteq Head
  /\ Unstable \in BOOLEAN /\ Crashes \in BOOLEAN

VARIABLES
  path,     \* per head: whose filament is in the shared tube (the truth)
  seen,     \* per head: the motion sensor detects filament
  source,   \* _head_source
  saved,    \* its save variable
  chan,     \* channel_state, as STAGE=doing and LOAD tell it apart
  finish,   \* load_finish in the channel's configuration file
  sensorOn, \* the sensor is enabled (a configuration file, too)
  manual,   \* _manual_heads (and the save variable, once it was changed)
  active,   \* _active_device_index
  pending,  \* per head: events waiting for channel_active
  op        \* the command the G-code greenlet is in

vars == <<path, seen, source, saved, chan, finish, sensorOn, manual, active,
          pending, op>>

Record == [ace: Ace, parked: BOOLEAN]
Loaded(a) == [ace |-> a, parked |-> FALSE]

\* "loaded": LOAD_FINISH.  "heated": UNLOAD_HEAT_FINISH.  "rest": the other
\* states from which STAGE=doing returns in silence.  "other": all the rest.
ChanState == {"loaded", "heated", "rest", "other"}

Cmd == {"none", "load", "unload", "park", "all", "swapout", "swapin", "touch"}
Held == {"feeding", "pull", "pulled"}     \* channel_active is set over a pause
Pc == {"idle", "visit", "switch", "feed", "record", "prepare", "doing", "after"}
        \cup Held

Idle == [cmd |-> "none", pc |-> "idle", head |-> 0, ace |-> None, old |-> None,
         any |-> FALSE]

OpType ==
  [cmd: Cmd, pc: Pc, head: 0 .. NHeads, ace: Ace \cup {None},
   old: Record \cup {None}, any: BOOLEAN]

TypeOK ==
  /\ path \in [Head -> Ace \cup {None, Hand}]
  /\ seen \in [Head -> BOOLEAN]
  /\ source \in [Head -> Record \cup {None}]
  /\ saved \in [Head -> Record \cup {None}]
  /\ chan \in [Head -> ChanState]
  /\ finish \in [Head -> BOOLEAN]
  /\ sensorOn \in [Head -> BOOLEAN]
  /\ manual \subseteq Head
  /\ active \in Ace
  /\ pending \in [Head -> SUBSET {"runout", "port"}]
  /\ op \in OpType

tube   == <<path, seen>>
book   == <<source, saved>>
config == <<finish, sensorOn>>

-----------------------------------------------------------------------------
(* Helpers.                                                                *)

\* ACE_UNLOAD_HEAD LENGTH=.. remembers the record it found.
Do(cmd, pc, h, a) ==
  [cmd |-> cmd, pc |-> pc, head |-> h, ace |-> a,
   old |-> IF cmd = "park" THEN source[h] ELSE None, any |-> FALSE]

At(pc) == op.pc = pc /\ op.head \in Head
Goto(pc) == [op EXCEPT !.pc = pc]
NextHead == [op EXCEPT !.pc = "visit", !.head = @ + 1]

\* The record of head h names an ACE that is not active.
Elsewhere(h) == source[h] # None /\ source[h].ace # active

\* The ACE a command asks _switch_ace_for_head_target for.
Wanted == IF op.cmd = "load" THEN op.ace ELSE source[op.head].ace

Keep(h, r) == source' = [source EXCEPT ![h] = r]
KeepAndSave(h, r) == Keep(h, r) /\ saved' = source'

Swapping == op.cmd \in {"swapout", "swapin"}   \* _swap_in_progress

\* The sensor of head h goes from seen to not seen: a runout event, unless the
\* sensor is off, a swap is in progress, or it falls into the event delay.
Runout(h) ==
  \/ UNCHANGED pending
  \/ /\ seen[h] /\ ~seen'[h] /\ sensorOn[h] /\ ~Swapping
     /\ pending' = [pending EXCEPT ![h] = @ \cup {"runout"}]

-----------------------------------------------------------------------------
(* FEED_AUTO LOAD=1 for the head of the command.                           *)

\* What follows a LOAD that returned: ACE_LOAD_HEAD goes on to its record,
\* AUTOLOAD to the next head.
AfterFeed ==
  CASE op.cmd = "load"   -> Goto("record")
    [] op.cmd = "swapin" -> NextHead
    [] OTHER             -> Idle

\* The returns without an error: the channel says LOAD_FINISH, or the sensor
\* is disabled.
FeedRefused(h) == chan[h] = "loaded" \/ ~sensorOn[h]

FeedReturns ==
  /\ At("feed")
  /\ FeedRefused(op.head)
  /\ op' = AfterFeed
  /\ UNCHANGED <<tube, book, chan, config, manual, active, pending>>

FeedStarts ==
  /\ At("feed")
  /\ ~FeedRefused(op.head)
  /\ chan' = [chan EXCEPT ![op.head] = "other"]
  /\ finish' = [finish EXCEPT ![op.head] = FALSE]
  /\ op' = Goto("feeding")
  /\ UNCHANGED <<tube, book, sensorOn, manual, active, pending>>

\* The active ACE pushes its filament past the splitter, if nothing is there.
Push(h) == path[h] \in {None, active} /\ path' = [path EXCEPT ![h] = active]

\* With filament at the sensor already the feed is left out.
Fed ==
  /\ At("feeding")
  /\ \/ seen[op.head] /\ UNCHANGED path
     \/ ~seen[op.head] /\ Push(op.head)
  /\ seen' = [seen EXCEPT ![op.head] = TRUE]
  /\ chan' = [chan EXCEPT ![op.head] = "loaded"]
  /\ finish' = [finish EXCEPT ![op.head] = TRUE]
  /\ KeepAndSave(op.head, Loaded(active))
  /\ op' = AfterFeed
  /\ UNCHANGED <<sensorOn, manual, active, pending>>

\* ACE_LOAD_HEAD trusts the sensor over an error of the feed.
Trusted_Always(seenNow) == op.cmd = "load"
Trusted(seenNow) == op.cmd = "load" /\ seenNow[op.head]

\* The feed gives up on the way, or the extruder does not grip.
FeedFails ==
  /\ At("feeding")
  /\ \/ UNCHANGED tube
     \/ /\ ~seen[op.head]
        /\ Push(op.head)
        /\ seen' \in {seen, [seen EXCEPT ![op.head] = TRUE]}
  /\ chan' = [chan EXCEPT ![op.head] = "rest"]
  /\ op' = IF Trusted(seen') THEN Goto("record") ELSE Idle
  /\ UNCHANGED <<book, config, manual, active, pending>>

-----------------------------------------------------------------------------
(* FEED_AUTO UNLOAD=1, STAGE=prepare and STAGE=doing.                      *)

\* ACE_UNLOAD_HEAD enables the sensor again before it raises.
SensorAfterError_Off == sensorOn
SensorAfterError ==
  IF op.cmd \in {"unload", "park"}
  THEN [sensorOn EXCEPT ![op.head] = TRUE] ELSE sensorOn

\* A stage that raised: ACE_UNLOAD_HEAD raises, too, the unload of all heads
\* warns and forgets the head, AUTOLOAD gives up.
UnloadFails ==
  /\ chan' = [chan EXCEPT ![op.head] = "other"]
  /\ sensorOn' = SensorAfterError
  /\ IF op.cmd = "all"
     THEN Keep(op.head, None) /\ op' = [NextHead EXCEPT !.any = TRUE]
     ELSE UNCHANGED source /\ op' = Idle
  /\ UNCHANGED <<tube, saved, manual, active, pending>>

\* ACE_UNLOAD_HEAD turns the sensor off first; homing, picking, heating.
Prepare ==
  /\ At("prepare")
  /\ chan' = [chan EXCEPT ![op.head] = "heated"]
  /\ finish' = [finish EXCEPT ![op.head] = FALSE]
  /\ sensorOn' = [sensorOn EXCEPT ![op.head] =
                    @ /\ op.cmd \notin {"unload", "park"}]
  /\ op' = IF op.cmd = "touch" THEN Idle ELSE Goto("doing")
  /\ UNCHANGED <<tube, book, manual, active, pending>>

PrepareFails ==
  /\ At("prepare")
  /\ finish' = [finish EXCEPT ![op.head] = FALSE]
  /\ UnloadFails

\* No prepare phase seen: nothing to do, no error.
DoingIgnored ==
  /\ At("doing")
  /\ chan[op.head] \in {"loaded", "rest"}
  /\ op' = Goto("after")
  /\ UNCHANGED <<tube, book, chan, config, manual, active, pending>>

\* A state mismatch, or INNER_FILAMENT_UNLOAD raises.
DoingFails ==
  /\ At("doing")
  /\ chan[op.head] \in {"heated", "other"}
  /\ UNCHANGED finish
  /\ UnloadFails

\* The extruder unloads; then the switch to the recorded ACE, whose result
\* nobody looks at.
Doing ==
  /\ At("doing")
  /\ chan[op.head] = "heated"
  /\ chan' = [chan EXCEPT ![op.head] = "other"]
  /\ IF Elsewhere(op.head)
     THEN \/ active' = source[op.head].ace
          \/ Unstable /\ UNCHANGED active
     ELSE UNCHANGED active
  /\ op' = Goto("pull")
  /\ UNCHANGED <<tube, book, config, manual, pending>>

\* retract_fil by the active ACE: only its own filament leaves the tube, and
\* not for sure.  The extruder alone may take the tip off the sensor.
Pull ==
  /\ At("pull")
  /\ \/ UNCHANGED path /\ seen' \in {seen, [seen EXCEPT ![op.head] = FALSE]}
     \/ /\ path[op.head] = active
        /\ path' = [path EXCEPT ![op.head] = None]
        /\ seen' = [seen EXCEPT ![op.head] = FALSE]
  /\ Runout(op.head)
  /\ op' = Goto("pulled")
  /\ UNCHANGED <<book, chan, config, manual, active>>

\* UNLOAD_FINISH, whether or not the sensor still detects filament.
Unloaded ==
  /\ At("pulled")
  /\ chan' = [chan EXCEPT ![op.head] = "rest"]
  /\ IF source[op.head] # None THEN KeepAndSave(op.head, None) ELSE UNCHANGED book
  /\ op' = Goto("after")
  /\ UNCHANGED <<tube, config, manual, active, pending>>

\* What the command does after STAGE=doing returned.
After ==
  /\ At("after")
  /\ CASE op.cmd \in {"unload", "park"} ->
            /\ sensorOn' = [sensorOn EXCEPT ![op.head] = TRUE]
            /\ KeepAndSave(op.head,
                 IF op.old # None
                 THEN [op.old EXCEPT !.parked = TRUE] ELSE None)
            /\ op' = Idle
       [] op.cmd = "all" ->
            /\ Keep(op.head, None)
            /\ op' = [NextHead EXCEPT !.any = TRUE]
            /\ UNCHANGED <<saved, sensorOn>>
       [] OTHER ->
            /\ op' = IF op.cmd = "swapout" THEN NextHead ELSE Idle
            /\ UNCHANGED <<book, sensorOn>>
  /\ UNCHANGED <<tube, chan, finish, manual, active, pending>>

-----------------------------------------------------------------------------
(* The commands.  Their early returns change nothing and are no actions.   *)

Begin(o) ==
  /\ op = Idle
  /\ op' = o
  /\ UNCHANGED <<tube, book, chan, config, manual, active, pending>>

LoadHead(h, a) ==
  /\ h \notin manual /\ ~seen[h]
  /\ Begin(Do("load", IF a = active THEN "feed" ELSE "switch", h, a))

UnloadHead(h, cmd) ==
  /\ h \notin manual
  /\ Begin(Do(cmd, IF Elsewhere(h) THEN "switch" ELSE "prepare", h, None))

UnloadAll == Begin(Do("all", "visit", 0, None))

\* ACE_SWITCH TARGET=a AUTOLOAD=1.
SwapAll(a) ==
  Begin(Do(IF a = active THEN "swapin" ELSE "swapout", "visit", 0, a))

TouchLoad(h)   == Begin(Do("touch", "feed", h, None))
TouchUnload(h) ==
  \E stage \in {"prepare", "doing"} : Begin(Do("touch", stage, h, None))

\* FEED_AUTO UNLOAD=1 STAGE=cancel.
TouchCancel(h) ==
  /\ op = Idle
  /\ chan' = [chan EXCEPT ![h] = "rest"]
  /\ finish' = [finish EXCEPT ![h] = FALSE]
  /\ UNCHANGED <<tube, book, sensorOn, manual, active, pending, op>>

\* ACE_SWITCH TARGET=a without AUTOLOAD.
SwitchAce(a) ==
  /\ op = Idle
  /\ active' = a
  /\ UNCHANGED <<tube, book, chan, config, manual, pending, op>>

HeadSwitched ==
  /\ At("switch")
  /\ active' = Wanted
  /\ op' = Goto(IF op.cmd = "load" THEN "feed" ELSE "prepare")
  /\ UNCHANGED <<tube, book, chan, config, manual, pending>>

\* A command for one head raises, the unload of all heads skips the head.
SkipOrRaise_GoesOn == IF op.cmd = "all" THEN Goto("prepare") ELSE Idle
SkipOrRaise == IF op.cmd = "all" THEN NextHead ELSE Idle

\* The ACE is not available, or does not connect.
HeadSwitchFails ==
  /\ At("switch")
  /\ Unstable
  /\ active' \in {active, Wanted}
  /\ op' = SkipOrRaise
  /\ UNCHANGED <<tube, book, chan, config, manual, pending>>

\* gate_status of the slot is not GATE_AVAILABLE.
GateEmpty ==
  /\ At("feed")
  /\ op.cmd \in {"load", "swapin"}
  /\ op' = IF op.cmd = "load" THEN Idle ELSE NextHead
  /\ UNCHANGED <<tube, book, chan, config, manual, active, pending>>

\* The end of ACE_LOAD_HEAD.
RecordLoad ==
  /\ At("record")
  /\ KeepAndSave(op.head, Loaded(op.ace))
  /\ op' = Idle
  /\ UNCHANGED <<tube, chan, config, manual, active, pending>>

\* The loops over the heads: a head that is empty (to unload) or full (to
\* load) is passed over.
Visit ==
  /\ At("visit")
  /\ op' = IF seen[op.head] = (op.cmd = "swapin") THEN NextHead
           ELSE Goto(IF op.cmd = "swapin" THEN "feed"
                     ELSE IF op.cmd = "all" /\ Elsewhere(op.head) THEN "switch"
                     ELSE "prepare")
  /\ UNCHANGED <<tube, book, chan, config, manual, active, pending>>

\* The save after the loop: also of the heads forgotten after an error.
SavedAfterLoop_Not == saved
SavedAfterLoop == source

\* The loop of the unload of all heads is over: save once, back to ACE 0.
AllUnloaded ==
  /\ op.pc = "visit" /\ op.cmd = "all" /\ op.head = NHeads
  /\ IF op.any
     THEN /\ saved' = SavedAfterLoop
          /\ active' = Home \/ (Unstable /\ UNCHANGED active)
     ELSE UNCHANGED <<saved, active>>
  /\ op' = Idle
  /\ UNCHANGED <<tube, source, chan, config, manual, pending>>

\* Between the loops of AUTOLOAD: the fast or the slow path of the switch.
SwapOver ==
  /\ op.pc = "visit" /\ Swapping /\ op.head = NHeads
  /\ \/ /\ op.cmd = "swapout"
        /\ active' = op.ace
        /\ op' = [op EXCEPT !.cmd = "swapin", !.head = 0]
     \/ /\ op.cmd = "swapin" \/ Unstable
        /\ UNCHANGED active
        /\ op' = Idle
  /\ UNCHANGED <<tube, book, chan, config, manual, pending>>

-----------------------------------------------------------------------------
(* Bookkeeping commands.                                                   *)

\* ACE_MARK_HEAD_LOADED, by an operator who knows what is in the tube.
MarkHeadLoaded(h, a) ==
  /\ op = Idle
  /\ seen[h] /\ source[h] = None /\ path[h] = a
  /\ KeepAndSave(h, Loaded(a))
  /\ UNCHANGED <<tube, chan, config, manual, active, pending, op>>

ClearHeads(H) ==
  /\ op = Idle
  /\ source' = [h \in Head |-> IF h \in H THEN None ELSE source[h]]
  /\ saved' = source'
  /\ UNCHANGED <<tube, chan, config, manual, active, pending, op>>

SetHeadManual(h) ==
  /\ op = Idle
  /\ source[h] = None /\ ~seen[h]
  /\ manual' = IF h \in manual THEN manual \ {h} ELSE manual \cup {h}
  /\ UNCHANGED <<tube, book, chan, config, active, pending, op>>

-----------------------------------------------------------------------------
(* Events, hands, restarts.                                                *)

\* _do_feed of RUNOUT, REMOVE_FILAMENT and PRELOAD, once channel_active is
\* None.  PRELOAD holds it until its end and is one step here.
ChannelEvent(h) ==
  /\ op.pc \notin Held
  /\ \E e \in pending[h] :
       /\ pending' = [pending EXCEPT ![h] = @ \ {e}]
       /\ IF e = "runout" /\ Swapping
          THEN UNCHANGED <<chan, finish>>
          ELSE /\ chan' = [chan EXCEPT ![h] = "rest"]
               /\ finish' = [finish EXCEPT ![h] = FALSE]
  /\ UNCHANGED <<tube, book, sensorOn, manual, active, op>>

\* Filament comes: PRELOAD_PREPARE at once, whoever holds channel_active.
PortEvent(h, comes) ==
  /\ sensorOn[h]
  /\ pending' = [pending EXCEPT ![h] = @ \cup {"port"}]
  /\ chan' = IF comes THEN [chan EXCEPT ![h] = "other"] ELSE chan
  /\ UNCHANGED <<tube, book, config, manual, active, op>>

HandsOff(h) == op.pc \in Held => op.head # h

HandInsert(h) ==
  /\ HandsOff(h)
  /\ path[h] = None
  /\ path' = [path EXCEPT ![h] = Hand]
  /\ seen' = [seen EXCEPT ![h] = TRUE]
  /\ UNCHANGED <<book, chan, config, manual, active, pending, op>>

HandRemove(h) ==
  /\ HandsOff(h)
  /\ path[h] # None
  /\ path' = [path EXCEPT ![h] = None]
  /\ seen' = [seen EXCEPT ![h] = FALSE]
  /\ Runout(h)
  /\ UNCHANGED <<book, chan, config, manual, active, op>>

\* _handle_ready of both modules; the saved active ACE may be another one.  An
\* empty list of manual heads is not restored: the configuration's stays.
Restart ==
  /\ Crashes
  /\ source' = saved
  /\ chan' \in [Head -> {"loaded", "rest"}]
  /\ \A h \in Head : chan'[h] = "loaded" => finish[h]
  /\ active' \in Ace
  /\ manual' = IF manual # {} THEN manual ELSE Preset
  /\ pending' = [h \in Head |-> {}]
  /\ op' = Idle
  /\ UNCHANGED <<tube, saved, config>>

-----------------------------------------------------------------------------
Init ==
  /\ path = [h \in Head |-> None] /\ seen = [h \in Head |-> FALSE]
  /\ source = [h \in Head |-> None] /\ saved = source
  /\ chan = [h \in Head |-> "rest"]
  /\ finish = [h \in Head |-> FALSE] /\ sensorOn = [h \in Head |-> TRUE]
  /\ manual = Preset
  /\ active \in Ace
  /\ pending = [h \in Head |-> {}]
  /\ op = Idle

Feed    == FeedReturns \/ FeedStarts \/ Fed \/ FeedFails
Unload  == Prepare \/ PrepareFails \/ DoingIgnored \/ DoingFails \/ Doing
             \/ Pull \/ Unloaded \/ After
Running == HeadSwitched \/ HeadSwitchFails \/ GateEmpty \/ RecordLoad \/ Visit
             \/ AllUnloaded \/ SwapOver

Commands ==
  \/ \E h \in Head, a \in Ace : LoadHead(h, a) \/ MarkHeadLoaded(h, a)
  \/ \E h \in Head, cmd \in {"unload", "park"} : UnloadHead(h, cmd)
  \/ \E h \in Hands : SetHeadManual(h)
  \/ \E h \in Touch : TouchLoad(h) \/ TouchUnload(h) \/ TouchCancel(h)
  \/ \E a \in Ace : SwapAll(a) \/ SwitchAce(a)
  \/ \E H \in {{h} : h \in Head} \cup {Head} : ClearHeads(H)
  \/ UnloadAll

Environment ==
  \/ \E h \in Head : ChannelEvent(h)
  \/ \E h \in Ports, comes \in BOOLEAN : PortEvent(h, comes)
  \/ \E h \in Hands : HandInsert(h) \/ HandRemove(h)
  \/ Restart

Next == Feed \/ Unload \/ Running \/ Commands \/ Environment

Spec == Init /\ [][Next]_vars
-----------------------------------------------------------------------------
(* Properties.                                                             *)

\* Whenever no command runs, the saved records are the ones in memory: a
\* restart then forgets nothing (_save_head_source after every change, at the
\* end of the unload of all heads once for all).
SavedWhenIdle == op = Idle => saved = source

\* A recorded head is pulled back by the ACE its record names whenever one of
\* the unload commands does it (ACE_UNLOAD_HEAD raises, and the unload of all
\* heads skips the head, when that ACE cannot be reached).
CommandsPullOwn ==
  [][ op.pc = "pull" /\ op'.pc = "pulled" /\ source[op.head] # None
        /\ op.cmd \in {"unload", "park", "all"}
      => active = source[op.head].ace ]_vars

\* An ACE whose filament is in the tube of a head is the one the record of the
\* head names, unless there is none or it is parked.  Feed assist, drying
\* and the next unload all go by the record.
RecordIsFeeder ==
  \A h \in Head :
    source[h] # None /\ ~source[h].parked /\ path[h] \in Ace
      => source[h].ace = path[h]

\* Once no command runs every sensor is enabled again, however the unload that
\* turned it off went.
SensorsBackOn == op = Idle => \A h \in Head : sensorOn[h]

=============================================================================
