------------------------------ MODULE AceLink ------------------------------
(***************************************************************************)
(* The connection engine of the Klipper module `ace` (class BunnyAce): one *)
(* serial link that is live (polled, read through the reactor), one cached *)
(* handle per other ACE, the timers that keep them alive, and the commands *)
(* that move the live link from one ACE to another.                        *)
(*                                                                         *)
(* Klipper runs greenlets: a handler is atomic up to its next              *)
(* reactor.pause.  One greenlet executes G-code (the G-code mutex), the    *)
(* others are timers and file-descriptor callbacks.  An action below is    *)
(* the code from one pause to the next.                                    *)
(***************************************************************************)
EXTENDS Naturals

CONSTANTS
  Ace,         \* the ACE units of the canonical mapping (_ace_canonical)
  NoAce,       \* "nothing": _serial = None, _info of no ACE
  Closed,      \* _serial is an object whose port was closed
  HeadTargets, \* ACEs that an unload may ask for (_switch_ace_for_head_target)
  Flaky,       \* ACEs whose USB interface may reset or be unplugged
  MaxStrays    \* bound: superseded connect timers that are counted

ASSUME AceAssumption ==
  /\ Ace # {}
  /\ NoAce \notin Ace
  /\ Closed \notin Ace
  /\ Closed # NoAce
  /\ HeadTargets \subseteq Ace
  /\ Flaky \subseteq Ace
  /\ MaxStrays \in Nat

VARIABLES
  plugged,  \* ACEs enumerated on USB now (environment)
  link,     \* handles, live serial, timers and flags of BunnyAce
  view,     \* what the module believes of the live ACE: gate_status, _info
  saved,    \* save variable ace__active_device (survives a restart)
  assist,   \* _feed_assist_index # -1
  op,       \* the command the G-code greenlet is in
  rec       \* greenlets paused inside _send_request's reconnect-and-retry

vars == <<plugged, link, view, saved, assist, op, rec>>

HandleState == {"none", "open", "stale"}   \* stale: is_open, but the fd is dead
SwitchPc == {"check", "stop", "settle", "scan", "wait", "reopen", "promote"}
HeadPc   == {"hcheck", "hstop", "hsettle", "hwait"}
Pc       == {"idle", "cmd"} \cup SwitchPc \cup HeadPc

LinkType ==
  [active: Ace,                          \* _active_device_index, serial_id
   serial: Ace \cup {NoAce, Closed},     \* _serial: the handle of which ACE
   handle: [Ace -> HandleState],         \* _serials
   connected: BOOLEAN,                   \* _connected
   beat: BOOLEAN,                        \* heartbeat_timer is registered
   leaked: BOOLEAN,                      \* a heartbeat no attribute refers to
   retry: BOOLEAN,                       \* connect_timer is armed
   strays: 0 .. MaxStrays,               \* superseded connect timers, armed
   keepalive: BOOLEAN,                   \* _keepalive_timer
   failed: BOOLEAN,                      \* _serial_failed
   halt: {"no", "pending", "done"}]      \* PAUSE + shutdown of _do_pause

ViewType ==
  [known: BOOLEAN,                       \* gate_status is not GATE_UNKNOWN
   info: Ace \cup {NoAce},               \* the ACE that _info came from
   asked: BOOLEAN,                       \* a get_status is in _callback_map
   ready: BOOLEAN]                       \* _info['status'] = 'ready'

Idle == [pc |-> "idle", target |-> NoAce, old |-> NoAce]
Doing(pc, target, old) == [pc |-> pc, target |-> target, old |-> old]

TypeOK ==
  /\ plugged \subseteq Ace
  /\ link \in LinkType
  /\ view \in ViewType
  /\ saved \in Ace
  /\ assist \in BOOLEAN
  /\ op \in [pc: Pc, target: Ace \cup {NoAce}, old: Ace \cup {NoAce}]
  /\ rec \subseteq {"gcode", "beat"}

-----------------------------------------------------------------------------
(* The helpers of BunnyAce, as functions of the link record.               *)

\* _release_active_serial(close=True), _serial_disconnect.
HardClosed(l) ==
  [l EXCEPT !.connected = FALSE, !.beat = FALSE,
            !.serial = IF @ = NoAce THEN NoAce ELSE Closed,
            !.handle[l.active] = "none"]

\* _release_active_serial(close=False): the handle stays open in the cache.
Released_Closing(l) == HardClosed(l)
Released(l) == [l EXCEPT !.connected = FALSE, !.beat = FALSE]

\* serial.Serial(exclusive=True): the node exists and nobody holds its lock.
CanOpen(l) == l.active \in plugged /\ l.handle[l.active] # "open"

\* _connect after a successful open, with _open_inactive_serials and
\* _start_keepalive_timer.
Opened(l) ==
  [l EXCEPT !.serial = l.active, !.connected = TRUE,
            !.leaked = @ \/ l.beat, !.beat = TRUE,
            !.keepalive = TRUE, !.retry = FALSE,
            !.handle = [a \in Ace |->
              IF a = l.active \/ (l.handle[a] = "none" /\ a \in plugged)
              THEN "open" ELSE l.handle[a]]]

\* One call of _connect: refused once the link has failed for good.
Attempted(l) ==
  IF l.failed THEN l
  ELSE IF CanOpen(l) THEN Opened(l) ELSE [l EXCEPT !.serial = NoAce]

\* register_timer(_connect) assigned to connect_timer; the timer that was
\* there stays registered and nothing refers to it any more.
Armed(l) ==
  [l EXCEPT !.retry = TRUE,
            !.strays = IF l.retry /\ @ < MaxStrays THEN @ + 1 ELSE @]

\* The timer is due at once and the greenlet pauses: the first attempt runs next.
ArmedNow(l) ==
  IF l.failed THEN [Armed(l) EXCEPT !.retry = FALSE] ELSE Attempted(Armed(l))

\* _handle_serial_failure.
Failed(l) ==
  IF l.failed THEN l
  ELSE [HardClosed(l) EXCEPT !.failed = TRUE, !.retry = FALSE,
                             !.halt = IF @ = "no" THEN "pending" ELSE @]

\* _fast_path_switch: the cached handle of t becomes the live one.
Promoted_NoHeartbeat(l, t) ==
  [l EXCEPT !.active = t, !.serial = t, !.connected = TRUE, !.beat = FALSE]
Promoted(l, t) ==
  [l EXCEPT !.active = t, !.serial = t, !.connected = TRUE, !.beat = TRUE]

\* _restore_cached_old.
Restored_KeepsIndex(l, o) ==
  [l EXCEPT !.serial = o, !.connected = TRUE,
            !.leaked = @ \/ l.beat, !.beat = TRUE]
Restored(l, o) ==
  [l EXCEPT !.active = o, !.serial = o, !.connected = TRUE,
            !.leaked = @ \/ l.beat, !.beat = TRUE]

\* What _serial.write does.
Live(l)     == l.serial \in Ace /\ l.handle[l.serial] = "open"
Writable(l) == ~l.failed /\ Live(l)
Refused(l)  == l.failed \/ l.serial = NoAce
Broken(l)   == ~Writable(l) /\ ~Refused(l)

\* A write that raised: close the link, pause, reconnect (Recover).
Dropped(l) == IF l.connected THEN HardClosed(l) ELSE l

Blank_KeepsGates(v) == [v EXCEPT !.asked = FALSE]
\* A switch empties _callback_map and sets gate_status to GATE_UNKNOWN.
Blank(v) == [v EXCEPT !.known = FALSE, !.asked = FALSE]
Busy(v)  == [v EXCEPT !.ready = FALSE]

\* The mutex is free, and no PAUSE is first in its queue.
GcodeFree == op.pc = "idle" /\ "gcode" \notin rec /\ link.halt = "no"
InGcode(pc) == op.pc = pc /\ "gcode" \notin rec

-----------------------------------------------------------------------------
(* Start-up: _handle_ready found every expected ACE and armed _connect for  *)
(* the saved one; the timer is due at once, before any command.            *)

Booted(device) ==
  [active |-> device, serial |-> NoAce, handle |-> [a \in Ace |-> "none"],
   connected |-> FALSE, beat |-> FALSE, leaked |-> FALSE, retry |-> TRUE,
   strays |-> 0, keepalive |-> FALSE, failed |-> FALSE, halt |-> "no"]

Unseen == [known |-> FALSE, info |-> NoAce, asked |-> FALSE, ready |-> FALSE]

Init ==
  /\ plugged = Ace
  /\ saved \in Ace
  /\ link = Opened(Booted(saved))
  /\ view = Unseen
  /\ assist = FALSE
  /\ op = Idle
  /\ rec = {}

\* FIRMWARE_RESTART or a crash of the host: only the save variable survives.
Restart ==
  /\ plugged = Ace
  /\ link' = Opened(Booted(saved))
  /\ view' = Unseen
  /\ assist' = FALSE
  /\ op' = Idle
  /\ rec' = {}
  /\ UNCHANGED <<plugged, saved>>

-----------------------------------------------------------------------------
(* The USB bus.                                                            *)

UsbDrop(a) ==
  /\ a \in plugged \cap Flaky
  /\ plugged' = plugged \ {a}
  /\ link' = [link EXCEPT !.handle[a] = IF @ = "open" THEN "stale" ELSE @]
  /\ UNCHANGED <<view, saved, assist, op, rec>>

UsbReturn(a) ==
  /\ a \in Ace \ plugged
  /\ plugged' = plugged \cup {a}
  /\ UNCHANGED <<link, view, saved, assist, op, rec>>

-----------------------------------------------------------------------------
(* Timers and file-descriptor callbacks.                                   *)

\* _connect run by the armed connect_timer (current) or by a superseded one.
ConnectTick(current) ==
  LET fired == IF current THEN [link EXCEPT !.retry = FALSE]
               ELSE [link EXCEPT !.strays = @ - 1]
  IN
  /\ IF current THEN link.retry ELSE link.strays > 0
  /\ link' = IF link.failed THEN fired          \* returns reactor.NEVER
             ELSE IF CanOpen(link) THEN Opened(fired)
             ELSE Attempted(link)               \* again in one second
  /\ view' = IF ~link.failed /\ CanOpen(link) THEN Busy(view) ELSE view
  /\ UNCHANGED <<plugged, saved, assist, op, rec>>

\* _periodic_heartbeat_event.
Heartbeat ==
  /\ link.beat \/ link.leaked
  /\ ~link.failed
  /\ "beat" \notin rec       \* bound: one heartbeat at a time in a reconnect
  /\ IF Writable(link)
     THEN /\ view' = Busy([view EXCEPT !.asked = TRUE])
          /\ UNCHANGED <<link, rec>>
     ELSE /\ view' = Busy(view)
          /\ IF Refused(link)
             THEN link' = Failed(link) /\ rec' = rec
             ELSE link' = Dropped(link) /\ rec' = rec \cup {"beat"}
  /\ UNCHANGED <<plugged, saved, assist, op>>

\* The reader hands the answer to a get_status to the heartbeat's callback.
Reply ==
  /\ link.connected /\ Live(link)
  /\ view.asked
  /\ view' = [known |-> TRUE, info |-> link.serial,
              asked |-> FALSE, ready |-> TRUE]
  /\ UNCHANGED <<plugged, link, saved, assist, op, rec>>

ReadError_NoRetry ==
  /\ link.connected
  /\ link.serial \in Ace /\ link.handle[link.serial] = "stale"
  /\ link' = HardClosed(link)
  /\ UNCHANGED <<plugged, view, saved, assist, op, rec>>
\* _reader_cb: reading a dead handle raises, the reader asks for a reconnect.
ReadError ==
  /\ link.connected
  /\ link.serial \in Ace /\ link.handle[link.serial] = "stale"
  /\ link' = Armed(HardClosed(link))
  /\ UNCHANGED <<plugged, view, saved, assist, op, rec>>

\* _keepalive_tick: ping every cached handle but the active ACE's; a dead one
\* is closed and reopened, or leaves the cache.
KeepaliveTick ==
  /\ link.keepalive
  /\ link' = [link EXCEPT !.handle = [a \in Ace |->
       IF a = link.active \/ link.handle[a] # "stale" THEN link.handle[a]
       ELSE IF a \in plugged THEN "open" ELSE "none"]]
  /\ UNCHANGED <<plugged, view, saved, assist, op, rec>>

\* _send_request after its pause: reconnect to whatever ACE is active now and
\* write once more; the greenlet g goes on, or raises.
Recover(g) ==
  LET l  == Attempted(link)
      ok == l.connected /\ Live(l)
  IN
  /\ g \in rec
  /\ rec' = rec \ {g}
  /\ link' = IF ok THEN [l EXCEPT !.failed = FALSE] ELSE Failed(l)
  /\ op' = IF g = "beat" THEN op
           ELSE IF ok /\ op.pc = "stop" THEN [op EXCEPT !.pc = "settle"]
           ELSE IF ok /\ op.pc = "hstop" THEN [op EXCEPT !.pc = "hsettle"]
           ELSE Idle
  /\ UNCHANGED <<plugged, view, saved, assist>>

\* _do_pause takes the G-code mutex for PAUSE, then shuts the printer down.
DoPause ==
  /\ link.halt = "pending"
  /\ op.pc = "idle" /\ "gcode" \notin rec
  /\ link' = [link EXCEPT !.halt = "done"]
  /\ UNCHANGED <<plugged, view, saved, assist, op, rec>>

-----------------------------------------------------------------------------
(* Commands of the G-code greenlet.                                        *)

\* One send_request of the G-code greenlet, which then stands at next.
GcodeSend(next) ==
  /\ \/ /\ Writable(link)
        /\ op' = IF next = "idle" THEN Idle ELSE [op EXCEPT !.pc = next]
        /\ UNCHANGED <<link, rec>>
     \/ /\ Refused(link)                  \* raises: the command is abandoned
        /\ link' = Failed(link)
        /\ op' = Idle
        /\ rec' = rec
     \/ /\ Broken(link)
        /\ link' = Dropped(link)
        /\ rec' = rec \cup {"gcode"}
        /\ op' = op
  /\ view' = Busy(view)
  /\ UNCHANGED <<plugged, saved, assist>>

\* A feed, unwind or drying command: wait_ace_ready, then send.
Command ==
  /\ GcodeFree
  /\ op' = Doing("cmd", NoAce, NoAce)
  /\ UNCHANGED <<plugged, link, view, saved, assist, rec>>

CommandSend == InGcode("cmd") /\ view.ready /\ GcodeSend("idle")

\* ACE_ENABLE_FEED_ASSIST acknowledged by the active ACE.
EnableAssist ==
  /\ GcodeFree
  /\ view.ready /\ link.connected /\ Writable(link)
  /\ assist' = TRUE
  /\ UNCHANGED <<plugged, link, view, saved, op, rec>>

-----------------------------------------------------------------------------
(* ACE_SWITCH.                                                             *)

\* Fast path: t is cached, its handle is promoted and asked for get_info.
FastPath(t) ==
  LET l == Promoted(link, t) IN
  /\ saved' = t
  /\ view' = Busy(Blank(view))
  /\ IF Broken(l)
     THEN /\ link' = HardClosed(l)
          /\ rec' = rec \cup {"gcode"}
          /\ op' = Doing("promote", t, link.active)
     ELSE /\ link' = l
          /\ rec' = rec
          /\ op' = Idle
  /\ UNCHANGED <<plugged, assist>>

\* Slow path up to its scan for the target.
SlowPath(t) ==
  /\ link' = Released(link)
  /\ op' = Doing("scan", t, link.active)
  /\ UNCHANGED <<plugged, view, saved, assist, rec>>

TakePath(t) == IF link.handle[t] # "none" THEN FastPath(t) ELSE SlowPath(t)

StartSwitch(t) ==
  /\ GcodeFree
  /\ op' = Doing("check", t, NoAce)
  /\ UNCHANGED <<plugged, link, view, saved, assist, rec>>

SwitchFound ==
  /\ InGcode("check")
  /\ op.target \in plugged
  /\ IF op.target = link.active                    \* SWITCH_NOOP
     THEN op' = Idle /\ UNCHANGED <<plugged, link, view, saved, assist, rec>>
     ELSE IF assist
     THEN /\ op' = [op EXCEPT !.pc = "stop"]
          /\ UNCHANGED <<plugged, link, view, saved, assist, rec>>
     ELSE TakePath(op.target)

\* After the retries the target, or the head's ACE, is still not on USB.
TargetMissing ==
  /\ InGcode("check") \/ InGcode("hcheck")
  /\ op.target \notin plugged
  /\ op' = Idle
  /\ UNCHANGED <<plugged, link, view, saved, assist, rec>>

\* _disable_feed_assist sends stop_feed_assist once the ACE is ready.
StopAssist(pc, next) == InGcode(pc) /\ view.ready /\ GcodeSend(next)

\* The ACE accepted or refused the stop; only then is the index reset.
AssistAnswered(pc) ==
  /\ InGcode(pc)
  /\ assist
  /\ assist' = FALSE
  /\ UNCHANGED <<plugged, link, view, saved, op, rec>>

\* Ready again: leave for the target, whether or not the stop was accepted.
SwitchSettled ==
  /\ InGcode("settle") /\ view.ready
  /\ TakePath(op.target)

\* _slow_path_switch found the target: it is the active ACE from here on.
ScanFound ==
  LET l == [link EXCEPT !.active = op.target] IN
  /\ InGcode("scan")
  /\ op.target \in plugged
  /\ link' = ArmedNow(l)
  /\ view' = IF ~l.failed /\ CanOpen(l) THEN Busy(Blank(view)) ELSE Blank(view)
  /\ saved' = op.target
  /\ op' = [op EXCEPT !.pc = "wait"]
  /\ UNCHANGED <<plugged, assist, rec>>

\* Both failures of the slow path: promote the cached old handle, or reopen it.
GoBack(o) ==
  LET l == [link EXCEPT !.active = o] IN
  /\ IF link.handle[o] # "none"
     THEN /\ link' = Restored(link, o)
          /\ view' = [view EXCEPT !.asked = FALSE]
          /\ op' = Idle
     ELSE /\ link' = ArmedNow(l)
          /\ view' = IF ~l.failed /\ CanOpen(l)
                     THEN Busy([view EXCEPT !.asked = FALSE])
                     ELSE [view EXCEPT !.asked = FALSE]
          /\ op' = [op EXCEPT !.pc = "reopen"]
  /\ UNCHANGED <<plugged, saved, assist, rec>>

ScanMissing ==
  InGcode("scan") /\ op.target \notin plugged /\ GoBack(op.old)

ConnectTimeout == InGcode("wait") /\ ~link.connected /\ GoBack(op.old)

\* The polling loops end: connected, or (old ACE, head's ACE) out of patience.
WaitOver ==
  /\ \/ InGcode("wait") /\ link.connected
     \/ InGcode("reopen")
     \/ InGcode("hwait")
  /\ op' = Idle
  /\ UNCHANGED <<plugged, link, view, saved, assist, rec>>

-----------------------------------------------------------------------------
(* _switch_ace_for_head_target: an unload needs the ACE its filament is in. *)

StartHeadSwitch(t) ==
  /\ GcodeFree
  /\ ~(t = link.active /\ link.connected)
  /\ op' = Doing("hcheck", t, NoAce)
  /\ UNCHANGED <<plugged, link, view, saved, assist, rec>>

HeadPath(t) ==
  LET l == [HardClosed(link) EXCEPT !.active = t] IN
  /\ link' = ArmedNow(l)
  /\ view' = IF ~l.failed /\ CanOpen(l) THEN Busy(Blank(view)) ELSE Blank(view)
  /\ saved' = t
  /\ op' = Doing("hwait", t, link.active)
  /\ UNCHANGED <<plugged, assist, rec>>

HeadFound ==
  /\ InGcode("hcheck")
  /\ op.target \in plugged
  /\ IF assist
     THEN /\ op' = [op EXCEPT !.pc = "hstop"]
          /\ UNCHANGED <<plugged, link, view, saved, assist, rec>>
     ELSE HeadPath(op.target)

HeadSettled == InGcode("hsettle") /\ view.ready /\ HeadPath(op.target)

-----------------------------------------------------------------------------
Timers ==
  \/ \E current \in BOOLEAN : ConnectTick(current)
  \/ Heartbeat
  \/ Reply
  \/ ReadError
  \/ KeepaliveTick
  \/ \E g \in {"gcode", "beat"} : Recover(g)
  \/ DoPause

Progress ==
  \/ CommandSend
  \/ SwitchFound
  \/ TargetMissing
  \/ StopAssist("stop", "settle")
  \/ StopAssist("hstop", "hsettle")
  \/ AssistAnswered("settle")
  \/ AssistAnswered("hsettle")
  \/ SwitchSettled
  \/ ScanFound
  \/ ScanMissing
  \/ ConnectTimeout
  \/ WaitOver
  \/ HeadFound
  \/ HeadSettled

User ==
  \/ Command
  \/ EnableAssist
  \/ \E t \in Ace : StartSwitch(t)
  \/ \E t \in HeadTargets : StartHeadSwitch(t)
  \/ Restart

Usb == \E a \in Ace : UsbDrop(a) \/ UsbReturn(a)

Next == Timers \/ Progress \/ User \/ Usb

Spec == Init /\ [][Next]_vars

\* The reactor runs every due timer and resumes every paused greenlet; the
\* answer of a present ACE arrives.  Users and the USB bus owe nothing.
Fairness ==
  /\ \A current \in BOOLEAN : WF_vars(ConnectTick(current))
  /\ WF_vars(Heartbeat)
  /\ WF_vars(ReadError)
  /\ WF_vars(KeepaliveTick)
  /\ \A g \in {"gcode", "beat"} : WF_vars(Recover(g))
  /\ WF_vars(DoPause)
  /\ WF_vars(Progress)
  /\ SF_vars(Reply)

FairSpec == Spec /\ Fairness

-----------------------------------------------------------------------------
(* Properties.                                                             *)

\* What gate_status and _info say of the slots was said by the active ACE, or
\* by the target of a switch that was then given up (its device is the saved
\* one): never by a third ACE, and never across a switch that succeeded.
GatesFromSwitch == view.known => view.info \in {link.active, saved}

\* A live link talks to the ACE whose index is active: no command meant for
\* one ACE can be written to another one's handle.
LiveIsActive ==
  link.connected /\ link.serial \in Ace =>
    /\ link.serial = link.active
    /\ link.handle[link.active] # "none"

\* A link that counts as connected is polled, else its view would freeze.
ConnectedIsPolled == link.connected => link.beat

\* A step of ACE_SWITCH never closes a handle that works, unless it ends in a
\* permanent failure: the docstring of _release_active_serial promises to
\* "never close mid-session so cross-ACE swaps stay cheap".
NeverCloseMidSession ==
  [][/\ {op.pc, op'.pc} \cap SwitchPc # {}
     /\ op' # op /\ ~link'.failed /\ ~Restart
     => \A a \in Ace : link.handle[a] = "open" => link'.handle[a] = "open"]_vars

\* While every ACE stays on USB the link comes up, or is declared failed.
LinkComesBack == <>[](plugged = Ace) => []<>(Writable(link) \/ link.failed)

-----------------------------------------------------------------------------
(* What the rest of the system may assume of the link: module ActiveAce.   *)

Promise == INSTANCE ActiveAce WITH
  chosen <- saved,
  active <- link.active,
  up     <- link.connected,
  shown  <- IF view.known THEN view.info ELSE NoAce

KeepsPromise == Promise!Spec
=============================================================================
