------------------------------ MODULE WebState ------------------------------
(***************************************************************************)
(* What the web console knows of the printer, and what it does on the      *)
(* strength of it.  ace.py writes a line with its whole state to a log at  *)
(* the end of what it does, and only then; how the lines come to the       *)
(* console is the business of LineFeed, which LogTailer implements.        *)
(* Its state answers the browser: the swap of a head in two commands, the  *)
(* refusal of loads, the reseating of a slot, which also writes to it.     *)
(*                                                                         *)
(* Of the gates it matters only whose slots they describe: whether one is  *)
(* full, and with it whether a load works or is refused, is open.          *)
(***************************************************************************)
EXTENDS Naturals, Sequences

CONSTANTS
  Aces,
  First,    \* ACE 0, which the console takes for active before it knows
  Heads,
  MaxLag,   \* bound: lines that the console is behind
  Nothing

VARIABLES
  printer,  \* its active ACE, the ACE whose gates it knows, the source of each head
  op,       \* the command that is changing the ACE
  cut,      \* history: a restart cut such a command short or came back to
            \* another ACE, or a line was lost; no line since
  due, rest, newest, place, unread,  \* the log, as in LineFeed
  phase,    \* of the console
  shown,    \* CurrentState
  reseat,   \* where the reseating of a slot is
  swap      \* the browser's swap of a head; leg "sure" is "load" of a
            \* browser that saw the head free, and, history, nobody fed it since

firmware == <<printer, op, cut>>
log == <<due, rest, newest, place, unread>>
console == <<phase, shown>>
requests == <<reseat, swap>>
vars == <<firmware, log, console, requests>>

Printer == [active : Aces, gates : Aces \cup {Nothing},
            source : [Heads -> {"free", "fed"}]]
\* OTHER stands for LOAD_HEAD, UNLOAD_HEAD, their failures and
\* SERIAL_WRITE_RECOVERED.
Actions == {"SWITCH", "SWITCH_FAILED", "SWITCH_TARGET", "SERIAL_WRITE_FAILED", "OTHER"}
Event == [action : Actions, state : Printer, banner : {"on", "off"}]
Known == [state : Printer, banner : {"on", "off"}]

ASSUME WebStateAssumption ==
  First \in Aces /\ MaxLag \in Nat \ {0} /\ Nothing \notin Heads \cup Aces \cup Event

\* The defaults of CurrentState; its gates are 0, which is "empty".
Default == [state |-> [active |-> First, gates |-> First,
                       source |-> [h \in Heads |-> "free"]],
            banner |-> "off"]
NoSwap == [head |-> Nothing, leg |-> "none"]
\* Actions after which no switch is in progress, whatever their line says.
Terminal_NotFailed == {"SWITCH", "SWITCH_TARGET", "SERIAL_WRITE_FAILED"}
Terminal == {"SWITCH", "SWITCH_FAILED", "SWITCH_TARGET", "SERIAL_WRITE_FAILED"}

\* apply_event
Applied(e) ==
  [state |-> e.state, banner |-> IF e.action \in Terminal THEN "off" ELSE e.banner]

Log == INSTANCE LineFeed WITH
  Lines <- Event, NoLine <- Nothing,
  Apply <- [e \in Event |-> Applied(e)], Blank <- Default
-----------------------------------------------------------------------------
(* The firmware.                                                           *)

\* _audit_state: nothing else of the firmware runs until the line is written.
Line(action, s) ==
  [action |-> action, state |-> s, banner |-> IF op = "switch" THEN "on" ELSE "off"]

Audits(action, s) ==
  /\ printer' = s
  /\ Log!Begin(Line(action, s))
  /\ UNCHANGED <<cut, reseat>>

Silently(s) ==
  /\ due = Nothing
  /\ printer' = s
  /\ UNCHANGED <<log, console, reseat>>

Sourced(h, src) == [printer EXCEPT !.source[h] = src]

Unsure(h) ==
  IF swap = [head |-> h, leg |-> "sure"] THEN [swap EXCEPT !.leg = "load"] ELSE swap

\* The commands for a head exclude each other and those that change the ACE.
Load(h) ==
  /\ op = "none"
  /\ Audits("OTHER", Sourced(h, "fed"))
  /\ swap' = Unsure(h)
  /\ UNCHANGED op

\* FEED_AUTO, for instance from the printer's screen, writes no line.
Feed(h, src) ==
  /\ op = "none"
  /\ Silently(Sourced(h, src))
  /\ swap' = IF src = "fed" THEN Unsure(h) ELSE swap
  /\ UNCHANGED <<op, cut>>

Unload(h) ==
  /\ op = "none"
  /\ Audits("OTHER", Sourced(h, "free"))
  /\ UNCHANGED op

\* LOAD_HEAD_FAILED, UNLOAD_HEAD_FAILED and other lines that change no source
HeadFails ==
  /\ op = "none"
  /\ Audits("OTHER", printer)
  /\ UNCHANGED op

\* ACE_SWITCH, or the switch on the way to a load or an unload
BeginChange(kind) ==
  /\ op = "none"
  /\ Silently(printer)
  /\ op' = kind
  /\ UNCHANGED <<cut, swap>>

\* The gates of the former ACE stay.
Moves_KeepsGates(a) ==
  /\ op # "none" /\ a # printer.active
  /\ Silently([printer EXCEPT !.active = a])
  /\ UNCHANGED <<op, cut, swap>>

\* To the target, or back from one that has not answered.
Moves(a) ==
  /\ op # "none" /\ a # printer.active
  /\ Silently([printer EXCEPT !.active = a, !.gates = Nothing])
  /\ UNCHANGED <<op, cut, swap>>

\* A switch on the way to a load or an unload writes no line of its own.
EndChange_Unwritten ==
  /\ \/ op = "switch" /\ \E w \in {"SWITCH", "SWITCH_FAILED"} : Audits(w, printer)
     \/ op = "target" /\ Silently(printer) /\ UNCHANGED cut
  /\ op' = "none"
  /\ UNCHANGED swap

\* The line still says that a switch is in progress: it is not yet over.
EndChange ==
  /\ \/ op = "switch" /\ \E w \in {"SWITCH", "SWITCH_FAILED"} : Audits(w, printer)
     \/ op = "target" /\ Audits("SWITCH_TARGET", printer)
  /\ op' = "none"
  /\ UNCHANGED swap

\* A write to an ACE fails, or works at the second attempt, beside all that.
SerialTrouble ==
  /\ \E w \in {"SERIAL_WRITE_FAILED", "OTHER"} :
       Audits(w, printer)
  /\ UNCHANGED <<op, swap>>

\* No line is written of what a heartbeat finds.
Heartbeat ==
  /\ Silently([printer EXCEPT !.gates = printer.active])
  /\ UNCHANGED <<op, cut, swap>>

Restart ==
  /\ \E a \in {printer.active, First} :
       /\ Silently([printer EXCEPT !.active = a, !.gates = Nothing])
       /\ cut' = (cut \/ op # "none" \/ a # printer.active)
  /\ op' = "none"
  /\ UNCHANGED swap

\* The log on its way to the next line
Rotate == Log!Rotate /\ UNCHANGED <<firmware, requests>>

Write ==
  /\ Log!Write /\ Len(unread') =< MaxLag
  /\ cut' = FALSE
  /\ UNCHANGED <<printer, op, requests>>

Spoil ==
  /\ Log!Spoil
  /\ cut' = TRUE
  /\ UNCHANGED <<printer, op, requests>>

\* The printer and the console.
PowerLoss ==
  /\ Log!PowerLoss
  /\ \E a \in {printer.active, First} :
       /\ printer' = [printer EXCEPT !.active = a, !.gates = Nothing]
       /\ cut' = (cut \/ op # "none" \/ a # printer.active \/ due # Nothing)
  /\ op' = "none"
  /\ reseat' = "none" /\ swap' = NoSwap
-----------------------------------------------------------------------------
(* The console.                                                            *)

\* _bootstrap_state_from_log
Boot == Log!Boot /\ UNCHANGED <<firmware, requests>>

\* The tailer opens the log.
Open == Log!Open /\ UNCHANGED <<firmware, requests>>

\* on_state_line
ReadLine == Log!Read /\ UNCHANGED <<firmware, requests>>

Dies ==
  /\ Log!Dies
  /\ reseat' = "none" /\ swap' = NoSwap
  /\ UNCHANGED firmware
-----------------------------------------------------------------------------
(* Requests.                                                               *)

\* POST .../reseat: of the ACE that the console takes for active
ReseatAsk(a) ==
  /\ phase = "running" /\ reseat = "none"
  /\ a = shown.state.active
  /\ reseat' = "asked"
  /\ UNCHANGED <<firmware, log, console, swap>>

ReseatRetract ==
  /\ reseat = "asked" /\ op = "none" /\ due = Nothing
  /\ reseat' \in {"settling", "none"}
  /\ UNCHANGED <<firmware, log, console, swap>>

\* The gates that the printer has now, of whatever ACE, go into the state.
ReseatReadBack ==
  /\ reseat = "settling" /\ due = Nothing
  /\ reseat' = "none"
  /\ shown' \in {[shown EXCEPT !.state = [@ EXCEPT !.gates = printer.gates]], shown}
  /\ UNCHANGED <<firmware, log, phase, swap>>

Busy(h) == shown.state.source[h] = "fed"

Browser == phase = "running" /\ UNCHANGED <<firmware, log, console, reseat>>

\* initiateSmartSwap of a head that is not empty; one that is parked is "free", too
SwapStart(h) ==
  /\ Browser
  /\ swap.leg = "none" /\ shown.banner = "off"
  /\ swap' = [head |-> h, leg |-> "unload"]

\* _executeSmartSwapLeg1; the command may fail without an error for the browser.
SwapUnload ==
  /\ swap.leg = "unload"
  /\ Unload(swap.head) \/ HeadFails
  /\ swap' = [swap EXCEPT !.leg = "wait"]

\* Neither the printer nor a line that is still to be applied says otherwise.
StillFree ==
  /\ printer.source[swap.head] = "free"
  /\ \A k \in 1 .. Len(unread) : unread[k].state.source[swap.head] = "free"

\* The second command follows the answer to the first at once.
SwapSees_AtOnce ==
  /\ Browser
  /\ swap.leg = "wait"
  /\ swap' = [swap EXCEPT !.leg = IF StillFree THEN "sure" ELSE "load"]

\* _waitForSwapLeg1Propagation
SwapSees ==
  /\ Browser
  /\ swap.leg = "wait" /\ ~Busy(swap.head)
  /\ swap' = [swap EXCEPT !.leg = IF StillFree THEN "sure" ELSE "load"]

SwapDeadline ==
  /\ Browser
  /\ swap.leg = "wait"
  /\ swap' = [swap EXCEPT !.leg = "load"]

\* _preflight_load_head
Refused(h, a) == Busy(h) \/ (a = shown.state.active /\ shown.state.gates # Nothing)

SwapRefused(a) ==
  /\ Browser
  /\ swap.leg \in {"load", "sure"} /\ Refused(swap.head, a)
  /\ swap' = NoSwap

SwapLoads ==
  /\ Browser
  /\ swap.leg \in {"load", "sure"} /\ ~Busy(swap.head)
  /\ swap' = NoSwap

Init ==
  /\ printer \in [active : Aces, gates : {Nothing}, source : [Heads -> {"free", "fed"}]]
  /\ op = "none" /\ cut = FALSE
  /\ Log!Init
  /\ reseat = "none" /\ swap = NoSwap

Firmware ==
  \/ \E h \in Heads : Load(h) \/ (Unload(h) /\ UNCHANGED swap)
  \/ HeadFails /\ UNCHANGED swap
  \/ \E h \in Heads, src \in {"free", "fed"} : Feed(h, src)
  \/ \E kind \in {"switch", "target"} : BeginChange(kind)
  \/ \E a \in Aces : Moves(a)
  \/ EndChange \/ SerialTrouble \/ Heartbeat \/ Restart

LogSteps == Rotate \/ Write \/ Spoil \/ PowerLoss

Console == Boot \/ Open \/ ReadLine \/ Dies

Requests ==
  \/ \E a \in Aces : ReseatAsk(a) \/ SwapRefused(a)
  \/ ReseatRetract \/ ReseatReadBack
  \/ \E h \in Heads : SwapStart(h)
  \/ SwapUnload \/ SwapSees \/ SwapDeadline \/ SwapLoads

Next == Firmware \/ LogSteps \/ Console \/ Requests

Spec == Init /\ [][Next]_vars
-----------------------------------------------------------------------------
TypeOK ==
  /\ printer \in Printer /\ op \in {"none", "switch", "target"} /\ cut \in BOOLEAN
  /\ due \in Event \cup {Nothing} /\ rest \in BOOLEAN
  /\ newest \in Event \cup {Nothing} /\ place \in {"unread", "applied", "missed"}
  /\ unread \in Seq(Event)
  /\ phase \in {"down", "starting", "running"} /\ shown \in Known
  /\ reseat \in {"none", "asked", "settling"}
  /\ swap \in [head : Heads \cup {Nothing}, leg : {"none", "unload", "wait", "load", "sure"}]

Settled ==
  phase = "running" /\ place = "applied" /\ due = Nothing /\ op = "none" /\ ~cut

\* The banner of a switch, whose lines all say that it is still in progress,
\* does not outlive the switch, unless a restart or a lost line cut it short.
BannerEnds == Settled => shown.banner = "off"

\* A console that has caught up shows the ACE that is active.
KnowsActive == Settled => shown.state.active = printer.active

\* The gates it shows are those of the ACE that it takes for active, also after
\* a reseating that a switch overtook.
GatesOfActive ==
  Settled => shown.state.gates \in {shown.state.active, Nothing}

\* The second command of a swap is not refused for a head that the browser has
\* seen free, unless somebody has loaded it again since.
SwapGoesOn == swap.leg = "sure" => ~Busy(swap.head)

=============================================================================
