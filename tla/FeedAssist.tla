----------------------------- MODULE FeedAssist -----------------------------
(***************************************************************************)
(* Feed assist and entangle detection (class BunnyAce of ace.py, FEED_AUTO *)
(* of filament_feed_ace.py).                                               *)
(*                                                                         *)
(* An ACE that assists pushes the filament of one slot after the extruder. *)
(* The code knows of it by one number, _feed_assist_index, which is that   *)
(* of the active ACE; the ACE forgets it in a USB reset, and _connect arms *)
(* it again.  A command is a program: the requests it sends and what it    *)
(* does between them, each of which waits for the ACE, so that a reset and *)
(* the greenlet of _connect come in between.  Next to it the module keeps  *)
(* the switches by which FEED_AUTO and a print silence the detector of     *)
(* tangled filament of a head.                                             *)
(***************************************************************************)
EXTENDS Naturals, Sequences, FiniteSets

CONSTANTS
  Aces,       \* the ACEs of the canonical device list
  Heads,      \* the toolheads
  Slots,      \* the slots of an ACE; FEED_AUTO feeds head h from slot h
  PrintOff,   \* fa_print_disable: ACEs that shall not assist in a print
  LoadOff,    \* fa_load_disable: ACEs that ACE_LOAD_HEAD refuses
  MaxResets,  \* how often an ACE resets its USB interface
  None

ASSUME FeedAssistAssumption ==
  /\ Heads \subseteq Slots /\ Heads # {}
  /\ PrintOff \subseteq Aces /\ LoadOff \subseteq Aces /\ Aces # {}
  /\ MaxResets \in Nat
  /\ None \notin Aces \cup Slots

VARIABLES
  active,     \* _active_device_index
  up,         \* _connected: requests of the active ACE are answered
  idx,        \* _feed_assist_index
  source,     \* _head_source: the ACE and the slot of each head
  tool,       \* the active extruder
  phase,      \* the print; _fa_context is 'print' in "print" only
  skip,       \* the heads whose entangle detector is switched off
  skipped,    \* _entangle_skipped_heads
  todo,       \* what the G-code greenlet and the one of _connect still do
  feeding,    \* the head whose FEED_AUTO has its finally before it
  assist,     \* the ACEs themselves: the slot each of them assists
  served,     \* history: the last command was a tool change
  overlapped, \* history: a command ran beside a reset or its _connect
  resets      \* bound: the resets so far

vars == <<active, up, idx, source, tool, phase, skip, skipped, todo, feeding,
          assist, served, overlapped, resets>>
code == <<source, tool, phase, skip, skipped, feeding>>
history == <<served, overlapped, resets>>

Greenlets == {"gcode", "connect"}
Source == [ace : Aces, slot : Slots]
-----------------------------------------------------------------------------
(* Programs.                                                               *)

Do(what, at) == [do |-> what, at |-> at]

Ops == [do : {"stop", "quiet", "unskip", "release"}, at : {None}]
         \cup [do : {"arm", "start"}, at : Slots]
         \cup [do : {"select", "skip", "feed", "flush", "pull", "own",
                     "forget"}, at : Heads]
         \cup [do : {"record"}, at : Heads \X Slots]
         \cup [do : {"switch", "fetch", "tried", "switched"}, at : Aces]

What(g) == Head(todo[g]).do
At(g) == Head(todo[g]).at
Has(g, what) == todo[g] # <<>> /\ What(g) = what
Pop(g) == todo' = [todo EXCEPT ![g] = Tail(@)]
Instead(g, program) == todo' = [todo EXCEPT ![g] = program \o Tail(@)]

AtRest == up /\ todo = [g \in Greenlets |-> <<>>]

\* FEED_AUTO LOAD=1: the head is picked, any assist ended, the slot fed until
\* the sensor of the head sees it, then assisted while it is flushed.
Feeds(h) == <<Do("skip", h), Do("select", h), Do("stop", None), Do("feed", h),
              Do("arm", h), Do("flush", h), Do("record", <<h, h>>),
              Do("unskip", None)>>

\* FEED_AUTO UNLOAD=1, first with STAGE=prepare, then with STAGE=doing.
Prepares(h) == <<Do("skip", h), Do("stop", None), Do("select", h),
                 Do("unskip", None)>>
\* STAGE=doing relies on STAGE=prepare to have ended the assist.
Pulls_OnceStopped(h) ==
  <<Do("skip", h), Do("own", h), Do("pull", h), Do("forget", h),
    Do("unskip", None)>>

Pulls(h) == <<Do("skip", h), Do("stop", None), Do("own", h), Do("pull", h),
              Do("forget", h), Do("unskip", None)>>
Unfeeds(h) == Prepares(h) \o Pulls(h)

\* What the commands that need another ACE do first.
Fetches(a) == IF a = active THEN <<>>
              ELSE <<Do("quiet", None), Do("fetch", a)>>
-----------------------------------------------------------------------------
(* The requests.                                                           *)

\* _disable_feed_assist: the ACE stops the slot that the code has in mind.
Stopped(g) ==
  /\ assist' = [assist EXCEPT ![active] = IF @ = idx THEN None ELSE @]
  /\ idx' = None
  /\ Pop(g)

Stop(g) ==
  /\ Has(g, "stop") /\ up
  /\ Stopped(g)
  /\ UNCHANGED <<active, up, code, history>>

\* Nearly all callers ask for it only if an assist is known.
Quiet(g) ==
  /\ Has(g, "quiet")
  /\ IF idx = None THEN Pop(g) /\ UNCHANGED <<idx, assist>>
                   ELSE up /\ Stopped(g)
  /\ UNCHANGED <<active, up, code, history>>

\* _enable_feed_assist up to its first wait: a refusal changes nothing.
Suppressed == phase = "print" /\ active \in PrintOff

Arm(g) ==
  /\ Has(g, "arm")
  /\ IF Suppressed THEN Pop(g) ELSE Instead(g, <<Do("start", At(g))>>)
  /\ UNCHANGED <<active, up, idx, assist, code, history>>

\* ... and after it: the request goes to the ACE that is active by now.
Start(g) ==
  /\ Has(g, "start") /\ up
  /\ assist' = [assist EXCEPT ![active] = At(g)]
  /\ idx' = At(g)
  /\ Pop(g)
  /\ UNCHANGED <<active, up, code, history>>
-----------------------------------------------------------------------------
(* Switching, of which AceLink has the details.                            *)

\* The cached handle is promoted, or the link goes down until _connect.
Goes(g, a, waits) ==
  /\ active' = a
  /\ \/ Pop(g) /\ UNCHANGED up
     \/ Instead(g, <<waits>>) /\ up' = FALSE

\* ACE_SWITCH
Switch(g) ==
  /\ Has(g, "switch")
  /\ Goes(g, At(g), Do("tried", active))
  /\ UNCHANGED <<idx, assist, code, history>>

\* _switch_ace_for_head_target knows no other way than to reconnect; its
\* callers ask for another ACE only.
Fetch(g) ==
  /\ Has(g, "fetch")
  /\ active' = At(g) /\ up' = FALSE
  /\ Instead(g, <<Do("switched", At(g))>>)
  /\ UNCHANGED <<idx, assist, code, history>>

Arrives(g) ==
  /\ Has(g, "tried") \/ Has(g, "switched")
  /\ up
  /\ Pop(g)
  /\ UNCHANGED <<active, up, idx, assist, code, history>>

\* ACE_SWITCH goes back to the ACE it came from.
GoesBack(g) ==
  /\ Has(g, "tried") /\ ~up
  /\ active' = At(g)
  /\ Pop(g)
  /\ UNCHANGED <<up, idx, assist, code, history>>

\* The other commands give up, but FEED_AUTO, which does not look.
Abandoned == /\ todo' = [todo EXCEPT !["gcode"] = <<>>]
             /\ skip' = skip \ {feeding}
             /\ feeding' = None

GivesUp ==
  /\ Has("gcode", "switched") /\ ~up
  /\ IF feeding = None THEN Abandoned
                       ELSE Pop("gcode") /\ UNCHANGED <<skip, feeding>>
  /\ UNCHANGED <<active, up, idx, source, tool, phase, skipped, assist,
                 history>>

\* _connect does not arm again.
Connect_Bare ==
  /\ ~up /\ up' = TRUE
  /\ UNCHANGED <<active, idx, todo, assist, code, history>>

\* A timer of _connect finds the active ACE and arms what was armed.
Connect ==
  /\ ~up
  /\ up' = TRUE
  /\ todo' = IF idx = None THEN todo
             ELSE [todo EXCEPT !["connect"] = Append(@, Do("arm", idx))]
  /\ UNCHANGED <<active, idx, assist, code, history>>

\* An ACE resets its USB interface and has forgotten its assist.
Reset(a) ==
  /\ resets < MaxResets
  /\ resets' = resets + 1
  /\ assist' = [assist EXCEPT ![a] = None]
  /\ up' = (up /\ a # active)
  /\ overlapped' = (overlapped \/ (todo["gcode"] # <<>>))
  /\ UNCHANGED <<active, idx, todo, code, served>>

\* ... or does so while it is asked to stop, and the answer is lost.
StopLost(g) ==
  /\ Has(g, "stop") \/ (Has(g, "quiet") /\ idx # None)
  /\ up /\ resets < MaxResets
  /\ resets' = resets + 1
  /\ assist' = [assist EXCEPT ![active] = None]
  /\ up' = FALSE
  /\ Pop(g)
  /\ overlapped' = TRUE
  /\ UNCHANGED <<active, idx, code, served>>
-----------------------------------------------------------------------------
(* The other steps of a program.                                           *)

\* The handler of a tool change does nothing for a tool of another ACE.
FollowsTool_SameAce(h) ==
  IF source[h] = None \/ source[h].ace # active \/ idx = source[h].slot
  THEN <<>> ELSE <<Do("arm", source[h].slot)>>

\* T<h>: _on_extruder_change runs in the command, if the extruder changes.
FollowsTool(h) ==
  IF source[h] = None THEN <<>>
  ELSE IF source[h].ace = active
       THEN IF idx = source[h].slot THEN <<>>
                                    ELSE <<Do("arm", source[h].slot)>>
       ELSE IF idx = None THEN <<>> ELSE <<Do("stop", None)>>

Select(g) ==
  /\ Has(g, "select")
  /\ tool' = At(g)
  /\ Instead(g, IF tool = At(g) THEN <<>> ELSE FollowsTool(At(g)))
  /\ UNCHANGED <<active, up, idx, source, phase, skip, skipped, feeding,
                 assist, history>>

\* cmd_FEED_AUTO around _do_feed, and its finally; it does not nest
Skip(g) ==
  /\ Has(g, "skip") /\ feeding = None
  /\ skip' = skip \cup {At(g)} /\ feeding' = At(g)
  /\ Pop(g)
  /\ UNCHANGED <<active, up, idx, source, tool, phase, skipped, assist,
                 history>>

Unskip(g) ==
  /\ Has(g, "unskip")
  /\ skip' = skip \ {feeding} /\ feeding' = None
  /\ Pop(g)
  /\ UNCHANGED <<active, up, idx, source, tool, phase, skipped, assist,
                 history>>

Moved(g) ==
  /\ \/ Has(g, "feed") \/ Has(g, "flush") \/ Has(g, "pull")
  /\ up
  /\ Pop(g)
  /\ UNCHANGED <<active, up, idx, assist, code, history>>

\* The feeding or pulling fails.  ACE_LOAD_HEAD records the head all the same
\* if its sensor sees filament.
Fails ==
  /\ \/ Has("gcode", "feed") \/ Has("gcode", "flush") \/ Has("gcode", "pull")
  /\ LET program == todo["gcode"]
         last == program[Len(program)] IN
     \E rest \in {<<>>} \cup {<<o>> : o \in {last} \ {Do("unskip", None)}} :
       todo' = [todo EXCEPT !["gcode"] = rest]
  /\ skip' = skip \ {feeding} /\ feeding' = None
  /\ UNCHANGED <<active, up, idx, source, tool, phase, skipped, assist,
                 history>>

\* STAGE=doing looks for the ACE of the head before it pulls.
Own(g) ==
  /\ Has(g, "own")
  /\ Instead(g, IF source[At(g)] = None THEN <<>>
                ELSE Fetches(source[At(g)].ace))
  /\ UNCHANGED <<active, up, idx, assist, code, history>>

Forget(g) ==
  /\ Has(g, "forget")
  /\ source' = [source EXCEPT ![At(g)] = None]
  /\ Pop(g)
  /\ UNCHANGED <<active, up, idx, tool, phase, skip, skipped, feeding, assist,
                 history>>

Record(g) ==
  /\ Has(g, "record")
  /\ source' = [source EXCEPT ![At(g)[1]] = [ace |-> active, slot |-> At(g)[2]]]
  /\ Pop(g)
  /\ UNCHANGED <<active, up, idx, tool, phase, skip, skipped, feeding, assist,
                 history>>

\* The end of a print forgets which heads it skipped.
Release_Forgets(g) ==
  /\ Has(g, "release")
  /\ skipped' = {} /\ phase' = "idle"
  /\ Pop(g)
  /\ UNCHANGED <<active, up, idx, source, tool, skip, feeding, assist, history>>

\* _release_entangle_skip_after_print
Release(g) ==
  /\ Has(g, "release")
  /\ skip' = skip \ skipped /\ skipped' = {}
  /\ phase' = "idle"
  /\ Pop(g)
  /\ UNCHANGED <<active, up, idx, source, tool, feeding, assist, history>>

GcodeStep == \/ Stop("gcode") \/ Quiet("gcode") \/ Arm("gcode")
             \/ Start("gcode") \/ Switch("gcode") \/ Fetch("gcode")
             \/ Arrives("gcode") \/ GoesBack("gcode") \/ GivesUp
             \/ Select("gcode") \/ Skip("gcode") \/ Unskip("gcode")
             \/ Moved("gcode") \/ Fails \/ Own("gcode") \/ Forget("gcode")
             \/ Record("gcode") \/ Release("gcode")

ConnectStep == Arm("connect") \/ Start("connect")
-----------------------------------------------------------------------------
(* The commands and events that start a program.                           *)

Runs(program, isToolChange) ==
  /\ todo["gcode"] = <<>>
  /\ todo' = [todo EXCEPT !["gcode"] = program]
  /\ served' = isToolChange
  /\ overlapped' = (overlapped \/ ~up \/ (todo["connect"] # <<>>))

ToolChange(h) ==
  /\ h # tool
  /\ Runs(<<Do("select", h)>>, TRUE)
  /\ UNCHANGED <<active, up, idx, assist, code, resets>>

\* ACE_SWITCH; the same ACE again is a no-op
AceSwitch(a) ==
  /\ a # active
  /\ Runs(<<Do("quiet", None), Do("switch", a)>>, FALSE)
  /\ UNCHANGED <<active, up, idx, assist, code, resets>>

\* ACE_ENABLE_FEED_ASSIST, ACE_DISABLE_FEED_ASSIST (whose INDEX nobody reads),
\* ACE_AUTO_FEED ENABLE=0
Asked(program) ==
  /\ Runs(program, FALSE)
  /\ UNCHANGED <<active, up, idx, assist, code, resets>>

EnableAssist(s) == Asked(<<Do("arm", s)>>)
DisableAssist == idx # None /\ Asked(<<Do("stop", None)>>)
AutoFeedOff == Asked(<<Do("quiet", None)>>)

\* ACE_LOAD_HEAD: a head that has filament is refused.
LoadHead(h, a, s) ==
  /\ source[h] = None /\ a \notin LoadOff
  /\ Runs(Fetches(a) \o <<Do("select", h)>> \o Feeds(h)
            \o <<Do("record", <<h, s>>)>>, FALSE)
  /\ UNCHANGED <<active, up, idx, assist, code, resets>>

UnloadHead(h) ==
  /\ source[h] # None
  /\ Runs(Fetches(source[h].ace) \o <<Do("quiet", None)>> \o Unfeeds(h), FALSE)
  /\ UNCHANGED <<active, up, idx, assist, code, resets>>

\* FEED_AUTO from the touchscreen or from the code that replaces a spool
FeedAuto(h) ==
  /\ Runs(IF source[h] = None THEN Feeds(h) ELSE Unfeeds(h), FALSE)
  /\ UNCHANGED <<active, up, idx, assist, code, resets>>

\* _on_print_start: pinned to the ACE that is active now
Foreign == {h \in Heads : source[h] # None /\ source[h].ace # active}

PrintStart ==
  /\ phase = "idle"
  /\ phase' = "print"
  /\ skip' = skip \cup Foreign /\ skipped' = skipped \cup Foreign
  /\ Runs(IF source[tool] = None \/ tool \in Foreign THEN <<>>
          ELSE FollowsTool(tool), served)
  /\ UNCHANGED <<active, up, idx, source, tool, feeding, assist, resets>>

\* _on_print_end: complete, cancelled or failed
PrintEnd ==
  /\ phase = "print"
  /\ phase' = "ending"
  /\ Runs(<<Do("quiet", None), Do("release", None)>>, FALSE)
  /\ UNCHANGED <<active, up, idx, source, tool, skip, skipped, feeding, assist,
                 resets>>
-----------------------------------------------------------------------------
Init ==
  /\ active \in Aces /\ up = FALSE /\ idx = None
  /\ source = [h \in Heads |-> None] /\ tool \in Heads
  /\ phase = "idle" /\ skip = {} /\ skipped = {} /\ feeding = None
  /\ todo = [g \in Greenlets |-> <<>>]
  /\ assist = [a \in Aces |-> None]
  /\ served = FALSE /\ overlapped = FALSE /\ resets = 0

Command ==
  \/ \E h \in Heads : ToolChange(h) \/ UnloadHead(h) \/ FeedAuto(h)
  \/ \E h \in Heads, a \in Aces, s \in Slots : LoadHead(h, a, s)
  \/ \E a \in Aces : AceSwitch(a)
  \/ \E s \in Slots : EnableAssist(s)
  \/ DisableAssist \/ AutoFeedOff \/ PrintStart \/ PrintEnd

Next == \/ Command \/ GcodeStep \/ ConnectStep \/ Connect
        \/ \E a \in Aces : Reset(a)
        \/ StopLost("gcode")

Spec == Init /\ [][Next]_vars
-----------------------------------------------------------------------------
(* Type invariant: programs are made of the steps above.                   *)
TypeOK ==
  /\ active \in Aces /\ up \in BOOLEAN /\ idx \in Slots \cup {None}
  /\ source \in [Heads -> Source \cup {None}] /\ tool \in Heads
  /\ phase \in {"idle", "print", "ending"}
  /\ skip \subseteq Heads /\ skipped \subseteq Heads
  /\ feeding \in Heads \cup {None}
  /\ todo \in [Greenlets -> Seq(Ops)]
  /\ assist \in [Aces -> Slots \cup {None}]
  /\ served \in BOOLEAN /\ overlapped \in BOOLEAN /\ resets \in 0 .. MaxResets

\* Between commands _feed_assist_index is what the ACEs do: only the active
\* one assists, and the slot the code has in mind; a reset in between is healed
\* by _connect.  (An ACE of fa_print_disable may have refused after a reset.)
AssistIsKnown ==
  AtRest /\ ~overlapped =>
    \A a \in Aces : \/ assist[a] = IF a = active THEN idx ELSE None
                    \/ a \in PrintOff /\ assist[a] = None

\* No ACE assists when FEED_AUTO feeds or pulls: the tool change inside of it
\* may have armed the very slot.
FeedsUnassisted ==
  ~overlapped /\ (Has("gcode", "feed") \/ Has("gcode", "pull")) =>
    assist = [a \in Aces |-> None]

\* After a tool change the ACE assists the slot of the new tool, and none if
\* another ACE is active.
ToolIsFed ==
  AtRest /\ served /\ ~overlapped /\ source[tool] # None
    /\ active \notin PrintOff =>
       assist[active] = IF source[tool].ace = active THEN source[tool].slot
                                                     ELSE None

\* Without print and feeding every detector is on again, whatever failed.
DetectorsBackOn == phase = "idle" /\ feeding = None => skip = {}

=============================================================================
