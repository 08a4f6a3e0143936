--------------------------- MODULE WebStateProofs ---------------------------
(***************************************************************************)
(* Proofs about WebState for any number of ACEs and heads and for a        *)
(* console that is any number of lines behind.                             *)
(***************************************************************************)
EXTENDS WebState, SequenceTheorems, TLAPS

(* The gates that somebody knows are those of the ACE he takes for active. *)
Own(s) == s.gates \in {s.active, Nothing}

(* What the log says: each line of the gates of its ACE, the one that is   *)
(* due of the printer as it is, the newest so between two changes.         *)
LinesOwn ==
  /\ Own(printer)
  /\ newest # Nothing => Own(newest.state)
  /\ \A k \in 1 .. Len(unread) : Own(unread[k].state)

DueTrue ==
  due # Nothing =>
    /\ due.state = printer
    /\ op = "none" => Applied(due).banner = "off"

Quiet == due = Nothing /\ op = "none" /\ ~cut

NewestTrue ==
  newest # Nothing /\ Quiet =>
    newest.state.active = printer.active /\ Applied(newest).banner = "off"

(* How far the console is.                                                 *)
Reading ==
  /\ place = "unread" =>
       unread # <<>> /\ newest # Nothing /\ unread[Len(unread)] = newest
  /\ phase # "running" => unread = <<>>

ShownTrue ==
  place = "applied" =>
    /\ unread = <<>> /\ newest # Nothing
    /\ shown.state.active = newest.state.active
    /\ shown.banner = Applied(newest).banner

ShownOwn == place = "applied" /\ Quiet => Own(shown.state)

(* A swap is that of a head; a browser that is sure is so of one that is   *)
(* free wherever one looks.                                                *)
SureFree ==
  /\ swap.leg # "none" => swap.head \in Heads
  /\ swap.leg = "sure" => phase = "running" /\ ~Busy(swap.head) /\ StillFree

IInv ==
  /\ TypeOK /\ LinesOwn /\ DueTrue /\ NewestTrue
  /\ Reading /\ ShownTrue /\ ShownOwn /\ SureFree

USE WebStateAssumption
-----------------------------------------------------------------------------
(* What the sequence of unread lines is after a line is written or read.   *)
LEMMA Written ==
  ASSUME NEW u \in Seq(Event), NEW e \in Event
  PROVE  /\ Append(u, e) \in Seq(Event) /\ Append(u, e) # <<>>
         /\ Len(u) \in Nat /\ Len(Append(u, e)) = Len(u) + 1
         /\ Append(u, e)[Len(u) + 1] = e
         /\ \A k \in 1 .. Len(u) : Append(u, e)[k] = u[k]
BY AppendProperties, LenProperties

LEMMA Kept ==
  ASSUME NEW u \in Seq(Event), NEW n \in 0 .. Len(u)
  PROVE  /\ SubSeq(u, 1, n) \in Seq(Event) /\ Len(SubSeq(u, 1, n)) = n
         /\ \A k \in 1 .. n : k \in 1 .. Len(u) /\ SubSeq(u, 1, n)[k] = u[k]
         /\ n = Len(u) => SubSeq(u, 1, n) = u
<1> DEFINE v == SubSeq(u, 1, n)
<1>1. n \in Int /\ 1 \in Int /\ \A k \in 1 .. n : k \in 1 .. Len(u) /\ u[k] \in Event
  BY LenProperties, ElementOfSeq
<1>2. /\ v \in Seq(Event) /\ Len(v) = IF 1 =< n THEN n - 1 + 1 ELSE 0
      /\ \A k \in 1 .. n - 1 + 1 : v[k] = u[1 + k - 1]
  BY <1>1, SubSeqProperties
<1>3. Len(v) = n BY <1>2
<1>4. ASSUME NEW k \in 1 .. n PROVE v[k] = u[k]
  <2>1. 1 + k - 1 = k /\ k \in 1 .. n - 1 + 1 BY <1>1
  <2> QED BY <1>2, <2>1
<1>5. n = Len(u) => v = u BY SubSeqFull
<1> QED BY <1>1, <1>2, <1>3, <1>4, <1>5

LEMMA ReadOff ==
  ASSUME NEW u \in Seq(Event), u # <<>>
  PROVE  /\ Head(u) \in Event /\ Head(u) = u[1]
         /\ Tail(u) \in Seq(Event) /\ Len(u) \in Nat \ {0}
         /\ Len(Tail(u)) = Len(u) - 1
         /\ \A k \in 1 .. Len(u) - 1 : Tail(u)[k] = u[k + 1]
         /\ Len(u) = 1 => Tail(u) = <<>>
<1>1. Len(u) \in Nat \ {0} BY EmptySeq, LenProperties
<1>2. Head(u) \in Event /\ Tail(u) \in Seq(Event) /\ Len(Tail(u)) = Len(u) - 1
  BY HeadTailProperties
<1>3. \A k \in 1 .. Len(u) - 1 : Tail(u)[k] = u[k + 1]
  BY <1>1, <1>2, HeadTailProperties
<1>4. ASSUME Len(u) = 1 PROVE Tail(u) = <<>>
  <2>1. Len(Tail(u)) = 0 BY <1>2, <1>4
  <2> QED BY <1>2, <2>1, EmptySeq
<1> QED BY <1>1, <1>2, <1>3, <1>4

(* A line of the log has the fields of an event.                           *)
LEMMA LineTyped ==
  ASSUME NEW w \in Actions, NEW s \in Printer
  PROVE  /\ Line(w, s) \in Event /\ Line(w, s) # Nothing
         /\ Line(w, s).state = s
         /\ op # "switch" => Applied(Line(w, s)).banner = "off"
         /\ w \in Terminal => Applied(Line(w, s)).banner = "off"
<1>1. Line(w, s) \in Event BY DEF Line, Event
<1>2. Line(w, s) # Nothing BY <1>1
<1> QED BY <1>1, <1>2 DEF Line, Applied

LEMMA AppliedTyped ==
  ASSUME NEW e \in Event
  PROVE  Applied(e) \in Known /\ Applied(e).state = e.state
BY DEF Event, Known, Applied

-----------------------------------------------------------------------------
Swaps == [head : Heads \cup {Nothing}, leg : {"none", "unload", "wait", "load", "sure"}]

(* Who is sure after a step of the firmware was so before, of a head that  *)
(* the step leaves free.                                                   *)
SureKept(s) ==
  /\ swap' \in Swaps
  /\ swap'.leg # "none" => swap'.head \in Heads
  /\ swap'.leg = "sure" => swap' = swap /\ s.source[swap.head] = "free"

LEMMA WaitsForHead == IInv /\ swap.leg # "none" => swap.head \in Heads
BY DEF IInv, SureFree

LEMMA InitInv == Init => IInv
<1> SUFFICES ASSUME Init PROVE IInv OBVIOUS
<1> USE DEF Log!Init
<1>1. printer \in Printer /\ Own(printer) BY DEF Init, Printer, Own
<1>2. Default \in Known BY DEF Default, Known, Printer
<1>3. TypeOK
  <2>1. /\ newest \in Event \cup {Nothing} /\ due \in Event \cup {Nothing}
        /\ unread \in Seq(Event)
    BY DEF Init
  <2>2. swap \in Swaps BY DEF Init, NoSwap, Swaps
  <2>3. shown \in Known BY <1>2 DEF Init
  <2>4. cut \in BOOLEAN /\ rest \in BOOLEAN BY DEF Init
  <2>5. /\ op \in {"none", "switch", "target"} /\ reseat \in {"none", "asked", "settling"}
        /\ phase \in {"down", "starting", "running"}
        /\ place \in {"unread", "applied", "missed"}
    BY DEF Init
  <2> QED BY <1>1, <2>1, <2>2, <2>3, <2>4, <2>5 DEF TypeOK, Swaps
<1>4. /\ LinesOwn /\ DueTrue /\ NewestTrue /\ Reading /\ ShownTrue /\ ShownOwn
      /\ SureFree
  BY <1>1 DEF Init, LinesOwn, DueTrue, NewestTrue, Reading, ShownTrue, ShownOwn,
              SureFree, NoSwap
<1> QED BY <1>3, <1>4 DEF IInv

(* A step of the firmware that begins a line.                              *)
LEMMA AuditsInv ==
  ASSUME IInv, NEW w \in Actions, NEW s \in Printer, Own(s), Audits(w, s),
         op' \in {"none", "switch", "target"},
         op' = "none" => op # "switch" \/ w \in Terminal,
         SureKept(s)
  PROVE  IInv'
<1> DEFINE e == Line(w, s)
<1>1. /\ e \in Event /\ e # Nothing /\ e.state = s
      /\ op # "switch" => Applied(e).banner = "off"
      /\ w \in Terminal => Applied(e).banner = "off"
  BY LineTyped
<1>2. /\ due' = e /\ printer' = s /\ rest' = rest /\ newest' = newest
      /\ place' = place /\ unread' = unread /\ cut' = cut
      /\ phase' = phase /\ shown' = shown /\ reseat' = reseat
  BY DEF Audits, Log!Begin
<1> HIDE DEF e
<1>3. TypeOK' BY <1>1, <1>2 DEF IInv, TypeOK, SureKept, Swaps
<1>4. LinesOwn' BY <1>2 DEF IInv, LinesOwn, Own
<1>5. DueTrue' BY <1>1, <1>2 DEF DueTrue, Applied
<1>6. NewestTrue' /\ ShownOwn' BY <1>1, <1>2 DEF NewestTrue, ShownOwn, Quiet
<1>7. Reading' /\ ShownTrue' BY <1>2 DEF IInv, Reading, ShownTrue, Applied
<1>8. SureFree' BY <1>2 DEF IInv, SureFree, SureKept, StillFree, Busy
<1> QED BY <1>3, <1>4, <1>5, <1>6, <1>7, <1>8 DEF IInv

(* A step of the firmware that writes none.                                *)
LEMMA SilentInv ==
  ASSUME IInv, NEW s \in Printer, Own(s), Silently(s),
         op' \in {"none", "switch", "target"}, cut' \in BOOLEAN,
         op' = "none" /\ ~cut' => op = "none" /\ ~cut /\ s.active = printer.active,
         SureKept(s)
  PROVE  IInv'
<1>1. /\ printer' = s /\ due = Nothing /\ due' = due /\ rest' = rest /\ newest' = newest
      /\ place' = place /\ unread' = unread
      /\ phase' = phase /\ shown' = shown /\ reseat' = reseat
  BY DEF Silently, log, console
<1>2. TypeOK' BY <1>1 DEF IInv, TypeOK, SureKept, Swaps
<1>3. LinesOwn' BY <1>1 DEF IInv, LinesOwn, Own
<1>4. NewestTrue' BY <1>1 DEF IInv, NewestTrue, Quiet, Applied
<1>5. DueTrue' /\ Reading' /\ ShownTrue'
  BY <1>1 DEF IInv, DueTrue, Reading, ShownTrue, Applied
<1>6. ShownOwn' BY <1>1 DEF IInv, ShownOwn, Quiet, Own
<1>7. SureFree' BY <1>1 DEF IInv, SureFree, SureKept, StillFree, Busy
<1> QED BY <1>2, <1>3, <1>4, <1>5, <1>6, <1>7 DEF IInv
-----------------------------------------------------------------------------
(* The steps of the firmware.                                              *)

LEMMA SwapKept ==
  ASSUME IInv, UNCHANGED swap, NEW s, s.source = printer.source
  PROVE  SureKept(s)
BY DEF IInv, TypeOK, SureKept, Swaps, SureFree, StillFree

LEMMA UnsureKept ==
  ASSUME IInv, NEW h \in Heads, swap' = Unsure(h), NEW s,
         \A i \in Heads : i # h => s.source[i] = printer.source[i]
  PROVE  SureKept(s)
<1>1. swap \in Swaps BY DEF IInv, TypeOK, Swaps
<1>2. CASE swap = [head |-> h, leg |-> "sure"]
  BY <1>1, <1>2 DEF Unsure, SureKept, Swaps
<1>3. CASE swap # [head |-> h, leg |-> "sure"]
  <2>1. swap' = swap BY <1>3 DEF Unsure
  <2>2. swap.leg = "sure" => swap.head # h BY <1>1, <1>3 DEF Swaps
  <2> QED BY <1>1, <2>1, <2>2 DEF IInv, SureKept, SureFree, StillFree
<1> QED BY <1>2, <1>3

LEMMA FreedKept ==
  ASSUME IInv, NEW h \in Heads, UNCHANGED swap, NEW s, s.source[h] = "free",
         \A i \in Heads : i # h => s.source[i] = printer.source[i]
  PROVE  SureKept(s)
BY DEF IInv, TypeOK, SureKept, Swaps, SureFree, StillFree

LEMMA WaitingKept ==
  ASSUME IInv, swap.leg # "none", swap' = [swap EXCEPT !.leg = "wait"], NEW s
  PROVE  SureKept(s)
<1>1. swap \in Swaps /\ swap.head \in Heads
  BY WaitsForHead DEF IInv, TypeOK, Swaps
<1> QED BY <1>1 DEF SureKept, Swaps

LEMMA SourcedTyped ==
  ASSUME IInv, NEW h \in Heads, NEW src \in {"free", "fed"}
  PROVE  /\ Sourced(h, src) \in Printer /\ Own(Sourced(h, src))
         /\ Sourced(h, src).active = printer.active
         /\ Sourced(h, src).source[h] = src
         /\ \A i \in Heads : i # h => Sourced(h, src).source[i] = printer.source[i]
<1>1. printer \in Printer /\ Own(printer) BY DEF IInv, TypeOK, LinesOwn
<1>2. printer.source \in [Heads -> {"free", "fed"}] BY <1>1 DEF Printer
<1> DEFINE f == [printer.source EXCEPT ![h] = src]
<1>3. /\ f \in [Heads -> {"free", "fed"}] /\ f[h] = src
      /\ \A i \in Heads : i # h => f[i] = printer.source[i]
  BY <1>2
<1>4. Sourced(h, src) = [printer EXCEPT !.source = f] BY <1>1 DEF Sourced, Printer
<1> HIDE DEF f
<1> QED BY <1>1, <1>3, <1>4 DEF Printer, Own

LEMMA LoadInv == \A h \in Heads : IInv /\ Load(h) => IInv'
<1> SUFFICES ASSUME NEW h \in Heads, IInv, Load(h) PROVE IInv' OBVIOUS
<1>1. SureKept(Sourced(h, "fed")) BY UnsureKept, SourcedTyped DEF Load
<1> QED BY <1>1, AuditsInv, SourcedTyped DEF Load, Actions

LEMMA FeedInv == \A h \in Heads, src \in {"free", "fed"} : IInv /\ Feed(h, src) => IInv'
<1> SUFFICES ASSUME NEW h \in Heads, NEW src \in {"free", "fed"}, IInv, Feed(h, src)
             PROVE  IInv'
  OBVIOUS
<1>1. SureKept(Sourced(h, src))
  <2>1. CASE src = "fed" BY <2>1, UnsureKept, SourcedTyped DEF Feed
  <2>2. CASE src = "free"
    <3>1. swap' = swap BY <2>2 DEF Feed
    <3> QED BY <2>2, <3>1, FreedKept, SourcedTyped
  <2> QED BY <2>1, <2>2
<1>2. cut' \in BOOLEAN /\ op' = "none" /\ (cut' <=> cut)
  BY DEF Feed, IInv, TypeOK
<1> QED BY <1>1, <1>2, SilentInv, SourcedTyped DEF Feed

(* The second way to unload, and the failures, also end a leg of a swap.   *)
LEMMA UnloadInv ==
  ASSUME IInv, NEW h \in Heads, Unload(h),
         \/ UNCHANGED swap
         \/ swap.leg # "none" /\ swap' = [swap EXCEPT !.leg = "wait"]
  PROVE  IInv'
<1>1. SureKept(Sourced(h, "free"))
  <2>1. CASE UNCHANGED swap BY <2>1, FreedKept, SourcedTyped
  <2>2. CASE swap.leg # "none" /\ swap' = [swap EXCEPT !.leg = "wait"]
    BY <2>2, WaitingKept
  <2> QED BY <2>1, <2>2
<1> QED BY <1>1, AuditsInv, SourcedTyped DEF Unload, Actions

LEMMA HeadFailsInv ==
  ASSUME IInv, HeadFails,
         \/ UNCHANGED swap
         \/ swap.leg # "none" /\ swap' = [swap EXCEPT !.leg = "wait"]
  PROVE  IInv'
<1>1. SureKept(printer)
  <2>1. CASE UNCHANGED swap BY <2>1, SwapKept
  <2>2. CASE swap.leg # "none" /\ swap' = [swap EXCEPT !.leg = "wait"]
    BY <2>2, WaitingKept
  <2> QED BY <2>1, <2>2
<1>2. printer \in Printer /\ Own(printer) BY DEF IInv, TypeOK, LinesOwn
<1> QED BY <1>1, <1>2, AuditsInv DEF HeadFails, Actions

LEMMA BeginChangeInv == \A kind \in {"switch", "target"} : IInv /\ BeginChange(kind) => IInv'
<1> SUFFICES ASSUME NEW kind \in {"switch", "target"}, IInv, BeginChange(kind)
             PROVE  IInv'
  OBVIOUS
<1>1. SureKept(printer) BY SwapKept DEF BeginChange
<1>2. printer \in Printer /\ Own(printer) /\ cut' \in BOOLEAN
  BY DEF BeginChange, IInv, TypeOK, LinesOwn
<1> QED BY <1>1, <1>2, SilentInv DEF BeginChange

(* The printer after its active ACE or what it knows of it has changed.    *)
LEMMA Moved ==
  ASSUME IInv, NEW a \in Aces
  PROVE  LET s == [printer EXCEPT !.active = a, !.gates = Nothing]
             t == [printer EXCEPT !.gates = printer.active]
         IN  /\ s \in Printer /\ Own(s) /\ s.active = a /\ s.source = printer.source
             /\ t \in Printer /\ Own(t) /\ t.active = printer.active
             /\ t.source = printer.source
<1>1. printer \in Printer /\ printer.active \in Aces BY DEF IInv, TypeOK, Printer
<1> QED BY <1>1 DEF Printer, Own

LEMMA MovesInv == \A a \in Aces : IInv /\ Moves(a) => IInv'
<1> SUFFICES ASSUME NEW a \in Aces, IInv, Moves(a) PROVE IInv' OBVIOUS
<1> DEFINE s == [printer EXCEPT !.active = a, !.gates = Nothing]
<1>1. s \in Printer /\ Own(s) /\ s.source = printer.source BY Moved
<1>2. Silently(s) /\ UNCHANGED <<op, cut, swap>> /\ op # "none" BY DEF Moves
<1>3. cut' \in BOOLEAN /\ op' \in {"none", "switch", "target"} /\ op' # "none"
  BY <1>2 DEF IInv, TypeOK
<1> HIDE DEF s
<1>4. SureKept(s) BY <1>1, <1>2, SwapKept
<1> QED BY <1>1, <1>2, <1>3, <1>4, SilentInv

LEMMA EndChangeInv == IInv /\ EndChange => IInv'
<1> SUFFICES ASSUME IInv, EndChange PROVE IInv' OBVIOUS
<1>1. SureKept(printer) BY SwapKept DEF EndChange
<1>2. printer \in Printer /\ Own(printer) BY DEF IInv, TypeOK, LinesOwn
<1>3. PICK w \in {"SWITCH", "SWITCH_FAILED", "SWITCH_TARGET"} : Audits(w, printer)
  BY DEF EndChange
<1>4. w \in Actions /\ w \in Terminal BY <1>3 DEF Actions, Terminal
<1> QED BY <1>1, <1>2, <1>3, <1>4, AuditsInv DEF EndChange

LEMMA SerialTroubleInv == IInv /\ SerialTrouble => IInv'
<1> SUFFICES ASSUME IInv, SerialTrouble PROVE IInv' OBVIOUS
<1>1. SureKept(printer) BY SwapKept DEF SerialTrouble
<1>2. printer \in Printer /\ Own(printer) BY DEF IInv, TypeOK, LinesOwn
<1>3. PICK w \in {"SERIAL_WRITE_FAILED", "OTHER"} : Audits(w, printer)
  BY DEF SerialTrouble
<1>4. w \in Actions BY <1>3 DEF Actions
<1>5. op' = op /\ op \in {"none", "switch", "target"}
  BY DEF SerialTrouble, IInv, TypeOK
<1> QED BY <1>1, <1>2, <1>3, <1>4, <1>5, AuditsInv

LEMMA HeartbeatInv == IInv /\ Heartbeat => IInv'
<1> SUFFICES ASSUME IInv, Heartbeat PROVE IInv' OBVIOUS
<1> DEFINE t == [printer EXCEPT !.gates = printer.active]
<1>1. t \in Printer /\ Own(t) /\ t.active = printer.active /\ t.source = printer.source
  BY Moved
<1>2. Silently(t) /\ UNCHANGED <<op, cut, swap>> BY DEF Heartbeat
<1>3. cut' \in BOOLEAN /\ op' \in {"none", "switch", "target"}
  BY <1>2 DEF IInv, TypeOK
<1> HIDE DEF t
<1>4. SureKept(t) BY <1>1, <1>2, SwapKept
<1> QED BY <1>1, <1>2, <1>3, <1>4, SilentInv

LEMMA RestartInv == IInv /\ Restart => IInv'
<1> SUFFICES ASSUME IInv, Restart PROVE IInv' OBVIOUS
<1>1. PICK a \in {printer.active, First} :
        /\ Silently([printer EXCEPT !.active = a, !.gates = Nothing])
        /\ cut' = (cut \/ op # "none" \/ a # printer.active)
  BY DEF Restart
<1>2. a \in Aces BY DEF IInv, TypeOK, Printer
<1> DEFINE s == [printer EXCEPT !.active = a, !.gates = Nothing]
<1>3. s \in Printer /\ Own(s) /\ s.active = a /\ s.source = printer.source
  BY <1>2, Moved
<1>4. Silently(s) BY <1>1
<1>5. cut' \in BOOLEAN BY <1>1
<1>6. ~cut' => op = "none" /\ ~cut /\ a = printer.active BY <1>1
<1>7. op' = "none" /\ UNCHANGED swap BY DEF Restart
<1> HIDE DEF s
<1>8. SureKept(s) BY <1>3, <1>7, SwapKept
<1> QED BY <1>3, <1>4, <1>5, <1>6, <1>7, <1>8, SilentInv
-----------------------------------------------------------------------------
(* The steps of the log.                                                   *)

LEMMA RotateInv == IInv /\ Rotate => IInv'
<1> SUFFICES ASSUME IInv, Rotate PROVE IInv' OBVIOUS
<1>1. /\ printer' = printer /\ op' = op /\ cut' = cut /\ reseat' = reseat /\ swap' = swap
      /\ due' = due /\ due # Nothing /\ rest' = FALSE /\ newest' = newest
      /\ phase' = phase /\ shown' = shown
  BY DEF Rotate, Log!Rotate, firmware, requests
<1>2. PICK n \in 0 .. Len(unread) :
        /\ unread' = SubSeq(unread, 1, n)
        /\ place' = IF n < Len(unread) /\ place = "unread" THEN "missed" ELSE place
  BY DEF Rotate, Log!Rotate
<1>3. unread \in Seq(Event) /\ Len(unread) \in Nat BY LenProperties DEF IInv, TypeOK
<1>4. /\ unread' \in Seq(Event) /\ Len(unread') = n
      /\ \A k \in 1 .. n : k \in 1 .. Len(unread) /\ unread'[k] = unread[k]
      /\ n = Len(unread) => unread' = unread
  BY <1>2, <1>3, Kept
<1>5. TypeOK'
  <2>1. place' \in {"unread", "applied", "missed"} BY <1>2 DEF IInv, TypeOK
  <2> QED BY <1>1, <1>4, <2>1 DEF IInv, TypeOK
<1>6. LinesOwn' BY <1>1, <1>4 DEF IInv, LinesOwn, Own
<1>7. DueTrue' /\ NewestTrue' /\ ShownOwn'
  BY <1>1 DEF IInv, DueTrue, NewestTrue, ShownOwn, Quiet, Applied
<1>8. unread = <<>> => unread' = <<>>
  <2> SUFFICES ASSUME unread = <<>> PROVE unread' = <<>> OBVIOUS
  <2>1. Len(unread) = 0 BY EmptySeq
  <2>2. n = Len(unread) BY <2>1
  <2> QED BY <1>4, <2>2
<1>9. Reading'
  <2>1. ASSUME place' = "unread" PROVE unread' = unread /\ place = "unread"
    <3>1. ~(n < Len(unread)) /\ place = "unread" BY <1>2, <2>1
    <3>2. n = Len(unread) BY <1>3, <3>1
    <3> QED BY <1>4, <3>1, <3>2
  <2> QED BY <1>1, <1>8, <2>1 DEF IInv, Reading
<1>10. ShownTrue'
  <2>1. place' = "applied" => place = "applied" BY <1>2
  <2> QED BY <1>1, <1>8, <2>1 DEF IInv, ShownTrue, Applied
<1>11. SureFree'
  <2> SUFFICES ASSUME swap.leg = "sure" PROVE SureFree' BY <1>1 DEF IInv, SureFree
  <2>1. /\ swap.head \in Heads /\ phase = "running" /\ ~Busy(swap.head)
        /\ printer.source[swap.head] = "free"
        /\ \A k \in 1 .. Len(unread) : unread[k].state.source[swap.head] = "free"
    BY DEF IInv, SureFree, StillFree
  <2>2. StillFree' BY <1>1, <1>4, <2>1 DEF StillFree
  <2> QED BY <1>1, <2>1, <2>2 DEF SureFree, Busy
<1> QED BY <1>5, <1>6, <1>7, <1>9, <1>10, <1>11 DEF IInv

LEMMA WriteInv == IInv /\ Write => IInv'
<1> SUFFICES ASSUME IInv, Write PROVE IInv' OBVIOUS
<1>1. /\ printer' = printer /\ op' = op /\ cut' = FALSE /\ reseat' = reseat
      /\ swap' = swap /\ due # Nothing /\ due' = Nothing /\ rest' = rest
      /\ newest' = due /\ shown' = shown
  BY DEF Write, Log!Write, requests
<1>2. /\ due \in Event /\ due.state = printer /\ Own(printer)
      /\ op = "none" => Applied(due).banner = "off"
  BY <1>1 DEF IInv, TypeOK, DueTrue, LinesOwn
<1>3. \/ /\ phase = "running" /\ phase' = phase /\ place' = "unread"
         /\ unread' = Append(unread, due)
      \/ /\ phase # "running" /\ place' = "missed" /\ unread' = unread
         /\ phase' \in {phase, "running"}
  BY DEF Write, Log!Write
<1>4. unread \in Seq(Event) BY DEF IInv, TypeOK
<1>5. /\ Append(unread, due) \in Seq(Event) /\ Append(unread, due) # <<>>
      /\ Len(unread) \in Nat /\ Len(Append(unread, due)) = Len(unread) + 1
      /\ Append(unread, due)[Len(unread) + 1] = due
      /\ \A k \in 1 .. Len(unread) : Append(unread, due)[k] = unread[k]
  BY <1>2, <1>4, Written
<1>6. TypeOK' BY <1>1, <1>2, <1>3, <1>5 DEF IInv, TypeOK
<1>7. \A k \in 1 .. Len(unread') :
        unread'[k] = due \/ (k \in 1 .. Len(unread) /\ unread'[k] = unread[k])
  <2>1. CASE unread' = unread BY <2>1
  <2>2. CASE unread' = Append(unread, due)
    <3> SUFFICES ASSUME NEW k \in 1 .. Len(unread) + 1
                 PROVE  Append(unread, due)[k] = due
                          \/ (k \in 1 .. Len(unread) /\ Append(unread, due)[k] = unread[k])
      BY <1>5, <2>2
    <3> QED BY <1>5
  <2> QED BY <1>3, <2>1, <2>2
<1>8. LinesOwn' BY <1>1, <1>2, <1>7 DEF IInv, LinesOwn, Own
<1>9. DueTrue' BY <1>1 DEF DueTrue
<1>10. NewestTrue' BY <1>1, <1>2 DEF NewestTrue, Quiet, Applied
<1>11. Reading'
  <2>1. place' = "unread" => unread' # <<>> /\ unread'[Len(unread')] = due
    BY <1>3, <1>5
  <2>2. phase' # "running" => unread' = <<>> BY <1>3 DEF IInv, Reading
  <2> QED BY <1>1, <2>1, <2>2 DEF Reading
<1>12. ShownTrue' /\ ShownOwn' BY <1>3 DEF ShownTrue, ShownOwn
<1>13. SureFree'
  <2> SUFFICES ASSUME swap.leg = "sure" PROVE SureFree' BY <1>1 DEF IInv, SureFree
  <2>1. /\ swap.head \in Heads /\ phase = "running" /\ ~Busy(swap.head)
        /\ printer.source[swap.head] = "free"
        /\ \A k \in 1 .. Len(unread) : unread[k].state.source[swap.head] = "free"
    BY DEF IInv, SureFree, StillFree
  <2>2. \A k \in 1 .. Len(unread') : unread'[k].state.source[swap.head] = "free"
    BY <1>2, <1>7, <2>1
  <2>3. StillFree' BY <1>1, <2>1, <2>2 DEF StillFree
  <2> QED BY <1>1, <1>3, <2>1, <2>3 DEF SureFree, Busy
<1> QED BY <1>6, <1>8, <1>9, <1>10, <1>11, <1>12, <1>13 DEF IInv

LEMMA SpoilInv == IInv /\ Spoil => IInv'
<1> SUFFICES ASSUME IInv, Spoil PROVE IInv' OBVIOUS
<1>1. /\ printer' = printer /\ op' = op /\ cut' = TRUE /\ reseat' = reseat
      /\ swap' = swap /\ due' = Nothing /\ rest' = FALSE /\ newest' = newest
      /\ place' = place /\ unread' = unread /\ phase' = phase /\ shown' = shown
  BY DEF Spoil, Log!Spoil, requests
<1>2. TypeOK' BY <1>1 DEF IInv, TypeOK
<1>3. LinesOwn' /\ Reading' /\ ShownTrue'
  BY <1>1 DEF IInv, LinesOwn, Reading, ShownTrue, Own, Applied
<1>4. DueTrue' /\ NewestTrue' /\ ShownOwn'
  BY <1>1 DEF DueTrue, NewestTrue, ShownOwn, Quiet
<1>5. SureFree' BY <1>1 DEF IInv, SureFree, StillFree, Busy
<1> QED BY <1>2, <1>3, <1>4, <1>5 DEF IInv

(* A console that has gone has read nothing and asked for nothing.         *)
LEMMA ForgetsInv ==
  ASSUME IInv, Log!Forgets, reseat' = "none", swap' = NoSwap, newest' = newest,
         rest' \in BOOLEAN, due' \in Event \cup {Nothing}, cut' \in BOOLEAN,
         op' \in {"none", "switch", "target"},
         printer' \in Printer, Own(printer'), DueTrue', NewestTrue'
  PROVE  IInv'
<1>1. phase' = "down" /\ unread' = <<>> /\ place' = "missed" /\ shown' = Default
  BY DEF Log!Forgets
<1>2. Default \in Known BY DEF Default, Known, Printer
<1>3. NoSwap \in Swaps BY DEF NoSwap, Swaps
<1>4. unread' \in Seq(Event) BY <1>1
<1>5. TypeOK' BY <1>1, <1>2, <1>3, <1>4 DEF IInv, TypeOK, Swaps
<1>6. LinesOwn' BY <1>1 DEF IInv, LinesOwn, Own
<1>7. Reading' /\ ShownTrue' /\ ShownOwn' /\ SureFree'
  BY <1>1 DEF Reading, ShownTrue, ShownOwn, SureFree, NoSwap
<1> QED BY <1>5, <1>6, <1>7 DEF IInv

LEMMA PowerLossInv == IInv /\ PowerLoss => IInv'
<1> SUFFICES ASSUME IInv, PowerLoss PROVE IInv' OBVIOUS
<1>1. PICK a \in {printer.active, First} :
        /\ printer' = [printer EXCEPT !.active = a, !.gates = Nothing]
        /\ cut' = (cut \/ op # "none" \/ a # printer.active \/ due # Nothing)
  BY DEF PowerLoss
<1>2. a \in Aces BY DEF IInv, TypeOK, Printer
<1>3. printer' \in Printer /\ Own(printer') /\ printer'.active = a
  BY <1>1, <1>2, Moved
<1>4. /\ Log!Forgets /\ due' = Nothing /\ newest' = newest /\ op' = "none"
      /\ reseat' = "none" /\ swap' = NoSwap
      /\ rest' \in {rest, rest \/ due # Nothing}
  BY DEF PowerLoss, Log!PowerLoss
<1>5. rest' \in BOOLEAN /\ cut' \in BOOLEAN BY <1>1, <1>4 DEF IInv, TypeOK
<1>6. DueTrue' BY <1>4 DEF DueTrue
<1>7. NewestTrue'
  <2>1. ~cut' => Quiet /\ a = printer.active BY <1>1 DEF Quiet
  <2> QED BY <1>3, <1>4, <2>1 DEF IInv, NewestTrue, Quiet, Applied
<1> QED BY <1>3, <1>4, <1>5, <1>6, <1>7, ForgetsInv
-----------------------------------------------------------------------------
(* The steps of the console.                                               *)

LEMMA BootInv == IInv /\ Boot => IInv'
<1> SUFFICES ASSUME IInv, Boot PROVE IInv' OBVIOUS
<1>1. /\ printer' = printer /\ op' = op /\ cut' = cut /\ reseat' = reseat /\ swap' = swap
      /\ due' = due /\ rest' = rest /\ newest' = newest /\ unread' = unread
      /\ phase = "down" /\ phase' = "starting"
  BY DEF Boot, Log!Boot, firmware, requests
<1>2. unread = <<>> BY <1>1 DEF IInv, Reading
<1>3. LinesOwn' /\ DueTrue' /\ NewestTrue'
  BY <1>1 DEF IInv, LinesOwn, DueTrue, NewestTrue, Quiet, Own, Applied
<1>4. SureFree' BY <1>1 DEF IInv, SureFree
<1>5. CASE newest # Nothing /\ place' = "applied"
             /\ shown' = [e \in Event |-> Applied(e)][newest]
  <2>1. newest \in Event BY <1>5 DEF IInv, TypeOK
  <2>2. shown' = Applied(newest) BY <1>5, <2>1
  <2>3. shown' \in Known /\ shown'.state = newest.state BY <2>1, <2>2, AppliedTyped
  <2>4. Own(newest.state) BY <1>5 DEF IInv, LinesOwn
  <2>5. TypeOK' BY <1>1, <1>5, <2>3 DEF IInv, TypeOK
  <2>6. Reading' BY <1>1, <1>2, <1>5 DEF Reading
  <2>7. ShownTrue' BY <1>1, <1>2, <1>5, <2>2, <2>3 DEF ShownTrue, Applied
  <2>8. ShownOwn' BY <2>3, <2>4 DEF ShownOwn, Own
  <2> QED BY <1>3, <1>4, <2>5, <2>6, <2>7, <2>8 DEF IInv
<1>6. CASE UNCHANGED <<shown, place>>
  <2>1. TypeOK' BY <1>1, <1>6 DEF IInv, TypeOK
  <2>2. Reading' /\ ShownTrue' /\ ShownOwn'
    BY <1>1, <1>2, <1>6 DEF IInv, Reading, ShownTrue, ShownOwn, Quiet, Own, Applied
  <2> QED BY <1>3, <1>4, <2>1, <2>2 DEF IInv
<1> QED BY <1>5, <1>6 DEF Boot, Log!Boot

LEMMA OpenInv == IInv /\ Open => IInv'
<1> SUFFICES ASSUME IInv, Open PROVE IInv' OBVIOUS
<1>1. /\ printer' = printer /\ op' = op /\ cut' = cut /\ reseat' = reseat /\ swap' = swap
      /\ due' = due /\ rest' = rest /\ newest' = newest /\ unread' = unread
      /\ place' = place /\ shown' = shown /\ phase = "starting" /\ phase' = "running"
  BY DEF Open, Log!Open, firmware, requests
<1>2. TypeOK' BY <1>1 DEF IInv, TypeOK
<1>3. LinesOwn' /\ DueTrue' /\ NewestTrue' /\ Reading' /\ ShownTrue' /\ ShownOwn' /\ SureFree'
  BY <1>1 DEF IInv, LinesOwn, DueTrue, NewestTrue, Reading, ShownTrue, ShownOwn, SureFree,
              Quiet, Own, Applied
<1> QED BY <1>2, <1>3 DEF IInv

LEMMA ReadLineInv == IInv /\ ReadLine => IInv'
<1> SUFFICES ASSUME IInv, ReadLine PROVE IInv' OBVIOUS
<1>1. /\ printer' = printer /\ op' = op /\ cut' = cut /\ reseat' = reseat /\ swap' = swap
      /\ due' = due /\ rest' = rest /\ newest' = newest /\ phase' = phase
      /\ phase = "running" /\ unread # <<>> /\ unread' = Tail(unread)
      /\ shown' = [e \in Event |-> Applied(e)][Head(unread)]
      /\ place' = IF place = "unread" /\ Len(unread) = 1 THEN "applied" ELSE place
  BY DEF ReadLine, Log!Read, firmware, requests
<1>2. /\ Head(unread) \in Event /\ Head(unread) = unread[1]
      /\ Tail(unread) \in Seq(Event) /\ Len(unread) \in Nat \ {0}
      /\ Len(Tail(unread)) = Len(unread) - 1
      /\ \A k \in 1 .. Len(unread) - 1 : Tail(unread)[k] = unread[k + 1]
      /\ Len(unread) = 1 => Tail(unread) = <<>>
  BY <1>1, ReadOff DEF IInv, TypeOK
<1>3. shown' = Applied(unread[1]) /\ shown' \in Known /\ shown'.state = unread[1].state
  BY <1>1, <1>2, AppliedTyped
<1>4. place' \in {"unread", "applied", "missed"} BY <1>1 DEF IInv, TypeOK
<1>5. TypeOK' BY <1>1, <1>2, <1>3, <1>4 DEF IInv, TypeOK
<1>6. \A k \in 1 .. Len(unread') : k + 1 \in 1 .. Len(unread) /\ unread'[k] = unread[k + 1]
  BY <1>1, <1>2
<1>7. LinesOwn' BY <1>1, <1>6 DEF IInv, LinesOwn, Own
<1>8. DueTrue' /\ NewestTrue' BY <1>1 DEF IInv, DueTrue, NewestTrue, Quiet, Applied
<1>9. place # "applied" BY <1>1 DEF IInv, ShownTrue
<1>10. Reading'
  <2>1. ASSUME place' = "unread"
        PROVE  unread' # <<>> /\ newest # Nothing /\ unread'[Len(unread')] = newest
    <3>1. place = "unread" /\ Len(unread) # 1 BY <1>1, <2>1
    <3>2. Len(unread) - 1 \in 1 .. Len(unread) - 1
          /\ (Len(unread) - 1) + 1 = Len(unread)
      <4> DEFINE n == Len(unread)
      <4>1. n \in Nat \ {0} /\ n # 1 BY <1>2, <3>1
      <4> HIDE DEF n
      <4>2. n - 1 \in 1 .. n - 1 /\ (n - 1) + 1 = n BY <4>1
      <4> QED BY <4>2 DEF n
    <3>3. Tail(unread)[Len(unread) - 1] = unread[Len(unread)]
      BY <1>2, <3>2
    <3>4. unread[Len(unread)] = newest /\ newest # Nothing BY <3>1 DEF IInv, Reading
    <3>5. Tail(unread) # <<>>
      <4> DEFINE s == Tail(unread)
      <4>1. Len(s) = Len(unread) - 1 /\ Len(unread) \in Nat \ {0, 1} BY <1>2, <3>1
      <4> HIDE DEF s
      <4>2. Len(s) # 0 BY <4>1
      <4>3. s # <<>> BY <4>2, EmptySeq
      <4> QED BY <4>3 DEF s
    <3> QED BY <1>1, <1>2, <3>3, <3>4, <3>5
  <2> QED BY <1>1, <2>1 DEF Reading
<1>11. ASSUME place' = "applied"
       PROVE  unread' = <<>> /\ unread[1] = newest /\ newest # Nothing
  <2>1. place = "unread" /\ Len(unread) = 1 BY <1>1, <1>9, <1>11
  <2> QED BY <1>1, <1>2, <2>1 DEF IInv, Reading
<1>12. ShownTrue' BY <1>1, <1>3, <1>11 DEF ShownTrue, Applied
<1>13. ShownOwn'
  <2>1. Own(unread[1].state) BY <1>2 DEF IInv, LinesOwn
  <2> QED BY <1>3, <2>1 DEF ShownOwn, Own
<1>14. SureFree'
  <2> SUFFICES ASSUME swap.leg = "sure"
               PROVE  phase' = "running" /\ ~Busy(swap.head)' /\ StillFree'
    BY <1>1 DEF IInv, SureFree
  <2>1. /\ swap.head \in Heads /\ printer.source[swap.head] = "free"
        /\ \A k \in 1 .. Len(unread) : unread[k].state.source[swap.head] = "free"
    BY DEF IInv, SureFree, StillFree
  <2>2. unread[1].state.source[swap.head] = "free" BY <1>2, <2>1
  <2>3. ~Busy(swap.head)' BY <1>1, <1>3, <2>2 DEF Busy
  <2>4. StillFree' BY <1>1, <1>6, <2>1 DEF StillFree
  <2> QED BY <1>1, <2>1, <2>3, <2>4
<1> QED BY <1>5, <1>7, <1>8, <1>10, <1>12, <1>13, <1>14 DEF IInv

LEMMA DiesInv == IInv /\ Dies => IInv'
<1> SUFFICES ASSUME IInv, Dies PROVE IInv' OBVIOUS
<1>1. /\ printer' = printer /\ op' = op /\ cut' = cut /\ newest' = newest
      /\ rest' = rest /\ due' = due /\ reseat' = "none" /\ swap' = NoSwap
      /\ Log!Forgets
  BY DEF Dies, Log!Dies, firmware
<1>2. DueTrue' /\ NewestTrue'
  BY <1>1 DEF IInv, DueTrue, NewestTrue, Quiet, Applied
<1>3. printer' \in Printer /\ Own(printer') BY <1>1 DEF IInv, TypeOK, LinesOwn
<1>4. /\ rest' \in BOOLEAN /\ due' \in Event \cup {Nothing} /\ cut' \in BOOLEAN
      /\ op' \in {"none", "switch", "target"}
  BY <1>1 DEF IInv, TypeOK
<1> QED BY <1>1, <1>2, <1>3, <1>4, ForgetsInv
-----------------------------------------------------------------------------
(* The requests.                                                           *)

LEMMA ReseatInv ==
  ASSUME IInv, UNCHANGED <<firmware, log, console, swap>>,
         reseat' \in {"none", "asked", "settling"}
  PROVE  IInv'
<1>1. TypeOK' BY DEF IInv, TypeOK, firmware, log, console
<1>2. /\ LinesOwn' /\ DueTrue' /\ NewestTrue' /\ Reading' /\ ShownTrue' /\ ShownOwn'
      /\ SureFree'
  BY DEF IInv, LinesOwn, DueTrue, NewestTrue, Reading, ShownTrue, ShownOwn, SureFree,
         Quiet, Own, Applied, StillFree, Busy, firmware, log, console
<1> QED BY <1>1, <1>2 DEF IInv

LEMMA ReseatReadBackInv == IInv /\ ReseatReadBack => IInv'
<1> SUFFICES ASSUME IInv, ReseatReadBack PROVE IInv' OBVIOUS
<1> DEFINE s == [shown.state EXCEPT !.gates = printer.gates]
<1>1. /\ shown \in Known /\ shown.state \in Printer /\ printer.gates \in Aces \cup {Nothing}
      /\ Own(printer)
  BY DEF IInv, TypeOK, Known, Printer, LinesOwn
<1>2. /\ s \in Printer /\ s.gates = printer.gates /\ s.active = shown.state.active
      /\ s.source = shown.state.source
  BY <1>1 DEF Printer
<1>3. CASE shown' = shown
  BY <1>3, ReseatInv DEF ReseatReadBack, console
<1>4. CASE shown' = [shown EXCEPT !.state = [@ EXCEPT !.gates = printer.gates]]
  <2>1. shown' = [shown EXCEPT !.state = s] BY <1>4
  <2> HIDE DEF s
  <2>2. shown' \in Known /\ shown'.state = s /\ shown'.banner = shown.banner
    BY <1>1, <1>2, <2>1 DEF Known
  <2>3. /\ printer' = printer /\ op' = op /\ cut' = cut /\ newest' = newest
        /\ due' = due /\ rest' = rest /\ place' = place /\ unread' = unread
        /\ phase' = phase /\ swap' = swap /\ reseat' = "none" /\ due = Nothing
    BY DEF ReseatReadBack, firmware, log
  <2>4. TypeOK' BY <2>2, <2>3 DEF IInv, TypeOK
  <2>5. LinesOwn' /\ DueTrue' /\ NewestTrue' /\ Reading'
    BY <2>3 DEF IInv, LinesOwn, DueTrue, NewestTrue, Reading, Quiet, Own, Applied
  <2>6. ShownTrue' BY <1>2, <2>2, <2>3 DEF IInv, ShownTrue, Applied
  <2>7. ShownOwn'
    <3> SUFFICES ASSUME place = "applied", Quiet PROVE Own(s)
      BY <2>2, <2>3 DEF ShownOwn, Quiet, Own
    <3>1. shown.state.active = printer.active
      BY DEF IInv, ShownTrue, NewestTrue
    <3> QED BY <1>1, <1>2, <3>1 DEF Own
  <2>8. SureFree'
    BY <1>2, <2>2, <2>3 DEF IInv, SureFree, StillFree, Busy
  <2> QED BY <2>4, <2>5, <2>6, <2>7, <2>8 DEF IInv
<1> QED BY <1>3, <1>4 DEF ReseatReadBack

(* A step of the browser's swap: the head it is sure of it has just seen.  *)
LEMMA SwapInv ==
  ASSUME IInv, UNCHANGED <<firmware, log, console, reseat>>, swap' \in Swaps,
         swap'.leg # "none" => swap'.head \in Heads,
         swap'.leg = "sure" =>
           /\ swap'.head = swap.head
           /\ phase = "running" /\ ~Busy(swap.head) /\ StillFree
  PROVE  IInv'
<1>1. TypeOK' BY DEF IInv, TypeOK, Swaps, firmware, log, console
<1>2. LinesOwn' /\ DueTrue' /\ NewestTrue' /\ Reading' /\ ShownTrue' /\ ShownOwn'
  BY DEF IInv, LinesOwn, DueTrue, NewestTrue, Reading, ShownTrue, ShownOwn, Quiet, Own,
         Applied, firmware, log, console
<1>3. SureFree'
  BY DEF SureFree, StillFree, Busy, firmware, log, console
<1> QED BY <1>1, <1>2, <1>3 DEF IInv

LEMMA BrowserInv ==
  IInv /\ \/ \E h \in Heads : SwapStart(h)
          \/ SwapSees \/ SwapDeadline \/ SwapLoads
          \/ \E a \in Aces : SwapRefused(a)
  => IInv'
<1>s. ASSUME IInv PROVE swap \in Swaps BY <1>s DEF IInv, TypeOK, Swaps
<1>n. NoSwap \in Swaps /\ NoSwap.leg = "none" BY DEF NoSwap, Swaps
<1>1. ASSUME IInv, NEW h \in Heads, SwapStart(h) PROVE IInv'
  BY <1>1, SwapInv DEF SwapStart, Browser, Swaps
<1>2. ASSUME IInv, SwapSees PROVE IInv'
  <2>1. swap \in Swaps /\ swap.leg = "wait" /\ phase = "running" /\ ~Busy(swap.head)
    BY <1>2, <1>s DEF SwapSees, Browser
  <2>2. swap' \in Swaps /\ swap'.head = swap.head /\ (swap'.leg = "sure" => StillFree)
    BY <1>2, <2>1 DEF SwapSees, Swaps
  <2>3. swap.head \in Heads BY <1>2, <2>1, WaitsForHead
  <2> QED BY <1>2, <2>1, <2>2, <2>3, SwapInv DEF SwapSees, Browser
<1>3. ASSUME IInv, SwapDeadline PROVE IInv'
  <2>1. /\ swap' \in Swaps /\ swap'.leg = "load" /\ swap'.head = swap.head
        /\ swap.leg = "wait"
    BY <1>3, <1>s DEF SwapDeadline, Swaps
  <2> QED BY <1>3, <2>1, WaitsForHead, SwapInv DEF SwapDeadline, Browser
<1>4. ASSUME IInv, SwapLoads PROVE IInv'
  BY <1>4, <1>n, SwapInv DEF SwapLoads, Browser
<1>5. ASSUME IInv, NEW a \in Aces, SwapRefused(a) PROVE IInv'
  BY <1>5, <1>n, SwapInv DEF SwapRefused, Browser
<1> QED BY <1>1, <1>2, <1>3, <1>4, <1>5

LEMMA RequestsInv == IInv /\ Requests => IInv'
<1> SUFFICES ASSUME IInv, Requests PROVE IInv' OBVIOUS
<1>1. CASE \E a \in Aces : ReseatAsk(a) BY <1>1, ReseatInv DEF ReseatAsk
<1>2. CASE ReseatRetract BY <1>2, ReseatInv DEF ReseatRetract
<1>3. CASE ReseatReadBack BY <1>3, ReseatReadBackInv
<1>4. CASE SwapUnload
  <2>1. swap.head \in Heads BY <1>4, WaitsForHead DEF SwapUnload
  <2> QED BY <1>4, <2>1, UnloadInv, HeadFailsInv DEF SwapUnload
<1> QED BY <1>1, <1>2, <1>3, <1>4, BrowserInv DEF Requests
-----------------------------------------------------------------------------
LEMMA NextInv == IInv /\ [Next]_vars => IInv'
<1> SUFFICES ASSUME IInv, [Next]_vars PROVE IInv' OBVIOUS
<1>1. CASE Firmware
  BY <1>1, LoadInv, FeedInv, UnloadInv, HeadFailsInv, BeginChangeInv, MovesInv,
     EndChangeInv, SerialTroubleInv, HeartbeatInv, RestartInv DEF Firmware
<1>5. CASE LogSteps
  BY <1>5, RotateInv, WriteInv, SpoilInv, PowerLossInv DEF LogSteps
<1>2. CASE Console
  BY <1>2, BootInv, OpenInv, ReadLineInv, DiesInv DEF Console
<1>3. CASE Requests BY <1>3, RequestsInv
<1>4. CASE UNCHANGED vars
  <2>1. reseat' = reseat /\ UNCHANGED <<firmware, log, console, swap>>
    BY <1>4 DEF vars, requests
  <2>2. reseat' \in {"none", "asked", "settling"} BY <2>1 DEF IInv, TypeOK
  <2> QED BY <2>1, <2>2, ReseatInv
<1> QED BY <1>1, <1>2, <1>3, <1>4, <1>5 DEF Next

(* The console's state has the shape of the printer's, whatever it reads   *)
(* and in whatever order it dies and starts (CurrentState).                *)
THEOREM TypeCorrect == Spec => []TypeOK
<1>1. IInv => TypeOK BY DEF IInv
<1> QED BY InitInv, NextInv, <1>1, PTL DEF Spec

(* The banner of a switch ends with it (_SWITCH_TERMINAL_ACTIONS).         *)
THEOREM BannerCorrect == Spec => []BannerEnds
<1>1. IInv => BannerEnds
  BY DEF IInv, BannerEnds, Settled, ShownTrue, NewestTrue, Quiet
<1> QED BY InitInv, NextInv, <1>1, PTL DEF Spec

(* A console that has caught up knows the active ACE (_audit_state,        *)
(* apply_event, _bootstrap_state_from_log).                                *)
THEOREM ActiveCorrect == Spec => []KnowsActive
<1>1. IInv => KnowsActive
  BY DEF IInv, KnowsActive, Settled, ShownTrue, NewestTrue, Quiet
<1> QED BY InitInv, NextInv, <1>1, PTL DEF Spec

(* It shows the gates of that ACE and of no other, also when a reseating   *)
(* has written to it (reseat_slot).                                        *)
THEOREM GatesCorrect == Spec => []GatesOfActive
<1>1. IInv => GatesOfActive
  BY DEF IInv, GatesOfActive, Settled, ShownOwn, Quiet, Own
<1> QED BY InitInv, NextInv, <1>1, PTL DEF Spec

(* A swap that has seen the head free is not refused for it                *)
(* (_waitForSwapLeg1Propagation, _preflight_load_head).                    *)
THEOREM SwapCorrect == Spec => []SwapGoesOn
<1>1. IInv => SwapGoesOn BY DEF IInv, SwapGoesOn, SureFree
<1> QED BY InitInv, NextInv, <1>1, PTL DEF Spec

=============================================================================
