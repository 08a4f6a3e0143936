--------------------------- MODULE AceLinkProofs ---------------------------
(***************************************************************************)
(* Theorems about AceLink, for any number of ACEs.                         *)
(***************************************************************************)
EXTENDS AceLink, TLAPS

\* A link record whose live handle, if the link counts as connected, is the
\* active ACE's, and which is then polled.
Sound(l) ==
  /\ l \in LinkType
  /\ l.beat = l.connected
  /\ l.connected /\ l.serial \in Ace =>
       l.serial = l.active /\ l.handle[l.active] # "none"

\* Where the G-code greenlet stands says which ACE is active and recorded.
OpInv ==
  /\ op.pc \in SwitchPc \cup HeadPc => op.target \in Ace
  /\ op.pc = "scan" => op.old = link.active
  /\ op.pc = "scan" /\ link.failed => ~link.connected
  /\ op.pc = "wait" => op.old \in Ace /\ link.active = saved

\* Known gates came from the active ACE or from the recorded one.
GateInv == GatesFromSwitch

IInv == TypeOK /\ Sound(link) /\ OpInv /\ GateInv

-----------------------------------------------------------------------------
(* The helpers on link records: what they return and what they leave alone. *)

\* Closing, releasing and arming keep a link sound, for any active ACE.
LEMMA ClosedSound ==
  ASSUME NEW l \in LinkType, l.beat = l.connected
  PROVE  /\ Sound(HardClosed(l))
         /\ ~HardClosed(l).connected
         /\ HardClosed(l).active = l.active
         /\ HardClosed(l).failed = l.failed
BY AceAssumption DEF LinkType, HardClosed, Sound, HandleState

LEMMA ArmedSound ==
  ASSUME NEW l, Sound(l)
  PROVE  /\ Sound(Armed(l))
         /\ Armed(l).connected = l.connected
         /\ Armed(l).active = l.active
         /\ Armed(l).failed = l.failed
<1>1. l \in LinkType /\ l.strays \in Nat /\ l.strays <= MaxStrays
  BY AceAssumption DEF Sound, LinkType
<1>2. (IF l.retry /\ l.strays < MaxStrays THEN l.strays + 1 ELSE l.strays)
        \in 0 .. MaxStrays
  BY <1>1, AceAssumption
<1>3. Armed(l) \in LinkType
  BY <1>1, <1>2 DEF LinkType, Armed
<1>4. /\ Armed(l).connected = l.connected
      /\ Armed(l).active = l.active
      /\ Armed(l).failed = l.failed
      /\ Armed(l).beat = l.beat
      /\ Armed(l).serial = l.serial
      /\ Armed(l).handle = l.handle
  BY <1>1 DEF LinkType, Armed
<1>5. QED
  BY <1>3, <1>4 DEF Sound

\* A connection attempt keeps a link sound; it may even start from a link that
\* moved to another ACE while it counted as connected.
LEMMA OpenedSound ==
  ASSUME NEW l \in LinkType
  PROVE  /\ Sound(Opened(l))
         /\ Opened(l).active = l.active
         /\ Opened(l).failed = l.failed
BY AceAssumption DEF LinkType, Opened, Sound, HandleState

LEMMA AttemptedSound ==
  ASSUME NEW l \in LinkType, l.beat = l.connected,
         l.failed => Sound(l)
  PROVE  /\ Sound(Attempted(l))
         /\ Attempted(l).active = l.active
         /\ Attempted(l).failed = l.failed
         /\ l.failed => Attempted(l) = l
<1>1. CASE l.failed
  BY <1>1 DEF Attempted
<1>2. CASE ~l.failed /\ CanOpen(l)
  BY <1>2, OpenedSound DEF Attempted
<1>3. CASE ~l.failed /\ ~CanOpen(l)
  BY <1>3, AceAssumption DEF Attempted, Sound, LinkType
<1>4. QED
  BY <1>1, <1>2, <1>3

LEMMA ArmedNowSound ==
  ASSUME NEW l \in LinkType, l.beat = l.connected,
         l.failed => Sound(l)
  PROVE  /\ Sound(ArmedNow(l))
         /\ ArmedNow(l).active = l.active
         /\ ArmedNow(l).failed = l.failed
         /\ l.failed => ArmedNow(l).connected = l.connected
<1>1. Armed(l) \in LinkType /\ Armed(l).beat = Armed(l).connected
  <2>1. l.strays \in 0 .. MaxStrays
    BY DEF LinkType
  <2>2. (IF l.retry /\ l.strays < MaxStrays THEN l.strays + 1 ELSE l.strays)
          \in 0 .. MaxStrays
    BY <2>1, AceAssumption
  <2>3. QED
    BY <2>2 DEF LinkType, Armed
<1>2. Armed(l).active = l.active /\ Armed(l).failed = l.failed
  BY DEF LinkType, Armed
<1>3. CASE l.failed
  <2>1. Sound(Armed(l)) /\ Armed(l).connected = l.connected
    BY <1>3, ArmedSound
  <2>2. ArmedNow(l) = [Armed(l) EXCEPT !.retry = FALSE]
    BY <1>3 DEF ArmedNow
  <2>3. QED
    BY <1>2, <2>1, <2>2 DEF Sound, LinkType
<1>4. CASE ~l.failed
  <2>1. ArmedNow(l) = Attempted(Armed(l))
    BY <1>4 DEF ArmedNow
  <2>2. Sound(Attempted(Armed(l)))
        /\ Attempted(Armed(l)).active = Armed(l).active
        /\ Attempted(Armed(l)).failed = Armed(l).failed
    BY <1>1, <1>2, <1>4, AttemptedSound
  <2>3. QED
    BY <1>2, <1>4, <2>1, <2>2
<1>5. QED
  BY <1>3, <1>4

LEMMA FailedSound ==
  ASSUME NEW l, Sound(l)
  PROVE  /\ Sound(Failed(l))
         /\ Failed(l).active = l.active
         /\ Failed(l).failed
         /\ Failed(l).connected => l.connected /\ l.failed
<1>1. Sound(HardClosed(l)) /\ ~HardClosed(l).connected
      /\ HardClosed(l).active = l.active
  BY ClosedSound DEF Sound
<1>2. QED
  BY <1>1 DEF Failed, Sound, LinkType

LEMMA DroppedSound ==
  ASSUME NEW l, Sound(l)
  PROVE  /\ Sound(Dropped(l))
         /\ Dropped(l).active = l.active
         /\ Dropped(l).failed = l.failed
         /\ ~Dropped(l).connected
BY ClosedSound DEF Dropped, Sound

\* The four ways a switch moves the live link.
LEMMA PromotedSound ==
  ASSUME NEW l, Sound(l), NEW t \in Ace, l.handle[t] # "none"
  PROVE  /\ Sound(Promoted(l, t))
         /\ Promoted(l, t).active = t
         /\ Promoted(l, t).failed = l.failed
BY DEF Promoted, Sound, LinkType

LEMMA RestoredSound ==
  ASSUME NEW l, Sound(l), NEW o \in Ace, l.handle[o] # "none"
  PROVE  Sound(Restored(l, o)) /\ Restored(l, o).active = o
BY DEF Restored, Sound, LinkType

LEMMA ReleasedSound ==
  ASSUME NEW l, Sound(l)
  PROVE  /\ Sound(Released(l))
         /\ Released(l).active = l.active
         /\ ~Released(l).connected
BY DEF Released, Sound, LinkType

LEMMA MovedSound ==
  ASSUME NEW l, Sound(l), NEW t \in Ace, l.failed => ~l.connected
  PROVE  LET m == [l EXCEPT !.active = t]
         IN  /\ m \in LinkType
             /\ m.beat = m.connected
             /\ m.failed = l.failed
             /\ m.active = t
             /\ m.failed => Sound(m)
BY DEF Sound, LinkType

-----------------------------------------------------------------------------
(* The invariant holds at start.                                           *)

LEMMA BootedSound ==
  ASSUME NEW a \in Ace
  PROVE  Sound(Opened(Booted(a))) /\ Opened(Booted(a)).active = a
<1>1. Booted(a) \in LinkType /\ Booted(a).active = a
  BY AceAssumption DEF Booted, LinkType, HandleState
<1>2. QED
  BY <1>1, OpenedSound

LEMMA InitInv == Init => IInv
<1> SUFFICES ASSUME Init PROVE IInv
  OBVIOUS
<1>1. Sound(link)
  BY BootedSound DEF Init
<1>2. TypeOK
  BY <1>1, AceAssumption
  DEF Init, TypeOK, Sound, Unseen, ViewType, Idle, Pc
<1>3. OpInv
  BY DEF Init, Idle, OpInv, SwitchPc, HeadPc
<1>4. GateInv
  BY DEF Init, Unseen, GateInv, GatesFromSwitch
<1>5. QED
  BY <1>1, <1>2, <1>3, <1>4 DEF IInv

-----------------------------------------------------------------------------
(* Every step keeps the invariant: first what the G-code greenlet does.    *)

LEMMA ViewFacts ==
  ASSUME NEW v \in ViewType
  PROVE  /\ Busy(v) \in ViewType /\ Busy(v).known = v.known
         /\ Busy(v).info = v.info
         /\ Blank(v) \in ViewType /\ ~Blank(v).known
         /\ Busy(Blank(v)) \in ViewType /\ ~Busy(Blank(v)).known
BY DEF ViewType, Busy, Blank

LEMMA OpFacts ==
  /\ Idle \in [pc: Pc, target: Ace \cup {NoAce}, old: Ace \cup {NoAce}]
  /\ Idle.pc = "idle"
  /\ \A pc \in Pc : \A t, o \in Ace \cup {NoAce} :
       /\ Doing(pc, t, o) \in [pc: Pc, target: Ace \cup {NoAce},
                               old: Ace \cup {NoAce}]
       /\ Doing(pc, t, o).pc = pc
       /\ Doing(pc, t, o).target = t
       /\ Doing(pc, t, o).old = o
BY DEF Idle, Doing, Pc

LEMMA FastPathInv ==
  ASSUME IInv, NEW t \in Ace, link.handle[t] # "none", FastPath(t)
  PROVE  IInv'
<1> DEFINE l == Promoted(link, t)
<1>1. Sound(l) /\ l.active = t
  BY PromotedSound DEF IInv
<1>2. Sound(HardClosed(l)) /\ HardClosed(l).active = t
  BY <1>1, ClosedSound DEF Sound
<1>3. Sound(link') /\ link'.active = t /\ saved' = t
  BY <1>1, <1>2 DEF FastPath
<1>4. view' \in ViewType /\ ~view'.known
  BY ViewFacts DEF FastPath, IInv, TypeOK
<1>5. /\ op' \in [pc: Pc, target: Ace \cup {NoAce}, old: Ace \cup {NoAce}]
      /\ op'.pc = "idle" \/ (op'.pc = "promote" /\ op'.target = t)
  BY OpFacts DEF FastPath, IInv, TypeOK, LinkType, Pc, SwitchPc
<1>6. TypeOK'
  BY <1>3, <1>4, <1>5 DEF FastPath, IInv, TypeOK, Sound
<1>7. OpInv'
  BY <1>5 DEF OpInv, SwitchPc, HeadPc
<1>8. QED
  BY <1>3, <1>4, <1>6, <1>7 DEF IInv, GateInv, GatesFromSwitch

LEMMA SlowPathInv ==
  ASSUME IInv, NEW t \in Ace, SlowPath(t)
  PROVE  IInv'
<1>1. Sound(link') /\ link'.active = link.active /\ ~link'.connected
  BY ReleasedSound DEF SlowPath, IInv
<1>2. /\ op' \in [pc: Pc, target: Ace \cup {NoAce}, old: Ace \cup {NoAce}]
      /\ op'.pc = "scan" /\ op'.target = t /\ op'.old = link.active
  BY OpFacts DEF SlowPath, IInv, TypeOK, LinkType, Pc, SwitchPc
<1>3. TypeOK'
  BY <1>1, <1>2 DEF SlowPath, IInv, TypeOK, Sound
<1>4. OpInv'
  BY <1>1, <1>2 DEF OpInv, SwitchPc, HeadPc
<1>5. QED
  BY <1>1, <1>3, <1>4 DEF IInv, GateInv, GatesFromSwitch, SlowPath

LEMMA TakePathInv ==
  ASSUME IInv, NEW t \in Ace, TakePath(t)
  PROVE  IInv'
BY FastPathInv, SlowPathInv DEF TakePath

LEMMA GcodeSendInv ==
  ASSUME IInv, NEW next \in {"idle", "settle", "hsettle"}, GcodeSend(next),
         op.pc \in {"cmd", "stop", "hstop"},
         next # "idle" => op.pc \in {"stop", "hstop"}
  PROVE  IInv'
<1>1. Sound(link') /\ link'.active = link.active
  BY FailedSound, DroppedSound DEF GcodeSend, IInv
<1>2. view' \in ViewType /\ view'.known = view.known /\ view'.info = view.info
  BY ViewFacts DEF GcodeSend, IInv, TypeOK
<1>3. /\ op' \in [pc: Pc, target: Ace \cup {NoAce}, old: Ace \cup {NoAce}]
      /\ \/ op' = op
         \/ op'.pc = "idle"
         \/ op'.pc = next /\ op'.target = op.target /\ next # "idle"
  BY OpFacts DEF GcodeSend, IInv, TypeOK, Pc, SwitchPc, HeadPc
<1>4. TypeOK'
  BY <1>1, <1>2, <1>3 DEF GcodeSend, IInv, TypeOK, Sound
<1>5. OpInv'
  BY <1>3 DEF IInv, OpInv, SwitchPc, HeadPc
<1>6. QED
  BY <1>1, <1>2, <1>4, <1>5
  DEF IInv, GateInv, GatesFromSwitch, GcodeSend

\* Both ways back from a slow-path switch.
LEMMA GoBackInv ==
  ASSUME IInv, NEW o \in Ace, GoBack(o),
         \/ o = link.active /\ op.pc = "scan"
         \/ ~link.connected /\ op.pc = "wait"
  PROVE  IInv'
<1> DEFINE l == [link EXCEPT !.active = o]
<1>1. /\ l \in LinkType /\ l.beat = l.connected /\ l.active = o
      /\ l.failed => Sound(l)
  BY MovedSound DEF IInv, OpInv, Sound, LinkType
<1>2. Sound(link') /\ link'.active = o
  <2>1. CASE link.handle[o] # "none"
    BY <2>1, RestoredSound DEF GoBack, IInv
  <2>2. CASE ~(link.handle[o] # "none")
    BY <1>1, <2>2, ArmedNowSound DEF GoBack
  <2>3. QED
    BY <2>1, <2>2
<1>3. view' \in ViewType /\ view'.known = view.known /\ view'.info = view.info
  BY DEF GoBack, IInv, TypeOK, ViewType, Busy
<1>4. /\ op' \in [pc: Pc, target: Ace \cup {NoAce}, old: Ace \cup {NoAce}]
      /\ op'.pc = "idle" \/ (op'.pc = "reopen" /\ op'.target = op.target)
  BY OpFacts DEF GoBack, IInv, TypeOK, Pc, SwitchPc
<1>5. TypeOK'
  BY <1>2, <1>3, <1>4 DEF GoBack, IInv, TypeOK, Sound
<1>6. OpInv'
  BY <1>4 DEF IInv, OpInv, SwitchPc, HeadPc
<1>7. GateInv'
  <2>1. saved' = saved /\ (link'.active = link.active \/ link.active = saved)
    BY <1>2 DEF GoBack, IInv, OpInv
  <2>2. QED
    BY <1>3, <2>1 DEF IInv, GateInv, GatesFromSwitch
<1>8. QED
  BY <1>2, <1>5, <1>6, <1>7 DEF IInv

LEMMA ScanFoundInv ==
  ASSUME IInv, ScanFound
  PROVE  IInv'
<1> DEFINE l == [link EXCEPT !.active = op.target]
<1>1. op.target \in Ace /\ op.old \in Ace
  BY DEF IInv, OpInv, ScanFound, InGcode, SwitchPc, TypeOK, LinkType
<1>2. /\ l \in LinkType /\ l.beat = l.connected /\ l.active = op.target
      /\ l.failed => Sound(l)
  BY <1>1, MovedSound DEF IInv, OpInv, ScanFound, InGcode
<1>3. Sound(link') /\ link'.active = op.target
  BY <1>2, ArmedNowSound DEF ScanFound
<1>4. view' \in ViewType /\ ~view'.known
  BY ViewFacts DEF ScanFound, IInv, TypeOK
<1>5. /\ op' \in [pc: Pc, target: Ace \cup {NoAce}, old: Ace \cup {NoAce}]
      /\ op'.pc = "wait" /\ op'.target = op.target /\ op'.old = op.old
  BY DEF ScanFound, IInv, TypeOK, Pc, SwitchPc
<1>6. TypeOK'
  BY <1>1, <1>3, <1>4, <1>5 DEF ScanFound, IInv, TypeOK, Sound
<1>7. OpInv'
  BY <1>1, <1>3, <1>5 DEF OpInv, ScanFound, SwitchPc, HeadPc
<1>8. QED
  BY <1>3, <1>4, <1>6, <1>7 DEF IInv, GateInv, GatesFromSwitch

LEMMA HeadPathInv ==
  ASSUME IInv, NEW t \in Ace, HeadPath(t)
  PROVE  IInv'
<1> DEFINE l == [HardClosed(link) EXCEPT !.active = t]
<1>1. /\ l \in LinkType /\ l.beat = l.connected /\ l.active = t
      /\ l.failed => Sound(l)
  <2>1. Sound(HardClosed(link)) /\ ~HardClosed(link).connected
    BY ClosedSound DEF IInv, Sound
  <2>2. QED
    BY <2>1, MovedSound
<1>2. Sound(link') /\ link'.active = t
  BY <1>1, ArmedNowSound DEF HeadPath
<1>3. view' \in ViewType /\ ~view'.known
  BY ViewFacts DEF HeadPath, IInv, TypeOK
<1>4. /\ op' \in [pc: Pc, target: Ace \cup {NoAce}, old: Ace \cup {NoAce}]
      /\ op'.pc = "hwait" /\ op'.target = t
  BY OpFacts DEF HeadPath, IInv, TypeOK, LinkType, Pc, HeadPc
<1>5. TypeOK'
  BY <1>2, <1>3, <1>4 DEF HeadPath, IInv, TypeOK, Sound
<1>6. OpInv'
  BY <1>4 DEF OpInv, SwitchPc, HeadPc
<1>7. QED
  BY <1>2, <1>3, <1>5, <1>6 DEF IInv, GateInv, GatesFromSwitch

-----------------------------------------------------------------------------
(* Steps that leave op alone or make it idle.                              *)

LEMMA LinkStepInv ==
  ASSUME IInv,
         plugged' \subseteq Ace, rec' \subseteq {"gcode", "beat"},
         assist' \in BOOLEAN, saved' = saved,
         Sound(link'), link'.active = link.active,
         link'.failed /\ ~link.failed => ~link'.connected,
         link'.connected /\ ~link.connected => ~link'.failed,
         view' \in ViewType,
         view'.known => \/ view.known /\ view'.info = view.info
                        \/ view'.info = link.active,
         \/ op' = op
         \/ op' = Idle
         \/ /\ op'.pc \in {"settle", "hsettle"}
            /\ op.pc \in SwitchPc \cup HeadPc
            /\ op' = [op EXCEPT !.pc = op'.pc]
  PROVE  IInv'
<1>1. /\ op' \in [pc: Pc, target: Ace \cup {NoAce}, old: Ace \cup {NoAce}]
      /\ \/ op' = op
         \/ op'.pc = "idle"
         \/ /\ op'.pc \in {"settle", "hsettle"} /\ op'.target = op.target
            /\ op.pc \in SwitchPc \cup HeadPc
  BY OpFacts DEF IInv, TypeOK, Pc, SwitchPc, HeadPc
<1>2. TypeOK'
  BY <1>1 DEF IInv, TypeOK, Sound
<1>3. OpInv'
  BY <1>1 DEF IInv, OpInv, Sound, LinkType, SwitchPc, HeadPc
<1>4. GateInv'
  BY DEF IInv, GateInv, GatesFromSwitch
<1>5. QED
  BY <1>2, <1>3, <1>4 DEF IInv

LEMMA ConnectTickInv ==
  ASSUME IInv, NEW current \in BOOLEAN, ConnectTick(current)
  PROVE  IInv'
<1> DEFINE fired == IF current THEN [link EXCEPT !.retry = FALSE]
                    ELSE [link EXCEPT !.strays = @ - 1]
<1>1. /\ Sound(fired) /\ fired.active = link.active
      /\ fired.failed = link.failed /\ fired.connected = link.connected
  <2>1. link.strays \in 0 .. MaxStrays
    BY DEF IInv, Sound, LinkType
  <2>2. ~current => link.strays - 1 \in 0 .. MaxStrays
    BY <2>1, AceAssumption DEF ConnectTick
  <2>3. QED
    BY <2>2 DEF IInv, Sound, LinkType
<1>2. CASE link.failed
  BY <1>1, <1>2, LinkStepInv, ViewFacts DEF ConnectTick, IInv, TypeOK
<1>3. CASE ~link.failed /\ CanOpen(link)
  <2>1. link' = Opened(fired)
    BY <1>3 DEF ConnectTick
  <2>2. Sound(link') /\ link'.active = link.active /\ ~link'.failed
    BY <1>1, <1>3, <2>1, OpenedSound DEF Sound
  <2>3. QED
    BY <1>3, <2>2, LinkStepInv, ViewFacts DEF ConnectTick, IInv, TypeOK
<1>4. CASE ~link.failed /\ ~CanOpen(link)
  <2>1. link' = Attempted(link)
    BY <1>4 DEF ConnectTick
  <2>2. Sound(link') /\ link'.active = link.active /\ ~link'.failed
    BY <1>4, <2>1, AttemptedSound DEF IInv, Sound
  <2>3. QED
    BY <1>4, <2>2, LinkStepInv DEF ConnectTick, IInv, TypeOK
<1>5. QED
  BY <1>2, <1>3, <1>4

LEMMA HeartbeatInv ==
  ASSUME IInv, Heartbeat
  PROVE  IInv'
<1>1. /\ view' \in ViewType /\ view'.known = view.known
      /\ view'.info = view.info
  BY DEF Heartbeat, IInv, TypeOK, ViewType, Busy
<1>2. /\ Sound(link') /\ link'.active = link.active
      /\ link' = link \/ ~link'.connected
  <2>1. CASE Writable(link)
    BY <2>1 DEF Heartbeat, IInv
  <2>2. CASE ~Writable(link) /\ Refused(link)
    BY <2>2, FailedSound DEF Heartbeat, IInv
  <2>3. CASE ~Writable(link) /\ ~Refused(link)
    BY <2>3, DroppedSound DEF Heartbeat, IInv
  <2>4. QED
    BY <2>1, <2>2, <2>3
<1>3. rec' \subseteq {"gcode", "beat"}
  BY DEF Heartbeat, IInv, TypeOK
<1>4. QED
  BY <1>1, <1>2, <1>3, LinkStepInv DEF Heartbeat, IInv, TypeOK

LEMMA ReplyInv ==
  ASSUME IInv, Reply
  PROVE  IInv'
<1>1. link.serial = link.active
  BY DEF Reply, Live, IInv, Sound
<1>2. view' \in ViewType /\ view'.info = link.active
  BY <1>1 DEF Reply, ViewType, IInv, Sound, LinkType
<1>3. QED
  BY <1>2, LinkStepInv DEF Reply, IInv, TypeOK

LEMMA ReadErrorInv ==
  ASSUME IInv, ReadError
  PROVE  IInv'
<1>1. Sound(HardClosed(link)) /\ ~HardClosed(link).connected
      /\ HardClosed(link).active = link.active
      /\ HardClosed(link).failed = link.failed
  BY ClosedSound DEF IInv, Sound
<1>2. Sound(link') /\ link'.active = link.active /\ ~link'.connected
  BY <1>1, ArmedSound DEF ReadError
<1>3. QED
  BY <1>2, LinkStepInv DEF ReadError, IInv, TypeOK

LEMMA KeepaliveTickInv ==
  ASSUME IInv, KeepaliveTick
  PROVE  IInv'
<1>1. /\ Sound(link') /\ link'.active = link.active
      /\ link'.failed = link.failed /\ link'.connected = link.connected
  BY DEF KeepaliveTick, IInv, Sound, LinkType, HandleState
<1>2. QED
  BY <1>1, LinkStepInv DEF KeepaliveTick, IInv, TypeOK

LEMMA RecoverInv ==
  ASSUME IInv, NEW g \in {"gcode", "beat"}, Recover(g)
  PROVE  IInv'
<1> DEFINE l  == Attempted(link)
           ok == l.connected /\ Live(l)
<1>1. Sound(l) /\ l.active = link.active /\ l.failed = link.failed
  BY AttemptedSound DEF IInv, Sound
<1>2. Sound(link') /\ link'.active = link.active
      /\ (ok => ~link'.failed) /\ (~ok => link' = Failed(l))
  <2>1. CASE ok
    BY <1>1, <2>1 DEF Recover, Sound, LinkType
  <2>2. CASE ~ok
    BY <1>1, <2>2, FailedSound DEF Recover
  <2>3. QED
    BY <2>1, <2>2
<1>3. CASE ok
  BY <1>2, <1>3, LinkStepInv
  DEF Recover, IInv, TypeOK, SwitchPc, HeadPc
<1>4. CASE ~ok
  <2>1. link'.failed /\ (link'.connected => l.connected /\ l.failed)
    BY <1>1, <1>2, <1>4, FailedSound
  <2>2. l.failed => l = link
    BY <1>1, AttemptedSound DEF IInv, Sound
  <2>3. QED
    BY <1>1, <1>2, <1>4, <2>1, <2>2, LinkStepInv DEF Recover, IInv, TypeOK
<1>5. QED
  BY <1>3, <1>4

\* The answer to the stop of the feed assist, and the timers and the USB bus,
\* disturb at most a handle of an ACE or a flag.
LEMMA UsbDropInv ==
  ASSUME IInv, NEW a \in Ace, UsbDrop(a)
  PROVE  IInv'
<1>1. /\ Sound(link') /\ link'.active = link.active
      /\ link'.failed = link.failed /\ link'.connected = link.connected
  BY DEF UsbDrop, IInv, Sound, LinkType, HandleState
<1>2. QED
  BY <1>1, LinkStepInv DEF UsbDrop, IInv, TypeOK

LEMMA UsbReturnInv ==
  ASSUME IInv, NEW a \in Ace, UsbReturn(a)
  PROVE  IInv'
BY LinkStepInv DEF UsbReturn, IInv, TypeOK

LEMMA DoPauseInv ==
  ASSUME IInv, DoPause
  PROVE  IInv'
<1>1. /\ Sound(link') /\ link'.active = link.active
      /\ link'.failed = link.failed /\ link'.connected = link.connected
  BY DEF DoPause, IInv, Sound, LinkType
<1>2. QED
  BY <1>1, LinkStepInv DEF DoPause, IInv, TypeOK

LEMMA RestartInv ==
  ASSUME IInv, Restart
  PROVE  IInv'
<1>1. Sound(link') /\ link'.active = saved
  BY BootedSound DEF Restart, IInv, TypeOK
<1>2. TypeOK'
  BY <1>1, OpFacts, AceAssumption
  DEF Restart, IInv, TypeOK, Sound, Unseen, ViewType
<1>3. OpInv'
  BY DEF Restart, Idle, OpInv, SwitchPc, HeadPc
<1>4. GateInv'
  BY DEF Restart, Unseen, GateInv, GatesFromSwitch
<1>5. QED
  BY <1>1, <1>2, <1>3, <1>4 DEF IInv

\* A step of the G-code greenlet that only moves it: a command is entered at
\* its first point, or the one it is in advances or ends.
LEMMA MoveInv ==
  ASSUME IInv, UNCHANGED <<plugged, link, view, saved, rec>>,
         assist' \in BOOLEAN,
         \/ op' = op
         \/ op' = Idle
         \/ \E pc \in {"cmd", "check", "hcheck"}, t \in Ace \cup {NoAce} :
              op' = Doing(pc, t, NoAce) /\ (pc # "cmd" => t \in Ace)
         \/ \E pc \in {"stop", "hstop"} :
              op' = [op EXCEPT !.pc = pc] /\ op.pc \in SwitchPc \cup HeadPc
  PROVE  IInv'
<1>1. /\ op' \in [pc: Pc, target: Ace \cup {NoAce}, old: Ace \cup {NoAce}]
      /\ \/ op' = op
         \/ op'.pc \in {"idle", "cmd"}
         \/ /\ op'.pc \in {"check", "hcheck", "stop", "hstop"}
            /\ op'.target \in Ace
  <2>1. CASE op' = op \/ op' = Idle
    BY <2>1, OpFacts DEF IInv, TypeOK
  <2>2. CASE \E pc \in {"cmd", "check", "hcheck"}, t \in Ace \cup {NoAce} :
               op' = Doing(pc, t, NoAce) /\ (pc # "cmd" => t \in Ace)
    BY <2>2, OpFacts DEF Pc, SwitchPc, HeadPc
  <2>3. CASE \E pc \in {"stop", "hstop"} :
               op' = [op EXCEPT !.pc = pc] /\ op.pc \in SwitchPc \cup HeadPc
    BY <2>3 DEF IInv, TypeOK, OpInv, Pc, SwitchPc, HeadPc
  <2>4. QED
    BY <2>1, <2>2, <2>3
<1>2. TypeOK'
  BY <1>1 DEF IInv, TypeOK
<1>3. OpInv'
  BY <1>1 DEF IInv, OpInv, SwitchPc, HeadPc
<1>4. QED
  BY <1>2, <1>3 DEF IInv, GateInv, GatesFromSwitch

LEMMA SwitchFoundInv ==
  ASSUME IInv, SwitchFound
  PROVE  IInv'
<1>1. op.target \in Ace /\ op.pc \in SwitchPc \cup HeadPc
  BY DEF SwitchFound, InGcode, IInv, OpInv, SwitchPc, HeadPc
<1>2. CASE op.target = link.active
  BY <1>2, MoveInv DEF SwitchFound, IInv, TypeOK
<1>3. CASE op.target # link.active /\ assist
  BY <1>1, <1>3, MoveInv DEF SwitchFound, IInv, TypeOK
<1>4. CASE op.target # link.active /\ ~assist
  BY <1>1, <1>4, TakePathInv DEF SwitchFound
<1>5. QED
  BY <1>2, <1>3, <1>4

LEMMA HeadFoundInv ==
  ASSUME IInv, HeadFound
  PROVE  IInv'
<1>1. op.target \in Ace /\ op.pc \in SwitchPc \cup HeadPc
  BY DEF HeadFound, InGcode, IInv, OpInv, SwitchPc, HeadPc
<1>2. CASE assist
  BY <1>1, <1>2, MoveInv DEF HeadFound, IInv, TypeOK
<1>3. CASE ~assist
  BY <1>1, <1>3, HeadPathInv DEF HeadFound
<1>4. QED
  BY <1>2, <1>3

-----------------------------------------------------------------------------
(* One step per action.                                                    *)

LEMMA TimersInv ==
  ASSUME IInv, Timers
  PROVE  IInv'
BY ConnectTickInv, HeartbeatInv, ReplyInv, ReadErrorInv, KeepaliveTickInv,
   RecoverInv, DoPauseInv DEF Timers

LEMMA ProgressInv ==
  ASSUME IInv, Progress
  PROVE  IInv'
<1>1. CASE CommandSend
  BY <1>1, GcodeSendInv DEF CommandSend, InGcode
<1>2. CASE SwitchFound
  BY <1>2, SwitchFoundInv
<1>3. CASE TargetMissing
  BY <1>3, MoveInv DEF TargetMissing, IInv, TypeOK
<1>4. CASE StopAssist("stop", "settle")
  BY <1>4, GcodeSendInv DEF StopAssist, InGcode
<1>5. CASE StopAssist("hstop", "hsettle")
  BY <1>5, GcodeSendInv DEF StopAssist, InGcode
<1>6. CASE AssistAnswered("settle") \/ AssistAnswered("hsettle")
  BY <1>6, MoveInv DEF AssistAnswered, IInv, TypeOK
<1>7. CASE SwitchSettled
  <2>1. op.target \in Ace
    BY <1>7 DEF SwitchSettled, InGcode, IInv, OpInv, SwitchPc
  <2>2. QED
    BY <1>7, <2>1, TakePathInv DEF SwitchSettled
<1>8. CASE ScanFound
  BY <1>8, ScanFoundInv
<1>9. CASE ScanMissing
  <2>1. op.old = link.active /\ op.pc = "scan" /\ op.old \in Ace
    BY <1>9 DEF ScanMissing, InGcode, IInv, OpInv, TypeOK, LinkType
  <2>2. QED
    BY <1>9, <2>1, GoBackInv DEF ScanMissing
<1>10. CASE ConnectTimeout
  <2>1. op.old \in Ace /\ op.pc = "wait" /\ ~link.connected
    BY <1>10 DEF ConnectTimeout, InGcode, IInv, OpInv
  <2>2. QED
    BY <1>10, <2>1, GoBackInv DEF ConnectTimeout
<1>11. CASE WaitOver
  BY <1>11, MoveInv DEF WaitOver, IInv, TypeOK
<1>12. CASE HeadFound
  BY <1>12, HeadFoundInv
<1>13. CASE HeadSettled
  <2>1. op.target \in Ace
    BY <1>13 DEF HeadSettled, InGcode, IInv, OpInv, HeadPc
  <2>2. QED
    BY <1>13, <2>1, HeadPathInv DEF HeadSettled
<1>14. QED
  BY <1>1, <1>2, <1>3, <1>4, <1>5, <1>6, <1>7, <1>8, <1>9, <1>10, <1>11,
     <1>12, <1>13 DEF Progress

LEMMA UserInv ==
  ASSUME IInv, User
  PROVE  IInv'
<1>1. CASE Command
  BY <1>1, MoveInv DEF Command, IInv, TypeOK
<1>2. CASE EnableAssist
  BY <1>2, MoveInv DEF EnableAssist
<1>3. ASSUME NEW t \in Ace, StartSwitch(t) PROVE IInv'
  BY <1>3, MoveInv DEF StartSwitch, IInv, TypeOK
<1>4. ASSUME NEW t \in HeadTargets, StartHeadSwitch(t) PROVE IInv'
  BY <1>4, MoveInv, AceAssumption DEF StartHeadSwitch, IInv, TypeOK
<1>5. CASE Restart
  BY <1>5, RestartInv
<1>6. QED
  BY <1>1, <1>2, <1>3, <1>4, <1>5 DEF User

LEMMA NextInv ==
  ASSUME IInv, [Next]_vars
  PROVE  IInv'
<1>1. CASE UNCHANGED vars
  BY <1>1 DEF vars, IInv, TypeOK, Sound, OpInv, GateInv, GatesFromSwitch
<1>2. CASE Usb
  BY <1>2, UsbDropInv, UsbReturnInv DEF Usb
<1>3. QED
  BY <1>1, <1>2, TimersInv, ProgressInv, UserInv DEF Next

\* The inductive invariant holds of every reachable state.
THEOREM Inductive == Spec => []IInv
<1>1. Init => IInv
  BY InitInv
<1>2. IInv /\ [Next]_vars => IInv'
  BY NextInv
<1>3. QED
  BY <1>1, <1>2, PTL DEF Spec

-----------------------------------------------------------------------------
(* The properties the runs check.                                          *)

\* Every variable of the connection engine keeps its type: in particular a
\* timer count never leaves its range and _active_device_index is an ACE.
THEOREM TypeCorrect == Spec => []TypeOK
<1>1. IInv => TypeOK
  BY DEF IInv
<1>2. QED
  BY <1>1, Inductive, PTL

\* Known gates were reported by the active ACE, or by the target of a switch
\* that was given up: never by a third ACE.
THEOREM GatesCorrect == Spec => []GatesFromSwitch
<1>1. IInv => GatesFromSwitch
  BY DEF IInv, GateInv
<1>2. QED
  BY <1>1, Inductive, PTL

\* A connected link whose serial is open writes to the active ACE's handle.
THEOREM LiveCorrect == Spec => []LiveIsActive
<1>1. IInv => LiveIsActive
  BY DEF IInv, Sound, LiveIsActive
<1>2. QED
  BY <1>1, Inductive, PTL

\* A connected link is polled by a registered heartbeat.
THEOREM PolledCorrect == Spec => []ConnectedIsPolled
<1>1. IInv => ConnectedIsPolled
  BY DEF IInv, Sound, ConnectedIsPolled
<1>2. QED
  BY <1>1, Inductive, PTL

-----------------------------------------------------------------------------
(* ACE_SWITCH never closes a handle that works.                            *)

\* What a step may do to the handles that work.
KeepsOpen(l, m) ==
  \A a \in Ace : l.handle[a] = "open" => m.handle[a] = "open"

LEMMA AttemptKeepsOpen ==
  ASSUME NEW l \in LinkType
  PROVE  KeepsOpen(l, Attempted(l)) /\ KeepsOpen(l, ArmedNow(l))
<1>1. KeepsOpen(l, Attempted(l))
  BY DEF KeepsOpen, Attempted, Opened, LinkType
<1>2. KeepsOpen(l, ArmedNow(l))
  BY DEF KeepsOpen, ArmedNow, Armed, Attempted, Opened, LinkType
<1>3. QED
  BY <1>1, <1>2

\* A link record that only moved keeps its handles.
LEMMA MovedKeepsOpen ==
  ASSUME NEW l \in LinkType, NEW t \in Ace
  PROVE  LET m == [l EXCEPT !.active = t]
         IN  m \in LinkType /\ KeepsOpen(l, ArmedNow(m))
<1> DEFINE m == [l EXCEPT !.active = t]
<1>1. m \in LinkType /\ m.handle = l.handle
  BY DEF LinkType
<1>2. KeepsOpen(m, ArmedNow(m))
  BY <1>1, AttemptKeepsOpen
<1>3. QED
  BY <1>1, <1>2 DEF KeepsOpen

LEMMA GoBackKeepsOpen ==
  ASSUME IInv, NEW o \in Ace, GoBack(o)
  PROVE  KeepsOpen(link, link')
<1>1. CASE link.handle[o] # "none"
  BY <1>1 DEF GoBack, Restored, KeepsOpen, IInv, TypeOK, LinkType
<1>2. CASE ~(link.handle[o] # "none")
  BY <1>2, MovedKeepsOpen DEF GoBack, IInv, TypeOK
<1>3. QED
  BY <1>1, <1>2

\* The one close of the fast path is of the handle whose write just failed.
LEMMA TakePathKeepsOpen ==
  ASSUME IInv, NEW t \in Ace, TakePath(t)
  PROVE  KeepsOpen(link, link')
<1>1. CASE link.handle[t] # "none"
  <2> DEFINE l == Promoted(link, t)
  <2>1. l.serial = t /\ l.handle = link.handle /\ l.active = t
    BY DEF Promoted, IInv, TypeOK, LinkType
  <2>2. CASE Broken(l)
    <3>1. link.handle[t] # "open"
      BY <2>1, <2>2 DEF Broken, Writable, Refused, Live
    <3>2. link' = HardClosed(l)
      BY <1>1, <2>2 DEF TakePath, FastPath
    <3>3. \A a \in Ace : a # t => link'.handle[a] = link.handle[a]
      BY <2>1, <3>2 DEF HardClosed, Promoted, IInv, TypeOK, LinkType
    <3>4. QED
      BY <3>1, <3>3 DEF KeepsOpen
  <2>3. CASE ~Broken(l)
    BY <1>1, <2>1, <2>3 DEF TakePath, FastPath, KeepsOpen
  <2>4. QED
    BY <2>2, <2>3
<1>2. CASE ~(link.handle[t] # "none")
  BY <1>2 DEF TakePath, SlowPath, Released, KeepsOpen, IInv, TypeOK, LinkType
<1>3. QED
  BY <1>1, <1>2

LEMMA SwitchKeepsOpen ==
  ASSUME IInv, [Next]_vars, {op.pc, op'.pc} \cap SwitchPc # {},
         op' # op, ~link'.failed, ~Restart
  PROVE  KeepsOpen(link, link')
<1>1. CASE UNCHANGED link
  BY <1>1 DEF KeepsOpen
<1>2. ASSUME NEW g \in {"gcode", "beat"}, Recover(g)
      PROVE  KeepsOpen(link, link')
  <2> DEFINE l == Attempted(link)
  <2>1. KeepsOpen(link, l) /\ l \in LinkType
    BY AttemptKeepsOpen, AttemptedSound DEF IInv, TypeOK, Sound
  <2>2. Failed(l).failed
    BY <2>1, FailedSound, AttemptedSound DEF IInv, Sound
  <2>3. link' = [l EXCEPT !.failed = FALSE]
    BY <1>2, <2>2 DEF Recover
  <2>4. QED
    BY <2>1, <2>3 DEF KeepsOpen, LinkType
<1>3. CASE CommandSend
  BY <1>3 DEF CommandSend, InGcode, GcodeSend, Idle, SwitchPc
<1>4. CASE StopAssist("stop", "settle")
  <2>1. Failed(link).failed
    BY FailedSound DEF IInv
  <2>2. QED
    BY <1>4, <1>1, <2>1 DEF StopAssist, GcodeSend
<1>5. CASE SwitchFound \/ SwitchSettled
  <2>1. op.target \in Ace
    BY <1>5 DEF SwitchFound, SwitchSettled, InGcode, IInv, OpInv, SwitchPc
  <2>2. UNCHANGED link \/ TakePath(op.target)
    BY <1>5 DEF SwitchFound, SwitchSettled
  <2>3. QED
    BY <1>1, <2>1, <2>2, TakePathKeepsOpen
<1>6. CASE ScanFound
  <2>1. op.target \in Ace /\ link \in LinkType
    BY <1>6 DEF ScanFound, InGcode, IInv, OpInv, SwitchPc, TypeOK
  <2>2. QED
    BY <1>6, <2>1, MovedKeepsOpen DEF ScanFound
<1>7. CASE ScanMissing \/ ConnectTimeout
  <2>1. op.old \in Ace
    BY <1>7 DEF ScanMissing, ConnectTimeout, InGcode, IInv, OpInv, TypeOK,
                LinkType
  <2>2. QED
    BY <1>7, <2>1, GoBackKeepsOpen DEF ScanMissing, ConnectTimeout
<1>8. ~StopAssist("hstop", "hsettle") /\ ~HeadFound /\ ~HeadSettled
  BY DEF StopAssist, GcodeSend, HeadFound, HeadPath, HeadSettled, InGcode,
         Idle, Doing, SwitchPc, IInv, TypeOK
<1>9. CASE Progress
  BY <1>1, <1>3, <1>4, <1>5, <1>6, <1>7, <1>8, <1>9
  DEF Progress, TargetMissing, AssistAnswered, WaitOver
<1>10. CASE Timers
  BY <1>2, <1>10 DEF Timers, ConnectTick, Heartbeat, Reply, ReadError,
                     KeepaliveTick, DoPause
<1>11. CASE User
  BY <1>1, <1>11 DEF User, Command, EnableAssist, StartSwitch,
                          StartHeadSwitch
<1>12. CASE Usb
  BY <1>12 DEF Usb, UsbDrop, UsbReturn
<1>13. QED
  BY <1>9, <1>10, <1>11, <1>12 DEF Next, vars

\* ACE_SWITCH, on either path and whatever fails meanwhile, never closes a
\* handle that works, except in the step that declares the link failed.
THEOREM SwitchNeverCloses == Spec => NeverCloseMidSession
<1>1. IInv /\ [Next]_vars =>
        [/\ {op.pc, op'.pc} \cap SwitchPc # {}
         /\ op' # op /\ ~link'.failed /\ ~Restart
         => \A a \in Ace : link.handle[a] = "open" => link'.handle[a] = "open"]_vars
  BY SwitchKeepsOpen DEF KeepsOpen
<1>2. QED
  BY <1>1, Inductive, PTL DEF Spec, NeverCloseMidSession

-----------------------------------------------------------------------------
(* The connection engine implements ActiveAce.                             *)

\* A step that keeps the active and the recorded ACE, and the slots shown.
Same ==
  /\ saved' = saved
  /\ link'.active = link.active
  /\ link'.connected \in BOOLEAN
  /\ view'.known = view.known /\ view'.info = view.info

\* A step that chooses t and forgets the slots.
Moves(t) ==
  /\ t \in Ace
  /\ saved' = t /\ link'.active = t
  /\ link'.connected \in BOOLEAN
  /\ ~view'.known

LEMMA SameMaps ==
  ASSUME Same
  PROVE  [Promise!Next]_(Promise!pvars)
BY DEF Same, Promise!Next, Promise!LinkChange

LEMMA MovesMaps ==
  ASSUME NEW t \in Ace, Moves(t)
  PROVE  [Promise!Next]_(Promise!pvars)
BY DEF Moves, Promise!Next, Promise!Choose

LEMMA TimersMap ==
  ASSUME IInv, Timers
  PROVE  [Promise!Next]_(Promise!pvars)
<1>1. Sound(link') /\ view' \in ViewType
  BY TimersInv DEF IInv, TypeOK
<1>2. link'.connected \in BOOLEAN
  BY <1>1 DEF Sound, LinkType
<1>3. CASE Reply
  <2>1. link.connected /\ link.serial = link.active /\ link.active \in Ace
    BY <1>3 DEF Reply, Live, IInv, Sound, LinkType
  <2>2. view'.known /\ view'.info = link.serial
    BY <1>3 DEF Reply
  <2>3. Promise!Report
    BY <1>3, <2>1, <2>2 DEF Reply, Promise!Report
  <2>4. QED
    BY <2>3 DEF Promise!Next
<1>4. ASSUME NEW c \in BOOLEAN, ConnectTick(c) PROVE Same
  <2>1. link'.active = link.active
    BY <1>4 DEF ConnectTick, Opened, Attempted, IInv, TypeOK, LinkType
  <2>2. view'.known = view.known /\ view'.info = view.info
    BY <1>4, ViewFacts DEF ConnectTick, IInv, TypeOK
  <2>3. QED
    BY <1>2, <1>4, <2>1, <2>2 DEF ConnectTick, Same
<1>5. CASE Heartbeat
  <2>1. link'.active = link.active
    BY <1>5, FailedSound, DroppedSound DEF Heartbeat, IInv
  <2>2. view'.known = view.known /\ view'.info = view.info
    BY <1>5 DEF Heartbeat, IInv, TypeOK, ViewType, Busy
  <2>3. Same
    BY <1>2, <1>5, <2>1, <2>2 DEF Heartbeat, Same
  <2>4. QED
    BY <2>3, SameMaps
<1>6. CASE ReadError
  <2>1. link'.active = link.active
    BY <1>6 DEF ReadError, Armed, HardClosed, IInv, TypeOK, LinkType
  <2>2. QED
    BY <1>2, <1>6, <2>1, SameMaps DEF ReadError, Same
<1>7. CASE KeepaliveTick
  <2>1. link'.active = link.active
    BY <1>7 DEF KeepaliveTick, IInv, TypeOK, LinkType
  <2>2. QED
    BY <1>2, <1>7, <2>1, SameMaps DEF KeepaliveTick, Same
<1>8. ASSUME NEW g \in {"gcode", "beat"}, Recover(g) PROVE Same
  <2>1. Sound(Attempted(link)) /\ Attempted(link).active = link.active
    BY AttemptedSound DEF IInv, Sound
  <2>2. link'.active = link.active
    BY <1>8, <2>1, FailedSound DEF Recover, Sound, LinkType
  <2>3. QED
    BY <1>2, <1>8, <2>2 DEF Recover, Same
<1>9. CASE DoPause
  <2>1. link'.active = link.active
    BY <1>9 DEF DoPause, IInv, TypeOK, LinkType
  <2>2. QED
    BY <1>2, <1>9, <2>1, SameMaps DEF DoPause, Same
<1>10. QED
  BY <1>3, <1>4, <1>5, <1>6, <1>7, <1>8, <1>9, SameMaps DEF Timers

LEMMA TakePathMaps ==
  ASSUME IInv, NEW t \in Ace, TakePath(t)
  PROVE  [Promise!Next]_(Promise!pvars)
<1>1. Sound(link') /\ link'.connected \in BOOLEAN
  BY TakePathInv DEF IInv, Sound, LinkType
<1>2. CASE link.handle[t] # "none"
  <2>1. FastPath(t) /\ link'.active = t
    BY <1>2 DEF TakePath, FastPath, HardClosed, Promoted, IInv, TypeOK, LinkType
  <2>2. Moves(t)
    BY <1>1, <2>1, ViewFacts DEF FastPath, Moves, IInv, TypeOK
  <2>3. QED
    BY <2>2, MovesMaps
<1>3. CASE ~(link.handle[t] # "none")
  <2>1. SlowPath(t) /\ link'.active = link.active
    BY <1>3 DEF TakePath, SlowPath, Released, IInv, TypeOK, LinkType
  <2>2. QED
    BY <1>1, <2>1, SameMaps DEF SlowPath, Same
<1>4. QED
  BY <1>2, <1>3

LEMMA HeadPathMaps ==
  ASSUME IInv, NEW t \in Ace, HeadPath(t)
  PROVE  [Promise!Next]_(Promise!pvars)
<1> DEFINE l == [HardClosed(link) EXCEPT !.active = t]
<1>1. Sound(link') /\ link'.connected \in BOOLEAN
  BY HeadPathInv DEF IInv, Sound, LinkType
<1>2. l \in LinkType /\ l.beat = l.connected /\ l.active = t
      /\ (l.failed => Sound(l))
  <2>1. Sound(HardClosed(link)) /\ ~HardClosed(link).connected
    BY ClosedSound DEF IInv, Sound
  <2>2. QED
    BY <2>1, MovedSound
<1>3. link'.active = t
  BY <1>2, ArmedNowSound DEF HeadPath
<1>4. Moves(t)
  BY <1>1, <1>3, ViewFacts DEF HeadPath, Moves, IInv, TypeOK
<1>5. QED
  BY <1>4, MovesMaps

\* Going back to the old ACE is the GiveUp of ActiveAce when the target had
\* become active, and no change at all when it had not been found.
LEMMA GoBackMaps ==
  ASSUME IInv, NEW o \in Ace, GoBack(o), link'.connected \in BOOLEAN,
         \/ o = link.active /\ op.pc = "scan"
         \/ ~link.connected /\ op.pc = "wait"
  PROVE  [Promise!Next]_(Promise!pvars)
<1>1. link'.active = o
  <2>1. CASE link.handle[o] # "none"
    BY <2>1, RestoredSound DEF GoBack, IInv
  <2>2. CASE ~(link.handle[o] # "none")
    <3> DEFINE l == [link EXCEPT !.active = o]
    <3>1. /\ l \in LinkType /\ l.beat = l.connected /\ l.active = o
          /\ l.failed => Sound(l)
      BY MovedSound DEF IInv, OpInv, Sound, LinkType
    <3>2. QED
      BY <2>2, <3>1, ArmedNowSound DEF GoBack
  <2>3. QED
    BY <2>1, <2>2
<1>2. view'.known = view.known /\ view'.info = view.info
  BY DEF GoBack, IInv, TypeOK, ViewType, Busy
<1>3. CASE o = link.active
  BY <1>1, <1>2, <1>3, SameMaps DEF GoBack, Same
<1>4. CASE ~link.connected /\ op.pc = "wait"
  <2>1. link.active = saved
    BY <1>4 DEF IInv, OpInv
  <2>2. Promise!GiveUp(o)
    BY <1>1, <1>2, <1>4, <2>1 DEF GoBack, Promise!GiveUp
  <2>3. QED
    BY <2>2 DEF Promise!Next
<1>5. QED
  BY <1>3, <1>4

LEMMA ProgressMaps ==
  ASSUME IInv, Progress
  PROVE  [Promise!Next]_(Promise!pvars)
<1>1. Sound(link') /\ link'.connected \in BOOLEAN
  BY ProgressInv DEF IInv, Sound, LinkType
<1>2. ASSUME UNCHANGED <<link, view, saved>> PROVE [Promise!Next]_(Promise!pvars)
  BY <1>1, <1>2, SameMaps DEF Same
<1>3. ASSUME NEW next, GcodeSend(next) PROVE Same
  <2>1. link'.active = link.active
    BY <1>3, FailedSound, DroppedSound DEF GcodeSend, IInv
  <2>2. QED
    BY <1>1, <1>3, <2>1, ViewFacts DEF GcodeSend, Same, IInv, TypeOK
<1>4. CASE CommandSend \/ StopAssist("stop", "settle")
           \/ StopAssist("hstop", "hsettle")
  BY <1>3, <1>4, SameMaps DEF CommandSend, StopAssist
<1>5. CASE SwitchFound \/ SwitchSettled
  <2>1. op.target \in Ace
    BY <1>5 DEF SwitchFound, SwitchSettled, InGcode, IInv, OpInv, SwitchPc
  <2>2. QED
    BY <1>2, <1>5, <2>1, TakePathMaps DEF SwitchFound, SwitchSettled
<1>6. CASE ScanFound
  <2> DEFINE l == [link EXCEPT !.active = op.target]
  <2>1. op.target \in Ace
    BY <1>6 DEF ScanFound, InGcode, IInv, OpInv, SwitchPc
  <2>2. /\ l \in LinkType /\ l.beat = l.connected /\ l.active = op.target
        /\ l.failed => Sound(l)
    BY <1>6, <2>1, MovedSound DEF IInv, OpInv, ScanFound, InGcode
  <2>3. link'.active = op.target
    BY <1>6, <2>2, ArmedNowSound DEF ScanFound
  <2>4. Moves(op.target)
    BY <1>1, <1>6, <2>1, <2>3, ViewFacts DEF ScanFound, Moves, IInv, TypeOK
  <2>5. QED
    BY <2>1, <2>4, MovesMaps
<1>7. CASE ScanMissing
  <2>1. op.old = link.active /\ op.pc = "scan" /\ op.old \in Ace
    BY <1>7 DEF ScanMissing, InGcode, IInv, OpInv, TypeOK, LinkType
  <2>2. QED
    BY <1>1, <1>7, <2>1, GoBackMaps DEF ScanMissing
<1>8. CASE ConnectTimeout
  <2>1. op.old \in Ace /\ op.pc = "wait" /\ ~link.connected
    BY <1>8 DEF ConnectTimeout, InGcode, IInv, OpInv
  <2>2. QED
    BY <1>1, <1>8, <2>1, GoBackMaps DEF ConnectTimeout
<1>9. CASE TargetMissing \/ AssistAnswered("settle")
           \/ AssistAnswered("hsettle") \/ WaitOver
  BY <1>2, <1>9 DEF TargetMissing, AssistAnswered, WaitOver
<1>10. CASE HeadFound \/ HeadSettled
  <2>1. op.target \in Ace
    BY <1>10 DEF HeadFound, HeadSettled, InGcode, IInv, OpInv, HeadPc
  <2>2. QED
    BY <1>2, <1>10, <2>1, HeadPathMaps DEF HeadFound, HeadSettled
<1>11. QED
  BY <1>4, <1>5, <1>6, <1>7, <1>8, <1>9, <1>10 DEF Progress

LEMMA StepMaps ==
  ASSUME IInv, [Next]_vars
  PROVE  [Promise!Next]_(Promise!pvars)
<1>1. link'.connected \in BOOLEAN
  BY NextInv DEF IInv, Sound, LinkType
<1>2. ASSUME UNCHANGED <<link, view, saved>> PROVE [Promise!Next]_(Promise!pvars)
  BY <1>1, <1>2, SameMaps DEF Same
<1>3. CASE Usb
  <2>1. link'.active = link.active
    BY <1>3 DEF Usb, UsbDrop, UsbReturn, IInv, TypeOK, LinkType
  <2>2. QED
    BY <1>1, <1>3, <2>1, SameMaps DEF Usb, UsbDrop, UsbReturn, Same
<1>4. CASE Restart
  <2>1. link'.active = saved
    BY <1>4, BootedSound DEF Restart, IInv, TypeOK
  <2>2. Promise!Reboot
    BY <1>1, <1>4, <2>1 DEF Restart, Unseen, Promise!Reboot
  <2>3. QED
    BY <2>2 DEF Promise!Next
<1>5. CASE User
  BY <1>2, <1>4, <1>5 DEF User, Command, EnableAssist, StartSwitch,
                          StartHeadSwitch
<1>6. QED
  BY <1>2, <1>3, <1>5, TimersMap, ProgressMaps DEF Next, vars

\* The connection engine implements ActiveAce: whatever USB, the timers and the
\* commands do, a change of the active ACE forgets the slots and is recorded,
\* but for the switch that is given up.
THEOREM Implements == Spec => KeepsPromise
<1>1. Init => Promise!Init
  <2> SUFFICES ASSUME Init PROVE Promise!Init
    OBVIOUS
  <2>1. link.active = saved /\ link.connected = TRUE
    BY DEF Init, Opened, Booted
  <2>2. QED
    BY <2>1 DEF Init, Unseen, Promise!Init
<1>2. IInv /\ [Next]_vars => [Promise!Next]_(Promise!pvars)
  BY StepMaps
<1>3. QED
  BY <1>1, <1>2, Inductive, PTL DEF Spec, KeepsPromise, Promise!Spec
=============================================================================
