-------------------------- MODULE FeedAssistProofs --------------------------
(***************************************************************************)
(* Proofs about FeedAssist for any number of heads, slots, ACEs and        *)
(* resets: programs stay well formed (TypeOK), no detector of tangled      *)
(* filament stays off after a print or a FEED_AUTO (DetectorsBackOn), and  *)
(* what the code knows of the ACEs is true of commands that ran beside no  *)
(* reset: AssistIsKnown, FeedsUnassisted, ToolIsFed.                       *)
(***************************************************************************)
EXTENDS FeedAssist, SequenceTheorems, TLAPS

Programs == Seq(Ops)
TodoOK == todo \in [Greenlets -> Programs]

(* A detector is off for the FEED_AUTO under way or for the print.         *)
SkipOwned == skip \subseteq skipped \cup {feeding}
SkippedInPrint == phase = "idle" => skipped = {}
IInv == TypeOK /\ SkipOwned /\ SkippedInPrint

USE FeedAssistAssumption
-----------------------------------------------------------------------------
(* What the steps of a program may carry.                                  *)

(* The operations without an operand.                                      *)
LEMMA PlainOps == \A w \in {"stop", "quiet", "unskip", "release"} :
                    Do(w, None) \in Ops
BY DEF Do, Ops

(* The operations on a slot.                                               *)
LEMMA SlotOps == \A w \in {"arm", "start"}, s \in Slots : Do(w, s) \in Ops
BY DEF Do, Ops

(* The operations on a head.                                               *)
LEMMA HeadOps ==
  \A w \in {"select", "skip", "feed", "flush", "pull", "own", "forget"},
     h \in Heads : Do(w, h) \in Ops
BY DEF Do, Ops

(* The record of a head.                                                   *)
LEMMA RecordOps == \A h \in Heads, s \in Slots : Do("record", <<h, s>>) \in Ops
BY DEF Do, Ops

(* The operations on an ACE.                                               *)
LEMMA AceOps == \A w \in {"switch", "fetch", "tried", "switched"}, a \in Aces :
                  Do(w, a) \in Ops
BY DEF Do, Ops

(* The operand of the next step has the type its name says.                *)
LEMMA NextTyped ==
  ASSUME TodoOK, NEW g \in Greenlets, todo[g] # <<>>
  PROVE  /\ Head(todo[g]) \in Ops
         /\ Tail(todo[g]) \in Programs
BY HeadTailProperties DEF TodoOK, Programs

LEMMA AtTyped ==
  ASSUME TodoOK, NEW g \in Greenlets, todo[g] # <<>>
  PROVE  /\ What(g) \in {"arm", "start"} => At(g) \in Slots
         /\ What(g) \in {"select", "skip", "feed", "flush", "pull", "own",
                         "forget"} => At(g) \in Heads
         /\ What(g) = "record" => At(g) \in Heads \X Slots
         /\ What(g) \in {"switch", "fetch", "tried", "switched"} =>
              At(g) \in Aces
<1>1. Head(todo[g]) \in Ops
  BY NextTyped
<1>2. QED
  BY <1>1 DEF What, At, Ops

(* Popping a step and putting a program in its place keep programs typed.  *)
LEMMA PopTyped ==
  ASSUME TodoOK, NEW g \in Greenlets, todo[g] # <<>>, Pop(g)
  PROVE  TodoOK'
BY NextTyped DEF TodoOK, Pop

LEMMA InsteadTyped ==
  ASSUME TodoOK, NEW g \in Greenlets, todo[g] # <<>>, NEW p \in Programs,
         Instead(g, p)
  PROVE  TodoOK'
<1>1. Tail(todo[g]) \in Programs
  BY NextTyped
<1>2. p \o Tail(todo[g]) \in Programs
  BY <1>1, ConcatProperties DEF Programs
<1>3. QED
  BY <1>2 DEF TodoOK, Instead

(* The programs themselves.                                                *)
LEMMA OneStep == \A o \in Ops : <<o>> \in Programs
BY DEF Programs

LEMMA NoStep == <<>> \in Programs
BY DEF Programs

LEMMA FeedsTyped == \A h \in Heads : Feeds(h) \in Programs
<1>1. SUFFICES ASSUME NEW h \in Heads PROVE Feeds(h) \in Programs
  OBVIOUS
<1>2. h \in Slots
  OBVIOUS
<1>3. /\ Do("skip", h) \in Ops /\ Do("select", h) \in Ops
      /\ Do("stop", None) \in Ops /\ Do("feed", h) \in Ops
      /\ Do("arm", h) \in Ops /\ Do("flush", h) \in Ops
      /\ Do("record", <<h, h>>) \in Ops /\ Do("unskip", None) \in Ops
  BY <1>2, PlainOps, SlotOps, HeadOps, RecordOps
<1>4. QED
  BY <1>3 DEF Feeds, Programs

LEMMA UnfeedsTyped == \A h \in Heads : Unfeeds(h) \in Programs
<1>1. SUFFICES ASSUME NEW h \in Heads PROVE Unfeeds(h) \in Programs
  OBVIOUS
<1>2. /\ Do("skip", h) \in Ops /\ Do("select", h) \in Ops
      /\ Do("stop", None) \in Ops /\ Do("own", h) \in Ops
      /\ Do("pull", h) \in Ops /\ Do("forget", h) \in Ops
      /\ Do("unskip", None) \in Ops
  BY PlainOps, HeadOps
<1>3. Prepares(h) \in Programs
  BY <1>2 DEF Prepares, Programs
<1>4. Pulls(h) \in Programs
  BY <1>2 DEF Pulls, Programs
<1>5. QED
  BY <1>3, <1>4, ConcatProperties DEF Unfeeds, Programs

LEMMA FetchesTyped == \A a \in Aces : Fetches(a) \in Programs
<1>1. SUFFICES ASSUME NEW a \in Aces PROVE Fetches(a) \in Programs
  OBVIOUS
<1>2. Do("quiet", None) \in Ops /\ Do("fetch", a) \in Ops
  BY PlainOps, AceOps
<1>3. QED
  BY <1>2 DEF Fetches, Programs

LEMMA FollowsToolTyped ==
  ASSUME TypeOK, NEW h \in Heads
  PROVE  FollowsTool(h) \in Programs
<1>1. CASE source[h] = None \/ (source[h].ace = active /\ idx = source[h].slot)
           \/ (source[h].ace # active /\ idx = None)
  BY <1>1, NoStep DEF FollowsTool
<1>2. CASE source[h] # None /\ source[h].ace = active /\ idx # source[h].slot
  <2>1. source[h].slot \in Slots
    BY <1>2 DEF TypeOK, Source
  <2>2. Do("arm", source[h].slot) \in Ops
    BY <2>1, SlotOps
  <2>3. QED
    BY <1>2, <2>2, OneStep DEF FollowsTool
<1>3. CASE source[h] # None /\ source[h].ace # active /\ idx # None
  BY <1>3, PlainOps, OneStep DEF FollowsTool
<1>4. QED
  BY <1>1, <1>2, <1>3
-----------------------------------------------------------------------------
(* The other variables, and the invariant put together.                    *)
OthersOK ==
  /\ active \in Aces /\ up \in BOOLEAN /\ idx \in Slots \cup {None}
  /\ source \in [Heads -> Source \cup {None}] /\ tool \in Heads
  /\ phase \in {"idle", "print", "ending"}
  /\ skip \subseteq Heads /\ skipped \subseteq Heads
  /\ feeding \in Heads \cup {None}
  /\ assist \in [Aces -> Slots \cup {None}]
  /\ served \in BOOLEAN /\ overlapped \in BOOLEAN /\ resets \in 0 .. MaxResets

LEMMA Parts == TypeOK <=> TodoOK /\ OthersOK
BY DEF TypeOK, TodoOK, OthersOK, Programs

LEMMA PartsNext == TypeOK' <=> TodoOK' /\ OthersOK'
BY DEF TypeOK, TodoOK, OthersOK, Programs

(* The steps that stop or start an assist.                                 *)
LEMMA StopInv ==
  ASSUME IInv, NEW g \in Greenlets, Stop(g) \/ Quiet(g)
  PROVE  IInv'
<1>1. TodoOK /\ OthersOK /\ todo[g] # <<>> /\ Pop(g)
  BY Parts DEF IInv, Stop, Quiet, Has, Stopped
<1>2. TodoOK'
  BY <1>1, PopTyped
<1>3. OthersOK'
  BY <1>1 DEF OthersOK, Stop, Quiet, Stopped, code, history
<1>4. QED
  BY <1>2, <1>3, PartsNext DEF IInv, Stop, Quiet, code, SkipOwned,
     SkippedInPrint

LEMMA ArmInv ==
  ASSUME IInv, NEW g \in Greenlets, Arm(g) \/ Start(g)
  PROVE  IInv'
<1>1. TodoOK /\ OthersOK /\ todo[g] # <<>> /\ At(g) \in Slots
  BY Parts, AtTyped DEF IInv, Arm, Start, Has
<1>2. Do("start", At(g)) \in Ops
  BY <1>1, SlotOps
<1>3. <<Do("start", At(g))>> \in Programs
  BY <1>2, OneStep
<1>4. Pop(g) \/ Instead(g, <<Do("start", At(g))>>)
  BY DEF Arm, Start
<1>5. TodoOK'
  BY <1>1, <1>3, <1>4, PopTyped, InsteadTyped
<1>6. OthersOK'
  BY <1>1 DEF OthersOK, Arm, Start, code, history
<1>7. QED
  BY <1>5, <1>6, PartsNext DEF IInv, Arm, Start, code, SkipOwned,
     SkippedInPrint

(* The steps of a switch.                                                  *)
LEMMA SwitchInv ==
  ASSUME IInv, NEW g \in Greenlets, Switch(g) \/ Fetch(g)
  PROVE  IInv'
<1>1. TodoOK /\ OthersOK /\ todo[g] # <<>> /\ At(g) \in Aces
  BY Parts, AtTyped DEF IInv, Switch, Fetch, Has
<1>2. Do("tried", active) \in Ops /\ Do("switched", At(g)) \in Ops
  BY <1>1, AceOps DEF OthersOK
<1>3. <<Do("tried", active)>> \in Programs /\ <<Do("switched", At(g))>> \in Programs
  BY <1>2, OneStep
<1>4. \/ Pop(g) \/ Instead(g, <<Do("tried", active)>>)
      \/ Instead(g, <<Do("switched", At(g))>>)
  BY DEF Switch, Goes, Fetch
<1>5. TodoOK'
  BY <1>1, <1>3, <1>4, PopTyped, InsteadTyped
<1>6. OthersOK'
  BY <1>1 DEF OthersOK, Switch, Goes, Fetch, code, history
<1>7. QED
  BY <1>5, <1>6, PartsNext DEF IInv, Switch, Fetch, code, SkipOwned,
     SkippedInPrint

LEMMA ArrivesInv ==
  ASSUME IInv, NEW g \in Greenlets, Arrives(g) \/ GoesBack(g)
  PROVE  IInv'
<1>1. TodoOK /\ OthersOK /\ todo[g] # <<>> /\ Pop(g)
  BY Parts DEF IInv, Arrives, GoesBack, Has
<1>2. TodoOK'
  BY <1>1, PopTyped
<1>3. GoesBack(g) => At(g) \in Aces
  BY <1>1, AtTyped DEF GoesBack, Has
<1>4. OthersOK'
  BY <1>1, <1>3 DEF OthersOK, Arrives, GoesBack, code, history
<1>5. QED
  BY <1>2, <1>4, PartsNext DEF IInv, Arrives, GoesBack, code, SkipOwned,
     SkippedInPrint

(* A command that is abandoned, or fails, ends its FEED_AUTO.              *)
LEMMA GivesUpInv ==
  ASSUME IInv, GivesUp
  PROVE  IInv'
<1>1. TodoOK /\ OthersOK /\ "gcode" \in Greenlets /\ todo["gcode"] # <<>>
  BY Parts DEF IInv, GivesUp, Has, Greenlets
<1>2. TodoOK'
  <2>1. CASE Pop("gcode")
    BY <1>1, <2>1, PopTyped
  <2>2. CASE Abandoned
    BY <1>1, <2>2, NoStep DEF Abandoned, TodoOK
  <2>3. QED
    BY <2>1, <2>2 DEF GivesUp
<1>3. OthersOK'
  BY <1>1 DEF OthersOK, GivesUp, Abandoned, history
<1>4. SkipOwned' /\ SkippedInPrint'
  BY DEF IInv, SkipOwned, SkippedInPrint, GivesUp, Abandoned
<1>5. QED
  BY <1>2, <1>3, <1>4, PartsNext DEF IInv

LEMMA FailsInv ==
  ASSUME IInv, Fails
  PROVE  IInv'
<1>1. TodoOK /\ OthersOK /\ "gcode" \in Greenlets /\ todo["gcode"] # <<>>
  BY Parts DEF IInv, Fails, Has, Greenlets
<1>2. todo["gcode"][Len(todo["gcode"])] \in Ops
  <2>1. todo["gcode"] \in Seq(Ops)
    BY <1>1 DEF TodoOK, Programs
  <2>2. Len(todo["gcode"]) \in 1 .. Len(todo["gcode"])
    BY <1>1, <2>1, EmptySeq
  <2>3. QED
    BY <2>1, <2>2, ElementOfSeq
<1>3. PICK rest \in {<<>>} \cup {<<o>> : o \in {todo["gcode"][Len(todo["gcode"])]}
                                                \ {Do("unskip", None)}} :
         todo' = [todo EXCEPT !["gcode"] = rest]
  BY DEF Fails
<1>4. rest \in Programs
  BY <1>2, <1>3, NoStep, OneStep
<1>5. TodoOK'
  BY <1>1, <1>3, <1>4 DEF TodoOK
<1>6. OthersOK'
  BY <1>1 DEF OthersOK, Fails, history
<1>7. SkipOwned' /\ SkippedInPrint'
  BY DEF IInv, SkipOwned, SkippedInPrint, Fails
<1>8. QED
  BY <1>5, <1>6, <1>7, PartsNext DEF IInv

(* A reconnection, a reset, a reset that swallows an answer.               *)
LEMMA ConnectInv ==
  ASSUME IInv, Connect
  PROVE  IInv'
<1>1. TodoOK /\ OthersOK /\ "connect" \in Greenlets
  BY Parts DEF IInv, Greenlets
<1>2. CASE idx = None
  <2>1. TodoOK'
    BY <1>1, <1>2 DEF Connect, TodoOK
  <2>2. OthersOK'
    BY <1>1 DEF OthersOK, Connect, code, history
  <2>3. QED
    BY <2>1, <2>2, PartsNext DEF IInv, Connect, code, SkipOwned, SkippedInPrint
<1>3. CASE idx # None
  <2>1. Do("arm", idx) \in Ops
    BY <1>1, <1>3, SlotOps DEF OthersOK
  <2>2. Append(todo["connect"], Do("arm", idx)) \in Programs
    BY <1>1, <2>1, AppendProperties DEF TodoOK, Programs
  <2>3. TodoOK'
    BY <1>1, <1>3, <2>2 DEF Connect, TodoOK
  <2>4. OthersOK'
    BY <1>1 DEF OthersOK, Connect, code, history
  <2>5. QED
    BY <2>3, <2>4, PartsNext DEF IInv, Connect, code, SkipOwned, SkippedInPrint
<1>4. QED
  BY <1>2, <1>3

LEMMA ResetInv ==
  ASSUME IInv, NEW a \in Aces, Reset(a)
  PROVE  IInv'
<1>1. TodoOK /\ OthersOK
  BY Parts DEF IInv
<1>2. TodoOK'
  BY <1>1 DEF Reset, TodoOK
<1>3. OthersOK'
  <2>1. resets' \in 0 .. MaxResets
    BY <1>1 DEF OthersOK, Reset
  <2>2. assist' \in [Aces -> Slots \cup {None}]
    BY <1>1 DEF OthersOK, Reset
  <2>3. up' \in BOOLEAN /\ overlapped' \in BOOLEAN
    BY <1>1 DEF OthersOK, Reset
  <2>4. QED
    BY <1>1, <2>1, <2>2, <2>3 DEF OthersOK, Reset, code
<1>4. QED
  BY <1>2, <1>3, PartsNext DEF IInv, Reset, code, SkipOwned, SkippedInPrint

LEMMA StopLostInv ==
  ASSUME IInv, NEW g \in Greenlets, StopLost(g)
  PROVE  IInv'
<1>1. TodoOK /\ OthersOK /\ todo[g] # <<>> /\ Pop(g)
  BY Parts DEF IInv, StopLost, Has
<1>2. TodoOK'
  BY <1>1, PopTyped
<1>3. OthersOK'
  <2>1. resets' \in 0 .. MaxResets
    BY <1>1 DEF OthersOK, StopLost
  <2>2. assist' \in [Aces -> Slots \cup {None}]
    BY <1>1 DEF OthersOK, StopLost
  <2>3. QED
    BY <1>1, <2>1, <2>2 DEF OthersOK, StopLost, code
<1>4. QED
  BY <1>2, <1>3, PartsNext DEF IInv, StopLost, code, SkipOwned, SkippedInPrint

(* The other steps of a program.                                           *)
LEMMA SelectInv ==
  ASSUME IInv, NEW g \in Greenlets, Select(g)
  PROVE  IInv'
<1>1. TypeOK /\ TodoOK /\ OthersOK /\ todo[g] # <<>> /\ At(g) \in Heads
  BY Parts, AtTyped DEF IInv, Select, Has
<1>2. FollowsTool(At(g)) \in Programs /\ <<>> \in Programs
  BY <1>1, FollowsToolTyped, NoStep
<1>3. TodoOK'
  BY <1>1, <1>2, InsteadTyped DEF Select
<1>4. OthersOK'
  BY <1>1 DEF OthersOK, Select, history
<1>5. QED
  BY <1>3, <1>4, PartsNext DEF IInv, Select, SkipOwned, SkippedInPrint

LEMMA SkipInv ==
  ASSUME IInv, NEW g \in Greenlets, Skip(g) \/ Unskip(g)
  PROVE  IInv'
<1>1. TodoOK /\ OthersOK /\ todo[g] # <<>> /\ Pop(g)
  BY Parts DEF IInv, Skip, Unskip, Has
<1>2. Skip(g) => At(g) \in Heads
  BY <1>1, AtTyped DEF Skip, Has
<1>3. TodoOK'
  BY <1>1, PopTyped
<1>4. OthersOK'
  BY <1>1, <1>2 DEF OthersOK, Skip, Unskip, history
<1>5. SkipOwned' /\ SkippedInPrint'
  BY <1>1 DEF IInv, OthersOK, SkipOwned, SkippedInPrint, Skip, Unskip
<1>6. QED
  BY <1>3, <1>4, <1>5, PartsNext DEF IInv

LEMMA OwnInv ==
  ASSUME IInv, NEW g \in Greenlets, Own(g)
  PROVE  IInv'
<1>1. TodoOK /\ OthersOK /\ todo[g] # <<>> /\ At(g) \in Heads
  BY Parts, AtTyped DEF IInv, Own, Has
<1>2. source[At(g)] # None => source[At(g)].ace \in Aces
  BY <1>1 DEF OthersOK, Source
<1>3. <<>> \in Programs
      /\ (source[At(g)] # None => Fetches(source[At(g)].ace) \in Programs)
  BY <1>2, FetchesTyped, NoStep
<1>4. TodoOK'
  BY <1>1, <1>3, InsteadTyped DEF Own
<1>5. OthersOK'
  BY <1>1 DEF OthersOK, Own, code, history
<1>6. QED
  BY <1>4, <1>5, PartsNext DEF IInv, Own, code, SkipOwned, SkippedInPrint

LEMMA RecordInv ==
  ASSUME IInv, NEW g \in Greenlets,
         Moved(g) \/ Forget(g) \/ Record(g) \/ Release(g)
  PROVE  IInv'
<1>1. TodoOK /\ OthersOK /\ todo[g] # <<>> /\ Pop(g)
  BY Parts DEF IInv, Moved, Forget, Record, Release, Has
<1>2. TodoOK'
  BY <1>1, PopTyped
<1>3. Record(g) => [ace |-> active, slot |-> At(g)[2]] \in Source
  BY <1>1, AtTyped DEF Record, Has, Source, OthersOK
<1>4. source' \in [Heads -> Source \cup {None}]
  BY <1>1, <1>3 DEF OthersOK, Moved, Forget, Record, Release, code
<1>5. OthersOK'
  BY <1>1, <1>4 DEF OthersOK, Moved, Forget, Record, Release, code, history
<1>6. SkipOwned' /\ SkippedInPrint'
  BY DEF IInv, SkipOwned, SkippedInPrint, Moved, Forget, Record, Release, code
<1>7. QED
  BY <1>2, <1>5, <1>6, PartsNext DEF IInv

(* The commands.                                                           *)
LEMMA RunsTyped ==
  ASSUME IInv, NEW p \in Programs, NEW b \in BOOLEAN, Runs(p, b)
  PROVE  TodoOK' /\ served' \in BOOLEAN /\ overlapped' \in BOOLEAN
<1>1. TodoOK /\ OthersOK /\ "gcode" \in Greenlets
  BY Parts DEF IInv, Greenlets
<1>2. TodoOK'
  BY <1>1 DEF Runs, TodoOK
<1>3. QED
  BY <1>1, <1>2 DEF Runs, OthersOK

LEMMA PlainCommandInv ==
  ASSUME IInv, NEW p \in Programs, NEW b \in BOOLEAN, Runs(p, b),
         UNCHANGED <<active, up, idx, assist, code, resets>>
  PROVE  IInv'
<1>1. OthersOK
  BY Parts DEF IInv
<1>2. TodoOK' /\ served' \in BOOLEAN /\ overlapped' \in BOOLEAN
  BY RunsTyped
<1>3. OthersOK'
  BY <1>1, <1>2 DEF OthersOK, code
<1>4. QED
  BY <1>2, <1>3, PartsNext DEF IInv, code, SkipOwned, SkippedInPrint

LEMMA LoadTyped ==
  ASSUME NEW h \in Heads, NEW a \in Aces, NEW s \in Slots
  PROVE  Fetches(a) \o <<Do("select", h)>> \o Feeds(h)
           \o <<Do("record", <<h, s>>)>> \in Programs
<1>1. Fetches(a) \in Programs /\ Feeds(h) \in Programs
  BY FetchesTyped, FeedsTyped
<1>2. Do("select", h) \in Ops /\ Do("record", <<h, s>>) \in Ops
  BY HeadOps, RecordOps
<1>3. <<Do("select", h)>> \in Programs /\ <<Do("record", <<h, s>>)>> \in Programs
  BY <1>2, OneStep
<1>4. Fetches(a) \o <<Do("select", h)>> \in Programs
  BY <1>1, <1>3, ConcatProperties DEF Programs
<1>5. Fetches(a) \o <<Do("select", h)>> \o Feeds(h) \in Programs
  BY <1>1, <1>4, ConcatProperties DEF Programs
<1>6. QED
  BY <1>3, <1>5, ConcatProperties DEF Programs

LEMMA UnloadTyped ==
  ASSUME NEW h \in Heads, NEW a \in Aces
  PROVE  Fetches(a) \o <<Do("quiet", None)>> \o Unfeeds(h) \in Programs
<1>1. Fetches(a) \in Programs /\ Unfeeds(h) \in Programs
  BY FetchesTyped, UnfeedsTyped
<1>2. <<Do("quiet", None)>> \in Programs
  BY PlainOps, OneStep
<1>3. Fetches(a) \o <<Do("quiet", None)>> \in Programs
  BY <1>1, <1>2, ConcatProperties DEF Programs
<1>4. QED
  BY <1>1, <1>3, ConcatProperties DEF Programs

LEMMA PrintStartInv ==
  ASSUME IInv, PrintStart
  PROVE  IInv'
<1>1. TypeOK /\ OthersOK /\ tool \in Heads
  BY Parts DEF IInv, OthersOK
<1> DEFINE p == IF source[tool] = None \/ tool \in Foreign THEN <<>>
                ELSE FollowsTool(tool)
<1>2. p \in Programs
  BY <1>1, NoStep, FollowsToolTyped
<1>3. Runs(p, served) /\ served \in BOOLEAN
  BY <1>1 DEF PrintStart, OthersOK
<1>4. TodoOK' /\ served' \in BOOLEAN /\ overlapped' \in BOOLEAN
  BY <1>2, <1>3, RunsTyped
<1>5. OthersOK'
  BY <1>1, <1>4 DEF OthersOK, PrintStart, Foreign
<1>6. SkipOwned' /\ SkippedInPrint'
  BY DEF IInv, SkipOwned, SkippedInPrint, PrintStart
<1>7. QED
  BY <1>4, <1>5, <1>6, PartsNext DEF IInv

LEMMA PrintEndInv ==
  ASSUME IInv, PrintEnd
  PROVE  IInv'
<1>1. OthersOK
  BY Parts DEF IInv
<1>2. Do("quiet", None) \in Ops /\ Do("release", None) \in Ops
  BY PlainOps
<1>3. <<Do("quiet", None), Do("release", None)>> \in Programs
  BY <1>2 DEF Programs
<1>4. TodoOK' /\ served' \in BOOLEAN /\ overlapped' \in BOOLEAN
  BY <1>3, RunsTyped DEF PrintEnd
<1>5. OthersOK'
  BY <1>1, <1>4 DEF OthersOK, PrintEnd
<1>6. SkipOwned' /\ SkippedInPrint'
  BY DEF IInv, SkipOwned, SkippedInPrint, PrintEnd
<1>7. QED
  BY <1>4, <1>5, <1>6, PartsNext DEF IInv

LEMMA CommandInv ==
  ASSUME IInv, Command
  PROVE  IInv'
<1>1. TypeOK /\ OthersOK
  BY Parts DEF IInv
<1>2. ASSUME NEW h \in Heads, ToolChange(h) PROVE IInv'
  <2>1. <<Do("select", h)>> \in Programs
    BY HeadOps, OneStep
  <2>2. QED
    BY <1>2, <2>1, PlainCommandInv DEF ToolChange
<1>3. ASSUME NEW h \in Heads, UnloadHead(h) PROVE IInv'
  <2>1. source[h].ace \in Aces
    BY <1>1, <1>3 DEF OthersOK, Source, UnloadHead
  <2>2. QED
    BY <1>3, <2>1, UnloadTyped, PlainCommandInv DEF UnloadHead
<1>4. ASSUME NEW h \in Heads, FeedAuto(h) PROVE IInv'
  BY <1>4, FeedsTyped, UnfeedsTyped, PlainCommandInv DEF FeedAuto
<1>5. ASSUME NEW h \in Heads, NEW a \in Aces, NEW s \in Slots, LoadHead(h, a, s)
      PROVE IInv'
  BY <1>5, LoadTyped, PlainCommandInv DEF LoadHead
<1>6. ASSUME NEW a \in Aces, AceSwitch(a) PROVE IInv'
  <2>1. Do("quiet", None) \in Ops /\ Do("switch", a) \in Ops
    BY PlainOps, AceOps
  <2>2. <<Do("quiet", None), Do("switch", a)>> \in Programs
    BY <2>1 DEF Programs
  <2>3. QED
    BY <1>6, <2>2, PlainCommandInv DEF AceSwitch
<1>7. ASSUME NEW s \in Slots, EnableAssist(s) PROVE IInv'
  <2>1. <<Do("arm", s)>> \in Programs
    BY SlotOps, OneStep
  <2>2. QED
    BY <1>7, <2>1, PlainCommandInv DEF EnableAssist, Asked
<1>8. ASSUME DisableAssist \/ AutoFeedOff PROVE IInv'
  <2>1. <<Do("stop", None)>> \in Programs /\ <<Do("quiet", None)>> \in Programs
    BY PlainOps, OneStep
  <2>2. QED
    BY <1>8, <2>1, PlainCommandInv DEF DisableAssist, AutoFeedOff, Asked
<1>9. QED
  BY <1>2, <1>3, <1>4, <1>5, <1>6, <1>7, <1>8, PrintStartInv, PrintEndInv
     DEF Command
-----------------------------------------------------------------------------
LEMMA InitInv == Init => IInv
<1>1. SUFFICES ASSUME Init PROVE IInv
  OBVIOUS
<1>2. TodoOK
  BY <1>1, NoStep DEF Init, TodoOK
<1>3. OthersOK
  <2>1. up \in BOOLEAN /\ served \in BOOLEAN /\ overlapped \in BOOLEAN
    BY <1>1, Zenon DEF Init
  <2>2. resets \in 0 .. MaxResets
    BY <1>1 DEF Init
  <2>3. /\ active \in Aces /\ idx = None /\ source = [h \in Heads |-> None]
        /\ tool \in Heads /\ phase = "idle" /\ skip = {} /\ skipped = {}
        /\ feeding = None /\ assist = [a \in Aces |-> None]
    BY <1>1, Zenon DEF Init
  <2>4. QED
    BY <2>1, <2>2, <2>3 DEF OthersOK
<1>4. QED
  BY <1>1, <1>2, <1>3, Parts DEF IInv, Init, SkipOwned, SkippedInPrint

LEMMA StepInv == IInv /\ [Next]_vars => IInv'
<1>1. SUFFICES ASSUME IInv, [Next]_vars PROVE IInv'
  OBVIOUS
<1>2. "gcode" \in Greenlets /\ "connect" \in Greenlets
  BY DEF Greenlets
<1>3. CASE GcodeStep
  <2>1. CASE \/ Stop("gcode") \/ Quiet("gcode") \/ Arm("gcode")
             \/ Start("gcode") \/ Switch("gcode") \/ Fetch("gcode")
             \/ Arrives("gcode") \/ GoesBack("gcode") \/ GivesUp
    BY <1>1, <1>2, <2>1, StopInv, ArmInv, SwitchInv, ArrivesInv, GivesUpInv
  <2>2. CASE \/ Select("gcode") \/ Skip("gcode") \/ Unskip("gcode")
             \/ Moved("gcode") \/ Fails \/ Own("gcode") \/ Forget("gcode")
             \/ Record("gcode") \/ Release("gcode")
    BY <1>1, <1>2, <2>2, SelectInv, SkipInv, FailsInv, OwnInv, RecordInv
  <2>3. QED
    BY <1>3, <2>1, <2>2 DEF GcodeStep
<1>4. CASE ConnectStep
  BY <1>1, <1>2, <1>4, ArmInv DEF ConnectStep
<1>5. CASE Command
  BY <1>1, <1>5, CommandInv
<1>6. CASE \/ Connect \/ \E a \in Aces : Reset(a) \/ StopLost("gcode")
  BY <1>1, <1>2, <1>6, ConnectInv, ResetInv, StopLostInv
<1>7. CASE UNCHANGED vars
  <2>1. TypeOK' /\ SkipOwned' /\ SkippedInPrint'
    BY <1>1, <1>7 DEF IInv, TypeOK, SkipOwned, SkippedInPrint, vars
  <2>2. QED
    BY <2>1 DEF IInv
<1>8. QED
  BY <1>1, <1>3, <1>4, <1>5, <1>6, <1>7 DEF Next

(* IInv is an inductive invariant.                                         *)
THEOREM Inductive == Spec => []IInv
BY InitInv, StepInv, PTL DEF Spec

(* Programs are made of well-formed steps, every variable keeps its type.  *)
THEOREM TypeCorrect == Spec => []TypeOK
<1>1. IInv => TypeOK
  BY DEF IInv
<1>2. QED
  BY <1>1, Inductive, PTL

(* Without print and FEED_AUTO every entangle detector is on, whatever     *)
(* failed or was reset: each is off on behalf of the FEED_AUTO under way   *)
(* or of the print, and both release what they hold.                       *)
THEOREM DetectorsCorrect == Spec => []DetectorsBackOn
<1>1. IInv => DetectorsBackOn
  <2>1. SUFFICES ASSUME IInv, phase = "idle", feeding = None PROVE skip = {}
    BY DEF DetectorsBackOn
  <2>2. skip \subseteq {None} /\ skip \subseteq Heads
    BY <2>1 DEF IInv, TypeOK, SkipOwned, SkippedInPrint
  <2>3. QED
    BY <2>2
<1>2. QED
  BY <1>1, Inductive, PTL

-----------------------------------------------------------------------------
(* What the ACEs do.  A silent step is one that no ACE may assist beside;  *)
(* it comes right after the step that silences, or after another silent    *)
(* one.  All of it is about commands that ran beside no reset.             *)
Silent == {"own", "fetch", "switched", "switch", "tried", "feed", "pull"}

(* Step w may come right after step v.                                     *)
Follows(v, w) ==
  /\ w \in {"feed", "own"} => v = "stop"
  /\ w \in {"fetch", "switch"} => v = "quiet"
  /\ w = "pull" => v \in {"own", "fetch", "switched"}
  /\ w \notin {"tried", "switched"}

(* A flush that fails leaves at most the last step of its program.         *)
Sound(p) ==
  /\ \A k \in 1 .. (Len(p) - 1) : Follows(p[k].do, p[k + 1].do)
  /\ \A k \in 1 .. Len(p) : p[k].do = "flush" => p[Len(p)].do \notin Silent

Unassisted == idx = None /\ assist = [a \in Aces |-> None]

Arming == {Do("arm", idx), Do("start", idx)}

(* Only the active ACE assists, and only the slot the code has in mind; it *)
(* does so unless a reset made it forget, which _connect has yet to heal,  *)
(* or it refuses.                                                          *)
Known ==
  /\ \A a \in Aces \ {active} : assist[a] = None
  /\ assist[active] \in {idx, None}
  /\ assist[active] # idx =>
       ~up \/ todo["connect"] # <<>> \/ active \in PrintOff
  /\ todo["gcode"] # <<>> => todo["connect"] = <<>> /\ (up \/ idx = None)
  /\ \A k \in 1 .. Len(todo["connect"]) : todo["connect"][k] \in Arming

SilentNow == todo["gcode"] # <<>> /\ What("gcode") \in Silent => Unassisted

(* The slot of the active ACE that the tool needs, and how far the tool    *)
(* change is on its way to it.                                             *)
Want == IF source[tool].ace = active THEN source[tool].slot ELSE None

Arrived == todo["gcode"] = <<>>
           /\ (source[tool] = None \/ active \in PrintOff \/ idx = Want)
Selects == \E h \in Heads \ {tool} : todo["gcode"] = <<Do("select", h)>>
Arms == /\ source[tool] # None /\ source[tool].ace = active
        /\ \E w \in {"arm", "start"} :
             todo["gcode"] = <<Do(w, source[tool].slot)>>
Stops == /\ source[tool] # None /\ source[tool].ace # active
         /\ todo["gcode"] = <<Do("stop", None)>>

Serves == served => Arrived \/ Selects \/ Arms \/ Stops

AInv == Sound(todo["gcode"]) /\ (~overlapped => Known /\ SilentNow /\ Serves)
-----------------------------------------------------------------------------
(* Sound programs.                                                         *)

LEMMA EmptySound == Sound(<<>>)
BY DEF Sound

LEMMA OneSound == \A o \in Ops : Sound(<<o>>)
<1>1. SUFFICES ASSUME NEW o \in Ops PROVE Sound(<<o>>)
  OBVIOUS
<1>2. Len(<<o>>) = 1 /\ <<o>>[1] = o
  OBVIOUS
<1>3. QED
  BY <1>2 DEF Sound, Silent

LEMMA TailSound ==
  ASSUME NEW p \in Programs, p # <<>>, Sound(p)
  PROVE  /\ Sound(Tail(p))
         /\ Tail(p) # <<>> => Follows(Head(p).do, Head(Tail(p)).do)
<1>1. /\ Len(p) \in Nat \ {0} /\ Len(Tail(p)) = Len(p) - 1
      /\ \A i \in 1 .. Len(Tail(p)) : Tail(p)[i] = p[i + 1]
      /\ Tail(p) \in Programs
  BY HeadTailProperties, EmptySeq DEF Programs
<1>2. ASSUME NEW k \in 1 .. (Len(Tail(p)) - 1)
      PROVE  Follows(Tail(p)[k].do, Tail(p)[k + 1].do)
  <2>1. k + 1 \in 1 .. (Len(p) - 1) /\ k \in 1 .. Len(Tail(p))
        /\ k + 1 \in 1 .. Len(Tail(p))
    BY <1>1
  <2>2. Follows(p[k + 1].do, p[k + 2].do) /\ Tail(p)[k] = p[k + 1]
        /\ Tail(p)[k + 1] = p[k + 2]
    <3>1. Follows(p[k + 1].do, p[(k + 1) + 1].do)
      BY <2>1 DEF Sound
    <3>2. (k + 1) + 1 = k + 2
      BY <1>1
    <3>3. QED
      BY <1>1, <2>1, <3>1, <3>2
  <2>3. QED
    BY <2>2
<1>3. ASSUME NEW k \in 1 .. Len(Tail(p)), Tail(p)[k].do = "flush"
      PROVE  Tail(p)[Len(Tail(p))].do \notin Silent
  <2>1. k + 1 \in 1 .. Len(p) /\ p[k + 1].do = "flush"
    BY <1>1, <1>3
  <2>2. Len(Tail(p)) \in 1 .. Len(Tail(p)) /\ Len(Tail(p)) + 1 = Len(p)
    BY <1>1
  <2>3. Tail(p)[Len(Tail(p))] = p[Len(p)]
    BY <1>1, <2>2
  <2>4. QED
    BY <2>1, <2>3 DEF Sound
<1>4. ASSUME Tail(p) # <<>> PROVE Follows(Head(p).do, Head(Tail(p)).do)
  <2>1. Len(Tail(p)) \in Nat \ {0}
    BY <1>1, <1>4, EmptySeq DEF Programs
  <2>2. 1 \in 1 .. (Len(p) - 1) /\ 1 \in 1 .. Len(Tail(p))
    BY <1>1, <2>1
  <2>3. Head(Tail(p)) = p[2] /\ Head(p) = p[1]
    BY <1>1, <2>2
  <2>4. QED
    BY <2>2, <2>3 DEF Sound
<1>5. QED
  BY <1>2, <1>3, <1>4 DEF Sound

(* A program after another one: the seam is sound, and what ends the whole *)
(* ends every flush of the first.                                          *)
LEMMA ConcatSound ==
  ASSUME NEW p \in Programs, NEW q \in Programs, Sound(p), Sound(q),
         p # <<>> /\ q # <<>> => Follows(p[Len(p)].do, q[1].do),
         q # <<>> => q[Len(q)].do \notin Silent
                       \/ \A k \in 1 .. Len(p) : p[k].do # "flush"
  PROVE  Sound(p \o q)
<1> DEFINE r == p \o q
<1>1. /\ Len(p) \in Nat /\ Len(q) \in Nat /\ Len(r) = Len(p) + Len(q)
      /\ \A i \in 1 .. Len(p) + Len(q) :
           r[i] = IF i <= Len(p) THEN p[i] ELSE q[i - Len(p)]
  BY ConcatProperties, LenProperties DEF Programs
<1>2. (p = <<>> <=> Len(p) = 0) /\ (q = <<>> <=> Len(q) = 0)
  BY EmptySeq DEF Programs
<1>3. ASSUME NEW k \in 1 .. (Len(r) - 1) PROVE Follows(r[k].do, r[k + 1].do)
  <2>1. CASE k + 1 <= Len(p)
    <3>1. k \in 1 .. (Len(p) - 1) /\ r[k] = p[k] /\ r[k + 1] = p[k + 1]
      BY <1>1, <2>1
    <3>2. QED
      BY <3>1 DEF Sound
  <2>2. CASE k = Len(p)
    <3>1. r[k] = p[Len(p)] /\ r[k + 1] = q[1] /\ p # <<>> /\ q # <<>>
      BY <1>1, <1>2, <2>2
    <3>2. QED
      BY <3>1
  <2>3. CASE k > Len(p)
    <3>1. /\ k - Len(p) \in 1 .. (Len(q) - 1) /\ r[k] = q[k - Len(p)]
          /\ r[k + 1] = q[(k - Len(p)) + 1]
      <4>1. k + 1 - Len(p) = (k - Len(p)) + 1
        BY <1>1
      <4>2. QED
        BY <1>1, <2>3, <4>1
    <3>2. QED
      BY <3>1 DEF Sound
  <2>4. QED
    BY <1>1, <2>1, <2>2, <2>3
<1>4. ASSUME NEW k \in 1 .. Len(r), r[k].do = "flush"
      PROVE  r[Len(r)].do \notin Silent
  <2>1. CASE q = <<>>
    <3>1. Len(r) = Len(p) /\ r[k] = p[k] /\ r[Len(r)] = p[Len(p)]
      BY <1>1, <1>2, <2>1
    <3>2. QED
      BY <1>4, <3>1 DEF Sound
  <2>2. CASE q # <<>>
    <3>1. r[Len(r)] = q[Len(q)]
      <4>1. Len(r) \in 1 .. Len(p) + Len(q) /\ ~(Len(r) <= Len(p))
            /\ Len(r) - Len(p) = Len(q)
        BY <1>1, <1>2, <2>2
      <4>2. QED
        BY <1>1, <4>1
    <3>2. CASE k <= Len(p)
      BY <1>1, <1>4, <2>2, <3>1, <3>2
    <3>3. CASE k > Len(p)
      <4>1. k - Len(p) \in 1 .. Len(q) /\ r[k] = q[k - Len(p)]
        BY <1>1, <3>3
      <4>2. QED
        BY <1>4, <3>1, <4>1 DEF Sound
    <3>4. QED
      BY <1>1, <3>2, <3>3
  <2>3. QED
    BY <2>1, <2>2
<1>5. QED
  BY <1>3, <1>4 DEF Sound

(* Where two programs, one after the other, begin and end.                 *)
LEMMA ConcatEnds ==
  ASSUME NEW p \in Programs, NEW q \in Programs
  PROVE  /\ p \o q \in Programs /\ Len(p \o q) = Len(p) + Len(q)
         /\ p \o q = <<>> <=> p = <<>> /\ q = <<>>
         /\ Len(p) > 0 => (p \o q)[1] = p[1]
         /\ Len(p) = 0 /\ Len(q) > 0 => (p \o q)[1] = q[1]
         /\ Len(q) > 0 => (p \o q)[Len(p) + Len(q)] = q[Len(q)]
<1>1. /\ Len(p) \in Nat /\ Len(q) \in Nat /\ Len(p \o q) = Len(p) + Len(q)
      /\ p \o q \in Programs
      /\ \A i \in 1 .. Len(p) + Len(q) :
           (p \o q)[i] = IF i <= Len(p) THEN p[i] ELSE q[i - Len(p)]
  BY ConcatProperties, LenProperties DEF Programs
<1>2. Len(p) > 0 => (p \o q)[1] = p[1]
  <2>1. Len(p) > 0 => 1 \in 1 .. Len(p) + Len(q) /\ 1 <= Len(p)
    BY <1>1
  <2>2. QED
    BY <1>1, <2>1
<1>3. Len(p) = 0 /\ Len(q) > 0 => (p \o q)[1] = q[1]
  <2>1. Len(p) = 0 /\ Len(q) > 0 =>
          1 \in 1 .. Len(p) + Len(q) /\ ~(1 <= Len(p)) /\ 1 - Len(p) = 1
    BY <1>1
  <2>2. QED
    BY <1>1, <2>1
<1>4. Len(q) > 0 => (p \o q)[Len(p) + Len(q)] = q[Len(q)]
  <2>1. Len(q) > 0 => /\ Len(p) + Len(q) \in 1 .. Len(p) + Len(q)
                      /\ ~(Len(p) + Len(q) <= Len(p))
                      /\ (Len(p) + Len(q)) - Len(p) = Len(q)
    BY <1>1
  <2>2. QED
    BY <1>1, <2>1
<1>5. p \o q = <<>> <=> p = <<>> /\ q = <<>>
  BY ConcatEqualIffEmpty DEF Programs
<1>6. QED
  BY <1>1, <1>2, <1>3, <1>4, <1>5

(* Popping a step, or putting a program without a flush in its place that  *)
(* may be followed by whatever may follow the step.                        *)
LEMMA PopSound ==
  ASSUME TodoOK, NEW g \in Greenlets, todo[g] # <<>>, Sound(todo[g]), Pop(g)
  PROVE  /\ Sound(todo'[g])
         /\ todo'[g] # <<>> => Follows(What(g), Head(todo'[g]).do)
         /\ \A o \in Greenlets \ {g} : todo'[o] = todo[o]
<1>1. todo'[g] = Tail(todo[g])
  BY DEF Pop, TodoOK
<1>2. todo[g] \in Programs
  BY DEF TodoOK
<1>3. \A o \in Greenlets \ {g} : todo'[o] = todo[o]
  BY DEF Pop, TodoOK
<1>4. QED
  BY <1>1, <1>2, <1>3, TailSound DEF What

LEMMA InsteadSound ==
  ASSUME TodoOK, NEW g \in Greenlets, todo[g] # <<>>, Sound(todo[g]),
         NEW p \in Programs, Instead(g, p), Sound(p),
         \A k \in 1 .. Len(p) : p[k].do # "flush",
         p # <<>>,
         \A w : Follows(What(g), w) => Follows(p[Len(p)].do, w)
  PROVE  /\ Sound(todo'[g])
         /\ todo'[g] # <<>> /\ Head(todo'[g]) = p[1]
         /\ \A o \in Greenlets \ {g} : todo'[o] = todo[o]
<1>1. todo'[g] = p \o Tail(todo[g])
      /\ \A o \in Greenlets \ {g} : todo'[o] = todo[o]
  BY DEF Instead, TodoOK
<1>2. todo[g] \in Programs /\ Tail(todo[g]) \in Programs
  BY NextTyped DEF TodoOK
<1>3. Sound(Tail(todo[g]))
      /\ (Tail(todo[g]) # <<>> => Follows(What(g), Head(Tail(todo[g])).do))
  BY <1>2, TailSound DEF What
<1>4. Tail(todo[g]) # <<>> => Follows(p[Len(p)].do, Tail(todo[g])[1].do)
  BY <1>3
<1>5. Sound(todo'[g])
  BY <1>1, <1>2, <1>3, <1>4, ConcatSound
<1>6. Len(p) > 0
  BY EmptySeq DEF Programs
<1>7. p \o Tail(todo[g]) # <<>> /\ (p \o Tail(todo[g]))[1] = p[1]
  BY <1>2, <1>6, ConcatEnds
<1>8. QED
  BY <1>1, <1>5, <1>7

(* The programs of the commands are sound.                                 *)
LEMMA FetchesSound ==
  ASSUME NEW a \in Aces
  PROVE  /\ Sound(Fetches(a))
         /\ \A k \in 1 .. Len(Fetches(a)) : Fetches(a)[k].do # "flush"
         /\ Fetches(a) # <<>> => /\ Fetches(a)[1].do = "quiet"
                                 /\ Fetches(a)[Len(Fetches(a))].do = "fetch"
<1>1. CASE Fetches(a) = <<>>
  BY <1>1, EmptySound
<1>2. CASE Fetches(a) # <<>>
  <2>1. Fetches(a) = <<Do("quiet", None), Do("fetch", a)>>
    BY <1>2 DEF Fetches
  <2>2. /\ Len(Fetches(a)) = 2 /\ Fetches(a)[1].do = "quiet"
        /\ Fetches(a)[2].do = "fetch"
    BY <2>1 DEF Do
  <2>3. QED
    BY <2>2 DEF Sound, Follows
<1>3. QED
  BY <1>1, <1>2

LEMMA FollowsToolSound ==
  ASSUME TypeOK, NEW h \in Heads
  PROVE  /\ Sound(FollowsTool(h))
         /\ \A k \in 1 .. Len(FollowsTool(h)) : FollowsTool(h)[k].do # "flush"
         /\ FollowsTool(h) # <<>> =>
              /\ Len(FollowsTool(h)) = 1
              /\ FollowsTool(h)[1].do \in {"arm", "stop"}
<1>1. CASE FollowsTool(h) = <<>>
  BY <1>1, EmptySound
<1>2. CASE FollowsTool(h) = <<Do("arm", source[h].slot)>>
           \/ FollowsTool(h) = <<Do("stop", None)>>
  <2>1. Len(FollowsTool(h)) = 1 /\ FollowsTool(h)[1].do \in {"arm", "stop"}
    BY <1>2 DEF Do
  <2>2. QED
    BY <2>1 DEF Sound, Follows
<1>3. QED
  BY <1>1, <1>2 DEF FollowsTool

LEMMA FeedsSound ==
  ASSUME NEW h \in Heads
  PROVE  /\ Sound(Feeds(h)) /\ Len(Feeds(h)) = 8
         /\ Feeds(h)[1].do = "skip" /\ Feeds(h)[8].do = "unskip"
<1>1. /\ Len(Feeds(h)) = 8
      /\ Feeds(h)[1].do = "skip" /\ Feeds(h)[2].do = "select"
      /\ Feeds(h)[3].do = "stop" /\ Feeds(h)[4].do = "feed"
      /\ Feeds(h)[5].do = "arm" /\ Feeds(h)[6].do = "flush"
      /\ Feeds(h)[7].do = "record" /\ Feeds(h)[8].do = "unskip"
  BY DEF Feeds, Do
<1>2. \A k \in 1 .. 7 : \/ k = 1 \/ k = 2 \/ k = 3 \/ k = 4 \/ k = 5 \/ k = 6
                        \/ k = 7
  OBVIOUS
<1>3. \A k \in 1 .. 7 : Follows(Feeds(h)[k].do, Feeds(h)[k + 1].do)
  <2>1. SUFFICES ASSUME NEW k \in 1 .. 7
                 PROVE  Follows(Feeds(h)[k].do, Feeds(h)[k + 1].do)
    OBVIOUS
  <2>2. CASE k = 1 \/ k = 2 \/ k = 3
    BY <1>1, <2>2 DEF Follows
  <2>3. CASE k = 4 \/ k = 5 \/ k = 6 \/ k = 7
    BY <1>1, <2>3 DEF Follows
  <2>4. QED
    BY <1>2, <2>2, <2>3
<1>4. QED
  BY <1>1, <1>3 DEF Sound, Silent

LEMMA UnfeedsSound ==
  ASSUME NEW h \in Heads
  PROVE  /\ Sound(Unfeeds(h)) /\ Len(Unfeeds(h)) = 10
         /\ Unfeeds(h)[1].do = "skip" /\ Unfeeds(h)[10].do = "unskip"
<1> DEFINE p == Prepares(h)
           q == Pulls(h)
<1>1. /\ Len(p) = 4 /\ p[1].do = "skip" /\ p[2].do = "stop"
      /\ p[3].do = "select" /\ p[4].do = "unskip"
  BY DEF Prepares, Do
<1>2. /\ Len(q) = 6 /\ q[1].do = "skip" /\ q[2].do = "stop"
      /\ q[3].do = "own" /\ q[4].do = "pull"
      /\ q[5].do = "forget" /\ q[6].do = "unskip"
  BY DEF Pulls, Do
<1>3. Sound(p)
  <2>1. ASSUME NEW k \in 1 .. 3 PROVE Follows(p[k].do, p[k + 1].do)
    <3>1. k = 1 \/ k = 2 \/ k = 3
      OBVIOUS
    <3>2. QED
      BY <1>1, <3>1 DEF Follows
  <2>2. QED
    BY <1>1, <2>1 DEF Sound, Silent
<1>4. Sound(q)
  <2>1. ASSUME NEW k \in 1 .. 5 PROVE Follows(q[k].do, q[k + 1].do)
    <3>1. k = 1 \/ k = 2 \/ k = 3 \/ k = 4 \/ k = 5
      OBVIOUS
    <3>2. QED
      BY <1>2, <3>1 DEF Follows
  <2>2. QED
    BY <1>2, <2>1 DEF Sound, Silent
<1>5. p \in Programs /\ q \in Programs
  <2>1. /\ Do("skip", h) \in Ops /\ Do("select", h) \in Ops
        /\ Do("stop", None) \in Ops /\ Do("own", h) \in Ops
        /\ Do("pull", h) \in Ops /\ Do("forget", h) \in Ops
        /\ Do("unskip", None) \in Ops
    BY PlainOps, HeadOps
  <2>2. QED
    BY <2>1 DEF Prepares, Pulls, Programs
<1> HIDE DEF p, q
<1>6. Follows(p[Len(p)].do, q[1].do) /\ q[Len(q)].do \notin Silent
  BY <1>1, <1>2 DEF Follows, Silent
<1>7. Sound(p \o q)
  BY <1>3, <1>4, <1>5, <1>6, ConcatSound
<1>8. Len(p \o q) = 10 /\ (p \o q)[1] = p[1] /\ (p \o q)[10] = q[6]
  <2>1. /\ p \o q \in Programs
        /\ Len(p \o q) = Len(p) + Len(q)
        /\ Len(p) > 0 => (p \o q)[1] = p[1]
        /\ Len(p) = 0 /\ Len(q) > 0 => (p \o q)[1] = q[1]
        /\ Len(q) > 0 =>
             (p \o q)[Len(p) + Len(q)] = q[Len(q)]
    BY <1>5, ConcatEnds
  <2>2. QED
    BY <1>1, <1>2, <2>1
<1>9. QED
  BY <1>1, <1>2, <1>7, <1>8 DEF Unfeeds, p, q

LEMMA LoadSound ==
  ASSUME NEW h \in Heads, NEW a \in Aces, NEW s \in Slots
  PROVE  LET p == Fetches(a) \o <<Do("select", h)>> \o Feeds(h)
                    \o <<Do("record", <<h, s>>)>>
         IN  Sound(p) /\ p[1].do \notin Silent
<1> DEFINE f == Fetches(a)
           e == <<Do("select", h)>>
           l == Feeds(h)
           r == <<Do("record", <<h, s>>)>>
<1>1. f \in Programs /\ l \in Programs
  BY FetchesTyped, FeedsTyped
<1>2. Do("select", h) \in Ops /\ Do("record", <<h, s>>) \in Ops
  BY HeadOps, RecordOps
<1>3. /\ e \in Programs /\ Len(e) = 1 /\ e[1].do = "select" /\ Sound(e)
      /\ r \in Programs /\ Len(r) = 1 /\ r[1].do = "record" /\ Sound(r)
  BY <1>2, OneStep, OneSound DEF Do
<1>4. /\ Sound(f) /\ \A k \in 1 .. Len(f) : f[k].do # "flush"
      /\ f # <<>> => f[1].do = "quiet"
      /\ Len(f) \in Nat /\ (f = <<>> <=> Len(f) = 0)
  BY <1>1, FetchesSound, LenProperties, EmptySeq DEF Programs
<1>5. /\ Sound(l) /\ Len(l) = 8 /\ l[1].do = "skip" /\ l[8].do = "unskip"
  BY FeedsSound
<1> HIDE DEF f, e, l, r
<1>6. Sound(f \o e)
  BY <1>1, <1>3, <1>4, ConcatSound DEF Follows
<1>7. /\ f \o e \in Programs /\ Len(f \o e) = Len(f) + 1
      /\ (f \o e)[Len(f) + 1] = e[1]
      /\ (f \o e)[1] = IF f = <<>> THEN e[1] ELSE f[1]
  <2>1. /\ f \o e \in Programs
        /\ Len(f \o e) = Len(f) + Len(e)
        /\ Len(f) > 0 => (f \o e)[1] = f[1]
        /\ Len(f) = 0 /\ Len(e) > 0 => (f \o e)[1] = e[1]
        /\ Len(e) > 0 =>
             (f \o e)[Len(f) + Len(e)] = e[Len(e)]
    BY <1>1, <1>3, ConcatEnds
  <2>2. QED
    BY <1>3, <1>4, <2>1
<1>8. Sound(f \o e \o l)
  <2>1. Follows((f \o e)[Len(f \o e)].do, l[1].do)
    BY <1>3, <1>5, <1>7 DEF Follows
  <2>2. l[Len(l)].do \notin Silent
    BY <1>5 DEF Silent
  <2>3. QED
    BY <1>1, <1>5, <1>6, <1>7, <2>1, <2>2, ConcatSound
<1>9. /\ f \o e \o l \in Programs /\ Len(f \o e \o l) = Len(f) + 9
      /\ (f \o e \o l)[Len(f) + 9] = l[8]
      /\ (f \o e \o l)[1] = (f \o e)[1]
  <2>1. /\ f \o e \o l \in Programs
        /\ Len(f \o e \o l) = Len(f \o e) + Len(l)
        /\ Len(f \o e) > 0 => (f \o e \o l)[1] = (f \o e)[1]
        /\ Len(f \o e) = 0 /\ Len(l) > 0 => (f \o e \o l)[1] = l[1]
        /\ Len(l) > 0 =>
             (f \o e \o l)[Len(f \o e) + Len(l)] = l[Len(l)]
    BY <1>1, <1>7, ConcatEnds
  <2>2. QED
    BY <1>4, <1>5, <1>7, <2>1
<1>10. Sound(f \o e \o l \o r)
  <2>1. Follows((f \o e \o l)[Len(f \o e \o l)].do, r[1].do)
    BY <1>3, <1>5, <1>9 DEF Follows
  <2>2. r[Len(r)].do \notin Silent
    BY <1>3 DEF Silent
  <2>3. QED
    BY <1>3, <1>8, <1>9, <2>1, <2>2, ConcatSound
<1>11. (f \o e \o l \o r)[1] = (f \o e \o l)[1]
  BY <1>3, <1>4, <1>9, ConcatEnds
<1>12. (f \o e \o l \o r)[1].do \in {"quiet", "select"}
  BY <1>3, <1>4, <1>7, <1>9, <1>11
<1>13. QED
  BY <1>10, <1>12 DEF f, e, l, r, Silent

LEMMA UnloadSound ==
  ASSUME NEW h \in Heads, NEW a \in Aces
  PROVE  LET p == Fetches(a) \o <<Do("quiet", None)>> \o Unfeeds(h)
         IN  Sound(p) /\ p[1].do \notin Silent
<1> DEFINE f == Fetches(a)
           e == <<Do("quiet", None)>>
           l == Unfeeds(h)
<1>1. f \in Programs /\ l \in Programs
  BY FetchesTyped, UnfeedsTyped
<1>2. Do("quiet", None) \in Ops
  BY PlainOps
<1>3. /\ e \in Programs /\ Len(e) = 1 /\ e[1].do = "quiet" /\ Sound(e)
  BY <1>2, OneStep, OneSound DEF Do
<1>4. /\ Sound(f) /\ \A k \in 1 .. Len(f) : f[k].do # "flush"
      /\ f # <<>> => f[1].do = "quiet"
      /\ Len(f) \in Nat /\ (f = <<>> <=> Len(f) = 0)
  BY <1>1, FetchesSound, LenProperties, EmptySeq DEF Programs
<1>5. Sound(l) /\ Len(l) = 10 /\ l[1].do = "skip" /\ l[10].do = "unskip"
  BY UnfeedsSound
<1> HIDE DEF f, e, l
<1>6. Sound(f \o e)
  BY <1>1, <1>3, <1>4, ConcatSound DEF Follows
<1>7. /\ f \o e \in Programs /\ Len(f \o e) = Len(f) + 1
      /\ (f \o e)[Len(f) + 1] = e[1]
      /\ (f \o e)[1] = IF f = <<>> THEN e[1] ELSE f[1]
  <2>1. /\ f \o e \in Programs
        /\ Len(f \o e) = Len(f) + Len(e)
        /\ Len(f) > 0 => (f \o e)[1] = f[1]
        /\ Len(f) = 0 /\ Len(e) > 0 => (f \o e)[1] = e[1]
        /\ Len(e) > 0 =>
             (f \o e)[Len(f) + Len(e)] = e[Len(e)]
    BY <1>1, <1>3, ConcatEnds
  <2>2. QED
    BY <1>3, <1>4, <2>1
<1>8. Sound(f \o e \o l)
  <2>1. Follows((f \o e)[Len(f \o e)].do, l[1].do)
    BY <1>3, <1>5, <1>7 DEF Follows
  <2>2. l[Len(l)].do \notin Silent
    BY <1>5 DEF Silent
  <2>3. QED
    BY <1>1, <1>5, <1>6, <1>7, <2>1, <2>2, ConcatSound
<1>9. (f \o e \o l)[1] = (f \o e)[1]
  <2>1. /\ f \o e \o l \in Programs
        /\ Len(f \o e \o l) = Len(f \o e) + Len(l)
        /\ Len(f \o e) > 0 => (f \o e \o l)[1] = (f \o e)[1]
        /\ Len(f \o e) = 0 /\ Len(l) > 0 => (f \o e \o l)[1] = l[1]
        /\ Len(l) > 0 =>
             (f \o e \o l)[Len(f \o e) + Len(l)] = l[Len(l)]
    BY <1>1, <1>7, ConcatEnds
  <2>2. QED
    BY <1>4, <1>5, <1>7, <2>1
<1>10. (f \o e \o l)[1].do = "quiet"
  BY <1>3, <1>4, <1>7, <1>9
<1>11. QED
  BY <1>8, <1>10 DEF f, e, l, Silent

-----------------------------------------------------------------------------
(* Every step keeps what is known of the ACEs.                             *)

LEMMA OneHead == \A o : /\ <<o>> # <<>> /\ Head(<<o>>) = o /\ Tail(<<o>>) = <<>>
                        /\ Len(<<o>>) = 1 /\ <<o>>[1] = o
OBVIOUS

LEMMA TwoGreenlets == "gcode" \in Greenlets /\ "connect" \in Greenlets
                      /\ "connect" \in Greenlets \ {"gcode"}
                      /\ "gcode" \in Greenlets \ {"connect"}
BY DEF Greenlets

LEMMA GcodePop ==
  ASSUME TodoOK, todo["gcode"] # <<>>, Sound(todo["gcode"]), Pop("gcode")
  PROVE  /\ Sound(todo'["gcode"]) /\ todo'["connect"] = todo["connect"]
         /\ todo'["gcode"] = Tail(todo["gcode"])
         /\ todo'["gcode"] # <<>> => Follows(What("gcode"), What("gcode")')
<1>1. todo'["gcode"] = Tail(todo["gcode"])
  BY TwoGreenlets DEF Pop, TodoOK
<1>2. QED
  BY <1>1, TwoGreenlets, PopSound DEF What

LEMMA GcodeInstead ==
  ASSUME TodoOK, todo["gcode"] # <<>>, Sound(todo["gcode"]),
         NEW p \in Programs, Instead("gcode", p), Sound(p),
         \A k \in 1 .. Len(p) : p[k].do # "flush",
         p # <<>> =>
           \A w : Follows(What("gcode"), w) => Follows(p[Len(p)].do, w)
  PROVE  /\ Sound(todo'["gcode"]) /\ todo'["connect"] = todo["connect"]
         /\ todo'["gcode"] = p \o Tail(todo["gcode"])
         /\ p # <<>> => todo'["gcode"] # <<>> /\ What("gcode")' = p[1].do
         /\ p = <<>> => Pop("gcode")
<1>1. todo'["gcode"] = p \o Tail(todo["gcode"])
  BY TwoGreenlets DEF Instead, TodoOK
<1>2. CASE p = <<>>
  <2>1. p \o Tail(todo["gcode"]) = Tail(todo["gcode"])
    BY <1>2, NextTyped, TwoGreenlets, ConcatEmptySeq DEF Programs
  <2>2. Pop("gcode")
    BY <2>1 DEF Pop, Instead
  <2>3. QED
    BY <1>1, <1>2, <2>2, GcodePop
<1>3. CASE p # <<>>
  BY <1>1, <1>3, TwoGreenlets, InsteadSound DEF What
<1>4. QED
  BY <1>2, <1>3

(* Only the steps of a tool change run in one.                             *)
LEMMA ServedStep ==
  ASSUME Serves, served, todo["gcode"] # <<>>
  PROVE  /\ What("gcode") \in {"select", "arm", "start", "stop"}
         /\ Tail(todo["gcode"]) = <<>>
         /\ What("gcode") = "select" => Selects
         /\ What("gcode") \in {"arm", "start"} => Arms
         /\ What("gcode") = "stop" => Stops
<1>1. CASE Selects
  BY <1>1, OneHead DEF Selects, What, Do
<1>2. CASE Arms
  BY <1>2, OneHead DEF Arms, What, Do
<1>3. CASE Stops
  BY <1>3, OneHead DEF Stops, What, Do
<1>4. QED
  BY <1>1, <1>2, <1>3 DEF Serves, Arrived

(* A silent step leaves the ACEs as they are: nothing assists.             *)
LEMMA SilentStep ==
  ASSUME IInv, AInv, todo["gcode"] # <<>>, What("gcode") \in Silent,
         Sound(todo'["gcode"]), todo'["connect"] = todo["connect"],
         active' \in Aces, UNCHANGED <<idx, assist, served, overlapped>>
  PROVE  AInv'
<1>1. SUFFICES ASSUME ~overlapped PROVE Known' /\ SilentNow' /\ Serves'
  BY DEF AInv
<1>2. Unassisted /\ todo["connect"] = <<>>
  BY <1>1 DEF AInv, SilentNow, Known
<1>3. ~served
  BY <1>1, ServedStep DEF AInv, Silent
<1>4. idx' = None /\ \A a \in Aces : assist'[a] = None
  BY <1>2 DEF Unassisted
<1>5. todo'["connect"] = <<>> /\ Len(<<>>) = 0
  BY <1>2
<1>6. Known'
  BY <1>4, <1>5 DEF Known
<1>7. SilentNow' /\ Serves'
  BY <1>2, <1>3 DEF SilentNow, Serves, Unassisted
<1>8. QED
  BY <1>6, <1>7

(* So does any other step that is neither of a tool change nor a request.  *)
LEMMA PlainStep ==
  ASSUME IInv, AInv, todo["gcode"] # <<>>,
         What("gcode") \notin {"select", "arm", "start", "stop"},
         Sound(todo'["gcode"]), todo'["connect"] = todo["connect"],
         todo'["gcode"] # <<>> => What("gcode")' \notin Silent,
         UNCHANGED <<active, up, idx, assist, served, overlapped>>
  PROVE  AInv'
<1>1. SUFFICES ASSUME ~overlapped PROVE Known' /\ SilentNow' /\ Serves'
  BY DEF AInv
<1>2. ~served
  BY <1>1, ServedStep DEF AInv
<1>3. Known'
  BY <1>1 DEF AInv, Known, Arming
<1>4. QED
  BY <1>2, <1>3 DEF SilentNow, Serves

LEMMA StopKnown ==
  ASSUME IInv, AInv, Stop("gcode") \/ Quiet("gcode")
  PROVE  AInv'
<1>1. TodoOK /\ OthersOK /\ todo["gcode"] # <<>> /\ Pop("gcode")
      /\ What("gcode") \in {"stop", "quiet"}
  BY Parts DEF IInv, Stop, Quiet, Has, Stopped
<1>2. /\ Sound(todo'["gcode"]) /\ todo'["connect"] = todo["connect"]
      /\ todo'["gcode"] = Tail(todo["gcode"])
  BY <1>1, GcodePop DEF AInv
<1>3. UNCHANGED <<active, up, source, tool, served, overlapped>>
  BY DEF Stop, Quiet, code, history
<1>4. SUFFICES ASSUME ~overlapped PROVE Known' /\ SilentNow' /\ Serves'
  BY <1>2, <1>3 DEF AInv
<1>5. /\ \A a \in Aces \ {active} : assist[a] = None
      /\ assist[active] \in {idx, None} /\ todo["connect"] = <<>>
  BY <1>1, <1>4 DEF AInv, Known
<1>6. idx' = None /\ assist' = [a \in Aces |-> None]
  <2>1. CASE Stopped("gcode")
    <3>1. assist' = [a \in Aces |-> IF a = active /\ assist[a] = idx THEN None
                                    ELSE assist[a]]
      BY <1>1, <2>1 DEF Stopped, OthersOK
    <3>2. \A a \in Aces : IF a = active /\ assist[a] = idx THEN TRUE
                                    ELSE assist[a] = None
      BY <1>5
    <3>3. assist' = [a \in Aces |-> None]
      BY <3>1, <3>2
    <3>4. QED
      BY <2>1, <3>3 DEF Stopped
  <2>2. CASE idx = None /\ UNCHANGED <<idx, assist>>
    BY <1>1, <1>5, <2>2 DEF OthersOK
  <2>3. QED
    BY <2>1, <2>2 DEF Stop, Quiet
<1>7. todo'["connect"] = <<>> /\ Len(<<>>) = 0
  BY <1>2, <1>5
<1>8. Known'
  BY <1>1, <1>3, <1>6, <1>7 DEF Known, OthersOK
<1>9. SilentNow'
  BY <1>6 DEF SilentNow, Unassisted
<1>10. Serves'
  <2>1. SUFFICES ASSUME served PROVE Arrived'
    BY <1>3 DEF Serves
  <2>2. Stops /\ Tail(todo["gcode"]) = <<>>
    BY <1>1, <1>4, <2>1, ServedStep DEF AInv
  <2>3. QED
    BY <1>2, <1>3, <1>6, <2>2 DEF Arrived, Stops, Want
<1>11. QED
  BY <1>8, <1>9, <1>10

LEMMA ArmKnown ==
  ASSUME IInv, AInv, Arm("gcode")
  PROVE  AInv'
<1>1. TodoOK /\ OthersOK /\ todo["gcode"] # <<>> /\ What("gcode") = "arm"
      /\ At("gcode") \in Slots
  BY Parts, AtTyped, TwoGreenlets DEF IInv, Arm, Has
<1>2. UNCHANGED <<active, up, idx, assist, source, tool, served, overlapped>>
  BY DEF Arm, code, history
<1> DEFINE p == <<Do("start", At("gcode"))>>
<1>3. CASE Suppressed /\ Pop("gcode")
  <2>1. /\ Sound(todo'["gcode"]) /\ todo'["connect"] = todo["connect"]
        /\ todo'["gcode"] = Tail(todo["gcode"])
        /\ todo'["gcode"] # <<>> => Follows("arm", What("gcode")')
    BY <1>1, <1>3, GcodePop DEF AInv
  <2>2. SUFFICES ASSUME ~overlapped PROVE Known' /\ SilentNow' /\ Serves'
    BY <1>2, <2>1 DEF AInv
  <2>3. Known'
    BY <1>1, <1>2, <2>1, <2>2 DEF AInv, Known, Arming
  <2>4. SilentNow'
    BY <2>1 DEF SilentNow, Follows, Silent
  <2>5. Serves'
    BY <1>1, <1>2, <1>3, <2>1, <2>2, ServedStep
       DEF AInv, Serves, Arrived, Suppressed
  <2>6. QED
    BY <2>3, <2>4, <2>5
<1>4. CASE Instead("gcode", p)
  <2>1. p \in Programs /\ Sound(p) /\ Len(p) = 1 /\ p[1].do = "start"
        /\ p # <<>>
    <3>1. Do("start", At("gcode")) \in Ops
      BY <1>1, SlotOps
    <3>2. QED
      BY <3>1, OneStep, OneSound, OneHead DEF Do
  <2>2. /\ Sound(todo'["gcode"]) /\ todo'["connect"] = todo["connect"]
        /\ todo'["gcode"] = p \o Tail(todo["gcode"])
        /\ todo'["gcode"] # <<>> /\ What("gcode")' = "start"
    <3>1. \A w : Follows(What("gcode"), w) => Follows(p[Len(p)].do, w)
      BY <1>1, <2>1 DEF Follows
    <3>2. \A k \in 1 .. Len(p) : p[k].do # "flush"
      BY <2>1
    <3> HIDE DEF p
    <3>3. QED
      BY <1>1, <1>4, <2>1, <3>1, <3>2, GcodeInstead DEF AInv
  <2>3. SUFFICES ASSUME ~overlapped PROVE Known' /\ SilentNow' /\ Serves'
    BY <1>2, <2>2 DEF AInv
  <2>4. Known'
    BY <1>1, <1>2, <2>2, <2>3 DEF AInv, Known, Arming
  <2>5. SilentNow'
    BY <2>2 DEF SilentNow, Silent
  <2>6. Serves'
    <3>1. SUFFICES ASSUME served PROVE Arms'
      BY <1>2 DEF Serves
    <3>2. Arms /\ Tail(todo["gcode"]) = <<>>
      BY <1>1, <2>3, <3>1, ServedStep DEF AInv
    <3>3. At("gcode") = source[tool].slot
      BY <3>2, OneHead DEF Arms, At, Do
    <3>4. todo'["gcode"] = p
      BY <2>1, <2>2, <3>2, ConcatEmptySeq DEF Programs
    <3>5. QED
      BY <1>2, <3>2, <3>3, <3>4 DEF Arms
  <2>7. QED
    BY <2>4, <2>5, <2>6
<1>5. QED
  BY <1>3, <1>4 DEF Arm

LEMMA StartKnown ==
  ASSUME IInv, AInv, Start("gcode")
  PROVE  AInv'
<1>1. TodoOK /\ OthersOK /\ todo["gcode"] # <<>> /\ What("gcode") = "start"
      /\ At("gcode") \in Slots /\ Pop("gcode") /\ up
  BY Parts, AtTyped, TwoGreenlets DEF IInv, Start, Has
<1>2. /\ UNCHANGED <<active, up, source, tool, served, overlapped>>
      /\ idx' = At("gcode")
      /\ assist' = [assist EXCEPT ![active] = At("gcode")]
  BY DEF Start, code, history
<1>3. /\ Sound(todo'["gcode"]) /\ todo'["connect"] = todo["connect"]
      /\ todo'["gcode"] = Tail(todo["gcode"])
      /\ todo'["gcode"] # <<>> => Follows("start", What("gcode")')
  BY <1>1, GcodePop DEF AInv
<1>4. SUFFICES ASSUME ~overlapped PROVE Known' /\ SilentNow' /\ Serves'
  BY <1>2, <1>3 DEF AInv
<1>5. todo["connect"] = <<>> /\ Len(<<>>) = 0
      /\ \A a \in Aces \ {active} : assist[a] = None
  BY <1>1, <1>4 DEF AInv, Known
<1>6. assist'[active] = idx' /\ \A a \in Aces \ {active} : assist'[a] = None
  BY <1>1, <1>2, <1>5 DEF OthersOK
<1>7. Known'
  BY <1>1, <1>2, <1>3, <1>5, <1>6 DEF Known
<1>8. SilentNow'
  BY <1>3 DEF SilentNow, Follows, Silent
<1>9. Serves'
  <2>1. SUFFICES ASSUME served PROVE Arrived'
    BY <1>2 DEF Serves
  <2>2. Arms /\ Tail(todo["gcode"]) = <<>>
    BY <1>1, <1>4, <2>1, ServedStep DEF AInv
  <2>3. At("gcode") = source[tool].slot
    BY <2>2, OneHead DEF Arms, At, Do
  <2>4. QED
    BY <1>2, <1>3, <2>2, <2>3 DEF Arms, Arrived, Want
<1>10. QED
  BY <1>7, <1>8, <1>9

(* The steps of a switch; a greenlet that gives up.                        *)
LEMMA SwitchKnown ==
  ASSUME IInv, IInv', AInv, Switch("gcode") \/ Fetch("gcode")
  PROVE  AInv'
<1>1. TodoOK /\ OthersOK /\ todo["gcode"] # <<>>
      /\ What("gcode") \in {"switch", "fetch"} /\ At("gcode") \in Aces
      /\ active \in Aces
  BY Parts, AtTyped, TwoGreenlets DEF IInv, Switch, Fetch, Has, OthersOK
<1>2. active' \in Aces /\ UNCHANGED <<idx, assist, served, overlapped>>
  BY <1>1 DEF Switch, Goes, Fetch, history
<1>3. Sound(todo'["gcode"]) /\ todo'["connect"] = todo["connect"]
  <2>1. CASE Pop("gcode")
    BY <1>1, <2>1, GcodePop DEF AInv
  <2>2. CASE What("gcode") = "switch" /\ Instead("gcode", <<Do("tried", active)>>)
    <3> DEFINE p == <<Do("tried", active)>>
    <3>1. Do("tried", active) \in Ops
      BY <1>1, AceOps
    <3>2. p \in Programs /\ Sound(p) /\ Len(p) = 1 /\ p[1].do = "tried"
      BY <3>1, OneStep, OneSound DEF Do
    <3>3. \A w : Follows(What("gcode"), w) => Follows(p[Len(p)].do, w)
      BY <2>2, <3>2 DEF Follows
    <3>4. \A k \in 1 .. Len(p) : p[k].do # "flush"
      BY <3>2
    <3> HIDE DEF p
    <3>5. QED
      BY <1>1, <2>2, <3>2, <3>3, <3>4, GcodeInstead DEF AInv, p
  <2>3. CASE What("gcode") = "fetch"
             /\ Instead("gcode", <<Do("switched", At("gcode"))>>)
    <3> DEFINE p == <<Do("switched", At("gcode"))>>
    <3>1. Do("switched", At("gcode")) \in Ops
      BY <1>1, AceOps
    <3>2. p \in Programs /\ Sound(p) /\ Len(p) = 1 /\ p[1].do = "switched"
      BY <3>1, OneStep, OneSound DEF Do
    <3>3. \A w : Follows(What("gcode"), w) => Follows(p[Len(p)].do, w)
      BY <2>3, <3>2 DEF Follows
    <3>4. \A k \in 1 .. Len(p) : p[k].do # "flush"
      BY <3>2
    <3> HIDE DEF p
    <3>5. QED
      BY <1>1, <2>3, <3>2, <3>3, <3>4, GcodeInstead DEF AInv, p
  <2>4. QED
    BY <2>1, <2>2, <2>3 DEF Switch, Fetch, Goes, Has
<1>4. QED
  BY <1>1, <1>2, <1>3, SilentStep DEF Silent

LEMMA ArrivesKnown ==
  ASSUME IInv, IInv', AInv, Arrives("gcode") \/ GoesBack("gcode") \/ GivesUp
  PROVE  AInv'
<1>1. TodoOK /\ todo["gcode"] # <<>> /\ What("gcode") \in {"tried", "switched"}
  BY Parts DEF IInv, Arrives, GoesBack, GivesUp, Has
<1>2. active' \in Aces /\ UNCHANGED <<idx, assist, served, overlapped>>
  <2>1. TypeOK'
    BY DEF IInv
  <2>2. active' \in Aces
    BY <2>1 DEF TypeOK
  <2>3. QED
    BY <2>2 DEF Arrives, GoesBack, GivesUp, Abandoned, history
<1>3. Sound(todo'["gcode"]) /\ todo'["connect"] = todo["connect"]
  <2>1. CASE Pop("gcode")
    BY <1>1, <2>1, GcodePop DEF AInv
  <2>2. CASE Abandoned
    <3>1. todo'["gcode"] = <<>> /\ todo'["connect"] = todo["connect"]
      BY <1>1, <2>2, TwoGreenlets DEF Abandoned, TodoOK
    <3>2. QED
      BY <3>1, EmptySound
  <2>3. QED
    BY <2>1, <2>2 DEF Arrives, GoesBack, GivesUp
<1>4. QED
  BY <1>1, <1>2, <1>3, SilentStep DEF Silent

(* The other steps.                                                        *)
LEMMA SelectKnown ==
  ASSUME IInv, AInv, Select("gcode")
  PROVE  AInv'
<1>1. TypeOK /\ TodoOK /\ OthersOK /\ todo["gcode"] # <<>>
      /\ What("gcode") = "select" /\ At("gcode") \in Heads
  BY Parts, AtTyped, TwoGreenlets DEF IInv, Select, Has
<1>2. UNCHANGED <<active, up, idx, assist, source, served, overlapped>>
      /\ tool' = At("gcode")
  BY DEF Select, history
<1> DEFINE p == IF tool = At("gcode") THEN <<>> ELSE FollowsTool(At("gcode"))
<1>3. /\ p \in Programs /\ Sound(p) /\ \A k \in 1 .. Len(p) : p[k].do # "flush"
      /\ p # <<>> => Len(p) = 1 /\ p[1].do \in {"arm", "stop"}
  BY <1>1, FollowsToolTyped, FollowsToolSound, NoStep, EmptySound
<1>4. Instead("gcode", p)
  BY DEF Select
<1>5. p = <<>> \/ \A w : Follows(What("gcode"), w) => Follows(p[Len(p)].do, w)
  BY <1>1, <1>3 DEF Follows
<1>6. /\ Sound(todo'["gcode"]) /\ todo'["connect"] = todo["connect"]
      /\ todo'["gcode"] = p \o Tail(todo["gcode"])
      /\ p # <<>> => todo'["gcode"] # <<>> /\ What("gcode")' = p[1].do
      /\ p = <<>> => Pop("gcode")
  <2> HIDE DEF p
  <2>1. QED
    BY <1>1, <1>3, <1>4, <1>5, GcodeInstead DEF AInv
<1>7. todo'["gcode"] # <<>> => What("gcode")' \notin Silent
  <2>1. CASE p = <<>>
    BY <1>1, <1>6, <2>1, GcodePop DEF AInv, Follows, Silent
  <2>2. CASE p # <<>>
    BY <1>3, <1>6, <2>2 DEF Silent
  <2>3. QED
    BY <2>1, <2>2
<1>8. SUFFICES ASSUME ~overlapped PROVE Known' /\ SilentNow' /\ Serves'
  BY <1>2, <1>6 DEF AInv
<1>9. Known'
  BY <1>1, <1>2, <1>6, <1>8 DEF AInv, Known, Arming
<1>10. SilentNow'
  BY <1>7 DEF SilentNow
<1>11. Serves'
  <2>1. SUFFICES ASSUME served PROVE Arrived' \/ Arms' \/ Stops'
    BY <1>2 DEF Serves
  <2>2. Selects /\ Tail(todo["gcode"]) = <<>>
    BY <1>1, <1>8, <2>1, ServedStep DEF AInv
  <2>3. At("gcode") # tool
    BY <2>2, OneHead DEF Selects, At, Do
  <2>4. todo'["gcode"] = FollowsTool(tool')
    <3>1. p \o <<>> = p
      BY <1>3, ConcatEmptySeq DEF Programs
    <3>2. QED
      BY <1>2, <1>6, <2>2, <2>3, <3>1
  <2>5. QED
    BY <1>2, <2>4 DEF FollowsTool, Arrived, Arms, Stops, Want
<1>12. QED
  BY <1>9, <1>10, <1>11

LEMMA OwnKnown ==
  ASSUME IInv, AInv, Own("gcode")
  PROVE  AInv'
<1>1. TodoOK /\ OthersOK /\ todo["gcode"] # <<>> /\ What("gcode") = "own"
      /\ At("gcode") \in Heads
  BY Parts, AtTyped, TwoGreenlets DEF IInv, Own, Has
<1>2. UNCHANGED <<idx, assist, served, overlapped>> /\ active' \in Aces
  BY <1>1 DEF Own, history, OthersOK
<1> DEFINE h == At("gcode")
           p == IF source[h] = None THEN <<>> ELSE Fetches(source[h].ace)
<1>3. source[h] # None => source[h].ace \in Aces
  BY <1>1 DEF OthersOK, Source
<1>4. /\ p \in Programs /\ Sound(p) /\ \A k \in 1 .. Len(p) : p[k].do # "flush"
      /\ p # <<>> => p[Len(p)].do = "fetch"
  BY <1>3, FetchesTyped, FetchesSound, NoStep, EmptySound
<1>5. Instead("gcode", p)
  BY DEF Own
<1>6. p = <<>> \/ \A w : Follows(What("gcode"), w) => Follows(p[Len(p)].do, w)
  BY <1>1, <1>4 DEF Follows
<1>7. Sound(todo'["gcode"]) /\ todo'["connect"] = todo["connect"]
  <2> HIDE DEF p
  <2>1. QED
    BY <1>1, <1>4, <1>5, <1>6, GcodeInstead DEF AInv
<1>8. QED
  BY <1>1, <1>2, <1>7, SilentStep DEF Silent

LEMMA PoppedKnown ==
  ASSUME IInv, IInv', AInv,
         \/ Skip("gcode") \/ Unskip("gcode") \/ Moved("gcode")
         \/ Forget("gcode") \/ Record("gcode") \/ Release("gcode")
  PROVE  AInv'
<1>1. TodoOK /\ OthersOK /\ todo["gcode"] # <<>> /\ Pop("gcode")
      /\ What("gcode") \in {"skip", "unskip", "feed", "flush", "pull",
                            "forget", "record", "release"}
  BY Parts DEF IInv, Skip, Unskip, Moved, Forget, Record, Release, Has
<1>2. UNCHANGED <<active, up, idx, assist, served, overlapped>>
  BY DEF Skip, Unskip, Moved, Forget, Record, Release, history
<1>3. /\ Sound(todo'["gcode"]) /\ todo'["connect"] = todo["connect"]
      /\ todo'["gcode"] # <<>> => Follows(What("gcode"), What("gcode")')
  BY <1>1, GcodePop DEF AInv
<1>4. CASE What("gcode") \in {"feed", "pull"}
  BY <1>1, <1>2, <1>3, <1>4, SilentStep DEF Silent, OthersOK
<1>5. CASE What("gcode") \notin {"feed", "pull"}
  <2>1. todo'["gcode"] # <<>> => What("gcode")' \notin Silent
    BY <1>1, <1>3, <1>5 DEF Follows, Silent
  <2>2. QED
    BY <1>1, <1>2, <1>3, <2>1, PlainStep
<1>6. QED
  BY <1>4, <1>5

LEMMA FailsKnown ==
  ASSUME IInv, AInv, Fails
  PROVE  AInv'
<1> DEFINE program == todo["gcode"]
           last == program[Len(program)]
<1>1. TodoOK /\ OthersOK /\ program # <<>>
      /\ What("gcode") \in {"feed", "flush", "pull"}
  BY Parts DEF IInv, Fails, Has
<1>2. UNCHANGED <<active, up, idx, assist, served, overlapped>>
  BY DEF Fails, history
<1>3. program \in Programs /\ Len(program) \in Nat \ {0} /\ last \in Ops
  <2>1. program \in Programs
    BY <1>1, TwoGreenlets DEF TodoOK
  <2>2. Len(program) \in Nat \ {0}
    BY <1>1, <2>1, EmptySeq DEF Programs
  <2>3. Len(program) \in 1 .. Len(program)
    BY <2>2
  <2>4. QED
    BY <2>1, <2>2, <2>3, ElementOfSeq DEF Programs
<1>4. todo'["gcode"] \in {<<>>, <<last>>} /\ todo'["connect"] = todo["connect"]
  BY <1>1, TwoGreenlets DEF Fails, TodoOK
<1>5. Sound(todo'["gcode"])
  BY <1>3, <1>4, EmptySound, OneSound
<1>6. CASE What("gcode") \in {"feed", "pull"}
  BY <1>1, <1>2, <1>4, <1>5, <1>6, SilentStep DEF Silent, OthersOK
<1>7. CASE What("gcode") = "flush"
  <2>1. program[1].do = "flush" /\ 1 \in 1 .. Len(program)
    BY <1>3, <1>7 DEF What
  <2>2. last.do \notin Silent
    BY <2>1 DEF AInv, Sound
  <2> HIDE DEF last, program
  <2>3. todo'["gcode"] # <<>> => What("gcode")' \notin Silent
    BY <1>4, <2>2, OneHead DEF What
  <2>4. todo["gcode"] # <<>>
    BY <1>1 DEF program
  <2>5. QED
    BY <1>2, <1>4, <1>5, <1>7, <2>3, <2>4, PlainStep
<1>8. QED
  BY <1>1, <1>6, <1>7

(* The greenlet of _connect runs beside no command that is not overlapped. *)
LEMMA ConnectStepKnown ==
  ASSUME IInv, AInv, ConnectStep
  PROVE  AInv'
<1>1. /\ TodoOK /\ OthersOK /\ todo["connect"] # <<>>
      /\ What("connect") \in {"arm", "start"} /\ At("connect") \in Slots
      /\ todo["connect"] \in Programs
  BY Parts, AtTyped, TwoGreenlets
     DEF IInv, ConnectStep, Arm, Start, Has, TodoOK
<1>2. UNCHANGED <<active, up, source, tool, served, overlapped>>
  BY DEF ConnectStep, Arm, Start, code, history
<1>3. todo'["gcode"] = todo["gcode"]
  BY <1>1, TwoGreenlets
     DEF ConnectStep, Arm, Start, Pop, Instead, TodoOK
<1>4. SUFFICES ASSUME ~overlapped PROVE Known' /\ SilentNow' /\ Serves'
  BY <1>2, <1>3 DEF AInv
<1>5. Known /\ todo["gcode"] = <<>>
  BY <1>1, <1>4 DEF AInv, Known
<1>6. /\ Len(todo["connect"]) \in Nat \ {0}
      /\ Head(todo["connect"]) = todo["connect"][1]
      /\ Tail(todo["connect"]) \in Programs
      /\ Len(Tail(todo["connect"])) = Len(todo["connect"]) - 1
      /\ \A i \in 1 .. Len(Tail(todo["connect"])) :
           Tail(todo["connect"])[i] = todo["connect"][i + 1]
  BY <1>1, EmptySeq, HeadTailProperties DEF Programs
<1>7. \A k \in 1 .. Len(todo["connect"]) : todo["connect"][k] \in Arming
  BY <1>5 DEF Known
<1>8. At("connect") = idx
  <2>1. Head(todo["connect"]) \in Arming
    BY <1>6, <1>7
  <2>2. QED
    BY <2>1 DEF At, Arming, Do
<1>9. \A k \in 1 .. Len(Tail(todo["connect"])) :
        Tail(todo["connect"])[k] \in Arming
  BY <1>6, <1>7
<1>10. CASE Suppressed /\ Pop("connect") /\ UNCHANGED <<idx, assist>>
  <2>1. todo'["connect"] = Tail(todo["connect"]) /\ active \in PrintOff
    BY <1>1, <1>10, TwoGreenlets DEF Pop, TodoOK, Suppressed
  <2>2. Known'
    BY <1>2, <1>3, <1>5, <1>9, <1>10, <2>1 DEF Known, Arming
  <2>3. QED
    BY <1>2, <1>3, <1>4, <1>5, <1>10, <2>2
       DEF AInv, SilentNow, Serves, Arrived, Selects, Arms, Stops, Want
<1>11. CASE /\ Instead("connect", <<Do("start", At("connect"))>>)
            /\ UNCHANGED <<idx, assist>>
  <2> DEFINE p == <<Do("start", At("connect"))>>
             t == Tail(todo["connect"])
  <2>1. todo'["connect"] = p \o t
    BY <1>1, <1>11, TwoGreenlets DEF Instead, TodoOK
  <2>2. p \in Programs /\ Len(p) = 1 /\ p[1] \in Arming
    <3>1. Do("start", At("connect")) \in Ops
      BY <1>1, SlotOps
    <3>2. QED
      BY <1>8, <3>1, OneStep, OneHead DEF Arming
  <2>3. /\ Len(p \o t) = Len(p) + Len(t) /\ Len(t) \in Nat
        /\ \A i \in 1 .. Len(p) + Len(t) :
             (p \o t)[i] = IF i <= Len(p) THEN p[i] ELSE t[i - Len(p)]
    BY <1>6, <2>2, ConcatProperties, LenProperties DEF Programs
  <2>4. \A k \in 1 .. Len(t) : t[k] \in Arming
    BY <1>9
  <2> HIDE DEF p, t
  <2>5. \A k \in 1 .. Len(p \o t) : (p \o t)[k] \in Arming
    BY <2>2, <2>3, <2>4
  <2>6. p \o t # <<>>
    BY <2>2, <2>3
  <2>7. Known'
    BY <1>2, <1>3, <1>5, <1>11, <2>1, <2>5, <2>6 DEF Known, Arming
  <2>8. QED
    BY <1>2, <1>3, <1>4, <1>5, <1>11, <2>7
       DEF AInv, SilentNow, Serves, Arrived, Selects, Arms, Stops, Want
<1>12. CASE Start("connect")
  <2>1. /\ todo'["connect"] = Tail(todo["connect"])
        /\ idx' = idx /\ assist' = [assist EXCEPT ![active] = idx]
    BY <1>1, <1>8, <1>12, TwoGreenlets DEF Start, Pop, TodoOK
  <2>2. assist'[active] = idx
        /\ \A a \in Aces \ {active} : assist'[a] = None
    BY <1>1, <1>5, <2>1 DEF OthersOK, Known
  <2>3. Known'
    BY <1>2, <1>3, <1>5, <1>9, <2>1, <2>2 DEF Known, Arming
  <2>4. QED
    BY <1>2, <1>3, <1>4, <1>5, <2>1, <2>3
       DEF AInv, SilentNow, Serves, Arrived, Selects, Arms, Stops, Want
<1>13. QED
  BY <1>10, <1>11, <1>12 DEF ConnectStep, Arm

LEMMA ConnectKnown ==
  ASSUME IInv, AInv, Connect
  PROVE  AInv'
<1>1. TodoOK /\ OthersOK
  BY Parts DEF IInv
<1>2. /\ ~up /\ up'
      /\ UNCHANGED <<active, idx, assist, source, tool, served, overlapped>>
  BY DEF Connect, code, history
<1>3. todo'["gcode"] = todo["gcode"]
  BY <1>1, TwoGreenlets DEF Connect, TodoOK
<1>4. SUFFICES ASSUME ~overlapped PROVE Known' /\ SilentNow' /\ Serves'
  BY <1>2, <1>3 DEF AInv
<1>5. Known /\ SilentNow /\ Serves
  BY <1>4 DEF AInv
<1>6. SilentNow' /\ Serves'
  BY <1>2, <1>3, <1>5 DEF SilentNow, Unassisted, What, Serves, Arrived,
     Selects, Arms, Stops, Want
<1>7. CASE idx = None
  <2>1. todo' = todo
    BY <1>7 DEF Connect
  <2>2. Known'
    BY <1>2, <1>5, <1>7, <2>1 DEF Known, Arming
  <2>3. QED
    BY <1>6, <2>2
<1>8. CASE idx # None
  <2>1. todo["gcode"] = <<>>
    BY <1>2, <1>5, <1>8 DEF Known
  <2>2. Do("arm", idx) \in Ops /\ todo["connect"] \in Programs
    BY <1>1, <1>8, SlotOps, TwoGreenlets DEF OthersOK, TodoOK
  <2>3. todo'["connect"] = Append(todo["connect"], Do("arm", idx))
    BY <1>1, <1>8, TwoGreenlets DEF Connect, TodoOK
  <2>4. /\ todo'["connect"] # <<>>
        /\ \A k \in 1 .. Len(todo'["connect"]) : todo'["connect"][k] \in Arming
    <3> DEFINE q == todo["connect"]
               e == Do("arm", idx)
    <3>1. /\ Append(q, e) # <<>> /\ Len(Append(q, e)) = Len(q) + 1
          /\ \A i \in 1 .. Len(q) : Append(q, e)[i] = q[i]
          /\ Append(q, e)[Len(q) + 1] = e /\ Len(q) \in Nat
      BY <2>2, AppendProperties, LenProperties DEF Programs
    <3>2. e \in Arming /\ \A k \in 1 .. Len(q) : q[k] \in Arming
      BY <1>5 DEF Known, Arming
    <3> HIDE DEF q, e
    <3>3. \A k \in 1 .. Len(Append(q, e)) : Append(q, e)[k] \in Arming
      BY <3>1, <3>2
    <3>4. QED
      BY <2>3, <3>1, <3>3 DEF q, e
  <2>5. Known'
    BY <1>2, <1>3, <1>5, <2>1, <2>4 DEF Known, Arming
  <2>6. QED
    BY <1>6, <2>5
<1>9. QED
  BY <1>7, <1>8

LEMMA ResetKnown ==
  ASSUME IInv, AInv, NEW a \in Aces, Reset(a)
  PROVE  AInv'
<1>1. OthersOK
  BY Parts DEF IInv
<1>2. /\ UNCHANGED <<active, idx, todo, source, tool, served>>
      /\ assist' = [assist EXCEPT ![a] = None]
      /\ up' = (up /\ a # active)
      /\ overlapped' = (overlapped \/ (todo["gcode"] # <<>>))
  BY DEF Reset, code
<1>3. SUFFICES ASSUME ~overlapped, todo["gcode"] = <<>>
               PROVE  Known' /\ SilentNow' /\ Serves'
  BY <1>2 DEF AInv
<1>4. Known /\ Serves
  BY <1>3 DEF AInv
<1>5. \A b \in Aces : assist'[b] = IF b = a THEN None ELSE assist[b]
  BY <1>1, <1>2 DEF OthersOK
<1>6. active \in Aces
  BY <1>1 DEF OthersOK
<1>7. Known'
  <2>1. CASE a = active
    BY <1>2, <1>3, <1>4, <1>5, <1>6, <2>1 DEF Known, Arming
  <2>2. CASE a # active
    BY <1>2, <1>3, <1>4, <1>5, <1>6, <2>2 DEF Known, Arming
  <2>3. QED
    BY <2>1, <2>2
<1>8. SilentNow' /\ Serves'
  BY <1>2, <1>3, <1>4 DEF SilentNow, Serves, Arrived, Selects, Arms, Stops, Want
<1>9. QED
  BY <1>7, <1>8

LEMMA StopLostKnown ==
  ASSUME IInv, AInv, StopLost("gcode")
  PROVE  AInv'
<1>1. TodoOK /\ todo["gcode"] # <<>> /\ Pop("gcode") /\ overlapped'
  BY Parts DEF IInv, StopLost, Has
<1>2. Sound(todo'["gcode"])
  BY <1>1, GcodePop DEF AInv
<1>3. QED
  BY <1>1, <1>2 DEF AInv
-----------------------------------------------------------------------------
(* The commands: one that begins while the ACE is connected and _connect   *)
(* has nothing left to do.                                                 *)
LEMMA RunsKnown ==
  ASSUME IInv, AInv, NEW p \in Programs, NEW b, Runs(p, b), Sound(p),
         p # <<>> => p[1].do \notin Silent,
         UNCHANGED <<active, up, idx, assist>>,
         ~overlapped' /\ served' => Arrived' \/ Selects' \/ Arms' \/ Stops'
  PROVE  AInv'
<1>1. TodoOK
  BY Parts DEF IInv
<1>2. todo'["gcode"] = p /\ todo'["connect"] = todo["connect"]
  BY <1>1, TwoGreenlets DEF Runs, TodoOK
<1>3. SUFFICES ASSUME ~overlapped' PROVE Known' /\ SilentNow' /\ Serves'
  BY <1>2 DEF AInv
<1>4. ~overlapped /\ up /\ todo["connect"] = <<>>
  BY <1>3 DEF Runs
<1>5. Known'
  BY <1>2, <1>4 DEF AInv, Known, Arming
<1>6. SilentNow'
  BY <1>2 DEF SilentNow, What
<1>7. Serves'
  BY <1>3 DEF Serves
<1>8. QED
  BY <1>5, <1>6, <1>7

LEMMA AskedKnown ==
  ASSUME IInv, AInv, NEW p \in Programs, Runs(p, FALSE), Sound(p),
         p # <<>> => p[1].do \notin Silent,
         UNCHANGED <<active, up, idx, assist>>
  PROVE  AInv'
<1>1. served' = FALSE
  BY DEF Runs
<1>2. QED
  BY <1>1, RunsKnown

LEMMA ToolChangeKnown ==
  ASSUME IInv, AInv, NEW h \in Heads, ToolChange(h)
  PROVE  AInv'
<1> DEFINE p == <<Do("select", h)>>
<1>1. TodoOK /\ Do("select", h) \in Ops
  BY Parts, HeadOps DEF IInv
<1>2. p \in Programs /\ Sound(p) /\ p[1].do = "select"
  BY <1>1, OneStep, OneSound DEF Do
<1>3. Runs(p, TRUE) /\ UNCHANGED <<active, up, idx, assist, tool>> /\ h # tool
  BY DEF ToolChange, code
<1>4. todo'["gcode"] = p
  BY <1>1, <1>3, TwoGreenlets DEF Runs, TodoOK
<1>5. Selects'
  BY <1>3, <1>4 DEF Selects
<1>6. p[1].do \notin Silent
  BY <1>2 DEF Silent
<1> HIDE DEF p
<1>7. QED
  BY <1>2, <1>3, <1>5, <1>6, RunsKnown

LEMMA PrintStartKnown ==
  ASSUME IInv, AInv, PrintStart
  PROVE  AInv'
<1>1. TypeOK /\ TodoOK /\ tool \in Heads
  BY Parts DEF IInv, TypeOK
<1> DEFINE p == IF source[tool] = None \/ tool \in Foreign THEN <<>>
                ELSE FollowsTool(tool)
<1>2. /\ p \in Programs /\ Sound(p)
      /\ p # <<>> => p[1].do \in {"arm", "stop"}
  BY <1>1, NoStep, EmptySound, FollowsToolTyped, FollowsToolSound
<1>3. /\ Runs(p, served)
      /\ UNCHANGED <<active, up, idx, assist, source, tool>>
  BY DEF PrintStart
<1>4. todo'["gcode"] = p /\ todo["gcode"] = <<>> /\ served' = served
  BY <1>1, <1>3, TwoGreenlets DEF Runs, TodoOK
<1>5. ASSUME ~overlapped', served' PROVE Arrived' \/ Arms'
  <2>1. ~overlapped
    BY <1>3, <1>5 DEF Runs
  <2>2. Arrived
    BY <1>4, <1>5, <2>1 DEF AInv, Serves, Selects, Arms, Stops
  <2>3. CASE source[tool] = None
    BY <1>3, <1>4, <2>3 DEF Arrived
  <2>4. CASE source[tool] # None /\ source[tool].ace # active
    <3>1. tool \in Foreign
      BY <1>1, <2>4 DEF Foreign
    <3>2. QED
      BY <1>3, <1>4, <2>2, <3>1 DEF Arrived, Want
  <2>5. CASE source[tool] # None /\ source[tool].ace = active
    <3>1. tool \notin Foreign
      BY <2>5 DEF Foreign
    <3>2. p = FollowsTool(tool)
      BY <2>5, <3>1
    <3>3. QED
      BY <1>3, <1>4, <2>5, <3>2 DEF FollowsTool, Arrived, Arms, Want
  <2>6. QED
    BY <2>3, <2>4, <2>5
<1>6. p # <<>> => p[1].do \notin Silent
  BY <1>2 DEF Silent
<1> HIDE DEF p
<1>7. QED
  BY <1>2, <1>3, <1>5, <1>6, RunsKnown

LEMMA CommandKnown ==
  ASSUME IInv, AInv, Command
  PROVE  AInv'
<1>1. TypeOK /\ OthersOK
  BY Parts DEF IInv
<1>2. ASSUME NEW h \in Heads, ToolChange(h) PROVE AInv'
  BY <1>2, ToolChangeKnown
<1>3. ASSUME NEW h \in Heads, UnloadHead(h) PROVE AInv'
  <2>1. source[h].ace \in Aces
    BY <1>1, <1>3 DEF OthersOK, Source, UnloadHead
  <2>2. QED
    BY <1>3, <2>1, UnloadTyped, UnloadSound, AskedKnown DEF UnloadHead
<1>4. ASSUME NEW h \in Heads, FeedAuto(h) PROVE AInv'
  <2>1. Feeds(h)[1].do \notin Silent /\ Unfeeds(h)[1].do \notin Silent
    BY FeedsSound, UnfeedsSound DEF Silent
  <2>2. QED
    BY <1>4, <2>1, FeedsTyped, UnfeedsTyped, FeedsSound, UnfeedsSound,
       AskedKnown DEF FeedAuto
<1>5. ASSUME NEW h \in Heads, NEW a \in Aces, NEW s \in Slots, LoadHead(h, a, s)
      PROVE AInv'
  BY <1>5, LoadTyped, LoadSound, AskedKnown DEF LoadHead
<1>6. ASSUME NEW a \in Aces, AceSwitch(a) PROVE AInv'
  <2> DEFINE p == <<Do("quiet", None), Do("switch", a)>>
  <2>1. Do("quiet", None) \in Ops /\ Do("switch", a) \in Ops
    BY PlainOps, AceOps
  <2>2. p \in Programs
    BY <2>1 DEF Programs
  <2>3. Len(p) = 2 /\ p[1].do = "quiet" /\ p[2].do = "switch"
    BY DEF Do
  <2>4. Sound(p) /\ p[1].do \notin Silent
    BY <2>3 DEF Sound, Follows, Silent
  <2>5. Runs(p, FALSE) /\ UNCHANGED <<active, up, idx, assist>>
    BY <1>6 DEF AceSwitch
  <2> HIDE DEF p
  <2>6. QED
    BY <2>2, <2>4, <2>5, AskedKnown
<1>7. ASSUME NEW o \in Ops, o.do \notin Silent, Asked(<<o>>) PROVE AInv'
  BY <1>7, OneStep, OneSound, OneHead, AskedKnown DEF Asked
<1>8. ASSUME NEW s \in Slots, EnableAssist(s) PROVE AInv'
  <2>1. Do("arm", s) \in Ops /\ Do("arm", s).do \notin Silent
    BY SlotOps DEF Do, Silent
  <2>2. QED
    BY <1>7, <1>8, <2>1 DEF EnableAssist
<1>9. ASSUME DisableAssist \/ AutoFeedOff PROVE AInv'
  <2>1. /\ Do("stop", None) \in Ops /\ Do("stop", None).do \notin Silent
        /\ Do("quiet", None) \in Ops /\ Do("quiet", None).do \notin Silent
    BY PlainOps DEF Do, Silent
  <2>2. QED
    BY <1>7, <1>9, <2>1 DEF DisableAssist, AutoFeedOff
<1>10. ASSUME PrintEnd PROVE AInv'
  <2> DEFINE p == <<Do("quiet", None), Do("release", None)>>
  <2>1. Do("quiet", None) \in Ops /\ Do("release", None) \in Ops
    BY PlainOps
  <2>2. p \in Programs
    BY <2>1 DEF Programs
  <2>3. Len(p) = 2 /\ p[1].do = "quiet" /\ p[2].do = "release"
    BY DEF Do
  <2>4. Sound(p) /\ p[1].do \notin Silent
    BY <2>3 DEF Sound, Follows, Silent
  <2>5. Runs(p, FALSE) /\ UNCHANGED <<active, up, idx, assist>>
    BY <1>10 DEF PrintEnd
  <2> HIDE DEF p
  <2>6. QED
    BY <2>2, <2>4, <2>5, AskedKnown
<1>11. QED
  BY <1>2, <1>3, <1>4, <1>5, <1>6, <1>8, <1>9, <1>10, PrintStartKnown
     DEF Command
-----------------------------------------------------------------------------
LEMMA InitKnown == Init => AInv
<1>1. SUFFICES ASSUME Init PROVE AInv
  OBVIOUS
<1>2. /\ todo = [g \in Greenlets |-> <<>>] /\ idx = None /\ active \in Aces
      /\ assist = [a \in Aces |-> None] /\ served = FALSE
  BY <1>1, Zenon DEF Init
<1>3. todo["gcode"] = <<>> /\ todo["connect"] = <<>> /\ Len(<<>>) = 0
  BY <1>2, TwoGreenlets
<1>4. Known
  BY <1>2, <1>3 DEF Known
<1>5. QED
  BY <1>2, <1>3, <1>4, EmptySound DEF AInv, SilentNow, Serves

LEMMA StepKnown == IInv /\ IInv' /\ AInv /\ [Next]_vars => AInv'
<1>1. SUFFICES ASSUME IInv, IInv', AInv, [Next]_vars PROVE AInv'
  OBVIOUS
<1>2. CASE GcodeStep
  BY <1>1, <1>2, StopKnown, ArmKnown, StartKnown, SwitchKnown, ArrivesKnown,
     SelectKnown, PoppedKnown, FailsKnown, OwnKnown DEF GcodeStep
<1>3. CASE ConnectStep \/ Connect \/ StopLost("gcode")
           \/ \E a \in Aces : Reset(a)
  BY <1>1, <1>3, ConnectStepKnown, ConnectKnown, StopLostKnown, ResetKnown
<1>4. CASE Command
  BY <1>1, <1>4, CommandKnown
<1>5. CASE UNCHANGED vars
  BY <1>1, <1>5 DEF vars, AInv, Known, Arming, SilentNow, Unassisted, What,
     Serves, Arrived, Selects, Arms, Stops, Want
<1>6. QED
  BY <1>1, <1>2, <1>3, <1>4, <1>5 DEF Next

(* What the code knows of the ACEs, at every step of every command.        *)
THEOREM KnownInductive == Spec => [](IInv /\ AInv)
<1>1. Init => IInv /\ AInv
  BY InitInv, InitKnown
<1>2. (IInv /\ AInv) /\ [Next]_vars => (IInv /\ AInv)'
  BY StepInv, StepKnown
<1>3. QED
  BY <1>1, <1>2, PTL DEF Spec

(* Between commands _feed_assist_index is what the ACEs do, also after a   *)
(* reset that no command ran beside: _connect has healed it by then.       *)
THEOREM KnownCorrect == Spec => []AssistIsKnown
<1>1. IInv /\ AInv => AssistIsKnown
  <2>1. SUFFICES ASSUME IInv, AInv, AtRest, ~overlapped, NEW a \in Aces
                 PROVE  \/ assist[a] = IF a = active THEN idx ELSE None
                        \/ a \in PrintOff /\ assist[a] = None
    BY DEF AssistIsKnown
  <2>2. Known /\ up /\ todo["connect"] = <<>>
    BY <2>1, TwoGreenlets DEF AInv, AtRest
  <2>3. QED
    BY <2>2 DEF Known
<1>2. QED
  BY <1>1, KnownInductive, PTL

(* FEED_AUTO feeds and pulls a head only while no ACE assists: of the      *)
(* programs of all commands, none reaches these steps with an assist that  *)
(* a tool change, a switch or _connect has armed.                          *)
THEOREM UnassistedCorrect == Spec => []FeedsUnassisted
<1>1. IInv /\ AInv => FeedsUnassisted
  BY DEF AInv, SilentNow, Unassisted, FeedsUnassisted, Has, Silent
<1>2. QED
  BY <1>1, KnownInductive, PTL

(* After a tool change the active ACE assists the slot of the new tool, or *)
(* nothing if the tool is of another ACE, also once a print has begun or   *)
(* _connect has armed again.                                               *)
THEOREM ToolCorrect == Spec => []ToolIsFed
<1>1. IInv /\ AInv => ToolIsFed
  <2>1. SUFFICES ASSUME IInv, AInv, AtRest, served, ~overlapped,
                        source[tool] # None, active \notin PrintOff
                 PROVE  assist[active] = Want
    BY DEF ToolIsFed, Want
  <2>2. /\ Known /\ Serves /\ up
        /\ todo["gcode"] = <<>> /\ todo["connect"] = <<>>
    BY <2>1, TwoGreenlets DEF AInv, AtRest
  <2>3. assist[active] = idx
    BY <2>1, <2>2 DEF Known
  <2>4. idx = Want
    BY <2>1, <2>2 DEF Serves, Arrived, Selects, Arms, Stops
  <2>5. QED
    BY <2>3, <2>4
<1>2. QED
  BY <1>1, KnownInductive, PTL
=============================================================================
