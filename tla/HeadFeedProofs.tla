--------------------------- MODULE HeadFeedProofs ---------------------------
(***************************************************************************)
(* Theorems about HeadFeed, for any number of heads and ACEs.              *)
(***************************************************************************)
EXTENDS HeadFeed, TLAPS

\* Where a command stands says what its fields hold.
OpOK ==
  /\ op.cmd \in {"load", "swapout", "swapin"} => op.ace \in Ace
  /\ op.pc = "visit" => op.cmd \in {"all", "swapout", "swapin"}
  /\ op.pc \in {"feed", "feeding"} => op.cmd \in {"load", "swapin", "touch"}
  /\ op.pc = "record" => op.cmd = "load"
  /\ op.pc = "switch" =>
       op.cmd \in {"load", "unload", "park", "all"} /\ op.head \in Head
  /\ op.pc = "switch" /\ op.cmd # "load" => source[op.head] # None

\* Past its switch, an unload command has the recorded ACE active.
PullsOwn ==
  op.pc \in {"prepare", "doing", "pull"} /\ op.cmd \in {"unload", "park", "all"}
    /\ source[op.head] # None => source[op.head].ace = active

\* Only the unload of all heads leaves records unsaved, and it knows.
SavedInv == saved = source \/ (op.cmd = "all" /\ op.any)

BookOK == OpOK /\ PullsOwn /\ SavedInv
IInv == TypeOK /\ BookOK

-----------------------------------------------------------------------------
(* The places a command can go to are commands again.                      *)

\* The loops over the heads stay within bounds.
LEMMA HeadRange ==
  /\ 0 \in 0 .. NHeads
  /\ \A h \in Head : h \in 0 .. NHeads /\ h + 1 \in 0 .. NHeads
BY FeedAssumption DEF Head

\* Every place a command goes on to is typed.
LEMMA OpMoves ==
  ASSUME op \in OpType
  PROVE  /\ Idle \in OpType
         /\ \A pc \in Pc : Goto(pc) \in OpType
         /\ op.head \in Head =>
              NextHead \in OpType /\ [NextHead EXCEPT !.any = TRUE] \in OpType
         /\ [op EXCEPT !.cmd = "swapin", !.head = 0] \in OpType
BY HeadRange, FeedAssumption DEF OpType, Idle, Goto, NextHead, Pc, Held, Cmd

\* So is the one after a LOAD.
LEMMA FeedMoves ==
  ASSUME op \in OpType, op.head \in Head
  PROVE  AfterFeed \in OpType
BY OpMoves DEF AfterFeed, Pc

\* A new command is typed.
LEMMA DoTyped ==
  ASSUME TypeOK, NEW cmd \in Cmd, NEW pc \in Pc, NEW h \in 0 .. NHeads,
         NEW a \in Ace \cup {None}, cmd = "park" => h \in Head
  PROVE  Do(cmd, pc, h, a) \in OpType
BY DEF Do, OpType, TypeOK, Record

\* A runout event keeps the pending events typed.
LEMMA RunoutTyped ==
  ASSUME TypeOK, NEW h \in Head, Runout(h)
  PROVE  pending' \in [Head -> SUBSET {"runout", "port"}]
<1>1. pending[h] \cup {"runout"} \in SUBSET {"runout", "port"}
  BY DEF TypeOK
<1>2. QED
  BY <1>1 DEF Runout, TypeOK

USE DEF Record, Loaded, ChanState, Cmd, Held, Pc, tube, book, config, At,
        Elsewhere, Keep, KeepAndSave, Swapping

-----------------------------------------------------------------------------
(* Type correctness, one step per action.                                  *)

\* Every step keeps the types.
LEMMA TypeStep == IInv /\ [Next]_vars => TypeOK'
<1> SUFFICES ASSUME IInv, [Next]_vars PROVE TypeOK'
  OBVIOUS
<1> USE DEF IInv, TypeOK, BookOK, OpOK
<1>1. CASE FeedReturns
  BY <1>1, FeedMoves DEF FeedReturns, AfterFeed
<1>2. CASE FeedStarts
  BY <1>2, OpMoves DEF FeedStarts
<1>3. CASE Fed
  BY <1>3, FeedMoves DEF Fed, AfterFeed, Push
<1>4. CASE FeedFails
  <2>1. op.head \in Head /\ op' \in OpType
    BY <1>4, OpMoves DEF FeedFails
  <2>2. CASE UNCHANGED tube
    BY <1>4, <2>1, <2>2 DEF FeedFails
  <2>3. CASE Push(op.head) /\ seen' \in {seen, [seen EXCEPT ![op.head] = TRUE]}
    <3>1. path' \in [Head -> Ace \cup {None, Hand}]
      BY <2>1, <2>3 DEF Push
    <3>2. seen' \in [Head -> BOOLEAN]
      BY <2>1, <2>3
    <3>3. QED
      BY <1>4, <2>1, <3>1, <3>2 DEF FeedFails
  <2>4. QED
    BY <1>4, <2>2, <2>3 DEF FeedFails
<1>5. CASE Prepare
  BY <1>5, OpMoves DEF Prepare
<1>6. CASE PrepareFails
  BY <1>6, OpMoves DEF PrepareFails, UnloadFails, SensorAfterError
<1>7. CASE DoingIgnored
  BY <1>7, OpMoves DEF DoingIgnored
<1>8. CASE DoingFails
  BY <1>8, OpMoves DEF DoingFails, UnloadFails, SensorAfterError
<1>9. CASE Doing
  BY <1>9, OpMoves DEF Doing
<1>10. CASE Pull
  <2>1. path' \in [Head -> Ace \cup {None, Hand}] /\ seen' \in [Head -> BOOLEAN]
    BY <1>10 DEF Pull
  <2>2. pending' \in [Head -> SUBSET {"runout", "port"}]
    BY <1>10, RunoutTyped DEF Pull
  <2>3. QED
    BY <1>10, <2>1, <2>2, OpMoves DEF Pull
<1>11. CASE Unloaded
  BY <1>11, OpMoves DEF Unloaded
<1>12. CASE After
  <2>1. CASE op.cmd \in {"unload", "park"}
    <3> DEFINE r == IF op.old # None THEN [op.old EXCEPT !.parked = TRUE] ELSE None
    <3>1. r \in Record \cup {None}
      BY DEF OpType
    <3>2. sensorOn' \in [Head -> BOOLEAN] /\ op' \in OpType
      BY <1>12, <2>1, OpMoves DEF After
    <3>3. source' \in [Head -> Record \cup {None}] /\ saved' = source'
      <4>1. source' = [source EXCEPT ![op.head] = r] /\ saved' = source'
        BY <1>12, <2>1 DEF After
      <4> HIDE DEF r
      <4>2. QED
        BY <3>1, <4>1
    <3>4. QED
      BY <1>12, <3>2, <3>3 DEF After
  <2>2. CASE op.cmd = "all"
    BY <1>12, <2>2, OpMoves DEF After
  <2>3. CASE op.cmd \notin {"unload", "park", "all"}
    BY <1>12, <2>3, OpMoves DEF After
  <2>4. QED
    BY <2>1, <2>2, <2>3
<1>13. CASE HeadSwitched
  BY <1>13, OpMoves DEF HeadSwitched, Wanted
<1>14. CASE HeadSwitchFails
  BY <1>14, OpMoves DEF HeadSwitchFails, Wanted, SkipOrRaise
<1>15. CASE GateEmpty
  BY <1>15, OpMoves DEF GateEmpty
<1>16. CASE RecordLoad
  BY <1>16, OpMoves DEF RecordLoad
<1>17. CASE Visit
  BY <1>17, OpMoves DEF Visit
<1>18. CASE AllUnloaded
  <2>1. CASE op.any
    BY <1>18, <2>1, OpMoves, FeedAssumption DEF AllUnloaded, SavedAfterLoop
  <2>2. CASE ~op.any
    BY <1>18, <2>2, OpMoves DEF AllUnloaded
  <2>3. QED
    BY <2>1, <2>2
<1>19. CASE SwapOver
  BY <1>19, OpMoves DEF SwapOver
<1>20. ASSUME NEW h \in Head, NEW a \in Ace, LoadHead(h, a) PROVE TypeOK'
  BY <1>20, HeadRange, DoTyped DEF LoadHead, Begin
<1>21. ASSUME NEW h \in Head, NEW a \in Ace, MarkHeadLoaded(h, a) PROVE TypeOK'
  BY <1>21 DEF MarkHeadLoaded
<1>22. ASSUME NEW h \in Head, NEW cmd \in {"unload", "park"}, UnloadHead(h, cmd)
      PROVE TypeOK'
  BY <1>22, HeadRange, DoTyped DEF UnloadHead, Begin
<1>23. ASSUME NEW h \in Hands, SetHeadManual(h) PROVE TypeOK'
  BY <1>23, FeedAssumption DEF SetHeadManual
<1>24. ASSUME NEW h \in Touch, TouchLoad(h) PROVE TypeOK'
  BY <1>24, HeadRange, DoTyped, FeedAssumption DEF TouchLoad, Begin
<1>25. ASSUME NEW h \in Touch, TouchUnload(h) PROVE TypeOK'
  <2>1. PICK stage \in {"prepare", "doing"} : Begin(Do("touch", stage, h, None))
    BY <1>25 DEF TouchUnload
  <2>2. h \in 0 .. NHeads
    BY HeadRange, FeedAssumption
  <2>3. QED
    BY <2>1, <2>2, DoTyped DEF Begin
<1>26. ASSUME NEW h \in Touch, TouchCancel(h) PROVE TypeOK'
  BY <1>26, FeedAssumption DEF TouchCancel
<1>27. ASSUME NEW a \in Ace, SwapAll(a) PROVE TypeOK'
  BY <1>27, HeadRange, DoTyped DEF SwapAll, Begin
<1>28. ASSUME NEW a \in Ace, SwitchAce(a) PROVE TypeOK'
  BY <1>28 DEF SwitchAce
<1>29. ASSUME NEW H \in SUBSET Head, ClearHeads(H) PROVE TypeOK'
  BY <1>29 DEF ClearHeads
<1>30. CASE UnloadAll
  BY <1>30, HeadRange, DoTyped DEF UnloadAll, Begin
<1>31. ASSUME NEW h \in Head, ChannelEvent(h) PROVE TypeOK'
  <2>1. PICK e \in pending[h] :
          /\ pending' = [pending EXCEPT ![h] = @ \ {e}]
          /\ IF e = "runout" /\ Swapping
             THEN UNCHANGED <<chan, finish>>
             ELSE /\ chan' = [chan EXCEPT ![h] = "rest"]
                  /\ finish' = [finish EXCEPT ![h] = FALSE]
    BY <1>31 DEF ChannelEvent
  <2>2. pending' \in [Head -> SUBSET {"runout", "port"}]
    BY <2>1
  <2>3. QED
    BY <1>31, <2>1, <2>2 DEF ChannelEvent
<1>32. ASSUME NEW h \in Ports, NEW comes \in BOOLEAN, PortEvent(h, comes)
      PROVE TypeOK'
  BY <1>32, FeedAssumption DEF PortEvent
<1>33. ASSUME NEW h \in Hands, HandInsert(h) PROVE TypeOK'
  BY <1>33, FeedAssumption DEF HandInsert
<1>34. ASSUME NEW h \in Hands, HandRemove(h) PROVE TypeOK'
  <2>1. h \in Head
    BY FeedAssumption
  <2>2. pending' \in [Head -> SUBSET {"runout", "port"}]
    BY <1>34, <2>1, RunoutTyped DEF HandRemove
  <2>3. QED
    BY <1>34, <2>1, <2>2 DEF HandRemove
<1>35. CASE Restart
  BY <1>35, OpMoves, FeedAssumption DEF Restart
<1>36. CASE UNCHANGED vars
  BY <1>36 DEF vars
<1>37. QED
  <2>1. \A H \in {{h} : h \in Head} \cup {Head} : H \in SUBSET Head
    OBVIOUS
  <2>2. CASE Feed
    BY <2>2, <1>1, <1>2, <1>3, <1>4 DEF Feed
  <2>3. CASE Unload
    BY <2>3, <1>5, <1>6, <1>7, <1>8,
       <1>9, <1>10, <1>11, <1>12 DEF Unload
  <2>4. CASE Running
    BY <2>4, <1>13, <1>14, <1>15, <1>16,
       <1>17, <1>18, <1>19 DEF Running
  <2>5. CASE Commands
    BY <2>1, <2>5, <1>20, <1>21, <1>22, <1>23, <1>24,
       <1>25, <1>26, <1>27, <1>28, <1>29, <1>30 DEF Commands
  <2>6. CASE Environment
    BY <2>6, <1>31, <1>32, <1>33, <1>34, <1>35 DEF Environment
  <2>7. QED
    BY <2>2, <2>3, <2>4, <2>5, <2>6, <1>36 DEF Next

-----------------------------------------------------------------------------
(* The bookkeeping invariant, one step per action.                         *)

\* The fields of the places a command can go to.
LEMMA OpFields ==
  ASSUME op \in OpType
  PROVE  /\ Idle.cmd = "none" /\ Idle.pc = "idle"
         /\ \A pc : /\ Goto(pc).cmd = op.cmd /\ Goto(pc).pc = pc
                    /\ Goto(pc).head = op.head /\ Goto(pc).ace = op.ace
                    /\ Goto(pc).any = op.any /\ Goto(pc).old = op.old
         /\ NextHead.cmd = op.cmd /\ NextHead.pc = "visit"
         /\ NextHead.ace = op.ace /\ NextHead.any = op.any
         /\ [NextHead EXCEPT !.any = TRUE].cmd = op.cmd
         /\ [NextHead EXCEPT !.any = TRUE].pc = "visit"
         /\ [NextHead EXCEPT !.any = TRUE].ace = op.ace
         /\ [NextHead EXCEPT !.any = TRUE].any
         /\ [op EXCEPT !.cmd = "swapin", !.head = 0].cmd = "swapin"
         /\ [op EXCEPT !.cmd = "swapin", !.head = 0].pc = op.pc
         /\ [op EXCEPT !.cmd = "swapin", !.head = 0].ace = op.ace
BY DEF OpType, Idle, Goto, NextHead

\* Every step keeps the bookkeeping invariant.
LEMMA BookStep == IInv /\ [Next]_vars => BookOK'
<1> SUFFICES ASSUME IInv, [Next]_vars PROVE BookOK'
  OBVIOUS
<1> USE DEF IInv, TypeOK, BookOK, OpOK, PullsOwn, SavedInv
<1>1. CASE FeedReturns
  <2>1. CASE op.cmd = "load" /\ op' = Goto("record")
    BY <1>1, <2>1, OpFields DEF FeedReturns
  <2>2. CASE op.cmd = "swapin" /\ op' = NextHead
    BY <1>1, <2>2, OpFields DEF FeedReturns
  <2>3. CASE op' = Idle
    BY <1>1, <2>3, OpFields DEF FeedReturns
  <2>4. QED
    BY <1>1, <2>1, <2>2, <2>3 DEF FeedReturns, AfterFeed
<1>2. CASE FeedStarts
  BY <1>2, OpFields DEF FeedStarts
<1>3. CASE Fed
  BY <1>3, OpFields DEF Fed, AfterFeed, Push
<1>4. CASE FeedFails
  <2>1. CASE op.cmd = "load" /\ op' = Goto("record")
    BY <1>4, <2>1, OpFields DEF FeedFails
  <2>2. CASE op' = Idle
    BY <1>4, <2>2, OpFields DEF FeedFails
  <2>3. QED
    BY <1>4, <2>1, <2>2 DEF FeedFails, Trusted
<1>5. CASE Prepare
  BY <1>5, OpFields DEF Prepare
<1>6. CASE PrepareFails
  BY <1>6, OpFields DEF PrepareFails, UnloadFails, SensorAfterError
<1>7. CASE DoingIgnored
  BY <1>7, OpFields DEF DoingIgnored
<1>8. CASE DoingFails
  BY <1>8, OpFields DEF DoingFails, UnloadFails, SensorAfterError
<1>9. CASE Doing
  BY <1>9, OpFields DEF Doing
<1>10. CASE Pull
  BY <1>10, OpFields DEF Pull, Runout
<1>11. CASE Unloaded
  BY <1>11, OpFields DEF Unloaded
<1>12. CASE After
  <2>1. CASE op.cmd \in {"unload", "park"}
    <3>1. op' = Idle /\ saved' = source'
      BY <1>12, <2>1 DEF After
    <3>2. QED
      BY <3>1, OpFields
  <2>2. CASE op.cmd = "all"
    <3>1. op' = [NextHead EXCEPT !.any = TRUE]
      BY <1>12, <2>2 DEF After
    <3>2. QED
      BY <2>2, <3>1, OpFields
  <2>3. CASE op.cmd \notin {"unload", "park", "all"}
    <3>1. /\ (op.cmd = "swapout" /\ op' = NextHead) \/ op' = Idle
          /\ UNCHANGED <<book, active>>
      BY <1>12, <2>3 DEF After
    <3>2. QED
      BY <2>3, <3>1, OpFields
  <2>4. QED
    BY <2>1, <2>2, <2>3
<1>13. CASE HeadSwitched
  BY <1>13, OpFields DEF HeadSwitched, Wanted
<1>14. CASE HeadSwitchFails
  BY <1>14, OpFields DEF HeadSwitchFails, Wanted, SkipOrRaise
<1>15. CASE GateEmpty
  BY <1>15, OpFields DEF GateEmpty
<1>16. CASE RecordLoad
  BY <1>16, OpFields DEF RecordLoad
<1>17. CASE Visit
  <2>1. CASE op' = NextHead
    BY <1>17, <2>1, OpFields DEF Visit
  <2>2. CASE op.cmd = "swapin" /\ op' = Goto("feed")
    BY <1>17, <2>2, OpFields DEF Visit
  <2>3. CASE op.cmd = "all" /\ Elsewhere(op.head) /\ op' = Goto("switch")
    BY <1>17, <2>3, OpFields DEF Visit
  <2>4. CASE (op.cmd = "all" => ~Elsewhere(op.head)) /\ op' = Goto("prepare")
             /\ op.cmd \notin {"unload", "park"}
    BY <1>17, <2>4, OpFields DEF Visit
  <2>5. op.cmd \notin {"unload", "park"}
    BY <1>17 DEF Visit
  <2>6. QED
    BY <1>17, <2>1, <2>2, <2>3, <2>4, <2>5 DEF Visit
<1>18. CASE AllUnloaded
  BY <1>18, OpFields DEF AllUnloaded, SavedAfterLoop
<1>19. CASE SwapOver
  BY <1>19, OpFields DEF SwapOver
<1>20. ASSUME NEW h \in Head, NEW a \in Ace, LoadHead(h, a) PROVE BookOK'
  BY <1>20, OpFields DEF LoadHead, Begin, Do
<1>21. ASSUME NEW h \in Head, NEW a \in Ace, MarkHeadLoaded(h, a) PROVE BookOK'
  BY <1>21, OpFields DEF MarkHeadLoaded
<1>22. ASSUME NEW h \in Head, NEW cmd \in {"unload", "park"}, UnloadHead(h, cmd)
      PROVE BookOK'
  BY <1>22, OpFields DEF UnloadHead, Begin, Do
<1>23. ASSUME NEW h \in Hands, SetHeadManual(h) PROVE BookOK'
  BY <1>23, OpFields DEF SetHeadManual
<1>24. ASSUME NEW h \in Touch, TouchLoad(h) PROVE BookOK'
  BY <1>24, OpFields DEF TouchLoad, Begin, Do
<1>25. ASSUME NEW h \in Touch, TouchUnload(h) PROVE BookOK'
  BY <1>25, OpFields DEF TouchUnload, Begin, Do
<1>26. ASSUME NEW h \in Touch, TouchCancel(h) PROVE BookOK'
  BY <1>26, OpFields DEF TouchCancel
<1>27. ASSUME NEW a \in Ace, SwapAll(a) PROVE BookOK'
  BY <1>27, OpFields DEF SwapAll, Begin, Do
<1>28. ASSUME NEW a \in Ace, SwitchAce(a) PROVE BookOK'
  BY <1>28, OpFields DEF SwitchAce
<1>29. ASSUME NEW H \in SUBSET Head, ClearHeads(H) PROVE BookOK'
  BY <1>29, OpFields DEF ClearHeads
<1>30. CASE UnloadAll
  BY <1>30, OpFields DEF UnloadAll, Begin, Do
<1>31. ASSUME NEW h \in Head, ChannelEvent(h) PROVE BookOK'
  BY <1>31, OpFields DEF ChannelEvent
<1>32. ASSUME NEW h \in Ports, NEW comes \in BOOLEAN, PortEvent(h, comes)
      PROVE BookOK'
  BY <1>32, OpFields DEF PortEvent
<1>33. ASSUME NEW h \in Hands, HandInsert(h) PROVE BookOK'
  BY <1>33, OpFields DEF HandInsert
<1>34. ASSUME NEW h \in Hands, HandRemove(h) PROVE BookOK'
  BY <1>34, OpFields DEF HandRemove, Runout
<1>35. CASE Restart
  BY <1>35, OpFields DEF Restart
<1>36. CASE UNCHANGED vars
  BY <1>36 DEF vars
<1>37. QED
  <2>1. \A H \in {{h} : h \in Head} \cup {Head} : H \in SUBSET Head
    OBVIOUS
  <2>2. CASE Feed
    BY <2>2, <1>1, <1>2, <1>3, <1>4 DEF Feed
  <2>3. CASE Unload
    BY <2>3, <1>5, <1>6, <1>7, <1>8,
       <1>9, <1>10, <1>11, <1>12 DEF Unload
  <2>4. CASE Running
    BY <2>4, <1>13, <1>14, <1>15, <1>16,
       <1>17, <1>18, <1>19 DEF Running
  <2>5. CASE Commands
    BY <2>1, <2>5, <1>20, <1>21, <1>22, <1>23, <1>24,
       <1>25, <1>26, <1>27, <1>28, <1>29, <1>30 DEF Commands
  <2>6. CASE Environment
    BY <2>6, <1>31, <1>32, <1>33, <1>34, <1>35 DEF Environment
  <2>7. QED
    BY <2>2, <2>3, <2>4, <2>5, <2>6, <1>36 DEF Next

\* The printer starts in the invariant.
LEMMA InitIInv == Init => IInv
<1> SUFFICES ASSUME Init PROVE IInv
  OBVIOUS
<1>1. op \in OpType /\ op.cmd = "none" /\ op.pc = "idle"
  BY HeadRange DEF Init, Idle, OpType
<1>2. TypeOK
  BY <1>1, FeedAssumption DEF Init, TypeOK
<1>3. BookOK
  BY <1>1 DEF Init, BookOK, OpOK, PullsOwn, SavedInv
<1>4. QED
  BY <1>2, <1>3 DEF IInv

\* The inductive invariant: types, what the fields of a running command hold,
\* and which records are saved.
THEOREM Inductive == Spec => []IInv
<1>1. IInv /\ [Next]_vars => IInv'
  BY TypeStep, BookStep DEF IInv
<1>2. QED
  BY InitIInv, <1>1, PTL DEF Spec

\* Every variable keeps its type, for any number of heads and ACEs.
THEOREM TypeCorrect == Spec => []TypeOK
<1>1. IInv => TypeOK
  BY DEF IInv
<1>2. QED
  BY Inductive, <1>1, PTL

\* Whenever no command runs, a restart finds the records as they are in memory.
THEOREM SavedCorrect == Spec => []SavedWhenIdle
<1>1. IInv => SavedWhenIdle
  BY DEF IInv, BookOK, SavedInv, SavedWhenIdle, Idle
<1>2. QED
  BY Inductive, <1>1, PTL

\* ACE_UNLOAD_HEAD and the unload of all heads pull a recorded head back by
\* the ACE its record names, whatever fails on the way.
THEOREM CommandsPullCorrect == Spec => CommandsPullOwn
<1> DEFINE A == op.pc = "pull" /\ op'.pc = "pulled" /\ source[op.head] # None
                  /\ op.cmd \in {"unload", "park", "all"}
                => active = source[op.head].ace
<1>1. IInv => A
  BY DEF IInv, BookOK, PullsOwn
<1>2. IInv /\ [Next]_vars => [A]_vars
  BY <1>1
<1>3. Spec => [][A]_vars
  <2> HIDE DEF A
  <2>1. QED
    BY Inductive, <1>2, PTL DEF Spec
<1>4. QED
  BY <1>3 DEF CommandsPullOwn


-----------------------------------------------------------------------------
(* A session: nobody puts in or takes out filament by hand, the touchscreen *)
(* sends no FEED_AUTO of its own, the printer is not restarted.             *)

Session == Hands = {} /\ Touch = {} /\ ~Crashes

\* Between its pull and UNLOAD_FINISH a head is recorded and may be empty.
SourceInv ==
  \A h \in Head :
    source[h] # None /\ ~source[h].parked =>
      \/ path[h] = source[h].ace
      \/ op.pc = "pulled" /\ op.head = h /\ path[h] = None

\* LOAD_FINISH is true; a disabled sensor is that of the head being unloaded.
ChannelInv ==
  \A h \in Head :
    /\ chan[h] = "loaded" => seen[h] /\ ~(op.pc \in {"pull", "pulled"} /\ op.head = h)
    /\ sensorOn[h] \/ ( /\ op.head = h /\ op.cmd \in {"unload", "park"}
                        /\ op.pc \in {"doing", "pull", "pulled", "after"} )

\* A load feeds an empty head from the active ACE, and records what it fed.
LoadInv ==
  /\ op.cmd # "touch"
  /\ op.pc \in {"feed", "feeding"} \/ (op.cmd = "load" /\ op.pc = "switch")
       => op.head \in Head /\ ~seen[op.head]
  /\ op.cmd = "load" /\ op.pc \in {"feed", "feeding", "record"} => op.ace = active
  /\ op.pc = "record" => op.head \in Head /\ path[op.head] = op.ace

SessionInv == SourceInv /\ ChannelInv /\ LoadInv

\* Every step of a session keeps its invariant.
LEMMA SessionStep ==
  Session /\ IInv /\ SessionInv /\ [Next]_vars => SessionInv'
<1> SUFFICES ASSUME Session, IInv, SessionInv, [Next]_vars PROVE SessionInv'
  OBVIOUS
<1> USE DEF Session, IInv, TypeOK, BookOK, OpOK, SessionInv, SourceInv,
            ChannelInv, LoadInv
<1>1. CASE FeedReturns
  <2>1. ~FeedRefused(op.head)
    BY <1>1 DEF FeedReturns, FeedRefused
  <2>2. QED
    BY <1>1, <2>1 DEF FeedReturns
<1>2. CASE FeedStarts
  BY <1>2, OpFields DEF FeedStarts
<1>3. CASE Fed
  BY <1>3, OpFields DEF Fed, AfterFeed, Push
<1>4. CASE FeedFails
  <2>1. \A h \in Head :
          path'[h] = path[h] \/ (path[h] \in {None, active} /\ path'[h] = active)
    BY <1>4 DEF FeedFails, Push
  <2>2. /\ \A h \in Head : seen[h] => seen'[h]
        /\ seen'[op.head] => path'[op.head] = active
    BY <1>4 DEF FeedFails, Push
  <2>3. SourceInv'
    <3>1. \A h \in Head : source[h] # None /\ ~source[h].parked =>
                           path[h] = source[h].ace /\ source[h].ace \in Ace
      BY <1>4 DEF FeedFails
    <3>2. QED
      BY <1>4, <2>1, <3>1, FeedAssumption DEF FeedFails
  <2>4. ChannelInv'
    <3>1. op.cmd = "load" \/ op.cmd = "swapin"
      BY <1>4 DEF FeedFails
    <3>2. op'.pc \in {"record", "idle"} /\ UNCHANGED sensorOn
      BY <1>4, OpFields DEF FeedFails
    <3>3. \A h \in Head : sensorOn[h]
      BY <1>4 DEF FeedFails
    <3>4. QED
      BY <1>4, <2>2, <3>2, <3>3 DEF FeedFails
  <2>5. LoadInv'
    <3>1. CASE op.cmd = "load" /\ op' = Goto("record") /\ seen'[op.head]
      BY <1>4, <2>2, <3>1, OpFields DEF FeedFails
    <3>2. CASE op' = Idle
      BY <3>2, OpFields
    <3>3. QED
      BY <1>4, <3>1, <3>2 DEF FeedFails, Trusted
  <2>6. QED
    BY <2>3, <2>4, <2>5
<1>5. CASE Prepare
  BY <1>5, OpFields DEF Prepare
<1>6. CASE PrepareFails
  <2>1. CASE op.cmd \in {"unload", "park"}
    <3>1. op' = Idle /\ sensorOn' = [sensorOn EXCEPT ![op.head] = TRUE]
          /\ UNCHANGED source
      BY <1>6, <2>1 DEF PrepareFails, UnloadFails, SensorAfterError
    <3>2. QED
      BY <1>6, <3>1, OpFields DEF PrepareFails, UnloadFails
  <2>2. CASE op.cmd \notin {"unload", "park"}
    <3>1. sensorOn' = sensorOn
      BY <1>6, <2>2 DEF PrepareFails, UnloadFails, SensorAfterError
    <3>2. CASE op' = [NextHead EXCEPT !.any = TRUE]
               /\ source' = [source EXCEPT ![op.head] = None]
      BY <1>6, <2>2, <3>1, <3>2, OpFields DEF PrepareFails, UnloadFails
    <3>3. CASE op' = Idle /\ UNCHANGED source
      BY <1>6, <2>2, <3>1, <3>3, OpFields DEF PrepareFails, UnloadFails
    <3>4. QED
      BY <1>6, <3>2, <3>3 DEF PrepareFails, UnloadFails
  <2>3. QED
    BY <2>1, <2>2
<1>7. CASE DoingIgnored
  BY <1>7, OpFields DEF DoingIgnored
<1>8. CASE DoingFails
  <2>1. CASE op.cmd \in {"unload", "park"}
    <3>1. op' = Idle /\ sensorOn' = [sensorOn EXCEPT ![op.head] = TRUE]
          /\ UNCHANGED source
      BY <1>8, <2>1 DEF DoingFails, UnloadFails, SensorAfterError
    <3>2. QED
      BY <1>8, <3>1, OpFields DEF DoingFails, UnloadFails
  <2>2. CASE op.cmd \notin {"unload", "park"}
    <3>1. sensorOn' = sensorOn
      BY <1>8, <2>2 DEF DoingFails, UnloadFails, SensorAfterError
    <3>2. CASE op' = [NextHead EXCEPT !.any = TRUE]
               /\ source' = [source EXCEPT ![op.head] = None]
      BY <1>8, <2>2, <3>1, <3>2, OpFields DEF DoingFails, UnloadFails
    <3>3. CASE op' = Idle /\ UNCHANGED source
      BY <1>8, <2>2, <3>1, <3>3, OpFields DEF DoingFails, UnloadFails
    <3>4. QED
      BY <1>8, <3>2, <3>3 DEF DoingFails, UnloadFails
  <2>3. QED
    BY <2>1, <2>2
<1>9. CASE Doing
  BY <1>9, OpFields DEF Doing
<1>10. CASE Pull
  BY <1>10, OpFields DEF Pull, Runout
<1>11. CASE Unloaded
  BY <1>11, OpFields DEF Unloaded
<1>12. CASE After
  <2>1. CASE op.cmd \in {"unload", "park"}
    <3>1. /\ op' = Idle
          /\ sensorOn' = [sensorOn EXCEPT ![op.head] = TRUE]
          /\ \A h \in Head : source'[h] = source[h] \/ source'[h] = None
                               \/ source'[h].parked
      BY <1>12, <2>1 DEF After, OpType
    <3>2. QED
      BY <1>12, <3>1, OpFields DEF After
  <2>2. CASE op.cmd = "all"
    <3>1. op' = [NextHead EXCEPT !.any = TRUE] /\ sensorOn' = sensorOn
          /\ source' = [source EXCEPT ![op.head] = None]
      BY <1>12, <2>2 DEF After
    <3>2. QED
      BY <1>12, <2>2, <3>1, OpFields DEF After
  <2>3. CASE op.cmd \notin {"unload", "park", "all"}
    <3>1. (op' = NextHead \/ op' = Idle) /\ UNCHANGED <<book, sensorOn>>
      BY <1>12, <2>3 DEF After
    <3>2. QED
      BY <1>12, <2>3, <3>1, OpFields DEF After
  <2>4. QED
    BY <2>1, <2>2, <2>3
<1>13. CASE HeadSwitched
  BY <1>13, OpFields DEF HeadSwitched, Wanted
<1>14. CASE HeadSwitchFails
  BY <1>14, OpFields DEF HeadSwitchFails, Wanted, SkipOrRaise
<1>15. CASE GateEmpty
  BY <1>15, OpFields DEF GateEmpty
<1>16. CASE RecordLoad
  BY <1>16, OpFields DEF RecordLoad
<1>17. CASE Visit
  BY <1>17, OpFields DEF Visit
<1>18. CASE AllUnloaded
  BY <1>18, OpFields DEF AllUnloaded, SavedAfterLoop
<1>19. CASE SwapOver
  BY <1>19, OpFields DEF SwapOver
<1>20. ASSUME NEW h \in Head, NEW a \in Ace, LoadHead(h, a) PROVE SessionInv'
  BY <1>20, OpFields DEF LoadHead, Begin, Do
<1>21. ASSUME NEW h \in Head, NEW a \in Ace, MarkHeadLoaded(h, a)
      PROVE SessionInv'
  BY <1>21, OpFields DEF MarkHeadLoaded
<1>22. ASSUME NEW h \in Head, NEW cmd \in {"unload", "park"}, UnloadHead(h, cmd)
      PROVE SessionInv'
  BY <1>22, OpFields DEF UnloadHead, Begin, Do
<1>23. ASSUME NEW h \in Hands, SetHeadManual(h) PROVE SessionInv'
  BY <1>23, OpFields DEF SetHeadManual
<1>24. ASSUME NEW h \in Touch, TouchLoad(h) PROVE SessionInv'
  BY <1>24, OpFields DEF TouchLoad, Begin, Do
<1>25. ASSUME NEW h \in Touch, TouchUnload(h) PROVE SessionInv'
  BY <1>25, OpFields DEF TouchUnload, Begin, Do
<1>26. ASSUME NEW h \in Touch, TouchCancel(h) PROVE SessionInv'
  BY <1>26, OpFields DEF TouchCancel
<1>27. ASSUME NEW a \in Ace, SwapAll(a) PROVE SessionInv'
  BY <1>27, OpFields DEF SwapAll, Begin, Do
<1>28. ASSUME NEW a \in Ace, SwitchAce(a) PROVE SessionInv'
  BY <1>28, OpFields DEF SwitchAce
<1>29. ASSUME NEW H \in SUBSET Head, ClearHeads(H) PROVE SessionInv'
  BY <1>29, OpFields DEF ClearHeads
<1>30. CASE UnloadAll
  BY <1>30, OpFields DEF UnloadAll, Begin, Do
<1>31. ASSUME NEW h \in Head, ChannelEvent(h) PROVE SessionInv'
  BY <1>31, OpFields DEF ChannelEvent
<1>32. ASSUME NEW h \in Ports, NEW comes \in BOOLEAN, PortEvent(h, comes)
      PROVE SessionInv'
  BY <1>32, OpFields DEF PortEvent
<1>33. ASSUME NEW h \in Hands, HandInsert(h) PROVE SessionInv'
  BY <1>33, OpFields DEF HandInsert
<1>34. ASSUME NEW h \in Hands, HandRemove(h) PROVE SessionInv'
  BY <1>34, OpFields DEF HandRemove, Runout
<1>35. CASE Restart
  BY <1>35, OpFields DEF Restart
<1>36. CASE UNCHANGED vars
  BY <1>36 DEF vars
<1>37. QED
  <2>1. \A H \in {{h} : h \in Head} \cup {Head} : H \in SUBSET Head
    OBVIOUS
  <2>2. CASE Feed
    BY <2>2, <1>1, <1>2, <1>3, <1>4 DEF Feed
  <2>3. CASE Unload
    BY <2>3, <1>5, <1>6, <1>7, <1>8,
       <1>9, <1>10, <1>11, <1>12 DEF Unload
  <2>4. CASE Running
    BY <2>4, <1>13, <1>14, <1>15, <1>16,
       <1>17, <1>18, <1>19 DEF Running
  <2>5. CASE Commands
    BY <2>1, <2>5, <1>20, <1>21, <1>22, <1>23, <1>24,
       <1>25, <1>26, <1>27, <1>28, <1>29, <1>30 DEF Commands
  <2>6. CASE Environment
    BY <2>6, <1>31, <1>32, <1>33, <1>34, <1>35 DEF Environment
  <2>7. QED
    BY <2>2, <2>3, <2>4, <2>5, <2>6, <1>36 DEF Next

\* A session starts in its invariant.
LEMMA SessionInit == Init => SessionInv
BY DEF Init, Idle, SessionInv, SourceInv, ChannelInv, LoadInv

\* What a session adds to the invariant is inductive with it.
THEOREM SessionInductive ==
  ASSUME Session
  PROVE  Spec => []SessionInv
<1>1. IInv /\ SessionInv /\ [Next]_vars => SessionInv'
  BY SessionStep
<1>2. QED
  BY Inductive, SessionInit, <1>1, PTL DEF Spec

\* In a session an unparked record names the ACE whose filament is in the tube.
THEOREM RecordCorrect ==
  ASSUME Session
  PROVE  Spec => []RecordIsFeeder
<1>1. SessionInv => RecordIsFeeder
  BY FeedAssumption DEF SessionInv, SourceInv, RecordIsFeeder
<1>2. QED
  BY SessionInductive, <1>1, PTL

\* In a session no sensor stays disabled once its command is over.
THEOREM SensorsCorrect ==
  ASSUME Session
  PROVE  Spec => []SensorsBackOn
<1>1. SessionInv => SensorsBackOn
  BY DEF SessionInv, ChannelInv, SensorsBackOn, Idle
<1>2. QED
  BY SessionInductive, <1>1, PTL

=============================================================================
