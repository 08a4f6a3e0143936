--------------------------- MODULE AutoDryProofs ---------------------------
(* Theorems about AutoDry, for any number of ACEs, any times and any bound   *)
(* on the events from outside; and, at the end, about DryPlugin, the         *)
(* machine that was ported from it.                                          *)
EXTENDS AutoDry, TLAPS

\* What binds the snapshot s, the ephemeral part e and the history of one ACE:
\* the clocks of a run agree, a count is of wet visits while watching below the
\* cap, a fault is one that nobody has reset since, and otherwise what is left of
\* the cooldown is what the rest lacks.
Agree(s, e, x, y, z) ==
    /\ s \in SnapshotType /\ e \in EphType
    /\ x \in 0..Required /\ y \in 0..MaxRun /\ z \in Held..Cooldown
    /\ s.state = "DRYING" => s.since = y /\ e.started \in {Epoch, y}
    /\ e.count > 0 => s.state = "WATCHING" /\ s.duty < DutyCap /\ s.cool = 0
    /\ e.count <= x
    /\ s.state \in {"DRYING", "FAULTED"} => s.cool = 0
    /\ (s.state = "FAULTED") = (z = Held)
    /\ z # Held => z + s.cool = Cooldown

AceInv == \A a \in ACE :
    /\ Agree(fsm[a], eph[a], seen[a], run[a], rest[a])
    /\ a >= n => eph[a].count = 0

\* While a print is on, a usable payload without it was sampled before it began.
CacheInv ==
    print \in Busy /\ cache.age <= StaleLimit /\ ~cache.busy
        => phaseFor <= cache.age + Late

\* A trigger that is being announced or commanded is some ACE's.
DryInv == pc \in {"announce", "command"} => dryFor \in ACE

IInv == TypeOK /\ AceInv /\ CacheInv /\ DryInv

-----------------------------------------------------------------------------
(* What one evaluated tick may write.                                        *)

\* A fresh ACE that no run was ever seen of agrees.
LEMMA BlankAgrees ==
    Agree(Blank, FreshEph, 0, 0, Cooldown)
BY CapAssumption DEF Agree, Blank, FreshEph, SnapshotType, EphType, States, Epoch, Held

\* The ephemeral part a tick works with has the start of the run.
LEMMA RecoveredStarts ==
    ASSUME IInv, NEW a \in ACE
    PROVE  /\ Recovered(a) \in EphType
           /\ Recovered(a).count = eph[a].count
           /\ fsm[a].state = "DRYING" =>
                Recovered(a).started = run[a] /\ RanNow(a) = run[a]
<1>1. /\ eph[a] \in EphType /\ fsm[a] \in SnapshotType /\ run[a] \in 0..MaxRun
      /\ fsm[a].state = "DRYING" =>
           fsm[a].since = run[a] /\ eph[a].started \in {Epoch, run[a]}
  BY DEF IInv, AceInv, Agree
<1>2. CASE fsm[a].state = "DRYING" /\ eph[a].started = Epoch
  BY <1>1, <1>2, CapAssumption DEF Recovered, RanNow, Ran, EphType, SnapshotType, Epoch
<1>3. CASE ~(fsm[a].state = "DRYING" /\ eph[a].started = Epoch)
  BY <1>1, <1>3, CapAssumption DEF Recovered, RanNow, Ran, EphType, SnapshotType, Epoch
<1> QED BY <1>2, <1>3

\* Writing records that agree for one managed ACE keeps the invariant of all.
LEMMA WriteAgrees ==
    ASSUME IInv, NEW a \in ACE, a < n, n' = n,
           NEW s, NEW e, NEW x, NEW y, NEW z, NEW on \in [ACE -> BOOLEAN],
           Agree(s, e, x, y, z), Save([fsm EXCEPT ![a] = s], on),
           eph' = [eph EXCEPT ![a] = e], Noted(a, x, y, z)
    PROVE  /\ AceInv'
           /\ fsm' \in [ACE -> SnapshotType] /\ eph' \in [ACE -> EphType]
           /\ enabled' \in [ACE -> BOOLEAN] /\ file' = "v2"
           /\ posted' \in BOOLEAN /\ told' \in BOOLEAN
           /\ seen' \in [ACE -> 0..Required] /\ run' \in [ACE -> 0..MaxRun]
           /\ rest' \in [ACE -> Held..Cooldown]
           /\ \A b \in ACE : b # a =>
                 fsm'[b] = fsm[b] \/ fsm'[b] = Blank
           /\ fsm'[a] = s
<1>1. TypeOK /\ AceInv /\ n \in 1..N /\ a \in Nat
  BY CountAssumption DEF IInv, TypeOK, ACE
<1>2. /\ s \in SnapshotType /\ e \in EphType
      /\ x \in 0..Required /\ y \in 0..MaxRun /\ z \in Held..Cooldown
  BY DEF Agree
<1>3. fsm'[a] = s /\ eph'[a] = e /\ seen'[a] = x /\ run'[a] = y /\ rest'[a] = z
  BY <1>1 DEF Save, Noted, Kept, TypeOK
<1>4. ASSUME NEW b \in ACE, b # a
      PROVE  /\ eph'[b] = eph[b]
             /\ b < n => /\ fsm'[b] = fsm[b] /\ seen'[b] = seen[b]
                         /\ run'[b] = run[b] /\ rest'[b] = rest[b]
             /\ ~(b < n) => /\ fsm'[b] = Blank /\ seen'[b] = 0
                            /\ run'[b] = 0 /\ rest'[b] = Cooldown
  BY <1>1, <1>4 DEF Save, Noted, Kept, TypeOK
<1>5. ASSUME NEW b \in ACE
      PROVE  /\ Agree(fsm'[b], eph'[b], seen'[b], run'[b], rest'[b])
             /\ b >= n => eph'[b].count = 0
  <2>1. CASE b = a
    BY <1>1, <1>3, <2>1 
  <2>2. CASE b # a /\ b < n
    BY <1>1, <1>4, <2>2 DEF AceInv, ACE
  <2>3. CASE b # a /\ ~(b < n)
    <3>1. /\ eph'[b] = eph[b] /\ fsm'[b] = Blank /\ seen'[b] = 0
          /\ run'[b] = 0 /\ rest'[b] = Cooldown
      BY <1>4, <2>3
    <3>2. eph[b] \in EphType /\ eph[b].count = 0
      BY <1>1, <2>3, CountAssumption DEF AceInv, Agree, ACE
    <3> QED BY <3>1, <3>2, BlankAgrees DEF Agree, Blank
  <2> QED BY <2>1, <2>2, <2>3
<1>6. AceInv'
  BY <1>5 DEF AceInv
<1>7. /\ fsm' = [b \in ACE |-> fsm'[b]] /\ eph' = [b \in ACE |-> eph'[b]]
      /\ seen' = [b \in ACE |-> seen'[b]] /\ run' = [b \in ACE |-> run'[b]]
      /\ rest' = [b \in ACE |-> rest'[b]]
  BY <1>1 DEF Save, Noted, Kept, TypeOK
<1>8. /\ fsm' \in [ACE -> SnapshotType] /\ eph' \in [ACE -> EphType]
      /\ seen' \in [ACE -> 0..Required] /\ run' \in [ACE -> 0..MaxRun]
      /\ rest' \in [ACE -> Held..Cooldown]
  BY <1>5, <1>7 DEF Agree
<1>9. enabled' \in [ACE -> BOOLEAN] /\ file' = "v2"
      /\ posted' \in BOOLEAN /\ told' \in BOOLEAN
  BY <1>1 DEF Save, Kept, TypeOK
<1> QED BY <1>3, <1>4, <1>6, <1>8, <1>9

LEMMA BecomesAgrees ==
    ASSUME IInv, NEW a \in ACE, a < n, n' = n,
           NEW s, NEW e, NEW x, NEW y, NEW z,
           Agree(s, e, x, y, z), Becomes(a, s, e), Noted(a, x, y, z)
    PROVE  /\ AceInv'
           /\ fsm' \in [ACE -> SnapshotType] /\ eph' \in [ACE -> EphType]
           /\ enabled' \in [ACE -> BOOLEAN] /\ file' = "v2"
           /\ posted' \in BOOLEAN /\ told' \in BOOLEAN
           /\ seen' \in [ACE -> 0..Required] /\ run' \in [ACE -> 0..MaxRun]
           /\ rest' \in [ACE -> Held..Cooldown]
           /\ \A b \in ACE : b # a =>
                 fsm'[b] = fsm[b] \/ fsm'[b] = Blank
           /\ fsm'[a] = s
BY WriteAgrees DEF Becomes, IInv, TypeOK

\* What every tick of the state machine of a managed ACE leaves behind.
Settled ==
    /\ AceInv'
    /\ fsm' \in [ACE -> SnapshotType] /\ eph' \in [ACE -> EphType]
    /\ enabled' \in [ACE -> BOOLEAN] /\ file' = "v2"
    /\ posted' \in BOOLEAN /\ told' \in BOOLEAN
    /\ seen' \in [ACE -> 0..Required] /\ run' \in [ACE -> 0..MaxRun]
    /\ rest' \in [ACE -> Held..Cooldown]

\* A quiet write: nothing of the history but the wet visits is lost.
LEMMA QuietlySettles ==
    ASSUME IInv, NEW a \in ACE, a < n, n' = n, NEW s, NEW e,
           Agree(s, e, 0, run[a], rest[a]), Quietly(a, s, e)
    PROVE  Settled /\ fsm'[a] = s /\ \A b \in ACE : b # a => fsm'[b] \in {fsm[b], Blank}
BY BecomesAgrees DEF Quietly, Settled

\* The end of a run and a fault agree.
LEMMA EndsSettle ==
    ASSUME IInv, NEW a \in ACE, a < n, n' = n, fsm[a].state = "DRYING",
           NEW ran \in Nat, EndRun(a, ran) \/ Fail(a)
    PROVE  /\ Settled
           /\ fsm'[a].state \in {"COOLDOWN", "FAULTED"}
           /\ fsm'[a].state = "FAULTED" => Fail(a)
           /\ \A b \in ACE : b # a => fsm'[b] \in {fsm[b], Blank}
<1>1. /\ Agree(fsm[a], eph[a], seen[a], run[a], rest[a])
      /\ Recovered(a) \in EphType /\ Recovered(a).count = eph[a].count
  BY RecoveredStarts DEF IInv, AceInv
<1>2. Stopped(a) \in EphType /\ Stopped(a).count = 0
  BY <1>1, CapAssumption DEF Agree, EphType, Stopped, Epoch
<1>3. CASE EndRun(a, ran)
  <2> DEFINE s == [state |-> "COOLDOWN", since |-> Epoch, cool |-> Cooldown,
                   duty |-> Least(fsm[a].duty + ran, DutyCap)]
  <2>1. s \in SnapshotType
    BY <1>1, CapAssumption DEF Agree, SnapshotType, States, Epoch, Least
  <2>2. Agree(s, Stopped(a), 0, 0, 0)
    BY <1>2, <2>1, CapAssumption DEF Agree, Held
  <2> QED BY <1>3, <2>2, BecomesAgrees DEF EndRun, Settled
<1>4. CASE Fail(a)
  <2> DEFINE s == Entered(a, "FAULTED", Epoch)
  <2>1. s \in SnapshotType /\ s.state = "FAULTED" /\ s.cool = fsm[a].cool
    BY <1>1, CapAssumption DEF Agree, SnapshotType, States, Epoch, Entered
  <2>2. Agree(s, Stopped(a), 0, 0, Held)
    BY <1>1, <1>2, <2>1, CapAssumption DEF Agree, Held
  <2> QED BY <1>4, <2>1, <2>2, BecomesAgrees DEF Fail, Settled
<1> QED BY <1>3, <1>4

\* A trigger agrees, and comes after the required visits and the cooldown, on a
\* payload in use.
LEMMA TriggerSettles ==
    ASSUME IInv, NEW a \in ACE, a < n, n' = n,
           NEW r \in Sensed, NEW armed, Trigger(a, r, armed)
    PROVE  /\ Settled
           /\ fsm'[a].state = "DRYING"
           /\ \A b \in ACE : b # a => fsm'[b] \in {fsm[b], Blank}
           /\ seen[a] >= Required - 1
           /\ rest[a] = Cooldown
           /\ print = "idle" \/ phaseFor <= StaleLimit + Late
<1>1. /\ Agree(fsm[a], eph[a], seen[a], run[a], rest[a])
      /\ fsm[a].state = "WATCHING" /\ fsm[a].cool = 0 /\ r = "wet" /\ ~SeenBusy
  BY DEF IInv, AceInv, Trigger, Observing, Watching
<1>2. Agree(Entered(a, "DRYING", 0), [count |-> 0, started |-> 0, dur |-> TRUE],
            0, 0, rest[a])
  BY <1>1, CapAssumption DEF Agree, SnapshotType, EphType, States, Epoch, Entered
<1>3. Settled /\ fsm'[a].state = "DRYING"
      /\ \A b \in ACE : b # a => fsm'[b] \in {fsm[b], Blank}
  BY <1>2, BecomesAgrees DEF Trigger, Settled, Entered
<1>4. seen[a] >= Required - 1
  BY <1>1, CapAssumption DEF Trigger, Count, Least, Agree, EphType
<1>5. rest[a] = Cooldown
  BY <1>1, CapAssumption DEF Agree
<1>6. print = "idle" \/ phaseFor <= StaleLimit + Late
  <2>1. ~Stale
    BY <1>1 DEF Sensed
  <2>2. cache.age <= StaleLimit /\ ~cache.busy
    BY <1>1, <2>1, CapAssumption DEF Stale, SeenBusy, IInv, TypeOK
  <2>3. print = "idle" \/ print \in Busy
    BY DEF IInv, TypeOK, PrintStates, Busy
  <2> QED BY <2>2, <2>3, CapAssumption DEF IInv, CacheInv, TypeOK
<1> QED BY <1>3, <1>4, <1>5, <1>6

\* Every other disjunct of the tick settles, starts no run, and fails one at the
\* limit only when its history says so.
LEMMA TickSettles ==
    ASSUME IInv, NEW a \in ACE, a < n, n' = n,
           NEW r, NEW armed, TickQuiet(a, r, armed) \/ RunEnded(a, r)
    PROVE  /\ Settled
           /\ \A b \in ACE : b # a => fsm'[b] \in {fsm[b], Blank}
           /\ fsm'[a].state = "DRYING" => fsm[a].state = "DRYING"
           /\ Faults(a) => fsm[a].state = "DRYING"
<1> DEFINE Goal == /\ Settled
                   /\ \A b \in ACE : b # a => fsm'[b] \in {fsm[b], Blank}
                   /\ fsm'[a].state = "DRYING" => fsm[a].state = "DRYING"
                   /\ Faults(a) => fsm[a].state = "DRYING"
<1>1. Agree(fsm[a], eph[a], seen[a], run[a], rest[a])
  BY DEF IInv, AceInv
<1>2. ASSUME NEW st \in {"IDLE", "WATCHING"}, fsm[a].state \notin {"DRYING", "FAULTED"}
      PROVE  Agree([fsm[a] EXCEPT !.state = st], [eph[a] EXCEPT !.count = 0],
                   0, run[a], rest[a])
  BY <1>1, <1>2, CapAssumption DEF Agree, SnapshotType, EphType, States, Epoch
<1>3. ASSUME eph[a].count = 0
      PROVE  Agree(fsm[a], eph[a], 0, run[a], rest[a])
  BY <1>1, <1>3, CapAssumption DEF Agree
<1>4. CASE Idle(a, armed)
  BY <1>1, <1>2, <1>3, <1>4, QuietlySettles DEF Idle, Agree, SnapshotType, EphType, Faults
<1>5. CASE Demote(a, armed)
  <2> DEFINE s == [fsm[a] EXCEPT !.state = "IDLE"]
             e == [eph[a] EXCEPT !.count = 0]
  <2>1. Agree(s, e, 0, run[a], rest[a]) /\ s.state = "IDLE"
    BY <1>1, <1>2, <1>5 DEF Demote, Agree, SnapshotType
  <2>2. Quietly(a, s, e)
    BY <1>5 DEF Demote
  <2>3. Settled /\ fsm'[a] = s /\ \A b \in ACE : b # a => fsm'[b] \in {fsm[b], Blank}
    BY <2>1, <2>2, QuietlySettles
  <2> QED BY <2>1, <2>3 DEF Faults
<1>6. ASSUME SkipPrint(a, armed) \/ ObserveBelow(a, r, armed)
      PROVE  Goal
  <2>1. Agree(fsm[a], [eph[a] EXCEPT !.count = 0], 0, run[a], rest[a])
    BY <1>1, CapAssumption DEF Agree, EphType
  <2> QED BY <1>6, <2>1, QuietlySettles
          DEF SkipPrint, ObserveBelow, Observing, Watching, Faults
<1>7. CASE SkipDaily(a, armed)
  <2>1. eph[a].count = 0
    BY <1>1, <1>7, CapAssumption DEF SkipDaily, Agree, EphType, SnapshotType
  <2> QED BY <1>3, <1>7, <2>1, QuietlySettles DEF SkipDaily, Watching, Faults
<1>8. CASE ObserveAbove(a, r, armed)
  <2> DEFINE e == [eph[a] EXCEPT !.count = Count(@, Required)]
  <2>1. Agree(fsm[a], e, Count(seen[a], Required), run[a], rest[a])
    BY <1>1, <1>8, CapAssumption
       DEF Agree, EphType, SnapshotType, Count, Least, ObserveAbove, Observing, Watching
  <2> QED BY <1>8, <2>1, BecomesAgrees
          DEF ObserveAbove, Observing, Watching, Settled, Faults
<1>9. ASSUME Interrupt(a) \/ RunEnded(a, r)
      PROVE  Goal
  <2>1. fsm[a].state = "DRYING"
    BY <1>9 DEF Interrupt, RunEnded, ReachTarget, FailLimit, RunOut, DurationOver, Running
  <2>2. RanNow(a) \in Nat
    BY <1>1, <2>1, RecoveredStarts, CapAssumption DEF Agree
  <2>3. PICK ran \in Nat : EndRun(a, ran) \/ Fail(a)
    BY <1>9, <2>2 DEF Interrupt, RunEnded, ReachTarget, FailLimit, RunOut
  <2> QED BY <2>1, <2>3, EndsSettle
<1>10. CASE KeepDrying(a, r)
  <2>1. fsm[a].state = "DRYING"
    BY <1>10 DEF KeepDrying, Running
  <2>2. Agree(fsm[a], Recovered(a), 0, run[a], rest[a])
    BY <1>1, <2>1, RecoveredStarts, CapAssumption DEF Agree, EphType
  <2> QED BY <1>10, <2>1, <2>2, QuietlySettles DEF KeepDrying, Faults
<1>11. CASE CoolDown(a)
  BY <1>1, <1>2, <1>3, <1>11, QuietlySettles
     DEF CoolDown, Agree, SnapshotType, EphType, Faults
<1>12. CASE StayFaulted(a)
  BY <1>1, <1>3, <1>12, QuietlySettles DEF StayFaulted, Agree, EphType, Faults
<1> QED BY <1>4, <1>5, <1>6, <1>7, <1>8, <1>9, <1>10, <1>11, <1>12 DEF TickQuiet

-----------------------------------------------------------------------------
(* The steps of the system.                                                  *)

\* Where nothing of the records changes, nor the managed ACEs, they agree on.
LEMMA RecordsKept ==
    ASSUME AceInv, UNCHANGED <<n, fsm, eph, seen, run, rest>>
    PROVE  AceInv'
BY DEF AceInv, Agree

LEMMA InitInv == Init => IInv
<1> SUFFICES ASSUME Init PROVE IInv
  OBVIOUS
<1>1. TypeOK
  <2>1. Blank \in SnapshotType /\ FreshEph \in EphType
    BY BlankAgrees DEF Agree
  <2>2. n \in 1..N /\ enabled \in [ACE -> BOOLEAN] /\ file \in {"v2", "v1-off", "v1-on"}
    <3>1. n \in 1..N /\ file \in {"v2", "v1-off", "v1-on"}
      BY CountAssumption DEF Init
    <3>2. enabled \in [ACE -> BOOLEAN]
      BY Zenon DEF Init
    <3> QED BY <3>1, <3>2
  <2>3. /\ cache \in [busy : BOOLEAN, age : 0..(StaleLimit + 1)]
        /\ events \in 0..Events /\ phaseFor \in 0..(StaleLimit + Late + 1)
        /\ print \in PrintStates /\ posted \in BOOLEAN /\ told \in BOOLEAN
    <3>1. cache = Outdated /\ events = 0 /\ phaseFor = StaleLimit + Late + 1
          /\ print = "idle" /\ posted = FALSE /\ told \in BOOLEAN
      BY ModeAssumption, Zenon DEF Init
    <3>2. Outdated \in [busy : BOOLEAN, age : 0..(StaleLimit + 1)]
      BY CapAssumption DEF Outdated
    <3>3. 0 \in 0..Events /\ StaleLimit + Late + 1 \in 0..(StaleLimit + Late + 1)
      BY CountAssumption, CapAssumption
    <3>4. "idle" \in PrintStates
      BY DEF PrintStates
    <3> QED BY <3>1, <3>2, <3>3, <3>4, Zenon
  <2>4. /\ seen \in [ACE -> 0..Required] /\ run \in [ACE -> 0..MaxRun]
        /\ rest \in [ACE -> Held..Cooldown] /\ fails \in [ACE -> 0..2]
    BY CapAssumption DEF Init, Held
  <2> QED BY <2>1, <2>2, <2>3, <2>4 DEF Init, TypeOK
<1>2. AceInv
  BY BlankAgrees DEF Init, AceInv, FreshEph
<1>3. CacheInv
  BY CapAssumption DEF Init, CacheInv, Outdated
<1>4. DryInv
  BY DEF Init, DryInv
<1> QED BY <1>1, <1>2, <1>3, <1>4 DEF IInv

\* The tick of one ACE, ticked or not.
LEMMA TickInv ==
    ASSUME IInv, NEW a \in ACE, TickOneAce(a), n' = n
    PROVE  /\ AceInv'
           /\ fsm' \in [ACE -> SnapshotType] /\ eph' \in [ACE -> EphType]
           /\ enabled' \in [ACE -> BOOLEAN] /\ file' \in {"v2", "v1-off", "v1-on"}
           /\ seen' \in [ACE -> 0..Required] /\ run' \in [ACE -> 0..MaxRun]
           /\ rest' \in [ACE -> Held..Cooldown]
           /\ posted' \in BOOLEAN /\ told' \in BOOLEAN
           /\ pc' \in {"sleep", "announce", "dismiss"} /\ dryFor' \in ACE \cup {Nobody}
           /\ DryInv'
<1>1. CASE ~Ticked(a) /\ UNCHANGED <<dryFor, stored, eph, history>> /\ pc' = "sleep"
  BY <1>1, RecordsKept DEF IInv, TypeOK, DryInv, stored, history
<1>2. CASE Ticked(a)
  <2>1. a < n
    BY <1>2 DEF Ticked
  <2>2. /\ Settled
        /\ \/ pc' \in {"sleep", "dismiss"} /\ dryFor' = dryFor
           \/ pc' = "announce" /\ dryFor' = a
    <3>1. PICK r \in Sensed, armed \in BOOLEAN :
             \/ /\ TickQuiet(a, r, armed) \/ RunEnded(a, r)
                /\ pc' \in {"sleep", "dismiss"} /\ dryFor' = dryFor
             \/ Trigger(a, r, armed) /\ pc' = "announce" /\ dryFor' = a
      BY <1>2 DEF TickOneAce, CanBeArmed
    <3>2. CASE TickQuiet(a, r, armed) \/ RunEnded(a, r)
      BY <2>1, <3>1, <3>2, TickSettles, TriggerSettles
    <3>3. CASE Trigger(a, r, armed) /\ pc' = "announce" /\ dryFor' = a
      BY <2>1, <3>3, TriggerSettles
    <3> QED BY <3>1, <3>2, <3>3
  <2> QED BY <2>2 DEF Settled, IInv, TypeOK, DryInv
<1> QED BY <1>1, <1>2 DEF TickOneAce

LEMMA NextTargetInRange == IInv => Anchor \in ACE /\ NextTarget \in ACE
<1> SUFFICES ASSUME IInv PROVE Anchor \in ACE /\ NextTarget \in ACE
  OBVIOUS
<1>1. Anchor \in ACE
  BY DEF IInv, TypeOK, Anchor
<1>2. n \in 1..N /\ Anchor + 1 \in Nat
  BY <1>1, CountAssumption DEF IInv, TypeOK, ACE
<1>3. (Anchor + 1) % n \in 0..(n - 1)
  BY <1>2, CountAssumption
<1> QED BY <1>1, <1>2, <1>3, CountAssumption DEF NextTarget, ACE

\* The steps of the poller.
LEMMA PollerInv == IInv /\ Poller => IInv'
<1> SUFFICES ASSUME IInv, Poller PROVE IInv'
  OBVIOUS
<1> USE DEF IInv
<1>1. ASSUME NEW a \in ACE, TickOneAce(a), UNCHANGED <<n, fails, printer, cache, events>>,
             lastPolled' \in ACE \cup {Nobody}
      PROVE  IInv'
  <2>1. TypeOK'
    BY <1>1, TickInv DEF TypeOK, printer
  <2>2. AceInv'
    BY <1>1, TickInv
  <2>3. CacheInv'
    BY <1>1 DEF CacheInv, printer
  <2> QED BY <1>1, <2>1, <2>2, <2>3, TickInv
<1>2. ASSUME UNCHANGED <<n, fsm, enabled, told, eph, history, print, phaseFor, cache, events>>,
             posted' \in BOOLEAN,
             fails' \in [ACE -> 0..2], lastPolled' \in ACE \cup {Nobody},
             dryFor' \in ACE \cup {Nobody}, active' \in ACE,
             file' \in {"v2", "v1-off", "v1-on"},
             pc' \in {"sleep", "pinned", "turn", "visit", "announce", "command", "dismiss"},
             DryInv'
      PROVE  IInv'
  <2>1. TypeOK'
    BY <1>2 DEF TypeOK, history
  <2>2. AceInv'
    BY <1>2, RecordsKept DEF history
  <2>3. CacheInv'
    BY <1>2 DEF CacheInv
  <2> QED BY <1>2, <2>1, <2>2, <2>3
<1>3. CASE Poll
  <2>1. pc' \in {"sleep", "pinned", "turn"}
    BY <1>3 DEF Poll
  <2> QED BY <1>2, <1>3, <2>1 DEF Poll, TypeOK, DryInv, stored, printer
<1>4. CASE Pinned
  BY <1>1, <1>4 DEF Pinned, TypeOK
<1>5. CASE TurnStays
  BY <1>2, <1>5, NextTargetInRange DEF TurnStays, Turn, TypeOK, DryInv, stored
<1>6. CASE (\E a \in ACE : TurnSwitches(a)) \/ TurnSwallowed \/ TurnFails
  <2>1. /\ Turn /\ pc' \in {"visit", "sleep"}
        /\ active' \in ACE
    BY <1>6, NextTargetInRange
       DEF TurnSwitches, TurnSwallowed, TurnFails, TurnAnswered, TypeOK
  <2>2. fails' \in [ACE -> 0..2]
    BY <1>6, NextTargetInRange
       DEF TurnSwitches, TurnSwallowed, TurnFails, TurnAnswered, TypeOK, Count, Least
  <2> QED BY <1>2, <2>1, <2>2, NextTargetInRange DEF Turn, TypeOK, DryInv, stored
<1>7. CASE QueryFails
  BY <1>2, <1>7 DEF QueryFails, TypeOK, DryInv, stored, printer
<1>8. CASE Visit
  BY <1>1, <1>8, NextTargetInRange DEF Visit
<1>9. CASE Announce \/ Dismiss
  <2>1. file' \in {"v2", "v1-off", "v1-on"} /\ posted' \in BOOLEAN
    BY <1>9 DEF Announce, Dismiss, PutId, TypeOK
  <2> QED BY <1>2, <1>9, <2>1 DEF Announce, Dismiss, TypeOK, DryInv, printer
<1>10. CASE Command
  <2>1. active' \in ACE
    BY <1>10 DEF Command, TypeOK, DryInv
  <2> QED BY <1>2, <1>10, <2>1 DEF Command, TypeOK, DryInv, stored
<1> QED BY <1>3, <1>4, <1>5, <1>6, <1>7, <1>8, <1>9, <1>10 DEF Poller

\* The user's requests: the records stay as they were, but for a cleared fault.
LEMMA RequestInv ==
    ASSUME IInv, NEW a \in ACE,
           \/ \E on \in BOOLEAN : SetEnabled(a, on)
           \/ ResetFault(a)
    PROVE  IInv' /\ \A b \in ACE : fsm'[b].state \in {fsm[b].state, "IDLE"}
<1> USE DEF IInv
<1>1. /\ Agree(fsm[a], eph[a], seen[a], run[a], rest[a])
      /\ a < n /\ n' = n /\ events' \in 0..Events
  <2>1. Agree(fsm[a], eph[a], seen[a], run[a], rest[a])
    BY DEF AceInv
  <2>2. Spend /\ a < n /\ UNCHANGED process
    <3>1. CASE ResetFault(a)
      BY <3>1 DEF ResetFault
    <3>2. CASE \E on \in BOOLEAN : SetEnabled(a, on)
      BY <3>2 DEF SetEnabled
    <3> QED BY <3>1, <3>2
  <2>3. events' \in 0..Events
    BY <2>2, CountAssumption DEF Spend, TypeOK
  <2> QED BY <2>1, <2>2, <2>3 DEF process
<1>2. PICK s, z :
               /\ Agree(s, eph[a], seen[a], run[a], z)
               /\ s.state \in {fsm[a].state, "IDLE"}
               /\ \E on \in [ACE -> BOOLEAN] : Save([fsm EXCEPT ![a] = s], on)
               /\ eph' = [eph EXCEPT ![a] = eph[a]]
               /\ Noted(a, seen[a], run[a], z)
               /\ UNCHANGED <<process, printer, cache>>
  <2>1. CASE \E on \in BOOLEAN : SetEnabled(a, on)
    <3>1. PICK on \in BOOLEAN : SetEnabled(a, on)
      BY <2>1
    <3>2. [enabled EXCEPT ![a] = on] \in [ACE -> BOOLEAN]
      BY Zenon DEF TypeOK
    <3>3. fsm = [fsm EXCEPT ![a] = fsm[a]] /\ eph = [eph EXCEPT ![a] = eph[a]]
      BY DEF TypeOK
    <3>4. /\ Save(fsm, [enabled EXCEPT ![a] = on]) /\ UNCHANGED eph
          /\ Noted(a, seen[a], run[a], rest[a])
          /\ UNCHANGED <<process, printer, cache>>
      BY <3>1 DEF SetEnabled
    <3>5. Save([fsm EXCEPT ![a] = fsm[a]], [enabled EXCEPT ![a] = on])
      BY <3>3, <3>4
    <3>6. \E o \in [ACE -> BOOLEAN] : Save([fsm EXCEPT ![a] = fsm[a]], o)
      BY <3>2, <3>5
    <3>7. eph' = [eph EXCEPT ![a] = eph[a]]
      BY <3>3, <3>4
    <3> QED BY <1>1, <3>4, <3>6, <3>7
  <2>2. CASE ResetFault(a)
    <3> DEFINE s == [fsm[a] EXCEPT !.state = IF @ = "FAULTED" THEN "IDLE" ELSE @]
               z == IF rest[a] = Held THEN Cooldown ELSE rest[a]
    <3>1. Agree(s, eph[a], seen[a], run[a], z)
      BY <1>1, CapAssumption DEF Agree, SnapshotType, EphType, States, Held
    <3>2. s.state \in {fsm[a].state, "IDLE"}
      BY <1>1 DEF Agree, SnapshotType
    <3>3. enabled \in [ACE -> BOOLEAN]
      BY DEF TypeOK
    <3> QED BY <2>2, <3>1, <3>2, <3>3 DEF ResetFault, Becomes
  <2> QED BY <2>1, <2>2
<1>3. PICK on \in [ACE -> BOOLEAN] : Save([fsm EXCEPT ![a] = s], on)
  BY <1>2
<1>4. /\ AceInv'
      /\ fsm' \in [ACE -> SnapshotType] /\ eph' \in [ACE -> EphType]
      /\ enabled' \in [ACE -> BOOLEAN] /\ file' = "v2"
      /\ posted' \in BOOLEAN /\ told' \in BOOLEAN
      /\ seen' \in [ACE -> 0..Required] /\ run' \in [ACE -> 0..MaxRun]
      /\ rest' \in [ACE -> Held..Cooldown]
      /\ \A b \in ACE : b # a => fsm'[b] = fsm[b] \/ fsm'[b] = Blank
      /\ fsm'[a] = s
  BY <1>1, <1>2, <1>3, WriteAgrees
<1>5. TypeOK'
  BY <1>1, <1>2, <1>4 DEF TypeOK, process, printer
<1>6. CacheInv' /\ DryInv'
  BY <1>2 DEF CacheInv, DryInv, process, printer
<1>7. \A b \in ACE : fsm'[b].state \in {fsm[b].state, "IDLE"}
  BY <1>2, <1>4 DEF Blank
<1> QED BY <1>4, <1>5, <1>6, <1>7

\* One unit of time: the clocks of a run, and of a rest, move together.
LEMMA PassInv == IInv /\ Pass => IInv'
<1> SUFFICES ASSUME IInv, Pass PROVE IInv'
  OBVIOUS
<1> USE DEF IInv
<1>1. ASSUME NEW a \in ACE
      PROVE  /\ Agree(fsm'[a], eph'[a], seen'[a], run'[a], rest'[a])
             /\ a >= n' => eph'[a].count = 0
  <2>1. /\ Agree(fsm[a], eph[a], seen[a], run[a], rest[a])
        /\ a >= n => eph[a].count = 0
    BY DEF AceInv
  <2>2. /\ fsm'[a] = [state |-> fsm[a].state, since |-> Older(fsm[a].since),
                      cool |-> IF fsm[a].cool = 0 THEN 0 ELSE fsm[a].cool - 1,
                      duty |-> fsm[a].duty]
        /\ eph'[a] = [count |-> eph[a].count, started |-> Older(eph[a].started),
                      dur |-> eph[a].dur]
        /\ run'[a] = IF fsm[a].state = "DRYING" THEN Count(run[a], MaxRun) ELSE 0
        /\ rest'[a] = IF rest[a] = Held THEN Held ELSE Count(rest[a], Cooldown)
        /\ seen'[a] = seen[a] /\ n' = n
    BY <2>1 DEF Pass, Agree, SnapshotType, EphType, process
  <2>3. /\ fsm'[a] \in SnapshotType /\ eph'[a] \in EphType
        /\ run'[a] \in 0..MaxRun /\ rest'[a] \in Held..Cooldown
    BY <2>1, <2>2, CapAssumption
       DEF Agree, SnapshotType, EphType, Older, Count, Least, Epoch, Held
  <2>4. /\ fsm'[a].state \in {"DRYING", "FAULTED"} => fsm'[a].cool = 0
        /\ (fsm'[a].state = "FAULTED") = (rest'[a] = Held)
        /\ rest'[a] # Held => rest'[a] + fsm'[a].cool = Cooldown
    BY <2>1, <2>2, CapAssumption DEF Agree, SnapshotType, Count, Least, Held
  <2>5. fsm'[a].state = "DRYING" =>
           fsm'[a].since = run'[a] /\ eph'[a].started \in {Epoch, run'[a]}
    BY <2>1, <2>2, CapAssumption DEF Agree, Older, Epoch
  <2>6. eph'[a].count > 0 =>
           fsm'[a].state = "WATCHING" /\ fsm'[a].duty < DutyCap /\ fsm'[a].cool = 0
    BY <2>1, <2>2 DEF Agree
  <2> QED BY <2>1, <2>2, <2>3, <2>4, <2>5, <2>6 DEF Agree
<1>2. AceInv'
  BY <1>1 DEF AceInv
<1>3. /\ fsm' = [a \in ACE |-> fsm'[a]] /\ eph' = [a \in ACE |-> eph'[a]]
      /\ run' = [a \in ACE |-> run'[a]] /\ rest' = [a \in ACE |-> rest'[a]]
  BY DEF Pass
<1>4. /\ fsm' \in [ACE -> SnapshotType] /\ eph' \in [ACE -> EphType]
      /\ run' \in [ACE -> 0..MaxRun] /\ rest' \in [ACE -> Held..Cooldown]
  BY <1>1, <1>3 DEF Agree
<1>5. /\ cache' \in [busy : BOOLEAN, age : 0..(StaleLimit + 1)]
      /\ phaseFor' \in 0..(StaleLimit + Late + 1)
      /\ CacheInv'
  <2>1. /\ cache \in [busy : BOOLEAN, age : 0..(StaleLimit + 1)]
        /\ phaseFor \in 0..(StaleLimit + Late + 1) /\ print' = print
    BY DEF TypeOK, Pass
  <2>2. phaseFor' \in 0..(StaleLimit + Late + 1) /\ phaseFor' <= phaseFor + 1
    <3>1. phaseFor' = Count(phaseFor, StaleLimit + Late + 1)
      BY DEF Pass
    <3> QED BY <2>1, <3>1, CapAssumption DEF Count, Least
  <2>3. CASE cache.age < StaleLimit
    <3>1. cache' = [cache EXCEPT !.age = cache.age + 1]
      BY <2>3 DEF Pass
    <3>2. cache'.busy = cache.busy /\ cache'.age = cache.age + 1
      BY <2>1, <3>1
    <3>3. cache' \in [busy : BOOLEAN, age : 0..(StaleLimit + 1)]
      BY <2>1, <2>3, <3>1, CapAssumption
    <3>4. CacheInv'
      BY <2>1, <2>2, <2>3, <3>2, CapAssumption DEF CacheInv
    <3> QED BY <2>2, <3>3, <3>4
  <2>4. CASE ~(cache.age < StaleLimit)
    <3>1. cache' = Outdated
      BY <2>4 DEF Pass
    <3>2. cache' \in [busy : BOOLEAN, age : 0..(StaleLimit + 1)] /\ CacheInv'
      BY <3>1, CapAssumption DEF Outdated, CacheInv
    <3> QED BY <2>2, <3>2
  <2> QED BY <2>3, <2>4
<1>6. TypeOK'
  BY <1>4, <1>5 DEF Pass, TypeOK, process
<1>7. DryInv'
  BY DEF Pass, DryInv, process
<1> QED BY <1>2, <1>5, <1>6, <1>7

\* A new process: it finds what the file keeps, or nothing, and no count.
LEMMA RestartInv == IInv /\ Restart => IInv'
<1> SUFFICES ASSUME IInv, Restart PROVE IInv'
  OBVIOUS
<1> USE DEF IInv
<1>1. n' \in 1..N /\ events' \in 0..Events
  BY CountAssumption DEF Restart, Spend, TypeOK
<1>2. ASSUME NEW a \in ACE
      PROVE  Agree(fsm'[a], eph'[a], seen'[a], run'[a], rest'[a])
  <2>1. Agree(fsm[a], eph[a], seen[a], run[a], rest[a])
    BY DEF AceInv
  <2>2. eph'[a] = FreshEph /\ seen'[a] = 0
    BY DEF Restart
  <2>3. CASE file = "v2"
    <3>1. fsm'[a] = fsm[a] /\ run'[a] = run[a] /\ rest'[a] = rest[a]
      BY <2>3 DEF Restart, Loaded
    <3>2. FreshEph \in EphType /\ FreshEph.count = 0 /\ FreshEph.started = Epoch
      BY BlankAgrees DEF Agree, FreshEph
    <3> QED BY <2>1, <2>2, <3>1, <3>2, CapAssumption DEF Agree
  <2>4. CASE file # "v2"
    <3>1. fsm'[a] = Blank /\ run'[a] = 0 /\ rest'[a] = Cooldown
      BY <2>4 DEF Restart, Loaded
    <3> QED BY <2>2, <3>1, BlankAgrees
  <2> QED BY <2>3, <2>4
<1>3. AceInv'
  <2>1. \A a \in ACE : eph'[a].count = 0
    BY DEF Restart, FreshEph
  <2> QED BY <1>2, <2>1 DEF AceInv
<1>4. /\ fsm' = [a \in ACE |-> fsm'[a]] /\ eph' = [a \in ACE |-> eph'[a]]
      /\ seen' = [a \in ACE |-> seen'[a]]
      /\ run' = [a \in ACE |-> run'[a]] /\ rest' = [a \in ACE |-> rest'[a]]
  BY DEF Restart, Loaded, TypeOK
<1>5. /\ fsm' \in [ACE -> SnapshotType] /\ eph' \in [ACE -> EphType]
      /\ seen' \in [ACE -> 0..Required]
      /\ run' \in [ACE -> 0..MaxRun] /\ rest' \in [ACE -> Held..Cooldown]
  BY <1>2, <1>4 DEF Agree
<1>6. enabled' \in [ACE -> BOOLEAN]
  BY Zenon DEF Restart, LoadedEnabled, TypeOK
<1>7. /\ fails' \in [ACE -> 0..2]
      /\ cache' \in [busy : BOOLEAN, age : 0..(StaleLimit + 1)]
  BY CapAssumption DEF Restart, Outdated
<1>8. TypeOK'
  BY <1>1, <1>5, <1>6, <1>7 DEF Restart, TypeOK, printer
<1>9. CacheInv' /\ DryInv'
  BY CapAssumption DEF Restart, CacheInv, DryInv, Outdated, printer
<1> QED BY <1>3, <1>8, <1>9

\* The printer, the payload and the daily account.
LEMMA WorldInv ==
    IInv /\ (\/ \E s \in PrintStates : SetPrint(s)
             \/ \E a \in ACE : UserSwitch(a) \/ DayPasses(a)
             \/ \E mode \in {"v1-off", "v1-on"} : LegacyPost(mode)
             \/ Refresh
             \/ UNCHANGED vars) => IInv'
<1> USE DEF IInv
<1>1. ASSUME IInv, NEW s \in PrintStates, SetPrint(s) PROVE IInv'
  <2>1. TypeOK' /\ CacheInv' /\ DryInv'
    BY <1>1, CapAssumption
       DEF SetPrint, TypeOK, CacheInv, DryInv, PrintStates, process, stored, history
  <2>2. AceInv'
    BY <1>1, RecordsKept DEF SetPrint, process, stored, history
  <2> QED BY <2>1, <2>2
<1>2. ASSUME IInv, NEW a \in ACE, UserSwitch(a) PROVE IInv'
  <2>1. TypeOK' /\ CacheInv' /\ DryInv'
    BY <1>2, CountAssumption
       DEF UserSwitch, Spend, TypeOK, CacheInv, DryInv, process, stored, history
  <2>2. AceInv'
    BY <1>2, RecordsKept DEF UserSwitch, process, stored, history
  <2> QED BY <2>1, <2>2
<1>3. ASSUME IInv, NEW a \in ACE, DayPasses(a) PROVE IInv'
  <2>1. PICK left \in 0..(fsm[a].duty - 1) : fsm' = [fsm EXCEPT ![a].duty = left]
    BY <1>3 DEF DayPasses
  <2>2. /\ UNCHANGED <<process, enabled, file, posted, told, eph, printer, cache, history,
                     events>>
        /\ Agree(fsm[a], eph[a], seen[a], run[a], rest[a])
    BY <1>3 DEF DayPasses, AceInv
  <2>3. Agree([fsm[a] EXCEPT !.duty = left], eph[a], seen[a], run[a], rest[a])
    BY <2>1, <2>2, CapAssumption DEF Agree, SnapshotType, EphType
  <2>4. fsm'[a] = [fsm[a] EXCEPT !.duty = left]
        /\ (\A b \in ACE : b # a => fsm'[b] = fsm[b])
    BY <1>3, <2>1 DEF TypeOK
  <2>5. AceInv'
    BY <1>3, <2>2, <2>3, <2>4 DEF AceInv, process, history
  <2>6. fsm' \in [ACE -> SnapshotType]
    <3>1. [fsm[a] EXCEPT !.duty = left] \in SnapshotType
      BY <2>3 DEF Agree
    <3>2. fsm' = [fsm EXCEPT ![a] = [fsm[a] EXCEPT !.duty = left]]
      BY <2>1
    <3> QED BY <1>3, <3>1, <3>2 DEF TypeOK
  <2>7. TypeOK' /\ CacheInv' /\ DryInv'
    BY <1>3, <2>2, <2>6 DEF TypeOK, CacheInv, DryInv, process, printer, history
  <2> QED BY <2>5, <2>7
<1>4. ASSUME IInv, NEW mode \in {"v1-off", "v1-on"}, LegacyPost(mode) PROVE IInv'
  <2>1. TypeOK' /\ CacheInv' /\ DryInv'
    BY <1>4, CountAssumption
       DEF LegacyPost, Spend, TypeOK, CacheInv, DryInv, process, printer, history
  <2>2. AceInv'
    BY <1>4, RecordsKept DEF LegacyPost, process, history
  <2> QED BY <2>1, <2>2
<1>5. ASSUME IInv, Refresh PROVE IInv'
  <2>1. AceInv'
    BY <1>5, RecordsKept DEF Refresh, process, stored, history
  <2>2. PICK busy \in BOOLEAN : /\ busy # (print \in Busy) => phaseFor <= Late
                              /\ cache' = [busy |-> busy, age |-> 0]
    BY <1>5 DEF Refresh
  <2>3. cache' \in [busy : BOOLEAN, age : 0..(StaleLimit + 1)]
    BY <2>2, CapAssumption
  <2>4. print' = print /\ phaseFor' = phaseFor
    BY <1>5 DEF Refresh, printer
  <2>5. CacheInv'
    <3>1. cache'.busy = busy /\ cache'.age = 0
      BY <2>2
    <3>2. print \in Busy /\ ~busy => phaseFor <= Late
      BY <2>2
    <3> QED BY <2>4, <3>1, <3>2, CapAssumption DEF CacheInv
  <2>6. TypeOK' /\ DryInv'
    BY <1>5, <2>3 DEF Refresh, TypeOK, DryInv, process, stored, printer, history
  <2> QED BY <2>1, <2>5, <2>6
<1>6. ASSUME IInv, UNCHANGED vars PROVE IInv'
  <2>1. AceInv'
    BY <1>6, RecordsKept DEF vars, process, stored, history
  <2>2. TypeOK' /\ CacheInv' /\ DryInv'
    BY <1>6 DEF vars, TypeOK, CacheInv, DryInv, process, stored, printer, history
  <2> QED BY <2>1, <2>2
<1> QED BY <1>1, <1>2, <1>3, <1>4, <1>5, <1>6

-----------------------------------------------------------------------------
(* The theorems.                                                             *)

LEMMA NextInv == IInv /\ [Next]_vars => IInv'
<1> SUFFICES ASSUME IInv, [Next]_vars PROVE IInv'
  OBVIOUS
<1>1. CASE Poller
  BY <1>1, PollerInv
<1>2. ASSUME NEW a \in ACE, (\E on \in BOOLEAN : SetEnabled(a, on)) \/ ResetFault(a)
      PROVE  IInv'
  BY <1>2, RequestInv
<1>3. CASE Pass
  BY <1>3, PassInv
<1>4. CASE Restart
  BY <1>4, RestartInv
<1>5. CASE \/ \E s \in PrintStates : SetPrint(s)
           \/ \E a \in ACE : UserSwitch(a) \/ DayPasses(a)
           \/ \E mode \in {"v1-off", "v1-on"} : LegacyPost(mode)
           \/ Refresh
           \/ UNCHANGED vars
  BY <1>5, WorldInv
<1> QED BY <1>1, <1>2, <1>3, <1>4, <1>5 DEF Next

\* Inductive: the clocks, the counts and the records of every ACE always agree.
THEOREM Inductive == Spec => []IInv
<1>1. Init => IInv
  BY InitInv
<1>2. IInv /\ [Next]_vars => IInv'
  BY NextInv
<1> QED BY <1>1, <1>2, PTL DEF Spec

\* TypeCorrect: the target of a turn is always an ACE the printer has, also with
\* a device count that shrank or grew over a restart, and no clock leaves its cap.
THEOREM TypeCorrect == Spec => []TypeOK
<1>1. IInv => TypeOK
  BY DEF IInv
<1> QED BY <1>1, Inductive, PTL

\* A run or a fault of an ACE is the work of one evaluated tick of that ACE.
LEMMA OnlyTicks ==
    ASSUME IInv, [Next]_vars, NEW a \in ACE, Triggers(a) \/ Faults(a)
    PROVE  /\ n' = n /\ a < n
           /\ \/ \E r \in Sensed, armed \in BOOLEAN :
                    (TickQuiet(a, r, armed) \/ RunEnded(a, r)) /\ Faults(a)
              \/ /\ Triggers(a)
                 /\ \E r \in Sensed, armed \in BOOLEAN : Trigger(a, r, armed)
<1> DEFINE Goal == /\ n' = n /\ a < n
                   /\ \/ \E r \in Sensed, armed \in BOOLEAN :
                            (TickQuiet(a, r, armed) \/ RunEnded(a, r)) /\ Faults(a)
                      \/ /\ Triggers(a)
                         /\ \E r \in Sensed, armed \in BOOLEAN : Trigger(a, r, armed)
<1>1. ~(fsm'[a].state \in {fsm[a].state, "IDLE"})
  BY DEF Triggers, Faults
<1>2. fsm'[a] \notin {fsm[a], Blank}
  BY <1>1 DEF Blank
<1>3. ASSUME NEW b \in ACE, TickOneAce(b), n' = n
      PROVE  Goal
  <2>1. CASE ~Ticked(b) /\ UNCHANGED stored
    BY <1>2, <2>1 DEF stored
  <2>2. CASE Ticked(b)
    <3>1. b < n
      BY <2>2 DEF Ticked
    <3>2. PICK r \in Sensed, armed \in BOOLEAN :
             TickQuiet(b, r, armed) \/ RunEnded(b, r) \/ Trigger(b, r, armed)
      BY <2>2, <1>3 DEF TickOneAce, CanBeArmed
    <3>3. CASE TickQuiet(b, r, armed) \/ RunEnded(b, r)
      <4>1. b = a
        BY <1>2, <1>3, <3>1, <3>3, TickSettles
      <4>2. Faults(a)
        BY <1>3, <3>1, <3>3, <4>1, TickSettles DEF Triggers
      <4> QED BY <1>3, <3>1, <3>3, <4>1, <4>2
    <3>4. CASE Trigger(b, r, armed)
      <4>1. b = a /\ fsm'[a].state = "DRYING"
        BY <1>2, <1>3, <3>1, <3>4, TriggerSettles
      <4>2. Triggers(a)
        BY <4>1 DEF Faults
      <4> QED BY <1>3, <3>1, <3>4, <4>1, <4>2
    <3> QED BY <3>2, <3>3, <3>4
  <2> QED BY <1>3, <2>1, <2>2 DEF TickOneAce
<1>4. CASE Pinned
  BY <1>3, <1>4 DEF Pinned, IInv, TypeOK
<1>5. CASE Visit
  BY <1>3, <1>5, NextTargetInRange DEF Visit
<1>6. CASE \/ Poll \/ TurnStays \/ (\E b \in ACE : TurnSwitches(b)) \/ TurnSwallowed
           \/ TurnFails \/ QueryFails \/ Announce \/ Dismiss \/ Command
  <2>1. fsm' = fsm
    BY <1>6 DEF Poll, TurnStays, TurnSwitches, TurnSwallowed, TurnFails, TurnAnswered,
                Turn, QueryFails, Announce, Dismiss, Command, stored
  <2> QED BY <1>2, <2>1
<1>7. ASSUME NEW b \in ACE, (\E on \in BOOLEAN : SetEnabled(b, on)) \/ ResetFault(b)
      PROVE  FALSE
  BY <1>1, <1>7, RequestInv
<1>8. CASE Pass
  <2>1. fsm'[a] = [[fsm[a] EXCEPT !.since = Older(@)]
                       EXCEPT !.cool = IF @ = 0 THEN 0 ELSE @ - 1]
    BY <1>8 DEF Pass
  <2>2. fsm[a] \in SnapshotType
    BY DEF IInv, TypeOK
  <2>3. fsm'[a].state = fsm[a].state
    BY <2>1, <2>2, Zenon DEF SnapshotType
  <2> QED BY <1>1, <2>3
<1>9. CASE Restart
  BY <1>2, <1>9 DEF Restart, Loaded
<1>10. ASSUME NEW b \in ACE, DayPasses(b) PROVE FALSE
  <2>1. PICK left \in 0..(fsm[b].duty - 1) : fsm' = [fsm EXCEPT ![b].duty = left]
    BY <1>10 DEF DayPasses
  <2>2. fsm'[a].state = fsm[a].state
    BY <1>10, <2>1 DEF IInv, TypeOK, SnapshotType
  <2> QED BY <1>1, <2>2
<1>11. CASE \/ \E s \in PrintStates : SetPrint(s)
            \/ \E b \in ACE : UserSwitch(b)
            \/ \E mode \in {"v1-off", "v1-on"} : LegacyPost(mode)
            \/ Refresh \/ UNCHANGED vars
  <2>1. fsm' = fsm
    BY <1>11 DEF SetPrint, UserSwitch, LegacyPost, Refresh, vars, stored
  <2> QED BY <1>2, <2>1
<1> QED BY <1>4, <1>5, <1>6, <1>7, <1>8, <1>9, <1>10, <1>11 DEF Next, Poller

\* DebounceCorrect: TriggerIsDebounced holds: every run follows the required wet
\* visits in a row, whatever dips, prints, restarts and other ACEs intervene.
THEOREM DebounceCorrect == Spec => TriggerIsDebounced
<1>1. ASSUME IInv, [Next]_vars, NEW a \in ACE, Triggers(a)
      PROVE  seen[a] >= Required - 1
  BY <1>1, OnlyTicks, TriggerSettles, TickSettles DEF Triggers, Faults
<1>2. IInv /\ [Next]_vars
        => [\A a \in ACE : Triggers(a) => seen[a] >= Required - 1]_vars
  BY <1>1
<1> QED BY <1>2, Inductive, PTL DEF Spec, TriggerIsDebounced

\* RestCorrect: RestBetweenRuns holds: a cooldown, and a fault that nobody has
\* reset, outlive the process, and no run begins under either.
THEOREM RestCorrect == Spec => RestBetweenRuns
<1>1. ASSUME IInv, [Next]_vars, NEW a \in ACE, Triggers(a)
      PROVE  rest[a] = Cooldown
  BY <1>1, OnlyTicks, TriggerSettles, TickSettles DEF Triggers, Faults
<1>2. IInv /\ [Next]_vars => [\A a \in ACE : Triggers(a) => rest[a] = Cooldown]_vars
  BY <1>1
<1> QED BY <1>2, Inductive, PTL DEF Spec, RestBetweenRuns

\* PrintCorrect: PrintIsNoticed holds: no run begins in a print that is older than
\* a payload may be when it is stored and then when it is used.
THEOREM PrintCorrect == Spec => PrintIsNoticed
<1>1. ASSUME IInv, [Next]_vars, NEW a \in ACE, Triggers(a)
      PROVE  print = "idle" \/ phaseFor <= StaleLimit + Late
  BY <1>1, OnlyTicks, TriggerSettles, TickSettles DEF Triggers, Faults
<1>2. IInv /\ [Next]_vars
        => [(\E a \in ACE : Triggers(a))
              => print = "idle" \/ phaseFor <= StaleLimit + Late]_vars
  BY <1>1
<1> QED BY <1>2, Inductive, PTL DEF Spec, PrintIsNoticed

\* LimitCorrect: LimitIsReal holds: whatever of a run's start is lost in a restart,
\* the limit is reported only of a run that has lasted that long.
THEOREM LimitCorrect == Spec => LimitIsReal
<1>1. ASSUME IInv, [Next]_vars, NEW a \in ACE, Faults(a), RanNow(a) >= MaxRun
      PROVE  run[a] = MaxRun
  <2>1. ~Triggers(a)
    BY <1>1 DEF Faults, Triggers
  <2>2. fsm[a].state = "DRYING"
    BY <1>1, <2>1, OnlyTicks, TickSettles
  <2>3. RanNow(a) = run[a] /\ run[a] \in 0..MaxRun
    BY <1>1, <2>2, RecoveredStarts DEF IInv, TypeOK
  <2> QED BY <1>1, <2>3, CapAssumption
<1>2. IInv /\ [Next]_vars
        => [\A a \in ACE : Faults(a) /\ RanNow(a) >= MaxRun => run[a] = MaxRun]_vars
  BY <1>1
<1> QED BY <1>2, Inductive, PTL DEF Spec, LimitIsReal

-----------------------------------------------------------------------------
(* The Auto-Dry plugin, whose machine was ported from this one and has its   *)
(* parameters: DryPlugin, with variables of its own.                         *)

VARIABLES pfsm, peph, penabled, pfile, ppc, pat, pcount, pbusy, pasking, pevents

Plugin == INSTANCE DryPlugin WITH
    fsm <- pfsm, eph <- peph, enabled <- penabled, file <- pfile, pc <- ppc,
    at <- pat, count <- pcount, busy <- pbusy, asking <- pasking, events <- pevents

\* What is left of a cooldown is what the rest lacks, and an unresolved fault shows.
Sane(s) == s.rest + s.cool = Cooldown /\ (s.held = "held" => s.state = "FAULTED")

\* A count is of wet ticks that were seen.
Earned(e) == e.count =< e.seen

PluginSane ==
    /\ \A a \in Plugin!ACE : Sane(pfsm[a]) /\ Earned(peph[a])
    /\ \A a \in Plugin!ACE : Sane(pfile[a])

\* The tick is at an ACE when it switches to it or commands it, else at its start.
PluginPlace ==
    /\ ppc = "sleep" => pat = 0
    /\ ppc \in {"switch", "command"} => pat < pcount

PInv == Plugin!TypeOK /\ PluginSane /\ PluginPlace /\ Plugin!FileKnows

LEMMA PluginConstants ==
    /\ N \in Nat \ {0} /\ Required \in Nat \ {0} /\ Cooldown \in Nat \ {0}
    /\ MaxRun \in Nat \ {0} /\ DutyCap \in Nat \ {0} /\ Duration \in Nat \ {0}
    /\ Events \in Nat
BY CountAssumption, CapAssumption

LEMMA MinOfTwo ==
    ASSUME NEW x \in Int, NEW y \in Int
    PROVE  Plugin!Min({x, y}) = IF x =< y THEN x ELSE y
<1> DEFINE m == IF x =< y THEN x ELSE y
<1>1. m \in {x, y} /\ \A z \in {x, y} : m =< z
  OBVIOUS
<1>2. \A w \in {x, y} : (\A z \in {x, y} : w =< z) => w = m
  OBVIOUS
<1> QED BY <1>1, <1>2 DEF Plugin!Min

LEMMA CountOfCap ==
    ASSUME NEW cap \in Nat, NEW x \in 0..cap
    PROVE  /\ Plugin!Count(x, cap) = IF x < cap THEN x + 1 ELSE cap
           /\ Plugin!Count(x, cap) \in 0..cap
BY MinOfTwo, x + 1 \in Int, cap \in Int DEF Plugin!Count

\* What a step may leave in the memory of the process.
PluginSettled ==
    /\ pfsm' \in [Plugin!ACE -> Plugin!Snapshot]
    /\ peph' \in [Plugin!ACE -> Plugin!Ephemeral]
    /\ \A a \in Plugin!ACE : Sane(pfsm'[a]) /\ Earned(peph'[a])

LEMMA PluginStays ==
    ASSUME PInv, NEW a \in Plugin!ACE, Plugin!Stays(a)
    PROVE  PluginSettled /\ pfsm' = pfsm
BY DEF PInv, Plugin!TypeOK, PluginSane, PluginSettled, Plugin!Stays

LEMMA PluginBecomes ==
    ASSUME PInv, NEW a \in Plugin!ACE,
           NEW s \in Plugin!Snapshot, NEW e \in Plugin!Ephemeral, Sane(s), Earned(e),
           Plugin!Becomes(a, s, e)
    PROVE  PluginSettled /\ \A b \in Plugin!ACE : b # a => pfsm'[b] = pfsm[b]
BY DEF PInv, Plugin!TypeOK, PluginSane, PluginSettled, Plugin!Becomes

\* The records that the transitions are made of.
LEMMA PluginRecords ==
    ASSUME PInv, NEW a \in Plugin!ACE
    PROVE  /\ pfsm[a] \in Plugin!Snapshot /\ peph[a] \in Plugin!Ephemeral
           /\ Sane(pfsm[a]) /\ Earned(peph[a])
           /\ Plugin!Rearmed(a) \in Plugin!Ephemeral /\ Earned(Plugin!Rearmed(a))
           /\ \A state \in Plugin!States :
                /\ Plugin!Moved(a, state) \in Plugin!Snapshot
                /\ pfsm[a].held # "held" \/ state = "FAULTED" => Sane(Plugin!Moved(a, state))
<1>1. /\ pfsm[a] \in Plugin!Snapshot /\ peph[a] \in Plugin!Ephemeral
      /\ Sane(pfsm[a]) /\ Earned(peph[a])
  BY DEF PInv, Plugin!TypeOK, PluginSane
<1>2. Plugin!Rearmed(a) \in Plugin!Ephemeral /\ Earned(Plugin!Rearmed(a))
  <2> DEFINE e == [peph[a] EXCEPT !.count = 0]
  <2>1. e \in Plugin!Ephemeral /\ e.count = 0
    BY <1>1, PluginConstants DEF Plugin!Ephemeral
  <2>2. Plugin!Rearmed(a) = [e EXCEPT !.seen = 0]
    BY DEF Plugin!Rearmed
  <2> HIDE DEF e
  <2> QED BY <2>1, <2>2, PluginConstants DEF Plugin!Ephemeral, Earned
<1>3. ASSUME NEW state \in Plugin!States
      PROVE  /\ Plugin!Moved(a, state) \in Plugin!Snapshot
             /\ pfsm[a].held # "held" \/ state = "FAULTED" => Sane(Plugin!Moved(a, state))
  BY <1>1 DEF Plugin!Moved, Plugin!Snapshot, Sane
<1> QED BY <1>1, <1>2, <1>3

\* The end of a run, also of one that only the user's word had begun.
LEMMA PluginEnds ==
    ASSUME PInv, NEW a \in Plugin!ACE, pfsm[a].state = "DRYING",
           NEW ran \in Nat, Plugin!EndRun(a, ran) \/ Plugin!Fail(a)
    PROVE  PluginSettled /\ \A b \in Plugin!ACE : b # a => pfsm'[b] = pfsm[b]
<1> DEFINE s == [pfsm[a] EXCEPT !.state = "COOLDOWN", !.cool = Cooldown, !.rest = 0,
                                !.duty = Plugin!Min({@ + ran, DutyCap})]
           f == [Plugin!Moved(a, "FAULTED") EXCEPT !.held = "held"]
           e == [peph[a] EXCEPT !.started = Plugin!Epoch]
<1>1. /\ pfsm[a] \in Plugin!Snapshot /\ peph[a] \in Plugin!Ephemeral
      /\ Sane(pfsm[a]) /\ Earned(peph[a])
  BY PluginRecords
<1>2. e \in Plugin!Ephemeral /\ Earned(e)
  BY <1>1, PluginConstants DEF Plugin!Ephemeral, Plugin!Epoch, Earned
<1>3. CASE Plugin!EndRun(a, ran)
  <2>1. pfsm[a].duty \in 0..DutyCap /\ DutyCap \in Nat
    BY <1>1, PluginConstants DEF Plugin!Snapshot
  <2>2. Plugin!Min({pfsm[a].duty + ran, DutyCap}) \in 0..DutyCap
    BY <2>1, MinOfTwo, pfsm[a].duty + ran \in Nat
  <2>3. s \in Plugin!Snapshot /\ Sane(s)
    <3> DEFINE u == [pfsm[a] EXCEPT !.state = "COOLDOWN"]
               v == [u EXCEPT !.cool = Cooldown]
               w == [v EXCEPT !.rest = 0]
    <3>1. u \in Plugin!Snapshot /\ u.held # "held"
      BY <1>1 DEF Plugin!Snapshot, Plugin!States, Sane
    <3>2. v \in Plugin!Snapshot /\ v.cool = Cooldown /\ v.held # "held"
      <4> HIDE DEF u
      <4> QED BY <3>1, PluginConstants DEF Plugin!Snapshot
    <3>3. w \in Plugin!Snapshot /\ w.rest = 0 /\ w.cool = Cooldown /\ w.held # "held"
      <4> HIDE DEF v
      <4> QED BY <3>2, PluginConstants DEF Plugin!Snapshot
    <3>4. s = [w EXCEPT !.duty = Plugin!Min({pfsm[a].duty + ran, DutyCap})]
      OBVIOUS
    <3> HIDE DEF s, w
    <3> QED BY <2>2, <3>3, <3>4, PluginConstants DEF Plugin!Snapshot, Sane
  <2>4. Plugin!Becomes(a, s, e)
    BY <1>3 DEF Plugin!EndRun
  <2> HIDE DEF s, e
  <2> QED BY <1>2, <2>3, <2>4, PluginBecomes
<1>4. CASE Plugin!Fail(a)
  <2>1. f \in Plugin!Snapshot /\ Sane(f)
    BY <1>1, PluginRecords DEF Plugin!Snapshot, Plugin!States, Plugin!Held, Plugin!Moved, Sane
  <2>2. Plugin!Becomes(a, f, e)
    BY <1>4 DEF Plugin!Fail
  <2> HIDE DEF f, e
  <2> QED BY <1>2, <2>1, <2>2, PluginBecomes
<1> QED BY <1>3, <1>4

\* A wet tick below the threshold.
LEMMA PluginCounts ==
    ASSUME PInv, NEW a \in Plugin!ACE, NEW r \in Plugin!Readings,
           Plugin!ObserveAbove(a, r)
    PROVE  PluginSettled /\ \A b \in Plugin!ACE : b # a => pfsm'[b] = pfsm[b]
<1> DEFINE e == [peph[a] EXCEPT !.count = Plugin!Observed(a),
                                !.seen = Plugin!Count(@, Required)]
<1>1. /\ pfsm[a] \in Plugin!Snapshot /\ peph[a] \in Plugin!Ephemeral
      /\ Sane(pfsm[a]) /\ Earned(peph[a])
  BY PluginRecords
<1>2. /\ peph[a].count \in 0..Required /\ peph[a].seen \in 0..Required
      /\ Required \in Nat /\ peph[a].count =< peph[a].seen
  BY <1>1, PluginConstants DEF Plugin!Ephemeral, Earned
<1>3. /\ Plugin!Observed(a) \in 0..Required
      /\ Plugin!Count(peph[a].seen, Required) \in 0..Required
      /\ Plugin!Observed(a) =< Plugin!Count(peph[a].seen, Required)
  <2>1. /\ Plugin!Observed(a) =
             IF peph[a].count < Required THEN peph[a].count + 1 ELSE Required
        /\ Plugin!Count(peph[a].seen, Required) =
             IF peph[a].seen < Required THEN peph[a].seen + 1 ELSE Required
    BY <1>2, CountOfCap DEF Plugin!Observed
  <2> QED BY <1>2, <2>1
<1>4. e \in Plugin!Ephemeral /\ Earned(e)
  BY <1>1, <1>3 DEF Plugin!Ephemeral, Earned
<1>5. Plugin!Becomes(a, pfsm[a], e)
  BY DEF Plugin!ObserveAbove
<1> HIDE DEF e
<1> QED BY <1>1, <1>4, <1>5, PluginBecomes

\* Every transition of the machine but the beginning of a run.
LEMMA PluginQuiet ==
    ASSUME PInv, NEW a \in Plugin!ACE, NEW r \in Plugin!Readings, Plugin!Quiet(a, r)
    PROVE  PluginSettled /\ \A b \in Plugin!ACE : b # a => pfsm'[b] = pfsm[b]
<1> USE DEF Plugin!States
<1>1. /\ pfsm[a] \in Plugin!Snapshot /\ peph[a] \in Plugin!Ephemeral
      /\ Sane(pfsm[a]) /\ Earned(peph[a])
      /\ Plugin!Rearmed(a) \in Plugin!Ephemeral /\ Earned(Plugin!Rearmed(a))
  BY PluginRecords
<1>2. \A state \in Plugin!States :
        pfsm[a].state # "FAULTED" =>
          Plugin!Moved(a, state) \in Plugin!Snapshot /\ Sane(Plugin!Moved(a, state))
  BY <1>1, PluginRecords DEF Sane
<1>3. CASE Plugin!Arm(a, r)
  BY <1>1, <1>2, <1>3, PluginBecomes DEF Plugin!Arm
<1>4. CASE Plugin!Demote(a, r)
  BY <1>1, <1>2, <1>4, PluginBecomes DEF Plugin!Demote
<1>5. CASE Plugin!Skip(a, r) \/ Plugin!KeepDrying(a, r) \/ Plugin!Rests(a, r)
  BY <1>5, PluginStays DEF Plugin!Skip, Plugin!KeepDrying, Plugin!Rests
<1>6. CASE Plugin!ObserveBelow(a, r)
  BY <1>1, <1>6, PluginBecomes DEF Plugin!ObserveBelow
<1>7. CASE Plugin!ObserveAbove(a, r)
  BY <1>7, PluginCounts
<1>8. CASE Plugin!CoolDown(a)
  BY <1>1, <1>2, <1>8, PluginBecomes DEF Plugin!CoolDown
<1>9. CASE \/ Plugin!Interrupt(a) \/ Plugin!ReachTarget(a, r) \/ Plugin!FailLimit(a, r)
           \/ Plugin!RunOut(a, r)
  <2>1. Plugin!Counted(a) \in Nat /\ 0 \in Nat
    BY <1>1, PluginConstants
    DEF Plugin!Counted, Plugin!Ran, Plugin!Ephemeral, Plugin!Epoch
  <2>2. pfsm[a].state = "DRYING"
    BY <1>9 DEF Plugin!Interrupt, Plugin!ReachTarget, Plugin!FailLimit,
                Plugin!RunOut, Plugin!Running
  <2>3. \E ran \in Nat : Plugin!EndRun(a, ran) \/ Plugin!Fail(a)
    BY <1>9, <2>1
    DEF Plugin!Interrupt, Plugin!ReachTarget, Plugin!FailLimit, Plugin!RunOut
  <2> QED BY <2>2, <2>3, PluginEnds
<1> QED BY <1>3, <1>4, <1>5, <1>6, <1>7, <1>8, <1>9 DEF Plugin!Quiet

\* The machine begins a run.
LEMMA PluginTriggers ==
    ASSUME PInv, NEW a \in Plugin!ACE, NEW r \in Plugin!Readings, Plugin!Trigger(a, r)
    PROVE  /\ PluginSettled /\ \A b \in Plugin!ACE : b # a => pfsm'[b] = pfsm[b]
           /\ Plugin!Debounced(a) /\ Plugin!Rested(a) /\ Plugin!Cleared(a)
<1> DEFINE e == [Plugin!Rearmed(a) EXCEPT !.started = 0]
<1>1. /\ pfsm[a] \in Plugin!Snapshot /\ peph[a] \in Plugin!Ephemeral
      /\ Sane(pfsm[a]) /\ Earned(peph[a])
      /\ Plugin!Rearmed(a) \in Plugin!Ephemeral /\ Earned(Plugin!Rearmed(a))
  BY PluginRecords
<1>2. /\ pfsm[a].state = "WATCHING" /\ pfsm[a].cool = 0
      /\ Plugin!Observed(a) = Required
      /\ Plugin!Becomes(a, Plugin!Moved(a, "DRYING"), e)
  BY DEF Plugin!Trigger, Plugin!Observing, Plugin!Watching
<1>3. Plugin!Moved(a, "DRYING") \in Plugin!Snapshot /\ Sane(Plugin!Moved(a, "DRYING"))
  BY <1>1, <1>2, PluginRecords DEF Sane, Plugin!States
<1>4. e \in Plugin!Ephemeral /\ Earned(e)
  BY <1>1, PluginConstants DEF Plugin!Ephemeral, Plugin!Epoch, Earned
<1>5. PluginSettled /\ \A b \in Plugin!ACE : b # a => pfsm'[b] = pfsm[b]
  <2> HIDE DEF e
  <2> QED BY <1>2, <1>3, <1>4, PluginBecomes
<1>6. Plugin!Debounced(a)
  <2>1. /\ peph[a].count \in 0..Required /\ peph[a].seen \in 0..Required
        /\ Required \in Nat /\ peph[a].count =< peph[a].seen
    BY <1>1, PluginConstants DEF Plugin!Ephemeral, Earned
  <2>2. Plugin!Observed(a) =
          IF peph[a].count < Required THEN peph[a].count + 1 ELSE Required
    BY <2>1, CountOfCap DEF Plugin!Observed
  <2> QED BY <1>2, <2>1, <2>2 DEF Plugin!Debounced
<1>7. Plugin!Rested(a) /\ Plugin!Cleared(a)
  BY <1>1, <1>2, PluginConstants DEF Sane, Plugin!Snapshot, Plugin!Rested, Plugin!Cleared
<1> QED BY <1>5, <1>6, <1>7

LEMMA PluginStarts ==
    ASSUME Plugin!Init
    PROVE  PInv
<1>1. Plugin!Blank \in Plugin!Snapshot /\ Sane(Plugin!Blank)
  BY PluginConstants DEF Plugin!Blank, Plugin!Snapshot, Plugin!States, Plugin!Held, Sane
<1>2. Plugin!FreshEph \in Plugin!Ephemeral /\ Earned(Plugin!FreshEph)
  BY PluginConstants DEF Plugin!FreshEph, Plugin!Ephemeral, Plugin!Epoch, Earned
<1>3. Plugin!TypeOK
  <2>1. /\ pfsm \in [Plugin!ACE -> Plugin!Snapshot] /\ pfile = pfsm
        /\ peph \in [Plugin!ACE -> Plugin!Ephemeral]
        /\ pasking \in [Plugin!ACE -> Plugin!Asking]
    BY <1>1, <1>2 DEF Plugin!Init, Plugin!Asking
  <2>2. pcount \in 1..N /\ pat \in 0..pcount /\ pevents \in 0..Events
    BY PluginConstants DEF Plugin!Init
  <2> QED BY <2>1, <2>2 DEF Plugin!Init, Plugin!TypeOK
<1>4. PluginSane /\ PluginPlace /\ Plugin!FileKnows
  BY <1>1, <1>2 DEF Plugin!Init, PluginSane, PluginPlace, Plugin!FileKnows
<1> QED BY <1>3, <1>4 DEF PInv

\* The steps of the walk that write no record.
LEMMA PluginWalks ==
    ASSUME PInv,
           \/ \E k \in {1, N} : Plugin!StartTick(k)
           \/ Plugin!PassOver \/ Plugin!SwitchFails \/ Plugin!Command
           \/ \E a \in Plugin!ACE : Plugin!Choose(a)
    PROVE  PInv'
<1> USE DEF Plugin!Ticking, Plugin!ACE
<1>1. /\ pfsm' = pfsm /\ peph' = peph /\ pfile' = pfile /\ penabled' = penabled
      /\ pasking' = pasking /\ pevents' = pevents
  BY DEF Plugin!StartTick, Plugin!PassOver, Plugin!SwitchFails, Plugin!Command,
         Plugin!Choose
<1>2. /\ pcount \in 1..N /\ pat \in 0..pcount /\ pbusy \in BOOLEAN /\ N \in Nat \ {0}
      /\ ppc = "sleep" => pat = 0
      /\ ppc \in {"switch", "command"} => pat < pcount
  BY PluginConstants DEF PInv, Plugin!TypeOK, PluginPlace
<1>3. /\ ppc' \in {"next", "switch"} /\ pcount' \in 1..N /\ pbusy' \in BOOLEAN
      /\ pat' \in 0..pcount' /\ (ppc' = "switch" => pat' < pcount')
      /\ pat =< pat'
  <2>1. CASE \E k \in {1, N} : Plugin!StartTick(k)
    BY <1>2, <2>1 DEF Plugin!StartTick
  <2>2. CASE Plugin!PassOver
    BY <1>2, <2>2 DEF Plugin!PassOver
  <2>3. CASE Plugin!SwitchFails \/ Plugin!Command
    BY <1>2, <2>3 DEF Plugin!SwitchFails, Plugin!Command
  <2>4. CASE \E a \in Plugin!ACE : Plugin!Choose(a)
    BY <1>2, <2>4 DEF Plugin!Choose
  <2> QED BY <2>1, <2>2, <2>3, <2>4
<1>4. Plugin!TypeOK'
  BY <1>1, <1>3 DEF PInv, Plugin!TypeOK
<1>5. PluginSane' /\ PluginPlace'
  BY <1>1, <1>3 DEF PInv, PluginSane, PluginPlace
<1>6. Plugin!FileKnows'
  BY <1>1, <1>2, <1>3 DEF PInv, Plugin!FileKnows
<1> QED BY <1>4, <1>5, <1>6 DEF PInv

\* The tick of one ACE.
LEMMA PluginTicks ==
    ASSUME PInv, NEW a \in Plugin!ACE, Plugin!TickOne(a)
    PROVE  PInv'
<1>1. PICK r \in Plugin!Readings :
        \/ Plugin!Quiet(a, r) /\ ppc' = "next" /\ pat' = pat + 1
        \/ Plugin!Trigger(a, r) /\ ppc' = "command" /\ pat' = pat
  BY DEF Plugin!TickOne
<1>2. /\ ppc = "switch" /\ pat = a
      /\ penabled' = penabled /\ pfile' = pfile /\ pcount' = pcount
      /\ pbusy' = pbusy /\ pevents' = pevents
      /\ pasking' \in [Plugin!ACE -> Plugin!Asking]
  <2>1. pasking' \in {pasking, [pasking EXCEPT ![a] = "blind"]}
    BY DEF Plugin!TickOne, Plugin!Overtakes
  <2>2. pasking \in [Plugin!ACE -> Plugin!Asking] /\ "blind" \in Plugin!Asking
    BY DEF PInv, Plugin!TypeOK, Plugin!Asking
  <2>3. pasking' \in [Plugin!ACE -> Plugin!Asking]
    BY <2>1, <2>2
  <2> QED BY <2>3 DEF Plugin!TickOne, Plugin!Ticking
<1>3. PluginSettled /\ \A b \in Plugin!ACE : b # a => pfsm'[b] = pfsm[b]
  BY <1>1, PluginQuiet, PluginTriggers
<1>4. pcount \in 1..N /\ pat \in 0..pcount /\ pat < pcount
  BY <1>2 DEF PInv, Plugin!TypeOK, PluginPlace
<1>5. /\ ppc' \in {"next", "command"} /\ pat' \in 0..pcount /\ pat =< pat'
      /\ ppc' = "command" => pat' < pcount
  BY <1>1, <1>4
<1>6. Plugin!TypeOK'
  BY <1>2, <1>3, <1>4, <1>5 DEF PInv, Plugin!TypeOK, PluginSettled
<1>7. PluginSane' /\ PluginPlace'
  BY <1>2, <1>3, <1>5 DEF PInv, PluginSane, PluginPlace, PluginSettled
<1>8. Plugin!FileKnows'
  <2> SUFFICES ASSUME NEW b \in Plugin!ACE, pfile'[b] # pfsm'[b]
               PROVE  ppc' # "sleep" /\ b =< pat'
    BY DEF Plugin!FileKnows
  <2>1. b = a \/ b =< pat
    BY <1>2, <1>3 DEF PInv, Plugin!FileKnows
  <2> QED BY <1>2, <1>4, <1>5, <2>1 DEF Plugin!ACE
<1> QED BY <1>6, <1>7, <1>8 DEF PInv

\* The end of a tick, and every request, leave in the file what there is.
LEMMA PluginSaves ==
    ASSUME PInv,
           \/ Plugin!EndTick
           \/ \E a \in Plugin!ACE : Plugin!DryAsk(a) \/ Plugin!ResetFault(a)
           \/ \E a \in Plugin!ACE : Plugin!DryFails(a) \/ Plugin!DryAnswered(a)
           \/ \E a \in Plugin!ACE, on \in BOOLEAN : Plugin!SetEnabled(a, on)
    PROVE  PInv'
<1> USE DEF Plugin!tick
<1>1. /\ Plugin!TypeOK /\ PluginSane /\ PluginPlace /\ Plugin!FileKnows
      /\ N \in Nat \ {0} /\ Events \in Nat
  BY PluginConstants DEF PInv
<1>2. /\ PluginSettled
      /\ \/ pfile' = pfsm'
         \/ pfile' = pfile /\ pfsm' = pfsm /\ ppc' = ppc /\ pat' = pat
  <2>1. CASE \/ Plugin!EndTick
             \/ \E a \in Plugin!ACE : Plugin!DryAsk(a)
             \/ \E a \in Plugin!ACE : Plugin!DryFails(a)
             \/ \E a \in Plugin!ACE, on \in BOOLEAN : Plugin!SetEnabled(a, on)
    <3>1. pfsm' = pfsm /\ peph' = peph
      BY <2>1 DEF Plugin!EndTick, Plugin!DryAsk, Plugin!DryFails, Plugin!SetEnabled
    <3>2. pfile' = pfsm \/ (pfile' = pfile /\ ppc' = ppc /\ pat' = pat)
      BY <2>1 DEF Plugin!EndTick, Plugin!DryAsk, Plugin!DryFails, Plugin!SetEnabled
    <3> QED BY <1>1, <3>1, <3>2 DEF PluginSettled, PluginSane, Plugin!TypeOK
  <2>2. ASSUME NEW a \in Plugin!ACE, Plugin!ResetFault(a)
        PROVE  PluginSettled /\ pfile' = pfsm'
    <3> DEFINE s == [Plugin!Moved(a, "IDLE") EXCEPT !.held = "no"]
    <3>1. s \in Plugin!Snapshot /\ Sane(s)
      BY PluginRecords DEF Plugin!Snapshot, Plugin!States, Plugin!Held, Plugin!Moved, Sane
    <3>2. Plugin!Becomes(a, s, peph[a]) /\ pfile' = pfsm'
      BY <2>2 DEF Plugin!ResetFault
    <3> HIDE DEF s
    <3> QED BY <3>1, <3>2, PluginRecords, PluginBecomes
  <2>3. ASSUME NEW a \in Plugin!ACE, Plugin!DryAnswered(a)
        PROVE  PluginSettled /\ pfile' = pfsm'
    <3> DEFINE s == [Plugin!Moved(a, "DRYING") EXCEPT !.held = Plugin!Swept(a)]
               e == [peph[a] EXCEPT !.started = 0]
    <3>1. a \in Plugin!ACE /\ Plugin!DryBegins(a) /\ pfile' = pfsm'
      BY <1>1, <2>3 DEF Plugin!DryAnswered, Plugin!TypeOK
    <3>2. s \in Plugin!Snapshot /\ Sane(s)
      <4>1. Plugin!Swept(a) \in Plugin!Held /\ Plugin!Swept(a) # "held"
        BY DEF Plugin!Swept, Plugin!Held
      <4> QED BY <3>1, <4>1, PluginRecords DEF Plugin!Snapshot, Plugin!States, Plugin!Moved, Sane
    <3>3. e \in Plugin!Ephemeral /\ Earned(e)
      BY <3>1, PluginRecords, PluginConstants DEF Plugin!Ephemeral, Plugin!Epoch, Earned
    <3>4. Plugin!Stays(a) \/ Plugin!Becomes(a, s, e)
      BY <3>1 DEF Plugin!DryBegins
    <3> HIDE DEF s, e
    <3> QED BY <3>1, <3>2, <3>3, <3>4, PluginStays, PluginBecomes
  <2> QED BY <2>1, <2>2, <2>3
<1>3. /\ penabled' \in [Plugin!ACE -> BOOLEAN] /\ pasking' \in [Plugin!ACE -> Plugin!Asking]
      /\ pevents' \in 0..Events
  <2>1. /\ penabled \in [Plugin!ACE -> BOOLEAN] /\ pasking \in [Plugin!ACE -> Plugin!Asking]
        /\ pevents \in 0..Events
    BY <1>1 DEF Plugin!TypeOK
  <2>2. \/ penabled' = penabled
        \/ \E a \in Plugin!ACE, on \in BOOLEAN : penabled' = [penabled EXCEPT ![a] = on]
    BY DEF Plugin!EndTick, Plugin!DryAsk, Plugin!DryFails,
       Plugin!SetEnabled, Plugin!ResetFault, Plugin!DryAnswered
  <2>3. \/ pasking' = pasking
        \/ \E a \in Plugin!ACE, x \in Plugin!Asking : pasking' = [pasking EXCEPT ![a] = x]
    BY DEF Plugin!EndTick, Plugin!DryAsk, Plugin!DryFails,
       Plugin!SetEnabled, Plugin!ResetFault, Plugin!DryAnswered, Plugin!Asking
  <2>4. pevents' = pevents \/ Plugin!Spend
    BY DEF Plugin!EndTick, Plugin!DryAsk, Plugin!DryFails,
       Plugin!SetEnabled, Plugin!ResetFault, Plugin!DryAnswered
  <2>5. pevents' \in 0..Events
    BY <1>1, <2>1, <2>4 DEF Plugin!Spend
  <2> QED BY <2>1, <2>2, <2>3, <2>5
<1>4. \/ ppc' = ppc /\ pat' = pat /\ pcount' = pcount /\ pbusy' = pbusy
      \/ ppc' = "sleep" /\ pat' = 0 /\ pcount' = 1 /\ pbusy' = FALSE
  BY DEF Plugin!EndTick, Plugin!DryAsk, Plugin!DryFails, Plugin!SetEnabled,
     Plugin!ResetFault, Plugin!DryAnswered, Plugin!Asleep
<1>5. Plugin!TypeOK'
  <2>1. /\ pcount' \in 1..N /\ pat' \in 0..pcount' /\ pbusy' \in BOOLEAN
        /\ ppc' \in {"sleep", "next", "switch", "command"}
    <3>1. CASE ppc' = ppc /\ pat' = pat /\ pcount' = pcount /\ pbusy' = pbusy
      <4>1. /\ pcount \in 1..N /\ pat \in 0..pcount /\ pbusy \in BOOLEAN
            /\ ppc \in {"sleep", "next", "switch", "command"}
        BY <1>1 DEF Plugin!TypeOK
      <4>2. pat' \in 0..pcount'
        BY <3>1, <4>1
      <4> QED BY <3>1, <4>1, <4>2
    <3>2. CASE ppc' = "sleep" /\ pat' = 0 /\ pcount' = 1 /\ pbusy' = FALSE
      <4>1. 1 \in 1..N /\ 0 \in 0..1
        BY <1>1
      <4> QED BY <3>2, <4>1, Zenon
    <3> QED BY <1>4, <3>1, <3>2
  <2>2. pfile' \in [Plugin!ACE -> Plugin!Snapshot]
    BY <1>1, <1>2 DEF PluginSettled, Plugin!TypeOK
  <2> QED BY <1>2, <1>3, <2>1, <2>2 DEF PluginSettled, Plugin!TypeOK
<1>6. PluginSane' /\ PluginPlace'
  BY <1>1, <1>2, <1>4 DEF PluginSettled, PluginSane, PluginPlace
<1>7. Plugin!FileKnows'
  BY <1>1, <1>2 DEF Plugin!FileKnows
<1> QED BY <1>5, <1>6, <1>7 DEF PInv

\* Time, which the file and the memory feel alike.
LEMMA PassedKeeps ==
    ASSUME NEW s \in Plugin!Snapshot, Sane(s)
    PROVE  Plugin!Passed(s) \in Plugin!Snapshot /\ Sane(Plugin!Passed(s))
<1> DEFINE cool == IF s.cool = 0 THEN 0 ELSE s.cool - 1
           rested == Plugin!Count(s.rest, Cooldown)
           u == [s EXCEPT !.cool = cool]
<1>1. /\ s.cool \in 0..Cooldown /\ s.rest \in 0..Cooldown /\ Cooldown \in Nat
      /\ s.rest + s.cool = Cooldown
  BY PluginConstants DEF Plugin!Snapshot, Sane
<1>2. rested = (IF s.rest < Cooldown THEN s.rest + 1 ELSE Cooldown) /\ rested \in 0..Cooldown
  BY <1>1, CountOfCap
<1>3. cool \in 0..Cooldown /\ rested + cool = Cooldown
  BY <1>1, <1>2
<1>4. u \in Plugin!Snapshot /\ u.cool = cool /\ u.held = s.held /\ u.state = s.state
  <2> HIDE DEF cool
  <2> QED BY <1>3 DEF Plugin!Snapshot
<1>5. Plugin!Passed(s) = [u EXCEPT !.rest = rested]
  BY DEF Plugin!Passed
<1> HIDE DEF cool, rested, u
<1> QED BY <1>2, <1>3, <1>4, <1>5 DEF Plugin!Snapshot, Sane

LEMMA PluginTime ==
    ASSUME PInv, Plugin!Pass \/ \E a \in Plugin!ACE : Plugin!DayPasses(a)
    PROVE  PInv'
<1> USE DEF Plugin!tick
<1>1. /\ penabled' = penabled /\ ppc' = ppc /\ pat' = pat /\ pcount' = pcount
      /\ pbusy' = pbusy /\ pasking' = pasking /\ pevents' = pevents
  BY DEF Plugin!Pass, Plugin!DayPasses
<1>2. /\ pfsm \in [Plugin!ACE -> Plugin!Snapshot]
      /\ pfile \in [Plugin!ACE -> Plugin!Snapshot]
      /\ peph \in [Plugin!ACE -> Plugin!Ephemeral]
      /\ \A a \in Plugin!ACE : Sane(pfsm[a]) /\ Earned(peph[a]) /\ Sane(pfile[a])
  BY DEF PInv, Plugin!TypeOK, PluginSane
<1>3. /\ PluginSettled
      /\ pfile' \in [Plugin!ACE -> Plugin!Snapshot]
      /\ \A a \in Plugin!ACE :
           Sane(pfile'[a]) /\ (pfile[a] = pfsm[a] => pfile'[a] = pfsm'[a])
  <2>1. CASE Plugin!Pass
    <3>1. \A a \in Plugin!ACE :
             /\ pfsm'[a] = Plugin!Passed(pfsm[a]) /\ pfile'[a] = Plugin!Passed(pfile[a])
             /\ pfsm'[a] \in Plugin!Snapshot /\ Sane(pfsm'[a])
             /\ pfile'[a] \in Plugin!Snapshot /\ Sane(pfile'[a])
      BY <1>2, <2>1, PassedKeeps DEF Plugin!Pass
    <3>2. ASSUME NEW a \in Plugin!ACE
          PROVE  peph'[a] \in Plugin!Ephemeral /\ Earned(peph'[a])
      <4> DEFINE t == IF peph[a].started = Plugin!Epoch THEN Plugin!Epoch
                      ELSE Plugin!Count(peph[a].started, MaxRun)
      <4>1. peph'[a] = [peph[a] EXCEPT !.started = t]
        BY <1>2, <2>1 DEF Plugin!Pass
      <4>2. /\ peph[a] \in Plugin!Ephemeral /\ Earned(peph[a]) /\ MaxRun \in Nat
            /\ peph[a].started \in Plugin!Epoch..MaxRun
        BY <1>2, PluginConstants DEF Plugin!Ephemeral
      <4>3. t \in Plugin!Epoch..MaxRun
        <5>1. CASE peph[a].started = Plugin!Epoch
          BY <4>2, <5>1 DEF Plugin!Epoch
        <5>2. CASE peph[a].started # Plugin!Epoch
          <6>1. peph[a].started \in 0..MaxRun
            BY <4>2, <5>2 DEF Plugin!Epoch
          <6> QED BY <4>2, <5>2, <6>1, CountOfCap DEF Plugin!Epoch
        <5> QED BY <5>1, <5>2
      <4> HIDE DEF t
      <4> QED BY <4>1, <4>2, <4>3 DEF Plugin!Ephemeral, Earned
    <3>3. /\ pfsm' = [a \in Plugin!ACE |-> pfsm'[a]] /\ pfile' = [a \in Plugin!ACE |-> pfile'[a]]
          /\ peph' = [a \in Plugin!ACE |-> peph'[a]]
      BY <2>1 DEF Plugin!Pass
    <3>4. /\ pfsm' \in [Plugin!ACE -> Plugin!Snapshot]
          /\ pfile' \in [Plugin!ACE -> Plugin!Snapshot]
          /\ peph' \in [Plugin!ACE -> Plugin!Ephemeral]
      BY <3>1, <3>2, <3>3
    <3> QED BY <3>1, <3>2, <3>4 DEF PluginSettled
  <2>2. ASSUME NEW a \in Plugin!ACE, Plugin!DayPasses(a)
        PROVE  <1>3!1 /\ <1>3!2 /\ <1>3!3
    <3>1. /\ pfsm' = [pfsm EXCEPT ![a].duty = 0] /\ pfile' = [pfile EXCEPT ![a].duty = 0]
          /\ peph' = peph
      BY <2>2 DEF Plugin!DayPasses
    <3>2. \A s \in Plugin!Snapshot : Sane(s) =>
            [s EXCEPT !.duty = 0] \in Plugin!Snapshot /\ Sane([s EXCEPT !.duty = 0])
      BY PluginConstants DEF Plugin!Snapshot, Sane
    <3> QED BY <1>2, <3>1, <3>2 DEF PluginSettled
  <2> QED BY <2>1, <2>2
<1>4. Plugin!TypeOK'
  BY <1>1, <1>3 DEF PInv, Plugin!TypeOK, PluginSettled
<1>5. PluginSane' /\ PluginPlace'
  BY <1>1, <1>3 DEF PInv, PluginSane, PluginPlace, PluginSettled
<1>6. Plugin!FileKnows'
  BY <1>1, <1>3 DEF PInv, Plugin!FileKnows
<1> QED BY <1>4, <1>5, <1>6 DEF PInv

LEMMA PluginRestarts ==
    ASSUME PInv, Plugin!Restart
    PROVE  PInv'
<1>1. Plugin!FreshEph \in Plugin!Ephemeral /\ Earned(Plugin!FreshEph)
  BY PluginConstants DEF Plugin!FreshEph, Plugin!Ephemeral, Plugin!Epoch, Earned
<1>2. /\ pfsm' = pfile /\ pfile' = pfile /\ penabled' = penabled
      /\ peph' = [a \in Plugin!ACE |-> Plugin!FreshEph]
      /\ ppc' = "sleep" /\ pat' = 0 /\ pcount' = 1 /\ pbusy' = FALSE
      /\ pasking' = [a \in Plugin!ACE |-> "no"] /\ pevents < Events /\ pevents' = pevents + 1
  BY DEF Plugin!Restart, Plugin!Asleep, Plugin!Spend
<1>3. Plugin!TypeOK'
  <2>1. pcount' \in 1..N /\ pat' \in 0..pcount' /\ pevents' \in 0..Events
    BY <1>2, PluginConstants DEF PInv, Plugin!TypeOK
  <2>2. /\ peph' \in [Plugin!ACE -> Plugin!Ephemeral]
        /\ pasking' \in [Plugin!ACE -> Plugin!Asking]
    BY <1>1, <1>2 DEF Plugin!Asking
  <2> QED BY <1>2, <2>1, <2>2 DEF PInv, Plugin!TypeOK
<1>4. PluginSane' /\ PluginPlace'
  BY <1>1, <1>2 DEF PInv, PluginSane, PluginPlace
<1>5. Plugin!FileKnows'
  BY <1>2 DEF Plugin!FileKnows
<1> QED BY <1>3, <1>4, <1>5 DEF PInv

LEMMA PluginSteps ==
    ASSUME PInv, [Plugin!Next]_Plugin!vars
    PROVE  PInv'
<1>1. CASE Plugin!Loop
  BY <1>1, PluginWalks, PluginTicks, PluginSaves DEF Plugin!Loop
<1>2. CASE Plugin!Requests
  BY <1>2, PluginSaves DEF Plugin!Requests
<1>3. CASE Plugin!Pass \/ \E a \in Plugin!ACE : Plugin!DayPasses(a)
  BY <1>3, PluginTime
<1>4. CASE Plugin!Restart
  BY <1>4, PluginRestarts
<1>5. CASE UNCHANGED Plugin!vars
  BY <1>5 DEF PInv, Plugin!TypeOK, PluginSane, PluginPlace, Plugin!FileKnows,
              Plugin!vars, Plugin!tick
<1> QED BY <1>1, <1>2, <1>3, <1>4, <1>5 DEF Plugin!Next

\* The plugin's records are sane and its tick is where it seems to be.
THEOREM PluginInductive == Plugin!Spec => []PInv
<1>1. Plugin!Init => PInv
  BY PluginStarts
<1>2. PInv /\ [Plugin!Next]_Plugin!vars => PInv'
  BY PluginSteps
<1> QED BY <1>1, <1>2, PTL DEF Plugin!Spec

\* What the plugin's variables hold.
THEOREM PluginTypeCorrect == Plugin!Spec => []Plugin!TypeOK
<1>1. PInv => Plugin!TypeOK
  BY DEF PInv
<1> QED BY <1>1, PluginInductive, PTL

\* The file lacks nothing but what this tick has made of the ACEs it has come to:
\* every answered request is in it, and every tick that is over.
THEOREM PluginFileCorrect == Plugin!Spec => []Plugin!FileKnows
<1>1. PInv => Plugin!FileKnows
  BY DEF PInv
<1> QED BY <1>1, PluginInductive, PTL

\* The plugin begins a run by itself only on enough wet ticks, a full cooldown after
\* the last run that ended well, and never while a fault waits for the user, whatever
\* requests and restarts come between; what a POST /dry sent before the fault does to
\* it is left out, as RunIsEarned says.
THEOREM PluginRunsEarned == Plugin!Spec => Plugin!RunIsEarned
<1>1. PInv /\ [Plugin!Next]_Plugin!vars =>
        [\A a \in Plugin!ACE : Plugin!Triggers(a) =>
            Plugin!Debounced(a) /\ Plugin!Rested(a) /\ Plugin!Cleared(a)]_Plugin!vars
  <2> SUFFICES ASSUME PInv, Plugin!Next, NEW a \in Plugin!ACE, Plugin!Triggers(a)
               PROVE  Plugin!Debounced(a) /\ Plugin!Rested(a) /\ Plugin!Cleared(a)
    OBVIOUS
  <2>1. ppc = "switch" /\ ppc' = "command" /\ pat = a
    BY DEF Plugin!Triggers
  <2>2. Plugin!TickOne(a)
    BY <2>1 DEF Plugin!Next, Plugin!Loop, Plugin!Requests, Plugin!StartTick,
       Plugin!PassOver, Plugin!SwitchFails, Plugin!Command, Plugin!EndTick,
       Plugin!Asleep, Plugin!Choose, Plugin!TickOne, Plugin!DryAsk, Plugin!ResetFault,
       Plugin!DryFails, Plugin!DryAnswered, Plugin!SetEnabled, Plugin!Pass,
       Plugin!DayPasses, Plugin!Restart, Plugin!Ticking, Plugin!tick
  <2>3. \E r \in Plugin!Readings : Plugin!Trigger(a, r)
    BY <2>1, <2>2 DEF Plugin!TickOne
  <2> QED BY <2>3, PluginTriggers
<1> QED BY <1>1, PluginInductive, PTL DEF Plugin!Spec, Plugin!RunIsEarned
=============================================================================
